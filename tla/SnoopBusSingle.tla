--------------------------- MODULE SnoopBusSingle ---------------------------
(***************************************************************************)
(* A single running core: caches, bus and main memory together implement   *)
(* one flat memory.                                                        *)
(***************************************************************************)
EXTENDS SnoopBus

Solo == CHOOSE c \in Running : TRUE

\* The block on the bus is in main memory until the transfer is over.
InTransfer(a) ==
    bus.busy /\ bus.reqAddr.tag = a.tag /\ bus.reqAddr.idx = a.idx

\* The part of the victim that write_to_main_memory has not written yet is
\* found nowhere but in the line, whose tag is that of the new block already.
NotWrittenBack(a) ==
    /\ modified_block_memory_write > 0
    /\ requesting_address = [tag |-> a.tag, idx |-> a.idx]
    /\ a.off >= modified_block_memory_write

\* Where the value of an address is.
Word(a) ==
    IF ~InTransfer(a) /\ (NotWrittenBack(a) \/ Cached(Solo, a))
    THEN dsram[Solo][a.idx][a.off]
    ELSE mem[a.tag][a.idx][a.off]

Flat == INSTANCE FlatMemory WITH
            store <- [a \in Addrs |-> Word(a)],
            op    <- memOp[Solo],
            done  <- ~Stalled(Solo),
            reg   <- loaded[Solo]

\* With one running core the four caches, the write-back of victims and the
\* stalls of the main memory are invisible: a load returns the last value
\* stored to its address.
ImplementsFlatMemory == Flat!Spec

\* Every access that misses completes (memory_stalls is taken back).
AccessesComplete == Flat!Fairness
-----------------------------------------------------------------------------
(***************************************************************************)
(* Why it does: what the transaction under way has done to the line, to    *)
(* the victim and to main memory.                                          *)
(***************************************************************************)
MyOp   == memOp[Solo]
MyLine == mesi[Solo][bus.reqAddr.idx]

\* The transaction has begun to change the line: its state and tag say nothing
\* of its words.
Filling == bus.busy /\ (bus.stall \/ bus.cmd = "FLUSH")

OthersEmpty ==
    \A c \in Cores, i \in Lines :
        IF c = Solo THEN mesi[c][i] # "SHARED" ELSE mesi[c][i] = "INVALID"

\* A transaction is that of the instruction in MEM, which waits for it.
OwnTransaction ==
    bus.busy =>
        /\ bus.reqId = Solo /\ memStalls[Solo]
        /\ bus.reqAddr = MyOp.addr
        /\ MyOp \in IF bus.cmd = "BUS_RDX" \/ bus.wr THEN Stores ELSE Loads
        /\ bus.cmd = "BUS_RD" => ~bus.wr
        /\ bus.cmd = "FLUSH" => bus.origid = MemoryId
        /\ MyOp.kind = "sw" => bus.wbuf = MyOp.val

Served == ~bus.busy /\ MyOp.kind = "lw" => Cached(Solo, MyOp.addr)

CleanLines ==
    \A i \in Lines :
        mesi[Solo][i] = "EXCLUSIVE" /\ ~(Filling /\ bus.reqAddr.idx = i)
        => dsram[Solo][i] = mem[tag[Solo][i]][i]

\* Before: the block is not there.  While memory stalls: the words of a dirty
\* victim that have been written back are in main memory.
Before == bus.busy /\ ~Filling => ~Cached(Solo, bus.reqAddr)

WritingBack ==
    Filling =>
        IF modified_flag
        THEN /\ modified_block_memory_write > 0
             /\ requesting_address.idx = bus.reqAddr.idx
             /\ requesting_address.tag # bus.reqAddr.tag
             /\ \A w \in 0 .. modified_block_memory_write - 1 :
                    bus.stall => mem[requesting_address.tag][bus.reqAddr.idx][w]
                                    = dsram[Solo][bus.reqAddr.idx][w]
        ELSE /\ modified_block_memory_write = 0
             /\ bus.stall => MyLine # "MODIFIED"

\* The words that have come are those of main memory but for the one that is stored.
Fetched ==
    bus.cmd = "FLUSH" =>
        /\ MyLine = IF bus.wr THEN "MODIFIED" ELSE "EXCLUSIVE"
        /\ tag[Solo][bus.reqAddr.idx] = bus.reqAddr.tag
        /\ \A w \in 0 .. num_words_sent - 1 :
                ~(bus.wr /\ w = bus.reqAddr.off) =>
                    dsram[Solo][bus.reqAddr.idx][w] = mem[bus.reqAddr.tag][bus.reqAddr.idx][w]
        /\ bus.wr => dsram[Solo][bus.reqAddr.idx][bus.reqAddr.off] = bus.wbuf

\* A line that is being filled for a load is EXCLUSIVE from the first cycle on.
FillState == bus.cmd = "BUS_RD" /\ bus.stall => MyLine = "EXCLUSIVE"

\* With IInv of SnoopBusInvariant this is inductive for one running core.
SoloInv ==
    /\ OthersEmpty /\ OwnTransaction /\ Served /\ CleanLines
    /\ Before /\ WritingBack /\ Fetched /\ FillState
=============================================================================
