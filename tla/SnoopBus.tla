------------------------------ MODULE SnoopBus ------------------------------
(***************************************************************************)
(* The memory system of `sim`: one MESI cache per core, one shared bus and *)
(* the main memory (cache.c), driven by the clock loop of main.c.          *)
(*                                                                         *)
(* In one clock cycle simulate_cores lets each core run its pipeline once, *)
(* in the order of the core numbers, and then calls snoop_bus once.  Of a  *)
(* core only the instruction in the MEM stage is kept: the cache and the   *)
(* bus see nothing else of it.  Which instruction comes next is left open. *)
(*                                                                         *)
(* An address is a record [tag, idx, off], as get_cache_address_parts      *)
(* splits it.                                                              *)
(***************************************************************************)
EXTENDS Integers

CONSTANTS
    NumCores,   \* NUM_CORES (bus_structs.h)
    Running,    \* the cores that have a program (IC # 0)
    NumLines,   \* NUM_BLOCKS, the lines of a cache
    NumTags,    \* how many blocks of main memory compete for a line
    BlockSize,  \* BLOCK_SIZE, the words of a line
    Stalls,     \* MAIN_MEMORY_STALLS
    Values      \* what a word can hold

NumCaches == 2  \* NUM_CACHES: how many caches check_shared_bus looks into
MemoryId  == 4  \* bus_origid of the main memory
NoId      == -1
Entries   == 0 .. 4  \* what the loop of BUS_RDX takes for the number of a cache

Cores == 0 .. NumCores - 1
Lines == 0 .. NumLines - 1
Tags  == 0 .. NumTags - 1
Words == 0 .. BlockSize - 1

ASSUME CoresAssumption == NumCores \in 2 .. 4 /\ Running \subseteq Cores
ASSUME SizeAssumption  == NumLines \in Nat \ {0} /\ NumTags \in Nat \ {0}
\* A block takes more than one transfer, and the write-back of a victim, one
\* word a cycle, fits into the stall of the main memory even if it starts with the second
\* cycle (4 words, 15 cycles).
ASSUME BlockAssumption == /\ BlockSize \in Nat /\ BlockSize > 1
                          /\ Stalls \in Nat /\ Stalls > BlockSize
ASSUME ValueAssumption == Values \subseteq Int /\ 0 \in Values

MESI     == {"INVALID", "SHARED", "EXCLUSIVE", "MODIFIED"}
Commands == {"NO_COMMAND", "BUS_RD", "BUS_RDX", "FLUSH"}
Addrs    == [tag : Tags, idx : Lines, off : Words]
NoAddr   == [tag |-> NoId, idx |-> NoId, off |-> NoId]

\* What can be in the MEM stage: an LW, an SW or anything else.
NoOp   == [kind |-> "none", addr |-> NoAddr, val |-> 0]
Loads  == [kind : {"lw"}, addr : Addrs, val : {0}]
Stores == [kind : {"sw"}, addr : Addrs, val : Values]
Ops    == Loads \cup Stores \cup {NoOp}

\* MESI_bus, as far as control depends on it.
Bus == [cmd : Commands, origid : Cores \cup {MemoryId, NoId}, reqId : Cores,
        reqAddr : Addrs \cup {NoAddr}, busy : BOOLEAN, stall : BOOLEAN,
        shared : BOOLEAN, wr : BOOLEAN, wbuf : Values]

VARIABLES
    turn,       \* whose code simulate_cores runs next; NumCores: snoop_bus
    memOp,      \* memOp[c]: the instruction in core c's MEM stage
    loaded,     \* loaded[c]: the value core c's last LW left in its register
    memStalls,  \* memStalls[c]: memory_stalls of cache c
    mesi,       \* mesi[c][i], tag[c][i], dsram[c][i][w]: line i of cache c
    tag,
    dsram,
    mem,        \* mem[t][i][w]: main memory
    bus,        \* the MESI_bus structure
    num_words_sent, block_offset_counter, main_memory_stalls_counter,
    modified_block_memory_write,
    requesting_address, modified_flag,  \* statics of write_to_main_memory
    overrun     \* something has been stored past the end of an array

cacheVars   == <<mesi, tag, dsram>>
counterVars == <<num_words_sent, block_offset_counter,
                 main_memory_stalls_counter, modified_block_memory_write>>
staticVars  == <<requesting_address, modified_flag>>
coreVars    == <<memOp, loaded>>
vars == <<turn, coreVars, memStalls, cacheVars, mem, bus, counterVars,
          staticVars, overrun>>

TypeOK ==
    /\ turn \in 0 .. NumCores
    /\ memOp \in [Cores -> Ops]
    /\ loaded \in [Cores -> Values]
    /\ memStalls \in [Cores -> BOOLEAN]
    /\ mesi \in [Cores -> [Lines -> MESI]]
    /\ tag \in [Cores -> [Lines -> Tags]]
    /\ dsram \in [Cores -> [Lines -> [Words -> Values]]]
    /\ mem \in [Tags -> [Lines -> [Words -> Values]]]
    /\ bus \in Bus
    /\ num_words_sent \in 0 .. BlockSize
    /\ block_offset_counter \in 0 .. BlockSize
    /\ main_memory_stalls_counter \in 0 .. Stalls
    /\ modified_block_memory_write \in 0 .. BlockSize
    /\ requesting_address \in [tag : Tags, idx : Lines]
    /\ modified_flag \in BOOLEAN
    /\ overrun \in BOOLEAN

\* bus_requesting_id and memory_stalls are not initialised: they hold what was
\* there. Nobody looks at memory_stalls of a core without a program, so one
\* value stands for all of them there.
Init ==
    /\ turn = 0
    /\ memOp = [c \in Cores |-> NoOp]
    /\ loaded = [c \in Cores |-> 0]
    /\ memStalls \in {m \in [Cores -> BOOLEAN] :
                        \A c \in Cores \ Running : ~m[c]}
    /\ mesi = [c \in Cores |-> [i \in Lines |-> "INVALID"]]
    /\ tag = [c \in Cores |-> [i \in Lines |-> 0]]
    /\ dsram = [c \in Cores |-> [i \in Lines |-> [w \in Words |-> 0]]]
    /\ mem \in [Tags -> [Lines -> [Words -> Values]]]
    /\ \E id \in Cores :
         bus = [cmd |-> "NO_COMMAND", origid |-> 0, reqId |-> id,
                reqAddr |-> [tag |-> 0, idx |-> 0, off |-> 0],
                busy |-> FALSE, stall |-> FALSE, shared |-> FALSE,
                wr |-> FALSE, wbuf |-> 0]
    /\ num_words_sent = 0 /\ block_offset_counter = 0
    /\ main_memory_stalls_counter = 0 /\ modified_block_memory_write = 0
    /\ requesting_address = [tag |-> 0, idx |-> 0] /\ modified_flag = FALSE
    /\ overrun = FALSE

-----------------------------------------------------------------------------
(***************************************************************************)
(* The cores.                                                              *)
(***************************************************************************)

\* Cache c holds the block of address a.
Cached(c, a) == mesi[c][a.idx] # "INVALID" /\ tag[c][a.idx] = a.tag

\* Mutant of SendOp: whoever asks gets the bus.
MutSendOp(b, c, cmd, a) ==
    [b EXCEPT !.origid = c, !.cmd = cmd, !.reqId = c, !.reqAddr = a,
              !.busy = TRUE]

\* send_op_to_bus: the bus b after core c asked for it.  A bus that is taken
\* stays as it is: the request is not kept anywhere.
SendOp(b, c, cmd, a) ==
    IF b.busy THEN b
    ELSE [b EXCEPT !.origid = c, !.cmd = cmd, !.reqId = c, !.reqAddr = a,
                   !.busy = TRUE]

\* simulate_cores skips a core without a program.
CoreSkip(c) ==
    /\ turn = c /\ c \notin Running
    /\ turn' = turn + 1
    /\ UNCHANGED <<coreVars, memStalls, cacheVars, mem, bus, counterVars,
                   staticVars, overrun>>

\* detect_hazard: while the bus is taken a core that missed shifts nothing
\* out of its MEM stage.
Stalled(c) == bus.busy /\ memStalls[c]

CoreStalled(c) ==
    /\ turn = c /\ c \in Running
    /\ Stalled(c)
    /\ turn' = turn + 1
    /\ UNCHANGED <<coreVars, memStalls, cacheVars, mem, bus, counterVars,
                   staticVars, overrun>>

\* The pipeline shifts: writeback_state of the instruction that leaves MEM (an
\* LW takes the word from the line of its index, whatever the tag), then op
\* enters MEM.
Advance(c, op) ==
    /\ turn = c /\ c \in Running
    /\ ~Stalled(c)
    /\ turn' = turn + 1
    /\ memOp' = [memOp EXCEPT ![c] = op]
    /\ loaded' = IF memOp[c].kind = "lw"
                 THEN [loaded EXCEPT ![c] =
                         dsram[c][memOp[c].addr.idx][memOp[c].addr.off]]
                 ELSE loaded
    /\ UNCHANGED <<mem, counterVars, staticVars, overrun>>

\* memory_state of an instruction that is neither LW nor SW, or of a bubble.  If
\* a bubble leaves MEM too, writeback_state does not run either.
NoMemoryOp(c) ==
    /\ Advance(c, NoOp)
    /\ \/ memStalls' = [memStalls EXCEPT ![c] = FALSE]
       \/ memOp[c] = NoOp /\ UNCHANGED memStalls
    /\ UNCHANGED <<cacheVars, bus>>

\* cache_read
ReadHit(c, op) ==
    /\ Advance(c, op)
    /\ Cached(c, op.addr)
    /\ memStalls' = [memStalls EXCEPT ![c] = FALSE]
    /\ UNCHANGED <<cacheVars, bus>>

ReadMiss(c, op) ==
    /\ Advance(c, op)
    /\ ~Cached(c, op.addr)
    /\ memStalls' = [memStalls EXCEPT ![c] = TRUE]
    /\ bus' = SendOp(bus, c, "BUS_RD", op.addr)
    /\ UNCHANGED cacheVars

\* Mutant of Dirtied: a store to an exclusive line leaves it exclusive.
MutDirtied(c, i) == mesi

\* mesi after a store hit a line of core c.
Dirtied(c, i) == [mesi EXCEPT ![c][i] = "MODIFIED"]

\* cache_write
WriteHitOwned(c, op) ==
    /\ Advance(c, op)
    /\ Cached(c, op.addr) /\ mesi[c][op.addr.idx] # "SHARED"
    /\ memStalls' = [memStalls EXCEPT ![c] = FALSE]
    /\ dsram' = [dsram EXCEPT ![c][op.addr.idx][op.addr.off] = op.val]
    /\ mesi' = Dirtied(c, op.addr.idx)
    /\ UNCHANGED <<tag, bus>>

\* A store to a shared line asks for the bus and returns BUS_RDX, which
\* memory_state takes for a hit: the core does not wait.  The bus write buffer
\* is overwritten whether the bus is free or not.
WriteHitShared(c, op) ==
    /\ Advance(c, op)
    /\ Cached(c, op.addr) /\ mesi[c][op.addr.idx] = "SHARED"
    /\ memStalls' = [memStalls EXCEPT ![c] = FALSE]
    /\ bus' = SendOp([bus EXCEPT !.wbuf = op.val], c, "BUS_RDX", op.addr)
    /\ UNCHANGED cacheVars

WriteMiss(c, op) ==
    /\ Advance(c, op)
    /\ ~Cached(c, op.addr)
    /\ memStalls' = [memStalls EXCEPT ![c] = TRUE]
    /\ bus' = SendOp([bus EXCEPT !.wbuf = op.val], c, "BUS_RDX", op.addr)
    /\ UNCHANGED cacheVars

CoreStep(c) ==
    \/ CoreSkip(c)
    \/ CoreStalled(c)
    \/ NoMemoryOp(c)
    \/ \E op \in Loads  : ReadHit(c, op) \/ ReadMiss(c, op)
    \/ \E op \in Stores : WriteHitOwned(c, op) \/ WriteHitShared(c, op)
                             \/ WriteMiss(c, op)
-----------------------------------------------------------------------------
(***************************************************************************)
(* The transfer of a block.                                                *)
(***************************************************************************)

\* Mutants of Released: a field is not reset, or one too many.
MutReleasedBusy(b) ==
    [b EXCEPT !.cmd = "NO_COMMAND", !.origid = NoId, !.reqAddr = NoAddr,
              !.stall = FALSE, !.shared = FALSE, !.wr = FALSE, !.wbuf = 0]
MutReleasedWr(b) ==
    [b EXCEPT !.busy = FALSE, !.cmd = "NO_COMMAND", !.origid = NoId,
              !.reqAddr = NoAddr, !.stall = FALSE, !.shared = FALSE, !.wbuf = 0]

\* The bus when a transaction is over (end of the FLUSH case of snoop_bus).
\* BlockSize > 1, so no transaction ends in another case.
Released(b) ==
    [b EXCEPT !.busy = FALSE, !.cmd = "NO_COMMAND", !.origid = NoId,
              !.reqAddr = NoAddr, !.stall = FALSE, !.shared = FALSE,
              !.wr = FALSE, !.wbuf = 0]

\* Mutant of VictimDirty: the state is looked at again for every word.
MutVictimDirty(state) == state = "MODIFIED"

\* Whether the line that is being replaced is to be written back: decided when
\* nothing of it has been written yet.  state is its MESI state.
VictimDirty(state) ==
    IF modified_block_memory_write = 0 THEN state = "MODIFIED"
    ELSE modified_flag

\* write_to_main_memory: the next word of line i of cache c.
WriteToMainMemory(c, i, state) ==
    LET k      == modified_block_memory_write
        dirty  == VictimDirty(state)
        victim == IF k = 0 THEN [tag |-> tag[c][i], idx |-> i]
                  ELSE requesting_address
    IN  /\ modified_flag' = dirty
        /\ IF dirty /\ k < BlockSize
           THEN /\ requesting_address' = victim
                /\ mem' = [mem EXCEPT ![victim.tag][victim.idx][k] =
                                         dsram[c][victim.idx][k]]
                /\ modified_block_memory_write' = k + 1
           ELSE UNCHANGED <<requesting_address, mem,
                            modified_block_memory_write>>

\* Mutant of NewTag: the line keeps its tag.
MutNewTag(c, a) == tag

\* tag after the line for address a in cache c has been given to a's block.
NewTag(c, a) == [tag EXCEPT ![c][a.idx] = a.tag]

\* flush_from_main_memory while the memory is busy.  b is the bus as the
\* handler left it.
MemoryStall(b, state) ==
    LET r == b.reqId
        a == b.reqAddr
    IN  /\ WriteToMainMemory(r, a.idx, state)
        /\ main_memory_stalls_counter' = main_memory_stalls_counter + 1
        /\ tag' = NewTag(r, a)
        /\ bus' = [b EXCEPT !.stall = TRUE]
        /\ UNCHANGED <<num_words_sent, block_offset_counter, memStalls>>

\* flush_from_main_memory once it answers: the next word goes to the bus and
\* into the requester's line; the word of a store is put back over it.
MemoryWord(b) ==
    LET r    == b.reqId
        a    == b.reqAddr
        k    == block_offset_counter
        last == num_words_sent + 1 = BlockSize
        sent == [dsram EXCEPT ![r][a.idx][k] = mem[a.tag][a.idx][k]]
    IN  /\ dsram' = IF b.wr THEN [sent EXCEPT ![r][a.idx][a.off] = b.wbuf]
                    ELSE sent
        /\ IF last
           THEN /\ bus' = Released(b)
                /\ num_words_sent' = 0 /\ block_offset_counter' = 0
                /\ main_memory_stalls_counter' = 0
                /\ modified_block_memory_write' = 0
                /\ memStalls' = [memStalls EXCEPT ![r] = FALSE]
           ELSE /\ bus' = [b EXCEPT !.stall = FALSE, !.cmd = "FLUSH",
                                    !.origid = MemoryId]
                /\ num_words_sent' = num_words_sent + 1
                /\ block_offset_counter' = k + 1
                /\ UNCHANGED <<main_memory_stalls_counter, memStalls,
                               modified_block_memory_write>>
        /\ UNCHANGED <<tag, mem, staticVars, overrun>>

\* Mutant of MemoryAnswers: the memory answers before the victim is out.
MutMemoryAnswers == main_memory_stalls_counter >= BlockSize - 1

MemoryAnswers == main_memory_stalls_counter >= Stalls

FlushFromMainMemory(b, state) ==
    IF MemoryAnswers THEN MemoryWord(b)
    ELSE MemoryStall(b, state) /\ UNCHANGED <<dsram, overrun>>

\* flush_from_cache: the next word of src's line goes to the requester and to
\* the main memory.  A second store, data[bus_addr] in the requester's line,
\* lands in line tag * NumLines + 2 * idx of the DSRAM: past its end for most
\* addresses.  A store's value goes into that word, not into data[off].  The
\* requester's tag is not set.  bus_shared is set, and taken back by the handler
\* of BUS_RDX.
StrayLine(a) == a.tag * NumLines + 2 * a.idx

CacheWord(b, src) ==
    LET r     == b.reqId
        a     == b.reqAddr
        k     == block_offset_counter
        word  == dsram[src][a.idx][k]
        sent  == [dsram EXCEPT ![r][a.idx][k] = word]
        stray == StrayLine(a)
    IN  /\ mem' = [mem EXCEPT ![a.tag][a.idx][k] = word]
        /\ dsram' = IF stray \in Lines
                    THEN [sent EXCEPT ![r][stray][k] =
                                         IF b.wr THEN b.wbuf ELSE word]
                    ELSE sent
        /\ overrun' = (overrun \/ stray \notin Lines)
        /\ bus' = [b EXCEPT !.cmd = "FLUSH", !.wr = FALSE,
                            !.shared = bus.cmd # "BUS_RDX"]
        /\ num_words_sent' = num_words_sent + 1
        /\ block_offset_counter' = k + 1
        /\ UNCHANGED main_memory_stalls_counter

CacheDone(b) ==
    /\ bus' = Released(b)
    /\ num_words_sent' = 0 /\ block_offset_counter' = 0
    /\ main_memory_stalls_counter' = 0
    /\ UNCHANGED <<mem, dsram, overrun>>

FlushFromCache(b, src) ==
    /\ IF num_words_sent < BlockSize THEN CacheWord(b, src) ELSE CacheDone(b)
    /\ UNCHANGED <<tag, memStalls, modified_block_memory_write, staticVars>>
-----------------------------------------------------------------------------
(***************************************************************************)
(* snoop_bus, once per cycle.                                              *)
(***************************************************************************)

\* check_shared_bus: the caches that own the requested block, as far as it
\* looks.  The handlers use the first of them.
Owners == {c \in Cores : /\ c < NumCaches /\ c # bus.reqId
                         /\ Cached(c, bus.reqAddr)}
FirstOwner(o) == o \in Owners /\ \A d \in Owners : o <= d

OwnerState(o) == mesi[o][bus.reqAddr.idx]
RequesterState == OwnerState(bus.reqId)

\* mesi after the line of the requested index of every cache in S has got
\* state s.
SetState(m, S, s) ==
    [c \in Cores |-> IF c \in S THEN [m[c] EXCEPT ![bus.reqAddr.idx] = s]
                     ELSE m[c]]

Snoop == turn = NumCores /\ turn' = 0 /\ UNCHANGED coreVars

SnoopIdle ==
    /\ Snoop /\ bus.cmd = "NO_COMMAND"
    /\ bus' = [bus EXCEPT !.shared = FALSE]
    /\ UNCHANGED <<memStalls, cacheVars, mem, counterVars, staticVars, overrun>>

\* case BUS_RD
SnoopReadStalled ==
    /\ Snoop /\ bus.cmd = "BUS_RD" /\ bus.stall
    /\ FlushFromMainMemory(bus, RequesterState)
    /\ UNCHANGED mesi

SnoopReadModified(o) ==
    /\ Snoop /\ bus.cmd = "BUS_RD" /\ ~bus.stall
    /\ FirstOwner(o) /\ OwnerState(o) = "MODIFIED"
    /\ FlushFromCache(bus, o)
    /\ mesi' = SetState(mesi, {bus.reqId, bus.origid, o}, "SHARED")

\* Mutant of SnoopReadClean: an exclusive owner stays exclusive.
MutSnoopReadClean(o) ==
    /\ Snoop /\ bus.cmd = "BUS_RD" /\ ~bus.stall
    /\ FirstOwner(o) /\ OwnerState(o) \in {"SHARED", "EXCLUSIVE"}
    /\ FlushFromMainMemory(bus, RequesterState)
    /\ mesi' = SetState(mesi, {bus.reqId}, "SHARED")

SnoopReadClean(o) ==
    /\ Snoop /\ bus.cmd = "BUS_RD" /\ ~bus.stall
    /\ FirstOwner(o) /\ OwnerState(o) \in {"SHARED", "EXCLUSIVE"}
    /\ FlushFromMainMemory(bus, RequesterState)
    /\ mesi' = SetState(mesi, {bus.reqId, o}, "SHARED")

SnoopReadMemory ==
    /\ Snoop /\ bus.cmd = "BUS_RD" /\ ~bus.stall
    /\ Owners = {}
    /\ FlushFromMainMemory(bus, RequesterState)
    /\ mesi' = SetState(mesi, {bus.reqId}, "EXCLUSIVE")

\* case BUS_RDX: the bus with wr set, whatever the owner.
Writing == [bus EXCEPT !.wr = TRUE]

\* The loop that invalidates the owners of a shared block ends at the first
\* entry outside 0 .. 4, but the array ends at the last owner: extra are the
\* entries it reads beyond.  One that is no core's number is a store outside
\* `caches`.  Then the store of the request goes into the line at once, also when that
\* line is a dirty victim no word of which after the first has been written back.
\* ~MemoryAnswers is no test of the code: the memory has not been asked yet when
\* there still is a shared owner (AloneToWrite of SnoopBusInvariant).
SnoopRdxShared(o, extra) ==
    LET a    == bus.reqAddr
        r    == bus.reqId
        shot == SetState(mesi, Owners \cup extra, "INVALID")
    IN  /\ Snoop /\ bus.cmd = "BUS_RDX"
        /\ FirstOwner(o) /\ OwnerState(o) = "SHARED"
        /\ ~MemoryAnswers
        /\ MemoryStall(Writing, shot[r][a.idx])
        /\ mesi' = SetState(shot, {r}, "MODIFIED")
        /\ dsram' = [dsram EXCEPT ![r][a.idx][a.off] = bus.wbuf]
        /\ overrun' = (overrun \/ ~(extra \subseteq Cores))

SnoopRdxExclusive(o) ==
    /\ Snoop /\ bus.cmd = "BUS_RDX"
    /\ FirstOwner(o) /\ OwnerState(o) = "EXCLUSIVE"
    /\ FlushFromMainMemory([Writing EXCEPT !.shared = FALSE], RequesterState)
    /\ mesi' = SetState(SetState(mesi, {o}, "INVALID"), {bus.reqId}, "MODIFIED")

SnoopRdxModified(o) ==
    /\ Snoop /\ bus.cmd = "BUS_RDX"
    /\ FirstOwner(o) /\ OwnerState(o) = "MODIFIED"
    /\ FlushFromCache(Writing, o)
    /\ mesi' = SetState(SetState(mesi, {bus.reqId}, "MODIFIED"), {o}, "INVALID")

SnoopRdxMemory ==
    /\ Snoop /\ bus.cmd = "BUS_RDX"
    /\ Owners = {}
    /\ FlushFromMainMemory(Writing, RequesterState)
    /\ mesi' = IF MemoryAnswers THEN SetState(mesi, {bus.reqId}, "MODIFIED")
               ELSE mesi

\* case FLUSH
SnoopFlushMemory ==
    /\ Snoop /\ bus.cmd = "FLUSH" /\ bus.origid = MemoryId
    /\ FlushFromMainMemory(bus, RequesterState)
    /\ UNCHANGED mesi

\* bus_origid still names the requester: it copies from its own line.
SnoopFlushCache ==
    /\ Snoop /\ bus.cmd = "FLUSH" /\ bus.origid # MemoryId
    /\ FlushFromCache(bus, bus.origid)
    /\ UNCHANGED mesi

SnoopStep ==
    \/ SnoopIdle
    \/ SnoopReadStalled
    \/ \E o \in Cores : SnoopReadModified(o) \/ SnoopReadClean(o)
    \/ SnoopReadMemory
    \/ \E o \in Cores, extra \in SUBSET Entries : SnoopRdxShared(o, extra)
    \/ \E o \in Cores : SnoopRdxExclusive(o) \/ SnoopRdxModified(o)
    \/ SnoopRdxMemory
    \/ SnoopFlushMemory
    \/ SnoopFlushCache

Next == (\E c \in Cores : CoreStep(c)) \/ SnoopStep

Spec == Init /\ [][Next]_vars

\* One thread runs the loop of simulate_cores: it always takes its next step.
FairSpec == Spec /\ WF_vars(Next)
-----------------------------------------------------------------------------
(***************************************************************************)
(* Properties.                                                             *)
(***************************************************************************)

\* The four counters of cache.c live on between transactions, and each of the
\* ways a transaction ends resets its own choice of them.  Whichever way the
\* last one ended, the next finds the bus and all the counters clean.
IdleClean ==
    /\ bus.busy <=> bus.cmd # "NO_COMMAND"
    /\ num_words_sent = block_offset_counter
    /\ ~bus.busy => /\ ~bus.stall /\ ~bus.wr
                    /\ num_words_sent = 0 /\ main_memory_stalls_counter = 0
                    /\ modified_block_memory_write = 0

\* Of the caches in S, one that may write a block is the only one to hold it.
SingleWriterIn(S) ==
    \A c, d \in S : \A i \in Lines :
        /\ c # d
        /\ mesi[c][i] \in {"EXCLUSIVE", "MODIFIED"}
        /\ mesi[d][i] # "INVALID"
        => tag[c][i] # tag[d][i]

\* Coherence (snoop_bus) among the caches that check_shared_bus looks into.
SingleWriter == ~overrun => SingleWriterIn({c \in Cores : c < NumCaches})

\* Between transactions a line that is not modified is a copy of main memory
\* (flush_from_main_memory, flush_from_cache).
CleanMatchesMemory ==
    \A c \in Cores, i \in Lines :
        ~bus.busy /\ mesi[c][i] \in {"SHARED", "EXCLUSIVE"}
        => dsram[c][i] = mem[tag[c][i]][i]

\* An LW leaves the MEM stage only with its block in the cache, so that
\* writeback_state, which looks at the index only, takes the word asked for.
LoadServed ==
    [][\A c \in Cores :
         turn = c /\ c \in Running /\ ~Stalled(c) /\ memOp[c].kind = "lw"
         => Cached(c, memOp[c].addr)]_vars

\* How many more calls of snoop_bus the transaction takes at most.
CyclesLeft ==
    IF bus.cmd = "FLUSH" /\ bus.origid # MemoryId
    THEN BlockSize + 1 - num_words_sent
    ELSE Stalls - main_memory_stalls_counter + (BlockSize - num_words_sent)

\* Every call of snoop_bus brings the transaction nearer to its end, whichever case of it
\* is taken and whatever it has left in the counters; the cores leave it alone.
TransactionAdvances ==
    [][bus.busy /\ bus'.busy =>
          IF turn = NumCores THEN CyclesLeft' < CyclesLeft
          ELSE CyclesLeft' = CyclesLeft]_vars

\* Every transaction comes to its end (snoop_bus frees the bus).
BusFreed == bus.busy ~> ~bus.busy
-----------------------------------------------------------------------------
(***************************************************************************)
(* What comments say of the program and the program does not do.           *)
(***************************************************************************)

\* check_shared_bus: "check if a block is in another cache. if yes, return
\* array of all caches_id that have the block".
SingleWriterAll == ~overrun => SingleWriterIn(Cores)

\* cache_read: "if it's in another cache, they will send the data to the bus and
\* shared = 1".  Between transactions two shared copies of a block are equal.
SharedCopiesAgree ==
    \A c, d \in Cores, i \in Lines :
        /\ ~bus.busy
        /\ mesi[c][i] = "SHARED" /\ mesi[d][i] = "SHARED"
        /\ tag[c][i] = tag[d][i]
        => dsram[c][i] = dsram[d][i]

\* cache_write, on a miss: "Check if the cache line is dirty and needs to be
\* written back to memory".  The block that is being fetched is no victim.
OnlyVictimWritten ==
    bus.stall /\ modified_block_memory_write > 0
    => requesting_address # [tag |-> bus.reqAddr.tag, idx |-> bus.reqAddr.idx]
=============================================================================
