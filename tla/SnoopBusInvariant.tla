-------------------------- MODULE SnoopBusInvariant --------------------------
(***************************************************************************)
(* The inductive invariant of SnoopBus.  It says, phase by phase, what a   *)
(* transaction has done so far: that is kept in the bus command, in stall  *)
(* and in four counters, and no piece of the code looks at all of them.    *)
(***************************************************************************)
EXTENDS SnoopBus

Scanned == {c \in Cores : c < NumCaches}

ReqLine == mesi[bus.reqId][bus.reqAddr.idx]
Asking  == bus.cmd \in {"BUS_RD", "BUS_RDX"}
FromMemory == bus.cmd = "FLUSH" /\ bus.origid = MemoryId
FromCache  == bus.cmd = "FLUSH" /\ bus.origid # MemoryId

\* The counters and the bus in each phase: idle, asking (waiting for the memory
\* or not), memory sends, a cache sends.
Phases ==
    /\ bus.busy <=> bus.cmd # "NO_COMMAND"
    /\ bus.busy => bus.reqAddr \in Addrs
    /\ num_words_sent = block_offset_counter
    /\ ~bus.busy => ~bus.stall /\ ~bus.wr
    /\ bus.cmd # "FLUSH" => num_words_sent = 0
    /\ Asking => bus.origid = bus.reqId
    /\ ~bus.stall /\ ~FromMemory => /\ main_memory_stalls_counter = 0
                                    /\ modified_block_memory_write = 0
    /\ FromMemory => /\ ~bus.stall
                     /\ main_memory_stalls_counter = Stalls
                     /\ num_words_sent > 0 /\ num_words_sent < BlockSize
    /\ FromCache => ~bus.stall /\ bus.origid = bus.reqId

\* While the memory stalls, the requester's line has got its new tag.
TagGiven == bus.stall => tag[bus.reqId][bus.reqAddr.idx] = bus.reqAddr.tag

\* Once a BUS_RDX waits for the memory nobody else owns the block.
AloneToWrite == bus.cmd = "BUS_RDX" /\ bus.stall => Owners = {}

\* A requester that could dirty its line behind the bus's back waits.
RequesterWaits ==
    /\ bus.cmd = "BUS_RD" => memStalls[bus.reqId]
    /\ bus.cmd = "BUS_RDX" /\ ReqLine = "EXCLUSIVE" => memStalls[bus.reqId]

\* The write-back of a victim starts in the first or the second cycle of the
\* stall or not at all, and goes on by one word in every cycle.
WriteBackPace ==
    /\ bus.stall /\ modified_flag =>
          \/ modified_block_memory_write = BlockSize
          \/ modified_block_memory_write >= main_memory_stalls_counter - 1
    /\ bus.stall /\ ~modified_flag =>
          /\ modified_block_memory_write = 0
          /\ main_memory_stalls_counter > 1 => ReqLine # "MODIFIED"

\* The write-back that has been started is over before the first word of the new
\* block comes: this counts the words, SnoopBusVictim says which ones they are.
WriteBackOver ==
    FromMemory /\ modified_flag => modified_block_memory_write = BlockSize

\* Coherence among the caches that check_shared_bus looks into and IdleClean follow
\* from this.
IInv ==
    /\ TypeOK
    /\ Phases
    /\ TagGiven
    /\ AloneToWrite
    /\ RequesterWaits
    /\ WriteBackPace
    /\ WriteBackOver
    /\ SingleWriterIn(Scanned)
=============================================================================
