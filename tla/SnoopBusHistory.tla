--------------------------- MODULE SnoopBusHistory ---------------------------
(***************************************************************************)
(* What becomes of the words of a dirty line that gives way to another     *)
(* block.  write_to_main_memory takes them from the line one by one while  *)
(* the main memory stalls, under a tag the line no longer has, and nothing *)
(* in the state tells later what the words had been.  victimLine does: it  *)
(* is a history variable, which no step of the system looks at.            *)
(***************************************************************************)
EXTENDS SnoopBusInvariant

VARIABLE victimLine  \* the line that the request on the bus found in its place

historyVars == <<vars, victimLine>>

Block == [tag : Tags, idx : Lines]

\* The requester's line of the requested index.
RequestersLine ==
    LET r == bus.reqId
        i == bus.reqAddr.idx
    IN  [dirty |-> mesi[r][i] = "MODIFIED",
         block |-> [tag |-> tag[r][i], idx |-> i],
         words |-> dsram[r][i]]

NoVictim == [dirty |-> FALSE,
             block |-> [tag |-> 0, idx |-> 0],
             words |-> [w \in Words |-> 0]]

\* BUS_RDX finds a shared copy of the block: it puts the store into the
\* requester's line at once (SnoopRdxShared), before the line has been saved.
StoresAtOnce ==
    /\ turn = NumCores /\ bus.cmd = "BUS_RDX"
    /\ \E o \in Cores : FirstOwner(o) /\ OwnerState(o) = "SHARED"

\* The line is remembered as it is when the request takes the bus.
Remember ==
    victimLine' = IF ~bus.busy /\ bus'.busy THEN RequestersLine'
              ELSE IF ~bus'.busy \/ StoresAtOnce THEN NoVictim
              ELSE victimLine

HistoryInit == Init /\ victimLine = NoVictim
HistoryNext == Next /\ Remember
HistorySpec == HistoryInit /\ [][HistoryNext]_historyVars
HistoryFairSpec == HistorySpec /\ WF_historyVars(HistoryNext)

\* The block of the victim is in main memory with the words that the line held
\* when its core asked for another block, as soon as main memory sends the first
\* word of that block into the line (write_to_main_memory,
\* flush_from_main_memory).  Two ways out of this are the code's: a
\* BUS_RDX that finds a SHARED copy overwrites a word before it is saved
\* (cache.c:470), and a cache that sends the block saves nothing (flush_from_cache).
VictimSaved ==
    FromMemory /\ victimLine.dirty
    => mem[victimLine.block.tag][victimLine.block.idx] = victimLine.words
-----------------------------------------------------------------------------
(***************************************************************************)
(* Why it is: what is known of a dirty victim while it waits.              *)
(***************************************************************************)

\* Its core asked because of a miss and waits: it cannot touch the line.
VictimWaits ==
    victimLine.dirty =>
        /\ bus.busy /\ memStalls[bus.reqId]
        /\ victimLine.block \in Block
        /\ victimLine.block.idx = bus.reqAddr.idx
        /\ victimLine.block.tag # bus.reqAddr.tag

\* Before the first call of snoop_bus the line is untouched.
VictimWhole ==
    victimLine.dirty /\ Asking => dsram[bus.reqId][bus.reqAddr.idx] = victimLine.words
VictimOwned ==
    victimLine.dirty /\ Asking /\ ~bus.stall =>
        /\ ReqLine = "MODIFIED"
        /\ tag[bus.reqId][bus.reqAddr.idx] = victimLine.block.tag

\* From then on the statics of write_to_main_memory know the victim, and the
\* words up to its counter are in main memory.
VictimUnderWay ==
    victimLine.dirty /\ (bus.stall \/ FromMemory) =>
        /\ modified_flag
        /\ requesting_address = victimLine.block
        /\ modified_block_memory_write > 0
        /\ \A w \in 0 .. modified_block_memory_write - 1 :
               mem[victimLine.block.tag][victimLine.block.idx][w] = victimLine.words[w]

VictimType == victimLine.words \in [Words -> Values]

\* With IInv of SnoopBusInvariant this is inductive.
HistoryInv == VictimType /\ VictimWaits /\ VictimWhole /\ VictimOwned /\ VictimUnderWay
=============================================================================
