----------------------------- MODULE ExampleBus -----------------------------
(***************************************************************************)
(* The caches and the bus of test.c, the second simulator of the           *)
(* repository: requests wait in one slot per core, a round-robin arbiter   *)
(* grants the bus, and a transaction takes effect at once in its last      *)
(* cycle.                                                                  *)
(*                                                                         *)
(* A cycle of runSimulation runs memStage of each core in turn, then       *)
(* arbitrateBusRequests and busCycle.  wbStage has emptied MEM_WB before,  *)
(* so memStage is free to take any instruction, or none, from EX_MEM.  A   *)
(* block travels as a whole; it is one word here.                          *)
(***************************************************************************)
EXTENDS Integers

CONSTANTS
    NumCores,  \* NUM_CORES
    NumLines,  \* DCACHE_NUM_LINES
    NumTags,   \* how many blocks compete for a line
    Highs,     \* what the bits of an address above the 20 of main memory say
    Values,    \* what a block can hold
    Latency    \* cyclesLeft of a new transaction: 16 + 3

Cores  == 0 .. NumCores - 1
Lines  == 0 .. NumLines - 1
Tags   == 0 .. NumTags - 1
NoCore == -1

ASSUME CoresAssumption == NumCores \in Nat \ {0}
ASSUME SizeAssumption  == NumLines \in Nat \ {0} /\ NumTags \in Nat \ {0}
ASSUME HighAssumption  == Highs \subseteq BOOLEAN /\ FALSE \in Highs
ASSUME ValueAssumption == 0 \in Values
ASSUME LatencyAssumption == Latency \in Nat \ {0}

MESI  == {"INVALID", "SHARED", "EXCLUSIVE", "MODIFIED"}

\* getTag, getIndex; high: the address is not below MAIN_MEM_SIZE.
Addrs == [tag : Tags, idx : Lines, high : Highs]
Addr0 == [tag |-> 0, idx |-> 0, high |-> FALSE]

\* BusTransaction
Txn == [active : BOOLEAN, cmd : {"NONE", "RD", "RDX"},
        originCore : Cores \cup {NoCore}, addr : Addrs, cyclesLeft : 0 .. Latency]
Idle == [active |-> FALSE, cmd |-> "NONE", originCore |-> NoCore,
         addr |-> Addr0, cyclesLeft |-> 0]

VARIABLES
    turn,             \* whose memStage runs next; NumCores: the bus
    mem_stall,
    mesi, tag, block, \* the lines of the caches
    mem,              \* mainMem
    busRequest, busCmdReq, busAddrReq,
    lastGrantedCore,
    busTxn

cacheVars == <<mesi, tag, block>>
reqVars   == <<busRequest, busCmdReq, busAddrReq>>
vars == <<turn, mem_stall, cacheVars, mem, reqVars, lastGrantedCore, busTxn>>

TypeOK ==
    /\ turn \in 0 .. NumCores
    /\ mem_stall \in [Cores -> BOOLEAN]
    /\ mesi \in [Cores -> [Lines -> MESI]]
    /\ tag \in [Cores -> [Lines -> Tags]]
    /\ block \in [Cores -> [Lines -> Values]]
    /\ mem \in [Tags -> [Lines -> Values]]
    /\ busRequest \in [Cores -> BOOLEAN]
    /\ busCmdReq \in [Cores -> {"NONE", "RD", "RDX"}]
    /\ busAddrReq \in [Cores -> Addrs]
    /\ lastGrantedCore \in Cores
    /\ busTxn \in Txn
    /\ busTxn.active => busTxn.originCore \in Cores

\* initSimulator.  The main memory holds what was in the file (loadMainMem).
Init ==
    /\ turn = 0
    /\ mem_stall = [c \in Cores |-> FALSE]
    /\ mesi = [c \in Cores |-> [i \in Lines |-> "INVALID"]]
    /\ tag = [c \in Cores |-> [i \in Lines |-> 0]]
    /\ block = [c \in Cores |-> [i \in Lines |-> 0]]
    /\ mem \in [Tags -> [Lines -> Values]]
    /\ busRequest = [c \in Cores |-> FALSE]
    /\ busCmdReq = [c \in Cores |-> "NONE"]
    /\ busAddrReq = [c \in Cores |-> Addr0]
    /\ lastGrantedCore = 0
    /\ busTxn = Idle

-----------------------------------------------------------------------------
(***************************************************************************)
(* memStage                                                                *)
(***************************************************************************)

Cached(c, a) == mesi[c][a.idx] # "INVALID" /\ tag[c][a.idx] = a.tag

\* A core has one slot for requests: a new one replaces what waits there.
requestBusTransaction(cmd, c, a) ==
    /\ busRequest' = [busRequest EXCEPT ![c] = TRUE]
    /\ busCmdReq' = [busCmdReq EXCEPT ![c] = cmd]
    /\ busAddrReq' = [busAddrReq EXCEPT ![c] = a]

MemTurn(c) ==
    /\ turn = c /\ turn' = turn + 1
    /\ UNCHANGED <<tag, mem, lastGrantedCore, busTxn>>

\* Nothing valid in EX_MEM, an instruction that is neither LW nor SW, or a
\* halted core; a core that is stalled, whatever it has in EX_MEM; a load that
\* hits.
NoAccess(c) ==
    /\ MemTurn(c)
    /\ UNCHANGED <<mem_stall, mesi, block, reqVars>>

\* readFromCache, on a miss.  The instruction moves on to MEM_WB all the same.
ReadMiss(c, a) ==
    /\ MemTurn(c) /\ ~mem_stall[c]
    /\ ~Cached(c, a)
    /\ requestBusTransaction("RD", c, a)
    /\ mem_stall' = [mem_stall EXCEPT ![c] = TRUE]
    /\ UNCHANGED <<mesi, block>>

\* writeToCache.  A store to a shared line asks for the bus and does not wait.
WriteHit(c, a, v) ==
    /\ MemTurn(c) /\ ~mem_stall[c]
    /\ Cached(c, a)
    /\ IF mesi[c][a.idx] = "SHARED" THEN requestBusTransaction("RDX", c, a)
       ELSE UNCHANGED reqVars
    /\ mesi' = [mesi EXCEPT ![c][a.idx] = "MODIFIED"]
    /\ block' = [block EXCEPT ![c][a.idx] = v]
    /\ UNCHANGED mem_stall

\* Mutant of WriteMiss: the request for the bus is left out.
MutWriteMiss(c, a) ==
    /\ MemTurn(c) /\ ~mem_stall[c]
    /\ ~Cached(c, a)
    /\ mem_stall' = [mem_stall EXCEPT ![c] = TRUE]
    /\ UNCHANGED <<mesi, block, reqVars>>

WriteMiss(c, a) ==
    /\ MemTurn(c) /\ ~mem_stall[c]
    /\ ~Cached(c, a)
    /\ requestBusTransaction("RDX", c, a)
    /\ mem_stall' = [mem_stall EXCEPT ![c] = TRUE]
    /\ UNCHANGED <<mesi, block>>

memStage(c) ==
    \/ NoAccess(c)
    \/ \E a \in Addrs : \/ ReadMiss(c, a) \/ WriteMiss(c, a)
                        \/ \E v \in Values : WriteHit(c, a, v)
-----------------------------------------------------------------------------
(***************************************************************************)
(* arbitrateBusRequests and busCycle                                       *)
(***************************************************************************)

\* Mutant of Candidate: the search starts with the core granted last.
MutCandidate(i) == (lastGrantedCore + i) % NumCores

\* The core at step i of the search.
Candidate(i) == (lastGrantedCore + 1 + i) % NumCores

\* Core c is the first of the search to have a request.
Granted(c) ==
    \E i \in Cores : /\ c = Candidate(i) /\ busRequest[c]
                     /\ \A j \in 0 .. i - 1 : ~busRequest[Candidate(j)]

\* The transaction of this cycle, after arbitrateBusRequests.
NewTxn(c) == [active |-> TRUE, cmd |-> busCmdReq[c], originCore |-> c,
              addr |-> busAddrReq[c], cyclesLeft |-> Latency]

\* busSnoopAllCores: the other caches that hold the block of transaction t.
Sharers(t) == {c \in Cores \ {t.originCore} : Cached(c, t.addr)}

\* Each modified one among them writes the block back, in the order of the
\* cores: the last one stays.
Writers(t) == {c \in Sharers(t) : mesi[c][t.addr.idx] = "MODIFIED"}

WriteBack(t) ==
    IF t.addr.high \/ Writers(t) = {} THEN UNCHANGED mem
    ELSE \E w \in Writers(t) :
            /\ \A d \in Writers(t) : d <= w
            /\ mem' = [mem EXCEPT ![t.addr.tag][t.addr.idx] = block[w][t.addr.idx]]

\* Mutant of StateAfter: bus_shared is ignored.
MutStateAfter(t, c) ==
    IF c = t.originCore THEN IF t.cmd = "RDX" THEN "MODIFIED" ELSE "EXCLUSIVE"
    ELSE IF t.cmd = "RDX" THEN "INVALID" ELSE "SHARED"

\* The state of the line in the origin and in the sharers.
StateAfter(t, c) ==
    IF c = t.originCore
    THEN IF t.cmd = "RDX" THEN "MODIFIED"
         ELSE IF Sharers(t) = {} THEN "EXCLUSIVE" ELSE "SHARED"
    ELSE IF t.cmd = "RDX" THEN "INVALID" ELSE "SHARED"

\* busSnoopAllCores, the read of main memory and finishBusTransaction.  The
\* block replaces the origin's line, whatever was in it.
Finish(t) ==
    LET o == t.originCore
        i == t.addr.idx
    IN  /\ WriteBack(t)
        /\ mesi' = [c \in Cores |->
                      IF c \in Sharers(t) \cup {o}
                      THEN [mesi[c] EXCEPT ![i] = StateAfter(t, c)]
                      ELSE mesi[c]]
        /\ tag' = [tag EXCEPT ![o][i] = t.addr.tag]
        /\ block' = [block EXCEPT ![o][i] = mem'[t.addr.tag][i]]
        /\ mem_stall' = [mem_stall EXCEPT ![o] = FALSE]
        /\ busTxn' = Idle

\* busCycle with the transaction t that is active.
busCycle(t) ==
    IF t.cyclesLeft > 1
    THEN /\ busTxn' = [t EXCEPT !.cyclesLeft = t.cyclesLeft - 1]
         /\ UNCHANGED <<mem_stall, cacheVars, mem>>
    ELSE Finish(t)

BusTurn == turn = NumCores /\ turn' = 0 /\ UNCHANGED <<busCmdReq, busAddrReq>>

BusIdle ==
    /\ BusTurn /\ ~busTxn.active
    /\ \A c \in Cores : ~busRequest[c]
    /\ UNCHANGED <<mem_stall, cacheVars, mem, busRequest, lastGrantedCore, busTxn>>

\* A request is granted and the first cycle of the transaction passes.
BusGrant(c) ==
    /\ BusTurn /\ ~busTxn.active
    /\ Granted(c)
    /\ busRequest' = [busRequest EXCEPT ![c] = FALSE]
    /\ lastGrantedCore' = c
    /\ busCycle(NewTxn(c))

BusGoesOn ==
    /\ BusTurn /\ busTxn.active
    /\ busCycle(busTxn)
    /\ UNCHANGED <<busRequest, lastGrantedCore>>

Next ==
    \/ \E c \in Cores : memStage(c) \/ BusGrant(c)
    \/ BusIdle
    \/ BusGoesOn

Spec == Init /\ [][Next]_vars

\* One thread runs the loop of runSimulation.
FairSpec == Spec /\ WF_vars(Next)
-----------------------------------------------------------------------------
\* A stalled core (mem_stall) always has a request waiting or on the bus: that
\* is all that ever wakes it, and the slot for requests can be overwritten.
NoLostWakeup ==
    \A c \in Cores : mem_stall[c] => \/ busRequest[c]
                                     \/ busTxn.active /\ busTxn.originCore = c

\* An EXCLUSIVE line is the only copy of its block, and clean: finishBusTransaction
\* may take bus_shared for it at the end of the transaction, whatever
\* stores and fills happened while the request waited.
ExclusiveAlone ==
    \A c \in Cores, i \in Lines :
        mesi[c][i] = "EXCLUSIVE" =>
            /\ block[c][i] = mem[tag[c][i]][i]
            /\ \A d \in Cores \ {c} : mesi[d][i] # "INVALID" => tag[d][i] # tag[c][i]

\* How many cores the search asks before c.
Ahead(c) == (c - lastGrantedCore - 1) % NumCores

\* A bound on the cycles until a request of c is granted: the transactions of those, and
\* what is left of the one on the bus.
CyclesToGrant(c) == Ahead(c) * Latency + busTxn.cyclesLeft

\* A bound on the cycles until a stall of c ends.
CyclesToWake(c) ==
    IF busTxn.active /\ busTxn.originCore = c THEN busTxn.cyclesLeft
    ELSE CyclesToGrant(c) + Latency

\* Each cycle of the bus brings every request that waits, and every core that is stalled,
\* nearer to its end: nobody is passed by more often than there are other
\* cores, whatever they ask for meanwhile.
WaitsAreBounded ==
    [][\A c \in Cores :
          /\ busRequest[c] /\ busRequest'[c] =>
                IF turn = NumCores THEN CyclesToGrant(c)' < CyclesToGrant(c)
                ELSE CyclesToGrant(c)' = CyclesToGrant(c)
          /\ mem_stall[c] /\ mem_stall'[c] =>
                IF turn = NumCores THEN CyclesToWake(c)' < CyclesToWake(c)
                ELSE CyclesToWake(c)' = CyclesToWake(c)]_vars

\* arbitrateBusRequests is fair: whoever asks gets the bus.
RequestGranted ==
    \A c \in Cores : busRequest[c] ~> busTxn.active /\ busTxn.originCore = c

\* A stall ends (memStage, finishBusTransaction).
StallEnds == \A c \in Cores : mem_stall[c] ~> ~mem_stall[c]
=============================================================================
