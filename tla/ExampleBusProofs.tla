-------------------------- MODULE ExampleBusProofs --------------------------
(***************************************************************************)
(* test.c, for every number of cores, lines, blocks and any latency: no    *)
(* core sleeps for ever for want of a request, and EXCLUSIVE means what it *)
(* says.                                                                   *)
(***************************************************************************)
EXTENDS ExampleBus, TLAPS

IInv == TypeOK /\ NoLostWakeup /\ ExclusiveAlone

\* Zero is a core, a line, a block and a value.
LEMMA Zeros ==
    /\ 0 \in Cores /\ 0 \in Lines /\ 0 \in Tags /\ 0 \in Values
    /\ 0 \in 0 .. Latency /\ 0 \in 0 .. NumCores /\ Addr0 \in Addrs
<1>1. 0 \in Cores /\ 0 \in 0 .. NumCores
    BY CoresAssumption DEF Cores
<1>2. 0 \in Lines /\ 0 \in Tags
    BY SizeAssumption DEF Lines, Tags
<1>3. 0 \in 0 .. Latency
    BY LatencyAssumption
<1>4. Addr0 \in Addrs
    BY <1>2, HighAssumption DEF Addrs, Addr0
<1> QED
    BY <1>1, <1>2, <1>3, <1>4, ValueAssumption

LEMMA IdleType == Idle \in Txn
BY Zeros DEF Idle, Txn

LEMMA InitIInv == Init => IInv
<1> SUFFICES ASSUME Init PROVE IInv
    OBVIOUS
<1>1. TypeOK
  <2>1. busTxn \in Txn /\ ~busTxn.active
    BY IdleType DEF Init, Idle
  <2>2. mesi \in [Cores -> [Lines -> MESI]]
    BY DEF Init, MESI
  <2> QED
    BY <2>1, <2>2, Zeros DEF Init, TypeOK
<1>2. NoLostWakeup /\ ExclusiveAlone
    BY DEF Init, NoLostWakeup, ExclusiveAlone
<1> QED
    BY <1>1, <1>2 DEF IInv

\* A step of memStage.
LEMMA MemKeepsIInv ==
    ASSUME IInv, NEW c \in Cores, memStage(c)
    PROVE  IInv'
<1>0. /\ turn' \in 0 .. NumCores
      /\ tag' = tag /\ mem' = mem /\ lastGrantedCore' = lastGrantedCore
      /\ busTxn' = busTxn
    BY CoresAssumption DEF memStage, MemTurn, NoAccess, ReadMiss, WriteMiss,
       WriteHit, Cores, IInv, TypeOK
<1>1. CASE NoAccess(c)
  <2>1. UNCHANGED <<mem_stall, mesi, block, busRequest, busCmdReq, busAddrReq>>
    BY <1>1 DEF NoAccess, reqVars
  <2> QED
    BY <1>0, <2>1 DEF IInv, TypeOK, NoLostWakeup, ExclusiveAlone
<1>2. ASSUME NEW a \in Addrs, ReadMiss(c, a) \/ WriteMiss(c, a) PROVE IInv'
  <2>1. /\ mem_stall' = [mem_stall EXCEPT ![c] = TRUE]
        /\ busRequest' = [busRequest EXCEPT ![c] = TRUE]
        /\ busAddrReq' = [busAddrReq EXCEPT ![c] = a]
        /\ mesi' = mesi /\ block' = block
        /\ \E cmd \in {"RD", "RDX"} : busCmdReq' = [busCmdReq EXCEPT ![c] = cmd]
    BY <1>2 DEF ReadMiss, WriteMiss, requestBusTransaction
  <2>2. TypeOK'
    BY <1>0, <2>1 DEF IInv, TypeOK
  <2>3. NoLostWakeup'
    BY <1>0, <2>1 DEF IInv, TypeOK, NoLostWakeup
  <2>4. ExclusiveAlone'
    BY <1>0, <2>1 DEF IInv, ExclusiveAlone
  <2> QED
    BY <2>2, <2>3, <2>4 DEF IInv
<1>3. ASSUME NEW a \in Addrs, NEW v \in Values, WriteHit(c, a, v) PROVE IInv'
  <2>1. /\ a.idx \in Lines /\ a.tag \in Tags /\ Cached(c, a)
        /\ mem_stall' = mem_stall
        /\ mesi' = [mesi EXCEPT ![c][a.idx] = "MODIFIED"]
        /\ block' = [block EXCEPT ![c][a.idx] = v]
    BY <1>3 DEF WriteHit, Addrs
  <2>2. \/ requestBusTransaction("RDX", c, a)
        \/ UNCHANGED <<busRequest, busCmdReq, busAddrReq>>
    BY <1>3 DEF WriteHit, reqVars
  <2>3. /\ mesi' \in [Cores -> [Lines -> MESI]]
        /\ block' \in [Cores -> [Lines -> Values]]
    BY <2>1 DEF IInv, TypeOK, MESI
  <2>4. /\ busRequest' \in [Cores -> BOOLEAN]
        /\ busCmdReq' \in [Cores -> {"NONE", "RD", "RDX"}]
        /\ busAddrReq' \in [Cores -> Addrs]
    BY <2>2 DEF IInv, TypeOK, requestBusTransaction
  <2>5. TypeOK'
    BY <1>0, <2>1, <2>3, <2>4 DEF IInv, TypeOK
  <2>6. NoLostWakeup'
    BY <1>0, <2>1, <2>2 DEF IInv, TypeOK, NoLostWakeup, requestBusTransaction
  <2>7. ExclusiveAlone'
    BY <1>0, <2>1 DEF IInv, TypeOK, ExclusiveAlone, Cached
  <2> QED
    BY <2>5, <2>6, <2>7 DEF IInv
<1> QED
    BY <1>1, <1>2, <1>3 DEF memStage

\* The last cycle of a transaction.
LEMMA FinishEffect ==
    ASSUME IInv, NEW t \in Txn, t.originCore \in Cores, Finish(t)
    PROVE  /\ mem' \in [Tags -> [Lines -> Values]]
           /\ mesi' \in [Cores -> [Lines -> MESI]]
           /\ tag' \in [Cores -> [Lines -> Tags]]
           /\ block' \in [Cores -> [Lines -> Values]]
           /\ mem_stall' \in [Cores -> BOOLEAN]
           /\ busTxn' \in Txn /\ ~busTxn'.active
           /\ ExclusiveAlone'
<1> DEFINE o == t.originCore
           i == t.addr.idx
           g == t.addr.tag
<1>1. /\ o \in Cores /\ i \in Lines /\ g \in Tags /\ Sharers(t) \subseteq Cores
      /\ o \notin Sharers(t)
    BY DEF Txn, Addrs, Sharers
<1>2. /\ mesi' = [c \in Cores |-> IF c \in Sharers(t) \cup {o}
                                  THEN [mesi[c] EXCEPT ![i] = StateAfter(t, c)]
                                  ELSE mesi[c]]
      /\ tag' = [tag EXCEPT ![o][i] = g]
      /\ block' = [block EXCEPT ![o][i] = mem'[g][i]]
      /\ mem_stall' = [mem_stall EXCEPT ![o] = FALSE]
      /\ busTxn' = Idle
    BY DEF Finish
<1>3. \/ mem' = mem
      \/ \E w \in Writers(t) : mem' = [mem EXCEPT ![g][i] = block[w][i]]
    BY DEF Finish, WriteBack
<1>4. mem' \in [Tags -> [Lines -> Values]]
  <2>1. ASSUME NEW w \in Writers(t) PROVE block[w][i] \in Values
    BY <1>1 DEF IInv, TypeOK, Writers
  <2>2. ASSUME NEW v \in Values
        PROVE  [mem EXCEPT ![g][i] = v] \in [Tags -> [Lines -> Values]]
    BY <1>1 DEF IInv, TypeOK
  <2> QED
    <3>1. CASE mem' = mem
      BY <3>1 DEF IInv, TypeOK
    <3>2. ASSUME NEW w \in Writers(t), mem' = [mem EXCEPT ![g][i] = block[w][i]]
          PROVE  mem' \in [Tags -> [Lines -> Values]]
      BY <2>1, <2>2, <3>2
    <3> QED
      BY <1>3, <3>1, <3>2
<1>5. \A c \in Cores : StateAfter(t, c) \in MESI
    BY DEF StateAfter, MESI
<1>6. /\ mesi' \in [Cores -> [Lines -> MESI]]
      /\ tag' \in [Cores -> [Lines -> Tags]]
      /\ block' \in [Cores -> [Lines -> Values]]
      /\ mem_stall' \in [Cores -> BOOLEAN]
    BY <1>1, <1>2, <1>4, <1>5 DEF IInv, TypeOK
<1>7. busTxn' \in Txn /\ ~busTxn'.active
    BY <1>2, IdleType DEF Idle
\* The state of every line, afterwards.
<1>8. ASSUME NEW c \in Cores, NEW j \in Lines
      PROVE  /\ c # o \/ j # i => tag'[c][j] = tag[c][j] /\ block'[c][j] = block[c][j]
             /\ tag'[o][i] = g /\ block'[o][i] = mem'[g][i]
             /\ mesi'[c][j] = IF j = i /\ c \in Sharers(t) \cup {o}
                              THEN StateAfter(t, c) ELSE mesi[c][j]
    BY <1>1, <1>2 DEF IInv, TypeOK
<1>9. ASSUME NEW c \in Cores, NEW j \in Lines, mesi'[c][j] = "EXCLUSIVE"
      PROVE  /\ block'[c][j] = mem'[tag'[c][j]][j]
             /\ \A d \in Cores \ {c} :
                  mesi'[d][j] # "INVALID" => tag'[d][j] # tag'[c][j]
  <2>1. CASE c = o /\ j = i
    <3>1. Sharers(t) = {}
      BY <1>1, <1>8, <1>9, <2>1 DEF StateAfter
    <3>2. \A d \in Cores \ {o} : mesi[d][i] # "INVALID" => tag[d][i] # g
      BY <3>1 DEF Sharers, Cached
    <3> QED
      BY <1>1, <1>8, <2>1, <3>1, <3>2
  <2>2. CASE ~(c = o /\ j = i)
    <3>1. /\ mesi[c][j] = "EXCLUSIVE" /\ ~(j = i /\ c \in Sharers(t))
          /\ tag'[c][j] = tag[c][j] /\ block'[c][j] = block[c][j]
      BY <1>1, <1>8, <1>9, <2>2 DEF StateAfter
    <3>2. /\ block[c][j] = mem[tag[c][j]][j]
          /\ \A d \in Cores \ {c} : mesi[d][j] # "INVALID" => tag[d][j] # tag[c][j]
      BY <3>1 DEF IInv, ExclusiveAlone
    <3>3. j = i => tag[c][j] # g
      BY <2>2, <3>1 DEF Sharers, Cached
    <3>4. mem'[tag[c][j]][j] = mem[tag[c][j]][j]
      <4>1. tag[c][j] \in Tags
        BY DEF IInv, TypeOK
      <4>2. ASSUME NEW v
            PROVE  [mem EXCEPT ![g][i] = v][tag[c][j]][j] = mem[tag[c][j]][j]
        BY <1>1, <3>3, <4>1 DEF IInv, TypeOK
      <4> QED
        BY <1>3, <4>2
    <3>5. ASSUME NEW d \in Cores \ {c}, mesi'[d][j] # "INVALID"
          PROVE  tag'[d][j] # tag[c][j]
      <4>1. CASE d = o /\ j = i
        BY <1>8, <3>3, <4>1
      <4>2. CASE ~(d = o /\ j = i)
        <5>1. tag'[d][j] = tag[d][j] /\ mesi[d][j] # "INVALID"
          BY <1>8, <3>5, <4>2 DEF Sharers, Cached
        <5> QED
          BY <3>2, <5>1
      <4> QED
        BY <4>1, <4>2
    <3> QED
      BY <3>1, <3>2, <3>4, <3>5
  <2> QED
    BY <2>1, <2>2
<1>10. ExclusiveAlone'
    BY <1>9 DEF ExclusiveAlone
<1> QED
    BY <1>4, <1>6, <1>7, <1>10

\* A cycle of a transaction that belongs to a core.
LEMMA CycleKeeps ==
    ASSUME IInv, NEW t \in Txn, t.originCore \in Cores, t.active, busCycle(t),
           turn' \in 0 .. NumCores, lastGrantedCore' \in Cores,
           busRequest' \in [Cores -> BOOLEAN], UNCHANGED <<busCmdReq, busAddrReq>>,
           \A c \in Cores : mem_stall[c] => busRequest'[c] \/ t.originCore = c
    PROVE  IInv'
<1>1. CASE t.cyclesLeft > 1
  <2>1. /\ busTxn' = [t EXCEPT !.cyclesLeft = t.cyclesLeft - 1]
        /\ mem_stall' = mem_stall /\ mem' = mem
        /\ mesi' = mesi /\ tag' = tag /\ block' = block
    BY <1>1 DEF busCycle, cacheVars
  <2>2. /\ busTxn' \in Txn /\ busTxn'.active
        /\ busTxn'.originCore = t.originCore
    BY <1>1, <2>1, LatencyAssumption DEF Txn
  <2> QED
    BY <2>1, <2>2 DEF IInv, TypeOK, NoLostWakeup, ExclusiveAlone
<1>2. CASE ~(t.cyclesLeft > 1)
  <2>1. Finish(t)
    BY <1>2 DEF busCycle
  <2>2. NoLostWakeup'
    BY <2>1 DEF Finish, NoLostWakeup, IInv, TypeOK
  <2> QED
    BY <2>1, <2>2, FinishEffect DEF IInv, TypeOK
<1> QED
    BY <1>1, <1>2

\* A step of the bus.
LEMMA BusKeepsIInv ==
    ASSUME IInv, BusIdle \/ BusGoesOn \/ \E c \in Cores : BusGrant(c)
    PROVE  IInv'
<1>1. turn' \in 0 .. NumCores /\ UNCHANGED <<busCmdReq, busAddrReq>>
    BY CoresAssumption DEF BusIdle, BusGoesOn, BusGrant, BusTurn
<1>2. CASE BusIdle
  <2>1. UNCHANGED <<mem_stall, mesi, tag, block, mem, busRequest,
                    lastGrantedCore, busTxn>>
    BY <1>2 DEF BusIdle, cacheVars
  <2> QED
    BY <1>1, <2>1 DEF IInv, TypeOK, NoLostWakeup, ExclusiveAlone
<1>3. CASE BusGoesOn
    BY <1>1, <1>3, CycleKeeps DEF BusGoesOn, IInv, TypeOK, NoLostWakeup
<1>4. ASSUME NEW c \in Cores, BusGrant(c) PROVE IInv'
  <2>1. NewTxn(c) \in Txn /\ NewTxn(c).originCore = c /\ NewTxn(c).active
    BY LatencyAssumption DEF NewTxn, Txn, IInv, TypeOK
  <2>2. /\ busRequest' \in [Cores -> BOOLEAN] /\ lastGrantedCore' \in Cores
        /\ \A d \in Cores : mem_stall[d] => busRequest'[d] \/ c = d
    BY <1>4 DEF BusGrant, IInv, TypeOK, NoLostWakeup
  <2> QED
    BY <1>1, <1>4, <2>1, <2>2, CycleKeeps DEF BusGrant
<1> QED
    BY <1>2, <1>3, <1>4

LEMMA StepKeepsIInv ==
    ASSUME IInv, [Next]_vars
    PROVE  IInv'
<1>1. CASE UNCHANGED vars
    BY <1>1 DEF vars, cacheVars, reqVars, IInv, TypeOK, NoLostWakeup, ExclusiveAlone
<1> QED
    BY <1>1, MemKeepsIInv, BusKeepsIInv DEF Next

THEOREM Inductive == Spec => []IInv
BY InitIInv, StepKeepsIInv, PTL DEF Spec

\* Type correctness in test.c: the bus serves a core that exists for no longer than a
\* transaction lasts, and whoever was granted last is a core.
THEOREM TypeCorrect == Spec => []TypeOK
<1>1. IInv => TypeOK
    BY DEF IInv
<1> QED
    BY <1>1, Inductive, PTL

\* No stalled core of test.c is ever without a request that will wake it,
\* though a store to a shared line and a later miss use the same slot.
THEOREM NoWakeupLost == Spec => []NoLostWakeup
<1>1. IInv => NoLostWakeup
    BY DEF IInv
<1> QED
    BY <1>1, Inductive, PTL

\* finishBusTransaction makes a line EXCLUSIVE only when it is the one copy of
\* its block and equal to main memory, and it stays so while it is EXCLUSIVE.
THEOREM ExclusiveIsAlone == Spec => []ExclusiveAlone
<1>1. IInv => ExclusiveAlone
    BY DEF IInv
<1> QED
    BY <1>1, Inductive, PTL
-----------------------------------------------------------------------------
\* The counter of the bus runs as long as a transaction does.
BusCounts ==
    IF busTxn.active THEN busTxn.cyclesLeft > 0 ELSE busTxn.cyclesLeft = 0

LEMMA CycleCounts ==
    ASSUME NEW t \in Txn, busCycle(t), t.active, t.cyclesLeft > 0
    PROVE  /\ BusCounts' /\ busTxn'.cyclesLeft = t.cyclesLeft - 1
           /\ busTxn'.active => busTxn'.originCore = t.originCore
           /\ ~busTxn'.active => Finish(t)
<1>1. t.cyclesLeft \in Nat
    BY LatencyAssumption DEF Txn
<1>2. CASE t.cyclesLeft > 1
  <2>1. busTxn' = [t EXCEPT !.cyclesLeft = t.cyclesLeft - 1]
    BY <1>2 DEF busCycle
  <2> QED
    BY <1>1, <1>2, <2>1 DEF BusCounts, Txn
<1>3. CASE ~(t.cyclesLeft > 1)
  <2>1. Finish(t) /\ t.cyclesLeft = 1
    BY <1>1, <1>3 DEF busCycle
  <2>2. busTxn' = Idle
    BY <2>1 DEF Finish
  <2> QED
    BY <1>1, <2>1, <2>2 DEF BusCounts, Idle
<1> QED
    BY <1>2, <1>3

LEMMA NewTxnIs ==
    ASSUME IInv, NEW c \in Cores
    PROVE  /\ NewTxn(c) \in Txn /\ NewTxn(c).active /\ NewTxn(c).originCore = c
           /\ NewTxn(c).cyclesLeft = Latency /\ Latency > 0
BY LatencyAssumption DEF NewTxn, Txn, IInv, TypeOK

LEMMA CountsKept ==
    ASSUME IInv, BusCounts, [Next]_vars
    PROVE  BusCounts'
<1>1. CASE UNCHANGED vars
    BY <1>1 DEF vars, BusCounts
<1>2. ASSUME NEW c \in Cores, memStage(c) PROVE BusCounts'
    BY <1>2 DEF memStage, MemTurn, NoAccess, ReadMiss, WriteMiss, WriteHit, BusCounts
<1>3. ASSUME NEW c \in Cores, BusGrant(c) PROVE BusCounts'
    BY <1>3, NewTxnIs, CycleCounts DEF BusGrant
<1>4. CASE BusIdle
    BY <1>4 DEF BusIdle, BusCounts
<1>5. CASE BusGoesOn
    BY <1>5, CycleCounts DEF BusGoesOn, BusCounts, IInv, TypeOK
<1> QED
    BY <1>1, <1>2, <1>3, <1>4, <1>5 DEF Next

\* The search goes round once.
LEMMA Wraps ==
    ASSUME NEW x \in Int
    PROVE  /\ 0 <= x /\ x < NumCores => x % NumCores = x
           /\ NumCores <= x /\ x < 2 * NumCores => x % NumCores = x - NumCores
           /\ -NumCores <= x /\ x < 0 => x % NumCores = x + NumCores
BY CoresAssumption

\* The core that is granted is nearer than any other one that waits.
LEMMA PassesBy ==
    ASSUME IInv, NEW c \in Cores, NEW d \in Cores, Granted(d), c # d, busRequest[c]
    PROVE  (c - d - 1) % NumCores < Ahead(c)
<1> DEFINE l == lastGrantedCore
           k == Ahead(c)
<1>1. /\ l \in Int /\ 0 <= l /\ l < NumCores /\ c \in Int /\ 0 <= c /\ c < NumCores
      /\ d \in Int /\ 0 <= d /\ d < NumCores /\ NumCores \in Nat
    BY CoresAssumption DEF IInv, TypeOK, Cores
<1>2. PICK i \in Cores : /\ d = Candidate(i)
                         /\ \A j \in 0 .. i - 1 : ~busRequest[Candidate(j)]
    BY DEF Granted
<1>3. i \in Int /\ 0 <= i /\ i < NumCores
    BY CoresAssumption DEF Cores
<1>4. k = IF c > l THEN c - l - 1 ELSE c - l - 1 + NumCores
  <2>1. /\ c > l => 0 <= c - l - 1 /\ c - l - 1 < NumCores
        /\ ~(c > l) => -NumCores <= c - l - 1 /\ c - l - 1 < 0
    BY <1>1
  <2> QED
    BY <1>1, <2>1, Wraps DEF Ahead
<1>5. k \in Int /\ 0 <= k /\ k < NumCores
    BY <1>1, <1>4
<1>6. Candidate(k) = c
  <2>1. l + 1 + k = IF c > l THEN c ELSE c + NumCores
    BY <1>1, <1>4
  <2> HIDE DEF k
  <2> QED
    BY <1>1, <1>5, <2>1, Wraps DEF Candidate
<1> HIDE DEF k
<1>7. i < k
  <2>1. ~(k < i)
    BY <1>2, <1>3, <1>5, <1>6
  <2>2. k # i
    BY <1>2, <1>6
  <2> QED
    BY <1>3, <1>5, <2>1, <2>2
<1>8. d = IF l + 1 + i < NumCores THEN l + 1 + i ELSE l + 1 + i - NumCores
    BY <1>1, <1>2, <1>3, Wraps DEF Candidate
<1>9. (c - d - 1) % NumCores = k - i - 1
  <2>1. \/ c - d - 1 = k - i - 1
        \/ c - d - 1 = k - i - 1 - NumCores
    BY <1>1, <1>3, <1>4, <1>5, <1>7, <1>8
  <2>2. 0 <= k - i - 1 /\ k - i - 1 < NumCores /\ -NumCores <= k - i - 1 - NumCores
    BY <1>1, <1>3, <1>5, <1>7
  <2> QED
    BY <1>1, <1>3, <1>5, <2>1, <2>2, Wraps
<1> QED
    BY <1>3, <1>5, <1>9 DEF k

LEMMA AheadIs ==
    ASSUME NEW c \in Cores, NEW l \in Cores
    PROVE  (c - l - 1) % NumCores \in Nat /\ (c - l - 1) % NumCores <= NumCores - 1
BY CoresAssumption DEF Cores

\* One transaction less to wait for is worth Latency cycles.
LEMMA OneLess ==
    ASSUME NEW a \in Nat, NEW b \in Nat, b < a
    PROVE  b * Latency + Latency <= a * Latency /\ a * Latency \in Nat /\ b * Latency \in Nat
BY LatencyAssumption

LEMMA BoundsAreNumbers ==
    ASSUME IInv, BusCounts, NEW c \in Cores
    PROVE  /\ Ahead(c) \in Nat /\ Ahead(c) * Latency \in Nat
           /\ busTxn.cyclesLeft \in Nat /\ Latency \in Nat
           /\ CyclesToGrant(c) \in Nat /\ CyclesToWake(c) \in Nat
<1>1. Ahead(c) \in Nat
    BY AheadIs DEF Ahead, IInv, TypeOK
<1>2. busTxn.cyclesLeft \in Nat /\ Latency \in Nat
    BY LatencyAssumption DEF IInv, TypeOK, Txn
<1>3. Ahead(c) * Latency \in Nat
    BY <1>1, <1>2
<1> QED
    BY <1>1, <1>2, <1>3 DEF CyclesToGrant, CyclesToWake

\* In the cycles of the cores nothing changes about it.
LEMMA CoresLeaveBounds ==
    ASSUME IInv, NEW e \in Cores, memStage(e), NEW c \in Cores
    PROVE  /\ turn # NumCores
           /\ CyclesToGrant(c)' = CyclesToGrant(c) /\ CyclesToWake(c)' = CyclesToWake(c)
<1>1. turn = e /\ lastGrantedCore' = lastGrantedCore /\ busTxn' = busTxn
    BY DEF memStage, MemTurn, NoAccess, ReadMiss, WriteMiss, WriteHit
<1>2. e # NumCores
    BY CoresAssumption DEF Cores
<1> QED
    BY <1>1, <1>2 DEF CyclesToGrant, CyclesToWake, Ahead

\* The transaction on the bus comes nearer to its end.
LEMMA GoingOnAdvances ==
    ASSUME IInv, BusCounts, BusGoesOn, NEW c \in Cores
    PROVE  /\ CyclesToGrant(c)' < CyclesToGrant(c)
           /\ mem_stall[c] /\ mem_stall'[c] => CyclesToWake(c)' < CyclesToWake(c)
<1> DEFINE n == busTxn.cyclesLeft
           a == Ahead(c) * Latency
<1>1. /\ busTxn.active /\ busTxn \in Txn /\ busCycle(busTxn) /\ n > 0
      /\ lastGrantedCore' = lastGrantedCore
    BY DEF BusGoesOn, BusCounts, IInv, TypeOK
<1>2. /\ BusCounts' /\ busTxn'.cyclesLeft = n - 1
      /\ busTxn'.active => busTxn'.originCore = busTxn.originCore
      /\ ~busTxn'.active => Finish(busTxn)
    BY <1>1, CycleCounts
<1>3. n \in Nat /\ a \in Nat /\ Latency \in Nat
    BY BoundsAreNumbers
<1>4. CyclesToGrant(c) = a + n /\ CyclesToGrant(c)' = a + (n - 1)
    BY <1>1, <1>2 DEF CyclesToGrant, Ahead
<1>5. CyclesToGrant(c)' < CyclesToGrant(c)
  <2> HIDE DEF a, n
  <2> QED
    BY <1>3, <1>4
<1>6. ASSUME mem_stall[c], mem_stall'[c]
      PROVE  CyclesToWake(c)' < CyclesToWake(c)
  <2>1. CASE busTxn.originCore = c
    <3>1. busTxn'.active
      <4> SUFFICES ASSUME ~busTxn'.active PROVE FALSE
        OBVIOUS
      <4>1. mem_stall' = [mem_stall EXCEPT ![c] = FALSE]
        BY <1>2, <2>1 DEF Finish
      <4> QED
        BY <1>6, <4>1 DEF IInv, TypeOK
    <3>2. CyclesToWake(c) = n /\ CyclesToWake(c)' = n - 1
      BY <1>1, <1>2, <2>1, <3>1 DEF CyclesToWake
    <3> HIDE DEF n
    <3> QED
      BY <1>3, <3>2
  <2>2. CASE busTxn.originCore # c
    <3>1. /\ CyclesToWake(c) = CyclesToGrant(c) + Latency
          /\ CyclesToWake(c)' = CyclesToGrant(c)' + Latency
      BY <1>2, <2>2 DEF CyclesToWake
    <3> HIDE DEF a, n
    <3> QED
      BY <1>3, <1>4, <3>1
  <2> QED
    BY <2>1, <2>2
<1> QED
    BY <1>5, <1>6

\* A new transaction takes its time, but there is one less ahead of the others.
LEMMA GrantAdvances ==
    ASSUME IInv, BusCounts, NEW d \in Cores, BusGrant(d), NEW c \in Cores
    PROVE  /\ busRequest[c] /\ busRequest'[c] => CyclesToGrant(c)' < CyclesToGrant(c)
           /\ mem_stall[c] /\ mem_stall'[c] => CyclesToWake(c)' < CyclesToWake(c)
<1> DEFINE n == busTxn.cyclesLeft
           a == Ahead(c) * Latency
           t == NewTxn(d)
<1>1. /\ ~busTxn.active /\ Granted(d) /\ busCycle(t) /\ lastGrantedCore' = d
      /\ busRequest' = [busRequest EXCEPT ![d] = FALSE]
    BY DEF BusGrant
<1>2. /\ n = 0 /\ a \in Nat /\ Latency \in Nat /\ Latency > 0
    BY <1>1, BoundsAreNumbers, LatencyAssumption DEF BusCounts
<1>3. /\ BusCounts' /\ busTxn'.cyclesLeft = Latency - 1
      /\ busTxn'.active => busTxn'.originCore = d
      /\ ~busTxn'.active => Finish(t)
    BY <1>1, NewTxnIs, CycleCounts
<1>4. ASSUME c # d, busRequest[c]
      PROVE  CyclesToGrant(c)' < CyclesToGrant(c) /\ CyclesToGrant(c)' \in Nat
  <2> DEFINE b == (c - d - 1) % NumCores
             k == Ahead(c)
  <2>1. b \in Nat /\ k \in Nat /\ b < k
    BY <1>1, <1>4, PassesBy, AheadIs, BoundsAreNumbers
  <2>2. /\ CyclesToGrant(c) = k * Latency + 0
        /\ CyclesToGrant(c)' = b * Latency + (Latency - 1)
    BY <1>1, <1>2, <1>3 DEF CyclesToGrant, Ahead
  <2> HIDE DEF b, k
  <2>3. /\ b * Latency + Latency <= k * Latency
        /\ k * Latency \in Nat /\ b * Latency \in Nat
    BY <2>1, OneLess
  <2> DEFINE x == k * Latency
             y == b * Latency
  <2> HIDE DEF x, y
  <2>4. /\ y + Latency <= x /\ x \in Nat /\ y \in Nat
        /\ CyclesToGrant(c) = x + 0 /\ CyclesToGrant(c)' = y + (Latency - 1)
    BY <2>2, <2>3 DEF x, y
  <2> QED
    BY <1>2, <2>4
<1>5. busRequest[c] /\ busRequest'[c] => CyclesToGrant(c)' < CyclesToGrant(c)
  <2>1. busRequest'[c] => c # d
    BY <1>1 DEF IInv, TypeOK
  <2> QED
    BY <1>4, <2>1
<1>6. ASSUME mem_stall[c], mem_stall'[c]
      PROVE  CyclesToWake(c)' < CyclesToWake(c)
  <2>1. CyclesToWake(c) = CyclesToGrant(c) + Latency /\ busRequest[c]
    BY <1>1, <1>6 DEF CyclesToWake, IInv, NoLostWakeup
  <2>2. CASE c = d
    <3>1. busTxn'.active
      <4> SUFFICES ASSUME ~busTxn'.active PROVE FALSE
        OBVIOUS
      <4>1. mem_stall' = [mem_stall EXCEPT ![c] = FALSE]
        BY <1>3, <2>2, NewTxnIs DEF Finish
      <4> QED
        BY <1>6, <4>1 DEF IInv, TypeOK
    <3>2. CyclesToWake(c)' = Latency - 1
      BY <1>3, <2>2, <3>1 DEF CyclesToWake
    <3>3. CyclesToGrant(c) \in Nat
      BY BoundsAreNumbers
    <3> QED
      BY <1>2, <2>1, <3>2, <3>3
  <2>3. CASE c # d
    <3>1. CyclesToWake(c)' = CyclesToGrant(c)' + Latency
      BY <1>3, <2>3 DEF CyclesToWake
    <3>2. CyclesToGrant(c) \in Nat
      BY BoundsAreNumbers
    <3> QED
      BY <1>2, <1>4, <2>1, <2>3, <3>1, <3>2
  <2> QED
    BY <2>2, <2>3
<1> QED
    BY <1>5, <1>6

\* Whoever asks for the bus of test.c has it within NumCores * Latency cycles, and a
\* stall ends within (NumCores + 1) * Latency cycles: the bounds are
\* numbers no larger than that, and every cycle of the bus makes them smaller.
THEOREM WaitsBounded ==
    Spec => /\ [](\A c \in Cores : /\ CyclesToGrant(c) \in 0 .. NumCores * Latency
                                   /\ CyclesToWake(c) \in 0 .. (NumCores + 1) * Latency)
            /\ WaitsAreBounded
<1> DEFINE Bounds(c) == /\ CyclesToGrant(c) \in 0 .. NumCores * Latency
                        /\ CyclesToWake(c) \in 0 .. (NumCores + 1) * Latency
<1>1. Init => BusCounts
    BY DEF Init, BusCounts, Idle
<1>2. Spec => [](IInv /\ BusCounts)
    BY <1>1, InitIInv, StepKeepsIInv, CountsKept, PTL DEF Spec
<1>3. ASSUME IInv, BusCounts, NEW c \in Cores
      PROVE  /\ CyclesToGrant(c) \in 0 .. NumCores * Latency
             /\ CyclesToWake(c) \in 0 .. (NumCores + 1) * Latency
  <2> DEFINE k == Ahead(c)
             n == busTxn.cyclesLeft
  <2>1. k \in Nat /\ k < NumCores /\ NumCores \in Nat
    <3>1. lastGrantedCore \in Cores
      BY <1>3 DEF IInv, TypeOK
    <3>2. k \in Nat /\ k <= NumCores - 1
      BY <3>1, AheadIs DEF Ahead
    <3> HIDE DEF k
    <3> QED
      BY <3>2, CoresAssumption
  <2>2. n \in Nat /\ n <= Latency
    <3>1. n \in 0 .. Latency
      BY <1>3 DEF IInv, TypeOK, Txn
    <3> HIDE DEF n
    <3> QED
      BY <3>1, LatencyAssumption
  <2>3. /\ CyclesToGrant(c) = k * Latency + n
        /\ CyclesToWake(c) \in {n, k * Latency + n + Latency}
    BY DEF CyclesToGrant, CyclesToWake
  <2> HIDE DEF k, n
  <2>4. /\ k * Latency + Latency <= NumCores * Latency
        /\ NumCores * Latency \in Nat /\ k * Latency \in Nat
    BY <2>1, OneLess
  <2>5. (NumCores + 1) * Latency = NumCores * Latency + Latency
    BY <2>1, LatencyAssumption
  <2> DEFINE x == k * Latency
             y == NumCores * Latency
  <2>6. /\ x \in Nat /\ y \in Nat /\ x + Latency <= y /\ Latency \in Nat
        /\ CyclesToGrant(c) = x + n /\ CyclesToWake(c) \in {n, x + n + Latency}
        /\ (NumCores + 1) * Latency = y + Latency
    BY <2>3, <2>4, <2>5, LatencyAssumption
  <2> HIDE DEF x, y
  <2>7. /\ CyclesToGrant(c) \in 0 .. y /\ CyclesToWake(c) \in 0 .. y + Latency
    BY <2>2, <2>6
  <2> QED
    BY <2>6, <2>7 DEF y
<1>4. ASSUME IInv, BusCounts, Next, NEW c \in Cores
      PROVE  /\ busRequest[c] /\ busRequest'[c] =>
                  IF turn = NumCores THEN CyclesToGrant(c)' < CyclesToGrant(c)
                  ELSE CyclesToGrant(c)' = CyclesToGrant(c)
             /\ mem_stall[c] /\ mem_stall'[c] =>
                  IF turn = NumCores THEN CyclesToWake(c)' < CyclesToWake(c)
                  ELSE CyclesToWake(c)' = CyclesToWake(c)
  <2>1. CASE \E e \in Cores : memStage(e)
    BY <1>4, <2>1, CoresLeaveBounds
  <2>2. CASE \E d \in Cores : BusGrant(d)
    BY <1>4, <2>2, GrantAdvances DEF BusGrant, BusTurn
  <2>3. CASE BusIdle
    BY <1>4, <2>3 DEF BusIdle, IInv, NoLostWakeup
  <2>4. CASE BusGoesOn
    BY <1>4, <2>4, GoingOnAdvances DEF BusGoesOn, BusTurn
  <2> QED
    BY <1>4, <2>1, <2>2, <2>3, <2>4 DEF Next
<1>5. IInv /\ BusCounts => \A c \in Cores : Bounds(c)
    BY <1>3
<1>6. IInv /\ BusCounts /\ Next =>
        \A c \in Cores :
          /\ busRequest[c] /\ busRequest'[c] =>
                IF turn = NumCores THEN CyclesToGrant(c)' < CyclesToGrant(c)
                ELSE CyclesToGrant(c)' = CyclesToGrant(c)
          /\ mem_stall[c] /\ mem_stall'[c] =>
                IF turn = NumCores THEN CyclesToWake(c)' < CyclesToWake(c)
                ELSE CyclesToWake(c)' = CyclesToWake(c)
    BY <1>4
<1> QED
    BY <1>2, <1>5, <1>6, PTL DEF Spec, WaitsAreBounded
=============================================================================
