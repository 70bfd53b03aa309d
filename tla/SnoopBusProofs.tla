--------------------------- MODULE SnoopBusProofs ---------------------------
(***************************************************************************)
(* IInv is an inductive invariant of SnoopBus, for every number of cores,  *)
(* every set of running cores and every size of caches and memory.         *)
(***************************************************************************)
EXTENDS SnoopBusHistory, TLAPS

USE CoresAssumption, SizeAssumption, BlockAssumption, ValueAssumption

MESIType == [Cores -> [Lines -> MESI]]

-----------------------------------------------------------------------------
(***************************************************************************)
(* The operators the model is built from.                                  *)
(***************************************************************************)

\* send_op_to_bus leaves a bus that is taken as it is.
LEMMA SendOpType ==
    ASSUME NEW b \in Bus, NEW c \in Cores, NEW cmd \in Commands, NEW a \in Addrs
    PROVE  SendOp(b, c, cmd, a) \in Bus
BY DEF SendOp, Bus

LEMMA WriteBufferType ==
    ASSUME NEW b \in Bus, NEW v \in Values
    PROVE  /\ [b EXCEPT !.wbuf = v] \in Bus
           /\ [b EXCEPT !.wbuf = v].busy = b.busy
BY DEF Bus

LEMMA ReleasedType ==
    ASSUME NEW b \in Bus
    PROVE  /\ Released(b) \in Bus
           /\ ~Released(b).busy /\ Released(b).cmd = "NO_COMMAND"
           /\ ~Released(b).stall /\ ~Released(b).wr
           /\ Released(b).reqId = b.reqId
BY DEF Released, Bus, Commands

\* SetState changes the line of the requested index, in the caches of S.
LEMMA SetStateAt ==
    ASSUME NEW m \in MESIType, NEW S, NEW s \in MESI,
           bus.reqAddr.idx \in Lines
    PROVE  /\ SetState(m, S, s) \in MESIType
           /\ \A c \in Cores, i \in Lines :
                SetState(m, S, s)[c][i] =
                  IF c \in S /\ i = bus.reqAddr.idx THEN s ELSE m[c][i]
BY DEF SetState, MESIType

\* What an instruction for the memory is.
LEMMA OpFields ==
    /\ \A op \in Loads : /\ op \in Ops /\ op.addr \in Addrs
                         /\ op.addr.idx \in Lines /\ op.addr.off \in Words
                         /\ op.addr.tag \in Tags
    /\ \A op \in Stores : /\ op \in Ops /\ op.addr \in Addrs
                          /\ op.addr.idx \in Lines /\ op.addr.off \in Words
                          /\ op.addr.tag \in Tags /\ op.val \in Values
    /\ NoOp \in Ops
    /\ \A op \in Ops : op.kind = "lw" => op.addr.idx \in Lines /\ op.addr.off \in Words
BY DEF Ops, Loads, Stores, NoOp, Addrs

\* The zeros of the initial state are in range.
LEMMA Zeros ==
    /\ 0 \in Cores /\ 0 \in Lines /\ 0 \in Tags /\ 0 \in Words
    /\ NoOp \in Ops /\ [tag |-> 0, idx |-> 0, off |-> 0] \in Addrs
    /\ MemoryId \notin Cores
BY DEF Cores, Lines, Tags, Words, Ops, Addrs, MemoryId

LEMMA InitIInv == Init => IInv
<1> SUFFICES ASSUME Init PROVE IInv
    OBVIOUS
<1>1. PICK id \in Cores :
         bus = [cmd |-> "NO_COMMAND", origid |-> 0, reqId |-> id,
                reqAddr |-> [tag |-> 0, idx |-> 0, off |-> 0],
                busy |-> FALSE, stall |-> FALSE, shared |-> FALSE,
                wr |-> FALSE, wbuf |-> 0]
    BY DEF Init
<1>2. bus \in Bus
    BY <1>1, Zeros DEF Bus, Commands
<1>3. TypeOK
  <2>1. /\ turn \in 0 .. NumCores /\ memOp \in [Cores -> Ops]
        /\ loaded \in [Cores -> Values] /\ memStalls \in [Cores -> BOOLEAN]
    BY Zeros DEF Init
  <2>2. /\ mesi \in MESIType /\ tag \in [Cores -> [Lines -> Tags]]
        /\ dsram \in [Cores -> [Lines -> [Words -> Values]]]
        /\ mem \in [Tags -> [Lines -> [Words -> Values]]]
    BY Zeros DEF Init, MESIType, MESI
  <2>3. /\ num_words_sent \in 0 .. BlockSize
        /\ block_offset_counter \in 0 .. BlockSize
        /\ main_memory_stalls_counter \in 0 .. Stalls
        /\ modified_block_memory_write \in 0 .. BlockSize
        /\ requesting_address \in [tag : Tags, idx : Lines]
    BY Zeros DEF Init
  <2>4. modified_flag \in BOOLEAN /\ overrun \in BOOLEAN
    BY Zenon DEF Init
  <2> QED
    BY <1>2, <2>1, <2>2, <2>3, <2>4 DEF TypeOK, MESIType
<1>4. Phases
    BY <1>1, Zeros DEF Init, Phases, Asking, FromMemory, FromCache
<1>5. TagGiven /\ AloneToWrite /\ RequesterWaits /\ WriteBackPace /\ WriteBackOver
    BY <1>1 DEF TagGiven, AloneToWrite, RequesterWaits, WriteBackPace, WriteBackOver, FromMemory
<1>6. SingleWriterIn(Scanned)
    BY DEF Init, SingleWriterIn, Scanned
<1> QED
    BY <1>3, <1>4, <1>5, <1>6 DEF IInv

-----------------------------------------------------------------------------
(***************************************************************************)
(* A step of a core.  Of the state IInv speaks of, it may dirty a line the *)
(* core may write, ask for the bus and set memory_stalls.                  *)
(***************************************************************************)

SameTransaction ==
    /\ bus'.cmd = bus.cmd /\ bus'.origid = bus.origid
    /\ bus'.reqId = bus.reqId /\ bus'.reqAddr = bus.reqAddr
    /\ bus'.busy = bus.busy /\ bus'.stall = bus.stall /\ bus'.wr = bus.wr

NewRequest(c) ==
    /\ ~bus.busy /\ bus'.busy
    /\ bus'.cmd \in {"BUS_RD", "BUS_RDX"}
    /\ bus'.origid = c /\ bus'.reqId = c /\ bus'.reqAddr \in Addrs
    /\ bus'.stall = bus.stall /\ bus'.wr = bus.wr
    /\ RequesterWaits'

MayDirty(c) ==
    \A d \in Cores, i \in Lines :
        \/ mesi'[d][i] = mesi[d][i]
        \/ /\ d = c /\ mesi[d][i] \in {"EXCLUSIVE", "MODIFIED"}
           /\ mesi'[d][i] = "MODIFIED"

\* What a core may do keeps IInv.
LEMMA CoreKeepsIInv ==
    ASSUME IInv, TypeOK', NEW c \in Cores, ~Stalled(c),
           UNCHANGED <<tag, counterVars, staticVars>>,
           MayDirty(c),
           \A d \in Cores \ {c} : memStalls'[d] = memStalls[d],
           SameTransaction \/ NewRequest(c)
    PROVE  IInv'
<1> USE DEF counterVars, staticVars
<1>1. Phases'
    BY DEF IInv, Phases, SameTransaction, NewRequest, Asking, FromMemory, FromCache
<1>2. TagGiven'
    BY DEF IInv, Phases, TagGiven, SameTransaction, NewRequest
<1>3. AloneToWrite'
  <2> SUFFICES ASSUME bus'.cmd = "BUS_RDX", bus'.stall PROVE Owners' = {}
    BY DEF AloneToWrite
  <2>1. SameTransaction /\ bus.busy
    BY DEF IInv, Phases, SameTransaction, NewRequest
  <2>2. bus.reqAddr.idx \in Lines
    BY <2>1 DEF IInv, Phases, Addrs
  <2>3. Owners = {}
    BY <2>1 DEF IInv, AloneToWrite, SameTransaction
  <2> QED
    BY <2>1, <2>2, <2>3 DEF Owners, Cached, MayDirty, SameTransaction
<1>4. RequesterWaits'
  <2>1. CASE NewRequest(c)
    BY <2>1 DEF NewRequest
  <2>2. CASE SameTransaction
    <3> SUFFICES ASSUME bus.busy PROVE RequesterWaits'
      BY <2>2 DEF IInv, Phases, RequesterWaits, SameTransaction
    <3>1. bus.reqAddr.idx \in Lines /\ bus.reqId \in Cores
      BY DEF IInv, Phases, Addrs, TypeOK, Bus
    <3>2. ReqLine' = "EXCLUSIVE" => ReqLine = "EXCLUSIVE"
      BY <2>2, <3>1 DEF ReqLine, MayDirty, SameTransaction
    <3>3. bus.reqId = c => ~memStalls[bus.reqId]
      BY DEF Stalled
    <3> QED
      BY <2>2, <3>1, <3>2, <3>3 DEF IInv, RequesterWaits, SameTransaction
  <2> QED
    BY <2>1, <2>2
<1>5. WriteBackPace'
  <2> SUFFICES ASSUME bus'.stall PROVE WriteBackPace'
    BY DEF WriteBackPace
  <2>1. SameTransaction /\ bus.busy
    BY DEF IInv, Phases, SameTransaction, NewRequest
  <2>2. bus.reqAddr.idx \in Lines /\ bus.reqId \in Cores /\ Asking
    BY <2>1 DEF IInv, Phases, Addrs, TypeOK, Bus, Asking, Commands, FromMemory,
                FromCache, SameTransaction
  <2>3. ReqLine' = "MODIFIED" => ReqLine = "MODIFIED"
    BY <2>1, <2>2 DEF ReqLine, MayDirty, SameTransaction, IInv, RequesterWaits,
                      Asking, Stalled
  <2> QED
    BY <2>1, <2>3 DEF IInv, WriteBackPace, SameTransaction
<1>6. WriteBackOver'
    BY DEF IInv, WriteBackOver, FromMemory, SameTransaction, NewRequest
<1>7. SingleWriterIn(Scanned)'
    BY DEF IInv, SingleWriterIn, Scanned, MayDirty
<1> QED
    BY <1>1, <1>2, <1>3, <1>4, <1>5, <1>6, <1>7 DEF IInv

\* The core's own variables stay in range when its pipeline shifts.
LEMMA AdvanceType ==
    ASSUME TypeOK, NEW c \in Cores, NEW op \in Ops, Advance(c, op)
    PROVE  /\ turn' \in 0 .. NumCores
           /\ memOp' \in [Cores -> Ops]
           /\ loaded' \in [Cores -> Values]
<1>1. turn' \in 0 .. NumCores
    BY DEF Advance, Cores
<1>2. memOp' \in [Cores -> Ops]
    BY DEF Advance, TypeOK
<1>3. loaded' \in [Cores -> Values]
  <2>1. CASE memOp[c].kind = "lw"
    <3>1. memOp[c].addr.idx \in Lines /\ memOp[c].addr.off \in Words
      BY <2>1, OpFields DEF TypeOK
    <3>2. dsram[c][memOp[c].addr.idx][memOp[c].addr.off] \in Values
      BY <3>1 DEF TypeOK
    <3> QED
      BY <2>1, <3>2 DEF Advance, TypeOK
  <2>2. CASE memOp[c].kind # "lw"
    BY <2>2 DEF Advance, TypeOK
  <2> QED
    BY <2>1, <2>2
<1> QED
    BY <1>1, <1>2, <1>3

\* Every step of a core preserves IInv.
LEMMA CoreStepIInv ==
    ASSUME IInv, NEW c \in Cores, CoreStep(c)
    PROVE  IInv'
<1> TypeOK
    BY DEF IInv
<1>1. ASSUME CoreSkip(c) \/ CoreStalled(c) PROVE IInv'
  <2>1. turn' \in 0 .. NumCores
    BY <1>1 DEF CoreSkip, CoreStalled, Cores
  <2>2. UNCHANGED <<memOp, loaded, memStalls, mesi, tag, dsram, mem, bus,
                    num_words_sent, block_offset_counter,
                    main_memory_stalls_counter, modified_block_memory_write,
                    requesting_address, modified_flag, overrun>>
    BY <1>1 DEF CoreSkip, CoreStalled, coreVars, cacheVars, counterVars, staticVars
  <2>3. TypeOK'
    BY <2>1, <2>2 DEF TypeOK
  <2>4. Owners' = Owners
    BY <2>2 DEF Owners, Cached
  <2> QED
    BY <2>2, <2>3, <2>4 DEF IInv, Phases, Asking, FromMemory, FromCache, TagGiven,
       AloneToWrite, RequesterWaits, WriteBackPace, ReqLine, WriteBackOver,
       SingleWriterIn
<1>2. ASSUME NEW op \in Ops, Advance(c, op),
             \E stalls \in BOOLEAN : memStalls' = [memStalls EXCEPT ![c] = stalls],
             mesi' \in MESIType, dsram' \in [Cores -> [Lines -> [Words -> Values]]],
             bus' \in Bus, tag' = tag, MayDirty(c),
             SameTransaction \/ NewRequest(c)
      PROVE  IInv'
  <2>1. TypeOK'
    BY <1>2, AdvanceType DEF Advance, counterVars, staticVars, TypeOK, MESIType
  <2> QED
    BY <1>2, <2>1, CoreKeepsIInv DEF Advance, TypeOK
<1>3. ASSUME UNCHANGED <<cacheVars, bus>>
      PROVE  /\ mesi' \in MESIType /\ bus' \in Bus /\ tag' = tag
             /\ dsram' \in [Cores -> [Lines -> [Words -> Values]]]
             /\ MayDirty(c) /\ SameTransaction
    BY <1>3 DEF cacheVars, TypeOK, MESIType, MayDirty, SameTransaction
<1>4. ASSUME NoMemoryOp(c) PROVE IInv'
  <2>1. Advance(c, NoOp) /\ UNCHANGED <<cacheVars, bus>>
    BY <1>4 DEF NoMemoryOp
  <2>2. \E stalls \in BOOLEAN : memStalls' = [memStalls EXCEPT ![c] = stalls]
    <3>1. memStalls = [memStalls EXCEPT ![c] = memStalls[c]] /\ memStalls[c] \in BOOLEAN
      BY DEF TypeOK
    <3> QED
      BY <1>4, <3>1 DEF NoMemoryOp
  <2> QED
    BY <2>1, <2>2, <1>2, <1>3, OpFields
<1>5. ASSUME NEW op \in Loads, ReadHit(c, op) PROVE IInv'
  <2>1. Advance(c, op) /\ UNCHANGED <<cacheVars, bus>>
        /\ memStalls' = [memStalls EXCEPT ![c] = FALSE]
    BY <1>5 DEF ReadHit
  <2> QED
    BY <2>1, <1>2, <1>3, OpFields
<1>6. ASSUME NEW op \in Ops, op.addr \in Addrs, NEW b \in Bus,
             NEW cmd \in {"BUS_RD", "BUS_RDX"}, NEW stalls \in BOOLEAN,
             b = bus \/ \E v \in Values : b = [bus EXCEPT !.wbuf = v],
             Advance(c, op),
             bus' = SendOp(b, c, cmd, op.addr), UNCHANGED cacheVars,
             memStalls' = [memStalls EXCEPT ![c] = stalls],
             stalls \/ (cmd = "BUS_RDX" /\ mesi[c][op.addr.idx] # "EXCLUSIVE")
      PROVE  IInv'
  <2>1. bus' \in Bus
    BY <1>6, SendOpType DEF Commands
  <2>2. /\ mesi' = mesi /\ tag' = tag /\ dsram' = dsram
        /\ mesi' \in MESIType /\ dsram' \in [Cores -> [Lines -> [Words -> Values]]]
        /\ MayDirty(c)
    BY <1>6 DEF cacheVars, TypeOK, MESIType, MayDirty
  <2>3. /\ b.cmd = bus.cmd /\ b.origid = bus.origid /\ b.reqId = bus.reqId
        /\ b.reqAddr = bus.reqAddr /\ b.busy = bus.busy /\ b.stall = bus.stall
        /\ b.wr = bus.wr
    BY <1>6 DEF TypeOK, Bus
  <2>4. CASE bus.busy
    <3>1. SameTransaction
      BY <1>6, <2>3, <2>4 DEF SendOp, SameTransaction
    <3> QED
      BY <1>2, <1>6, <2>1, <2>2, <3>1
  <2>5. CASE ~bus.busy
    <3>1. /\ bus'.origid = c /\ bus'.cmd = cmd /\ bus'.reqId = c
          /\ bus'.reqAddr = op.addr /\ bus'.busy
          /\ bus'.stall = bus.stall /\ bus'.wr = bus.wr
      BY <1>6, <2>3, <2>5 DEF SendOp, Bus
    <3>2. RequesterWaits'
      BY <1>6, <2>2, <3>1 DEF RequesterWaits, ReqLine, TypeOK
    <3>3. NewRequest(c)
      BY <1>6, <2>5, <3>1, <3>2 DEF NewRequest
    <3> QED
      BY <1>2, <1>6, <2>1, <2>2, <3>3
  <2> QED
    BY <2>4, <2>5
<1>7. ASSUME NEW op \in Loads, ReadMiss(c, op) PROVE IInv'
  <2>1. /\ Advance(c, op) /\ bus' = SendOp(bus, c, "BUS_RD", op.addr)
        /\ UNCHANGED cacheVars /\ memStalls' = [memStalls EXCEPT ![c] = TRUE]
    BY <1>7 DEF ReadMiss
  <2>2. bus \in Bus /\ op \in Ops /\ op.addr \in Addrs
    BY OpFields DEF TypeOK
  <2> QED
    BY <2>1, <2>2, <1>6
<1>8. ASSUME NEW op \in Stores, WriteHitOwned(c, op) PROVE IInv'
  <2>1. /\ Advance(c, op) /\ tag' = tag /\ bus' = bus
        /\ mesi[c][op.addr.idx] \in MESI \ {"INVALID", "SHARED"}
        /\ dsram' = [dsram EXCEPT ![c][op.addr.idx][op.addr.off] = op.val]
        /\ mesi' = [mesi EXCEPT ![c][op.addr.idx] = "MODIFIED"]
        /\ memStalls' = [memStalls EXCEPT ![c] = FALSE]
    BY <1>8, OpFields DEF WriteHitOwned, Cached, Dirtied, TypeOK
  <2>2. /\ op \in Ops /\ op.addr.idx \in Lines /\ op.addr.off \in Words
        /\ op.val \in Values
    BY OpFields
  <2>3. mesi' \in MESIType /\ MayDirty(c)
    BY <2>1, <2>2 DEF TypeOK, MESIType, MESI, MayDirty
  <2>4. dsram' \in [Cores -> [Lines -> [Words -> Values]]]
    BY <2>1, <2>2 DEF TypeOK
  <2>5. bus' \in Bus /\ SameTransaction
    BY <2>1 DEF TypeOK, SameTransaction
  <2> QED
    BY <1>2, <2>1, <2>2, <2>3, <2>4, <2>5
<1>9. ASSUME NEW op \in Stores, WriteHitShared(c, op) \/ WriteMiss(c, op) PROVE IInv'
  <2> DEFINE b == [bus EXCEPT !.wbuf = op.val]
  <2>1. /\ Advance(c, op) /\ bus' = SendOp(b, c, "BUS_RDX", op.addr)
        /\ UNCHANGED cacheVars
        /\ \E stalls \in BOOLEAN :
             /\ memStalls' = [memStalls EXCEPT ![c] = stalls]
             /\ stalls \/ mesi[c][op.addr.idx] # "EXCLUSIVE"
    BY <1>9 DEF WriteHitShared, WriteMiss
  <2>2. /\ b \in Bus /\ op \in Ops /\ op.addr \in Addrs
        /\ \E v \in Values : b = [bus EXCEPT !.wbuf = v]
    BY OpFields, WriteBufferType DEF TypeOK
  <2> QED
    BY <2>1, <2>2, <1>6
<1> QED
    BY <1>1, <1>4, <1>5, <1>7, <1>8, <1>9 DEF CoreStep

-----------------------------------------------------------------------------
(***************************************************************************)
(* The transfer of a block.                                                *)
(***************************************************************************)

LineContents == [Cores -> [Lines -> [Words -> Values]]]

\* A word stored in a line of a cache.
LEMMA StoreType ==
    ASSUME NEW d \in LineContents, NEW c \in Cores, NEW i \in Lines,
           NEW w \in Words, NEW v \in Values
    PROVE  [d EXCEPT ![c][i][w] = v] \in LineContents
BY DEF LineContents

\* The request of a bus that is taken is within range.
LEMMA RequestInRange ==
    ASSUME IInv, bus.busy
    PROVE  /\ bus.reqId \in Cores /\ bus.reqAddr \in Addrs
           /\ bus.reqAddr.idx \in Lines /\ bus.reqAddr.tag \in Tags
           /\ bus.reqAddr.off \in Words
BY DEF IInv, TypeOK, Bus, Phases, Addrs

\* b is the bus as a snoop handler passes it on: the same transaction.
SameRequest(b) ==
    /\ b \in Bus /\ b.cmd = bus.cmd /\ b.origid = bus.origid
    /\ b.reqId = bus.reqId /\ b.reqAddr = bus.reqAddr /\ b.busy = bus.busy
    /\ b.stall = bus.stall

\* write_to_main_memory writes one word more of a dirty victim, in range.
LEMMA WriteBackEffect ==
    ASSUME TypeOK, NEW c \in Cores, NEW i \in Lines, NEW state,
           WriteToMainMemory(c, i, state)
    PROVE  /\ mem' \in [Tags -> [Lines -> [Words -> Values]]]
           /\ requesting_address' \in [tag : Tags, idx : Lines]
           /\ modified_flag' \in BOOLEAN
           /\ modified_flag' <=> VictimDirty(state)
           /\ modified_block_memory_write' \in 0 .. BlockSize
           /\ modified_block_memory_write' =
                IF VictimDirty(state) /\ modified_block_memory_write < BlockSize
                THEN modified_block_memory_write + 1
                ELSE modified_block_memory_write
<1> DEFINE k      == modified_block_memory_write
           victim == IF k = 0 THEN [tag |-> tag[c][i], idx |-> i]
                     ELSE requesting_address
<1>1. modified_flag' = VictimDirty(state) /\ VictimDirty(state) \in BOOLEAN
    BY DEF WriteToMainMemory, VictimDirty, TypeOK
<1>2. victim \in [tag : Tags, idx : Lines] /\ victim.tag \in Tags /\ victim.idx \in Lines
    BY DEF TypeOK
<1>3. CASE VictimDirty(state) /\ k < BlockSize
  <2>1. /\ requesting_address' = victim
        /\ mem' = [mem EXCEPT ![victim.tag][victim.idx][k] = dsram[c][victim.idx][k]]
        /\ modified_block_memory_write' = k + 1
    BY <1>3 DEF WriteToMainMemory
  <2>2. k \in Words /\ k + 1 \in 0 .. BlockSize
    BY <1>3 DEF TypeOK, Words
  <2>3. dsram[c][victim.idx][k] \in Values
    BY <1>2, <2>2 DEF TypeOK
  <2>4. mem' \in [Tags -> [Lines -> [Words -> Values]]]
    BY <1>2, <2>1, <2>2, <2>3 DEF TypeOK
  <2> QED
    BY <1>1, <1>2, <1>3, <2>1, <2>2, <2>4
<1>4. CASE ~(VictimDirty(state) /\ k < BlockSize)
  <2>1. UNCHANGED <<requesting_address, mem, modified_block_memory_write>>
    BY <1>4 DEF WriteToMainMemory
  <2> QED
    BY <1>1, <1>4, <2>1 DEF TypeOK
<1> QED
    BY <1>3, <1>4

\* A cycle of the memory's stall preserves IInv if the handler's own changes
\* to the MESI states do.
LEMMA StallKeepsIInv ==
    ASSUME IInv, Asking, ~MemoryAnswers, NEW b, SameRequest(b), NEW state,
           MemoryStall(b, state), turn' = 0, UNCHANGED coreVars,
           mesi' \in MESIType, dsram' \in LineContents, overrun' \in BOOLEAN,
           bus.stall => UNCHANGED mesi /\ state = ReqLine,
           bus.cmd = "BUS_RDX" => Owners' = {},
           bus.cmd = "BUS_RDX" /\ mesi'[bus.reqId][bus.reqAddr.idx] = "EXCLUSIVE"
             => memStalls[bus.reqId],
           SingleWriterIn(Scanned)'
    PROVE  IInv'
<1> DEFINE r == bus.reqId
           a == bus.reqAddr
           k == modified_block_memory_write
<1>1. /\ bus.busy /\ TypeOK /\ r \in Cores /\ a \in Addrs /\ a.idx \in Lines
      /\ a.tag \in Tags
    BY RequestInRange DEF IInv, Phases, Asking
<1>2. /\ WriteToMainMemory(r, a.idx, state)
      /\ main_memory_stalls_counter' = main_memory_stalls_counter + 1
      /\ tag' = [tag EXCEPT ![r][a.idx] = a.tag]
      /\ bus' = [b EXCEPT !.stall = TRUE]
      /\ UNCHANGED <<num_words_sent, block_offset_counter, memStalls, memOp, loaded>>
    BY DEF MemoryStall, NewTag, SameRequest, coreVars
<1>3. /\ bus' \in Bus /\ bus'.stall /\ bus'.cmd = bus.cmd /\ bus'.reqId = r
      /\ bus'.reqAddr = a /\ bus'.busy /\ bus'.origid = bus.origid
    BY <1>1, <1>2 DEF SameRequest, Bus
<1>4. main_memory_stalls_counter' \in 0 .. Stalls
    BY <1>1, <1>2 DEF TypeOK, MemoryAnswers
<1>5. tag' \in [Cores -> [Lines -> Tags]] /\ tag'[r][a.idx] = a.tag
    BY <1>1, <1>2 DEF TypeOK
<1>6. /\ mem' \in [Tags -> [Lines -> [Words -> Values]]]
      /\ requesting_address' \in [tag : Tags, idx : Lines]
      /\ modified_flag' \in BOOLEAN
      /\ modified_flag' <=> VictimDirty(state)
      /\ modified_block_memory_write' \in 0 .. BlockSize
      /\ modified_block_memory_write' =
           IF VictimDirty(state) /\ k < BlockSize THEN k + 1 ELSE k
    BY <1>1, <1>2, WriteBackEffect
<1>7. TypeOK'
  <2>1. turn' \in 0 .. NumCores
    OBVIOUS
  <2> QED
    BY <1>1, <1>2, <1>3, <1>4, <1>5, <1>6, <2>1 DEF TypeOK, MESIType, LineContents
<1>8. Phases'
    BY <1>1, <1>2, <1>3 DEF IInv, Phases, Asking, FromMemory, FromCache
<1>9. TagGiven' /\ AloneToWrite' /\ WriteBackOver'
    BY <1>3, <1>5 DEF TagGiven, AloneToWrite, WriteBackOver, Asking, FromMemory
<1>10. RequesterWaits'
    BY <1>2, <1>3 DEF IInv, RequesterWaits, ReqLine
<1>11. WriteBackPace'
  <2>1. CASE ~bus.stall
    <3>1. main_memory_stalls_counter = 0 /\ k = 0
      BY <2>1 DEF IInv, Phases, FromMemory, Asking
    <3> QED
      BY <1>2, <1>6, <3>1 DEF WriteBackPace
  <2>2. CASE bus.stall
    <3>1. main_memory_stalls_counter \in Nat /\ k \in 0 .. BlockSize
      BY <1>1 DEF TypeOK
    <3>2. ReqLine' = ReqLine /\ state = ReqLine
      BY <1>3, <2>2 DEF ReqLine
    <3>3. CASE k = 0
      BY <1>2, <1>6, <2>2, <3>1, <3>2, <3>3 DEF WriteBackPace, VictimDirty, IInv
    <3>4. CASE k > 0
      BY <1>2, <1>6, <2>2, <3>1, <3>2, <3>4 DEF WriteBackPace, VictimDirty, IInv
    <3> QED
      BY <3>1, <3>3, <3>4
  <2> QED
    BY <2>1, <2>2
<1> QED
    BY <1>7, <1>8, <1>9, <1>10, <1>11 DEF IInv

\* A word from the memory preserves IInv if the handler's own changes to the
\* MESI states do.
LEMMA WordKeepsIInv ==
    ASSUME IInv, MemoryAnswers, (Asking /\ bus.stall) \/ FromMemory,
           NEW b, SameRequest(b), MemoryWord(b), turn' = 0, UNCHANGED coreVars,
           mesi' \in MESIType, SingleWriterIn(Scanned)'
    PROVE  IInv'
<1> DEFINE r == bus.reqId
           a == bus.reqAddr
           k == block_offset_counter
           sent == [dsram EXCEPT ![r][a.idx][k] = mem[a.tag][a.idx][k]]
<1>1. /\ bus.busy /\ TypeOK /\ r \in Cores /\ a \in Addrs /\ a.idx \in Lines
      /\ a.tag \in Tags /\ a.off \in Words
    BY RequestInRange DEF IInv, Phases, Asking, FromMemory
<1>2. /\ num_words_sent = k /\ k \in Words /\ main_memory_stalls_counter = Stalls
      /\ modified_flag => modified_block_memory_write = BlockSize
      /\ num_words_sent \in 0 .. BlockSize
  <2>1. num_words_sent = k /\ num_words_sent < BlockSize /\ num_words_sent \in 0 .. BlockSize
    BY <1>1 DEF IInv, Phases, Asking, FromMemory, TypeOK
  <2>2. main_memory_stalls_counter = Stalls
    BY <1>1 DEF TypeOK, MemoryAnswers
  <2>3. modified_flag => modified_block_memory_write = BlockSize
    BY <1>1, <2>2 DEF IInv, WriteBackPace, WriteBackOver, FromMemory, TypeOK
  <2> QED
    BY <2>1, <2>2, <2>3 DEF Words
<1>3. /\ tag' = tag /\ mem' = mem /\ overrun' = overrun
      /\ requesting_address' = requesting_address /\ modified_flag' = modified_flag
      /\ memOp' = memOp /\ loaded' = loaded
    BY DEF MemoryWord, staticVars, coreVars
<1>4. dsram' \in LineContents
  <2>1. mem[a.tag][a.idx][k] \in Values
    BY <1>1, <1>2 DEF TypeOK
  <2>2. dsram \in LineContents /\ b.wbuf \in Values
    BY <1>1 DEF TypeOK, LineContents, SameRequest, Bus
  <2>3. sent \in LineContents
    BY <1>1, <1>2, <2>1, <2>2, StoreType
  <2>. HIDE DEF sent
  <2>5. [sent EXCEPT ![r][a.idx][a.off] = b.wbuf] \in LineContents
    BY <1>1, <2>2, <2>3, StoreType
  <2>. USE DEF sent
  <2>4. dsram' = IF b.wr THEN [sent EXCEPT ![r][a.idx][a.off] = b.wbuf] ELSE sent
    BY DEF MemoryWord, SameRequest
  <2> QED
    BY <2>3, <2>4, <2>5
<1>5. CASE num_words_sent + 1 = BlockSize
  <2>1. /\ bus' = Released(b)
        /\ num_words_sent' = 0 /\ block_offset_counter' = 0
        /\ main_memory_stalls_counter' = 0 /\ modified_block_memory_write' = 0
        /\ memStalls' = [memStalls EXCEPT ![r] = FALSE]
    BY <1>5 DEF MemoryWord, SameRequest
  <2>2. /\ bus' \in Bus /\ ~bus'.busy /\ bus'.cmd = "NO_COMMAND"
        /\ ~bus'.stall /\ ~bus'.wr
    BY <2>1, ReleasedType DEF SameRequest
  <2>3. TypeOK'
    BY <1>1, <1>3, <1>4, <2>1, <2>2 DEF TypeOK, MESIType, LineContents
  <2>4. Phases'
    BY <2>1, <2>2 DEF Phases, Asking, FromMemory, FromCache
  <2> QED
    BY <2>2, <2>3, <2>4 DEF IInv, TagGiven, AloneToWrite, RequesterWaits,
       WriteBackPace, WriteBackOver, FromMemory
<1>6. CASE num_words_sent + 1 # BlockSize
  <2>1. /\ bus' = [b EXCEPT !.stall = FALSE, !.cmd = "FLUSH", !.origid = MemoryId]
        /\ num_words_sent' = num_words_sent + 1 /\ block_offset_counter' = k + 1
        /\ UNCHANGED <<main_memory_stalls_counter, memStalls,
                       modified_block_memory_write>>
    BY <1>6 DEF MemoryWord
  <2>2. /\ bus' \in Bus /\ bus'.busy /\ bus'.cmd = "FLUSH" /\ ~bus'.stall
        /\ bus'.origid = MemoryId /\ bus'.reqAddr = a
    BY <1>1, <2>1 DEF SameRequest, Bus, Commands
  <2>3. num_words_sent' \in 0 .. BlockSize /\ num_words_sent' > 0 /\ num_words_sent' < BlockSize
    BY <1>2, <1>6, <2>1 DEF Words
  <2>4. TypeOK'
    BY <1>1, <1>2, <1>3, <1>4, <2>1, <2>2, <2>3 DEF TypeOK, MESIType, LineContents
  <2>5. Phases'
    BY <1>1, <1>2, <2>1, <2>2, <2>3 DEF Phases, Asking, FromMemory, FromCache
  <2> QED
    BY <1>2, <1>3, <2>1, <2>2, <2>4, <2>5 DEF IInv, TagGiven, AloneToWrite,
       RequesterWaits, WriteBackPace, WriteBackOver, FromMemory
<1> QED
    BY <1>5, <1>6

\* So does a step of flush_from_cache.
LEMMA CacheKeepsIInv ==
    ASSUME IInv, (Asking /\ ~bus.stall) \/ FromCache,
           NEW b, SameRequest(b), NEW src \in Cores, FlushFromCache(b, src),
           turn' = 0, UNCHANGED coreVars,
           mesi' \in MESIType, SingleWriterIn(Scanned)'
    PROVE  IInv'
<1> DEFINE r == bus.reqId
           a == bus.reqAddr
           k == block_offset_counter
<1>1. /\ bus.busy /\ TypeOK /\ r \in Cores /\ a \in Addrs /\ a.idx \in Lines
      /\ a.tag \in Tags /\ a.off \in Words /\ bus.origid = r /\ r # MemoryId
      /\ num_words_sent = k /\ num_words_sent \in 0 .. BlockSize
      /\ main_memory_stalls_counter = 0 /\ modified_block_memory_write = 0
    BY RequestInRange, Zeros DEF IInv, Phases, Asking, FromCache, FromMemory, TypeOK
<1>2. /\ tag' = tag /\ memStalls' = memStalls
      /\ modified_block_memory_write' = 0
      /\ requesting_address' = requesting_address /\ modified_flag' = modified_flag
      /\ memOp' = memOp /\ loaded' = loaded
    BY <1>1 DEF FlushFromCache, staticVars, coreVars
<1>3. CASE num_words_sent < BlockSize
  <2> DEFINE word  == dsram[src][a.idx][k]
             sent  == [dsram EXCEPT ![r][a.idx][k] = word]
             stray == StrayLine(a)
             value == IF b.wr THEN b.wbuf ELSE word
             share == bus.cmd # "BUS_RDX"
  <2>1. CacheWord(b, src)
    BY <1>3 DEF FlushFromCache
  <2>2. /\ mem' = [mem EXCEPT ![a.tag][a.idx][k] = word]
        /\ dsram' = IF stray \in Lines THEN [sent EXCEPT ![r][stray][k] = value] ELSE sent
        /\ overrun' = (overrun \/ stray \notin Lines)
        /\ bus' = [b EXCEPT !.cmd = "FLUSH", !.wr = FALSE, !.shared = share]
        /\ num_words_sent' = num_words_sent + 1 /\ block_offset_counter' = k + 1
        /\ main_memory_stalls_counter' = 0
    BY <1>1, <2>1 DEF CacheWord, SameRequest
  <2>3. k \in Words /\ word \in Values /\ value \in Values
    BY <1>1, <1>3 DEF TypeOK, Words, SameRequest, Bus
  <2>4. dsram' \in LineContents
    <3>1. sent \in LineContents
      BY <1>1, <2>3 DEF TypeOK, LineContents
    <3>2. stray \in Lines => [sent EXCEPT ![r][stray][k] = value] \in LineContents
      BY <1>1, <2>3, <3>1, StoreType
    <3> QED
      BY <2>2, <3>1, <3>2
  <2>5. mem' \in [Tags -> [Lines -> [Words -> Values]]]
    BY <1>1, <2>2, <2>3 DEF TypeOK
  <2>6. overrun' \in BOOLEAN
    BY <1>1, <2>2 DEF TypeOK
  <2>7. /\ bus' \in Bus /\ bus'.busy /\ bus'.cmd = "FLUSH" /\ bus'.stall = bus.stall
        /\ bus'.origid = r /\ bus'.reqAddr = a /\ bus'.reqId = r
    <3>1. share \in BOOLEAN
      OBVIOUS
    <3> HIDE DEF share
    <3> QED
      BY <1>1, <2>2, <3>1 DEF SameRequest, Bus, Commands
  <2>8. ~bus.stall
    BY DEF IInv, Phases, FromCache
  <2>9. TypeOK'
    <3>1. /\ num_words_sent' \in 0 .. BlockSize
          /\ block_offset_counter' \in 0 .. BlockSize
          /\ main_memory_stalls_counter' \in 0 .. Stalls
          /\ modified_block_memory_write' \in 0 .. BlockSize
          /\ turn' \in 0 .. NumCores
      BY <1>1, <1>2, <1>3, <2>2
    <3>2. modified_flag' \in BOOLEAN
      BY <1>1, <1>2 DEF TypeOK
    <3> QED
      BY <1>1, <1>2, <2>4, <2>5, <2>6, <2>7, <3>1, <3>2
         DEF TypeOK, MESIType, LineContents
  <2>10. Phases'
    BY <1>1, <1>2, <2>2, <2>7, <2>8 DEF Phases, Asking, FromMemory, FromCache
  <2> QED
    BY <1>1, <2>7, <2>8, <2>9, <2>10 DEF IInv, TagGiven, AloneToWrite,
       RequesterWaits, WriteBackPace, WriteBackOver, FromMemory
<1>4. CASE ~(num_words_sent < BlockSize)
  <2>1. CacheDone(b)
    BY <1>4 DEF FlushFromCache
  <2>2. /\ bus' = Released(b)
        /\ num_words_sent' = 0 /\ block_offset_counter' = 0
        /\ main_memory_stalls_counter' = 0
        /\ mem' = mem /\ dsram' = dsram /\ overrun' = overrun
    BY <2>1 DEF CacheDone
  <2>3. /\ bus' \in Bus /\ ~bus'.busy /\ bus'.cmd = "NO_COMMAND"
        /\ ~bus'.stall /\ ~bus'.wr
    BY <2>2, ReleasedType DEF SameRequest
  <2>4. TypeOK'
    <3>1. /\ num_words_sent' \in 0 .. BlockSize
          /\ block_offset_counter' \in 0 .. BlockSize
          /\ main_memory_stalls_counter' \in 0 .. Stalls
          /\ modified_block_memory_write' \in 0 .. BlockSize
          /\ turn' \in 0 .. NumCores
      BY <1>2, <2>2
    <3>2. /\ mem' \in [Tags -> [Lines -> [Words -> Values]]] /\ dsram' \in LineContents
          /\ tag' \in [Cores -> [Lines -> Tags]] /\ memStalls' \in [Cores -> BOOLEAN]
          /\ memOp' \in [Cores -> Ops] /\ loaded' \in [Cores -> Values]
          /\ requesting_address' \in [tag : Tags, idx : Lines]
      BY <1>1, <1>2, <2>2 DEF TypeOK, LineContents
    <3>3. overrun' \in BOOLEAN /\ modified_flag' \in BOOLEAN
      BY <1>1, <1>2, <2>2 DEF TypeOK
    <3> QED
      BY <2>3, <3>1, <3>2, <3>3 DEF TypeOK, MESIType, LineContents
  <2>5. Phases'
    BY <1>2, <2>2, <2>3 DEF Phases, Asking, FromMemory, FromCache
  <2> QED
    BY <2>3, <2>4, <2>5 DEF IInv, TagGiven, AloneToWrite, RequesterWaits,
       WriteBackPace, WriteBackOver, FromMemory
<1> QED
    BY <1>3, <1>4

-----------------------------------------------------------------------------
(***************************************************************************)
(* A step of snoop_bus.                                                    *)
(***************************************************************************)

Writable == {"EXCLUSIVE", "MODIFIED"}

\* Only lines of the requested index change, only the requester's tag does, and
\* the state of any other line gets weaker.
OthersWeaken ==
    /\ \A c \in Cores, j \in Lines :
         c # bus.reqId \/ j # bus.reqAddr.idx => tag'[c][j] = tag[c][j]
    /\ \A c \in Scanned, j \in Lines :
         c # bus.reqId \/ j # bus.reqAddr.idx =>
            /\ mesi'[c][j] # "INVALID" => mesi[c][j] # "INVALID"
            /\ mesi'[c][j] \in Writable => mesi[c][j] \in Writable

\* The requester's line agrees with the other one that is looked at.
RequesterFits ==
    LET r == bus.reqId
        i == bus.reqAddr.idx
    IN  \A c \in Scanned \ {r} :
          \/ mesi'[r][i] \in Writable /\ mesi'[c][i] # "INVALID"
          \/ mesi'[c][i] \in Writable /\ mesi'[r][i] # "INVALID"
          => tag'[c][i] # tag'[r][i]

LEMMA CoherenceKept ==
    ASSUME IInv, bus.busy, OthersWeaken, bus.reqId \in Scanned => RequesterFits
    PROVE  SingleWriterIn(Scanned)'
<1> SUFFICES ASSUME NEW c \in Scanned, NEW d \in Scanned, NEW i \in Lines,
                    c # d, mesi'[c][i] \in Writable, mesi'[d][i] # "INVALID"
             PROVE  tag'[c][i] # tag'[d][i]
    BY DEF SingleWriterIn, Writable, Scanned
<1>1. c \in Cores /\ d \in Cores
    BY DEF Scanned
<1>2. mesi[c][i] \in Writable /\ mesi[d][i] # "INVALID" => tag[c][i] # tag[d][i]
    BY DEF IInv, SingleWriterIn, Writable
<1>3. CASE i = bus.reqAddr.idx /\ c = bus.reqId
    BY <1>3 DEF RequesterFits
<1>4. CASE i = bus.reqAddr.idx /\ d = bus.reqId
    BY <1>4 DEF RequesterFits
<1>5. CASE i # bus.reqAddr.idx \/ (c # bus.reqId /\ d # bus.reqId)
    BY <1>1, <1>2, <1>5 DEF OthersWeaken
<1> QED
    BY <1>3, <1>4, <1>5

\* check_shared_bus looks into two caches: if the requester is one of them, an
\* owner is the other.
LEMMA OwnerFacts ==
    ASSUME IInv, bus.busy, NEW o \in Cores, FirstOwner(o)
    PROVE  /\ o \in Scanned /\ o # bus.reqId
           /\ OwnerState(o) # "INVALID"
           /\ tag[o][bus.reqAddr.idx] = bus.reqAddr.tag
           /\ bus.reqId \in Scanned => Scanned = {bus.reqId, o}
           /\ OwnerState(o) \in Writable => Owners = {o}
           /\ bus.cmd = "BUS_RDX" => ~bus.stall
<1>1. /\ o \in Scanned /\ o # bus.reqId /\ OwnerState(o) # "INVALID"
      /\ tag[o][bus.reqAddr.idx] = bus.reqAddr.tag /\ o \in Owners
    BY DEF FirstOwner, Owners, Cached, OwnerState, Scanned
<1>2. bus.reqId \in Scanned => Scanned = {bus.reqId, o}
    BY <1>1 DEF Scanned, NumCaches, Cores
<1>3. OwnerState(o) \in Writable => Owners = {o}
  <2> SUFFICES ASSUME OwnerState(o) \in Writable, NEW d \in Owners, d # o
               PROVE  FALSE
    BY <1>1
  <2>1. d \in Scanned /\ mesi[d][bus.reqAddr.idx] # "INVALID"
        /\ tag[d][bus.reqAddr.idx] = bus.reqAddr.tag
    BY DEF Owners, Cached, Scanned
  <2>2. bus.reqAddr.idx \in Lines
    BY RequestInRange
  <2> QED
    BY <1>1, <2>1, <2>2 DEF IInv, SingleWriterIn, OwnerState, Writable
<1>4. bus.cmd = "BUS_RDX" => ~bus.stall
    BY <1>1 DEF IInv, AloneToWrite
<1> QED
    BY <1>1, <1>2, <1>3, <1>4

\* What the handlers pass on is the bus with other flags.
LEMMA HandlerBus ==
    ASSUME TypeOK
    PROVE  /\ SameRequest(bus)
           /\ SameRequest(Writing)
           /\ SameRequest([Writing EXCEPT !.shared = FALSE])
BY DEF SameRequest, Writing, TypeOK, Bus

\* A cache that is looked into and is no owner does not hold the block.
LEMMA NotOwner ==
    ASSUME NEW c \in Scanned \ {bus.reqId}, c \notin Owners
    PROVE  \/ mesi[c][bus.reqAddr.idx] = "INVALID"
           \/ tag[c][bus.reqAddr.idx] # bus.reqAddr.tag
BY DEF Scanned, Owners, Cached

\* The memory cannot answer a request that has not waited yet.
LEMMA FirstCycleStalls ==
    ASSUME IInv, Asking, ~bus.stall
    PROVE  ~MemoryAnswers
BY DEF IInv, Phases, Asking, FromMemory, MemoryAnswers

\* A cycle of the stall gives the requester's line its new tag and no other.
LEMMA StallTag ==
    ASSUME IInv, bus.busy, NEW b, SameRequest(b), NEW state, MemoryStall(b, state)
    PROVE  /\ tag'[bus.reqId][bus.reqAddr.idx] = bus.reqAddr.tag
           /\ \A c \in Cores, j \in Lines :
                c # bus.reqId \/ j # bus.reqAddr.idx => tag'[c][j] = tag[c][j]
           /\ bus.stall => \A c \in Cores, j \in Lines : tag'[c][j] = tag[c][j]
           /\ bus'.reqId = bus.reqId /\ bus'.reqAddr = bus.reqAddr
BY RequestInRange DEF MemoryStall, NewTag, SameRequest, Bus, IInv, TypeOK, TagGiven

LEMMA SnoopReadIInv ==
    ASSUME IInv,
           \/ SnoopReadStalled \/ SnoopReadMemory
           \/ \E o \in Cores : SnoopReadModified(o) \/ SnoopReadClean(o)
    PROVE  IInv'
<1> DEFINE r == bus.reqId
           i == bus.reqAddr.idx
<1>1. /\ bus.cmd = "BUS_RD" /\ Asking /\ turn' = 0 /\ UNCHANGED coreVars
    BY DEF SnoopReadStalled, SnoopReadMemory, SnoopReadModified, SnoopReadClean,
           Snoop, Asking
<1>2. /\ bus.busy /\ TypeOK /\ r \in Cores /\ i \in Lines /\ bus.origid = r
      /\ mesi \in MESIType /\ dsram \in LineContents /\ SameRequest(bus)
      /\ overrun \in BOOLEAN
    BY <1>1, RequestInRange, HandlerBus
       DEF IInv, Phases, TypeOK, MESIType, LineContents, Asking
<1>3. ASSUME SnoopReadStalled PROVE IInv'
  <2>1. /\ bus.stall /\ mesi' = mesi /\ mesi' \in MESIType
        /\ FlushFromMainMemory(bus, RequesterState)
        /\ RequesterState = ReqLine
    BY <1>2, <1>3 DEF SnoopReadStalled, RequesterState, OwnerState, ReqLine
  <2>2. CASE MemoryAnswers
    <3>1. MemoryWord(bus)
      BY <2>1, <2>2 DEF FlushFromMainMemory
    <3>2. SingleWriterIn(Scanned)'
      BY <2>1, <3>1 DEF MemoryWord, IInv, SingleWriterIn
    <3> QED
      BY <1>1, <1>2, <2>1, <2>2, <3>1, <3>2, WordKeepsIInv
  <2>3. CASE ~MemoryAnswers
    <3>1. MemoryStall(bus, RequesterState) /\ UNCHANGED <<dsram, overrun>>
      BY <2>1, <2>3 DEF FlushFromMainMemory
    <3>2. SingleWriterIn(Scanned)'
      BY <1>2, <2>1, <3>1, StallTag DEF IInv, SingleWriterIn, Scanned
    <3> QED
      BY <1>1, <1>2, <2>1, <2>3, <3>1, <3>2, StallKeepsIInv
  <2> QED
    BY <2>2, <2>3
<1>4. ASSUME SnoopReadMemory PROVE IInv'
  <2>1. /\ ~bus.stall /\ Owners = {} /\ mesi' = SetState(mesi, {r}, "EXCLUSIVE")
        /\ FlushFromMainMemory(bus, RequesterState)
    BY <1>4 DEF SnoopReadMemory
  <2>2. ~MemoryAnswers /\ MemoryStall(bus, RequesterState) /\ UNCHANGED <<dsram, overrun>>
    BY <1>1, <2>1, FirstCycleStalls DEF FlushFromMainMemory
  <2>3. /\ mesi' \in MESIType
        /\ \A c \in Cores, j \in Lines :
             mesi'[c][j] = IF c \in {r} /\ j = i THEN "EXCLUSIVE" ELSE mesi[c][j]
    BY <1>2, <2>1, SetStateAt DEF MESI
  <2>4. OthersWeaken
    BY <1>2, <2>2, <2>3, StallTag DEF OthersWeaken, Scanned
  <2>5. r \in Scanned => RequesterFits
    <3> SUFFICES ASSUME NEW c \in Scanned \ {r}
                 PROVE  mesi'[c][i] # "INVALID" => tag'[c][i] # tag'[r][i]
      BY DEF RequesterFits, Writable
    <3>1. c \in Cores /\ c # r
      BY DEF Scanned
    <3>2. mesi[c][i] = "INVALID" \/ tag[c][i] # bus.reqAddr.tag
      BY <2>1, NotOwner
    <3> QED
      BY <1>2, <2>2, <2>3, <3>1, <3>2, StallTag
  <2>6. SingleWriterIn(Scanned)'
    BY <1>2, <2>4, <2>5, CoherenceKept
  <2> QED
    BY <1>1, <1>2, <2>1, <2>2, <2>3, <2>6, StallKeepsIInv
<1>5. ASSUME NEW o \in Cores, SnoopReadModified(o) PROVE IInv'
  <2>1. /\ ~bus.stall /\ FirstOwner(o) /\ OwnerState(o) = "MODIFIED"
        /\ FlushFromCache(bus, o) /\ mesi' = SetState(mesi, {r, o}, "SHARED")
    BY <1>2, <1>5 DEF SnoopReadModified, SetState
  <2>2. /\ mesi' \in MESIType
        /\ \A c \in Cores, j \in Lines :
             mesi'[c][j] = IF c \in {r, o} /\ j = i THEN "SHARED" ELSE mesi[c][j]
    BY <1>2, <2>1, SetStateAt DEF MESI
  <2>3. tag' = tag
    BY <2>1 DEF FlushFromCache
  <2>4. mesi[o][i] = "MODIFIED"
    BY <2>1 DEF OwnerState
  <2>5. OthersWeaken
    BY <1>2, <2>2, <2>3, <2>4 DEF OthersWeaken, Writable, Scanned
  <2>6. r \in Scanned => RequesterFits
    <3> SUFFICES ASSUME r \in Scanned PROVE RequesterFits
      OBVIOUS
    <3>1. Scanned = {r, o}
      BY <1>2, <2>1, OwnerFacts
    <3> QED
      BY <1>2, <2>2, <3>1 DEF RequesterFits, Writable
  <2>7. SingleWriterIn(Scanned)'
    BY <1>2, <2>5, <2>6, CoherenceKept
  <2> QED
    BY <1>1, <1>2, <2>1, <2>2, <2>7, CacheKeepsIInv
<1>6. ASSUME NEW o \in Cores, SnoopReadClean(o) PROVE IInv'
  <2>1. /\ ~bus.stall /\ FirstOwner(o) /\ OwnerState(o) \in {"SHARED", "EXCLUSIVE"}
        /\ mesi' = SetState(mesi, {r, o}, "SHARED")
        /\ FlushFromMainMemory(bus, RequesterState)
    BY <1>6 DEF SnoopReadClean
  <2>2. ~MemoryAnswers /\ MemoryStall(bus, RequesterState) /\ UNCHANGED <<dsram, overrun>>
    BY <1>1, <2>1, FirstCycleStalls DEF FlushFromMainMemory
  <2>3. /\ mesi' \in MESIType
        /\ \A c \in Cores, j \in Lines :
             mesi'[c][j] = IF c \in {r, o} /\ j = i THEN "SHARED" ELSE mesi[c][j]
    BY <1>2, <2>1, SetStateAt DEF MESI
  <2>4. mesi[o][i] \in {"SHARED", "EXCLUSIVE"}
    BY <2>1 DEF OwnerState
  <2>5. OthersWeaken
    BY <1>2, <2>2, <2>3, <2>4, StallTag DEF OthersWeaken, Writable, Scanned
  <2>6. r \in Scanned => RequesterFits
    <3> SUFFICES ASSUME r \in Scanned PROVE RequesterFits
      OBVIOUS
    <3>1. Scanned = {r, o}
      BY <1>2, <2>1, OwnerFacts
    <3> QED
      BY <1>2, <2>3, <3>1 DEF RequesterFits, Writable
  <2>7. SingleWriterIn(Scanned)'
    BY <1>2, <2>5, <2>6, CoherenceKept
  <2> QED
    BY <1>1, <1>2, <2>1, <2>2, <2>3, <2>7, StallKeepsIInv
<1> QED
    BY <1>3, <1>4, <1>5, <1>6

\* If all the owners lose their copy and nobody else gets one, the requester is
\* alone, whatever state its own line gets.
LEMMA OwnersGone ==
    ASSUME IInv, bus.busy, NEW b, SameRequest(b), NEW state, MemoryStall(b, state),
           \A c \in Owners : mesi'[c][bus.reqAddr.idx] = "INVALID",
           \A c \in Scanned, j \in Lines :
              c # bus.reqId \/ j # bus.reqAddr.idx =>
                 mesi'[c][j] \in {mesi[c][j], "INVALID"}
    PROVE  Owners' = {} /\ SingleWriterIn(Scanned)'
<1> DEFINE r == bus.reqId
           i == bus.reqAddr.idx
<1>1. /\ r \in Cores /\ i \in Lines
      /\ tag'[r][i] = bus.reqAddr.tag
      /\ \A c \in Cores, j \in Lines : c # r \/ j # i => tag'[c][j] = tag[c][j]
      /\ bus'.reqId = r /\ bus'.reqAddr = bus.reqAddr
    BY RequestInRange, StallTag
<1>2. ASSUME NEW c \in Scanned \ {r}, mesi'[c][i] # "INVALID"
      PROVE  tag'[c][i] # bus.reqAddr.tag
  <2>1. c \in Cores /\ mesi'[c][i] = mesi[c][i] /\ c \notin Owners
    BY <1>1, <1>2 DEF Scanned
  <2> QED
    BY <1>1, <1>2, <2>1, NotOwner
<1>3. Owners' = {}
  <2> SUFFICES ASSUME NEW c \in Owners' PROVE FALSE
    OBVIOUS
  <2>1. /\ c \in Scanned \ {r} /\ mesi'[c][i] # "INVALID"
        /\ tag'[c][i] = bus.reqAddr.tag
    BY <1>1 DEF Owners, Cached, Scanned
  <2> QED
    BY <1>2, <2>1
<1>4. OthersWeaken
    BY <1>1 DEF OthersWeaken, Writable
<1>5. RequesterFits
    BY <1>1, <1>2 DEF RequesterFits, Writable
<1> QED
    BY <1>3, <1>4, <1>5, CoherenceKept

LEMMA SnoopRdxIInv ==
    ASSUME IInv,
           \/ SnoopRdxMemory
           \/ \E o \in Cores, extra \in SUBSET Entries : SnoopRdxShared(o, extra)
           \/ \E o \in Cores : SnoopRdxExclusive(o) \/ SnoopRdxModified(o)
    PROVE  IInv'
<1> DEFINE r == bus.reqId
           i == bus.reqAddr.idx
           a == bus.reqAddr
<1>1. /\ bus.cmd = "BUS_RDX" /\ Asking /\ turn' = 0 /\ UNCHANGED coreVars
    BY DEF SnoopRdxMemory, SnoopRdxShared, SnoopRdxExclusive, SnoopRdxModified,
           Snoop, Asking
<1>2. /\ bus.busy /\ TypeOK /\ r \in Cores /\ i \in Lines /\ bus.origid = r
      /\ a.off \in Words /\ bus.wbuf \in Values
      /\ mesi \in MESIType /\ dsram \in LineContents /\ overrun \in BOOLEAN
    BY <1>1, RequestInRange
       DEF IInv, Phases, TypeOK, MESIType, LineContents, Asking, Bus
<1>3. /\ SameRequest(Writing) /\ SameRequest([Writing EXCEPT !.shared = FALSE])
      /\ Scanned \subseteq Cores
    BY <1>2, HandlerBus DEF Scanned
<1>4. ASSUME SnoopRdxMemory PROVE IInv'
  <2>1. /\ Owners = {} /\ FlushFromMainMemory(Writing, RequesterState)
        /\ mesi' = IF MemoryAnswers THEN SetState(mesi, {r}, "MODIFIED") ELSE mesi
        /\ RequesterState = ReqLine
    BY <1>4 DEF SnoopRdxMemory, RequesterState, OwnerState, ReqLine
  <2>2. CASE MemoryAnswers
    <3>1. MemoryWord(Writing) /\ tag' = tag
      BY <2>1, <2>2 DEF FlushFromMainMemory, MemoryWord
    <3>2. bus.stall /\ tag[r][i] = a.tag
      BY <1>1, <2>2, FirstCycleStalls DEF IInv, TagGiven
    <3>3. /\ mesi' \in MESIType
          /\ \A c \in Cores, j \in Lines :
               mesi'[c][j] = IF c \in {r} /\ j = i THEN "MODIFIED" ELSE mesi[c][j]
      BY <1>2, <2>1, <2>2, SetStateAt DEF MESI
    <3>4. OthersWeaken
      BY <1>3, <3>1, <3>3 DEF OthersWeaken, Writable
    <3>5. RequesterFits
      <4> SUFFICES ASSUME NEW c \in Scanned \ {r}
                   PROVE  mesi'[c][i] # "INVALID" => tag'[c][i] # tag'[r][i]
        BY DEF RequesterFits, Writable
      <4>1. mesi[c][i] = "INVALID" \/ tag[c][i] # a.tag
        BY <2>1, NotOwner
      <4> QED
        BY <1>2, <1>3, <3>1, <3>2, <3>3, <4>1
    <3>6. SingleWriterIn(Scanned)'
      BY <1>2, <3>4, <3>5, CoherenceKept
    <3> QED
      BY <1>1, <1>3, <2>2, <3>1, <3>2, <3>3, <3>6, WordKeepsIInv
  <2>3. CASE ~MemoryAnswers
    <3>1. MemoryStall(Writing, RequesterState) /\ UNCHANGED <<dsram, mesi, overrun>>
      BY <2>1, <2>3 DEF FlushFromMainMemory
    <3>2. Owners' = {} /\ SingleWriterIn(Scanned)'
      BY <1>2, <1>3, <2>1, <3>1, OwnersGone
    <3>3. mesi'[r][i] = "EXCLUSIVE" => memStalls[r]
      BY <1>1, <3>1 DEF IInv, RequesterWaits, ReqLine
    <3> QED
      BY <1>1, <1>2, <1>3, <2>1, <2>3, <3>1, <3>2, <3>3, StallKeepsIInv
  <2> QED
    BY <2>2, <2>3
<1>5. ASSUME NEW o \in Cores, NEW extra \in SUBSET Entries, SnoopRdxShared(o, extra)
      PROVE  IInv'
  <2> DEFINE shot == SetState(mesi, Owners \cup extra, "INVALID")
  <2>1. /\ FirstOwner(o) /\ ~MemoryAnswers /\ MemoryStall(Writing, shot[r][i])
        /\ mesi' = SetState(shot, {r}, "MODIFIED")
        /\ dsram' = [dsram EXCEPT ![r][i][a.off] = bus.wbuf]
        /\ overrun' \in BOOLEAN
    BY <1>5 DEF SnoopRdxShared
  <2>2. ~bus.stall
    BY <1>1, <1>2, <2>1, OwnerFacts
  <2>3. /\ shot \in MESIType
        /\ \A c \in Cores, j \in Lines : shot[c][j] =
             IF c \in Owners \cup extra /\ j = i THEN "INVALID" ELSE mesi[c][j]
    BY <1>2, SetStateAt DEF MESI
  <2> HIDE DEF shot
  <2>4. /\ mesi' \in MESIType
        /\ \A c \in Cores, j \in Lines :
             mesi'[c][j] = IF c \in {r} /\ j = i THEN "MODIFIED" ELSE shot[c][j]
    BY <1>2, <2>1, <2>3, SetStateAt DEF MESI
  <2>5. dsram' \in LineContents
    BY <1>2, <2>1, StoreType
  <2>6. \A c \in Owners : c \in Cores /\ c # r
    BY DEF Owners
  <2>7. Owners' = {} /\ SingleWriterIn(Scanned)'
    <3>1. \A c \in Owners : mesi'[c][i] = "INVALID"
      BY <1>2, <2>3, <2>4, <2>6
    <3>2. \A c \in Scanned, j \in Lines :
             c # r \/ j # i => mesi'[c][j] \in {mesi[c][j], "INVALID"}
      BY <1>3, <2>3, <2>4
    <3> QED
      BY <1>2, <1>3, <2>1, <3>1, <3>2, OwnersGone
  <2> QED
    BY <1>1, <1>2, <1>3, <2>1, <2>2, <2>4, <2>5, <2>7, StallKeepsIInv
<1>6. ASSUME NEW o \in Cores, SnoopRdxExclusive(o) PROVE IInv'
  <2> DEFINE shot == SetState(mesi, {o}, "INVALID")
             b    == [Writing EXCEPT !.shared = FALSE]
  <2>1. /\ FirstOwner(o) /\ OwnerState(o) = "EXCLUSIVE"
        /\ mesi' = SetState(shot, {r}, "MODIFIED")
        /\ FlushFromMainMemory(b, RequesterState)
    BY <1>6 DEF SnoopRdxExclusive
  <2>2. ~bus.stall /\ Owners = {o}
    BY <1>1, <1>2, <2>1, OwnerFacts DEF Writable
  <2>3. ~MemoryAnswers /\ MemoryStall(b, RequesterState) /\ UNCHANGED <<dsram, overrun>>
    BY <1>1, <2>1, <2>2, FirstCycleStalls DEF FlushFromMainMemory
  <2>4. /\ shot \in MESIType
        /\ \A c \in Cores, j \in Lines : shot[c][j] =
             IF c \in {o} /\ j = i THEN "INVALID" ELSE mesi[c][j]
    BY <1>2, SetStateAt DEF MESI
  <2> HIDE DEF shot
  <2>5. /\ mesi' \in MESIType
        /\ \A c \in Cores, j \in Lines :
             mesi'[c][j] = IF c \in {r} /\ j = i THEN "MODIFIED" ELSE shot[c][j]
    BY <1>2, <2>1, <2>4, SetStateAt DEF MESI
  <2>6. o # r /\ SameRequest(b)
    BY <1>2, <1>3, <2>1, OwnerFacts
  <2> HIDE DEF b
  <2>7. Owners' = {} /\ SingleWriterIn(Scanned)'
    <3>1. \A c \in Owners : mesi'[c][i] = "INVALID"
      BY <1>2, <2>2, <2>4, <2>5, <2>6
    <3>2. \A c \in Scanned, j \in Lines :
             c # r \/ j # i => mesi'[c][j] \in {mesi[c][j], "INVALID"}
      BY <1>3, <2>4, <2>5
    <3> QED
      BY <1>2, <2>3, <2>6, <3>1, <3>2, OwnersGone
  <2> QED
    BY <1>1, <1>2, <1>3, <2>2, <2>3, <2>5, <2>6, <2>7, StallKeepsIInv
<1>7. ASSUME NEW o \in Cores, SnoopRdxModified(o) PROVE IInv'
  <2> DEFINE mine == SetState(mesi, {r}, "MODIFIED")
  <2>1. /\ FirstOwner(o) /\ OwnerState(o) = "MODIFIED"
        /\ mesi' = SetState(mine, {o}, "INVALID")
        /\ FlushFromCache(Writing, o)
    BY <1>7 DEF SnoopRdxModified
  <2>2. ~bus.stall /\ o # r /\ (r \in Scanned => Scanned = {r, o})
    BY <1>1, <1>2, <2>1, OwnerFacts
  <2>3. /\ mine \in MESIType
        /\ \A c \in Cores, j \in Lines : mine[c][j] =
             IF c \in {r} /\ j = i THEN "MODIFIED" ELSE mesi[c][j]
    BY <1>2, SetStateAt DEF MESI
  <2> HIDE DEF mine
  <2>4. /\ mesi' \in MESIType
        /\ \A c \in Cores, j \in Lines :
             mesi'[c][j] = IF c \in {o} /\ j = i THEN "INVALID" ELSE mine[c][j]
    BY <1>2, <2>1, <2>3, SetStateAt DEF MESI
  <2>5. tag' = tag
    BY <2>1 DEF FlushFromCache
  <2>6. OthersWeaken
    BY <1>3, <2>3, <2>4, <2>5 DEF OthersWeaken, Writable
  <2>7. r \in Scanned => RequesterFits
    BY <1>2, <2>2, <2>4 DEF RequesterFits, Writable
  <2>8. SingleWriterIn(Scanned)'
    BY <1>2, <2>6, <2>7, CoherenceKept
  <2> QED
    BY <1>1, <1>3, <2>1, <2>2, <2>4, <2>8, CacheKeepsIInv
<1> QED
    BY <1>4, <1>5, <1>6, <1>7

LEMMA SnoopFlushIInv ==
    ASSUME IInv, SnoopFlushMemory \/ SnoopFlushCache
    PROVE  IInv'
<1>1. /\ bus.cmd = "FLUSH" /\ turn' = 0 /\ UNCHANGED coreVars /\ mesi' = mesi
    BY DEF SnoopFlushMemory, SnoopFlushCache, Snoop
<1>2. bus.busy /\ TypeOK /\ mesi' \in MESIType /\ SameRequest(bus)
    BY <1>1, HandlerBus DEF IInv, Phases, TypeOK, MESIType
<1>3. ASSUME SnoopFlushMemory PROVE IInv'
  <2>1. FromMemory /\ FlushFromMainMemory(bus, RequesterState)
    BY <1>3 DEF SnoopFlushMemory, FromMemory
  <2>2. MemoryAnswers
    BY <2>1 DEF IInv, Phases, MemoryAnswers
  <2>3. MemoryWord(bus) /\ tag' = tag
    BY <2>1, <2>2 DEF FlushFromMainMemory, MemoryWord
  <2>4. SingleWriterIn(Scanned)'
    BY <1>1, <2>3 DEF IInv, SingleWriterIn
  <2> QED
    BY <1>1, <1>2, <2>1, <2>2, <2>3, <2>4, WordKeepsIInv
<1>4. ASSUME SnoopFlushCache PROVE IInv'
  <2>1. FromCache /\ FlushFromCache(bus, bus.origid) /\ tag' = tag
    BY <1>4 DEF SnoopFlushCache, FromCache, FlushFromCache
  <2>2. bus.origid \in Cores
    BY <1>2, <2>1, RequestInRange DEF IInv, Phases
  <2>3. SingleWriterIn(Scanned)'
    BY <1>1, <2>1 DEF IInv, SingleWriterIn
  <2> QED
    BY <1>1, <1>2, <2>1, <2>2, <2>3, CacheKeepsIInv
<1> QED
    BY <1>3, <1>4

LEMMA SnoopIdleIInv ==
    ASSUME IInv, SnoopIdle
    PROVE  IInv'
<1>1. /\ bus.cmd = "NO_COMMAND" /\ turn' = 0 /\ bus' = [bus EXCEPT !.shared = FALSE]
      /\ UNCHANGED <<memOp, loaded, memStalls, mesi, tag, dsram, mem,
                     num_words_sent, block_offset_counter,
                     main_memory_stalls_counter, modified_block_memory_write,
                     requesting_address, modified_flag, overrun>>
    BY DEF SnoopIdle, Snoop, coreVars, cacheVars, counterVars, staticVars
<1>2. /\ bus' \in Bus /\ bus'.cmd = "NO_COMMAND" /\ ~bus.busy /\ ~bus'.busy
      /\ ~bus.stall /\ ~bus'.stall /\ ~bus'.wr
    BY <1>1 DEF IInv, TypeOK, Phases, Bus
<1>3. TypeOK'
    BY <1>1, <1>2 DEF IInv, TypeOK
<1>4. Phases'
    BY <1>1, <1>2 DEF IInv, Phases, Asking, FromMemory, FromCache
<1>5. SingleWriterIn(Scanned)'
    BY <1>1 DEF IInv, SingleWriterIn
<1> QED
    BY <1>1, <1>2, <1>3, <1>4, <1>5 DEF IInv, TagGiven, AloneToWrite, RequesterWaits,
       WriteBackPace, WriteBackOver, FromMemory

\* Every step preserves IInv.
LEMMA NextIInv == IInv /\ [Next]_vars => IInv'
<1> SUFFICES ASSUME IInv, [Next]_vars PROVE IInv'
    OBVIOUS
<1>1. ASSUME NEW c \in Cores, CoreStep(c) PROVE IInv'
    BY <1>1, CoreStepIInv
<1>2. ASSUME SnoopStep PROVE IInv'
    BY <1>2, SnoopIdleIInv, SnoopReadIInv, SnoopRdxIInv, SnoopFlushIInv DEF SnoopStep
<1>3. ASSUME UNCHANGED vars PROVE IInv'
  <2>1. UNCHANGED <<turn, memOp, loaded, memStalls, mesi, tag, dsram, mem, bus,
                    num_words_sent, block_offset_counter,
                    main_memory_stalls_counter, modified_block_memory_write,
                    requesting_address, modified_flag, overrun>>
    BY <1>3 DEF vars, coreVars, cacheVars, counterVars, staticVars
  <2> QED
    BY <2>1 DEF IInv, TypeOK, Phases, Asking, FromMemory, FromCache, TagGiven,
       AloneToWrite, Owners, Cached, RequesterWaits, WriteBackPace, ReqLine,
       WriteBackOver, SingleWriterIn
<1> QED
    BY <1>1, <1>2, <1>3 DEF Next

-----------------------------------------------------------------------------
(***************************************************************************)
(* The theorems.                                                           *)
(***************************************************************************)

\* IInv holds in every reachable state of the memory system of sim.
THEOREM Inductive == Spec => []IInv
BY InitIInv, NextIInv, PTL DEF Spec

\* Every variable of the caches, the bus and the transfer keeps its range: no
\* counter of cache.c leaves its block or its stall.
THEOREM TypeCorrect == Spec => []TypeOK
<1>1. IInv => TypeOK
    BY DEF IInv
<1> QED
    BY <1>1, Inductive, PTL

\* However a transaction ended (snoop_bus), the next starts with a clean bus and
\* counters that are all zero.
THEOREM CleanBus == Spec => []IdleClean
<1>1. IInv => IdleClean
    BY DEF IInv, Phases, IdleClean, FromMemory
<1> QED
    BY <1>1, Inductive, PTL

\* The caches that check_shared_bus looks into are coherent: one that may write
\* a block is the only one to hold it, whatever the other cores do.
THEOREM Coherence == Spec => []SingleWriter
<1>1. IInv => SingleWriter
    BY DEF IInv, SingleWriter, Scanned
<1> QED
    BY <1>1, Inductive, PTL

-----------------------------------------------------------------------------
Advances ==
    bus.busy /\ bus'.busy =>
        IF turn = NumCores THEN CyclesLeft' < CyclesLeft ELSE CyclesLeft' = CyclesLeft
Nearer == bus'.busy => CyclesLeft' < CyclesLeft

\* The counters, in numbers.
LEMMA Counters ==
    ASSUME IInv, bus.busy
    PROVE  /\ num_words_sent \in Nat /\ num_words_sent <= BlockSize
           /\ main_memory_stalls_counter \in Nat /\ main_memory_stalls_counter <= Stalls
           /\ FromCache \/ num_words_sent < BlockSize
           /\ Asking \/ FromMemory \/ FromCache
           /\ ~bus.stall /\ ~FromMemory => main_memory_stalls_counter = 0
           /\ ~FromCache => CyclesLeft = Stalls - main_memory_stalls_counter
                                           + (BlockSize - num_words_sent)
           /\ FromCache => CyclesLeft = BlockSize + 1 - num_words_sent
<1>1. /\ num_words_sent \in Nat /\ num_words_sent <= BlockSize
      /\ main_memory_stalls_counter \in Nat /\ main_memory_stalls_counter <= Stalls
    BY DEF IInv, TypeOK
<1>2. Asking \/ FromMemory \/ FromCache
    BY DEF IInv, TypeOK, Bus, Commands, Phases, Asking, FromMemory, FromCache
<1>3. FromCache \/ num_words_sent < BlockSize
    BY <1>2 DEF IInv, Phases, Asking, FromMemory, FromCache
<1>4. ~bus.stall /\ ~FromMemory => main_memory_stalls_counter = 0
    BY DEF IInv, Phases
<1> QED
    BY <1>1, <1>2, <1>3, <1>4 DEF CyclesLeft, FromCache

\* The memory: a cycle of its stall, or a word.
LEMMA MemoryAdvances ==
    ASSUME IInv, bus.busy, ~FromCache, NEW b, SameRequest(b), NEW state,
           b.cmd = bus.cmd, b.origid = bus.origid,
           FlushFromMainMemory(b, state)
    PROVE  Nearer
<1>1. CASE ~MemoryAnswers
  <2>1. /\ main_memory_stalls_counter' = main_memory_stalls_counter + 1
        /\ bus' = [b EXCEPT !.stall = TRUE] /\ num_words_sent' = num_words_sent
    BY <1>1 DEF FlushFromMainMemory, MemoryStall
  <2>2. bus'.cmd = bus.cmd /\ bus'.origid = bus.origid
    BY <2>1 DEF SameRequest, Bus
  <2>3. CyclesLeft' = Stalls - (main_memory_stalls_counter + 1)
                        + (BlockSize - num_words_sent)
    BY <2>1, <2>2 DEF CyclesLeft, FromCache
  <2>4. CyclesLeft = Stalls - main_memory_stalls_counter + (BlockSize - num_words_sent)
    BY Counters
  <2>5. main_memory_stalls_counter \in Nat /\ num_words_sent \in Nat
    BY Counters
  <2> QED
    BY <2>3, <2>4, <2>5 DEF Nearer
<1>2. CASE MemoryAnswers
  <2>1. MemoryWord(b)
    BY <1>2 DEF FlushFromMainMemory
  <2>2. CASE num_words_sent + 1 = BlockSize
    BY <2>1, <2>2, ReleasedType DEF MemoryWord, SameRequest, Nearer
  <2>3. CASE num_words_sent + 1 # BlockSize
    <3>1. /\ bus' = [b EXCEPT !.stall = FALSE, !.cmd = "FLUSH", !.origid = MemoryId]
          /\ num_words_sent' = num_words_sent + 1
          /\ main_memory_stalls_counter' = main_memory_stalls_counter
      BY <2>1, <2>3 DEF MemoryWord
    <3>2. bus'.origid = MemoryId
      BY <3>1 DEF SameRequest, Bus
    <3>3. CyclesLeft' = Stalls - main_memory_stalls_counter
                          + (BlockSize - (num_words_sent + 1))
      BY <3>1, <3>2 DEF CyclesLeft
    <3>4. CyclesLeft = Stalls - main_memory_stalls_counter + (BlockSize - num_words_sent)
      BY Counters
    <3>5. main_memory_stalls_counter \in Nat /\ num_words_sent \in Nat
      BY Counters
    <3> QED
      BY <3>3, <3>4, <3>5 DEF Nearer
  <2> QED
    BY <2>2, <2>3
<1> QED
    BY <1>1, <1>2

\* A cache: a word, or the end.
LEMMA CacheAdvances ==
    ASSUME IInv, bus.busy, FromCache \/ (Asking /\ ~bus.stall), NEW b, SameRequest(b),
           b.origid = bus.origid, NEW src, FlushFromCache(b, src)
    PROVE  Nearer
<1>1. CASE CacheWord(b, src) /\ num_words_sent < BlockSize
  <2> DEFINE share == bus.cmd # "BUS_RDX"
  <2>1. /\ bus' = [b EXCEPT !.cmd = "FLUSH", !.wr = FALSE, !.shared = share]
        /\ num_words_sent' = num_words_sent + 1
    BY <1>1 DEF CacheWord
  <2> HIDE DEF share
  <2>2. bus'.cmd = "FLUSH" /\ bus'.origid = bus.origid
    BY <2>1 DEF SameRequest, Bus
  <2>3. bus.origid # MemoryId
    BY Zeros DEF IInv, Phases, TypeOK, Bus, FromCache, Asking
  <2>4. CyclesLeft' = BlockSize + 1 - (num_words_sent + 1)
    BY <2>1, <2>2, <2>3 DEF CyclesLeft
  <2>5. FromCache \/ (num_words_sent = 0 /\ main_memory_stalls_counter = 0 /\ ~FromCache)
    BY DEF IInv, Phases, Asking, FromCache, FromMemory
  <2>6. CASE FromCache
    <3>1. CyclesLeft = BlockSize + 1 - num_words_sent /\ num_words_sent \in Nat
      BY <2>6, Counters
    <3> QED
      BY <2>4, <3>1 DEF Nearer
  <2>7. CASE ~FromCache
    <3>1. CyclesLeft = Stalls - main_memory_stalls_counter + (BlockSize - num_words_sent)
      BY <2>7, Counters
    <3> QED
      BY <2>4, <2>5, <2>7, <3>1 DEF Nearer
  <2> QED
    BY <2>6, <2>7
<1>2. CASE CacheDone(b)
    BY <1>2, ReleasedType DEF CacheDone, SameRequest, Nearer
<1> QED
    BY <1>1, <1>2 DEF FlushFromCache

LEMMA SnoopAdvances ==
    ASSUME IInv, SnoopStep
    PROVE  Advances
<1>0. turn = NumCores
    BY DEF SnoopStep, Snoop, SnoopIdle, SnoopReadStalled, SnoopReadModified, SnoopReadClean,
       SnoopReadMemory, SnoopRdxShared, SnoopRdxExclusive, SnoopRdxModified,
       SnoopRdxMemory, SnoopFlushMemory, SnoopFlushCache
<1> SUFFICES ASSUME bus.busy PROVE Nearer
    BY <1>0 DEF Nearer, Advances
<1>1. /\ SameRequest(bus) /\ SameRequest(Writing)
      /\ SameRequest([Writing EXCEPT !.shared = FALSE])
    BY HandlerBus DEF IInv
<1>2. /\ Writing.cmd = bus.cmd /\ Writing.origid = bus.origid
      /\ [Writing EXCEPT !.shared = FALSE].cmd = bus.cmd
      /\ [Writing EXCEPT !.shared = FALSE].origid = bus.origid
    BY DEF Writing, IInv, TypeOK, Bus
<1>3. ~SnoopIdle
    BY DEF SnoopIdle, IInv, Phases
<1>4. ASSUME SnoopReadStalled \/ SnoopReadMemory \/ SnoopRdxMemory \/ SnoopFlushMemory
      PROVE  Nearer
    BY <1>1, <1>2, <1>4, MemoryAdvances DEF SnoopReadStalled, SnoopReadMemory,
       SnoopRdxMemory, SnoopFlushMemory, FromCache
<1>5. ASSUME NEW o \in Cores, SnoopReadClean(o) \/ SnoopRdxExclusive(o)
      PROVE  Nearer
    BY <1>1, <1>2, <1>5, MemoryAdvances DEF SnoopReadClean, SnoopRdxExclusive, FromCache
<1>6. ASSUME NEW o \in Cores, NEW extra, SnoopRdxShared(o, extra)
      PROVE  Nearer
  <2>1. /\ ~MemoryAnswers /\ bus.cmd = "BUS_RDX"
        /\ \E s : MemoryStall(Writing, s)
    BY <1>6 DEF SnoopRdxShared
  <2>2. PICK s : MemoryStall(Writing, s)
    BY <2>1
  <2>3. /\ main_memory_stalls_counter' = main_memory_stalls_counter + 1
        /\ bus' = [Writing EXCEPT !.stall = TRUE] /\ num_words_sent' = num_words_sent
    BY <2>2 DEF MemoryStall
  <2>4. bus'.cmd = bus.cmd
    BY <2>3 DEF Writing, IInv, TypeOK, Bus
  <2>5. CyclesLeft' = Stalls - (main_memory_stalls_counter + 1)
                        + (BlockSize - num_words_sent)
    BY <2>1, <2>3, <2>4 DEF CyclesLeft
  <2>6. /\ CyclesLeft = Stalls - main_memory_stalls_counter + (BlockSize - num_words_sent)
        /\ main_memory_stalls_counter \in Nat /\ num_words_sent \in Nat
    BY <2>1, Counters DEF FromCache
  <2> QED
    BY <2>5, <2>6 DEF Nearer
<1>7. ASSUME NEW o \in Cores, SnoopReadModified(o) \/ SnoopRdxModified(o)
      PROVE  Nearer
  <2>1. Asking /\ ~bus.stall
    BY <1>7, OwnerFacts DEF SnoopReadModified, SnoopRdxModified, Asking
  <2> QED
    BY <1>1, <1>2, <1>7, <2>1, CacheAdvances DEF SnoopReadModified, SnoopRdxModified
<1>8. ASSUME SnoopFlushCache PROVE Nearer
    BY <1>1, <1>8, CacheAdvances DEF SnoopFlushCache, FromCache
<1> QED
    BY <1>3, <1>4, <1>5, <1>6, <1>7, <1>8 DEF SnoopStep

\* The cores neither wait for the transaction of another one nor disturb it.
LEMMA CoresLeaveTransaction ==
    ASSUME IInv, NEW c \in Cores, CoreStep(c)
    PROVE  Advances
<1>1. turn # NumCores
  <2>1. turn = c
    BY DEF CoreStep, CoreSkip, CoreStalled, NoMemoryOp, ReadHit, ReadMiss, WriteHitOwned,
       WriteHitShared, WriteMiss, Advance
  <2> QED
    BY <2>1 DEF Cores
<1>2. UNCHANGED <<num_words_sent, main_memory_stalls_counter>>
    BY DEF CoreStep, CoreSkip, CoreStalled, NoMemoryOp, ReadHit, ReadMiss, WriteHitOwned,
       WriteHitShared, WriteMiss, Advance, counterVars
<1> DEFINE Same == bus.busy => bus'.cmd = bus.cmd /\ bus'.origid = bus.origid
<1>3. ASSUME NEW op, NEW cmd, NEW b \in Bus, b.busy = bus.busy,
             b.cmd = bus.cmd, b.origid = bus.origid,
             bus' = SendOp(b, c, cmd, op.addr)
      PROVE  Same
    BY <1>3 DEF SendOp
<1>4. ASSUME NEW op \in Stores PROVE
        /\ [bus EXCEPT !.wbuf = op.val] \in Bus
        /\ [bus EXCEPT !.wbuf = op.val].busy = bus.busy
        /\ [bus EXCEPT !.wbuf = op.val].cmd = bus.cmd
        /\ [bus EXCEPT !.wbuf = op.val].origid = bus.origid
    BY OpFields DEF IInv, TypeOK, Bus
<1>5. ASSUME CoreSkip(c) \/ CoreStalled(c) \/ NoMemoryOp(c) PROVE Same
    BY <1>5 DEF CoreSkip, CoreStalled, NoMemoryOp
<1>6. ASSUME NEW op \in Loads, ReadHit(c, op) \/ ReadMiss(c, op) PROVE Same
    BY <1>3, <1>6 DEF ReadHit, ReadMiss, IInv, TypeOK
<1>7. ASSUME NEW op \in Stores,
             WriteHitOwned(c, op) \/ WriteHitShared(c, op) \/ WriteMiss(c, op)
      PROVE  Same
  <2>1. CASE WriteHitOwned(c, op)
    BY <2>1 DEF WriteHitOwned
  <2>2. CASE WriteHitShared(c, op) \/ WriteMiss(c, op)
    <3>1. bus' = SendOp([bus EXCEPT !.wbuf = op.val], c, "BUS_RDX", op.addr)
      BY <2>2 DEF WriteHitShared, WriteMiss
    <3> QED
      BY <1>3, <1>4, <3>1
  <2> QED
    BY <1>7, <2>1, <2>2
<1>8. Same
    BY <1>5, <1>6, <1>7 DEF CoreStep
<1> QED
    BY <1>1, <1>2, <1>8 DEF Advances, CyclesLeft

\* A transaction takes no more than Stalls + BlockSize calls of snoop_bus, 19 in the
\* simulator: what is left of it is a number no larger than that, and each
\* call makes it smaller.
THEOREM TransactionsEnd ==
    Spec => /\ [](bus.busy => CyclesLeft \in 1 .. Stalls + BlockSize)
            /\ TransactionAdvances
<1>1. IInv => (bus.busy => CyclesLeft \in 1 .. Stalls + BlockSize)
    BY Counters
<1>2. IInv /\ Next => Advances
    BY SnoopAdvances, CoresLeaveTransaction DEF Next
<1> QED
    BY <1>1, <1>2, Inductive, PTL DEF Spec, TransactionAdvances, Advances
-----------------------------------------------------------------------------
(***************************************************************************)
(* The words of a dirty victim (SnoopBusHistory).                          *)
(***************************************************************************)

\* What a core's step leaves of the other cores' lines and of a transaction, and
\* what it asks for: with a dirty line in the way, only another block, and it waits.
CoreTouches(c) ==
    /\ turn # NumCores /\ UNCHANGED <<tag, mem, counterVars, staticVars>>
    /\ \A d \in Cores \ {c} : /\ mesi'[d] = mesi[d] /\ dsram'[d] = dsram[d]
                               /\ memStalls'[d] = memStalls[d]
    /\ Stalled(c) => UNCHANGED <<mesi, dsram, memStalls, bus>>
    /\ bus.busy => SameTransaction
    /\ ~bus.busy /\ bus'.busy =>
          /\ bus'.reqId = c /\ bus'.reqAddr \in Addrs /\ ~bus'.stall
          /\ bus'.cmd \in {"BUS_RD", "BUS_RDX"}
          /\ mesi[c][bus'.reqAddr.idx] = "MODIFIED" =>
                memStalls'[c] /\ tag[c][bus'.reqAddr.idx] # bus'.reqAddr.tag
          /\ UNCHANGED <<mesi, dsram>>

LEMMA CoreTouchesLittle ==
    ASSUME IInv, NEW c \in Cores, CoreStep(c)
    PROVE  CoreTouches(c)
<1> TypeOK /\ Phases
    BY DEF IInv
<1>1. /\ mesi \in MESIType /\ dsram \in LineContents /\ bus \in Bus
      /\ memStalls \in [Cores -> BOOLEAN]
    BY DEF TypeOK, MESIType, LineContents
<1>2. ASSUME CoreSkip(c) \/ CoreStalled(c) PROVE CoreTouches(c)
    BY <1>2 DEF CoreSkip, CoreStalled, CoreTouches, cacheVars, SameTransaction, Cores
<1>3. ASSUME NEW op, Advance(c, op)
      PROVE  ~Stalled(c) /\ turn # NumCores /\ UNCHANGED <<mem, counterVars, staticVars>>
    BY <1>3 DEF Advance, Cores
<1>4. ASSUME NEW op, Advance(c, op), UNCHANGED <<cacheVars, bus>>,
             NEW stalls \in BOOLEAN, memStalls' = [memStalls EXCEPT ![c] = stalls]
      PROVE  CoreTouches(c)
    BY <1>1, <1>3, <1>4 DEF CoreTouches, cacheVars, SameTransaction
<1>5. ASSUME NoMemoryOp(c) PROVE CoreTouches(c)
  <2>1. memStalls = [memStalls EXCEPT ![c] = memStalls[c]] /\ memStalls[c] \in BOOLEAN
    BY <1>1
  <2>2. \E stalls \in BOOLEAN : memStalls' = [memStalls EXCEPT ![c] = stalls]
    BY <1>5, <2>1 DEF NoMemoryOp
  <2> QED
    BY <1>4, <1>5, <2>2 DEF NoMemoryOp
<1>6. ASSUME NEW op \in Loads, ReadHit(c, op) PROVE CoreTouches(c)
    BY <1>4, <1>6 DEF ReadHit
<1>7. ASSUME NEW op \in Stores, WriteHitOwned(c, op) PROVE CoreTouches(c)
  <2>1. /\ Advance(c, op) /\ tag' = tag /\ bus' = bus
        /\ dsram' = [dsram EXCEPT ![c][op.addr.idx][op.addr.off] = op.val]
        /\ mesi' = [mesi EXCEPT ![c][op.addr.idx] = "MODIFIED"]
        /\ memStalls' = [memStalls EXCEPT ![c] = FALSE]
    BY <1>7 DEF WriteHitOwned, Dirtied
  <2>2. \A d \in Cores \ {c} : /\ mesi'[d] = mesi[d] /\ dsram'[d] = dsram[d]
                                /\ memStalls'[d] = memStalls[d]
    BY <1>1, <2>1 DEF MESIType, LineContents
  <2> QED
    BY <1>3, <2>1, <2>2 DEF CoreTouches, SameTransaction
<1>8. ASSUME NEW op \in Ops, op.addr \in Addrs, NEW b \in Bus,
             NEW cmd \in {"BUS_RD", "BUS_RDX"}, NEW stalls \in BOOLEAN,
             b = bus \/ \E v \in Values : b = [bus EXCEPT !.wbuf = v],
             Advance(c, op),
             bus' = SendOp(b, c, cmd, op.addr), UNCHANGED cacheVars,
             memStalls' = [memStalls EXCEPT ![c] = stalls],
             mesi[c][op.addr.idx] = "MODIFIED" => stalls /\ ~Cached(c, op.addr)
      PROVE  CoreTouches(c)
  <2>1. /\ b.cmd = bus.cmd /\ b.origid = bus.origid /\ b.reqId = bus.reqId
        /\ b.reqAddr = bus.reqAddr /\ b.busy = bus.busy /\ b.stall = bus.stall
        /\ b.wr = bus.wr
    BY <1>8 DEF Bus
  <2>2. \A d \in Cores \ {c} : memStalls'[d] = memStalls[d]
    BY <1>1, <1>8
  <2>3. mesi' = mesi /\ tag' = tag /\ dsram' = dsram /\ memStalls'[c] = stalls
    BY <1>1, <1>8 DEF cacheVars
  <2>4. CASE bus.busy
    BY <1>3, <1>8, <2>1, <2>2, <2>3, <2>4 DEF CoreTouches, SendOp, SameTransaction
  <2>5. CASE ~bus.busy
    <3>1. /\ bus'.cmd = cmd /\ bus'.reqId = c /\ bus'.reqAddr = op.addr
          /\ bus'.stall = bus.stall /\ ~bus.stall
      BY <1>8, <2>1, <2>5 DEF SendOp, Bus, Phases
    <3> QED
      BY <1>3, <1>8, <2>2, <2>3, <2>5, <3>1 DEF CoreTouches, Cached
  <2> QED
    BY <2>4, <2>5
<1>9. ASSUME NEW op \in Loads, ReadMiss(c, op) PROVE CoreTouches(c)
  <2>1. /\ Advance(c, op) /\ bus' = SendOp(bus, c, "BUS_RD", op.addr)
        /\ UNCHANGED cacheVars /\ memStalls' = [memStalls EXCEPT ![c] = TRUE]
        /\ ~Cached(c, op.addr)
    BY <1>9 DEF ReadMiss
  <2> QED
    BY <1>1, <1>8, <2>1, OpFields
<1>10. ASSUME NEW op \in Stores, WriteHitShared(c, op) \/ WriteMiss(c, op)
       PROVE  CoreTouches(c)
  <2> DEFINE b == [bus EXCEPT !.wbuf = op.val]
  <2>1. /\ Advance(c, op) /\ bus' = SendOp(b, c, "BUS_RDX", op.addr)
        /\ UNCHANGED cacheVars
        /\ \E stalls \in BOOLEAN :
             /\ memStalls' = [memStalls EXCEPT ![c] = stalls]
             /\ mesi[c][op.addr.idx] = "MODIFIED" => stalls /\ ~Cached(c, op.addr)
    BY <1>10 DEF WriteHitShared, WriteMiss
  <2>2. /\ b \in Bus /\ op \in Ops /\ op.addr \in Addrs
        /\ \E v \in Values : b = [bus EXCEPT !.wbuf = v]
    BY <1>1, OpFields, WriteBufferType
  <2> QED
    BY <2>1, <2>2, <1>8
<1> QED
    BY <1>2, <1>5, <1>6, <1>7, <1>9, <1>10 DEF CoreStep

\* What a call of snoop_bus that finds no shared copy for a store does: memory
\* stalls, or it sends a word, or a cache does.
Stalling(b)  == Asking /\ MemoryStall(b, ReqLine) /\ UNCHANGED dsram
Sending(b)   == MemoryAnswers /\ MemoryWord(b)
Supplying(b) == /\ ~bus.stall /\ bus.origid # MemoryId
                /\ \E src : FlushFromCache(b, src)

LEMMA SnoopTransfers ==
    ASSUME IInv, SnoopStep, bus.busy
    PROVE  /\ turn = NumCores
           /\ ~StoresAtOnce => \E b : /\ SameRequest(b)
                                      /\ Stalling(b) \/ Sending(b) \/ Supplying(b)
<1>1. turn = NumCores
    BY DEF SnoopStep, Snoop, SnoopIdle, SnoopReadStalled, SnoopReadModified, SnoopReadClean,
       SnoopReadMemory, SnoopRdxShared, SnoopRdxExclusive, SnoopRdxModified,
       SnoopRdxMemory, SnoopFlushMemory, SnoopFlushCache
<1> DEFINE Transfers(b) == SameRequest(b) /\ (Stalling(b) \/ Sending(b) \/ Supplying(b))
<1> SUFFICES ASSUME ~StoresAtOnce PROVE \E b : Transfers(b)
    BY <1>1
<1>2. /\ SameRequest(bus) /\ SameRequest(Writing)
      /\ SameRequest([Writing EXCEPT !.shared = FALSE])
    BY HandlerBus DEF IInv
<1>3. ASSUME NEW b, SameRequest(b), FlushFromMainMemory(b, RequesterState),
             Asking \/ FromMemory
      PROVE  Transfers(b)
  <2>1. RequesterState = ReqLine
    BY DEF RequesterState, OwnerState, ReqLine
  <2>2. CASE MemoryAnswers
    BY <1>3, <2>2 DEF FlushFromMainMemory, Sending
  <2>3. CASE ~MemoryAnswers
    <3>1. Asking
      BY <1>3, <2>3 DEF IInv, Phases, MemoryAnswers, FromMemory
    <3> QED
      BY <1>3, <2>1, <2>3, <3>1 DEF FlushFromMainMemory, Stalling
  <2> QED
    BY <2>2, <2>3
<1>4. ~SnoopIdle
    BY DEF SnoopIdle, IInv, Phases
<1>5. ASSUME SnoopReadStalled \/ SnoopReadMemory \/ SnoopRdxMemory \/ SnoopFlushMemory
      PROVE  \E b : Transfers(b)
  <2> HIDE DEF Transfers
  <2> QED
    BY <1>2, <1>3, <1>5 DEF SnoopReadStalled, SnoopReadMemory, SnoopRdxMemory,
       SnoopFlushMemory, Asking, FromMemory
<1>6. ASSUME NEW o \in Cores, SnoopReadClean(o) \/ SnoopRdxExclusive(o)
      PROVE  \E b : Transfers(b)
  <2> HIDE DEF Transfers
  <2> QED
    BY <1>2, <1>3, <1>6 DEF SnoopReadClean, SnoopRdxExclusive, Asking
<1>7. ASSUME NEW o \in Cores, NEW extra, SnoopRdxShared(o, extra) PROVE FALSE
    BY <1>7 DEF SnoopRdxShared, Snoop, StoresAtOnce
<1>8. ASSUME NEW o \in Cores,
             SnoopReadModified(o) \/ SnoopRdxModified(o) \/ SnoopFlushCache
      PROVE  \E b : Transfers(b)
  <2>1. ~bus.stall /\ bus.origid # MemoryId
    <3>1. CASE SnoopReadModified(o)
      BY <3>1 DEF SnoopReadModified, IInv, Phases, TypeOK, Bus, Asking, Cores, MemoryId
    <3>2. CASE SnoopRdxModified(o)
      BY <3>2 DEF SnoopRdxModified, FirstOwner, IInv, AloneToWrite, Phases, TypeOK, Bus, Asking,
                  Cores, MemoryId
    <3>3. CASE SnoopFlushCache
      BY <3>3 DEF SnoopFlushCache, IInv, Phases, FromCache
    <3> QED
      BY <1>8, <3>1, <3>2, <3>3
  <2> QED
    BY <1>2, <1>8, <2>1 DEF SnoopReadModified, SnoopRdxModified, SnoopFlushCache, Supplying
<1> QED
    BY <1>4, <1>5, <1>6, <1>7, <1>8 DEF SnoopStep, Cores

LEMMA MemStore ==
    ASSUME NEW m \in [Tags -> [Lines -> [Words -> Values]]], NEW t \in Tags, NEW j \in Lines,
           NEW k \in Words, NEW w \in Words, NEW x
    PROVE  [m EXCEPT ![t][j][k] = x][t][j][w] = IF w = k THEN x ELSE m[t][j][w]
OBVIOUS

\* A cycle of the stall copies the next word of the victim into main memory.
LEMMA StallSavesWord ==
    ASSUME IInv, HistoryInv, bus.busy, victimLine.dirty, victimLine' = victimLine,
           NEW b, SameRequest(b), Stalling(b)
    PROVE  HistoryInv'
<1> DEFINE r == bus.reqId
           i == bus.reqAddr.idx
           k == modified_block_memory_write
           v == victimLine.block
<1>1. /\ r \in Cores /\ i \in Lines /\ bus.reqAddr.tag \in Tags
      /\ v \in Block /\ v.idx = i /\ v.tag # bus.reqAddr.tag
      /\ memStalls[r] /\ dsram[r][i] = victimLine.words
    BY RequestInRange DEF HistoryInv, VictimWaits, VictimWhole, Stalling
<1>2. /\ mem \in [Tags -> [Lines -> [Words -> Values]]] /\ k \in 0 .. BlockSize
      /\ requesting_address \in Block /\ tag \in [Cores -> [Lines -> Tags]]
      /\ v = [tag |-> v.tag, idx |-> v.idx]
    BY <1>1 DEF IInv, TypeOK, Block
<1>3. /\ WriteToMainMemory(r, i, ReqLine) /\ dsram' = dsram /\ memStalls' = memStalls
      /\ bus'.stall /\ bus'.busy /\ bus'.cmd = bus.cmd
      /\ bus'.reqId = r /\ bus'.reqAddr = bus.reqAddr
    BY DEF Stalling, MemoryStall, SameRequest, Bus
<1>4. IF k = 0 THEN ReqLine = "MODIFIED" /\ [tag |-> tag[r][i], idx |-> i] = v
      ELSE modified_flag /\ requesting_address = v
  <2>1. CASE bus.stall
    BY <2>1 DEF HistoryInv, VictimUnderWay
  <2>2. CASE ~bus.stall
    BY <1>1, <1>2, <2>2 DEF HistoryInv, VictimOwned, Stalling, IInv, Phases, Asking, FromMemory
  <2> QED
    BY <2>1, <2>2
<1>5. /\ modified_flag' /\ VictimDirty(ReqLine)
    BY <1>3, <1>4 DEF WriteToMainMemory, VictimDirty
<1>6. IF k < BlockSize
      THEN /\ requesting_address' = v /\ modified_block_memory_write' = k + 1
           /\ mem' = [mem EXCEPT ![v.tag][v.idx][k] = dsram[r][v.idx][k]]
      ELSE UNCHANGED <<requesting_address, mem, modified_block_memory_write>>
  <2> DEFINE lost == IF k = 0 THEN [tag |-> tag[r][i], idx |-> i] ELSE requesting_address
  <2>1. lost = v
    BY <1>4
  <2>2. IF k < BlockSize
        THEN /\ requesting_address' = lost /\ modified_block_memory_write' = k + 1
             /\ mem' = [mem EXCEPT ![lost.tag][lost.idx][k] = dsram[r][lost.idx][k]]
        ELSE UNCHANGED <<requesting_address, mem, modified_block_memory_write>>
    BY <1>3, <1>5 DEF WriteToMainMemory
  <2> HIDE DEF lost
  <2> QED
    BY <2>1, <2>2
<1>7. requesting_address' = v /\ modified_block_memory_write' > 0
    BY <1>2, <1>4, <1>6
<1>8. ASSUME NEW w \in 0 .. modified_block_memory_write' - 1
      PROVE  mem'[v.tag][v.idx][w] = victimLine.words[w]
  <2>1. w < k => mem[v.tag][v.idx][w] = victimLine.words[w]
    <3>1. k > 0 => bus.stall
      BY <1>2 DEF Stalling, IInv, Phases, Asking, FromMemory
    <3> QED
      BY <1>2, <3>1 DEF HistoryInv, VictimUnderWay
  <2>2. CASE k < BlockSize
    <3>1. v.tag \in Tags /\ v.idx \in Lines /\ k \in Words /\ w \in Words
      BY <1>1, <1>2, <1>6, <2>2 DEF Block, Words
    <3>2. mem'[v.tag][v.idx][w] = IF w = k THEN dsram[r][i][k] ELSE mem[v.tag][v.idx][w]
      <4> DEFINE x == dsram[r][v.idx][k]
      <4>1. mem' = [mem EXCEPT ![v.tag][v.idx][k] = x] /\ x = dsram[r][i][k]
        BY <1>1, <1>6, <2>2
      <4> HIDE DEF x, k, v
      <4>2. [mem EXCEPT ![v.tag][v.idx][k] = x][v.tag][v.idx][w]
               = IF w = k THEN x ELSE mem[v.tag][v.idx][w]
        BY <1>2, <3>1, MemStore
      <4> QED
        BY <4>1, <4>2
    <3> QED
      BY <1>1, <1>2, <1>6, <2>1, <2>2, <3>2
  <2>3. CASE ~(k < BlockSize)
    BY <1>2, <1>6, <2>1, <2>3
  <2> QED
    BY <2>2, <2>3
<1>9. VictimUnderWay'
    BY <1>5, <1>7, <1>8 DEF VictimUnderWay
<1>10. VictimWaits' /\ VictimWhole' /\ VictimOwned' /\ VictimType'
    BY <1>1, <1>3 DEF VictimWaits, VictimWhole, VictimOwned, HistoryInv, VictimType, Block
<1> QED
    BY <1>9, <1>10 DEF HistoryInv

\* While memory or a cache sends words, nothing of the victim changes.
LEMMA TransferKeepsVictim ==
    ASSUME IInv, HistoryInv, bus.busy, bus'.busy, victimLine.dirty, victimLine' = victimLine,
           NEW b, SameRequest(b), Sending(b) \/ Supplying(b)
    PROVE  HistoryInv'
<1>2. CASE Sending(b)
  <2>1. bus.stall \/ FromMemory
    BY <1>2 DEF Sending, MemoryAnswers, IInv, Phases
  <2>2. bus' = [b EXCEPT !.stall = FALSE, !.cmd = "FLUSH", !.origid = MemoryId]
    BY <1>2, ReleasedType DEF Sending, MemoryWord, SameRequest
  <2>3. /\ bus'.cmd = "FLUSH" /\ ~bus'.stall
        /\ bus'.reqId = bus.reqId /\ bus'.reqAddr = bus.reqAddr
    BY <2>2 DEF SameRequest, Bus
  <2>4. UNCHANGED <<mem, staticVars, memStalls, modified_block_memory_write>>
    BY <1>2, ReleasedType DEF Sending, MemoryWord, SameRequest
  <2> QED
    BY <2>1, <2>3, <2>4 DEF HistoryInv, VictimWaits, VictimWhole, VictimOwned, VictimUnderWay,
       VictimType, Asking, FromMemory, staticVars, Block
<1>3. CASE Supplying(b)
  <2>1. PICK src : FlushFromCache(b, src)
    BY <1>3 DEF Supplying
  <2>2. CacheWord(b, src) /\ memStalls' = memStalls
    BY <2>1, ReleasedType DEF FlushFromCache, CacheDone, SameRequest
  <2> DEFINE share == bus.cmd # "BUS_RDX"
  <2>3. bus' = [b EXCEPT !.cmd = "FLUSH", !.wr = FALSE, !.shared = share]
    BY <2>2 DEF CacheWord
  <2> HIDE DEF share
  <2>4. /\ bus'.cmd = "FLUSH" /\ bus'.stall = bus.stall /\ bus'.origid = bus.origid
        /\ bus'.reqId = bus.reqId /\ bus'.reqAddr = bus.reqAddr
    BY <2>3 DEF SameRequest, Bus
  <2> QED
    BY <1>3, <2>2, <2>4 DEF Supplying, HistoryInv, VictimWaits, VictimWhole, VictimOwned,
       VictimUnderWay, VictimType, Asking, FromMemory, Block
<1> QED
    BY <1>2, <1>3

LEMMA CoreKeepsHistoryInv ==
    ASSUME IInv, IInv', HistoryInv, NEW c \in Cores, CoreStep(c), Remember
    PROVE  HistoryInv'
<1>1. CoreTouches(c) /\ ~StoresAtOnce
    BY CoreTouchesLittle DEF CoreTouches, StoresAtOnce
<1>2. /\ dsram' \in LineContents /\ mesi' \in MESIType /\ tag' \in [Cores -> [Lines -> Tags]]
    BY DEF IInv, TypeOK, LineContents, MESIType
<1>3. NoVictim.dirty = FALSE /\ NoVictim.words \in [Words -> Values]
    BY DEF NoVictim
<1>4. ASSUME ~victimLine'.dirty, victimLine'.words \in [Words -> Values] PROVE HistoryInv'
    BY <1>4 DEF HistoryInv, VictimWaits, VictimWhole, VictimOwned, VictimUnderWay, VictimType
<1>5. CASE ~bus'.busy
    BY <1>3, <1>4, <1>5 DEF Remember
<1>6. CASE ~bus.busy /\ bus'.busy
  <2> DEFINE j == bus'.reqAddr.idx
  <2>1. /\ bus'.reqId = c /\ bus'.reqAddr \in Addrs /\ ~bus'.stall
        /\ bus'.cmd \in {"BUS_RD", "BUS_RDX"}
        /\ mesi[c][j] = "MODIFIED" => memStalls'[c] /\ tag[c][j] # bus'.reqAddr.tag
        /\ mesi' = mesi /\ dsram' = dsram /\ tag' = tag
    BY <1>1, <1>6 DEF CoreTouches
  <2>2. j \in Lines /\ tag[c][j] \in Tags /\ dsram[c][j] \in [Words -> Values]
    BY <1>2, <2>1 DEF Addrs, LineContents
  <2>3. /\ victimLine'.dirty <=> mesi[c][j] = "MODIFIED"
        /\ victimLine'.block = [tag |-> tag[c][j], idx |-> j]
        /\ victimLine'.words = dsram[c][j]
    BY <1>6, <2>1 DEF Remember, RequestersLine
  <2>4. VictimWaits' /\ VictimWhole' /\ VictimOwned' /\ VictimType'
    BY <1>6, <2>1, <2>2, <2>3 DEF VictimWaits, VictimWhole, VictimOwned, VictimType, Block, ReqLine
  <2>5. VictimUnderWay'
    BY <2>1 DEF VictimUnderWay, FromMemory
  <2> QED
    BY <2>4, <2>5 DEF HistoryInv
<1>7. CASE bus.busy /\ bus'.busy
  <2>1. victimLine' = victimLine
    BY <1>1, <1>7 DEF Remember
  <2>2. CASE ~victimLine.dirty
    BY <1>4, <2>1, <2>2 DEF HistoryInv, VictimType
  <2>3. CASE victimLine.dirty
    <3>1. /\ SameTransaction /\ memStalls[bus.reqId] /\ bus.reqId \in Cores
      BY <1>1, <1>7, <2>3, RequestInRange DEF CoreTouches, HistoryInv, VictimWaits
    <3>2. /\ mesi'[bus.reqId] = mesi[bus.reqId] /\ dsram'[bus.reqId] = dsram[bus.reqId]
          /\ memStalls'[bus.reqId] = memStalls[bus.reqId]
      BY <1>1, <1>7, <3>1 DEF CoreTouches, Stalled
    <3>3. UNCHANGED <<tag, mem, requesting_address, modified_flag, modified_block_memory_write>>
      BY <1>1 DEF CoreTouches, counterVars, staticVars
    <3> QED
      BY <1>7, <2>1, <2>3, <3>1, <3>2, <3>3 DEF SameTransaction, HistoryInv, VictimWaits,
         VictimWhole, VictimOwned, VictimUnderWay, VictimType, ReqLine, Asking, FromMemory, Block
  <2> QED
    BY <2>2, <2>3
<1> QED
    BY <1>5, <1>6, <1>7

LEMMA SnoopKeepsHistoryInv ==
    ASSUME IInv, HistoryInv, SnoopStep, Remember
    PROVE  HistoryInv'
<1>1. NoVictim.dirty = FALSE /\ NoVictim.words \in [Words -> Values]
    BY DEF NoVictim
<1>2. ASSUME ~victimLine'.dirty, victimLine'.words \in [Words -> Values] PROVE HistoryInv'
    BY <1>2 DEF HistoryInv, VictimWaits, VictimWhole, VictimOwned, VictimUnderWay, VictimType
<1>3. ~bus.busy => ~bus'.busy
  <2> SUFFICES ASSUME ~bus.busy PROVE ~bus'.busy
    OBVIOUS
  <2>1. bus.cmd = "NO_COMMAND" /\ bus \in Bus
    BY DEF IInv, Phases, TypeOK
  <2>2. SnoopIdle
    BY <2>1 DEF SnoopStep, SnoopReadStalled, SnoopReadModified, SnoopReadClean,
       SnoopReadMemory, SnoopRdxShared, SnoopRdxExclusive, SnoopRdxModified,
       SnoopRdxMemory, SnoopFlushMemory, SnoopFlushCache
  <2> QED
    BY <2>1, <2>2 DEF SnoopIdle, Bus
<1>4. CASE ~bus'.busy
    BY <1>1, <1>2, <1>4 DEF Remember
<1>5. CASE bus.busy /\ bus'.busy
  <2>1. CASE StoresAtOnce
    BY <1>1, <1>2, <1>5, <2>1 DEF Remember
  <2>2. CASE ~StoresAtOnce
    <3>1. victimLine' = victimLine
      BY <1>5, <2>2 DEF Remember
    <3>2. CASE ~victimLine.dirty
      BY <1>2, <3>1, <3>2 DEF HistoryInv, VictimType
    <3>3. CASE victimLine.dirty
      <4>1. PICK b : SameRequest(b) /\ (Stalling(b) \/ Sending(b) \/ Supplying(b))
        BY <1>5, <2>2, SnoopTransfers
      <4> QED
        BY <1>5, <3>1, <3>3, <4>1, StallSavesWord, TransferKeepsVictim
    <3> QED
      BY <3>2, <3>3
  <2> QED
    BY <2>1, <2>2
<1> QED
    BY <1>3, <1>4, <1>5

\* The history variable adds no behaviour.
LEMMA HistoryIsSnoopBus == HistorySpec => []IInv
<1>1. HistoryInit => Init
    BY DEF HistoryInit
<1>2. [HistoryNext]_historyVars => [Next]_vars
    BY DEF HistoryNext, historyVars
<1>3. HistorySpec => Spec
    BY <1>1, <1>2, PTL DEF HistorySpec, Spec
<1> QED
    BY <1>3, Inductive, PTL

LEMMA NextHistoryInv ==
    IInv /\ IInv' /\ HistoryInv /\ [HistoryNext]_historyVars => HistoryInv'
<1> SUFFICES ASSUME IInv, IInv', HistoryInv, [HistoryNext]_historyVars PROVE HistoryInv'
    OBVIOUS
<1>1. CASE HistoryNext
    BY <1>1, CoreKeepsHistoryInv, SnoopKeepsHistoryInv DEF HistoryNext, Next
<1>2. CASE UNCHANGED historyVars
    BY <1>2 DEF historyVars, vars, cacheVars, counterVars, staticVars, coreVars, HistoryInv,
       VictimWaits, VictimWhole, VictimOwned, VictimUnderWay, VictimType, ReqLine, Asking,
       FromMemory, Block
<1> QED
    BY <1>1, <1>2

\* The words of a dirty line are in main memory, all of them and as they were
\* when its core asked for another block, once that block comes from main memory
\* (write_to_main_memory, flush_from_main_memory), unless the store of the
\* request went into the line at once (StoresAtOnce).
THEOREM VictimIsSaved == HistorySpec => []VictimSaved
<1>1. HistoryInit => HistoryInv
    BY DEF HistoryInit, NoVictim, HistoryInv, VictimWaits, VictimWhole, VictimOwned,
           VictimUnderWay, VictimType
<1>2. IInv /\ HistoryInv => VictimSaved
  <2> SUFFICES ASSUME IInv, HistoryInv, FromMemory, victimLine.dirty
               PROVE  mem[victimLine.block.tag][victimLine.block.idx] = victimLine.words
    BY DEF VictimSaved
  <2> DEFINE saved == mem[victimLine.block.tag][victimLine.block.idx]
  <2>1. modified_block_memory_write = BlockSize
    BY DEF HistoryInv, VictimUnderWay, IInv, WriteBackOver
  <2>2. \A w \in Words : saved[w] = victimLine.words[w]
    BY <2>1 DEF HistoryInv, VictimUnderWay, Words
  <2>3. saved \in [Words -> Values] /\ victimLine.words \in [Words -> Values]
    BY DEF HistoryInv, VictimWaits, VictimType, Block, IInv, TypeOK
  <2> QED
    BY <2>2, <2>3
<1> QED
    BY <1>1, <1>2, NextHistoryInv, HistoryIsSnoopBus, PTL DEF HistorySpec
=============================================================================
