------------------------ MODULE SnoopBusSingleProofs ------------------------
(***************************************************************************)
(* One running core: caches, bus and main memory are a flat memory, for    *)
(* every size of caches, blocks and memory and every content.              *)
(***************************************************************************)
EXTENDS SnoopBusSingle, SnoopBusProofs

USE CoresAssumption, SizeAssumption, BlockAssumption, ValueAssumption

\* One core has a program.
OneRuns == Running # {} /\ \A c, d \in Running : c = d

LEMMA SoloRuns ==
    ASSUME OneRuns
    PROVE  Solo \in Cores /\ Running = {Solo}
<1>1. Solo \in Running
    BY DEF OneRuns, Solo
<1> QED
    BY <1>1 DEF OneRuns

\* The types of what SoloInv speaks of.
LEMMA SoloTypes ==
    ASSUME TypeOK, OneRuns
    PROVE  /\ mesi \in MESIType /\ tag \in [Cores -> [Lines -> Tags]]
           /\ dsram \in LineContents /\ mem \in [Tags -> [Lines -> [Words -> Values]]]
           /\ bus \in Bus /\ memOp \in [Cores -> Ops] /\ MyOp \in Ops
BY SoloRuns DEF TypeOK, MESIType, LineContents, MyOp

LEMMA InitSoloInv == ASSUME OneRuns PROVE Init => SoloInv
<1> SUFFICES ASSUME Init PROVE SoloInv
    OBVIOUS
<1>1. PICK id \in Cores :
         bus = [cmd |-> "NO_COMMAND", origid |-> 0, reqId |-> id,
                reqAddr |-> [tag |-> 0, idx |-> 0, off |-> 0],
                busy |-> FALSE, stall |-> FALSE, shared |-> FALSE,
                wr |-> FALSE, wbuf |-> 0]
    BY DEF Init
<1>2. ~bus.busy /\ bus.cmd = "NO_COMMAND" /\ ~bus.stall
    BY <1>1
<1>3. \A c \in Cores, i \in Lines : mesi[c][i] = "INVALID"
    BY DEF Init
<1>4. MyOp.kind = "none"
    BY SoloRuns DEF Init, MyOp, NoOp
<1> QED
    BY <1>2, <1>3, <1>4, SoloRuns
       DEF SoloInv, OthersEmpty, OwnTransaction, Served, CleanLines, Before,
           WritingBack, Fetched, FillState, Filling

-----------------------------------------------------------------------------
(***************************************************************************)
(* The core.                                                               *)
(***************************************************************************)

\* A core that goes on finds the bus free: its transaction is over.
LEMMA BusIsFree ==
    ASSUME OneRuns, IInv, SoloInv, NEW c \in Running, ~Stalled(c)
    PROVE  /\ c = Solo /\ c \in Cores /\ ~bus.busy /\ bus.cmd = "NO_COMMAND" /\ ~bus.stall
           /\ ~bus.wr /\ ~Filling /\ modified_block_memory_write = 0
<1>1. c = Solo /\ c \in Cores
    BY SoloRuns
<1>2. ~bus.busy
    BY <1>1 DEF SoloInv, OwnTransaction, Stalled
<1> QED
    BY <1>1, <1>2 DEF IInv, Phases, Filling, FromMemory

\* A step that leaves the state of the memory system and the instruction as they are.
LEMMA SoloKept ==
    ASSUME SoloInv,
           UNCHANGED <<memOp, memStalls, mesi, tag, dsram, mem, bus, num_words_sent,
                       modified_block_memory_write, requesting_address, modified_flag>>
    PROVE  SoloInv'
BY DEF SoloInv, OthersEmpty, OwnTransaction, Served, CleanLines, Before, WritingBack,
       Fetched, FillState, Filling, MyOp, MyLine, Cached

\* An instruction that is done at once: its line is there, a store dirties it.
LEMMA HitKeepsSoloInv ==
    ASSUME OneRuns, IInv, SoloInv, ~Stalled(Solo), NEW op \in Ops, Advance(Solo, op),
           bus' = bus, tag' = tag,
           op.kind # "none" => Cached(Solo, op.addr),
           \/ mesi' = mesi /\ dsram' = dsram
           \/ /\ op.kind = "sw"
              /\ mesi' = [mesi EXCEPT ![Solo][op.addr.idx] = "MODIFIED"]
              /\ dsram' = [dsram EXCEPT ![Solo][op.addr.idx][op.addr.off] = op.val]
    PROVE  SoloInv'
<1>1. /\ Solo \in Cores /\ Solo \in Running /\ TypeOK
      /\ mesi \in MESIType /\ tag \in [Cores -> [Lines -> Tags]]
      /\ dsram \in LineContents /\ memOp \in [Cores -> Ops]
    BY SoloRuns, SoloTypes DEF IInv
<1>2. ~bus.busy /\ bus.cmd = "NO_COMMAND" /\ ~bus.stall
    BY <1>1, BusIsFree
<1>3. op.kind = "sw" => op.addr.idx \in Lines /\ op.addr.off \in Words
    BY OpFields DEF Ops, Loads, NoOp
<1>4. MyOp' = op /\ mem' = mem
    BY <1>1 DEF MyOp, Advance
<1>5. ~bus'.busy /\ bus'.cmd = "NO_COMMAND" /\ ~bus'.stall /\ ~Filling'
    BY <1>2 DEF Filling
<1>6. OthersEmpty'
    BY <1>1, <1>3 DEF SoloInv, OthersEmpty, MESIType
<1>7. Served'
    BY <1>1, <1>3, <1>4 DEF Served, Cached, MESIType
<1>8. CleanLines'
  <2> SUFFICES ASSUME NEW i \in Lines, mesi'[Solo][i] = "EXCLUSIVE"
               PROVE  dsram'[Solo][i] = mem'[tag'[Solo][i]][i]
      BY DEF CleanLines
  <2>1. mesi[Solo][i] = "EXCLUSIVE" /\ dsram'[Solo][i] = dsram[Solo][i]
      BY <1>1, <1>3 DEF MESIType, LineContents
  <2> QED
      BY <1>2, <1>4, <2>1 DEF SoloInv, CleanLines, Filling
<1> QED
    BY <1>5, <1>6, <1>7, <1>8
       DEF SoloInv, OwnTransaction, Before, WritingBack, Fetched, FillState, Filling

\* An instruction that misses: its request gets the bus, which is free.
LEMMA MissKeepsSoloInv ==
    ASSUME OneRuns, IInv, SoloInv, ~Stalled(Solo), NEW op \in Ops, Advance(Solo, op),
           UNCHANGED cacheVars,
           ~Cached(Solo, op.addr),
           memStalls' = [memStalls EXCEPT ![Solo] = TRUE],
           \/ op \in Loads /\ bus' = SendOp(bus, Solo, "BUS_RD", op.addr)
           \/ /\ op \in Stores
              /\ bus' = SendOp([bus EXCEPT !.wbuf = op.val], Solo, "BUS_RDX", op.addr)
    PROVE  /\ SoloInv'
           /\ bus'.busy /\ ~bus'.stall /\ bus'.reqAddr = op.addr /\ memStalls'[Solo]
           /\ bus'.cmd # "FLUSH"
<1>1. /\ Solo \in Cores /\ Solo \in Running /\ TypeOK
      /\ memOp \in [Cores -> Ops] /\ bus \in Bus /\ memStalls \in [Cores -> BOOLEAN]
    BY SoloRuns, SoloTypes DEF IInv, TypeOK
<1>2. ~bus.busy /\ bus.cmd = "NO_COMMAND" /\ ~bus.stall /\ ~bus.wr
    BY <1>1, BusIsFree
<1>3. MyOp' = op /\ memStalls'[Solo] /\ UNCHANGED <<mesi, tag, dsram, mem>>
    BY <1>1 DEF MyOp, Advance, cacheVars
<1>4. /\ bus'.busy /\ ~bus'.stall /\ ~bus'.wr /\ bus'.reqId = Solo /\ bus'.reqAddr = op.addr
      /\ \/ op \in Loads /\ op.kind = "lw" /\ bus'.cmd = "BUS_RD"
         \/ op \in Stores /\ op.kind = "sw" /\ bus'.cmd = "BUS_RDX" /\ bus'.wbuf = op.val
    BY <1>1, <1>2, OpFields DEF SendOp, Bus, Loads, Stores
<1>5. ~Filling /\ ~Filling'
    BY <1>2, <1>4 DEF Filling
<1> QED
    BY <1>3, <1>4, <1>5
       DEF SoloInv, OthersEmpty, OwnTransaction, Served, CleanLines, Before, WritingBack,
           Fetched, FillState, Cached

\* Every step of a core keeps SoloInv.
LEMMA CoreStepSoloInv ==
    ASSUME OneRuns, IInv, SoloInv, NEW c \in Cores, CoreStep(c)
    PROVE  SoloInv'
<1>1. CASE CoreSkip(c) \/ CoreStalled(c)
    BY <1>1, SoloKept
       DEF CoreSkip, CoreStalled, coreVars, cacheVars, counterVars, staticVars
<1>2. ASSUME NEW op, Advance(c, op)
      PROVE  c = Solo /\ ~Stalled(Solo) /\ mesi[Solo] \in [Lines -> MESI]
    BY <1>2, BusIsFree DEF Advance, IInv, TypeOK
<1>3. CASE NoMemoryOp(c)
    BY <1>2, <1>3, HitKeepsSoloInv, OpFields DEF NoMemoryOp, NoOp, cacheVars
<1>4. ASSUME NEW op \in Loads, ReadHit(c, op) PROVE SoloInv'
    BY <1>2, <1>4, HitKeepsSoloInv, OpFields DEF ReadHit, cacheVars
<1>5. ASSUME NEW op \in Loads, ReadMiss(c, op) PROVE SoloInv'
    BY <1>2, <1>5, MissKeepsSoloInv, OpFields DEF ReadMiss
<1>6. ASSUME NEW op \in Stores, WriteHitOwned(c, op) PROVE SoloInv'
    BY <1>2, <1>6, HitKeepsSoloInv, OpFields DEF WriteHitOwned, Dirtied, Stores
<1>7. ASSUME NEW op \in Stores, WriteHitShared(c, op) PROVE FALSE
    BY <1>2, <1>7, OpFields, SoloRuns DEF WriteHitShared, SoloInv, OthersEmpty
<1>8. ASSUME NEW op \in Stores, WriteMiss(c, op) PROVE SoloInv'
    BY <1>2, <1>8, MissKeepsSoloInv, OpFields DEF WriteMiss
<1> QED
    BY <1>1, <1>3, <1>4, <1>5, <1>6, <1>7, <1>8 DEF CoreStep
-----------------------------------------------------------------------------
(***************************************************************************)
(* The bus.  No other cache has anything, so that main memory serves every *)
(* request; what it does is one of four things.                            *)
(***************************************************************************)

\* The state and the place of the transaction, as long as it lasts.
LEMMA Request ==
    ASSUME OneRuns, IInv, SoloInv, bus.busy
    PROVE  /\ Solo \in Cores /\ bus.reqId = Solo /\ bus.reqAddr \in Addrs
           /\ bus.reqAddr.idx \in Lines /\ bus.reqAddr.tag \in Tags
           /\ bus.reqAddr.off \in Words
           /\ Owners = {}
           /\ bus.cmd \in {"BUS_RD", "BUS_RDX", "FLUSH"}
<1>1. bus.reqId = Solo
    BY DEF SoloInv, OwnTransaction
<1>2. Owners = {}
    BY <1>1, RequestInRange DEF Owners, Cached, SoloInv, OthersEmpty
<1> QED
    BY <1>1, <1>2, RequestInRange, SoloRuns DEF IInv, TypeOK, Bus, Commands, Phases

\* Memory stalls; a word of the victim may be written.
StallCycle(b) ==
    /\ Asking /\ ~MemoryAnswers /\ SameRequest(b) /\ b.wbuf = bus.wbuf
    /\ b.wr <=> bus.cmd = "BUS_RDX"
    /\ MemoryStall(b, MyLine)
    /\ UNCHANGED <<memOp, dsram>>
    /\ mesi' = IF bus.cmd = "BUS_RD" THEN [mesi EXCEPT ![Solo][bus.reqAddr.idx] = "EXCLUSIVE"]
               ELSE mesi

\* A word comes.
WordCycle(b) ==
    /\ MemoryAnswers /\ SameRequest(b) /\ b.wbuf = bus.wbuf
    /\ Filling
    /\ b.wr <=> bus.cmd = "BUS_RDX" \/ bus.wr
    /\ MemoryWord(b)
    /\ UNCHANGED memOp
    /\ mesi' = [mesi EXCEPT ![Solo][bus.reqAddr.idx] =
                                IF b.wr THEN "MODIFIED" ELSE "EXCLUSIVE"]

Quiet ==
    /\ ~bus.busy /\ ~bus'.busy /\ bus'.cmd = "NO_COMMAND" /\ ~bus'.stall
    /\ UNCHANGED <<memOp, memStalls, cacheVars, mem, counterVars, staticVars>>

LEMMA SnoopCases ==
    ASSUME OneRuns, IInv, SoloInv, SnoopStep
    PROVE  Quiet \/ \E b \in Bus : StallCycle(b) \/ WordCycle(b)
<1>1. CASE SnoopIdle
  <2>1. ~bus.busy /\ ~bus.stall /\ bus \in Bus
    BY <1>1 DEF SnoopIdle, IInv, Phases, FromMemory, TypeOK
  <2> QED
    BY <1>1, <2>1 DEF SnoopIdle, Quiet, Snoop, Bus, coreVars
<1>2. CASE ~SnoopIdle
  <2>1. bus.busy
    BY <1>2 DEF SnoopStep, SnoopReadStalled, SnoopReadModified, SnoopReadClean,
       SnoopReadMemory, SnoopRdxShared, SnoopRdxExclusive, SnoopRdxModified,
       SnoopRdxMemory, SnoopFlushMemory, SnoopFlushCache, IInv, Phases
  <2>2. /\ Solo \in Cores /\ bus.reqId = Solo /\ bus.reqAddr.idx \in Lines
        /\ Owners = {}
    BY <2>1, Request
  <2>3. /\ mesi \in MESIType /\ bus \in Bus /\ SameRequest(bus) /\ SameRequest(Writing)
        /\ Writing \in Bus /\ Writing.wr /\ Writing.wbuf = bus.wbuf
        /\ RequesterState = MyLine
    BY <2>2, SoloTypes, HandlerBus
       DEF IInv, SameRequest, Writing, Bus, RequesterState, OwnerState, MyLine
  <2>4. \A s \in MESI : SetState(mesi, {bus.reqId}, s) = [mesi EXCEPT ![Solo][bus.reqAddr.idx] = s]
    BY <2>2, <2>3 DEF SetState, MESIType
  <2>5. \A o \in Cores : ~FirstOwner(o)
    BY <2>2 DEF FirstOwner
  <2>6. bus.cmd = "FLUSH" => bus.origid = MemoryId
    BY <2>1 DEF SoloInv, OwnTransaction
  <2>7. MyLine = mesi[Solo][bus.reqAddr.idx]
    BY DEF MyLine
  <2>8. CASE SnoopReadStalled
    <3>1. /\ bus.cmd = "BUS_RD" /\ bus.stall /\ ~bus.wr /\ mesi' = mesi
          /\ MyLine = "EXCLUSIVE" /\ UNCHANGED memOp /\ Filling /\ Asking
      BY <2>1, <2>8 DEF SnoopReadStalled, Snoop, coreVars, SoloInv, OwnTransaction,
         FillState, Filling, Asking
    <3>2. mesi = [mesi EXCEPT ![Solo][bus.reqAddr.idx] = "EXCLUSIVE"]
      BY <2>2, <2>3, <2>7, <3>1 DEF MESIType
    <3> QED
      BY <2>3, <2>8, <3>1, <3>2 DEF SnoopReadStalled, FlushFromMainMemory, StallCycle, WordCycle
  <2>9. CASE SnoopReadMemory
    <3>1. /\ bus.cmd = "BUS_RD" /\ ~bus.wr /\ UNCHANGED memOp /\ Asking /\ ~MemoryAnswers
      BY <2>1, <2>9, FirstCycleStalls DEF SnoopReadMemory, Snoop, coreVars, SoloInv,
         OwnTransaction, Asking
    <3>2. mesi' = [mesi EXCEPT ![Solo][bus.reqAddr.idx] = "EXCLUSIVE"]
      BY <2>4, <2>9 DEF SnoopReadMemory, MESI
    <3> QED
      BY <2>3, <2>9, <3>1, <3>2 DEF SnoopReadMemory, FlushFromMainMemory, StallCycle
  <2>10. CASE SnoopRdxMemory
    <3>1. bus.cmd = "BUS_RDX" /\ UNCHANGED memOp /\ Asking
      BY <2>10 DEF SnoopRdxMemory, Snoop, coreVars, Asking
    <3>2. MemoryAnswers => Filling
      BY <2>1, <3>1, FirstCycleStalls DEF Filling
    <3>3. mesi' = IF MemoryAnswers THEN [mesi EXCEPT ![Solo][bus.reqAddr.idx] = "MODIFIED"]
                  ELSE mesi
      BY <2>4, <2>10 DEF SnoopRdxMemory, MESI
    <3>4. StallCycle(Writing) \/ WordCycle(Writing)
      BY <2>3, <2>10, <3>1, <3>2, <3>3
         DEF SnoopRdxMemory, FlushFromMainMemory, StallCycle, WordCycle
    <3> QED
      BY <2>3, <3>4
  <2>11. CASE SnoopFlushMemory
    <3>1. /\ bus.cmd = "FLUSH" /\ UNCHANGED memOp /\ Filling /\ MemoryAnswers /\ mesi' = mesi
          /\ MyLine = IF bus.wr THEN "MODIFIED" ELSE "EXCLUSIVE"
      BY <2>1, <2>11 DEF SnoopFlushMemory, Snoop, coreVars, Filling, IInv, Phases,
         FromMemory, MemoryAnswers, SoloInv, Fetched
    <3>2. mesi = [mesi EXCEPT ![Solo][bus.reqAddr.idx] =
                                    IF bus.wr THEN "MODIFIED" ELSE "EXCLUSIVE"]
      BY <2>2, <2>3, <2>7, <3>1 DEF MESIType
    <3> QED
      BY <2>3, <2>11, <3>1, <3>2 DEF SnoopFlushMemory, FlushFromMainMemory, WordCycle
  <2>12. CASE SnoopFlushCache
    BY <2>6, <2>12 DEF SnoopFlushCache
  <2> QED
    BY <1>2, <2>2, <2>5, <2>8, <2>9, <2>10, <2>11, <2>12 DEF SnoopStep,
       SnoopReadModified, SnoopReadClean, SnoopRdxShared, SnoopRdxExclusive, SnoopRdxModified
<1> QED
    BY <1>1, <1>2

\* What a cycle of the stall does to the line, to the victim and to main memory.
\* Only the first word of a victim is taken from a line that still has its tag.
LEMMA StallEffect ==
    ASSUME OneRuns, IInv, SoloInv, NEW b, StallCycle(b)
    PROVE  LET i == bus.reqAddr.idx
               t == bus.reqAddr.tag
               k == modified_block_memory_write
               victim == requesting_address'.tag
           IN /\ bus.busy /\ bus'.busy /\ bus'.stall /\ bus'.cmd = bus.cmd
              /\ bus'.reqId = Solo /\ bus'.reqAddr = bus.reqAddr
              /\ bus'.wbuf = bus.wbuf /\ (bus'.wr <=> bus.cmd = "BUS_RDX")
              /\ bus.cmd \in {"BUS_RD", "BUS_RDX"}
              /\ UNCHANGED <<memOp, memStalls, dsram>>
              /\ tag' = [tag EXCEPT ![Solo][i] = t]
              /\ IF modified_flag'
                 THEN /\ requesting_address'.idx = i
                      /\ victim \in Tags /\ victim # t
                      /\ k = 0 => /\ ~bus.stall /\ MyLine = "MODIFIED"
                                  /\ victim = tag[Solo][i]
                      /\ k > 0 => /\ bus.stall /\ modified_flag
                                  /\ requesting_address' = requesting_address
                      /\ IF k < BlockSize
                         THEN /\ modified_block_memory_write' = k + 1
                              /\ mem' = [mem EXCEPT ![victim][i][k] = dsram[Solo][i][k]]
                         ELSE modified_block_memory_write' = k /\ mem' = mem /\ k > 0
                 ELSE /\ k = 0 /\ MyLine # "MODIFIED" /\ mem' = mem
                      /\ modified_block_memory_write' = 0
                      /\ UNCHANGED requesting_address
<1> DEFINE i == bus.reqAddr.idx
           t == bus.reqAddr.tag
           k == modified_block_memory_write
<1>1. bus.busy
    BY DEF StallCycle, Asking, IInv, Phases
<1>2. /\ Solo \in Cores /\ bus.reqId = Solo /\ bus.reqAddr \in Addrs
      /\ i \in Lines /\ t \in Tags
    BY <1>1, Request
<1>3. /\ mesi \in MESIType /\ tag \in [Cores -> [Lines -> Tags]] /\ bus \in Bus
      /\ k \in 0 .. BlockSize /\ requesting_address \in [tag : Tags, idx : Lines]
      /\ modified_flag \in BOOLEAN
    BY SoloTypes DEF IInv, TypeOK
<1>4. /\ WriteToMainMemory(Solo, i, MyLine)
      /\ tag' = [tag EXCEPT ![Solo][i] = t]
      /\ bus' = [b EXCEPT !.stall = TRUE]
      /\ UNCHANGED <<memOp, memStalls, dsram>>
    BY <1>2 DEF StallCycle, MemoryStall, SameRequest, NewTag
<1>5. /\ bus'.busy /\ bus'.stall /\ bus'.cmd = bus.cmd
      /\ bus'.reqId = Solo /\ bus'.reqAddr = bus.reqAddr
      /\ bus'.wbuf = bus.wbuf /\ (bus'.wr <=> bus.cmd = "BUS_RDX")
      /\ bus.cmd \in {"BUS_RD", "BUS_RDX"}
    BY <1>1, <1>2, <1>4 DEF StallCycle, SameRequest, Bus, Asking
<1>6. bus.stall <=> Filling
    BY <1>1, <1>5 DEF Filling
<1>7. CASE k = 0
  <2>1. modified_flag' <=> MyLine = "MODIFIED"
    BY <1>4, <1>7 DEF WriteToMainMemory, VictimDirty
  <2>2. MyLine = "MODIFIED" => ~bus.stall
    BY <1>6, <1>7 DEF SoloInv, WritingBack
  <2>3. MyLine = "MODIFIED" => tag[Solo][i] # t /\ tag[Solo][i] \in Tags
    BY <1>1, <1>2, <1>3, <1>6, <2>2 DEF SoloInv, Before, Cached, MyLine
  <2>4. modified_flag' =>
            /\ requesting_address' = [tag |-> tag[Solo][i], idx |-> i]
            /\ modified_block_memory_write' = k + 1
            /\ mem' = [mem EXCEPT ![tag[Solo][i]][i][k] = dsram[Solo][i][k]]
    <3> DEFINE victim == [tag |-> tag[Solo][i], idx |-> i]
    <3> SUFFICES ASSUME modified_flag'
                 PROVE  /\ requesting_address' = victim
                        /\ modified_block_memory_write' = k + 1
                        /\ mem' = [mem EXCEPT ![tag[Solo][i]][i][k] = dsram[Solo][i][k]]
      OBVIOUS
    <3>1. k < BlockSize
      BY <1>7
    <3>2. /\ requesting_address' = victim
          /\ modified_block_memory_write' = k + 1
          /\ mem' = [mem EXCEPT ![victim.tag][victim.idx][k] = dsram[Solo][victim.idx][k]]
      <4> HIDE DEF victim
      <4>1. (IF k = 0 THEN victim ELSE requesting_address) = victim
        BY <1>7
      <4> HIDE DEF k
      <4> QED
        BY Zenon, <1>4, <3>1, <4>1 DEF WriteToMainMemory, victim, k
    <3>3. victim.tag = tag[Solo][i] /\ victim.idx = i
      OBVIOUS
    <3> QED
      BY <3>2, <3>3
  <2>5. ~modified_flag' =>
            UNCHANGED <<requesting_address, mem, modified_block_memory_write>>
    BY <1>4 DEF WriteToMainMemory
  <2>6. CASE modified_flag'
    <3>1. /\ ~bus.stall /\ MyLine = "MODIFIED" /\ requesting_address'.idx = i
          /\ requesting_address'.tag = tag[Solo][i]
      BY <2>1, <2>2, <2>4, <2>6
    <3>2. requesting_address'.tag \in Tags /\ requesting_address'.tag # t
      BY <2>3, <3>1
    <3>3. k < BlockSize /\ ~(k > 0)
      BY <1>7
    <3> QED
      BY <1>1, <1>4, <1>5, <2>4, <2>6, <3>1, <3>2, <3>3
  <2>7. CASE ~modified_flag'
    BY <1>1, <1>4, <1>5, <1>7, <2>1, <2>5, <2>7
  <2> QED
    BY <2>6, <2>7
<1>8. CASE k # 0
  <2>1. bus.stall
    BY <1>8 DEF StallCycle, IInv, Phases, Asking, FromMemory
  <2>2. /\ modified_flag /\ requesting_address.idx = i /\ requesting_address.tag # t
        /\ requesting_address.tag \in Tags /\ k > 0
    BY <1>3, <1>6, <1>8, <2>1 DEF SoloInv, WritingBack
  <2>3. /\ modified_flag'
        /\ IF k < BlockSize
           THEN /\ requesting_address' = requesting_address
                /\ mem' = [mem EXCEPT ![requesting_address.tag][requesting_address.idx][k] =
                                            dsram[Solo][requesting_address.idx][k]]
                /\ modified_block_memory_write' = k + 1
           ELSE UNCHANGED <<requesting_address, mem, modified_block_memory_write>>
    BY <1>4, <1>8, <2>2 DEF WriteToMainMemory, VictimDirty
  <2> QED
    BY <1>1, <1>4, <1>5, <1>8, <2>1, <2>2, <2>3
<1> QED
    BY <1>7, <1>8

\* A word stored in a block of main memory changes no other block.
LEMMA OtherBlock ==
    ASSUME NEW m \in [Tags -> [Lines -> [Words -> Values]]], NEW t \in Tags, NEW i \in Lines,
           NEW w, NEW v, NEW u \in Tags, NEW j \in Lines, u # t \/ j # i
    PROVE  [m EXCEPT ![t][i][w] = v][u][j] = m[u][j]
OBVIOUS

LEMMA StallKeepsSoloInv ==
    ASSUME OneRuns, IInv, SoloInv, NEW b, StallCycle(b)
    PROVE  SoloInv'
<1> DEFINE i == bus.reqAddr.idx
           t == bus.reqAddr.tag
           k == modified_block_memory_write
           victim == requesting_address'.tag
<1>1. /\ bus.busy /\ bus'.busy /\ bus'.stall /\ bus'.cmd = bus.cmd
      /\ bus'.reqId = Solo /\ bus'.reqAddr = bus.reqAddr
      /\ bus'.wbuf = bus.wbuf /\ (bus'.wr <=> bus.cmd = "BUS_RDX")
      /\ bus.cmd \in {"BUS_RD", "BUS_RDX"}
      /\ UNCHANGED <<memOp, memStalls, dsram>>
      /\ tag' = [tag EXCEPT ![Solo][i] = t]
    BY StallEffect
<1>2. /\ Solo \in Cores /\ i \in Lines /\ t \in Tags
      /\ mesi \in MESIType /\ tag \in [Cores -> [Lines -> Tags]]
      /\ dsram \in LineContents /\ mem \in [Tags -> [Lines -> [Words -> Values]]]
      /\ k \in 0 .. BlockSize
    BY <1>1, Request, SoloTypes DEF IInv, TypeOK
<1>3. mesi' = IF bus.cmd = "BUS_RD" THEN [mesi EXCEPT ![Solo][i] = "EXCLUSIVE"] ELSE mesi
    BY DEF StallCycle
<1>4. Filling' /\ MyOp' = MyOp
    BY <1>1 DEF Filling, MyOp
<1>5. OthersEmpty'
    BY <1>2, <1>3 DEF SoloInv, OthersEmpty, MESIType
<1>6. OwnTransaction'
  <2>1. bus.cmd = "BUS_RD" => ~bus.wr
    BY <1>1 DEF SoloInv, OwnTransaction
  <2> QED
    BY <1>1, <1>4, <2>1 DEF SoloInv, OwnTransaction
<1>7. Served' /\ Before' /\ Fetched'
    BY <1>1, <1>4 DEF Served, Before, Fetched
<1>8. FillState'
    BY <1>1, <1>2, <1>3 DEF FillState, MyLine, MESIType
<1>9. WritingBack'
  <2>1. CASE ~modified_flag'
    <3>1. k = 0 /\ MyLine # "MODIFIED" /\ modified_block_memory_write' = 0
      BY <2>1, StallEffect
    <3>2. MyLine' # "MODIFIED"
      BY <1>1, <1>2, <1>3, <3>1 DEF MyLine, MESIType
    <3> QED
      BY <2>1, <3>1, <3>2 DEF WritingBack
  <2>2. CASE modified_flag'
    <3>1. /\ requesting_address'.idx = i /\ victim # t /\ victim \in Tags
          /\ k > 0 => bus.stall /\ modified_flag /\ requesting_address' = requesting_address
          /\ IF k < BlockSize
             THEN /\ modified_block_memory_write' = k + 1
                  /\ mem' = [mem EXCEPT ![victim][i][k] = dsram[Solo][i][k]]
             ELSE modified_block_memory_write' = k /\ mem' = mem /\ k > 0
      BY <2>2, StallEffect
    <3>2. modified_block_memory_write' > 0 /\ modified_block_memory_write' \in 0 .. BlockSize
      BY <1>2, <3>1
    <3>3. ASSUME NEW w \in 0 .. modified_block_memory_write' - 1
          PROVE  mem'[victim][i][w] = dsram[Solo][i][w]
      <4>1. w \in Words /\ (w < k \/ (w = k /\ k < BlockSize))
        <5>1. CASE k < BlockSize
          <6>1. w \in 0 .. k
            BY <1>2, <3>1, <5>1
          <6> QED
            BY <1>2, <5>1, <6>1 DEF Words
        <5>2. CASE ~(k < BlockSize)
          <6>1. w \in 0 .. k - 1
            BY <3>1, <5>2
          <6> QED
            BY <1>2, <6>1 DEF Words
        <5> QED
          BY <5>1, <5>2
      <4>2. w < k => mem[victim][i][w] = dsram[Solo][i][w]
        BY <1>1, <1>2, <3>1 DEF SoloInv, WritingBack, Filling
      <4> QED
        BY <1>2, <3>1, <4>1, <4>2
    <3> QED
      BY <1>1, <2>2, <3>1, <3>2, <3>3 DEF WritingBack
  <2> QED
    BY <2>1, <2>2
<1>10. CleanLines'
  <2> SUFFICES ASSUME NEW j \in Lines, mesi'[Solo][j] = "EXCLUSIVE", j # i
               PROVE  dsram'[Solo][j] = mem'[tag'[Solo][j]][j]
    BY <1>1, <1>4 DEF CleanLines
  <2>1. mesi[Solo][j] = "EXCLUSIVE" /\ tag'[Solo][j] = tag[Solo][j] /\ tag[Solo][j] \in Tags
    BY <1>1, <1>2, <1>3 DEF MESIType
  <2>2. mem'[tag[Solo][j]][j] = mem[tag[Solo][j]][j]
    <3>1. \/ mem' = mem
          \/ /\ victim \in Tags
             /\ mem' = [mem EXCEPT ![victim][i][k] = dsram[Solo][i][k]]
      BY StallEffect
    <3>2. CASE mem' = [mem EXCEPT ![victim][i][k] = dsram[Solo][i][k]] /\ victim \in Tags
      <4> DEFINE v == dsram[Solo][i][k]
      <4>1. [mem EXCEPT ![victim][i][k] = v][tag[Solo][j]][j] = mem[tag[Solo][j]][j]
        <5> HIDE DEF v, victim, k
        <5> QED
          BY <1>2, <2>1, <3>2, OtherBlock
      <4> QED
        BY <3>2, <4>1
    <3> QED
      BY <3>1, <3>2
  <2> QED
    BY <1>1, <2>1, <2>2 DEF SoloInv, CleanLines
<1> QED
    BY <1>5, <1>6, <1>7, <1>8, <1>9, <1>10 DEF SoloInv

\* What a word from main memory does to the line.
LEMMA WordEffect ==
    ASSUME OneRuns, IInv, SoloInv, NEW b, WordCycle(b)
    PROVE  LET i == bus.reqAddr.idx
               t == bus.reqAddr.tag
               n == num_words_sent
           IN /\ bus.busy /\ n \in Words /\ b.wr \in BOOLEAN
              /\ MyOp \in IF b.wr THEN Stores ELSE Loads
              /\ b.wr => bus.wbuf = MyOp.val
              /\ tag[Solo][i] = t /\ MyOp.addr = bus.reqAddr
              /\ modified_flag => modified_block_memory_write = BlockSize
              /\ ~modified_flag => modified_block_memory_write = 0
              /\ UNCHANGED <<memOp, tag, mem, modified_flag, requesting_address>>
              /\ dsram' \in LineContents
              /\ \A w \in 0 .. n : ~(b.wr /\ w = bus.reqAddr.off) =>
                    dsram'[Solo][i][w] = mem[t][i][w]
              /\ b.wr => dsram'[Solo][i][bus.reqAddr.off] = bus.wbuf
              /\ \A j \in Lines \ {i} : dsram'[Solo][j] = dsram[Solo][j]
<1> DEFINE i == bus.reqAddr.idx
           t == bus.reqAddr.tag
           o == bus.reqAddr.off
           n == num_words_sent
<1>1. bus.busy
    BY DEF WordCycle, Filling
<1>2. /\ Solo \in Cores /\ bus.reqId = Solo /\ i \in Lines /\ t \in Tags /\ o \in Words
      /\ bus.cmd \in {"BUS_RD", "BUS_RDX", "FLUSH"}
      /\ dsram \in LineContents /\ mem \in [Tags -> [Lines -> [Words -> Values]]]
      /\ bus \in Bus /\ b \in Bus /\ b.wbuf = bus.wbuf
    BY <1>1, Request, SoloTypes DEF IInv, WordCycle, SameRequest
<1>3. n \in Words /\ block_offset_counter = n /\ main_memory_stalls_counter = Stalls
  <2>1. n = block_offset_counter /\ n \in 0 .. BlockSize /\ n < BlockSize
    BY <1>2 DEF IInv, TypeOK, Phases, FromMemory, SoloInv, OwnTransaction
  <2> QED
    BY <2>1 DEF Words, WordCycle, MemoryAnswers, IInv, TypeOK
<1>4. tag[Solo][i] = t
    BY <1>2 DEF IInv, TagGiven, SoloInv, Fetched, WordCycle, Filling
<1>5. /\ MyOp \in IF b.wr THEN Stores ELSE Loads
      /\ b.wr => bus.wbuf = MyOp.val
      /\ MyOp.addr = bus.reqAddr /\ b.wr \in BOOLEAN
  <2>1. b.wr <=> bus.cmd = "BUS_RDX" \/ bus.wr
    BY DEF WordCycle
  <2>2. /\ MyOp \in IF b.wr THEN Stores ELSE Loads
        /\ bus.reqAddr = MyOp.addr /\ (MyOp.kind = "sw" => bus.wbuf = MyOp.val)
    BY <1>1, <2>1 DEF SoloInv, OwnTransaction
  <2> QED
    BY <1>2, <2>2 DEF Stores, Bus
<1>6. /\ modified_flag => modified_block_memory_write = BlockSize
      /\ ~modified_flag => modified_block_memory_write = 0
  <2>1. modified_flag => modified_block_memory_write = BlockSize
    <3>1. CASE bus.stall
      BY <1>3, <3>1 DEF IInv, WriteBackPace, TypeOK
    <3>2. CASE bus.cmd = "FLUSH"
      BY <1>1, <3>2 DEF IInv, WriteBackOver, FromMemory, SoloInv, OwnTransaction
    <3> QED
      BY <3>1, <3>2 DEF WordCycle, Filling
  <2> QED
    BY <2>1 DEF SoloInv, WritingBack, WordCycle
<1>7. UNCHANGED <<memOp, tag, mem, modified_flag, requesting_address>>
    BY DEF WordCycle, MemoryWord, staticVars
<1> DEFINE sent == [dsram EXCEPT ![Solo][i][n] = mem[t][i][n]]
           put  == [sent EXCEPT ![Solo][i][o] = bus.wbuf]
<1>8. dsram' = IF b.wr THEN put ELSE sent
    BY <1>2, <1>3 DEF WordCycle, MemoryWord, SameRequest
<1>9. /\ sent \in LineContents
      /\ \A w \in Words : sent[Solo][i][w] = IF w = n THEN mem[t][i][n] ELSE dsram[Solo][i][w]
      /\ \A j \in Lines \ {i} : sent[Solo][j] = dsram[Solo][j]
    BY <1>2, <1>3 DEF LineContents
<1>10. /\ put \in LineContents
       /\ \A w \in Words : put[Solo][i][w] = IF w = o THEN bus.wbuf ELSE sent[Solo][i][w]
       /\ \A j \in Lines \ {i} : put[Solo][j] = sent[Solo][j]
  <2> HIDE DEF sent
  <2> QED
    BY <1>2, <1>9 DEF LineContents, Bus
<1> HIDE DEF sent, put
<1>11. ASSUME NEW w \in 0 .. n, ~(b.wr /\ w = o)
       PROVE  dsram'[Solo][i][w] = mem[t][i][w]
  <2>1. w \in Words
    BY <1>3 DEF Words
  <2>2. w # n => dsram[Solo][i][w] = mem[t][i][w]
    <3> SUFFICES ASSUME w # n PROVE dsram[Solo][i][w] = mem[t][i][w]
      OBVIOUS
    <3>1. w \in 0 .. n - 1 /\ n # 0
      BY <1>3 DEF Words
    <3>2. bus.cmd = "FLUSH"
      BY <1>2, <3>1 DEF IInv, Phases
    <3> QED
      BY <1>11, <3>1, <3>2 DEF SoloInv, Fetched, WordCycle
  <2> QED
    BY <1>8, <1>9, <1>10, <1>11, <2>1, <2>2
<1> QED
    BY <1>1, <1>2, <1>3, <1>4, <1>5, <1>6, <1>7, <1>8, <1>9, <1>10, <1>11

LEMMA WordKeepsSoloInv ==
    ASSUME OneRuns, IInv, SoloInv, NEW b, WordCycle(b)
    PROVE  SoloInv'
<1> DEFINE i == bus.reqAddr.idx
           t == bus.reqAddr.tag
           n == num_words_sent
<1>1. /\ bus.busy /\ n \in Words /\ b.wr \in BOOLEAN
      /\ MyOp \in IF b.wr THEN Stores ELSE Loads
      /\ b.wr => bus.wbuf = MyOp.val
      /\ tag[Solo][i] = t /\ MyOp.addr = bus.reqAddr
      /\ modified_flag => modified_block_memory_write = BlockSize
      /\ ~modified_flag => modified_block_memory_write = 0
      /\ UNCHANGED <<memOp, tag, mem, modified_flag, requesting_address>>
      /\ dsram' \in LineContents
      /\ \A w \in 0 .. n : ~(b.wr /\ w = bus.reqAddr.off) =>
            dsram'[Solo][i][w] = mem[t][i][w]
      /\ b.wr => dsram'[Solo][i][bus.reqAddr.off] = bus.wbuf
      /\ \A j \in Lines \ {i} : dsram'[Solo][j] = dsram[Solo][j]
    BY WordEffect
<1>2. /\ Solo \in Cores /\ i \in Lines /\ t \in Tags /\ bus.reqId = Solo
      /\ mesi \in MESIType /\ mem \in [Tags -> [Lines -> [Words -> Values]]]
      /\ SameRequest(b) /\ b \in Bus /\ b.wbuf = bus.wbuf /\ b.busy
    BY <1>1, Request, SoloTypes DEF IInv, WordCycle, SameRequest
<1>3. mesi' = [mesi EXCEPT ![Solo][i] = IF b.wr THEN "MODIFIED" ELSE "EXCLUSIVE"]
    BY DEF WordCycle
<1>4. MyOp' = MyOp
    BY <1>1 DEF MyOp
<1>5. OthersEmpty'
    BY <1>2, <1>3 DEF SoloInv, OthersEmpty, MESIType
<1>6. ASSUME NEW j \in Lines, j # i, mesi'[Solo][j] = "EXCLUSIVE"
      PROVE  dsram'[Solo][j] = mem'[tag'[Solo][j]][j]
  <2>1. mesi[Solo][j] = "EXCLUSIVE"
    BY <1>2, <1>3, <1>6 DEF MESIType
  <2> QED
    BY <1>1, <1>6, <2>1 DEF SoloInv, CleanLines
<1>7. MyLine = mesi[Solo][i] /\ mesi'[Solo][i] = IF b.wr THEN "MODIFIED" ELSE "EXCLUSIVE"
    BY <1>2, <1>3 DEF MyLine, MESIType
<1>8. CASE n + 1 = BlockSize
  <2>1. bus' = Released(b)
    BY <1>8 DEF WordCycle, MemoryWord
  <2>2. ~bus'.busy /\ bus'.cmd = "NO_COMMAND" /\ ~bus'.stall
    BY <1>2, <2>1, ReleasedType
  <2>3. ~Filling'
    BY <2>2 DEF Filling
  <2>4. Served'
    BY <1>1, <1>4, <1>7, OpFields DEF Served, Cached, Stores
  <2>5. ~b.wr => dsram'[Solo][i] = mem[t][i]
    <3> SUFFICES ASSUME ~b.wr PROVE dsram'[Solo][i] = mem[t][i]
      OBVIOUS
    <3>1. dsram'[Solo][i] \in [Words -> Values] /\ mem[t][i] \in [Words -> Values]
      BY <1>1, <1>2 DEF LineContents
    <3>2. 0 .. n = Words
      BY <1>1, <1>8 DEF Words
    <3>3. \A w \in Words : dsram'[Solo][i][w] = mem[t][i][w]
      BY <1>1, <3>2
    <3> QED
      BY <3>1, <3>3
  <2>6. CleanLines'
    BY <1>1, <1>6, <1>7, <2>5 DEF CleanLines
  <2> QED
    BY <1>5, <2>2, <2>3, <2>4, <2>6
       DEF SoloInv, OwnTransaction, Before, WritingBack, Fetched, FillState
<1>9. CASE n + 1 # BlockSize
  <2>1. /\ bus' = [b EXCEPT !.stall = FALSE, !.cmd = "FLUSH", !.origid = MemoryId]
        /\ num_words_sent' = n + 1
        /\ UNCHANGED <<memStalls, modified_block_memory_write>>
    BY <1>9 DEF WordCycle, MemoryWord
  <2>2. /\ bus'.busy /\ ~bus'.stall /\ bus'.cmd = "FLUSH" /\ bus'.origid = MemoryId
        /\ bus'.reqAddr = bus.reqAddr /\ bus'.reqId = Solo /\ (bus'.wr <=> b.wr)
        /\ bus'.wbuf = bus.wbuf
    BY <1>2, <2>1 DEF SameRequest, Bus
  <2>3. Filling'
    BY <2>2 DEF Filling
  <2>4. OwnTransaction'
    BY <1>1, <1>4, <2>1, <2>2, OpFields DEF SoloInv, OwnTransaction, Loads
  <2>5. WritingBack'
    BY <1>1, <2>1, <2>2 DEF WritingBack, SoloInv, WordCycle
  <2>6. Fetched'
    <3>1. 0 .. num_words_sent' - 1 = 0 .. n
      BY <1>1, <2>1 DEF Words
    <3>2. MyLine' = IF bus'.wr THEN "MODIFIED" ELSE "EXCLUSIVE"
      BY <1>7, <2>2 DEF MyLine
    <3>3. tag'[Solo][bus'.reqAddr.idx] = bus'.reqAddr.tag
      BY <1>1, <2>2
    <3>4. \A w \in 0 .. n : ~(bus'.wr /\ w = bus'.reqAddr.off) =>
            dsram'[Solo][bus'.reqAddr.idx][w] = mem'[bus'.reqAddr.tag][bus'.reqAddr.idx][w]
      BY <1>1, <2>2
    <3>5. bus'.wr => dsram'[Solo][bus'.reqAddr.idx][bus'.reqAddr.off] = bus'.wbuf
      BY <1>1, <2>2
    <3> HIDE DEF n
    <3> QED
      BY <3>1, <3>2, <3>3, <3>4, <3>5 DEF Fetched
  <2>7. CleanLines'
    BY <1>6, <2>2, <2>3 DEF CleanLines
  <2> QED
    BY <1>5, <2>2, <2>3, <2>4, <2>5, <2>6, <2>7 DEF SoloInv, Served, Before, FillState
<1> QED
    BY <1>8, <1>9

\* One running core keeps SoloInv.
LEMMA NextSoloInv == ASSUME OneRuns PROVE IInv /\ SoloInv /\ [Next]_vars => SoloInv'
<1> SUFFICES ASSUME IInv, SoloInv, [Next]_vars PROVE SoloInv'
    OBVIOUS
<1>1. CASE SnoopStep
  <2>1. CASE Quiet
    BY <2>1 DEF Quiet, cacheVars, counterVars, staticVars, SoloInv, OthersEmpty,
       OwnTransaction, Served, CleanLines, Before, WritingBack, Fetched, FillState,
       Filling, MyOp, Cached
  <2> QED
    BY <1>1, <2>1, SnoopCases, StallKeepsSoloInv, WordKeepsSoloInv
<1>2. CASE UNCHANGED vars
    BY <1>2, SoloKept DEF vars, coreVars, cacheVars, counterVars, staticVars
<1> QED
    BY <1>1, <1>2, CoreStepSoloInv DEF Next
-----------------------------------------------------------------------------
(***************************************************************************)
(* The mapping to the flat memory.                                         *)
(***************************************************************************)

View == [a \in Addrs |-> Word(a)]

\* Where Word looks, with the bus free: in the line if the block is there.
LEMMA ViewIdle ==
    ASSUME IInv, ~bus.busy
    PROVE  \A a \in Addrs : Word(a) = IF Cached(Solo, a) THEN dsram[Solo][a.idx][a.off]
                                      ELSE mem[a.tag][a.idx][a.off]
BY DEF IInv, Phases, FromMemory, Word, InTransfer, NotWrittenBack

LEMMA ViewType ==
    ASSUME OneRuns, TypeOK
    PROVE  View \in [Addrs -> Values]
<1> SUFFICES ASSUME NEW a \in Addrs PROVE Word(a) \in Values
    BY DEF View
<1> QED
    BY SoloTypes, SoloRuns DEF Word, LineContents, Addrs

LEMMA InitMaps == ASSUME OneRuns PROVE IInv /\ Init => Flat!Init
<1> SUFFICES ASSUME IInv, Init PROVE Flat!Init
    OBVIOUS
<1>1. View \in [Addrs -> Values]
    BY ViewType DEF IInv
<1>2. ~bus.busy
    BY DEF Init
<1>3. memOp[Solo] = NoOp /\ loaded[Solo] = 0
    BY SoloRuns DEF Init
<1> QED
    BY <1>1, <1>2, <1>3, OpFields DEF Flat!Init, View, Stalled, NoOp

\* A hit: what is in MEM leaves it with the word of its address, and op takes effect.
LEMMA HitMaps ==
    ASSUME OneRuns, IInv, SoloInv, ~Stalled(Solo), NEW op \in Ops, Advance(Solo, op),
           bus' = bus, tag' = tag, IInv',
           op.kind # "none" => Cached(Solo, op.addr),
           \/ op.kind # "sw" /\ mesi' = mesi /\ dsram' = dsram
           \/ /\ op \in Stores
              /\ mesi' = [mesi EXCEPT ![Solo][op.addr.idx] = "MODIFIED"]
              /\ dsram' = [dsram EXCEPT ![Solo][op.addr.idx][op.addr.off] = op.val]
    PROVE  Flat!Next
<1>1. /\ Solo \in Cores /\ Solo \in Running
      /\ mesi \in MESIType /\ tag \in [Cores -> [Lines -> Tags]]
      /\ dsram \in LineContents /\ memOp \in [Cores -> Ops] /\ MyOp \in Ops
      /\ loaded \in [Cores -> Values]
    BY SoloRuns, SoloTypes DEF IInv, TypeOK
<1>2. ~bus.busy /\ ~bus'.busy
    BY <1>1, BusIsFree
<1>3. /\ memOp'[Solo] = op /\ mem' = mem
      /\ loaded'[Solo] = IF MyOp.kind = "lw" THEN dsram[Solo][MyOp.addr.idx][MyOp.addr.off]
                         ELSE loaded[Solo]
    BY <1>1 DEF Advance, MyOp
<1>4. MyOp.kind = "lw" => MyOp.addr \in Addrs /\ Cached(Solo, MyOp.addr)
    BY <1>1, <1>2 DEF SoloInv, Served, Ops, Loads, Stores, NoOp
<1>5. loaded'[Solo] = IF MyOp.kind = "lw" THEN View[MyOp.addr] ELSE loaded[Solo]
    BY <1>2, <1>3, <1>4, ViewIdle DEF View
<1>6. View' = IF op.kind = "sw" THEN [View EXCEPT ![op.addr] = op.val] ELSE View
  <2>1. CASE op.kind # "sw"
    <3>1. /\ UNCHANGED <<mesi, dsram>>
      BY <2>1, OpFields DEF Stores
    <3>2. \A a \in Addrs : Word(a)' = Word(a)
      BY <1>2, <1>3, <3>1, ViewIdle DEF Word, InTransfer, NotWrittenBack, Cached, IInv, Phases, FromMemory
    <3> QED
      BY <2>1, <3>2 DEF View
  <2>2. CASE op.kind = "sw"
    <3>1. /\ op \in Stores /\ op.addr \in Addrs /\ Cached(Solo, op.addr)
          /\ op.addr.idx \in Lines /\ op.addr.off \in Words /\ op.addr.tag \in Tags
          /\ mesi' = [mesi EXCEPT ![Solo][op.addr.idx] = "MODIFIED"]
          /\ dsram' = [dsram EXCEPT ![Solo][op.addr.idx][op.addr.off] = op.val]
      BY <2>2, OpFields
    <3>2. ASSUME NEW a \in Addrs
          PROVE  Word(a)' = IF a = op.addr THEN op.val ELSE Word(a)
      <4>1. Word(a) = IF Cached(Solo, a) THEN dsram[Solo][a.idx][a.off]
                      ELSE mem[a.tag][a.idx][a.off]
        BY <1>2, ViewIdle
      <4>2. Word(a)' = IF Cached(Solo, a)' THEN dsram'[Solo][a.idx][a.off]
                       ELSE mem[a.tag][a.idx][a.off]
        BY <1>2, <1>3 DEF Word, InTransfer, NotWrittenBack, IInv, Phases, FromMemory
      <4>3. Cached(Solo, a)' <=> Cached(Solo, a)
        BY <1>1, <3>1 DEF Cached, MESIType, Addrs
      <4>4. dsram'[Solo][a.idx][a.off] = IF a.idx = op.addr.idx /\ a.off = op.addr.off
                                         THEN op.val ELSE dsram[Solo][a.idx][a.off]
        BY <1>1, <3>1 DEF LineContents, Addrs
      <4>5. Cached(Solo, a) /\ a.idx = op.addr.idx => a.tag = op.addr.tag
        BY <3>1 DEF Cached
      <4>6. a = op.addr <=> a.idx = op.addr.idx /\ a.off = op.addr.off /\ a.tag = op.addr.tag
        BY <3>1 DEF Addrs
      <4> QED
        BY <3>1, <4>1, <4>2, <4>3, <4>4, <4>5, <4>6
    <3> QED
      BY <2>2, <3>1, <3>2 DEF View
  <2> QED
    BY <2>1, <2>2
<1>7. ~Stalled(Solo)'
    BY <1>2 DEF Stalled
<1>8. Flat!Issue(op)
    BY <1>3, <1>5, <1>6, <1>7 DEF Flat!Issue, Flat!After, View, MyOp
<1> QED
    BY <1>8 DEF Flat!Next

\* A miss: op waits.
LEMMA MissMaps ==
    ASSUME OneRuns, IInv, SoloInv, ~Stalled(Solo), NEW op \in Ops, Advance(Solo, op),
           UNCHANGED cacheVars,
           ~Cached(Solo, op.addr), op.addr \in Addrs,
           bus'.busy, ~bus'.stall, bus'.reqAddr = op.addr, memStalls'[Solo]
    PROVE  Flat!Next
<1>1. /\ Solo \in Cores /\ Solo \in Running /\ memOp \in [Cores -> Ops] /\ MyOp \in Ops
      /\ loaded \in [Cores -> Values]
    BY SoloRuns, SoloTypes DEF IInv, TypeOK
<1>2. ~bus.busy /\ modified_block_memory_write = 0
    BY <1>1, BusIsFree
<1>3. /\ memOp'[Solo] = op /\ UNCHANGED <<mem, mesi, tag, dsram, modified_block_memory_write>>
      /\ loaded'[Solo] = IF MyOp.kind = "lw" THEN dsram[Solo][MyOp.addr.idx][MyOp.addr.off]
                         ELSE loaded[Solo]
    BY <1>1 DEF Advance, MyOp, cacheVars, counterVars
<1>4. MyOp.kind = "lw" => MyOp.addr \in Addrs /\ Cached(Solo, MyOp.addr)
    BY <1>1, <1>2 DEF SoloInv, Served, Ops, Loads, Stores, NoOp
<1>5. loaded'[Solo] = IF MyOp.kind = "lw" THEN View[MyOp.addr] ELSE loaded[Solo]
    BY <1>2, <1>3, <1>4, ViewIdle DEF View
<1>6. ASSUME NEW a \in Addrs PROVE Word(a)' = Word(a)
    BY <1>2, <1>3 DEF Word, InTransfer, NotWrittenBack, Cached
<1>7. View' = View
    BY <1>6 DEF View
<1>8. Stalled(Solo)'
    BY DEF Stalled
<1>9. Flat!Issue(op)
    BY <1>3, <1>5, <1>7, <1>8 DEF Flat!Issue, View, MyOp
<1> QED
    BY <1>9 DEF Flat!Next

\* While memory stalls the memory as a whole stays as it is: what is written back
\* is what the line had, and a clean line is in main memory anyway.
LEMMA StallMaps ==
    ASSUME OneRuns, IInv, SoloInv, NEW b, StallCycle(b)
    PROVE  UNCHANGED <<View, Stalled(Solo)>>
<1> DEFINE i == bus.reqAddr.idx
           t == bus.reqAddr.tag
           k == modified_block_memory_write
           victim == requesting_address'.tag
           k2 == modified_block_memory_write'
           ra2 == requesting_address'
           mem2 == mem'
<1>1. /\ bus.busy /\ bus'.busy /\ bus'.stall /\ bus'.reqAddr = bus.reqAddr
      /\ bus.cmd \in {"BUS_RD", "BUS_RDX"}
      /\ UNCHANGED <<memOp, memStalls, dsram>>
      /\ tag' = [tag EXCEPT ![Solo][i] = t]
    BY StallEffect
<1>2. /\ Solo \in Cores /\ i \in Lines /\ t \in Tags
      /\ mesi \in MESIType /\ tag \in [Cores -> [Lines -> Tags]]
      /\ dsram \in LineContents /\ mem \in [Tags -> [Lines -> [Words -> Values]]]
      /\ k \in 0 .. BlockSize /\ requesting_address \in [tag : Tags, idx : Lines]
    BY <1>1, Request, SoloTypes DEF IInv, TypeOK
<1>3. /\ Stalled(Solo)' <=> Stalled(Solo)
      /\ bus.stall <=> Filling
    BY <1>1 DEF Stalled, Filling
<1>4. ~bus.stall => k = 0
    BY <1>1 DEF IInv, Phases, FromMemory
<1>5. bus.stall => tag[Solo][i] = t
    BY <1>1 DEF IInv, TagGiven, SoloInv, OwnTransaction
<1>6. ASSUME NEW a \in Addrs, a.idx # i PROVE Word(a)' = Word(a)
  <2>1. ~InTransfer(a) /\ ~InTransfer(a)'
    BY <1>1, <1>6 DEF InTransfer
  <2>2. ~NotWrittenBack(a) /\ ~NotWrittenBack(a)'
    <3>1. k > 0 => requesting_address.idx = i
      BY <1>3, <1>4 DEF SoloInv, WritingBack
    <3>2. k2 > 0 => ra2.idx = i
      BY StallEffect
    <3> QED
      BY <1>6, <3>1, <3>2 DEF NotWrittenBack
  <2>3. Cached(Solo, a)' <=> Cached(Solo, a)
    BY <1>1, <1>2, <1>6 DEF Cached, StallCycle, MESIType, Addrs
  <2>4. mem2[a.tag][a.idx] = mem[a.tag][a.idx]
    <3>1. \/ mem2 = mem
          \/ /\ victim \in Tags
             /\ mem2 = [mem EXCEPT ![victim][i][k] = dsram[Solo][i][k]]
      BY StallEffect
    <3>2. a.tag \in Tags /\ a.idx \in Lines
      BY DEF Addrs
    <3> DEFINE v == dsram[Solo][i][k]
    <3> HIDE DEF mem2, victim, k, v
    <3>3. victim \in Tags => [mem EXCEPT ![victim][i][k] = v][a.tag][a.idx] = mem[a.tag][a.idx]
      BY <1>2, <1>6, <3>2, OtherBlock
    <3>4. mem2 = mem \/ (victim \in Tags /\ mem2 = [mem EXCEPT ![victim][i][k] = v])
      BY <3>1 DEF v
    <3> QED
      BY <3>3, <3>4
  <2> QED
    BY <1>1, <2>1, <2>2, <2>3, <2>4 DEF Word
<1>7. ASSUME NEW a \in Addrs, a.idx = i, a.tag = t PROVE Word(a)' = Word(a)
  <2>1. InTransfer(a) /\ InTransfer(a)'
    BY <1>1, <1>7 DEF InTransfer
  <2>2. mem2[a.tag][a.idx] = mem[a.tag][a.idx]
    <3>1. \/ mem2 = mem
          \/ /\ victim \in Tags /\ victim # t
             /\ mem2 = [mem EXCEPT ![victim][i][k] = dsram[Solo][i][k]]
      BY StallEffect
    <3> HIDE DEF mem2, victim, k
    <3> QED
      BY <1>2, <1>7, <3>1, OtherBlock DEF Addrs
  <2> QED
    BY <2>1, <2>2 DEF Word
<1>8. ASSUME NEW a \in Addrs, a.idx = i, a.tag # t PROVE Word(a)' = Word(a)
  <2>1. ~InTransfer(a) /\ ~InTransfer(a)'
    BY <1>1, <1>8 DEF InTransfer
  <2>2. ~Cached(Solo, a)'
    BY <1>1, <1>2, <1>8 DEF Cached
  <2>3. Word(a) = IF (k > 0 /\ requesting_address.tag = a.tag /\ a.off >= k)
                        \/ (~bus.stall /\ mesi[Solo][i] # "INVALID" /\ tag[Solo][i] = a.tag)
                  THEN dsram[Solo][i][a.off] ELSE mem[a.tag][i][a.off]
    <3>1. k > 0 => requesting_address.idx = i
      BY <1>3, <1>4 DEF SoloInv, WritingBack
    <3>2. Cached(Solo, a) <=> ~bus.stall /\ mesi[Solo][i] # "INVALID" /\ tag[Solo][i] = a.tag
      BY <1>5, <1>8 DEF Cached
    <3> QED
      BY <1>2, <1>8, <2>1, <3>1, <3>2 DEF Word, NotWrittenBack, Addrs
  <2>4. Word(a)' = IF k2 > 0 /\ ra2.tag = a.tag /\ a.off >= k2
                   THEN dsram[Solo][i][a.off] ELSE mem2[a.tag][i][a.off]
    <3>1. k2 > 0 => ra2.idx = i
      BY StallEffect
    <3>2. requesting_address' \in [tag : Tags, idx : Lines]
      BY <1>1, WriteBackEffect, Request DEF StallCycle, MemoryStall, SameRequest, IInv
    <3> QED
      BY <1>1, <1>8, <2>1, <2>2, <3>1, <3>2 DEF Word, NotWrittenBack, Addrs
  <2>5. CASE ~modified_flag'
    <3>1. k = 0 /\ MyLine # "MODIFIED" /\ mem2 = mem /\ k2 = 0
      BY <2>5, StallEffect
    <3>2. ASSUME ~bus.stall, mesi[Solo][i] # "INVALID", tag[Solo][i] = a.tag
          PROVE  dsram[Solo][i] = mem[a.tag][i]
      <4>1. mesi[Solo][i] = "EXCLUSIVE"
        BY <1>2, <3>1, <3>2 DEF MyLine, SoloInv, OthersEmpty, MESIType, MESI
      <4> QED
        BY <1>2, <1>3, <3>2, <4>1 DEF SoloInv, CleanLines
    <3> QED
      BY <2>3, <2>4, <3>1, <3>2
  <2>6. CASE modified_flag'
    <3>1. /\ ra2.idx = i /\ victim \in Tags /\ victim # t
          /\ k = 0 => ~bus.stall /\ MyLine = "MODIFIED" /\ victim = tag[Solo][i]
          /\ k > 0 => bus.stall /\ modified_flag /\ ra2 = requesting_address
          /\ IF k < BlockSize
             THEN k2 = k + 1 /\ mem2 = [mem EXCEPT ![victim][i][k] = dsram[Solo][i][k]]
             ELSE k2 = k /\ mem2 = mem /\ k > 0
      BY <2>6, StallEffect
    <3>2. a.tag # victim => mem2[a.tag][i] = mem[a.tag][i]
      <4> HIDE DEF mem2, victim, k
      <4> QED
        BY <1>2, <3>1, OtherBlock DEF Addrs
    <3>3. CASE a.tag # victim
      <4>1. Word(a) = mem[a.tag][i][a.off]
        BY <1>2, <2>3, <3>1, <3>3
      <4>2. Word(a)' = mem2[a.tag][i][a.off]
        BY <2>4, <3>3
      <4> QED
        BY <3>2, <3>3, <4>1, <4>2
    <3>4. CASE a.tag = victim
      <4>1. Word(a) = IF a.off >= k THEN dsram[Solo][i][a.off] ELSE mem[victim][i][a.off]
        <5>1. CASE k = 0
          <6>1. ~bus.stall /\ mesi[Solo][i] # "INVALID" /\ tag[Solo][i] = a.tag
            BY <3>1, <3>4, <5>1 DEF MyLine, SoloInv, OwnTransaction
          <6>2. a.off >= 0
            BY DEF Addrs, Words
          <6> QED
            BY <2>3, <5>1, <6>1, <6>2
        <5>2. CASE k > 0
          BY <2>3, <3>1, <3>4, <5>2
        <5> QED
          BY <1>2, <5>1, <5>2
      <4>2. a.off \in Words /\ k \in 0 .. BlockSize
        BY <1>2 DEF Addrs
      <4>3. \A w \in Words : mem2[victim][i][w] =
                IF w = k /\ k < BlockSize THEN dsram[Solo][i][k] ELSE mem[victim][i][w]
        <5> HIDE DEF mem2, victim, k
        <5> QED
          BY <1>2, <3>1
      <4>4. mem2[victim][i][a.off] = IF a.off = k /\ k < BlockSize THEN dsram[Solo][i][k]
                                     ELSE mem[victim][i][a.off]
        BY <4>2, <4>3
      <4>5. k2 \in Int /\ k2 > 0 /\ (k2 = IF k < BlockSize THEN k + 1 ELSE k)
        BY <3>1, <4>2
      <4>6. Word(a)' = IF a.off >= k2 THEN dsram[Solo][i][a.off] ELSE mem2[victim][i][a.off]
        BY <2>4, <3>4, <4>5
      <4> HIDE DEF mem2, victim, k, k2
      <4> QED
        BY <4>1, <4>2, <4>4, <4>5, <4>6 DEF Words
    <3> QED
      BY <3>3, <3>4
  <2> QED
    BY <2>5, <2>6
<1>9. \A a \in Addrs : Word(a)' = Word(a)
    BY <1>6, <1>7, <1>8
<1> QED
    BY <1>3, <1>9 DEF View, Stalled

\* A word that comes is invisible; with the last one the access takes effect.
LEMMA WordMaps ==
    ASSUME OneRuns, IInv, IInv', SoloInv, NEW b, WordCycle(b), UNCHANGED loaded
    PROVE  Flat!Complete \/ UNCHANGED <<View, Stalled(Solo), memOp[Solo], loaded[Solo]>>
<1> DEFINE i == bus.reqAddr.idx
           t == bus.reqAddr.tag
           n == num_words_sent
<1>1. /\ bus.busy /\ n \in Words /\ b.wr \in BOOLEAN
      /\ MyOp \in IF b.wr THEN Stores ELSE Loads
      /\ b.wr => bus.wbuf = MyOp.val
      /\ tag[Solo][i] = t /\ MyOp.addr = bus.reqAddr
      /\ modified_flag => modified_block_memory_write = BlockSize
      /\ ~modified_flag => modified_block_memory_write = 0
      /\ UNCHANGED <<memOp, tag, mem, modified_flag, requesting_address>>
      /\ \A w \in 0 .. n : ~(b.wr /\ w = bus.reqAddr.off) =>
            dsram'[Solo][i][w] = mem[t][i][w]
      /\ b.wr => dsram'[Solo][i][bus.reqAddr.off] = bus.wbuf
      /\ \A j \in Lines \ {i} : dsram'[Solo][j] = dsram[Solo][j]
    BY WordEffect
<1>2. /\ Solo \in Cores /\ i \in Lines /\ t \in Tags /\ bus.reqAddr \in Addrs
      /\ mesi \in MESIType /\ SameRequest(b) /\ b \in Bus /\ b.busy
      /\ memStalls \in [Cores -> BOOLEAN] /\ bus.reqId = Solo
    BY <1>1, Request, SoloTypes DEF IInv, TypeOK, WordCycle, SameRequest
<1>3. mesi' = [mesi EXCEPT ![Solo][i] = IF b.wr THEN "MODIFIED" ELSE "EXCLUSIVE"]
    BY DEF WordCycle
<1>4. Stalled(Solo)
    BY <1>1 DEF Stalled, SoloInv, OwnTransaction
<1>5. \A a \in Addrs : ~NotWrittenBack(a)
    BY <1>1 DEF NotWrittenBack, Addrs, Words
<1>6. \A a \in Addrs : a.idx = i /\ a.tag # t => Word(a) = mem[a.tag][a.idx][a.off]
    BY <1>1, <1>5 DEF Word, Cached
<1>7. \A a \in Addrs : a.idx = i /\ a.tag = t => Word(a) = mem[a.tag][a.idx][a.off]
    BY <1>1 DEF Word, InTransfer
<1>8. \A a \in Addrs : a.idx # i =>
        Word(a) = IF Cached(Solo, a) THEN dsram[Solo][a.idx][a.off] ELSE mem[a.tag][a.idx][a.off]
    BY <1>5 DEF Word, InTransfer
<1>9. \A a \in Addrs : a.idx # i =>
        /\ Cached(Solo, a)' <=> Cached(Solo, a)
        /\ dsram'[Solo][a.idx][a.off] = dsram[Solo][a.idx][a.off]
    BY <1>1, <1>2, <1>3 DEF Cached, MESIType, Addrs
<1>10. CASE n + 1 = BlockSize
  <2>1. /\ bus' = Released(b) /\ modified_block_memory_write' = 0
    BY <1>10 DEF WordCycle, MemoryWord
  <2>2. ~bus'.busy
    BY <1>2, <2>1, ReleasedType
  <2>3. ~Stalled(Solo)'
    BY <2>2 DEF Stalled
  <2>4. \A a \in Addrs : Word(a)' = IF Cached(Solo, a)' THEN dsram'[Solo][a.idx][a.off]
                                    ELSE mem[a.tag][a.idx][a.off]
    BY <1>1, <2>1, <2>2 DEF Word, InTransfer, NotWrittenBack
  <2>5. \A a \in Addrs : a.idx = i => (Cached(Solo, a)' <=> a.tag = t)
    BY <1>1, <1>2, <1>3 DEF Cached, MESIType
  <2>6. 0 .. n = Words
    BY <1>1, <1>10 DEF Words
  <2>7. ASSUME NEW a \in Addrs
        PROVE  Word(a)' = IF b.wr /\ a = bus.reqAddr THEN bus.wbuf ELSE Word(a)
    <3>1. a.off \in Words
      BY DEF Addrs
    <3>2. a = bus.reqAddr <=> a.tag = t /\ a.idx = i /\ a.off = bus.reqAddr.off
      BY <1>2 DEF Addrs
    <3>3. CASE a.idx # i
      BY <1>8, <1>9, <2>4, <3>2, <3>3
    <3>4. CASE a.idx = i /\ a.tag # t
      BY <1>6, <2>4, <2>5, <3>2, <3>4
    <3>5. CASE a.idx = i /\ a.tag = t
      <4>1. Word(a)' = dsram'[Solo][i][a.off] /\ Word(a) = mem[t][i][a.off]
        BY <1>7, <2>4, <2>5, <3>5
      <4>2. ~(b.wr /\ a.off = bus.reqAddr.off) => dsram'[Solo][i][a.off] = mem[t][i][a.off]
        BY <1>1, <2>6, <3>1
      <4> QED
        BY <1>1, <3>2, <3>5, <4>1, <4>2
    <3> QED
      BY <3>3, <3>4, <3>5
  <2>8. /\ b.wr => MyOp.kind = "sw" /\ MyOp.val = bus.wbuf
        /\ ~b.wr => MyOp.kind # "sw"
        /\ MyOp.addr = bus.reqAddr
    BY <1>1, OpFields DEF Stores, Loads
  <2>9. View' = IF MyOp.kind = "sw" THEN [View EXCEPT ![MyOp.addr] = MyOp.val] ELSE View
    BY <1>1, <1>2, <2>7, <2>8 DEF View
  <2> QED
    BY <1>1, <1>4, <2>3, <2>9 DEF Flat!Complete, Flat!After, View, MyOp
<1>11. CASE n + 1 # BlockSize
  <2>1. /\ bus' = [b EXCEPT !.stall = FALSE, !.cmd = "FLUSH", !.origid = MemoryId]
        /\ UNCHANGED <<memStalls, modified_block_memory_write>>
    BY <1>11 DEF WordCycle, MemoryWord
  <2>2. bus'.busy /\ bus'.reqAddr = bus.reqAddr
    BY <1>2, <2>1 DEF SameRequest, Bus
  <2>3. Stalled(Solo)'
    BY <1>4, <2>1, <2>2 DEF Stalled
  <2>4. \A a \in Addrs : ~NotWrittenBack(a)'
    BY <1>1, <1>5, <2>1 DEF NotWrittenBack
  <2>5. ASSUME NEW a \in Addrs PROVE Word(a)' = Word(a)
    <3>1. CASE a.idx # i
      BY <1>1, <1>8, <1>9, <2>2, <2>4, <3>1 DEF Word, InTransfer
    <3>2. CASE a.idx = i /\ a.tag # t
      <4>1. ~Cached(Solo, a)'
        BY <1>1, <3>2 DEF Cached
      <4> QED
        BY <1>1, <1>6, <2>4, <3>2, <4>1 DEF Word
    <3>3. CASE a.idx = i /\ a.tag = t
      BY <1>1, <1>7, <2>2, <3>3 DEF Word, InTransfer
    <3> QED
      BY <3>1, <3>2, <3>3
  <2> QED
    BY <1>1, <1>4, <2>3, <2>5 DEF View
<1> QED
    BY <1>10, <1>11

FlatVars == <<View, memOp[Solo], ~Stalled(Solo), loaded[Solo]>>

LEMMA CoreMaps ==
    ASSUME OneRuns, IInv, IInv', SoloInv, NEW c \in Cores, CoreStep(c)
    PROVE  Flat!Next \/ UNCHANGED FlatVars
<1>1. CASE CoreSkip(c) \/ CoreStalled(c)
    BY <1>1 DEF CoreSkip, CoreStalled, coreVars, cacheVars, counterVars, staticVars,
       FlatVars, View, Word, InTransfer, NotWrittenBack, Cached, Stalled
<1>2. ASSUME NEW op, Advance(c, op)
      PROVE  c = Solo /\ ~Stalled(Solo)
    BY <1>2, BusIsFree DEF Advance
<1>3. CASE NoMemoryOp(c)
    BY <1>2, <1>3, HitMaps, OpFields DEF NoMemoryOp, NoOp, cacheVars
<1>4. ASSUME NEW op \in Loads, ReadHit(c, op) PROVE Flat!Next
    BY <1>2, <1>4, HitMaps, OpFields DEF ReadHit, cacheVars, Loads
<1>5. ASSUME NEW op \in Loads, ReadMiss(c, op) PROVE Flat!Next
    BY <1>2, <1>5, MissKeepsSoloInv, MissMaps, OpFields DEF ReadMiss
<1>6. ASSUME NEW op \in Stores, WriteHitOwned(c, op) PROVE Flat!Next
    BY <1>2, <1>6, HitMaps, OpFields DEF WriteHitOwned, Dirtied
<1>7. ASSUME NEW op \in Stores, WriteHitShared(c, op) PROVE FALSE
    BY <1>2, <1>7, OpFields, SoloRuns DEF WriteHitShared, SoloInv, OthersEmpty
<1>8. ASSUME NEW op \in Stores, WriteMiss(c, op) PROVE Flat!Next
    BY <1>2, <1>8, MissKeepsSoloInv, MissMaps, OpFields DEF WriteMiss
<1> QED
    BY <1>1, <1>3, <1>4, <1>5, <1>6, <1>7, <1>8 DEF CoreStep

\* Every step is one of the flat memory or none.
LEMMA StepMaps ==
    ASSUME OneRuns
    PROVE  IInv /\ IInv' /\ SoloInv /\ [Next]_vars => [Flat!Next]_(Flat!vars)
<1> SUFFICES ASSUME IInv, IInv', SoloInv, [Next]_vars
             PROVE  Flat!Next \/ UNCHANGED FlatVars
    BY DEF FlatVars, View, Flat!vars
<1>1. ASSUME NEW c \in Cores, CoreStep(c) PROVE Flat!Next \/ UNCHANGED FlatVars
    BY <1>1, CoreMaps
<1>2. CASE SnoopStep
  <2>1. UNCHANGED <<memOp, loaded>>
    BY <1>2 DEF SnoopStep, SnoopIdle, SnoopReadStalled, SnoopReadModified, SnoopReadClean,
       SnoopReadMemory, SnoopRdxShared, SnoopRdxExclusive, SnoopRdxModified,
       SnoopRdxMemory, SnoopFlushMemory, SnoopFlushCache, Snoop, coreVars
  <2>2. CASE Quiet
    BY <2>1, <2>2 DEF Quiet, cacheVars, counterVars, staticVars, FlatVars, View, Word,
       InTransfer, NotWrittenBack, Cached, Stalled
  <2>3. ASSUME NEW b \in Bus, StallCycle(b) PROVE UNCHANGED FlatVars
    BY <2>1, <2>3, StallMaps DEF FlatVars
  <2>4. ASSUME NEW b \in Bus, WordCycle(b) PROVE Flat!Next \/ UNCHANGED FlatVars
    BY <2>1, <2>4, WordMaps DEF FlatVars, Flat!Next
  <2> QED
    BY <1>2, <2>2, <2>3, <2>4, SnoopCases
<1>3. CASE UNCHANGED vars
    BY <1>3 DEF vars, coreVars, cacheVars, counterVars, staticVars,
       FlatVars, View, Word, InTransfer, NotWrittenBack, Cached, Stalled
<1> QED
    BY <1>1, <1>2, <1>3 DEF Next

-----------------------------------------------------------------------------
(***************************************************************************)
(* The theorems.                                                           *)
(***************************************************************************)

\* What a transaction has done to the line, to the victim and to main memory, at
\* every moment (flush_from_main_memory, write_to_main_memory).
THEOREM SoloInductive == ASSUME OneRuns PROVE Spec => []SoloInv
BY InitSoloInv, NextSoloInv, Inductive, PTL DEF Spec

\* Between transactions every line that is not modified is a copy of main memory.
THEOREM CleanIsCopy == ASSUME OneRuns PROVE Spec => []CleanMatchesMemory
<1>1. SoloInv => CleanMatchesMemory
    BY DEF SoloInv, OthersEmpty, CleanLines, CleanMatchesMemory, Filling
<1> QED
    BY <1>1, SoloInductive, PTL

\* An LW takes its word from the block it has asked for (writeback_state looks at
\* the index only).
THEOREM LoadsServed == ASSUME OneRuns PROVE Spec => LoadServed
<1>1. IInv /\ SoloInv => \A c \in Cores :
        turn = c /\ c \in Running /\ ~Stalled(c) /\ memOp[c].kind = "lw"
        => Cached(c, memOp[c].addr)
    BY BusIsFree DEF SoloInv, Served, MyOp
<1> QED
    BY <1>1, SoloInductive, Inductive, PTL DEF LoadServed

\* With one running core the caches, the write-back of victims and the stalls of
\* main memory are invisible: a load returns the last value stored to its address.
THEOREM SingleIsFlat == ASSUME OneRuns PROVE Spec => ImplementsFlatMemory
<1>1. IInv /\ Init => Flat!Init
    BY InitMaps
<1>2. IInv /\ IInv' /\ SoloInv /\ [Next]_vars => [Flat!Next]_(Flat!vars)
    BY StepMaps
<1> QED
    BY <1>1, <1>2, SoloInductive, Inductive, PTL DEF Spec, Flat!Spec, ImplementsFlatMemory
=============================================================================
