---------------------- MODULE BusArbitratorQueueProofs ----------------------
(***************************************************************************)
(* For every number of slots and every set of commands, the ring of        *)
(* bus_arbitrator.c implements a bounded FIFO.                             *)
(***************************************************************************)
EXTENDS BusArbitratorQueue, SequenceTheorems, TLAPS

IInv == TypeOK /\ RingAgrees

\* The indices wrap around at the end of the ring and nowhere else.
LEMMA FollowingWraps ==
    ASSUME NEW i \in Slots
    PROVE  Following(i) = IF i = NumCores - 1 THEN 0 ELSE i + 1
BY QueueAssumption DEF Slots, Following

LEMMA FollowingStart == Following(-1) = 0
BY QueueAssumption DEF Following

LEMMA SlotInRing ==
    ASSUME TypeOK, NEW i \in 0 .. NumCores
    PROVE  Slot(i) \in Slots
BY QueueAssumption DEF TypeOK, Slot, Slots

\* The indices, one call later.
LEMMA InvariantKept ==
    ASSUME IInv, [Next]_vars
    PROVE  IInv'
<1> USE QueueAssumption DEF IInv, TypeOK
<1>1. ASSUME NEW e \in Commands, Enqueue(e) PROVE IInv'
  <2>1. rear' \in Slots /\ rear' = Slot(size)
    BY <1>1, FollowingWraps, FollowingStart, SlotInRing
       DEF Enqueue, RingAgrees, Slot, Slots, isQueueFull
  <2>2. Following(rear') = Slot(size + 1)
    BY <1>1, <2>1, FollowingWraps DEF Enqueue, isQueueFull, Slot, Slots
  <2> QED
    BY <1>1, <2>1, <2>2 DEF Enqueue, isQueueFull, RingAgrees, Slot, Following, Slots
<1>2. CASE Dequeue
  <2>1. front' \in Slots /\ front' = IF front = NumCores - 1 THEN 0 ELSE front + 1
    BY <1>2, FollowingWraps DEF Dequeue, Slots
  <2>2. rear # -1 /\ size' = size - 1 /\ rear' = rear /\ data' = data
    BY <1>2 DEF Dequeue, RingAgrees, isQueueEmpty
  <2>3. Slot(size)' = Slot(size)
    BY <1>2, <2>1, <2>2 DEF Slot, Slots, isQueueEmpty, Dequeue
  <2> QED
    BY <1>2, <2>1, <2>2, <2>3
       DEF Dequeue, RingAgrees, Following, isQueueEmpty, Slots
<1>3. CASE FoundEmpty \/ Peek \/ \E e \in Commands : EnqueueRefused(e)
    BY <1>3 DEF FoundEmpty, Peek, EnqueueRefused, RingAgrees, Slot, Following
<1>4. CASE UNCHANGED vars
    BY <1>4 DEF vars, RingAgrees, Slot, Following
<1> QED
    BY <1>1, <1>2, <1>3, <1>4 DEF Next

\* The indices of the ring agree with each other after any sequence of calls
\* (initializeQueue, enqueue, dequeue, peek).
THEOREM RingCorrect == Spec => [](TypeOK /\ RingAgrees)
<1>1. Init => IInv
    BY QueueAssumption DEF Init, IInv, TypeOK, RingAgrees, Slots
<1> QED
    BY <1>1, InvariantKept, PTL DEF Spec, IInv

\* No call leaves an index outside the ring or an answer that is no command.
THEOREM RingTypes == Spec => []TypeOK
<1>1. TypeOK /\ RingAgrees => TypeOK
    OBVIOUS
<1> QED
    BY <1>1, RingCorrect, PTL

Queue == [i \in 1 .. size |-> data[Slot(i - 1)]]

\* The mapped state of the FIFO is a sequence of commands.
LEMMA QueueIsSeq ==
    ASSUME IInv
    PROVE  /\ Queue \in Seq(Commands)
           /\ Len(Queue) = size
           /\ Queue = <<>> <=> isQueueEmpty
           /\ ~isQueueEmpty => Head(Queue) = data[front]
<1> USE QueueAssumption DEF IInv, TypeOK
<1>1. \A i \in 1 .. size : data[Slot(i - 1)] \in Commands
    BY SlotInRing
<1>2. Queue \in Seq(Commands) /\ Len(Queue) = size
    BY <1>1 DEF Queue
<1>3. ~isQueueEmpty => Head(Queue) = data[front]
    BY <1>2 DEF Queue, isQueueEmpty, Slot, Slots
<1> QED
    BY <1>2, <1>3 DEF isQueueEmpty

\* enqueue appends.
LEMMA EnqueueAppends ==
    ASSUME IInv, IInv', NEW e \in Commands, Enqueue(e)
    PROVE  Queue' = Append(Queue, e)
<1> USE QueueAssumption DEF IInv, TypeOK
<1>1. rear' \in Slots /\ rear' = Slot(size) /\ size' = size + 1 /\ front' = front
    BY FollowingWraps, FollowingStart, SlotInRing
       DEF Enqueue, RingAgrees, Slot, Slots, isQueueFull
<1>2. \A i \in 1 .. size : Slot(i - 1) # Slot(size)
    BY DEF Slot, Slots, Enqueue, isQueueFull
<1>3. \A i \in 1 .. size : data'[Slot(i - 1)] = data[Slot(i - 1)]
    BY <1>1, <1>2, SlotInRing DEF Enqueue
<1>4. data'[Slot(size)] = e
    BY <1>1 DEF Enqueue
<1>5. Slot(0)' = Slot(0) /\ \A i \in 0 .. size : Slot(i)' = Slot(i)
    BY <1>1 DEF Slot
<1>6. /\ Queue' = [i \in 1 .. size + 1 |-> data'[Slot(i - 1)]]
    BY <1>1 DEF Queue, Slot
<1>7. Queue \in Seq(Commands) /\ Len(Queue) = size
    BY QueueIsSeq
<1>8. \A i \in 1 .. size + 1 :
        data'[Slot(i - 1)] = IF i = size + 1 THEN e ELSE Queue[i]
    BY <1>3, <1>4 DEF Queue
<1>9. Queue' \in Seq(Commands) /\ Len(Queue') = size + 1
  <2>1. \A i \in 1 .. size + 1 : data'[Slot(i - 1)] \in Commands
    BY <1>1, SlotInRing
  <2> QED
    BY <1>6, <2>1
<1>10. \A i \in 1 .. size + 1 : Queue'[i] = Append(Queue, e)[i]
    BY <1>6, <1>7, <1>8, AppendProperties
<1> QED
    BY <1>7, <1>9, <1>10, AppendProperties, SeqEqual

\* dequeue drops the head.
LEMMA DequeueDrops ==
    ASSUME IInv, Dequeue
    PROVE  Queue' = Tail(Queue)
<1> USE QueueAssumption DEF IInv, TypeOK
<1>1. /\ size' = size - 1 /\ size > 0 /\ data' = data
      /\ front' = IF front = NumCores - 1 THEN 0 ELSE front + 1
    BY FollowingWraps DEF Dequeue, isQueueEmpty
<1>2. \A i \in 1 .. size - 1 :
        (IF front' + (i - 1) < NumCores THEN front' + (i - 1)
         ELSE front' + (i - 1) - NumCores) = Slot(i)
    BY <1>1 DEF Slot, Slots
<1>3. Queue' = [i \in 1 .. size - 1 |-> data[Slot(i)]]
    BY <1>1, <1>2 DEF Queue, Slot
<1>4. Queue \in Seq(Commands) /\ Len(Queue) = size
    BY QueueIsSeq
<1>5. Queue' \in Seq(Commands) /\ Len(Queue') = size - 1
  <2>1. \A i \in 1 .. size - 1 : data[Slot(i)] \in Commands
    BY SlotInRing
  <2> QED
    BY <1>1, <1>3, <2>1
<1>6. \A i \in 1 .. size - 1 : Queue'[i] = Queue[i + 1]
  <2>1. \A i \in 1 .. size - 1 : Queue[i + 1] = data[Slot(i)]
    BY DEF Queue
  <2> QED
    BY <1>3, <2>1
<1>7. \A i \in 1 .. size - 1 : Queue'[i] = Tail(Queue)[i]
    BY <1>1, <1>4, <1>6, HeadTailProperties
<1> QED
    BY <1>1, <1>4, <1>5, <1>7, HeadTailProperties, SeqEqual

\* Each call is the FIFO's call of that name.
LEMMA StepMaps ==
    ASSUME IInv, IInv', [Next]_vars
    PROVE  [Fifo!Next]_(Fifo!vars)
<1> USE QueueAssumption
<1>q. /\ Queue \in Seq(Commands) /\ Len(Queue) = size
      /\ Queue = <<>> <=> isQueueEmpty
      /\ ~isQueueEmpty => Head(Queue) = data[front]
    BY QueueIsSeq
<1>1. ASSUME NEW e \in Commands, Enqueue(e) PROVE Fifo!Next
    BY <1>1, <1>q, EnqueueAppends DEF Enqueue, isQueueFull, Fifo!Next, Fifo!Put, Queue
<1>2. ASSUME NEW e \in Commands, EnqueueRefused(e) PROVE Fifo!Next
  <2>1. Queue' = Queue /\ Len(Queue) = NumCores /\ answer' = FALSE
    BY <1>2, <1>q DEF EnqueueRefused, Queue, Slot, isQueueFull
  <2> QED
    BY <2>1 DEF Fifo!Next, Fifo!Put, Queue
<1>3. CASE FoundEmpty
  <2>1. Queue' = Queue /\ Queue = <<>> /\ answer' = Null
    BY <1>3, <1>q DEF FoundEmpty, Queue, Slot
  <2> QED
    BY <2>1 DEF Fifo!Next, Fifo!Take, Queue
<1>4. CASE Dequeue
  <2>1. Queue' = Tail(Queue) /\ Queue # <<>> /\ answer' = Head(Queue)
    BY <1>4, <1>q, DequeueDrops DEF Dequeue
  <2> QED
    BY <2>1 DEF Fifo!Next, Fifo!Take, Queue
<1>5. CASE Peek
  <2>1. Queue' = Queue /\ Queue # <<>> /\ answer' = Head(Queue)
    BY <1>5, <1>q DEF Peek, Queue, Slot
  <2> QED
    BY <2>1 DEF Fifo!Next, Fifo!Look, Queue
<1>6. CASE UNCHANGED vars
    BY <1>6 DEF vars, Fifo!vars, Slot
<1> QED
    BY <1>1, <1>2, <1>3, <1>4, <1>5, <1>6 DEF Next

\* The ring implements the bounded FIFO, whatever is called in what order and
\* however often the indices go around (bus_arbitrator.c).
THEOREM RingImplementsFifo == Spec => ImplementsFifo
<1>1. Init => Fifo!Init
  <2>1. ASSUME Init PROVE Queue = <<>>
    BY <2>1 DEF Init, Queue
  <2> QED
    BY <2>1 DEF Init, Fifo!Init, Queue
<1>2. Spec => []IInv
    BY RingCorrect DEF IInv
<1> QED
    BY <1>1, <1>2, StepMaps, PTL DEF Spec, Fifo!Spec, ImplementsFifo
=============================================================================
