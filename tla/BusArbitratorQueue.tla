------------------------- MODULE BusArbitratorQueue -------------------------
(***************************************************************************)
(* BusArbitratorQueue (bus_arbitrator.c): the ring of pending bus commands.*)
(* Nothing calls it at present, so any sequence of calls is considered.    *)
(***************************************************************************)
EXTENDS Integers, Sequences

CONSTANTS
    Commands,  \* the MESI_bus_Command structures a caller may pass
    NumCores,  \* NUM_CORES, the slots of the ring
    Null       \* the NULL pointer

ASSUME QueueAssumption ==
    /\ NumCores \in Nat \ {0}
    /\ Null \notin Commands \cup BOOLEAN

VARIABLES
    data, front, rear, size,  \* the structure
    answer                    \* what the last call returned

vars == <<data, front, rear, size, answer>>

Slots == 0 .. NumCores - 1

TypeOK ==
    /\ data \in [Slots -> Commands]
    /\ front \in Slots
    /\ rear \in Slots \cup {-1}
    /\ size \in 0 .. NumCores
    /\ answer \in Commands \cup BOOLEAN \cup {Null}

\* initializeQueue.  It leaves data as malloc returned it.
Init ==
    /\ data \in [Slots -> Commands]
    /\ front = 0 /\ rear = -1 /\ size = 0
    /\ answer = Null

isQueueEmpty == size = 0
isQueueFull  == size = NumCores

\* Mutant of Following: the index runs past the ring's end by one.
MutFollowing(i) == (i + 1) % (NumCores + 1)

\* The index of the slot after slot i.
Following(i) == (i + 1) % NumCores

EnqueueRefused(e) ==
    /\ isQueueFull
    /\ answer' = FALSE
    /\ UNCHANGED <<data, front, rear, size>>

\* Mutant of Enqueue: the element goes into the slot that rear named before.
MutEnqueue(e) ==
    /\ ~isQueueFull
    /\ rear' = Following(rear)
    /\ data' = [data EXCEPT ![IF rear = -1 THEN 0 ELSE rear] = e]
    /\ size' = size + 1
    /\ answer' = TRUE
    /\ UNCHANGED front

Enqueue(e) ==
    /\ ~isQueueFull
    /\ rear' = Following(rear)
    /\ data' = [data EXCEPT ![rear'] = e]
    /\ size' = size + 1
    /\ answer' = TRUE
    /\ UNCHANGED front

\* dequeue and peek on an empty queue
FoundEmpty ==
    /\ isQueueEmpty
    /\ answer' = Null
    /\ UNCHANGED <<data, front, rear, size>>

\* Mutant of Dequeue: size is not counted down.
MutDequeue ==
    /\ ~isQueueEmpty
    /\ answer' = data[front]
    /\ front' = Following(front)
    /\ UNCHANGED <<data, rear, size>>

Dequeue ==
    /\ ~isQueueEmpty
    /\ answer' = data[front]
    /\ front' = Following(front)
    /\ size' = size - 1
    /\ UNCHANGED <<data, rear>>

Peek ==
    /\ ~isQueueEmpty
    /\ answer' = data[front]
    /\ UNCHANGED <<data, front, rear, size>>

Next ==
    \/ \E e \in Commands : Enqueue(e) \/ EnqueueRefused(e)
    \/ FoundEmpty
    \/ Dequeue
    \/ Peek

Spec == Init /\ [][Next]_vars
-----------------------------------------------------------------------------
\* Slot number i of the queue, counted from its front.
Slot(i) == IF front + i < NumCores THEN front + i ELSE front + i - NumCores

\* front, rear and size are kept separately: they agree.  rear = -1 only
\* before the first call of enqueue.
RingAgrees ==
    /\ rear = -1 => front = 0 /\ size = 0
    /\ rear # -1 => Following(rear) = Slot(size)

Fifo == INSTANCE BoundedFifo WITH
            Capacity <- NumCores,
            q        <- [i \in 1 .. size |-> data[Slot(i - 1)]]

\* However enqueue, dequeue and peek follow one another, across the end of the
\* ring too, the queue is a bounded FIFO (bus_arbitrator.c).
ImplementsFifo == Fifo!Spec
=============================================================================
