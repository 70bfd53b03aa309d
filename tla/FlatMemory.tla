----------------------------- MODULE FlatMemory -----------------------------
(***************************************************************************)
(* What the memory system promises to a program that runs on one core: one *)
(* flat memory.  An instruction in the MEM stage takes effect at once or,  *)
(* after a miss, later; the core goes on only when it has, and a load then *)
(* leaves the word of its address in the register.                         *)
(***************************************************************************)
CONSTANTS Addrs, Values, Ops

VARIABLES
    store,  \* the memory
    op,     \* the instruction in the MEM stage
    done,   \* has it taken effect?
    reg     \* the value of the last load that left the MEM stage

vars == <<store, op, done, reg>>

Init ==
    /\ store \in [Addrs -> Values]
    /\ op \in Ops /\ op.kind = "none"
    /\ done = TRUE
    /\ reg \in Values

\* The memory after instruction o took effect.
After(o) == IF o.kind = "sw" THEN [store EXCEPT ![o.addr] = o.val] ELSE store

\* The instruction in MEM leaves it and o comes in.
Issue(o) ==
    /\ done
    /\ reg' = IF op.kind = "lw" THEN store[op.addr] ELSE reg
    /\ op' = o
    /\ \/ done' = TRUE /\ store' = After(o)
       \/ done' = FALSE /\ UNCHANGED store

Complete ==
    /\ ~done
    /\ done' = TRUE
    /\ store' = After(op)
    /\ UNCHANGED <<op, reg>>

Next == Complete \/ \E o \in Ops : Issue(o)

Spec == Init /\ [][Next]_vars

\* An access that has not taken effect does so at last.
Fairness == WF_vars(Complete)
=============================================================================
