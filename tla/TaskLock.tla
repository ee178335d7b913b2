------------------------------ MODULE TaskLock ------------------------------
(***************************************************************************)
(* What a keyed mutex promises its callers: tasks of one key run one at a  *)
(* time, in the order of the calls, and other keys do not matter.          *)
(***************************************************************************)
EXTENDS Naturals

CONSTANT Keys

VARIABLES
    issued,   \* calls so far; a call is named by its number
    waiting,  \* for each key, the calls whose task has not begun
    running   \* for each key, the calls whose task is at work

lockVars == <<issued, waiting, running>>

Init ==
    /\ issued = 0
    /\ waiting = [k \in Keys |-> {}]
    /\ running = [k \in Keys |-> {}]

Call(k) ==
    /\ issued' = issued + 1
    /\ waiting' = [waiting EXCEPT ![k] = @ \cup {issued + 1}]
    /\ UNCHANGED running

\* The one that has waited longest, and only when nobody is at work.
Begin(k, c) ==
    /\ running[k] = {}
    /\ c \in waiting[k] /\ \A d \in waiting[k] : c <= d
    /\ waiting' = [waiting EXCEPT ![k] = @ \ {c}]
    /\ running' = [running EXCEPT ![k] = {c}]
    /\ UNCHANGED issued

End(k, c) ==
    /\ c \in running[k]
    /\ running' = [running EXCEPT ![k] = @ \ {c}]
    /\ UNCHANGED <<issued, waiting>>

Next == \E k \in Keys : Call(k) \/ \E c \in 1..issued : Begin(k, c) \/ End(k, c)

Spec == Init /\ [][Next]_lockVars
=============================================================================
