----------------------------- MODULE KeyedMutex -----------------------------
(***************************************************************************)
(* The lock under which the engine works on one peer's session or on the   *)
(* keys (mutex.ts): a chain of promises per key. Nothing is awaited in     *)
(* run(), so a call is one step; each callback of a promise is a step.     *)
(***************************************************************************)
EXTENDS Naturals, Sequences

CONSTANTS
    Keys,    \* what tasks are kept apart by: contacts, or 'keys'
    MaxRuns  \* bound: calls of run()

ASSUME MutexAssumption == MaxRuns \in Nat

VARIABLES
    chain,  \* the calls of run(), oldest first
    tails   \* the map: the last call of each key whose tail is in it (0: none)

mutexVars == <<chain, tails>>

Calls == DOMAIN chain

(***************************************************************************)
(* A call is chained to the `tail` of the call `after` (0: to a resolved   *)
(* promise). It is "queued" until that settles, "running" during its task, *)
(* "over" when `result` is settled (the task may have failed), "settled"   *)
(* when its own `tail` is, and "cleaned" after the callback on it.         *)
(***************************************************************************)
ChainedCall == [key : Keys, after : Nat, stage : {"queued", "running", "over", "settled", "cleaned"}]

MutexTypeOK ==
    /\ chain \in Seq(ChainedCall) /\ Len(chain) <= MaxRuns
    /\ tails \in [Keys -> 0..MaxRuns]

MutexInit == chain = << >> /\ tails = [k \in Keys |-> 0]

Moves(c, stage) == chain' = [chain EXCEPT ![c].stage = stage]

\* run(key, task): the new tail takes the place of the previous one at once.
CallRun(k) ==
    /\ Len(chain) < MaxRuns
    /\ chain' = Append(chain, [key |-> k, after |-> tails[k], stage |-> "queued"])
    /\ tails' = [tails EXCEPT ![k] = Len(chain) + 1]

\* previous.then(task, task): the task starts however the one before ended.
StartTask(c) ==
    /\ chain[c].stage = "queued"
    /\ LET p == chain[c].after IN p # 0 => chain[p].stage \in {"settled", "cleaned"}
    /\ Moves(c, "running")
    /\ UNCHANGED tails

TaskEnds(c) ==
    /\ chain[c].stage = "running"
    /\ Moves(c, "over")
    /\ UNCHANGED tails

\* result.catch(...)
TailSettles(c) ==
    /\ chain[c].stage = "over"
    /\ Moves(c, "settled")
    /\ UNCHANGED tails

\* Mutant: the entry of the key is deleted whoever's it is by now.
CleanUpAny(c) ==
    /\ chain[c].stage = "settled"
    /\ Moves(c, "cleaned")
    /\ tails' = [tails EXCEPT ![chain[c].key] = 0]

\* tail.then(...): the entry goes unless another call has replaced it.
CleanUp(c) ==
    /\ chain[c].stage = "settled"
    /\ Moves(c, "cleaned")
    /\ tails' = [tails EXCEPT ![chain[c].key] = IF @ = c THEN 0 ELSE @]

MutexNext ==
    \/ \E k \in Keys : CallRun(k)
    \/ \E c \in Calls : StartTask(c) \/ TaskEnds(c) \/ TailSettles(c) \/ CleanUp(c)

MutexSpec == MutexInit /\ [][MutexNext]_mutexVars

-----------------------------------------------------------------------------
(* Properties *)

CallsOf(k, stage) == {c \in Calls : chain[c].key = k /\ chain[c].stage = stage}

(***************************************************************************)
(* The chain of promises is a lock served in call order, also across       *)
(* failed tasks and the clean-up of entries that a later call replaces or  *)
(* just misses.                                                            *)
(***************************************************************************)
Lock == INSTANCE TaskLock WITH
    issued <- Len(chain),
    waiting <- [k \in Keys |-> CallsOf(k, "queued")],
    running <- [k \in Keys |-> CallsOf(k, "running")]

LockKept == Lock!Spec

\* An entry of the map is that of a call not cleaned up: idle keys are forgotten.
NoIdleTail == \A k \in Keys : tails[k] # 0 => chain[tails[k]].stage # "cleaned"
=============================================================================
