---------------------------- MODULE TaskDispatch ----------------------------
(***************************************************************************)
(* What the task scheduler promises, without its queue order, statuses,    *)
(* sequences, clock and signals: every submitted task is dispatched at     *)
(* most once, one at a time, after all the work it needs is complete, or   *)
(* what passes for it; and a task that was dropped -- revoked, flushed,    *)
(* removed or expired -- is never dispatched afterwards. TaskManager       *)
(* implements this module.                                                 *)
(***************************************************************************)
CONSTANTS Task,
          Needs,    \* Needs[t]: the tasks whose work t builds on
          Vouchers  \* Vouchers[d]: the tasks whose end passes for that of d

VARIABLES stage,    \* stage[t]: how far the scheduler has come with t
          complete  \* the tasks whose work is complete

dispatchVars == <<stage, complete>>

Stage == {"new", "queued", "taken", "started", "dropped"}

In(s) == {t \in Task : stage[t] = s}
Moved(S, s) == [t \in Task |-> IF t \in S THEN s ELSE stage[t]]

Init == stage = [t \in Task |-> "new"] /\ complete = {}

\* A submission: some tasks are queued, the others refused.
Submit(accepted, refused) ==
    /\ accepted \cup refused \subseteq In("new")
    /\ stage' = [t \in Task |-> IF t \in accepted THEN "queued"
                                ELSE IF t \in refused THEN "dropped"
                                ELSE stage[t]]
    /\ UNCHANGED complete

Drop(S) ==
    /\ S \subseteq In("queued")
    /\ stage' = Moved(S, "dropped")
    /\ UNCHANGED complete

\* One task is taken at a time; others may be found expired meanwhile.
Take(t, expired) ==
    /\ In("taken") = {}
    /\ stage[t] = "queued"
    /\ \A d \in Needs[t] : Vouchers[d] \cap complete # {}
    /\ expired \subseteq In("queued") \ {t}
    /\ stage' = [Moved(expired, "dropped") EXCEPT ![t] = "taken"]
    /\ UNCHANGED complete

\* The command of a taken task is started; it may have done its work at once.
Start(t) ==
    /\ stage[t] = "taken"
    /\ stage' = [stage EXCEPT ![t] = "started"]
    /\ complete' \in {complete, complete \cup {t}}

Complete(t) ==
    /\ stage[t] = "started"
    /\ complete' = complete \cup {t}
    /\ UNCHANGED stage

Next ==
    \/ \E accepted, refused \in SUBSET In("new") : Submit(accepted, refused)
    \/ \E S \in SUBSET In("queued") : Drop(S)
    \/ \E t \in Task : \/ \E expired \in SUBSET In("queued") : Take(t, expired)
                       \/ Start(t) \/ Complete(t)

Spec == Init /\ [][Next]_dispatchVars
=============================================================================
