--------------------------- MODULE FinancialLock ---------------------------
(***************************************************************************)
(* What the exclusive financial lock of a policy promises (BR-PM-030),     *)
(* apart from how the workflow, its pending list and the policy_lock row   *)
(* keep it: one holder at a time, and each request is granted the lock at  *)
(* most once, whatever is delivered twice, cancelled or carried over.      *)
(***************************************************************************)
CONSTANTS Request, NoRequest

VARIABLES
    holder,     \* the request that holds the lock, or NoRequest
    granted     \* the requests it was ever granted to

Init == holder = NoRequest /\ granted = {}

Acquire(r) ==
    /\ holder = NoRequest /\ r \notin granted
    /\ holder' = r
    /\ granted' = granted \cup {r}

\* On completion, withdrawal, preemption, or the first phase of a revival.
Release ==
    /\ holder # NoRequest
    /\ holder' = NoRequest
    /\ UNCHANGED granted

Next == Release \/ \E r \in Request : Acquire(r)

Spec == Init /\ [][Next]_<<holder, granted>>
=============================================================================
