---------------------------- MODULE ChangeControl ----------------------------
(***************************************************************************)
(* What the customer NFS service promises about a customer's data: it is   *)
(* changed only after the customer or the processing centre has agreed,    *)
(* and a request is reported complete only after the change.               *)
(***************************************************************************)
EXTENDS Naturals

CONSTANT Requests

VARIABLES agreed,        \* requests with an OTP or an approval given
          changes,       \* how often a request's change was written
          reported       \* requests that read COMPLETED

Init == agreed = {} /\ changes = [r \in Requests |-> 0] /\ reported = {}

Agree(r) == agreed' = agreed \cup {r} /\ UNCHANGED <<changes, reported>>

Apply(r) ==
    /\ r \in agreed
    /\ changes' = [changes EXCEPT ![r] = @ + 1]
    /\ UNCHANGED <<agreed, reported>>

Report(r) ==
    /\ changes[r] > 0
    /\ reported' = reported \cup {r}
    /\ UNCHANGED <<agreed, changes>>

\* The status is written over.
Retract(r) == reported' = reported \ {r} /\ UNCHANGED <<agreed, changes>>

Next == \E r \in Requests : Agree(r) \/ Apply(r) \/ Report(r) \/ Retract(r)

Spec == Init /\ [][Next]_<<agreed, changes, reported>>

=============================================================================
