------------------------ MODULE MCRequestSubmission ------------------------
(* Instances of request submission for TLC. *)
EXTENDS RequestSubmission, TLC

AnyName == Permutations(Clients) \cup Permutations(Keys)
\* Financial requests carry a key, and two callers may use the same one.
SurrenderOrDeath == (Keys \X {"SURRENDER"}) \cup {<<NoKey, "DEATH_CLAIM">>}
WithPaidUp == SurrenderOrDeath \cup (Keys \X {"PAID_UP"})
=============================================================================
