------------------------- MODULE MCPolicyLifecycle -------------------------
(***************************************************************************)
(* PolicyLifecycle with constants TLC can use.  A configuration names the  *)
(* requests and the system signals of its instance; what each name stands  *)
(* for is fixed here.                                                      *)
(***************************************************************************)
EXTENDS PolicyQueries

NamedType ==
    [surrender |-> "SURRENDER", loan |-> "LOAN", repayment |-> "LOAN_REPAYMENT",
     revival |-> "REVIVAL", death |-> "DEATH_CLAIM",
     maturity |-> "MATURITY_CLAIM", benefit |-> "SURVIVAL_BENEFIT",
     conversion |-> "CONVERSION", flc |-> "FLC", address |-> "NFR",
     assignment |-> "ASSIGNMENT"]
MCTypeOf == [r \in Request |-> NamedType[r]]

NamedKind ==
    [created |-> "policy-created", premium |-> "premium-paid",
     bounce |-> "payment-dishonored", raise |-> "aml-flag-raised",
     clear |-> "aml-flag-cleared", investigate |-> "investigation-started",
     conclude |-> "investigation-concluded", balance |-> "loan-balance-updated",
     merge |-> "customer-id-merge", reversal |-> "conversion-reversed",
     void |-> "admin-void", paidup |-> "voluntary-paidup-request",
     dispute |-> "dispute-registered", resolve |-> "dispute-resolved",
     reopen |-> "reopen-request", reopen2 |-> "reopen-request"]
MCKindOf == [s \in SystemSignal |-> NamedKind[s]]

\* The move of the lapsation scan that ends a young policy, and no scan at all.
VoidMove == {<<"ACTIVE", "VOID">>}
NoMove == {}
=============================================================================
