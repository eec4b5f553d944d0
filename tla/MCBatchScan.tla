---------------------------- MODULE MCBatchScan ----------------------------
(* Instances of the batch scans for TLC. *)
EXTENDS BatchScan

\* Scans of the same rows run together; what is not scheduled never fires.
Pairs == {{"LAPSATION", "MATURITY_SCAN"}, {"LAPSATION", "REMISSION_EXPIRY_SHORT"},
          {"PAID_UP_CONVERSION", "FORCED_SURRENDER_EVAL"},
          {"REMISSION_EXPIRY_LONG"}}

With(life, facts) == [life |-> life, facts |-> facts]

\* One policy that every kind of scan may meet, and one that lapses.
MixedTraits ==
    {<<With("long", {"maturing", "premiums", "valuable"}),
       With("mid", {"overSum", "overGSV"})>>,
     <<With("mid", {"premiums"}), With("short", {"protected", "maturing", "overSum"})>>}

All(status) == [p \in Policies |-> status]
Mixed == {All("ACTIVE"), <<"ACTIVE_LAPSE", "ASSIGNED_TO_PRESIDENT">>}

Suspension == {<<"ACTIVE", "SUSPENDED">>, <<"SUSPENDED", "ACTIVE">>}
=============================================================================
