---------------------------- MODULE MCCustomerNFS ----------------------------
EXTENDS CustomerNFS, TLC
CONSTANTS r1, r2, c1, c2
OneRequest == {r1}
TwoRequests == {r1, r2}
OneClient == {c1}
TwoClients == {c1, c2}
AllSchemas == {{}, Rules}
NoRules == {{}}
Interchangeable == Permutations(Clients)
=============================================================================
