---------------------------- MODULE MCAccessControl ----------------------------
EXTENDS AccessControl, TLC
CONSTANTS p1, p2, c1, c2, c3, b1, b2, b3, prog, file
MCProcs  == {p1, p2}
MCInodes == {prog, file}
MCLabels == [i \in MCInodes |-> {"none", "target"}]
MCMasks  == {{"READ"}, {"OPEN"}}
Symm == Permutations({c1, c2, c3}) \cup Permutations({b1, b2, b3})
=============================================================================
