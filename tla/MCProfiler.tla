------------------------------ MODULE MCProfiler ------------------------------
EXTENDS Profiler, TLC
CONSTANTS p1, p2
MCWorks == {p1, p2}
MCGarbage == {[i \in 0..(VM_ELEMENTS - 1) |-> IF i % 3 = 0 THEN END ELSE JUNK]}
Symm == Permutations(MCWorks)
=============================================================================
