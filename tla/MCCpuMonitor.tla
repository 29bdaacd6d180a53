----------------------------- MODULE MCCpuMonitor -----------------------------
EXTENDS CpuMonitor
CONSTANTS p1, p2, w1, w2
MCApps == {p1, p2}
MCWorkers == {w1, w2}
=============================================================================
