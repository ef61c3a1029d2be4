---------------------------- MODULE MCReportChain ----------------------------
EXTENDS ReportChain, TLC

CONSTANTS s1, s2, z1, w1, w2, asst, gen, calm, alarm, some

OneZone == s1 :> z1 @@ s2 :> z1

Desks == {{s1, z1}, {z1, asst, gen}}

WorkerSymmetry == Permutations({w1, w2})
==============================================================================
