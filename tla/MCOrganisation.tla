---- MODULE MCOrganisation ----
EXTENDS Organisation, TLC
CONSTANTS s1, s2, a1, o1, w1, w2
UntilRaced == ~raced
MCSymmetry == Permutations({w1, w2}) \cup Permutations({s1, s2})
====
