------------------------------- MODULE MCOffice -------------------------------
EXTENDS Office, TLC

CONSTANTS a1, a2, a3, b1, b2, w1, w2

MCSpans == {<<1320, 300>>, <<300, 420>>}

MCItemType == a1 :> "score" @@ a2 :> "photo" @@ a3 :> "pass_fail"

OfficeSymmetry == Permutations({w1, w2}) \cup Permutations({b1, b2})

\* A behaviour is followed until a request is saved on an outdated check, where
\* that voids what is claimed of it.
UntilRaced ==
    /\ part \in {"organisation", "remuneration", "accounts", "inspections"} => raced = FALSE
    /\ part \in {"schedules", "supervision"} => raced = {}
===============================================================================
