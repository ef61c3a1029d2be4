------------------------------ MODULE MCWorkforce ------------------------------
EXTENDS Workforce, TLC

CONSTANTS c1, x, y, p1, p2, a1, a2, w1, w2

MCDesks ==
    {{"register", "update", "document", "start", "supervise", "pass", "fail"},
     {"register", "status", "document", "supervise", "pass"},
     {"import", "status", "assign", "edit", "end", "suspend", "activate"},
     {"import", "update", "deactivate", "eligible", "document", "assign",
      "activate", "transfer"},
     {"import", "start", "extend", "drop", "transfer"}}

MCSymmetry == Permutations({w1, w2}) \cup Permutations({a1, a2})
                \cup Permutations({p1, p2})
==============================================================================
