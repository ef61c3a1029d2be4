----------------------------- MODULE OfficeProofs -----------------------------
(***************************************************************************)
(* Each part of the office is sound, for any number of workers and of the  *)
(* things it keeps. A part has an inductive invariant of its own; a step   *)
(* of the office is one of the part picked.                                *)
(***************************************************************************)
EXTENDS Office, FiniteSetTheorems, WellFoundedInduction, TLAPS

\* A nonempty collection of finite sets has a minimal one.
LEMMA MinimalSet ==
    ASSUME NEW S, IsFiniteSet(S), NEW C, C \subseteq SUBSET S, C # {}
    PROVE  \E T \in C : \A U \in C : U \subseteq T => U = T
<1>1. C \subseteq FiniteSubsetsOf(S)
  BY FS_FiniteSubsetsOfFinite
<1>2. PICK T \in C : \A U \in C : ~(<<U, T>> \in StrictSubsetOrdering(S))
  BY <1>1, WFMin, FS_StrictSubsetOrderingWellFounded
<1> QED
  BY <1>2 DEF StrictSubsetOrdering

------------------------------------------------------------------------------
(* Distribution network                                                     *)

LEMMA NetworkInit == Init => IInv
BY HierarchyAssumption
   DEF Init, IInv, TypeOK, LoadedIsCurrent, LinksCompatible, Row, NewRow, NoCall,
       Types

LEMMA TypeOfType ==
    ASSUME TypeOK, NEW p \in Stores \cup {NoParent}
    PROVE  TypeOf(p) \in Types \cup {Keep}
BY DEF TypeOK, TypeOf, Row

\* A call that begins holds what the committed rows say.
LEMMA NetworkBegins ==
    ASSUME IInv, ~TypesMayChange, NEW w \in Workers,
           BeginCreate(w) \/ BeginUpdate(w)
    PROVE  IInv'
<1> USE HierarchyAssumption
<1>1. PICK s \in Stores, new \in Row, given \in Types \cup {Keep},
           stage \in {"create", "update"} :
        /\ Holds(w, stage, s, new, given)
        /\ new.parent \in present \cup {NoParent}
        /\ stage = "update" => s \in present /\ new.type = row[s].type
        /\ given # Keep => new.parent \in present
                          /\ given = row[new.parent].type
  <2>1. CASE BeginCreate(w)
    BY <2>1, TypeOfType DEF BeginCreate, IInv, TypeOK, Row, TypeOf
  <2>2. CASE BeginUpdate(w)
    <3>1. PICK s \in present, p \in present \cup {Keep}, sites \in BOOLEAN,
               type \in Types :
            /\ type = row[s].type
            /\ Holds(w, "update", s,
                     [type |-> type,
                      parent |-> IF p = Keep THEN row[s].parent ELSE p,
                      sited |-> row[s].sited \/ sites],
                     IF p = Keep THEN Keep ELSE TypeOf(p))
      BY <2>2 DEF BeginUpdate
    <3>2. row[s] \in Row /\ row[s].parent \in present \cup {NoParent}
      BY DEF IInv, TypeOK, LinksCompatible, Row
    <3>3. p # Keep => TypeOf(p) \in Types \cup {Keep} /\ TypeOf(p) = row[p].type
      BY <3>1, TypeOfType DEF IInv, TypeOK, TypeOf
    <3> QED
      BY <3>1, <3>2, <3>3 DEF IInv, TypeOK, Row
  <2> QED
    BY <2>1, <2>2
<1>2. TypeOK'
  BY <1>1 DEF Holds, IInv, TypeOK
<1>3. LoadedIsCurrent'
  BY <1>1 DEF Holds, IInv, TypeOK, LoadedIsCurrent
<1>4. LinksCompatible'
  BY <1>1 DEF Holds, IInv, LinksCompatible
<1> QED
  BY <1>2, <1>3, <1>4 DEF IInv

\* Saving leaves the types of the existing stores as they were.
LEMMA NetworkSaves ==
    ASSUME IInv, NEW w \in Workers, Save(w)
    PROVE  IInv'
<1> USE HierarchyAssumption
<1> DEFINE s == call[w].store
           new == call[w].new
<1>1. /\ s \in Stores /\ new \in Row /\ pc[w] # "idle"
      /\ present' = present \cup {s}
      /\ row' = [row EXCEPT ![s] = new]
      /\ pc' = [pc EXCEPT ![w] = "idle"]
      /\ call' = [call EXCEPT ![w] = NoCall]
  BY DEF Save, IInv, TypeOK, LoadedIsCurrent
<1>2. \A t \in present : row'[t].type = row[t].type
  BY <1>1 DEF Save, IInv, TypeOK, LoadedIsCurrent
<1>3. new.parent \in present \cup {NoParent}
  BY <1>1 DEF IInv, LoadedIsCurrent
<1>4. new.parent # NoParent => row[new.parent].type \in MaySupply(new.type)
  BY <1>1, <1>3 DEF Save, Clean, ParentType, TypeOf, IInv, LoadedIsCurrent
<1>5. TypeOK'
  <2>1. NoCall \in [store : Stores \cup {NoParent}, new : Row,
                    given : Types \cup {Keep}]
    BY DEF NoCall, NewRow, Row, Types
  <2> QED
    BY <1>1, <2>1 DEF IInv, TypeOK
<1> HIDE DEF s, new
<1>6. LoadedIsCurrent'
  <2> SUFFICES ASSUME NEW v \in Workers, pc'[v] # "idle"
               PROVE  /\ call'[v].store \in Stores
                      /\ call'[v].new.parent \in present' \cup {NoParent}
                      /\ pc'[v] = "update" =>
                            /\ call'[v].store \in present'
                            /\ call'[v].new.type = row'[call'[v].store].type
                      /\ call'[v].given # Keep =>
                            /\ call'[v].new.parent \in present'
                            /\ call'[v].given = row'[call'[v].new.parent].type
    BY DEF LoadedIsCurrent
  <2>1. v # w /\ call'[v] = call[v] /\ pc'[v] = pc[v]
    BY <1>1 DEF IInv, TypeOK
  <2> QED
    BY <1>1, <1>2, <2>1 DEF IInv, LoadedIsCurrent
<1>7. LinksCompatible'
  <2> SUFFICES ASSUME NEW t \in present', row'[t].parent # NoParent
               PROVE  /\ row'[t].parent \in present'
                      /\ row'[row'[t].parent].type \in MaySupply(row'[t].type)
    BY DEF LinksCompatible
  <2>1. CASE t = s
    BY <1>1, <1>2, <1>3, <1>4, <2>1 DEF IInv, TypeOK
  <2>2. CASE t # s
    BY <1>1, <1>2, <2>2 DEF IInv, TypeOK, LinksCompatible
  <2> QED
    BY <2>1, <2>2
<1> QED
  BY <1>5, <1>6, <1>7 DEF IInv

LEMMA NetworkRefuses ==
    ASSUME IInv, NEW w \in Workers, Refuse(w)
    PROVE  IInv'
<1>1. NoCall \in [store : Stores \cup {NoParent}, new : Row,
                  given : Types \cup {Keep}]
  BY DEF NoCall, NewRow, Row, Types
<1>2. TypeOK' /\ LinksCompatible'
  BY <1>1 DEF Refuse, IInv, TypeOK, LinksCompatible
<1>3. LoadedIsCurrent'
  BY DEF Refuse, IInv, TypeOK, LoadedIsCurrent
<1> QED
  BY <1>2, <1>3 DEF IInv

LEMMA NetworkStep ==
    ASSUME ~TypesMayChange, IInv, [Next]_vars
    PROVE  IInv'
<1>1. CASE UNCHANGED vars
  BY <1>1 DEF vars, IInv, TypeOK, LoadedIsCurrent, LinksCompatible
<1> QED
  BY <1>1, NetworkBegins, NetworkSaves, NetworkRefuses DEF Next

\* A chain of compatible links ends after two of them.
LEMMA CompatibleIsAcyclic == TypeOK /\ LinksCompatible => NoCircularSupply
<1> SUFFICES ASSUME TypeOK, LinksCompatible, NEW S \in SUBSET present,
                    S # {}, \A s \in S : row[s].parent \in S
             PROVE  FALSE
  BY DEF NoCircularSupply, Circular
<1>1. \A s \in S : /\ row[s].parent \in S
                   /\ row[s].type \in Types
                   /\ row[row[s].parent].type \in MaySupply(row[s].type)
  BY HierarchyAssumption DEF TypeOK, LinksCompatible, Row
<1>2. PICK s \in S : TRUE
  OBVIOUS
<1>3. \A type \in Types : /\ MaySupply(type) \subseteq {"super", "power"}
                          /\ type = "super" => MaySupply(type) = {}
                          /\ type = "power" => MaySupply(type) = {"super"}
  BY DEF MaySupply, Types
<1>4. row[s].parent \in S /\ row[row[s].parent].type \in {"super", "power"}
  BY <1>1, <1>2, <1>3
<1>5. \A q \in S : row[q].type # "super"
  BY <1>1, <1>3
<1>6. row[row[s].parent].type = "power"
  BY <1>4, <1>5
<1>7. row[row[row[s].parent].parent].type \in {"super"}
  BY <1>1, <1>3, <1>4, <1>6
<1> QED
  BY <1>1, <1>4, <1>5, <1>7

\* The other parts of the office have no network.
NetworkPart == IF part = "network" THEN IInv ELSE present = {}

LEMMA NetworkPartInvariant ==
    ASSUME ~TypesMayChange
    PROVE  OfficeSpec => []NetworkPart
<1>1. OfficeInit => NetworkPart
  BY NetworkInit DEF OfficeInit, Blank, NetworkPart
<1>2. NetworkPart /\ [OfficeNext]_officeVars => NetworkPart'
  <2> SUFFICES ASSUME NetworkPart, [OfficeNext]_officeVars PROVE NetworkPart'
    OBVIOUS
  <2>1. CASE UNCHANGED officeVars
    BY <2>1, NetworkStep DEF officeVars, vars, NetworkPart
  <2>2. CASE OfficeNext /\ part = "network"
    <3>1. Next /\ part' = part
      BY <2>2 DEF OfficeNext
    <3> QED
      BY <2>2, <3>1, NetworkStep DEF NetworkPart
  <2>3. CASE OfficeNext /\ part # "network"
    BY <2>3 DEF OfficeNext, Rest, NetworkPart
  <2> QED
    BY <2>1, <2>2, <2>3
<1> QED
  BY <1>1, <1>2, PTL DEF OfficeSpec

\* LinksCompatible: stale rows and racing edits of parents (store_services.py)
\* never leave a supply link between stores that may not supply each other, for
\* any number of stores and requests, as long as types do not change.
THEOREM LinksStayCompatible ==
    ASSUME ~TypesMayChange
    PROVE  OfficeSpec => []LinksCompatible
<1>1. NetworkPart => LinksCompatible
  BY DEF NetworkPart, IInv, LinksCompatible
<1> QED
  BY <1>1, NetworkPartInvariant, PTL

\* NoCircularSupply: no store is ever supplied by itself through other stores,
\* though only the link to the parent is validated, as long as types do not
\* change.
THEOREM NetworkIsAcyclic ==
    ASSUME ~TypesMayChange
    PROVE  OfficeSpec => []NoCircularSupply
<1>1. NetworkPart => NoCircularSupply
  BY CompatibleIsAcyclic DEF NetworkPart, IInv, NoCircularSupply, Circular
<1> QED
  BY <1>1, NetworkPartInvariant, PTL

------------------------------------------------------------------------------
(* Area schedules                                                           *)

\* What starts within a day of the other start, on or after it, is not moved
\* by the wrap past midnight.
LEMMA WithinDay == \A n \in Planning!Times : n % Planning!DayLength = n
BY DEF Planning!Times, Planning!DayLength

\* Two schedules that have a minute in common overlap as the service compares
\* them, overnight ones included.
LEMMA CommonMinute ==
    ASSUME NEW a \in Planning!Rows, NEW b \in Planning!Rows,
           Planning!Minutes(a) \cap Planning!Minutes(b) # {}
    PROVE  Planning!SpansOverlap(a, b)
<1> DEFINE D == Planning!DayLength
           Last(r) == (IF r.end > r.start THEN r.end ELSE r.end + D) - 1
<1>1. /\ a.start \in Planning!Times /\ a.end \in Planning!Times
      /\ b.start \in Planning!Times /\ b.end \in Planning!Times
  BY SchedulesAssumption DEF Planning!Rows
<1>2. PICK m : m \in a.start .. Last(a) /\ m \in b.start .. Last(b)
  BY DEF Planning!Minutes
<1>3. D \in Nat /\ Planning!Times = 0 .. D - 1
  BY DEF Planning!Times, Planning!DayLength
<1> HIDE DEF D
<1>4. ASSUME NEW r \in Planning!Rows, NEW s \in Planning!Rows,
             r.start \in Planning!Times, r.end \in Planning!Times,
             s.start \in Planning!Times, m \in r.start .. Last(r),
             m >= s.start, s.start >= r.start
      PROVE  Planning!Contains(r.start, r.end, s.start)
  <2>1. s.start - r.start \in Planning!Times
    BY <1>3, <1>4
  <2>2. (s.start - r.start) % D = s.start - r.start
    BY <2>1, WithinDay DEF D
  <2>3. s.start - r.start < IF r.end > r.start THEN r.end - r.start
                            ELSE r.end - r.start + D
    BY <1>3, <1>4
  <2> QED
    BY <2>2, <2>3 DEF Planning!Contains, D
<1> HIDE DEF Last
<1>5. m >= a.start /\ m >= b.start /\ (a.start >= b.start \/ b.start >= a.start)
  BY <1>1, <1>2, <1>3 DEF Last
<1> QED
  BY <1>1, <1>2, <1>4, <1>5 DEF Planning!SpansOverlap

LEMMA NoScheduleIsActive == Planning!Absent.active = FALSE
BY DEF Planning!Absent

LEMMA ActiveIsRow ==
    ASSUME Planning!TypeOK, NEW i \in Planning!Slots, schedule[i].active
    PROVE  schedule[i] \in Planning!Rows
BY NoScheduleIsActive DEF Planning!TypeOK

\* That none overlap as they are compared means no minute in common.
LEMMA NobodyInTwo ==
    ASSUME Planning!TypeOK, Planning!NoneOverlap
    PROVE  Planning!NobodyIsInTwoPlaces
BY CommonMinute, ActiveIsRow DEF Planning!NoneOverlap, Planning!NobodyIsInTwoPlaces

LEMMA NoRows ==
    /\ Planning!NoCall \in Planning!CallRows
    /\ DOMAIN Planning!NoCall.rows = {}
<1>1. <<>> \in [{} -> Planning!Rows] /\ {} \in SUBSET Planning!Slots
  OBVIOUS
<1> QED
  BY <1>1 DEF Planning!NoCall, Planning!CallRows

LEMMA SchedulesInit == Planning!Init => Planning!IInv
<1> SUFFICES ASSUME Planning!Init PROVE Planning!IInv
  OBVIOUS
<1>1. Planning!TypeOK
  BY NoRows DEF Planning!Init, Planning!TypeOK
<1>2. Planning!NoneOverlap
  BY NoScheduleIsActive DEF Planning!Init, Planning!NoneOverlap
<1>3. Planning!ComparedFit
  BY DEF Planning!Init, Planning!ComparedFit
<1> QED
  BY <1>1, <1>2, <1>3 DEF Planning!IInv

LEMMA RowsOfCall ==
    ASSUME Planning!TypeOK, NEW w \in Workers
    PROVE  /\ DOMAIN call[w].rows \subseteq Planning!Slots
           /\ \A i \in DOMAIN call[w].rows : call[w].rows[i] \in Planning!Rows
BY DEF Planning!TypeOK, Planning!CallRows

\* A request that compares its rows, if they fit.
LEMMA ComparesSoundly ==
    ASSUME Planning!IInv, NEW w \in Workers, NEW op \in {"schedule", "update", "copy"},
           NEW S \in SUBSET Planning!Slots, NEW rows \in [S -> Planning!Rows],
           Planning!Compared(w, op, rows), Planning!Fit(rows)
    PROVE  Planning!IInv'
<1> USE DEF Planning!IInv
<1>1. /\ UNCHANGED <<schedule, raced>> /\ missed' = missed \ {w}
      /\ pc' = [pc EXCEPT ![w] = "compared"]
      /\ call' = [call EXCEPT ![w] = [op |-> op, rows |-> rows]]
  BY DEF Planning!Compared
<1>2. [op |-> op, rows |-> rows] \in Planning!CallRows
  BY DEF Planning!CallRows
<1>3. Planning!TypeOK'
  BY <1>1, <1>2 DEF Planning!TypeOK
<1>4. Planning!NoneOverlap'
  BY <1>1 DEF Planning!NoneOverlap, Planning!SpansOverlap
<1>5. call'[w].rows = rows /\ \A v \in Workers \ {w} : call'[v] = call[v] /\ pc'[v] = pc[v]
  BY <1>1 DEF Planning!TypeOK
<1>6. Planning!ComparedFit'
  BY <1>1, <1>5 DEF Planning!ComparedFit, Planning!Fit, Planning!SpansOverlap
<1> QED
  BY <1>3, <1>4, <1>6

LEMMA OneRow ==
    ASSUME NEW i \in Planning!Slots, NEW r \in Planning!Rows,
           ~Planning!Clashes(i, r)
    PROVE  /\ [j \in {i} |-> r] \in [{i} -> Planning!Rows]
           /\ Planning!Fit([j \in {i} |-> r])
BY DEF Planning!Clashes, Planning!Fit

LEMMA ScheduleKeeps ==
    ASSUME Planning!IInv, NEW w \in Workers, Planning!Schedule(w)
    PROVE  Planning!IInv'
<1>1. PICK i \in Planning!Free, a \in Assignments, d \in Days, t \in Spans :
        LET new == [assignment |-> a, day |-> d, start |-> t[1], end |-> t[2],
                    active |-> TRUE]
        IN  /\ {i} \in Planning!FirstFree
            /\ ~Planning!Clashes(0, new)
            /\ Planning!Compared(w, "schedule", [j \in {i} |-> new])
  BY Zenon DEF Planning!Schedule
<1> DEFINE r == [assignment |-> a, day |-> d, start |-> t[1], end |-> t[2], active |-> TRUE]
<1>2. r \in Planning!Rows
  BY DEF Planning!Rows
<1>3. i \in Planning!Slots
  BY DEF Planning!Free
<1>4. ~Planning!Clashes(0, r) /\ Planning!Compared(w, "schedule", [j \in {i} |-> r])
  BY <1>1, Zenon
<1> HIDE DEF r
<1>5. ~Planning!Clashes(i, r)
  BY <1>4 DEF Planning!Clashes, Planning!Slots
<1>6. /\ [j \in {i} |-> r] \in [{i} -> Planning!Rows]
      /\ Planning!Fit([j \in {i} |-> r])
  BY <1>2, <1>3, <1>5, OneRow
<1>7. {i} \in SUBSET Planning!Slots
  BY <1>3
<1> QED
  BY <1>4, <1>6, <1>7, ComparesSoundly

LEMMA UpdateKeeps ==
    ASSUME Planning!IInv, NEW w \in Workers, Planning!Update(w)
    PROVE  Planning!IInv'
<1>0. Planning!TypeOK
  BY DEF Planning!IInv
<1>1. PICK i \in DOMAIN call[w].rows, t \in Spans :
        LET new == [call[w].rows[i] EXCEPT !.start = t[1], !.end = t[2]]
        IN  /\ ~Planning!Clashes(i, new)
            /\ Planning!Compared(w, "update", [j \in {i} |-> new])
  BY Zenon DEF Planning!Update
<1> DEFINE r == [call[w].rows[i] EXCEPT !.start = t[1], !.end = t[2]]
<1>2. i \in Planning!Slots /\ call[w].rows[i] \in Planning!Rows
  BY <1>0, RowsOfCall
<1>3. r \in Planning!Rows
  BY <1>2 DEF Planning!Rows
<1>4. ~Planning!Clashes(i, r) /\ Planning!Compared(w, "update", [j \in {i} |-> r])
  BY <1>1, Zenon
<1> HIDE DEF r
<1>6. /\ [j \in {i} |-> r] \in [{i} -> Planning!Rows]
      /\ Planning!Fit([j \in {i} |-> r])
  BY <1>2, <1>3, <1>4, OneRow
<1>7. {i} \in SUBSET Planning!Slots
  BY <1>2
<1> QED
  BY <1>4, <1>6, <1>7, ComparesSoundly

LEMMA CopyKeeps ==
    ASSUME Planning!IInv, NEW w \in Workers, Planning!Copy(w)
    PROVE  Planning!IInv'
<1>0. Planning!TypeOK
  BY DEF Planning!IInv
<1>1. PICK a \in Assignments, from \in Days, to \in Days :
      \E slots \in Planning!FirstFree :
      \E rows \in [slots -> {r \in Planning!Copies(a, from, to) : ~Planning!Clashes(0, r)}] :
        /\ \A i, j \in slots : i # j => ~Planning!SpansOverlap(rows[i], rows[j])
        /\ Planning!Compared(w, "copy", rows)
  BY Zenon DEF Planning!Copy
<1>2. PICK slots \in Planning!FirstFree :
      \E rows \in [slots -> {r \in Planning!Copies(a, from, to) : ~Planning!Clashes(0, r)}] :
        /\ \A i, j \in slots : i # j => ~Planning!SpansOverlap(rows[i], rows[j])
        /\ Planning!Compared(w, "copy", rows)
  BY <1>1
<1>3. PICK rows \in [slots -> {r \in Planning!Copies(a, from, to) : ~Planning!Clashes(0, r)}] :
        /\ \A i, j \in slots : i # j => ~Planning!SpansOverlap(rows[i], rows[j])
        /\ Planning!Compared(w, "copy", rows)
  BY <1>2
<1>4. slots \in SUBSET Planning!Slots
  BY DEF Planning!FirstFree, Planning!Free
<1>5. Planning!Copies(a, from, to) \subseteq Planning!Rows
  <2>1. ASSUME NEW s \in Planning!Rows PROVE [s EXCEPT !.day = to] \in Planning!Rows
    BY <2>1 DEF Planning!Rows
  <2> QED
    BY <1>0, <2>1, ActiveIsRow DEF Planning!Copies
<1>6. rows \in [slots -> Planning!Rows]
  BY <1>3, <1>5
<1>7. \A i \in slots : ~Planning!Clashes(0, rows[i])
  BY <1>3
<1>8. Planning!Fit(rows)
  BY <1>3, <1>4, <1>6, <1>7 DEF Planning!Fit, Planning!Clashes, Planning!Slots
<1> QED
  BY <1>3, <1>4, <1>6, <1>8, ComparesSoundly

LEMMA SaveKeeps ==
    ASSUME Planning!IInv, NEW w \in Workers, Planning!Save(w)
    PROVE  Planning!IInv'
<1> USE DEF Planning!IInv
<1> DEFINE rows == call[w].rows
           days1 == {rows[i].day : i \in DOMAIN rows}
<1>0. Planning!TypeOK
  OBVIOUS
<1>1. /\ pc[w] = "compared"
      /\ schedule' = [i \in Planning!Slots |->
                        IF i \in DOMAIN rows THEN rows[i] ELSE schedule[i]]
      /\ raced' = IF w \in missed THEN raced \cup DOMAIN rows
                  ELSE raced \ DOMAIN rows
      /\ missed' = (missed \cup Planning!Misses(w, days1)) \ {w}
      /\ pc' = [pc EXCEPT ![w] = "idle"]
      /\ call' = [call EXCEPT ![w] = Planning!NoCall]
  BY Zenon DEF Planning!Save
<1>2. /\ DOMAIN rows \subseteq Planning!Slots
      /\ \A i \in DOMAIN rows : rows[i] \in Planning!Rows
  BY RowsOfCall
<1>3. Planning!TypeOK'
  <2>1. schedule' \in [Planning!Slots -> Planning!Rows \cup {Planning!Absent}]
    BY <1>1, <1>2 DEF Planning!TypeOK
  <2>2. missed' \subseteq Workers /\ raced' \subseteq Planning!Slots
    BY <1>1, <1>2 DEF Planning!TypeOK, Planning!Misses
  <2> QED
    BY <1>1, <2>1, <2>2, NoRows DEF Planning!TypeOK
<1>4. \A i \in Planning!Slots :
        /\ i \in DOMAIN rows => schedule'[i] = rows[i]
        /\ i \notin DOMAIN rows => schedule'[i] = schedule[i]
  BY <1>1
<1>5. Planning!NoneOverlap'
  <2> SUFFICES ASSUME NEW i \in Planning!Slots \ raced', NEW j \in Planning!Slots \ raced',
                      i # j, schedule'[i].active, schedule'[j].active,
                      schedule'[i].day = schedule'[j].day
               PROVE  ~Planning!SpansOverlap(schedule'[i], schedule'[j])
    BY DEF Planning!NoneOverlap, Planning!SpansOverlap, Planning!Contains, Planning!Slots
  <2>1. CASE w \in missed
    <3>1. i \notin DOMAIN rows /\ j \notin DOMAIN rows /\ i \notin raced /\ j \notin raced
      BY <1>1, <2>1
    <3> QED
      BY <1>4, <3>1 DEF Planning!NoneOverlap
  <2>2. CASE w \notin missed
    <3>1. Planning!Fit(rows)
      BY <1>1, <2>2 DEF Planning!ComparedFit
    <3>2. CASE i \in DOMAIN rows /\ j \in DOMAIN rows
      BY <1>4, <3>1, <3>2 DEF Planning!Fit
    <3>3. CASE i \in DOMAIN rows /\ j \notin DOMAIN rows
      BY <1>4, <3>1, <3>3 DEF Planning!Fit
    <3>4. CASE i \notin DOMAIN rows /\ j \in DOMAIN rows
      <4>1. ~Planning!SpansOverlap(rows[j], schedule[i])
        BY <1>4, <3>1, <3>4 DEF Planning!Fit
      <4> QED
        BY <1>4, <3>4, <4>1 DEF Planning!SpansOverlap
    <3>5. CASE i \notin DOMAIN rows /\ j \notin DOMAIN rows
      BY <1>1, <1>4, <2>2, <3>5 DEF Planning!NoneOverlap
    <3> QED
      BY <3>2, <3>3, <3>4, <3>5
  <2> QED
    BY <2>1, <2>2
<1>6. Planning!ComparedFit'
  <2> SUFFICES ASSUME NEW v \in Workers \ missed', pc'[v] = "compared"
               PROVE  Planning!Fit(call[v].rows)'
    BY DEF Planning!ComparedFit
  <2>1. v # w /\ pc[v] = "compared" /\ call'[v] = call[v]
    BY <1>0, <1>1 DEF Planning!TypeOK
  <2>2. v \notin missed /\ \A i \in DOMAIN call[v].rows : call[v].rows[i].day \notin days1
    BY <1>1, <2>1 DEF Planning!Misses
  <2>3. Planning!Fit(call[v].rows)
    BY <2>1, <2>2 DEF Planning!ComparedFit
  <2>4. ASSUME NEW i \in DOMAIN call[v].rows, NEW j \in Planning!Slots \ DOMAIN call[v].rows,
               schedule'[j].active, schedule'[j].day = call[v].rows[i].day
        PROVE  ~Planning!SpansOverlap(call[v].rows[i], schedule'[j])
    <3>1. j \notin DOMAIN rows
      BY <1>4, <2>2, <2>4
    <3> QED
      BY <1>4, <2>3, <2>4, <3>1 DEF Planning!Fit
  <2> QED
    BY <2>1, <2>3, <2>4 DEF Planning!Fit, Planning!SpansOverlap, Planning!Slots
<1> QED
  BY <1>3, <1>5, <1>6

LEMMA SchedulesKept ==
    ASSUME Planning!IInv, [Planning!Next]_(Planning!vars)
    PROVE  Planning!IInv'
<1> USE DEF Planning!IInv
<1>0. Planning!TypeOK
  OBVIOUS
<1>1. ASSUME NEW w \in Workers, Planning!Load(w) PROVE Planning!IInv'
  <2>1. PICK i \in Planning!Stored :
          call' = [call EXCEPT ![w] =
                     [op |-> "update", rows |-> [j \in {i} |-> schedule[j]]]]
    BY <1>1, Zenon DEF Planning!Load
  <2>2. i \in Planning!Slots /\ schedule[i] \in Planning!Rows
    BY <1>0 DEF Planning!Stored, Planning!TypeOK
  <2>3. [j \in {i} |-> schedule[j]] \in [{i} -> Planning!Rows]
    BY <2>2
  <2>4. [op |-> "update", rows |-> [j \in {i} |-> schedule[j]]] \in Planning!CallRows
    BY <2>2, <2>3 DEF Planning!CallRows
  <2>5. /\ pc' = [pc EXCEPT ![w] = "loaded"] /\ UNCHANGED <<schedule, missed, raced>>
    BY <1>1 DEF Planning!Load
  <2>6. Planning!TypeOK'
    BY <1>0, <2>1, <2>4, <2>5 DEF Planning!TypeOK
  <2>7. Planning!NoneOverlap'
    BY <2>5 DEF Planning!NoneOverlap, Planning!SpansOverlap, Planning!Contains
  <2>8. \A v \in Workers : pc'[v] = "compared" => pc[v] = "compared" /\ call'[v] = call[v]
    BY <1>0, <2>1, <2>5 DEF Planning!TypeOK
  <2>9. Planning!ComparedFit'
    BY <2>5, <2>8
       DEF Planning!ComparedFit, Planning!Fit, Planning!SpansOverlap, Planning!Contains
  <2> QED
    BY <2>6, <2>7, <2>9
<1>2. ASSUME NEW w \in Workers, Planning!Abort(w) PROVE Planning!IInv'
  <2>1. /\ pc' = [pc EXCEPT ![w] = "idle"] /\ UNCHANGED <<schedule, raced>>
        /\ call' = [call EXCEPT ![w] = Planning!NoCall] /\ missed' = missed \ {w}
    BY <1>2 DEF Planning!Abort
  <2>2. Planning!TypeOK'
    BY <1>0, <2>1, NoRows DEF Planning!TypeOK
  <2>3. Planning!NoneOverlap'
    BY <2>1 DEF Planning!NoneOverlap, Planning!SpansOverlap, Planning!Contains
  <2>4. \A v \in Workers : pc'[v] = "compared" =>
           v # w /\ pc[v] = "compared" /\ call'[v] = call[v]
    BY <1>0, <2>1 DEF Planning!TypeOK
  <2>5. Planning!ComparedFit'
    BY <2>1, <2>4
       DEF Planning!ComparedFit, Planning!Fit, Planning!SpansOverlap, Planning!Contains
  <2> QED
    BY <2>2, <2>3, <2>5
<1>3. CASE Planning!Remove
  <2>1. PICK i \in Planning!Stored : schedule' = [schedule EXCEPT ![i].active = FALSE]
    BY <1>3, Zenon DEF Planning!Remove
  <2>2. UNCHANGED <<pc, call, missed, raced>>
    BY <1>3 DEF Planning!Remove
  <2>3. i \in Planning!Slots /\ schedule[i] \in Planning!Rows
    BY <1>0 DEF Planning!Stored, Planning!TypeOK
  <2>4. /\ schedule'[i] \in Planning!Rows /\ schedule'[i].active = FALSE
        /\ \A j \in Planning!Slots \ {i} : schedule'[j] = schedule[j]
    BY <1>0, <2>1, <2>3 DEF Planning!TypeOK, Planning!Rows
  <2>5. Planning!TypeOK'
    BY <1>0, <2>1, <2>2, <2>4 DEF Planning!TypeOK
  <2>6. Planning!NoneOverlap'
    BY <2>2, <2>4 DEF Planning!NoneOverlap, Planning!SpansOverlap, Planning!Contains,
       Planning!Slots
  <2>7. Planning!ComparedFit'
    BY <2>2, <2>4 DEF Planning!ComparedFit, Planning!Fit, Planning!SpansOverlap,
       Planning!Contains, Planning!Slots
  <2> QED
    BY <2>5, <2>6, <2>7
<1>4. CASE UNCHANGED Planning!vars
  BY <1>4 DEF Planning!vars, Planning!TypeOK, Planning!NoneOverlap, Planning!ComparedFit,
     Planning!Fit, Planning!SpansOverlap, Planning!Contains
<1> QED
  BY <1>1, <1>2, <1>3, <1>4, ScheduleKeeps, UpdateKeeps, CopyKeeps, SaveKeeps
     DEF Planning!Next, Planning!Step

\* No cleaner's active schedules have a minute in common on a date
\* (assignment_services.py), overnight ones included, unless one was saved on a
\* comparison that had become outdated: for any spans, dates and requests.
THEOREM SchedulesStaySound == OfficeSpec => []SchedulesOK
<1> DEFINE J == part = "schedules" => Planning!IInv
<1>1. OfficeInit => J
  BY SchedulesInit DEF OfficeInit
<1>2. J /\ [OfficeNext]_officeVars => J'
  <2> SUFFICES ASSUME J, [OfficeNext]_officeVars, part' = "schedules"
               PROVE  Planning!IInv'
    OBVIOUS
  <2>1. part = "schedules" /\ [Planning!Next]_(Planning!vars)
    BY DEF OfficeNext, officeVars, Planning!vars
  <2> QED
    BY <2>1, SchedulesKept
<1>3. J => SchedulesOK
  BY NobodyInTwo DEF SchedulesOK, Planning!IInv
<1> QED
  BY <1>1, <1>2, <1>3, PTL DEF OfficeSpec

------------------------------------------------------------------------------
(* Organisation                                                             *)

LEMMA ShiftsCounted == \A S : Config!Cardinality(S) = Cardinality(S)
BY Zenon DEF Config!Cardinality, Cardinality

LEMMA FewShifts == IsFiniteSet(Shifts) /\ Shifts \cap Areas = {}
BY OrganisationAssumption

LEMMA SiteCall == Config!NoCall \in Config!Calls
BY DEF Config!NoCall, Config!Calls, Config!Modes

\* The two work modes by the shifts that are active.
LEMMA WorkModes ==
    ASSUME NEW S \in SUBSET Shifts
    PROVE  /\ Config!FitsWorkMode("full_time", Config!Cardinality(S)) => S = {}
           /\ Config!FitsWorkMode("shift", Config!Cardinality(S)) => S # {}
<1>1. IsFiniteSet(S) /\ (Cardinality(S) = 0 <=> S = {})
  BY FewShifts, FS_Subset, FS_EmptySet
<1> QED
  BY <1>1, ShiftsCounted DEF Config!FitsWorkMode

LEMMA OrganisationInit == Config!Init => Config!IInv
<1> SUFFICES ASSUME Config!Init PROVE Config!IInv
  OBVIOUS
<1>1. Config!TypeOK
  BY SiteCall DEF Config!Init, Config!TypeOK
<1>2. Config!ConfigurationFits
  BY DEF Config!Init, Config!ConfigurationFits, Config!ActiveShifts, Config!Things
<1>3. Config!ChecksHold
  BY DEF Config!Init, Config!ChecksHold
<1> QED
  BY <1>1, <1>2, <1>3 DEF Config!IInv

\* A worker moves on to c; the site and its things are left alone.
LEMMA ConfigMovesOn ==
    ASSUME Config!IInv, NEW w \in Workers, NEW c \in Config!Calls,
           NEW stage \in {"idle", "loaded", "checked"},
           pc' = [pc EXCEPT ![w] = stage], call' = [call EXCEPT ![w] = c],
           overtaken' \in {overtaken, overtaken \ {w}},
           UNCHANGED <<mode, state, uses, raced, staffed>>,
           stage # "idle" =>
             /\ c.op # "site" => c.thing \in Config!Things
             /\ w \notin overtaken' =>
                  /\ Config!StillLoaded(c)
                  /\ stage = "checked" => Config!Allowed(c)
    PROVE  Config!IInv'
<1> USE DEF Config!IInv
<1>1. Config!TypeOK'
  BY DEF Config!TypeOK, Config!Things
<1>2. Config!ConfigurationFits'
  BY DEF Config!ConfigurationFits, Config!ActiveShifts
<1>3. /\ pc'[w] = stage /\ call'[w] = c
      /\ \A v \in Workers \ {w} : pc'[v] = pc[v] /\ call'[v] = call[v]
  BY DEF Config!TypeOK
<1>4. ASSUME NEW v \in Workers
      PROVE  /\ Config!StillLoaded(call'[v]) => Config!StillLoaded(call[v])'
             /\ Config!Allowed(call'[v]) => Config!Allowed(call[v])'
  <2>1. /\ Config!StillLoaded(call'[v]) => Config!StillLoaded(call[v])'
    BY DEF Config!StillLoaded
  <2>2. Config!ActiveShifts' = Config!ActiveShifts
    BY DEF Config!ActiveShifts
  <2>3. Config!Allowed(call'[v]) => Config!Allowed(call[v])'
    BY <2>2 DEF Config!Allowed, Config!FitsWorkMode, Config!HasOperationalUsage
  <2> QED
    BY <2>1, <2>3
<1>5. ASSUME NEW v \in Workers, pc'[v] # "idle"
      PROVE  /\ call'[v].op # "site" => call'[v].thing \in Config!Things
             /\ v \notin overtaken' =>
                  /\ Config!StillLoaded(call'[v])
                  /\ pc'[v] = "checked" => Config!Allowed(call'[v])
  <2>1. CASE v = w
    BY <1>3, <1>5, <2>1
  <2>2. CASE v # w
    BY <1>3, <1>5, <2>2 DEF Config!ChecksHold
  <2> QED
    BY <2>1, <2>2
<1>6. Config!ChecksHold'
  BY <1>4, <1>5 DEF Config!ChecksHold, Config!Things
<1> QED
  BY <1>1, <1>2, <1>6

LEMMA ConfigLoadKeeps ==
    ASSUME Config!IInv, NEW w \in Workers, Config!Load(w)
    PROVE  Config!IInv'
<1>1. PICK op \in {"create", "update", "deactivate", "refer", "site"},
           t \in Config!Things \cup {"none"}, m \in Config!Modes :
        /\ IF op = "site" THEN t = "none" ELSE t \in Config!Things /\ m = mode
        /\ op = "create" => state[t] = "absent"
        /\ op \in {"update", "deactivate", "refer"} => state[t] = "active"
        /\ pc' = [pc EXCEPT ![w] = "loaded"]
        /\ call' = [call EXCEPT ![w] = [op |-> op, thing |-> t, mode |-> m]]
        /\ overtaken' = overtaken \ {w}
        /\ UNCHANGED <<mode, state, uses, raced, staffed>>
  BY Zenon DEF Config!Load
<1> DEFINE c == [op |-> op, thing |-> t, mode |-> m]
<1>2. c \in Config!Calls /\ c.op = op /\ c.thing = t /\ c.mode = m
  BY DEF Config!Calls
<1>3. call' = [call EXCEPT ![w] = c]
  BY <1>1
<1> HIDE DEF c
<1>4. Config!StillLoaded(c) /\ (c.op # "site" => c.thing \in Config!Things)
  BY <1>1, <1>2 DEF Config!StillLoaded
<1> QED
  BY <1>1, <1>2, <1>3, <1>4, ConfigMovesOn

LEMMA ConfigCheckKeeps ==
    ASSUME Config!IInv, NEW w \in Workers, Config!Check(w)
    PROVE  Config!IInv'
<1>1. /\ pc[w] = "loaded" /\ Config!Allowed(call[w])
      /\ pc' = [pc EXCEPT ![w] = "checked"]
      /\ UNCHANGED <<mode, state, uses, call, overtaken, raced, staffed>>
  BY DEF Config!Check
<1>2. call[w] \in Config!Calls /\ call' = [call EXCEPT ![w] = call[w]]
  BY <1>1 DEF Config!IInv, Config!TypeOK
<1>3. /\ call[w].op # "site" => call[w].thing \in Config!Things
      /\ w \notin overtaken => Config!StillLoaded(call[w])
  BY <1>1 DEF Config!IInv, Config!ChecksHold
<1> QED
  BY <1>1, <1>2, <1>3, ConfigMovesOn

LEMMA ConfigSaveTypes ==
    ASSUME Config!IInv, NEW w \in Workers, Config!Save(w)
    PROVE  Config!TypeOK'
<1> USE DEF Config!IInv
<1> DEFINE c == call[w]
<1>0. Config!TypeOK /\ c \in Config!Calls
  BY DEF Config!TypeOK
<1>1. /\ pc[w] = "checked"
      /\ mode' = IF c.op = "site" THEN c.mode ELSE mode
      /\ state' = IF c.op \in {"create", "update"}
                  THEN [state EXCEPT ![c.thing] = "active"]
                  ELSE IF c.op = "deactivate"
                  THEN [state EXCEPT ![c.thing] = "inactive"]
                  ELSE state
      /\ IF c.op = "refer"
         THEN \E r \in Config!Relations(c.thing) : uses' = uses \cup {<<r, c.thing>>}
         ELSE uses' = uses
      /\ overtaken' \in {overtaken \ {w}, (overtaken \cup Config!Others) \ {w}}
      /\ pc' = [pc EXCEPT ![w] = "idle"]
      /\ call' = [call EXCEPT ![w] = Config!NoCall]
  BY DEF Config!Save
<1>2. mode' \in Config!Modes
  BY <1>0, <1>1 DEF Config!TypeOK, Config!Calls
<1>3. state' \in [Config!Things -> {"absent", "active", "inactive"}]
  BY <1>0, <1>1 DEF Config!TypeOK
<1>4. \A u \in uses' : u[2] \in Config!Things /\ u[1] \in Config!Relations(u[2])
  <2>1. CASE c.op = "refer"
    <3>1. PICK r \in Config!Relations(c.thing) : uses' = uses \cup {<<r, c.thing>>}
      BY <1>1, <2>1
    <3>2. c.thing \in Config!Things
      BY <1>1, <2>1 DEF Config!ChecksHold
    <3> QED
      BY <1>0, <3>1, <3>2 DEF Config!TypeOK
  <2>2. CASE c.op # "refer"
    BY <1>0, <1>1, <2>2 DEF Config!TypeOK
  <2> QED
    BY <2>1, <2>2
<1>5. raced' \in BOOLEAN
  BY Zenon DEF Config!Save
<1>6. staffed' \in BOOLEAN
  BY Zenon DEF Config!Save
<1>7. overtaken' \subseteq Workers
  BY <1>0, <1>1 DEF Config!TypeOK, Config!Others
<1>8. pc' \in [Workers -> {"idle", "loaded", "checked"}] /\ call' \in [Workers -> Config!Calls]
  BY <1>0, <1>1, SiteCall DEF Config!TypeOK
<1> QED
  BY <1>2, <1>3, <1>4, <1>5, <1>6, <1>7, <1>8 DEF Config!TypeOK, Config!Things, Config!Relations

\* Without a race, the request that is saved goes by what is committed.
LEMMA ConfigSaveFits ==
    ASSUME Config!IInv, NEW w \in Workers, Config!Save(w), ~raced'
    PROVE  /\ mode' = "full_time" => Config!ActiveShifts' = {}
           /\ staffed' => Config!ActiveShifts' # {}
           /\ \A t \in Shifts : <<"attendance_records", t>> \in uses' => state'[t] = "active"
           /\ \A t \in Areas : <<"inspections", t>> \in uses' => state'[t] = "active"
<1> USE DEF Config!IInv
<1> DEFINE c == call[w]
           t == c.thing
<1>0. Config!TypeOK /\ c \in Config!Calls
  BY DEF Config!TypeOK
<1>1. /\ pc[w] = "checked"
      /\ mode' = IF c.op = "site" THEN c.mode ELSE mode
      /\ state' = IF c.op \in {"create", "update"}
                  THEN [state EXCEPT ![t] = "active"]
                  ELSE IF c.op = "deactivate"
                  THEN [state EXCEPT ![t] = "inactive"]
                  ELSE state
      /\ IF c.op = "refer"
         THEN \E r \in Config!Relations(t) : uses' = uses \cup {<<r, t>>}
         ELSE uses' = uses
  BY DEF Config!Save
<1>2. ~raced /\ w \notin overtaken
  BY Zenon DEF Config!Save
<1>3. Config!StillLoaded(c) /\ Config!Allowed(c)
  BY <1>1, <1>2 DEF Config!ChecksHold
<1>4. c.op # "site" => t \in Config!Things
  BY <1>1 DEF Config!ChecksHold
<1>5. staffed' => mode' = "shift" /\ (staffed \/ Config!ActiveShifts' # {})
  <2>1. staffed' => mode' = "shift" /\ (staffed \/ \E s \in Shifts : state'[s] = "active")
    BY Zenon DEF Config!Save
  <2> QED
    BY <2>1 DEF Config!ActiveShifts
<1>6. /\ mode = "full_time" => Config!ActiveShifts = {}
      /\ staffed => Config!ActiveShifts # {}
      /\ \A s \in Shifts : <<"attendance_records", s>> \in uses => state[s] = "active"
      /\ \A s \in Areas : <<"inspections", s>> \in uses => state[s] = "active"
  BY <1>2 DEF Config!ConfigurationFits
<1>7. state \in [Config!Things -> {"absent", "active", "inactive"}]
      /\ mode \in {"full_time", "shift"} /\ c.mode \in {"full_time", "shift"}
  BY <1>0 DEF Config!TypeOK, Config!Modes, Config!Calls
<1>8. CASE c.op = "create"
  <2>1. /\ mode' = mode /\ uses' = uses /\ c.mode = mode
        /\ state' = [state EXCEPT ![t] = "active"]
    BY <1>1, <1>3, <1>8 DEF Config!StillLoaded
  <2>2. state'[t] = "active" /\ \A s \in Config!Things \ {t} : state'[s] = state[s]
    BY <1>4, <1>7, <1>8, <2>1
  <2>3. CASE t \in Shifts
    <3>1. mode # "full_time"
      BY <1>3, <1>8, <2>1, <2>3 DEF Config!Allowed, Config!FitsWorkMode
    <3>2. t \in Config!ActiveShifts'
      BY <2>2, <2>3 DEF Config!ActiveShifts
    <3> QED
      BY <1>6, <2>1, <2>2, <3>1, <3>2 DEF Config!Things
  <2>4. CASE t \notin Shifts
    <3>1. Config!ActiveShifts' = Config!ActiveShifts
      BY <2>2, <2>4 DEF Config!ActiveShifts, Config!Things
    <3> QED
      BY <1>5, <1>6, <2>1, <2>2, <3>1 DEF Config!Things
  <2> QED
    BY <2>3, <2>4
<1>9. CASE c.op = "update"
  <2>1. state' = state /\ mode' = mode /\ uses' = uses
    BY <1>1, <1>3, <1>4, <1>7, <1>9 DEF Config!StillLoaded
  <2>2. Config!ActiveShifts' = Config!ActiveShifts
    BY <2>1 DEF Config!ActiveShifts
  <2> QED
    BY <1>5, <1>6, <2>1, <2>2
<1>10. CASE c.op = "deactivate"
  <2>1. /\ mode' = mode /\ uses' = uses
        /\ state' = [state EXCEPT ![t] = "inactive"]
    BY <1>1, <1>10
  <2>2. state'[t] = "inactive" /\ \A s \in Config!Things \ {t} : state'[s] = state[s]
    BY <1>4, <1>7, <1>10, <2>1
  <2>3. ~Config!HasOperationalUsage(t)
    BY <1>3, <1>10 DEF Config!Allowed
  <2>4. t \in Shifts => <<"attendance_records", t>> \notin uses
    BY <2>3 DEF Config!HasOperationalUsage, Config!CountedRelations, Config!Relations
  <2>5. t \in Areas => <<"inspections", t>> \notin uses
    BY <2>3, FewShifts DEF Config!HasOperationalUsage, Config!CountedRelations, Config!Relations
  <2>6. Config!ActiveShifts' = Config!ActiveShifts \ {t}
    BY <2>2 DEF Config!ActiveShifts, Config!Things
  <2>7. (mode = "shift" /\ t \in Shifts) => Config!ActiveShifts' # {}
    <3>1. Config!ActiveShifts \ {t} \in SUBSET Shifts
      BY DEF Config!ActiveShifts
    <3> QED
      BY <1>3, <1>10, <2>6, <3>1, WorkModes DEF Config!Allowed
  <2>8. t \notin Shifts => Config!ActiveShifts' = Config!ActiveShifts
    BY <2>6 DEF Config!ActiveShifts
  <2>9. mode' = "full_time" => Config!ActiveShifts' = {}
    BY <1>6, <2>1, <2>6
  <2>10. staffed' => Config!ActiveShifts' # {}
    BY <1>5, <1>6, <2>1, <2>7, <2>8
  <2> QED
    BY <1>6, <2>1, <2>2, <2>4, <2>5, <2>9, <2>10 DEF Config!Things
<1>11. CASE c.op = "refer"
  <2>1. PICK r \in Config!Relations(t) : uses' = uses \cup {<<r, t>>}
    BY <1>1, <1>11
  <2>2. state' = state /\ mode' = mode /\ state[t] = "active"
    BY <1>1, <1>3, <1>11 DEF Config!StillLoaded
  <2>3. Config!ActiveShifts' = Config!ActiveShifts
    BY <2>2 DEF Config!ActiveShifts
  <2> QED
    BY <1>5, <1>6, <2>1, <2>2, <2>3
<1>12. CASE c.op \in {"site", "none"}
  <2>1. state' = state /\ uses' = uses
    BY <1>1, <1>12
  <2>2. Config!ActiveShifts' = Config!ActiveShifts
    BY <2>1 DEF Config!ActiveShifts
  <2>3. mode' = "full_time" => Config!ActiveShifts = {}
    BY <1>1, <1>3, <1>6, <1>12 DEF Config!Allowed
  <2> QED
    BY <1>5, <1>6, <2>1, <2>2, <2>3
<1> QED
  BY <1>0, <1>8, <1>9, <1>10, <1>11, <1>12 DEF Config!Calls

LEMMA ConfigSaveKeeps ==
    ASSUME Config!IInv, NEW w \in Workers, Config!Save(w)
    PROVE  Config!IInv'
<1> USE DEF Config!IInv
<1>1. Config!TypeOK'
  BY ConfigSaveTypes
<1>2. Config!ConfigurationFits'
  BY ConfigSaveFits DEF Config!ConfigurationFits
<1>3. /\ pc' = [pc EXCEPT ![w] = "idle"]
      /\ call' = [call EXCEPT ![w] = Config!NoCall]
      /\ overtaken' = IF <<mode, state, uses>>' = <<mode, state, uses>>
                      THEN overtaken \ {w}
                      ELSE (overtaken \cup Config!Others) \ {w}
  BY DEF Config!Save
<1>4. pc'[w] = "idle" /\ \A v \in Workers \ {w} : pc'[v] = pc[v] /\ call'[v] = call[v]
  BY <1>3 DEF Config!TypeOK
<1>5. Config!ChecksHold'
  <2> SUFFICES ASSUME NEW v \in Workers \ {w}, pc[v] # "idle"
               PROVE  /\ call[v].op # "site" => call[v].thing \in Config!Things
                      /\ v \notin overtaken' =>
                           /\ Config!StillLoaded(call[v])'
                           /\ pc[v] = "checked" => Config!Allowed(call[v])'
    BY <1>4 DEF Config!ChecksHold, Config!Things
  <2>1. call[v].op # "site" => call[v].thing \in Config!Things
    BY DEF Config!ChecksHold
  <2>2. ASSUME v \notin overtaken'
        PROVE  /\ Config!StillLoaded(call[v])'
               /\ pc[v] = "checked" => Config!Allowed(call[v])'
    <3>1. UNCHANGED <<mode, state, uses>> /\ v \notin overtaken
      BY <1>3, <2>2 DEF Config!Others
    <3>2. /\ Config!StillLoaded(call[v])
          /\ pc[v] = "checked" => Config!Allowed(call[v])
      BY <3>1 DEF Config!ChecksHold
    <3>3. call'[v] = call[v]
      BY <1>4
    <3>4. Config!StillLoaded(call[v])'
      BY <3>1, <3>2, <3>3 DEF Config!StillLoaded
    <3>5. Config!ActiveShifts' = Config!ActiveShifts
      BY <3>1 DEF Config!ActiveShifts
    <3>6. pc[v] = "checked" => Config!Allowed(call[v])'
      BY <3>1, <3>2, <3>3, <3>5
         DEF Config!Allowed, Config!FitsWorkMode, Config!HasOperationalUsage
    <3> QED
      BY <3>4, <3>6
  <2> QED
    BY <2>1, <2>2
<1> QED
  BY <1>1, <1>2, <1>5

LEMMA ConfigUnreferKeeps ==
    ASSUME Config!IInv, Config!Unrefer PROVE Config!IInv'
<1> USE DEF Config!IInv
<1>1. /\ uses' \subseteq uses
      /\ UNCHANGED <<mode, state, pc, call, overtaken, raced, staffed>>
  BY DEF Config!Unrefer
<1>2. Config!TypeOK'
  BY <1>1 DEF Config!TypeOK, Config!Things, Config!Relations
<1>3. Config!ConfigurationFits'
  BY <1>1 DEF Config!ConfigurationFits, Config!ActiveShifts
<1>4. Config!ChecksHold'
  <2> SUFFICES ASSUME NEW v \in Workers, pc[v] # "idle", v \notin overtaken
               PROVE  /\ Config!StillLoaded(call[v])'
                      /\ pc[v] = "checked" => Config!Allowed(call[v])'
    BY <1>1 DEF Config!ChecksHold, Config!Things
  <2>1. /\ Config!StillLoaded(call[v])
        /\ pc[v] = "checked" => Config!Allowed(call[v])
    BY DEF Config!ChecksHold
  <2>2. Config!StillLoaded(call[v])'
    BY <1>1, <2>1 DEF Config!StillLoaded
  <2>3. Config!ActiveShifts' = Config!ActiveShifts
    BY <1>1 DEF Config!ActiveShifts
  <2>4. Config!HasOperationalUsage(call[v].thing)' => Config!HasOperationalUsage(call[v].thing)
    BY <1>1 DEF Config!HasOperationalUsage, Config!CountedRelations, Config!Relations
  <2>5. pc[v] = "checked" => Config!Allowed(call[v])'
    BY <1>1, <2>1, <2>3, <2>4 DEF Config!Allowed, Config!FitsWorkMode
  <2> QED
    BY <2>2, <2>5
<1> QED
  BY <1>2, <1>3, <1>4

LEMMA OrganisationKept ==
    ASSUME Config!IInv, [Config!Next]_Config!vars
    PROVE  Config!IInv'
<1>1. CASE UNCHANGED Config!vars
  <2>1. UNCHANGED <<mode, state, uses, pc, call, overtaken, raced, staffed>>
    BY <1>1 DEF Config!vars
  <2>2. Config!TypeOK' /\ Config!ConfigurationFits'
    BY <2>1 DEF Config!IInv, Config!TypeOK, Config!ConfigurationFits, Config!ActiveShifts,
                Config!Things, Config!Relations
  <2>3. Config!ActiveShifts' = Config!ActiveShifts
    BY <2>1 DEF Config!ActiveShifts
  <2>4. Config!ChecksHold'
    BY <2>1, <2>3 DEF Config!IInv, Config!ChecksHold, Config!Things, Config!StillLoaded,
                      Config!Allowed, Config!FitsWorkMode, Config!HasOperationalUsage
  <2> QED
    BY <2>2, <2>4 DEF Config!IInv
<1>2. ASSUME NEW w \in Workers, Config!Abort(w) PROVE Config!IInv'
  BY <1>2, SiteCall, ConfigMovesOn DEF Config!Abort
<1>3. ASSUME NEW w \in Workers, Config!Step(w) PROVE Config!IInv'
  BY <1>2, <1>3, ConfigLoadKeeps, ConfigCheckKeeps, ConfigSaveKeeps DEF Config!Step
<1> QED
  BY <1>1, <1>3, ConfigUnreferKeeps DEF Config!Next

\* ConfigurationFits in every reachable state: a full-time site has no active
\* shift, a site of shifts that has had one keeps one, and nothing that
\* attendance or an inspection refers to is inactive, as long as no request was
\* saved on a check that another had outdated.
THEOREM ConfigurationStaysFit == OfficeSpec => []ConfigurationFits
<1>1. OfficeInit => ConfigurationFits
  BY OrganisationInit DEF OfficeInit, ConfigurationFits
<1>2. ConfigurationFits /\ [OfficeNext]_officeVars => ConfigurationFits'
  BY OrganisationKept DEF OfficeNext, officeVars, ConfigurationFits, Config!vars
<1> QED
  BY <1>1, <1>2, PTL DEF OfficeSpec

------------------------------------------------------------------------------
(* Supervision                                                              *)

LEMMA SupervisorsCounted == \A S : Supervisors!Cardinality(S) = Cardinality(S)
BY Zenon DEF Supervisors!Cardinality, Cardinality

LEMMA FewSupervisors == IsFiniteSet(SiteUsers) /\ MaxSupervisors \in Nat
BY SupervisionAssumption

LEMMA SupervisionInit == Supervisors!Init => Supervisors!IInv
<1> SUFFICES ASSUME Supervisors!Init PROVE Supervisors!IInv
  OBVIOUS
<1>1. Supervisors!TypeOK
  BY DEF Supervisors!Init, Supervisors!TypeOK
<1>2. Supervisors!Posted = {} /\ Supervisors!Primary = {}
  BY DEF Supervisors!Init, Supervisors!Posted, Supervisors!Primary
<1>3. Supervisors!SupervisionFits
  BY <1>2, FewSupervisors, SupervisorsCounted, FS_EmptySet
     DEF Supervisors!Init, Supervisors!SupervisionFits
<1>4. Supervisors!ChecksHold
  BY DEF Supervisors!Init, Supervisors!ChecksHold, Supervisors!NoCall
<1> QED
  BY <1>1, <1>3, <1>4 DEF Supervisors!IInv

\* The active supervisors are finitely many, the primary ones among them.
LEMMA Supervising ==
    /\ IsFiniteSet(Supervisors!Posted) /\ Cardinality(Supervisors!Posted) \in Nat
    /\ IsFiniteSet(Supervisors!Primary) /\ Cardinality(Supervisors!Primary) \in Nat
<1>1. Supervisors!Posted \subseteq SiteUsers /\ Supervisors!Primary \subseteq SiteUsers
  BY DEF Supervisors!Posted, Supervisors!Primary
<1> QED
  BY <1>1, FewSupervisors, FS_Subset, FS_CardinalityType

\* Who ends an assignment makes room.
LEMMA FewerSupervise ==
    ASSUME NEW A, NEW B, IsFiniteSet(B), A \subseteq B
    PROVE  Cardinality(A) \in Nat /\ Cardinality(B) \in Nat /\ Cardinality(A) <= Cardinality(B)
BY FS_Subset, FS_CardinalityType

LEMMA CheckKeeps ==
    ASSUME Supervisors!IInv, NEW w \in Workers,
           NEW c \in Supervisors!SiteCalls \cup Supervisors!AssistantCalls,
           c.part = "site" => /\ Supervisors!HasRoom
                              /\ c.primary => Supervisors!Primary \subseteq c.demoted,
           c.part = "assistant" => Supervisors!Coexists(c.zone),
           Supervisors!Checked(w, c)
    PROVE  Supervisors!IInv'
<1> USE DEF Supervisors!IInv
<1>1. /\ UNCHANGED <<post, zones, raced>> /\ missed' = missed \ {w}
      /\ call' = [call EXCEPT ![w] = c]
  BY DEF Supervisors!Checked
<1>2. Supervisors!TypeOK'
  BY <1>1 DEF Supervisors!TypeOK
<1>3. Supervisors!SupervisionFits'
  BY <1>1 DEF Supervisors!SupervisionFits, Supervisors!Posted, Supervisors!Primary
<1>4. call'[w] = c /\ \A v \in Workers \ {w} : call'[v] = call[v]
  BY <1>1 DEF Supervisors!TypeOK
<1>5. Supervisors!ChecksHold'
  BY <1>1, <1>4 DEF Supervisors!ChecksHold, Supervisors!HasRoom, Supervisors!Posted,
                    Supervisors!Primary, Supervisors!Coexists
<1> QED
  BY <1>2, <1>3, <1>5

LEMMA AssignSiteKeeps ==
    ASSUME Supervisors!IInv, NEW w \in Workers, Supervisors!AssignSite(w)
    PROVE  Supervisors!IInv'
<1>1. PICK u \in SiteUsers, primary \in BOOLEAN :
        /\ Supervisors!HasRoom
        /\ Supervisors!Checked(w, [part |-> "site", user |-> u, primary |-> primary,
                                   demoted |-> Supervisors!Demoted(primary)])
  BY Zenon DEF Supervisors!AssignSite
<1> DEFINE c == [part |-> "site", user |-> u, primary |-> primary,
                 demoted |-> Supervisors!Demoted(primary)]
<1>2. Supervisors!Demoted(primary) \in SUBSET SiteUsers
  BY DEF Supervisors!Demoted, Supervisors!Primary
<1>3. c \in Supervisors!SiteCalls
  BY <1>2, Zenon DEF Supervisors!SiteCalls
<1>4. c.part = "site" /\ (c.primary => Supervisors!Primary \subseteq c.demoted)
  BY DEF Supervisors!Demoted
<1> HIDE DEF c
<1>5. Supervisors!Checked(w, c)
  BY <1>1, Zenon DEF c
<1> QED
  BY <1>1, <1>3, <1>4, <1>5, CheckKeeps

LEMMA AssignAssistantKeeps ==
    ASSUME Supervisors!IInv, NEW w \in Workers, Supervisors!AssignAssistant(w)
    PROVE  Supervisors!IInv'
<1>1. PICK z \in Zones \cup {"all"} :
        /\ Supervisors!Coexists(z)
        /\ Supervisors!Checked(w, [part |-> "assistant", zone |-> z])
  BY Zenon DEF Supervisors!AssignAssistant
<1> DEFINE c == [part |-> "assistant", zone |-> z]
<1>2. c \in Supervisors!AssistantCalls
  BY <1>1 DEF Supervisors!AssistantCalls
<1>3. c.part = "assistant" /\ c.zone = z
  OBVIOUS
<1> HIDE DEF c
<1>4. Supervisors!Checked(w, c)
  BY <1>1, Zenon DEF c
<1> QED
  BY <1>1, <1>2, <1>3, <1>4, CheckKeeps

LEMMA InsertKeeps ==
    ASSUME Supervisors!IInv, NEW w \in Workers, Supervisors!Insert(w)
    PROVE  Supervisors!IInv'
<1> USE DEF Supervisors!IInv
<1> DEFINE c == call[w]
<1>0. Supervisors!TypeOK
  OBVIOUS
<1>1. /\ raced' = IF w \in missed THEN raced \cup {c.part} ELSE raced
      /\ missed' = (missed \cup {v \in Workers \ {w} : call[v].part = c.part}) \ {w}
      /\ call' = [call EXCEPT ![w] = Supervisors!NoCall]
  BY DEF Supervisors!Insert
<1>2. call'[w] = Supervisors!NoCall /\ \A v \in Workers \ {w} : call'[v] = call[v]
  BY <1>1 DEF Supervisors!TypeOK
<1>3. CASE /\ c.part = "site"
           /\ post[c.user] = "none"
           /\ post' = [u \in SiteUsers |->
                IF u = c.user THEN IF c.primary THEN "primary" ELSE "member"
                ELSE IF u \in c.demoted /\ post[u] # "none" THEN "member"
                ELSE post[u]]
           /\ UNCHANGED zones
  <2>1. c \in Supervisors!SiteCalls
    BY <1>0, <1>3 DEF Supervisors!TypeOK, Supervisors!NoCall, Supervisors!AssistantCalls
  <2>2. c.user \in SiteUsers
    BY <2>1 DEF Supervisors!SiteCalls
  <2>3. Supervisors!TypeOK'
    BY <1>1, <1>3, <2>2 DEF Supervisors!TypeOK
  <2>4. Supervisors!Posted' = Supervisors!Posted \cup {c.user}
    BY <1>0, <1>3, <2>2 DEF Supervisors!Posted, Supervisors!TypeOK
  <2>5. c.user \notin Supervisors!Posted
    BY <1>3 DEF Supervisors!Posted
  <2>6. Supervisors!SupervisionFits'
    <3>1. ASSUME "site" \notin raced'
          PROVE  (Supervisors!Cardinality(Supervisors!Posted) <= MaxSupervisors)'
      <4>1. w \notin missed
        BY <1>1, <1>3, <3>1
      <4>2. Supervisors!HasRoom
        BY <1>3, <4>1 DEF Supervisors!ChecksHold
      <4>3. Cardinality(Supervisors!Posted \cup {c.user}) = Cardinality(Supervisors!Posted) + 1
        BY <2>5, Supervising, FS_AddElement
      <4> QED
        BY <2>4, <4>2, <4>3, Supervising, FewSupervisors, SupervisorsCounted
           DEF Supervisors!HasRoom
    <3>2. ASSUME "site" \notin raced'
          PROVE  (Supervisors!Cardinality(Supervisors!Primary) <= 1)'
      <4>1. w \notin missed /\ "site" \notin raced
        BY <1>1, <1>3, <3>2
      <4>2. CASE c.primary
        <5>1. Supervisors!Primary \subseteq c.demoted
          BY <1>3, <4>1, <4>2 DEF Supervisors!ChecksHold
        <5>2. Supervisors!Primary' = {c.user}
          BY <1>3, <2>2, <4>2, <5>1 DEF Supervisors!Primary
        <5>3. Cardinality({c.user}) = 1
          BY FS_Singleton
        <5>4. Supervisors!Cardinality(Supervisors!Primary') = 1
          BY <5>2, <5>3, SupervisorsCounted
        <5> QED
          BY <5>4
      <4>3. CASE ~c.primary
        <5>1. Supervisors!Primary' \subseteq Supervisors!Primary
          BY <1>3, <2>2, <4>3 DEF Supervisors!Primary
        <5>2. Cardinality(Supervisors!Primary) <= 1
          BY <4>1, SupervisorsCounted DEF Supervisors!SupervisionFits
        <5>3. /\ Cardinality(Supervisors!Primary') \in Nat
              /\ Cardinality(Supervisors!Primary') <= Cardinality(Supervisors!Primary)
          BY <5>1, Supervising, FewerSupervise
        <5> QED
          BY <5>2, <5>3, Supervising, SupervisorsCounted
      <4> QED
        BY <4>2, <4>3
    <3>3. ("assistant" \notin raced /\ "all" \in zones => zones = {"all"})'
      BY <1>1, <1>3 DEF Supervisors!SupervisionFits
    <3> QED
      BY <3>1, <3>2, <3>3 DEF Supervisors!SupervisionFits
  <2>7. Supervisors!ChecksHold'
    <3> SUFFICES ASSUME NEW v \in Workers \ missed'
                 PROVE  /\ call'[v].part # "site"
                        /\ call'[v].part = "assistant" => Supervisors!Coexists(call[v].zone)'
      BY DEF Supervisors!ChecksHold
    <3>1. CASE v = w
      BY <1>2, <3>1 DEF Supervisors!NoCall
    <3>2. CASE v # w
      BY <1>1, <1>2, <1>3, <3>2 DEF Supervisors!ChecksHold, Supervisors!Coexists
    <3> QED
      BY <3>1, <3>2
  <2> QED
    BY <2>3, <2>6, <2>7
<1>4. CASE /\ c.part = "assistant"
           /\ zones' = zones \cup {c.zone}
           /\ UNCHANGED post
  <2>1. c \in Supervisors!AssistantCalls
    BY <1>0, <1>4 DEF Supervisors!TypeOK, Supervisors!NoCall, Supervisors!SiteCalls
  <2>2. c.zone \in Zones \cup {"all"}
    BY <2>1 DEF Supervisors!AssistantCalls
  <2>3. Supervisors!TypeOK'
    BY <1>1, <1>4, <2>2 DEF Supervisors!TypeOK
  <2>4. Supervisors!SupervisionFits'
    <3>1. ("site" \notin raced =>
             (Supervisors!Cardinality(Supervisors!Posted) <= MaxSupervisors
              /\ Supervisors!Cardinality(Supervisors!Primary) <= 1))'
      BY <1>1, <1>4 DEF Supervisors!SupervisionFits, Supervisors!Posted, Supervisors!Primary
    <3>2. ASSUME "assistant" \notin raced', "all" \in zones'
          PROVE  zones' = {"all"}
      <4>1. w \notin missed /\ "assistant" \notin raced
        BY <1>1, <1>4, <3>2
      <4>2. Supervisors!Coexists(c.zone)
        BY <1>4, <4>1 DEF Supervisors!ChecksHold
      <4> QED
        BY <1>4, <3>2, <4>1, <4>2 DEF Supervisors!Coexists, Supervisors!SupervisionFits
    <3> QED
      BY <3>1, <3>2 DEF Supervisors!SupervisionFits
  <2>5. Supervisors!ChecksHold'
    <3> SUFFICES ASSUME NEW v \in Workers \ missed'
                 PROVE  /\ call'[v].part # "assistant"
                        /\ call'[v].part = "site" =>
                             (Supervisors!HasRoom
                              /\ (call[v].primary => Supervisors!Primary \subseteq call[v].demoted))'
      BY DEF Supervisors!ChecksHold
    <3>1. CASE v = w
      BY <1>2, <3>1 DEF Supervisors!NoCall
    <3>2. CASE v # w
      BY <1>1, <1>2, <1>4, <3>2 DEF Supervisors!ChecksHold, Supervisors!HasRoom,
                                    Supervisors!Posted, Supervisors!Primary
    <3> QED
      BY <3>1, <3>2
  <2> QED
    BY <2>3, <2>4, <2>5
<1> QED
  BY <1>3, <1>4 DEF Supervisors!Insert

LEMMA EndSiteKeeps ==
    ASSUME Supervisors!IInv, Supervisors!EndSite PROVE Supervisors!IInv'
<1> USE DEF Supervisors!IInv
<1>1. PICK u \in SiteUsers : /\ post' = [post EXCEPT ![u] = "none"]
                             /\ UNCHANGED <<zones, call, missed, raced>>
  BY DEF Supervisors!EndSite, Supervisors!Posted
<1>2. Supervisors!TypeOK'
  BY <1>1 DEF Supervisors!TypeOK
<1>3. /\ Supervisors!Posted' \subseteq Supervisors!Posted
      /\ Supervisors!Primary' \subseteq Supervisors!Primary
  BY <1>1 DEF Supervisors!TypeOK, Supervisors!Posted, Supervisors!Primary
<1>4. /\ Cardinality(Supervisors!Posted') \in Nat
      /\ Cardinality(Supervisors!Posted') <= Cardinality(Supervisors!Posted)
      /\ Cardinality(Supervisors!Primary') \in Nat
      /\ Cardinality(Supervisors!Primary') <= Cardinality(Supervisors!Primary)
  BY <1>3, Supervising, FewerSupervise
<1>5. Supervisors!SupervisionFits'
  BY <1>1, <1>4, Supervising, FewSupervisors, SupervisorsCounted DEF Supervisors!SupervisionFits
<1>6. Supervisors!ChecksHold'
  <2>1. Supervisors!HasRoom => Supervisors!HasRoom'
    BY <1>4, Supervising, FewSupervisors, SupervisorsCounted DEF Supervisors!HasRoom
  <2> QED
    BY <1>1, <1>3, <2>1 DEF Supervisors!ChecksHold, Supervisors!Coexists
<1> QED
  BY <1>2, <1>5, <1>6

LEMMA EndAssistantKeeps ==
    ASSUME Supervisors!IInv, Supervisors!EndAssistant PROVE Supervisors!IInv'
BY
   DEF Supervisors!IInv, Supervisors!EndAssistant, Supervisors!TypeOK,
       Supervisors!SupervisionFits,
       Supervisors!ChecksHold, Supervisors!Posted, Supervisors!Primary, Supervisors!HasRoom,
       Supervisors!Coexists

LEMMA AbortKeeps ==
    ASSUME Supervisors!IInv, NEW w \in Workers, Supervisors!Abort(w)
    PROVE  Supervisors!IInv'
<1> USE DEF Supervisors!IInv
<1>1. /\ call' = [call EXCEPT ![w] = Supervisors!NoCall] /\ missed' = missed \ {w}
      /\ UNCHANGED <<post, zones, raced>>
  BY DEF Supervisors!Abort
<1>2. Supervisors!TypeOK'
  BY <1>1 DEF Supervisors!TypeOK
<1>3. call'[w] = Supervisors!NoCall /\ \A v \in Workers \ {w} : call'[v] = call[v]
  BY <1>1 DEF Supervisors!TypeOK
<1>4. Supervisors!SupervisionFits'
  BY <1>1 DEF Supervisors!SupervisionFits, Supervisors!Posted, Supervisors!Primary
<1>5. Supervisors!ChecksHold'
  BY <1>1, <1>3 DEF Supervisors!ChecksHold, Supervisors!HasRoom, Supervisors!Posted,
                    Supervisors!Primary, Supervisors!Coexists, Supervisors!NoCall
<1> QED
  BY <1>2, <1>4, <1>5

LEMMA SupervisionKept ==
    ASSUME Supervisors!IInv, [Supervisors!Next]_Supervisors!vars
    PROVE  Supervisors!IInv'
<1>1. CASE UNCHANGED Supervisors!vars
  BY <1>1
     DEF Supervisors!vars, Supervisors!IInv, Supervisors!TypeOK, Supervisors!SupervisionFits,
              Supervisors!ChecksHold, Supervisors!Posted, Supervisors!Primary, Supervisors!HasRoom,
              Supervisors!Coexists
<1>2. ASSUME NEW w \in Workers, Supervisors!Step(w) PROVE Supervisors!IInv'
  BY <1>2, AssignSiteKeeps, AssignAssistantKeeps, InsertKeeps, AbortKeeps DEF Supervisors!Step
<1> QED
  BY <1>1, <1>2, EndSiteKeeps, EndAssistantKeeps DEF Supervisors!Next

\* SupervisionFits in every reachable state: a site never has more active
\* supervisors than the limit or two primary ones, and nobody supervises all
\* zones and a single one, unless two requests assigned at the same time.
THEOREM SupervisionStaysFit == OfficeSpec => []SupervisionFits
<1>1. OfficeInit => SupervisionFits
  BY SupervisionInit DEF OfficeInit, SupervisionFits
<1>2. SupervisionFits /\ [OfficeNext]_officeVars => SupervisionFits'
  BY SupervisionKept DEF OfficeNext, officeVars, SupervisionFits, Supervisors!vars
<1> QED
  BY <1>1, <1>2, PTL DEF OfficeSpec

------------------------------------------------------------------------------
(* Remuneration                                                             *)

\* A decision writes one line, and leaves the others as they are.
LEMMA DecidedLine ==
    ASSUME Payment!TypeOK, NEW c, c.cleaner \in Cleaners,
           c.line \in Payment!LineRows, Payment!Decide(c)
    PROVE  /\ line'[c.cleaner].decision = "pending"
           /\ \A d \in Cleaners : d # c.cleaner => line'[d] = line[d]
<1> DEFINE written == [c.line EXCEPT !.proposed = c.value, !.decision = "pending"]
<1>1. line' = [line EXCEPT ![c.cleaner] = written]
  BY DEF Payment!Decide
<1>2. written.decision = "pending"
  BY DEF Payment!LineRows
<1> HIDE DEF written
<1>3. DOMAIN line = Cleaners
  BY DEF Payment!TypeOK
<1>4. /\ line'[c.cleaner] = written
      /\ \A d \in Cleaners : d # c.cleaner => line'[d] = line[d]
  BY <1>1, <1>3
<1> QED
  BY <1>2, <1>4

LEMMA PaymentConstants ==
    MaxDays \in Nat /\ 0 \in 0 .. MaxDays /\ "none" \notin Cleaners
BY RemunerationAssumption

LEMMA PaymentNothing ==
    /\ Payment!NoForm \in Payment!Forms
    /\ Payment!NoLine \in Payment!LineRows
    /\ Payment!NoCall \in Payment!CallRows
<1>1. <<>> \in [{} -> Payment!Shown]
  OBVIOUS
<1>2. Payment!NoForm \in Payment!Forms
  BY <1>1 DEF Payment!Forms, Payment!NoForm
<1>3. Payment!NoLine \in Payment!LineRows
  BY PaymentConstants DEF Payment!LineRows, Payment!NoLine
<1>4. Payment!NoCall \in Payment!CallRows
  BY <1>2, <1>3 DEF Payment!CallRows, Payment!NoCall
<1> QED
  BY <1>2, <1>3, <1>4

LEMMA NothingRecorded ==
    /\ Payment!NoLine.days = 0 /\ Payment!NoLine.proposed = ""
    /\ Payment!NoLine.decision = "none"
    /\ Payment!NoForm.status = "none" /\ DOMAIN Payment!NoForm.snapshot = {}
    /\ Payment!NoCall.form = Payment!NoForm
BY DEF Payment!NoLine, Payment!NoForm, Payment!NoCall

\* What the services set of a line.
LEMMA LineSet ==
    ASSUME NEW l \in Payment!LineRows
    PROVE  /\ \A n \in 0 .. MaxDays : LET m == [l EXCEPT !.days = n] IN
                /\ m \in Payment!LineRows
                /\ m.proposed = l.proposed /\ m.decision = l.decision
           /\ LET m == [l EXCEPT !.decision = "approved"] IN
                /\ m \in Payment!LineRows /\ m.days = l.days
                /\ m.proposed = l.proposed /\ m.decision = "approved"
           /\ \A x \in Contacts \cup {""} :
                LET m == [l EXCEPT !.proposed = x, !.decision = "pending"] IN
                /\ m \in Payment!LineRows /\ m.decision = "pending"
BY DEF Payment!LineRows

LEMMA ShownIsRecorded ==
    /\ DOMAIN Payment!Snapshot = Payment!Lines
    /\ \A c \in Payment!Lines :
          /\ Payment!Snapshot[c].days = line[c].days
          /\ Payment!Snapshot[c].recorded <=> line[c].proposed # ""
BY Zenon DEF Payment!Snapshot

LEMMA PaymentInit == Payment!Init => Payment!IInv
<1> SUFFICES ASSUME Payment!Init PROVE Payment!IInv
  OBVIOUS
<1> USE DEF Payment!Init
<1>1. /\ posted \subseteq Cleaners /\ raced \in BOOLEAN
      /\ profile \in [Cleaners -> Contacts \cup {""}]
      /\ pc \in [Workers -> {"idle", "loaded"}]
  OBVIOUS
<1>2. days \in [Cleaners -> 0 .. MaxDays]
  <2>1. days = [c \in Cleaners |-> 0]
    OBVIOUS
  <2> QED
    BY <2>1, PaymentConstants, Zenon
<1>3. /\ line \in [Cleaners -> Payment!LineRows] /\ form \in Payment!Forms
      /\ call \in [Workers -> Payment!CallRows]
  BY PaymentNothing
<1>5. Payment!TypeOK
  BY <1>1, <1>2, <1>3 DEF Payment!TypeOK
<1>6. Payment!LinesAsShown /\ Payment!ProfilesAsReviewed
  BY DEF Payment!LinesAsShown, Payment!ProfilesAsReviewed, Payment!NoForm, Payment!NoLine
<1>7. Payment!LinesAreKept
  BY NothingRecorded DEF Payment!LinesAreKept, Payment!Lines
<1>8. Payment!LoadedWasAccepted
  BY DEF Payment!LoadedWasAccepted
<1> QED
  BY <1>5, <1>6, <1>7, <1>8 DEF Payment!IInv, Payment!PaidAsSubmitted

\* Refreshing keeps every line, and what a form that is no longer editable
\* was shown of it.
LEMMA RefreshKeeps ==
    ASSUME Payment!TypeOK, NEW f, line' = Payment!Refreshed(f)
    PROVE  /\ line' \in [Cleaners -> Payment!LineRows]
           /\ \A c \in Cleaners : line[c] # Payment!NoLine =>
                 /\ line'[c].proposed = line[c].proposed
                 /\ line'[c].decision = line[c].decision
                 /\ ~Payment!IsEditable(f) => line'[c] = line[c]
           /\ \A c \in Cleaners : line[c] = Payment!NoLine =>
                 \/ line'[c] = line[c]
                 \/ /\ line'[c].proposed = "" /\ line'[c].decision = "pending"
<1>0. /\ line \in [Cleaners -> Payment!LineRows]
      /\ days \in [Cleaners -> 0 .. MaxDays]
  BY DEF Payment!TypeOK
<1>1. \A c \in Cleaners : line'[c] =
         IF c \notin posted THEN line[c]
         ELSE IF c \notin Payment!Lines
         THEN [days |-> days[c], proposed |-> "", decision |-> "pending"]
         ELSE IF Payment!IsEditable(f) THEN [line[c] EXCEPT !.days = days[c]]
         ELSE line[c]
  BY DEF Payment!Refreshed
<1>2. \A c \in Cleaners : line'[c] \in Payment!LineRows
  <2> SUFFICES ASSUME NEW c \in Cleaners PROVE line'[c] \in Payment!LineRows
    OBVIOUS
  <2>1. line[c] \in Payment!LineRows /\ days[c] \in 0 .. MaxDays
    BY <1>0
  <2>2. [days |-> days[c], proposed |-> "", decision |-> "pending"] \in Payment!LineRows
    BY <2>1 DEF Payment!LineRows
  <2>3. [line[c] EXCEPT !.days = days[c]] \in Payment!LineRows
    BY <2>1, LineSet
  <2> QED
    BY <1>1, <2>1, <2>2, <2>3, Zenon
<1>3. line' \in [Cleaners -> Payment!LineRows]
  BY <1>2 DEF Payment!Refreshed
<1>4. \A c \in Cleaners : line[c] # Payment!NoLine =>
         /\ line'[c].proposed = line[c].proposed
         /\ line'[c].decision = line[c].decision
         /\ ~Payment!IsEditable(f) => line'[c] = line[c]
  <2> SUFFICES ASSUME NEW c \in Cleaners, line[c] # Payment!NoLine
               PROVE  /\ line'[c].proposed = line[c].proposed
                      /\ line'[c].decision = line[c].decision
                      /\ ~Payment!IsEditable(f) => line'[c] = line[c]
    OBVIOUS
  <2>1. line[c] \in Payment!LineRows /\ days[c] \in 0 .. MaxDays
    BY <1>0
  <2>2. \/ line'[c] = line[c]
        \/ line'[c] = [line[c] EXCEPT !.days = days[c]] /\ Payment!IsEditable(f)
    BY <1>1, Zenon DEF Payment!Lines
  <2>3. /\ [line[c] EXCEPT !.days = days[c]].proposed = line[c].proposed
        /\ [line[c] EXCEPT !.days = days[c]].decision = line[c].decision
    BY <2>1, LineSet
  <2> QED
    BY <2>2, <2>3, Zenon
<1>5. \A c \in Cleaners : line[c] = Payment!NoLine =>
         \/ line'[c] = line[c]
         \/ line'[c].proposed = "" /\ line'[c].decision = "pending"
  <2> SUFFICES ASSUME NEW c \in Cleaners, line[c] = Payment!NoLine
               PROVE  \/ line'[c] = line[c]
                      \/ line'[c].proposed = "" /\ line'[c].decision = "pending"
    OBVIOUS
  <2>1. \/ line'[c] = line[c]
        \/ line'[c] = [days |-> days[c], proposed |-> "", decision |-> "pending"]
    BY <1>1, Zenon DEF Payment!Lines
  <2>2. \A n : LET m == [days |-> n, proposed |-> "", decision |-> "pending"] IN
                 m.proposed = "" /\ m.decision = "pending"
    OBVIOUS
  <2> QED
    BY <2>1, <2>2, Zenon
<1> QED
  BY <1>3, <1>4, <1>5

LEMMA PaymentTypes ==
    ASSUME Payment!IInv, Payment!Next
    PROVE  Payment!TypeOK'
<1> USE DEF Payment!IInv, Payment!PaidAsSubmitted
<1>0. Payment!TypeOK
  OBVIOUS
<1>1. CASE Payment!Prepare
  <2>1. form' \in Payment!Forms
    BY <1>0, <1>1 DEF Payment!Prepare, Payment!TypeOK, Payment!Forms, Payment!NoForm
  <2>2. line' \in [Cleaners -> Payment!LineRows]
    BY <1>0, <1>1, RefreshKeeps DEF Payment!Prepare
  <2> QED
    BY <1>0, <1>1, <2>1, <2>2 DEF Payment!Prepare, Payment!TypeOK
<1>2. CASE Payment!Month
  <2>1. UNCHANGED <<form, line, profile, pc, call, raced>>
    BY <1>2 DEF Payment!Month
  <2>2. \/ (\E c \in Cleaners : posted' = posted \cup {c}) /\ days' = days
        \/ /\ \E c \in posted : days[c] < MaxDays /\ days' = [days EXCEPT ![c] = @ + 1]
           /\ posted' = posted
        \/ UNCHANGED <<posted, days>>
    BY <1>2, Zenon DEF Payment!Month
  <2>3. posted \subseteq Cleaners /\ days \in [Cleaners -> 0 .. MaxDays]
    BY <1>0 DEF Payment!TypeOK
  <2>4. posted' \subseteq Cleaners /\ days' \in [Cleaners -> 0 .. MaxDays]
    BY <2>2, <2>3, PaymentConstants
  <2> QED
    BY <1>0, <2>1, <2>4 DEF Payment!TypeOK
<1>3. ASSUME NEW w \in Workers, Payment!Load(w) PROVE Payment!TypeOK'
  <2>1. PICK op \in Payment!Operations, c \in Payment!Lines \cup {"none"},
             value \in Contacts \cup {""} :
          call' = [call EXCEPT ![w] =
               [op |-> op, form |-> form, cleaner |-> c, value |-> value,
                line |-> IF c = "none" THEN Payment!NoLine ELSE line[c]]]
    BY <1>3, Zenon DEF Payment!Load
  <2>2. (IF c = "none" THEN Payment!NoLine ELSE line[c]) \in Payment!LineRows
    BY <1>0, PaymentNothing DEF Payment!TypeOK, Payment!Lines
  <2>3. c \in Cleaners \cup {"none"}
    BY DEF Payment!Lines
  <2>4. call' \in [Workers -> Payment!CallRows]
    BY <1>0, <2>1, <2>2, <2>3 DEF Payment!TypeOK, Payment!CallRows
  <2> QED
    BY <1>0, <1>3, <2>4 DEF Payment!TypeOK, Payment!Load
<1>9. Payment!NoCall \in Payment!CallRows
  BY PaymentNothing
<1>4. ASSUME NEW w \in Workers, Payment!Commit(w) PROVE Payment!TypeOK'
  <2>1. raced' \in BOOLEAN
    BY <1>4, Zenon DEF Payment!Commit
  <2>2. call[w] \in Payment!CallRows
    BY <1>0 DEF Payment!TypeOK
  <2>3. /\ form' \in Payment!Forms
        /\ line' \in [Cleaners -> Payment!LineRows]
        /\ profile' \in [Cleaners -> Contacts \cup {""}]
    <3>1. CASE Payment!Decide(call[w])
      BY <1>0, <2>2, <3>1 DEF Payment!Decide, Payment!TypeOK, Payment!CallRows, Payment!LineRows
    <3>2. CASE Payment!PrepareAgain(call[w])
      BY <1>0, <3>2, RefreshKeeps DEF Payment!PrepareAgain, Payment!TypeOK
    <3>3. CASE Payment!Submit(call[w])
      <4>1. Payment!Snapshot \in [Payment!Lines -> Payment!Shown]
        BY <1>0
           DEF Payment!Snapshot, Payment!Shown, Payment!TypeOK, Payment!LineRows,
               Payment!Lines
      <4>2. Payment!Lines \in SUBSET Cleaners
        BY DEF Payment!Lines
      <4>3. form' \in Payment!Forms
        BY <3>3, <4>1, <4>2 DEF Payment!Submit, Payment!Forms
      <4> QED
        BY <1>0, <3>3, <4>3 DEF Payment!Submit, Payment!TypeOK
    <3>4. CASE Payment!Review(call[w])
      <4>1. form' \in Payment!Forms
        BY <2>2, <3>4 DEF Payment!Review, Payment!CallRows, Payment!Forms
      <4>2. line' \in [Cleaners -> Payment!LineRows]
        BY <1>0, <3>4 DEF Payment!Review, Payment!TypeOK, Payment!LineRows
      <4>3. profile' \in [Cleaners -> Contacts \cup {""}]
        BY <1>0, <3>4 DEF Payment!Review, Payment!TypeOK, Payment!LineRows
      <4> QED
        BY <4>1, <4>2, <4>3
    <3>5. CASE Payment!Return(call[w])
      BY <1>0, <2>2, <3>5 DEF Payment!Return, Payment!TypeOK, Payment!CallRows, Payment!Forms
    <3> QED
      BY <1>4, <3>1, <3>2, <3>3, <3>4, <3>5 DEF Payment!Commit
  <2> QED
    BY <1>0, <1>4, <1>9, <2>1, <2>3 DEF Payment!Commit, Payment!TypeOK
<1>5. ASSUME NEW w \in Workers, Payment!Abort(w) PROVE Payment!TypeOK'
  BY <1>0, <1>5, <1>9 DEF Payment!Abort, Payment!TypeOK
<1> QED
  BY <1>1, <1>2, <1>3, <1>4, <1>5 DEF Payment!Next, Payment!Step

\* Lines are kept whatever the order of the calls.
LEMMA PaymentKept ==
    ASSUME Payment!IInv, Payment!Next, Payment!TypeOK'
    PROVE  Payment!LinesAreKept' /\ Payment!LoadedWasAccepted'
<1> USE DEF Payment!IInv, Payment!PaidAsSubmitted
<1>0. Payment!TypeOK /\ Payment!LinesAreKept /\ Payment!LoadedWasAccepted
  OBVIOUS
<1>a. ASSUME Payment!Lines \subseteq Payment!Lines',
             \A c \in Payment!Lines' : line'[c].decision # "none",
             DOMAIN form'.snapshot \subseteq Payment!Lines',
             \A w \in Workers : \/ call'[w] = call[w]
                                \/ DOMAIN call'[w].form.snapshot \subseteq Payment!Lines'
      PROVE  Payment!LinesAreKept'
  BY <1>0, <1>a DEF Payment!LinesAreKept
<1>b. ASSUME \A w \in Workers : pc'[w] = "loaded" => pc[w] = "loaded" /\ call'[w] = call[w]
      PROVE  Payment!LoadedWasAccepted'
  BY <1>0, <1>b DEF Payment!LoadedWasAccepted, Payment!IsEditable
<1>c. ASSUME NEW f, line' = Payment!Refreshed(f)
      PROVE  /\ Payment!Lines \subseteq Payment!Lines'
             /\ \A c \in Payment!Lines' : line'[c].decision # "none"
  <2>1. \A c \in Cleaners : line[c] # Payment!NoLine => line[c].decision # "none"
    BY <1>0 DEF Payment!LinesAreKept, Payment!Lines
  <2>2. \A c \in Cleaners : line[c] # Payment!NoLine => line'[c].decision # "none"
    BY <1>0, <1>c, <2>1, RefreshKeeps
  <2>3. \A c \in Cleaners : line'[c] # Payment!NoLine => line'[c].decision # "none"
    BY <1>0, <1>c, <2>2, RefreshKeeps
  <2> QED
    BY <2>2, <2>3, NothingRecorded DEF Payment!Lines
<1>1. CASE Payment!Prepare
  <2>1. /\ Payment!Lines \subseteq Payment!Lines'
        /\ \A c \in Payment!Lines' : line'[c].decision # "none"
    BY <1>1, <1>c DEF Payment!Prepare
  <2>2. DOMAIN form'.snapshot = {}
    BY <1>1 DEF Payment!Prepare, Payment!NoForm
  <2> QED
    BY <1>1, <1>a, <1>b, <2>1, <2>2 DEF Payment!Prepare
<1>2. CASE Payment!Month
  BY <1>0, <1>2 DEF Payment!Month, Payment!LinesAreKept, Payment!LoadedWasAccepted,
     Payment!Lines, Payment!IsEditable
<1>3. ASSUME NEW w \in Workers, Payment!Load(w)
      PROVE  Payment!LinesAreKept' /\ Payment!LoadedWasAccepted'
  <2>1. PICK op \in Payment!Operations, c \in Payment!Lines \cup {"none"},
             value \in Contacts \cup {""} :
          /\ IF op = "decide" THEN c # "none" ELSE c = "none" /\ value = ""
          /\ Payment!Accepts(op, form)
          /\ call' = [call EXCEPT ![w] =
               [op |-> op, form |-> form, cleaner |-> c, value |-> value,
                line |-> IF c = "none" THEN Payment!NoLine ELSE line[c]]]
    BY <1>3, Zenon DEF Payment!Load
  <2>2. /\ call'[w].form = form /\ call'[w].op = op /\ call'[w].cleaner = c
        /\ \A v \in Workers \ {w} : call'[v] = call[v] /\ pc'[v] = pc[v]
        /\ UNCHANGED <<line, form>>
    BY <1>0, <1>3, <2>1 DEF Payment!TypeOK, Payment!Load
  <2>3. Payment!LinesAreKept'
    BY <1>0, <2>2 DEF Payment!LinesAreKept, Payment!Lines
  <2>4. Payment!LoadedWasAccepted'
    <3> SUFFICES ASSUME NEW v \in Workers, pc'[v] = "loaded"
                 PROVE  /\ call'[v].op \in {"decide", "submit"} => Payment!IsEditable(call'[v].form)
                        /\ call'[v].op \in {"review", "return"} => call'[v].form.status = "submitted"
                        /\ call'[v].op = "decide" => call'[v].cleaner \in Cleaners
      BY Zenon DEF Payment!LoadedWasAccepted, Payment!IsEditable
    <3>1. CASE v = w
      BY <2>1, <2>2, <3>1 DEF Payment!Accepts, Payment!Lines
    <3>2. CASE v # w
      BY <1>0, <2>2, <3>2 DEF Payment!LoadedWasAccepted
    <3> QED
      BY <3>1, <3>2
  <2> QED
    BY <2>3, <2>4
<1>9. DOMAIN Payment!NoCall.form.snapshot = {}
  BY DEF Payment!NoCall, Payment!NoForm
<1>4. ASSUME NEW w \in Workers, Payment!Commit(w)
      PROVE  Payment!LinesAreKept' /\ Payment!LoadedWasAccepted'
  <2>1. /\ pc[w] = "loaded" /\ pc'[w] = "idle" /\ call'[w] = Payment!NoCall
        /\ \A v \in Workers \ {w} : call'[v] = call[v] /\ pc'[v] = pc[v]
    BY <1>0, <1>4 DEF Payment!TypeOK, Payment!Commit
  <2>2. Payment!LoadedWasAccepted'
    BY <1>b, <2>1
  <2>3. DOMAIN call[w].form.snapshot \subseteq Payment!Lines
    BY <1>0 DEF Payment!LinesAreKept
  <2>4. /\ Payment!Lines \subseteq Payment!Lines'
        /\ \A c \in Payment!Lines' : line'[c].decision # "none"
        /\ DOMAIN form'.snapshot \subseteq Payment!Lines
    <3> USE DEF Payment!Lines, Payment!LinesAreKept, Payment!TypeOK
    <3>1. CASE Payment!Decide(call[w])
      <4>1. call[w].cleaner \in Cleaners /\ call[w].line \in Payment!LineRows
        BY <1>0, <2>1, <3>1 DEF Payment!LoadedWasAccepted, Payment!Decide, Payment!CallRows
      <4>2. line'[call[w].cleaner].decision = "pending"
            /\ \A c \in Cleaners : c # call[w].cleaner => line'[c] = line[c]
        BY <1>0, <3>1, <4>1, DecidedLine
      <4> QED
        BY <1>0, <3>1, <4>1, <4>2, NothingRecorded DEF Payment!Decide
    <3>2. CASE Payment!PrepareAgain(call[w])
      BY <1>0, <1>c, <3>2 DEF Payment!PrepareAgain
    <3>3. CASE Payment!Submit(call[w])
      BY <1>0, <3>3 DEF Payment!Submit, Payment!Snapshot
    <3>4. CASE Payment!Review(call[w])
      <4>1. \A c \in Cleaners : line'[c] = line[c] \/ line'[c].decision = "approved"
        <5> SUFFICES ASSUME NEW c \in Cleaners
                     PROVE  line'[c] = line[c] \/ line'[c].decision = "approved"
          OBVIOUS
        <5>1. line[c] \in Payment!LineRows
          BY <1>0
        <5>2. line'[c] = line[c] \/ line'[c] = [line[c] EXCEPT !.decision = "approved"]
          BY <3>4, Zenon DEF Payment!Review
        <5>3. [line[c] EXCEPT !.decision = "approved"].decision = "approved"
          BY <5>1, LineSet
        <5> QED
          BY <5>2, <5>3, Zenon
      <4>2. form'.snapshot = call[w].form.snapshot
        BY <1>0, <3>4 DEF Payment!Review, Payment!CallRows, Payment!Forms
      <4> QED
        BY <1>0, <2>3, <4>1, <4>2, NothingRecorded
    <3>5. CASE Payment!Return(call[w])
      <4>1. form'.snapshot = call[w].form.snapshot
        BY <1>0, <3>5 DEF Payment!Return, Payment!CallRows, Payment!Forms
      <4> QED
        BY <1>0, <2>3, <3>5, <4>1 DEF Payment!Return
    <3> QED
      BY <1>4, <3>1, <3>2, <3>3, <3>4, <3>5 DEF Payment!Commit
  <2>5. Payment!LinesAreKept'
    BY <1>a, <1>9, <2>1, <2>4
  <2> QED
    BY <2>2, <2>5
<1>5. ASSUME NEW w \in Workers, Payment!Abort(w)
      PROVE  Payment!LinesAreKept' /\ Payment!LoadedWasAccepted'
  <2>1. /\ pc'[w] = "idle" /\ call'[w] = Payment!NoCall /\ UNCHANGED <<line, form>>
        /\ \A v \in Workers \ {w} : call'[v] = call[v] /\ pc'[v] = pc[v]
    BY <1>0, <1>5 DEF Payment!TypeOK, Payment!Abort
  <2>2. Payment!LinesAreKept'
    BY <1>0, <1>9, <2>1 DEF Payment!LinesAreKept, Payment!Lines
  <2> QED
    BY <1>b, <2>1, <2>2
<1> QED
  BY <1>1, <1>2, <1>3, <1>4, <1>5 DEF Payment!Next, Payment!Step

\* As long as no call committed over a form that had changed, the form is the
\* one HR was shown and the profiles are those HR approved.
LEMMA PaymentAsShown ==
    ASSUME Payment!IInv, Payment!Next, Payment!TypeOK', ~raced'
    PROVE  Payment!LinesAsShown' /\ Payment!ProfilesAsReviewed'
<1> USE DEF Payment!IInv, Payment!PaidAsSubmitted
<1>r. ~raced
  <2>1. ASSUME NEW w \in Workers, Payment!Commit(w) PROVE ~raced
    BY <2>1, Zenon DEF Payment!Commit
  <2> QED
    BY <2>1 DEF Payment!Next, Payment!Step, Payment!Prepare, Payment!Month,
        Payment!Load, Payment!Abort
<1>0. /\ Payment!TypeOK /\ Payment!LinesAreKept /\ Payment!LoadedWasAccepted
      /\ Payment!LinesAsShown /\ Payment!ProfilesAsReviewed
  BY <1>r
<1>s. DOMAIN form.snapshot \subseteq Payment!Lines
  BY <1>0 DEF Payment!LinesAreKept
<1>b. ASSUME UNCHANGED <<form, line, profile>>
      PROVE  Payment!LinesAsShown' /\ Payment!ProfilesAsReviewed'
  BY <1>0, <1>b DEF Payment!LinesAsShown, Payment!ProfilesAsReviewed
<1>c. (/\ line' = Payment!Refreshed(form') /\ profile' = profile
       /\ (form' = form \/ (form.status = "none" /\ form'.status = "draft")))
      => Payment!LinesAsShown' /\ Payment!ProfilesAsReviewed'
  <2> SUFFICES ASSUME line' = Payment!Refreshed(form'), profile' = profile,
                      (form' = form \/ (form.status = "none" /\ form'.status = "draft"))
               PROVE  Payment!LinesAsShown' /\ Payment!ProfilesAsReviewed'
    OBVIOUS
  <2>1. \A c \in Cleaners : line[c] # Payment!NoLine =>
          /\ line'[c].proposed = line[c].proposed
          /\ line'[c].decision = line[c].decision
          /\ ~Payment!IsEditable(form') => line'[c] = line[c]
    BY <1>0, RefreshKeeps
  <2>2. \A c \in Cleaners : line[c] = Payment!NoLine =>
          \/ line'[c] = line[c]
          \/ line'[c].proposed = "" /\ line'[c].decision = "pending"
    BY <1>0, RefreshKeeps
  <2>3. Payment!LinesAsShown'
    BY <1>0, <1>s, <2>1 DEF Payment!LinesAsShown, Payment!IsEditable, Payment!Lines
  <2>4. \A c \in Cleaners :
           \/ line'[c].proposed = line[c].proposed /\ line'[c].decision = line[c].decision
           \/ /\ line[c].proposed = "" /\ line[c].decision = "none"
              /\ line'[c].proposed = "" /\ line'[c].decision = "pending"
    BY <2>1, <2>2, NothingRecorded
  <2>5. form'.status = "reviewed" <=> form.status = "reviewed"
    OBVIOUS
  <2>6. Payment!ProfilesAsReviewed'
    BY <1>0, <2>4, <2>5 DEF Payment!ProfilesAsReviewed
  <2> QED
    BY <2>3, <2>6
<1>1. CASE Payment!Prepare
  <2>1. form.status = "none" /\ form'.status = "draft"
    BY <1>1 DEF Payment!Prepare, Payment!NoForm
  <2> QED
    BY <1>1, <1>c, <2>1 DEF Payment!Prepare
<1>2. CASE Payment!Month
  BY <1>2, <1>b DEF Payment!Month
<1>3. ASSUME NEW w \in Workers, Payment!Load(w)
      PROVE  Payment!LinesAsShown' /\ Payment!ProfilesAsReviewed'
  BY <1>3, <1>b DEF Payment!Load
<1>5. ASSUME NEW w \in Workers, Payment!Abort(w)
      PROVE  Payment!LinesAsShown' /\ Payment!ProfilesAsReviewed'
  BY <1>5, <1>b DEF Payment!Abort
<1>4. ASSUME NEW w \in Workers, Payment!Commit(w)
      PROVE  Payment!LinesAsShown' /\ Payment!ProfilesAsReviewed'
  <2>1. call[w].form = form /\ pc[w] = "loaded"
    BY <1>4, Zenon DEF Payment!Commit
  <2>2. /\ call[w].op \in {"decide", "submit"} => Payment!IsEditable(form)
        /\ call[w].op \in {"review", "return"} => form.status = "submitted"
        /\ call[w].op = "decide" => call[w].cleaner \in Cleaners
        /\ call[w] \in Payment!CallRows
    BY <1>0, <2>1 DEF Payment!LoadedWasAccepted, Payment!TypeOK
  <2>3. CASE Payment!Decide(call[w])
    <3>1. form.status \in {"draft", "returned"} /\ UNCHANGED <<form, profile>>
      BY <2>2, <2>3 DEF Payment!Decide, Payment!IsEditable
    <3>2. \A c \in Cleaners : line[c].decision # "approved"
      BY <1>0, <3>1 DEF Payment!ProfilesAsReviewed
    <3>3. \A c \in Cleaners : line'[c].decision # "approved"
      <4>1. call[w].cleaner \in Cleaners /\ call[w].line \in Payment!LineRows
        BY <2>2, <2>3 DEF Payment!Decide, Payment!CallRows
      <4> QED
        BY <1>0, <2>3, <3>2, <4>1, DecidedLine
    <3> QED
      BY <1>0, <3>1, <3>2, <3>3 DEF Payment!LinesAsShown, Payment!ProfilesAsReviewed
  <2>4. CASE Payment!PrepareAgain(call[w])
    <3>1. line' = Payment!Refreshed(form') /\ form' = form /\ profile' = profile
      BY <2>1, <2>4 DEF Payment!PrepareAgain
    <3> QED
      BY <1>c, <3>1
  <2>5. CASE Payment!Submit(call[w])
    <3>1. form.status \in {"draft", "returned"} /\ UNCHANGED <<line, profile>>
      BY <2>2, <2>5 DEF Payment!Submit, Payment!IsEditable
    <3>2. form'.status = "submitted" /\ form'.snapshot = Payment!Snapshot
      BY <2>5 DEF Payment!Submit
    <3>3. Payment!LinesAsShown'
      BY <3>1, <3>2, ShownIsRecorded DEF Payment!LinesAsShown
    <3> QED
      BY <1>0, <3>1, <3>2, <3>3 DEF Payment!ProfilesAsReviewed
  <2>6. CASE Payment!Review(call[w])
    <3>1. form.status = "submitted" /\ form'.status = "reviewed"
          /\ form'.snapshot = form.snapshot
      BY <2>1, <2>2, <2>6 DEF Payment!Review, Payment!CallRows, Payment!Forms
    <3>2. \A c \in Cleaners :
             /\ line'[c].days = line[c].days /\ line'[c].proposed = line[c].proposed
             /\ line[c].proposed # "" =>
                  line'[c].decision = "approved" /\ profile'[c] = line[c].proposed
             /\ line[c].proposed = "" =>
                  line'[c].decision = line[c].decision /\ profile'[c] = profile[c]
      <4> SUFFICES ASSUME NEW c \in Cleaners
                   PROVE  /\ line'[c].days = line[c].days
                          /\ line'[c].proposed = line[c].proposed
                          /\ line[c].proposed # "" =>
                                line'[c].decision = "approved" /\ profile'[c] = line[c].proposed
                          /\ line[c].proposed = "" =>
                                line'[c].decision = line[c].decision /\ profile'[c] = profile[c]
        OBVIOUS
      <4>1. line[c] \in Payment!LineRows
        BY <1>0 DEF Payment!TypeOK
      <4>2. line[c].proposed # "" => c \in Payment!Lines
        BY NothingRecorded DEF Payment!Lines
      <4> QED
        BY <2>6, <4>1, <4>2 DEF Payment!Review, Payment!LineRows
    <3>3. \A c \in Cleaners : line[c].decision # "approved" /\ profile[c] = ""
      BY <1>0, <3>1 DEF Payment!ProfilesAsReviewed
    <3>4. Payment!LinesAsShown'
      BY <1>0, <1>s, <3>1, <3>2 DEF Payment!LinesAsShown, Payment!Lines
    <3> QED
      BY <3>1, <3>2, <3>3, <3>4 DEF Payment!ProfilesAsReviewed
  <2>7. CASE Payment!Return(call[w])
    <3>1. form.status = "submitted" /\ form'.status = "returned" /\ UNCHANGED <<line, profile>>
      BY <2>1, <2>2, <2>7 DEF Payment!Return, Payment!CallRows, Payment!Forms
    <3> QED
      BY <1>0, <3>1 DEF Payment!LinesAsShown, Payment!ProfilesAsReviewed
  <2> QED
    BY <1>4, <2>3, <2>4, <2>5, <2>6, <2>7 DEF Payment!Commit
<1> QED
  BY <1>1, <1>2, <1>3, <1>4, <1>5 DEF Payment!Next, Payment!Step

LEMMA PaymentStep ==
    ASSUME Payment!IInv, [Payment!Next]_(Payment!vars)
    PROVE  Payment!IInv'
<1>1. CASE Payment!Next
  <2>1. Payment!TypeOK'
    BY <1>1, PaymentTypes
  <2>2. Payment!LinesAreKept' /\ Payment!LoadedWasAccepted'
    BY <1>1, <2>1, PaymentKept
  <2>3. ~raced' => Payment!LinesAsShown' /\ Payment!ProfilesAsReviewed'
    BY <1>1, <2>1, PaymentAsShown
  <2> QED
    BY <2>1, <2>2, <2>3 DEF Payment!IInv, Payment!PaidAsSubmitted
<1>2. CASE UNCHANGED Payment!vars
  BY <1>2 DEF Payment!vars, Payment!IInv, Payment!PaidAsSubmitted, Payment!TypeOK,
     Payment!LinesAreKept, Payment!LoadedWasAccepted, Payment!LinesAsShown,
     Payment!ProfilesAsReviewed, Payment!Lines, Payment!IsEditable
<1> QED
  BY <1>1, <1>2

\* What is paid is what HR was shown (remuneration_services.py): the lines of a
\* submitted form are those of its snapshot and a profile holds the contact of
\* a reviewed form only, for any number of cleaners, contacts and requests.
THEOREM PaidAsSubmittedAlways == OfficeSpec => []PaidAsSubmitted
<1>1. OfficeInit => PaidAsSubmitted
  BY PaymentInit DEF OfficeInit, PaidAsSubmitted
<1>2. PaidAsSubmitted /\ [OfficeNext]_officeVars => PaidAsSubmitted'
  <2> SUFFICES ASSUME PaidAsSubmitted, [OfficeNext]_officeVars, part' = "remuneration"
               PROVE  Payment!IInv'
    BY DEF PaidAsSubmitted
  <2>1. part = "remuneration" /\ [Payment!Next]_(Payment!vars)
    BY DEF OfficeNext, officeVars, Payment!vars
  <2> QED
    BY <2>1, PaymentStep DEF PaidAsSubmitted
<1> QED
  BY <1>1, <1>2, PTL DEF OfficeSpec

------------------------------------------------------------------------------
(* Rosters and checklists                                                   *)

LEMMA NoChecklist ==
    /\ Checklists!Absent \in Checklists!Lists
    /\ Checklists!Absent.status = "none"
    /\ Checklists!NoCall \in Checklists!Calls
    /\ "" \in Tables
<1>1. "" \in Tables
  BY RostersAssumption
<1>2. Checklists!Absent \in Checklists!Lists /\ Checklists!Absent.status = "none"
  BY <1>1 DEF Checklists!Absent, Checklists!Lists
<1> QED
  BY <1>1, <1>2 DEF Checklists!NoCall, Checklists!Calls

LEMMA ChecklistsInit == Checklists!Init => Checklists!IInv
<1> SUFFICES ASSUME Checklists!Init PROVE Checklists!IInv
  OBVIOUS
<1>1. Checklists!TypeOK
  BY NoChecklist DEF Checklists!Init, Checklists!TypeOK
<1>2. Checklists!ChecklistsStand
  BY NoChecklist DEF Checklists!Init, Checklists!ChecklistsStand, Checklists!Evidence
<1>3. Checklists!CallsFit
  BY DEF Checklists!Init, Checklists!CallsFit
<1> QED
  BY <1>1, <1>2, <1>3 DEF Checklists!IInv

\* What a call knows stands as long as no entry and no checklist disappears.
LEMMA KnowsStill ==
    ASSUME NEW v \in Workers, call'[v] = call[v],
           \A e \in Entries : entry[e] # "none" => entry'[e] # "none",
           \A e \in Entries, k \in Kinds :
              list[e][k].status # "none" => list'[e][k].status # "none"
    PROVE  /\ Checklists!Loaded(call[v]) => Checklists!Loaded(call[v])'
           /\ Checklists!Ready(call[v]) => Checklists!Ready(call[v])'
<1>1. ASSUME Checklists!Loaded(call[v]) PROVE Checklists!Loaded(call[v])'
  BY <1>1 DEF Checklists!Loaded
<1>2. ASSUME Checklists!Ready(call[v]) PROVE Checklists!Ready(call[v])'
  <2>1. CASE call[v].op \in {"deactivate", "delete"} /\ entry[call[v].entry] # "none"
    BY <1>2, <2>1 DEF Checklists!Ready
  <2>2. CASE /\ call[v].op \in Checklists!ListCalls /\ call[v].kind \in Kinds
             /\ list[call[v].entry][call[v].kind].status # "none"
    <3>1. list'[call[v].entry][call[v].kind].status # "none"
      BY <1>2, <2>2 DEF Checklists!Ready
    <3>2. (call[v].op \in {"save", "submit"} => Checklists!IsEditable(call[v].list))'
      BY <1>2, <2>2 DEF Checklists!Ready, Checklists!ListCalls, Checklists!IsEditable
    <3>3. (call[v].op \in {"reviewed", "returned"} => call[v].list.status = "submitted")'
      BY <1>2, <2>2 DEF Checklists!Ready, Checklists!ListCalls
    <3>4. (call[v].op = "submit" => call[v].list.table # "")'
      BY <1>2, <2>2 DEF Checklists!Ready, Checklists!ListCalls
    <3> QED
      BY <1>2, <2>2, <3>1, <3>2, <3>3, <3>4 DEF Checklists!Ready, Checklists!ListCalls
  <2> QED
    BY <1>2, <2>1, <2>2 DEF Checklists!Ready
<1> QED
  BY <1>1, <1>2

\* A call moves on to c and leaves entries and checklists alone.
LEMMA CallMovesOn ==
    ASSUME Checklists!IInv, NEW w \in Workers, NEW c \in Checklists!Calls,
           NEW stage \in {"idle", "loaded", "ready"},
           stage = "loaded" => Checklists!Loaded(c),
           stage = "ready" => Checklists!Ready(c),
           pc' = [pc EXCEPT ![w] = stage], call' = [call EXCEPT ![w] = c],
           UNCHANGED <<entry, list, raced>>
    PROVE  Checklists!IInv'
<1> USE DEF Checklists!IInv
<1>1. Checklists!TypeOK'
  BY DEF Checklists!TypeOK
<1>2. Checklists!ChecklistsStand'
  BY DEF Checklists!ChecklistsStand, Checklists!Evidence
<1>3. /\ pc'[w] = stage /\ call'[w] = c
      /\ \A v \in Workers \ {w} : pc'[v] = pc[v] /\ call'[v] = call[v]
  BY DEF Checklists!TypeOK
<1>4. /\ Checklists!Loaded(c) => Checklists!Loaded(c)'
      /\ Checklists!Ready(c) => Checklists!Ready(c)'
  BY DEF Checklists!Loaded, Checklists!Ready, Checklists!IsEditable
<1>5. ASSUME NEW v \in Workers \ {w}
      PROVE  /\ Checklists!Loaded(call[v]) => Checklists!Loaded(call[v])'
             /\ Checklists!Ready(call[v]) => Checklists!Ready(call[v])'
  BY <1>3, KnowsStill
<1>6. /\ (pc[w] = "loaded" => Checklists!Loaded(call[w]))'
      /\ (pc[w] = "ready" => Checklists!Ready(call[w]))'
  BY <1>3, <1>4 DEF Checklists!Loaded, Checklists!Ready, Checklists!IsEditable
<1>7. Checklists!CallsFit'
  BY <1>3, <1>5, <1>6 DEF Checklists!CallsFit
<1> QED
  BY <1>1, <1>2, <1>7

\* A call is over that wrote an entry, known before, or a checklist.
LEMMA CallOver ==
    ASSUME Checklists!IInv, NEW w \in Workers,
           pc' = [pc EXCEPT ![w] = "idle"],
           call' = [call EXCEPT ![w] = Checklists!NoCall],
           \A e \in Entries : entry[e] # "none" => entry'[e] # "none",
           \A e \in Entries, k \in Kinds :
              list[e][k].status # "none" => list'[e][k].status # "none"
    PROVE  Checklists!CallsFit'
<1>1. /\ pc'[w] = "idle"
      /\ \A v \in Workers \ {w} : pc'[v] = pc[v] /\ call'[v] = call[v]
  BY DEF Checklists!IInv, Checklists!TypeOK
<1>2. ASSUME NEW v \in Workers \ {w}
      PROVE  /\ Checklists!Loaded(call[v]) => Checklists!Loaded(call[v])'
             /\ Checklists!Ready(call[v]) => Checklists!Ready(call[v])'
  BY <1>1, KnowsStill
<1> QED
  BY <1>1, <1>2 DEF Checklists!IInv, Checklists!CallsFit

LEMMA CallTypes ==
    ASSUME Checklists!IInv, NEW w \in Workers
    PROVE  call[w] \in Checklists!Calls
BY DEF Checklists!IInv, Checklists!TypeOK

LEMMA LoadEntryKeeps ==
    ASSUME Checklists!IInv, NEW w \in Workers, Checklists!LoadEntry(w)
    PROVE  Checklists!IInv'
<1>1. PICK e \in Entries : /\ entry[e] \in {"active", "inactive"}
        /\ \/ \E op \in {"deactivate", "delete"} :
                Checklists!Begin(w, [Checklists!NoCall EXCEPT !.op = op, !.entry = e,
                                                              !.state = entry[e]], "loaded")
           \/ \E s \in {"active", "inactive"} :
                Checklists!Begin(w, [Checklists!NoCall EXCEPT !.op = "update", !.entry = e,
                                                              !.state = s], "loaded")
           \/ \E k \in Kinds, t \in Tables :
                Checklists!Begin(w, [Checklists!NoCall EXCEPT !.op = "save", !.entry = e,
                                                              !.kind = k, !.table = t], "loaded")
  BY Zenon DEF Checklists!LoadEntry
<1>2. ASSUME NEW c, c \in Checklists!Calls, Checklists!Loaded(c), Checklists!Begin(w, c, "loaded")
      PROVE  Checklists!IInv'
  BY <1>2, CallMovesOn DEF Checklists!Begin
<1>3. ASSUME NEW op \in {"deactivate", "delete"},
             Checklists!Begin(w, [Checklists!NoCall EXCEPT !.op = op, !.entry = e,
                                                           !.state = entry[e]], "loaded")
      PROVE  Checklists!IInv'
  <2> DEFINE c == [Checklists!NoCall EXCEPT !.op = op, !.entry = e, !.state = entry[e]]
  <2>1. c \in Checklists!Calls /\ c.op = op /\ c.entry = e
    BY <1>1, NoChecklist DEF Checklists!Calls, Checklists!EntryCalls
  <2> HIDE DEF c
  <2>2. Checklists!Loaded(c)
    BY <1>1, <2>1 DEF Checklists!Loaded, Checklists!EntryCalls
  <2>3. Checklists!Begin(w, c, "loaded")
    BY <1>3, Zenon DEF c
  <2> QED
    BY <1>2, <2>1, <2>2, <2>3
<1>4. ASSUME NEW s \in {"active", "inactive"},
             Checklists!Begin(w, [Checklists!NoCall EXCEPT !.op = "update", !.entry = e,
                                                           !.state = s], "loaded")
      PROVE  Checklists!IInv'
  <2> DEFINE c == [Checklists!NoCall EXCEPT !.op = "update", !.entry = e, !.state = s]
  <2>1. c \in Checklists!Calls /\ c.op = "update" /\ c.entry = e /\ c.state = s
    BY NoChecklist DEF Checklists!Calls, Checklists!EntryCalls
  <2> HIDE DEF c
  <2>2. Checklists!Loaded(c)
    BY <1>1, <2>1 DEF Checklists!Loaded, Checklists!EntryCalls
  <2>3. Checklists!Begin(w, c, "loaded")
    BY <1>4, Zenon DEF c
  <2> QED
    BY <1>2, <2>1, <2>2, <2>3
<1>5. ASSUME NEW k \in Kinds, NEW t \in Tables,
             Checklists!Begin(w, [Checklists!NoCall EXCEPT !.op = "save", !.entry = e,
                                                           !.kind = k, !.table = t], "loaded")
      PROVE  Checklists!IInv'
  <2> DEFINE c == [Checklists!NoCall EXCEPT !.op = "save", !.entry = e, !.kind = k, !.table = t]
  <2>1. c \in Checklists!Calls /\ c.op = "save" /\ c.entry = e /\ c.kind = k
    BY NoChecklist DEF Checklists!Calls, Checklists!EntryCalls
  <2> HIDE DEF c
  <2>2. Checklists!Loaded(c)
    BY <1>1, <2>1 DEF Checklists!Loaded, Checklists!EntryCalls
  <2>3. Checklists!Begin(w, c, "loaded")
    BY <1>5, Zenon DEF c
  <2> QED
    BY <1>2, <2>1, <2>2, <2>3
<1> QED
  BY <1>1, <1>3, <1>4, <1>5

LEMMA LoadListKeeps ==
    ASSUME Checklists!IInv, NEW w \in Workers, Checklists!LoadList(w)
    PROVE  Checklists!IInv'
<1>1. PICK op \in {"submit", "reviewed", "returned"}, e \in Entries, k \in Kinds :
        /\ IF op = "submit"
           THEN Checklists!IsEditable(list[e][k]) /\ list[e][k].table # ""
           ELSE list[e][k].status = "submitted"
        /\ Checklists!Begin(w, [Checklists!NoCall EXCEPT !.op = op, !.entry = e, !.kind = k,
                                                         !.list = list[e][k]], "ready")
  BY Zenon DEF Checklists!LoadList
<1> DEFINE c == [Checklists!NoCall EXCEPT !.op = op, !.entry = e, !.kind = k,
                                          !.list = list[e][k]]
<1>2. list[e][k] \in Checklists!Lists
  BY DEF Checklists!IInv, Checklists!TypeOK
<1>3. c \in Checklists!Calls /\ c.op = op /\ c.entry = e /\ c.kind = k /\ c.list = list[e][k]
  BY <1>2, NoChecklist DEF Checklists!Calls, Checklists!ListCalls
<1> HIDE DEF c
<1>4. Checklists!Ready(c)
  BY <1>1, <1>3 DEF Checklists!Ready, Checklists!ListCalls, Checklists!IsEditable
<1>5. Checklists!Begin(w, c, "ready")
  BY <1>1, Zenon DEF c
<1> QED
  BY <1>3, <1>4, <1>5, CallMovesOn DEF Checklists!Begin

LEMMA LookForEvidenceKeeps ==
    ASSUME Checklists!IInv, NEW w \in Workers, Checklists!LookForEvidence(w)
    PROVE  Checklists!IInv'
<1>1. PICK op \in {"deactivate", "delete"} :
        /\ call' = [call EXCEPT ![w].op = op]
        /\ pc[w] = "loaded" /\ pc' = [pc EXCEPT ![w] = "ready"]
        /\ UNCHANGED <<entry, list, raced>>
  BY DEF Checklists!LookForEvidence
<1> DEFINE c == [call[w] EXCEPT !.op = op]
<1>2. call[w] \in Checklists!Calls /\ Checklists!Loaded(call[w])
  BY <1>1, CallTypes DEF Checklists!IInv, Checklists!CallsFit
<1>3. c \in Checklists!Calls /\ c.op = op /\ c.entry = call[w].entry
  BY <1>2 DEF Checklists!Calls, Checklists!EntryCalls
<1>4. call' = [call EXCEPT ![w] = c]
  BY <1>1
<1> HIDE DEF c
<1>5. Checklists!Ready(c)
  BY <1>2, <1>3 DEF Checklists!Ready, Checklists!Loaded
<1> QED
  BY <1>1, <1>3, <1>4, <1>5, CallMovesOn

LEMMA OpenListKeeps ==
    ASSUME Checklists!IInv, NEW w \in Workers, Checklists!OpenList(w)
    PROVE  Checklists!IInv'
<1> DEFINE l == list[call[w].entry][call[w].kind]
           c == [call[w] EXCEPT !.list = l]
<1>1. /\ pc[w] = "loaded" /\ call[w].op = "save" /\ Checklists!IsEditable(l)
      /\ pc' = [pc EXCEPT ![w] = "ready"]
      /\ call' = [call EXCEPT ![w].list = l]
      /\ UNCHANGED <<entry, list, raced>>
  BY DEF Checklists!OpenList
<1>2. call[w] \in Checklists!Calls /\ call[w].entry \in Entries /\ call[w].kind \in Kinds
  BY <1>1, CallTypes DEF Checklists!IInv, Checklists!CallsFit, Checklists!Loaded
<1>3. l \in Checklists!Lists
  BY <1>2 DEF Checklists!IInv, Checklists!TypeOK
<1>4. c \in Checklists!Calls /\ c.op = "save" /\ c.entry = call[w].entry
      /\ c.kind = call[w].kind /\ c.list = l
  BY <1>1, <1>2, <1>3 DEF Checklists!Calls
<1>5. call' = [call EXCEPT ![w] = c]
  BY <1>1
<1> HIDE DEF c
<1>6. Checklists!Ready(c)
  BY <1>1, <1>2, <1>4 DEF Checklists!Ready, Checklists!ListCalls, Checklists!IsEditable
<1> QED
  BY <1>1, <1>4, <1>5, <1>6, CallMovesOn

LEMMA WriteEntryKeeps ==
    ASSUME Checklists!IInv, NEW w \in Workers, Checklists!WriteEntry(w)
    PROVE  Checklists!IInv'
<1> USE DEF Checklists!IInv
<1> DEFINE c == call[w]
           written == Checklists!EntryWritten(c)
<1>1. /\ \/ pc[w] = "loaded" /\ c.op \in {"update", "deactivate"}
         \/ pc[w] = "ready" /\ c.op \in {"deactivate", "delete"}
      /\ (c.op = "delete" => Checklists!Evidence(c.entry) = {})
      /\ entry' = [entry EXCEPT ![c.entry] = written]
      /\ pc' = [pc EXCEPT ![w] = "idle"]
      /\ call' = [call EXCEPT ![w] = Checklists!NoCall]
      /\ UNCHANGED <<list, raced>>
  BY DEF Checklists!WriteEntry
<1>2. c.entry \in Entries /\ entry[c.entry] # "none"
  BY <1>1 DEF Checklists!CallsFit, Checklists!Loaded, Checklists!Ready, Checklists!ListCalls
<1>3. c.op = "update" => c.state \in {"active", "inactive"}
  BY <1>1 DEF Checklists!CallsFit, Checklists!Loaded
<1>4. entry[c.entry] \in {"active", "inactive", "deleted"}
  BY <1>2 DEF Checklists!TypeOK
<1>5. /\ written \in {"active", "inactive", "deleted"}
      /\ (entry[c.entry] \in {"active", "inactive"} /\ c.op # "delete"
            => written \in {"active", "inactive"})
  BY <1>3, <1>4 DEF Checklists!EntryWritten
<1> HIDE DEF written
<1>6. Checklists!TypeOK'
  BY <1>1, <1>5, NoChecklist DEF Checklists!TypeOK
<1>7. entry'[c.entry] = written /\ \A e \in Entries \ {c.entry} : entry'[e] = entry[e]
  BY <1>1, <1>2 DEF Checklists!TypeOK
<1>8. Checklists!ChecklistsStand'
  BY <1>1, <1>5, <1>7 DEF Checklists!ChecklistsStand, Checklists!Evidence
<1>9. Checklists!CallsFit'
  <2>1. \A e \in Entries : entry[e] # "none" => entry'[e] # "none"
    BY <1>5, <1>7
  <2> QED
    BY <1>1, <1>6, <2>1, CallOver DEF Checklists!TypeOK
<1> QED
  BY <1>6, <1>8, <1>9

LEMMA InsertListKeeps ==
    ASSUME Checklists!IInv, NEW w \in Workers, Checklists!InsertList(w)
    PROVE  Checklists!IInv'
<1> USE DEF Checklists!IInv
<1> DEFINE c == call[w]
           new == [status |-> "draft", table |-> c.table, snapshot |-> ""]
<1>1. /\ pc[w] = "loaded" /\ c.op = "save" /\ entry[c.entry] # "deleted"
      /\ list' = [list EXCEPT ![c.entry][c.kind] = new]
      /\ pc' = [pc EXCEPT ![w] = "idle"]
      /\ call' = [call EXCEPT ![w] = Checklists!NoCall]
      /\ UNCHANGED <<entry, raced>>
  BY DEF Checklists!InsertList
<1>2. c \in Checklists!Calls /\ c.entry \in Entries /\ c.kind \in Kinds /\ entry[c.entry] # "none"
  BY <1>1, CallTypes DEF Checklists!CallsFit, Checklists!Loaded
<1>3. new \in Checklists!Lists /\ new.status = "draft"
  BY <1>2, NoChecklist DEF Checklists!Calls, Checklists!Lists
<1> HIDE DEF new
<1>4. Checklists!TypeOK'
  BY <1>1, <1>2, <1>3, NoChecklist DEF Checklists!TypeOK
<1>5. /\ list'[c.entry][c.kind] = new
      /\ \A e \in Entries, k \in Kinds :
            (e # c.entry \/ k # c.kind) => list'[e][k] = list[e][k]
  BY <1>1, <1>2 DEF Checklists!TypeOK
<1>6. Checklists!ChecklistsStand'
  <2>1. ~raced' => \A e \in Entries, k \in Kinds :
          list'[e][k].status \in {"submitted", "reviewed"} =>
              list'[e][k].table # "" /\ list'[e][k].snapshot = list'[e][k].table
    <3> SUFFICES ASSUME ~raced', NEW e \in Entries, NEW k \in Kinds,
                        list'[e][k].status \in {"submitted", "reviewed"}
                 PROVE  list'[e][k].table # "" /\ list'[e][k].snapshot = list'[e][k].table
      OBVIOUS
    <3>1. e # c.entry \/ k # c.kind
      BY <1>3, <1>5
    <3>2. list'[e][k] = list[e][k] /\ ~raced
      BY <1>1, <1>5, <3>1
    <3> QED
      BY <3>2 DEF Checklists!ChecklistsStand
  <2>2. ASSUME NEW e \in Entries, Checklists!Evidence(e)' # {}
        PROVE  entry'[e] \in {"active", "inactive"}
    <3>1. CASE e = c.entry
      BY <1>1, <1>2, <3>1 DEF Checklists!TypeOK
    <3>2. CASE e # c.entry
      BY <1>1, <1>5, <2>2, <3>2 DEF Checklists!Evidence, Checklists!ChecklistsStand
    <3> QED
      BY <3>1, <3>2
  <2> QED
    BY <2>1, <2>2 DEF Checklists!ChecklistsStand
<1>7. Checklists!CallsFit'
  <2>1. \A e \in Entries, k \in Kinds : list[e][k].status # "none" => list'[e][k].status # "none"
    BY <1>3, <1>5
  <2> QED
    BY <1>1, <1>4, <2>1, CallOver DEF Checklists!TypeOK
<1> QED
  BY <1>4, <1>6, <1>7

\* What a submission or a review writes of a checklist that nobody changed.
LEMMA WrittenList ==
    ASSUME NEW c \in Checklists!Calls, NEW current \in Checklists!Lists,
           c.op \in Checklists!ListCalls,
           current.status # "none",
           c.op \in {"save", "submit"} => Checklists!IsEditable(c.list),
           c.op = "submit" => c.list.table # "",
           c.op \in {"reviewed", "returned"} => c.list.status = "submitted"
    PROVE  LET l == Checklists!ListWritten(c, current) IN
           /\ l \in Checklists!Lists /\ l.status # "none"
           /\ (c.list = current /\ l.status \in {"submitted", "reviewed"}
               /\ (current.status = "submitted" =>
                     current.table # "" /\ current.snapshot = current.table))
              => l.table # "" /\ l.snapshot = l.table
<1> DEFINE l == Checklists!ListWritten(c, current)
<1>1. CASE c.op = "save"
  <2>1. l = [current EXCEPT !.table = c.table]
    BY <1>1 DEF Checklists!ListWritten
  <2> QED
    BY <1>1, <2>1 DEF Checklists!Lists, Checklists!Calls, Checklists!IsEditable
<1>2. CASE c.op = "submit"
  <2>1. l = [c.list EXCEPT !.status = "submitted", !.snapshot = c.list.table]
    BY <1>2 DEF Checklists!ListWritten
  <2>2. c.list \in Checklists!Lists
    BY DEF Checklists!Calls
  <2> QED
    BY <1>2, <2>1, <2>2 DEF Checklists!Lists
<1>3. CASE c.op \in {"reviewed", "returned"}
  <2>1. l = [c.list EXCEPT !.status = c.op]
    BY <1>3 DEF Checklists!ListWritten
  <2>2. c.list \in Checklists!Lists
    BY DEF Checklists!Calls
  <2> QED
    BY <1>3, <2>1, <2>2 DEF Checklists!Lists
<1> QED
  BY <1>1, <1>2, <1>3 DEF Checklists!ListCalls

LEMMA WriteListKeeps ==
    ASSUME Checklists!IInv, NEW w \in Workers, Checklists!WriteList(w)
    PROVE  Checklists!IInv'
<1> USE DEF Checklists!IInv
<1> DEFINE c == call[w]
           current == list[c.entry][c.kind]
           l == Checklists!ListWritten(c, current)
<1>1. /\ pc[w] = "ready" /\ c.op \in {"save", "submit", "reviewed", "returned"}
      /\ list' = [list EXCEPT ![c.entry][c.kind] = Checklists!ListWritten(c, @)]
      /\ pc' = [pc EXCEPT ![w] = "idle"]
      /\ call' = [call EXCEPT ![w] = Checklists!NoCall]
      /\ UNCHANGED entry
  BY DEF Checklists!WriteList
<1>2. raced' \in BOOLEAN
  BY Zenon DEF Checklists!WriteList
<1>3. ~raced' => ~raced /\ c.list = current
  BY Zenon DEF Checklists!WriteList
<1>4. c \in Checklists!Calls /\ Checklists!Ready(c)
  BY <1>1, CallTypes DEF Checklists!CallsFit
<1>5. /\ c.entry \in Entries /\ c.kind \in Kinds
      /\ c.op \in Checklists!ListCalls /\ current.status # "none"
      /\ (c.op \in {"save", "submit"} => Checklists!IsEditable(c.list))
      /\ (c.op = "submit" => c.list.table # "")
      /\ (c.op \in {"reviewed", "returned"} => c.list.status = "submitted")
  BY <1>1, <1>4 DEF Checklists!Ready, Checklists!ListCalls
<1>6. current \in Checklists!Lists
  BY <1>5 DEF Checklists!TypeOK
<1>7. /\ l \in Checklists!Lists /\ l.status # "none"
      /\ (c.list = current /\ l.status \in {"submitted", "reviewed"}
          /\ (current.status = "submitted" =>
                current.table # "" /\ current.snapshot = current.table))
         => l.table # "" /\ l.snapshot = l.table
  BY <1>4, <1>5, <1>6, WrittenList
<1>8. /\ list' \in [Entries -> [Kinds -> Checklists!Lists]]
      /\ list'[c.entry][c.kind] = l
      /\ \A e \in Entries, k \in Kinds :
            (e # c.entry \/ k # c.kind) => list'[e][k] = list[e][k]
  BY <1>1, <1>5, <1>7 DEF Checklists!TypeOK
<1> HIDE DEF l
<1>9. Checklists!TypeOK'
  BY <1>1, <1>2, <1>8, NoChecklist DEF Checklists!TypeOK
<1>10. Checklists!ChecklistsStand'
  <2>1. ASSUME ~raced', NEW e \in Entries, NEW k \in Kinds,
               list'[e][k].status \in {"submitted", "reviewed"}
        PROVE  list'[e][k].table # "" /\ list'[e][k].snapshot = list'[e][k].table
    <3>1. CASE e = c.entry /\ k = c.kind
      BY <1>3, <1>5, <1>7, <1>8, <2>1, <3>1 DEF Checklists!ChecklistsStand
    <3>2. CASE e # c.entry \/ k # c.kind
      BY <1>3, <1>8, <2>1, <3>2 DEF Checklists!ChecklistsStand
    <3> QED
      BY <3>1, <3>2
  <2>2. ASSUME NEW e \in Entries, Checklists!Evidence(e)' # {}
        PROVE  Checklists!Evidence(e) # {}
    BY <1>5, <1>8, <2>2, NoChecklist DEF Checklists!Evidence
  <2> QED
    BY <1>1, <2>1, <2>2 DEF Checklists!ChecklistsStand
<1>11. Checklists!CallsFit'
  <2>1. \A e \in Entries, k \in Kinds : list[e][k].status # "none" => list'[e][k].status # "none"
    BY <1>7, <1>8
  <2> QED
    BY <1>1, <1>9, <2>1, CallOver DEF Checklists!TypeOK
<1> QED
  BY <1>9, <1>10, <1>11

LEMMA ChecklistsKept ==
    ASSUME Checklists!IInv, [Checklists!Next]_Checklists!vars
    PROVE  Checklists!IInv'
<1>1. CASE UNCHANGED Checklists!vars
  <2>1. Checklists!TypeOK' /\ Checklists!ChecklistsStand'
    BY <1>1 DEF Checklists!vars, Checklists!IInv, Checklists!TypeOK, Checklists!ChecklistsStand,
                Checklists!Evidence
  <2>2. ASSUME NEW v \in Workers
        PROVE  /\ Checklists!Loaded(call[v]) => Checklists!Loaded(call[v])'
               /\ Checklists!Ready(call[v]) => Checklists!Ready(call[v])'
    BY <1>1, KnowsStill DEF Checklists!vars
  <2> QED
    BY <1>1, <2>1, <2>2 DEF Checklists!vars, Checklists!IInv, Checklists!CallsFit
<1>2. CASE Checklists!Create
  <2>0. PICK n \in Entries : /\ entry[n] = "none"
                             /\ entry' = [entry EXCEPT ![n] = "active"]
                             /\ UNCHANGED <<list, pc, call, raced>>
    BY <1>2 DEF Checklists!Create
  <2>1. Checklists!TypeOK' /\ Checklists!ChecklistsStand'
    <3>1. Checklists!TypeOK'
      BY <2>0 DEF Checklists!IInv, Checklists!TypeOK
    <3>2. \A e \in Entries \ {n} : entry'[e] = entry[e]
      BY <2>0 DEF Checklists!IInv, Checklists!TypeOK
    <3>3. entry'[n] = "active"
      BY <2>0 DEF Checklists!IInv, Checklists!TypeOK
    <3>4. Checklists!ChecklistsStand'
      BY <2>0, <3>2, <3>3 DEF Checklists!IInv, Checklists!ChecklistsStand, Checklists!Evidence
    <3> QED
      BY <3>1, <3>4
  <2>2. \A e \in Entries : entry[e] # "none" => entry'[e] # "none"
    BY <1>2 DEF Checklists!Create, Checklists!IInv, Checklists!TypeOK
  <2>3. ASSUME NEW v \in Workers
        PROVE  /\ Checklists!Loaded(call[v]) => Checklists!Loaded(call[v])'
               /\ Checklists!Ready(call[v]) => Checklists!Ready(call[v])'
    BY <1>2, <2>2, KnowsStill DEF Checklists!Create
  <2> QED
    BY <1>2, <2>1, <2>3 DEF Checklists!Create, Checklists!IInv, Checklists!CallsFit
<1>3. ASSUME NEW w \in Workers, Checklists!Abort(w) PROVE Checklists!IInv'
  BY <1>3, NoChecklist, CallMovesOn DEF Checklists!Abort
<1>4. ASSUME NEW w \in Workers, Checklists!Step(w) PROVE Checklists!IInv'
  BY <1>3, <1>4, LoadEntryKeeps, LoadListKeeps, LookForEvidenceKeeps, OpenListKeeps,
     WriteEntryKeeps, InsertListKeeps, WriteListKeeps DEF Checklists!Step
<1> QED
  BY <1>1, <1>2, <1>4 DEF Checklists!Next

\* ChecklistsStand in every reachable state: what was submitted or reviewed has
\* entries and is what its snapshot holds, unless a call wrote over a checklist
\* that had changed; and no entry with a checklist is deleted, in any order of
\* saves, removals and updates.
THEOREM ChecklistsAlwaysStand == OfficeSpec => []ChecklistsStand
<1>1. OfficeInit => ChecklistsStand
  BY ChecklistsInit DEF OfficeInit, ChecklistsStand
<1>2. ChecklistsStand /\ [OfficeNext]_officeVars => ChecklistsStand'
  BY ChecklistsKept DEF OfficeNext, officeVars, ChecklistsStand, Checklists!vars
<1> QED
  BY <1>1, <1>2, PTL DEF OfficeSpec

------------------------------------------------------------------------------
(* Messaging                                                                *)

LEMMA MessagesCounted == \A S : Messages!Cardinality(S) = Cardinality(S)
BY Zenon DEF Messages!Cardinality, Cardinality

LEMMA MessageBounds == MaxMessages \in Nat /\ Limit \in Nat
BY MessagingAssumption

\* A page has a first and a last message.
LEMMA FirstAndLast ==
    ASSUME NEW S, S \subseteq Messages!Ids, S # {}
    PROVE  /\ Messages!Min(S) \in S /\ \A m \in S : Messages!Min(S) <= m
           /\ Messages!Max(S) \in S /\ \A m \in S : m <= Messages!Max(S)
<1> DEFINE Ids == 1 .. MaxMessages
<1>0. S \subseteq Ids /\ IsFiniteSet(Ids) /\ MaxMessages \in Nat
  BY MessageBounds, FS_Interval DEF Messages!Ids
<1>1. \E x \in S : \A y \in S : x <= y
  <2> DEFINE C == {1 .. n : n \in S}
  <2>0. \A n \in S : 1 .. n \in SUBSET Ids
    BY <1>0
  <2>1. C \subseteq SUBSET Ids /\ C # {}
    <3> HIDE DEF Ids
    <3> QED
      BY <2>0
  <2>2. PICK T \in C : \A U \in C : U \subseteq T => U = T
    <3> HIDE DEF C, Ids
    <3> QED
      BY <1>0, <2>1, MinimalSet
  <2>3. PICK x \in S : T = 1 .. x
    OBVIOUS
  <2>4. ASSUME NEW y \in S, y < x PROVE FALSE
    <3>1. 1 .. y \subseteq 1 .. x /\ x \in 1 .. x /\ x \notin 1 .. y
      BY <1>0, <2>4
    <3> QED
      BY <2>2, <2>3, <3>1
  <2> QED
    BY <1>0, <2>4
<1>2. \E x \in S : \A y \in S : x >= y
  <2> DEFINE C == {n .. MaxMessages : n \in S}
  <2>0. \A n \in S : n .. MaxMessages \in SUBSET Ids
    BY <1>0
  <2>1. C \subseteq SUBSET Ids /\ C # {}
    <3> HIDE DEF Ids
    <3> QED
      BY <2>0
  <2>2. PICK T \in C : \A U \in C : U \subseteq T => U = T
    <3> HIDE DEF C, Ids
    <3> QED
      BY <1>0, <2>1, MinimalSet
  <2>3. PICK x \in S : T = x .. MaxMessages
    OBVIOUS
  <2>4. ASSUME NEW y \in S, y > x PROVE FALSE
    <3>1. /\ y .. MaxMessages \subseteq x .. MaxMessages
          /\ x \in x .. MaxMessages /\ x \notin y .. MaxMessages
      BY <1>0, <2>4
    <3> QED
      BY <2>2, <2>3, <3>1
  <2> QED
    BY <1>0, <2>4
<1>3. Messages!Min(S) \in S /\ \A m \in S : Messages!Min(S) <= m
  BY <1>1 DEF Messages!Min
<1>4. Messages!Max(S) \in S /\ \A m \in S : Messages!Max(S) >= m
  BY <1>2 DEF Messages!Max
<1> QED
  BY <1>0, <1>3, <1>4

\* A page leaves out no message between its first and its last.
LEMMA PageIsGapless ==
    ASSUME Messages!IInv, Messages!Page # {}
    PROVE  /\ Messages!Page \subseteq visible
           /\ Messages!Page \subseteq Messages!Ids
           /\ after = 0 => \A m \in visible :
                 Messages!Min(Messages!Page) <= m => m \in Messages!Page
           /\ after # 0 => \A m \in visible :
                 after < m /\ m <= Messages!Max(Messages!Page) => m \in Messages!Page
<1> USE DEF Messages!IInv
<1> DEFINE new == {m \in visible : m > after}
           P == Messages!Page
<1>0. /\ visible \subseteq Nat \ {0} /\ IsFiniteSet(new) /\ after \in Nat
      /\ visible \subseteq Messages!Ids
  <2>1. visible \subseteq 1 .. MaxMessages /\ IsFiniteSet(1 .. MaxMessages)
    BY MessageBounds, FS_Interval DEF Messages!TypeOK, Messages!Ids
  <2>2. visible \subseteq Nat \ {0} /\ visible \subseteq Messages!Ids /\ after \in Nat
    BY <2>1, MessageBounds DEF Messages!TypeOK, Messages!Ids
  <2>3. new \subseteq 1 .. MaxMessages
    BY <2>1
  <2>4. IsFiniteSet(new)
    <3> HIDE DEF new
    <3> QED
      BY <2>1, <2>3, FS_Subset
  <2> QED
    BY <2>2, <2>4
<1>1. P = IF after = 0
          THEN {m \in new : Messages!Cardinality({n \in new : n > m}) < Limit}
          ELSE {m \in new : Messages!Cardinality({n \in new : n < m}) < Limit}
  BY DEF Messages!Page
<1>2. P \subseteq visible /\ P \subseteq Messages!Ids
  BY <1>0, <1>1
<1>3. ASSUME NEW A \in SUBSET new, NEW B \in SUBSET new, B \subseteq A,
             Messages!Cardinality(A) < Limit
      PROVE  Messages!Cardinality(B) < Limit
  <2>1. IsFiniteSet(A) /\ Cardinality(A) \in Nat /\ Cardinality(B) \in Nat
    BY <1>0, FS_Subset, FS_CardinalityType
  <2>2. Cardinality(B) <= Cardinality(A)
    BY <1>3, <2>1, FS_Subset
  <2> QED
    BY <1>3, <2>1, <2>2, MessagesCounted, MessageBounds
<1>4. ASSUME after = 0, NEW m \in visible, Messages!Min(P) <= m
      PROVE  m \in P
  <2> DEFINE p == Messages!Min(P)
  <2>1. p \in P
    BY <1>2, FirstAndLast
  <2>5. p <= m
    BY <1>4
  <2> HIDE DEF p, P
  <2>2. p \in new /\ Messages!Cardinality({n \in new : n > p}) < Limit
    BY <1>1, <1>4, <2>1
  <2>3. m \in new /\ p <= m /\ p \in Nat /\ m \in Nat
    BY <1>0, <1>4, <2>2, <2>5
  <2>6. \A n \in new : n \in Nat /\ (n > m => n > p)
    BY <1>0, <2>3
  <2>4. {n \in new : n > m} \subseteq {n \in new : n > p}
    <3> HIDE DEF new
    <3> QED
      BY <2>6
  <2>7. Messages!Cardinality({n \in new : n > m}) < Limit
    BY <1>3, <2>2, <2>4
  <2> QED
    BY <1>1, <1>4, <2>3, <2>7
<1>5. ASSUME after # 0, NEW m \in visible, after < m, m <= Messages!Max(P)
      PROVE  m \in P
  <2> DEFINE p == Messages!Max(P)
  <2>1. p \in P
    BY <1>2, FirstAndLast
  <2>5. m <= p
    BY <1>5
  <2> HIDE DEF p, P
  <2>2. p \in new /\ Messages!Cardinality({n \in new : n < p}) < Limit
    BY <1>1, <1>5, <2>1
  <2>3. m \in new /\ m <= p /\ p \in Nat /\ m \in Nat
    BY <1>0, <1>5, <2>2, <2>5
  <2>6. \A n \in new : n \in Nat /\ (n < m => n < p)
    BY <1>0, <2>3
  <2>4. {n \in new : n < m} \subseteq {n \in new : n < p}
    <3> HIDE DEF new
    <3> QED
      BY <2>6
  <2>7. Messages!Cardinality({n \in new : n < m}) < Limit
    BY <1>3, <2>2, <2>4
  <2> QED
    BY <1>1, <1>5, <2>3, <2>7
<1> QED
  BY <1>2, <1>4, <1>5

LEMMA MessagingInit == Messages!Init => Messages!IInv
<1> SUFFICES ASSUME Messages!Init PROVE Messages!IInv
  OBVIOUS
<1>1. 0 \in 0 .. MaxMessages
  BY MessageBounds
<1>2. Messages!TypeOK
  BY <1>1 DEF Messages!Init, Messages!TypeOK
<1> QED
  BY <1>2 DEF Messages!Init, Messages!IInv, Messages!MessagesArrive, Messages!MessagesExist

LEMMA PollKeeps ==
    ASSUME Messages!IInv, Messages!Poll PROVE Messages!IInv'
<1> USE DEF Messages!IInv
<1> DEFINE P == Messages!Page
<1>1. /\ P # {}
      /\ fetched' = fetched \cup P
      /\ after' = Messages!Max(P)
      /\ opened' = IF after = 0 THEN Messages!Min(P) ELSE opened
      /\ UNCHANGED <<conversations, inserted, visible, lastMessage, announced, late, pc, call>>
  BY DEF Messages!Poll
<1>2. P \subseteq visible /\ P \subseteq Messages!Ids
  BY <1>1, PageIsGapless
<1>3. Messages!Min(P) \in P /\ Messages!Max(P) \in P
  BY <1>1, <1>2, FirstAndLast
<1>4. /\ after = 0 => \A m \in visible : Messages!Min(P) <= m => m \in P
      /\ after # 0 => \A m \in visible : after < m /\ m <= Messages!Max(P) => m \in P
  BY <1>1, PageIsGapless
<1> HIDE DEF P
<1>5. P \subseteq 0 .. MaxMessages
  BY <1>2, MessageBounds DEF Messages!Ids
<1>6. Messages!TypeOK'
  BY <1>1, <1>2, <1>3, <1>5 DEF Messages!TypeOK, Messages!Ids
<1>7. Messages!MessagesExist'
  BY <1>1, <1>2, <1>3 DEF Messages!MessagesExist
<1>8. Messages!MessagesArrive'
  <2> SUFFICES ASSUME NEW m \in visible, opened' <= m, m <= after'
               PROVE  m \in fetched' \cup late'
    BY <1>1 DEF Messages!MessagesArrive
  <2>1. m \in Nat /\ after \in Nat
    BY MessageBounds DEF Messages!TypeOK, Messages!Ids
  <2>2. CASE after = 0
    BY <1>1, <1>4, <2>2
  <2>3. CASE after # 0 /\ after < m
    BY <1>1, <1>4, <2>3
  <2>4. CASE after # 0 /\ m <= after
    BY <1>1, <2>4 DEF Messages!MessagesArrive
  <2> QED
    BY <2>1, <2>2, <2>3, <2>4
<1> QED
  BY <1>6, <1>7, <1>8

LEMMA MessagingTypes ==
    ASSUME Messages!IInv, NEW w \in Workers, Messages!Step(w)
    PROVE  Messages!TypeOK'
<1> USE MessageBounds DEF Messages!IInv, Messages!TypeOK, Messages!readerVars
<1>1. CASE Messages!LookUp(w)
  BY <1>1 DEF Messages!LookUp, Messages!Ids
<1>2. CASE Messages!CreateConversation(w)
  BY <1>2 DEF Messages!CreateConversation, Messages!Ids
<1>3. CASE Messages!Insert(w)
  <2>1. inserted' \in 0 .. MaxMessages
    BY <1>3 DEF Messages!Insert
  <2> QED
    BY <1>3, <2>1 DEF Messages!Insert, Messages!Ids
<1>4. CASE Messages!Commit(w)
  <2>0. pc[w] = "inserted"
    BY <1>4 DEF Messages!Commit
  <2>1. call[w] \in Messages!Ids /\ call[w] \in 0 .. MaxMessages
    BY <2>0 DEF Messages!MessagesExist, Messages!Ids
  <2> QED
    BY <1>4, <2>1 DEF Messages!Commit, Messages!Ids
<1>5. CASE Messages!Announce(w)
  <2>1. call[w] \in Messages!Ids /\ 0 \in 0 .. MaxMessages
    BY <1>5 DEF Messages!Announce, Messages!MessagesExist
  <2> QED
    BY <1>5, <2>1 DEF Messages!Announce, Messages!Ids
<1>6. CASE Messages!Attach(w)
  <2>1. PICK m \in visible : call' = [call EXCEPT ![w] = m] /\ lastMessage' = inserted
    BY <1>6 DEF Messages!Attach
  <2>2. m \in 0 .. MaxMessages
    BY <2>1 DEF Messages!Ids
  <2> QED
    BY <1>6, <2>1, <2>2 DEF Messages!Attach, Messages!Ids
<1>7. CASE Messages!Abort(w)
  <2>1. 0 \in 0 .. MaxMessages
    OBVIOUS
  <2> QED
    BY <1>7, <2>1 DEF Messages!Abort, Messages!Ids
<1> QED
  BY <1>1, <1>2, <1>3, <1>4, <1>5, <1>6, <1>7 DEF Messages!Step

LEMMA MessagingStep ==
    ASSUME Messages!IInv, NEW w \in Workers, Messages!Step(w)
    PROVE  Messages!MessagesArrive' /\ Messages!MessagesExist'
<1> USE DEF Messages!IInv, Messages!MessagesArrive, Messages!MessagesExist, Messages!readerVars
<1>0. /\ visible \subseteq Nat \ {0} /\ after \in Nat /\ opened \in Nat /\ inserted \in Nat
      /\ pc \in [Workers -> {"idle", "missing", "inserted", "committed"}]
      /\ call \in [Workers -> 0 .. MaxMessages]
  BY MessageBounds DEF Messages!TypeOK, Messages!Ids
<1>1. CASE Messages!LookUp(w)
  BY <1>0, <1>1 DEF Messages!LookUp
<1>2. CASE Messages!CreateConversation(w)
  BY <1>0, <1>2 DEF Messages!CreateConversation, Messages!Created
<1>3. CASE Messages!Insert(w)
  <2>1. /\ inserted' = inserted + 1 /\ 1 .. inserted \subseteq 1 .. inserted'
        /\ inserted' \in 1 .. inserted'
    BY <1>0, <1>3 DEF Messages!Insert
  <2> QED
    BY <1>0, <1>3, <2>1 DEF Messages!Insert
<1>4. CASE Messages!Commit(w)
  <2>0. pc[w] = "inserted" /\ call[w] \in 1 .. inserted
    <3>1. pc[w] = "inserted"
      BY <1>4 DEF Messages!Commit
    <3> QED
      BY <3>1
  <2>1. /\ visible' = visible \cup {call[w]}
        /\ late' = IF call[w] < after THEN late \cup {call[w]} ELSE late
        /\ pc' = [pc EXCEPT ![w] = "committed"]
        /\ UNCHANGED <<conversations, inserted, announced, call, after, opened, fetched>>
    BY <1>4 DEF Messages!Commit
  <2>2. Messages!MessagesExist'
    BY <1>0, <2>0, <2>1
  <2>3. ASSUME NEW m \in visible', opened <= m, m <= after
        PROVE  m \in fetched \cup late'
    <3>1. CASE m \in visible
      BY <2>1, <2>3, <3>1
    <3>2. CASE m \notin visible
      <4>1. m = call[w]
        BY <2>1, <2>3, <3>2
      <4>2. m \in Nat /\ m # after
        BY <1>0, <2>0, <3>2, <4>1
      <4> QED
        BY <1>0, <2>1, <2>3, <4>1, <4>2
    <3> QED
      BY <3>1, <3>2
  <2> QED
    BY <2>1, <2>2, <2>3
<1>5. CASE Messages!Announce(w)
  BY <1>0, <1>5 DEF Messages!Announce
<1>6. CASE Messages!Attach(w)
  BY <1>0, <1>6 DEF Messages!Attach
<1>7. CASE Messages!Abort(w)
  BY <1>0, <1>7 DEF Messages!Abort
<1> QED
  BY <1>1, <1>2, <1>3, <1>4, <1>5, <1>6, <1>7 DEF Messages!Step

LEMMA MessagingKept ==
    ASSUME Messages!IInv, [Messages!Next]_Messages!vars
    PROVE  Messages!IInv'
<1>1. CASE UNCHANGED Messages!vars
  BY <1>1 DEF Messages!vars, Messages!IInv, Messages!TypeOK, Messages!MessagesArrive,
              Messages!MessagesExist, Messages!Ids
<1>2. ASSUME NEW w \in Workers, Messages!Step(w) PROVE Messages!IInv'
  BY <1>2, MessagingTypes, MessagingStep DEF Messages!IInv
<1> QED
  BY <1>1, <1>2, PollKeeps DEF Messages!Next

\* MessagesArrive in every reachable state: one conversation at most, events of
\* committed messages only, and no gap in what a polling client has had, but for
\* messages that were committed behind the last one it was given.
THEOREM MessagesAlwaysArrive == OfficeSpec => []MessagesArrive
<1>1. OfficeInit => MessagesArrive
  BY MessagingInit DEF OfficeInit, MessagesArrive
<1>2. MessagesArrive /\ [OfficeNext]_officeVars => MessagesArrive'
  BY MessagingKept DEF OfficeNext, officeVars, MessagesArrive, Messages!vars
<1> QED
  BY <1>1, <1>2, PTL DEF OfficeSpec

------------------------------------------------------------------------------
(* Accounts                                                                 *)

LEMMA AccountsInit == People!Init => People!IInv
<1> SUFFICES ASSUME People!Init PROVE People!IInv
  OBVIOUS
<1>1. People!AccountsOK
  BY AccountsAssumption
     DEF People!Init, People!AccountsOK, People!TypeOK, People!Users, People!Roles,
         People!Stages, People!Issued, People!ActiveAdmins
<1> QED
  BY <1>1 DEF People!Init, People!IInv, People!CallsFitStages, People!LoadedIsCurrent,
              People!Current, People!RevokedAreAll, People!LoadedStages

LEMMA RacedAgain == ASSUME NEW w, People!Saved(w) PROVE raced' \in BOOLEAN
BY Zenon DEF People!Saved

\* The requests of the other workers, and what they go by, when w takes a step
\* that saves no account.
LEMMA AccountsTypes ==
    ASSUME People!IInv, NEW w \in Workers, People!Step(w)
    PROVE  People!TypeOK' /\ People!CallsFitStages'
<1> USE AccountsAssumption
    DEF People!IInv, People!AccountsOK, People!TypeOK, People!CallsFitStages, People!Stages,
        People!LoadedStages, People!LoadedCalls, People!RevokedCalls, People!LoginCalls,
        People!Operations, People!Roles, People!Done, People!Become, People!users,
        People!tokens, People!history, People!NoCall, People!Issued
<1>1. CASE People!Load(w)
  BY <1>1 DEF People!Load, People!ActiveAdmins
<1>2. CASE People!Check(w)
  BY <1>2 DEF People!Check
<1>3. CASE People!Update(w)
  <2> USE <1>3 DEF People!Update, People!Saved, People!Others
  <2>1. call[w] \in People!LoadedCalls
    OBVIOUS
  <2>2. role' \in [People!Users -> People!Roles]
    BY <2>1 DEF People!Field
  <2>3. active' \in [People!Users -> BOOLEAN]
    BY <2>1 DEF People!Field
  <2>4. raced' \in BOOLEAN
    BY <1>3, RacedAgain
  <2>5. acted' \subseteq People!Users /\ kept' \subseteq People!Users
    BY <2>1
  <2>6. People!TypeOK'
    BY <2>1, <2>2, <2>3, <2>4, <2>5
  <2>7. People!CallsFitStages'
    BY <2>1
  <2> QED
    BY <2>6, <2>7
<1>4. CASE People!Revoke(w)
  BY <1>4 DEF People!Revoke, People!Revoked, People!TokensOf
<1>5. CASE People!Disable(w)
  <2> USE <1>5 DEF People!Disable, People!Saved, People!Others
  <2>1. call[w] \in People!RevokedCalls
    OBVIOUS
  <2>2. active' \in [People!Users -> BOOLEAN]
    BY <2>1 DEF People!Field
  <2>3. raced' \in BOOLEAN
    BY <1>5, RacedAgain
  <2>4. /\ live' \subseteq live /\ UNCHANGED owner
        /\ acted' \subseteq People!Users /\ kept' \subseteq People!Users
    BY <2>1
  <2>5. /\ pc' = [pc EXCEPT ![w] = "idle"]
        /\ call' = [call EXCEPT ![w] = People!NoCall]
        /\ overtaken' \subseteq Workers
    BY <2>1
  <2>6. People!TypeOK'
    <3>1. /\ role' \in [People!Users -> People!Roles]
          /\ deleted' \subseteq People!Users /\ late' \subseteq Tokens
      OBVIOUS
    <3>2. /\ owner' \in [Tokens -> People!Users \cup {"none"}]
          /\ live' \subseteq People!Issued'
      BY <2>4
    <3>3. /\ pc' \in [Workers -> People!Stages]
          /\ call' \in [Workers -> People!LoadedCalls \cup People!RevokedCalls
                                   \cup People!LoginCalls \cup {People!NoCall}]
      BY <2>5
    <3> QED
      BY <2>2, <2>3, <2>4, <2>5, <3>1, <3>2, <3>3, Zenon DEF People!TypeOK
  <2>7. People!CallsFitStages'
    BY <2>5
  <2> QED
    BY <2>6, <2>7
<1>6. CASE People!Delete(w)
  BY <1>6 DEF People!Delete, People!Saved, People!Others
<1>7. CASE People!Reset(w)
  BY <1>7 DEF People!Reset
<1>8. CASE People!Authenticate(w)
  BY <1>8 DEF People!Authenticate, People!Authenticated
<1>9. CASE People!Issue(w)
  BY <1>9 DEF People!Issue, People!Users
<1>10. CASE People!Abort(w)
  BY <1>10 DEF People!Abort
<1> QED
  BY <1>1, <1>2, <1>3, <1>4, <1>5, <1>6, <1>7, <1>8, <1>9, <1>10 DEF People!Step

\* After an account is saved, the requests that were under way are overtaken.
LEMMA AccountsSaved ==
    ASSUME People!TypeOK, NEW w \in Workers, People!Saved(w), People!Done(w)
    PROVE  People!LoadedIsCurrent'
<1>1. \A v \in Workers \ overtaken' : pc'[v] = "idle"
  BY DEF People!TypeOK, People!Saved, People!Done, People!Become, People!Others
<1> QED
  BY <1>1 DEF People!LoadedIsCurrent, People!Current, People!LoadedStages

LEMMA AccountsCurrent ==
    ASSUME People!IInv, NEW w \in Workers, People!Step(w)
    PROVE  People!LoadedIsCurrent'
<1> USE DEF People!IInv, People!AccountsOK
<1>1. CASE People!Update(w) \/ People!Disable(w) \/ People!Delete(w)
  BY <1>1, AccountsSaved DEF People!Update, People!Disable, People!Delete
<1>2. ASSUME \A v \in Workers \ {w} : pc'[v] = pc[v] /\ call'[v] = call[v],
             UNCHANGED <<role, active, deleted>>,
             overtaken \ {w} \subseteq overtaken',
             w \notin overtaken' => People!Current(w)'
      PROVE  People!LoadedIsCurrent'
  <2> SUFFICES ASSUME NEW v \in Workers \ overtaken', v # w
               PROVE  People!Current(v)'
    BY <1>2 DEF People!LoadedIsCurrent
  <2>1. People!Current(v) /\ pc'[v] = pc[v] /\ call'[v] = call[v]
    BY <1>2 DEF People!LoadedIsCurrent, People!TypeOK
  <2> QED
    BY <1>2, <2>1 DEF People!Current, People!ActiveAdmins, People!Protected
<1>0. /\ pc \in [Workers -> People!Stages]
      /\ call \in [Workers -> People!LoadedCalls \cup People!RevokedCalls
                               \cup People!LoginCalls \cup {People!NoCall}]
  BY DEF People!TypeOK
<1> USE DEF People!Done, People!Become, People!users, People!tokens, People!history
<1>3. CASE People!Load(w)
  <2>1. PICK actor \in People!ActiveAdmins, u \in People!Users \ deleted, op \in People!Operations,
             newRole \in People!Roles, newActive \in BOOLEAN :
          /\ op # "update" => newRole = role[u] /\ newActive = active[u]
          /\ u = actor => op \notin {"disable", "delete"} /\ newActive
          /\ call' = [call EXCEPT ![w] =
                        [op |-> op, actor |-> actor, target |-> u,
                         role |-> role[u], active |-> active[u],
                         newRole |-> newRole, newActive |-> newActive]]
    BY <1>3, Zenon DEF People!Load
  <2>2. /\ pc' = [pc EXCEPT ![w] = "loaded"] /\ overtaken' = overtaken \ {w}
        /\ UNCHANGED <<role, active, deleted>>
    BY <1>3 DEF People!Load
  <2>3. People!Current(w)'
    BY <1>0, <2>1, <2>2 DEF People!ActiveAdmins, People!Current, People!LoadedStages
  <2> QED
    BY <1>0, <1>2, <2>1, <2>2, <2>3
<1>4. CASE People!Check(w)
  <2>1. PICK stage \in People!LoadedStages :
          /\ pc' = [pc EXCEPT ![w] = stage]
          /\ stage = "updating" /\ call[w].op = "update" => People!Protected(call[w])
    BY <1>4 DEF People!Check, People!LoadedStages
  <2>2. pc[w] = "loaded" /\ UNCHANGED <<role, active, deleted, call, overtaken>>
    BY <1>4 DEF People!Check
  <2>3. w \notin overtaken' => People!Current(w)'
    BY <1>0, <2>1, <2>2 DEF People!ActiveAdmins, People!Protected, People!LoadedIsCurrent,
          People!Current, People!LoadedStages
  <2> QED
    BY <1>0, <1>2, <2>1, <2>2, <2>3
<1>5. CASE People!Revoke(w)
  <2>1. w \notin overtaken' => People!Current(w)'
    BY <1>0, <1>5 DEF People!Revoke, People!CallsFitStages, People!ActiveAdmins,
          People!LoadedIsCurrent, People!Current, People!LoadedStages, People!LoadedCalls
  <2> QED
    BY <1>0, <1>2, <1>5, <2>1 DEF People!Revoke
<1>6. CASE People!Reset(w)
  BY <1>0, <1>2, <1>6 DEF People!Current, People!LoadedStages, People!Reset
<1>7. CASE People!Authenticate(w)
  <2>1. PICK u : call' = [call EXCEPT ![w] = [op |-> "login", target |-> u]]
    BY <1>7 DEF People!Authenticate
  <2> QED
    BY <1>0, <1>2, <1>7, <2>1 DEF People!Current, People!LoadedStages, People!Authenticate
<1>8. CASE People!Issue(w)
  BY <1>0, <1>2, <1>8 DEF People!Current, People!LoadedStages, People!Issue
<1>9. CASE People!Abort(w)
  BY <1>0, <1>2, <1>9 DEF People!Current, People!LoadedStages, People!Abort
<1> QED
  BY <1>1, <1>3, <1>4, <1>5, <1>6, <1>7, <1>8, <1>9 DEF People!Step

\* The other tokens of a user that is being disabled.
LEMMA AccountsRevoked ==
    ASSUME People!IInv, NEW w \in Workers, People!Step(w)
    PROVE  People!RevokedAreAll'
<1> USE DEF People!IInv, People!AccountsOK, People!RevokedAreAll, People!TypeOK,
            People!Done, People!Become, People!users, People!tokens, People!history,
            People!TokensOf
<1>1. CASE People!Load(w)
  BY <1>1 DEF People!Load
<1>2. CASE People!Check(w)
  BY <1>2 DEF People!Check
<1>3. CASE People!Update(w)
  BY <1>3 DEF People!Update, People!Saved
<1>4. CASE People!Revoke(w)
  BY <1>4 DEF People!Revoke, People!Revoked
<1>5. CASE People!Disable(w)
  BY <1>5 DEF People!Disable, People!Saved
<1>6. CASE People!Delete(w)
  BY <1>6 DEF People!Delete, People!Saved
<1>7. CASE People!Reset(w)
  BY <1>7 DEF People!Reset
<1>8. CASE People!Authenticate(w)
  BY <1>8 DEF People!Authenticate
<1>9. CASE People!Issue(w)
  BY <1>9 DEF People!Issue, People!Disabling
<1>10. CASE People!Abort(w)
  BY <1>10 DEF People!Abort
<1> QED
  BY <1>1, <1>2, <1>3, <1>4, <1>5, <1>6, <1>7, <1>8, <1>9, <1>10 DEF People!Step

\* Usable tokens, and the last administrator.
LEMMA AccountsStand ==
    ASSUME People!IInv, NEW w \in Workers, People!Step(w)
    PROVE  /\ \A t \in live' \ late' : active'[owner'[t]] \/ owner'[t] \in kept'
           /\ raced' \/ People!ActiveAdmins' # {}
<1> USE DEF People!IInv, People!AccountsOK, People!TypeOK, People!Done, People!Become,
            People!users, People!tokens, People!history, People!Issued
<1>1. CASE People!Update(w)
  <2> USE <1>1 DEF People!Update, People!Field
  <2> DEFINE c == call[w]
             u == c.target
  <2>1. c \in People!LoadedCalls /\ c.op \in {"update", "activate"}
    BY DEF People!CallsFitStages, People!LoadedStages
  <2>2. u \in People!Users
    BY <2>1 DEF People!LoadedCalls
  <2>3. \A t \in live' \ late' : active'[owner'[t]] \/ owner'[t] \in kept'
    BY <2>2
  <2>4. ASSUME ~raced'
        PROVE  People!ActiveAdmins' # {}
    <3>1. ~raced /\ w \notin overtaken
      BY <2>4 DEF People!Saved
    <3>2. /\ role[u] = c.role /\ active[u] = c.active
          /\ c.op = "activate" => c.newRole = c.role
          /\ c.op = "update" => People!Protected(c)
      BY <2>1, <3>1 DEF People!LoadedIsCurrent, People!Current, People!LoadedStages
    <3>3. People!ActiveAdmins # {}
      BY <3>1
    <3>4. CASE u \in People!ActiveAdmins /\ ~(role'[u] = "admin" /\ active'[u])
      <4>1. c.op = "update" /\ c.role = "admin" /\ (c.newRole # "admin" \/ ~c.newActive)
        BY <2>1, <2>2, <3>2, <3>4 DEF People!ActiveAdmins, People!LoadedCalls
      <4>2. PICK a \in People!ActiveAdmins : a # u
        BY <3>2, <4>1 DEF People!Protected
      <4> QED
        BY <2>2, <4>2 DEF People!ActiveAdmins
    <3>5. CASE ~(u \in People!ActiveAdmins /\ ~(role'[u] = "admin" /\ active'[u]))
      BY <2>2, <3>3, <3>5 DEF People!ActiveAdmins
    <3> QED
      BY <3>4, <3>5
  <2> QED
    BY <2>3, <2>4
<1>2. CASE People!Disable(w)
  <2> DEFINE c == call[w]
             u == c.target
  <2>1. c \in People!RevokedCalls
    BY <1>2 DEF People!CallsFitStages, People!Disable
  <2>2. \A t \in live' \ late' : active'[owner'[t]] \/ owner'[t] \in kept'
    BY <1>2, <2>1 DEF People!Disable, People!RevokedCalls, People!RevokedAreAll, People!TokensOf
  <2>3. ASSUME ~raced'
        PROVE  c.actor \in People!ActiveAdmins'
    BY <1>2, <2>1, <2>3
       DEF People!Disable, People!Saved, People!RevokedCalls, People!LoadedIsCurrent,
           People!Current, People!ActiveAdmins
  <2> QED
    BY <2>2, <2>3
<1>3. CASE People!Delete(w)
  <2> DEFINE c == call[w]
             u == c.target
  <2>1. c \in People!LoadedCalls /\ c.op = "delete"
    BY <1>3 DEF People!CallsFitStages, People!LoadedStages, People!Delete
  <2>2. \A t \in live' \ late' : active'[owner'[t]] \/ owner'[t] \in kept'
    BY <1>3 DEF People!Delete
  <2>3. ASSUME ~raced'
        PROVE  c.actor \in People!ActiveAdmins'
    BY <1>3, <2>1, <2>3
       DEF People!Delete, People!Saved, People!LoadedIsCurrent, People!Current,
           People!ActiveAdmins, People!LoadedStages
  <2> QED
    BY <2>2, <2>3
<1> USE DEF People!ActiveAdmins
<1>4. CASE People!Load(w)
  BY <1>4 DEF People!Load
<1>5. CASE People!Check(w)
  BY <1>5 DEF People!Check
<1>6. CASE People!Revoke(w)
  BY <1>6 DEF People!Revoke
<1>7. CASE People!Reset(w)
  BY <1>7 DEF People!Reset
<1>8. CASE People!Authenticate(w)
  BY <1>8 DEF People!Authenticate
<1>9. CASE People!Issue(w)
  BY <1>9 DEF People!Issue
<1>10. CASE People!Abort(w)
  BY <1>10 DEF People!Abort
<1> QED
  BY <1>1, <1>2, <1>3, <1>4, <1>5, <1>6, <1>7, <1>8, <1>9, <1>10 DEF People!Step

LEMMA AccountsKept ==
    ASSUME People!IInv, [People!Next]_People!vars
    PROVE  People!IInv'
<1> USE DEF People!IInv, People!AccountsOK
<1>1. CASE UNCHANGED People!vars
  BY <1>1 DEF People!vars, People!users, People!tokens, People!history, People!TypeOK,
              People!CallsFitStages, People!LoadedIsCurrent, People!Current, People!RevokedAreAll,
              People!Issued, People!ActiveAdmins, People!TokensOf, People!Protected
<1>2. CASE People!Logout
  BY <1>2 DEF People!Logout, People!history, People!TypeOK,
              People!CallsFitStages, People!LoadedIsCurrent, People!Current, People!RevokedAreAll,
              People!Issued, People!ActiveAdmins, People!TokensOf, People!Protected
<1>3. ASSUME NEW w \in Workers, People!Step(w)
      PROVE  People!IInv'
  BY <1>3, AccountsTypes, AccountsCurrent, AccountsRevoked, AccountsStand
<1> QED
  BY <1>1, <1>2, <1>3 DEF People!Next

\* AccountsOK in every reachable state (accounts/services.py, tokens.py): the
\* tokens of a disabled account are revoked, but for those it was issued
\* meanwhile and for a plain update that deactivates it, and an active
\* administrator remains, unless requests overtook each other.
THEOREM AccountsStaySound == OfficeSpec => []AccountsOK
<1>1. OfficeInit => AccountsOK
  BY AccountsInit DEF OfficeInit, AccountsOK
<1>2. AccountsOK /\ [OfficeNext]_officeVars => AccountsOK'
  BY AccountsKept
     DEF OfficeNext, officeVars, AccountsOK, People!vars, People!users, People!tokens,
         People!history
<1> QED
  BY <1>1, <1>2, PTL DEF OfficeSpec

------------------------------------------------------------------------------
(* Caches                                                                   *)

LEMMA CacheBounds ==
    /\ MaxVersion \in Nat /\ MaxRequests \in Nat /\ Limit \in Nat
    /\ Kept!Versions \subseteq Nat \ {0} /\ 1 \in Kept!Versions
<1>1. MaxVersion \in Nat /\ MaxRequests \in Nat /\ Limit \in Nat
  BY CachesAssumption
<1> QED
  BY <1>1 DEF Kept!Versions

\* What a worker has computed, invalidated or counted, apart from the others.
LEMMA CacheCalls ==
    ASSUME Kept!TypeOK, NEW w \in Workers, NEW stage, NEW c,
           pc' = [pc EXCEPT ![w] = stage], call' = [call EXCEPT ![w] = c]
    PROVE  /\ pc'[w] = stage /\ call'[w] = c
           /\ \A v \in Workers \ {w} : pc'[v] = pc[v] /\ call'[v] = call[v]
BY DEF Kept!TypeOK

LEMMA CachesInit == Kept!Init => Kept!IInv
<1> SUFFICES ASSUME Kept!Init PROVE Kept!IInv
  OBVIOUS
<1>1. Kept!TypeOK
  <2>1. 0 \in Nat /\ 0 \in 0 .. MaxRequests /\ FALSE \in BOOLEAN
    BY CacheBounds
  <2>2. /\ data \in [Kept!Sources -> Kept!Versions]
        /\ cached \in [Kept!Keys -> Kept!Versions \cup {0}]
    BY CacheBounds DEF Kept!Init
  <2> QED
    BY <2>1, <2>2 DEF Kept!Init, Kept!TypeOK
<1>2. Kept!CachesOK
  BY CacheBounds DEF Kept!Init, Kept!CachesOK, Kept!Keys
<1>3. Kept!CallsHold
  BY DEF Kept!Init, Kept!CallsHold
<1>4. Kept!ServedAreCounted
  BY DEF Kept!Init, Kept!ServedAreCounted
<1> QED
  BY <1>1, <1>2, <1>3, <1>4 DEF Kept!IInv

LEMMA ComputeKeeps ==
    ASSUME Kept!IInv, NEW w \in Workers, Kept!Compute(w)
    PROVE  Kept!IInv'
<1> USE DEF Kept!IInv
<1>1. PICK k \in Kept!Keys :
        Kept!Begin(w, "computed", [op |-> "read", key |-> k, value |-> data[Kept!Source(k)]])
  BY DEF Kept!Compute
<1> DEFINE c == [op |-> "read", key |-> k, value |-> data[Kept!Source(k)]]
<1>2. /\ UNCHANGED <<data, cached, crossed, count, requests, served, overlapped>>
      /\ pc' = [pc EXCEPT ![w] = "computed"] /\ call' = [call EXCEPT ![w] = c]
      /\ outdated' = outdated \ {w}
  BY <1>1 DEF Kept!Compute, Kept!Begin, Kept!cacheVars, Kept!throttleVars
<1>3. data[Kept!Source(k)] \in Kept!Versions
  BY DEF Kept!TypeOK, Kept!Source, Kept!Sources
<1>4. c \in Kept!Reads /\ c.value = data[Kept!Source(c.key)]
  BY <1>3 DEF Kept!Reads
<1> HIDE DEF c
<1>5. Kept!TypeOK'
  BY <1>2, <1>4 DEF Kept!TypeOK, Kept!Versions, Kept!Reads, Kept!Writes, Kept!Requests,
                    Kept!Keys, Kept!Sources, Kept!NoCall
<1>6. Kept!CachesOK' /\ Kept!ServedAreCounted'
  BY <1>2 DEF Kept!CachesOK, Kept!ServedAreCounted
<1>7. /\ pc'[w] = "computed" /\ call'[w] = c
      /\ \A v \in Workers \ {w} : pc'[v] = pc[v] /\ call'[v] = call[v]
  BY <1>2, CacheCalls
<1>8. Kept!CallsHold'
  BY <1>2, <1>4, <1>7
     DEF Kept!CallsHold, Kept!Source, Kept!Invalidated, Kept!Allows, Kept!Reads, Kept!Writes,
         Kept!Requests, Kept!Versions, Kept!Keys, Kept!Sources
<1> QED
  BY <1>5, <1>6, <1>8

LEMMA StoreKeeps ==
    ASSUME Kept!IInv, NEW w \in Workers, Kept!Store(w)
    PROVE  Kept!IInv'
<1> USE DEF Kept!IInv
<1> DEFINE k == call[w].key
<1>1. /\ pc[w] = "computed"
      /\ cached' = [cached EXCEPT ![k] = call[w].value]
      /\ crossed' = IF w \in outdated \/ Kept!Writing(Kept!Source(k)) # {}
                    THEN crossed \cup {k} ELSE crossed
      /\ pc' = [pc EXCEPT ![w] = "idle"] /\ call' = [call EXCEPT ![w] = Kept!NoCall]
      /\ UNCHANGED <<data, outdated, count, requests, served, overlapped>>
  BY DEF Kept!Store, Kept!Done, Kept!throttleVars
<1>2. /\ k \in Kept!Keys /\ call[w].value \in Kept!Versions
      /\ w \notin outdated => call[w].value = data[Kept!Source(k)]
  BY <1>1 DEF Kept!CallsHold, Kept!Reads
<1>3. Kept!TypeOK'
  BY <1>1, <1>2 DEF Kept!TypeOK, Kept!Versions, Kept!Reads, Kept!Writes, Kept!Requests,
                    Kept!Keys, Kept!Sources, Kept!NoCall
<1>4. cached'[k] = call[w].value /\ \A j \in Kept!Keys \ {k} : cached'[j] = cached[j]
  BY <1>1, <1>2 DEF Kept!TypeOK
<1>5. /\ pc'[w] = "idle"
      /\ \A v \in Workers \ {w} : pc'[v] = pc[v] /\ call'[v] = call[v]
  BY <1>1, CacheCalls
<1>6. Kept!CachesOK'
  BY <1>1, <1>2, <1>4 DEF Kept!CachesOK, Kept!Source, Kept!Keys
<1>7. Kept!ServedAreCounted'
  BY <1>1 DEF Kept!ServedAreCounted
<1>8. Kept!CallsHold'
  <2> SUFFICES ASSUME NEW v \in Workers \ {w}, pc[v] = "invalidated",
                      NEW j \in Kept!Invalidated(call[v].source) \ crossed'
               PROVE  cached'[j] = 0
    BY <1>1, <1>5
       DEF Kept!CallsHold, Kept!Source, Kept!Invalidated, Kept!Allows, Kept!Reads, Kept!Writes,
           Kept!Requests, Kept!Versions, Kept!Keys, Kept!Sources
  <2>1. j \notin crossed /\ cached[j] = 0
    BY <1>1 DEF Kept!CallsHold
  <2>2. j \in Kept!Keys /\ call[v].source = Kept!Source(j)
    BY DEF Kept!Invalidated, Kept!Keys, Kept!Source
  <2>3. j # k
    BY <1>1, <2>2 DEF Kept!Writing
  <2> QED
    BY <1>4, <2>1, <2>2, <2>3
<1> QED
  BY <1>3, <1>6, <1>7, <1>8

LEMMA WriteKeeps ==
    ASSUME Kept!IInv, NEW w \in Workers, Kept!Write(w)
    PROVE  Kept!IInv'
<1> USE DEF Kept!IInv
<1>1. PICK s \in Kept!Sources :
        /\ Kept!Begin(w, "invalidated", [op |-> "write", source |-> s])
        /\ cached' = [j \in Kept!Keys |-> IF j \in Kept!Invalidated(s) THEN 0 ELSE cached[j]]
        /\ crossed' = crossed \ Kept!Invalidated(s)
  BY DEF Kept!Write
<1> DEFINE c == [op |-> "write", source |-> s]
<1>2. /\ UNCHANGED <<data, count, requests, served, overlapped>>
      /\ pc' = [pc EXCEPT ![w] = "invalidated"] /\ call' = [call EXCEPT ![w] = c]
      /\ outdated' = outdated \ {w}
  BY <1>1 DEF Kept!Write, Kept!Begin, Kept!throttleVars
<1>3. c \in Kept!Writes /\ c.source = s
  BY DEF Kept!Writes
<1> HIDE DEF c
<1>4. Kept!TypeOK'
  BY <1>1, <1>2, <1>3 DEF Kept!TypeOK, Kept!Versions, Kept!Reads, Kept!Writes, Kept!Requests,
                    Kept!Keys, Kept!Sources, Kept!NoCall
<1>5. /\ pc'[w] = "invalidated" /\ call'[w] = c
      /\ \A v \in Workers \ {w} : pc'[v] = pc[v] /\ call'[v] = call[v]
  BY <1>2, CacheCalls
<1>6. \A j \in Kept!Keys : /\ j \in Kept!Invalidated(s) => cached'[j] = 0
                           /\ j \notin Kept!Invalidated(s) => cached'[j] = cached[j]
  BY <1>1
<1>7. Kept!CachesOK'
  BY <1>1, <1>2, <1>6 DEF Kept!CachesOK, Kept!Keys
<1>8. Kept!ServedAreCounted'
  BY <1>2 DEF Kept!ServedAreCounted
<1>9. \A v \in Workers : \A j \in Kept!Invalidated(call'[v].source) : j \in Kept!Keys
  BY DEF Kept!Invalidated, Kept!Keys
<1>10. ASSUME NEW v \in Workers, pc'[v] = "invalidated",
              NEW j \in Kept!Invalidated(call'[v].source) \ crossed'
       PROVE  cached'[j] = 0
  <2>1. j \in Kept!Keys
    BY <1>9
  <2>2. CASE j \in Kept!Invalidated(s)
    BY <1>6, <2>1, <2>2
  <2>3. CASE j \notin Kept!Invalidated(s)
    <3>1. v # w /\ j \notin crossed
      BY <1>1, <1>3, <1>5, <2>3
    <3> QED
      BY <1>5, <1>6, <1>10, <2>1, <2>3, <3>1 DEF Kept!CallsHold
  <2> QED
    BY <2>2, <2>3
<1>11. Kept!CallsHold'
  BY <1>2, <1>3, <1>5, <1>10
     DEF Kept!CallsHold, Kept!Source, Kept!Invalidated, Kept!Allows, Kept!Reads, Kept!Writes,
         Kept!Requests, Kept!Versions, Kept!Keys, Kept!Sources
<1> QED
  BY <1>4, <1>7, <1>8, <1>11

LEMMA CacheCommitKeeps ==
    ASSUME Kept!IInv, NEW w \in Workers, Kept!Commit(w)
    PROVE  Kept!IInv'
<1> USE DEF Kept!IInv
<1> DEFINE s == call[w].source
<1>1. /\ pc[w] = "invalidated" /\ data[s] < MaxVersion
      /\ data' = [data EXCEPT ![s] = @ + 1]
      /\ outdated' = outdated \cup
           {v \in Workers : pc[v] = "computed" /\ Kept!Source(call[v].key) = s}
      /\ pc' = [pc EXCEPT ![w] = "idle"] /\ call' = [call EXCEPT ![w] = Kept!NoCall]
      /\ UNCHANGED <<cached, crossed, count, requests, served, overlapped>>
  BY DEF Kept!Commit, Kept!Done, Kept!throttleVars
<1>2. /\ s \in Kept!Sources
      /\ \A j \in Kept!Invalidated(s) \ crossed : cached[j] = 0
  BY <1>1 DEF Kept!CallsHold, Kept!Writes
<1>3. data[s] + 1 \in Kept!Versions
  BY <1>1, <1>2, CacheBounds DEF Kept!TypeOK, Kept!Versions
<1>4. Kept!TypeOK'
  BY <1>1, <1>2, <1>3 DEF Kept!TypeOK, Kept!Versions, Kept!Reads, Kept!Writes, Kept!Requests,
                    Kept!Keys, Kept!Sources, Kept!NoCall
<1>5. \A r \in Kept!Sources \ {s} : data'[r] = data[r]
  BY <1>1, <1>2 DEF Kept!TypeOK
<1>6. /\ pc'[w] = "idle"
      /\ \A v \in Workers \ {w} : pc'[v] = pc[v] /\ call'[v] = call[v]
  BY <1>1, CacheCalls
<1>7. Kept!CachesOK'
  <2>1. CASE s = "site"
    BY <1>1, <1>2, <2>1 DEF Kept!CachesOK, Kept!Invalidated
  <2>2. CASE s # "site"
    BY <1>1, <1>5, <2>2 DEF Kept!CachesOK, Kept!Sources
  <2> QED
    BY <2>1, <2>2
<1>8. Kept!ServedAreCounted'
  BY <1>1 DEF Kept!ServedAreCounted
<1>9. Kept!CallsHold'
  <2> SUFFICES ASSUME NEW v \in Workers \ {w}, pc[v] = "computed", v \notin outdated'
               PROVE  call[v].value = data'[Kept!Source(call[v].key)]
    BY <1>1, <1>6
       DEF Kept!CallsHold, Kept!Source, Kept!Invalidated, Kept!Allows, Kept!Reads, Kept!Writes,
           Kept!Requests, Kept!Versions, Kept!Keys, Kept!Sources
  <2>1. Kept!Source(call[v].key) # s /\ v \notin outdated
    BY <1>1
  <2>2. Kept!Source(call[v].key) \in Kept!Sources
    BY DEF Kept!Source, Kept!Sources
  <2> QED
    BY <1>5, <2>1, <2>2 DEF Kept!CallsHold
<1> QED
  BY <1>4, <1>7, <1>8, <1>9

LEMMA ExpireKeeps ==
    ASSUME Kept!IInv, Kept!Expire PROVE Kept!IInv'
<1> USE DEF Kept!IInv
<1>1. PICK k \in Kept!Keys : cached' = [cached EXCEPT ![k] = 0] /\ crossed' = crossed \ {k}
  BY DEF Kept!Expire
<1>2. UNCHANGED <<data, pc, call, outdated, count, requests, served, overlapped>>
  BY DEF Kept!Expire, Kept!throttleVars
<1>3. cached'[k] = 0 /\ \A j \in Kept!Keys \ {k} : cached'[j] = cached[j]
  BY <1>1 DEF Kept!TypeOK
<1>4. Kept!TypeOK'
  BY <1>1, <1>2 DEF Kept!TypeOK, Kept!Versions, Kept!Reads, Kept!Writes, Kept!Requests,
                    Kept!Keys, Kept!Sources, Kept!NoCall
<1>5. Kept!CachesOK' /\ Kept!ServedAreCounted'
  BY <1>1, <1>2, <1>3 DEF Kept!CachesOK, Kept!ServedAreCounted, Kept!Keys
<1>6. ASSUME NEW v \in Workers, pc[v] = "invalidated",
             NEW j \in Kept!Invalidated(call[v].source) \ crossed'
      PROVE  cached'[j] = 0
  <2>1. j \in Kept!Keys
    BY DEF Kept!Invalidated, Kept!Keys
  <2> QED
    BY <1>1, <1>3, <1>6, <2>1 DEF Kept!CallsHold
<1>7. Kept!CallsHold'
  BY <1>2, <1>6
     DEF Kept!CallsHold, Kept!Source, Kept!Invalidated, Kept!Allows, Kept!Reads, Kept!Writes,
         Kept!Requests, Kept!Versions, Kept!Keys, Kept!Sources
<1> QED
  BY <1>4, <1>5, <1>7

LEMMA CountKeeps ==
    ASSUME Kept!IInv, NEW w \in Workers, Kept!Count(w)
    PROVE  Kept!IInv'
<1> USE DEF Kept!IInv
<1>1. /\ UNCHANGED <<data, cached, crossed, count, served, overlapped>>
      /\ requests < MaxRequests /\ requests' = requests + 1
  BY DEF Kept!Count, Kept!cacheVars
<1>2. requests' \in 0 .. MaxRequests
  BY <1>1, CacheBounds DEF Kept!TypeOK
<1>3. Kept!CachesOK' /\ Kept!ServedAreCounted'
  BY <1>1 DEF Kept!CachesOK, Kept!ServedAreCounted
<1>4. CASE UNCHANGED <<pc, call, outdated>>
  <2>1. Kept!TypeOK'
    BY <1>1, <1>2, <1>4 DEF Kept!TypeOK, Kept!Versions, Kept!Reads, Kept!Writes, Kept!Requests,
                    Kept!Keys, Kept!Sources, Kept!NoCall
  <2>2. Kept!CallsHold'
    BY <1>1, <1>4
       DEF Kept!CallsHold, Kept!Source, Kept!Invalidated, Kept!Allows, Kept!Reads, Kept!Writes,
           Kept!Requests, Kept!Versions, Kept!Keys, Kept!Sources
  <2> QED
    BY <1>3, <2>1, <2>2
<1> DEFINE c == [op |-> "request", count |-> count]
<1>5. CASE Kept!Allows(count) /\ Kept!Begin(w, "counted", c)
  <2>1. /\ pc' = [pc EXCEPT ![w] = "counted"] /\ call' = [call EXCEPT ![w] = c]
        /\ outdated' = outdated \ {w}
    BY <1>5 DEF Kept!Begin
  <2>2. c \in Kept!Requests /\ c.count = count
    BY DEF Kept!Requests, Kept!TypeOK
  <2> HIDE DEF c
  <2>3. Kept!TypeOK'
    BY <1>1, <1>2, <2>1, <2>2 DEF Kept!TypeOK, Kept!Versions, Kept!Reads, Kept!Writes,
                    Kept!Requests, Kept!Keys, Kept!Sources, Kept!NoCall
  <2>4. /\ pc'[w] = "counted" /\ call'[w] = c
        /\ \A v \in Workers \ {w} : pc'[v] = pc[v] /\ call'[v] = call[v]
    BY <2>1, CacheCalls
  <2>5. Kept!CallsHold'
    BY <1>1, <1>5, <2>1, <2>2, <2>4
       DEF Kept!CallsHold, Kept!Source, Kept!Invalidated, Kept!Allows, Kept!Reads, Kept!Writes,
           Kept!Requests, Kept!Versions, Kept!Keys, Kept!Sources
  <2> QED
    BY <1>3, <2>3, <2>5
<1> QED
  BY <1>4, <1>5 DEF Kept!Count

LEMMA ServeKeeps ==
    ASSUME Kept!IInv, NEW w \in Workers, Kept!Serve(w)
    PROVE  Kept!IInv'
<1> USE DEF Kept!IInv
<1>1. /\ pc[w] = "counted"
      /\ count' = call[w].count + 1 /\ served' = served + 1
      /\ outdated' = outdated \cup {v \in Workers \ {w} : pc[v] = "counted"}
      /\ pc' = [pc EXCEPT ![w] = "idle"] /\ call' = [call EXCEPT ![w] = Kept!NoCall]
      /\ UNCHANGED <<data, cached, crossed, requests>>
  BY DEF Kept!Serve, Kept!Done, Kept!cacheVars
<1>2. overlapped' \in BOOLEAN
  BY Zenon DEF Kept!Serve
<1>3. ~overlapped' => ~overlapped /\ w \notin outdated
  BY Zenon DEF Kept!Serve
<1>4. /\ call[w].count \in Nat /\ call[w].count < Limit
      /\ w \notin outdated => call[w].count = count
  BY <1>1 DEF Kept!CallsHold, Kept!Requests, Kept!Allows
<1>5. Kept!TypeOK'
  BY <1>1, <1>2, <1>4 DEF Kept!TypeOK, Kept!Versions, Kept!Reads, Kept!Writes, Kept!Requests,
                    Kept!Keys, Kept!Sources, Kept!NoCall
<1>6. Kept!ServedAreCounted'
  BY <1>1, <1>3, <1>4 DEF Kept!ServedAreCounted
<1>7. ~overlapped' => served' <= Limit
  BY <1>1, <1>3, <1>4, CacheBounds DEF Kept!ServedAreCounted, Kept!TypeOK
<1>8. Kept!CachesOK'
  BY <1>1, <1>7 DEF Kept!CachesOK
<1>9. /\ pc'[w] = "idle"
      /\ \A v \in Workers \ {w} : pc'[v] = pc[v] /\ call'[v] = call[v]
  BY <1>1, CacheCalls
<1>10. Kept!CallsHold'
  BY <1>1, <1>9
     DEF Kept!CallsHold, Kept!Source, Kept!Invalidated, Kept!Allows, Kept!Reads, Kept!Writes,
         Kept!Requests, Kept!Versions, Kept!Keys, Kept!Sources
<1> QED
  BY <1>5, <1>6, <1>8, <1>10

LEMMA CacheAbortKeeps ==
    ASSUME Kept!IInv, NEW w \in Workers, Kept!Abort(w)
    PROVE  Kept!IInv'
<1> USE DEF Kept!IInv
<1>1. /\ pc' = [pc EXCEPT ![w] = "idle"] /\ call' = [call EXCEPT ![w] = Kept!NoCall]
      /\ UNCHANGED <<data, cached, crossed, count, requests, served, overlapped, outdated>>
  BY DEF Kept!Abort, Kept!Done, Kept!cacheVars, Kept!throttleVars
<1>2. Kept!TypeOK'
  BY <1>1 DEF Kept!TypeOK, Kept!Versions, Kept!Reads, Kept!Writes, Kept!Requests,
                    Kept!Keys, Kept!Sources, Kept!NoCall
<1>3. Kept!CachesOK' /\ Kept!ServedAreCounted'
  BY <1>1 DEF Kept!CachesOK, Kept!ServedAreCounted
<1>4. /\ pc'[w] = "idle"
      /\ \A v \in Workers \ {w} : pc'[v] = pc[v] /\ call'[v] = call[v]
  BY <1>1, CacheCalls
<1>5. Kept!CallsHold'
  BY <1>1, <1>4
     DEF Kept!CallsHold, Kept!Source, Kept!Invalidated, Kept!Allows, Kept!Reads, Kept!Writes,
         Kept!Requests, Kept!Versions, Kept!Keys, Kept!Sources
<1> QED
  BY <1>2, <1>3, <1>5

LEMMA CachesKept ==
    ASSUME Kept!IInv, [Kept!Next]_Kept!vars
    PROVE  Kept!IInv'
<1>1. CASE UNCHANGED Kept!vars
  BY <1>1 DEF Kept!vars, Kept!IInv, Kept!TypeOK, Kept!CachesOK, Kept!ServedAreCounted,
              Kept!CallsHold, Kept!Source, Kept!Invalidated, Kept!Allows, Kept!Reads,
              Kept!Writes, Kept!Requests, Kept!Versions, Kept!Keys, Kept!Sources, Kept!NoCall
<1>2. ASSUME NEW w \in Workers, Kept!Step(w) PROVE Kept!IInv'
  BY <1>2, ComputeKeeps, StoreKeeps, WriteKeeps, CacheCommitKeeps, CountKeeps, ServeKeeps,
     CacheAbortKeeps DEF Kept!Step
<1> QED
  BY <1>1, <1>2, ExpireKeeps DEF Kept!Next

\* CachesOK in every reachable state: the cache holds of a site what is
\* committed or nothing, unless a read and a write of it crossed, and a client
\* is served no more requests in a minute than its limit, unless two overlapped.
THEOREM CachesStaySound == OfficeSpec => []CachesOK
<1>1. OfficeInit => CachesOK
  BY CachesInit DEF OfficeInit, CachesOK
<1>2. CachesOK /\ [OfficeNext]_officeVars => CachesOK'
  BY CachesKept DEF OfficeNext, officeVars, CachesOK, Kept!vars
<1> QED
  BY <1>1, <1>2, PTL DEF OfficeSpec

------------------------------------------------------------------------------
(* Outbox                                                                   *)

LEMMA OutboxInit == Events!Init => Events!IInv
BY DEF Events!Init, Events!IInv, Events!TypeOK, Events!EventsFollowCommits,
       Events!HeldIsCommitted

\* Steps that neither commit nor write events.
LEMMA OutboxStep ==
    ASSUME Events!IInv, NEW w \in Workers, Events!Step(w)
    PROVE  Events!IInv'
<1> USE DEF Events!IInv, Events!TypeOK, Events!EventsFollowCommits,
            Events!HeldIsCommitted, Events!Become
<1>1. CASE Events!Change(w)
  BY <1>1 DEF Events!Change
<1>2. CASE Events!Commit(w)
  BY <1>2 DEF Events!Commit
<1>3. CASE Events!Insert(w)
  BY <1>3 DEF Events!Insert
<1>4. CASE Events!ReadBatch(w)
  BY <1>4 DEF Events!ReadBatch, Events!Pending, Events!kSubset
<1>5. CASE Events!Publish(w)
  BY <1>5 DEF Events!Publish
<1>6. CASE Events!Abort(w)
  BY <1>6 DEF Events!Abort
<1> QED
  BY <1>1, <1>2, <1>3, <1>4, <1>5, <1>6 DEF Events!Step

LEMMA OutboxKept ==
    ASSUME Events!IInv, [Events!Next]_Events!vars
    PROVE  Events!IInv'
<1>1. CASE UNCHANGED Events!vars
  BY <1>1 DEF Events!vars, Events!IInv, Events!TypeOK, Events!EventsFollowCommits,
              Events!HeldIsCommitted
<1> QED
  BY <1>1, OutboxStep DEF Events!Next

\* EventsFollowCommits in every reachable state (core/services.py): no event of a
\* change that was rolled back, and one of each that committed, unless the
\* process died in between.
THEOREM EventsFollow == OfficeSpec => []EventsFollowCommits
<1>1. OfficeInit => EventsFollowCommits
  BY OutboxInit DEF OfficeInit, EventsFollowCommits
<1>2. EventsFollowCommits /\ [OfficeNext]_officeVars => EventsFollowCommits'
  BY OutboxKept DEF OfficeNext, officeVars, EventsFollowCommits, Events!vars
<1> QED
  BY <1>1, <1>2, PTL DEF OfficeSpec

------------------------------------------------------------------------------
(* The sum of the numbers of a set of answers.                              *)

Pick(s) == CHOOSE x \in s : TRUE

SumBody(given, g, s) ==
    IF s = {} THEN 0 ELSE given[Pick(s)].number + g[s \ {Pick(s)}]

IsSumOn(given, g, S) == g = [s \in SUBSET S |-> SumBody(given, g, s)]

SumOn(given, S) == CHOOSE g : IsSumOn(given, g, S)

LEMMA PickIn == ASSUME NEW s, s # {} PROVE Pick(s) \in s
BY DEF Pick

LEMMA SumUnique ==
    ASSUME NEW given, NEW A, NEW B, IsFiniteSet(A),
           NEW g, IsSumOn(given, g, A), NEW h, IsSumOn(given, h, B)
    PROVE  \A u \in SUBSET (A \cap B) : g[u] = h[u]
<1> DEFINE C == {u \in SUBSET (A \cap B) : g[u] # h[u]}
<1> SUFFICES ASSUME C # {} PROVE FALSE
  OBVIOUS
<1>1. PICK u \in C : \A v \in C : v \subseteq u => v = u
  <2>1. C \subseteq SUBSET A
    OBVIOUS
  <2> HIDE DEF C
  <2> QED
    BY <2>1, MinimalSet
<1>2. u \in SUBSET A /\ u \in SUBSET B /\ g[u] # h[u]
  OBVIOUS
<1>3. g[u] = SumBody(given, g, u) /\ h[u] = SumBody(given, h, u)
  BY <1>2 DEF IsSumOn
<1>4. u # {}
  BY <1>2, <1>3 DEF SumBody
<1>5. u \ {Pick(u)} \notin C
  BY <1>1, <1>4, PickIn
<1>6. g[u \ {Pick(u)}] = h[u \ {Pick(u)}]
  BY <1>2, <1>5
<1> QED
  BY <1>2, <1>3, <1>6 DEF SumBody

LEMMA SumExists ==
    ASSUME NEW given, NEW S, IsFiniteSet(S)
    PROVE  IsSumOn(given, SumOn(given, S), S)
<1> DEFINE C == {T \in SUBSET S : ~IsSumOn(given, SumOn(given, T), T)}
<1> SUFFICES ASSUME C # {} PROVE FALSE
  OBVIOUS
<1>1. PICK T \in C : \A U \in C : U \subseteq T => U = T
  <2> HIDE DEF C
  <2>1. C \subseteq SUBSET S
    BY DEF C
  <2> QED
    BY <2>1, MinimalSet
<1>2. \A U \in SUBSET T : U # T => IsSumOn(given, SumOn(given, U), U)
  BY <1>1
<1>3. T \in SUBSET S /\ ~IsSumOn(given, SumOn(given, T), T)
  OBVIOUS
<1> HIDE DEF C
<1>4. \A U \in SUBSET T : IsFiniteSet(U)
  BY <1>3, FS_Subset
<1> DEFINE at(s) == SumOn(given, s)[s]
           h == [s \in SUBSET T |->
                   IF s = {} THEN 0
                   ELSE given[Pick(s)].number + at(s \ {Pick(s)})]
<1>5. ASSUME NEW u \in SUBSET T, u # T
      PROVE  at(u) = h[u]
  <2>1. at(u) = SumBody(given, SumOn(given, u), u)
    BY <1>2, <1>5 DEF IsSumOn
  <2>2. CASE u = {}
    BY <2>1, <2>2 DEF SumBody
  <2>3. CASE u # {}
    <3> DEFINE v == u \ {Pick(u)}
    <3>1. v \in SUBSET T /\ v # T /\ v \subseteq u
      BY <1>5
    <3>2. SumOn(given, u)[v] = SumOn(given, v)[v]
      BY <1>2, <1>4, <1>5, <3>1, SumUnique
    <3> QED
      BY <1>5, <2>1, <2>3, <3>2 DEF SumBody
  <2> QED
    BY <2>2, <2>3
<1>6. ASSUME NEW s \in SUBSET T
      PROVE  h[s] = SumBody(given, h, s)
  <2>1. CASE s = {}
    BY <2>1 DEF SumBody
  <2>2. CASE s # {}
    <3>1. s \ {Pick(s)} \in SUBSET T /\ s \ {Pick(s)} # T
      BY <1>6, <2>2, PickIn
    <3>2. at(s \ {Pick(s)}) = h[s \ {Pick(s)}]
      BY <1>5, <3>1
    <3> HIDE DEF at
    <3>3. h[s] = given[Pick(s)].number + at(s \ {Pick(s)})
      BY <1>6, <2>2
    <3> HIDE DEF h
    <3> QED
      BY <2>2, <3>2, <3>3 DEF SumBody
  <2> QED
    BY <2>1, <2>2
<1>7. IsSumOn(given, h, T)
  BY <1>6 DEF IsSumOn
<1> HIDE DEF h
<1> QED
  BY <1>3, <1>7 DEF SumOn

LEMMA SumStep ==
    ASSUME NEW given, NEW S, IsFiniteSet(S)
    PROVE  SumOn(given, S)[S] =
             IF S = {} THEN 0
             ELSE given[Pick(S)].number + SumOn(given, S \ {Pick(S)})[S \ {Pick(S)}]
<1> DEFINE T == S \ {Pick(S)}
<1> DEFINE g == SumOn(given, S)
<1>1. g[S] = SumBody(given, g, S)
  <2>1. IsSumOn(given, g, S)
    BY SumExists
  <2> HIDE DEF g
  <2> QED
    BY <2>1 DEF IsSumOn
<1>2. IsFiniteSet(T)
  BY FS_Subset
<1>3. SumOn(given, S)[T] = SumOn(given, T)[T]
  BY <1>2, SumExists, SumUnique
<1> QED
  BY <1>1, <1>3 DEF SumBody

\* The sum of n scores is between 0 and n times the highest.
LEMMA SumBounds ==
    ASSUME NEW given, NEW S, IsFiniteSet(S), NEW M \in Nat, \A x \in S : given[x].number \in 0 .. M
    PROVE  SumOn(given, S)[S] \in 0 .. M * Cardinality(S)
<1> DEFINE Bounded(T) == SumOn(given, T)[T] \in 0 .. M * Cardinality(T)
           C == {T \in SUBSET S : ~Bounded(T)}
<1> SUFFICES ASSUME C # {} PROVE FALSE
  OBVIOUS
<1>1. PICK T \in C : \A U \in C : U \subseteq T => U = T
  <2>1. C \subseteq SUBSET S
    OBVIOUS
  <2> HIDE DEF C
  <2> QED
    BY <2>1, MinimalSet
<1>2. T \in SUBSET S /\ ~Bounded(T) /\ IsFiniteSet(T)
  BY FS_Subset
<1> HIDE DEF Bounded
<1>3. T # {}
  BY <1>2, SumStep, FS_EmptySet DEF Bounded
<1> DEFINE U == T \ {Pick(T)}
<1>4. Pick(T) \in T /\ U \in SUBSET S /\ U # T /\ U \subseteq T
  BY <1>2, <1>3, PickIn
<1>5. Bounded(U)
  BY <1>1, <1>4
<1>6. /\ IsFiniteSet(U) /\ Cardinality(U) = Cardinality(T) - 1
      /\ Cardinality(T) \in Nat /\ Cardinality(U) \in Nat
  BY <1>2, <1>4, FS_RemoveElement, FS_CardinalityType
<1>7. SumOn(given, T)[T] = given[Pick(T)].number + SumOn(given, U)[U]
  BY <1>2, <1>3, SumStep
<1>8. given[Pick(T)].number \in 0 .. M
  BY <1>2, <1>4
<1>9. SumOn(given, U)[U] \in 0 .. M * (Cardinality(T) - 1)
  BY <1>5, <1>6 DEF Bounded
<1> DEFINE t == SumOn(given, T)[T]
           u == SumOn(given, U)[U]
           x == given[Pick(T)].number
           n == Cardinality(T)
<1>10. t \in 0 .. M * n
  <2>1. t = x + u /\ x \in 0 .. M /\ u \in 0 .. M * (n - 1) /\ n \in Nat
    BY <1>6, <1>7, <1>8, <1>9
  <2> HIDE DEF t, u, x, n
  <2> QED
    BY <2>1
<1> QED
  BY <1>2, <1>10 DEF Bounded

LEMMA QuantizeBounds ==
    ASSUME NEW M \in Nat, NEW n \in Nat \ {0}, NEW sum \in 0 .. M * n
    PROVE  Inspecting!Quantize(sum, n) \in 0 .. M
<1> DEFINE q == sum \div n
           r == sum % n
<1>1. q \in Int /\ r \in 0 .. n - 1 /\ sum = n * q + r
  OBVIOUS
<1> HIDE DEF q, r
<1>2. q >= 0
  BY <1>1
<1>3. q <= M
  BY <1>1
<1>4. q = M => r = 0
  BY <1>1
<1>5. Inspecting!Quantize(sum, n) \in {q, q + 1}
      /\ (r = 0 => Inspecting!Quantize(sum, n) = q)
  BY <1>1 DEF Inspecting!Quantize, q, r
<1>6. q \in 0 .. M /\ (r # 0 => q + 1 \in 0 .. M)
  BY <1>1, <1>2, <1>3, <1>4
<1> QED
  BY <1>5, <1>6

LEMMA ScoreType ==
    ASSUME NEW given, given \in [DOMAIN given -> Inspecting!Answers], IsFiniteSet(DOMAIN given)
    PROVE  Inspecting!Score(given) \in Inspecting!Verdicts
<1> DEFINE scored == {item \in DOMAIN given : given[item].number # Inspecting!Nothing}
           total == Inspecting!MapThenSumSet(LAMBDA i : given[i].number, scored)
           score == IF scored = {} THEN Inspecting!Nothing
                    ELSE Inspecting!Quantize(total, Inspecting!Cardinality(scored))
<1>0. Inspecting!MaxScore \in Nat
  BY DEF Inspecting!MaxScore
<1>1. total = SumOn(given, scored)[scored]
  BY Zenon
     DEF Inspecting!MapThenSumSet, Inspecting!MapThenFoldSet, SumOn, IsSumOn, SumBody, Pick
<1>2. IsFiniteSet(scored)
  BY FS_Subset
<1>3. \A x \in scored : given[x].number \in 0 .. Inspecting!MaxScore
  BY InspectionsAssumption DEF Inspecting!Answers, Inspecting!Nothing
<1>4. Inspecting!Cardinality(scored) = Cardinality(scored)
  BY DEF Inspecting!Cardinality, Cardinality
<1>5. scored # {} => Cardinality(scored) \in Nat \ {0}
  BY <1>2, FS_EmptySet, FS_CardinalityType
<1>6. total \in 0 .. Inspecting!MaxScore * Cardinality(scored)
  <2>1. SumOn(given, scored)[scored] \in 0 .. Inspecting!MaxScore * Cardinality(scored)
    <3> HIDE DEF scored
    <3> QED
      BY <1>0, <1>2, <1>3, SumBounds
  <2> QED
    BY <1>1, <2>1, Zenon
<1>7. score \in Inspecting!Nothing .. Inspecting!MaxScore
  <2> HIDE DEF scored, total
  <2> QED
    BY <1>0, <1>4, <1>5, <1>6, QuantizeBounds DEF Inspecting!Nothing
<1>8. Inspecting!Score(given) =
        [score |-> score,
         overall |-> IF \E item \in DOMAIN given : given[item].passed = "no"
                     THEN "failed"
                     ELSE IF score # Inspecting!Nothing /\ score < Inspecting!PassThreshold
                     THEN "needs_attention" ELSE "passed"]
  BY Zenon DEF Inspecting!Score
<1> HIDE DEF score
<1> QED
  BY <1>7, <1>8 DEF Inspecting!Verdicts

------------------------------------------------------------------------------
(* Inspections                                                              *)

LEMMA InspectionsInit == Inspecting!Init => Inspecting!IInv
<1> SUFFICES ASSUME Inspecting!Init PROVE Inspecting!IInv
  OBVIOUS
<1>1. Inspecting!TypeOK
  <2>1. Inspecting!Absent \in Inspecting!Rows
    BY
       DEF Inspecting!Absent, Inspecting!Rows, Inspecting!Verdicts, Inspecting!MaxScore,
           Inspecting!Unscored, Inspecting!Nothing
  <2>2. Inspecting!NoCall \in Inspecting!Calls
    BY <2>1 DEF Inspecting!NoCall, Inspecting!Calls, Inspecting!NoAnswer, Inspecting!Answers,
          Inspecting!Nothing, Inspecting!Unscored, Inspecting!Verdicts, Inspecting!MaxScore
  <2>3. \A i \in Inspections :
          DOMAIN answers[i] = {} /\ answers[i] \in [DOMAIN answers[i] -> Inspecting!Answers]
    BY DEF Inspecting!Init
  <2>4. template \in [items : SUBSET Items, past : SUBSET Items, active : BOOLEAN]
        /\ template.items \subseteq template.past
    BY InspectionsAssumption DEF Inspecting!Init
  <2>5. raced \in BOOLEAN
    BY DEF Inspecting!Init
  <2> QED
    BY <2>1, <2>2, <2>3, <2>4, <2>5 DEF Inspecting!Init, Inspecting!TypeOK
<1>2. /\ \A w \in Workers : pc[w] = "idle" /\ call[w] = Inspecting!NoCall
      /\ \A i \in Inspections : inspection[i].status = "absent"
  BY DEF Inspecting!Init, Inspecting!Absent
<1>3. Inspecting!CallsFitStages
  BY <1>2 DEF Inspecting!CallsFitStages, Inspecting!NoCall
<1>4. Inspecting!LoadedIsCurrent
  BY <1>2 DEF Inspecting!LoadedIsCurrent
<1>5. Inspecting!VerdictOfAnswers /\ Inspecting!StandingIsAnnounced
  BY <1>2 DEF Inspecting!VerdictOfAnswers, Inspecting!StandingIsAnnounced, Inspecting!Standing
<1> QED
  BY <1>1, <1>3, <1>4, <1>5 DEF Inspecting!IInv, Inspecting!InspectionsOK

\* A request that begins has loaded what it goes by.
LEMMA InspectionBegins ==
    ASSUME Inspecting!IInv, NEW w \in Workers, 
           NEW c \in Inspecting!Calls, Inspecting!Begins(w, c), c.op # "none",
           c.on \in Inspections, c.op \in {"add", "update", "photo"} => c.item \in Items,
           c.op \in {"add", "save", "submit"} => Inspecting!IsEditable(inspection[c.on]),
           c.op = "review" => inspection[c.on].status = "submitted",
           c.op = "return" => inspection[c.on].status \in Inspecting!Standing,
           c.op \in {"save", "return"} => c.row = inspection[c.on]
    PROVE  Inspecting!IInv'
<1>1. /\ pc' = [pc EXCEPT ![w] = "loaded"] /\ call' = [call EXCEPT ![w] = c]
      /\ stale' = stale \ {w}
      /\ UNCHANGED <<template, inspection, answers, announced, raced, cut>>
  BY DEF Inspecting!Begins
<1>2. Inspecting!TypeOK'
  BY <1>1 DEF Inspecting!IInv, Inspecting!InspectionsOK, Inspecting!TypeOK
<1>3. \A v \in Workers \ {w} : pc'[v] = pc[v] /\ call'[v] = call[v]
  BY <1>1 DEF Inspecting!IInv, Inspecting!InspectionsOK, Inspecting!TypeOK
<1>4. pc'[w] = "loaded" /\ call'[w] = c
  BY <1>1 DEF Inspecting!IInv, Inspecting!InspectionsOK, Inspecting!TypeOK
<1>5. Inspecting!CallsFitStages'
  BY <1>3, <1>4 DEF Inspecting!IInv, Inspecting!CallsFitStages
<1>6. Inspecting!LoadedIsCurrent'
  <2>1. Inspecting!Current(w)'
    BY <1>1, <1>4 DEF Inspecting!Current
  <2>2. ASSUME NEW v \in Workers \ stale', v # w, pc'[v] # "idle"
        PROVE  Inspecting!Current(v)'
    <3>1. Inspecting!Current(v)
      BY <1>1, <1>3, <2>2 DEF Inspecting!IInv, Inspecting!LoadedIsCurrent
    <3> QED
      BY <1>1, <1>3, <2>2, <3>1 DEF Inspecting!Current, Inspecting!MissingItems
  <2> QED
    BY <2>1, <2>2 DEF Inspecting!LoadedIsCurrent
<1>7. Inspecting!VerdictOfAnswers' /\ Inspecting!StandingIsAnnounced'
  BY <1>1
     DEF Inspecting!IInv, Inspecting!InspectionsOK, Inspecting!VerdictOfAnswers,
         Inspecting!StandingIsAnnounced, Inspecting!MissingItems
<1> QED
  BY <1>2, <1>5, <1>6, <1>7 DEF Inspecting!IInv, Inspecting!InspectionsOK

LEMMA InspectionReads ==
    ASSUME Inspecting!IInv, NEW w \in Workers,
           Inspecting!AddResult(w) \/ Inspecting!UpdateResult(w) \/ Inspecting!UploadPhoto(w)
           \/ Inspecting!SaveDraft(w) \/ Inspecting!Submit(w) \/ Inspecting!Return(w)
           \/ Inspecting!Review(w)
    PROVE  Inspecting!IInv'
<1> USE DEF Inspecting!IsEditable, Inspecting!Standing, Inspecting!InspectionCalls
<1>0. Inspecting!NoCall \in Inspecting!Calls
  BY DEF Inspecting!NoCall, Inspecting!Calls, Inspecting!NoAnswer, Inspecting!Answers,
         Inspecting!Nothing, Inspecting!Unscored, Inspecting!Verdicts, Inspecting!MaxScore,
         Inspecting!Absent, Inspecting!Rows
<1>1. /\ inspection \in [Inspections -> Inspecting!Rows]
      /\ template.items \subseteq Items
      /\ \A i \in Inspections : \A item \in DOMAIN answers[i] :
            item \in Items /\ answers[i][item] \in Inspecting!Answers
  BY DEF Inspecting!IInv, Inspecting!InspectionsOK, Inspecting!TypeOK
<1>2. CASE Inspecting!AddResult(w)
  <2>1. PICK i \in Inspections, item \in template.items :
          /\ Inspecting!IsEditable(inspection[i])
          /\ Inspecting!Begins(w, [Inspecting!NoCall EXCEPT !.op = "add", !.on = i, !.item = item])
    BY <1>2 DEF Inspecting!AddResult
  <2> DEFINE c == [Inspecting!NoCall EXCEPT !.op = "add", !.on = i, !.item = item]
  <2>2. c \in Inspecting!Calls /\ c.op = "add" /\ c.on = i /\ c.item = item
    BY <1>0, <1>1 DEF Inspecting!Calls, Inspecting!NoCall
  <2> QED
    BY <1>1, <2>1, <2>2, InspectionBegins
<1>3. CASE Inspecting!UpdateResult(w) \/ Inspecting!UploadPhoto(w)
  <2>1. PICK op \in {"update", "photo"}, i \in Inspections : \E item \in DOMAIN answers[i] :
          Inspecting!Begins(w, [Inspecting!NoCall EXCEPT !.op = op, !.on = i, !.item = item,
                                                         !.answer = answers[i][item]])
    BY <1>3 DEF Inspecting!UpdateResult, Inspecting!UploadPhoto
  <2>2. PICK item \in DOMAIN answers[i] :
          Inspecting!Begins(w, [Inspecting!NoCall EXCEPT !.op = op, !.on = i, !.item = item,
                                                         !.answer = answers[i][item]])
    BY <2>1
  <2> DEFINE c == [Inspecting!NoCall EXCEPT !.op = op, !.on = i, !.item = item,
                                            !.answer = answers[i][item]]
  <2>3. c \in Inspecting!Calls /\ c.op = op /\ c.on = i /\ c.item = item
    BY <1>0, <1>1 DEF Inspecting!Calls, Inspecting!NoCall
  <2> QED
    BY <1>1, <2>2, <2>3, InspectionBegins
<1>4. CASE Inspecting!SaveDraft(w) \/ Inspecting!Return(w)
  <2>1. PICK op \in {"save", "return"}, i \in Inspections :
          /\ op = "save" => Inspecting!IsEditable(inspection[i])
          /\ op = "return" => inspection[i].status \in Inspecting!Standing
          /\ Inspecting!Begins(w, [Inspecting!NoCall EXCEPT !.op = op, !.on = i,
                                                            !.row = inspection[i]])
    BY <1>4 DEF Inspecting!SaveDraft, Inspecting!Return
  <2> DEFINE c == [Inspecting!NoCall EXCEPT !.op = op, !.on = i, !.row = inspection[i]]
  <2>2. c \in Inspecting!Calls /\ c.op = op /\ c.on = i /\ c.row = inspection[i]
    BY <1>0, <1>1 DEF Inspecting!Calls, Inspecting!NoCall
  <2> QED
    BY <1>1, <2>1, <2>2, InspectionBegins
<1>5. CASE Inspecting!Submit(w) \/ Inspecting!Review(w)
  <2>1. PICK op \in {"submit", "review"}, i \in Inspections :
          /\ op = "submit" => Inspecting!IsEditable(inspection[i])
          /\ op = "review" => inspection[i].status = "submitted"
          /\ Inspecting!Begins(w, [Inspecting!NoCall EXCEPT !.op = op, !.on = i])
    BY <1>5 DEF Inspecting!Submit, Inspecting!Review
  <2> DEFINE c == [Inspecting!NoCall EXCEPT !.op = op, !.on = i]
  <2>2. c \in Inspecting!Calls /\ c.op = op /\ c.on = i
    BY <1>0, <1>1 DEF Inspecting!Calls, Inspecting!NoCall
  <2> QED
    BY <1>1, <2>1, <2>2, InspectionBegins
<1> QED
  BY <1>2, <1>3, <1>4, <1>5

\* Steps that read, or that write nothing a request goes by.
LEMMA InspectionChecks ==
    ASSUME Inspecting!IInv, NEW w \in Workers,
           Inspecting!CheckEditable(w) \/ Inspecting!CheckRequired(w) \/ Inspecting!Calculate(w)
           \/ Inspecting!Abort(w)
    PROVE  Inspecting!IInv'
<1>1. UNCHANGED <<template, inspection, answers, announced, raced, cut>>
  BY
     DEF Inspecting!CheckEditable, Inspecting!CheckRequired, Inspecting!Calculate,
         Inspecting!Abort
<1>2. Inspecting!VerdictOfAnswers' /\ Inspecting!StandingIsAnnounced'
  BY <1>1 DEF Inspecting!IInv, Inspecting!InspectionsOK, Inspecting!VerdictOfAnswers,
              Inspecting!StandingIsAnnounced, Inspecting!MissingItems
<1>3. ASSUME Inspecting!TypeOK', Inspecting!CallsFitStages',
             \A v \in Workers \ {w} : pc'[v] = pc[v] /\ call'[v] = call[v],
             stale \ {w} \subseteq stale',
             w \notin stale' /\ pc'[w] # "idle" => Inspecting!Current(w)'
      PROVE  Inspecting!IInv'
  <2>1. ASSUME NEW v \in Workers \ stale', v # w, pc'[v] # "idle"
        PROVE  Inspecting!Current(v)'
    <3>1. Inspecting!Current(v)
      BY <1>3, <2>1 DEF Inspecting!IInv, Inspecting!LoadedIsCurrent
    <3> QED
      BY <1>1, <1>3, <2>1, <3>1 DEF Inspecting!Current, Inspecting!MissingItems
  <2> QED
    BY <1>2, <1>3, <2>1
       DEF Inspecting!IInv, Inspecting!InspectionsOK, Inspecting!LoadedIsCurrent
<1>4. /\ pc \in [Workers -> {"idle", "loaded", "checked", "scored"}]
      /\ call \in [Workers -> Inspecting!Calls] /\ stale \subseteq Workers
      /\ Inspecting!CallsFitStages
      /\ w \notin stale /\ pc[w] # "idle" => Inspecting!Current(w)
  BY
     DEF Inspecting!IInv, Inspecting!InspectionsOK, Inspecting!TypeOK,
         Inspecting!LoadedIsCurrent
<1>5. ASSUME pc' \in [Workers -> {"idle", "loaded", "checked", "scored"}],
             call' \in [Workers -> Inspecting!Calls], stale' \subseteq Workers
      PROVE  Inspecting!TypeOK'
  BY <1>1, <1>5 DEF Inspecting!IInv, Inspecting!InspectionsOK, Inspecting!TypeOK
<1>6. CASE Inspecting!CheckEditable(w)
  <2> USE <1>6 DEF Inspecting!CheckEditable
  <2>1. Inspecting!CallsFitStages'
    BY <1>4 DEF Inspecting!CallsFitStages
  <2>2. Inspecting!Current(w)'
    BY <1>1, <1>4 DEF Inspecting!Current
  <2> QED
    BY <1>3, <1>4, <1>5, <2>1, <2>2
<1>7. CASE Inspecting!CheckRequired(w)
  <2> USE <1>7 DEF Inspecting!CheckRequired
  <2>1. Inspecting!CallsFitStages'
    BY <1>4 DEF Inspecting!CallsFitStages
  <2>2. w \notin stale => Inspecting!Current(w)'
    BY <1>1, <1>4 DEF Inspecting!Current, Inspecting!MissingItems
  <2> QED
    BY <1>3, <1>4, <1>5, <2>1, <2>2
<1>8. CASE Inspecting!Calculate(w)
  <2> USE <1>8 DEF Inspecting!Calculate
  <2> DEFINE i == call[w].on
  <2>1. i \in Inspections /\ Inspecting!Score(answers[i]) \in Inspecting!Verdicts
    <3>1. i \in Inspections
      BY <1>4 DEF Inspecting!CallsFitStages
    <3>2. /\ answers[i] \in [DOMAIN answers[i] -> Inspecting!Answers]
          /\ DOMAIN answers[i] \subseteq Items
      BY <3>1 DEF Inspecting!IInv, Inspecting!InspectionsOK, Inspecting!TypeOK
    <3> QED
      BY <3>1, <3>2, FS_Subset, ScoreType, InspectionsAssumption
  <2>2. call' \in [Workers -> Inspecting!Calls]
    BY <1>4, <2>1 DEF Inspecting!Calls
  <2>3. Inspecting!CallsFitStages'
    BY <1>4 DEF Inspecting!CallsFitStages, Inspecting!Calls
  <2>4. w \notin stale => Inspecting!Current(w)'
    BY <1>1, <1>4 DEF Inspecting!Current, Inspecting!MissingItems, Inspecting!Calls
  <2>5. \A v \in Workers \ {w} : call'[v] = call[v]
    BY <1>4
  <2> HIDE DEF i
  <2> QED
    BY <1>3, <1>4, <1>5, <2>2, <2>3, <2>4, <2>5
<1>9. CASE Inspecting!Abort(w)
  <2> USE <1>9 DEF Inspecting!Abort, Inspecting!Finishes
  <2>1. Inspecting!NoCall \in Inspecting!Calls
    BY DEF Inspecting!NoCall, Inspecting!Calls, Inspecting!NoAnswer, Inspecting!Answers,
           Inspecting!Nothing, Inspecting!Unscored, Inspecting!Verdicts, Inspecting!MaxScore,
           Inspecting!Absent, Inspecting!Rows
  <2>2. Inspecting!CallsFitStages'
    BY <1>4 DEF Inspecting!CallsFitStages, Inspecting!NoCall
  <2> QED
    BY <1>3, <1>4, <1>5, <2>1, <2>2
<1> QED
  BY <1>6, <1>7, <1>8, <1>9

LEMMA VerdictFails ==
    ASSUME NEW given
    PROVE  Inspecting!Score(given).overall = "failed" <=> Inspecting!FailedItems(given) # {}
BY DEF Inspecting!Score, Inspecting!FailedItems

LEMMA InspectionSaves ==
    ASSUME Inspecting!IInv, NEW w \in Workers, Inspecting!SaveInspection(w)
    PROVE  Inspecting!IInv'
<1> DEFINE c == call[w]
           i == c.on
<1>1. /\ c \in Inspecting!Calls /\ i \in Inspections /\ pc[w] # "idle"
      /\ c.op \in Inspecting!InspectionCalls
      /\ pc[w] = IF c.op = "return" THEN "loaded" ELSE "scored"
      /\ inspection' = [inspection EXCEPT ![i] = Inspecting!Saved(c)]
      /\ announced' = [announced EXCEPT ![i] =
                         IF c.op = "submit" THEN @ \cup Inspecting!FailedItems(answers[i])
                         ELSE @]
      /\ pc' = [pc EXCEPT ![w] = "idle"]
      /\ call' = [call EXCEPT ![w] = Inspecting!NoCall]
      /\ stale' = (stale \cup Inspecting!RowReaders(i)) \ {w}
      /\ raced' = (raced \/ w \in stale)
      /\ cut' = IF c.op = "submit" THEN cut \ {i} ELSE cut
      /\ UNCHANGED <<template, answers>>
  BY
     DEF Inspecting!SaveInspection, Inspecting!Finishes, Inspecting!IInv,
         Inspecting!InspectionsOK,
         Inspecting!TypeOK, Inspecting!CallsFitStages, Inspecting!InspectionCalls
<1>2. /\ w \notin stale => Inspecting!Current(w)
      /\ inspection \in [Inspections -> Inspecting!Rows]
      /\ announced \in [Inspections -> SUBSET Items]
      /\ pc \in [Workers -> {"idle", "loaded", "checked", "scored"}]
      /\ call \in [Workers -> Inspecting!Calls]
      /\ Inspecting!FailedItems(answers[i]) \subseteq Items
  BY <1>1
     DEF Inspecting!IInv, Inspecting!InspectionsOK, Inspecting!TypeOK,
         Inspecting!LoadedIsCurrent,
         Inspecting!FailedItems
<1>3. /\ Inspecting!Saved(c) \in Inspecting!Rows
      /\ c.op \in {"submit", "review"} => Inspecting!Saved(c).verdict = c.found
      /\ c.op = "save" => Inspecting!Saved(c).status = c.row.status
      /\ c.op = "submit" => Inspecting!Saved(c).status = "submitted"
      /\ c.op = "return" => Inspecting!Saved(c).status = "returned"
  BY <1>1 DEF Inspecting!Saved, Inspecting!Rows, Inspecting!Calls, Inspecting!InspectionCalls
<1> HIDE DEF i, c
<1>4. Inspecting!TypeOK'
  <2>1. Inspecting!NoCall \in Inspecting!Calls
    BY DEF Inspecting!NoCall, Inspecting!Calls, Inspecting!NoAnswer, Inspecting!Answers,
           Inspecting!Nothing, Inspecting!Unscored, Inspecting!Verdicts, Inspecting!MaxScore,
           Inspecting!Absent, Inspecting!Rows
  <2>2. raced' \in BOOLEAN
    BY <1>1, Zenon
  <2>3. announced' \in [Inspections -> SUBSET Items]
    BY <1>1, <1>2
  <2>4. inspection' \in [Inspections -> Inspecting!Rows]
    BY <1>1, <1>2, <1>3
  <2>5. /\ call' \in [Workers -> Inspecting!Calls]
        /\ pc' \in [Workers -> {"idle", "loaded", "checked", "scored"}]
    BY <1>1, <1>2, <2>1
  <2>6. stale' \subseteq Workers /\ cut' \subseteq Inspections
    BY <1>1
       DEF Inspecting!RowReaders, Inspecting!IInv, Inspecting!InspectionsOK, Inspecting!TypeOK
  <2> QED
    BY <1>1, <2>2, <2>3, <2>4, <2>5, <2>6
       DEF Inspecting!IInv, Inspecting!InspectionsOK, Inspecting!TypeOK
<1>5. \A v \in Workers : IF v = w THEN pc'[v] = "idle" /\ call'[v] = Inspecting!NoCall
                          ELSE pc'[v] = pc[v] /\ call'[v] = call[v]
  BY <1>1, <1>2
<1>6. Inspecting!CallsFitStages'
  BY <1>5 DEF Inspecting!IInv, Inspecting!CallsFitStages, Inspecting!NoCall
<1>7. Inspecting!LoadedIsCurrent'
  <2> SUFFICES ASSUME NEW v \in Workers \ stale', pc'[v] # "idle"
               PROVE  Inspecting!Current(v)'
    BY DEF Inspecting!LoadedIsCurrent
  <2>1. v # w /\ v \notin stale /\ Inspecting!Current(v) /\ call[v].op # "none"
    BY <1>1, <1>5 DEF Inspecting!IInv, Inspecting!LoadedIsCurrent, Inspecting!CallsFitStages
  <2>2. call[v].on \in Inspections
    BY <1>5, <2>1 DEF Inspecting!IInv, Inspecting!CallsFitStages
  <2>3. CASE call[v].on = i
    <3>1. call[v].op \in {"update", "photo"} /\ pc[v] # "checked"
      BY <1>1, <2>1, <2>3, <1>2 DEF Inspecting!RowReaders, Inspecting!Calls
    <3> QED
      BY <1>5, <2>1, <3>1 DEF Inspecting!Current, Inspecting!IInv, Inspecting!CallsFitStages
  <2>4. CASE call[v].on # i
    BY <1>1, <1>2, <1>5, <2>1, <2>2, <2>4 DEF Inspecting!Current, Inspecting!MissingItems
  <2> QED
    BY <2>3, <2>4
<1>8. ASSUME ~raced', NEW k \in Inspections \ cut', inspection'[k].status \in Inspecting!Standing
      PROVE  /\ Inspecting!MissingItems(answers[k]) = {}
             /\ inspection'[k].verdict = Inspecting!Score(answers[k])
             /\ Inspecting!FailedItems(answers[k]) \subseteq announced'[k]
  <2>1. ~raced /\ w \notin stale
    BY <1>1, <1>8
  <2>2. CASE k # i
    BY <1>1, <1>2, <1>8, <2>1, <2>2
       DEF Inspecting!IInv, Inspecting!InspectionsOK, Inspecting!VerdictOfAnswers,
             Inspecting!StandingIsAnnounced
  <2>3. CASE k = i
    <3>1. inspection'[k] = Inspecting!Saved(c)
      BY <1>1, <1>2, <2>3
    <3>2. Inspecting!Current(w)
      BY <1>2, <2>1
    <3>3. c.op \in {"submit", "review"}
      BY <1>1, <1>3, <1>8, <3>1, <3>2
         DEF Inspecting!Current, Inspecting!Standing, Inspecting!IsEditable,
             Inspecting!InspectionCalls, c, i
    <3>4. inspection'[k].verdict = Inspecting!Score(answers[k])
      BY <1>1, <1>3, <2>3, <3>1, <3>2, <3>3 DEF Inspecting!Current, c, i
    <3>5. CASE c.op = "submit"
      BY <1>1, <1>2, <2>3, <3>2, <3>4, <3>5 DEF Inspecting!Current, c, i
    <3>6. CASE c.op = "review"
      <4>1. inspection[k].status \in Inspecting!Standing /\ k \notin cut
        BY <1>1, <1>8, <2>3, <3>2, <3>6 DEF Inspecting!Current, Inspecting!Standing, c, i
      <4> QED
        BY <1>1, <1>2, <2>1, <2>3, <3>4, <3>6, <4>1
           DEF Inspecting!IInv, Inspecting!InspectionsOK,
               Inspecting!VerdictOfAnswers, Inspecting!StandingIsAnnounced
    <3> QED
      BY <3>3, <3>5, <3>6
  <2> QED
    BY <2>2, <2>3
<1>9. Inspecting!VerdictOfAnswers' /\ Inspecting!StandingIsAnnounced'
  BY <1>1, <1>8, VerdictFails
     DEF Inspecting!VerdictOfAnswers, Inspecting!StandingIsAnnounced, Inspecting!MissingItems
<1> QED
  BY <1>4, <1>6, <1>7, <1>9 DEF Inspecting!IInv, Inspecting!InspectionsOK

LEMMA ValidAnswers ==
    ASSUME NEW c \in Inspecting!Calls, NEW v \in Inspecting!Given(c)
    PROVE  v \in Inspecting!Answers
<1> USE DEF Inspecting!Answers
<1>1. c.answer \in Inspecting!Answers
  BY DEF Inspecting!Calls
<1>2. ASSUME NEW x \in Inspecting!Valid(c.item)
      PROVE  x \in Inspecting!Answers
  <2>1. CASE ItemType[c.item] = "score"
    <3>1. PICK n \in Scores :
            x = [Inspecting!NoAnswer EXCEPT !.passed = Inspecting!Pass(n), !.number = n]
      BY <1>2, <2>1 DEF Inspecting!Valid
    <3>2. x = [passed |-> Inspecting!Pass(n), number |-> n, file |-> FALSE]
      BY <3>1 DEF Inspecting!NoAnswer
    <3>3. Inspecting!Pass(n) \in {"yes", "no"}
      BY DEF Inspecting!Pass
    <3> QED
      BY <3>2, <3>3
  <2>2. CASE ItemType[c.item] # "score"
    <3>1. PICK p \in {"yes", "no", "unknown"} : x = [Inspecting!NoAnswer EXCEPT !.passed = p]
      BY <1>2, <2>2 DEF Inspecting!Valid
    <3> QED
      BY <3>1 DEF Inspecting!NoAnswer, Inspecting!Nothing
  <2> QED
    BY <2>1, <2>2
<1>3. CASE c.op = "photo"
  <2>1. v = [c.answer EXCEPT !.file = TRUE]
    BY <1>3 DEF Inspecting!Given
  <2> QED
    BY <1>1, <2>1
<1>4. CASE c.op # "photo"
  <2>1. PICK x \in Inspecting!Valid(c.item) : v = [x EXCEPT !.file = c.answer.file]
    BY <1>4 DEF Inspecting!Given
  <2> QED
    BY <1>1, <1>2, <2>1
<1> QED
  BY <1>3, <1>4

\* An answer is saved by a request that saw its inspection editable, or that
\* was overtaken.
LEMMA ResultSaves ==
    ASSUME Inspecting!IInv, NEW w \in Workers, Inspecting!SaveResult(w)
    PROVE  Inspecting!IInv'
<1> DEFINE c == call[w]
           i == c.on
<1>1. /\ c \in Inspecting!Calls /\ i \in Inspections /\ pc[w] # "idle"
      /\ c.op \in {"add", "update", "photo"}
      /\ c.op \in {"update", "photo"} => pc[w] = "checked"
      /\ c.item \in template.items
      /\ pc' = [pc EXCEPT ![w] = "idle"]
      /\ call' = [call EXCEPT ![w] = Inspecting!NoCall]
      /\ stale' = (stale \cup Inspecting!AnswerReaders(i)) \ {w}
      /\ raced' = (raced \/ w \in stale)
      /\ UNCHANGED <<template, inspection, announced, cut>>
  BY DEF Inspecting!SaveResult, Inspecting!Finishes, Inspecting!IInv, Inspecting!InspectionsOK,
         Inspecting!TypeOK, Inspecting!CallsFitStages
<1>2. PICK v \in Inspecting!Given(c) :
        answers' = [answers EXCEPT ![i] = Inspecting!WithAnswer(answers[i], c.item, v)]
  BY DEF Inspecting!SaveResult
<1>3. /\ w \notin stale => Inspecting!IsEditable(inspection[i])
      /\ inspection \in [Inspections -> Inspecting!Rows]
      /\ pc \in [Workers -> {"idle", "loaded", "checked", "scored"}]
      /\ call \in [Workers -> Inspecting!Calls]
  BY <1>1
     DEF Inspecting!IInv, Inspecting!InspectionsOK, Inspecting!TypeOK,
         Inspecting!LoadedIsCurrent,
              Inspecting!Current
<1>4. /\ DOMAIN answers' = Inspections
      /\ \A k \in Inspections \ {i} : answers'[k] = answers[k]
      /\ DOMAIN answers'[i] = DOMAIN answers[i] \cup {c.item}
      /\ answers'[i] \in [DOMAIN answers'[i] -> Inspecting!Answers]
  <2>1. v \in Inspecting!Answers
    BY <1>1, <1>2, ValidAnswers
  <2> QED
    BY <1>1, <1>2, <2>1
       DEF Inspecting!WithAnswer, Inspecting!IInv, Inspecting!InspectionsOK, Inspecting!TypeOK
<1> HIDE DEF i, c
<1>5. Inspecting!TypeOK'
  <2>1. Inspecting!NoCall \in Inspecting!Calls
    BY DEF Inspecting!NoCall, Inspecting!Calls, Inspecting!NoAnswer, Inspecting!Answers,
           Inspecting!Nothing, Inspecting!Unscored, Inspecting!Verdicts, Inspecting!MaxScore,
           Inspecting!Absent, Inspecting!Rows
  <2>2. raced' \in BOOLEAN
    BY <1>1, Zenon
  <2>3. /\ call' \in [Workers -> Inspecting!Calls]
        /\ pc' \in [Workers -> {"idle", "loaded", "checked", "scored"}]
    BY <1>1, <1>3, <2>1
  <2>4. stale' \subseteq Workers
    BY <1>1
       DEF Inspecting!AnswerReaders, Inspecting!IInv, Inspecting!InspectionsOK,
           Inspecting!TypeOK
  <2>5. \A k \in Inspections :
          /\ DOMAIN answers'[k] \subseteq template.items
          /\ answers'[k] \in [DOMAIN answers'[k] -> Inspecting!Answers]
    BY <1>1, <1>4 DEF Inspecting!IInv, Inspecting!InspectionsOK, Inspecting!TypeOK
  <2> QED
    BY <1>1, <1>4, <2>2, <2>3, <2>4, <2>5
       DEF Inspecting!IInv, Inspecting!InspectionsOK, Inspecting!TypeOK
<1>6. \A u \in Workers : IF u = w THEN pc'[u] = "idle" /\ call'[u] = Inspecting!NoCall
                          ELSE pc'[u] = pc[u] /\ call'[u] = call[u]
  BY <1>1, <1>3
<1>7. Inspecting!CallsFitStages'
  BY <1>6 DEF Inspecting!IInv, Inspecting!CallsFitStages, Inspecting!NoCall
<1>8. Inspecting!LoadedIsCurrent'
  <2> SUFFICES ASSUME NEW u \in Workers \ stale', pc'[u] # "idle"
               PROVE  Inspecting!Current(u)'
    BY DEF Inspecting!LoadedIsCurrent
  <2>1. u # w /\ u \notin stale /\ Inspecting!Current(u) /\ call[u].on \in Inspections
    BY <1>1, <1>6 DEF Inspecting!IInv, Inspecting!LoadedIsCurrent, Inspecting!CallsFitStages
  <2>2. /\ call[u].op = "submit" /\ pc[u] # "loaded" => call[u].on # i
        /\ pc[u] = "scored" => call[u].on # i
    BY <1>1, <1>3, <1>6, <2>1 DEF Inspecting!AnswerReaders, Inspecting!InspectionCalls,
          Inspecting!IInv, Inspecting!CallsFitStages
  <2> QED
    BY <1>1, <1>4, <1>6, <2>1, <2>2 DEF Inspecting!Current, Inspecting!MissingItems
<1>9. ASSUME ~raced', NEW k \in Inspections \ cut', inspection'[k].status \in Inspecting!Standing
      PROVE  k # i /\ ~raced
  BY <1>1, <1>3, <1>9 DEF Inspecting!Standing, Inspecting!IsEditable
<1>10. Inspecting!VerdictOfAnswers' /\ Inspecting!StandingIsAnnounced'
  BY <1>1, <1>4, <1>9
     DEF Inspecting!IInv, Inspecting!InspectionsOK, Inspecting!VerdictOfAnswers,
              Inspecting!StandingIsAnnounced, Inspecting!MissingItems
<1> QED
  BY <1>5, <1>7, <1>8, <1>10 DEF Inspecting!IInv, Inspecting!InspectionsOK

LEMMA InspectionStarts ==
    ASSUME Inspecting!IInv, NEW k \in Inspections, Inspecting!Start(k)
    PROVE  Inspecting!IInv'
<1>1. /\ inspection[k].status = "absent"
      /\ inspection' = [inspection EXCEPT ![k].status = "draft"]
      /\ UNCHANGED <<template, answers, announced, pc, call, stale, raced, cut>>
  BY DEF Inspecting!Start
<1>2. inspection \in [Inspections -> Inspecting!Rows]
  BY DEF Inspecting!IInv, Inspecting!InspectionsOK, Inspecting!TypeOK
<1>3. inspection' \in [Inspections -> Inspecting!Rows]
  BY <1>1, <1>2 DEF Inspecting!Rows
<1>4. Inspecting!TypeOK' /\ Inspecting!CallsFitStages'
  BY <1>1, <1>3
     DEF Inspecting!IInv, Inspecting!InspectionsOK, Inspecting!TypeOK,
         Inspecting!CallsFitStages
<1>5. \A j \in Inspections : inspection'[j] = inspection[j] \/ inspection'[j].status = "draft"
  BY <1>1, <1>2 DEF Inspecting!Rows
<1>6. Inspecting!VerdictOfAnswers' /\ Inspecting!StandingIsAnnounced'
  BY <1>1, <1>5 DEF Inspecting!IInv, Inspecting!InspectionsOK, Inspecting!VerdictOfAnswers,
              Inspecting!StandingIsAnnounced, Inspecting!MissingItems, Inspecting!Standing
<1>7. ASSUME NEW w \in Workers \ stale, pc[w] # "idle" PROVE Inspecting!Current(w)'
  <2>1. Inspecting!Current(w) /\ call[w].on \in Inspections /\ call[w] \in Inspecting!Calls
    BY <1>7 DEF Inspecting!IInv, Inspecting!LoadedIsCurrent, Inspecting!CallsFitStages,
           Inspecting!InspectionsOK, Inspecting!TypeOK
  <2>2. CASE call[w].on # k
    BY <1>1, <1>2, <2>1, <2>2 DEF Inspecting!Current, Inspecting!MissingItems
  <2>3. CASE call[w].on = k
    <3>1. call[w].op \in {"update", "photo"} /\ pc[w] = "loaded"
      BY <1>1, <1>7, <2>1, <2>3
         DEF Inspecting!Current, Inspecting!IsEditable, Inspecting!Standing,
             Inspecting!Calls, Inspecting!InspectionCalls, Inspecting!IInv,
             Inspecting!CallsFitStages,
             Inspecting!InspectionsOK, Inspecting!TypeOK
    <3> QED
      BY <1>1, <3>1 DEF Inspecting!Current
  <2> QED
    BY <2>2, <2>3
<1> QED
  BY <1>1, <1>4, <1>6, <1>7
     DEF Inspecting!IInv, Inspecting!InspectionsOK, Inspecting!LoadedIsCurrent

LEMMA TemplateSteps ==
    ASSUME Inspecting!IInv, Inspecting!UpdateTemplate \/ Inspecting!SetTemplateStatus
    PROVE  Inspecting!IInv'
<1>1. CASE Inspecting!SetTemplateStatus
  <2>1. /\ template' = [template EXCEPT !.active = ~@]
        /\ UNCHANGED <<inspection, answers, announced, pc, call, stale, raced, cut>>
    BY <1>1 DEF Inspecting!SetTemplateStatus
  <2>2. template \in [items : SUBSET Items, past : SUBSET Items, active : BOOLEAN]
    BY DEF Inspecting!IInv, Inspecting!InspectionsOK, Inspecting!TypeOK
  <2>3. /\ template' \in [items : SUBSET Items, past : SUBSET Items, active : BOOLEAN]
        /\ template'.items = template.items /\ template'.past = template.past
    BY <2>1, <2>2
  <2> QED
    BY <2>1, <2>3
       DEF Inspecting!IInv, Inspecting!InspectionsOK, Inspecting!TypeOK,
           Inspecting!CallsFitStages,
           Inspecting!LoadedIsCurrent, Inspecting!Current, Inspecting!MissingItems,
           Inspecting!VerdictOfAnswers,
           Inspecting!StandingIsAnnounced
<1>2. CASE Inspecting!UpdateTemplate
  <2>1. PICK items \in SUBSET (Items \ template.past) :
          /\ template' = [template EXCEPT !.items = items, !.past = @ \cup items]
          /\ answers' = [i \in Inspections |-> <<>>]
          /\ cut' = cut \cup {i \in Inspections : inspection[i].status # "absent"}
          /\ stale' = stale \cup UNION {Inspecting!AnswerReaders(i) : i \in Inspections}
          /\ UNCHANGED <<inspection, announced, pc, call, raced>>
    BY <1>2 DEF Inspecting!UpdateTemplate
  <2>2. template \in [items : SUBSET Items, past : SUBSET Items, active : BOOLEAN]
    BY DEF Inspecting!IInv, Inspecting!InspectionsOK, Inspecting!TypeOK
  <2>3. /\ template' \in [items : SUBSET Items, past : SUBSET Items, active : BOOLEAN]
        /\ template'.items \subseteq template'.past
    BY <2>1, <2>2
  <2>4. \A i \in Inspections :
          DOMAIN answers'[i] = {} /\ answers'[i] \in [DOMAIN answers'[i] -> Inspecting!Answers]
    BY <2>1
  <2>5. Inspecting!TypeOK'
    BY <2>1, <2>3, <2>4
       DEF Inspecting!AnswerReaders, Inspecting!IInv, Inspecting!InspectionsOK,
           Inspecting!TypeOK
  <2>6. Inspecting!VerdictOfAnswers' /\ Inspecting!StandingIsAnnounced'
    BY <2>1 DEF Inspecting!VerdictOfAnswers, Inspecting!StandingIsAnnounced, Inspecting!Standing
  <2>7. ASSUME NEW w \in Workers \ stale', pc[w] # "idle" PROVE Inspecting!Current(w)'
    <3>1. Inspecting!Current(w) /\ call[w].on \in Inspections
      BY <2>1, <2>7 DEF Inspecting!IInv, Inspecting!LoadedIsCurrent, Inspecting!CallsFitStages
    <3>2. w \notin Inspecting!AnswerReaders(call[w].on)
      BY <2>1, <2>7, <3>1
    <3>3. ~(call[w].op = "submit" /\ pc[w] # "loaded") /\ pc[w] # "scored"
      BY <2>7, <3>2 DEF Inspecting!AnswerReaders, Inspecting!InspectionCalls,
             Inspecting!IInv, Inspecting!CallsFitStages, Inspecting!InspectionsOK,
             Inspecting!TypeOK
    <3> QED
      BY <2>1, <3>1, <3>3 DEF Inspecting!Current
  <2> QED
    BY <2>1, <2>5, <2>6, <2>7
       DEF Inspecting!IInv, Inspecting!InspectionsOK, Inspecting!CallsFitStages,
           Inspecting!LoadedIsCurrent
<1> QED
  BY <1>1, <1>2

LEMMA InspectionsKept ==
    ASSUME Inspecting!IInv, [Inspecting!Next]_Inspecting!vars
    PROVE  Inspecting!IInv'
<1>1. CASE UNCHANGED Inspecting!vars
  BY <1>1 DEF Inspecting!vars, Inspecting!IInv, Inspecting!InspectionsOK, Inspecting!TypeOK,
         Inspecting!CallsFitStages, Inspecting!LoadedIsCurrent, Inspecting!Current,
         Inspecting!MissingItems,
         Inspecting!VerdictOfAnswers, Inspecting!StandingIsAnnounced
<1>2. ASSUME NEW w \in Workers, Inspecting!Step(w)
      PROVE  Inspecting!IInv'
  BY <1>2, InspectionReads, InspectionChecks, InspectionSaves, ResultSaves DEF Inspecting!Step
<1> QED
  BY <1>1, <1>2, InspectionStarts, TemplateSteps DEF Inspecting!Next

\* An inspection's announcements.
LEMMA InspectionsAnnounced == Inspecting!IInv => Inspecting!FailuresAnnounced
BY VerdictFails DEF Inspecting!IInv, Inspecting!InspectionsOK, Inspecting!VerdictOfAnswers,
   Inspecting!StandingIsAnnounced, Inspecting!FailuresAnnounced

LEMMA AnswersStandStep ==
    ASSUME Inspecting!IInv, [Inspecting!Next]_Inspecting!vars
    PROVE  Inspecting!AnswersStand
<1> SUFFICES ASSUME NEW i \in Inspections, inspection[i].status \in Inspecting!Standing,
                    answers'[i] # answers[i]
             PROVE  \/ template'.items # template.items
                    \/ \E w \in stale : pc'[w] # pc[w] /\ call[w].on = i
  BY DEF Inspecting!AnswersStand
<1>1. CASE Inspecting!UpdateTemplate
  <2>1. PICK items \in SUBSET (Items \ template.past) :
          /\ template' = [template EXCEPT !.items = items, !.past = @ \cup items]
          /\ answers' = [k \in Inspections |-> <<>>]
    BY <1>1 DEF Inspecting!UpdateTemplate
  <2>2. /\ template \in [items : SUBSET Items, past : SUBSET Items, active : BOOLEAN]
        /\ template.items \subseteq template.past
        /\ DOMAIN answers[i] \subseteq template.items
        /\ answers[i] \in [DOMAIN answers[i] -> Inspecting!Answers]
    BY DEF Inspecting!IInv, Inspecting!InspectionsOK, Inspecting!TypeOK
  <2>3. CASE items = template.items
    <3>1. DOMAIN answers[i] = {}
      BY <2>2, <2>3
    <3>2. answers[i] = <<>>
      BY <2>2, <3>1
    <3> QED
      BY <2>1, <3>2
  <2>4. CASE items # template.items
    BY <2>1, <2>2, <2>4
  <2> QED
    BY <2>3, <2>4
<1>2. ASSUME NEW w \in Workers, Inspecting!SaveResult(w)
      PROVE  w \in stale /\ pc'[w] # pc[w] /\ call[w].on = i
  <2> DEFINE c == call[w]
             k == c.on
  <2>1. PICK v \in Inspecting!Given(c) :
          answers' = [answers EXCEPT ![k] = Inspecting!WithAnswer(answers[k], c.item, v)]
    BY <1>2 DEF Inspecting!SaveResult
  <2>2. k = i
    BY <2>1 DEF Inspecting!IInv, Inspecting!InspectionsOK, Inspecting!TypeOK
  <2>3. pc[w] \in {"loaded", "checked"} /\ pc' = [pc EXCEPT ![w] = "idle"]
        /\ pc \in [Workers -> {"idle", "loaded", "checked", "scored"}]
        /\ (c.op = "add" \/ pc[w] = "checked")
    BY <1>2
       DEF Inspecting!SaveResult, Inspecting!Finishes, Inspecting!IInv,
           Inspecting!InspectionsOK, Inspecting!TypeOK
  <2>4. ~Inspecting!Current(w)
    BY <2>2, <2>3 DEF Inspecting!Current, Inspecting!IsEditable, Inspecting!Standing
  <2> QED
    BY <2>2, <2>3, <2>4 DEF Inspecting!IInv, Inspecting!LoadedIsCurrent
<1>3. UNCHANGED answers \/ Inspecting!UpdateTemplate
      \/ \E w \in Workers : Inspecting!SaveResult(w)
  BY
     DEF Inspecting!Next, Inspecting!Step, Inspecting!vars, Inspecting!Start,
         Inspecting!SetTemplateStatus,
         Inspecting!AddResult, Inspecting!UpdateResult, Inspecting!UploadPhoto,
         Inspecting!SaveDraft,
         Inspecting!Submit, Inspecting!Return, Inspecting!Review, Inspecting!Begins,
         Inspecting!CheckEditable,
         Inspecting!CheckRequired, Inspecting!Calculate, Inspecting!Abort,
         Inspecting!SaveInspection
<1> QED
  BY <1>1, <1>2, <1>3

\* InspectionsOK in every reachable state (inspection_services.py): a submitted
\* inspection has its required answers and the score and verdict of its
\* answers, for any items, scores and requests, as long as no call wrote what
\* it had not read anew.
THEOREM InspectionsStaySound == OfficeSpec => []InspectionsOK
<1>1. OfficeInit => InspectionsOK
  BY InspectionsInit DEF OfficeInit, InspectionsOK
<1>2. InspectionsOK /\ [OfficeNext]_officeVars => InspectionsOK'
  BY InspectionsKept DEF OfficeNext, officeVars, InspectionsOK, Inspecting!vars
<1> QED
  BY <1>1, <1>2, PTL DEF OfficeSpec

\* FailuresAnnounced in every reachable state: an inspection that stands failed
\* has announced each of its failed items.
THEOREM FailuresAreAnnounced == OfficeSpec => []FailuresAnnounced
<1>1. InspectionsOK => FailuresAnnounced
  BY InspectionsAnnounced DEF InspectionsOK, FailuresAnnounced
<1> QED
  BY <1>1, InspectionsStaySound, PTL

\* SubmittedAnswersStand, of every step: an answer of a submitted inspection
\* changes only with the items of its template, or by a call that saw the
\* inspection before it was submitted.
THEOREM AnswersOfSubmittedStand == OfficeSpec => SubmittedAnswersStand
<1>1. InspectionsOK /\ [OfficeNext]_officeVars =>
          (part = "inspections" => Inspecting!AnswersStand)
  BY AnswersStandStep DEF OfficeNext, officeVars, InspectionsOK, Inspecting!vars
<1> QED
  BY <1>1, InspectionsStaySound, PTL DEF OfficeSpec, SubmittedAnswersStand
==============================================================================
