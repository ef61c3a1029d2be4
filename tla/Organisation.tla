----------------------------- MODULE Organisation -----------------------------
(***************************************************************************)
(* The configuration of one site: its work mode and shifts, its areas, and *)
(* the operational roles of the company (services.py, called by the        *)
(* configuration endpoints of api.py).                                     *)
(*                                                                         *)
(* Only active shifts, areas and roles can be loaded (SoftDeleteManager),  *)
(* but one loaded before it was deactivated can still be saved.            *)
(***************************************************************************)
EXTENDS Naturals, FiniteSets

CONSTANTS
    Shifts, Areas, Roles,  \* identities, each created at most once
    Workers                \* threads that serve requests

VARIABLES
    mode,        \* the site's work mode
    state,       \* of each shift, area and role
    uses,        \* the active records that refer to one: their kind and it
    pc, call,    \* each worker's stage and request
    overtaken,   \* workers who checked what has changed since
    raced,       \* something was saved on such a check
    staffed      \* a shift was active since the site is a SHIFT site

vars == <<mode, state, uses, pc, call, overtaken, raced, staffed>>

------------------------------------------------------------------------------
Things == Shifts \cup Areas \cup Roles
Modes == {"full_time", "shift"}

\* The relations of other models to a shift, an area or a role. Those to a
\* shift that are left out are counted, or not, like area_schedules.
Relations(t) ==
    {"area_schedules"}
      \cup (IF t \in Shifts THEN {"attendance_records"} ELSE {})
      \cup (IF t \in Areas THEN {"inspections"} ELSE {})

\* Mutant: attendance is not looked for.
CountedRelations_NoAttendance(t) == {"inspections"} \cap Relations(t)

\* The ones has_operational_usage asks for, of those that exist.
CountedRelations(t) ==
    Relations(t) \cap
      IF t \in Shifts THEN {"attendance_records", "task_assignments", "job_records"}
      ELSE IF t \in Areas THEN {"schedules", "inspections", "task_assignments"}
      ELSE {"role_assignments", "task_assignments"}

HasOperationalUsage(t) == \E r \in CountedRelations(t) : <<r, t>> \in uses

ActiveShifts == {s \in Shifts : state[s] = "active"}

\* _validate_shift_work_mode, for n active shifts.
FitsWorkMode(m, n) ==
    /\ m = "full_time" => n = 0
    /\ m = "shift" => n > 0

NoCall == [op |-> "none", thing |-> "none", mode |-> "shift"]

Init ==
    /\ mode \in Modes
    /\ state = [t \in Things |-> "absent"]
    /\ uses = {}
    /\ pc = [w \in Workers |-> "idle"]
    /\ call = [w \in Workers |-> NoCall]
    /\ overtaken = {}
    /\ raced = FALSE
    /\ staffed = FALSE

------------------------------------------------------------------------------
\* An endpoint loads the site and, unless it is to be created, the thing.
Load(w) ==
    \E op \in {"create", "update", "deactivate", "refer", "site"},
       t \in Things \cup {"none"}, m \in Modes :
        /\ pc[w] = "idle"
        /\ IF op = "site" THEN t = "none" ELSE t \in Things /\ m = mode
        /\ op = "create" => state[t] = "absent"
        /\ op \in {"update", "deactivate", "refer"} => state[t] = "active"
        /\ pc' = [pc EXCEPT ![w] = "loaded"]
        /\ call' = [call EXCEPT ![w] = [op |-> op, thing |-> t, mode |-> m]]
        /\ overtaken' = overtaken \ {w}
        /\ UNCHANGED <<mode, state, uses, raced, staffed>>

\* What the transaction checks. Updates and deactivations read the site again;
\* a new shift is checked with the site as loaded, and counts as one.
Allowed(c) ==
    LET t == c.thing
    IN
    /\ (c.op = "site" /\ c.mode = "full_time") => ActiveShifts = {}
    /\ (c.op = "create" /\ t \in Shifts) => FitsWorkMode(c.mode, 1)
    /\ (c.op = "update" /\ t \in Shifts) =>
          FitsWorkMode(mode, Cardinality(ActiveShifts))
    /\ c.op = "deactivate" =>
          /\ ~HasOperationalUsage(t)
          /\ t \in Shifts => FitsWorkMode(mode, Cardinality(ActiveShifts \ {t}))

Check(w) ==
    /\ pc[w] = "loaded"
    /\ Allowed(call[w])
    /\ pc' = [pc EXCEPT ![w] = "checked"]
    /\ UNCHANGED <<mode, state, uses, call, overtaken, raced, staffed>>

\* The requests that what w saves may prove wrong.
Others == {v \in Workers : pc[v] # "idle"}

\* Updates save all columns, is_active as loaded.
Save(w) ==
    LET c == call[w]
    IN
    /\ pc[w] = "checked"
    /\ c.op = "create" => state[c.thing] = "absent"
    /\ mode' = IF c.op = "site" THEN c.mode ELSE mode
    /\ state' = IF c.op \in {"create", "update"}
                THEN [state EXCEPT ![c.thing] = "active"]
                ELSE IF c.op = "deactivate"
                THEN [state EXCEPT ![c.thing] = "inactive"]
                ELSE state
    /\ IF c.op = "refer"
       THEN \E r \in Relations(c.thing) : uses' = uses \cup {<<r, c.thing>>}
       ELSE uses' = uses
    /\ raced' = (raced \/ w \in overtaken)
    /\ overtaken' = IF <<mode, state, uses>>' = <<mode, state, uses>>
                    THEN overtaken \ {w}
                    ELSE (overtaken \cup Others) \ {w}
    /\ staffed' = /\ mode' = "shift"
                  /\ staffed \/ \E s \in Shifts : state'[s] = "active"
    /\ pc' = [pc EXCEPT ![w] = "idle"]
    /\ call' = [call EXCEPT ![w] = NoCall]

\* The record that referred to a thing is deactivated or deleted.
Unrefer ==
    \E u \in uses :
        /\ uses' = uses \ {u}
        /\ UNCHANGED <<mode, state, pc, call, overtaken, raced, staffed>>

Abort(w) ==
    /\ pc[w] # "idle"
    /\ pc' = [pc EXCEPT ![w] = "idle"]
    /\ call' = [call EXCEPT ![w] = NoCall]
    /\ overtaken' = overtaken \ {w}
    /\ UNCHANGED <<mode, state, uses, raced, staffed>>

Step(w) == Load(w) \/ Check(w) \/ Save(w) \/ Abort(w)

Next == Unrefer \/ \E w \in Workers : Step(w)

Spec == Init /\ [][Next]_vars

------------------------------------------------------------------------------
Calls ==
    [op : {"none", "create", "update", "deactivate", "refer", "site"},
     thing : Things \cup {"none"}, mode : Modes]

TypeOK ==
    /\ mode \in Modes
    /\ state \in [Things -> {"absent", "active", "inactive"}]
    /\ \A u \in uses : u[2] \in Things /\ u[1] \in Relations(u[2])
    /\ pc \in [Workers -> {"idle", "loaded", "checked"}]
    /\ call \in [Workers -> Calls]
    /\ overtaken \subseteq Workers
    /\ raced \in BOOLEAN /\ staffed \in BOOLEAN

\* "FULL_TIME sites cannot have any active shifts", and a SHIFT site that has
\* had a shift keeps one; no shift that attendance refers to and no area that
\* an inspection refers to is inactive. All of it only if no request was
\* saved on a check that another had outdated.
ConfigurationFits ==
    ~raced =>
      /\ mode = "full_time" => ActiveShifts = {}
      /\ staffed => ActiveShifts # {}
      /\ \A t \in Shifts : <<"attendance_records", t>> \in uses => state[t] = "active"
      /\ \A t \in Areas : <<"inspections", t>> \in uses => state[t] = "active"

\* What was loaded of a thing and of the site.
StillLoaded(c) ==
    /\ c.op = "create" => state[c.thing] = "absent" /\ c.mode = mode
    /\ c.op \in {"update", "deactivate", "refer"} => state[c.thing] = "active"

\* What a request loaded and checked holds unless another overtakes it. That a
\* record no longer refers to a thing outdates no check.
ChecksHold ==
    \A w \in Workers :
      pc[w] # "idle" =>
        /\ call[w].op # "site" => call[w].thing \in Things
        /\ w \notin overtaken =>
             /\ StillLoaded(call[w])
             /\ pc[w] = "checked" => Allowed(call[w])

IInv == TypeOK /\ ConfigurationFits /\ ChecksHold

\* "Refuse when used in assignments", "refuse when schedules/inspections
\* exist": an area or a role that an active schedule refers to stays active
\* unless requests overtook each other.
ScheduledStaysActive ==
    ~raced => \A t \in Areas \cup Roles :
                <<"area_schedules", t>> \in uses => state[t] = "active"
==============================================================================
