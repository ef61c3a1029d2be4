------------------------------ MODULE Supervision ------------------------------
(***************************************************************************)
(* Who supervises: the active supervisors of one site, and the zones of    *)
(* one assistant general supervisor (services.py, with the clean() of the  *)
(* assignment models and the administrator's endpoints). An assignment is  *)
(* checked against the active ones and inserted, in one transaction; what  *)
(* other transactions add in between is seen only by the unique indexes.   *)
(***************************************************************************)
EXTENDS Naturals, FiniteSets

CONSTANTS
    Users,           \* site supervisors
    Zones,
    MaxSupervisors,  \* MAX_SITE_SUPERVISORS_PER_SITE
    Workers          \* threads that serve requests

VARIABLES
    post,     \* each user's active assignment at the site
    zones,    \* the active assignments of the assistant: zones, or "all"
    call,     \* each worker's checked assignment
    missed,   \* workers whose check is out of date
    raced     \* the parts where an assignment was saved on such a check

vars == <<post, zones, call, missed, raced>>

------------------------------------------------------------------------------
NoCall == [part |-> "none"]

Init ==
    /\ post = [u \in Users |-> "none"]
    /\ zones = {}
    /\ call = [w \in Workers |-> NoCall]
    /\ missed = {}
    /\ raced = {}

Posted == {u \in Users : post[u] # "none"}
Primary == {u \in Users : post[u] = "primary"}

\* Mutant: the new assignment is not counted.
HasRoom_Late == Cardinality(Posted) <= MaxSupervisors

\* SiteSupervisorAssignment.clean
HasRoom == Cardinality(Posted) < MaxSupervisors

\* AssistantGeneralSupervisorAssignment.clean
Coexists(z) == IF z = "all" THEN zones = {} ELSE "all" \notin zones

Checked(w, c) ==
    /\ call[w] = NoCall
    /\ call' = [call EXCEPT ![w] = c]
    /\ missed' = missed \ {w}
    /\ UNCHANGED <<post, zones, raced>>

\* A primary assignment takes the flag from the active ones it sees.
Demoted(primary) == IF primary THEN Primary ELSE {}

\* assign_site_supervisor, until the insert: full_clean, which looks at the
\* unique index too, and the update of the others.
AssignSite(w) ==
    \E u \in Users, primary \in BOOLEAN :
        /\ post[u] = "none"
        /\ HasRoom
        /\ Checked(w, [part |-> "site", user |-> u, primary |-> primary,
                       demoted |-> Demoted(primary)])

\* assign_assistant_general_supervisor, until the insert
AssignAssistant(w) ==
    \E z \in Zones \cup {"all"} :
        /\ z \notin zones
        /\ Coexists(z)
        /\ Checked(w, [part |-> "assistant", zone |-> z])

\* Commit of a checked assignment, unless the unique index refuses it.
Insert(w) ==
    LET c == call[w]
        others == {v \in Workers \ {w} : call[v].part = c.part}
    IN
    /\ \/ /\ c.part = "site"
          /\ post[c.user] = "none"
          /\ post' = [u \in Users |->
                IF u = c.user THEN IF c.primary THEN "primary" ELSE "member"
                ELSE IF u \in c.demoted /\ post[u] # "none" THEN "member"
                ELSE post[u]]
          /\ UNCHANGED zones
       \/ /\ c.part = "assistant"
          /\ c.zone \notin zones
          /\ zones' = zones \cup {c.zone}
          /\ UNCHANGED post
    /\ raced' = IF w \in missed THEN raced \cup {c.part} ELSE raced
    /\ missed' = (missed \cup others) \ {w}
    /\ call' = [call EXCEPT ![w] = NoCall]

\* end_site_supervisor_assignment, the first half of a transfer too
EndSite ==
    \E u \in Posted :
        /\ post' = [post EXCEPT ![u] = "none"]
        /\ UNCHANGED <<zones, call, missed, raced>>

\* end_assistant_general_supervisor_assignment
EndAssistant ==
    \E z \in zones :
        /\ zones' = zones \ {z}
        /\ UNCHANGED <<post, call, missed, raced>>

Abort(w) ==
    /\ call[w] # NoCall
    /\ call' = [call EXCEPT ![w] = NoCall]
    /\ missed' = missed \ {w}
    /\ UNCHANGED <<post, zones, raced>>

Step(w) == AssignSite(w) \/ AssignAssistant(w) \/ Insert(w) \/ Abort(w)

Next == EndSite \/ EndAssistant \/ \E w \in Workers : Step(w)

Spec == Init /\ [][Next]_vars

------------------------------------------------------------------------------
SiteCalls ==
    [part : {"site"}, user : Users, primary : BOOLEAN, demoted : SUBSET Users]

AssistantCalls == [part : {"assistant"}, zone : Zones \cup {"all"}]

TypeOK ==
    /\ post \in [Users -> {"none", "member", "primary"}]
    /\ zones \subseteq Zones \cup {"all"}
    /\ call \in [Workers -> {NoCall} \cup SiteCalls \cup AssistantCalls]
    /\ missed \subseteq Workers /\ raced \subseteq {"site", "assistant"}

\* A site has at most MAX_SITE_SUPERVISORS_PER_SITE active supervisors, one of
\* them primary at most, and an assistant for all zones holds no single zone,
\* unless two requests assigned at the same time.
SupervisionFits ==
    /\ "site" \notin raced =>
         Cardinality(Posted) <= MaxSupervisors /\ Cardinality(Primary) <= 1
    /\ "assistant" \notin raced /\ "all" \in zones => zones = {"all"}

\* What a request checked holds until another is inserted: ending an assignment
\* outdates no check.
ChecksHold ==
    \A w \in Workers \ missed :
        /\ call[w].part = "site" =>
             HasRoom /\ (call[w].primary => Primary \subseteq call[w].demoted)
        /\ call[w].part = "assistant" => Coexists(call[w].zone)

IInv == TypeOK /\ SupervisionFits /\ ChecksHold
==============================================================================
