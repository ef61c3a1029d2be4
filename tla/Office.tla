-------------------------------- MODULE Office --------------------------------
(***************************************************************************)
(* The parts of the system that share no state with each other in the      *)
(* model, composed: a behaviour picks a part and stays with it. The module *)
(* extends that of the distribution network and instantiates the others.   *)
(* A variable that two parts declare is that of the part picked; those     *)
(* that no chosen part declares are blank.                                 *)
(***************************************************************************)
EXTENDS StoreHierarchy, Integers

CONSTANTS
    Assignments, Days, Spans, MaxSchedules,
    Shifts, Areas, AreaRoles,
    SiteUsers, Zones, MaxSupervisors,
    Cleaners, Contacts, MaxDays,
    Entries, Kinds, Tables,
    Limit, MaxMessages,
    Admins, Staff, Tokens,
    MaxVersion, MaxRequests,
    Changes, BatchSize,
    Inspections, Items, FirstItems, ItemType, Required, Scores

VARIABLES
    part,
    raced, missed, overtaken, late, announced,
    schedule,
    mode, state, uses, staffed,
    post, zones,
    posted, days, open, form, line, profile,
    entry, list,
    conversations, inserted, visible, lastMessage, after, opened, fetched,
    role, active, deleted, acted, owner, live, kept,
    data, cached, count, requests, served, outdated, crossed, overlapped,
    committed, event, lost,
    template, inspection, answers, stale, cut

Planning == INSTANCE AreaSchedules
Config == INSTANCE Organisation WITH Roles <- AreaRoles
Supervisors == INSTANCE Supervision WITH Users <- SiteUsers
Payment == INSTANCE Remuneration
Checklists == INSTANCE Rosters
Messages == INSTANCE Messaging
People == INSTANCE Accounts
Kept == INSTANCE Caches
Events == INSTANCE Outbox
Inspecting == INSTANCE Inspections

ASSUME SchedulesAssumption ==
    Spans \subseteq Planning!Times \X Planning!Times /\ MaxSchedules \in Nat

ASSUME OrganisationAssumption == IsFiniteSet(Shifts) /\ Shifts \cap Areas = {}

ASSUME SupervisionAssumption == IsFiniteSet(SiteUsers) /\ MaxSupervisors \in Nat

ASSUME RemunerationAssumption == MaxDays \in Nat /\ "none" \notin Cleaners

ASSUME RostersAssumption == "" \in Tables

ASSUME MessagingAssumption == MaxMessages \in Nat /\ Limit \in Nat

ASSUME AccountsAssumption == Admins # {} /\ "none" \notin Admins \cup Staff

ASSUME CachesAssumption == {Limit, MaxVersion, MaxRequests} \subseteq Nat

ASSUME InspectionsAssumption ==
    /\ IsFiniteSet(Items) /\ FirstItems \subseteq Items
    /\ Scores \subseteq 0 .. Inspecting!MaxScore

------------------------------------------------------------------------------
Idle == ""

\* The variables of the other parts.
Blank ==
    /\ part # "network" =>
          /\ present = {} /\ row = [s \in Stores |-> NewRow]
    /\ part # "schedules" => schedule = Idle
    /\ part # "organisation" =>
          /\ mode = Idle /\ state = Idle /\ uses = Idle /\ staffed = Idle
    /\ part # "supervision" =>
          /\ post = Idle /\ zones = Idle
    /\ part # "remuneration" =>
          /\ posted = Idle /\ days = Idle /\ open = Idle /\ form = Idle
          /\ line = Idle /\ profile = Idle
    /\ part # "rosters" =>
          /\ entry = Idle /\ list = Idle
    /\ part # "messaging" =>
          /\ conversations = Idle /\ inserted = Idle /\ visible = Idle
          /\ lastMessage = Idle /\ after = Idle /\ opened = Idle
          /\ fetched = Idle
    /\ part # "accounts" =>
          /\ role = Idle /\ active = Idle /\ deleted = Idle /\ acted = Idle
          /\ owner = Idle /\ live = Idle /\ kept = Idle
    /\ part # "caches" =>
          /\ data = Idle /\ cached = Idle /\ count = Idle /\ requests = Idle
          /\ served = Idle /\ outdated = Idle /\ crossed = Idle
          /\ overlapped = Idle
    /\ part # "outbox" =>
          /\ committed = Idle /\ event = Idle /\ lost = Idle
    /\ part # "inspections" =>
          /\ template = Idle /\ inspection = Idle /\ answers = Idle
          /\ stale = Idle /\ cut = Idle
    /\ part = "supervision" => pc = Idle
    /\ part \in {"caches", "messaging", "network", "outbox"} => raced = Idle
    /\ part \notin {"schedules", "supervision"} => missed = Idle
    /\ part \notin {"accounts", "organisation"} => overtaken = Idle
    /\ part \notin {"accounts", "messaging"} => late = Idle
    /\ part \notin {"inspections", "messaging"} => announced = Idle

\* A step is one of the part picked.
Rest ==
    /\ part # "network" => UNCHANGED <<present, row>>
    /\ part # "schedules" => UNCHANGED schedule
    /\ part # "organisation" => UNCHANGED <<mode, state, uses, staffed>>
    /\ part # "supervision" => UNCHANGED <<post, zones>>
    /\ part # "remuneration" =>
          UNCHANGED <<posted, days, open, form, line, profile>>
    /\ part # "rosters" => UNCHANGED <<entry, list>>
    /\ part # "messaging" =>
          UNCHANGED <<conversations, inserted, visible, lastMessage, after, opened, fetched>>
    /\ part # "accounts" =>
          UNCHANGED <<role, active, deleted, acted, owner, live, kept>>
    /\ part # "caches" =>
          UNCHANGED <<data, cached, count, requests, served, outdated, crossed, overlapped>>
    /\ part # "outbox" => UNCHANGED <<committed, event, lost>>
    /\ part # "inspections" =>
          UNCHANGED <<template, inspection, answers, stale, cut>>
    /\ part = "supervision" => UNCHANGED pc
    /\ part \in {"caches", "messaging", "network", "outbox"} => UNCHANGED raced
    /\ part \notin {"schedules", "supervision"} => UNCHANGED missed
    /\ part \notin {"accounts", "organisation"} => UNCHANGED overtaken
    /\ part \notin {"accounts", "messaging"} => UNCHANGED late
    /\ part \notin {"inspections", "messaging"} => UNCHANGED announced

OfficeInit ==
    /\ part \in {"network", "schedules", "organisation", "supervision",
                 "remuneration", "rosters", "messaging", "accounts", "caches",
                 "outbox", "inspections"}
    /\ Blank
    /\ part = "network" => Init
    /\ part = "schedules" => Planning!Init
    /\ part = "organisation" => Config!Init
    /\ part = "supervision" => Supervisors!Init
    /\ part = "remuneration" => Payment!Init
    /\ part = "rosters" => Checklists!Init
    /\ part = "messaging" => Messages!Init
    /\ part = "accounts" => People!Init
    /\ part = "caches" => Kept!Init
    /\ part = "outbox" => Events!Init
    /\ part = "inspections" => Inspecting!Init

OfficeNext ==
    /\ UNCHANGED part /\ Rest
    /\ \/ part = "network" /\ Next
       \/ part = "schedules" /\ Planning!Next
       \/ part = "organisation" /\ Config!Next
       \/ part = "supervision" /\ Supervisors!Next
       \/ part = "remuneration" /\ Payment!Next
       \/ part = "rosters" /\ Checklists!Next
       \/ part = "messaging" /\ Messages!Next
       \/ part = "accounts" /\ People!Next
       \/ part = "caches" /\ Kept!Next
       \/ part = "outbox" /\ Events!Next
       \/ part = "inspections" /\ Inspecting!Next

officeVars ==
    <<part, pc, call, raced, missed, overtaken, late, announced,
      present, row,
      schedule,
      mode, state, uses, staffed,
      post, zones,
      posted, days, open, form, line, profile,
      entry, list,
      conversations, inserted, visible, lastMessage, after, opened, fetched,
      role, active, deleted, acted, owner, live, kept,
      data, cached, count, requests, served, outdated, crossed, overlapped,
      committed, event, lost,
      template, inspection, answers, stale, cut>>

OfficeSpec == OfficeInit /\ [][OfficeNext]_officeVars

------------------------------------------------------------------------------
\* Types; and no cleaner's ACTIVE schedules overlap on a day, a schedule past
\* midnight included, unless two were compared before either was saved.
SchedulesOK ==
    part = "schedules" => Planning!IInv /\ Planning!NobodyIsInTwoPlaces

\* "FULL_TIME sites cannot have any active shifts", and a SHIFT site that has
\* had a shift keeps one; no shift that attendance refers to and no area that
\* an inspection refers to is inactive. All of it only if no request was
\* saved on a check that another had outdated.
ConfigurationFits == part = "organisation" => Config!IInv

\* A site has at most MAX_SITE_SUPERVISORS_PER_SITE active supervisors, one of
\* them primary at most, and an assistant for all zones holds no single zone,
\* unless two requests assigned at the same time.
SupervisionFits == part = "supervision" => Supervisors!IInv

\* A submitted or reviewed form is the one HR was shown: the days and contacts
\* of its snapshot are those of its lines, a contact is in a payment profile if
\* and only if the form that recorded it was reviewed, and it is the contact
\* recorded; unless a call committed over a form that had changed.
PaidAsSubmitted == part = "remuneration" => Payment!IInv

\* "Immutable-on-submit source record": a submitted or reviewed checklist has
\* entries, and they are those of its snapshot, unless a call wrote over a
\* checklist that had changed. "Preserving the checklist-to-roster
\* relationship": the entry of a checklist is never deleted, whatever the order.
ChecklistsStand == part = "rosters" => Checklists!IInv

\* Two users have one direct conversation; an event is published for messages
\* only that the history returns; and a polling client has had every message
\* between its first page and its last id, those excepted that were committed
\* after one inserted later had reached it.
MessagesArrive == part = "messaging" => Messages!IInv

\* A token of a disabled account is not usable again when the account is: it
\* was revoked, unless an update deactivated the account or the token was
\* issued meanwhile; and an active administrator remains, unless an account was
\* saved by a request that another one overtook.
AccountsOK == part = "accounts" => People!IInv

\* What the cache holds of a site is what is committed, unless a read and a
\* write crossed; and a client has no more requests served in a minute than its
\* limit, unless two of them overlapped.
CachesOK == part = "caches" => Kept!IInv

\* A change that was rolled back has no event, and one that committed has one
\* as soon as its request is over, unless the process died in between.
EventsFollowCommits == part = "outbox" => Events!IInv

\* Types; and a submitted inspection has every required answer and the score
\* and verdict of its answers, however often it was returned and corrected, as
\* long as no call wrote what it had not read anew, and its items are kept.
InspectionsOK == part = "inspections" => Inspecting!IInv

\* An inspection that stands failed has announced each of its failed items.
FailuresAnnounced == part = "inspections" => Inspecting!FailuresAnnounced

\* An answer of a submitted inspection changes only with the items of the
\* template, or by a call that saw the inspection before it was submitted.
SubmittedAnswersStand ==
    [][part = "inspections" => Inspecting!AnswersStand]_officeVars
===============================================================================
