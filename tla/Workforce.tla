------------------------------- MODULE Workforce -------------------------------
(***************************************************************************)
(* Cleaners from registration to deactivation, with their identity         *)
(* documents, training programmes and site assignments: cleaner_services,  *)
(* trainee_services, the site assignments of assignment_services and the   *)
(* import and transfer of hr_services.  A request loads rows, decides on    *)
(* them and saves them; only the uniqueness constraints of the database    *)
(* look at what is committed by then.                                      *)
(***************************************************************************)
EXTENDS FiniteSets

CONSTANTS
    Cleaners, Sites,
    Programs, Posts,  \* bound: the training programmes and assignments there can be
    Workers,          \* threads that serve requests
    Desks             \* bound: the sets of operations one behaviour uses

VARIABLES
    desk,        \* the operations of this behaviour
    cleaner,     \* the committed status of each cleaner
    document,    \* the state of its identity document
    program,     \* the committed training programmes
    certified,   \* those with a final evaluation
    post,        \* the committed site assignments
    pc, call,    \* each worker's stage and the call it serves
    stale        \* workers that go by rows which have been written since

rows == <<cleaner, document, program, certified, post>>

vars == <<desk, rows, pc, call, stale>>

------------------------------------------------------------------------------
Statuses == {"applicant", "trainee", "active", "inactive"}

CLEANER_TRANSITIONS ==
    [applicant |-> {"trainee", "inactive"},
     trainee   |-> {"active", "inactive", "applicant"},
     active    |-> {"inactive", "trainee"},
     inactive  |-> {"active", "trainee", "applicant"}]

ActiveProgram == {"in_training", "extended"}

None == "none"

\* A programme or an assignment that is not there.
NoRow == [of |-> None, site |-> None, status |-> "absent"]

NoCall == [op |-> None, on |-> None, status |-> None, programs |-> {},
           posts |-> {}, row |-> NoRow, to |-> None, next |-> None]

Init ==
    /\ desk \in Desks
    /\ cleaner = [x \in Cleaners |-> "absent"]
    /\ document = [x \in Cleaners |-> None]
    /\ program = [p \in Programs |-> NoRow]
    /\ certified = {}
    /\ post = [p \in Posts |-> NoRow]
    /\ pc = [w \in Workers |-> "idle"]
    /\ call = [w \in Workers |-> NoCall]
    /\ stale = {}

\* uniq_active_trainee_program and uniq_active_cleaner_site_assignment.
OneTraining(programs) ==
    \A p, q \in Programs :
        /\ programs[p].status \in ActiveProgram
        /\ programs[q].status \in ActiveProgram
        /\ programs[p].of = programs[q].of
        => p = q

OnePostPerSite(posts) ==
    \A p, q \in Posts :
        /\ posts[p].status \in {"active", "suspended"}
        /\ posts[q].status \in {"active", "suspended"}
        /\ posts[p].of = posts[q].of /\ posts[p].site = posts[q].site
        => p = q

LivePosts(x) == {p \in Posts : /\ post[p].of = x
                               /\ post[p].status \in {"active", "draft"}}

InTraining(x) ==
    {p \in Programs : program[p].of = x /\ program[p].status \in ActiveProgram}

------------------------------------------------------------------------------
(* Loading, and the checks that are made on what was loaded.                *)

\* w loads the cleaner c.on, with the programme or assignment of the call.
Begins(w, c) ==
    /\ pc[w] = "idle"
    /\ c.op \in desk
    /\ pc' = [pc EXCEPT ![w] = "loaded"]
    /\ call' = [call EXCEPT ![w] = [c EXCEPT !.status = cleaner[c.on]]]
    /\ stale' = stale \ {w}
    /\ UNCHANGED <<desk, rows>>

OnCleaner(op, x) == [NoCall EXCEPT !.op = op, !.on = x]

OnProgram(op, p) ==
    [NoCall EXCEPT !.op = op, !.on = program[p].of, !.programs = {p},
                   !.row = program[p]]

OnPost(op, p) ==
    [NoCall EXCEPT !.op = op, !.on = post[p].of, !.posts = {p},
                   !.row = post[p]]

Registered == {x \in Cleaners : cleaner[x] # "absent"}

UpdateCleaner(w) == \E x \in Registered : Begins(w, OnCleaner("update", x))

\* change_cleaner_status: only the transitions of the table.
ChangeStatus(w) ==
    \E x \in Registered : \E s \in CLEANER_TRANSITIONS[cleaner[x]] :
        Begins(w, [OnCleaner("status", x) EXCEPT !.to = s])

\* activate_cleaner_if_eligible and deactivate_cleaner, of the admin site.
Activate(w) ==
    \E x \in Registered :
        /\ cleaner[x] # "active"
        /\ Begins(w, [OnCleaner("eligible", x) EXCEPT !.to = "active"])

Deactivate(w) ==
    \E x \in Registered :
        /\ cleaner[x] # "inactive"
        /\ Begins(w, [OnCleaner("deactivate", x) EXCEPT !.to = "inactive"])

StartTraining(w) ==
    \E x \in Registered, s \in Sites :
        /\ cleaner[x] # "active"
        /\ Begins(w, [OnCleaner("start", x) EXCEPT !.to = s])

\* The operations on a programme that has not been completed.
TrainingStep(w) ==
    \E p \in Programs, op \in {"supervise", "extend", "pass", "fail", "drop"} :
        /\ program[p].status \in ActiveProgram
        /\ Begins(w, OnProgram(op, p))

Assign(w) ==
    \E x \in Registered, s \in Sites :
        /\ cleaner[x] # "inactive"
        /\ Begins(w, [OnCleaner("assign", x) EXCEPT !.to = s])

\* Ending and suspending ask nothing of the assignment.
PostStep(w) ==
    \E p \in Posts, op \in {"edit", "end", "suspend", "activate"} :
        /\ post[p].status # "absent"
        /\ op = "activate" => cleaner[post[p].of] = "active"
        /\ op = "edit" /\ post[p].status = "active" =>
             cleaner[post[p].of] = "active"
        /\ Begins(w, OnPost(op, p))

\* One person of transfer_cleaners_between_sites.
Transfer(w) ==
    \E x \in Registered, s \in Sites :
        /\ cleaner[x] # "inactive"
        /\ LivePosts(x) # {} => \E p \in LivePosts(x) : post[p].site # s
        /\ Begins(w, [OnCleaner("transfer", x) EXCEPT !.to = s,
                        !.posts = LivePosts(x), !.programs = InTraining(x)])

\* One row of the workbook, for a cleaner who is registered already.
ImportAgain(w) ==
    \E x \in Registered, s \in Sites, t \in {"trainee", "active"} :
        Begins(w, [OnCleaner("import", x) EXCEPT !.to = s, !.next = t])

\* Whether the call asks for a verified identity document before it writes.
NeedsIdentity(c) ==
    \/ c.op \in {"pass", "eligible"}
    \/ c.op = "status" /\ c.to = "active"

\* Mutant: the certificate is enough.
CheckIdentity_FinalOnly(w) ==
    LET c == call[w] IN
    /\ pc[w] = "loaded"
    /\ NeedsIdentity(c)
    /\ c.op = "pass" => c.programs \subseteq certified
    /\ pc' = [pc EXCEPT ![w] = "checked"]
    /\ UNCHANGED <<desk, rows, call, stale>>

CheckIdentity(w) ==
    LET c == call[w] IN
    /\ pc[w] = "loaded"
    /\ NeedsIdentity(c)
    /\ document[c.on] = "verified"
    /\ c.op = "pass" => c.programs \subseteq certified
    /\ pc' = [pc EXCEPT ![w] = "checked"]
    /\ UNCHANGED <<desk, rows, call, stale>>

------------------------------------------------------------------------------
(* Writing.                                                                 *)

Reads(op) ==
    CASE op \in {"supervise", "extend"} -> {"program"}
      [] op \in {"pass", "fail", "drop"} -> {"program", "cleaner"}
      [] op \in {"end", "suspend"} -> {"post"}
      [] op \in {"edit", "activate"} -> {"post", "cleaner"}
      [] op = "transfer" -> {"post", "cleaner", "program"}
      [] OTHER -> {"cleaner"}

\* The other workers whose reading of x is out of date when `parts` change.
Overtaken(w, x, parts) ==
    {v \in Workers \ {w} :
        /\ pc[v] # "idle" /\ call[v].on = x
        /\ Reads(call[v].op) \cap parts # {}}

Commits(w, parts) ==
    /\ pc[w] = IF NeedsIdentity(call[w]) THEN "checked" ELSE "loaded"
    /\ stale' = (stale \cup Overtaken(w, call[w].on, parts)) \ {w}
    /\ UNCHANGED <<desk, document, certified>>

Finishes(w) ==
    /\ pc' = [pc EXCEPT ![w] = "idle"]
    /\ call' = [call EXCEPT ![w] = NoCall]

\* _set_cleaner_status: saved unless the object says so already.
SetStatus(c, s) ==
    cleaner' = IF c.status = s THEN cleaner ELSE [cleaner EXCEPT ![c.on] = s]

\* Mutant: without the constraint.
Starts_Unchecked(x, s) ==
    \E p \in Programs :
        /\ program[p] = NoRow
        /\ program' = [program EXCEPT ![p] = [of |-> x, site |-> s,
                                             status |-> "in_training"]]

\* start_trainee_program: the constraint allows one training at a time.
Starts(x, s) ==
    \E p \in Programs :
        /\ program[p] = NoRow
        /\ program' = [program EXCEPT ![p] = [of |-> x, site |-> s,
                                             status |-> "in_training"]]
        /\ OneTraining(program')

\* The status of an assignment goes by the status of the cleaner.
Posting(status) == IF status = "active" THEN "active" ELSE "draft"

\* assign_cleaner_to_site, on top of the assignments as they are then.
Assigns(posts, x, s, status) ==
    \E p \in Posts :
        /\ posts[p] = NoRow
        /\ post' = [posts EXCEPT ![p] = [of |-> x, site |-> s,
                                        status |-> Posting(status)]]
        /\ OnePostPerSite(post')

\* The first request of the onboarding endpoint: it assigns the new cleaner and
\* starts the training in transactions of their own.
Register(w) ==
    \E x \in Cleaners \ Registered, s \in Sites, t \in {"trainee", "active"} :
        /\ pc[w] = "idle" /\ "register" \in desk
        /\ cleaner' = [cleaner EXCEPT ![x] = t]
        /\ pc' = [pc EXCEPT ![w] = "loaded"]
        /\ call' = [call EXCEPT ![w] = [OnCleaner("assign", x) EXCEPT
                      !.to = s, !.status = t,
                      !.next = IF t = "trainee" THEN "start" ELSE None]]
        /\ stale' = stale \ {w}
        /\ UNCHANGED <<desk, document, program, certified, post>>

\* The row of the cleaner is saved whole, with the status that was loaded.
SaveCleaner(w) ==
    /\ call[w].op = "update"
    /\ Commits(w, {"cleaner"})
    /\ cleaner' = [cleaner EXCEPT ![call[w].on] = call[w].status]
    /\ Finishes(w)
    /\ UNCHANGED <<program, post>>

SaveStatus(w) ==
    /\ call[w].op \in {"status", "eligible", "deactivate"}
    /\ Commits(w, {"cleaner"})
    /\ cleaner' = [cleaner EXCEPT ![call[w].on] = call[w].to]
    /\ Finishes(w)
    /\ UNCHANGED <<program, post>>

SaveStart(w) ==
    LET c == call[w] IN
    /\ c.op = "start"
    /\ Commits(w, {"cleaner", "program"})
    /\ Starts(c.on, c.to)
    /\ SetStatus(c, "trainee")
    /\ Finishes(w)
    /\ UNCHANGED post

\* The status a programme is saved with.
Outcome(c) ==
    CASE c.op = "supervise" -> c.row.status
      [] c.op = "extend" -> "extended"
      [] c.op = "pass" -> "passed"
      [] c.op = "fail" -> "failed"
      [] c.op = "drop" -> "dropped"

SaveTraining(w) ==
    LET c == call[w] IN
    /\ c.op \in {"supervise", "extend", "pass", "fail", "drop"}
    /\ Commits(w, {"program"} \cup IF c.op \in {"supervise", "extend"} THEN {}
                                  ELSE {"cleaner"})
    /\ \E p \in c.programs :
         program' = [program EXCEPT ![p] = [c.row EXCEPT !.status = Outcome(c)]]
    /\ OneTraining(program')
    /\ IF c.op \in {"supervise", "extend"} THEN UNCHANGED cleaner
       ELSE SetStatus(c, IF c.op = "pass" THEN "active" ELSE "inactive")
    /\ Finishes(w)
    /\ UNCHANGED post

SaveAssign(w) ==
    LET c == call[w] IN
    /\ c.op = "assign"
    /\ Commits(w, {"post"})
    /\ Assigns(post, c.on, c.to, c.status)
    /\ IF c.next = "start"
       THEN /\ call' = [call EXCEPT ![w].op = "start", ![w].next = None]
            /\ UNCHANGED pc
       ELSE Finishes(w)
    /\ UNCHANGED <<cleaner, program>>

\* end and suspend save the status; edit and activate the whole row.
SavePost(w) ==
    LET c == call[w] IN
    /\ c.op \in {"edit", "end", "suspend", "activate"}
    /\ Commits(w, {"post"})
    /\ \E p \in c.posts :
         post' = [post EXCEPT ![p].status =
                    CASE c.op = "edit" -> c.row.status
                      [] c.op = "end" -> "ended"
                      [] c.op = "suspend" -> "suspended"
                      [] c.op = "activate" -> "active"]
    /\ OnePostPerSite(post')
    /\ Finishes(w)
    /\ UNCHANGED <<cleaner, program>>

\* Mutant: the training stays where it is.
Moved_Stays(c) == program

\* transfer_trainee_program: only the site of the programme is saved.
Moved(c) ==
    [p \in Programs |-> IF p \in c.programs
                        THEN [program[p] EXCEPT !.site = c.to] ELSE program[p]]

\* The assignments that were live when it looked are ended, another is made,
\* and the training moves along; it starts if a trainee has none.
SaveTransfer(w) ==
    LET c == call[w]
        ended == [p \in Posts |-> IF p \in c.posts
                                  THEN [post[p] EXCEPT !.status = "ended"]
                                  ELSE post[p]]
    IN
    /\ c.op = "transfer"
    /\ Commits(w, {"cleaner", "program", "post"})
    /\ Assigns(ended, c.on, c.to, c.status)
    /\ IF c.programs = {} /\ c.status = "trainee" THEN Starts(c.on, c.to)
       ELSE program' = Moved(c)
    /\ Finishes(w)
    /\ UNCHANGED cleaner

\* A row of the workbook is imported: the cleaner, unless he is known, an
\* assignment unless he has one at the site, and the training of a trainee.
Imported(x, s, status, t) ==
    /\ IF \E p \in LivePosts(x) : post[p].site = s THEN UNCHANGED post
       ELSE /\ status # "inactive"
            /\ Assigns(post, x, s, status)
    /\ IF t = "trainee" /\ InTraining(x) = {}
       THEN /\ status # "active"
            /\ Starts(x, s)
            /\ cleaner' = IF status = "trainee" /\ cleaner[x] # "absent" THEN cleaner
                          ELSE [cleaner EXCEPT ![x] = "trainee"]
       ELSE /\ UNCHANGED program
            /\ cleaner' = IF cleaner[x] = "absent"
                          THEN [cleaner EXCEPT ![x] = t] ELSE cleaner

SaveImport(w) ==
    LET c == call[w] IN
    /\ c.op = "import"
    /\ pc[w] = "loaded"
    /\ Imported(c.on, c.to, c.status, c.next)
    /\ Finishes(w)
    /\ stale' = (stale \cup Overtaken(w, c.on, {"cleaner", "program", "post"}))
                  \ {w}
    /\ UNCHANGED <<desk, document, certified>>

ImportNew ==
    \E x \in Cleaners \ Registered, s \in Sites, t \in {"trainee", "active"} :
        /\ "import" \in desk
        /\ Imported(x, s, t, t)
        /\ UNCHANGED <<desk, document, certified, pc, call, stale>>

\* upload_, verify_ and reject_cleaner_document; the last word wins.
ReviewDocument ==
    \E x \in Registered, d \in {"pending", "verified", "rejected"} :
        /\ "document" \in desk
        /\ (document[x] = None) = (d = "pending")
        /\ document' = [document EXCEPT ![x] = d]
        /\ stale' = stale \cup {v \in Workers : /\ pc[v] = "checked"
                                                /\ call[v].on = x}
        /\ UNCHANGED <<desk, cleaner, program, certified, post, pc, call>>

\* record_trainee_evaluation, of a programme in any state.
EvaluateFinally ==
    \E p \in Programs :
        /\ "pass" \in desk
        /\ program[p].status # "absent"
        /\ certified' = certified \cup {p}
        /\ UNCHANGED <<desk, cleaner, document, program, post, pc, call, stale>>

\* A refusal after the load, a constraint of the database, or a crash.
Abort(w) ==
    /\ pc[w] # "idle"
    /\ Finishes(w)
    /\ stale' = stale \ {w}
    /\ UNCHANGED <<desk, rows>>

Step(w) ==
    \/ Register(w) \/ UpdateCleaner(w) \/ ChangeStatus(w) \/ Activate(w)
    \/ Deactivate(w) \/ StartTraining(w) \/ TrainingStep(w) \/ Assign(w)
    \/ PostStep(w) \/ Transfer(w) \/ ImportAgain(w) \/ CheckIdentity(w)
    \/ SaveCleaner(w) \/ SaveStatus(w) \/ SaveStart(w) \/ SaveTraining(w)
    \/ SaveAssign(w) \/ SavePost(w) \/ SaveTransfer(w) \/ SaveImport(w)
    \/ Abort(w)

Next ==
    \/ ImportNew \/ ReviewDocument \/ EvaluateFinally
    \/ \E w \in Workers : Step(w)

Spec == Init /\ [][Next]_vars

------------------------------------------------------------------------------
RowsOf(statuses) ==
    [of : Cleaners, site : Sites, status : statuses] \cup {NoRow}

TypeOK ==
    /\ desk \in Desks
    /\ cleaner \in [Cleaners -> Statuses \cup {"absent"}]
    /\ document \in [Cleaners -> {None, "pending", "verified", "rejected"}]
    /\ program \in [Programs -> RowsOf(ActiveProgram \cup
                                       {"passed", "failed", "dropped"})]
    /\ certified \subseteq Programs
    /\ post \in [Posts -> RowsOf({"draft", "active", "suspended", "ended"})]
    /\ pc \in [Workers -> {"idle", "loaded", "checked"}]
    /\ stale \subseteq Workers

\* The worker whose call ends with this step.
Ends(w) == pc[w] # "idle" /\ (pc'[w] = "idle" \/ call'[w].op # call[w].op)

\* "Cannot become ACTIVE without at least one verified identity document": a
\* registered cleaner who becomes active has one at that moment, and a trainee
\* who passes a final evaluation too, unless the request was overtaken.
ActivationIsEarned ==
    [][\A x \in Registered :
         cleaner[x] # "active" /\ cleaner'[x] = "active" =>
             \/ document[x] = "verified"
             \/ \E w \in stale : Ends(w) /\ call[w].on = x]_vars

\* "Only ACTIVE cleaners hold ACTIVE assignments": an assignment becomes active
\* only while its cleaner is, unless the request was overtaken.
PostsGoToActive ==
    [][\A p \in Posts :
         post[p].status # "active" /\ post'[p].status = "active" =>
             \/ cleaner'[post'[p].of] = "active"
             \/ \E w \in stale : Ends(w) /\ call[w].on = post'[p].of]_vars

\* A programme that is completed stays completed, and the cleaner whose
\* programme is completed has the status that goes with it at that moment,
\* unless the request was overtaken.
CompletionStands ==
    [][\A p \in Programs : program'[p].status # program[p].status =>
         \/ program[p].status = "absent"
         \/ \E w \in stale : Ends(w) /\ call[w].on = program[p].of
         \/ /\ program[p].status \in ActiveProgram
            /\ program'[p].status = "passed" => cleaner'[program[p].of] = "active"
            /\ program'[p].status \in {"failed", "dropped"} =>
                 cleaner'[program[p].of] = "inactive"]_vars

\* Statuses of people, assignments and programmes are earned when they change.
StatusIsEarned == ActivationIsEarned /\ PostsGoToActive /\ CompletionStands

\* Nobody moves with a request that nobody overtook and is left with live
\* assignments at another site, or with a training elsewhere.
TransfersMoveEverything ==
    [][\A w \in Workers \ stale, x \in Cleaners :
         call[w].op = "transfer" /\ call[w].on = x /\ Ends(w) /\ post' # post =>
             /\ \A p \in LivePosts(x)' : post'[p].site = call[w].to
             /\ \A p \in InTraining(x)' : program'[p].site = call[w].to
             /\ cleaner[x] = "trainee" => InTraining(x)' # {}]_vars

WorkforceOK == TypeOK /\ OneTraining(program) /\ OnePostPerSite(post)
==============================================================================
