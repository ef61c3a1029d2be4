------------------------------ MODULE Remuneration ------------------------------
(***************************************************************************)
(* The monthly remuneration form of one site (remuneration_services.py):   *)
(* prepared from attendance by its site supervisor, who records new        *)
(* payment contacts, submitted, and reviewed or returned by HR. A review   *)
(* copies the contacts to the cleaners' payment profiles.                  *)
(*                                                                         *)
(* A request loads the form, and a line, and checks their status before it *)
(* opens its transaction. One contact stands for phone, account and holder.*)
(***************************************************************************)
EXTENDS Naturals

CONSTANTS
    Cleaners,
    Contacts,  \* a new contact; "" is none
    MaxDays,   \* bound: days of attendance
    Workers    \* threads that serve requests

VARIABLES
    posted,    \* cleaners with an active assignment in the month
    days,      \* the days each was present
    open,      \* the month's window, day 15 to day 25, is open
    form,      \* status and snapshot
    line,      \* of each cleaner
    profile,   \* the contact of each cleaner that was approved last
    pc, call,  \* each worker's stage and what it loaded
    raced      \* a call committed over a form that had changed

vars == <<posted, days, open, form, line, profile, pc, call, raced>>

------------------------------------------------------------------------------
NoForm == [status |-> "none", snapshot |-> <<>>]
NoLine == [days |-> 0, proposed |-> "", decision |-> "none"]
NoCall == [op |-> "none", form |-> NoForm, cleaner |-> "none",
           line |-> NoLine, value |-> ""]

\* Mutant: a submitted form is editable.
IsEditable_Submitted(f) == f.status # "reviewed"

IsEditable(f) == f.status \in {"draft", "returned"}

Lines == {c \in Cleaners : line[c] # NoLine}

Init ==
    /\ posted = {}
    /\ days = [c \in Cleaners |-> 0]
    /\ open = TRUE
    /\ form = NoForm
    /\ line = [c \in Cleaners |-> NoLine]
    /\ profile = [c \in Cleaners |-> ""]
    /\ pc = [w \in Workers |-> "idle"]
    /\ call = [w \in Workers |-> NoCall]
    /\ raced = FALSE

------------------------------------------------------------------------------
\* _refresh_report_lines: a new line for who has none, whatever the status of
\* the form; the days of the others while the form, as loaded, is editable.
Refreshed(f) ==
    [c \in Cleaners |->
        IF c \notin posted THEN line[c]
        ELSE IF c \notin Lines
        THEN [days |-> days[c], proposed |-> "", decision |-> "pending"]
        ELSE IF IsEditable(f) THEN [line[c] EXCEPT !.days = days[c]]
        ELSE line[c]]

\* prepare_monthly_remuneration, the first time
Prepare ==
    /\ open /\ form = NoForm
    /\ form' = [NoForm EXCEPT !.status = "draft"]
    /\ line' = Refreshed(form')
    /\ UNCHANGED <<posted, days, open, profile, pc, call, raced>>

\* What the services ask of the form, and line, as loaded.
Accepts(op, f) ==
    /\ op = "prepare" => open
    /\ op \in {"decide", "submit"} => IsEditable(f)
    /\ op \in {"review", "return"} => f.status = "submitted"

Operations == {"prepare", "decide", "submit", "review", "return"}

Load(w) ==
    \E op \in Operations,
       c \in Lines \cup {"none"}, value \in Contacts \cup {""} :
        /\ pc[w] = "idle" /\ form # NoForm
        /\ IF op = "decide" THEN c # "none" ELSE c = "none" /\ value = ""
        /\ Accepts(op, form)
        /\ pc' = [pc EXCEPT ![w] = "loaded"]
        /\ call' = [call EXCEPT ![w] =
               [op |-> op, form |-> form, cleaner |-> c, value |-> value,
                line |-> IF c = "none" THEN NoLine ELSE line[c]]]
        /\ UNCHANGED <<posted, days, open, form, line, profile, raced>>

\* save_payment_contact_decision saves all columns of the line it loaded.
Decide(c) ==
    /\ c.op = "decide"
    /\ line' = [line EXCEPT ![c.cleaner] =
                  [c.line EXCEPT !.proposed = c.value, !.decision = "pending"]]
    /\ UNCHANGED <<form, profile>>

PrepareAgain(c) ==
    /\ c.op = "prepare"
    /\ line' = Refreshed(c.form)
    /\ UNCHANGED <<form, profile>>

\* What HR is shown: the days, and whether a contact is recorded.
Snapshot ==
    [c \in Lines |-> [days |-> line[c].days, recorded |-> line[c].proposed # ""]]

\* submit_monthly_remuneration
Submit(c) ==
    /\ c.op = "submit"
    /\ form' = [status |-> "submitted", snapshot |-> Snapshot]
    /\ UNCHANGED <<line, profile>>

\* review_monthly_remuneration approves every contact that is recorded.
Review(c) ==
    LET approved == {x \in Lines : line[x].proposed # ""}
    IN
    /\ c.op = "review"
    /\ form' = [c.form EXCEPT !.status = "reviewed"]
    /\ line' = [x \in Cleaners |-> IF x \in approved
                  THEN [line[x] EXCEPT !.decision = "approved"] ELSE line[x]]
    /\ profile' = [x \in Cleaners |-> IF x \in approved
                     THEN line[x].proposed ELSE profile[x]]

Return(c) ==
    /\ c.op = "return"
    /\ form' = [c.form EXCEPT !.status = "returned"]
    /\ UNCHANGED <<line, profile>>

Commit(w) ==
    /\ pc[w] = "loaded"
    /\ LET c == call[w]
       IN  Decide(c) \/ PrepareAgain(c) \/ Submit(c) \/ Review(c) \/ Return(c)
    /\ raced' = (raced \/ call[w].form # form)
    /\ pc' = [pc EXCEPT ![w] = "idle"]
    /\ call' = [call EXCEPT ![w] = NoCall]
    /\ UNCHANGED <<posted, days, open>>

Abort(w) ==
    /\ pc[w] = "loaded"
    /\ pc' = [pc EXCEPT ![w] = "idle"]
    /\ call' = [call EXCEPT ![w] = NoCall]
    /\ UNCHANGED <<posted, days, open, form, line, profile, raced>>

\* Assignments and attendance go on, and the window ends.
Month ==
    /\ \/ /\ \E c \in Cleaners \ posted : posted' = posted \cup {c}
          /\ UNCHANGED <<days, open>>
       \/ /\ \E c \in posted : /\ days[c] < MaxDays
                               /\ days' = [days EXCEPT ![c] = @ + 1]
          /\ UNCHANGED <<posted, open>>
       \/ /\ open
          /\ open' = FALSE
          /\ UNCHANGED <<posted, days>>
    /\ UNCHANGED <<form, line, profile, pc, call, raced>>

Step(w) == Load(w) \/ Commit(w) \/ Abort(w)

Next == Prepare \/ Month \/ \E w \in Workers : Step(w)

Spec == Init /\ [][Next]_vars

------------------------------------------------------------------------------
Shown == [days : 0 .. MaxDays, recorded : BOOLEAN]

Forms ==
    [status : {"none", "draft", "submitted", "reviewed", "returned"},
     snapshot : UNION {[S -> Shown] : S \in SUBSET Cleaners}]

LineRows ==
    [days : 0 .. MaxDays, proposed : Contacts \cup {""},
     decision : {"none", "pending", "approved"}]

CallRows ==
    [op : Operations \cup {"none"}, form : Forms, cleaner : Cleaners \cup {"none"},
     line : LineRows, value : Contacts \cup {""}]

TypeOK ==
    /\ posted \subseteq Cleaners
    /\ days \in [Cleaners -> 0 .. MaxDays]
    /\ form \in Forms
    /\ line \in [Cleaners -> LineRows]
    /\ profile \in [Cleaners -> Contacts \cup {""}]
    /\ pc \in [Workers -> {"idle", "loaded"}]
    /\ call \in [Workers -> CallRows]
    /\ raced \in BOOLEAN

\* A submitted or reviewed form is the one HR was shown: the days and contacts
\* of its snapshot are those of its lines, a contact is in a payment profile if
\* and only if the form that recorded it was reviewed, and it is the contact
\* recorded; unless a call committed over a form that had changed.
LinesAsShown ==
    form.status \in {"submitted", "reviewed"} =>
        \A c \in DOMAIN form.snapshot :
          /\ line[c].days = form.snapshot[c].days
          /\ line[c].proposed # "" <=> form.snapshot[c].recorded

ProfilesAsReviewed ==
    \A c \in Cleaners :
        /\ line[c].decision = "approved" <=>
             form.status = "reviewed" /\ line[c].proposed # ""
        /\ profile[c] = IF line[c].decision = "approved"
                        THEN line[c].proposed ELSE ""

PaidAsSubmitted == TypeOK /\ (~raced => LinesAsShown /\ ProfilesAsReviewed)

\* A line is never deleted: what was shown of it has it still.
LinesAreKept ==
    /\ \A c \in Lines : line[c].decision # "none"
    /\ DOMAIN form.snapshot \subseteq Lines
    /\ \A w \in Workers : DOMAIN call[w].form.snapshot \subseteq Lines

\* What a request found of the form that it loaded.
LoadedWasAccepted ==
    \A w \in Workers : pc[w] = "loaded" =>
        LET c == call[w] IN
        /\ c.op \in {"decide", "submit"} => IsEditable(c.form)
        /\ c.op \in {"review", "return"} => c.form.status = "submitted"
        /\ c.op = "decide" => c.cleaner \in Cleaners

IInv == PaidAsSubmitted /\ LinesAreKept /\ LoadedWasAccepted
==============================================================================
