------------------------------ MODULE Inspections ------------------------------
(***************************************************************************)
(* Inspections against a template, from inspection_services.py: answers to *)
(* the items of the template, the score, submission, review and return.    *)
(* The row of an inspection is saved whole, from the object the request    *)
(* loaded; editing a template replaces its items and with them the answers *)
(* that were given to them.                                                *)
(***************************************************************************)
EXTENDS Integers, FiniteSets, FiniteSetsExt

CONSTANTS
    Inspections,
    Items,       \* bound: the items the template can have, ever
    FirstItems,  \* those it is created with
    ItemType, Required,  \* of each item
    Scores,      \* hundredths, the answers to score items
    Workers      \* threads that serve requests

VARIABLES
    template,    \* the items of the template now, and those it has had
    inspection,  \* the committed rows
    answers,     \* the committed results of each inspection, by item
    announced,   \* the failed items an event was emitted for
    pc, call,    \* each worker's stage and the call it serves
    stale,       \* workers whose read of a row or of answers is out of date
    raced,       \* whether such a worker has written
    cut          \* inspections that lost answers since their last submission

vars == <<template, inspection, answers, announced, pc, call, stale, raced, cut>>

------------------------------------------------------------------------------
Nothing == -1  \* no number

NoAnswer == [passed |-> "unknown", number |-> Nothing, file |-> FALSE]

Pass(n) == IF n >= 5000 THEN "yes" ELSE "no"

\* The answers that InspectionResult.clean lets through, completed by it.
Valid(item) ==
    IF ItemType[item] = "score"
    THEN {[NoAnswer EXCEPT !.passed = Pass(n), !.number = n] : n \in Scores}
    ELSE {[NoAnswer EXCEPT !.passed = p] :
            p \in IF ItemType[item] \in {"text", "photo"} THEN {"yes", "no", "unknown"}
                  ELSE {"yes", "no"}}

\* The item has an answer that is complete.
Completed(item, given) ==
    /\ item \in DOMAIN given
    /\ ItemType[item] = "photo" => given[item].file

MissingItems(given) ==
    {item \in template.items \cap Required : ~Completed(item, given)}

\* Decimal.quantize: the nearest hundredth, the even one of two.
Quantize(sum, n) ==
    LET q == sum \div n
        r == sum % n
    IN  IF 2 * r > n \/ (2 * r = n /\ q % 2 = 1) THEN q + 1 ELSE q

PassThreshold == 7000

MaxScore == 10000

\* Mutant: the threshold decides before the failed answers do.
Score_ThresholdFirst(given) ==
    LET scored == {item \in DOMAIN given : given[item].number # Nothing}
        score == IF scored = {} THEN Nothing
                 ELSE Quantize(MapThenSumSet(LAMBDA i : given[i].number, scored),
                               Cardinality(scored))
    IN  [score |-> score,
         overall |-> IF score # Nothing /\ score < PassThreshold
                     THEN "needs_attention"
                     ELSE IF \E item \in DOMAIN given : given[item].passed = "no"
                     THEN "failed" ELSE "passed"]

\* calculate_inspection_score: the average of the numbers, and the verdict.
Score(given) ==
    LET scored == {item \in DOMAIN given : given[item].number # Nothing}
        score == IF scored = {} THEN Nothing
                 ELSE Quantize(MapThenSumSet(LAMBDA i : given[i].number, scored),
                               Cardinality(scored))
    IN  [score |-> score,
         overall |-> IF \E item \in DOMAIN given : given[item].passed = "no"
                     THEN "failed"
                     ELSE IF score # Nothing /\ score < PassThreshold
                     THEN "needs_attention" ELSE "passed"]

FailedItems(given) == {item \in DOMAIN given : given[item].passed = "no"}

Unscored == [score |-> Nothing, overall |-> "none"]

Absent == [status |-> "absent", verdict |-> Unscored]

IsEditable(row) == row.status \in {"draft", "returned"}

NoCall == [op |-> "none", on |-> "none", item |-> "none", row |-> Absent,
           answer |-> NoAnswer, found |-> Unscored]

Init ==
    /\ template = [items |-> FirstItems, past |-> FirstItems, active |-> TRUE]
    /\ inspection = [i \in Inspections |-> Absent]
    /\ answers = [i \in Inspections |-> <<>>]
    /\ announced = [i \in Inspections |-> {}]
    /\ pc = [w \in Workers |-> "idle"]
    /\ call = [w \in Workers |-> NoCall]
    /\ stale = {}
    /\ raced = FALSE
    /\ cut = {}

------------------------------------------------------------------------------
(* What a call has read, and who is overtaken by a write.                   *)

InspectionCalls == {"save", "submit", "return", "review"}

\* The workers that go by the status of i.
RowReaders(i) ==
    {v \in Workers : /\ call[v].on = i
                     /\ \/ call[v].op \in InspectionCalls \cup {"add"}
                        \/ call[v].op \in {"update", "photo"} /\ pc[v] = "checked"}

\* The workers that have counted the answers of i.
AnswerReaders(i) ==
    {v \in Workers : /\ call[v].on = i
                     /\ call[v].op \in InspectionCalls
                     /\ pc[v] \in {"checked", "scored"}}

Begins(w, c) ==
    /\ pc[w] = "idle"
    /\ inspection[c.on].status # "absent"
    /\ pc' = [pc EXCEPT ![w] = "loaded"]
    /\ call' = [call EXCEPT ![w] = c]
    /\ stale' = stale \ {w}
    /\ UNCHANGED <<template, inspection, answers, announced, raced, cut>>

\* start_inspection, whether the template is active or not.
Start(i) ==
    /\ inspection[i].status = "absent"
    /\ inspection' = [inspection EXCEPT ![i].status = "draft"]
    /\ UNCHANGED <<template, answers, announced, pc, call, stale, raced, cut>>

\* The first answer to an item, decided by the inspection that was loaded.
AddResult(w) ==
    \E i \in Inspections, item \in template.items :
        /\ item \notin DOMAIN answers[i]
        /\ IsEditable(inspection[i])
        /\ Begins(w, [NoCall EXCEPT !.op = "add", !.on = i, !.item = item])

\* A later one; the row of the result is loaded and saved whole.
UpdateResult(w) ==
    \E i \in Inspections : \E item \in DOMAIN answers[i] :
        Begins(w, [NoCall EXCEPT !.op = "update", !.on = i, !.item = item,
                                 !.answer = answers[i][item]])

UploadPhoto(w) ==
    \E i \in Inspections : \E item \in DOMAIN answers[i] :
        /\ ItemType[item] = "photo"
        /\ Begins(w, [NoCall EXCEPT !.op = "photo", !.on = i, !.item = item,
                                    !.answer = answers[i][item]])

\* Mutant: the inspection is not looked at again before the result is saved.
CheckEditable_Loaded(w) ==
    /\ pc[w] = "loaded"
    /\ call[w].op \in {"update", "photo"}
    /\ pc' = [pc EXCEPT ![w] = "checked"]
    /\ stale' = stale \ {w}
    /\ UNCHANGED <<template, inspection, answers, announced, call, raced, cut>>

\* update_inspection_result and upload_result_photo read the inspection anew.
CheckEditable(w) ==
    /\ pc[w] = "loaded"
    /\ call[w].op \in {"update", "photo"}
    /\ IsEditable(inspection[call[w].on])
    /\ pc' = [pc EXCEPT ![w] = "checked"]
    /\ stale' = stale \ {w}
    /\ UNCHANGED <<template, inspection, answers, announced, call, raced, cut>>

SaveDraft(w) ==
    \E i \in Inspections :
        /\ IsEditable(inspection[i])
        /\ Begins(w, [NoCall EXCEPT !.op = "save", !.on = i,
                               !.row = inspection[i]])

Submit(w) ==
    \E i \in Inspections :
        /\ inspection[i].status \in {"draft", "returned"}
        /\ Begins(w, [NoCall EXCEPT !.op = "submit", !.on = i])

Return(w) ==
    \E i \in Inspections :
        /\ inspection[i].status \in {"submitted", "reviewed"}
        /\ Begins(w, [NoCall EXCEPT !.op = "return", !.on = i,
                               !.row = inspection[i]])

Review(w) ==
    \E i \in Inspections :
        /\ inspection[i].status = "submitted"
        /\ Begins(w, [NoCall EXCEPT !.op = "review", !.on = i])

\* submit_inspection first asks for every required answer.
CheckRequired(w) ==
    /\ pc[w] = "loaded"
    /\ call[w].op = "submit"
    /\ MissingItems(answers[call[w].on]) = {}
    /\ pc' = [pc EXCEPT ![w] = "checked"]
    /\ UNCHANGED <<template, inspection, answers, announced, call, stale, raced,
                   cut>>

\* The score is calculated from a query of its own.
Calculate(w) ==
    LET c == call[w] IN
    /\ pc[w] = IF c.op = "submit" THEN "checked" ELSE "loaded"
    /\ c.op \in {"save", "submit", "review"}
    /\ pc' = [pc EXCEPT ![w] = "scored"]
    /\ call' = [call EXCEPT ![w].found = Score(answers[c.on])]
    /\ UNCHANGED <<template, inspection, answers, announced, stale, raced, cut>>

------------------------------------------------------------------------------
(* Writes.                                                                  *)

Finishes(w) ==
    /\ pc' = [pc EXCEPT ![w] = "idle"]
    /\ call' = [call EXCEPT ![w] = NoCall]

\* The row as saved, from the one that was loaded.
Saved(c) ==
    CASE c.op = "save" -> [c.row EXCEPT !.verdict = c.found]
      [] c.op = "submit" -> [status |-> "submitted", verdict |-> c.found]
      [] c.op = "return" -> [c.row EXCEPT !.status = "returned"]
      [] c.op = "review" -> [status |-> "reviewed", verdict |-> c.found]

\* Mutant: only the first submission announces its failures.
SaveInspection_FirstOnly(w) ==
    LET c == call[w] IN
    /\ c.op \in InspectionCalls
    /\ pc[w] = IF c.op = "return" THEN "loaded" ELSE "scored"
    /\ inspection' = [inspection EXCEPT ![c.on] = Saved(c)]
    /\ announced' = [announced EXCEPT ![c.on] =
                       IF c.op = "submit" /\ inspection[c.on].status = "draft"
                       THEN @ \cup FailedItems(answers[c.on]) ELSE @]
    /\ Finishes(w)
    /\ stale' = (stale \cup RowReaders(c.on)) \ {w}
    /\ raced' = (raced \/ w \in stale)
    /\ cut' = IF c.op = "submit" THEN cut \ {c.on} ELSE cut
    /\ UNCHANGED <<template, answers>>

\* A submission announces the results that are failed by then.
SaveInspection(w) ==
    LET c == call[w] IN
    /\ c.op \in InspectionCalls
    /\ pc[w] = IF c.op = "return" THEN "loaded" ELSE "scored"
    /\ inspection' = [inspection EXCEPT ![c.on] = Saved(c)]
    /\ announced' = [announced EXCEPT ![c.on] =
                       IF c.op = "submit" THEN @ \cup FailedItems(answers[c.on])
                       ELSE @]
    /\ Finishes(w)
    /\ stale' = (stale \cup RowReaders(c.on)) \ {w}
    /\ raced' = (raced \/ w \in stale)
    /\ cut' = IF c.op = "submit" THEN cut \ {c.on} ELSE cut
    /\ UNCHANGED <<template, answers>>

\* The answer that is saved: what the request says, or the loaded one with a
\* photo.
Given(c) ==
    IF c.op = "photo" THEN {[c.answer EXCEPT !.file = TRUE]}
    ELSE {[v EXCEPT !.file = c.answer.file] : v \in Valid(c.item)}

WithAnswer(given, item, v) ==
    [x \in DOMAIN given \cup {item} |-> IF x = item THEN v ELSE given[x]]

\* The database refuses an answer to an item that is gone, and a second row.
SaveResult(w) ==
    LET c == call[w]
        i == c.on
    IN
    /\ \/ c.op = "add" /\ pc[w] = "loaded" /\ c.item \notin DOMAIN answers[i]
       \/ c.op \in {"update", "photo"} /\ pc[w] = "checked"
    /\ c.item \in template.items
    /\ \E v \in Given(c) :
         answers' = [answers EXCEPT ![i] = WithAnswer(@, c.item, v)]
    /\ Finishes(w)
    /\ stale' = (stale \cup AnswerReaders(i)) \ {w}
    /\ raced' = (raced \/ w \in stale)
    /\ UNCHANGED <<template, inspection, announced, cut>>

\* update_template deletes the items and creates others: the answers to the old
\* ones go with them, in every inspection.
UpdateTemplate ==
    \E items \in SUBSET (Items \ template.past) :
        /\ template' = [template EXCEPT !.items = items,
                                        !.past = @ \cup items]
        /\ answers' = [i \in Inspections |-> <<>>]
        /\ cut' = cut \cup {i \in Inspections : inspection[i].status # "absent"}
        /\ stale' = stale \cup UNION {AnswerReaders(i) : i \in Inspections}
        /\ UNCHANGED <<inspection, announced, pc, call, raced>>

\* deactivate_template, or the endpoint that activates one.
SetTemplateStatus ==
    /\ template' = [template EXCEPT !.active = ~@]
    /\ UNCHANGED <<inspection, answers, announced, pc, call, stale, raced, cut>>

\* A refusal, an IntegrityError, or the worker dies.
Abort(w) ==
    /\ pc[w] # "idle"
    /\ Finishes(w)
    /\ stale' = stale \ {w}
    /\ UNCHANGED <<template, inspection, answers, announced, raced, cut>>

Step(w) ==
    \/ AddResult(w) \/ UpdateResult(w) \/ UploadPhoto(w) \/ CheckEditable(w)
    \/ SaveDraft(w) \/ Submit(w) \/ Return(w) \/ Review(w)
    \/ CheckRequired(w) \/ Calculate(w)
    \/ SaveInspection(w) \/ SaveResult(w) \/ Abort(w)

Next ==
    \/ \E i \in Inspections : Start(i)
    \/ UpdateTemplate
    \/ SetTemplateStatus
    \/ \E w \in Workers : Step(w)

Spec == Init /\ [][Next]_vars

------------------------------------------------------------------------------
Verdicts ==
    [score : Nothing .. MaxScore,
     overall : {"none", "passed", "failed", "needs_attention"}]

Rows ==
    [status : {"absent", "draft", "submitted", "returned", "reviewed"},
     verdict : Verdicts]

Answers ==
    [passed : {"yes", "no", "unknown"}, number : Scores \cup {Nothing},
     file : BOOLEAN]

Calls ==
    [op : InspectionCalls \cup {"none", "add", "update", "photo"},
     on : Inspections \cup {"none"}, item : Items \cup {"none"},
     row : Rows, answer : Answers, found : Verdicts]

TypeOK ==
    /\ template \in [items : SUBSET Items, past : SUBSET Items, active : BOOLEAN]
    /\ template.items \subseteq template.past
    /\ inspection \in [Inspections -> Rows]
    /\ DOMAIN answers = Inspections
    /\ \A i \in Inspections :
         /\ DOMAIN answers[i] \subseteq template.items
         /\ answers[i] \in [DOMAIN answers[i] -> Answers]
    /\ announced \in [Inspections -> SUBSET Items]
    /\ pc \in [Workers -> {"idle", "loaded", "checked", "scored"}]
    /\ call \in [Workers -> Calls]
    /\ raced \in BOOLEAN
    /\ stale \subseteq Workers
    /\ cut \subseteq Inspections

Standing == {"submitted", "reviewed"}

\* A submitted inspection has every required answer, and its score and verdict
\* are those of its answers, however often it was returned and corrected: as
\* long as no call wrote what it had not read anew, and its items are kept.
VerdictOfAnswers ==
    \A i \in Inspections \ cut :
        ~raced /\ inspection[i].status \in Standing =>
            /\ MissingItems(answers[i]) = {}
            /\ inspection[i].verdict = Score(answers[i])
            /\ inspection[i].verdict.overall = "failed" <=>
                 FailedItems(answers[i]) # {}

\* Types and verdicts.
InspectionsOK == TypeOK /\ VerdictOfAnswers

\* An inspection that stands failed has announced each of its failed items.
FailuresAnnounced ==
    \A i \in Inspections \ cut :
        ~raced /\ inspection[i].status \in Standing
               /\ inspection[i].verdict.overall = "failed" =>
            /\ FailedItems(answers[i]) # {}
            /\ FailedItems(answers[i]) \subseteq announced[i]

\* The stages of each request.
CallsFitStages ==
    \A w \in Workers :
        /\ pc[w] = "idle" <=> call[w].op = "none"
        /\ pc[w] # "idle" => call[w].on \in Inspections
        /\ pc[w] = "checked" => call[w].op \in {"submit", "update", "photo"}
        /\ pc[w] = "scored" => call[w].op \in {"submit", "save", "review"}
        /\ call[w].op \in {"add", "update", "photo"} => call[w].item \in Items

\* What a request that nobody overtook goes by.
Current(w) ==
    LET c == call[w]
        row == inspection[c.on]
    IN
    /\ c.op \in {"add", "save", "submit"} => IsEditable(row)
    /\ pc[w] = "checked" => IsEditable(row)
    /\ c.op = "review" => row.status = "submitted"
    /\ c.op = "return" => row.status \in Standing
    /\ c.op \in {"save", "return"} => c.row = row
    /\ c.op = "submit" /\ pc[w] # "loaded" => MissingItems(answers[c.on]) = {}
    /\ pc[w] = "scored" => c.found = Score(answers[c.on])

LoadedIsCurrent == \A w \in Workers \ stale : pc[w] # "idle" => Current(w)

StandingIsAnnounced ==
    \A i \in Inspections \ cut :
        ~raced /\ inspection[i].status \in Standing =>
            FailedItems(answers[i]) \subseteq announced[i]

IInv == InspectionsOK /\ CallsFitStages /\ LoadedIsCurrent /\ StandingIsAnnounced

\* "Submitted inspections are immutable; return them before editing": an answer
\* of a submitted inspection changes only with the items of the template, or by
\* a call that saw the inspection before it was submitted.
AnswersStand ==
    \A i \in Inspections :
        inspection[i].status \in Standing /\ answers'[i] # answers[i] =>
            \/ template'.items # template.items
            \/ \E w \in stale : pc'[w] # pc[w] /\ call[w].on = i
==============================================================================
