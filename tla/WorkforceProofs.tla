---------------------------- MODULE WorkforceProofs ----------------------------
(***************************************************************************)
(* What Workforce promises for any cleaners, sites, programmes, assignments *)
(* and workers.  A call that nobody has overtaken goes by rows that are    *)
(* still what it loaded (Fresh); whatever it goes by belongs to its        *)
(* cleaner, who stays registered (CallFits).                               *)
(***************************************************************************)
EXTENDS Workforce, TLAPS

Training == {"supervise", "extend", "pass", "fail", "drop"}
Posted == {"edit", "end", "suspend", "activate"}
PostStatuses == {"draft", "active", "suspended", "ended"}

IsCall(c) == c = [op |-> c.op, on |-> c.on, status |-> c.status, programs |-> c.programs,
                  posts |-> c.posts, row |-> c.row, to |-> c.to, next |-> c.next]

\* What an operation was called with.
ArgumentsFit(c) ==
    /\ c.op \in {"update", "status", "eligible", "deactivate", "start", "assign",
                 "transfer", "import"} \cup Training \cup Posted
    /\ c.op \in {"status", "eligible", "deactivate"} => c.to \in Statuses
    /\ c.op \in {"start", "assign", "transfer", "import"} => c.to \in Sites
    /\ c.op = "import" => c.next \in {"trainee", "active"}
    /\ c.op \in Training =>
         c.row \in [of : {c.on}, site : Sites, status : ActiveProgram]
    /\ c.op \in Posted => c.row \in [of : {c.on}, site : Sites, status : PostStatuses]
    /\ c.op = "activate" => c.status = "active"
    /\ c.op = "deactivate" => c.to = "inactive"

\* The rows a call goes by belong to its cleaner.
RowsBelong(c) ==
    /\ c.on \in Cleaners /\ c.status \in Statuses
    /\ cleaner[c.on] # "absent"
    /\ c.programs \subseteq Programs /\ c.posts \subseteq Posts
    /\ \A p \in c.programs : program[p].status # "absent" /\ program[p].of = c.on
    /\ \A p \in c.posts : post[p].status # "absent" /\ post[p].of = c.on

\* The rows are what the call has loaded.
Fresh(c) ==
    /\ c.op # "start" /\ "cleaner" \in Reads(c.op) => cleaner[c.on] = c.status
    /\ c.op \in Training => \A p \in c.programs : program[p] = c.row
    /\ c.op \in Posted => \A p \in c.posts : post[p] = c.row
    /\ c.op = "transfer" => c.posts = LivePosts(c.on) /\ c.programs = InTraining(c.on)

CallFits(w) ==
    /\ IsCall(call[w]) /\ ArgumentsFit(call[w]) /\ RowsBelong(call[w])
    /\ w \notin stale => Fresh(call[w])
    /\ w \notin stale /\ pc[w] = "checked" => document[call[w].on] = "verified"

\* Programmes and assignments are of people who are registered.
Accounted ==
    /\ \A p \in Programs : program[p].status # "absent" =>
          program[p].of \in Cleaners /\ cleaner[program[p].of] # "absent"
    /\ \A p \in Posts : post[p].status # "absent" =>
          post[p].of \in Cleaners /\ cleaner[post[p].of] # "absent"

IInv ==
    /\ WorkforceOK
    /\ Accounted
    /\ DOMAIN call = Workers
    /\ \A w \in Workers : pc[w] # "idle" => CallFits(w)

------------------------------------------------------------------------------
LEMMA InitInv == Init => IInv
<1> SUFFICES ASSUME Init PROVE IInv
  OBVIOUS
<1>1. TypeOK
  BY DEF Init, TypeOK, RowsOf, NoRow, None
<1>2. OneTraining(program) /\ OnePostPerSite(post)
  BY DEF Init, OneTraining, OnePostPerSite, NoRow, ActiveProgram
<1>3. DOMAIN call = Workers /\ \A w \in Workers : pc[w] = "idle"
  BY DEF Init
<1>4. Accounted
  BY DEF Init, Accounted, NoRow
<1> QED
  BY <1>1, <1>2, <1>3, <1>4 DEF IInv, WorkforceOK

\* The rows written are of the cleaner x and of the kinds in parts, and nothing
\* is deleted.
Touches(x, parts) ==
    /\ \A y \in Cleaners : /\ cleaner'[y] # cleaner[y] => y = x /\ "cleaner" \in parts
                           /\ cleaner[y] # "absent" => cleaner'[y] # "absent"
    /\ \A p \in Programs : program'[p] # program[p] =>
          /\ "program" \in parts
          /\ program'[p].of = x /\ program'[p].status # "absent"
          /\ program[p] = NoRow \/ program[p].of = x
    /\ \A p \in Posts : post'[p] # post[p] =>
          /\ "post" \in parts
          /\ post'[p].of = x /\ post'[p].status # "absent"
          /\ post[p] = NoRow \/ post[p].of = x

\* A call that is under way keeps what it has: who goes by a row that has been
\* written is stale.
LEMMA OtherCalls ==
    ASSUME IInv, NEW v \in Workers, pc[v] # "idle", pc'[v] = pc[v], call'[v] = call[v],
           NEW x \in Cleaners, NEW parts, Touches(x, parts),
           v \in stale => v \in stale',
           call[v].on = x /\ Reads(call[v].op) \cap parts # {} => v \in stale',
           document'[call[v].on] = document[call[v].on] \/ pc[v] # "checked" \/ v \in stale'
    PROVE  CallFits(v)'
<1>1. CallFits(v)
  BY DEF IInv
<1>2. PICK c : c = call[v]
  OBVIOUS
<1>3. RowsBelong(c)'
  <2>1. RowsBelong(c)
    BY <1>1, <1>2 DEF CallFits
  <2>2. \A p \in Programs : program[p].status # "absent" /\ program[p].of = c.on =>
            program'[p].status # "absent" /\ program'[p].of = c.on
    BY DEF Touches, NoRow
  <2>3. \A p \in Posts : post[p].status # "absent" /\ post[p].of = c.on =>
            post'[p].status # "absent" /\ post'[p].of = c.on
    BY DEF Touches, NoRow
  <2> QED
    BY <2>1, <2>2, <2>3 DEF RowsBelong, Touches
<1>4. ASSUME v \notin stale' PROVE Fresh(c)'
  <2>1. Fresh(c) /\ ArgumentsFit(c) /\ RowsBelong(c)
    BY <1>1, <1>2, <1>4 DEF CallFits
  <2>2. c.on = x => Reads(c.op) \cap parts = {}
    BY <1>2, <1>4
  <2>3. "cleaner" \in Reads(c.op) => cleaner'[c.on] = cleaner[c.on]
    BY <2>1, <2>2 DEF Touches, RowsBelong
  <2>4. c.op \in Training => \A p \in c.programs : program'[p] = program[p]
    <3>1. c.op \in Training => "program" \in Reads(c.op)
      BY DEF Training, Reads
    <3> QED
      BY <2>1, <2>2, <3>1 DEF Touches, RowsBelong, NoRow
  <2>5. c.op \in Posted => \A p \in c.posts : post'[p] = post[p]
    <3>1. c.op \in Posted => "post" \in Reads(c.op)
      BY DEF Posted, Reads
    <3> QED
      BY <2>1, <2>2, <3>1 DEF Touches, RowsBelong, NoRow
  <2>6. c.op = "transfer" => LivePosts(c.on)' = LivePosts(c.on) /\ InTraining(c.on)' = InTraining(c.on)
    <3> SUFFICES ASSUME c.op = "transfer"
                 PROVE  LivePosts(c.on)' = LivePosts(c.on) /\ InTraining(c.on)' = InTraining(c.on)
      OBVIOUS
    <3>1. Reads(c.op) = {"post", "cleaner", "program"}
      BY DEF Reads
    <3>2. \A p \in Posts : post'[p] = post[p] \/
              (post'[p].of # c.on /\ (post[p] = NoRow \/ post[p].of # c.on))
      BY <2>2, <3>1 DEF Touches
    <3>3. \A p \in Programs : program'[p] = program[p] \/
              (program'[p].of # c.on /\ (program[p] = NoRow \/ program[p].of # c.on))
      BY <2>2, <3>1 DEF Touches
    <3>4. LivePosts(c.on)' = LivePosts(c.on)
      BY <3>2 DEF LivePosts, NoRow
    <3>5. InTraining(c.on)' = InTraining(c.on)
      BY <3>3 DEF InTraining, NoRow, ActiveProgram
    <3> QED
      BY <3>4, <3>5
  <2> QED
    BY <2>1, <2>3, <2>4, <2>5, <2>6 DEF Fresh
<1>5. v \notin stale' /\ pc[v] = "checked" => document'[call[v].on] = "verified"
  BY <1>1 DEF CallFits
<1>6. CallFits(v)'
  <2>1. IsCall(call[v])' /\ ArgumentsFit(call[v])'
    BY <1>1 DEF CallFits, IsCall, ArgumentsFit
  <2>2. RowsBelong(call[v])'
    BY <1>2, <1>3 DEF RowsBelong
  <2>3. v \notin stale' => Fresh(call[v])'
    BY <1>2, <1>4 DEF Fresh, LivePosts, InTraining
  <2> QED
    BY <1>5, <2>1, <2>2, <2>3 DEF CallFits
<1> QED
  BY <1>6

\* A call begins with what is committed.
LEMMA BeginsStep ==
    ASSUME IInv, NEW w \in Workers, NEW c, Begins(w, c), IsCall(c),
           ArgumentsFit([c EXCEPT !.status = cleaner[c.on]]),
           RowsBelong([c EXCEPT !.status = cleaner[c.on]]),
           Fresh([c EXCEPT !.status = cleaner[c.on]])
    PROVE  IInv'
<1>1. PICK d : d = [c EXCEPT !.status = cleaner[c.on]]
  OBVIOUS
<1>2. /\ pc' = [pc EXCEPT ![w] = "loaded"] /\ call' = [call EXCEPT ![w] = d]
      /\ stale' = stale \ {w}
      /\ UNCHANGED <<desk, cleaner, document, program, certified, post>>
  BY <1>1 DEF Begins, rows
<1>3. pc \in [Workers -> {"idle", "loaded", "checked"}] /\ DOMAIN call = Workers
  BY DEF IInv, WorkforceOK, TypeOK
<1>4. /\ pc'[w] = "loaded" /\ call'[w] = d
      /\ \A v \in Workers \ {w} : pc'[v] = pc[v] /\ call'[v] = call[v]
                                  /\ (v \in stale => v \in stale')
  BY <1>2, <1>3
<1>5. WorkforceOK' /\ Accounted' /\ DOMAIN call' = Workers
  BY <1>2, <1>3 DEF IInv, WorkforceOK, Accounted, TypeOK, OneTraining, OnePostPerSite
<1>6. IsCall(d) /\ ArgumentsFit(d) /\ RowsBelong(d) /\ Fresh(d)
  BY <1>1 DEF IsCall
<1>7. CallFits(w)'
  BY <1>2, <1>4, <1>6 DEF CallFits, IsCall, ArgumentsFit, RowsBelong, Fresh, LivePosts,
                          InTraining
<1>8. ASSUME NEW v \in Workers, v # w, pc'[v] # "idle" PROVE CallFits(v)'
  <2>1. pc[v] # "idle"
    BY <1>4, <1>8
  <2>2. CallFits(v)
    BY <2>1 DEF IInv
  <2>3. Touches(call[v].on, {})
    BY <1>2 DEF Touches
  <2>4. call[v].on \in Cleaners
    BY <2>2 DEF CallFits, RowsBelong
  <2>5. PICK x \in Cleaners : x = call[v].on
    BY <2>4
  <2>6. Touches(x, {}) /\ Reads(call[v].op) \cap {} = {}
    BY <1>2 DEF Touches
  <2> QED
    BY <1>2, <1>4, <1>8, <2>1, <2>6, OtherCalls
<1> QED
  BY <1>4, <1>5, <1>7, <1>8 DEF IInv

\* A call about a cleaner alone.
About(op, x, to, next) ==
    [op |-> op, on |-> x, status |-> None, programs |-> {}, posts |-> {},
     row |-> NoRow, to |-> to, next |-> next]

LEMMA LoadsCleaner ==
    ASSUME IInv, NEW w \in Workers, NEW x \in Registered, NEW op, NEW to, NEW next,
           Begins(w, About(op, x, to, next)),
           op \in {"update", "status", "eligible", "deactivate", "start", "assign", "import"},
           op \in {"status", "eligible", "deactivate"} => to \in Statuses,
           op \in {"start", "assign", "import"} => to \in Sites,
           op = "import" => next \in {"trainee", "active"},
           op = "deactivate" => to = "inactive"
    PROVE  IInv'
<1>1. PICK c : c = About(op, x, to, next)
  OBVIOUS
<1>2. PICK d : d = [c EXCEPT !.status = cleaner[c.on]]
  OBVIOUS
<1>3. d = [op |-> op, on |-> x, status |-> cleaner[x], programs |-> {}, posts |-> {},
           row |-> NoRow, to |-> to, next |-> next]
  BY <1>1, <1>2 DEF About
<1>4. cleaner[x] \in Statuses /\ cleaner[x] # "absent" /\ x \in Cleaners
  BY DEF IInv, WorkforceOK, TypeOK, Registered
<1>5. ArgumentsFit(d)
  BY <1>3 DEF ArgumentsFit, Training, Posted
<1>6. RowsBelong(d)
  BY <1>3, <1>4 DEF RowsBelong
<1>7. Fresh(d)
  BY <1>3 DEF Fresh, Training, Posted
<1>8. IsCall(c)
  BY <1>1 DEF IsCall, About
<1> QED
  BY <1>1, <1>2, <1>5, <1>6, <1>7, <1>8, BeginsStep

\* A call about a programme.
LEMMA LoadsProgram ==
    ASSUME IInv, NEW w \in Workers, TrainingStep(w)
    PROVE  IInv'
<1>1. PICK p \in Programs, op \in Training :
        program[p].status \in ActiveProgram /\ Begins(w, OnProgram(op, p))
  BY DEF TrainingStep, Training
<1>2. program[p] \in [of : Cleaners, site : Sites, status : ActiveProgram]
  BY <1>1 DEF IInv, WorkforceOK, TypeOK, RowsOf, NoRow, ActiveProgram
<1>3. PICK x \in Cleaners : x = program[p].of
  BY <1>2
<1>4. cleaner[x] \in Statuses /\ cleaner[x] # "absent"
  BY <1>1, <1>3 DEF IInv, WorkforceOK, Accounted, TypeOK, ActiveProgram
<1>5. PICK c : c = OnProgram(op, p)
  OBVIOUS
<1>6. c = [op |-> op, on |-> x, status |-> None, programs |-> {p}, posts |-> {},
           row |-> program[p], to |-> None, next |-> None]
  BY <1>3, <1>5 DEF OnProgram, NoCall
<1>7. PICK d : d = [c EXCEPT !.status = cleaner[c.on]]
  OBVIOUS
<1>8. d = [op |-> op, on |-> x, status |-> cleaner[x], programs |-> {p}, posts |-> {},
           row |-> program[p], to |-> None, next |-> None]
  BY <1>6, <1>7
<1>9. IsCall(c)
  BY <1>6 DEF IsCall
<1>10. ArgumentsFit(d)
  BY <1>2, <1>3, <1>8 DEF ArgumentsFit, Training, Posted
<1>11. RowsBelong(d)
  BY <1>1, <1>3, <1>4, <1>8 DEF RowsBelong, ActiveProgram
<1>12. Fresh(d)
  BY <1>8 DEF Fresh, Training, Posted
<1> QED
  BY <1>1, <1>5, <1>7, <1>9, <1>10, <1>11, <1>12, BeginsStep

\* A call about an assignment.
LEMMA LoadsPost ==
    ASSUME IInv, NEW w \in Workers, PostStep(w)
    PROVE  IInv'
<1>1. PICK p \in Posts, op \in Posted :
        /\ post[p].status # "absent" /\ Begins(w, OnPost(op, p))
        /\ op = "activate" => cleaner[post[p].of] = "active"
  BY DEF PostStep, Posted
<1>2. post[p] \in [of : Cleaners, site : Sites, status : PostStatuses]
  BY <1>1 DEF IInv, WorkforceOK, TypeOK, RowsOf, NoRow, PostStatuses
<1>3. PICK x \in Cleaners : x = post[p].of
  BY <1>2
<1>4. cleaner[x] \in Statuses /\ cleaner[x] # "absent"
  BY <1>1, <1>3 DEF IInv, WorkforceOK, Accounted, TypeOK
<1>5. PICK c : c = OnPost(op, p)
  OBVIOUS
<1>6. c = [op |-> op, on |-> x, status |-> None, programs |-> {}, posts |-> {p},
           row |-> post[p], to |-> None, next |-> None]
  BY <1>3, <1>5 DEF OnPost, NoCall
<1>7. PICK d : d = [c EXCEPT !.status = cleaner[c.on]]
  OBVIOUS
<1>8. d = [op |-> op, on |-> x, status |-> cleaner[x], programs |-> {}, posts |-> {p},
           row |-> post[p], to |-> None, next |-> None]
  BY <1>6, <1>7
<1>9. IsCall(c)
  BY <1>6 DEF IsCall
<1>10. ArgumentsFit(d)
  BY <1>1, <1>2, <1>3, <1>8 DEF ArgumentsFit, Training, Posted
<1>11. RowsBelong(d)
  BY <1>1, <1>3, <1>4, <1>8 DEF RowsBelong
<1>12. Fresh(d)
  BY <1>8 DEF Fresh, Training, Posted
<1> QED
  BY <1>1, <1>5, <1>7, <1>9, <1>10, <1>11, <1>12, BeginsStep

\* A transfer takes down what it is going to move.
LEMMA LoadsTransfer ==
    ASSUME IInv, NEW w \in Workers, Transfer(w)
    PROVE  IInv'
<1>1. PICK x \in Registered, s \in Sites :
        Begins(w, [OnCleaner("transfer", x) EXCEPT !.to = s,
                     !.posts = LivePosts(x), !.programs = InTraining(x)])
  BY DEF Transfer
<1>2. PICK c : c = [OnCleaner("transfer", x) EXCEPT !.to = s,
                     !.posts = LivePosts(x), !.programs = InTraining(x)]
  OBVIOUS
<1>3. c = [op |-> "transfer", on |-> x, status |-> None, programs |-> InTraining(x),
           posts |-> LivePosts(x), row |-> NoRow, to |-> s, next |-> None]
  BY <1>2 DEF OnCleaner, NoCall
<1>4. PICK d : d = [c EXCEPT !.status = cleaner[c.on]]
  OBVIOUS
<1>5. d = [op |-> "transfer", on |-> x, status |-> cleaner[x], programs |-> InTraining(x),
           posts |-> LivePosts(x), row |-> NoRow, to |-> s, next |-> None]
  BY <1>3, <1>4
<1>6. cleaner[x] \in Statuses /\ cleaner[x] # "absent" /\ x \in Cleaners
  BY DEF IInv, WorkforceOK, TypeOK, Registered
<1>7. IsCall(c)
  BY <1>3 DEF IsCall
<1>8. ArgumentsFit(d)
  BY <1>5 DEF ArgumentsFit, Training, Posted
<1>9. RowsBelong(d)
  BY <1>5, <1>6 DEF RowsBelong, LivePosts, InTraining, ActiveProgram
<1>10. Fresh(d)
  BY <1>5 DEF Fresh, Training, Posted
<1> QED
  BY <1>1, <1>2, <1>4, <1>7, <1>8, <1>9, <1>10, BeginsStep

LEMMA OnCleanerIs ==
    ASSUME NEW op, NEW x, NEW s
    PROVE  /\ OnCleaner(op, x) = About(op, x, None, None)
           /\ [OnCleaner(op, x) EXCEPT !.to = s] = About(op, x, s, None)
<1>1. PICK c : c = OnCleaner(op, x)
  OBVIOUS
<1>2. c = [op |-> op, on |-> x, status |-> None, programs |-> {}, posts |-> {},
           row |-> NoRow, to |-> None, next |-> None]
  BY <1>1 DEF OnCleaner, NoCall
<1>3. PICK d : d = [c EXCEPT !.to = s]
  OBVIOUS
<1>4. d = About(op, x, s, None)
  BY <1>2, <1>3 DEF About
<1>5. c = About(op, x, None, None)
  BY <1>2 DEF About
<1> QED
  BY <1>1, <1>3, <1>4, <1>5

LEMMA LoadsStep ==
    ASSUME IInv, NEW w \in Workers,
           \/ UpdateCleaner(w) \/ ChangeStatus(w) \/ Activate(w) \/ Deactivate(w)
           \/ StartTraining(w) \/ Assign(w) \/ ImportAgain(w)
    PROVE  IInv'
<1>1. CASE UpdateCleaner(w)
  <2>1. PICK x \in Registered : Begins(w, OnCleaner("update", x))
    BY <1>1 DEF UpdateCleaner
  <2>2. OnCleaner("update", x) = About("update", x, None, None)
    BY OnCleanerIs
  <2>3. Begins(w, About("update", x, None, None))
    BY <2>1, <2>2
  <2> QED
    BY <2>3, LoadsCleaner DEF Statuses
<1>2. CASE ChangeStatus(w)
  <2>1. PICK x \in Registered : \E s \in CLEANER_TRANSITIONS[cleaner[x]] :
          Begins(w, [OnCleaner("status", x) EXCEPT !.to = s])
    BY <1>2 DEF ChangeStatus
  <2>2. cleaner[x] \in Statuses
    BY DEF IInv, WorkforceOK, TypeOK, Registered
  <2>3. PICK s \in Statuses : Begins(w, [OnCleaner("status", x) EXCEPT !.to = s])
    BY <2>1, <2>2 DEF CLEANER_TRANSITIONS, Statuses
  <2>4. [OnCleaner("status", x) EXCEPT !.to = s] = About("status", x, s, None)
    BY OnCleanerIs
  <2>5. Begins(w, About("status", x, s, None))
    BY <2>3, <2>4
  <2> QED
    BY <2>5, LoadsCleaner
<1>3. CASE Activate(w)
  <2>1. PICK x \in Registered : Begins(w, [OnCleaner("eligible", x) EXCEPT !.to = "active"])
    BY <1>3 DEF Activate
  <2>2. [OnCleaner("eligible", x) EXCEPT !.to = "active"] = About("eligible", x, "active", None)
    BY OnCleanerIs
  <2>3. Begins(w, About("eligible", x, "active", None))
    BY <2>1, <2>2
  <2> QED
    BY <2>3, LoadsCleaner DEF Statuses
<1>4. CASE Deactivate(w)
  <2>1. PICK x \in Registered : Begins(w, [OnCleaner("deactivate", x) EXCEPT !.to = "inactive"])
    BY <1>4 DEF Deactivate
  <2>2. [OnCleaner("deactivate", x) EXCEPT !.to = "inactive"] = About("deactivate", x, "inactive", None)
    BY OnCleanerIs
  <2>3. Begins(w, About("deactivate", x, "inactive", None))
    BY <2>1, <2>2
  <2> QED
    BY <2>3, LoadsCleaner DEF Statuses
<1>5. CASE StartTraining(w)
  <2>1. PICK x \in Registered, s \in Sites : Begins(w, [OnCleaner("start", x) EXCEPT !.to = s])
    BY <1>5 DEF StartTraining
  <2>2. [OnCleaner("start", x) EXCEPT !.to = s] = About("start", x, s, None)
    BY OnCleanerIs
  <2>3. Begins(w, About("start", x, s, None))
    BY <2>1, <2>2
  <2> QED
    BY <2>3, LoadsCleaner DEF Statuses
<1>6. CASE Assign(w)
  <2>1. PICK x \in Registered, s \in Sites : Begins(w, [OnCleaner("assign", x) EXCEPT !.to = s])
    BY <1>6 DEF Assign
  <2>2. [OnCleaner("assign", x) EXCEPT !.to = s] = About("assign", x, s, None)
    BY OnCleanerIs
  <2>3. Begins(w, About("assign", x, s, None))
    BY <2>1, <2>2
  <2> QED
    BY <2>3, LoadsCleaner DEF Statuses
<1>7. CASE ImportAgain(w)
  <2>1. PICK x \in Registered, s \in Sites, t \in {"trainee", "active"} :
          Begins(w, [OnCleaner("import", x) EXCEPT !.to = s, !.next = t])
    BY <1>7 DEF ImportAgain
  <2>2. [OnCleaner("import", x) EXCEPT !.to = s, !.next = t] = About("import", x, s, t)
    <3>1. PICK c : c = OnCleaner("import", x)
      OBVIOUS
    <3>2. c = About("import", x, None, None)
      BY <3>1, OnCleanerIs
    <3>3. PICK d : d = [c EXCEPT !.to = s, !.next = t]
      OBVIOUS
    <3>4. d = About("import", x, s, t)
      BY <3>2, <3>3 DEF About
    <3> QED
      BY <3>1, <3>3, <3>4
  <2>3. Begins(w, About("import", x, s, t))
    BY <2>1, <2>2
  <2> QED
    BY <2>3, LoadsCleaner DEF Statuses
<1> QED
  BY <1>1, <1>2, <1>3, <1>4, <1>5, <1>6, <1>7

\* A step that writes rows of the cleaner of a call, and ends it: the calls it
\* overtakes are stale, and the other ones have what they had.
LEMMA CommitStep ==
    ASSUME IInv, NEW w \in Workers, NEW x \in Cleaners, NEW parts, Touches(x, parts),
           WorkforceOK', DOMAIN call' = Workers, document' = document,
           cleaner'[x] # "absent",
           \A v \in Workers \ {w} : pc'[v] = pc[v] /\ call'[v] = call[v],
           pc'[w] # "idle" => CallFits(w)',
           \A v \in stale \ {w} : v \in stale',
           \A v \in Overtaken(w, x, parts) \ {w} : v \in stale'
    PROVE  IInv'
<1>1. ASSUME NEW v \in Workers, v # w, pc'[v] # "idle" PROVE CallFits(v)'
  <2>1. pc'[v] = pc[v] /\ call'[v] = call[v] /\ pc[v] # "idle"
    BY <1>1
  <2>2. v \in stale => v \in stale'
    BY <1>1
  <2>3. call[v].on = x /\ Reads(call[v].op) \cap parts # {} => v \in stale'
    BY <1>1, <2>1 DEF Overtaken
  <2>4. document'[call[v].on] = document[call[v].on]
    OBVIOUS
  <2> QED
    BY <2>1, <2>2, <2>3, <2>4, OtherCalls
<1>2. Accounted'
  BY DEF IInv, Accounted, Touches, NoRow
<1> QED
  BY <1>1, <1>2 DEF IInv

------------------------------------------------------------------------------
(* What the steps write.                                                     *)

ProgramRows == RowsOf(ActiveProgram \cup {"passed", "failed", "dropped"})
PostRows == RowsOf(PostStatuses)

\* The end of a call: what it has written keeps the invariants of the rows.
LEMMA SavesStep ==
    ASSUME IInv, NEW w \in Workers, NEW parts, pc[w] # "idle", Finishes(w),
           stale' = (stale \cup Overtaken(w, call[w].on, parts)) \ {w},
           UNCHANGED <<desk, document, certified>>,
           Touches(call[w].on, parts),
           cleaner' \in [Cleaners -> Statuses \cup {"absent"}],
           program' \in [Programs -> ProgramRows], OneTraining(program'),
           post' \in [Posts -> PostRows], OnePostPerSite(post')
    PROVE  IInv'
<1>1. CallFits(w)
  BY DEF IInv
<1>2. PICK x \in Cleaners : x = call[w].on
  BY <1>1 DEF CallFits, RowsBelong
<1>3. cleaner'[x] # "absent"
  BY <1>1, <1>2 DEF CallFits, RowsBelong, Touches
<1>4. pc \in [Workers -> {"idle", "loaded", "checked"}] /\ DOMAIN call = Workers
  BY DEF IInv, WorkforceOK, TypeOK
<1>5. /\ DOMAIN call' = Workers /\ pc'[w] = "idle"
      /\ \A v \in Workers \ {w} : pc'[v] = pc[v] /\ call'[v] = call[v]
  BY <1>4 DEF Finishes
<1>6. WorkforceOK'
  <2>1. pc' \in [Workers -> {"idle", "loaded", "checked"}]
    BY <1>4 DEF Finishes
  <2>2. stale' \subseteq Workers
    BY DEF IInv, WorkforceOK, TypeOK, Overtaken
  <2>3. TypeOK'
    BY <2>1, <2>2 DEF IInv, WorkforceOK, TypeOK, ProgramRows, PostRows, PostStatuses, RowsOf
  <2>4. OneTraining(program)' /\ OnePostPerSite(post)'
    BY DEF OneTraining, OnePostPerSite
  <2> QED
    BY <2>3, <2>4 DEF WorkforceOK
<1>7. /\ \A v \in stale \ {w} : v \in stale'
      /\ \A v \in Overtaken(w, x, parts) \ {w} : v \in stale'
  BY <1>2
<1>8. Touches(x, parts)
  BY <1>2
<1> QED
  BY <1>2, <1>3, <1>5, <1>6, <1>7, <1>8, CommitStep

\* Starting a training adds a programme.
LEMMA StartsFits ==
    ASSUME IInv, NEW x \in Cleaners, NEW s \in Sites, Starts(x, s)
    PROVE  /\ program' \in [Programs -> ProgramRows]
           /\ OneTraining(program')
           /\ \A p \in Programs : program'[p] # program[p] =>
                 /\ program[p] = NoRow
                 /\ program'[p] = [of |-> x, site |-> s, status |-> "in_training"]
           /\ \E p \in Programs :
                 program'[p] = [of |-> x, site |-> s, status |-> "in_training"]
<1>1. program \in [Programs -> ProgramRows]
  BY DEF IInv, WorkforceOK, TypeOK, ProgramRows
<1>2. PICK p \in Programs :
        /\ program[p] = NoRow
        /\ program' = [program EXCEPT ![p] = [of |-> x, site |-> s, status |-> "in_training"]]
        /\ OneTraining(program')
  BY DEF Starts
<1>3. [of |-> x, site |-> s, status |-> "in_training"] \in ProgramRows
  BY DEF ProgramRows, RowsOf, ActiveProgram
<1> QED
  BY <1>1, <1>2, <1>3

\* Assigning adds an assignment, with the status that goes with the cleaner's.
LEMMA AssignsFits ==
    ASSUME NEW posts \in [Posts -> PostRows], NEW x \in Cleaners, NEW s \in Sites,
           NEW status, Assigns(posts, x, s, status)
    PROVE  /\ post' \in [Posts -> PostRows]
           /\ OnePostPerSite(post')
           /\ \A p \in Posts : post'[p] # posts[p] =>
                 /\ posts[p] = NoRow
                 /\ post'[p] = [of |-> x, site |-> s, status |-> Posting(status)]
<1>1. PICK p \in Posts :
        /\ posts[p] = NoRow
        /\ post' = [posts EXCEPT ![p] = [of |-> x, site |-> s, status |-> Posting(status)]]
        /\ OnePostPerSite(post')
  BY DEF Assigns
<1>2. [of |-> x, site |-> s, status |-> Posting(status)] \in PostRows
  BY DEF PostRows, RowsOf, PostStatuses, Posting
<1> QED
  BY <1>1, <1>2

\* What holds of a call that is about to write.
LEMMA Committing ==
    ASSUME IInv, NEW w \in Workers, pc[w] # "idle"
    PROVE  /\ call[w].on \in Cleaners /\ call[w].status \in Statuses
           /\ cleaner[call[w].on] # "absent"
           /\ CallFits(w)
           /\ cleaner \in [Cleaners -> Statuses \cup {"absent"}]
           /\ program \in [Programs -> ProgramRows] /\ OneTraining(program)
           /\ post \in [Posts -> PostRows] /\ OnePostPerSite(post)
BY DEF IInv, CallFits, RowsBelong, WorkforceOK, TypeOK, ProgramRows, PostRows, PostStatuses

\* What a call writes are rows of its cleaner.
Writes(w) == \E parts : Touches(call[w].on, parts)

LEMMA SaveCleanerStep ==
    ASSUME IInv, NEW w \in Workers, SaveCleaner(w) \/ SaveStatus(w)
    PROVE  IInv' /\ Writes(w)
<1>1. /\ pc[w] # "idle" /\ Finishes(w) /\ UNCHANGED <<desk, document, certified, program, post>>
      /\ stale' = (stale \cup Overtaken(w, call[w].on, {"cleaner"})) \ {w}
  BY DEF SaveCleaner, SaveStatus, Commits
<1>2. PICK s \in Statuses : cleaner' = [cleaner EXCEPT ![call[w].on] = s]
  <2>1. SaveCleaner(w) => cleaner' = [cleaner EXCEPT ![call[w].on] = call[w].status]
    BY DEF SaveCleaner
  <2>2. SaveStatus(w) => /\ cleaner' = [cleaner EXCEPT ![call[w].on] = call[w].to]
                         /\ call[w].op \in {"status", "eligible", "deactivate"}
    BY DEF SaveStatus
  <2> QED
    BY <1>1, <2>1, <2>2, Committing DEF CallFits, ArgumentsFit
<1>3. Touches(call[w].on, {"cleaner"})
  BY <1>1, <1>2, Committing DEF Touches, Statuses
<1>4. cleaner' \in [Cleaners -> Statuses \cup {"absent"}]
  BY <1>1, <1>2, Committing
<1>5. /\ program' \in [Programs -> ProgramRows] /\ OneTraining(program')
      /\ post' \in [Posts -> PostRows] /\ OnePostPerSite(post')
  BY <1>1, Committing
<1>6. IInv'
  BY <1>1, <1>3, <1>4, <1>5, SavesStep
<1> QED
  BY <1>3, <1>6 DEF Writes

LEMMA SaveStartStep ==
    ASSUME IInv, NEW w \in Workers, SaveStart(w)
    PROVE  IInv' /\ Writes(w)
<1>1. /\ pc[w] # "idle" /\ Finishes(w) /\ UNCHANGED <<desk, document, certified, post>>
      /\ stale' = (stale \cup Overtaken(w, call[w].on, {"cleaner", "program"})) \ {w}
      /\ Starts(call[w].on, call[w].to) /\ SetStatus(call[w], "trainee")
      /\ call[w].op = "start"
  BY DEF SaveStart, Commits
<1>2. PICK x \in Cleaners, s \in Sites : x = call[w].on /\ s = call[w].to
  BY <1>1, Committing DEF CallFits, ArgumentsFit
<1>3. /\ program' \in [Programs -> ProgramRows] /\ OneTraining(program')
      /\ \A p \in Programs : program'[p] # program[p] =>
            program[p] = NoRow /\ program'[p].of = call[w].on /\ program'[p].status = "in_training"
  <2>1. Starts(x, s)
    BY <1>1, <1>2
  <2>2. /\ program' \in [Programs -> ProgramRows] /\ OneTraining(program')
        /\ \A p \in Programs : program'[p] # program[p] =>
              /\ program[p] = NoRow
              /\ program'[p] = [of |-> x, site |-> s, status |-> "in_training"]
    BY <2>1, StartsFits
  <2> QED
    BY <1>2, <2>2
<1>4. cleaner' = cleaner \/ cleaner' = [cleaner EXCEPT ![call[w].on] = "trainee"]
  BY <1>1 DEF SetStatus
<1>5. Touches(call[w].on, {"cleaner", "program"})
  BY <1>1, <1>3, <1>4, Committing DEF Touches
<1>6. cleaner' \in [Cleaners -> Statuses \cup {"absent"}]
  BY <1>1, <1>4, Committing DEF Statuses
<1>7. post' \in [Posts -> PostRows] /\ OnePostPerSite(post')
  BY <1>1, Committing
<1>8. IInv'
  BY <1>1, <1>3, <1>5, <1>6, <1>7, SavesStep
<1> QED
  BY <1>5, <1>8 DEF Writes

LEMMA SaveTrainingStep ==
    ASSUME IInv, NEW w \in Workers, SaveTraining(w)
    PROVE  IInv' /\ Writes(w)
<1>1. /\ pc[w] # "idle" /\ Finishes(w) /\ UNCHANGED <<desk, document, certified, post>>
      /\ call[w].op \in Training /\ OneTraining(program')
  BY DEF SaveTraining, Commits, Training
<1>2. PICK parts : /\ parts = {"program"} \cup IF call[w].op \in {"supervise", "extend"} THEN {}
                                             ELSE {"cleaner"}
                   /\ stale' = (stale \cup Overtaken(w, call[w].on, parts)) \ {w}
  BY DEF SaveTraining, Commits
<1>3. "program" \in parts /\ (call[w].op \notin {"supervise", "extend"} => "cleaner" \in parts)
  BY <1>2
<1>4. PICK p \in call[w].programs :
        program' = [program EXCEPT ![p] = [call[w].row EXCEPT !.status = Outcome(call[w])]]
  BY DEF SaveTraining
<1>5. PICK c : c = call[w]
  OBVIOUS
<1>6. /\ c.row \in [of : {c.on}, site : Sites, status : ActiveProgram]
      /\ p \in Programs /\ program[p].of = c.on /\ c.op \in Training
  BY <1>1, <1>4, <1>5, Committing DEF CallFits, ArgumentsFit, RowsBelong
<1>7. Outcome(c) \in ActiveProgram \cup {"passed", "failed", "dropped"}
  BY <1>6 DEF Outcome, ActiveProgram, Training
<1>8. PICK r \in [of : {c.on}, site : Sites,
                  status : ActiveProgram \cup {"passed", "failed", "dropped"}] :
        program' = [program EXCEPT ![p] = r]
  BY <1>4, <1>5, <1>6, <1>7
<1>9. program' \in [Programs -> ProgramRows]
  <2>1. r \in ProgramRows
    BY <1>1, <1>5, <1>8, Committing DEF ProgramRows, RowsOf
  <2> QED
    BY <1>1, <1>6, <1>8, <2>1, Committing
<1>10. \/ cleaner' = cleaner
       \/ /\ "cleaner" \in parts
          /\ \E s \in {"active", "inactive"} : cleaner' = [cleaner EXCEPT ![call[w].on] = s]
  BY <1>3 DEF SaveTraining, SetStatus
<1>11. Touches(call[w].on, parts)
  BY <1>1, <1>3, <1>5, <1>6, <1>8, <1>10, Committing DEF Touches, ActiveProgram
<1>12. cleaner' \in [Cleaners -> Statuses \cup {"absent"}]
  BY <1>1, <1>10, Committing DEF Statuses
<1>13. post' \in [Posts -> PostRows] /\ OnePostPerSite(post')
  BY <1>1, Committing
<1>14. IInv'
  BY <1>1, <1>2, <1>9, <1>11, <1>12, <1>13, SavesStep
<1> QED
  BY <1>11, <1>14 DEF Writes

LEMMA SaveAssignStep ==
    ASSUME IInv, NEW w \in Workers, SaveAssign(w)
    PROVE  IInv' /\ Writes(w)
<1>1. /\ pc[w] # "idle" /\ UNCHANGED <<desk, cleaner, program, document, certified>>
      /\ stale' = (stale \cup Overtaken(w, call[w].on, {"post"})) \ {w}
      /\ Assigns(post, call[w].on, call[w].to, call[w].status)
      /\ call[w].op = "assign"
  BY DEF SaveAssign, Commits
<1>2. PICK c : c = call[w]
  OBVIOUS
<1>3. c.op = "assign" /\ c.on \in Cleaners /\ c.to \in Sites
  BY <1>1, <1>2, Committing DEF CallFits, ArgumentsFit
<1>4. PICK x \in Cleaners : x = c.on
  BY <1>3
<1>5. /\ post' \in [Posts -> PostRows] /\ OnePostPerSite(post')
      /\ \A p \in Posts : post'[p] # post[p] =>
            /\ post[p] = NoRow
            /\ post'[p] = [of |-> x, site |-> c.to, status |-> Posting(c.status)]
  <2>1. PICK old : old = post
    OBVIOUS
  <2>2. old \in [Posts -> PostRows]
    BY <1>1, <2>1, Committing
  <2>3. Assigns(old, x, c.to, c.status)
    BY <1>1, <1>2, <1>4, <2>1
  <2> QED
    BY <1>3, <2>1, <2>2, <2>3, AssignsFits
<1>6. Touches(x, {"post"})
  BY <1>1, <1>5 DEF Touches, Posting
<1>7. /\ program' \in [Programs -> ProgramRows] /\ OneTraining(program')
      /\ cleaner' \in [Cleaners -> Statuses \cup {"absent"}]
  BY <1>1, Committing
<1>8. ASSUME Finishes(w) PROVE IInv'
  BY <1>1, <1>2, <1>4, <1>5, <1>6, <1>7, <1>8, SavesStep
<1>9. ASSUME call' = [call EXCEPT ![w].op = "start", ![w].next = None], UNCHANGED pc
      PROVE  IInv'
  <2>1. pc \in [Workers -> {"idle", "loaded", "checked"}] /\ DOMAIN call = Workers
    BY DEF IInv, WorkforceOK, TypeOK
  <2>2. PICK d : d = [c EXCEPT !.op = "start", !.next = None]
    OBVIOUS
  <2>3. call' = [call EXCEPT ![w] = d]
    BY <1>2, <1>9, <2>2
  <2>4. IsCall(c) /\ RowsBelong(c)
    BY <1>1, <1>2, Committing DEF CallFits
  <2>5. d = [op |-> "start", on |-> c.on, status |-> c.status, programs |-> c.programs,
             posts |-> c.posts, row |-> c.row, to |-> c.to, next |-> None]
    BY <2>2, <2>4 DEF IsCall
  <2>6. /\ DOMAIN call' = Workers /\ call'[w] = d /\ pc'[w] = pc[w]
        /\ \A v \in Workers \ {w} : pc'[v] = pc[v] /\ call'[v] = call[v]
    BY <1>9, <2>1, <2>3
  <2>7. WorkforceOK'
    <3>1. stale' \subseteq Workers
      BY <1>1 DEF IInv, WorkforceOK, TypeOK, Overtaken
    <3>2. TypeOK'
      BY <1>1, <1>5, <1>9, <3>1 DEF IInv, WorkforceOK, TypeOK, PostRows, PostStatuses, RowsOf
    <3>3. OneTraining(program)' /\ OnePostPerSite(post)'
      BY <1>5, <1>7 DEF OneTraining, OnePostPerSite
    <3> QED
      BY <3>2, <3>3 DEF WorkforceOK
  <2>8. CallFits(w)'
    <3>1. ArgumentsFit(d) /\ IsCall(d)
      BY <1>3, <2>5 DEF ArgumentsFit, Training, Posted, IsCall
    <3>2. RowsBelong(d)'
      BY <1>1, <1>3, <1>5, <2>4, <2>5 DEF RowsBelong, NoRow
    <3>3. Fresh(d)'
      BY <2>5 DEF Fresh, Training, Posted
    <3>4. pc'[w] = "checked" => FALSE
      BY <1>2, <1>3, <2>6 DEF SaveAssign, Commits, NeedsIdentity
    <3> QED
      BY <2>6, <3>1, <3>2, <3>3, <3>4
         DEF CallFits, IsCall, ArgumentsFit, RowsBelong, Fresh, LivePosts, InTraining
  <2>9. /\ \A v \in stale \ {w} : v \in stale'
        /\ \A v \in Overtaken(w, x, {"post"}) \ {w} : v \in stale'
    BY <1>1, <1>2, <1>4
  <2>10. cleaner'[x] # "absent"
    BY <1>1, <1>2, <1>4, Committing
  <2> QED
    BY <1>1, <1>6, <2>6, <2>7, <2>8, <2>9, <2>10, CommitStep
<1>10. Touches(call[w].on, {"post"})
  BY <1>2, <1>4, <1>6
<1> QED
  BY <1>8, <1>9, <1>10 DEF SaveAssign, Writes

LEMMA SavePostStep ==
    ASSUME IInv, NEW w \in Workers, SavePost(w)
    PROVE  IInv' /\ Writes(w)
<1>1. /\ pc[w] # "idle" /\ Finishes(w) /\ UNCHANGED <<desk, cleaner, program, document, certified>>
      /\ stale' = (stale \cup Overtaken(w, call[w].on, {"post"})) \ {w}
      /\ OnePostPerSite(post') /\ call[w].op \in Posted
  BY DEF SavePost, Commits, Posted
<1>2. PICK p \in call[w].posts :
        post' = [post EXCEPT ![p].status =
                   CASE call[w].op = "edit" -> call[w].row.status
                     [] call[w].op = "end" -> "ended"
                     [] call[w].op = "suspend" -> "suspended"
                     [] call[w].op = "activate" -> "active"]
  BY DEF SavePost
<1>3. /\ call[w].row.status \in PostStatuses
      /\ p \in Posts /\ post[p].of = call[w].on /\ post[p].status # "absent"
  BY <1>1, <1>2, Committing DEF CallFits, ArgumentsFit, RowsBelong
<1>4. PICK s \in PostStatuses : post' = [post EXCEPT ![p].status = s]
  BY <1>1, <1>2, <1>3 DEF Posted, PostStatuses
<1>5. post[p] \in [of : Cleaners, site : Sites, status : PostStatuses]
  BY <1>1, <1>3, Committing DEF PostRows, RowsOf, NoRow
<1>6. post' \in [Posts -> PostRows]
  BY <1>1, <1>3, <1>4, <1>5, Committing DEF PostRows, RowsOf
<1>7. Touches(call[w].on, {"post"})
  BY <1>1, <1>3, <1>4, <1>5, Committing DEF Touches, PostStatuses
<1>8. /\ program' \in [Programs -> ProgramRows] /\ OneTraining(program')
      /\ cleaner' \in [Cleaners -> Statuses \cup {"absent"}]
  BY <1>1, Committing
<1>9. IInv'
  BY <1>1, <1>6, <1>7, <1>8, SavesStep
<1> QED
  BY <1>7, <1>9 DEF Writes

\* What a transfer writes: the assignments it has taken down end, one is added,
\* and the training it has taken down moves or, if there is none, may start.
Transferred(c, x, s) ==
    /\ post' \in [Posts -> PostRows] /\ OnePostPerSite(post')
    /\ \A p \in Posts :
         \/ p \notin c.posts /\ post'[p] = post[p]
         \/ p \in c.posts /\ post'[p] = [post[p] EXCEPT !.status = "ended"]
         \/ /\ post[p] = NoRow
            /\ post'[p] = [of |-> x, site |-> s, status |-> Posting(c.status)]
    /\ program' \in [Programs -> ProgramRows] /\ OneTraining(program')
    /\ \/ /\ c.programs = {} /\ c.status = "trainee"
          /\ \A p \in Programs : program'[p] # program[p] =>
                /\ program[p] = NoRow
                /\ program'[p] = [of |-> x, site |-> s, status |-> "in_training"]
          /\ \E p \in Programs :
                program'[p] = [of |-> x, site |-> s, status |-> "in_training"]
       \/ /\ c.programs # {} \/ c.status # "trainee"
          /\ program' = Moved(c)

LEMMA TransferWrites ==
    ASSUME IInv, NEW w \in Workers, SaveTransfer(w), NEW c, c = call[w],
           NEW x, x = c.on, NEW s, s = c.to
    PROVE  Transferred(c, x, s) /\ x \in Cleaners /\ s \in Sites
<1>1. pc[w] # "idle" /\ c.op = "transfer"
  BY DEF SaveTransfer, Commits
<1>2. /\ x \in Cleaners /\ s \in Sites /\ RowsBelong(c)
      /\ post \in [Posts -> PostRows] /\ program \in [Programs -> ProgramRows]
      /\ OneTraining(program)
  BY <1>1, Committing DEF CallFits, ArgumentsFit
<1>3. \A p \in c.posts :
        p \in Posts /\ post[p] \in [of : {x}, site : Sites, status : PostStatuses]
  BY <1>2 DEF RowsBelong, PostRows, RowsOf, NoRow
<1>4. \A p \in c.programs :
        p \in Programs /\ program[p] \in [of : {x}, site : Sites, status :
                             ActiveProgram \cup {"passed", "failed", "dropped"}]
  BY <1>2 DEF RowsBelong, ProgramRows, RowsOf, NoRow
<1>5. PICK ended : ended = [p \in Posts |-> IF p \in c.posts
                                            THEN [post[p] EXCEPT !.status = "ended"]
                                            ELSE post[p]]
  OBVIOUS
<1>6. Assigns(ended, x, s, c.status)
  BY <1>5 DEF SaveTransfer
<1>7. ended \in [Posts -> PostRows]
  BY <1>2, <1>3, <1>5 DEF PostRows, RowsOf, PostStatuses
<1>8. /\ post' \in [Posts -> PostRows] /\ OnePostPerSite(post')
      /\ \A p \in Posts : post'[p] # ended[p] =>
            /\ ended[p] = NoRow
            /\ post'[p] = [of |-> x, site |-> s, status |-> Posting(c.status)]
  BY <1>2, <1>6, <1>7, AssignsFits
<1>9. ASSUME NEW p \in Posts
      PROVE  \/ p \notin c.posts /\ post'[p] = post[p]
             \/ p \in c.posts /\ post'[p] = [post[p] EXCEPT !.status = "ended"]
             \/ /\ post[p] = NoRow
                /\ post'[p] = [of |-> x, site |-> s, status |-> Posting(c.status)]
  <2>1. p \in c.posts => ended[p] # NoRow
    <3>1. p \in c.posts => ended[p].status = "ended"
      BY <1>3, <1>5
    <3> QED
      BY <3>1 DEF NoRow
  <2> QED
    BY <1>5, <1>8, <2>1
<1>10. CASE c.programs = {} /\ c.status = "trainee"
  <2>1. Starts(x, s)
    BY <1>10 DEF SaveTransfer
  <2> QED
    BY <1>2, <1>8, <1>9, <1>10, <2>1, StartsFits DEF Transferred
<1>11. CASE c.programs # {} \/ c.status # "trainee"
  <2>1. program' = Moved(c)
    BY <1>11 DEF SaveTransfer
  <2>2. \A p \in Programs : p \in c.programs =>
          /\ program'[p] = [program[p] EXCEPT !.site = s]
          /\ program'[p] \in ProgramRows
          /\ program'[p].of = program[p].of /\ program'[p].status = program[p].status
    BY <1>2, <1>4, <2>1 DEF Moved, ProgramRows, RowsOf
  <2>3. \A p \in Programs : p \notin c.programs => program'[p] = program[p]
    BY <2>1 DEF Moved
  <2>4. program' \in [Programs -> ProgramRows]
    BY <1>2, <2>1, <2>2, <2>3 DEF Moved
  <2>5. OneTraining(program')
    <3>1. \A p \in Programs :
            program'[p].of = program[p].of /\ program'[p].status = program[p].status
      BY <2>2, <2>3
    <3> QED
      BY <1>2, <3>1 DEF OneTraining
  <2> QED
    BY <1>2, <1>8, <1>9, <1>11, <2>1, <2>4, <2>5 DEF Transferred
<1> QED
  BY <1>2, <1>10, <1>11

LEMMA SaveTransferStep ==
    ASSUME IInv, NEW w \in Workers, SaveTransfer(w)
    PROVE  IInv' /\ Writes(w)
<1>1. /\ pc[w] # "idle" /\ Finishes(w) /\ UNCHANGED <<desk, cleaner, document, certified>>
      /\ stale' = (stale \cup Overtaken(w, call[w].on, {"cleaner", "program", "post"})) \ {w}
  BY DEF SaveTransfer, Commits
<1>2. PICK c, x, s : c = call[w] /\ x = c.on /\ s = c.to
  OBVIOUS
<1>3. Transferred(c, x, s) /\ x \in Cleaners /\ s \in Sites
  BY <1>2, TransferWrites
<1>4. RowsBelong(c) /\ program \in [Programs -> ProgramRows] /\ post \in [Posts -> PostRows]
  BY <1>1, <1>2, Committing DEF CallFits
<1>5. \A p \in Programs : program'[p] # program[p] =>
        /\ program'[p].of = x /\ program'[p].status # "absent"
        /\ program[p] = NoRow \/ program[p].of = x
  <2>1. CASE c.programs = {} /\ c.status = "trainee"
    BY <1>3, <2>1 DEF Transferred
  <2>2. CASE c.programs # {} \/ c.status # "trainee"
    <3>1. \A p \in Programs : program'[p] = IF p \in c.programs
                              THEN [program[p] EXCEPT !.site = c.to] ELSE program[p]
      BY <1>3, <2>2 DEF Transferred, Moved
    <3>2. \A p \in Programs : p \in c.programs =>
            /\ program[p].of = x /\ program[p].status # "absent"
            /\ program[p] \in [of : Cleaners, site : Sites, status :
                               ActiveProgram \cup {"passed", "failed", "dropped"}]
      BY <1>2, <1>4 DEF RowsBelong, ProgramRows, RowsOf, NoRow
    <3> QED
      BY <3>1, <3>2
  <2> QED
    BY <2>1, <2>2
<1>6. \A p \in Posts : post'[p] # post[p] =>
        /\ post'[p].of = x /\ post'[p].status # "absent"
        /\ post[p] = NoRow \/ post[p].of = x
  <2>1. \A p \in Posts : p \in c.posts =>
          /\ post[p].of = x
          /\ post[p] \in [of : Cleaners, site : Sites, status : PostStatuses]
    BY <1>2, <1>4 DEF RowsBelong, PostRows, RowsOf, NoRow
  <2> QED
    BY <1>3, <2>1 DEF Transferred, Posting
<1>7. Touches(call[w].on, {"cleaner", "program", "post"})
  BY <1>1, <1>2, <1>5, <1>6 DEF Touches
<1>8. /\ program' \in [Programs -> ProgramRows] /\ OneTraining(program')
      /\ post' \in [Posts -> PostRows] /\ OnePostPerSite(post')
  BY <1>3 DEF Transferred
<1>9. cleaner' \in [Cleaners -> Statuses \cup {"absent"}]
  BY <1>1, Committing
<1>10. IInv'
  BY <1>1, <1>7, <1>8, <1>9, SavesStep
<1> QED
  BY <1>7, <1>10 DEF Writes

\* A row of the workbook: for somebody known, or for somebody new with the
\* status the row asks for.
LEMMA ImportedFits ==
    ASSUME IInv, NEW x \in Cleaners, NEW s \in Sites, NEW status \in Statuses,
           NEW t \in {"trainee", "active"}, Imported(x, s, status, t)
    PROVE  /\ Touches(x, {"cleaner", "program", "post"})
           /\ cleaner' \in [Cleaners -> Statuses \cup {"absent"}] /\ cleaner'[x] # "absent"
           /\ program' \in [Programs -> ProgramRows] /\ OneTraining(program')
           /\ post' \in [Posts -> PostRows] /\ OnePostPerSite(post')
<1>1. /\ cleaner \in [Cleaners -> Statuses \cup {"absent"}]
      /\ program \in [Programs -> ProgramRows] /\ OneTraining(program)
      /\ post \in [Posts -> PostRows] /\ OnePostPerSite(post)
  BY DEF IInv, WorkforceOK, TypeOK, ProgramRows, PostRows, PostStatuses
<1>2. /\ post' \in [Posts -> PostRows] /\ OnePostPerSite(post')
      /\ \A p \in Posts : post'[p] # post[p] =>
            post[p] = NoRow /\ post'[p].of = x /\ post'[p].status # "absent"
  <2>1. CASE UNCHANGED post
    BY <1>1, <2>1
  <2>2. CASE Assigns(post, x, s, status)
    <3>1. PICK old : old = post
      OBVIOUS
    <3>2. old \in [Posts -> PostRows] /\ Assigns(old, x, s, status)
      BY <1>1, <2>2, <3>1
    <3>3. /\ post' \in [Posts -> PostRows] /\ OnePostPerSite(post')
          /\ \A p \in Posts : post'[p] # old[p] =>
                /\ old[p] = NoRow
                /\ post'[p] = [of |-> x, site |-> s, status |-> Posting(status)]
      BY <3>2, AssignsFits
    <3> QED
      BY <3>1, <3>3 DEF Posting
  <2> QED
    BY <2>1, <2>2 DEF Imported
<1>3. /\ program' \in [Programs -> ProgramRows] /\ OneTraining(program')
      /\ \A p \in Programs : program'[p] # program[p] =>
            program[p] = NoRow /\ program'[p].of = x /\ program'[p].status # "absent"
  <2>1. CASE UNCHANGED program
    BY <1>1, <2>1
  <2>2. CASE Starts(x, s)
    <3>1. /\ program' \in [Programs -> ProgramRows] /\ OneTraining(program')
          /\ \A p \in Programs : program'[p] # program[p] =>
                /\ program[p] = NoRow
                /\ program'[p] = [of |-> x, site |-> s, status |-> "in_training"]
      BY <2>2, StartsFits
    <3> QED
      BY <3>1
  <2> QED
    BY <2>1, <2>2 DEF Imported
<1>4. \/ cleaner' = cleaner /\ cleaner[x] # "absent"
      \/ \E u \in Statuses : cleaner' = [cleaner EXCEPT ![x] = u]
  BY DEF Imported, Statuses
<1>5. cleaner' \in [Cleaners -> Statuses \cup {"absent"}] /\ cleaner'[x] # "absent"
  BY <1>1, <1>4 DEF Statuses
<1>6. Touches(x, {"cleaner", "program", "post"})
  BY <1>1, <1>2, <1>3, <1>4, <1>5 DEF Touches
<1> QED
  BY <1>2, <1>3, <1>5, <1>6

LEMMA SaveImportStep ==
    ASSUME IInv, NEW w \in Workers, SaveImport(w)
    PROVE  IInv' /\ Writes(w)
<1>1. /\ pc[w] # "idle" /\ Finishes(w) /\ UNCHANGED <<desk, document, certified>>
      /\ stale' = (stale \cup Overtaken(w, call[w].on, {"cleaner", "program", "post"})) \ {w}
      /\ call[w].op = "import"
  BY DEF SaveImport
<1>2. PICK x \in Cleaners, s \in Sites, status \in Statuses, t \in {"trainee", "active"} :
        x = call[w].on /\ s = call[w].to /\ status = call[w].status /\ t = call[w].next
  BY <1>1, Committing DEF CallFits, ArgumentsFit
<1>3. Imported(x, s, status, t)
  BY <1>2 DEF SaveImport
<1>4. /\ Touches(x, {"cleaner", "program", "post"})
      /\ cleaner' \in [Cleaners -> Statuses \cup {"absent"}]
      /\ program' \in [Programs -> ProgramRows] /\ OneTraining(program')
      /\ post' \in [Posts -> PostRows] /\ OnePostPerSite(post')
  BY <1>3, ImportedFits
<1>5. Touches(call[w].on, {"cleaner", "program", "post"})
  BY <1>2, <1>4 DEF Touches
<1>6. IInv'
  BY <1>1, <1>4, <1>5, SavesStep
<1> QED
  BY <1>5, <1>6 DEF Writes

\* Somebody who is imported for the first time is nobody's call.
LEMMA ImportNewStep ==
    ASSUME IInv, ImportNew
    PROVE  IInv'
<1>1. PICK x \in Cleaners \ Registered, s \in Sites, t \in {"trainee", "active"} :
        /\ Imported(x, s, t, t)
        /\ UNCHANGED <<desk, document, certified, pc, call, stale>>
  BY DEF ImportNew
<1>2. x \in Cleaners /\ cleaner[x] = "absent" /\ t \in Statuses
  BY DEF Registered, Statuses, IInv, WorkforceOK, TypeOK
<1>3. /\ Touches(x, {"cleaner", "program", "post"})
      /\ cleaner' \in [Cleaners -> Statuses \cup {"absent"}] /\ cleaner'[x] # "absent"
      /\ program' \in [Programs -> ProgramRows] /\ OneTraining(program')
      /\ post' \in [Posts -> PostRows] /\ OnePostPerSite(post')
  BY <1>1, <1>2, ImportedFits
<1>4. WorkforceOK'
  <2>1. TypeOK'
    BY <1>1, <1>3 DEF IInv, WorkforceOK, TypeOK, ProgramRows, PostRows, PostStatuses, RowsOf
  <2>2. OneTraining(program)' /\ OnePostPerSite(post)'
    BY <1>3 DEF OneTraining, OnePostPerSite
  <2> QED
    BY <2>1, <2>2 DEF WorkforceOK
<1>5. Accounted'
  BY <1>2, <1>3 DEF IInv, Accounted, Touches, NoRow
<1>6. ASSUME NEW v \in Workers, pc'[v] # "idle" PROVE CallFits(v)'
  <2>1. pc[v] # "idle" /\ pc'[v] = pc[v] /\ call'[v] = call[v] /\ stale' = stale
        /\ document'[call[v].on] = document[call[v].on]
    BY <1>1, <1>6
  <2>2. call[v].on # x
    BY <1>2, <2>1, Committing
  <2> QED
    BY <1>2, <1>3, <2>1, <2>2, OtherCalls
<1>7. DOMAIN call' = Workers
  BY <1>1 DEF IInv
<1> QED
  BY <1>4, <1>5, <1>6, <1>7 DEF IInv

\* Reviews and evaluations write nothing a call has loaded, but the document
\* that a call has found verified.
LEMMA ReviewStep ==
    ASSUME IInv, ReviewDocument \/ EvaluateFinally \/ UNCHANGED vars
    PROVE  IInv'
<1>1. UNCHANGED <<desk, cleaner, program, post, pc, call>>
  BY DEF ReviewDocument, EvaluateFinally, vars, rows
<1>2. WorkforceOK'
  <2>1. document' \in [Cleaners -> {None, "pending", "verified", "rejected"}]
    BY DEF ReviewDocument, EvaluateFinally, vars, rows, IInv, WorkforceOK, TypeOK
  <2>2. certified' \subseteq Programs /\ stale' \subseteq Workers
    BY DEF ReviewDocument, EvaluateFinally, vars, rows, IInv, WorkforceOK, TypeOK
  <2> QED
    BY <1>1, <2>1, <2>2 DEF IInv, WorkforceOK, TypeOK, OneTraining, OnePostPerSite
<1>3. Accounted' /\ DOMAIN call' = Workers
  BY <1>1 DEF IInv, Accounted
<1>4. ASSUME NEW v \in Workers, pc'[v] # "idle" PROVE CallFits(v)'
  <2>1. pc[v] # "idle" /\ pc'[v] = pc[v] /\ call'[v] = call[v]
    BY <1>1, <1>4
  <2>2. v \in stale => v \in stale'
    BY DEF ReviewDocument, EvaluateFinally, vars
  <2>3. document'[call[v].on] = document[call[v].on] \/ pc[v] # "checked" \/ v \in stale'
    <3>1. CASE ReviewDocument
      <4>1. PICK x \in Registered, d \in {"pending", "verified", "rejected"} :
              /\ document' = [document EXCEPT ![x] = d]
              /\ stale' = stale \cup {u \in Workers : pc[u] = "checked" /\ call[u].on = x}
        BY <3>1 DEF ReviewDocument
      <4>2. call[v].on # x => document'[call[v].on] = document[call[v].on]
        BY <4>1, <2>1, Committing DEF IInv, WorkforceOK, TypeOK
      <4> QED
        BY <4>1, <4>2
    <3>2. CASE EvaluateFinally \/ UNCHANGED vars
      BY <3>2 DEF EvaluateFinally, vars, rows
    <3> QED
      BY <3>1, <3>2
  <2>4. PICK x \in Cleaners : x = call[v].on
    BY <2>1, Committing
  <2>5. Touches(x, {}) /\ Reads(call[v].op) \cap {} = {}
    BY <1>1 DEF Touches
  <2> QED
    BY <2>1, <2>2, <2>3, <2>5, OtherCalls
<1> QED
  BY <1>2, <1>3, <1>4 DEF IInv

LEMMA CheckIdentityStep ==
    ASSUME IInv, NEW w \in Workers, CheckIdentity(w)
    PROVE  IInv'
<1>1. /\ pc[w] = "loaded" /\ document[call[w].on] = "verified"
      /\ pc' = [pc EXCEPT ![w] = "checked"]
      /\ UNCHANGED <<desk, cleaner, document, program, certified, post, call, stale>>
  BY DEF CheckIdentity, rows
<1>2. pc \in [Workers -> {"idle", "loaded", "checked"}]
  BY DEF IInv, WorkforceOK, TypeOK
<1>3. WorkforceOK' /\ DOMAIN call' = Workers
  BY <1>1 DEF IInv, WorkforceOK, TypeOK, OneTraining, OnePostPerSite
<1>4. PICK x \in Cleaners : x = call[w].on
  BY <1>1, Committing
<1>5. CallFits(w)'
  <2>1. CallFits(w)
    BY <1>1, Committing
  <2> QED
    BY <1>1, <2>1 DEF CallFits, IsCall, ArgumentsFit, RowsBelong, Fresh, LivePosts, InTraining
<1>6. Touches(x, {}) /\ cleaner'[x] # "absent"
  BY <1>1, <1>4, Committing DEF Touches
<1>7. /\ \A v \in Workers \ {w} : pc'[v] = pc[v] /\ call'[v] = call[v]
      /\ \A v \in stale \ {w} : v \in stale'
      /\ \A v \in Overtaken(w, x, {}) \ {w} : v \in stale'
  BY <1>1, <1>2 DEF Overtaken
<1> QED
  BY <1>1, <1>3, <1>5, <1>6, <1>7, CommitStep

LEMMA AbortStep ==
    ASSUME IInv, NEW w \in Workers, Abort(w)
    PROVE  IInv'
<1>1. /\ pc[w] # "idle" /\ Finishes(w) /\ stale' = stale \ {w}
      /\ UNCHANGED <<desk, cleaner, document, program, certified, post>>
  BY DEF Abort, rows
<1>2. Overtaken(w, call[w].on, {}) = {}
  BY DEF Overtaken
<1>3. /\ cleaner' \in [Cleaners -> Statuses \cup {"absent"}]
      /\ program' \in [Programs -> ProgramRows] /\ OneTraining(program')
      /\ post' \in [Posts -> PostRows] /\ OnePostPerSite(post')
  BY <1>1, Committing
<1>4. Touches(call[w].on, {})
  BY <1>1 DEF Touches
<1> QED
  BY <1>1, <1>2, <1>3, <1>4, SavesStep

\* The new cleaner is nobody's call but the one that goes on to assign.
LEMMA RegisterStep ==
    ASSUME IInv, NEW w \in Workers, Register(w)
    PROVE  IInv'
<1>1. PICK x \in Cleaners \ Registered, s \in Sites, t \in {"trainee", "active"} :
        /\ pc[w] = "idle"
        /\ cleaner' = [cleaner EXCEPT ![x] = t]
        /\ pc' = [pc EXCEPT ![w] = "loaded"]
        /\ call' = [call EXCEPT ![w] = [OnCleaner("assign", x) EXCEPT
                      !.to = s, !.status = t,
                      !.next = IF t = "trainee" THEN "start" ELSE None]]
        /\ stale' = stale \ {w}
        /\ UNCHANGED <<desk, document, program, certified, post>>
  BY DEF Register
<1>2. x \in Cleaners /\ cleaner[x] = "absent" /\ t \in Statuses
  BY DEF Registered, Statuses, IInv, WorkforceOK, TypeOK
<1>3. PICK next : next = IF t = "trainee" THEN "start" ELSE None
  OBVIOUS
<1>4. PICK c : c = OnCleaner("assign", x)
  OBVIOUS
<1>5. c = About("assign", x, None, None)
  BY <1>4, OnCleanerIs
<1>6. PICK d : d = [c EXCEPT !.to = s, !.status = t, !.next = next]
  OBVIOUS
<1>7. d = [op |-> "assign", on |-> x, status |-> t, programs |-> {}, posts |-> {},
           row |-> NoRow, to |-> s, next |-> next]
  BY <1>5, <1>6 DEF About
<1>8. call' = [call EXCEPT ![w] = d]
  BY <1>1, <1>3, <1>4, <1>6
<1>9. /\ pc \in [Workers -> {"idle", "loaded", "checked"}] /\ DOMAIN call = Workers
      /\ cleaner \in [Cleaners -> Statuses \cup {"absent"}]
  BY DEF IInv, WorkforceOK, TypeOK
<1>10. /\ DOMAIN call' = Workers /\ call'[w] = d /\ pc'[w] = "loaded"
       /\ \A v \in Workers \ {w} : pc'[v] = pc[v] /\ call'[v] = call[v]
  BY <1>1, <1>8, <1>9
<1>11. cleaner'[x] = t /\ \A y \in Cleaners : y # x => cleaner'[y] = cleaner[y]
  BY <1>1, <1>9
<1>12. Touches(x, {"cleaner"}) /\ cleaner'[x] # "absent"
  BY <1>1, <1>2, <1>11 DEF Touches
<1>13. WorkforceOK'
  <2>1. /\ cleaner' \in [Cleaners -> Statuses \cup {"absent"}]
        /\ pc' \in [Workers -> {"idle", "loaded", "checked"}]
    BY <1>1, <1>2, <1>9
  <2>2. stale' \subseteq Workers
    BY <1>1 DEF IInv, WorkforceOK, TypeOK
  <2> QED
    BY <1>1, <2>1, <2>2 DEF IInv, WorkforceOK, TypeOK, OneTraining, OnePostPerSite
<1>14. CallFits(w)'
  <2>1. IsCall(d) /\ ArgumentsFit(d)
    BY <1>7 DEF IsCall, ArgumentsFit, Training, Posted
  <2>2. RowsBelong(d)'
    BY <1>2, <1>7, <1>11, <1>12 DEF RowsBelong
  <2>3. Fresh(d)'
    BY <1>7, <1>11 DEF Fresh, Training, Posted
  <2> QED
    BY <1>10, <2>1, <2>2, <2>3
       DEF CallFits, IsCall, ArgumentsFit, RowsBelong, Fresh, LivePosts, InTraining
<1>15. ASSUME NEW v \in Workers, v # w, pc'[v] # "idle" PROVE CallFits(v)'
  <2>1. pc'[v] = pc[v] /\ call'[v] = call[v] /\ pc[v] # "idle"
    BY <1>10, <1>15
  <2>2. call[v].on # x
    BY <1>2, <2>1, Committing
  <2>3. (v \in stale => v \in stale') /\ document'[call[v].on] = document[call[v].on]
    BY <1>1, <1>15
  <2> QED
    BY <1>2, <1>12, <2>1, <2>2, <2>3, OtherCalls
<1>16. Accounted'
  BY <1>1, <1>12 DEF IInv, Accounted, Touches, NoRow
<1> QED
  BY <1>10, <1>13, <1>14, <1>15, <1>16 DEF IInv

LEMMA NextInv == IInv /\ [Next]_vars => IInv'
<1> SUFFICES ASSUME IInv, [Next]_vars PROVE IInv'
  OBVIOUS
<1>1. CASE ImportNew
  BY <1>1, ImportNewStep
<1>2. CASE ReviewDocument \/ EvaluateFinally \/ UNCHANGED vars
  BY <1>2, ReviewStep
<1>3. ASSUME NEW w \in Workers, Step(w) PROVE IInv'
  BY <1>3, RegisterStep, LoadsStep, LoadsProgram, LoadsPost, LoadsTransfer, CheckIdentityStep,
     SaveCleanerStep, SaveStartStep, SaveTrainingStep, SaveAssignStep, SavePostStep,
     SaveTransferStep, SaveImportStep, AbortStep DEF Step
<1> QED
  BY <1>1, <1>2, <1>3 DEF Next

\* The invariant: what a call goes by belongs to its cleaner, and is what it has
\* loaded unless it has been overtaken.
THEOREM Invariant == Spec => []IInv
BY InitInv, NextInv, PTL DEF Spec

\* No cleaner is in two trainings at once, or holds two live assignments at one
\* site, however the loads and saves of the requests interleave.
THEOREM OneAtATime == Spec => []WorkforceOK
<1>1. IInv => WorkforceOK
  BY DEF IInv
<1> QED
  BY <1>1, Invariant, PTL

------------------------------------------------------------------------------
(* What a step may never do.                                                 *)

ActivationEarned ==
    \A x \in Registered :
        cleaner[x] # "active" /\ cleaner'[x] = "active" =>
            \/ document[x] = "verified"
            \/ \E w \in stale : Ends(w) /\ call[w].on = x

PostsEarned ==
    \A p \in Posts :
        post[p].status # "active" /\ post'[p].status = "active" =>
            \/ cleaner'[post'[p].of] = "active"
            \/ \E w \in stale : Ends(w) /\ call[w].on = post'[p].of

CompletionEarned ==
    \A p \in Programs : program'[p].status # program[p].status =>
        \/ program[p].status = "absent"
        \/ \E w \in stale : Ends(w) /\ call[w].on = program[p].of
        \/ /\ program[p].status \in ActiveProgram
           /\ program'[p].status = "passed" => cleaner'[program[p].of] = "active"
           /\ program'[p].status \in {"failed", "dropped"} =>
                cleaner'[program[p].of] = "inactive"

Earned == ActivationEarned /\ PostsEarned /\ CompletionEarned

\* A step that writes nothing.
LEMMA QuietEarned ==
    ASSUME UNCHANGED <<cleaner, program, post>>
    PROVE  Earned
BY DEF Earned, ActivationEarned, PostsEarned, CompletionEarned

\* The end of a call that has been overtaken is excused.
LEMMA StaleEarned ==
    ASSUME IInv, NEW w \in stale, Ends(w), Writes(w)
    PROVE  Earned
<1>1. PICK parts : Touches(call[w].on, parts)
  BY DEF Writes
<1>2. ActivationEarned
  BY <1>1 DEF ActivationEarned, Touches, Registered
<1>3. PostsEarned
  BY <1>1 DEF PostsEarned, Touches
<1>4. CompletionEarned
  BY <1>1 DEF CompletionEarned, Touches, NoRow
<1> QED
  BY <1>2, <1>3, <1>4 DEF Earned

\* What a call that nobody has overtaken goes by.
LEMMA Unovertaken ==
    ASSUME IInv, NEW w \in Workers, w \notin stale, pc[w] # "idle"
    PROVE  /\ Fresh(call[w]) /\ ArgumentsFit(call[w]) /\ RowsBelong(call[w])
           /\ pc[w] = "checked" => document[call[w].on] = "verified"
BY DEF IInv, CallFits

LEMMA CleanerEarned ==
    ASSUME IInv, NEW w \in Workers, w \notin stale, SaveCleaner(w) \/ SaveStatus(w)
    PROVE  Earned
<1>1. pc[w] # "idle" /\ UNCHANGED <<document, program, post>>
  BY DEF SaveCleaner, SaveStatus, Commits
<1>2. /\ call[w].on \in Cleaners /\ cleaner \in [Cleaners -> Statuses \cup {"absent"}]
      /\ Fresh(call[w]) /\ ArgumentsFit(call[w])
  BY <1>1, Committing, Unovertaken
<1>3. ASSUME NEW x \in Registered, cleaner[x] # "active", cleaner'[x] = "active"
      PROVE  document[x] = "verified"
  <2>1. CASE SaveCleaner(w)
    <3>1. /\ cleaner' = [cleaner EXCEPT ![call[w].on] = call[w].status]
          /\ call[w].op = "update"
      BY <2>1 DEF SaveCleaner
    <3>2. cleaner[call[w].on] = call[w].status
      BY <1>2, <3>1 DEF Fresh, Reads
    <3> QED
      BY <1>2, <1>3, <3>1, <3>2
  <2>2. CASE SaveStatus(w)
    <3>1. /\ cleaner' = [cleaner EXCEPT ![call[w].on] = call[w].to]
          /\ call[w].op \in {"status", "eligible", "deactivate"}
          /\ pc[w] = IF NeedsIdentity(call[w]) THEN "checked" ELSE "loaded"
      BY <2>2 DEF SaveStatus, Commits
    <3>2. x = call[w].on /\ call[w].to = "active"
      BY <1>2, <1>3, <3>1 DEF Registered
    <3>3. pc[w] = "checked"
      BY <1>2, <3>1, <3>2 DEF ArgumentsFit, NeedsIdentity
    <3> QED
      BY <1>1, <3>2, <3>3, Unovertaken
  <2> QED
    BY <2>1, <2>2
<1> QED
  BY <1>1, <1>3 DEF Earned, ActivationEarned, PostsEarned, CompletionEarned

LEMMA StartEarned ==
    ASSUME IInv, NEW w \in Workers, SaveStart(w)
    PROVE  Earned
<1>1. /\ pc[w] # "idle" /\ UNCHANGED <<document, post>>
      /\ Starts(call[w].on, call[w].to) /\ SetStatus(call[w], "trainee")
  BY DEF SaveStart, Commits
<1>2. call[w].on \in Cleaners /\ cleaner \in [Cleaners -> Statuses \cup {"absent"}]
  BY <1>1, Committing
<1>3. \A x \in Registered : cleaner'[x] = "active" => cleaner[x] = "active"
  BY <1>1, <1>2 DEF SetStatus, Registered
<1>4. \A p \in Programs : program'[p] # program[p] => program[p].status = "absent"
  BY <1>1 DEF Starts, NoRow
<1> QED
  BY <1>1, <1>3, <1>4 DEF Earned, ActivationEarned, PostsEarned, CompletionEarned

LEMMA TrainingEarned ==
    ASSUME IInv, NEW w \in Workers, w \notin stale, SaveTraining(w)
    PROVE  Earned
<1>1. /\ pc[w] # "idle" /\ UNCHANGED <<document, post>> /\ call[w].op \in Training
      /\ pc[w] = IF NeedsIdentity(call[w]) THEN "checked" ELSE "loaded"
  BY DEF SaveTraining, Commits, Training
<1>2. PICK c : c = call[w]
  OBVIOUS
<1>3. PICK p \in c.programs : program' = [program EXCEPT ![p] = [c.row EXCEPT !.status = Outcome(c)]]
  BY <1>2 DEF SaveTraining
<1>4. /\ c.on \in Cleaners /\ cleaner \in [Cleaners -> Statuses \cup {"absent"}]
      /\ program \in [Programs -> ProgramRows]
      /\ Fresh(c) /\ ArgumentsFit(c) /\ RowsBelong(c)
  BY <1>1, <1>2, Committing, Unovertaken
<1>5. /\ p \in Programs /\ program[p] = c.row
      /\ c.row \in [of : {c.on}, site : Sites, status : ActiveProgram]
  BY <1>1, <1>2, <1>3, <1>4 DEF Fresh, ArgumentsFit, RowsBelong
<1>6. \A q \in Programs : q # p => program'[q] = program[q]
  BY <1>3
<1>7. program'[p].status = Outcome(c) /\ program[p].status \in ActiveProgram
      /\ program[p].of = c.on
  BY <1>3, <1>4, <1>5
<1>8. IF c.op \in {"supervise", "extend"} THEN cleaner' = cleaner
      ELSE cleaner' = IF c.status = (IF c.op = "pass" THEN "active" ELSE "inactive")
                      THEN cleaner
                      ELSE [cleaner EXCEPT ![c.on] = IF c.op = "pass" THEN "active"
                                                     ELSE "inactive"]
  BY <1>2 DEF SaveTraining, SetStatus
<1>9. c.op \notin {"supervise", "extend"} => cleaner[c.on] = c.status
  BY <1>1, <1>2, <1>4 DEF Fresh, Reads, Training
<1>10. c.op \notin {"supervise", "extend"} =>
         cleaner'[c.on] = IF c.op = "pass" THEN "active" ELSE "inactive"
  BY <1>4, <1>8, <1>9
<1>11. CompletionEarned
  <2>1. Outcome(c) = "passed" => c.op = "pass"
    BY <1>1, <1>2, <1>5 DEF Outcome, Training, ActiveProgram
  <2>2. Outcome(c) \in {"failed", "dropped"} => c.op \in {"fail", "drop"}
    BY <1>1, <1>2, <1>5 DEF Outcome, Training, ActiveProgram
  <2> QED
    BY <1>6, <1>7, <1>10, <2>1, <2>2 DEF CompletionEarned
<1>12. ActivationEarned
  <2>1. ASSUME NEW x \in Registered, cleaner[x] # "active", cleaner'[x] = "active"
        PROVE  document[x] = "verified"
    <3>1. x = c.on /\ c.op = "pass"
      BY <1>4, <1>8, <2>1 DEF Registered
    <3>2. pc[w] = "checked"
      BY <1>1, <1>2, <3>1 DEF NeedsIdentity
    <3> QED
      BY <1>1, <1>2, <3>1, <3>2, Unovertaken
  <2> QED
    BY <2>1 DEF ActivationEarned
<1>13. PostsEarned
  BY <1>1 DEF PostsEarned
<1> QED
  BY <1>11, <1>12, <1>13 DEF Earned

LEMMA AssignEarned ==
    ASSUME IInv, NEW w \in Workers, w \notin stale, SaveAssign(w)
    PROVE  Earned
<1>1. /\ pc[w] # "idle" /\ UNCHANGED <<cleaner, document, program>>
      /\ Assigns(post, call[w].on, call[w].to, call[w].status) /\ call[w].op = "assign"
  BY DEF SaveAssign, Commits
<1>2. PICK c : c = call[w]
  OBVIOUS
<1>3. cleaner[c.on] = c.status
  BY <1>1, <1>2, Unovertaken DEF Fresh, Reads
<1>4. \A p \in Posts : post'[p] # post[p] =>
        post'[p].of = c.on /\ post'[p].status = Posting(c.status)
  BY <1>1, <1>2, Committing DEF Assigns
<1>5. PostsEarned
  BY <1>1, <1>3, <1>4 DEF PostsEarned, Posting
<1> QED
  BY <1>1, <1>5 DEF Earned, ActivationEarned, CompletionEarned

LEMMA PostEarned ==
    ASSUME IInv, NEW w \in Workers, w \notin stale, SavePost(w)
    PROVE  Earned
<1>1. /\ pc[w] # "idle" /\ UNCHANGED <<cleaner, document, program>> /\ call[w].op \in Posted
  BY DEF SavePost, Commits, Posted
<1>2. PICK c : c = call[w]
  OBVIOUS
<1>3. PICK p \in c.posts :
        post' = [post EXCEPT ![p].status =
                   CASE c.op = "edit" -> c.row.status
                     [] c.op = "end" -> "ended"
                     [] c.op = "suspend" -> "suspended"
                     [] c.op = "activate" -> "active"]
  BY <1>2 DEF SavePost
<1>4. /\ Fresh(c) /\ ArgumentsFit(c) /\ RowsBelong(c)
      /\ post \in [Posts -> PostRows]
  BY <1>1, <1>2, Committing, Unovertaken
<1>5. p \in Posts /\ post[p] = c.row /\ post[p].of = c.on
      /\ post[p] \in [of : {c.on}, site : Sites, status : PostStatuses]
  BY <1>1, <1>2, <1>4 DEF Fresh, ArgumentsFit, RowsBelong
<1>6. PICK s : /\ post' = [post EXCEPT ![p].status = s]
               /\ s = "active" => post[p].status = "active" \/ c.op = "activate"
  <2>1. PICK s : s = CASE c.op = "edit" -> c.row.status
                       [] c.op = "end" -> "ended"
                       [] c.op = "suspend" -> "suspended"
                       [] c.op = "activate" -> "active"
    OBVIOUS
  <2>2. s = "active" => post[p].status = "active" \/ c.op = "activate"
    BY <1>1, <1>2, <1>5, <2>1 DEF Posted
  <2> QED
    BY <1>3, <2>1, <2>2
<1>7. c.op = "activate" => cleaner[c.on] = "active"
  BY <1>4 DEF Fresh, ArgumentsFit, Reads
<1>8. /\ \A q \in Posts : q # p => post'[q] = post[q]
      /\ post'[p].status = s /\ post'[p].of = c.on
  BY <1>4, <1>5, <1>6
<1>9. PostsEarned
  BY <1>1, <1>6, <1>7, <1>8 DEF PostsEarned
<1> QED
  BY <1>1, <1>9 DEF Earned, ActivationEarned, CompletionEarned

LEMMA TransferEarned ==
    ASSUME IInv, NEW w \in Workers, w \notin stale, SaveTransfer(w)
    PROVE  Earned
<1>1. pc[w] # "idle" /\ UNCHANGED <<cleaner, document>> /\ call[w].op = "transfer"
  BY DEF SaveTransfer, Commits
<1>2. PICK c, x, s : c = call[w] /\ x = c.on /\ s = c.to
  OBVIOUS
<1>3. Transferred(c, x, s) /\ cleaner[x] = c.status /\ RowsBelong(c)
      /\ program \in [Programs -> ProgramRows] /\ post \in [Posts -> PostRows]
  BY <1>1, <1>2, TransferWrites, Committing, Unovertaken DEF Fresh, Reads
<1>4. PostsEarned
  <2>1. \A p \in Posts : p \in c.posts =>
          post[p] \in [of : Cleaners, site : Sites, status : PostStatuses]
    BY <1>3 DEF RowsBelong, PostRows, RowsOf, NoRow
  <2>2. \A p \in Posts : post[p].status # "active" /\ post'[p].status = "active" =>
          post'[p].of = x /\ c.status = "active"
    BY <1>3, <2>1 DEF Transferred, Posting
  <2> QED
    BY <1>1, <1>3, <2>2 DEF PostsEarned
<1>5. CompletionEarned
  <2>1. CASE c.programs = {} /\ c.status = "trainee"
    BY <1>3, <2>1 DEF Transferred, CompletionEarned, NoRow
  <2>2. CASE c.programs # {} \/ c.status # "trainee"
    <3>1. \A p \in Programs : program'[p] = IF p \in c.programs
                              THEN [program[p] EXCEPT !.site = c.to] ELSE program[p]
      BY <1>3, <2>2 DEF Transferred, Moved
    <3>2. \A p \in Programs : p \in c.programs =>
            program[p] \in [of : Cleaners, site : Sites, status :
                            ActiveProgram \cup {"passed", "failed", "dropped"}]
      BY <1>3 DEF RowsBelong, ProgramRows, RowsOf, NoRow
    <3>3. \A p \in Programs : program'[p].status = program[p].status
      BY <3>1, <3>2
    <3> QED
      BY <3>3 DEF CompletionEarned
  <2> QED
    BY <2>1, <2>2
<1> QED
  BY <1>1, <1>4, <1>5 DEF Earned, ActivationEarned

\* A row is imported with the status its cleaner has.
LEMMA ImportedEarned ==
    ASSUME IInv, NEW x \in Cleaners, NEW s \in Sites, NEW status \in Statuses,
           NEW t \in {"trainee", "active"}, Imported(x, s, status, t),
           cleaner[x] = status \/ (cleaner[x] = "absent" /\ status = t)
    PROVE  Earned
<1>1. cleaner \in [Cleaners -> Statuses \cup {"absent"}]
  BY DEF IInv, WorkforceOK, TypeOK
<1>2. \A p \in Programs : program'[p] # program[p] => program[p].status = "absent"
  <2>1. Starts(x, s) => \A p \in Programs : program'[p] # program[p] => program[p] = NoRow
    BY StartsFits
  <2>2. NoRow.status = "absent"
    BY DEF NoRow
  <2> QED
    BY <2>1, <2>2 DEF Imported
<1>3. /\ \A y \in Cleaners : y # x => cleaner'[y] = cleaner[y]
      /\ cleaner'[x] = "active" => cleaner[x] \in {"active", "absent"}
  BY <1>1 DEF Imported
<1>4. status = "active" => cleaner'[x] = "active"
  BY <1>1 DEF Imported, Statuses
<1>5. \A p \in Posts : post'[p] # post[p] =>
        post'[p].of = x /\ post'[p].status = Posting(status)
  <2>1. Assigns(post, x, s, status) => \A p \in Posts : post'[p] # post[p] =>
          post'[p] = [of |-> x, site |-> s, status |-> Posting(status)]
    BY DEF Assigns, IInv, WorkforceOK, TypeOK
  <2> QED
    BY <2>1 DEF Imported
<1>6. ActivationEarned
  BY <1>3 DEF ActivationEarned, Registered
<1>7. PostsEarned
  BY <1>4, <1>5 DEF PostsEarned, Posting
<1>8. CompletionEarned
  BY <1>2 DEF CompletionEarned
<1> QED
  BY <1>6, <1>7, <1>8 DEF Earned

LEMMA ImportEarned ==
    ASSUME IInv,
           ImportNew \/ \E w \in Workers : w \notin stale /\ SaveImport(w)
    PROVE  Earned
<1>1. CASE ImportNew
  <2>1. PICK x \in Cleaners \ Registered, s \in Sites, t \in {"trainee", "active"} :
          Imported(x, s, t, t)
    BY <1>1 DEF ImportNew
  <2>2. x \in Cleaners /\ cleaner[x] = "absent" /\ t \in Statuses
    BY DEF Registered, Statuses, IInv, WorkforceOK, TypeOK
  <2> QED
    BY <2>1, <2>2, ImportedEarned
<1>2. ASSUME NEW w \in Workers, w \notin stale, SaveImport(w) PROVE Earned
  <2>1. pc[w] # "idle" /\ call[w].op = "import"
    BY <1>2 DEF SaveImport
  <2>2. PICK x \in Cleaners, s \in Sites, status \in Statuses, t \in {"trainee", "active"} :
          x = call[w].on /\ s = call[w].to /\ status = call[w].status /\ t = call[w].next
    BY <2>1, Committing DEF CallFits, ArgumentsFit
  <2>3. Imported(x, s, status, t)
    BY <1>2, <2>2 DEF SaveImport
  <2>4. cleaner[x] = status
    BY <1>2, <2>1, <2>2, Unovertaken DEF Fresh, Reads
  <2> QED
    BY <2>3, <2>4, ImportedEarned
<1> QED
  BY <1>1, <1>2

LEMMA RegisterEarned ==
    ASSUME IInv, NEW w \in Workers, Register(w)
    PROVE  Earned
<1>1. PICK x \in Cleaners \ Registered, t \in {"trainee", "active"} :
         cleaner' = [cleaner EXCEPT ![x] = t]
  BY DEF Register
<1>2. cleaner \in [Cleaners -> Statuses \cup {"absent"}] /\ UNCHANGED <<program, post>>
  BY DEF IInv, WorkforceOK, TypeOK, Register
<1>3. \A y \in Registered : cleaner'[y] = cleaner[y]
  BY <1>1, <1>2 DEF Registered
<1> QED
  BY <1>2, <1>3 DEF Earned, ActivationEarned, PostsEarned, CompletionEarned

\* The loads, and the other steps that write no row.
LEMMA QuietSteps ==
    ASSUME NEW w,
           \/ UpdateCleaner(w) \/ ChangeStatus(w) \/ Activate(w) \/ Deactivate(w)
           \/ StartTraining(w) \/ TrainingStep(w) \/ Assign(w) \/ PostStep(w)
           \/ Transfer(w) \/ ImportAgain(w) \/ CheckIdentity(w) \/ Abort(w)
    PROVE  UNCHANGED <<cleaner, program, post>>
<1>1. \A c : Begins(w, c) => UNCHANGED <<cleaner, program, post>>
  BY DEF Begins, rows
<1>2. CASE \/ UpdateCleaner(w) \/ ChangeStatus(w) \/ Activate(w) \/ Deactivate(w)
           \/ StartTraining(w) \/ Assign(w) \/ ImportAgain(w)
  BY <1>1, <1>2 DEF UpdateCleaner, ChangeStatus, Activate, Deactivate, StartTraining, Assign,
                    ImportAgain
<1>3. CASE TrainingStep(w) \/ PostStep(w) \/ Transfer(w)
  BY <1>1, <1>3 DEF TrainingStep, PostStep, Transfer
<1>4. CASE CheckIdentity(w) \/ Abort(w)
  BY <1>4 DEF CheckIdentity, Abort, rows
<1> QED
  BY <1>2, <1>3, <1>4

Saves(w) ==
    \/ SaveCleaner(w) \/ SaveStatus(w) \/ SaveStart(w) \/ SaveTraining(w)
    \/ SaveAssign(w) \/ SavePost(w) \/ SaveTransfer(w) \/ SaveImport(w)

\* A save ends its call, or the part of it that goes by what was loaded.
LEMMA SavesEnd ==
    ASSUME IInv, NEW w \in Workers, Saves(w)
    PROVE  Ends(w) /\ Writes(w)
<1>1. pc \in [Workers -> {"idle", "loaded", "checked"}] /\ DOMAIN call = Workers
  BY DEF IInv, WorkforceOK, TypeOK
<1>2. Finishes(w) => pc'[w] = "idle"
  BY <1>1 DEF Finishes
<1>3. pc[w] # "idle"
  BY DEF Saves, SaveCleaner, SaveStatus, SaveStart, SaveTraining, SaveAssign, SavePost,
         SaveTransfer, SaveImport, Commits
<1>4. Finishes(w) \/ (/\ call[w].op = "assign"
                      /\ call' = [call EXCEPT ![w].op = "start", ![w].next = None])
  BY DEF Saves, SaveCleaner, SaveStatus, SaveStart, SaveTraining, SaveAssign, SavePost,
         SaveTransfer, SaveImport
<1>5. ASSUME call[w].op = "assign", call' = [call EXCEPT ![w].op = "start", ![w].next = None]
      PROVE  call'[w].op = "start"
  <2>1. PICK c : c = call[w]
    OBVIOUS
  <2>2. IsCall(c)
    BY <1>3, <2>1, Committing DEF CallFits
  <2>3. PICK d : d = [c EXCEPT !.op = "start", !.next = None]
    OBVIOUS
  <2>4. d.op = "start"
    BY <2>2, <2>3 DEF IsCall
  <2>5. call'[w] = d
    BY <1>1, <1>5, <2>1, <2>3
  <2> QED
    BY <2>4, <2>5
<1>6. Ends(w)
  BY <1>2, <1>3, <1>4, <1>5 DEF Ends
<1>7. Writes(w)
  BY SaveCleanerStep, SaveStartStep, SaveTrainingStep, SaveAssignStep, SavePostStep,
     SaveTransferStep, SaveImportStep DEF Saves
<1> QED
  BY <1>6, <1>7

LEMMA NextEarned == IInv /\ [Next]_vars => Earned
<1> SUFFICES ASSUME IInv, [Next]_vars PROVE Earned
  OBVIOUS
<1>1. CASE ImportNew
  BY <1>1, ImportEarned
<1>2. CASE ReviewDocument \/ EvaluateFinally \/ UNCHANGED vars
  BY <1>2, QuietEarned DEF ReviewDocument, EvaluateFinally, vars, rows
<1>3. ASSUME NEW w \in Workers, Step(w) PROVE Earned
  <2>1. CASE Saves(w) /\ w \in stale
    BY <2>1, SavesEnd, StaleEarned
  <2>2. CASE Saves(w) /\ w \notin stale
    BY <2>2, CleanerEarned, StartEarned, TrainingEarned, AssignEarned, PostEarned,
       TransferEarned, ImportEarned DEF Saves
  <2>3. CASE Register(w)
    BY <2>3, RegisterEarned
  <2>4. CASE ~ Saves(w) /\ ~ Register(w)
    BY <1>3, <2>4, QuietSteps, QuietEarned DEF Step, Saves
  <2> QED
    BY <2>1, <2>2, <2>3, <2>4
<1> QED
  BY <1>1, <1>2, <1>3 DEF Next

\* Whoever becomes active has a verified document at that moment, an assignment
\* becomes active only while its cleaner is, and what is completed stays
\* completed with the status of the cleaner that goes with it: each unless the
\* step ends a call whose rows were written after it had loaded them.
THEOREM Changes == Spec => StatusIsEarned
<1>1. IInv /\ [Next]_vars => [ActivationEarned]_vars /\ [PostsEarned]_vars
                             /\ [CompletionEarned]_vars
  BY NextEarned DEF Earned
<1>2. Spec => [][ActivationEarned]_vars /\ [][PostsEarned]_vars /\ [][CompletionEarned]_vars
  BY <1>1, Invariant, PTL DEF Spec
<1> QED
  BY <1>2 DEF StatusIsEarned, ActivationIsEarned, PostsGoToActive, CompletionStands,
              ActivationEarned, PostsEarned, CompletionEarned

------------------------------------------------------------------------------
\* The steps of one worker leave the calls of the others alone.
LEMMA StepsApart ==
    ASSUME IInv, NEW v \in Workers, Step(v), NEW w \in Workers, w # v
    PROVE  pc'[w] = pc[w] /\ call'[w] = call[w]
<1>1. pc \in [Workers -> {"idle", "loaded", "checked"}] /\ DOMAIN call = Workers
  BY DEF IInv, WorkforceOK, TypeOK
<1>2. \A c : Begins(v, c) => pc'[w] = pc[w] /\ call'[w] = call[w]
  BY <1>1 DEF Begins
<1>3. Finishes(v) => pc'[w] = pc[w] /\ call'[w] = call[w]
  BY <1>1 DEF Finishes
<1>4. CASE \/ UpdateCleaner(v) \/ ChangeStatus(v) \/ Activate(v) \/ Deactivate(v)
           \/ StartTraining(v) \/ Assign(v) \/ ImportAgain(v)
  BY <1>2, <1>4 DEF UpdateCleaner, ChangeStatus, Activate, Deactivate, StartTraining, Assign,
                    ImportAgain
<1>5. CASE TrainingStep(v) \/ PostStep(v) \/ Transfer(v)
  BY <1>2, <1>5 DEF TrainingStep, PostStep, Transfer
<1>6. CASE \/ SaveCleaner(v) \/ SaveStatus(v) \/ SaveStart(v) \/ SaveTraining(v) \/ SavePost(v)
           \/ SaveTransfer(v) \/ SaveImport(v) \/ Abort(v)
  BY <1>3, <1>6 DEF SaveCleaner, SaveStatus, SaveStart, SaveTraining, SavePost, SaveTransfer,
                    SaveImport, Abort
<1>7. CASE CheckIdentity(v) \/ Register(v)
  BY <1>1, <1>7 DEF CheckIdentity, Register
<1>8. CASE SaveAssign(v)
  BY <1>1, <1>3, <1>8 DEF SaveAssign
<1> QED
  BY <1>4, <1>5, <1>6, <1>7, <1>8 DEF Step

EverythingMoves ==
    \A w \in Workers \ stale, x \in Cleaners :
        call[w].op = "transfer" /\ call[w].on = x /\ Ends(w) /\ post' # post =>
            /\ \A p \in LivePosts(x)' : post'[p].site = call[w].to
            /\ \A p \in InTraining(x)' : program'[p].site = call[w].to
            /\ cleaner[x] = "trainee" => InTraining(x)' # {}

LEMMA TransferMoves ==
    ASSUME IInv, NEW w \in Workers, w \notin stale, SaveTransfer(w),
           NEW x \in Cleaners, x = call[w].on
    PROVE  /\ \A p \in LivePosts(x)' : post'[p].site = call[w].to
           /\ \A p \in InTraining(x)' : program'[p].site = call[w].to
           /\ cleaner[x] = "trainee" => InTraining(x)' # {}
<1>1. pc[w] # "idle" /\ call[w].op = "transfer"
  BY DEF SaveTransfer, Commits
<1>2. PICK c, s : c = call[w] /\ s = c.to
  OBVIOUS
<1>3. /\ Transferred(c, x, s) /\ cleaner[x] = c.status /\ RowsBelong(c)
      /\ c.posts = LivePosts(x) /\ c.programs = InTraining(x)
      /\ program \in [Programs -> ProgramRows] /\ post \in [Posts -> PostRows]
  BY <1>1, <1>2, TransferWrites, Committing, Unovertaken DEF Fresh, Reads
<1>4. ASSUME NEW p \in LivePosts(x)' PROVE post'[p].site = s
  <2>1. p \in Posts /\ post'[p].of = x /\ post'[p].status \in {"active", "draft"}
    BY <1>4 DEF LivePosts
  <2>2. CASE p \notin c.posts /\ post'[p] = post[p]
    BY <1>3, <2>1, <2>2 DEF LivePosts
  <2>3. CASE p \in c.posts /\ post'[p] = [post[p] EXCEPT !.status = "ended"]
    <3>1. post[p] \in [of : Cleaners, site : Sites, status : PostStatuses]
      BY <1>3, <2>1, <2>3 DEF RowsBelong, PostRows, RowsOf, NoRow
    <3> QED
      BY <2>1, <2>3, <3>1
  <2>4. CASE post'[p] = [of |-> x, site |-> s, status |-> Posting(c.status)]
    BY <2>4
  <2> QED
    BY <1>3, <2>1, <2>2, <2>3, <2>4 DEF Transferred
<1>5. CASE c.programs = {} /\ c.status = "trainee"
  <2>1. /\ \A p \in Programs : program'[p] # program[p] =>
              program'[p] = [of |-> x, site |-> s, status |-> "in_training"]
        /\ \E p \in Programs :
              program'[p] = [of |-> x, site |-> s, status |-> "in_training"]
    BY <1>3, <1>5 DEF Transferred
  <2>2. \A p \in InTraining(x)' : program'[p].site = s
    BY <1>3, <1>5, <2>1 DEF InTraining
  <2>3. InTraining(x)' # {}
    BY <2>1 DEF InTraining, ActiveProgram
  <2> QED
    BY <1>2, <1>4, <2>2, <2>3
<1>6. CASE c.programs # {} \/ c.status # "trainee"
  <2>1. \A p \in Programs : program'[p] = IF p \in c.programs
                            THEN [program[p] EXCEPT !.site = s] ELSE program[p]
    BY <1>2, <1>3, <1>6 DEF Transferred, Moved
  <2>2. \A p \in c.programs :
          p \in Programs /\ program[p].of = x /\ program[p].status \in ActiveProgram
          /\ program[p] \in [of : Cleaners, site : Sites, status :
                             ActiveProgram \cup {"passed", "failed", "dropped"}]
    BY <1>3 DEF InTraining, ProgramRows, RowsOf, NoRow, ActiveProgram
  <2>3. \A p \in c.programs : /\ program'[p].site = s
                              /\ program'[p].of = x /\ program'[p].status \in ActiveProgram
    <3> SUFFICES ASSUME NEW p \in c.programs
                 PROVE  /\ program'[p].site = s /\ program'[p].of = x
                        /\ program'[p].status \in ActiveProgram
      OBVIOUS
    <3>1. program'[p] = [program[p] EXCEPT !.site = s]
      BY <2>1, <2>2
    <3> QED
      BY <2>2, <3>1
  <2>4. \A p \in InTraining(x)' : program'[p].site = s
    BY <1>3, <2>1, <2>3 DEF InTraining
  <2>5. c.programs # {} => InTraining(x)' # {}
    BY <2>2, <2>3 DEF InTraining
  <2> QED
    BY <1>2, <1>3, <1>4, <1>6, <2>4, <2>5
<1> QED
  BY <1>5, <1>6

LEMMA NextMoves == IInv /\ [Next]_vars => EverythingMoves
<1> SUFFICES ASSUME IInv, [Next]_vars,
                    NEW w \in Workers, w \notin stale, NEW x \in Cleaners,
                    call[w].op = "transfer", call[w].on = x, Ends(w), post' # post
             PROVE  /\ \A p \in LivePosts(x)' : post'[p].site = call[w].to
                    /\ \A p \in InTraining(x)' : program'[p].site = call[w].to
                    /\ cleaner[x] = "trainee" => InTraining(x)' # {}
  BY DEF EverythingMoves
<1>1. \E v \in Workers : Step(v)
  <2>1. pc' # pc \/ call' # call
    BY DEF Ends
  <2> QED
    BY <2>1 DEF Next, ImportNew, ReviewDocument, EvaluateFinally, vars
<1>2. Step(w)
  BY <1>1, StepsApart DEF Ends
<1>3. SaveTransfer(w)
  <2>1. ~ Register(w)
    BY DEF Register, Ends
  <2>2. ~ (SaveCleaner(w) \/ SaveStatus(w) \/ SaveStart(w) \/ SaveTraining(w)
           \/ SaveAssign(w) \/ SavePost(w) \/ SaveImport(w))
    BY DEF SaveCleaner, SaveStatus, SaveStart, SaveTraining, SaveAssign, SavePost, SaveImport
  <2> QED
    BY <1>2, <2>1, <2>2, QuietSteps DEF Step
<1> QED
  BY <1>3, TransferMoves

\* A transfer that nobody has overtaken leaves the person with live assignments
\* at the new site only, and with the training there.
THEOREM WholeTransfers == Spec => TransfersMoveEverything
<1>1. IInv /\ [Next]_vars => [EverythingMoves]_vars
  BY NextMoves
<1>2. Spec => [][EverythingMoves]_vars
  BY <1>1, Invariant, PTL DEF Spec
<1> QED
  BY <1>2 DEF TransfersMoveEverything, EverythingMoves
==============================================================================
