------------------------------ MODULE Messaging ------------------------------
(***************************************************************************)
(* The direct conversation of two users (messaging_services.py and its     *)
(* endpoints): opened by both at once, written to by several requests, and *)
(* read by a client that polls with the last id it was given and that      *)
(* listens for events on a socket (realtime.py).                           *)
(*                                                                         *)
(* A message takes its id and its time when its row is inserted, and is    *)
(* seen when its transaction commits, which may be in another order. Ids   *)
(* stand for the times.                                                    *)
(***************************************************************************)
EXTENDS Naturals, FiniteSets, FiniteSetsExt

CONSTANTS
    Workers,      \* threads that serve requests
    Limit,        \* of a page of messages
    MaxMessages   \* bound: messages inserted

VARIABLES
    conversations,  \* direct conversations of the two users
    inserted,       \* ids taken
    visible,        \* ids committed
    lastMessage,    \* last_message_at of the conversation
    announced,      \* messages whose event was published
    after,          \* the next_after_id of the client's last page, 0 for none
    opened,         \* the first id of the client's first page
    fetched,        \* the messages the client has had
    late,           \* committed when the client had had a later one
    pc, call        \* each worker's stage and its message

vars == <<conversations, inserted, visible, lastMessage, announced, after, opened,
          fetched, late, pc, call>>
readerVars == <<after, opened, fetched>>

------------------------------------------------------------------------------
Init ==
    /\ conversations = 0
    /\ inserted = 0
    /\ visible = {}
    /\ lastMessage = 0
    /\ announced = {}
    /\ after = 0 /\ opened = 0 /\ fetched = {}
    /\ late = {}
    /\ pc = [w \in Workers |-> "idle"]
    /\ call = [w \in Workers |-> 0]

\* get_or_create_direct_conversation finds no conversation ...
LookUp(w) ==
    /\ pc[w] = "idle" /\ conversations = 0
    /\ pc' = [pc EXCEPT ![w] = "missing"]
    /\ UNCHANGED <<conversations, inserted, visible, lastMessage, announced, late, call>>
    /\ UNCHANGED readerVars

\* The unique key of the pair refuses a second one, and the first is returned.
Created == IF conversations = 0 THEN 1 ELSE conversations

\* ... and inserts it with its two memberships.
CreateConversation(w) ==
    /\ pc[w] = "missing"
    /\ conversations' = Created
    /\ pc' = [pc EXCEPT ![w] = "idle"]
    /\ UNCHANGED <<inserted, visible, lastMessage, announced, late, call>>
    /\ UNCHANGED readerVars

\* send_message or create_attachment_message, to a conversation that exists
Insert(w) ==
    /\ pc[w] = "idle" /\ conversations > 0
    /\ inserted < MaxMessages
    /\ inserted' = inserted + 1
    /\ call' = [call EXCEPT ![w] = inserted']
    /\ pc' = [pc EXCEPT ![w] = "inserted"]
    /\ UNCHANGED <<conversations, visible, lastMessage, announced, late>>
    /\ UNCHANGED readerVars

\* The transaction commits, and with it the time it gave the conversation.
Commit(w) ==
    /\ pc[w] = "inserted"
    /\ visible' = visible \cup {call[w]}
    /\ lastMessage' = call[w]
    /\ late' = IF call[w] < after THEN late \cup {call[w]} ELSE late
    /\ pc' = [pc EXCEPT ![w] = "committed"]
    /\ UNCHANGED <<conversations, inserted, announced, call>>
    /\ UNCHANGED readerVars

\* _message_event_after_commit; a failing channel layer is only logged.
Announce(w) ==
    /\ pc[w] = "committed"
    /\ \/ announced' = announced \cup {call[w]}
       \/ UNCHANGED announced
    /\ pc' = [pc EXCEPT ![w] = "idle"]
    /\ call' = [call EXCEPT ![w] = 0]
    /\ UNCHANGED <<conversations, inserted, visible, lastMessage, late>>
    /\ UNCHANGED readerVars

\* upload_attachment, to a message that can be read, then its event again.
Attach(w) ==
    /\ pc[w] = "idle"
    /\ \E m \in visible :
         /\ call' = [call EXCEPT ![w] = m]
         /\ lastMessage' = inserted
    /\ pc' = [pc EXCEPT ![w] = "committed"]
    /\ UNCHANGED <<conversations, inserted, visible, announced, late>>
    /\ UNCHANGED readerVars

\* The process dies, or the transaction fails.
Abort(w) ==
    /\ pc[w] # "idle"
    /\ pc' = [pc EXCEPT ![w] = "idle"]
    /\ call' = [call EXCEPT ![w] = 0]
    /\ UNCHANGED <<conversations, inserted, visible, lastMessage, announced, late>>
    /\ UNCHANGED readerVars

\* Mutant: a page is the newest messages after the client's.
Page_Newest ==
    LET new == {m \in visible : m > after}
    IN  {m \in new : Cardinality({n \in new : n > m}) < Limit}

\* conversation_messages: the first page is the newest messages, the next ones
\* are the oldest after the client's last.
Page ==
    LET new == {m \in visible : m > after}
    IN  IF after = 0 THEN {m \in new : Cardinality({n \in new : n > m}) < Limit}
                     ELSE {m \in new : Cardinality({n \in new : n < m}) < Limit}

Poll ==
    /\ Page # {}
    /\ fetched' = fetched \cup Page
    /\ after' = Max(Page)
    /\ opened' = IF after = 0 THEN Min(Page) ELSE opened
    /\ UNCHANGED <<conversations, inserted, visible, lastMessage, announced, late,
                   pc, call>>

Step(w) ==
    \/ LookUp(w) \/ CreateConversation(w) \/ Insert(w) \/ Commit(w)
    \/ Announce(w) \/ Attach(w) \/ Abort(w)

Next == Poll \/ \E w \in Workers : Step(w)

Spec == Init /\ [][Next]_vars

------------------------------------------------------------------------------
Ids == 1 .. MaxMessages

TypeOK ==
    /\ inserted \in 0 .. MaxMessages /\ lastMessage \in 0 .. MaxMessages
    /\ visible \subseteq Ids /\ announced \subseteq Ids
    /\ fetched \subseteq Ids /\ late \subseteq Ids
    /\ after \in 0 .. MaxMessages /\ opened \in 0 .. MaxMessages
    /\ pc \in [Workers -> {"idle", "missing", "inserted", "committed"}]
    /\ call \in [Workers -> 0 .. MaxMessages]

\* Two users have one direct conversation; an event is published for messages
\* only that the history returns; and a polling client has had every message
\* between its first page and its last id, those excepted that were committed
\* after one inserted later had reached it.
MessagesArrive ==
    /\ conversations <= 1
    /\ announced \subseteq visible
    /\ \A m \in visible : opened <= m /\ m <= after => m \in fetched \cup late

\* A call has inserted a message before it commits it, and what is announced,
\* attached to or last fetched has been committed.
MessagesExist ==
    /\ conversations \in Nat
    /\ visible \subseteq 1 .. inserted
    /\ after \in visible \cup {0}
    /\ \A w \in Workers : /\ pc[w] = "inserted" => call[w] \in 1 .. inserted
                          /\ pc[w] = "committed" => call[w] \in visible

IInv == TypeOK /\ MessagesArrive /\ MessagesExist
==============================================================================
