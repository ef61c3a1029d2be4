------------------------------- MODULE Accounts -------------------------------
(***************************************************************************)
(* User accounts, administered by several requests at once, and the tokens *)
(* of their sessions (accounts/services.py, accounts/api.py, auth.py).     *)
(*                                                                         *)
(* An endpoint authenticates the administrator, loads the target and asks  *)
(* its questions of the database before the service saves; the service     *)
(* saves the fields that differ from the loaded user, and only those. What *)
(* the Django admin site does to accounts is not modelled.                 *)
(***************************************************************************)
EXTENDS Naturals, FiniteSets

CONSTANTS
    Admins, Staff,  \* the users, by the role they start with
    Tokens,         \* identities of tokens, each issued at most once
    Workers         \* threads that serve requests

VARIABLES
    role, active,   \* the columns of each user
    deleted,        \* users whose row is gone
    acted,          \* users with audit entries of their own
    owner,          \* the user of each issued token
    live,           \* tokens with is_active
    pc, call,       \* each worker's stage and request
    overtaken,      \* workers whose target or count has changed since
    raced,          \* an account was saved by one of them
    kept,           \* users deactivated by an update, which keeps tokens
    late            \* tokens issued while their user was being disabled

users == <<role, active, deleted, acted>>
tokens == <<owner, live>>
history == <<overtaken, raced, kept, late>>
vars == <<users, tokens, pc, call, history>>

------------------------------------------------------------------------------
Users == Admins \cup Staff
Roles == {"admin", "staff"}
Operations == {"disable", "activate", "update", "reset", "delete"}

NoCall == [op |-> "none"]

Init ==
    /\ role = [u \in Users |-> IF u \in Admins THEN "admin" ELSE "staff"]
    /\ active = [u \in Users |-> TRUE]
    /\ deleted = {}
    /\ acted = {}
    /\ owner = [t \in Tokens |-> "none"]
    /\ live = {}
    /\ pc = [w \in Workers |-> "idle"]
    /\ call = [w \in Workers |-> NoCall]
    /\ overtaken = {} /\ raced = FALSE
    /\ kept = {} /\ late = {}

Issued == {t \in Tokens : owner[t] # "none"}
TokensOf(u) == {t \in live : owner[t] = u}
ActiveAdmins == {u \in Users \ deleted : role[u] = "admin" /\ active[u]}

\* TokenAuth: by an access token or a token, of an active user
Authenticated == {u \in Users \ deleted : active[u]}

\* Workers in the middle of disabling a user: its tokens are revoked, and the
\* row of the user is locked, until the commit.
Disabling(u) == {w \in Workers : pc[w] = "revoked" /\ call[w].target = u}

Others(w) == {v \in Workers \ {w} : pc[v] # "idle"}

Become(w, stage) == pc' = [pc EXCEPT ![w] = stage]

Done(w) ==
    /\ Become(w, "idle")
    /\ call' = [call EXCEPT ![w] = NoCall]

\* The administrator is authenticated, and the target loaded: _admin_target_or_404
Load(w) ==
    /\ pc[w] = "idle"
    /\ \E actor \in ActiveAdmins, u \in Users \ deleted, op \in Operations,
          newRole \in Roles, newActive \in BOOLEAN :
         /\ op # "update" => newRole = role[u] /\ newActive = active[u]
         /\ u = actor => op \notin {"disable", "delete"} /\ newActive
         /\ call' = [call EXCEPT ![w] =
                       [op |-> op, actor |-> actor, target |-> u,
                        role |-> role[u], active |-> active[u],
                        newRole |-> newRole, newActive |-> newActive]]
    /\ Become(w, "loaded")
    /\ overtaken' = overtaken \ {w}
    /\ UNCHANGED <<users, tokens, raced, kept, late>>

\* Mutant: inactive administrators are counted.
Protected_AnyAdmin(c) ==
    c.role = "admin" /\ (c.newRole # "admin" \/ ~c.newActive) =>
        {u \in Users \ deleted : role[u] = "admin"} \ {c.target} # {}

\* _protect_last_active_administrator
Protected(c) ==
    c.role = "admin" /\ (c.op = "delete" \/ c.newRole # "admin" \/ ~c.newActive) =>
        ActiveAdmins \ {c.target} # {}

\* What permanently_delete_user keeps the row for.
LeavesTraces(u) == u \in acted \/ \E t \in Issued : owner[t] = u

\* Which service is called; the update and the deletion ask for the other
\* administrators, the deletion for what the user leaves behind.
Check(w) ==
    LET c == call[w] IN
    /\ pc[w] = "loaded"
    /\ c.op \in {"update", "delete"} => Protected(c)
    /\ \/ c.op = "disable" /\ Become(w, "disabling")
       \/ c.op = "delete" /\ Become(w, IF LeavesTraces(c.target) THEN "disabling"
                                       ELSE "deleting")
       \/ c.op = "reset" /\ Become(w, "resetting")
       \/ c.op \in {"update", "activate"} /\ Become(w, "updating")
    /\ UNCHANGED <<users, tokens, call, history>>

Saved(w) ==
    /\ overtaken' = (overtaken \cup Others(w)) \ {w}
    /\ raced' = (raced \/ w \in overtaken)

\* update_user saves a field that is not what was loaded.
Field(new, loaded, stored) == IF new # loaded THEN new ELSE stored

\* update_user and activate_user
Update(w) ==
    LET c == call[w]
        u == c.target
        wanted == IF c.op = "activate" THEN TRUE ELSE c.newActive
    IN
    /\ pc[w] = "updating"
    /\ u \notin deleted
    /\ Disabling(u) = {}
    /\ role' = [role EXCEPT ![u] = Field(c.newRole, c.role, @)]
    /\ active' = [active EXCEPT ![u] = Field(wanted, c.active, @)]
    /\ acted' = acted \cup {c.actor}
    /\ kept' = IF active'[u] THEN kept \ {u}
               ELSE IF active[u] THEN kept \cup {u} ELSE kept
    /\ Saved(w)
    /\ Done(w)
    /\ UNCHANGED <<deleted, tokens, late>>

\* The tokens that the statement of deactivate_user finds.
Revoked(c) == TokensOf(c.target)

\* deactivate_user, until its commit
Revoke(w) ==
    LET c == call[w] IN
    /\ pc[w] = "disabling"
    /\ c.target \notin deleted
    /\ Disabling(c.target) = {}
    /\ call' = [call EXCEPT ![w] = [target |-> c.target, op |-> "disable",
                                    actor |-> c.actor, active |-> c.active,
                                    revoked |-> Revoked(c)]]
    /\ Become(w, "revoked")
    /\ UNCHANGED <<users, tokens, history>>

\* The commit; an account loaded inactive is not saved again.
Disable(w) ==
    LET c == call[w]
        u == c.target
    IN
    /\ pc[w] = "revoked"
    /\ active' = [active EXCEPT ![u] = Field(FALSE, c.active, @)]
    /\ live' = live \ c.revoked
    /\ acted' = acted \cup {c.actor}
    /\ kept' = kept \ {u}
    /\ Saved(w)
    /\ Done(w)
    /\ UNCHANGED <<role, deleted, owner, late>>

\* permanently_delete_user, which found nothing to keep; the tokens go too
Delete(w) ==
    LET c == call[w] IN
    /\ pc[w] = "deleting"
    /\ Disabling(c.target) = {}
    /\ deleted' = deleted \cup {c.target}
    /\ live' = live \ TokensOf(c.target)
    /\ acted' = acted \cup {c.actor}
    /\ Saved(w)
    /\ Done(w)
    /\ UNCHANGED <<role, active, owner, kept, late>>

\* user_password_reset: set_password, and then, on its own, the revocation.
Reset(w) ==
    LET c == call[w] IN
    /\ pc[w] = "resetting"
    /\ live' = live \ TokensOf(c.target)
    /\ acted' = acted \cup {c.actor}
    /\ Done(w)
    /\ UNCHANGED <<role, active, deleted, owner, history>>

\* login_and_issue_tokens authenticates; create_token has been authenticated.
Authenticate(w) ==
    /\ pc[w] = "idle"
    /\ \E u \in Authenticated :
         call' = [call EXCEPT ![w] = [op |-> "login", target |-> u]]
    /\ Become(w, "authenticated")
    /\ UNCHANGED <<users, tokens, history>>

\* issue_api_token
Issue(w) ==
    LET u == call[w].target IN
    /\ pc[w] = "authenticated"
    /\ u \notin deleted
    /\ \E t \in Tokens \ Issued :
         /\ owner' = [owner EXCEPT ![t] = u]
         /\ live' = live \cup {t}
         /\ late' = IF ~active[u] \/ Disabling(u) # {} THEN late \cup {t} ELSE late
    /\ acted' = acted \cup {u}
    /\ Done(w)
    /\ UNCHANGED <<role, active, deleted, overtaken, raced, kept>>

\* logout, or revoke_token by its user
Logout ==
    /\ \E t \in live :
         /\ live' = live \ {t}
         /\ acted' = acted \cup {owner[t]}
    /\ UNCHANGED <<role, active, deleted, owner, pc, call, history>>

\* The process dies, or a check or a transaction fails.
Abort(w) ==
    /\ pc[w] # "idle"
    /\ Done(w)
    /\ UNCHANGED <<users, tokens, history>>

Step(w) ==
    \/ Load(w) \/ Check(w) \/ Update(w) \/ Revoke(w) \/ Disable(w) \/ Delete(w)
    \/ Reset(w) \/ Authenticate(w) \/ Issue(w) \/ Abort(w)

Next == Logout \/ \E w \in Workers : Step(w)

Spec == Init /\ [][Next]_vars

------------------------------------------------------------------------------
LoadedStages == {"loaded", "disabling", "deleting", "resetting", "updating"}

Stages == LoadedStages \cup {"idle", "revoked", "authenticated"}

LoadedCalls ==
    [op : Operations, actor : Users, target : Users, role : Roles,
     active : BOOLEAN, newRole : Roles, newActive : BOOLEAN]
RevokedCalls ==
    [target : Users, op : {"disable"}, actor : Users, active : BOOLEAN,
     revoked : SUBSET Tokens]
LoginCalls == [op : {"login"}, target : Users]

TypeOK ==
    /\ role \in [Users -> Roles] /\ active \in [Users -> BOOLEAN]
    /\ deleted \subseteq Users /\ acted \subseteq Users
    /\ owner \in [Tokens -> Users \cup {"none"}]
    /\ live \subseteq Issued
    /\ pc \in [Workers -> Stages]
    /\ call \in [Workers -> LoadedCalls \cup RevokedCalls \cup LoginCalls \cup {NoCall}]
    /\ overtaken \subseteq Workers /\ raced \in BOOLEAN
    /\ kept \subseteq Users /\ late \subseteq Tokens

\* A token of a disabled account is not usable again when the account is: it
\* was revoked, unless an update deactivated the account or the token was
\* issued meanwhile; and an active administrator remains, unless an account was
\* saved by a request that another one overtook.
AccountsOK ==
    /\ TypeOK
    /\ \A t \in live \ late : active[owner[t]] \/ owner[t] \in kept
    /\ raced \/ ActiveAdmins # {}

\* What the request of each stage is.
CallsFitStages ==
    \A w \in Workers :
        /\ pc[w] \in LoadedStages => call[w] \in LoadedCalls
        /\ pc[w] = "disabling" => call[w].op \in {"disable", "delete"}
        /\ pc[w] = "deleting" => call[w].op = "delete"
        /\ pc[w] = "updating" => call[w].op \in {"update", "activate"}
        /\ pc[w] = "revoked" => call[w] \in RevokedCalls
        /\ pc[w] = "authenticated" => call[w] \in LoginCalls

\* What a request that nobody overtook goes by.
Current(w) ==
    LET c == call[w] IN
    /\ pc[w] \in LoadedStages =>
          /\ role[c.target] = c.role /\ active[c.target] = c.active
          /\ c.actor \in ActiveAdmins
          /\ c.op \in {"disable", "delete"} => c.actor # c.target
          /\ c.op = "activate" => c.newRole = c.role
    /\ pc[w] = "updating" /\ c.op = "update" => Protected(c)
    /\ pc[w] = "revoked" => c.actor \in ActiveAdmins \ {c.target}

LoadedIsCurrent == \A w \in Workers \ overtaken : Current(w)

\* A user whose account is being disabled has no other usable tokens.
RevokedAreAll ==
    \A w \in Workers :
        pc[w] = "revoked" => TokensOf(call[w].target) \subseteq call[w].revoked \cup late

IInv == AccountsOK /\ CallsFitStages /\ LoadedIsCurrent /\ RevokedAreAll
==============================================================================
