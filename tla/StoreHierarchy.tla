--------------------------- MODULE StoreHierarchy ---------------------------
(***************************************************************************)
(* The distribution network of store_services.py: super stores supply      *)
(* power and site stores, power stores supply site stores.  A store is     *)
(* created and edited by calls that load rows first, validate the object   *)
(* they hold (SiteStore.clean) and save all its columns.  Workers take any *)
(* number of calls.                                                        *)
(***************************************************************************)
EXTENDS FiniteSets

CONSTANTS
    Stores,         \* ids of stores, existing or to be created
    Workers,        \* threads that serve requests
    NoParent,
    Keep,           \* a field the client leaves out of an update
    TypesMayChange  \* whether clients edit the store_type of a store

Types == {"super", "power", "site"}

ASSUME HierarchyAssumption ==
    /\ NoParent \notin Stores
    /\ Keep \notin Stores \cup {NoParent} \cup Types
    /\ TypesMayChange \in BOOLEAN

VARIABLES
    present,    \* stores that have a SiteStore row
    row,        \* the committed row of each: type, parent, whether sited
    pc, call    \* each worker's stage, and the object it will validate

vars == <<present, row, pc, call>>

Row == [type : Types, parent : Stores \cup {NoParent}, sited : BOOLEAN]

NewRow == [type |-> "site", parent |-> NoParent, sited |-> TRUE]

\* given: the parent's type as loaded with it; Keep when the parent was not
\* sent and SiteStore.clean fetches it.
NoCall == [store |-> NoParent, new |-> NewRow, given |-> Keep]

Init ==
    /\ present = {}
    /\ row = [s \in Stores |-> NewRow]
    /\ pc = [w \in Workers |-> "idle"]
    /\ call = [w \in Workers |-> NoCall]

Holds(w, stage, s, new, given) ==
    /\ pc' = [pc EXCEPT ![w] = stage]
    /\ call' = [call EXCEPT ![w] = [store |-> s, new |-> new, given |-> given]]
    /\ UNCHANGED <<present, row>>

TypeOf(p) == IF p = NoParent THEN Keep ELSE row[p].type

\* POST /stores: the parent, if any, is loaded before the store is built.
BeginCreate(w) ==
    /\ pc[w] = "idle"
    /\ \E s \in Stores \ present, type \in Types,
          p \in present \cup {NoParent}, sited \in BOOLEAN :
         Holds(w, "create", s, [type |-> type, parent |-> p, sited |-> sited],
               TypeOf(p))

\* PUT /stores/{id}: the row and the new parent are loaded; a field that is
\* null keeps its value, so a parent can be replaced but never removed.
BeginUpdate(w) ==
    /\ pc[w] = "idle"
    /\ \E s \in present, p \in present \cup {Keep}, sites \in BOOLEAN,
          type \in Types :
         /\ TypesMayChange \/ type = row[s].type
         /\ Holds(w, "update", s,
                  [type |-> type,
                   parent |-> IF p = Keep THEN row[s].parent ELSE p,
                   sited |-> row[s].sited \/ sites],
                  IF p = Keep THEN Keep ELSE TypeOf(p))

\* The type clean() sees of the parent.
ParentType(w) ==
    IF call[w].given = Keep THEN TypeOf(call[w].new.parent) ELSE call[w].given

\* Mutant: a power store may be supplied by a power store.
MaySupply_Peers(type) ==
    IF type = "super" THEN {} ELSE {"super", "power"}

\* Who may supply a store of a type.
MaySupply(type) ==
    CASE type = "super" -> {}
      [] type = "power" -> {"super"}
      [] type = "site" -> {"super", "power"}

\* Mutant: the parent's type is not checked.
Clean_AnyParent(w) ==
    /\ call[w].new.parent # call[w].store
    /\ call[w].new.type = "site" => call[w].new.sited

\* SiteStore.clean.
Clean(w) ==
    LET new == call[w].new
    IN /\ new.parent # call[w].store
       /\ new.type = "site" => new.sited
       /\ new.parent # NoParent => ParentType(w) \in MaySupply(new.type)

\* full_clean, then save: an insert, or an update of every column.
Save(w) ==
    /\ pc[w] \in {"create", "update"}
    /\ Clean(w)
    /\ pc[w] = "create" => call[w].store \notin present
    /\ present' = present \cup {call[w].store}
    /\ row' = [row EXCEPT ![call[w].store] = call[w].new]
    /\ pc' = [pc EXCEPT ![w] = "idle"]
    /\ call' = [call EXCEPT ![w] = NoCall]

\* The object is not valid, the user may not do this, or the worker dies.
Refuse(w) ==
    /\ pc[w] \in {"create", "update"}
    /\ pc' = [pc EXCEPT ![w] = "idle"]
    /\ call' = [call EXCEPT ![w] = NoCall]
    /\ UNCHANGED <<present, row>>

Next == \E w \in Workers : BeginCreate(w) \/ BeginUpdate(w) \/ Save(w)
                           \/ Refuse(w)

Spec == Init /\ [][Next]_vars

------------------------------------------------------------------------------
TypeOK ==
    /\ present \subseteq Stores
    /\ row \in [Stores -> Row]
    /\ pc \in [Workers -> {"idle", "create", "update"}]
    /\ call \in [Workers -> [store : Stores \cup {NoParent}, new : Row,
                             given : Types \cup {Keep}]]

\* Every supply link joins a store to one that may supply it: concurrent edits
\* of parents that overwrite each other with stale rows keep the network
\* sound.
LinksCompatible ==
    \A s \in present : row[s].parent # NoParent =>
      /\ row[s].parent \in present
      /\ row[row[s].parent].type \in MaySupply(row[s].type)

\* S supplies itself: each store of it has its parent in it.
Circular(S) == S # {} /\ \A s \in S : row[s].parent \in S

\* No store is supplied, through any number of links, by itself.  Docs:
\* docs/store-management-workflow.md:5, "the hierarchy cannot contain circular
\* or incompatible distribution relationships".
NoCircularSupply == \A S \in SUBSET present : ~Circular(S)

------------------------------------------------------------------------------
(* The inductive invariant, for stores that keep their type.                *)

\* A parent once seen of some type still exists and still has it.
LoadedIsCurrent ==
    \A w \in Workers : pc[w] # "idle" =>
      LET c == call[w]
      IN /\ c.store \in Stores
         /\ c.new.parent \in present \cup {NoParent}
         /\ pc[w] = "update" => /\ c.store \in present
                                /\ c.new.type = row[c.store].type
         /\ c.given # Keep => /\ c.new.parent \in present
                              /\ c.given = row[c.new.parent].type

IInv == TypeOK /\ LoadedIsCurrent /\ LinksCompatible
==============================================================================
