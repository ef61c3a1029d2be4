-------------------------------- MODULE Caches --------------------------------
(***************************************************************************)
(* What is kept in the cache: the detail and the statistics of a site      *)
(* (selectors.py), a day's report status (reporting_selectors.py), all     *)
(* through core/cache.py, and the request counter of one client and one    *)
(* minute (core/throttling.py).                                            *)
(*                                                                         *)
(* A write invalidates inside its transaction, before it commits. Versions *)
(* stand for contents.                                                     *)
(***************************************************************************)
EXTENDS Naturals, FiniteSets

CONSTANTS
    Limit,        \* requests of one client in a minute
    MaxVersion,   \* bound: writes of a site, and of a report
    MaxRequests,  \* bound: requests in the minute
    Workers       \* threads that serve requests

VARIABLES
    data,        \* the committed version of the site and of the report
    cached,      \* what each key holds, 0 for nothing
    count,       \* the counter of the client
    requests,    \* requests received
    served,      \* requests let through
    pc, call,    \* each worker's stage, and its key, source or count
    outdated,    \* workers whose computed value or count is out of date
    crossed,     \* keys filled while a write of their source was going on
    overlapped   \* a counter was set on a count that was out of date

vars == <<data, cached, count, requests, served, pc, call, outdated, crossed, overlapped>>
cacheVars == <<data, cached, crossed>>
throttleVars == <<count, requests, served, overlapped>>

------------------------------------------------------------------------------
Sources == {"site", "report"}
Keys == {"detail", "stats", "status"}
Source(k) == IF k = "status" THEN "report" ELSE "site"

NoCall == [op |-> "none"]

Init ==
    /\ data = [s \in Sources |-> 1]
    /\ cached = [k \in Keys |-> 0]
    /\ count = 0 /\ requests = 0 /\ served = 0
    /\ pc = [w \in Workers |-> "idle"]
    /\ call = [w \in Workers |-> NoCall]
    /\ outdated = {} /\ crossed = {} /\ overlapped = FALSE

Begin(w, stage, c) ==
    /\ pc[w] = "idle"
    /\ pc' = [pc EXCEPT ![w] = stage]
    /\ call' = [call EXCEPT ![w] = c]
    /\ outdated' = outdated \ {w}

Done(w) ==
    /\ pc' = [pc EXCEPT ![w] = "idle"]
    /\ call' = [call EXCEPT ![w] = NoCall]

\* cached_or finds nothing and computes the value; a hit changes nothing.
Compute(w) ==
    /\ \E k \in Keys :
         /\ cached[k] = 0
         /\ Begin(w, "computed", [op |-> "read", key |-> k, value |-> data[Source(k)]])
    /\ UNCHANGED <<cacheVars, throttleVars>>

\* Writers of a source that have invalidated its keys and not committed.
Writing(s) == {v \in Workers : pc[v] = "invalidated" /\ call[v].source = s}

\* ... and stores it, whatever happened meanwhile.
Store(w) ==
    LET k == call[w].key IN
    /\ pc[w] = "computed"
    /\ cached' = [cached EXCEPT ![k] = call[w].value]
    /\ crossed' = IF w \in outdated \/ Writing(Source(k)) # {}
                  THEN crossed \cup {k} ELSE crossed
    /\ Done(w)
    /\ UNCHANGED <<data, outdated, throttleVars>>

\* Mutant: the detail alone is invalidated.
Invalidated_Detail(s) == IF s = "site" THEN {"detail"} ELSE {}

\* invalidate_site deletes its two keys. invalidate_prefix looks for raw keys
\* that start with the namespace, and finds none: the backend puts its own
\* prefix and a version before it, and the test backend has no client.
Invalidated(s) == IF s = "site" THEN {"detail", "stats"} ELSE {}

\* A service writes, and invalidates,
Write(w) ==
    /\ \E s \in Sources :
         /\ data[s] < MaxVersion
         /\ Begin(w, "invalidated", [op |-> "write", source |-> s])
         /\ cached' = [k \in Keys |-> IF k \in Invalidated(s) THEN 0 ELSE cached[k]]
         /\ crossed' = crossed \ Invalidated(s)
    /\ UNCHANGED <<data, throttleVars>>

\* and the transaction commits.
Commit(w) ==
    LET s == call[w].source IN
    /\ pc[w] = "invalidated"
    /\ data[s] < MaxVersion
    /\ data' = [data EXCEPT ![s] = @ + 1]
    /\ outdated' = outdated \cup
         {v \in Workers : pc[v] = "computed" /\ Source(call[v].key) = s}
    /\ Done(w)
    /\ UNCHANGED <<cached, crossed, throttleVars>>

\* The timeout of a key
Expire ==
    /\ \E k \in Keys :
         /\ cached[k] # 0
         /\ cached' = [cached EXCEPT ![k] = 0]
         /\ crossed' = crossed \ {k}
    /\ UNCHANGED <<data, pc, call, outdated, throttleVars>>

Allows(n) == n < Limit

\* ApiThrottleMiddleware reads the counter, and refuses or
Count(w) ==
    /\ requests < MaxRequests
    /\ requests' = requests + 1
    /\ IF Allows(count)
       THEN Begin(w, "counted", [op |-> "request", count |-> count])
       ELSE pc[w] = "idle" /\ UNCHANGED <<pc, call, outdated>>
    /\ UNCHANGED <<cacheVars, count, served, overlapped>>

\* writes it and serves the request.
Serve(w) ==
    /\ pc[w] = "counted"
    /\ count' = call[w].count + 1
    /\ served' = served + 1
    /\ overlapped' = (overlapped \/ w \in outdated)
    /\ outdated' = outdated \cup {v \in Workers \ {w} : pc[v] = "counted"}
    /\ Done(w)
    /\ UNCHANGED <<cacheVars, requests>>

\* The process dies, or the transaction fails: what was deleted from the cache
\* stays deleted.
Abort(w) ==
    /\ pc[w] # "idle"
    /\ Done(w)
    /\ UNCHANGED <<cacheVars, throttleVars, outdated>>

Step(w) ==
    \/ Compute(w) \/ Store(w) \/ Write(w) \/ Commit(w) \/ Count(w) \/ Serve(w) \/ Abort(w)

Next == Expire \/ \E w \in Workers : Step(w)

Spec == Init /\ [][Next]_vars

------------------------------------------------------------------------------
Versions == 1 .. MaxVersion + 1

Reads == [op : {"read"}, key : Keys, value : Versions]
Writes == [op : {"write"}, source : Sources]
Requests == [op : {"request"}, count : Nat]

TypeOK ==
    /\ data \in [Sources -> Versions]
    /\ cached \in [Keys -> Versions \cup {0}]
    /\ count \in Nat /\ served \in Nat /\ requests \in 0 .. MaxRequests
    /\ pc \in [Workers -> {"idle", "computed", "invalidated", "counted"}]
    /\ call \in [Workers -> {NoCall} \cup Reads \cup Writes \cup Requests]
    /\ outdated \subseteq Workers /\ crossed \subseteq Keys /\ overlapped \in BOOLEAN

\* What the cache holds of a site is what is committed, unless a read and a
\* write crossed; and a client has no more requests served in a minute than its
\* limit, unless two of them overlapped.
CachesOK ==
    /\ \A k \in {"detail", "stats"} \ crossed :
         cached[k] \in {0, data["site"]}
    /\ ~overlapped => served <= Limit

\* What a worker computed, invalidated or counted stands until it is outdated,
\* or crossed by another.
CallsHold ==
    \A w \in Workers :
      /\ pc[w] = "computed" =>
           /\ call[w] \in Reads
           /\ w \notin outdated => call[w].value = data[Source(call[w].key)]
      /\ pc[w] = "invalidated" =>
           /\ call[w] \in Writes
           /\ \A k \in Invalidated(call[w].source) \ crossed : cached[k] = 0
      /\ pc[w] = "counted" =>
           /\ call[w] \in Requests /\ Allows(call[w].count)
           /\ w \notin outdated => call[w].count = count

ServedAreCounted == ~overlapped => served = count

IInv == TypeOK /\ CachesOK /\ CallsHold /\ ServedAreCounted
==============================================================================
