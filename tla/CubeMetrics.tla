---------------------------- MODULE CubeMetrics ----------------------------
(***************************************************************************)
(* The metric catalog and metric queries of the semantic layer.  Cube has  *)
(* them; each worker keeps the last /meta response (CubeClient) and copies *)
(* of the catalog and of query results (L1 of CacheService), and all share *)
(* copies in Redis (L2), each for CubeTTL.                                 *)
(*                                                                         *)
(* What matters of a copy is how long it has been out of date: Current, or *)
(* the ticks since Cube changed.  One tenant is enough: the keys of the    *)
(* caches begin with the tenant.  Redis answers within a tick, and what    *)
(* Cube answers is on its way no longer than CubeDelay.  In one behaviour  *)
(* users either list or query: the two have only /meta in common.          *)
(***************************************************************************)
EXTENDS Integers, Sequences

CONSTANTS
    Slot,       \* slots of requests in flight
    Host,       \* the workers
    CubeTTL,    \* cache_ttl_seconds, METRIC_DEFINITIONS and QUERY_RESULTS, in ticks
    CubeDelay,  \* at most the timeout of the HTTP client, in ticks
    Asked,      \* the queries users send
    CubeFaults  \* what may fail: "cube", "redis", "evict", "restart"

ASSUME CubeAssumption ==
    /\ CubeTTL \in Nat \ {0} /\ CubeDelay \in Nat
    /\ Asked \subseteq [filter : {"North", "north"}, order : {<<"a", "b">>, <<"b", "a">>}, offset : {0, 1}]
    /\ CubeFaults \subseteq {"cube", "redis", "evict", "restart"}

VARIABLES
    meta,    \* meta[h]: the /meta response a worker holds
    catalog, \* catalog[h], and catalog["redis"]: the list of metrics
    results, \* likewise the rows of the query that was cached last
    traffic, \* what users do: "list" or "query"
    job,     \* job[r]: what a request does
    served   \* what the last step answered

cubeVars == <<traffic, meta, catalog, results, job, served>>

Current == -1
\* No copy stays longer: from Cube to the worker, to Redis, and to another worker.
Oldest == 3 * CubeTTL + CubeDelay
NoQuery == [filter |-> "none", order |-> <<>>, offset |-> 0]
NoCopy == [stale |-> Current, of |-> NoQuery, age |-> CubeTTL + 1]
Copy(stale, of) == [stale |-> stale, of |-> of, age |-> 0]
Places == Host \cup {"redis"}

NoJob == [host |-> "none", query |-> NoQuery, pc |-> "idle", stale |-> Current, wait |-> 0]
NothingServed == [kind |-> "none", query |-> NoQuery, of |-> NoQuery, stale |-> Current]
Silence == served' = NothingServed
Serve(kind, query, of, stale) ==
    served' = [kind |-> kind, query |-> query, of |-> of, stale |-> stale]

CubeInit ==
    /\ traffic \in {"list", "query"}
    /\ meta = [h \in Host |-> NoCopy]
    /\ catalog = [p \in Places |-> NoCopy] /\ results = [p \in Places |-> NoCopy]
    /\ job = [r \in Slot |-> NoJob] /\ served = NothingServed

-----------------------------------------------------------------------------
(***************************************************************************)
(* The caches.                                                             *)
(***************************************************************************)
MetaFresh(h) == meta[h].age < CubeTTL
\* The copy a worker sees, and its caches once it has: a copy from Redis is new in L1.
Seen(cache, h, redis) ==
    CASE cache[h] # NoCopy -> cache[h]
      [] cache[h] = NoCopy /\ redis /\ cache["redis"] # NoCopy ->
           Copy(cache["redis"].stale, cache["redis"].of)
      [] OTHER -> NoCopy
Stored(cache, h, copy, redis) ==
    [p \in Places |-> IF p = h \/ (p = "redis" /\ redis) THEN copy ELSE cache[p]]
RedisWorks == IF "redis" \in CubeFaults THEN BOOLEAN ELSE {TRUE}

OnItsWay(r) == job[r].pc \in {"parse", "flatten"}
Become(r, h, query, pc, stale) ==
    job' = [job EXCEPT ![r] = [host |-> h, query |-> query,
                               pc |-> pc, stale |-> stale, wait |-> 0]]
Done(r) == job' = [job EXCEPT ![r] = NoJob]

-----------------------------------------------------------------------------
(***************************************************************************)
(* GET /metrics/list.                                                      *)
(***************************************************************************)
\* The catalog is built from a /meta response, and cached.
Summarise(h, stale) ==
    \E redis \in RedisWorks :
        /\ catalog' = Stored(catalog, h, Copy(stale, NoQuery), redis)
        /\ Serve("list", NoQuery, NoQuery, stale)
\* A refresh skips the caches of the catalog, not the /meta response.
ListMetrics(r, h, refresh) ==
    /\ traffic = "list" /\ job[r] = NoJob
    /\ \E redis \in RedisWorks :
         LET copy == Seen(catalog, h, redis)
             hit  == ~refresh /\ copy # NoCopy
         IN \/ /\ hit
               /\ catalog' = [catalog EXCEPT ![h] = copy]
               /\ Serve("list", NoQuery, NoQuery, copy.stale)
               /\ UNCHANGED <<meta, results, job>>
            \/ /\ ~hit /\ MetaFresh(h)
               /\ Summarise(h, meta[h].stale)
               /\ UNCHANGED <<meta, results, job>>
            \/ /\ ~hit /\ ~MetaFresh(h)
               /\ Become(r, h, NoQuery, "meta", Current) /\ Silence
               /\ UNCHANGED <<meta, catalog, results>>

(***************************************************************************)
(* POST /metrics/query.  Cube tells whether the measures are known, from   *)
(* the same /meta response.                                                *)
(***************************************************************************)
\* A bug: the key forgets the offset too.
CacheKey_Page(query) == {query.order[i] : i \in DOMAIN query.order}
\* The key is the query in lower case, with the fields of its order sorted.
CacheKey(query) == <<query.offset, {query.order[i] : i \in DOMAIN query.order}>>
LookUp(r, h, query, stale) ==
    \/ Serve("unknown", query, NoQuery, stale) /\ Done(r) /\ UNCHANGED <<catalog, results>>
    \/ \E redis \in RedisWorks :
         LET copy == Seen(results, h, redis)
             hit  == copy # NoCopy /\ CacheKey(copy.of) = CacheKey(query)
         IN /\ results' = IF hit THEN [results EXCEPT ![h] = copy] ELSE results
            /\ UNCHANGED catalog
            /\ IF hit
               THEN Serve("rows", query, copy.of, copy.stale) /\ Done(r)
               ELSE Become(r, h, query, "load", Current) /\ Silence
QueryMetrics(r, h, query) ==
    /\ traffic = "query" /\ job[r] = NoJob
    /\ IF MetaFresh(h)
       THEN LookUp(r, h, query, meta[h].stale)
       ELSE /\ Become(r, h, query, "meta", Current) /\ Silence
            /\ UNCHANGED <<catalog, results>>
    /\ UNCHANGED meta

\* Cube reads what it answers; the answer is on its way.
CubeAnswers(r) ==
    /\ job[r].pc \in {"meta", "load"}
    /\ job' = [job EXCEPT ![r].pc = IF @ = "meta" THEN "parse" ELSE "flatten"]
    /\ Silence /\ UNCHANGED <<meta, catalog, results>>
\* get_meta has the response, and goes on to what it was asked for.
ParseMeta(r) ==
    LET h == job[r].host
    IN /\ job[r].pc = "parse"
       /\ meta' = [meta EXCEPT ![h] = Copy(job[r].stale, NoQuery)]
       /\ IF traffic = "list"
          THEN Summarise(h, job[r].stale) /\ Done(r) /\ UNCHANGED results
          ELSE LookUp(r, h, job[r].query, job[r].stale)
ReturnRows(r) ==
    LET h == job[r].host
    IN /\ job[r].pc = "flatten"
       /\ \E redis \in RedisWorks :
            results' = Stored(results, h, Copy(job[r].stale, job[r].query), redis)
       /\ Serve("rows", job[r].query, job[r].query, job[r].stale) /\ Done(r)
       /\ UNCHANGED <<meta, catalog>>
\* A list falls back on the catalog, if there is a copy by now.
CubeFails(r) ==
    LET h == job[r].host
    IN /\ job[r] # NoJob /\ "cube" \in CubeFaults
       /\ Done(r)
       /\ \/ traffic = "query" /\ Silence /\ UNCHANGED catalog
          \/ /\ traffic = "list"
             /\ \E redis \in RedisWorks :
                  LET copy == Seen(catalog, h, redis)
                  IN /\ catalog' = [catalog EXCEPT ![h] = copy]
                     /\ IF copy = NoCopy THEN Silence ELSE Serve("list", NoQuery, NoQuery, copy.stale)
       /\ UNCHANGED <<meta, results>>

-----------------------------------------------------------------------------
(***************************************************************************)
(* What happens around them.                                               *)
(***************************************************************************)
\* The metrics, or the data under them, change: every copy is out of date.
Outdated(copy) == [copy EXCEPT !.stale = IF @ = Current /\ copy # NoCopy THEN 0 ELSE @]
CubeChanges ==
    /\ meta' = [h \in Host |-> Outdated(meta[h])]
    /\ catalog' = [p \in Places |-> Outdated(catalog[p])]
    /\ results' = [p \in Places |-> Outdated(results[p])]
    /\ job' = [r \in Slot |->
                 IF OnItsWay(r) /\ job[r].stale = Current
                 THEN [job[r] EXCEPT !.stale = 0] ELSE job[r]]
    /\ Silence

Staler(stale) == IF stale = Current THEN Current ELSE IF stale > Oldest THEN stale ELSE stale + 1
\* A copy that no lookup returns any more is forgotten, which the program does later.
Older(copy, last) ==
    IF copy.age >= last THEN NoCopy ELSE [copy EXCEPT !.age = @ + 1, !.stale = Staler(@)]
OlderAt(cache, p) == Older(cache[p], IF p = "redis" THEN CubeTTL - 1 ELSE CubeTTL)
CubeTick ==
    /\ \A r \in Slot : OnItsWay(r) => job[r].wait < CubeDelay
    /\ meta' = [h \in Host |-> Older(meta[h], CubeTTL - 1)]
    /\ catalog' = [p \in Places |-> OlderAt(catalog, p)]
    /\ results' = [p \in Places |-> OlderAt(results, p)]
    /\ job' = [r \in Slot |->
                 IF ~OnItsWay(r) THEN job[r]
                 ELSE [job[r] EXCEPT !.wait = @ + 1, !.stale = Staler(@)]]
    /\ Silence

\* L1 keeps a thousand entries, Redis what it has room for.
Evict(p) ==
    /\ "evict" \in CubeFaults
    /\ \/ catalog' = [catalog EXCEPT ![p] = NoCopy] /\ UNCHANGED results
       \/ results' = [results EXCEPT ![p] = NoCopy] /\ UNCHANGED catalog
    /\ Silence /\ UNCHANGED <<meta, job>>
RestartHost(h) ==
    /\ "restart" \in CubeFaults
    /\ meta' = [meta EXCEPT ![h] = NoCopy]
    /\ catalog' = [catalog EXCEPT ![h] = NoCopy]
    /\ results' = [results EXCEPT ![h] = NoCopy]
    /\ job' = [r \in Slot |-> IF job[r].host = h THEN NoJob ELSE job[r]]
    /\ Silence

\* An answer is looked at before anything else happens.
HandOver == served # NothingServed /\ Silence /\ UNCHANGED <<meta, catalog, results, job>>
Working ==
    \/ \E r \in Slot, h \in Host :
         \/ \E refresh \in BOOLEAN : ListMetrics(r, h, refresh)
         \/ \E query \in Asked : QueryMetrics(r, h, query)
    \/ \E r \in Slot : CubeAnswers(r) \/ ParseMeta(r) \/ ReturnRows(r) \/ CubeFails(r)
    \/ CubeChanges \/ CubeTick
    \/ \E p \in Places : Evict(p)
    \/ \E h \in Host : RestartHost(h)
CubeNext == UNCHANGED traffic /\ (HandOver \/ (served = NothingServed /\ Working))
CubeSpec == CubeInit /\ [][CubeNext]_cubeVars

-----------------------------------------------------------------------------
\* A copy is served only so long after Cube changed: through one cache, two or three.
ServedIsRecent ==
    served.stale <= CASE served.kind = "unknown" -> CubeTTL + CubeDelay - 1
                      [] served.kind = "rows" -> 2 * CubeTTL + CubeDelay - 1
                      [] OTHER -> 3 * CubeTTL + CubeDelay - 2
\* Rows are those of the query, or of one that differs from it in the case of its
\* filters or the order of its sort fields, which the key of the cache forgets.
ServedIsAsked ==
    served.kind = "rows" =>
        /\ served.of.offset = served.query.offset
        /\ \E f \in {"North", "north"}, swap \in {<<1, 2>>, <<2, 1>>} :
             served.of = [served.query EXCEPT !.filter = f, !.order = [i \in 1..2 |-> @[swap[i]]]]
MetricsServed == ServedIsRecent /\ ServedIsAsked
=============================================================================
