------------------------- MODULE ControlPlaneCache -------------------------
(***************************************************************************)
(* The control-plane facts every request is checked against: a tenant's    *)
(* status and a user's platform-admin grant.  The database holds them;     *)
(* each worker keeps a copy in process (L1) and all share one in Redis     *)
(* (L2), both for CONTROL_PLANE seconds.  core/auth.py reads L1, L2, then  *)
(* the database; services/tenants.py and services/platform_admins.py write *)
(* the database and then both caches.  Every read and write of Redis and   *)
(* of the database is an await, so checks and writes overlap.              *)
(*                                                                         *)
(* Time is discrete: an entry has an age in ticks, and a call waits at     *)
(* most Delay ticks in one await.                                          *)
(***************************************************************************)
EXTENDS Integers

CONSTANTS
  Op,      \* slots of calls in flight
  Worker,  \* gunicorn worker processes, each with its own L1
  NoWorker,\* stands for no worker
  Facts,   \* which facts the instance has: "status", "grant"
  TTL,     \* CacheTTL.CONTROL_PLANE, in ticks
  Delay,   \* the longest a call waits in one await, in ticks
  Faults   \* which of "db" and "redis" may fail, and "crash": a worker may die

ASSUME CacheAssumption ==
  /\ Facts \subseteq {"status", "grant"}
  /\ TTL \in Nat \ {0}
  /\ Delay \in Nat
  /\ Faults \subseteq {"db", "redis", "crash"}
  /\ NoWorker \notin Worker

VARIABLES
  db,       \* db[f]: what the database says
  since,    \* since[f]: ticks since db[f] last changed, no further than Settled
  l1,       \* l1[w][f]: worker w's entry, with its age
  l2,       \* l2[f]: the Redis entry, with its age
  link,     \* link[w]: RedisCache._ensure of worker w
  call,     \* call[o]: the state of call o
  verdict   \* what the step just taken answered, if it answered a check

vars == <<db, since, l1, l2, link, call, verdict>>

StatusValue == {"active", "suspended", "deleted"}
GrantValue == {"granted", "revoked"}
Value == StatusValue \cup GrantValue
ValueOf(f) == IF f = "status" THEN StatusValue ELSE GrantValue

\* A tenant that is gone is not rejected: the code only looks for "suspended".
Rejects(v) == v \in {"suspended", "revoked"}

\* The longest a copy may outlive a change: a value read before it, written to
\* Redis two awaits later, promoted by a third one as the entry expires, and then
\* kept for a whole TTL more.
Bound == 2 * TTL + 3 * Delay - 1
Settled == Bound + 1

NoEntry == [val |-> "none", age |-> 0]
Fresh(v) == [val |-> v, age |-> 0]
Entry == [val : Value \cup {"none"}, age : 0..TTL]

NoVerdict == [fact |-> "none", val |-> "none"]
PC == {"idle", "l2get", "l2get_ping", "promote", "dbread", "delete",
       "cache", "l2set", "l2set_ping"}
Carrying == {"promote", "cache", "l2set", "l2set_ping"}
At(o, label) == call[o].pc = label

-----------------------------------------------------------------------------
\* Call o, for fact f on worker w, goes into the await "label" carrying v.
Start(o, kind, w, f, label, v) ==
  call' = [call EXCEPT ![o] = [pc |-> label, kind |-> kind, worker |-> w,
                               fact |-> f, val |-> v, wait |-> 0]]
Goto(o, label, v) == Start(o, call[o].kind, call[o].worker, call[o].fact, label, v)
Idle ==
  [pc |-> "idle", kind |-> "check", worker |-> NoWorker, fact |-> "none",
   val |-> "none", wait |-> 0]
Finish(o) == call' = [call EXCEPT ![o] = Idle]
Silent == verdict' = NoVerdict
Answer(f, v) == verdict' = [fact |-> f, val |-> v]

\* Mutant: a hit stamps the entry anew, so that a busy entry never expires.
L1Hit_Restamps(w, f) ==
  /\ l1[w][f].val # "none"
  /\ l1' = [l1 EXCEPT ![w][f].age = 0]

\* LRUCache.get: an entry older than its TTL is gone (see Tick).
L1Hit(w, f) == l1[w][f].val # "none" /\ UNCHANGED l1
L1Set(w, f, v) == l1' = [l1 EXCEPT ![w][f] = Fresh(v)]

\* RedisCache._ensure: the first caller of a process marks it as attempted before
\* it awaits the ping, so a call that comes meanwhile finds Redis unavailable, and
\* so does every later call once the ping has failed.
Unavailable(w) == link[w] \in {"connecting", "down"}

Connect(o) ==
  LET w == call[o].worker IN
  /\ call[o].pc \in {"l2get", "l2set"}
  /\ link[w] = "new"
  /\ link' = [link EXCEPT ![w] = "connecting"]
  /\ call' = [call EXCEPT ![o].pc = IF At(o, "l2get") THEN "l2get_ping" ELSE "l2set_ping"]
  /\ Silent
  /\ UNCHANGED <<db, since, l1, l2>>

Pinged(o) ==
  LET w == call[o].worker IN
  /\ call[o].pc \in {"l2get_ping", "l2set_ping"}
  /\ \E up \in {"up", "down"} :
       /\ up = "down" => "redis" \in Faults
       /\ link' = [link EXCEPT ![w] = up]
  /\ call' = [call EXCEPT ![o].pc = IF At(o, "l2get_ping") THEN "l2get" ELSE "l2set"]
  /\ Silent
  /\ UNCHANGED <<db, since, l1, l2>>

-----------------------------------------------------------------------------
\* get_current_user, require_platform_admin and require_tenant_admin: a worker
\* takes up a request and looks into its L1.
Check(o, w, f) ==
  /\ At(o, "idle")
  /\ \/ /\ L1Hit(w, f)
        /\ Answer(f, l1[w][f].val)
        /\ UNCHANGED call
     \/ /\ l1[w][f].val = "none"
        /\ Start(o, "check", w, f, "l2get", "none")
        /\ Silent
        /\ UNCHANGED l1
  /\ UNCHANGED <<db, since, l2, link>>

\* get_tenant_status and get_platform_admin, the Redis half.
L2Get(o) ==
  LET w == call[o].worker  f == call[o].fact IN
  /\ At(o, "l2get")
  /\ link[w] # "new"
  /\ \/ /\ link[w] = "up" /\ l2[f].val # "none"
        /\ Goto(o, "promote", l2[f].val)
     \/ /\ Unavailable(w) \/ l2[f].val = "none" \/ "redis" \in Faults
        /\ Goto(o, "dbread", "none")
  /\ Silent
  /\ UNCHANGED <<db, since, l1, l2, link>>

\* The reply of Redis goes into L1 with a new timestamp.
Promote(o) ==
  /\ At(o, "promote")
  /\ L1Set(call[o].worker, call[o].fact, call[o].val)
  /\ Answer(call[o].fact, call[o].val)
  /\ Finish(o)
  /\ UNCHANGED <<db, since, l2, link>>

\* _lookup_tenant_status and _lookup_platform_admin.  A tenant that is gone has no
\* status: the check lets it in and caches nothing.  A failure lets it in, too.
DbRead(o) ==
  LET f == call[o].fact IN
  /\ At(o, "dbread")
  /\ \/ /\ db[f] # "deleted"
        /\ Goto(o, "cache", db[f])
        /\ Silent
     \/ /\ db[f] = "deleted"
        /\ Answer(f, "deleted")
        /\ Finish(o)
     \/ /\ "db" \in Faults
        /\ Answer(f, "error")
        /\ Finish(o)
  /\ UNCHANGED <<db, since, l1, l2, link>>

\* set_tenant_status and set_platform_admin, the L1 half, when the database has
\* answered.
CacheL1(o) ==
  /\ At(o, "cache")
  /\ L1Set(call[o].worker, call[o].fact, call[o].val)
  /\ Goto(o, "l2set", call[o].val)
  /\ Silent
  /\ UNCHANGED <<db, since, l2, link>>

\* The Redis half, SETEX; a check then answers.
CacheL2(o) ==
  LET w == call[o].worker  f == call[o].fact IN
  /\ At(o, "l2set")
  /\ link[w] # "new"
  /\ \/ /\ link[w] = "up"
        /\ l2' = [l2 EXCEPT ![f] = Fresh(call[o].val)]
     \/ /\ Unavailable(w) \/ "redis" \in Faults
        /\ UNCHANGED l2
  /\ IF call[o].kind = "check" THEN Answer(f, call[o].val) ELSE Silent
  /\ Finish(o)
  /\ UNCHANGED <<db, since, l1, link>>

-----------------------------------------------------------------------------
\* A committed write of the fact.
Commit(f, v) ==
  /\ db' = [db EXCEPT ![f] = v]
  /\ since' = IF db[f] = v THEN since ELSE [since EXCEPT ![f] = 0]

Writing(o, w, f, label, v) == Start(o, "write", w, f, label, v)

\* update_tenant with a status; a tenant that is gone is a 404.
UpdateTenant(o, w) ==
  /\ At(o, "idle") /\ "status" \in Facts
  /\ db["status"] # "deleted"
  /\ \E status \in {"active", "suspended"} :
       /\ Commit("status", status)
       /\ Writing(o, w, "status", "cache", status)
  /\ Silent
  /\ UNCHANGED <<l1, l2, link>>

\* decommission_tenant: the existence check, and later the DELETE.
DecommissionCheck(o, w) ==
  /\ At(o, "idle") /\ "status" \in Facts
  /\ db["status"] # "deleted"
  /\ Writing(o, w, "status", "delete", "none")
  /\ Silent
  /\ UNCHANGED <<db, since, l1, l2, link>>

DecommissionDelete(o) ==
  /\ At(o, "delete")
  /\ Commit("status", "deleted")
  /\ Goto(o, "cache", "deleted")
  /\ Silent
  /\ UNCHANGED <<l1, l2, link>>

\* grant_superadmin: an upsert, cached whatever was there.
Grant(o, w) ==
  /\ At(o, "idle") /\ "grant" \in Facts
  /\ Commit("grant", "granted")
  /\ Writing(o, w, "grant", "cache", "granted")
  /\ Silent
  /\ UNCHANGED <<l1, l2, link>>

\* revoke_superadmin: nothing is cached when there was nothing to revoke.
Revoke(o, w) ==
  /\ At(o, "idle") /\ "grant" \in Facts
  /\ db["grant"] = "granted"
  /\ Commit("grant", "revoked")
  /\ Writing(o, w, "grant", "cache", "revoked")
  /\ Silent
  /\ UNCHANGED <<l1, l2, link>>

-----------------------------------------------------------------------------
\* LRUCache.set of another key evicts this one; Redis may drop a key as well.
EvictL1(w, f) ==
  /\ l1[w][f].val # "none"
  /\ l1' = [l1 EXCEPT ![w][f] = NoEntry]
  /\ Silent
  /\ UNCHANGED <<db, since, l2, link, call>>

\* A worker dies and another takes its place: its calls and its L1 are lost.
Restart(w) ==
  /\ "crash" \in Faults
  /\ l1' = [l1 EXCEPT ![w] = [f \in Facts |-> NoEntry]]
  /\ link' = [link EXCEPT ![w] = "new"]
  /\ call' = [o \in Op |-> IF call[o].worker = w THEN Idle ELSE call[o]]
  /\ Silent
  /\ UNCHANGED <<db, since, l2>>

\* Mutant: the entry stays on for ever, as SET without EX would leave it.
Older_Stays(e, last) ==
  IF e.val = "none" \/ e.age = TTL THEN e ELSE [e EXCEPT !.age = @ + 1]

\* An entry after one more tick; "last" is the last age at which it is served.
Older(e, last) ==
  IF e.val = "none" \/ e.age = last THEN NoEntry ELSE [e EXCEPT !.age = @ + 1]

\* A tick passes, unless a call has waited as long as it can: L1 serves an entry up
\* to age TTL, Redis drops it at age TTL.
Tick ==
  /\ \A o \in Op : At(o, "idle") \/ call[o].wait < Delay
  /\ call' = [o \in Op |-> IF At(o, "idle") THEN call[o]
                           ELSE [call[o] EXCEPT !.wait = @ + 1]]
  /\ l1' = [w \in Worker |-> [f \in Facts |-> Older(l1[w][f], TTL)]]
  /\ l2' = [f \in Facts |-> Older(l2[f], TTL - 1)]
  /\ since' = [f \in Facts |-> IF since[f] < Settled THEN since[f] + 1 ELSE since[f]]
  /\ Silent
  /\ UNCHANGED <<db, link>>

-----------------------------------------------------------------------------
Init ==
  /\ db \in [Facts -> {"active", "granted"}] /\ \A f \in Facts : db[f] \in ValueOf(f)
  /\ since = [f \in Facts |-> Settled]
  /\ l1 = [w \in Worker |-> [f \in Facts |-> NoEntry]]
  /\ l2 = [f \in Facts |-> NoEntry]
  /\ link = [w \in Worker |-> "new"]
  /\ call = [o \in Op |-> Idle]
  /\ verdict = NoVerdict

Handle(o) ==
  \/ Connect(o) \/ Pinged(o)
  \/ L2Get(o) \/ Promote(o) \/ DbRead(o) \/ CacheL1(o) \/ CacheL2(o)
  \/ DecommissionDelete(o)

Next ==
  \/ \E o \in Op : Handle(o)
  \/ \E o \in Op, w \in Worker :
       \/ \E f \in Facts : Check(o, w, f)
       \/ UpdateTenant(o, w) \/ DecommissionCheck(o, w) \/ Grant(o, w) \/ Revoke(o, w)
  \/ \E w \in Worker : Restart(w) \/ \E f \in Facts : EvictL1(w, f)
  \/ Tick

Spec == Init /\ [][Next]_vars

-----------------------------------------------------------------------------
CallRow ==
  [pc : PC, kind : {"check", "write"}, worker : Worker \cup {NoWorker},
   fact : Facts \cup {"none"}, val : Value \cup {"none"}, wait : 0..Delay]

TypeOK ==
  /\ db \in [Facts -> Value] /\ \A f \in Facts : db[f] \in ValueOf(f)
  /\ since \in [Facts -> 0..Settled]
  /\ l1 \in [Worker -> [Facts -> Entry]]
  /\ l2 \in [Facts -> Entry] /\ \A f \in Facts : l2[f].age < TTL
  /\ link \in [Worker -> {"new", "connecting", "up", "down"}]
  /\ call \in [Op -> CallRow]
  /\ \A o \in Op : ~At(o, "idle") => call[o].worker \in Worker /\ call[o].fact \in Facts
  /\ \A o \in Op : call[o].pc \in Carrying => call[o].val \in Value
  /\ \A o \in Op : At(o, "delete") => call[o].fact = "status"
  /\ verdict \in [fact : Facts \cup {"none"}, val : Value \cup {"none", "error"}]

\* What the step just taken let in or kept out against what the database says.
Misjudged ==
  /\ verdict.val \notin {"none", "error"}
  /\ Rejects(verdict.val) # Rejects(db[verdict.fact])

\* get_current_user and require_platform_admin, through two caches: a suspension, a
\* revocation and their reversal bind within twice the TTL and the awaits of the
\* calls in flight, whatever overlaps, is evicted, restarted or cut off from Redis.
RevocationBinds == Misjudged => since[verdict.fact] <= Bound

\* platform_admins.py, "an unexpired JWT loses its power within a minute", and
\* cache.py, "60-second TTL so suspension/revocation binds within a minute": no
\* check is wrong more than one TTL after the change.
BindsWithinTTL == Misjudged => since[verdict.fact] <= TTL

\* update_tenant, "a status change refreshes the 60s status cache": as long as the
\* database does not change, what Redis holds does not go from right to wrong.
RefreshSticks ==
  [][\A f \in Facts :
       l2[f].val = db[f] /\ db'[f] = db[f] => l2'[f].val \in {db[f], "none"}]_vars
=============================================================================
