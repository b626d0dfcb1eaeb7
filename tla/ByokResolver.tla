---------------------------- MODULE ByokResolver ----------------------------
(***************************************************************************)
(* Which LLM key a tenant's calls use: resolve_llm of llm/resolver.py over *)
(* the tenant's row of tenant_llm_providers, written by services/byok.py.  *)
(* Each worker keeps resolutions by key version, in a dict without expiry; *)
(* a pointer to the version, cached in process (L1) and in Redis (L2) for  *)
(* a minute, chooses among them.  A write drops the resolutions of the     *)
(* worker that handles it and leaves the pointers alone.                   *)
(*                                                                         *)
(* A key is the number of the save that brought it; the platform's key is  *)
(* 0.  The pointers' TTL is left open: a pointer may expire at any time.   *)
(***************************************************************************)
EXTENDS Integers

CONSTANTS
  Op,         \* slots of calls in flight
  Worker,     \* gunicorn worker processes
  NoWorker,   \* stands for no worker
  MaxWrites,  \* bound of the model: how often the row is written
  CanDelete,  \* whether the row may be deleted
  Faults      \* "db": a load may fail; "nokey": a worker may lack TENANT_ENCRYPTION_KEY;
              \* "crash": a worker may die

ASSUME ByokAssumption ==
  /\ MaxWrites \in Nat
  /\ CanDelete \in BOOLEAN
  /\ Faults \subseteq {"db", "nokey", "crash"}
  /\ NoWorker \notin Worker

VARIABLES
  keyed,   \* keyed[w]: worker w was started with TENANT_ENCRYPTION_KEY
  row,     \* the tenant's row: version, key and status; version 0 when there is none
  saves,   \* how many keys were saved so far
  writes,  \* how many writes there were so far
  erased,  \* how many of the saves the last delete undid (history)
  res,     \* res[w][v]: _resolution_cache of worker w
  ptr1,    \* ptr1[w]: the version pointer in L1 of worker w
  ptr2,    \* the version pointer in Redis
  call,    \* call[o]: the state of call o
  answer   \* the key that the step just taken resolved to

vars == <<keyed, row, saves, writes, erased, res, ptr1, ptr2, call, answer>>

Absent == -1        \* no entry, no pointer
Failed == -2        \* BYOKNotConfiguredError
NoAnswer == -3
Platform == 0
Version == 0..MaxWrites
Key == 0..MaxWrites

NoRow == [version |-> 0, key |-> Platform, active |-> FALSE]

\* What the row says now; only an active row counts.
EffectiveVersion == IF row.active THEN row.version ELSE 0
EffectiveKey == IF row.active THEN row.key ELSE Platform

Idle == [pc |-> "idle", worker |-> NoWorker, version |-> Absent, key |-> Absent]
At(o, label) == call[o].pc = label
Goto(o, label, w, v, k) ==
  call' = [call EXCEPT ![o] = [pc |-> label, worker |-> w, version |-> v, key |-> k]]
Finish(o) == call' = [call EXCEPT ![o] = Idle]
Answer(k) == answer' = k
Silent == Answer(NoAnswer)

-----------------------------------------------------------------------------
\* resolve_llm up to its first await: a pointer in L1 that leads to a resolution
\* answers at once.
Resolve(o, w) ==
  /\ At(o, "idle")
  /\ \/ /\ ptr1[w] = Absent
        /\ Goto(o, "l2get", w, Absent, Absent)
        /\ Silent
     \/ /\ ptr1[w] # Absent /\ res[w][ptr1[w]] = Absent
        /\ Goto(o, "load", w, Absent, Absent)
        /\ Silent
     \/ /\ ptr1[w] # Absent /\ res[w][ptr1[w]] # Absent
        /\ Answer(res[w][ptr1[w]])
        /\ UNCHANGED call
  /\ UNCHANGED <<keyed, row, saves, writes, erased, res, ptr1, ptr2>>

\* get_byok_version, the Redis half.
GetPointer(o) ==
  LET w == call[o].worker IN
  /\ At(o, "l2get")
  /\ IF ptr2 = Absent THEN Goto(o, "load", w, Absent, Absent)
                      ELSE Goto(o, "promote", w, ptr2, Absent)
  /\ Silent
  /\ UNCHANGED <<keyed, row, saves, writes, erased, res, ptr1, ptr2>>

\* The reply goes into L1, and the resolution it points to is looked up.
Promote(o) ==
  LET w == call[o].worker  v == call[o].version IN
  /\ At(o, "promote")
  /\ ptr1' = [ptr1 EXCEPT ![w] = v]
  /\ \/ res[w][v] # Absent /\ Answer(res[w][v]) /\ Finish(o)
     \/ res[w][v] = Absent /\ Silent /\ Goto(o, "load", w, Absent, Absent)
  /\ UNCHANGED <<keyed, row, saves, writes, erased, res, ptr2>>

\* _load.  The encryption key is asked for whether or not there is a row; any other
\* failure is answered with the platform's key.
Load(o) ==
  LET w == call[o].worker IN
  /\ At(o, "load")
  /\ \/ /\ keyed[w]
        /\ Goto(o, "store", w, EffectiveVersion, EffectiveKey)
        /\ Silent
     \/ ~keyed[w] /\ Answer(Failed) /\ Finish(o)
     \/ "db" \in Faults /\ Answer(Platform) /\ Finish(o)
  /\ UNCHANGED <<keyed, row, saves, writes, erased, res, ptr1, ptr2>>

\* What the database answered goes into the dict and, as a pointer, into L1.
Store(o) ==
  LET w == call[o].worker  v == call[o].version IN
  /\ At(o, "store")
  /\ res' = [res EXCEPT ![w] = [@ EXCEPT ![v] = call[o].key]]
  /\ ptr1' = [ptr1 EXCEPT ![w] = v]
  /\ Goto(o, "l2set", w, v, call[o].key)
  /\ Silent
  /\ UNCHANGED <<keyed, row, saves, writes, erased, ptr2>>

SetPointer(o) ==
  /\ At(o, "l2set")
  /\ ptr2' = call[o].version
  /\ Answer(call[o].key)
  /\ Finish(o)
  /\ UNCHANGED <<keyed, row, saves, writes, erased, res, ptr1>>

-----------------------------------------------------------------------------
\* Mutant: the upsert does not bump the version.
Bumped_Not(v) == IF v = 0 THEN 1 ELSE v

\* key_version of a saved row: 1 for a new one.
Bumped(v) == v + 1

Write(o, w, newRow) ==
  /\ At(o, "idle") /\ writes < MaxWrites
  /\ row' = newRow
  /\ writes' = writes + 1
  /\ Goto(o, "invalidate", w, Absent, Absent)
  /\ Silent
  /\ UNCHANGED <<keyed, res, ptr1, ptr2>>

\* set_provider_config, after validation and with an encryption key: an upsert that
\* activates the row.
SetConfig(o, w) ==
  /\ keyed[w]
  /\ saves' = saves + 1
  /\ Write(o, w, [version |-> Bumped(row.version), key |-> saves + 1, active |-> TRUE])
  /\ UNCHANGED erased

\* delete_provider_config: the next row starts again at version 1.
DeleteConfig(o, w) ==
  /\ CanDelete
  /\ Write(o, w, NoRow)
  /\ erased' = saves
  /\ UNCHANGED saves

\* Mutant: set_status is an upsert.
SetStatus_Upsert(o, w) ==
  /\ \E active \in BOOLEAN : Write(o, w, [row EXCEPT !.active = active])
  /\ UNCHANGED <<saves, erased>>

\* set_status, which leaves the version alone, and does nothing without a row.
SetStatus(o, w) ==
  /\ \E active \in BOOLEAN :
       Write(o, w, [row EXCEPT !.active = active /\ row.version # 0])
  /\ UNCHANGED <<saves, erased>>

Dropped(w) == [v \in Version |-> Absent]

\* invalidate_resolution, when the database has answered: in this process only.
Invalidate(o) ==
  /\ At(o, "invalidate")
  /\ res' = [res EXCEPT ![call[o].worker] = Dropped(call[o].worker)]
  /\ Finish(o)
  /\ Silent
  /\ UNCHANGED <<keyed, row, saves, writes, erased, ptr1, ptr2>>

-----------------------------------------------------------------------------
\* The pointers expire a minute after they were set.
ExpireL1(w) ==
  /\ ptr1[w] # Absent
  /\ ptr1' = [ptr1 EXCEPT ![w] = Absent]
  /\ Silent
  /\ UNCHANGED <<keyed, row, saves, writes, erased, res, ptr2, call>>

ExpireL2 ==
  /\ ptr2 # Absent
  /\ ptr2' = Absent
  /\ Silent
  /\ UNCHANGED <<keyed, row, saves, writes, erased, res, ptr1, call>>

Keyed == IF "nokey" \in Faults THEN BOOLEAN ELSE {TRUE}

\* A worker dies and another takes its place.
Restart(w) ==
  /\ "crash" \in Faults
  /\ \E k \in Keyed : keyed' = [keyed EXCEPT ![w] = k]
  /\ res' = [res EXCEPT ![w] = [v \in Version |-> Absent]]
  /\ ptr1' = [ptr1 EXCEPT ![w] = Absent]
  /\ call' = [o \in Op |-> IF call[o].worker = w THEN Idle ELSE call[o]]
  /\ Silent
  /\ UNCHANGED <<row, saves, writes, erased, ptr2>>

-----------------------------------------------------------------------------
Init ==
  /\ keyed \in [Worker -> Keyed]
  /\ row = NoRow /\ saves = 0 /\ writes = 0 /\ erased = 0
  /\ res = [w \in Worker |-> [v \in Version |-> Absent]]
  /\ ptr1 = [w \in Worker |-> Absent] /\ ptr2 = Absent
  /\ call = [o \in Op |-> Idle]
  /\ answer = NoAnswer

Handle(o) ==
  GetPointer(o) \/ Promote(o) \/ Load(o) \/ Store(o) \/ SetPointer(o) \/ Invalidate(o)

Next ==
  \/ \E o \in Op : Handle(o)
  \/ \E o \in Op, w \in Worker :
       Resolve(o, w) \/ SetConfig(o, w) \/ DeleteConfig(o, w) \/ SetStatus(o, w)
  \/ \E w \in Worker : ExpireL1(w) \/ Restart(w)
  \/ ExpireL2

Spec == Init /\ [][Next]_vars

\* Calls go on and pointers expire; nobody has to ask for a key.
FairSpec ==
  /\ Spec
  /\ \A o \in Op : WF_vars(Handle(o))
  /\ \A w \in Worker : WF_vars(ExpireL1(w))
  /\ WF_vars(ExpireL2)

-----------------------------------------------------------------------------
CallRow ==
  [pc : {"idle", "l2get", "promote", "load", "store", "l2set", "invalidate"},
   worker : Worker \cup {NoWorker}, version : Version \cup {Absent}, key : Key \cup {Absent}]

TypeOK ==
  /\ keyed \in [Worker -> BOOLEAN]
  /\ row \in [version : Version, key : Key, active : BOOLEAN]
  /\ row.active => row.version # 0
  /\ saves \in 0..MaxWrites /\ writes \in 0..MaxWrites
  /\ saves <= writes /\ row.version <= saves /\ erased \in 0..saves
  /\ res \in [Worker -> [Version -> Key \cup {Absent}]]
  /\ ptr1 \in [Worker -> Version \cup {Absent}]
  /\ ptr2 \in Version \cup {Absent}
  /\ call \in [Op -> CallRow]
  /\ \A o \in Op : ~At(o, "idle") => call[o].worker \in Worker
  /\ \A o \in Op : call[o].pc \in {"promote", "store", "l2set"} => call[o].version \in Version
  /\ \A o \in Op : call[o].pc \in {"store", "l2set"} => call[o].key \in Key
  /\ answer \in Key \cup {Failed, NoAnswer}

\* No row was deleted yet after it was saved.
Undeleted == erased = 0

\* resolver.py: until a row is deleted, whatever a worker holds under a version is the
\* key that was saved with that version, in every interleaving of loads with saves, so
\* a pointer to the newest version can only lead to the newest key.
VersionNamesKey ==
  Undeleted => \A w \in Worker, v \in Version : res[w][v] \in {v, Absent}

\* byok.py, "Every write bumps key_version (the resolver's cache-invalidation pointer)
\* and drops cached resolutions immediately": once writes stop, the answers become and
\* stay what the row says.  A call that only read the database once more does not count.
AnswersSettle == <>[](answer \in {NoAnswer, EffectiveKey})

\* resolver.py, "plaintext keys live here for at most the TTL window": once writes stop,
\* a key that was replaced leaves the memory of every worker.
ReplacedKeysAgeOut ==
  <>[](\A w \in Worker, v \in Version : res[w][v] \in {Absent, Platform, EffectiveKey})

\* resolver.py, "the platform key is used ONLY when no tenant configuration exists (or
\* its status is disabled)": a load that fails does not turn to the platform's key.
PlatformOnlyUnconfigured == answer = Platform => ~row.active

\* resolver.py, "a row that cannot be decrypted (missing platform encryption key) raises
\* BYOKNotConfiguredError": a tenant without a row is not refused.
RefusedOnlyConfigured == answer = Failed => row.version # 0
=============================================================================
