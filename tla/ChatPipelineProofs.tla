------------------------- MODULE ChatPipelineProofs -------------------------
(***************************************************************************)
(* Theorems of ChatPipeline, for any sets of requests, workers, tenants,   *)
(* roles and queries, any window, any rules and any number of faults.      *)
(*                                                                         *)
(* RowsOfQuery is not inductive: what a request gets from a cache must     *)
(* have been put there under the right slot.  The strengthening says so of *)
(* every entry of both caches, and that a request which is past the gate   *)
(* holds a query that its role may run.                                    *)
(*                                                                         *)
(* Nor are TurnsKept and HistoryIsPast: the strengthening says at every    *)
(* step of a request what it has said so far, and that its prompt is a     *)
(* stretch of a log which only grows behind that stretch.                  *)
(***************************************************************************)
EXTENDS ChatPipeline, SequenceTheorems, TLAPS

LEMMA PutType ==
  ASSUME NEW X, NEW V, NEW f \in [X -> V], NEW x \in X, NEW value \in V
  PROVE  /\ Put(f, x, value) \in [X -> V]
         /\ Put(f, x, value)[x] = value
         /\ \A y \in X : y # x => Put(f, x, value)[y] = f[y]
BY DEF Put

LEMMA PlaceType ==
  ASSUME ask \in [Request -> Asks], NEW r \in Request
  PROVE  /\ Place(r) \in Conversation
         /\ ask[r].tenant \in Tenant /\ ask[r].role \in Role
         /\ ask[r].worker \in Worker /\ ask[r].stream \in BOOLEAN
BY ChatAssumption DEF Place, Conversation

LEMMA RecentType ==
  ASSUME NEW turns \in Seq(Turn)
  PROVE  Recent(turns) \in Seq(Turn) /\ Len(Recent(turns)) <= Window
<1> DEFINE low == IF Len(turns) > Window THEN Len(turns) - Window + 1 ELSE 1
<1>1. Window \in Nat \ {0} /\ Len(turns) \in Nat
  BY ChatAssumption, LenProperties
<1>2. low \in Int /\ 1 <= low /\ Len(turns) - low + 1 <= Window
  BY <1>1
<1>3. \A i \in low..Len(turns) : turns[i] \in Turn
  BY <1>1, <1>2, ElementOfSeq
<1>4. Recent(turns) = SubSeq(turns, low, Len(turns))
  BY DEF Recent
<1> HIDE DEF low
<1>5. /\ SubSeq(turns, low, Len(turns)) \in Seq(Turn)
      /\ Len(SubSeq(turns, low, Len(turns))) =
           IF low <= Len(turns) THEN Len(turns) - low + 1 ELSE 0
  BY <1>1, <1>2, <1>3, SubSeqProperties
<1> QED
  BY <1>1, <1>2, <1>4, <1>5

-----------------------------------------------------------------------------
\* The types of what steers a request, and what its step says of its query and
\* its reply.
Control ==
  /\ pc \in [Request -> Step]
  /\ ask \in [Request -> Asks]
  /\ sql \in [Request -> Sql \cup {NoSql}]
  /\ rows \in [Request -> Row \cup {NoRows}]
  /\ reply \in [Request -> Status \cup {"none"}]
  /\ \A r \in Request :
       /\ pc[r] \in {"answer", "tell"} => reply[r] \in Status
       /\ pc[r] \in {"validate", "lookup", "fetch"} => sql[r] \in Sql
       /\ reply[r] = "confirmation_required" => sql[r] \in Sql

Cached ==
  /\ l1 \in [Worker -> [Slot -> Row \cup {NoRows}]]
  /\ l2 \in [Slot -> Row \cup {NoRows}]
  /\ shown \in [Conversation -> SUBSET Sql]
  /\ blind \subseteq Request

Talk ==
  /\ history \in [Request -> Seq(Turn)]
  /\ \A r \in Request : Len(history[r]) <= Window
  /\ chats \subseteq Conversation
  /\ log \in [Conversation -> Seq(Turn)]
  /\ lost \in [Request -> SUBSET (Status \cup {"question"})]
  /\ faults \in 0..MaxFaults

Types == Control /\ Cached /\ Talk

LEMMA InitTypes == Init => Types
<1> SUFFICES ASSUME Init PROVE Types
  OBVIOUS
<1> USE ChatAssumption DEF Init
<1>1. Control
  BY DEF Control, Step
<1>2. Cached
  BY DEF Cached
<1>3. Talk
  <2>1. <<>> \in Seq(Turn) /\ Len(<<>>) = 0
    BY EmptySeq
  <2> QED
    BY <2>1 DEF Talk, Conversation
<1> QED
  BY <1>1, <1>2, <1>3 DEF Types

\* A slot of a request at the cache, and the rows it can have.
LEMMA SlotType ==
  ASSUME Control, NEW r \in Request, sql[r] \in Sql
  PROVE  /\ SlotOf(r) \in Slot
         /\ [sql |-> sql[r], tenant |-> ask[r].tenant] \in Row
<1>1. ask[r].tenant \in Tenant
  BY PlaceType DEF Control
<1> QED
  BY <1>1 DEF SlotOf, Slot, Row

LEMMA ConcludeControl ==
  ASSUME Control, NEW r \in Request, NEW status \in Status, Conclude(r, status),
         status = "confirmation_required" => sql[r] \in Sql,
         UNCHANGED <<ask, sql>>, rows' \in [Request -> Row \cup {NoRows}]
  PROVE  Control'
BY DEF Control, Conclude, Go, Put, Step, Status

LEMMA GoControl ==
  ASSUME Control, NEW r \in Request, NEW step \in Step, Go(r, step),
         step \in {"answer", "tell"} => reply[r] \in Status,
         step \in {"validate", "lookup", "fetch"} => sql[r] \in Sql,
         UNCHANGED <<ask, sql, rows, reply>>
  PROVE  Control'
BY DEF Control, Go, Step

LEMMA PresentControl ==
  ASSUME Control, NEW r \in Request, NEW found \in Row \cup {NoRows}, Present(r, found),
         UNCHANGED <<ask, sql>>
  PROVE  Control'
<1> DEFINE status == IF found = NoRows \/ (ask[r].stream /\ found.sql \in Empty)
                     THEN "no_data" ELSE "complete"
<1>1. Conclude(r, status) /\ rows' = Put(rows, r, found)
  BY DEF Present
<1>2. status \in Status /\ status # "confirmation_required"
  BY DEF Status
<1>3. rows' \in [Request -> Row \cup {NoRows}]
  BY <1>1, PutType DEF Control
<1> HIDE DEF status
<1> QED
  BY <1>1, <1>2, <1>3, ConcludeControl

LEMMA ControlStep ==
  ASSUME Types, [Next]_vars
  PROVE  Control'
<1> USE DEF Types
<1>1. ASSUME NEW r \in Request, Ask(r) PROVE Control'
  BY <1>1, GoControl DEF Ask, Step
<1>2. ASSUME NEW r \in Request, History(r) PROVE Control'
  BY <1>2, GoControl DEF History, Step
<1>3. ASSUME NEW r \in Request, Question(r) PROVE Control'
  BY <1>3, GoControl DEF Question, Step
<1>4. ASSUME NEW r \in Request, Generate(r) PROVE Control'
  <2>1. CASE (Conclude(r, "complete") \/ Conclude(r, "no_sql")) /\ UNCHANGED sql
    BY <1>4, <2>1, ConcludeControl DEF Generate, Control, Status
  <2>2. ASSUME NEW s \in Sql, sql' = Put(sql, r, s), Go(r, "validate"), UNCHANGED reply
        PROVE  Control'
    BY <1>4, <2>2 DEF Generate, Control, Go, Put, Step
  <2> QED
    BY <1>4, <2>1, <2>2 DEF Generate
<1>5. ASSUME NEW r \in Request, Validate(r) PROVE Control'
  <2>1. sql[r] \in Sql /\ UNCHANGED <<ask, sql, rows>>
    BY <1>5 DEF Validate, At, Control
  <2>2. CASE Conclude(r, "validation_failed") \/ Conclude(r, "confirmation_required")
    BY <2>1, <2>2, ConcludeControl DEF Control, Status
  <2>3. CASE Go(r, "lookup") /\ UNCHANGED reply
    BY <2>1, <2>3, GoControl DEF Step
  <2> QED
    BY <1>5, <2>2, <2>3 DEF Validate
<1>6. ASSUME NEW r \in Request, Lookup(r) PROVE Control'
  <2>1. sql[r] \in Sql /\ UNCHANGED <<ask, sql>>
    BY <1>6 DEF Lookup, At, Control
  <2>2. SlotOf(r) \in Slot /\ ask[r].worker \in Worker
    BY <2>1, SlotType, PlaceType DEF Control
  <2>3. /\ l1[ask[r].worker][SlotOf(r)] \in Row \cup {NoRows}
        /\ l2[SlotOf(r)] \in Row \cup {NoRows}
    BY <2>2 DEF Cached
  <2>4. CASE Present(r, l1[ask[r].worker][SlotOf(r)]) \/ Present(r, l2[SlotOf(r)])
    BY <2>1, <2>3, <2>4, PresentControl
  <2>5. CASE Go(r, "fetch") /\ UNCHANGED <<rows, reply>>
    BY <2>1, <2>5, GoControl DEF Step
  <2> QED
    BY <1>6, <2>4, <2>5 DEF Lookup
<1>7. ASSUME NEW r \in Request, Fetch(r) PROVE Control'
  <2>1. sql[r] \in Sql /\ UNCHANGED <<ask, sql>>
    BY <1>7 DEF Fetch, At, Control
  <2>2. [sql |-> sql[r], tenant |-> ask[r].tenant] \in Row
    BY <2>1, SlotType
  <2>3. Present(r, [sql |-> sql[r], tenant |-> ask[r].tenant]) \/ Present(r, NoRows)
    BY <1>7 DEF Fetch
  <2> QED
    BY <2>1, <2>2, <2>3, PresentControl
<1>8. ASSUME NEW r \in Request, Answer(r) PROVE Control'
  <2>1. reply[r] \in Status
    BY <1>8 DEF Answer, At, Control
  <2> QED
    BY <1>8, <2>1, GoControl DEF Answer, Step
<1>9. ASSUME NEW r \in Request, Tell(r) PROVE Control'
  BY <1>9, GoControl DEF Tell, Step
<1>10. ASSUME NEW r \in Request, Leave(r) PROVE Control'
  BY <1>10, GoControl DEF Leave, Step
<1>11. ASSUME NEW w \in Worker, Crash(w) PROVE Control'
  BY <1>11 DEF Crash, Control, Step, Running
<1>12. CASE UNCHANGED vars
  BY <1>12 DEF vars, Control
<1> QED
  BY <1>1, <1>2, <1>3, <1>4, <1>5, <1>6, <1>7, <1>8, <1>9, <1>10, <1>11, <1>12
  DEF Next, Work

LEMMA CachedStep ==
  ASSUME Types, [Next]_vars
  PROVE  Cached'
<1> USE DEF Types
<1>1. ASSUME NEW r \in Request, Lookup(r) PROVE Cached'
  <2>1. SlotOf(r) \in Slot /\ ask[r].worker \in Worker
    BY <1>1, SlotType, PlaceType DEF Control, Lookup, At
  <2>2. l2[SlotOf(r)] \in Row \cup {NoRows}
    BY <2>1 DEF Cached
  <2>3. UNCHANGED <<l2, shown, blind>>
    BY <1>1 DEF Lookup, past
  <2>4. \/ UNCHANGED l1
        \/ l1' = [l1 EXCEPT ![ask[r].worker][SlotOf(r)] = l2[SlotOf(r)]]
        \/ l1' = [l1 EXCEPT ![ask[r].worker][SlotOf(r)] = NoRows]
    BY <1>1 DEF Lookup
  <2> QED
    BY <2>1, <2>2, <2>3, <2>4 DEF Cached
<1>2. ASSUME NEW r \in Request, Fetch(r) PROVE Cached'
  <2> DEFINE found == [sql |-> sql[r], tenant |-> ask[r].tenant]
  <2>1. SlotOf(r) \in Slot /\ found \in Row /\ ask[r].worker \in Worker
    BY <1>2, SlotType, PlaceType DEF Control, Fetch, At
  <2>2. \/ /\ l1' = [l1 EXCEPT ![ask[r].worker][SlotOf(r)] = found]
           /\ l2' = [l2 EXCEPT ![SlotOf(r)] = found] \/ UNCHANGED l2
        \/ UNCHANGED <<l1, l2>>
    BY <1>2 DEF Fetch, Put, cache
  <2>3. UNCHANGED <<shown, blind>>
    BY <1>2 DEF Fetch, past
  <2> HIDE DEF found
  <2> QED
    BY <2>1, <2>2, <2>3 DEF Cached
<1>3. ASSUME NEW r \in Request, Validate(r) PROVE Cached'
  <2>1. UNCHANGED <<l1, l2, shown>> /\ (UNCHANGED blind \/ blind' = blind \cup {r})
    BY <1>3 DEF Validate, cache
  <2> QED
    BY <2>1 DEF Cached
<1>4. ASSUME NEW r \in Request, Tell(r) PROVE Cached'
  <2>1. Place(r) \in Conversation
    BY PlaceType DEF Control
  <2>2. reply[r] = "confirmation_required" => shown[Place(r)] \cup {sql[r]} \in SUBSET Sql
    BY <2>1 DEF Cached, Control
  <2> QED
    BY <1>4, <2>1, <2>2, PutType DEF Tell, Cached, cache
<1>5. ASSUME NEW w \in Worker, Crash(w) PROVE Cached'
  BY <1>5 DEF Crash, Cached, Put, past
<1>6. CASE UNCHANGED <<l1, l2, shown, blind>>
  BY <1>6 DEF Cached
<1>7. ASSUME NEW r \in Request,
             Ask(r) \/ History(r) \/ Question(r) \/ Generate(r) \/ Answer(r) \/ Leave(r)
      PROVE  UNCHANGED <<l1, l2, shown, blind>>
  BY <1>7 DEF Ask, History, Question, Generate, Answer, Leave, cache, past
<1> QED
  BY <1>1, <1>2, <1>3, <1>4, <1>5, <1>6, <1>7 DEF Next, Work, vars, cache, past

LEMMA FailType ==
  ASSUME faults \in 0..MaxFaults, NEW kind, Fail(kind)
  PROVE  faults' \in 0..MaxFaults
BY ChatAssumption DEF Fail

LEMMA PersistTalk ==
  ASSUME Control, Talk, NEW r \in Request, NEW content \in Status \cup {"question"},
         Persist(r, content), UNCHANGED history
  PROVE  Talk'
<1>1. Place(r) \in Conversation
  BY PlaceType DEF Control
<1>2. [of |-> r, content |-> content] \in Turn
  BY DEF Turn
<1>3. log[Place(r)] \in Seq(Turn)
  BY <1>1 DEF Talk
<1>4. Append(log[Place(r)], [of |-> r, content |-> content]) \in Seq(Turn)
  BY <1>2, <1>3, AppendProperties
<1>5. log' \in [Conversation -> Seq(Turn)]
  BY <1>1, <1>4 DEF Persist, Put, Talk
<1>6. lost' \in [Request -> SUBSET (Status \cup {"question"})]
  BY DEF Persist, Put, Talk
<1>7. faults' \in 0..MaxFaults /\ chats' = chats
  BY FailType DEF Persist, Talk
<1> QED
  BY <1>5, <1>6, <1>7 DEF Talk

LEMMA TalkStep ==
  ASSUME Types, [Next]_vars
  PROVE  Talk'
<1> USE DEF Types
<1>1. ASSUME NEW r \in Request, Ask(r) PROVE Talk'
  <2>1. faults' \in 0..MaxFaults /\ UNCHANGED <<history, log, lost>>
    BY <1>1, FailType DEF Ask, Talk
  <2>2. chats' \subseteq Conversation
    BY <1>1 DEF Ask, Talk, Conversation
  <2> QED
    BY <2>1, <2>2 DEF Talk
<1>2. ASSUME NEW r \in Request, History(r) PROVE Talk'
  <2>1. faults' \in 0..MaxFaults /\ UNCHANGED <<chats, log, lost>>
    BY <1>2, FailType DEF History, Talk, conversation
  <2>2. log[Place(r)] \in Seq(Turn)
    BY PlaceType DEF Control, Talk
  <2>3. Recent(log[Place(r)]) \in Seq(Turn) /\ Len(Recent(log[Place(r)])) <= Window
    BY <2>2, RecentType
  <2>4. history' = [history EXCEPT ![r] = Recent(log[Place(r)])] \/ UNCHANGED history
    BY <1>2 DEF History, Put
  <2> QED
    BY <2>1, <2>3, <2>4 DEF Talk
<1>3. ASSUME NEW r \in Request, Question(r) PROVE Talk'
  BY <1>3, PersistTalk DEF Question
<1>4. ASSUME NEW r \in Request, Answer(r) PROVE Talk'
  BY <1>4, PersistTalk DEF Answer, At, Control
<1>5. ASSUME NEW r \in Request, Validate(r) \/ Leave(r) PROVE Talk'
  BY <1>5, FailType DEF Validate, Leave, Talk, conversation
<1>6. ASSUME NEW w \in Worker, Crash(w) PROVE Talk'
  BY <1>6, FailType DEF Crash, Talk, conversation
<1>7. CASE UNCHANGED <<history, conversation, faults>>
  BY <1>7 DEF Talk, conversation
<1>8. ASSUME NEW r \in Request, Generate(r) \/ Lookup(r) \/ Fetch(r) \/ Tell(r)
      PROVE  UNCHANGED <<history, conversation, faults>>
  BY <1>8 DEF Generate, Lookup, Fetch, Tell
<1> QED
  BY <1>1, <1>2, <1>3, <1>4, <1>5, <1>6, <1>7, <1>8 DEF Next, Work, vars

LEMMA TypesHold == Spec => []Types
<1>1. Init => Types
  BY InitTypes
<1>2. Types /\ [Next]_vars => Types'
  BY ControlStep, CachedStep, TalkStep DEF Types
<1> QED
  BY <1>1, <1>2, PTL DEF Spec

\* Steps, queries, rows, caches and turns keep their types, and no prompt gets
\* more turns than the window, whatever overlaps and fails.
THEOREM TypeCorrect == Spec => []TypeOK
<1>1. Types => TypeOK
  BY DEF Types, Control, Cached, Talk, TypeOK
<1> QED
  BY <1>1, TypesHold, PTL

-----------------------------------------------------------------------------
Fits(row, k) == row.tenant = k[1] /\ Folded[row.sql] = k[2]

\* Request r is past the gate.
Passed(r) ==
  /\ sql[r] \in Allowed[ask[r].role]
  /\ MayRun(r) \/ r \in blind

\* A request at the cache or with rows is past the gate, and its rows are of its
\* own slot; before the cache it has none.
OwnServed(r) ==
  /\ pc[r] \in {"lookup", "fetch"} \/ rows[r] # NoRows => Passed(r)
  /\ rows[r] # NoRows => Fits(rows[r], SlotOf(r))
  /\ pc[r] \in {"idle", "history", "question", "generate", "validate"} => rows[r] = NoRows

\* Cached rows are of their slot.
CacheServed ==
  /\ \A w \in Worker, k \in Slot : l1[w][k] # NoRows => Fits(l1[w][k], k)
  /\ \A k \in Slot : l2[k] # NoRows => Fits(l2[k], k)

Served == CacheServed /\ \A r \in Request : OwnServed(r)

LEMMA InitServed == Init => Served
BY DEF Init, Served, OwnServed, CacheServed

LEMMA FetchedFits ==
  ASSUME NEW r \in Request
  PROVE  Fits([sql |-> sql[r], tenant |-> ask[r].tenant], SlotOf(r))
BY DEF Fits, SlotOf

\* A request whose query and rows stay as they are, and that comes to the cache
\* only through the gate, stays served.
LEMMA SameServed ==
  ASSUME NEW r \in Request, OwnServed(r), UNCHANGED <<ask, sql[r], rows[r]>>,
         blind \subseteq blind',
         pc'[r] \in {"lookup", "fetch"} => pc[r] \in {"lookup", "fetch"} \/ Passed(r)',
         pc'[r] \in {"idle", "history", "question", "generate", "validate"} =>
           pc[r] \in {"idle", "history", "question", "generate", "validate"}
  PROVE  OwnServed(r)'
BY DEF OwnServed, Passed, MayRun, SlotOf

LEMMA PresentServed ==
  ASSUME Types, Served, NEW r \in Request, Passed(r), NEW found \in Row \cup {NoRows},
         found # NoRows => Fits(found, SlotOf(r)),
         Present(r, found), UNCHANGED <<ask, sql, blind>>
  PROVE  \A q \in Request : OwnServed(q)'
<1>1. /\ rows' = [rows EXCEPT ![r] = found]
      /\ pc' = [pc EXCEPT ![r] = "answer"]
  BY DEF Present, Conclude, Go, Put
<1>2. rows'[r] = found /\ pc'[r] = "answer"
  BY <1>1 DEF Types, Control
<1>3. Passed(r)' /\ SlotOf(r)' = SlotOf(r)
  BY DEF Passed, MayRun, SlotOf
<1>4. OwnServed(r)'
  BY <1>2, <1>3 DEF OwnServed
<1>5. ASSUME NEW q \in Request, q # r PROVE OwnServed(q)'
  <2>1. rows'[q] = rows[q] /\ pc'[q] = pc[q] /\ OwnServed(q)
    BY <1>1, <1>5 DEF Served, Types, Control
  <2> QED
    BY <2>1, SameServed
<1> QED
  BY <1>4, <1>5

\* A step of a request that leaves queries and rows alone and does not bring it
\* to the cache.
LEMMA GoServed ==
  ASSUME Types, Served, NEW r \in Request, NEW step \in Step, Go(r, step),
         UNCHANGED <<ask, sql, rows, cache>>, blind \subseteq blind',
         step = "fetch" => At(r, "lookup"),
         step = "lookup" => Passed(r)',
         step \in {"idle", "history", "question", "generate", "validate"} =>
           pc[r] \in {"idle", "history", "question", "generate"}
  PROVE  Served'
<1>1. pc'[r] = step /\ \A q \in Request : q # r => pc'[q] = pc[q]
  BY DEF Go, Types, Control
<1>2. ASSUME NEW q \in Request PROVE OwnServed(q)'
  <2>1. OwnServed(q) /\ UNCHANGED <<ask, sql[q], rows[q]>>
    BY DEF Served
  <2>2. CASE q = r
    BY <1>1, <2>1, <2>2, SameServed DEF At
  <2>3. CASE q # r
    BY <1>1, <2>1, <2>3, SameServed
  <2> QED
    BY <2>2, <2>3
<1>3. CacheServed'
  BY DEF Served, CacheServed, cache, Fits
<1> QED
  BY <1>2, <1>3 DEF Served

LEMMA ServedStep ==
  ASSUME Types, Served, [Next]_vars
  PROVE  Served'
<1>1. ASSUME NEW r \in Request, Ask(r) PROVE Served'
  BY <1>1, GoServed DEF Ask, At, Step, past
<1>2. ASSUME NEW r \in Request, History(r) PROVE Served'
  BY <1>2, GoServed DEF History, At, Step, past
<1>3. ASSUME NEW r \in Request, Question(r) PROVE Served'
  BY <1>3, GoServed DEF Question, At, Step, past
<1>4. ASSUME NEW r \in Request, Generate(r) PROVE Served'
  <2>1. UNCHANGED <<ask, rows, cache, blind>> /\ pc[r] = "generate"
    BY <1>4 DEF Generate, At, past
  <2>2. CASE (Conclude(r, "complete") \/ Conclude(r, "no_sql")) /\ UNCHANGED sql
    BY <2>1, <2>2, GoServed DEF Conclude, Step
  <2>3. ASSUME NEW s \in Sql, sql' = Put(sql, r, s), Go(r, "validate") PROVE Served'
    <3>1. pc'[r] = "validate" /\ rows'[r] = NoRows
      BY <2>1, <2>3 DEF Go, Types, Control, Served, OwnServed
    <3>2. OwnServed(r)'
      BY <3>1 DEF OwnServed
    <3>3. ASSUME NEW q \in Request, q # r PROVE OwnServed(q)'
      <4>1. pc'[q] = pc[q] /\ sql'[q] = sql[q] /\ OwnServed(q)
        BY <2>3, <3>3 DEF Go, Put, Types, Control, Served
      <4> QED
        BY <2>1, <4>1, SameServed
    <3>4. CacheServed'
      BY <2>1 DEF Served, CacheServed, cache, Fits
    <3> QED
      BY <3>2, <3>3, <3>4 DEF Served
  <2> QED
    BY <1>4, <2>2, <2>3 DEF Generate
<1>5. ASSUME NEW r \in Request, Validate(r) PROVE Served'
  <2>1. UNCHANGED <<ask, sql, rows, cache>> /\ blind \subseteq blind'
    BY <1>5 DEF Validate
  <2>2. CASE Conclude(r, "validation_failed") \/ Conclude(r, "confirmation_required")
    BY <2>1, <2>2, GoServed DEF Conclude, Step
  <2>3. CASE /\ sql[r] \in Allowed[ask[r].role]
             /\ (MayRun(r) /\ UNCHANGED blind) \/ blind' = blind \cup {r}
             /\ Go(r, "lookup")
    <3>1. Passed(r)'
      BY <2>1, <2>3 DEF Passed, MayRun
    <3> QED
      BY <2>1, <2>3, <3>1, GoServed DEF Step
  <2> QED
    BY <1>5, <2>2, <2>3 DEF Validate
<1>6. ASSUME NEW r \in Request, Lookup(r) PROVE Served'
  <2> DEFINE w == ask[r].worker
             k == SlotOf(r)
  <2>1. /\ UNCHANGED <<ask, sql, l2, blind>>
        /\ pc[r] = "lookup" /\ sql[r] \in Sql /\ Passed(r)
    BY <1>6 DEF Lookup, past, At, Types, Control, Served, OwnServed
  <2>2. k \in Slot /\ w \in Worker
    BY <2>1, SlotType, PlaceType DEF Types, Control
  <2>3. /\ l1[w][k] \in Row \cup {NoRows} /\ l2[k] \in Row \cup {NoRows}
        /\ l1[w][k] # NoRows => Fits(l1[w][k], k)
        /\ l2[k] # NoRows => Fits(l2[k], k)
    BY <2>2 DEF Types, Cached, Served, CacheServed
  <2> HIDE DEF w, k
  <2>4. CASE Present(r, l1[w][k]) /\ UNCHANGED l1
    <3>1. CacheServed'
      BY <2>1, <2>4 DEF Served, CacheServed, Fits
    <3> QED
      BY <2>1, <2>3, <2>4, <3>1, PresentServed DEF Served, k
  <2>5. CASE Present(r, l2[k]) /\ l1' = [l1 EXCEPT ![w][k] = l2[k]]
    <3>1. CacheServed'
      BY <2>1, <2>2, <2>3, <2>5 DEF Served, CacheServed, Fits, Types, Cached
    <3> QED
      BY <2>1, <2>3, <2>5, <3>1, PresentServed DEF Served, k
  <2>6. CASE /\ Go(r, "fetch") /\ UNCHANGED rows
             /\ l1' = [l1 EXCEPT ![w][k] = NoRows]
    <3>1. CacheServed'
      BY <2>1, <2>2, <2>6 DEF Served, CacheServed, Fits, Types, Cached
    <3>2. ASSUME NEW q \in Request PROVE OwnServed(q)'
      <4>1. OwnServed(q) /\ (q = r \/ pc'[q] = pc[q]) /\ pc'[r] = "fetch"
        BY <2>6 DEF Go, Types, Control, Served
      <4> QED
        BY <2>1, <2>6, <4>1, SameServed
    <3> QED
      BY <3>1, <3>2 DEF Served
  <2> QED
    BY <1>6, <2>4, <2>5, <2>6 DEF Lookup, w, k
<1>7. ASSUME NEW r \in Request, Fetch(r) PROVE Served'
  <2> DEFINE w == ask[r].worker
             k == SlotOf(r)
             found == [sql |-> sql[r], tenant |-> ask[r].tenant]
  <2>1. /\ UNCHANGED <<ask, sql, blind>>
        /\ sql[r] \in Sql /\ Passed(r)
    BY <1>7 DEF Fetch, past, At, Types, Control, Served, OwnServed
  <2>2. k \in Slot /\ w \in Worker /\ found \in Row /\ Fits(found, k)
    BY <2>1, SlotType, PlaceType, FetchedFits DEF Types, Control
  <2>3. \/ /\ Present(r, found)
           /\ l1' = [l1 EXCEPT ![w][k] = found]
           /\ l2' = [l2 EXCEPT ![k] = found] \/ UNCHANGED l2
        \/ Present(r, NoRows) /\ UNCHANGED <<l1, l2>>
    BY <1>7 DEF Fetch, Put, cache
  <2> HIDE DEF w, k, found
  <2>4. CacheServed'
    BY <2>2, <2>3 DEF Served, CacheServed, Fits, Types, Cached
  <2>5. \A q \in Request : OwnServed(q)'
    BY <2>1, <2>2, <2>3, PresentServed DEF k
  <2> QED
    BY <2>4, <2>5 DEF Served
<1>8. ASSUME NEW r \in Request, Answer(r) PROVE Served'
  BY <1>8, GoServed DEF Answer, Step, past
<1>9. ASSUME NEW r \in Request, Tell(r) PROVE Served'
  BY <1>9, GoServed DEF Tell, Step
<1>10. ASSUME NEW r \in Request, Leave(r) PROVE Served'
  BY <1>10, GoServed DEF Leave, Step, past
<1>11. ASSUME NEW w \in Worker, Crash(w) PROVE Served'
  <2>1. UNCHANGED <<ask, sql, rows, blind, l2>>
    BY <1>11 DEF Crash, past
  <2>2. ASSUME NEW q \in Request PROVE OwnServed(q)'
    <3>1. OwnServed(q) /\ pc'[q] \in {"gone", pc[q]}
      BY <1>11 DEF Served, Crash
    <3> QED
      BY <2>1, <3>1, SameServed
  <2>3. CacheServed'
    BY <1>11, <2>1 DEF Crash, Put, Served, CacheServed, Fits, Types, Cached
  <2> QED
    BY <2>2, <2>3 DEF Served
<1>12. CASE UNCHANGED vars
  BY <1>12 DEF vars, cache, past, Served, OwnServed, CacheServed, Passed, MayRun, SlotOf, Fits
<1> QED
  BY <1>1, <1>2, <1>3, <1>4, <1>5, <1>6, <1>7, <1>8, <1>9, <1>10, <1>11, <1>12
  DEF Next, Work

LEMMA ServedHolds == Spec => []Served
<1>1. Init => Served
  BY InitServed
<1>2. Types /\ Served /\ [Next]_vars => Served'
  BY ServedStep
<1> QED
  BY <1>1, <1>2, TypesHold, PTL DEF Spec

\* Whichever worker's cache, Redis or the database the rows of a request come
\* from, they were read in its tenant by a query that differs from its own in
\* case and blanks only, and its own is one that its role may run.
THEOREM RowsOfQueryHolds == Spec => []RowsOfQuery
<1>1. Served => RowsOfQuery
  BY DEF Served, OwnServed, Passed, Fits, SlotOf, RowsOfQuery
<1> QED
  BY <1>1, ServedHolds, PTL

\* No large query gets to the cache or to its rows without the flag, unless
\* EXPLAIN gave no estimate of it.
THEOREM LargeAskedHolds == Spec => []LargeAsked
<1>1. Served => LargeAsked
  BY DEF Served, OwnServed, Passed, MayRun, At, LargeAsked
<1> QED
  BY <1>1, ServedHolds, PTL

-----------------------------------------------------------------------------
\* What request r has said so far: nothing before its question is written, then its
\* question, and then its question and its answer.
Spoken(r) ==
  /\ pc[r] \in {"idle", "history", "question"} => lost[r] = {} /\ Left(r, {})
  /\ pc[r] \in {"generate", "validate", "lookup", "fetch", "answer"} =>
       lost[r] \subseteq {"question"} /\ Left(r, {"question"})
  /\ pc[r] \in {"tell", "done"} => Left(r, {"question", reply[r]})
  /\ At(r, "gone") =>
       Left(r, {}) \/ Left(r, {"question"}) \/ Left(r, {"question", reply[r]})

\* The prompt of r was a stretch of its conversation that ended before r said anything.
Remembered(r) ==
  history[r] # <<>> =>
    LET turns == log[Place(r)] IN
    \E i, j \in DOMAIN turns :
      /\ history[r] = SubSeq(turns, i, j)
      /\ \A n \in 1..j : turns[n].of # r

TurnInv == \A r \in Request : Spoken(r) /\ Remembered(r)

LEMMA LogType ==
  ASSUME Types, NEW r \in Request
  PROVE  /\ Place(r) \in Conversation /\ log[Place(r)] \in Seq(Turn)
         /\ DOMAIN log[Place(r)] = 1..Len(log[Place(r)]) /\ Len(log[Place(r)]) \in Nat
<1>1. Place(r) \in Conversation
  BY PlaceType DEF Types, Control
<1>2. log[Place(r)] \in Seq(Turn)
  BY <1>1 DEF Types, Talk
<1> QED
  BY <1>1, <1>2, LenProperties

\* A longer log begins with the shorter one.
LEMMA LongerLog ==
  ASSUME NEW turns \in Seq(Turn), NEW new \in Turn
  PROVE  /\ Append(turns, new) \in Seq(Turn)
         /\ DOMAIN turns = 1..Len(turns) /\ Len(turns) \in Nat
         /\ DOMAIN Append(turns, new) = 1..Len(turns) + 1
         /\ \A i \in 1..Len(turns) : Append(turns, new)[i] = turns[i]
         /\ Append(turns, new)[Len(turns) + 1] = new
<1>1. /\ Append(turns, new) \in Seq(Turn)
      /\ Len(Append(turns, new)) = Len(turns) + 1
      /\ \A i \in 1..Len(turns) : Append(turns, new)[i] = turns[i]
      /\ Append(turns, new)[Len(turns) + 1] = new
  BY AppendProperties
<1> QED
  BY <1>1, LenProperties

\* A stretch of the shorter log is one of the longer.
LEMMA SameStretch ==
  ASSUME NEW turns \in Seq(Turn), NEW new \in Turn, NEW i \in 1..Len(turns), NEW j \in 1..Len(turns)
  PROVE  SubSeq(Append(turns, new), i, j) = SubSeq(turns, i, j)
<1>1. /\ Len(turns) \in Nat
      /\ \A n \in 1..Len(turns) : Append(turns, new)[n] = turns[n] /\ turns[n] \in Turn
  BY LongerLog, ElementOfSeq
<1>2. \A n \in i..j : turns[n] \in Turn /\ Append(turns, new)[n] \in Turn
  BY <1>1
<1> DEFINE long == SubSeq(Append(turns, new), i, j)
           short == SubSeq(turns, i, j)
<1>3. /\ long \in Seq(Turn) /\ Len(long) = IF i <= j THEN j - i + 1 ELSE 0
      /\ \A n \in 1..j - i + 1 : long[n] = Append(turns, new)[i + n - 1]
  BY <1>2, SubSeqProperties
<1>4. /\ short \in Seq(Turn) /\ Len(short) = IF i <= j THEN j - i + 1 ELSE 0
      /\ \A n \in 1..j - i + 1 : short[n] = turns[i + n - 1]
  BY <1>2, SubSeqProperties
<1>5. \A n \in 1..Len(long) : long[n] = short[n]
  <2> SUFFICES ASSUME NEW n \in 1..Len(long) PROVE long[n] = short[n]
    OBVIOUS
  <2>1. i <= j /\ n \in 1..j - i + 1
    BY <1>3
  <2>2. i + n - 1 \in 1..Len(turns)
    BY <1>1, <2>1
  <2> QED
    BY <1>1, <1>3, <1>4, <2>1, <2>2
<1> HIDE DEF long, short
<1>6. long = short
  BY <1>3, <1>4, <1>5, SeqEqual
<1> QED
  BY <1>6 DEF long, short

\* What r has said and remembers does not change when r says nothing.
LEMMA SameLeft ==
  ASSUME Types, NEW r \in Request, NEW contents, UNCHANGED <<ask, lost[r]>>,
         \/ log'[Place(r)] = log[Place(r)]
         \/ \E new \in Turn : new.of # r /\ log'[Place(r)] = Append(log[Place(r)], new)
  PROVE  Left(r, contents)' = Left(r, contents)
<1> DEFINE turns == log[Place(r)]
           mine == {i \in DOMAIN turns : turns[i].of = r}
<1>1. Place(r)' = Place(r)
  BY DEF Place
<1>2. CASE log'[Place(r)] = turns
  BY <1>1, <1>2 DEF Left
<1>3. ASSUME NEW new \in Turn, new.of # r, log'[Place(r)] = Append(turns, new)
      PROVE  Left(r, contents)' = Left(r, contents)
  <2>1. turns \in Seq(Turn)
    BY LogType
  <2>2. mine' = mine /\ \A i \in mine : turns'[i] = turns[i]
    BY <1>1, <1>3, <2>1, LongerLog
  <2>3. {turns'[i].content : i \in mine'} = {turns[i].content : i \in mine}
    BY <2>2
  <2>4. Left(r, contents) =
          (/\ {turns[i].content : i \in mine} = contents \ lost[r]
           /\ \A i, j \in mine :
                i < j => turns[i].content = "question" /\ turns[j].content # "question")
    BY DEF Left
  <2>5. Left(r, contents)' =
          (/\ {turns'[i].content : i \in mine'} = contents \ lost[r]
           /\ \A i, j \in mine' :
                i < j => turns'[i].content = "question" /\ turns'[j].content # "question")
    BY <1>1 DEF Left
  <2> QED
    BY <2>2, <2>3, <2>4, <2>5
<1> QED
  BY <1>2, <1>3

LEMMA SameRemembered ==
  ASSUME Types, NEW r \in Request, Remembered(r), UNCHANGED <<ask, history[r]>>,
         \/ log'[Place(r)] = log[Place(r)]
         \/ \E new \in Turn : log'[Place(r)] = Append(log[Place(r)], new)
  PROVE  Remembered(r)'
<1>1. Place(r)' = Place(r)
  BY DEF Place
<1>2. CASE log'[Place(r)] = log[Place(r)]
  BY <1>1, <1>2 DEF Remembered
<1>3. ASSUME NEW new \in Turn, log'[Place(r)] = Append(log[Place(r)], new), history[r] # <<>>
      PROVE  Remembered(r)'
  <2> DEFINE turns == log[Place(r)]
  <2>1. turns \in Seq(Turn)
    BY LogType
  <2>2. PICK i \in DOMAIN turns, j \in DOMAIN turns :
          history[r] = SubSeq(turns, i, j) /\ \A n \in 1..j : turns[n].of # r
    BY <1>3 DEF Remembered
  <2>3. /\ i \in 1..Len(turns) /\ j \in 1..Len(turns) /\ Len(turns) \in Nat
        /\ DOMAIN Append(turns, new) = 1..Len(turns) + 1
        /\ \A n \in 1..Len(turns) : Append(turns, new)[n] = turns[n]
    BY <2>1, LongerLog
  <2>4. SubSeq(Append(turns, new), i, j) = SubSeq(turns, i, j)
    BY <2>1, <2>3, SameStretch
  <2>5. i \in DOMAIN Append(turns, new) /\ j \in DOMAIN Append(turns, new)
    BY <2>3
  <2>6. \A n \in 1..j : Append(turns, new)[n].of # r
    BY <2>2, <2>3
  <2> QED
    BY <1>1, <1>3, <2>2, <2>4, <2>5, <2>6 DEF Remembered
<1>4. CASE history[r] = <<>>
  BY <1>4 DEF Remembered
<1> QED
  BY <1>2, <1>3, <1>4

\* A step in which r writes nothing: what it has said fits the step it is at.
LEMMA SilentStep ==
  ASSUME Types, TurnInv, NEW r \in Request, UNCHANGED <<ask, lost[r], history[r]>>,
         \/ log'[Place(r)] = log[Place(r)]
         \/ \E new \in Turn : new.of # r /\ log'[Place(r)] = Append(log[Place(r)], new),
         \/ pc'[r] = pc[r] /\ (reply'[r] = reply[r] \/ ~(pc[r] \in {"tell", "done", "gone"}))
         \/ pc[r] \notin {"done", "gone"} /\ pc'[r] = "gone" /\ reply'[r] = reply[r]
         \/ /\ pc[r] \in {"idle", "history", "question"}
            /\ pc'[r] \in {"idle", "history", "question"}
         \/ /\ pc[r] \in {"generate", "validate", "lookup", "fetch", "answer"}
            /\ pc'[r] \in {"generate", "validate", "lookup", "fetch", "answer"}
         \/ pc[r] = "tell" /\ pc'[r] = "done" /\ reply'[r] = reply[r]
  PROVE  Spoken(r)' /\ Remembered(r)'
<1>1. Spoken(r) /\ Remembered(r) /\ pc[r] \in Step
  BY DEF TurnInv, Types, Control
<1>2. Remembered(r)'
  BY <1>1, SameRemembered
<1>3. ASSUME NEW contents PROVE Left(r, contents)' = Left(r, contents)
  BY SameLeft
<1>4. Left(r, {})' = Left(r, {}) /\ Left(r, {"question"})' = Left(r, {"question"})
  BY <1>3
<1>5. ASSUME reply'[r] = reply[r]
      PROVE  Left(r, {"question", reply[r]})' = Left(r, {"question", reply[r]})
  <2>1. PICK contents : contents = {"question", reply[r]} /\ contents = {"question", reply'[r]}
    BY <1>5
  <2>2. /\ Left(r, contents) = Left(r, {"question", reply[r]})
        /\ Left(r, contents)' = Left(r, {"question", reply[r]})'
    BY <2>1 DEF Left
  <2> QED
    BY <2>2, <1>3
<1> QED
  BY <1>1, <1>2, <1>4, <1>5 DEF Spoken, At, Step

\* A turn that r writes is the last of its conversation.
LEMMA WroteLeft ==
  ASSUME Types, NEW r \in Request, NEW content \in Status \cup {"question"}, UNCHANGED ask,
         log'[Place(r)] = Append(log[Place(r)], [of |-> r, content |-> content]),
         lost'[r] = lost[r], content \notin lost[r],
         NEW said, Left(r, said), said \subseteq {"question"},
         content # "question" \/ said = {}, content # "question" \/ lost[r] = {}
  PROVE  Left(r, said \cup {content})'
<1> DEFINE turns == log[Place(r)]
           mine == {i \in DOMAIN turns : turns[i].of = r}
           new == [of |-> r, content |-> content]
<1>1. Place(r)' = Place(r) /\ new \in Turn /\ new.of = r /\ new.content = content
  BY DEF Place, Turn
<1>2. /\ Len(turns) \in Nat /\ DOMAIN turns = 1..Len(turns)
      /\ DOMAIN turns' = 1..Len(turns) + 1
      /\ \A i \in 1..Len(turns) : turns'[i] = turns[i]
      /\ turns'[Len(turns) + 1] = new
  BY <1>1, LogType, LongerLog
<1>3. mine' = mine \cup {Len(turns) + 1} /\ \A i \in mine : turns'[i] = turns[i]
  BY <1>1, <1>2
<1>4. /\ {turns[i].content : i \in mine} = said \ lost[r]
      /\ \A i, j \in mine :
           i < j => turns[i].content = "question" /\ turns[j].content # "question"
  BY DEF Left
<1>5. {turns'[i].content : i \in mine'} = {turns[i].content : i \in mine} \cup {content}
  BY <1>1, <1>2, <1>3
<1>6. \A i \in mine : turns[i].content = "question" /\ content # "question"
  <2> SUFFICES ASSUME NEW i \in mine
               PROVE  turns[i].content = "question" /\ content # "question"
    OBVIOUS
  <2>1. turns[i].content \in {turns[k].content : k \in mine}
    OBVIOUS
  <2> HIDE DEF mine, turns
  <2>2. turns[i].content \in said
    BY <1>4, <2>1
  <2> QED
    BY <2>2
<1>7. \A i, j \in mine' :
        i < j => turns'[i].content = "question" /\ turns'[j].content # "question"
  BY <1>1, <1>2, <1>3, <1>4, <1>6
<1>8. {turns'[i].content : i \in mine'} = (said \cup {content}) \ lost'[r]
  BY <1>4, <1>5
<1> QED
  BY <1>1, <1>7, <1>8 DEF Left

\* A turn of r that is lost, which the conversation does not show.
LEMMA LostLeft ==
  ASSUME Types, NEW r \in Request, NEW content, UNCHANGED <<ask, log>>,
         lost'[r] = lost[r] \cup {content}, NEW said, Left(r, said), content \notin said
  PROVE  Left(r, said \cup {content})'
<1>1. Place(r)' = Place(r)
  BY DEF Place
<1>2. (said \cup {content}) \ lost'[r] = said \ lost[r]
  OBVIOUS
<1> QED
  BY <1>1, <1>2 DEF Left

\* The question, or the answer, is written or lost.
LEMMA PersistStep ==
  ASSUME Types, TurnInv, NEW r \in Request, NEW content \in Status \cup {"question"},
         Persist(r, content), UNCHANGED <<ask, history, reply>>,
         \/ pc[r] = "question" /\ content = "question" /\ Go(r, "generate")
         \/ pc[r] = "answer" /\ content = reply[r] /\ Go(r, "tell")
  PROVE  TurnInv'
<1>1. /\ pc \in [Request -> Step] /\ ask \in [Request -> Asks]
      /\ lost \in [Request -> SUBSET (Status \cup {"question"})]
      /\ log \in [Conversation -> Seq(Turn)] /\ Place(r) \in Conversation
  BY LogType DEF Types, Control, Talk
<1>2. [of |-> r, content |-> content] \in Turn /\ [of |-> r, content |-> content].of = r
  BY DEF Turn
<1>3. \/ /\ log' = [log EXCEPT ![Place(r)] = Append(@, [of |-> r, content |-> content])]
         /\ lost' = lost
      \/ log' = log /\ lost' = [lost EXCEPT ![r] = @ \cup {content}]
  BY DEF Persist, Put
<1>4. ASSUME NEW q \in Request, q # r PROVE Spoken(q)' /\ Remembered(q)'
  <2>1. UNCHANGED <<ask, lost[q], history[q], pc[q], reply[q]>>
    BY <1>1, <1>3, <1>4 DEF Go
  <2>2. \/ log'[Place(q)] = log[Place(q)]
        \/ log'[Place(q)] = Append(log[Place(q)], [of |-> r, content |-> content])
    BY <1>1, <1>3, LogType
  <2>3. \/ log'[Place(q)] = log[Place(q)]
        \/ \E new \in Turn : new.of # q /\ log'[Place(q)] = Append(log[Place(q)], new)
    BY <1>2, <1>4, <2>2
  <2> QED
    BY <2>1, <2>3, SilentStep
<1>5. Remembered(r)'
  <2>1. \/ log'[Place(r)] = log[Place(r)]
        \/ \E new \in Turn : log'[Place(r)] = Append(log[Place(r)], new)
    BY <1>1, <1>2, <1>3
  <2> QED
    BY <2>1, SameRemembered DEF TurnInv
<1>6. ASSUME NEW said, Left(r, said), said \subseteq {"question"}, content \notin lost[r],
             content # "question" \/ said = {}, content # "question" \/ lost[r] = {},
             content \notin said
      PROVE  Left(r, said \cup {content})'
  <2>1. CASE /\ log' = [log EXCEPT ![Place(r)] = Append(@, [of |-> r, content |-> content])]
             /\ lost' = lost
    <3>1. log'[Place(r)] = Append(log[Place(r)], [of |-> r, content |-> content])
      BY <1>1, <2>1
    <3> QED
      BY <1>6, <2>1, <3>1, WroteLeft
  <2>2. CASE log' = log /\ lost' = [lost EXCEPT ![r] = @ \cup {content}]
    <3>1. lost'[r] = lost[r] \cup {content}
      BY <1>1, <2>2
    <3> QED
      BY <1>6, <2>2, <3>1, LostLeft
  <2> QED
    BY <1>3, <2>1, <2>2
<1>7. Spoken(r) /\ Left(r, {}) \in BOOLEAN
  BY DEF TurnInv, Left
<1>8. CASE pc[r] = "question" /\ content = "question" /\ Go(r, "generate")
  <2>1. lost[r] = {} /\ Left(r, {})
    BY <1>7, <1>8 DEF Spoken
  <2>2. Left(r, {} \cup {content})'
    BY <1>6, <1>8, <2>1
  <2>3. {} \cup {content} = {"question"}
    BY <1>8
  <2>4. Left(r, {"question"})'
    BY <2>2, <2>3 DEF Left
  <2>5. pc'[r] = "generate" /\ lost'[r] \subseteq {"question"}
    BY <1>1, <1>3, <1>8, <2>1 DEF Go
  <2> QED
    BY <1>4, <1>5, <2>4, <2>5 DEF TurnInv, Spoken, At
<1>9. CASE pc[r] = "answer" /\ content = reply[r] /\ Go(r, "tell")
  <2>1. lost[r] \subseteq {"question"} /\ Left(r, {"question"})
    BY <1>7, <1>9 DEF Spoken
  <2>2. content # "question"
    BY <1>9 DEF Types, Control, Status
  <2>3. Left(r, {"question"} \cup {content})'
    BY <1>6, <2>1, <2>2
  <2>4. {"question"} \cup {content} = {"question", reply'[r]}
    BY <1>9
  <2>5. Left(r, {"question", reply[r]})'
    BY <2>3, <2>4 DEF Left
  <2>6. pc'[r] = "tell"
    BY <1>1, <1>9 DEF Go
  <2> QED
    BY <1>4, <1>5, <2>5, <2>6 DEF TurnInv, Spoken, At
<1> QED
  BY <1>8, <1>9

LEMMA RecentStretch ==
  ASSUME NEW turns \in Seq(Turn), turns # <<>>
  PROVE  \E i \in DOMAIN turns : Recent(turns) = SubSeq(turns, i, Len(turns))
<1>1. Len(turns) \in Nat \ {0} /\ DOMAIN turns = 1..Len(turns) /\ Window \in Nat \ {0}
  BY ChatAssumption, EmptySeq, LenProperties
<1>2. (IF Len(turns) > Window THEN Len(turns) - Window + 1 ELSE 1) \in DOMAIN turns
  BY <1>1
<1> QED
  BY <1>2 DEF Recent

LEMMA HistoryStep ==
  ASSUME Types, TurnInv, NEW r \in Request, History(r)
  PROVE  TurnInv'
<1>1. /\ UNCHANGED <<ask, log, lost, reply>> /\ pc[r] = "history"
      /\ pc' = [pc EXCEPT ![r] = "question"]
      /\ history' = [history EXCEPT ![r] = Recent(log[Place(r)])] \/ UNCHANGED history
  BY DEF History, At, Go, Put, conversation
<1>2. /\ pc \in [Request -> Step] /\ history \in [Request -> Seq(Turn)]
  BY DEF Types, Control, Talk
<1>3. ASSUME NEW q \in Request, q # r \/ UNCHANGED history
      PROVE  Spoken(q)' /\ Remembered(q)'
  BY <1>1, <1>2, <1>3, SilentStep
<1>4. Spoken(r)'
  <2>1. lost[r] = {} /\ Left(r, {})
    BY <1>1 DEF TurnInv, Spoken
  <2>2. Left(r, {})'
    BY <1>1, <2>1, SameLeft
  <2> QED
    BY <1>1, <1>2, <2>1, <2>2 DEF Spoken, At
<1>5. CASE history' = [history EXCEPT ![r] = Recent(log[Place(r)])]
  <2> DEFINE turns == log[Place(r)]
  <2>1. turns \in Seq(Turn) /\ DOMAIN turns = 1..Len(turns) /\ Len(turns) \in Nat
    BY LogType
  <2>2. \A n \in DOMAIN turns : turns[n].of # r
    <3>1. Left(r, {})
      BY <1>1 DEF TurnInv, Spoken
    <3> QED
      BY <3>1 DEF Left
  <2>3. history'[r] = Recent(turns) /\ log'[Place(r)'] = turns
    BY <1>1, <1>2, <1>5 DEF Place
  <2>4. CASE turns # <<>>
    <3>1. Len(turns) \in DOMAIN turns
      BY <2>1, <2>4, EmptySeq
    <3>2. PICK i \in DOMAIN turns : Recent(turns) = SubSeq(turns, i, Len(turns))
      BY <2>1, <2>4, RecentStretch
    <3>3. Remembered(r)'
      BY <2>1, <2>2, <2>3, <3>1, <3>2 DEF Remembered
    <3> QED
      BY <1>3, <1>4, <3>3 DEF TurnInv
  <2>5. CASE turns = <<>>
    <3>1. Len(turns) = 0
      BY <2>1, <2>5, EmptySeq
    <3>2. Recent(turns) = SubSeq(turns, 1, 0)
      BY <3>1, ChatAssumption DEF Recent
    <3>3. Recent(turns) = <<>>
      BY <3>2, SubSeqEmpty
    <3>4. Remembered(r)'
      BY <2>3, <3>3 DEF Remembered
    <3> QED
      BY <1>3, <1>4, <3>4 DEF TurnInv
  <2> QED
    BY <2>4, <2>5
<1> QED
  BY <1>1, <1>3, <1>5 DEF TurnInv

LEMMA TurnInit == Init => TurnInv
<1> SUFFICES ASSUME Init, NEW r \in Request PROVE Spoken(r) /\ Remembered(r)
  BY DEF TurnInv
<1>1. /\ pc[r] = "idle" /\ history[r] = <<>> /\ lost[r] = {}
      /\ log[Place(r)] = <<>>
  BY ChatAssumption DEF Init, Place, Conversation
<1>2. DOMAIN <<>> = {}
  OBVIOUS
<1>3. Left(r, {})
  BY <1>1, <1>2 DEF Left
<1> QED
  BY <1>1, <1>3 DEF Spoken, Remembered, At

LEMMA TurnStep ==
  ASSUME Types, TurnInv, [Next]_vars
  PROVE  TurnInv'
<1>0. pc \in [Request -> Step] /\ reply \in [Request -> Status \cup {"none"}]
  BY DEF Types, Control
<1>1. CASE UNCHANGED vars
  BY <1>1, SilentStep DEF vars, conversation, TurnInv
<1>2. ASSUME NEW r \in Request, Ask(r) PROVE TurnInv'
  BY <1>0, <1>2, SilentStep DEF Ask, At, Go, TurnInv
<1>3. ASSUME NEW r \in Request, Question(r) PROVE TurnInv'
  BY <1>3, PersistStep DEF Question, At
<1>4. ASSUME NEW r \in Request, Generate(r) \/ Validate(r) \/ Lookup(r) \/ Fetch(r)
      PROVE  TurnInv'
  <2>1. /\ UNCHANGED <<ask, lost, history, log>>
        /\ pc[r] \in {"generate", "validate", "lookup", "fetch"}
    BY <1>4 DEF Generate, Validate, Lookup, Fetch, At, conversation
  <2>2. \E step \in {"validate", "lookup", "fetch", "answer"} : pc' = [pc EXCEPT ![r] = step]
    BY <1>4 DEF Generate, Validate, Lookup, Fetch, Present, Conclude, Go
  <2>3. \A q \in Request \ {r} : reply'[q] = reply[q]
    BY <1>0, <1>4 DEF Generate, Validate, Lookup, Fetch, Present, Conclude, Put
  <2>4. ASSUME NEW q \in Request PROVE Spoken(q)' /\ Remembered(q)'
    BY <1>0, <2>1, <2>2, <2>3, SilentStep
  <2> QED
    BY <2>4 DEF TurnInv
<1>5. ASSUME NEW r \in Request, History(r) PROVE TurnInv'
  BY <1>5, HistoryStep
<1>6. ASSUME NEW r \in Request, Answer(r) PROVE TurnInv'
  <2>1. reply[r] \in Status
    BY <1>6 DEF Answer, At, Types, Control
  <2> QED
    BY <1>6, <2>1, PersistStep DEF Answer, At
<1>7. ASSUME NEW r \in Request, Tell(r) PROVE TurnInv'
  BY <1>0, <1>7, SilentStep DEF Tell, At, Go, conversation, TurnInv
<1>8. ASSUME NEW r \in Request, Leave(r) PROVE TurnInv'
  BY <1>0, <1>8, SilentStep DEF Leave, At, Go, Running, conversation, TurnInv
<1>9. ASSUME NEW w \in Worker, Crash(w) PROVE TurnInv'
  BY <1>0, <1>9, SilentStep DEF Crash, Running, conversation, TurnInv
<1> QED
  BY <1>1, <1>2, <1>3, <1>4, <1>5, <1>6, <1>7, <1>8, <1>9 DEF Next, Work

LEMMA TurnInvHolds == Spec => []TurnInv
<1>1. Init => TurnInv
  BY TurnInit
<1>2. Types /\ TurnInv /\ [Next]_vars => TurnInv'
  BY TurnStep
<1> QED
  BY <1>1, <1>2, TypesHold, PTL DEF Spec

\* However many requests overlap in a conversation, and whatever is lost or cut short, each
\* leaves its question and then the answer that its client was told, once each.
THEOREM TurnsKeptHolds == Spec => []TurnsKept
<1>1. TurnInv => TurnsKept
  BY DEF TurnInv, Spoken, TurnsKept, At
<1> QED
  BY <1>1, TurnInvHolds, PTL

\* The prompt of every request is a stretch of its conversation that ended before the
\* request said anything, whatever other requests have said since.
THEOREM HistoryIsPastHolds == Spec => []HistoryIsPast
<1>1. TurnInv => HistoryIsPast
  BY DEF TurnInv, Remembered, HistoryIsPast
<1> QED
  BY <1>1, TurnInvHolds, PTL

=============================================================================
