---------------------------- MODULE ChatPipeline ----------------------------
(***************************************************************************)
(* A question's way through services/chat_service.py: route it, answer it  *)
(* from the wiki or generate SQL, validate, ask for a confirmation, look   *)
(* up or run the query, present the rows, and keep both turns of the       *)
(* conversation (services/conversations.py).  process_query answers a      *)
(* POST; process_query_stream feeds an SSE stream, whose task is cancelled *)
(* when its client goes.                                                   *)
(*                                                                         *)
(* Requests overlap at every await, in one conversation or in several, on  *)
(* one worker process or on several: each worker has its own L1 cache of   *)
(* results, and all share Redis (L2).  What the agents answer is left      *)
(* open.  Rows are known by the query and the tenant they were read for.   *)
(***************************************************************************)
EXTENDS Integers, Sequences, FiniteSets

CONSTANTS
  Request,
  Worker,
  Chat,       \* conversation ids that clients hold
  Tenant,
  Role,
  Sql,        \* the queries that the NL2SQL agent writes
  NewChat, NoSql, NoRows,
  Asks,       \* what clients ask: conversation, tenant, role, worker, stream, confirmed
  Folded,     \* Folded[s]: query s in lower case with single blanks, _hash_sql's text
  Allowed,    \* Allowed[o]: the queries the validation agent's rules let role o run
  Large,      \* the queries that EXPLAIN estimates above MAX_ROW_ESTIMATE
  Empty,      \* the queries that find no rows
  Window,     \* how many turns the prompt gets
  MaxFaults,  \* bound of the model: failures, crashes and clients that leave
  Faults      \* the kinds of fault: "db", "crash", "leave"

Slot == {<<t, Folded[s]>> : t \in Tenant, s \in Sql}
Row == [sql : Sql, tenant : Tenant]
Status == {"complete", "no_sql", "validation_failed", "confirmation_required", "no_data"}
Turn == [of : Request, content : Status \cup {"question"}]
Conversation == Chat \cup Request
Step == {"idle", "history", "question", "generate", "validate", "lookup", "fetch",
         "answer", "tell", "done", "gone"}

\* A conversation id is of one tenant, and a new one is of the request that opens it.
ASSUME ChatAssumption ==
  /\ NewChat \notin Chat /\ Chat \cap Request = {}
  /\ NoSql \notin Sql /\ NoRows \notin Row
  /\ Asks \subseteq [chat : Chat \cup {NewChat}, tenant : Tenant, role : Role,
                     worker : Worker, stream : BOOLEAN, confirmed : BOOLEAN]
  /\ \A a, b \in Asks : a.chat = b.chat /\ a.chat # NewChat => a.tenant = b.tenant
  /\ DOMAIN Folded = Sql
  /\ Allowed \in [Role -> SUBSET Sql]
  /\ Large \subseteq Sql /\ Empty \subseteq Sql
  /\ Window \in Nat \ {0} /\ MaxFaults \in Nat

VARIABLES
  pc,       \* pc[r]: the step request r is at
  ask,      \* ask[r]: what it asks
  history,  \* history[r]: the turns in its prompt
  sql,      \* sql[r]: the query it generated
  rows,     \* rows[r]: the rows it has
  reply,    \* reply[r]: the status of its answer
  chats,    \* the conversations that have a row
  log,      \* log[c]: the turns of conversation c
  l1, l2,   \* l1[w][k], l2[k]: the rows cached in worker w, and in Redis
  shown,    \* shown[c]: the queries that c's user was asked to confirm (history)
  lost,     \* lost[r]: the turns of r that could not be written (history)
  blind,    \* the requests whose query has no row estimate (history)
  faults    \* the faults so far

conversation == <<chats, log, lost>>
cache == <<l1, l2>>
past == <<shown, blind>>
vars == <<pc, ask, history, sql, rows, reply, conversation, cache, past, faults>>

At(r, step) == pc[r] = step
Running(r) == pc[r] \notin {"idle", "done", "gone"}
Go(r, step) == pc' = [pc EXCEPT ![r] = step]
Put(f, x, value) == [f EXCEPT ![x] = value]
Place(r) == IF ask[r].chat = NewChat THEN r ELSE ask[r].chat
Fail(kind) == kind \in Faults /\ faults < MaxFaults /\ faults' = faults + 1

\* The slot of a bug: the tenant is left out of the key.
SlotAnyTenant(r) == <<CHOOSE t \in Tenant : TRUE, Folded[sql[r]]>>

\* _key and _hash_sql: the cache's name for the rows of a query.
SlotOf(r) == <<ask[r].tenant, Folded[sql[r]]>>

\* The conclusions of bugs: without the reply; a return that forgets to persist.
ConcludeEmpty(r, status) == Go(r, "answer") /\ UNCHANGED reply
ConcludeUnsaved(r, status) ==
  /\ Go(r, IF status = "no_sql" THEN "tell" ELSE "answer")
  /\ reply' = Put(reply, r, status)

\* The pipeline has its answer: what remains is to persist it and to tell it.
Conclude(r, status) == Go(r, "answer") /\ reply' = Put(reply, r, status)

\* A reply with rows: POST takes rows that are not None, the stream takes rows.
Present(r, found) ==
  /\ rows' = Put(rows, r, found)
  /\ Conclude(r, IF found = NoRows \/ (ask[r].stream /\ found.sql \in Empty)
                 THEN "no_data" ELSE "complete")

-----------------------------------------------------------------------------
\* _resolve_conversation takes an id on trust.  Without one it opens a
\* conversation; when that fails the request gets an id that has no row.
\* A client confirms from the card that asked it to.
Ask(r) ==
  /\ At(r, "idle")
  /\ ask[r].confirmed => shown[Place(r)] # {}
  /\ Go(r, "history")
  /\ \/ ask[r].chat # NewChat /\ UNCHANGED <<chats, faults>>
     \/ ask[r].chat = NewChat /\ chats' = chats \cup {r} /\ UNCHANGED faults
     \/ ask[r].chat = NewChat /\ Fail("db") /\ UNCHANGED chats
  /\ UNCHANGED <<ask, history, sql, rows, reply, log, lost, cache, past>>

\* The prompt's turns of a bug: newest first.
RecentBackwards(turns) ==
  [i \in 1..(IF Len(turns) > Window THEN Window ELSE Len(turns)) |-> turns[Len(turns) + 1 - i]]

\* list_messages: the last turns, in the order they were written.
Recent(turns) ==
  SubSeq(turns, IF Len(turns) > Window THEN Len(turns) - Window + 1 ELSE 1, Len(turns))

\* _load_history, before the question is persisted; cold start when it fails.
History(r) ==
  /\ At(r, "history")
  /\ Go(r, "question")
  /\ \/ history' = Put(history, r, Recent(log[Place(r)])) /\ UNCHANGED faults
     \/ Fail("db") /\ UNCHANGED history
  /\ UNCHANGED <<ask, sql, rows, reply, conversation, cache, past>>

\* append_message: the turn is inserted, or it is lost and nobody is told.
Persist(r, content) ==
  \/ /\ Place(r) \in chats
     /\ log' = Put(log, Place(r), Append(log[Place(r)], [of |-> r, content |-> content]))
     /\ UNCHANGED <<chats, lost, faults>>
  \/ /\ (Place(r) \notin chats /\ UNCHANGED faults) \/ Fail("db")
     /\ lost' = Put(lost, r, lost[r] \cup {content})
     /\ UNCHANGED <<chats, log>>

Question(r) ==
  /\ At(r, "question")
  /\ Persist(r, "question")
  /\ Go(r, "generate")
  /\ UNCHANGED <<ask, history, sql, rows, reply, cache, past>>

\* _step_route, _answer_from_wiki and _step_nl2sql: whatever fails on the way,
\* it ends with an answer from the wiki, a query, or neither.
Generate(r) ==
  /\ At(r, "generate")
  /\ \/ Conclude(r, "complete") /\ UNCHANGED sql
     \/ Conclude(r, "no_sql") /\ UNCHANGED sql
     \/ \E s \in Sql : sql' = Put(sql, r, s) /\ Go(r, "validate") /\ UNCHANGED reply
  /\ UNCHANGED <<ask, history, rows, conversation, cache, past, faults>>

\* The gate of a bug: the flag is not looked at, and nothing waits.
MayRunAll(r) == TRUE

MayRun(r) == sql[r] \notin Large \/ ask[r].confirmed

\* _step_validate: a database out of reach refuses the query; an EXPLAIN that
\* fails lets it pass without an estimate; a large query waits for the flag.
Validate(r) ==
  /\ At(r, "validate")
  /\ \/ Fail("db") /\ Conclude(r, "validation_failed") /\ UNCHANGED blind
     \/ /\ sql[r] \notin Allowed[ask[r].role]
        /\ Conclude(r, "validation_failed")
        /\ UNCHANGED <<blind, faults>>
     \/ /\ sql[r] \in Allowed[ask[r].role]
        /\ ~MayRun(r)
        /\ Conclude(r, "confirmation_required")
        /\ UNCHANGED <<blind, faults>>
     \/ /\ sql[r] \in Allowed[ask[r].role]
        /\ (MayRun(r) /\ UNCHANGED blind) \/ blind' = blind \cup {r}
        /\ Go(r, "lookup")
        /\ UNCHANGED <<reply, faults>>
  /\ UNCHANGED <<ask, history, sql, rows, conversation, cache, shown>>

\* get_query_result: this worker's cache, then Redis, whose rows it keeps.  An
\* entry may have expired or been evicted, and Redis may be out of reach.
Lookup(r) ==
  LET w == ask[r].worker  k == SlotOf(r) IN
  /\ At(r, "lookup")
  /\ \/ l1[w][k] # NoRows /\ Present(r, l1[w][k]) /\ UNCHANGED l1
     \/ l2[k] # NoRows /\ Present(r, l2[k]) /\ l1' = [l1 EXCEPT ![w][k] = l2[k]]
     \/ /\ Go(r, "fetch")
        /\ l1' = [l1 EXCEPT ![w][k] = NoRows]
        /\ UNCHANGED <<rows, reply>>
  /\ UNCHANGED <<ask, history, sql, conversation, l2, past, faults>>

\* execute, mask_rows and set_query_result, whose write to Redis may fail.
Fetch(r) ==
  /\ At(r, "fetch")
  /\ \/ LET found == [sql |-> sql[r], tenant |-> ask[r].tenant] IN
          /\ Present(r, found)
          /\ l1' = [l1 EXCEPT ![ask[r].worker][SlotOf(r)] = found]
          /\ l2' = Put(l2, SlotOf(r), found) \/ UNCHANGED l2
     \/ Present(r, NoRows) /\ UNCHANGED cache
  /\ UNCHANGED <<ask, history, sql, conversation, past, faults>>

Answer(r) ==
  /\ At(r, "answer")
  /\ Persist(r, reply[r])
  /\ Go(r, "tell")
  /\ UNCHANGED <<ask, history, sql, rows, reply, cache, past>>

\* The response, or the stream's "done" event.
Tell(r) ==
  /\ At(r, "tell")
  /\ Go(r, "done")
  /\ shown' = IF reply[r] = "confirmation_required"
              THEN Put(shown, Place(r), shown[Place(r)] \cup {sql[r]}) ELSE shown
  /\ UNCHANGED <<ask, history, sql, rows, reply, conversation, cache, blind, faults>>

\* The client closes its stream: CancelledError is no Exception, so nothing
\* is persisted for the question it leaves.
Leave(r) ==
  /\ Running(r) /\ ask[r].stream
  /\ Fail("leave")
  /\ Go(r, "gone")
  /\ UNCHANGED <<ask, history, sql, rows, reply, conversation, cache, past>>

\* A worker process dies with its requests and its cache, and is replaced.
Crash(w) ==
  /\ Fail("crash")
  /\ pc' = [r \in Request |-> IF Running(r) /\ ask[r].worker = w THEN "gone" ELSE pc[r]]
  /\ l1' = Put(l1, w, [k \in Slot |-> NoRows])
  /\ UNCHANGED <<ask, history, sql, rows, reply, conversation, l2, past>>

-----------------------------------------------------------------------------
\* Some of the ids that clients hold have no row: an earlier create failed.
Init ==
  /\ pc = [r \in Request |-> "idle"]
  /\ ask \in [Request -> Asks]
  /\ history = [r \in Request |-> <<>>]
  /\ sql = [r \in Request |-> NoSql]
  /\ rows = [r \in Request |-> NoRows]
  /\ reply = [r \in Request |-> "none"]
  /\ chats \in SUBSET Chat
  /\ log = [c \in Conversation |-> <<>>]
  /\ l1 = [w \in Worker |-> [k \in Slot |-> NoRows]]
  /\ l2 = [k \in Slot |-> NoRows]
  /\ shown = [c \in Conversation |-> {}]
  /\ lost = [r \in Request |-> {}]
  /\ blind = {}
  /\ faults = 0

Work(r) ==
  Ask(r) \/ History(r) \/ Question(r) \/ Generate(r) \/ Validate(r) \/ Lookup(r)
    \/ Fetch(r) \/ Answer(r) \/ Tell(r)

Next ==
  \/ \E r \in Request : Work(r) \/ Leave(r)
  \/ \E w \in Worker : Crash(w)

Spec == Init /\ [][Next]_vars

\* Every await of the pipeline returns: model calls, statements and connections
\* have timeouts, and the event loop runs what is ready.
FairSpec == Spec /\ \A r \in Request : WF_vars(Work(r))

-----------------------------------------------------------------------------
TypeOK ==
  /\ pc \in [Request -> Step]
  /\ ask \in [Request -> Asks]
  /\ history \in [Request -> Seq(Turn)]
  /\ \A r \in Request : Len(history[r]) <= Window
  /\ sql \in [Request -> Sql \cup {NoSql}]
  /\ rows \in [Request -> Row \cup {NoRows}]
  /\ reply \in [Request -> Status \cup {"none"}]
  /\ chats \subseteq Conversation
  /\ log \in [Conversation -> Seq(Turn)]
  /\ l1 \in [Worker -> [Slot -> Row \cup {NoRows}]]
  /\ l2 \in [Slot -> Row \cup {NoRows}]
  /\ shown \in [Conversation -> SUBSET Sql]
  /\ lost \in [Request -> SUBSET (Status \cup {"question"})]
  /\ blind \subseteq Request
  /\ faults \in 0..MaxFaults

\* Whatever worker read them, whenever, and whatever failed since: the rows a
\* request presents were read in its own tenant, by a query whose text differs
\* from its own in case and blanks only, and its role may run its own
\* (_hash_sql folds the literals too: see the README).
RowsOfQuery ==
  \A r \in Request : rows[r] # NoRows =>
    /\ rows[r].tenant = ask[r].tenant
    /\ sql[r] \in Allowed[ask[r].role]
    /\ Folded[rows[r].sql] = Folded[sql[r]]

\* A large query gets past the gate, and to its rows, only with the flag or
\* when EXPLAIN gave no estimate.
LargeAsked ==
  \A r \in Request :
    At(r, "lookup") \/ At(r, "fetch") \/ rows[r] # NoRows =>
      sql[r] \notin Large \/ ask[r].confirmed \/ r \in blind

\* The turns that r left say contents, less what was lost: each once, the question first.
Left(r, contents) ==
  LET turns == log[Place(r)]
      mine == {i \in DOMAIN turns : turns[i].of = r} IN
  /\ {turns[i].content : i \in mine} = contents \ lost[r]
  /\ \A i, j \in mine :
       i < j => turns[i].content = "question" /\ turns[j].content # "question"

\* However requests overlap in a conversation, one that was answered left its
\* question and then its answer, once each and the same that the client was
\* told, less what could not be written; one that was cut short left no
\* more than that.
TurnsKept ==
  \A r \in Request :
    /\ At(r, "done") => Left(r, {"question", reply[r]})
    /\ At(r, "gone") =>
         Left(r, {}) \/ Left(r, {"question"}) \/ Left(r, {"question", reply[r]})

\* The prompt of a request has consecutive turns of its conversation, in their
\* order, all of them older than its own question.
HistoryIsPast ==
  \A r \in Request : history[r] # <<>> =>
    LET turns == log[Place(r)] IN
    \E i, j \in DOMAIN turns :
      /\ history[r] = SubSeq(turns, i, j)
      /\ \A n \in 1..j : turns[n].of # r

\* docs/api-reference.md:143: the early response has "the SQL", and "Re-send the
\* same query with confirm_large_query: true to execute": a large query that the
\* flag lets run is one that the user of the conversation was shown.
ConfirmedWasShown ==
  \A r \in Request :
    rows[r] # NoRows /\ ask[r].confirmed /\ sql[r] \in Large =>
      r \in blind \/ sql[r] \in shown[Place(r)]

\* A request that runs comes to its answer, unless its client or its worker goes.
EveryAskEnds == \A r \in Request : Running(r) ~> ~Running(r)
=============================================================================
