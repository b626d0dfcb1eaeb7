----------------------------- MODULE WikiPages -----------------------------
(***************************************************************************)
(* One slug of a tenant's knowledge base (services/wiki.py): the row of    *)
(* wiki_pages, its wiki_page_revisions and its wiki_embeddings, under      *)
(* overlapping saves, restores, deletions and embedding passes.            *)
(*                                                                         *)
(* upsert_page runs a READ COMMITTED transaction, each statement an await, *)
(* and, after it commits, replaces the chunks of the page statement by     *)
(* statement on a connection of its own.  A page that is deleted and       *)
(* created again has another id; the foreign keys on it cascade.           *)
(*                                                                         *)
(* A text stands for title and content; Parts says how many chunks         *)
(* chunk_content makes of it.                                              *)
(***************************************************************************)
EXTENDS Integers, Sequences

CONSTANTS
  Request,    \* slots of requests in flight
  NoRequest,  \* nobody holds the row
  Text,       \* what a page may say
  NoText,     \* there is no page
  Parts,      \* Parts[t]: the number of chunks of text t
  MaxWrites,  \* bound of the model: saves and restores that are started
  Faults      \* "db", "embed": a statement or an embedding fails; "crash": a worker dies

ASSUME WikiAssumption ==
  /\ NoRequest \notin Request
  /\ NoText \notin Text
  /\ Parts \in [Text -> Nat]
  /\ MaxWrites \in Nat
  /\ Faults \subseteq {"db", "embed", "crash"}

VARIABLES
  page,    \* the committed row: its id, 0 when there is none, and its text
  revs,    \* the texts of its revisions, by version
  chunks,  \* the rows of wiki_embeddings of the page
  lock,    \* the request whose open transaction has written the row
  ids,     \* the page ids given out so far
  writes,  \* the saves and restores started so far
  req      \* req[r]: where request r is, and what it carries

vars == <<page, revs, chunks, lock, ids, writes, req>>

NoPage == [id |-> 0, text |-> NoText]
Exists == page.id # 0

Idle == [pc |-> "idle", id |-> 0, text |-> NoText, version |-> 0, part |-> 0]
At(r, label) == req[r].pc = label
Goto(r, label, id, text, version, part) ==
  req' = [req EXCEPT ![r] =
            [pc |-> label, id |-> id, text |-> text, version |-> version, part |-> part]]
Finish(r) == req' = [req EXCEPT ![r] = Idle]
Unlock(r) == lock' = IF lock = r THEN NoRequest ELSE lock

-----------------------------------------------------------------------------
\* upsert_page is called with a new text.
Put(r) ==
  /\ At(r, "idle") /\ writes < MaxWrites
  /\ writes' = writes + 1
  /\ \E t \in Text : Goto(r, "select", 0, t, 0, 0)
  /\ UNCHANGED <<page, revs, chunks, lock, ids>>

\* restore_page reads an old revision and passes its text to upsert_page.
Restore(r) ==
  /\ At(r, "idle") /\ writes < MaxWrites
  /\ writes' = writes + 1
  /\ \E v \in DOMAIN revs : Goto(r, "select", 0, revs[v], 0, 0)
  /\ UNCHANGED <<page, revs, chunks, lock, ids>>

\* The transaction begins: is there a page?
Select(r) ==
  /\ At(r, "select")
  /\ Goto(r, IF Exists THEN "update" ELSE "insert", page.id, req[r].text, 0, 0)
  /\ UNCHANGED <<page, revs, chunks, lock, ids, writes>>

\* INSERT of the page, under a new id.  It waits for a transaction that has written
\* the slug.
Insert(r) ==
  /\ At(r, "insert")
  /\ lock = NoRequest /\ ~Exists
  /\ lock' = r
  /\ ids' = ids + 1
  /\ Goto(r, "number", ids + 1, req[r].text, 0, 0)
  /\ UNCHANGED <<page, revs, chunks, writes>>

\* PageExistsError: another request has created the page.
Conflict(r) ==
  /\ At(r, "insert")
  /\ lock = NoRequest /\ Exists
  /\ Finish(r)
  /\ UNCHANGED <<page, revs, chunks, lock, ids, writes>>

\* Mutant: the UPDATE runs outside the transaction.
Update_Autocommit(r) ==
  /\ At(r, "update") /\ Exists
  /\ page' = [page EXCEPT !.text = req[r].text]
  /\ Goto(r, "number", req[r].id, req[r].text, 0, 0)
  /\ UNCHANGED <<revs, chunks, lock, ids, writes>>

\* Mutant: the row is not written, hence not locked, before the version is read.
Update_NoLock(r) ==
  /\ At(r, "update")
  /\ Goto(r, "number", req[r].id, req[r].text, 0, 0)
  /\ UNCHANGED <<page, revs, chunks, lock, ids, writes>>

\* UPDATE by slug: it takes the row's lock, whichever page has the slug by now; it
\* finds no row when the page is gone.
Update(r) ==
  /\ At(r, "update")
  /\ \/ Exists /\ lock = NoRequest /\ lock' = r
     \/ ~Exists /\ UNCHANGED lock
  /\ Goto(r, "number", req[r].id, req[r].text, 0, 0)
  /\ UNCHANGED <<page, revs, chunks, ids, writes>>

\* SELECT coalesce(max(version), 0) + 1 of the page selected or inserted.
Number(r) ==
  /\ At(r, "number")
  /\ Goto(r, "commit", req[r].id, req[r].text,
          IF page.id = req[r].id THEN Len(revs) + 1 ELSE 1, 0)
  /\ UNCHANGED <<page, revs, chunks, lock, ids, writes>>

\* The page whose id r carries is there for the revision's foreign key: the page r
\* updated, or the one it inserted.
Refers(r) == page.id = req[r].id \/ (~Exists /\ lock = r)

\* uq_wiki_revisions_page_version
Unused(v) == v \notin DOMAIN revs

\* Mutant: a revision that is refused leaves the transaction open.
Rollback_LeavesOpen(r) == lock' = lock

\* Leaving conn.transaction() by an exception.
Rollback(r) == Unlock(r)

\* INSERT of the revision and COMMIT.
Commit(r) ==
  /\ At(r, "commit")
  /\ Refers(r) /\ Unused(req[r].version)
  /\ page' = [id |-> req[r].id, text |-> req[r].text]
  /\ revs' = Append(revs, req[r].text)
  /\ Unlock(r)
  /\ Goto(r, "clear", req[r].id, req[r].text, 0, 0)
  /\ UNCHANGED <<chunks, ids, writes>>

\* A constraint refuses the revision, or the database fails: the save is rolled back.
Refused(r) ==
  /\ At(r, "commit")
  /\ ~Refers(r) \/ ~Unused(req[r].version) \/ "db" \in Faults
  /\ Rollback(r)
  /\ Finish(r)
  /\ UNCHANGED <<page, revs, chunks, ids, writes>>

-----------------------------------------------------------------------------
\* _sync_embeddings, the DELETE of the page's chunks.
Clear(r) ==
  /\ At(r, "clear")
  /\ chunks' = IF page.id = req[r].id THEN {} ELSE chunks
  /\ \/ Parts[req[r].text] = 0 /\ Finish(r)
     \/ Parts[req[r].text] # 0 /\ Goto(r, "embed", req[r].id, req[r].text, 0, 1)
  /\ UNCHANGED <<page, revs, lock, ids, writes>>

\* Mutant: one chunk too many.
LastPart_OffByOne(t, i) == i = Parts[t] + 1
LastPart(t, i) == i = Parts[t]

\* Mutant: the chunk is attached to the slug, not to the page's id.
Attached_Slug(r) == Exists
Attached(r) == page.id = req[r].id

\* _sync_embeddings, one chunk: its embedding and its INSERT.
Embed(r) ==
  LET t == req[r].text  i == req[r].part IN
  /\ At(r, "embed") /\ Attached(r)
  /\ chunks' = chunks \cup {[by |-> r, text |-> t, part |-> i]}
  /\ \/ LastPart(t, i) /\ Finish(r)
     \/ ~LastPart(t, i) /\ Goto(r, "embed", req[r].id, t, 0, i + 1)
  /\ UNCHANGED <<page, revs, lock, ids, writes>>

\* _sync_embeddings fails and gives up: the database, the embedding, or the foreign key
\* of a page that is gone.  The save is answered with embedded = false.
GiveUp(r) ==
  /\ \/ At(r, "clear") /\ "db" \in Faults
     \/ At(r, "embed") /\ (~Attached(r) \/ "embed" \in Faults)
  /\ Finish(r)
  /\ UNCHANGED <<page, revs, chunks, lock, ids, writes>>

\* reconcile_embeddings: a page without chunks is embedded.
Reconcile(r) ==
  /\ At(r, "idle")
  /\ Exists /\ chunks = {}
  /\ Goto(r, "clear", page.id, page.text, 0, 0)
  /\ UNCHANGED <<page, revs, chunks, lock, ids, writes>>

\* delete_page, one statement that waits for the row; revisions and chunks cascade.
Delete ==
  /\ Exists /\ lock = NoRequest
  /\ page' = NoPage /\ revs' = << >> /\ chunks' = {}
  /\ UNCHANGED <<lock, ids, writes, req>>

\* The worker dies, or any other statement fails: an open transaction rolls back, what
\* was committed stays.
Crash(r) ==
  /\ "crash" \in Faults
  /\ ~At(r, "idle")
  /\ Unlock(r)
  /\ Finish(r)
  /\ UNCHANGED <<page, revs, chunks, ids, writes>>

-----------------------------------------------------------------------------
Init ==
  /\ page = NoPage /\ revs = << >> /\ chunks = {}
  /\ lock = NoRequest /\ ids = 0 /\ writes = 0
  /\ req = [r \in Request |-> Idle]

Save(r) ==
  Select(r) \/ Insert(r) \/ Conflict(r) \/ Update(r) \/ Number(r) \/ Commit(r) \/ Refused(r)
Sync(r) == Clear(r) \/ Embed(r) \/ GiveUp(r)

Next ==
  \/ \E r \in Request : Put(r) \/ Restore(r) \/ Reconcile(r) \/ Save(r) \/ Sync(r) \/ Crash(r)
  \/ Delete

Spec == Init /\ [][Next]_vars

\* Accepted requests go on; strong fairness of a save stands for PostgreSQL's
\* first-come-first-served queue on a row.
FairSpec == Spec /\ \A r \in Request : SF_vars(Save(r)) /\ WF_vars(Sync(r))

-----------------------------------------------------------------------------
Requests ==
  [pc : {"idle", "select", "insert", "update", "number", "commit", "clear", "embed"},
   id : Nat, text : Text \cup {NoText}, version : Nat, part : Nat]

TypeOK ==
  /\ page \in [id : Nat, text : Text \cup {NoText}]
  /\ page.id = 0 <=> page.text = NoText
  /\ revs \in Seq(Text)
  /\ \A c \in chunks : c.by \in Request /\ c.text \in Text /\ c.part \in 1..Parts[c.text]
  /\ lock \in Request \cup {NoRequest}
  /\ ids \in Nat /\ writes \in 0..MaxWrites
  /\ req \in [Request -> Requests]
  /\ \A r \in Request : ~At(r, "idle") => req[r].text \in Text
  /\ \A r \in Request : At(r, "embed") => req[r].part \in 1..Parts[req[r].text]

\* upsert_page reads the next version after its UPDATE or INSERT, under the row's lock:
\* a save that got the lock on the page it selected is never refused for its version,
\* whatever saves and deletions it raced with.
VersionIsNext ==
  \A r \in Request :
    At(r, "commit") /\ Refers(r) => lock = r /\ req[r].version = Len(revs) + 1

\* wiki.py: whatever syncs overlap, fail or outlive the page they were for, search
\* finds no text that is not in the history of the page it is found on.
ChunksFromHistory ==
  \A c \in chunks : \E v \in DOMAIN revs : revs[v] = c.text

\* wiki.py, "every write appends the next version then updates the page in one
\* transaction; restore copies an old version FORWARD as a new revision.  History is
\* never rewritten": the page and its revisions behave as WikiHistory says.
History == INSTANCE WikiHistory WITH current <- page.text, history <- revs
HistoryKept == History!Spec

\* No save waits for ever for a row: the transactions before it end.
EveryRequestEnds == \A r \in Request : ~At(r, "idle") ~> At(r, "idle")

\* wiki.py, "On every write the page's pgvector chunks are replaced": with no sync under
\* way, no chunk is left of a text that the page no longer says.
ChunksReplaced ==
  (\A r \in Request : At(r, "idle")) => \A c \in chunks : c.text = page.text
=============================================================================
