-------------------------- MODULE WikiPagesProofs --------------------------
(***************************************************************************)
(* Proofs about WikiPages for any number of requests, texts and writes and *)
(* with any faults: types, the version a save takes, where the chunks come *)
(* from, and that page and revisions implement WikiHistory.                *)
(***************************************************************************)
EXTENDS WikiPages, SequenceTheorems, TLAPS

\* The parts of TypeOK that belong to the page, to its chunks and to the requests.
PageType ==
  /\ page \in [id : Nat, text : Text \cup {NoText}]
  /\ page.id = 0 <=> page.text = NoText
  /\ revs \in Seq(Text)
ChunkType ==
  \A c \in chunks : c.by \in Request /\ c.text \in Text /\ c.part \in 1..Parts[c.text]
CountType ==
  lock \in Request \cup {NoRequest} /\ ids \in Nat /\ writes \in 0..MaxWrites
RequestType ==
  /\ req \in [Request -> Requests]
  /\ \A r \in Request : ~At(r, "idle") => req[r].text \in Text
  /\ \A r \in Request : At(r, "embed") => req[r].part \in 1..Parts[req[r].text]

\* A page has a history, which ends with what it says; a slug without one has neither
\* history nor chunks.
Latest ==
  /\ ~Exists => revs = << >> /\ chunks = {}
  /\ Exists => Len(revs) # 0 /\ revs[Len(revs)] = page.text

\* The ids that occur were given out, and a request past its SELECT or INSERT has one.
Fresh ==
  /\ page.id <= ids
  /\ \A r \in Request : req[r].id <= ids
  /\ \A r \in Request :
       req[r].pc \in {"update", "number", "commit", "clear", "embed"} => req[r].id # 0

\* Only a transaction past its write holds the row, alone with the id it inserted, and
\* it is the only one that can commit.
Saving(r) == req[r].pc \in {"number", "commit"}
Holding ==
  /\ lock # NoRequest => Saving(lock)
  /\ lock # NoRequest /\ ~Exists =>
       \A r \in Request \ {lock} : req[r].id # req[lock].id
  /\ \A r \in Request : Saving(r) /\ Refers(r) => lock = r

\* What a sync is about to embed was saved.
Syncing ==
  \A r \in Request :
    req[r].pc \in {"clear", "embed"} /\ req[r].id = page.id =>
      \E v \in DOMAIN revs : revs[v] = req[r].text

SaveInv == Latest /\ Fresh /\ Holding /\ VersionIsNext
Inv == TypeOK /\ SaveInv /\ Syncing /\ ChunksFromHistory

-----------------------------------------------------------------------------
LEMMA TypeParts == TypeOK <=> PageType /\ ChunkType /\ CountType /\ RequestType
BY DEF TypeOK, PageType, ChunkType, CountType, RequestType

LEMMA TypePartsNext ==
  ASSUME PageType', ChunkType', CountType', RequestType' PROVE TypeOK'
BY DEF TypeOK, PageType, ChunkType, CountType, RequestType

LEMMA GotoTypes ==
  ASSUME RequestType, NEW r \in Request,
         NEW label \in {"select", "insert", "update", "number", "commit", "clear", "embed"},
         NEW id \in Nat, NEW t \in Text, NEW v \in Nat, NEW i \in Nat,
         label = "embed" => i \in 1..Parts[t],
         Goto(r, label, id, t, v, i)
  PROVE  RequestType'
<1> DEFINE next == [pc |-> label, id |-> id, text |-> t, version |-> v, part |-> i]
<1>1. next \in Requests
  BY DEF Requests
<1>2. req' = [req EXCEPT ![r] = next]
  BY DEF Goto
<1>3. QED
  BY <1>1, <1>2 DEF RequestType, At

LEMMA FinishTypes ==
  ASSUME RequestType, NEW r \in Request, Finish(r) PROVE RequestType'
<1>1. Idle \in Requests /\ Idle.pc = "idle"
  BY DEF Idle, Requests
<1>2. QED
  BY <1>1 DEF RequestType, Finish, At

LEMMA UnlockTypes ==
  ASSUME CountType, NEW r \in Request, Unlock(r) PROVE lock' \in Request \cup {NoRequest}
BY DEF CountType, Unlock

LEMMA Carries ==
  ASSUME RequestType, NEW r \in Request, ~At(r, "idle")
  PROVE  /\ req[r].id \in Nat /\ req[r].version \in Nat /\ req[r].part \in Nat
         /\ req[r].text \in Text
BY DEF RequestType, Requests

LEMMA TypeInit == Init => TypeOK
<1> SUFFICES ASSUME Init PROVE TypeOK
  OBVIOUS
<1>1. PageType /\ ChunkType /\ CountType
  BY WikiAssumption DEF Init, PageType, ChunkType, CountType, NoPage
<1>2. RequestType
  BY DEF Init, RequestType, Requests, Idle, At
<1>3. QED
  BY <1>1, <1>2, TypeParts

LEMMA TypeStep == TypeOK /\ Fresh /\ [Next]_vars => TypeOK'
<1> SUFFICES ASSUME TypeOK, Fresh, [Next]_vars PROVE TypeOK'
  OBVIOUS
<1> USE WikiAssumption
<1>0. PageType /\ ChunkType /\ CountType /\ RequestType
  BY TypeParts
<1>1. CASE UNCHANGED vars
  BY <1>1 DEF vars, TypeOK, At
<1>2. ASSUME NEW r \in Request, Put(r) \/ Restore(r) PROVE TypeOK'
  <2>1. RequestType'
    <3>1. PICK t \in Text : Goto(r, "select", 0, t, 0, 0)
      BY <1>0, <1>2 DEF Put, Restore, PageType
    <3>2. QED
      BY <1>0, <3>1, GotoTypes
  <2>2. writes' \in 0..MaxWrites
    BY <1>0, <1>2 DEF Put, Restore, CountType
  <2>3. UNCHANGED <<page, revs, chunks, lock, ids>>
    BY <1>2 DEF Put, Restore
  <2>4. QED
    BY <1>0, <2>1, <2>2, <2>3, TypePartsNext DEF PageType, ChunkType, CountType
<1>3. ASSUME NEW r \in Request, Select(r) \/ Number(r) PROVE TypeOK'
  <2>1. ~At(r, "idle")
    BY <1>3 DEF Select, Number, At
  <2>2. UNCHANGED <<page, revs, chunks, lock, ids, writes>>
    BY <1>3 DEF Select, Number
  <2>3. page.id \in Nat /\ Len(revs) + 1 \in Nat
    BY <1>0, LenProperties DEF PageType
  <2>4. RequestType'
    BY <1>0, <1>3, <2>1, <2>3, Carries, GotoTypes DEF Select, Number
  <2>5. QED
    BY <1>0, <2>2, <2>4, TypePartsNext DEF PageType, ChunkType, CountType
<1>4. ASSUME NEW r \in Request, Insert(r) \/ Update(r) PROVE TypeOK'
  <2>1. ~At(r, "idle")
    BY <1>4 DEF Insert, Update, At
  <2>2. UNCHANGED <<page, revs, chunks, writes>>
    BY <1>4 DEF Insert, Update
  <2>3. lock' \in Request \cup {NoRequest} /\ ids' \in Nat
    BY <1>0, <1>4 DEF Insert, Update, CountType
  <2>4. ids + 1 \in Nat
    BY <1>0 DEF CountType
  <2>5. RequestType'
    BY <1>0, <1>4, <2>1, <2>4, Carries, GotoTypes, FinishTypes DEF Insert, Update
  <2>6. QED
    BY <1>0, <2>2, <2>3, <2>5, TypePartsNext DEF PageType, ChunkType, CountType
<1>5. ASSUME NEW r \in Request, Commit(r) PROVE TypeOK'
  <2>1. ~At(r, "idle") /\ req[r].id # 0
    BY <1>5 DEF Commit, Fresh, At
  <2>2. RequestType' /\ lock' \in Request \cup {NoRequest}
    BY <1>0, <1>5, <2>1, Carries, GotoTypes, UnlockTypes DEF Commit
  <2>3. PageType'
    BY <1>0, <1>5, <2>1, Carries, AppendProperties DEF Commit, PageType
  <2>4. QED
    BY <1>0, <1>5, <2>2, <2>3, TypePartsNext DEF Commit, ChunkType, CountType
<1>6. ASSUME NEW r \in Request, Clear(r) PROVE TypeOK'
  <2>1. ~At(r, "idle") /\ UNCHANGED <<page, revs, lock, ids, writes>>
    BY <1>6 DEF Clear, At
  <2>2. ChunkType'
    BY <1>0, <1>6 DEF Clear, ChunkType
  <2>3. Parts[req[r].text] # 0 => 1 \in 1..Parts[req[r].text]
    BY <1>0, <2>1, Carries
  <2>4. RequestType'
    BY <1>0, <1>6, <2>1, <2>3, Carries, GotoTypes, FinishTypes DEF Clear
  <2>5. QED
    BY <1>0, <2>1, <2>2, <2>4, TypePartsNext DEF PageType, CountType
<1>7. ASSUME NEW r \in Request, Embed(r) PROVE TypeOK'
  <2> DEFINE t == req[r].text  i == req[r].part
  <2>1. ~At(r, "idle") /\ UNCHANGED <<page, revs, lock, ids, writes>>
    BY <1>7 DEF Embed, At
  <2>2. t \in Text /\ i \in 1..Parts[t] /\ Parts[t] \in Nat
    BY <1>0, <1>7 DEF Embed, RequestType, At
  <2>3. ChunkType'
    BY <1>0, <1>7, <2>2 DEF Embed, ChunkType
  <2>4. ~LastPart(t, i) => i + 1 \in 1..Parts[t]
    BY <2>2 DEF LastPart
  <2>5. RequestType'
    BY <1>0, <1>7, <2>1, <2>2, <2>4, Carries, GotoTypes, FinishTypes DEF Embed
  <2>6. QED
    BY <1>0, <2>1, <2>3, <2>5, TypePartsNext DEF PageType, CountType
<1>8. ASSUME NEW r \in Request, Reconcile(r) PROVE TypeOK'
  <2>1. page.id \in Nat /\ page.text \in Text
    BY <1>0, <1>8 DEF Reconcile, Exists, PageType
  <2>2. RequestType'
    BY <1>0, <1>8, <2>1, GotoTypes DEF Reconcile
  <2>3. QED
    BY <1>0, <1>8, <2>2, TypePartsNext DEF Reconcile, PageType, ChunkType, CountType
<1>9. ASSUME Delete PROVE TypeOK'
  BY <1>0, <1>9, TypePartsNext
     DEF Delete, NoPage, PageType, ChunkType, CountType, RequestType, At
<1>10. ASSUME NEW r \in Request, Conflict(r) \/ Refused(r) \/ GiveUp(r) \/ Crash(r)
       PROVE  TypeOK'
  <2>1. lock' \in Request \cup {NoRequest}
    BY <1>0, <1>10, UnlockTypes DEF Conflict, Refused, Rollback, GiveUp, Crash, CountType
  <2>2. Finish(r) /\ UNCHANGED <<page, revs, chunks, ids, writes>>
    BY <1>10 DEF Conflict, Refused, GiveUp, Crash
  <2>3. QED
    BY <1>0, <2>1, <2>2, FinishTypes, TypePartsNext DEF PageType, ChunkType, CountType
<1>11. QED
  BY <1>1, <1>2, <1>3, <1>4, <1>5, <1>6, <1>7, <1>8, <1>9, <1>10 DEF Next, Save, Sync

-----------------------------------------------------------------------------
LEMMA SaveInit == Init => SaveInv
<1> SUFFICES ASSUME Init PROVE SaveInv
  OBVIOUS
<1>1. \A r \in Request : req[r] = Idle
  BY DEF Init
<1>2. Idle.pc = "idle" /\ Idle.id = 0
  BY DEF Idle
<1>3. Latest
  BY DEF Init, Latest, Exists, NoPage
<1>4. Fresh
  BY <1>1, <1>2 DEF Init, Fresh, NoPage
<1>5. Holding /\ VersionIsNext
  BY <1>1, <1>2 DEF Init, Holding, VersionIsNext, Saving, At
<1>6. QED
  BY <1>3, <1>4, <1>5 DEF SaveInv

\* A step that leaves the page alone and takes request r, which may let go of the row,
\* to where it is not saving.
LEMMA Quiet ==
  ASSUME TypeOK, SaveInv, NEW r \in Request, NEW next,
         UNCHANGED <<page, revs, ids>>, ~Exists => chunks' = {}, Unlock(r),
         req' = [req EXCEPT ![r] = next],
         next.pc # "number" /\ next.pc # "commit",
         next.id \in {0, page.id, req[r].id},
         next.pc \in {"update", "clear", "embed"} => next.id # 0
  PROVE  SaveInv'
<1> USE DEF Exists
<1>1. /\ req \in [Request -> Requests] /\ lock \in Request \cup {NoRequest}
      /\ page.id \in Nat /\ ids \in Nat
  BY TypeParts DEF RequestType, CountType, PageType
<1>2. \A q \in Request \ {r} : req'[q] = req[q]
  BY <1>1
<1>3. req'[r] = next
  BY <1>1
<1>4. lock' # NoRequest => lock' = lock /\ lock \in Request \ {r}
  BY <1>1 DEF Unlock
<1>5. Latest'
  BY DEF SaveInv, Latest
<1>6. Fresh'
  BY <1>1, <1>2, <1>3 DEF SaveInv, Fresh
<1>7. \A q \in Request : Saving(q)' => q # r /\ Saving(q)
  BY <1>2, <1>3 DEF Saving
<1>8. ASSUME NEW q \in Request, Saving(q)', Refers(q)' PROVE Refers(q) /\ lock' = q
  <2>1. q # r /\ Saving(q) /\ q # NoRequest
    BY <1>7, <1>8, WikiAssumption
  <2>2. CASE page.id = req[q].id
    BY <2>1, <2>2 DEF SaveInv, Holding, Refers, Unlock
  <2>3. CASE ~Exists /\ lock' = q
    BY <1>4, <2>1, <2>3 DEF Refers
  <2>4. QED
    BY <1>2, <1>8, <2>1, <2>2, <2>3 DEF Refers
<1>9. Holding'
  <2>1. lock' # NoRequest => Saving(lock) /\ req[lock].id # 0
    <3>1. lock' # NoRequest => Saving(lock) /\ lock \in Request
      BY <1>4 DEF SaveInv, Holding
    <3>2. QED
      BY <3>1 DEF SaveInv, Fresh, Saving
  <2>2. lock' # NoRequest => Saving(lock)'
    BY <1>2, <1>4, <2>1 DEF Saving
  <2>3. ASSUME lock' # NoRequest, ~Exists, NEW q \in Request \ {lock}
        PROVE  req'[q].id # req'[lock].id
    <3>1. req'[lock] = req[lock] /\ req[q].id # req[lock].id /\ req[r].id # req[lock].id
      BY <1>2, <1>4, <2>3 DEF SaveInv, Holding
    <3>2. req'[q].id \in {0, req[r].id, req[q].id}
      <4>1. CASE q = r
        BY <1>3, <2>3, <4>1
      <4>2. CASE q # r
        BY <1>2, <4>2
      <4>3. QED
        BY <4>1, <4>2
    <3>3. QED
      BY <2>1, <2>3, <3>1, <3>2
  <2>4. QED
    BY <1>4, <1>8, <2>2, <2>3 DEF Holding
<1>10. VersionIsNext'
  <2>1. ASSUME NEW q \in Request, At(q, "commit")', Refers(q)'
        PROVE  lock' = q /\ req'[q].version = Len(revs') + 1
    <3>1. Saving(q)'
      BY <2>1 DEF At, Saving
    <3>2. q # r /\ Refers(q) /\ lock' = q
      BY <1>7, <1>8, <2>1, <3>1
    <3>3. req'[q] = req[q] /\ At(q, "commit")
      BY <1>2, <2>1, <3>2 DEF At
    <3>4. QED
      BY <3>2, <3>3 DEF SaveInv, VersionIsNext
  <2>2. QED
    BY <2>1 DEF VersionIsNext
<1>11. QED
  BY <1>5, <1>6, <1>9, <1>10 DEF SaveInv

LEMMA QuietGoto ==
  ASSUME TypeOK, SaveInv, NEW r \in Request,
         UNCHANGED <<page, revs, ids>>, ~Exists => chunks' = {}, Unlock(r),
         NEW label \in {"select", "insert", "update", "clear", "embed"},
         NEW id \in {0, page.id, req[r].id}, NEW t, NEW v, NEW i,
         label \in {"update", "clear", "embed"} => id # 0,
         Goto(r, label, id, t, v, i)
  PROVE  SaveInv'
<1> DEFINE next == [pc |-> label, id |-> id, text |-> t, version |-> v, part |-> i]
<1>1. req' = [req EXCEPT ![r] = next]
  BY DEF Goto
<1>2. next.pc = label /\ next.id = id
  OBVIOUS
<1> HIDE DEF next
<1>3. QED
  BY <1>1, <1>2, Quiet

LEMMA QuietFinish ==
  ASSUME TypeOK, SaveInv, NEW r \in Request,
         UNCHANGED <<page, revs, ids>>, ~Exists => chunks' = {}, Unlock(r), Finish(r)
  PROVE  SaveInv'
<1>1. Idle.pc = "idle" /\ Idle.id = 0
  BY DEF Idle
<1>2. QED
  BY <1>1, Quiet DEF Finish

LEMMA QuietStep ==
  ASSUME NEW r \in Request, TypeOK, SaveInv,
         \/ Put(r) \/ Restore(r) \/ Select(r) \/ Conflict(r) \/ Refused(r)
         \/ Clear(r) \/ Embed(r) \/ GiveUp(r) \/ Reconcile(r) \/ Crash(r)
  PROVE  SaveInv'
<1>0. ~Saving(r) => lock # r
  BY WikiAssumption DEF SaveInv, Holding
<1>1. ~Exists => chunks = {}
  BY DEF SaveInv, Latest
<1>3. CASE Put(r) \/ Restore(r)
  <2>1. PICK t : Goto(r, "select", 0, t, 0, 0)
    BY <1>3 DEF Put, Restore
  <2>2. UNCHANGED <<page, revs, chunks, ids>> /\ Unlock(r)
    BY <1>0, <1>3 DEF Put, Restore, Unlock, Saving, At
  <2>3. QED
    BY <1>1, <2>1, <2>2, QuietGoto
<1>4. CASE Select(r)
  <2>1. UNCHANGED <<page, revs, chunks, ids>> /\ Unlock(r)
    BY <1>0, <1>4 DEF Select, Unlock, Saving, At
  <2>2. CASE Exists
    BY <1>1, <1>4, <2>1, <2>2, QuietGoto DEF Select, Exists
  <2>3. CASE ~Exists
    BY <1>1, <1>4, <2>1, <2>3, QuietGoto DEF Select, Exists
  <2>4. QED
    BY <2>2, <2>3
<1>5. CASE Conflict(r) \/ Refused(r) \/ GiveUp(r) \/ Crash(r)
  <2>1. Finish(r) /\ UNCHANGED <<page, revs, chunks, ids>>
    BY <1>5 DEF Conflict, Refused, GiveUp, Crash
  <2>2. Unlock(r)
    BY <1>0, <1>5 DEF Conflict, Refused, Rollback, GiveUp, Crash, Unlock, Saving, At
  <2>3. QED
    BY <1>1, <2>1, <2>2, QuietFinish
<1>6. CASE Clear(r) \/ Embed(r)
  <2>1. UNCHANGED <<page, revs, ids>> /\ Unlock(r)
    BY <1>0, <1>6 DEF Clear, Embed, Unlock, Saving, At
  <2>2. req[r].id # 0
    BY <1>6 DEF Clear, Embed, SaveInv, Fresh, At
  <2>3. ~Exists => chunks' = {}
    BY <1>1, <1>6, <2>2 DEF Clear, Embed, Attached, Exists
  <2>4. CASE Finish(r)
    BY <2>1, <2>3, <2>4, QuietFinish
  <2>5. ASSUME NEW i, Goto(r, "embed", req[r].id, req[r].text, 0, i) PROVE SaveInv'
    BY <2>1, <2>2, <2>3, <2>5, QuietGoto
  <2>6. QED
    BY <1>6, <2>4, <2>5 DEF Clear, Embed
<1>7. CASE Reconcile(r)
  <2>1. UNCHANGED <<page, revs, chunks, ids>> /\ Unlock(r) /\ page.id # 0
    BY <1>0, <1>7 DEF Reconcile, Exists, Unlock, Saving, At
  <2>2. QED
    BY <1>1, <1>7, <2>1, QuietGoto DEF Reconcile
<1>8. QED
  BY <1>3, <1>4, <1>5, <1>6, <1>7

\* Where no other save can commit, only r's concerns Holding and VersionIsNext.
LEMMA Alone ==
  ASSUME NEW r \in Request,
         \A q \in Request \ {r} : Saving(q)' => ~Refers(q)',
         Saving(r)' /\ Refers(r)' => lock' = r,
         At(r, "commit")' /\ Refers(r)' => req'[r].version = Len(revs') + 1
  PROVE  /\ \A q \in Request : Saving(q)' /\ Refers(q)' => lock' = q
         /\ VersionIsNext'
BY DEF VersionIsNext, At, Saving

LEMMA SaveStep ==
  ASSUME NEW r \in Request, TypeOK, SaveInv, Insert(r) \/ Update(r) \/ Number(r) \/ Commit(r)
  PROVE  SaveInv'
<1>0. /\ req \in [Request -> Requests] /\ lock \in Request \cup {NoRequest}
      /\ page.id \in Nat /\ ids \in Nat /\ revs \in Seq(Text)
      /\ NoRequest \notin Request
  BY TypeParts, WikiAssumption DEF RequestType, CountType, PageType
<1>1. \A q \in Request \ {r} : req'[q] = req[q]
  BY <1>0 DEF Insert, Update, Number, Commit, Goto
<1>2. \A q \in Request \ {r} : Saving(q)' => Saving(q) /\ req[q].id # 0
  BY <1>1 DEF Saving, SaveInv, Fresh
<1>3. \A q \in Request : req[q].id \in Nat /\ req[q].id <= ids
  BY <1>0 DEF SaveInv, Fresh, Requests
<1>4. CASE Insert(r)
  <2>1. /\ UNCHANGED <<page, revs, chunks>> /\ ~Exists /\ page.id = 0
        /\ lock' = r /\ ids' = ids + 1
        /\ req'[r].pc = "number" /\ req'[r].id = ids + 1
    BY <1>0, <1>4 DEF Insert, Goto, Exists
  <2>2. Latest'
    BY <2>1 DEF SaveInv, Latest, Exists
  <2>3. Fresh'
    BY <1>0, <1>1, <1>3, <2>1 DEF SaveInv, Fresh
  <2>4. \A q \in Request \ {r} : Saving(q)' => ~Refers(q)'
    BY <1>1, <1>2, <2>1 DEF Refers
  <2>5. \A q \in Request \ {r} : req'[q].id # req'[r].id
    BY <1>0, <1>1, <1>3, <2>1
  <2>6. Holding' /\ VersionIsNext'
    BY <2>1, <2>4, <2>5, Alone DEF Holding, Saving, At
  <2>7. QED
    BY <2>2, <2>3, <2>6 DEF SaveInv
<1>5. CASE Update(r)
  <2>1. /\ UNCHANGED <<page, revs, chunks, ids>>
        /\ req'[r].pc = "number" /\ req'[r].id = req[r].id /\ req[r].id # 0
    BY <1>0, <1>5 DEF Update, Goto, SaveInv, Fresh, At
  <2>2. Latest'
    BY <2>1 DEF SaveInv, Latest, Exists
  <2>3. Fresh'
    BY <1>0, <1>1, <1>3, <2>1 DEF SaveInv, Fresh
  <2>4. CASE Exists /\ lock = NoRequest /\ lock' = r
    <3>1. \A q \in Request \ {r} : Saving(q)' => ~Refers(q)'
      BY <1>0, <1>1, <1>2, <2>1, <2>4 DEF SaveInv, Holding, Refers, Exists
    <3>2. Holding' /\ VersionIsNext'
      BY <2>1, <2>4, <3>1, Alone DEF Holding, Exists, Saving, At
    <3>3. QED
      BY <2>2, <2>3, <3>2 DEF SaveInv
  <2>5. CASE ~Exists /\ lock' = lock
    <3>1. lock # r
      BY <1>0, <1>5 DEF Update, SaveInv, Holding, Saving, At
    <3>2. ~Refers(r)'
      BY <2>1, <2>5, <3>1 DEF Refers, Exists
    <3>3. \A q \in Request : Saving(q)' /\ Refers(q)' => Saving(q) /\ Refers(q)
      BY <1>1, <1>2, <2>1, <2>5, <3>2 DEF Refers, Exists
    <3>4. Holding'
      BY <1>0, <1>1, <2>1, <2>5, <3>1, <3>3 DEF SaveInv, Holding, Saving, Exists
    <3>5. VersionIsNext'
      BY <1>1, <2>1, <2>5, <3>2, <3>3 DEF SaveInv, VersionIsNext, Saving, At
    <3>6. QED
      BY <2>2, <2>3, <3>4, <3>5 DEF SaveInv
  <2>6. QED
    BY <1>5, <2>4, <2>5 DEF Update
<1>6. CASE Number(r)
  <2>1. /\ UNCHANGED <<page, revs, chunks, ids, lock>>
        /\ req'[r].pc = "commit" /\ req'[r].id = req[r].id /\ Saving(r)
        /\ req'[r].version = IF page.id = req[r].id THEN Len(revs) + 1 ELSE 1
    BY <1>0, <1>6 DEF Number, Goto, Saving, At
  <2>2. Latest'
    BY <2>1 DEF SaveInv, Latest, Exists
  <2>3. Fresh'
    BY <1>0, <1>1, <1>3, <2>1 DEF SaveInv, Fresh, Saving
  <2>4. \A q \in Request : Saving(q)' = Saving(q) /\ Refers(q)' = Refers(q)
    BY <1>1, <2>1 DEF Saving, Refers, Exists
  <2>5. Holding'
    BY <1>0, <1>1, <2>1, <2>4 DEF SaveInv, Holding, Exists
  <2>6. Refers(r) => req'[r].version = Len(revs) + 1
    BY <2>1 DEF Refers, SaveInv, Latest
  <2>7. VersionIsNext'
    BY <1>1, <2>1, <2>4, <2>6 DEF SaveInv, VersionIsNext, Holding, At
  <2>8. QED
    BY <2>2, <2>3, <2>5, <2>7 DEF SaveInv
<1>7. CASE Commit(r)
  <2>1. /\ Saving(r) /\ Refers(r) /\ page' = [id |-> req[r].id, text |-> req[r].text]
        /\ revs' = Append(revs, req[r].text) /\ ids' = ids
        /\ req'[r].pc = "clear" /\ req'[r].id = req[r].id /\ req[r].id # 0
        /\ lock = r /\ lock' = NoRequest
    BY <1>0, <1>7 DEF Commit, Goto, Unlock, SaveInv, Fresh, Holding, Saving, At
  <2>2. Latest'
    <3>1. req[r].text \in Text
      BY <1>7, Carries, TypeParts DEF Commit, At
    <3>2. Len(revs') = Len(revs) + 1 /\ revs'[Len(revs) + 1] = req[r].text
      BY <1>0, <2>1, <3>1, AppendProperties
    <3>3. Len(revs) \in Nat
      BY <1>0, LenProperties
    <3>4. QED
      BY <2>1, <3>2, <3>3 DEF Latest, Exists
  <2>3. Fresh'
    BY <1>0, <1>1, <1>3, <2>1 DEF SaveInv, Fresh
  <2>4. \A q \in Request \ {r} : Saving(q)' => ~Refers(q)'
    <3>1. SUFFICES ASSUME NEW q \in Request \ {r}, Saving(q), req[q].id = req[r].id
                   PROVE  FALSE
      BY <1>0, <1>1, <1>2, <2>1 DEF Refers, Exists
    <3>2. CASE Exists
      BY <2>1, <3>1, <3>2 DEF SaveInv, Holding, Refers
    <3>3. CASE ~Exists
      BY <1>0, <2>1, <3>1, <3>3 DEF SaveInv, Holding
    <3>4. QED
      BY <3>2, <3>3
  <2>5. Holding' /\ VersionIsNext'
    BY <2>1, <2>4, Alone DEF Holding, Saving, At
  <2>6. QED
    BY <2>2, <2>3, <2>5 DEF SaveInv
<1>8. QED
  BY <1>4, <1>5, <1>6, <1>7

LEMMA DeleteStep ==
  ASSUME TypeOK, SaveInv, Delete PROVE SaveInv'
<1>1. /\ page'.id = 0 /\ revs' = << >> /\ chunks' = {} /\ lock = NoRequest
      /\ UNCHANGED <<lock, ids, writes, req>> /\ ids \in Nat
  BY TypeParts DEF Delete, NoPage, CountType
<1>2. \A q \in Request : Saving(q) => ~Refers(q)'
  BY <1>1, WikiAssumption DEF SaveInv, Fresh, Saving, Refers
<1>3. Latest' /\ Fresh'
  BY <1>1 DEF SaveInv, Latest, Fresh, Exists
<1>4. Holding' /\ VersionIsNext'
  BY <1>1, <1>2 DEF Holding, VersionIsNext, Saving, At
<1>5. QED
  BY <1>3, <1>4 DEF SaveInv

LEMMA SaveInvStep == TypeOK /\ SaveInv /\ [Next]_vars => SaveInv'
<1>1. UNCHANGED vars /\ SaveInv => SaveInv'
  BY DEF vars, SaveInv, Latest, Fresh, Holding, VersionIsNext, Exists, Saving, Refers, At
<1>2. QED
  BY <1>1, QuietStep, SaveStep, DeleteStep DEF Next, Save, Sync

LEMMA SavesRight == Spec => [](TypeOK /\ SaveInv)
<1>1. TypeOK /\ SaveInv /\ [Next]_vars => TypeOK' /\ SaveInv'
  BY TypeStep, SaveInvStep DEF SaveInv
<1>2. QED
  BY <1>1, TypeInit, SaveInit, PTL DEF Spec

-----------------------------------------------------------------------------
Saved(t) == \E v \in DOMAIN revs : revs[v] = t

\* A step that leaves page and history alone.
LEMMA SameHistory ==
  ASSUME Syncing, ChunksFromHistory, UNCHANGED <<page, revs>>,
         \A c \in chunks' : c \in chunks \/ Saved(c.text),
         NEW r \in Request, \A q \in Request \ {r} : req'[q] = req[q],
         req'[r].pc \in {"clear", "embed"} => Saved(req'[r].text)
  PROVE  Syncing' /\ ChunksFromHistory'
BY DEF Syncing, ChunksFromHistory, Saved

LEMMA OriginStep ==
  ASSUME TypeOK, SaveInv, Syncing, ChunksFromHistory, [Next]_vars
  PROVE  Syncing' /\ ChunksFromHistory'
<1>0. /\ req \in [Request -> Requests] /\ lock \in Request \cup {NoRequest}
      /\ page.id \in Nat /\ revs \in Seq(Text)
  BY TypeParts DEF RequestType, CountType, PageType
<1>1. CASE UNCHANGED vars
  BY <1>1 DEF vars, Syncing, ChunksFromHistory
<1>2. ASSUME NEW r \in Request,
             \/ Put(r) \/ Restore(r) \/ Select(r) \/ Insert(r) \/ Conflict(r) \/ Update(r)
             \/ Number(r) \/ Refused(r) \/ GiveUp(r) \/ Crash(r)
      PROVE  Syncing' /\ ChunksFromHistory'
  <2>1. UNCHANGED <<page, revs, chunks>> /\ \A q \in Request \ {r} : req'[q] = req[q]
    BY <1>0, <1>2 DEF Put, Restore, Select, Insert, Conflict, Update, Number, Refused,
                      GiveUp, Crash, Goto, Finish
  <2>2. req'[r].pc \notin {"clear", "embed"}
    BY <1>0, <1>2 DEF Put, Restore, Select, Insert, Conflict, Update, Number, Refused,
                      GiveUp, Crash, Goto, Finish, Idle
  <2>3. QED
    BY <2>1, <2>2, SameHistory
<1>3. ASSUME NEW r \in Request, Clear(r) \/ Embed(r) PROVE Syncing' /\ ChunksFromHistory'
  <2>1. UNCHANGED <<page, revs>> /\ \A q \in Request \ {r} : req'[q] = req[q]
    BY <1>0, <1>3 DEF Clear, Embed, Goto, Finish
  <2>2. CASE page.id = req[r].id
    <3>1. Saved(req[r].text)
      BY <1>3, <2>2 DEF Clear, Embed, Syncing, Saved, At
    <3>2. req'[r].pc \in {"clear", "embed"} => req'[r].text = req[r].text
      BY <1>0, <1>3 DEF Clear, Embed, Goto, Finish, Idle
    <3>3. \A c \in chunks' : c \in chunks \/ c.text = req[r].text
      BY <1>3 DEF Clear, Embed
    <3>4. QED
      BY <2>1, <3>1, <3>2, <3>3, SameHistory
  <2>3. CASE page.id # req[r].id
    <3>1. req'[r].id = req[r].id \/ req'[r].pc = "idle"
      BY <1>0, <1>3 DEF Clear, Embed, Goto, Finish, Idle
    <3>2. chunks' = chunks
      BY <1>3, <2>3 DEF Clear, Embed, Attached
    <3>3. QED
      BY <2>1, <2>3, <3>1, <3>2 DEF Syncing, ChunksFromHistory
  <2>4. QED
    BY <2>2, <2>3
<1>4. ASSUME NEW r \in Request, Reconcile(r) PROVE Syncing' /\ ChunksFromHistory'
  <2>1. UNCHANGED <<page, revs, chunks>> /\ \A q \in Request \ {r} : req'[q] = req[q]
    BY <1>0, <1>4 DEF Reconcile, Goto
  <2>2. Len(revs) \in DOMAIN revs /\ revs[Len(revs)] = page.text
    BY <1>0, <1>4 DEF Reconcile, SaveInv, Latest
  <2>3. req'[r].text = page.text
    BY <1>0, <1>4 DEF Reconcile, Goto
  <2>4. QED
    BY <2>1, <2>2, <2>3, SameHistory DEF Saved
<1>5. ASSUME NEW r \in Request, Commit(r) PROVE Syncing' /\ ChunksFromHistory'
  <2>1. /\ page' = [id |-> req[r].id, text |-> req[r].text] /\ chunks' = chunks
        /\ revs' = Append(revs, req[r].text) /\ req[r].text \in Text
        /\ \A q \in Request \ {r} : req'[q] = req[q]
        /\ req'[r].text = req[r].text
        /\ Refers(r) /\ lock = r /\ NoRequest \notin Request
    BY <1>0, <1>5, Carries, TypeParts, WikiAssumption
       DEF Commit, Goto, SaveInv, Holding, Saving, At
  <2>2. /\ Len(revs) + 1 \in DOMAIN revs' /\ revs'[Len(revs) + 1] = req[r].text
        /\ \A v \in DOMAIN revs : v \in DOMAIN revs' /\ revs'[v] = revs[v]
    BY <1>0, <2>1, AppendProperties
  <2>3. ChunksFromHistory'
    BY <2>1, <2>2 DEF ChunksFromHistory
  <2>4. ASSUME NEW q \in Request \ {r}, req[q].pc \in {"clear", "embed"}, req[q].id = req[r].id
        PROVE  Saved(req[q].text)
    <3>1. Exists
      BY <2>1, <2>4 DEF SaveInv, Holding
    <3>2. page.id = req[q].id
      BY <2>1, <2>4, <3>1 DEF Refers
    <3>3. QED
      BY <2>4, <3>2 DEF Syncing, Saved
  <2>5. Syncing'
    BY <2>1, <2>2, <2>4 DEF Syncing, Saved
  <2>6. QED
    BY <2>3, <2>5
<1>6. CASE Delete
  BY <1>6 DEF Delete, NoPage, SaveInv, Fresh, Syncing, ChunksFromHistory
<1>7. QED
  BY <1>1, <1>2, <1>3, <1>4, <1>5, <1>6 DEF Next, Save, Sync

-----------------------------------------------------------------------------
\* Whatever the texts, the requests and the faults, TypeOK holds: in particular a sync
\* never goes past the last chunk of its text.
THEOREM TypeCorrect == Spec => []TypeOK
BY SavesRight, PTL

\* upsert_page: for any requests a save that can commit holds the row and carries the
\* version that comes next, so uq_wiki_revisions_page_version never refuses it.
THEOREM VersionsInOrder == Spec => []VersionIsNext
<1>1. SaveInv => VersionIsNext
  BY DEF SaveInv
<1>2. QED
  BY <1>1, SavesRight, PTL

\* _sync_embeddings: however syncs overlap with saves, deletions and new pages of the
\* same slug, every chunk is of a text in the history of the page it hangs on.
THEOREM ChunksHaveOrigin == Spec => []ChunksFromHistory
<1>1. Init => Syncing /\ ChunksFromHistory
  BY DEF Init, Syncing, ChunksFromHistory, Idle
<1>2. TypeOK /\ SaveInv /\ Syncing /\ ChunksFromHistory /\ [Next]_vars
        => Syncing' /\ ChunksFromHistory'
  BY OriginStep
<1>3. QED
  BY <1>1, <1>2, SavesRight, PTL DEF Spec

-----------------------------------------------------------------------------
LEMMA HistoryStep ==
  ASSUME TypeOK, SaveInv, [Next]_vars
  PROVE  [History!Next]_<<page.text, revs>>
<1>1. ASSUME NEW r \in Request, Commit(r) PROVE \E t \in Text : History!Save(t)
  <2>1. req[r].text \in Text
    BY <1>1, TypeParts, Carries DEF Commit, At
  <2>2. History!Save(req[r].text)
    BY <1>1 DEF Commit, History!Save
  <2>3. QED
    BY <2>1, <2>2
<1>2. ASSUME Delete PROVE History!Remove
  BY <1>2, TypeParts DEF Delete, Exists, NoPage, PageType, History!Remove
<1>3. ASSUME NEW r \in Request,
             \/ Put(r) \/ Restore(r) \/ Select(r) \/ Insert(r) \/ Conflict(r) \/ Update(r)
             \/ Number(r) \/ Refused(r) \/ Clear(r) \/ Embed(r) \/ GiveUp(r)
             \/ Reconcile(r) \/ Crash(r)
      PROVE  UNCHANGED <<page, revs>>
  BY <1>3 DEF Put, Restore, Select, Insert, Conflict, Update, Number, Refused, Clear, Embed,
              GiveUp, Reconcile, Crash
<1>4. UNCHANGED vars => UNCHANGED <<page, revs>>
  BY DEF vars
<1>5. QED
  BY <1>1, <1>2, <1>3, <1>4 DEF Next, Save, Sync, History!Next

\* services/wiki.py implements the promise of ADR 010: page and revisions change only by
\* a save, which appends the page's new text, and by the deletion of the page.
THEOREM ImplementsHistory == Spec => HistoryKept
<1>1. Init => History!Init
  BY DEF Init, NoPage, History!Init
<1>2. TypeOK /\ SaveInv /\ [Next]_vars => [History!Next]_<<page.text, revs>>
  BY HistoryStep
<1>3. [History!Next]_<<page.text, revs>> => [History!Next]_(History!vars)
  BY DEF History!vars
<1>4. QED
  BY <1>1, <1>2, <1>3, SavesRight, PTL DEF Spec, HistoryKept, History!Spec
=============================================================================
