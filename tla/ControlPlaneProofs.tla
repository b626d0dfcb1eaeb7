------------------------ MODULE ControlPlaneProofs -------------------------
(***************************************************************************)
(* Proofs about the control plane: the copies that workers keep of what    *)
(* its database says (ControlPlaneCache), and the tenants in the hands of  *)
(* administrators (TenantAdmin). The two share no state.                   *)
(***************************************************************************)
EXTENDS ControlPlaneCache, TenantAdmin, FiniteSetTheorems, TLAPS

-----------------------------------------------------------------------------
(***************************************************************************)
(* ControlPlaneCache, for any number of workers and calls, any TTL, any    *)
(* delay and any faults: types, and the time within which a suspension or  *)
(* a revocation binds.                                                     *)
(*                                                                         *)
(* A copy may be wrong only since the database last changed. The invariant *)
(* bounds that time by the copy's age and by how many awaits lie between   *)
(* the database and the place where the copy is.                           *)
(***************************************************************************)

\* v is no copy of what the database says.
Stale(f, v) == v # "none" /\ v # db[f]

\* A value on its way from the database to L1, from L1 to Redis, and from Redis to L1.
CallBound(o) ==
  LET f == call[o].fact  v == call[o].val  wait == call[o].wait IN
  /\ At(o, "cache") /\ Stale(f, v) => since[f] <= wait
  /\ At(o, "l2set") \/ At(o, "l2set_ping") =>
       (Stale(f, v) => since[f] <= wait + Delay)
  /\ At(o, "promote") /\ Stale(f, v) => since[f] <= wait + 2 * Delay + TTL - 1

L2Bound(f) == Stale(f, l2[f].val) => since[f] <= l2[f].age + 2 * Delay
L1Bound(w, f) ==
  Stale(f, l1[w][f].val) => since[f] <= l1[w][f].age + 3 * Delay + TTL - 1
VerdictBound ==
  verdict.val \notin {"none", "error"} =>
    /\ verdict.fact \in Facts
    /\ Stale(verdict.fact, verdict.val) => since[verdict.fact] <= Bound

AgeInv ==
  /\ \A o \in Op : CallBound(o)
  /\ \A f \in Facts : L2Bound(f)
  /\ \A w \in Worker, f \in Facts : L1Bound(w, f)
  /\ VerdictBound

-----------------------------------------------------------------------------
LEMMA Numbers == TTL \in Nat /\ TTL >= 1 /\ Delay \in Nat /\ Bound \in Nat /\ Settled \in Nat
BY CacheAssumption DEF Bound, Settled

LEMMA TypeInit == Init => TypeOK
<1> SUFFICES ASSUME Init PROVE TypeOK
  OBVIOUS
<1> USE Numbers DEF Init, Carrying
<1>1. db \in [Facts -> Value] /\ \A f \in Facts : db[f] \in ValueOf(f)
  BY DEF Value, StatusValue, GrantValue
<1>2. since \in [Facts -> 0..Settled]
  OBVIOUS
<1>3. l1 \in [Worker -> [Facts -> Entry]]
  BY DEF Entry, NoEntry
<1>4. l2 \in [Facts -> Entry] /\ \A f \in Facts : l2[f].age < TTL
  BY DEF Entry, NoEntry
<1>5. QED
  BY <1>1, <1>2, <1>3, <1>4 DEF TypeOK, Idle, CallRow, PC, At, NoVerdict

\* The parts of the type invariant that a call's own step can disturb.
CallType ==
  /\ call \in [Op -> CallRow]
  /\ \A o \in Op : ~At(o, "idle") => call[o].worker \in Worker /\ call[o].fact \in Facts
  /\ \A o \in Op : call[o].pc \in Carrying => call[o].val \in Value
  /\ \A o \in Op : At(o, "delete") => call[o].fact = "status"
DbType ==
  /\ db \in [Facts -> Value] /\ \A f \in Facts : db[f] \in ValueOf(f)
  /\ since \in [Facts -> 0..Settled]
VerdictType == verdict \in [fact : Facts \cup {"none"}, val : Value \cup {"none", "error"}]

LEMMA StartTypes ==
  ASSUME TypeOK, NEW o \in Op, NEW w \in Worker, NEW f \in Facts,
         NEW kind \in {"check", "write"}, NEW label \in PC, NEW v \in Value \cup {"none"},
         label \in Carrying => v \in Value, label = "delete" => f = "status",
         Start(o, kind, w, f, label, v)
  PROVE  CallType'
<1> DEFINE row == [pc |-> label, kind |-> kind, worker |-> w, fact |-> f, val |-> v,
                   wait |-> 0]
<1>1. row \in CallRow
  BY Numbers DEF CallRow
<1>2. call' = [call EXCEPT ![o] = row]
  BY DEF Start
<1>3. QED
  BY <1>1, <1>2 DEF TypeOK, CallType, At

LEMMA GotoTypes ==
  ASSUME TypeOK, NEW o \in Op, ~At(o, "idle"), NEW label \in PC, NEW v \in Value \cup {"none"},
         label \in Carrying => v \in Value, label # "delete", Goto(o, label, v)
  PROVE  CallType'
<1>1. call[o].worker \in Worker /\ call[o].fact \in Facts /\ call[o].kind \in {"check", "write"}
  BY DEF TypeOK, CallRow
<1>2. QED
  BY <1>1, StartTypes DEF Goto

LEMMA IdleType == Idle \in CallRow /\ Idle.pc = "idle"
BY Numbers DEF Idle, CallRow, PC

LEMMA FinishTypes ==
  ASSUME TypeOK, NEW o \in Op, Finish(o)
  PROVE  CallType'
BY IdleType DEF Finish, TypeOK, CallType, At, Carrying

LEMMA CommitTypes ==
  ASSUME TypeOK, NEW f \in Facts, NEW v \in ValueOf(f), Commit(f, v)
  PROVE  DbType'
BY Numbers DEF Commit, TypeOK, DbType, ValueOf, Value, StatusValue, GrantValue

LEMMA TypeStep == TypeOK /\ [Next]_vars => TypeOK'
<1> SUFFICES ASSUME TypeOK, [Next]_vars PROVE TypeOK'
  OBVIOUS
<1> USE Numbers DEF Carrying
<1> DEFINE L1Type == l1 \in [Worker -> [Facts -> Entry]]
           L2Type == l2 \in [Facts -> Entry] /\ \A f \in Facts : l2[f].age < TTL
           LinkType == link \in [Worker -> {"new", "connecting", "up", "down"}]
<1>0. ASSUME CallType', DbType', L1Type', L2Type', LinkType', VerdictType' PROVE TypeOK'
  BY <1>0 DEF TypeOK, CallType, DbType, VerdictType
<1>a. CallType /\ DbType /\ L1Type /\ L2Type /\ LinkType /\ VerdictType
  BY DEF TypeOK, CallType, DbType, VerdictType
<1>b. Silent => VerdictType'
  BY DEF Silent, NoVerdict, VerdictType
<1>c. ASSUME NEW f \in Facts, NEW v \in Value \cup {"error"}, Answer(f, v) PROVE VerdictType'
  BY <1>c DEF Answer, VerdictType
<1>d. ASSUME NEW w \in Worker, NEW f \in Facts, NEW v \in Value, L1Set(w, f, v) PROVE L1Type'
  <2>1. Fresh(v) \in Entry
    BY <1>d DEF Fresh, Entry
  <2>2. QED
    BY <1>a, <1>d, <2>1 DEF L1Set
<1>1. CASE UNCHANGED vars
  BY <1>1 DEF vars, TypeOK, At
<1>2. CASE Tick
  <2>1. CallType'
    <3>1. ASSUME NEW o \in Op
          PROVE  /\ call'[o] \in CallRow
                 /\ call'[o].pc = call[o].pc /\ call'[o].worker = call[o].worker
                 /\ call'[o].fact = call[o].fact /\ call'[o].val = call[o].val
      <4>1. call[o] \in CallRow
        BY <1>a DEF CallType
      <4>2. CASE At(o, "idle")
        BY <1>2, <4>1, <4>2 DEF Tick
      <4>3. CASE ~At(o, "idle")
        <5>1. call'[o] = [call[o] EXCEPT !.wait = @ + 1] /\ call[o].wait < Delay
          BY <1>2, <4>3 DEF Tick
        <5>2. QED
          BY <4>1, <5>1 DEF CallRow
      <4>4. QED
        BY <4>2, <4>3
    <3>2. call' = [o \in Op |-> call'[o]]
      BY <1>2 DEF Tick
    <3>3. QED
      BY <1>a, <3>1, <3>2 DEF CallType, At
  <2>2. DbType'
    BY <1>2, <1>a DEF Tick, DbType
  <2>3. ASSUME NEW e \in Entry PROVE Older(e, TTL) \in Entry
    BY DEF Older, Entry, NoEntry
  <2>4. L1Type'
    BY <1>2, <1>a, <2>3 DEF Tick
  <2>5. ASSUME NEW e \in Entry, e.age < TTL
        PROVE  Older(e, TTL - 1) \in Entry /\ Older(e, TTL - 1).age < TTL
    BY <2>5 DEF Older, Entry, NoEntry
  <2>6. L2Type'
    BY <1>2, <1>a, <2>5 DEF Tick
  <2>7. QED
    BY <1>0, <1>2, <1>a, <1>b, <2>1, <2>2, <2>4, <2>6 DEF Tick
<1>3. ASSUME NEW w \in Worker, Restart(w) PROVE TypeOK'
  <2>1. NoEntry \in Entry
    BY DEF NoEntry, Entry
  <2>2. CallType'
    BY <1>3, <1>a, IdleType DEF Restart, CallType, At
  <2>3. L1Type'
    BY <1>3, <1>a, <2>1 DEF Restart
  <2>4. QED
    BY <1>0, <1>3, <1>a, <1>b, <2>2, <2>3 DEF Restart, DbType
<1>4. ASSUME NEW w \in Worker, NEW f \in Facts, EvictL1(w, f) PROVE TypeOK'
  <2>1. NoEntry \in Entry
    BY DEF NoEntry, Entry
  <2>2. QED
    BY <1>0, <1>4, <1>a, <1>b, <2>1 DEF EvictL1, DbType, CallType, At
<1>5. ASSUME NEW o \in Op, NEW w \in Worker, NEW f \in Facts, Check(o, w, f) PROVE TypeOK'
  <2>1. CASE L1Hit(w, f) /\ Answer(f, l1[w][f].val) /\ UNCHANGED call
    <3>1. l1[w][f].val \in Value
      BY <1>a, <2>1 DEF L1Hit, Entry
    <3>2. QED
      BY <1>0, <1>5, <1>a, <1>c, <2>1, <3>1 DEF Check, L1Hit, DbType, CallType, At
  <2>2. CASE Start(o, "check", w, f, "l2get", "none") /\ Silent /\ UNCHANGED l1
    BY <1>0, <1>5, <1>a, <1>b, <2>2, StartTypes DEF Check, DbType, PC
  <2>3. QED
    BY <1>5, <2>1, <2>2 DEF Check
<1>6. ASSUME NEW o \in Op, Connect(o) \/ Pinged(o) PROVE TypeOK'
  <2>1. call[o].worker \in Worker /\ ~At(o, "idle")
    BY <1>6, <1>a DEF Connect, Pinged, CallType, At
  <2>2. CallType'
    <3>1. PICK label \in {"l2get", "l2get_ping", "l2set", "l2set_ping"} :
            /\ call' = [call EXCEPT ![o].pc = label]
            /\ label \in Carrying => call[o].pc \in Carrying
      BY <1>6 DEF Connect, Pinged, At
    <3>2. label \in PC /\ label # "idle" /\ call[o] \in CallRow
      BY <1>a DEF CallType, PC
    <3>3. [call[o] EXCEPT !.pc = label] \in CallRow
      BY <3>2 DEF CallRow
    <3>4. call' = [call EXCEPT ![o] = [call[o] EXCEPT !.pc = label]]
      BY <3>1, <1>a DEF CallType
    <3>5. QED
      BY <1>a, <2>1, <3>1, <3>2, <3>3, <3>4 DEF CallType, At, CallRow
  <2>3. LinkType'
    BY <1>6, <1>a, <2>1 DEF Connect, Pinged
  <2>4. QED
    BY <1>0, <1>6, <1>a, <1>b, <2>2, <2>3 DEF Connect, Pinged, DbType
<1>7. ASSUME NEW o \in Op, L2Get(o) PROVE TypeOK'
  <2>1. call[o].fact \in Facts /\ ~At(o, "idle")
    BY <1>7, <1>a DEF L2Get, CallType, At
  <2>2. l2[call[o].fact].val \in Value \cup {"none"}
    BY <1>a, <2>1 DEF Entry
  <2>3. CallType'
    BY <1>7, <2>1, <2>2, GotoTypes DEF L2Get, PC
  <2>4. QED
    BY <1>0, <1>7, <1>a, <1>b, <2>3 DEF L2Get, DbType
<1>8. ASSUME NEW o \in Op, Promote(o) PROVE TypeOK'
  <2>1. call[o].fact \in Facts /\ call[o].worker \in Worker
    BY <1>8, <1>a DEF Promote, CallType, At
  <2>2. call[o].val \in Value
    BY <1>8, <1>a DEF Promote, CallType, At
  <2>3. QED
    BY <1>0, <1>8, <1>a, <1>c, <1>d, <2>1, <2>2, FinishTypes DEF Promote, DbType
<1>9. ASSUME NEW o \in Op, DbRead(o) PROVE TypeOK'
  <2>1. call[o].fact \in Facts /\ ~At(o, "idle")
    BY <1>9, <1>a DEF DbRead, CallType, At
  <2>2. db[call[o].fact] \in Value
    BY <1>a, <2>1 DEF DbType
  <2>3. CallType'
    BY <1>9, <2>1, <2>2, GotoTypes, FinishTypes DEF DbRead, PC
  <2>4. VerdictType'
    BY <1>9, <1>b, <1>c, <2>1 DEF DbRead, Value, StatusValue
  <2>5. QED
    BY <1>0, <1>9, <1>a, <2>3, <2>4 DEF DbRead, DbType
<1>10. ASSUME NEW o \in Op, CacheL1(o) PROVE TypeOK'
  <2>1. call[o].fact \in Facts /\ call[o].worker \in Worker /\ ~At(o, "idle")
    BY <1>10, <1>a DEF CacheL1, CallType, At
  <2>2. call[o].val \in Value
    BY <1>10, <1>a DEF CacheL1, CallType, At
  <2>3. CallType'
    BY <1>10, <2>1, <2>2, GotoTypes DEF CacheL1, PC
  <2>4. QED
    BY <1>0, <1>10, <1>a, <1>b, <1>d, <2>1, <2>2, <2>3 DEF CacheL1, DbType
<1>11. ASSUME NEW o \in Op, CacheL2(o) PROVE TypeOK'
  <2>1. call[o].fact \in Facts /\ call[o].val \in Value
    BY <1>11, <1>a DEF CacheL2, CallType, At
  <2>2. Fresh(call[o].val) \in Entry /\ Fresh(call[o].val).age < TTL
    BY <2>1 DEF Fresh, Entry
  <2>3. L2Type'
    BY <1>11, <1>a, <2>1, <2>2 DEF CacheL2
  <2>4. VerdictType'
    BY <1>11, <1>b, <1>c, <2>1 DEF CacheL2
  <2>5. QED
    BY <1>0, <1>11, <1>a, <2>3, <2>4, FinishTypes DEF CacheL2, DbType
<1>12. ASSUME NEW o \in Op, NEW w \in Worker,
              \/ UpdateTenant(o, w) \/ DecommissionCheck(o, w)
              \/ Grant(o, w) \/ Revoke(o, w)
       PROVE  TypeOK'
  <2>1. CallType'
    BY <1>12, StartTypes DEF UpdateTenant, DecommissionCheck, Grant, Revoke, Writing, PC,
       Value, StatusValue, GrantValue
  <2>2. DbType'
    BY <1>12, <1>a, CommitTypes DEF UpdateTenant, DecommissionCheck, Grant, Revoke,
       ValueOf, StatusValue, GrantValue, DbType
  <2>3. QED
    BY <1>0, <1>12, <1>a, <1>b, <2>1, <2>2
       DEF UpdateTenant, DecommissionCheck, Grant, Revoke
<1>13. ASSUME NEW o \in Op, DecommissionDelete(o) PROVE TypeOK'
  <2>1. ~At(o, "idle") /\ "deleted" \in Value
    BY <1>13 DEF DecommissionDelete, At, Value, StatusValue
  <2>2. CallType'
    BY <1>13, <2>1, GotoTypes DEF DecommissionDelete, PC
  <2>3. "status" \in Facts
    BY <1>13, <1>a DEF DecommissionDelete, CallType, At
  <2>4. DbType'
    BY <1>13, <2>3, CommitTypes DEF DecommissionDelete, ValueOf, StatusValue
  <2>5. QED
    BY <1>0, <1>13, <1>a, <1>b, <2>2, <2>4 DEF DecommissionDelete
<1>14. QED
  BY <1>1, <1>2, <1>3, <1>4, <1>5, <1>6, <1>7, <1>8, <1>9, <1>10, <1>11, <1>12, <1>13
     DEF Next, Handle

\* ControlPlaneCache: the variables keep their types, with any faults.
THEOREM TypeCorrect == Spec => []TypeOK
BY TypeInit, TypeStep, PTL DEF Spec

-----------------------------------------------------------------------------
LEMMA AgeInit == Init => AgeInv
BY DEF Init, AgeInv, CallBound, L2Bound, L1Bound, VerdictBound, Stale, At, Idle, NoEntry,
   NoVerdict

\* A commit either leaves a fact alone or starts its count anew.
LEMMA CommitBound ==
  ASSUME TypeOK, NEW f \in Facts, NEW v \in Value, Commit(f, v), NEW g \in Facts
  PROVE  since'[g] = 0 \/ (db'[g] = db[g] /\ since'[g] = since[g])
BY DEF Commit, TypeOK

\* What a commit and the start of a write leave of the invariant.
LEMMA CommitAge ==
  ASSUME TypeOK, TypeOK', AgeInv, NEW o \in Op, NEW f \in Facts, NEW v \in Value,
         Commit(f, v), NEW kind, NEW w \in Worker, Start(o, kind, w, f, "cache", v),
         Silent, UNCHANGED <<l1, l2>>
  PROVE  AgeInv'
<1> USE Numbers
<1>2. ASSUME NEW g \in Facts PROVE L2Bound(g)'
  <2>1. since'[g] = 0 \/ (db'[g] = db[g] /\ since'[g] = since[g])
    BY CommitBound
  <2>2. L2Bound(g) /\ l2[g].age \in Nat
    BY DEF AgeInv, TypeOK, Entry
  <2>3. QED
    BY <2>1, <2>2 DEF L2Bound, Stale
<1>3. ASSUME NEW w1 \in Worker, NEW g \in Facts PROVE L1Bound(w1, g)'
  <2>1. since'[g] = 0 \/ (db'[g] = db[g] /\ since'[g] = since[g])
    BY CommitBound
  <2>2. L1Bound(w1, g) /\ l1[w1][g].age \in Nat
    BY DEF AgeInv, TypeOK, Entry
  <2>3. QED
    BY <2>1, <2>2 DEF L1Bound, Stale
<1>4. VerdictBound'
  BY DEF Silent, NoVerdict, VerdictBound
<1>5. ASSUME NEW p \in Op PROVE CallBound(p)'
  <2>1. CASE p = o
    <3>1. call'[p].pc = "cache" /\ call'[p].fact = f /\ call'[p].val = v
      BY <2>1 DEF Start, TypeOK
    <3>2. db'[f] = v
      BY DEF Commit, TypeOK
    <3>3. QED
      BY <3>1, <3>2 DEF CallBound, At, Stale
  <2>2. CASE p # o /\ call[p].pc \in Carrying
    <3>1. call'[p] = call[p]
      BY <2>2 DEF Start, TypeOK
    <3>2. call[p].fact \in Facts /\ call[p].wait \in Nat
      BY <2>2 DEF TypeOK, CallRow, Carrying, At
    <3>3. /\ since'[call[p].fact] = 0
             \/ /\ db'[call[p].fact] = db[call[p].fact]
                /\ since'[call[p].fact] = since[call[p].fact]
      BY <3>2, CommitBound
    <3>4. CallBound(p)
      BY DEF AgeInv
    <3>5. QED
      BY <2>2, <3>1, <3>2, <3>3, <3>4 DEF CallBound, At, Stale
  <2>3. CASE p # o /\ call[p].pc \notin Carrying
    <3>1. call'[p] = call[p]
      BY <2>3 DEF Start, TypeOK
    <3>2. QED
      BY <2>3, <3>1 DEF CallBound, At, Carrying
  <2>4. QED
    BY <2>1, <2>2, <2>3
<1>6. QED
  BY <1>2, <1>3, <1>4, <1>5 DEF AgeInv

\* Without a commit, the calls that do not move keep their bound.
LEMMA OthersKeep ==
  ASSUME AgeInv, NEW p \in Op, UNCHANGED <<db, since>>, call'[p] = call[p]
  PROVE  CallBound(p)'
BY DEF AgeInv, CallBound, At, Stale

LEMMA CopiesKeep ==
  ASSUME AgeInv, UNCHANGED <<db, since>>
  PROVE  /\ \A f \in Facts : l2'[f] = l2[f] => L2Bound(f)'
         /\ \A w \in Worker, f \in Facts : l1'[w][f] = l1[w][f] => L1Bound(w, f)'
BY DEF AgeInv, L2Bound, L1Bound, Stale

LEMMA SilentKeeps == Silent => VerdictBound'
BY DEF Silent, NoVerdict, VerdictBound

\* A tick adds one to every age and to no count more.
LEMMA TickAge ==
  ASSUME TypeOK, TypeOK', AgeInv, Tick
  PROVE  AgeInv'
<1> USE Numbers
<1>1. \A f \in Facts : since'[f] <= since[f] + 1 /\ since[f] \in Nat /\ since'[f] \in Nat
  BY DEF Tick, TypeOK
<1>2. ASSUME NEW f \in Facts PROVE L2Bound(f)'
  <2>1. l2'[f] = Older(l2[f], TTL - 1) /\ l2[f] \in Entry
    BY DEF Tick, TypeOK
  <2>2. CASE l2'[f] = NoEntry
    BY <2>2 DEF L2Bound, NoEntry, Stale
  <2>3. CASE l2'[f] = [l2[f] EXCEPT !.age = @ + 1]
    <3>1. l2'[f].val = l2[f].val /\ l2'[f].age = l2[f].age + 1 /\ l2[f].age \in Nat
      BY <2>1, <2>3 DEF Entry
    <3>2. QED
      BY <1>1, <3>1 DEF Tick, AgeInv, L2Bound, Stale
  <2>4. QED
    BY <2>1, <2>2, <2>3 DEF Older
<1>3. ASSUME NEW w \in Worker, NEW f \in Facts PROVE L1Bound(w, f)'
  <2>1. l1'[w][f] = Older(l1[w][f], TTL) /\ l1[w][f] \in Entry
    BY DEF Tick, TypeOK
  <2>2. CASE l1'[w][f] = NoEntry
    BY <2>2 DEF L1Bound, NoEntry, Stale
  <2>3. CASE l1'[w][f] = [l1[w][f] EXCEPT !.age = @ + 1]
    <3>1. /\ l1'[w][f].val = l1[w][f].val /\ l1'[w][f].age = l1[w][f].age + 1
          /\ l1[w][f].age \in Nat
      BY <2>1, <2>3 DEF Entry
    <3>2. QED
      BY <1>1, <3>1 DEF Tick, AgeInv, L1Bound, Stale
  <2>4. QED
    BY <2>1, <2>2, <2>3 DEF Older
<1>4. ASSUME NEW o \in Op PROVE CallBound(o)'
  <2>1. CASE At(o, "idle")
    BY <2>1 DEF Tick, CallBound, At
  <2>2. CASE ~At(o, "idle")
    <3>1. call[o] \in CallRow /\ call'[o] = [call[o] EXCEPT !.wait = @ + 1]
      BY <2>2 DEF Tick, TypeOK
    <3>2. /\ call'[o].pc = call[o].pc /\ call'[o].fact = call[o].fact
          /\ call'[o].val = call[o].val /\ call'[o].wait = call[o].wait + 1
          /\ call[o].wait \in Nat
      BY <3>1 DEF CallRow
    <3>3. call[o].fact \in Facts
      BY <2>2 DEF TypeOK
    <3>4. CallBound(o) /\ db' = db
      BY DEF AgeInv, Tick
    <3>5. QED
      BY <1>1, <3>2, <3>3, <3>4 DEF CallBound, At, Stale
  <2>3. QED
    BY <2>1, <2>2
<1>5. QED
  BY <1>2, <1>3, <1>4, SilentKeeps DEF AgeInv, Tick

LEMMA AgeStep ==
  ASSUME TypeOK, TypeOK', AgeInv, [Next]_vars
  PROVE  AgeInv'
<1> USE Numbers
<1>1. CASE UNCHANGED vars
  <2>1. UNCHANGED <<db, since, l1, l2, call, verdict>>
    BY <1>1 DEF vars
  <2>2. VerdictBound'
    BY <2>1 DEF AgeInv, VerdictBound, Stale
  <2>3. QED
    BY <2>1, <2>2, OthersKeep, CopiesKeep DEF AgeInv
<1>2. CASE Tick
  BY <1>2, TickAge
<1>3. ASSUME NEW w \in Worker, Restart(w) PROVE AgeInv'
  <2>1. ASSUME NEW o \in Op PROVE CallBound(o)'
    <3>1. CASE call'[o] = Idle
      BY <3>1 DEF CallBound, At, Idle
    <3>2. CASE call'[o] = call[o]
      BY <1>3, <3>2, OthersKeep DEF Restart
    <3>3. QED
      BY <1>3, <3>1, <3>2 DEF Restart
  <2>2. ASSUME NEW v \in Worker, NEW f \in Facts PROVE L1Bound(v, f)'
    <3>1. l1'[v][f] = NoEntry \/ l1'[v][f] = l1[v][f]
      BY <1>3 DEF Restart, TypeOK
    <3>2. QED
      BY <1>3, <3>1, CopiesKeep DEF Restart, L1Bound, NoEntry, Stale
  <2>3. QED
    BY <1>3, <2>1, <2>2, CopiesKeep, SilentKeeps DEF Restart, AgeInv
<1>4. ASSUME NEW w \in Worker, NEW f \in Facts, EvictL1(w, f) PROVE AgeInv'
  <2>1. ASSUME NEW v \in Worker, NEW g \in Facts PROVE L1Bound(v, g)'
    <3>1. l1'[v][g] = NoEntry \/ l1'[v][g] = l1[v][g]
      BY <1>4 DEF EvictL1, TypeOK
    <3>2. QED
      BY <1>4, <3>1, CopiesKeep DEF EvictL1, L1Bound, NoEntry, Stale
  <2>2. QED
    BY <1>4, <2>1, OthersKeep, CopiesKeep, SilentKeeps DEF EvictL1, AgeInv
<1>5. ASSUME NEW o \in Op, NEW w \in Worker, NEW f \in Facts, Check(o, w, f) PROVE AgeInv'
  <2>1. CASE L1Hit(w, f) /\ Answer(f, l1[w][f].val) /\ UNCHANGED call
    <3>1. L1Bound(w, f) /\ l1[w][f].age \in 0..TTL /\ since[f] \in Nat
      BY DEF AgeInv, TypeOK, Entry
    <3>2. Stale(f, l1[w][f].val) => since[f] <= Bound
      BY <3>1 DEF L1Bound, Bound
    <3>3. verdict'.fact = f /\ verdict'.val = l1[w][f].val /\ UNCHANGED <<db, since>>
      BY <1>5, <2>1 DEF Check, Answer
    <3>4. VerdictBound'
      BY <3>2, <3>3 DEF VerdictBound, Stale, Bound
    <3>5. QED
      BY <1>5, <2>1, <3>4, OthersKeep, CopiesKeep DEF Check, L1Hit, AgeInv
  <2>2. CASE Start(o, "check", w, f, "l2get", "none") /\ Silent /\ UNCHANGED l1
    <3>1. ASSUME NEW p \in Op PROVE CallBound(p)'
      <4>1. CASE p = o
        BY <2>2, <4>1 DEF Start, TypeOK, CallBound, At
      <4>2. CASE p # o
        BY <1>5, <2>2, <4>2, OthersKeep DEF Check, Start, TypeOK
      <4>3. QED
        BY <4>1, <4>2
    <3>2. QED
      BY <1>5, <2>2, <3>1, CopiesKeep, SilentKeeps DEF Check, AgeInv
  <2>3. QED
    BY <1>5, <2>1, <2>2 DEF Check
<1>6. ASSUME NEW o \in Op, Connect(o) \/ Pinged(o) PROVE AgeInv'
  <2>1. PICK label \in PC :
          /\ call' = [call EXCEPT ![o].pc = label]
          /\ label \in {"l2set", "l2set_ping"} => call[o].pc \in {"l2set", "l2set_ping"}
          /\ label \notin {"cache", "promote"}
    BY <1>6 DEF Connect, Pinged, At, PC
  <2>2. ASSUME NEW p \in Op PROVE CallBound(p)'
    <3>1. CASE p = o
      <4>1. call[o] \in CallRow /\ CallBound(o)
        BY DEF AgeInv, TypeOK
      <4>2. /\ call'[p].pc = label /\ call'[p].fact = call[o].fact
            /\ call'[p].val = call[o].val /\ call'[p].wait = call[o].wait
        <5>0. call' = [call EXCEPT ![o] = [call[o] EXCEPT !.pc = label]]
          BY <2>1 DEF TypeOK
        <5>1. call'[p] = [call[o] EXCEPT !.pc = label]
          BY <5>0, <3>1 DEF TypeOK
        <5>2. QED
          BY <4>1, <5>1 DEF CallRow
      <4>3. UNCHANGED <<db, since>>
        BY <1>6 DEF Connect, Pinged
      <4>4. /\ Stale(call[p].fact, call[p].val)' <=> Stale(call[o].fact, call[o].val)
            /\ since'[call'[p].fact] = since[call[o].fact]
        BY <4>2, <4>3 DEF Stale
      <4>5. label \in {"l2set", "l2set_ping"} /\ Stale(call[o].fact, call[o].val)
              => since[call[o].fact] <= call[o].wait + Delay
        <5>1. CASE label \in {"l2set", "l2set_ping"}
          BY <2>1, <4>1, <5>1 DEF CallBound, At
        <5>2. QED
          BY <5>1
      <4>6. label \notin {"cache", "promote"}
        BY <2>1
      <4>7. QED
        BY <4>2, <4>4, <4>5, <4>6, Zenon DEF CallBound, At
    <3>2. CASE p # o
      BY <1>6, <2>1, <3>2, OthersKeep DEF Connect, Pinged, TypeOK
    <3>3. QED
      BY <3>1, <3>2
  <2>3. QED
    BY <1>6, <2>2, CopiesKeep, SilentKeeps DEF Connect, Pinged, AgeInv
<1>7. ASSUME NEW o \in Op, L2Get(o) PROVE AgeInv'
  <2>1. UNCHANGED <<db, since, l1, l2>> /\ Silent
    BY <1>7 DEF L2Get
  <2>2. call[o].fact \in Facts
    BY <1>7 DEF L2Get, TypeOK, At
  <2>3. L2Bound(call[o].fact) /\ l2[call[o].fact].age \in Nat /\ l2[call[o].fact].age <= TTL - 1
    BY <2>2 DEF AgeInv, TypeOK, Entry
  <2>4. ASSUME NEW p \in Op PROVE CallBound(p)'
    <3>1. CASE p = o
      BY <1>7, <2>1, <2>3, <3>1 DEF L2Get, Goto, Start, TypeOK, CallBound, L2Bound, At, Stale
    <3>2. CASE p # o
      BY <1>7, <3>2, OthersKeep DEF L2Get, Goto, Start, TypeOK
    <3>3. QED
      BY <3>1, <3>2
  <2>5. QED
    BY <2>1, <2>4, CopiesKeep, SilentKeeps DEF AgeInv
<1>8. ASSUME NEW o \in Op, Promote(o) PROVE AgeInv'
  <2>1. UNCHANGED <<db, since, l2>> /\ Answer(call[o].fact, call[o].val)
    BY <1>8 DEF Promote
  <2>2. /\ CallBound(o) /\ At(o, "promote") /\ call[o].wait \in 0..Delay
        /\ call[o].fact \in Facts /\ call[o].worker \in Worker
    BY <1>8 DEF Promote, AgeInv, TypeOK, CallRow, At
  <2>3. Stale(call[o].fact, call[o].val) => since[call[o].fact] <= 3 * Delay + TTL - 1
    BY <2>2 DEF CallBound, TypeOK
  <2>4. ASSUME NEW p \in Op PROVE CallBound(p)'
    <3>1. CASE p = o
      BY <1>8, <3>1 DEF Promote, Finish, TypeOK, CallBound, At, Idle
    <3>2. CASE p # o
      BY <1>8, <3>2, OthersKeep DEF Promote, Finish, TypeOK
    <3>3. QED
      BY <3>1, <3>2
  <2>5. ASSUME NEW v \in Worker, NEW f \in Facts PROVE L1Bound(v, f)'
    <3>1. CASE v = call[o].worker /\ f = call[o].fact
      <4>1. l1'[v][f] = Fresh(call[o].val)
        BY <1>8, <2>2, <3>1 DEF Promote, L1Set, TypeOK
      <4>2. QED
        BY <2>1, <2>3, <3>1, <4>1 DEF L1Bound, Fresh, Stale
    <3>2. CASE l1'[v][f] = l1[v][f]
      BY <2>1, <3>2, CopiesKeep
    <3>3. QED
      BY <1>8, <3>1, <3>2 DEF Promote, L1Set, TypeOK
  <2>6. VerdictBound'
    <3>1. verdict'.fact = call[o].fact /\ verdict'.val = call[o].val
      BY <2>1 DEF Answer
    <3>2. Stale(call[o].fact, call[o].val) => since[call[o].fact] <= Bound
      BY <2>2, <2>3 DEF Bound, TypeOK
    <3>3. QED
      BY <2>1, <2>2, <3>1, <3>2 DEF VerdictBound, Stale, Bound
  <2>7. QED
    BY <2>1, <2>4, <2>5, <2>6, CopiesKeep DEF AgeInv
<1>9. ASSUME NEW o \in Op, DbRead(o) PROVE AgeInv'
  <2>1. UNCHANGED <<db, since, l1, l2>>
    BY <1>9 DEF DbRead
  <2>2. call[o].fact \in Facts
    BY <1>9 DEF DbRead, TypeOK, At
  <2>3. ASSUME NEW p \in Op PROVE CallBound(p)'
    <3>1. CASE p = o
      BY <1>9, <2>1, <3>1
         DEF DbRead, Goto, Start, Finish, Idle, TypeOK, CallBound, At, Stale
    <3>2. CASE p # o
      BY <1>9, <3>2, OthersKeep DEF DbRead, Goto, Start, Finish, TypeOK
    <3>3. QED
      BY <3>1, <3>2
  <2>4. VerdictBound'
    BY <1>9, <2>1, <2>2 DEF DbRead, VerdictBound, Answer, Silent, NoVerdict, Stale
  <2>5. QED
    BY <2>1, <2>3, <2>4, CopiesKeep DEF AgeInv
<1>10. ASSUME NEW o \in Op, CacheL1(o) PROVE AgeInv'
  <2>1. UNCHANGED <<db, since, l2>> /\ Silent
    BY <1>10 DEF CacheL1
  <2>2. /\ CallBound(o) /\ At(o, "cache") /\ call[o].wait \in 0..Delay
        /\ call[o].fact \in Facts /\ call[o].worker \in Worker
    BY <1>10 DEF CacheL1, AgeInv, TypeOK, CallRow, At
  <2>3. Stale(call[o].fact, call[o].val) => since[call[o].fact] <= Delay
    BY <2>2 DEF CallBound, TypeOK
  <2>4. ASSUME NEW p \in Op PROVE CallBound(p)'
    <3>1. CASE p = o
      BY <1>10, <2>1, <2>2, <2>3, <3>1 DEF CacheL1, Goto, Start, TypeOK, CallBound, At, Stale
    <3>2. CASE p # o
      BY <1>10, <3>2, OthersKeep DEF CacheL1, Goto, Start, TypeOK
    <3>3. QED
      BY <3>1, <3>2
  <2>5. ASSUME NEW v \in Worker, NEW f \in Facts PROVE L1Bound(v, f)'
    <3>1. CASE v = call[o].worker /\ f = call[o].fact
      <4>1. l1'[v][f] = Fresh(call[o].val)
        BY <1>10, <2>2, <3>1 DEF CacheL1, L1Set, TypeOK
      <4>2. since[f] \in Nat
        BY DEF TypeOK
      <4>3. QED
        BY <2>1, <2>3, <3>1, <4>1, <4>2 DEF L1Bound, Fresh, Stale
    <3>2. CASE l1'[v][f] = l1[v][f]
      BY <2>1, <3>2, CopiesKeep
    <3>3. QED
      BY <1>10, <3>1, <3>2 DEF CacheL1, L1Set, TypeOK
  <2>6. QED
    BY <2>1, <2>4, <2>5, SilentKeeps, CopiesKeep DEF AgeInv
<1>11. ASSUME NEW o \in Op, CacheL2(o) PROVE AgeInv'
  <2>1. UNCHANGED <<db, since, l1>>
    BY <1>11 DEF CacheL2
  <2>2. /\ CallBound(o) /\ At(o, "l2set") /\ call[o].wait \in 0..Delay
        /\ call[o].fact \in Facts /\ since[call[o].fact] \in Nat
    BY <1>11 DEF CacheL2, AgeInv, TypeOK, CallRow, At
  <2>3. Stale(call[o].fact, call[o].val) => since[call[o].fact] <= 2 * Delay
    BY <2>2 DEF CallBound
  <2>4. ASSUME NEW p \in Op PROVE CallBound(p)'
    <3>1. CASE p = o
      BY <1>11, <3>1 DEF CacheL2, Finish, TypeOK, CallBound, At, Idle
    <3>2. CASE p # o
      BY <1>11, <3>2, OthersKeep DEF CacheL2, Finish, TypeOK
    <3>3. QED
      BY <3>1, <3>2
  <2>5. ASSUME NEW f \in Facts PROVE L2Bound(f)'
    <3>1. CASE f = call[o].fact /\ l2'[f] = Fresh(call[o].val)
      BY <2>1, <2>3, <3>1 DEF L2Bound, Fresh, Stale
    <3>2. CASE l2'[f] = l2[f]
      BY <2>1, <3>2, CopiesKeep
    <3>3. QED
      BY <1>11, <3>1, <3>2 DEF CacheL2, TypeOK
  <2>6. VerdictBound'
    BY <1>11, <2>1, <2>2, <2>3 DEF CacheL2, VerdictBound, Answer, Silent, NoVerdict, Stale, Bound
  <2>7. QED
    BY <2>1, <2>4, <2>5, <2>6, CopiesKeep DEF AgeInv
<1>12. ASSUME NEW o \in Op, NEW w \in Worker, DecommissionCheck(o, w) PROVE AgeInv'
  <2>1. UNCHANGED <<db, since, l1, l2>> /\ Silent
    BY <1>12 DEF DecommissionCheck
  <2>2. ASSUME NEW p \in Op PROVE CallBound(p)'
    <3>1. CASE p = o
      BY <1>12, <3>1 DEF DecommissionCheck, Writing, Start, TypeOK, CallBound, At
    <3>2. CASE p # o
      BY <1>12, <3>2, OthersKeep DEF DecommissionCheck, Writing, Start, TypeOK
    <3>3. QED
      BY <3>1, <3>2
  <2>3. QED
    BY <2>1, <2>2, CopiesKeep, SilentKeeps DEF AgeInv
<1>13. ASSUME NEW o \in Op, NEW w \in Worker,
              UpdateTenant(o, w) \/ Grant(o, w) \/ Revoke(o, w)
       PROVE  AgeInv'
  BY <1>13, CommitAge DEF UpdateTenant, Grant, Revoke, Writing, Value, StatusValue, GrantValue
<1>14. ASSUME NEW o \in Op, DecommissionDelete(o) PROVE AgeInv'
  <2>1. call[o].worker \in Worker /\ call[o].fact = "status" /\ "status" \in Facts
    BY <1>14 DEF DecommissionDelete, TypeOK, At
  <2>2. QED
    BY <1>14, <2>1, CommitAge DEF DecommissionDelete, Goto, Value, StatusValue
<1>15. QED
  BY <1>1, <1>2, <1>3, <1>4, <1>5, <1>6, <1>7, <1>8, <1>9, <1>10, <1>11, <1>12, <1>13, <1>14
     DEF Next, Handle

\* core/auth.py over core/cache.py: for every TTL and delay, and with any number of
\* workers, calls and faults, a suspension, a revocation and their reversal bind
\* within 2 TTL + 3 Delay - 1 ticks.
THEOREM RevocationAlwaysBinds == Spec => []RevocationBinds
<1>1. TypeOK /\ TypeOK' /\ AgeInv /\ [Next]_vars => AgeInv'
  BY AgeStep
<1>2. AgeInv => RevocationBinds
  BY DEF AgeInv, VerdictBound, Stale, RevocationBinds, Misjudged
<1>3. QED
  BY <1>1, <1>2, AgeInit, TypeCorrect, PTL DEF Spec

-----------------------------------------------------------------------------
(***************************************************************************)
(* TenantAdmin, for every set of requests of administrators, in any order: *)
(* what each was told is what became of the tenant.                        *)
(*                                                                         *)
(* A request knows what it has done only by its stage, so the invariant    *)
(* says of every stage what has happened by then, or by which fault it has *)
(* not; a tenant that was inserted is never inserted again, and is not     *)
(* there once a request has deleted it.  Settings that an update wrote are *)
(* found unset by nobody but the requests that had read them before, and   *)
(* then the update has marked that it was overlapped.                      *)
(***************************************************************************)

Ids == {Original} \cup Request
Places == Ids \cup {Elsewhere}
Stages == {"new", "insert", "seed", "audit", "select", "write", "detail",
           "count", "clean", "delete", "end"}
Answers == {"none", "unavailable", "created", "exists", "missing", "ok", "not empty", "deleted"}
Marks == {"done", "outage", "unaudited", "seeded", "belated", "collided", "unmerged", "overlapped",
          "late", "cleaned", "swept", "uncleaned", "emptied", "joined"}
Parts == Columns \cup {"taken"}
Removal == {"delete", "force"}
AdminRequest ==
  [op : {"none", "provision", "update", "delete", "force"}, pc : Stages, target : Ids,
   patch : SUBSET Parts, unset : BOOLEAN, told : Answers]

AdminTypes ==
  /\ tenant \in [id : Places, by : [Columns -> Places]]
  /\ users \in Nat /\ sales \subseteq Places /\ audited \subseteq Request
  /\ req \in [Request -> AdminRequest] /\ effect \in [Request -> SUBSET Marks]

\* The tenant of this id was inserted, or there before: nobody inserts it again.
Past(id) == id \in Request => req[id].op = "provision" /\ req[id].pc \notin {"new", "insert"}
Wrote(w, f) ==
  w \in Request /\ f \in req[w].patch /\ "done" \in effect[w] /\ req[w].op = "update"
\* A request that has read the settings as nobody's, and will write its own.
Unread(q) ==
  /\ req[q].pc = "write" /\ req[q].target = tenant.id
  /\ "settings" \in req[q].patch /\ req[q].unset
\* The tenant that is there was inserted once, and each field is as inserted, or as an
\* update has written it; settings that were written are unset only to those they overlapped.
RowInv ==
  /\ Past(tenant.id)
  /\ \A f \in Columns : tenant.by[f] # tenant.id => Wrote(tenant.by[f], f)
  /\ tenant.by["settings"] # tenant.id /\ "overlapped" \notin effect[tenant.by["settings"]] =>
       \A q \in Request : ~Unread(q)

Doing(r, pcs, answer) == req[r].pc \in pcs \/ req[r].told = answer
Known(r) ==
  /\ (req[r].op = "none") = (req[r].pc = "new")
  /\ req[r].pc \in {"insert", "seed"} => req[r].op = "provision"
  /\ req[r].pc \in {"select", "write", "detail"} => req[r].op = "update"
  /\ req[r].pc \in {"count", "clean", "delete"} => req[r].op \in Removal
  /\ req[r].pc # "end" => req[r].told = "none"
  /\ req[r].pc \in {"new", "insert", "select", "count"} => effect[r] = {}
  /\ "done" \in effect[r] =>
       /\ req[r].pc \in {"seed", "audit", "detail", "end"}
       /\ req[r].pc \in {"detail", "end"} => r \in audited \/ "unaudited" \in effect[r]
InRow(r, f) ==
  tenant.by[f] # tenant.id /\ (f = "settings" => tenant.by[f] = r \/ "overlapped" \in effect[r])
Failed(r) ==
  \/ "outage" \in effect[r]
  \/ "collided" \in effect[r] /\ "taken" \in req[r].patch
  \/ "unmerged" \in effect[r] /\ "settings" \in req[r].patch
Updating(r) ==
  req[r].op = "update" =>
    /\ Doing(r, {"write", "audit", "detail"}, "ok") => Past(req[r].target)
    /\ Doing(r, {"audit", "detail"}, "ok") /\ IsThere(req[r].target) =>
         \A f \in req[r].patch \cap Columns : InRow(r, f)
    /\ req[r].told = "unavailable" => Failed(r)
Came(id) == id \in Request /\ "belated" \in effect[id]
Deleting(r) ==
  req[r].op \in Removal =>
    LET id == req[r].target IN
    /\ Doing(r, {"clean", "delete", "audit"}, "deleted") => Past(id)
    /\ (req[r].pc = "delete" \/ "done" \in effect[r]) /\ id \in sales =>
         "uncleaned" \in effect[r] \/ Came(id)
    /\ "done" \in effect[r] => Past(id) /\ ~IsThere(id)
    /\ req[r].told = "deleted" => "done" \in effect[r]
    /\ req[r].pc = "audit" => "done" \in effect[r] \/ "late" \in effect[r]
    /\ req[r].told \in {"missing", "not empty", "unavailable"} =>
         /\ "done" \notin effect[r]
         /\ "cleaned" \in effect[r] => "late" \in effect[r] \/ "outage" \in effect[r]
    /\ req[r].op = "delete" =>
         /\ req[r].pc \in {"clean", "delete"} /\ IsThere(id) /\ users > 0 => "joined" \in effect[r]
         /\ "emptied" \in effect[r] => "joined" \in effect[r]
Provisioning(r) ==
  req[r].op = "provision" /\ req[r].told = "created" => r \in audited \/ "unaudited" \in effect[r]

Own(r) == Known(r) /\ Updating(r) /\ Deleting(r) /\ Provisioning(r)
AdminInv == AdminTypes /\ RowInv /\ RowsStay /\ \A r \in Request : Own(r)

\* Request r takes a step; the others wait.
Moves(r, pc, told) ==
  /\ req' \in [Request -> AdminRequest]
  /\ req'[r].pc = pc /\ req'[r].told = told
  /\ \A q \in Request : q # r => req'[q] = req[q]
Stays(r) == req'[r].op = req[r].op /\ req'[r].target = req[r].target /\ req'[r].patch = req[r].patch
Notes(r, marks) ==
  /\ effect' \in [Request -> SUBSET Marks]
  /\ effect'[r] = effect[r] \cup marks
  /\ \A q \in Request : q # r => effect'[q] = effect[q]

LEMMA GoMoves ==
  ASSUME AdminTypes, NEW r \in Request, NEW pc \in Stages, Go(r, pc)
  PROVE  Moves(r, pc, req[r].told) /\ Stays(r)
<1>1. /\ req \in [Request -> AdminRequest] /\ req[r] \in AdminRequest
      /\ req' = [req EXCEPT ![r] = [req[r] EXCEPT !.pc = pc]]
  BY DEF AdminTypes, Go
<1>2. [req[r] EXCEPT !.pc = pc] \in AdminRequest
  BY <1>1 DEF AdminRequest
<1> QED
  BY <1>1, <1>2 DEF Moves, Stays, AdminRequest

LEMMA TellMoves ==
  ASSUME AdminTypes, NEW r \in Request, NEW told \in Answers, Tell(r, told)
  PROVE  Moves(r, "end", told) /\ Stays(r)
<1> DEFINE ended == [req EXCEPT ![r].pc = "end"]
<1>1. /\ req \in [Request -> AdminRequest]
      /\ req' = [[req EXCEPT ![r].pc = "end"] EXCEPT ![r].told = told]
  BY DEF AdminTypes, Tell
<1>2. /\ ended \in [Request -> AdminRequest] /\ ended[r].pc = "end"
      /\ ended[r].op = req[r].op /\ ended[r].target = req[r].target
      /\ ended[r].patch = req[r].patch
      /\ \A q \in Request : q # r => ended[q] = req[q]
  BY <1>1 DEF AdminRequest, Stages
<1>3. req' = [ended EXCEPT ![r].told = told]
  BY <1>1
<1> HIDE DEF ended
<1>4. /\ req' \in [Request -> AdminRequest] /\ req'[r].told = told /\ req'[r].pc = ended[r].pc
      /\ req'[r].op = ended[r].op /\ req'[r].target = ended[r].target
      /\ req'[r].patch = ended[r].patch
      /\ \A q \in Request : q # r => req'[q] = ended[q]
  BY <1>2, <1>3 DEF AdminRequest
<1> QED
  BY <1>2, <1>4 DEF Moves, Stays

LEMMA NoteNotes ==
  ASSUME AdminTypes, NEW r \in Request, NEW marks \in SUBSET Marks, Note(r, marks)
  PROVE  Notes(r, marks)
BY DEF AdminTypes, Note, Notes

LEMMA NoNotes ==
  ASSUME AdminTypes, NEW r \in Request, UNCHANGED effect
  PROVE  Notes(r, {})
BY DEF AdminTypes, Notes

\* Who was inserted stays so.
LEMMA StaysPast ==
  ASSUME AdminTypes, NEW r \in Request, NEW pc \in Stages, NEW told, Moves(r, pc, told),
         req[r].pc = "new" \/ (Stays(r) /\ pc \notin {"new", "insert"})
  PROVE  \A id : Past(id) => Past(id)'
BY DEF Moves, Stays, Past

LEMMA TargetPast ==
  ASSUME AdminTypes, NEW r \in Request, NEW pc \in Stages, NEW told, Moves(r, pc, told),
         Stays(r), pc \notin {"new", "insert"}, Past(req[r].target)
  PROVE  Past(req[r].target)'
<1>1. PICK id \in Ids : id = req[r].target /\ id = req'[r].target
  BY DEF AdminTypes, AdminRequest, Stays
<1>2. Past(id)'
  BY <1>1, StaysPast
<1> QED
  BY <1>1, <1>2 DEF Past

LEMMA TargetThere ==
  ASSUME NEW r \in Request, Stays(r), UNCHANGED tenant
  PROVE  IsThere(req[r].target)' = IsThere(req[r].target)
BY DEF IsThere, Stays

LEMMA OwnFacts ==
  ASSUME AdminInv, NEW r \in Request
  PROVE  /\ AdminTypes /\ RowInv /\ RowsStay /\ req[r] \in AdminRequest /\ req[r].target \in Ids
         /\ req[r].pc \in Stages /\ req[r].told \in Answers /\ effect[r] \subseteq Marks
         /\ Known(r) /\ Updating(r) /\ Deleting(r) /\ Provisioning(r)
BY DEF AdminInv, AdminTypes, AdminRequest, Own

\* The rows of an id that come are those of a request whose own decommissioning has not
\* cleaned yet, or they come late.
NewRows ==
  \A id \in sales' \ sales :
    /\ id \in Request
    /\ \/ "belated" \in effect'[id]
       \/ \A q \in Request : req[q].op \in Removal /\ req[q].target = id =>
                               req[q].pc # "delete" /\ "done" \notin effect[q]

\* A request that waits sees the tenant go, its users come, and its fields change.
LEMMA Waits ==
  ASSUME AdminInv, NEW q \in Request, req'[q] = req[q],
         effect'[q] = effect[q] \/ effect'[q] = effect[q] \cup {"joined"},
         \A p \in Request : effect[p] \subseteq effect'[p],
         audited \subseteq audited', NewRows,
         "joined" \in effect'[q] => "joined" \in effect[q] \/ req[q].pc \in {"clean", "delete"},
         \A id \in Ids : Past(id) => Past(id)',
         \A id \in Ids : Past(id) /\ IsThere(id)' =>
           /\ IsThere(id)
           /\ \A f \in Columns : tenant.by[f] # tenant.id => tenant'.by[f] # tenant'.id
           /\ tenant.by["settings"] = q /\ req[q].op = "update" =>
                tenant'.by["settings"] = q \/ "overlapped" \in effect[q]
           /\ req[q].op = "delete" /\ req[q].pc \in {"clean", "delete"}
                /\ req[q].target = id /\ users' > 0 => users > 0 \/ "joined" \in effect'[q]
  PROVE  Own(q)'
<1>1. req[q] \in AdminRequest /\ req[q].target \in Ids /\ Own(q)
  BY DEF AdminInv, AdminTypes, AdminRequest
<1> DEFINE id == req[q].target
<1>2. /\ Past(id) => Past(id)'
      /\ Past(id) /\ IsThere(id)' => IsThere(id)
      /\ Past(id) /\ IsThere(id)' =>
           \A f \in Columns : tenant.by[f] # tenant.id => tenant'.by[f] # tenant'.id
      /\ Past(id) /\ IsThere(id)' /\ tenant.by["settings"] = q /\ req[q].op = "update" =>
           tenant'.by["settings"] = q \/ "overlapped" \in effect[q]
      /\ Past(id) /\ IsThere(id)' /\ req[q].op = "delete" /\ req[q].pc \in {"clean", "delete"}
           /\ users' > 0 => users > 0 \/ "joined" \in effect'[q]
  BY <1>1
<1>3. req'[q].target = id
  OBVIOUS
<1>m. \A mark : mark # "joined" => (mark \in effect'[q] <=> mark \in effect[q])
  OBVIOUS
<1>4. Known(q)'
  BY <1>1, <1>m DEF Own, Known
<1>5. Updating(q)'
  <2> HIDE DEF id
  <2> SUFFICES ASSUME req[q].op = "update" PROVE Updating(q)'
    BY DEF Updating
  <2>1. Doing(q, {"write", "audit", "detail"}, "ok")' => Past(req[q].target)'
    BY <1>1, <1>2, <1>3 DEF Own, Updating, Doing, id
  <2>2. ASSUME Doing(q, {"audit", "detail"}, "ok")', IsThere(req[q].target)',
               NEW f \in req[q].patch \cap Columns
        PROVE  InRow(q, f)'
    <3>1. Past(id) /\ IsThere(id) /\ InRow(q, f)
      BY <1>1, <1>2, <1>3, <2>2 DEF Own, Updating, Doing, id
    <3> QED
      BY <1>2, <1>3, <1>m, <2>2, <3>1 DEF InRow, id
  <2>3. req[q].told = "unavailable" => Failed(q)'
    BY <1>1, <1>m DEF Own, Updating, Failed
  <2> QED
    BY <2>1, <2>2, <2>3 DEF Updating
<1>6. Deleting(q)'
  <2> SUFFICES ASSUME req[q].op \in Removal PROVE Deleting(q)'
    BY DEF Deleting
  <2>1. (req[q].pc = "delete" \/ "done" \in effect'[q]) /\ id \in sales' =>
          "uncleaned" \in effect'[q] \/ Came(id)'
    <3>1. CASE id \in sales
      BY <1>1, <1>m, <3>1 DEF Own, Deleting, Came
    <3>2. CASE id \notin sales
      BY <1>m, <3>2 DEF NewRows, Came
    <3> QED
      BY <3>1, <3>2
  <2>2. "done" \in effect'[q] => Past(id)' /\ ~IsThere(id)'
    BY <1>1, <1>2, <1>m DEF Own, Deleting
  <2>3. Doing(q, {"clean", "delete", "audit"}, "deleted")' => Past(id)'
    BY <1>1, <1>2 DEF Own, Deleting, Doing
  <2>4. req[q].told = "deleted" => "done" \in effect'[q]
    BY <1>1, <1>m DEF Own, Deleting
  <2>5. /\ req[q].pc = "audit" => "done" \in effect'[q] \/ "late" \in effect'[q]
        /\ req[q].told \in {"missing", "not empty", "unavailable"} =>
             /\ "done" \notin effect'[q]
             /\ "cleaned" \in effect'[q] => "late" \in effect'[q] \/ "outage" \in effect'[q]
    BY <1>1, <1>m DEF Own, Deleting
  <2>6. req[q].op = "delete" =>
          /\ req[q].pc \in {"clean", "delete"} /\ IsThere(id)' /\ users' > 0 =>
               "joined" \in effect'[q]
          /\ "emptied" \in effect'[q] => "joined" \in effect'[q]
    BY <1>1, <1>2, <1>m DEF Own, Deleting, Doing
  <2>7. req'[q].op = req[q].op /\ req'[q].pc = req[q].pc /\ req'[q].told = req[q].told
    OBVIOUS
  <2> QED
    BY <1>3, <2>1, <2>2, <2>3, <2>4, <2>5, <2>6, <2>7 DEF Deleting
<1>7. Provisioning(q)'
  BY <1>1 DEF Own, Provisioning
<1> QED
  BY <1>4, <1>5, <1>6, <1>7 DEF Own

\* No row goes, and whose rows come has marked them.
LEMMA RowsGrow ==
  ASSUME AdminInv, NEW r \in Request, NEW pc \in Stages, NEW told, Moves(r, pc, told),
         req[r].pc = "new" \/ Stays(r), NEW marks, Notes(r, marks),
         sales \subseteq sales', "seeded" \in marks => r \in sales'
  PROVE  RowsStay'
<1> SUFFICES ASSUME NEW id, id = Elsewhere \/ (id \in Request /\ "seeded" \in effect'[id]),
                    id \notin sales'
             PROVE  \E q \in Request : "swept" \in effect'[q]
                                         \/ ("cleaned" \in effect'[q] /\ req'[q].target = id)
  BY DEF RowsStay, Hit
<1>1. id = Elsewhere \/ (id \in Request /\ "seeded" \in effect[id])
  BY DEF Notes
<1>2. PICK q \in Request : "swept" \in effect[q] \/ ("cleaned" \in effect[q] /\ req[q].target = id)
  BY <1>1 DEF AdminInv, RowsStay, Hit
<1>3. "swept" \in effect'[q] \/ ("cleaned" \in effect'[q] /\ req[q].target = id)
  BY <1>2 DEF Notes
<1>4. CASE q = r /\ req[r].pc = "new"
  BY <1>2, <1>4, OwnFacts DEF Known
<1>5. CASE ~(q = r /\ req[r].pc = "new")
  BY <1>3, <1>5 DEF Moves, Stays
<1> QED
  BY <1>4, <1>5

\* A step that leaves the tenant and its users alone.
LEMMA Quiet ==
  ASSUME AdminInv, NEW r \in Request, NEW pc \in Stages, NEW told, Moves(r, pc, told),
         req[r].pc = "new" \/ (Stays(r) /\ pc \notin {"new", "insert"}),
         NEW marks, Notes(r, marks), UNCHANGED <<tenant, users>>,
         sales' \subseteq Places, NewRows, RowsStay',
         audited' \subseteq Request, audited \subseteq audited',
         pc = "write" /\ req'[r].unset => tenant.by["settings"] = tenant.id,
         Own(r)'
  PROVE  AdminInv'
<1>1. AdminTypes'
  BY DEF AdminInv, AdminTypes, Moves, Notes
<1>2. \A id : (Past(id) => Past(id)') /\ IsThere(id)' = IsThere(id)
  BY StaysPast DEF AdminInv, IsThere
<1>3. \A q \in Request : effect[q] \subseteq effect'[q]
  BY DEF Notes
<1>4. RowInv'
  <2>1. Past(tenant.id)'
    BY <1>2 DEF AdminInv, RowInv, Past
  <2>2. ASSUME NEW f \in Columns, tenant.by[f] # tenant.id PROVE Wrote(tenant.by[f], f)'
    <3>1. Wrote(tenant.by[f], f)
      BY <2>2 DEF AdminInv, RowInv
    <3>2. tenant.by[f] = r => Stays(r)
      BY <3>1, OwnFacts DEF Wrote, Known
    <3> QED
      BY <1>3, <3>1, <3>2 DEF Wrote, Moves, Stays
  <2>3. ASSUME tenant.by["settings"] # tenant.id,
               "overlapped" \notin effect'[tenant.by["settings"]], NEW q \in Request, Unread(q)'
        PROVE  FALSE
    <3>1. Wrote(tenant.by["settings"], "settings")
      BY <2>3 DEF AdminInv, RowInv, Columns
    <3>2. "overlapped" \notin effect[tenant.by["settings"]]
      BY <1>3, <2>3, <3>1 DEF Wrote
    <3>3. ~Unread(q)
      BY <2>3, <3>2 DEF AdminInv, RowInv
    <3>4. q = r
      BY <2>3, <3>3 DEF Unread, Moves
    <3> QED
      BY <2>3, <3>4 DEF Unread, Moves
  <2> QED
    BY <2>1, <2>2, <2>3 DEF RowInv
<1>5. ASSUME NEW q \in Request, q # r PROVE Own(q)'
  <2>1. req'[q] = req[q] /\ effect'[q] = effect[q]
    BY <1>5 DEF Moves, Notes
  <2> QED
    BY <1>2, <1>3, <2>1, Waits
<1> QED
  BY <1>1, <1>4, <1>5 DEF AdminInv

\* A step that leaves the analytics tables alone as well.
LEMMA Still ==
  ASSUME AdminInv, NEW r \in Request, NEW pc \in Stages, NEW told, Moves(r, pc, told),
         req[r].pc = "new" \/ (Stays(r) /\ pc \notin {"new", "insert"}),
         NEW marks, Notes(r, marks), "seeded" \notin marks, UNCHANGED <<tenant, users, sales>>,
         audited' \subseteq Request, audited \subseteq audited',
         pc = "write" /\ req'[r].unset => tenant.by["settings"] = tenant.id,
         Own(r)'
  PROVE  AdminInv'
<1>1. RowsStay'
  BY RowsGrow
<1>2. NewRows /\ sales' \subseteq Places
  BY OwnFacts DEF NewRows, AdminTypes
<1> QED
  BY <1>1, <1>2, Quiet

\* A request is made.
LEMMA BeginStep ==
  ASSUME AdminInv, NEW r \in Request, Provision(r) \/ UpdateTenantRequest(r) \/ Decommission(r)
  PROVE  AdminInv'
<1>1. PICK op \in {"provision", "update", "delete", "force"}, pc \in {"insert", "select", "count"},
           id \in Ids, patch \in SUBSET Parts :
        /\ req' = [req EXCEPT ![r] = Asks(op, pc, id, patch)]
        /\ pc = "insert" => op = "provision"
        /\ pc = "select" => op = "update"
        /\ pc = "count" => op \in Removal
  <2>1. CASE Provision(r)
    BY <2>1 DEF Provision, Ids, Parts
  <2>2. CASE UpdateTenantRequest(r)
    BY <2>2 DEF UpdateTenantRequest, Ids, Patches, Parts
  <2>3. CASE Decommission(r)
    <3>1. PICK id \in Ids, op \in Removal : req' = [req EXCEPT ![r] = Asks(op, "count", id, {})]
      BY <2>3 DEF Decommission, Ids, Removal
    <3>2. op \in {"provision", "update", "delete", "force"}
      BY DEF Removal
    <3> WITNESS op \in {"provision", "update", "delete", "force"}, "count" \in {"insert", "select", "count"},
                id \in Ids, {} \in SUBSET Parts
    <3> QED
      BY <3>1
  <2> QED
    BY <2>1, <2>2, <2>3
<1>2. req[r].pc = "new" /\ UNCHANGED <<tenant, users, sales, audited, effect>>
  BY DEF Provision, UpdateTenantRequest, Decommission
<1>3. /\ Asks(op, pc, id, patch) \in AdminRequest
      /\ Asks(op, pc, id, patch).op = op /\ Asks(op, pc, id, patch).pc = pc
      /\ Asks(op, pc, id, patch).target = id /\ Asks(op, pc, id, patch).told = "none"
  BY DEF Asks, AdminRequest, Stages, Answers
<1>4. Moves(r, pc, "none") /\ req'[r].op = op /\ req'[r].target = id /\ pc \in Stages
  BY <1>1, <1>3, OwnFacts DEF Moves, AdminTypes, Stages
<1>5. Notes(r, {}) /\ effect'[r] = {}
  BY <1>2, NoNotes, OwnFacts DEF Known
<1>6. Own(r)'
  <2>1. Known(r)'
    BY <1>1, <1>4, <1>5 DEF Moves, Known
  <2>2. Updating(r)' /\ Deleting(r)' /\ Provisioning(r)'
    BY <1>1, <1>4, <1>5 DEF Moves, Updating, Deleting, Provisioning, Doing
  <2> QED
    BY <2>1, <2>2 DEF Own
<1>7. audited' \subseteq Request /\ audited \subseteq audited'
  BY <1>2, OwnFacts DEF AdminTypes
<1> QED
  BY <1>2, <1>4, <1>5, <1>6, <1>7, Still

\* A connection fails.
LEMMA FailStep ==
  ASSUME AdminInv, NEW r \in Request, AdminDbFails(r)
  PROVE  AdminInv'
<1>1. /\ req[r].pc \notin {"new", "end", "audit", "seed"} /\ Tell(r, "unavailable")
      /\ Note(r, {"outage"}) /\ UNCHANGED <<tenant, users, sales, audited>>
  BY DEF AdminDbFails
<1>2. Moves(r, "end", "unavailable") /\ Stays(r) /\ Notes(r, {"outage"})
  BY <1>1, TellMoves, NoteNotes, OwnFacts DEF Answers, Marks
<1>3. effect'[r] = effect[r] \cup {"outage"}
  BY <1>2 DEF Notes
<1>4. Known(r)'
  BY <1>1, <1>2, <1>3, OwnFacts DEF Moves, Stays, Known
<1>5. Updating(r)' /\ Provisioning(r)'
  BY <1>1, <1>2, <1>3 DEF Moves, Stays, Updating, Provisioning, Doing, Failed
<1>6. Deleting(r)'
  <2> SUFFICES ASSUME req[r].op \in Removal PROVE Deleting(r)'
    BY <1>2 DEF Deleting, Stays
  <2>1. "done" \notin effect'[r]
    BY <1>1, <1>3, OwnFacts DEF Known, Removal
  <2>2. req'[r].op = "delete" /\ "emptied" \in effect'[r] => "joined" \in effect'[r]
    BY <1>2, <1>3, OwnFacts DEF Stays, Deleting
  <2> QED
    BY <1>2, <1>3, <2>1, <2>2 DEF Moves, Deleting, Doing
<1> QED
  BY <1>1, <1>2, <1>4, <1>5, <1>6, Still, OwnFacts DEF Own, AdminTypes, Stages

\* Its action is recorded, or is not.
LEMMA RecordStep ==
  ASSUME AdminInv, NEW r \in Request, RecordAction(r)
  PROVE  AdminInv'
<1>1. /\ req[r].pc = "audit" /\ UNCHANGED <<tenant, users, sales>>
      /\ \/ audited' = audited \cup {r} /\ UNCHANGED effect
         \/ UNCHANGED audited /\ Note(r, {"unaudited"})
  BY DEF RecordAction
<1>2. PICK marks \in {{}, {"unaudited"}} :
        Notes(r, marks) /\ (r \in audited' \/ marks = {"unaudited"})
  BY <1>1, NoNotes, NoteNotes, OwnFacts DEF Marks
<1>3. audited' \subseteq Request /\ audited \subseteq audited'
  BY <1>1, OwnFacts DEF AdminTypes
<1>4. /\ r \in audited' \/ "unaudited" \in effect'[r]
      /\ \A mark : mark # "unaudited" => (mark \in effect'[r] <=> mark \in effect[r])
  BY <1>2 DEF Notes
<1>5. req[r].op # "none" /\ req[r].told = "none"
  BY <1>1, OwnFacts DEF Known
<1>6. CASE req[r].op = "update"
  <2>1. Moves(r, "detail", "none") /\ Stays(r)
    BY <1>1, <1>5, <1>6, GoMoves, OwnFacts DEF RecordAction, Stages
  <2>2. Known(r)'
    BY <1>4, <1>6, <2>1 DEF Moves, Stays, Known, Marks
  <2>3. Past(req[r].target)'
    BY <1>1, <1>6, <2>1, TargetPast, OwnFacts DEF Updating, Doing, Stages
  <2>4. Updating(r)'
    <3>1. ASSUME IsThere(req[r].target)', NEW f \in req[r].patch \cap Columns PROVE InRow(r, f)'
      <4>1. InRow(r, f)
        BY <1>1, <1>6, <2>1, <3>1, TargetThere, OwnFacts DEF Updating, Doing
      <4> QED
        BY <1>1, <1>4, <4>1 DEF InRow
    <3> QED
      BY <2>1, <2>3, <3>1 DEF Moves, Stays, Updating, Doing
  <2>5. Deleting(r)' /\ Provisioning(r)'
    BY <1>6, <2>1 DEF Stays, Deleting, Provisioning, Removal
  <2> QED
    BY <1>1, <1>2, <1>3, <2>1, <2>2, <2>4, <2>5, Still DEF Own, Stages
<1>7. CASE req[r].op # "update"
  <2>1. PICK told \in {"created", "deleted", "missing"} :
          /\ Tell(r, told)
          /\ told = "created" <=> req[r].op = "provision"
          /\ req[r].op \in Removal => (told = "deleted" <=> "done" \in effect[r])
    BY <1>1, <1>7 DEF RecordAction, Removal
  <2>2. Moves(r, "end", told) /\ Stays(r)
    BY <2>1, TellMoves, OwnFacts DEF Answers
  <2>3. Known(r)'
    BY <1>4, <1>5, <2>2 DEF Moves, Stays, Known
  <2>4. Updating(r)' /\ Provisioning(r)'
    BY <1>4, <1>7, <2>2 DEF Stays, Updating, Provisioning
  <2>5. Deleting(r)'
    <3> SUFFICES ASSUME req[r].op \in Removal PROVE Deleting(r)'
      BY <2>2 DEF Stays, Deleting
    <3>1. Past(req[r].target)'
      BY <1>1, <2>2, TargetPast, OwnFacts DEF Deleting, Doing, Stages
    <3>2. IsThere(req[r].target)' = IsThere(req[r].target)
      BY <1>1, <2>2, TargetThere
    <3>3. \A id : Came(id) => Came(id)'
      BY <1>2 DEF Came, Notes
    <3>4. "done" \in effect'[r] => ~IsThere(req[r].target)'
      BY <1>4, <3>2, OwnFacts DEF Deleting
    <3>5. "done" \in effect'[r] /\ req[r].target \in sales' =>
            "uncleaned" \in effect'[r] \/ Came(req[r].target)'
      BY <1>1, <1>4, <2>2, <3>3, OwnFacts DEF Deleting, Stays
    <3>6. told # "deleted" => "done" \notin effect'[r] /\ "late" \in effect'[r]
      BY <1>1, <1>4, <2>1, OwnFacts DEF Deleting
    <3>7. req[r].op = "delete" /\ "emptied" \in effect'[r] => "joined" \in effect'[r]
      BY <1>4, OwnFacts DEF Deleting
    <3>8. told = "deleted" => "done" \in effect'[r]
      BY <1>4, <2>1
    <3> QED
      BY <2>2, <3>1, <3>4, <3>5, <3>6, <3>7, <3>8 DEF Moves, Stays, Deleting, Doing
  <2> QED
    BY <1>1, <1>2, <1>3, <2>2, <2>3, <2>4, <2>5, Still DEF Own, Stages
<1> QED
  BY <1>6, <1>7

-----------------------------------------------------------------------------
LEMMA SeedStep ==
  ASSUME AdminInv, NEW r \in Request, SeedSampleData(r)
  PROVE  AdminInv'
<1>1. /\ req[r].pc = "seed" /\ Go(r, "audit") /\ UNCHANGED <<tenant, users, audited>>
      /\ \/ /\ sales' = sales \cup {r}
            /\ Note(r, {"seeded"} \cup IF Belated(r) THEN {"belated"} ELSE {})
         \/ UNCHANGED <<sales, effect>>
  BY DEF SeedSampleData
<1>2. PICK marks \in {{}, {"seeded"}, {"seeded", "belated"}} :
        /\ Notes(r, marks)
        /\ marks = {} => UNCHANGED sales
        /\ marks # {} => sales' = sales \cup {r}
        /\ marks = {"seeded"} => ~Belated(r)
  <2>1. CASE sales' = sales \cup {r} /\ Note(r, {"seeded"}) /\ ~Belated(r)
    BY <2>1, NoteNotes, OwnFacts DEF Marks
  <2>2. CASE sales' = sales \cup {r} /\ Note(r, {"seeded", "belated"})
    BY <2>2, NoteNotes, OwnFacts DEF Marks
  <2>3. CASE UNCHANGED <<sales, effect>>
    BY <2>3, NoNotes, OwnFacts
  <2>4. /\ {"seeded"} \cup {"belated"} = {"seeded", "belated"}
        /\ {"seeded"} \cup {} = {"seeded"}
    OBVIOUS
  <2> QED
    BY <1>1, <2>1, <2>2, <2>3, <2>4
<1>3. Moves(r, "audit", "none") /\ Stays(r) /\ req[r].op = "provision"
  BY <1>1, GoMoves, OwnFacts DEF Known, Stages
<1>4. sales' \subseteq Places /\ sales \subseteq sales'
  BY <1>2, OwnFacts DEF AdminTypes, Ids, Places
<1>5. Own(r)'
  BY <1>1, <1>2, <1>3, OwnFacts
     DEF Notes, Moves, Stays, Own, Known, Updating, Deleting, Provisioning, Removal
<1>6. RowsStay'
  BY <1>2, <1>3, <1>4, RowsGrow DEF Stages
<1>7. NewRows
  <2> SUFFICES ASSUME r \in sales' \ sales, marks = {"seeded"},
                      NEW q \in Request, req[q].op \in Removal, req[q].target = r
               PROVE  req[q].pc # "delete" /\ "done" \notin effect[q]
    BY <1>2 DEF NewRows, Notes
  <2>1. IsThere(r) /\ ~(req[q].pc = "delete" /\ req[q].target = r)
    BY <1>2 DEF Belated
  <2> QED
    BY <2>1, OwnFacts DEF Deleting
<1> QED
  BY <1>1, <1>2, <1>3, <1>4, <1>5, <1>6, <1>7, Quiet, OwnFacts DEF AdminTypes, Stages

LEMMA SelectStep ==
  ASSUME AdminInv, NEW r \in Request, SelectExisting(r)
  PROVE  AdminInv'
<1>1. /\ req[r].pc = "select" /\ UNCHANGED <<tenant, users, sales, audited, effect>>
  BY DEF SelectExisting
<1>2. Notes(r, {}) /\ effect'[r] = {} /\ req[r].op = "update" /\ req[r].told = "none"
  BY <1>1, NoNotes, OwnFacts DEF Known
<1>3. audited' \subseteq Request /\ audited \subseteq audited'
  BY <1>1, OwnFacts DEF AdminTypes
<1>4. CASE IsThere(req[r].target)
  <2> DEFINE chosen == [req EXCEPT ![r].pc = "write"]
             unset == tenant.by["settings"] = tenant.id
  <2>1. req' = [[req EXCEPT ![r].pc = "write"] EXCEPT ![r].unset = unset]
    BY <1>1, <1>4 DEF SelectExisting
  <2>2. req \in [Request -> AdminRequest] /\ unset \in BOOLEAN
    BY OwnFacts DEF AdminTypes
  <2>3. /\ chosen \in [Request -> AdminRequest] /\ chosen[r].pc = "write"
        /\ chosen[r].op = req[r].op /\ chosen[r].target = req[r].target
        /\ chosen[r].patch = req[r].patch
        /\ chosen[r].told = req[r].told /\ \A q \in Request : q # r => chosen[q] = req[q]
    BY <2>2 DEF AdminRequest, Stages
  <2>4. req' = [chosen EXCEPT ![r].unset = unset]
    BY <2>1
  <2> HIDE DEF chosen, unset
  <2>5. Moves(r, "write", "none") /\ Stays(r) /\ req'[r].unset = unset
    BY <1>2, <2>2, <2>3, <2>4 DEF Moves, Stays, AdminRequest
  <2>6. req'[r].unset => tenant.by["settings"] = tenant.id
    BY <2>5 DEF unset
  <2>7. Past(req[r].target)
    BY <1>4, OwnFacts DEF RowInv, IsThere
  <2>8. Past(req[r].target)'
    BY <1>1, <2>5, <2>7, TargetPast, OwnFacts DEF Stages
  <2>9. Own(r)'
    BY <1>2, <2>5, <2>8
       DEF Moves, Stays, Own, Known, Updating, Deleting, Provisioning, Doing, Removal
  <2> QED
    BY <1>1, <1>2, <1>3, <2>5, <2>6, <2>9, Still DEF Stages
<1>5. CASE ~IsThere(req[r].target)
  <2>1. Moves(r, "end", "missing") /\ Stays(r)
    BY <1>1, <1>5, TellMoves, OwnFacts DEF SelectExisting, Answers
  <2>2. Own(r)'
    BY <1>2, <2>1
       DEF Moves, Stays, Own, Known, Updating, Deleting, Provisioning, Doing, Removal
  <2> QED
    BY <1>1, <1>2, <1>3, <2>1, <2>2, Still DEF Stages
<1> QED
  BY <1>4, <1>5

LEMMA ReadStep ==
  ASSUME AdminInv, NEW r \in Request, ReadDetail(r)
  PROVE  AdminInv'
<1>1. /\ req[r].pc = "detail" /\ UNCHANGED <<tenant, users, sales, audited, effect>>
  BY DEF ReadDetail
<1>2. PICK told \in {"ok", "missing"} : Tell(r, told)
  BY DEF ReadDetail
<1>3. Moves(r, "end", told) /\ Stays(r) /\ Notes(r, {}) /\ req[r].op = "update"
  BY <1>1, <1>2, TellMoves, NoNotes, OwnFacts DEF Answers, Known
<1>4. audited' \subseteq Request /\ audited \subseteq audited'
  BY <1>1, OwnFacts DEF AdminTypes
<1>5. Past(req[r].target)'
  BY <1>1, <1>3, TargetPast, OwnFacts DEF Updating, Doing, Stages
<1>6. Known(r)' /\ Deleting(r)' /\ Provisioning(r)'
  BY <1>1, <1>3, OwnFacts DEF Moves, Stays, Known, Deleting, Provisioning, Doing, Removal
<1>7. Updating(r)'
  <2>1. ASSUME IsThere(req[r].target)', NEW f \in req[r].patch \cap Columns PROVE InRow(r, f)'
    <3>1. InRow(r, f)
      BY <1>1, <1>3, <2>1, TargetThere, OwnFacts DEF Updating, Doing
    <3> QED
      BY <1>1, <3>1 DEF InRow
  <2> QED
    BY <1>3, <1>5, <2>1 DEF Moves, Stays, Updating, Doing
<1> QED
  BY <1>1, <1>3, <1>4, <1>6, <1>7, Still DEF Own, Stages

LEMMA CountStep ==
  ASSUME AdminInv, NEW r \in Request, CountUsers(r)
  PROVE  AdminInv'
<1>1. /\ req[r].pc = "count" /\ UNCHANGED <<tenant, users, sales, audited, effect>>
  BY DEF CountUsers
<1>2. /\ Notes(r, {}) /\ effect'[r] = {}
      /\ req[r].op \in Removal /\ req[r].told = "none"
  BY <1>1, NoNotes, OwnFacts DEF Known
<1>3. audited' \subseteq Request /\ audited \subseteq audited'
  BY <1>1, OwnFacts DEF AdminTypes
<1>4. ASSUME NEW told \in {"missing", "not empty"}, Tell(r, told) PROVE AdminInv'
  <2>1. Moves(r, "end", told) /\ Stays(r)
    BY <1>4, TellMoves, OwnFacts DEF Answers
  <2>2. Known(r)' /\ Updating(r)' /\ Deleting(r)' /\ Provisioning(r)'
    BY <1>2, <2>1 DEF Moves, Stays, Known, Updating, Deleting, Provisioning, Doing, Removal
  <2> QED
    BY <1>1, <1>2, <1>3, <2>1, <2>2, Still DEF Own, Stages
<1>5. CASE IsThere(req[r].target) /\ ~(users > 0 /\ req[r].op # "force") /\ Go(r, "clean")
  <2>1. Moves(r, "clean", "none") /\ Stays(r)
    BY <1>2, <1>5, GoMoves, OwnFacts DEF Stages
  <2>2. Past(req[r].target)'
    BY <1>5, <2>1, TargetPast, OwnFacts DEF RowInv, IsThere, Stages
  <2>3. Known(r)' /\ Updating(r)' /\ Deleting(r)' /\ Provisioning(r)'
    BY <1>1, <1>2, <1>5, <2>1, <2>2
       DEF Moves, Stays, Known, Updating, Deleting, Provisioning, Doing, Removal
  <2> QED
    BY <1>1, <1>2, <1>3, <2>1, <2>3, Still DEF Own, Stages
<1> QED
  BY <1>4, <1>5 DEF CountUsers

LEMMA CleanStep ==
  ASSUME AdminInv, NEW r \in Request, CleanAnalytics(r)
  PROVE  AdminInv'
<1>1. /\ req[r].pc = "clean" /\ Go(r, "delete") /\ UNCHANGED <<tenant, users, audited>>
      /\ \/ /\ sales' = {}
            /\ Note(r, {"cleaned"} \cup IF sales \subseteq {req[r].target} THEN {} ELSE {"swept"})
         \/ UNCHANGED sales /\ Note(r, {"uncleaned"})
  BY DEF CleanAnalytics
<1>2. PICK marks \in {{"cleaned"}, {"cleaned", "swept"}, {"uncleaned"}} :
        /\ Notes(r, marks)
        /\ marks = {"cleaned"} => sales \subseteq {req[r].target}
        /\ IF marks = {"uncleaned"} THEN UNCHANGED sales ELSE sales' = {}
  <2>1. CASE sales' = {} /\ Note(r, {"cleaned"}) /\ sales \subseteq {req[r].target}
    BY <2>1, NoteNotes, OwnFacts DEF Marks
  <2>2. CASE sales' = {} /\ Note(r, {"cleaned", "swept"})
    BY <2>2, NoteNotes, OwnFacts DEF Marks
  <2>3. CASE UNCHANGED sales /\ Note(r, {"uncleaned"})
    BY <2>3, NoteNotes, OwnFacts DEF Marks
  <2>4. {"cleaned"} \cup {"swept"} = {"cleaned", "swept"} /\ {"cleaned"} \cup {} = {"cleaned"}
    OBVIOUS
  <2> QED
    BY <1>1, <2>1, <2>2, <2>3, <2>4
<1>3. /\ Moves(r, "delete", "none") /\ Stays(r) /\ req[r].op \in Removal
      /\ "done" \notin effect[r]
  BY <1>1, GoMoves, OwnFacts DEF Known, Stages
<1>4. /\ sales' \subseteq Places /\ NewRows
      /\ audited' \subseteq Request /\ audited \subseteq audited'
  BY <1>1, OwnFacts DEF AdminTypes, NewRows
<1>5. Past(req[r].target)' /\ IsThere(req[r].target)' = IsThere(req[r].target)
  BY <1>1, <1>3, TargetPast, TargetThere, OwnFacts DEF Deleting, Doing, Stages
<1>6. /\ "done" \notin effect'[r]
      /\ "joined" \in effect'[r] <=> "joined" \in effect[r]
      /\ "emptied" \in effect'[r] <=> "emptied" \in effect[r]
      /\ req[r].target \in sales' => "uncleaned" \in effect'[r]
  BY <1>2, <1>3 DEF Notes
<1>7. Known(r)' /\ Updating(r)' /\ Provisioning(r)'
  BY <1>3, <1>6 DEF Moves, Stays, Known, Updating, Provisioning, Removal
<1>8. Deleting(r)'
  <2>1. req[r].op = "delete" =>
          /\ IsThere(req[r].target)' /\ users' > 0 => "joined" \in effect'[r]
          /\ "emptied" \in effect'[r] => "joined" \in effect'[r]
    BY <1>1, <1>3, <1>5, <1>6, OwnFacts DEF Deleting
  <2> QED
    BY <1>3, <1>5, <1>6, <2>1 DEF Moves, Stays, Deleting, Doing
<1>9. RowsStay'
  <2>1. CASE marks = {"uncleaned"}
    BY <1>2, <1>3, <2>1, RowsGrow DEF Stages
  <2>2. CASE marks # {"uncleaned"}
    <3> SUFFICES ASSUME NEW id, id = Elsewhere \/ (id \in Request /\ "seeded" \in effect'[id])
                 PROVE  \E q \in Request : "swept" \in effect'[q]
                                             \/ ("cleaned" \in effect'[q] /\ req'[q].target = id)
      BY DEF RowsStay, Hit
    <3>1. id = Elsewhere \/ (id \in Request /\ "seeded" \in effect[id])
      BY <1>2 DEF Notes
    <3>2. "cleaned" \in effect'[r]
      BY <1>2, <2>2 DEF Notes
    <3>3. CASE id = req[r].target
      BY <1>3, <3>2, <3>3 DEF Stays
    <3>4. CASE id # req[r].target /\ id \in sales
      <4>1. "swept" \in effect'[r]
        BY <1>2, <2>2, <3>4 DEF Notes
      <4> QED
        BY <4>1
    <3>5. CASE id \notin sales
      <4>1. PICK q \in Request :
              "swept" \in effect[q] \/ ("cleaned" \in effect[q] /\ req[q].target = id)
        BY <3>1, <3>5, OwnFacts DEF RowsStay, Hit
      <4>2. effect[q] \subseteq effect'[q] /\ req'[q].target = req[q].target
        BY <1>2, <1>3 DEF Notes, Moves, Stays
      <4> QED
        BY <4>1, <4>2
    <3> QED
      BY <3>3, <3>4, <3>5
  <2> QED
    BY <2>1, <2>2
<1> QED
  BY <1>1, <1>2, <1>3, <1>4, <1>7, <1>8, <1>9, Quiet DEF Own, Stages

LEMMA InsertStep ==
  ASSUME AdminInv, NEW r \in Request, InsertTenant(r)
  PROVE  AdminInv'
<1>1. req[r].pc = "insert" /\ UNCHANGED <<sales, audited>>
  BY DEF InsertTenant
<1>2. req[r].op = "provision" /\ effect[r] = {} /\ req[r].told = "none"
  BY <1>1, OwnFacts DEF Known
<1>3. sales' \subseteq Places /\ audited' \subseteq Request /\ audited \subseteq audited' /\ NewRows
  BY <1>1, OwnFacts DEF AdminTypes, NewRows
<1>4. CASE ~(tenant = Gone /\ "taken" \notin req[r].patch)
  <2>1. Tell(r, "exists") /\ UNCHANGED <<tenant, users, effect>>
    BY <1>4 DEF InsertTenant
  <2>2. Moves(r, "end", "exists") /\ Stays(r) /\ Notes(r, {})
    BY <2>1, TellMoves, NoNotes, OwnFacts DEF Answers
  <2>3. Own(r)'
    BY <1>2, <2>1, <2>2
       DEF Moves, Stays, Own, Known, Updating, Deleting, Provisioning, Removal
  <2> QED
    BY <1>1, <1>3, <2>1, <2>2, <2>3, Still DEF Stages
<1>5. CASE tenant = Gone /\ "taken" \notin req[r].patch
  <2>1. /\ tenant' = Tenant(r) /\ users' = 1 /\ Note(r, {"done"})
        /\ \E pc \in {"seed", "audit"} : Go(r, pc)
    BY <1>5 DEF InsertTenant
  <2>2. PICK pc \in {"seed", "audit"} : Go(r, pc)
    BY <2>1
  <2>3. Moves(r, pc, "none") /\ Stays(r) /\ Notes(r, {"done"})
    BY <1>2, <2>1, <2>2, GoMoves, NoteNotes, OwnFacts DEF Marks, Stages
  <2>4. /\ tenant'.id = r /\ (\A f \in Columns : tenant'.by[f] = r)
        /\ tenant' \in [id : Places, by : [Columns -> Places]]
    BY <2>1 DEF Tenant, Ids, Places
  <2>5. AdminTypes'
    BY <1>3, <2>1, <2>3, <2>4 DEF AdminTypes, Moves, Notes
  <2>6. \A id : Past(id) => Past(id)'
    BY <2>3, StaysPast, OwnFacts DEF Stages
  <2>7. ~Past(r)
    BY <1>1 DEF Past
  <2>8. RowInv'
    <3>1. Past(r)'
      BY <1>2, <2>2, <2>3 DEF Past, Moves, Stays
    <3>2. Past(tenant.id)'
      BY <2>4, <3>1 DEF Past
    <3>3. tenant'.by["settings"] = tenant'.id
      BY <2>4 DEF Columns
    <3> QED
      BY <2>4, <3>2, <3>3 DEF RowInv
  <2>9. ASSUME NEW q \in Request, q # r PROVE Own(q)'
    <3>1. \A id \in Ids : ~(Past(id) /\ IsThere(id)')
      BY <2>4, <2>7 DEF IsThere
    <3>2. req'[q] = req[q] /\ effect'[q] = effect[q] /\ \A p \in Request : effect[p] \subseteq effect'[p]
      BY <2>3, <2>9 DEF Moves, Notes
    <3> QED
      BY <1>3, <2>6, <3>1, <3>2, Waits
  <2>10. Own(r)'
    BY <1>2, <2>3 DEF Moves, Stays, Notes, Own, Known, Updating, Deleting, Provisioning, Removal
  <2>11. RowsStay'
    BY <1>1, <2>2, <2>3, RowsGrow DEF Stages
  <2> QED
    BY <2>5, <2>8, <2>9, <2>10, <2>11 DEF AdminInv
<1> QED
  BY <1>4, <1>5

LEMMA WriteStep ==
  ASSUME AdminInv, NEW r \in Request, WriteTenant(r)
  PROVE  AdminInv'
<1>1. req[r].pc = "write" /\ UNCHANGED <<users, sales, audited>>
  BY DEF WriteTenant
<1>2. req[r].op = "update" /\ "done" \notin effect[r] /\ req[r].told = "none" /\ Past(req[r].target)
  BY <1>1, OwnFacts DEF Known, Updating, Doing
<1>3. sales' \subseteq Places /\ audited' \subseteq Request /\ audited \subseteq audited' /\ NewRows
  BY <1>1, OwnFacts DEF AdminTypes, NewRows
<1>4. CASE Collides(r) \/ Unmerged(r)
  <2>1. /\ tenant' = tenant /\ Tell(r, "unavailable")
        /\ Note(r, IF Collides(r) THEN {"collided"} ELSE {"unmerged"})
    BY <1>4 DEF WriteTenant, RolledBack
  <2>2. PICK mark \in {"collided", "unmerged"} :
          /\ Note(r, {mark})
          /\ mark = "collided" => "taken" \in req[r].patch
          /\ mark = "unmerged" => "settings" \in req[r].patch
    <3>1. CASE Collides(r)
      BY <2>1, <3>1 DEF Collides
    <3>2. CASE ~Collides(r)
      BY <1>4, <2>1, <3>2 DEF Unmerged
    <3> QED
      BY <3>1, <3>2
  <2>3. Moves(r, "end", "unavailable") /\ Stays(r) /\ Notes(r, {mark})
    BY <2>1, <2>2, TellMoves, NoteNotes, OwnFacts DEF Answers, Marks
  <2>4. Own(r)'
    <3>1. Failed(r)'
      BY <2>2, <2>3 DEF Failed, Stays, Notes
    <3> QED
      BY <1>2, <2>3, <3>1
         DEF Moves, Stays, Notes, Own, Known, Updating, Deleting, Provisioning, Doing, Removal
  <2> QED
    BY <1>1, <1>3, <2>1, <2>2, <2>3, <2>4, Still DEF Stages
<1>5. CASE ~(Collides(r) \/ Unmerged(r)) /\ ~IsThere(req[r].target)
  <2>1. tenant' = tenant /\ Go(r, "audit") /\ Note(r, {"late"})
    BY <1>5 DEF WriteTenant
  <2>2. Moves(r, "audit", "none") /\ Stays(r) /\ Notes(r, {"late"})
    BY <1>2, <2>1, GoMoves, NoteNotes, OwnFacts DEF Stages, Marks
  <2>3. Past(req[r].target)' /\ ~IsThere(req[r].target)'
    BY <1>2, <1>5, <2>1, <2>2, TargetPast, TargetThere, OwnFacts DEF Stages
  <2>4. Own(r)'
    BY <1>2, <2>2, <2>3
       DEF Moves, Stays, Notes, Own, Known, Updating, Deleting, Provisioning, Doing, Removal
  <2> QED
    BY <1>1, <1>3, <2>1, <2>2, <2>4, Still DEF Stages
<1>6. CASE ~(Collides(r) \/ Unmerged(r)) /\ IsThere(req[r].target)
  <2>1. /\ tenant' = [tenant EXCEPT !.by =
             [f \in Columns |-> IF f \in req[r].patch THEN r ELSE tenant.by[f]]]
        /\ Note(r, {"done"} \cup IF Overlaps(r) THEN {"overlapped"} ELSE {})
        /\ Go(r, "audit")
    BY <1>6 DEF WriteTenant
  <2>2. Moves(r, "audit", "none") /\ Stays(r)
    BY <1>2, <2>1, GoMoves, OwnFacts DEF Stages
  <2>3. PICK marks \in {{"done"}, {"done", "overlapped"}} :
          Notes(r, marks) /\ (Overlaps(r) => marks = {"done", "overlapped"})
    <3>1. CASE Overlaps(r)
      <4>1. Note(r, {"done", "overlapped"})
        BY <2>1, <3>1, {"done"} \cup {"overlapped"} = {"done", "overlapped"}
      <4> QED
        BY <4>1, NoteNotes, OwnFacts DEF Marks
    <3>2. CASE ~Overlaps(r)
      <4>1. Note(r, {"done"})
        BY <2>1, <3>2, {"done"} \cup {} = {"done"}
      <4> QED
        BY <3>2, <4>1, NoteNotes, OwnFacts DEF Marks
    <3> QED
      BY <3>1, <3>2
  <2>4. /\ "done" \in effect'[r] /\ (Overlaps(r) => "overlapped" \in effect'[r])
        /\ \A q \in Request : effect[q] \subseteq effect'[q]
        /\ \A q \in Request : q # r => effect'[q] = effect[q]
        /\ \A mark : mark \notin {"done", "overlapped"} =>
             (mark \in effect'[r] <=> mark \in effect[r])
    BY <2>3 DEF Notes
  <2>5. /\ tenant \in [id : Places, by : [Columns -> Places]] /\ r \in Places
        /\ tenant.id = req[r].target
    BY <1>6, OwnFacts DEF AdminTypes, Ids, Places, IsThere
  <2>6. /\ tenant'.id = tenant.id
        /\ tenant' \in [id : Places, by : [Columns -> Places]]
        /\ \A f \in Columns : tenant'.by[f] = IF f \in req[r].patch THEN r ELSE tenant.by[f]
    BY <2>1, <2>5
  <2>7. r # tenant.id
    BY <1>2, <2>5 DEF Past
  <2>8. AdminTypes'
    BY <1>1, <1>3, <2>2, <2>3, <2>6, OwnFacts DEF AdminTypes, Moves, Notes
  <2>9. \A id : Past(id) => Past(id)'
    BY <2>2, StaysPast, OwnFacts DEF Stages
  <2>10. RowInv'
    <3>1. Past(tenant.id)'
      <4>1. Past(tenant.id)
        BY OwnFacts DEF RowInv
      <4> QED
        BY <2>6, <2>9, <4>1 DEF Past
    <3>2. ASSUME NEW f \in Columns, tenant'.by[f] # tenant'.id PROVE Wrote(tenant.by[f], f)'
      <4>1. CASE f \in req[r].patch
        BY <1>2, <2>2, <2>4, <2>6, <4>1 DEF Wrote, Stays
      <4>2. CASE f \notin req[r].patch
        <5>1. Wrote(tenant.by[f], f) /\ tenant'.by[f] = tenant.by[f]
          BY <2>6, <3>2, <4>2, OwnFacts DEF RowInv
        <5>2. tenant.by[f] # r
          BY <1>2, <5>1 DEF Wrote
        <5> QED
          BY <2>2, <2>4, <5>1, <5>2 DEF Wrote, Moves
      <4> QED
        BY <4>1, <4>2
    <3>3. ASSUME tenant'.by["settings"] # tenant'.id,
                 "overlapped" \notin effect'[tenant'.by["settings"]], NEW q \in Request, Unread(q)'
          PROVE  FALSE
      <4>1. q # r /\ req'[q] = req[q]
        BY <2>2, <3>3 DEF Unread, Moves
      <4>2. Unread(q)
        BY <2>6, <3>3, <4>1 DEF Unread
      <4>3. CASE "settings" \in req[r].patch
        <5>1. Overlaps(r)
          BY <2>5, <4>1, <4>2, <4>3 DEF Overlaps, Unread
        <5> QED
          BY <2>4, <2>6, <3>3, <4>3, <5>1 DEF Columns
      <4>4. CASE "settings" \notin req[r].patch
        <5>1. tenant'.by["settings"] = tenant.by["settings"]
          BY <2>6, <4>4 DEF Columns
        <5>2. tenant.by["settings"] \in Request
          BY <2>6, <3>3, <5>1, OwnFacts DEF RowInv, Wrote, Columns
        <5>3. "overlapped" \notin effect[tenant.by["settings"]]
          BY <2>4, <3>3, <5>1, <5>2
        <5> QED
          BY <2>6, <3>3, <4>2, <5>1, <5>3, OwnFacts DEF RowInv
      <4> QED
        BY <4>3, <4>4
    <3> QED
      BY <3>1, <3>2, <3>3 DEF RowInv
  <2>11. ASSUME NEW q \in Request, q # r PROVE Own(q)'
    <3>1. req'[q] = req[q] /\ effect'[q] = effect[q]
      BY <2>2, <2>4, <2>11 DEF Moves
    <3>2. \A id \in Ids : IsThere(id)' => IsThere(id)
      BY <2>6 DEF IsThere
    <3>3. \A f \in Columns : tenant.by[f] # tenant.id => tenant'.by[f] # tenant'.id
      BY <2>6, <2>7
    <3>4. tenant.by["settings"] = q /\ req[q].op = "update" =>
            tenant'.by["settings"] = q \/ "overlapped" \in effect[q]
      <4>1. CASE "settings" \in req[r].patch /\ tenant.by["settings"] = q /\ req[q].op = "update"
        <5>1. q # tenant.id
          BY <4>1, OwnFacts DEF RowInv, Past
        <5>2. Unread(r)
          BY <1>1, <1>6, <2>5, <4>1, OwnFacts DEF Unread, Unmerged
        <5> QED
          BY <4>1, <5>1, <5>2, OwnFacts DEF RowInv
      <4>2. CASE "settings" \notin req[r].patch
        BY <2>6, <4>2 DEF Columns
      <4> QED
        BY <4>1, <4>2
    <3> QED
      BY <1>1, <1>3, <2>4, <2>9, <3>1, <3>2, <3>3, <3>4, Waits
  <2>12. Past(req[r].target)'
    BY <1>2, <2>2, TargetPast, OwnFacts DEF Stages
  <2>13. Own(r)'
    <3>1. ASSUME NEW f \in req[r].patch \cap Columns PROVE InRow(r, f)'
      BY <2>6, <2>7 DEF InRow
    <3>2. Updating(r)'
      BY <1>2, <2>2, <2>12, <3>1 DEF Moves, Stays, Updating, Doing
    <3>3. Known(r)'
      BY <1>2, <2>2, <2>4 DEF Moves, Stays, Known
    <3>4. Deleting(r)' /\ Provisioning(r)'
      BY <1>2, <2>2 DEF Moves, Stays, Deleting, Provisioning, Removal
    <3> QED
      BY <3>2, <3>3, <3>4 DEF Own
  <2>14. RowsStay'
    BY <1>1, <2>2, <2>3, RowsGrow DEF Stages
  <2> QED
    BY <2>8, <2>10, <2>11, <2>13, <2>14 DEF AdminInv
<1> QED
  BY <1>4, <1>5, <1>6

LEMMA DeleteStep ==
  ASSUME AdminInv, NEW r \in Request, DeleteTenant(r)
  PROVE  AdminInv'
<1>1. req[r].pc = "delete" /\ Go(r, "audit") /\ UNCHANGED <<sales, audited>>
  BY DEF DeleteTenant
<1>2. /\ req[r].op \in Removal /\ "done" \notin effect[r] /\ req[r].told = "none"
      /\ Past(req[r].target) /\ Deleting(r)
  BY <1>1, OwnFacts DEF Known, Deleting, Doing
<1>3. sales' \subseteq Places /\ audited' \subseteq Request /\ audited \subseteq audited' /\ NewRows
  BY <1>1, OwnFacts DEF AdminTypes, NewRows
<1>4. Moves(r, "audit", "none") /\ Stays(r)
  BY <1>1, <1>2, GoMoves, OwnFacts DEF Stages
<1>5. Past(req[r].target)'
  BY <1>2, <1>4, TargetPast, OwnFacts DEF Stages
<1>6. CASE ~IsThere(req[r].target)
  <2>1. UNCHANGED <<tenant, users>> /\ Note(r, {"late"})
    BY <1>6 DEF DeleteTenant
  <2>2. Notes(r, {"late"})
    BY <2>1, NoteNotes, OwnFacts DEF Marks
  <2>3. effect'[r] = effect[r] \cup {"late"} /\ ~IsThere(req[r].target)'
    BY <1>4, <1>6, <2>1, <2>2, TargetThere DEF Notes
  <2>4. Known(r)' /\ Updating(r)' /\ Provisioning(r)'
    BY <1>2, <1>4, <2>3 DEF Moves, Stays, Known, Updating, Provisioning, Removal
  <2>5. Deleting(r)'
    BY <1>1, <1>2, <1>4, <1>5, <2>3 DEF Moves, Stays, Deleting, Doing
  <2> QED
    BY <1>1, <1>3, <1>4, <2>1, <2>2, <2>4, <2>5, Still DEF Own, Stages
<1>7. CASE IsThere(req[r].target)
  <2>1. /\ Note(r, {"done"} \cup IF users > 0 THEN {"emptied"} ELSE {})
        /\ tenant' = Gone /\ users' = 0
    BY <1>7 DEF DeleteTenant
  <2>2. PICK marks \in {{"done"}, {"done", "emptied"}} :
          Notes(r, marks) /\ ("emptied" \in marks => users > 0)
    <3>1. CASE users > 0
      <4>1. Note(r, {"done", "emptied"})
        BY <2>1, <3>1, {"done"} \cup {"emptied"} = {"done", "emptied"}
      <4> QED
        BY <3>1, <4>1, NoteNotes, OwnFacts DEF Marks
    <3>2. CASE ~(users > 0)
      <4>1. Note(r, {"done"})
        BY <2>1, <3>2, {"done"} \cup {} = {"done"}
      <4> QED
        BY <4>1, NoteNotes, OwnFacts DEF Marks
    <3> QED
      BY <3>1, <3>2
  <2>3. /\ effect'[r] = effect[r] \cup marks
        /\ \A q \in Request : q # r => effect'[q] = effect[q]
        /\ \A q \in Request : effect[q] \subseteq effect'[q]
        /\ effect' \in [Request -> SUBSET Marks]
    BY <2>2 DEF Notes
  <2>4. /\ Gone.id = Elsewhere /\ Elsewhere \notin Ids /\ Elsewhere \notin Request
        /\ \A f \in Columns : Gone.by[f] = Gone.id
        /\ Gone \in [id : Places, by : [Columns -> Places]]
    BY AdminAssumption DEF Gone, Tenant, Ids, Places
  <2>5. AdminTypes'
    BY <1>3, <1>4, <2>1, <2>3, <2>4 DEF AdminTypes, Moves
  <2>6. RowInv'
    BY <2>1, <2>4 DEF RowInv, Past, Columns
  <2>7. \A id \in Ids : (Past(id) => Past(id)') /\ ~IsThere(id)'
    BY <1>4, <2>1, <2>4, StaysPast, OwnFacts DEF IsThere, Stages
  <2>8. ASSUME NEW q \in Request, q # r PROVE Own(q)'
    <3>1. req'[q] = req[q] /\ effect'[q] = effect[q]
      BY <1>4, <2>3, <2>8 DEF Moves
    <3> QED
      BY <1>3, <2>3, <2>7, <3>1, Waits
  <2>9. Known(r)' /\ Updating(r)' /\ Provisioning(r)'
    BY <1>2, <1>4, <2>2, <2>3 DEF Moves, Stays, Known, Updating, Provisioning, Removal
  <2>10. ~IsThere(req[r].target)'
    BY <1>4, <2>7, OwnFacts DEF Stays, IsThere
  <2>11. req[r].op = "delete" /\ "emptied" \in effect'[r] => "joined" \in effect'[r]
    BY <1>1, <1>2, <1>7, <2>2, <2>3 DEF Deleting
  <2>12. req[r].target \in sales' => "uncleaned" \in effect'[r] \/ Came(req[r].target)'
    BY <1>1, <1>2, <1>4, <2>3 DEF Deleting, Came, Stays
  <2>13. Deleting(r)'
    BY <1>2, <1>4, <1>5, <2>2, <2>3, <2>10, <2>11, <2>12 DEF Moves, Stays, Deleting, Doing
  <2>14. RowsStay'
    BY <1>1, <1>4, <2>2, RowsGrow DEF Stages
  <2> QED
    BY <2>5, <2>6, <2>8, <2>9, <2>13, <2>14 DEF AdminInv, Own
<1> QED
  BY <1>6, <1>7

LEMMA JoinStep ==
  ASSUME AdminInv, UserJoins
  PROVE  AdminInv'
<1>1. /\ users' = users + 1 /\ UNCHANGED <<tenant, sales, audited, req>>
      /\ effect' = [r \in Request |->
           IF req[r].op = "delete" /\ req[r].pc \in {"clean", "delete"} /\ IsThere(req[r].target)
           THEN effect[r] \cup {"joined"} ELSE effect[r]]
  BY DEF UserJoins
<1>2. \A r \in Request :
        /\ effect'[r] = effect[r] \/ effect'[r] = effect[r] \cup {"joined"}
        /\ req[r].op = "delete" /\ req[r].pc \in {"clean", "delete"} /\ IsThere(req[r].target) =>
             "joined" \in effect'[r]
        /\ "joined" \in effect'[r] => "joined" \in effect[r] \/ req[r].pc \in {"clean", "delete"}
  BY <1>1
<1>3. AdminTypes'
  <2>1. AdminTypes
    BY DEF AdminInv
  <2>2. \A r \in Request : effect[r] \subseteq Marks /\ effect'[r] \subseteq Marks
    BY <1>2, <2>1 DEF AdminTypes, Marks
  <2>3. effect' \in [Request -> SUBSET Marks]
    BY <1>1, <2>2
  <2> QED
    BY <1>1, <2>1, <2>3 DEF AdminTypes
<1>4. \A id : Past(id)' = Past(id) /\ IsThere(id)' = IsThere(id)
  BY <1>1 DEF Past, IsThere
<1>5. \A r \in Request : \A mark : mark # "joined" => (mark \in effect'[r] <=> mark \in effect[r])
  BY <1>2
<1>6. RowInv'
  <2>1. RowInv /\ Past(tenant.id)'
    BY <1>1, <1>4 DEF AdminInv, RowInv, Past
  <2>2. ASSUME NEW f \in Columns, tenant.by[f] # tenant.id PROVE Wrote(tenant.by[f], f)'
    BY <1>1, <1>5, <2>1, <2>2 DEF RowInv, Wrote
  <2>3. \A q \in Request : Unread(q)' = Unread(q)
    BY <1>1 DEF Unread
  <2>4. tenant.by["settings"] # tenant.id => tenant.by["settings"] \in Request
    BY <2>1 DEF RowInv, Wrote, Columns
  <2>5. tenant.by["settings"] # tenant.id =>
          ("overlapped" \in effect'[tenant.by["settings"]]
             <=> "overlapped" \in effect[tenant.by["settings"]])
    BY <1>5, <2>4
  <2> QED
    BY <1>1, <2>1, <2>2, <2>3, <2>5 DEF RowInv
<1>7. ASSUME NEW q \in Request PROVE Own(q)'
  <2>1. NewRows /\ \A p \in Request : effect[p] \subseteq effect'[p]
    BY <1>1, <1>2 DEF NewRows
  <2> QED
    BY <1>1, <1>2, <1>4, <1>7, <2>1, Waits
<1>8. RowsStay'
  BY <1>1, <1>5 DEF AdminInv, RowsStay, Hit
<1> QED
  BY <1>3, <1>6, <1>7, <1>8 DEF AdminInv

LEMMA AdminInvInit == AdminInit => AdminInv
<1> SUFFICES ASSUME AdminInit PROVE AdminInv
  OBVIOUS
<1>1. /\ tenant \in {Tenant(Original), Gone} /\ users \in {0, 1}
      /\ sales \in {{Elsewhere}, {Elsewhere, Original}}
      /\ audited = {} /\ req = [r \in Request |-> New] /\ effect = [r \in Request |-> {}]
  BY DEF AdminInit
<1>2. /\ tenant.id \in {Original, Elsewhere} /\ (\A f \in Columns : tenant.by[f] = tenant.id)
      /\ tenant \in [id : Places, by : [Columns -> Places]]
  <2>1. CASE tenant = Tenant(Original)
    BY <2>1 DEF Tenant, Ids, Places
  <2>2. CASE tenant = Gone
    BY <2>2 DEF Gone, Tenant, Ids, Places
  <2> QED
    BY <1>1, <2>1, <2>2
<1>3. New \in AdminRequest /\ New.op = "none" /\ New.pc = "new" /\ New.told = "none"
  BY DEF New, Asks, AdminRequest, Ids, Stages, Answers
<1>4. AdminTypes
  BY <1>1, <1>2, <1>3 DEF AdminTypes, Ids, Places, Marks
<1>5. RowInv
  BY <1>2, AdminAssumption DEF RowInv, Past, Columns
<1>6. \A r \in Request : Own(r)
  BY <1>1, <1>3 DEF Own, Known, Updating, Deleting, Provisioning, Removal
<1>7. RowsStay
  BY <1>1 DEF RowsStay, Hit
<1> QED
  BY <1>4, <1>5, <1>6, <1>7 DEF AdminInv

LEMMA AdminInvStep == AdminInv /\ [AdminNext]_adminVars => AdminInv'
<1> SUFFICES ASSUME AdminInv, [AdminNext]_adminVars PROVE AdminInv'
  OBVIOUS
<1>1. ASSUME NEW r \in Request,
             \/ Provision(r) \/ InsertTenant(r) \/ SeedSampleData(r)
             \/ UpdateTenantRequest(r) \/ SelectExisting(r) \/ WriteTenant(r) \/ ReadDetail(r)
             \/ Decommission(r) \/ CountUsers(r) \/ CleanAnalytics(r) \/ DeleteTenant(r)
             \/ RecordAction(r) \/ AdminDbFails(r)
      PROVE  AdminInv'
  BY <1>1, BeginStep, InsertStep, SeedStep, SelectStep, WriteStep, ReadStep, CountStep,
     CleanStep, DeleteStep, RecordStep, FailStep
<1>2. CASE UNCHANGED adminVars
  <2>1. UNCHANGED <<tenant, users, sales, audited, req, effect>>
    BY <1>2 DEF adminVars
  <2>2. AdminTypes' /\ RowsStay'
    BY <2>1 DEF AdminInv, AdminTypes, RowsStay, Hit
  <2>3. RowInv'
    BY <2>1 DEF AdminInv, RowInv, Past, Wrote, Unread
  <2>4. ASSUME NEW r \in Request PROVE Own(r)'
    <3>1. Own(r)
      BY DEF AdminInv
    <3>2. Known(r)' /\ Provisioning(r)'
      BY <2>1, <3>1 DEF Own, Known, Provisioning
    <3>3. Updating(r)'
      BY <2>1, <3>1 DEF Own, Updating, Doing, Past, IsThere, InRow, Failed
    <3>4. Deleting(r)'
      BY <2>1, <3>1 DEF Own, Deleting, Doing, Past, IsThere, Came
    <3> QED
      BY <3>2, <3>3, <3>4 DEF Own
  <2> QED
    BY <2>2, <2>3, <2>4 DEF AdminInv
<1> QED
  BY <1>1, <1>2, JoinStep DEF AdminNext

\* services/tenants.py: what an administrator is told of a provisioning, an update or a
\* decommissioning is what became of the tenant, and the rows of the analytics tables go
\* only with their tenant or in the sweep of a decommissioning of any tenant; but for the
\* named races and failures.
THEOREM TenantsToldHolds == AdminSpec => []TenantsTold
<1>1. AdminInv => TenantsTold
  <2> SUFFICES ASSUME AdminInv, NEW r \in Request
               PROVE  CASE req[r].op = "update" -> UpdateIsTold(r)
                        [] req[r].op \in {"delete", "force"} -> DecommissionIsTold(r)
                        [] OTHER -> ProvisionIsTold(r)
    BY DEF TenantsTold, AdminInv
  <2>1. Known(r) /\ Updating(r) /\ Deleting(r) /\ Provisioning(r) /\ req[r] \in AdminRequest
    BY OwnFacts
  <2>2. \A q : \A mark : mark \in effect[q] => \A marks : mark \in marks => Hit(q, marks)
    BY DEF Hit
  <2>3. \A q : \A mark : Hit(q, {mark}) => mark \in effect[q]
    BY DEF Hit
  <2>4. CASE req[r].op = "update"
    <3>1. ASSUME req[r].told = "ok", IsThere(req[r].target), NEW f \in req[r].patch \cap Columns
          PROVE  Holds(r, f)
      <4>1. InRow(r, f)
        BY <2>1, <2>4, <3>1 DEF Updating, Doing
      <4>2. Wrote(tenant.by[f], f)
        BY <4>1, OwnFacts DEF InRow, RowInv
      <4> QED
        BY <2>2, <4>1, <4>2 DEF Holds, InRow, Wrote
    <3>2. ASSUME req[r].told = "unavailable"
          PROVE  /\ \/ Hit(r, {"outage"})
                    \/ Hit(r, {"collided"}) /\ "taken" \in req[r].patch
                    \/ Hit(r, {"unmerged"}) /\ "settings" \in req[r].patch
                 /\ Hit(r, {"done"}) \/ \A f \in Columns : tenant.by[f] # r
      <4>1. Failed(r)
        BY <2>1, <2>4, <3>2 DEF Updating
      <4>2. ASSUME NEW f \in Columns, tenant.by[f] = r PROVE Hit(r, {"done"})
        <5>1. r # tenant.id
          BY <2>4, OwnFacts DEF RowInv, Past
        <5>2. Wrote(r, f)
          BY <4>2, <5>1, OwnFacts DEF RowInv
        <5> QED
          BY <2>2, <5>2 DEF Wrote
      <4> QED
        BY <2>2, <4>1, <4>2 DEF Failed
    <3>3. Hit(r, {"done"}) => req[r].pc # "end" \/ r \in audited \/ Hit(r, {"unaudited"})
      BY <2>1, <2>2, <2>3 DEF Known
    <3> QED
      BY <2>4, <3>1, <3>2, <3>3 DEF UpdateIsTold
  <2>5. CASE req[r].op \in {"delete", "force"}
    <3> DEFINE id == req[r].target
    <3>1. ASSUME req[r].told = "deleted"
          PROVE  /\ ~IsThere(id)
                 /\ id \in sales => Hit(r, {"uncleaned"}) \/ (id \in Request /\ Hit(id, {"belated"}))
                 /\ req[r].op # "force" /\ Hit(r, {"emptied"}) => Hit(r, {"joined"})
                 /\ r \in audited \/ Hit(r, {"unaudited"})
      <4>1. "done" \in effect[r] /\ req[r].pc = "end"
        BY <2>1, <2>5, <3>1 DEF Deleting, Known, Removal
      <4>2. ~IsThere(id)
        BY <2>1, <2>5, <4>1 DEF Deleting, Removal
      <4>3. id \in sales => "uncleaned" \in effect[r] \/ Came(id)
        BY <2>1, <2>5, <4>1 DEF Deleting, Removal
      <4>4. req[r].op # "force" /\ "emptied" \in effect[r] => "joined" \in effect[r]
        BY <2>1, <2>5 DEF Deleting, Removal
      <4>5. r \in audited \/ "unaudited" \in effect[r]
        BY <2>1, <4>1 DEF Known
      <4> QED
        BY <2>2, <2>3, <4>2, <4>3, <4>4, <4>5 DEF Came
    <3>2. ASSUME req[r].told \in {"missing", "not empty", "unavailable"}
          PROVE  /\ ~Hit(r, {"done"})
                 /\ Hit(r, {"cleaned"}) => Hit(r, {"late", "outage"})
      <4>1. /\ "done" \notin effect[r]
            /\ "cleaned" \in effect[r] => "late" \in effect[r] \/ "outage" \in effect[r]
        BY <2>1, <2>5, <3>2 DEF Deleting, Removal
      <4> QED
        BY <2>2, <2>3, <4>1
    <3> QED
      BY <2>5, <3>1, <3>2 DEF DecommissionIsTold
  <2>6. CASE req[r].op \notin {"update", "delete", "force"}
    <3>1. req[r].told = "created" => req[r].op = "provision"
      BY <2>1, <2>6 DEF Known, AdminRequest
    <3> QED
      BY <2>1, <2>2, <2>6, <3>1 DEF Provisioning, ProvisionIsTold
  <2> QED
    BY <2>4, <2>5, <2>6
<1>2. AdminSpec => []AdminInv
  BY AdminInvInit, AdminInvStep, PTL DEF AdminSpec
<1> QED
  BY <1>1, <1>2, PTL
=============================================================================
