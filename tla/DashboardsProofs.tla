-------------------------- MODULE DashboardsProofs --------------------------
(***************************************************************************)
(* Proofs about Dashboards for any number of requests, metrics, sections   *)
(* and pins, with any faults: types, the places of pins, that the edges in *)
(* the graph follow the pins, and that the answers are true.               *)
(***************************************************************************)
EXTENDS Dashboards, TLAPS

LEMMA BodyShape ==
  ASSUME NEW body \in Bodies
  PROVE  DOMAIN body \subseteq Position /\ \A p \in DOMAIN body : body[p] \in Metric
<1>1. PICK n \in 1..MaxSections : body \in [0..n - 1 -> Metric]
  BY DEF Bodies
<1>2. QED
  BY <1>1, DashboardAssumption DEF Position

LEMMA IdleType == Idle \in Requests
BY DashboardAssumption DEF Idle, Requests, Position

LEMMA PinnedType ==
  ASSUME TypeOK
  PROVE  Pinned(pins, report) \subseteq Items
BY BodyShape DEF Pinned, Items, TypeOK

\* The requests' part of the type invariant, for the ways to move one.
RequestType == req \in [Request -> Requests]

LEMMA GotoType ==
  ASSUME TypeOK, NEW r \in Request,
         NEW label \in {"idle", "check", "last", "insert", "delete", "get", "metrics", "record"},
         Goto(r, label)
  PROVE  RequestType'
BY DEF TypeOK, RequestType, Goto, Requests

LEMMA AnswerType ==
  ASSUME TypeOK, NEW r \in Request,
         NEW what \in {"nothing", "no_section", "no_pin", "failed", "pinned", "unpinned"},
         Answer(r, what)
  PROVE  RequestType'
<1>1. req[r] \in Requests
  BY DEF TypeOK
<1>2. [Idle EXCEPT !.op = req[r].op, !.id = req[r].id, !.said = what] \in Requests
  BY <1>1, IdleType DEF Requests, Idle
<1>3. QED
  BY <1>2 DEF TypeOK, RequestType, Answer

LEMMA LeaveType ==
  ASSUME TypeOK, NEW r \in Request, Leave(r)
  PROVE  RequestType' /\ before' \in [Request -> SUBSET Request]
<1>1. Told(r) \in {"pinned", "unpinned"}
  BY DEF Told
<1>2. QED
  BY <1>1, AnswerType DEF Leave, TypeOK

LEMMA TypeStep == TypeOK /\ [Next]_vars => TypeOK'
<1> SUFFICES ASSUME TypeOK, [Next]_vars PROVE TypeOK'
  OBVIOUS
<1> DEFINE Rest ==
      /\ live \in BOOLEAN /\ report \in Bodies
      /\ pins \subseteq [id : Nat, at : Position, place : Nat, raced : BOOLEAN]
      /\ edges \subseteq Items /\ ids \in Nat
      /\ overtaken \subseteq Request /\ late \subseteq Request /\ unpinned \subseteq Nat
      /\ before \in [Request -> SUBSET Request]
      /\ missed \subseteq {"failed", "overtaken", "deleted", "regenerated"}
<1>0. ASSUME RequestType', Rest' PROVE TypeOK'
  BY <1>0 DEF TypeOK, RequestType
<1>a. RequestType /\ Rest
  BY DEF TypeOK, RequestType
<1>1. CASE UNCHANGED vars
  BY <1>0, <1>1, <1>a DEF vars, RequestType
<1>2. ASSUME NEW r \in Request, Pin(r) PROVE TypeOK'
  <2>1. RequestType'
    <3>1. PICK p \in Position :
            req' = [req EXCEPT ![r] = [Idle EXCEPT !.pc = "check", !.id = ids + 1, !.at = p]]
      BY <1>2 DEF Pin
    <3>2. ids + 1 \in Nat
      BY <1>a
    <3>3. [Idle EXCEPT !.pc = "check", !.id = ids + 1, !.at = p] \in Requests
      BY IdleType, <3>2 DEF Requests, Idle
    <3>4. QED
      BY <3>1, <3>3, <1>a DEF RequestType
  <2>2. Rest'
    BY <1>2, <1>a DEF Pin, history
  <2>3. QED
    BY <2>1, <2>2, <1>0
<1>3. ASSUME NEW r \in Request, Unpin(r) PROVE TypeOK'
  <2>1. RequestType'
    <3>1. PICK i \in {p.id : p \in pins} \cup unpinned :
            req' = [req EXCEPT ![r] = [Idle EXCEPT !.pc = "delete", !.op = "unpin", !.id = i]]
      BY <1>3 DEF Unpin
    <3>2. i \in Nat
      BY <3>1, <1>a
    <3>3. [Idle EXCEPT !.pc = "delete", !.op = "unpin", !.id = i] \in Requests
      BY IdleType, <3>2 DEF Requests, Idle
    <3>4. QED
      BY <3>1, <3>3, <1>a DEF RequestType
  <2>2. Rest'
    BY <1>3, <1>a DEF Unpin, history
  <2>3. QED
    BY <2>1, <2>2, <1>0
<1>4. ASSUME NEW r \in Request, Check(r) PROVE TypeOK'
  <2>1. RequestType'
    BY <1>4, GotoType, AnswerType DEF Check
  <2>2. QED
    BY <1>4, <2>1, <1>0, <1>a DEF Check, history
<1>5. ASSUME NEW r \in Request, Last(r) PROVE TypeOK'
  <2>1. RequestType'
    <3>1. PICK n \in 0..MaxPins :
                 req' = [req EXCEPT ![r] = [@ EXCEPT !.pc = "insert", !.place = n]]
      BY <1>5 DEF Last
    <3>a. n \in Nat
      BY <3>1, DashboardAssumption
    <3>2. [req[r] EXCEPT !.pc = "insert", !.place = n] \in Requests
      <4>1. \A q \in Requests, i \in Nat :
              [q EXCEPT !.pc = "insert", !.place = i] \in Requests
        BY DEF Requests
      <4>2. QED
        BY <4>1, <3>a, <1>a DEF RequestType
    <3>3. QED
      BY <3>1, <3>2, <1>a DEF RequestType
  <2>2. QED
    BY <1>5, <2>1, <1>0, <1>a DEF Last
<1>6. ASSUME NEW r \in Request, Insert(r) PROVE TypeOK'
  <2>1. req[r].id \in Nat /\ req[r].at \in Position /\ req[r].place \in Nat
    BY <1>a DEF RequestType, Requests
  <2>2. CASE live
    <3>1. RequestType'
      <4>1. [Idle EXCEPT !.pc = "get", !.id = req[r].id] \in Requests
        BY IdleType, <2>1 DEF Requests, Idle
      <4>2. QED
        BY <1>6, <2>2, <4>1, <1>a DEF Insert, RequestType
    <3>2. pins' \subseteq [id : Nat, at : Position, place : Nat, raced : BOOLEAN]
      <4>1. [id |-> req[r].id, at |-> req[r].at, place |-> req[r].place, raced |-> r \in overtaken]
              \in [id : Nat, at : Position, place : Nat, raced : BOOLEAN]
        BY <2>1
      <4>2. QED
        BY <1>6, <2>2, <4>1, <1>a DEF Insert
    <3>3. overtaken' \subseteq Request
      BY <1>6, <2>2, <1>a DEF Insert
    <3>4. Rest'
      BY <1>6, <3>2, <3>3, <1>a DEF Insert
    <3>5. QED
      BY <3>1, <3>4, <1>0
  <2>3. CASE ~live
    <3>1. RequestType'
      BY <1>6, <2>3, AnswerType DEF Insert
    <3>2. QED
      BY <1>6, <2>3, <3>1, <1>0, <1>a DEF Insert
  <2>4. QED
    BY <2>2, <2>3, <1>a
<1>7. ASSUME NEW r \in Request, Remove(r) PROVE TypeOK'
  <2>1. RequestType'
    BY <1>7, GotoType, AnswerType DEF Remove
  <2>2. req[r].id \in Nat
    BY <1>a DEF RequestType, Requests
  <2>3. QED
    BY <1>7, <2>1, <2>2, <1>0, <1>a DEF Remove
<1>8. ASSUME NEW r \in Request, Get(r) PROVE TypeOK'
  <2>1. RequestType'
    BY <1>8, GotoType, AnswerType DEF Get
  <2>2. QED
    BY <1>8, <2>1, <1>0, <1>a DEF Get, history
<1>9. ASSUME NEW r \in Request, Metrics(r) PROVE TypeOK'
  <2>1. RequestType'
    <3>1. [req[r] EXCEPT !.pc = "record", !.items = Pinned(pins, report)] \in Requests
      <4>1. \A q \in Requests, i \in SUBSET Items :
              [q EXCEPT !.pc = "record", !.items = i] \in Requests
        BY DEF Requests
      <4>2. QED
        BY <4>1, PinnedType, <1>a DEF RequestType
    <3>2. QED
      BY <1>9, <3>1, <1>a DEF Metrics, RequestType
  <2>2. before' \in [Request -> SUBSET Request]
    BY <1>9, <1>a DEF Metrics
  <2>3. QED
    BY <1>9, <2>1, <2>2, <1>0, <1>a DEF Metrics
<1>10. ASSUME NEW r \in Request, Record(r) PROVE TypeOK'
  <2>1. RequestType' /\ before' \in [Request -> SUBSET Request]
    BY <1>10, LeaveType DEF Record
  <2>2. edges' \subseteq Items
    BY <1>10, <1>a DEF Record, Edges, RequestType, Requests
  <2>3. late' \subseteq Request
    BY <1>10, <1>a DEF Record
  <2>4. QED
    BY <1>10, <2>1, <2>2, <2>3, <1>0, <1>a DEF Record
<1>11. ASSUME NEW r \in Request, Skip(r) PROVE TypeOK'
  <2>1. RequestType' /\ before' \in [Request -> SUBSET Request]
    BY <1>11, LeaveType DEF Skip
  <2>2. QED
    BY <1>11, <2>1, <1>0, <1>a DEF Skip
<1>12. ASSUME NEW r \in Request, Fail(r) PROVE TypeOK'
  <2>1. RequestType'
    BY <1>12, AnswerType DEF Fail
  <2>2. QED
    BY <1>12, <2>1, <1>0, <1>a DEF Fail
<1>13. CASE Delete
  BY <1>13, <1>0, <1>a DEF Delete, RequestType
<1>14. CASE Regenerate
  BY <1>14, <1>0, <1>a DEF Regenerate, RequestType
<1>15. QED
  BY <1>1, <1>2, <1>3, <1>4, <1>5, <1>6, <1>7, <1>8, <1>9, <1>10, <1>11, <1>12, <1>13,
     <1>14 DEF Next, Handle

LEMMA TypeInit == Init => TypeOK
BY IdleType DEF Init, TypeOK

\* Requests, pins, edges and the histories keep their types, whatever overlaps or fails.
THEOREM TypeCorrect == Spec => []TypeOK
BY TypeInit, TypeStep, PTL DEF Spec

-----------------------------------------------------------------------------
\* How a request moves: the others stay, and it gets where the action takes it.
Moves(r, label) ==
  /\ req'[r].pc = label
  /\ \A q \in Request \ {r} : req'[q] = req[q]

LEMMA SetMoves ==
  ASSUME TypeOK, NEW r \in Request, NEW new, NEW label, new.pc = label,
         req' = [req EXCEPT ![r] = new]
  PROVE  Moves(r, label)
BY DEF TypeOK, Moves

LEMMA GotoMoves ==
  ASSUME TypeOK, NEW r \in Request, NEW label, Goto(r, label)
  PROVE  Moves(r, label)
<1>1. req[r] \in Requests
  BY DEF TypeOK
<1>2. [req[r] EXCEPT !.pc = label].pc = label
  BY <1>1 DEF Requests
<1>3. QED
  BY <1>2, SetMoves DEF Goto

LEMMA AnswerMoves ==
  ASSUME TypeOK, NEW r \in Request, NEW what, Answer(r, what)
  PROVE  Moves(r, "idle")
<1>1. [Idle EXCEPT !.op = req[r].op, !.id = req[r].id, !.said = what].pc = "idle"
  BY DEF Idle
<1>2. QED
  BY <1>1, SetMoves DEF Answer

LEMMA PinMoves ==
  ASSUME TypeOK, NEW r \in Request, Pin(r)
  PROVE  Moves(r, "check")
<1>1. PICK p \in Position :
        req' = [req EXCEPT ![r] = [Idle EXCEPT !.pc = "check", !.id = ids + 1, !.at = p]]
  BY DEF Pin
<1>2. [Idle EXCEPT !.pc = "check", !.id = ids + 1, !.at = p].pc = "check"
  BY DEF Idle
<1>3. QED
  BY <1>1, <1>2, SetMoves

LEMMA UnpinMoves ==
  ASSUME TypeOK, NEW r \in Request, Unpin(r)
  PROVE  Moves(r, "delete")
<1>1. PICK i : req' = [req EXCEPT ![r] = [Idle EXCEPT !.pc = "delete", !.op = "unpin",
                                                      !.id = i]]
  BY DEF Unpin
<1>2. [Idle EXCEPT !.pc = "delete", !.op = "unpin", !.id = i].pc = "delete"
  BY DEF Idle
<1>3. QED
  BY <1>1, <1>2, SetMoves

LEMMA LastMoves ==
  ASSUME TypeOK, NEW r \in Request, Last(r)
  PROVE  Moves(r, "insert")
<1>1. PICK n : req' = [req EXCEPT ![r] = [@ EXCEPT !.pc = "insert", !.place = n]]
  BY DEF Last
<1>2. req[r] \in Requests
  BY DEF TypeOK
<1>3. [req[r] EXCEPT !.pc = "insert", !.place = n].pc = "insert"
  BY <1>2 DEF Requests
<1>4. QED
  BY <1>1, <1>3, SetMoves

LEMMA InsertMoves ==
  ASSUME TypeOK, NEW r \in Request, Insert(r), live
  PROVE  Moves(r, "get")
<1>1. [Idle EXCEPT !.pc = "get", !.id = req[r].id].pc = "get"
  BY DEF Idle
<1>2. QED
  BY <1>1, SetMoves DEF Insert

LEMMA MetricsMoves ==
  ASSUME TypeOK, NEW r \in Request, Metrics(r)
  PROVE  Moves(r, "record") /\ req'[r].items = Pinned(pins, report)
<1>1. req[r] \in Requests
  BY DEF TypeOK
<1>2. /\ [req[r] EXCEPT !.pc = "record", !.items = Pinned(pins, report)].pc = "record"
      /\ [req[r] EXCEPT !.pc = "record", !.items = Pinned(pins, report)].items
           = Pinned(pins, report)
  BY <1>1 DEF Requests
<1>3. QED
  BY <1>2, SetMoves DEF Metrics, TypeOK

-----------------------------------------------------------------------------
\* A request that nobody has overtaken will insert its pin after all the pins there are.
AfterAll ==
  \A r \in Request \ overtaken : At(r, "insert") =>
    \A p \in pins : p.place < req[r].place

\* The pins that were raced may share a place.
PlaceInv == PlacesDistinct /\ AfterAll

LEMMA PlaceInit == Init => PlaceInv
BY DEF Init, PlaceInv, PlacesDistinct, AfterAll, At, Idle

LEMMA PlaceStep == TypeOK /\ PlaceInv /\ [Next]_vars => PlaceInv'
<1> SUFFICES ASSUME TypeOK, PlaceInv, [Next]_vars PROVE PlaceInv'
  OBVIOUS
<1> DEFINE Same(q) == At(q, "insert")' => At(q, "insert") /\ req'[q] = req[q]
<1>0. ASSUME pins' \subseteq pins, overtaken \subseteq overtaken' \cup {q \in Request : ~At(q, "insert")'},
             \A q \in Request : Same(q)
      PROVE  PlaceInv'
  BY <1>0 DEF PlaceInv, PlacesDistinct, AfterAll
<1>1. CASE UNCHANGED vars
  BY <1>1, <1>0 DEF vars, At
<1>2. ASSUME NEW r \in Request,
             Pin(r) \/ Unpin(r) \/ Check(r) \/ Remove(r) \/ Get(r) \/ Metrics(r) \/ Record(r)
               \/ Skip(r) \/ Fail(r)
      PROVE  PlaceInv'
  <2>1. pins' \subseteq pins /\ overtaken \subseteq overtaken' \cup {r}
    BY <1>2 DEF Pin, Unpin, Check, Remove, Get, Metrics, Record, Skip, Fail, history
  <2>2. req'[r].pc # "insert" /\ \A q \in Request \ {r} : req'[q] = req[q]
    <3>1. \E label : label # "insert" /\ Moves(r, label)
      <4>1. CASE Pin(r) \/ Unpin(r)
        BY <4>1, PinMoves, UnpinMoves
      <4>2. CASE Metrics(r)
        BY <4>2, MetricsMoves
      <4>3. CASE Check(r)
        BY <4>3, GotoMoves, AnswerMoves DEF Check
      <4>4. CASE Remove(r) \/ Get(r)
        BY <4>4, GotoMoves, AnswerMoves DEF Remove, Get
      <4>5. CASE Record(r) \/ Skip(r) \/ Fail(r)
        BY <4>5, AnswerMoves DEF Record, Skip, Fail, Leave
      <4>6. QED
        BY <1>2, <4>1, <4>2, <4>3, <4>4, <4>5
    <3>2. QED
      BY <3>1 DEF Moves
  <2>3. QED
    BY <2>1, <2>2, <1>0 DEF At, TypeOK
<1>3. ASSUME NEW r \in Request, Last(r) PROVE PlaceInv'
  <2>1. PICK n \in 0..MaxPins : /\ NextPlace(n, pins)
                                /\ req' = [req EXCEPT ![r] = [@ EXCEPT !.pc = "insert", !.place = n]]
    BY <1>3 DEF Last
  <2>2. \A p \in pins : p.place \in Nat
    BY DEF TypeOK
  <2>3. \A p \in pins : p.place < n
    BY <2>1, <2>2 DEF NextPlace
  <2>4. req'[r].place = n /\ \A q \in Request \ {r} : req'[q] = req[q]
    <3>1. req[r] \in Requests /\ DOMAIN req = Request
      BY DEF TypeOK
    <3>2. [req[r] EXCEPT !.pc = "insert", !.place = n].place = n
      BY <3>1 DEF Requests
    <3>3. QED
      BY <2>1, <3>1, <3>2
  <2>5. pins' = pins /\ overtaken' = overtaken \ {r}
    BY <1>3 DEF Last
  <2>6. QED
    BY <2>3, <2>4, <2>5 DEF PlaceInv, PlacesDistinct, AfterAll, At
<1>4. ASSUME NEW r \in Request, Insert(r), live PROVE PlaceInv'
  <2> DEFINE new == [id |-> req[r].id, at |-> req[r].at, place |-> req[r].place,
                     raced |-> r \in overtaken]
  <2>1. /\ pins' = pins \cup {new}
        /\ overtaken' = (overtaken \ {r}) \cup {q \in Request \ {r} : At(q, "insert")}
        /\ req' = [req EXCEPT ![r] = [Idle EXCEPT !.pc = "get", !.id = req[r].id]]
        /\ At(r, "insert")
    BY <1>4 DEF Insert
  <2>2. r \notin overtaken => \A p \in pins : p.place < new.place
    BY <2>1 DEF PlaceInv, AfterAll
  <2>3. new.place \in Nat /\ \A p \in pins : p.place \in Nat
    BY DEF TypeOK, Requests
  <2>4. new.raced = (r \in overtaken)
    OBVIOUS
  <2>5. PlacesDistinct'
    <3>1. ASSUME NEW p \in pins, p.place = new.place PROVE new.raced
      <4>1. r \in overtaken
        BY <3>1, <2>2, <2>3
      <4>2. QED
        BY <2>4, <4>1
    <3>2. QED
      BY <3>1, <2>1 DEF PlaceInv, PlacesDistinct
  <2>6. ASSUME NEW q \in Request \ overtaken', At(q, "insert")' PROVE FALSE
    <3>1. req'[r].pc = "get"
      <4>1. [Idle EXCEPT !.pc = "get", !.id = req[r].id].pc = "get"
        BY DEF Idle
      <4>2. QED
        BY <2>1, <4>1 DEF TypeOK
    <3>2. q # r
      BY <2>6, <3>1 DEF At
    <3>3. At(q, "insert")
      BY <2>1, <2>6, <3>2 DEF At, TypeOK
    <3>4. QED
      BY <2>1, <2>6, <3>2, <3>3
  <2>7. QED
    BY <2>5, <2>6 DEF PlaceInv, AfterAll
<1>5. ASSUME NEW r \in Request, Insert(r), ~live PROVE PlaceInv'
  <2>1. req'[r].pc # "insert" /\ \A q \in Request \ {r} : req'[q] = req[q]
    BY <1>5 DEF Insert, Answer, Idle, TypeOK
  <2>2. pins' = pins /\ overtaken' = overtaken \ {r}
    BY <1>5 DEF Insert
  <2>3. QED
    BY <2>1, <2>2, <1>0 DEF At
<1>6. CASE Delete \/ Regenerate
  BY <1>6, <1>0 DEF Delete, Regenerate, At
<1>7. QED
  BY <1>1, <1>2, <1>3, <1>4, <1>5, <1>6 DEF Next, Handle

\* Two pins of a dashboard share a place only by a race between the SELECT max and the
\* INSERT of one of them, for any number of requests, deletions and failures.
THEOREM PlacesDistinctHolds == Spec => []PlacesDistinct
<1>1. PlaceInv => PlacesDistinct
  BY DEF PlaceInv
<1>2. QED
  BY <1>1, PlaceInit, PlaceStep, TypeCorrect, PTL DEF Spec

-----------------------------------------------------------------------------
\* Somebody will record the pins as they are, and r will be late if it records after.
Overtakes(q, r) ==
  \/ req[q].pc \in {"get", "metrics"}
  \/ At(q, "record") /\ req[q].items = Pinned(pins, report) /\ r \in before[q]

\* What a request is about to record is right, or another one will overtake it.
CarriedRight ==
  missed = {} => \A r \in Request \ late : At(r, "record") =>
    \/ req[r].items = Pinned(pins, report)
    \/ \E q \in Request \ {r} : Overtakes(q, r)

\* Only requests about to record are read before others.
Readers == \A r, q \in Request : q \in before[r] => q # r /\ At(q, "record")

DeletedMissed == ~live => missed # {}

EdgeInv == EdgesFollowPins /\ CarriedRight /\ Readers /\ DeletedMissed

LEMMA EdgeInit == Init => EdgeInv
BY DEF Init, EdgeInv, EdgesFollowPins, CarriedRight, Readers, DeletedMissed, Edges, Pinned, At, Idle

LEMMA EdgeStep == TypeOK /\ EdgeInv /\ [Next]_vars => EdgeInv'
<1> SUFFICES ASSUME TypeOK, EdgeInv, [Next]_vars PROVE EdgeInv'
  OBVIOUS
<1> DEFINE Right == Pinned(pins, report)
           Away(label) == label \notin {"get", "metrics", "record"}
<1>1. CASE UNCHANGED vars
  BY <1>1 DEF vars, EdgeInv, EdgesFollowPins, CarriedRight, Readers, DeletedMissed, Refreshing,
     Overtakes, At, Pinned
\* A step of a request away from the refresh, which changes nothing of it.
<1>2. ASSUME NEW r \in Request, NEW label, Moves(r, label), Away(label), Away(req[r].pc),
             UNCHANGED <<live, report, pins, edges, before, late, missed>>
      PROVE  EdgeInv'
  <2>1. Right' = Right
    BY <1>2 DEF Pinned
  <2>2. \A q \in Request : Refreshing(q) => Refreshing(q)'
    BY <1>2, <2>1 DEF Moves, Refreshing, At
  <2>3. \A q, p \in Request : Overtakes(q, p) => Overtakes(q, p)'
    BY <1>2, <2>1 DEF Moves, Overtakes, At
  <2>4. \A q \in Request : At(q, "record")' => At(q, "record") /\ req'[q] = req[q]
    BY <1>2 DEF Moves, At
  <2>5. EdgesFollowPins'
    BY <1>2, <2>1, <2>2 DEF EdgeInv, EdgesFollowPins
  <2>6. CarriedRight'
    BY <1>2, <2>1, <2>3, <2>4 DEF EdgeInv, CarriedRight
  <2>7. Readers'
    BY <1>2 DEF EdgeInv, Readers, Moves, At
  <2>8. QED
    BY <1>2, <2>5, <2>6, <2>7 DEF EdgeInv, DeletedMissed
\* A step after which a request has yet to read.
<1>3. ASSUME NEW r \in Request, NEW label \in {"get", "metrics"}, Moves(r, label),
             req[r].pc # "record", UNCHANGED <<live, before, late, missed>>
      PROVE  EdgeInv'
  <2>1. Refreshing(r)' /\ \A q \in Request : Overtakes(r, q)'
    BY <1>3 DEF Refreshing, Overtakes, Moves
  <2>2. ~At(r, "record")'
    BY <1>3 DEF Moves, At
  <2>3. Readers'
    BY <1>3 DEF EdgeInv, Readers, Moves, At
  <2>4. QED
    BY <1>3, <2>1, <2>2, <2>3 DEF EdgeInv, EdgesFollowPins, CarriedRight, DeletedMissed
\* A step that the properties leave out.
<1>4. ASSUME missed' # {}, Readers' PROVE EdgeInv'
  BY <1>4 DEF EdgeInv, EdgesFollowPins, CarriedRight, DeletedMissed
<1>5. ASSUME NEW r \in Request, Pin(r) PROVE EdgeInv'
  BY <1>5, <1>2, PinMoves DEF Pin, At, history
<1>6. ASSUME NEW r \in Request, Unpin(r) PROVE EdgeInv'
  BY <1>6, <1>2, UnpinMoves DEF Unpin, At, history
<1>7. ASSUME NEW r \in Request, Check(r) PROVE EdgeInv'
  BY <1>7, <1>2, GotoMoves, AnswerMoves DEF Check, At, history
<1>8. ASSUME NEW r \in Request, Last(r) PROVE EdgeInv'
  BY <1>8, <1>2, LastMoves DEF Last, At
<1>9. ASSUME NEW r \in Request, Insert(r) PROVE EdgeInv'
  <2>1. CASE live
    BY <1>9, <2>1, <1>3, InsertMoves DEF Insert, At
  <2>2. CASE ~live
    BY <1>9, <2>2, <1>2, AnswerMoves DEF Insert, At
  <2>3. QED
    BY <2>1, <2>2
<1>10. ASSUME NEW r \in Request, Remove(r) PROVE EdgeInv'
  <2>1. CASE Goto(r, "get")
    BY <1>10, <2>1, <1>3, GotoMoves DEF Remove, At
  <2>2. CASE ~Goto(r, "get")
    <3>1. Answer(r, "no_pin") /\ pins' = pins
      BY <1>10, <2>2 DEF Remove
    <3>2. QED
      BY <1>10, <3>1, <1>2, AnswerMoves DEF Remove, At
  <2>3. QED
    BY <2>1, <2>2
<1>11. ASSUME NEW r \in Request, Get(r) PROVE EdgeInv'
  <2>1. CASE live
    BY <1>11, <2>1, <1>3, GotoMoves DEF Get, At, history
  <2>2. CASE ~live
    <3>1. Moves(r, "idle") /\ UNCHANGED <<before, missed>> /\ missed # {}
      BY <1>11, <2>2, AnswerMoves DEF Get, history, EdgeInv, DeletedMissed
    <3>2. Readers'
      BY <1>11, <3>1 DEF Get, EdgeInv, Readers, Moves, At
    <3>3. QED
      BY <3>1, <3>2, <1>4
  <2>3. QED
    BY <2>1, <2>2
<1>12. ASSUME NEW r \in Request, Metrics(r) PROVE EdgeInv'
  <2>1. Moves(r, "record") /\ req'[r].items = Right /\ Right' = Right
    BY <1>12, MetricsMoves DEF Metrics, Pinned
  <2>2. before' = [before EXCEPT ![r] = {q \in Request \ {r} : At(q, "record")}]
    BY <1>12 DEF Metrics
  <2>3. \A q \in Request \ {r} : At(q, "record")' => q \in before'[r]
    BY <2>1, <2>2 DEF Moves, At, TypeOK
  <2>4. Refreshing(r)' /\ \A q \in Request \ {r} : At(q, "record")' => Overtakes(r, q)'
    BY <2>1, <2>3 DEF Refreshing, Overtakes, Moves, At
  <2>5. Readers'
    <3>1. ASSUME NEW p \in Request, NEW q \in before'[p] \cap Request
          PROVE  q # p /\ At(q, "record")'
      <4>1. CASE p = r
        BY <3>1, <4>1, <2>1, <2>2 DEF Moves, At, TypeOK
      <4>2. CASE p # r
        <5>1. q \in before[p]
          BY <3>1, <4>2, <2>2 DEF TypeOK
        <5>2. q # p /\ At(q, "record") /\ q # r
          BY <5>1, <1>12 DEF EdgeInv, Readers, Metrics, At
        <5>3. QED
          BY <5>2, <2>1 DEF Moves, At
      <4>3. QED
        BY <4>1, <4>2
    <3>2. QED
      BY <3>1 DEF Readers
  <2>6. CarriedRight'
    BY <2>1, <2>4 DEF CarriedRight
  <2>7. QED
    BY <1>12, <2>4, <2>5, <2>6 DEF Metrics, EdgeInv, EdgesFollowPins, DeletedMissed
<1>13. ASSUME NEW r \in Request, Leave(r), Readers PROVE Readers' /\ Moves(r, "idle")
  <2>1. Moves(r, "idle")
    BY <1>13, AnswerMoves DEF Leave
  <2>2. \A p \in Request : before'[p] \subseteq before[p] \ {r}
    BY <1>13 DEF Leave
  <2>3. QED
    BY <1>13, <2>1, <2>2 DEF Readers, Moves, At
<1>14. ASSUME NEW r \in Request, Record(r) PROVE EdgeInv'
  <2>1. Readers' /\ Moves(r, "idle")
    BY <1>14, <1>13 DEF Record, EdgeInv
  <2>2. CASE r \in late
    BY <1>14, <2>1, <2>2, <1>4 DEF Record
  <2>3. CASE r \notin late /\ missed = {}
    <3>1. Right' = Right /\ missed' = missed /\ live' = live
      BY <1>14, <2>3 DEF Record, Pinned
    <3>2. ASSUME NEW q \in Request \ {r}, NEW p \in Request, p # r, Overtakes(q, p)
          PROVE  Overtakes(q, p)' /\ Refreshing(q)'
      <4>1. before[q] \ {r} \subseteq before'[q]
        BY <1>14 DEF Record, Leave
      <4>2. QED
        BY <3>1, <3>2, <4>1, <2>1 DEF Overtakes, Refreshing, Moves, At
    <3>3. EdgesFollowPins'
      <4>1. CASE req[r].items = Right
        BY <1>14, <4>1, <3>1 DEF Record, EdgesFollowPins
      <4>2. CASE req[r].items # Right
        <5>1. PICK q \in Request \ {r} : Overtakes(q, r)
          BY <1>14, <2>3, <4>2 DEF Record, EdgeInv, CarriedRight
        <5>2. Refreshing(q)'
          BY <5>1, <3>1, <2>1 DEF Overtakes, Refreshing, Moves, At
        <5>3. QED
          BY <5>2 DEF EdgesFollowPins
      <4>3. QED
        BY <4>1, <4>2
    <3>4. CarriedRight'
      <4>1. ASSUME NEW p \in Request \ late', At(p, "record")'
            PROVE  \/ req'[p].items = Right
                   \/ \E q \in Request \ {p} : Overtakes(q, p)'
        <5>1. p # r /\ req'[p] = req[p] /\ At(p, "record")
          BY <4>1, <2>1 DEF Moves, At
        <5>2. p \notin late /\ p \notin before[r]
          BY <1>14, <4>1, <5>1 DEF Record
        <5>3. CASE req[p].items = Right
          BY <5>1, <5>3
        <5>4. CASE req[p].items # Right
          <6>1. PICK q \in Request \ {p} : Overtakes(q, p)
            BY <2>3, <5>1, <5>2, <5>4 DEF EdgeInv, CarriedRight
          <6>2. q # r
            BY <1>14, <5>2, <6>1 DEF Overtakes, Record, At
          <6>3. QED
            BY <6>1, <6>2, <5>1, <3>2
        <5>5. QED
          BY <5>3, <5>4
      <4>2. QED
        BY <4>1, <3>1 DEF CarriedRight
    <3>5. QED
      BY <2>1, <3>1, <3>3, <3>4 DEF EdgeInv, DeletedMissed
  <2>4. CASE missed # {}
    BY <1>14, <2>1, <2>4, <1>4 DEF Record
  <2>5. QED
    BY <2>2, <2>3, <2>4
<1>15. ASSUME NEW r \in Request, Skip(r) PROVE EdgeInv'
  BY <1>15, <1>13, <1>4 DEF Skip, EdgeInv
<1>16. ASSUME NEW r \in Request, Fail(r) PROVE EdgeInv'
  <2>1. Moves(r, "idle")
    BY <1>16, AnswerMoves DEF Fail
  <2>2. CASE At(r, "get")
    <3>1. Readers'
      BY <1>16, <2>1, <2>2 DEF Fail, EdgeInv, Readers, Moves, At
    <3>2. QED
      BY <1>16, <2>2, <3>1, <1>4 DEF Fail
  <2>3. CASE ~At(r, "get")
    BY <1>16, <2>1, <2>3, <1>2 DEF Fail, At
  <2>4. QED
    BY <2>2, <2>3
<1>17. CASE Delete \/ Regenerate
  BY <1>17, <1>4 DEF Delete, Regenerate, EdgeInv, Readers, At
<1>18. QED
  BY <1>1, <1>5, <1>6, <1>7, <1>8, <1>9, <1>10, <1>11, <1>12, <1>14, <1>15, <1>16, <1>17
     DEF Next, Handle

\* However pins, removals and refreshes overlap, the lineage edges of a dashboard agree with
\* its pins or a refresh is under way that will make them, up to the named exceptions.
THEOREM EdgesFollow == Spec => []EdgesFollowPins
<1>1. EdgeInv => EdgesFollowPins
  BY DEF EdgeInv
<1>2. QED
  BY <1>1, EdgeInit, EdgeStep, TypeCorrect, PTL DEF Spec

-----------------------------------------------------------------------------
\* What became of the pin that a request asked for, or asked to remove.
Kept == {p.id : p \in pins} \cup unpinned
Asking(q) == q.op = "pin" /\ q.pc \in {"check", "last", "insert"}
Denied(q) ==
  /\ q.op = "pin" /\ q.pc = "idle"
  /\ q.said = "no_section" \/ (q.said = "failed" /\ live /\ "failed" \notin missed)
Placed(q) ==
  q.op = "pin" /\ (q.pc \in {"get", "metrics", "record"} \/ (q.pc = "idle" /\ q.said = "pinned"))
Gone(q) ==
  /\ q.op = "unpin"
  /\ q.pc \in {"get", "metrics", "record"} \/ (q.pc = "idle" /\ q.said \in {"no_pin", "unpinned"})

\* The label and the answer of a request go with what it asked for.
Labels(q) ==
  /\ q.pc \in {"check", "last", "insert"} \/ (q.pc = "idle" /\ q.said \in {"no_section", "pinned"})
       => q.op = "pin"
  /\ q.pc = "delete" \/ (q.pc = "idle" /\ q.said \in {"no_pin", "unpinned"}) => q.op = "unpin"

Fate(q) ==
  /\ q.id <= ids
  /\ Labels(q)
  /\ Asking(q) => q.id # 0
  /\ Asking(q) \/ Denied(q) => q.id \notin Kept
  /\ Placed(q) \/ q.pc = "delete" => q.id \in Kept \/ ~live
  /\ Gone(q) => q.id \in unpinned \/ ~live

\* The ids that are used, and that no two requests ask for one pin.
Pool ==
  /\ unpinned \cap {p.id : p \in pins} = {}
  /\ ~live => pins = {}
  /\ \A i \in Kept : i <= ids
Numbered ==
  \A r, q \in Request :
    r # q /\ req[r].op = "pin" /\ req[q].op = "pin" /\ req[r].id # 0 => req[r].id # req[q].id

AnswerInv == Pool /\ Numbered /\ \A r \in Request : Fate(req[r])

LEMMA AnswerInit == Init => AnswerInv
BY DEF Init, AnswerInv, Pool, Numbered, Fate, Labels, Asking, Denied, Placed, Gone, Kept, Idle

LEMMA AnswerHolds == AnswerInv => AnswersTrue
<1> SUFFICES ASSUME AnswerInv, NEW r \in Request, At(r, "idle")
             PROVE
    /\ req[r].said = "pinned" =>
         (\E p \in pins : p.id = req[r].id) \/ req[r].id \in unpinned \/ ~live
    /\ req[r].said \in {"no_section", "no_pin", "unpinned"} =>
         \A p \in pins : p.id # req[r].id
    /\ req[r].said = "failed" /\ req[r].op = "pin" /\ "failed" \notin missed =>
         \A p \in pins : p.id # req[r].id
  BY DEF AnswersTrue
<1>1. Fate(req[r]) /\ Pool /\ req[r].pc = "idle"
  BY DEF AnswerInv, At
<1>2. ~live => pins = {}
  BY <1>1 DEF Pool
<1>3. req[r].said = "pinned" => req[r].id \in Kept \/ ~live
  BY <1>1 DEF Fate, Labels, Placed
<1>4. req[r].said \in {"no_pin", "unpinned"} => req[r].id \in unpinned \/ ~live
  BY <1>1 DEF Fate, Labels, Gone
<1>5. req[r].said = "no_section" => req[r].id \notin Kept
  BY <1>1 DEF Fate, Labels, Denied
<1>6. req[r].said = "failed" /\ req[r].op = "pin" /\ "failed" \notin missed /\ live =>
        req[r].id \notin Kept
  BY <1>1 DEF Fate, Denied
<1>7. QED
  BY <1>1, <1>2, <1>3, <1>4, <1>5, <1>6 DEF Pool, Kept

\* Nothing that another request or the owner of the dashboard does changes the fate of a
\* request: what is used grows, and no pin appears with the id that the request asks for.
Grows ==
  /\ ids' \in Nat /\ ids <= ids'
  /\ live' => live
  /\ missed \subseteq missed' /\ unpinned \subseteq unpinned'
  /\ live' => Kept \subseteq Kept'

LEMMA FateKept ==
  ASSUME NEW q \in Requests, Fate(q), ids \in Nat, Grows,
         Asking(q) \/ Denied(q) => q.id \in Kept \/ q.id \notin Kept'
  PROVE  Fate(q)'
<1>1. q.id \in Nat
  BY DEF Requests
<1>2. q.id <= ids'
  BY <1>1 DEF Fate, Grows
<1>3. Denied(q)' => Denied(q)
  BY DEF Denied, Grows
<1>4. /\ Asking(q)' = Asking(q) /\ Placed(q)' = Placed(q) /\ Gone(q)' = Gone(q)
      /\ Labels(q)' = Labels(q)
  BY DEF Asking, Placed, Gone, Labels
<1>5. /\ Labels(q)
      /\ Asking(q) => q.id # 0
      /\ Asking(q) \/ Denied(q) => q.id \notin Kept
      /\ Placed(q) \/ q.pc = "delete" => q.id \in Kept \/ ~live
      /\ Gone(q) => q.id \in unpinned \/ ~live
  BY DEF Fate
<1>6. Asking(q)' \/ Denied(q)' => q.id \notin Kept'
  BY <1>3, <1>4, <1>5
<1>7. Placed(q)' \/ q.pc = "delete" => q.id \in Kept' \/ ~live'
  BY <1>4, <1>5 DEF Grows
<1>8. Gone(q)' => q.id \in unpinned' \/ ~live'
  BY <1>4, <1>5 DEF Grows
<1>9. QED
  BY <1>2, <1>4, <1>5, <1>6, <1>7, <1>8 DEF Fate

LEMMA OtherFate ==
  ASSUME TypeOK, AnswerInv, Grows, NEW q \in Request, req'[q] = req[q],
         Asking(req[q]) \/ Denied(req[q]) => req[q].id \in Kept \/ req[q].id \notin Kept'
  PROVE  Fate(req[q])'
<1>1. PICK c \in Requests : c = req[q] /\ c = req'[q]
  BY DEF TypeOK
<1>2. Fate(c) /\ (Asking(c) \/ Denied(c) => c.id \in Kept \/ c.id \notin Kept')
  BY <1>1 DEF AnswerInv
<1>3. Fate(c)'
  BY <1>2, FateKept DEF TypeOK
<1>4. QED
  BY <1>1, <1>3 DEF Fate, Labels, Asking, Denied, Placed, Gone, Kept

\* What a request is after a step: its label, what it asked for, and what it was told.
Becomes(r, pc, op, id, said) ==
  /\ req'[r].pc = pc /\ req'[r].op = op /\ req'[r].id = id /\ req'[r].said = said
  /\ \A q \in Request \ {r} : req'[q] = req[q]

LEMMA SetBecomes ==
  ASSUME TypeOK, NEW r \in Request, NEW new, req' = [req EXCEPT ![r] = new]
  PROVE  Becomes(r, new.pc, new.op, new.id, new.said)
BY DEF TypeOK, Becomes

LEMMA GotoBecomes ==
  ASSUME TypeOK, NEW r \in Request, NEW label, Goto(r, label)
  PROVE  Becomes(r, label, req[r].op, req[r].id, req[r].said)
<1>1. req[r] \in Requests
  BY DEF TypeOK
<1>2. QED
  BY <1>1 DEF Goto, TypeOK, Becomes, Requests

LEMMA AnswerBecomes ==
  ASSUME TypeOK, NEW r \in Request, NEW what, Answer(r, what)
  PROVE  Becomes(r, "idle", req[r].op, req[r].id, what)
BY DEF Answer, TypeOK, Becomes, Idle

\* The steps that keep pins, removals and the dashboard as they are.
LEMMA QuietStep ==
  ASSUME TypeOK, AnswerInv, NEW r \in Request, NEW pc, NEW said,
         Becomes(r, pc, req[r].op, req[r].id, said),
         UNCHANGED <<pins, unpinned, live, ids>>, missed \subseteq missed',
         Fate(req[r])'
  PROVE  AnswerInv'
<1>1. Grows /\ Kept' = Kept
  BY DEF Grows, Kept, TypeOK
<1>2. \A q \in Request : Fate(req[q])'
  BY <1>1, OtherFate DEF Becomes
<1>3. Pool'
  BY <1>1 DEF AnswerInv, Pool, Kept
<1>4. Numbered'
  BY DEF AnswerInv, Numbered, Becomes
<1>5. QED
  BY <1>2, <1>3, <1>4 DEF AnswerInv

LEMMA AnswerStep == TypeOK /\ AnswerInv /\ [Next]_vars => AnswerInv'
<1> SUFFICES ASSUME TypeOK, AnswerInv, [Next]_vars PROVE AnswerInv'
  OBVIOUS
<1>a. \A r \in Request : Fate(req[r]) /\ req[r].id \in Nat /\ req[r] \in Requests
  BY DEF AnswerInv, TypeOK, Requests
<1>b. ids \in Nat /\ Pool /\ Numbered
  BY DEF AnswerInv, TypeOK
<1>1. CASE UNCHANGED vars
  BY <1>1 DEF vars, AnswerInv, Pool, Numbered, Fate, Labels, Asking, Denied, Placed, Gone, Kept
<1>2. ASSUME NEW r \in Request, Pin(r) PROVE AnswerInv'
  <2>1. PICK p \in Position :
          req' = [req EXCEPT ![r] = [Idle EXCEPT !.pc = "check", !.id = ids + 1, !.at = p]]
    BY <1>2 DEF Pin
  <2>2. Becomes(r, "check", "pin", ids + 1, "nothing")
    BY <2>1, SetBecomes DEF Idle, TypeOK, Becomes
  <2>3. Grows /\ Kept' = Kept /\ ids' = ids + 1 /\ UNCHANGED <<pins, unpinned, live>>
    BY <1>2, <1>b DEF Pin, Grows, Kept, history
  <2>4. \A q \in Request \ {r} : Fate(req[q])'
    BY <2>2, <2>3, OtherFate DEF Becomes
  <2>5. Fate(req[r])'
    <3>1. ids + 1 \notin Kept
      BY <1>b DEF Pool
    <3>2. QED
      BY <2>2, <2>3, <3>1, <1>b DEF Becomes, Fate, Labels, Asking, Denied, Placed, Gone
  <2>6. Pool'
    <3>1. \A i \in Kept : i \in Nat
      BY DEF Kept, TypeOK
    <3>2. \A i \in Kept : i <= ids + 1
      BY <3>1, <1>b DEF Pool
    <3>3. QED
      BY <2>3, <3>2, <1>b DEF Pool
  <2>7. Numbered'
    <3>1. \A q \in Request : req[q].id # ids + 1
      BY <1>a, <1>b DEF Fate
    <3>2. QED
      BY <2>2, <3>1, <1>b DEF Numbered, Becomes
  <2>8. QED
    BY <2>4, <2>5, <2>6, <2>7 DEF AnswerInv
<1>3. ASSUME NEW r \in Request, Unpin(r) PROVE AnswerInv'
  <2>1. PICK i \in Kept :
          req' = [req EXCEPT ![r] = [Idle EXCEPT !.pc = "delete", !.op = "unpin", !.id = i]]
    BY <1>3 DEF Unpin, Kept
  <2>2. Becomes(r, "delete", "unpin", i, "nothing")
    BY <2>1 DEF Idle, TypeOK, Becomes
  <2>3. Grows /\ Kept' = Kept /\ UNCHANGED <<pins, unpinned, live, ids>>
    BY <1>3, <1>b DEF Unpin, Grows, Kept, history
  <2>4. \A q \in Request \ {r} : Fate(req[q])'
    BY <2>2, <2>3, OtherFate DEF Becomes
  <2>5. Fate(req[r])'
    <3>1. i <= ids
      BY <2>1, <1>b DEF Pool
    <3>2. QED
      BY <2>1, <2>2, <2>3, <3>1 DEF Becomes, Fate, Labels, Asking, Denied, Placed, Gone
  <2>6. Pool'
    BY <2>3, <1>b DEF Pool, Kept
  <2>7. Numbered'
    BY <2>2, <1>b DEF Numbered, Becomes
  <2>8. QED
    BY <2>4, <2>5, <2>6, <2>7 DEF AnswerInv
<1>4. ASSUME NEW r \in Request, Check(r) PROVE AnswerInv'
  <2>1. UNCHANGED <<pins, unpinned, live, ids, missed>> /\ Kept' = Kept
    BY <1>4 DEF Check, history, Kept
  <2>2. Asking(req[r])
    BY <1>4, <1>a DEF Check, At, Fate, Labels, Asking
  <2>3. \/ Becomes(r, "last", req[r].op, req[r].id, req[r].said)
        \/ Becomes(r, "idle", req[r].op, req[r].id, "no_section")
    BY <1>4, GotoBecomes, AnswerBecomes DEF Check
  <2>4. Fate(req[r])'
    BY <2>1, <2>2, <2>3, <1>a DEF Becomes, Fate, Labels, Asking, Denied, Placed, Gone
  <2>5. QED
    BY <2>1, <2>3, <2>4, QuietStep
<1>5. ASSUME NEW r \in Request, Last(r) PROVE AnswerInv'
  <2>1. UNCHANGED <<pins, unpinned, live, ids, missed>> /\ Kept' = Kept
    BY <1>5 DEF Last, Kept
  <2>2. Asking(req[r])
    BY <1>5, <1>a DEF Last, At, Fate, Labels, Asking
  <2>3. Becomes(r, "insert", req[r].op, req[r].id, req[r].said)
    <3>1. PICK n : req' = [req EXCEPT ![r] = [@ EXCEPT !.pc = "insert", !.place = n]]
      BY <1>5 DEF Last
    <3>2. QED
      BY <3>1, <1>a DEF TypeOK, Becomes, Requests
  <2>4. Fate(req[r])'
    BY <2>1, <2>2, <2>3, <1>a DEF Becomes, Fate, Labels, Asking, Denied, Placed, Gone
  <2>5. QED
    BY <2>1, <2>3, <2>4, QuietStep
<1>6. ASSUME NEW r \in Request, Insert(r) PROVE AnswerInv'
  <2>1. Asking(req[r])
    BY <1>6, <1>a DEF Insert, At, Fate, Labels, Asking
  <2>2. CASE live
    <3>1. Becomes(r, "get", "pin", req[r].id, "nothing")
      <4>1. req' = [req EXCEPT ![r] = [Idle EXCEPT !.pc = "get", !.id = req[r].id]]
        BY <1>6, <2>2 DEF Insert
      <4>2. QED
        BY <4>1 DEF Idle, TypeOK, Becomes
    <3>2. /\ pins' = pins \cup {[id |-> req[r].id, at |-> req[r].at, place |-> req[r].place,
                                 raced |-> r \in overtaken]}
          /\ UNCHANGED <<unpinned, live, ids, missed>>
      BY <1>6, <2>2 DEF Insert
    <3>3. Kept' = Kept \cup {req[r].id}
      <4>1. {p.id : p \in pins'} = {p.id : p \in pins} \cup {req[r].id}
        <5> DEFINE new == [id |-> req[r].id, at |-> req[r].at, place |-> req[r].place,
                           raced |-> r \in overtaken]
        <5>1. new.id = req[r].id /\ pins' = pins \cup {new}
          BY <3>2
        <5> HIDE DEF new
        <5>2. QED
          BY <5>1
      <4>2. QED
        BY <4>1, <3>2 DEF Kept
    <3>4. req[r].op = "pin" /\ req[r].id # 0 /\ req[r].id \notin Kept /\ req[r].id <= ids
      BY <2>1, <1>a DEF Asking, Fate
    <3>5. Grows
      BY <3>2, <3>3, <1>b DEF Grows
    <3>6. ASSUME NEW q \in Request \ {r} PROVE Fate(req[q])'
      <4>1. Asking(req[q]) \/ Denied(req[q]) => req[q].id # req[r].id
        BY <3>4, <1>b DEF Numbered, Asking, Denied
      <4>2. QED
        BY <4>1, <3>1, <3>3, <3>5, OtherFate DEF Becomes
    <3>7. Fate(req[r])'
      BY <3>1, <3>2, <3>3, <3>4 DEF Becomes, Fate, Labels, Asking, Denied, Placed, Gone
    <3>8. Pool'
      BY <2>2, <3>2, <3>3, <3>4, <1>b DEF Pool, Kept
    <3>9. Numbered'
      BY <3>1, <3>4, <1>b DEF Numbered, Becomes
    <3>10. QED
      BY <3>6, <3>7, <3>8, <3>9 DEF AnswerInv
  <2>3. CASE ~live
    <3>1. Becomes(r, "idle", req[r].op, req[r].id, "failed")
      BY <1>6, <2>3, AnswerBecomes DEF Insert
    <3>2. UNCHANGED <<pins, unpinned, live, ids, missed>> /\ Kept' = Kept
      BY <1>6, <2>3 DEF Insert, Kept
    <3>3. Fate(req[r])'
      BY <2>1, <2>3, <3>1, <3>2, <1>a DEF Becomes, Fate, Labels, Asking, Denied, Placed, Gone
    <3>4. QED
      BY <3>1, <3>2, <3>3, QuietStep
  <2>4. QED
    BY <2>2, <2>3 DEF TypeOK
<1>7. ASSUME NEW r \in Request, Remove(r) PROVE AnswerInv'
  <2> DEFINE mine == {p \in pins : p.id = req[r].id}
  <2>1. req[r].op = "unpin" /\ (req[r].id \in Kept \/ ~live) /\ req[r].id <= ids
    BY <1>7, <1>a DEF Remove, At, Fate, Labels
  <2>2. CASE mine # {}
    <3>1. Becomes(r, "get", "unpin", req[r].id, req[r].said)
      BY <1>7, <2>1, <2>2, GotoBecomes DEF Remove
    <3>2. /\ pins' = pins \ mine /\ unpinned' = unpinned \cup {req[r].id}
          /\ UNCHANGED <<live, ids, missed>>
      BY <1>7, <2>2 DEF Remove
    <3>3. Kept' = Kept
      BY <2>2, <3>2 DEF Kept
    <3>4. Grows
      BY <3>2, <3>3, <1>b DEF Grows
    <3>5. \A q \in Request \ {r} : Fate(req[q])'
      BY <3>1, <3>3, <3>4, OtherFate DEF Becomes
    <3>6. Fate(req[r])'
      BY <2>1, <3>1, <3>2 DEF Becomes, Fate, Labels, Asking, Denied, Placed, Gone
    <3>7. Pool'
      BY <3>2, <3>3, <1>b DEF Pool
    <3>8. Numbered'
      BY <2>1, <3>1, <1>b DEF Numbered, Becomes
    <3>9. QED
      BY <3>5, <3>6, <3>7, <3>8 DEF AnswerInv
  <2>3. CASE mine = {}
    <3>1. Becomes(r, "idle", req[r].op, req[r].id, "no_pin")
      BY <1>7, <2>3, AnswerBecomes DEF Remove
    <3>2. UNCHANGED <<pins, unpinned, live, ids, missed>> /\ Kept' = Kept
      BY <1>7, <2>3 DEF Remove, Kept
    <3>3. req[r].id \in unpinned \/ ~live
      BY <2>1, <2>3 DEF Kept
    <3>4. Fate(req[r])'
      BY <2>1, <3>1, <3>2, <3>3 DEF Becomes, Fate, Labels, Asking, Denied, Placed, Gone
    <3>5. QED
      BY <3>1, <3>2, <3>4, QuietStep
  <2>4. QED
    BY <2>2, <2>3
<1>8. ASSUME NEW r \in Request, Get(r) PROVE AnswerInv'
  <2>1. UNCHANGED <<pins, unpinned, live, ids, missed>> /\ Kept' = Kept
    BY <1>8 DEF Get, history, Kept
  <2>2. /\ req[r].op = "pin" => req[r].id \in Kept \/ ~live
        /\ req[r].op = "unpin" => req[r].id \in unpinned \/ ~live
        /\ req[r].id <= ids
    BY <1>8, <1>a DEF Get, At, Fate, Placed, Gone
  <2>3. CASE live
    <3>1. Becomes(r, "metrics", req[r].op, req[r].id, req[r].said)
      BY <1>8, <2>3, GotoBecomes DEF Get
    <3>2. Fate(req[r])'
      BY <2>1, <2>2, <3>1 DEF Becomes, Fate, Labels, Asking, Denied, Placed, Gone
    <3>3. QED
      BY <2>1, <3>1, <3>2, QuietStep
  <2>4. CASE ~live
    <3>1. Becomes(r, "idle", req[r].op, req[r].id, "failed")
      BY <1>8, <2>4, AnswerBecomes DEF Get
    <3>2. Fate(req[r])'
      BY <2>1, <2>2, <2>4, <3>1 DEF Becomes, Fate, Labels, Asking, Denied, Placed, Gone
    <3>3. QED
      BY <2>1, <3>1, <3>2, QuietStep
  <2>5. QED
    BY <2>3, <2>4
<1>9. ASSUME NEW r \in Request, Metrics(r) \/ Record(r) \/ Skip(r) PROVE AnswerInv'
  <2>1. UNCHANGED <<pins, unpinned, live, ids>> /\ missed \subseteq missed' /\ Kept' = Kept
    BY <1>9 DEF Metrics, Record, Skip, Kept
  <2>2. /\ req[r].op = "pin" => req[r].id \in Kept \/ ~live
        /\ req[r].op = "unpin" => req[r].id \in unpinned \/ ~live
        /\ req[r].id <= ids
    BY <1>9, <1>a DEF Metrics, Record, Skip, At, Fate, Placed, Gone
  <2>3. \/ Becomes(r, "record", req[r].op, req[r].id, req[r].said)
        \/ Becomes(r, "idle", req[r].op, req[r].id, Told(r))
    <3>1. CASE Metrics(r)
      BY <3>1, <1>a DEF Metrics, TypeOK, Becomes, Requests
    <3>2. CASE Record(r) \/ Skip(r)
      BY <3>2, AnswerBecomes DEF Record, Skip, Leave
    <3>3. QED
      BY <1>9, <3>1, <3>2
  <2>4. req[r].op \in {"pin", "unpin"}
    BY <1>a DEF Requests
  <2>5. Fate(req[r])'
    BY <2>1, <2>2, <2>3, <2>4
       DEF Becomes, Fate, Labels, Asking, Denied, Placed, Gone, Told
  <2>6. QED
    BY <2>1, <2>3, <2>5, QuietStep
<1>10. ASSUME NEW r \in Request, Fail(r) PROVE AnswerInv'
  <2>1. UNCHANGED <<pins, unpinned, live, ids>> /\ missed \subseteq missed' /\ Kept' = Kept
    BY <1>10 DEF Fail, Kept
  <2>2. Becomes(r, "idle", req[r].op, req[r].id, "failed")
    BY <1>10, AnswerBecomes DEF Fail
  <2>3. Asking(req[r]) \/ req[r].pc = "delete" \/ "failed" \in missed'
    BY <1>10, <1>a DEF Fail, At, Fate, Labels, Asking
  <2>4. Asking(req[r]) => req[r].id \notin Kept'
    BY <2>1, <1>a DEF Fate
  <2>5. req[r].pc = "delete" => req[r].op = "unpin"
    BY <1>a DEF Fate, Labels
  <2>6. req[r].id <= ids
    BY <1>a DEF Fate
  <2>7. Fate(req[r])'
    BY <2>1, <2>2, <2>3, <2>4, <2>5, <2>6
       DEF Becomes, Fate, Labels, Asking, Denied, Placed, Gone
  <2>8. QED
    BY <2>1, <2>2, <2>7, QuietStep
<1>11. CASE Delete
  <2>1. pins' = {} /\ ~live' /\ UNCHANGED <<unpinned, ids, req>> /\ missed \subseteq missed'
    BY <1>11 DEF Delete
  <2>2. Grows /\ Kept' \subseteq Kept
    BY <2>1, <1>b DEF Grows, Kept
  <2>3. \A q \in Request : Fate(req[q])'
    BY <2>1, <2>2, OtherFate, <1>a DEF Fate
  <2>4. Pool' /\ Numbered'
    BY <2>1, <2>2, <1>b DEF Pool, Numbered
  <2>5. QED
    BY <2>3, <2>4 DEF AnswerInv
<1>12. CASE Regenerate
  <2>1. UNCHANGED <<pins, unpinned, live, ids, req>> /\ missed \subseteq missed' /\ Kept' = Kept
    BY <1>12 DEF Regenerate, Kept
  <2>2. Grows
    BY <2>1, <1>b DEF Grows
  <2>3. \A q \in Request : Fate(req[q])'
    BY <2>1, <2>2, OtherFate, <1>a
  <2>4. Pool' /\ Numbered'
    BY <2>1, <1>b DEF Pool, Numbered
  <2>5. QED
    BY <2>3, <2>4 DEF AnswerInv
<1>13. QED
  BY <1>1, <1>2, <1>3, <1>4, <1>5, <1>6, <1>7, <1>8, <1>9, <1>10, <1>11, <1>12
     DEF Next, Handle

\* What the client of a finished request was told about its pin is so, however pins and
\* removals overlap, whatever fails, and when the dashboard is deleted under them.
THEOREM AnswersTrueHolds == Spec => []AnswersTrue
BY AnswerInit, AnswerStep, AnswerHolds, TypeCorrect, PTL DEF Spec
=============================================================================
