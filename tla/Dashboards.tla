----------------------------- MODULE Dashboards -----------------------------
(***************************************************************************)
(* One dashboard (services/dashboards.py, api/v1/dashboards.py): its row,  *)
(* the pins of sections of one report, and the DASHBOARD_USES edges that   *)
(* services/lineage.py keeps for it in the property graph, while requests  *)
(* pin and unpin, the report is regenerated and the dashboard is deleted.  *)
(*                                                                         *)
(* Each statement of a request commits by itself: there is no transaction  *)
(* around the SELECT of the last place and the INSERT of a pin, and the    *)
(* graph is refreshed afterwards, from another connection, from rows read  *)
(* by a third one.  Only the refresh itself is a transaction.              *)
(*                                                                         *)
(* A section is known by its metric, and by its position in the report;    *)
(* a deleted dashboard does not come back, a new one has a new id.         *)
(***************************************************************************)
EXTENDS Integers

CONSTANTS
  Request,      \* slots of requests in flight
  Metric,       \* the metrics that sections show
  MaxSections,  \* how many sections a report has at most
  MaxPins,      \* bound of the model: pins that are ever asked for
  Faults        \* "db": a statement of a request fails; "graph": a refresh fails

ASSUME DashboardAssumption ==
  /\ MaxSections \in Nat \ {0}
  /\ MaxPins \in Nat
  /\ Faults \subseteq {"db", "graph"}

VARIABLES
  live,      \* the row of the dashboard is there
  report,    \* report[p]: the metric of the section at position p
  pins,      \* the rows of dashboard_sections
  edges,     \* the edges of the dashboard: a metric and a position
  ids,       \* the pins asked for so far; each has the number of its request as its id
  req,       \* req[r]: where request r is, and what it carries
  \* History.
  overtaken, \* requests whose last place was taken by another pin since they read it
  unpinned,  \* ids of pins that a request has removed
  before,    \* before[r]: the refreshes under way that have read their pins before r's
  late,      \* requests that are to record what a later reader has recorded meanwhile
  missed     \* why the edges may not follow the pins

history == <<overtaken, unpinned, before, late, missed>>
vars == <<live, report, pins, edges, ids, req, overtaken, unpinned, before, late, missed>>

Position == 0..MaxSections - 1
\* _run_pipeline numbers the sections that returned data, in the order of a plan that
\* the model writes anew each time.
Bodies == UNION {[0..n - 1 -> Metric] : n \in 1..MaxSections}

Idle == [pc |-> "idle", op |-> "pin", id |-> 0, at |-> 0, place |-> 0, items |-> {},
         said |-> "nothing"]
At(r, label) == req[r].pc = label
Goto(r, label) == req' = [req EXCEPT ![r].pc = label]
Answer(r, what) ==
  req' = [req EXCEPT ![r] = [Idle EXCEPT !.op = req[r].op, !.id = req[r].id, !.said = what]]

\* get_dashboard: what a pin shows, which is a warning when its section was dropped.
Shown(p, body) == IF p.at \in DOMAIN body THEN body[p.at] ELSE "dropped"

\* dashboard_metrics: the pins joined with the sections they show now.
Pinned(shown, body) ==
  {[name |-> body[p.at], position |-> p.place] : p \in {q \in shown : q.at \in DOMAIN body}}

\* record_dashboard_usage merges one edge for each metric, and sets its position again for
\* every pin in the order of their places.
Edges(items) == {i \in items : \A j \in items : j.name = i.name => j.position <= i.position}

-----------------------------------------------------------------------------
\* POST /dashboards/{id}/sections and pin_section.
Pin(r) ==
  /\ At(r, "idle")
  /\ ids < MaxPins
  /\ ids' = ids + 1
  /\ \E p \in Position :
       req' = [req EXCEPT ![r] = [Idle EXCEPT !.pc = "check", !.id = ids + 1, !.at = p]]
  /\ UNCHANGED <<live, report, pins, edges, history>>

\* Is there such a section?  If not, SectionNotFoundError.
Check(r) ==
  /\ At(r, "check")
  /\ \/ req[r].at \in DOMAIN report /\ Goto(r, "last")
     \/ req[r].at \notin DOMAIN report /\ Answer(r, "no_section")
  /\ UNCHANGED <<live, report, pins, edges, ids, history>>

\* Mutant: max(position) without the + 1.
NextPlace_Max(n, shown) ==
  \/ shown = {} /\ n = 0
  \/ \E p \in shown : n = p.place /\ \A q \in shown : q.place <= p.place

\* n is coalesce(max(position) + 1, 0).
NextPlace(n, shown) ==
  \/ shown = {} /\ n = 0
  \/ \E p \in shown : n = p.place + 1 /\ \A q \in shown : q.place <= p.place

\* SELECT coalesce(max(position) + 1, 0).
Last(r) ==
  /\ At(r, "last")
  /\ \E n \in 0..MaxPins :
       NextPlace(n, pins) /\ req' = [req EXCEPT ![r] = [@ EXCEPT !.pc = "insert", !.place = n]]
  /\ overtaken' = overtaken \ {r}
  /\ UNCHANGED <<live, report, pins, edges, ids, unpinned, before, late, missed>>

\* INSERT of the pin; the foreign key refuses it when the dashboard is gone.
Insert(r) ==
  /\ At(r, "insert")
  /\ \/ /\ live
        /\ pins' = pins \cup {[id |-> req[r].id, at |-> req[r].at, place |-> req[r].place,
                               raced |-> r \in overtaken]}
        /\ req' = [req EXCEPT ![r] = [Idle EXCEPT !.pc = "get", !.id = req[r].id]]
        /\ overtaken' = (overtaken \ {r}) \cup {q \in Request \ {r} : At(q, "insert")}
     \/ /\ ~live
        /\ Answer(r, "failed")
        /\ UNCHANGED pins
        /\ overtaken' = overtaken \ {r}
  /\ UNCHANGED <<live, report, edges, ids, unpinned, before, late, missed>>

-----------------------------------------------------------------------------
\* DELETE /dashboards/{id}/sections/{pin_id} and unpin_section, with the id of a pin
\* that somebody has seen.
Unpin(r) ==
  /\ At(r, "idle")
  /\ \E i \in {p.id : p \in pins} \cup unpinned :
       req' = [req EXCEPT ![r] = [Idle EXCEPT !.pc = "delete", !.op = "unpin", !.id = i]]
  /\ UNCHANGED <<live, report, pins, edges, ids, history>>

\* DELETE of the pin: if there is none, PIN_NOT_FOUND.
Remove(r) ==
  LET mine == {p \in pins : p.id = req[r].id} IN
  /\ At(r, "delete")
  /\ pins' = pins \ mine
  /\ \/ mine # {} /\ unpinned' = unpinned \cup {req[r].id} /\ Goto(r, "get")
     \/ mine = {} /\ Answer(r, "no_pin") /\ UNCHANGED unpinned
  /\ UNCHANGED <<live, report, edges, ids, overtaken, before, late, missed>>

-----------------------------------------------------------------------------
Told(r) == IF req[r].op = "pin" THEN "pinned" ELSE "unpinned"

\* UPDATE of updated_at and get_dashboard, whose answer is indexed: a dashboard that is
\* gone by now makes it fail.
Get(r) ==
  /\ At(r, "get")
  /\ \/ live /\ Goto(r, "metrics")
     \/ ~live /\ Answer(r, "failed")
  /\ UNCHANGED <<live, report, pins, edges, ids, history>>

\* _refresh_lineage, dashboard_metrics.
Metrics(r) ==
  /\ At(r, "metrics")
  /\ req' = [req EXCEPT ![r] = [@ EXCEPT !.pc = "record", !.items = Pinned(pins, report)]]
  /\ before' = [before EXCEPT ![r] = {q \in Request \ {r} : At(q, "record")}]
  /\ UNCHANGED <<live, report, pins, edges, ids, overtaken, unpinned, late, missed>>

\* The refresh of r ends.
Leave(r) ==
  /\ Answer(r, Told(r))
  /\ before' = [q \in Request |-> IF q = r THEN {} ELSE before[q] \ {r}]

\* Mutant: the edges of before are not cleared.
Record_NoClear(r) ==
  LET new == Edges(req[r].items) IN
  /\ At(r, "record")
  /\ edges' = new \cup {e \in edges : \A i \in new : i.name # e.name}
  /\ late' = (late \cup before[r]) \ {r}
  /\ missed' = IF r \in late THEN missed \cup {"overtaken"} ELSE missed
  /\ Leave(r)
  /\ UNCHANGED <<live, report, pins, ids, overtaken, unpinned>>

\* record_dashboard_usage, one transaction: the vertex, the edges cleared and merged anew
\* from what was read.
Record(r) ==
  /\ At(r, "record")
  /\ edges' = Edges(req[r].items)
  /\ late' = (late \cup before[r]) \ {r}
  /\ missed' = IF r \in late THEN missed \cup {"overtaken"} ELSE missed
  /\ Leave(r)
  /\ UNCHANGED <<live, report, pins, ids, overtaken, unpinned>>

\* The refresh fails and is skipped: the request succeeds without it.
Skip(r) ==
  /\ "graph" \in Faults
  /\ req[r].pc \in {"metrics", "record"}
  /\ late' = late \ {r}
  /\ missed' = missed \cup {"failed"}
  /\ Leave(r)
  /\ UNCHANGED <<live, report, pins, edges, ids, overtaken, unpinned>>

\* Any other statement fails, PERSISTENCE_UNAVAILABLE: what was committed stays.
Fail(r) ==
  /\ "db" \in Faults
  /\ req[r].pc \in {"check", "last", "insert", "delete", "get"}
  /\ missed' = IF At(r, "get") THEN missed \cup {"failed"} ELSE missed
  /\ Answer(r, "failed")
  /\ overtaken' = overtaken \ {r}
  /\ UNCHANGED <<live, report, pins, edges, ids, unpinned, before, late>>

-----------------------------------------------------------------------------
\* Mutant: the pins of a deleted dashboard stay.
Delete_NoCascade ==
  /\ live
  /\ live' = FALSE
  /\ missed' = missed \cup {"deleted"}
  /\ UNCHANGED <<report, pins, edges, ids, req, overtaken, unpinned, before, late>>

\* delete_dashboard: its pins cascade, its vertex and edges stay in the graph.
Delete ==
  /\ live
  /\ live' = FALSE
  /\ pins' = {}
  /\ missed' = missed \cup {"deleted"}
  /\ UNCHANGED <<report, edges, ids, req, overtaken, unpinned, before, late>>

\* Mutant: a section that is skipped leaves its number unused.
Regenerate_Gaps ==
  /\ \E body \in UNION {[places -> Metric] : places \in SUBSET Position} : report' = body
  /\ missed' = missed \cup {"regenerated"}
  /\ UNCHANGED <<live, pins, edges, ids, req, overtaken, unpinned, before, late>>

\* A regeneration replaces the sections of the report in one transaction.  Pins name a
\* position, and nothing refreshes the graph.
Regenerate ==
  /\ \E body \in Bodies \ {report} : report' = body
  /\ missed' = missed \cup {"regenerated"}
  /\ UNCHANGED <<live, pins, edges, ids, req, overtaken, unpinned, before, late>>

-----------------------------------------------------------------------------
Init ==
  /\ live = TRUE
  /\ report \in Bodies
  /\ pins = {}
  /\ edges = {}
  /\ ids = 0
  /\ req = [r \in Request |-> Idle]
  /\ overtaken = {} /\ unpinned = {} /\ late = {} /\ missed = {}
  /\ before = [r \in Request |-> {}]

Handle(r) ==
  \/ Check(r) \/ Last(r) \/ Insert(r) \/ Remove(r)
  \/ Get(r) \/ Metrics(r) \/ Record(r) \/ Skip(r) \/ Fail(r)

Next ==
  \/ \E r \in Request : Pin(r) \/ Unpin(r) \/ Handle(r)
  \/ Delete
  \/ Regenerate

Spec == Init /\ [][Next]_vars

-----------------------------------------------------------------------------
Items == [name : Metric, position : Nat]
Requests ==
  [pc : {"idle", "check", "last", "insert", "delete", "get", "metrics", "record"},
   op : {"pin", "unpin"}, id : Nat, at : Position, place : Nat, items : SUBSET Items,
   said : {"nothing", "no_section", "no_pin", "failed", "pinned", "unpinned"}]

TypeOK ==
  /\ live \in BOOLEAN
  /\ report \in Bodies
  /\ pins \subseteq [id : Nat, at : Position, place : Nat, raced : BOOLEAN]
  /\ edges \subseteq Items
  /\ ids \in Nat
  /\ req \in [Request -> Requests]
  /\ overtaken \subseteq Request /\ late \subseteq Request
  /\ unpinned \subseteq Nat
  /\ before \in [Request -> SUBSET Request]
  /\ missed \subseteq {"failed", "overtaken", "deleted", "regenerated"}

\* pin_section, "appended last": two pins share a place only if one of them was inserted
\* by a request that another had overtaken between its SELECT max and its INSERT.
PlacesDistinct ==
  \A p, q \in pins : p # q /\ p.place = q.place => p.raced \/ q.raced

\* What the client of a finished request was told is so: pinned unless somebody unpinned
\* it or deleted the dashboard, no pin left behind by a request that found no section,
\* none either after a dashboard that vanished under the request.
AnswersTrue ==
  \A r \in Request : At(r, "idle") =>
    /\ req[r].said = "pinned" =>
         (\E p \in pins : p.id = req[r].id) \/ req[r].id \in unpinned \/ ~live
    /\ req[r].said \in {"no_section", "no_pin", "unpinned"} =>
         \A p \in pins : p.id # req[r].id
    /\ req[r].said = "failed" /\ req[r].op = "pin" /\ "failed" \notin missed =>
         \A p \in pins : p.id # req[r].id

\* A refresh that will record the pins as they are.
Refreshing(r) ==
  \/ req[r].pc \in {"get", "metrics"}
  \/ At(r, "record") /\ req[r].items = Pinned(pins, report)

\* record_dashboard_usage, "unpinned metrics drop out": however requests overlap, the
\* graph agrees with the pins or is about to, unless a refresh failed, one recorded after
\* a later reader, the report was regenerated or the dashboard was deleted.
EdgesFollowPins ==
  missed = {} => edges = Edges(Pinned(pins, report)) \/ \E r \in Request : Refreshing(r)

\* dashboards.py, "the chart and metric travel together and stay in sync with the
\* report": a pin shows the metric that it was pinned for.  The code does not see to it:
\* a regeneration that skips a section moves the ones after it.
PinsKeepMetric ==
  [][\A p \in pins \cap pins' : Shown(p, report') \in {Shown(p, report), "dropped"}]_vars
=============================================================================
