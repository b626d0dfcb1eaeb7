-------------------------- MODULE ReportScheduler --------------------------
(***************************************************************************)
(* Recurring regeneration of reports: services/report_schedules.py over    *)
(* regenerate_report and update_report of services/reports.py.             *)
(*                                                                         *)
(* Every gunicorn worker runs scheduler_loop on its own: a tick selects    *)
(* the due schedules without locking them, regenerates their reports one   *)
(* after the other and marks each row with what the tick knew when it      *)
(* began.  Users regenerate, schedule and unschedule meanwhile.  The sleep *)
(* between two ticks and the length of a pipeline are left open.           *)
(*                                                                         *)
(* The content of a report is named by the regeneration it came from: who  *)
(* ran it, and when its data was queried.                                  *)
(***************************************************************************)
EXTENDS Integers, Sequences, FiniteSets

CONSTANTS
  Report,
  Worker,     \* gunicorn workers, each with a scheduler
  User,       \* regenerations that users have under way
  NoActor,    \* nobody holds the row of a report
  Frequency,
  Hourly,     \* the frequencies that snap to the top of the hour
  Period,     \* Period[f]: ticks of the clock between two runs
  Limit,      \* LIMIT of the SELECT of due schedules
  MaxTime,    \* bound of the model: the clock
  MaxRows,    \* bound of the model: schedules ever created
  MaxFaults,  \* bound of the model: database failures and crashes
  Faults      \* "llm": a pipeline fails; "db": a write fails; "crash": a worker dies

Actor == Worker \cup User

ASSUME SchedulerAssumption ==
  /\ Worker \cap User = {} /\ NoActor \notin Actor
  /\ Hourly \subseteq Frequency
  /\ Period \in [Frequency -> Nat \ {0}]
  /\ Limit \in Nat \ {0}
  /\ MaxTime \in Nat /\ MaxRows \in Nat /\ MaxFaults \in Nat
  /\ Faults \subseteq {"llm", "db", "crash"}

VARIABLES
  clock,
  head,      \* head[p]: the regeneration the row of report p is from
  sections,  \* sections[p]: the regenerations its report_sections are from
  lock,      \* lock[p]: whose open transaction has written report p
  row,       \* row[p]: the schedule of report p
  ids,       \* the schedules created so far
  blind,     \* the schedules whose tenant does not see the report
  job,       \* job[a]: what actor a is doing
  faults,    \* the database failures and crashes so far
  missed     \* missed[p]: what went by schedule p unnoticed (history)

vars == <<clock, head, sections, lock, row, ids, blind, job, faults, missed>>

Never == -1
NoRow == [id |-> 0, freq |-> "none", next |-> 0, last |-> Never, err |-> "none"]
Scheduled(p) == row[p].id # 0
Due(p) == Scheduled(p) /\ row[p].next <= clock

\* _next_run
NextRun(f, t) == IF f \in Hourly THEN (t \div Period[f] + 1) * Period[f] ELSE t + Period[f]

Idle == [pc |-> "idle", queue |-> << >>, now |-> 0, asof |-> 0, err |-> "none", old |-> {}]
At(a, label) == job[a].pc = label
Target(a) == Head(job[a].queue).report
Set(a, j) == job' = [job EXCEPT ![a] = j]
Start(a, queue, now) ==
  Set(a, [pc |-> "generate", queue |-> queue, now |-> now, asof |-> 0, err |-> "none", old |-> {}])
Goto(a, label, asof, err, old) ==
  Set(a, [pc |-> label, queue |-> job[a].queue, now |-> job[a].now,
          asof |-> asof, err |-> err, old |-> old])
Content(a) == [by |-> a, asof |-> job[a].asof]

Miss(p, what) == missed' = [missed EXCEPT ![p] = @ \cup {what}]
Failure(kind) == kind \in Faults /\ faults < MaxFaults /\ faults' = faults + 1

-----------------------------------------------------------------------------
Carried(p) ==
  \E w \in Worker : \E i \in DOMAIN job[w].queue : job[w].queue[i].id = row[p].id

\* What schedule_report leaves in the row: frequency and anchor, and what was there.
PutRow(p, id, f) ==
  row' = [row EXCEPT ![p] = [id |-> id, freq |-> f, next |-> NextRun(f, clock),
                             last |-> row[p].last, err |-> row[p].err]]

\* schedule_report without a row for the report.  The route takes any report's id and the
\* foreign key looks past the tenants, so that the report may be one of another tenant.
Schedule(p, f) ==
  /\ ~Scheduled(p) /\ ids < MaxRows
  /\ ids' = ids + 1
  /\ blind' \in {blind, blind \cup {ids + 1}}
  /\ PutRow(p, ids + 1, f)
  /\ missed' = [missed EXCEPT ![p] = {}]
  /\ UNCHANGED <<clock, head, sections, lock, job, faults>>

\* schedule_report where there is one, by its tenant: PostgreSQL refuses any other.
Reschedule(p, f) ==
  /\ Scheduled(p)
  /\ PutRow(p, row[p].id, f)
  /\ IF Carried(p) THEN Miss(p, "replaced") ELSE UNCHANGED missed
  /\ UNCHANGED <<clock, head, sections, lock, ids, blind, job, faults>>

\* unschedule_report
Unschedule(p) ==
  /\ Scheduled(p)
  /\ row' = [row EXCEPT ![p] = NoRow]
  /\ UNCHANGED <<clock, head, sections, lock, ids, blind, job, faults, missed>>

\* run_due_schedules selects up to Limit due rows, the longest due first.
Tick(w) ==
  LET due == {p \in Report : Due(p)}
      Entry(p) == [id |-> row[p].id, report |-> p, freq |-> row[p].freq] IN
  /\ At(w, "idle") /\ due # {}
  /\ \E n \in 1..Limit : \E q \in [1..n -> due] :
       /\ n = Limit \/ n = Cardinality(due)
       /\ \A i, j \in 1..n : i < j => q[i] # q[j] /\ row[q[i]].next <= row[q[j]].next
       /\ \A p \in due : (\A i \in 1..n : q[i] # p) => row[q[n]].next <= row[p].next
       /\ Start(w, [i \in 1..n |-> Entry(q[i])], clock)
  /\ UNCHANGED <<clock, head, sections, lock, row, ids, blind, faults, missed>>

\* A user asks for a regeneration of a report that their tenant sees; others are answered 404.
Regenerate(u, p) ==
  /\ At(u, "idle")
  /\ Start(u, << [id |-> 0, report |-> p, freq |-> "none"] >>, 0)
  /\ UNCHANGED <<clock, head, sections, lock, row, ids, blind, faults, missed>>

-----------------------------------------------------------------------------
\* The regeneration of a's report is over: a scheduler marks the row, a user has an answer.
Done(a, err) ==
  \/ a \in Worker /\ Goto(a, "mark", job[a].asof, err, {})
  \/ a \in User /\ Set(a, Idle)

\* The tenant that a regenerates for sees the report (get_report is not None).
Sees(a) == Head(job[a].queue).id \notin blind

\* regenerate_report up to the end of _run_pipeline; it returns None, and raises nothing,
\* where the report is not there for its tenant.
Generate(a) ==
  /\ At(a, "generate")
  /\ \/ Sees(a) /\ Goto(a, "update", clock, "none", {})
     \/ ~Sees(a) /\ Done(a, "none")
     \/ "llm" \in Faults /\ Done(a, "failed")
  /\ UNCHANGED <<clock, head, sections, lock, row, ids, blind, faults, missed>>

\* Mutant: the sections are deleted without the lock of the report.
Replace_NoLock(a) ==
  /\ At(a, "update")
  /\ Goto(a, "commit", job[a].asof, "none", sections[Target(a)])
  /\ UNCHANGED <<clock, head, sections, lock, row, ids, blind, faults, missed>>

\* update_report: the UPDATE takes the lock of the report, and the DELETE meets the
\* sections that are committed by now.
Replace(a) ==
  /\ At(a, "update")
  /\ lock[Target(a)] = NoActor
  /\ lock' = [lock EXCEPT ![Target(a)] = a]
  /\ Goto(a, "commit", job[a].asof, "none", sections[Target(a)])
  /\ UNCHANGED <<clock, head, sections, row, ids, blind, faults, missed>>

Unlock(a) == lock' = [p \in Report |-> IF lock[p] = a THEN NoActor ELSE lock[p]]

\* The new sections are inserted and the transaction commits.
Commit(a) ==
  LET p == Target(a) IN
  /\ At(a, "commit")
  /\ head' = [head EXCEPT ![p] = Content(a)]
  /\ sections' = [sections EXCEPT ![p] = (@ \ job[a].old) \cup {Content(a)}]
  /\ IF job[a].asof < head[p].asof THEN Miss(p, "older") ELSE UNCHANGED missed
  /\ Unlock(a)
  /\ Done(a, "none")
  /\ UNCHANGED <<clock, row, ids, blind, faults>>

\* update_report fails open: its caller goes on as if the report were saved.
NotSaved(a) ==
  /\ job[a].pc \in {"update", "commit"}
  /\ Failure("db")
  /\ IF a \in Worker THEN Miss(Target(a), "unsaved") ELSE UNCHANGED missed
  /\ Unlock(a)
  /\ Done(a, "none")
  /\ UNCHANGED <<clock, head, sections, row, ids, blind>>

-----------------------------------------------------------------------------
\* Mutant: the loop over the due rows runs past the last.
NextEntry_PastEnd(w) == Start(w, Tail(job[w].queue), job[w].now)

\* The loop goes on to the next due row, or ends.
NextEntry(w) ==
  \/ Len(job[w].queue) = 1 /\ Set(w, Idle)
  \/ Len(job[w].queue) > 1 /\ Start(w, Tail(job[w].queue), job[w].now)

\* Mutant: a row is marked by its report.
Matches_ByReport(w) == Scheduled(Target(w))

\* UPDATE ... WHERE id: the row may be gone, or another one.
Matches(w) == row[Target(w)].id = Head(job[w].queue).id

\* Mutant: the error is not recorded.
Outcome_Lost(w) == "none"

Outcome(w) == job[w].err

\* Mutant: the next run is only set after a success.
Anchor_OnSuccess(w) ==
  IF job[w].err = "none" THEN NextRun(Head(job[w].queue).freq, job[w].now) ELSE row[Target(w)].next

\* The frequency is the one that the tick selected, and so is the time.
Anchor(w) == NextRun(Head(job[w].queue).freq, job[w].now)

MarkRow(w) ==
  LET p == Target(w) IN
  row' = [row EXCEPT ![p] = [id |-> row[p].id, freq |-> row[p].freq, next |-> Anchor(w),
                             last |-> job[w].now, err |-> Outcome(w)]]

Mark(w) ==
  /\ At(w, "mark")
  /\ \/ Matches(w) /\ MarkRow(w)
     \/ ~Matches(w) /\ UNCHANGED row
  /\ NextEntry(w)
  /\ UNCHANGED <<clock, head, sections, lock, ids, blind, faults, missed>>

\* The mark fails, and the exception ends the tick.
TickFails(w) ==
  /\ At(w, "mark")
  /\ Failure("db")
  /\ Set(w, Idle)
  /\ UNCHANGED <<clock, head, sections, lock, row, ids, blind, missed>>

Crash(a) ==
  /\ ~At(a, "idle")
  /\ Failure("crash")
  /\ Unlock(a)
  /\ Set(a, Idle)
  /\ UNCHANGED <<clock, head, sections, row, ids, blind, missed>>

Advance ==
  /\ clock < MaxTime
  /\ clock' = clock + 1
  /\ UNCHANGED <<head, sections, lock, row, ids, blind, job, faults, missed>>

-----------------------------------------------------------------------------
First == [by |-> NoActor, asof |-> 0]

Init ==
  /\ clock = 0
  /\ head = [p \in Report |-> First] /\ sections = [p \in Report |-> {First}]
  /\ lock = [p \in Report |-> NoActor]
  /\ row = [p \in Report |-> NoRow] /\ ids = 0 /\ blind = {}
  /\ job = [a \in Actor |-> Idle]
  /\ faults = 0
  /\ missed = [p \in Report |-> {}]

Regenerating(a) ==
  Generate(a) \/ Replace(a) \/ Commit(a) \/ NotSaved(a)

Next ==
  \/ \E p \in Report : Unschedule(p) \/ \E f \in Frequency : Schedule(p, f) \/ Reschedule(p, f)
  \/ \E w \in Worker : Tick(w) \/ Mark(w) \/ TickFails(w)
  \/ \E u \in User, p \in Report : Regenerate(u, p)
  \/ \E a \in Actor : Regenerating(a) \/ Crash(a)
  \/ Advance

Spec == Init /\ [][Next]_vars

\* The loops tick and what was begun goes on; strong fairness of the UPDATE stands for
\* PostgreSQL's queue on a row.
FairSpec ==
  /\ Spec
  /\ \A w \in Worker : WF_vars(Tick(w) \/ Mark(w))
  /\ \A a \in Actor : WF_vars(Generate(a) \/ Commit(a)) /\ SF_vars(Replace(a))

-----------------------------------------------------------------------------
Err == {"none", "failed"}
Contents == [by : Actor \cup {NoActor}, asof : 0..MaxTime]
Rows ==
  [id : 0..MaxRows, freq : Frequency \cup {"none"}, next : Nat, last : -1..MaxTime, err : Err]
Entries == [id : 0..MaxRows, report : Report, freq : Frequency \cup {"none"}]
Jobs ==
  [pc : {"idle", "generate", "update", "commit", "mark"}, queue : Seq(Entries),
   now : 0..MaxTime, asof : 0..MaxTime, err : Err, old : SUBSET Contents]

TypeOK ==
  /\ clock \in 0..MaxTime /\ ids \in 0..MaxRows /\ faults \in 0..MaxFaults
  /\ blind \subseteq 1..ids
  /\ head \in [Report -> Contents] /\ sections \in [Report -> SUBSET Contents]
  /\ lock \in [Report -> Actor \cup {NoActor}]
  /\ missed \in [Report -> SUBSET {"replaced", "unsaved", "older"}]
  /\ row \in [Report -> Rows]
  /\ \A p \in Report : row[p].id <= ids /\ (Scheduled(p) => row[p].freq \in Frequency)
  /\ job \in [Actor -> Jobs]
  /\ \A a \in Actor :
       /\ At(a, "idle") <=> job[a].queue = << >>
       /\ job[a].now <= clock
       /\ \A i \in DOMAIN job[a].queue :
            /\ job[a].queue[i].id <= ids
            /\ a \in Worker => job[a].queue[i].id # 0 /\ job[a].queue[i].freq \in Frequency

\* update_report replaces row and sections in one transaction behind the lock of the row:
\* whoever regenerates a report at the same time, and whatever fails, all that is
\* committed of it is of one regeneration.
OneRegeneration == \A p \in Report : sections[p] = {head[p]}

\* _next_run: the next run is never further away than the frequency of the schedule
\* says, unless the schedule was replaced while a tick held its old frequency.
Punctual ==
  \A p \in Report :
    Scheduled(p) /\ "replaced" \notin missed[p] => row[p].next <= clock + Period[row[p].freq]

\* run_due_schedules: a run that is recorded without an error left data in the report
\* that is no older than the run, unless the schedule is of a tenant that does not see the
\* report, the report could not be written, or the regeneration of somebody who began
\* earlier came after it.
RunRecorded ==
  \A p \in Report :
    /\ Scheduled(p) /\ row[p].err = "none" /\ row[p].id \notin blind
    /\ "unsaved" \notin missed[p] /\ "older" \notin missed[p]
    => row[p].last <= head[p].asof

\* scheduler_loop: a run that is due is made, though its pipeline fails every time and
\* other schedules are due as well: the row's next run moves on.
DueAt(p, t) == Due(p) /\ row[p].next = t
DueIsHandled == \A p \in Report, t \in 0..MaxTime : DueAt(p, t) ~> ~DueAt(p, t)

\* schedule_report, "Create or replace the schedule for a report": without the exception
\* of Punctual, which a tick that holds the old frequency refutes.
AlwaysPunctual ==
  \A p \in Report : Scheduled(p) => row[p].next <= clock + Period[row[p].freq]

\* run_due_schedules, "each failure is logged and recorded on the row": no regeneration
\* goes unsaved under a row that records none, which update_report's answer refutes, and
\* regenerate_report's of a report that the tenant of the schedule does not see.
FailuresRecorded ==
  \A p \in Report :
    Scheduled(p) /\ row[p].err = "none" /\ "older" \notin missed[p] => row[p].last <= head[p].asof
=============================================================================
