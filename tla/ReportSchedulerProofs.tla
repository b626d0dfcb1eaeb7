----------------------- MODULE ReportSchedulerProofs -----------------------
(***************************************************************************)
(* Proofs about ReportScheduler for any reports, workers, users, periods   *)
(* and limits and with any faults: types; what is committed of a report is *)
(* of one regeneration; the next run is within the frequency; and a run    *)
(* recorded without an error left fresh data.  The last two hold with the  *)
(* exceptions that Punctual and RunRecorded name.                          *)
(***************************************************************************)
EXTENDS ReportScheduler, SequenceTheorems, TLAPS

\* The parts of TypeOK that belong to the reports, to the schedules and to the jobs.
ReportType ==
  /\ head \in [Report -> Contents] /\ sections \in [Report -> SUBSET Contents]
  /\ lock \in [Report -> Actor \cup {NoActor}]
CountType ==
  /\ clock \in 0..MaxTime /\ ids \in 0..MaxRows /\ faults \in 0..MaxFaults
  /\ blind \subseteq 1..ids
RowType ==
  /\ row \in [Report -> Rows]
  /\ \A p \in Report : row[p].id <= ids /\ (Scheduled(p) => row[p].freq \in Frequency)
MissedType == missed \in [Report -> SUBSET {"replaced", "unsaved", "older"}]
QueueOK(a, queue) ==
  \A i \in DOMAIN queue :
    queue[i].id <= ids /\ (a \in Worker => queue[i].id # 0 /\ queue[i].freq \in Frequency)
JobType ==
  /\ job \in [Actor -> Jobs]
  /\ \A a \in Actor :
       /\ At(a, "idle") <=> job[a].queue = << >>
       /\ job[a].now <= clock
       /\ QueueOK(a, job[a].queue)

\* A transaction about to commit holds its report and has seen what it replaces.
Locked ==
  \A a \in Actor :
    At(a, "commit") => lock[Target(a)] = a /\ job[a].old = {head[Target(a)]}

-----------------------------------------------------------------------------
LEMMA TypeParts ==
  TypeOK <=> ReportType /\ CountType /\ RowType /\ MissedType /\ JobType
BY DEF TypeOK, ReportType, CountType, RowType, MissedType, JobType, QueueOK

LEMMA TypePartsNext ==
  ASSUME ReportType', CountType', RowType', MissedType', JobType' PROVE TypeOK'
BY DEF TypeOK, ReportType, CountType, RowType, MissedType, JobType, QueueOK

\* The top of the next period is within a period.
LEMMA NextTop ==
  ASSUME NEW t \in Nat, NEW p \in Nat \ {0}
  PROVE  (t \div p + 1) * p \in Nat /\ (t \div p + 1) * p <= t + p
<1>1. t \div p \in Nat
  OBVIOUS
<1>2. (t \div p + 1) * p <= t + p
  OBVIOUS
<1>3. ASSUME NEW q \in Nat PROVE (q + 1) * p \in Nat
  OBVIOUS
<1>4. QED
  BY <1>1, <1>2, <1>3

LEMMA NextRunLater ==
  ASSUME NEW f \in Frequency, NEW t \in Nat
  PROVE  NextRun(f, t) \in Nat /\ NextRun(f, t) <= t + Period[f]
<1>1. Period[f] \in Nat \ {0}
  BY SchedulerAssumption
<1>2. t + Period[f] \in Nat
  BY <1>1
<1>3. (t \div Period[f] + 1) * Period[f] \in Nat
      /\ (t \div Period[f] + 1) * Period[f] <= t + Period[f]
  BY <1>1, NextTop
<1>4. CASE f \in Hourly
  BY <1>3, <1>4, Zenon DEF NextRun
<1>5. CASE f \notin Hourly
  BY <1>2, <1>5 DEF NextRun
<1>6. QED
  BY <1>4, <1>5

\* What is known of an actor at work.
LEMMA Busy ==
  ASSUME JobType, NEW a \in Actor, ~At(a, "idle")
  PROVE  /\ job[a] \in Jobs /\ job[a].queue # << >>
         /\ Head(job[a].queue) \in Entries /\ Target(a) \in Report
         /\ Head(job[a].queue) = job[a].queue[1] /\ 1 \in DOMAIN job[a].queue
<1>1. job[a] \in Jobs /\ job[a].queue \in Seq(Entries) /\ job[a].queue # << >>
  BY DEF JobType, Jobs
<1>2. ASSUME NEW q \in Seq(Entries), q # << >>
      PROVE  Head(q) = q[1] /\ 1 \in DOMAIN q /\ Head(q) \in Entries
  BY <1>2, HeadTailProperties
<1>3. Head(job[a].queue) \in Entries
  BY <1>1, <1>2
<1>4. Target(a) \in Report
  BY <1>3 DEF Target, Entries
<1>5. QED
  BY <1>1, <1>2, <1>4

LEMMA SetTypes ==
  ASSUME JobType, NEW a \in Actor, NEW j \in Jobs, Set(a, j),
         clock' = clock, ids' = ids,
         j.pc = "idle" <=> j.queue = << >>, j.now <= clock, QueueOK(a, j.queue)
  PROVE  JobType'
<1>1. job' = [job EXCEPT ![a] = j]
  BY DEF Set
<1>2. job' \in [Actor -> Jobs]
  BY <1>1 DEF JobType
<1>3. ASSUME NEW b \in Actor
      PROVE  /\ job'[b].pc = "idle" <=> job'[b].queue = << >>
             /\ job'[b].now <= clock /\ QueueOK(b, job'[b].queue)
  BY <1>1, <1>3 DEF JobType, At
<1>4. QED
  BY <1>2, <1>3 DEF JobType, At, QueueOK

LEMMA IdleTypes ==
  ASSUME JobType, CountType, NEW a \in Actor, Set(a, Idle), clock' = clock, ids' = ids
  PROVE  JobType'
<1>1. Idle \in Jobs /\ Idle.pc = "idle" /\ Idle.queue = << >> /\ Idle.now = 0
  BY SchedulerAssumption DEF Idle, Jobs, Err
<1>2. QED
  BY <1>1, SetTypes DEF CountType, QueueOK

LEMMA StartTypes ==
  ASSUME JobType, CountType, NEW a \in Actor, NEW queue \in Seq(Entries), queue # << >>,
         QueueOK(a, queue), NEW now \in 0..MaxTime, now <= clock,
         Start(a, queue, now), clock' = clock, ids' = ids
  PROVE  JobType'
<1> DEFINE j == [pc |-> "generate", queue |-> queue, now |-> now, asof |-> 0, err |-> "none",
                 old |-> {}]
<1>1. j \in Jobs
  BY SchedulerAssumption DEF Jobs, Err
<1>2. QED
  BY <1>1, SetTypes DEF Start

LEMMA GotoTypes ==
  ASSUME JobType, CountType, NEW a \in Actor, ~At(a, "idle"),
         NEW label \in {"update", "commit", "mark"}, NEW asof \in 0..MaxTime,
         NEW err \in Err, NEW old \in SUBSET Contents,
         Goto(a, label, asof, err, old), clock' = clock, ids' = ids
  PROVE  JobType'
<1> DEFINE j == [pc |-> label, queue |-> job[a].queue, now |-> job[a].now,
                 asof |-> asof, err |-> err, old |-> old]
<1>1. j \in Jobs
  BY Busy DEF Jobs
<1>2. j.queue # << >> /\ j.now <= clock /\ QueueOK(a, j.queue)
  BY Busy DEF JobType
<1>3. QED
  BY <1>1, <1>2, SetTypes DEF Goto

LEMMA DoneTypes ==
  ASSUME JobType, CountType, NEW a \in Actor, ~At(a, "idle"), NEW err \in Err,
         Done(a, err), clock' = clock, ids' = ids
  PROVE  JobType'
<1>1. job[a].asof \in 0..MaxTime /\ {} \in SUBSET Contents
  BY Busy DEF Jobs
<1>2. QED
  BY <1>1, GotoTypes, IdleTypes DEF Done

LEMMA MissTypes ==
  ASSUME MissedType, NEW p \in Report, NEW what \in {"replaced", "unsaved", "older"},
         Miss(p, what)
  PROVE  MissedType'
BY DEF MissedType, Miss

-----------------------------------------------------------------------------
LEMMA PutRowTypes ==
  ASSUME RowType, CountType, NEW p \in Report, NEW f \in Frequency, NEW id \in 1..MaxRows,
         PutRow(p, id, f), id <= ids', ids <= ids', ids' \in 0..MaxRows
  PROVE  RowType'
<1> DEFINE r == [id |-> id, freq |-> f, next |-> NextRun(f, clock),
                 last |-> row[p].last, err |-> row[p].err]
<1>1. NextRun(f, clock) \in Nat
  BY NextRunLater, SchedulerAssumption DEF CountType
<1>2. r \in Rows /\ r.id = id /\ r.freq = f
  BY <1>1, SchedulerAssumption DEF RowType, Rows
<1>3. row' = [row EXCEPT ![p] = r]
  BY DEF PutRow
<1>4. row' \in [Report -> Rows]
  BY <1>2, <1>3 DEF RowType
<1>5. ASSUME NEW q \in Report
      PROVE  row'[q].id <= ids' /\ (row'[q].id # 0 => row'[q].freq \in Frequency)
  <2>1. CASE q = p
    BY <1>2, <1>3, <2>1 DEF RowType
  <2>2. CASE q # p
    <3>1. row'[q] = row[q] /\ row[q] \in Rows
      BY <1>3, <2>2 DEF RowType
    <3>2. row[q].id \in Nat /\ row[q].id <= ids /\ ids \in Nat /\ ids' \in Nat
      BY <3>1, SchedulerAssumption DEF RowType, Rows, CountType
    <3>3. QED
      BY <3>1, <3>2 DEF RowType, Scheduled
  <2>3. QED
    BY <2>1, <2>2
<1>6. QED
  BY <1>4, <1>5 DEF RowType, Scheduled

LEMMA IdsTypes ==
  ASSUME JobType, CountType, job' = job, clock' = clock, ids' = ids + 1
  PROVE  JobType'
<1>1. ASSUME NEW a \in Actor, NEW i \in DOMAIN job[a].queue
      PROVE  job[a].queue[i].id <= ids'
  <2>1. job[a].queue[i] \in Entries
    BY DEF JobType, Jobs
  <2>2. job[a].queue[i].id \in Nat /\ job[a].queue[i].id <= ids /\ ids \in Nat
    BY <2>1, SchedulerAssumption DEF Entries, CountType, JobType, QueueOK
  <2>3. QED
    BY <2>2
<1>2. QED
  BY <1>1 DEF JobType, QueueOK, At

LEMMA ScheduleTypes ==
  ASSUME TypeOK, NEW p \in Report, NEW f \in Frequency, Schedule(p, f)
  PROVE  TypeOK'
<1> USE DEF Schedule
<1>1. ReportType /\ CountType /\ RowType /\ MissedType /\ JobType
  BY TypeParts
<1>2. ids \in Nat /\ ids + 1 \in 1..MaxRows /\ ids' = ids + 1
  BY <1>1, SchedulerAssumption DEF CountType
<1>3. ids + 1 <= ids' /\ ids <= ids' /\ ids' \in 0..MaxRows
  BY <1>2
<1>4. ReportType'
  BY <1>1 DEF ReportType
<1>5. CountType'
  BY <1>1, <1>3 DEF CountType
<1>6. RowType'
  BY <1>1, <1>2, <1>3, PutRowTypes
<1>7. MissedType'
  BY <1>1 DEF MissedType
<1>8. JobType'
  BY <1>1, <1>2, IdsTypes
<1>9. QED
  BY <1>4, <1>5, <1>6, <1>7, <1>8, TypePartsNext

\* Nothing but the jobs, the locks, the contents and the row of one actor's report moves.
LEMMA JobStays == ASSUME JobType, job' = job, clock' = clock, ids' = ids PROVE JobType'
BY DEF JobType, QueueOK, At

LEMMA RowStays == ASSUME RowType, row' = row, ids' = ids PROVE RowType'
BY DEF RowType, Scheduled

LEMMA RescheduleTypes ==
  ASSUME TypeOK, NEW p \in Report, NEW f \in Frequency, Reschedule(p, f)
  PROVE  TypeOK'
<1> USE DEF Reschedule
<1>1. ReportType /\ CountType /\ RowType /\ MissedType /\ JobType
  BY TypeParts
<1>2. row[p] \in Rows /\ row[p].id # 0 /\ row[p].id <= ids /\ ids \in 0..MaxRows
  BY <1>1 DEF RowType, Scheduled, CountType
<1>3. row[p].id \in 1..MaxRows /\ ids <= ids
  BY <1>2, SchedulerAssumption DEF Rows
<1>4. ReportType'
  BY <1>1 DEF ReportType
<1>5. CountType'
  BY <1>1 DEF CountType
<1>6. RowType'
  BY <1>1, <1>2, <1>3, PutRowTypes
<1>7. MissedType'
  BY <1>1, MissTypes DEF MissedType
<1>8. JobType'
  BY <1>1, JobStays
<1>9. QED
  BY <1>4, <1>5, <1>6, <1>7, <1>8, TypePartsNext

LEMMA UnscheduleTypes ==
  ASSUME TypeOK, NEW p \in Report, Unschedule(p) PROVE TypeOK'
<1> USE DEF Unschedule
<1>1. ReportType /\ CountType /\ RowType /\ MissedType /\ JobType
  BY TypeParts
<1>2. NoRow \in Rows /\ NoRow.id = 0 /\ ids >= 0
  BY <1>1, SchedulerAssumption DEF NoRow, Never, Rows, Err, CountType
<1>3. row' \in [Report -> Rows] /\ row' = [row EXCEPT ![p] = NoRow]
  BY <1>1, <1>2 DEF RowType
<1>4. RowType'
  BY <1>1, <1>2, <1>3 DEF RowType, Scheduled
<1>5. ReportType' /\ CountType' /\ MissedType'
  BY <1>1 DEF ReportType, CountType, MissedType
<1>6. JobType'
  BY <1>1, JobStays
<1>7. QED
  BY <1>4, <1>5, <1>6, TypePartsNext

LEMMA TickTypes ==
  ASSUME TypeOK, NEW w \in Worker, Tick(w) PROVE TypeOK'
<1>1. ReportType /\ CountType /\ RowType /\ MissedType /\ JobType
  BY TypeParts
<1> DEFINE due == {p \in Report : Due(p)}
           Entry(p) == [id |-> row[p].id, report |-> p, freq |-> row[p].freq]
<1>2. PICK n \in 1..Limit : \E q \in [1..n -> due] : Start(w, [i \in 1..n |-> Entry(q[i])], clock)
  BY DEF Tick
<1>20. PICK q \in [1..n -> due] : Start(w, [i \in 1..n |-> Entry(q[i])], clock)
  BY <1>2
<1>3. \A p \in due : Entry(p) \in Entries /\ Entry(p).id <= ids
                       /\ Entry(p).id # 0 /\ Entry(p).freq \in Frequency
  BY <1>1 DEF Due, Scheduled, RowType, Rows, Entries
<1> DEFINE s == [i \in 1..n |-> Entry(q[i])]
<1> HIDE DEF Entry, due
<1>4. n \in Nat /\ n >= 1
  BY SchedulerAssumption
<1>5. \A i \in 1..n : s[i] \in Entries /\ s[i].id <= ids /\ s[i].id # 0 /\ s[i].freq \in Frequency
  BY <1>3
<1>6. s \in Seq(Entries) /\ s # << >> /\ DOMAIN s = 1..n
  BY <1>4, <1>5
<1>7. QueueOK(w, s)
  BY <1>5, <1>6 DEF QueueOK
<1>8. clock \in 0..MaxTime /\ clock <= clock /\ w \in Actor
  BY <1>1, SchedulerAssumption DEF CountType, Actor
<1>9. UNCHANGED <<clock, head, sections, lock, row, ids, blind, faults, missed>>
  BY DEF Tick
<1> HIDE DEF s
<1>10. Start(w, s, clock)
  BY <1>20 DEF s
<1>11. JobType'
  BY <1>1, <1>6, <1>7, <1>8, <1>9, <1>10, StartTypes
<1>12. ReportType' /\ CountType' /\ MissedType' /\ RowType'
  BY <1>1, <1>9, RowStays DEF ReportType, CountType, MissedType
<1>13. QED
  BY <1>11, <1>12, TypePartsNext

LEMMA RegenerateTypes ==
  ASSUME TypeOK, NEW u \in User, NEW p \in Report, Regenerate(u, p) PROVE TypeOK'
<1> USE DEF Regenerate
<1>1. ReportType /\ CountType /\ RowType /\ MissedType /\ JobType
  BY TypeParts
<1> DEFINE q == << [id |-> 0, report |-> p, freq |-> "none"] >>
<1>2. q \in Seq(Entries) /\ q # << >> /\ DOMAIN q = {1} /\ q[1].id = 0
  BY SchedulerAssumption DEF Entries
<1>3. u \in Actor /\ u \notin Worker /\ 0 \in 0..MaxTime /\ 0 <= clock /\ 0 <= ids
  BY <1>1, SchedulerAssumption DEF CountType, Actor
<1>4. QueueOK(u, q)
  BY <1>2, <1>3 DEF QueueOK
<1>5. JobType'
  BY <1>1, <1>2, <1>3, <1>4, StartTypes
<1>6. ReportType' /\ CountType' /\ MissedType' /\ RowType'
  BY <1>1, RowStays DEF ReportType, CountType, MissedType
<1>7. QED
  BY <1>5, <1>6, TypePartsNext

-----------------------------------------------------------------------------
LEMMA GenerateTypes ==
  ASSUME TypeOK, NEW a \in Actor, Generate(a) PROVE TypeOK'
<1> USE DEF Generate
<1>1. ReportType /\ CountType /\ RowType /\ MissedType /\ JobType
  BY TypeParts
<1>2. ~At(a, "idle") /\ clock \in 0..MaxTime /\ {} \in SUBSET Contents
      /\ "none" \in Err /\ "failed" \in Err
  BY <1>1 DEF At, CountType, Err
<1>3. JobType'
  BY <1>1, <1>2, GotoTypes, DoneTypes
<1>4. ReportType' /\ CountType' /\ MissedType' /\ RowType'
  BY <1>1, RowStays DEF ReportType, CountType, MissedType
<1>5. QED
  BY <1>1, <1>3, <1>4, TypePartsNext

LEMMA ReplaceTypes ==
  ASSUME TypeOK, NEW a \in Actor, Replace(a) PROVE TypeOK'
<1> USE DEF Replace
<1>1. ReportType /\ CountType /\ RowType /\ MissedType /\ JobType
  BY TypeParts
<1>2. ~At(a, "idle")
  BY DEF At
<1>3. job[a] \in Jobs /\ Target(a) \in Report
  BY <1>1, <1>2, Busy
<1>4. job[a].asof \in 0..MaxTime /\ sections[Target(a)] \in SUBSET Contents /\ "none" \in Err
  BY <1>1, <1>3 DEF Jobs, ReportType, Err
<1>5. JobType'
  BY <1>1, <1>2, <1>4, GotoTypes
<1>6. ReportType'
  BY <1>1, <1>3 DEF ReportType
<1>7. CountType' /\ MissedType' /\ RowType'
  BY <1>1, RowStays DEF CountType, MissedType
<1>8. QED
  BY <1>5, <1>6, <1>7, TypePartsNext

LEMMA UnlockTypes ==
  ASSUME lock \in [Report -> Actor \cup {NoActor}], NEW a \in Actor, Unlock(a)
  PROVE  lock' \in [Report -> Actor \cup {NoActor}]
BY DEF Unlock

LEMMA CommitTypes ==
  ASSUME TypeOK, NEW a \in Actor, Commit(a) PROVE TypeOK'
<1> USE DEF Commit
<1>1. ReportType /\ CountType /\ RowType /\ MissedType /\ JobType
  BY TypeParts
<1>2. ~At(a, "idle") /\ "none" \in Err
  BY DEF At, Err
<1>3. job[a] \in Jobs /\ Target(a) \in Report
  BY <1>1, <1>2, Busy
<1>4. Content(a) \in Contents
  BY <1>3 DEF Content, Contents, Jobs
<1>5. JobType'
  BY <1>1, <1>2, DoneTypes
<1>6. ReportType'
  BY <1>1, <1>3, <1>4, UnlockTypes DEF ReportType
<1>7. MissedType'
  BY <1>1, <1>3, MissTypes DEF MissedType
<1>8. CountType' /\ RowType'
  BY <1>1, RowStays DEF CountType
<1>9. QED
  BY <1>5, <1>6, <1>7, <1>8, TypePartsNext

LEMMA FailureCounts ==
  ASSUME CountType, NEW kind, Failure(kind), clock' = clock, ids' = ids,
         blind' = blind
  PROVE  CountType'
<1>1. faults \in Nat /\ faults < MaxFaults /\ MaxFaults \in Nat /\ faults' = faults + 1
  BY SchedulerAssumption DEF CountType, Failure
<1>2. faults' \in 0..MaxFaults
  BY <1>1
<1>3. QED
  BY <1>2 DEF CountType

LEMMA NotSavedTypes ==
  ASSUME TypeOK, NEW a \in Actor, NotSaved(a) PROVE TypeOK'
<1> USE DEF NotSaved
<1>1. ReportType /\ CountType /\ RowType /\ MissedType /\ JobType
  BY TypeParts
<1>2. ~At(a, "idle") /\ "none" \in Err
  BY DEF At, Err
<1>3. Target(a) \in Report
  BY <1>1, <1>2, Busy
<1>4. JobType'
  BY <1>1, <1>2, DoneTypes
<1>5. ReportType'
  BY <1>1, UnlockTypes DEF ReportType
<1>6. MissedType'
  BY <1>1, <1>3, MissTypes DEF MissedType
<1>7. CountType' /\ RowType'
  BY <1>1, RowStays, FailureCounts
<1>8. QED
  BY <1>4, <1>5, <1>6, <1>7, TypePartsNext

\* The rest of a queue of due schedules.
LEMMA TailFacts ==
  ASSUME NEW S, NEW q \in Seq(S), Len(q) > 1
  PROVE  /\ Tail(q) \in Seq(S) /\ Tail(q) # << >>
         /\ \A i \in DOMAIN Tail(q) : i + 1 \in DOMAIN q /\ Tail(q)[i] = q[i + 1]
<1>1. Len(q) \in Nat /\ DOMAIN q = 1..Len(q) /\ q # << >>
  BY LenProperties, EmptySeq
<1>2. /\ Tail(q) \in Seq(S) /\ Len(Tail(q)) = Len(q) - 1
      /\ \A i \in 1..Len(Tail(q)) : Tail(q)[i] = q[i + 1]
  BY <1>1, HeadTailProperties
<1>3. DOMAIN Tail(q) = 1..Len(Tail(q))
  BY <1>2, LenProperties
<1>4. Tail(q) # << >>
  <2>1. Len(Tail(q)) # 0
    BY <1>1, <1>2
  <2>2. QED
    BY <2>1, <1>2, EmptySeq
<1>5. QED
  BY <1>1, <1>2, <1>3, <1>4

LEMMA NextEntryTypes ==
  ASSUME JobType, CountType, NEW w \in Worker, At(w, "mark"), NextEntry(w),
         clock' = clock, ids' = ids
  PROVE  JobType'
<1>1. w \in Actor /\ ~At(w, "idle")
  BY DEF Actor, At
<1>2. job[w] \in Jobs /\ job[w].queue \in Seq(Entries)
      /\ job[w].now \in 0..MaxTime /\ job[w].now <= clock /\ QueueOK(w, job[w].queue)
  BY <1>1, Busy DEF Jobs, JobType
<1>3. CASE Len(job[w].queue) = 1 /\ Set(w, Idle)
  BY <1>1, <1>3, IdleTypes
<1>4. CASE Len(job[w].queue) > 1 /\ Start(w, Tail(job[w].queue), job[w].now)
  <2>1. /\ Tail(job[w].queue) \in Seq(Entries) /\ Tail(job[w].queue) # << >>
        /\ QueueOK(w, Tail(job[w].queue))
    BY <1>2, <1>4, TailFacts DEF QueueOK
  <2>2. QED
    BY <1>1, <1>2, <1>4, <2>1, StartTypes
<1>5. QED
  BY <1>3, <1>4 DEF NextEntry

LEMMA MarkTypes ==
  ASSUME TypeOK, NEW w \in Worker, Mark(w) PROVE TypeOK'
<1> USE DEF Mark
<1>1. ReportType /\ CountType /\ RowType /\ MissedType /\ JobType
  BY TypeParts
<1>2. w \in Actor /\ ~At(w, "idle")
  BY DEF Actor, At
<1>3. job[w] \in Jobs /\ Target(w) \in Report /\ Head(job[w].queue).freq \in Frequency
  BY <1>1, <1>2, Busy DEF JobType, QueueOK
<1>4. job[w].now \in 0..MaxTime /\ job[w].now \in Nat /\ job[w].err \in Err
  BY <1>3, SchedulerAssumption DEF Jobs
<1>5. Anchor(w) \in Nat
  BY <1>3, <1>4, NextRunLater DEF Anchor
<1>6. RowType'
  <2>1. CASE UNCHANGED row
    BY <1>1, <2>1, RowStays
  <2>2. CASE MarkRow(w)
    <3> DEFINE p == Target(w)
               r == [id |-> row[p].id, freq |-> row[p].freq, next |-> Anchor(w),
                     last |-> job[w].now, err |-> Outcome(w)]
    <3>1. row[p] \in Rows
      BY <1>1, <1>3 DEF RowType
    <3>2. r \in Rows /\ r.id = row[p].id /\ r.freq = row[p].freq
      BY <1>4, <1>5, <3>1, SchedulerAssumption DEF Rows, Outcome
    <3>3. row' = [row EXCEPT ![p] = r]
      BY <2>2 DEF MarkRow
    <3> HIDE DEF r, p
    <3>4. row' \in [Report -> Rows]
      BY <1>1, <3>2, <3>3 DEF RowType
    <3>5. \A q \in Report : row'[q].id = row[q].id /\ row'[q].freq = row[q].freq
      BY <1>1, <3>2, <3>3 DEF RowType
    <3>6. QED
      BY <1>1, <3>4, <3>5 DEF RowType, Scheduled
  <2>3. QED
    BY <2>1, <2>2
<1>7. JobType'
  BY <1>1, NextEntryTypes
<1>8. ReportType' /\ CountType' /\ MissedType'
  BY <1>1 DEF ReportType, CountType, MissedType
<1>9. QED
  BY <1>6, <1>7, <1>8, TypePartsNext

LEMMA TickFailsTypes ==
  ASSUME TypeOK, NEW w \in Worker, TickFails(w) PROVE TypeOK'
<1> USE DEF TickFails
<1>1. ReportType /\ CountType /\ RowType /\ MissedType /\ JobType /\ w \in Actor
  BY TypeParts DEF Actor
<1>2. JobType'
  BY <1>1, IdleTypes
<1>3. CountType' /\ RowType'
  BY <1>1, RowStays, FailureCounts
<1>4. ReportType' /\ MissedType'
  BY <1>1 DEF ReportType, MissedType
<1>5. QED
  BY <1>2, <1>3, <1>4, TypePartsNext

LEMMA CrashTypes ==
  ASSUME TypeOK, NEW a \in Actor, Crash(a) PROVE TypeOK'
<1> USE DEF Crash
<1>1. ReportType /\ CountType /\ RowType /\ MissedType /\ JobType
  BY TypeParts
<1>2. JobType'
  BY <1>1, IdleTypes
<1>3. CountType' /\ RowType'
  BY <1>1, RowStays, FailureCounts
<1>4. ReportType' /\ MissedType'
  BY <1>1, UnlockTypes DEF ReportType, MissedType
<1>5. QED
  BY <1>2, <1>3, <1>4, TypePartsNext

LEMMA AdvanceTypes == ASSUME TypeOK, Advance PROVE TypeOK'
<1> USE DEF Advance
<1>1. ReportType /\ CountType /\ RowType /\ MissedType /\ JobType
  BY TypeParts
<1>2. clock \in Nat /\ clock < MaxTime /\ MaxTime \in Nat /\ clock' = clock + 1
  BY <1>1, SchedulerAssumption DEF CountType
<1>3. CountType'
  BY <1>1, <1>2 DEF CountType
<1>4. ASSUME NEW a \in Actor PROVE job[a].now <= clock'
  <2>1. job[a].now \in Nat /\ job[a].now <= clock
    BY <1>1, SchedulerAssumption DEF JobType, Jobs
  <2>2. QED
    BY <2>1, <1>2
<1>5. JobType'
  BY <1>1, <1>4 DEF JobType, QueueOK, At
<1>6. ReportType' /\ MissedType' /\ RowType'
  BY <1>1, RowStays DEF ReportType, MissedType
<1>7. QED
  BY <1>3, <1>5, <1>6, TypePartsNext

\* Init and Next keep the types of everything.
LEMMA TypeInit == ASSUME Init PROVE TypeOK
<1> USE DEF Init
<1>1. First \in Contents
  BY SchedulerAssumption DEF First, Contents
<1>2. NoRow \in Rows /\ NoRow.id = 0
  BY SchedulerAssumption DEF NoRow, Never, Rows, Err
<1>3. Idle \in Jobs /\ Idle.pc = "idle" /\ Idle.queue = << >> /\ Idle.now = 0
  BY SchedulerAssumption DEF Idle, Jobs, Err
<1>4. ReportType
  BY <1>1 DEF ReportType
<1>5. CountType /\ MissedType
  BY SchedulerAssumption DEF CountType, MissedType
<1>6. RowType
  BY <1>2 DEF RowType, Scheduled
<1>7. JobType
  BY <1>3 DEF JobType, QueueOK, At
<1>8. QED
  BY <1>4, <1>5, <1>6, <1>7, TypeParts

LEMMA TypeStep == ASSUME TypeOK, [Next]_vars PROVE TypeOK'
<1>1. CASE UNCHANGED vars
  <2>1. ReportType /\ CountType /\ RowType /\ MissedType /\ JobType
    BY TypeParts
  <2>2. ReportType' /\ CountType' /\ RowType' /\ MissedType' /\ JobType'
    BY <1>1, <2>1, JobStays, RowStays DEF vars, ReportType, CountType, MissedType
  <2>3. QED
    BY <2>2, TypePartsNext
<1>2. ASSUME NEW p \in Report,
             Unschedule(p) \/ \E f \in Frequency : Schedule(p, f) \/ Reschedule(p, f)
      PROVE  TypeOK'
  BY <1>2, UnscheduleTypes, ScheduleTypes, RescheduleTypes
<1>3. ASSUME NEW w \in Worker, Tick(w) \/ Mark(w) \/ TickFails(w) PROVE TypeOK'
  BY <1>3, TickTypes, MarkTypes, TickFailsTypes
<1>4. ASSUME NEW u \in User, NEW p \in Report, Regenerate(u, p) PROVE TypeOK'
  BY <1>4, RegenerateTypes
<1>5. ASSUME NEW a \in Actor, Regenerating(a) \/ Crash(a) PROVE TypeOK'
  BY <1>5, GenerateTypes, ReplaceTypes, CommitTypes, NotSavedTypes, CrashTypes DEF Regenerating
<1>6. CASE Advance
  BY <1>6, AdvanceTypes
<1>7. QED
  BY <1>1, <1>2, <1>3, <1>4, <1>5, <1>6 DEF Next

\* Reports, schedules, jobs and clocks keep their types; a worker's queue holds schedules
\* that were created, with a frequency, and nobody began later than now.
THEOREM TypeCorrect == Spec => []TypeOK
<1>1. Init => TypeOK
  BY TypeInit
<1>2. TypeOK /\ [Next]_vars => TypeOK'
  BY TypeStep
<1>3. QED
  BY <1>1, <1>2, PTL DEF Spec

-----------------------------------------------------------------------------
\* Whose transaction is open stays the holder of its report, until it is over.
LEMMA LockedStays ==
  ASSUME Locked, NEW a \in Actor, job'[a].pc # "commit",
         \A b \in Actor \ {a} : job'[b] = job[b],
         \A b \in Actor \ {a} : At(b, "commit") =>
           lock'[Target(b)] = lock[Target(b)] /\ head'[Target(b)] = head[Target(b)]
  PROVE  Locked'
BY DEF Locked, At, Target

\* The steps of a job that end outside a transaction.
LEMMA Leaves ==
  ASSUME JobType, NEW a \in Actor,
         \/ Set(a, Idle)
         \/ \E queue, now : Start(a, queue, now)
         \/ \E label \in {"update", "mark"} : \E asof, err, old : Goto(a, label, asof, err, old)
  PROVE  job'[a].pc # "commit" /\ \A b \in Actor \ {a} : job'[b] = job[b]
BY DEF JobType, Set, Start, Goto, Idle

LEMMA LockedStep == ASSUME TypeOK, OneRegeneration, Locked, [Next]_vars
                    PROVE  OneRegeneration' /\ Locked'
<1>1. ReportType /\ JobType
  BY TypeParts
<1>2. CASE UNCHANGED <<head, sections, lock, job>>
  BY <1>2 DEF OneRegeneration, Locked, At, Target
<1>3. ASSUME NEW a \in Actor, UNCHANGED <<head, sections, lock>>,
             \/ Set(a, Idle)
             \/ \E queue, now : Start(a, queue, now)
             \/ \E label \in {"update", "mark"} : \E asof, err, old : Goto(a, label, asof, err, old)
      PROVE  OneRegeneration' /\ Locked'
  BY <1>1, <1>3, Leaves, LockedStays DEF OneRegeneration
<1>4. ASSUME NEW a \in Actor, Replace(a) PROVE OneRegeneration' /\ Locked'
  <2>1. Target(a) \in Report /\ lock' = [lock EXCEPT ![Target(a)] = a]
        /\ head' = head /\ sections' = sections /\ lock[Target(a)] = NoActor
    BY <1>1, <1>4, Busy DEF Replace, At
  <2>2. job'[a].old = {head[Target(a)]} /\ job'[a].queue = job[a].queue
        /\ \A b \in Actor \ {a} : job'[b] = job[b]
    BY <1>1, <1>4, <2>1 DEF Replace, Goto, Set, JobType, OneRegeneration
  <2>3. ASSUME NEW b \in Actor, At(b, "commit")'
        PROVE  lock'[Target(b)'] = b /\ job'[b].old = {head'[Target(b)']}
    <3>1. CASE b = a
      BY <1>1, <2>1, <2>2, <3>1 DEF Target, ReportType
    <3>2. CASE b # a
      <4>1. At(b, "commit") /\ Target(b)' = Target(b) /\ job'[b].old = job[b].old
        BY <2>2, <2>3, <3>2 DEF At, Target
      <4>2. lock[Target(b)] = b /\ lock[Target(a)] = NoActor /\ b # NoActor
        BY <4>1, <2>1, SchedulerAssumption DEF Locked
      <4>3. Target(b) \in Report
        BY <1>1, <4>1, Busy DEF At
      <4>4. QED
        BY <1>1, <2>1, <4>1, <4>2, <4>3 DEF Locked, ReportType
    <3>3. QED
      BY <3>1, <3>2
  <2>4. QED
    BY <2>1, <2>3 DEF OneRegeneration, Locked
<1>5. ASSUME NEW a \in Actor, Unlock(a)
      PROVE  \A b \in Actor \ {a} : At(b, "commit") => lock'[Target(b)] = lock[Target(b)]
  <2>1. ASSUME NEW b \in Actor \ {a}, At(b, "commit") PROVE lock'[Target(b)] = lock[Target(b)]
    <3>1. lock[Target(b)] = b /\ Target(b) \in Report
      BY <1>1, <2>1, Busy DEF Locked, At
    <3>2. QED
      BY <1>5, <2>1, <3>1 DEF Unlock
  <2>2. QED
    BY <2>1
<1>6. ASSUME NEW a \in Actor, Commit(a) PROVE OneRegeneration' /\ Locked'
  <2> DEFINE p == Target(a)
  <2>1. p \in Report /\ lock[p] = a /\ job[a].old = {head[p]} /\ sections[p] = {head[p]}
    BY <1>1, <1>6, Busy DEF Commit, At, Locked, OneRegeneration
  <2>2. head' = [head EXCEPT ![p] = Content(a)]
        /\ sections' = [sections EXCEPT ![p] = (@ \ job[a].old) \cup {Content(a)}]
    BY <1>6 DEF Commit
  <2>3. sections'[p] = {head'[p]} /\ \A q \in Report \ {p} : sections'[q] = {head'[q]}
    BY <1>1, <2>1, <2>2 DEF ReportType, OneRegeneration
  <2>4. job'[a].pc # "commit" /\ \A b \in Actor \ {a} : job'[b] = job[b]
    BY <1>1, <1>6, Leaves DEF Commit, Done
  <2>5. ASSUME NEW b \in Actor \ {a}, At(b, "commit") PROVE head'[Target(b)] = head[Target(b)]
    <3>1. Target(b) # p /\ Target(b) \in Report
      BY <1>1, <2>1, <2>5, Busy DEF Locked, At
    <3>2. QED
      BY <1>1, <2>2, <3>1 DEF ReportType
  <2>6. Unlock(a)
    BY <1>6 DEF Commit
  <2>7. Locked'
    BY <1>5, <2>4, <2>5, <2>6, LockedStays
  <2>8. QED
    BY <2>3, <2>7 DEF OneRegeneration
<1>7. ASSUME NEW a \in Actor, NotSaved(a) \/ Crash(a) PROVE OneRegeneration' /\ Locked'
  <2>1. Unlock(a) /\ head' = head /\ sections' = sections
    BY <1>7 DEF NotSaved, Crash
  <2>2. job'[a].pc # "commit" /\ \A b \in Actor \ {a} : job'[b] = job[b]
    BY <1>1, <1>7, Leaves DEF NotSaved, Crash, Done
  <2>3. QED
    BY <1>5, <2>1, <2>2, LockedStays DEF OneRegeneration
<1>8. QED
  <2>1. CASE UNCHANGED vars
    BY <1>2, <2>1 DEF vars
  <2>2. ASSUME NEW p \in Report,
               Unschedule(p) \/ \E f \in Frequency : Schedule(p, f) \/ Reschedule(p, f)
        PROVE  OneRegeneration' /\ Locked'
    BY <1>2, <2>2 DEF Unschedule, Schedule, Reschedule
  <2>3. ASSUME NEW w \in Worker, Tick(w) \/ Mark(w) \/ TickFails(w)
        PROVE  OneRegeneration' /\ Locked'
    <3>1. w \in Actor
      BY DEF Actor
    <3>2. CASE Tick(w)
      BY <1>3, <3>1, <3>2 DEF Tick
    <3>3. CASE Mark(w) \/ TickFails(w)
      BY <1>3, <3>1, <3>3 DEF Mark, TickFails, NextEntry
    <3>4. QED
      BY <2>3, <3>2, <3>3
  <2>4. ASSUME NEW u \in User, NEW p \in Report, Regenerate(u, p)
        PROVE  OneRegeneration' /\ Locked'
    BY <1>3, <2>4 DEF Regenerate, Actor
  <2>5. ASSUME NEW a \in Actor, Generate(a) PROVE OneRegeneration' /\ Locked'
    BY <1>3, <2>5 DEF Generate, Done
  <2>6. CASE Advance
    BY <1>2, <2>6 DEF Advance
  <2>7. QED
    BY <1>4, <1>6, <1>7, <2>1, <2>2, <2>3, <2>4, <2>5, <2>6 DEF Next, Regenerating

\* However regenerations of a report overlap and whatever fails, what is committed of it
\* is of one regeneration.
THEOREM OneRegenerationHolds == Spec => []OneRegeneration
<1>1. Init => TypeOK /\ OneRegeneration /\ Locked
  BY TypeInit DEF Init, OneRegeneration, Locked, At, Idle
<1>2. TypeOK /\ OneRegeneration /\ Locked /\ [Next]_vars => (TypeOK /\ OneRegeneration /\ Locked)'
  BY TypeStep, LockedStep
<1>3. QED
  BY <1>1, <1>2, PTL DEF Spec

-----------------------------------------------------------------------------
\* A tick knows the frequency of a schedule it holds, unless that was replaced meanwhile.
FrequencyHeld ==
  \A w \in Worker : \A i \in DOMAIN job[w].queue :
    LET e == job[w].queue[i] IN
    e.id = row[e.report].id /\ "replaced" \notin missed[e.report] => e.freq = row[e.report].freq

\* No worker's queue has an entry it did not have.
QueuesShrink ==
  \A w \in Worker : \A i \in DOMAIN job'[w].queue :
    \E k \in DOMAIN job[w].queue : job'[w].queue[i] = job[w].queue[k]

LEMMA HeldStays ==
  ASSUME JobType, FrequencyHeld, QueuesShrink,
         \A p \in Report : row'[p].id = row[p].id /\ row'[p].freq = row[p].freq
                           /\ missed[p] \subseteq missed'[p]
  PROVE  FrequencyHeld'
<1>1. ASSUME NEW w \in Worker, NEW i \in DOMAIN job'[w].queue,
             job'[w].queue[i].id = row'[job'[w].queue[i].report].id,
             "replaced" \notin missed'[job'[w].queue[i].report]
      PROVE  job'[w].queue[i].freq = row'[job'[w].queue[i].report].freq
  <2>1. PICK k \in DOMAIN job[w].queue : job'[w].queue[i] = job[w].queue[k]
    BY DEF QueuesShrink
  <2>2. job[w].queue[k] \in Entries
    BY DEF JobType, Jobs, Actor
  <2>3. job[w].queue[k].report \in Report
    BY <2>2 DEF Entries
  <2>4. QED
    BY <1>1, <2>1, <2>3 DEF FrequencyHeld
<1>2. QED
  BY <1>1 DEF FrequencyHeld

LEMMA ShrinkSet ==
  ASSUME JobType, NEW a \in Actor, NEW j, Set(a, j),
         \A i \in DOMAIN j.queue : \E k \in DOMAIN job[a].queue : j.queue[i] = job[a].queue[k]
  PROVE  QueuesShrink
<1>1. \A b \in Actor : job'[b] = IF b = a THEN j ELSE job[b]
  BY DEF JobType, Set
<1>2. QED
  BY <1>1 DEF QueuesShrink, Actor

LEMMA ShrinkIdle == ASSUME JobType, NEW a \in Actor, Set(a, Idle) PROVE QueuesShrink
<1>1. DOMAIN Idle.queue = {}
  BY DEF Idle
<1>2. QED
  BY <1>1, ShrinkSet

LEMMA ShrinkGoto ==
  ASSUME JobType, NEW a \in Actor, NEW label, NEW asof, NEW err, NEW old,
         Goto(a, label, asof, err, old)
  PROVE  QueuesShrink
<1> DEFINE j == [pc |-> label, queue |-> job[a].queue, now |-> job[a].now,
                 asof |-> asof, err |-> err, old |-> old]
<1>1. j.queue = job[a].queue
  OBVIOUS
<1>2. Set(a, j)
  BY DEF Goto
<1> HIDE DEF j
<1>3. QED
  BY <1>1, <1>2, ShrinkSet

LEMMA ShrinkDone == ASSUME JobType, NEW a \in Actor, NEW err, Done(a, err) PROVE QueuesShrink
BY ShrinkIdle, ShrinkGoto DEF Done

LEMMA ShrinkNextEntry ==
  ASSUME JobType, NEW w \in Worker, At(w, "mark"), NextEntry(w) PROVE QueuesShrink
<1>1. w \in Actor /\ job[w].queue \in Seq(Entries)
  BY DEF Actor, JobType, Jobs
<1>2. CASE Len(job[w].queue) = 1 /\ Set(w, Idle)
  BY <1>1, <1>2, ShrinkIdle
<1>3. CASE Len(job[w].queue) > 1 /\ Start(w, Tail(job[w].queue), job[w].now)
  <2> DEFINE j == [pc |-> "generate", queue |-> Tail(job[w].queue), now |-> job[w].now,
                   asof |-> 0, err |-> "none", old |-> {}]
  <2>1. j.queue = Tail(job[w].queue)
    OBVIOUS
  <2>2. Set(w, j)
    BY <1>3 DEF Start
  <2> HIDE DEF j
  <2>3. \A i \in DOMAIN j.queue : \E k \in DOMAIN job[w].queue : j.queue[i] = job[w].queue[k]
    BY <1>1, <1>3, <2>1, TailFacts
  <2>4. QED
    BY <1>1, <2>2, <2>3, ShrinkSet
<1>4. QED
  BY <1>2, <1>3 DEF NextEntry

LEMMA MissGrows ==
  ASSUME MissedType, NEW p \in Report, NEW what, Miss(p, what)
  PROVE  \A q \in Report : missed[q] \subseteq missed'[q]
BY DEF MissedType, Miss

\* The steps that leave the schedules alone, but for what a mark records.
LEMMA HeldJobStep ==
  ASSUME TypeOK, FrequencyHeld, NEW a \in Actor,
         \/ Generate(a) \/ Replace(a) \/ Commit(a) \/ NotSaved(a) \/ Crash(a)
         \/ a \in Worker /\ TickFails(a)
  PROVE  /\ FrequencyHeld' /\ row' = row /\ clock' = clock
         /\ \A p \in Report : missed[p] \subseteq missed'[p]
<1>1. MissedType /\ JobType
  BY TypeParts
<1>2. row' = row /\ clock' = clock
  BY DEF Generate, Replace, Commit, NotSaved, Crash, TickFails
<1>3. QueuesShrink
  BY <1>1, ShrinkGoto, ShrinkDone, ShrinkIdle
  DEF Generate, Replace, Commit, NotSaved, Crash, TickFails
<1>4. ASSUME ~At(a, "idle") PROVE Target(a) \in Report
  BY <1>1, <1>4, Busy
<1>5. \A p \in Report : missed[p] \subseteq missed'[p]
  <2>1. CASE missed' = missed
    BY <2>1
  <2>2. CASE Commit(a) \/ NotSaved(a)
    <3>1. ~At(a, "idle")
      BY <2>2 DEF Commit, NotSaved, At
    <3>2. \/ missed' = missed
          \/ \E what : Miss(Target(a), what)
      BY <2>2 DEF Commit, NotSaved
    <3>3. QED
      BY <1>1, <1>4, <3>1, <3>2, MissGrows
  <2>3. QED
    BY <2>1, <2>2 DEF Generate, Replace, Crash, TickFails
<1>6. QED
  BY <1>1, <1>2, <1>3, <1>5, HeldStays

\* An entry that a schedule's row does not match cannot hold its frequency.
LEMMA HeldRow ==
  ASSUME JobType, RowType, FrequencyHeld, job' = job, NEW p \in Report,
         \A q \in Report \ {p} : row'[q] = row[q] /\ missed'[q] = missed[q],
         \/ "replaced" \in missed'[p]
         \/ \A w \in Worker : \A i \in DOMAIN job[w].queue : job[w].queue[i].id # row'[p].id
  PROVE  FrequencyHeld'
<1>1. ASSUME NEW w \in Worker, NEW i \in DOMAIN job[w].queue
      PROVE  LET e == job[w].queue[i] IN
             e.id = row'[e.report].id /\ "replaced" \notin missed'[e.report]
             => e.freq = row'[e.report].freq
  <2> DEFINE r == job[w].queue[i].report
  <2>1. r \in Report
    <3>1. job[w].queue[i] \in Entries
      BY DEF JobType, Jobs, Actor
    <3>2. QED
      BY <3>1 DEF Entries
  <2>2. CASE r = p
    <3>1. "replaced" \in missed'[p] \/ job[w].queue[i].id # row'[p].id
      OBVIOUS
    <3>2. QED
      BY <2>2, <3>1
  <2>3. CASE r # p
    <3>1. row'[r] = row[r] /\ missed'[r] = missed[r]
      BY <2>1, <2>3
    <3>2. QED
      BY <3>1 DEF FrequencyHeld
  <2>4. QED
    BY <2>2, <2>3
<1>2. QED
  BY <1>1 DEF FrequencyHeld

LEMMA HeldTick ==
  ASSUME TypeOK, FrequencyHeld, NEW w \in Worker, Tick(w) PROVE FrequencyHeld'
<1>1. JobType /\ w \in Actor
  BY TypeParts DEF Actor
<1> DEFINE due == {p \in Report : Due(p)}
           Entry(p) == [id |-> row[p].id, report |-> p, freq |-> row[p].freq]
<1>2. PICK n \in 1..Limit : \E q \in [1..n -> due] : Start(w, [i \in 1..n |-> Entry(q[i])], clock)
  BY DEF Tick
<1>3. PICK q \in [1..n -> due] : Start(w, [i \in 1..n |-> Entry(q[i])], clock)
  BY <1>2
<1>4. row' = row /\ missed' = missed
  BY DEF Tick
<1>5. job'[w].queue = [i \in 1..n |-> Entry(q[i])]
  BY <1>1, <1>3 DEF JobType, Start, Set
<1>6. \A v \in Worker \ {w} : job'[v] = job[v]
  BY <1>1, <1>3 DEF JobType, Start, Set, Actor
<1>7. ASSUME NEW v \in Worker, NEW i \in DOMAIN job'[v].queue
      PROVE  LET e == job'[v].queue[i] IN
             e.id = row[e.report].id /\ "replaced" \notin missed[e.report]
             => e.freq = row[e.report].freq
  <2>1. CASE v = w
    <3>1. i \in 1..n /\ job'[v].queue[i] = Entry(q[i])
      BY <1>5, <1>7, <2>1
    <3>2. QED
      BY <3>1
  <2>2. CASE v # w
    BY <1>6, <1>7, <2>2 DEF FrequencyHeld
  <2>3. QED
    BY <2>1, <2>2
<1>8. QED
  BY <1>4, <1>7 DEF FrequencyHeld

LEMMA HeldSchedules ==
  ASSUME TypeOK, FrequencyHeld, NEW p \in Report,
         Unschedule(p) \/ \E f \in Frequency : Schedule(p, f) \/ Reschedule(p, f)
  PROVE  FrequencyHeld'
<1>1. RowType /\ JobType /\ CountType /\ MissedType
  BY TypeParts
<1>2. ASSUME NEW w \in Worker, NEW i \in DOMAIN job[w].queue
      PROVE  /\ job[w].queue[i].id \in Nat /\ job[w].queue[i].id <= ids
             /\ job[w].queue[i].id # 0 /\ job[w].queue[i].id # ids + 1
  <2>1. job[w].queue[i] \in Entries /\ w \in Actor
    BY <1>1 DEF JobType, Jobs, Actor
  <2>2. job[w].queue[i].id \in Nat /\ job[w].queue[i].id <= ids /\ job[w].queue[i].id # 0
        /\ ids \in Nat
    BY <1>1, <2>1, SchedulerAssumption DEF JobType, QueueOK, Entries, CountType
  <2>3. QED
    BY <2>2
<1>3. ASSUME Unschedule(p) PROVE FrequencyHeld'
  <2>1. row'[p].id = 0 /\ job' = job
        /\ \A q \in Report \ {p} : row'[q] = row[q] /\ missed'[q] = missed[q]
    BY <1>1, <1>3 DEF Unschedule, NoRow, RowType
  <2>2. QED
    BY <1>1, <1>2, <2>1, HeldRow
<1>4. ASSUME NEW f \in Frequency, Schedule(p, f) PROVE FrequencyHeld'
  <2>1. row'[p].id = ids + 1 /\ job' = job
        /\ \A q \in Report \ {p} : row'[q] = row[q] /\ missed'[q] = missed[q]
    BY <1>1, <1>4 DEF Schedule, PutRow, RowType, MissedType
  <2>2. QED
    BY <1>1, <1>2, <2>1, HeldRow
<1>5. ASSUME NEW f \in Frequency, Reschedule(p, f) PROVE FrequencyHeld'
  <2>1. row'[p].id = row[p].id /\ job' = job
        /\ \A q \in Report \ {p} : row'[q] = row[q] /\ missed'[q] = missed[q]
    BY <1>1, <1>5 DEF Reschedule, PutRow, Miss, RowType, MissedType
  <2>2. CASE Carried(p)
    <3>1. "replaced" \in missed'[p]
      BY <1>1, <1>5, <2>2 DEF Reschedule, Miss, MissedType
    <3>2. QED
      BY <1>1, <2>1, <3>1, HeldRow
  <2>3. CASE ~Carried(p)
    BY <1>1, <2>1, <2>3, HeldRow DEF Carried
  <2>4. QED
    BY <2>2, <2>3
<1>6. QED
  BY <1>3, <1>4, <1>5

LEMMA HeldMark ==
  ASSUME TypeOK, FrequencyHeld, NEW w \in Worker, Mark(w) PROVE FrequencyHeld'
<1>1. RowType /\ JobType /\ w \in Actor
  BY TypeParts DEF Actor
<1>2. QueuesShrink /\ missed' = missed
  BY <1>1, ShrinkNextEntry DEF Mark
<1>3. \A q \in Report : row'[q].id = row[q].id /\ row'[q].freq = row[q].freq
  BY <1>1 DEF Mark, MarkRow, RowType
<1>4. QED
  BY <1>1, <1>2, <1>3, HeldStays

\* The clock does not run back, and the row of a schedule moves only with a new anchor.
LEMMA PunctualStays ==
  ASSUME TypeOK, Punctual, clock' = clock \/ clock' = clock + 1, row' = row,
         \A p \in Report : missed[p] \subseteq missed'[p]
  PROVE  Punctual'
<1>1. ASSUME NEW p \in Report, row[p].id # 0, row[p].next <= clock + Period[row[p].freq]
      PROVE  row[p].next <= clock' + Period[row[p].freq]
  <2>1. row[p].next \in Nat /\ clock \in Nat /\ row[p].freq \in Frequency
    BY <1>1, TypeParts, SchedulerAssumption DEF RowType, Rows, CountType, Scheduled
  <2>2. Period[row[p].freq] \in Nat
    BY <2>1, SchedulerAssumption
  <2>3. QED
    BY <1>1, <2>1, <2>2
<1>2. QED
  BY <1>1 DEF Punctual, Scheduled

\* A row that is written with an anchor of its own frequency is punctual.
LEMMA PunctualRow ==
  ASSUME TypeOK, Punctual, clock' = clock, NEW p \in Report,
         \A q \in Report \ {p} : row'[q] = row[q] /\ missed'[q] = missed[q],
         row'[p].id # 0 /\ "replaced" \notin missed'[p] =>
           \E f \in Frequency, t \in 0..clock : row'[p].freq = f /\ row'[p].next = NextRun(f, t)
  PROVE  Punctual'
<1>1. ASSUME NEW f \in Frequency, NEW t \in 0..clock
      PROVE  NextRun(f, t) <= clock + Period[f]
  <2>1. clock \in Nat /\ Period[f] \in Nat /\ t \in Nat /\ t <= clock
    BY TypeParts, SchedulerAssumption DEF CountType
  <2>2. NextRun(f, t) \in Nat /\ NextRun(f, t) <= t + Period[f]
    BY <2>1, NextRunLater
  <2>3. QED
    BY <2>1, <2>2
<1>2. row'[p].id # 0 /\ "replaced" \notin missed'[p] =>
        row'[p].next <= clock' + Period[row'[p].freq]
  BY <1>1
<1>3. QED
  BY <1>2 DEF Punctual, Scheduled

LEMMA PunctualSchedules ==
  ASSUME TypeOK, Punctual, NEW p \in Report,
         Unschedule(p) \/ \E f \in Frequency : Schedule(p, f) \/ Reschedule(p, f)
  PROVE  Punctual'
<1>1. RowType /\ MissedType /\ clock \in 0..clock
  BY TypeParts, SchedulerAssumption DEF CountType
<1>2. ASSUME Unschedule(p) PROVE Punctual'
  <2>1. row'[p].id = 0 /\ clock' = clock
        /\ \A q \in Report \ {p} : row'[q] = row[q] /\ missed'[q] = missed[q]
    BY <1>1, <1>2 DEF Unschedule, NoRow, RowType
  <2>2. QED
    BY <2>1, PunctualRow
<1>3. ASSUME NEW f \in Frequency, Schedule(p, f) \/ Reschedule(p, f) PROVE Punctual'
  <2>1. row'[p].freq = f /\ row'[p].next = NextRun(f, clock) /\ clock' = clock
        /\ \A q \in Report \ {p} : row'[q] = row[q] /\ missed'[q] = missed[q]
    BY <1>1, <1>3 DEF Schedule, Reschedule, PutRow, Miss, RowType, MissedType
  <2>2. QED
    BY <1>1, <2>1, PunctualRow
<1>4. QED
  BY <1>2, <1>3

LEMMA PunctualMark ==
  ASSUME TypeOK, FrequencyHeld, Punctual, NEW w \in Worker, Mark(w) PROVE Punctual'
<1>1. RowType /\ JobType /\ w \in Actor /\ clock' = clock /\ missed' = missed
  BY TypeParts DEF Actor, Mark
<1>2. CASE UNCHANGED row
  BY <1>1, <1>2, PunctualStays
<1>3. CASE Matches(w) /\ MarkRow(w)
  <2> DEFINE p == Target(w)
             e == Head(job[w].queue)
  <2>1. p \in Report /\ e = job[w].queue[1] /\ 1 \in DOMAIN job[w].queue /\ e.report = p
        /\ job[w] \in Jobs
    BY <1>1, Busy DEF Mark, At, Target
  <2>2. e.freq \in Frequency /\ job[w].now \in 0..clock
    <3>1. job[w].now \in Nat /\ job[w].now <= clock /\ clock \in Nat
      BY <1>1, <2>1, TypeParts, SchedulerAssumption DEF JobType, Jobs, CountType
    <3>2. QED
      BY <1>1, <2>1, <3>1 DEF JobType, QueueOK
  <2>3. "replaced" \notin missed[p] => row[p].freq = e.freq
    BY <1>3, <2>1 DEF FrequencyHeld, Matches
  <2>4. row'[p].freq = row[p].freq /\ row'[p].next = NextRun(e.freq, job[w].now)
        /\ \A q \in Report \ {p} : row'[q] = row[q]
    BY <1>1, <1>3, <2>1 DEF MarkRow, Anchor, RowType
  <2>5. QED
    BY <1>1, <2>1, <2>2, <2>3, <2>4, PunctualRow
<1>4. QED
  BY <1>2, <1>3 DEF Mark

LEMMA PunctualStep ==
  ASSUME TypeOK, FrequencyHeld, Punctual, [Next]_vars PROVE FrequencyHeld' /\ Punctual'
<1>1. JobType
  BY TypeParts
<1>2. CASE UNCHANGED <<clock, row, job, missed>>
  BY <1>2, PunctualStays DEF FrequencyHeld
<1>3. ASSUME NEW p \in Report,
             Unschedule(p) \/ \E f \in Frequency : Schedule(p, f) \/ Reschedule(p, f)
      PROVE  FrequencyHeld' /\ Punctual'
  BY <1>3, HeldSchedules, PunctualSchedules
<1>4. ASSUME NEW w \in Worker, Tick(w) PROVE FrequencyHeld' /\ Punctual'
  BY <1>4, HeldTick, PunctualStays DEF Tick
<1>5. ASSUME NEW w \in Worker, Mark(w) PROVE FrequencyHeld' /\ Punctual'
  BY <1>5, HeldMark, PunctualMark
<1>6. ASSUME NEW a \in Actor,
             \/ Generate(a) \/ Replace(a) \/ Commit(a) \/ NotSaved(a) \/ Crash(a)
             \/ a \in Worker /\ TickFails(a)
      PROVE  FrequencyHeld' /\ Punctual'
  BY <1>6, HeldJobStep, PunctualStays
<1>7. ASSUME NEW u \in User, NEW p \in Report, Regenerate(u, p)
      PROVE  FrequencyHeld' /\ Punctual'
  <2>1. \A w \in Worker : job'[w] = job[w]
    BY <1>1, <1>7, SchedulerAssumption DEF Regenerate, Start, Set, JobType, Actor
  <2>2. row' = row /\ missed' = missed /\ clock' = clock
    BY <1>7 DEF Regenerate
  <2>3. FrequencyHeld'
    BY <2>1, <2>2 DEF FrequencyHeld
  <2>4. QED
    BY <2>2, <2>3, PunctualStays
<1>8. CASE Advance
  BY <1>8, PunctualStays DEF Advance, FrequencyHeld
<1>9. QED
  BY <1>2, <1>3, <1>4, <1>5, <1>6, <1>7, <1>8 DEF Next, Regenerating, vars, Actor

\* The next run of a schedule is never further away than its frequency says, unless the
\* schedule was replaced while a tick held its old frequency.
THEOREM PunctualHolds == Spec => []Punctual
<1>1. Init => TypeOK /\ FrequencyHeld /\ Punctual
  BY TypeInit DEF Init, FrequencyHeld, Punctual, Scheduled, NoRow, Idle, Actor
<1>2. TypeOK /\ FrequencyHeld /\ Punctual /\ [Next]_vars => (TypeOK /\ FrequencyHeld /\ Punctual)'
  BY TypeStep, PunctualStep
<1>3. QED
  BY <1>1, <1>2, PTL DEF Spec

-----------------------------------------------------------------------------
\* Nothing went by the schedule of p that RunRecorded excepts.
Clean(p) == "unsaved" \notin missed[p] /\ "older" \notin missed[p]

\* What a worker is about to write or to record is no older than its tick.
FreshJob(w) ==
  /\ job[w].pc \in {"update", "commit"} => job[w].now <= job[w].asof
  /\ At(w, "mark") /\ job[w].err = "none" /\ Matches(w) /\ Clean(Target(w)) /\ Sees(w)
     => job[w].now <= head[Target(w)].asof
Fresh == \A w \in Worker : FreshJob(w)
Unused == \A p \in Report : ~Scheduled(p) => row[p] = NoRow
Recorded == Fresh /\ Unused /\ RunRecorded

\* The contents get no older, but where that is noted; who sees what stays.
HeadGrows ==
  /\ blind' = blind
  /\ \A p \in Report :
       missed[p] \subseteq missed'[p] /\ (Clean(p)' => head[p].asof <= head'[p].asof)

LEMMA HeadTypes == ASSUME TypeOK PROVE \A p \in Report : head[p].asof \in Nat
BY TypeParts, SchedulerAssumption DEF ReportType, Contents

LEMMA HeadSame ==
  ASSUME TypeOK, head' = head, blind' = blind, \A p \in Report : missed[p] \subseteq missed'[p]
  PROVE  HeadGrows
BY HeadTypes DEF HeadGrows

LEMMA FreshOther ==
  ASSUME TypeOK, TypeOK', Fresh, NEW w \in Worker, job'[w] = job[w], HeadGrows,
         \A p \in Report : row'[p].id = row[p].id
  PROVE  FreshJob(w)'
<1>1. CASE At(w, "mark")
  <2>1. Target(w) \in Report /\ job[w].now \in Nat
    BY <1>1, TypeParts, Busy, SchedulerAssumption DEF At, Jobs, Actor
  <2>2. /\ Target(w)' = Target(w) /\ At(w, "mark")' /\ (Matches(w)' <=> Matches(w))
        /\ Sees(w)' <=> Sees(w)
    BY <1>1, <2>1 DEF Target, At, Matches, Sees, HeadGrows
  <2>3. Clean(Target(w))' => Clean(Target(w)) /\ head[Target(w)].asof <= head'[Target(w)].asof
    BY <2>1, <2>2 DEF HeadGrows, Clean
  <2>4. head[Target(w)].asof \in Nat /\ head'[Target(w)].asof \in Nat
    <3>1. ReportType'
      BY DEF TypeOK, ReportType
    <3>2. QED
      BY <2>1, <3>1, HeadTypes, SchedulerAssumption DEF ReportType, Contents
  <2>5. ASSUME job[w].err = "none", Matches(w), Clean(Target(w))', Sees(w)
        PROVE  job[w].now <= head'[Target(w)].asof
    <3>1. job[w].now <= head[Target(w)].asof /\ head[Target(w)].asof <= head'[Target(w)].asof
      BY <1>1, <2>3, <2>5 DEF Fresh, FreshJob
    <3>2. QED
      BY <2>1, <2>4, <3>1
  <2>6. QED
    BY <1>1, <2>2, <2>5 DEF FreshJob, At
<1>2. CASE ~At(w, "mark")
  BY <1>2 DEF Fresh, FreshJob, At
<1>3. QED
  BY <1>1, <1>2

\* An actor's own step, which leaves the rows alone.
LEMMA RecordedJob ==
  ASSUME TypeOK, TypeOK', Recorded, row' = row, HeadGrows, NEW a \in Actor,
         \A b \in Actor \ {a} : job'[b] = job[b],
         a \in Worker => FreshJob(a)'
  PROVE  Recorded'
<1>1. Fresh'
  BY FreshOther DEF Recorded, Fresh, Actor
<1>2. Unused'
  BY DEF Recorded, Unused, Scheduled
<1>3. ASSUME NEW p \in Report, row[p].id # 0, row[p].id \notin blind, row[p].err = "none",
             Clean(p)'
      PROVE  row[p].last <= head'[p].asof
  <2>1. Clean(p) /\ head[p].asof <= head'[p].asof
    BY <1>3 DEF HeadGrows, Clean
  <2>2. row[p].last <= head[p].asof
    BY <1>3, <2>1 DEF Recorded, RunRecorded, Scheduled, Clean
  <2>3. row[p].last \in Int /\ head[p].asof \in Int /\ head'[p].asof \in Int
    <3>1. ReportType'
      BY DEF TypeOK, ReportType
    <3>2. QED
      BY <3>1, TypeParts, HeadTypes, SchedulerAssumption DEF RowType, Rows, ReportType, Contents
  <2>4. QED
    BY <2>1, <2>2, <2>3
<1>4. QED
  BY <1>1, <1>2, <1>3 DEF Recorded, RunRecorded, Scheduled, Clean, HeadGrows

\* What Set leaves of the jobs.
LEMMA SetJobs ==
  ASSUME JobType, NEW a \in Actor, NEW j, Set(a, j)
  PROVE  job'[a] = j /\ \A b \in Actor \ {a} : job'[b] = job[b]
BY DEF JobType, Set

LEMMA GotoJobs ==
  ASSUME JobType, NEW a \in Actor, NEW label, NEW asof, NEW err, NEW old,
         Goto(a, label, asof, err, old)
  PROVE  /\ job'[a].pc = label /\ job'[a].queue = job[a].queue /\ job'[a].now = job[a].now
         /\ job'[a].asof = asof /\ job'[a].err = err
         /\ \A b \in Actor \ {a} : job'[b] = job[b]
<1>1. Set(a, [pc |-> label, queue |-> job[a].queue, now |-> job[a].now,
              asof |-> asof, err |-> err, old |-> old])
  BY DEF Goto
<1>2. QED
  BY <1>1, SetJobs

LEMMA FreshIdle == ASSUME JobType, NEW a \in Actor, Set(a, Idle) PROVE FreshJob(a)'
BY SetJobs DEF FreshJob, Idle, At

LEMMA FreshStart ==
  ASSUME JobType, NEW a \in Actor, NEW queue, NEW now, Start(a, queue, now)
  PROVE  FreshJob(a)' /\ \A b \in Actor \ {a} : job'[b] = job[b]
<1>1. Set(a, [pc |-> "generate", queue |-> queue, now |-> now, asof |-> 0, err |-> "none",
              old |-> {}])
  BY DEF Start
<1>2. QED
  BY <1>1, SetJobs DEF FreshJob, At

LEMMA RecordedGenerate ==
  ASSUME TypeOK, TypeOK', Recorded, NEW a \in Actor, Generate(a) PROVE Recorded'
<1>1. JobType
  BY TypeParts
<1>2. row' = row /\ HeadGrows
  BY HeadSame DEF Generate
<1>3. CASE Goto(a, "update", clock, "none", {})
  <2>1. job'[a].pc = "update" /\ job'[a].now = job[a].now /\ job'[a].asof = clock
        /\ \A b \in Actor \ {a} : job'[b] = job[b]
    BY <1>1, <1>3, GotoJobs
  <2>2. FreshJob(a)'
    BY <1>1, <2>1 DEF FreshJob, At, JobType
  <2>3. QED
    BY <1>2, <2>1, <2>2, RecordedJob
<1>4. CASE a \in Worker /\ Goto(a, "mark", job[a].asof, "failed", {})
  <2>1. job'[a].pc = "mark" /\ job'[a].err = "failed" /\ \A b \in Actor \ {a} : job'[b] = job[b]
    BY <1>1, <1>4, GotoJobs
  <2>2. FreshJob(a)'
    BY <2>1 DEF FreshJob, At
  <2>3. QED
    BY <1>2, <2>1, <2>2, RecordedJob
<1>5. CASE a \in User /\ Set(a, Idle)
  BY <1>1, <1>2, <1>5, FreshIdle, SetJobs, RecordedJob
<1>6. CASE a \in Worker /\ ~Sees(a) /\ Goto(a, "mark", job[a].asof, "none", {})
  <2>1. /\ job'[a].pc = "mark" /\ job'[a].queue = job[a].queue
        /\ \A b \in Actor \ {a} : job'[b] = job[b]
    BY <1>1, <1>6, GotoJobs
  <2>2. FreshJob(a)'
    BY <1>2, <1>6, <2>1 DEF FreshJob, At, Sees, HeadGrows
  <2>3. QED
    BY <1>2, <2>1, <2>2, RecordedJob
<1>7. QED
  BY <1>3, <1>4, <1>5, <1>6 DEF Generate, Done

LEMMA RecordedReplace ==
  ASSUME TypeOK, TypeOK', Recorded, NEW a \in Actor, Replace(a) PROVE Recorded'
<1>1. JobType
  BY TypeParts
<1>2. row' = row /\ HeadGrows
  BY HeadSame DEF Replace
<1>3. job'[a].pc = "commit" /\ job'[a].now = job[a].now /\ job'[a].asof = job[a].asof
      /\ \A b \in Actor \ {a} : job'[b] = job[b]
  BY <1>1, GotoJobs DEF Replace
<1>4. a \in Worker => FreshJob(a)'
  BY <1>3 DEF Replace, Recorded, Fresh, FreshJob, At
<1>5. QED
  BY <1>2, <1>3, <1>4, RecordedJob

LEMMA RecordedCommit ==
  ASSUME TypeOK, TypeOK', Recorded, NEW a \in Actor, Commit(a) PROVE Recorded'
<1> DEFINE p == Target(a)
<1>1. JobType /\ ReportType /\ MissedType
  BY TypeParts
<1>2. p \in Report /\ job[a] \in Jobs
  BY <1>1, Busy DEF Commit, At
<1>3. head' = [head EXCEPT ![p] = Content(a)] /\ row' = row /\ blind' = blind
  BY DEF Commit
<1>4. head'[p].asof = job[a].asof /\ \A q \in Report \ {p} : head'[q] = head[q]
  BY <1>1, <1>2, <1>3 DEF ReportType, Content
<1>5. \A q \in Report : missed[q] \subseteq missed'[q]
  BY <1>1, <1>2, MissGrows DEF Commit
<1>6. ASSUME job[a].asof < head[p].asof PROVE HeadGrows
  <2>1. "older" \in missed'[p]
    BY <1>1, <1>2, <1>6 DEF Commit, Miss, MissedType
  <2>2. QED
    BY <1>3, <1>4, <1>5, <2>1, HeadTypes DEF HeadGrows, Clean
<1>7. ASSUME ~(job[a].asof < head[p].asof) PROVE HeadGrows
  <2>1. head[p].asof <= head'[p].asof
    BY <1>2, <1>4, <1>7, HeadTypes, SchedulerAssumption DEF Jobs
  <2>2. QED
    BY <1>3, <1>4, <1>5, <2>1, HeadTypes DEF HeadGrows
<1>8. HeadGrows
  BY <1>6, <1>7
<1>9. CASE a \in Worker
  <2>1. Goto(a, "mark", job[a].asof, "none", {})
    BY <1>9, SchedulerAssumption DEF Commit, Done
  <2>2. /\ job'[a].pc = "mark" /\ job'[a].queue = job[a].queue /\ job'[a].now = job[a].now
        /\ \A b \in Actor \ {a} : job'[b] = job[b]
    BY <1>1, <2>1, GotoJobs
  <2>3. job[a].now <= head'[p].asof
    BY <1>4, <1>9 DEF Recorded, Fresh, FreshJob, Commit, At
  <2>4. Target(a)' = p
    BY <2>2 DEF Target
  <2>5. FreshJob(a)'
    BY <2>2, <2>3, <2>4 DEF FreshJob
  <2>6. QED
    BY <1>3, <1>8, <2>2, <2>5, RecordedJob
<1>10. CASE a \notin Worker
  <2>1. Set(a, Idle)
    BY <1>10 DEF Commit, Done
  <2>2. QED
    BY <1>1, <1>3, <1>8, <1>10, <2>1, SetJobs, RecordedJob
<1>11. QED
  BY <1>9, <1>10

LEMMA RecordedNotSaved ==
  ASSUME TypeOK, TypeOK', Recorded, NEW a \in Actor, NotSaved(a) PROVE Recorded'
<1>1. JobType /\ MissedType
  BY TypeParts
<1>2. Target(a) \in Report
  BY <1>1, Busy DEF NotSaved, At
<1>3. row' = row /\ head' = head /\ blind' = blind
  BY DEF NotSaved
<1>4. HeadGrows
  <2>1. missed' = missed \/ \E what : Miss(Target(a), what)
    BY DEF NotSaved
  <2>2. QED
    BY <1>1, <1>2, <1>3, <2>1, MissGrows, HeadSame
<1>5. CASE a \in Worker
  <2>1. Goto(a, "mark", job[a].asof, "none", {}) /\ Miss(Target(a), "unsaved")
    BY <1>5, SchedulerAssumption DEF NotSaved, Done
  <2>2. job'[a].queue = job[a].queue /\ job'[a].pc = "mark"
        /\ \A b \in Actor \ {a} : job'[b] = job[b]
    BY <1>1, <2>1, GotoJobs
  <2>3. "unsaved" \in missed'[Target(a)]
    BY <1>1, <1>2, <2>1 DEF Miss, MissedType
  <2>4. FreshJob(a)'
    BY <2>2, <2>3 DEF FreshJob, Target, Clean
  <2>5. QED
    BY <1>3, <1>4, <2>2, <2>4, RecordedJob
<1>6. CASE a \notin Worker
  <2>1. Set(a, Idle)
    BY <1>6 DEF NotSaved, Done
  <2>2. QED
    BY <1>1, <1>3, <1>4, <1>6, <2>1, SetJobs, RecordedJob
<1>7. QED
  BY <1>5, <1>6

\* A mark records a run of the schedule it selected, and a report that is as fresh.
LEMMA RecordedMark ==
  ASSUME TypeOK, TypeOK', Recorded, NEW w \in Worker, Mark(w) PROVE Recorded'
<1> DEFINE p == Target(w)
<1>1. JobType /\ RowType /\ w \in Actor
  BY TypeParts DEF Actor
<1>2. p \in Report /\ job[w] \in Jobs /\ Head(job[w].queue).id # 0
  BY <1>1, Busy DEF Mark, At, JobType, QueueOK
<1>3. head' = head /\ missed' = missed /\ HeadGrows
  BY HeadSame DEF Mark
<1>4. FreshJob(w)' /\ \A b \in Actor \ {w} : job'[b] = job[b]
  <2>1. CASE Set(w, Idle)
    BY <1>1, <2>1, FreshIdle, SetJobs
  <2>2. CASE Start(w, Tail(job[w].queue), job[w].now)
    BY <1>1, <2>2, FreshStart
  <2>3. QED
    BY <2>1, <2>2 DEF Mark, NextEntry
<1>5. CASE UNCHANGED row
  BY <1>1, <1>3, <1>4, <1>5, RecordedJob
<1>6. CASE Matches(w) /\ MarkRow(w)
  <2>1. /\ \A q \in Report \ {p} : row'[q] = row[q]
        /\ row'[p].id = row[p].id /\ row'[p].last = job[w].now /\ row'[p].err = job[w].err
    BY <1>1, <1>2, <1>6 DEF MarkRow, Outcome, RowType
  <2>2. Fresh'
    BY <1>3, <1>4, <2>1, FreshOther DEF Recorded, Fresh, Actor
  <2>3. row[p].id # 0
    BY <1>2, <1>6 DEF Matches
  <2>4. Unused'
    BY <2>1, <2>3 DEF Recorded, Unused, Scheduled
  <2>5. job[w].err = "none" /\ Clean(p) /\ row[p].id \notin blind
          => job[w].now <= head[p].asof
    BY <1>6 DEF Recorded, Fresh, FreshJob, Mark, Sees, Matches
  <2>6. RunRecorded'
    BY <1>3, <2>1, <2>5 DEF Recorded, RunRecorded, Scheduled, Clean, HeadGrows
  <2>7. QED
    BY <2>2, <2>4, <2>6 DEF Recorded
<1>7. QED
  BY <1>5, <1>6 DEF Mark

LEMMA RecordedSchedules ==
  ASSUME TypeOK, TypeOK', Recorded, NEW p \in Report,
         Unschedule(p) \/ \E f \in Frequency : Schedule(p, f) \/ Reschedule(p, f)
  PROVE  Recorded'
<1>1. JobType /\ RowType /\ CountType /\ MissedType
  BY TypeParts
<1>2. job' = job /\ head' = head /\ blind \subseteq blind'
  BY DEF Unschedule, Schedule, Reschedule
<1>3. \A q \in Report \ {p} : row'[q] = row[q] /\ missed'[q] = missed[q]
  BY <1>1 DEF Unschedule, Schedule, Reschedule, PutRow, Miss, RowType, MissedType
<1>4. ASSUME NEW w \in Worker, At(w, "mark")
      PROVE  /\ Target(w) \in Report /\ Head(job[w].queue).id \in Nat
             /\ Head(job[w].queue).id # 0 /\ Head(job[w].queue).id <= ids
  BY <1>1, <1>4, Busy, SchedulerAssumption DEF At, JobType, QueueOK, Entries, Actor
<1>5. ASSUME NEW w \in Worker,
             \/ \A v \in Worker : At(v, "mark") => row'[p].id # Head(job[v].queue).id
             \/ row'[p].id = row[p].id /\ missed[p] \subseteq missed'[p]
      PROVE  FreshJob(w)'
  <2>1. FreshJob(w) /\ job'[w] = job[w]
    BY <1>2 DEF Recorded, Fresh
  <2>2. CASE At(w, "mark") /\ Target(w) = p
    BY <1>2, <1>5, <2>1, <2>2 DEF FreshJob, Matches, At, Target, Clean, Sees
  <2>3. CASE At(w, "mark") /\ Target(w) # p
    <3>1. row'[Target(w)] = row[Target(w)] /\ missed'[Target(w)] = missed[Target(w)]
      BY <1>3, <1>4, <2>3
    <3>2. QED
      BY <1>2, <2>1, <2>3, <3>1 DEF FreshJob, Matches, At, Target, Clean, Sees
  <2>4. CASE ~At(w, "mark")
    BY <1>2, <2>1, <2>4 DEF FreshJob, At
  <2>5. QED
    BY <2>2, <2>3, <2>4
<1>6. ASSUME Unschedule(p) PROVE Recorded'
  <2>1. row'[p] = NoRow /\ row'[p].id = 0
    BY <1>1, <1>6 DEF Unschedule, NoRow, RowType
  <2>2. Fresh'
    BY <1>4, <1>5, <2>1 DEF Fresh
  <2>3. Unused' /\ RunRecorded'
    BY <1>2, <1>3, <2>1 DEF Recorded, Unused, RunRecorded, Scheduled
  <2>4. QED
    BY <2>2, <2>3 DEF Recorded
<1>7. ASSUME NEW f \in Frequency, Schedule(p, f) PROVE Recorded'
  <2>1. row'[p].id = ids + 1 /\ ids \in Nat /\ row'[p].last = row[p].last
    BY <1>1, <1>7, SchedulerAssumption DEF Schedule, PutRow, RowType, CountType
  <2>2. row'[p].last = -1
    BY <1>7, <2>1 DEF Schedule, Recorded, Unused, NoRow, Never
  <2>3. \A w \in Worker : At(w, "mark") => row'[p].id # Head(job[w].queue).id
    BY <1>4, <2>1
  <2>4. Fresh'
    BY <1>5, <2>3 DEF Fresh
  <2>5. row'[p].id # 0 /\ row'[p].last <= head[p].asof
    BY <2>1, <2>2, HeadTypes
  <2>6. Unused' /\ RunRecorded'
    BY <1>2, <1>3, <2>5 DEF Recorded, Unused, RunRecorded, Scheduled
  <2>7. QED
    BY <2>4, <2>6 DEF Recorded
<1>8. ASSUME NEW f \in Frequency, Reschedule(p, f) PROVE Recorded'
  <2>1. row'[p].id = row[p].id /\ row'[p].last = row[p].last /\ row'[p].err = row[p].err
    BY <1>1, <1>8 DEF Reschedule, PutRow, RowType
  <2>2. missed[p] \subseteq missed'[p]
    BY <1>1, <1>8, MissGrows DEF Reschedule
  <2>3. Fresh'
    BY <1>5, <2>1, <2>2 DEF Fresh
  <2>4. row[p].id # 0
    BY <1>8 DEF Reschedule, Scheduled
  <2>5. Unused' /\ RunRecorded'
    BY <1>2, <1>3, <2>1, <2>2, <2>4 DEF Recorded, Unused, RunRecorded, Scheduled
  <2>6. QED
    BY <2>3, <2>5 DEF Recorded
<1>9. QED
  BY <1>6, <1>7, <1>8

LEMMA RecordedStep ==
  ASSUME TypeOK, TypeOK', Recorded, [Next]_vars PROVE Recorded'
<1>1. JobType
  BY TypeParts
<1>2. CASE UNCHANGED <<head, row, blind, job, missed>>
  BY <1>2 DEF Recorded, Fresh, FreshJob, At, Target, Matches, Clean, Sees, Unused,
              RunRecorded, Scheduled
<1>3. ASSUME NEW p \in Report,
             Unschedule(p) \/ \E f \in Frequency : Schedule(p, f) \/ Reschedule(p, f)
      PROVE  Recorded'
  BY <1>3, RecordedSchedules
<1>4. ASSUME NEW a \in Actor, UNCHANGED <<head, row, blind, missed>>,
             Set(a, Idle) \/ \E queue, now : Start(a, queue, now)
      PROVE  Recorded'
  <2>1. HeadGrows
    BY <1>4, HeadSame
  <2>2. FreshJob(a)' /\ \A b \in Actor \ {a} : job'[b] = job[b]
    BY <1>1, <1>4, FreshIdle, FreshStart, SetJobs
  <2>3. QED
    BY <1>4, <2>1, <2>2, RecordedJob
<1>5. ASSUME NEW w \in Worker, Tick(w) \/ TickFails(w) PROVE Recorded'
  <2>1. w \in Actor
    BY DEF Actor
  <2>2. QED
    BY <1>4, <1>5, <2>1 DEF Tick, TickFails
<1>6. ASSUME NEW w \in Worker, Mark(w) PROVE Recorded'
  BY <1>6, RecordedMark
<1>7. ASSUME NEW u \in User, NEW p \in Report, Regenerate(u, p) PROVE Recorded'
  BY <1>4, <1>7 DEF Regenerate, Actor
<1>8. ASSUME NEW a \in Actor, Crash(a) PROVE Recorded'
  BY <1>4, <1>8 DEF Crash
<1>9. ASSUME NEW a \in Actor, Regenerating(a) PROVE Recorded'
  BY <1>9, RecordedGenerate, RecordedReplace, RecordedCommit, RecordedNotSaved DEF Regenerating
<1>10. CASE Advance
  BY <1>2, <1>10 DEF Advance
<1>11. QED
  BY <1>2, <1>3, <1>5, <1>6, <1>7, <1>8, <1>9, <1>10 DEF Next, vars

\* A run recorded without an error left data in the report no older than the run, unless
\* the report could not be written or an earlier regeneration was written after it.
THEOREM RunsRecorded == Spec => []RunRecorded
<1>1. Init => TypeOK /\ Recorded
  <2>1. ASSUME Init PROVE Recorded
    BY <2>1 DEF Init, Recorded, Fresh, FreshJob, At, Idle, Unused, RunRecorded, Scheduled, NoRow,
              Actor
  <2>2. QED
    BY <2>1, TypeInit
<1>2. TypeOK /\ Recorded /\ [Next]_vars => (TypeOK /\ Recorded)'
  BY TypeStep, RecordedStep
<1>3. Recorded => RunRecorded
  BY DEF Recorded
<1>4. QED
  BY <1>1, <1>2, <1>3, PTL DEF Spec
=============================================================================
