--------------------------- MODULE ServiceProofs ---------------------------
(***************************************************************************)
(* Proofs about seven parts of the system that share no state: the         *)
(* throttle of sign-ins, the client of the language model, the metrics of  *)
(* the semantic layer, the chat in the browser, what prompts are told, the *)
(* charts of a chat turn, and the gates a query goes through.  Each        *)
(* section is about the module it names.                                   *)
(***************************************************************************)
EXTENDS LoginThrottle, LlmCalls, CubeMetrics, ChatStream, PromptContext, ChartRules, SqlRules,
        FiniteSetTheorems, SequenceTheorems, WellFoundedInduction, TLAPS

-----------------------------------------------------------------------------
(***************************************************************************)
(* LoginThrottle, for every number of attempts, every limit and every      *)
(* window, with any faults: types, the bound on the guesses a window lets  *)
(* through, and that only a lost EXPIRE leaves a counter without an        *)
(* expiry.                                                                 *)
(***************************************************************************)

\* The history counts no more than the counter does.
GuessInv == guesses <= count /\ GuessBound

-----------------------------------------------------------------------------
\* The sets behind the bound are finite.
LEMMA PastCheckFinite ==
  /\ IsFiniteSet(PastCheck) /\ Cardinality(PastCheck) \in Nat
  /\ Cardinality(Attempt) \in Nat
  /\ Cardinality(PastCheck) <= Cardinality(Attempt)
<1>1. PastCheck \subseteq Attempt
  BY DEF PastCheck
<1>2. IsFiniteSet(Attempt)
  BY ThrottleAssumption
<1>3. QED
  BY <1>1, <1>2, FS_Subset, FS_CardinalityType

LEMMA PastCheckFiniteNext ==
  /\ IsFiniteSet(PastCheck') /\ Cardinality(PastCheck') \in Nat
  /\ Cardinality(PastCheck') <= Cardinality(Attempt)
<1>1. PastCheck' \subseteq Attempt
  BY DEF PastCheck
<1>2. IsFiniteSet(Attempt)
  BY ThrottleAssumption
<1>3. QED
  BY <1>1, <1>2, FS_Subset, FS_CardinalityType

LEMMA TypeInit == Init => TypeOK
BY DEF Init, TypeOK, PC

\* A key that is dropped.
LEMMA GoneTypes ==
  ASSUME KeyGone
  PROVE  count' \in Nat /\ ttl' = NoTTL /\ guesses' \in Nat /\ missed' \subseteq {"check", "expire"}
<1>1. missed' \subseteq {"check", "expire"}
  BY DEF KeyGone
<1>2. count' \in Nat /\ ttl' = NoTTL /\ guesses' \in Nat
  BY DEF KeyGone
<1>3. QED
  BY <1>1, <1>2

LEMMA TypeStep == TypeOK /\ [Next]_vars => TypeOK'
<1> SUFFICES ASSUME TypeOK, [Next]_vars PROVE TypeOK'
  OBVIOUS
<1> USE ThrottleAssumption DEF TypeOK, PC, Goto, KeepKey, NoTTL
<1>1. CASE UNCHANGED vars
  BY <1>1 DEF vars
<1>2. CASE Tick
  <2>1. CASE ttl = 1
    BY <1>2, <2>1, GoneTypes DEF Tick
  <2>2. CASE ttl > 1
    <3>1. ttl' = ttl - 1 /\ UNCHANGED <<count, guesses, missed, pc, kind>>
      BY <1>2, <2>2 DEF Tick
    <3>2. QED
      BY <2>2, <3>1
  <2>3. QED
    BY <1>2, <2>1, <2>2 DEF Tick
<1>3. ASSUME NEW a \in Attempt, Login(a) \/ ChangePassword(a) PROVE TypeOK'
  BY <1>3 DEF Login, ChangePassword
<1>4. ASSUME NEW a \in Attempt, CheckLockout(a) PROVE TypeOK'
  BY <1>4 DEF CheckLockout
<1>5. ASSUME NEW a \in Attempt, Lookup(a) PROVE TypeOK'
  BY <1>5 DEF Lookup
<1>6. ASSUME NEW a \in Attempt, Register(a) PROVE TypeOK'
  BY <1>6 DEF Register
<1>7. ASSUME NEW a \in Attempt, SetExpiry(a) PROVE TypeOK'
  <2>1. missed' \subseteq {"check", "expire"}
    BY <1>7 DEF SetExpiry
  <2>2. ttl' \in {NoTTL} \cup 1..Window
    BY <1>7 DEF SetExpiry
  <2>3. QED
    BY <1>7, <2>1, <2>2 DEF SetExpiry
<1>8. ASSUME NEW a \in Attempt, Clear(a) PROVE TypeOK'
  BY <1>8, GoneTypes DEF Clear
<1>9. ASSUME NEW a \in Attempt, Crash(a) PROVE TypeOK'
  BY <1>9 DEF Crash
<1>10. QED
  BY <1>1, <1>2, <1>3, <1>4, <1>5, <1>6, <1>7, <1>8, <1>9 DEF Next, Work

\* LoginThrottle: the variables keep their types, with any faults.
THEOREM TypeCorrect == Spec => []TypeOK
BY TypeInit, TypeStep, PTL DEF Spec

-----------------------------------------------------------------------------
LEMMA GuessInit == Init => GuessInv
<1> SUFFICES ASSUME Init PROVE GuessInv
  OBVIOUS
<1>1. PastCheck = {}
  BY DEF Init, PastCheck
<1>2. QED
  BY <1>1, FS_EmptySet, PastCheckFinite, ThrottleAssumption DEF Init, GuessInv, GuessBound

\* A step that adds no guess and no attempt past the check keeps the bound.
LEMMA NoNewAttempt ==
  ASSUME TypeOK, TypeOK', GuessInv, "check" \in missed => "check" \in missed',
         PastCheck' \subseteq PastCheck, guesses' <= guesses
  PROVE  GuessBound'
<1>1. Cardinality(PastCheck') <= Cardinality(PastCheck)
  BY PastCheckFinite, FS_Subset
<1>2. QED
  BY <1>1, PastCheckFinite, PastCheckFiniteNext, ThrottleAssumption
     DEF GuessInv, GuessBound, TypeOK

\* A key that is dropped takes the guesses with it.
LEMMA NoKey ==
  ASSUME TypeOK, KeyGone PROVE GuessInv'
<1>1. guesses' = 0 /\ count' = 0
  BY DEF KeyGone
<1>2. guesses' + Cardinality(PastCheck') < MaxFailures + Cardinality(Attempt)
  BY <1>1, PastCheckFinite, PastCheckFiniteNext, ThrottleAssumption
<1>3. QED
  BY <1>1, <1>2 DEF GuessInv, GuessBound

LEMMA GuessStep ==
  ASSUME TypeOK, TypeOK', GuessInv, [Next]_vars
  PROVE  GuessInv'
<1> USE DEF Goto, KeepKey, RedisFails
<1>1. CASE UNCHANGED vars
  BY <1>1 DEF vars, GuessInv, GuessBound, PastCheck
<1>2. CASE Tick
  <2>1. CASE ttl = 1
    BY <1>2, <2>1, NoKey DEF Tick
  <2>2. CASE ttl > 1
    <3>1. PastCheck' = PastCheck
      BY <1>2 DEF Tick, PastCheck
    <3>2. QED
      BY <1>2, <2>2, <3>1, NoNewAttempt DEF Tick, TypeOK, GuessInv
  <2>3. QED
    BY <1>2, <2>1, <2>2 DEF Tick
<1>3. ASSUME NEW a \in Attempt,
             Login(a) \/ ChangePassword(a) \/ Lookup(a) \/ SetExpiry(a) \/ Crash(a)
      PROVE  GuessInv'
  <2>1. PastCheck' \subseteq PastCheck
    BY <1>3 DEF Login, ChangePassword, Lookup, SetExpiry, Crash, PastCheck, TypeOK
  <2>0. "check" \in missed => "check" \in missed'
    BY <1>3 DEF Login, ChangePassword, Lookup, SetExpiry, Crash
  <2>2. guesses' <= guesses /\ guesses' <= count'
    BY <1>3 DEF Login, ChangePassword, Lookup, SetExpiry, Crash, TypeOK, GuessInv
  <2>3. QED
    BY <2>0, <2>1, <2>2, NoNewAttempt DEF GuessInv
<1>4. ASSUME NEW a \in Attempt, Clear(a) PROVE GuessInv'
  <2>1. CASE KeyGone
    BY <2>1, NoKey
  <2>2. CASE KeepKey /\ UNCHANGED missed
    <3>1. PastCheck' \subseteq PastCheck
      BY <1>4 DEF Clear, PastCheck, TypeOK
    <3>2. QED
      BY <2>2, <3>1, NoNewAttempt DEF GuessInv, TypeOK
  <2>3. QED
    BY <1>4, <2>1, <2>2 DEF Clear
<1>5. ASSUME NEW a \in Attempt, CheckLockout(a) PROVE GuessInv'
  <2>1. guesses' = guesses /\ count' = count
    BY <1>5 DEF CheckLockout
  <2>2. CASE "check" \in missed'
    BY <2>1, <2>2 DEF GuessInv, GuessBound
  <2>3. CASE "check" \notin missed' /\ Locked(count)
    <3>1. PastCheck' \subseteq PastCheck /\ missed' = missed
      BY <1>5, <2>3 DEF CheckLockout, PastCheck, TypeOK
    <3>2. QED
      BY <2>1, <3>1, NoNewAttempt DEF GuessInv, TypeOK
  <2>4. CASE ~Locked(count)
    <3>1. count < MaxFailures
      BY <2>4, ThrottleAssumption DEF Locked, TypeOK
    <3>2. guesses + Cardinality(PastCheck') < MaxFailures + Cardinality(Attempt)
      BY <3>1, PastCheckFinite, PastCheckFiniteNext, ThrottleAssumption DEF GuessInv, TypeOK
    <3>3. QED
      BY <2>1, <3>2 DEF GuessInv, GuessBound
  <2>5. QED
    BY <2>2, <2>3, <2>4
<1>6. ASSUME NEW a \in Attempt, Register(a) PROVE GuessInv'
  <2>1. guesses' <= count' /\ missed' = missed
    BY <1>6, ThrottleAssumption DEF Register, GuessInv, TypeOK
  <2>2. CASE kind[a] = "change"
    <3>1. PastCheck' \subseteq PastCheck /\ guesses' = guesses
      BY <1>6, <2>2 DEF Register, PastCheck, TypeOK
    <3>2. QED
      BY <2>1, <3>1, NoNewAttempt DEF GuessInv, TypeOK
  <2>3. CASE kind[a] = "login"
    <3>1. PastCheck' = PastCheck \ {a} /\ a \in PastCheck /\ guesses' <= guesses + 1
      BY <1>6, <2>3 DEF Register, PastCheck, TypeOK
    <3>2. Cardinality(PastCheck') = Cardinality(PastCheck) - 1
      BY <3>1, PastCheckFinite, FS_RemoveElement
    <3>3. QED
      BY <2>1, <3>1, <3>2, PastCheckFinite, ThrottleAssumption
         DEF GuessInv, GuessBound, TypeOK
  <2>4. QED
    BY <2>2, <2>3 DEF TypeOK
<1>7. QED
  BY <1>1, <1>2, <1>3, <1>4, <1>5, <1>6 DEF Next, Work

\* login: whatever dies, fails or overlaps, a window counts fewer guesses than the limit
\* plus the attempts in flight, unless a lockout check went unanswered.
THEOREM GuessesBounded == Spec => []GuessBound
<1>1. TypeOK /\ TypeOK' /\ GuessInv /\ [Next]_vars => GuessInv'
  BY GuessStep
<1>2. GuessInv => GuessBound
  BY DEF GuessInv
<1>3. QED
  BY <1>1, <1>2, GuessInit, TypeCorrect, PTL DEF Spec

-----------------------------------------------------------------------------
\* The INCR that creates the counter is followed by its EXPIRE, or that is lost.
LEMMA ExpiryStep ==
  ASSUME TypeOK, CounterExpires, [Next]_vars
  PROVE  CounterExpires'
<1> USE ThrottleAssumption DEF Goto, KeepKey, KeyGone, RedisFails, TypeOK, NoTTL
<1>1. CASE UNCHANGED vars
  BY <1>1 DEF vars, CounterExpires
<1>2. CASE Tick
  BY <1>2 DEF Tick, CounterExpires
<1>3. ASSUME NEW a \in Attempt,
             Login(a) \/ ChangePassword(a) \/ CheckLockout(a) \/ Lookup(a)
      PROVE  CounterExpires'
  BY <1>3 DEF Login, ChangePassword, CheckLockout, Lookup, CounterExpires
<1>4. ASSUME NEW a \in Attempt, Register(a) PROVE CounterExpires'
  BY <1>4 DEF Register, ArmsExpiry, CounterExpires
<1>5. ASSUME NEW a \in Attempt, SetExpiry(a) PROVE CounterExpires'
  BY <1>5 DEF SetExpiry, CounterExpires
<1>6. ASSUME NEW a \in Attempt, Clear(a) PROVE CounterExpires'
  BY <1>6 DEF Clear, CounterExpires
<1>7. ASSUME NEW a \in Attempt, Crash(a) PROVE CounterExpires'
  BY <1>7 DEF Crash, CounterExpires
<1>8. QED
  BY <1>1, <1>2, <1>3, <1>4, <1>5, <1>6, <1>7 DEF Next, Work

\* register_failed_login: a counter that never expires is one whose EXPIRE was lost.
THEOREM CounterAlwaysExpires == Spec => []CounterExpires
<1>1. Init => CounterExpires
  BY DEF Init, CounterExpires
<1>2. TypeOK /\ CounterExpires /\ [Next]_vars => CounterExpires'
  BY ExpiryStep
<1>3. QED
  BY <1>1, <1>2, TypeCorrect, PTL DEF Spec

-----------------------------------------------------------------------------
(***************************************************************************)
(* LlmCalls, for every number of calls, attempts and clicks: what was paid *)
(* for is in the audit log, and what a thumb shows is in it too.           *)
(*                                                                         *)
(* The first invariant relates the requests that were sent, paid for and   *)
(* wasted to the attempts of the call under way; the second follows the    *)
(* posts of one thumb from the value before them to the value after, so    *)
(* that the last of them is what is shown unless it was lost or overtaken. *)
(***************************************************************************)

Score == {-1, 0, 1}
\* A row of another session than the answer's is never scored.
RowType ==
  {row \in [attempt : Nat, session : BOOLEAN, score : Score] : row.session \/ row.score = 0}
Post == [id : Nat, prior : Score, next : Score, at : {"sent", "recorded"}]
Agents == ForAnswer \cup ForReport \cup {"none"}
Log == [requests : Nat, paid : Nat, wasted : Nat, unrecorded : Nat, skipped : Nat,
        denied : BOOLEAN, numbered : BOOLEAN]

CallTypes ==
  /\ account \in Accounts /\ call \in 0..MaxCalls /\ agent \in Agents
  /\ step \in {"idle", "flight", "audit", "sleep", "shown", "left"}
  /\ attempt \in Nat /\ sends \in Nat
  /\ told \in {"none", "unconfigured", "misconfigured", "failed", "answered", "gone"}
  /\ log \in Log
ThumbTypes ==
  /\ trail \in [1..MaxCalls -> SUBSET RowType]
  /\ shown \in Score /\ posts \subseteq Post /\ clicks \in Nat
LlmTypes == CallTypes /\ ThumbTypes

\* The requests that a number of attempts may send.
Most(attempts, retries) == attempts * (1 + retries)

\* A call that is under way has left no row, and its last request is the only one
\* that may be paid for and not accounted for.
UnderWay ==
  step \in {"flight", "audit", "sleep"} =>
    /\ call > 0 /\ told = "none" /\ trail[call] = {}
    /\ log.unrecorded = 0 /\ log.skipped = 0
    /\ attempt \in 1..MaxRetries /\ sends \in 1..1 + LibraryRetries
    /\ log.requests <= Most(attempt - 1, LibraryRetries) + sends
    /\ log.paid = log.wasted + (IF step = "audit" THEN 1 ELSE 0)
    /\ ~(log.denied /\ account.provider = "openai")
    /\ step = "sleep" => attempt < MaxRetries
\* A call that is over has left one row at most.
Over ==
  /\ told = "gone" <=> step = "left"
  /\ Ended =>
       /\ step \in {"idle", "left"} /\ call > 0
       /\ Rows \in {0, 1}
       /\ PaidIsRecorded /\ RejectionIsTold
CallInv == (\A c \in 1..MaxCalls : c > call => trail[c] = {}) /\ UnderWay /\ Over

LEMMA Retries ==
  ASSUME account \in Accounts
  PROVE  /\ LibraryRetries \in {1, 2}
         /\ account.provider = "openai" => account.source = "tenant"
BY DEF Accounts, LibraryRetries

LEMMA MostStep ==
  ASSUME NEW attempts \in Nat, NEW retries \in {1, 2}
  PROVE  /\ Most(attempts, retries) \in Nat
         /\ Most(attempts, retries) = Most(attempts - 1, retries) + 1 + retries
         /\ Most((attempts + 1) - 1, retries) = Most(attempts, retries)
         /\ Most(0, retries) = 0
<1>1. CASE retries = 1
  BY <1>1 DEF Most
<1>2. CASE retries = 2
  BY <1>2 DEF Most
<1> QED
  BY <1>1, <1>2

LEMMA NoRows == Cardinality({}) = 0
BY FS_EmptySet

LEMMA OneRow == ASSUME NEW row PROVE Cardinality({row}) = 1
BY FS_Singleton

\* Requests that were answered and paid for in vain.
InVain(before, n, after) ==
  /\ after \in Log /\ after.requests = before.requests
  /\ after.paid = before.paid + n /\ after.wasted = before.wasted + n
  /\ after.unrecorded = before.unrecorded /\ after.skipped = before.skipped
  /\ after.denied = before.denied /\ after.numbered = before.numbered
LEMMA Wasted ==
  ASSUME NEW before \in Log, NEW n \in Nat, NEW after,
         after = [before EXCEPT !.paid = @ + n, !.wasted = @ + n]
  PROVE  InVain(before, n, after)
<1>1. /\ before.requests \in Nat /\ before.paid \in Nat /\ before.wasted \in Nat
      /\ before.unrecorded \in Nat /\ before.skipped \in Nat
      /\ before.denied \in BOOLEAN /\ before.numbered \in BOOLEAN
  BY DEF Log
<1>2. after = [requests |-> before.requests, paid |-> before.paid + n,
               wasted |-> before.wasted + n, unrecorded |-> before.unrecorded,
               skipped |-> before.skipped, denied |-> before.denied,
               numbered |-> before.numbered]
  BY <1>1 DEF Log
<1> QED
  BY <1>1, <1>2 DEF Log, InVain

\* An attempt that raises, whatever its last request came to.
LEMMA RaiseStep ==
  ASSUME LlmTypes, CallInv, step = "flight", NEW rejection \in BOOLEAN, Raise(rejection),
         log' \in Log, log'.requests = log.requests, log'.unrecorded = 0,
         log'.skipped = 0, log'.paid = log'.wasted,
         rejection => account.provider = "openai" /\ (log'.denied \/ log'.numbered),
         log'.denied /\ account.provider = "openai" => rejection
  PROVE  CallTypes' /\ CallInv'
<1> DEFINE fast == rejection /\ account.source = "tenant"
           again == ~fast /\ attempt < MaxRetries
<1>1. /\ UNCHANGED <<account, call, agent, attempt, sends, trail>>
      /\ step' = IF again THEN "sleep" ELSE "idle"
      /\ told' = CASE fast -> "misconfigured" [] again -> "none" [] OTHER -> "failed"
  BY DEF Raise
<1>2. CallTypes'
  BY <1>1 DEF LlmTypes, CallTypes
<1>3. \A c \in 1..MaxCalls : c > call' => trail'[c] = {}
  BY <1>1 DEF CallInv
<1>4. /\ call > 0 /\ told = "none" /\ trail[call] = {} /\ log.unrecorded = 0 /\ log.skipped = 0
      /\ attempt \in 1..MaxRetries /\ sends \in 1..1 + LibraryRetries
      /\ log.requests <= Most(attempt - 1, LibraryRetries) + sends
  BY DEF CallInv, UnderWay
<1>5. LibraryRetries' = LibraryRetries /\ LibraryRetries \in {1, 2} /\ attempt \in Nat
  BY <1>1, Retries DEF LlmTypes, CallTypes, LibraryRetries
<1>6. account.provider = "openai" => account.source = "tenant"
  BY Retries DEF LlmTypes, CallTypes
<1>7. MaxRetries \in Nat
  BY LlmAssumption
<1>8. log'.requests <= Most(attempt, LibraryRetries)
  BY <1>4, <1>5, MostStep DEF LlmTypes, CallTypes, Log
<1>9. trail'[call'] = {} /\ Rows' = 0
  BY <1>1, <1>4, NoRows DEF Rows
<1>10. CASE again
  <2>1. step' = "sleep" /\ told' = "none"
    BY <1>1, <1>10
  <2>2. ~(log'.denied /\ account'.provider = "openai")
    BY <1>1, <1>6, <1>10
  <2>3. UnderWay'
    <3>1. log'.requests <= Most(attempt' - 1, LibraryRetries') + sends'
      BY <1>1, <1>4, <1>5
    <3>2. log'.paid = log'.wasted + (IF step' = "audit" THEN 1 ELSE 0)
      BY <2>1 DEF Log
    <3> QED
      BY <1>1, <1>4, <1>5, <1>9, <1>10, <2>1, <2>2, <3>1, <3>2 DEF UnderWay
  <2>4. Over'
    BY <2>1 DEF Over, Ended
  <2> QED
    BY <1>2, <1>3, <2>3, <2>4 DEF CallInv
<1>11. CASE ~again
  <2>1. step' = "idle" /\ told' = IF fast THEN "misconfigured" ELSE "failed"
    BY <1>1, <1>11
  <2>2. UnderWay'
    BY <2>1 DEF UnderWay
  <2>3. PaidIsRecorded'
    BY <1>9, <2>1 DEF PaidIsRecorded, Log
  <2>4. fast => account = [provider |-> "openai", source |-> "tenant"]
    BY DEF LlmTypes, CallTypes, Accounts
  <2>5. ~fast => attempt = MaxRetries /\ ~(log'.denied /\ account.provider = "openai")
    BY <1>4, <1>5, <1>6, <1>7, <1>11
  <2>6. RejectionIsTold'
    <3>1. log'.requests <= attempt' * (1 + LibraryRetries')
      BY <1>1, <1>5, <1>8 DEF Most
    <3> QED
      BY <1>1, <2>1, <2>4, <2>5, <3>1 DEF RejectionIsTold
  <2>7. Over'
    BY <1>1, <1>4, <1>9, <2>1, <2>3, <2>6 DEF Over
  <2> QED
    BY <1>2, <1>3, <2>2, <2>7 DEF CallInv
<1> QED
  BY <1>10, <1>11

\* Steps that leave a call as it was.
LEMMA SameCall ==
  ASSUME LlmTypes, CallInv, UNCHANGED callVars
  PROVE  CallTypes' /\ CallInv'
<1>1. CallTypes'
  BY DEF LlmTypes, CallTypes, callVars
<1>2. Rows' = Rows /\ LibraryRetries' = LibraryRetries
  BY DEF Rows, LibraryRetries, callVars
<1>3. UnderWay'
  BY <1>2 DEF CallInv, UnderWay, callVars
<1>4. Over'
  BY <1>2 DEF CallInv, Over, Ended, PaidIsRecorded, RejectionIsTold, Identified, callVars
<1> QED
  BY <1>1, <1>3, <1>4 DEF CallInv, callVars

LEMMA LlmCallInit == LlmInit => CallTypes /\ CallInv
<1> SUFFICES ASSUME LlmInit PROVE CallTypes /\ CallInv
  OBVIOUS
<1>1. NoLog \in Log
  BY DEF NoLog, Log
<1>2. CallTypes
  BY <1>1, LlmAssumption DEF LlmInit, CallTypes, Agents
<1> QED
  BY <1>2 DEF LlmInit, CallInv, UnderWay, Over, Ended

\* A call starts, or starts its next attempt.
LEMMA StartStep ==
  ASSUME LlmTypes, CallInv, Invoke \/ Unconfigured \/ Retry
  PROVE  CallTypes' /\ CallInv'
<1>1. /\ UNCHANGED <<account, trail>> /\ call \in 0..MaxCalls /\ MaxCalls \in Nat
      /\ MaxRetries \in Nat \ {0} /\ agent' \in Agents
  <2>1. NextAgents \subseteq Agents
    BY DEF NextAgents, Agents, ForAnswer, ForReport
  <2> QED
    BY <2>1, LlmAssumption DEF LlmTypes, CallTypes, Invoke, Unconfigured, Retry
<1>2. LibraryRetries' = LibraryRetries /\ LibraryRetries \in {1, 2}
  BY <1>1, Retries DEF LlmTypes, CallTypes, LibraryRetries
<1>3. CASE Invoke
  <2>1. /\ call' = call + 1 /\ told' = "none" /\ step' = "flight" /\ attempt' = 1 /\ sends' = 1
        /\ log' = [NoLog EXCEPT !.requests = 1] /\ call < MaxCalls
    BY <1>3 DEF Invoke
  <2>2. /\ log' \in Log /\ log'.requests = 1 /\ log'.paid = 0 /\ log'.wasted = 0
        /\ log'.unrecorded = 0 /\ log'.skipped = 0 /\ log'.denied = FALSE
    BY <2>1 DEF NoLog, Log
  <2>3. CallTypes'
    BY <1>1, <2>1, <2>2 DEF LlmTypes, CallTypes
  <2>4. trail'[call'] = {} /\ \A c \in 1..MaxCalls : c > call' => trail'[c] = {}
    BY <1>1, <2>1 DEF CallInv
  <2>5. Most(attempt' - 1, LibraryRetries') + sends' = 1
    BY <1>2, <2>1, MostStep
  <2>6. UnderWay'
    BY <1>1, <1>2, <2>1, <2>2, <2>4, <2>5 DEF UnderWay
  <2> QED
    BY <2>1, <2>3, <2>4, <2>6 DEF CallInv, Over, Ended
<1>4. CASE Unconfigured
  <2>1. /\ call' = call + 1 /\ told' = "unconfigured" /\ step' = "idle" /\ log' = NoLog
        /\ call < MaxCalls /\ UNCHANGED <<attempt, sends>>
    BY <1>4 DEF Unconfigured
  <2>2. CallTypes'
    BY <1>1, <2>1 DEF LlmTypes, CallTypes, NoLog, Log
  <2>3. \A c \in 1..MaxCalls : c > call' => trail'[c] = {}
    BY <1>1, <2>1 DEF CallInv
  <2> QED
    BY <2>1, <2>2, <2>3 DEF CallInv, UnderWay, Over, Ended
<1>5. CASE Retry
  <2>1. /\ step = "sleep" /\ step' = "flight" /\ attempt' = attempt + 1 /\ sends' = 1
        /\ log' = [log EXCEPT !.requests = @ + 1] /\ UNCHANGED <<call, told>>
    BY <1>5 DEF Retry
  <2>2. /\ call > 0 /\ told = "none" /\ trail[call] = {} /\ log.unrecorded = 0 /\ log.skipped = 0
        /\ attempt \in 1..MaxRetries /\ sends \in 1..1 + LibraryRetries
        /\ log.requests <= Most(attempt - 1, LibraryRetries) + sends
        /\ log.paid = log.wasted /\ ~(log.denied /\ account.provider = "openai")
        /\ attempt < MaxRetries
    BY <2>1 DEF CallInv, UnderWay, LlmTypes, CallTypes, Log
  <2>3. /\ log' \in Log /\ log'.requests = log.requests + 1 /\ log'.paid = log.paid
        /\ log'.wasted = log.wasted /\ log'.unrecorded = 0 /\ log'.skipped = 0 /\ log'.denied = log.denied
    BY <2>1, <2>2 DEF LlmTypes, CallTypes, Log
  <2>4. CallTypes'
    BY <1>1, <2>1, <2>3 DEF LlmTypes, CallTypes
  <2>5. log'.requests <= Most(attempt' - 1, LibraryRetries') + sends'
    <3>1. attempt \in Nat /\ attempt - 1 \in Nat /\ log.requests \in Nat
      BY <1>1, <2>2 DEF LlmTypes, CallTypes, Log
    <3>2. Most(attempt - 1, LibraryRetries) \in Nat
      BY <1>2, <3>1, MostStep
    <3>3. /\ Most(attempt, LibraryRetries) = Most(attempt - 1, LibraryRetries) + 1 + LibraryRetries
          /\ Most((attempt + 1) - 1, LibraryRetries) = Most(attempt, LibraryRetries)
      BY <1>2, <3>1, MostStep
    <3> QED
      BY <1>2, <2>1, <2>2, <2>3, <3>1, <3>2, <3>3
  <2>6. UnderWay'
    BY <1>1, <1>2, <2>1, <2>2, <2>3, <2>5 DEF UnderWay, Log
  <2> QED
    BY <1>1, <2>1, <2>2, <2>4, <2>6 DEF CallInv, Over, Ended
<1> QED
  BY <1>3, <1>4, <1>5

\* A request of the attempt that is sent again by the library, or fails it.
LEMMA ResendStep ==
  ASSUME LlmTypes, CallInv, NEW numbered \in BOOLEAN, NEW paid \in {0, 1}, Resend(numbered, paid)
  PROVE  CallTypes' /\ CallInv'
<1> DEFINE seen == [log EXCEPT !.paid = @ + paid, !.wasted = @ + paid]
<1>1. step = "flight" /\ account \in Accounts /\ log \in Log
  BY DEF Resend, LlmTypes, CallTypes
<1>2. /\ call > 0 /\ told = "none" /\ trail[call] = {} /\ log.unrecorded = 0 /\ log.skipped = 0
      /\ attempt \in 1..MaxRetries /\ sends \in 1..1 + LibraryRetries
      /\ log.requests <= Most(attempt - 1, LibraryRetries) + sends
      /\ log.paid = log.wasted /\ ~(log.denied /\ account.provider = "openai")
  BY <1>1 DEF CallInv, UnderWay, Log
<1>3. /\ seen \in Log /\ seen.requests = log.requests /\ seen.paid = seen.wasted
      /\ seen.unrecorded = 0 /\ seen.skipped = 0 /\ seen.denied = log.denied /\ seen.numbered = log.numbered
  <2>1. InVain(log, paid, seen)
    <3>1. paid \in Nat
      OBVIOUS
    <3> QED
      BY <1>1, <3>1, Wasted, Zenon
  <2> HIDE DEF seen
  <2> QED
    BY <1>2, <2>1 DEF InVain, Log
<1> HIDE DEF seen
<1>4. CASE sends <= LibraryRetries
  <2>1. /\ sends' = sends + 1 /\ log' = [seen EXCEPT !.requests = @ + 1]
        /\ UNCHANGED <<account, call, agent, step, attempt, told, trail>>
    BY <1>4 DEF Resend, seen
  <2>2. /\ log' \in Log /\ log'.requests = log.requests + 1 /\ log'.paid = log'.wasted
        /\ log'.unrecorded = 0 /\ log'.skipped = 0 /\ log'.denied = log.denied
    BY <1>3, <2>1 DEF Log
  <2>3. LibraryRetries' = LibraryRetries /\ LibraryRetries \in {1, 2}
    BY <1>1, <2>1, Retries DEF LibraryRetries
  <2>4. CallTypes'
    BY <2>1, <2>2 DEF LlmTypes, CallTypes
  <2>5. log'.requests <= Most(attempt' - 1, LibraryRetries') + sends'
    <3>1. Most(attempt - 1, LibraryRetries) \in Nat
      <4>1. attempt - 1 \in Nat
        BY <1>2, LlmAssumption
      <4> QED
        BY <4>1, <2>3, MostStep
    <3> QED
      BY <1>1, <1>2, <2>1, <2>2, <2>3, <3>1 DEF Log
  <2>6. UnderWay'
    BY <1>1, <1>2, <1>4, <2>1, <2>2, <2>3, <2>5 DEF UnderWay, Log
  <2> QED
    BY <1>1, <1>2, <2>1, <2>4, <2>6 DEF CallInv, Over, Ended
<1>5. CASE ~(sends <= LibraryRetries)
  <2>1. /\ log' = [seen EXCEPT !.numbered = @ \/ numbered]
        /\ Raise(Rejection(FALSE, numbered))
    BY <1>5 DEF Resend, seen
  <2>2. /\ log' \in Log /\ log'.requests = log.requests /\ log'.paid = log'.wasted
        /\ log'.unrecorded = 0 /\ log'.skipped = 0 /\ log'.denied = log.denied /\ (numbered => log'.numbered)
    BY <1>3, <2>1 DEF Log
  <2>3. /\ Rejection(FALSE, numbered) \in BOOLEAN
        /\ Rejection(FALSE, numbered) => account.provider = "openai" /\ numbered
    BY DEF Rejection
  <2> QED
    BY <1>1, <1>2, <2>1, <2>2, <2>3, RaiseStep
<1> QED
  BY <1>4, <1>5

\* What else a request may come to.
LEMMA FlightStep ==
  ASSUME LlmTypes, CallInv,
         \/ Respond \/ RespondUnreadable \/ Deny
         \/ \E numbered \in BOOLEAN : RefuseRequest(numbered)
  PROVE  CallTypes' /\ CallInv'
<1>1. step = "flight" /\ account \in Accounts /\ log \in Log
  BY DEF Respond, RespondUnreadable, Deny, RefuseRequest, LlmTypes, CallTypes
<1>2. /\ call > 0 /\ told = "none" /\ trail[call] = {} /\ log.unrecorded = 0 /\ log.skipped = 0
      /\ attempt \in 1..MaxRetries /\ sends \in 1..1 + LibraryRetries
      /\ log.requests <= Most(attempt - 1, LibraryRetries) + sends
      /\ log.paid = log.wasted /\ ~(log.denied /\ account.provider = "openai")
  BY <1>1 DEF CallInv, UnderWay, Log
<1>3. CASE Respond
  <2>1. /\ step' = "audit" /\ log' = [log EXCEPT !.paid = @ + 1]
        /\ UNCHANGED <<account, call, agent, attempt, sends, told, trail>>
    BY <1>3 DEF Respond
  <2>2. /\ log' \in Log /\ log'.requests = log.requests /\ log'.paid = log'.wasted + 1
        /\ log'.unrecorded = 0 /\ log'.skipped = 0 /\ log'.denied = log.denied
    BY <1>1, <1>2, <2>1 DEF Log
  <2>3. LibraryRetries' = LibraryRetries
    BY <2>1 DEF LibraryRetries
  <2>4. CallTypes'
    BY <2>1, <2>2 DEF LlmTypes, CallTypes
  <2>5. UnderWay'
    BY <1>1, <1>2, <2>1, <2>2, <2>3 DEF UnderWay
  <2> QED
    BY <1>1, <1>2, <2>1, <2>4, <2>5 DEF CallInv, Over, Ended
<1>4. CASE RespondUnreadable
  <2>1. /\ log' = [log EXCEPT !.paid = @ + 1, !.wasted = @ + 1] /\ Raise(FALSE)
    BY <1>4 DEF RespondUnreadable
  <2>2. /\ log' \in Log /\ log'.requests = log.requests /\ log'.paid = log'.wasted
        /\ log'.unrecorded = 0 /\ log'.skipped = 0 /\ log'.denied = log.denied
    <3>1. 1 \in Nat
      OBVIOUS
    <3>2. InVain(log, 1, log')
      BY <1>1, <2>1, <3>1, Wasted, Zenon
    <3> QED
      BY <1>2, <3>2 DEF InVain, Log
  <2> QED
    BY <1>1, <1>2, <2>1, <2>2, RaiseStep
<1>5. CASE Deny
  <2>1. log' = [log EXCEPT !.denied = TRUE] /\ Raise(Rejection(TRUE, FALSE))
    BY <1>5 DEF Deny
  <2>2. /\ log' \in Log /\ log'.requests = log.requests /\ log'.paid = log'.wasted
        /\ log'.unrecorded = 0 /\ log'.skipped = 0 /\ log'.denied
    BY <1>1, <1>2, <2>1 DEF Log
  <2>3. /\ Rejection(TRUE, FALSE) \in BOOLEAN
        /\ Rejection(TRUE, FALSE) <=> account.provider = "openai"
    BY DEF Rejection
  <2> QED
    BY <1>1, <1>2, <2>1, <2>2, <2>3, RaiseStep
<1>6. ASSUME NEW numbered \in BOOLEAN, RefuseRequest(numbered)
      PROVE  CallTypes' /\ CallInv'
  <2>1. log' = [log EXCEPT !.numbered = @ \/ numbered] /\ Raise(Rejection(FALSE, numbered))
    BY <1>6 DEF RefuseRequest
  <2>2. /\ log' \in Log /\ log'.requests = log.requests /\ log'.paid = log'.wasted
        /\ log'.unrecorded = 0 /\ log'.skipped = 0 /\ log'.denied = log.denied /\ (numbered => log'.numbered)
    BY <1>1, <1>2, <2>1 DEF Log
  <2>3. /\ Rejection(FALSE, numbered) \in BOOLEAN
        /\ Rejection(FALSE, numbered) => account.provider = "openai" /\ numbered
    BY DEF Rejection
  <2> QED
    BY <1>1, <1>2, <2>1, <2>2, <2>3, RaiseStep
<1> QED
  BY <1>3, <1>4, <1>5, <1>6

\* A call that ends, answered or left, with a row or with none.
LEMMA OverStep ==
  ASSUME LlmTypes, CallInv, step \in {"flight", "audit", "sleep"},
         UNCHANGED <<account, call, agent, attempt, sends>>,
         \/ step' = "idle" /\ told' = "answered"
         \/ step' = "left" /\ told' = "gone",
         log' \in Log, log'.requests + sends <= log.requests + 1 + LibraryRetries,
         log'.denied = log.denied,
         \A c \in 1..MaxCalls : c # call => trail'[c] = trail[c],
         Rows' \in {0, 1}, Rows' + log'.unrecorded + log'.skipped <= 1,
         step' = "idle" => Rows' + log'.unrecorded + log'.skipped = 1,
         IF Identified THEN log'.skipped = 0 ELSE Rows' + log'.unrecorded = 0,
         log'.paid = Rows' + log'.wasted + log'.unrecorded + log'.skipped
  PROVE  CallTypes' /\ CallInv'
<1>1. /\ account \in Accounts /\ attempt \in Nat /\ call \in 0..MaxCalls /\ log \in Log
      /\ MaxCalls \in Nat
  BY LlmAssumption DEF LlmTypes, CallTypes
<1>2. /\ call > 0 /\ attempt \in 1..MaxRetries /\ sends \in 1..1 + LibraryRetries
      /\ log.requests <= Most(attempt - 1, LibraryRetries) + sends
      /\ ~(log.denied /\ account.provider = "openai")
  BY DEF CallInv, UnderWay
<1>3. LibraryRetries' = LibraryRetries /\ LibraryRetries \in {1, 2}
  BY <1>1, Retries DEF LibraryRetries
<1>4. log'.requests <= Most(attempt, LibraryRetries)
  <2>1. attempt - 1 \in Nat
    BY <1>2, LlmAssumption
  <2>2. Most(attempt - 1, LibraryRetries) \in Nat
    BY <1>3, <2>1, MostStep
  <2> QED
    BY <1>1, <1>2, <1>3, <2>2, MostStep DEF Log
<1>5. CallTypes'
  BY DEF LlmTypes, CallTypes
<1>6. \A c \in 1..MaxCalls : c > call' => trail'[c] = {}
  BY <1>1 DEF CallInv
<1>7. UnderWay'
  BY DEF UnderWay
<1>8. PaidIsRecorded'
  BY DEF PaidIsRecorded, Identified
<1>9. RejectionIsTold'
  <2>1. log'.requests <= attempt' * (1 + LibraryRetries')
    BY <1>1, <1>3, <1>4 DEF Most
  <2> QED
    BY <1>2, <2>1 DEF RejectionIsTold
<1>10. Over'
  BY <1>2, <1>8, <1>9 DEF Over
<1> QED
  BY <1>5, <1>6, <1>7, <1>10 DEF CallInv

\* The answer is audited, or not, or nobody waits for it any more.
LEMMA EndStep ==
  ASSUME LlmTypes, CallInv, WriteAuditRow \/ FailAuditRow \/ SkipAuditRow \/ Leave
  PROVE  CallTypes' /\ CallInv'
<1> DEFINE row == AuditRow
           written == /\ step = "audit" /\ Identified
                      /\ trail' = [trail EXCEPT ![call] = @ \cup {row}] /\ log' = log
           failed == /\ step = "audit" /\ Identified
                     /\ trail' = trail /\ log' = [log EXCEPT !.unrecorded = @ + 1]
           skipped == /\ step = "audit" /\ ~Identified
                      /\ trail' = trail /\ log' = [log EXCEPT !.skipped = @ + 1]
           unpaid == step = "sleep" /\ trail' = trail /\ log' = log
           wasted(more, paid) ==
             /\ step = "flight" /\ trail' = trail
             /\ more + sends <= 1 + LibraryRetries
             /\ log' = [log EXCEPT !.requests = @ + more, !.paid = @ + paid, !.wasted = @ + paid]
<1>1. /\ log \in Log /\ call \in 0..MaxCalls /\ MaxCalls \in Nat
      /\ trail \in [1..MaxCalls -> SUBSET RowType]
      /\ LibraryRetries \in {1, 2}
  BY LlmAssumption, Retries DEF LlmTypes, CallTypes, ThumbTypes
<1>2. step \in {"flight", "audit", "sleep"}
  BY DEF WriteAuditRow, FailAuditRow, SkipAuditRow, Leave
<1>3. /\ call > 0 /\ trail[call] = {} /\ log.unrecorded = 0 /\ log.skipped = 0
      /\ sends \in 1..1 + LibraryRetries
      /\ log.paid = log.wasted + (IF step = "audit" THEN 1 ELSE 0)
  BY <1>2 DEF CallInv, UnderWay
<1>4. UNCHANGED <<account, call, agent, attempt, sends>>
  BY DEF WriteAuditRow, FailAuditRow, SkipAuditRow, Unaudited, Leave
<1>5. /\ \/ step' = "idle" /\ told' = "answered"
         \/ step' = "left" /\ told' = "gone"
      /\ \/ written \/ failed \/ skipped
         \/ step' = "left" /\ (unpaid \/ \E more, paid \in Nat : wasted(more, paid))
  <2>1. CASE WriteAuditRow
    BY <2>1 DEF WriteAuditRow
  <2>2. CASE FailAuditRow \/ SkipAuditRow
    BY <2>2 DEF FailAuditRow, SkipAuditRow, Unaudited
  <2>3. CASE Leave
    <3>1. step' = "left" /\ told' = "gone"
      BY <2>3 DEF Leave
    <3>2. CASE step = "flight"
      <4>1. PICK more \in 0..(IF account.provider = "openai" THEN LibraryRetries + 1 - sends ELSE 0) :
              \E paid \in 0..1 + more :
                 log' = [log EXCEPT !.requests = @ + more, !.paid = @ + paid, !.wasted = @ + paid]
        BY <2>3, <3>2 DEF Leave
      <4>2. PICK paid \in 0..1 + more :
                 log' = [log EXCEPT !.requests = @ + more, !.paid = @ + paid, !.wasted = @ + paid]
        BY <4>1
      <4>3. more \in Nat /\ paid \in Nat /\ more + sends <= 1 + LibraryRetries
        BY <1>1, <1>3
      <4>4. trail' = trail
        BY <2>3, <3>2 DEF Leave
      <4> QED
        BY <3>1, <3>2, <4>2, <4>3, <4>4
    <3>3. CASE step # "flight"
      BY <2>3, <3>1, <3>3 DEF Leave
    <3> QED
      BY <3>2, <3>3
  <2> QED
    BY <2>1, <2>2, <2>3
<1>6. CASE written
  <2>1. /\ trail'[call'] = {row} /\ \A c \in 1..MaxCalls : c # call => trail'[c] = trail[c]
    BY <1>1, <1>3, <1>4, <1>6
  <2>2. Rows' = 1
    BY <2>1, OneRow DEF Rows
  <2> QED
    BY <1>1, <1>2, <1>3, <1>4, <1>5, <1>6, <2>1, <2>2, OverStep DEF Log
<1>7. ASSUME trail' = trail
      PROVE  Rows' = 0 /\ \A c \in 1..MaxCalls : c # call => trail'[c] = trail[c]
  BY <1>3, <1>4, <1>7, NoRows DEF Rows
<1>8. CASE failed \/ skipped
  <2>1. /\ log' \in Log /\ log'.requests = log.requests /\ log'.denied = log.denied
        /\ log'.unrecorded + log'.skipped = 1
        /\ IF Identified THEN log'.skipped = 0 ELSE log'.unrecorded = 0
        /\ log'.paid = log.paid /\ log'.wasted = log.wasted
    BY <1>1, <1>3, <1>8 DEF Log
  <2>2. Rows' = 0 /\ \A c \in 1..MaxCalls : c # call => trail'[c] = trail[c]
    BY <1>7, <1>8
  <2>3. log'.requests \in Nat /\ log'.paid \in Nat /\ log'.wasted \in Nat
        /\ log'.unrecorded \in Nat /\ log'.skipped \in Nat
    BY <2>1 DEF Log
  <2>4. log'.paid = log'.wasted + 1
    BY <1>3, <1>8, <2>1
  <2>5. log'.requests + sends <= log.requests + 1 + LibraryRetries
    BY <1>1, <1>3, <2>1, <2>3
  <2>6. /\ Rows' + log'.unrecorded + log'.skipped = 1
        /\ log'.paid = Rows' + log'.wasted + log'.unrecorded + log'.skipped
        /\ Rows' \in {0, 1} /\ Rows' + log'.unrecorded + log'.skipped <= 1
        /\ IF Identified THEN log'.skipped = 0 ELSE Rows' + log'.unrecorded = 0
    BY <2>1, <2>2, <2>3, <2>4
  <2> HIDE DEF failed, skipped
  <2> QED
    BY <1>2, <1>4, <1>5, <2>1, <2>2, <2>5, <2>6, OverStep
<1>9. CASE step' = "left" /\ unpaid
  BY <1>1, <1>2, <1>3, <1>4, <1>5, <1>7, <1>9, OverStep DEF Log
<1>10. ASSUME NEW more \in Nat, NEW paid \in Nat, step' = "left", wasted(more, paid)
       PROVE  CallTypes' /\ CallInv'
  <2> DEFINE mid == [log EXCEPT !.paid = @ + paid, !.wasted = @ + paid]
  <2>1. InVain(log, paid, mid)
    BY <1>1, <1>10, Wasted, Zenon
  <2>2. log' = [mid EXCEPT !.requests = @ + more]
    BY <1>1, <1>10 DEF Log
  <2>3. log.paid = log.wasted
    BY <1>1, <1>3, <1>10 DEF Log
  <2> HIDE DEF mid
  <2>4. /\ mid \in Log /\ mid.requests = log.requests /\ mid.denied = log.denied
        /\ mid.unrecorded = 0 /\ mid.skipped = 0 /\ mid.paid = mid.wasted
    BY <1>3, <2>1, <2>3 DEF InVain
  <2>5. /\ log' \in Log /\ log'.requests = log.requests + more /\ log'.denied = log.denied
        /\ log'.unrecorded = 0 /\ log'.skipped = 0 /\ log'.paid = log'.wasted
    BY <2>2, <2>4 DEF Log
  <2>6. Rows' = 0 /\ \A c \in 1..MaxCalls : c # call => trail'[c] = trail[c]
    BY <1>7, <1>10
  <2>7. log'.requests + sends <= log.requests + 1 + LibraryRetries
    <3>1. log.requests \in Nat /\ sends \in Nat
      BY <1>1, <1>3 DEF Log
    <3>2. more + sends <= 1 + LibraryRetries
      BY <1>10
    <3> HIDE DEF wasted
    <3> QED
      BY <1>1, <2>5, <3>1, <3>2
  <2>8. /\ log'.paid = Rows' + log'.wasted + log'.unrecorded + log'.skipped
        /\ Rows' \in {0, 1} /\ Rows' + log'.unrecorded + log'.skipped <= 1
        /\ IF Identified THEN log'.skipped = 0 ELSE Rows' + log'.unrecorded = 0
    BY <2>5, <2>6 DEF Log
  <2>9. step' = "left" /\ told' = "gone" /\ step' # "idle"
    BY <1>5, <1>10
  <2> HIDE DEF wasted
  <2> QED
    BY <1>2, <1>4, <2>5, <2>6, <2>7, <2>8, <2>9, OverStep
<1> QED
  BY <1>5, <1>6, <1>8, <1>9, <1>10

-----------------------------------------------------------------------------
\* The posts of the thumb that the server has not seen, and what the rows say.
Waiting == {p \in posts : p.at = "sent"}
Agree(score) ==
  \A c \in 1..MaxCalls : \A row \in trail[c] : row.score = IF row.session THEN score ELSE 0
\* The rows hold what the first of these posts goes from, each goes to what the next
\* one goes from, and the last to what the browser shows.
Chain ==
  /\ Waiting = {} => Agree(shown)
  /\ \A p \in Waiting :
       /\ (\A q \in Waiting : p.id <= q.id) => Agree(p.prior)
       /\ (\A q \in Waiting : q.id <= p.id) => shown = p.next
       /\ \A q \in Waiting :
            p.id < q.id /\ (\A w \in Waiting : w.id <= p.id \/ q.id <= w.id) => q.prior = p.next
ThumbInv ==
  /\ step # "shown" => posts = {} /\ trouble = {} /\ shown = 0 /\ clicks = 0 /\ Agree(0)
  /\ \A p \in posts : p.id \in 1..clicks /\ \A q \in posts : p.id = q.id => p = q
  /\ trouble = {} => Chain

LlmInv == LlmTypes /\ CallInv /\ ThumbInv

LEMMA LlmInvInit == LlmInit => LlmInv
<1> SUFFICES ASSUME LlmInit PROVE LlmInv
  OBVIOUS
<1>1. CallTypes /\ CallInv
  BY LlmCallInit
<1>2. ThumbTypes
  BY DEF LlmInit, ThumbTypes, Score
<1>3. Agree(0) /\ Waiting = {} /\ shown = 0 /\ posts = {} /\ trouble = {} /\ clicks = 0
  BY DEF LlmInit, Agree, Waiting
<1>4. Chain
  BY <1>3 DEF Chain
<1> QED
  BY <1>1, <1>2, <1>3, <1>4 DEF LlmInv, LlmTypes, ThumbInv

\* Until the answer is shown nobody has clicked, and a call adds a row without a score.
LEMMA BeforeThumb ==
  ASSUME LlmInv, step # "shown", UNCHANGED thumbVars,
         \/ UNCHANGED trail
         \/ call \in 1..MaxCalls /\
            trail' = [trail EXCEPT ![call] = @ \cup {AuditRow}]
  PROVE  ThumbTypes' /\ ThumbInv'
<1>1. /\ posts' = {} /\ trouble' = {} /\ shown' = 0 /\ clicks' = 0 /\ Agree(0)
  BY DEF LlmInv, ThumbInv, thumbVars
<1>2. /\ trail \in [1..MaxCalls -> SUBSET RowType] /\ attempt \in Nat
  BY DEF LlmInv, LlmTypes, CallTypes, ThumbTypes
<1>3. trail' \in [1..MaxCalls -> SUBSET RowType] /\ Agree(0)'
  <2>1. CASE UNCHANGED trail
    BY <1>1, <1>2, <2>1 DEF Agree
  <2>2. CASE /\ call \in 1..MaxCalls
             /\ trail' = [trail EXCEPT ![call] = @ \cup {AuditRow}]
    <3> DEFINE row == AuditRow
    <3>1. row \in RowType /\ row.score = 0
      BY <1>2 DEF RowType, Score, AuditRow
    <3> HIDE DEF row
    <3>2. trail' = [trail EXCEPT ![call] = @ \cup {row}]
      BY <2>2 DEF row
    <3>3. trail'[call] = trail[call] \cup {row}
          /\ \A c \in 1..MaxCalls : c # call => trail'[c] = trail[c]
      BY <1>2, <2>2, <3>2
    <3>4. Agree(0)'
      BY <1>1, <3>1, <3>3 DEF Agree
    <3> QED
      BY <1>2, <2>2, <3>1, <3>2, <3>4
  <2> QED
    BY <2>1, <2>2
<1>4. Waiting' = {} /\ Chain'
  BY <1>1, <1>3 DEF Waiting, Chain
<1> QED
  BY <1>1, <1>3, <1>4 DEF ThumbTypes, ThumbInv, Score

\* A click on a thumb comes after all that are waiting.
LEMMA ClickStep ==
  ASSUME LlmInv, NEW score \in {1, -1}, SetFeedback(score)
  PROVE  LlmInv'
<1> DEFINE next == IF shown = score THEN 0 ELSE score
           new == [id |-> clicks + 1, prior |-> shown, next |-> next, at |-> "sent"]
<1>1. /\ step = "shown" /\ shown' = next /\ posts' = posts \cup {new}
      /\ clicks' = clicks + 1 /\ UNCHANGED <<callVars, trouble>>
  BY DEF SetFeedback
<1>2. CallTypes' /\ CallInv'
  BY <1>1, SameCall DEF LlmInv
<1>3. /\ shown \in Score /\ posts \subseteq Post /\ clicks \in Nat
      /\ trail \in [1..MaxCalls -> SUBSET RowType]
  BY DEF LlmInv, LlmTypes, ThumbTypes
<1>4. /\ new \in Post /\ new.id = clicks + 1 /\ new.prior = shown /\ new.next = next
      /\ new.at = "sent" /\ next \in Score
  BY <1>3 DEF Post, Score
<1> HIDE DEF new, next
<1>5. ThumbTypes'
  BY <1>1, <1>3, <1>4 DEF ThumbTypes, callVars
<1>6. Waiting' = Waiting \cup {new} /\ \A p \in posts : p.id \in 1..clicks /\ p.id < new.id
  BY <1>1, <1>3, <1>4 DEF Waiting, LlmInv, ThumbInv
<1>7. Waiting \subseteq posts /\ \A p \in Waiting : p.id \in Nat
  BY <1>3 DEF Waiting, Post
<1>8. \A p \in posts' : p.id \in 1..clicks' /\ \A q \in posts' : p.id = q.id => p = q
  <2>1. \A p, q \in posts : p.id = q.id => p = q
    BY DEF LlmInv, ThumbInv
  <2> QED
    BY <1>1, <1>3, <1>4, <1>6, <2>1 DEF Post
<1>9. ASSUME trouble = {} PROVE Chain'
  <2>1. Chain
    BY <1>9 DEF LlmInv, ThumbInv
  <2>2. \A v : Agree(v)' = Agree(v)
    BY <1>1 DEF Agree, callVars
  <2>3. Waiting' # {}
    BY <1>6
  <2>4. ASSUME NEW p \in Waiting', \A q \in Waiting' : p.id <= q.id
        PROVE  Agree(p.prior)'
    <3>1. CASE p = new
      <4>1. Waiting = {}
        BY <1>3, <1>4, <1>6, <1>7, <2>4, <3>1
      <4> QED
        BY <1>4, <2>1, <2>2, <3>1, <4>1 DEF Chain
    <3>2. CASE p # new
      BY <1>6, <2>1, <2>2, <2>4, <3>2 DEF Chain
    <3> QED
      BY <3>1, <3>2
  <2>5. ASSUME NEW p \in Waiting', \A q \in Waiting' : q.id <= p.id
        PROVE  shown' = p.next
    <3>1. p = new
      BY <1>3, <1>4, <1>6, <1>7, <2>5
    <3> QED
      BY <1>1, <1>4, <3>1
  <2>6. ASSUME NEW p \in Waiting', NEW q \in Waiting', p.id < q.id,
               \A w \in Waiting' : w.id <= p.id \/ q.id <= w.id
        PROVE  q.prior = p.next
    <3>1. p # new /\ p \in Waiting
      BY <1>3, <1>4, <1>6, <1>7, <2>6
    <3>2. CASE q = new
      <4>1. \A w \in Waiting : w.id <= p.id
        BY <1>3, <1>4, <1>6, <1>7, <2>6, <3>1, <3>2
      <4> QED
        BY <1>4, <2>1, <3>1, <3>2, <4>1 DEF Chain
    <3>3. CASE q # new
      BY <1>6, <2>1, <2>6, <3>1, <3>3 DEF Chain
    <3> QED
      BY <3>2, <3>3
  <2> QED
    BY <2>3, <2>4, <2>5, <2>6 DEF Chain
<1>10. step' = "shown" /\ trouble' = trouble
  BY <1>1 DEF callVars
<1> QED
  BY <1>2, <1>5, <1>8, <1>9, <1>10 DEF LlmInv, LlmTypes, ThumbInv

\* A waiting post goes, so that its neighbours meet: the first is recorded, or the last
\* fails and the browser goes back to what it showed before.
LEMMA ChainStep ==
  ASSUME Chain, posts \subseteq Post, NEW p \in Waiting,
         \A q, w \in posts : q.id = w.id => q = w,
         Waiting' = Waiting \ {p},
         \/ (\A q \in Waiting : p.id <= q.id) /\ Agree(p.next)' /\ shown' = shown
         \/ (\A q \in Waiting : q.id <= p.id) /\ shown' = p.prior /\ UNCHANGED trail
  PROVE  Chain'
<1>1. /\ Waiting \subseteq posts /\ \A q \in Waiting : q.id \in Nat
  BY DEF Waiting, Post
<1>2. CASE (\A q \in Waiting : p.id <= q.id) /\ Agree(p.next)' /\ shown' = shown
  <2>1. ASSUME Waiting' = {} PROVE Agree(shown)'
    <3>1. \A q \in Waiting : q = p
      BY <2>1
    <3>2. shown = p.next
      BY <1>1, <3>1 DEF Chain
    <3> QED
      BY <1>2, <3>2
  <2>2. ASSUME NEW q \in Waiting', \A w \in Waiting' : q.id <= w.id
        PROVE  Agree(q.prior)'
    <3>1. q \in Waiting /\ q # p /\ p.id < q.id
      BY <1>1, <1>2
    <3>2. \A w \in Waiting : w.id <= p.id \/ q.id <= w.id
      BY <1>1, <2>2
    <3>3. q.prior = p.next
      BY <3>1, <3>2 DEF Chain
    <3> QED
      BY <1>2, <3>3
  <2>3. ASSUME NEW q \in Waiting', \A w \in Waiting' : w.id <= q.id
        PROVE  shown' = q.next
    <3>1. \A w \in Waiting : w.id <= q.id
      BY <1>1, <1>2, <2>3
    <3> QED
      BY <1>2, <3>1 DEF Chain
  <2>4. ASSUME NEW q \in Waiting', NEW u \in Waiting', q.id < u.id,
               \A w \in Waiting' : w.id <= q.id \/ u.id <= w.id
        PROVE  u.prior = q.next
    <3>1. \A w \in Waiting : w.id <= q.id \/ u.id <= w.id
      BY <1>1, <1>2, <2>4
    <3> QED
      BY <2>4, <3>1 DEF Chain
  <2> QED
    BY <2>1, <2>2, <2>3, <2>4 DEF Chain
<1>3. CASE (\A q \in Waiting : q.id <= p.id) /\ shown' = p.prior /\ UNCHANGED trail
  <2>0. \A v : Agree(v)' = Agree(v)
    BY <1>3 DEF Agree
  <2>1. ASSUME Waiting' = {} PROVE Agree(shown)'
    <3>1. \A q \in Waiting : p.id <= q.id
      BY <1>1, <2>1
    <3>2. Agree(p.prior)
      BY <3>1 DEF Chain
    <3> QED
      BY <1>3, <2>0, <3>2
  <2>2. ASSUME NEW q \in Waiting', \A w \in Waiting' : q.id <= w.id
        PROVE  Agree(q.prior)'
    <3>1. \A w \in Waiting : q.id <= w.id
      BY <1>1, <1>3, <2>2
    <3> QED
      BY <2>0, <3>1 DEF Chain
  <2>3. ASSUME NEW q \in Waiting', \A w \in Waiting' : w.id <= q.id
        PROVE  shown' = q.next
    <3>1. q \in Waiting /\ q # p /\ q.id < p.id
      BY <1>1, <1>3
    <3>2. \A w \in Waiting : w.id <= q.id \/ p.id <= w.id
      BY <1>1, <2>3
    <3>3. p.prior = q.next
      BY <3>1, <3>2 DEF Chain
    <3> QED
      BY <1>3, <3>3
  <2>4. ASSUME NEW q \in Waiting', NEW u \in Waiting', q.id < u.id,
               \A w \in Waiting' : w.id <= q.id \/ u.id <= w.id
        PROVE  u.prior = q.next
    <3>1. \A w \in Waiting : w.id <= q.id \/ u.id <= w.id
      BY <1>1, <1>3, <2>4
    <3> QED
      BY <2>4, <3>1 DEF Chain
  <2> QED
    BY <2>1, <2>2, <2>3, <2>4 DEF Chain
<1> QED
  BY <1>2, <1>3

\* Whatever becomes of a post, the call whose answer is shown is over.
LEMMA PostFacts ==
  ASSUME LlmInv, NEW p \in posts
  PROVE  /\ step = "shown" /\ p \in Post /\ posts \subseteq Post /\ clicks \in Nat /\ shown \in Score
         /\ p.id \in 1..clicks /\ \A q \in posts : q.id \in 1..clicks
         /\ \A q, w \in posts : q.id = w.id => q = w
         /\ trail \in [1..MaxCalls -> SUBSET RowType]
         /\ trouble = {} => Chain
BY DEF LlmInv, LlmTypes, ThumbTypes, ThumbInv

\* A post is recorded: every row gets its score.
LEMMA RecordStep ==
  ASSUME LlmInv, NEW p \in posts, RecordFeedback(p)
  PROVE  LlmInv'
<1> DEFINE seen == [p EXCEPT !.at = "recorded"]
<1>1. /\ p.at = "sent" /\ posts' = (posts \ {p}) \cup {seen}
      /\ trail' = [c \in 1..MaxCalls |-> {Scored(row, p.next) : row \in trail[c]}]
      /\ trouble' = trouble \cup {"overtaken" : q \in {q \in posts : q.at = "sent" /\ q.id < p.id}}
      /\ UNCHANGED <<account, call, agent, step, attempt, sends, told, log, shown, clicks>>
  BY DEF RecordFeedback
<1>2. seen \in Post /\ seen.id = p.id /\ seen.at = "recorded"
  BY PostFacts DEF Post
<1> HIDE DEF seen
<1>3. \A row \in RowType :
        /\ Scored(row, p.next) \in RowType
        /\ Scored(row, p.next).score = IF Scored(row, p.next).session THEN p.next ELSE 0
  <2>1. p.next \in Score
    BY PostFacts DEF Post
  <2> QED
    BY <2>1 DEF RowType, Scored
<1>4. trail' \in [1..MaxCalls -> SUBSET RowType] /\ Agree(p.next)'
  <2>1. ASSUME NEW c \in 1..MaxCalls, NEW row \in trail'[c]
        PROVE  row \in RowType /\ row.score = IF row.session THEN p.next ELSE 0
    <3>1. PICK old \in trail[c] : row = Scored(old, p.next)
      BY <1>1, <2>1
    <3>2. old \in RowType
      BY PostFacts
    <3> QED
      BY <1>3, <3>1, <3>2
  <2>2. \A c \in 1..MaxCalls : trail'[c] \subseteq RowType
    BY <2>1
  <2>3. trail' \in [1..MaxCalls -> SUBSET RowType]
    BY <1>1, <2>2
  <2> QED
    BY <2>1, <2>3 DEF Agree
<1>5. CallTypes'
  BY <1>1 DEF LlmInv, LlmTypes, CallTypes
<1>6. CallInv'
  <2>1. \A c \in 1..MaxCalls : c > call' => trail'[c] = {}
    BY <1>1 DEF LlmInv, CallInv
  <2>2. step' = "shown" /\ told' \notin {"gone"} /\ ~Ended'
    BY <1>1, PostFacts DEF LlmInv, CallInv, Over, Ended
  <2> QED
    BY <2>1, <2>2 DEF CallInv, UnderWay, Over, Ended
<1>7. ThumbTypes'
  BY <1>1, <1>2, <1>4, PostFacts DEF ThumbTypes
<1>8. \A q \in posts' : q.id \in 1..clicks' /\ \A w \in posts' : q.id = w.id => q = w
  BY <1>1, <1>2, PostFacts
<1>9. ASSUME trouble' = {} PROVE Chain'
  <2>1. trouble = {} /\ \A q \in posts : ~(q.at = "sent" /\ q.id < p.id)
    BY <1>1, <1>9
  <2>2. p \in Waiting /\ Waiting' = Waiting \ {p}
    BY <1>1, <1>2 DEF Waiting
  <2>3. \A q \in Waiting : p.id <= q.id
    BY <2>1, PostFacts DEF Waiting
  <2> QED
    BY <1>1, <1>4, <2>1, <2>2, <2>3, PostFacts, ChainStep
<1> QED
  BY <1>1, <1>5, <1>6, <1>7, <1>8, <1>9, PostFacts DEF LlmInv, LlmTypes, ThumbInv

\* The browser hears that a post was recorded.
LEMMA RecordedStep ==
  ASSUME LlmInv, NEW p \in posts, Recorded(p)
  PROVE  LlmInv'
<1>1. /\ p.at = "recorded" /\ posts' = posts \ {p} /\ UNCHANGED <<callVars, shown, clicks, trouble>>
  BY DEF Recorded
<1>2. CallTypes' /\ CallInv' /\ UNCHANGED <<step, trail>>
  BY <1>1, SameCall DEF LlmInv, callVars
<1>3. Waiting' = Waiting /\ \A v : Agree(v)' = Agree(v)
  BY <1>1, <1>2 DEF Waiting, Agree
<1>4. Chain' = Chain
  BY <1>1, <1>3 DEF Chain
<1>5. ThumbTypes'
  BY <1>1, <1>2 DEF LlmInv, LlmTypes, ThumbTypes
<1> QED
  BY <1>1, <1>2, <1>4, <1>5, PostFacts DEF LlmInv, LlmTypes, ThumbInv

\* The browser hears that a post failed, or hears nothing.
LEMMA FailedStep ==
  ASSUME LlmInv, NEW p \in posts, FailPost(p) \/ LoseAnswer(p)
  PROVE  LlmInv'
<1>1. PICK troubles : /\ RollBack(p, troubles) /\ troubles \in {{}, {"unanswered"}}
                      /\ troubles = {} => p.at = "sent"
  BY DEF FailPost, LoseAnswer
<1>2. /\ shown' = IF shown = p.next THEN p.prior ELSE shown
      /\ posts' = posts \ {p}
      /\ trouble' = trouble \cup troubles \cup (IF p.id = clicks THEN {} ELSE {"outdated"})
      /\ UNCHANGED <<callVars, clicks>>
  BY <1>1 DEF RollBack
<1>3. CallTypes' /\ CallInv' /\ UNCHANGED <<step, trail>>
  BY <1>2, SameCall DEF LlmInv, callVars
<1>4. ThumbTypes'
  <2>1. shown' \in Score
    BY <1>2, PostFacts DEF Post
  <2> QED
    BY <1>2, <1>3, <2>1, PostFacts DEF ThumbTypes
<1>5. ASSUME trouble' = {} PROVE Chain'
  <2>1. trouble = {} /\ troubles = {} /\ p.id = clicks /\ p.at = "sent"
    BY <1>1, <1>2, <1>5
  <2>2. p \in Waiting /\ Waiting' = Waiting \ {p}
    BY <1>2, <2>1 DEF Waiting
  <2>3. \A q \in Waiting : q.id <= p.id
    BY <2>1, PostFacts DEF Waiting
  <2>4. shown = p.next
    BY <2>1, <2>2, <2>3, PostFacts DEF Chain
  <2>5. shown' = p.prior
    BY <1>2, <2>4
  <2> QED
    BY <1>3, <2>1, <2>2, <2>3, <2>5, PostFacts, ChainStep
<1> QED
  BY <1>2, <1>3, <1>4, <1>5, PostFacts DEF LlmInv, LlmTypes, ThumbInv

\* The answer is shown.
LEMMA ShowStep == ASSUME LlmInv, Show PROVE LlmInv'
<1>1. /\ step = "idle" /\ step' = "shown" /\ told' = "none" /\ log' = NoLog /\ attempt' = 0
      /\ sends' = 0 /\ agent' = "none" /\ UNCHANGED <<account, call, trail, thumbVars>>
  BY DEF Show
<1>2. CallTypes'
  BY <1>1 DEF LlmInv, LlmTypes, CallTypes, NoLog, Log, Agents
<1>3. CallInv'
  BY <1>1 DEF LlmInv, CallInv, UnderWay, Over, Ended
<1>4. ThumbTypes'
  BY <1>1 DEF LlmInv, LlmTypes, ThumbTypes, thumbVars
<1>5. Waiting' = {} /\ posts' = {} /\ Agree(shown)'
  BY <1>1 DEF LlmInv, ThumbInv, Waiting, Agree, thumbVars
<1>6. Chain'
  BY <1>5 DEF Chain
<1> QED
  BY <1>1, <1>2, <1>3, <1>4, <1>5, <1>6 DEF LlmInv, LlmTypes, ThumbInv

LEMMA LlmInvStep == LlmInv /\ [LlmNext]_llmVars => LlmInv'
<1> SUFFICES ASSUME LlmInv, [LlmNext]_llmVars PROVE LlmInv'
  OBVIOUS
<1> DEFINE start == Invoke \/ Unconfigured \/ Retry
           flight == \/ Respond \/ RespondUnreadable \/ Deny
                     \/ \E numbered \in BOOLEAN : RefuseRequest(numbered)
           resend == TooLate \/ \E numbered \in BOOLEAN : Busy(numbered)
           end == WriteAuditRow \/ FailAuditRow \/ SkipAuditRow \/ Leave
<1>1. CASE start \/ flight \/ resend \/ end
  <2>1. CallTypes' /\ CallInv'
    <3>1. CASE resend
      BY <3>1, ResendStep DEF LlmInv, TooLate, Busy
    <3> QED
      BY <1>1, <3>1, StartStep, FlightStep, EndStep DEF LlmInv
  <2>2. step # "shown"
    BY <1>1 DEF Invoke, Unconfigured, Retry, Respond, RespondUnreadable, Deny, RefuseRequest,
                TooLate, Busy, Resend, WriteAuditRow, FailAuditRow, SkipAuditRow, Leave
  <2>3. UNCHANGED thumbVars
    BY <1>1 DEF Invoke, Unconfigured, Retry, Respond, RespondUnreadable, Deny, RefuseRequest,
                TooLate, Busy, Resend, Raise, WriteAuditRow, FailAuditRow, SkipAuditRow, Unaudited,
                Leave
  <2>4. \/ UNCHANGED trail
        \/ /\ step = "audit"
           /\ trail' = [trail EXCEPT ![call] = @ \cup {AuditRow}]
    BY <1>1 DEF Invoke, Unconfigured, Retry, Respond, RespondUnreadable, Deny, RefuseRequest,
                TooLate, Busy, Resend, Raise, WriteAuditRow, FailAuditRow, SkipAuditRow, Unaudited,
                Leave
  <2>5. step = "audit" => call \in 1..MaxCalls
    BY DEF LlmInv, LlmTypes, CallTypes, CallInv, UnderWay
  <2>6. ThumbTypes' /\ ThumbInv'
    BY <2>2, <2>3, <2>4, <2>5, BeforeThumb
  <2> QED
    BY <2>1, <2>6 DEF LlmInv, LlmTypes
<1>2. CASE Show
  BY <1>2, ShowStep
<1>3. ASSUME NEW score \in {1, -1}, SetFeedback(score) PROVE LlmInv'
  BY <1>3, ClickStep
<1>4. ASSUME NEW p \in posts, RecordFeedback(p) \/ Recorded(p) \/ FailPost(p) \/ LoseAnswer(p)
      PROVE  LlmInv'
  BY <1>4, RecordStep, RecordedStep, FailedStep
<1>5. CASE UNCHANGED llmVars
  <2>1. CallTypes' /\ CallInv' /\ UNCHANGED <<step, trail, shown, posts, clicks, trouble>>
    BY <1>5, SameCall DEF LlmInv, llmVars, callVars, thumbVars
  <2>2. Chain' = Chain /\ \A v : Agree(v)' = Agree(v)
    BY <2>1 DEF Chain, Agree, Waiting
  <2> QED
    BY <2>1, <2>2 DEF LlmInv, LlmTypes, ThumbTypes, ThumbInv
<1> QED
  BY <1>1, <1>2, <1>3, <1>4, <1>5 DEF LlmNext

LEMMA LlmInvHolds == LlmSpec => []LlmInv
BY LlmInvInit, LlmInvStep, PTL DEF LlmSpec

\* LLMClient.invoke: however its attempts and the library's requests end, its caller is
\* told the truth and what was paid for is in the audit log once, or accounted for.
THEOREM CallsAccountedHold == LlmSpec => []CallsAccounted
<1>1. LlmInv => CallsAccounted
  BY DEF LlmInv, CallInv, Over, CallsAccounted
<1> QED
  BY <1>1, LlmInvHolds, PTL

\* The thumb: however many clicks, posts and failures overlap, the rows have the score
\* that the browser shows, but for the named races.
THEOREM FeedbackAgreesHolds == LlmSpec => []FeedbackAgrees
<1>1. LlmInv => FeedbackAgrees
  BY DEF LlmInv, ThumbInv, Chain, Waiting, Agree, FeedbackAgrees
<1> QED
  BY <1>1, LlmInvHolds, PTL

-----------------------------------------------------------------------------
(***************************************************************************)
(* CubeMetrics, for every number of workers and requests, every TTL, any   *)
(* delay of Cube and any faults: how old what is served may be, and whose  *)
(* rows it is.                                                             *)
(*                                                                         *)
(* A copy is no further out of date than its age and what it was when it   *)
(* was made: at most CubeDelay for /meta and for rows, a CubeTTL more for  *)
(* the catalog, which is made of /meta, and one more for a copy that a     *)
(* worker took from Redis.                                                 *)
(***************************************************************************)

Stale == Nat \cup {Current}
Copies == [stale : Stale, of : Asked \cup {NoQuery}, age : Nat]

\* A copy holds one of these queries, is no older than the cache keeps it, and was at
\* most so much out of date when it was made.
Aged(copy, from, since, last) ==
  /\ copy \in Copies
  /\ copy # NoCopy => copy.of \in from /\ copy.age <= last /\ copy.stale <= copy.age + since
\* Copies of a worker may be made of the ones in Redis, but not the other way round.
Since(p, since) == IF p = "redis" THEN since ELSE since + CubeTTL - 1
Last(p) == IF p = "redis" THEN CubeTTL - 1 ELSE CubeTTL
Cached(cache, from, since) ==
  cache \in [Places -> Copies] /\ \A p \in Places : Aged(cache[p], from, Since(p, since), Last(p))

JobType ==
  [host : Host \cup {"none"}, query : Asked \cup {NoQuery}, stale : Stale, wait : Nat,
   pc : {"idle", "meta", "parse", "load", "flatten"}]
JobOK(a, of) ==
  /\ a \in JobType
  /\ IF a.pc = "idle" THEN a = NoJob ELSE a.host \in Host
  /\ a.pc \in {"idle", "meta", "load"} => a.stale = Current /\ a.wait = 0
  /\ a.stale <= a.wait /\ a.wait <= CubeDelay
  /\ a.pc \in {"load", "flatten"} \/ (of = "query" /\ a.pc # "idle") => a.query \in Asked
JobsOK ==
  /\ traffic \in {"list", "query"} /\ job \in [Slot -> JobType]
  /\ \A r \in Slot : JobOK(job[r], traffic)

MetaOK ==
  meta \in [Host -> Copies] /\ \A h \in Host : Aged(meta[h], {NoQuery}, CubeDelay, CubeTTL - 1)
CatalogOK == Cached(catalog, {NoQuery}, CubeTTL - 1 + CubeDelay)
ResultsOK == Cached(results, Asked, CubeDelay)
CubeInv == MetaOK /\ CatalogOK /\ ResultsOK /\ JobsOK /\ MetricsServed

LEMMA CubeBounds ==
  /\ CubeTTL \in Nat \ {0} /\ CubeTTL - 1 \in Nat /\ CubeDelay \in Nat /\ CubeTTL - 1 + CubeDelay \in Nat
  /\ Current = -1 /\ Stale \subseteq Int /\ \A n \in Stale : n >= -1
BY CubeAssumption DEF Current, Stale

-----------------------------------------------------------------------------
\* Copies.
LEMMA CopyType ==
  ASSUME NEW copy \in Copies
  PROVE  /\ copy.stale \in Stale /\ copy.stale \in Int /\ copy.stale >= -1
         /\ copy.age \in Nat /\ copy.of \in Asked \cup {NoQuery}
<1>1. copy.stale \in Stale /\ copy.age \in Nat /\ copy.of \in Asked \cup {NoQuery}
  BY DEF Copies
<1> QED
  BY <1>1, CubeBounds

LEMMA NoCopyAged ==
  ASSUME NEW from, NEW since, NEW last
  PROVE  NoCopy \in Copies /\ Aged(NoCopy, from, since, last)
<1>1. CubeTTL + 1 \in Nat /\ Current \in Stale /\ NoQuery \in Asked \cup {NoQuery}
  BY CubeBounds DEF Stale
<1>2. NoCopy \in Copies
  BY <1>1 DEF NoCopy, Copies
<1> QED
  BY <1>2 DEF Aged

LEMMA CopyAged ==
  ASSUME NEW stale \in Stale, NEW of \in Asked \cup {NoQuery}, NEW from, of \in from,
         NEW since \in Int, stale <= since, NEW last \in Nat
  PROVE  /\ Copy(stale, of) \in Copies /\ Aged(Copy(stale, of), from, since, last)
         /\ Copy(stale, of).of = of /\ Copy(stale, of) # NoCopy
<1>1. Copy(stale, of).age = 0 /\ NoCopy.age = CubeTTL + 1
  BY DEF Copy, NoCopy
<1>2. Copy(stale, of) # NoCopy
  BY <1>1, CubeBounds
<1> QED
  BY <1>2, CubeBounds DEF Copy, Copies, Aged

LEMMA AgedMore ==
  ASSUME NEW copy, NEW from, NEW since \in Int, NEW last \in Int, NEW since2 \in Int, NEW last2 \in Int,
         Aged(copy, from, since, last), since <= since2, last <= last2
  PROVE  Aged(copy, from, since2, last2)
<1>1. CASE copy = NoCopy
  BY <1>1, NoCopyAged
<1>2. CASE copy # NoCopy
  <2>1. /\ copy \in Copies /\ copy.stale \in Int /\ copy.age \in Nat
        /\ copy.of \in from /\ copy.age <= last /\ copy.stale <= copy.age + since
    BY <1>2, CopyType DEF Aged
  <2>2. copy.age <= last2 /\ copy.stale <= copy.age + since2
    BY <2>1
  <2> QED
    BY <2>1, <2>2 DEF Aged
<1> QED
  BY <1>1, <1>2

LEMMA OlderAged ==
  ASSUME NEW copy, NEW from, NEW since \in Int, NEW last \in Nat, last <= CubeTTL,
         Aged(copy, from, since, last)
  PROVE  Older(copy, last) \in Copies /\ Aged(Older(copy, last), from, since, last)
<1>1. CASE copy.age >= last
  BY <1>1, NoCopyAged DEF Older
<1>2. CASE ~(copy.age >= last)
  <2> DEFINE aged == [copy EXCEPT !.age = @ + 1]
             older == [aged EXCEPT !.stale = Staler(@)]
  <2>1. /\ copy \in Copies /\ copy.age \in Nat /\ copy.stale \in Stale /\ copy.stale \in Int
        /\ copy # NoCopy => copy.of \in from /\ copy.age <= last /\ copy.stale <= copy.age + since
    BY CopyType DEF Aged
  <2>2. Staler(copy.stale) \in Stale /\ Staler(copy.stale) \in Int /\ Staler(copy.stale) <= copy.stale + 1
        /\ (copy.stale = Current => Staler(copy.stale) = Current)
    BY <2>1, CubeBounds DEF Staler, Stale, Current
  <2>3. /\ aged \in Copies /\ aged.age = copy.age + 1 /\ aged.stale = copy.stale /\ aged.of = copy.of
    BY <2>1 DEF Copies
  <2>4. Older(copy, last) = older
    BY <1>2 DEF Older
  <2> HIDE DEF aged
  <2>5. /\ older \in Copies /\ older.age = copy.age + 1 /\ older.stale = Staler(copy.stale)
        /\ older.of = copy.of
    BY <2>2, <2>3 DEF Copies
  <2> HIDE DEF older
  <2>6. copy # NoCopy
    <3>1. NoCopy.age = CubeTTL + 1
      BY DEF NoCopy
    <3> QED
      BY <1>2, <3>1, CubeBounds
  <2>7. older.age <= last /\ older.stale <= older.age + since
    BY <1>2, <2>1, <2>2, <2>5, <2>6, CubeBounds
  <2> QED
    BY <2>1, <2>4, <2>5, <2>6, <2>7 DEF Aged
<1> QED
  BY <1>1, <1>2

LEMMA OutdatedAged ==
  ASSUME NEW copy, NEW from, NEW since \in Nat, NEW last, Aged(copy, from, since, last)
  PROVE  Outdated(copy) \in Copies /\ Aged(Outdated(copy), from, since, last)
<1> DEFINE stale == IF copy.stale = Current /\ copy # NoCopy THEN 0 ELSE copy.stale
           new == [copy EXCEPT !.stale = stale]
<1>1. copy \in Copies /\ copy.stale \in Stale /\ copy.stale \in Int /\ copy.age \in Nat
  BY CopyType DEF Aged
<1>2. stale \in Stale /\ stale \in Int /\ (stale = copy.stale \/ stale = 0)
      /\ (copy = NoCopy => stale = copy.stale)
  BY <1>1 DEF Stale
<1>3. Outdated(copy) = new
  BY DEF Outdated
<1> HIDE DEF stale
<1>4. new \in Copies /\ new.stale = stale /\ new.age = copy.age /\ new.of = copy.of
  BY <1>1, <1>2 DEF Copies
<1> HIDE DEF new
<1>5. CASE copy = NoCopy
  <2>1. new = NoCopy
    BY <1>1, <1>2, <1>5 DEF Copies, new
  <2> QED
    BY <1>3, <2>1, NoCopyAged
<1>6. CASE copy # NoCopy
  <2>1. copy.of \in from /\ copy.age <= last /\ copy.stale <= copy.age + since
    BY <1>6 DEF Aged
  <2>2. new.stale <= new.age + since
    BY <1>1, <1>2, <1>4, <2>1
  <2> QED
    BY <1>3, <1>4, <2>1, <2>2 DEF Aged
<1> QED
  BY <1>5, <1>6

\* What a worker sees is a copy that it may keep.
LEMMA SeenAged ==
  ASSUME NEW cache, NEW from \in {{NoQuery}, Asked}, NEW since \in Nat, Cached(cache, from, since),
         NEW h \in Host, NEW redis \in BOOLEAN
  PROVE  /\ Seen(cache, h, redis) \in Copies
         /\ Aged(Seen(cache, h, redis), from, Since(h, since), Last(h))
<1>1. /\ h \in Places /\ "redis" \in Places
      /\ \A p \in Places : cache[p] \in Copies /\ Aged(cache[p], from, Since(p, since), Last(p))
  BY DEF Cached, Places
<1>2. CASE cache[h] # NoCopy
  BY <1>1, <1>2 DEF Seen
<1>3. CASE cache[h] = NoCopy /\ redis /\ cache["redis"] # NoCopy
  <2> DEFINE of == cache["redis"]
  <2>1. Seen(cache, h, redis) = Copy(of.stale, of.of)
    BY <1>3 DEF Seen
  <2>2. /\ of.stale \in Stale /\ of.stale \in Int /\ of.age \in Nat /\ of.of \in Asked \cup {NoQuery}
        /\ of.of \in from /\ of.age <= CubeTTL - 1 /\ of.stale <= of.age + since
    BY <1>1, <1>3, CopyType DEF Aged, Since, Last
  <2>3. h # "redis"
    BY <1>3
  <2>4. of.stale <= Since(h, since) /\ Since(h, since) \in Int /\ Last(h) \in Nat
    BY <2>2, <2>3, CubeBounds DEF Since, Last
  <2> HIDE DEF of
  <2> QED
    BY <2>1, <2>2, <2>4, CopyAged
<1>4. CASE cache[h] = NoCopy /\ ~(redis /\ cache["redis"] # NoCopy)
  <2>1. Seen(cache, h, redis) = NoCopy
    BY <1>4 DEF Seen
  <2> QED
    BY <2>1, NoCopyAged
<1> QED
  BY <1>2, <1>3, <1>4

\* A worker keeps what it saw.
LEMMA HitCached ==
  ASSUME NEW cache, NEW from, NEW since, Cached(cache, from, since), NEW p \in Places,
         NEW copy \in Copies, Aged(copy, from, Since(p, since), Last(p))
  PROVE  Cached([cache EXCEPT ![p] = copy], from, since)
BY DEF Cached

LEMMA StoredCached ==
  ASSUME NEW cache, NEW from \in {{NoQuery}, Asked}, NEW since \in Nat, Cached(cache, from, since),
         NEW h \in Host, NEW redis \in BOOLEAN,
         NEW stale \in Stale, NEW of \in from, stale <= since
  PROVE  Cached(Stored(cache, h, Copy(stale, of), redis), from, since)
<1> DEFINE copy == Copy(stale, of)
<1>1. \A p \in Places : /\ Since(p, since) \in Int /\ since <= Since(p, since) /\ Last(p) \in Nat
  BY CubeBounds DEF Since, Last
<1>2. stale \in Int /\ of \in Asked \cup {NoQuery}
  BY CubeBounds
<1>3. \A p \in Places : copy \in Copies /\ Aged(copy, from, Since(p, since), Last(p))
  <2> SUFFICES ASSUME NEW p \in Places
               PROVE  copy \in Copies /\ Aged(copy, from, Since(p, since), Last(p))
    OBVIOUS
  <2>1. stale <= Since(p, since)
    BY <1>1, <1>2
  <2> QED
    BY <1>1, <1>2, <2>1, CopyAged
<1> HIDE DEF copy
<1>4. \A p \in Places : cache[p] \in Copies /\ Aged(cache[p], from, Since(p, since), Last(p))
  BY DEF Cached
<1>5. Stored(cache, h, copy, redis) = [p \in Places |-> IF p = h \/ (p = "redis" /\ redis) THEN copy ELSE cache[p]]
  BY DEF Stored
<1>6. Cached(Stored(cache, h, copy, redis), from, since)
  BY <1>3, <1>4, <1>5 DEF Cached
<1> QED
  BY <1>6 DEF copy

\* The list of every metric, and the rows of every query, may be served from a cache.
LEMMA ServedCopy ==
  ASSUME NEW copy, NEW from, NEW since \in Nat, NEW p \in Places, copy # NoCopy,
         Aged(copy, from, Since(p, since), Last(p))
  PROVE  copy.of \in from /\ copy.stale <= 2 * CubeTTL - 1 + since /\ copy.stale \in Int
<1>1. /\ copy.stale \in Int /\ copy.age \in Nat /\ copy.of \in from
      /\ copy.age <= Last(p) /\ copy.stale <= copy.age + Since(p, since)
  BY CopyType DEF Aged
<1> QED
  BY <1>1, CubeBounds DEF Since, Last

-----------------------------------------------------------------------------
\* Queries.
Orders == {<<"a", "b">>, <<"b", "a">>}
LEMMA AskedType ==
  ASSUME NEW sought \in Asked
  PROVE  /\ sought = [filter |-> sought.filter, order |-> sought.order, offset |-> sought.offset]
         /\ sought.filter \in {"North", "north"} /\ sought.order \in Orders
         /\ sought.offset \in {0, 1}
<1>1. sought \in [filter : {"North", "north"}, order : Orders, offset : {0, 1}]
  BY CubeAssumption DEF Orders
<1> QED
  BY <1>1

\* An order with its fields swapped, or not, is any other.
LEMMA Swap ==
  ASSUME NEW old \in Orders, NEW new \in Orders
  PROVE  \E swap \in {<<1, 2>>, <<2, 1>>} : new = [i \in 1..2 |-> old[swap[i]]]
<1>1. \A order \in Orders : order = [i \in 1..2 |-> IF i = 1 THEN order[1] ELSE order[2]]
  BY DEF Orders
<1>2. CASE new = old
  <2>1. old = [i \in 1..2 |-> old[<<1, 2>>[i]]]
    BY <1>1
  <2> QED
    BY <1>2, <2>1
<1>3. CASE new # old
  <2>1. new[1] = old[2] /\ new[2] = old[1]
    BY <1>3 DEF Orders
  <2>2. new = [i \in 1..2 |-> old[<<2, 1>>[i]]]
    BY <1>1, <2>1
  <2> QED
    BY <2>2
<1> QED
  BY <1>2, <1>3

LEMMA SameKey ==
  ASSUME NEW sought \in Asked, NEW of \in Asked, CacheKey(of) = CacheKey(sought)
  PROVE  /\ of.offset = sought.offset
         /\ \E f \in {"North", "north"}, swap \in {<<1, 2>>, <<2, 1>>} :
              of = [sought EXCEPT !.filter = f, !.order = [i \in 1..2 |-> @[swap[i]]]]
<1>1. of.offset = sought.offset
  BY DEF CacheKey
<1>2. PICK swap \in {<<1, 2>>, <<2, 1>>} : of.order = [i \in 1..2 |-> sought.order[swap[i]]]
  BY AskedType, Swap
<1> DEFINE order == [i \in 1..2 |-> sought.order[swap[i]]]
           cased == [sought EXCEPT !.filter = of.filter]
<1>3. cased = [filter |-> of.filter, order |-> sought.order, offset |-> sought.offset]
  BY AskedType
<1>4. of = [cased EXCEPT !.order = order]
  <2> HIDE DEF order, cased
  <2>1. of = [filter |-> of.filter, order |-> order, offset |-> sought.offset]
    BY <1>1, <1>2, AskedType DEF order
  <2>2. [cased EXCEPT !.order = order] =
          [filter |-> of.filter, order |-> order, offset |-> sought.offset]
    BY <1>3
  <2> QED
    BY <2>1, <2>2
<1>5. of = [sought EXCEPT !.filter = of.filter, !.order = [i \in 1..2 |-> @[swap[i]]]]
  BY <1>4
<1> QED
  BY <1>1, <1>5, AskedType

-----------------------------------------------------------------------------
\* Answers.
LEMMA Silent == Silence => MetricsServed'
<1> SUFFICES ASSUME Silence PROVE MetricsServed'
  OBVIOUS
<1>1. served'.kind = "none" /\ served'.stale = -1
  BY CubeBounds DEF Silence, NothingServed
<1> QED
  BY <1>1, CubeBounds DEF MetricsServed, ServedIsRecent, ServedIsAsked

LEMMA ServeList ==
  ASSUME NEW stale \in Int, stale <= 3 * CubeTTL + CubeDelay - 2, Serve("list", NoQuery, NoQuery, stale)
  PROVE  MetricsServed'
<1>1. served'.kind = "list" /\ served'.stale = stale
  BY DEF Serve
<1> QED
  BY <1>1 DEF MetricsServed, ServedIsRecent, ServedIsAsked

LEMMA ServeUnknown ==
  ASSUME NEW sought, NEW stale \in Int, stale <= CubeTTL + CubeDelay - 1,
         Serve("unknown", sought, NoQuery, stale)
  PROVE  MetricsServed'
<1>1. served'.kind = "unknown" /\ served'.stale = stale
  BY DEF Serve
<1> QED
  BY <1>1 DEF MetricsServed, ServedIsRecent, ServedIsAsked

LEMMA ServeRows ==
  ASSUME NEW sought \in Asked, NEW of \in Asked, CacheKey(of) = CacheKey(sought),
         NEW stale \in Int, stale <= 2 * CubeTTL + CubeDelay - 1, Serve("rows", sought, of, stale)
  PROVE  MetricsServed'
<1>1. served' = [kind |-> "rows", query |-> sought, of |-> of, stale |-> stale]
  BY DEF Serve
<1>2. served'.kind = "rows" /\ served'.query = sought /\ served'.of = of /\ served'.stale = stale
  BY <1>1
<1>3. ServedIsRecent'
  BY <1>2 DEF ServedIsRecent
<1>4. /\ served'.query \in Asked /\ served'.of \in Asked
      /\ CacheKey(served'.of) = CacheKey(served'.query)
  BY <1>2
<1>5. ServedIsAsked'
  <2>1. /\ served'.of.offset = served'.query.offset
        /\ \E f \in {"North", "north"}, swap \in {<<1, 2>>, <<2, 1>>} :
             served'.of = [served'.query EXCEPT !.filter = f, !.order = [i \in 1..2 |-> @[swap[i]]]]
    BY <1>4, SameKey, Zenon
  <2> QED
    BY <2>1, Zenon DEF ServedIsAsked
<1> QED
  BY <1>3, <1>5 DEF MetricsServed

-----------------------------------------------------------------------------
\* Requests.
LEMMA NoJobOK == \A of : JobOK(NoJob, of)
<1>1. NoJob \in JobType /\ NoJob.pc = "idle" /\ NoJob.stale = Current /\ NoJob.wait = 0
  BY DEF NoJob, JobType, Stale
<1> QED
  BY <1>1, CubeBounds DEF JobOK

LEMMA JobFacts ==
  ASSUME JobsOK, NEW r \in Slot
  PROVE  /\ job[r] \in JobType /\ job[r].stale \in Stale /\ job[r].stale \in Int /\ job[r].wait \in Nat
         /\ job[r].stale <= CubeDelay /\ JobOK(job[r], traffic)
         /\ job[r].pc # "idle" => job[r].host \in Host
         /\ job[r].query \in Asked \cup {NoQuery}
<1>1. JobOK(job[r], traffic) /\ job[r] \in JobType
  BY DEF JobsOK
<1>2. job[r].stale \in Stale /\ job[r].wait \in Nat /\ job[r].query \in Asked \cup {NoQuery}
  BY <1>1 DEF JobType
<1>3. job[r].stale \in Int /\ job[r].stale <= CubeDelay
  <2>1. job[r].stale <= job[r].wait /\ job[r].wait <= CubeDelay
    BY <1>1 DEF JobOK
  <2> QED
    BY <1>2, <2>1, CubeBounds DEF Stale
<1> QED
  BY <1>1, <1>2, <1>3 DEF JobOK

LEMMA DoneOK == ASSUME JobsOK, NEW r \in Slot, Done(r), traffic' = traffic PROVE JobsOK'
BY NoJobOK DEF JobsOK, JobOK, Done

LEMMA BecomeOK ==
  ASSUME JobsOK, NEW r \in Slot, NEW h \in Host, NEW sought \in Asked \cup {NoQuery},
         NEW onward \in {"meta", "load"}, traffic = "query" \/ onward = "load" => sought \in Asked,
         Become(r, h, sought, onward, Current), traffic' = traffic
  PROVE  JobsOK'
<1> DEFINE new == [host |-> h, query |-> sought, pc |-> onward, stale |-> Current, wait |-> 0]
<1>1. new \in JobType
  BY DEF JobType, Stale
<1>2. JobOK(new, traffic)
  BY <1>1, CubeBounds DEF JobOK
<1> HIDE DEF new
<1>3. job' = [job EXCEPT ![r] = new]
  BY DEF Become, new
<1> QED
  BY <1>1, <1>2, <1>3 DEF JobsOK

\* The caches of rows are asked, when the measures are known.
LEMMA LookUpStep ==
  ASSUME CubeInv, traffic' = traffic, NEW r \in Slot, NEW h \in Host, NEW sought \in Asked,
         NEW stale \in Int, stale <= CubeTTL + CubeDelay - 1, LookUp(r, h, sought, stale)
  PROVE  CatalogOK' /\ ResultsOK' /\ JobsOK' /\ MetricsServed'
<1>1. CASE Serve("unknown", sought, NoQuery, stale) /\ Done(r) /\ UNCHANGED <<catalog, results>>
  BY <1>1, ServeUnknown, DoneOK DEF CubeInv, CatalogOK, ResultsOK
<1>2. ASSUME NEW redis \in BOOLEAN,
             LET copy == Seen(results, h, redis)
                 hit  == copy # NoCopy /\ CacheKey(copy.of) = CacheKey(sought)
             IN /\ results' = IF hit THEN [results EXCEPT ![h] = copy] ELSE results
                /\ UNCHANGED catalog
                /\ IF hit
                   THEN Serve("rows", sought, copy.of, copy.stale) /\ Done(r)
                   ELSE Become(r, h, sought, "load", Current) /\ Silence
      PROVE  CatalogOK' /\ ResultsOK' /\ JobsOK' /\ MetricsServed'
  <2> DEFINE copy == Seen(results, h, redis)
             hit == copy # NoCopy /\ CacheKey(copy.of) = CacheKey(sought)
  <2>1. CatalogOK'
    BY <1>2 DEF CubeInv, CatalogOK
  <2>2. /\ copy \in Copies /\ Aged(copy, Asked, Since(h, CubeDelay), Last(h))
        /\ h \in Places /\ CubeDelay \in Nat
    BY SeenAged, CubeBounds DEF CubeInv, ResultsOK, Places
  <2>3. CASE hit
    <3>1. /\ results' = [results EXCEPT ![h] = copy] /\ Done(r)
          /\ Serve("rows", sought, copy.of, copy.stale)
      BY <1>2, <2>3
    <3> HIDE DEF copy
    <3>2. copy.of \in Asked /\ copy.stale \in Int /\ copy.stale <= 2 * CubeTTL - 1 + CubeDelay
      BY <2>2, <2>3, ServedCopy
    <3>3. ResultsOK'
      BY <2>2, <3>1, HitCached DEF CubeInv, ResultsOK
    <3>4. MetricsServed'
      BY <2>3, <3>1, <3>2, ServeRows, CubeBounds
    <3> QED
      BY <2>1, <3>1, <3>3, <3>4, DoneOK DEF CubeInv
  <2>4. CASE ~hit
    <3>1. UNCHANGED results /\ Become(r, h, sought, "load", Current) /\ Silence
      BY <1>2, <2>4
    <3> QED
      BY <2>1, <3>1, BecomeOK, Silent DEF CubeInv, ResultsOK
  <2> QED
    BY <2>3, <2>4
<1>3. RedisWorks \subseteq BOOLEAN
  BY DEF RedisWorks
<1> QED
  BY <1>1, <1>2, <1>3 DEF LookUp

\* The catalog is built.
LEMMA SummariseStep ==
  ASSUME CubeInv, NEW h \in Host, NEW stale \in Stale, stale <= CubeTTL - 1 + CubeDelay, Summarise(h, stale)
  PROVE  CatalogOK' /\ MetricsServed'
<1>1. PICK redis \in BOOLEAN :
        /\ catalog' = Stored(catalog, h, Copy(stale, NoQuery), redis)
        /\ Serve("list", NoQuery, NoQuery, stale)
  BY DEF Summarise, RedisWorks
<1>2. CatalogOK'
  BY <1>1, StoredCached, CubeBounds DEF CubeInv, CatalogOK
<1>3. stale \in Int /\ stale <= 3 * CubeTTL + CubeDelay - 2
  BY CubeBounds
<1> QED
  BY <1>1, <1>2, <1>3, ServeList

\* A copy of the catalog is kept, and served if there is one.
LEMMA CatalogHit ==
  ASSUME CubeInv, NEW h \in Host, NEW redis \in BOOLEAN,
         catalog' = [catalog EXCEPT ![h] = Seen(catalog, h, redis)]
  PROVE  /\ CatalogOK'
         /\ Seen(catalog, h, redis) # NoCopy /\ Serve("list", NoQuery, NoQuery, Seen(catalog, h, redis).stale)
              => MetricsServed'
<1> DEFINE copy == Seen(catalog, h, redis)
<1>1. /\ copy \in Copies /\ Aged(copy, {NoQuery}, Since(h, CubeTTL - 1 + CubeDelay), Last(h))
      /\ h \in Places
  BY SeenAged, CubeBounds DEF CubeInv, CatalogOK, Places
<1> HIDE DEF copy
<1>2. copy # NoCopy => copy.stale \in Int /\ copy.stale <= 3 * CubeTTL + CubeDelay - 2
  <2>1. copy # NoCopy => copy.stale \in Int /\ copy.stale <= 2 * CubeTTL - 1 + (CubeTTL - 1 + CubeDelay)
    BY <1>1, ServedCopy, CubeBounds
  <2> QED
    BY <2>1, CubeBounds
<1>3. CatalogOK'
  BY <1>1, HitCached DEF CubeInv, CatalogOK, copy
<1> QED
  BY <1>2, <1>3, ServeList DEF copy

LEMMA MetaFacts ==
  ASSUME CubeInv, NEW h \in Host
  PROVE  /\ meta[h].stale \in Stale /\ meta[h].stale \in Int
         /\ MetaFresh(h) => meta[h].stale <= CubeTTL - 1 + CubeDelay
<1>1. meta[h] \in Copies /\ Aged(meta[h], {NoQuery}, CubeDelay, CubeTTL - 1)
  BY DEF CubeInv, MetaOK
<1>2. NoCopy.age = CubeTTL + 1
  BY DEF NoCopy
<1>3. meta[h].stale \in Stale /\ meta[h].stale \in Int /\ meta[h].age \in Nat
  BY <1>1, CopyType
<1>4. ASSUME MetaFresh(h) PROVE meta[h].stale <= CubeTTL - 1 + CubeDelay
  <2>1. meta[h] # NoCopy
    BY <1>2, <1>4, CubeBounds DEF MetaFresh
  <2>2. meta[h].age <= CubeTTL - 1 /\ meta[h].stale <= meta[h].age + CubeDelay
    BY <1>1, <2>1 DEF Aged
  <2> QED
    BY <1>3, <2>2, CubeBounds
<1> QED
  BY <1>3, <1>4

LEMMA ListStep ==
  ASSUME CubeInv, traffic' = traffic, NEW r \in Slot, NEW h \in Host, NEW refresh \in BOOLEAN,
         ListMetrics(r, h, refresh)
  PROVE  CubeInv'
<1>1. UNCHANGED <<meta, results>> /\ traffic = "list"
  BY DEF ListMetrics
<1>2. MetaOK' /\ ResultsOK'
  BY <1>1 DEF CubeInv, MetaOK, ResultsOK
<1>3. PICK redis \in BOOLEAN :
        \/ /\ Seen(catalog, h, redis) # NoCopy
           /\ catalog' = [catalog EXCEPT ![h] = Seen(catalog, h, redis)]
           /\ Serve("list", NoQuery, NoQuery, Seen(catalog, h, redis).stale)
           /\ UNCHANGED job
        \/ /\ MetaFresh(h) /\ Summarise(h, meta[h].stale)
           /\ UNCHANGED job
        \/ /\ Become(r, h, NoQuery, "meta", Current) /\ Silence
           /\ UNCHANGED catalog
  BY DEF ListMetrics, RedisWorks
<1>4. JobsOK'
  <2>1. CASE UNCHANGED job
    BY <2>1 DEF CubeInv, JobsOK, JobOK
  <2>2. CASE Become(r, h, NoQuery, "meta", Current)
    BY <1>1, <2>2, BecomeOK DEF CubeInv
  <2> QED
    BY <1>3, <2>1, <2>2
<1>5. CatalogOK' /\ MetricsServed'
  <2>1. CASE UNCHANGED catalog /\ Silence
    BY <2>1, Silent DEF CubeInv, CatalogOK
  <2> QED
    BY <1>3, <2>1, CatalogHit, SummariseStep, MetaFacts
<1> QED
  BY <1>2, <1>4, <1>5 DEF CubeInv

LEMMA QueryStep ==
  ASSUME CubeInv, traffic' = traffic, NEW r \in Slot, NEW h \in Host, NEW sought \in Asked,
         QueryMetrics(r, h, sought)
  PROVE  CubeInv'
<1>1. UNCHANGED meta
  BY DEF QueryMetrics
<1>2. MetaOK'
  BY <1>1 DEF CubeInv, MetaOK
<1>3. CASE MetaFresh(h)
  <2>1. LookUp(r, h, sought, meta[h].stale)
    BY <1>3 DEF QueryMetrics
  <2>2. meta[h].stale \in Int /\ meta[h].stale <= CubeTTL + CubeDelay - 1
    BY <1>3, MetaFacts, CubeBounds
  <2> QED
    BY <1>2, <2>1, <2>2, LookUpStep DEF CubeInv
<1>4. CASE ~MetaFresh(h)
  <2>1. Become(r, h, sought, "meta", Current) /\ Silence /\ UNCHANGED <<catalog, results>>
    BY <1>4 DEF QueryMetrics
  <2>2. CatalogOK' /\ ResultsOK'
    BY <2>1 DEF CubeInv, CatalogOK, ResultsOK
  <2> QED
    BY <1>2, <2>1, <2>2, BecomeOK, Silent DEF CubeInv
<1> QED
  BY <1>3, <1>4

\* Cube's answer takes its time.
LEMMA AnswersStep ==
  ASSUME CubeInv, traffic' = traffic, NEW r \in Slot, CubeAnswers(r)
  PROVE  CubeInv'
<1> DEFINE onward == IF job[r].pc = "meta" THEN "parse" ELSE "flatten"
           new == [job[r] EXCEPT !.pc = onward]
<1>1. job[r].pc \in {"meta", "load"} /\ job' = [job EXCEPT ![r] = new] /\ Silence
  BY DEF CubeAnswers
<1>2. MetaOK' /\ CatalogOK' /\ ResultsOK'
  BY DEF CubeInv, CubeAnswers, MetaOK, CatalogOK, ResultsOK
<1>3. job[r] \in JobType /\ JobOK(job[r], traffic) /\ job[r].host \in Host
  BY <1>1, JobFacts DEF CubeInv
<1>4. onward \in {"parse", "flatten"} /\ (job[r].pc = "meta" <=> onward = "parse")
  OBVIOUS
<1> HIDE DEF onward
<1>5. /\ new \in JobType /\ new.pc = onward /\ new.host = job[r].host /\ new.query = job[r].query
      /\ new.stale = job[r].stale /\ new.wait = job[r].wait
  BY <1>3, <1>4 DEF JobType
<1> HIDE DEF new
<1>6. JobOK(new, traffic)
  BY <1>1, <1>3, <1>4, <1>5 DEF JobOK
<1>7. JobsOK'
  BY <1>1, <1>5, <1>6 DEF CubeInv, JobsOK
<1> QED
  BY <1>1, <1>2, <1>7, Silent DEF CubeInv

LEMMA ParseStep ==
  ASSUME CubeInv, traffic' = traffic, NEW r \in Slot, ParseMeta(r)
  PROVE  CubeInv'
<1> DEFINE h == job[r].host
           stale == job[r].stale
<1>1. /\ job[r].pc = "parse" /\ meta' = [meta EXCEPT ![h] = Copy(stale, NoQuery)]
      /\ traffic \in {"list", "query"}
  BY DEF ParseMeta, CubeInv, JobsOK
<1>2. h \in Host /\ stale \in Stale /\ stale \in Int /\ stale <= CubeDelay /\ JobOK(job[r], traffic)
  BY <1>1, JobFacts DEF CubeInv
<1>3. stale <= CubeTTL - 1 + CubeDelay /\ stale <= CubeTTL + CubeDelay - 1
  BY <1>2, CubeBounds
<1> HIDE DEF h, stale
<1>4. MetaOK'
  <2>1. Copy(stale, NoQuery) \in Copies /\ Aged(Copy(stale, NoQuery), {NoQuery}, CubeDelay, CubeTTL - 1)
    BY <1>2, CopyAged, CubeBounds
  <2> QED
    BY <1>1, <1>2, <2>1 DEF CubeInv, MetaOK
<1>5. CASE traffic = "list"
  <2>1. Summarise(h, stale) /\ Done(r) /\ UNCHANGED results
    BY <1>5 DEF ParseMeta, h, stale
  <2>2. CatalogOK' /\ MetricsServed'
    BY <1>2, <1>3, <2>1, SummariseStep
  <2> QED
    BY <1>4, <2>1, <2>2, DoneOK DEF CubeInv, ResultsOK
<1>6. CASE traffic = "query"
  <2>1. LookUp(r, h, job[r].query, stale)
    BY <1>6 DEF ParseMeta, h, stale
  <2>2. job[r].query \in Asked
    BY <1>1, <1>2, <1>6 DEF JobOK
  <2> QED
    BY <1>2, <1>3, <1>4, <2>1, <2>2, LookUpStep DEF CubeInv
<1> QED
  BY <1>1, <1>5, <1>6

LEMMA ReturnStep ==
  ASSUME CubeInv, traffic' = traffic, NEW r \in Slot, ReturnRows(r)
  PROVE  CubeInv'
<1> DEFINE h == job[r].host
           stale == job[r].stale
           sought == job[r].query
<1>1. PICK redis \in BOOLEAN : results' = Stored(results, h, Copy(stale, sought), redis)
  BY DEF ReturnRows, RedisWorks
<1>2. job[r].pc = "flatten" /\ Serve("rows", sought, sought, stale) /\ Done(r) /\ UNCHANGED <<meta, catalog>>
  BY DEF ReturnRows
<1>3. h \in Host /\ stale \in Stale /\ stale \in Int /\ stale <= CubeDelay /\ JobOK(job[r], traffic)
  BY <1>2, JobFacts DEF CubeInv
<1>4. sought \in Asked
  BY <1>2, <1>3 DEF JobOK
<1> HIDE DEF h, stale, sought
<1>5. MetaOK' /\ CatalogOK'
  BY <1>2 DEF CubeInv, MetaOK, CatalogOK
<1>6. ResultsOK'
  BY <1>1, <1>3, <1>4, StoredCached, CubeBounds DEF CubeInv, ResultsOK
<1>7. MetricsServed'
  <2>1. stale <= 2 * CubeTTL + CubeDelay - 1
    BY <1>3, CubeBounds
  <2> QED
    BY <1>2, <1>3, <1>4, <2>1, ServeRows
<1> QED
  BY <1>2, <1>5, <1>6, <1>7, DoneOK DEF CubeInv

LEMMA FailsStep ==
  ASSUME CubeInv, traffic' = traffic, NEW r \in Slot, CubeFails(r)
  PROVE  CubeInv'
<1> DEFINE h == job[r].host
<1>1. job[r] # NoJob /\ Done(r) /\ UNCHANGED <<meta, results>>
  BY DEF CubeFails
<1>2. h \in Host
  BY <1>1, JobFacts DEF CubeInv, JobOK
<1>3. MetaOK' /\ ResultsOK' /\ JobsOK'
  BY <1>1, DoneOK DEF CubeInv, MetaOK, ResultsOK
<1>4. CASE Silence /\ UNCHANGED catalog
  BY <1>3, <1>4, Silent DEF CubeInv, CatalogOK
<1>5. ASSUME NEW redis \in BOOLEAN,
             catalog' = [catalog EXCEPT ![h] = Seen(catalog, h, redis)],
             IF Seen(catalog, h, redis) = NoCopy THEN Silence
             ELSE Serve("list", NoQuery, NoQuery, Seen(catalog, h, redis).stale)
      PROVE  CatalogOK' /\ MetricsServed'
  <2> HIDE DEF h
  <2> QED
    BY <1>2, <1>5, CatalogHit, Silent
<1>6. \/ Silence /\ UNCHANGED catalog
      \/ \E redis \in BOOLEAN :
           /\ catalog' = [catalog EXCEPT ![h] = Seen(catalog, h, redis)]
           /\ IF Seen(catalog, h, redis) = NoCopy THEN Silence
              ELSE Serve("list", NoQuery, NoQuery, Seen(catalog, h, redis).stale)
  BY DEF CubeFails, RedisWorks
<1> QED
  BY <1>3, <1>4, <1>5, <1>6 DEF CubeInv

\* What is cached, and what is on its way, goes out of date.
LEMMA ChangesStep ==
  ASSUME CubeInv, traffic' = traffic, CubeChanges
  PROVE  CubeInv'
<1>1. \A p \in Places : Since(p, CubeTTL - 1 + CubeDelay) \in Nat /\ Since(p, CubeDelay) \in Nat
  BY CubeBounds DEF Since
<1>2. MetaOK'
  <2>1. \A h \in Host : /\ Outdated(meta[h]) \in Copies
                        /\ Aged(Outdated(meta[h]), {NoQuery}, CubeDelay, CubeTTL - 1)
    BY OutdatedAged, CubeBounds DEF CubeInv, MetaOK
  <2> QED
    BY <2>1 DEF MetaOK, CubeChanges
<1>3. CatalogOK'
  <2>1. \A p \in Places :
          /\ Outdated(catalog[p]) \in Copies
          /\ Aged(Outdated(catalog[p]), {NoQuery}, Since(p, CubeTTL - 1 + CubeDelay), Last(p))
    BY <1>1, OutdatedAged DEF CubeInv, CatalogOK, Cached
  <2> QED
    BY <2>1 DEF CatalogOK, Cached, CubeChanges
<1>4. ResultsOK'
  <2>1. \A p \in Places :
          /\ Outdated(results[p]) \in Copies
          /\ Aged(Outdated(results[p]), Asked, Since(p, CubeDelay), Last(p))
    BY <1>1, OutdatedAged DEF CubeInv, ResultsOK, Cached
  <2> QED
    BY <2>1 DEF ResultsOK, Cached, CubeChanges
<1>5. ASSUME NEW r \in Slot PROVE job'[r] \in JobType /\ JobOK(job'[r], traffic)
  <2>1. CASE OnItsWay(r) /\ job[r].stale = Current
    <3> DEFINE new == [job[r] EXCEPT !.stale = 0]
    <3>1. job'[r] = new
      BY <2>1 DEF CubeChanges
    <3>2. job[r] \in JobType /\ JobOK(job[r], traffic) /\ job[r].wait \in Nat
      BY JobFacts DEF CubeInv
    <3>3. /\ new \in JobType /\ new.stale = 0 /\ new.pc = job[r].pc /\ new.host = job[r].host
          /\ new.query = job[r].query /\ new.wait = job[r].wait
      BY <3>2 DEF JobType, Stale
    <3> HIDE DEF new
    <3>4. JobOK(new, traffic)
      BY <2>1, <3>2, <3>3 DEF JobOK, OnItsWay
    <3> QED
      BY <3>1, <3>3, <3>4
  <2>2. CASE ~(OnItsWay(r) /\ job[r].stale = Current)
    BY <2>2, JobFacts DEF CubeInv, CubeChanges
  <2> QED
    BY <2>1, <2>2
<1>6. JobsOK'
  BY <1>5 DEF CubeInv, JobsOK, CubeChanges
<1> QED
  BY <1>2, <1>3, <1>4, <1>6, Silent DEF CubeInv, CubeChanges

LEMMA TickStep ==
  ASSUME CubeInv, traffic' = traffic, CubeTick
  PROVE  CubeInv'
<1>1. /\ \A p \in Places : /\ Since(p, CubeTTL - 1 + CubeDelay) \in Int /\ Since(p, CubeDelay) \in Int
                           /\ Last(p) \in Nat /\ Last(p) <= CubeTTL
      /\ CubeTTL - 1 <= CubeTTL
  BY CubeBounds DEF Since, Last
<1>2. \A cache : \A p \in Places : OlderAt(cache, p) = Older(cache[p], Last(p))
  BY DEF OlderAt, Last
<1>3. MetaOK'
  <2>1. \A h \in Host : /\ Older(meta[h], CubeTTL - 1) \in Copies
                        /\ Aged(Older(meta[h], CubeTTL - 1), {NoQuery}, CubeDelay, CubeTTL - 1)
    BY <1>1, OlderAged, CubeBounds DEF CubeInv, MetaOK
  <2> QED
    BY <2>1 DEF MetaOK, CubeTick
<1>4. CatalogOK'
  <2>1. \A p \in Places :
          /\ OlderAt(catalog, p) \in Copies
          /\ Aged(OlderAt(catalog, p), {NoQuery}, Since(p, CubeTTL - 1 + CubeDelay), Last(p))
    BY <1>1, <1>2, OlderAged DEF CubeInv, CatalogOK, Cached
  <2> QED
    BY <2>1 DEF CatalogOK, Cached, CubeTick
<1>5. ResultsOK'
  <2>1. \A p \in Places :
          /\ OlderAt(results, p) \in Copies
          /\ Aged(OlderAt(results, p), Asked, Since(p, CubeDelay), Last(p))
    BY <1>1, <1>2, OlderAged DEF CubeInv, ResultsOK, Cached
  <2> QED
    BY <2>1 DEF ResultsOK, Cached, CubeTick
<1>6. ASSUME NEW r \in Slot PROVE job'[r] \in JobType /\ JobOK(job'[r], traffic)
  <2>1. CASE OnItsWay(r)
    <3> DEFINE waited == [job[r] EXCEPT !.wait = @ + 1]
               new == [waited EXCEPT !.stale = Staler(@)]
    <3>1. job'[r] = new /\ job[r].wait < CubeDelay
      BY <2>1 DEF CubeTick
    <3>2. /\ job[r] \in JobType /\ JobOK(job[r], traffic) /\ job[r].wait \in Nat
          /\ job[r].stale \in Stale /\ job[r].stale \in Int
      BY JobFacts DEF CubeInv
    <3>3. /\ waited \in JobType /\ waited.stale = job[r].stale /\ waited.pc = job[r].pc
          /\ waited.host = job[r].host /\ waited.query = job[r].query /\ waited.wait = job[r].wait + 1
      BY <3>2 DEF JobType
    <3> HIDE DEF waited
    <3>4. Staler(job[r].stale) \in Stale /\ Staler(job[r].stale) <= job[r].stale + 1
      BY <3>2, CubeBounds DEF Staler, Stale, Current
    <3>5. /\ new \in JobType /\ new.stale = Staler(job[r].stale) /\ new.pc = job[r].pc
          /\ new.host = job[r].host /\ new.query = job[r].query /\ new.wait = job[r].wait + 1
      BY <3>3, <3>4 DEF JobType
    <3> HIDE DEF new
    <3>6. new.stale <= new.wait /\ new.wait <= CubeDelay
      <4>1. job[r].stale <= job[r].wait
        BY <3>2 DEF JobOK
      <4>2. Staler(job[r].stale) \in Int
        BY <3>4, CubeBounds
      <4> QED
        BY <3>1, <3>2, <3>4, <3>5, <4>1, <4>2, CubeBounds
    <3>7. JobOK(new, traffic)
      BY <2>1, <3>2, <3>5, <3>6 DEF JobOK, OnItsWay
    <3> QED
      BY <3>1, <3>5, <3>7
  <2>2. CASE ~OnItsWay(r)
    BY <2>2, JobFacts DEF CubeInv, CubeTick
  <2> QED
    BY <2>1, <2>2
<1>7. JobsOK'
  BY <1>6 DEF CubeInv, JobsOK, CubeTick
<1> QED
  BY <1>3, <1>4, <1>5, <1>7, Silent DEF CubeInv, CubeTick

\* What is forgotten is not served.
LEMMA EvictStep ==
  ASSUME CubeInv, traffic' = traffic, NEW p \in Places, Evict(p)
  PROVE  CubeInv'
<1>1. UNCHANGED <<meta, job>> /\ Silence
  BY DEF Evict
<1>2. MetaOK' /\ JobsOK'
  BY <1>1 DEF CubeInv, MetaOK, JobsOK
<1>3. CatalogOK' /\ ResultsOK'
  BY NoCopyAged, HitCached DEF Evict, CubeInv, CatalogOK, ResultsOK
<1> QED
  BY <1>1, <1>2, <1>3, Silent DEF CubeInv

LEMMA RestartStep ==
  ASSUME CubeInv, traffic' = traffic, NEW h \in Host, RestartHost(h)
  PROVE  CubeInv'
<1>1. h \in Places
  BY DEF Places
<1>2. CatalogOK' /\ ResultsOK'
  BY <1>1, NoCopyAged, HitCached DEF RestartHost, CubeInv, CatalogOK, ResultsOK
<1>3. MetaOK'
  BY NoCopyAged DEF RestartHost, CubeInv, MetaOK
<1>4. JobsOK'
  <2>1. NoJob \in JobType /\ JobOK(NoJob, traffic)
    BY NoJobOK DEF JobOK
  <2> QED
    BY <2>1 DEF RestartHost, CubeInv, JobsOK
<1> QED
  BY <1>2, <1>3, <1>4, Silent DEF CubeInv, RestartHost

-----------------------------------------------------------------------------
LEMMA CubeInvInit == CubeInit => CubeInv
<1> SUFFICES ASSUME CubeInit PROVE CubeInv
  OBVIOUS
<1>1. MetaOK /\ CatalogOK /\ ResultsOK
  BY NoCopyAged DEF CubeInit, MetaOK, CatalogOK, ResultsOK, Cached
<1>2. JobsOK
  <2>1. NoJob \in JobType /\ JobOK(NoJob, traffic)
    BY NoJobOK DEF JobOK
  <2> QED
    BY <2>1 DEF CubeInit, JobsOK
<1>3. MetricsServed
  <2>1. served.kind = "none" /\ served.stale = -1
    BY CubeBounds DEF CubeInit, NothingServed
  <2> QED
    BY <2>1, CubeBounds DEF MetricsServed, ServedIsRecent, ServedIsAsked
<1> QED
  BY <1>1, <1>2, <1>3 DEF CubeInv

LEMMA CubeInvStep == CubeInv /\ [CubeNext]_cubeVars => CubeInv'
<1> SUFFICES ASSUME CubeInv, [CubeNext]_cubeVars PROVE CubeInv'
  OBVIOUS
<1>1. CASE UNCHANGED cubeVars
  BY <1>1 DEF cubeVars, CubeInv, MetaOK, CatalogOK, ResultsOK, JobsOK, MetricsServed,
              ServedIsRecent, ServedIsAsked
<1>2. CASE CubeNext
  <2>1. traffic' = traffic
    BY <1>2 DEF CubeNext
  <2>2. CASE HandOver
    BY <2>1, <2>2, Silent DEF HandOver, CubeInv, MetaOK, CatalogOK, ResultsOK, JobsOK
  <2>3. CASE Working
    <3>1. CASE \E r \in Slot, h \in Host :
                 \/ \E refresh \in BOOLEAN : ListMetrics(r, h, refresh)
                 \/ \E sought \in Asked : QueryMetrics(r, h, sought)
      BY <2>1, <3>1, ListStep, QueryStep
    <3>2. CASE \E r \in Slot : CubeAnswers(r) \/ ParseMeta(r) \/ ReturnRows(r) \/ CubeFails(r)
      BY <2>1, <3>2, AnswersStep, ParseStep, ReturnStep, FailsStep
    <3>3. CASE CubeChanges \/ CubeTick
      BY <2>1, <3>3, ChangesStep, TickStep
    <3>4. CASE \E p \in Places : Evict(p)
      BY <2>1, <3>4, EvictStep
    <3>5. CASE \E h \in Host : RestartHost(h)
      BY <2>1, <3>5, RestartStep
    <3> QED
      BY <2>3, <3>1, <3>2, <3>3, <3>4, <3>5 DEF Working
  <2> QED
    BY <1>2, <2>2, <2>3 DEF CubeNext
<1> QED
  BY <1>1, <1>2

\* The semantic layer's client and CacheService: no metric is served longer out of date
\* than the caches it went through allow, and the rows that are served are those of a
\* query with the same key.
THEOREM MetricsServedHolds == CubeSpec => []MetricsServed
<1>1. CubeInv => MetricsServed
  BY DEF CubeInv
<1> QED
  BY <1>1, CubeInvInit, CubeInvStep, PTL DEF CubeSpec

-----------------------------------------------------------------------------
(***************************************************************************)
(* ChatStream, for every number of questions, streams and histories, in    *)
(* any order of their events: what is on screen is what was asked, told    *)
(* and selected, but for the mishaps the property names.                   *)
(*                                                                         *)
(* The property says nothing of what is under way. The invariant adds that *)
(* one stream at most is to be waited for, that the last run of its bubble *)
(* is its own and was not ended or broken by another, and that the         *)
(* histories being fetched are of the selected chat, unless another was    *)
(* selected meanwhile.                                                     *)
(***************************************************************************)

Event == {"sql", "chart", "narrative"}
Part == [run : Nat, of : Nat]
Turn ==
  [id : Nat, chat : Nat, run : Nat, streaming : BOOLEAN, error : BOOLEAN, card : BOOLEAN,
   ended : {"no", "answer", "card", "failed"}, parts : [Event -> Part]]
Stream ==
  [no : Nat, turn : Nat, asks : Nat, clicked : Nat, chat : Nat,
   at : {"sent", "start", "sql", "chart", "narrative", "done"}]

Live(s) == s.at # "done"

StreamTypes ==
  /\ chats \subseteq Nat \ {0} /\ chat \in Nat /\ base \in Nat /\ turns \in Seq(Turn)
  /\ loading \in BOOLEAN /\ tracked \in 0..opened /\ streams \subseteq Stream
  /\ loads \subseteq [no : Nat, chat : Nat \ {0}]
  /\ typed \in Nat /\ opened \in Nat /\ fetched \in Nat
Numbered ==
  /\ \A s \in streams : s.no \in 1..opened
  /\ \A s, u \in streams : s.no = u.no => s = u
  /\ \A i \in DOMAIN turns : turns[i].id \in 1..typed /\ turns[i].run \in 1..opened
  /\ \A i, j \in DOMAIN turns : turns[i].id = turns[j].id => i = j

\* One stream at most is to be waited for, and its bubble spins.
Awaited ==
  /\ \A s \in streams : Live(s) => loading /\ s.no = tracked
  /\ loading => \E s \in streams : Live(s) /\ s.no = tracked
Spinning ==
  loading => \/ \E i \in DOMAIN turns :
                  turns[i].run = tracked /\ (turns[i].streaming \/ Met("late", turns[i].id))
             \/ Met("early", 0)
\* What a stream asks, and whom it feeds: the run of a bubble is that of the last stream
\* begun for it, and nothing has ended that run as long as the stream is to be waited for.
Asks(s) ==
  /\ s.asks = s.turn \/ Met("mixed", s.turn)
  /\ s.clicked # 0 => s.asks = s.clicked \/ Met("mixed", s.clicked)
  /\ s.at = "sent" => s.chat = chat
Feeds(s, t) ==
  /\ t.run = s.no => t.id = s.turn
  /\ Live(s) /\ t.id = s.turn => t.run = s.no /\ t.ended = "no" /\ (t.error => Met("late", t.id))
BubbleTells(t) ==
  /\ t.streaming => (loading /\ t.run = tracked) \/ Met("closed", t.id)
  /\ \A e \in Event : t.parts[e].of \in {0, t.id} \/ Met("mixed", t.id)
  /\ \A e \in Event : t.parts[e].run \in {0, t.run} \/ Met("kept", t.id)
  /\ t.parts["chart"] = NoPart
  /\ t.error => t.ended = "no" \/ Met("late", t.id)
  /\ t.card => t.ended = "card" \/ Met("late", t.id)
  /\ t.chat \in {0, chat}
Fetches ==
  /\ loads # {} /\ (loading \/ turns # <<>>) => Met("early", 0)
  /\ \A l \in loads : l.chat = chat \/ Met("overlap", 0)
  /\ base \in {0, chat} \/ Met("overlap", 0)
StreamInv ==
  /\ StreamTypes /\ Numbered /\ Awaited /\ Spinning /\ Fetches
  /\ \A s \in streams : Asks(s)
  /\ \A s \in streams, i \in DOMAIN turns : Feeds(s, turns[i])
  /\ \A i \in DOMAIN turns : BubbleTells(turns[i])

\* What the properties except stays excepted.
Lasts ==
  \A what, id :
    what \notin {"early", "overlap"} /\ <<what, id>> \in mishaps => <<what, id>> \in mishaps'
\* Only the turn of this id is drawn anew.
Others(id) ==
  /\ turns' \in Seq(Turn) /\ DOMAIN turns' = DOMAIN turns
  /\ \A i \in DOMAIN turns : turns[i].id # id => turns'[i] = turns[i]

LEMMA PartsType == NoPart \in Part /\ NoParts \in [Event -> Part] /\ DOMAIN NoParts = Event
BY DEF NoPart, NoParts, Part, Event

LEMMA BubbleTurn ==
  ASSUME NEW id \in Nat, NEW run \in Nat
  PROVE  /\ Bubble(id, run) \in Turn
         /\ Bubble(id, run).id = id /\ Bubble(id, run).run = run /\ Bubble(id, run).chat = 0
         /\ Bubble(id, run).streaming /\ ~Bubble(id, run).error /\ ~Bubble(id, run).card
         /\ Bubble(id, run).ended = "no" /\ Bubble(id, run).parts = NoParts
BY PartsType DEF Bubble, Turn

\* The parts of a bubble that is reset.
KeptParts(t) == [NoParts EXCEPT !["narrative"] = t.parts["narrative"]]
LEMMA KeptPartsFacts ==
  ASSUME NEW t
  PROVE  /\ KeptParts(t)["narrative"] = t.parts["narrative"]
         /\ KeptParts(t)["chart"] = NoPart /\ KeptParts(t)["sql"] = NoPart
BY DEF KeptParts, NoParts

LEMMA ResetTurn ==
  ASSUME NEW t \in Turn, NEW run \in Nat
  PROVE  /\ Reset(t, run) \in Turn
         /\ Reset(t, run).id = t.id /\ Reset(t, run).run = run /\ Reset(t, run).chat = t.chat
         /\ Reset(t, run).streaming /\ ~Reset(t, run).error /\ Reset(t, run).card = t.card
         /\ Reset(t, run).ended = "no"
         /\ Reset(t, run).parts = KeptParts(t)
<1> DEFINE kept == [NoParts EXCEPT !["narrative"] = t.parts["narrative"]]
           run1 == [t EXCEPT !.run = run]
           spins == [run1 EXCEPT !.streaming = TRUE]
           right == [spins EXCEPT !.error = FALSE]
           begun == [right EXCEPT !.ended = "no"]
           whole == [begun EXCEPT !.parts = kept]
<1>1. kept \in [Event -> Part]
  BY PartsType DEF Turn, Event
<1>2. Reset(t, run) = whole
  BY DEF Reset
<1> HIDE DEF kept
<1>3. /\ run1 \in Turn /\ run1.id = t.id /\ run1.chat = t.chat /\ run1.card = t.card
      /\ run1.run = run
  BY DEF Turn
<1> HIDE DEF run1
<1>4. /\ spins \in Turn /\ spins.id = t.id /\ spins.chat = t.chat /\ spins.card = t.card
      /\ spins.run = run /\ spins.streaming
  BY <1>3 DEF Turn
<1> HIDE DEF spins
<1>5. /\ right \in Turn /\ right.id = t.id /\ right.chat = t.chat /\ right.card = t.card
      /\ right.run = run /\ right.streaming /\ ~right.error
  BY <1>4 DEF Turn
<1> HIDE DEF right
<1>6. /\ begun \in Turn /\ begun.id = t.id /\ begun.chat = t.chat /\ begun.card = t.card
      /\ begun.run = run /\ begun.streaming /\ ~begun.error /\ begun.ended = "no"
  BY <1>5 DEF Turn
<1> HIDE DEF begun
<1>7. /\ whole \in Turn /\ whole.id = t.id /\ whole.chat = t.chat /\ whole.card = t.card
      /\ whole.run = run /\ whole.streaming /\ ~whole.error /\ whole.ended = "no"
      /\ whole.parts = kept
  BY <1>1, <1>6 DEF Turn
<1> HIDE DEF whole
<1> QED
  BY <1>2, <1>7 DEF kept, KeptParts

\* Turns that are changed in their places are turns.
LEMMA Redrawn ==
  ASSUME turns \in Seq(Turn), NEW later, DOMAIN later = DOMAIN turns,
         later = [i \in DOMAIN later |-> later[i]],
         \A i \in DOMAIN turns : later[i] \in Turn
  PROVE  later \in Seq(Turn)
<1>1. Len(turns) \in Nat /\ DOMAIN turns = 1..Len(turns)
  BY LenProperties
<1>2. later \in [1..Len(turns) -> Turn]
  BY <1>1
<1> QED
  BY <1>1, <1>2, SeqDef

\* The last turn that has a card.
LEMMA PendingIsTurn ==
  ASSUME turns \in Seq(Turn), NEW k \in DOMAIN turns, turns[k].card
  PROVE  \E i \in DOMAIN turns : turns[i].card /\ Pending = turns[i].id
<1> DEFINE later == Len(turns)
           T == {n \in Nat : \E i \in DOMAIN turns : turns[i].card /\ n = Len(turns) - i}
<1>1. Len(turns) \in Nat /\ DOMAIN turns = 1..Len(turns)
  BY LenProperties
<1>2. T \subseteq Nat /\ T # {}
  <2>1. Len(turns) - k \in T
    BY <1>1
  <2> QED
    BY <2>1
<1> DEFINE less == {ss \in Nat \X Nat : ss[1] < ss[2]}
<1>3. IsWellFoundedOn(less, Nat)
  BY NatLessThanWellFounded DEF OpToRel
<1>4. PICK n \in T : \A m \in T : ~(m < n)
  <2>1. \A m, n \in Nat : <<m, n>> \in less <=> m < n
    OBVIOUS
  <2> HIDE DEF less, T
  <2>2. \E n \in T : \A m \in T : ~(<<m, n>> \in less)
    BY <1>2, <1>3, WFMin
  <2> QED
    BY <1>2, <2>1, <2>2
<1>5. PICK i \in DOMAIN turns : turns[i].card /\ n = Len(turns) - i
  BY <1>4
<1>6. \A j \in DOMAIN turns : turns[j].card => j <= i
  <2> SUFFICES ASSUME NEW j \in DOMAIN turns, turns[j].card PROVE j <= i
    OBVIOUS
  <2>1. Len(turns) - j \in T
    BY <1>1
  <2>2. ~(Len(turns) - j < n)
    BY <1>4, <2>1
  <2> QED
    BY <1>1, <1>5, <2>2
<1> HIDE DEF T
<1>7. \E l \in DOMAIN turns : turns[l].card /\ \A j \in DOMAIN turns : turns[j].card => j <= l
  BY <1>5, <1>6
<1> DEFINE last == CHOOSE l \in DOMAIN turns :
                     turns[l].card /\ \A j \in DOMAIN turns : turns[j].card => j <= l
<1>8. last \in DOMAIN turns /\ turns[last].card
  BY <1>7
<1>9. Pending = turns[last].id
  BY DEF Pending
<1> HIDE DEF last
<1> QED
  BY <1>8, <1>9

-----------------------------------------------------------------------------
LEMMA StreamFacts ==
  ASSUME StreamTypes, NEW s \in streams
  PROVE  /\ s \in Stream /\ s.no \in Nat /\ s.turn \in Nat /\ s.asks \in Nat /\ s.clicked \in Nat
         /\ s.chat \in Nat /\ s.at \in {"sent", "start", "sql", "chart", "narrative", "done"}
BY DEF StreamTypes, Stream

LEMMA OneLive ==
  ASSUME StreamInv, NEW s \in streams, Live(s)
  PROVE  loading /\ s.no = tracked /\ \A u \in streams : Live(u) => u = s
BY DEF StreamInv, Awaited, Numbered

LEMMA StreamStartsStep ==
  ASSUME StreamInv, NEW s \in streams, StreamStarts(s)
  PROVE  StreamInv'
<1> DEFINE id == IF s.chat = 0 THEN OldChats + s.no ELSE s.chat
           Newly(t) == [t EXCEPT !.chat = id]
           new == [s EXCEPT !.at = "start"]
<1>1. /\ s.at = "sent" /\ chats' = chats \cup {id} /\ chat' = id
      /\ turns' = [i \in DOMAIN turns |-> IF turns[i].id = s.turn THEN Newly(turns[i]) ELSE turns[i]]
      /\ streams' = (streams \ {s}) \cup {new}
      /\ UNCHANGED <<base, loading, tracked, loads, typed, opened, fetched, mishaps>>
  BY DEF StreamStarts, Reaches, InTurn
<1>2. /\ s \in Stream /\ s.no \in Nat /\ s.turn \in Nat /\ s.chat \in Nat /\ Live(s)
      /\ OldChats \in Nat /\ s.no > 0
  BY <1>1, StreamFacts, StreamAssumption DEF StreamInv, Numbered, Live
<1>3. id \in Nat \ {0} /\ (chat = 0 \/ chat = id)
  BY <1>1, <1>2 DEF StreamInv, Asks
<1>4. /\ new \in Stream /\ new.no = s.no /\ new.turn = s.turn /\ new.asks = s.asks
      /\ new.clicked = s.clicked /\ new.at = "start"
  BY <1>2 DEF Stream
<1>5. \A t \in Turn : /\ Newly(t) \in Turn /\ Newly(t).id = t.id /\ Newly(t).run = t.run
                      /\ Newly(t).streaming = t.streaming /\ Newly(t).error = t.error
                      /\ Newly(t).card = t.card /\ Newly(t).ended = t.ended
                      /\ Newly(t).parts = t.parts /\ Newly(t).chat = id
  BY <1>3 DEF Turn
<1> HIDE DEF id, Newly, new
<1>6. /\ turns \in Seq(Turn) /\ \A i \in DOMAIN turns : turns[i] \in Turn
  BY ElementOfSeq, LenProperties DEF StreamInv, StreamTypes
<1>7. Others(s.turn)
  BY <1>1, <1>5, <1>6, Redrawn DEF Others
<1>8. \A i \in DOMAIN turns :
        /\ turns[i] \in Turn /\ turns'[i].id = turns[i].id /\ turns'[i].run = turns[i].run
        /\ turns'[i].streaming = turns[i].streaming /\ turns'[i].error = turns[i].error
        /\ turns'[i].card = turns[i].card /\ turns'[i].ended = turns[i].ended
        /\ turns'[i].parts = turns[i].parts
        /\ turns'[i].chat = IF turns[i].id = s.turn THEN id ELSE turns[i].chat
  BY <1>1, <1>5, <1>6
<1>9. \A u \in streams : Live(u) => u = s
  BY <1>2, OneLive
<1>10. StreamTypes'
  BY <1>1, <1>3, <1>4, <1>7 DEF StreamInv, StreamTypes, Others
<1>11. Numbered'
  BY <1>1, <1>4, <1>7, <1>8 DEF StreamInv, Numbered, Others
<1>12. Awaited'
  BY <1>1, <1>2, <1>4 DEF StreamInv, Awaited, Live
<1>13. Spinning'
  BY <1>1, <1>7, <1>8 DEF StreamInv, Spinning, Others, Met
<1>14. Fetches'
  BY <1>1, <1>3, <1>7, <1>8 DEF StreamInv, StreamTypes, Fetches, Others, Met
<1>15. (\A u \in streams : Asks(u))'
  BY <1>1, <1>4, <1>9 DEF StreamInv, Asks, Met, Live
<1>16. (\A u \in streams, i \in DOMAIN turns : Feeds(u, turns[i]))'
  BY <1>1, <1>2, <1>4, <1>7, <1>8 DEF StreamInv, Feeds, Others, Met, Live
<1>17. (\A i \in DOMAIN turns : BubbleTells(turns[i]))'
  BY <1>1, <1>3, <1>7, <1>8 DEF StreamInv, BubbleTells, Others, Met
<1> QED
  BY <1>10, <1>11, <1>12, <1>13, <1>14, <1>15, <1>16, <1>17 DEF StreamInv

LEMMA UpdateStep ==
  ASSUME StreamInv, NEW s \in streams, NEW event \in Event, UpdateMessageStage(s, event)
  PROVE  StreamInv'
<1> DEFINE part == [run |-> s.no, of |-> s.asks]
           heard(t) == [t.parts EXCEPT ![event] = part]
           Newly(t) == [t EXCEPT !.parts = heard(t)]
           new == [s EXCEPT !.at = event]
<1>1. /\ event \in Follows(s.at)
      /\ turns' = IF Parsed(event)
                  THEN [i \in DOMAIN turns |-> IF turns[i].id = s.turn THEN Newly(turns[i]) ELSE turns[i]]
                  ELSE turns
      /\ streams' = (streams \ {s}) \cup {new}
      /\ UNCHANGED <<chats, chat, base, loading, tracked, loads, typed, opened, fetched, mishaps>>
  BY DEF UpdateMessageStage, Reaches, InTurn
<1>2. /\ s \in Stream /\ s.no \in Nat /\ s.turn \in Nat /\ s.asks \in Nat /\ s.no > 0
      /\ s.at \in {"start", "sql", "chart"} /\ Live(s)
  BY <1>1, StreamFacts DEF StreamInv, Numbered, Live, Follows
<1>3. /\ new \in Stream /\ new.no = s.no /\ new.turn = s.turn /\ new.asks = s.asks
      /\ new.clicked = s.clicked /\ new.at = event /\ Live(new) /\ new.at # "sent"
  BY <1>2 DEF Stream, Event, Live
<1>4. \A t \in Turn : /\ heard(t) \in [Event -> Part] /\ heard(t)[event] = part
                      /\ \A e \in Event : e # event => heard(t)[e] = t.parts[e]
  BY <1>2 DEF Turn, Part
<1> HIDE DEF heard
<1>5. \A t \in Turn : /\ Newly(t) \in Turn /\ Newly(t).id = t.id /\ Newly(t).run = t.run
                      /\ Newly(t).streaming = t.streaming /\ Newly(t).error = t.error
                      /\ Newly(t).card = t.card /\ Newly(t).ended = t.ended
                      /\ Newly(t).chat = t.chat /\ Newly(t).parts = heard(t)
  BY <1>4 DEF Turn
<1> HIDE DEF Newly, new
<1>6. /\ turns \in Seq(Turn) /\ \A i \in DOMAIN turns : turns[i] \in Turn
  BY ElementOfSeq, LenProperties DEF StreamInv, StreamTypes
<1>7. Others(s.turn)
  BY <1>1, <1>5, <1>6, Redrawn DEF Others
<1>8. \A i \in DOMAIN turns :
        /\ turns[i] \in Turn /\ turns'[i].id = turns[i].id /\ turns'[i].run = turns[i].run
        /\ turns'[i].streaming = turns[i].streaming /\ turns'[i].error = turns[i].error
        /\ turns'[i].card = turns[i].card /\ turns'[i].ended = turns[i].ended
        /\ turns'[i].chat = turns[i].chat
        /\ \/ turns'[i].parts = turns[i].parts
           \/ turns[i].id = s.turn /\ turns'[i].parts = heard(turns[i]) /\ event # "chart"
  <2> SUFFICES ASSUME NEW i \in DOMAIN turns
               PROVE  /\ turns[i] \in Turn
                      /\ \/ turns'[i] = turns[i]
                         \/ turns[i].id = s.turn /\ turns'[i] = Newly(turns[i]) /\ event # "chart"
    BY <1>5
  <2> QED
    BY <1>1, <1>6 DEF Parsed
<1>9. \A u \in streams : Live(u) => u = s
  BY <1>2, OneLive
<1>10. StreamTypes'
  BY <1>1, <1>3, <1>7 DEF StreamInv, StreamTypes, Others
<1>11. Numbered'
  BY <1>1, <1>3, <1>7, <1>8 DEF StreamInv, Numbered, Others
<1>12. Awaited'
  BY <1>1, <1>2, <1>3 DEF StreamInv, Awaited
<1>13. Spinning'
  BY <1>1, <1>7, <1>8 DEF StreamInv, Spinning, Others, Met
<1>14. Fetches'
  BY <1>1, <1>7, <1>8 DEF StreamInv, StreamTypes, Fetches, Others, Met
<1>15. (\A u \in streams : Asks(u))'
  BY <1>1, <1>3, <1>9 DEF StreamInv, Asks, Met, Live
<1>16. (\A u \in streams, i \in DOMAIN turns : Feeds(u, turns[i]))'
  BY <1>1, <1>2, <1>3, <1>7, <1>8 DEF StreamInv, Feeds, Others, Met, Live
<1>17. (\A i \in DOMAIN turns : BubbleTells(turns[i]))'
  <2> SUFFICES ASSUME NEW i \in DOMAIN turns PROVE BubbleTells(turns[i])'
    BY <1>7 DEF Others
  <2>1. CASE turns'[i].parts = turns[i].parts
    BY <1>1, <1>8, <2>1 DEF StreamInv, BubbleTells, Met
  <2>2. CASE turns[i].id = s.turn /\ turns'[i].parts = heard(turns[i]) /\ event # "chart"
    <3>1. /\ turns'[i].parts[event] = part
          /\ \A e \in Event : e # event => turns'[i].parts[e] = turns[i].parts[e]
      BY <1>4, <1>8, <2>2
    <3>2. turns[i].run = s.no /\ (s.asks = turns[i].id \/ Met("mixed", turns[i].id))
      BY <1>2, <2>2 DEF StreamInv, Feeds, Asks
    <3>3. part.run = s.no /\ part.of = s.asks
      OBVIOUS
    <3>4. "chart" \in Event
      BY DEF Event
    <3> HIDE DEF part
    <3> QED
      BY <1>1, <1>8, <2>2, <3>1, <3>2, <3>3, <3>4 DEF StreamInv, BubbleTells, Met
  <2> QED
    BY <1>8, <2>1, <2>2
<1> QED
  BY <1>10, <1>11, <1>12, <1>13, <1>14, <1>15, <1>16, <1>17 DEF StreamInv

LEMMA StreamEndsStep ==
  ASSUME StreamInv, NEW s \in streams, NEW how \in {"answer", "card", "failed"}, StreamEnds(s, how)
  PROVE  StreamInv'
<1> DEFINE Still(t) == [t EXCEPT !.streaming = FALSE]
           Finished(t) == [Still(t) EXCEPT !.ended = how]
           Newly(t) == [Finished(t) EXCEPT !.card = @ \/ how = "card"]
           new == [s EXCEPT !.at = "done"]
<1>1. /\ s.at \notin {"sent", "done"}
      /\ turns' = [i \in DOMAIN turns |-> IF turns[i].id = s.turn THEN Newly(turns[i]) ELSE turns[i]]
      /\ streams' = (streams \ {s}) \cup {new}
      /\ UNCHANGED <<chats, chat, base, loads, typed, opened, fetched, mishaps>>
  BY DEF StreamEnds, Reaches, InTurn
<1>2. /\ s \in Stream /\ s.no \in Nat /\ s.turn \in Nat /\ Live(s)
  BY <1>1, StreamFacts DEF StreamInv, Live
<1>3. /\ loading /\ s.no = tracked /\ \A u \in streams : Live(u) => u = s
      /\ loading' = FALSE /\ tracked' = 0
  BY <1>2, OneLive DEF StreamEnds, FinalizeIfCurrent
<1>9. loading' \in BOOLEAN /\ tracked' \in 0..opened
  <2>1. loading' \in BOOLEAN
    BY <1>3, Zenon
  <2> QED
    BY <1>3, <2>1 DEF StreamInv, StreamTypes
<1>4. /\ new \in Stream /\ new.no = s.no /\ new.turn = s.turn /\ new.asks = s.asks
      /\ new.clicked = s.clicked /\ new.at = "done"
  BY <1>2 DEF Stream
<1>5. \A t \in Turn : /\ Newly(t) \in Turn /\ Newly(t).id = t.id /\ Newly(t).run = t.run
                      /\ ~Newly(t).streaming /\ Newly(t).error = t.error
                      /\ Newly(t).card = (t.card \/ how = "card") /\ Newly(t).ended = how
                      /\ Newly(t).parts = t.parts /\ Newly(t).chat = t.chat
  <2> SUFFICES ASSUME NEW t \in Turn
               PROVE  /\ Newly(t) \in Turn /\ Newly(t).id = t.id /\ Newly(t).run = t.run
                      /\ ~Newly(t).streaming /\ Newly(t).error = t.error
                      /\ Newly(t).card = (t.card \/ how = "card") /\ Newly(t).ended = how
                      /\ Newly(t).parts = t.parts /\ Newly(t).chat = t.chat
    OBVIOUS
  <2>1. /\ Still(t) \in Turn /\ Still(t).id = t.id /\ Still(t).run = t.run /\ ~Still(t).streaming
        /\ Still(t).error = t.error /\ Still(t).card = t.card /\ Still(t).parts = t.parts
        /\ Still(t).chat = t.chat
    BY DEF Turn
  <2> HIDE DEF Still
  <2>2. /\ Finished(t) \in Turn /\ Finished(t).id = t.id /\ Finished(t).run = t.run /\ ~Finished(t).streaming
        /\ Finished(t).error = t.error /\ Finished(t).card = t.card /\ Finished(t).parts = t.parts
        /\ Finished(t).chat = t.chat /\ Finished(t).ended = how
    BY <2>1 DEF Turn
  <2> HIDE DEF Finished
  <2> QED
    BY <2>2 DEF Turn
<1> HIDE DEF Newly, new, Still, Finished
<1>6. /\ turns \in Seq(Turn) /\ \A i \in DOMAIN turns : turns[i] \in Turn
  BY ElementOfSeq, LenProperties DEF StreamInv, StreamTypes
<1>7. Others(s.turn)
  BY <1>1, <1>5, <1>6, Redrawn DEF Others
<1>8. \A i \in DOMAIN turns :
        /\ turns[i] \in Turn /\ turns'[i].id = turns[i].id /\ turns'[i].run = turns[i].run
        /\ turns[i].id = s.turn =>
             /\ ~turns'[i].streaming /\ turns'[i].error = turns[i].error
             /\ turns'[i].card = (turns[i].card \/ how = "card") /\ turns'[i].ended = how
             /\ turns'[i].parts = turns[i].parts /\ turns'[i].chat = turns[i].chat
        /\ turns[i].id # s.turn => turns'[i] = turns[i]
  BY <1>1, <1>5, <1>6
<1>10. StreamTypes'
  BY <1>1, <1>4, <1>7, <1>9 DEF StreamInv, StreamTypes, Others
<1>11. Numbered'
  BY <1>1, <1>4, <1>7, <1>8 DEF StreamInv, Numbered, Others
<1>12. Awaited'
  BY <1>1, <1>3, <1>4 DEF StreamInv, Awaited, Live
<1>13. Spinning'
  BY <1>3 DEF Spinning
<1>14. Fetches'
  BY <1>1, <1>3, <1>7 DEF StreamInv, StreamTypes, Fetches, Others, Met
<1>15. (\A u \in streams : Asks(u))'
  BY <1>1, <1>4 DEF StreamInv, Asks, Met
<1>16. (\A u \in streams, i \in DOMAIN turns : Feeds(u, turns[i]))'
  <2> SUFFICES ASSUME NEW u \in streams', NEW i \in DOMAIN turns
               PROVE  Feeds(u, turns[i])'
    BY <1>7 DEF Others
  <2>1. ~Live(u)
    BY <1>1, <1>3, <1>4 DEF Live
  <2>2. turns'[i].id = turns[i].id /\ turns'[i].run = turns[i].run
    BY <1>8
  <2>3. u = new \/ u \in streams
    BY <1>1
  <2>4. turns[i].run = u.no => turns[i].id = u.turn
    <3>1. Feeds(s, turns[i]) /\ (u \in streams => Feeds(u, turns[i]))
      BY DEF StreamInv
    <3> QED BY <1>4, <2>3, <3>1 DEF Feeds
  <2> QED BY <2>1, <2>2, <2>4 DEF Feeds, Live
<1>17. (\A i \in DOMAIN turns : BubbleTells(turns[i]))'
  <2> SUFFICES ASSUME NEW i \in DOMAIN turns PROVE BubbleTells(turns[i])'
    BY <1>7 DEF Others
  <2>1. CASE turns[i].id = s.turn
    <3>1. turns[i].ended = "no" /\ (turns[i].error => Met("late", turns[i].id)) /\ BubbleTells(turns[i])
      BY <1>2, <2>1 DEF StreamInv, Feeds
    <3> QED
      BY <1>1, <1>8, <2>1, <3>1 DEF BubbleTells, Met
  <2>2. CASE turns[i].id # s.turn
    <3>1. turns[i].run # tracked /\ BubbleTells(turns[i])
      BY <1>3, <2>2 DEF StreamInv, Feeds
    <3> QED
      BY <1>1, <1>8, <2>2, <3>1 DEF BubbleTells, Met
  <2> QED
    BY <2>1, <2>2
<1> QED
  BY <1>10, <1>11, <1>12, <1>13, <1>14, <1>15, <1>16, <1>17 DEF StreamInv

\* A stream that is not to be waited for is finalized without effect.
LEMMA FinalizeFacts ==
  ASSUME StreamInv, NEW s \in streams, FinalizeIfCurrent(s)
  PROVE  /\ Live(s) => loading /\ s.no = tracked /\ ~loading'
         /\ ~Live(s) => (loading' <=> loading) /\ (loading => tracked' = tracked)
         /\ loading' \in BOOLEAN /\ tracked' \in 0..opened
<1>1. Live(s) => loading /\ s.no = tracked
  BY OneLive
<1>2. ~Live(s) /\ loading => tracked # s.no
  BY DEF StreamInv, Awaited, Numbered
<1>3. loading \in BOOLEAN /\ tracked \in 0..opened /\ opened \in Nat
  BY DEF StreamInv, StreamTypes
<1>4. CASE tracked = s.no
  <2>1. loading' = FALSE /\ tracked' = 0
    BY <1>4 DEF FinalizeIfCurrent
  <2>2. loading' \in BOOLEAN /\ ~loading'
    BY <2>1, Zenon
  <2>3. tracked' = 0
    BY <2>1
  <2> QED
    BY <1>1, <1>2, <1>3, <1>4, <2>2, <2>3
<1>5. CASE tracked # s.no
  <2>1. loading' = loading /\ tracked' = tracked
    BY <1>5 DEF FinalizeIfCurrent
  <2> QED
    BY <1>1, <1>3, <1>5, <2>1
<1> QED
  BY <1>4, <1>5

LEMMA StreamClosesStep ==
  ASSUME StreamInv, NEW s \in streams, StreamCloses(s)
  PROVE  StreamInv'
<1>1. /\ streams' = streams \ {s} /\ FinalizeIfCurrent(s)
      /\ mishaps' = mishaps \cup (IF s.at = "done" THEN {} ELSE {<<"closed", s.turn>>})
      /\ UNCHANGED <<chats, chat, base, turns, loads, typed, opened, fetched>>
  BY DEF StreamCloses
<1>2. /\ Live(s) => loading /\ s.no = tracked /\ ~loading' /\ \A u \in streams : Live(u) => u = s
      /\ ~Live(s) => (loading' <=> loading) /\ (loading => tracked' = tracked)
      /\ loading' \in BOOLEAN /\ tracked' \in 0..opened
  BY <1>1, FinalizeFacts, OneLive
<1>3. Lasts /\ \A id : <<"overlap", id>> \in mishaps => <<"overlap", id>> \in mishaps'
  BY <1>1 DEF Lasts
<1>4. <<"early", 0>> \in mishaps => <<"early", 0>> \in mishaps'
  BY <1>1
<1>10. StreamTypes'
  BY <1>1, <1>2 DEF StreamInv, StreamTypes
<1>11. Numbered'
  BY <1>1 DEF StreamInv, Numbered
<1>12. Awaited'
  BY <1>1, <1>2 DEF StreamInv, Awaited, Live
<1>13. Spinning'
  BY <1>1, <1>2, <1>4, <1>3 DEF StreamInv, Spinning, Met, Lasts
<1>14. Fetches'
  BY <1>1, <1>2, <1>3, <1>4 DEF StreamInv, Fetches, Met
<1>15. (\A u \in streams : Asks(u))'
  BY <1>1, <1>3 DEF StreamInv, Asks, Met, Lasts
<1>16. (\A u \in streams, i \in DOMAIN turns : Feeds(u, turns[i]))'
  BY <1>1, <1>3 DEF StreamInv, Feeds, Met, Live, Lasts
<1>17. (\A i \in DOMAIN turns : BubbleTells(turns[i]))'
  <2> SUFFICES ASSUME NEW i \in DOMAIN turns PROVE BubbleTells(turns[i])'
    BY <1>1
  <2>1. BubbleTells(turns[i]) /\ (Live(s) /\ turns[i].run = tracked => turns[i].id = s.turn)
    BY <1>2 DEF StreamInv, Feeds
  <2>2. turns[i].streaming => (loading' /\ turns[i].run = tracked') \/ <<"closed", turns[i].id>> \in mishaps'
    BY <1>1, <1>2, <1>3, <2>1 DEF BubbleTells, Met, Lasts, Live
  <2> QED
    BY <1>1, <1>3, <2>1, <2>2 DEF BubbleTells, Met, Lasts
<1> QED
  BY <1>10, <1>11, <1>12, <1>13, <1>14, <1>15, <1>16, <1>17 DEF StreamInv

LEMMA StreamBreaksStep ==
  ASSUME StreamInv, NEW s \in streams, StreamBreaks(s)
  PROVE  StreamInv'
<1> DEFINE Still(t) == [t EXCEPT !.streaming = FALSE]
           Newly(t) == [Still(t) EXCEPT !.error = TRUE]
<1>1. /\ streams' = streams \ {s} /\ FinalizeIfCurrent(s)
      /\ turns' = [i \in DOMAIN turns |-> IF turns[i].id = s.turn THEN Newly(turns[i]) ELSE turns[i]]
      /\ mishaps' = mishaps \cup (IF s.at = "done" THEN {<<"late", s.turn>>} ELSE {})
      /\ UNCHANGED <<chats, chat, base, loads, typed, opened, fetched>>
  BY DEF StreamBreaks, InTurn
<1>2. /\ Live(s) => loading /\ s.no = tracked /\ ~loading' /\ \A u \in streams : Live(u) => u = s
      /\ ~Live(s) => (loading' <=> loading) /\ (loading => tracked' = tracked)
      /\ loading' \in BOOLEAN /\ tracked' \in 0..opened
  BY <1>1, FinalizeFacts, OneLive
<1>3. Lasts /\ \A id : <<"overlap", id>> \in mishaps => <<"overlap", id>> \in mishaps'
  BY <1>1 DEF Lasts
<1>4. <<"early", 0>> \in mishaps => <<"early", 0>> \in mishaps'
  BY <1>1
<1>5. \A t \in Turn : /\ Newly(t) \in Turn /\ Newly(t).id = t.id /\ Newly(t).run = t.run
                      /\ ~Newly(t).streaming /\ Newly(t).error
                      /\ Newly(t).card = t.card /\ Newly(t).ended = t.ended
                      /\ Newly(t).parts = t.parts /\ Newly(t).chat = t.chat
  <2> SUFFICES ASSUME NEW t \in Turn
               PROVE  /\ Newly(t) \in Turn /\ Newly(t).id = t.id /\ Newly(t).run = t.run
                      /\ ~Newly(t).streaming /\ Newly(t).error
                      /\ Newly(t).card = t.card /\ Newly(t).ended = t.ended
                      /\ Newly(t).parts = t.parts /\ Newly(t).chat = t.chat
    OBVIOUS
  <2>1. /\ Still(t) \in Turn /\ Still(t).id = t.id /\ Still(t).run = t.run /\ ~Still(t).streaming
        /\ Still(t).ended = t.ended /\ Still(t).card = t.card /\ Still(t).parts = t.parts
        /\ Still(t).chat = t.chat
    BY DEF Turn
  <2> HIDE DEF Still
  <2> QED
    BY <2>1 DEF Turn
<1> HIDE DEF Newly, Still
<1>6. /\ turns \in Seq(Turn) /\ \A i \in DOMAIN turns : turns[i] \in Turn
  BY ElementOfSeq, LenProperties DEF StreamInv, StreamTypes
<1>7. Others(s.turn)
  BY <1>1, <1>5, <1>6, Redrawn DEF Others
<1>8. \A i \in DOMAIN turns :
        /\ turns[i] \in Turn /\ turns'[i].id = turns[i].id /\ turns'[i].run = turns[i].run
        /\ turns[i].id = s.turn =>
             /\ ~turns'[i].streaming /\ turns'[i].error
             /\ turns'[i].card = turns[i].card /\ turns'[i].ended = turns[i].ended
             /\ turns'[i].parts = turns[i].parts /\ turns'[i].chat = turns[i].chat
        /\ turns[i].id # s.turn => turns'[i] = turns[i]
  BY <1>1, <1>5, <1>6
<1>9. ~Live(s) => <<"late", s.turn>> \in mishaps'
  BY <1>1 DEF Live
<1>10. StreamTypes'
  BY <1>1, <1>2, <1>7 DEF StreamInv, StreamTypes, Others
<1>11. Numbered'
  BY <1>1, <1>7, <1>8 DEF StreamInv, Numbered, Others
<1>12. Awaited'
  BY <1>1, <1>2 DEF StreamInv, Awaited, Live
<1>13. Spinning'
  BY <1>2, <1>3, <1>4, <1>7, <1>8, <1>9 DEF StreamInv, Spinning, Met, Lasts, Others
<1>14. Fetches'
  <2>1. turns' # <<>> => turns # <<>>
    BY <1>7 DEF Others
  <2> QED
    BY <1>1, <1>2, <1>3, <1>4, <2>1 DEF StreamInv, Fetches, Met
<1>15. (\A u \in streams : Asks(u))'
  BY <1>1, <1>3 DEF StreamInv, Asks, Met, Lasts
<1>16. (\A u \in streams, i \in DOMAIN turns : Feeds(u, turns[i]))'
  <2> SUFFICES ASSUME NEW u \in streams', NEW i \in DOMAIN turns PROVE Feeds(u, turns[i])'
    BY <1>7 DEF Others
  <2>1. u \in streams /\ u # s /\ Feeds(u, turns[i])
    BY <1>1 DEF StreamInv
  <2>2. CASE turns[i].id = s.turn
    BY <1>2, <1>8, <1>9, <2>1, <2>2 DEF Feeds, Met, Live
  <2>3. CASE turns[i].id # s.turn
    BY <1>3, <1>8, <2>1, <2>3 DEF Feeds, Met, Live, Lasts
  <2> QED
    BY <2>2, <2>3
<1>17. (\A i \in DOMAIN turns : BubbleTells(turns[i]))'
  <2> SUFFICES ASSUME NEW i \in DOMAIN turns PROVE BubbleTells(turns[i])'
    BY <1>7 DEF Others
  <2>1. BubbleTells(turns[i])
    BY DEF StreamInv
  <2>2. CASE turns[i].id = s.turn
    <3>1. turns[i].ended = "no" \/ <<"late", turns[i].id>> \in mishaps'
      BY <1>9, <2>2 DEF StreamInv, Feeds
    <3> QED
      BY <1>1, <1>3, <1>8, <2>1, <2>2, <3>1 DEF BubbleTells, Met, Lasts
  <2>3. CASE turns[i].id # s.turn
    <3>1. Live(s) => turns[i].run # tracked
      BY <1>2, <2>3 DEF StreamInv, Feeds
    <3> QED
      BY <1>1, <1>2, <1>3, <1>8, <2>1, <2>3, <3>1 DEF BubbleTells, Met, Lasts
  <2> QED
    BY <2>2, <2>3
<1> QED
  BY <1>10, <1>11, <1>12, <1>13, <1>14, <1>15, <1>16, <1>17 DEF StreamInv

LEMMA CancelStep ==
  ASSUME StreamInv, CancelTurn
  PROVE  StreamInv'
<1> DEFINE s == CHOOSE u \in streams : u.no = tracked
           Newly(t) == [t EXCEPT !.streaming = FALSE]
<1>1. /\ loading /\ loading' = FALSE /\ streams' = streams \ {s}
      /\ turns' = [i \in DOMAIN turns |-> IF turns[i].id = s.turn THEN Newly(turns[i]) ELSE turns[i]]
      /\ UNCHANGED <<chats, chat, base, tracked, loads, typed, opened, fetched, mishaps>>
  BY DEF CancelTurn, InTurn
<1>2. s \in streams /\ s.no = tracked /\ Live(s)
  <2>1. PICK u \in streams : Live(u) /\ u.no = tracked
    BY <1>1 DEF StreamInv, Awaited
  <2>2. s \in streams /\ s.no = tracked
    BY <2>1
  <2> HIDE DEF s
  <2> QED
    BY <2>1, <2>2 DEF StreamInv, Numbered
<1> HIDE DEF s
<1>3. \A u \in streams : Live(u) => u = s
  BY <1>2, OneLive
<1>4. loading' \in BOOLEAN /\ ~loading'
  BY <1>1, Zenon
<1>5. \A t \in Turn : /\ Newly(t) \in Turn /\ Newly(t).id = t.id /\ Newly(t).run = t.run
                      /\ ~Newly(t).streaming /\ Newly(t).error = t.error
                      /\ Newly(t).card = t.card /\ Newly(t).ended = t.ended
                      /\ Newly(t).parts = t.parts /\ Newly(t).chat = t.chat
  BY DEF Turn
<1> HIDE DEF Newly
<1>6. /\ turns \in Seq(Turn) /\ \A i \in DOMAIN turns : turns[i] \in Turn
  BY ElementOfSeq, LenProperties DEF StreamInv, StreamTypes
<1>7. Others(s.turn)
  BY <1>1, <1>5, <1>6, Redrawn DEF Others
<1>8. \A i \in DOMAIN turns :
        /\ turns[i] \in Turn /\ turns'[i].id = turns[i].id /\ turns'[i].run = turns[i].run
        /\ turns'[i].error = turns[i].error /\ turns'[i].card = turns[i].card
        /\ turns'[i].ended = turns[i].ended /\ turns'[i].parts = turns[i].parts
        /\ turns'[i].chat = turns[i].chat
        /\ turns[i].id = s.turn => ~turns'[i].streaming
        /\ turns[i].id # s.turn => turns'[i] = turns[i]
  BY <1>1, <1>5, <1>6
<1>10. StreamTypes'
  BY <1>1, <1>4, <1>7 DEF StreamInv, StreamTypes, Others
<1>11. Numbered'
  BY <1>1, <1>7, <1>8 DEF StreamInv, Numbered, Others
<1>12. Awaited'
  BY <1>1, <1>3, <1>4 DEF Awaited, Live
<1>13. Spinning'
  BY <1>4 DEF Spinning
<1>14. Fetches'
  <2>1. turns' # <<>> => turns # <<>>
    BY <1>7 DEF Others
  <2> QED
    BY <1>1, <1>4, <2>1 DEF StreamInv, Fetches, Met
<1>15. (\A u \in streams : Asks(u))'
  BY <1>1 DEF StreamInv, Asks, Met
<1>16. (\A u \in streams, i \in DOMAIN turns : Feeds(u, turns[i]))'
  BY <1>1, <1>7, <1>8 DEF StreamInv, Feeds, Met, Live, Others
<1>17. (\A i \in DOMAIN turns : BubbleTells(turns[i]))'
  <2> SUFFICES ASSUME NEW i \in DOMAIN turns PROVE BubbleTells(turns[i])'
    BY <1>7 DEF Others
  <2>1. BubbleTells(turns[i]) /\ (turns[i].run = tracked => turns[i].id = s.turn)
    BY <1>2 DEF StreamInv, Feeds
  <2> QED
    BY <1>1, <1>4, <1>8, <2>1 DEF BubbleTells, Met
<1> QED
  BY <1>10, <1>11, <1>12, <1>13, <1>14, <1>15, <1>16, <1>17 DEF StreamInv

-----------------------------------------------------------------------------
\* A stream is begun when none is to be waited for.
LEMMA StartFacts ==
  ASSUME StreamInv, ~loading, NEW turn \in Nat, NEW asks \in Nat, NEW clicked \in Nat,
         StartStream(turn, asks, clicked), UNCHANGED chat
  PROVE  /\ \A u \in streams : ~Live(u) /\ u.no \in 1..opened
         /\ opened' = opened + 1 /\ opened \in Nat /\ tracked' = opened + 1
         /\ loading' \in BOOLEAN /\ loading'
         /\ \E new \in Stream :
              /\ streams' = streams \cup {new} /\ Live(new) /\ new.chat = chat'
              /\ new.no = opened + 1 /\ new.turn = turn /\ new.asks = asks /\ new.clicked = clicked
         /\ Awaited'
<1> DEFINE new == [no |-> opened + 1, turn |-> turn, asks |-> asks, clicked |-> clicked,
                   chat |-> chat, at |-> "sent"]
<1>1. /\ opened' = opened + 1 /\ tracked' = opened + 1 /\ loading' = TRUE
      /\ streams' = streams \cup {new} /\ opened \in Nat /\ chat \in Nat
  BY DEF StartStream, StreamInv, StreamTypes
<1>2. \A u \in streams : ~Live(u) /\ u.no \in 1..opened
  BY DEF StreamInv, Awaited, Numbered
<1>3. loading' \in BOOLEAN /\ loading'
  BY <1>1, Zenon
<1>4. /\ new \in Stream /\ Live(new) /\ new.chat = chat' /\ new.no = opened + 1
      /\ new.turn = turn /\ new.asks = asks /\ new.clicked = clicked
  BY <1>1 DEF Stream, Live
<1> HIDE DEF new
<1>5. Awaited'
  BY <1>1, <1>2, <1>3, <1>4 DEF Awaited, Live
<1> QED
  BY <1>1, <1>2, <1>3, <1>4, <1>5

LEMMA AskStep ==
  ASSUME StreamInv, Ask
  PROVE  StreamInv'
<1>1. /\ ~loading /\ typed' = typed + 1 /\ typed \in Nat /\ opened \in Nat
      /\ turns' = Append(turns, Bubble(typed + 1, opened + 1))
      /\ StartStream(typed + 1, typed + 1, 0)
      /\ mishaps' = Without({"early"}) \cup (IF loads = {} THEN {} ELSE {<<"early", 0>>})
      /\ UNCHANGED <<chats, chat, base, loads, fetched>>
  BY DEF Ask, StreamInv, StreamTypes
<1>2. /\ \A u \in streams : ~Live(u) /\ u.no \in 1..opened
      /\ opened' = opened + 1 /\ tracked' = opened + 1
      /\ loading' \in BOOLEAN /\ loading' /\ Awaited'
  BY <1>1, StartFacts
<1>3. PICK new \in Stream :
        /\ streams' = streams \cup {new} /\ Live(new) /\ new.chat = chat'
        /\ new.no = opened + 1 /\ new.turn = typed + 1 /\ new.asks = typed + 1 /\ new.clicked = 0
  BY <1>1, StartFacts
<1>4. Lasts /\ \A id : <<"overlap", id>> \in mishaps => <<"overlap", id>> \in mishaps'
  BY <1>1 DEF Lasts, Without
<1>5. loads # {} => <<"early", 0>> \in mishaps'
  BY <1>1
<1> DEFINE bubble == Bubble(typed + 1, opened + 1)
           last == Len(turns) + 1
<1>6. /\ bubble \in Turn /\ bubble.id = typed + 1 /\ bubble.run = opened + 1 /\ bubble.chat = 0
      /\ bubble.streaming /\ ~bubble.error /\ ~bubble.card
      /\ bubble.ended = "no" /\ bubble.parts = NoParts
  BY <1>1, BubbleTurn
<1> HIDE DEF bubble
<1>7. /\ turns \in Seq(Turn) /\ Len(turns) \in Nat /\ DOMAIN turns = 1..Len(turns)
      /\ \A i \in DOMAIN turns : turns[i] \in Turn
  BY ElementOfSeq, LenProperties DEF StreamInv, StreamTypes
<1>8. /\ turns' \in Seq(Turn) /\ Len(turns') = last /\ turns'[last] = bubble
      /\ \A i \in DOMAIN turns : turns'[i] = turns[i]
  BY <1>1, <1>6, <1>7, AppendProperties DEF bubble
<1>9. DOMAIN turns' = 1..last /\ last \in DOMAIN turns' /\ \A i \in DOMAIN turns' : i = last \/ i \in DOMAIN turns
  BY <1>7, <1>8, LenProperties
<1> HIDE DEF last
<1>10. StreamTypes'
  BY <1>1, <1>2, <1>3, <1>8 DEF StreamInv, StreamTypes
<1>11. Numbered'
  <2>1. \A i \in DOMAIN turns : turns[i].id \in 1..typed /\ turns[i].run \in 1..opened
    BY DEF StreamInv, Numbered
  <2>2. \A i \in DOMAIN turns' :
          /\ turns'[i].id \in 1..typed' /\ turns'[i].run \in 1..opened'
          /\ turns'[i].id = typed + 1 <=> i = last
    BY <1>1, <1>2, <1>6, <1>8, <1>9, <2>1
  <2>3. \A i, j \in DOMAIN turns' : turns'[i].id = turns'[j].id => i = j
    BY <1>8, <1>9, <2>2 DEF StreamInv, Numbered
  <2>4. \A u \in streams' : u.no \in 1..opened'
    BY <1>1, <1>2, <1>3
  <2>5. \A u, v \in streams' : u.no = v.no => u = v
    BY <1>1, <1>2, <1>3 DEF StreamInv, Numbered
  <2> QED
    BY <2>2, <2>3, <2>4, <2>5 DEF Numbered
<1>13. Spinning'
  BY <1>2, <1>6, <1>8, <1>9 DEF Spinning
<1>14. Fetches'
  BY <1>1, <1>4, <1>5 DEF StreamInv, Fetches, Met
<1>15. (\A u \in streams : Asks(u))'
  BY <1>1, <1>3, <1>4 DEF StreamInv, Asks, Met, Lasts
<1>16. (\A u \in streams, i \in DOMAIN turns : Feeds(u, turns[i]))'
  <2> SUFFICES ASSUME NEW u \in streams', NEW i \in DOMAIN turns' PROVE Feeds(u, turns[i])'
    OBVIOUS
  <2>1. i \in DOMAIN turns => turns'[i].id \in 1..typed /\ turns'[i].run \in 1..opened /\ turns'[i] = turns[i]
    BY <1>8 DEF StreamInv, Numbered
  <2>2. CASE u = new
    BY <1>1, <1>3, <1>6, <1>8, <1>9, <2>1, <2>2 DEF Feeds
  <2>3. CASE u \in streams /\ i = last
    BY <1>1, <1>2, <1>6, <1>8, <2>3 DEF Feeds, Live
  <2>4. CASE u \in streams /\ i \in DOMAIN turns
    BY <1>2, <2>1, <2>4 DEF StreamInv, Feeds, Live
  <2> QED
    BY <1>3, <1>9, <2>2, <2>3, <2>4
<1>17. (\A i \in DOMAIN turns : BubbleTells(turns[i]))'
  <2> SUFFICES ASSUME NEW i \in DOMAIN turns' PROVE BubbleTells(turns[i])'
    OBVIOUS
  <2>1. CASE i = last
    <3>1. /\ \A e \in Event : NoParts[e].of = 0 /\ NoParts[e].run = 0
          /\ NoParts["chart"] = NoPart
      BY DEF NoParts, NoPart, Event
    <3>2. turns'[i] = bubble
      BY <1>8, <2>1
    <3>3. /\ \A e \in Event : turns'[i].parts[e].of = 0 /\ turns'[i].parts[e].run = 0
          /\ turns'[i].parts["chart"] = NoPart
      BY <1>6, <3>1, <3>2
    <3> QED
      BY <1>2, <1>6, <3>2, <3>3 DEF BubbleTells
  <2>2. CASE i \in DOMAIN turns
    BY <1>1, <1>4, <1>8, <2>2 DEF StreamInv, BubbleTells, Met, Lasts
  <2> QED
    BY <1>9, <2>1, <2>2
<1> QED
  BY <1>2, <1>10, <1>11, <1>13, <1>14, <1>15, <1>16, <1>17 DEF StreamInv

\* A turn runs again, for the last question.
LEMMA AgainStep ==
  ASSUME StreamInv, ~loading, NEW k \in DOMAIN turns, NEW clicked \in Nat,
         StartStream(turns[k].id, LastUser, clicked), Others(turns[k].id),
         \A i \in DOMAIN turns : turns[i].id = turns[k].id =>
           /\ turns'[i].id = turns[i].id /\ turns'[i].run = opened + 1 /\ turns'[i].streaming
           /\ ~turns'[i].error /\ turns'[i].ended = "no" /\ turns'[i].chat = turns[i].chat
           /\ turns'[i].parts = KeptParts(turns[i])
           /\ turns'[i].card => turns[i].card /\ turns[i].error,
         mishaps \subseteq mishaps', Kept(turns[k].id) \subseteq mishaps',
         \A id \in {turns[k].id, clicked} : id # 0 /\ id # LastUser => <<"mixed", id>> \in mishaps',
         UNCHANGED <<chats, chat, base, loads, typed, fetched>>
  PROVE  StreamInv'
<1> DEFINE id == turns[k].id
           asks == LastUser
<1>1. /\ turns \in Seq(Turn) /\ Len(turns) \in Nat /\ DOMAIN turns = 1..Len(turns)
      /\ \A i \in DOMAIN turns : turns[i] \in Turn
  BY ElementOfSeq, LenProperties DEF StreamInv, StreamTypes
<1>2. id \in 1..typed /\ id \in Nat \ {0} /\ asks \in Nat /\ typed \in Nat
  <2>1. Len(turns) \in DOMAIN turns
    BY <1>1
  <2> QED
    BY <1>1, <2>1 DEF LastUser, StreamInv, StreamTypes, Numbered
<1> HIDE DEF asks
<1>3. /\ \A u \in streams : ~Live(u) /\ u.no \in 1..opened
      /\ opened' = opened + 1 /\ opened \in Nat /\ tracked' = opened + 1
      /\ loading' \in BOOLEAN /\ loading' /\ Awaited'
  BY <1>2, StartFacts DEF asks
<1>4. PICK new \in Stream :
        /\ streams' = streams \cup {new} /\ Live(new) /\ new.chat = chat'
        /\ new.no = opened + 1 /\ new.turn = id /\ new.asks = asks /\ new.clicked = clicked
  BY <1>2, StartFacts DEF asks
<1>5. Lasts
  BY DEF Lasts
<1>6. \A x \in {id, clicked} : x # 0 => x = asks \/ <<"mixed", x>> \in mishaps'
  BY DEF asks
<1>8. \A i \in DOMAIN turns :
        IF i = k
        THEN /\ turns'[i].id = id /\ turns'[i].run = opened + 1 /\ turns'[i].streaming
             /\ ~turns'[i].error /\ turns'[i].ended = "no" /\ turns'[i].chat = turns[i].chat
             /\ turns'[i].parts = KeptParts(turns[i])
             /\ turns'[i].card => turns[i].card /\ turns[i].error
        ELSE turns'[i] = turns[i] /\ turns[i].id # id
  BY DEF Others, StreamInv, Numbered
<1> HIDE DEF id
<1>10. StreamTypes'
  BY <1>3, <1>4 DEF StreamInv, StreamTypes, Others
<1>11. Numbered'
  <2>1. \A i \in DOMAIN turns : turns[i].id \in 1..typed /\ turns[i].run \in 1..opened
    BY DEF StreamInv, Numbered
  <2>2. \A i \in DOMAIN turns :
          turns'[i].id = turns[i].id /\ turns'[i].id \in 1..typed /\ turns'[i].run \in 1..opened'
    <3> SUFFICES ASSUME NEW i \in DOMAIN turns
                 PROVE  /\ turns'[i].id = turns[i].id /\ turns'[i].id \in 1..typed
                        /\ turns'[i].run \in 1..opened'
      OBVIOUS
    <3>1. CASE i = k
      BY <1>2, <1>3, <1>8, <3>1 DEF id
    <3>2. CASE i # k
      BY <1>3, <1>8, <2>1, <3>2
    <3> QED
      BY <3>1, <3>2
  <2>4. \A u \in streams' : u.no \in 1..opened'
    BY <1>3, <1>4
  <2>5. \A u, v \in streams' : u.no = v.no => u = v
    BY <1>3, <1>4 DEF StreamInv, Numbered
  <2> QED
    BY <2>2, <2>4, <2>5 DEF Numbered, Others, StreamInv
<1>13. Spinning'
  BY <1>3, <1>8 DEF Spinning, Others
<1>14. Fetches'
  <2>1. turns # <<>>
    BY <1>1
  <2> QED
    BY <1>5, <2>1 DEF StreamInv, Fetches, Met
<1>15. (\A u \in streams : Asks(u))'
  <2> SUFFICES ASSUME NEW u \in streams' PROVE Asks(u)'
    OBVIOUS
  <2>1. CASE u = new
    BY <1>2, <1>4, <1>6, <2>1 DEF Asks, Met
  <2>2. CASE u \in streams
    BY <1>5, <2>2 DEF StreamInv, Asks, Met, Lasts
  <2> QED
    BY <1>4, <2>1, <2>2
<1>16. (\A u \in streams, i \in DOMAIN turns : Feeds(u, turns[i]))'
  <2> SUFFICES ASSUME NEW u \in streams', NEW i \in DOMAIN turns PROVE Feeds(u, turns[i])'
    BY DEF Others
  <2>1. turns[i].run \in 1..opened
    BY DEF StreamInv, Numbered
  <2>2. CASE u = new /\ i = k
    BY <1>4, <1>8, <2>2 DEF Feeds
  <2>3. CASE u = new /\ i # k
    BY <1>3, <1>4, <1>8, <2>1, <2>3 DEF Feeds
  <2>4. CASE u \in streams /\ i = k
    BY <1>3, <1>8, <2>4 DEF Feeds, Live
  <2>5. CASE u \in streams /\ i # k
    BY <1>3, <1>8, <2>5 DEF StreamInv, Feeds, Live
  <2> QED
    BY <1>4, <2>2, <2>3, <2>4, <2>5
<1>17. (\A i \in DOMAIN turns : BubbleTells(turns[i]))'
  <2> SUFFICES ASSUME NEW i \in DOMAIN turns PROVE BubbleTells(turns[i])'
    BY DEF Others
  <2>1. BubbleTells(turns[i]) /\ turns[i] \in Turn
    BY <1>1 DEF StreamInv
  <2>2. CASE i # k
    BY <1>5, <1>8, <2>1, <2>2 DEF BubbleTells, Met, Lasts
  <2>3. CASE i = k
    <3> DEFINE kept == turns[k].parts["narrative"]
    <3>1. kept # NoPart => <<"kept", id>> \in mishaps'
      BY DEF Kept, OnScreen, id
    <3>2. \A e \in Event : turns'[k].parts[e] = NoPart \/ turns'[k].parts[e] = kept
      BY <1>8, KeptPartsFacts DEF Event
    <3>3. turns'[k].parts["chart"] = NoPart
      BY <1>8, KeptPartsFacts
    <3>4. kept.of \in {0, id} \/ <<"mixed", id>> \in mishaps'
      BY <1>5, <2>1, <2>3 DEF BubbleTells, Met, Lasts, id, Event
    <3>5. turns'[k].card => <<"late", id>> \in mishaps'
      BY <1>5, <1>8, <2>1, <2>3 DEF BubbleTells, Met, Lasts, id
    <3>6. NoPart.of = 0 /\ NoPart.run = 0
      BY DEF NoPart
    <3>7. \A e \in Event : /\ turns'[k].parts[e].of \in {0, id} \/ <<"mixed", id>> \in mishaps'
                           /\ turns'[k].parts[e].run \in {0, opened + 1} \/ <<"kept", id>> \in mishaps'
      BY <3>1, <3>2, <3>4, <3>6
    <3>8. turns'[k].chat \in {0, chat'}
      BY <1>8, <2>1, <2>3 DEF BubbleTells
    <3> QED
      BY <1>3, <1>8, <2>3, <3>3, <3>5, <3>7, <3>8 DEF BubbleTells, Met
  <2> QED
    BY <2>2, <2>3
<1> QED
  BY <1>3, <1>10, <1>11, <1>13, <1>14, <1>15, <1>16, <1>17 DEF StreamInv

LEMMA ConfirmStep ==
  ASSUME StreamInv, NEW t \in OnScreen, ConfirmLargeQuery(t)
  PROVE  StreamInv'
<1> DEFINE Again(u) == Reset(u, opened + 1)
           Newly(u) == [Again(u) EXCEPT !.card = FALSE]
<1>1. /\ t.card /\ ~t.error /\ ~loading
      /\ turns' = [i \in DOMAIN turns |-> IF turns[i].id = Pending THEN Newly(turns[i]) ELSE turns[i]]
      /\ StartStream(Pending, LastUser, t.id)
      /\ mishaps' = mishaps \cup {<<"mixed", id>> : id \in {t.id, Pending} \ {LastUser}} \cup Kept(Pending)
      /\ UNCHANGED <<chats, chat, base, loads, typed, fetched>>
  BY DEF ConfirmLargeQuery, InTurn
<1>2. /\ turns \in Seq(Turn) /\ \A i \in DOMAIN turns : turns[i] \in Turn
      /\ opened + 1 \in Nat
  BY ElementOfSeq, LenProperties DEF StreamInv, StreamTypes
<1>3. PICK j \in DOMAIN turns : t = turns[j]
  BY DEF OnScreen
<1>4. PICK k \in DOMAIN turns : Pending = turns[k].id
  BY <1>1, <1>2, <1>3, PendingIsTurn
<1>5. t.id \in Nat
  BY <1>2, <1>3 DEF Turn
<1>6. \A u \in Turn : /\ Newly(u) \in Turn /\ Newly(u).id = u.id /\ Newly(u).run = opened + 1
                      /\ Newly(u).streaming /\ ~Newly(u).error /\ ~Newly(u).card
                      /\ Newly(u).ended = "no" /\ Newly(u).chat = u.chat
                      /\ Newly(u).parts = KeptParts(u)
  <2> SUFFICES ASSUME NEW u \in Turn
               PROVE  /\ Newly(u) \in Turn /\ Newly(u).id = u.id /\ Newly(u).run = opened + 1
                      /\ Newly(u).streaming /\ ~Newly(u).error /\ ~Newly(u).card
                      /\ Newly(u).ended = "no" /\ Newly(u).chat = u.chat
                      /\ Newly(u).parts = KeptParts(u)
    OBVIOUS
  <2>1. /\ Again(u) \in Turn /\ Again(u).id = u.id /\ Again(u).run = opened + 1
        /\ Again(u).streaming /\ ~Again(u).error /\ Again(u).ended = "no"
        /\ Again(u).chat = u.chat /\ Again(u).parts = KeptParts(u)
    BY <1>2, ResetTurn
  <2> HIDE DEF Again
  <2> QED
    BY <2>1 DEF Turn
<1> HIDE DEF Again, Newly
<1>7. Others(Pending)
  BY <1>1, <1>2, <1>6, Redrawn DEF Others
<1>8. \A i \in DOMAIN turns : turns[i].id = Pending =>
        /\ turns'[i].id = turns[i].id /\ turns'[i].run = opened + 1 /\ turns'[i].streaming
        /\ ~turns'[i].error /\ turns'[i].ended = "no" /\ turns'[i].chat = turns[i].chat
        /\ turns'[i].parts = KeptParts(turns[i])
        /\ turns'[i].card => turns[i].card /\ turns[i].error
  BY <1>1, <1>2, <1>6
<1>9. \A id \in {Pending, t.id} : id # 0 /\ id # LastUser => <<"mixed", id>> \in mishaps'
  BY <1>1
<1>10. mishaps \subseteq mishaps' /\ Kept(Pending) \subseteq mishaps'
  BY <1>1
<1> QED
  BY <1>1, <1>4, <1>5, <1>7, <1>8, <1>9, <1>10, AgainStep

LEMMA RetryStep ==
  ASSUME StreamInv, NEW t \in OnScreen, RetryTurn(t)
  PROVE  StreamInv'
<1> DEFINE Newly(u) == Reset(u, opened + 1)
<1>1. /\ t.error /\ ~loading
      /\ turns' = [i \in DOMAIN turns |-> IF turns[i].id = t.id THEN Newly(turns[i]) ELSE turns[i]]
      /\ StartStream(t.id, LastUser, 0)
      /\ mishaps' = mishaps \cup {<<"mixed", id>> : id \in {t.id} \ {LastUser}} \cup Kept(t.id)
      /\ UNCHANGED <<chats, chat, base, loads, typed, fetched>>
  BY DEF RetryTurn, InTurn
<1>2. /\ turns \in Seq(Turn) /\ \A i \in DOMAIN turns : turns[i] \in Turn
      /\ opened + 1 \in Nat
  BY ElementOfSeq, LenProperties DEF StreamInv, StreamTypes
<1>3. PICK k \in DOMAIN turns : t = turns[k]
  BY DEF OnScreen
<1>6. \A u \in Turn : /\ Newly(u) \in Turn /\ Newly(u).id = u.id /\ Newly(u).run = opened + 1
                      /\ Newly(u).streaming /\ ~Newly(u).error /\ Newly(u).card = u.card
                      /\ Newly(u).ended = "no" /\ Newly(u).chat = u.chat
                      /\ Newly(u).parts = KeptParts(u)
  BY <1>2, ResetTurn
<1> HIDE DEF Newly
<1>7. Others(t.id)
  BY <1>1, <1>2, <1>6, Redrawn DEF Others
<1>8. \A i \in DOMAIN turns : turns[i].id = t.id => i = k
  BY <1>3 DEF StreamInv, Numbered
<1>9. \A i \in DOMAIN turns : turns[i].id = t.id =>
        /\ turns'[i].id = turns[i].id /\ turns'[i].run = opened + 1 /\ turns'[i].streaming
        /\ ~turns'[i].error /\ turns'[i].ended = "no" /\ turns'[i].chat = turns[i].chat
        /\ turns'[i].parts = KeptParts(turns[i])
        /\ turns'[i].card => turns[i].card /\ turns[i].error
  BY <1>1, <1>2, <1>3, <1>6, <1>8
<1>10. \A id \in {t.id, 0} : id # 0 /\ id # LastUser => <<"mixed", id>> \in mishaps'
  BY <1>1
<1>11. mishaps \subseteq mishaps' /\ Kept(t.id) \subseteq mishaps'
  BY <1>1
<1> QED
  BY <1>1, <1>3, <1>7, <1>9, <1>10, <1>11, AgainStep

-----------------------------------------------------------------------------
\* The screen is cleared.
LEMMA ClearedStep ==
  ASSUME StreamInv, turns' = <<>>, StreamTypes', Spinning', Fetches', Lasts,
         UNCHANGED <<loading, tracked, streams, typed, opened>>,
         \A s \in streams : Live(s) => UNCHANGED chat
  PROVE  StreamInv'
<1>1. DOMAIN turns' = {}
  OBVIOUS
<1>2. Numbered' /\ Awaited'
  BY <1>1 DEF StreamInv, Numbered, Awaited, Live
<1>3. (\A s \in streams : Asks(s))'
  BY DEF StreamInv, Asks, Met, Lasts, Live
<1> QED
  BY <1>1, <1>2, <1>3 DEF StreamInv

LEMMA LeavesFacts ==
  ASSUME Leaves
  PROVE  Lasts /\ (loads # {} => Met("overlap", 0)') /\ (Met("early", 0) => Met("early", 0)')
BY DEF Leaves, Lasts, Without, Met

LEMMA SelectStep ==
  ASSUME StreamInv, NEW c \in chats, HandleSelect(c)
  PROVE  StreamInv'
<1>1. /\ ~loading /\ chat' = c /\ base' = 0 /\ turns' = <<>> /\ fetched' = fetched + 1 /\ Leaves
      /\ loads' = loads \cup {[no |-> fetched + 1, chat |-> c]}
      /\ UNCHANGED <<chats, loading, tracked, streams, typed, opened>>
  BY DEF HandleSelect
<1>2. StreamTypes'
  BY <1>1 DEF StreamInv, StreamTypes
<1>3. Spinning' /\ \A s \in streams : ~Live(s)
  BY <1>1 DEF StreamInv, Spinning, Awaited
<1>4. Fetches'
  BY <1>1, LeavesFacts DEF Fetches, Met
<1> QED
  BY <1>1, <1>2, <1>3, <1>4, LeavesFacts, ClearedStep

LEMMA NewChatStep ==
  ASSUME StreamInv, HandleNewChat
  PROVE  StreamInv'
<1>1. /\ ~loading /\ chat' = 0 /\ base' = 0 /\ turns' = <<>> /\ Leaves
      /\ UNCHANGED <<chats, loading, tracked, streams, loads, typed, opened, fetched>>
  BY DEF HandleNewChat
<1>2. StreamTypes'
  BY <1>1 DEF StreamInv, StreamTypes
<1>3. Spinning' /\ \A s \in streams : ~Live(s)
  BY <1>1 DEF StreamInv, Spinning, Awaited
<1>4. Fetches'
  BY <1>1, LeavesFacts DEF Fetches, Met
<1> QED
  BY <1>1, <1>2, <1>3, <1>4, LeavesFacts, ClearedStep

LEMMA ArrivesStep ==
  ASSUME StreamInv, NEW l \in loads, NEW failed \in BOOLEAN, HistoryArrives(l, failed)
  PROVE  StreamInv'
<1>1. /\ loads' = loads \ {l} /\ base' = (IF failed THEN 0 ELSE l.chat) /\ turns' = <<>>
      /\ UNCHANGED <<chats, chat, loading, tracked, streams, typed, opened, fetched, mishaps>>
  BY DEF HistoryArrives
<1>2. StreamTypes'
  BY <1>1 DEF StreamInv, StreamTypes
<1>3. Spinning'
  BY <1>1 DEF StreamInv, Spinning, Fetches, Met
<1>4. Fetches' /\ Lasts
  BY <1>1 DEF StreamInv, Fetches, Met, Lasts
<1> QED
  BY <1>1, <1>2, <1>3, <1>4, ClearedStep

-----------------------------------------------------------------------------
LEMMA StreamInvInit == StreamInit => StreamInv
<1> SUFFICES ASSUME StreamInit PROVE StreamInv
  OBVIOUS
<1>1. StreamTypes
  <2>1. loading \in BOOLEAN
    BY Zenon DEF StreamInit
  <2>2. turns \in Seq(Turn)
    BY EmptySeq DEF StreamInit
  <2>3. OldChats \in Nat /\ chats \subseteq Nat \ {0}
    BY StreamAssumption DEF StreamInit
  <2> QED
    BY <2>1, <2>2, <2>3 DEF StreamInit, StreamTypes
<1>2. DOMAIN turns = {} /\ streams = {} /\ ~loading
  BY DEF StreamInit
<1>3. Fetches
  BY DEF StreamInit, Fetches
<1> QED
  BY <1>1, <1>2, <1>3 DEF StreamInv, Numbered, Awaited, Spinning

LEMMA StreamInvStep == StreamInv /\ [StreamNext]_streamVars => StreamInv'
<1> SUFFICES ASSUME StreamInv, [StreamNext]_streamVars PROVE StreamInv'
  OBVIOUS
<1>1. CASE UNCHANGED streamVars
  <2>1. StreamTypes' /\ Numbered'
    BY <1>1 DEF streamVars, StreamInv, StreamTypes, Numbered
  <2>2. Awaited' /\ Spinning' /\ Fetches'
    BY <1>1 DEF streamVars, StreamInv, Awaited, Spinning, Fetches, Met, Live
  <2>3. (\A s \in streams : Asks(s))'
    BY <1>1 DEF streamVars, StreamInv, Asks, Met
  <2>4. (\A s \in streams, i \in DOMAIN turns : Feeds(s, turns[i]))'
    BY <1>1 DEF streamVars, StreamInv, Feeds, Met, Live
  <2>5. (\A i \in DOMAIN turns : BubbleTells(turns[i]))'
    BY <1>1 DEF streamVars, StreamInv, BubbleTells, Met
  <2> QED
    BY <2>1, <2>2, <2>3, <2>4, <2>5 DEF StreamInv
<1>2. CASE Ask \/ CancelTurn \/ HandleNewChat
  BY <1>2, AskStep, CancelStep, NewChatStep
<1>3. CASE \E t \in OnScreen : ConfirmLargeQuery(t) \/ RetryTurn(t)
  BY <1>3, ConfirmStep, RetryStep
<1>4. CASE \E s \in streams : StreamStarts(s) \/ StreamCloses(s) \/ StreamBreaks(s)
  BY <1>4, StreamStartsStep, StreamClosesStep, StreamBreaksStep
<1>5. CASE \E s \in streams, e \in DOMAIN NoParts : UpdateMessageStage(s, e)
  BY <1>5, UpdateStep, PartsType
<1>6. CASE \E s \in streams, how \in {"answer", "card", "failed"} : StreamEnds(s, how)
  BY <1>6, StreamEndsStep
<1>7. CASE \E c \in chats : HandleSelect(c)
  BY <1>7, SelectStep
<1>8. CASE \E l \in loads, failed \in BOOLEAN : HistoryArrives(l, failed)
  BY <1>8, ArrivesStep
<1> QED
  BY <1>1, <1>2, <1>3, <1>4, <1>5, <1>6, <1>7, <1>8 DEF StreamNext

LEMMA StreamInvTells == StreamInv => ScreenTells
<1> SUFFICES ASSUME StreamInv PROVE ScreenTells
  OBVIOUS
<1>1. WaitsForOne
  <2>1. {s.no : s \in {u \in streams : u.at # "done"}} = (IF loading THEN {tracked} ELSE {})
    BY DEF StreamInv, Awaited, Live
  <2>2. loading => \/ \E t \in OnScreen : t.run = tracked /\ (t.streaming \/ Met("late", t.id))
                   \/ Met("early", 0)
    BY DEF StreamInv, Spinning, OnScreen
  <2>3. \A t \in OnScreen : t.streaming => (loading /\ t.run = tracked) \/ Met("closed", t.id)
    BY DEF StreamInv, BubbleTells, OnScreen
  <2> QED
    BY <2>1, <2>2, <2>3 DEF WaitsForOne
<1>2. ShowsItsOwn
  <2>1. \A s \in streams : s.clicked # 0 => s.asks = s.clicked \/ Met("mixed", s.clicked)
    BY DEF StreamInv, Asks
  <2> QED
    BY <2>1, PartsType DEF StreamInv, BubbleTells, OnScreen, ShowsItsOwn
<1>3. EndsAsTold
  BY DEF StreamInv, BubbleTells, OnScreen, EndsAsTold
<1>4. OfOneChat
  BY DEF StreamInv, Fetches, BubbleTells, OnScreen, OfOneChat
<1> QED
  BY <1>1, <1>2, <1>3, <1>4 DEF ScreenTells

\* useChatStream and ChatView: however many questions, streams and histories, what the
\* browser shows is what the user selected, asked and confirmed, and what the server told
\* about it, but for the mishaps.
THEOREM ScreenTellsHolds == StreamSpec => []ScreenTells
BY StreamInvInit, StreamInvStep, StreamInvTells, PTL DEF StreamSpec

-----------------------------------------------------------------------------
(***************************************************************************)
(* PromptContext, for any prompts, workers, questions, times to live and   *)
(* faults: what a prompt is told.  A copy was selected for some question,  *)
(* and how long it may have been wrong follows from its age and its place: *)
(* it was at most in transit when it came to Redis, and at most a life     *)
(* older when a worker took it from there (KeptAt); what is on its way has *)
(* been wrong no longer than it has been under way (MakingOK).             *)
(***************************************************************************)

Ways == {"best", "words", "failure"}
Contexts == [of : Question \cup {"nothing", Whole}, by : Ways \cup {"nothing"},
           stale : Nat \cup {Right}, age : Nat]
\* A copy was selected for some question, and none of metrics is of a failure.
Selected(copy) ==
    /\ copy.by \in Ways /\ \E question \in Question : copy.of = Selection(question)
    /\ subject \in Metrics => copy.by = "best"
\* How long a copy may have been wrong when it was put there.
Late(p) == IF p = "redis" THEN Transit ELSE Life[subject] - 1 + Transit
KeptAt(p, copy) ==
    /\ copy \in Contexts
    /\ copy # NoContext =>
         Selected(copy) /\ copy.age <= LastAge(p) /\ copy.stale <= copy.age + Late(p)
\* What a prompt waits for, and how long what was read has been on its way.
Awaiting == [at : {"embedding", "source", "back"}, server : Server, question : Question,
             by : Ways, stale : Nat \cup {Right}, wait : Nat, kept : BOOLEAN]
MakingOK(m) ==
    m # Idle =>
      /\ m \in Awaiting /\ m.wait <= Transit /\ m.stale <= m.wait
      /\ m.at # "back" => m.stale = Right
      /\ subject \in Metrics => m.by = "best" /\ m.at # "embedding"
ContextKept == context \in [Spots -> Contexts] /\ \A p \in Spots : KeptAt(p, context[p])
MakingKept == DOMAIN making = Prompt /\ \A r \in Prompt : MakingOK(making[r])
ContextInv == subject \in Subjects /\ ContextKept /\ MakingKept /\ PromptsAreTold

-----------------------------------------------------------------------------
LEMMA LifeFacts ==
  ASSUME subject \in Subjects
  PROVE  Life[subject] \in Nat /\ Life[subject] >= 1 /\ Transit \in Nat
BY ContextAssumption

LEMMA NoContextKept == ASSUME NEW p PROVE KeptAt(p, NoContext)
BY DEF KeptAt, NoContext, Contexts

\* A copy fits a question: it is of the question, or the key has no question.
LEMMA FitsOwn ==
  ASSUME subject \in Subjects, NEW copy, NEW question \in Question,
         Selected(copy), Key(copy.of) = Key(question)
  PROVE  copy.of = Selection(question) \/ subject = "many metrics"
BY DEF Selected, Key, Selection, Subjects, Metrics, Searched

-----------------------------------------------------------------------------
\* Nothing is told.
LEMMA QuietTold == ASSUME subject \in Subjects, subject' = subject, Quiet PROVE PromptsAreTold'
<1>1. given' = NothingGiven BY DEF Quiet
<1> QED BY <1>1, LifeFacts
  DEF NothingGiven, PromptsAreTold, GivenIsRecent, GivenIsOwn, MetricsRecover, Right

\* Placing a copy where it may be.
LEMMA PlacedKept ==
  ASSUME ContextKept, NEW copy, NEW h \in Server, NEW redis \in BOOLEAN, subject' = subject,
         KeptAt(h, copy), redis => KeptAt("redis", copy), context' = Placed(copy, h, redis)
  PROVE  ContextKept'
<1>1. \A p \in Spots : KeptAt(p, context'[p])
  BY DEF ContextKept, Placed
<1>2. \A p \in Spots : context'[p] \in Contexts
  BY <1>1 DEF KeptAt
<1>3. context' \in [Spots -> Contexts]
  BY <1>2 DEF Placed
<1>4. \A p, c : KeptAt(p, c) => KeptAt(p, c)'
  BY DEF KeptAt, Selected, Selection, Late, LastAge
<1> QED BY <1>1, <1>3, <1>4 DEF ContextKept

LEMMA SameContext ==
  ASSUME ContextKept, subject' = subject, UNCHANGED context
  PROVE  ContextKept'
BY DEF ContextKept, KeptAt, Selected, Selection, Late, LastAge

LEMMA SomeRemoved ==
  ASSUME ContextKept, subject' = subject, NEW gone,
         context' = [p \in Spots |-> IF p \in gone THEN NoContext ELSE context[p]]
  PROVE  ContextKept'
<1>1. \A p \in Spots : KeptAt(p, context'[p])
  BY NoContextKept DEF ContextKept
<1>2. \A p \in Spots : context'[p] \in Contexts
  BY <1>1 DEF KeptAt
<1>3. \A p, c : KeptAt(p, c) => KeptAt(p, c)'
  BY DEF KeptAt, Selected, Selection, Late, LastAge
<1> QED BY <1>1, <1>2, <1>3 DEF ContextKept

LEMMA OneMaking ==
  ASSUME MakingKept, subject' = subject, NEW r \in Prompt, NEW m, MakingOK(m),
         making' = [making EXCEPT ![r] = m]
  PROVE  MakingKept'
<1>1. \A q \in Prompt : MakingOK(making'[q])
  BY DEF MakingKept
<1>2. DOMAIN making' = Prompt
  BY DEF MakingKept
<1>3. \A n : MakingOK(n) => MakingOK(n)'
  BY DEF MakingOK, Idle
<1> QED BY <1>1, <1>2, <1>3 DEF MakingKept

LEMMA SameMaking == ASSUME MakingKept, subject' = subject, UNCHANGED making PROVE MakingKept'
BY DEF MakingKept, MakingOK

LEMMA IdleOK == MakingOK(Idle)
BY DEF MakingOK

-----------------------------------------------------------------------------
LEMMA RetrieveStep ==
  ASSUME ContextInv, subject' = subject, NEW r \in Prompt, NEW h \in Server,
         NEW question \in Question, NEW kept \in BOOLEAN, Retrieve(r, h, question, kept)
  PROVE  ContextInv'
<1> DEFINE m == [at |-> IF subject \in Metrics THEN "source" ELSE "embedding", server |-> h,
                 question |-> question, by |-> "best", stale |-> Right, wait |-> 0, kept |-> kept]
<1>1. MakingOK(m)
  <2>1. m \in Awaiting
    BY DEF Awaiting, Ways
  <2> QED BY <2>1, LifeFacts DEF MakingOK, Right, ContextInv
<1>2. making' = [making EXCEPT ![r] = m]
  BY DEF Retrieve
<1> HIDE DEF m
<1>3. MakingKept'
  BY <1>1, <1>2, OneMaking DEF ContextInv
<1> QED BY <1>3, SameContext, QuietTold DEF Retrieve, ContextInv

\* What a worker finds may be told, and kept by the worker.
LEMMA FoundKept ==
  ASSUME ContextInv, NEW h \in Server, NEW question \in Question, NEW redis \in BOOLEAN,
         NEW copy, copy = Found(h, question, redis), copy # NoContext
  PROVE  /\ KeptAt(h, copy)
         /\ Selected(copy) /\ Key(copy.of) = Key(question)
         /\ copy.stale <= 2 * Life[subject] + Transit - 1
<1>0. /\ h \in Spots /\ "redis" \in Spots
      /\ \A p \in Spots : KeptAt(p, context[p])
  BY DEF ContextInv, ContextKept, Spots
<1>1. CASE Fits(context[h], question)
  <2>1. copy = context[h] /\ KeptAt(h, copy)
    BY <1>0, <1>1 DEF Found
  <2>2. copy.stale <= 2 * Life[subject] + Transit - 1
    <3>1. copy.stale \in Int /\ copy.age \in Nat /\ copy.age <= Life[subject]
      BY <2>1, LifeFacts DEF KeptAt, Contexts, LastAge, Right, ContextInv
    <3>2. copy.stale <= copy.age + Life[subject] - 1 + Transit
      BY <2>1, <3>1, LifeFacts DEF KeptAt, Late, ContextInv
    <3> QED BY <3>1, <3>2, LifeFacts DEF ContextInv
  <2> QED BY <1>1, <2>1, <2>2 DEF KeptAt, Fits
<1>2. CASE ~Fits(context[h], question) /\ redis /\ Fits(context["redis"], question)
  <2> DEFINE old == context["redis"]
  <2>1. copy = [old EXCEPT !.age = 0] /\ KeptAt("redis", old) /\ old # NoContext
    BY <1>0, <1>2 DEF Found, Fits
  <2>2. old \in Contexts /\ Selected(old) /\ Key(old.of) = Key(question)
    BY <1>2, <2>1 DEF KeptAt, Fits
  <2> HIDE DEF old
  <2>3. /\ copy \in Contexts /\ copy.of = old.of /\ copy.by = old.by
        /\ copy.stale = old.stale /\ copy.age = 0
    BY <2>1, <2>2 DEF Contexts
  <2>4. h # "redis"
    BY <1>2
  <2>5. copy.stale <= Life[subject] - 1 + Transit
    <3>1. old.stale \in Int /\ old.age \in Nat /\ old.age <= Life[subject] - 1
      BY <2>1, <2>2 DEF KeptAt, LastAge, Contexts, Right
    <3>2. old.stale <= old.age + Transit
      BY <2>1 DEF KeptAt, Late
    <3> QED BY <2>3, <3>1, <3>2, LifeFacts DEF ContextInv
  <2>6. copy.stale \in Int
    BY <2>3 DEF Contexts, Right
  <2>7. Selected(copy)
    BY <2>2, <2>3 DEF Selected
  <2>8. KeptAt(h, copy)
    BY <2>3, <2>4, <2>5, <2>6, <2>7, LifeFacts DEF KeptAt, LastAge, Late, ContextInv
  <2> QED BY <2>2, <2>3, <2>5, <2>6, <2>7, <2>8, LifeFacts DEF ContextInv
<1> QED BY <1>1, <1>2 DEF Found

LEMMA GatherStep ==
  ASSUME ContextInv, subject' = subject, NEW r \in Prompt, NEW h \in Server,
         NEW question \in Question, GatherContext(r, h, question)
  PROVE  ContextInv'
<1>1. PICK redis \in RedisAnswers :
        LET copy == Found(h, question, redis)
        IN \/ /\ copy # NoContext
              /\ context' = Placed(copy, h, FALSE)
              /\ Give(question, copy.of, copy.by, copy.stale, TRUE)
              /\ UNCHANGED making
           \/ copy = NoContext /\ Retrieve(r, h, question, TRUE)
  BY DEF GatherContext
<1>2. redis \in BOOLEAN
  BY DEF RedisAnswers
<1> DEFINE copy == Found(h, question, redis)
<1>3. CASE copy = NoContext
  BY <1>1, <1>3, RetrieveStep
<1>4. CASE copy # NoContext
  <2>1. /\ context' = Placed(copy, h, FALSE) /\ UNCHANGED making
        /\ Give(question, copy.of, copy.by, copy.stale, TRUE)
    BY <1>1, <1>4
  <2>2. /\ KeptAt(h, copy) /\ Selected(copy) /\ Key(copy.of) = Key(question)
        /\ copy.stale <= 2 * Life[subject] + Transit - 1
    BY <1>2, <1>4, FoundKept
  <2> HIDE DEF copy
  <2>3. ContextKept' /\ MakingKept'
    BY <2>1, <2>2, PlacedKept, SameMaking DEF ContextInv
  <2>4. copy.of = Selection(question) \/ subject = "many metrics"
    BY <2>2, FitsOwn DEF ContextInv
  <2>5. /\ given'.question = question /\ given'.of = copy.of /\ given'.by = copy.by
        /\ given'.stale = copy.stale /\ given'.cached = TRUE
    BY <2>1 DEF Give
  <2>6. GivenIsRecent'
    BY <2>2, <2>5 DEF GivenIsRecent
  <2>7. GivenIsOwn'
    BY <2>4, <2>5 DEF GivenIsOwn, Selection
  <2>8. MetricsRecover'
    BY <2>2, <2>5 DEF MetricsRecover, Selected
  <2> QED BY <2>3, <2>6, <2>7, <2>8 DEF ContextInv, PromptsAreTold
<1> QED BY <1>3, <1>4

-----------------------------------------------------------------------------
\* Another stage of a prompt.
LEMMA MovedOK ==
  ASSUME NEW m, MakingOK(m), m \in Awaiting, m.at # "back",
         NEW at \in {"source", "back"}, NEW by \in Ways, NEW stale \in {Right, 0},
         at # "back" => stale = Right, subject \in Metrics => by = "best",
         NEW n, n = [m EXCEPT !.at = at, !.by = by, !.stale = stale]
  PROVE  MakingOK(n)
<1>1. n \in Awaiting /\ n.at = at /\ n.by = by /\ n.stale = stale /\ n.wait = m.wait
  <2> DEFINE m1 == [m EXCEPT !.at = at]
             m2 == [m1 EXCEPT !.by = by]
  <2>1. m1 \in Awaiting /\ m1.at = at /\ m1.wait = m.wait
    BY DEF Awaiting
  <2>2. n = [m2 EXCEPT !.stale = stale]
    OBVIOUS
  <2> HIDE DEF m1
  <2>3. m2 \in Awaiting /\ m2.at = at /\ m2.wait = m.wait /\ m2.by = by
    BY <2>1 DEF Awaiting
  <2> HIDE DEF m2
  <2> QED BY <2>2, <2>3 DEF Awaiting
<1>2. m.wait \in Nat /\ n.wait <= Transit
  <2>1. m # Idle
    BY DEF Awaiting, Idle
  <2> QED BY <1>1, <2>1 DEF MakingOK, Awaiting
<1>3. n.at # "embedding"
  BY <1>1
<1> QED BY <1>1, <1>2, <1>3 DEF MakingOK, Right

LEMMA Waits ==
  ASSUME MakingKept, NEW r \in Prompt, making[r].at # "idle"
  PROVE  making[r] \in Awaiting /\ MakingOK(making[r])
BY DEF MakingKept, MakingOK, Idle

LEMMA EmbedStep ==
  ASSUME ContextInv, subject' = subject, NEW r \in Prompt, Embed(r)
  PROVE  ContextInv'
<1>1. PICK by \in {"best", "words"} :
        making' = [making EXCEPT ![r] = [making[r] EXCEPT !.at = "source", !.by = by]]
  BY DEF Embed
<1> DEFINE m == making[r]
           n == [m EXCEPT !.at = "source", !.by = by]
<1>2. m.at = "embedding" /\ m \in Awaiting /\ MakingOK(m)
  BY Waits DEF Embed, ContextInv
<1>3. making' = [making EXCEPT ![r] = n]
  BY <1>1
<1> HIDE DEF m
<1>4. subject \notin Metrics /\ m.stale = Right
  BY <1>2 DEF MakingOK, Awaiting, Idle
<1>5. n = [m EXCEPT !.at = "source", !.by = by, !.stale = Right]
  BY <1>2, <1>4 DEF Awaiting
<1> HIDE DEF n
<1>6. MakingOK(n)
  BY <1>2, <1>4, <1>5, MovedOK DEF Ways
<1>7. MakingKept'
  BY <1>3, <1>6, OneMaking DEF ContextInv
<1> QED BY <1>7, SameContext, QuietTold DEF Embed, ContextInv

\* What was read is on its way.
LEMMA BackStep ==
  ASSUME ContextInv, subject' = subject, NEW r \in Prompt, making[r].at = "source",
         NEW by \in Ways, subject \in Metrics => by = "best",
         Back(r, by), Quiet, UNCHANGED context
  PROVE  ContextInv'
<1> DEFINE m == making[r]
           stale == IF by = "best" THEN Right ELSE 0
           n == [m EXCEPT !.at = "back", !.by = by, !.stale = stale]
<1>1. m.at = "source" /\ m \in Awaiting /\ MakingOK(m)
  BY Waits DEF ContextInv
<1>2. making' = [making EXCEPT ![r] = n]
  BY DEF Back
<1>3. stale \in {Right, 0}
  OBVIOUS
<1> HIDE DEF m, stale
<1>4. n = [m EXCEPT !.at = "back", !.by = by, !.stale = stale]
  OBVIOUS
<1> HIDE DEF n
<1>5. MakingOK(n)
  BY <1>1, <1>3, <1>4, MovedOK
<1>6. MakingKept'
  BY <1>2, <1>5, OneMaking DEF ContextInv
<1> QED BY <1>6, SameContext, QuietTold DEF ContextInv

LEMMA ReadSourceStep ==
  ASSUME ContextInv, subject' = subject, NEW r \in Prompt, ReadSource(r)
  PROVE  ContextInv'
<1>1. making[r].at = "source" /\ making[r] \in Awaiting /\ MakingOK(making[r])
  BY Waits DEF ReadSource, ContextInv
<1>2. making[r].by \in Ways /\ (subject \in Metrics => making[r].by = "best")
  BY <1>1 DEF MakingOK, Awaiting, Idle
<1> QED BY <1>1, <1>2, BackStep DEF ReadSource

LEMMA SourceFailsStep ==
  ASSUME ContextInv, subject' = subject, NEW r \in Prompt, SourceFails(r)
  PROVE  ContextInv'
<1> DEFINE m == making[r]
<1>1. m.at = "source" /\ m \in Awaiting /\ MakingOK(m) /\ UNCHANGED context
  BY Waits DEF SourceFails, ContextInv
<1>2. CASE subject = "wiki" /\ making' = [making EXCEPT ![r] = [@ EXCEPT !.by = "words"]] /\ Quiet
  <2> DEFINE n == [m EXCEPT !.by = "words"]
  <2>1. making' = [making EXCEPT ![r] = n]
    BY <1>2
  <2> HIDE DEF m
  <2>2. m.stale = Right
    BY <1>1 DEF MakingOK, Awaiting, Idle
  <2>3. n = [m EXCEPT !.at = "source", !.by = "words", !.stale = Right]
    BY <1>1, <2>2 DEF Awaiting
  <2>4. subject \notin Metrics
    BY <1>2 DEF Metrics
  <2> HIDE DEF n
  <2>5. MakingOK(n)
    BY <1>1, <2>3, <2>4, MovedOK DEF Ways
  <2>6. MakingKept'
    BY <2>1, <2>5, OneMaking DEF ContextInv
  <2> QED BY <1>1, <1>2, <2>6, SameContext, QuietTold DEF ContextInv
<1>3. CASE subject \in Searched /\ Back(r, "failure") /\ Quiet
  BY <1>1, <1>3, BackStep DEF Ways, Searched, Metrics
<1>4. CASE /\ Give(making[r].question, "nothing", "failure", 0, FALSE)
           /\ making' = [making EXCEPT ![r] = Idle]
  <2>1. MakingKept'
    BY <1>4, IdleOK, OneMaking DEF ContextInv
  <2>2. given'.by = "failure" /\ given'.stale = 0 /\ given'.cached = FALSE
    BY <1>4 DEF Give
  <2>3. GivenIsOwn' /\ MetricsRecover'
    BY <2>2 DEF GivenIsOwn, MetricsRecover
  <2>4. GivenIsRecent'
    BY <2>2, LifeFacts DEF GivenIsRecent, ContextInv
  <2> QED BY <1>1, <2>1, <2>3, <2>4, SameContext DEF ContextInv, PromptsAreTold
<1> QED BY <1>2, <1>3, <1>4 DEF SourceFails

LEMMA ReceiveStep ==
  ASSUME ContextInv, subject' = subject, NEW r \in Prompt, Receive(r)
  PROVE  ContextInv'
<1> DEFINE m == making[r]
           copy == [of |-> Selection(m.question), by |-> m.by, stale |-> m.stale, age |-> 0]
<1>1. m.at = "back" /\ m \in Awaiting /\ MakingOK(m)
  BY Waits DEF Receive, ContextInv
<1>2. /\ \/ \E redis \in RedisAnswers : context' = Placed(copy, m.server, redis)
         \/ UNCHANGED context
      /\ Give(m.question, Selection(m.question), m.by, m.stale, FALSE)
      /\ making' = [making EXCEPT ![r] = Idle]
  BY DEF Receive
<1> HIDE DEF m
<1>3. /\ m.question \in Question /\ m.by \in Ways /\ m.stale \in Nat \cup {Right}
      /\ m.wait \in Nat /\ m.server \in Server
  BY <1>1 DEF Awaiting
<1>4. m.stale <= Transit /\ (subject \in Metrics => m.by = "best")
  BY <1>1, <1>3, LifeFacts DEF MakingOK, Awaiting, Idle, Right, ContextInv
<1>5. Selection(m.question) \in Question \cup {Whole}
  BY <1>3 DEF Selection
<1>6. /\ copy \in Contexts /\ Selected(copy) /\ copy.age = 0 /\ copy.stale = m.stale
  BY <1>3, <1>4, <1>5 DEF Contexts, Selected
<1>7. \A p : KeptAt(p, copy)
  <2> HIDE DEF copy
  <2>1. \A p : 0 <= LastAge(p) /\ m.stale <= Late(p)
    BY <1>3, <1>4, LifeFacts DEF LastAge, Late, ContextInv, Right
  <2>2. copy.stale \in Int
    BY <1>3, <1>6 DEF Right
  <2> QED BY <1>3, <1>6, <2>1, <2>2, LifeFacts DEF KeptAt, Late, LastAge, ContextInv, Right
<1> HIDE DEF copy
<1>8. ContextKept'
  <2>1. CASE UNCHANGED context
    BY <2>1, SameContext DEF ContextInv
  <2>2. CASE \E redis \in RedisAnswers : context' = Placed(copy, m.server, redis)
    <3>1. PICK redis \in BOOLEAN : context' = Placed(copy, m.server, redis)
      BY <2>2 DEF RedisAnswers
    <3> QED BY <1>3, <1>7, <3>1, PlacedKept DEF ContextInv
  <2> QED BY <1>2, <2>1, <2>2
<1>9. MakingKept'
  BY <1>2, IdleOK, OneMaking DEF ContextInv
<1>10. PromptsAreTold'
  <2>1. /\ given'.question = m.question /\ given'.of = Selection(m.question) /\ given'.by = m.by
        /\ given'.stale = m.stale /\ given'.cached = FALSE
    BY <1>2 DEF Give
  <2>2. GivenIsRecent' /\ MetricsRecover'
    BY <1>4, <2>1 DEF GivenIsRecent, MetricsRecover
  <2>3. GivenIsOwn'
    BY <2>1 DEF GivenIsOwn, Selection
  <2> QED BY <2>2, <2>3 DEF PromptsAreTold
<1> QED BY <1>8, <1>9, <1>10 DEF ContextInv

-----------------------------------------------------------------------------
\* A copy, or what is on its way, when the source changes and when time passes.
LEMMA WrongKept ==
  ASSUME subject \in Subjects, NEW p \in Spots, NEW copy, KeptAt(p, copy), copy # NoContext
  PROVE  KeptAt(p, Wrong(copy))
<1> DEFINE new == Wrong(copy)
<1>1. copy \in Contexts /\ Selected(copy) /\ copy.age <= LastAge(p)
  BY DEF KeptAt
<1>2. CASE copy.stale # Right
  <2>1. new = copy
    BY <1>2 DEF Wrong
  <2> QED BY <2>1
<1>3. CASE copy.stale = Right
  <2>1. new = [copy EXCEPT !.stale = 0]
    BY <1>3 DEF Wrong
  <2> HIDE DEF new
  <2>2. /\ new \in Contexts /\ new.of = copy.of /\ new.by = copy.by
        /\ new.age = copy.age /\ new.stale = 0
    BY <1>1, <2>1 DEF Contexts
  <2>3. copy.age \in Nat /\ Late(p) \in Nat
    BY <1>1, LifeFacts DEF Contexts, Late
  <2>4. new.stale <= new.age + Late(p)
    BY <2>2, <2>3
  <2>5. Selected(new)
    BY <1>1, <2>2 DEF Selected
  <2>6. KeptAt(p, new)
    BY <1>1, <2>2, <2>4, <2>5 DEF KeptAt
  <2> QED BY <2>6 DEF new
<1> QED BY <1>2, <1>3

LEMMA AgingKept ==
  ASSUME ContextInv, NEW p \in Spots
  PROVE  KeptAt(p, Aging(p))
<1> DEFINE copy == context[p]
           late == Later(copy)
           new == [late EXCEPT !.age = @ + 1]
<1>1. CASE copy = NoContext \/ copy.age >= LastAge(p)
  BY <1>1, NoContextKept DEF Aging
<1>2. CASE ~(copy = NoContext \/ copy.age >= LastAge(p))
  <2>1. Aging(p) = new /\ KeptAt(p, copy) /\ copy # NoContext
    BY <1>2 DEF Aging, ContextInv, ContextKept
  <2>2. /\ copy \in Contexts /\ Selected(copy) /\ copy.stale <= copy.age + Late(p)
        /\ LastAge(p) \in Nat /\ Late(p) \in Nat
    BY <2>1, LifeFacts DEF KeptAt, LastAge, Late, ContextInv
  <2> HIDE DEF copy
  <2>3. /\ copy.age \in Nat /\ copy.stale \in Nat \cup {Right} /\ copy.age < LastAge(p)
    BY <1>2, <2>2 DEF Contexts
  <2>4. /\ late \in Contexts /\ late.of = copy.of /\ late.by = copy.by /\ late.age = copy.age
        /\ late.stale <= copy.age + 1 + Late(p)
    <3>1. CASE copy.stale = Right
      <4>1. late = copy BY <3>1 DEF Later
      <4> QED BY <2>2, <2>3, <4>1, <3>1 DEF Right
    <3>2. CASE copy.stale # Right
      <4>1. late = [copy EXCEPT !.stale = copy.stale + 1] BY <3>2 DEF Later
      <4>2. copy.stale \in Nat /\ copy.stale + 1 \in Nat BY <2>3, <3>2
      <4> HIDE DEF late
      <4>3. /\ late \in Contexts /\ late.of = copy.of /\ late.by = copy.by /\ late.age = copy.age
            /\ late.stale = copy.stale + 1
        BY <2>2, <4>1, <4>2 DEF Contexts
      <4> QED BY <2>2, <2>3, <4>2, <4>3
    <3> QED BY <3>1, <3>2
  <2> HIDE DEF late
  <2>5. new = [late EXCEPT !.age = late.age + 1] /\ late.age + 1 \in Nat
    BY <2>3, <2>4
  <2> HIDE DEF new
  <2>6. /\ new \in Contexts /\ new.of = copy.of /\ new.by = copy.by /\ new.age = copy.age + 1
        /\ new.stale = late.stale
    BY <2>4, <2>5 DEF Contexts
  <2>7. new.stale <= new.age + Late(p) /\ new.age <= LastAge(p)
    BY <2>2, <2>3, <2>4, <2>6
  <2>8. Selected(new)
    BY <2>2, <2>6 DEF Selected
  <2> QED BY <2>1, <2>6, <2>7, <2>8 DEF KeptAt
<1> QED BY <1>1, <1>2

LEMMA AllPlaces ==
  ASSUME subject' = subject, context' = [p \in Spots |-> context'[p]],
         \A p \in Spots : KeptAt(p, context'[p])
  PROVE  ContextKept'
<1>1. \A p \in Spots : context'[p] \in Contexts
  BY DEF KeptAt
<1>2. context' \in [Spots -> Contexts]
  BY <1>1
<1>3. \A p, c : KeptAt(p, c) => KeptAt(p, c)'
  BY DEF KeptAt, Selected, Selection, Late, LastAge
<1> QED BY <1>2, <1>3 DEF ContextKept

LEMMA WrongMaking ==
  ASSUME NEW m, MakingOK(m), m.at = "back"
  PROVE  MakingOK(Wrong(m))
<1> DEFINE n == Wrong(m)
<1>1. m \in Awaiting /\ m # Idle
  BY DEF MakingOK, Idle
<1>2. CASE m.stale # Right
  <2>1. n = m
    BY <1>2 DEF Wrong
  <2> QED BY <2>1
<1>3. CASE m.stale = Right
  <2>1. n = [m EXCEPT !.stale = 0]
    BY <1>3 DEF Wrong
  <2> HIDE DEF n
  <2>2. /\ n \in Awaiting /\ n.at = "back" /\ n.by = m.by /\ n.wait = m.wait /\ n.stale = 0
    BY <1>1, <2>1 DEF Awaiting
  <2>3. m.wait \in Nat
    BY <1>1 DEF Awaiting
  <2>4. MakingOK(n)
    BY <1>1, <2>2, <2>3 DEF MakingOK
  <2> QED BY <2>4 DEF n
<1> QED BY <1>2, <1>3

LEMMA LaterMaking ==
  ASSUME subject \in Subjects, NEW m, MakingOK(m), m.at = "back", m.wait < Transit
  PROVE  MakingOK([Later(m) EXCEPT !.wait = @ + 1])
<1> DEFINE late == Later(m)
           n == [late EXCEPT !.wait = @ + 1]
<1>1. m \in Awaiting /\ m # Idle /\ m.stale <= m.wait
  BY DEF MakingOK, Idle
<1>2. m.stale \in Nat \cup {Right} /\ m.wait \in Nat
  BY <1>1 DEF Awaiting
<1>3. /\ late \in Awaiting /\ late.at = "back" /\ late.by = m.by /\ late.wait = m.wait
      /\ late.stale <= m.wait + 1
  <2>1. CASE m.stale = Right
    <3>1. late = m BY <2>1 DEF Later
    <3> QED BY <1>1, <1>2, <2>1, <3>1 DEF Right
  <2>2. CASE m.stale # Right
    <3>1. late = [m EXCEPT !.stale = m.stale + 1] BY <2>2 DEF Later
    <3>2. m.stale \in Nat /\ m.stale + 1 \in Nat BY <1>2, <2>2
    <3> HIDE DEF late
    <3>3. /\ late \in Awaiting /\ late.at = m.at /\ late.by = m.by /\ late.wait = m.wait
          /\ late.stale = m.stale + 1
      BY <1>1, <3>1, <3>2 DEF Awaiting
    <3> QED BY <1>1, <1>2, <3>2, <3>3
  <2> QED BY <2>1, <2>2
<1> HIDE DEF late
<1>4. n = [late EXCEPT !.wait = m.wait + 1] /\ m.wait + 1 \in Nat
  BY <1>2, <1>3
<1> HIDE DEF n
<1>5. /\ n \in Awaiting /\ n.at = "back" /\ n.by = m.by /\ n.wait = m.wait + 1
      /\ n.stale = late.stale
  BY <1>3, <1>4 DEF Awaiting
<1>6. n.wait <= Transit /\ n.stale <= n.wait
  BY <1>2, <1>3, <1>5, LifeFacts
<1>7. MakingOK(n)
  BY <1>1, <1>5, <1>6 DEF MakingOK
<1> QED BY <1>7 DEF n, late

LEMMA AllMaking ==
  ASSUME subject' = subject, DOMAIN making' = Prompt, \A r \in Prompt : MakingOK(making'[r])
  PROVE  MakingKept'
<1>1. \A n : MakingOK(n) => MakingOK(n)'
  BY DEF MakingOK, Idle
<1> QED BY <1>1 DEF MakingKept

LEMMA SourceChangesStep ==
  ASSUME ContextInv, subject' = subject, SourceChanges
  PROVE  ContextInv'
<1>1. \A p \in Spots : KeptAt(p, context'[p])
  <2> SUFFICES ASSUME NEW p \in Spots PROVE KeptAt(p, context'[p])
    OBVIOUS
  <2>1. context'[p] = IF context[p] = NoContext THEN NoContext ELSE Wrong(context[p])
    BY DEF SourceChanges
  <2>2. KeptAt(p, context[p])
    BY DEF ContextInv, ContextKept
  <2>3. context[p] # NoContext => KeptAt(p, Wrong(context[p]))
    BY <2>2, WrongKept DEF ContextInv
  <2> QED BY <2>1, <2>3, NoContextKept
<1>2. context' = [p \in Spots |-> context'[p]]
  BY DEF SourceChanges
<1>3. \A r \in Prompt : MakingOK(making'[r])
  <2> SUFFICES ASSUME NEW r \in Prompt PROVE MakingOK(making'[r])
    OBVIOUS
  <2>1. making'[r] = IF making[r].at = "back" THEN Wrong(making[r]) ELSE making[r]
    BY DEF SourceChanges
  <2>2. MakingOK(making[r])
    BY DEF ContextInv, MakingKept
  <2>3. making[r].at = "back" => MakingOK(Wrong(making[r]))
    BY <2>2, WrongMaking
  <2> QED BY <2>1, <2>2, <2>3
<1>4. DOMAIN making' = Prompt
  BY DEF SourceChanges
<1> QED BY <1>1, <1>2, <1>3, <1>4, AllPlaces, AllMaking, QuietTold DEF SourceChanges, ContextInv

LEMMA ContextTickStep ==
  ASSUME ContextInv, subject' = subject, ContextTick
  PROVE  ContextInv'
<1>1. \A p \in Spots : KeptAt(p, context'[p])
  BY AgingKept DEF ContextTick
<1>2. context' = [p \in Spots |-> context'[p]]
  BY DEF ContextTick
<1>3. \A r \in Prompt : MakingOK(making'[r])
  <2> SUFFICES ASSUME NEW r \in Prompt PROVE MakingOK(making'[r])
    OBVIOUS
  <2> DEFINE m == making[r]
             next == [Later(m) EXCEPT !.wait = @ + 1]
  <2>1. making'[r] = IF m.at = "back" THEN next ELSE m
    BY DEF ContextTick
  <2>2. MakingOK(m) /\ (m.at = "back" => m.wait < Transit)
    BY DEF ContextInv, MakingKept, ContextTick
  <2> HIDE DEF m
  <2>3. m.at = "back" => MakingOK(next)
    BY <2>2, LaterMaking DEF ContextInv
  <2> HIDE DEF next
  <2> QED BY <2>1, <2>2, <2>3
<1>4. DOMAIN making' = Prompt
  BY DEF ContextTick
<1> QED BY <1>1, <1>2, <1>3, <1>4, AllPlaces, AllMaking, QuietTold DEF ContextTick, ContextInv

LEMMA RemovalStep ==
  ASSUME ContextInv, subject' = subject, Quiet, UNCHANGED making, NEW gone,
         context' = [p \in Spots |-> IF p \in gone THEN NoContext ELSE context[p]]
  PROVE  ContextInv'
BY SomeRemoved, SameMaking, QuietTold DEF ContextInv

LEMMA RestartServerStep ==
  ASSUME ContextInv, subject' = subject, NEW h \in Server, RestartServer(h)
  PROVE  ContextInv'
<1>1. context' = [p \in Spots |-> IF p \in {h} THEN NoContext ELSE context[p]]
  BY DEF RestartServer
<1>2. \A r \in Prompt : MakingOK(making'[r])
  BY IdleOK DEF RestartServer, ContextInv, MakingKept
<1>3. DOMAIN making' = Prompt
  BY DEF RestartServer
<1> QED BY <1>1, <1>2, <1>3, SomeRemoved, AllMaking, QuietTold DEF RestartServer, ContextInv

-----------------------------------------------------------------------------
LEMMA ContextInvInit == ContextInit => ContextInv
<1> SUFFICES ASSUME ContextInit PROVE ContextInv
  OBVIOUS
<1>1. ContextKept
  <2>1. NoContext \in Contexts
    BY DEF NoContext, Contexts
  <2> QED BY <2>1, NoContextKept DEF ContextInit, ContextKept
<1>2. MakingKept
  BY IdleOK DEF ContextInit, MakingKept
<1>3. PromptsAreTold
  BY LifeFacts DEF ContextInit, NothingGiven, PromptsAreTold, GivenIsRecent, GivenIsOwn,
                   MetricsRecover, Right
<1> QED BY <1>1, <1>2, <1>3 DEF ContextInit, ContextInv

LEMMA ContextInvStep == ContextInv /\ [ContextNext]_contextVars => ContextInv'
<1> SUFFICES ASSUME ContextInv, [ContextNext]_contextVars PROVE ContextInv'
  OBVIOUS
<1>1. CASE UNCHANGED contextVars
  <2>1. PromptsAreTold'
    BY <1>1 DEF contextVars, ContextInv, PromptsAreTold, GivenIsRecent, GivenIsOwn,
                MetricsRecover, Selection
  <2> QED BY <1>1, <2>1, SameContext, SameMaking DEF contextVars, ContextInv
<1>2. CASE ContextNext
  <2>1. subject' = subject
    BY <1>2 DEF ContextNext
  <2>2. CASE TakeOver
    BY <2>1, <2>2, SameContext, SameMaking, QuietTold DEF TakeOver, ContextInv
  <2>3. CASE \E r \in Prompt, h \in Server, question \in Question :
              GatherContext(r, h, question) \/ PlanReport(r, h, question) \/ AnswerFromWiki(r, h, question)
    <3>1. PICK r \in Prompt, h \in Server, question \in Question :
            GatherContext(r, h, question) \/ PlanReport(r, h, question) \/ AnswerFromWiki(r, h, question)
      BY <2>3
    <3>2. CASE GatherContext(r, h, question)
      BY <2>1, <3>2, GatherStep
    <3>3. CASE Retrieve(r, h, question, FALSE)
      BY <2>1, <3>3, RetrieveStep
    <3> QED BY <3>1, <3>2, <3>3 DEF PlanReport, AnswerFromWiki
  <2>4. CASE \E r \in Prompt :
              Embed(r) \/ ReadSource(r) \/ SourceFails(r) \/ Receive(r) \/ CancelPrompt(r)
    <3>1. PICK r \in Prompt :
            Embed(r) \/ ReadSource(r) \/ SourceFails(r) \/ Receive(r) \/ CancelPrompt(r)
      BY <2>4
    <3>2. CASE CancelPrompt(r)
      BY <2>1, <3>2, IdleOK, OneMaking, SameContext, QuietTold DEF CancelPrompt, ContextInv
    <3> QED BY <2>1, <3>1, <3>2, EmbedStep, ReadSourceStep, SourceFailsStep, ReceiveStep
  <2>5. CASE SourceChanges \/ ContextTick
    BY <2>1, <2>5, SourceChangesStep, ContextTickStep
  <2>6. CASE InvalidateSchema
    <3>1. context' = [p \in Spots |-> IF p \in {"redis"} THEN NoContext ELSE context[p]]
      BY <2>6 DEF InvalidateSchema
    <3> QED BY <2>1, <2>6, <3>1, RemovalStep DEF InvalidateSchema
  <2>7. CASE \E p \in Spots : EvictContext(p)
    <3>1. PICK p \in Spots : EvictContext(p)
      BY <2>7
    <3>2. context' = [q \in Spots |-> IF q \in {p} THEN NoContext ELSE context[q]]
      BY <3>1 DEF EvictContext
    <3> QED BY <2>1, <3>1, <3>2, RemovalStep DEF EvictContext
  <2>8. CASE \E h \in Server : RestartServer(h)
    BY <2>1, <2>8, RestartServerStep
  <2> QED BY <1>2, <2>2, <2>3, <2>4, <2>5, <2>6, <2>7, <2>8 DEF ContextNext, Prompting
<1> QED BY <1>1, <1>2

\* What a prompt is told of the tenant is recent, of its own question except for the one
\* key of all metrics, and never a failure to read metrics that was remembered.
THEOREM PromptsAreToldHolds == ContextSpec => []PromptsAreTold
<1>1. ContextInv => PromptsAreTold
  BY DEF ContextInv
<1> QED BY <1>1, ContextInvInit, ContextInvStep, PTL DEF ContextSpec

-----------------------------------------------------------------------------
(***************************************************************************)
(* ChartRules, for every result, whatever its columns and the number of    *)
(* its rows, and every answer of the model: a chart without a warning is   *)
(* right, and two validations settle it.  The state of a turn is a         *)
(* function of the result and the answer alone (ChartInv), so that what is *)
(* left is about validating, preparing and validating again: the fallback  *)
(* of types gives nothing new from its third use on, and a specification   *)
(* without errors is drawn and validated again without one.                *)
(***************************************************************************)

\* What is proposed first, and what the first validation leaves to be drawn.
Proposed == IF answer = Nothing THEN OwnSpec ELSE answer
Drawn == Prepared(Validated(Proposed).spec)

\* A field that is spelt nearly right is of some column.
Anything ==
  {f \in [col : Nat, spelt : {"right", "near", "unlike"}] : f.spelt = "near" => f.col > 0}
Specifications ==
  [type : Types, enc : [Channels -> Anything], listed : BOOLEAN,
   data : {"values", "bare", "missing", "file"}, drawn : Nat]
Facts ==
  /\ table \in Seq(Kinds) \ {<<>>} /\ rows \in Nat \ {0}
  /\ answer # Nothing =>
       answer \in Specifications /\ answer.drawn \in {0, Min({Head10, rows})}
Shown ==
  LET v == Validated(Drawn) IN
  /\ Drawn.drawn > 0 /\ image = Picture(Drawn)
  /\ spec = v.spec /\ verdict = v.valid
  /\ v.codes \ Errors \subseteq notes
  /\ ~v.valid => v.codes \subseteq notes
ChartInv ==
  /\ Facts
  /\ stage \in {"generate", "check", "render", "recheck", "end"}
  /\ stage = "generate" => spec = Nothing /\ image = Nothing
  /\ stage = "check" => spec = Proposed /\ image = Nothing
  /\ stage = "render" => spec = Validated(Proposed).spec /\ image = Nothing
  /\ stage = "recheck" => Drawn.drawn > 0 /\ spec = Drawn /\ image = Picture(Drawn)
  /\ stage = "end" =>
       \/ image = Nothing /\ (spec = Nothing \/ notes = {"EXPORT_FAILED"} \/ Drawn.drawn = 0)
       \/ Shown

-----------------------------------------------------------------------------
\* The result does not change, and so nothing that is read off it does.
LEMMA SameResult ==
  ASSUME UNCHANGED <<table, rows, answer>>
  PROVE  /\ Proposed' = Proposed /\ \A s : Validated(s)' = Validated(s)
         /\ \A s : Picture(s)' = Picture(s)
<1>1. /\ \A c : AgentType(c)' = AgentType(c) /\ ColumnType(c)' = ColumnType(c)
      /\ DOMAIN table' = DOMAIN table
  BY DEF AgentType, ColumnType
<1>2. \A t : Inferred(t)' = Inferred(t) /\ Typed(t)' = Typed(t)
  BY <1>1 DEF Inferred, Typed
<1>3. SuggestedType' = SuggestedType
  BY <1>2 DEF SuggestedType
<1>4. SuggestedEncodings' = SuggestedEncodings
  BY <1>2, <1>3 DEF SuggestedEncodings
<1>5. Proposed' = Proposed
  BY <1>3, <1>4 DEF Proposed, OwnSpec
<1>6. \A f : FieldType(f)' = FieldType(f) /\ Filled(f)' = Filled(f)
  BY <1>1 DEF FieldType, Filled
<1>7. \A t : Fallback(t)' = Fallback(t)
  BY <1>2 DEF Fallback
<1>8. \A s : Compatibility(s)' = Compatibility(s)
  <2> TAKE s
  <2>1. Points(s)' = Points(s) /\ Distinct(s.enc.x)' = Distinct(s.enc.x)
    BY <1>6 DEF Points, Distinct
  <2>2. FieldType(s.enc.x)' = FieldType(s.enc.x) /\ FieldType(s.enc.y)' = FieldType(s.enc.y)
    BY <1>6
  <2> QED
    BY <2>1, <2>2, Zenon DEF Compatibility
<1>9. \A s : Nulls(s)' = Nulls(s) /\ Size(s)' = Size(s)
  BY <1>6 DEF Nulls, Size
<1>10. \A s : Codes(s)' = Codes(s)
  BY <1>8, <1>9 DEF Codes
<1>11. \A s : Validated(s)' = Validated(s)
  <2> TAKE s
  <2>1. Codes(s)' = Codes(s) /\ Fallback(s.type)' = Fallback(s.type)
    BY <1>7, <1>10
  <2> QED
    BY <2>1, Zenon DEF Validated
<1>12. \A s : Picture(s)' = Picture(s)
  BY DEF Picture
<1> QED
  BY <1>5, <1>11, <1>12

-----------------------------------------------------------------------------
\* The least of some columns is one of them.
LEMMA LeastColumn ==
  ASSUME NEW S \in SUBSET Nat, S # {}
  PROVE  Min(S) \in S /\ \A n \in S : Min(S) <= n
<1> DEFINE less == {ss \in Nat \X Nat : ss[1] < ss[2]}
<1>1. IsWellFoundedOn(less, Nat)
  BY NatLessThanWellFounded DEF OpToRel
<1>2. \A m, n \in Nat : <<m, n>> \in less <=> m < n
  OBVIOUS
<1> HIDE DEF less
<1>3. \E m \in S : \A n \in S : ~(<<n, m>> \in less)
  BY <1>1, WFMin
<1>4. PICK m \in S : \A n \in S : m <= n
  <2>1. PICK m \in S : \A n \in S : ~(<<n, m>> \in less)
    BY <1>3
  <2>2. \A n \in S : m <= n
    <3> TAKE n \in S
    <3>1. m \in Nat /\ n \in Nat
      OBVIOUS
    <3>2. ~(n < m)
      BY <1>2, <2>1, <3>1
    <3> QED
      BY <3>1, <3>2
  <2> QED
    BY <2>2
<1> QED
  BY <1>4 DEF Min

LEMMA FewestRows == ASSUME NEW n \in Nat PROVE Min({Head10, n}) = IF n < 10 THEN n ELSE 10
BY DEF Min, Head10

LEMMA FirstExists ==
  ASSUME Facts, NEW S \in SUBSET DOMAIN table, S # {}
  PROVE  Exists(First(S)) /\ First(S) \in Anything /\ First(S).col \in S
<1>1. DOMAIN table \subseteq Nat \ {0}
  BY DEF Facts
<1> QED
  BY <1>1, LeastColumn DEF First, Field, Exists, Anything

LEMMA SomeKind ==
  ASSUME NEW s \in Specifications
  PROVE  /\ s.type \in Types /\ s.enc \in [Channels -> Anything] /\ s.listed \in BOOLEAN
         /\ s.data \in {"values", "bare", "missing", "file"} /\ s.drawn \in Nat
BY DEF Specifications

LEMMA ColumnsAreFinite ==
  ASSUME Facts, NEW S \in SUBSET DOMAIN table
  PROVE  Cardinality(S) \in Nat
<1>1. DOMAIN table = 1..Len(table) /\ Len(table) \in Nat
  BY DEF Facts
<1>2. IsFiniteSet(1..Len(table))
  BY <1>1, FS_Interval
<1> QED
  BY <1>1, <1>2, FS_Subset, FS_CardinalityType

LEMMA OwnKind ==
  ASSUME Facts
  PROVE  /\ OwnSpec \in Specifications
         /\ \A c \in Channels : OwnSpec.enc[c].spelt = "right"
         /\ OwnSpec.drawn = rows /\ OwnSpec.data = "values" /\ ~OwnSpec.listed
<1>1. SuggestedType \in Types
  BY DEF SuggestedType, Types
<1>2. \A t : Inferred(t) \in SUBSET DOMAIN table /\ Inferred(t) \subseteq Nat
  BY DEF Facts, Inferred
<1>3. Absent \in Anything /\ Absent.spelt = "right"
  BY DEF Absent, Anything
<1>4. \A S \in SUBSET DOMAIN table : S # {} => First(S) \in Anything /\ First(S).spelt = "right"
  BY FirstExists DEF Exists
<1>5. ASSUME NEW S \in SUBSET DOMAIN table, Cardinality(S) > 1
      PROVE  Second(S) \in Anything /\ Second(S).spelt = "right"
  <2>1. S # {} /\ S \ {Min(S)} # {}
    <3>1. Cardinality({}) = 0 /\ Cardinality({Min(S)}) = 1
      BY FS_EmptySet, FS_Singleton
    <3>2. S # {} /\ S # {Min(S)}
      BY <1>5, <3>1
    <3> QED
      BY <3>2
  <2>2. Second(S) = First(S \ {Min(S)}) \/ Second(S) = Field(Min(S \ {Min(S)}))
    BY DEF Second
  <2>3. Second(S) = First(S \ {Min(S)})
    BY <2>2 DEF First
  <2> QED
    BY <1>4, <2>1, <2>3
<1> DEFINE C == Inferred("Category")
           Q == Inferred("Quantity")
           T == Inferred("Temporal")
           e == SuggestedEncodings
<1>6. /\ e.x \in Anything /\ e.x.spelt = "right"
      /\ e.y \in Anything /\ e.y.spelt = "right"
      /\ e.color \in Anything /\ e.color.spelt = "right"
  <2> DEFINE X == IF T # {} THEN First(T) ELSE IF C # {} THEN First(C) ELSE Absent
             Y == IF Q # {} THEN First(Q) ELSE Absent
             K == CASE Cardinality(C) > 1 -> Second(C)
                    [] Cardinality(C) <= 1 /\ Cardinality(Q) > 1 /\ SuggestedType = "Scatter"
                         -> Second(Q)
                    [] OTHER -> Absent
  <2>1. e = [x |-> X, y |-> Y, color |-> K]
    BY DEF SuggestedEncodings
  <2>2. X \in Anything /\ X.spelt = "right"
    BY <1>2, <1>3, <1>4
  <2>3. Y \in Anything /\ Y.spelt = "right"
    BY <1>2, <1>3, <1>4
  <2>4. K \in Anything /\ K.spelt = "right"
    <3>0. Cardinality(C) \in Nat /\ Cardinality(Q) \in Nat
      BY <1>2, ColumnsAreFinite
    <3>1. (K = Second(C) /\ Cardinality(C) > 1) \/ (K = Second(Q) /\ Cardinality(Q) > 1) \/ K = Absent
      BY <3>0
    <3> HIDE DEF K
    <3> QED
      BY <1>2, <1>3, <1>5, <3>1
  <2> HIDE DEF X, Y, K
  <2> QED
    BY <2>1, <2>2, <2>3, <2>4
<1>7. e \in [Channels -> Anything] /\ \A c \in Channels : e[c].spelt = "right"
  <2>1. e = [x |-> e.x, y |-> e.y, color |-> e.color]
    BY DEF SuggestedEncodings
  <2> HIDE DEF e
  <2>2. e.x = e["x"] /\ e.y = e["y"] /\ e.color = e["color"]
    OBVIOUS
  <2>3. DOMAIN e = Channels /\ e = [c \in Channels |-> e[c]]
    BY <2>1 DEF Channels
  <2> QED
    BY <1>6, <2>2, <2>3 DEF Channels
<1> QED
  BY <1>1, <1>7 DEF OwnSpec, Specifications, Facts

-----------------------------------------------------------------------------
\* From its third use on, the fallback chain gives what it gave.
LEMMA FallbackSettles ==
  ASSUME NEW t \in Types
  PROVE  Fallback(t) \in {"Line", "Table", "Bar"} /\ Fallback(Fallback(Fallback(t))) = Fallback(Fallback(t))
<1> DEFINE common == IF Typed("Category") = {} /\ Typed("Quantity") = {} THEN "Table" ELSE "Bar"
<1>1. \A u \in Types : Fallback(u) \in {"Line", "Table", "Bar"}
  BY DEF Fallback, Types
<1>2. \A u \in {"Line", "Table", "Bar"} : Fallback(u) = common
  BY DEF Fallback
<1>3. common \in {"Line", "Table", "Bar"} /\ {"Line", "Table", "Bar"} \subseteq Types
  BY DEF Types
<1> HIDE DEF common
<1> QED
  BY <1>1, <1>2, <1>3

\* Nothing is spelt nearly right any more.
Clean(s) == \A c \in Channels : s.enc[c].spelt # "near"

LEMMA Resolved ==
  ASSUME NEW f \in Anything
  PROVE  /\ Resolve(f) \in Anything /\ Resolve(f).spelt # "near"
         /\ Resolve(f) = Absent <=> f = Absent
         /\ f.spelt # "near" => Resolve(f) = f
<1>1. f.col \in Nat /\ f.spelt \in {"right", "near", "unlike"} /\ (f.spelt = "near" => f.col > 0)
  BY DEF Anything
<1>2. CASE f.spelt = "near"
  BY <1>1, <1>2 DEF Resolve, Field, Absent, Anything
<1>3. CASE f.spelt # "near"
  BY <1>3 DEF Resolve
<1> QED
  BY <1>2, <1>3

LEMMA CorrectedKind ==
  ASSUME NEW s \in Specifications
  PROVE  /\ Corrected(s) \in Specifications /\ Clean(Corrected(s))
         /\ Corrected(s).type = s.type /\ Corrected(s).listed = s.listed
         /\ Corrected(s).data = s.data /\ Corrected(s).drawn = s.drawn
         /\ (Fields(Corrected(s)) = {}) <=> (Fields(s) = {})
         /\ Clean(s) => Corrected(s) = s
<1> DEFINE e == [c \in Channels |-> Resolve(s.enc[c])]
           r == Corrected(s)
<1>1. s.enc \in [Channels -> Anything]
  BY SomeKind
<1>2. \A c \in Channels :
        /\ e[c] = Resolve(s.enc[c]) /\ e[c] \in Anything /\ e[c].spelt # "near"
        /\ (e[c] = Absent) <=> (s.enc[c] = Absent)
        /\ s.enc[c].spelt # "near" => e[c] = s.enc[c]
  BY <1>1, Resolved
<1>3. e \in [Channels -> Anything]
  BY <1>2
<1>4. /\ r = [s EXCEPT !.enc = e] /\ r.enc = e
      /\ r.type = s.type /\ r.listed = s.listed /\ r.data = s.data /\ r.drawn = s.drawn
      /\ r \in Specifications
  <2> HIDE DEF e
  <2>1. r = [s EXCEPT !.enc = e]
    BY DEF Corrected, e
  <2> QED
    BY <1>3, <2>1 DEF Specifications
<1> HIDE DEF r
<1>5. Clean(r)
  BY <1>2, <1>4 DEF Clean
<1>6. (Fields(r) = {}) <=> (Fields(s) = {})
  <2>1. (Fields(r) = {}) <=> \A c \in Channels : r.enc[c] = Absent
    BY DEF Fields
  <2>2. (Fields(s) = {}) <=> \A c \in Channels : s.enc[c] = Absent
    BY DEF Fields
  <2>3. \A c \in Channels : (r.enc[c] = Absent) <=> (s.enc[c] = Absent)
    BY <1>2, <1>4
  <2> QED
    BY <2>1, <2>2, <2>3
<1>7. ASSUME Clean(s) PROVE r = s
  <2>1. e = s.enc
    BY <1>1, <1>2, <1>3, <1>7 DEF Clean
  <2> HIDE DEF e
  <2> QED
    BY <1>4, <2>1 DEF Specifications
<1> QED
  BY <1>4, <1>5, <1>6, <1>7 DEF r

\* The validator raises on a list of encodings.
Raises(s) == s.listed /\ Fields(s) # {}
Broken(s) == Codes(s) \cap Errors

LEMMA ValidatedKind ==
  ASSUME Facts, NEW s \in Specifications
  PROVE  LET v == Validated(s).spec IN
         /\ v \in Specifications /\ v.listed = s.listed /\ v.data = s.data /\ v.drawn = s.drawn
         /\ (Fields(v) = {}) <=> (Fields(s) = {})
         /\ Raises(s) => v = s
         /\ ~Raises(s) => /\ v.enc = Corrected(s).enc /\ Clean(v)
                          /\ v.type = IF Broken(s) = {} THEN s.type ELSE Fallback(s.type)
<1> DEFINE v == Validated(s).spec
           t == IF Broken(s) = {} THEN s.type ELSE Fallback(s.type)
           r == Corrected(s)
<1>1. t \in Types
  <2>1. s.type \in Types /\ Fallback(s.type) \in Types
    BY SomeKind, FallbackSettles DEF Types
  <2> QED
    BY <2>1
<1>2. CASE Raises(s)
  <2>1. v = s
    BY <1>2 DEF Validated, Raises
  <2> QED
    BY <1>2, <2>1
<1>3. CASE ~Raises(s)
  <2>1. v = [r EXCEPT !.type = t]
    BY <1>3 DEF Validated, Raises, Broken
  <2>2. /\ r \in Specifications /\ Clean(r) /\ r.listed = s.listed /\ r.data = s.data
        /\ r.drawn = s.drawn /\ ((Fields(r) = {}) <=> (Fields(s) = {}))
    BY CorrectedKind
  <2> HIDE DEF r, v, t
  <2>3. /\ v \in Specifications /\ v.enc = r.enc /\ v.listed = s.listed /\ v.data = s.data
        /\ v.drawn = s.drawn /\ v.type = t
    BY <1>1, <2>1, <2>2 DEF Specifications
  <2>4. Clean(v) /\ Fields(v) = Fields(r)
    BY <2>2, <2>3 DEF Clean, Fields
  <2> QED
    BY <1>3, <2>2, <2>3, <2>4 DEF v, t, r
<1> QED
  BY <1>2, <1>3

-----------------------------------------------------------------------------
\* What the bridge prepares is what it was given, but for its data.
LEMMA PreparedKind ==
  ASSUME NEW s \in Specifications
  PROVE  LET d == Prepared(s) IN
         /\ d \in Specifications /\ d.type = s.type /\ d.enc = s.enc /\ d.listed = s.listed
         /\ Fields(d) = Fields(s)
         /\ d.drawn > 0 => d.drawn = s.drawn /\ (d.data = s.data \/ (s.data = "bare" /\ d.data = "values"))
         /\ s.drawn \in 1..100 => d.drawn = s.drawn /\ (s.data = "values" => d = s)
<1> DEFINE d == Prepared(s)
<1>1. s.drawn \in Nat /\ s.data \in {"values", "bare", "missing", "file"}
  BY SomeKind
<1>2. CASE s.drawn > InlineLimit
  <2>1. d = [[s EXCEPT !.data = "file"] EXCEPT !.drawn = 0]
    BY <1>2 DEF Prepared
  <2>2. /\ d \in Specifications /\ d.type = s.type /\ d.enc = s.enc /\ d.listed = s.listed
        /\ d.drawn = 0
    <3> DEFINE g == [s EXCEPT !.data = "file"]
    <3>1. g \in Specifications /\ g.type = s.type /\ g.enc = s.enc /\ g.listed = s.listed
      BY DEF Specifications
    <3>2. d = [g EXCEPT !.drawn = 0]
      BY <2>1
    <3> HIDE DEF g, d
    <3> QED
      BY <3>1, <3>2 DEF Specifications
  <2>3. Fields(d) = Fields(s)
    BY <2>2 DEF Fields
  <2>4. ~(s.drawn \in 1..100)
    BY <1>1, <1>2 DEF InlineLimit
  <2> QED
    BY <2>2, <2>3, <2>4
<1>3. CASE ~(s.drawn > InlineLimit) /\ s.data = "bare"
  <2>1. d = [s EXCEPT !.data = "values"]
    BY <1>3 DEF Prepared
  <2> HIDE DEF d
  <2>2. /\ d \in Specifications /\ d.type = s.type /\ d.enc = s.enc /\ d.listed = s.listed
        /\ d.drawn = s.drawn /\ d.data = "values"
    BY <2>1 DEF Specifications
  <2>3. Fields(d) = Fields(s)
    BY <2>2 DEF Fields
  <2> QED
    BY <1>3, <2>2, <2>3 DEF d
<1>4. CASE ~(s.drawn > InlineLimit) /\ s.data # "bare"
  <2>1. d = s
    BY <1>4 DEF Prepared
  <2> QED
    BY <2>1
<1> QED
  BY <1>2, <1>3, <1>4

\* The codes that are errors, and what they say.
LEMMA BrokenMeans ==
  ASSUME NEW s, s.drawn > 0
  PROVE  Broken(s) = When(s.data = "missing", "MISSING_REQUIRED_KEY")
           \cup IF Fields(s) = {} THEN {}
                ELSE When(\E f \in Fields(s) : ~Exists(f), "FIELD_NOT_FOUND")
                       \cup (Compatibility(Corrected(s)) \cap Errors)
<1>1. Structure(s) \cap Errors = When(s.data = "missing", "MISSING_REQUIRED_KEY")
  BY DEF Structure, When, Errors
<1>2. Size(s) \cap Errors = {}
  BY DEF Size, When, Errors
<1>3. Existence(s) \cap Errors = When(\E f \in Fields(s) : ~Exists(f), "FIELD_NOT_FOUND")
  BY DEF Existence, When, Errors
<1>4. Nulls(Corrected(s)) \cap Errors = {}
  BY DEF Nulls, When, Errors
<1> QED
  BY <1>1, <1>2, <1>3, <1>4 DEF Broken, Codes

\* A specification without errors is drawn and validated again without one.
LEMMA SoundStaysSound ==
  ASSUME Facts, NEW s \in Specifications, ~Raises(s), s.drawn > 0, Broken(s) = {},
         NEW d, d = Prepared(Validated(s).spec), d.drawn > 0
  PROVE  Broken(d) = {}
<1> DEFINE v == Validated(s).spec
<1>1. /\ v \in Specifications /\ v.enc = Corrected(s).enc /\ v.type = s.type /\ v.data = s.data
      /\ v.drawn = s.drawn /\ Clean(v) /\ ((Fields(v) = {}) <=> (Fields(s) = {}))
  BY ValidatedKind
<1>2. /\ d \in Specifications /\ d.type = v.type /\ d.enc = v.enc /\ Fields(d) = Fields(v)
      /\ d.data = v.data \/ (v.data = "bare" /\ d.data = "values")
  BY <1>1, PreparedKind
<1>3. s.data # "missing" /\ d.data # "missing"
  BY <1>1, <1>2, BrokenMeans DEF When
<1>4. Clean(d) /\ Corrected(d) = d
  <2>1. Clean(d)
    BY <1>1, <1>2 DEF Clean
  <2> QED
    BY <1>2, <2>1, CorrectedKind
<1>5. CASE Fields(s) = {}
  BY <1>1, <1>2, <1>3, <1>5, BrokenMeans DEF When
<1>6. CASE Fields(s) # {}
  <2>1. /\ \A f \in Fields(s) : Exists(f)
        /\ Compatibility(Corrected(s)) \cap Errors = {}
    BY <1>6, BrokenMeans DEF When
  <2>2. Clean(s)
    <3>1. \A c \in Channels : s.enc[c] = Absent \/ s.enc[c] \in Fields(s)
      BY DEF Fields
    <3> QED
      BY <2>1, <3>1 DEF Clean, Exists, Absent
  <2>3. Corrected(s) = s
    BY <2>2, CorrectedKind
  <2>4. d.enc = s.enc /\ d.type = s.type
    BY <1>1, <1>2, <2>3
  <2>5. Fields(d) = Fields(s) /\ Compatibility(d) = Compatibility(s)
    BY <2>4, Zenon DEF Fields, Compatibility, Points
  <2> QED
    BY <1>3, <1>4, <1>6, <2>1, <2>3, <2>5, BrokenMeans DEF When
<1> QED
  BY <1>5, <1>6

-----------------------------------------------------------------------------
\* What is proposed is a specification.
LEMMA ProposedKind ==
  ASSUME Facts
  PROVE  Proposed \in Specifications
BY OwnKind DEF Proposed, Facts

\* Two validations are enough for any proposal that is drawn.
LEMMA ThirdChangesNothing ==
  ASSUME Facts, Drawn.drawn > 0
  PROVE  LET b == Validated(Drawn).spec IN Validated(b).spec = b
<1> DEFINE p == Proposed
           a == Validated(p).spec
           d == Drawn
           b == Validated(d).spec
           c == Validated(b).spec
<1>1. p \in Specifications
  BY ProposedKind
<1>2. /\ a \in Specifications /\ a.listed = p.listed /\ ((Fields(a) = {}) <=> (Fields(p) = {}))
      /\ a.drawn = p.drawn
      /\ Raises(p) => a = p
      /\ ~Raises(p) => a.type = (IF Broken(p) = {} THEN p.type ELSE Fallback(p.type)) /\ Clean(a)
  BY <1>1, ValidatedKind
<1>3. /\ d = Prepared(a) /\ d \in Specifications /\ d.type = a.type /\ d.enc = a.enc
      /\ d.listed = a.listed /\ Fields(d) = Fields(a) /\ d.drawn = a.drawn
  BY <1>2, PreparedKind DEF Drawn
<1>4. /\ b \in Specifications /\ b.listed = d.listed /\ b.drawn = d.drawn /\ b.data = d.data
      /\ ((Fields(b) = {}) <=> (Fields(d) = {}))
      /\ Raises(d) => b = d
      /\ ~Raises(d) => b.type = (IF Broken(d) = {} THEN d.type ELSE Fallback(d.type))
                       /\ b.enc = Corrected(d).enc
  BY <1>3, ValidatedKind
<1>5. /\ c \in Specifications /\ c.listed = b.listed /\ c.drawn = b.drawn /\ c.data = b.data
      /\ Raises(b) => c = b
      /\ ~Raises(b) => c.type = (IF Broken(b) = {} THEN b.type ELSE Fallback(b.type))
                       /\ c.enc = Corrected(b).enc
  BY <1>4, ValidatedKind
<1>6. (Raises(d) <=> Raises(p)) /\ (Raises(b) <=> Raises(p))
  BY <1>2, <1>3, <1>4 DEF Raises
<1>7. \A q, r \in Specifications :
        q.type = r.type /\ q.enc = r.enc /\ q.listed = r.listed /\ q.data = r.data
          /\ q.drawn = r.drawn => q = r
  BY DEF Specifications
<1>8. CASE Raises(p)
  BY <1>4, <1>5, <1>6, <1>8
<1>9. CASE ~Raises(p)
  <2>1. Clean(d)
    BY <1>2, <1>3, <1>9 DEF Clean
  <2>2. Corrected(d) = d
    BY <1>3, <2>1, CorrectedKind
  <2>3. b.enc = d.enc /\ Clean(b)
    BY <1>4, <1>6, <1>9, <2>1, <2>2 DEF Clean
  <2>4. c.enc = b.enc
    BY <1>4, <1>5, <1>6, <1>9, <2>3, CorrectedKind
  <2>5. CASE b.type = d.type
    <3>1. b = d
      BY <1>3, <1>4, <1>7, <2>3, <2>5
    <3> QED
      BY <3>1
  <2>6. CASE b.type # d.type
    <3>1. Broken(d) # {} /\ b.type = Fallback(d.type)
      BY <1>4, <1>6, <1>9, <2>6
    <3>2. Broken(p) # {}
      <4>1. p.drawn > 0
        BY <1>2, <1>3
      <4> QED
        BY <1>1, <1>3, <1>9, <3>1, <4>1, SoundStaysSound
    <3>3. b.type = Fallback(Fallback(p.type))
      BY <1>2, <1>3, <1>9, <3>1, <3>2
    <3>4. p.type \in Types
      BY <1>1, SomeKind
    <3>5. Fallback(b.type) = b.type
      BY <3>3, <3>4, FallbackSettles
    <3>6. c.type = b.type
      BY <1>5, <1>6, <1>9, <3>5
    <3> QED
      BY <1>4, <1>5, <1>7, <2>4, <3>6
  <2> QED
    BY <2>5, <2>6
<1> QED
  BY <1>8, <1>9

-----------------------------------------------------------------------------
\* Agent and validator see every column alike.
SameEyes == \A c \in DOMAIN table : AgentType(c) = ColumnType(c)

\* The axes of the agent's own hints suit a line, bars and a table.
LEMMA OwnAxesSuit ==
  ASSUME Facts, SameEyes, NEW s \in Specifications, s.enc = OwnSpec.enc,
         s.type \in {"Line", "Table", "Bar"}, s.data = "values", s.drawn > 0
  PROVE  Broken(s) = {}
<1> DEFINE x == s.enc.x
           y == s.enc.y
           C == Inferred("Category")
           Q == Inferred("Quantity")
           T == Inferred("Temporal")
<1>1. \A t : Inferred(t) \subseteq DOMAIN table
  BY DEF Inferred
<1>2. \A t : \A c \in Inferred(t) : ColumnType(c) = t
  BY DEF Inferred, SameEyes
<1>3. /\ x = IF T # {} THEN First(T) ELSE IF C # {} THEN First(C) ELSE Absent
      /\ y = IF Q # {} THEN First(Q) ELSE Absent
  BY DEF OwnSpec, SuggestedEncodings
<1>4. \A S \in SUBSET DOMAIN table : S # {} => Exists(First(S)) /\ First(S).col \in S
  BY FirstExists
<1> HIDE DEF x, y, C, Q, T
<1>5. x = Absent \/ (Exists(x) /\ ColumnType(x.col) \in {"Temporal", "Category"})
  BY <1>1, <1>2, <1>3, <1>4 DEF C, T
<1>6. y = Absent \/ (Exists(y) /\ ColumnType(y.col) = "Quantity")
  BY <1>1, <1>2, <1>3, <1>4 DEF Q
<1>7. Corrected(s) = s
  <2>1. Clean(s)
    BY OwnKind DEF Clean
  <2> QED
    BY <2>1, CorrectedKind
<1>8. {"Category", "Temporal"} \subseteq Needs(s.type).x /\ "Quantity" \in Needs(s.type).y
  BY DEF Needs
<1>9. Compatibility(s) \cap Errors = {}
  <2>1. x # Absent => FieldType(x) \in Needs(s.type).x
    BY <1>5, <1>8 DEF FieldType
  <2>2. y # Absent => FieldType(y) \in Needs(s.type).y
    BY <1>6, <1>8 DEF FieldType
  <2> QED
    BY <2>1, <2>2 DEF Compatibility, When, Errors, x, y
<1>10. \A f \in Fields(s) : Exists(f)
  <2>1. \A c \in Channels : s.enc[c] = Absent \/ Exists(s.enc[c])
    <3>1. \A c \in Channels : s.enc[c].spelt = "right" /\ s.enc[c] \in Anything
      BY OwnKind, SomeKind
    <3> QED
      BY <3>1 DEF Exists, Absent, Anything
  <2> QED
    BY <2>1 DEF Fields
<1> QED
  BY <1>7, <1>9, <1>10, BrokenMeans DEF When

\* What the agent proposes itself is drawn, and valid.
LEMMA OwnIsValid ==
  ASSUME Facts, answer = Nothing, rows <= InlineLimit
  PROVE  Drawn.drawn > 0 /\ (SameEyes => Validated(Drawn).valid)
<1> DEFINE p == OwnSpec
           a == Validated(p).spec
           d == Drawn
<1>1. /\ p \in Specifications /\ p.drawn = rows /\ p.data = "values" /\ ~p.listed
      /\ \A c \in Channels : p.enc[c].spelt = "right"
  BY OwnKind
<1>2. ~Raises(p) /\ Corrected(p) = p
  BY <1>1, CorrectedKind DEF Raises, Clean
<1>3. /\ a \in Specifications /\ a.enc = p.enc /\ a.data = "values" /\ a.drawn = rows /\ ~a.listed
      /\ a.type = IF Broken(p) = {} THEN p.type ELSE Fallback(p.type)
  BY <1>1, <1>2, ValidatedKind
<1>4. rows \in 1..100
  BY DEF Facts, InlineLimit
<1>5. d = a
  BY <1>3, <1>4, PreparedKind DEF Drawn, Proposed
<1>6. d.drawn > 0 /\ p.drawn > 0
  BY <1>1, <1>3, <1>4, <1>5
<1>7. ASSUME SameEyes PROVE Broken(d) = {}
  <2>1. CASE Broken(p) = {}
    BY <1>1, <1>2, <1>6, <2>1, SoundStaysSound DEF Drawn, Proposed
  <2>2. CASE Broken(p) # {}
    <3>1. p.type \in Types
      BY <1>1, SomeKind
    <3>2. d.type \in {"Line", "Table", "Bar"}
      BY <1>3, <1>5, <2>2, <3>1, FallbackSettles
    <3> QED
      BY <1>3, <1>5, <1>6, <1>7, <3>2, OwnAxesSuit
  <2> QED
    BY <2>1, <2>2
<1>8. ~Raises(d)
  BY <1>3, <1>5 DEF Raises
<1>9. ASSUME SameEyes PROVE Validated(d).valid
  BY <1>7, <1>8, <1>9 DEF Validated, Raises, Broken
<1> QED
  BY <1>6, <1>9

\* What a drawing that is valid and has no warning says of its specification.
LEMMA SilentIsExact ==
  ASSUME Facts, NEW d \in Specifications, d.drawn > 0,
         Validated(d).codes \ Errors = {}, ~Validated(d).valid => Validated(d).codes = {}
  PROVE  Suits(Picture(d), Validated(d).spec)
           \/ Mark(Validated(d).spec.type) # Validated(d).spec.type
           \/ Absent \in {Validated(d).spec.enc.x, Validated(d).spec.enc.y}
<1> DEFINE v == Validated(d)
           type == IF Broken(d) = {} THEN d.type ELSE Fallback(d.type)
<1>1. ~Raises(d)
  BY DEF Validated, Raises, Errors
<1>2. /\ v.spec = [Corrected(d) EXCEPT !.type = type]
      /\ v.codes = Codes(d) \cup When(type # d.type, "CHART_TYPE_CORRECTED")
      /\ v.valid = (Broken(d) \subseteq {"FIELD_NOT_FOUND"})
  BY <1>1, Zenon DEF Validated, Raises, Broken
<1> HIDE DEF v, type
<1>3. type = d.type /\ Codes(d) \subseteq Errors
  BY <1>2 DEF When, Errors, v
<1>4. Codes(d) \subseteq {"FIELD_NOT_FOUND"}
  BY <1>2, <1>3 DEF v, Broken
<1>5. Fields(d) # {}
  BY <1>4 DEF Codes, Structure, When
<1>6. Existence(d) \subseteq {"FIELD_NOT_FOUND"} /\ Compatibility(Corrected(d)) \subseteq {"FIELD_NOT_FOUND"}
      /\ Nulls(Corrected(d)) \subseteq {"FIELD_NOT_FOUND"}
  BY <1>4, <1>5 DEF Codes
<1>7. Corrected(d) = d
  <2>1. \A f \in Fields(d) : f.spelt # "near"
    BY <1>6 DEF Existence, When
  <2>2. \A c \in Channels : d.enc[c] = Absent \/ d.enc[c] \in Fields(d)
    BY DEF Fields
  <2>3. Clean(d)
    BY <2>1, <2>2 DEF Clean, Absent
  <2> QED
    BY <2>3, CorrectedKind
<1>8. \A f \in Fields(d) : Exists(f)
  <2> SUFFICES ASSUME NEW f \in Fields(d), ~Exists(f) PROVE FALSE
    OBVIOUS
  <2>1. Filled(f) = 0
    BY DEF Filled
  <2>2. 5 * (rows - Filled(f)) > rows
    BY <2>1 DEF Facts
  <2> QED
    BY <1>6, <1>7, <2>2 DEF Nulls, When
<1>9. v.spec = d
  BY <1>2, <1>3, <1>7 DEF Specifications
<1>10. SUFFICES ASSUME d.enc.x # Absent, d.enc.y # Absent, Mark(d.type) = d.type
                PROVE  Suits(Picture(d), d)
  BY <1>9 DEF v
<1>11. d.enc.x \in Fields(d) /\ d.enc.y \in Fields(d)
  BY <1>10, SomeKind DEF Fields, Channels
<1>12. FieldType(d.enc.x) \in Needs(d.type).x /\ FieldType(d.enc.y) \in Needs(d.type).y
  BY <1>6, <1>7, <1>10 DEF Compatibility, When
<1>13. /\ Picture(d).type = d.type /\ Picture(d).x = d.enc.x /\ Picture(d).y = d.enc.y
  BY <1>10 DEF Picture, Axis
<1> QED
  BY <1>8, <1>11, <1>12, <1>13 DEF Suits, FieldType

\* The rows that are drawn.
LEMMA RowsDrawn ==
  ASSUME Facts, Drawn.drawn > 0
  PROVE  Drawn.drawn = rows \/ (answer # Nothing /\ rows > Head10)
<1>1. Proposed \in Specifications
  BY ProposedKind
<1>2. Drawn.drawn = Proposed.drawn
  BY <1>1, ValidatedKind, PreparedKind DEF Drawn
<1>3. CASE answer = Nothing
  BY <1>2, <1>3, OwnKind DEF Proposed
<1>4. CASE answer # Nothing
  <2>1. Proposed.drawn = Min({Head10, rows}) /\ rows \in Nat
    BY <1>2, <1>4 DEF Proposed, Facts
  <2> QED
    BY <1>2, <1>4, <2>1, FewestRows DEF Head10
<1> QED
  BY <1>3, <1>4

-----------------------------------------------------------------------------
\* What a model may answer is a specification.
LEMMA ProposalKind ==
  ASSUME table \in Seq(Kinds) \ {<<>>}, rows \in Nat \ {0}, NEW p, p \in Proposals
  PROVE  p \in Specifications /\ p.drawn \in {0, Min({Head10, rows})}
<1>1. Words \subseteq Anything
  BY DEF Words, Anything, Absent, Unlike, Field, Near
<1>2. Min({Head10, rows}) \in Nat
  BY FewestRows
<1>3. PICK t \in Types, e \in [x : Words, y : Words, color : {Absent, Unlike}], l \in BOOLEAN,
           d \in {"values", "bare", "missing"} :
        p = [type |-> t, enc |-> e, listed |-> l, data |-> d, drawn |-> RowsIn(d)]
  BY DEF Proposals
<1>4. e \in [Channels -> Anything]
  <2>1. {Absent, Unlike} \subseteq Anything
    BY DEF Anything, Absent, Unlike
  <2> QED
    BY <1>1, <2>1 DEF Channels
<1>5. RowsIn(d) \in Nat /\ RowsIn(d) \in {0, Min({Head10, rows})}
  BY <1>2 DEF RowsIn
<1> QED
  BY <1>3, <1>4, <1>5 DEF Specifications

LEMMA ChartInvInit == ChartInit => ChartInv
<1> SUFFICES ASSUME ChartInit PROVE ChartInv
  OBVIOUS
<1>1. table \in Seq(Kinds) \ {<<>>} /\ rows \in Nat \ {0}
  BY TablesAssumption, RowCountsAssumption DEF ChartInit
<1>2. answer \in {Nothing} \cup Proposals
  BY DEF ChartInit
<1>3. Facts
  BY <1>1, <1>2, ProposalKind DEF Facts
<1> QED
  BY <1>3 DEF ChartInv, ChartInit

LEMMA ChartInvStep == ChartInv /\ [ChartNext]_chartVars => ChartInv'
<1> SUFFICES ASSUME ChartInv, [ChartNext]_chartVars PROVE ChartInv'
  OBVIOUS
<1>1. UNCHANGED <<table, rows, answer>>
  BY DEF ChartNext, Generate, ModelFails, Check, Render, NothingToDraw, ExportFails, Recheck, chartVars
<1>2. Facts'
  BY <1>1 DEF ChartInv, Facts
<1>3. /\ Proposed' = Proposed /\ \A s : Validated(s)' = Validated(s)
      /\ \A s : Picture(s)' = Picture(s)
  BY <1>1, SameResult
<1>4. Drawn' = Drawn
  BY <1>3, Zenon DEF Drawn
<1>5. Picture(Drawn)' = Picture(Drawn) /\ Validated(Drawn)' = Validated(Drawn)
      /\ Validated(Proposed)' = Validated(Proposed)
  BY <1>3, <1>4
<1>6. CASE Generate
  BY <1>2, <1>3, <1>6 DEF ChartInv, Generate, Proposed
<1>7. CASE ModelFails
  BY <1>2, <1>7 DEF ChartInv, ModelFails
<1>8. CASE Check
  BY <1>2, <1>5, <1>8 DEF ChartInv, Check
<1>9. CASE Render
  <2>1. Drawn.drawn > 0 /\ spec' = Drawn /\ image' = Picture(Drawn) /\ stage' = "recheck"
    BY <1>9 DEF ChartInv, Render, Drawn
  <2> QED
    BY <1>2, <1>4, <1>5, <2>1 DEF ChartInv
<1>10. CASE NothingToDraw
  <2>1. Drawn.drawn = 0 /\ image' = Nothing /\ stage' = "end"
    BY <1>10 DEF ChartInv, NothingToDraw, Drawn
  <2> QED
    BY <1>2, <1>4, <2>1 DEF ChartInv
<1>11. CASE ExportFails
  BY <1>2, <1>11 DEF ChartInv, ExportFails
<1>12. CASE Recheck
  <2> DEFINE v == Validated(Drawn)
  <2>1. /\ Drawn.drawn > 0 /\ image' = Picture(Drawn) /\ spec' = v.spec /\ verdict' = v.valid
        /\ notes' = notes \cup (v.codes \ Errors) \cup (IF v.valid THEN {} ELSE v.codes)
        /\ stage' = "end"
    BY <1>12 DEF ChartInv, Recheck
  <2> HIDE DEF v
  <2>2. v.codes \ Errors \subseteq notes' /\ (~v.valid => v.codes \subseteq notes')
    BY <2>1
  <2>3. Shown'
    BY <1>4, <1>5, <2>1, <2>2 DEF Shown, v
  <2> QED
    BY <1>2, <2>1, <2>3 DEF ChartInv
<1>13. CASE UNCHANGED chartVars
  <2>1. Shown' <=> Shown
    BY <1>4, <1>5, <1>13 DEF Shown, chartVars
  <2> QED
    BY <1>2, <1>3, <1>4, <1>5, <1>13, <2>1 DEF ChartInv, chartVars
<1> QED
  BY <1>6, <1>7, <1>8, <1>9, <1>10, <1>11, <1>12, <1>13 DEF ChartNext

LEMMA ChartInvariant == ChartSpec => []ChartInv
<1> QED
  BY ChartInvInit, ChartInvStep, PTL DEF ChartSpec

\* What is shown at the end is what two validations made of the proposal.
LEMMA ShownSettles ==
  ChartInv => SilentIsRight /\ TwoValidationsSettle
<1> SUFFICES ASSUME ChartInv PROVE SilentIsRight /\ TwoValidationsSettle
  OBVIOUS
<1>1. Facts
  BY DEF ChartInv
<1>2. \A s : Picture(s) # Nothing
  BY DEF Picture, Nothing
<1>3. ASSUME Drawn.drawn > 0 PROVE Drawn \in Specifications
  BY <1>1, ProposedKind, ValidatedKind, PreparedKind DEF Drawn
<1>4. SilentIsRight
  <2> SUFFICES ASSUME stage = "end", image # Nothing, notes = {}
               PROVE  /\ image.rows = rows \/ (answer # Nothing /\ rows > Head10)
                      /\ Suits(image, spec) \/ Mark(spec.type) # spec.type
                           \/ Absent \in {spec.enc.x, spec.enc.y}
    BY DEF SilentIsRight
  <2>1. Shown
    BY DEF ChartInv
  <2>2. image.rows = Drawn.drawn
    BY <2>1 DEF Shown, Picture
  <2>3. Validated(Drawn).codes \ Errors = {} /\ (~Validated(Drawn).valid => Validated(Drawn).codes = {})
    BY <2>1 DEF Shown
  <2> QED
    BY <1>1, <1>3, <2>1, <2>2, <2>3, RowsDrawn, SilentIsExact DEF Shown
<1>5. SettlesInTwo
  <2> SUFFICES ASSUME stage = "end", image # Nothing PROVE Validated(spec).spec = spec
    BY DEF SettlesInTwo
  <2>1. Shown
    BY DEF ChartInv
  <2> QED
    BY <1>1, <2>1, ThirdChangesNothing DEF Shown
<1>6. HintsValidate
  <2> SUFFICES ASSUME stage = "end", answer = Nothing, rows <= InlineLimit,
                      spec # Nothing, "EXPORT_FAILED" \notin notes, SameEyes
               PROVE  image # Nothing /\ verdict
    BY DEF HintsValidate, SameEyes
  <2>1. Drawn.drawn > 0 /\ Validated(Drawn).valid
    BY <1>1, OwnIsValid
  <2>2. Shown
    BY <2>1 DEF ChartInv
  <2> QED
    BY <1>2, <2>1, <2>2 DEF Shown
<1> QED
  BY <1>4, <1>5, <1>6 DEF TwoValidationsSettle

\* Whatever columns and rows a result has and whatever the model answers, a chart that
\* comes without a warning is drawn as the answer says, from every row, over axes that suit
\* its type, but for what SilentIsRight excepts: the warnings of the two runs of
\* validate_chart_spec and of the bridge are complete.
THEOREM SilentIsRightHolds == ChartSpec => []SilentIsRight
<1> QED
  BY ChartInvariant, ShownSettles, PTL

\* Whatever columns and rows a result has and whatever the model answers, the second
\* validation of a turn leaves nothing to correct; and the agent's own hints end as a valid
\* chart wherever agent and validator see the columns alike, at most InlineLimit rows are
\* drawn and the export works.
THEOREM TwoValidationsSettleHolds == ChartSpec => []TwoValidationsSettle
<1> QED
  BY ChartInvariant, ShownSettles, PTL

-----------------------------------------------------------------------------
(***************************************************************************)
(* SqlRules, for every set of roles and any failures: the gates let        *)
(* through what they should.  What a gate decided it found so (SqlInv);    *)
(* what its patterns find in a text of the grammar follows from the words  *)
(* of the pieces the text is made of.                                      *)
(***************************************************************************)

\* The words of the grammar, and those of a text.
Word == {"SELECT", "FROM", "col", "count", "extract", "(", "year", ")", "t1", "t2", "t3", "comma",
         "nl", "LEFT", "JOIN", "a", "WHERE", "IN", "'GRANT'", "UNION", "WITH", "c", "AS", "UPDATE",
         "DELETE", "INTO", "--", "word", "semicolon", "EXPLAIN", "ANALYZE"}
Vocabulary(s) == {s[i] : i \in DOMAIN s}

LEMMA UsesVocabulary ==
  ASSUME NEW s \in Seq(Word), NEW W
  PROVE  Uses(s, W) <=> Vocabulary(s) \cap W # {}
BY DEF Uses, Vocabulary

LEMMA JoinedVocabulary ==
  ASSUME NEW a \in Seq(Word), NEW b \in Seq(Word)
  PROVE  a \o b \in Seq(Word) /\ Vocabulary(a \o b) = Vocabulary(a) \cup Vocabulary(b)
<1>1. /\ a \o b \in Seq(Word) /\ Len(a \o b) = Len(a) + Len(b)
      /\ \A i \in 1..Len(a) : (a \o b)[i] = a[i]
      /\ \A i \in 1..Len(b) : (a \o b)[Len(a) + i] = b[i]
  BY ConcatProperties
<1>2. /\ Len(a) \in Nat /\ Len(b) \in Nat /\ DOMAIN a = 1..Len(a) /\ DOMAIN b = 1..Len(b)
      /\ DOMAIN (a \o b) = 1..(Len(a) + Len(b))
  BY <1>1, LenProperties
<1>3. ASSUME NEW i \in DOMAIN (a \o b)
      PROVE  (a \o b)[i] \in Vocabulary(a) \cup Vocabulary(b)
  <2>1. CASE i <= Len(a)
    BY <1>1, <1>2, <2>1 DEF Vocabulary
  <2>2. CASE i > Len(a)
    <3>1. i - Len(a) \in 1..Len(b) /\ i = Len(a) + (i - Len(a))
      BY <1>2, <2>2
    <3>2. (a \o b)[i] = b[i - Len(a)]
      BY <1>1, <3>1
    <3> QED
      BY <1>2, <3>1, <3>2 DEF Vocabulary
  <2> QED
    BY <1>2, <2>1, <2>2
<1>4. ASSUME NEW i \in DOMAIN a PROVE a[i] \in Vocabulary(a \o b)
  <2>1. i \in DOMAIN (a \o b) /\ (a \o b)[i] = a[i]
    BY <1>1, <1>2
  <2> QED
    BY <2>1 DEF Vocabulary
<1>5. ASSUME NEW i \in DOMAIN b PROVE b[i] \in Vocabulary(a \o b)
  <2>1. Len(a) + i \in DOMAIN (a \o b) /\ (a \o b)[Len(a) + i] = b[i]
    BY <1>1, <1>2
  <2> QED
    BY <2>1 DEF Vocabulary
<1> QED
  BY <1>1, <1>3, <1>4, <1>5 DEF Vocabulary

LEMMA JoinedFirst ==
  ASSUME NEW a \in Seq(Word), NEW b \in Seq(Word), a # <<>>
  PROVE  At(a \o b, 1) = At(a, 1) /\ a \o b # <<>> /\ At(a, 1) \in Vocabulary(a)
<1>1. /\ a \o b \in Seq(Word) /\ Len(a \o b) = Len(a) + Len(b)
      /\ \A i \in 1..Len(a) : (a \o b)[i] = a[i]
  BY ConcatProperties
<1>2. /\ Len(a) \in Nat /\ Len(b) \in Nat /\ DOMAIN a = 1..Len(a)
      /\ DOMAIN (a \o b) = 1..(Len(a) + Len(b)) /\ Len(a) > 0
  BY <1>1, LenProperties, EmptySeq
<1> QED
  BY <1>1, <1>2 DEF At, Vocabulary

-----------------------------------------------------------------------------
\* The pieces of the grammar.
LEMMA ListPieces ==
  ASSUME NEW l \in Lists
  PROVE  /\ l.text \in Seq(Word) /\ l.tables = {} /\ l.marks \subseteq {"aggregate", "extract"}
         /\ Vocabulary(l.text) \subseteq {"col", "count", "extract", "(", "year", "FROM", ")"}
<1>1. CASE l = Piece(<<"col">>, {}, {})
  <2>1. <<"col">> \in Seq(Word)
    BY DEF Word
  <2> QED
    BY <1>1, <2>1 DEF Piece, Vocabulary
<1>2. CASE l = Piece(<<"count">>, {}, {"aggregate"})
  <2>1. <<"count">> \in Seq(Word)
    BY DEF Word
  <2> QED
    BY <1>2, <2>1 DEF Piece, Vocabulary
<1>3. CASE l = Piece(<<"extract", "(", "year", "FROM", "col", ")">>, {}, {"extract"})
  <2>1. <<"extract", "(", "year", "FROM", "col", ")">> \in Seq(Word)
    BY DEF Word
  <2> QED
    BY <1>3, <2>1 DEF Piece, Vocabulary
<1> QED
  BY <1>1, <1>2, <1>3 DEF Lists

LEMMA SourcePieces ==
  ASSUME NEW s \in Sources
  PROVE  /\ s.text \in Seq(Word) /\ s.tables \subseteq {"t1", "t2"} /\ "t1" \in s.tables
         /\ s.marks \subseteq {"comma", "line", "derived"}
         /\ Vocabulary(s.text) \subseteq
              {"t1", "t2", "comma", "nl", "LEFT", "JOIN", "a", "(", "SELECT", "col", "FROM", ")"}
         /\ "JOIN" \in Vocabulary(s.text) => "t2" \in s.tables
         /\ "t2" \in s.tables => "JOIN" \in Vocabulary(s.text) \/ "comma" \in s.marks
<1>1. CASE s = Piece(<<"t1">>, {"t1"}, {})
  <2>1. <<"t1">> \in Seq(Word)
    BY DEF Word
  <2> QED
    BY <1>1, <2>1 DEF Piece, Vocabulary
<1>2. CASE s = Piece(<<"t1", "comma", "t2">>, {"t1", "t2"}, {"comma"})
  <2>1. <<"t1", "comma", "t2">> \in Seq(Word)
    BY DEF Word
  <2> QED
    BY <1>2, <2>1 DEF Piece, Vocabulary
<1>3. CASE s = Piece(<<"t1", "nl", "LEFT", "JOIN", "t2">>, {"t1", "t2"}, {"line"})
  <2>1. <<"t1", "nl", "LEFT", "JOIN", "t2">> \in Seq(Word)
    BY DEF Word
  <2> QED
    BY <1>3, <2>1 DEF Piece, Vocabulary
<1>4. CASE s = Piece(<<"t1", "a", "nl", "LEFT", "JOIN", "t2">>, {"t1", "t2"}, {})
  <2>1. <<"t1", "a", "nl", "LEFT", "JOIN", "t2">> \in Seq(Word)
    BY DEF Word
  <2> QED
    BY <1>4, <2>1 DEF Piece, Vocabulary
<1>5. CASE s = Piece(<<"(", "SELECT", "col", "FROM", "t1", ")", "a">>, {"t1"}, {"derived"})
  <2>1. <<"(", "SELECT", "col", "FROM", "t1", ")", "a">> \in Seq(Word)
    BY DEF Word
  <2> QED
    BY <1>5, <2>1 DEF Piece, Vocabulary
<1> QED
  BY <1>1, <1>2, <1>3, <1>4, <1>5 DEF Sources

LEMMA TailPieces ==
  ASSUME NEW t \in Tails
  PROVE  /\ t.text \in Seq(Word) /\ t.tables \subseteq {"t2"} /\ t.marks \subseteq {"nested", "literal"}
         /\ Vocabulary(t.text) \subseteq
              {"nl", "WHERE", "col", "IN", "(", "SELECT", "FROM", "t2", ")", "'GRANT'", "UNION"}
         /\ "UNION" \in Vocabulary(t.text) => "t2" \in t.tables
         /\ "t2" \in t.tables => "UNION" \in Vocabulary(t.text) \/ "nested" \in t.marks
         /\ "'GRANT'" \in Vocabulary(t.text) => "literal" \in t.marks
<1>1. CASE t = Piece(<<>>, {}, {})
  <2>1. <<>> \in Seq(Word) /\ Vocabulary(<<>>) = {}
    BY EmptySeq DEF Vocabulary
  <2> QED
    BY <1>1, <2>1 DEF Piece
<1>2. CASE t = Piece(<<"nl", "WHERE", "col">>, {}, {})
  <2>1. <<"nl", "WHERE", "col">> \in Seq(Word)
    BY DEF Word
  <2> QED
    BY <1>2, <2>1 DEF Piece, Vocabulary
<1>3. CASE t = Piece(<<"WHERE", "col", "IN", "(", "SELECT", "col", "FROM", "t2", ")">>, {"t2"}, {"nested"})
  <2>1. <<"WHERE", "col", "IN", "(", "SELECT", "col", "FROM", "t2", ")">> \in Seq(Word)
    BY DEF Word
  <2> QED
    BY <1>3, <2>1 DEF Piece, Vocabulary
<1>4. CASE t = Piece(<<"WHERE", "'GRANT'">>, {}, {"literal"})
  <2>1. <<"WHERE", "'GRANT'">> \in Seq(Word)
    BY DEF Word
  <2> QED
    BY <1>4, <2>1 DEF Piece, Vocabulary
<1>5. CASE t = Piece(<<"UNION", "SELECT", "col", "FROM", "t2">>, {"t2"}, {})
  <2>1. <<"UNION", "SELECT", "col", "FROM", "t2">> \in Seq(Word)
    BY DEF Word
  <2> QED
    BY <1>5, <2>1 DEF Piece, Vocabulary
<1> QED
  BY <1>1, <1>2, <1>3, <1>4, <1>5 DEF Tails

\* What holds of a query that only reads, before it is wrapped into anything.
Reads(p) ==
  /\ p.text \in Seq(Word) /\ p.text # <<>> /\ At(p.text, 1) \in {"SELECT", "WITH"}
  /\ p.tables \subseteq {"t1", "t2"} /\ "t1" \in p.tables
  /\ p.marks \cap {"write", "comment", "parens", "explain", "analyze", "end"} = {}
  /\ Vocabulary(p.text) \cap {"JOIN", "UNION"} # {} => "t2" \in p.tables
  /\ "t2" \in p.tables =>
       Vocabulary(p.text) \cap {"JOIN", "UNION"} # {} \/ "comma" \in p.marks \/ "nested" \in p.marks
  /\ "WITH" \in Vocabulary(p.text) <=> "with" \in p.marks
  /\ "'GRANT'" \in Vocabulary(p.text) => "literal" \in p.marks
  /\ Vocabulary(p.text) \cap {"DELETE", "GRANT", "semicolon", "nothing"} = {}

LEMMA SelectsRead == \A p \in Selects : Reads(p)
<1> SUFFICES ASSUME NEW p \in Selects PROVE Reads(p)
  OBVIOUS
<1>1. PICK l \in Lists, s \in Sources, t \in Tails :
        p = Piece(<<"SELECT">> \o l.text \o <<"FROM">> \o s.text \o t.text,
                  s.tables \cup t.tables, l.marks \cup s.marks \cup t.marks)
  BY DEF Selects
<1>2. /\ <<"SELECT">> \in Seq(Word) /\ Vocabulary(<<"SELECT">>) = {"SELECT"} /\ <<"SELECT">> # <<>>
      /\ At(<<"SELECT">>, 1) = "SELECT"
  <2>1. <<"SELECT">> \in Seq(Word)
    BY DEF Word
  <2> QED
    BY <2>1 DEF Vocabulary, At
<1>3. <<"FROM">> \in Seq(Word) /\ Vocabulary(<<"FROM">>) = {"FROM"}
  <2>1. <<"FROM">> \in Seq(Word)
    BY DEF Word
  <2> QED
    BY <2>1 DEF Vocabulary
<1> DEFINE a == <<"SELECT">> \o l.text
           b == a \o <<"FROM">>
           c == b \o s.text
           d == c \o t.text
<1>4. /\ a \in Seq(Word) /\ a # <<>> /\ At(a, 1) = "SELECT"
      /\ Vocabulary(a) = {"SELECT"} \cup Vocabulary(l.text)
  BY <1>2, ListPieces, JoinedVocabulary, JoinedFirst
<1> HIDE DEF a
<1>5. /\ b \in Seq(Word) /\ b # <<>> /\ At(b, 1) = "SELECT"
      /\ Vocabulary(b) = Vocabulary(a) \cup {"FROM"}
  BY <1>3, <1>4, JoinedVocabulary, JoinedFirst
<1> HIDE DEF b
<1>6. /\ c \in Seq(Word) /\ c # <<>> /\ At(c, 1) = "SELECT"
      /\ Vocabulary(c) = Vocabulary(b) \cup Vocabulary(s.text)
  BY <1>5, SourcePieces, JoinedVocabulary, JoinedFirst
<1> HIDE DEF c
<1>7. /\ d \in Seq(Word) /\ d # <<>> /\ At(d, 1) = "SELECT"
      /\ Vocabulary(d) = Vocabulary(c) \cup Vocabulary(t.text)
  BY <1>6, TailPieces, JoinedVocabulary, JoinedFirst
<1>8. Vocabulary(d) = {"SELECT", "FROM"} \cup Vocabulary(l.text) \cup Vocabulary(s.text) \cup Vocabulary(t.text)
  BY <1>4, <1>5, <1>6, <1>7
<1>9. /\ p.text = d /\ p.tables = s.tables \cup t.tables
      /\ p.marks = l.marks \cup s.marks \cup t.marks
  BY <1>1 DEF Piece, a, b, c
<1> HIDE DEF d
<1>10. p.tables \subseteq {"t1", "t2"} /\ "t1" \in p.tables
       /\ p.marks \cap {"write", "comment", "parens", "explain", "analyze", "end", "with"} = {}
  BY <1>9, ListPieces, SourcePieces, TailPieces
<1>11. Vocabulary(d) \cap {"DELETE", "GRANT", "semicolon", "nothing", "WITH"} = {}
  BY <1>8, ListPieces, SourcePieces, TailPieces
<1>12. /\ "JOIN" \in Vocabulary(d) <=> "JOIN" \in Vocabulary(s.text)
       /\ "UNION" \in Vocabulary(d) <=> "UNION" \in Vocabulary(t.text)
       /\ "'GRANT'" \in Vocabulary(d) <=> "'GRANT'" \in Vocabulary(t.text)
  <2>1. {"JOIN", "UNION", "'GRANT'"} \cap ({"SELECT", "FROM"} \cup Vocabulary(l.text)) = {}
    BY ListPieces
  <2>2. "UNION" \notin Vocabulary(s.text) /\ "'GRANT'" \notin Vocabulary(s.text)
    BY SourcePieces
  <2>3. "JOIN" \notin Vocabulary(t.text)
    BY TailPieces
  <2> QED
    BY <1>8, <2>1, <2>2, <2>3
<1>14. Vocabulary(d) \cap {"JOIN", "UNION"} # {} => "t2" \in p.tables
  BY <1>9, <1>12, SourcePieces, TailPieces
<1>15. "t2" \in p.tables => "JOIN" \in Vocabulary(d) \/ "UNION" \in Vocabulary(d)
                              \/ "comma" \in p.marks \/ "nested" \in p.marks
  BY <1>9, <1>12, SourcePieces, TailPieces
<1>16. "'GRANT'" \in Vocabulary(d) => "literal" \in p.marks
  BY <1>9, <1>12, TailPieces
<1> QED
  BY <1>7, <1>9, <1>10, <1>11, <1>14, <1>15, <1>16 DEF Reads

LEMMA WithsRead == \A p \in Withs : Reads(p)
<1> SUFFICES ASSUME NEW p \in Withs PROVE Reads(p)
  OBVIOUS
<1> DEFINE head == <<"WITH", "c", "AS", "(">>
           rest == <<")", "SELECT", "col", "FROM", "c">>
<1>1. PICK s \in Selects : p = Piece(head \o s.text \o rest, s.tables, s.marks \cup {"with"})
  BY DEF Withs
<1>2. Reads(s)
  BY SelectsRead
<1>3. /\ head \in Seq(Word) /\ Vocabulary(head) = {"WITH", "c", "AS", "("} /\ head # <<>>
      /\ At(head, 1) = "WITH"
  <2>1. head \in Seq(Word)
    BY DEF Word
  <2> QED
    BY <2>1 DEF Vocabulary, At
<1>4. rest \in Seq(Word) /\ Vocabulary(rest) = {")", "SELECT", "col", "FROM", "c"}
  <2>1. rest \in Seq(Word)
    BY DEF Word
  <2> QED
    BY <2>1 DEF Vocabulary
<1> HIDE DEF head, rest
<1> DEFINE a == head \o s.text
           d == a \o rest
<1>5. a \in Seq(Word) /\ a # <<>> /\ At(a, 1) = "WITH"
      /\ Vocabulary(a) = Vocabulary(head) \cup Vocabulary(s.text)
  BY <1>2, <1>3, JoinedVocabulary, JoinedFirst DEF Reads
<1> HIDE DEF a
<1>6. d \in Seq(Word) /\ d # <<>> /\ At(d, 1) = "WITH" /\ Vocabulary(d) = Vocabulary(a) \cup Vocabulary(rest)
  BY <1>4, <1>5, JoinedVocabulary, JoinedFirst
<1>7. p.text = d /\ p.tables = s.tables /\ p.marks = s.marks \cup {"with"}
  BY <1>1 DEF Piece, a
<1> HIDE DEF d
<1>8. Vocabulary(d) = {"WITH", "c", "AS", "(", ")", "SELECT", "col", "FROM"} \cup Vocabulary(s.text)
  BY <1>3, <1>4, <1>5, <1>6
<1>9. /\ \A x \in {"JOIN", "UNION", "'GRANT'"} : x \in Vocabulary(d) <=> x \in Vocabulary(s.text)
      /\ "WITH" \in Vocabulary(d)
      /\ Vocabulary(d) \cap {"DELETE", "GRANT", "semicolon", "nothing"} = {}
  BY <1>2, <1>8 DEF Reads
<1>10. (Vocabulary(d) \cap {"JOIN", "UNION"} # {}) <=> (Vocabulary(s.text) \cap {"JOIN", "UNION"} # {})
  BY <1>9
<1>11. p.marks \cap {"write", "comment", "parens", "explain", "analyze", "end"} = {}
  BY <1>2, <1>7 DEF Reads
<1> QED
  BY <1>2, <1>6, <1>7, <1>9, <1>10, <1>11 DEF Reads

-----------------------------------------------------------------------------
\* A text without a semicolon, but at its end, is one statement.
LEMMA OneStatement ==
  ASSUME NEW s \in Seq(Word), Vocabulary(s) \cap {"semicolon", "nothing"} = {}
  PROVE  ~Several(s) /\ ~Several(s \o <<"semicolon">>)
<1>1. Len(s) \in Nat /\ DOMAIN s = 1..Len(s) /\ \A i \in DOMAIN s : s[i] \notin {"semicolon", "nothing"}
  BY LenProperties DEF Vocabulary
<1> DEFINE u == s \o <<"semicolon">>
           Starts(v) == {i \in DOMAIN v : v[i] # "semicolon" /\ At(v, i - 1) \in {"semicolon", "nothing"}}
<1>2. /\ DOMAIN u = 1..(Len(s) + 1) /\ u[Len(s) + 1] = "semicolon"
      /\ \A i \in 1..Len(s) : u[i] = s[i]
  <2>1. <<"semicolon">> \in Seq(Word) /\ Len(<<"semicolon">>) = 1 /\ <<"semicolon">>[1] = "semicolon"
    BY DEF Word
  <2>2. /\ u \in Seq(Word) /\ Len(u) = Len(s) + 1 /\ \A i \in 1..Len(s) : u[i] = s[i]
        /\ u[Len(s) + 1] = "semicolon"
    BY <2>1, ConcatProperties
  <2> QED
    BY <2>2, LenProperties
<1>3. Starts(s) \subseteq {1}
  BY <1>1 DEF At
<1>4. Starts(u) \subseteq {1}
  <2> HIDE DEF u
  <2> SUFFICES ASSUME NEW i \in DOMAIN u, u[i] # "semicolon", At(u, i - 1) \in {"semicolon", "nothing"}
               PROVE  i = 1
    OBVIOUS
  <2>1. i \in 1..Len(s)
    BY <1>1, <1>2
  <2>2. CASE i > 1
    <3>1. i - 1 \in 1..Len(s) /\ i - 1 \in DOMAIN u
      BY <1>1, <1>2, <2>1, <2>2
    <3>2. At(u, i - 1) = s[i - 1]
      BY <1>2, <3>1 DEF At
    <3> QED
      BY <1>1, <3>1, <3>2
  <2> QED
    BY <2>1, <2>2
<1>5. \A S : S \subseteq {1} => ~(Cardinality(S) > 1)
  <2> TAKE S
  <2> HAVE S \subseteq {1}
  <2>1. S = {} \/ S = {1}
    OBVIOUS
  <2>2. Cardinality(S) = 0 \/ Cardinality(S) = 1
    BY <2>1, FS_EmptySet, FS_Singleton
  <2> QED
    BY <2>2
<1> QED
  BY <1>3, <1>4, <1>5 DEF Several

\* What holds of every query that only reads, however it is wrapped.
Queried(q) ==
  /\ q.tables \subseteq {"t1", "t2"} /\ "t1" \in q.tables
  /\ Uses(q.text, {"JOIN", "UNION"}) => "t2" \in q.tables
  /\ "t2" \in q.tables =>
       Uses(q.text, {"JOIN", "UNION"}) \/ "comma" \in q.marks \/ "nested" \in q.marks
  /\ Uses(q.text, {"WITH"}) <=> "with" \in q.marks
  /\ q.marks \cap {"comment", "parens", "literal"} = {} =>
       ~Several(q.text) /\ ~Uses(q.text, Destructive) /\ At(q.text, 1) \in Reading

LEMMA WrapsAre ==
  ASSUME NEW w \in Wraps, "write" \notin w[3]
  PROVE  /\ w[1] \in Seq(Word) /\ w[2] \in Seq(Word)
         /\ Vocabulary(w[1]) \cup Vocabulary(w[2]) \subseteq
              {"--", "word", "nl", "semicolon", "(", ")", "EXPLAIN", "ANALYZE"}
         /\ w[3] \subseteq {"comment", "parens", "explain", "analyze", "end"}
         /\ w[3] \cap {"comment", "parens"} = {} =>
              /\ Vocabulary(w[1]) \subseteq {"EXPLAIN", "ANALYZE"} /\ w[2] \in {<<>>, <<"semicolon">>}
              /\ w[1] # <<>> => At(w[1], 1) = "EXPLAIN"
<1>1. /\ <<>> \in Seq(Word) /\ <<"--", "word", "nl">> \in Seq(Word)
      /\ <<"--", "word", "semicolon", "word", "nl">> \in Seq(Word)
      /\ <<"(">> \in Seq(Word) /\ <<")">> \in Seq(Word)
      /\ <<"EXPLAIN">> \in Seq(Word) /\ <<"EXPLAIN", "ANALYZE">> \in Seq(Word)
      /\ <<"semicolon">> \in Seq(Word)
  BY EmptySeq DEF Word
<1>2. /\ Vocabulary(<<>>) = {} /\ Vocabulary(<<"--", "word", "nl">>) = {"--", "word", "nl"}
      /\ Vocabulary(<<"--", "word", "semicolon", "word", "nl">>) = {"--", "word", "semicolon", "nl"}
      /\ Vocabulary(<<"(">>) = {"("} /\ Vocabulary(<<")">>) = {")"}
      /\ Vocabulary(<<"EXPLAIN">>) = {"EXPLAIN"}
      /\ Vocabulary(<<"EXPLAIN", "ANALYZE">>) = {"EXPLAIN", "ANALYZE"}
      /\ Vocabulary(<<"semicolon">>) = {"semicolon"}
      /\ At(<<"EXPLAIN">>, 1) = "EXPLAIN" /\ At(<<"EXPLAIN", "ANALYZE">>, 1) = "EXPLAIN"
  BY DEF Vocabulary, At
<1>3. CASE w = <<<<>>, <<>>, {}>>
  BY <1>1, <1>2, <1>3
<1>4. CASE w = <<<<"--", "word", "nl">>, <<>>, {"comment"}>>
  BY <1>1, <1>2, <1>4
<1>5. CASE w = <<<<"--", "word", "semicolon", "word", "nl">>, <<>>, {"comment"}>>
  BY <1>1, <1>2, <1>5
<1>6. CASE w = <<<<"(">>, <<")">>, {"parens"}>>
  BY <1>1, <1>2, <1>6
<1>7. CASE w = <<<<"EXPLAIN">>, <<>>, {"explain"}>>
  BY <1>1, <1>2, <1>7
<1>8. CASE w = <<<<"EXPLAIN", "ANALYZE">>, <<>>, {"analyze"}>>
  BY <1>1, <1>2, <1>8
<1>9. CASE w = <<<<>>, <<"semicolon">>, {"end"}>>
  BY <1>1, <1>2, <1>9
<1>10. w # <<<<>>, <<"semicolon", "DELETE", "t1">>, {"write"}>>
  OBVIOUS
<1> QED
  BY <1>3, <1>4, <1>5, <1>6, <1>7, <1>8, <1>9, <1>10 DEF Wraps

LEMMA QueriesAre ==
  ASSUME NEW q \in Queries, "write" \notin q.marks
  PROVE  Queried(q)
<1>1. PICK p \in Selects \cup Withs \cup Writes, w \in Wraps : q = Wrapped(p, w)
  BY DEF Queries
<1>2. q.text = (w[1] \o p.text) \o w[2] /\ q.tables = p.tables /\ q.marks = p.marks \cup w[3]
  BY <1>1 DEF Wrapped, Piece
<1>3. Reads(p)
  <2>1. p \notin Writes
    BY <1>2 DEF Writes, Piece
  <2> QED
    BY <2>1, SelectsRead, WithsRead
<1>4. "write" \notin w[3]
  BY <1>2
<1> DEFINE a == w[1] \o p.text
<1>5. /\ w[1] \in Seq(Word) /\ w[2] \in Seq(Word) /\ p.text \in Seq(Word)
      /\ a \in Seq(Word) /\ Vocabulary(a) = Vocabulary(w[1]) \cup Vocabulary(p.text)
  BY <1>3, <1>4, WrapsAre, JoinedVocabulary DEF Reads
<1>6. q.text \in Seq(Word) /\ Vocabulary(q.text) = Vocabulary(w[1]) \cup Vocabulary(p.text) \cup Vocabulary(w[2])
  <2> HIDE DEF a
  <2>1. q.text = a \o w[2]
    BY <1>2 DEF a
  <2> QED
    BY <1>5, <2>1, JoinedVocabulary
<1>7. \A x : x \notin {"--", "word", "nl", "semicolon", "(", ")", "EXPLAIN", "ANALYZE"} =>
        (x \in Vocabulary(q.text) <=> x \in Vocabulary(p.text))
  BY <1>4, <1>6, WrapsAre
<1>8. /\ Uses(q.text, {"JOIN", "UNION"}) <=> Vocabulary(p.text) \cap {"JOIN", "UNION"} # {}
      /\ Uses(q.text, {"WITH"}) <=> "WITH" \in Vocabulary(p.text)
      /\ Uses(q.text, Destructive) <=> Vocabulary(p.text) \cap Destructive # {}
  <2>1. \A W : W \cap {"--", "word", "nl", "semicolon", "(", ")", "EXPLAIN", "ANALYZE"} = {} =>
          (Uses(q.text, W) <=> Vocabulary(p.text) \cap W # {})
    <3> TAKE W
    <3> HAVE W \cap {"--", "word", "nl", "semicolon", "(", ")", "EXPLAIN", "ANALYZE"} = {}
    <3>1. (Vocabulary(q.text) \cap W # {}) <=> (Vocabulary(p.text) \cap W # {})
      BY <1>7
    <3> QED
      BY <1>6, <3>1, UsesVocabulary
  <2> QED
    BY <2>1 DEF Destructive
<1>9. "with" \notin w[3] /\ "comma" \notin w[3] /\ "nested" \notin w[3] /\ "literal" \notin w[3]
  BY <1>4, WrapsAre
<1>10. ASSUME q.marks \cap {"comment", "parens", "literal"} = {}
       PROVE  ~Several(q.text) /\ ~Uses(q.text, Destructive) /\ At(q.text, 1) \in Reading
  <2>1. /\ Vocabulary(w[1]) \subseteq {"EXPLAIN", "ANALYZE"} /\ w[2] \in {<<>>, <<"semicolon">>}
        /\ w[1] # <<>> => At(w[1], 1) = "EXPLAIN"
    BY <1>2, <1>4, <1>10, WrapsAre
  <2>2. Vocabulary(a) \cap {"semicolon", "nothing"} = {}
    BY <1>3, <1>5, <2>1 DEF Reads
  <2>3. At(a, 1) \in Reading /\ a # <<>>
    <3>1. CASE w[1] = <<>>
      <4>1. a = p.text
        BY <1>5, <3>1, ConcatEmptySeq
      <4> QED
        BY <1>3, <4>1 DEF Reads, Reading
    <3>2. CASE w[1] # <<>>
      <4>1. At(a, 1) = At(w[1], 1) /\ a # <<>>
        BY <1>5, <3>2, JoinedFirst
      <4> QED
        BY <2>1, <3>2, <4>1 DEF Reading
    <3> QED
      BY <3>1, <3>2
  <2> HIDE DEF a
  <2>4. q.text = a \o w[2]
    BY <1>2 DEF a
  <2>5. ~Several(q.text)
    <3>1. CASE w[2] = <<>>
      <4>1. q.text = a
        BY <1>5, <2>4, <3>1, ConcatEmptySeq
      <4> QED
        BY <1>5, <2>2, <4>1, OneStatement
    <3>2. CASE w[2] = <<"semicolon">>
      BY <1>5, <2>2, <2>4, <3>2, OneStatement
    <3> QED
      BY <2>1, <3>1, <3>2
  <2>6. At(q.text, 1) \in Reading
    BY <1>5, <2>3, <2>4, JoinedFirst
  <2>7. ~Uses(q.text, Destructive)
    BY <1>2, <1>3, <1>8, <1>10 DEF Reads, Destructive
  <2> QED
    BY <2>5, <2>6, <2>7
<1> QED
  BY <1>2, <1>3, <1>8, <1>9, <1>10 DEF Queried, Reads

-----------------------------------------------------------------------------
\* What has been decided of a query says what the gates found.
Decided ==
  /\ outcome = "refused" => ~Valid(query.text, roles)
  /\ outcome = "asked"   => Valid(query.text, roles) /\ Plan = "many"
  /\ outcome = "failed"  => Valid(query.text, roles) /\ ~RunsReadOnly
  /\ outcome = "ran"     => Valid(query.text, roles) /\ RunsReadOnly
                              /\ estimate # "many" /\ estimate \in {Plan, "unknown"}
SqlInv ==
  /\ query \in Queries
  /\ phase \in {"validate", "confirm", "record", "end", "lost"}
  /\ outcome \in {"none", "down", "refused", "asked", "failed", "ran"}
  /\ phase = "validate" => outcome = "none"
  /\ phase = "confirm" =>
       outcome = "none" /\ Valid(query.text, roles) /\ estimate \in {Plan, "unknown"}
  /\ phase = "record" => outcome = "ran"
  /\ phase = "end" => outcome # "none"
  /\ Decided

LEMMA SqlInvInit == SqlInit => SqlInv
BY DEF SqlInit, SqlInv, Decided

LEMMA SqlInvStep == SqlInv /\ [SqlNext]_sqlVars => SqlInv'
<1> SUFFICES ASSUME SqlInv, [SqlNext]_sqlVars PROVE SqlInv'
  OBVIOUS
<1>1. UNCHANGED <<query, large, roles>>
  BY DEF SqlNext, Refuse, Disconnected, Explain, AskFirst, Execute, Record, RecordFails, sqlVars
<1>2. Valid(query.text, roles)' = Valid(query.text, roles) /\ Plan' = Plan /\ RunsReadOnly' = RunsReadOnly
  <2>1. Valid(query.text, roles)' = Valid(query.text, roles)
    BY <1>1
  <2>2. \A m : Has(m)' = Has(m)
    BY <1>1 DEF Has
  <2>3. Plan' = Plan
    BY <1>1, <2>2, Zenon DEF Plan
  <2>4. RunsReadOnly' = RunsReadOnly
    BY <1>1, <2>2, Zenon DEF RunsReadOnly
  <2> QED
    BY <2>1, <2>3, <2>4
<1>3. CASE Refuse
  BY <1>1, <1>2, <1>3 DEF SqlInv, Decided, Refuse
<1>4. CASE Disconnected
  BY <1>1, <1>2, <1>4 DEF SqlInv, Decided, Disconnected
<1>5. CASE Explain
  BY <1>1, <1>2, <1>5 DEF SqlInv, Decided, Explain
<1>6. CASE AskFirst
  BY <1>1, <1>2, <1>6 DEF SqlInv, Decided, AskFirst
<1>7. CASE Execute
  BY <1>1, <1>2, <1>7 DEF SqlInv, Decided, Execute
<1>8. CASE Record
  BY <1>1, <1>2, <1>8 DEF SqlInv, Decided, Record
<1>9. CASE RecordFails
  BY <1>1, <1>2, <1>9 DEF SqlInv, Decided, RecordFails
<1>10. CASE UNCHANGED sqlVars
  BY <1>1, <1>2, <1>10 DEF SqlInv, Decided, sqlVars
<1> QED
  BY <1>3, <1>4, <1>5, <1>6, <1>7, <1>8, <1>9, <1>10 DEF SqlNext

\* What the roles let pass is what their user is entitled to, but for the
\* tables a viewer gets at without a JOIN.
LEMMA RolesAre ==
  ASSUME query \in Queries, ~Has("write")
  PROVE  /\ Entitled => MayQuery(query.text, roles)
         /\ MayQuery(query.text, roles) =>
              Entitled \/ ("viewer" \in roles /\ (Has("comma") \/ Has("nested")))
<1>1. Queried(query)
  BY QueriesAre DEF Has
<1>2. (Cardinality(query.tables) <= 1) <=> "t2" \notin query.tables
  <2>1. CASE "t2" \notin query.tables
    <3>1. query.tables = {"t1"}
      BY <1>1, <2>1 DEF Queried
    <3>2. Cardinality(query.tables) = 1
      BY <3>1, FS_Singleton
    <3> QED
      BY <2>1, <3>2
  <2>2. CASE "t2" \in query.tables
    <3>1. query.tables = {"t1"} \cup {"t2"}
      BY <1>1, <2>2 DEF Queried
    <3>2. Cardinality({"t1"}) = 1 /\ IsFiniteSet({"t1"}) /\ "t2" \notin {"t1"}
      BY FS_Singleton
    <3>3. Cardinality(query.tables) = 2
      BY <3>1, <3>2, FS_AddElement
    <3> QED
      BY <2>2, <3>3
  <2> QED
    BY <2>1, <2>2
<1>3. Uses(query.text, NotForViewers) <=>
        (Uses(query.text, {"JOIN", "UNION"}) \/ Uses(query.text, {"WITH"}))
  BY DEF Uses, NotForViewers
<1>4. Has("with") <=> Uses(query.text, {"WITH"})
  BY <1>1 DEF Queried, Has
<1>5. /\ Uses(query.text, {"JOIN", "UNION"}) => "t2" \in query.tables
      /\ "t2" \in query.tables =>
           Uses(query.text, {"JOIN", "UNION"}) \/ Has("comma") \/ Has("nested")
  BY <1>1 DEF Queried, Has
<1> QED
  BY <1>2, <1>3, <1>4, <1>5, Zenon DEF Entitled, MayQuery

\* What the plan of a query says, when it can be read.
LEMMA PlanIs ==
  /\ Plan \in {"many", "few", "unknown"}
  /\ Plan = "many" => Scans
  /\ Scans => Plan = "many" \/ Plan = "unknown" \/ Has("aggregate")
<1>1. Plan \in {"many", "few", "unknown"}
  BY Zenon DEF Plan
<1>2. CASE Has("explain") \/ Has("analyze")
  <2>1. Plan = "unknown"
    BY <1>2, Zenon DEF Plan
  <2> QED
    BY <1>1, <2>1
<1>3. CASE ~(Has("explain") \/ Has("analyze"))
  <2>1. CASE large /\ ~Has("aggregate")
    <3>1. Plan = "many" /\ Scans
      BY <1>3, <2>1, Zenon DEF Plan, Scans
    <3> QED
      BY <1>1, <3>1
  <2>2. CASE ~(large /\ ~Has("aggregate"))
    <3>1. Plan = "few"
      BY <1>3, <2>2, Zenon DEF Plan
    <3>2. Scans => Has("aggregate")
      BY <2>2, Zenon DEF Scans
    <3> QED
      BY <1>1, <3>1, <3>2
  <2> QED
    BY <2>1, <2>2
<1> QED
  BY <1>2, <1>3

\* The gates, the roles and the plan together.
LEMMA GatesDecide == SqlInv => GatesAreExact
<1> SUFFICES ASSUME SqlInv, phase = "end", outcome # "down" PROVE GatesAreExact
  BY DEF GatesAreExact
<1>1. query \in Queries /\ outcome \in {"refused", "asked", "failed", "ran"} /\ Decided
  BY DEF SqlInv
<1>2. CASE Has("write")
  <2>1. outcome # "ran"
    BY <1>1, <1>2 DEF Decided, RunsReadOnly
  <2>2. Expected = {"refused", "failed", "asked"}
    BY <1>2, Zenon DEF Expected
  <2> QED
    BY <1>1, <2>1, <2>2 DEF GatesAreExact
<1>3. CASE ~Has("write")
  <2> DEFINE odd == Has("comment") \/ Has("parens") \/ Has("literal")
             beyond == "viewer" \in roles /\ (Has("comma") \/ Has("nested"))
  <2>1. Queried(query)
    BY <1>1, <1>3, QueriesAre DEF Has
  <2>2. ~odd => /\ ~Several(query.text) /\ ~Uses(query.text, Destructive)
                /\ At(query.text, 1) \in Reading /\ Opening(query.text) \in Reading
    <3>1. SUFFICES ASSUME ~odd
                   PROVE  /\ ~Several(query.text) /\ ~Uses(query.text, Destructive)
                          /\ At(query.text, 1) \in Reading /\ Opening(query.text) \in Reading
      OBVIOUS
    <3>2. query.marks \cap {"comment", "parens", "literal"} = {}
      BY <3>1 DEF Has
    <3>3. ~Several(query.text) /\ ~Uses(query.text, Destructive) /\ At(query.text, 1) \in Reading
      BY <2>1, <3>2 DEF Queried
    <3>4. Opening(query.text) = At(query.text, 1)
      BY <3>3 DEF Opening, Reading
    <3> QED
      BY <3>3, <3>4
  <2>3. ~odd /\ Entitled => Valid(query.text, roles) /\ RunsReadOnly
    BY <1>1, <1>3, <2>2, RolesAre DEF Valid, RunsReadOnly
  <2>4. Valid(query.text, roles) => Entitled \/ beyond
    BY <1>1, <1>3, RolesAre DEF Valid
  <2>5. (~Entitled => Expected = {"refused"}) /\ (Entitled => Expected = {IF Scans THEN "asked" ELSE "ran"})
    BY <1>3, Zenon DEF Expected
  <2>6. CASE outcome = "refused"
    <3>1. odd \/ ~Entitled
      BY <1>1, <2>3, <2>6 DEF Decided
    <3> QED
      BY <2>5, <2>6, <3>1 DEF GatesAreExact
  <2>7. CASE outcome = "failed"
    <3>1. odd
      BY <1>1, <1>3, <2>2, <2>7 DEF Decided, RunsReadOnly
    <3> QED
      BY <2>7, <3>1 DEF GatesAreExact
  <2>8. CASE outcome = "asked"
    <3>1. Entitled \/ beyond
      BY <1>1, <2>4, <2>8 DEF Decided
    <3>2. Scans
      BY <1>1, <2>8, PlanIs DEF Decided
    <3> QED
      BY <1>3, <2>5, <2>8, <3>1, <3>2 DEF GatesAreExact
  <2>9. CASE outcome = "ran"
    <3>1. Entitled \/ beyond
      BY <1>1, <2>4, <2>9 DEF Decided
    <3>2. Scans => Has("aggregate") \/ estimate = "unknown"
      BY <1>1, <2>9, PlanIs DEF Decided
    <3> QED
      BY <1>3, <2>5, <2>9, <3>1, <3>2 DEF GatesAreExact
  <2> QED
    BY <1>1, <2>6, <2>7, <2>8, <2>9
<1> QED
  BY <1>2, <1>3

\* Whatever roles there are and whatever fails, the checks of ValidationAgent, the EXPLAIN
\* and the connector's read-only transaction together refuse, ask for and run the queries of
\* the grammar as they should, but for what GatesAreExact excepts.
THEOREM GatesAreExactHolds == SqlSpec => []GatesAreExact
<1>1. SqlSpec => []SqlInv
  BY SqlInvInit, SqlInvStep, PTL DEF SqlSpec
<1> QED
  BY <1>1, GatesDecide, PTL
=============================================================================
