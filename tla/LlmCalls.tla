------------------------------ MODULE LlmCalls ------------------------------
(***************************************************************************)
(* The calls of a language model that a chat answer or a report makes, the *)
(* audit row each of them leaves or does not leave, and the thumb the user *)
(* gives the answer.                                                       *)
(*                                                                         *)
(* LLMClient.invoke resolves whose key pays, and then makes up to          *)
(* MaxRetries attempts.  An attempt is one call of the provider's library, *)
(* which repeats requests on its own.  Reading the answer and auditing it  *)
(* are inside the try of the attempt.  The audit row needs the ids of the  *)
(* user and of the session, which not every agent passes.  The thumb is    *)
(* shown at once, posted, and taken back when the post fails.              *)
(***************************************************************************)
EXTENDS Integers, FiniteSets

CONSTANTS
    MaxCalls,   \* of one answer or report: a bound
    MaxRetries, \* LLMCallOptions.max_retries
    MaxClicks,  \* of the user on the thumbs: a bound
    LlmFaults   \* "nokey", "denied", "busy", "wrong", "late", "unreadable", "store", "leave", "net"

ASSUME LlmAssumption ==
    /\ {MaxCalls, MaxRetries, MaxClicks} \subseteq Nat \ {0}
    /\ LlmFaults \subseteq
         {"nokey", "denied", "busy", "wrong", "late", "unreadable", "store", "leave", "net"}

VARIABLES
    account, \* who pays: the provider, and whose key it is
    call,    \* how many calls were begun
    agent,   \* who made the last of them, "none" before
    step,    \* "idle", "flight", "audit", "sleep", "shown" or "left"
    attempt, sends, \* the attempt, and the requests the library sent in it
    told,    \* how the last call ended for its caller, "none" before
    log,     \* what became of the last call's requests
    trail,   \* trail[c]: the audit rows of call c
    shown,   \* the thumb in the browser: 1, -1, or 0 for none
    posts,   \* the posts of it in flight
    clicks,  \* how often the user clicked
    trouble  \* how posts met: "overtaken", "unanswered", "outdated"

callVars == <<account, call, agent, step, attempt, sends, told, log, trail>>
thumbVars == <<shown, posts, clicks, trouble>>
llmVars == <<callVars, thumbVars>>

Accounts ==
    {[provider |-> "anthropic", source |-> "platform"],
     [provider |-> "anthropic", source |-> "tenant"],
     [provider |-> "openai", source |-> "tenant"]}
\* What the libraries do with the max_retries they are given, or not given.
LibraryRetries == IF account.provider = "anthropic" THEN 1 ELSE 2

NoLog == [requests |-> 0, paid |-> 0, wasted |-> 0, unrecorded |-> 0, skipped |-> 0,
          denied |-> FALSE, numbered |-> FALSE]

\* "sql" stands for the calls that name the user and the session of the answer: of the
\* wiki, of nl2sql and of the narrative.
ForAnswer == {"router", "sql", "chart"}
ForReport == {"planner", "summary"}
\* Who calls next: a chat answer begins with the router, a report with its planner, and
\* a chart is followed by the narrative.
NextAgents ==
    CASE call = 0 -> {"router", "planner"} [] agent = "planner" -> {"summary"}
      [] agent = "summary" -> {} [] agent = "sql" -> {"sql", "chart"} [] OTHER -> {"sql"}
\* The router and the summary pass no user, and the planner a session that is no UUID:
\* their rows are skipped.
Identified == agent \notin {"router", "planner", "summary"}
\* The row of a call.  The chart's agent passes no session, so its row has one of its own.
AuditRow == [attempt |-> attempt, session |-> agent # "chart", score |-> 0]

LlmInit ==
    /\ account \in Accounts
    /\ call = 0 /\ agent = "none" /\ step = "idle" /\ attempt = 0 /\ sends = 0
    /\ told = "none" /\ log = NoLog /\ trail = [c \in 1..MaxCalls |-> {}]
    /\ shown = 0 /\ posts = {} /\ clicks = 0 /\ trouble = {}

-----------------------------------------------------------------------------
(***************************************************************************)
(* One call.                                                               *)
(***************************************************************************)
Invoke ==
    /\ step = "idle" /\ call < MaxCalls
    /\ call' = call + 1 /\ agent' \in NextAgents /\ told' = "none"
    /\ step' = "flight" /\ attempt' = 1 /\ sends' = 1
    /\ log' = [NoLog EXCEPT !.requests = 1]
    /\ UNCHANGED <<account, trail, thumbVars>>
\* Without a TENANT_ENCRYPTION_KEY the row of a tenant cannot be read: no request is made.
Unconfigured ==
    /\ step = "idle" /\ call < MaxCalls
    /\ "nokey" \in LlmFaults
    /\ call' = call + 1 /\ agent' \in NextAgents /\ told' = "unconfigured" /\ log' = NoLog
    /\ UNCHANGED <<account, step, attempt, sends, trail, thumbVars>>

\* The attempt raises: a rejection ends the call of a tenant, anything else is tried again.
Raise(rejection) ==
    LET fast == rejection /\ account.source = "tenant"
        again == ~fast /\ attempt < MaxRetries
    IN /\ step' = IF again THEN "sleep" ELSE "idle"
       /\ told' = CASE fast -> "misconfigured" [] again -> "none" [] OTHER -> "failed"
       /\ UNCHANGED <<account, call, agent, attempt, sends, trail, thumbVars>>
\* Only the adapter for OpenAI tells a rejection, by the numbers in its text.
Rejection(denied, numbered) == account.provider = "openai" /\ (denied \/ numbered)

Respond ==
    /\ step = "flight"
    /\ step' = "audit" /\ log' = [log EXCEPT !.paid = @ + 1]
    /\ UNCHANGED <<account, call, agent, attempt, sends, told, trail, thumbVars>>
\* An answer without the counts that are read from it.
RespondUnreadable ==
    /\ step = "flight" /\ "unreadable" \in LlmFaults
    /\ log' = [log EXCEPT !.paid = @ + 1, !.wasted = @ + 1]
    /\ Raise(FALSE)
Deny ==
    /\ step = "flight" /\ "denied" \in LlmFaults
    /\ log' = [log EXCEPT !.denied = TRUE]
    /\ Raise(Rejection(TRUE, FALSE))
\* A request the provider does not take; its text may hold a 401 or 403 by chance.
RefuseRequest(numbered) ==
    /\ step = "flight" /\ "wrong" \in LlmFaults
    /\ log' = [log EXCEPT !.numbered = @ \/ numbered]
    /\ Raise(Rejection(FALSE, numbered))
\* Too many requests, or no answer in time; a late answer is paid for as well.
\* The library sends the request again before it raises.
Resend(numbered, paid) ==
    /\ step = "flight"
    /\ LET seen == [log EXCEPT !.paid = @ + paid, !.wasted = @ + paid]
       IN IF sends <= LibraryRetries
          THEN /\ sends' = sends + 1 /\ log' = [seen EXCEPT !.requests = @ + 1]
               /\ UNCHANGED <<account, call, agent, step, attempt, told, trail, thumbVars>>
          ELSE /\ log' = [seen EXCEPT !.numbered = @ \/ numbered]
               /\ Raise(Rejection(FALSE, numbered))
Busy(numbered) == "busy" \in LlmFaults /\ Resend(numbered, 0)
TooLate == "late" \in LlmFaults /\ Resend(FALSE, 1)
Retry ==
    /\ step = "sleep"
    /\ step' = "flight" /\ attempt' = attempt + 1 /\ sends' = 1
    /\ log' = [log EXCEPT !.requests = @ + 1]
    /\ UNCHANGED <<account, call, agent, told, trail, thumbVars>>

WriteAuditRow ==
    /\ step = "audit" /\ Identified
    /\ trail' = [trail EXCEPT ![call] = @ \cup {AuditRow}]
    /\ step' = "idle" /\ told' = "answered"
    /\ UNCHANGED <<account, call, agent, attempt, sends, log, thumbVars>>
\* A bug: an audit that fails is an attempt that fails.
Unaudited_Raises == Raise(FALSE)
\* The failure is swallowed, and the caller has the answer.
Unaudited ==
    /\ step' = "idle" /\ told' = "answered"
    /\ UNCHANGED <<account, call, agent, attempt, sends, trail, thumbVars>>
FailAuditRow ==
    /\ step = "audit" /\ Identified /\ "store" \in LlmFaults
    /\ log' = [log EXCEPT !.unrecorded = @ + 1]
    /\ Unaudited
\* A row that would have no user or no session is not written.
SkipAuditRow ==
    /\ step = "audit" /\ ~Identified
    /\ log' = [log EXCEPT !.skipped = @ + 1]
    /\ Unaudited

\* The client closes its stream: the call is cancelled in whatever it awaits.  A request
\* in flight may be answered and paid, and the thread of the OpenAI SDK is not cancelled:
\* it goes on with the requests it has left.  An audit row may have been written.
Leave ==
    /\ "leave" \in LlmFaults /\ agent \in ForAnswer
    /\ step' = "left" /\ told' = "gone"
    /\ \/ /\ step = "sleep" /\ UNCHANGED <<log, trail>>
       \/ /\ step = "flight" /\ UNCHANGED trail
          /\ \E more \in 0..(IF account.provider = "openai" THEN LibraryRetries + 1 - sends ELSE 0) :
               \E paid \in 0..1 + more :
                 log' = [log EXCEPT !.requests = @ + more, !.paid = @ + paid, !.wasted = @ + paid]
       \/ /\ step = "audit" /\ Identified /\ UNCHANGED trail
          /\ log' = [log EXCEPT !.unrecorded = @ + 1]
       \/ /\ step = "audit" /\ Identified /\ UNCHANGED log
          /\ trail' = [trail EXCEPT ![call] = @ \cup {AuditRow}]
    /\ UNCHANGED <<account, call, agent, attempt, sends, thumbVars>>

-----------------------------------------------------------------------------
(***************************************************************************)
(* The thumb on the answer.                                                *)
(***************************************************************************)
\* The answer is shown: the last of its calls is over, and only the trail remains.
Show ==
    /\ step = "idle" /\ agent \in ForAnswer
    /\ step' = "shown" /\ agent' = "none" /\ told' = "none" /\ log' = NoLog /\ attempt' = 0 /\ sends' = 0
    /\ UNCHANGED <<account, call, trail, thumbVars>>
\* A second click on the same thumb takes it back.
SetFeedback(score) ==
    /\ step = "shown" /\ clicks < MaxClicks
    /\ LET next == IF shown = score THEN 0 ELSE score
       IN /\ shown' = next
          /\ posts' = posts \cup {[id |-> clicks + 1, prior |-> shown, next |-> next, at |-> "sent"]}
    /\ clicks' = clicks + 1
    /\ UNCHANGED <<callVars, trouble>>
\* A bug: only rows without a score are scored.
Scored_First(row, score) ==
    IF row.session /\ row.score = 0 THEN [row EXCEPT !.score = score] ELSE row
Scored(row, score) == IF row.session THEN [row EXCEPT !.score = score] ELSE row
\* The rows of the session are scored; when there is none, that is no failure.
RecordFeedback(p) ==
    /\ p.at = "sent"
    /\ trail' = [c \in 1..MaxCalls |-> {Scored(row, p.next) : row \in trail[c]}]
    /\ posts' = (posts \ {p}) \cup {[p EXCEPT !.at = "recorded"]}
    /\ trouble' = trouble \cup {"overtaken" : q \in {q \in posts : q.at = "sent" /\ q.id < p.id}}
    /\ UNCHANGED <<account, call, agent, step, attempt, sends, told, log, shown, clicks>>
Recorded(p) ==
    /\ p.at = "recorded"
    /\ posts' = posts \ {p}
    /\ UNCHANGED <<callVars, shown, clicks, trouble>>
\* The thumb is set back to what it was at the click, unless it shows another by now.
RollBack(p, troubles) ==
    /\ shown' = IF shown = p.next THEN p.prior ELSE shown
    /\ posts' = posts \ {p}
    /\ trouble' = trouble \cup troubles \cup (IF p.id = clicks THEN {} ELSE {"outdated"})
    /\ UNCHANGED <<callVars, clicks>>
FailPost(p) == p.at = "sent" /\ LlmFaults \cap {"store", "net"} # {} /\ RollBack(p, {})
\* The scores are recorded, and the browser does not hear of it.
LoseAnswer(p) == p.at = "recorded" /\ "net" \in LlmFaults /\ RollBack(p, {"unanswered"})

LlmNext ==
    \/ Invoke \/ Unconfigured
    \/ Respond \/ RespondUnreadable \/ Deny \/ TooLate
    \/ \E numbered \in BOOLEAN : RefuseRequest(numbered) \/ Busy(numbered)
    \/ Retry \/ WriteAuditRow \/ FailAuditRow \/ SkipAuditRow \/ Leave
    \/ Show \/ \E score \in {1, -1} : SetFeedback(score)
    \/ \E p \in posts : RecordFeedback(p) \/ Recorded(p) \/ FailPost(p) \/ LoseAnswer(p)
LlmSpec == LlmInit /\ [][LlmNext]_llmVars

-----------------------------------------------------------------------------
Ended == told \notin {"none", "unconfigured"}
Rows == Cardinality(trail[call])

\* What was paid for is in the audit log, once, but for answers that nobody read
\* (malformed, too late, or for a client that left) and a row that was not written:
\* skipped for the agents that do not say whose call it is, and for no other.
PaidIsRecorded ==
    /\ log.paid = Rows + log.wasted + log.unrecorded + log.skipped
    /\ Rows + log.unrecorded + log.skipped <= 1
    /\ told = "answered" => Rows + log.unrecorded + log.skipped = 1
    /\ told \in {"failed", "misconfigured"} => Rows + log.unrecorded + log.skipped = 0
    /\ IF Identified THEN log.skipped = 0 ELSE Rows + log.unrecorded = 0

\* The caller hears that the tenant's key is bad only when the provider said so, or
\* seemed to; and when an OpenAI provider says so, at once.
RejectionIsTold ==
    /\ told = "misconfigured" =>
         /\ account = [provider |-> "openai", source |-> "tenant"]
         /\ log.denied \/ log.numbered
    /\ log.denied /\ account.provider = "openai" => told \in {"misconfigured", "gone"}
    /\ told = "failed" => attempt = MaxRetries
    /\ log.requests <= attempt * (1 + LibraryRetries)

(***************************************************************************)
(* When a call of LLMClient ends, its caller and the audit log agree with  *)
(* what the provider did and was paid for.  Except that the calls of the   *)
(* router, of the planner and of the summary are never in the log.         *)
(***************************************************************************)
CallsAccounted == Ended => PaidIsRecorded /\ RejectionIsTold

(***************************************************************************)
(* Once no post is in flight, the thumb the browser shows is the score of  *)
(* every audit row of the answer.  Except of the chart's, which has none,  *)
(* and except when posts overtook each other, a recorded one was not       *)
(* answered, or one failed after a later click.                            *)
(***************************************************************************)
FeedbackAgrees ==
    posts = {} /\ trouble = {} =>
        \A c \in 1..MaxCalls : \A row \in trail[c] :
            row.score = IF row.session THEN shown ELSE 0
=============================================================================
