--------------------------- MODULE PromptContext ---------------------------
(***************************************************************************)
(* What a prompt is told of the tenant: the metrics of the semantic layer, *)
(* the tables, the examples and the wiki pages that fit a question.  Each  *)
(* is retrieved, and what was found is kept in the worker (L1) and in      *)
(* Redis (L2) for the Life of its subject; the retrievals fail open.       *)
(*                                                                         *)
(* A prompt gathers the four one after the other, and they share nothing:  *)
(* a behaviour is about one subject.  What matters of a context is whose   *)
(* question it was selected for, how it was found, and how long it has not *)
(* been what a retrieval would find: Right, or the ticks since the source  *)
(* changed, or since the retrieval found less than it should.  Metrics     *)
(* come from CubeClient, whose own memory CubeMetrics models: here they    *)
(* change when its answers do.  One tenant is enough, as every key begins  *)
(* with the tenant.                                                        *)
(***************************************************************************)
EXTENDS Integers

CONSTANTS
    Prompt,       \* prompts in the making
    Server,       \* the workers
    Question,     \* what users ask
    Life,         \* Life[s]: the TTL of contexts of subject s, in ticks
    Transit,      \* ticks that what was read may be on its way
    ContextFaults \* what may fail: "embedding", "source", "redis", "evict", "restart"

Metrics == {"metrics", "many metrics"}  \* up to MAX_AGENT_CONTEXT_METRICS, or more
Searched == {"schema", "examples", "wiki"}
Subjects == Metrics \cup Searched

ASSUME ContextAssumption ==
    /\ Life \in [Subjects -> Nat \ {0}] /\ Transit \in Nat
    /\ ContextFaults \subseteq {"embedding", "source", "redis", "evict", "restart"}

VARIABLES
    subject, \* what this behaviour is about
    context, \* context[p]: what a worker, or Redis, keeps; the entry put there last
    making,  \* making[r]: what a prompt waits for
    given    \* what the last step told a prompt

contextVars == <<subject, context, making, given>>

Right == -1
Spots == Server \cup {"redis"}
NoContext == [of |-> "nothing", by |-> "nothing", stale |-> Right, age |-> 0]
Idle == [at |-> "idle", server |-> "none", question |-> "nothing",
         by |-> "nothing", stale |-> Right, wait |-> 0, kept |-> FALSE]
NothingGiven == [question |-> "nothing", of |-> "nothing", by |-> "nothing",
                 stale |-> Right, cached |-> FALSE]
Give(question, of, by, stale, cached) ==
    given' = [question |-> question, of |-> of, by |-> by, stale |-> stale, cached |-> cached]
Quiet == given' = NothingGiven

ContextInit ==
    /\ subject \in Subjects
    /\ context = [p \in Spots |-> NoContext]
    /\ making = [r \in Prompt |-> Idle] /\ given = NothingGiven

-----------------------------------------------------------------------------
(***************************************************************************)
(* The caches.  Redis is taken to answer at once: its commands are short   *)
(* against Lives of minutes and hours.                                     *)
(***************************************************************************)
Whole == "all metrics"
\* Of many metrics the client selects those with words of the question.
Selection(question) == IF subject = "metrics" THEN Whole ELSE question
\* A bug: the key has the tenant only, whatever was searched.
Key_Tenant(question) == "all"
\* Searches have the hash of the question in their key, metrics have not.
Key(question) == IF subject \in Metrics THEN "all" ELSE question
Fits(copy, question) == copy # NoContext /\ Key(copy.of) = Key(question)
RedisAnswers == IF "redis" \in ContextFaults THEN BOOLEAN ELSE {TRUE}
\* A copy found in Redis is new to the worker.
Found(h, question, redis) ==
    CASE Fits(context[h], question) -> context[h]
      [] ~Fits(context[h], question) /\ redis /\ Fits(context["redis"], question) ->
           [context["redis"] EXCEPT !.age = 0]
      [] OTHER -> NoContext
Placed(copy, h, redis) ==
    [p \in Spots |-> IF p = h \/ (p = "redis" /\ redis) THEN copy ELSE context[p]]

-----------------------------------------------------------------------------
(***************************************************************************)
(* Prompts.                                                                *)
(***************************************************************************)
\* A search embeds the question first; metrics are asked for at once.
Retrieve(r, h, question, kept) ==
    /\ making' = [making EXCEPT ![r] =
         [at |-> IF subject \in Metrics THEN "source" ELSE "embedding", server |-> h,
          question |-> question, by |-> "best", stale |-> Right, wait |-> 0, kept |-> kept]]
    /\ Quiet /\ UNCHANGED context
\* The NL2SQL step.
GatherContext(r, h, question) ==
    /\ making[r] = Idle
    /\ \E redis \in RedisAnswers :
         LET copy == Found(h, question, redis)
         IN \/ /\ copy # NoContext
               /\ context' = Placed(copy, h, FALSE)
               /\ Give(question, copy.of, copy.by, copy.stale, TRUE)
               /\ UNCHANGED making
            \/ copy = NoContext /\ Retrieve(r, h, question, TRUE)
\* The planner of reports and the answer from the wiki do without the caches.
PlanReport(r, h, question) ==
    making[r] = Idle /\ subject \in Metrics /\ Retrieve(r, h, question, FALSE)
AnswerFromWiki(r, h, question) ==
    making[r] = Idle /\ subject = "wiki" /\ Retrieve(r, h, question, FALSE)

\* Without an embedding the rows are ranked by words.
Embed(r) ==
    /\ making[r].at = "embedding"
    /\ \E by \in {"best"} \cup (IF "embedding" \in ContextFaults THEN {"words"} ELSE {}) :
         making' = [making EXCEPT ![r] = [@ EXCEPT !.at = "source", !.by = by]]
    /\ Quiet /\ UNCHANGED context
\* What is found from now on is on its way.
Back(r, by) ==
    making' = [making EXCEPT ![r] =
      [@ EXCEPT !.at = "back", !.by = by, !.stale = IF by = "best" THEN Right ELSE 0]]
ReadSource(r) ==
    making[r].at = "source" /\ Back(r, making[r].by) /\ Quiet /\ UNCHANGED context
\* The wiki is searched again, by keyword; another search finds nothing, which is
\* an answer; metrics raise, and the prompt goes on without them.
SourceFails(r) ==
    /\ making[r].at = "source" /\ "source" \in ContextFaults
    /\ \/ /\ subject = "wiki" /\ making[r].by = "best"
          /\ making' = [making EXCEPT ![r] = [@ EXCEPT !.by = "words"]] /\ Quiet
       \/ /\ subject \in Searched /\ ~(subject = "wiki" /\ making[r].by = "best")
          /\ Back(r, "failure") /\ Quiet
       \/ /\ subject \in Metrics
          /\ Give(making[r].question, "nothing", "failure", 0, FALSE)
          /\ making' = [making EXCEPT ![r] = Idle]
    /\ UNCHANGED context
\* Whatever came back is kept, for the worker and for all.
Receive(r) ==
    LET m    == making[r]
        copy == [of |-> Selection(m.question), by |-> m.by, stale |-> m.stale, age |-> 0]
    IN /\ m.at = "back"
       /\ \/ m.kept /\ \E redis \in RedisAnswers : context' = Placed(copy, m.server, redis)
          \/ ~m.kept /\ UNCHANGED context
       /\ Give(m.question, copy.of, m.by, m.stale, FALSE)
       /\ making' = [making EXCEPT ![r] = Idle]

-----------------------------------------------------------------------------
(***************************************************************************)
(* What happens around them.                                               *)
(***************************************************************************)
\* The nightly sync, an edit of the wiki, or other metrics.
Wrong(copy) == IF copy.stale = Right THEN [copy EXCEPT !.stale = 0] ELSE copy
SourceChanges ==
    /\ context' = [p \in Spots |-> IF context[p] = NoContext THEN NoContext ELSE Wrong(context[p])]
    /\ making' = [r \in Prompt |-> IF making[r].at = "back" THEN Wrong(making[r]) ELSE making[r]]
    /\ Quiet
\* The sync ends with an invalidation, in a process of its own: it reaches Redis.
InvalidateSchema ==
    /\ subject = "schema"
    /\ context' = [p \in Spots |-> IF p = "redis" THEN NoContext ELSE context[p]]
    /\ Quiet /\ UNCHANGED making

Later(copy) == IF copy.stale = Right THEN copy ELSE [copy EXCEPT !.stale = @ + 1]
\* An L1 entry is served up to its TTL, a key of Redis is gone by then.
LastAge(p) == IF p = "redis" THEN Life[subject] - 1 ELSE Life[subject]
Aging(p) ==
    IF context[p] = NoContext \/ context[p].age >= LastAge(p) THEN NoContext
    ELSE [Later(context[p]) EXCEPT !.age = @ + 1]
ContextTick ==
    /\ \A r \in Prompt : making[r].at = "back" => making[r].wait < Transit
    /\ context' = [p \in Spots |-> Aging(p)]
    /\ making' = [r \in Prompt |->
         IF making[r].at = "back" THEN [Later(making[r]) EXCEPT !.wait = @ + 1] ELSE making[r]]
    /\ Quiet
EvictContext(p) ==
    /\ "evict" \in ContextFaults
    /\ context' = [q \in Spots |-> IF q = p THEN NoContext ELSE context[q]]
    /\ Quiet /\ UNCHANGED making
RestartServer(h) ==
    /\ "restart" \in ContextFaults
    /\ context' = [p \in Spots |-> IF p = h THEN NoContext ELSE context[p]]
    /\ making' = [r \in Prompt |-> IF making[r].server = h THEN Idle ELSE making[r]]
    /\ Quiet
\* A stream that is left cancels what its prompt waits for.
CancelPrompt(r) ==
    /\ making[r] # Idle
    /\ making' = [making EXCEPT ![r] = Idle] /\ Quiet /\ UNCHANGED context

\* What a prompt was given is looked at before anything else happens.
TakeOver == given # NothingGiven /\ Quiet /\ UNCHANGED <<context, making>>
Prompting ==
    \/ \E r \in Prompt, h \in Server, question \in Question :
         GatherContext(r, h, question) \/ PlanReport(r, h, question) \/ AnswerFromWiki(r, h, question)
    \/ \E r \in Prompt :
         Embed(r) \/ ReadSource(r) \/ SourceFails(r) \/ Receive(r) \/ CancelPrompt(r)
    \/ SourceChanges \/ InvalidateSchema \/ ContextTick
    \/ \E p \in Spots : EvictContext(p)
    \/ \E h \in Server : RestartServer(h)
ContextNext == UNCHANGED subject /\ (TakeOver \/ (given = NothingGiven /\ Prompting))
ContextSpec == ContextInit /\ [][ContextNext]_contextVars

-----------------------------------------------------------------------------
\* What was not found as it should, or is no longer so, is told no longer than through
\* two caches, whatever sync, failure or worker came between.
GivenIsRecent ==
    given.stale <= IF given.cached THEN 2 * Life[subject] + Transit - 1 ELSE Transit
\* A prompt is told what was selected for its own question, except that of many metrics
\* it may get the selection for an earlier question of the tenant.
GivenIsOwn ==
    given.by \in {"best", "words"} =>
        \/ given.of = Selection(given.question)
        \/ subject = "many metrics" /\ given.cached
\* Metrics that could not be read are not remembered as none.
MetricsRecover == subject \in Metrics /\ given.by = "failure" => ~given.cached
\* What prompts are told of the tenant is recent, is meant for their question, and is
\* not a failure to read the metrics that was remembered.
PromptsAreTold == GivenIsRecent /\ GivenIsOwn /\ MetricsRecover
=============================================================================
