----------------------------- MODULE MCServices -----------------------------
(***************************************************************************)
(* Seven small parts of the system, each within bounds: charts, the rules  *)
(* about SQL, language model calls, the tenants in the administrators'     *)
(* hands, the metrics of the semantic layer, the chat in the browser, and  *)
(* what prompts are told.  They share no state, so a behaviour is a        *)
(* behaviour of one of them, and the others never start.                   *)
(***************************************************************************)
EXTENDS ChartRules, SqlRules, LlmCalls, TenantAdmin, CubeMetrics, ChatStream, PromptContext

ChartIdle ==
    /\ table = <<>> /\ rows = 0 /\ answer = Nothing /\ spec = Nothing
    /\ image = Nothing /\ notes = {} /\ verdict = FALSE /\ stage = "idle"
SqlIdle ==
    /\ query = Piece(<<>>, {}, {}) /\ large = FALSE /\ roles = {}
    /\ estimate = "unknown" /\ outcome = "none" /\ recorded = {} /\ phase = "idle"
LlmIdle ==
    /\ account = [provider |-> "none", source |-> "none"]
    /\ call = 0 /\ agent = "none" /\ step = "none" /\ attempt = 0 /\ sends = 0
    /\ told = "none" /\ log = NoLog /\ trail = [c \in 1..MaxCalls |-> {}]
    /\ shown = 0 /\ posts = {} /\ clicks = 0 /\ trouble = {}
AdminIdle ==
    /\ tenant = Gone /\ users = 0 /\ sales = {Elsewhere} /\ audited = {}
    /\ req = [r \in Request |-> New] /\ effect = [r \in Request |-> {}]
CubeIdle ==
    /\ traffic = "none"
    /\ meta = [h \in Host |-> NoCopy]
    /\ catalog = [p \in Places |-> NoCopy] /\ results = [p \in Places |-> NoCopy]
    /\ job = [r \in Slot |-> NoJob] /\ served = NothingServed

PromptIdle ==
    /\ subject = "none" /\ context = [p \in Spots |-> NoContext]
    /\ making = [r \in Prompt |-> Idle] /\ given = NothingGiven

VARIABLE part  \* the part this behaviour is about

Starts(name, begins, idle) == IF part = name THEN begins ELSE idle
ServicesInit ==
    /\ part \in {"chart", "sql", "llm", "admin", "cube", "stream", "prompt"}
    /\ Starts("chart", ChartInit, ChartIdle) /\ Starts("sql", SqlInit, SqlIdle)
    /\ Starts("llm", LlmInit, LlmIdle) /\ Starts("admin", AdminInit, AdminIdle)
    /\ Starts("cube", CubeInit, CubeIdle) /\ StreamInit
    /\ Starts("prompt", ContextInit, PromptIdle)
ServicesNext ==
    /\ UNCHANGED part
    /\ \/ /\ part = "chart" /\ ChartNext
          /\ UNCHANGED <<sqlVars, llmVars, adminVars, cubeVars, streamVars, contextVars>>
       \/ /\ part = "sql" /\ SqlNext
          /\ UNCHANGED <<chartVars, llmVars, adminVars, cubeVars, streamVars, contextVars>>
       \/ /\ part = "llm" /\ LlmNext
          /\ UNCHANGED <<chartVars, sqlVars, adminVars, cubeVars, streamVars, contextVars>>
       \/ /\ part = "admin" /\ AdminNext
          /\ UNCHANGED <<chartVars, sqlVars, llmVars, cubeVars, streamVars, contextVars>>
       \/ /\ part = "cube" /\ CubeNext
          /\ UNCHANGED <<chartVars, sqlVars, llmVars, adminVars, streamVars, contextVars>>
       \/ /\ part = "stream" /\ StreamNext
          /\ UNCHANGED <<chartVars, sqlVars, llmVars, adminVars, cubeVars, contextVars>>
       \/ /\ part = "prompt" /\ ContextNext
          /\ UNCHANGED <<chartVars, sqlVars, llmVars, adminVars, cubeVars, streamVars>>
ServicesSpec ==
    ServicesInit
      /\ [][ServicesNext]_<<part, chartVars, sqlVars, llmVars, adminVars, cubeVars, streamVars,
                            contextVars>>

\* Results of up to three columns, of which at most one is of the odd kinds.
Usual == {"text", "number", "date"}
SmallTables ==
    {<<a>> : a \in Kinds} \cup {<<a, b>> : a \in Kinds, b \in Usual}
      \cup {<<a, b>> : a \in Usual, b \in Kinds}
      \cup {<<a, b, c>> : a \in Usual, b \in Usual, c \in Usual}
SomeRoles == {{}, {"viewer"}, {"analyst"}, {"viewer", "analyst"}, {"guest"}}

\* Two queries whose keys in the cache are one, and a page of the first.
North == [filter |-> "North", order |-> <<"a", "b">>, offset |-> 0]
SomeQueries ==
    {North, [filter |-> "north", order |-> <<"b", "a">>, offset |-> 0], [North EXCEPT !.offset = 1]}

\* The TTLs are far apart in the program, and never compared.
OneTick == [s \in Subjects |-> 1]
=============================================================================
