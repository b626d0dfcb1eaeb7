------------------------------ MODULE SqlRules ------------------------------
(***************************************************************************)
(* What happens to the SQL a model wrote: the gate of ValidationAgent, the *)
(* EXPLAIN that decides whether the user is asked first, the connector's   *)
(* own gate and read-only transaction, and the tables that are recorded as *)
(* the lineage of the query.                                               *)
(*                                                                         *)
(* All of these look at the text with regular expressions, so a text is a  *)
(* sequence of the words they tell apart.  Queries are built from a small  *)
(* grammar that also says what each text means to the database: the tables *)
(* it reads, whether it writes, how many statements it is, and in "marks"  *)
(* how it is written.  Words follow each other with a space, but for a     *)
(* comma, a semicolon and a new line ("nl").                               *)
(***************************************************************************)
EXTENDS Integers, Sequences, FiniteSets

CONSTANTS
    RoleSets,  \* the roles users may have
    SqlFaults  \* what may fail: "connect", "explain", "graph"

ASSUME SqlFaultsAssumption == SqlFaults \subseteq {"connect", "explain", "graph"}

VARIABLES
    query, large, \* the text with its meaning; its tables have over a million rows
    roles,        \* of the user who asked
    estimate,     \* what the EXPLAIN says: "many", "few" or, when it failed, "unknown"
    outcome,      \* "none", "down", "refused", "asked", "failed" or "ran"
    recorded,     \* the tables recorded as read
    phase         \* what comes next

sqlVars == <<query, large, roles, estimate, outcome, recorded, phase>>

-----------------------------------------------------------------------------
(***************************************************************************)
(* The grammar.                                                            *)
(***************************************************************************)
Piece(text, tables, marks) == [text |-> text, tables |-> tables, marks |-> marks]
Lists == {
    Piece(<<"col">>, {}, {}),
    Piece(<<"count">>, {}, {"aggregate"}),
    Piece(<<"extract", "(", "year", "FROM", "col", ")">>, {}, {"extract"})}
Sources == {
    Piece(<<"t1">>, {"t1"}, {}),
    Piece(<<"t1", "comma", "t2">>, {"t1", "t2"}, {"comma"}),
    Piece(<<"t1", "nl", "LEFT", "JOIN", "t2">>, {"t1", "t2"}, {"line"}),
    Piece(<<"t1", "a", "nl", "LEFT", "JOIN", "t2">>, {"t1", "t2"}, {}),
    Piece(<<"(", "SELECT", "col", "FROM", "t1", ")", "a">>, {"t1"}, {"derived"})}
Tails == {
    Piece(<<>>, {}, {}),
    Piece(<<"nl", "WHERE", "col">>, {}, {}),
    Piece(<<"WHERE", "col", "IN", "(", "SELECT", "col", "FROM", "t2", ")">>, {"t2"}, {"nested"}),
    Piece(<<"WHERE", "'GRANT'">>, {}, {"literal"}),
    Piece(<<"UNION", "SELECT", "col", "FROM", "t2">>, {"t2"}, {})}
Selects ==
    {Piece(<<"SELECT">> \o l.text \o <<"FROM">> \o s.text \o t.text,
           s.tables \cup t.tables, l.marks \cup s.marks \cup t.marks) :
        l \in Lists, s \in Sources, t \in Tails}
Withs ==
    {Piece(<<"WITH", "c", "AS", "(">> \o s.text \o <<")", "SELECT", "col", "FROM", "c">>,
           s.tables, s.marks \cup {"with"}) : s \in Selects}
Writes == {
    Piece(<<"UPDATE", "t1">>, {}, {"write"}),
    Piece(<<"DELETE", "t1">>, {}, {"write"}),
    Piece(<<"SELECT", "col", "INTO", "t3", "FROM", "t1">>, {"t1"}, {"write"}),
    Piece(<<"WITH", "c", "AS", "(", "UPDATE", "t1", ")", "SELECT", "col", "FROM", "c">>, {}, {"write", "with"})}
Wraps == {
    <<<<>>, <<>>, {}>>,
    <<<<"--", "word", "nl">>, <<>>, {"comment"}>>,
    <<<<"--", "word", "semicolon", "word", "nl">>, <<>>, {"comment"}>>,
    <<<<"(">>, <<")">>, {"parens"}>>,
    <<<<"EXPLAIN">>, <<>>, {"explain"}>>,
    <<<<"EXPLAIN", "ANALYZE">>, <<>>, {"analyze"}>>,
    <<<<>>, <<"semicolon">>, {"end"}>>,
    <<<<>>, <<"semicolon", "DELETE", "t1">>, {"write"}>>}
Wrapped(q, w) == Piece(w[1] \o q.text \o w[2], q.tables, q.marks \cup w[3])
Queries == {Wrapped(q, w) : q \in Selects \cup Withs \cup Writes, w \in Wraps}

-----------------------------------------------------------------------------
(***************************************************************************)
(* The gate.                                                               *)
(***************************************************************************)
Reading == {"SELECT", "WITH", "EXPLAIN", "SHOW", "DESCRIBE"}
Destructive == {"DELETE", "GRANT", "'GRANT'"}
QueryRoles == {"admin", "analyst", "user", "viewer"}
NotForViewers == {"JOIN", "UNION", "WITH"}

At(s, i) == IF i \in DOMAIN s THEN s[i] ELSE "nothing"
Uses(s, words) == \E i \in DOMAIN s : s[i] \in words

\* Splitting at semicolons, comments or not, leaves more than one statement.
Several(s) ==
    Cardinality({i \in DOMAIN s : s[i] # "semicolon" /\ At(s, i - 1) \in {"semicolon", "nothing"}}) > 1

\* The text without the comments and the group in parentheses it starts with.
Stripped[s \in Seq(STRING)] ==
    LET Depth(i) == Cardinality({k \in 1..i : s[k] = "("}) - Cardinality({k \in 1..i : s[k] = ")"})
        line   == {i \in DOMAIN s : s[i] = "nl"}
        closed == {i \in DOMAIN s : Depth(i) = 0}
        Least(S) == CHOOSE i \in S : \A k \in S : i <= k
        After(i) == SubSeq(s, i + 1, Len(s))
    IN CASE At(s, 1) = "--" -> IF line = {} THEN <<>> ELSE Stripped[After(Least(line))]
         [] At(s, 1) = "(" /\ closed # {} -> Stripped[After(Least(closed))]
         [] OTHER -> s

\* The first word that counts.
Opening(s) == IF At(s, 1) \in {"--", "("} THEN At(Stripped[s], 1) ELSE At(s, 1)

MayQuery(s, rs) ==
    \/ rs = {}
    \/ rs \cap QueryRoles # {} /\ ("viewer" \in rs => ~Uses(s, NotForViewers))
Valid(s, rs) ==
    /\ ~Several(s)
    /\ ~Uses(s, Destructive)
    /\ Opening(s) \in Reading
    /\ MayQuery(s, rs)

-----------------------------------------------------------------------------
(***************************************************************************)
(* The lineage of a text.  A FROM clause is the shortest text up to a stop *)
(* word or to the end of the query that holds no parenthesis.  The text is *)
(* searched as it is and once more without its parentheses; a clause that  *)
(* is found swallows what it covers.                                       *)
(***************************************************************************)
Stops == {"WHERE", "GROUP", "ORDER", "LIMIT", "HAVING", "JOIN", "UNION"}
Punctuation == {"(", ")", "comma", "semicolon", "nl", "--", ".", "'GRANT'", "nothing"}
IsName(t) == t \notin Punctuation \cup {"SELECT"}

Cleaned[s \in Seq(STRING)] ==
    LET lines == {i \in DOMAIN s : s[i] = "nl"}
        line  == CHOOSE i \in lines : \A k \in lines : i <= k
    IN CASE s = <<>> -> <<>>
         [] At(s, 1) = "--" -> IF lines = {} THEN <<>> ELSE Cleaned[SubSeq(s, line, Len(s))]
         [] OTHER -> <<Head(s)>> \o Cleaned[Tail(s)]
\* A closing parenthesis keeps what follows apart from what it closed.
Flat(s) == SelectSeq([i \in DOMAIN s |-> IF s[i] = ")" THEN "." ELSE s[i]], LAMBDA t : t # "(")

ClauseEnds(s, i) ==
    {j \in (i + 1)..Len(s) :
        /\ \A k \in (i + 1)..j : s[k] \notin {"(", ")"}
        /\ At(s, j + 1) \in Stops \cup {"nothing"}}
Clauses[s \in Seq(STRING), i \in Nat] ==
    LET ends == ClauseEnds(s, i)
        j == CHOOSE e \in ends : \A k \in ends : e <= k
    IN IF i > Len(s) THEN {}
       ELSE IF s[i] # "FROM" \/ ends = {} THEN Clauses[s, i + 1]
       ELSE {SubSeq(s, i + 1, j)} \cup Clauses[s, j + 1]
\* What a clause lists between its commas; a new line at its end is stripped.
Parts(c) ==
    LET n == IF At(c, Len(c)) = "nl" THEN Len(c) - 1 ELSE Len(c)
    IN {SubSeq(c, p[1], p[2]) :
          p \in {p \in (1..n) \X (1..n) :
            /\ p[1] <= p[2] /\ "comma" \notin {c[k] : k \in p[1]..p[2]}
            /\ At(c, p[1] - 1) \in {"comma", "nothing"}
            /\ p[2] = n \/ c[p[2] + 1] = "comma"}}
\* The first word of a part, up to a space: what is stuck to it spoils it.
FirstWords(parts) == {p[1] : p \in {p \in parts : IsName(p[1]) /\ At(p, 2) \notin {"nl", "semicolon"}}}
JoinTargets(s) ==
    {t \in {At(s, IF At(s, i + 1) = "nl" THEN i + 2 ELSE i + 1) : i \in {i \in DOMAIN s : s[i] = "JOIN"}} : IsName(t)}
CteNames(s) ==
    {s[i] : i \in {i \in DOMAIN s : /\ At(s, i - 1) \in {"WITH", "comma"} /\ IsName(s[i])
                                    /\ At(s, i + 1) = "AS" /\ At(s, i + 2) = "("}}
\* A bug: the names a WITH introduces are not told from tables.
Extracted_Ctes(s) ==
    LET c == Cleaned[s]
        clauses == Clauses[c, 1] \cup Clauses[Flat(c), 1]
    IN UNION {FirstWords(Parts(k)) : k \in clauses} \cup JoinTargets(c)
Extracted(s) ==
    LET c == Cleaned[s]
        clauses == Clauses[c, 1] \cup Clauses[Flat(c), 1]
    IN (UNION {FirstWords(Parts(k)) : k \in clauses} \cup JoinTargets(c)) \ CteNames(c)

-----------------------------------------------------------------------------
Has(mark) == mark \in query.marks

SqlInit ==
    /\ query \in Queries /\ large \in BOOLEAN /\ roles \in RoleSets
    /\ estimate = "unknown" /\ outcome = "none" /\ recorded = {}
    /\ phase = "validate"

Refuse ==
    /\ phase = "validate" /\ ~Valid(query.text, roles)
    /\ outcome' = "refused" /\ phase' = "end"
    /\ UNCHANGED <<query, large, roles, estimate, recorded>>
\* The connection for the EXPLAIN is opened before the gate is asked.
Disconnected ==
    /\ phase = "validate" /\ "connect" \in SqlFaults
    /\ outcome' = "down" /\ phase' = "end"
    /\ UNCHANGED <<query, large, roles, estimate, recorded>>
\* EXPLAIN of an EXPLAIN is no SQL.  What is read is the root of the plan: the
\* rows that come out of the query.
Plan ==
    CASE Has("explain") \/ Has("analyze") -> "unknown"
      [] large /\ ~Has("explain") /\ ~Has("analyze") /\ ~Has("aggregate") -> "many"
      [] OTHER -> "few"
Explain ==
    /\ phase = "validate" /\ Valid(query.text, roles)
    /\ estimate' \in {Plan} \cup {"unknown" : f \in SqlFaults \cap {"explain"}}
    /\ phase' = "confirm"
    /\ UNCHANGED <<query, large, roles, outcome, recorded>>
AskFirst ==
    /\ phase = "confirm" /\ estimate = "many"
    /\ outcome' = "asked" /\ phase' = "end"
    /\ UNCHANGED <<query, large, roles, estimate, recorded>>
\* A bug: the transaction is not made read-only.
RunsReadOnly_Not == At(query.text, 1) \in Reading
\* The connector looks at the first word, and the database at what is written.
RunsReadOnly == At(query.text, 1) \in Reading /\ ~Has("write")
Execute ==
    /\ phase = "confirm" /\ estimate # "many"
    /\ outcome' = IF RunsReadOnly THEN "ran" ELSE "failed"
    /\ phase' = IF RunsReadOnly THEN "record" ELSE "end"
    /\ UNCHANGED <<query, large, roles, estimate, recorded>>
Record ==
    /\ phase = "record"
    /\ recorded' = Extracted(query.text)
    /\ phase' = "end"
    /\ UNCHANGED <<query, large, roles, estimate, outcome>>
\* The graph is down: the query has run, and nothing is recorded.
RecordFails ==
    /\ phase = "record" /\ "graph" \in SqlFaults
    /\ phase' = "lost"
    /\ UNCHANGED <<query, large, roles, estimate, outcome, recorded>>

SqlNext == Refuse \/ Disconnected \/ Explain \/ AskFirst \/ Execute \/ Record \/ RecordFails
SqlSpec == SqlInit /\ [][SqlNext]_sqlVars

-----------------------------------------------------------------------------
(***************************************************************************)
(* What should become of a query: it runs when it only reads, and its user *)
(* may ask it (a viewer: of one table, without a WITH); over large tables  *)
(* the user is asked first.                                                *)
(***************************************************************************)
Scans == large /\ ~Has("explain")
Entitled ==
    \/ roles = {}
    \/ roles \cap QueryRoles # {}
       /\ ("viewer" \in roles => Cardinality(query.tables) <= 1 /\ ~Has("with"))
Expected ==
    CASE Has("write") -> {"refused", "failed", "asked"}
      [] ~Has("write") /\ ~Entitled -> {"refused"}
      [] OTHER -> {IF Scans THEN "asked" ELSE "ran"}

(***************************************************************************)
(* The gates together do what they should, to every query of the grammar:  *)
(* nothing that writes runs, a viewer reads one table, large scans are     *)
(* asked for, and everything else runs.  Except, one way: a text that      *)
(* starts with a comment or a parenthesis, or quotes a forbidden word, is  *)
(* refused or fails.  And the other way: a viewer may list tables with     *)
(* commas or nest queries; the rows an aggregate or EXPLAIN ANALYZE scans, *)
(* and those of a failed EXPLAIN, are not estimated.                       *)
(***************************************************************************)
GatesAreExact ==
    (phase = "end" /\ outcome # "down") =>
        \/ outcome \in Expected
        \/ outcome \in {"refused", "failed"} /\ (Has("comment") \/ Has("parens") \/ Has("literal"))
        \/ outcome \in {"ran", "asked"} /\ ~Has("write")
           /\ "viewer" \in roles /\ (Has("comma") \/ Has("nested"))
        \/ outcome = "ran" /\ Entitled /\ ~Has("write") /\ Scans
           /\ (Has("aggregate") \/ estimate = "unknown")

(***************************************************************************)
(* The lineage of a query that ran names the tables it read, and no other. *)
(* Except when the text ends in a semicolon, reads from a subquery in its  *)
(* FROM clause, breaks the line right after a table that is joined, or has *)
(* a FROM inside a function.                                               *)
(***************************************************************************)
LineageIsExact ==
    (phase = "end" /\ outcome = "ran") =>
        \/ recorded = query.tables
        \/ Has("end") \/ Has("derived") \/ Has("line") \/ Has("extract")
=============================================================================
