----------------------------- MODULE ChartRules -----------------------------
(***************************************************************************)
(* The chart step of a chat turn: ChartGenAgent proposes a specification   *)
(* (the model's, or its own hints), validate_chart_spec corrects it, the   *)
(* Flint bridge draws it, and ChatService validates what was drawn again   *)
(* before it answers with specification, image and warnings.               *)
(*                                                                         *)
(* A result is its columns' kinds and its number of rows; the values of a  *)
(* column are taken to be distinct.  A field of a specification is a       *)
(* column spelt right, a column spelt nearly right, or a word that is like *)
(* no column.  Axis bounds and negative values only add a warning, and are *)
(* left out.                                                               *)
(***************************************************************************)
EXTENDS Integers, Sequences, FiniteSets, FiniteSetsExt

CONSTANTS
    Tables,      \* sequences of column kinds
    RowCounts,   \* numbers of rows of a result; it has at least one
    MaxProposed, \* a model's answers are enumerated for at most this many columns
    ChartFaults  \* what may fail: "model", "export"

(***************************************************************************)
(* "oldYear": numbers within 1000 .. 1899.  "sparse": numbers, but not in  *)
(* the first Sample rows.                                                  *)
(***************************************************************************)
Kinds == {"text", "number", "date", "oldYear", "sparse"}

ASSUME TablesAssumption == Tables \subseteq Seq(Kinds) \ {<<>>}
ASSUME RowCountsAssumption == RowCounts \subseteq Nat \ {0}
ASSUME ChartFaultsAssumption == ChartFaults \subseteq {"model", "export"}

VARIABLES
    table, rows, \* the result the chart is drawn from
    answer,      \* what the model will say: a specification, or Nothing
    spec,        \* the specification as it stands
    image,       \* what the bridge drew, or Nothing
    notes,       \* the warnings collected for the answer
    verdict,     \* is_valid of the last validation
    stage        \* what comes next

chartVars == <<table, rows, answer, spec, image, notes, verdict, stage>>

Types == {"Bar", "Line", "Pie", "Scatter", "Heatmap", "Table", "Histogram"}
Sample == 20
Head10 == 10
InlineLimit == 100
SizeLimit == 10000

Nothing == [type |-> "nothing"]
Field(c) == [col |-> c, spelt |-> "right"]
Near(c)  == [col |-> c, spelt |-> "near"]
Unlike   == [col |-> 0, spelt |-> "unlike"]
Absent   == [col |-> 0, spelt |-> "right"]
Exists(f) == f.col > 0 /\ f.spelt = "right"
First(S) == Field(Min(S))
Second(S) == Field(Min(S \ {Min(S)}))

Channels == {"x", "y", "color"}
Fields(s) == {s.enc[c] : c \in Channels} \ {Absent}

(***************************************************************************)
(* The kind of a column as the agent infers it from the first rows, and as *)
(* the validator infers it from the first values.                          *)
(***************************************************************************)
AgentType(c) ==
    CASE table[c] \in {"text", "sparse"} -> "Category"
      [] table[c] = "number"             -> "Quantity"
      [] OTHER                           -> "Temporal"
ColumnType(c) ==
    CASE table[c] = "text"   -> "Category"
      [] table[c] = "date"   -> "Temporal"
      [] table[c] = "sparse" -> IF rows > Sample THEN "Quantity" ELSE "Category"
      [] OTHER               -> "Quantity"
\* A column the validator does not know is a category to it.
FieldType(f) == IF Exists(f) THEN ColumnType(f.col) ELSE "Category"
Inferred(t) == {c \in DOMAIN table : AgentType(c) = t}
Typed(t)    == {c \in DOMAIN table : ColumnType(c) = t}
\* The rows that have a value for the field.
Filled(f) ==
    IF ~Exists(f) THEN 0
    ELSE IF table[f.col] = "sparse" THEN Max({0, rows - Sample}) ELSE rows

-----------------------------------------------------------------------------
(***************************************************************************)
(* The agent's hints.  Its branch for a pie chart asks for what the branch *)
(* for a bar chart already took.                                           *)
(***************************************************************************)
SuggestedType ==
    LET q == Cardinality(Inferred("Quantity")) IN
    CASE Inferred("Temporal") # {} /\ q > 0             -> "Line"
      [] Cardinality(Inferred("Category")) = 1 /\ q = 1 -> "Bar"
      [] q >= 2                                         -> "Scatter"
      [] OTHER                                          -> "Bar"
SuggestedEncodings ==
    LET C == Inferred("Category")  Q == Inferred("Quantity")  T == Inferred("Temporal") IN
    [x |-> IF T # {} THEN First(T) ELSE IF C # {} THEN First(C) ELSE Absent,
     y |-> IF Q # {} THEN First(Q) ELSE Absent,
     color |-> CASE Cardinality(C) > 1 -> Second(C)
                 [] Cardinality(C) <= 1 /\ Cardinality(Q) > 1 /\ SuggestedType = "Scatter"
                      -> Second(Q)
                 [] OTHER -> Absent]
OwnSpec ==
    [type |-> SuggestedType, enc |-> SuggestedEncodings, listed |-> FALSE,
     data |-> "values", drawn |-> rows]

(***************************************************************************)
(* What a model may answer: any type, fields that exist or not (of the     *)
(* color only one that does not), encodings as an object or as a list of   *)
(* channels, and as data the rows it was shown, bare or under "values", or *)
(* none.                                                                   *)
(***************************************************************************)
Words == {Absent, Unlike} \cup {Field(c) : c \in DOMAIN table} \cup {Near(c) : c \in DOMAIN table}
RowsIn(data) == IF data = "missing" THEN 0 ELSE Min({Head10, rows})
Proposals ==
    {[type |-> t, enc |-> e, listed |-> l, data |-> d, drawn |-> RowsIn(d)] :
        t \in Types, e \in [x : Words, y : Words, color : {Absent, Unlike}],
        l \in BOOLEAN, d \in {"values", "bare", "missing"}}

-----------------------------------------------------------------------------
(***************************************************************************)
(* The validator: what a chart type needs of its axes (a type that is not  *)
(* listed needs nothing), and the codes of the issues it finds.            *)
(***************************************************************************)
Needs(type) ==
    CASE type = "Bar"     -> [x |-> {"Category", "Temporal"}, y |-> {"Quantity"}]
      [] type = "Line"    -> [x |-> {"Category", "Temporal"}, y |-> {"Quantity"}]
      [] type = "Pie"     -> [x |-> {"Category"}, y |-> {"Quantity"}]
      [] type = "Scatter" -> [x |-> {"Quantity"}, y |-> {"Quantity"}]
      [] type = "Heatmap" -> [x |-> {"Category"}, y |-> {"Category"}]
      [] OTHER -> [x |-> {"Category", "Temporal", "Quantity"}, y |-> {"Category", "Temporal", "Quantity"}]

When(cond, code) == IF cond THEN {code} ELSE {}

Resolve(f) == IF f.spelt = "near" THEN Field(f.col) ELSE f
Corrected(s) == [s EXCEPT !.enc = [c \in Channels |-> Resolve(s.enc[c])]]

Structure(s) ==
    When(s.data = "missing", "MISSING_REQUIRED_KEY")
      \cup When(s.data # "bare" /\ s.drawn = 0, "EMPTY_DATA_VALUES")
      \cup When(Fields(s) = {}, "NO_ENCODINGS")
Size(s) == When(rows > SizeLimit /\ s.type \notin {"Table", "Heatmap"}, "DATA_TOO_LARGE")
Existence(s) ==
    When(\E f \in Fields(s) : ~Exists(f), "FIELD_NOT_FOUND")
      \cup When(\E f \in Fields(s) : f.spelt = "near", "FIELD_CORRECTED")
Distinct(f) == Filled(f) + IF Filled(f) < rows THEN 1 ELSE 0
Points(s) == Min({Filled(s.enc.x), Filled(s.enc.y)})
Compatibility(s) ==
    LET x == s.enc.x  y == s.enc.y IN
    When(x # Absent /\ FieldType(x) \notin Needs(s.type).x, "X_AXIS_TYPE_MISMATCH")
      \cup When(y # Absent /\ FieldType(y) \notin Needs(s.type).y, "Y_AXIS_TYPE_MISMATCH")
      \cup When(s.type = "Pie" /\ x # Absent /\ Distinct(x) > 10, "PIE_TOO_MANY_SLICES")
      \cup When(s.type = "Scatter" /\ Points(s) < 5, "SCATTER_TOO_FEW_POINTS")
      \cup When(s.type = "Line" /\ x # Absent /\ FieldType(x) # "Temporal", "LINE_NON_TEMPORAL_X")
\* A bug: a column that is not in the result has no nulls to count.
Nulls_Known(s) ==
    When(\E f \in Fields(s) : Exists(f) /\ 5 * (rows - Filled(f)) > rows, "HIGH_NULL_RATIO")
Nulls(s) == When(\E f \in Fields(s) : 5 * (rows - Filled(f)) > rows, "HIGH_NULL_RATIO")
Errors == {"MISSING_REQUIRED_KEY", "EMPTY_DATA_VALUES", "FIELD_NOT_FOUND",
           "X_AXIS_TYPE_MISMATCH", "Y_AXIS_TYPE_MISMATCH", "SCATTER_TOO_FEW_POINTS"}

\* A bug: the fallback chain ends without the universal fallback.
Fallback_Keeps(type) ==
    CASE type = "Scatter" /\ Cardinality(Typed("Quantity")) = 1 /\ Typed("Temporal") # {} -> "Line"
      [] type = "Heatmap" /\ Typed("Quantity") = {} /\ Typed("Category") # {} -> "Table"
      [] OTHER -> type
\* The type a specification with errors is given.
Fallback(type) ==
    LET C == Typed("Category")  Q == Typed("Quantity")  T == Typed("Temporal") IN
    CASE type = "Scatter" /\ Cardinality(Q) = 1 /\ T # {}  -> "Line"
      [] type = "Heatmap" /\ Q = {} /\ C # {}             -> "Table"
      [] C = {} /\ Q = {} /\ ~(type = "Pie" /\ rows > 10) -> "Table"
      [] OTHER                                            -> "Bar"

(***************************************************************************)
(* One validation.  Encodings in a list make it raise, and both callers    *)
(* then go on with the specification as it was.                            *)
(***************************************************************************)
Codes(s) ==
    Structure(s) \cup Size(s)
      \cup IF Fields(s) = {} THEN {}
           ELSE Existence(s) \cup Compatibility(Corrected(s)) \cup Nulls(Corrected(s))
Validated(s) ==
    LET errors == Codes(s) \cap Errors
        type   == IF errors = {} THEN s.type ELSE Fallback(s.type)
    IN IF s.listed /\ Fields(s) # {}
       THEN [spec |-> s, codes |-> {"SKIPPED"}, valid |-> FALSE]
       ELSE [spec |-> [Corrected(s) EXCEPT !.type = type],
             codes |-> Codes(s) \cup When(type # s.type, "CHART_TYPE_CORRECTED"),
             valid |-> errors \subseteq {"FIELD_NOT_FOUND"}]

-----------------------------------------------------------------------------
(***************************************************************************)
(* The bridge: more than InlineLimit rows go to a file, which the renderer *)
(* does not read; channels left out default to the first and last column;  *)
(* a type without a builder, or that the bridge does not know, is drawn as *)
(* bars: what _validate_spec says of the latter is told of no chart that   *)
(* was drawn.                                                              *)
(***************************************************************************)
Prepared(s) ==
    IF s.drawn > InlineLimit THEN [s EXCEPT !.data = "file", !.drawn = 0]
    ELSE IF s.data = "bare" THEN [s EXCEPT !.data = "values"] ELSE s
Axis(f, default) == IF f = Absent THEN Field(default) ELSE f
Mark(type) == IF type \in {"Line", "Scatter", "Pie"} THEN type ELSE "Bar"
Picture(s) ==
    [type |-> Mark(s.type), x |-> Axis(s.enc.x, 1), y |-> Axis(s.enc.y, Len(table)), rows |-> s.drawn]

ChartInit ==
    /\ table \in Tables /\ rows \in RowCounts
    /\ answer \in {Nothing} \cup (IF Len(table) <= MaxProposed THEN Proposals ELSE {})
    /\ spec = Nothing /\ image = Nothing /\ notes = {} /\ verdict = FALSE
    /\ stage = "generate"

Generate ==
    /\ stage = "generate"
    /\ spec' = IF answer = Nothing THEN OwnSpec ELSE answer
    /\ stage' = "check"
    /\ UNCHANGED <<table, rows, answer, image, notes, verdict>>
\* The call of the model fails: the turn goes on without a chart.
ModelFails ==
    /\ stage = "generate" /\ "model" \in ChartFaults
    /\ stage' = "end"
    /\ UNCHANGED <<table, rows, answer, spec, image, notes, verdict>>

\* The agent's validation, before it draws.  It does not look at the verdict.
Check ==
    /\ stage = "check"
    /\ LET v == Validated(spec) IN
       /\ spec' = v.spec
       /\ notes' = v.codes \ Errors
    /\ stage' = "render"
    /\ UNCHANGED <<table, rows, answer, image, verdict>>

Render ==
    /\ stage = "render"
    /\ LET s == Prepared(spec) IN
       /\ s.drawn > 0
       /\ spec' = s
       /\ image' = Picture(s)
    /\ stage' = "recheck"
    /\ UNCHANGED <<table, rows, answer, notes, verdict>>
\* Nothing to draw: the turn keeps only the reason.
NothingToDraw ==
    /\ stage = "render" /\ Prepared(spec).drawn = 0
    /\ notes' = {"NOT_DRAWN"}
    /\ stage' = "end"
    /\ UNCHANGED <<table, rows, answer, spec, image, verdict>>
ExportFails ==
    /\ stage = "render" /\ "export" \in ChartFaults /\ Prepared(spec).drawn > 0
    /\ notes' = {"EXPORT_FAILED"}
    /\ stage' = "end"
    /\ UNCHANGED <<table, rows, answer, spec, image, verdict>>

\* ChatService validates once more and answers.
Recheck ==
    /\ stage = "recheck"
    /\ LET v == Validated(spec) IN
       /\ spec' = v.spec
       /\ verdict' = v.valid
       /\ notes' = notes \cup (v.codes \ Errors) \cup (IF v.valid THEN {} ELSE v.codes)
    /\ stage' = "end"
    /\ UNCHANGED <<table, rows, answer, image>>

ChartNext == Generate \/ ModelFails \/ Check \/ Render \/ NothingToDraw \/ ExportFails \/ Recheck
ChartSpec == ChartInit /\ [][ChartNext]_chartVars

-----------------------------------------------------------------------------
\* The picture is of the type that is answered, over axes that suit it.
Suits(p, s) ==
    /\ p.type = s.type
    /\ Exists(p.x) /\ ColumnType(p.x.col) \in Needs(p.type).x
    /\ Exists(p.y) /\ ColumnType(p.y.col) \in Needs(p.type).y

(***************************************************************************)
(* A chart that comes with no warning is right: it is drawn as the answer  *)
(* says, from every row of the result, over axes that suit its type, as    *)
(* chat_service.py:778 "Every correction is logged and surfaced as a       *)
(* warning" has it.  Except where the code cannot tell: the model is shown *)
(* ten rows, and its copy of them is what is drawn; a type the bridge has  *)
(* no builder for, or does not know at all (Table), is drawn as bars; and  *)
(* an axis that the specification leaves out is not checked.               *)
(***************************************************************************)
SilentIsRight ==
    (stage = "end" /\ image # Nothing /\ notes = {}) =>
        /\ image.rows = rows \/ (answer # Nothing /\ rows > Head10)
        /\ Suits(image, spec) \/ Mark(spec.type) # spec.type \/ Absent \in {spec.enc.x, spec.enc.y}

\* A third validation, of the specification the chat answered with, changes nothing.
SettlesInTwo ==
    (stage = "end" /\ image # Nothing) => Validated(spec).spec = spec
\* When the model answers nothing usable, what _suggest_chart_type and
\* _suggest_encodings propose ends as a chart that is drawn and valid.  Except over
\* columns that agent and validator see differently (years before 1900, a column that
\* starts with nulls), for more rows than the renderer reads, and when the export fails.
HintsValidate ==
    (stage = "end" /\ answer = Nothing /\ rows <= InlineLimit) =>
        \/ spec = Nothing \/ "EXPORT_FAILED" \in notes
        \/ image # Nothing /\ verdict
        \/ \E c \in DOMAIN table : AgentType(c) # ColumnType(c)

(***************************************************************************)
(* The two validations of a turn are enough: they leave nothing for a      *)
(* third, and the agent's own hints come out of them as a valid chart.     *)
(***************************************************************************)
TwoValidationsSettle == SettlesInTwo /\ HintsValidate
=============================================================================
