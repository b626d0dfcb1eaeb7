----------------------------- MODULE ChatStream -----------------------------
(***************************************************************************)
(* The chat in the browser: the questions on screen, the streams that      *)
(* answer them, and the histories that are fetched (useChatStream,         *)
(* streamChat, ChatView).                                                  *)
(*                                                                         *)
(* A question and the bubble under it make a turn.  Turns, the selected    *)
(* chat, the loading flag and the tracked stream are set apart from each   *)
(* other, by clicks, by events of streams and by histories that arrive.    *)
(* Once aborted a stream calls nothing any more; one that has told "done"  *)
(* is no longer tracked, but may still fail or be closed.                  *)
(***************************************************************************)
EXTENDS Integers, Sequences, FiniteSets

CONSTANTS
    OldChats,     \* how many chats there are at first: 1..OldChats
    MaxQuestions, \* typed: a bound
    MaxStreams,   \* opened, for questions, confirmations and retries: a bound
    MaxLoads      \* of histories: a bound

ASSUME StreamAssumption == {OldChats, MaxQuestions, MaxStreams, MaxLoads} \subseteq Nat

VARIABLES
    chats,    \* the chats there are, as far as this browser made them or knows them
    chat,     \* the one selected, 0 for a new one
    base,     \* whose history is on screen above the turns, 0 for none
    turns,    \* the turns below it
    loading, tracked,
    streams,  \* those open: [no, turn, asks, clicked, chat, at]
    loads,    \* the histories being fetched: [no, chat]
    typed, opened, fetched, \* how many
    mishaps   \* what happened that the properties except: pairs, 0 for the whole screen

streamVars ==
    <<chats, chat, base, turns, loading, tracked, streams, loads, typed, opened, fetched, mishaps>>

StreamInit ==
    /\ chats = 1..OldChats /\ chat = 0 /\ base = 0 /\ turns = <<>>
    /\ loading = FALSE /\ tracked = 0 /\ streams = {} /\ loads = {}
    /\ typed = 0 /\ opened = 0 /\ fetched = 0 /\ mishaps = {}

-----------------------------------------------------------------------------
(***************************************************************************)
(* What is on screen.  A part remembers the run it came from and the       *)
(* question of that run; run is the last one begun in the bubble.          *)
(***************************************************************************)
NoPart == [run |-> 0, of |-> 0]
NoParts == [e \in {"sql", "chart", "narrative"} |-> NoPart]

Bubble(id, run) ==
    [id |-> id, chat |-> 0, run |-> run, streaming |-> TRUE, error |-> FALSE,
     card |-> FALSE, ended |-> "no", parts |-> NoParts]
\* The reset of a bubble for another run keeps the narrative.
Reset(t, run) ==
    [t EXCEPT !.run = run, !.streaming = TRUE, !.error = FALSE, !.ended = "no",
              !.parts = [NoParts EXCEPT !["narrative"] = t.parts["narrative"]]]
InTurn(id, Changed(_)) ==
    [i \in DOMAIN turns |-> IF turns[i].id = id THEN Changed(turns[i]) ELSE turns[i]]

OnScreen == {turns[i] : i \in DOMAIN turns}
LastUser == turns[Len(turns)].id
Pending ==
    turns[CHOOSE i \in DOMAIN turns :
            turns[i].card /\ \A j \in DOMAIN turns : turns[j].card => j <= i].id

\* SSEEventSchema takes no null: every event of a chart has a null image or svg.
Parsed(event) == event # "chart"

(***************************************************************************)
(* Streams begin and are finalized.                                        *)
(***************************************************************************)
StartStream(turn, asks, clicked) ==
    /\ opened < MaxStreams
    /\ opened' = opened + 1 /\ tracked' = opened' /\ loading' = TRUE
    /\ streams' = streams \cup
         {[no |-> opened', turn |-> turn, asks |-> asks, clicked |-> clicked,
           chat |-> chat, at |-> "sent"]}
\* Mutant: a stream that ends late finalizes the stream that replaced it.
FinalizeIfCurrent_Any(s) == loading' = FALSE /\ tracked' = 0
FinalizeIfCurrent(s) ==
    IF tracked = s.no
    THEN loading' = FALSE /\ tracked' = 0
    ELSE UNCHANGED <<loading, tracked>>

Kept(id) == {<<"kept", t.id>> : t \in {u \in OnScreen : u.id = id /\ u.parts["narrative"] # NoPart}}
Without(what) == {m \in mishaps : m[1] \notin what}

Ask ==
    /\ ~loading /\ typed < MaxQuestions
    /\ typed' = typed + 1
    /\ turns' = Append(turns, Bubble(typed', opened + 1))
    /\ StartStream(typed', typed', 0)
    /\ mishaps' = Without({"early"}) \cup (IF loads = {} THEN {} ELSE {<<"early", 0>>})
    /\ UNCHANGED <<chats, chat, base, loads, fetched>>

\* The button on the card of one turn confirms the last turn that has a card,
\* and runs the last question.
ConfirmLargeQuery(t) ==
    /\ t.card /\ ~t.streaming /\ ~t.error /\ ~loading
    /\ turns' = InTurn(Pending, LAMBDA u : [Reset(u, opened + 1) EXCEPT !.card = FALSE])
    /\ StartStream(Pending, LastUser, t.id)
    /\ mishaps' = mishaps \cup {<<"mixed", id>> : id \in {t.id, Pending} \ {LastUser}} \cup Kept(Pending)
    /\ UNCHANGED <<chats, chat, base, loads, typed, fetched>>

RetryTurn(t) ==
    /\ t.error /\ ~loading
    /\ turns' = InTurn(t.id, LAMBDA u : Reset(u, opened + 1))
    /\ StartStream(t.id, LastUser, 0)
    /\ mishaps' = mishaps \cup {<<"mixed", id>> : id \in {t.id} \ {LastUser}} \cup Kept(t.id)
    /\ UNCHANGED <<chats, chat, base, loads, typed, fetched>>

\* The abort leaves the reference to the stream, which no event will come from.
CancelTurn ==
    /\ loading
    /\ LET s == CHOOSE u \in streams : u.no = tracked
       IN /\ streams' = streams \ {s}
          /\ turns' = InTurn(s.turn, LAMBDA u : [u EXCEPT !.streaming = FALSE])
    /\ loading' = FALSE
    /\ UNCHANGED <<chats, chat, base, tracked, loads, typed, opened, fetched, mishaps>>

-----------------------------------------------------------------------------
(***************************************************************************)
(* What streams tell.                                                      *)
(***************************************************************************)
Reaches(s, at) == streams' = (streams \ {s}) \cup {[s EXCEPT !.at = at]}

\* The server made a chat when it was given none.
StreamStarts(s) ==
    /\ s.at = "sent"
    /\ LET id == IF s.chat = 0 THEN OldChats + s.no ELSE s.chat
       IN /\ chats' = chats \cup {id} /\ chat' = id
          /\ turns' = InTurn(s.turn, LAMBDA u : [u EXCEPT !.chat = id])
    /\ Reaches(s, "start")
    /\ UNCHANGED <<base, loading, tracked, loads, typed, opened, fetched, mishaps>>

Follows(at) ==
    CASE at = "start" -> {"sql", "narrative"}
      [] at = "sql" -> {"chart"}
      [] at = "chart" -> {"narrative"}
      [] OTHER -> {}
UpdateMessageStage(s, event) ==
    /\ event \in Follows(s.at)
    /\ turns' = IF Parsed(event)
                THEN InTurn(s.turn, LAMBDA u :
                       [u EXCEPT !.parts[event] = [run |-> s.no, of |-> s.asks]])
                ELSE turns
    /\ Reaches(s, event)
    /\ UNCHANGED <<chats, chat, base, loading, tracked, loads, typed, opened, fetched, mishaps>>

\* "card" is never asked of a run that was confirmed; "failed" is any other end
\* without an answer, and shows nothing.
StreamEnds(s, how) ==
    /\ \/ how = "answer" /\ s.at = "narrative"
       \/ how = "card" /\ s.at = "sql" /\ s.clicked = 0
       \/ how = "failed" /\ s.at \notin {"sent", "done"}
    /\ turns' = InTurn(s.turn, LAMBDA u :
                  [u EXCEPT !.streaming = FALSE, !.ended = how, !.card = @ \/ how = "card"])
    /\ Reaches(s, "done")
    /\ FinalizeIfCurrent(s)
    /\ UNCHANGED <<chats, chat, base, loads, typed, opened, fetched, mishaps>>

\* The end of the response.  Without "done" before it nothing ends the bubble.
StreamCloses(s) ==
    /\ streams' = streams \ {s}
    /\ FinalizeIfCurrent(s)
    /\ mishaps' = mishaps \cup (IF s.at = "done" THEN {} ELSE {<<"closed", s.turn>>})
    /\ UNCHANGED <<chats, chat, base, turns, loads, typed, opened, fetched>>

\* A response that is refused or breaks, possibly after "done".
StreamBreaks(s) ==
    /\ streams' = streams \ {s}
    /\ turns' = InTurn(s.turn, LAMBDA u : [u EXCEPT !.streaming = FALSE, !.error = TRUE])
    /\ FinalizeIfCurrent(s)
    /\ mishaps' = mishaps \cup (IF s.at = "done" THEN {<<"late", s.turn>>} ELSE {})
    /\ UNCHANGED <<chats, chat, base, loads, typed, opened, fetched>>

-----------------------------------------------------------------------------
(***************************************************************************)
(* Chats are selected; a fetch that another follows is not cancelled.      *)
(***************************************************************************)
Leaves == mishaps' = Without({"overlap"}) \cup (IF loads = {} THEN {} ELSE {<<"overlap", 0>>})

HandleSelect(c) ==
    /\ ~loading /\ fetched < MaxLoads
    /\ chat' = c /\ base' = 0 /\ turns' = <<>>
    /\ fetched' = fetched + 1
    /\ loads' = loads \cup {[no |-> fetched', chat |-> c]}
    /\ Leaves
    /\ UNCHANGED <<chats, loading, tracked, streams, typed, opened>>
HandleNewChat ==
    /\ ~loading
    /\ chat' = 0 /\ base' = 0 /\ turns' = <<>>
    /\ Leaves
    /\ UNCHANGED <<chats, loading, tracked, streams, loads, typed, opened, fetched>>
\* A fetch that fails clears the screen as well.
HistoryArrives(l, failed) ==
    /\ loads' = loads \ {l}
    /\ base' = IF failed THEN 0 ELSE l.chat
    /\ turns' = <<>>
    /\ UNCHANGED <<chats, chat, loading, tracked, streams, typed, opened, fetched, mishaps>>

StreamNext ==
    \/ Ask \/ CancelTurn \/ HandleNewChat
    \/ \E t \in OnScreen : ConfirmLargeQuery(t) \/ RetryTurn(t)
    \/ \E s \in streams : StreamStarts(s) \/ StreamCloses(s) \/ StreamBreaks(s)
    \/ \E s \in streams, e \in DOMAIN NoParts : UpdateMessageStage(s, e)
    \/ \E s \in streams, how \in {"answer", "card", "failed"} : StreamEnds(s, how)
    \/ \E c \in chats : HandleSelect(c)
    \/ \E l \in loads, failed \in BOOLEAN : HistoryArrives(l, failed)
StreamSpec == StreamInit /\ [][StreamNext]_streamVars

-----------------------------------------------------------------------------
Met(what, id) == <<what, id>> \in mishaps

\* The screen waits exactly while one stream is to be waited for: that stream is the
\* tracked one, and its bubble is on screen and spins, unless the question was asked
\* while a history was fetched (use-chat-stream.ts:253), or an earlier stream of the
\* bubble broke after its end.  Nothing else spins, but what was closed.
WaitsForOne ==
    /\ {s.no : s \in {u \in streams : u.at # "done"}} = (IF loading THEN {tracked} ELSE {})
    /\ loading => \/ \E t \in OnScreen : t.run = tracked /\ (t.streaming \/ Met("late", t.id))
                  \/ Met("early", 0)
    /\ \A t \in OnScreen :
         t.streaming => (loading /\ t.run = tracked) \/ Met("closed", t.id)

\* A bubble shows what its own last run told about its own question, except where a
\* button of another turn than the last was pressed (:172, :204), and except a
\* narrative that another run kept; a chart of a stream is never shown (validators.ts:27).
\* What was confirmed is the question whose card was clicked.
ShowsItsOwn ==
    /\ \A t \in OnScreen : \A e \in DOMAIN NoParts :
         LET part == t.parts[e]
         IN /\ part.of \in {0, t.id} \/ Met("mixed", t.id)
            /\ part.run \in {0, t.run} \/ Met("kept", t.id)
            /\ e = "chart" => part = NoPart
    /\ \A s \in streams : s.clicked # 0 => s.asks = s.clicked \/ Met("mixed", s.clicked)

\* An answer or a card that came stays visible, and a card is only where one was asked
\* for, unless the stream broke after its end, or was closed without one.
EndsAsTold ==
    \A t \in OnScreen :
      /\ t.error => t.ended = "no" \/ Met("late", t.id)
      /\ t.card => t.ended = "card" \/ Met("late", t.id)

\* What is on screen belongs to the selected chat, but for a history that was fetched
\* while another chat was selected.
OfOneChat ==
    /\ base \in {0, chat} \/ Met("overlap", 0)
    /\ \A t \in OnScreen : t.chat \in {0, chat}

\* What the browser shows is what the user selected, asked and confirmed, and what the
\* server told about it, up to the mishaps each part names.
ScreenTells == WaitsForOne /\ ShowsItsOwn /\ EndsAsTold /\ OfOneChat

=============================================================================
