---------------------------- MODULE WikiHistory ----------------------------
(***************************************************************************)
(* What the knowledge base promises of one page (ADR 010): it shows the    *)
(* last text saved, every save is appended to its history, and only the    *)
(* deletion of the page ends that history.  There are no requests here,    *)
(* no transactions and no page ids.                                        *)
(***************************************************************************)
EXTENDS Sequences

CONSTANTS
  Text,   \* what a page may say
  NoText  \* there is no page

VARIABLES
  current,  \* what the page says
  history   \* the texts saved since the page was created, oldest first

vars == <<current, history>>

Init == current = NoText /\ history = << >>

\* A save, be it of new text or of an old version brought forward.
Save(t) == current' = t /\ history' = Append(history, t)

Remove == current # NoText /\ current' = NoText /\ history' = << >>

Next == Remove \/ \E t \in Text : Save(t)

Spec == Init /\ [][Next]_vars
=============================================================================
