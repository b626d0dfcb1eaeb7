--------------------------- MODULE MCChatPipeline ---------------------------
(***************************************************************************)
(* Two questions, in one conversation of tenant "t1" or in new ones of     *)
(* "t2", on two workers.  "count" and "COUNT" are one query in two         *)
(* writings, the second of which finds no rows; "scan" is large, and not   *)
(* for viewers.                                                            *)
(***************************************************************************)
EXTENDS ChatPipeline, TLC

CONSTANTS r1, r2, w1, w2, c1

MCRequests == Permutations(Request)

MCFolded == [s \in Sql |-> IF s = "COUNT" THEN "count" ELSE s]
MCAllowed == [o \in Role |-> IF o = "viewer" THEN Sql \ {"scan"} ELSE Sql]

Asked(c, t, o, w, stream, confirmed) ==
  [chat |-> c, tenant |-> t, role |-> o, worker |-> w, stream |-> stream,
   confirmed |-> confirmed]

MCAsks ==
  {Asked(c1, "t1", "user", w1, TRUE, FALSE),
   Asked(c1, "t1", "viewer", w2, FALSE, FALSE),
   Asked(c1, "t1", "user", w1, TRUE, TRUE),
   Asked(NewChat, "t2", "viewer", w1, FALSE, FALSE)}
=============================================================================
