----------------------------- MODULE EdgeBitmap -----------------------------
(***************************************************************************)
(* What the coverage memory promises to the request server: a bitmap holds *)
(* exactly the edges hit since the previous one was cleared.  Only what is *)
(* hit between the reading and the clearing of one drain may be lost.      *)
(*                                                                         *)
(* The promise ends when a bitmap is asked for while the previous answer's *)
(* branch scan is still running: then everything is possible.              *)
(***************************************************************************)
CONSTANT Edges

VARIABLES
  edges,     \* hit and in no bitmap yet
  stage,     \* of the drain: "open" when there is none
  taken,     \* the bitmap being drained
  sent,      \* the last bitmap
  broken

vars == <<edges, stage, taken, sent, broken>>

Init ==
  /\ edges \in SUBSET Edges
  /\ stage = "open" /\ taken = {} /\ sent = {} /\ broken = FALSE

Hit(e) ==
  /\ ~broken
  /\ edges' = IF stage = "clearing" THEN edges ELSE edges \cup {e}
  /\ UNCHANGED <<stage, taken, sent, broken>>

Take ==
  /\ ~broken /\ stage = "open"
  /\ stage' = "clearing" /\ taken' = edges /\ edges' = {}
  /\ UNCHANGED <<sent, broken>>

Clear ==
  /\ ~broken /\ stage = "clearing"
  /\ stage' = "cleared"
  /\ UNCHANGED <<edges, taken, sent, broken>>

\* The bitmap goes out, or its receiver is gone.
Send ==
  /\ ~broken /\ stage = "cleared"
  /\ sent' \in {taken, sent}
  /\ stage' = "open" /\ taken' = {}
  /\ UNCHANGED <<edges, broken>>

Overlap == ~broken /\ broken' = TRUE /\ UNCHANGED <<edges, stage, taken, sent>>

Broken == broken /\ broken'

Next == (\E e \in Edges : Hit(e)) \/ Take \/ Clear \/ Send \/ Overlap \/ Broken

Spec == Init /\ [][Next]_vars
=============================================================================
