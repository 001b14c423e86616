---------------------------- MODULE MCFrameTable ----------------------------
(* A module with procedures P and R, and Q nested in P.  Names are looked  *)
(* up independently of each other, so one name and two values show every   *)
(* way in which a lookup can go.                                           *)
EXTENDS FrameTable

MCFrames == {"P", "Q", "R"}
MCParent == [f \in MCFrames |-> IF f = "Q" THEN "P" ELSE Root]
=============================================================================
