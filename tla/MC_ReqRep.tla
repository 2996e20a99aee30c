------------------------------ MODULE MC_ReqRep ------------------------------
(* Model-checking instance of ReqRep: two ReqRep clones sharing one        *)
(* channel, so that a parked clone and a running clone interleave.         *)
EXTENDS ReqRep, TLC

CONSTANTS s1, s2

MC_Senders == {s1, s2}

=============================================================================
