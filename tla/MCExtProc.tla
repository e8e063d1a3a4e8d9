----------------------------- MODULE MCExtProc -----------------------------
(* One stream carrying a whole HTTP exchange (three phases), alone or     *)
(* interleaved with a second stream of one phase.                         *)
EXTENDS ExtProc, TLC

CONSTANTS s1, s2

MCOneStream == {s1}
MCTwoStreams == {s1, s2}
MCLongStream == s1 :> 3
MCLongAndShort == s1 :> 3 @@ s2 :> 1
=============================================================================
