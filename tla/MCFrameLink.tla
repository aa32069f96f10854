----------------------------- MODULE MCFrameLink -----------------------------
(* A UART with one single-frame packet and one fragmented packet.          *)
EXTENDS FrameLink

CONSTANTS small, large   (* Packets of one and of MaxFrames fragments.     *)

MCPacket == {small, large}
MCFrameCount == [p \in MCPacket |-> IF p = small THEN 1 ELSE MaxFrames]

(* The types of one kind are one or two flipped bits apart; FIRST is left  *)
(* out of the results, what is misread as FIRST being always refused.      *)
MCTypeFaults ==
  (DataType \X {"SINGLE", "CONSECUTIVE"}) \cup (ControlType \X ControlType)
NoTypeFaults == {}

=============================================================================
