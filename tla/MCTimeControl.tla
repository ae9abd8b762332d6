---------------------------- MODULE MCTimeControl ----------------------------
(* Small instances of TimeControl for TLC. *)
EXTENDS TimeControl

CONSTANTS low, high, img

TwoValues == {low, high}
OneImage  == {img}
=============================================================================
