---------------------------- MODULE MCHumanMachine ----------------------------
(* Small instances of HumanMachine for TLC. *)
EXTENDS HumanMachine, TLC

CONSTANTS low, high, img

TwoValues == {low, high}
OneValue  == {low}
OneImage  == {img}

Alike == Permutations(Handler) \cup Permutations(Value)
=============================================================================
