------------------------------ MODULE PotCatch ------------------------------
(***************************************************************************)
(* Pot catch (control/pot_catch.h): a pot whose stored value differs from  *)
(* where it stands is inert until it meets that value or passes over it.   *)
(*                                                                         *)
(* A position stands for a band as wide as kCatchTolerance: two readings   *)
(* are equal when they are within tolerance of each other.  The motion     *)
(* gate of the timed UpdateCatch works below that resolution and is left   *)
(* out.                                                                    *)
(***************************************************************************)
EXTENDS Integers

\* The side of the stored value on which x lies; only used when they differ.
SideOf(x, s) == IF x > s.stored THEN 1 ELSE -1

\* Re-arm against x: caught at once where the pot stands on its value.
InitCatch(s, x) ==
  IF x = s.stored
    THEN [stored |-> x, caught |-> TRUE, sign |-> 0]
    ELSE [stored |-> s.stored, caught |-> FALSE, sign |-> SideOf(x, s)]

\* A pot is caught when it meets the stored value or has crossed it.
TakesHold(s, x) == x = s.stored \/ (s.sign # 0 /\ SideOf(x, s) # s.sign)

UpdateCatch(s, x) ==
  IF s.caught \/ TakesHold(s, x)
    THEN [stored |-> x, caught |-> TRUE, sign |-> 0]
    ELSE s

\* v lies between x and y.
Between(v, x, y) == (x <= v /\ v <= y) \/ (y <= v /\ v <= x)
=============================================================================
