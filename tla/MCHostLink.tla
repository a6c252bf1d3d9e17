------------------------------ MODULE MCHostLink ------------------------------
(* HostLink for TLC: two builds of the firmware with two components each;  *)
(* an earlier session of the other build may have left a record of which    *)
(* the second component refuses its content.                                *)
EXTENDS HostLink

CONSTANT Update   \* the other build

MCPayloads == {[c \in Managed |-> "b"]}

MCOlder ==
  {[stamp |-> Update,
    bytes |-> [c \in Managed |-> [enc |-> Update, says |-> IF c = 1 THEN "b" ELSE "bad"]]]}
=============================================================================
