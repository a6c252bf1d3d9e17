--------------------------- MODULE PresetRegister ---------------------------
(***************************************************************************)
(* What a bank of preset slots promises the module that saves into it,     *)
(* without saying how the bytes lie in flash.                              *)
(*                                                                         *)
(*   shown[s]  what a load of slot s delivers now (None: the slot is empty)*)
(*   may[s]    what a load of slot s could deliver after a power cut at    *)
(*             this moment                                                 *)
(*   prev[s]   presets that the content of s has superseded and that an    *)
(*             erase which is cut short may bring back                     *)
(*                                                                         *)
(* A save is a Begin and a Finish.  Between the two, and for ever if the   *)
(* save is reported as failed, the slot keeps showing the old preset and a *)
(* power cut leaves either the old or the new one.  Once Finish has        *)
(* happened only the new one can come back.                                *)
(***************************************************************************)
CONSTANTS
  Slots,    \* preset slot numbers
  Vals,     \* preset contents
  None      \* an empty slot

VARIABLES on, shown, may, prev

vars == <<on, shown, may, prev>>

Init ==
  /\ on = TRUE
  /\ shown = [s \in Slots |-> None]
  /\ may = [s \in Slots |-> {None}]
  /\ prev = [s \in Slots |-> {}]

Begin(s, v) ==
  /\ on
  /\ may' = [may EXCEPT ![s] = @ \cup {v}]
  /\ UNCHANGED <<on, shown, prev>>

Finish(s, v) ==
  /\ on
  /\ v \in may[s]
  /\ shown' = [shown EXCEPT ![s] = v]
  /\ may' = [may EXCEPT ![s] = {v}]
  /\ prev' = [prev EXCEPT ![s] = {shown[s]}]
  /\ UNCHANGED on

\* An erase makes the slot unreadable at once ...
Discard(s) ==
  /\ on
  /\ shown' = [shown EXCEPT ![s] = None]
  /\ may' = [may EXCEPT ![s] = @ \cup prev[s] \cup {None}]
  /\ UNCHANGED <<on, prev>>

\* ... and empty for good when it has completed.
Discarded(s) ==
  /\ on
  /\ shown[s] = None
  /\ None \in may[s]
  /\ may' = [may EXCEPT ![s] = {None}]
  /\ prev' = [prev EXCEPT ![s] = {}]
  /\ UNCHANGED <<on, shown>>

PowerCut ==
  /\ on
  /\ on' = FALSE
  /\ shown' = [s \in Slots |-> None]
  /\ UNCHANGED <<may, prev>>

Restart ==
  /\ ~on
  /\ on' = TRUE
  /\ \E choice \in [Slots -> Vals \cup {None}] :
       /\ \A s \in Slots : choice[s] \in may[s]
       /\ shown' = choice
       /\ may' = [s \in Slots |-> {choice[s]}]
  /\ prev' = [s \in Slots |-> prev[s] \cup may[s]]

Next ==
  \/ \E s \in Slots, v \in Vals : Begin(s, v) \/ Finish(s, v)
  \/ \E s \in Slots : Discard(s) \/ Discarded(s)
  \/ PowerCut
  \/ Restart

Spec == Init /\ [][Next]_vars
=============================================================================
