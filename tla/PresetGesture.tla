---------------------------- MODULE PresetGesture ----------------------------
(***************************************************************************)
(* alchemy::PresetGestureUi (surface/preset_gesture_ui.cpp): two pots of   *)
(* the Settings menu save and load presets.  One picks the slot, the other *)
(* is held at an edge for kPresetHoldMs.  Positions are quarters of the    *)
(* travel: 0 and 4 are the save and load edges, 2 is the neutral zone, 1   *)
(* and 3 lie between.  Times are counted in frames.                        *)
(***************************************************************************)
EXTENDS Integers

CONSTANTS
  NumSlots,     \* Presets::kNumSlots
  HoldFrames,   \* kPresetHoldMs
  FlashFrames   \* kPresetFlashTotalMs

ASSUME GestureAssumption ==
  /\ NumSlots \in Nat \ {0} /\ HoldFrames \in Nat \ {0} /\ FlashFrames \in Nat \ {0}

Quarters == 0 .. 4
PresetSlots == 0 .. NumSlots - 1

\* PresetGestureState.
Gesture ==
  [phase : {"Idle", "Saving", "Loading", "FlashConfirm", "Disarmed"},
   hold  : 0 .. HoldFrames - 1,
   flash : 0 .. FlashFrames - 1,
   slot  : PresetSlots]

NoGesture ==
  [phase |-> "Idle", hold |-> 0, flash |-> 0, slot |-> 0]

\* SlotFromValue: the last slot takes the end of the travel.
SlotAt(x) == IF (x * NumSlots) \div 4 < NumSlots THEN (x * NumSlots) \div 4
                                                 ELSE NumSlots - 1

AtEdge(phase, x) == IF phase = "Saving" THEN x = 0 ELSE x = 4

\* Only an idle gesture is disarmed: one in flight goes on.
Disarmed(g) ==
  IF g.phase = "Idle" THEN [g EXCEPT !.phase = "Disarmed", !.hold = 0, !.flash = 0] ELSE g

InFlight(g) == g.phase \in {"Saving", "Loading"}

\* Update saves or loads in this frame.
Commits(g, action) ==
  InFlight(g) /\ AtEdge(g.phase, action) /\ g.hold + 1 >= HoldFrames

\* Mutant: after the confirmation flash the gesture is idle at once.
UpdateGestureRepeats(g, slot, action, ok) ==
  CASE g.phase = "Idle" /\ action \in {0, 4} ->
         [g EXCEPT !.phase = IF action = 0 THEN "Saving" ELSE "Loading",
                   !.hold = 0, !.slot = SlotAt(slot)]
    [] InFlight(g) /\ ~AtEdge(g.phase, action) ->
         [g EXCEPT !.phase = "Idle", !.hold = 0]
    [] Commits(g, action) ->
         [g EXCEPT !.phase = IF ok THEN "FlashConfirm" ELSE "Disarmed",
                   !.hold = 0, !.flash = 0]
    [] InFlight(g) /\ AtEdge(g.phase, action) /\ ~Commits(g, action) ->
         [g EXCEPT !.hold = @ + 1]
    [] g.phase = "FlashConfirm" ->
         IF g.flash + 1 >= FlashFrames THEN [g EXCEPT !.phase = "Idle", !.flash = 0]
                                       ELSE [g EXCEPT !.flash = @ + 1]
    [] g.phase = "Disarmed" /\ action = 2 -> [g EXCEPT !.phase = "Idle"]
    [] OTHER -> g

\* Update, when a save or load due in this frame succeeds or not.
UpdateGesture(g, slot, action, ok) ==
  CASE g.phase = "Idle" /\ action \in {0, 4} ->
         [g EXCEPT !.phase = IF action = 0 THEN "Saving" ELSE "Loading",
                   !.hold = 0, !.slot = SlotAt(slot)]
    [] InFlight(g) /\ ~AtEdge(g.phase, action) ->
         [g EXCEPT !.phase = "Idle", !.hold = 0]
    [] Commits(g, action) ->
         [g EXCEPT !.phase = IF ok THEN "FlashConfirm" ELSE "Disarmed",
                   !.hold = 0, !.flash = 0]
    [] InFlight(g) /\ AtEdge(g.phase, action) /\ ~Commits(g, action) ->
         [g EXCEPT !.hold = @ + 1]
    [] g.phase = "FlashConfirm" ->
         IF g.flash + 1 >= FlashFrames THEN [g EXCEPT !.phase = "Disarmed", !.flash = 0]
                                       ELSE [g EXCEPT !.flash = @ + 1]
    [] g.phase = "Disarmed" /\ action = 2 -> [g EXCEPT !.phase = "Idle"]
    [] OTHER -> g
=============================================================================
