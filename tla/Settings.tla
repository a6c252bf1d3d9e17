------------------------------ MODULE Settings ------------------------------
(***************************************************************************)
(* alchemy::Settings (surface/settings.cpp): the menu behind B2+B3, its    *)
(* pages of pots and the preset gesture on the first of them.              *)
(*                                                                         *)
(* ControlLoop::Tick polls the buttons several times and then calls Update *)
(* once with the pots.  Two pots matter: page 0 has the gesture's slot pot *)
(* and action pot on them, page 1 a brightness ("light") and a selector of *)
(* two zones bound to the param locks ("mode").  Positions are quarters of *)
(* the travel.  LEDs, names and the builders' wiring are left out.         *)
(***************************************************************************)
EXTENDS PresetGesture, PotCatch, FiniteSets

CONSTANTS
  HoldPolls,   \* hold_ms_, in polls
  LightReach,  \* the positions the pot of the brightness is turned to
  ModeReach    \* ... and that of the selector

ASSUME SettingsAssumption ==
  /\ HoldPolls \in Nat
  /\ LightReach \subseteq Quarters /\ ModeReach \subseteq Quarters

Controls == {"light", "mode"}
Buttons == {"B1", "B2", "B3"}
Reach == [light |-> LightReach, mode |-> ModeReach]

\* How the pots can stand.
Turned == {x \in [Controls -> Quarters] : \A c \in Controls : x[c] \in Reach[c]}

VARIABLES
  down,       \* prev_b1_pressed_ and the others: buttons down at the last poll
  bothHeld,   \* both_held_active_ and _since_: polls B2 and B3 have been down
  active,     \* active_
  wasActive,  \* prev_update_active_
  advance,    \* settings_advance_pending_
  page,       \* page_
  rearm,      \* pending_rearm_
  pots,       \* slots_[1][..].pot
  zone,       \* value_idx of the selector
  light,      \* the brightness the LED driver was given
  lockMode,   \* LockSource's sync mode
  gesture,    \* preset_gesture_.state_
  phys,       \* the pots at the last Update
  noon,       \* history: the action pot passed neutral since the last save or load
  turns       \* history: releases of B1 in the menu that no page turn answered

buttons == <<down, bothHeld, active, advance>>
values == <<pots, zone, light, lockMode>>
history == <<noon, turns>>
vars == <<buttons, wasActive, page, rearm, values, gesture, phys, history>>

\* SelectorIndex with two zones, and the centre of a zone.
ZoneOf(x) == IF x < 2 THEN 0 ELSE 1
Centre(z) == 2 * z + 1

Pot == [stored : Quarters, caught : BOOLEAN, sign : {-1, 0, 1}]

TypeOK ==
  /\ down \subseteq Buttons
  /\ bothHeld \in 0 .. HoldPolls
  /\ active \in BOOLEAN /\ wasActive \in BOOLEAN
  /\ advance \in BOOLEAN /\ rearm \in BOOLEAN
  /\ page \in {0, 1}
  /\ pots \in [Controls -> Pot]
  /\ zone \in {0, 1} /\ lockMode \in {0, 1}
  /\ light \in Quarters
  /\ gesture \in Gesture
  /\ phys \in [Controls -> Quarters]
  /\ noon \in BOOLEAN
  /\ turns \in 0 .. 1

\* UsePresets, UseLocks and Brightness.
Init ==
  /\ down = {} /\ bothHeld = 0
  /\ active = FALSE /\ wasActive = FALSE
  /\ advance = FALSE /\ rearm = FALSE
  /\ page = 0
  /\ pots = [c \in Controls |-> [stored |-> IF c = "mode" THEN Centre(0) ELSE 0,
                                 caught |-> TRUE, sign |-> 0]]
  /\ zone = 0 /\ lockMode = 0 /\ light = 0
  /\ gesture = NoGesture
  /\ phys \in Turned
  /\ noon = FALSE
  /\ turns = 0

-----------------------------------------------------------------------------
\* TickModeGesture: B2+B3 held opens the menu, a press of either closes it.
ModeGesture(d) ==
  LET both == {"B2", "B3"} \subseteq d IN
  IF active
    THEN /\ active' = ((d \ down) \cap {"B2", "B3"} = {})
         /\ bothHeld' = IF active' THEN bothHeld ELSE 0
    ELSE /\ active' = (both /\ bothHeld = HoldPolls)
         /\ bothHeld' = IF both /\ bothHeld < HoldPolls THEN bothHeld + 1 ELSE 0

\* d is the set of buttons now down.
PollButtons(d) ==
  /\ ModeGesture(d)
  /\ down' = d
  /\ advance' = (advance \/ (active' /\ "B1" \in down \ d))
  /\ turns' = IF active' /\ "B1" \in down \ d THEN 1 ELSE turns
  /\ UNCHANGED <<wasActive, page, rearm, values, gesture, phys, noon>>

-----------------------------------------------------------------------------
\* A record of the managed settings: the light as a position, the zone.
Record == [light : Reach["light"], zone : {0, 1}]

\* Deserialize: values at once, catch and LEDs at the next Update.
Deserialize(r) ==
  /\ zone' = r.zone
  /\ lockMode' = r.zone
  /\ pots' = [pots EXCEPT !["light"].stored = r.light, !["mode"].stored = Centre(r.zone)]

\* The host pushes a state, or the application loads a preset, in a poll.
Push(r) ==
  /\ Deserialize(r)
  /\ rearm' = TRUE
  /\ UNCHANGED <<buttons, wasActive, page, light, gesture, phys, history>>

-----------------------------------------------------------------------------
(***************************************************************************)
(* Update, with the pots at x.                                             *)
(***************************************************************************)
TurnedPage == IF active /\ advance THEN 1 - page ELSE page

Entering == active /\ ~wasActive

\* The pages that ArmPage is called for.
ArmedPages ==
  (IF rearm THEN {0, 1} ELSE {})
  \cup (IF Entering THEN {page} ELSE {})
  \cup (IF active /\ advance THEN {TurnedPage} ELSE {})

\* Mutant: entering the menu arms the gesture only.
ArmedNotOnEntry(x) ==
  [c \in Controls |-> IF rearm \/ (active /\ advance) THEN InitCatch(pots[c], x[c]) ELSE pots[c]]

Armed(x) == [c \in Controls |-> IF 1 \in ArmedPages THEN InitCatch(pots[c], x[c]) ELSE pots[c]]
ArmedGesture == IF 0 \in ArmedPages THEN Disarmed(gesture) ELSE gesture

\* Mutant: the LEDs wait until the page is shown.
LightWhenShownOnly(ps) == IF active /\ TurnedPage = 1 THEN ps["light"].stored ELSE light

\* ApplyBrightnessSlot: at a re-arm, whatever is shown, and on its page.
LightAfter(ps) ==
  IF rearm \/ (active /\ TurnedPage = 1) THEN ps["light"].stored ELSE light

\* What every Update does before it looks at the menu.
BeginFrame(x) ==
  /\ phys' = x
  /\ wasActive' = active
  /\ UNCHANGED <<down, bothHeld, active>>

FrameClosed(x) ==
  /\ ~active
  /\ BeginFrame(x)
  /\ rearm' = FALSE
  /\ pots' = Armed(x) /\ light' = LightAfter(pots')
  /\ gesture' = ArmedGesture
  /\ UNCHANGED <<advance, page, zone, lockMode, history>>

\* The frame turns the page if B1 asked for it.
ShowPage(p) ==
  /\ active
  /\ TurnedPage = p
  /\ page' = p
  /\ advance' = FALSE
  /\ turns' = IF advance THEN 0 ELSE turns

\* The second page: catch, then the values follow their pots.
FrameValues(x) ==
  /\ ShowPage(1)
  /\ BeginFrame(x)
  /\ rearm' = FALSE
  /\ pots' = [c \in Controls |-> UpdateCatch(Armed(x)[c], x[c])]
  /\ light' = LightAfter(pots')
  /\ zone' = ZoneOf(pots'["mode"].stored)
  /\ lockMode' = zone'
  /\ gesture' = ArmedGesture
  /\ UNCHANGED noon

GestureStep(x, ok) == gesture' = UpdateGesture(ArmedGesture, x["light"], x["mode"], ok)

\* The first page, in a frame in which the gesture saves or loads nothing.
FrameGesture(x) ==
  /\ ShowPage(0)
  /\ BeginFrame(x)
  /\ ~Commits(ArmedGesture, x["mode"])
  /\ rearm' = FALSE
  /\ GestureStep(x, TRUE)
  /\ pots' = Armed(x) /\ light' = LightAfter(pots')
  /\ noon' = (x["mode"] = 2 \/ noon)
  /\ UNCHANGED <<zone, lockMode>>

\* A save, which may fail.
FrameSaves(x, ok) ==
  /\ ShowPage(0)
  /\ BeginFrame(x)
  /\ Commits(ArmedGesture, x["mode"]) /\ gesture.phase = "Saving"
  /\ rearm' = TRUE
  /\ GestureStep(x, ok)
  /\ pots' = Armed(x) /\ light' = LightAfter(pots')
  /\ noon' = FALSE
  /\ UNCHANGED <<zone, lockMode>>

\* A load of r: one that fails may fail in another component.
FrameLoads(x, r, ok) ==
  /\ ShowPage(0)
  /\ BeginFrame(x)
  /\ Commits(ArmedGesture, x["mode"]) /\ gesture.phase = "Loading"
  /\ rearm' = TRUE
  /\ GestureStep(x, ok)
  /\ light' = LightAfter(Armed(x))
  /\ Deserialize(r)
  /\ noon' = FALSE

\* ... or at the store, before anything is loaded.
FrameLoadsNothing(x) ==
  /\ ShowPage(0)
  /\ BeginFrame(x)
  /\ Commits(ArmedGesture, x["mode"]) /\ gesture.phase = "Loading"
  /\ rearm' = TRUE
  /\ GestureStep(x, FALSE)
  /\ pots' = Armed(x) /\ light' = LightAfter(pots')
  /\ noon' = FALSE
  /\ UNCHANGED <<zone, lockMode>>

Frame(x) ==
  \/ FrameClosed(x)
  \/ FrameValues(x)
  \/ FrameGesture(x)
  \/ \E ok \in BOOLEAN : FrameSaves(x, ok)
  \/ \E ok \in BOOLEAN, r \in Record : FrameLoads(x, r, ok)
  \/ FrameLoadsNothing(x)

Next ==
  \/ \E d \in SUBSET Buttons : PollButtons(d)
  \/ \E r \in Record : Push(r)
  \/ \E x \in Turned : Frame(x)

Spec == Init /\ [][Next]_vars

-----------------------------------------------------------------------------
(***************************************************************************)
(* Properties.                                                             *)
(***************************************************************************)

\* What is shown is what is stored, and what the engine runs with: the
\* selector's zone is that of its pot, the locks are in that mode, and the
\* LEDs have the stored brightness as soon as no re-arm is owed, with the
\* menu open or closed.
EngineFollows ==
  /\ zone = ZoneOf(pots["mode"].stored)
  /\ lockMode = zone
  /\ ~rearm => light = pots["light"].stored

\* A step that saves or loads: a gesture in flight ends otherwise than idle.
Committed == InFlight(gesture) /\ gesture'.phase \in {"FlashConfirm", "Disarmed"}

\* The state is typed, and the engine runs with what is stored (ApplyBrightnessSlot,
\* Deserialize, Update).
SettingsInv == TypeOK /\ EngineFollows

\* One save or load for each pass of neutral: a pot
\* left at an edge never saves or loads a second time, whatever happens to
\* the menu meanwhile.
OneCommitPerPass == [][Committed => noon]_vars

\* A page turns only for a release of B1 in the menu, one for each turn.
TurnsAreOwed == [][page' # page => turns = 1]_vars

\* Nothing is done twice: one save or load a pass of neutral, one page turn a release
\* (PresetGestureUi::Update, PollButtons).
NothingTwice == OneCommitPerPass /\ TurnsAreOwed

\* No setting leaps: but for a load or push, which leave a re-arm owed, it
\* changes from where its pot stood, or because the pot passed over it.
NoSettingLeaps ==
  [][\A c \in Controls :
       pots'[c].stored # pots[c].stored /\ ~rearm' =>
         Between(pots[c].stored, phys[c], phys'[c])]_vars
=============================================================================
