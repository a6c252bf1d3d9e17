--------------------------- MODULE Settings_proofs ---------------------------
(***************************************************************************)
(* Proofs about Settings: for any number of slots, any length of the       *)
(* holds and any reach of the pots.                                        *)
(***************************************************************************)
EXTENDS Settings, TLAPS

-----------------------------------------------------------------------------
(* Catch                                                                   *)

\* An armed pot knows on which side of its value the reading was; a caught one holds it.
Follows(s, x) ==
  /\ s.caught => s.stored = x
  /\ ~s.caught => s.sign # 0 /\ x # s.stored /\ s.sign = SideOf(x, s)

LEMMA InitCatchIs ==
  ASSUME NEW s \in Pot, NEW x \in Quarters
  PROVE  /\ InitCatch(s, x) \in Pot /\ InitCatch(s, x).stored = s.stored
         /\ Follows(InitCatch(s, x), x)
BY DEF Pot, InitCatch, SideOf, Follows, Quarters

LEMMA UpdateCatchIs ==
  ASSUME NEW s \in Pot, NEW x \in Quarters
  PROVE  UpdateCatch(s, x) \in Pot
BY DEF Pot, UpdateCatch

\* A pot that follows one reading changes with the next only if its value lies between.
LEMMA CatchBetween ==
  ASSUME NEW s \in Pot, NEW x \in Quarters, NEW y \in Quarters, Follows(s, x)
  PROVE  /\ Follows(UpdateCatch(s, y), y)
         /\ UpdateCatch(s, y).stored # s.stored => Between(s.stored, x, y)
<1>1. s.stored \in 0 .. 4 /\ x \in 0 .. 4 /\ y \in 0 .. 4 /\ s.caught \in BOOLEAN
  BY DEF Pot, Quarters
<1>2. CASE s.caught \/ TakesHold(s, y)
  <2>1. UpdateCatch(s, y) = [stored |-> y, caught |-> TRUE, sign |-> 0]
    BY <1>2 DEF UpdateCatch
  <2>2. Follows(UpdateCatch(s, y), y) /\ UpdateCatch(s, y).stored = y
    BY <2>1 DEF Follows
  <2>3. ASSUME y # s.stored PROVE Between(s.stored, x, y)
    <3>1. CASE s.caught
      <4>1. s.stored = x
        BY <3>1 DEF Follows
      <4>2. QED
        BY <1>1, <4>1 DEF Between
    <3>2. CASE ~s.caught
      <4>1. SideOf(y, s) # s.sign /\ s.sign = SideOf(x, s) /\ x # s.stored
        BY <1>2, <2>3, <3>2 DEF TakesHold, Follows
      <4>2. QED
        BY <1>1, <2>3, <4>1 DEF SideOf, Between
    <3>3. QED
      BY <3>1, <3>2
  <2>4. QED
    BY <2>2, <2>3
<1>3. CASE ~(s.caught \/ TakesHold(s, y))
  <2>1. UpdateCatch(s, y) = s /\ ~s.caught /\ y # s.stored /\ (s.sign # 0 => SideOf(y, s) = s.sign)
    BY <1>3 DEF UpdateCatch, TakesHold
  <2>2. QED
    BY <2>1 DEF Follows
<1>4. QED
  BY <1>2, <1>3

-----------------------------------------------------------------------------
(* The gesture                                                             *)

LEMMA SlotIs == ASSUME NEW x \in Quarters PROVE SlotAt(x) \in PresetSlots
<1>1. NumSlots \in Nat \ {0} /\ x \in 0 .. 4
  BY GestureAssumption DEF Quarters
<1>2. (x * NumSlots) \div 4 \in Nat
  BY <1>1
<1>3. QED
  BY <1>1, <1>2 DEF SlotAt, PresetSlots

LEMMA DisarmedIs ==
  ASSUME NEW g \in Gesture
  PROVE  /\ Disarmed(g) \in Gesture /\ Disarmed(g).phase # "Idle"
         /\ g.phase # "Idle" => Disarmed(g) = g
         /\ g.phase = "Idle" => Disarmed(g).phase = "Disarmed"
<1>1. 0 \in 0 .. HoldFrames - 1 /\ 0 \in 0 .. FlashFrames - 1
  BY GestureAssumption
<1>2. CASE g.phase = "Idle"
  BY <1>1, <1>2 DEF Disarmed, Gesture
<1>3. CASE g.phase # "Idle"
  BY <1>3 DEF Disarmed
<1>4. QED
  BY <1>2, <1>3

\* One frame of the gesture: it is idle again only off an edge or at neutral, goes in
\* flight only from idle, and ends in a save or load only when that was due.
LEMMA GestureIs ==
  ASSUME NEW g \in Gesture, NEW slot \in Quarters, NEW action \in Quarters, NEW ok \in BOOLEAN
  PROVE  LET h == UpdateGesture(g, slot, action, ok)
         IN  /\ h \in Gesture
             /\ InFlight(h) => InFlight(g) \/ g.phase = "Idle"
             /\ h.phase = "Idle" => InFlight(g) \/ g.phase = "Idle" \/ action = 2
             /\ InFlight(g) /\ ~Commits(g, action) => h.phase \notin {"FlashConfirm", "Disarmed"}
             /\ Commits(g, action) => h.phase \in {"FlashConfirm", "Disarmed"}
<1>. DEFINE h == UpdateGesture(g, slot, action, ok)
<1>1. /\ 0 \in 0 .. HoldFrames - 1 /\ 0 \in 0 .. FlashFrames - 1 /\ SlotAt(slot) \in PresetSlots
      /\ HoldFrames \in Nat /\ FlashFrames \in Nat
      /\ g.hold \in 0 .. HoldFrames - 1 /\ g.flash \in 0 .. FlashFrames - 1
      /\ g.phase \in {"Idle", "Saving", "Loading", "FlashConfirm", "Disarmed"}
      /\ InFlight(g) <=> g.phase \in {"Saving", "Loading"}
  BY GestureAssumption, SlotIs DEF Gesture, InFlight
<1>2. CASE g.phase = "Idle" /\ action \in {0, 4}
  <2>. DEFINE ph == IF action = 0 THEN "Saving" ELSE "Loading"
  <2>0. ~InFlight(g) /\ ~Commits(g, action) /\ g.phase # "FlashConfirm" /\ g.phase # "Disarmed"
    BY <1>1, <1>2 DEF Commits
  <2>1. h = [g EXCEPT !.phase = ph, !.hold = 0, !.slot = SlotAt(slot)]
    BY <1>2, <2>0 DEF UpdateGesture
  <2>2. ph \in {"Saving", "Loading"}
    OBVIOUS
  <2>. HIDE DEF h, ph
  <2>3. h \in Gesture /\ h.phase = ph
    BY <1>1, <2>1, <2>2 DEF Gesture
  <2>4. QED
    BY <1>1, <1>2, <2>2, <2>3 DEF InFlight, Commits, h
<1>3. CASE InFlight(g) /\ ~AtEdge(g.phase, action)
  <2>1. h = [g EXCEPT !.phase = "Idle", !.hold = 0]
    BY <1>1, <1>3 DEF UpdateGesture, Commits
  <2>. HIDE DEF h
  <2>2. h \in Gesture /\ h.phase = "Idle"
    BY <1>1, <2>1 DEF Gesture
  <2>3. QED
    BY <1>3, <2>2 DEF InFlight, Commits, h
<1>4. CASE Commits(g, action)
  <2>. DEFINE ph == IF ok THEN "FlashConfirm" ELSE "Disarmed"
  <2>1. h = [g EXCEPT !.phase = ph, !.hold = 0, !.flash = 0]
    BY <1>1, <1>4 DEF UpdateGesture, Commits
  <2>2. ph \in {"FlashConfirm", "Disarmed"}
    OBVIOUS
  <2>. HIDE DEF h, ph
  <2>3. h \in Gesture /\ h.phase = ph
    BY <1>1, <2>1, <2>2 DEF Gesture
  <2>4. QED
    BY <1>4, <2>2, <2>3 DEF InFlight, Commits, h
<1>5. CASE InFlight(g) /\ AtEdge(g.phase, action) /\ ~Commits(g, action)
  <2>1. h = [g EXCEPT !.hold = @ + 1]
    BY <1>1, <1>5 DEF UpdateGesture, Commits
  <2>2. g.hold + 1 \in 0 .. HoldFrames - 1
    BY <1>1, <1>5 DEF Commits
  <2>. HIDE DEF h
  <2>3. h \in Gesture /\ h.phase = g.phase
    BY <2>1, <2>2 DEF Gesture
  <2>4. QED
    BY <1>1, <1>5, <2>3 DEF h
<1>6. CASE g.phase = "FlashConfirm"
  <2>1. h = IF g.flash + 1 >= FlashFrames THEN [g EXCEPT !.phase = "Disarmed", !.flash = 0]
                                          ELSE [g EXCEPT !.flash = @ + 1]
    BY <1>1, <1>6 DEF UpdateGesture, Commits
  <2>2. ~(g.flash + 1 >= FlashFrames) => g.flash + 1 \in 0 .. FlashFrames - 1
    BY <1>1
  <2>. HIDE DEF h
  <2>3. h \in Gesture /\ h.phase \in {"FlashConfirm", "Disarmed"}
    BY <1>1, <1>6, <2>1, <2>2 DEF Gesture
  <2>4. QED
    BY <1>6, <2>3 DEF InFlight, Commits, h
<1>7. CASE g.phase = "Disarmed"
  <2>1. h = IF action = 2 THEN [g EXCEPT !.phase = "Idle"] ELSE g
    BY <1>1, <1>7 DEF UpdateGesture, Commits
  <2>. HIDE DEF h
  <2>2. h \in Gesture /\ (action = 2 => h.phase = "Idle") /\ (action # 2 => h.phase = "Disarmed")
    BY <1>7, <2>1 DEF Gesture
  <2>3. QED
    BY <1>7, <2>2 DEF InFlight, Commits, h
<1>8. CASE g.phase = "Idle" /\ action \notin {0, 4}
  <2>1. h = g
    BY <1>1, <1>8 DEF UpdateGesture, Commits
  <2>2. QED
    BY <1>8, <2>1 DEF InFlight, Commits
<1>9. QED
  BY <1>1, <1>2, <1>3, <1>4, <1>5, <1>6, <1>7, <1>8


-----------------------------------------------------------------------------
(* The inductive invariant                                                 *)

\* Why a save or load is earned: a gesture in flight, or one that may go in flight on
\* the shown page, has seen neutral since the last.
Earned ==
  /\ InFlight(gesture) => noon
  /\ gesture.phase = "Idle" /\ wasActive /\ page = 0 => noon

\* Why no setting leaps: while the second page is shown and no re-arm is owed, its
\* pots follow what they read.
PotsFollow ==
  wasActive /\ page = 1 /\ ~rearm => \A c \in Controls : Follows(pots[c], phys[c])

SettingsIInv ==
  /\ TypeOK
  /\ EngineFollows
  /\ Earned
  /\ advance => turns = 1
  /\ PotsFollow


\* What a step may do: the action properties, one by one.
Leapless(c) ==
  pots'[c].stored # pots[c].stored /\ ~rearm' => Between(pots[c].stored, phys[c], phys'[c])

StepKept ==
  /\ SettingsIInv'
  /\ Committed => noon
  /\ page' # page => turns = 1
  /\ \A c \in Controls : Leapless(c)

LEMMA ZoneOfCentre == ASSUME NEW z \in {0, 1} PROVE Centre(z) \in Quarters /\ ZoneOf(Centre(z)) = z
BY DEF Centre, ZoneOf, Quarters

LEMMA TurnedIs == ASSUME NEW x \in Turned PROVE x \in [Controls -> Quarters]
BY SettingsAssumption DEF Turned, Reach, Controls

\* Arming leaves what is stored and a gesture in flight as they are; a shown page that
\* was not armed was shown before, with nothing owed.
LEMMA ArmedIs ==
  ASSUME TypeOK, NEW x \in Turned
  PROVE  /\ Armed(x) \in [Controls -> Pot]
         /\ \A c \in Controls : Armed(x)[c].stored = pots[c].stored
         /\ 1 \in ArmedPages => \A c \in Controls : Follows(Armed(x)[c], x[c])
         /\ 1 \notin ArmedPages => Armed(x) = pots
         /\ ArmedGesture \in Gesture
         /\ InFlight(gesture) => ArmedGesture = gesture
         /\ ArmedGesture.phase = "Idle" => gesture.phase = "Idle" /\ 0 \notin ArmedPages
         /\ InFlight(ArmedGesture) => InFlight(gesture)
<1>1. pots \in [Controls -> Pot] /\ gesture \in Gesture /\ x \in [Controls -> Quarters]
  BY TurnedIs DEF TypeOK
<1>2. ASSUME 1 \in ArmedPages
      PROVE  /\ Armed(x) \in [Controls -> Pot]
             /\ \A c \in Controls : Armed(x)[c].stored = pots[c].stored /\ Follows(Armed(x)[c], x[c])
  <2>1. Armed(x) = [c \in Controls |-> InitCatch(pots[c], x[c])]
    BY <1>2 DEF Armed
  <2>2. \A c \in Controls : /\ InitCatch(pots[c], x[c]) \in Pot
                            /\ InitCatch(pots[c], x[c]).stored = pots[c].stored
                            /\ Follows(InitCatch(pots[c], x[c]), x[c])
    BY <1>1, InitCatchIs
  <2>3. QED
    BY <2>1, <2>2
<1>3. ASSUME 1 \notin ArmedPages PROVE Armed(x) = pots
  <2>1. Armed(x) = [c \in Controls |-> pots[c]]
    BY <1>3 DEF Armed
  <2>2. QED
    BY <1>1, <2>1
<1>4. ArmedGesture = IF 0 \in ArmedPages THEN Disarmed(gesture) ELSE gesture
  BY DEF ArmedGesture
<1>5. /\ Disarmed(gesture) \in Gesture /\ Disarmed(gesture).phase # "Idle"
      /\ gesture.phase # "Idle" => Disarmed(gesture) = gesture
      /\ gesture.phase = "Idle" => Disarmed(gesture).phase = "Disarmed"
  BY <1>1, DisarmedIs
<1>6. /\ ArmedGesture \in Gesture
      /\ InFlight(gesture) => ArmedGesture = gesture
      /\ ArmedGesture.phase = "Idle" => gesture.phase = "Idle" /\ 0 \notin ArmedPages
      /\ InFlight(ArmedGesture) => InFlight(gesture)
  BY <1>1, <1>4, <1>5 DEF InFlight
<1>7. QED
  BY <1>1, <1>2, <1>3, <1>6

LEMMA NotArmedIs ==
  ASSUME TypeOK, active, TurnedPage \notin ArmedPages
  PROVE  wasActive /\ page = TurnedPage /\ ~rearm /\ ~advance
<1>1. page \in {0, 1} /\ active \in BOOLEAN /\ wasActive \in BOOLEAN
  BY DEF TypeOK
<1>2. TurnedPage \in {0, 1}
  BY <1>1 DEF TurnedPage
<1>3. ~rearm /\ ~advance
  BY <1>2 DEF ArmedPages
<1>4. TurnedPage = page
  BY <1>3 DEF TurnedPage
<1>5. QED
  BY <1>3, <1>4 DEF ArmedPages, Entering

LEMMA DeserializeIs ==
  ASSUME TypeOK, NEW r \in Record, Deserialize(r)
  PROVE  /\ pots' \in [Controls -> Pot] /\ zone' \in {0, 1} /\ lockMode' \in {0, 1}
         /\ zone' = ZoneOf(pots'["mode"].stored) /\ lockMode' = zone'
<1>1. r.light \in Quarters /\ r.zone \in {0, 1}
  BY SettingsAssumption DEF Record, Reach
<1>2. zone' = r.zone /\ lockMode' = r.zone
  BY DEF Deserialize
<1>3. \A c \in Controls : pots[c] \in Pot
  BY DEF TypeOK
<1>4. PICK p : p = Centre(r.zone)
  OBVIOUS
<1>5. p \in Quarters /\ ZoneOf(p) = r.zone
  BY <1>1, <1>4, ZoneOfCentre
<1>6. pots' = [c \in Controls |-> IF c = "mode" THEN [pots[c] EXCEPT !.stored = p]
                                                ELSE [pots[c] EXCEPT !.stored = r.light]]
  BY <1>4 DEF Deserialize, Controls, TypeOK
<1>7. \A c \in Controls : [pots[c] EXCEPT !.stored = p] \in Pot /\ [pots[c] EXCEPT !.stored = r.light] \in Pot
  BY <1>1, <1>3, <1>5 DEF Pot
<1>8. "mode" \in Controls /\ [pots["mode"] EXCEPT !.stored = p].stored = p
  BY <1>3 DEF Controls, Pot
<1>9. pots' \in [Controls -> Pot] /\ pots'["mode"].stored = p
  BY <1>6, <1>7, <1>8
<1>10. QED
  BY <1>1, <1>2, <1>5, <1>9


-----------------------------------------------------------------------------
(* The steps                                                               *)

LEMMA InitHolds == Init => SettingsIInv
<1>. SUFFICES ASSUME Init PROVE SettingsIInv
  OBVIOUS
<1>0. 0 \in 0 .. HoldPolls /\ NoGesture \in Gesture
  BY SettingsAssumption, GestureAssumption DEF NoGesture, Gesture, PresetSlots
<1>1. phys \in [Controls -> Quarters]
  BY TurnedIs DEF Init
<1>2. Centre(0) \in Quarters /\ ZoneOf(Centre(0)) = 0 /\ 0 \in Quarters
  BY ZoneOfCentre DEF Quarters
<1>3. PICK p : p = Centre(0)
  OBVIOUS
<1>4. pots = [c \in Controls |-> [stored |-> IF c = "mode" THEN p ELSE 0,
                                  caught |-> TRUE, sign |-> 0]]
  BY <1>3 DEF Init
<1>5. pots \in [Controls -> Pot] /\ pots["mode"].stored = p /\ pots["light"].stored = 0
  BY <1>2, <1>3, <1>4 DEF Pot, Controls
<1>6. TypeOK
  <2>1. /\ down = {} /\ bothHeld = 0 /\ active = FALSE /\ wasActive = FALSE /\ advance = FALSE
        /\ rearm = FALSE /\ page = 0 /\ zone = 0 /\ lockMode = 0 /\ light = 0
        /\ gesture = NoGesture /\ noon = FALSE /\ turns = 0
    BY DEF Init
  <2>2. active \in BOOLEAN /\ wasActive \in BOOLEAN /\ advance \in BOOLEAN /\ rearm \in BOOLEAN /\ noon \in BOOLEAN
    BY <2>1
  <2>3. down \subseteq Buttons /\ bothHeld \in 0 .. HoldPolls /\ gesture \in Gesture
    BY <1>0, <2>1
  <2>4. page \in {0, 1} /\ zone \in {0, 1} /\ lockMode \in {0, 1} /\ light \in Quarters /\ turns \in 0 .. 1
    BY <1>2, <2>1
  <2>5. QED
    BY <1>1, <1>5, <2>2, <2>3, <2>4 DEF TypeOK
<1>7. EngineFollows
  BY <1>2, <1>3, <1>5 DEF Init, EngineFollows
<1>8. Earned
  BY DEF Init, Earned, NoGesture, InFlight
<1>9. PotsFollow /\ (advance => turns = 1)
  BY DEF Init, PotsFollow
<1>10. QED
  BY <1>6, <1>7, <1>8, <1>9 DEF SettingsIInv

LEMMA PollKept == ASSUME SettingsIInv, NEW d \in SUBSET Buttons, PollButtons(d) PROVE StepKept
<1>1. /\ UNCHANGED <<wasActive, page, rearm, pots, zone, light, lockMode, gesture, phys, noon>>
      /\ down' = d /\ advance' \in BOOLEAN /\ turns' \in 0 .. 1
      /\ advance' => turns' = 1
  BY DEF PollButtons, values, SettingsIInv, TypeOK
<1>2. active' \in BOOLEAN /\ bothHeld' \in 0 .. HoldPolls
  <2>1. bothHeld \in 0 .. HoldPolls /\ active \in BOOLEAN /\ HoldPolls \in Nat
    BY SettingsAssumption DEF SettingsIInv, TypeOK
  <2>2. CASE active
    BY <2>1, <2>2 DEF PollButtons, ModeGesture
  <2>3. CASE ~active
    BY <2>1, <2>3 DEF PollButtons, ModeGesture
  <2>4. QED
    BY <2>2, <2>3
<1>3. TypeOK'
  BY <1>1, <1>2 DEF SettingsIInv, TypeOK
<1>4. EngineFollows' /\ Earned' /\ PotsFollow'
  BY <1>1 DEF SettingsIInv, EngineFollows, Earned, PotsFollow, InFlight
<1>5. ~Committed
  BY <1>1 DEF Committed, InFlight
<1>6. QED
  BY <1>1, <1>3, <1>4, <1>5 DEF StepKept, SettingsIInv, Leapless

LEMMA PushKept == ASSUME SettingsIInv, NEW r \in Record, Push(r) PROVE StepKept
<1>0. TypeOK
  BY DEF SettingsIInv
<1>1. /\ pots' \in [Controls -> Pot] /\ zone' \in {0, 1} /\ lockMode' \in {0, 1}
      /\ zone' = ZoneOf(pots'["mode"].stored) /\ lockMode' = zone'
  BY <1>0, DeserializeIs DEF Push
<1>2. /\ rearm' = TRUE
      /\ UNCHANGED <<down, bothHeld, active, advance, wasActive, page, light, gesture, phys, noon, turns>>
  BY DEF Push, buttons, history
<1>3. TypeOK'
  BY <1>0, <1>1, <1>2 DEF TypeOK
<1>4. EngineFollows' /\ Earned' /\ PotsFollow'
  BY <1>1, <1>2 DEF SettingsIInv, EngineFollows, Earned, PotsFollow, InFlight
<1>5. ~Committed
  BY <1>2 DEF Committed, InFlight
<1>6. QED
  BY <1>2, <1>3, <1>4, <1>5 DEF StepKept, SettingsIInv, Leapless

LEMMA ClosedKept == ASSUME SettingsIInv, NEW x \in Turned, FrameClosed(x) PROVE StepKept
<1>0. TypeOK /\ x \in [Controls -> Quarters]
  BY TurnedIs DEF SettingsIInv
<1>1. /\ UNCHANGED <<down, bothHeld, active, advance, page, zone, lockMode, noon, turns>>
      /\ phys' = x /\ rearm' = FALSE /\ wasActive' = FALSE
      /\ pots' = Armed(x) /\ light' = LightAfter(pots') /\ gesture' = ArmedGesture
  BY <1>0 DEF FrameClosed, BeginFrame, history, TypeOK
<1>2. /\ Armed(x) \in [Controls -> Pot]
      /\ \A c \in Controls : Armed(x)[c].stored = pots[c].stored
      /\ ArmedGesture \in Gesture
      /\ InFlight(gesture) => ArmedGesture = gesture
      /\ InFlight(ArmedGesture) => InFlight(gesture)
  BY <1>0, ArmedIs
<1>3. /\ pots' \in [Controls -> Pot] /\ gesture' \in Gesture
      /\ \A c \in Controls : pots'[c].stored = pots[c].stored
      /\ "light" \in Controls /\ "mode" \in Controls
  BY <1>1, <1>2 DEF Controls
<1>4. ~active
  BY DEF FrameClosed
<1>5. light' = pots'["light"].stored
  BY <1>1, <1>3, <1>4 DEF LightAfter, SettingsIInv, EngineFollows
<1>6. light' \in Quarters
  BY <1>3, <1>5 DEF Pot
<1>7. TypeOK'
  BY <1>0, <1>1, <1>3, <1>6 DEF TypeOK
<1>8. EngineFollows'
  BY <1>1, <1>3, <1>5 DEF SettingsIInv, EngineFollows
<1>9. Earned' /\ PotsFollow'
  BY <1>1, <1>2 DEF SettingsIInv, Earned, PotsFollow, InFlight
<1>10. ~Committed
  BY <1>1, <1>2 DEF Committed, InFlight
<1>11. QED
  BY <1>1, <1>3, <1>7, <1>8, <1>9, <1>10 DEF StepKept, SettingsIInv, Leapless

LEMMA ValuesKept == ASSUME SettingsIInv, NEW x \in Turned, FrameValues(x) PROVE StepKept
<1>0. TypeOK /\ x \in [Controls -> Quarters] /\ phys \in [Controls -> Quarters] /\ active
  BY TurnedIs DEF SettingsIInv, TypeOK, FrameValues, ShowPage
<1>1. /\ UNCHANGED <<down, bothHeld, active, noon>>
      /\ phys' = x /\ rearm' = FALSE /\ wasActive' = active
      /\ TurnedPage = 1 /\ page' = 1 /\ advance' = FALSE /\ turns' = IF advance THEN 0 ELSE turns
      /\ pots' = [c \in Controls |-> UpdateCatch(Armed(x)[c], x[c])]
      /\ light' = LightAfter(pots') /\ zone' = ZoneOf(pots'["mode"].stored) /\ lockMode' = zone'
      /\ gesture' = ArmedGesture
  BY DEF FrameValues, ShowPage, BeginFrame
<1>2. /\ Armed(x) \in [Controls -> Pot]
      /\ \A c \in Controls : Armed(x)[c].stored = pots[c].stored
      /\ 1 \in ArmedPages => \A c \in Controls : Follows(Armed(x)[c], x[c])
      /\ 1 \notin ArmedPages => Armed(x) = pots
      /\ ArmedGesture \in Gesture
      /\ InFlight(gesture) => ArmedGesture = gesture
      /\ InFlight(ArmedGesture) => InFlight(gesture)
  BY <1>0, ArmedIs
<1>3. ASSUME NEW c \in Controls
      PROVE  /\ pots'[c] = UpdateCatch(Armed(x)[c], x[c])
             /\ pots'[c] \in Pot /\ Follows(pots'[c], x[c])
             /\ pots'[c].stored # pots[c].stored => Between(pots[c].stored, phys[c], x[c])
  <2>1. Armed(x)[c] \in Pot /\ x[c] \in Quarters /\ phys[c] \in Quarters
    BY <1>0, <1>2, <1>3
  <2>2. pots'[c] = UpdateCatch(Armed(x)[c], x[c])
    BY <1>1, <1>3
  <2>3. CASE 1 \in ArmedPages
    <3>1. Follows(Armed(x)[c], x[c])
      BY <1>2, <1>3, <2>3
    <3>2. UpdateCatch(Armed(x)[c], x[c]).stored = Armed(x)[c].stored
      BY <2>1, <3>1 DEF Follows, UpdateCatch, TakesHold
    <3>3. Follows(UpdateCatch(Armed(x)[c], x[c]), x[c])
      BY <2>1, <3>1, CatchBetween
    <3>4. QED
      BY <1>2, <1>3, <2>1, <2>2, <3>2, <3>3, UpdateCatchIs
  <2>4. CASE 1 \notin ArmedPages
    <3>1. Armed(x)[c] = pots[c] /\ wasActive /\ page = 1 /\ ~rearm
      BY <1>0, <1>1, <1>2, <2>4, NotArmedIs
    <3>2. Follows(Armed(x)[c], phys[c])
      BY <1>3, <3>1 DEF SettingsIInv, PotsFollow
    <3>3. /\ Follows(UpdateCatch(Armed(x)[c], x[c]), x[c])
          /\ UpdateCatch(Armed(x)[c], x[c]).stored # Armed(x)[c].stored
             => Between(Armed(x)[c].stored, phys[c], x[c])
      BY <2>1, <3>2, CatchBetween
    <3>4. QED
      BY <1>2, <1>3, <2>1, <2>2, <3>3, UpdateCatchIs
  <2>5. QED
    BY <2>3, <2>4
<1>4. pots' \in [Controls -> Pot] /\ "light" \in Controls /\ "mode" \in Controls
  BY <1>1, <1>3 DEF Controls
<1>5. light' = pots'["light"].stored
  BY <1>0, <1>1 DEF LightAfter
<1>6. light' \in Quarters /\ zone' \in {0, 1}
  BY <1>1, <1>4, <1>5 DEF Pot, ZoneOf
<1>7. turns' \in 0 .. 1
  BY <1>0, <1>1 DEF TypeOK
<1>8. TypeOK'
  BY <1>0, <1>1, <1>2, <1>4, <1>6, <1>7 DEF TypeOK
<1>9. EngineFollows'
  BY <1>1, <1>5 DEF EngineFollows
<1>10. Earned'
  BY <1>1, <1>2 DEF SettingsIInv, Earned, InFlight
<1>11. PotsFollow'
  BY <1>1, <1>3 DEF PotsFollow
<1>12. ~Committed
  BY <1>1, <1>2 DEF Committed, InFlight
<1>13. page' # page => turns = 1
  <2>1. page' # page => advance
    BY <1>0, <1>1 DEF TurnedPage
  <2>2. QED
    BY <2>1 DEF SettingsIInv
<1>14. \A c \in Controls : Leapless(c)
  BY <1>1, <1>3 DEF Leapless
<1>15. QED
  BY <1>1, <1>8, <1>9, <1>10, <1>11, <1>12, <1>13, <1>14 DEF StepKept, SettingsIInv


-----------------------------------------------------------------------------
(* The frames of the first page                                            *)

\* What they share.
FirstPage(x) ==
  /\ x \in Turned
  /\ active
  /\ BeginFrame(x)
  /\ TurnedPage = 0 /\ page' = 0
  /\ advance' = FALSE
  /\ turns' = IF advance THEN 0 ELSE turns

\* ... but for what is stored and for the gesture, which each frame settles.
LEMMA FirstPageKept ==
  ASSUME SettingsIInv, NEW x, FirstPage(x),
         pots' \in [Controls -> Pot], gesture' \in Gesture, noon' \in BOOLEAN, rearm' \in BOOLEAN,
         zone' = ZoneOf(pots'["mode"].stored), lockMode' = zone',
         light' \in Quarters, ~rearm' => light' = pots'["light"].stored,
         InFlight(gesture)' \/ gesture'.phase = "Idle" => noon',
         Committed => noon,
         \A c \in Controls : Leapless(c)
  PROVE  StepKept
<1>0. TypeOK /\ x \in [Controls -> Quarters]
  BY TurnedIs DEF SettingsIInv, FirstPage
<1>1. /\ UNCHANGED <<down, bothHeld, active>> /\ phys' = x /\ wasActive' = active
      /\ TurnedPage = 0 /\ page' = 0 /\ advance' = FALSE /\ turns' = IF advance THEN 0 ELSE turns
  BY DEF FirstPage, BeginFrame
<1>2. turns' \in 0 .. 1 /\ zone' \in {0, 1}
  BY <1>0, <1>1 DEF TypeOK, ZoneOf
<1>3. TypeOK'
  BY <1>0, <1>1, <1>2 DEF TypeOK
<1>4. EngineFollows' /\ Earned' /\ PotsFollow'
  BY <1>1 DEF EngineFollows, Earned, PotsFollow
<1>5. page' # page => turns = 1
  <2>1. page' # page => advance
    BY <1>0, <1>1 DEF TurnedPage, TypeOK
  <2>2. QED
    BY <2>1 DEF SettingsIInv
<1>6. QED
  BY <1>1, <1>3, <1>4, <1>5 DEF StepKept, SettingsIInv

\* Where nothing is loaded, the settings are as they were.
LEMMA StoredStays ==
  ASSUME SettingsIInv, NEW x \in Turned,
         pots' = Armed(x), light' = LightAfter(pots'), UNCHANGED <<zone, lockMode>>
  PROVE  /\ pots' \in [Controls -> Pot] /\ light' \in Quarters
         /\ zone' = ZoneOf(pots'["mode"].stored) /\ lockMode' = zone'
         /\ light' = pots'["light"].stored
         /\ \A c \in Controls : Leapless(c)
<1>1. /\ pots' \in [Controls -> Pot] /\ "light" \in Controls /\ "mode" \in Controls
      /\ \A c \in Controls : pots'[c].stored = pots[c].stored
  BY ArmedIs DEF SettingsIInv, Controls
<1>2. light' = pots'["light"].stored
  BY <1>1 DEF LightAfter, SettingsIInv, EngineFollows
<1>3. light' \in Quarters
  BY <1>1, <1>2 DEF Pot
<1>4. zone' = ZoneOf(pots'["mode"].stored) /\ lockMode' = zone'
  BY <1>1 DEF SettingsIInv, EngineFollows
<1>5. QED
  BY <1>1, <1>2, <1>3, <1>4 DEF Leapless

\* A gesture of a frame that is idle, or goes in flight, has seen neutral.
LEMMA GestureEarns ==
  ASSUME SettingsIInv, NEW x \in Turned, FirstPage(x), NEW ok \in BOOLEAN, GestureStep(x, ok)
  PROVE  /\ gesture' \in Gesture
         /\ InFlight(gesture)' \/ gesture'.phase = "Idle" => noon \/ x["mode"] = 2
         /\ Committed => noon
         /\ Commits(ArmedGesture, x["mode"]) => ~InFlight(gesture)' /\ gesture'.phase # "Idle"
<1>0. TypeOK /\ x["light"] \in Quarters /\ x["mode"] \in Quarters
  BY TurnedIs DEF SettingsIInv, Controls
<1>1. /\ ArmedGesture \in Gesture
      /\ ArmedGesture.phase = "Idle" => gesture.phase = "Idle" /\ 0 \notin ArmedPages
      /\ InFlight(ArmedGesture) => InFlight(gesture)
  BY <1>0, ArmedIs
<1>2. PICK h : h = gesture'
  OBVIOUS
<1>3. h = UpdateGesture(ArmedGesture, x["light"], x["mode"], ok)
  BY <1>2 DEF GestureStep
<1>4. /\ h \in Gesture
      /\ InFlight(h) => InFlight(ArmedGesture) \/ ArmedGesture.phase = "Idle"
      /\ h.phase = "Idle" => InFlight(ArmedGesture) \/ ArmedGesture.phase = "Idle" \/ x["mode"] = 2
      /\ Commits(ArmedGesture, x["mode"]) => h.phase \in {"FlashConfirm", "Disarmed"}
  BY <1>0, <1>1, <1>3, GestureIs
<1>5. InFlight(ArmedGesture) => noon
  BY <1>1 DEF SettingsIInv, Earned
<1>6. ArmedGesture.phase = "Idle" => noon
  <2>1. ASSUME 0 \notin ArmedPages PROVE wasActive /\ page = 0
    BY <1>0, <2>1, NotArmedIs DEF FirstPage
  <2>2. QED
    BY <1>1, <2>1 DEF SettingsIInv, Earned
<1>7. Committed => noon
  BY DEF Committed, SettingsIInv, Earned
<1>8. InFlight(gesture)' <=> InFlight(h)
  BY <1>2 DEF InFlight
<1>9. QED
  BY <1>2, <1>4, <1>5, <1>6, <1>7, <1>8 DEF InFlight

LEMMA GestureKept == ASSUME SettingsIInv, NEW x \in Turned, FrameGesture(x) PROVE StepKept
<1>1. /\ FirstPage(x) /\ GestureStep(x, TRUE) /\ rearm' = FALSE
      /\ pots' = Armed(x) /\ light' = LightAfter(pots') /\ UNCHANGED <<zone, lockMode>>
      /\ noon' = (x["mode"] = 2 \/ noon)
  BY DEF FrameGesture, ShowPage, FirstPage
<1>2. noon \in BOOLEAN /\ noon' \in BOOLEAN
  BY <1>1 DEF SettingsIInv, TypeOK
<1>3. /\ gesture' \in Gesture
      /\ InFlight(gesture)' \/ gesture'.phase = "Idle" => noon \/ x["mode"] = 2
      /\ Committed => noon
  BY <1>1, GestureEarns
<1>4. InFlight(gesture)' \/ gesture'.phase = "Idle" => noon'
  BY <1>1, <1>3
<1>5. QED
  BY <1>1, <1>2, <1>3, <1>4, StoredStays, FirstPageKept

LEMMA SavesKept ==
  ASSUME SettingsIInv, NEW x \in Turned,
         (\E ok \in BOOLEAN : FrameSaves(x, ok)) \/ FrameLoadsNothing(x)
  PROVE  StepKept
<1>1. PICK ok \in BOOLEAN :
        /\ FirstPage(x) /\ GestureStep(x, ok) /\ rearm' = TRUE
        /\ Commits(ArmedGesture, x["mode"])
        /\ pots' = Armed(x) /\ light' = LightAfter(pots') /\ UNCHANGED <<zone, lockMode>>
        /\ noon' = FALSE
  BY DEF FrameSaves, FrameLoadsNothing, ShowPage, FirstPage
<1>2. /\ gesture' \in Gesture /\ (Committed => noon)
      /\ ~InFlight(gesture)' /\ gesture'.phase # "Idle"
  BY <1>1, GestureEarns
<1>3. /\ noon' \in BOOLEAN /\ rearm' \in BOOLEAN /\ (~rearm' => light' = pots'["light"].stored)
      /\ InFlight(gesture)' \/ gesture'.phase = "Idle" => noon'
  BY <1>1, <1>2
<1>4. /\ pots' \in [Controls -> Pot] /\ light' \in Quarters
      /\ zone' = ZoneOf(pots'["mode"].stored) /\ lockMode' = zone'
      /\ \A c \in Controls : Leapless(c)
  BY <1>1, StoredStays
<1>5. QED
  BY <1>1, <1>2, <1>3, <1>4, FirstPageKept

LEMMA LoadsKept ==
  ASSUME SettingsIInv, NEW x \in Turned, NEW r \in Record, NEW ok \in BOOLEAN, FrameLoads(x, r, ok)
  PROVE  StepKept
<1>1. /\ FirstPage(x) /\ GestureStep(x, ok) /\ rearm' = TRUE
      /\ Commits(ArmedGesture, x["mode"])
      /\ light' = LightAfter(Armed(x)) /\ Deserialize(r) /\ noon' = FALSE
  BY DEF FrameLoads, ShowPage, FirstPage
<1>2. /\ gesture' \in Gesture /\ (Committed => noon)
      /\ ~InFlight(gesture)' /\ gesture'.phase # "Idle"
  BY <1>1, GestureEarns
<1>3. /\ pots' \in [Controls -> Pot] /\ zone' = ZoneOf(pots'["mode"].stored) /\ lockMode' = zone'
  BY <1>1, DeserializeIs DEF SettingsIInv
<1>4. light' \in Quarters
  <2>1. Armed(x)["light"] \in Pot /\ light \in Quarters
    BY ArmedIs DEF SettingsIInv, TypeOK, Controls
  <2>2. QED
    BY <1>1, <2>1 DEF LightAfter, Pot
<1>5. \A c \in Controls : Leapless(c)
  BY <1>1 DEF Leapless
<1>6. /\ noon' \in BOOLEAN /\ rearm' \in BOOLEAN /\ (~rearm' => light' = pots'["light"].stored)
      /\ InFlight(gesture)' \/ gesture'.phase = "Idle" => noon'
  BY <1>1, <1>2
<1>7. QED
  BY <1>1, <1>2, <1>3, <1>4, <1>5, <1>6, FirstPageKept

-----------------------------------------------------------------------------
(* The theorems                                                            *)

LEMMA StepHolds == SettingsIInv /\ [Next]_vars => SettingsIInv' /\ (UNCHANGED vars \/ StepKept)
<1>. SUFFICES ASSUME SettingsIInv, [Next]_vars PROVE SettingsIInv' /\ (UNCHANGED vars \/ StepKept)
  OBVIOUS
<1>1. CASE UNCHANGED vars
  <2>1. UNCHANGED <<down, bothHeld, active, advance, wasActive, page, rearm, pots, zone, light,
                    lockMode, gesture, phys, noon, turns>>
    BY <1>1 DEF vars, buttons, values, history
  <2>2. TypeOK' /\ EngineFollows' /\ Earned' /\ PotsFollow' /\ (advance' => turns' = 1)
    BY <2>1 DEF SettingsIInv, TypeOK, EngineFollows, Earned, PotsFollow, InFlight
  <2>3. QED
    BY <1>1, <2>2 DEF SettingsIInv
<1>2. CASE \E d \in SUBSET Buttons : PollButtons(d)
  BY <1>2, PollKept DEF StepKept
<1>3. CASE \E r \in Record : Push(r)
  BY <1>3, PushKept DEF StepKept
<1>4. ASSUME NEW x \in Turned, Frame(x) PROVE StepKept
  <2>1. CASE FrameClosed(x)
    BY <1>4, <2>1, ClosedKept
  <2>2. CASE FrameValues(x)
    BY <1>4, <2>2, ValuesKept
  <2>3. CASE FrameGesture(x)
    BY <1>4, <2>3, GestureKept
  <2>4. CASE (\E ok \in BOOLEAN : FrameSaves(x, ok)) \/ FrameLoadsNothing(x)
    BY <1>4, <2>4, SavesKept
  <2>5. CASE \E ok \in BOOLEAN, r \in Record : FrameLoads(x, r, ok)
    BY <1>4, <2>5, LoadsKept
  <2>6. QED
    BY <1>4, <2>1, <2>2, <2>3, <2>4, <2>5 DEF Frame
<1>5. QED
  BY <1>1, <1>2, <1>3, <1>4 DEF Next, StepKept

LEMMA AlwaysSettled == Spec => []SettingsIInv
<1>1. SettingsIInv /\ [Next]_vars => SettingsIInv'
  BY StepHolds
<1>2. QED
  BY <1>1, InitHolds, PTL DEF Spec

\* The engine runs with what is stored: the selector's zone is that of its pot, the
\* locks are in that mode, and the LEDs have the stored brightness as soon as no
\* re-arm is owed.
THEOREM EngineIsCurrent == Spec => []SettingsInv
<1>1. SettingsIInv => SettingsInv
  BY DEF SettingsIInv, SettingsInv
<1>2. QED
  BY <1>1, AlwaysSettled, PTL

\* One save or load for each pass of the action pot over neutral, and one page turn
\* for each release of B1 in the menu.
THEOREM DoneOnce == Spec => NothingTwice
<1>1. SettingsIInv /\ [Next]_vars => [Committed => noon]_vars /\ [page' # page => turns = 1]_vars
  BY StepHolds DEF StepKept
<1>2. QED
  BY <1>1, AlwaysSettled, PTL DEF Spec, NothingTwice, OneCommitPerPass, TurnsAreOwed

\* Outside a load or a push a setting changes only from where its pot stood, or
\* because the pot passed over it: a pot that was moved elsewhere while its page was
\* not shown changes nothing until it comes back to its value.
THEOREM PotsTakeOver == Spec => NoSettingLeaps
<1>1. SettingsIInv /\ [Next]_vars
      => [\A c \in Controls :
            pots'[c].stored # pots[c].stored /\ ~rearm' =>
              Between(pots[c].stored, phys[c], phys'[c])]_vars
  BY StepHolds DEF StepKept, Leapless
<1>2. QED
  BY <1>1, AlwaysSettled, PTL DEF Spec, NoSettingLeaps
=============================================================================
