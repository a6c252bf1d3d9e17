----------------------------- MODULE ButtonBank -----------------------------
(***************************************************************************)
(* alchemy::ButtonBank (surface/button_bank.cpp): taps and holds of the    *)
(* declared buttons, their zones, and the notification of Bind targets.    *)
(*                                                                         *)
(* The bank has no next-state relation of its own: ControlLoop polls it    *)
(* before the pager, which Surface composes it with.  Times are counted in *)
(* polls.  A declared button sits on one hardware button and on some pages *)
(* (a global one on all); labels, colours and the roster's build are left  *)
(* out, and so is what the fields of a press say once it has ended: the    *)
(* next press writes them before they are read.                            *)
(***************************************************************************)
EXTENDS Integers, FiniteSets

CONSTANTS
  Hws,        \* the hardware buttons
  SourcePages,
  Declared,   \* the declared buttons
  Hw,         \* Hw[b]
  On,         \* On[b]: the pages that declare b
  Zones,      \* Zones[b]; 0 for a momentary button
  Tap, Hold,  \* Tap[b], Hold[b]: "none", "call", "cycle", "toggle", "last"
  HoldPolls,  \* Hold's hold_ms
  NavHws      \* hardware buttons whose release the storage lets us consume

VARIABLES
  prev,       \* prev: hardware buttons down at the last poll
  age,        \* polls since press_t, up to HoldPolls
  pressPage,  \* press_page
  holdAny,    \* hold_any
  fired,      \* hold_fired: declared buttons whose hold fired in this press
  zone,       \* cells_[..].zone
  dirty,      \* cells_[..].dirty
  told,       \* the zone last given to NotifyChange
  acted,      \* history: what the press of each hardware button has fired
  spoiled     \* history: presses during which the gate was up

bankVars == <<prev, age, pressPage, holdAny, fired, zone, dirty, told, acted, spoiled>>

Stateful == {b \in Declared : Zones[b] > 0}

BankTypeOK ==
  /\ prev \subseteq Hws
  /\ age \in [Hws -> 0 .. HoldPolls]
  /\ pressPage \in [Hws -> SourcePages]
  /\ holdAny \subseteq Hws /\ spoiled \subseteq Hws
  /\ fired \subseteq Declared
  /\ zone \in [Stateful -> Nat] /\ told \in [Stateful -> Nat]
  /\ \A b \in Stateful : zone[b] < Zones[b]
  /\ dirty \subseteq Stateful
  /\ acted \in [Hws -> SUBSET {"tap", "hold"}]

BankInit ==
  /\ prev = {}
  /\ age = [h \in Hws |-> 0]
  /\ pressPage = [h \in Hws |-> 0]
  /\ holdAny = {} /\ fired = {} /\ spoiled = {}
  /\ zone = [b \in Stateful |-> 0] /\ told = zone
  /\ dirty = {}
  /\ acted = [h \in Hws |-> {}]

\* The tap of b: a stateful button that declares no gesture cycles.
TapOf(b) ==
  IF Tap[b] = "none" /\ b \in Stateful /\ Hold[b] = "none" THEN "cycle" ELSE Tap[b]

\* FireGesture: the zone after gesture g of b.
Fired(b, g) ==
  CASE g = "cycle"  -> (zone[b] + 1) % Zones[b]
    [] g = "toggle" -> IF zone[b] = 0 THEN 1 ELSE 0
    [] g = "last"   -> Zones[b] - 1
    [] OTHER        -> zone[b]

\* An action gesture on a momentary button is inert.
Acts(b, g) == g = "call" \/ (g # "none" /\ b \in Stateful)

-----------------------------------------------------------------------------
(***************************************************************************)
(* PollButtons outside Settings: d is the set of buttons now down, page    *)
(* the active page, claimed the buttons whose hold the storage claims.     *)
(***************************************************************************)
Age(h, d) == IF h \in d \ prev THEN 0 ELSE IF age[h] < HoldPolls THEN age[h] + 1 ELSE age[h]

\* Mutant: a hold that fires leaves hold_any alone.
HoldAnyUnset(d, holds) == holdAny \cap prev \cap d

HoldAnyAfter(d, holds) == (holdAny \cap prev \cap d) \cup {Hw[b] : b \in holds}
FiredAtPress(d) == {b \in fired : Hw[b] \in prev \cap d}

\* DispatchHolds, on the page where the press began.  hold_fired is a mask of eight, counted
\* over the buttons of that page and the global ones: it is this set while there are at most
\* eight of them, as RosterAssumption in Surface says.
HoldsDue(d, page) ==
  {b \in Declared \ FiredAtPress(d) :
     /\ Hold[b] # "none" /\ Hw[b] \in d
     /\ (IF Hw[b] \in prev THEN pressPage[Hw[b]] ELSE page) \in On[b]
     /\ Age(Hw[b], d) >= HoldPolls}

\* DispatchTaps.
TapsDue(d, claimed) ==
  {b \in Declared :
     /\ Hw[b] \in (prev \ d) \ (claimed \cup holdAny)
     /\ pressPage[Hw[b]] \in On[b]
     /\ TapOf(b) # "none"}

\* Some gesture, or the release of a press with a hold, asks the storage to
\* consume the release.
Consumes(d, page, claimed) ==
  \/ \E b \in HoldsDue(d, page) : Hw[b] \in NavHws /\ Acts(b, Hold[b])
  \/ \E b \in TapsDue(d, claimed) : Hw[b] \in NavHws /\ Acts(b, TapOf(b))
  \/ (prev \ d) \cap holdAny \cap NavHws # {}

PollOpen(d, page, claimed) ==
  \E holds \in {HoldsDue(d, page)}, taps \in {TapsDue(d, claimed)} :
      /\ prev' = d
      /\ age' = [h \in Hws |-> IF h \in d THEN Age(h, d) ELSE 0]
      /\ pressPage' = [h \in Hws |-> IF h \in d \ prev THEN page
                                     ELSE IF h \in d THEN pressPage[h] ELSE 0]
      /\ holdAny' = HoldAnyAfter(d, holds)
      /\ fired' = FiredAtPress(d) \cup holds
      /\ zone' = [b \in Stateful |-> IF b \in holds THEN Fired(b, Hold[b])
                                     ELSE IF b \in taps THEN Fired(b, TapOf(b)) ELSE zone[b]]
      /\ told' = [b \in Stateful |-> IF zone'[b] # zone[b] THEN zone'[b] ELSE told[b]]
      /\ acted' = [h \in Hws |->
                     (IF h \in prev THEN acted[h] ELSE {})
                     \cup (IF \E b \in holds : Hw[b] = h /\ Acts(b, Hold[b]) THEN {"hold"} ELSE {})
                     \cup (IF \E b \in taps : Hw[b] = h /\ Acts(b, TapOf(b)) THEN {"tap"} ELSE {})]
      /\ spoiled' = spoiled \cap prev
      /\ UNCHANGED dirty

\* Mutant: the gate leaves a press in flight as it was.
PollGatedKeepsPress(d) ==
  /\ prev' = d
  /\ age' = [h \in Hws |-> IF h \in prev \cap d THEN age[h] ELSE 0]
  /\ pressPage' = [h \in Hws |-> IF h \in prev \cap d THEN pressPage[h] ELSE 0]
  /\ holdAny' = holdAny \cap prev \cap d
  /\ fired' = {b \in fired : Hw[b] \in prev \cap d}
  /\ acted' = [h \in Hws |-> IF h \in prev THEN acted[h] ELSE {}]
  /\ spoiled' = d \cup prev
  /\ UNCHANGED <<zone, dirty, told>>

\* While Settings is open every press is poisoned; a press that begins here
\* has no press_t and no press_page.
PollGated(d) ==
  /\ prev' = d
  /\ age' = [h \in Hws |-> IF h \in prev \cap d THEN age[h] ELSE 0]
  /\ pressPage' = [h \in Hws |-> IF h \in prev \cap d THEN pressPage[h] ELSE 0]
  /\ holdAny' = d
  /\ fired' = {b \in Declared : Hw[b] \in d}
  /\ acted' = [h \in Hws |-> IF h \in prev THEN acted[h] ELSE {}]
  /\ spoiled' = d \cup prev
  /\ UNCHANGED <<zone, dirty, told>>

-----------------------------------------------------------------------------
\* SetZone, of a zone in range.
SetZone(b, z) ==
  /\ b \in Stateful /\ z < Zones[b] /\ z # zone[b]
  /\ zone' = [zone EXCEPT ![b] = z]
  /\ dirty' = dirty \cup {b}
  /\ UNCHANGED <<prev, age, pressPage, holdAny, fired, told, acted, spoiled>>

\* Deserialize of any bytes: one out of range stands for the default zone.
Deserialize(v) ==
  /\ zone' = [b \in Stateful |-> IF v[b] < Zones[b] THEN v[b] ELSE 0]
  /\ dirty' = dirty \cup {b \in Stateful : zone'[b] # zone[b]}
  /\ UNCHANGED <<prev, age, pressPage, holdAny, fired, told, acted, spoiled>>

\* Update: the deferred notifications.
Flush ==
  /\ told' = [b \in Stateful |-> IF b \in dirty THEN zone[b] ELSE told[b]]
  /\ dirty' = {}
  /\ UNCHANGED <<prev, age, pressPage, holdAny, fired, zone, acted, spoiled>>

-----------------------------------------------------------------------------
\* A Bind target that is owed no notification has the button's zone, by
\* whichever way and in whichever order gestures, loads and SetZone came.
BindFollows == \A b \in Stateful \ dirty : told[b] = zone[b]

\* One press does not both fire a hold and a tap.
TapOrHold == \A h \in Hws : acted[h] # {"tap", "hold"}

\* "an in-flight press is discarded": a press that met the Settings gate
\* fires nothing any more.
GatedIsInert ==
  [][\A h \in Hws : h \in spoiled \cap spoiled' => acted'[h] \subseteq acted[h]]_bankVars
=============================================================================
