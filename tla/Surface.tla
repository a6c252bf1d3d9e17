------------------------------- MODULE Surface -------------------------------
(***************************************************************************)
(* Button bank and pager on the same buttons, as ControlLoop::Tick runs    *)
(* them: in every poll the bank first, with the pager's page, then the     *)
(* pager; in every frame the bank's deferred notifications, also while     *)
(* Settings is open, then the pager's Update.                              *)
(***************************************************************************)
EXTENDS Pager

CONSTANTS Declared, Hw, On, Zones, Tap, Hold, HoldPolls

VARIABLES
  polled,  \* what the poll under way has read: the buttons and the gate
  clean,   \* history: pending releases of presses that fired nothing
  prev, age, pressPage, holdAny, fired, zone, dirty, told, acted, spoiled

NavHws == Bindings \ Shifts
Bank == INSTANCE ButtonBank WITH Hws <- Bindings, SourcePages <- Pages

bank == <<prev, age, pressPage, holdAny, fired, zone, dirty, told, acted, spoiled>>
surface == <<vars, polled, clean, bank>>

Reading == [down : SUBSET Bindings, gate : BOOLEAN]

\* EnrollState refuses a selector of fewer than two zones.
ASSUME SurfaceAssumption ==
  /\ None \notin Reading
  /\ Zones \in [Declared -> Nat \ {1}]
  /\ HoldPolls \in Nat

\* A page declares at most as many buttons, global ones included, as hold_fired has bits.
ASSUME RosterAssumption ==
  \A p \in Pages : Cardinality({b \in Declared : p \in On[b]}) <= 8

SurfaceTypeOK ==
  /\ TypeOK
  /\ Bank!BankTypeOK
  /\ polled \in Reading \cup {None}
  /\ clean \subseteq Bindings

SurfaceInit == Init /\ Bank!BankInit /\ polled = None /\ clean = {}

-----------------------------------------------------------------------------
\* HoldClaimed: a Shift whose layer is engaged and was used.
Claimed == active \cap used

\* ConsumeButton, called in the poll that has read d.
ConsumedIn(d) ==
  /\ consume' = TRUE
  /\ poisoned' = poisoned \cup (d \ Shifts)
  /\ UNCHANGED <<down, pressed, released, gated, layers, view, catching, frame>>

\* Mutant: the bank fires and leaves the release to the pager.
BankPollsAlone(r) ==
  /\ polled = None /\ phase = "poll"
  /\ polled' = r
  /\ IF r.gate THEN Bank!PollGated(r.down) ELSE Bank!PollOpen(r.down, page, Claimed)
  /\ clean' = clean \cup {b \in prev \ r.down : acted'[b] = {}}
  /\ UNCHANGED vars

\* The bank's half of a poll.
BankPolls(r) ==
  /\ polled = None /\ phase = "poll"
  /\ polled' = r
  /\ IF r.gate THEN Bank!PollGated(r.down) ELSE Bank!PollOpen(r.down, page, Claimed)
  /\ clean' = clean \cup {b \in prev \ r.down : acted'[b] = {}}
  /\ IF ~r.gate /\ Bank!Consumes(r.down, page, Claimed)
       THEN ConsumedIn(r.down) ELSE UNCHANGED vars

\* The pager's half: the same buttons, the same gate.
PagerPolls ==
  /\ polled # None
  /\ polled' = None
  /\ \/ polled.gate /\ PollGateRises(polled.down)
     \/ PollGated(polled.down, polled.gate)
     \/ ~polled.gate /\ PollChord(polled.down)
     \/ ~polled.gate /\ Poll(polled.down)
  /\ UNCHANGED <<bank, clean>>

\* In a poll: the host pushes a state, the application sets a zone or jumps.
CallsIn ==
  /\ polled = None /\ phase = "poll"
  /\ \/ /\ \E b \in Bank!Stateful : \E z \in 0 .. Zones[b] - 1 : Bank!SetZone(b, z)
        /\ UNCHANGED vars
     \/ /\ \E v \in [Bank!Stateful -> 0 .. 2] : Bank!Deserialize(v)
        /\ UNCHANGED vars
     \/ /\ \E pg \in Pages : GoToPage(pg)
        /\ UNCHANGED bank
  /\ UNCHANGED <<polled, clean>>

\* A frame begins: Settings first, then the bank's notifications.
FrameBegins ==
  /\ polled = None
  /\ \E x \in [Pots -> Positions] : FrameInSettings(x) \/ Frame(x)
  /\ Bank!Flush
  /\ UNCHANGED <<polled, clean>>

\* ... and goes on with the pager's Update.
FrameGoesOn ==
  /\ phase # "poll"
  /\ \/ BeginUpdate \/ NavDone \/ NoMoreExits \/ Catch
     \/ \E b \in Shifts : DeferredExit(b)
  /\ UNCHANGED <<polled, clean, bank>>

FrameNavigates ==
  \E b \in Bindings :
    /\ Nav(b)
    /\ clean' = clean \ {b}
    /\ UNCHANGED <<polled, bank>>

SurfaceNext ==
  \/ \E r \in Reading : BankPolls(r)
  \/ PagerPolls
  \/ CallsIn
  \/ FrameBegins \/ FrameGoesOn \/ FrameNavigates

SurfaceSpec == SurfaceInit /\ [][SurfaceNext]_surface

-----------------------------------------------------------------------------
\* The bank's own properties.
BindFollows == Bank!BindFollows
TapOrHold == Bank!TapOrHold
GatedIsInert == Bank!GatedIsInert

\* "Gestures shadow page navigation": a cycle or latch acts only when one of
\* the releases it has pending ended a press in which no gesture fired.
NavIsShadowed == [][\A b \in Bindings : DoCycle(b) \/ DoLatch(b) => b \in clean]_surface

\* A press that the gate discarded or a gesture used has nothing left to do, neither as a
\* gesture of the bank nor as navigation (PollGated, ConsumeRelease, ConsumeHold).
SpentPressIsInert == GatedIsInert /\ NavIsShadowed
=============================================================================
