-------------------------------- MODULE Pager --------------------------------
(***************************************************************************)
(* alchemy::Pager (framework/src/surface/pager.cpp): which page the pots   *)
(* edit, the gestures that change it, and pot catch on the visible page.   *)
(*                                                                         *)
(* ControlLoop::Tick polls the buttons about once a millisecond and then   *)
(* runs one frame, so any number of edges can pile up between two calls of *)
(* Update.  A frame is phase "calls" (Settings and ParamLock run first and *)
(* may call into the pager), "nav" (Update's loop over the bindings, one   *)
(* binding a step), "exits" (deferred exits) and "catch"; nothing else can *)
(* run in between, as all of it is one thread.                             *)
(*                                                                         *)
(* A pot position stands for a band as wide as kCatchTolerance: two        *)
(* readings are equal when they are within tolerance of each other.  The   *)
(* motion gate works below that resolution and is left out.                *)
(***************************************************************************)
EXTENDS Integers, Sequences, FiniteSets, PotCatch

CONSTANTS
  NumBindings,  \* num_bindings_; one binding per button
  Kind,         \* Kind[b]: "Cycle", "Shift" or "Latch"
  NumPages,     \* num_pages_
  List,         \* List[b]: the pages of a Cycle, << >> for every page
  Layer,        \* Layer[b]: the page of a Shift
  Pair,         \* Pair[b]: the two pages of a Latch
  From,         \* From[b]: the pages a Shift or Latch engages from
  Pots,         \* pots of a page
  Positions,    \* where a pot can stand
  Default,      \* the position of 0.5f
  Callers,      \* who calls into the pager: "locks", "buttons", "app", "presets"
  None          \* nullptr

Bindings == 1 .. NumBindings
Pages == 0 .. NumPages - 1
Shifts == {b \in Bindings : Kind[b] = "Shift"}
Latches == {b \in Bindings : Kind[b] = "Latch"}

\* docs/pages-and-layers.md: "A page may belong to at most one pair."
ASSUME PagerAssumption ==
  /\ NumBindings \in Nat
  /\ NumPages \in Nat \ {0}
  /\ Kind \in [Bindings -> {"Cycle", "Shift", "Latch"}]
  /\ List \in [Bindings -> Seq(Pages)]
  /\ Layer \in [Bindings -> Pages]
  /\ Pair \in [Bindings -> Pages \X Pages]
  /\ From \in [Bindings -> SUBSET Pages]
  /\ \A b, c \in Latches : b # c => {Pair[b][1], Pair[b][2]} \cap {Pair[c][1], Pair[c][2]} = {}
  /\ \A b \in Latches : Pair[b][1] # Pair[b][2]
  /\ Positions \subseteq Int
  /\ Default \in Positions
  /\ Callers \subseteq {"locks", "buttons", "app", "presets"}
  /\ None \notin Bindings \cup Positions

VARIABLES
  phase,      \* "poll", or the stage of the frame
  next,       \* in phase "nav": the binding Update looks at next
  down,       \* prev_pressed: buttons down at the last poll
  pressed,    \* press_pending
  released,   \* release_pending
  poisoned,   \* bindings whose press is inert until its release
  active,     \* Shifts whose layer is engaged
  lingering,  \* Shifts whose exit waits for the view latch
  used,       \* Shifts whose hold edited a parameter
  ret,        \* return_page of each Shift
  sel,        \* latch_sel of each Latch, as an index into its pair
  page,       \* page_
  retained,   \* retained_ov_
  consume,    \* consume_
  relock,     \* relock_pending_
  rearm,      \* pending_rearm_
  gated,      \* prev_gated_: Settings was open at the last poll
  wasOpen,    \* Settings: prev_update_active_
  phys,       \* the pots, as read at the start of the frame
  pots,       \* states_[page][pot]
  engaged,    \* overlay_engage_ of the pots in overlay_caught_mask_, else None
  edited,     \* history: Shifts whose hold had a pot change a value
  lastPhys    \* history: phys of the last Update that ran

buttons == <<down, pressed, released, poisoned, gated>>
layers == <<active, lingering, used, ret, retained, engaged, edited>>
view == <<page, sel>>
catching == <<pots, relock, rearm>>
frame == <<phase, next, phys, wasOpen, lastPhys>>
vars == <<buttons, layers, view, catching, frame, consume>>

Pot == [stored : Positions, caught : BOOLEAN, sign : {-1, 0, 1}]
Row == [Pots -> Pot]

TypeOK ==
  /\ phase \in {"poll", "calls", "nav", "exits", "catch"}
  /\ next \in 1 .. NumBindings + 1
  /\ down \subseteq Bindings /\ poisoned \subseteq Bindings
  /\ pressed \subseteq Bindings /\ released \subseteq Bindings
  /\ active \subseteq Shifts /\ lingering \subseteq Shifts
  /\ used \subseteq Shifts /\ edited \subseteq Shifts
  /\ ret \in [Bindings -> Pages]
  /\ sel \in [Bindings -> {1, 2}]
  /\ page \in Pages
  /\ retained \in Shifts \cup {None}
  /\ consume \in BOOLEAN /\ relock \in BOOLEAN /\ rearm \in BOOLEAN
  /\ gated \in BOOLEAN /\ wasOpen \in BOOLEAN
  /\ phys \in [Pots -> Positions]
  /\ lastPhys \in [Pots -> Positions]
  /\ pots \in [Pages -> Row]
  /\ engaged \in [Pots -> Positions \cup {None}]

-----------------------------------------------------------------------------
\* LockPage: re-arm catch on every pot of the pages in pgs.
Locked(ps, pgs) ==
  [pg \in Pages |->
     IF pg \in pgs THEN [p \in Pots |-> InitCatch(ps[pg][p], phys[p])] ELSE ps[pg]]

\* SnapshotOverlay: what the caught pots of a row hold.
Snapshot(row) == [p \in Pots |-> IF row[p].caught THEN row[p].stored ELSE None]

-----------------------------------------------------------------------------
(***************************************************************************)
(* Pages, cycle slots and latch pairs.                                     *)
(***************************************************************************)
InPair(L, p) == p = Pair[L][1] \/ p = Pair[L][2]

SameSlot(p, q) == p = q \/ \E L \in Latches : InPair(L, p) /\ InPair(L, q)

ResolveLatch(p) ==
  IF \E L \in Latches : InPair(L, p)
    THEN LET L == CHOOSE l \in Latches : InPair(l, p) IN Pair[L][sel[L]]
    ELSE p

\* SyncLatchSel: the pair of the page that is shown remembers it.
Synced(p) ==
  [L \in Bindings |->
     IF L \in Latches /\ InPair(L, p) THEN (IF p = Pair[L][1] THEN 1 ELSE 2)
                                      ELSE sel[L]]

\* The pages that cycle b visits, in order.
Entries(b) == IF List[b] = << >> THEN [k \in 1 .. NumPages |-> k - 1] ELSE List[b]

First(S) == CHOOSE k \in S : \A j \in S : k <= j

\* The first entry after the current slot that leaves it.
NextEntry(b) ==
  LET es == Entries(b)
      n == Len(es)
      here == {k \in 1 .. n : SameSlot(es[k], page)}
      pos == IF here = {} THEN 0 ELSE First(here)
      Ahead(k) == es[((pos + k - 1) % n) + 1]
      away == {k \in 1 .. n : ~SameSlot(Ahead(k), page)}
  IN  Ahead(IF away = {} THEN 1 ELSE First(away))

\* ActiveOverlay.
Overlay == IF active = {} THEN None ELSE First(active)

Init ==
  /\ phase = "poll" /\ next = 1
  /\ down = {} /\ pressed = {} /\ released = {} /\ poisoned = {}
  /\ active = {} /\ lingering = {} /\ used = {} /\ edited = {}
  /\ ret = [b \in Bindings |-> 0]
  /\ page = 0
  /\ sel = [b \in Bindings |-> IF b \in Latches /\ Pair[b][2] = 0 THEN 2 ELSE 1]
  /\ retained = None
  /\ consume = FALSE /\ relock = FALSE /\ rearm = FALSE
  /\ gated = FALSE /\ wasOpen = FALSE
  /\ phys = [p \in Pots |-> Default] /\ lastPhys = phys
  /\ pots = [pg \in Pages |-> [p \in Pots |->
               [stored |-> Default, caught |-> TRUE, sign |-> 0]]]
  /\ engaged = [p \in Pots |-> None]

-----------------------------------------------------------------------------
(***************************************************************************)
(* PollButtons.  d is the set of buttons now down.                         *)
(***************************************************************************)
AbortOverlays ==
  /\ active' = {}
  /\ lingering' = lingering \ active
  /\ edited' = {}
  /\ page' = IF active = {} THEN page ELSE ret[Overlay]
  /\ relock' = (relock \/ active # {})
  /\ retained' = None

\* Settings has opened: layers abort, edges drop, presses poison.
PollGateRises(d) ==
  /\ phase = "poll" /\ ~gated
  /\ gated' = TRUE
  /\ down' = d
  /\ poisoned' = (poisoned \cup d) \ (down \ d)
  /\ pressed' = {} /\ released' = {}
  /\ AbortOverlays
  /\ UNCHANGED <<used, ret, engaged, sel, pots, rearm, frame, consume>>

\* Settings is open, or (g is FALSE) was at the poll before this one.
PollGated(d, g) ==
  /\ phase = "poll" /\ gated
  /\ gated' = g
  /\ down' = d
  /\ poisoned' = (poisoned \cup d) \ (down \ d)
  /\ pressed' = pressed \ (down \ d)
  /\ released' = released \ (down \ d)
  /\ UNCHANGED <<layers, view, catching, frame, consume>>

\* A press while another bound button is down reaches for a chord.
Chord(d) == \E b \in d \ down : d # {b}

PollChord(d) ==
  /\ phase = "poll" /\ ~gated
  /\ Chord(d)
  /\ down' = d
  /\ poisoned' = poisoned \cup d
  /\ released' = released \cup (down \ d)
  /\ AbortOverlays
  /\ UNCHANGED <<gated, pressed, used, ret, engaged, sel, pots, rearm, frame, consume>>

Poll(d) ==
  /\ phase = "poll" /\ ~gated
  /\ ~Chord(d)
  /\ down' = d
  /\ poisoned' = poisoned \ (d \ down)
  /\ pressed' = pressed \cup (d \ down)
  /\ released' = released \cup (down \ d)
  /\ UNCHANGED <<gated, layers, view, catching, frame, consume>>

-----------------------------------------------------------------------------
(***************************************************************************)
(* Calls from other surfaces, in a poll or before Update in the frame.     *)
(***************************************************************************)
Calling(who) == who \in Callers /\ phase \in {"poll", "calls"}
LocksCalling == "locks" \in Callers /\ phase = "calls"

RetainPage ==
  /\ LocksCalling
  /\ retained' = Overlay
  /\ UNCHANGED <<buttons, active, lingering, used, ret, engaged, edited, view, catching, frame,
                 consume>>

ReleasePage ==
  /\ LocksCalling
  /\ retained' = None
  /\ UNCHANGED <<buttons, active, lingering, used, ret, engaged, edited, view, catching, frame,
                 consume>>

ConsumeButton ==
  /\ Calling("buttons") \/ LocksCalling
  /\ consume' = TRUE
  /\ poisoned' = poisoned \cup (down \ Shifts)
  /\ UNCHANGED <<down, pressed, released, gated, layers, view, catching, frame>>

\* Mutant: the jump leaves the layer engaged.
GoToPageKeepsLayer(pg) ==
  /\ Calling("app")
  /\ page' = pg
  /\ sel' = Synced(pg)
  /\ pots' = Locked(pots, {pg})
  /\ UNCHANGED <<buttons, layers, relock, rearm, frame, consume>>

GoToPage(pg) ==
  /\ Calling("app")
  /\ retained' = None
  /\ active' = {} /\ lingering' = {} /\ edited' = {}
  /\ page' = pg
  /\ sel' = Synced(pg)
  /\ pots' = Locked(pots, {pg})
  /\ UNCHANGED <<buttons, used, ret, engaged, relock, rearm, frame, consume>>

\* ParamLock's Return exit puts a value back.
SetStored(pg, p, x) ==
  /\ LocksCalling
  /\ pots' = [pots EXCEPT ![pg][p] = InitCatch([@ EXCEPT !.stored = x], phys[p])]
  /\ UNCHANGED <<buttons, layers, view, relock, rearm, frame, consume>>

\* A preset load or a push from the host.
Deserialize(value) ==
  /\ Calling("presets")
  /\ pots' = [pg \in Pages |-> [p \in Pots |->
                [stored |-> value[pg][p], caught |-> FALSE, sign |-> 0]]]
  /\ rearm' = TRUE
  /\ UNCHANGED <<buttons, layers, view, relock, frame, consume>>

-----------------------------------------------------------------------------
(***************************************************************************)
(* The frame.                                                              *)
(***************************************************************************)

\* Settings owns the surface: the pager's Update is not called.
FrameInSettings(x) ==
  /\ phase = "poll" /\ gated
  /\ phys' = x
  /\ wasOpen' = TRUE
  /\ UNCHANGED <<phase, next, lastPhys, buttons, layers, view, catching, consume>>

\* Settings re-arms the visible page in the frame in which it has closed.
Frame(x) ==
  /\ phase = "poll" /\ ~gated
  /\ phys' = x
  /\ wasOpen' = FALSE
  /\ pots' = IF wasOpen
               THEN [pots EXCEPT ![page] = [p \in Pots |-> InitCatch(pots[page][p], x[p])]]
               ELSE pots
  /\ phase' = "calls"
  /\ UNCHANGED <<next, lastPhys, buttons, layers, view, relock, rearm, consume>>

\* Mutant: the re-arm owed by an abort in a poll is forgotten.
BeginUpdateNoRelock ==
  /\ phase = "calls"
  /\ phase' = "nav" /\ next' = 1
  /\ pots' = Locked(pots, IF rearm THEN Pages ELSE {})
  /\ rearm' = FALSE /\ relock' = FALSE
  /\ UNCHANGED <<engaged, used, edited>>
  /\ UNCHANGED <<active, lingering, ret, retained, buttons, view, phys, wasOpen, lastPhys, consume>>

\* The re-arms owed by a Deserialize and by an abort in a poll.
BeginUpdate ==
  /\ phase = "calls"
  /\ phase' = "nav" /\ next' = 1
  /\ pots' = Locked(pots, IF rearm THEN Pages ELSE IF relock THEN {page} ELSE {})
  /\ rearm' = FALSE /\ relock' = FALSE
  /\ IF rearm /\ active # {}
       THEN /\ engaged' = Snapshot(pots'[page])
            /\ used' = used \ {Overlay} /\ edited' = edited \ {Overlay}
       ELSE UNCHANGED <<engaged, used, edited>>
  /\ UNCHANGED <<active, lingering, ret, retained, buttons, view, phys, wasOpen, lastPhys, consume>>

\* Update turns to binding b: both of its pending edges are taken.
Taken(b) ==
  /\ phase = "nav" /\ next = b
  /\ next' = b + 1
  /\ pressed' = pressed \ {b} /\ released' = released \ {b}
  /\ UNCHANGED <<phase, phys, wasOpen, lastPhys, down, gated, relock, rearm, consume>>

ReleaseLiftsPoison(b) ==
  poisoned' = IF b \in released THEN poisoned \ {b} ELSE poisoned

KeepLayers == UNCHANGED <<active, lingering, ret, retained, engaged, edited>>
KeepView == UNCHANGED <<view, pots>>

\* EngageShift from page pg, given the pots ps.
EngageShift(b, pg, ps) ==
  /\ ret' = [ret EXCEPT ![b] = pg]
  /\ active' = active \cup {b}
  /\ used' = used \ {b} /\ edited' = edited \ {b}
  /\ lingering' = lingering \ {b}
  /\ page' = Layer[b]
  /\ sel' = Synced(Layer[b])
  /\ pots' = Locked(ps, {Layer[b]})
  /\ engaged' = Snapshot(pots'[Layer[b]])

ExitShift(b) ==
  /\ active' = active \ {b}
  /\ lingering' = lingering \ {b}
  /\ edited' = edited \ {b}
  /\ retained' = IF retained = b THEN None ELSE retained
  /\ page' = ret[b]
  /\ pots' = Locked(pots, {ret[b]})
  /\ UNCHANGED <<used, ret, engaged, sel>>

NavNothing(b) ==
  /\ Taken(b)
  /\ b \notin pressed \cup released
  /\ UNCHANGED <<poisoned, used>> /\ KeepLayers /\ KeepView

\* TryEngage's conditions.
MayEngage(b) ==
  /\ b \notin poisoned
  /\ active = {}
  /\ page \in From[b]
  /\ page # Layer[b]

\* An idle Shift: a press engages it; press and release in a frame is a tap.
ShiftEngages(b) ==
  /\ Taken(b)
  /\ b \in Shifts \ active /\ b \in pressed \ released
  /\ MayEngage(b)
  /\ EngageShift(b, page, pots)
  /\ UNCHANGED <<poisoned, retained>>

ShiftStaysIdle(b) ==
  /\ Taken(b)
  /\ b \in Shifts \ active /\ b \in pressed \cup released
  /\ b \in released \/ ~MayEngage(b)
  /\ used' = used \ {b}
  /\ poisoned' = IF b \in released THEN poisoned \ {b}
                 ELSE IF active # {} THEN poisoned \cup {b}
                 ELSE poisoned
  /\ KeepLayers /\ KeepView

\* A lingering Shift starts with its button up, so the press comes first.
ShiftResumes(b) ==
  /\ Taken(b)
  /\ b \in active \cap lingering /\ b \in pressed \cup released
  /\ ~(b \in pressed \cap released /\ retained # b)
  /\ lingering' = IF b \in pressed \ released THEN lingering \ {b} ELSE lingering
  /\ ReleaseLiftsPoison(b)
  /\ UNCHANGED <<active, used, ret, retained, engaged, edited>> /\ KeepView

ShiftResumesAndExits(b) ==
  /\ Taken(b)
  /\ b \in active \cap lingering /\ b \in pressed \cap released
  /\ retained # b
  /\ ExitShift(b)
  /\ ReleaseLiftsPoison(b)

\* A held Shift: the release comes first, and waits for the view latch.
ShiftLingers(b) ==
  /\ Taken(b)
  /\ b \in active \ lingering /\ b \in pressed \cup released
  /\ b \in released => retained = b
  /\ lingering' = IF b \in released \ pressed THEN lingering \cup {b} ELSE lingering
  /\ ReleaseLiftsPoison(b)
  /\ UNCHANGED <<active, used, ret, retained, engaged, edited>> /\ KeepView

ShiftExits(b) ==
  /\ Taken(b)
  /\ b \in active \ lingering /\ b \in released
  /\ retained # b
  /\ b \in pressed => b \in poisoned
  /\ ExitShift(b)
  /\ ReleaseLiftsPoison(b)

\* Mutant: the layer is engaged again without going back first.
ShiftReengagesFromLayer(b) ==
  /\ Taken(b)
  /\ b \in active \ lingering /\ b \in pressed \cap released
  /\ retained # b
  /\ b \notin poisoned
  /\ EngageShift(b, page, pots)
  /\ UNCHANGED retained
  /\ ReleaseLiftsPoison(b)

\* Released and pressed again in one frame: exit, then TryEngage, which can
\* only refuse a poisoned press, as the page is the one it engaged from.
ShiftReengages(b) ==
  /\ Taken(b)
  /\ b \in active \ lingering /\ b \in pressed \cap released
  /\ retained # b
  /\ b \notin poisoned
  /\ EngageShift(b, ret[b], Locked(pots, {ret[b]}))
  /\ UNCHANGED retained
  /\ ReleaseLiftsPoison(b)

\* Cycle and Latch act on a clean release that nobody consumed.
CleanRelease(b) ==
  /\ b \in released \ poisoned
  /\ ~consume
  /\ active = {}

\* Mutant: the pair is not told which member shows.
GoUnsynced(pg) ==
  /\ page' = pg
  /\ pots' = Locked(pots, {pg})
  /\ UNCHANGED sel

Go(pg) ==
  /\ page' = pg
  /\ sel' = Synced(pg)
  /\ pots' = Locked(pots, {pg})

DoCycle(b) ==
  /\ Taken(b)
  /\ Kind[b] = "Cycle" /\ CleanRelease(b)
  /\ Go(ResolveLatch(NextEntry(b)))
  /\ UNCHANGED <<poisoned, used>> /\ KeepLayers

DoLatch(b) ==
  /\ Taken(b)
  /\ Kind[b] = "Latch" /\ CleanRelease(b)
  /\ page \in From[b] /\ InPair(b, page)
  /\ Go(Pair[b][IF page = Pair[b][1] THEN 2 ELSE 1])
  /\ UNCHANGED <<poisoned, used>> /\ KeepLayers

NavIgnored(b) ==
  /\ Taken(b)
  /\ Kind[b] # "Shift" /\ b \in pressed \cup released
  /\ \/ ~CleanRelease(b)
     \/ Kind[b] = "Latch" /\ ~(page \in From[b] /\ InPair(b, page))
  /\ ReleaseLiftsPoison(b)
  /\ UNCHANGED used /\ KeepLayers /\ KeepView

\* Mutant: the button is tested the wrong way round.
OverdueWhileDown == {b \in lingering : retained # b /\ b \in down}

\* Deferred exits once the view latch no longer covers them.
Overdue == {b \in lingering : retained # b /\ b \notin down}

NavDone ==
  /\ phase = "nav" /\ next = NumBindings + 1
  /\ phase' = "exits" /\ next' = 1
  /\ UNCHANGED <<phys, wasOpen, lastPhys, buttons, layers, view, catching, consume>>

DeferredExit(b) ==
  /\ phase = "exits"
  /\ b \in Overdue
  /\ ExitShift(b)
  /\ UNCHANGED <<frame, buttons, relock, rearm, consume>>

NoMoreExits ==
  /\ phase = "exits"
  /\ Overdue = {}
  /\ phase' = "catch"
  /\ UNCHANGED <<next, phys, wasOpen, lastPhys, buttons, layers, view, catching, consume>>

\* Mutant: a caught pot counts as an edit only when it takes hold anew.
EditedNewCatchOnly(row) == \E p \in Pots : row[p].caught /\ engaged[p] = None

\* A pot that took hold counts; one caught at engage counts once it moves.
Edited(row) ==
  \E p \in Pots : IF engaged[p] = None THEN row[p].caught
                                       ELSE row[p].stored # engaged[p]

Catch ==
  /\ phase = "catch"
  /\ phase' = "poll"
  /\ pots' = [pots EXCEPT ![page] =
                [p \in Pots |-> UpdateCatch(pots[page][p], phys[p])]]
  /\ used' = IF /\ active # {} /\ Layer[Overlay] = page
                /\ Edited(pots'[page])
               THEN used \cup {Overlay} ELSE used
  /\ edited' = IF /\ active # {} /\ Layer[Overlay] = page
                  /\ \E p \in Pots : pots'[page][p].stored # pots[page][p].stored
                 THEN edited \cup {Overlay} ELSE edited
  /\ consume' = FALSE
  /\ lastPhys' = phys
  /\ UNCHANGED <<next, phys, wasOpen, buttons, active, lingering, ret, retained, engaged,
                 view, relock, rearm>>

Nav(b) ==
  \/ NavNothing(b)
  \/ ShiftEngages(b) \/ ShiftStaysIdle(b)
  \/ ShiftResumes(b) \/ ShiftResumesAndExits(b)
  \/ ShiftLingers(b) \/ ShiftExits(b) \/ ShiftReengages(b)
  \/ DoCycle(b) \/ DoLatch(b) \/ NavIgnored(b)

Polling ==
  \E d \in SUBSET Bindings :
    \/ PollGateRises(d)
    \/ \E g \in BOOLEAN : PollGated(d, g)
    \/ PollChord(d)
    \/ Poll(d)

\* The steps that the control loop takes by itself.
Tick ==
  \/ \E x \in [Pots -> Positions] : FrameInSettings(x) \/ Frame(x)
  \/ BeginUpdate
  \/ \E b \in Bindings : Nav(b)
  \/ NavDone
  \/ \E b \in Shifts : DeferredExit(b)
  \/ NoMoreExits
  \/ Catch

Calls ==
  \/ RetainPage \/ ReleasePage \/ ConsumeButton
  \/ \E pg \in Pages : GoToPage(pg)
  \/ \E pg \in Pages, p \in Pots, x \in Positions : SetStored(pg, p, x)
  \/ \E value \in [Pages -> [Pots -> Positions]] : Deserialize(value)

Next == Polling \/ Calls \/ Tick

Spec == Init /\ [][Next]_vars

-----------------------------------------------------------------------------
(***************************************************************************)
(* Properties.                                                             *)
(***************************************************************************)

\* At most one layer is engaged, its page is the one that shows, it came
\* from a page in its scope, and the view latch never covers a layer that
\* has ended ("at most one Shift layer active at a time").
LayerIsShown ==
  /\ \A b, c \in active : b = c
  /\ \A b \in active : page = Layer[b] /\ ret[b] \in From[b] \ {Layer[b]}
  /\ lingering \subseteq active
  /\ retained # None => retained \in active

\* "Settings always opens on the base page."
GateShutsLayers == gated => active = {}

\* The page underneath all layers.
Base == IF active = {} THEN page ELSE ret[Overlay]

\* Engaging, deferring, ending or aborting a layer, in whatever order the
\* edges are seen, leaves the page underneath alone: only a clean release of
\* a Cycle or Latch, or a jump, moves it.
BaseStands ==
  [][Base' # Base => \/ \E b \in Bindings : DoCycle(b) \/ DoLatch(b)
                     \/ \E pg \in Pages : GoToPage(pg)]_vars

\* A pair remembers the member it last showed ("cycling back lands on
\* whichever member the pair last showed").
LatchFollowsPage ==
  \A L \in Latches : InPair(L, page) => Pair[L][sel[L]] = page

\* No parameter leaps: a pot changes a value only by taking it along from
\* where it stood, or by passing over it, between this Update and the one
\* before; page changes, aborts and Settings sessions do not count.
NoLeap ==
  [][\A pg \in Pages, p \in Pots :
       pots'[pg][p].stored # pots[pg][p].stored =>
         \/ \E x \in Positions : SetStored(pg, p, x)
         \/ \E value \in [Pages -> [Pots -> Positions]] : Deserialize(value)
         \/ Between(pots[pg][p].stored, lastPhys[p], phys[p])]_vars

\* A hold during which a pot moved a value of its layer claims its release
\* ("a hold that did edit claims its release").
EditIsUsed == edited \subseteq used

\* A layer whose exit was deferred ends once its button stays up and the
\* view latch leaves it alone, whatever else the user does.
LingeringEnds ==
  \A b \in Shifts :
    <>[](retained # b /\ b \notin down) => <>[](b \notin lingering)
=============================================================================
