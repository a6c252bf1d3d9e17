----------------------------- MODULE ParamLock -----------------------------
(***************************************************************************)
(* The param locks: while the trigger is held, a nudged pot starts to      *)
(* record what it does from there, or clears what plays; the release turns *)
(* what was recorded into loops.  ParamLock polls the trigger and runs the *)
(* hold, ParamLockManager owns the slots.                                  *)
(*                                                                         *)
(* The steps are the polls of the trigger, the frame (playback first, then *)
(* the edges of the trigger, then the gestures), and what others do        *)
(* between two frames: Settings opens or closes and sets the modes, a      *)
(* preset is loaded, the application clears, freezes or turns the page,    *)
(* and the musical clock runs, stops or is reset.                          *)
(***************************************************************************)
EXTENDS LockSlot

CONSTANTS
    Pages, Pots,
    Positions,      \* of a pot, in units of the arming threshold
    ClearNudge,     \* clear_threshold_ in the same unit
    Steps,          \* step_q16_ of the frame lengths that occur, in units of 1/One
    Gaps,           \* ticks that can pass between two frames
    MaxTick,        \* bound on the clock
    MaxCalls,       \* bound on how often others do something (what they undo is free)
    Modes,          \* settings of the sync and the exit mode: <<clocked, returns>>
    Presets         \* saved forms that can be loaded, each a function on the slots

Slots == Pages \X Pots

ASSUME LockAssumption ==
    /\ Positions \subseteq Nat /\ Positions # {} /\ Pots # {} /\ Pages \subseteq Nat /\ Pages # {}
    /\ ClearNudge \in Nat \ {0} /\ Steps \subseteq Nat \ {0} /\ Gaps \subseteq Nat \ {0}
    /\ MaxTick \in Nat /\ MaxCalls \in Nat /\ Modes \subseteq BOOLEAN \X BOOLEAN

\* A saved form is whatever its fields can hold (ParamLockSavedHeader).
ASSUME PresetAssumption ==
    \A preset \in Presets : \A k \in Slots :
        preset[k] \in [active : BOOLEAN, length : Nat, base : Nat, span : 0 .. MaxSpan]

VARIABLES
    down,           \* prev_pressed_: the trigger as last polled
    rising, falling, poisoned,          \* *_pending_, release_poisoned_
    release,        \* release_pending_ with release_consumed_: "none", "clean", "consumed"
    lock,           \* slots_ with their arena
    held, consumed, phase, baseline, taken,     \* of ParamLockManager
    heldPage,       \* held_offset_
    frozen, freezeTick,
    clocked, returns,                   \* sync_mode_ and exit_mode_
    gated, page, now, running,          \* Settings, the pager, and the musical clock
    tapped,         \* TakeCleanRelease answered true in this frame
    returned,       \* the slots whose stored value this frame's Return exit has written
    calls,          \* of others, so far
    \* history:
    armed,          \* slots armed by this hold and neither cleared nor loaded since
    press,          \* this press: "none", "clean", "acted" or "gated"
    owed,           \* a release since the last frame ended a clean press
    readable        \* at every store of the last step the audio interrupt could read the slots

trigger == <<down, rising, falling, poisoned>>
hold == <<held, consumed, phase, baseline, taken, heldPage>>
world == <<gated, page, now, running, frozen, freezeTick, clocked, returns>>
outcome == <<tapped, returned>>
vars == <<trigger, hold, lock, world, release, outcome, owed, calls, armed, press, readable>>

\* The frame is over: what it told the application and the pager is not told again.
ToldNothing == tapped' = FALSE /\ returned' = {}

LockTypeOK ==
    /\ down \in BOOLEAN /\ rising \in BOOLEAN /\ falling \in BOOLEAN /\ poisoned \in BOOLEAN
    /\ release \in {"none", "clean", "consumed"}
    /\ held \in BOOLEAN /\ consumed \in BOOLEAN /\ phase \in 0 .. One - 1
    /\ baseline \in [Pots -> Positions] /\ taken \in [Pots -> BOOLEAN] /\ heldPage \in Pages
    /\ lock \in [Slots -> Slot]
    /\ \A k \in Slots : lock[k].anchor <= MaxTick /\ ~(lock[k].active /\ lock[k].recording)
    /\ gated \in BOOLEAN /\ frozen \in BOOLEAN /\ clocked \in BOOLEAN /\ returns \in BOOLEAN
    /\ running \in BOOLEAN /\ owed \in BOOLEAN /\ press \in {"none", "clean", "acted", "gated"}
    /\ now \in 0 .. MaxTick /\ freezeTick \in 0 .. MaxTick /\ page \in Pages /\ calls \in Nat
    /\ armed \subseteq Slots

Init ==
    /\ down = FALSE /\ rising = FALSE /\ falling = FALSE /\ poisoned = FALSE
    /\ release = "none" /\ tapped = FALSE /\ returned = {} /\ owed = FALSE
    /\ lock = [k \in Slots |-> EmptySlot]
    /\ held = FALSE /\ consumed = FALSE /\ phase = 0
    /\ heldPage = Min(Pages) /\ baseline = [p \in Pots |-> Min(Positions)]
    /\ taken = [p \in Pots |-> FALSE]
    /\ frozen = FALSE /\ freezeTick = 0
    /\ \E m \in Modes : clocked = m[1] /\ returns = m[2]
    /\ gated = FALSE /\ page = heldPage /\ now = 0 /\ running \in BOOLEAN /\ calls = 0
    /\ armed = {} /\ press = "none" /\ readable = TRUE

\* The clock as the slots see it.
Clk == [now |-> now, running |-> running, clocked |-> clocked, wired |-> TRUE]

-----------------------------------------------------------------------------
(* Polls                                                                   *)

\* Mutant: a release under Settings is not noted at all.
PollSwallows ==
    /\ down' = ~down
    /\ rising' = (rising \/ (~down /\ ~gated))
    /\ falling' = (falling \/ (down /\ ~gated))
    /\ press' = IF down THEN "none" ELSE IF gated THEN "gated" ELSE "clean"
    /\ owed' = (owed \/ (down /\ ~gated /\ press = "clean"))
    /\ ToldNothing
    /\ readable' = TRUE
    /\ UNCHANGED <<hold, lock, world, release, calls, armed, poisoned>>

\* ParamLock::PollButtons, for a change of the trigger: a press counts only outside Settings,
\* a release always, but one under Settings is poisoned.
PollButtons ==
    /\ down' = ~down
    /\ rising' = (rising \/ (~down /\ ~gated))
    /\ falling' = (falling \/ down)
    /\ poisoned' = (poisoned \/ (down /\ gated))
    /\ press' = IF down THEN "none" ELSE IF gated THEN "gated" ELSE "clean"
    /\ owed' = (owed \/ (down /\ ~gated /\ press = "clean"))
    /\ ToldNothing
    /\ readable' = TRUE
    /\ UNCHANGED <<hold, lock, world, release, calls, armed>>

-----------------------------------------------------------------------------
(* The frame                                                               *)

\* An operation ran on every slot; could the audio interrupt read behind each of its stores?
Wrote(m, ran) ==
    [m EXCEPT !.lock = [k \in Slots |-> ran[k].slot],
              !.readable = @ /\ \A k \in Slots : ran[k].inside]

Manager ==
    [lock |-> lock, held |-> held, consumed |-> consumed, phase |-> phase,
     baseline |-> baseline, taken |-> taken, heldPage |-> heldPage,
     release |-> release, poisoned |-> poisoned, returned |-> {}, armed |-> armed, readable |-> TRUE]

\* ParamLockManager::Advance.
Advance(m, step) ==
    IF frozen THEN m
    ELSE Wrote(m, [k \in Slots |-> PlaySlot(Begin(m.lock[k]), step, Clk)])

\* The press edge: the bank is the one shown now.
OnButtonDown(m, phys) ==
    [m EXCEPT !.held = TRUE, !.phase = 0, !.baseline = phys, !.taken = [p \in Pots |-> FALSE],
              !.heldPage = page, !.armed = {}]

\* A Return exit writes the base of a slot whose lane acted in this hold and which now plays.
ReturnSet(m) ==
    IF m.consumed /\ returns
    THEN {k \in Slots : k[1] = m.heldPage /\ m.taken[k[2]] /\ m.lock[k].active}
    ELSE {}

\* Mutant: a release under the gate is classified like any other.
OnButtonUpForgivesGate(m) ==
    LET done == Wrote(m, [k \in Slots |-> Finalise(Begin(m.lock[k]), Clk)])
    IN  [done EXCEPT !.held = FALSE, !.consumed = FALSE, !.poisoned = FALSE,
                     !.release = IF ~m.held THEN @ ELSE IF m.consumed THEN "consumed" ELSE "clean"]

\* The release edge: takes are finalised, the release is classified, and a Return exit made.
OnButtonUp(m) ==
    LET done == Wrote(m, [k \in Slots |-> Finalise(Begin(m.lock[k]), Clk)])
        class == IF m.consumed THEN "consumed" ELSE "clean"
    IN  [done EXCEPT !.held = FALSE, !.consumed = FALSE, !.poisoned = FALSE,
                     !.release = IF m.held /\ ~m.poisoned THEN class ELSE @,
                     !.returned = ReturnSet(done),
                     \* what the next press overwrites before it is read
                     !.phase = 0, !.heldPage = Min(Pages), !.armed = {},
                     !.baseline = [p \in Pots |-> Min(Positions)],
                     !.taken = [p \in Pots |-> FALSE]]

Distance(a, b) == IF a > b THEN a - b ELSE b - a

\* Mutant: a nudge clears the pot's lock on any page.
ActsOnAnyPage(m, k, phys) ==
    /\ k[1] = m.heldPage \/ m.lock[k].active
    /\ ~m.lock[k].recording /\ ~m.taken[k[2]]
    /\ Distance(phys[k[2]], m.baseline[k[2]]) >= IF m.lock[k].active THEN ClearNudge ELSE 1

\* Does the pot of this slot arm or clear it in this frame?
Acts(m, k, phys) ==
    /\ k[1] = m.heldPage /\ ~m.lock[k].recording /\ ~m.taken[k[2]]
    /\ Distance(phys[k[2]], m.baseline[k[2]]) >= IF m.lock[k].active THEN ClearNudge ELSE 1

\* What a frame of the hold does to a slot: it is cleared or armed, then fed.
Gesture(m, k, phys, pending) ==
    LET run   == Begin(m.lock[k])
        begun == IF ~Acts(m, k, phys) THEN run
                 ELSE IF m.lock[k].active THEN ClearSlot(run)
                 ELSE ArmSlot(run, m.baseline[k[2]], Clk)
    IN  IF k[1] # m.heldPage \/ ~begun.slot.recording THEN begun
        ELSE EmitSamples(begun \odot <<"partial", TRUE>>, pending, Clk)

\* ParamLockManager::ProcessGestures.
ProcessGestures(m, phys, step) ==
    LET acting == {k \in Slots : Acts(m, k, phys)}
        pots   == {k[2] : k \in acting}
        fed    == Wrote(m, [k \in Slots |-> Gesture(m, k, phys, (m.phase + step) \div One)])
    IN  IF ~m.held THEN m
        ELSE [fed EXCEPT !.phase = (m.phase + step) % One,
                         !.consumed = @ \/ acting # {},
                         !.taken = [p \in Pots |-> @[p] \/ p \in pots],
                         !.baseline = [p \in Pots |-> IF p \in pots THEN phys[p] ELSE @[p]],
                         !.armed = @ \cup {k \in acting : ~m.lock[k].active}]

\* ParamLock::Update, which Settings suspends: a press comes before a release.
Update(m, phys, step) ==
    LET pressed  == IF rising THEN OnButtonDown(m, phys) ELSE m
        released == IF falling THEN OnButtonUp(pressed) ELSE pressed
    IN  IF gated THEN m ELSE ProcessGestures(released, phys, step)

\* ControlLoop::Tick's frame, and the application's hook asking for a clean release.
Frame(phys, step) ==
    \E m \in {Update(Advance(Manager, step), phys, step)} :
        /\ lock' = m.lock /\ held' = m.held /\ consumed' = m.consumed /\ phase' = m.phase
        /\ baseline' = m.baseline /\ taken' = m.taken /\ heldPage' = m.heldPage
        /\ poisoned' = m.poisoned /\ returned' = m.returned /\ armed' = m.armed
        /\ readable' = m.readable
        /\ rising' = (rising /\ gated) /\ falling' = (falling /\ gated)
        /\ tapped' = (~gated /\ m.release = "clean")
        /\ release' = IF gated THEN m.release ELSE "none"
        /\ press' = IF m.held /\ m.consumed THEN "acted" ELSE press
        /\ owed' = (owed /\ gated)
        /\ UNCHANGED <<down, world, calls>>

-----------------------------------------------------------------------------
(* What others do between two frames                                       *)

Call == calls < MaxCalls /\ calls' = calls + 1

Others(ran, cleared) ==
    \E m \in {Wrote(Manager, ran)} :
        /\ lock' = m.lock /\ readable' = m.readable
        /\ armed' = armed \ cleared
        /\ ToldNothing
        /\ UNCHANGED <<trigger, hold, release, owed, press>>

Only(changed) ==
    /\ changed
    /\ ToldNothing
    /\ readable' = TRUE
    /\ UNCHANGED <<trigger, hold, lock, release, owed, armed>>

\* Deserialize, from a preset load or a push of the host.
Deserialize(preset) ==
    /\ Call /\ Others([k \in Slots |-> RestoreSlot(Begin(lock[k]), preset[k])], Slots)
    /\ UNCHANGED world

\* ClearSlotAtPage, for the application.
ClearSlotAtPage(k) ==
    /\ lock[k] # EmptySlot
    /\ Call /\ Others([j \in Slots |-> LET run == Begin(lock[j]) IN IF j = k THEN ClearSlot(run) ELSE run], {k})
    /\ UNCHANGED world

Freeze ==
    /\ ~frozen /\ frozen' = TRUE /\ freezeTick' = now /\ Call
    /\ Only(UNCHANGED <<press, gated, page, now, running, clocked, returns>>)

Thaw ==
    /\ frozen /\ frozen' = FALSE /\ UNCHANGED calls
    /\ freezeTick' = 0      \* read only while frozen
    /\ Others([k \in Slots |-> SlideSlot(Begin(lock[k]), now - freezeTick, Clk)], {})
    /\ UNCHANGED <<gated, page, now, running, clocked, returns>>

\* Settings opens or closes; its page may then set the two modes.
ToggleSettings ==
    /\ gated' = ~gated /\ IF gated THEN UNCHANGED calls ELSE Call
    /\ Only(UNCHANGED <<press, page, now, running, frozen, freezeTick, clocked, returns>>)

SetModes ==
    /\ gated /\ UNCHANGED calls /\ \E m \in Modes : clocked' = m[1] /\ returns' = m[2]
    /\ Only(UNCHANGED <<press, gated, page, now, running, frozen, freezeTick>>)

GoToPage(p) ==
    /\ Call /\ p # page /\ page' = p
    /\ Only(UNCHANGED <<press, gated, now, running, frozen, freezeTick, clocked, returns>>)

\* MusicalClock as seen from the locks.
ClockTicks(n) ==
    /\ running /\ now + n <= MaxTick /\ now' = now + n /\ UNCHANGED calls
    /\ Only(UNCHANGED <<press, gated, page, running, frozen, freezeTick, clocked, returns>>)

ClockReset ==
    /\ Call /\ now # 0 /\ now' = 0
    /\ Only(UNCHANGED <<press, gated, page, running, frozen, freezeTick, clocked, returns>>)

ClockStartsOrStops ==
    /\ Call /\ running' = ~running
    /\ Only(UNCHANGED <<press, gated, page, now, frozen, freezeTick, clocked, returns>>)

Next ==
    \/ PollButtons
    \/ \E phys \in [Pots -> Positions], step \in Steps : Frame(phys, step)
    \/ \E preset \in Presets : Deserialize(preset)
    \/ \E k \in Slots : ClearSlotAtPage(k)
    \/ Freeze \/ Thaw
    \/ ToggleSettings \/ SetModes
    \/ \E p \in Pages : GoToPage(p)
    \/ \E n \in Gaps : ClockTicks(n)
    \/ ClockReset \/ ClockStartsOrStops

Spec == Init /\ [][Next]_vars
-----------------------------------------------------------------------------
(* Properties                                                              *)

\* Whatever store of the main loop the audio interrupt comes behind, a slot that is active has
\* a loop and the head stands inside it.
ReadsInsideLoop == readable /\ \A k \in Slots : InsideLoop(lock[k])

\* A hold outlives its press only until the next frame: no release is lost between two frames,
\* whichever side of Settings opening and closing it falls on.
HoldEnds == held => down \/ falling

\* The state is typed, the audio interrupt reads inside a loop (SampleAt), and no release
\* leaves a hold dangling (PollButtons).
LockInv == LockTypeOK /\ ReadsInsideLoop /\ HoldEnds

\* A take is never lost: a slot records only while the trigger is held, and unless it is
\* cleared or loaded meanwhile it ends as a loop, however short the hold or full the buffer.
TakeIsKept ==
    [][\A k \in Slots :
         /\ lock'[k].recording => held'
         /\ lock[k].recording /\ calls' = calls => lock'[k].recording \/ lock'[k].active]_vars

\* The application is told of a tap only if, since it was last told, a press outside Settings
\* that did nothing to any slot has ended outside Settings.  (A release and a new press between
\* two frames are taken for one press and its release, in that order.)
TapIsClean == [][tapped' => owed \/ (rising /\ falling /\ down)]_vars

\* A hold acts on the page that was shown when its press was noticed, wherever the pager goes.
\* No slot of another page starts to record or is cleared, except by a load or a clear that
\* was called for.
HoldStaysOnPage ==
    [][\A k \in Slots :
         LET begun   == ~lock[k].recording /\ lock'[k].recording
             cleared == lock[k].active /\ ~lock'[k].active /\ calls' = calls
         IN  begun \/ cleared => k[1] = IF rising THEN page ELSE heldPage]_vars

\* A tap is a press that did nothing else, a hold stays on the page of its press
\* (PollButtons, ProcessGestures).
PressesMeanOneThing == TapIsClean /\ HoldStaysOnPage

\* Clocked slots continue from where they were held.  If the clock is past the freeze, a thaw
\* puts the distance there was between anchor and freeze between the anchor and now, and a slot
\* anchored since the freeze starts now, not ahead of the clock; if the clock was reset and has
\* not come back to the freeze, no slot is touched.
ThawResumes ==
    [][(frozen /\ ~frozen') =>
         \A k \in Slots :
             lock[k].active /\ lock[k].span > 0 =>
             IF now <= freezeTick THEN lock'[k] = lock[k]
             ELSE now - lock'[k].anchor =
                    IF lock[k].anchor < freezeTick THEN freezeTick - lock[k].anchor ELSE 0]_vars

\* A clocked loop restarts on its own grid: playback moves its anchor by multiples of its span,
\* to the last one before now, and the head is at the start then and at no other time goes back.
\* (A load puts the anchor at the origin of the clock.)
RestartsOnGrid ==
    [][\A k \in Slots :
         LET was == lock[k] is == lock'[k]
         IN  was.active /\ is.active /\ was.span > 0 /\ is.span = was.span
             /\ was.anchor <= now /\ frozen' = frozen /\ is.anchor # 0
             => /\ (is.anchor - was.anchor) % was.span = 0
                /\ is.anchor # was.anchor => is.pos = 0 /\ now - is.anchor \in 0 .. was.span - 1
                /\ is.pos < was.pos => is.anchor # was.anchor]_vars

\* Clocked loops keep step through freezes and restarts (SetFrozen, Advance).
LoopsKeepStep == ThawResumes /\ RestartsOnGrid

\* What the comment in ParamLock::Update says of a Return exit: it writes the slots this hold
\* armed, since the slots it cleared ended inactive.
ReturnsWhatItArmed == [][returned' \subseteq armed]_vars
=============================================================================
