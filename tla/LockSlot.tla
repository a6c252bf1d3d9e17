------------------------------ MODULE LockSlot ------------------------------
(***************************************************************************)
(* One slot of the param locks: the loop recorded from one pot of one page *)
(* (ParamLockSlot and the functions of ParamLockManager that work on one). *)
(*                                                                         *)
(* The main loop changes a slot field by field while the audio interrupt   *)
(* may read it between any two stores, so an operation is written store by *)
(* store and remembers whether the slot could be read behind each of them. *)
(*                                                                         *)
(* Sample values are left out; what is kept is how many there are, where   *)
(* the play head stands, and whether frames wait to be averaged.           *)
(***************************************************************************)
EXTENDS Integers, Sequences, FiniteSetsExt, SequencesExt

CONSTANTS
    Stride,         \* samples reserved for a slot
    One,            \* a whole sample in units of the play head (2^16)
    Ppqn,           \* clock ticks a quarter
    BeatsPerBar,
    Families,       \* LockGrid: which note values a length may snap to
    MaxSpan         \* kLockSnapMaxTicks

ASSUME SlotAssumption ==
    /\ Stride \in Nat \ {0} /\ One \in Nat \ {0}
    /\ Ppqn \in Nat \ {0} /\ BeatsPerBar \in Nat \ {0} /\ MaxSpan \in Nat
    /\ Families \subseteq {"straight", "triplet", "dotted"}

-----------------------------------------------------------------------------
(* The snap of a length to the musical grid                                *)

\* LockGrid's families as fractions of a quarter: <<numerator, denominator>>.
NoteValues == [straight |-> <<<<1, 4>>, <<1, 2>>, <<1, 1>>, <<2, 1>>, <<4, 1>>>>,
               triplet  |-> <<<<1, 6>>, <<1, 3>>, <<2, 3>>, <<4, 3>>, <<8, 3>>>>,
               dotted   |-> <<<<3, 8>>, <<3, 4>>, <<3, 2>>, <<3, 1>>, <<6, 1>>>>]

\* The note values of a family, in the order they are considered; 0 is not: the family is not
\* enabled, or its note is not a whole number of ticks.
NotesOf(f) ==
    [i \in 1 .. 5 |-> LET ticks == Ppqn * NoteValues[f][i][1] den == NoteValues[f][i][2]
                      IN  IF f \in Families /\ ticks % den = 0 THEN ticks \div den ELSE 0]

\* The bars that are considered for a take: up to the first that is as long.
BarsFor(take) ==
    LET bar == Ppqn * BeatsPerBar
        upTo == Min({MaxSpan \div bar, 1 + (take - 1) \div bar})
    IN  [k \in 1 .. upTo |-> k * bar]

\* Is `c` a better fit for the take than `best`, by the ratio of the longer to the shorter?
Closer(take, c, best) ==
    LET long(x)  == IF take > x THEN take ELSE x
        short(x) == IF take > x THEN x ELSE take
    IN  long(c) * short(best) < long(best) * short(c)

\* What the length of a take may snap to, and where among it the best fits stand.
Candidates(take) == NotesOf("straight") \o NotesOf("triplet") \o NotesOf("dotted") \o BarsFor(take)
BestFits(take) ==
    LET c    == Candidates(take)
        fits == {i \in DOMAIN c : c[i] \in 1 .. MaxSpan}
    IN  {i \in fits : \A j \in fits : ~Closer(take, c[j], c[i])}

\* LockSnapTicks: the length in ticks a take is given, of the best fits the first that is
\* considered, 0 if it is to run free.
LockSnapTicks(take) ==
    IF take <= 0 \/ take > MaxSpan \/ BestFits(take) = {} THEN 0
    ELSE Candidates(take)[Min(BestFits(take))]

-----------------------------------------------------------------------------
(* A slot and its stores                                                   *)

\* ParamLockSlot: `pos` is play_pos in units of 1/One of a sample, `span` is musical_ticks,
\* `partial` says that rec_count frames wait to become a sample.
Slot == [active : BOOLEAN, recording : BOOLEAN, length : 0 .. Stride, pos : 0 .. Stride * One - 1,
         base : Nat, span : 0 .. MaxSpan, partial : BOOLEAN, anchor : Nat]

EmptySlot == [active |-> FALSE, recording |-> FALSE, length |-> 0, pos |-> 0, base |-> 0,
              span |-> 0, partial |-> FALSE, anchor |-> 0]

\* What Read relies on in the audio interrupt: it divides by the length of an active slot and
\* indexes with its head.
InsideLoop(lk) == lk.active => lk.length \in 1 .. Stride /\ lk.pos < lk.length * One

\* An operation under way: the slot as its stores so far leave it, and whether it was inside
\* its loop behind every one of them.
Begin(lk) == [slot |-> lk, inside |-> TRUE]
run \odot store ==
    LET next == [run.slot EXCEPT ![store[1]] = store[2]]
    IN  [slot |-> next, inside |-> run.inside /\ InsideLoop(next)]

\* ClearSlot: `active` drops first.
ClearSlot(run) ==
    run \odot <<"active", FALSE>> \odot <<"recording", FALSE>> \odot <<"length", 0>>
        \odot <<"pos", 0>> \odot <<"base", 0>> \odot <<"span", 0>>
        \odot <<"partial", FALSE>> \odot <<"anchor", 0>>

\* Mutant: `active` goes first.
RestoreActiveFirst(run, saved) ==
    LET cleared == ClearSlot(run)
    IN  IF ~saved.active \/ saved.length \notin 1 .. Stride THEN cleared
        ELSE cleared \odot <<"active", TRUE>> \odot <<"length", saved.length>>
                     \odot <<"base", saved.base>> \odot <<"span", saved.span>>

\* RestoreSlot: a cleared slot is rebuilt from the saved form, `active` last.
RestoreSlot(run, saved) ==
    LET cleared == ClearSlot(run)
    IN  IF ~saved.active \/ saved.length \notin 1 .. Stride THEN cleared
        ELSE cleared \odot <<"length", saved.length>> \odot <<"base", saved.base>>
                     \odot <<"span", saved.span>> \odot <<"active", TRUE>>

\* ProcessGestures arms a slot: it starts afresh, with the pot's baseline as its base.
ArmSlot(run, base, clk) ==
    ClearSlot(run) \odot <<"recording", TRUE>> \odot <<"base", base>> \odot <<"anchor", clk.now>>

\* ActivateSlot: what was recorded starts to play; with the clock running in clocked mode its
\* length snaps to the grid and it is anchored here.
ActivateSlot(run, clk) ==
    LET lk    == run.slot
        reset == run \odot <<"recording", FALSE>> \odot <<"pos", 0>>
                     \odot <<"partial", FALSE>> \odot <<"span", 0>>
        timed == IF clk.clocked /\ clk.running /\ lk.length > 0
                 THEN reset \odot <<"span", LockSnapTicks(clk.now - lk.anchor)>>
                            \odot <<"anchor", clk.now>>
                 ELSE reset
    IN  timed \odot <<"active", lk.length > 0>>

\* EmitSample, n times while the slot records: the frames that wait become a sample, further
\* ones repeat it, and a full buffer starts to play.
EmitSamples(run, n, clk) ==
    LET length == Min({run.slot.length + n, Stride})
        fed    == run \odot <<"length", length>> \odot <<"partial", FALSE>>
    IN  IF n = 0 THEN run ELSE IF length < Stride THEN fed ELSE ActivateSlot(fed, clk)

\* Mutant: a take shorter than a sample is not flushed.
FinaliseUnflushed(run, clk) == IF run.slot.recording THEN ActivateSlot(run, clk) ELSE run

\* Finalise: the frames in flight become a last sample, then the slot plays.
Finalise(run, clk) ==
    LET lk      == run.slot
        flushed == IF lk.partial /\ lk.length < Stride THEN EmitSamples(run, 1, clk) ELSE run
    IN  IF ~lk.recording THEN run
        ELSE IF flushed.slot.recording THEN ActivateSlot(flushed, clk) ELSE flushed

\* Advance: the head of a free loop goes round; a clocked one starts again at each multiple
\* of its span and else plays on to its last sample.
PlayFree(run, step) ==
    LET pos == run.slot.pos + step
    IN  run \odot <<"pos", (((pos \div One) % run.slot.length) * One) + (pos % One)>>

\* Mutant: the loop is anchored where its restart was noticed, and drifts.
ClockedDrifts(run, step, clk) ==
    LET lk == run.slot
    IN  IF clk.now - lk.anchor >= lk.span
        THEN run \odot <<"anchor", clk.now>> \odot <<"pos", 0>>
        ELSE run \odot <<"pos", Min({lk.pos + step, (lk.length - 1) * One})>>

PlayClocked(run, step, clk) ==
    LET lk      == run.slot
        anchor  == IF clk.now < lk.anchor THEN clk.now ELSE lk.anchor
        elapsed == clk.now - anchor
    IN  IF ~clk.running THEN run
        ELSE IF elapsed >= lk.span
        THEN run \odot <<"anchor", anchor + lk.span * (elapsed \div lk.span)>> \odot <<"pos", 0>>
        ELSE run \odot <<"anchor", anchor>>
                 \odot <<"pos", Min({lk.pos + step, (lk.length - 1) * One})>>

PlaySlot(run, step, clk) ==
    LET lk == run.slot
    IN  IF ~lk.active \/ lk.length = 0 THEN run
        ELSE IF lk.span > 0 /\ clk.wired THEN PlayClocked(run, step, clk)
        ELSE PlayFree(run, step)

\* Mutant: a loop anchored during the freeze is slid ahead of the clock.
SlideUnclamped(run, gap, clk) ==
    LET lk == run.slot
    IN  IF ~lk.active \/ lk.span = 0 \/ gap <= 0 THEN run
        ELSE run \odot <<"anchor", lk.anchor + gap>>

\* SetFrozen(false): a clocked loop is slid by the time it was held, but never past now.
SlideSlot(run, gap, clk) ==
    LET lk == run.slot
    IN  IF ~lk.active \/ lk.span = 0 \/ gap <= 0 THEN run
        ELSE run \odot <<"anchor", Min({lk.anchor + gap, clk.now})>>
=============================================================================
