------------------------------- MODULE Indicators -------------------------------
(***************************************************************************)
(* Two lights that keep time from frame to frame: the clip indicator that   *)
(* the audio interrupt feeds (clip_indicator.cpp) and the pip that blinks   *)
(* on the beat (beat_pip.cpp).                                             *)
(*                                                                         *)
(* Process is the interrupt: the poll's calls do not run beside it, but it  *)
(* comes between their steps.  Times are whole milliseconds and the bucket  *)
(* is kept in shares 1 / WindowMs of a sample; floats are exact.            *)
(***************************************************************************)
EXTENDS Integers

CONSTANTS
    MinClipped,     \* min_clipped_samples_
    WindowMs, HoldMs,
    Wrap,           \* 2^32
    MostHits,       \* bound: probes of a block that clip
    Frames,         \* time from a frame to the next
    Periods,        \* beat periods
    Threshold,      \* beat_threshold_ms
    OnWindow,       \* on_window_ms
    MaxBeats        \* bound: time that a beat is followed

\* Suppression and Hold bound what they are given; a beat that blinks lasts two milliseconds.
ASSUME IndicatorAssumption ==
    /\ {MinClipped, WindowMs, Wrap, OnWindow} \subseteq Nat \ {0} /\ Threshold \in Nat \ {0, 1}
    /\ HoldMs \in Nat /\ MostHits \in Nat /\ Frames \subseteq Nat \ {0} /\ Periods \subseteq Nat

VARIABLES
    clip,           \* ClipIndicator: clip_count_ and the poll's members
    poll,           \* where the poll is in a call of it
    account,        \* history: owed samples, samples up to an age in ms, ms since the last trigger
    beat,           \* BeatPip
    steady          \* history: [period, elapsed, beats] since its last change, ms `since` the
                    \* pip was last lit and the period it was lit in

clipVars == <<clip, poll, account>>
beatVars == <<beat, steady>>

Least(a, b) == IF a < b THEN a ELSE b
Most(a, b) == IF a < b THEN b ELSE a

-----------------------------------------------------------------------------
(* The clip indicator                                                      *)

\* What a hit stands for.
Stride == Most(1, Least(MinClipped \div 2, 16))
Brim == MinClipped * WindowMs

\* Never: not triggered since the reset.
Never == HoldMs + 1
Unheard == [owed |-> 0, upTo |-> [age \in 0 .. WindowMs - 1 |-> 0], since |-> Never]

ClipInit ==
    /\ clip = [count |-> 0, seen |-> 0, credit |-> 0, hold |-> 0, lit |-> FALSE, enabled |-> TRUE]
    /\ poll = [at |-> "idle", now |-> 0, dt |-> 0] /\ account = Unheard

\* Process, of a block in which hits probes clip.
Process(hits) ==
    /\ clip.enabled /\ account.owed + hits * Stride < Wrap
    /\ clip' = [clip EXCEPT !.count = (@ + hits * Stride) % Wrap]
    /\ account' = [account EXCEPT !.owed = @ + hits * Stride]
    /\ UNCHANGED poll

\* Mutant: the count is read once more.
SeenLate == clip.count

\* The count as it was read.
SeenCount == poll.now

TickBegins(dt) ==
    /\ poll.at = "idle" /\ clip.enabled
    /\ poll' = [at |-> "tick", now |-> clip.count, dt |-> dt]
    /\ account' = [account EXCEPT !.owed = 0]
    /\ UNCHANGED clip

Refilled(credit, fresh) == Least(credit + fresh * WindowMs, Brim)

\* Samples that have come to the window, by how old their frames are at most.
Recent(upTo, dt, fresh) ==
    [age \in DOMAIN upTo |-> fresh + IF age >= dt THEN upTo[age - dt] ELSE 0]

TickEnds ==
    /\ poll.at = "tick"
    /\ LET fresh  == (poll.now - clip.seen) % Wrap
           credit == Refilled(Most(0, clip.credit - MinClipped * poll.dt), fresh)
           fires  == credit >= Brim
           hold   == IF fires THEN HoldMs ELSE Most(0, clip.hold - poll.dt)
       IN  /\ clip' = [clip EXCEPT !.seen = SeenCount, !.credit = credit, !.hold = hold,
                                   !.lit = fires \/ hold > 0]
           /\ account' = [account EXCEPT !.upTo = Recent(@, poll.dt, fresh),
                                        !.since = IF fires THEN 0 ELSE Least(Never, @ + poll.dt)]
    /\ poll' = [at |-> "idle", now |-> 0, dt |-> 0]

\* SetEnabled writes its flag before Reset.
SetEnabled(on) ==
    /\ poll.at = "idle"
    /\ clip' = [clip EXCEPT !.enabled = on] /\ poll' = [poll EXCEPT !.at = "reset"]
    /\ UNCHANGED account

ResetClip ==
    /\ poll.at \in {"idle", "reset"}
    /\ clip' = [clip EXCEPT !.seen = clip.count, !.credit = 0, !.hold = 0, !.lit = FALSE]
    /\ poll' = [poll EXCEPT !.at = "idle"] /\ account' = Unheard

ClipNext ==
    \/ \E hits \in 0 .. MostHits : Process(hits)
    \/ \E dt \in Frames : TickBegins(dt)
    \/ TickEnds
    \/ \E on \in BOOLEAN : SetEnabled(on)
    \/ ResetClip

-----------------------------------------------------------------------------
(* The beat                                                                *)

Unsteady == [period |-> 0, elapsed |-> 0, beats |-> 0, since |-> 0, lit |-> 0]

BeatInit ==
    /\ beat = [phase |-> 0, left |-> 0, period |-> 0, blinking |-> FALSE]
    /\ steady = Unsteady

OnMs(period) == Least(OnWindow, period \div 2)

\* Mutant: a beat starts the phase anew.
Restarted(phase, period) == 0

\* What is left of the phase after the beats in it.
Remainder(phase, period) == phase % period

ResetBeat ==
    /\ beat' = [beat EXCEPT !.phase = 0, !.left = 0, !.blinking = FALSE]
    /\ steady' = Unsteady

TickBeat(dt, period) ==
    LET phase == dt + IF beat.blinking THEN beat.phase ELSE 0
        beats == phase \div period
        starts == ~beat.blinking
        runs  == steady.period = period /\ ~starts
        slow  == period >= Threshold
    IN  /\ steady.period = period => steady.elapsed + dt <= MaxBeats
        /\ beat' = IF ~slow THEN [phase |-> 0, left |-> 0, period |-> period, blinking |-> FALSE]
                   ELSE [phase |-> IF beats > 0 THEN Remainder(phase, period) ELSE phase,
                         left |-> IF starts \/ beats > 0 THEN OnMs(period) ELSE Most(0, beat.left - dt),
                         period |-> period, blinking |-> TRUE]
        /\ steady' = IF ~slow THEN Unsteady
                     ELSE [period  |-> period,
                           elapsed |-> IF runs THEN steady.elapsed + dt ELSE IF starts THEN dt ELSE 0,
                           beats   |-> IF runs THEN steady.beats + beats ELSE IF starts THEN beats ELSE 0,
                           since   |-> IF starts \/ beats > 0 THEN 0 ELSE steady.since + dt,
                           lit     |-> IF starts \/ beats > 0 THEN period ELSE steady.lit]

\* Draw, as to the light: in the fast regime the pip glows.
PipLit == beat.period < Threshold \/ beat.left > 0

BeatNext == ResetBeat \/ \E dt \in Frames, period \in Periods : TickBeat(dt, period)

-----------------------------------------------------------------------------
(* Properties                                                              *)

\* No sample that the interrupt counts is lost or counted twice between two frames or over the
\* wrap; the light fires on nothing less than MinClipped samples within the window, however the
\* load came before; and once fired it stays for the hold and no longer (Process, Tick, Reset).
ClippingShows ==
    /\ poll.at # "reset" /\ clip.enabled =>
         (clip.count - (IF poll.at = "tick" THEN poll.now ELSE clip.seen)) % Wrap = account.owed
    /\ account.since = 0 => account.upTo[WindowMs - 1] >= MinClipped
    /\ poll.at # "reset" => (clip.lit <=> account.since < Most(1, HoldMs))

\* While the period stays, the beats come at its multiples, whatever the frames, and each lights the
\* pip at once and for no more than half of the period it comes in (BeatPip::Tick).
BeatKeepsTime ==
    steady.period > 0 =>
      /\ beat.phase < steady.period
      /\ steady.beats * steady.period + beat.phase >= steady.elapsed
      /\ steady.since = 0 => PipLit
      /\ 2 * steady.since >= steady.lit => ~PipLit
=============================================================================
