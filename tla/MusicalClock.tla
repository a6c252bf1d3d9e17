---------------------------- MODULE MusicalClock ----------------------------
(***************************************************************************)
(* The musical timeline (MusicalClock): an oscillator that every poll adds *)
(* rate times elapsed time to its position and says which note values      *)
(* began.  Transport calls wait for the next Tick.                         *)
(*                                                                         *)
(* The state is one record, since ClockFollower works on it in the same    *)
(* step as Tick.  The position within a tick is counted in units of 1/One; *)
(* the master tick is kept modulo Cycle, which every period divides.  Of   *)
(* the event bits, `notes` has the note values and bars, by their period.  *)
(*                                                                         *)
(* Times are kept as how long ago they were, modulo Wrap, and grow as time *)
(* passes: the code only ever takes differences of its wrapping counters.  *)
(***************************************************************************)
EXTENDS Integers, FiniteSets

CONSTANTS
    Wrap,           \* 2^32 microseconds
    One,            \* units a tick
    Ppqn,           \* ticks a quarter
    BarLengths,     \* beats_per_bar values in use
    Bars,           \* numbers of bars that are told: 1, 2, 4 and 8
    Cycle,          \* a multiple of every period
    NotePeriods,    \* ticks of the note values that are represented
    Rates,          \* units a microsecond
    MaxTickDt       \* kClockMaxTickDtUs

ASSUME ClockAssumption ==
    /\ Wrap \in Nat \ {0} /\ One \in Nat \ {0} /\ Ppqn \in Nat \ {0} /\ MaxTickDt \in Nat
    /\ Cycle \in Nat \ {0}
    /\ BarLengths \subseteq Nat \ {0} /\ BarLengths # {}
    /\ NotePeriods \subseteq Nat \ {0} /\ Rates \subseteq Nat /\ 0 \in Rates
    /\ Bars \subseteq Nat \ {0} /\ 1 \in Bars
    /\ \A p \in NotePeriods : Cycle % p = 0
    /\ \A b \in BarLengths, n \in Bars : Cycle % (Ppqn * b * n) = 0
    \* a poll moves on by less than a cycle
    /\ \A r \in Rates : r * MaxTickDt + One <= Cycle * One

\* What the code's later - earlier is for two times: unsigned, and read as int32_t.
Elapsed(later, earlier) == (earlier - later) % Wrap
Signed(diff) == IF 2 * diff >= Wrap THEN diff - Wrap ELSE diff

\* bar_, beat_in_bar_, tick_in_beat_.
PositionOf(tick, beats) ==
    [bar |-> tick \div (Ppqn * beats), beat |-> (tick \div Ppqn) % beats, inBeat |-> tick % Ppqn]

NewClock(beats, rate) ==
    [tick |-> 0, frac |-> 0, rate |-> rate, at |-> [bar |-> 0, beat |-> 0, inBeat |-> 0],
     events |-> {}, notes |-> {}, running |-> FALSE, steered |-> FALSE, beats |-> beats,
     last |-> 0, haveLast |-> FALSE,
     start |-> FALSE, stop |-> FALSE, reset |-> FALSE, ext |-> {}]

\* A time, and the clock's, when one more microsecond has passed.
Older(time) == (time + 1) % Wrap
Aged(c) == IF c.haveLast THEN [c EXCEPT !.last = Older(@)] ELSE c

Start(c) == [c EXCEPT !.start = TRUE]
Stop(c)  == [c EXCEPT !.stop = TRUE]
Reset(c) == [c EXCEPT !.reset = TRUE]

\* SetBpm: ignored while a follower steers.
SetBpm(c, rate) == IF c.steered THEN c ELSE [c EXCEPT !.rate = rate]
SetTicksPerUs(c, rate) == [c EXCEPT !.rate = rate]
SetTimeSignature(c, beats) == [c EXCEPT !.beats = beats]
SetSteered(c, on) == [c EXCEPT !.steered = on]
OrPendingEvent(c, flag) == [c EXCEPT !.ext = @ \cup {flag}]

\* The note values and bars that begin with a tick.
Periods(beats) == NotePeriods \cup {Ppqn * beats * n : n \in Bars}
Begin(tick, beats) == {p \in Periods(beats) : tick % p = 0}

\* AdvanceOnePpqnTick: position and events for the present tick.
AdvanceOnePpqnTick(c) ==
    [c EXCEPT !.at = PositionOf(c.tick, c.beats), !.notes = @ \cup Begin(c.tick, c.beats)]

\* ApplyDeferredTransport: a reset, then a stop, then a start.
AfterReset(c) ==
    IF ~c.reset THEN c
    ELSE AdvanceOnePpqnTick([c EXCEPT !.tick = 0, !.frac = 0, !.reset = FALSE,
                                      !.events = @ \cup {"RESET"}])

AfterStop(c) ==
    IF ~c.stop THEN c
    ELSE [c EXCEPT !.running = FALSE, !.stop = FALSE, !.events = @ \cup {"STOP"}]

AfterStart(c) ==
    IF ~c.start THEN c
    ELSE [c EXCEPT !.running = TRUE, !.start = FALSE, !.haveLast = FALSE, !.last = 0,
                   !.events = @ \cup {"START"}]

ApplyDeferredTransport(c) == AfterStart(AfterStop(AfterReset(c)))

\* Mutant: only the last of the ticks of a poll tells its note values.
SteppedToLast(c, n) ==
    IF n = 0 THEN c ELSE AdvanceOnePpqnTick([c EXCEPT !.tick = (@ + n) % Cycle])

\* n ticks pass, each with its events.
Stepped(c, n) ==
    IF n = 0 THEN c
    ELSE LET end == (c.tick + n) % Cycle
         IN  [c EXCEPT !.tick = end, !.at = PositionOf(end, c.beats),
                       !.notes = @ \cup UNION {Begin(c.tick + k, c.beats) : k \in 1 .. n}]

\* Tick.
Tick(c, now) ==
    LET begun == ApplyDeferredTransport([c EXCEPT !.events = c.ext, !.notes = {}, !.ext = {}])
        moving == begun.running /\ begun.haveLast
        dt     == Elapsed(now, begun.last)
        frac   == begun.frac + begun.rate * IF dt > MaxTickDt THEN MaxTickDt ELSE dt
        seen   == [begun EXCEPT !.last = now, !.haveLast = TRUE]
    IN  IF moving THEN Stepped([seen EXCEPT !.frac = frac % One], frac \div One) ELSE seen
=============================================================================
