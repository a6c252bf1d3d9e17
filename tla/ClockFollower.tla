--------------------------- MODULE ClockFollower ---------------------------
(***************************************************************************)
(* The external clock (ClockFollower): an interrupt stamps pulses into a   *)
(* ring, the main loop's poll drains it, estimates the period, declares    *)
(* lock and loss, and steers the musical clock.                            *)
(*                                                                         *)
(* A poll samples the time first and works later: pulses may arrive in     *)
(* between.  What the smoothing of the period and the PI loop compute is   *)
(* left open within the limits the code clamps them to.                    *)
(***************************************************************************)
EXTENDS MusicalClock, Sequences, SequencesExt

CONSTANTS
    RingSize,       \* kPulseRingSize, a power of two
    Indices,        \* free-running indices wrap here: a multiple of RingSize
    MinPeriod, MaxPeriod,       \* the validity window, RecomputeLimits
    LockPulses, LossFactor,     \* kClockLockPulses, kClockLossFactor
    TicksPerPulse,
    Policies,       \* ClockLossPolicy values in use
    AutoStarts,     \* auto_start_ values in use
    MaxGap,         \* bound on the time between two polls
    MaxCalls        \* bound on how often the application calls

ASSUME FollowerAssumption ==
    /\ RingSize \in Nat \ {0} /\ Indices \in Nat /\ Indices % RingSize = 0 /\ Indices > RingSize
    /\ MinPeriod \in Nat \ {0} /\ MaxPeriod \in Nat /\ MaxPeriod >= MinPeriod
    /\ LockPulses \in Nat /\ LockPulses >= 2 /\ LossFactor \in Nat \ {0}
    /\ MaxGap \in Nat /\ MaxCalls \in Nat
    /\ Policies \subseteq {"Freewheel", "Freeze", "Stop"} /\ AutoStarts \subseteq BOOLEAN
    \* the rates that a period gives are among those of the clock
    /\ \A p \in MinPeriod .. MaxPeriod : (TicksPerPulse * One) \div p \in Rates
    \* a poll comes before a time since the last pulse can look negative
    /\ 2 * (LossFactor * MaxPeriod + MaxGap) < Wrap

VARIABLES
    sample,         \* now_us of the poll that runs, or of the last
    polling,        \* between the sample and the work of a poll
    ring, head, tail,       \* pulse_ring_, ring_head_, ring_tail_
    follower,       \* the follower's own state
    clock,          \* the musical clock it steers
    policy, autoStart,      \* loss_policy_, auto_start_
    calls,          \* of the application, so far
    \* history:
    deposited,      \* pulses that were put in the ring and neither drained nor discarded
    quiet,          \* time since the last pulse, up to LongAgo
    dropped         \* pulses newer than the newest in the ring did not fit

pulses == <<ring, head, tail>>
vars == <<sample, polling, pulses, follower, clock, policy, autoStart, calls,
          deposited, quiet, dropped>>

\* The present, in times as they are kept here.
Now == 0
Behind == Elapsed(Now, sample)

LongAgo == LossFactor * MaxPeriod + 2 * MaxGap + 1

RateOf(period) == (TicksPerPulse * One) \div period

ClockTypeOK ==
    /\ sample \in 0 .. Wrap - 1 /\ polling \in BOOLEAN
    /\ ring \in [0 .. RingSize - 1 -> 0 .. Wrap - 1]
    /\ head \in 0 .. Indices - 1 /\ tail \in 0 .. Indices - 1
    /\ follower.period \in 0 .. MaxPeriod /\ follower.count \in 0 .. LockPulses
    /\ clock.tick \in 0 .. Cycle - 1 /\ clock.frac \in 0 .. One - 1 /\ clock.rate \in Rates
    \* a locked follower can be lost: it has a stamp, an estimate, and nothing announced yet
    /\ follower.locked => /\ follower.enabled /\ follower.haveStamp /\ ~follower.announced
                          /\ follower.period > 0 /\ follower.count = LockPulses

EnabledFollower ==
    [enabled |-> TRUE, locked |-> FALSE, haveStamp |-> FALSE, stamp |-> 0,
     count |-> 0, period |-> 0, announced |-> FALSE]

\* What the next Enable resets is not read before.
DisabledFollower == [EnabledFollower EXCEPT !.enabled = FALSE]

\* Enable: the clock stands and waits for the lock.
TakenOver(c) == SetTicksPerUs(Stop(SetSteered(c, TRUE)), 0)

\* The application has enabled the follower before the loop starts, or not.
Init ==
    /\ sample = 0 /\ polling = FALSE
    /\ ring = [i \in 0 .. RingSize - 1 |-> 0] /\ head = 0 /\ tail = 0
    /\ LET beats == CHOOSE b \in BarLengths : \A o \in BarLengths : b >= o
       IN  \/ follower = EnabledFollower /\ clock = TakenOver(NewClock(beats, 0))
           \/ follower = DisabledFollower /\ clock = NewClock(beats, 0)
    /\ policy \in Policies /\ autoStart \in AutoStarts /\ calls = 0
    /\ deposited = <<>> /\ quiet = LongAgo /\ dropped = FALSE

-----------------------------------------------------------------------------
(* The interrupt                                                           *)

Queued == (head - tail) % Indices
Holds(cell) == \E n \in 0 .. Queued - 1 : cell = (tail + n) % RingSize

Full == Queued >= RingSize

\* OnPulse, with the present time as its stamp.
OnPulse ==
    /\ follower.enabled
    /\ quiet' = 0
    /\ dropped' = Full
    /\ IF Full THEN UNCHANGED <<ring, head, deposited>>
       ELSE /\ ring' = [ring EXCEPT ![head % RingSize] = Now]
            /\ head' = (head + 1) % Indices
            /\ deposited' = Append(deposited, Now)
    /\ UNCHANGED <<sample, polling, tail, follower, clock, policy, autoStart, calls>>

\* Time passes, with a poll at least every MaxGap.
Pass ==
    /\ Behind < MaxGap
    /\ sample' = Older(sample)
    /\ ring' = [i \in DOMAIN ring |-> IF Holds(i) THEN Older(ring[i]) ELSE ring[i]]
    /\ follower' = IF follower.haveStamp THEN [follower EXCEPT !.stamp = Older(@)] ELSE follower
    /\ clock' = Aged(clock)
    /\ deposited' = [i \in DOMAIN deposited |-> Older(deposited[i])]
    /\ quiet' = IF quiet < LongAgo THEN quiet + 1 ELSE quiet
    /\ UNCHANGED <<polling, head, tail, policy, autoStart, calls, dropped>>

-----------------------------------------------------------------------------
(* The poll                                                                *)

\* DeclareLock: follower and clock behind it.
DeclareLock(f, c) ==
    LET seeded == OrPendingEvent(SetTicksPerUs(c, RateOf(f.period)), "EXT_LOCK")
    IN  <<[f EXCEPT !.locked = TRUE], IF autoStart THEN Start(seeded) ELSE seeded>>

\* The smoothed period lies between the estimate and the new distance.
Smoothed(period, dt) ==
    IF period = 0 THEN {dt}
    ELSE IF period < dt THEN period .. dt ELSE dt .. period

Seeded(f, stamp) == [f EXCEPT !.stamp = stamp, !.haveStamp = TRUE, !.count = 1, !.announced = FALSE]

Extended(f, stamp, period) ==
    [f EXCEPT !.stamp = stamp, !.period = period, !.announced = FALSE,
              !.count = IF @ < LockPulses THEN @ + 1 ELSE @]

\* ConsumePulse: <<follower, clock, was it one more pulse under lock>>.
ConsumePulse(f, c, stamp) ==
    LET dt == Elapsed(stamp, f.stamp)
    IN  IF ~f.haveStamp THEN {<<Seeded(f, stamp), c, FALSE>>}
        ELSE IF dt < MinPeriod THEN {<<f, c, FALSE>>}
        ELSE IF dt > MaxPeriod
        THEN {<<Seeded([f EXCEPT !.locked = FALSE, !.period = 0], stamp), c, FALSE>>}
        ELSE {LET g == Extended(f, stamp, p)
              IN  IF ~f.locked /\ g.count >= LockPulses
                  THEN DeclareLock(g, c) \o <<FALSE>>
                  ELSE <<g, c, f.locked>> : p \in Smoothed(f.period, dt)}

\* The pulses up to the head seen at the start are consumed in order.
Drained ==
    LET upTo[n \in 0 .. Queued] ==
            IF n = 0 THEN {<<follower, clock, FALSE>>}
            ELSE UNION {{<<o[1], o[2], s[3] \/ o[3]>> :
                           o \in ConsumePulse(s[1], s[2], ring[(tail + n - 1) % RingSize])}
                        : s \in upTo[n - 1]}
    IN  upTo[Queued]

\* Mutant: a pulse stamped behind the sample is taken for a very old one.
LostUnsigned(f) ==
    /\ f.haveStamp /\ f.period > 0 /\ ~f.announced
    /\ Elapsed(sample, f.stamp) > f.period * LossFactor

\* Mutant: the factor is applied twice.
LostLate(f) ==
    LET since == Signed(Elapsed(sample, f.stamp))
    IN  f.haveStamp /\ f.period > 0 /\ ~f.announced /\ since > f.period * LossFactor * LossFactor

\* Is the external clock lost?
Lost(f) ==
    LET since == Signed(Elapsed(sample, f.stamp))
    IN  /\ f.haveStamp /\ f.period > 0 /\ ~f.announced
        /\ since > 0 /\ since > f.period * LossFactor

\* HandleLoss, with what the policy does to the clock.
HandleLoss(f, c) ==
    LET told == OrPendingEvent(c, "EXT_LOST")
    IN  <<[f EXCEPT !.locked = FALSE, !.haveStamp = FALSE, !.stamp = 0, !.count = 0,
                    !.announced = TRUE],
          CASE policy = "Freewheel" -> told
            [] policy = "Freeze"    -> SetTicksPerUs(told, 0)
            [] policy = "Stop"      -> Stop(told)>>

\* Update: <<follower, clock>> when the pulses are drained, a loss is handled and, under lock,
\* the rate is corrected.
UpdateOutcomes ==
    IF ~follower.enabled THEN {<<follower, clock>>}
    ELSE UNION {IF Lost(s[1]) THEN {HandleLoss(s[1], s[2])}
                ELSE IF s[1].locked /\ s[3]
                THEN {<<s[1], SetTicksPerUs(s[2], r)>> : r \in Rates}
                ELSE {<<s[1], s[2]>>} : s \in Drained}

\* The ring is empty; its cells are overwritten before they are read again.
Emptied == tail' = head /\ ring' = [i \in DOMAIN ring |-> 0] /\ deposited' = <<>>

\* A poll samples the time ...
BeginPoll ==
    /\ ~polling /\ Behind > 0
    /\ polling' = TRUE /\ sample' = Now
    /\ UNCHANGED <<pulses, follower, clock, policy, autoStart, calls,
                   deposited, quiet, dropped>>

\* ... and calls ClockFollower::Update and MusicalClock::Tick with it.
EndPoll ==
    /\ polling /\ polling' = FALSE
    /\ \E o \in UpdateOutcomes : follower' = o[1] /\ clock' = Tick(o[2], sample)
    /\ IF follower.enabled THEN Emptied ELSE UNCHANGED <<ring, tail, deposited>>
    /\ UNCHANGED <<sample, head, policy, autoStart, calls, quiet, dropped>>

-----------------------------------------------------------------------------
(* The application, between polls                                          *)

Call == ~polling /\ calls < MaxCalls /\ calls' = calls + 1

\* Enable, again: pulses from before are discarded.
Enable ==
    /\ Call
    /\ follower' = EnabledFollower
    /\ Emptied
    /\ clock' = TakenOver(clock)
    /\ UNCHANGED <<sample, polling, head, policy, autoStart, quiet, dropped>>

\* Disable
Disable ==
    /\ Call /\ follower.enabled
    /\ follower' = DisabledFollower
    /\ Emptied
    /\ clock' = SetSteered(clock, FALSE)
    /\ UNCHANGED <<sample, polling, head, policy, autoStart, quiet, dropped>>

\* SetExtPpqn, for another meaning of the same pulses: what was timed starts over.  The window
\* stays what it is here; RecomputeLimits scales it with the new meaning.
SetExtPpqn ==
    /\ Call /\ follower.haveStamp
    /\ follower' = [follower EXCEPT !.locked = FALSE, !.haveStamp = FALSE, !.stamp = 0, !.count = 0]
    /\ UNCHANGED <<sample, polling, pulses, clock, policy, autoStart, deposited, quiet, dropped>>

Calls(c) ==
    /\ Call /\ c # clock /\ clock' = c
    /\ UNCHANGED <<sample, polling, pulses, follower, policy, autoStart,
                   deposited, quiet, dropped>>

Next ==
    \/ OnPulse \/ Pass
    \/ BeginPoll \/ EndPoll
    \/ Enable \/ Disable \/ SetExtPpqn
    \/ Calls(Start(clock)) \/ Calls(Stop(clock)) \/ Calls(Reset(clock))
    \/ \E r \in Rates \ {0} : Calls(SetBpm(clock, r))
    \/ \E b \in BarLengths : Calls(SetTimeSignature(clock, b))

Spec == Init /\ [][Next]_vars
-----------------------------------------------------------------------------
(* Properties                                                              *)

\* The ring hands over each pulse it took once and in order, and what it holds is never
\* overwritten, also when the free-running indices wrap and the main loop stalls.
RingIsFifo ==
    /\ Queued <= RingSize
    /\ deposited = [i \in 1 .. Queued |-> ring[(tail + i - 1) % RingSize]]

\* A loss is announced only after as long a silence as the loss factor asks for, up to a glitch
\* that did not count, or when the ring was full.  Time wraps and pulses overtake the sample.
LossIsReal ==
    [][~follower.announced /\ follower'.announced =>
         dropped \/ quiet - Behind > LossFactor * follower'.period - MinPeriod]_vars

\* When the pulses cease, the lock ends within two polls of the time the loss factor allows.
LossIsPrompt == follower.locked => quiet <= LossFactor * follower.period + 2 * MaxGap

\* The policy Freeze: from a loss to the next lock the clock stands, whatever tempo is asked for.
FreezeHolds ==
    [][policy = "Freeze" /\ follower.enabled /\ follower'.enabled /\ ~follower'.locked
       /\ "EXT_LOCK" \notin clock'.events
       /\ (clock.rate = 0 \/ (follower'.announced /\ ~follower.announced))
       => clock'.rate = 0]_vars

WorkDone == polling /\ ~polling'

\* A start counts no time from before it: the position stands in the Tick that tells of it.
StartsFromNow ==
    [][WorkDone /\ "START" \in clock'.events /\ "RESET" \notin clock'.events
       => clock'.tick = clock.tick /\ clock'.frac = clock.frac]_vars

\* However many ticks a poll has to catch up with, each note value that began is told, and no
\* other.
EventsTell ==
    [][WorkDone /\ "RESET" \notin clock'.events =>
         LET passed == (clock'.tick - clock.tick) % Cycle
         IN  \A p \in Periods(clock.beats) :
               p \in clock'.notes <=> (clock.tick % p) + passed >= p]_vars
-----------------------------------------------------------------------------
\* The state is typed, the ring hands over in order what it took, a lock does not outlive its
\* pulses (OnPulse, Update).
ClockInv == ClockTypeOK /\ RingIsFifo /\ LossIsPrompt

\* Where the musical clock stands and what its Tick tells go together (AdvanceOnePpqnTick,
\* ApplyDeferredTransport, HandleLoss).
TickTells == FreezeHolds /\ StartsFromNow /\ EventsTell
=============================================================================
