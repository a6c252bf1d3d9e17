----------------------------- MODULE Clock_proofs -----------------------------
(***************************************************************************)
(* Proofs about ClockFollower and MusicalClock.                            *)
(***************************************************************************)
EXTENDS ClockFollower, SequenceTheorems, WellFoundedInduction, TLAPS

-----------------------------------------------------------------------------
(* Numbers                                                                 *)

\* A nonempty set of numbers has a least.
LEMMA Least ==
  ASSUME NEW T \in SUBSET Nat, T # {}
  PROVE  \E x \in T : \A y \in T : x <= y
<1>. DEFINE R == {ss \in Nat \X Nat : ss[1] < ss[2]}
<1>1. IsWellFoundedOn(R, Nat)
  BY NatLessThanWellFounded DEF OpToRel
<1>2. PICK x \in T : \A y \in T : <<y, x>> \notin R
  <2>. HIDE DEF R
  <2>. QED
    BY <1>1, WFMin
<1>3. ASSUME NEW y \in T PROVE x <= y
  <2>1. <<y, x>> \in Nat \X Nat /\ <<y, x>>[1] = y /\ <<y, x>>[2] = x
    OBVIOUS
  <2>2. ~(y < x)
    BY <1>2, <2>1
  <2>3. QED
    BY <2>2
<1>4. QED
  BY <1>3

LEMMA ModRange ==
  ASSUME NEW m \in Nat \ {0}, NEW a \in Int
  PROVE  /\ (a % m) \in 0 .. m - 1 /\ a \div m \in Int
         /\ a = m * (a \div m) + (a % m)
OBVIOUS

LEMMA ModOf ==
  ASSUME NEW m \in Nat \ {0}, NEW q \in Int, NEW r \in 0 .. m - 1, NEW a \in Int, a = m * q + r
  PROVE  a % m = r /\ a \div m = q
OBVIOUS

\* The remainders of the numbers next to a range.
LEMMA ModNear ==
  ASSUME NEW m \in Nat \ {0}, NEW a \in Int
  PROVE  /\ a \in 0 .. m - 1 => a % m = a
         /\ a < 0 /\ a + m >= 0 => a % m = a + m
         /\ a \in m .. 2 * m - 1 => a % m = a - m
OBVIOUS

\* A remainder's remainder by a divisor.
LEMMA ModTwice ==
  ASSUME NEW n \in Nat \ {0}, NEW m \in Nat \ {0}, n % m = 0, NEW a \in Int
  PROVE  (a % n) % m = a % m
<1>1. PICK q \in Int : a = n * q + (a % n)
  BY ModRange
<1>2. PICK k \in Int : n = m * k
  <2>1. n = m * (n \div m) + (n % m) /\ n \div m \in Int
    BY ModRange
  <2>2. QED
    BY <2>1
<1>3. PICK b \in Int : b = a % n
  BY ModRange
<1>4. PICK j \in Int, r \in 0 .. m - 1 : b = m * j + r /\ r = b % m
  BY <1>3, ModRange
<1>5. PICK h \in Int : h = k * q + j
  BY <1>1, <1>2, <1>4
<1>6. n * q = m * (k * q)
  BY <1>1, <1>2
<1>7. m * h = m * (k * q) + m * j
  BY <1>1, <1>2, <1>4, <1>5
<1>8. a = m * h + r
  <2>. DEFINE nq == n * q
              mkq == m * (k * q)
              mj == m * j
              mh == m * h
  <2>1. nq \in Int /\ mkq \in Int /\ mj \in Int /\ mh \in Int /\ r \in Int /\ b \in Int
    BY <1>1, <1>2, <1>3, <1>4, <1>5
  <2>2. a = nq + b /\ b = mj + r /\ nq = mkq /\ mh = mkq + mj
    BY <1>1, <1>3, <1>4, <1>6, <1>7
  <2>. HIDE DEF nq, mkq, mj, mh
  <2>3. a = mh + r
    BY <2>1, <2>2
  <2>4. QED
    BY <2>3 DEF mh
<1>9. h \in Int /\ r \in 0 .. m - 1
  BY <1>4, <1>5
<1>10. a % m = r
  BY <1>8, <1>9, ModOf
<1>11. QED
  BY <1>3, <1>4, <1>10

\* A period begins among n steps exactly when they fill what is left of one.
LEMMA Passed ==
  ASSUME NEW p \in Nat \ {0}, NEW t \in Nat, NEW n \in Nat
  PROVE  (\E k \in 1 .. n : (t + k) % p = 0) <=> (t % p) + n >= p
<1>. DEFINE q == t \div p
            r == t % p
<1>1. q \in Int /\ r \in 0 .. p - 1 /\ t = p * q + r
  BY ModRange
<1>. HIDE DEF q, r
<1>2. ASSUME r + n >= p PROVE \E k \in 1 .. n : (t + k) % p = 0
  <2>1. p - r \in 1 .. n
    BY <1>1, <1>2
  <2>2. t + (p - r) = p * (q + 1) + 0
    <3>1. p * (q + 1) = p * q + p
      BY <1>1
    <3>2. QED
      BY <1>1, <3>1
  <2>3. (t + (p - r)) % p = 0
    BY <1>1, <2>1, <2>2, ModOf
  <2>4. QED
    BY <2>1, <2>3
<1>3. ASSUME NEW k \in 1 .. n, (t + k) % p = 0 PROVE r + n >= p
  <2>1. PICK m \in Int : t + k = p * m
    <3>1. t + k = p * ((t + k) \div p) + ((t + k) % p) /\ (t + k) \div p \in Int
      BY ModRange
    <3>2. QED
      BY <1>3, <3>1
  <2>2. p * m = p * q + r + k /\ r + k > 0
    BY <1>1, <2>1
  <2>3. CASE m <= q
    <3>1. p * m <= p * q
      BY <1>1, <2>3
    <3>2. QED
      BY <1>1, <2>2, <3>1
  <2>4. CASE m >= q + 1
    <3>1. p * m >= p * (q + 1) /\ p * (q + 1) = p * q + p
      BY <1>1, <2>4
    <3>2. QED
      BY <1>1, <2>2, <3>1
  <2>5. QED
    BY <1>1, <2>3, <2>4
<1>4. QED
  BY <1>2, <1>3 DEF r

-----------------------------------------------------------------------------
(* The pulses that a poll consumes                                         *)

\* What n pulses make of a state, and one more of that.
Consumed(states, n) ==
  UNION {{<<o[1], o[2], s[3] \/ o[3]>> :
            o \in ConsumePulse(s[1], s[2], ring[(tail + n - 1) % RingSize])} : s \in states}

Drains(g, n) ==
  g = [i \in 0 .. n |-> IF i = 0 THEN {<<follower, clock, FALSE>>} ELSE Consumed(g[i - 1], i)]

LEMMA DrainsExist == ASSUME NEW n \in Nat PROVE \E g : Drains(g, n)
<1>. DEFINE T == {i \in Nat : ~\E g : Drains(g, i)}
<1>1. ASSUME T # {} PROVE FALSE
  <2>1. PICK x \in T : \A y \in T : x <= y
    BY <1>1, Least
  <2>2. CASE x = 0
    <3>. DEFINE g == [i \in 0 .. 0 |-> {<<follower, clock, FALSE>>}]
    <3>1. Drains(g, 0)
      BY DEF Drains
    <3>2. QED
      BY <2>1, <2>2, <3>1
  <2>3. CASE x # 0
    <3>1. x - 1 \in Nat /\ x - 1 \notin T
      BY <2>1, <2>3
    <3>2. PICK g : Drains(g, x - 1)
      BY <3>1
    <3>. DEFINE h == [i \in 0 .. x |-> IF i < x THEN g[i] ELSE Consumed(g[x - 1], x)]
    <3>3. Drains(h, x)
      <4>1. \A i \in 0 .. x - 1 : h[i] = g[i]
        BY <2>1
      <4>2. \A i \in 0 .. x - 1 :
              g[i] = IF i = 0 THEN {<<follower, clock, FALSE>>} ELSE Consumed(g[i - 1], i)
        BY <3>2 DEF Drains
      <4>3. \A i \in 0 .. x :
              h[i] = IF i = 0 THEN {<<follower, clock, FALSE>>} ELSE Consumed(h[i - 1], i)
        <5>1. h[x] = Consumed(g[x - 1], x) /\ h[x - 1] = g[x - 1]
          BY <3>1, <4>1
        <5>. HIDE DEF h
        <5>2. ASSUME NEW i \in 0 .. x, i # x
              PROVE  h[i] = IF i = 0 THEN {<<follower, clock, FALSE>>} ELSE Consumed(h[i - 1], i)
          <6>1. i \in 0 .. x - 1 /\ h[i] = g[i]
            BY <3>1, <4>1, <5>2
          <6>2. i # 0 => i - 1 \in 0 .. x - 1 /\ h[i - 1] = g[i - 1]
            BY <3>1, <4>1, <6>1
          <6>3. QED
            BY <4>2, <6>1, <6>2
        <5>3. h[x] = Consumed(h[x - 1], x)
          BY <5>1
        <5>4. QED
          BY <2>1, <2>3, <5>2, <5>3
      <4>4. h = [i \in 0 .. x |-> IF i = 0 THEN {<<follower, clock, FALSE>>} ELSE Consumed(h[i - 1], i)]
        <5>1. h = [i \in 0 .. x |-> h[i]]
          OBVIOUS
        <5>. HIDE DEF h
        <5>. DEFINE e == [i \in 0 .. x |-> IF i = 0 THEN {<<follower, clock, FALSE>>}
                                         ELSE Consumed(h[i - 1], i)]
        <5>2. \A i \in 0 .. x : h[i] = e[i]
          BY <4>3
        <5>3. e = [i \in 0 .. x |-> e[i]]
          OBVIOUS
        <5>. HIDE DEF e
        <5>4. h = e
          BY <5>1, <5>2, <5>3
        <5>5. QED
          BY <5>4 DEF e
      <4>5. QED
        BY <4>4 DEF Drains
    <3>4. QED
      BY <2>1, <3>3
  <2>4. QED
    BY <2>2, <2>3
<1>2. QED
  BY <1>1

LEMMA DrainedIs ==
  ASSUME Queued \in Nat
  PROVE  \E g : Drains(g, Queued) /\ Drained = g[Queued]
<1>. DEFINE u == CHOOSE g : Drains(g, Queued)
<1>1. Drains(u, Queued)
  BY DrainsExist
<1>2. Drained = u[Queued]
  BY DEF Drained, Drains, Consumed
<1>3. QED
  BY <1>1, <1>2


-----------------------------------------------------------------------------
(* The musical clock                                                       *)

External == {"EXT_LOCK", "EXT_LOST"}
Events   == {"RESET", "STOP", "START"} \cup External
Places   == [bar : Nat, beat : Nat, inBeat : Nat]

Clocks ==
  [tick : 0 .. Cycle - 1, frac : 0 .. One - 1, rate : Rates, at : Places,
   events : SUBSET Events, notes : SUBSET Nat, running : BOOLEAN, steered : BOOLEAN,
   beats : BarLengths, last : 0 .. Wrap - 1, haveLast : BOOLEAN,
   start : BOOLEAN, stop : BOOLEAN, reset : BOOLEAN, ext : SUBSET External]

LEMMA ClockConstants ==
  /\ Wrap \in Nat \ {0} /\ One \in Nat \ {0} /\ Ppqn \in Nat \ {0} /\ Cycle \in Nat \ {0}
  /\ MaxTickDt \in Nat /\ Rates \subseteq Nat /\ 0 \in Rates
  /\ NotePeriods \subseteq Nat \ {0} /\ BarLengths \subseteq Nat \ {0}
  /\ \A r \in Rates : r * MaxTickDt + One <= Cycle * One
  /\ 0 \in 0 .. Cycle - 1 /\ 0 \in 0 .. One - 1 /\ 0 \in 0 .. Wrap - 1
BY ClockAssumption

\* The periods of a time signature are positive numbers.
LEMMA PeriodsArePositive == ASSUME NEW b \in BarLengths PROVE Periods(b) \subseteq Nat \ {0}
<1>1. ASSUME NEW n \in Bars PROVE Ppqn * b * n \in Nat \ {0}
  <2>1. Ppqn \in Nat \ {0} /\ b \in Nat \ {0} /\ n \in Nat \ {0}
    BY ClockAssumption
  <2>2. Ppqn * b \in Nat \ {0}
    BY <2>1
  <2>3. QED
    BY <2>1, <2>2
<1>2. QED
  BY <1>1, ClockConstants DEF Periods

LEMMA PlaceOf ==
  ASSUME NEW tick \in 0 .. Cycle - 1, NEW b \in BarLengths
  PROVE  PositionOf(tick, b) \in Places
<1>1. Ppqn * b \in Nat \ {0} /\ b \in Nat \ {0} /\ Ppqn \in Nat \ {0} /\ tick \in Nat
  BY ClockConstants
<1>2. tick \div (Ppqn * b) \in Nat
  BY <1>1
<1>3. tick \div Ppqn \in Nat /\ tick % Ppqn \in Nat
  BY <1>1
<1>4. (tick \div Ppqn) % b \in Nat
  BY <1>1, <1>3
<1>5. QED
  BY <1>2, <1>3, <1>4 DEF PositionOf, Places

\* What two clocks have in common when only their transport differs.
SameBut(c, d) == d.rate = c.rate /\ d.beats = c.beats /\ d.steered = c.steered /\ d.ext = c.ext

LEMMA ResetApplied ==
  ASSUME NEW c \in Clocks
  PROVE  LET d == AfterReset(c)
         IN  /\ d \in Clocks /\ SameBut(c, d)
             /\ d.start = c.start /\ d.stop = c.stop /\ d.running = c.running
             /\ d.haveLast = c.haveLast /\ d.last = c.last
             /\ c.reset => d.events = c.events \cup {"RESET"}
             /\ ~c.reset => d = c
<1>1. CASE ~c.reset
  BY <1>1 DEF AfterReset, SameBut
<1>2. CASE c.reset
  <2>. DEFINE z == [c EXCEPT !.tick = 0, !.frac = 0, !.reset = FALSE, !.events = @ \cup {"RESET"}]
              d == [z EXCEPT !.at = PositionOf(z.tick, z.beats), !.notes = @ \cup Begin(z.tick, z.beats)]
  <2>1. AfterReset(c) = d
    BY <1>2 DEF AfterReset, AdvanceOnePpqnTick
  <2>0. "RESET" \in Events
    BY DEF Events
  <2>2. /\ z \in Clocks /\ SameBut(c, z) /\ z.events = c.events \cup {"RESET"}
        /\ z.start = c.start /\ z.stop = c.stop /\ z.running = c.running
        /\ z.haveLast = c.haveLast /\ z.last = c.last
    BY <2>0, ClockConstants DEF Clocks, SameBut
  <2>. HIDE DEF z
  <2>3. z.beats \in BarLengths /\ z.tick \in 0 .. Cycle - 1
    BY <2>2 DEF Clocks
  <2>4. PositionOf(z.tick, z.beats) \in Places
    BY <2>3, PlaceOf
  <2>5. Begin(z.tick, z.beats) \subseteq Nat
    BY <2>3, PeriodsArePositive DEF Begin
  <2>6. /\ d \in Clocks /\ SameBut(z, d) /\ d.events = z.events
        /\ d.start = z.start /\ d.stop = z.stop /\ d.running = z.running
        /\ d.haveLast = z.haveLast /\ d.last = z.last
    BY <2>2, <2>4, <2>5 DEF Clocks, SameBut
  <2>. HIDE DEF d
  <2>7. QED
    BY <1>2, <2>1, <2>2, <2>6 DEF SameBut
<1>3. QED
  BY <1>1, <1>2 DEF Clocks

LEMMA StopApplied ==
  ASSUME NEW c \in Clocks
  PROVE  LET d == AfterStop(c)
         IN  /\ d \in Clocks /\ SameBut(c, d)
             /\ d.start = c.start /\ d.tick = c.tick /\ d.frac = c.frac /\ d.notes = c.notes
             /\ d.haveLast = c.haveLast /\ d.last = c.last
             /\ c.stop => d.events = c.events \cup {"STOP"}
             /\ ~c.stop => d = c
<1>1. CASE ~c.stop
  BY <1>1 DEF AfterStop, SameBut
<1>2. CASE c.stop
  <2>. DEFINE d == [c EXCEPT !.running = FALSE, !.stop = FALSE, !.events = @ \cup {"STOP"}]
  <2>1. AfterStop(c) = d
    BY <1>2 DEF AfterStop
  <2>2. "STOP" \in Events
    BY DEF Events
  <2>3. /\ d \in Clocks /\ SameBut(c, d)
        /\ d.start = c.start /\ d.tick = c.tick /\ d.frac = c.frac /\ d.notes = c.notes
        /\ d.haveLast = c.haveLast /\ d.last = c.last
        /\ d.events = c.events \cup {"STOP"}
    BY <2>2 DEF Clocks, SameBut
  <2>. HIDE DEF d
  <2>4. QED
    BY <1>2, <2>1, <2>3
<1>3. QED
  BY <1>1, <1>2 DEF Clocks

LEMMA StartApplied ==
  ASSUME NEW c \in Clocks
  PROVE  LET d == AfterStart(c)
         IN  /\ d \in Clocks /\ SameBut(c, d)
             /\ d.tick = c.tick /\ d.frac = c.frac /\ d.notes = c.notes
             /\ c.start => ~d.haveLast /\ d.events = c.events \cup {"START"}
             /\ ~c.start => d = c
<1>1. CASE ~c.start
  BY <1>1 DEF AfterStart, SameBut
<1>2. CASE c.start
  <2>. DEFINE d == [c EXCEPT !.running = TRUE, !.start = FALSE, !.haveLast = FALSE, !.last = 0,
                             !.events = @ \cup {"START"}]
  <2>1. AfterStart(c) = d
    BY <1>2 DEF AfterStart
  <2>2. "START" \in Events /\ 0 \in 0 .. Wrap - 1
    BY ClockConstants DEF Events
  <2>3. /\ d \in Clocks /\ SameBut(c, d)
        /\ d.tick = c.tick /\ d.frac = c.frac /\ d.notes = c.notes
        /\ ~d.haveLast /\ d.events = c.events \cup {"START"}
    BY <2>2 DEF Clocks, SameBut
  <2>. HIDE DEF d
  <2>4. QED
    BY <1>2, <2>1, <2>3
<1>3. QED
  BY <1>1, <1>2 DEF Clocks

\* What the waiting transport calls leave: a start forgets the time, and only a reset moves.
Fresh(c) == [c EXCEPT !.events = c.ext, !.notes = {}, !.ext = {}]

LEMMA TransportApplied ==
  ASSUME NEW c \in Clocks
  PROVE  LET b == ApplyDeferredTransport(Fresh(c))
         IN  /\ b \in Clocks /\ b.ext = {} /\ c.ext \subseteq b.events
             /\ b.rate = c.rate /\ b.beats = c.beats /\ b.steered = c.steered
             /\ "START" \in b.events => ~b.haveLast
             /\ "RESET" \notin b.events => b.tick = c.tick /\ b.frac = c.frac /\ b.notes = {}
<1>. DEFINE f == Fresh(c)
            r == AfterReset(f)
            s == AfterStop(r)
            b == AfterStart(s)
<1>1. /\ f \in Clocks /\ f.ext = {} /\ f.events = c.ext /\ f.notes = {}
      /\ f.rate = c.rate /\ f.beats = c.beats /\ f.steered = c.steered
      /\ f.tick = c.tick /\ f.frac = c.frac
  BY DEF Fresh, Clocks, Events
<1>2. c.ext \subseteq External
  BY DEF Clocks
<1>. HIDE DEF f
<1>3. /\ r \in Clocks /\ SameBut(f, r)
      /\ f.reset => r.events = f.events \cup {"RESET"}
      /\ ~f.reset => r = f
  BY <1>1, ResetApplied
<1>. HIDE DEF r
<1>4. /\ s \in Clocks /\ SameBut(r, s) /\ s.tick = r.tick /\ s.frac = r.frac /\ s.notes = r.notes
      /\ r.stop => s.events = r.events \cup {"STOP"}
      /\ ~r.stop => s = r
  BY <1>3, StopApplied
<1>. HIDE DEF s
<1>5. /\ b \in Clocks /\ SameBut(s, b) /\ b.tick = s.tick /\ b.frac = s.frac /\ b.notes = s.notes
      /\ s.start => ~b.haveLast /\ b.events = s.events \cup {"START"}
      /\ ~s.start => b = s
  BY <1>4, StartApplied
<1>6. ApplyDeferredTransport(Fresh(c)) = b
  BY DEF ApplyDeferredTransport, f, r, s
<1>. HIDE DEF b
<1>7. /\ b.ext = {} /\ b.rate = c.rate /\ b.beats = c.beats /\ b.steered = c.steered
  BY <1>1, <1>3, <1>4, <1>5 DEF SameBut
<1>8. c.ext \subseteq r.events /\ r.events \subseteq c.ext \cup {"RESET"}
  BY <1>1, <1>3 DEF Clocks
<1>9. r.events \subseteq s.events /\ s.events \subseteq r.events \cup {"STOP"}
  BY <1>3, <1>4 DEF Clocks
<1>10. s.events \subseteq b.events
  BY <1>4, <1>5 DEF Clocks
<1>11. "START" \notin s.events
  BY <1>2, <1>8, <1>9 DEF External
<1>12. "START" \in b.events => ~b.haveLast
  BY <1>4, <1>5, <1>11 DEF Clocks
<1>13. ASSUME "RESET" \notin b.events PROVE b.tick = c.tick /\ b.frac = c.frac /\ b.notes = {}
  <2>1. "RESET" \notin r.events
    BY <1>9, <1>10, <1>13
  <2>2. r = f
    BY <1>1, <1>3, <2>1 DEF Clocks
  <2>3. QED
    BY <1>1, <1>4, <1>5, <2>2
<1>14. QED
  BY <1>5, <1>6, <1>7, <1>8, <1>9, <1>10, <1>12, <1>13

\* The periods that begin among n ticks after tick.
BeginAmong(tick, n, beats) == {p \in Periods(beats) : \E k \in 1 .. n : (tick + k) % p = 0}

\* n ticks of a clock: it is n ticks on, and tells what began among them.
LEMMA SteppedBy ==
  ASSUME NEW c \in Clocks, NEW n \in Nat
  PROVE  LET d == Stepped(c, n)
         IN  /\ d \in Clocks /\ SameBut(c, d) /\ d.events = c.events /\ d.frac = c.frac
             /\ d.tick = (c.tick + n) % Cycle
             /\ d.notes = c.notes \cup BeginAmong(c.tick, n, c.beats)
<1>1. c.tick \in 0 .. Cycle - 1 /\ c.beats \in BarLengths /\ c.notes \subseteq Nat
  BY DEF Clocks
<1>2. CASE n = 0
  <2>1. (c.tick + 0) % Cycle = c.tick
    BY <1>1, ClockConstants
  <2>2. BeginAmong(c.tick, n, c.beats) = {}
    BY <1>2 DEF BeginAmong
  <2>3. QED
    BY <1>2, <2>1, <2>2 DEF Stepped, SameBut
<1>3. CASE n # 0
  <2>. DEFINE end == (c.tick + n) % Cycle
              place == PositionOf(end, c.beats)
              began == UNION {Begin(c.tick + k, c.beats) : k \in 1 .. n}
              d == [c EXCEPT !.tick = end, !.at = place, !.notes = @ \cup began]
  <2>1. Stepped(c, n) = d
    BY <1>3 DEF Stepped
  <2>2. end \in 0 .. Cycle - 1
    <3>1. c.tick + n \in Int /\ Cycle \in Nat \ {0}
      BY <1>1, ClockConstants
    <3>2. QED
      BY <3>1, ModRange
  <2>3. place \in Places
    BY <1>1, <2>2, PlaceOf
  <2>4. began = BeginAmong(c.tick, n, c.beats)
    BY DEF Begin, BeginAmong
  <2>5. began \subseteq Nat
    BY <1>1, <2>4, PeriodsArePositive DEF BeginAmong
  <2>. HIDE DEF end, place, began
  <2>6. /\ d \in Clocks /\ SameBut(c, d) /\ d.events = c.events /\ d.frac = c.frac
        /\ d.tick = end /\ d.notes = c.notes \cup began
    BY <2>2, <2>3, <2>5 DEF Clocks, SameBut
  <2>. HIDE DEF d
  <2>7. QED
    BY <2>1, <2>4, <2>6 DEF end
<1>4. QED
  BY <1>2, <1>3

\* What a poll of the clock does and tells: the pending events, and the note values that began
\* among the ticks it moved on, which are fewer than a cycle; none in the poll of a start.
LEMMA Ticked ==
  ASSUME NEW c \in Clocks, NEW now \in 0 .. Wrap - 1
  PROVE  LET t == Tick(c, now)
         IN  /\ t \in Clocks /\ c.ext \subseteq t.events /\ t.ext = {}
             /\ t.rate = c.rate /\ t.beats = c.beats /\ t.steered = c.steered
             /\ "RESET" \notin t.events =>
                  \E n \in 0 .. Cycle - 1 : /\ t.tick = (c.tick + n) % Cycle
                                            /\ t.notes = BeginAmong(c.tick, n, c.beats)
             /\ "RESET" \notin t.events /\ "START" \in t.events
                  => t.tick = c.tick /\ t.frac = c.frac
<1>. DEFINE b == ApplyDeferredTransport(Fresh(c))
            moving == b.running /\ b.haveLast
            dt == Elapsed(now, b.last)
            capped == IF dt > MaxTickDt THEN MaxTickDt ELSE dt
            frac == b.frac + b.rate * capped
            seen == [b EXCEPT !.last = now, !.haveLast = TRUE]
            moved == [seen EXCEPT !.frac = frac % One]
            n == frac \div One
            t == IF moving THEN Stepped(moved, n) ELSE seen
<1>1. Tick(c, now) = t
  BY DEF Tick, Fresh
<1>2. /\ b \in Clocks /\ b.ext = {} /\ c.ext \subseteq b.events
      /\ b.rate = c.rate /\ b.beats = c.beats /\ b.steered = c.steered
      /\ "START" \in b.events => ~b.haveLast
      /\ "RESET" \notin b.events => b.tick = c.tick /\ b.frac = c.frac /\ b.notes = {}
  BY TransportApplied
<1>. HIDE DEF b
<1>3. /\ b.frac \in 0 .. One - 1 /\ b.rate \in Rates /\ b.last \in 0 .. Wrap - 1
      /\ b.tick \in 0 .. Cycle - 1 /\ b.beats \in BarLengths
  BY <1>2 DEF Clocks
<1>4. capped \in 0 .. MaxTickDt
  <2>1. dt \in 0 .. Wrap - 1
    <3>1. b.last - now \in Int /\ Wrap \in Nat \ {0}
      BY <1>3, ClockConstants
    <3>2. QED
      BY <3>1, ModRange DEF Elapsed
  <2>. HIDE DEF dt
  <2>2. QED
    BY <2>1, ClockConstants
<1>. HIDE DEF dt, capped
<1>5. frac \in Nat /\ frac < Cycle * One
  <2>1. b.rate \in Nat /\ b.rate * MaxTickDt + One <= Cycle * One
    BY <1>3, ClockConstants
  <2>2. b.rate * capped \in Nat /\ b.rate * capped <= b.rate * MaxTickDt
    BY <1>4, <2>1, ClockConstants
  <2>3. b.rate * MaxTickDt \in Nat /\ Cycle * One \in Nat
    BY <2>1, ClockConstants
  <2>4. QED
    BY <1>3, <2>1, <2>2, <2>3, ClockConstants
<1>. HIDE DEF frac
<1>6. n \in 0 .. Cycle - 1 /\ frac % One \in 0 .. One - 1
  <2>1. /\ frac % One \in 0 .. One - 1 /\ n \in Int
        /\ frac = One * n + (frac % One)
    BY <1>5, ClockConstants, ModRange
  <2>. HIDE DEF n
  <2>2. CASE n < 0
    <3>1. One * n <= -One
      BY <2>1, <2>2, ClockConstants
    <3>2. QED
      BY <1>5, <2>1, <3>1, ClockConstants
  <2>3. CASE n >= Cycle
    <3>1. One * n >= Cycle * One
      BY <2>1, <2>3, ClockConstants
    <3>2. One * n \in Int /\ Cycle * One \in Int
      BY <2>1, ClockConstants
    <3>3. QED
      BY <1>5, <2>1, <3>1, <3>2, ClockConstants
  <2>4. QED
    BY <2>1, <2>2, <2>3, ClockConstants
<1>. HIDE DEF n
<1>7. /\ seen \in Clocks /\ SameBut(b, seen) /\ seen.events = b.events /\ seen.frac = b.frac
      /\ seen.tick = b.tick /\ seen.notes = b.notes
  BY <1>2 DEF Clocks, SameBut
<1>. HIDE DEF seen
<1>8. /\ moved \in Clocks /\ SameBut(seen, moved) /\ moved.events = seen.events
      /\ moved.tick = seen.tick /\ moved.notes = seen.notes
  BY <1>6, <1>7 DEF Clocks, SameBut
<1>. HIDE DEF moved
<1>9. CASE ~(b.running /\ b.haveLast)
  <2>1. t = seen
    BY <1>9
  <2>. HIDE DEF t
  <2>2. b.tick = (b.tick + 0) % Cycle
    BY <1>3, ClockConstants
  <2>3. BeginAmong(c.tick, 0, c.beats) = {}
    BY DEF BeginAmong
  <2>4. 0 \in 0 .. Cycle - 1
    BY ClockConstants
  <2>5. /\ t \in Clocks /\ t.events = b.events /\ t.frac = b.frac /\ t.tick = b.tick
        /\ t.notes = b.notes /\ SameBut(b, t)
    BY <1>7, <2>1
  <2>6. QED
    BY <1>1, <1>2, <2>2, <2>3, <2>4, <2>5 DEF SameBut
<1>10. CASE b.running /\ b.haveLast
  <2>1. t = Stepped(moved, n) /\ n \in Nat
    BY <1>6, <1>10
  <2>. HIDE DEF t
  <2>2. /\ t \in Clocks /\ SameBut(moved, t) /\ t.events = moved.events
        /\ t.tick = (moved.tick + n) % Cycle
        /\ t.notes = moved.notes \cup BeginAmong(moved.tick, n, moved.beats)
    BY <1>8, <2>1, SteppedBy
  <2>3. /\ t.events = b.events /\ SameBut(b, t) /\ moved.beats = b.beats
        /\ t.tick = (b.tick + n) % Cycle /\ t.notes = b.notes \cup BeginAmong(b.tick, n, b.beats)
    BY <1>7, <1>8, <2>2 DEF SameBut
  <2>4. "START" \notin t.events
    BY <1>2, <1>10, <2>3
  <2>5. QED
    BY <1>1, <1>2, <1>6, <2>2, <2>3, <2>4 DEF SameBut
<1>11. QED
  BY <1>9, <1>10

-----------------------------------------------------------------------------
(* The invariant                                                           *)

Followers ==
  [enabled : BOOLEAN, locked : BOOLEAN, haveStamp : BOOLEAN, announced : BOOLEAN,
   stamp : 0 .. Wrap - 1, count : 0 .. LockPulses, period : {0} \cup (MinPeriod .. MaxPeriod)]

\* What a lock stands on.
LockStands(f) ==
  f.locked => f.enabled /\ f.haveStamp /\ ~f.announced /\ f.period > 0 /\ f.count = LockPulses

Typed ==
  /\ sample \in 0 .. MaxGap /\ polling \in BOOLEAN
  /\ ring \in [0 .. RingSize - 1 -> 0 .. Wrap - 1]
  /\ head \in 0 .. Indices - 1 /\ tail \in 0 .. Indices - 1
  /\ follower \in Followers /\ LockStands(follower)
  /\ clock \in Clocks
  /\ policy \in Policies /\ autoStart \in AutoStarts
  /\ quiet \in 0 .. LongAgo /\ dropped \in BOOLEAN

\* How long before the sample something that awaits a poll can have happened.
Slack == IF polling THEN MaxGap ELSE 0

\* What is in the ring came since the poll before, the last pulse last.
RingIsRecent ==
  /\ \A i \in 1 .. Queued : deposited[i] >= quiet /\ deposited[i] <= sample + Slack
  /\ ~dropped /\ Queued > 0 => deposited[Queued] = quiet

\* A lock outlives its last pulse by what the loss factor allows and a poll.
LockIsRecent ==
  follower.locked => /\ quiet <= follower.stamp
                     /\ follower.stamp <= LossFactor * follower.period + sample + Slack

\* The stamp is the last pulse's, or that of one less than the shortest period before it.
StampIsLast ==
  follower.haveStamp /\ ~dropped /\ Queued = 0
    => quiet = LongAgo \/ (follower.stamp >= quiet /\ follower.stamp - quiet < MinPeriod)

\* A follower at work steers the clock, one that is not has no pulses.
Steers ==
  /\ follower.enabled => clock.steered
  /\ ~follower.enabled => Queued = 0 /\ ~follower.haveStamp

CInv == Typed /\ RingIsFifo /\ RingIsRecent /\ LockIsRecent /\ StampIsLast /\ Steers

-----------------------------------------------------------------------------
(* Lengths of time                                                         *)

\* The longest time for which a lock waits.
Patience == LossFactor * MaxPeriod

LEMMA FollowerConstants ==
  /\ RingSize \in Nat \ {0} /\ Indices \in Nat \ {0} /\ Indices > RingSize
  /\ Indices % RingSize = 0
  /\ MinPeriod \in Nat \ {0} /\ MaxPeriod \in Nat /\ MaxPeriod >= MinPeriod
  /\ LockPulses \in Nat /\ LockPulses >= 2 /\ LossFactor \in Nat \ {0} /\ MaxGap \in Nat
  /\ Policies \subseteq {"Freewheel", "Freeze", "Stop"} /\ AutoStarts \subseteq BOOLEAN
  /\ \A p \in MinPeriod .. MaxPeriod : RateOf(p) \in Rates
  /\ Wrap \in Nat \ {0}
BY FollowerAssumption, ClockAssumption DEF RateOf

\* No wait comes near the wrap of the microseconds.
LEMMA WaitsAreShort ==
  /\ Patience \in Nat /\ Patience >= MaxPeriod
  /\ LongAgo = Patience + 2 * MaxGap + 1 /\ LongAgo \in Nat
  /\ 2 * Patience + 2 * MaxGap < Wrap /\ LongAgo + MinPeriod <= Wrap
  /\ \A p \in 0 .. MaxPeriod : LossFactor * p \in Nat /\ LossFactor * p <= Patience
<1>1. Patience \in Nat /\ Patience >= MaxPeriod
  BY FollowerConstants DEF Patience
<1>2. 2 * (Patience + MaxGap) < Wrap
  BY FollowerAssumption DEF Patience
<1>3. LongAgo = Patience + 2 * MaxGap + 1
  BY DEF LongAgo, Patience
<1>4. ASSUME NEW p \in 0 .. MaxPeriod PROVE LossFactor * p \in Nat /\ LossFactor * p <= Patience
  BY FollowerConstants DEF Patience
<1>. HIDE DEF Patience
<1>5. QED
  BY <1>1, <1>2, <1>3, <1>4, FollowerConstants

\* The sample's age is what is kept of it.
LEMMA BehindIs == ASSUME Typed PROVE Behind = sample
<1>1. sample \in 0 .. Wrap - 1 /\ Wrap \in Nat \ {0}
  BY FollowerConstants, WaitsAreShort DEF Typed
<1>2. sample % Wrap = sample
  BY <1>1
<1>3. QED
  BY <1>1, <1>2 DEF Behind, Elapsed, Now

\* Time that passes is one more microsecond of everything that is short of the wrap.
LEMMA OlderBy ==
  ASSUME NEW t \in 0 .. Wrap - 1
  PROVE  /\ Older(t) \in 0 .. Wrap - 1
         /\ t + 1 < Wrap => Older(t) = t + 1
<1>1. Wrap \in Nat \ {0} /\ t + 1 \in Int
  BY FollowerConstants
<1>2. (t + 1) % Wrap \in 0 .. Wrap - 1
  BY <1>1, ModRange
<1>3. ASSUME t + 1 < Wrap PROVE (t + 1) % Wrap = t + 1
  <2>1. t + 1 \in 0 .. Wrap - 1
    BY <1>1, <1>3
  <2>2. QED
    BY <1>1, <2>1, ModNear
<1>4. QED
  BY <1>2, <1>3 DEF Older

LEMMA SlackIs == ASSUME polling \in BOOLEAN PROVE Slack \in 0 .. MaxGap
BY FollowerConstants DEF Slack

-----------------------------------------------------------------------------
(* The ring                                                                *)

Cell(i) == (tail + i) % RingSize

LEMMA QueuedIs ==
  ASSUME Typed
  PROVE  /\ Queued \in 0 .. Indices - 1 /\ head = (tail + Queued) % Indices
         /\ Queued = IF head >= tail THEN head - tail ELSE head - tail + Indices
<1>1. head \in 0 .. Indices - 1 /\ tail \in 0 .. Indices - 1 /\ Indices \in Nat \ {0}
  BY FollowerConstants DEF Typed
<1>2. Queued = IF head >= tail THEN head - tail ELSE head - tail + Indices
  BY <1>1, ModNear DEF Queued
<1>3. Queued \in 0 .. Indices - 1
  BY <1>1, <1>2
<1>4. tail + Queued = IF head >= tail THEN head ELSE head + Indices
  BY <1>1, <1>2
<1>5. (tail + Queued) % Indices = head
  <2>1. CASE head >= tail
    BY <1>1, <1>4, <2>1, ModNear
  <2>2. CASE head < tail
    <3>1. head + Indices \in Indices .. 2 * Indices - 1
      BY <1>1
    <3>2. (head + Indices) % Indices = head
      BY <1>1, <3>1, ModNear
    <3>3. tail + Queued = head + Indices
      BY <1>1, <1>4, <2>2
    <3>4. QED
      BY <3>2, <3>3
  <2>3. QED
    BY <1>1, <2>1, <2>2
<1>6. QED
  BY <1>2, <1>3, <1>5

\* The index wraps at a multiple of the ring's size: the cell is the same.
LEMMA HeadCell ==
  ASSUME Typed
  PROVE  head % RingSize = Cell(Queued)
<1>1. /\ head = (tail + Queued) % Indices /\ Queued \in Nat /\ tail \in Nat
      /\ Indices \in Nat \ {0} /\ RingSize \in Nat \ {0} /\ Indices % RingSize = 0
  BY QueuedIs, FollowerConstants DEF Typed
<1>2. tail + Queued \in Int
  BY <1>1
<1>3. ((tail + Queued) % Indices) % RingSize = (tail + Queued) % RingSize
  BY <1>1, <1>2, ModTwice
<1>4. QED
  BY <1>1, <1>3 DEF Cell

LEMMA CellIs ==
  ASSUME Typed, NEW i \in Nat
  PROVE  Cell(i) \in 0 .. RingSize - 1
<1>1. tail + i \in Int /\ RingSize \in Nat \ {0}
  BY FollowerConstants DEF Typed
<1>2. QED
  BY <1>1, ModRange DEF Cell

\* Places that are less than the ring's size apart are different cells.
LEMMA CellsDiffer ==
  ASSUME Typed, NEW i \in Nat, NEW j \in Nat, i < j, j - i < RingSize
  PROVE  Cell(i) # Cell(j)
<1>1. tail \in Nat /\ RingSize \in Nat \ {0}
  BY FollowerConstants DEF Typed
<1>2. ASSUME Cell(i) = Cell(j) PROVE FALSE
  <2>1. PICK a \in Int : tail + i = RingSize * a + Cell(i)
    <3>1. tail + i \in Int
      BY <1>1
    <3>2. QED
      BY <1>1, <3>1, ModRange DEF Cell
  <2>2. PICK b \in Int : tail + j = RingSize * b + Cell(j)
    <3>1. tail + j \in Int
      BY <1>1
    <3>2. QED
      BY <1>1, <3>1, ModRange DEF Cell
  <2>3. Cell(i) \in Int
    BY CellIs
  <2>4. j - i = RingSize * b - RingSize * a
    BY <1>1, <1>2, <2>1, <2>2, <2>3
  <2>5. CASE b <= a
    <3>1. RingSize * b <= RingSize * a
      BY <1>1, <2>5
    <3>2. RingSize * b \in Int /\ RingSize * a \in Int
      BY <1>1
    <3>3. QED
      BY <2>4, <3>1, <3>2
  <2>6. CASE b >= a + 1
    <3>1. RingSize * b >= RingSize * (a + 1) /\ RingSize * (a + 1) = RingSize * a + RingSize
      BY <1>1, <2>6
    <3>2. RingSize * b \in Int /\ RingSize * a \in Int
      BY <1>1
    <3>3. QED
      BY <1>1, <2>4, <3>1, <3>2
  <2>7. QED
    BY <2>5, <2>6
<1>3. QED
  BY <1>2

\* What the history says is in the ring, place by place.
LEMMA DepositedIs ==
  ASSUME Typed, RingIsFifo
  PROVE  /\ Queued \in 0 .. RingSize /\ deposited \in Seq(0 .. Wrap - 1) /\ Len(deposited) = Queued
         /\ DOMAIN deposited = 1 .. Queued
         /\ \A i \in 1 .. Queued : deposited[i] = ring[Cell(i - 1)] /\ deposited[i] \in 0 .. Wrap - 1
<1>. DEFINE q == Queued
<1>1. q \in 0 .. RingSize /\ deposited = [i \in 1 .. q |-> ring[(tail + i - 1) % RingSize]]
  BY QueuedIs, FollowerConstants DEF RingIsFifo
<1>2. ring \in [0 .. RingSize - 1 -> 0 .. Wrap - 1]
  BY DEF Typed
<1>. HIDE DEF q
<1>3. ASSUME NEW i \in 1 .. q
      PROVE  /\ ring[(tail + i - 1) % RingSize] = ring[Cell(i - 1)]
             /\ ring[Cell(i - 1)] \in 0 .. Wrap - 1
  <2>1. tail + i - 1 = tail + (i - 1) /\ i - 1 \in Nat
    BY <1>1, <1>3 DEF Typed
  <2>2. Cell(i - 1) \in 0 .. RingSize - 1
    BY <2>1, CellIs
  <2>3. QED
    BY <1>2, <2>1, <2>2 DEF Cell
<1>4. \A i \in 1 .. q : deposited[i] = ring[Cell(i - 1)] /\ deposited[i] \in 0 .. Wrap - 1
  BY <1>1, <1>3
<1>5. DOMAIN deposited = 1 .. q /\ deposited = [i \in 1 .. q |-> deposited[i]] /\ q \in Nat
  BY <1>1
<1>6. deposited \in Seq(0 .. Wrap - 1) /\ Len(deposited) = q
  <2>. DEFINE S == 0 .. Wrap - 1
  <2>1. \A i \in 1 .. q : deposited[i] \in S
    BY <1>4
  <2>. HIDE DEF S
  <2>2. deposited \in [1 .. q -> S]
    BY <1>5, <2>1
  <2>3. deposited \in Seq(S)
    BY <1>5, <2>2, SeqDef
  <2>4. Len(deposited) \in Nat /\ 1 .. Len(deposited) = 1 .. q
    BY <1>5, <2>3, LenProperties
  <2>5. Len(deposited) = q
    BY <1>5, <2>4
  <2>6. QED
    BY <2>3, <2>5 DEF S
<1>7. QED
  BY <1>1, <1>4, <1>5, <1>6 DEF q

\* To show that the ring hands over what the history says, place by place.
FifoCells ==
  /\ Queued <= RingSize /\ DOMAIN deposited = 1 .. Queued
  /\ deposited = [i \in 1 .. Queued |-> deposited[i]]
  /\ \A i \in 1 .. Queued : deposited[i] = ring[Cell(i - 1)]

LEMMA FifoOf == Typed /\ FifoCells => RingIsFifo
<1>. SUFFICES ASSUME Typed, FifoCells PROVE RingIsFifo
  OBVIOUS
<1>. DEFINE e == [i \in 1 .. Queued |-> ring[(tail + i - 1) % RingSize]]
<1>1. Queued \in Nat
  BY QueuedIs
<1>2. ASSUME NEW i \in 1 .. Queued PROVE e[i] = deposited[i]
  <2>1. tail + i - 1 = tail + (i - 1)
    BY <1>1, <1>2 DEF Typed
  <2>2. QED
    BY <1>2, <2>1 DEF Cell, FifoCells
<1>3. e = [i \in 1 .. Queued |-> e[i]]
  OBVIOUS
<1>. HIDE DEF e
<1>4. deposited = e
  BY <1>2, <1>3 DEF FifoCells
<1>5. QED
  BY <1>4 DEF RingIsFifo, FifoCells, e

LEMMA NothingQueued == Typed /\ head = tail => Queued = 0
<1>. SUFFICES ASSUME Typed, head = tail PROVE Queued = 0
  OBVIOUS
<1>1. head - tail = 0 /\ Indices \in Nat \ {0}
  BY FollowerConstants DEF Typed
<1>2. 0 % Indices = 0
  BY <1>1, ModNear
<1>3. QED
  BY <1>1, <1>2 DEF Queued

\* An empty ring satisfies what the invariant says of it.
LEMMA EmptyRing ==
  Typed /\ head = tail /\ deposited = <<>> => RingIsFifo /\ RingIsRecent /\ Queued = 0
<1>. SUFFICES ASSUME Typed, head = tail, deposited = <<>>
              PROVE  RingIsFifo /\ RingIsRecent /\ Queued = 0
  OBVIOUS
<1>1. Queued = 0
  BY NothingQueued
<1>2. RingIsFifo
  BY <1>1, FollowerConstants DEF RingIsFifo
<1>3. QED
  BY <1>1, <1>2 DEF RingIsRecent

-----------------------------------------------------------------------------
(* The initial states                                                      *)

LEMMA LongestBar ==
  (CHOOSE b \in BarLengths : \A o \in BarLengths : b >= o) \in BarLengths
<1>1. ASSUME NEW b \in BarLengths PROVE b \in Nat /\ b <= Cycle
  <2>1. b \in Nat \ {0} /\ Ppqn * b \in Nat \ {0} /\ Cycle % (Ppqn * b) = 0 /\ Cycle \in Nat \ {0}
        /\ Ppqn \in Nat \ {0}
    <3>1. b \in Nat \ {0} /\ Cycle \in Nat \ {0} /\ Ppqn \in Nat \ {0} /\ Cycle % (Ppqn * b * 1) = 0
      BY ClockAssumption
    <3>2. Ppqn * b \in Nat \ {0} /\ Ppqn * b * 1 = Ppqn * b
      BY <3>1
    <3>3. QED
      BY <3>1, <3>2
  <2>2. Ppqn * b <= Cycle
    <3>1. ASSUME Ppqn * b > Cycle PROVE FALSE
      <4>1. Cycle \in 0 .. (Ppqn * b) - 1
        BY <2>1, <3>1
      <4>2. Cycle % (Ppqn * b) = Cycle
        BY <2>1, <4>1, ModNear
      <4>3. QED
        BY <2>1, <4>2
    <3>2. QED
      BY <2>1, <3>1
  <2>3. b <= Ppqn * b
    BY <2>1
  <2>4. QED
    BY <2>1, <2>2, <2>3
<1>. DEFINE T == {Cycle - b : b \in BarLengths}
<1>2. T \in SUBSET Nat /\ T # {}
  <2>1. BarLengths # {}
    BY ClockAssumption
  <2>2. \A b \in BarLengths : Cycle - b \in Nat
    BY <1>1, ClockConstants
  <2>3. QED
    BY <2>1, <2>2
<1>3. PICK x \in T : \A y \in T : x <= y
  BY <1>2, Least
<1>4. PICK b \in BarLengths : x = Cycle - b
  BY <1>3
<1>5. ASSUME NEW o \in BarLengths PROVE b >= o
  BY <1>1, <1>3, <1>4, ClockConstants
<1>6. QED
  BY <1>5

\* A follower that was just enabled, or disabled.
LEMMA NewFollowers ==
  /\ EnabledFollower \in Followers /\ LockStands(EnabledFollower)
  /\ EnabledFollower.enabled /\ ~EnabledFollower.locked /\ ~EnabledFollower.haveStamp
  /\ ~EnabledFollower.announced
  /\ DisabledFollower \in Followers /\ LockStands(DisabledFollower)
  /\ ~DisabledFollower.enabled /\ ~DisabledFollower.locked /\ ~DisabledFollower.haveStamp
  /\ ~DisabledFollower.announced
<1>1. 0 \in 0 .. Wrap - 1 /\ 0 \in 0 .. LockPulses /\ 0 \in {0} \cup (MinPeriod .. MaxPeriod)
  BY FollowerConstants
<1>2. EnabledFollower \in Followers
  BY <1>1 DEF EnabledFollower, Followers
<1>3. /\ DisabledFollower \in Followers
      /\ ~DisabledFollower.enabled /\ DisabledFollower.locked = EnabledFollower.locked
      /\ DisabledFollower.haveStamp = EnabledFollower.haveStamp
      /\ DisabledFollower.announced = EnabledFollower.announced
  BY <1>2 DEF DisabledFollower, Followers
<1>4. QED
  BY <1>2, <1>3 DEF EnabledFollower, LockStands

LEMMA InitInv == Init => CInv
<1>. SUFFICES ASSUME Init PROVE CInv
  OBVIOUS
<1>. DEFINE beats == CHOOSE b \in BarLengths : \A o \in BarLengths : b >= o
<1>1. beats \in BarLengths
  BY LongestBar
<1>2. \/ follower = EnabledFollower /\ clock = TakenOver(NewClock(beats, 0))
      \/ follower = DisabledFollower /\ clock = NewClock(beats, 0)
  BY DEF Init
<1>. HIDE DEF beats
<1>3. follower \in Followers /\ LockStands(follower) /\ ~follower.locked /\ ~follower.haveStamp
  BY <1>2, NewFollowers
<1>4. /\ NewClock(beats, 0) \in Clocks /\ ~NewClock(beats, 0).steered
  BY <1>1, ClockConstants DEF NewClock, Clocks, Places
<1>5. /\ TakenOver(NewClock(beats, 0)) \in Clocks /\ TakenOver(NewClock(beats, 0)).steered
  BY <1>1, ClockConstants DEF TakenOver, SetTicksPerUs, Stop, SetSteered, NewClock, Clocks, Places
<1>6. clock \in Clocks /\ (follower.enabled => clock.steered)
  BY <1>2, <1>4, <1>5 DEF DisabledFollower, EnabledFollower
<1>7. Typed
  <2>1. /\ sample = 0 /\ polling = FALSE /\ head = 0 /\ tail = 0 /\ dropped = FALSE
        /\ quiet = LongAgo /\ policy \in Policies /\ autoStart \in AutoStarts
    BY DEF Init
  <2>2. ring \in [0 .. RingSize - 1 -> 0 .. Wrap - 1]
    BY ClockConstants DEF Init
  <2>3. 0 \in 0 .. MaxGap /\ 0 \in 0 .. Indices - 1 /\ LongAgo \in 0 .. LongAgo
    BY FollowerConstants, WaitsAreShort
  <2>4. QED
    BY <1>3, <1>6, <2>1, <2>2, <2>3 DEF Typed
<1>8. head = tail /\ deposited = <<>>
  BY DEF Init
<1>9. QED
  BY <1>3, <1>6, <1>7, <1>8, EmptyRing DEF CInv, LockIsRecent, StampIsLast, Steers

-----------------------------------------------------------------------------
(* The interrupt and the passing of time                                   *)

\* A pulse that does not fit.
LEMMA FullPulseInv ==
  ASSUME CInv, OnPulse, Full
  PROVE  CInv'
<1>1. /\ follower.enabled /\ quiet' = 0 /\ dropped' = Full
      /\ UNCHANGED <<ring, head, deposited, sample, polling, tail, follower, clock, policy, autoStart>>
  BY DEF OnPulse
<1>2. Queued' = Queued /\ Slack' = Slack
  BY <1>1 DEF Queued, Slack
<1>3. Typed
  BY DEF CInv
<1>4. Typed'
  <2>1. quiet' \in 0 .. LongAgo /\ dropped' \in BOOLEAN
    BY <1>1, WaitsAreShort
  <2>2. LongAgo' = LongAgo
    BY DEF LongAgo
  <2>3. LockStands(follower)' = LockStands(follower)
    BY <1>1 DEF LockStands
  <2>4. QED
    BY <1>1, <1>3, <2>1, <2>2, <2>3 DEF Typed
<1>5. RingIsFifo'
  BY <1>1, <1>2 DEF CInv, RingIsFifo
<1>6. RingIsRecent'
  <2>1. ASSUME NEW i \in 1 .. Queued PROVE deposited[i] >= 0
    BY <1>3, <2>1, DepositedIs DEF CInv
  <2>2. QED
    BY <1>1, <1>2, <2>1 DEF CInv, RingIsRecent
<1>7. LockIsRecent'
  <2>1. follower.stamp >= 0
    BY <1>3 DEF Typed, Followers
  <2>2. QED
    BY <1>1, <1>2, <2>1 DEF CInv, LockIsRecent
<1>8. StampIsLast'
  BY <1>1 DEF StampIsLast
<1>9. Steers'
  BY <1>1, <1>2 DEF CInv, Steers
<1>10. QED
  BY <1>4, <1>5, <1>6, <1>7, <1>8, <1>9 DEF CInv

\* A pulse that fits is the newest.
LEMMA PulseInv ==
  ASSUME CInv, OnPulse, ~Full
  PROVE  CInv'
<1>1. /\ follower.enabled /\ quiet' = 0 /\ dropped' = FALSE
      /\ ring' = [ring EXCEPT ![head % RingSize] = 0] /\ head' = (head + 1) % Indices
      /\ deposited' = Append(deposited, 0)
      /\ UNCHANGED <<sample, polling, tail, follower, clock, policy, autoStart>>
  BY DEF OnPulse, Now
<1>2. Typed /\ RingIsFifo
  BY DEF CInv
<1>. DEFINE q == Queued
<1>3. q \in 0 .. RingSize - 1
  BY <1>2, QueuedIs, FollowerConstants DEF Full
<1>4. Queued' = q + 1
  <2>1. /\ head \in 0 .. Indices - 1 /\ tail \in 0 .. Indices - 1 /\ Indices \in Nat \ {0}
        /\ Indices > RingSize /\ RingSize \in Nat
    BY <1>2, FollowerConstants DEF Typed
  <2>2. q = IF head >= tail THEN head - tail ELSE head - tail + Indices
    BY <1>2, QueuedIs
  <2>3. head' = IF head + 1 < Indices THEN head + 1 ELSE 0
    <3>1. CASE head + 1 < Indices
      <4>1. head + 1 \in 0 .. Indices - 1 /\ head + 1 \in Int
        BY <2>1, <3>1
      <4>2. (head + 1) % Indices = head + 1
        BY <2>1, <4>1, ModNear
      <4>3. QED
        BY <1>1, <3>1, <4>2
    <3>2. CASE ~(head + 1 < Indices)
      <4>1. head + 1 = Indices /\ Indices % Indices = 0
        BY <2>1, <3>2
      <4>2. QED
        BY <1>1, <3>2, <4>1
    <3>3. QED
      BY <3>1, <3>2
  <2>4. Queued' = (head' - tail) % Indices
    BY <1>1 DEF Queued
  <2>. HIDE DEF q
  <2>5. CASE head + 1 < Indices /\ head >= tail
    <3>1. head' - tail = q + 1 /\ q + 1 \in 0 .. Indices - 1
      BY <1>3, <2>1, <2>2, <2>3, <2>5
    <3>2. QED
      BY <2>1, <2>4, <3>1, ModNear
  <2>6. CASE ~(head + 1 < Indices) /\ head >= tail
    <3>1. head' - tail < 0 /\ head' - tail + Indices = q + 1 /\ head' - tail \in Int
      BY <1>3, <2>1, <2>2, <2>3, <2>6
    <3>2. head' - tail + Indices >= 0
      BY <1>3, <2>1, <3>1
    <3>3. QED
      BY <2>1, <2>4, <3>1, <3>2, ModNear
  <2>7. CASE head < tail
    <3>1. head' - tail + Indices = q + 1 /\ head' - tail \in Int
      BY <1>3, <2>1, <2>2, <2>3, <2>7
    <3>2. head' - tail < 0 /\ head' - tail + Indices >= 0
      BY <1>3, <2>1, <2>3, <2>7, <3>1
    <3>3. QED
      BY <2>1, <2>4, <3>1, <3>2, ModNear
  <2>8. QED
    BY <2>1, <2>5, <2>6, <2>7
<1>5. /\ deposited \in Seq(0 .. Wrap - 1) /\ Len(deposited) = q /\ DOMAIN deposited = 1 .. q
      /\ \A i \in 1 .. q : deposited[i] = ring[Cell(i - 1)] /\ deposited[i] \in 0 .. Wrap - 1
  BY <1>2, DepositedIs
<1>6. head % RingSize = Cell(q)
  BY <1>2, HeadCell
<1>7. LongAgo' = LongAgo /\ Slack' = Slack /\ \A i \in Nat : Cell(i)' = Cell(i)
  BY <1>1 DEF LongAgo, Slack, Cell
<1>. HIDE DEF q
<1>8. /\ DOMAIN deposited' = 1 .. q + 1 /\ deposited' = [i \in 1 .. q + 1 |-> deposited'[i]]
      /\ deposited'[q + 1] = 0 /\ \A i \in 1 .. q : deposited'[i] = deposited[i]
  <2>. DEFINE S == 0 .. Wrap - 1
              s == Append(deposited, 0)
  <2>1. 0 \in S
    BY ClockConstants
  <2>2. deposited \in Seq(S)
    BY <1>5
  <2>. HIDE DEF S
  <2>3. /\ s \in Seq(S) /\ Len(s) = Len(deposited) + 1
        /\ \A i \in 1 .. Len(deposited) : s[i] = deposited[i]
        /\ s[Len(deposited) + 1] = 0
    BY <2>1, <2>2, AppendProperties
  <2>4. s \in [1 .. Len(s) -> S]
    BY <2>3, LenProperties
  <2>. HIDE DEF s
  <2>5. DOMAIN s = 1 .. q + 1 /\ s = [i \in 1 .. q + 1 |-> s[i]]
    BY <1>5, <2>3, <2>4
  <2>6. deposited' = s
    BY <1>1 DEF s
  <2>7. QED
    BY <1>5, <2>3, <2>5, <2>6
<1>9. Typed'
  <2>1. Cell(q) \in 0 .. RingSize - 1
    BY <1>2, <1>3, CellIs
  <2>2. ring' \in [0 .. RingSize - 1 -> 0 .. Wrap - 1]
    BY <1>1, <1>2, <1>6, <2>1, ClockConstants DEF Typed
  <2>3. head' \in 0 .. Indices - 1
    <3>1. head + 1 \in Int /\ Indices \in Nat \ {0}
      BY <1>2, FollowerConstants DEF Typed
    <3>2. QED
      BY <1>1, <3>1, ModRange
  <2>4. quiet' \in 0 .. LongAgo' /\ dropped' \in BOOLEAN
    <3>1. 0 \in 0 .. LongAgo
      BY WaitsAreShort
    <3>2. QED
      BY <1>1, <1>7, <3>1
  <2>5. LockStands(follower)' = LockStands(follower)
    BY <1>1 DEF LockStands
  <2>6. QED
    BY <1>1, <1>2, <2>2, <2>3, <2>4, <2>5 DEF Typed
<1>10. RingIsFifo'
  <2>1. ASSUME NEW i \in 1 .. q + 1 PROVE deposited'[i] = ring'[Cell(i - 1)]
    <3>1. CASE i = q + 1
      <4>1. i - 1 = q
        BY <1>3, <3>1
      <4>2. Cell(q) \in DOMAIN ring
        BY <1>2, <1>3, CellIs DEF Typed
      <4>3. QED
        BY <1>1, <1>6, <1>8, <3>1, <4>1, <4>2
    <3>2. CASE i # q + 1
      <4>1. i \in 1 .. q /\ i - 1 \in Nat /\ i - 1 < q /\ q - (i - 1) < RingSize /\ q \in Nat
        BY <1>3, <2>1, <3>2, FollowerConstants
      <4>2. Cell(i - 1) # Cell(q) /\ Cell(i - 1) \in 0 .. RingSize - 1
        BY <1>2, <4>1, CellsDiffer, CellIs
      <4>3. ring'[Cell(i - 1)] = ring[Cell(i - 1)]
        BY <1>1, <1>2, <1>6, <4>2 DEF Typed
      <4>4. QED
        BY <1>5, <1>8, <4>1, <4>3
    <3>3. QED
      BY <3>1, <3>2
  <2>2. \A i \in 1 .. q + 1 : deposited'[i] = ring'[Cell(i - 1)']
    <3>1. \A i \in 1 .. q + 1 : i - 1 \in Nat
      BY <1>3
    <3>2. QED
      BY <1>7, <2>1, <3>1
  <2>3. q + 1 <= RingSize
    BY <1>3, FollowerConstants
  <2>4. FifoCells'
    BY <1>4, <1>8, <2>2, <2>3 DEF FifoCells
  <2>5. QED
    BY <1>9, <2>4, FifoOf, PTL
<1>11. RingIsRecent'
  <2>1. sample \in Nat /\ Slack \in Nat
    BY <1>2, SlackIs DEF Typed
  <2>2. ASSUME NEW i \in 1 .. q + 1
        PROVE  deposited'[i] >= 0 /\ deposited'[i] <= sample + Slack
    <3>1. CASE i = q + 1
      BY <1>8, <2>1, <3>1
    <3>2. CASE i # q + 1
      <4>1. i \in 1 .. q
        BY <1>3, <2>2, <3>2
      <4>2. QED
        BY <1>5, <1>8, <4>1 DEF CInv, RingIsRecent, q
    <3>3. QED
      BY <3>1, <3>2
  <2>3. QED
    BY <1>1, <1>4, <1>7, <1>8, <2>2 DEF RingIsRecent
<1>12. LockIsRecent'
  <2>1. follower.stamp >= 0
    BY <1>2 DEF Typed, Followers
  <2>2. QED
    BY <1>1, <1>7, <2>1 DEF CInv, LockIsRecent
<1>13. StampIsLast'
  BY <1>3, <1>4 DEF StampIsLast
<1>14. Steers'
  BY <1>1 DEF CInv, Steers
<1>15. QED
  BY <1>9, <1>10, <1>11, <1>12, <1>13, <1>14 DEF CInv

\* The follower and the clock when a microsecond has passed.
LEMMA AgedTyped ==
  ASSUME NEW f \in Followers, NEW c \in Clocks
  PROVE  /\ Aged(c) \in Clocks /\ Aged(c).steered = c.steered
         /\ Aged(c).rate = c.rate
         /\ [f EXCEPT !.stamp = Older(@)] \in Followers
<1>1. c.last \in 0 .. Wrap - 1 /\ f.stamp \in 0 .. Wrap - 1
  BY DEF Clocks, Followers
<1>2. Older(c.last) \in 0 .. Wrap - 1 /\ Older(f.stamp) \in 0 .. Wrap - 1
  BY <1>1, OlderBy
<1>3. [f EXCEPT !.stamp = Older(@)] \in Followers
  BY <1>2 DEF Followers
<1>4. /\ [c EXCEPT !.last = Older(@)] \in Clocks
      /\ [c EXCEPT !.last = Older(@)].steered = c.steered
      /\ [c EXCEPT !.last = Older(@)].rate = c.rate
  BY <1>2 DEF Clocks
<1>5. QED
  BY <1>3, <1>4 DEF Aged

LEMMA PassInv ==
  ASSUME CInv, Pass
  PROVE  CInv'
<1>1. /\ Behind < MaxGap /\ sample' = Older(sample)
      /\ ring' = [i \in DOMAIN ring |-> IF Holds(i) THEN Older(ring[i]) ELSE ring[i]]
      /\ follower' = IF follower.haveStamp THEN [follower EXCEPT !.stamp = Older(@)] ELSE follower
      /\ clock' = Aged(clock)
      /\ deposited' = [i \in DOMAIN deposited |-> Older(deposited[i])]
      /\ quiet' = IF quiet < LongAgo THEN quiet + 1 ELSE quiet
      /\ UNCHANGED <<polling, head, tail, policy, autoStart, dropped>>
  BY DEF Pass
<1>2. Typed /\ RingIsFifo /\ RingIsRecent
  BY DEF CInv
<1>3. /\ sample \in 0 .. MaxGap - 1 /\ quiet \in 0 .. LongAgo /\ follower \in Followers
      /\ clock \in Clocks /\ follower.stamp \in 0 .. Wrap - 1
      /\ follower.period \in 0 .. MaxPeriod
  <2>1. sample \in 0 .. MaxGap - 1
    <3>1. sample \in 0 .. MaxGap /\ sample < MaxGap
      BY <1>1, <1>2, BehindIs DEF Typed
    <3>2. QED
      BY <3>1, FollowerConstants
  <2>2. follower.period \in 0 .. MaxPeriod
    BY <1>2, FollowerConstants DEF Typed, Followers
  <2>3. QED
    BY <1>2, <2>1, <2>2 DEF Typed, Followers
<1>4. /\ Patience \in Nat /\ LongAgo = Patience + 2 * MaxGap + 1 /\ LongAgo + MinPeriod <= Wrap
      /\ MaxGap \in Nat /\ Wrap \in Nat /\ MinPeriod \in Nat \ {0} /\ Slack \in 0 .. MaxGap
  BY <1>2, WaitsAreShort, FollowerConstants, SlackIs DEF Typed
<1>5. sample' = sample + 1
  <2>1. sample \in 0 .. Wrap - 1 /\ sample + 1 < Wrap
    BY <1>3, <1>4
  <2>2. QED
    BY <1>1, <2>1, OlderBy
<1>6. Queued' = Queued /\ Slack' = Slack /\ LongAgo' = LongAgo
  BY <1>1 DEF Queued, Slack, LongAgo
<1>7. quiet' \in 0 .. LongAgo /\ quiet' <= quiet + 1 /\ (quiet < LongAgo => quiet' = quiet + 1)
      /\ (quiet = LongAgo => quiet' = LongAgo)
  BY <1>1, <1>3, <1>4
<1>8. /\ follower' \in Followers /\ follower'.enabled = follower.enabled
      /\ follower'.locked = follower.locked /\ follower'.haveStamp = follower.haveStamp
      /\ follower'.announced = follower.announced /\ follower'.count = follower.count
      /\ follower'.period = follower.period
      /\ (follower.haveStamp /\ follower.stamp + 1 < Wrap => follower'.stamp = follower.stamp + 1)
  <2>1. CASE ~follower.haveStamp
    BY <1>1, <1>3, <2>1
  <2>2. CASE follower.haveStamp
    <3>1. follower' = [follower EXCEPT !.stamp = Older(@)]
      BY <1>1, <2>2
    <3>2. follower' \in Followers
      BY <1>3, <3>1, AgedTyped
    <3>3. follower.stamp + 1 < Wrap => Older(follower.stamp) = follower.stamp + 1
      BY <1>3, OlderBy
    <3>4. QED
      BY <1>3, <3>1, <3>2, <3>3 DEF Followers
  <2>3. QED
    BY <2>1, <2>2
<1>9. clock' \in Clocks /\ clock'.steered = clock.steered
  BY <1>1, <1>3, AgedTyped
<1>10. /\ Queued \in 0 .. RingSize /\ DOMAIN deposited = 1 .. Queued
       /\ \A i \in 1 .. Queued : deposited[i] = ring[Cell(i - 1)] /\ deposited[i] \in 0 .. Wrap - 1
  BY <1>2, DepositedIs
<1>11. /\ DOMAIN deposited' = 1 .. Queued /\ deposited' = [i \in 1 .. Queued |-> deposited'[i]]
       /\ \A i \in 1 .. Queued : deposited'[i] = Older(deposited[i])
  BY <1>1, <1>10
<1>12. Typed'
  <2>1. ring' \in [0 .. RingSize - 1 -> 0 .. Wrap - 1]
    <3>1. ring \in [0 .. RingSize - 1 -> 0 .. Wrap - 1]
      BY <1>2 DEF Typed
    <3>2. \A i \in 0 .. RingSize - 1 : ring[i] \in 0 .. Wrap - 1 /\ Older(ring[i]) \in 0 .. Wrap - 1
      BY <3>1, OlderBy
    <3>3. QED
      BY <1>1, <3>1, <3>2
  <2>2. LockStands(follower')
    BY <1>2, <1>8 DEF Typed, LockStands
  <2>3. sample' \in 0 .. MaxGap
    BY <1>3, <1>4, <1>5
  <2>4. QED
    BY <1>1, <1>2, <1>6, <1>7, <1>8, <1>9, <2>1, <2>2, <2>3 DEF Typed
<1>13. RingIsFifo'
  <2>1. ASSUME NEW i \in 1 .. Queued PROVE deposited'[i] = ring'[Cell(i - 1)]
    <3>1. i - 1 \in 0 .. Queued - 1 /\ i - 1 \in Nat
      BY <1>10
    <3>2. Holds(Cell(i - 1))
      BY <3>1 DEF Holds, Cell
    <3>3. Cell(i - 1) \in DOMAIN ring
      BY <1>2, <3>1, CellIs DEF Typed
    <3>4. QED
      BY <1>1, <1>10, <1>11, <3>2, <3>3
  <2>2. \A i \in 1 .. Queued : Cell(i - 1)' = Cell(i - 1)
    BY <1>1 DEF Cell
  <2>3. FifoCells'
    BY <1>6, <1>10, <1>11, <2>1, <2>2 DEF FifoCells
  <2>4. QED
    BY <1>12, <2>3, FifoOf, PTL
<1>14. RingIsRecent'
  <2>1. ASSUME NEW i \in 1 .. Queued
        PROVE  deposited'[i] = deposited[i] + 1 /\ deposited[i] >= quiet
               /\ deposited[i] <= sample + Slack /\ deposited[i] \in Nat /\ deposited[i] < LongAgo
    <3>1. deposited[i] >= quiet /\ deposited[i] <= sample + Slack /\ deposited[i] \in 0 .. Wrap - 1
      BY <1>2, <1>10 DEF RingIsRecent
    <3>2. deposited[i] < LongAgo /\ deposited[i] + 1 < Wrap
      BY <1>3, <1>4, <3>1
    <3>3. QED
      BY <1>11, <3>1, <3>2, OlderBy
  <2>2. ASSUME NEW i \in 1 .. Queued
        PROVE  deposited'[i] >= quiet' /\ deposited'[i] <= sample' + Slack'
    BY <1>3, <1>4, <1>5, <1>6, <1>7, <2>1
  <2>3. ASSUME ~dropped, Queued > 0 PROVE deposited'[Queued] = quiet'
    <3>1. Queued \in 1 .. Queued /\ deposited[Queued] = quiet
      BY <1>2, <1>10, <2>3 DEF RingIsRecent
    <3>2. QED
      BY <1>7, <2>1, <3>1
  <2>4. QED
    BY <1>1, <1>6, <2>2, <2>3 DEF RingIsRecent
<1>15. LockIsRecent'
  <2>. SUFFICES ASSUME follower.locked
                PROVE  /\ quiet' <= follower'.stamp
                       /\ follower'.stamp <= LossFactor * follower.period + sample' + Slack
    BY <1>6, <1>8 DEF LockIsRecent
  <2>. DEFINE w == LossFactor * follower.period
  <2>1. quiet <= follower.stamp /\ follower.stamp <= w + sample + Slack /\ follower.haveStamp
    BY <1>2 DEF CInv, LockIsRecent, Typed, LockStands
  <2>2. w \in Nat /\ w <= Patience
    BY <1>3, WaitsAreShort
  <2>. HIDE DEF w
  <2>3. follower.stamp + 1 < Wrap
    BY <1>3, <1>4, <2>1, <2>2
  <2>4. quiet' <= follower'.stamp /\ follower'.stamp <= w + sample' + Slack
    BY <1>3, <1>4, <1>5, <1>7, <1>8, <2>1, <2>2, <2>3
  <2>5. QED
    BY <2>4 DEF w
<1>16. StampIsLast'
  <2>. SUFFICES ASSUME follower.haveStamp, ~dropped, Queued = 0, quiet # LongAgo
                PROVE  follower'.stamp >= quiet' /\ follower'.stamp - quiet' < MinPeriod
    BY <1>1, <1>6, <1>7, <1>8 DEF StampIsLast
  <2>1. follower.stamp >= quiet /\ follower.stamp - quiet < MinPeriod
    BY DEF CInv, StampIsLast
  <2>2. follower.stamp + 1 < Wrap /\ quiet' = quiet + 1
    BY <1>3, <1>4, <1>7, <2>1
  <2>3. follower'.stamp = follower.stamp + 1
    BY <1>8, <2>2
  <2>4. QED
    BY <1>3, <1>4, <2>1, <2>2, <2>3
<1>17. Steers'
  BY <1>6, <1>8, <1>9 DEF CInv, Steers
<1>18. QED
  BY <1>12, <1>13, <1>14, <1>15, <1>16, <1>17 DEF CInv

-----------------------------------------------------------------------------
(* The main loop                                                           *)

\* The sample is new: what was older than the last is older than this.
LEMMA BeginPollInv ==
  ASSUME CInv, BeginPoll
  PROVE  CInv'
<1>1. /\ ~polling /\ polling' = TRUE /\ sample' = 0
      /\ UNCHANGED <<ring, head, tail, follower, clock, policy, autoStart, deposited, quiet, dropped>>
  BY DEF BeginPoll, pulses, Now
<1>2. Typed /\ RingIsFifo
  BY DEF CInv
<1>3. Queued' = Queued /\ Slack = 0 /\ Slack' = MaxGap /\ LongAgo' = LongAgo
  BY <1>1 DEF Queued, Slack, LongAgo
<1>4. sample \in 0 .. MaxGap /\ MaxGap \in Nat
  BY <1>2, FollowerConstants DEF Typed
<1>5. Typed'
  <2>1. LockStands(follower)' = LockStands(follower)
    BY <1>1 DEF LockStands
  <2>2. QED
    BY <1>1, <1>2, <1>3, <1>4, <2>1 DEF Typed
<1>6. RingIsFifo'
  BY <1>1, <1>3 DEF CInv, RingIsFifo
<1>7. RingIsRecent'
  <2>1. ASSUME NEW i \in 1 .. Queued PROVE deposited[i] <= 0 + MaxGap /\ deposited[i] >= quiet
    <3>1. deposited[i] <= sample + 0 /\ deposited[i] >= quiet /\ deposited[i] \in 0 .. Wrap - 1
      BY <1>2, <1>3, DepositedIs DEF CInv, RingIsRecent
    <3>2. QED
      BY <1>4, <3>1, FollowerConstants
  <2>2. QED
    BY <1>1, <1>3, <2>1 DEF CInv, RingIsRecent
<1>8. LockIsRecent'
  <2>. DEFINE w == LossFactor * follower.period
  <2>. SUFFICES ASSUME follower.locked
                PROVE  quiet <= follower.stamp /\ follower.stamp <= w + 0 + MaxGap
    BY <1>1, <1>3 DEF LockIsRecent
  <2>1. quiet <= follower.stamp /\ follower.stamp <= w + sample + 0
    BY <1>3 DEF CInv, LockIsRecent
  <2>2. w \in Nat /\ follower.stamp \in Nat
    <3>1. follower.period \in 0 .. MaxPeriod /\ follower.stamp \in 0 .. Wrap - 1
      BY <1>2, FollowerConstants DEF Typed, Followers
    <3>2. QED
      BY <3>1, WaitsAreShort
  <2>. HIDE DEF w
  <2>3. QED
    BY <1>4, <2>1, <2>2
<1>9. StampIsLast' /\ Steers'
  BY <1>1, <1>3 DEF CInv, StampIsLast, Steers
<1>10. QED
  BY <1>5, <1>6, <1>7, <1>8, <1>9 DEF CInv

\* A call that leaves follower and ring alone, or takes what the follower knew from it.
LEMMA QuietCall ==
  ASSUME CInv,
         follower' \in Followers, LockStands(follower)', clock' \in Clocks,
         follower'.enabled => clock'.steered,
         follower' = follower \/ (~follower'.locked /\ ~follower'.haveStamp),
         follower'.enabled = follower.enabled,
         UNCHANGED <<sample, polling, ring, head, tail, policy, autoStart, deposited, quiet, dropped>>
  PROVE  CInv'
<1>1. Queued' = Queued /\ Slack' = Slack /\ LongAgo' = LongAgo
  BY DEF Queued, Slack, LongAgo
<1>2. Typed'
  BY <1>1 DEF CInv, Typed
<1>3. RingIsFifo' /\ RingIsRecent'
  BY <1>1 DEF CInv, RingIsFifo, RingIsRecent
<1>4. LockIsRecent' /\ StampIsLast'
  BY <1>1 DEF CInv, LockIsRecent, StampIsLast
<1>5. Steers'
  BY <1>1 DEF CInv, Steers
<1>6. QED
  BY <1>2, <1>3, <1>4, <1>5 DEF CInv

LEMMA EmptiedIs ==
  ASSUME Typed, Emptied, head' = head
  PROVE  /\ ring' \in [0 .. RingSize - 1 -> 0 .. Wrap - 1] /\ tail' \in 0 .. Indices - 1
         /\ head' = tail' /\ deposited' = <<>>
BY ClockConstants DEF Emptied, Typed

\* A call that discards what is in the ring and what the follower knew.
LEMMA DiscardingCall ==
  ASSUME CInv, Emptied,
         follower' \in Followers, LockStands(follower)', clock' \in Clocks,
         follower'.enabled => clock'.steered, ~follower'.locked, ~follower'.haveStamp,
         UNCHANGED <<sample, polling, head, policy, autoStart, quiet, dropped>>
  PROVE  CInv'
<1>1. LongAgo' = LongAgo
  BY DEF LongAgo
<1>2. /\ ring' \in [0 .. RingSize - 1 -> 0 .. Wrap - 1] /\ tail' \in 0 .. Indices - 1
      /\ head' = tail' /\ deposited' = <<>>
  BY EmptiedIs DEF CInv
<1>3. Typed'
  BY <1>1, <1>2 DEF CInv, Typed
<1>4. RingIsFifo' /\ RingIsRecent' /\ Queued' = 0
  <2>1. (Typed /\ head = tail /\ deposited = <<>>)'
    BY <1>2, <1>3
  <2>2. (RingIsFifo /\ RingIsRecent /\ Queued = 0)'
    BY <2>1, EmptyRing, PTL
  <2>3. QED
    BY <2>2
<1>5. LockIsRecent' /\ StampIsLast' /\ Steers'
  BY <1>4 DEF LockIsRecent, StampIsLast, Steers
<1>6. QED
  BY <1>3, <1>4, <1>5 DEF CInv

\* What the calls do to the clock.
LEMMA CalledClock ==
  ASSUME NEW c \in Clocks, NEW r \in Rates, NEW b \in BarLengths, NEW on \in BOOLEAN
  PROVE  /\ Start(c) \in Clocks /\ Start(c).steered = c.steered /\ Start(c).rate = c.rate
         /\ Stop(c) \in Clocks /\ Stop(c).steered = c.steered /\ Stop(c).rate = c.rate
         /\ Reset(c) \in Clocks /\ Reset(c).steered = c.steered /\ Reset(c).rate = c.rate
         /\ SetTicksPerUs(c, r) \in Clocks /\ SetTicksPerUs(c, r).steered = c.steered
         /\ SetTicksPerUs(c, r).rate = r
         /\ SetTimeSignature(c, b) \in Clocks /\ SetTimeSignature(c, b).steered = c.steered
         /\ SetTimeSignature(c, b).rate = c.rate
         /\ SetSteered(c, on) \in Clocks /\ SetSteered(c, on).steered = on
         /\ SetSteered(c, on).rate = c.rate
<1>1. /\ Start(c) \in Clocks /\ Start(c).steered = c.steered /\ Start(c).rate = c.rate
      /\ Stop(c) \in Clocks /\ Stop(c).steered = c.steered /\ Stop(c).rate = c.rate
      /\ Reset(c) \in Clocks /\ Reset(c).steered = c.steered /\ Reset(c).rate = c.rate
  BY DEF Start, Stop, Reset, Clocks
<1>2. /\ SetTicksPerUs(c, r) \in Clocks /\ SetTicksPerUs(c, r).steered = c.steered
      /\ SetTicksPerUs(c, r).rate = r
  BY DEF SetTicksPerUs, Clocks
<1>3. /\ SetTimeSignature(c, b) \in Clocks /\ SetTimeSignature(c, b).steered = c.steered
      /\ SetTimeSignature(c, b).rate = c.rate
  BY DEF SetTimeSignature, Clocks
<1>4. /\ SetSteered(c, on) \in Clocks /\ SetSteered(c, on).steered = on
      /\ SetSteered(c, on).rate = c.rate
  BY DEF SetSteered, Clocks
<1>5. QED
  BY <1>1, <1>2, <1>3, <1>4

\* While a follower steers, no tempo is taken.
LEMMA TempoIgnored ==
  ASSUME NEW c \in Clocks, NEW r \in Rates
  PROVE  /\ SetBpm(c, r) \in Clocks /\ SetBpm(c, r).steered = c.steered
         /\ c.steered => SetBpm(c, r) = c
<1>1. [c EXCEPT !.rate = r] \in Clocks /\ [c EXCEPT !.rate = r].steered = c.steered
  BY DEF Clocks
<1>2. QED
  BY <1>1 DEF SetBpm

\* Enable's clock stands.
LEMMA TakenOverIs ==
  ASSUME NEW c \in Clocks
  PROVE  TakenOver(c) \in Clocks /\ TakenOver(c).steered /\ TakenOver(c).rate = 0
<1>. DEFINE s == SetSteered(c, TRUE)
            h == Stop(s)
<1>1. \E b \in BarLengths : TRUE
  BY LongestBar
<1>2. 0 \in Rates
  BY ClockConstants
<1>3. s \in Clocks /\ s.steered = TRUE
  BY <1>1, <1>2, CalledClock
<1>. HIDE DEF s
<1>4. h \in Clocks /\ h.steered = TRUE
  BY <1>1, <1>2, <1>3, CalledClock
<1>. HIDE DEF h
<1>5. SetTicksPerUs(h, 0) \in Clocks /\ SetTicksPerUs(h, 0).steered = TRUE
      /\ SetTicksPerUs(h, 0).rate = 0
  BY <1>2, <1>4 DEF SetTicksPerUs, Clocks
<1>6. QED
  BY <1>5 DEF TakenOver, h, s

LEMMA EnableInv == ASSUME CInv, Enable PROVE CInv' /\ clock'.rate = 0
<1>1. /\ follower' = EnabledFollower /\ Emptied /\ clock' = TakenOver(clock)
      /\ UNCHANGED <<sample, polling, head, policy, autoStart, quiet, dropped>>
  BY DEF Enable
<1>2. clock \in Clocks
  BY DEF CInv, Typed
<1>3. /\ follower' \in Followers /\ LockStands(follower')
      /\ ~follower'.locked /\ ~follower'.haveStamp
  BY <1>1, NewFollowers
<1>4. clock' \in Clocks /\ clock'.steered /\ clock'.rate = 0
  BY <1>1, <1>2, TakenOverIs
<1>5. QED
  BY <1>1, <1>3, <1>4, DiscardingCall

LEMMA DisableInv == ASSUME CInv, Disable PROVE CInv' /\ ~follower'.enabled
<1>1. /\ follower' = DisabledFollower /\ Emptied /\ clock' = SetSteered(clock, FALSE)
      /\ UNCHANGED <<sample, polling, head, policy, autoStart, quiet, dropped>>
  BY DEF Disable
<1>2. clock \in Clocks
  BY DEF CInv, Typed
<1>3. /\ follower' \in Followers /\ LockStands(follower') /\ ~follower'.enabled
      /\ ~follower'.locked /\ ~follower'.haveStamp
  BY <1>1, NewFollowers
<1>4. clock' \in Clocks
  BY <1>1, <1>2, CalledClock, ClockConstants, LongestBar
<1>5. QED
  BY <1>1, <1>3, <1>4, DiscardingCall

LEMMA SetExtPpqnInv == ASSUME CInv, SetExtPpqn PROVE CInv' /\ follower'.announced = follower.announced
<1>. DEFINE f == [follower EXCEPT !.locked = FALSE, !.haveStamp = FALSE, !.stamp = 0, !.count = 0]
<1>1. /\ follower' = f
      /\ UNCHANGED <<sample, polling, ring, head, tail, clock, policy, autoStart, deposited, quiet, dropped>>
  BY DEF SetExtPpqn, pulses
<1>2. follower \in Followers /\ clock \in Clocks /\ (follower.enabled => clock.steered)
  BY DEF CInv, Typed, Steers
<1>3. 0 \in 0 .. Wrap - 1 /\ 0 \in 0 .. LockPulses
  BY FollowerConstants
<1>4. /\ f \in Followers /\ ~f.locked /\ ~f.haveStamp /\ f.enabled = follower.enabled
      /\ f.announced = follower.announced
  BY <1>2, <1>3 DEF Followers
<1>. HIDE DEF f
<1>5. LockStands(follower)'
  BY <1>1, <1>4 DEF LockStands
<1>6. QED
  BY <1>1, <1>2, <1>4, <1>5, QuietCall

LEMMA CallsInv ==
  ASSUME CInv, NEW c \in Clocks, c.steered = clock.steered, Calls(c)
  PROVE  CInv'
<1>1. /\ clock' = c /\ follower' = follower
      /\ UNCHANGED <<sample, polling, ring, head, tail, policy, autoStart, deposited, quiet, dropped>>
  BY DEF Calls, pulses
<1>2. follower \in Followers /\ LockStands(follower) /\ (follower.enabled => clock.steered)
  BY DEF CInv, Typed, Steers
<1>3. LockStands(follower)'
  BY <1>1, <1>2 DEF LockStands
<1>4. QED
  BY <1>1, <1>2, <1>3, QuietCall

-----------------------------------------------------------------------------
(* The work of a poll                                                      *)

\* The code's difference of the sample and a stamp is positive only for a stamp before it.
LEMMA SinceIs ==
  ASSUME Typed, NEW t \in 0 .. Wrap - 1
  PROVE  LET since == Signed(Elapsed(sample, t))
         IN  /\ since \in Int
             /\ since > 0 => since = t - sample
             /\ t >= sample /\ 2 * (t - sample) < Wrap => since = t - sample
<1>. DEFINE e == Elapsed(sample, t)
<1>1. /\ sample \in 0 .. MaxGap /\ MaxGap \in Nat /\ Wrap \in Nat \ {0} /\ 2 * MaxGap < Wrap
  BY FollowerConstants, WaitsAreShort DEF Typed
<1>2. e = IF t >= sample THEN t - sample ELSE t - sample + Wrap
  <2>1. t - sample \in Int
    BY <1>1
  <2>2. CASE t >= sample
    <3>1. t - sample \in 0 .. Wrap - 1
      BY <1>1, <2>2
    <3>2. QED
      BY <1>1, <2>1, <2>2, <3>1, ModNear DEF Elapsed
  <2>3. CASE t < sample
    <3>1. t - sample < 0 /\ t - sample + Wrap >= 0
      BY <1>1, <2>3
    <3>2. QED
      BY <1>1, <2>1, <2>3, <3>1, ModNear DEF Elapsed
  <2>4. QED
    BY <1>1, <2>2, <2>3
<1>. HIDE DEF e
<1>3. QED
  BY <1>1, <1>2 DEF Signed, e

LEMMA LostIs ==
  ASSUME Typed, NEW f \in Followers
  PROVE  /\ Lost(f) => /\ f.haveStamp /\ ~f.announced /\ f.period > 0
                       /\ f.stamp - sample > f.period * LossFactor
         /\ ~Lost(f) /\ LockStands(f) /\ f.locked
            /\ f.stamp <= LossFactor * f.period + sample + MaxGap
              => f.stamp <= LossFactor * f.period + sample
<1>. DEFINE w == LossFactor * f.period
            since == Signed(Elapsed(sample, f.stamp))
<1>1. f.stamp \in 0 .. Wrap - 1 /\ f.period \in 0 .. MaxPeriod
  BY FollowerConstants DEF Followers
<1>2. w \in Nat /\ w <= Patience /\ f.period * LossFactor = w
  <2>1. w \in Nat /\ w <= Patience
    BY <1>1, WaitsAreShort
  <2>2. f.period \in Int /\ LossFactor \in Int
    BY <1>1, FollowerConstants
  <2>3. QED
    BY <2>1, <2>2
<1>3. /\ since \in Int
      /\ since > 0 => since = f.stamp - sample
      /\ f.stamp >= sample /\ 2 * (f.stamp - sample) < Wrap => since = f.stamp - sample
  BY <1>1, SinceIs
<1>4. /\ Patience \in Nat /\ 2 * Patience + 2 * MaxGap < Wrap /\ MaxGap \in Nat /\ Wrap \in Nat
      /\ sample \in 0 .. MaxGap
  BY WaitsAreShort, FollowerConstants DEF Typed
<1>5. Lost(f) <=> /\ f.haveStamp /\ f.period > 0 /\ ~f.announced
                  /\ since > 0 /\ since > w
  BY <1>2 DEF Lost
<1>. HIDE DEF w, since
<1>6. ASSUME ~Lost(f), LockStands(f), f.locked, f.stamp <= w + sample + MaxGap
      PROVE  f.stamp <= w + sample
  <2>1. ~(since > 0 /\ since > w)
    BY <1>5, <1>6 DEF LockStands
  <2>2. CASE f.stamp < sample
    BY <1>1, <1>2, <1>4, <2>2
  <2>3. CASE f.stamp >= sample
    <3>1. 2 * (f.stamp - sample) < Wrap
      BY <1>1, <1>2, <1>4, <1>6
    <3>2. since = f.stamp - sample
      BY <1>3, <2>3, <3>1
    <3>3. QED
      BY <1>1, <1>2, <1>4, <2>1, <3>2
  <2>4. QED
    BY <1>1, <1>4, <2>2, <2>3
<1>7. Lost(f) => f.haveStamp /\ ~f.announced /\ f.period > 0 /\ f.stamp - sample > w
  BY <1>3, <1>5
<1>8. QED
  BY <1>2, <1>6, <1>7 DEF w

\* Follower and clock when n pulses of the ring are consumed.
Reached(f, c, n) ==
  /\ f \in Followers /\ LockStands(f) /\ c \in Clocks
  /\ f.enabled /\ (f.announced => follower.announced)
  /\ c.tick = clock.tick /\ c.frac = clock.frac /\ c.beats = clock.beats /\ c.steered = clock.steered
  /\ c.rate = clock.rate \/ "EXT_LOCK" \in c.ext
  /\ f.locked => quiet <= f.stamp /\ f.stamp <= LossFactor * f.period + sample + MaxGap
  /\ n = 0 => f = follower
  /\ n # 0 => f.haveStamp /\ (f.stamp - deposited[n]) % Wrap < MinPeriod

\* What the clock keeps when the lock is declared.
LEMMA DeclaredClock ==
  ASSUME NEW f, NEW c \in Clocks, RateOf(f.period) \in Rates
  PROVE  LET d == DeclareLock(f, c)[2]
         IN  /\ d \in Clocks /\ "EXT_LOCK" \in d.ext
             /\ d.tick = c.tick /\ d.frac = c.frac /\ d.beats = c.beats /\ d.steered = c.steered
<1>. DEFINE r == SetTicksPerUs(c, RateOf(f.period))
            s == OrPendingEvent(r, "EXT_LOCK")
<1>1. /\ r \in Clocks
      /\ r.tick = c.tick /\ r.frac = c.frac /\ r.beats = c.beats /\ r.steered = c.steered
  BY DEF SetTicksPerUs, Clocks
<1>. HIDE DEF r
<1>2. "EXT_LOCK" \in External
  BY DEF External
<1>3. /\ s \in Clocks /\ "EXT_LOCK" \in s.ext
      /\ s.tick = c.tick /\ s.frac = c.frac /\ s.beats = c.beats /\ s.steered = c.steered
  BY <1>1, <1>2 DEF OrPendingEvent, Clocks
<1>. HIDE DEF s
<1>4. /\ Start(s) \in Clocks /\ "EXT_LOCK" \in Start(s).ext
      /\ Start(s).tick = c.tick /\ Start(s).frac = c.frac /\ Start(s).beats = c.beats
      /\ Start(s).steered = c.steered
  BY <1>3 DEF Start, Clocks
<1>5. DeclareLock(f, c)[2] = IF autoStart THEN Start(s) ELSE s
  BY DEF DeclareLock, s, r
<1>6. QED
  BY <1>3, <1>4, <1>5

\* The follower when a pulse is the first, the first after too long, or one more.
IsSeeded(f, g, stamp) ==
  /\ g \in Followers /\ g.stamp = stamp /\ g.haveStamp = TRUE /\ g.announced = FALSE
  /\ g.enabled = f.enabled /\ g.locked = f.locked

IsRestarted(f, g, stamp) ==
  /\ g \in Followers /\ g.stamp = stamp /\ g.haveStamp = TRUE /\ g.announced = FALSE
  /\ g.enabled = f.enabled /\ g.locked = FALSE

IsExtended(f, g, stamp, p) ==
  /\ g \in Followers /\ g.stamp = stamp /\ g.period = p /\ g.announced = FALSE
  /\ g.enabled = f.enabled /\ g.locked = f.locked /\ g.haveStamp = f.haveStamp
  /\ g.count = IF f.count < LockPulses THEN f.count + 1 ELSE f.count

LEMMA SeededIs ==
  ASSUME NEW f \in Followers, NEW stamp \in 0 .. Wrap - 1
  PROVE  /\ IsSeeded(f, Seeded(f, stamp), stamp)
         /\ IsRestarted(f, Seeded([f EXCEPT !.locked = FALSE, !.period = 0], stamp), stamp)
<1>. DEFINE e == [f EXCEPT !.locked = FALSE, !.period = 0]
<1>1. 1 \in 0 .. LockPulses /\ 0 \in {0} \cup (MinPeriod .. MaxPeriod)
  BY FollowerConstants
<1>2. IsSeeded(f, Seeded(f, stamp), stamp)
  BY <1>1 DEF Seeded, Followers, IsSeeded
<1>3. e \in Followers /\ e.locked = FALSE /\ e.enabled = f.enabled
  BY <1>1 DEF Followers
<1>. HIDE DEF e
<1>4. IsSeeded(e, Seeded(e, stamp), stamp)
  BY <1>1, <1>3 DEF Seeded, Followers, IsSeeded
<1>5. IsRestarted(f, Seeded(e, stamp), stamp)
  BY <1>3, <1>4 DEF IsSeeded, IsRestarted
<1>6. QED
  BY <1>2, <1>5 DEF e

LEMMA ExtendedIs ==
  ASSUME NEW f \in Followers, NEW stamp \in 0 .. Wrap - 1, NEW p \in MinPeriod .. MaxPeriod
  PROVE  IsExtended(f, Extended(f, stamp, p), stamp, p)
<1>1. f.count \in 0 .. LockPulses /\ LockPulses \in Nat
  BY FollowerConstants DEF Followers
<1>2. PICK n \in 0 .. LockPulses : n = IF f.count < LockPulses THEN f.count + 1 ELSE f.count
  BY <1>1
<1>3. Extended(f, stamp, p)
        = [f EXCEPT !.stamp = stamp, !.period = p, !.announced = FALSE, !.count = n]
  BY <1>2 DEF Extended
<1>4. QED
  BY <1>2, <1>3 DEF Followers, IsExtended

\* A pair and one more.
LEMMA Triple ==
  ASSUME NEW a, NEW b, NEW z
  PROVE  (<<a, b>> \o <<z>>)[1] = a /\ (<<a, b>> \o <<z>>)[2] = b
<1>. DEFINE S == {a, b, z}
            s == <<a, b>>
            t == <<z>>
<1>1. s \in Seq(S) /\ t \in Seq(S) /\ Len(s) = 2 /\ Len(t) = 1 /\ s[1] = a /\ s[2] = b
  OBVIOUS
<1>. HIDE DEF S, s, t
<1>2. \A i \in 1 .. Len(s) + Len(t) :
         (s \o t)[i] = IF i <= Len(s) THEN s[i] ELSE t[i - Len(s)]
  BY <1>1, ConcatProperties
<1>. DEFINE u == s \o t
<1>3. \A i \in 1 .. Len(s) + Len(t) : i <= Len(s) => u[i] = s[i]
  BY <1>2
<1>. HIDE DEF u
<1>4. u[1] = s[1] /\ u[2] = s[2]
  <2>1. 1 \in 1 .. Len(s) + Len(t) /\ 2 \in 1 .. Len(s) + Len(t) /\ 1 <= Len(s) /\ 2 <= Len(s)
    BY <1>1
  <2>2. QED
    BY <1>3, <2>1
<1>5. QED
  BY <1>1, <1>4 DEF s, t, u

\* The pulse that is consumed next.
LEMMA NextPulse ==
  ASSUME CInv, NEW n \in 1 .. Queued
  PROVE  /\ ring[(tail + n - 1) % RingSize] = deposited[n]
         /\ deposited[n] \in 0 .. Wrap - 1 /\ deposited[n] >= quiet
         /\ deposited[n] <= sample + MaxGap
<1>1. Typed /\ RingIsFifo /\ RingIsRecent
  BY DEF CInv
<1>2. /\ Queued \in 0 .. RingSize
      /\ \A i \in 1 .. Queued : deposited[i] = ring[Cell(i - 1)] /\ deposited[i] \in 0 .. Wrap - 1
  BY <1>1, DepositedIs
<1>3. tail + n - 1 = tail + (n - 1)
  BY <1>1, <1>2 DEF Typed
<1>4. deposited[n] >= quiet /\ deposited[n] <= sample + Slack
  BY <1>1 DEF RingIsRecent
<1>5. Slack \in 0 .. MaxGap /\ sample \in 0 .. MaxGap /\ MaxGap \in Nat
  BY <1>1, SlackIs, FollowerConstants DEF Typed
<1>6. deposited[n] <= sample + MaxGap
  BY <1>2, <1>4, <1>5, FollowerConstants
<1>7. QED
  BY <1>2, <1>3, <1>4, <1>6 DEF Cell

\* One more pulse.
LEMMA ConsumedReached ==
  ASSUME CInv, follower.enabled, NEW n \in 1 .. Queued, NEW f, NEW c, Reached(f, c, n - 1),
         NEW o \in ConsumePulse(f, c, ring[(tail + n - 1) % RingSize])
  PROVE  Reached(o[1], o[2], n)
<1>. DEFINE stamp == deposited[n]
            dt == Elapsed(stamp, f.stamp)
<1>1. /\ ring[(tail + n - 1) % RingSize] = stamp
      /\ stamp \in 0 .. Wrap - 1 /\ stamp >= quiet /\ stamp <= sample + MaxGap
  BY NextPulse
<1>2. /\ f \in Followers /\ LockStands(f) /\ c \in Clocks
      /\ f.enabled /\ (f.announced => follower.announced)
      /\ c.tick = clock.tick /\ c.frac = clock.frac /\ c.beats = clock.beats
      /\ c.steered = clock.steered
      /\ c.rate = clock.rate \/ "EXT_LOCK" \in c.ext
      /\ f.locked => quiet <= f.stamp /\ f.stamp <= LossFactor * f.period + sample + MaxGap
  BY DEF Reached
<1>3. Queued \in Nat /\ n # 0 /\ Wrap \in Nat \ {0} /\ MinPeriod \in Nat \ {0}
  BY QueuedIs, FollowerConstants DEF CInv
<1>. HIDE DEF stamp
<1>4. dt = (f.stamp - stamp) % Wrap /\ dt \in 0 .. Wrap - 1 /\ (stamp - stamp) % Wrap = 0
  <2>1. f.stamp - stamp \in Int /\ stamp - stamp = 0
    BY <1>1, <1>2 DEF Followers
  <2>2. QED
    BY <1>3, <2>1, ModRange, ModNear DEF Elapsed
<1>. HIDE DEF dt
<1>5. o \in ConsumePulse(f, c, stamp)
  BY <1>1
<1>6. CASE ~f.haveStamp
  <2>1. o = <<Seeded(f, stamp), c, FALSE>>
    BY <1>5, <1>6 DEF ConsumePulse
  <2>. DEFINE g == Seeded(f, stamp)
  <2>2. IsSeeded(f, g, stamp)
    BY <1>1, <1>2, SeededIs
  <2>. HIDE DEF g
  <2>3. o[1] = g /\ o[2] = c
    BY <2>1 DEF g
  <2>4. ~f.locked
    BY <1>2, <1>6 DEF LockStands
  <2>5. Reached(g, c, n)
    BY <1>2, <1>3, <1>4, <2>2, <2>4 DEF Reached, LockStands, IsSeeded, stamp
  <2>6. QED
    BY <2>3, <2>5
<1>7. CASE f.haveStamp /\ dt < MinPeriod
  <2>1. o = <<f, c, FALSE>>
    BY <1>5, <1>7 DEF ConsumePulse, dt
  <2>2. o[1] = f /\ o[2] = c
    BY <2>1
  <2>3. Reached(f, c, n)
    BY <1>2, <1>3, <1>4, <1>7 DEF Reached, stamp
  <2>4. QED
    BY <2>2, <2>3
<1>8. CASE f.haveStamp /\ ~(dt < MinPeriod) /\ dt > MaxPeriod
  <2>. DEFINE h == Seeded([f EXCEPT !.locked = FALSE, !.period = 0], stamp)
  <2>1. o = <<h, c, FALSE>>
    BY <1>5, <1>8 DEF ConsumePulse, dt
  <2>2. IsRestarted(f, h, stamp)
    BY <1>1, <1>2, SeededIs
  <2>. HIDE DEF h
  <2>3. o[1] = h /\ o[2] = c
    BY <2>1
  <2>4. Reached(h, c, n)
    BY <1>2, <1>3, <1>4, <2>2 DEF Reached, LockStands, IsRestarted, stamp
  <2>5. QED
    BY <2>3, <2>4
<1>9. CASE f.haveStamp /\ ~(dt < MinPeriod) /\ ~(dt > MaxPeriod)
  <2>1. PICK p \in Smoothed(f.period, dt) :
          o = IF ~f.locked /\ Extended(f, stamp, p).count >= LockPulses
              THEN DeclareLock(Extended(f, stamp, p), c) \o <<FALSE>>
              ELSE <<Extended(f, stamp, p), c, f.locked>>
    BY <1>5, <1>9 DEF ConsumePulse, dt
  <2>2. p \in MinPeriod .. MaxPeriod
    <3>1. dt \in MinPeriod .. MaxPeriod /\ f.period \in {0} \cup (MinPeriod .. MaxPeriod)
      BY <1>2, <1>4, <1>9, FollowerConstants DEF Followers
    <3>2. QED
      BY <2>1, <3>1, FollowerConstants DEF Smoothed
  <2>. DEFINE g == Extended(f, stamp, p)
              k == DeclareLock(g, c)
              l == [g EXCEPT !.locked = TRUE]
  <2>3. /\ g \in Followers /\ g.stamp = stamp /\ g.period = p /\ g.announced = FALSE
        /\ g.enabled = f.enabled /\ g.locked = f.locked /\ g.haveStamp = f.haveStamp
        /\ g.count = IF f.count < LockPulses THEN f.count + 1 ELSE f.count
    <3>. HIDE DEF g
    <3>1. IsExtended(f, g, stamp, p)
      BY <1>1, <1>2, <2>2, ExtendedIs DEF g
    <3>2. QED
      BY <3>1 DEF IsExtended
  <2>4. quiet <= stamp /\ stamp <= LossFactor * p + sample + MaxGap /\ p > 0
    <3>1. p \in 0 .. MaxPeriod /\ p > 0
      BY <2>2, FollowerConstants
    <3>2. LossFactor * p \in Nat
      BY <3>1, WaitsAreShort
    <3>3. sample \in Nat /\ MaxGap \in Nat /\ quiet \in Nat
      BY FollowerConstants, WaitsAreShort DEF CInv, Typed
    <3>. DEFINE w == LossFactor * p
    <3>4. w \in Nat
      BY <3>2
    <3>. HIDE DEF w
    <3>5. stamp <= w + sample + MaxGap
      BY <1>1, <3>3, <3>4
    <3>6. QED
      BY <1>1, <3>1, <3>3, <3>5 DEF w
  <2>5. CASE ~(~f.locked /\ g.count >= LockPulses)
    <3>1. o[1] = g /\ o[2] = c
      BY <2>1, <2>5
    <3>2. f.locked => g.count = LockPulses
      BY <1>2, <2>3, FollowerConstants DEF LockStands, Followers
    <3>. HIDE DEF g
    <3>3. LockStands(g)
      BY <1>2, <1>9, <2>3, <2>4, <3>2 DEF LockStands
    <3>4. Reached(g, c, n)
      BY <1>2, <1>3, <1>4, <1>9, <2>3, <2>4, <3>3 DEF Reached, stamp
    <3>5. QED
      BY <3>1, <3>4
  <2>6. CASE ~f.locked /\ g.count >= LockPulses
    <3>1. o = k \o <<FALSE>> /\ k = <<k[1], k[2]>> /\ k[1] = l
      BY <2>1, <2>6 DEF DeclareLock
    <3>. HIDE DEF k
    <3>2. o[1] = l /\ o[2] = k[2]
      <4>1. o = <<k[1], k[2]>> \o <<FALSE>>
        BY <3>1
      <4>2. o[1] = k[1] /\ o[2] = k[2]
        BY <4>1, Triple
      <4>3. QED
        BY <3>1, <4>2
    <3>3. RateOf(g.period) \in Rates
      BY <2>2, <2>3, FollowerConstants
    <3>4. /\ k[2] \in Clocks /\ "EXT_LOCK" \in k[2].ext
          /\ k[2].tick = c.tick /\ k[2].frac = c.frac /\ k[2].beats = c.beats
          /\ k[2].steered = c.steered
      BY <1>2, <3>3, DeclaredClock DEF k
    <3>5. g.count = LockPulses
      BY <1>2, <2>3, <2>6, FollowerConstants DEF Followers
    <3>. HIDE DEF g
    <3>6. /\ l \in Followers /\ l.locked = TRUE /\ l.stamp = stamp /\ l.period = p
          /\ l.announced = FALSE /\ l.enabled = f.enabled /\ l.haveStamp = f.haveStamp
          /\ l.count = LockPulses
      BY <2>3, <3>5 DEF Followers
    <3>. HIDE DEF l
    <3>7. LockStands(l)
      BY <1>2, <1>9, <2>4, <3>6 DEF LockStands
    <3>8. Reached(l, k[2], n)
      BY <1>2, <1>3, <1>4, <1>9, <2>4, <3>4, <3>6, <3>7 DEF Reached, stamp
    <3>9. QED
      BY <3>2, <3>8
  <2>7. QED
    BY <2>5, <2>6
<1>10. QED
  BY <1>6, <1>7, <1>8, <1>9

\* All pulses of the ring.
LEMMA DrainedReached ==
  ASSUME CInv, follower.enabled, NEW s \in Drained
  PROVE  Reached(s[1], s[2], Queued)
<1>1. Queued \in Nat
  BY QueuedIs DEF CInv
<1>2. PICK g : Drains(g, Queued) /\ Drained = g[Queued]
  BY <1>1, DrainedIs
<1>3. \A i \in 0 .. Queued :
        g[i] = IF i = 0 THEN {<<follower, clock, FALSE>>} ELSE Consumed(g[i - 1], i)
  BY <1>2 DEF Drains
<1>. DEFINE T == {i \in 0 .. Queued : ~\A z \in g[i] : Reached(z[1], z[2], i)}
<1>4. ASSUME T # {} PROVE FALSE
  <2>1. PICK x \in T : \A y \in T : x <= y
    <3>1. T \in SUBSET Nat
      BY <1>1
    <3>. HIDE DEF T
    <3>2. QED
      BY <1>4, <3>1, Least
  <2>2. PICK z \in g[x] : ~Reached(z[1], z[2], x)
    BY <2>1
  <2>3. CASE x = 0
    <3>1. z[1] = follower /\ z[2] = clock
      <4>1. 0 \in 0 .. Queued /\ z \in g[0]
        BY <1>1, <2>2, <2>3
      <4>2. z = <<follower, clock, FALSE>>
        BY <1>3, <4>1
      <4>3. QED
        BY <4>2
    <3>2. Reached(follower, clock, 0)
      <4>1. /\ follower \in Followers /\ LockStands(follower) /\ clock \in Clocks
            /\ follower.locked => /\ quiet <= follower.stamp
                                  /\ follower.stamp <= LossFactor * follower.period + sample + Slack
        BY DEF CInv, Typed, LockIsRecent
      <4>. DEFINE w == LossFactor * follower.period
      <4>2. w \in Nat /\ follower.stamp \in Nat /\ sample \in Nat /\ Slack \in 0 .. MaxGap
            /\ MaxGap \in Nat
        <5>1. follower.period \in 0 .. MaxPeriod /\ follower.stamp \in Nat /\ sample \in Nat
          BY <4>1, FollowerConstants DEF Followers, CInv, Typed
        <5>2. w \in Nat
          BY <5>1, WaitsAreShort
        <5>3. QED
          BY <5>1, <5>2, SlackIs, FollowerConstants DEF CInv, Typed
      <4>3. follower.locked => follower.stamp <= w + sample + Slack
        BY <4>1
      <4>. HIDE DEF w
      <4>4. follower.locked => follower.stamp <= w + sample + MaxGap
        BY <4>2, <4>3
      <4>5. QED
        BY <4>1, <4>4 DEF Reached, w
    <3>3. QED
      BY <2>2, <2>3, <3>1, <3>2
  <2>4. CASE x # 0
    <3>1. x \in 1 .. Queued /\ x - 1 \in 0 .. Queued /\ x - 1 \notin T
      BY <1>1, <2>1, <2>4
    <3>2. z \in Consumed(g[x - 1], x)
      BY <1>3, <2>1, <2>2, <2>4
    <3>3. PICK y \in g[x - 1] :
            \E o \in ConsumePulse(y[1], y[2], ring[(tail + x - 1) % RingSize]) :
              z = <<o[1], o[2], y[3] \/ o[3]>>
      BY <3>2 DEF Consumed
    <3>4. PICK o \in ConsumePulse(y[1], y[2], ring[(tail + x - 1) % RingSize]) :
            z = <<o[1], o[2], y[3] \/ o[3]>>
      BY <3>3
    <3>5. Reached(y[1], y[2], x - 1)
      BY <3>1, <3>3
    <3>6. Reached(o[1], o[2], x)
      BY <3>1, <3>4, <3>5, ConsumedReached
    <3>7. z[1] = o[1] /\ z[2] = o[2]
      BY <3>4
    <3>8. QED
      BY <2>2, <3>6, <3>7
  <2>5. QED
    BY <2>3, <2>4
<1>5. QED
  BY <1>1, <1>2, <1>4

\* Follower and clock when a poll has drained the ring, handled a loss and corrected the rate.
Polled(f, c) ==
  /\ f \in Followers /\ LockStands(f) /\ f.enabled = follower.enabled
  /\ c \in Clocks
  /\ c.tick = clock.tick /\ c.frac = clock.frac /\ c.beats = clock.beats /\ c.steered = clock.steered
  /\ f.locked => quiet <= f.stamp /\ f.stamp <= LossFactor * f.period + sample
  /\ f.haveStamp /\ ~dropped
       => quiet = LongAgo \/ (f.stamp >= quiet /\ f.stamp - quiet < MinPeriod)
  /\ ~follower.announced /\ f.announced
       => dropped \/ quiet - sample > LossFactor * f.period - MinPeriod
  /\ policy = "Freeze" /\ follower.enabled /\ ~f.locked /\ "EXT_LOCK" \notin c.ext
     /\ (clock.rate = 0 \/ (f.announced /\ ~follower.announced)) => c.rate = 0

\* The stamp of a follower that has drained the ring is the last pulse's, up to a glitch.
LEMMA DrainedStamp ==
  ASSUME CInv, NEW f, NEW c, Reached(f, c, Queued), f.haveStamp, ~dropped
  PROVE  quiet = LongAgo \/ (f.stamp >= quiet /\ f.stamp - quiet < MinPeriod)
<1>1. CASE Queued = 0
  <2>1. f = follower
    BY <1>1 DEF Reached
  <2>2. QED
    BY <1>1, <2>1 DEF CInv, StampIsLast
<1>2. CASE Queued # 0
  <2>1. Queued \in 1 .. Queued /\ Queued > 0
    BY <1>2, QueuedIs DEF CInv
  <2>2. deposited[Queued] = quiet /\ deposited[Queued] <= sample + MaxGap
    BY <2>1, NextPulse DEF CInv, RingIsRecent
  <2>3. (f.stamp - quiet) % Wrap < MinPeriod
    BY <1>2, <2>2 DEF Reached
  <2>4. /\ sample \in 0 .. MaxGap /\ quiet \in Nat /\ f.stamp \in 0 .. Wrap - 1
        /\ MaxGap \in Nat /\ Wrap \in Nat \ {0} /\ MinPeriod \in Nat \ {0}
        /\ Patience \in Nat /\ Patience + 2 * MaxGap + 1 + MinPeriod <= Wrap
    BY WaitsAreShort, FollowerConstants DEF CInv, Typed, Reached, Followers
  <2>5. CASE f.stamp >= quiet
    <3>1. f.stamp - quiet \in 0 .. Wrap - 1 /\ f.stamp - quiet \in Int
      BY <2>4, <2>5
    <3>2. (f.stamp - quiet) % Wrap = f.stamp - quiet
      BY <2>4, <3>1, ModNear
    <3>3. QED
      BY <2>3, <2>5, <3>2
  <2>6. CASE f.stamp < quiet
    <3>1. f.stamp - quiet < 0 /\ f.stamp - quiet + Wrap >= MinPeriod /\ f.stamp - quiet \in Int
      BY <2>2, <2>4, <2>6
    <3>2. f.stamp - quiet + Wrap >= 0
      BY <2>4, <3>1
    <3>3. (f.stamp - quiet) % Wrap = f.stamp - quiet + Wrap
      BY <2>4, <3>1, <3>2, ModNear
    <3>4. QED
      BY <2>3, <2>4, <3>1, <3>3
  <2>7. QED
    BY <2>4, <2>5, <2>6
<1>3. QED
  BY <1>1, <1>2

\* What the handling of a loss leaves of follower and clock.
LEMMA HandledIs ==
  ASSUME NEW f \in Followers, NEW c \in Clocks, policy \in Policies
  PROVE  LET g == HandleLoss(f, c)[1]
             d == HandleLoss(f, c)[2]
         IN  /\ g \in Followers /\ g.locked = FALSE /\ g.haveStamp = FALSE /\ g.enabled = f.enabled
             /\ g.period = f.period
             /\ d \in Clocks
             /\ d.tick = c.tick /\ d.frac = c.frac /\ d.beats = c.beats /\ d.steered = c.steered
             /\ policy = "Freeze" => d.rate = 0
<1>. DEFINE g == [f EXCEPT !.locked = FALSE, !.haveStamp = FALSE, !.stamp = 0, !.count = 0,
                           !.announced = TRUE]
            told == OrPendingEvent(c, "EXT_LOST")
            d == CASE policy = "Freewheel" -> told
                   [] policy = "Freeze"    -> SetTicksPerUs(told, 0)
                   [] policy = "Stop"      -> Stop(told)
<1>1. HandleLoss(f, c)[1] = g /\ HandleLoss(f, c)[2] = d
  BY DEF HandleLoss
<1>2. 0 \in 0 .. Wrap - 1 /\ 0 \in 0 .. LockPulses /\ 0 \in Rates
  BY FollowerConstants, ClockConstants
<1>3. /\ g \in Followers /\ g.locked = FALSE /\ g.haveStamp = FALSE /\ g.enabled = f.enabled
      /\ g.period = f.period
  BY <1>2 DEF Followers
<1>4. "EXT_LOST" \in External
  BY DEF External
<1>5. /\ told \in Clocks
      /\ told.tick = c.tick /\ told.frac = c.frac /\ told.beats = c.beats /\ told.steered = c.steered
  BY <1>4 DEF OrPendingEvent, Clocks
<1>. HIDE DEF told, g
<1>6. CASE policy = "Freewheel"
  <2>1. d = told
    BY <1>6
  <2>2. QED
    BY <1>1, <1>3, <1>5, <1>6, <2>1
<1>7. CASE policy = "Freeze"
  <2>1. d = SetTicksPerUs(told, 0)
    BY <1>7
  <2>. HIDE DEF d
  <2>2. /\ d \in Clocks /\ d.rate = 0
        /\ d.tick = told.tick /\ d.frac = told.frac /\ d.beats = told.beats
        /\ d.steered = told.steered
    BY <1>2, <1>5, <2>1 DEF SetTicksPerUs, Clocks
  <2>3. QED
    BY <1>1, <1>3, <1>5, <2>2
<1>8. CASE policy = "Stop"
  <2>1. d = Stop(told)
    BY <1>8
  <2>. HIDE DEF d
  <2>2. /\ d \in Clocks
        /\ d.tick = told.tick /\ d.frac = told.frac /\ d.beats = told.beats
        /\ d.steered = told.steered
    BY <1>5, <2>1 DEF Stop, Clocks
  <2>3. QED
    BY <1>1, <1>3, <1>5, <1>8, <2>2
<1>9. QED
  BY <1>6, <1>7, <1>8, FollowerConstants

LEMMA UpdatePolls ==
  ASSUME CInv, polling, NEW o \in UpdateOutcomes
  PROVE  Polled(o[1], o[2])
<1>1. Typed
  BY DEF CInv
<1>2. CASE ~follower.enabled
  <2>1. o = <<follower, clock>>
    BY <1>2 DEF UpdateOutcomes
  <2>2. o[1] = follower /\ o[2] = clock
    BY <2>1
  <2>3. /\ follower \in Followers /\ LockStands(follower) /\ clock \in Clocks
        /\ ~follower.locked /\ ~follower.haveStamp
    BY <1>2 DEF CInv, Typed, LockStands, Steers
  <2>4. Polled(follower, clock)
    BY <1>2, <2>3 DEF Polled
  <2>5. QED
    BY <2>2, <2>4
<1>3. CASE follower.enabled
  <2>1. PICK s \in Drained :
          o \in IF Lost(s[1]) THEN {HandleLoss(s[1], s[2])}
                ELSE IF s[1].locked /\ s[3]
                THEN {<<s[1], SetTicksPerUs(s[2], r)>> : r \in Rates}
                ELSE {<<s[1], s[2]>>}
    BY <1>3 DEF UpdateOutcomes
  <2>. DEFINE f == s[1]
              c == s[2]
  <2>2. Reached(f, c, Queued)
    BY <1>3, <2>1, DrainedReached
  <2>. HIDE DEF f, c
  <2>3. /\ f \in Followers /\ LockStands(f) /\ c \in Clocks
        /\ f.enabled /\ (f.announced => follower.announced)
        /\ c.tick = clock.tick /\ c.frac = clock.frac /\ c.beats = clock.beats
        /\ c.steered = clock.steered
        /\ c.rate = clock.rate \/ "EXT_LOCK" \in c.ext
        /\ f.locked => quiet <= f.stamp /\ f.stamp <= LossFactor * f.period + sample + MaxGap
    BY <2>2 DEF Reached
  <2>4. f.haveStamp /\ ~dropped
          => quiet = LongAgo \/ (f.stamp >= quiet /\ f.stamp - quiet < MinPeriod)
    BY <2>2, DrainedStamp
  <2>5. CASE Lost(f)
    <3>. DEFINE g == HandleLoss(f, c)[1]
                d == HandleLoss(f, c)[2]
    <3>1. o = HandleLoss(f, c)
      BY <2>1, <2>5 DEF f, c
    <3>2. o[1] = g /\ o[2] = d
      BY <3>1
    <3>3. /\ g \in Followers /\ g.locked = FALSE /\ g.haveStamp = FALSE /\ g.enabled = f.enabled
          /\ g.period = f.period
          /\ d \in Clocks
          /\ d.tick = c.tick /\ d.frac = c.frac /\ d.beats = c.beats /\ d.steered = c.steered
          /\ policy = "Freeze" => d.rate = 0
      BY <1>1, <2>3, HandledIs DEF Typed
    <3>. HIDE DEF g, d
    <3>4. f.haveStamp /\ f.stamp - sample > f.period * LossFactor
      BY <1>1, <2>3, <2>5, LostIs
    <3>5. ASSUME ~dropped PROVE quiet - sample > LossFactor * f.period - MinPeriod
      <4>. DEFINE w == LossFactor * f.period
      <4>1. f.period \in 0 .. MaxPeriod /\ f.stamp \in Nat
        BY <2>3, FollowerConstants DEF Followers
      <4>2. w \in Nat /\ w <= Patience /\ f.period * LossFactor = w
        <5>1. w \in Nat /\ w <= Patience
          BY <4>1, WaitsAreShort
        <5>2. f.period \in Int /\ LossFactor \in Int
          BY <4>1, FollowerConstants
        <5>3. QED
          BY <5>1, <5>2
      <4>3. /\ sample \in 0 .. MaxGap /\ quiet \in Nat /\ MaxGap \in Nat
            /\ MinPeriod \in Nat \ {0} /\ Patience \in Nat /\ LongAgo = Patience + 2 * MaxGap + 1
        BY <1>1, FollowerConstants, WaitsAreShort DEF Typed
      <4>4. f.stamp - sample > w
        BY <3>4, <4>2
      <4>. HIDE DEF w
      <4>5. CASE quiet = LongAgo
        <5>1. quiet - sample > w - MinPeriod
          BY <4>2, <4>3, <4>5
        <5>2. QED
          BY <5>1 DEF w
      <4>6. CASE f.stamp >= quiet /\ f.stamp - quiet < MinPeriod
        <5>1. quiet - sample > w - MinPeriod
          BY <4>1, <4>2, <4>3, <4>4, <4>6
        <5>2. QED
          BY <5>1 DEF w
      <4>7. QED
        BY <2>4, <3>4, <3>5, <4>5, <4>6
    <3>6. Polled(g, d)
      BY <1>3, <2>3, <3>3, <3>5 DEF Polled, LockStands
    <3>7. QED
      BY <3>2, <3>6
  <2>6. CASE ~Lost(f)
    <3>1. f.locked => quiet <= f.stamp /\ f.stamp <= LossFactor * f.period + sample
      BY <1>1, <2>3, <2>6, LostIs
    <3>2. CASE f.locked /\ s[3]
      <4>1. PICK r \in Rates : o = <<f, SetTicksPerUs(c, r)>>
        BY <2>1, <2>6, <3>2 DEF f, c
      <4>. DEFINE d == SetTicksPerUs(c, r)
      <4>2. o[1] = f /\ o[2] = d
        BY <4>1
      <4>3. /\ d \in Clocks
            /\ d.tick = c.tick /\ d.frac = c.frac /\ d.beats = c.beats /\ d.steered = c.steered
        BY <2>3 DEF SetTicksPerUs, Clocks
      <4>. HIDE DEF d
      <4>4. Polled(f, d)
        BY <1>3, <2>3, <2>4, <3>1, <3>2, <4>3 DEF Polled, LockStands
      <4>5. QED
        BY <4>2, <4>4
    <3>3. CASE ~(f.locked /\ s[3])
      <4>1. o = <<f, c>>
        BY <2>1, <2>6, <3>3 DEF f, c
      <4>2. o[1] = f /\ o[2] = c
        BY <4>1
      <4>3. Polled(f, c)
        BY <1>3, <2>3, <2>4, <3>1 DEF Polled
      <4>4. QED
        BY <4>2, <4>3
    <3>4. QED
      BY <3>2, <3>3
  <2>7. QED
    BY <2>5, <2>6
<1>4. QED
  BY <1>2, <1>3

\* What the properties of a step ask.
LossStep ==
  ~follower.announced /\ follower'.announced =>
    dropped \/ quiet - Behind > LossFactor * follower'.period - MinPeriod

FreezeStep ==
  policy = "Freeze" /\ follower.enabled /\ follower'.enabled /\ ~follower'.locked
  /\ "EXT_LOCK" \notin clock'.events
  /\ (clock.rate = 0 \/ (follower'.announced /\ ~follower.announced))
  => clock'.rate = 0

StartStep ==
  WorkDone /\ "START" \in clock'.events /\ "RESET" \notin clock'.events
  => clock'.tick = clock.tick /\ clock'.frac = clock.frac

EventsStep ==
  WorkDone /\ "RESET" \notin clock'.events =>
    LET passed == (clock'.tick - clock.tick) % Cycle
    IN  \A p \in Periods(clock.beats) :
          p \in clock'.notes <=> (clock.tick % p) + passed >= p

\* How far a timeline within a cycle has moved.
LEMMA MovedOn ==
  ASSUME NEW t \in 0 .. Cycle - 1, NEW n \in 0 .. Cycle - 1
  PROVE  (((t + n) % Cycle) - t) % Cycle = n
<1>1. Cycle \in Nat \ {0}
  BY ClockConstants
<1>2. CASE t + n < Cycle
  <2>1. t + n \in 0 .. Cycle - 1 /\ t + n \in Int /\ n \in Int
    BY <1>1, <1>2
  <2>2. (t + n) % Cycle = t + n /\ n % Cycle = n
    BY <1>1, <2>1, ModNear
  <2>3. (t + n) - t = n
    BY <1>1
  <2>4. QED
    BY <2>2, <2>3
<1>3. CASE t + n >= Cycle
  <2>1. t + n \in Cycle .. 2 * Cycle - 1 /\ t + n \in Int
    BY <1>1, <1>3
  <2>2. (t + n) % Cycle = t + n - Cycle
    BY <1>1, <2>1, ModNear
  <2>3. (t + n - Cycle) - t = n - Cycle /\ n - Cycle < 0 /\ (n - Cycle) + Cycle >= 0 /\ n - Cycle \in Int
    BY <1>1
  <2>4. (n - Cycle) % Cycle = (n - Cycle) + Cycle
    BY <1>1, <2>3, ModNear
  <2>5. QED
    BY <1>1, <2>2, <2>3, <2>4
<1>4. QED
  BY <1>1, <1>2, <1>3

\* The work of a poll.
LEMMA EndPollInv ==
  ASSUME CInv, EndPoll
  PROVE  CInv' /\ LossStep /\ FreezeStep /\ StartStep /\ EventsStep
<1>1. PICK o \in UpdateOutcomes : follower' = o[1] /\ clock' = Tick(o[2], sample)
  BY DEF EndPoll
<1>2. /\ polling /\ polling' = FALSE
      /\ IF follower.enabled THEN Emptied ELSE UNCHANGED <<ring, tail, deposited>>
      /\ UNCHANGED <<sample, head, policy, autoStart, quiet, dropped>>
  BY DEF EndPoll
<1>3. Typed /\ RingIsFifo /\ Steers
  BY DEF CInv
<1>. DEFINE f == o[1]
            c == o[2]
<1>4. Polled(f, c)
  BY <1>1, <1>2, UpdatePolls
<1>5. follower' = f /\ clock' = Tick(c, sample)
  BY <1>1
<1>. HIDE DEF f, c
<1>6. /\ f \in Followers /\ LockStands(f) /\ f.enabled = follower.enabled
      /\ c \in Clocks
      /\ c.tick = clock.tick /\ c.frac = clock.frac /\ c.beats = clock.beats
      /\ c.steered = clock.steered
      /\ f.locked => quiet <= f.stamp /\ f.stamp <= LossFactor * f.period + sample
      /\ f.haveStamp /\ ~dropped
           => quiet = LongAgo \/ (f.stamp >= quiet /\ f.stamp - quiet < MinPeriod)
      /\ ~follower.announced /\ f.announced
           => dropped \/ quiet - sample > LossFactor * f.period - MinPeriod
      /\ policy = "Freeze" /\ follower.enabled /\ ~f.locked /\ "EXT_LOCK" \notin c.ext
         /\ (clock.rate = 0 \/ (f.announced /\ ~follower.announced)) => c.rate = 0
  BY <1>4 DEF Polled
<1>. DEFINE t == Tick(c, sample)
<1>7. /\ t \in Clocks /\ c.ext \subseteq t.events
      /\ t.rate = c.rate /\ t.beats = c.beats /\ t.steered = c.steered
      /\ "RESET" \notin t.events =>
           \E n \in 0 .. Cycle - 1 : /\ t.tick = (c.tick + n) % Cycle
                                     /\ t.notes = BeginAmong(c.tick, n, c.beats)
      /\ "RESET" \notin t.events /\ "START" \in t.events
           => t.tick = c.tick /\ t.frac = c.frac
  <2>1. sample \in 0 .. Wrap - 1
    <3>1. sample \in 0 .. MaxGap
      BY <1>3 DEF Typed
    <3>2. QED
      BY <3>1, WaitsAreShort, FollowerConstants
  <2>2. QED
    BY <1>6, <2>1, Ticked
<1>8. clock' = t
  BY <1>5
<1>. HIDE DEF t
<1>9. Slack' = 0 /\ LongAgo' = LongAgo
  BY <1>2 DEF Slack, LongAgo
<1>10. LockStands(follower)'
  BY <1>5, <1>6 DEF LockStands
<1>11. Typed' /\ RingIsFifo' /\ RingIsRecent' /\ Queued' = 0
  <2>1. CASE follower.enabled
    <3>1. /\ ring' \in [0 .. RingSize - 1 -> 0 .. Wrap - 1] /\ tail' \in 0 .. Indices - 1
          /\ head' = tail' /\ deposited' = <<>>
      BY <1>2, <1>3, <2>1, EmptiedIs
    <3>2. Typed'
      BY <1>2, <1>3, <1>5, <1>6, <1>7, <1>8, <1>9, <1>10, <3>1 DEF Typed
    <3>3. (Typed /\ head = tail /\ deposited = <<>>)'
      BY <3>1, <3>2
    <3>4. (RingIsFifo /\ RingIsRecent /\ Queued = 0)'
      BY <3>3, EmptyRing, PTL
    <3>5. QED
      BY <3>2, <3>4
  <2>2. CASE ~follower.enabled
    <3>1. Queued' = Queued /\ Queued = 0 /\ UNCHANGED <<ring, tail, deposited>>
      BY <1>2, <1>3, <2>2 DEF Queued, Steers
    <3>2. Typed'
      BY <1>2, <1>3, <1>5, <1>6, <1>7, <1>8, <1>9, <1>10, <3>1 DEF Typed
    <3>3. RingIsFifo'
      BY <1>3, <3>1 DEF RingIsFifo
    <3>4. RingIsRecent'
      BY <3>1 DEF RingIsRecent
    <3>5. QED
      BY <3>1, <3>2, <3>3, <3>4
  <2>3. QED
    BY <2>1, <2>2
<1>12. LockIsRecent'
  <2>. DEFINE w == LossFactor * f.period
  <2>1. w \in Nat /\ sample \in Nat
    <3>1. f.period \in 0 .. MaxPeriod
      BY <1>6, FollowerConstants DEF Followers
    <3>2. QED
      BY <1>3, <3>1, WaitsAreShort DEF Typed
  <2>2. w + sample + 0 = w + sample
    BY <2>1
  <2>3. QED
    BY <1>2, <1>5, <1>6, <1>9, <2>2 DEF LockIsRecent
<1>13. StampIsLast'
  BY <1>2, <1>5, <1>6, <1>9 DEF StampIsLast
<1>14. Steers'
  <2>1. ~f.enabled => ~f.haveStamp
    <3>. SUFFICES ASSUME ~f.enabled PROVE ~f.haveStamp
      OBVIOUS
    <3>1. o = <<follower, clock>>
      BY <1>1, <1>6 DEF UpdateOutcomes
    <3>2. f = follower
      BY <3>1 DEF f
    <3>3. QED
      BY <1>3, <3>2 DEF Steers
  <2>2. f.enabled => t.steered
    BY <1>3, <1>6, <1>7 DEF Steers
  <2>3. QED
    BY <1>5, <1>8, <1>11, <2>1, <2>2 DEF Steers
<1>15. LossStep
  BY <1>3, <1>5, <1>6, BehindIs DEF LossStep
<1>16. FreezeStep
  BY <1>5, <1>6, <1>7, <1>8 DEF FreezeStep
<1>17. StartStep
  BY <1>6, <1>7, <1>8 DEF StartStep
<1>18. EventsStep
  <2>. SUFFICES ASSUME "RESET" \notin t.events, NEW p \in Periods(clock.beats)
                PROVE  p \in t.notes <=>
                         (clock.tick % p) + ((t.tick - clock.tick) % Cycle) >= p
    BY <1>8 DEF EventsStep
  <2>1. PICK n \in 0 .. Cycle - 1 : /\ t.tick = (clock.tick + n) % Cycle
                                    /\ t.notes = BeginAmong(clock.tick, n, clock.beats)
    BY <1>6, <1>7
  <2>2. clock.tick \in 0 .. Cycle - 1 /\ clock.beats \in BarLengths
    BY <1>3 DEF Typed, Clocks
  <2>3. p \in Nat \ {0} /\ clock.tick \in Nat /\ n \in Nat
    BY <2>2, PeriodsArePositive, ClockConstants
  <2>4. (t.tick - clock.tick) % Cycle = n
    BY <2>1, <2>2, MovedOn
  <2>5. p \in t.notes <=> \E k \in 1 .. n : (clock.tick + k) % p = 0
    BY <2>1 DEF BeginAmong
  <2>6. QED
    BY <2>3, <2>4, <2>5, Passed
<1>19. QED
  BY <1>11, <1>12, <1>13, <1>14, <1>15, <1>16, <1>17, <1>18 DEF CInv

-----------------------------------------------------------------------------
(* The theorems                                                            *)

\* Every step but that which ends a poll keeps what the clock's Tick told, or is none of its work.
StepsHold == LossStep /\ FreezeStep /\ StartStep /\ EventsStep

LEMMA NoWork ==
  ASSUME CInv, ~(polling /\ ~polling'), follower'.announced => follower.announced,
         clock'.rate = clock.rate \/ clock'.rate = 0 \/ ~follower'.enabled
  PROVE  StepsHold
BY DEF StepsHold, LossStep, FreezeStep, StartStep, EventsStep, WorkDone

LEMMA NextInv ==
  ASSUME CInv, [Next]_vars
  PROVE  CInv' /\ StepsHold
<1>0. /\ clock \in Clocks /\ follower \in Followers /\ polling \in BOOLEAN
      /\ (follower.enabled => clock.steered)
  BY DEF CInv, Typed, Steers
<1>1. CASE OnPulse
  <2>1. CInv'
    BY <1>1, PulseInv, FullPulseInv
  <2>2. polling' = polling /\ follower' = follower /\ clock' = clock
    BY <1>1 DEF OnPulse
  <2>3. QED
    BY <1>0, <2>1, <2>2, NoWork
<1>2. CASE Pass
  <2>1. CInv'
    BY <1>2, PassInv
  <2>2. /\ polling' = polling /\ clock' = Aged(clock)
        /\ follower' = IF follower.haveStamp THEN [follower EXCEPT !.stamp = Older(@)] ELSE follower
    BY <1>2 DEF Pass
  <2>3. clock'.rate = clock.rate
    BY <1>0, <2>2, AgedTyped
  <2>4. follower'.announced = follower.announced
    BY <1>0, <2>2 DEF Followers
  <2>5. QED
    BY <1>0, <2>1, <2>2, <2>3, <2>4, NoWork
<1>3. CASE BeginPoll
  <2>1. CInv'
    BY <1>3, BeginPollInv
  <2>2. ~polling /\ follower' = follower /\ clock' = clock
    BY <1>3 DEF BeginPoll
  <2>3. QED
    BY <2>1, <2>2, NoWork
<1>4. CASE EndPoll
  BY <1>4, EndPollInv DEF StepsHold
<1>5. CASE Enable
  <2>1. CInv' /\ clock'.rate = 0
    BY <1>5, EnableInv
  <2>2. ~polling /\ ~follower'.announced
    BY <1>5, NewFollowers DEF Enable, Call
  <2>3. QED
    BY <2>1, <2>2, NoWork
<1>6. CASE Disable
  <2>1. CInv' /\ ~follower'.enabled
    BY <1>6, DisableInv
  <2>2. ~polling /\ ~follower'.announced
    BY <1>6, NewFollowers DEF Disable, Call
  <2>3. QED
    BY <2>1, <2>2, NoWork
<1>7. CASE SetExtPpqn
  <2>1. CInv' /\ follower'.announced = follower.announced
    BY <1>7, SetExtPpqnInv
  <2>2. ~polling /\ clock' = clock
    BY <1>7 DEF SetExtPpqn, Call
  <2>3. QED
    BY <2>1, <2>2, NoWork
<1>8. ASSUME NEW d, Calls(d), d \in Clocks, d.steered = clock.steered,
             d.rate = clock.rate \/ ~follower.enabled
      PROVE  CInv' /\ StepsHold
  <2>1. CInv'
    BY <1>8, CallsInv
  <2>2. ~polling /\ follower' = follower /\ clock' = d
    BY <1>8 DEF Calls, Call
  <2>3. QED
    BY <1>8, <2>1, <2>2, NoWork
<1>9. CASE Calls(Start(clock)) \/ Calls(Stop(clock)) \/ Calls(Reset(clock))
  <2>1. \E b \in BarLengths : TRUE
    BY LongestBar
  <2>2. /\ Start(clock) \in Clocks /\ Start(clock).steered = clock.steered /\ Start(clock).rate = clock.rate
        /\ Stop(clock) \in Clocks /\ Stop(clock).steered = clock.steered /\ Stop(clock).rate = clock.rate
        /\ Reset(clock) \in Clocks /\ Reset(clock).steered = clock.steered /\ Reset(clock).rate = clock.rate
    BY <1>0, <2>1, CalledClock, ClockConstants
  <2>3. QED
    BY <1>8, <1>9, <2>2
<1>10. ASSUME NEW r \in Rates \ {0}, Calls(SetBpm(clock, r)) PROVE CInv' /\ StepsHold
  <2>1. /\ SetBpm(clock, r) \in Clocks /\ SetBpm(clock, r).steered = clock.steered
        /\ clock.steered => SetBpm(clock, r) = clock
    BY <1>0, TempoIgnored
  <2>2. SetBpm(clock, r).rate = clock.rate \/ ~follower.enabled
    BY <1>0, <2>1
  <2>3. QED
    BY <1>8, <1>10, <2>1, <2>2
<1>11. ASSUME NEW b \in BarLengths, Calls(SetTimeSignature(clock, b)) PROVE CInv' /\ StepsHold
  <2>1. /\ SetTimeSignature(clock, b) \in Clocks
        /\ SetTimeSignature(clock, b).steered = clock.steered
        /\ SetTimeSignature(clock, b).rate = clock.rate
    BY <1>0, CalledClock, ClockConstants
  <2>2. QED
    BY <1>8, <1>11, <2>1
<1>12. CASE UNCHANGED vars
  <2>1. /\ sample' = sample /\ polling' = polling /\ ring' = ring /\ head' = head /\ tail' = tail
        /\ follower' = follower /\ clock' = clock /\ policy' = policy /\ autoStart' = autoStart
        /\ deposited' = deposited /\ quiet' = quiet /\ dropped' = dropped
    BY <1>12 DEF vars, pulses
  <2>2. LockStands(follower)'
    BY <2>1 DEF CInv, Typed, LockStands
  <2>3. CInv'
    BY <1>0, <2>1, <2>2, QuietCall
  <2>4. QED
    BY <1>0, <2>1, <2>3, NoWork
<1>13. QED
  BY <1>1, <1>2, <1>3, <1>4, <1>5, <1>6, <1>7, <1>9, <1>10, <1>11, <1>12 DEF Next

LEMMA InvHolds == Spec => []CInv
<1>1. CInv /\ [Next]_vars => CInv'
  BY NextInv
<1>2. QED
  BY InitInv, <1>1, PTL DEF Spec

LEMMA StepsAlwaysHold == Spec => [][StepsHold]_vars
<1>1. CInv /\ [Next]_vars => [StepsHold]_vars
  BY NextInv
<1>2. QED
  BY InvHolds, <1>1, PTL DEF Spec

\* For every ring size, period window, loss factor and wrap of the microseconds: the state is
\* typed, the ring hands over each pulse it took once and in order and never overwrites what it
\* holds, and a lock ends within two polls of the time the loss factor allows (OnPulse, Update).
THEOREM ClockIsInOrder == Spec => []ClockInv
<1>1. ASSUME CInv PROVE ClockInv
  <2>1. Typed /\ RingIsFifo
    BY <1>1 DEF CInv
  <2>2. ClockTypeOK
    <3>1. sample \in 0 .. Wrap - 1
      <4>1. sample \in 0 .. MaxGap
        BY <2>1 DEF Typed
      <4>2. QED
        BY <4>1, WaitsAreShort, FollowerConstants
    <3>2. follower.period \in 0 .. MaxPeriod /\ follower.count \in 0 .. LockPulses
      BY <2>1, FollowerConstants DEF Typed, Followers
    <3>3. clock.tick \in 0 .. Cycle - 1 /\ clock.frac \in 0 .. One - 1 /\ clock.rate \in Rates
      BY <2>1 DEF Typed, Clocks
    <3>4. QED
      BY <2>1, <3>1, <3>2, <3>3 DEF Typed, LockStands, ClockTypeOK
  <2>3. LossIsPrompt
    <3>. SUFFICES ASSUME follower.locked
                  PROVE  quiet <= LossFactor * follower.period + 2 * MaxGap
      BY DEF LossIsPrompt
    <3>. DEFINE w == LossFactor * follower.period
    <3>1. /\ quiet <= follower.stamp
          /\ follower.stamp <= w + sample + Slack
      BY <1>1 DEF CInv, LockIsRecent
    <3>2. w \in Nat /\ follower.stamp \in Nat
      <4>1. follower.period \in 0 .. MaxPeriod /\ follower.stamp \in 0 .. Wrap - 1
        BY <2>1, FollowerConstants DEF Typed, Followers
      <4>2. QED
        BY <4>1, WaitsAreShort
    <3>3. sample \in 0 .. MaxGap /\ Slack \in 0 .. MaxGap /\ MaxGap \in Nat /\ quiet \in Nat
      BY <2>1, SlackIs, FollowerConstants, WaitsAreShort DEF Typed
    <3>. HIDE DEF w
    <3>4. quiet <= w + 2 * MaxGap
      BY <3>1, <3>2, <3>3
    <3>5. QED
      BY <3>4 DEF w
  <2>4. QED
    BY <2>1, <2>2, <2>3 DEF ClockInv
<1>2. QED
  BY InvHolds, <1>1, PTL

\* A loss is announced only after as long a silence as the loss factor asks for, up to a glitch
\* that did not count, or when pulses did not fit: also when the stamps wrap, and when a pulse
\* that came after the sample is drained with it (HandleLoss, Update).
THEOREM LossesAreReal == Spec => LossIsReal
<1>1. StepsHold => LossStep
  BY DEF StepsHold
<1>2. QED
  BY StepsAlwaysHold, <1>1, PTL DEF LossIsReal, LossStep

\* What a poll tells is what passed: under the policy Freeze the clock stands from a loss to the
\* next lock, a start counts no time from before it, and each note value that began among the
\* ticks of a poll is told, and no other (Tick, ApplyDeferredTransport, HandleLoss).
THEOREM TicksTell == Spec => TickTells
<1>1. StepsHold => FreezeStep /\ StartStep /\ EventsStep
  BY DEF StepsHold
<1>2. Spec => [][FreezeStep]_vars /\ [][StartStep]_vars /\ [][EventsStep]_vars
  BY StepsAlwaysHold, <1>1, PTL
<1>3. QED
  BY <1>2 DEF TickTells, FreezeHolds, StartsFromNow, EventsTell, FreezeStep, StartStep, EventsStep
=============================================================================
