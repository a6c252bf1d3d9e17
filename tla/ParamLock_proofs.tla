-------------------------- MODULE ParamLock_proofs --------------------------
(***************************************************************************)
(* Proofs about the param locks: for any pages and pots, any length of the *)
(* buffers and of a frame, any clock and any saved forms.                  *)
(***************************************************************************)
EXTENDS ParamLock, WellFoundedInduction, SequenceTheorems, TLAPS

-----------------------------------------------------------------------------
(* Numbers                                                                 *)

LEMMA MinIs ==
  ASSUME NEW T \in SUBSET Nat, T # {}
  PROVE  Min(T) \in T /\ \A y \in T : Min(T) <= y
<1>. DEFINE R == {ss \in Nat \X Nat : ss[1] < ss[2]}
<1>1. IsWellFoundedOn(R, Nat)
  BY NatLessThanWellFounded DEF OpToRel
<1>2. PICK x \in T : \A y \in T : <<y, x>> \notin R
  <2>. HIDE DEF R
  <2>. QED
    BY <1>1, WFMin
<1>3. ASSUME NEW y \in T PROVE x <= y
  <2>1. x \in Nat /\ y \in Nat /\ <<y, x>> \notin R
    BY <1>2
  <2>2. ~(<<y, x>>[1] < <<y, x>>[2])
    BY <2>1
  <2>. QED
    BY <2>1, <2>2
<1>. QED
  BY <1>3 DEF Min

LEMMA ModRange ==
  ASSUME NEW m \in Nat \ {0}, NEW a \in Int
  PROVE  /\ (a % m) \in 0 .. m - 1 /\ a \div m \in Int
         /\ a = m * (a \div m) + (a % m)
OBVIOUS

LEMMA ModOf ==
  ASSUME NEW m \in Nat \ {0}, NEW q \in Int, NEW r \in 0 .. m - 1, NEW a \in Int, a = m * q + r
  PROVE  a % m = r
OBVIOUS

LEMMA LesserIs ==
  ASSUME NEW a \in Nat, NEW b \in Nat
  PROVE  Min({a, b}) = IF a <= b THEN a ELSE b
<1>1. Min({a, b}) \in {a, b} /\ \A y \in {a, b} : Min({a, b}) <= y
  BY MinIs
<1>. QED
  BY <1>1

-----------------------------------------------------------------------------
(* A store                                                                 *)

\* A slot that the audio interrupt may come upon.
SafeSlot(lk) == lk \in Slot /\ ~(lk.active /\ lk.recording) /\ InsideLoop(lk)
Sound(run) == run.inside /\ SafeSlot(run.slot)

LEMMA StoreIs ==
  ASSUME NEW run, NEW f, NEW v
  PROVE  /\ (run \odot <<f, v>>).slot = [run.slot EXCEPT ![f] = v]
         /\ (run \odot <<f, v>>).inside = (run.inside /\ InsideLoop([run.slot EXCEPT ![f] = v]))
BY DEF \odot

\* A store that leaves a safe slot behind.
LEMMA SoundStore ==
  ASSUME NEW run, Sound(run), NEW f, NEW v, SafeSlot([run.slot EXCEPT ![f] = v])
  PROVE  Sound(run \odot <<f, v>>) /\ (run \odot <<f, v>>).slot = [run.slot EXCEPT ![f] = v]
BY StoreIs DEF Sound, SafeSlot

LEMMA StoreActive ==
  ASSUME NEW run, Sound(run), NEW v \in BOOLEAN,
         v => /\ run.slot.length \in 1 .. Stride /\ run.slot.pos < run.slot.length * One
              /\ ~run.slot.recording
  PROVE  /\ Sound(run \odot <<"active", v>>)
         /\ (run \odot <<"active", v>>).slot = [run.slot EXCEPT !.active = v]
<1>1. SafeSlot([run.slot EXCEPT !.active = v])
  BY DEF Sound, SafeSlot, Slot, InsideLoop
<1>. QED
  BY <1>1, SoundStore

LEMMA StoreRecording ==
  ASSUME NEW run, Sound(run), NEW v \in BOOLEAN, v => ~run.slot.active
  PROVE  /\ Sound(run \odot <<"recording", v>>)
         /\ (run \odot <<"recording", v>>).slot = [run.slot EXCEPT !.recording = v]
<1>1. SafeSlot([run.slot EXCEPT !.recording = v])
  BY DEF Sound, SafeSlot, Slot, InsideLoop
<1>. QED
  BY <1>1, SoundStore

LEMMA StoreLength ==
  ASSUME NEW run, Sound(run), ~run.slot.active, NEW v \in 0 .. Stride
  PROVE  /\ Sound(run \odot <<"length", v>>)
         /\ (run \odot <<"length", v>>).slot = [run.slot EXCEPT !.length = v]
<1>1. SafeSlot([run.slot EXCEPT !.length = v])
  BY DEF Sound, SafeSlot, Slot, InsideLoop
<1>. QED
  BY <1>1, SoundStore

LEMMA StorePos ==
  ASSUME NEW run, Sound(run), NEW v \in 0 .. Stride * One - 1,
         run.slot.active => v < run.slot.length * One
  PROVE  /\ Sound(run \odot <<"pos", v>>)
         /\ (run \odot <<"pos", v>>).slot = [run.slot EXCEPT !.pos = v]
<1>1. SafeSlot([run.slot EXCEPT !.pos = v])
  BY DEF Sound, SafeSlot, Slot, InsideLoop
<1>. QED
  BY <1>1, SoundStore

\* The other fields are of no concern to the audio interrupt.
LEMMA StoreOther ==
  ASSUME NEW run, Sound(run)
  PROVE  /\ \A v \in Nat : /\ Sound(run \odot <<"base", v>>)
                           /\ (run \odot <<"base", v>>).slot = [run.slot EXCEPT !.base = v]
         /\ \A v \in 0 .. MaxSpan :
              /\ Sound(run \odot <<"span", v>>)
              /\ (run \odot <<"span", v>>).slot = [run.slot EXCEPT !.span = v]
         /\ \A v \in BOOLEAN :
              /\ Sound(run \odot <<"partial", v>>)
              /\ (run \odot <<"partial", v>>).slot = [run.slot EXCEPT !.partial = v]
         /\ \A v \in Nat : /\ Sound(run \odot <<"anchor", v>>)
                           /\ (run \odot <<"anchor", v>>).slot = [run.slot EXCEPT !.anchor = v]
<1>1. ASSUME NEW v \in Nat PROVE SafeSlot([run.slot EXCEPT !.base = v])
  BY <1>1 DEF Sound, SafeSlot, Slot, InsideLoop
<1>2. ASSUME NEW v \in 0 .. MaxSpan PROVE SafeSlot([run.slot EXCEPT !.span = v])
  BY <1>2 DEF Sound, SafeSlot, Slot, InsideLoop
<1>3. ASSUME NEW v \in BOOLEAN PROVE SafeSlot([run.slot EXCEPT !.partial = v])
  BY <1>3 DEF Sound, SafeSlot, Slot, InsideLoop
<1>4. ASSUME NEW v \in Nat PROVE SafeSlot([run.slot EXCEPT !.anchor = v])
  BY <1>4 DEF Sound, SafeSlot, Slot, InsideLoop
<1>. QED
  BY <1>1, <1>2, <1>3, <1>4, SoundStore

-----------------------------------------------------------------------------
(* The snap of a length                                                    *)

LEMMA NotesAre ==
  ASSUME NEW f
  PROVE  \E S : NotesOf(f) \in Seq(S)
<1>. DEFINE e(i) == NotesOf(f)[i]  S == {e(i) : i \in 1 .. 5}
<1>1. NotesOf(f) = [i \in 1 .. 5 |-> NotesOf(f)[i]]
  BY DEF NotesOf
<1>2. NotesOf(f) \in [1 .. 5 -> S]
  BY <1>1
<1>. QED
  BY <1>2, SeqDef

LEMMA BarsAre ==
  ASSUME NEW take \in Nat \ {0}
  PROVE  \E S : BarsFor(take) \in Seq(S)
<1>. DEFINE bar == Ppqn * BeatsPerBar  a == MaxSpan \div bar  b == 1 + (take - 1) \div bar
            upTo == Min({a, b})  S == {k * bar : k \in 1 .. upTo}
<1>1. bar \in Nat \ {0}
  BY SlotAssumption
<1>2. a \in Nat /\ b \in Nat
  <2>. HIDE DEF bar
  <2>1. MaxSpan \in Nat /\ take - 1 \in Nat
    BY SlotAssumption
  <2>. QED
    BY <1>1, <2>1
<1>3. upTo \in Nat
  <2>. HIDE DEF a, b
  <2>. QED
    BY <1>2, LesserIs
<1>4. BarsFor(take) = [k \in 1 .. upTo |-> k * bar]
  BY DEF BarsFor
<1>5. BarsFor(take) \in [1 .. upTo -> S]
  <2>. HIDE DEF upTo, bar
  <2>. QED
    BY <1>4
<1>. QED
  <2>. HIDE DEF upTo, S
  <2>. QED
    BY <1>3, <1>5, SeqDef

LEMMA JoinIs ==
  ASSUME NEW s, NEW t, \E S : s \in Seq(S), \E S : t \in Seq(S)
  PROVE  \E S : s \o t \in Seq(S)
<1>1. PICK S1 : s \in Seq(S1)
  OBVIOUS
<1>2. PICK S2 : t \in Seq(S2)
  OBVIOUS
<1>3. s \in Seq(S1 \cup S2) /\ t \in Seq(S1 \cup S2)
  BY <1>1, <1>2
<1>. QED
  BY <1>3

\* A snapped length fits the field it is stored in.
LEMMA SnapIs ==
  ASSUME NEW take \in Int
  PROVE  LockSnapTicks(take) \in 0 .. MaxSpan
<1>1. CASE take <= 0 \/ take > MaxSpan \/ BestFits(take) = {}
  BY <1>1, SlotAssumption DEF LockSnapTicks
<1>2. CASE ~(take <= 0 \/ take > MaxSpan \/ BestFits(take) = {})
  <2>1. take \in Nat \ {0}
    BY <1>2
  <2>2. \E S : Candidates(take) \in Seq(S)
    BY <2>1, NotesAre, BarsAre, JoinIs DEF Candidates
  <2>3. DOMAIN Candidates(take) \subseteq Nat
    BY <2>2
  <2>4. \A i \in BestFits(take) : i \in DOMAIN Candidates(take) /\ Candidates(take)[i] \in 1 .. MaxSpan
    BY DEF BestFits
  <2>5. Min(BestFits(take)) \in BestFits(take)
    BY <1>2, <2>3, <2>4, MinIs
  <2>. QED
    BY <1>2, <2>4, <2>5 DEF LockSnapTicks
<1>. QED
  BY <1>1, <1>2

-----------------------------------------------------------------------------
(* The operations on a slot                                                *)

\* The clock as the slots see it, no later than any bound on it.
Clocks == [now : Nat, running : BOOLEAN, clocked : BOOLEAN, wired : BOOLEAN]

LEMMA ClearIs ==
  ASSUME NEW run, Sound(run)
  PROVE  Sound(ClearSlot(run)) /\ ClearSlot(run).slot = EmptySlot
<1>. DEFINE r1 == run \odot <<"active", FALSE>>
            r2 == r1 \odot <<"recording", FALSE>>
            r3 == r2 \odot <<"length", 0>>
            r4 == r3 \odot <<"pos", 0>>
            r5 == r4 \odot <<"base", 0>>
            r6 == r5 \odot <<"span", 0>>
            r7 == r6 \odot <<"partial", FALSE>>
            r8 == r7 \odot <<"anchor", 0>>
<1>0. ClearSlot(run) = r8
  BY DEF ClearSlot
<1>s. Stride \in Nat \ {0} /\ One \in Nat \ {0} /\ MaxSpan \in Nat /\ run.slot \in Slot
  BY SlotAssumption DEF Sound, SafeSlot
<1>n. 0 \in 0 .. Stride /\ 0 \in 0 .. Stride * One - 1 /\ 0 \in 0 .. MaxSpan
  <2>1. Stride * One >= 1
    BY <1>s
  <2>. QED
    BY <1>s, <2>1
<1>. HIDE DEF r1, r2, r3, r4, r5, r6, r7, r8
<1>1. Sound(r1) /\ r1.slot = [run.slot EXCEPT !.active = FALSE]
  BY StoreActive DEF r1
<1>2. Sound(r2) /\ r2.slot = [r1.slot EXCEPT !.recording = FALSE]
  BY <1>1, StoreRecording DEF r2
<1>3. Sound(r3) /\ r3.slot = [r2.slot EXCEPT !.length = 0]
  <2>1. ~r2.slot.active
    BY <1>s, <1>1, <1>2 DEF Slot
  <2>. QED
    BY <1>n, <1>2, <2>1, StoreLength DEF r3
<1>4. Sound(r4) /\ r4.slot = [r3.slot EXCEPT !.pos = 0]
  <2>1. ~r3.slot.active
    BY <1>s, <1>1, <1>2, <1>3 DEF Slot
  <2>. QED
    BY <1>n, <1>3, <2>1, StorePos DEF r4
<1>5. Sound(r5) /\ r5.slot = [r4.slot EXCEPT !.base = 0]
  BY <1>4, StoreOther DEF r5
<1>6. Sound(r6) /\ r6.slot = [r5.slot EXCEPT !.span = 0]
  BY <1>n, <1>5, StoreOther DEF r6
<1>7. Sound(r7) /\ r7.slot = [r6.slot EXCEPT !.partial = FALSE]
  BY <1>6, StoreOther DEF r7
<1>8. Sound(r8) /\ r8.slot = [r7.slot EXCEPT !.anchor = 0]
  BY <1>7, StoreOther DEF r8
<1>9. r8.slot = EmptySlot
  <2>1. r4.slot = [run.slot EXCEPT !.active = FALSE, !.recording = FALSE, !.length = 0, !.pos = 0]
    BY <1>1, <1>2, <1>3, <1>4
  <2>2. r8.slot = [r4.slot EXCEPT !.base = 0, !.span = 0, !.partial = FALSE, !.anchor = 0]
    BY <1>5, <1>6, <1>7, <1>8
  <2>3. /\ r4.slot \in Slot /\ ~r4.slot.active /\ ~r4.slot.recording
        /\ r4.slot.length = 0 /\ r4.slot.pos = 0
    BY <1>s, <1>4, <2>1 DEF Slot, Sound, SafeSlot
  <2>. QED
    BY <2>2, <2>3 DEF Slot, EmptySlot
<1>. QED
  BY <1>0, <1>8, <1>9

LEMMA ArmIs ==
  ASSUME NEW run, Sound(run), NEW base \in Nat, NEW clk \in Clocks
  PROVE  /\ Sound(ArmSlot(run, base, clk))
         /\ ArmSlot(run, base, clk).slot.recording /\ ArmSlot(run, base, clk).slot.anchor = clk.now
<1>. DEFINE r0 == ClearSlot(run)
            r1 == r0 \odot <<"recording", TRUE>>
            r2 == r1 \odot <<"base", base>>
            r3 == r2 \odot <<"anchor", clk.now>>
<1>0. ArmSlot(run, base, clk) = r3
  BY DEF ArmSlot
<1>. HIDE DEF r0, r1, r2, r3
<1>1. Sound(r0) /\ r0.slot = EmptySlot
  BY ClearIs DEF r0
<1>2. Sound(r1) /\ r1.slot = [r0.slot EXCEPT !.recording = TRUE]
  <2>1. ~r0.slot.active
    BY <1>1 DEF EmptySlot
  <2>. QED
    BY <1>1, <2>1, StoreRecording DEF r1
<1>3. Sound(r2) /\ r2.slot = [r1.slot EXCEPT !.base = base]
  BY <1>2, StoreOther DEF r2
<1>4. Sound(r3) /\ r3.slot = [r2.slot EXCEPT !.anchor = clk.now]
  <2>1. clk.now \in Nat
    BY DEF Clocks
  <2>. QED
    BY <1>3, <2>1, StoreOther DEF r3
<1>. QED
  BY <1>0, <1>1, <1>2, <1>3, <1>4 DEF EmptySlot

LEMMA RestoreIs ==
  ASSUME NEW run, Sound(run),
         NEW saved \in [active : BOOLEAN, length : Nat, base : Nat, span : 0 .. MaxSpan]
  PROVE  LET lk == RestoreSlot(run, saved).slot
         IN  /\ Sound(RestoreSlot(run, saved))
             /\ ~lk.recording /\ lk.pos = 0 /\ lk.anchor = 0
<1>. DEFINE r0 == ClearSlot(run)
            r1 == r0 \odot <<"length", saved.length>>
            r2 == r1 \odot <<"base", saved.base>>
            r3 == r2 \odot <<"span", saved.span>>
            r4 == r3 \odot <<"active", TRUE>>
<1>0. RestoreSlot(run, saved) = IF ~saved.active \/ saved.length \notin 1 .. Stride THEN r0 ELSE r4
  BY DEF RestoreSlot
<1>. HIDE DEF r0, r1, r2, r3, r4
<1>1. Sound(r0) /\ r0.slot = EmptySlot
  BY ClearIs DEF r0
<1>2. CASE ~saved.active \/ saved.length \notin 1 .. Stride
  BY <1>0, <1>1, <1>2 DEF EmptySlot
<1>3. CASE ~(~saved.active \/ saved.length \notin 1 .. Stride)
  <2>1. Sound(r1) /\ r1.slot = [r0.slot EXCEPT !.length = saved.length]
    <3>1. ~r0.slot.active /\ saved.length \in 0 .. Stride
      BY <1>1, <1>3 DEF EmptySlot
    <3>. QED
      BY <1>1, <3>1, StoreLength DEF r1
  <2>2. Sound(r2) /\ r2.slot = [r1.slot EXCEPT !.base = saved.base]
    BY <2>1, StoreOther DEF r2
  <2>3. Sound(r3) /\ r3.slot = [r2.slot EXCEPT !.span = saved.span]
    BY <2>2, StoreOther DEF r3
  <2>4. /\ r3.slot.length = saved.length /\ r3.slot.pos = 0 /\ r3.slot.anchor = 0
        /\ ~r3.slot.recording
    BY <1>1, <2>1, <2>2, <2>3 DEF EmptySlot
  <2>5. 0 < saved.length * One
    <3>1. saved.length \in Nat \ {0} /\ One \in Nat \ {0}
      BY <1>3, SlotAssumption
    <3>. QED
      BY <3>1
  <2>6. Sound(r4) /\ r4.slot = [r3.slot EXCEPT !.active = TRUE]
    BY <1>3, <2>3, <2>4, <2>5, StoreActive DEF r4
  <2>7. r3.slot \in Slot
    BY <2>3 DEF Sound, SafeSlot
  <2>. QED
    BY <1>0, <1>3, <2>4, <2>6, <2>7 DEF Slot
<1>. QED
  BY <1>2, <1>3

LEMMA ActivateIs ==
  ASSUME NEW run, Sound(run), run.slot.recording, NEW clk \in Clocks
  PROVE  LET lk == ActivateSlot(run, clk).slot
         IN  /\ Sound(ActivateSlot(run, clk))
             /\ ~lk.recording /\ (lk.active <=> run.slot.length > 0) /\ lk.pos = 0
             /\ lk.anchor \in {run.slot.anchor, clk.now}
<1>. DEFINE lk == run.slot
            snap == LockSnapTicks(clk.now - lk.anchor)
            r1 == run \odot <<"recording", FALSE>>
            r2 == r1 \odot <<"pos", 0>>
            r3 == r2 \odot <<"partial", FALSE>>
            r4 == r3 \odot <<"span", 0>>
            r5 == r4 \odot <<"span", snap>>
            r6 == r5 \odot <<"anchor", clk.now>>
            timed == IF clk.clocked /\ clk.running /\ lk.length > 0 THEN r6 ELSE r4
            r7 == timed \odot <<"active", lk.length > 0>>
<1>0. ActivateSlot(run, clk) = r7
  BY DEF ActivateSlot
<1>s. /\ Stride \in Nat \ {0} /\ One \in Nat \ {0} /\ MaxSpan \in Nat
      /\ lk \in Slot /\ ~lk.active /\ lk.length \in 0 .. Stride /\ lk.anchor \in Nat /\ clk.now \in Nat
  BY SlotAssumption DEF Sound, SafeSlot, Slot, Clocks
<1>n. 0 \in 0 .. Stride * One - 1 /\ 0 \in 0 .. MaxSpan
  <2>1. Stride * One >= 1
    BY <1>s
  <2>. QED
    BY <1>s, <2>1
<1>m. snap \in 0 .. MaxSpan
  BY <1>s, SnapIs
<1>. HIDE DEF lk, snap, r1, r2, r3, r4, r5, r6, timed, r7
<1>1. Sound(r1) /\ r1.slot = [lk EXCEPT !.recording = FALSE]
  BY StoreRecording DEF r1, lk
<1>2. Sound(r2) /\ r2.slot = [r1.slot EXCEPT !.pos = 0]
  <2>1. ~r1.slot.active
    BY <1>s, <1>1 DEF Slot
  <2>. QED
    BY <1>n, <1>1, <2>1, StorePos DEF r2
<1>3. Sound(r3) /\ r3.slot = [r2.slot EXCEPT !.partial = FALSE]
  BY <1>2, StoreOther DEF r3
<1>4. Sound(r4) /\ r4.slot = [r3.slot EXCEPT !.span = 0]
  BY <1>n, <1>3, StoreOther DEF r4
<1>5. Sound(r5) /\ r5.slot = [r4.slot EXCEPT !.span = snap]
  BY <1>m, <1>4, StoreOther DEF r5
<1>6. Sound(r6) /\ r6.slot = [r5.slot EXCEPT !.anchor = clk.now]
  BY <1>s, <1>5, StoreOther DEF r6
<1>7. /\ r3.slot \in Slot /\ r3.slot.length = lk.length /\ r3.slot.pos = 0
      /\ ~r3.slot.recording /\ r3.slot.anchor = lk.anchor
  BY <1>s, <1>1, <1>2, <1>3 DEF Slot, Sound, SafeSlot
<1>8. /\ timed.slot.length = lk.length /\ timed.slot.pos = 0 /\ ~timed.slot.recording
      /\ timed.slot.anchor \in {lk.anchor, clk.now} /\ Sound(timed) /\ timed.slot \in Slot
  <2>1. /\ r4.slot.length = lk.length /\ r4.slot.pos = 0 /\ ~r4.slot.recording
        /\ r4.slot.anchor = lk.anchor /\ r4.slot \in Slot
    BY <1>4, <1>7 DEF Slot, Sound, SafeSlot
  <2>2. /\ r6.slot.length = lk.length /\ r6.slot.pos = 0 /\ ~r6.slot.recording
        /\ r6.slot.anchor = clk.now /\ r6.slot \in Slot
    BY <2>1, <1>5, <1>6 DEF Slot, Sound, SafeSlot
  <2>. QED
    BY <1>4, <1>6, <2>1, <2>2 DEF timed
<1>9. lk.length > 0 => 0 < lk.length * One
  <2>1. SUFFICES ASSUME lk.length > 0 PROVE 0 < lk.length * One
    OBVIOUS
  <2>2. lk.length \in Nat \ {0} /\ One \in Nat \ {0}
    BY <1>s, <2>1
  <2>. QED
    BY <2>2
<1>10. CASE lk.length > 0
  <2>1. r7 = timed \odot <<"active", TRUE>>
    <3>1. (lk.length > 0) = TRUE
      BY <1>10
    <3>. QED
      BY <3>1, Zenon DEF r7
  <2>2. timed.slot.length \in 1 .. Stride /\ timed.slot.pos < timed.slot.length * One
    BY <1>s, <1>8, <1>9, <1>10
  <2>3. Sound(r7) /\ r7.slot = [timed.slot EXCEPT !.active = TRUE]
    BY <1>8, <2>1, <2>2, StoreActive
  <2>. QED
    BY <1>0, <1>8, <1>10, <2>3 DEF Slot, lk
<1>11. CASE ~(lk.length > 0)
  <2>1. r7 = timed \odot <<"active", FALSE>>
    <3>1. (lk.length > 0) = FALSE
      BY <1>11
    <3>. QED
      BY <3>1, Zenon DEF r7
  <2>3. Sound(r7) /\ r7.slot = [timed.slot EXCEPT !.active = FALSE]
    BY <1>8, <2>1, StoreActive
  <2>. QED
    BY <1>0, <1>8, <1>11, <2>3 DEF Slot, lk
<1>. QED
  BY <1>10, <1>11

\* What there is of a take.
Taken(lk) == lk.partial \/ lk.length > 0

\* Behind an operation the take goes on or is played, from its start.
KeepsTake(lk, is, clk) ==
  /\ is.recording \/ is.active
  /\ is.recording => Taken(is)
  /\ is.active => is.pos = 0
  /\ is.anchor \in {lk.anchor, clk.now}

LEMMA EmitIs ==
  ASSUME NEW run, Sound(run), run.slot.recording, Taken(run.slot), NEW n \in Nat, NEW clk \in Clocks
  PROVE  /\ Sound(EmitSamples(run, n, clk))
         /\ KeepsTake(run.slot, EmitSamples(run, n, clk).slot, clk)
         /\ n # 0 /\ EmitSamples(run, n, clk).slot.recording => EmitSamples(run, n, clk).slot.length > 0
<1>. DEFINE lk == run.slot
            length == Min({lk.length + n, Stride})
            r1 == run \odot <<"length", length>>
            r2 == r1 \odot <<"partial", FALSE>>
<1>0. EmitSamples(run, n, clk) =
        IF n = 0 THEN run ELSE IF length < Stride THEN r2 ELSE ActivateSlot(r2, clk)
  BY DEF EmitSamples
<1>s. Stride \in Nat \ {0} /\ lk \in Slot /\ ~lk.active /\ lk.length \in 0 .. Stride
  BY SlotAssumption DEF Sound, SafeSlot, Slot
<1>l. length \in 0 .. Stride /\ (n # 0 => length > 0)
  BY <1>s, LesserIs
<1>. HIDE DEF lk, length, r1, r2
<1>1. Sound(r1) /\ r1.slot = [lk EXCEPT !.length = length]
  BY <1>s, <1>l, StoreLength DEF r1, lk
<1>2. Sound(r2) /\ r2.slot = [r1.slot EXCEPT !.partial = FALSE]
  BY <1>1, StoreOther DEF r2
<1>3. r2.slot.recording /\ ~r2.slot.active /\ r2.slot.length = length /\ r2.slot.anchor = lk.anchor
  BY <1>s, <1>1, <1>2 DEF Slot, lk
<1>4. CASE n = 0
  BY <1>0, <1>4, <1>s DEF KeepsTake, lk
<1>5. CASE n # 0 /\ length < Stride
  BY <1>0, <1>2, <1>3, <1>5, <1>l DEF KeepsTake, Taken, lk
<1>6. CASE n # 0 /\ ~(length < Stride)
  <2>1. EmitSamples(run, n, clk) = ActivateSlot(r2, clk)
    BY <1>0, <1>6
  <2>2. /\ Sound(ActivateSlot(r2, clk)) /\ ~ActivateSlot(r2, clk).slot.recording
        /\ ActivateSlot(r2, clk).slot.active /\ ActivateSlot(r2, clk).slot.pos = 0
        /\ ActivateSlot(r2, clk).slot.anchor \in {lk.anchor, clk.now}
    BY <1>2, <1>3, <1>6, <1>l, ActivateIs
  <2>. QED
    BY <2>1, <2>2 DEF KeepsTake, lk
<1>. QED
  BY <1>4, <1>5, <1>6

\* A release makes loops of what was recorded, and touches nothing else.
LEMMA FinaliseIs ==
  ASSUME NEW run, Sound(run), run.slot.recording => Taken(run.slot), NEW clk \in Clocks
  PROVE  LET is == Finalise(run, clk).slot
         IN  /\ Sound(Finalise(run, clk)) /\ ~is.recording
             /\ ~run.slot.recording => Finalise(run, clk) = run
             /\ run.slot.recording => KeepsTake(run.slot, is, clk)
<1>. DEFINE lk == run.slot
            flushed == IF lk.partial /\ lk.length < Stride THEN EmitSamples(run, 1, clk) ELSE run
<1>0. Finalise(run, clk) = IF ~lk.recording THEN run
                           ELSE IF flushed.slot.recording THEN ActivateSlot(flushed, clk) ELSE flushed
  BY DEF Finalise
<1>1. CASE ~lk.recording
  BY <1>0, <1>1
<1>2. CASE lk.recording
  <2>s. Stride \in Nat \ {0} /\ lk \in Slot /\ ~lk.active /\ lk.length \in 0 .. Stride
    BY <1>2, SlotAssumption DEF Sound, SafeSlot, Slot
  <2>t. Taken(lk)
    BY <1>2
  <2>1. /\ Sound(flushed)
        /\ flushed.slot.recording \/ flushed.slot.active
        /\ flushed.slot.active => flushed.slot.pos = 0
        /\ flushed.slot.anchor \in {lk.anchor, clk.now}
        /\ flushed.slot.recording => flushed.slot.length > 0
    <3>1. CASE lk.partial /\ lk.length < Stride
      <4>1. flushed = EmitSamples(run, 1, clk)
        BY <3>1
      <4>2. /\ Sound(EmitSamples(run, 1, clk)) /\ KeepsTake(lk, EmitSamples(run, 1, clk).slot, clk)
            /\ EmitSamples(run, 1, clk).slot.recording => EmitSamples(run, 1, clk).slot.length > 0
        BY <1>2, <2>t, EmitIs
      <4>. HIDE DEF flushed, lk
      <4>. QED
        BY <4>1, <4>2 DEF KeepsTake
    <3>2. CASE ~(lk.partial /\ lk.length < Stride)
      <4>1. flushed = run /\ lk.length > 0
        BY <2>s, <2>t, <3>2 DEF Taken
      <4>. HIDE DEF flushed
      <4>. QED
        BY <1>2, <2>s, <4>1
    <3>. QED
      BY <3>1, <3>2
  <2>. HIDE DEF flushed
  <2>2. CASE flushed.slot.recording
    <3>1. Finalise(run, clk) = ActivateSlot(flushed, clk)
      BY <1>0, <1>2, <2>2
    <3>2. /\ Sound(ActivateSlot(flushed, clk)) /\ ~ActivateSlot(flushed, clk).slot.recording
          /\ ActivateSlot(flushed, clk).slot.active /\ ActivateSlot(flushed, clk).slot.pos = 0
          /\ ActivateSlot(flushed, clk).slot.anchor \in {lk.anchor, clk.now}
      BY <2>1, <2>2, ActivateIs
    <3>. QED
      BY <1>2, <3>1, <3>2 DEF KeepsTake
  <2>3. CASE ~flushed.slot.recording
    <3>1. Finalise(run, clk) = flushed
      BY <1>0, <1>2, <2>3
    <3>. QED
      BY <1>2, <2>1, <2>3, <3>1 DEF KeepsTake
  <2>. QED
    BY <2>2, <2>3
<1>. QED
  BY <1>1, <1>2

\* Where the head of a clocked loop may stand.
HeadHeld(lk) == lk.active /\ lk.span > 0 => lk.pos <= (lk.length - 1) * One

\* What playback leaves alone.
PlaysOn(lk, is) ==
  /\ is.active = lk.active /\ is.recording = lk.recording /\ is.length = lk.length
  /\ is.span = lk.span /\ is.partial = lk.partial

\* What it does to a clocked loop that is anchored before now.
OnGrid(lk, is, at) ==
  lk.active /\ lk.span > 0 /\ lk.anchor <= at =>
    /\ (is.anchor - lk.anchor) % lk.span = 0
    /\ is.anchor # lk.anchor => is.pos = 0 /\ at - is.anchor \in 0 .. lk.span - 1
    /\ is.pos < lk.pos => is.anchor # lk.anchor

\* The head of a free loop comes round inside it.
LEMMA HeadComesRound ==
  ASSUME NEW p \in Nat, NEW n \in Nat \ {0}
  PROVE  LET h == (((p \div One) % n) * One) + (p % One)
         IN  h \in Nat /\ h < n * One
<1>. DEFINE q == p \div One  h == q % n  r == p % One
<1>1. One \in Nat \ {0}
  BY SlotAssumption
<1>2. q \in Int /\ r \in 0 .. One - 1
  BY <1>1, ModRange
<1>3. h \in 0 .. n - 1
  <2>. HIDE DEF q
  <2>. QED
    BY <1>2, ModRange
<1>. HIDE DEF q, h, r
<1>4. h * One \in Nat /\ h * One <= (n - 1) * One /\ (n - 1) * One = n * One - One
  BY <1>1, <1>3
<1>5. h * One + r \in Nat /\ h * One + r < n * One
  <2>. DEFINE a == h * One  b == n * One
  <2>1. a \in Nat /\ b \in Nat /\ a <= b - One
    BY <1>1, <1>3, <1>4
  <2>. HIDE DEF a, b
  <2>2. a + r \in Nat /\ a + r < b
    BY <1>1, <1>2, <2>1
  <2>. QED
    BY <2>2 DEF a, b
<1>. QED
  BY <1>5 DEF h, q, r

LEMMA PlayFreeIs ==
  ASSUME NEW run, Sound(run), run.slot.active, ~(run.slot.span > 0), NEW step \in Nat
  PROVE  LET is == PlayFree(run, step).slot
         IN  Sound(PlayFree(run, step)) /\ PlaysOn(run.slot, is) /\ is.anchor = run.slot.anchor
<1>. DEFINE lk == run.slot  p == lk.pos + step
            h == (((p \div One) % lk.length) * One) + (p % One)
<1>1. lk \in Slot /\ lk.pos \in Nat /\ lk.length \in 1 .. Stride /\ Stride \in Nat \ {0} /\ One \in Nat \ {0}
  BY SlotAssumption DEF Sound, SafeSlot, Slot, InsideLoop
<1>2. h \in Nat /\ h < lk.length * One
  <2>1. p \in Nat /\ lk.length \in Nat \ {0}
    BY <1>1
  <2>. HIDE DEF p, lk
  <2>. QED
    BY <2>1, HeadComesRound
<1>3. h \in 0 .. Stride * One - 1
  <2>1. lk.length * One <= Stride * One /\ lk.length * One \in Nat /\ Stride * One \in Nat
    BY <1>1
  <2>. HIDE DEF h
  <2>. QED
    BY <1>2, <2>1
<1>4. PlayFree(run, step) = run \odot <<"pos", h>>
  BY DEF PlayFree
<1>. HIDE DEF h
<1>5. Sound(PlayFree(run, step)) /\ PlayFree(run, step).slot = [lk EXCEPT !.pos = h]
  BY <1>2, <1>3, <1>4, StorePos
<1>. QED
  BY <1>1, <1>5 DEF PlaysOn, Slot

\* A whole number of spans later.
LEMMA GridPoint ==
  ASSUME NEW e \in Nat, NEW span \in Nat \ {0}
  PROVE  LET k == e \div span
         IN  /\ span * k \in Nat /\ (span * k) % span = 0 /\ e - span * k \in 0 .. span - 1
<1>. DEFINE k == e \div span
<1>1. k \in Int /\ e % span \in 0 .. span - 1 /\ e = span * k + (e % span)
  BY ModRange
<1>2. k >= 0
  BY <1>1
<1>. HIDE DEF k
<1>3. span * k \in Nat
  BY <1>1, <1>2
<1>4. (span * k) % span = 0
  <2>1. span * k = span * k + 0 /\ 0 \in 0 .. span - 1
    BY <1>3
  <2>. QED
    BY <1>1, <1>3, <2>1, ModOf
<1>5. e - span * k \in 0 .. span - 1
  BY <1>1, <1>3
<1>. QED
  BY <1>3, <1>4, <1>5 DEF k

LEMMA PlayClockedIs ==
  ASSUME NEW run, Sound(run), run.slot.active, run.slot.span > 0, HeadHeld(run.slot),
         NEW step \in Nat, NEW clk \in Clocks
  PROVE  LET is == PlayClocked(run, step, clk).slot
         IN  /\ Sound(PlayClocked(run, step, clk)) /\ PlaysOn(run.slot, is) /\ HeadHeld(is)
             /\ is.anchor = run.slot.anchor \/ is.anchor <= clk.now
             /\ OnGrid(run.slot, is, clk.now)
<1>. DEFINE lk == run.slot
            anchor == IF clk.now < lk.anchor THEN clk.now ELSE lk.anchor
            elapsed == clk.now - anchor
            later == anchor + lk.span * (elapsed \div lk.span)
            cap == (lk.length - 1) * One
            next == Min({lk.pos + step, cap})
            a1 == run \odot <<"anchor", later>>
            a2 == a1 \odot <<"pos", 0>>
            b1 == run \odot <<"anchor", anchor>>
            b2 == b1 \odot <<"pos", next>>
<1>0. PlayClocked(run, step, clk) =
        IF ~clk.running THEN run ELSE IF elapsed >= lk.span THEN a2 ELSE b2
  BY DEF PlayClocked
<1>1. /\ lk \in Slot /\ lk.pos \in Nat /\ lk.length \in 1 .. Stride /\ lk.pos < lk.length * One
      /\ lk.anchor \in Nat /\ lk.span \in Nat \ {0} /\ clk.now \in Nat /\ lk.pos <= cap
      /\ Stride \in Nat \ {0} /\ One \in Nat \ {0}
  BY SlotAssumption DEF Sound, SafeSlot, Slot, InsideLoop, Clocks, HeadHeld
<1>. HIDE DEF a1, a2, b1, b2
<1>2. anchor \in Nat /\ elapsed \in Nat /\ (lk.anchor <= clk.now => anchor = lk.anchor) /\ anchor <= clk.now
  BY <1>1
<1>3. CASE ~clk.running
  <2>1. PlayClocked(run, step, clk) = run
    BY <1>0, <1>3
  <2>2. (lk.anchor - lk.anchor) % lk.span = 0
    BY <1>1
  <2>3. PlaysOn(lk, lk) /\ OnGrid(lk, lk, clk.now)
    BY <1>1, <2>2 DEF PlaysOn, OnGrid
  <2>. QED
    BY <2>1, <2>3
<1>4. CASE clk.running /\ elapsed >= lk.span
  <2>. DEFINE sk == lk.span * (elapsed \div lk.span)
  <2>1. sk \in Nat /\ sk % lk.span = 0 /\ elapsed - sk \in 0 .. lk.span - 1
    BY <1>1, <1>2, GridPoint
  <2>. HIDE DEF sk
  <2>2. later = anchor + sk /\ later \in Nat /\ later <= clk.now /\ clk.now - later \in 0 .. lk.span - 1
    <3>1. later = anchor + sk
      BY DEF sk
    <3>. HIDE DEF later
    <3>. QED
      BY <1>1, <1>2, <2>1, <3>1
  <2>. HIDE DEF later, anchor, elapsed
  <2>3. Sound(a1) /\ a1.slot = [lk EXCEPT !.anchor = later]
    BY <2>2, StoreOther DEF a1
  <2>4. Sound(a2) /\ a2.slot = [a1.slot EXCEPT !.pos = 0]
    <3>1. 0 \in 0 .. Stride * One - 1 /\ 0 < lk.length * One
      BY <1>1
    <3>2. a1.slot.length = lk.length
      BY <1>1, <2>3 DEF Slot
    <3>. QED
      BY <2>3, <3>1, <3>2, StorePos DEF a2
  <2>5. PlaysOn(lk, a2.slot) /\ a2.slot.anchor = later /\ a2.slot.pos = 0
    <3>1. a2.slot = [lk EXCEPT !.anchor = later, !.pos = 0]
      BY <2>3, <2>4
    <3>2. lk \in Slot
      BY <1>1
    <3>. HIDE DEF lk
    <3>. QED
      BY <3>1, <3>2 DEF Slot, PlaysOn
  <2>6. HeadHeld(a2.slot)
    <3>1. 0 <= cap
      BY <1>1
    <3>. QED
      BY <2>5, <3>1 DEF HeadHeld, PlaysOn
  <2>7. OnGrid(lk, a2.slot, clk.now)
    <3>1. SUFFICES ASSUME lk.anchor <= clk.now PROVE OnGrid(lk, a2.slot, clk.now)
      BY DEF OnGrid
    <3>2. later - lk.anchor = sk
      BY <1>1, <1>2, <2>1, <2>2, <3>1
    <3>3. later # lk.anchor
      <4>1. sk # 0
        BY <1>2, <1>4, <2>1, <1>1
      <4>. QED
        BY <1>1, <2>1, <2>2, <3>2, <4>1
    <3>. QED
      BY <2>1, <2>2, <2>5, <3>2, <3>3 DEF OnGrid
  <2>8. PlayClocked(run, step, clk) = a2
    BY <1>0, <1>4 DEF elapsed, anchor
  <2>. QED
    BY <2>2, <2>4, <2>5, <2>6, <2>7, <2>8
<1>5. CASE clk.running /\ ~(elapsed >= lk.span)
  <2>1. cap \in Nat /\ cap < lk.length * One /\ lk.length * One <= Stride * One
    BY <1>1
  <2>2. next \in Nat /\ next <= cap /\ (next >= lk.pos)
    <3>. HIDE DEF cap
    <3>. QED
      BY <1>1, <2>1, LesserIs
  <2>3. next \in 0 .. Stride * One - 1 /\ next < lk.length * One
    <3>. HIDE DEF next, cap
    <3>1. lk.length * One \in Nat /\ Stride * One \in Nat
      BY <1>1
    <3>. QED
      BY <2>1, <2>2, <3>1
  <2>. HIDE DEF next
  <2>4. PlayClocked(run, step, clk) = b2
    BY <1>0, <1>5
  <2>. HIDE DEF anchor, elapsed
  <2>5. Sound(b1) /\ b1.slot = [lk EXCEPT !.anchor = anchor]
    BY <1>2, StoreOther DEF b1
  <2>6. Sound(b2) /\ b2.slot = [b1.slot EXCEPT !.pos = next]
    <3>1. b1.slot.length = lk.length
      BY <1>1, <2>5 DEF Slot
    <3>. QED
      BY <2>3, <2>5, <3>1, StorePos DEF b2
  <2>7. PlaysOn(lk, b2.slot) /\ b2.slot.anchor = anchor /\ b2.slot.pos = next
    <3>1. b2.slot = [lk EXCEPT !.anchor = anchor, !.pos = next]
      BY <2>5, <2>6
    <3>2. lk \in Slot
      BY <1>1
    <3>. HIDE DEF lk
    <3>. QED
      BY <3>1, <3>2 DEF Slot, PlaysOn
  <2>8. HeadHeld(b2.slot)
    BY <2>2, <2>7 DEF HeadHeld, PlaysOn
  <2>9. OnGrid(lk, b2.slot, clk.now)
    <3>1. SUFFICES ASSUME lk.anchor <= clk.now PROVE OnGrid(lk, b2.slot, clk.now)
      BY DEF OnGrid
    <3>2. anchor = lk.anchor /\ (lk.anchor - lk.anchor) % lk.span = 0
      BY <1>1, <1>2, <3>1
    <3>. QED
      BY <1>1, <2>2, <2>7, <3>2 DEF OnGrid
  <2>. QED
    BY <1>2, <2>4, <2>6, <2>7, <2>8, <2>9
<1>. QED
  BY <1>3, <1>4, <1>5

LEMMA PlayIs ==
  ASSUME NEW run, Sound(run), HeadHeld(run.slot), NEW step \in Nat, NEW clk \in Clocks, clk.wired
  PROVE  LET is == PlaySlot(run, step, clk).slot
         IN  /\ Sound(PlaySlot(run, step, clk)) /\ PlaysOn(run.slot, is) /\ HeadHeld(is)
             /\ is.anchor = run.slot.anchor \/ is.anchor <= clk.now
             /\ OnGrid(run.slot, is, clk.now)
<1>. DEFINE lk == run.slot
<1>1. lk \in Slot
  BY DEF Sound, SafeSlot
<1>2. CASE ~lk.active \/ lk.length = 0
  <2>1. PlaySlot(run, step, clk) = run
    BY <1>2 DEF PlaySlot
  <2>2. ~lk.active
    BY <1>2 DEF Sound, SafeSlot, InsideLoop
  <2>3. PlaysOn(lk, lk) /\ OnGrid(lk, lk, clk.now)
    BY <2>2 DEF PlaysOn, OnGrid
  <2>. QED
    BY <2>1, <2>3
<1>3. CASE ~(~lk.active \/ lk.length = 0) /\ lk.span > 0
  <2>1. PlaySlot(run, step, clk) = PlayClocked(run, step, clk)
    BY <1>3 DEF PlaySlot
  <2>. QED
    BY <1>3, <2>1, PlayClockedIs
<1>4. CASE ~(~lk.active \/ lk.length = 0) /\ ~(lk.span > 0)
  <2>1. PlaySlot(run, step, clk) = PlayFree(run, step)
    BY <1>4 DEF PlaySlot
  <2>2. /\ Sound(PlayFree(run, step)) /\ PlaysOn(lk, PlayFree(run, step).slot)
        /\ PlayFree(run, step).slot.anchor = lk.anchor
    BY <1>4, PlayFreeIs
  <2>3. HeadHeld(PlayFree(run, step).slot) /\ OnGrid(lk, PlayFree(run, step).slot, clk.now)
    BY <1>4, <2>2 DEF HeadHeld, OnGrid, PlaysOn
  <2>. QED
    BY <2>1, <2>2, <2>3
<1>. QED
  BY <1>2, <1>3, <1>4

\* A clocked loop that was held slides on with the clock.
LEMMA SlideIs ==
  ASSUME NEW run, Sound(run), NEW gap \in Int, NEW clk \in Clocks
  PROVE  LET lk == run.slot  is == SlideSlot(run, gap, clk).slot
         IN  /\ Sound(SlideSlot(run, gap, clk)) /\ PlaysOn(lk, is) /\ is.pos = lk.pos
             /\ is.anchor = lk.anchor \/ is.anchor <= clk.now
             /\ gap <= 0 => is = lk
             /\ lk.active /\ lk.span > 0 /\ gap > 0
                => is.anchor = IF lk.anchor + gap <= clk.now THEN lk.anchor + gap ELSE clk.now
<1>. DEFINE lk == run.slot  to == Min({lk.anchor + gap, clk.now})
<1>1. lk \in Slot /\ lk.anchor \in Nat /\ lk.span \in Nat /\ clk.now \in Nat
  BY SlotAssumption DEF Sound, SafeSlot, Slot, Clocks
<1>2. CASE ~lk.active \/ lk.span = 0 \/ gap <= 0
  <2>1. SlideSlot(run, gap, clk) = run
    BY <1>2 DEF SlideSlot
  <2>2. PlaysOn(lk, lk)
    BY DEF PlaysOn
  <2>3. ~(lk.active /\ lk.span > 0 /\ gap > 0)
    BY <1>2
  <2>. HIDE DEF lk
  <2>. QED
    BY <2>1, <2>2, <2>3 DEF lk
<1>3. CASE ~(~lk.active \/ lk.span = 0 \/ gap <= 0)
  <2>1. lk.anchor + gap \in Nat
    BY <1>1, <1>3
  <2>2. /\ to \in Nat /\ to <= clk.now
        /\ to = IF lk.anchor + gap <= clk.now THEN lk.anchor + gap ELSE clk.now
    BY <1>1, <2>1, LesserIs
  <2>3. SlideSlot(run, gap, clk) = run \odot <<"anchor", to>>
    BY <1>3 DEF SlideSlot
  <2>. HIDE DEF to
  <2>4. Sound(SlideSlot(run, gap, clk)) /\ SlideSlot(run, gap, clk).slot = [lk EXCEPT !.anchor = to]
    BY <2>2, <2>3, StoreOther
  <2>5. /\ PlaysOn(lk, SlideSlot(run, gap, clk).slot) /\ SlideSlot(run, gap, clk).slot.anchor = to
        /\ SlideSlot(run, gap, clk).slot.pos = lk.pos
    <3>1. lk \in Slot
      BY <1>1
    <3>2. SlideSlot(run, gap, clk).slot = [lk EXCEPT !.anchor = to]
      BY <2>4
    <3>. HIDE DEF lk
    <3>. QED
      BY <3>1, <3>2 DEF Slot, PlaysOn
  <2>. QED
    BY <1>3, <2>2, <2>4, <2>5
<1>. QED
  BY <1>2, <1>3

-----------------------------------------------------------------------------
(* A slot in the state, and what a frame's stages do to one                *)

GoodSlot(lk) ==
  /\ SafeSlot(lk) /\ HeadHeld(lk) /\ lk.anchor <= MaxTick
  /\ lk.recording => Taken(lk)

\* The clock is typed.
ClockOK == now \in 0 .. MaxTick /\ running \in BOOLEAN /\ clocked \in BOOLEAN

LEMMA ClkIs ==
  ASSUME ClockOK
  PROVE  Clk \in Clocks /\ Clk.wired /\ Clk.now = now /\ now <= MaxTick /\ now \in Nat
BY LockAssumption DEF ClockOK, Clk, Clocks

LEMMA BeginIs ==
  ASSUME NEW lk, GoodSlot(lk)
  PROVE  /\ Sound(Begin(lk)) /\ Begin(lk).slot = lk
         /\ lk.anchor \in Nat /\ HeadHeld(lk) /\ (lk.recording => Taken(lk))
BY DEF GoodSlot, Begin, Sound, SafeSlot, Slot

LEMMA EmptyIsGood ==
  /\ GoodSlot(EmptySlot)
  /\ ~EmptySlot.recording /\ ~EmptySlot.active
<1>1. Stride \in Nat \ {0} /\ One \in Nat \ {0} /\ MaxSpan \in Nat /\ MaxTick \in Nat
  BY SlotAssumption, LockAssumption
<1>2. 0 \in 0 .. Stride * One - 1
  BY <1>1
<1>3. EmptySlot \in Slot
  BY <1>1, <1>2 DEF EmptySlot, Slot
<1>. QED
  BY <1>1, <1>3 DEF EmptySlot, GoodSlot, SafeSlot, InsideLoop, HeadHeld

\* A head at the start is held.
LEMMA StartIsHeld ==
  ASSUME NEW lk, SafeSlot(lk), lk.active => lk.pos = 0
  PROVE  HeadHeld(lk)
<1>1. SUFFICES ASSUME lk.active PROVE lk.pos <= (lk.length - 1) * One
  BY DEF HeadHeld
<1>2. lk.length \in Nat \ {0} /\ One \in Nat \ {0} /\ lk.pos = 0
  BY <1>1, SlotAssumption DEF SafeSlot, InsideLoop
<1>3. (lk.length - 1) * One >= 0
  BY <1>2
<1>. QED
  BY <1>2, <1>3

LEMMA TakeIsGood ==
  ASSUME NEW lk, lk.anchor \in Nat, lk.anchor <= MaxTick, ClockOK,
         NEW is, SafeSlot(is), KeepsTake(lk, is, Clk)
  PROVE  GoodSlot(is)
<1>1. HeadHeld(is)
  BY StartIsHeld DEF KeepsTake
<1>2. is.anchor <= MaxTick
  BY ClkIs DEF KeepsTake
<1>. QED
  BY <1>1, <1>2 DEF GoodSlot, KeepsTake

LEMMA FrameSlotPlays ==
  ASSUME NEW lk, GoodSlot(lk), NEW step \in Nat, ClockOK
  PROVE  LET run == PlaySlot(Begin(lk), step, Clk)
         IN  /\ Sound(run) /\ GoodSlot(run.slot)
             /\ PlaysOn(lk, run.slot) /\ OnGrid(lk, run.slot, now)
<1>. DEFINE run == PlaySlot(Begin(lk), step, Clk)
<1>1. /\ Sound(run) /\ PlaysOn(lk, run.slot) /\ HeadHeld(run.slot)
      /\ run.slot.anchor = lk.anchor \/ run.slot.anchor <= now
      /\ OnGrid(lk, run.slot, now)
  BY BeginIs, ClkIs, PlayIs
<1>. HIDE DEF run
<1>2. SafeSlot(run.slot) /\ run.slot.anchor \in Nat
  BY <1>1 DEF Sound, SafeSlot, Slot
<1>3. run.slot.anchor <= MaxTick
  BY <1>1, <1>2, ClkIs, LockAssumption DEF GoodSlot
<1>4. run.slot.recording => Taken(run.slot)
  BY <1>1 DEF PlaysOn, GoodSlot, Taken
<1>. QED
  BY <1>1, <1>2, <1>3, <1>4 DEF GoodSlot, run

LEMMA FrameSlotEnds ==
  ASSUME NEW lk, GoodSlot(lk), ClockOK
  PROVE  LET run == Finalise(Begin(lk), Clk)
         IN  /\ Sound(run) /\ GoodSlot(run.slot) /\ ~run.slot.recording
             /\ ~lk.recording => run.slot = lk
             /\ lk.recording => run.slot.active
<1>. DEFINE run == Finalise(Begin(lk), Clk)
<1>1. /\ Sound(run) /\ ~run.slot.recording
      /\ ~lk.recording => run.slot = lk
      /\ lk.recording => KeepsTake(lk, run.slot, Clk)
  BY BeginIs, ClkIs, FinaliseIs
<1>. HIDE DEF run
<1>2. CASE ~lk.recording
  BY <1>1, <1>2 DEF run
<1>3. CASE lk.recording
  <2>1. lk.anchor \in Nat /\ lk.anchor <= MaxTick /\ SafeSlot(run.slot)
    BY <1>1, BeginIs DEF GoodSlot, Sound
  <2>2. GoodSlot(run.slot)
    BY <1>1, <1>3, <2>1, TakeIsGood
  <2>. QED
    BY <1>1, <1>3, <2>2 DEF run, KeepsTake
<1>. QED
  BY <1>2, <1>3

\* A frame of a slot that records adds to its take.
LEMMA FeedIs ==
  ASSUME NEW run, Sound(run), run.slot.recording, run.slot.anchor <= MaxTick,
         NEW n \in Nat, ClockOK
  PROVE  LET fed == EmitSamples(run \odot <<"partial", TRUE>>, n, Clk)
         IN  /\ Sound(fed) /\ GoodSlot(fed.slot)
             /\ fed.slot.recording \/ fed.slot.active
<1>. DEFINE lk == run.slot
            r1 == run \odot <<"partial", TRUE>>
            fed == EmitSamples(r1, n, Clk)
<1>1. lk \in Slot
  BY DEF Sound, SafeSlot
<1>. HIDE DEF lk, r1
<1>2. Sound(r1) /\ r1.slot = [lk EXCEPT !.partial = TRUE]
  BY StoreOther DEF r1, lk
<1>3. r1.slot.recording /\ Taken(r1.slot) /\ r1.slot.anchor = lk.anchor /\ r1.slot.anchor \in Nat
  BY <1>1, <1>2 DEF Slot, Taken, lk
<1>4. Sound(fed) /\ KeepsTake(r1.slot, fed.slot, Clk)
  BY <1>2, <1>3, ClkIs, EmitIs
<1>. HIDE DEF fed
<1>5. GoodSlot(fed.slot)
  BY <1>3, <1>4, TakeIsGood DEF Sound, lk
<1>. QED
  BY <1>4, <1>5 DEF KeepsTake, fed, r1

\* What the manager is, in the middle of a frame.
Mgr == [lock : [Slots -> Slot], held : BOOLEAN, consumed : BOOLEAN, phase : 0 .. One - 1,
        baseline : [Pots -> Positions], taken : [Pots -> BOOLEAN], heldPage : Pages,
        release : {"none", "clean", "consumed"}, poisoned : BOOLEAN, returned : SUBSET Slots,
        armed : SUBSET Slots, readable : BOOLEAN]

GoodMgr(m) == m \in Mgr /\ m.readable /\ \A k \in Slots : GoodSlot(m.lock[k])

LEMMA FrameSlotGestures ==
  ASSUME NEW m, GoodMgr(m), NEW k \in Slots, NEW phys \in [Pots -> Positions],
         NEW n \in Nat, ClockOK
  PROVE  LET was == m.lock[k]
             run == Gesture(m, k, phys, n)
         IN  /\ Sound(run) /\ GoodSlot(run.slot)
             /\ run.slot.recording /\ ~was.recording => k[1] = m.heldPage
             /\ was.recording => run.slot.recording \/ run.slot.active
             /\ was.active /\ run.slot.active => run.slot = was
             /\ was.active /\ ~run.slot.active => k[1] = m.heldPage
<1>. DEFINE was == m.lock[k]
            begun == IF ~Acts(m, k, phys) THEN Begin(was)
                     ELSE IF was.active THEN ClearSlot(Begin(was))
                     ELSE ArmSlot(Begin(was), m.baseline[k[2]], Clk)
            fed == EmitSamples(begun \odot <<"partial", TRUE>>, n, Clk)
<1>0. Gesture(m, k, phys, n) = IF k[1] # m.heldPage \/ ~begun.slot.recording THEN begun ELSE fed
  BY DEF Gesture
<1>1. GoodSlot(was) /\ Sound(Begin(was)) /\ Begin(was).slot = was
  BY BeginIs DEF GoodMgr
<1>2. /\ Sound(begun) /\ begun.slot.anchor <= MaxTick
      /\ ~begun.slot.recording => GoodSlot(begun.slot)
      /\ k[1] # m.heldPage => begun.slot = was
      /\ was.recording => begun.slot = was
      /\ was.active => begun.slot = was \/ (~begun.slot.active /\ ~begun.slot.recording)
  <2>1. CASE ~Acts(m, k, phys)
    <3>1. begun = Begin(was)
      BY <2>1
    <3>. HIDE DEF begun
    <3>. QED
      BY <1>1, <3>1 DEF GoodSlot
  <2>2. CASE Acts(m, k, phys) /\ was.active
    <3>1. begun = ClearSlot(Begin(was))
      BY <2>2
    <3>2. Sound(begun) /\ begun.slot = EmptySlot
      BY <1>1, <3>1, ClearIs
    <3>3. k[1] = m.heldPage /\ ~was.recording
      BY <2>2 DEF Acts
    <3>4. EmptySlot.anchor <= MaxTick
      BY EmptyIsGood DEF GoodSlot
    <3>. HIDE DEF begun
    <3>. QED
      BY <3>2, <3>3, <3>4, EmptyIsGood
  <2>3. CASE Acts(m, k, phys) /\ ~was.active
    <3>. DEFINE base == m.baseline[k[2]]
    <3>1. begun = ArmSlot(Begin(was), base, Clk)
      BY <2>3
    <3>2. base \in Nat
      BY LockAssumption DEF GoodMgr, Mgr, Slots
    <3>. HIDE DEF base
    <3>3. Sound(begun) /\ begun.slot.recording /\ begun.slot.anchor = Clk.now
      <4>1. Clk \in Clocks /\ Sound(Begin(was))
        BY <1>1, ClkIs
      <4>. HIDE DEF begun
      <4>. QED
        BY <3>1, <3>2, <4>1, ArmIs
    <3>5. k[1] = m.heldPage /\ ~was.recording
      BY <2>3 DEF Acts
    <3>. HIDE DEF begun
    <3>. QED
      BY <2>3, <3>3, <3>5, ClkIs
  <2>. QED
    BY <2>1, <2>2, <2>3
<1>. HIDE DEF begun, was
<1>3. CASE k[1] # m.heldPage \/ ~begun.slot.recording
  <2>1. Gesture(m, k, phys, n) = begun
    BY <1>0, <1>3
  <2>2. GoodSlot(begun.slot)
    BY <1>1, <1>2, <1>3
  <2>3. was.recording => ~was.active
    BY <1>1 DEF GoodSlot, SafeSlot
  <2>. QED
    BY <1>1, <1>2, <1>3, <2>1, <2>2, <2>3 DEF was
<1>4. CASE ~(k[1] # m.heldPage \/ ~begun.slot.recording)
  <2>1. Gesture(m, k, phys, n) = fed
    BY <1>0, <1>4
  <2>2. Sound(fed) /\ GoodSlot(fed.slot) /\ (fed.slot.recording \/ fed.slot.active)
    BY <1>2, <1>4, FeedIs
  <2>3. ~was.active
    BY <1>1, <1>2, <1>4 DEF GoodSlot, SafeSlot
  <2>. QED
    BY <1>4, <2>1, <2>2, <2>3 DEF was
<1>. QED
  BY <1>3, <1>4

-----------------------------------------------------------------------------
(* The stages of a frame                                                   *)

\* What a write to the slots leaves alone.
SameHold(m, w) ==
  /\ w.held = m.held /\ w.consumed = m.consumed /\ w.phase = m.phase
  /\ w.baseline = m.baseline /\ w.taken = m.taken /\ w.heldPage = m.heldPage
  /\ w.release = m.release /\ w.poisoned = m.poisoned /\ w.armed = m.armed

LEMMA WroteIs ==
  ASSUME NEW m, GoodMgr(m), NEW ran, \A k \in Slots : Sound(ran[k]) /\ GoodSlot(ran[k].slot)
  PROVE  /\ GoodMgr(Wrote(m, ran)) /\ SameHold(m, Wrote(m, ran))
         /\ \A k \in Slots : Wrote(m, ran).lock[k] = ran[k].slot
<1>. DEFINE new == [k \in Slots |-> ran[k].slot]
            all == \A k \in Slots : ran[k].inside
            w == Wrote(m, ran)
<1>1. w = [m EXCEPT !.lock = new, !.readable = m.readable /\ all]
  BY DEF Wrote, GoodMgr, Mgr
<1>2. new \in [Slots -> Slot] /\ (\A k \in Slots : GoodSlot(new[k])) /\ all
  BY DEF Sound, SafeSlot
<1>3. m \in Mgr /\ m.readable
  BY DEF GoodMgr
<1>. HIDE DEF new, all, w
<1>4. w.lock = new /\ w.readable /\ w \in Mgr
  BY <1>1, <1>2, <1>3 DEF Mgr
<1>5. SameHold(m, w)
  BY <1>1, <1>3 DEF Mgr, SameHold
<1>. QED
  BY <1>2, <1>4, <1>5 DEF GoodMgr, w, new

LEMMA AdvanceIs ==
  ASSUME NEW m, GoodMgr(m), NEW step \in Nat, ClockOK
  PROVE  /\ GoodMgr(Advance(m, step)) /\ SameHold(m, Advance(m, step))
         /\ \A k \in Slots : /\ PlaysOn(m.lock[k], Advance(m, step).lock[k])
                             /\ OnGrid(m.lock[k], Advance(m, step).lock[k], now)
<1>1. CASE frozen
  <2>1. Advance(m, step) = m
    BY <1>1 DEF Advance
  <2>2. ASSUME NEW k \in Slots PROVE PlaysOn(m.lock[k], m.lock[k]) /\ OnGrid(m.lock[k], m.lock[k], now)
    <3>1. m.lock[k].anchor \in Nat /\ m.lock[k].span \in Nat
      BY SlotAssumption DEF GoodMgr, GoodSlot, SafeSlot, Slot
    <3>2. m.lock[k].span > 0 => (m.lock[k].anchor - m.lock[k].anchor) % m.lock[k].span = 0
      BY <3>1
    <3>3. m.lock[k].pos \in Nat
      BY SlotAssumption DEF GoodMgr, GoodSlot, SafeSlot, Slot
    <3>. QED
      BY <3>2, <3>3 DEF PlaysOn, OnGrid
  <2>. QED
    BY <2>1, <2>2 DEF SameHold
<1>2. CASE ~frozen
  <2>. DEFINE ran == [k \in Slots |-> PlaySlot(Begin(m.lock[k]), step, Clk)]
  <2>1. Advance(m, step) = Wrote(m, ran)
    BY <1>2 DEF Advance
  <2>2. ASSUME NEW k \in Slots
        PROVE  /\ Sound(ran[k]) /\ GoodSlot(ran[k].slot)
               /\ PlaysOn(m.lock[k], ran[k].slot) /\ OnGrid(m.lock[k], ran[k].slot, now)
    <3>1. GoodSlot(m.lock[k]) /\ ran[k] = PlaySlot(Begin(m.lock[k]), step, Clk)
      BY DEF GoodMgr
    <3>. HIDE DEF ran
    <3>. QED
      BY <3>1, FrameSlotPlays
  <2>. HIDE DEF ran
  <2>. QED
    BY <2>1, <2>2, WroteIs
<1>. QED
  BY <1>1, <1>2

LEMMA DownIs ==
  ASSUME NEW m, GoodMgr(m), NEW phys \in [Pots -> Positions], page \in Pages
  PROVE  LET b == OnButtonDown(m, phys)
         IN  /\ GoodMgr(b) /\ b.lock = m.lock /\ b.held /\ b.consumed = m.consumed
             /\ b.heldPage = page /\ b.release = m.release /\ b.poisoned = m.poisoned
<1>. DEFINE b == OnButtonDown(m, phys)
            free == [p \in Pots |-> FALSE]
<1>1. b = [m EXCEPT !.held = TRUE, !.phase = 0, !.baseline = phys, !.taken = free,
                    !.heldPage = page, !.armed = {}]
  BY DEF OnButtonDown
<1>2. m \in Mgr /\ free \in [Pots -> BOOLEAN] /\ 0 \in 0 .. One - 1
  BY SlotAssumption DEF GoodMgr
<1>. HIDE DEF b, free
<1>3. /\ b \in Mgr /\ b.lock = m.lock /\ b.held /\ b.consumed = m.consumed /\ b.readable = m.readable
      /\ b.heldPage = page /\ b.release = m.release /\ b.poisoned = m.poisoned
  BY <1>1, <1>2 DEF Mgr
<1>. QED
  BY <1>3 DEF GoodMgr, b

LEMMA UpIs ==
  ASSUME NEW m, GoodMgr(m), ClockOK
  PROVE  LET c == OnButtonUp(m)
         IN  /\ GoodMgr(c) /\ ~c.held /\ ~c.consumed /\ ~c.poisoned
             /\ c.release = IF m.held /\ ~m.poisoned
                            THEN IF m.consumed THEN "consumed" ELSE "clean" ELSE m.release
             /\ \A k \in Slots : /\ ~c.lock[k].recording
                                 /\ ~m.lock[k].recording => c.lock[k] = m.lock[k]
                                 /\ m.lock[k].recording => c.lock[k].active
<1>. DEFINE ran == [k \in Slots |-> Finalise(Begin(m.lock[k]), Clk)]
            done == Wrote(m, ran)
            class == IF m.held /\ ~m.poisoned
                     THEN IF m.consumed THEN "consumed" ELSE "clean" ELSE m.release
            none == [p \in Pots |-> FALSE]
            flat == [p \in Pots |-> Min(Positions)]
            ret == ReturnSet(done)
            c == OnButtonUp(m)
<1>1. ASSUME NEW k \in Slots
      PROVE  /\ Sound(ran[k]) /\ GoodSlot(ran[k].slot) /\ ~ran[k].slot.recording
             /\ ~m.lock[k].recording => ran[k].slot = m.lock[k]
             /\ m.lock[k].recording => ran[k].slot.active
  <2>1. GoodSlot(m.lock[k]) /\ ran[k] = Finalise(Begin(m.lock[k]), Clk)
    BY DEF GoodMgr
  <2>. HIDE DEF ran
  <2>. QED
    BY <2>1, FrameSlotEnds
<1>. HIDE DEF ran
<1>2. GoodMgr(done) /\ SameHold(m, done) /\ \A k \in Slots : done.lock[k] = ran[k].slot
  BY <1>1, WroteIs
<1>3. c = [done EXCEPT !.held = FALSE, !.consumed = FALSE, !.poisoned = FALSE,
                       !.release = class, !.returned = ret, !.phase = 0,
                       !.heldPage = Min(Pages), !.armed = {}, !.baseline = flat, !.taken = none]
  <2>1. done.release = m.release
    BY <1>2 DEF SameHold
  <2>2. done \in Mgr
    BY <1>2 DEF GoodMgr
  <2>3. c = [done EXCEPT !.held = FALSE, !.consumed = FALSE, !.poisoned = FALSE,
               !.release = IF m.held /\ ~m.poisoned
                           THEN (IF m.consumed THEN "consumed" ELSE "clean") ELSE done.release,
               !.returned = ret, !.phase = 0,
               !.heldPage = Min(Pages), !.armed = {}, !.baseline = flat, !.taken = none]
    BY <2>2 DEF OnButtonUp, ran, Mgr
  <2>. HIDE DEF c, done, ret, flat, none
  <2>. QED
    BY <2>1, <2>3
<1>4. /\ 0 \in 0 .. One - 1 /\ Min(Pages) \in Pages /\ flat \in [Pots -> Positions]
      /\ none \in [Pots -> BOOLEAN] /\ ret \in SUBSET Slots
  <2>1. Min(Pages) \in Pages /\ Min(Positions) \in Positions
    BY MinIs, LockAssumption
  <2>2. ret \in SUBSET Slots
    BY DEF ReturnSet
  <2>. QED
    BY <2>1, <2>2, SlotAssumption
<1>5. class \in {"none", "clean", "consumed"}
  BY DEF GoodMgr, Mgr
<1>6. done \in Mgr /\ done.readable
  BY <1>2 DEF GoodMgr
<1>. HIDE DEF c, done, class, none, flat, ret
<1>7. /\ c \in Mgr /\ c.readable /\ ~c.held /\ ~c.consumed /\ ~c.poisoned
      /\ c.release = class /\ c.lock = done.lock
  <2>. DEFINE d == [done EXCEPT !.held = FALSE, !.consumed = FALSE, !.poisoned = FALSE, !.release = class]
              e == [d EXCEPT !.returned = ret, !.phase = 0, !.heldPage = Min(Pages)]
  <2>1. /\ d \in Mgr /\ d.readable /\ ~d.held /\ ~d.consumed /\ ~d.poisoned
        /\ d.release = class /\ d.lock = done.lock
    BY <1>5, <1>6 DEF Mgr
  <2>2. c = [e EXCEPT !.armed = {}, !.baseline = flat, !.taken = none]
    BY <1>3
  <2>. HIDE DEF d
  <2>3. /\ e \in Mgr /\ e.readable /\ ~e.held /\ ~e.consumed /\ ~e.poisoned
        /\ e.release = class /\ e.lock = done.lock
    BY <1>4, <2>1 DEF Mgr
  <2>. HIDE DEF e
  <2>. QED
    BY <1>4, <2>2, <2>3 DEF Mgr
<1>8. GoodMgr(c)
  BY <1>1, <1>2, <1>7 DEF GoodMgr
<1>. QED
  BY <1>1, <1>2, <1>7, <1>8 DEF c, class

LEMMA GesturesIs ==
  ASSUME NEW m, GoodMgr(m), NEW phys \in [Pots -> Positions], NEW step \in Nat, ClockOK
  PROVE  LET d == ProcessGestures(m, phys, step)
         IN  /\ GoodMgr(d) /\ d.held = m.held /\ d.release = m.release /\ d.poisoned = m.poisoned
             /\ m.consumed => d.consumed
             /\ ~m.held => d = m
             /\ \A k \in Slots :
                  LET was == m.lock[k]  is == d.lock[k]
                  IN  /\ is.recording /\ ~was.recording => m.held /\ k[1] = m.heldPage
                      /\ was.recording => is.recording \/ is.active
                      /\ was.active /\ is.active => is = was
                      /\ was.active /\ ~is.active => k[1] = m.heldPage
<1>. DEFINE n == (m.phase + step) \div One
            ran == [k \in Slots |-> Gesture(m, k, phys, n)]
            fed == Wrote(m, ran)
            acting == {k \in Slots : Acts(m, k, phys)}
            pots == {k[2] : k \in acting}
            left == (m.phase + step) % One
            took == [p \in Pots |-> m.taken[p] \/ p \in pots]
            from == [p \in Pots |-> IF p \in pots THEN phys[p] ELSE m.baseline[p]]
            more == m.armed \cup {k \in acting : ~m.lock[k].active}
            acted == m.consumed \/ acting # {}
            d == ProcessGestures(m, phys, step)
<1>1. CASE ~m.held
  <2>1. d = m
    BY <1>1 DEF ProcessGestures
  <2>2. ASSUME NEW k \in Slots PROVE m.lock[k].active \in BOOLEAN
    BY DEF GoodMgr, GoodSlot, SafeSlot, Slot
  <2>. HIDE DEF d
  <2>. QED
    BY <1>1, <2>1 DEF d
<1>2. CASE m.held
  <2>0. m \in Mgr /\ One \in Nat \ {0} /\ m.phase \in 0 .. One - 1
    BY SlotAssumption DEF GoodMgr, Mgr
  <2>n. n \in Nat /\ left \in 0 .. One - 1
    <3>1. m.phase + step \in Nat
      BY <2>0
    <3>. QED
      BY <2>0, <3>1
  <2>1. ASSUME NEW k \in Slots
        PROVE  /\ Sound(ran[k]) /\ GoodSlot(ran[k].slot)
               /\ ran[k].slot.recording /\ ~m.lock[k].recording => k[1] = m.heldPage
               /\ m.lock[k].recording => ran[k].slot.recording \/ ran[k].slot.active
               /\ m.lock[k].active /\ ran[k].slot.active => ran[k].slot = m.lock[k]
               /\ m.lock[k].active /\ ~ran[k].slot.active => k[1] = m.heldPage
    <3>1. ran[k] = Gesture(m, k, phys, n)
      OBVIOUS
    <3>. HIDE DEF ran, n
    <3>. QED
      BY <2>n, <3>1, FrameSlotGestures
  <2>. HIDE DEF ran
  <2>2. GoodMgr(fed) /\ SameHold(m, fed) /\ \A k \in Slots : fed.lock[k] = ran[k].slot
    BY <2>1, WroteIs
  <2>3. d = [fed EXCEPT !.phase = left, !.consumed = acted,
                        !.taken = took, !.baseline = from, !.armed = more]
    <3>1. /\ fed.consumed = m.consumed /\ fed.taken = m.taken /\ fed.baseline = m.baseline
          /\ fed.armed = m.armed /\ fed \in Mgr
      BY <2>2 DEF SameHold, GoodMgr
    <3>2. d = [fed EXCEPT !.phase = left, !.consumed = fed.consumed \/ acting # {},
                 !.taken = [p \in Pots |-> fed.taken[p] \/ p \in pots],
                 !.baseline = [p \in Pots |-> IF p \in pots THEN phys[p] ELSE fed.baseline[p]],
                 !.armed = fed.armed \cup {k \in acting : ~m.lock[k].active}]
      BY <1>2, <3>1 DEF ProcessGestures, ran, Mgr
    <3>. HIDE DEF d, fed, acting, pots, left
    <3>. QED
      BY <3>1, <3>2
  <2>4. took \in [Pots -> BOOLEAN] /\ from \in [Pots -> Positions] /\ more \in SUBSET Slots
    BY <2>0 DEF Mgr
  <2>5. fed \in Mgr /\ fed.readable
    BY <2>2 DEF GoodMgr
  <2>6. acted \in BOOLEAN /\ (m.consumed => acted)
    OBVIOUS
  <2>. HIDE DEF n, fed, acting, pots, left, took, from, more, acted, d
  <2>7. /\ d \in Mgr /\ d.readable /\ d.lock = fed.lock /\ d.held = fed.held /\ d.release = fed.release
        /\ d.poisoned = fed.poisoned /\ d.consumed = acted
    <3>. DEFINE e == [fed EXCEPT !.phase = left, !.consumed = acted]
    <3>1. /\ e \in Mgr /\ e.readable /\ e.lock = fed.lock /\ e.held = fed.held
          /\ e.release = fed.release /\ e.poisoned = fed.poisoned
          /\ e.consumed = acted
      BY <2>n, <2>5, <2>6 DEF Mgr
    <3>2. d = [e EXCEPT !.taken = took, !.baseline = from, !.armed = more]
      BY <2>3
    <3>. HIDE DEF e
    <3>. QED
      BY <2>4, <3>1, <3>2 DEF Mgr
  <2>8. GoodMgr(d)
    BY <2>1, <2>2, <2>7 DEF GoodMgr
  <2>9. \A k \in Slots : d.lock[k] = ran[k].slot
    BY <2>2, <2>7
  <2>. QED
    BY <1>2, <2>1, <2>2, <2>6, <2>7, <2>8, <2>9 DEF d, SameHold
<1>. QED
  BY <1>1, <1>2

\* A frame outside Settings: the edges of the trigger, then the gestures.
LEMMA UpdateIs ==
  ASSUME NEW a, GoodMgr(a), NEW phys \in [Pots -> Positions], NEW step \in Nat, ClockOK,
         page \in Pages, ~gated, rising \in BOOLEAN, falling \in BOOLEAN
  PROVE  LET u == Update(a, phys, step)
         IN  /\ GoodMgr(u)
             /\ u.held <=> ~falling /\ (rising \/ a.held)
             /\ u.poisoned <=> ~falling /\ a.poisoned
             /\ u.release = IF falling /\ (rising \/ a.held) /\ ~a.poisoned
                            THEN IF a.consumed THEN "consumed" ELSE "clean" ELSE a.release
             /\ falling => ~u.consumed
             /\ ~falling /\ a.consumed => u.consumed
             /\ ~falling /\ ~u.held => u.consumed = a.consumed
             /\ \A k \in Slots :
                  LET was == a.lock[k]  is == u.lock[k]
                  IN  /\ is.recording => ~falling
                      /\ is.recording /\ ~was.recording =>
                           u.held /\ k[1] = IF rising THEN page ELSE a.heldPage
                      /\ was.recording => is.recording \/ is.active
                      /\ was.active /\ is.active => is = was
                      /\ was.active /\ ~is.active => k[1] = IF rising THEN page ELSE a.heldPage
<1>. DEFINE b == IF rising THEN OnButtonDown(a, phys) ELSE a
            c == IF falling THEN OnButtonUp(b) ELSE b
            u == Update(a, phys, step)
<1>0. u = ProcessGestures(c, phys, step)
  BY DEF Update
<1>. HIDE DEF u
<1>1. /\ GoodMgr(b) /\ b.lock = a.lock /\ (b.held <=> rising \/ a.held)
      /\ b.consumed = a.consumed /\ b.release = a.release /\ b.poisoned = a.poisoned
      /\ b.heldPage = IF rising THEN page ELSE a.heldPage
  <2>1. CASE rising
    <3>1. b = OnButtonDown(a, phys)
      BY <2>1
    <3>. HIDE DEF b
    <3>. QED
      BY <2>1, <3>1, DownIs
  <2>2. CASE ~rising
    BY <2>2
  <2>. QED
    BY <2>1, <2>2
<1>. HIDE DEF b
<1>2. /\ GoodMgr(c)
      /\ falling => ~c.held /\ ~c.consumed /\ ~c.poisoned
      /\ falling => c.release = IF b.held /\ ~b.poisoned
                                THEN IF b.consumed THEN "consumed" ELSE "clean" ELSE b.release
      /\ ~falling => c = b
      /\ \A k \in Slots :
           /\ falling => ~c.lock[k].recording
           /\ ~b.lock[k].recording => c.lock[k] = b.lock[k]
           /\ b.lock[k].recording => c.lock[k].recording \/ c.lock[k].active
  <2>1. CASE falling
    <3>1. c = OnButtonUp(b)
      BY <2>1
    <3>. HIDE DEF c
    <3>. QED
      BY <1>1, <2>1, <3>1, UpIs
  <2>2. CASE ~falling
    BY <1>1, <2>2
  <2>. QED
    BY <2>1, <2>2
<1>. HIDE DEF c
<1>3. /\ GoodMgr(u) /\ u.held = c.held /\ u.release = c.release /\ u.poisoned = c.poisoned
      /\ c.consumed => u.consumed
      /\ ~c.held => u = c
      /\ \A k \in Slots :
           /\ u.lock[k].recording /\ ~c.lock[k].recording => c.held /\ k[1] = c.heldPage
           /\ c.lock[k].recording => u.lock[k].recording \/ u.lock[k].active
           /\ c.lock[k].active /\ u.lock[k].active => u.lock[k] = c.lock[k]
           /\ c.lock[k].active /\ ~u.lock[k].active => k[1] = c.heldPage
  BY <1>0, <1>2, GesturesIs
<1>4. /\ u.held <=> ~falling /\ (rising \/ a.held)
      /\ u.poisoned <=> ~falling /\ a.poisoned
  BY <1>1, <1>2, <1>3
<1>5. u.release = IF falling /\ (rising \/ a.held) /\ ~a.poisoned
                  THEN IF a.consumed THEN "consumed" ELSE "clean" ELSE a.release
  BY <1>1, <1>2, <1>3
<1>6. /\ falling => ~u.consumed
      /\ ~falling /\ a.consumed => u.consumed
      /\ ~falling /\ ~u.held => u.consumed = a.consumed
  BY <1>1, <1>2, <1>3
<1>7. ASSUME NEW k \in Slots
      PROVE  LET was == a.lock[k]  is == u.lock[k]
             IN  /\ is.recording => ~falling
                 /\ is.recording /\ ~was.recording =>
                      u.held /\ k[1] = IF rising THEN page ELSE a.heldPage
                 /\ was.recording => is.recording \/ is.active
                 /\ was.active /\ is.active => is = was
                 /\ was.active /\ ~is.active => k[1] = IF rising THEN page ELSE a.heldPage
  <2>1. /\ ~(a.lock[k].active /\ a.lock[k].recording)
        /\ ~(u.lock[k].active /\ u.lock[k].recording)
        /\ ~(c.lock[k].active /\ c.lock[k].recording)
        /\ a.lock[k].recording \in BOOLEAN /\ a.lock[k].active \in BOOLEAN
        /\ u.lock[k].recording \in BOOLEAN /\ u.lock[k].active \in BOOLEAN
        /\ c.lock[k].recording \in BOOLEAN /\ c.lock[k].active \in BOOLEAN
    BY <1>2, <1>3 DEF GoodMgr, GoodSlot, SafeSlot, Slot
  <2>2. CASE falling
    <3>1. u = c /\ ~c.held
      BY <1>2, <1>3, <2>2
    <3>. QED
      BY <1>1, <1>2, <2>1, <2>2, <3>1
  <2>3. CASE ~falling
    <3>1. c = b
      BY <1>2, <2>3
    <3>. QED
      BY <1>1, <1>3, <2>1, <2>3, <3>1
  <2>. QED
    BY <2>2, <2>3
<1>. QED
  BY <1>3, <1>4, <1>5, <1>6, <1>7 DEF u

-----------------------------------------------------------------------------
(* The inductive invariant                                                 *)

\* What the trigger's flags say of each other.  Without a release pending the button is down
\* through a hold, and the press has acted if the hold consumed it; a press pending is clean;
\* and a release that may count as a tap is owed, or a new press follows it.
PressInv ==
  /\ release = "none"
  /\ poisoned => falling
  /\ ~held => ~consumed
  /\ held /\ ~falling => /\ down /\ ~rising
                         /\ consumed => press = "acted"
                         /\ ~consumed => press = "clean"
  /\ rising /\ ~falling => down /\ press = "clean" /\ ~held
  /\ falling /\ ~poisoned /\ ~consumed /\ (held \/ rising) =>
       owed \/ (rising /\ down /\ press = "clean")

\* Every slot may be read, holds its head and has a take if it records, in a hold.
SlotsInv ==
  /\ readable
  /\ \A k \in Slots : GoodSlot(lock[k]) /\ (lock[k].recording => held)

LockIInv == LockTypeOK /\ SlotsInv /\ PressInv

LEMMA ManagerIsGood ==
  ASSUME LockTypeOK, SlotsInv
  PROVE  GoodMgr(Manager) /\ ClockOK
<1>1. Manager \in Mgr
  BY DEF LockTypeOK, Manager, Mgr
<1>2. Manager.readable /\ Manager.lock = lock
  BY DEF Manager
<1>. QED
  BY <1>1, <1>2 DEF GoodMgr, SlotsInv, ClockOK, LockTypeOK

\* The hold's part of the types.
HoldTypes ==
  /\ lock \in [Slots -> Slot] /\ held \in BOOLEAN /\ consumed \in BOOLEAN /\ phase \in 0 .. One - 1
  /\ baseline \in [Pots -> Positions] /\ taken \in [Pots -> BOOLEAN] /\ heldPage \in Pages
  /\ poisoned \in BOOLEAN /\ armed \in SUBSET Slots /\ release \in {"none", "clean", "consumed"}

\* What a frame does to a slot: it records no more behind a release, starts to record only in
\* a hold and on its page, is cleared only on that page, keeps its take, and plays on its grid.
SlotFrame(was, is, k) ==
  /\ ~was.recording /\ is.recording => held' /\ k[1] = IF rising THEN page ELSE heldPage
  /\ is.recording => gated \/ ~falling
  /\ was.recording => is.recording \/ is.active
  /\ was.active /\ is.active => OnGrid(was, is, now)
  /\ was.active /\ ~is.active => k[1] = IF rising THEN page ELSE heldPage

LEMMA FrameIs ==
  ASSUME LockTypeOK, SlotsInv, release = "none", NEW phys \in [Pots -> Positions],
         NEW step \in Steps, Frame(phys, step)
  PROVE  /\ HoldTypes' /\ readable' /\ release' = "none"
         /\ \A k \in Slots : GoodSlot(lock'[k]) /\ SlotFrame(lock[k], lock'[k], k)
         /\ gated => /\ held' = held /\ consumed' = consumed /\ poisoned' = poisoned
                     /\ ~tapped'
         /\ ~gated =>
              /\ held' <=> ~falling /\ (rising \/ held)
              /\ poisoned' <=> ~falling /\ poisoned
              /\ tapped' <=> falling /\ (rising \/ held) /\ ~poisoned /\ ~consumed
              /\ falling => ~consumed'
              /\ ~falling /\ consumed => consumed'
              /\ ~falling /\ ~held' => consumed' = consumed
         /\ press' = IF held' /\ consumed' THEN "acted" ELSE press
<1>. DEFINE a == Advance(Manager, step)
            m == Update(a, phys, step)
<1>1. /\ lock' = m.lock /\ held' = m.held /\ consumed' = m.consumed /\ phase' = m.phase
      /\ baseline' = m.baseline /\ taken' = m.taken /\ heldPage' = m.heldPage
      /\ poisoned' = m.poisoned /\ armed' = m.armed /\ readable' = m.readable
      /\ tapped' = (~gated /\ m.release = "clean")
      /\ release' = IF gated THEN m.release ELSE "none"
      /\ press' = IF m.held /\ m.consumed THEN "acted" ELSE press
  BY DEF Frame
<1>2. step \in Nat
  BY LockAssumption
<1>3. /\ Manager.lock = lock /\ Manager.held = held /\ Manager.consumed = consumed
      /\ Manager.heldPage = heldPage /\ Manager.release = "none" /\ Manager.poisoned = poisoned
  BY DEF Manager
<1>4. ClockOK /\ GoodMgr(Manager)
  BY ManagerIsGood
<1>5. /\ GoodMgr(a) /\ SameHold(Manager, a)
      /\ \A k \in Slots : PlaysOn(lock[k], a.lock[k]) /\ OnGrid(lock[k], a.lock[k], now)
  BY <1>2, <1>3, <1>4, AdvanceIs
<1>. HIDE DEF a, m
<1>6. /\ a.held = held /\ a.consumed = consumed /\ a.heldPage = heldPage
      /\ a.release = "none" /\ a.poisoned = poisoned
  BY <1>3, <1>5 DEF SameHold
<1>7. CASE gated
  <2>1. m = a
    BY <1>7 DEF m, Update
  <2>2. ASSUME NEW k \in Slots PROVE GoodSlot(lock'[k]) /\ SlotFrame(lock[k], lock'[k], k)
    <3>1. lock'[k] = a.lock[k] /\ PlaysOn(lock[k], a.lock[k]) /\ OnGrid(lock[k], a.lock[k], now)
      BY <1>1, <1>5, <2>1
    <3>2. GoodSlot(a.lock[k])
      BY <1>5 DEF GoodMgr
    <3>. QED
      BY <1>7, <3>1, <3>2 DEF SlotFrame, PlaysOn
  <2>3. HoldTypes' /\ readable' /\ release' = "none"
    BY <1>1, <1>5, <1>6, <1>7, <2>1 DEF GoodMgr, Mgr, HoldTypes
  <2>. QED
    BY <1>1, <1>6, <1>7, <2>1, <2>2, <2>3
<1>8. CASE ~gated
  <2>1. page \in Pages /\ rising \in BOOLEAN /\ falling \in BOOLEAN /\ held \in BOOLEAN
    BY DEF LockTypeOK
  <2>2. /\ GoodMgr(m)
        /\ m.held <=> ~falling /\ (rising \/ a.held)
        /\ m.poisoned <=> ~falling /\ a.poisoned
        /\ m.release = IF falling /\ (rising \/ a.held) /\ ~a.poisoned
                       THEN IF a.consumed THEN "consumed" ELSE "clean" ELSE a.release
        /\ falling => ~m.consumed
        /\ ~falling /\ a.consumed => m.consumed
        /\ ~falling /\ ~m.held => m.consumed = a.consumed
        /\ \A k \in Slots :
             LET was == a.lock[k]  is == m.lock[k]
             IN  /\ is.recording => ~falling
                 /\ is.recording /\ ~was.recording =>
                      m.held /\ k[1] = IF rising THEN page ELSE a.heldPage
                 /\ was.recording => is.recording \/ is.active
                 /\ was.active /\ is.active => is = was
                 /\ was.active /\ ~is.active => k[1] = IF rising THEN page ELSE a.heldPage
    BY <1>2, <1>4, <1>5, <1>8, <2>1, UpdateIs DEF m
  <2>3. ASSUME NEW k \in Slots PROVE GoodSlot(lock'[k]) /\ SlotFrame(lock[k], lock'[k], k)
    <3>1. PlaysOn(lock[k], a.lock[k]) /\ OnGrid(lock[k], a.lock[k], now)
      BY <1>5
    <3>2. lock'[k] = m.lock[k] /\ GoodSlot(m.lock[k]) /\ held' = m.held
      BY <1>1, <2>2 DEF GoodMgr
    <3>3. /\ m.lock[k].recording => ~falling
          /\ m.lock[k].recording /\ ~a.lock[k].recording =>
               m.held /\ k[1] = IF rising THEN page ELSE a.heldPage
          /\ a.lock[k].recording => m.lock[k].recording \/ m.lock[k].active
          /\ a.lock[k].active /\ m.lock[k].active => m.lock[k] = a.lock[k]
          /\ a.lock[k].active /\ ~m.lock[k].active => k[1] = IF rising THEN page ELSE a.heldPage
      BY <2>2
    <3>. QED
      BY <1>6, <3>1, <3>2, <3>3 DEF SlotFrame, PlaysOn
  <2>4. HoldTypes' /\ readable' /\ release' = "none"
    BY <1>1, <1>8, <2>2 DEF GoodMgr, Mgr, HoldTypes
  <2>5. tapped' <=> falling /\ (rising \/ held) /\ ~poisoned /\ ~consumed
    BY <1>1, <1>6, <1>8, <2>2
  <2>. QED
    BY <1>1, <1>6, <1>8, <2>2, <2>3, <2>4, <2>5
<1>. QED
  BY <1>7, <1>8

\* Another's write to the slots: they stay good, the hold and the release are left alone.
LEMMA OthersIs ==
  ASSUME LockIInv, NEW ran, NEW cleared, Others(ran, cleared),
         \A k \in Slots : /\ Sound(ran[k]) /\ GoodSlot(ran[k].slot)
                          /\ ran[k].slot.recording => lock[k].recording
  PROVE  /\ lock' \in [Slots -> Slot] /\ readable' /\ ~tapped'
         /\ \A k \in Slots : /\ lock'[k] = ran[k].slot /\ GoodSlot(lock'[k])
                             /\ lock'[k].recording => lock[k].recording
         /\ UNCHANGED <<trigger, hold, release, owed, press>>
         /\ armed' \in SUBSET Slots
<1>1. GoodMgr(Manager)
  BY ManagerIsGood DEF LockIInv
<1>. DEFINE m == Wrote(Manager, ran)
<1>2. /\ lock' = m.lock /\ readable' = m.readable /\ ~tapped' /\ armed' = armed \ cleared
      /\ UNCHANGED <<trigger, hold, release, owed, press>>
  BY DEF Others, ToldNothing
<1>3. GoodMgr(m) /\ \A k \in Slots : m.lock[k] = ran[k].slot
  BY <1>1, WroteIs
<1>. HIDE DEF m
<1>4. m.lock \in [Slots -> Slot] /\ m.readable /\ \A k \in Slots : GoodSlot(m.lock[k])
  BY <1>3 DEF GoodMgr, Mgr
<1>5. armed' \in SUBSET Slots
  BY <1>2 DEF LockIInv, LockTypeOK
<1>. QED
  BY <1>2, <1>3, <1>4, <1>5

\* The clock, Settings, the pager and the freeze are typed.
WorldOK ==
  /\ gated \in BOOLEAN /\ frozen \in BOOLEAN /\ clocked \in BOOLEAN /\ returns \in BOOLEAN
  /\ running \in BOOLEAN /\ now \in 0 .. MaxTick /\ freezeTick \in 0 .. MaxTick /\ page \in Pages

\* A step that leaves the trigger, the hold and the release alone keeps the invariant if the
\* slots stay good and none starts to record.
LEMMA QuietStep ==
  ASSUME LockIInv, WorldOK', calls' \in Nat, lock' \in [Slots -> Slot], readable',
         armed' \in SUBSET Slots, UNCHANGED <<trigger, hold, release, owed, press>>,
         \A k \in Slots : GoodSlot(lock'[k]) /\ (lock'[k].recording => lock[k].recording)
  PROVE  LockIInv'
<1>1. LockTypeOK'
  <2>1. \A k \in Slots : lock'[k].anchor <= MaxTick /\ ~(lock'[k].active /\ lock'[k].recording)
    BY DEF GoodSlot, SafeSlot
  <2>. QED
    BY <2>1 DEF LockIInv, LockTypeOK, WorldOK, trigger, hold
<1>2. SlotsInv'
  BY DEF LockIInv, SlotsInv, hold
<1>3. PressInv'
  BY DEF LockIInv, PressInv, trigger, hold
<1>. QED
  BY <1>1, <1>2, <1>3 DEF LockIInv

-----------------------------------------------------------------------------
(* The steps                                                               *)

LEMMA StartIsGood == Init => LockIInv
<1>. SUFFICES ASSUME Init PROVE LockIInv
  OBVIOUS
<1>1. /\ Min(Pages) \in Pages /\ Min(Positions) \in Positions /\ MaxTick \in Nat
      /\ Stride \in Nat \ {0} /\ One \in Nat \ {0}
  BY LockAssumption, SlotAssumption, MinIs
<1>2. lock = [k \in Slots |-> EmptySlot] /\ \A k \in Slots : lock[k] = EmptySlot
  BY DEF Init
<1>3. \A k \in Slots : GoodSlot(lock[k]) /\ ~lock[k].recording
  BY <1>2, EmptyIsGood
<1>4. \A k \in Slots : /\ lock[k] \in Slot /\ lock[k].anchor <= MaxTick
                       /\ ~(lock[k].active /\ lock[k].recording)
  BY <1>3 DEF GoodSlot, SafeSlot
<1>5. lock \in [Slots -> Slot]
  BY <1>2, <1>4
<1>6. SlotsInv /\ PressInv
  BY <1>3 DEF Init, SlotsInv, PressInv
<1>7. clocked \in BOOLEAN /\ returns \in BOOLEAN
  <2>1. PICK m \in Modes : clocked = m[1] /\ returns = m[2]
    BY DEF Init
  <2>. QED
    BY <2>1, LockAssumption
<1>8. /\ baseline \in [Pots -> Positions] /\ taken \in [Pots -> BOOLEAN]
      /\ heldPage \in Pages /\ page \in Pages /\ 0 \in 0 .. One - 1 /\ 0 \in 0 .. MaxTick
  BY <1>1 DEF Init
<1>9. LockTypeOK
  BY <1>4, <1>5, <1>7, <1>8 DEF Init, LockTypeOK
<1>. QED
  BY <1>6, <1>9 DEF LockIInv

LEMMA PollStep == LockIInv /\ PollButtons => LockIInv'
<1>. SUFFICES ASSUME LockIInv, PollButtons PROVE LockIInv'
  OBVIOUS
<1>1. LockTypeOK'
  <2>1. /\ down' \in BOOLEAN /\ rising' \in BOOLEAN /\ falling' \in BOOLEAN
        /\ poisoned' \in BOOLEAN /\ owed' \in BOOLEAN
        /\ press' \in {"none", "clean", "acted", "gated"}
    BY DEF PollButtons, LockIInv, LockTypeOK
  <2>2. UNCHANGED <<lock, release, calls, armed>> /\ UNCHANGED hold /\ UNCHANGED world
    BY DEF PollButtons
  <2>. QED
    BY <2>1, <2>2 DEF LockIInv, LockTypeOK, hold, world
<1>2. SlotsInv'
  BY DEF PollButtons, LockIInv, SlotsInv, hold
<1>3. PressInv'
  <2>t. /\ down \in BOOLEAN /\ rising \in BOOLEAN /\ falling \in BOOLEAN /\ poisoned \in BOOLEAN
        /\ gated \in BOOLEAN /\ held \in BOOLEAN /\ consumed \in BOOLEAN /\ owed \in BOOLEAN
    BY DEF LockIInv, LockTypeOK
  <2>s. release' = release /\ held' = held /\ consumed' = consumed
    BY DEF PollButtons, hold
  <2>1. CASE down
    <3>1. /\ down' = FALSE /\ rising' = rising /\ falling' = TRUE /\ poisoned' = (poisoned \/ gated)
          /\ owed' = (owed \/ (~gated /\ press = "clean"))
      BY <2>1, <2>t DEF PollButtons
    <3>. QED
      BY <2>s, <2>1, <2>t, <3>1 DEF LockIInv, PressInv
  <2>2. CASE ~down
    <3>1. /\ down' = TRUE /\ rising' = (rising \/ ~gated) /\ falling' = falling
          /\ poisoned' = poisoned /\ owed' = owed /\ press' = IF gated THEN "gated" ELSE "clean"
      BY <2>2, <2>t DEF PollButtons
    <3>. QED
      BY <2>s, <2>2, <2>t, <3>1 DEF LockIInv, PressInv
  <2>. QED
    BY <2>1, <2>2
<1>. QED
  BY <1>1, <1>2, <1>3 DEF LockIInv

LEMMA FrameStep ==
  ASSUME LockIInv, NEW phys \in [Pots -> Positions], NEW step \in Steps, Frame(phys, step)
  PROVE  LockIInv'
<1>1. LockTypeOK /\ SlotsInv /\ PressInv /\ release = "none"
  BY DEF LockIInv, PressInv
<1>2. /\ HoldTypes' /\ readable' /\ release' = "none"
      /\ \A k \in Slots : GoodSlot(lock'[k]) /\ SlotFrame(lock[k], lock'[k], k)
      /\ gated => held' = held /\ consumed' = consumed /\ poisoned' = poisoned
      /\ ~gated => /\ held' <=> ~falling /\ (rising \/ held)
                   /\ poisoned' <=> ~falling /\ poisoned
                   /\ falling => ~consumed'
                   /\ ~falling /\ consumed => consumed'
                   /\ ~falling /\ ~held' => consumed' = consumed
      /\ press' = IF held' /\ consumed' THEN "acted" ELSE press
  BY <1>1, FrameIs
<1>3. /\ rising' = (rising /\ gated) /\ falling' = (falling /\ gated) /\ owed' = (owed /\ gated)
      /\ down' = down /\ calls' = calls /\ UNCHANGED world
  BY DEF Frame
<1>4. LockTypeOK'
  <2>1. \A k \in Slots : lock'[k].anchor <= MaxTick /\ ~(lock'[k].active /\ lock'[k].recording)
    BY <1>2 DEF GoodSlot, SafeSlot
  <2>2. WorldOK' /\ calls' \in Nat /\ down' \in BOOLEAN
    BY <1>1, <1>3 DEF LockTypeOK, WorldOK, world
  <2>3. /\ rising' \in BOOLEAN /\ falling' \in BOOLEAN /\ owed' \in BOOLEAN
        /\ press' \in {"none", "clean", "acted", "gated"}
    BY <1>1, <1>2, <1>3 DEF LockTypeOK
  <2>. QED
    BY <1>2, <2>1, <2>2, <2>3 DEF LockTypeOK, HoldTypes, WorldOK
<1>5. SlotsInv'
  <2>1. ASSUME NEW k \in Slots, lock'[k].recording PROVE held'
    <3>1. CASE lock[k].recording
      <4>1. held
        BY <1>1, <3>1 DEF SlotsInv
      <4>2. gated \/ ~falling
        BY <1>2, <2>1 DEF SlotFrame
      <4>. QED
        BY <1>2, <4>1, <4>2
    <3>2. CASE ~lock[k].recording
      BY <1>2, <2>1, <3>2 DEF SlotFrame
    <3>. QED
      BY <3>1, <3>2
  <2>. QED
    BY <1>2, <2>1 DEF SlotsInv
<1>6. PressInv'
  <2>t. /\ gated \in BOOLEAN /\ held \in BOOLEAN /\ consumed \in BOOLEAN /\ rising \in BOOLEAN
        /\ falling \in BOOLEAN /\ poisoned \in BOOLEAN /\ down \in BOOLEAN /\ owed \in BOOLEAN
        /\ held' \in BOOLEAN /\ consumed' \in BOOLEAN /\ poisoned' \in BOOLEAN
    BY <1>1, <1>2 DEF LockTypeOK, HoldTypes
  <2>1. CASE gated
    BY <1>1, <1>2, <1>3, <2>1, <2>t DEF PressInv
  <2>2. CASE ~gated
    BY <1>1, <1>2, <1>3, <2>2, <2>t DEF PressInv
  <2>. QED
    BY <2>1, <2>2
<1>. QED
  BY <1>4, <1>5, <1>6 DEF LockIInv

\* What a slot is when another has worked on it.
LEMMA OtherSlots ==
  ASSUME LockIInv, NEW k \in Slots
  PROVE  /\ Sound(Begin(lock[k])) /\ Begin(lock[k]).slot = lock[k] /\ GoodSlot(lock[k])
         /\ Sound(ClearSlot(Begin(lock[k]))) /\ ClearSlot(Begin(lock[k])).slot = EmptySlot
<1>1. GoodSlot(lock[k])
  BY DEF LockIInv, SlotsInv
<1>. QED
  BY <1>1, BeginIs, ClearIs

LEMMA DeserializeIs ==
  ASSUME LockIInv, NEW preset \in Presets, Deserialize(preset)
  PROVE  /\ LockIInv' /\ calls' = calls + 1 /\ ~tapped'
         /\ \A k \in Slots : ~lock'[k].recording /\ lock'[k].anchor = 0
<1>. DEFINE ran == [k \in Slots |-> RestoreSlot(Begin(lock[k]), preset[k])]
<1>1. /\ Others(ran, Slots) /\ calls' = calls + 1 /\ UNCHANGED world
  BY DEF Deserialize, Call
<1>2. ASSUME NEW k \in Slots
      PROVE  /\ Sound(ran[k]) /\ GoodSlot(ran[k].slot)
             /\ ~ran[k].slot.recording /\ ran[k].slot.anchor = 0
    <2>1. preset[k] \in [active : BOOLEAN, length : Nat, base : Nat, span : 0 .. MaxSpan]
      BY PresetAssumption
    <2>2. ran[k] = RestoreSlot(Begin(lock[k]), preset[k])
      OBVIOUS
    <2>. HIDE DEF ran
    <2>3. Sound(ran[k]) /\ ~ran[k].slot.recording /\ ran[k].slot.pos = 0 /\ ran[k].slot.anchor = 0
      BY <2>1, <2>2, OtherSlots, RestoreIs
    <2>4. SafeSlot(ran[k].slot) /\ HeadHeld(ran[k].slot)
      BY <2>3, StartIsHeld DEF Sound
    <2>. QED
      BY <2>3, <2>4, LockAssumption DEF GoodSlot
<1>. HIDE DEF ran
<1>3. /\ lock' \in [Slots -> Slot] /\ readable' /\ ~tapped'
      /\ \A k \in Slots : lock'[k] = ran[k].slot /\ GoodSlot(lock'[k])
      /\ UNCHANGED <<trigger, hold, release, owed, press>> /\ armed' \in SUBSET Slots
  BY <1>1, <1>2, OthersIs
<1>4. WorldOK' /\ calls' \in Nat
  BY <1>1 DEF LockIInv, LockTypeOK, WorldOK, world
<1>5. LockIInv'
  BY <1>2, <1>3, <1>4, QuietStep
<1>. QED
  BY <1>1, <1>2, <1>3, <1>5

LEMMA ClearSlotAtPageIs ==
  ASSUME LockIInv, NEW k \in Slots, ClearSlotAtPage(k)
  PROVE  /\ LockIInv' /\ calls' = calls + 1 /\ ~tapped'
         /\ \A j \in Slots : lock'[j] = lock[j] \/ lock'[j] = EmptySlot
<1>. DEFINE ran == [j \in Slots |-> LET run == Begin(lock[j])
                                    IN  IF j = k THEN ClearSlot(run) ELSE run]
<1>1. /\ Others(ran, {k}) /\ calls' = calls + 1 /\ UNCHANGED world
  BY DEF ClearSlotAtPage, Call
<1>2. ASSUME NEW j \in Slots
      PROVE  /\ Sound(ran[j]) /\ GoodSlot(ran[j].slot)
             /\ ran[j].slot = lock[j] \/ ran[j].slot = EmptySlot
    <2>1. ran[j] = IF j = k THEN ClearSlot(Begin(lock[j])) ELSE Begin(lock[j])
      OBVIOUS
    <2>. HIDE DEF ran
    <2>. QED
      BY <2>1, OtherSlots, EmptyIsGood
<1>. HIDE DEF ran
<1>3. \A j \in Slots : ran[j].slot.recording => lock[j].recording
  BY <1>2, EmptyIsGood
<1>4. /\ lock' \in [Slots -> Slot] /\ readable' /\ ~tapped'
      /\ \A j \in Slots : /\ lock'[j] = ran[j].slot /\ GoodSlot(lock'[j])
                          /\ lock'[j].recording => lock[j].recording
      /\ UNCHANGED <<trigger, hold, release, owed, press>> /\ armed' \in SUBSET Slots
  BY <1>1, <1>2, <1>3, OthersIs
<1>5. WorldOK' /\ calls' \in Nat
  BY <1>1 DEF LockIInv, LockTypeOK, WorldOK, world
<1>6. LockIInv'
  BY <1>4, <1>5, QuietStep
<1>. QED
  BY <1>1, <1>2, <1>4, <1>6

\* A clocked slot behind a thaw: where it was if the clock is not past the freeze, else as far
\* behind now as it was behind the freeze, and not ahead of now.
Resumed(was, is) ==
  IF now <= freezeTick THEN is = was
  ELSE now - is.anchor = IF was.anchor < freezeTick THEN freezeTick - was.anchor ELSE 0

LEMMA ThawIs ==
  ASSUME LockIInv, Thaw
  PROVE  /\ LockIInv' /\ calls' = calls /\ ~tapped' /\ frozen /\ ~frozen'
         /\ \A k \in Slots :
              /\ PlaysOn(lock[k], lock'[k])
              /\ lock[k].active /\ lock[k].span > 0 => Resumed(lock[k], lock'[k])
<1>. DEFINE gap == now - freezeTick
            ran == [k \in Slots |-> SlideSlot(Begin(lock[k]), gap, Clk)]
<1>1. /\ Others(ran, {}) /\ calls' = calls /\ frozen /\ frozen' = FALSE /\ freezeTick' = 0
      /\ UNCHANGED <<gated, page, now, running, clocked, returns>>
  BY DEF Thaw
<1>t. /\ now \in Nat /\ freezeTick \in Nat /\ now <= MaxTick /\ MaxTick \in Nat
      /\ ClockOK /\ calls \in Nat
  BY LockAssumption DEF LockIInv, LockTypeOK, ClockOK
<1>c. Clk \in Clocks /\ Clk.now = now
  BY <1>t, ClkIs
<1>2. ASSUME NEW k \in Slots
      PROVE  /\ Sound(ran[k]) /\ GoodSlot(ran[k].slot) /\ PlaysOn(lock[k], ran[k].slot)
             /\ lock[k].active /\ lock[k].span > 0 => Resumed(lock[k], ran[k].slot)
    <2>g. gap \in Int
      BY <1>t
    <2>1. ran[k] = SlideSlot(Begin(lock[k]), gap, Clk)
      OBVIOUS
    <2>2. /\ Sound(Begin(lock[k])) /\ Begin(lock[k]).slot = lock[k] /\ GoodSlot(lock[k])
          /\ lock[k].anchor \in Nat
      BY OtherSlots, BeginIs
    <2>3. (lock[k].anchor + gap <= now) <=> (lock[k].anchor <= freezeTick)
      BY <1>t, <2>2
    <2>4. /\ now <= freezeTick <=> gap <= 0
          /\ now - (lock[k].anchor + gap) = freezeTick - lock[k].anchor
      BY <1>t, <2>2
    <2>. HIDE DEF ran, gap
    <2>5. /\ Sound(ran[k]) /\ PlaysOn(lock[k], ran[k].slot) /\ ran[k].slot.pos = lock[k].pos
          /\ ran[k].slot.anchor = lock[k].anchor \/ ran[k].slot.anchor <= now
          /\ gap <= 0 => ran[k].slot = lock[k]
          /\ lock[k].active /\ lock[k].span > 0 /\ gap > 0
             => ran[k].slot.anchor = IF lock[k].anchor + gap <= now THEN lock[k].anchor + gap ELSE now
      <3>. DEFINE run == Begin(lock[k])
      <3>1. Sound(run) /\ run.slot = lock[k] /\ ran[k] = SlideSlot(run, gap, Clk)
        BY <2>1, <2>2
      <3>. HIDE DEF run
      <3>2. LET lk == run.slot  is == SlideSlot(run, gap, Clk).slot
            IN  /\ Sound(SlideSlot(run, gap, Clk)) /\ PlaysOn(lk, is) /\ is.pos = lk.pos
                /\ is.anchor = lk.anchor \/ is.anchor <= Clk.now
                /\ gap <= 0 => is = lk
                /\ lk.active /\ lk.span > 0 /\ gap > 0
                   => is.anchor = IF lk.anchor + gap <= Clk.now THEN lk.anchor + gap ELSE Clk.now
        BY <1>c, <2>g, <3>1, SlideIs
      <3>. QED
        BY <1>c, <3>1, <3>2
    <2>6. GoodSlot(ran[k].slot)
      <3>1. SafeSlot(ran[k].slot) /\ ran[k].slot.anchor \in Nat
        BY <2>5 DEF Sound, SafeSlot, Slot
      <3>2. ran[k].slot.anchor <= MaxTick
        BY <1>t, <2>2, <2>5, <3>1 DEF GoodSlot
      <3>3. HeadHeld(ran[k].slot) /\ (ran[k].slot.recording => Taken(ran[k].slot))
        BY <2>2, <2>5 DEF GoodSlot, HeadHeld, PlaysOn, Taken
      <3>. QED
        BY <3>1, <3>2, <3>3 DEF GoodSlot
    <2>7. ASSUME lock[k].active, lock[k].span > 0 PROVE Resumed(lock[k], ran[k].slot)
      <3>1. CASE now <= freezeTick
        BY <2>4, <2>5, <3>1 DEF Resumed
      <3>2. CASE ~(now <= freezeTick)
        <4>1. ran[k].slot.anchor = IF lock[k].anchor <= freezeTick THEN lock[k].anchor + gap ELSE now
          BY <2>3, <2>4, <2>5, <2>7, <2>g, <3>2
        <4>2. now - ran[k].slot.anchor
                = IF lock[k].anchor <= freezeTick THEN freezeTick - lock[k].anchor ELSE 0
          BY <1>t, <2>4, <4>1
        <4>. QED
          BY <1>t, <2>2, <3>2, <4>2 DEF Resumed
      <3>. QED
        BY <3>1, <3>2
    <2>. QED
      BY <2>5, <2>6, <2>7
<1>. HIDE DEF ran
<1>3. \A k \in Slots : ran[k].slot.recording => lock[k].recording
  BY <1>2 DEF PlaysOn
<1>4. /\ lock' \in [Slots -> Slot] /\ readable' /\ ~tapped'
      /\ \A k \in Slots : /\ lock'[k] = ran[k].slot /\ GoodSlot(lock'[k])
                          /\ lock'[k].recording => lock[k].recording
      /\ UNCHANGED <<trigger, hold, release, owed, press>> /\ armed' \in SUBSET Slots
  BY <1>1, <1>2, <1>3, OthersIs
<1>5. WorldOK' /\ calls' \in Nat
  <2>1. 0 \in 0 .. MaxTick
    BY <1>t
  <2>. QED
    BY <1>1, <2>1 DEF LockIInv, LockTypeOK, WorldOK
<1>6. LockIInv'
  BY <1>4, <1>5, QuietStep
<1>. QED
  BY <1>1, <1>2, <1>4, <1>6

\* The other steps leave the slots alone.
Idle ==
  \/ Freeze \/ ToggleSettings \/ SetModes
  \/ \E p \in Pages : GoToPage(p)
  \/ \E n \in Gaps : ClockTicks(n)
  \/ ClockReset \/ ClockStartsOrStops

LEMMA IdleIs ==
  ASSUME LockIInv, Idle
  PROVE  LockIInv' /\ lock' = lock /\ ~tapped' /\ (frozen => frozen')
<1>1. WorldOK' /\ calls' \in Nat /\ (frozen => frozen')
  <2>t. /\ gated \in BOOLEAN /\ frozen \in BOOLEAN /\ clocked \in BOOLEAN /\ returns \in BOOLEAN
        /\ running \in BOOLEAN /\ now \in 0 .. MaxTick /\ freezeTick \in 0 .. MaxTick
        /\ page \in Pages /\ calls \in Nat /\ MaxTick \in Nat
    BY LockAssumption DEF LockIInv, LockTypeOK
  <2>1. CASE Freeze
    BY <2>1, <2>t DEF Freeze, Only, Call, WorldOK
  <2>2. CASE ToggleSettings
    BY <2>2, <2>t DEF ToggleSettings, Only, Call, WorldOK
  <2>3. CASE SetModes
    <3>1. PICK m \in Modes : clocked' = m[1] /\ returns' = m[2]
      BY <2>3 DEF SetModes
    <3>2. clocked' \in BOOLEAN /\ returns' \in BOOLEAN
      BY <3>1, LockAssumption
    <3>. QED
      BY <2>3, <2>t, <3>2 DEF SetModes, Only, WorldOK
  <2>4. CASE \E p \in Pages : GoToPage(p)
    BY <2>4, <2>t DEF GoToPage, Only, Call, WorldOK
  <2>5. CASE \E n \in Gaps : ClockTicks(n)
    <3>1. PICK n \in Gaps : ClockTicks(n)
      BY <2>5
    <3>2. now' \in 0 .. MaxTick
      BY <2>t, <3>1, LockAssumption DEF ClockTicks
    <3>. QED
      BY <2>t, <3>1, <3>2 DEF ClockTicks, Only, WorldOK
  <2>6. CASE ClockReset
    BY <2>6, <2>t DEF ClockReset, Only, Call, WorldOK
  <2>7. CASE ClockStartsOrStops
    BY <2>7, <2>t DEF ClockStartsOrStops, Only, Call, WorldOK
  <2>. QED
    BY <2>1, <2>2, <2>3, <2>4, <2>5, <2>6, <2>7 DEF Idle
<1>2. /\ UNCHANGED <<trigger, hold, lock, release, owed, armed, press>>
      /\ readable' = TRUE /\ tapped' = FALSE
  BY DEF Idle, Freeze, ToggleSettings, SetModes, GoToPage, ClockTicks, ClockReset,
         ClockStartsOrStops, Only, ToldNothing
<1>3. /\ lock' \in [Slots -> Slot] /\ armed' \in SUBSET Slots
      /\ \A k \in Slots : GoodSlot(lock'[k]) /\ (lock'[k].recording => lock[k].recording)
  BY <1>2 DEF LockIInv, LockTypeOK, SlotsInv
<1>4. LockIInv'
  BY <1>1, <1>2, <1>3, QuietStep
<1>. QED
  BY <1>1, <1>2, <1>4

\* Every step keeps the invariant, a step of the clock, of Settings and of the pager with them.
LEMMA StepIsGood == LockIInv /\ [Next]_vars => LockIInv'
<1>. SUFFICES ASSUME LockIInv, [Next]_vars PROVE LockIInv'
  OBVIOUS
<1>1. CASE PollButtons
  BY <1>1, PollStep
<1>2. ASSUME NEW phys \in [Pots -> Positions], NEW step \in Steps, Frame(phys, step) PROVE LockIInv'
  BY <1>2, FrameStep
<1>3. ASSUME NEW preset \in Presets, Deserialize(preset) PROVE LockIInv'
  BY <1>3, DeserializeIs
<1>4. ASSUME NEW k \in Slots, ClearSlotAtPage(k) PROVE LockIInv'
  BY <1>4, ClearSlotAtPageIs
<1>5. CASE Thaw
  BY <1>5, ThawIs
<1>6. CASE Idle
  BY <1>6, IdleIs
<1>7. CASE UNCHANGED vars
  BY <1>7 DEF vars, trigger, hold, world, LockIInv, LockTypeOK, SlotsInv, PressInv
<1>. QED
  BY <1>1, <1>2, <1>3, <1>4, <1>5, <1>6, <1>7 DEF Next, Idle

\* Through polls, frames and what others do in any order, every slot keeps its loop and its
\* head inside it, a recording slot has begun its take inside a hold, and the trigger's flags
\* agree with the press they are about.
THEOREM LocksAreInductive == Spec => []LockIInv
<1>1. Init => LockIInv
  BY StartIsGood
<1>2. LockIInv /\ [Next]_vars => LockIInv'
  BY StepIsGood
<1>. QED
  BY <1>1, <1>2, PTL DEF Spec

\* LockInv: the audio interrupt that reads a slot behind any store of the main loop finds a
\* loop to divide by and a head to index with (SampleAt), and no release leaves a hold dangling
\* (PollButtons), for slots of any size, any lengths of frames and any saved forms.
THEOREM LocksAreSound == Spec => []LockInv
<1>1. LockIInv => LockInv
  BY DEF LockIInv, LockInv, SlotsInv, ReadsInsideLoop, GoodSlot, SafeSlot, PressInv, HoldEnds
<1>. QED
  BY <1>1, LocksAreInductive, PTL

\* What a step may do to the slots.
LEMMA StepOfSlots ==
  ASSUME LockIInv, LockIInv', Next, NEW k \in Slots
  PROVE  LET was == lock[k]  is == lock'[k]
         IN  /\ was.recording /\ calls' = calls => is.recording \/ is.active
             /\ ~was.recording /\ is.recording => k[1] = IF rising THEN page ELSE heldPage
             /\ was.active /\ ~is.active /\ calls' = calls => k[1] = IF rising THEN page ELSE heldPage
             /\ was.active /\ is.active /\ frozen' = frozen /\ is.anchor # 0 => OnGrid(was, is, now)
<1>. DEFINE was == lock[k]  is == lock'[k]
<1>t. /\ calls \in Nat /\ was.anchor \in Nat /\ was.span \in Nat /\ was.pos \in Nat
      /\ ~(was.active /\ was.recording)
  BY SlotAssumption DEF LockIInv, LockTypeOK, Slot
<1>s. OnGrid(was, was, now)
  <2>1. was.span > 0 => (was.anchor - was.anchor) % was.span = 0
    BY <1>t
  <2>. QED
    BY <1>t, <2>1 DEF OnGrid
<1>. HIDE DEF was, is
<1>1. ASSUME NEW phys \in [Pots -> Positions], NEW step \in Steps, Frame(phys, step)
      PROVE  SlotFrame(was, is, k)
  BY <1>1, FrameIs DEF LockIInv, PressInv, was, is
<1>2. ASSUME NEW preset \in Presets, Deserialize(preset)
      PROVE  calls' # calls /\ ~is.recording /\ is.anchor = 0
  BY <1>2, <1>t, DeserializeIs DEF is
<1>3. ASSUME NEW j \in Slots, ClearSlotAtPage(j)
      PROVE  calls' # calls /\ (is = was \/ is = EmptySlot)
  BY <1>3, <1>t, ClearSlotAtPageIs DEF was, is
<1>4. CASE Thaw
  <2>1. PlaysOn(was, is) /\ frozen /\ ~frozen'
    BY <1>4, ThawIs DEF was, is
  <2>. QED
    BY <2>1 DEF PlaysOn, was, is
<1>5. CASE Idle
  <2>1. is = was
    BY <1>5, IdleIs DEF was, is
  <2>. QED
    BY <1>s, <1>t, <2>1 DEF was, is
<1>6. CASE PollButtons
  <2>1. is = was
    BY <1>6 DEF PollButtons, was, is
  <2>. QED
    BY <1>s, <1>t, <2>1 DEF was, is
<1>7. CASE \E phys \in [Pots -> Positions], step \in Steps : Frame(phys, step)
  BY <1>1, <1>7 DEF SlotFrame, was, is
<1>8. CASE \E preset \in Presets : Deserialize(preset)
  BY <1>2, <1>8 DEF was, is
<1>9. CASE \E j \in Slots : ClearSlotAtPage(j)
  <2>1. calls' # calls /\ (is = was \/ is = EmptySlot)
    BY <1>3, <1>9
  <2>2. ~EmptySlot.recording /\ ~EmptySlot.active
    BY EmptyIsGood
  <2>. QED
    BY <1>s, <1>t, <2>1, <2>2 DEF was, is
<1>. QED
  BY <1>4, <1>5, <1>6, <1>7, <1>8, <1>9 DEF Next, Idle

\* TakeIsKept: a slot records only in a hold, and what it has recorded goes on or plays on,
\* unless another cleared or loaded the slot (Finalise, EmitSample).
THEOREM TakesAreKept == Spec => TakeIsKept
<1>. DEFINE Kept == \A k \in Slots :
              /\ lock'[k].recording => held'
              /\ lock[k].recording /\ calls' = calls => lock'[k].recording \/ lock'[k].active
<1>1. LockIInv /\ LockIInv' /\ [Next]_vars => [Kept]_vars
  <2>1. SUFFICES ASSUME LockIInv, LockIInv', Next PROVE Kept
    OBVIOUS
  <2>2. \A k \in Slots : lock'[k].recording => held'
    BY <2>1 DEF LockIInv, SlotsInv
  <2>3. \A k \in Slots :
          lock[k].recording /\ calls' = calls => lock'[k].recording \/ lock'[k].active
    BY <2>1, StepOfSlots
  <2>. QED
    BY <2>2, <2>3
<1>2. TakeIsKept <=> [][Kept]_vars
  BY DEF TakeIsKept
<1>. QED
  BY <1>1, <1>2, LocksAreInductive, PTL DEF Spec

\* PressesMeanOneThing: a frame tells of a tap only if a press outside Settings that touched no
\* slot ended outside Settings, and a hold records and clears on the page of its press.
THEOREM PressesAreClear == Spec => PressesMeanOneThing
<1>. DEFINE Clean == tapped' => owed \/ (rising /\ falling /\ down)
            Stays == \A k \in Slots :
                       LET begun   == ~lock[k].recording /\ lock'[k].recording
                           cleared == lock[k].active /\ ~lock'[k].active /\ calls' = calls
                       IN  begun \/ cleared => k[1] = IF rising THEN page ELSE heldPage
<1>1. LockIInv /\ LockIInv' /\ [Next]_vars => [Clean]_vars /\ [Stays]_vars
  <2>1. SUFFICES ASSUME LockIInv, LockIInv', Next PROVE Clean /\ Stays
    OBVIOUS
  <2>2. Stays
    BY <2>1, StepOfSlots
  <2>3. Clean
    <3>1. ASSUME NEW phys \in [Pots -> Positions], NEW step \in Steps, Frame(phys, step), tapped'
          PROVE  owed \/ (rising /\ falling /\ down)
      <4>1. LockTypeOK /\ SlotsInv /\ PressInv
        BY <2>1 DEF LockIInv
      <4>2. falling /\ (rising \/ held) /\ ~poisoned /\ ~consumed
        BY <3>1, <4>1, FrameIs DEF PressInv
      <4>. QED
        BY <4>1, <4>2 DEF PressInv
    <3>2. ASSUME NEW preset \in Presets, Deserialize(preset) PROVE ~tapped'
      BY <2>1, <3>2, DeserializeIs
    <3>3. ASSUME NEW k \in Slots, ClearSlotAtPage(k) PROVE ~tapped'
      BY <2>1, <3>3, ClearSlotAtPageIs
    <3>4. Thaw \/ Idle \/ PollButtons => ~tapped'
      BY <2>1, ThawIs, IdleIs DEF PollButtons, ToldNothing
    <3>. QED
      BY <2>1, <3>1, <3>2, <3>3, <3>4 DEF Next, Idle
  <2>. QED
    BY <2>2, <2>3
<1>2. PressesMeanOneThing <=> [][Clean]_vars /\ [][Stays]_vars
  BY DEF PressesMeanOneThing, TapIsClean, HoldStaysOnPage
<1>. QED
  BY <1>1, <1>2, LocksAreInductive, PTL DEF Spec

\* LoopsKeepStep: a clocked loop restarts on its own grid, is heard from its start only there,
\* and continues behind a freeze where it was held (Advance, SetFrozen), for any clock.
THEOREM LoopsStayInStep == Spec => LoopsKeepStep
<1>. DEFINE Resumes == (frozen /\ ~frozen') =>
              \A k \in Slots :
                lock[k].active /\ lock[k].span > 0 =>
                IF now <= freezeTick THEN lock'[k] = lock[k]
                ELSE now - lock'[k].anchor =
                       IF lock[k].anchor < freezeTick THEN freezeTick - lock[k].anchor ELSE 0
            Grid == \A k \in Slots :
              LET was == lock[k] is == lock'[k]
              IN  was.active /\ is.active /\ was.span > 0 /\ is.span = was.span
                  /\ was.anchor <= now /\ frozen' = frozen /\ is.anchor # 0
                  => /\ (is.anchor - was.anchor) % was.span = 0
                     /\ is.anchor # was.anchor => is.pos = 0 /\ now - is.anchor \in 0 .. was.span - 1
                     /\ is.pos < was.pos => is.anchor # was.anchor
<1>1. LockIInv /\ LockIInv' /\ [Next]_vars => [Resumes]_vars /\ [Grid]_vars
  <2>1. SUFFICES ASSUME LockIInv, LockIInv', Next PROVE Resumes /\ Grid
    OBVIOUS
  <2>2. Grid
    BY <2>1, StepOfSlots DEF OnGrid
  <2>3. Resumes
    <3>1. SUFFICES ASSUME frozen, ~frozen', NEW k \in Slots, lock[k].active, lock[k].span > 0
                   PROVE  Resumed(lock[k], lock'[k])
      BY DEF Resumed
    <3>2. Thaw
      <4>1. ~Idle
        BY <2>1, <3>1, IdleIs
      <4>2. PollButtons => frozen' = frozen
        BY DEF PollButtons, world
      <4>3. \A phys \in [Pots -> Positions], step \in Steps : Frame(phys, step) => frozen' = frozen
        BY DEF Frame, world
      <4>4. \A preset \in Presets : Deserialize(preset) => frozen' = frozen
        BY DEF Deserialize, world
      <4>5. \A j \in Slots : ClearSlotAtPage(j) => frozen' = frozen
        BY DEF ClearSlotAtPage, world
      <4>. QED
        BY <2>1, <3>1, <4>1, <4>2, <4>3, <4>4, <4>5 DEF Next, Idle
    <3>. QED
      BY <2>1, <3>1, <3>2, ThawIs
  <2>. QED
    BY <2>2, <2>3
<1>2. LoopsKeepStep <=> [][Resumes]_vars /\ [][Grid]_vars
  BY DEF LoopsKeepStep, ThawResumes, RestartsOnGrid
<1>. QED
  BY <1>1, <1>2, LocksAreInductive, PTL DEF Spec
=============================================================================
