------------------------------ MODULE Board_proofs ------------------------------
(***************************************************************************)
(* Theorems about five of the units that MCBoard checks: the LED strip, the   *)
(* CV outputs, diagnostics, the factory calibration and the USB link.      *)
(* They share no state, and each theorem is about the specification of its *)
(* own unit.                                                               *)
(***************************************************************************)
EXTENDS Ws2812, CvOutputs, Diagnostics, FactoryCal, CdcLink, WellFoundedInduction, SequenceTheorems,
        FiniteSetTheorems, TLAPS

-----------------------------------------------------------------------------
(***************************************************************************)
(* The LED strip.  Outside Show(), and while it waits, a stream that runs   *)
(* is announced by the flag; from the end of the wait until the start of    *)
(* the next stream there is none.  Only v2's Abort makes the second true    *)
(* where the first was not enough.                                         *)
(***************************************************************************)
StripInv ==
    /\ board \in {"v1", "v2"} /\ pixels \in {0, 1} /\ busy \in BOOLEAN
    /\ show \in {"idle", "wait", "bail", "abort", "encode", "encoding", "start", "pace"}
    /\ show \in {"idle", "wait"} /\ stream # "idle" => busy
    /\ show \in {"encode", "encoding", "start"} => stream = "idle"
    /\ show = "pace" /\ board = "v1" /\ stream # "idle" => busy
    /\ show = "start" \/ stream \in {"armed", "half"} => cells # Torn
    /\ stream = "half" => cells = begun
    /\ whole = TRUE

LEMMA StripInvInit == StripInit => StripInv
BY StripAssumption DEF StripInit, StripInv

LEMMA StripInvStep ==
    ASSUME StripInv, [StripNext]_stripVars
    PROVE  StripInv'
<1>. USE DEF StripInv
<1>1. CASE Paint
  BY <1>1 DEF Paint
<1>2. CASE Call
  BY <1>2 DEF Call
<1>3. CASE Wait
  BY <1>3 DEF Wait
<1>4. CASE Bail
  BY <1>4 DEF Bail
<1>5. CASE Abort
  BY <1>5 DEF Abort
<1>6. CASE EncodePixels
  BY <1>6, StripAssumption DEF EncodePixels
<1>7. CASE Start
  BY <1>7 DEF Start
<1>8. CASE Pace
  BY <1>8 DEF Pace
<1>9. CASE Read
  BY <1>9 DEF Read
<1>10. CASE Fail
  BY <1>10 DEF Fail
<1>11. CASE Interrupt
  BY <1>11 DEF Interrupt
<1>12. CASE UNCHANGED stripVars
  BY <1>12 DEF stripVars
<1>. QED
  BY <1>1, <1>2, <1>3, <1>4, <1>5, <1>6, <1>7, <1>8, <1>9, <1>10, <1>11, <1>12
     DEF StripNext, ShowStep

\* On both boards, however long v2 waits, a stream that reaches its end sends
\* one frame throughout, and one that fails or is aborted no more than the
\* beginning of one, although v1 never looks whether the stream started and
\* v2 sets the flag after it (Show, DmaTcCb, DmaErrCb).
THEOREM StripGetsWholeFrames == StripSpec => []FramesAreWhole
<1>1. StripInv => FramesAreWhole
  BY DEF StripInv, FramesAreWhole
<1>. QED
  BY <1>1, StripInvInit, StripInvStep, PTL DEF StripSpec


-----------------------------------------------------------------------------
(***************************************************************************)
(* The CV outputs.  Where no answer is lost, the expander's shadow is what  *)
(* the chip has (BusOK), and every operation leaves it so, whether it       *)
(* succeeds or breaks off.                                                 *)
(***************************************************************************)
CodeMap == [Channels -> Codes]

BusType(b) ==
    b \in [chip : SUBSET (Lines \cup {Latch}), shadow : SUBSET (Lines \cup {Latch}),
          expander : BOOLEAN, dac : BOOLEAN, unheard : {FALSE}, in : CodeMap, out : CodeMap]

BusOK(b) ==
    /\ BusType(b)
    /\ b.chip = b.shadow
    /\ Latch \in b.chip => b.out = b.in

LEMMA CvConstants ==
    /\ Latch \notin Lines /\ Neutral \in Codes /\ Codes \subseteq Nat
    /\ Channels \subseteq Nat
    /\ NoCode \notin Codes
BY BusAssumption DEF NoCode

LEMMA OutcomeFields ==
    ASSUME NEW x
    PROVE  /\ Done(x).ok = TRUE /\ Done(x).bus = x
           /\ Failed(x).ok = FALSE /\ Failed(x).bus = x
BY DEF Done, Failed

\* The latch opens with the line.
LEMMA WrittenLines ==
    ASSUME NEW b, BusOK(b), NEW lines \in SUBSET (Lines \cup {Latch}), NEW r \in WriteReg(b, lines)
    PROVE  /\ BusOK(r.bus) /\ r.ok \in BOOLEAN
           /\ ~r.ok => r.bus = b
           /\ r.ok => r.bus.chip = lines
           /\ r.bus.in = b.in /\ r.bus.dac = b.dac
           /\ r.bus.out = IF r.ok /\ Latch \in lines THEN b.in ELSE b.out
<1>. DEFINE w == [b EXCEPT !.chip = lines, !.shadow = lines]
             o == [w EXCEPT !.out = w.in]
<1>1. WriteReg(b, lines) = {Done(Transparent(w)), Failed(b)}
  <2>1. b.unheard = FALSE
    BY DEF BusOK, BusType
  <2>. QED
    BY <2>1, Zenon DEF WriteReg
<1>2. /\ w.chip = lines /\ w.shadow = lines /\ w.in = b.in /\ w.out = b.out /\ w.dac = b.dac
      /\ BusType(w)
  BY DEF BusOK, BusType
<1>3. /\ o.chip = lines /\ o.shadow = lines /\ o.in = b.in /\ o.out = b.in /\ o.dac = b.dac
      /\ BusType(o)
  BY DEF BusOK, BusType
<1>4. Latch \in lines => Transparent(w) = o /\ BusOK(o)
  BY <1>2, <1>3 DEF BusOK, Transparent
<1>5. Latch \notin lines => Transparent(w) = w /\ BusOK(w)
  BY <1>2 DEF BusOK, Transparent
<1>6. CASE r = Failed(b)
  BY <1>6, OutcomeFields
<1>7. CASE r = Done(o) /\ Latch \in lines
  <2>1. r.ok = TRUE /\ r.bus = o
    BY <1>7, OutcomeFields
  <2>. QED
    BY <2>1, <1>3, <1>4, <1>7
<1>8. CASE r = Done(w) /\ Latch \notin lines
  <2>1. r.ok = TRUE /\ r.bus = w
    BY <1>8, OutcomeFields
  <2>. QED
    BY <2>1, <1>2, <1>5, <1>8
<1>. QED
  BY <1>1, <1>4, <1>5, <1>6, <1>7, <1>8

\* One line is set or cleared, and no other.
LEMMA BitSet ==
    ASSUME NEW b, BusOK(b), NEW bit \in Lines \cup {Latch}, NEW asserted \in BOOLEAN,
           NEW r \in SetOutputBit(b, bit, asserted)
    PROVE  /\ BusOK(r.bus) /\ r.ok \in BOOLEAN
           /\ ~r.ok => r.bus = b
           /\ r.ok /\ asserted => r.bus.chip = b.chip \cup {bit}
           /\ r.ok /\ ~asserted => r.bus.chip = b.chip \ {bit}
           /\ r.bus.in = b.in /\ r.bus.dac = b.dac
           /\ r.ok /\ Latch \in r.bus.chip => r.bus.out = b.in
           /\ Latch \notin r.bus.chip => r.bus.out = b.out
<1>. DEFINE lines == IF asserted THEN b.shadow \cup {bit} ELSE b.shadow \ {bit}
<1>1. lines \in SUBSET (Lines \cup {Latch}) /\ b.chip = b.shadow
  BY DEF BusOK, BusType
<1>2. \/ r = Failed(b)
      \/ r = Done(b) /\ lines = b.chip
      \/ r \in WriteReg(b, lines)
  BY <1>1 DEF SetOutputBit
<1>3. CASE r = Failed(b)
  BY <1>3 DEF Failed
<1>4. CASE r = Done(b) /\ lines = b.chip
  BY <1>1, <1>4 DEF Done, BusOK
<1>5. CASE r \in WriteReg(b, lines)
  BY <1>1, <1>5, WrittenLines
<1>. QED
  BY <1>2, <1>3, <1>4, <1>5

\* A pulse that succeeds brings the input registers to the outputs.
LEMMA Pulsed ==
    ASSUME NEW b, BusOK(b), NEW r \in PulseLdac(b)
    PROVE  /\ BusOK(r.bus) /\ r.ok \in BOOLEAN
           /\ r.bus.chip \cap Lines = b.chip \cap Lines
           /\ r.bus.in = b.in
           /\ r.bus.out = b.out \/ r.bus.out = b.in
           /\ r.ok => r.bus.out = b.in
<1>1. \/ r = Failed(b)
      \/ \E q \in SetOutputBit(b, Latch, TRUE) :
            IF q.ok THEN r \in SetOutputBit(q.bus, Latch, FALSE) ELSE r = q
  BY Zenon DEF PulseLdac, Then
<1>2. CASE r = Failed(b)
  BY <1>2, OutcomeFields
<1>3. CASE \E q \in SetOutputBit(b, Latch, TRUE) :
            IF q.ok THEN r \in SetOutputBit(q.bus, Latch, FALSE) ELSE r = q
  <2>1. PICK q \in SetOutputBit(b, Latch, TRUE) :
            IF q.ok THEN r \in SetOutputBit(q.bus, Latch, FALSE) ELSE r = q
    BY <1>3
  <2>2. /\ BusOK(q.bus) /\ q.ok \in BOOLEAN
        /\ ~q.ok => q.bus = b
        /\ q.ok => q.bus.chip = b.chip \cup {Latch} /\ q.bus.out = b.in
        /\ q.bus.in = b.in
    <3>1. BusOK(b) /\ Latch \in Lines \cup {Latch} /\ TRUE \in BOOLEAN /\ q \in SetOutputBit(b, Latch, TRUE)
      BY <2>1
    <3>2. /\ BusOK(q.bus) /\ q.ok \in BOOLEAN
          /\ ~q.ok => q.bus = b
          /\ q.ok => q.bus.chip = b.chip \cup {Latch}
          /\ q.bus.in = b.in
          /\ q.ok /\ Latch \in q.bus.chip => q.bus.out = b.in
      BY <3>1, BitSet, ZenonT(60)
    <3>. QED
      BY <3>2
  <2>3. CASE q.ok
    <3>1. r \in SetOutputBit(q.bus, Latch, FALSE)
      BY <2>1, <2>3
    <3>2. Latch \in Lines \cup {Latch} /\ FALSE \in BOOLEAN
      OBVIOUS
    <3>3. /\ BusOK(r.bus) /\ r.ok \in BOOLEAN
          /\ ~r.ok => r.bus = q.bus
          /\ r.ok => r.bus.chip = q.bus.chip \ {Latch}
          /\ r.bus.in = q.bus.in
          /\ Latch \notin r.bus.chip => r.bus.out = q.bus.out
      BY <2>2, <3>1, <3>2, BitSet, ZenonT(60)
    <3>. QED
      BY <2>2, <2>3, <3>3, CvConstants
  <2>4. CASE ~q.ok
    BY <2>1, <2>2, <2>4
  <2>. QED
    BY <2>2, <2>3, <2>4
<1>. QED
  BY <1>1, <1>2, <1>3

\* Of the codes, some prefix reaches the registers.
LEMMA WrittenPrefix ==
    ASSUME NEW b, BusOK(b), NEW codes \in CodeMap, NEW n \in Nat
    PROVE  /\ BusOK(Written(b, codes, n))
           /\ Written(b, codes, n).chip = b.chip
           /\ \A c \in Channels :
                /\ Written(b, codes, n).in[c] = IF c <= n THEN codes[c] ELSE b.in[c]
                /\ Written(b, codes, n).out[c] \in {b.out[c], Written(b, codes, n).in[c]}
<1>. DEFINE in == [c \in Channels |-> IF c <= n THEN codes[c] ELSE b.in[c]]
            w  == [b EXCEPT !.in = in]
            o  == [w EXCEPT !.out = w.in]
<1>1. in \in CodeMap /\ b.out \in CodeMap
  BY DEF CodeMap, BusOK, BusType
<1>2. Written(b, codes, n) = Transparent(w)
  BY Zenon DEF Written
<1>. HIDE DEF in
<1>3. /\ w.chip = b.chip /\ w.shadow = b.shadow /\ w.in = in /\ w.out = b.out /\ BusType(w)
  BY <1>1 DEF BusOK, BusType
<1>4. /\ o.chip = b.chip /\ o.shadow = b.shadow /\ o.in = in /\ o.out = in /\ BusType(o)
  BY <1>1 DEF BusOK, BusType
<1>5. \A c \in Channels : in[c] = IF c <= n THEN codes[c] ELSE b.in[c]
  BY DEF in
<1>. HIDE DEF w, o
<1>6. CASE Latch \in b.chip
  <2>1. Written(b, codes, n) = o
    BY <1>2, <1>3, <1>6, Zenon DEF Transparent, o
  <2>2. BusOK(o)
    BY <1>4 DEF BusOK
  <2>. QED
    BY <1>4, <1>5, <2>1, <2>2
<1>7. CASE Latch \notin b.chip
  <2>1. Written(b, codes, n) = w
    BY <1>2, <1>3, <1>7, Zenon DEF Transparent
  <2>2. BusOK(w)
    BY <1>3, <1>7 DEF BusOK
  <2>. QED
    BY <1>3, <1>5, <2>1, <2>2
<1>. QED
  BY <1>6, <1>7

LEMMA WrittenAll ==
    ASSUME NEW b, BusOK(b), NEW codes \in CodeMap, NEW r \in WriteAll(b, codes)
    PROVE  /\ BusOK(r.bus) /\ r.ok \in BOOLEAN /\ r.bus.chip = b.chip
           /\ \A c \in Channels :
                /\ r.bus.in[c] \in {b.in[c], codes[c]}
                /\ r.bus.out[c] \in {b.out[c], b.in[c], codes[c]}
           /\ r.ok => \A c \in Channels : r.bus.in[c] = codes[c]
<1>1. \/ r = Failed(b)
      \/ r = Done(Written(b, codes, Cardinality(Channels)))
      \/ \E n \in {0} \cup Channels : r = Failed(Written(b, codes, n))
  BY Zenon DEF WriteAll
<1>2. CASE r = Failed(b)
  BY <1>2, OutcomeFields
<1>3. CASE r = Done(Written(b, codes, Cardinality(Channels)))
  <2>1. r.ok = TRUE /\ r.bus = Written(b, codes, Cardinality(Channels))
    BY <1>3, OutcomeFields
  <2>2. Cardinality(Channels) \in Nat /\ \A c \in Channels : c <= Cardinality(Channels)
    BY BusAssumption
  <2>3. /\ BusOK(r.bus) /\ r.bus.chip = b.chip
        /\ \A c \in Channels :
              /\ r.bus.in[c] = IF c <= Cardinality(Channels) THEN codes[c] ELSE b.in[c]
              /\ r.bus.out[c] \in {b.out[c], r.bus.in[c]}
    BY <2>1, <2>2, WrittenPrefix
  <2>4. \A c \in Channels : r.bus.in[c] = codes[c] /\ r.bus.out[c] \in {b.out[c], codes[c]}
    BY <2>2, <2>3
  <2>. QED
    BY <2>1, <2>3, <2>4
<1>4. CASE \E n \in {0} \cup Channels : r = Failed(Written(b, codes, n))
  <2>1. PICK n \in {0} \cup Channels : r = Failed(Written(b, codes, n))
    BY <1>4
  <2>2. r.ok = FALSE /\ r.bus = Written(b, codes, n)
    BY <2>1, OutcomeFields
  <2>3. n \in Nat
    BY CvConstants
  <2>4. /\ BusOK(r.bus) /\ r.bus.chip = b.chip
        /\ \A c \in Channels :
              /\ r.bus.in[c] = IF c <= n THEN codes[c] ELSE b.in[c]
              /\ r.bus.out[c] \in {b.out[c], r.bus.in[c]}
    BY <2>2, <2>3, WrittenPrefix
  <2>. QED
    BY <2>2, <2>4
<1>. QED
  BY <1>1, <1>2, <1>3, <1>4

\* An attempt leaves each register and output old or new, and all new if it succeeds.
LEMMA Applied ==
    ASSUME BusOK(bus), NEW codes \in CodeMap, NEW r \in Apply(codes)
    PROVE  /\ BusOK(r.bus) /\ r.ok \in BOOLEAN
           /\ r.bus.chip \cap Lines = bus.chip \cap Lines
           /\ \A c \in Channels :
                /\ r.bus.in[c] \in {bus.in[c], codes[c]}
                /\ r.bus.out[c] \in {bus.out[c], bus.in[c], codes[c]}
           /\ r.ok => \A c \in Channels : r.bus.in[c] = codes[c] /\ r.bus.out[c] = codes[c]
<1>1. PICK q \in WriteAll(bus, codes) : IF q.ok THEN r \in PulseLdac(q.bus) ELSE r = q
  BY Zenon DEF Apply, Then
<1>2. /\ BusOK(q.bus) /\ q.ok \in BOOLEAN /\ q.bus.chip = bus.chip
      /\ \A c \in Channels :
            /\ q.bus.in[c] \in {bus.in[c], codes[c]}
            /\ q.bus.out[c] \in {bus.out[c], bus.in[c], codes[c]}
      /\ q.ok => \A c \in Channels : q.bus.in[c] = codes[c]
  <2>1. PICK b : b = bus
    OBVIOUS
  <2>. QED
    BY <1>1, <2>1, WrittenAll
<1>3. CASE q.ok
  <2>1. /\ BusOK(r.bus) /\ r.ok \in BOOLEAN
        /\ r.bus.chip \cap Lines = q.bus.chip \cap Lines
        /\ r.bus.in = q.bus.in
        /\ r.bus.out = q.bus.out \/ r.bus.out = q.bus.in
        /\ r.ok => r.bus.out = q.bus.in
    BY <1>1, <1>2, <1>3, Pulsed
  <2>. QED
    BY <1>2, <1>3, <2>1
<1>4. CASE ~q.ok
  BY <1>1, <1>2, <1>4
<1>. QED
  BY <1>2, <1>3, <1>4

\* What is promised is staged, and unless the flag is set it is in the register and at the
\* output.
CvInv ==
    /\ BusOK(bus) /\ shadow \in CodeMap /\ dirty \in BOOLEAN
    /\ bus.chip \cap Lines = connected
    /\ due \in [Channels -> Codes \cup {NoCode}]
    /\ \A j \in Channels : due[j] # NoCode => shadow[j] = due[j]
    /\ ~dirty => \A j \in Channels :
                    due[j] # NoCode => bus.in[j] = due[j] /\ bus.out[j] = due[j]


LEMMA CvInvInit == CvInit => CvInv
<1>. SUFFICES ASSUME CvInit PROVE CvInv
  OBVIOUS
<1>. DEFINE rest == [c \in Channels |-> Neutral]
<1>1. PICK e \in BOOLEAN, d \in BOOLEAN, u \in BOOLEAN, o \in CodeMap :
        bus = [chip |-> {}, shadow |-> {}, expander |-> e, dac |-> d, unheard |-> u,
               in |-> rest, out |-> o]
  <2>1. bus \in Buses
    BY DEF CvInit
  <2>. QED
    BY <2>1 DEF Buses, CodeMap
<1>2. bus.unheard = FALSE
  BY DEF CvInit, Buses
<1>3. u = FALSE
  BY <1>1, <1>2
<1>4. rest \in CodeMap /\ \A j \in Channels : rest[j] = Neutral
  BY CvConstants DEF CodeMap
<1>5. /\ shadow = rest /\ dirty = FALSE /\ connected = {}
      /\ due = [c \in Channels |-> IF bus.out[c] = Neutral THEN Neutral ELSE NoCode]
  BY DEF CvInit
<1>. HIDE DEF rest
<1>6. BusType(bus)
  BY <1>1, <1>3, <1>4 DEF BusType
<1>7. bus.chip = {} /\ bus.shadow = {} /\ bus.in = rest
  BY <1>1
<1>8. BusOK(bus)
  BY <1>6, <1>7 DEF BusOK
<1>9. due \in [Channels -> Codes \cup {NoCode}]
  BY <1>5, CvConstants
<1>10. \A j \in Channels : due[j] # NoCode => due[j] = Neutral /\ bus.out[j] = Neutral
  BY <1>5
<1>. QED
  BY <1>4, <1>5, <1>7, <1>8, <1>9, <1>10 DEF CvInv

LEMMA SetVoltsStep ==
    ASSUME CvInv, NEW j \in Channels, NEW code \in Codes, SetVolts(j, code)
    PROVE  CvInv'
<1>1. CASE bus.dac
  <2>1. PICK codes : codes = [shadow EXCEPT ![j] = code]
    OBVIOUS
  <2>2. /\ shadow' = codes /\ connected' = connected
        /\ \E r \in Apply(codes) :
             /\ bus' = r.bus
             /\ dirty' = StillDirty(r)
             /\ due' = [due EXCEPT ![j] = IF r.ok THEN code ELSE NoCode]
    BY <1>1, <2>1 DEF SetVolts
  <2>3. PICK r \in Apply(codes) :
             /\ bus' = r.bus
             /\ dirty' = StillDirty(r)
             /\ due' = [due EXCEPT ![j] = IF r.ok THEN code ELSE NoCode]
    BY <2>2
  <2>4. codes \in CodeMap /\ codes[j] = code /\ \A k \in Channels \ {j} : codes[k] = shadow[k]
    BY <2>1 DEF CvInv, CodeMap
  <2>5. /\ BusOK(bus') /\ r.ok \in BOOLEAN
        /\ bus'.chip \cap Lines = bus.chip \cap Lines
        /\ \A c \in Channels :
             /\ bus'.in[c] \in {bus.in[c], codes[c]}
             /\ bus'.out[c] \in {bus.out[c], bus.in[c], codes[c]}
        /\ r.ok => \A c \in Channels : bus'.in[c] = codes[c] /\ bus'.out[c] = codes[c]
    BY <2>3, <2>4, Applied DEF CvInv
  <2>6. dirty' \in BOOLEAN /\ (~dirty' => ~dirty \/ r.ok)
    BY <2>3, <2>5 DEF StillDirty, CvInv
  <2>7. CASE r.ok
    <3>1. due' \in [Channels -> Codes \cup {NoCode}] /\ due'[j] = code
          /\ \A k \in Channels \ {j} : due'[k] = due[k]
      BY <2>3, <2>7 DEF CvInv
    <3>2. \A k \in Channels : due'[k] # NoCode => codes[k] = due'[k]
      BY <2>4, <3>1 DEF CvInv
    <3>. QED
      BY <2>2, <2>4, <2>5, <2>6, <2>7, <3>1, <3>2 DEF CvInv
  <2>8. CASE ~r.ok
    <3>1. due' \in [Channels -> Codes \cup {NoCode}] /\ due'[j] = NoCode
          /\ \A k \in Channels \ {j} : due'[k] = due[k]
      BY <2>3, <2>8 DEF CvInv
    <3>2. \A k \in Channels : due'[k] # NoCode => codes[k] = due'[k]
      BY <2>4, <3>1 DEF CvInv
    <3>3. ~dirty => \A k \in Channels :
            due'[k] # NoCode => bus'.in[k] = due'[k] /\ bus'.out[k] = due'[k]
      BY <2>5, <3>1, <3>2 DEF CvInv
    <3>. QED
      BY <2>2, <2>4, <2>5, <2>6, <2>8, <3>1, <3>2, <3>3 DEF CvInv
  <2>. QED
    BY <2>5, <2>7, <2>8
<1>2. CASE ~bus.dac
  <2>1. /\ UNCHANGED <<bus, shadow, dirty, connected>>
        /\ due' = [due EXCEPT ![j] = NoCode]
    BY <1>2 DEF SetVolts
  <2>2. due' \in [Channels -> Codes \cup {NoCode}] /\ due'[j] = NoCode
        /\ \A k \in Channels \ {j} : due'[k] = due[k]
    BY <2>1 DEF CvInv
  <2>. QED
    BY <2>1, <2>2 DEF CvInv
<1>. QED
  BY <1>1, <1>2

LEMMA StageVoltsStep ==
    ASSUME CvInv, NEW j \in Channels, NEW code \in Codes, StageVolts(j, code)
    PROVE  CvInv'
<1>1. /\ shadow' \in CodeMap /\ shadow'[j] = code /\ dirty' = TRUE
      /\ due' \in [Channels -> Codes \cup {NoCode}] /\ due'[j] = code
      /\ \A k \in Channels \ {j} : due'[k] = due[k] /\ shadow'[k] = shadow[k]
      /\ UNCHANGED <<bus, connected>>
  BY DEF StageVolts, CvInv, CodeMap
<1>. QED
  BY <1>1 DEF CvInv

LEMMA FlushStep ==
    ASSUME CvInv, FlushCvOutputs
    PROVE  CvInv'
<1>1. PICK codes : codes = shadow
  OBVIOUS
<1>2. PICK r \in Apply(codes) : bus' = r.bus /\ dirty' = StillDirty(r)
  BY <1>1 DEF FlushCvOutputs
<1>3. dirty /\ UNCHANGED <<shadow, connected, due>>
  BY DEF FlushCvOutputs
<1>4. /\ BusOK(bus') /\ r.ok \in BOOLEAN
      /\ bus'.chip \cap Lines = bus.chip \cap Lines
      /\ r.ok => \A c \in Channels : bus'.in[c] = codes[c] /\ bus'.out[c] = codes[c]
  BY <1>1, <1>2, Applied DEF CvInv
<1>5. dirty' \in BOOLEAN /\ (~dirty' => r.ok)
  BY <1>2, <1>3, <1>4 DEF StillDirty, CvInv
<1>. QED
  BY <1>1, <1>3, <1>4, <1>5 DEF CvInv

LEMMA RouteStep ==
    ASSUME CvInv, NEW j \in Lines, NEW on \in BOOLEAN, Route(j, on), UNCHANGED <<shadow, dirty, due>>
    PROVE  CvInv'
<1>1. PICK b : b = bus
  OBVIOUS
<1>2. PICK r \in SetOutputBit(b, j, on) :
        /\ bus' = r.bus
        /\ connected' = IF ~r.ok THEN connected
                        ELSE IF on THEN connected \cup {j} ELSE connected \ {j}
  BY <1>1 DEF Route
<1>3. /\ BusOK(bus') /\ r.ok \in BOOLEAN
      /\ ~r.ok => bus' = bus
      /\ r.ok /\ on => bus'.chip = bus.chip \cup {j}
      /\ r.ok /\ ~on => bus'.chip = bus.chip \ {j}
      /\ bus'.in = bus.in
      /\ bus'.out = bus.in \/ bus'.out = bus.out
  <2>1. BusOK(b)
    BY <1>1 DEF CvInv
  <2>2. /\ BusOK(r.bus) /\ r.ok \in BOOLEAN
        /\ ~r.ok => r.bus = b
        /\ r.ok /\ on => r.bus.chip = b.chip \cup {j}
        /\ r.ok /\ ~on => r.bus.chip = b.chip \ {j}
        /\ r.bus.in = b.in
        /\ r.ok /\ Latch \in r.bus.chip => r.bus.out = b.in
        /\ Latch \notin r.bus.chip => r.bus.out = b.out
    BY <1>2, <2>1, BitSet
  <2>. QED
    BY <1>1, <1>2, <2>2
<1>4. bus'.chip \cap Lines = connected'
  BY <1>2, <1>3 DEF CvInv
<1>5. ~dirty => \A k \in Channels :
          due[k] # NoCode => bus'.in[k] = due[k] /\ bus'.out[k] = due[k]
  BY <1>3 DEF CvInv
<1>. QED
  BY <1>3, <1>4, <1>5 DEF CvInv

\* Where no answer of the expander is lost: whatever transfers break off, and wherever, no
\* jack is promised a value that its output does not have once nothing is staged, and a
\* jack is taken for connected exactly when its switch is closed (SetVolts, StageVolts,
\* FlushCvOutputs, EnableCvOutput, DisableCvOutput).
THEOREM OutputsAreAsTold == CvSpec => []OutputsAsTold
<1>1. CvInv /\ [CvNext]_cvVars => CvInv'
  <2>1. ASSUME CvInv, CvNext
        PROVE  CvInv'
    <3>1. CASE \E j \in Channels, code \in Codes : SetVolts(j, code) \/ StageVolts(j, code)
      BY <2>1, <3>1, SetVoltsStep, StageVoltsStep
    <3>2. CASE FlushCvOutputs
      BY <2>1, <3>2, FlushStep
    <3>3. CASE \E j \in Lines : EnableCvOutput(j) \/ DisableCvOutput(j)
      <4>1. PICK j \in Lines : EnableCvOutput(j) \/ DisableCvOutput(j)
        BY <3>3
      <4>2. CASE EnableCvOutput(j)
        <5>1. TRUE \in BOOLEAN /\ Route(j, TRUE) /\ UNCHANGED <<shadow, dirty, due>>
          BY <4>2 DEF EnableCvOutput
        <5>. QED
          BY <2>1, <5>1, RouteStep
      <4>3. CASE DisableCvOutput(j)
        <5>1. FALSE \in BOOLEAN /\ Route(j, FALSE) /\ UNCHANGED <<shadow, dirty, due>>
          BY <4>3 DEF DisableCvOutput
        <5>. QED
          BY <2>1, <5>1, RouteStep
      <4>. QED
        BY <4>1, <4>2, <4>3
    <3>. QED
      BY <2>1, <3>1, <3>2, <3>3 DEF CvNext
  <2>2. ASSUME CvInv, UNCHANGED cvVars
        PROVE  CvInv'
    BY <2>2 DEF cvVars, CvInv
  <2>. QED
    BY <2>1, <2>2
<1>2. CvInv => OutputsAsTold
  BY DEF CvInv, OutputsAsTold, AcceptedIsDriven, RoutedAsTold
<1>. QED
  BY <1>1, <1>2, CvInvInit, PTL DEF CvSpec


-----------------------------------------------------------------------------
(***************************************************************************)
(* Diagnostics.  The ring holds the last messages of its epoch in order,    *)
(* and what a host has read and been told it lost adds up to its cursor.   *)
(***************************************************************************)
Record == [sequence : Nat, message : Nat, length : Nat]

\* The i-th record of a log, and how its messages run.
RecordAt(log, i) == log.at[(log.head + i) % Kapacity]

Runs(log, first) == \A i \in 0 .. log.count - 1 : RecordAt(log, i).message = first + i

LogType(log) ==
    /\ log \in [at : [0 .. Kapacity - 1 -> Record], head : 0 .. Kapacity - 1, count : 0 .. Kapacity]

RingInv ==
    /\ LogType(ring)
    /\ next \in 1 .. LastSequence /\ ring.count < next
    /\ epoch \in Nat /\ messages = epoch + next - 1
    /\ Runs(ring, epoch + Oldest)

Client == [session : Nat, cursor : Nat, gauges : Nat, got : Seq(Nat), lost : Nat, since : Nat,
           sampled : [valid : Nat, bits : Nat]]

SessionInv ==
    /\ tokens \in 0 .. MaxTokens /\ session \in 0 .. tokens
    /\ gauges \in 0 .. KMaxGauges /\ described \in BOOLEAN
    /\ host \in Client
    /\ host.session # 0 => described /\ host.gauges = gauges

\* Up to where a host has read or lost the log.
End == host.since + Len(host.got) + host.lost

\* Messages in order, none before its turn.
InOrder(got, since, end) ==
    /\ \A i \in DOMAIN got : got[i] \in since + i .. end
    /\ \A i, j \in DOMAIN got : i < j => got[i] < got[j]

CursorInv ==
    host.session # 0 =>
        /\ InOrder(host.got, host.since, End)
        /\ session = host.session => host.cursor <= next /\ End = epoch + host.cursor - 1

\* The flag is read before the bits, and the bits are published before the flag.
GaugeInv ==
    /\ gauge \in {[bits |-> 0, valid |-> 0], [bits |-> 1, valid |-> 1]}
    /\ sample # Absent => /\ sample \in [valid : {0, 1}, bits : {Unread}]
                          /\ sample.valid = 1 => gauge.bits = 1
    /\ host.sampled.valid = 1 => host.sampled.bits # 0

DiagInv == RingInv /\ SessionInv /\ CursorInv /\ GaugeInv


LEMMA DiagConstants ==
    /\ Kapacity \in Nat /\ Kapacity > 0 /\ KMaxGauges \in Nat /\ KMaxGauges > 0
    /\ LastSequence \in Nat /\ LastSequence > 1 /\ Budget \in Nat
    /\ Lengths \subseteq Nat /\ MaxTokens \in Nat /\ MaxMessages \in Nat
BY DiagAssumption

\* Where the ring wraps.
LEMMA Wraps ==
    ASSUME NEW h \in 0 .. Kapacity - 1, NEW i \in 0 .. Kapacity
    PROVE  (h + i) % Kapacity = IF h + i < Kapacity THEN h + i ELSE h + i - Kapacity
BY DiagConstants

LEMMA EmptyLogRuns ==
    ASSUME NEW first PROVE LogType(EmptyLog) /\ EmptyLog.count = 0 /\ Runs(EmptyLog, first)
<1>1. [i \in 0 .. Kapacity - 1 |-> [sequence |-> 0, message |-> 0, length |-> 0]]
        \in [0 .. Kapacity - 1 -> Record]
  BY DEF Record
<1>2. LogType(EmptyLog) /\ EmptyLog.count = 0
  BY <1>1, DiagConstants DEF LogType, EmptyLog
<1>. QED
  BY <1>2 DEF Runs

\* A record stored behind the others leaves the run as it was, less the oldest if it was full.
LEMMA StoredRuns ==
    ASSUME NEW log, LogType(log), NEW first \in Nat, Runs(log, first),
           NEW r \in Record, r.message = first + log.count
    PROVE  LET s == Stored(log, r)
           IN  /\ LogType(s) /\ s.count <= log.count + 1
               /\ Runs(s, first + log.count + 1 - s.count)
<1>. DEFINE full == log.count = Kapacity
            head == IF full THEN (log.head + 1) % Kapacity ELSE log.head
            kept == IF full THEN log.count - 1 ELSE log.count
            tail == (head + kept) % Kapacity
            at   == [log.at EXCEPT ![tail] = r]
            s    == [at |-> at, head |-> head, count |-> kept + 1]
<1>1. Stored(log, r) = s
  BY DEF Stored
<1>2. /\ log.at \in [0 .. Kapacity - 1 -> Record]
      /\ log.head \in 0 .. Kapacity - 1 /\ log.count \in 0 .. Kapacity
  BY DEF LogType
<1>3. /\ head = IF full THEN IF log.head + 1 < Kapacity THEN log.head + 1 ELSE 0 ELSE log.head
      /\ head \in 0 .. Kapacity - 1 /\ kept \in 0 .. Kapacity - 1
  <2>1. log.head \in 0 .. Kapacity - 1 /\ 1 \in 0 .. Kapacity
    BY <1>2, DiagConstants
  <2>2. (log.head + 1) % Kapacity = IF log.head + 1 < Kapacity THEN log.head + 1
                                    ELSE log.head + 1 - Kapacity
    BY <2>1, Wraps
  <2>3. (log.head + 1) % Kapacity = IF log.head + 1 < Kapacity THEN log.head + 1 ELSE 0
    BY <2>1, <2>2, DiagConstants
  <2>4. CASE full
    <3>1. head = (log.head + 1) % Kapacity /\ kept = Kapacity - 1
      BY <2>4
    <3>. QED
      BY <2>1, <2>3, <2>4, <3>1, DiagConstants
  <2>5. CASE ~full
    <3>1. head = log.head /\ kept = log.count
      BY <2>5
    <3>. QED
      BY <1>2, <2>1, <2>5, <3>1, DiagConstants
  <2>. QED
    BY <2>4, <2>5
<1>. HIDE DEF head
<1>4. tail = (IF head + kept < Kapacity THEN head + kept ELSE head + kept - Kapacity)
      /\ tail \in 0 .. Kapacity - 1
  <2>1. head \in 0 .. Kapacity - 1 /\ kept \in 0 .. Kapacity
    BY <1>3, DiagConstants
  <2>2. tail = (IF head + kept < Kapacity THEN head + kept ELSE head + kept - Kapacity)
    BY <2>1, Wraps
  <2>. QED
    BY <1>3, <2>2, DiagConstants
<1>. HIDE DEF tail
<1>5. /\ at \in [0 .. Kapacity - 1 -> Record] /\ at[tail] = r
      /\ \A k \in 0 .. Kapacity - 1 : k # tail => at[k] = log.at[k]
  BY <1>2, <1>4
<1>. HIDE DEF at
<1>6. s.at = at /\ s.head = head /\ s.count = kept + 1
  OBVIOUS
<1>7. LogType(s)
  BY <1>3, <1>5, DiagConstants DEF LogType
<1>8. s.count <= log.count + 1 /\ first + log.count + 1 - s.count = IF full THEN first + 1 ELSE first
  BY <1>2, <1>6
<1>9. ASSUME NEW i \in 0 .. kept
      PROVE  RecordAt(s, i).message = (IF full THEN first + 1 ELSE first) + i
  <2>1. RecordAt(s, i) = at[(head + i) % Kapacity]
    BY <1>6 DEF RecordAt
  <2>2. (head + i) % Kapacity = (IF head + i < Kapacity THEN head + i ELSE head + i - Kapacity)
        /\ (head + i) % Kapacity \in 0 .. Kapacity - 1
    BY <1>3, Wraps, DiagConstants
  <2>3. CASE i = kept
    <3>1. (head + i) % Kapacity = tail
      BY <1>4, <2>2, <2>3
    <3>. QED
      BY <1>2, <1>5, <2>1, <2>3, <3>1, SMTT(20)
  <2>4. CASE i # kept
    <3>1. (head + i) % Kapacity # tail
      BY <1>3, <1>4, <2>2, <2>4, DiagConstants
    <3>2. RecordAt(s, i) = log.at[(head + i) % Kapacity]
      BY <1>5, <2>1, <2>2, <3>1
    <3>3. CASE full
      <4>1. i + 1 \in 0 .. log.count - 1
        BY <1>2, <2>4, <3>3
      <4>2. (log.head + (i + 1)) % Kapacity = (head + i) % Kapacity
        <5>1. i + 1 \in 0 .. Kapacity /\ log.head \in 0 .. Kapacity - 1
          BY <1>2, <4>1, DiagConstants
        <5>2. (log.head + (i + 1)) % Kapacity = IF log.head + (i + 1) < Kapacity THEN log.head + (i + 1)
                                                ELSE log.head + (i + 1) - Kapacity
          BY <5>1, Wraps
        <5>3. CASE log.head + 1 < Kapacity
          <6>1. head = log.head + 1
            BY <1>3, <3>3, <5>3
          <6>. QED
            BY SMTT(30), <2>2, <5>1, <5>2, <6>1, DiagConstants
        <5>4. CASE ~(log.head + 1 < Kapacity)
          <6>1. head = 0 /\ log.head = Kapacity - 1
            BY SMTT(30), <1>2, <1>3, <3>3, <5>4, DiagConstants
          <6>. QED
            BY SMTT(60), <2>2, <4>1, <5>1, <5>2, <6>1, <1>2, DiagConstants
        <5>. QED
          BY <5>3, <5>4
      <4>3. RecordAt(log, i + 1).message = first + (i + 1)
        BY <4>1 DEF Runs
      <4>. QED
        BY <3>2, <3>3, <4>2, <4>3 DEF RecordAt
    <3>4. CASE ~full
      <4>1. i \in 0 .. log.count - 1 /\ head = log.head
        BY <1>2, <1>3, <2>4, <3>4
      <4>. QED
        BY <3>2, <3>4, <4>1 DEF Runs, RecordAt
    <3>. QED
      BY <3>3, <3>4
  <2>. QED
    BY <2>3, <2>4
<1>10. Runs(s, first + log.count + 1 - s.count)
  BY <1>2, <1>6, <1>8, <1>9 DEF Runs
<1>. QED
  BY <1>1, <1>7, <1>8, <1>10


\* What NewEpoch leaves is the log of an epoch with room for another message; no session
\* outlives the epoch it was given in.
LEMMA EpochGoesOn ==
    ASSUME RingInv, session \in Nat
    PROVE  LET e == NewEpoch
           IN  /\ LogType(e.ring) /\ e.next \in 1 .. LastSequence - 1 /\ e.ring.count < e.next
               /\ e.epoch \in Nat /\ messages = e.epoch + e.next - 1
               /\ Runs(e.ring, e.epoch + e.next - e.ring.count)
               /\ \/ e.session = 0
                  \/ e.session = session /\ e.epoch = epoch /\ e.next = next
<1>1. CASE next = LastSequence
  <2>1. NewEpoch = [ring |-> EmptyLog, next |-> 1, session |-> 0, epoch |-> messages]
    BY <1>1 DEF NewEpoch
  <2>2. NewEpoch.ring = EmptyLog /\ NewEpoch.next = 1 /\ NewEpoch.session = 0
        /\ NewEpoch.epoch = messages
    BY <2>1
  <2>3. messages \in Nat
    BY DiagConstants DEF RingInv
  <2>. QED
    BY <2>2, <2>3, EmptyLogRuns, DiagConstants
<1>2. CASE next # LastSequence
  <2>1. NewEpoch = [ring |-> ring, next |-> next, session |-> session, epoch |-> epoch]
    BY <1>2 DEF NewEpoch
  <2>2. NewEpoch.ring = ring /\ NewEpoch.next = next /\ NewEpoch.session = session
        /\ NewEpoch.epoch = epoch
    BY <2>1
  <2>3. ring.count \in Nat
    BY DiagConstants DEF RingInv, LogType
  <2>4. epoch + Oldest = epoch + next - ring.count
    BY <2>3, DiagConstants DEF RingInv, Oldest
  <2>. QED
    BY <1>2, <2>2, <2>4, DiagConstants DEF RingInv
<1>. QED
  BY <1>1, <1>2

LEMMA CursorStays ==
    ASSUME CursorInv, host \in Client, session \in Nat, UNCHANGED host,
           session' = 0 \/ (session' = session /\ epoch' = epoch /\ next <= next'),
           next \in Nat, next' \in Nat
    PROVE  CursorInv'
<1>1. End' = End
  BY DEF End
<1>2. session' = host.session /\ host.session # 0 => session = host.session /\ epoch' = epoch
  OBVIOUS
<1>3. host.cursor \in Nat
  BY DEF Client
<1>. QED
  BY <1>1, <1>2, <1>3 DEF CursorInv

LEMMA LogVStep ==
    ASSUME DiagInv, LogV
    PROVE  DiagInv'
<1>. PICK e : e = NewEpoch
  OBVIOUS
<1>. PICK length \in Lengths :
        /\ ring' = Stored(e.ring, [sequence |-> e.next, message |-> messages + 1,
                                   length |-> length])
        /\ next' = e.next + 1 /\ session' = e.session /\ epoch' = e.epoch
  BY DEF LogV
<1>1. session \in Nat /\ messages' = messages + 1
      /\ UNCHANGED <<gauges, described, gauge, sample, tokens, host>>
  BY DiagConstants DEF LogV, DiagInv, SessionInv
<1>2. /\ LogType(e.ring) /\ e.next \in 1 .. LastSequence - 1 /\ e.ring.count < e.next
      /\ e.epoch \in Nat /\ messages = e.epoch + e.next - 1
      /\ Runs(e.ring, e.epoch + e.next - e.ring.count)
      /\ \/ e.session = 0
         \/ e.session = session /\ e.epoch = epoch /\ e.next = next
  BY <1>1, EpochGoesOn DEF DiagInv
<1>3. e.ring.count \in Nat
  BY <1>2, DiagConstants DEF LogType
<1>. DEFINE first == e.epoch + e.next - e.ring.count
            r == [sequence |-> e.next, message |-> messages + 1, length |-> length]
<1>4. first \in Nat /\ r \in Record /\ r.message = first + e.ring.count
  BY <1>2, <1>3, DiagConstants DEF Record
<1>5. /\ LogType(ring') /\ ring'.count <= e.ring.count + 1
      /\ Runs(ring', first + e.ring.count + 1 - ring'.count)
  <2>1. PICK log : log = e.ring
    OBVIOUS
  <2>2. LogType(log) /\ Runs(log, first) /\ r.message = first + log.count
    BY <1>2, <1>4, <2>1
  <2>3. ring' = Stored(log, r)
    BY <2>1
  <2>. HIDE DEF first, r
  <2>4. LET s == Stored(log, r)
        IN  /\ LogType(s) /\ s.count <= log.count + 1
            /\ Runs(s, first + log.count + 1 - s.count)
    BY <1>4, <2>2, StoredRuns
  <2>. QED
    BY <2>1, <2>3, <2>4
<1>6. ring'.count \in Nat
  BY <1>5, DiagConstants DEF LogType
<1>7. first + e.ring.count + 1 - ring'.count = epoch' + Oldest'
  BY <1>2, <1>3, <1>6 DEF Oldest
<1>8. RingInv'
  <2>1. next' \in 1 .. LastSequence /\ ring'.count < next' /\ epoch' \in Nat
        /\ messages' = epoch' + next' - 1
    BY <1>1, <1>2, <1>3, <1>5, <1>6, DiagConstants
  <2>2. Runs(ring', epoch' + Oldest')
    BY <1>5, <1>7
  <2>. QED
    BY ZenonT(30), <1>5, <2>1, <2>2 DEF RingInv, Runs, LogType, RecordAt, Oldest
<1>9. session' \in 0 .. tokens
  BY <1>2, DiagConstants DEF DiagInv, SessionInv
<1>10. CursorInv'
  <2>1. CursorInv /\ host \in Client /\ UNCHANGED host
    BY <1>1 DEF DiagInv, SessionInv
  <2>2. /\ session' = 0 \/ (session' = session /\ epoch' = epoch /\ next <= next')
        /\ next \in Nat /\ next' \in Nat
    BY <1>1, <1>2, DiagConstants DEF DiagInv, RingInv
  <2>. QED
    BY <1>1, <2>1, <2>2, CursorStays
<1>. QED
  BY <1>1, <1>8, <1>9, <1>10 DEF DiagInv, SessionInv, GaugeInv

LEMMA LogFailsStep ==
    ASSUME DiagInv, LogFails
    PROVE  DiagInv'
<1>. PICK e : e = NewEpoch
  OBVIOUS
<1>1. session \in Nat /\ UNCHANGED <<gauges, described, messages, gauge, sample, tokens, host>>
      /\ ring' = e.ring /\ next' = e.next /\ session' = e.session /\ epoch' = e.epoch
  BY DiagConstants DEF LogFails, DiagInv, SessionInv
<1>2. /\ LogType(e.ring) /\ e.next \in 1 .. LastSequence - 1 /\ e.ring.count < e.next
      /\ e.epoch \in Nat /\ messages = e.epoch + e.next - 1
      /\ Runs(e.ring, e.epoch + e.next - e.ring.count)
      /\ \/ e.session = 0
         \/ e.session = session /\ e.epoch = epoch /\ e.next = next
  BY <1>1, EpochGoesOn DEF DiagInv
<1>3. e.ring.count \in Nat
  BY <1>2, DiagConstants DEF LogType
<1>4. e.epoch + e.next - e.ring.count = epoch' + Oldest'
  BY <1>1, <1>2, <1>3 DEF Oldest
<1>5. RingInv'
  <2>1. next' \in 1 .. LastSequence /\ ring'.count < next' /\ epoch' \in Nat
        /\ messages' = epoch' + next' - 1 /\ LogType(ring')
    BY <1>1, <1>2, DiagConstants
  <2>2. Runs(ring', epoch' + Oldest')
    BY <1>1, <1>2, <1>4
  <2>. QED
    BY <2>1, <2>2 DEF RingInv, Runs, LogType, RecordAt, Oldest
<1>6. session' \in 0 .. tokens
  BY <1>1, <1>2, DiagConstants DEF DiagInv, SessionInv
<1>7. CursorInv'
  <2>1. CursorInv /\ host \in Client /\ UNCHANGED host
    BY <1>1 DEF DiagInv, SessionInv
  <2>2. /\ session' = 0 \/ (session' = session /\ epoch' = epoch /\ next <= next')
        /\ next \in Nat /\ next' \in Nat
    BY <1>1, <1>2, DiagConstants DEF DiagInv, RingInv
  <2>. QED
    BY <1>1, <2>1, <2>2, CursorStays
<1>. QED
  BY <1>1, <1>5, <1>6, <1>7 DEF DiagInv, SessionInv, GaugeInv


\* No records take no room.
LEMMA NothingFits ==
    ASSUME NEW start PROVE SizeOf(start, 0) = 0
<1>. DEFINE Sizes(s) == [i \in 0 .. 0 |-> IF i = 0 THEN 0
                                          ELSE s[i - 1] + 1 + At(start + i - 1).length]
            zero == [i \in 0 .. 0 |-> 0]
            s == CHOOSE s : s = Sizes(s)
<1>1. zero = Sizes(zero)
  OBVIOUS
<1>2. s = Sizes(s)
  BY <1>1
<1>3. SizeOf(start, 0) = s[0]
  BY DEF SizeOf
<1>. QED
  BY <1>2, <1>3

\* A set of numbers up to a bound has a greatest.
LEMMA GreatestIsIn ==
    ASSUME NEW bound \in Nat, NEW S \in SUBSET (0 .. bound), S # {}
    PROVE  (CHOOSE n \in S : \A m \in S : m <= n) \in S
<1>. DEFINE R == {ss \in Nat \X Nat : ss[1] < ss[2]}
            T == {bound - n : n \in S}
<1>1. IsWellFoundedOn(R, Nat)
  BY NatLessThanWellFounded DEF OpToRel
<1>2. T \subseteq Nat /\ T # {}
  <2>1. \A n \in S : bound - n \in Nat
    OBVIOUS
  <2>2. \E n : n \in S
    OBVIOUS
  <2>. QED
    BY <2>1, <2>2
<1>3. PICK x \in T : \A y \in T : <<y, x>> \notin R
  <2>. HIDE DEF R, T
  <2>. QED
    BY <1>1, <1>2, WFMin
<1>4. PICK n \in S : x = bound - n
  OBVIOUS
<1>5. ASSUME NEW m \in S
      PROVE  m <= n
  <2>1. bound - m \in T /\ bound - m \in Nat /\ x \in Nat
    BY <1>2
  <2>2. ~(bound - m < x)
    <3>1. <<bound - m, x>> \notin R
      BY <1>3, <2>1
    <3>2. <<bound - m, x>> \in Nat \X Nat /\ <<bound - m, x>>[1] = bound - m
          /\ <<bound - m, x>>[2] = x
      BY <2>1
    <3>. QED
      BY <3>1, <3>2
  <2>. QED
    BY <1>4, <2>2
<1>. QED
  BY <1>5

\* A response ends within the ring.
LEMMA PackedType ==
    ASSUME RingInv, NEW start \in 0 .. ring.count, NEW limit \in Nat
    PROVE  Packed(start, limit) \in 0 .. ring.count - start
<1>1. ring.count \in Nat
  BY DiagConstants DEF RingInv, LogType
<1>. DEFINE fits == {n \in 0 .. ring.count - start : n <= limit /\ SizeOf(start, n) <= Budget}
<1>2. 0 \in fits
  BY <1>1, NothingFits, DiagConstants
<1>3. ring.count - start \in Nat /\ fits \in SUBSET (0 .. ring.count - start) /\ fits # {}
  BY <1>1, <1>2
<1>4. (CHOOSE n \in fits : \A m \in fits : m <= n) \in fits
  <2>1. PICK b : b = ring.count - start
    OBVIOUS
  <2>2. PICK S : S = fits
    OBVIOUS
  <2>3. (CHOOSE n \in S : \A m \in S : m <= n) \in S
    <3>1. b \in Nat /\ S \in SUBSET (0 .. b) /\ S # {}
      BY <1>3, <2>1, <2>2
    <3>. QED
      BY <3>1, GreatestIsIn, Zenon
  <2>. QED
    BY <2>2, <2>3
<1>5. Packed(start, limit) = CHOOSE n \in fits : \A m \in fits : m <= n
  BY DEF Packed
<1>. QED
  BY <1>4, <1>5


\* The records of a response, as the host takes them down.
LEMMA ReadMessages ==
    ASSUME RingInv, NEW start \in Nat, NEW n \in 0 .. ring.count - start
    PROVE  LET read == [i \in 1 .. n |-> At(start + i - 1).message]
           IN  /\ read \in Seq(Nat) /\ Len(read) = n
               /\ \A i \in 1 .. n : read[i] = epoch + Oldest + start + i - 1
<1>. DEFINE read == [i \in 1 .. n |-> At(start + i - 1).message]
<1>1. ring.count \in Nat /\ Oldest \in Nat /\ n \in Nat /\ epoch \in Nat
  BY DiagConstants DEF RingInv, LogType, Oldest
<1>2. ASSUME NEW i \in 1 .. n
      PROVE  At(start + i - 1).message = epoch + Oldest + start + i - 1
  <2>1. start + i - 1 \in 0 .. ring.count - 1
    BY <1>1
  <2>2. RecordAt(ring, start + i - 1).message = epoch + Oldest + (start + i - 1)
    BY <2>1 DEF RingInv, Runs
  <2>. QED
    BY <1>1, <2>2 DEF At, RecordAt
<1>3. \A i \in 1 .. n : read[i] = epoch + Oldest + start + i - 1
  BY <1>2
<1>4. read \in [1 .. n -> Nat]
  <2>1. ASSUME NEW i \in 1 .. n PROVE At(start + i - 1).message \in Nat
    <3>1. i \in Nat /\ i >= 1
      BY <1>1
    <3>2. epoch + Oldest + start + i - 1 \in Nat
      BY <1>1, <3>1
    <3>. QED
      BY <1>2, <3>2
  <2>. QED
    BY <2>1
<1>5. read \in Seq(Nat) /\ Len(read) = n
  <2>. HIDE DEF read
  <2>. QED
    BY <1>1, <1>4
<1>. QED
  BY <1>3, <1>5

LEMMA Joined ==
    ASSUME NEW S, NEW a \in Seq(S), NEW b \in Seq(S)
    PROVE  /\ a \o b \in Seq(S) /\ Len(a) \in Nat /\ Len(b) \in Nat /\ Len(a \o b) = Len(a) + Len(b)
           /\ \A k \in 1 .. Len(a) : (a \o b)[k] = a[k]
           /\ \A k \in 1 .. Len(b) : (a \o b)[Len(a) + k] = b[k]
OBVIOUS

\* Where something stands in two lists put together.
LEMMA Places ==
    ASSUME NEW l \in Nat, NEW m \in Nat
    PROVE  /\ \A i \in 1 .. l : i \in 1 .. l + m
           /\ \A k \in 1 .. m : l + k \in 1 .. l + m
           /\ \A i \in 1 .. l + m : i \in 1 .. l \/ \E k \in 1 .. m : i = l + k
<1>1. \A i \in 1 .. l + m : i > l => i - l \in 1 .. m /\ i = l + (i - l)
  OBVIOUS
<1>2. \A i \in 1 .. l + m : i \in 1 .. l \/ i > l
  OBVIOUS
<1>3. ASSUME NEW i \in 1 .. l + m, i > l
      PROVE  \E k \in 1 .. m : i = l + k
  BY <1>1, <1>3, Zenon
<1>. QED
  BY <1>2, <1>3

LEMMA InOrderJoined ==
    ASSUME NEW old, NEW new, NEW l \in Nat, NEW m \in Nat,
           NEW since \in Nat, NEW end \in Nat, NEW base \in Nat, since + l <= base, end <= base,
           InOrder(old, since, end), DOMAIN old = 1 .. l, DOMAIN new = 1 .. l + m,
           \A i \in 1 .. l : new[i] = old[i], \A k \in 1 .. m : new[l + k] = base + k
    PROVE  InOrder(new, since, base + m)
<1>0. \A i \in DOMAIN new : i \in 1 .. l \/ \E k \in 1 .. m : i = l + k
  <2>1. \A i \in 1 .. l + m : i \in 1 .. l \/ \E k \in 1 .. m : i = l + k
    BY Places, Zenon
  <2>. QED
    BY <2>1
<1>1. ASSUME NEW i \in 1 .. l
      PROVE  new[i] \in since + i .. end
  BY DEF InOrder
<1>2. ASSUME NEW i \in DOMAIN new
      PROVE  new[i] \in since + i .. base + m
  <2>1. CASE i \in 1 .. l
    <3>1. PICK v : v = new[i]
      OBVIOUS
    <3>2. v \in since + i .. end
      BY <1>1, <2>1, <3>1
    <3>3. v \in since + i .. base + m
      BY <2>1, <3>2
    <3>. QED
      BY <3>1, <3>3
  <2>2. CASE \E k \in 1 .. m : i = l + k
    <3>1. PICK k \in 1 .. m : i = l + k
      BY <2>2
    <3>2. base + k \in since + (l + k) .. base + m
      OBVIOUS
    <3>. QED
      BY <3>1, <3>2
  <2>. QED
    BY <1>0, <2>1, <2>2, Zenon
<1>3. ASSUME NEW i \in DOMAIN new, NEW j \in DOMAIN new, i < j
      PROVE  new[i] < new[j]
  <2>1. CASE i \in 1 .. l /\ j \in 1 .. l
    BY <1>3, <2>1 DEF InOrder
  <2>2. CASE i \in 1 .. l /\ \E k \in 1 .. m : j = l + k
    <3>1. PICK k \in 1 .. m : j = l + k
      BY <2>2
    <3>2. PICK v : v = new[i]
      OBVIOUS
    <3>3. v \in since + i .. end
      BY <1>1, <2>2, <3>2
    <3>4. v < base + k
      BY <2>2, <3>3
    <3>. QED
      BY <3>1, <3>2, <3>4
  <2>3. CASE (\E k \in 1 .. m : i = l + k) /\ (\E k \in 1 .. m : j = l + k)
    <3>1. PICK h \in 1 .. m, k \in 1 .. m : i = l + h /\ j = l + k
      BY <2>3
    <3>2. base + h < base + k
      BY <1>3, <3>1
    <3>. QED
      BY <3>1, <3>2
  <2>4. CASE (\E k \in 1 .. m : i = l + k) /\ j \in 1 .. l
    BY <1>3, <2>4
  <2>. QED
    BY <1>0, <2>1, <2>2, <2>3, <2>4, Zenon
<1>. QED
  BY <1>2, <1>3 DEF InOrder

\* Messages in order, with others in order behind them.
CountsFrom(read, base) == \A i \in 1 .. Len(read) : read[i] = base + i

LEMMA Carried ==
    ASSUME NEW old \in Seq(Nat), NEW since \in Nat, NEW end \in Nat, InOrder(old, since, end),
           NEW base \in Nat, since + Len(old) <= base, end <= base,
           NEW read \in Seq(Nat), CountsFrom(read, base)
    PROVE  /\ old \o read \in Seq(Nat) /\ Len(old \o read) = Len(old) + Len(read)
           /\ InOrder(old \o read, since, base + Len(read))
<1>1. PICK new : new = old \o read
  OBVIOUS
<1>2. /\ new \in Seq(Nat) /\ Len(old) \in Nat /\ Len(read) \in Nat
      /\ Len(new) = Len(old) + Len(read)
      /\ \A i \in 1 .. Len(old) : new[i] = old[i]
      /\ \A k \in 1 .. Len(read) : new[Len(old) + k] = read[k]
  BY <1>1, Joined
<1>3. DOMAIN new = 1 .. Len(old) + Len(read) /\ DOMAIN old = 1 .. Len(old)
  BY <1>2, LenProperties
<1>4. \A k \in 1 .. Len(read) : new[Len(old) + k] = base + k
  BY <1>2 DEF CountsFrom
<1>5. PICK l, m : l = Len(old) /\ m = Len(read)
  OBVIOUS
<1>6. /\ l \in Nat /\ m \in Nat /\ since + l <= base /\ DOMAIN old = 1 .. l /\ DOMAIN new = 1 .. l + m
      /\ \A i \in 1 .. l : new[i] = old[i]
      /\ \A k \in 1 .. m : new[l + k] = base + k
  BY <1>2, <1>3, <1>4, <1>5, Zenon
<1>7. InOrder(new, since, base + m)
  BY <1>6, InOrderJoined
<1>. QED
  BY <1>1, <1>2, <1>5, <1>7

LEMMA FreshHost ==
    /\ NewHost \in Client /\ NewHost.session = 0 /\ NewHost.lost = 0 /\ NewHost.got = <<>>
    /\ NewHost.sampled.valid = 0
BY DEF NewHost, Client

\* An answer that the host hears and that is its session's: what it was told it lost and
\* what it reads carry it on from its cursor.
Follows(limit, lost, from, start, n) ==
    /\ lost = LostTo(host.cursor)
    /\ from = host.cursor + lost
    /\ start = IF from < Oldest THEN 0 ELSE from - Oldest
    /\ n = Packed(start, limit)
    /\ host' = [host EXCEPT !.cursor = from + n, !.lost = @ + lost,
                            !.got = @ \o [i \in 1 .. n |-> At(start + i - 1).message]]
    /\ UNCHANGED <<gauges, messages, epoch, ring, next, session, described, tokens>>

LEMMA FollowStep ==
    ASSUME RingInv, SessionInv, CursorInv, host.session # 0, session = host.session,
           host.cursor <= next, NEW limit \in Nat, NEW lost, NEW from, NEW start, NEW n,
           Follows(limit, lost, from, start, n)
    PROVE  /\ host' \in Client /\ host'.session = host.session /\ host'.gauges = host.gauges
           /\ host'.sampled = host.sampled /\ CursorInv'
<1>1. /\ lost = LostTo(host.cursor) /\ from = host.cursor + lost
      /\ start = IF from < Oldest THEN 0 ELSE from - Oldest
      /\ n = Packed(start, limit)
      /\ host' = [host EXCEPT !.cursor = from + n, !.lost = @ + lost,
                              !.got = @ \o [i \in 1 .. n |-> At(start + i - 1).message]]
      /\ epoch' = epoch /\ next' = next
  BY DEF Follows
<1>2. /\ host.cursor \in Nat /\ host.got \in Seq(Nat) /\ host.lost \in Nat /\ host.since \in Nat
      /\ Len(host.got) \in Nat
  BY DEF SessionInv, Client
<1>3. /\ ring.count \in Nat /\ next \in Nat /\ ring.count < next /\ epoch \in Nat
      /\ Oldest = next - ring.count /\ Oldest \in Nat /\ Oldest >= 1
  BY DiagConstants DEF RingInv, LogType, Oldest
<1>4. /\ lost \in Nat /\ from \in Nat /\ from >= Oldest /\ from <= next /\ from >= 1
      /\ host.cursor <= from
  <2>1. PICK c, o : c = host.cursor /\ o = Oldest
    OBVIOUS
  <2>2. c \in Nat /\ o \in Nat /\ o >= 1 /\ c <= next /\ next \in Nat /\ o <= next
    BY <1>2, <1>3, <2>1
  <2>3. lost = IF c < o THEN o - c ELSE 0
    BY <1>1, <2>1 DEF LostTo
  <2>. QED
    BY <1>1, <2>1, <2>2, <2>3
<1>5. start = from - Oldest /\ start \in 0 .. ring.count /\ n \in 0 .. ring.count - start /\ n \in Nat
  <2>1. start = from - Oldest /\ start \in 0 .. ring.count
    BY <1>1, <1>3, <1>4
  <2>. QED
    BY <1>1, <1>3, <2>1, PackedType
<1>6. PICK read : read = [i \in 1 .. n |-> At(start + i - 1).message]
  OBVIOUS
<1>7. /\ read \in Seq(Nat) /\ Len(read) = n
      /\ \A i \in 1 .. n : read[i] = epoch + Oldest + start + i - 1
  <2>1. start \in Nat
    BY <1>3, <1>5
  <2>. QED
    BY <1>5, <1>6, <2>1, ReadMessages
<1>8. \A i \in 1 .. n : read[i] = epoch + from + i - 1
  <2>1. epoch + Oldest + start = epoch + from
    BY <1>3, <1>4, <1>5
  <2>. QED
    BY <1>7, <2>1
<1>9. /\ host'.got = host.got \o read /\ host'.cursor = from + n /\ host'.lost = host.lost + lost
      /\ host'.since = host.since /\ host'.session = host.session /\ host'.gauges = host.gauges
      /\ host'.sampled = host.sampled
  <2>1. PICK got, cursor, gone : got = host.got \o read /\ cursor = from + n /\ gone = host.lost + lost
    OBVIOUS
  <2>2. PICK x : x = host
    OBVIOUS
  <2>3. x \in Client
    BY <2>2 DEF SessionInv
  <2>4. PICK y : y = [x EXCEPT !.cursor = cursor, !.lost = gone, !.got = got]
    OBVIOUS
  <2>5. /\ y.got = got /\ y.cursor = cursor /\ y.lost = gone /\ y.since = x.since
        /\ y.session = x.session /\ y.gauges = x.gauges /\ y.sampled = x.sampled
    BY <2>3, <2>4 DEF Client
  <2>6. host' = y
    BY <1>1, <1>6, <2>1, <2>2, <2>4, Zenon
  <2>. QED
    BY <2>1, <2>2, <2>5, <2>6, Zenon
<1>10. epoch + from - 1 \in Nat /\ epoch + host.cursor - 1 <= epoch + from - 1
  <2>1. PICK c \in Nat, f \in Nat, e \in Nat : c = host.cursor /\ f = from /\ e = epoch
    BY <1>2, <1>3, <1>4
  <2>2. f >= 1 /\ c <= f
    BY <1>4, <2>1
  <2>. QED
    BY <2>1, <2>2
<1>11. End \in Nat /\ End = epoch + host.cursor - 1 /\ host.since + Len(host.got) <= End
  BY SMTT(30), <1>2 DEF CursorInv, End
<1>12. InOrder(host.got, host.since, End)
  BY DEF CursorInv
<1>13. /\ host'.got \in Seq(Nat) /\ Len(host'.got) = Len(host.got) + n
       /\ InOrder(host'.got, host.since, epoch + from - 1 + n)
  <2>1. PICK old, since, end, base :
            old = host.got /\ since = host.since /\ end = End /\ base = epoch + from - 1
    OBVIOUS
  <2>2. old \in Seq(Nat) /\ since \in Nat /\ end \in Nat /\ base \in Nat
    BY <1>2, <1>10, <1>11, <2>1
  <2>3. since + Len(old) <= base /\ end <= base
    BY SMTT(30), <1>2, <1>10, <1>11, <2>1, <2>2
  <2>4. CountsFrom(read, base)
    <3>1. PICK e \in Nat, f \in Nat : e = epoch /\ f = from
      BY <1>3, <1>4
    <3>2. \A i \in 1 .. n : e + f + i - 1 = e + f - 1 + i
      BY <1>5, <3>1
    <3>. QED
      BY <1>7, <1>8, <2>1, <3>1, <3>2 DEF CountsFrom
  <2>5. InOrder(old, since, end)
    BY <1>12, <2>1
  <2>6. PICK new : new = old \o read
    OBVIOUS
  <2>7. read \in Seq(Nat)
    BY <1>7
  <2>8. /\ new \in Seq(Nat) /\ Len(new) = Len(old) + Len(read)
        /\ InOrder(new, since, base + Len(read))
    <3>1. /\ old \o read \in Seq(Nat) /\ Len(old \o read) = Len(old) + Len(read)
          /\ InOrder(old \o read, since, base + Len(read))
      BY <2>2, <2>3, <2>4, <2>5, <2>7, Carried
    <3>. QED
      BY <2>6, <3>1
  <2>. QED
    BY <1>7, <1>9, <2>1, <2>6, <2>8
<1>14. End' = epoch' + host'.cursor - 1 /\ End' = epoch + from - 1 + n
  <2>1. End' = host.since + (Len(host.got) + n) + (host.lost + lost)
    BY <1>9, <1>13 DEF End
  <2>2. End = host.since + Len(host.got) + host.lost
    BY DEF End
  <2>3. PICK since \in Nat, got \in Nat, sofar \in Nat :
            since = host.since /\ got = Len(host.got) /\ sofar = host.lost
    BY <1>2
  <2>4. End' = End + lost + n
    <3>1. End' = since + (got + n) + (sofar + lost) /\ End = since + got + sofar
      BY <2>1, <2>2, <2>3
    <3>2. lost \in Nat /\ n \in Nat
      BY <1>4, <1>5
    <3>. QED
      BY <3>1, <3>2
  <2>5. PICK c \in Nat : c = host.cursor
    BY <1>2
  <2>6. epoch + c - 1 + lost + n = epoch + from - 1 + n /\ epoch + from - 1 + n = epoch + (from + n) - 1
    <3>1. from = c + lost /\ lost \in Nat /\ n \in Nat /\ epoch \in Nat
      BY <1>1, <1>3, <1>4, <1>5, <2>5
    <3>. QED
      BY <3>1
  <2>7. End' = epoch + from - 1 + n
    BY <1>11, <2>4, <2>5, <2>6
  <2>8. epoch' + host'.cursor - 1 = epoch + (from + n) - 1
    BY <1>1, <1>9, ZenonT(30)
  <2>. QED
    BY <2>6, <2>7, <2>8
<1>15. host' \in Client
  <2>1. PICK got, cursor, gone : got = host.got \o read /\ cursor = from + n /\ gone = host.lost + lost
    OBVIOUS
  <2>2. got \in Seq(Nat)
    BY <1>9, <1>13, <2>1
  <2>3. cursor \in Nat /\ gone \in Nat
    <3>1. from \in Nat /\ n \in Nat /\ host.lost \in Nat /\ lost \in Nat
      BY <1>2, <1>4, <1>5
    <3>. QED
      BY SMTT(30), <2>1, <3>1
  <2>4. PICK x : x = host
    OBVIOUS
  <2>5. x \in Client
    BY <2>4 DEF SessionInv
  <2>6. PICK y : y = [x EXCEPT !.cursor = cursor, !.lost = gone, !.got = got]
    OBVIOUS
  <2>7. y \in Client
    BY <2>2, <2>3, <2>5, <2>6 DEF Client
  <2>8. host' = y
    BY <1>1, <1>6, <2>1, <2>4, <2>6, Zenon
  <2>. QED
    BY <2>7, <2>8
<1>16. host'.cursor <= next'
  <2>1. PICK o \in Nat, k \in Nat : o = Oldest /\ k = ring.count
    BY <1>3
  <2>2. from \in Nat /\ n <= k - (from - o) /\ o = next - k /\ next \in Nat /\ n \in Nat
    BY <1>3, <1>4, <1>5, <2>1
  <2>3. from + n <= next
    BY <2>2
  <2>. QED
    BY <1>1, <1>9, <2>3, Zenon
<1>17. CursorInv'
  BY <1>9, <1>13, <1>14, <1>16 DEF CursorInv
<1>. QED
  BY <1>9, <1>15, <1>17

LEMMA ReadStep ==
    ASSUME DiagInv, ReadResponse
    PROVE  DiagInv'
<1>1. /\ UNCHANGED <<gauges, messages, epoch, gauge, ring, next, session, described, sample, tokens>>
      /\ host.session # 0
  BY DEF ReadResponse, Device
<1>2. RingInv'
  BY <1>1 DEF DiagInv, RingInv, Runs, RecordAt, LogType, Oldest
<1>3. PICK limit \in 1 .. Requests :
        \/ UNCHANGED host
        \/ host' = NewHost
        \/ /\ session = host.session /\ ~(host.cursor > next)
           /\ LET lost  == LostTo(host.cursor)
                  from  == host.cursor + lost
                  start == IF from < Oldest THEN 0 ELSE from - Oldest
                  n     == Packed(start, limit)
              IN  host' = [host EXCEPT !.cursor = from + n, !.lost = @ + lost,
                                       !.got = @ \o [i \in 1 .. n |-> At(start + i - 1).message]]
  BY ZenonT(30) DEF ReadResponse, Refused
<1>4. CASE UNCHANGED host
  BY <1>1, <1>2, <1>4 DEF DiagInv, SessionInv, CursorInv, GaugeInv, End
<1>5. CASE host' = NewHost
  BY <1>1, <1>2, <1>5, FreshHost DEF DiagInv, SessionInv, CursorInv, GaugeInv
<1>6. CASE /\ session = host.session /\ ~(host.cursor > next)
           /\ LET lost  == LostTo(host.cursor)
                  from  == host.cursor + lost
                  start == IF from < Oldest THEN 0 ELSE from - Oldest
                  n     == Packed(start, limit)
              IN  host' = [host EXCEPT !.cursor = from + n, !.lost = @ + lost,
                                       !.got = @ \o [i \in 1 .. n |-> At(start + i - 1).message]]
  <2>1. PICK lost : lost = LostTo(host.cursor)
    OBVIOUS
  <2>2. PICK from : from = host.cursor + lost
    OBVIOUS
  <2>3. PICK start : start = IF from < Oldest THEN 0 ELSE from - Oldest
    OBVIOUS
  <2>4. PICK n : n = Packed(start, limit)
    OBVIOUS
  <2>5. host' = [host EXCEPT !.cursor = from + n, !.lost = @ + lost,
                             !.got = @ \o [i \in 1 .. n |-> At(start + i - 1).message]]
    BY <1>6, <2>1, <2>2, <2>3, <2>4, Zenon
  <2>6. limit \in Nat
    BY <1>3, DiagAssumption
  <2>7. next \in Nat /\ host.cursor \in Nat
    BY DiagConstants DEF DiagInv, RingInv, SessionInv, Client
  <2>8. host.cursor <= next /\ session = host.session /\ host.session # 0
    BY <1>1, <1>6, <2>7
  <2>9. RingInv /\ SessionInv /\ CursorInv /\ Follows(limit, lost, from, start, n)
    BY <1>1, <2>1, <2>2, <2>3, <2>4, <2>5, Zenon DEF DiagInv, Follows
  <2>10. /\ host' \in Client /\ host'.session = host.session /\ host'.gauges = host.gauges
         /\ host'.sampled = host.sampled /\ CursorInv'
    BY <2>6, <2>8, <2>9, FollowStep, Zenon
  <2>. QED
    BY <1>1, <1>2, <2>10 DEF DiagInv, SessionInv, GaugeInv
<1>. QED
  BY <1>3, <1>4, <1>5, <1>6

LEMMA InfoStep ==
    ASSUME DiagInv, InfoResponse
    PROVE  DiagInv'
<1>1. UNCHANGED <<gauges, messages, epoch, gauge, ring, next, sample>> /\ sample = Absent
  BY DEF InfoResponse, Device
<1>2. RingInv'
  BY <1>1 DEF DiagInv, RingInv, Runs, RecordAt, LogType, Oldest
<1>3. PICK token \in {tokens, tokens + 1} \ {0} :
        /\ token <= MaxTokens /\ tokens' = token
        /\ session' = IF session = 0 THEN token ELSE session
        /\ described' = TRUE
        /\ \/ host' = NewHost
           \/ host' = [NewHost EXCEPT !.session = session', !.cursor = Oldest, !.gauges = gauges,
                                      !.since = messages - ring.count]
  BY DEF InfoResponse
<1>4. tokens' \in 0 .. MaxTokens /\ session' \in 0 .. tokens' /\ session' # 0
  BY <1>3, DiagConstants DEF DiagInv, SessionInv
<1>5. CASE host' = NewHost
  BY <1>1, <1>2, <1>3, <1>4, <1>5, FreshHost DEF DiagInv, SessionInv, CursorInv, GaugeInv
<1>6. CASE host' = [NewHost EXCEPT !.session = session', !.cursor = Oldest, !.gauges = gauges,
                                   !.since = messages - ring.count]
  <2>1. /\ ring.count \in Nat /\ next \in Nat /\ ring.count < next /\ epoch \in Nat
        /\ Oldest = next - ring.count /\ messages = epoch + next - 1
    BY DiagConstants DEF DiagInv, RingInv, LogType, Oldest
  <2>2. Oldest \in Nat /\ messages - ring.count \in Nat
    BY <2>1
  <2>3. session' \in Nat /\ gauges \in Nat
    BY <1>4, DiagConstants DEF DiagInv, SessionInv
  <2>4. /\ host' \in Client /\ host'.session = session' /\ host'.cursor = Oldest
        /\ host'.gauges = gauges /\ host'.since = messages - ring.count
        /\ host'.got = <<>> /\ host'.lost = 0 /\ host'.sampled.valid = 0
    <3>1. PICK x : x = NewHost
      OBVIOUS
    <3>2. PICK t, c, g, m : t = session' /\ c = Oldest /\ g = gauges /\ m = messages - ring.count
      OBVIOUS
    <3>3. /\ x \in Client /\ x.got = <<>> /\ x.lost = 0 /\ x.sampled.valid = 0
          /\ t \in Nat /\ c \in Nat /\ g \in Nat /\ m \in Nat
      BY <2>2, <2>3, <3>1, <3>2, FreshHost
    <3>4. PICK y : y = [x EXCEPT !.session = t, !.cursor = c, !.gauges = g, !.since = m]
      OBVIOUS
    <3>5. /\ y \in Client /\ y.session = t /\ y.cursor = c /\ y.gauges = g /\ y.since = m
          /\ y.got = <<>> /\ y.lost = 0 /\ y.sampled.valid = 0
      BY <3>3, <3>4 DEF Client
    <3>6. host' = y
      BY <1>6, <3>1, <3>2, <3>4, Zenon
    <3>. QED
      BY <3>2, <3>5, <3>6
  <2>5. End' = epoch' + host'.cursor - 1
    BY SMTT(30), <1>1, <2>1, <2>4 DEF End
  <2>6. InOrder(host'.got, host'.since, End')
    BY <2>4 DEF InOrder
  <2>7. CursorInv'
    BY SMTT(30), <1>1, <2>1, <2>4, <2>5, <2>6 DEF CursorInv
  <2>. QED
    BY <1>1, <1>2, <1>3, <1>4, <2>4, <2>7 DEF DiagInv, SessionInv, GaugeInv
<1>. QED
  BY <1>3, <1>5, <1>6

LEMMA ValuesBeginStep ==
    ASSUME DiagInv, ValuesBegin
    PROVE  DiagInv'
<1>1. /\ UNCHANGED <<gauges, messages, epoch, gauge, ring, next, session, described, tokens>>
      /\ \/ host' = NewHost /\ UNCHANGED sample
         \/ UNCHANGED host /\ sample' = FirstRead
  BY DEF ValuesBegin, Device, Refused
<1>2. RingInv'
  BY <1>1 DEF DiagInv, RingInv, Runs, RecordAt, LogType, Oldest
<1>3. CASE host' = NewHost /\ UNCHANGED sample
  BY <1>1, <1>2, <1>3, FreshHost DEF DiagInv, SessionInv, CursorInv, GaugeInv
<1>4. CASE UNCHANGED host /\ sample' = FirstRead
  BY <1>1, <1>2, <1>4 DEF DiagInv, SessionInv, CursorInv, GaugeInv, End, FirstRead
<1>. QED
  BY <1>1, <1>3, <1>4

LEMMA ValuesEndStep ==
    ASSUME DiagInv, ValuesEnd
    PROVE  DiagInv'
<1>1. /\ UNCHANGED <<gauges, messages, epoch, gauge, ring, next, session, described, tokens>>
      /\ sample' = Absent /\ sample # Absent
  BY DEF ValuesEnd, Device
<1>2. RingInv'
  BY <1>1 DEF DiagInv, RingInv, Runs, RecordAt, LogType, Oldest
<1>3. /\ sample.valid \in {0, 1} /\ sample.bits = Unread /\ gauge.bits \in {0, 1}
      /\ sample.valid = 1 => gauge.bits = 1
  BY <1>1 DEF DiagInv, GaugeInv
<1>4. host' = [host EXCEPT !.sampled = [valid |-> sample.valid, bits |-> gauge.bits]]
  BY <1>3 DEF ValuesEnd, Unread
<1>5. /\ host' \in Client /\ host'.session = host.session /\ host'.gauges = host.gauges
      /\ host'.cursor = host.cursor /\ host'.got = host.got /\ host'.lost = host.lost
      /\ host'.since = host.since
      /\ host'.sampled.valid = sample.valid /\ host'.sampled.bits = gauge.bits
  BY SMTT(30), <1>3, <1>4 DEF DiagInv, SessionInv, Client
<1>6. CursorInv'
  BY <1>1, <1>5 DEF DiagInv, CursorInv, End
<1>. QED
  BY <1>1, <1>2, <1>3, <1>5, <1>6 DEF DiagInv, SessionInv, GaugeInv

LEMMA DiagInvInit == DiagInit => DiagInv
<1>. SUFFICES ASSUME DiagInit PROVE DiagInv
  OBVIOUS
<1>1. LogType(ring) /\ ring.count = 0 /\ Runs(ring, epoch + Oldest)
  BY EmptyLogRuns DEF DiagInit
<1>2. RingInv
  BY <1>1, DiagConstants DEF DiagInit, RingInv
<1>3. host = NewHost /\ session = 0 /\ tokens = 0 /\ gauges = 0 /\ described = FALSE
      /\ gauge = [bits |-> 0, valid |-> 0] /\ sample = Absent
  BY DEF DiagInit
<1>4. SessionInv
  <2>1. described \in BOOLEAN
    BY <1>3
  <2>2. tokens \in 0 .. MaxTokens /\ session \in 0 .. tokens /\ gauges \in 0 .. KMaxGauges
    BY <1>3, DiagConstants
  <2>3. host \in Client /\ host.session = 0
    BY <1>3, FreshHost
  <2>. QED
    BY <2>1, <2>2, <2>3 DEF SessionInv
<1>5. CursorInv
  BY <1>3, FreshHost DEF CursorInv
<1>6. GaugeInv
  BY <1>3, FreshHost DEF GaugeInv
<1>. QED
  BY <1>2, <1>4, <1>5, <1>6 DEF DiagInv

\* A host that follows the protocol has every record of the log once and in order, or the
\* number of those it lost, whatever answers it does not hear and however the ring overtakes
\* it or the sequence numbers start again; the gauges it was told of stay; and a value
\* reported as valid was published (LogV, InfoResponse, ReadResponse, ValuesResponse).
THEOREM HostsAreNotMisled == DiagSpec => []HostIsNotMisled
<1>1. DiagInv /\ [DiagNext]_diagVars => DiagInv'
  <2>1. ASSUME DiagInv, DiagNext
        PROVE  DiagInv'
    <3>1. CASE Watch
      <4>1. ~described /\ gauges' = gauges + 1 /\ gauges' <= KMaxGauges
            /\ UNCHANGED <<ring, next, session, described, messages, epoch, gauge, sample, tokens, host>>
        BY <2>1, <3>1, DiagConstants DEF Watch, MayWatch, DiagInv, SessionInv
      <4>2. RingInv'
        BY <2>1, <4>1 DEF DiagInv, RingInv, Runs, RecordAt, LogType, Oldest
      <4>. QED
        BY <2>1, <4>1, <4>2, DiagConstants DEF DiagInv, SessionInv, CursorInv, GaugeInv, End
    <3>2. CASE Set
      <4>1. gauge' = [bits |-> 1, valid |-> 1]
            /\ UNCHANGED <<ring, next, session, gauges, described, messages, epoch, sample, tokens, host>>
        BY <3>2 DEF Set
      <4>2. RingInv'
        BY <2>1, <4>1 DEF DiagInv, RingInv, Runs, RecordAt, LogType, Oldest
      <4>. QED
        BY <2>1, <4>1, <4>2 DEF DiagInv, SessionInv, CursorInv, GaugeInv, End
    <3>. QED
      BY <2>1, <3>1, <3>2, LogVStep, LogFailsStep, InfoStep, ReadStep, ValuesBeginStep, ValuesEndStep
         DEF DiagNext
  <2>2. ASSUME DiagInv, UNCHANGED diagVars
        PROVE  DiagInv'
    BY <2>2 DEF diagVars, DiagInv, RingInv, Runs, RecordAt, LogType, Oldest, SessionInv, CursorInv,
                GaugeInv, End
  <2>. QED
    BY <2>1, <2>2
<1>2. DiagInv => HostIsNotMisled
  <2>. SUFFICES ASSUME DiagInv PROVE HostIsNotMisled
    OBVIOUS
  <2>1. DiagTypeOK
    BY DiagConstants DEF DiagInv, RingInv, LogType, SessionInv, DiagTypeOK
  <2>2. FollowedToTheEnd
    BY DEF DiagInv, CursorInv, InOrder, End, FollowedToTheEnd
  <2>3. GaugesStay /\ ValidWasPublished
    BY DEF DiagInv, SessionInv, GaugeInv, GaugesStay, ValidWasPublished
  <2>. QED
    BY <2>1, <2>2, <2>3 DEF HostIsNotMisled
<1>. QED
  BY <1>1, <1>2, DiagInvInit, PTL DEF DiagSpec

-----------------------------------------------------------------------------
(***************************************************************************)
(* The factory calibration.  Answers can be lost here, so that after a     *)
(* failure the expander may have what its shadow has not; but the first    *)
(* failure ends the procedure, and as long as none happened the chips are   *)
(* Settled: shadow and chip agree, and the latch is closed.                *)
(***************************************************************************)
NatCodes == [Channels -> Nat]

WireType(b) ==
    b \in [chip : SUBSET (Lines \cup {Latch}), shadow : SUBSET (Lines \cup {Latch}),
          expander : BOOLEAN, dac : BOOLEAN, unheard : BOOLEAN, in : NatCodes, out : NatCodes]

Settled(b) == WireType(b) /\ b.chip = b.shadow /\ Latch \notin b.chip

LEMMA LatchPasses ==
    ASSUME NEW b, WireType(b)
    PROVE  /\ WireType(Transparent(b))
           /\ Transparent(b).chip = b.chip /\ Transparent(b).shadow = b.shadow
           /\ Transparent(b).in = b.in
           /\ Transparent(b).out = IF Latch \in b.chip THEN b.in ELSE b.out
BY DEF Transparent, WireType

\* A write of the expander takes effect or does not, and the shadow follows if it is heard.
LEMMA LinesWritten ==
    ASSUME NEW b, WireType(b), NEW lines \in SUBSET (Lines \cup {Latch}), NEW r \in WriteReg(b, lines)
    PROVE  /\ WireType(r.bus) /\ r.ok \in BOOLEAN /\ r.bus.in = b.in
           /\ r.bus.chip \in {b.chip, lines}
           /\ r.ok => r.bus.chip = lines /\ r.bus.shadow = lines
           /\ r.ok /\ Latch \in lines => r.bus.out = b.in
           /\ Latch \notin lines => r.bus.out = b.out
<1>. DEFINE w == [b EXCEPT !.chip = lines, !.shadow = lines]
             v == [b EXCEPT !.chip = lines]
<1>1. /\ WireType(w) /\ w.chip = lines /\ w.shadow = lines /\ w.in = b.in /\ w.out = b.out
      /\ WireType(v) /\ v.chip = lines /\ v.in = b.in /\ v.out = b.out
  BY DEF WireType
<1>2. r = Done(Transparent(w)) \/ r = Failed(b) \/ r = Failed(Transparent(v))
  BY Zenon DEF WriteReg
<1>. HIDE DEF w, v
<1>3. CASE r = Done(Transparent(w))
  <2>1. r.ok = TRUE /\ r.bus = Transparent(w)
    BY <1>3, OutcomeFields
  <2>2. /\ WireType(r.bus) /\ r.bus.chip = lines /\ r.bus.shadow = lines /\ r.bus.in = b.in
        /\ r.bus.out = IF Latch \in lines THEN b.in ELSE b.out
    BY <1>1, <2>1, LatchPasses
  <2>. QED
    BY <2>1, <2>2
<1>4. CASE r = Failed(b)
  BY <1>4, OutcomeFields
<1>5. CASE r = Failed(Transparent(v))
  <2>1. r.ok = FALSE /\ r.bus = Transparent(v)
    BY <1>5, OutcomeFields
  <2>2. /\ WireType(r.bus) /\ r.bus.chip = lines /\ r.bus.in = b.in
        /\ r.bus.out = IF Latch \in lines THEN b.in ELSE b.out
    BY <1>1, <2>1, LatchPasses
  <2>. QED
    BY <2>1, <2>2
<1>. QED
  BY <1>2, <1>3, <1>4, <1>5

\* The outcomes of bringing the lines of the expander to those wanted.
LinesSet(b, lines) ==
    IF ~b.expander THEN {Failed(b)} ELSE IF lines = b.shadow THEN {Done(b)} ELSE WriteReg(b, lines)

LEMMA LineSet ==
    ASSUME NEW b, NEW bit
    PROVE  /\ SetOutputBit(b, bit, TRUE) = LinesSet(b, b.shadow \cup {bit})
           /\ SetOutputBit(b, bit, FALSE) = LinesSet(b, b.shadow \ {bit})
BY DEF SetOutputBit, LinesSet

LEMMA LineWritten ==
    ASSUME NEW b, WireType(b), b.chip = b.shadow, NEW lines, lines \in SUBSET (Lines \cup {Latch}),
           NEW r, r \in LinesSet(b, lines)
    PROVE  /\ WireType(r.bus) /\ r.ok \in BOOLEAN /\ r.bus.in = b.in
           /\ r.bus.chip \in {b.chip, lines}
           /\ r.ok => r.bus.chip = lines /\ r.bus.shadow = lines
           /\ r.ok /\ Latch \in lines \ b.chip => r.bus.out = b.in
           /\ Latch \notin lines => r.bus.out = b.out
<1>1. \/ r = Failed(b)
      \/ r = Done(b) /\ lines = b.chip
      \/ r \in WriteReg(b, lines)
  BY DEF LinesSet
<1>2. CASE r = Failed(b)
  BY <1>2, OutcomeFields
<1>3. CASE r = Done(b) /\ lines = b.chip
  BY <1>3, OutcomeFields
<1>4. CASE r \in WriteReg(b, lines)
  BY <1>4, LinesWritten
<1>. QED
  BY <1>1, <1>2, <1>3, <1>4

\* The pulse of the latch touches no jack.
LEMMA LatchPulsed ==
    ASSUME NEW b, Settled(b), NEW r \in PulseLdac(b)
    PROVE  /\ WireType(r.bus) /\ r.ok \in BOOLEAN
           /\ r.bus.chip \cap Lines = b.chip \cap Lines
           /\ r.ok => Settled(r.bus) /\ r.bus.chip = b.chip /\ r.bus.out = b.in
<1>1. \/ r = Failed(b)
      \/ \E q \in SetOutputBit(b, Latch, TRUE) :
            IF q.ok THEN r \in SetOutputBit(q.bus, Latch, FALSE) ELSE r = q
  BY Zenon DEF PulseLdac, Then
<1>2. CASE r = Failed(b)
  BY <1>2, OutcomeFields DEF Settled
<1>3. ASSUME NEW q \in SetOutputBit(b, Latch, TRUE),
             IF q.ok THEN r \in SetOutputBit(q.bus, Latch, FALSE) ELSE r = q
      PROVE  /\ WireType(r.bus) /\ r.ok \in BOOLEAN
             /\ r.bus.chip \cap Lines = b.chip \cap Lines
             /\ r.ok => Settled(r.bus) /\ r.bus.chip = b.chip /\ r.bus.out = b.in
  <2>1. /\ WireType(q.bus) /\ q.ok \in BOOLEAN /\ q.bus.in = b.in
        /\ q.bus.chip \in {b.chip, b.chip \cup {Latch}}
        /\ q.ok => /\ q.bus.chip = b.chip \cup {Latch} /\ q.bus.shadow = b.chip \cup {Latch}
                   /\ q.bus.out = b.in
    <3>1. WireType(b) /\ b.chip = b.shadow /\ Latch \notin b.chip /\ Latch \in Lines \cup {Latch}
      BY DEF Settled
    <3>2. PICK lines : lines = b.chip \cup {Latch}
      OBVIOUS
    <3>3. q \in LinesSet(b, lines) /\ lines \in SUBSET (Lines \cup {Latch})
      <4>1. SetOutputBit(b, Latch, TRUE) = LinesSet(b, lines)
        BY <3>1, <3>2, LineSet
      <4>2. lines \in SUBSET (Lines \cup {Latch})
        BY <3>1, <3>2 DEF WireType
      <4>. QED
        BY <1>3, <4>1, <4>2
    <3>4. /\ WireType(q.bus) /\ q.ok \in BOOLEAN /\ q.bus.in = b.in
          /\ q.bus.chip \in {b.chip, lines}
          /\ q.ok => q.bus.chip = lines /\ q.bus.shadow = lines
          /\ q.ok /\ Latch \in lines \ b.chip => q.bus.out = b.in
      BY <3>1, <3>3, LineWritten
    <3>. QED
      BY <3>1, <3>2, <3>4
  <2>2. CASE ~q.ok
    BY <1>3, <2>1, <2>2, CvConstants DEF Settled
  <2>3. CASE q.ok
    <3>1. r \in SetOutputBit(q.bus, Latch, FALSE) /\ q.bus.chip = q.bus.shadow
      BY <1>3, <2>1, <2>3
    <3>2. PICK lines : lines = q.bus.chip \ {Latch}
      OBVIOUS
    <3>3. Latch \notin b.chip /\ lines = b.chip
      BY <2>1, <2>3, <3>2 DEF Settled
    <3>4. /\ r \in LinesSet(q.bus, lines) /\ lines \in SUBSET (Lines \cup {Latch})
          /\ WireType(q.bus)
      <4>1. SetOutputBit(q.bus, Latch, FALSE) = LinesSet(q.bus, lines)
        BY <3>1, <3>2, LineSet, Zenon
      <4>2. lines \in SUBSET (Lines \cup {Latch})
        BY <2>1, <3>2 DEF WireType
      <4>. QED
        BY <2>1, <3>1, <4>1, <4>2, Zenon
    <3>5. /\ WireType(r.bus) /\ r.ok \in BOOLEAN /\ r.bus.in = q.bus.in
          /\ r.bus.chip \in {q.bus.chip, lines}
          /\ r.ok => r.bus.chip = lines /\ r.bus.shadow = lines
          /\ Latch \notin lines => r.bus.out = q.bus.out
      BY <3>1, <3>4, LineWritten
    <3>. QED
      BY <2>1, <2>3, <3>3, <3>5, CvConstants DEF Settled
  <2>. QED
    BY <2>1, <2>2, <2>3
<1>. QED
  BY <1>1, <1>2, <1>3

\* With the latch closed, the channels' codes go to their registers only.
LEMMA RegistersWritten ==
    ASSUME NEW b, Settled(b), NEW codes \in NatCodes, NEW r \in WriteAll(b, codes)
    PROVE  /\ Settled(r.bus) /\ r.ok \in BOOLEAN /\ r.bus.chip = b.chip
           /\ r.ok => r.bus.in = codes
<1>. DEFINE in(n) == [c \in Channels |-> IF c <= n THEN codes[c] ELSE b.in[c]]
<1>1. ASSUME NEW n \in Nat
      PROVE  /\ Settled(Written(b, codes, n)) /\ Written(b, codes, n).chip = b.chip
             /\ Written(b, codes, n).in = in(n)
  <2>1. PICK x : x = in(n)
    OBVIOUS
  <2>2. x \in NatCodes
    BY <2>1 DEF NatCodes, Settled, WireType
  <2>3. PICK w : w = [b EXCEPT !.in = x]
    OBVIOUS
  <2>4. Settled(w) /\ w.chip = b.chip /\ w.in = x
    BY <2>2, <2>3 DEF Settled, WireType
  <2>5. Written(b, codes, n) = Transparent(w)
    BY <2>1, <2>3 DEF Written
  <2>. QED
    BY <2>1, <2>4, <2>5 DEF Settled, Transparent
<1>2. \/ r = Failed(b)
      \/ r = Done(Written(b, codes, Cardinality(Channels)))
      \/ \E n \in {0} \cup Channels : r = Failed(Written(b, codes, n))
  BY Zenon DEF WriteAll
<1>3. CASE r = Failed(b)
  BY <1>3, OutcomeFields
<1>4. CASE r = Done(Written(b, codes, Cardinality(Channels)))
  <2>1. Cardinality(Channels) \in Nat /\ \A c \in Channels : c <= Cardinality(Channels)
    BY BusAssumption
  <2>2. in(Cardinality(Channels)) = codes
    BY <2>1 DEF NatCodes
  <2>3. r.ok = TRUE /\ r.bus = Written(b, codes, Cardinality(Channels))
    BY <1>4, OutcomeFields
  <2>4. Settled(r.bus) /\ r.bus.chip = b.chip /\ r.bus.in = in(Cardinality(Channels))
    BY <1>1, <2>1, <2>3
  <2>. QED
    BY <2>2, <2>3, <2>4
<1>5. CASE \E n \in {0} \cup Channels : r = Failed(Written(b, codes, n))
  <2>1. PICK n \in {0} \cup Channels : r = Failed(Written(b, codes, n))
    BY <1>5
  <2>2. n \in Nat
    BY CvConstants
  <2>3. r.ok = FALSE /\ r.bus = Written(b, codes, n)
    BY <2>1, OutcomeFields
  <2>4. Settled(r.bus) /\ r.bus.chip = b.chip
    BY <1>1, <2>2, <2>3
  <2>. QED
    BY <2>3, <2>4
<1>. QED
  BY <1>2, <1>3, <1>4, <1>5

\* Where the code of a jack comes from.
DrivenAt(j) == IF j \in Channels THEN cbus.out[j] ELSE stm[j]

StoreOK == WireType(cbus) /\ mcp \in NatCodes /\ stm \in [Lines -> Nat]

LEMMA JackWritten ==
    ASSUME StoreOK, Settled(cbus), NEW j \in Channels, NEW code \in Nat, NEW r \in WriteJackDac(j, code)
    PROVE  /\ WireType(r.bus) /\ r.mcp \in NatCodes /\ r.stm = stm /\ r.ok \in BOOLEAN
           /\ r.bus.chip \cap Lines = cbus.chip \cap Lines
           /\ r.ok => Settled(r.bus) /\ r.bus.chip = cbus.chip /\ r.bus.out[j] = code
<1>1. PICK codes : codes = [mcp EXCEPT ![j] = code]
  OBVIOUS
<1>2. codes \in NatCodes /\ codes[j] = code
  BY <1>1 DEF StoreOK, NatCodes
<1>3. PICK p \in Then(WriteAll(cbus, codes), PulseLdac) :
        r = [ok |-> p.ok, bus |-> p.bus, mcp |-> codes, stm |-> stm]
  BY <1>1, Zenon DEF WriteJackDac, Then
<1>4. PICK q \in WriteAll(cbus, codes) : IF q.ok THEN p \in PulseLdac(q.bus) ELSE p = q
  BY <1>3, Zenon DEF Then
<1>5. /\ Settled(q.bus) /\ q.ok \in BOOLEAN /\ q.bus.chip = cbus.chip
      /\ q.ok => q.bus.in = codes
  <2>1. PICK b : b = cbus
    OBVIOUS
  <2>. QED
    BY <1>2, <1>4, <2>1, RegistersWritten
<1>6. /\ WireType(p.bus) /\ p.ok \in BOOLEAN /\ p.bus.chip \cap Lines = cbus.chip \cap Lines
      /\ p.ok => Settled(p.bus) /\ p.bus.chip = cbus.chip /\ p.bus.out = codes
  <2>1. CASE q.ok
    BY <1>4, <1>5, <2>1, LatchPulsed
  <2>2. CASE ~q.ok
    BY <1>4, <1>5, <2>2 DEF Settled
  <2>. QED
    BY <1>5, <2>1, <2>2
<1>7. r.ok = p.ok /\ r.bus = p.bus /\ r.mcp = codes /\ r.stm = stm
  BY <1>3
<1>. QED
  BY <1>2, <1>6, <1>7

LEMMA StmWritten ==
    ASSUME StoreOK, Settled(cbus), NEW j \in Lines, NEW code \in Nat, NEW r \in WriteStmDac(j, code)
    PROVE  /\ r.bus = cbus /\ r.mcp = mcp /\ r.stm \in [Lines -> Nat] /\ r.ok \in BOOLEAN
           /\ r.ok => r.stm[j] = code
<1>1. \/ r = [ok |-> TRUE, bus |-> cbus, mcp |-> mcp, stm |-> [stm EXCEPT ![j] = code]]
      \/ r = [ok |-> FALSE, bus |-> cbus, mcp |-> mcp, stm |-> stm]
  BY DEF WriteStmDac
<1>2. [stm EXCEPT ![j] = code] \in [Lines -> Nat] /\ [stm EXCEPT ![j] = code][j] = code
  BY DEF StoreOK
<1>3. CASE r.ok
  <2>1. r = [ok |-> TRUE, bus |-> cbus, mcp |-> mcp, stm |-> [stm EXCEPT ![j] = code]]
    BY <1>1, <1>3
  <2>2. PICK y : y = [stm EXCEPT ![j] = code]
    OBVIOUS
  <2>3. r = [ok |-> TRUE, bus |-> cbus, mcp |-> mcp, stm |-> y]
    BY <2>1, <2>2
  <2>. QED
    BY <1>2, <2>2, <2>3
<1>4. CASE ~r.ok
  <2>1. r = [ok |-> FALSE, bus |-> cbus, mcp |-> mcp, stm |-> stm]
    BY <1>1, <1>4
  <2>. QED
    BY <2>1 DEF StoreOK
<1>. QED
  BY <1>3, <1>4

\* What a switch is written to, and what it may be after a failure.
Asked(j, step) == IF step.op = "off" THEN {} ELSE cbus.chip \cup {j}

LEMMA SwitchWritten ==
    ASSUME StoreOK, Settled(cbus), NEW j \in Lines,
           NEW step, step.op = "off" \/ step.op = "connect", NEW r \in Outcomes(j, step),
           NEW lines, lines = Asked(j, step)
    PROVE  /\ WireType(r.bus) /\ r.mcp = mcp /\ r.stm = stm /\ r.ok \in BOOLEAN
           /\ r.bus.chip \in {cbus.chip, lines} /\ r.bus.out = cbus.out
           /\ r.ok => Settled(r.bus) /\ r.bus.chip = lines
<1>1. PICK b : b = cbus
  OBVIOUS
<1>2. /\ b.chip = b.shadow /\ WireType(b) /\ Latch \notin b.chip /\ j # Latch
      /\ Latch \notin lines /\ lines \in SUBSET (Lines \cup {Latch})
  BY <1>1, CvConstants DEF Settled, WireType, Asked
<1>3. CASE step.op = "off"
  <2>1. PICK q \in WriteOutputs(b, {}) : r = [ok |-> q.ok, bus |-> q.bus, mcp |-> mcp, stm |-> stm]
    BY <1>1, <1>3 DEF Outcomes, BusOnly
  <2>2. /\ WireType(q.bus) /\ q.ok \in BOOLEAN
        /\ q.bus.chip \in {b.chip, lines} /\ q.bus.out = b.out
        /\ q.ok => q.bus.chip = lines /\ q.bus.shadow = lines
    <3>1. q = Failed(b) \/ q \in WriteReg(b, lines)
      BY <1>3, <2>1 DEF WriteOutputs, Asked
    <3>2. CASE q = Failed(b)
      BY <1>2, <3>2, OutcomeFields
    <3>3. CASE q \in WriteReg(b, lines)
      BY <1>2, <3>3, LinesWritten
    <3>. QED
      BY <3>1, <3>2, <3>3
  <2>. QED
    BY <1>1, <1>2, <2>1, <2>2 DEF Settled
<1>4. CASE step.op = "connect"
  <2>1. PICK q \in SetOutputBit(b, j, TRUE) : r = [ok |-> q.ok, bus |-> q.bus, mcp |-> mcp, stm |-> stm]
    BY <1>1, <1>4 DEF Outcomes, BusOnly
  <2>2. q \in LinesSet(b, lines)
    <3>1. lines = b.shadow \cup {j}
      BY <1>1, <1>2, <1>4 DEF Asked
    <3>2. SetOutputBit(b, j, TRUE) = LinesSet(b, lines)
      BY <3>1, LineSet
    <3>. QED
      BY <2>1, <3>2
  <2>3. /\ WireType(q.bus) /\ q.ok \in BOOLEAN
        /\ q.bus.chip \in {b.chip, lines} /\ q.bus.out = b.out
        /\ q.ok => q.bus.chip = lines /\ q.bus.shadow = lines
    BY <1>2, <2>2, LineWritten
  <2>. QED
    BY <1>1, <1>2, <2>1, <2>3 DEF Settled
<1>. QED
  BY <1>3, <1>4

LEMMA CodeWritten ==
    ASSUME StoreOK, Settled(cbus), NEW j \in Lines,
           NEW step, step.op = "write", step.code \in Nat, NEW r \in Outcomes(j, step)
    PROVE  /\ WireType(r.bus) /\ r.mcp \in NatCodes /\ r.stm \in [Lines -> Nat] /\ r.ok \in BOOLEAN
           /\ r.bus.chip \cap Lines = cbus.chip \cap Lines
           /\ r.ok => /\ Settled(r.bus) /\ r.bus.chip = cbus.chip
                      /\ (IF j \in Channels THEN r.bus.out[j] ELSE r.stm[j]) = step.code
<1>1. CASE j \in Channels
  <2>1. r \in WriteJackDac(j, step.code)
    BY <1>1 DEF Outcomes
  <2>2. PICK code \in Nat : code = step.code
    OBVIOUS
  <2>3. /\ WireType(r.bus) /\ r.mcp \in NatCodes /\ r.stm = stm /\ r.ok \in BOOLEAN
        /\ r.bus.chip \cap Lines = cbus.chip \cap Lines
        /\ r.ok => Settled(r.bus) /\ r.bus.chip = cbus.chip /\ r.bus.out[j] = code
    BY <1>1, <2>1, <2>2, JackWritten, Zenon
  <2>. QED
    BY <1>1, <2>2, <2>3 DEF StoreOK
<1>2. CASE j \notin Channels
  <2>1. r \in WriteStmDac(j, step.code)
    BY <1>2 DEF Outcomes
  <2>2. PICK code \in Nat : code = step.code
    OBVIOUS
  <2>3. /\ r.bus = cbus /\ r.mcp = mcp /\ r.stm \in [Lines -> Nat] /\ r.ok \in BOOLEAN
        /\ r.ok => r.stm[j] = code
    BY <2>1, <2>2, StmWritten, ZenonT(60)
  <2>. QED
    BY <1>2, <2>2, <2>3 DEF StoreOK
<1>. QED
  BY <1>1, <1>2

-----------------------------------------------------------------------------
(* The list of the instructions                                            *)

Instruction == [op : {"write", "off", "connect", "isolated", "sweep", "verify"}, code : Nat]

\* In a list of pairs, a place is the first or the second of one of them.
LEMMA PairOf ==
    ASSUME NEW n \in Nat, NEW k \in 1 .. 2 * n
    PROVE  \/ /\ k % 2 = 1 /\ (k + 1) \div 2 \in 1 .. n /\ k = 2 * ((k + 1) \div 2) - 1
           \/ /\ k % 2 # 1 /\ k \div 2 \in 1 .. n /\ k = 2 * (k \div 2)
OBVIOUS

LEMMA PairPlace ==
    ASSUME NEW n \in Nat, NEW i \in 1 .. n
    PROVE  /\ 2 * i - 1 \in 1 .. 2 * n /\ (2 * i - 1) % 2 = 1 /\ (2 * i - 1 + 1) \div 2 = i
           /\ 2 * i \in 1 .. 2 * n /\ (2 * i) % 2 # 1 /\ (2 * i) \div 2 = i
OBVIOUS

LEMMA CalConstants ==
    /\ Cardinality(Lines) \in Nat \ {0} /\ Lines = 1 .. Cardinality(Lines) /\ Channels \subseteq Lines
    /\ Probes \in Seq(Nat) /\ Sweep \in Seq(Nat) /\ Targets \in Seq(Nat)
    /\ Len(Probes) \in Nat /\ Len(Sweep) \in Nat /\ Len(Targets) \in Nat
    /\ MinEnd \in Nat \ {0} /\ Neutral \in Nat
BY CalAssumption, CvConstants

Readings == {"isolated", "sweep", "verify"}

\* A block of the list: writes alternate with the readings that judge them.
Alternates(list, codes, readings) ==
    /\ list \in Seq(Instruction) /\ Len(list) = 2 * Len(codes)
    /\ \A k \in 1 .. Len(list) : \/ list[k].op = "write"
                                 \/ /\ k > 1 /\ list[k - 1].op = "write"
                                    /\ \E i \in 1 .. Len(codes) : list[k] = readings[i]
    /\ \A i \in 1 .. Len(codes) : /\ list[2 * i - 1] = [op |-> "write", code |-> codes[i]]
                                  /\ list[2 * i] = readings[i]

Pairs(codes, readings) ==
    [k \in 1 .. 2 * Len(codes) |->
       IF k % 2 = 1 THEN [op |-> "write", code |-> codes[(k + 1) \div 2]] ELSE readings[k \div 2]]

LEMMA BlockAlternates ==
    ASSUME NEW codes \in Seq(Nat), NEW readings \in [1 .. Len(codes) -> Instruction],
           NEW list, list = Pairs(codes, readings)
    PROVE  Alternates(list, codes, readings)
<1>1. PICK n \in Nat : n = Len(codes)
  OBVIOUS
<1>2. \A i \in 1 .. n : codes[i] \in Nat /\ readings[i] \in Instruction
  BY <1>1
<1>3. \A k \in 1 .. 2 * n : list[k] = IF k % 2 = 1 THEN [op |-> "write", code |-> codes[(k + 1) \div 2]]
                                      ELSE readings[k \div 2]
  BY <1>1 DEF Pairs
<1>4. \A i \in 1 .. n : /\ list[2 * i - 1] = [op |-> "write", code |-> codes[i]]
                        /\ list[2 * i] = readings[i]
  BY <1>3, PairPlace
<1>5. ASSUME NEW k \in 1 .. 2 * n
      PROVE  /\ list[k] \in Instruction
             /\ \/ list[k].op = "write"
                \/ /\ k > 1 /\ list[k - 1].op = "write"
                   /\ \E i \in 1 .. n : list[k] = readings[i]
  <2>1. CASE k % 2 = 1
    <3>1. PICK i : i = (k + 1) \div 2
      OBVIOUS
    <3>2. i \in 1 .. n
      BY <2>1, <3>1, PairOf
    <3>3. list[k] = [op |-> "write", code |-> codes[i]]
      BY <1>3, <2>1, <3>1
    <3>. QED
      BY <1>2, <3>2, <3>3 DEF Instruction
  <2>2. CASE k % 2 # 1
    <3>1. PICK i \in 1 .. n : k = 2 * i
      BY <2>2, PairOf
    <3>2. list[k] = readings[i] /\ list[k - 1] = [op |-> "write", code |-> codes[i]] /\ k > 1
      BY <1>4, <3>1
    <3>. QED
      BY <1>2, <3>2
  <2>. QED
    BY <2>1, <2>2
<1>6. list \in [1 .. 2 * n -> Instruction]
  BY <1>1, <1>5 DEF Pairs
<1>7. list \in Seq(Instruction) /\ Len(list) = 2 * n
  <2>1. PICK m \in Nat : m = 2 * n
    OBVIOUS
  <2>. QED
    BY <1>6, <2>1
<1>. QED
  BY <1>1, <1>4, <1>5, <1>7 DEF Alternates

Isolations    == [i \in 1 .. Len(Probes) |-> [op |-> "isolated", code |-> 0]]
Points        == [i \in 1 .. Len(Sweep) |-> [op |-> "sweep", code |-> i]]
Confirmations == [i \in 1 .. Len(Targets) |-> [op |-> "verify", code |-> Targets[i]]]

LEMMA IsolationIs == Alternates(Isolation, Probes, Isolations)
<1>1. PICK n \in Nat : n = Len(Probes)
  BY CalConstants
<1>2. \A k \in 1 .. 2 * n : k % 2 # 1 => Isolations[k \div 2] = Do("isolated")
  BY <1>1, PairOf DEF Isolations, Do
<1>3. Isolation = Pairs(Probes, Isolations)
  BY <1>1, <1>2 DEF Isolation, Code, Pairs
<1>4. Isolations \in [1 .. n -> Instruction]
  BY <1>1 DEF Isolations, Instruction
<1>. QED
  BY <1>1, <1>3, <1>4, CalConstants, BlockAlternates

LEMMA SweptIs == Alternates(Swept, Sweep, Points)
<1>1. PICK n \in Nat : n = Len(Sweep)
  BY CalConstants
<1>2. \A k \in 1 .. 2 * n : k % 2 # 1 => Points[k \div 2] = Code("sweep", k \div 2)
  BY <1>1, PairOf DEF Points, Code
<1>3. Swept = Pairs(Sweep, Points)
  BY <1>1, <1>2 DEF Swept, Code, Pairs
<1>4. Points \in [1 .. n -> Instruction]
  BY <1>1 DEF Points, Instruction
<1>. QED
  BY <1>1, <1>3, <1>4, CalConstants, BlockAlternates

LEMMA VerificationIs == Alternates(Verification, Targets, Confirmations)
<1>1. PICK n \in Nat : n = Len(Targets)
  BY CalConstants
<1>2. \A k \in 1 .. 2 * n : k % 2 # 1 => Confirmations[k \div 2] = Code("verify", Targets[k \div 2])
  BY <1>1, PairOf DEF Confirmations, Code
<1>3. Verification = Pairs(Targets, Confirmations)
  BY <1>1, <1>2 DEF Verification, Code, Pairs
<1>4. Confirmations \in [1 .. n -> Instruction]
  BY <1>1, CalConstants DEF Confirmations, Instruction
<1>. QED
  BY <1>1, <1>3, <1>4, CalConstants, BlockAlternates

\* The list is its blocks, one after the other.
Layout(P, s, t, u, a, b, c) ==
    /\ a \in Nat /\ b \in Nat /\ c \in Nat
    /\ P \in Seq(Instruction) /\ Len(P) = a + b + c + 5
    /\ P[1] = [op |-> "off", code |-> 0]
    /\ \A k \in 1 .. a : P[1 + k] = s[k]
    /\ P[a + 2] = [op |-> "write", code |-> Neutral] /\ P[a + 3] = [op |-> "connect", code |-> 0]
    /\ \A k \in 1 .. b : P[a + 3 + k] = t[k]
    /\ \A k \in 1 .. c : P[a + b + 3 + k] = u[k]
    /\ P[a + b + c + 4] = [op |-> "off", code |-> 0]
    /\ P[a + b + c + 5] = [op |-> "write", code |-> Neutral]

LEMMA ProcedureIs ==
    ASSUME NEW s, NEW t, NEW u, NEW a, NEW b, NEW c,
           s = Isolation, t = Swept, u = Verification, a = Len(s), b = Len(t), c = Len(u)
    PROVE  Layout(Procedure, s, t, u, a, b, c)
<1>1. PICK o, w, l : o = Do("off") /\ w = Code("write", Neutral) /\ l = Do("connect")
  OBVIOUS
<1>2. o \in Instruction /\ w \in Instruction /\ l \in Instruction
  BY <1>1, CalConstants DEF Do, Code, Instruction
<1>4. s \in Seq(Instruction) /\ t \in Seq(Instruction) /\ u \in Seq(Instruction)
  BY IsolationIs, SweptIs, VerificationIs DEF Alternates
<1>5. Len(s) = a /\ Len(t) = b /\ Len(u) = c /\ a \in Nat /\ b \in Nat /\ c \in Nat
  BY <1>4
<1>6. PICK x1 : x1 = <<o>> \o s
  OBVIOUS
<1>7. /\ x1 \in Seq(Instruction) /\ Len(x1) = a + 1 /\ x1[1] = o
      /\ \A k \in 1 .. a : x1[1 + k] = s[k]
  <2>1. <<o>> \in Seq(Instruction) /\ Len(<<o>>) = 1 /\ <<o>>[1] = o
    BY <1>2
  <2>. QED
    BY <1>4, <1>5, <1>6, <2>1, Joined
<1>8. PICK x2 : x2 = x1 \o <<w, l>>
  OBVIOUS
<1>9. /\ x2 \in Seq(Instruction) /\ Len(x2) = a + 3 /\ x2[a + 2] = w /\ x2[a + 3] = l
      /\ \A k \in 1 .. a + 1 : x2[k] = x1[k]
  <2>1. <<w, l>> \in Seq(Instruction) /\ Len(<<w, l>>) = 2 /\ <<w, l>>[1] = w /\ <<w, l>>[2] = l
    BY <1>2
  <2>2. /\ x2 \in Seq(Instruction) /\ Len(x2) = Len(x1) + 2
        /\ \A k \in 1 .. Len(x1) : x2[k] = x1[k]
        /\ \A k \in 1 .. 2 : x2[Len(x1) + k] = <<w, l>>[k]
    BY <1>7, <1>8, <2>1, Joined
  <2>3. x2[a + 1 + 1] = w /\ x2[a + 1 + 2] = l
    BY <1>7, <2>1, <2>2
  <2>. QED
    BY <1>5, <1>7, <2>2, <2>3
<1>10. PICK x3 : x3 = x2 \o t
  OBVIOUS
<1>11. /\ x3 \in Seq(Instruction) /\ Len(x3) = a + b + 3
       /\ \A k \in 1 .. a + 3 : x3[k] = x2[k]
       /\ \A k \in 1 .. b : x3[a + 3 + k] = t[k]
  <2>1. /\ x3 \in Seq(Instruction) /\ Len(x3) = Len(x2) + Len(t)
        /\ \A k \in 1 .. Len(x2) : x3[k] = x2[k]
        /\ \A k \in 1 .. Len(t) : x3[Len(x2) + k] = t[k]
    <3>1. x2 \in Seq(Instruction) /\ t \in Seq(Instruction)
      BY <1>4, <1>9
    <3>. QED
      BY <1>10, <3>1, Joined
  <2>. QED
    BY <1>5, <1>9, <2>1
<1>12. PICK x4 : x4 = x3 \o u
  OBVIOUS
<1>13. /\ x4 \in Seq(Instruction) /\ Len(x4) = a + b + c + 3
       /\ \A k \in 1 .. a + b + 3 : x4[k] = x3[k]
       /\ \A k \in 1 .. c : x4[a + b + 3 + k] = u[k]
  <2>1. /\ x4 \in Seq(Instruction) /\ Len(x4) = Len(x3) + Len(u)
        /\ \A k \in 1 .. Len(x3) : x4[k] = x3[k]
        /\ \A k \in 1 .. Len(u) : x4[Len(x3) + k] = u[k]
    <3>1. x3 \in Seq(Instruction) /\ u \in Seq(Instruction)
      BY <1>4, <1>11
    <3>. QED
      BY <1>12, <3>1, Joined
  <2>. QED
    BY <1>5, <1>11, <2>1
<1>14. PICK x5 : x5 = x4 \o <<o, w>>
  OBVIOUS
<1>15. /\ x5 \in Seq(Instruction) /\ Len(x5) = a + b + c + 5
       /\ \A k \in 1 .. a + b + c + 3 : x5[k] = x4[k]
       /\ x5[a + b + c + 4] = o /\ x5[a + b + c + 5] = w
  <2>1. <<o, w>> \in Seq(Instruction) /\ Len(<<o, w>>) = 2 /\ <<o, w>>[1] = o /\ <<o, w>>[2] = w
    BY <1>2
  <2>2. /\ x5 \in Seq(Instruction) /\ Len(x5) = Len(x4) + 2
        /\ \A k \in 1 .. Len(x4) : x5[k] = x4[k]
        /\ \A k \in 1 .. 2 : x5[Len(x4) + k] = <<o, w>>[k]
    <3>1. x4 \in Seq(Instruction) /\ <<o, w>> \in Seq(Instruction) /\ Len(<<o, w>>) = 2
      BY <1>13, <2>1
    <3>. QED
      BY <1>14, <3>1, Joined
  <2>3. x5[a + b + c + 3 + 1] = o /\ x5[a + b + c + 3 + 2] = w
    BY <1>13, <2>1, <2>2
  <2>. QED
    BY <1>5, <1>13, <2>2, <2>3
<1>16. Procedure = x5
  BY <1>1, <1>6, <1>8, <1>10, <1>12, <1>14, Zenon DEF Procedure
<1>17. \A k \in 1 .. a + 3 : x5[k] = x2[k]
  <2>1. \A k \in 1 .. a + 3 : k \in 1 .. a + b + 3 /\ k \in 1 .. a + b + c + 3
    BY <1>5
  <2>. QED
    BY <1>11, <1>13, <1>15, <2>1
<1>18. x5[1] = o /\ \A k \in 1 .. a : x5[1 + k] = s[k]
  <2>1. x5[1] = o
    BY <1>5, <1>7, <1>9, <1>17
  <2>2. ASSUME NEW k \in 1 .. a
        PROVE  x5[1 + k] = s[k]
    <3>1. PICK i : i = 1 + k
      OBVIOUS
    <3>2. i \in 1 .. a + 1 /\ i \in 1 .. a + 3
      BY <1>5, <3>1
    <3>3. x5[i] = x1[i]
      BY <1>9, <1>17, <3>2
    <3>. QED
      BY <1>7, <3>1, <3>3
  <2>. QED
    BY <2>1, <2>2
<1>19. \A k \in 1 .. b : x5[a + 3 + k] = t[k]
  <2>1. \A k \in 1 .. b : a + 3 + k \in 1 .. a + b + 3 /\ a + 3 + k \in 1 .. a + b + c + 3
    BY <1>5
  <2>. QED
    BY <1>11, <1>13, <1>15, <2>1
<1>20. \A k \in 1 .. c : x5[a + b + 3 + k] = u[k]
  <2>1. \A k \in 1 .. c : a + b + 3 + k \in 1 .. a + b + c + 3
    BY <1>5
  <2>. QED
    BY <1>13, <1>15, <2>1
<1>21. x5[a + 2] = w /\ x5[a + 3] = l
  BY <1>5, <1>9, <1>17
<1>22. /\ o = [op |-> "off", code |-> 0] /\ w = [op |-> "write", code |-> Neutral]
       /\ l = [op |-> "connect", code |-> 0]
  BY <1>1 DEF Do, Code
<1>23. Layout(x5, s, t, u, a, b, c)
  BY <1>5, <1>15, <1>18, <1>19, <1>20, <1>21, <1>22 DEF Layout
<1>. QED
  BY <1>16, <1>23

\* The instruction that connects the jack.
LinkStep == Len(Isolation) + 3

\* Which instruction is where: the jack is connected once, after a write of the neutral code and
\* after the isolation; it is off before that and at the end; each reading judges the write
\* before it.
PlanIs(k) ==
    /\ Procedure[k] \in Instruction
    /\ Procedure[k].op = "off" <=> k = 1 \/ k = Len(Procedure) - 1
    /\ Procedure[k].op = "connect" <=> k = LinkStep
    /\ Procedure[k].op \in Readings => /\ k > 1 /\ Procedure[k - 1].op = "write"
                                       /\ Procedure[k].op = "isolated" <=> k < LinkStep

LEMMA Plan ==
    /\ LinkStep \in Nat /\ Len(Procedure) \in Nat /\ LinkStep > 2 /\ LinkStep + 1 < Len(Procedure)
    /\ \A k \in 1 .. Len(Procedure) : PlanIs(k)
    /\ Procedure[LinkStep - 1] = [op |-> "write", code |-> Neutral]
    /\ Procedure[Len(Procedure)].op = "write"
<1>1. PICK s, t, u : s = Isolation /\ t = Swept /\ u = Verification
  OBVIOUS
<1>2. PICK P : P = Procedure
  OBVIOUS
<1>3. PICK a, b, c : a = Len(s) /\ b = Len(t) /\ c = Len(u)
  OBVIOUS
<1>4. Layout(P, s, t, u, a, b, c)
  BY <1>1, <1>2, <1>3, ProcedureIs
<1>5. \A k \in 1 .. a : \/ s[k].op = "write"
                        \/ k > 1 /\ s[k - 1].op = "write" /\ s[k].op = "isolated"
  BY <1>1, <1>3, IsolationIs DEF Alternates, Isolations
<1>6. \A k \in 1 .. b : \/ t[k].op = "write"
                        \/ k > 1 /\ t[k - 1].op = "write" /\ t[k].op = "sweep"
  BY <1>1, <1>3, SweptIs DEF Alternates, Points
<1>7. \A k \in 1 .. c : \/ u[k].op = "write"
                        \/ k > 1 /\ u[k - 1].op = "write" /\ u[k].op = "verify"
  BY <1>1, <1>3, VerificationIs DEF Alternates, Confirmations
<1>8. LinkStep = a + 3
  BY <1>1, <1>3 DEF LinkStep
<1>9. ASSUME NEW k \in 1 .. Len(P)
      PROVE  PlanIs(k)
  <2>1. P[k] \in Instruction
    BY <1>4 DEF Layout
  <2>2. \/ k = 1 \/ k = a + 2 \/ k = a + 3 \/ k = a + b + c + 4 \/ k = a + b + c + 5
        \/ k - 1 \in 1 .. a \/ k - (a + 3) \in 1 .. b \/ k - (a + b + 3) \in 1 .. c
    BY <1>4 DEF Layout
  <2>3. CASE k = 1 \/ k = a + 2 \/ k = a + 3 \/ k = a + b + c + 4 \/ k = a + b + c + 5
    <3>1. /\ P[1].op = "off" /\ P[a + 2].op = "write" /\ P[a + 3].op = "connect"
          /\ P[a + b + c + 4].op = "off" /\ P[a + b + c + 5].op = "write"
      BY <1>4 DEF Layout
    <3>2. a \in Nat /\ b \in Nat /\ c \in Nat /\ Len(P) = a + b + c + 5
      BY <1>4 DEF Layout
    <3>3. CASE k = 1 \/ k = a + b + c + 4
      <4>1. P[k].op = "off" /\ k # a + 3 /\ (k = 1 \/ k = Len(P) - 1)
        BY <3>1, <3>2, <3>3
      <4>. QED
        BY <1>2, <1>8, <2>1, <4>1 DEF PlanIs, Readings
    <3>4. CASE k = a + 3
      <4>1. P[k].op = "connect" /\ k # 1 /\ k # Len(P) - 1
        BY <3>1, <3>2, <3>4
      <4>. QED
        BY <1>2, <1>8, <2>1, <3>4, <4>1 DEF PlanIs, Readings
    <3>5. CASE k = a + 2 \/ k = a + b + c + 5
      <4>1. P[k].op = "write" /\ k # 1 /\ k # Len(P) - 1 /\ k # a + 3
        BY <3>1, <3>2, <3>5
      <4>. QED
        BY <1>2, <1>8, <2>1, <4>1 DEF PlanIs, Readings
    <3>. QED
      BY <2>3, <3>3, <3>4, <3>5
  <2>4. CASE k - 1 \in 1 .. a
    <3>1. PICK i \in 1 .. a : k = 1 + i
      BY <1>4, <2>4 DEF Layout
    <3>2. P[k] = s[i] /\ (i > 1 => P[k - 1] = s[i - 1])
      <4>1. i > 1 => i - 1 \in 1 .. a /\ k - 1 = 1 + (i - 1)
        BY <1>4, <3>1 DEF Layout
      <4>. QED
        BY <1>4, <3>1, <4>1 DEF Layout
    <3>3. k > 1 /\ k < a + 3 /\ k # a + b + c + 4
      BY <1>4, <3>1 DEF Layout
    <3>. QED
      BY <1>2, <1>4, <1>5, <1>8, <2>1, <3>1, <3>2, <3>3 DEF Layout, PlanIs, Readings
  <2>5. CASE k - (a + 3) \in 1 .. b
    <3>1. PICK i \in 1 .. b : k = a + 3 + i
      BY <1>4, <2>5 DEF Layout
    <3>2. P[k] = t[i] /\ (i > 1 => P[k - 1] = t[i - 1])
      <4>1. i > 1 => i - 1 \in 1 .. b /\ k - 1 = a + 3 + (i - 1)
        BY <1>4, <3>1 DEF Layout
      <4>. QED
        BY <1>4, <3>1, <4>1 DEF Layout
    <3>3. k > 1 /\ k > a + 3 /\ k # a + b + c + 4
      BY <1>4, <3>1 DEF Layout
    <3>. QED
      BY <1>2, <1>4, <1>6, <1>8, <2>1, <3>1, <3>2, <3>3 DEF Layout, PlanIs, Readings
  <2>6. CASE k - (a + b + 3) \in 1 .. c
    <3>1. PICK i \in 1 .. c : k = a + b + 3 + i
      BY <1>4, <2>6 DEF Layout
    <3>2. P[k] = u[i] /\ (i > 1 => P[k - 1] = u[i - 1])
      <4>1. i > 1 => i - 1 \in 1 .. c /\ k - 1 = a + b + 3 + (i - 1)
        BY <1>4, <3>1 DEF Layout
      <4>. QED
        BY <1>4, <3>1, <4>1 DEF Layout
    <3>3. k > 1 /\ k > a + 3 /\ k # a + b + c + 4
      BY <1>4, <3>1 DEF Layout
    <3>. QED
      BY <1>2, <1>4, <1>7, <1>8, <2>1, <3>1, <3>2, <3>3 DEF Layout, PlanIs, Readings
  <2>. QED
    BY <2>2, <2>3, <2>4, <2>5, <2>6
<1>. QED
  <2>1. /\ a \in Nat /\ b \in Nat /\ c \in Nat /\ Len(P) = a + b + c + 5
        /\ P[a + 2] = [op |-> "write", code |-> Neutral]
        /\ P[a + b + c + 5] = [op |-> "write", code |-> Neutral]
    BY <1>4 DEF Layout
  <2>2. LinkStep \in Nat /\ Len(P) \in Nat /\ LinkStep > 2 /\ LinkStep + 1 < Len(P)
        /\ LinkStep - 1 = a + 2
    <3>1. a \in Nat /\ b \in Nat /\ c \in Nat /\ Len(P) = a + b + c + 5
      BY <2>1
    <3>. QED
      BY <1>8, <3>1
  <2>. QED
    BY SMTT(30), <1>2, <1>9, <2>1, <2>2

\* Every jack is probed while it is off, is read at the first point of the sweep, and the others are
\* read at a point that is not neutral.
LEMMA PlanChecks ==
    /\ \E k \in 2 .. Len(Procedure) - 1 :
         Procedure[k].op = "isolated" /\ Procedure[k - 1].code # Neutral
    /\ \E k \in 2 .. Len(Procedure) - 1 : Procedure[k].op = "sweep" /\ Procedure[k].code = 1
    /\ \E k \in 2 .. Len(Procedure) - 1 :
         Procedure[k].op = "sweep" /\ Procedure[k].code \in Crosses /\ Procedure[k - 1].code # Neutral
<1>1. PICK s, t, u : s = Isolation /\ t = Swept /\ u = Verification
  OBVIOUS
<1>2. PICK P : P = Procedure
  OBVIOUS
<1>3. PICK a, b, c : a = Len(s) /\ b = Len(t) /\ c = Len(u)
  OBVIOUS
<1>4. Layout(P, s, t, u, a, b, c)
  BY <1>1, <1>2, <1>3, ProcedureIs
<1>5. PICK n, m : n = Len(Probes) /\ m = Len(Sweep)
  OBVIOUS
<1>6. n \in Nat /\ m \in Nat /\ a = 2 * n /\ b = 2 * m
  BY <1>1, <1>3, <1>5, CalConstants, IsolationIs, SweptIs DEF Alternates
<1>7. \A i \in 1 .. n : s[2 * i - 1] = [op |-> "write", code |-> Probes[i]] /\ s[2 * i].op = "isolated"
  BY <1>1, <1>5, IsolationIs DEF Alternates, Isolations
<1>8. \A i \in 1 .. m : /\ t[2 * i - 1] = [op |-> "write", code |-> Sweep[i]]
                        /\ t[2 * i] = [op |-> "sweep", code |-> i]
  <2>1. Alternates(t, Sweep, Points)
    BY <1>1, SweptIs
  <2>2. \A i \in 1 .. m : Points[i] = [op |-> "sweep", code |-> i]
    BY <1>5 DEF Points
  <2>3. \A i \in 1 .. m : /\ t[2 * i - 1] = [op |-> "write", code |-> Sweep[i]]
                          /\ t[2 * i] = Points[i]
    BY <1>5, <2>1 DEF Alternates
  <2>. QED
    BY <2>2, <2>3, Zenon
<1>9. ASSUME NEW i \in 1 .. n
      PROVE  /\ 1 + 2 * i \in 2 .. Len(P) - 1
             /\ P[1 + 2 * i].op = "isolated" /\ P[1 + 2 * i - 1].code = Probes[i]
  <2>1. PICK x, y : x = 2 * i /\ y = 2 * i - 1
    OBVIOUS
  <2>2. x \in 1 .. a /\ y \in 1 .. a /\ 1 + 2 * i - 1 = 1 + y
    BY <1>6, <2>1
  <2>3. /\ \A k \in 1 .. a : P[1 + k] = s[k]
        /\ a \in Nat /\ b \in Nat /\ c \in Nat /\ Len(P) = a + b + c + 5
    BY <1>4 DEF Layout
  <2>4. P[1 + x] = s[x] /\ P[1 + y] = s[y] /\ 1 + x \in 2 .. Len(P) - 1
    BY <2>2, <2>3
  <2>5. s[x].op = "isolated" /\ s[y].code = Probes[i]
    <3>1. s[2 * i - 1] = [op |-> "write", code |-> Probes[i]] /\ s[2 * i].op = "isolated"
      BY <1>7, Zenon
    <3>. QED
      BY <2>1, <3>1
  <2>. QED
    BY <2>1, <2>2, <2>4, <2>5
<1>10. ASSUME NEW i \in 1 .. m
       PROVE  /\ a + 3 + 2 * i \in 2 .. Len(P) - 1
              /\ P[a + 3 + 2 * i].op = "sweep" /\ P[a + 3 + 2 * i].code = i
              /\ P[a + 3 + 2 * i - 1].code = Sweep[i]
  <2>1. PICK x, y : x = 2 * i /\ y = 2 * i - 1
    OBVIOUS
  <2>2. /\ \A k \in 1 .. b : P[a + 3 + k] = t[k]
        /\ a \in Nat /\ b \in Nat /\ c \in Nat /\ Len(P) = a + b + c + 5
    BY <1>4 DEF Layout
  <2>3. x \in 1 .. b /\ y \in 1 .. b /\ a + 3 + 2 * i - 1 = a + 3 + y
    BY <1>6, <2>1, <2>2
  <2>4. P[a + 3 + x] = t[x] /\ P[a + 3 + y] = t[y] /\ a + 3 + x \in 2 .. Len(P) - 1
    <3>1. P[a + 3 + x] = t[x]
      BY <2>2, <2>3, Zenon
    <3>2. P[a + 3 + y] = t[y]
      BY <2>2, <2>3, Zenon
    <3>3. x \in Nat /\ y \in Nat /\ x >= 1 /\ x <= b /\ a \in Nat /\ b \in Nat /\ c \in Nat /\ Len(P) = a + b + c + 5
      BY <2>2, <2>3
    <3>4. a + 3 + x \in 2 .. Len(P) - 1
      BY <3>3
    <3>. QED
      BY <3>1, <3>2, <3>4
  <2>5. t[x].op = "sweep" /\ t[x].code = i /\ t[y].code = Sweep[i]
    <3>1. t[2 * i - 1] = [op |-> "write", code |-> Sweep[i]] /\ t[2 * i] = [op |-> "sweep", code |-> i]
      BY <1>8, Zenon
    <3>. QED
      BY <2>1, <3>1
  <2>. QED
    BY <2>1, <2>3, <2>4, <2>5
<1>11. PICK i \in 1 .. n : Probes[i] # Neutral
  BY <1>5, CalAssumption
<1>12. 1 \in 1 .. m
  BY <1>5, <1>6, CalAssumption
<1>13. PICK x \in 1 .. m : x \in Crosses /\ Sweep[x] # Neutral
  BY <1>5, CalAssumption
<1>14. \E k \in 2 .. Len(P) - 1 : P[k].op = "isolated" /\ P[k - 1].code # Neutral
  BY <1>9, <1>11
<1>15. \E k \in 2 .. Len(P) - 1 : P[k].op = "sweep" /\ P[k].code = 1
  BY <1>10, <1>12
<1>16. \E k \in 2 .. Len(P) - 1 : P[k].op = "sweep" /\ P[k].code \in Crosses /\ P[k - 1].code # Neutral
  <2>1. /\ a + 3 + 2 * x \in 2 .. Len(P) - 1
        /\ P[a + 3 + 2 * x].op = "sweep" /\ P[a + 3 + 2 * x].code = x
        /\ P[a + 3 + 2 * x - 1].code = Sweep[x]
    BY <1>10
  <2>2. a \in Nat /\ x \in Nat
    BY <1>4, <1>6 DEF Layout
  <2>3. PICK k : k = a + 3 + 2 * x
    OBVIOUS
  <2>4. k \in 2 .. Len(P) - 1 /\ P[k].op = "sweep" /\ P[k].code = x /\ P[k - 1].code = Sweep[x]
    <3>1. k - 1 = a + 3 + 2 * x - 1
      BY <2>2, <2>3
    <3>. QED
      BY <2>1, <2>3, <3>1, Zenon
  <2>. QED
    BY <1>13, <2>4
<1>. QED
  BY <1>2, <1>14, <1>15, <1>16

-----------------------------------------------------------------------------
(* The inductive invariant of the calibration                              *)

Linked(j, s) == IF LinkStep < s /\ s < Len(Procedure) THEN {j} ELSE {}

\* What an instruction shows that the board does not have, if the jack passed it.
Excludes(j, k) ==
    /\ Procedure[k].op = "isolated" /\ Procedure[k - 1].code # Neutral => defect # <<"closed", j>>
    /\ Procedure[k].op = "sweep" /\ Procedure[k].code = 1 =>
         defect # <<"open", j>> /\ defect # <<"stuck", j>>
    /\ Procedure[k].op = "sweep" /\ Procedure[k].code \in Crosses /\ Procedure[k - 1].code # Neutral =>
         \A i \in Lines : defect # <<"short", j, i>>

RuledOut(j, s) == \A k \in 2 .. s - 1 : Excludes(j, k)

\* What it cannot have once the jack is verified.
Cleared(j) ==
    /\ defect # <<"closed", j>> /\ defect # <<"open", j>> /\ defect # <<"stuck", j>>
    /\ \A i \in Lines : defect # <<"short", j, i>>

\* While the procedure runs, no transfer has failed: switches, codes and verified jacks are as
\* far as the instruction says.
RunInv ==
    /\ instr.jack \in Lines /\ instr.step \in 1 .. Len(Procedure)
    /\ Settled(cbus) /\ cbus.chip = Linked(instr.jack, instr.step)
    /\ instr.step > 1 /\ Procedure[instr.step - 1].op = "write" =>
         DrivenAt(instr.jack) = Procedure[instr.step - 1].code
    /\ verified = 1 .. instr.jack - 1
    /\ RuledOut(instr.jack, instr.step)

BoardOK == defect \in Defects /\ \A i \in Lines : defect # <<"short", i, i>>

Persisting == {"persist", "erase", "write", "verify", "restore", "done"}

RecordInv ==
    /\ verified \subseteq Lines
    /\ \A j \in verified : Cleared(j)
    /\ instr.at \in Persisting => verified = Lines
    /\ flash = "new" => verified = Lines
    /\ loaded = "new" => verified = Lines

CalIInv ==
    /\ StoreOK
    /\ BoardOK
    /\ \E j \in Lines : cbus.chip \cap Lines \subseteq {j}
    /\ instr.at = "run" => RunInv
    /\ RecordInv

\* A switch that closes in this step.
Staged == \A j \in (cbus'.chip \ cbus.chip) \cap Lines :
             (IF j \in Channels THEN cbus'.out[j] ELSE stm'[j]) = Neutral

CalKept == CalIInv' /\ Staged

LEMMA PassedSoFar ==
    ASSUME NEW j, NEW s \in Nat, RuledOut(j, s), Excludes(j, s)
    PROVE  RuledOut(j, s + 1)
<1>1. PICK x : x = s + 1
  OBVIOUS
<1>2. ASSUME NEW k \in 2 .. x - 1
      PROVE  Excludes(j, k)
  <2>1. k \in 2 .. s - 1 \/ k = s
    BY <1>1
  <2>. QED
    BY <2>1 DEF RuledOut
<1>. QED
  BY <1>1, <1>2 DEF RuledOut

LEMMA Passed ==
    ASSUME NEW j \in Lines, RuledOut(j, Len(Procedure))
    PROVE  Cleared(j)
<1>1. Len(Procedure) \in Nat
  BY Plan
<1>2. PICK k \in 2 .. Len(Procedure) - 1 : Procedure[k].op = "isolated" /\ Procedure[k - 1].code # Neutral
  BY PlanChecks
<1>3. PICK l \in 2 .. Len(Procedure) - 1 : Procedure[l].op = "sweep" /\ Procedure[l].code = 1
  BY PlanChecks
<1>4. PICK m \in 2 .. Len(Procedure) - 1 :
        Procedure[m].op = "sweep" /\ Procedure[m].code \in Crosses /\ Procedure[m - 1].code # Neutral
  BY PlanChecks
<1>5. defect # <<"closed", j>>
  BY <1>2 DEF RuledOut, Excludes
<1>6. defect # <<"open", j>> /\ defect # <<"stuck", j>>
  BY <1>3 DEF RuledOut, Excludes
<1>7. \A i \in Lines : defect # <<"short", j, i>>
  BY <1>4 DEF RuledOut, Excludes
<1>. QED
  BY <1>5, <1>6, <1>7 DEF Cleared

\* A reading that is accepted rules out what it is there for.
LEMMA ReadingJudges ==
    ASSUME StoreOK, BoardOK, NEW j \in Lines, NEW step \in Instruction, step.op \in Readings,
           NEW code \in Nat, DrivenAt(j) = code, GoodReading(j, step),
           step.op = "sweep" => cbus.chip = {j}
    PROVE  /\ step.op = "isolated" /\ code # Neutral => defect # <<"closed", j>>
           /\ step.op = "sweep" /\ step.code = 1 => defect # <<"open", j>> /\ defect # <<"stuck", j>>
           /\ step.op = "sweep" /\ step.code \in Crosses /\ code # Neutral =>
                \A i \in Lines : defect # <<"short", j, i>>
<1>0. /\ Neutral \in Nat /\ MinEnd \in Nat \ {0}
      /\ code # Neutral => Neutral - code # 0
  BY CalConstants
<1>1. defect # <<"stuck", j>> => CodeOf(j) = code
  BY DEF CodeOf, DrivenAt
<1>2. ASSUME step.op = "isolated", code # Neutral, defect = <<"closed", j>>
      PROVE  FALSE
  <2>1. Reading(j) = 0
    BY <1>2 DEF GoodReading, Isolated
  <2>2. defect # <<"stuck", j>> /\ Closed(j)
    BY <1>2 DEF Closed
  <2>. QED
    BY <1>0, <1>1, <1>2, <2>1, <2>2 DEF Reading
<1>3. ASSUME step.op = "sweep", step.code = 1
      PROVE  Reading(j) >= MinEnd
  <2>1. GoodPoint(j, 1)
    BY <1>3 DEF GoodReading
  <2>. QED
    BY <2>1 DEF GoodPoint
<1>4. ASSUME step.op = "sweep", step.code = 1, defect = <<"open", j>>
      PROVE  FALSE
  <2>1. ~Closed(j) /\ {i \in Lines : Closed(i) /\ defect = <<"short", i, j>>} = {}
    BY <1>4 DEF Closed
  <2>2. Reading(j) = 0
    BY <2>1 DEF Reading
  <2>. QED
    BY <1>0, <1>3, <1>4, <2>2
<1>5. ASSUME step.op = "sweep", step.code = 1, defect = <<"stuck", j>>
      PROVE  FALSE
  <2>1. j \in cbus.chip /\ defect # <<"open", j>>
    BY <1>5
  <2>2. Closed(j) /\ CodeOf(j) = Neutral + 1
    BY <1>5, <2>1 DEF Closed, CodeOf
  <2>3. Reading(j) = -1
    BY <1>0, <2>2 DEF Reading
  <2>. QED
    BY <1>0, <1>3, <1>5, <2>3
<1>6. ASSUME step.op = "sweep", step.code \in Crosses, code # Neutral,
             NEW i \in Lines, defect = <<"short", j, i>>
      PROVE  FALSE
  <2>1. i # j
    BY <1>6 DEF BoardOK
  <2>2. GoodPoint(j, step.code)
    BY <1>6 DEF GoodReading
  <2>3. Reading(i) = 0
    BY <1>6, <2>1, <2>2 DEF GoodPoint
  <2>4. j \in cbus.chip /\ i \notin cbus.chip
    BY <1>6, <2>1
  <2>5. Closed(j) /\ ~Closed(i) /\ defect # <<"stuck", j>>
    BY <1>6, <2>4 DEF Closed
  <2>6. PICK S : S = {x \in Lines : Closed(x) /\ defect = <<"short", x, i>>}
    OBVIOUS
  <2>7. S = {j}
    BY <1>6, <2>5, <2>6
  <2>8. Reading(i) = Neutral - CodeOf(CHOOSE x \in S : TRUE)
    BY <2>5, <2>6, <2>7 DEF Reading
  <2>9. (CHOOSE x \in S : TRUE) = j
    BY <2>7
  <2>. QED
    BY <1>0, <1>1, <1>6, <2>3, <2>5, <2>8, <2>9
<1>. QED
  BY <1>2, <1>4, <1>5, <1>6

LEMMA CalInitHolds == CalInit => CalIInv
<1>. SUFFICES ASSUME CalInit PROVE CalIInv
  OBVIOUS
<1>. DEFINE rest == [c \in Channels |-> Neutral]
<1>1. PICK u \in BOOLEAN, o \in [Channels -> Codes] :
        cbus = [chip |-> {}, shadow |-> {}, expander |-> TRUE, dac |-> TRUE, unheard |-> u,
                in |-> rest, out |-> o]
  <2>1. cbus \in Buses /\ cbus.expander /\ cbus.dac
    BY DEF CalInit
  <2>2. PICK e \in BOOLEAN, d \in BOOLEAN, u \in BOOLEAN, o \in [Channels -> Codes] :
          cbus = [chip |-> {}, shadow |-> {}, expander |-> e, dac |-> d, unheard |-> u,
                  in |-> rest, out |-> o]
    BY <2>1 DEF Buses
  <2>. QED
    BY <2>1, <2>2
<1>2. rest \in NatCodes /\ o \in NatCodes
  BY CalConstants, BusAssumption DEF NatCodes
<1>. HIDE DEF rest
<1>3. WireType(cbus) /\ cbus.chip = {} /\ cbus.shadow = {}
  BY <1>1, <1>2 DEF WireType
<1>4. StoreOK
  BY <1>3, CalConstants DEF CalInit, StoreOK, NatCodes
<1>5. BoardOK
  BY DEF CalInit, BoardOK
<1>6. 1 \in Lines /\ \E j \in Lines : cbus.chip \cap Lines \subseteq {j}
  BY <1>3, CalConstants
<1>7. instr.at = "run" /\ instr.jack = 1 /\ instr.step = 1 /\ verified = {}
      /\ flash # "new" /\ loaded = "none"
  BY DEF CalInit
<1>8. RunInv
  <2>1. 1 \in 1 .. Len(Procedure) /\ Linked(1, 1) = {} /\ RuledOut(1, 1) /\ 1 .. 1 - 1 = {}
    BY Plan DEF Linked, RuledOut
  <2>2. Settled(cbus)
    BY <1>3 DEF Settled
  <2>. QED
    BY <1>3, <1>6, <1>7, <2>1, <2>2 DEF RunInv
<1>9. RecordInv
  BY <1>7 DEF RecordInv, Persisting
<1>. QED
  BY <1>4, <1>5, <1>6, <1>8, <1>9 DEF CalIInv

-----------------------------------------------------------------------------
(* The steps of the calibration                                            *)

\* An instruction that writes: what it leaves if it succeeds, and what it never leaves.
LEMMA InstructionDone ==
    ASSUME StoreOK, RunInv, NEW j, j = instr.jack, NEW s, s = instr.step,
           NEW step, step = Procedure[s], step.op \in Writes, NEW r \in Outcomes(j, step)
    PROVE  /\ WireType(r.bus) /\ r.mcp \in NatCodes /\ r.stm \in [Lines -> Nat] /\ r.ok \in BOOLEAN
           /\ r.bus.chip \cap Lines \subseteq {j}
           /\ \A i \in (r.bus.chip \ cbus.chip) \cap Lines :
                 (IF i \in Channels THEN r.bus.out[i] ELSE r.stm[i]) = Neutral
           /\ r.ok => /\ Settled(r.bus)
                      /\ r.bus.chip = Linked(j, s + 1)
                      /\ step.op = "write" =>
                           (IF j \in Channels THEN r.bus.out[j] ELSE r.stm[j]) = step.code
<1>1. PICK n : n = Len(Procedure)
  OBVIOUS
<1>2. /\ j \in Lines /\ s \in 1 .. n /\ n \in Nat /\ LinkStep \in Nat
      /\ LinkStep > 2 /\ LinkStep + 1 < n /\ PlanIs(s) /\ step \in Instruction
  BY <1>1, Plan DEF RunInv, PlanIs
<1>3. Settled(cbus) /\ cbus.chip = Linked(j, s) /\ cbus.chip \subseteq {j}
  BY DEF RunInv, Linked
<1>4. CASE step.op = "write"
  <2>1. Linked(j, s + 1) = Linked(j, s)
    <3>1. s # LinkStep /\ s # n - 1
      BY <1>1, <1>2, <1>4 DEF PlanIs
    <3>2. LinkStep < s + 1 <=> LinkStep < s
      BY <1>2, <3>1
    <3>3. CASE s < n
      <4>1. s + 1 < n
        BY <1>2, <3>1, <3>3
      <4>. QED
        BY <1>1, <3>2, <3>3, <4>1 DEF Linked
    <3>4. CASE ~(s < n)
      <4>1. ~(s + 1 < n)
        BY <1>2, <3>4
      <4>. QED
        BY <1>1, <3>4, <4>1 DEF Linked
    <3>. QED
      BY <3>3, <3>4
  <2>2. step.code \in Nat
    BY <1>2 DEF Instruction
  <2>3. /\ WireType(r.bus) /\ r.mcp \in NatCodes /\ r.stm \in [Lines -> Nat] /\ r.ok \in BOOLEAN
        /\ r.bus.chip \cap Lines = cbus.chip \cap Lines
        /\ r.ok => /\ Settled(r.bus) /\ r.bus.chip = cbus.chip
                   /\ (IF j \in Channels THEN r.bus.out[j] ELSE r.stm[j]) = step.code
    BY <1>2, <1>3, <1>4, <2>2, CodeWritten
  <2>. QED
    BY <1>3, <2>1, <2>3
<1>5. CASE step.op = "off" \/ step.op = "connect"
  <2>1. PICK lines : lines = Asked(j, step)
    OBVIOUS
  <2>2. /\ WireType(r.bus) /\ r.mcp = mcp /\ r.stm = stm /\ r.ok \in BOOLEAN
        /\ r.bus.chip \in {cbus.chip, lines} /\ r.bus.out = cbus.out
        /\ r.ok => Settled(r.bus) /\ r.bus.chip = lines
    BY <1>2, <1>3, <1>5, <2>1, SwitchWritten
  <2>3. lines = Linked(j, s + 1)
    <3>1. CASE step.op = "off"
      <4>1. s = 1 \/ s = n - 1
        BY <1>1, <1>2, <3>1 DEF PlanIs
      <4>2. ~(LinkStep < s + 1 /\ s + 1 < n)
        BY <1>2, <4>1
      <4>. QED
        BY <1>1, <2>1, <3>1, <4>2 DEF Linked, Asked
    <3>2. CASE step.op = "connect"
      <4>1. s = LinkStep
        BY <1>2, <3>2 DEF PlanIs
      <4>2. LinkStep < s + 1 /\ s + 1 < n /\ ~(LinkStep < s)
        BY <1>2, <4>1
      <4>. QED
        BY <1>1, <1>3, <2>1, <3>2, <4>2 DEF Linked, Asked
    <3>. QED
      BY <1>5, <3>1, <3>2
  <2>4. lines \subseteq {j}
    BY <1>3, <2>1 DEF Asked
  <2>5. ASSUME NEW i \in (r.bus.chip \ cbus.chip) \cap Lines
        PROVE  (IF i \in Channels THEN r.bus.out[i] ELSE r.stm[i]) = Neutral
    <3>1. i = j /\ step.op = "connect"
      BY <1>3, <1>5, <2>1, <2>2, <2>5 DEF Asked
    <3>2. s = LinkStep
      BY <1>2, <3>1 DEF PlanIs
    <3>3. Procedure[s - 1] = [op |-> "write", code |-> Neutral] /\ s > 1
      BY <1>2, <3>2, Plan
    <3>4. DrivenAt(j) = Neutral
      BY <3>3 DEF RunInv
    <3>. QED
      BY <2>2, <3>1, <3>4 DEF DrivenAt
  <2>. QED
    BY <1>3, <1>5, <2>2, <2>3, <2>4, <2>5 DEF StoreOK
<1>. QED
  BY <1>4, <1>5 DEF Writes

\* To the next instruction: all of the invariant but what the step itself brought.
LEMMA Advanced ==
    ASSUME RunInv, RecordInv, BoardOK, UNCHANGED <<defect, flash, loaded>>, StoreOK', Advance,
           NEW j, j = instr.jack, NEW s, s = instr.step, NEW step, step = Procedure[s],
           Settled(cbus)', cbus'.chip = Linked(j, s + 1), RuledOut(j, s + 1),
           step.op = "write" => DrivenAt(j)' = step.code,
           verified' = IF s = Len(Procedure) THEN verified \cup {j} ELSE verified
    PROVE  CalIInv'
<1>1. PICK n, c : n = Len(Procedure) /\ c = Cardinality(Lines)
  OBVIOUS
<1>2. /\ s \in 1 .. n /\ n \in Nat /\ LinkStep \in Nat /\ LinkStep > 2 /\ LinkStep + 1 < n
      /\ c \in Nat \ {0} /\ Lines = 1 .. c /\ j \in 1 .. c /\ verified = 1 .. j - 1
  BY <1>1, Plan, CalConstants DEF RunInv
<1>3. BoardOK'
  BY DEF BoardOK
<1>4. \E i \in Lines : cbus'.chip \cap Lines \subseteq {i}
  BY <1>1, <1>2 DEF Linked
<1>5. /\ flash' = "new" => flash = "new"
      /\ loaded' = "new" => loaded = "new"
  OBVIOUS
<1>6. ASSUME NEW i, Cleared(i)
      PROVE  Cleared(i)'
  BY <1>6 DEF Cleared
<1>7. CASE s < n
  <2>1. instr' = [at |-> "run", jack |-> j, step |-> s + 1]
    BY <1>1, <1>7 DEF Advance, GoTo
  <2>2. verified' = verified
    BY <1>1, <1>2, <1>7
  <2>3. RunInv'
    <3>1. instr'.jack = j /\ instr'.step = s + 1 /\ s + 1 \in 1 .. n
      <4>1. s \in Nat /\ n \in Nat /\ s < n
        BY <1>2, <1>7
      <4>2. s + 1 \in 1 .. n
        BY <4>1
      <4>. QED
        BY <2>1, <4>2
    <3>2. RuledOut(j, s + 1)'
      BY <1>1 DEF RuledOut, Excludes
    <3>3. Linked(j, s + 1)' = Linked(j, s + 1)
      BY DEF Linked
    <3>4. PICK x : x = s + 1
      OBVIOUS
    <3>5. instr'.jack \in Lines /\ instr'.step \in 1 .. Len(Procedure) /\ instr'.step = x
          /\ instr'.jack = j /\ x - 1 = s
      <4>1. s \in Nat /\ j \in Lines
        BY <1>2
      <4>2. x - 1 = s
        BY <3>4, <4>1
      <4>. QED
        BY <1>1, <3>1, <3>4, <4>1, <4>2, Zenon
    <3>6. Settled(cbus)' /\ cbus'.chip = Linked(instr.jack, instr.step)'
      BY <3>3, <3>4, <3>5
    <3>7. instr'.step > 1 /\ Procedure[instr'.step - 1].op = "write" =>
            DrivenAt(instr.jack)' = Procedure[instr'.step - 1].code
      BY <3>5
    <3>8. verified' = 1 .. instr'.jack - 1
      BY <1>2, <2>2, <3>5
    <3>9. RuledOut(instr.jack, instr.step)'
      BY <3>2, <3>4, <3>5
    <3>. QED
      BY <3>5, <3>6, <3>7, <3>8, <3>9, Zenon DEF RunInv
  <2>4. RecordInv'
    BY <1>5, <1>6, <2>1, <2>2 DEF RecordInv, Persisting
  <2>. QED
    BY <1>3, <1>4, <2>3, <2>4 DEF CalIInv
<1>8. CASE s = n
  <2>1. Cleared(j)
    <3>1. RuledOut(j, n)
      BY <1>1, <1>8 DEF RunInv
    <3>. QED
      BY <1>1, <1>2, <3>1, Passed
  <2>2. verified' = 1 .. j
    BY <1>1, <1>2, <1>8
  <2>3. cbus'.chip = {}
    BY <1>1, <1>2, <1>8 DEF Linked
  <2>4. \A i \in verified' : Cleared(i)'
    BY <1>1, <1>6, <1>8, <2>1 DEF RecordInv
  <2>5. CASE j < c
    <3>1. instr' = [at |-> "run", jack |-> j + 1, step |-> 1]
      BY <1>1, <1>8, <1>2, <2>5 DEF Advance, GoTo
    <3>2. RunInv'
      <4>1. PICK x : x = j + 1
        OBVIOUS
      <4>2. /\ instr'.jack = x /\ instr'.step = 1 /\ 1 \in 1 .. n /\ x \in Lines
            /\ verified' = 1 .. x - 1
        <5>1. j \in Nat /\ j \in 1 .. c /\ j < c /\ c \in Nat /\ Lines = 1 .. c
          BY <1>2, <2>5
        <5>2. x \in Lines /\ verified' = 1 .. x - 1
          <6>1. x \in 1 .. c /\ x - 1 = j
            <7>1. j \in Nat /\ j < c /\ c \in Nat
              BY <5>1
            <7>. QED
              BY SMTT(30), <4>1, <7>1
          <6>. QED
            BY <2>2, <5>1, <6>1
        <5>3. 1 \in 1 .. n
          BY <1>2
        <5>4. instr'.jack = j + 1 /\ instr'.step = 1
          BY <3>1
        <5>. QED
          BY <4>1, <5>2, <5>3, <5>4, Zenon
      <4>3. Linked(x, 1)' = {} /\ RuledOut(x, 1)'
        BY <1>2 DEF Linked, RuledOut
      <4>. QED
        <5>1. instr'.jack \in Lines /\ instr'.step \in 1 .. Len(Procedure) /\ ~(instr'.step > 1)
          BY <1>1, <4>2
        <5>2. Settled(cbus)' /\ cbus'.chip = Linked(instr.jack, instr.step)'
          BY <2>3, <4>2, <4>3
        <5>3. verified' = 1 .. instr'.jack - 1
          BY <4>2
        <5>4. RuledOut(instr.jack, instr.step)'
          BY <4>2, <4>3
        <5>. QED
          BY <5>1, <5>2, <5>3, <5>4 DEF RunInv
    <3>3. RecordInv'
      <4>1. verified \subseteq verified' /\ verified' \subseteq Lines
        <5>1. j \in 1 .. c /\ c \in Nat /\ Lines = 1 .. c /\ verified = 1 .. j - 1
          BY <1>2
        <5>. QED
          BY <2>2, <5>1
      <4>. QED
        BY <1>5, <2>4, <3>1, <4>1 DEF RecordInv, Persisting
    <3>. QED
      BY <1>3, <1>4, <3>2, <3>3 DEF CalIInv
  <2>6. CASE ~(j < c)
    <3>1. instr' = [at |-> "persist", jack |-> 0, step |-> 0]
      BY <1>1, <1>8, <1>2, <2>6 DEF Advance, GoTo
    <3>2. verified' = Lines
      <4>1. j = c /\ Lines = 1 .. c
        BY <1>2, <2>6
      <4>. QED
        BY <2>2, <4>1
    <3>3. RecordInv'
      BY <2>4, <3>2 DEF RecordInv
    <3>. QED
      BY <1>3, <1>4, <3>1, <3>3 DEF CalIInv
  <2>. QED
    BY <2>5, <2>6
<1>. QED
  BY <1>2, <1>7, <1>8

\* A step that leaves the procedure, or was not in it: the board is not judged any more.
LEMMA LeftBehind ==
    ASSUME CalIInv, StoreOK', UNCHANGED <<defect, verified>>, instr'.at # "run",
           \E j \in Lines : cbus'.chip \cap Lines \subseteq {j},
           instr'.at \in Persisting => verified = Lines,
           flash' = "new" => flash = "new" \/ verified = Lines,
           loaded' = "new" => loaded = "new" \/ flash = "new"
    PROVE  CalIInv'
<1>1. BoardOK'
  BY DEF CalIInv, BoardOK
<1>2. ASSUME NEW i, Cleared(i)
      PROVE  Cleared(i)'
  BY <1>2 DEF Cleared
<1>3. RecordInv'
  BY <1>2 DEF CalIInv, RecordInv
<1>. QED
  BY <1>1, <1>3 DEF CalIInv

LEMMA RunWriteKept == ASSUME CalIInv, RunWrite PROVE CalKept
<1>1. PICK j, s, step : j = instr.jack /\ s = instr.step /\ step = Procedure[s]
  OBVIOUS
<1>2. instr.at = "run" /\ step.op \in Writes /\ UNCHANGED <<defect, last, flash, loaded>>
  BY <1>1 DEF RunWrite
<1>3. PICK r \in Outcomes(j, step) :
        /\ cbus' = r.bus /\ mcp' = r.mcp /\ stm' = r.stm
        /\ IF r.ok THEN Advance ELSE GoTo("cleanup", 0, 0)
        /\ verified' = IF r.ok /\ s = Len(Procedure) THEN verified \cup {j} ELSE verified
  BY <1>1 DEF RunWrite, MayGoOn
<1>4. StoreOK /\ RunInv /\ RecordInv /\ BoardOK
  BY <1>2 DEF CalIInv
<1>5. /\ WireType(r.bus) /\ r.mcp \in NatCodes /\ r.stm \in [Lines -> Nat] /\ r.ok \in BOOLEAN
      /\ r.bus.chip \cap Lines \subseteq {j}
      /\ \A i \in (r.bus.chip \ cbus.chip) \cap Lines :
            (IF i \in Channels THEN r.bus.out[i] ELSE r.stm[i]) = Neutral
      /\ r.ok => /\ Settled(r.bus)
                 /\ r.bus.chip = Linked(j, s + 1)
                 /\ step.op = "write" =>
                      (IF j \in Channels THEN r.bus.out[j] ELSE r.stm[j]) = step.code
  BY <1>1, <1>2, <1>3, <1>4, InstructionDone
<1>6. StoreOK' /\ j \in Lines
  BY <1>1, <1>3, <1>4, <1>5 DEF StoreOK, WireType, RunInv
<1>7. Staged
  BY <1>3, <1>5 DEF Staged
<1>8. CASE ~r.ok
  <2>1. /\ instr' = [at |-> "cleanup", jack |-> 0, step |-> 0] /\ UNCHANGED verified
        /\ \E i \in Lines : cbus'.chip \cap Lines \subseteq {i}
    BY <1>3, <1>5, <1>6, <1>8 DEF GoTo
  <2>2. instr'.at # "run" /\ instr'.at \notin Persisting
    BY <2>1 DEF Persisting
  <2>. QED
    BY <1>2, <1>6, <1>7, <2>1, <2>2, LeftBehind DEF CalKept
<1>9. CASE r.ok
  <2>1. /\ Advance /\ verified' = IF s = Len(Procedure) THEN verified \cup {j} ELSE verified
        /\ Settled(cbus)' /\ cbus'.chip = Linked(j, s + 1)
        /\ step.op = "write" => DrivenAt(j)' = step.code
    BY <1>3, <1>5, <1>9 DEF Settled, WireType, DrivenAt
  <2>2. RuledOut(j, s + 1)
    <3>1. s \in Nat /\ RuledOut(j, s)
      BY <1>1, <1>4, Plan DEF RunInv
    <3>2. Excludes(j, s)
      BY <1>1, <1>2 DEF Excludes, Writes
    <3>. QED
      BY <3>1, <3>2, PassedSoFar
  <2>3. CalIInv'
    BY <1>1, <1>2, <1>4, <1>6, <2>1, <2>2, Advanced
  <2>. QED
    BY <1>7, <2>3 DEF CalKept
<1>. QED
  BY <1>5, <1>8, <1>9

\* With the expander as it is, no switch closes.
LEMMA NothingCloses == ASSUME UNCHANGED cbus PROVE Staged
BY DEF Staged

LEMMA RunReadKept == ASSUME CalIInv, RunRead PROVE CalKept
<1>1. PICK j, s, step : j = instr.jack /\ s = instr.step /\ step = Procedure[s]
  OBVIOUS
<1>2. /\ instr.at = "run" /\ step.op \notin Writes
      /\ UNCHANGED <<cbus, stm, mcp, defect, verified, flash, loaded>>
      /\ (GoodReading(j, step) /\ Advance) \/ GoTo("cleanup", 0, 0)
  BY <1>1 DEF RunRead
<1>3. StoreOK /\ RunInv /\ RecordInv /\ BoardOK /\ \E i \in Lines : cbus.chip \cap Lines \subseteq {i}
  BY <1>2 DEF CalIInv
<1>4. StoreOK' /\ Staged
  BY <1>2, <1>3, NothingCloses DEF StoreOK, WireType
<1>5. CASE GoTo("cleanup", 0, 0)
  <2>1. instr' = [at |-> "cleanup", jack |-> 0, step |-> 0]
    BY <1>5 DEF GoTo
  <2>2. instr'.at # "run" /\ instr'.at \notin Persisting
    BY <2>1 DEF Persisting
  <2>. QED
    BY <1>2, <1>3, <1>4, <2>2, LeftBehind DEF CalKept
<1>6. CASE GoodReading(j, step) /\ Advance
  <2>1. /\ j \in Lines /\ s \in 1 .. Len(Procedure) /\ PlanIs(s) /\ step \in Instruction
        /\ Len(Procedure) \in Nat /\ LinkStep \in Nat /\ LinkStep + 1 < Len(Procedure)
    BY <1>1, <1>3, Plan DEF RunInv, PlanIs
  <2>2. step.op \in Readings
    BY <1>2, <2>1 DEF Instruction, Writes, Readings
  <2>3. /\ s > 1 /\ Procedure[s - 1].op = "write" /\ (step.op = "isolated" <=> s < LinkStep)
        /\ s # LinkStep /\ s # Len(Procedure) - 1 /\ s # Len(Procedure)
    BY <1>1, <2>1, <2>2, Plan DEF PlanIs, Readings
  <2>4. PICK code : code = Procedure[s - 1].code
    OBVIOUS
  <2>5. code \in Nat /\ DrivenAt(j) = code
    <3>1. s - 1 \in 1 .. Len(Procedure)
      BY <2>1, <2>3
    <3>2. PlanIs(s - 1)
      BY <3>1, Plan
    <3>. QED
      BY <1>1, <1>3, <2>3, <2>4, <3>2 DEF PlanIs, Instruction, RunInv
  <2>6. Linked(j, s + 1) = Linked(j, s) /\ (step.op = "sweep" => Linked(j, s) = {j})
    BY SMTT(30), <2>1, <2>3 DEF Linked
  <2>7. cbus.chip = Linked(j, s) /\ Settled(cbus)
    BY <1>1, <1>3 DEF RunInv
  <2>8. /\ step.op = "isolated" /\ code # Neutral => defect # <<"closed", j>>
        /\ step.op = "sweep" /\ step.code = 1 => defect # <<"open", j>> /\ defect # <<"stuck", j>>
        /\ step.op = "sweep" /\ step.code \in Crosses /\ code # Neutral =>
             \A i \in Lines : defect # <<"short", j, i>>
    BY <1>3, <1>6, <2>1, <2>2, <2>5, <2>6, <2>7, ReadingJudges
  <2>9. RuledOut(j, s + 1)
    <3>1. s \in Nat /\ RuledOut(j, s)
      BY <1>1, <1>3, <2>1 DEF RunInv
    <3>2. Excludes(j, s)
      BY <1>1, <2>4, <2>8 DEF Excludes
    <3>. QED
      BY <3>1, <3>2, PassedSoFar
  <2>10. /\ Settled(cbus)' /\ cbus'.chip = Linked(j, s + 1)
         /\ verified' = IF s = Len(Procedure) THEN verified \cup {j} ELSE verified
         /\ step.op # "write"
    BY <1>2, <2>2, <2>3, <2>6, <2>7 DEF Settled, WireType, Readings
  <2>11. CalIInv'
    BY <1>1, <1>2, <1>3, <1>4, <1>6, <2>9, <2>10, Advanced
  <2>. QED
    BY <1>4, <2>11 DEF CalKept
<1>. QED
  BY <1>2, <1>5, <1>6

LEMMA CleanUpKept == ASSUME CalIInv, CleanUp PROVE CalKept
<1>1. PICK b : b = cbus
  OBVIOUS
<1>2. /\ UNCHANGED <<stm, mcp, defect, last, verified, flash, loaded>>
      /\ instr'.at \in {"again", "failed"}
  BY DEF CleanUp, GoTo
<1>3. PICK r \in WriteOutputs(b, {}) : cbus' = r.bus
  BY <1>1 DEF CleanUp
<1>4. StoreOK /\ WireType(b) /\ \E i \in Lines : b.chip \cap Lines \subseteq {i}
  BY <1>1 DEF CalIInv, StoreOK
<1>5. WireType(r.bus) /\ r.bus.chip \in {b.chip, {}}
  <2>1. r = Failed(b) \/ r \in WriteReg(b, {})
    BY <1>3 DEF WriteOutputs
  <2>2. CASE r = Failed(b)
    BY <1>4, <2>2, OutcomeFields
  <2>3. CASE r \in WriteReg(b, {})
    <3>1. PICK lines : lines = {}
      OBVIOUS
    <3>2. lines \in SUBSET (Lines \cup {Latch}) /\ r \in WriteReg(b, lines)
      BY <2>3, <3>1
    <3>. QED
      BY <1>4, <3>1, <3>2, LinesWritten
  <2>. QED
    BY <2>1, <2>2, <2>3
<1>6. StoreOK' /\ \E i \in Lines : cbus'.chip \cap Lines \subseteq {i}
  BY <1>2, <1>3, <1>4, <1>5 DEF StoreOK, WireType
<1>7. Staged
  BY <1>1, <1>3, <1>5 DEF Staged
<1>8. instr'.at # "run" /\ instr'.at \notin Persisting
  BY <1>2 DEF Persisting
<1>. QED
  BY <1>2, <1>6, <1>7, <1>8, LeftBehind DEF CalKept

\* Flash, power and boot: nothing of the board changes.
LEMMA AshoreKept ==
    ASSUME CalIInv, PersistBegins \/ Erase \/ Write \/ Remap \/ Reset \/ Boot, instr.at # "run" \/ Reset
    PROVE  CalKept
<1>1. UNCHANGED <<cbus, stm, mcp, defect, verified>>
  BY DEF PersistBegins, Erase, Write, Remap, Reset, Boot
<1>2. StoreOK' /\ Staged /\ \E i \in Lines : cbus'.chip \cap Lines \subseteq {i}
  BY <1>1, NothingCloses DEF CalIInv, StoreOK, WireType
<1>3. /\ instr'.at # "run"
      /\ instr'.at \in Persisting => instr.at \in Persisting
      /\ flash' = "new" => flash = "new" \/ instr.at \in Persisting
      /\ loaded' = "new" => loaded = "new" \/ flash = "new"
  BY DEF PersistBegins, Erase, Write, Remap, Reset, Boot, GoTo, Persisting
<1>4. CalIInv'
  BY <1>1, <1>2, <1>3, LeftBehind DEF CalIInv, RecordInv
<1>. QED
  BY <1>2, <1>4 DEF CalKept

LEMMA CalStepHolds ==
    ASSUME CalIInv, [CalNext]_calVars
    PROVE  CalKept
<1>1. CASE UNCHANGED calVars
  <2>1. UNCHANGED <<cbus, stm, mcp, defect, instr, last, verified, flash, loaded>>
    BY <1>1 DEF calVars
  <2>2. Staged
    BY <2>1, NothingCloses
  <2>3. CalIInv'
    BY <2>1 DEF CalIInv, StoreOK, WireType, BoardOK, RunInv, Settled, Linked, DrivenAt, RuledOut, Excludes,
                RecordInv, Cleared
  <2>. QED
    BY <2>2, <2>3 DEF CalKept
<1>2. CASE RunWrite
  BY <1>2, RunWriteKept
<1>3. CASE RunRead
  BY <1>3, RunReadKept
<1>4. CASE CleanUp
  BY <1>4, CleanUpKept
<1>5. CASE PersistBegins \/ Erase \/ Write \/ Remap \/ Reset \/ Boot
  BY <1>5, AshoreKept DEF PersistBegins, Erase, Write, Remap, Boot
<1>. QED
  BY <1>1, <1>2, <1>3, <1>4, <1>5 DEF CalNext

LEMMA AlwaysCalibrating == CalSpec => []CalIInv
<1>1. CalIInv /\ [CalNext]_calVars => CalIInv'
  BY CalStepHolds DEF CalKept
<1>2. QED
  BY <1>1, CalInitHolds, PTL DEF CalSpec

LEMMA RecordHasBeenEarned == ASSUME CalIInv PROVE RecordIsEarned
<1>1. (\A j \in Lines : Cleared(j)) => defect = Sound
  BY DEF CalIInv, BoardOK, Defects, Sound, Cleared
<1>2. flash = "new" => \A j \in Lines : Cleared(j)
  BY DEF CalIInv, RecordInv
<1>. QED
  BY <1>1, <1>2 DEF CalIInv, RecordInv, Persisting, RecordIsEarned

LEMMA OneIsConnected == ASSUME CalIInv PROVE OneDacConnected
<1>1. PICK j \in Lines : cbus.chip \cap Lines \subseteq {j}
  BY DEF CalIInv
<1>2. cbus.chip \cap Lines = {} \/ cbus.chip \cap Lines = {j}
  BY <1>1
<1>3. Cardinality({}) = 0 /\ Cardinality({j}) = 1
  BY FS_EmptySet, FS_Singleton
<1>. QED
  BY <1>2, <1>3 DEF OneDacConnected

\* For any board, probes and sweep: at no time are two DACs connected, a switch closes only over a
\* DAC that is at neutral, and the record in flash is touched only when every jack has passed, on
\* a board without one of the defects, whichever transfer fails or goes unheard and whenever power is
\* lost (V2RunCalibration, PersistToQspi).
THEOREM CalibrationHarmsNothing == CalSpec => CalibrationIsSafe
<1>1. CalIInv => OneDacConnected /\ RecordIsEarned
  BY OneIsConnected, RecordHasBeenEarned
<1>2. CalIInv /\ [CalNext]_calVars => Staged
  BY CalStepHolds DEF CalKept
<1>3. Staged = (\A j \in (cbus'.chip \ cbus.chip) \cap Lines :
                  (IF j \in Channels THEN cbus'.out[j] ELSE stm'[j]) = Neutral)
  BY DEF Staged
<1>. QED
  BY <1>1, <1>2, <1>3, AlwaysCalibrating, PTL DEF CalSpec, CalibrationIsSafe, ConnectsAtNeutral, Staged

-----------------------------------------------------------------------------
(***************************************************************************)
(* Definitions by recursion.                                               *)
(***************************************************************************)

\* A set of numbers that is not empty has a least one.
LEMMA LeastIs ==
  ASSUME NEW T \in SUBSET Nat, T # {}
  PROVE  \E x \in T : \A y \in T : x <= y
<1>. DEFINE R == {ss \in Nat \X Nat : ss[1] < ss[2]}
<1>1. IsWellFoundedOn(R, Nat)
  BY NatLessThanWellFounded DEF OpToRel
<1>2. PICK x \in T : \A y \in T : <<y, x>> \notin R
  <2>. HIDE DEF R
  <2>. QED
    BY <1>1, WFMin
<1>3. ASSUME NEW y \in T PROVE x <= y
  <2>1. x \in Nat /\ y \in Nat /\ <<y, x>> \notin R
    BY <1>2
  <2>2. ~(<<y, x>>[1] < <<y, x>>[2])
    BY <2>1
  <2>. QED
    BY <2>1, <2>2
<1>. QED
  BY <1>3

\* What the values of a function that is defined by recursion are computed from.
Below(V, n) == UNION {[0 .. i - 1 -> V] : i \in 0 .. n}

StaysIn(F, n, V)  == \A i \in 0 .. n : \A g \in [0 .. i - 1 -> V] : F[<<i, g>>] \in V
Computes(F, n, f) == \A i \in 0 .. n : f[i] = F[<<i, [k \in 0 .. i - 1 |-> f[k]]>>]

\* A function whose value at a number is computed from those below it exists.
LEMMA Recursion ==
  ASSUME NEW n \in Nat, NEW V, NEW F, StaysIn(F, n, V)
  PROVE  \E f \in [0 .. n -> V] : Computes(F, n, f)
<1>. USE DEF StaysIn, Computes
<1>. DEFINE Good(m, f) == f \in [0 .. m - 1 -> V] /\ \A i \in 0 .. m - 1 : f[i] = F[<<i, [k \in 0 .. i - 1 |-> f[k]]>>]
            Bad == {m \in 0 .. n + 1 : ~\E f : Good(m, f)}
<1>1. Bad = {}
  <2>. SUFFICES ASSUME Bad # {} PROVE FALSE
    OBVIOUS
  <2>1. Bad \in SUBSET Nat
    OBVIOUS
  <2>2. PICK m \in Bad : \A y \in Bad : m <= y
    <3>. HIDE DEF Bad, Good
    <3>. QED
      BY <2>1, LeastIs
  <2>3. m \in Nat /\ m \in 0 .. n + 1 /\ ~\E f : Good(m, f)
    <3>. HIDE DEF Good
    <3>. QED
      BY <2>2
  <2>4. m # 0
    <3>1. ASSUME m = 0 PROVE \E f : Good(m, f)
      <4>1. Good(m, [k \in 0 .. m - 1 |-> k])
        BY <3>1
      <4>. QED
        BY <4>1
    <3>. QED
      BY <2>3, <3>1
  <2>5. m - 1 \notin Bad /\ m - 1 \in 0 .. n
    <3>1. m - 1 \in 0 .. n /\ ~(m <= m - 1)
      BY <2>3, <2>4
    <3>. QED
      BY <2>2, <3>1
  <2>6. PICK g : Good(m - 1, g)
    <3>1. m - 1 \in 0 .. n + 1
      BY <2>5
    <3>. HIDE DEF Good
    <3>. QED
      BY <2>5, <3>1
  <2>. DEFINE p == m - 1
              h == [k \in 0 .. m - 1 |-> IF k = p THEN F[<<p, [j \in 0 .. p - 1 |-> g[j]]>>] ELSE g[k]]
  <2>7. p \in 0 .. n /\ g \in [0 .. p - 1 -> V] /\ m = p + 1
    BY <2>3, <2>5, <2>6
  <2>8. [j \in 0 .. p - 1 |-> g[j]] \in [0 .. p - 1 -> V]
    BY <2>7
  <2>9. F[<<p, [j \in 0 .. p - 1 |-> g[j]]>>] \in V
    BY <2>7, <2>8
  <2>10. h \in [0 .. m - 1 -> V]
    <3>1. ASSUME NEW k \in 0 .. m - 1 PROVE (IF k = p THEN F[<<p, [j \in 0 .. p - 1 |-> g[j]]>>] ELSE g[k]) \in V
      <4>1. k # p => k \in 0 .. p - 1
        BY <2>7
      <4>. QED
        BY <2>7, <2>9, <4>1
    <3>. QED
      BY <3>1
  <2>11. ASSUME NEW i \in 0 .. m - 1 PROVE h[i] = F[<<i, [k \in 0 .. i - 1 |-> h[k]]>>]
    <3>1. i \in 0 .. p /\ \A k \in 0 .. i - 1 : k \in 0 .. m - 1 /\ k # p
      <4>1. p \in Int /\ m = p + 1
        BY <2>7
      <4>. HIDE DEF p
      <4>. QED
        BY <4>1
    <3>2. [k \in 0 .. i - 1 |-> h[k]] = [k \in 0 .. i - 1 |-> g[k]]
      BY <3>1
    <3>3. CASE i = p
      BY <3>2, <3>3
    <3>4. CASE i # p
      <4>1. i \in 0 .. m - 1 - 1
        BY <2>7, <3>4
      <4>2. g[i] = F[<<i, [k \in 0 .. i - 1 |-> g[k]]>>]
        BY <2>6, <4>1
      <4>. QED
        BY <3>2, <3>4, <4>2
    <3>. QED
      BY <3>3, <3>4
  <2>12. Good(m, h)
    <3>. HIDE DEF h
    <3>. QED
      BY <2>10, <2>11
  <2>. QED
    BY <2>3, <2>12
<1>. DEFINE top == n + 1
<1>2. top \in 0 .. n + 1 /\ top - 1 = n
  OBVIOUS
<1>3. PICK f : Good(top, f)
  <2>1. top \notin Bad
    BY <1>1
  <2>. HIDE DEF Good, top
  <2>. QED
    BY <1>2, <2>1
<1>. HIDE DEF top
<1>. QED
  BY <1>2, <1>3

\* What holds of a number if it holds of all below it holds of all.
LEMMA Climb ==
  ASSUME NEW n \in Nat, NEW T \in SUBSET (0 .. n),
         \A i \in 0 .. n : (\A k \in 0 .. i - 1 : k \in T) => i \in T
  PROVE  T = 0 .. n
<1>. DEFINE U == (0 .. n) \ T
<1>. SUFFICES ASSUME U # {} PROVE FALSE
  OBVIOUS
<1>1. U \in SUBSET Nat
  <2>1. 0 .. n \in SUBSET Nat
    OBVIOUS
  <2>. QED
    BY <2>1
<1>2. PICK x \in U : \A y \in U : x <= y
  <2>. HIDE DEF U
  <2>. QED
    BY <1>1, LeastIs
<1>3. x \in 0 .. n /\ x \notin T
  BY <1>2
<1>4. ASSUME NEW k \in 0 .. x - 1 PROVE k \in T
  <2>1. k \in 0 .. n /\ ~(x <= k)
    BY <1>3
  <2>. QED
    BY <1>2, <2>1
<1>. QED
  BY <1>3, <1>4

LEMMA BelowIs ==
  ASSUME NEW V, NEW n \in Nat, NEW i \in 0 .. n, NEW g \in [0 .. i - 1 -> V]
  PROVE  <<i, g>> \in (0 .. n) \X Below(V, n)
BY DEF Below

-----------------------------------------------------------------------------
(***************************************************************************)
(* The checksum is a number.                                               *)
(***************************************************************************)
CrcOf(s, i, below) == IF i = 0 THEN 1 ELSE (31 * below + s[i]) % 32749

LEMMA CrcOfIs ==
  ASSUME NEW s \in Seq(Nat), NEW i \in 0 .. Len(s), NEW below, i # 0 => below \in Nat
  PROVE  CrcOf(s, i, below) \in Nat
<1>1. ASSUME i # 0 PROVE (31 * below + s[i]) % 32749 \in Nat
  <2>1. below \in Nat /\ s[i] \in Nat
    BY <1>1
  <2>. QED
    BY <2>1
<1>. QED
  BY <1>1 DEF CrcOf

LEMMA CrcIs == ASSUME NEW s \in Seq(Nat) PROVE Crc32(s) \in Nat
<1>. DEFINE n == Len(s)
            Is(f) == f = [i \in 0 .. Len(s) |-> CrcOf(s, i, f[i - 1])]
            F == [p \in (0 .. n) \X Below(Nat, n) |-> CrcOf(s, p[1], p[2][p[1] - 1])]
            crc == CHOOSE f : Is(f)
<1>1. n \in Nat
  OBVIOUS
<1>2. ASSUME NEW i \in 0 .. n, NEW g \in [0 .. i - 1 -> Nat]
      PROVE  F[<<i, g>>] = CrcOf(s, i, g[i - 1])
  <2>1. <<i, g>> \in (0 .. n) \X Below(Nat, n)
    <3>. HIDE DEF n
    <3>. QED
      BY <1>1, BelowIs
  <2>. QED
    BY <2>1
<1>3. ASSUME NEW i \in 0 .. n, NEW g \in [0 .. i - 1 -> Nat] PROVE F[<<i, g>>] \in Nat
  <2>1. i # 0 => g[i - 1] \in Nat
    BY <1>1
  <2>2. CrcOf(s, i, g[i - 1]) \in Nat
    BY <2>1, CrcOfIs
  <2>. HIDE DEF F
  <2>. QED
    BY <1>2, <2>2
<1>4. PICK f \in [0 .. n -> Nat] : Computes(F, n, f)
  <2>. HIDE DEF F, n
  <2>1. StaysIn(F, n, Nat)
    BY <1>3 DEF StaysIn
  <2>. QED
    BY <1>1, <2>1, Recursion
<1>5. ASSUME NEW i \in 0 .. n PROVE f[i] = CrcOf(s, i, f[i - 1])
  <2>. DEFINE g == [k \in 0 .. i - 1 |-> f[k]]
  <2>1. g \in [0 .. i - 1 -> Nat]
    BY <1>1
  <2>2. f[i] = F[<<i, g>>]
    BY <1>4 DEF Computes
  <2>3. F[<<i, g>>] = CrcOf(s, i, g[i - 1])
    <3>. HIDE DEF g, F, n
    <3>. QED
      BY <1>2, <2>1
  <2>4. CASE i = 0
    BY <2>2, <2>3, <2>4 DEF CrcOf
  <2>5. CASE i # 0
    <3>1. g[i - 1] = f[i - 1]
      BY <1>1, <2>5
    <3>. HIDE DEF g, F
    <3>. QED
      BY <2>2, <2>3, <3>1
  <2>. QED
    BY <2>4, <2>5
<1>6. Is(f)
  <2>. HIDE DEF F
  <2>. QED
    BY <1>4, <1>5
<1>7. Is(crc)
  <2>. HIDE DEF Is
  <2>. QED
    BY <1>6
<1>8. Crc32(s) = crc[n]
  BY DEF Crc32, CrcOf
<1>. HIDE DEF crc
<1>. DEFINE T == {i \in 0 .. n : crc[i] \in Nat}
<1>9. T = 0 .. n
  <2>1. ASSUME NEW i \in 0 .. n, \A k \in 0 .. i - 1 : k \in T PROVE i \in T
    <3>1. crc[i] = CrcOf(s, i, crc[i - 1])
      <4>1. crc = [j \in 0 .. n |-> CrcOf(s, j, crc[j - 1])]
        BY <1>7
      <4>. HIDE DEF n
      <4>. QED
        BY <4>1
    <3>2. i # 0 => crc[i - 1] \in Nat
      <4>1. i # 0 => i - 1 \in 0 .. i - 1
        BY <1>1
      <4>. HIDE DEF n
      <4>. QED
        BY <2>1, <4>1
    <3>3. CrcOf(s, i, crc[i - 1]) \in Nat
      BY <3>2, CrcOfIs
    <3>. QED
      BY <3>1, <3>3
  <2>2. T \in SUBSET (0 .. n)
    OBVIOUS
  <2>. HIDE DEF T, n
  <2>. QED
    BY <1>1, <2>1, <2>2, Climb
<1>. QED
  <2>1. n \in T
    BY <1>1, <1>9
  <2>. QED
    BY <1>8, <2>1

-----------------------------------------------------------------------------
(***************************************************************************)
(* The encoder, unfolded: what it makes of the last n bytes.               *)
(***************************************************************************)
LEMMA CutIs ==
  ASSUME NEW s \in Seq(Nat), NEW a \in Nat, NEW b \in a .. Len(s)
  PROVE  /\ SubSeq(s, a + 1, b) \in Seq(Nat) /\ Len(SubSeq(s, a + 1, b)) = b - a
         /\ \A i \in 1 .. b - a : SubSeq(s, a + 1, b)[i] = s[a + i]
<1>. DEFINE m == a + 1
<1>1. m \in Int /\ b \in Int /\ \A i \in m .. b : s[i] \in Nat
  OBVIOUS
<1>2. (m <= b => b - m + 1 = b - a) /\ (m > b => b - a = 0) /\ \A i \in Int : m + i - 1 = a + i
  OBVIOUS
<1>. HIDE DEF m
<1>3. /\ SubSeq(s, m, b) \in Seq(Nat) /\ Len(SubSeq(s, m, b)) = (IF m <= b THEN b - m + 1 ELSE 0)
      /\ \A i \in 1 .. b - m + 1 : SubSeq(s, m, b)[i] = s[m + i - 1]
  BY <1>1, SubSeqProperties
<1>4. Len(SubSeq(s, m, b)) = b - a
  BY <1>1, <1>2, <1>3
<1>5. ASSUME NEW i \in 1 .. b - a PROVE SubSeq(s, m, b)[i] = s[a + i]
  <2>1. i \in 1 .. b - m + 1 /\ m + i - 1 = a + i
    BY <1>1, <1>2
  <2>. QED
    BY <1>3, <2>1
<1>. QED
  BY <1>3, <1>4, <1>5 DEF m

LEMMA BackIs ==
  ASSUME NEW s \in Seq(Nat), NEW n \in 0 .. Len(s)
  PROVE  /\ Back(s, n) \in Seq(Nat) /\ Len(Back(s, n)) = n
         /\ \A i \in 1 .. n : Back(s, n)[i] = s[Len(s) - n + i]
<1>. DEFINE l == Len(s)
            a == l - n
<1>1. a \in Nat /\ l \in a .. l /\ l - a = n /\ l \in Nat /\ l - n + 1 = a + 1
  OBVIOUS
<1>2. Back(s, n) = SubSeq(s, a + 1, l)
  BY <1>1 DEF Back
<1>. HIDE DEF a
<1>3. /\ SubSeq(s, a + 1, l) \in Seq(Nat) /\ Len(SubSeq(s, a + 1, l)) = l - a
      /\ \A i \in 1 .. l - a : SubSeq(s, a + 1, l)[i] = s[a + i]
  BY <1>1, CutIs
<1>4. Back(s, n) \in Seq(Nat) /\ Len(Back(s, n)) = n /\ \A i \in 1 .. n : Back(s, n)[i] = s[a + i]
  BY <1>1, <1>2, <1>3
<1>. QED
  BY <1>4 DEF a

\* Whether the first group of s has k bytes.
Groups(s, k) ==
    /\ k \in 0 .. Full - 1 /\ k <= Len(s) /\ \A i \in 1 .. k : s[i] # 0
    /\ k = Full - 1 \/ k = Len(s) \/ s[k + 1] = 0

LEMMA GroupIs == ASSUME NEW s \in Seq(Nat) PROVE Groups(s, GroupOf(s))
<1>. DEFINE T == {k \in Nat : k = Full - 1 \/ k = Len(s) \/ (k < Len(s) /\ s[k + 1] = 0)}
<1>1. Full - 1 \in Nat /\ Len(s) \in Nat
  BY WireAssumption
<1>2. Full - 1 \in T /\ Len(s) \in T /\ T \in SUBSET Nat
  BY <1>1
<1>3. PICK k \in T : \A y \in T : k <= y
  <2>. HIDE DEF T
  <2>. QED
    BY <1>2, LeastIs
<1>4. k \in Nat /\ k <= Full - 1 /\ k <= Len(s)
  <2>1. k \in Nat
    BY <1>3
  <2>. HIDE DEF T
  <2>. QED
    BY <1>2, <1>3, <2>1
<1>5. ASSUME NEW i \in 1 .. k PROVE s[i] # 0
  <2>1. i - 1 \in Nat /\ ~(k <= i - 1) /\ i - 1 < Len(s)
    BY <1>1, <1>4
  <2>2. i - 1 \notin T
    BY <1>3, <2>1
  <2>. QED
    BY <2>1, <2>2
<1>6. Groups(s, k)
  BY <1>1, <1>3, <1>4, <1>5 DEF Groups
<1>. QED
  BY <1>6 DEF GroupOf, Groups

EncodedAt(s, n, c) ==
    LET k     == GroupOf(Back(s, n))
        group == <<k + 1>> \o SubSeq(Back(s, n), 1, k)
    IN  IF k = Full - 1 THEN group \o c[n - k]
        ELSE IF k = n THEN group
        ELSE group \o c[n - k - 1]

\* The function that CobsEncode defines.
Encoder(s) == CHOOSE f : f = [n \in 0 .. Len(s) |-> EncodedAt(s, n, f)]

\* Its values: the group, and what is behind it.
GroupBytes(s, n) == <<GroupOf(Back(s, n)) + 1>> \o SubSeq(Back(s, n), 1, GroupOf(Back(s, n)))

LEMMA FirstGroup ==
  ASSUME NEW s \in Seq(Nat), NEW n \in 0 .. Len(s), NEW k, k = GroupOf(Back(s, n))
  PROVE  /\ k \in 0 .. Full - 1 /\ k <= n /\ Full \in Nat
         /\ \A i \in 1 .. k : Back(s, n)[i] # 0
         /\ k = Full - 1 \/ k = n \/ Back(s, n)[k + 1] = 0
         /\ k = Full - 1 => n - k \in 0 .. n - 1
         /\ k # Full - 1 /\ k # n => n - k - 1 \in 0 .. n - 1
         /\ GroupBytes(s, n) \in Seq(Nat) /\ Len(GroupBytes(s, n)) = k + 1
         /\ GroupBytes(s, n)[1] = k + 1
         /\ \A i \in 1 .. k : GroupBytes(s, n)[i + 1] = Back(s, n)[i]
<1>. DEFINE b == Back(s, n)
<1>1. b \in Seq(Nat) /\ Len(b) = n /\ n \in Nat
  BY BackIs
<1>2. Groups(b, k)
  <2>. HIDE DEF b
  <2>1. Groups(b, GroupOf(b))
    BY <1>1, GroupIs
  <2>. QED
    BY <2>1 DEF b
<1>. HIDE DEF b
<1>3. k \in 0 .. Full - 1 /\ k <= n /\ Full \in Nat /\ Full >= 2
      /\ (\A i \in 1 .. k : b[i] # 0) /\ (k = Full - 1 \/ k = n \/ b[k + 1] = 0)
  BY <1>1, <1>2, WireAssumption DEF Groups
<1>4. k \in Nat /\ <<k + 1>> \in Seq(Nat) /\ Len(<<k + 1>>) = 1
  BY <1>3
<1>5. SubSeq(b, 1, k) \in Seq(Nat) /\ Len(SubSeq(b, 1, k)) = k /\ \A i \in 1 .. k : SubSeq(b, 1, k)[i] = b[i]
  BY <1>1, <1>3, <1>4
<1>6. GroupBytes(s, n) = <<k + 1>> \o SubSeq(b, 1, k)
  BY DEF GroupBytes, b
<1>7. /\ GroupBytes(s, n) \in Seq(Nat) /\ Len(GroupBytes(s, n)) = k + 1
      /\ GroupBytes(s, n)[1] = k + 1
      /\ \A i \in 1 .. k : GroupBytes(s, n)[i + 1] = b[i]
  BY <1>4, <1>5, <1>6
<1>8. ASSUME k = Full - 1 PROVE n - k \in 0 .. n - 1
  <2>1. k \in Nat /\ k >= 1 /\ k <= n /\ n \in Nat
    BY <1>1, <1>3, <1>8
  <2>. QED
    BY <2>1
<1>9. ASSUME k # n PROVE n - k - 1 \in 0 .. n - 1
  <2>1. k \in Nat /\ k < n /\ n \in Nat
    BY <1>1, <1>3, <1>9
  <2>. QED
    BY <2>1
<1>. QED
  BY <1>3, <1>7, <1>8, <1>9 DEF b

LEMMA EncodedAtIs ==
  ASSUME NEW s \in Seq(Nat), NEW n \in 0 .. Len(s), NEW c, \A j \in 0 .. n - 1 : c[j] \in Seq(Nat)
  PROVE  EncodedAt(s, n, c) \in Seq(Nat)
<1>. DEFINE k == GroupOf(Back(s, n))
            group == GroupBytes(s, n)
<1>1. EncodedAt(s, n, c) = IF k = Full - 1 THEN group \o c[n - k]
                           ELSE IF k = n THEN group ELSE group \o c[n - k - 1]
  BY DEF EncodedAt, GroupBytes
<1>2. group \in Seq(Nat) /\ (k = Full - 1 => n - k \in 0 .. n - 1)
      /\ (k # Full - 1 /\ k # n => n - k - 1 \in 0 .. n - 1)
  BY FirstGroup
<1>. HIDE DEF k, group
<1>. QED
  BY <1>1, <1>2

LEMMA EncodedAtSame ==
  ASSUME NEW s \in Seq(Nat), NEW n \in 0 .. Len(s), NEW c, NEW d, \A j \in 0 .. n - 1 : c[j] = d[j]
  PROVE  EncodedAt(s, n, c) = EncodedAt(s, n, d)
<1>. DEFINE k == GroupOf(Back(s, n))
            group == GroupBytes(s, n)
            Spot(e) == IF k = Full - 1 THEN group \o e[n - k]
                     ELSE IF k = n THEN group ELSE group \o e[n - k - 1]
<1>1. EncodedAt(s, n, c) = Spot(c) /\ EncodedAt(s, n, d) = Spot(d)
  BY DEF EncodedAt, GroupBytes
<1>2. (k = Full - 1 => n - k \in 0 .. n - 1) /\ (k # Full - 1 /\ k # n => n - k - 1 \in 0 .. n - 1)
  BY FirstGroup
<1>. HIDE DEF k, group
<1>. QED
  BY <1>1, <1>2

LEMMA EncoderIs ==
  ASSUME NEW s \in Seq(Nat)
  PROVE  /\ Encoder(s) \in [0 .. Len(s) -> Seq(Nat)]
         /\ \A n \in 0 .. Len(s) : Encoder(s)[n] = EncodedAt(s, n, Encoder(s))
         /\ CobsEncode(s) = Encoder(s)[Len(s)]
<1>. DEFINE n == Len(s)
            V == Seq(Nat)
            Is(f) == f = [i \in 0 .. n |-> EncodedAt(s, i, f)]
            F == [p \in (0 .. n) \X Below(V, n) |-> EncodedAt(s, p[1], p[2])]
<1>1. n \in Nat
  OBVIOUS
<1>2. ASSUME NEW i \in 0 .. n, NEW g \in [0 .. i - 1 -> V]
      PROVE  F[<<i, g>>] = EncodedAt(s, i, g) /\ EncodedAt(s, i, g) \in V
  <2>1. <<i, g>> \in (0 .. n) \X Below(V, n)
    <3>. HIDE DEF n, V
    <3>. QED
      BY <1>1, BelowIs
  <2>2. \A j \in 0 .. i - 1 : g[j] \in Seq(Nat)
    OBVIOUS
  <2>. QED
    BY <2>1, <2>2, EncodedAtIs
<1>3. PICK f \in [0 .. n -> V] : Computes(F, n, f)
  <2>. HIDE DEF F, n, V
  <2>1. StaysIn(F, n, V)
    BY <1>2 DEF StaysIn
  <2>. QED
    BY <1>1, <2>1, Recursion
<1>4. ASSUME NEW i \in 0 .. n PROVE f[i] = EncodedAt(s, i, f)
  <2>. DEFINE g == [k \in 0 .. i - 1 |-> f[k]]
  <2>1. g \in [0 .. i - 1 -> V] /\ \A j \in 0 .. i - 1 : g[j] = f[j]
    <3>1. \A k \in 0 .. i - 1 : k \in 0 .. n
      BY <1>1
    <3>. HIDE DEF n, V
    <3>. QED
      BY <3>1
  <2>2. f[i] = F[<<i, g>>]
    BY <1>3 DEF Computes
  <2>3. F[<<i, g>>] = EncodedAt(s, i, g)
    <3>. HIDE DEF g, F, n, V
    <3>. QED
      BY <1>2, <2>1
  <2>4. EncodedAt(s, i, g) = EncodedAt(s, i, f)
    <3>. HIDE DEF g
    <3>. QED
      BY <2>1, EncodedAtSame
  <2>. HIDE DEF g, F
  <2>. QED
    BY <2>2, <2>3, <2>4
<1>5. Is(f)
  <2>. HIDE DEF F
  <2>. QED
    BY <1>3, <1>4
<1>6. Is(Encoder(s))
  <2>1. Encoder(s) = CHOOSE e : Is(e)
    BY DEF Encoder
  <2>. HIDE DEF Is
  <2>. QED
    BY <1>5, <2>1
<1>7. CobsEncode(s) = Encoder(s)[n]
  BY DEF CobsEncode, Encoder, EncodedAt
<1>8. \A i \in 0 .. n : Encoder(s)[i] = EncodedAt(s, i, Encoder(s))
  <2>. HIDE DEF n
  <2>1. Encoder(s) = [i \in 0 .. n |-> EncodedAt(s, i, Encoder(s))]
    BY <1>6
  <2>. DEFINE e == Encoder(s)
  <2>. HIDE DEF e
  <2>2. e = [i \in 0 .. n |-> EncodedAt(s, i, e)]
    BY <2>1 DEF e
  <2>3. \A i \in 0 .. n : e[i] = EncodedAt(s, i, e)
    BY <2>2
  <2>. QED
    BY <2>3 DEF e
<1>. DEFINE T == {i \in 0 .. n : Encoder(s)[i] \in V}
<1>9. T = 0 .. n
  <2>1. ASSUME NEW i \in 0 .. n, \A k \in 0 .. i - 1 : k \in T PROVE i \in T
    <3>1. \A k \in 0 .. i - 1 : Encoder(s)[k] \in V
      BY <2>1
    <3>2. EncodedAt(s, i, Encoder(s)) \in V
      BY <3>1, EncodedAtIs
    <3>. QED
      BY <1>8, <3>2
  <2>2. T \in SUBSET (0 .. n)
    OBVIOUS
  <2>. HIDE DEF T, n
  <2>. QED
    BY <1>1, <2>1, <2>2, Climb
<1>10. Encoder(s) \in [0 .. n -> V]
  <2>1. \A i \in 0 .. n : Encoder(s)[i] \in V
    BY <1>9
  <2>2. Encoder(s) = [i \in 0 .. n |-> EncodedAt(s, i, Encoder(s))]
    BY <1>6
  <2>3. \A i \in 0 .. n : EncodedAt(s, i, Encoder(s)) \in V
    BY <1>8, <2>1
  <2>. DEFINE e == Encoder(s)
              A(i) == EncodedAt(s, i, Encoder(s))
  <2>. HIDE DEF n, V, e
  <2>4. e = [i \in 0 .. n |-> A(i)] /\ \A i \in 0 .. n : A(i) \in V
    BY <2>2, <2>3 DEF e
  <2>. HIDE DEF A
  <2>5. e \in [0 .. n -> V]
    BY <2>4
  <2>. QED
    BY <2>5 DEF e
<1>. QED
  BY <1>7, <1>8, <1>10

-----------------------------------------------------------------------------
(***************************************************************************)
(* What is encoded holds no delimiter and is not longer than it may be.    *)
(***************************************************************************)
NoZero(s) == \A i \in 1 .. Len(s) : s[i] # 0

LEMMA DivIs ==
  ASSUME NEW m \in Nat \ {0}, NEW a \in Int
  PROVE  a \div m \in Int /\ (a % m) \in 0 .. m - 1 /\ a = m * (a \div m) + (a % m)
OBVIOUS

LEMMA DivOf ==
  ASSUME NEW m \in Nat \ {0}, NEW q \in Int, NEW r \in 0 .. m - 1, NEW a \in Int, a = m * q + r
  PROVE  a \div m = q /\ a % m = r
OBVIOUS

\* A full group less is one less; what is shorter is not in more groups.
LEMMA DivGroups ==
  ASSUME NEW m \in Nat \ {0}, NEW n \in Nat
  PROVE  /\ n \div m \in Nat
         /\ n >= m => (n - m) \div m = (n \div m) - 1
         /\ \A i \in 0 .. n : i \div m <= n \div m
<1>. DEFINE q == n \div m
            r == n % m
<1>1. q \in Int /\ r \in 0 .. m - 1 /\ n = m * q + r
  BY DivIs
<1>. HIDE DEF q, r
<1>2. q \in Nat
  <2>1. ASSUME q < 0 PROVE FALSE
    <3>1. q + 1 <= 0 /\ m >= 0 /\ m * (q + 1) = m * q + m
      BY <1>1, <2>1
    <3>2. m * (q + 1) <= 0
      BY <1>1, <3>1
    <3>. QED
      BY <1>1, <3>1, <3>2
  <2>. QED
    BY <1>1, <2>1
<1>3. ASSUME n >= m PROVE (n - m) \div m = q - 1
  <2>1. m * (q - 1) = m * q - m
    BY <1>1
  <2>2. q - 1 \in Int /\ n - m \in Int /\ n - m = m * (q - 1) + r
    BY <1>1, <2>1
  <2>. QED
    BY <1>1, <2>2, DivOf
<1>4. ASSUME NEW i \in 0 .. n PROVE i \div m <= q
  <2>. DEFINE p == i \div m
              t == i % m
  <2>1. p \in Int /\ t \in 0 .. m - 1 /\ i = m * p + t /\ i \in Nat
    BY DivIs
  <2>. HIDE DEF p, t
  <2>2. ASSUME p > q PROVE FALSE
    <3>1. PICK d \in Nat : p = q + 1 + d
      <4>1. (p - q) - 1 \in Nat /\ p = q + 1 + ((p - q) - 1)
        BY <1>1, <2>1, <2>2
      <4>. QED
        BY <4>1
    <3>2. m * p = m * q + m + m * d
      BY <1>1, <2>1, <3>1
    <3>3. m * d \in Nat /\ m * q \in Int /\ m * p \in Int
      BY <1>1, <2>1, <3>1
    <3>. DEFINE md == m * d
                mq == m * q
                mp == m * p
    <3>4. md \in Nat /\ mq \in Int /\ mp \in Int /\ mp = mq + m + md /\ i = mp + t /\ n = mq + r
      BY <1>1, <2>1, <3>2, <3>3
    <3>. HIDE DEF md, mq, mp
    <3>. QED
      BY <1>1, <2>1, <3>4
  <2>. QED
    BY <1>1, <2>1, <2>2 DEF p
<1>. QED
  BY <1>2, <1>3, <1>4 DEF q

LEMMA EncodedCases ==
  ASSUME NEW s \in Seq(Nat), NEW n \in 0 .. Len(s), NEW k, k = GroupOf(Back(s, n)),
         NEW c, c = Encoder(s)
  PROVE  /\ k = Full - 1 => c[n] = GroupBytes(s, n) \o c[n - k]
         /\ k # Full - 1 /\ k = n => c[n] = GroupBytes(s, n)
         /\ k # Full - 1 /\ k # n => c[n] = GroupBytes(s, n) \o c[n - k - 1]
<1>1. c[n] = EncodedAt(s, n, c)
  BY EncoderIs
<1>2. EncodedAt(s, n, c) = IF k = Full - 1 THEN GroupBytes(s, n) \o c[n - k]
                           ELSE IF k = n THEN GroupBytes(s, n) ELSE GroupBytes(s, n) \o c[n - k - 1]
  BY DEF EncodedAt, GroupBytes
<1>. QED
  BY <1>1, <1>2

LEMMA GroupHasNoZero ==
  ASSUME NEW s \in Seq(Nat), NEW n \in 0 .. Len(s) PROVE NoZero(GroupBytes(s, n))
<1>. DEFINE k == GroupOf(Back(s, n))
            g == GroupBytes(s, n)
            b == Back(s, n)
<1>1. /\ k \in Nat /\ Len(g) = k + 1 /\ g[1] = k + 1
      /\ (\A i \in 1 .. k : g[i + 1] = b[i]) /\ \A i \in 1 .. k : b[i] # 0
  BY FirstGroup
<1>. HIDE DEF k, g, b
<1>2. ASSUME NEW i \in 1 .. Len(g) PROVE g[i] # 0
  <2>1. CASE i = 1
    BY <1>1, <2>1
  <2>2. CASE i # 1
    <3>1. i - 1 \in 1 .. k /\ (i - 1) + 1 = i
      BY <1>1, <2>2
    <3>. QED
      BY <1>1, <3>1
  <2>. QED
    BY <2>1, <2>2
<1>. QED
  BY <1>2 DEF NoZero, g

LEMMA NoZeroJoined ==
  ASSUME NEW s \in Seq(Nat), NEW t \in Seq(Nat), NoZero(s), NoZero(t) PROVE NoZero(s \o t)
<1>1. ASSUME NEW i \in 1 .. Len(s) + Len(t) PROVE (s \o t)[i] # 0
  <2>1. CASE i <= Len(s)
    BY <2>1 DEF NoZero
  <2>2. CASE i > Len(s)
    <3>1. i - Len(s) \in 1 .. Len(t) /\ (s \o t)[i] = t[i - Len(s)]
      BY <2>2
    <3>. QED
      BY <3>1 DEF NoZero
  <2>. QED
    BY <2>1, <2>2
<1>. QED
  BY <1>1 DEF NoZero

\* Every byte of an encoding is one, and there are one to CobsMaxEncoded(n) of them.
Stuffed(e, n) == e \in Seq(Nat) /\ NoZero(e) /\ Len(e) >= 1 /\ Len(e) <= CobsMaxEncoded(n)

LEMMA EncodedIs ==
  ASSUME NEW s \in Seq(Nat)
  PROVE  \A n \in 0 .. Len(s) : Stuffed(Encoder(s)[n], n)
<1>. DEFINE c == Encoder(s)
            m == Full - 1
            T == {n \in 0 .. Len(s) : Stuffed(c[n], n)}
<1>1. Len(s) \in Nat /\ m \in Nat \ {0}
  BY WireAssumption
<1>2. ASSUME NEW n \in 0 .. Len(s), \A j \in 0 .. n - 1 : j \in T PROVE n \in T
  <2>. DEFINE k == GroupOf(Back(s, n))
              g == GroupBytes(s, n)
  <2>1. /\ k \in 0 .. m /\ k <= n /\ n \in Nat /\ g \in Seq(Nat) /\ Len(g) = k + 1
        /\ k = m => n - k \in 0 .. n - 1
        /\ k # m /\ k # n => n - k - 1 \in 0 .. n - 1
    BY FirstGroup
  <2>2. NoZero(g)
    BY GroupHasNoZero
  <2>3. /\ k = m => c[n] = g \o c[n - k]
        /\ k # m /\ k = n => c[n] = g
        /\ k # m /\ k # n => c[n] = g \o c[n - k - 1]
    BY EncodedCases
  <2>. HIDE DEF k, g
  <2>4. \A j \in 0 .. n - 1 : Stuffed(c[j], j)
    BY <1>2
  <2>. HIDE DEF c, m, T
  <2>5. n \div m \in Nat /\ (n >= m => (n - m) \div m = (n \div m) - 1) /\ \A i \in 0 .. n : i \div m <= n \div m
    BY <1>1, <2>1, DivGroups
  <2>. DEFINE q == n \div m
  <2>6. CobsMaxEncoded(n) = n + q + 1 /\ q \in Nat
    BY <2>1, <2>5 DEF CobsMaxEncoded, m
  <2>7. CASE k = m
    <3>. DEFINE j == n - k
    <3>1. j \in 0 .. n - 1 /\ c[n] = g \o c[j] /\ Stuffed(c[j], j)
      BY <2>1, <2>3, <2>4, <2>7
    <3>2. j \div m = q - 1 /\ CobsMaxEncoded(j) = j + (q - 1) + 1
      <4>1. j = n - m /\ n >= m
        BY <1>1, <2>1, <2>7
      <4>2. j \div m = q - 1
        BY <2>5, <4>1
      <4>. QED
        BY <4>2 DEF CobsMaxEncoded, m
    <3>3. c[n] \in Seq(Nat) /\ Len(c[n]) = k + 1 + Len(c[j]) /\ Len(c[j]) \in Nat
      <4>1. c[j] \in Seq(Nat)
        BY <3>1 DEF Stuffed
      <4>. DEFINE rest == c[j]
      <4>2. c[n] = g \o rest /\ rest \in Seq(Nat)
        BY <3>1, <4>1
      <4>. HIDE DEF j, rest
      <4>3. g \o rest \in Seq(Nat) /\ Len(g \o rest) = Len(g) + Len(rest)
        BY <2>1, <4>2, ConcatProperties
      <4>. QED
        BY <2>1, <4>2, <4>3 DEF rest
    <3>4. NoZero(c[n])
      BY <2>1, <2>2, <3>1, NoZeroJoined DEF Stuffed
    <3>5. Len(c[n]) >= 1 /\ Len(c[n]) <= n + q + 1
      <4>. DEFINE all == Len(c[n])
                  behind == Len(c[j])
      <4>1. behind <= j + (q - 1) + 1 /\ j \in Nat /\ k \in Nat /\ k + j = n
        BY <2>1, <3>1, <3>2 DEF Stuffed
      <4>2. all = k + 1 + behind /\ behind \in Nat /\ all \in Nat
        BY <3>3
      <4>. HIDE DEF j, q, all, behind
      <4>3. all >= 1 /\ all <= n + q + 1
        BY <2>1, <2>6, <4>1, <4>2
      <4>. QED
        BY <4>3 DEF all
    <3>. QED
      BY <2>6, <3>3, <3>4, <3>5 DEF Stuffed, T
  <2>8. CASE k # m /\ k = n
    <3>1. c[n] \in Seq(Nat) /\ NoZero(c[n]) /\ Len(c[n]) = n + 1
      BY <2>1, <2>2, <2>3, <2>8
    <3>2. Len(c[n]) >= 1 /\ Len(c[n]) <= n + q + 1
      <4>. HIDE DEF q
      <4>. QED
        BY <2>1, <2>6, <3>1
    <3>. QED
      BY <2>6, <3>1, <3>2 DEF Stuffed, T
  <2>9. CASE k # m /\ k # n
    <3>. DEFINE j == n - k - 1
    <3>1. j \in 0 .. n - 1 /\ c[n] = g \o c[j] /\ Stuffed(c[j], j)
      BY <2>1, <2>3, <2>4, <2>9
    <3>2. j \div m <= q /\ j \div m \in Int /\ CobsMaxEncoded(j) = j + (j \div m) + 1
      <4>1. j \in 0 .. n /\ j \in Nat
        BY <2>1, <3>1
      <4>. HIDE DEF j
      <4>2. j \div m \in Nat
        BY <1>1, <4>1, DivGroups
      <4>. QED
        BY <2>5, <4>1, <4>2 DEF CobsMaxEncoded, m
    <3>3. c[n] \in Seq(Nat) /\ Len(c[n]) = k + 1 + Len(c[j]) /\ Len(c[j]) \in Nat
      <4>1. c[j] \in Seq(Nat)
        BY <3>1 DEF Stuffed
      <4>. DEFINE rest == c[j]
      <4>2. c[n] = g \o rest /\ rest \in Seq(Nat)
        BY <3>1, <4>1
      <4>. HIDE DEF j, rest
      <4>3. g \o rest \in Seq(Nat) /\ Len(g \o rest) = Len(g) + Len(rest)
        BY <2>1, <4>2, ConcatProperties
      <4>. QED
        BY <2>1, <4>2, <4>3 DEF rest
    <3>4. NoZero(c[n])
      BY <2>1, <2>2, <3>1, NoZeroJoined DEF Stuffed
    <3>5. Len(c[n]) >= 1 /\ Len(c[n]) <= n + q + 1
      <4>. DEFINE p == j \div m
      <4>. DEFINE all == Len(c[n])
                  behind == Len(c[j])
      <4>1. behind <= j + p + 1 /\ p <= q /\ p \in Int /\ j \in Nat /\ k \in Nat /\ k + j + 1 = n
        BY <2>1, <3>1, <3>2 DEF Stuffed
      <4>2. all = k + 1 + behind /\ behind \in Nat /\ all \in Nat
        BY <3>3
      <4>. HIDE DEF j, q, p, all, behind
      <4>3. all >= 1 /\ all <= n + q + 1
        BY <2>1, <2>6, <4>1, <4>2
      <4>. QED
        BY <4>3 DEF all
    <3>. QED
      BY <2>6, <3>3, <3>4, <3>5 DEF Stuffed, T
  <2>. QED
    BY <2>7, <2>8, <2>9
<1>3. T = 0 .. Len(s)
  <2>1. T \in SUBSET (0 .. Len(s))
    OBVIOUS
  <2>. HIDE DEF T
  <2>. QED
    BY <1>1, <1>2, <2>1, Climb
<1>. QED
  BY <1>3

-----------------------------------------------------------------------------
(***************************************************************************)
(* The decoder, unfolded: what it makes of the last n bytes.               *)
(***************************************************************************)
Nothing == [ok |-> TRUE, out |-> <<>>]
Decoded == [ok : BOOLEAN, out : Seq(Nat)]

\* The zero that a group stands for, if it does.
ZeroOf(s, n) == IF s[1] # Full /\ s[1] < n THEN <<0>> ELSE <<>>

DecodedAt(e, n, d) ==
    LET s    == Back(e, n)
        rest == d[n - s[1]]
        zero == IF s[1] # Full /\ s[1] < n THEN <<0>> ELSE <<>>
    IN  IF n = 0 THEN [ok |-> TRUE, out |-> <<>>]
        ELSE IF ~IsGroup(s) THEN Malformed
        ELSE IF ~rest.ok THEN Malformed
        ELSE [ok |-> TRUE, out |-> SubSeq(s, 2, s[1]) \o zero \o rest.out]

\* The function that CobsDecode defines.
Decoder(e) == CHOOSE f : f = [n \in 0 .. Len(e) |-> DecodedAt(e, n, f)]

\* What is behind a group is shorter.
LEMMA Shorter ==
  ASSUME NEW e \in Seq(Nat), NEW n \in 0 .. Len(e), n # 0, IsGroup(Back(e, n))
  PROVE  /\ n - Back(e, n)[1] \in 0 .. n - 1
         /\ SubSeq(Back(e, n), 2, Back(e, n)[1]) \in Seq(Nat)
<1>. DEFINE s == Back(e, n)
<1>1. s \in Seq(Nat) /\ Len(s) = n /\ n \in Nat
  BY BackIs
<1>2. s[1] # 0 /\ s[1] <= Len(s)
  BY DEF IsGroup
<1>. HIDE DEF s
<1>3. s[1] \in Nat
  BY <1>1
<1>4. n - s[1] \in 0 .. n - 1
  BY <1>1, <1>2, <1>3
<1>5. SubSeq(s, 2, s[1]) \in Seq(Nat)
  BY <1>1, <1>2, <1>3
<1>. QED
  BY <1>4, <1>5 DEF s

LEMMA DecodedAtIs ==
  ASSUME NEW e \in Seq(Nat), NEW n \in 0 .. Len(e), NEW d, \A j \in 0 .. n - 1 : d[j] \in Decoded
  PROVE  DecodedAt(e, n, d) \in Decoded
<1>. DEFINE s == Back(e, n)
            rest == d[n - s[1]]
            zero == ZeroOf(s, n)
<1>1. DecodedAt(e, n, d) = IF n = 0 THEN Nothing ELSE IF ~IsGroup(s) THEN Malformed ELSE IF ~rest.ok THEN Malformed
                           ELSE [ok |-> TRUE, out |-> SubSeq(s, 2, s[1]) \o zero \o rest.out]
  BY DEF DecodedAt, ZeroOf, Nothing
<1>2. Malformed \in Decoded /\ Nothing \in Decoded
  BY DEF Malformed, Decoded, Nothing
<1>3. ASSUME n # 0, IsGroup(s) PROVE [ok |-> TRUE, out |-> SubSeq(s, 2, s[1]) \o zero \o rest.out] \in Decoded
  <2>1. n - s[1] \in 0 .. n - 1 /\ SubSeq(s, 2, s[1]) \in Seq(Nat)
    BY <1>3, Shorter
  <2>2. rest \in Decoded
    BY <2>1
  <2>3. rest.out \in Seq(Nat)
    <3>. HIDE DEF rest
    <3>. QED
      BY <2>2 DEF Decoded
  <2>4. zero \in Seq(Nat)
    BY DEF ZeroOf
  <2>. DEFINE a == SubSeq(s, 2, s[1])
              b == rest.out
  <2>. HIDE DEF a, b, zero
  <2>5. a \o zero \o b \in Seq(Nat)
    BY <2>1, <2>3, <2>4 DEF a, b
  <2>. QED
    BY <2>5 DEF a, b, Decoded
<1>. HIDE DEF s, rest, zero
<1>. QED
  BY <1>1, <1>2, <1>3

LEMMA DecodedAtSame ==
  ASSUME NEW e \in Seq(Nat), NEW n \in 0 .. Len(e), NEW c, NEW d, \A j \in 0 .. n - 1 : c[j] = d[j]
  PROVE  DecodedAt(e, n, c) = DecodedAt(e, n, d)
<1>. DEFINE s == Back(e, n)
            a == SubSeq(s, 2, s[1])
            zero == ZeroOf(s, n)
            Spot(r) == IF n = 0 THEN Nothing ELSE IF ~IsGroup(s) THEN Malformed ELSE IF ~r.ok THEN Malformed
                     ELSE [ok |-> TRUE, out |-> a \o zero \o r.out]
<1>1. DecodedAt(e, n, c) = Spot(c[n - s[1]]) /\ DecodedAt(e, n, d) = Spot(d[n - s[1]])
  BY DEF DecodedAt, ZeroOf, Nothing
<1>2. n # 0 /\ IsGroup(s) => n - s[1] \in 0 .. n - 1
  BY Shorter
<1>3. CASE n # 0 /\ IsGroup(s)
  <2>1. c[n - s[1]] = d[n - s[1]]
    BY <1>2, <1>3
  <2>. HIDE DEF Spot
  <2>. QED
    BY <1>1, <2>1
<1>. HIDE DEF s, a, zero
<1>4. CASE n = 0
  <2>1. Spot(c[n - s[1]]) = Nothing /\ Spot(d[n - s[1]]) = Nothing
    BY <1>4
  <2>. HIDE DEF Spot
  <2>. QED
    BY <1>1, <2>1
<1>5. CASE n # 0 /\ ~IsGroup(s)
  <2>1. Spot(c[n - s[1]]) = Malformed /\ Spot(d[n - s[1]]) = Malformed
    BY <1>5
  <2>. HIDE DEF Spot
  <2>. QED
    BY <1>1, <2>1
<1>. QED
  BY <1>3, <1>4, <1>5

LEMMA DecoderIs ==
  ASSUME NEW e \in Seq(Nat)
  PROVE  /\ \A n \in 0 .. Len(e) : Decoder(e)[n] \in Decoded
         /\ \A n \in 0 .. Len(e) : Decoder(e)[n] = DecodedAt(e, n, Decoder(e))
         /\ CobsDecode(e) = Decoder(e)[Len(e)].out
<1>. DEFINE n == Len(e)
            V == Decoded
            Is(f) == f = [i \in 0 .. n |-> DecodedAt(e, i, f)]
            F == [p \in (0 .. n) \X Below(V, n) |-> DecodedAt(e, p[1], p[2])]
<1>1. n \in Nat
  OBVIOUS
<1>2. ASSUME NEW i \in 0 .. n, NEW g \in [0 .. i - 1 -> V]
      PROVE  F[<<i, g>>] = DecodedAt(e, i, g) /\ DecodedAt(e, i, g) \in V
  <2>1. <<i, g>> \in (0 .. n) \X Below(V, n)
    <3>. HIDE DEF n, V
    <3>. QED
      BY <1>1, BelowIs
  <2>2. \A j \in 0 .. i - 1 : g[j] \in Decoded
    OBVIOUS
  <2>. QED
    BY <2>1, <2>2, DecodedAtIs
<1>3. PICK f \in [0 .. n -> V] : Computes(F, n, f)
  <2>. HIDE DEF F, n, V
  <2>1. StaysIn(F, n, V)
    BY <1>2 DEF StaysIn
  <2>. QED
    BY <1>1, <2>1, Recursion
<1>4. ASSUME NEW i \in 0 .. n PROVE f[i] = DecodedAt(e, i, f)
  <2>. DEFINE g == [k \in 0 .. i - 1 |-> f[k]]
  <2>1. g \in [0 .. i - 1 -> V] /\ \A j \in 0 .. i - 1 : g[j] = f[j]
    <3>1. \A k \in 0 .. i - 1 : k \in 0 .. n
      BY <1>1
    <3>. HIDE DEF n, V
    <3>. QED
      BY <3>1
  <2>2. f[i] = F[<<i, g>>]
    BY <1>3 DEF Computes
  <2>3. F[<<i, g>>] = DecodedAt(e, i, g)
    <3>. HIDE DEF g, F, n, V
    <3>. QED
      BY <1>2, <2>1
  <2>4. DecodedAt(e, i, g) = DecodedAt(e, i, f)
    <3>. HIDE DEF g
    <3>. QED
      BY <2>1, DecodedAtSame
  <2>. HIDE DEF g, F
  <2>. QED
    BY <2>2, <2>3, <2>4
<1>5. Is(f)
  <2>. HIDE DEF F
  <2>. QED
    BY <1>3, <1>4
<1>6. Is(Decoder(e))
  <2>1. Decoder(e) = CHOOSE f_1 : Is(f_1)
    BY DEF Decoder
  <2>. HIDE DEF Is
  <2>. QED
    BY <1>5, <2>1
<1>7. CobsDecode(e) = Decoder(e)[n].out
  BY DEF CobsDecode, Decoder, DecodedAt
<1>8. \A i \in 0 .. n : Decoder(e)[i] = DecodedAt(e, i, Decoder(e))
  <2>. HIDE DEF n
  <2>1. Decoder(e) = [i \in 0 .. n |-> DecodedAt(e, i, Decoder(e))]
    BY <1>6
  <2>. DEFINE d == Decoder(e)
  <2>. HIDE DEF d
  <2>2. d = [i \in 0 .. n |-> DecodedAt(e, i, d)]
    BY <2>1 DEF d
  <2>3. \A i \in 0 .. n : d[i] = DecodedAt(e, i, d)
    BY <2>2
  <2>. QED
    BY <2>3 DEF d
<1>. DEFINE T == {i \in 0 .. n : Decoder(e)[i] \in V}
<1>9. T = 0 .. n
  <2>1. ASSUME NEW i \in 0 .. n, \A k \in 0 .. i - 1 : k \in T PROVE i \in T
    <3>1. \A k \in 0 .. i - 1 : Decoder(e)[k] \in V
      BY <2>1
    <3>2. DecodedAt(e, i, Decoder(e)) \in V
      BY <3>1, DecodedAtIs
    <3>. QED
      BY <1>8, <3>2
  <2>2. T \in SUBSET (0 .. n)
    OBVIOUS
  <2>. HIDE DEF T, n
  <2>. QED
    BY <1>1, <2>1, <2>2, Climb
<1>. QED
  BY <1>7, <1>8, <1>9

-----------------------------------------------------------------------------
(***************************************************************************)
(* What is encoded is decoded: from the last group to the first.           *)
(***************************************************************************)
Ends(e, x) == Len(x) <= Len(e) /\ Back(e, Len(x)) = x

LEMMA EndsBehind ==
  ASSUME NEW e \in Seq(Nat), NEW g \in Seq(Nat), NEW y \in Seq(Nat), Ends(e, g \o y)
  PROVE  Ends(e, y)
<1>. DEFINE x == g \o y
            lx == Len(g) + Len(y)
            ly == Len(y)
            le == Len(e)
<1>1. /\ x \in Seq(Nat) /\ Len(x) = lx /\ ly \in Nat /\ le \in Nat /\ Len(g) \in Nat
      /\ \A i \in 1 .. ly : x[Len(g) + i] = y[i]
  OBVIOUS
<1>2. lx <= le /\ Back(e, lx) = x
  BY <1>1 DEF Ends
<1>3. lx \in 0 .. le /\ ly \in 0 .. le
  BY <1>1, <1>2
<1>4. \A i \in 1 .. lx : Back(e, lx)[i] = e[le - lx + i]
  BY <1>3, BackIs
<1>5. Back(e, ly) \in Seq(Nat) /\ Len(Back(e, ly)) = ly /\ \A i \in 1 .. ly : Back(e, ly)[i] = e[le - ly + i]
  BY <1>3, BackIs
<1>6. ASSUME NEW i \in 1 .. ly PROVE Back(e, ly)[i] = y[i]
  <2>1. Len(g) + i \in 1 .. lx /\ le - lx + (Len(g) + i) = le - ly + i
    BY <1>1
  <2>2. y[i] = e[le - lx + (Len(g) + i)]
    <3>1. y[i] = x[Len(g) + i]
      BY <1>1
    <3>. HIDE DEF x, lx, le
    <3>. QED
      BY <1>2, <1>4, <2>1, <3>1
  <2>. QED
    BY <1>5, <2>1, <2>2
<1>7. Back(e, ly) = y
  <2>. DEFINE b == Back(e, ly)
  <2>1. b \in Seq(Nat) /\ Len(b) = Len(y) /\ \A i \in 1 .. Len(y) : b[i] = y[i]
    BY <1>5, <1>6
  <2>. HIDE DEF b
  <2>2. b = y
    BY <2>1, SeqEqual
  <2>. QED
    BY <2>2 DEF b
<1>. QED
  BY <1>1, <1>3, <1>7 DEF Ends

\* What a group of k bytes decodes to, before y, which decodes to o.
ZeroBefore(k, y)    == IF k + 1 # Full /\ Len(y) > 0 THEN <<0>> ELSE <<>>
Grouped(g, k, y, o) == [ok |-> TRUE, out |-> SubSeq(g, 2, k + 1) \o ZeroBefore(k, y) \o o]

OfGroup(g, k)       == g \in Seq(Nat) /\ Len(g) = k + 1 /\ g[1] = k + 1 /\ NoZero(g)
DecodesTo(e, y, o)  == Ends(e, y) /\ Decoder(e)[Len(y)] = [ok |-> TRUE, out |-> o]

LEMMA DecodedGroup ==
  ASSUME NEW e \in Seq(Nat), NEW g, NEW y \in Seq(Nat), NEW k \in Nat, NEW o \in Seq(Nat),
         OfGroup(g, k), Ends(e, g \o y), DecodesTo(e, y, o)
  PROVE  Decoder(e)[Len(g \o y)] = Grouped(g, k, y, o)
<1>. USE DEF OfGroup, DecodesTo
<1>. DEFINE x == g \o y
            m == Len(x)
            d == Decoder(e)
            s == Back(e, m)
<1>1. /\ x \in Seq(Nat) /\ m = k + 1 + Len(y) /\ Len(y) \in Nat
      /\ x[1] = k + 1 /\ \A i \in 1 .. k + 1 : x[i] = g[i]
  <2>1. /\ x \in Seq(Nat) /\ m = Len(g) + Len(y) /\ Len(y) \in Nat
        /\ \A i \in 1 .. Len(g) + Len(y) : x[i] = IF i <= Len(g) THEN g[i] ELSE y[i - Len(g)]
    <3>1. Len(y) \in Nat
      OBVIOUS
    <3>2. x \in Seq(Nat) /\ m = Len(g) + Len(y)
      BY ConcatProperties
    <3>3. ASSUME NEW i \in 1 .. Len(g) + Len(y) PROVE x[i] = IF i <= Len(g) THEN g[i] ELSE y[i - Len(g)]
      BY ConcatProperties
    <3>. QED
      BY <3>1, <3>2, <3>3
  <2>2. \A i \in 1 .. k + 1 : i \in 1 .. Len(g) + Len(y) /\ i <= Len(g)
    BY <2>1
  <2>. HIDE DEF x, m
  <2>3. \A i \in 1 .. k + 1 : x[i] = g[i]
    BY <2>1, <2>2
  <2>4. 1 \in 1 .. k + 1
    OBVIOUS
  <2>. QED
    BY <2>1, <2>3, <2>4
<1>2. m \in 0 .. Len(e) /\ s = x /\ m # 0
  BY <1>1 DEF Ends
<1>. DEFINE head == SubSeq(x, 2, k + 1)
<1>3. head = SubSeq(g, 2, k + 1) /\ head \in Seq(Nat) /\ Len(head) = k /\ \A i \in 1 .. k : head[i] = g[i + 1]
  <2>. DEFINE b == k + 1
              tail == SubSeq(g, 2, b)
  <2>1. /\ g \in Seq(Nat) /\ Len(g) = b /\ b \in 1 .. Len(x) /\ b - 1 = k /\ \A i \in 1 .. b : x[i] = g[i]
        /\ \A i \in 1 .. k : 1 + i = i + 1 /\ 1 + i \in 1 .. b
    <3>. HIDE DEF x
    <3>. QED
      BY <1>1
  <2>. HIDE DEF x, b
  <2>2. SubSeq(x, 2, b) \in Seq(Nat) /\ Len(SubSeq(x, 2, b)) = k /\ \A i \in 1 .. k : SubSeq(x, 2, b)[i] = x[1 + i]
    <3>1. 1 \in Nat /\ b \in 1 .. Len(x) /\ 1 + 1 = 2
      BY <2>1
    <3>2. /\ SubSeq(x, 1 + 1, b) \in Seq(Nat) /\ Len(SubSeq(x, 1 + 1, b)) = b - 1
          /\ \A i \in 1 .. b - 1 : SubSeq(x, 1 + 1, b)[i] = x[1 + i]
      BY <1>1, <3>1, CutIs
    <3>. QED
      BY <2>1, <3>1, <3>2
  <2>3. tail \in Seq(Nat) /\ Len(tail) = k /\ \A i \in 1 .. k : tail[i] = g[1 + i]
    <3>1. 1 \in Nat /\ b \in 1 .. Len(g) /\ 1 + 1 = 2
      BY <2>1
    <3>2. /\ SubSeq(g, 1 + 1, b) \in Seq(Nat) /\ Len(SubSeq(g, 1 + 1, b)) = b - 1
          /\ \A i \in 1 .. b - 1 : SubSeq(g, 1 + 1, b)[i] = g[1 + i]
      BY <2>1, <3>1, CutIs
    <3>. QED
      BY <2>1, <3>1, <3>2
  <2>. HIDE DEF tail
  <2>4. head = SubSeq(x, 2, b)
    BY DEF b
  <2>. HIDE DEF head
  <2>5. ASSUME NEW i \in 1 .. k PROVE head[i] = tail[i]
    <3>1. head[i] = x[1 + i] /\ tail[i] = g[1 + i]
      BY <2>2, <2>3, <2>4
    <3>. QED
      BY <2>1, <3>1
  <2>6. Len(head) = k /\ head \in Seq(Nat)
    BY <2>2, <2>4
  <2>7. head = tail
    BY <2>3, <2>5, <2>6, SeqEqual
  <2>8. \A i \in 1 .. k : head[i] = g[i + 1]
    BY <2>1, <2>3, <2>7
  <2>. QED
    BY <2>6, <2>7, <2>8 DEF tail, b
<1>4. IsGroup(x)
  <2>1. x[1] # 0 /\ x[1] <= Len(x)
    BY <1>1
  <2>2. 0 \notin RangeOf(head)
    <3>1. \A i \in 1 .. k : head[i] # 0
      <4>1. \A i \in 1 .. k : i + 1 \in 1 .. Len(g)
        OBVIOUS
      <4>. HIDE DEF head
      <4>. QED
        BY <1>3, <4>1 DEF NoZero
    <3>2. DOMAIN head = 1 .. k
      <4>. HIDE DEF head
      <4>. QED
        BY <1>3
    <3>. HIDE DEF head
    <3>. QED
      BY <3>1, <3>2 DEF RangeOf
  <2>. QED
    BY <1>1, <2>1, <2>2 DEF IsGroup
<1>. DEFINE rest == d[Len(y)]
            zero == ZeroBefore(k, y)
<1>5. m - s[1] = Len(y) /\ (s[1] < m <=> Len(y) > 0)
  <2>1. s[1] = k + 1
    <3>. HIDE DEF s, m, x
    <3>. QED
      BY <1>1, <1>2
  <2>. HIDE DEF s, m
  <2>. QED
    BY <1>1, <2>1
<1>6. d[m] = DecodedAt(e, m, d)
  <2>. HIDE DEF m
  <2>. QED
    BY <1>2, DecoderIs
<1>7. DecodedAt(e, m, d) = IF m = 0 THEN Nothing ELSE IF ~IsGroup(s) THEN Malformed
        ELSE IF ~d[m - s[1]].ok THEN Malformed
        ELSE [ok |-> TRUE, out |-> SubSeq(s, 2, s[1]) \o ZeroOf(s, m) \o d[m - s[1]].out]
  BY DEF DecodedAt, ZeroOf, Nothing
<1>8. ZeroOf(s, m) = zero /\ SubSeq(s, 2, s[1]) = head
  <2>1. s[1] = k + 1
    <3>. HIDE DEF s, x
    <3>. QED
      BY <1>1, <1>2
  <2>. HIDE DEF m
  <2>. QED
    BY <1>2, <1>5, <2>1 DEF ZeroOf, ZeroBefore
<1>9. rest.ok /\ rest.out = o
  OBVIOUS
<1>10. d[m] = [ok |-> TRUE, out |-> head \o zero \o o]
  <2>. HIDE DEF d, s, x, m, head, zero, rest
  <2>1. d[m - s[1]] = rest
    BY <1>5 DEF rest
  <2>. QED
    BY <1>2, <1>4, <1>6, <1>7, <1>8, <1>9, <2>1
<1>. QED
  BY <1>3, <1>10 DEF Grouped

\* The last n bytes are their first k and the rest.
LEMMA BackSplits ==
  ASSUME NEW s \in Seq(Nat), NEW n \in 0 .. Len(s), NEW k \in 0 .. n
  PROVE  /\ Back(s, n) = SubSeq(Back(s, n), 1, k) \o Back(s, n - k)
         /\ SubSeq(Back(s, n), 1, k) \in Seq(Nat)
         /\ k < n /\ Back(s, n)[k + 1] = 0 => Back(s, n - k) = <<0>> \o Back(s, n - k - 1)
<1>. DEFINE b == Back(s, n)
            r == n - k
            t == Back(s, r)
            h == SubSeq(b, 1, k)
            ls == Len(s)
<1>1. b \in Seq(Nat) /\ Len(b) = n /\ (\A i \in 1 .. n : b[i] = s[ls - n + i]) /\ n \in Nat /\ k \in Nat /\ r \in 0 .. ls /\ ls \in Nat
  BY BackIs
<1>2. t \in Seq(Nat) /\ Len(t) = r /\ (\A i \in 1 .. r : t[i] = s[ls - r + i])
  <2>. HIDE DEF r
  <2>. QED
    BY <1>1, BackIs
<1>3. h \in Seq(Nat) /\ Len(h) = k /\ \A i \in 1 .. k : h[i] = b[i]
  <2>. HIDE DEF b
  <2>. QED
    BY <1>1
<1>4. b = h \o t
  <2>. DEFINE j == h \o t
  <2>. HIDE DEF b, h, t
  <2>1. j \in Seq(Nat) /\ Len(j) = n /\ \A i \in 1 .. n : j[i] = IF i <= k THEN h[i] ELSE t[i - k]
    <3>1. j \in Seq(Nat) /\ Len(j) = Len(h) + Len(t)
      <4>1. h \in Seq(Nat) /\ t \in Seq(Nat)
        BY <1>2, <1>3
      <4>. QED
        BY <4>1, ConcatProperties
    <3>2. Len(h) = k /\ Len(t) = n - k /\ k + (n - k) = n
      BY <1>1, <1>2, <1>3
    <3>3. ASSUME NEW i \in 1 .. Len(h) + Len(t) PROVE j[i] = IF i <= Len(h) THEN h[i] ELSE t[i - Len(h)]
      <4>1. h \in Seq(Nat) /\ t \in Seq(Nat)
        BY <1>2, <1>3
      <4>. QED
        BY <4>1, ConcatProperties
    <3>. HIDE DEF j
    <3>. QED
      BY <3>1, <3>2, <3>3
  <2>2. ASSUME NEW i \in 1 .. n PROVE j[i] = b[i]
    <3>1. CASE i <= k
      <4>1. i \in 1 .. k
        BY <1>1, <3>1
      <4>2. j[i] = h[i]
        <5>. HIDE DEF j
        <5>. QED
          BY <2>1, <3>1
      <4>3. h[i] = b[i]
        BY <1>3, <4>1
      <4>. QED
        BY <4>2, <4>3
    <3>2. CASE i > k
      <4>1. i - k \in 1 .. r /\ ls - r + (i - k) = ls - n + i
        <5>1. n \in Nat /\ k \in Nat /\ ls \in Nat /\ i \in Nat /\ i <= n
          BY <1>1
        <5>. HIDE DEF ls
        <5>. QED
          BY <3>2, <5>1
      <4>2. j[i] = t[i - k]
        <5>1. ~(i <= k)
          BY <1>1, <3>2
        <5>. HIDE DEF j
        <5>. QED
          BY <2>1, <5>1
      <4>. HIDE DEF j, r, ls
      <4>. QED
        BY <1>1, <1>2, <4>1, <4>2
    <3>3. i <= k \/ i > k
      BY <1>1
    <3>. QED
      BY <3>1, <3>2, <3>3
  <2>. HIDE DEF j
  <2>3. j = b
    BY <1>1, <2>1, <2>2, SeqEqual
  <2>. QED
    BY <2>3 DEF j
<1>5. ASSUME k < n, b[k + 1] = 0 PROVE t = <<0>> \o Back(s, r - 1)
  <2>. DEFINE u == Back(s, r - 1)
              j == <<0>> \o u
  <2>1. r - 1 \in 0 .. ls /\ r \in Nat
    BY <1>1, <1>5
  <2>2. u \in Seq(Nat) /\ Len(u) = r - 1 /\ \A i \in 1 .. r - 1 : u[i] = s[ls - (r - 1) + i]
    <3>. DEFINE q == r - 1
    <3>1. q \in 0 .. Len(s)
      BY <2>1
    <3>. HIDE DEF q
    <3>2. Back(s, q) \in Seq(Nat) /\ Len(Back(s, q)) = q /\ \A i \in 1 .. q : Back(s, q)[i] = s[ls - q + i]
      BY <3>1, BackIs
    <3>. QED
      BY <3>2 DEF q
  <2>. HIDE DEF u
  <2>3. j \in Seq(Nat) /\ Len(j) = r /\ j[1] = 0 /\ \A i \in 2 .. r : j[i] = u[i - 1]
    <3>1. <<0>> \in Seq(Nat) /\ Len(<<0>>) = 1 /\ <<0>>[1] = 0
      OBVIOUS
    <3>. HIDE DEF r
    <3>. QED
      BY <2>1, <2>2, <3>1
  <2>4. t[1] = 0
    <3>1. 1 \in 1 .. r /\ k + 1 \in 1 .. n /\ ls - r + 1 = ls - n + (k + 1)
      BY <1>1, <1>5
    <3>. DEFINE j1 == k + 1
    <3>. HIDE DEF t, r, ls, b, j1
    <3>2. j1 \in 1 .. n /\ ls - r + 1 = ls - n + j1 /\ b[j1] = 0
      BY <1>5, <3>1 DEF j1
    <3>3. b[j1] = s[ls - n + j1]
      BY <1>1, <3>2
    <3>4. t[1] = s[ls - r + 1]
      BY <1>2, <3>1
    <3>. QED
      BY <3>2, <3>3, <3>4
  <2>5. ASSUME NEW i \in 1 .. r PROVE j[i] = t[i]
    <3>1. CASE i = 1
      BY <2>3, <2>4, <3>1
    <3>2. CASE i # 1
      <4>1. i \in 2 .. r /\ i - 1 \in 1 .. r - 1 /\ ls - (r - 1) + (i - 1) = ls - r + i
        BY <1>1, <2>1, <3>2
      <4>. HIDE DEF j, t, r, ls
      <4>2. j[i] = u[i - 1]
        BY <2>3, <4>1
      <4>3. u[i - 1] = s[ls - (r - 1) + (i - 1)]
        BY <2>2, <4>1
      <4>. QED
        BY <1>2, <4>1, <4>2, <4>3
    <3>. QED
      BY <3>1, <3>2
  <2>6. j = t
    <3>. HIDE DEF j, t, r
    <3>. QED
      BY <1>2, <2>3, <2>5, SeqEqual
  <2>. QED
    BY <2>6 DEF u
<1>. QED
  BY <1>3, <1>4, <1>5

\* COBS round trip (cobs.h).
THEOREM StuffingIsUndone == ASSUME NEW s \in Seq(Nat) PROVE CobsDecode(CobsEncode(s)) = s
<1>. DEFINE c == Encoder(s)
            e == CobsEncode(s)
            d == Decoder(e)
            Back_(n) == [ok |-> TRUE, out |-> Back(s, n)]
            T == {n \in 0 .. Len(s) : Ends(e, c[n]) => d[Len(c[n])] = Back_(n)}
<1>1. e = c[Len(s)] /\ e \in Seq(Nat) /\ Len(s) \in Nat /\ \A n \in 0 .. Len(s) : c[n] \in Seq(Nat)
  <2>1. c \in [0 .. Len(s) -> Seq(Nat)] /\ e = c[Len(s)]
    BY EncoderIs
  <2>2. Len(s) \in 0 .. Len(s) /\ Len(s) \in Nat
    OBVIOUS
  <2>. HIDE DEF c, e
  <2>. QED
    BY <2>1, <2>2
<1>2. \A n \in 0 .. Len(s) : Back(s, n) \in Seq(Nat) /\ Len(Back(s, n)) = n
  BY BackIs
<1>3. d[0] = Nothing
  <2>1. 0 \in 0 .. Len(e)
    BY <1>1
  <2>2. d[0] = DecodedAt(e, 0, d)
    BY <1>1, <2>1, DecoderIs
  <2>. QED
    BY <2>2 DEF DecodedAt, Nothing
<1>4. ASSUME NEW n \in 0 .. Len(s), \A j \in 0 .. n - 1 : j \in T, Ends(e, c[n]) PROVE d[Len(c[n])] = Back_(n)
  <2>. DEFINE k == GroupOf(Back(s, n))
              g == GroupBytes(s, n)
              b == Back(s, n)
              h == SubSeq(b, 1, k)
  <2>1. /\ k \in 0 .. Full - 1 /\ k <= n /\ n \in Nat /\ Full \in Nat
        /\ g \in Seq(Nat) /\ Len(g) = k + 1 /\ g[1] = k + 1
        /\ \A i \in 1 .. k : g[i + 1] = b[i]
        /\ k = Full - 1 \/ k = n \/ b[k + 1] = 0
        /\ k = Full - 1 => n - k \in 0 .. n - 1
        /\ k # Full - 1 /\ k # n => n - k - 1 \in 0 .. n - 1
    <3>1. n \in Nat /\ Full \in Nat
      BY WireAssumption
    <3>. HIDE DEF T, c, d, e
    <3>2. /\ k \in 0 .. Full - 1 /\ k <= n
          /\ g \in Seq(Nat) /\ Len(g) = k + 1 /\ g[1] = k + 1
          /\ \A i \in 1 .. k : g[i + 1] = b[i]
      BY FirstGroup
    <3>3. /\ k = Full - 1 \/ k = n \/ b[k + 1] = 0
          /\ k = Full - 1 => n - k \in 0 .. n - 1
          /\ k # Full - 1 /\ k # n => n - k - 1 \in 0 .. n - 1
      BY FirstGroup
    <3>. QED
      BY <3>1, <3>2, <3>3
  <2>2. NoZero(g)
    BY GroupHasNoZero
  <2>3. /\ k = Full - 1 => c[n] = g \o c[n - k]
        /\ k # Full - 1 /\ k = n => c[n] = g
        /\ k # Full - 1 /\ k # n => c[n] = g \o c[n - k - 1]
    BY EncodedCases
  <2>4. b \in Seq(Nat) /\ Len(b) = n
    BY <1>2
  <2>. HIDE DEF k, g, b
  <2>13. OfGroup(g, k)
    BY <2>1, <2>2 DEF OfGroup
  <2>5. k \in Nat /\ k \in 0 .. n
    BY <2>1
  <2>6. /\ b = h \o Back(s, n - k) /\ h \in Seq(Nat)
        /\ k < n /\ b[k + 1] = 0 => Back(s, n - k) = <<0>> \o Back(s, n - k - 1)
    BY <2>5, BackSplits DEF b
  <2>7. SubSeq(g, 2, k + 1) = h
    <3>. DEFINE x == SubSeq(g, 2, k + 1)
    <3>1. \A i \in 2 .. k + 1 : g[i] \in Nat
      BY <2>1, <2>5
    <3>2. x \in Seq(Nat) /\ Len(x) = k /\ \A i \in 1 .. k : x[i] = g[i + 1]
      BY <2>1, <2>5, <3>1
    <3>3. h \in Seq(Nat) /\ Len(h) = k /\ \A i \in 1 .. k : h[i] = b[i]
      BY <2>4, <2>5
    <3>. HIDE DEF x, h
    <3>4. Len(x) = Len(h) /\ \A i \in 1 .. Len(x) : x[i] = h[i]
      BY <2>1, <3>2, <3>3
    <3>5. x = h
      BY <3>2, <3>3, <3>4, SeqEqual
    <3>. QED
      BY <3>5 DEF x
  <2>. HIDE DEF h
  <2>8. \A j \in 0 .. n - 1 : j \in 0 .. Len(s) /\ (Ends(e, c[j]) => d[Len(c[j])] = Back_(j))
    BY <1>4
  <2>. DEFINE Zero(y) == ZeroBefore(k, y)
  <2>9. ASSUME NEW j \in 0 .. n - 1, c[n] = g \o c[j]
        PROVE  d[Len(c[n])] = [ok |-> TRUE, out |-> h \o Zero(c[j]) \o Back(s, j)]
    <3>. DEFINE y == c[j]
                o == Back(s, j)
    <3>1. y \in Seq(Nat) /\ o \in Seq(Nat)
      BY <1>1, <1>2, <2>8
    <3>2. Ends(e, g \o y)
      BY <1>4, <2>9
    <3>3. Ends(e, y)
      <4>. HIDE DEF y, e
      <4>. QED
        BY <1>1, <2>1, <3>1, <3>2, EndsBehind
    <3>4. d[Len(y)] = [ok |-> TRUE, out |-> o]
      BY <2>8, <3>3
    <3>5. DecodesTo(e, y, o)
      BY <3>3, <3>4 DEF DecodesTo
    <3>6. d[Len(g \o y)] = Grouped(g, k, y, o)
      <4>. HIDE DEF y, e, o
      <4>. QED
        BY <1>1, <2>5, <2>13, <3>1, <3>2, <3>5, DecodedGroup
    <3>. QED
      BY <2>7, <2>9, <3>6 DEF Grouped
  <2>10. CASE k = Full - 1
    <3>1. n - k \in 0 .. n - 1 /\ c[n] = g \o c[n - k]
      BY <2>1, <2>3, <2>10
    <3>2. d[Len(c[n])] = [ok |-> TRUE, out |-> h \o Zero(c[n - k]) \o Back(s, n - k)]
      <4>. DEFINE j == n - k
      <4>. HIDE DEF j, d, Zero
      <4>1. j \in 0 .. n - 1 /\ c[n] = g \o c[j]
        BY <3>1 DEF j
      <4>2. d[Len(c[n])] = [ok |-> TRUE, out |-> h \o Zero(c[j]) \o Back(s, j)]
        BY <2>9, <4>1
      <4>. QED
        BY <4>2 DEF j
    <3>3. Zero(c[n - k]) = <<>>
      BY <2>1, <2>10 DEF ZeroBefore
    <3>4. h \o <<>> = h
      BY <2>6
    <3>. HIDE DEF Zero
    <3>. QED
      BY <2>6, <3>2, <3>3, <3>4 DEF b
  <2>11. CASE k # Full - 1 /\ k = n
    <3>1. c[n] = g /\ g \o <<>> = g /\ <<>> \in Seq(Nat) /\ Len(<<>>) = 0
      BY <2>1, <2>3, <2>11
    <3>2. Ends(e, g \o <<>>)
      BY <1>4, <3>1
    <3>3. d[Len(g \o <<>>)] = [ok |-> TRUE, out |-> SubSeq(g, 2, k + 1) \o Zero(<<>>) \o <<>>]
      <4>. DEFINE y == <<>>
      <4>1. y \in Seq(Nat) /\ Ends(e, g \o y) /\ d[Len(y)] = [ok |-> TRUE, out |-> <<>>]
        BY <1>3, <3>1, <3>2 DEF Nothing
      <4>3. DecodesTo(e, y, <<>>)
        <5>1. Ends(e, y)
          <6>. HIDE DEF y, e
          <6>. QED
            BY <1>1, <2>1, <4>1, EndsBehind
        <5>. QED
          BY <4>1, <5>1 DEF DecodesTo
      <4>. DEFINE o == <<>>
      <4>4. o \in Seq(Nat) /\ DecodesTo(e, y, o)
        BY <3>1, <4>3
      <4>. HIDE DEF y, e, o
      <4>5. d[Len(g \o y)] = Grouped(g, k, y, o)
        BY <1>1, <2>5, <2>13, <4>1, <4>4, DecodedGroup
      <4>2. d[Len(g \o y)] = Grouped(g, k, y, <<>>)
        BY <4>5 DEF o
      <4>. QED
        BY <4>2 DEF y, Grouped
    <3>4. Zero(<<>>) = <<>> /\ h \o <<>> = h
      BY <2>6, <3>1 DEF ZeroBefore
    <3>5. h = b
      BY <2>4, <2>11 DEF h
    <3>. HIDE DEF Zero, d
    <3>6. h \o Zero(<<>>) \o <<>> = b
      BY <3>4, <3>5
    <3>. QED
      BY <2>7, <3>1, <3>3, <3>6 DEF b
  <2>12. CASE k # Full - 1 /\ k # n
    <3>1. n - k - 1 \in 0 .. n - 1 /\ c[n] = g \o c[n - k - 1] /\ k < n /\ b[k + 1] = 0
      BY <2>1, <2>3, <2>12
    <3>. DEFINE j == n - k - 1
    <3>2. d[Len(c[n])] = [ok |-> TRUE, out |-> h \o Zero(c[j]) \o Back(s, j)]
      <4>1. j \in 0 .. n - 1 /\ c[n] = g \o c[j]
        BY <3>1
      <4>. HIDE DEF j, d, Zero
      <4>. QED
        BY <2>9, <4>1
    <3>3. Zero(c[j]) = <<0>>
      <4>1. j \in 0 .. Len(s)
        BY <2>8, <3>1
      <4>. HIDE DEF j
      <4>2. Stuffed(c[j], j)
        BY <4>1, EncodedIs
      <4>3. Len(c[j]) > 0
        <5>1. Len(c[j]) >= 1 /\ c[j] \in Seq(Nat)
          BY <4>2 DEF Stuffed
        <5>. DEFINE l == Len(c[j])
        <5>2. l >= 1 /\ l \in Nat
          BY <5>1
        <5>. HIDE DEF l
        <5>3. l > 0
          BY <5>2
        <5>. QED
          BY <5>3 DEF l
      <4>4. k + 1 # Full
        BY <2>1, <2>5, <2>12
      <4>. QED
        BY <4>3, <4>4 DEF ZeroBefore
    <3>4. h \o <<0>> \o Back(s, j) = b
      <4>1. <<0>> \in Seq(Nat) /\ Back(s, j) \in Seq(Nat)
        BY <1>2, <2>8, <3>1
      <4>2. b = h \o (<<0>> \o Back(s, j))
        BY <2>6, <3>1
      <4>. DEFINE z == <<0>>
                  o == Back(s, j)
      <4>. HIDE DEF j, z, o
      <4>3. (h \o z) \o o = h \o (z \o o)
        BY <2>6, <4>1, ConcatAssociative DEF z, o
      <4>. QED
        BY <4>2, <4>3 DEF z, o
    <3>. HIDE DEF Zero, j, d
    <3>. QED
      BY <3>2, <3>3, <3>4 DEF b
  <2>. QED
    BY <2>10, <2>11, <2>12
<1>5. T = 0 .. Len(s)
  <2>1. T \in SUBSET (0 .. Len(s))
    OBVIOUS
  <2>2. ASSUME NEW n \in 0 .. Len(s), \A j \in 0 .. n - 1 : j \in T PROVE n \in T
    BY <1>4, <2>2
  <2>. HIDE DEF T
  <2>. QED
    BY <1>1, <2>1, <2>2, Climb
<1>6. Back(e, Len(e)) = e /\ Ends(e, e)
  <2>. HIDE DEF e
  <2>1. Back(e, Len(e)) = e
    <3>1. Len(e) \in Nat
      BY <1>1
    <3>2. Back(e, Len(e)) = SubSeq(e, 1, Len(e))
      BY <3>1 DEF Back
    <3>. QED
      BY <1>1, <3>2
  <2>. QED
    BY <1>1, <2>1 DEF Ends
<1>7. d[Len(e)] = Back_(Len(s))
  <2>1. Len(s) \in T
    BY <1>1, <1>5
  <2>. QED
    BY <1>1, <1>6, <2>1
<1>8. Back(s, Len(s)) = s
  BY <1>1 DEF Back
<1>9. CobsDecode(e) = d[Len(e)].out
  BY <1>1, DecoderIs
<1>. QED
  BY <1>7, <1>8, <1>9

-----------------------------------------------------------------------------
(***************************************************************************)
(* Frames.                                                                 *)
(***************************************************************************)
FlattenedAt(ss, i, below) == IF i = 1 THEN ss[i] ELSE below \o ss[i]

\* What a host puts on the wire is bytes.
LEMMA FlattenIs == ASSUME NEW ss \in Seq(Seq(Nat)) PROVE FlattenSeq(ss) \in Seq(Nat)
<1>. DEFINE n == Len(ss)
            V == Seq(Nat)
            Is(f) == f = [i \in 1 .. n |-> FlattenedAt(ss, i, f[i - 1])]
            F == [p \in (0 .. n) \X Below(V, n) |-> IF p[1] = 0 THEN <<>> ELSE FlattenedAt(ss, p[1], p[2][p[1] - 1])]
            flatten == CHOOSE f : Is(f)
<1>1. n \in Nat /\ \A i \in 1 .. n : ss[i] \in Seq(Nat)
  OBVIOUS
<1>2. ASSUME NEW i \in 0 .. n, NEW below, i > 1 => below \in V PROVE i # 0 => FlattenedAt(ss, i, below) \in V
  <2>1. CASE i = 1
    BY <1>1, <2>1 DEF FlattenedAt
  <2>2. CASE i > 1
    <3>1. ss[i] \in Seq(Nat) /\ below \in Seq(Nat) /\ i # 1
      BY <1>1, <1>2, <2>2
    <3>. QED
      BY <3>1 DEF FlattenedAt
  <2>3. i # 0 => i = 1 \/ i > 1
    BY <1>1
  <2>. QED
    BY <2>1, <2>2, <2>3
<1>3. ASSUME NEW i \in 0 .. n, NEW g \in [0 .. i - 1 -> V]
      PROVE  F[<<i, g>>] = (IF i = 0 THEN <<>> ELSE FlattenedAt(ss, i, g[i - 1])) /\ F[<<i, g>>] \in V
  <2>1. <<i, g>> \in (0 .. n) \X Below(V, n)
    <3>. HIDE DEF n, V
    <3>. QED
      BY <1>1, BelowIs
  <2>2. F[<<i, g>>] = IF i = 0 THEN <<>> ELSE FlattenedAt(ss, i, g[i - 1])
    BY <2>1
  <2>3. i > 1 => g[i - 1] \in V
    <3>. HIDE DEF n, V
    <3>. QED
      BY <1>1
  <2>4. i # 0 => FlattenedAt(ss, i, g[i - 1]) \in V
    <3>. HIDE DEF n, V
    <3>. QED
      BY <1>2, <2>3
  <2>. HIDE DEF F
  <2>. QED
    BY <2>2, <2>4
<1>4. PICK h \in [0 .. n -> V] : Computes(F, n, h)
  <2>. HIDE DEF F, n, V
  <2>1. StaysIn(F, n, V)
    BY <1>3 DEF StaysIn
  <2>. QED
    BY <1>1, <2>1, Recursion
<1>. DEFINE f == [i \in 1 .. n |-> h[i]]
<1>5. ASSUME NEW i \in 1 .. n PROVE f[i] = FlattenedAt(ss, i, f[i - 1])
  <2>. DEFINE g == [k \in 0 .. i - 1 |-> h[k]]
  <2>1. i \in 0 .. n /\ i # 0 /\ g \in [0 .. i - 1 -> V] /\ g[i - 1] = h[i - 1]
    <3>1. \A k \in 0 .. i - 1 : k \in 0 .. n
      BY <1>1
    <3>2. i \in 0 .. n /\ i # 0 /\ i - 1 \in 0 .. i - 1
      BY <1>1
    <3>. HIDE DEF n, V
    <3>. QED
      BY <3>1, <3>2
  <2>2. h[i] = F[<<i, g>>]
    BY <1>4, <2>1 DEF Computes
  <2>3. F[<<i, g>>] = FlattenedAt(ss, i, g[i - 1])
    <3>. HIDE DEF g, F, n, V
    <3>. QED
      BY <1>3, <2>1
  <2>4. CASE i = 1
    BY <2>2, <2>3, <2>4 DEF FlattenedAt
  <2>5. CASE i # 1
    <3>1. i - 1 \in 1 .. n
      BY <1>1, <2>5
    <3>. HIDE DEF g, F, n
    <3>. QED
      BY <2>1, <2>2, <2>3, <3>1
  <2>. QED
    BY <2>4, <2>5
<1>6. Is(f)
  <2>. HIDE DEF F
  <2>. QED
    BY <1>5
<1>7. Is(flatten)
  <2>. HIDE DEF Is
  <2>. QED
    BY <1>6
<1>8. FlattenSeq(ss) = IF n = 0 THEN ss ELSE flatten[n]
  BY DEF FlattenSeq, FlattenedAt
<1>. HIDE DEF flatten
<1>. DEFINE T == {i \in 0 .. n : i # 0 => flatten[i] \in V}
<1>9. T = 0 .. n
  <2>1. ASSUME NEW i \in 0 .. n, \A k \in 0 .. i - 1 : k \in T PROVE i \in T
    <3>1. ASSUME i # 0 PROVE flatten[i] \in V
      <4>1. flatten[i] = FlattenedAt(ss, i, flatten[i - 1])
        <5>1. i \in 1 .. n
          BY <1>1, <3>1
        <5>. HIDE DEF n
        <5>. QED
          BY <1>7, <5>1
      <4>2. i > 1 => flatten[i - 1] \in V
        <5>1. i > 1 => i - 1 \in 0 .. i - 1 /\ i - 1 # 0
          BY <1>1
        <5>. HIDE DEF n, V
        <5>. QED
          BY <2>1, <5>1
      <4>3. FlattenedAt(ss, i, flatten[i - 1]) \in V
        <5>. HIDE DEF n, V
        <5>. QED
          BY <1>2, <3>1, <4>2
      <4>. QED
        BY <4>1, <4>3
    <3>. QED
      BY <3>1
  <2>2. T \in SUBSET (0 .. n)
    OBVIOUS
  <2>. HIDE DEF T, n
  <2>. QED
    BY <1>1, <2>1, <2>2, Climb
<1>10. CASE n = 0
  BY <1>8, <1>10
<1>11. CASE n # 0
  <2>1. n \in T
    <3>. HIDE DEF n, T
    <3>. QED
      BY <1>1, <1>9
  <2>. QED
    BY <1>8, <1>11, <2>1
<1>. QED
  BY <1>10, <1>11

\* The bytes of a frame before they are stuffed.
Unstuffed(q, body) == <<q, Len(body)>> \o body
Checked(q, body)   == Append(Unstuffed(q, body), Crc32(Unstuffed(q, body)))
WireOf(q, body)      == CobsEncode(Checked(q, body))

LEMMA CheckedIs ==
  ASSUME NEW q \in Nat, NEW body \in Seq(Nat)
  PROVE  /\ Checked(q, body) \in Seq(Nat) /\ Len(Checked(q, body)) = Len(body) + 3
         /\ Checked(q, body)[1] = q /\ Checked(q, body)[2] = Len(body)
         /\ SubSeq(Checked(q, body), 3, 2 + Len(body)) = body
         /\ SubSeq(Checked(q, body), 1, 2 + Len(body)) = Unstuffed(q, body)
         /\ Checked(q, body)[Len(body) + 3] = Crc32(Unstuffed(q, body))
<1>. DEFINE head == <<q, Len(body)>>
            u == Unstuffed(q, body)
            x == Crc32(u)
            f == Checked(q, body)
            n == Len(body)
<1>1. n \in Nat /\ head \in Seq(Nat) /\ Len(head) = 2 /\ head[1] = q /\ head[2] = n
  <2>1. n \in Nat
    OBVIOUS
  <2>. HIDE DEF n
  <2>2. <<q, n>> \in Seq(Nat) /\ Len(<<q, n>>) = 2 /\ <<q, n>>[1] = q /\ <<q, n>>[2] = n
    BY <2>1
  <2>. QED
    BY <2>1, <2>2 DEF n
<1>2. u = head \o body
  BY DEF Unstuffed
<1>. HIDE DEF head, u
<1>3. /\ u \in Seq(Nat) /\ Len(u) = n + 2 /\ u[1] = q /\ u[2] = n
      /\ \A i \in 1 .. n : u[2 + i] = body[i]
  <2>1. /\ head \o body \in Seq(Nat) /\ Len(head \o body) = 2 + n
        /\ \A i \in 1 .. 2 + n : (head \o body)[i] = IF i <= 2 THEN head[i] ELSE body[i - 2]
    <3>1. head \o body \in Seq(Nat) /\ Len(head \o body) = Len(head) + n
      BY <1>1, ConcatProperties
    <3>2. ASSUME NEW i \in 1 .. Len(head) + n
          PROVE  (head \o body)[i] = IF i <= Len(head) THEN head[i] ELSE body[i - Len(head)]
      BY <1>1, ConcatProperties
    <3>. HIDE DEF n
    <3>. QED
      BY <1>1, <3>1, <3>2
  <2>2. 1 \in 1 .. 2 + n /\ 2 \in 1 .. 2 + n /\ \A i \in 1 .. n : 2 + i \in 1 .. 2 + n /\ ~(2 + i <= 2) /\ (2 + i) - 2 = i
    BY <1>1
  <2>. HIDE DEF n
  <2>3. u \in Seq(Nat) /\ Len(u) = n + 2 /\ u[1] = q /\ u[2] = n
    <3>1. u \in Seq(Nat) /\ Len(u) = n + 2
      BY <1>1, <1>2, <2>1
    <3>2. u[1] = head[1]
      BY <1>2, <2>1, <2>2
    <3>3. u[2] = head[2]
      BY <1>2, <2>1, <2>2
    <3>. QED
      BY <1>1, <3>1, <3>2, <3>3
  <2>4. \A i \in 1 .. n : u[2 + i] = body[i]
    <3>1. ASSUME NEW i \in 1 .. n PROVE u[2 + i] = body[i]
      <4>. DEFINE j == 2 + i
      <4>1. j \in 1 .. 2 + n /\ ~(j <= 2) /\ j - 2 = i
        BY <1>1
      <4>. HIDE DEF j
      <4>2. u[j] = body[i]
        BY <1>2, <2>1, <4>1
      <4>. QED
        BY <4>2 DEF j
    <3>. QED
      BY <3>1
  <2>. QED
    BY <2>3, <2>4
<1>4. x \in Nat
  BY <1>3, CrcIs
<1>5. f = Append(u, x)
  BY DEF Checked, u
<1>. HIDE DEF x, f
<1>6. f \in Seq(Nat) /\ Len(f) = n + 3 /\ (\A i \in 1 .. n + 2 : f[i] = u[i]) /\ f[n + 3] = x
  <2>. HIDE DEF n
  <2>. QED
    BY <1>1, <1>3, <1>4, <1>5, AppendProperties
<1>7. f[1] = q /\ f[2] = n
  <2>1. 1 \in 1 .. n + 2 /\ 2 \in 1 .. n + 2
    BY <1>1
  <2>. QED
    BY <1>3, <1>6, <2>1
<1>8. SubSeq(f, 1, 2 + n) = u
  <2>. DEFINE y == SubSeq(f, 1, 2 + n)
  <2>1. y \in Seq(Nat) /\ Len(y) = n + 2 /\ \A i \in 1 .. n + 2 : y[i] = f[i]
    <3>. HIDE DEF n
    <3>. QED
      BY <1>1, <1>6
  <2>. HIDE DEF y, n
  <2>2. Len(y) = Len(u) /\ \A i \in 1 .. Len(y) : y[i] = u[i]
    BY <1>3, <1>6, <2>1
  <2>3. y = u
    BY <1>3, <2>1, <2>2, SeqEqual
  <2>. QED
    BY <2>3 DEF y
<1>9. SubSeq(f, 3, 2 + n) = body
  <2>. DEFINE y == SubSeq(f, 3, 2 + n)
  <2>1. y \in Seq(Nat) /\ Len(y) = n /\ \A i \in 1 .. n : y[i] = f[2 + i]
    <3>1. \A i \in 3 .. 2 + n : f[i] \in Nat
      <4>1. \A i \in 3 .. 2 + n : i \in 1 .. Len(f)
        BY <1>1, <1>6
      <4>. HIDE DEF n
      <4>. QED
        BY <1>6, <4>1
    <3>. HIDE DEF n
    <3>2. y \in Seq(Nat) /\ Len(y) = (IF 3 <= 2 + n THEN (2 + n) - 3 + 1 ELSE 0)
          /\ \A i \in 1 .. (2 + n) - 3 + 1 : y[i] = f[3 + i - 1]
      BY <1>1, <3>1, SubSeqProperties
    <3>3. (2 + n) - 3 + 1 = n /\ (n = 0 \/ 3 <= 2 + n) /\ \A i \in 1 .. n : (3 + i) - 1 = 2 + i
      BY <1>1
    <3>. HIDE DEF y
    <3>. QED
      BY <1>1, <3>2, <3>3
  <2>2. \A i \in 1 .. n : f[2 + i] = u[2 + i]
    <3>1. \A i \in 1 .. n : 2 + i \in 1 .. n + 2
      BY <1>1
    <3>. HIDE DEF n
    <3>. QED
      BY <1>6, <3>1
  <2>. HIDE DEF y
  <2>3. Len(y) = Len(body) /\ \A i \in 1 .. Len(y) : y[i] = body[i]
    BY <1>3, <2>1, <2>2
  <2>4. y = body
    BY <2>1, <2>3, SeqEqual
  <2>. QED
    BY <2>4 DEF y
<1>. QED
  BY <1>6, <1>7, <1>8, <1>9 DEF f, u, x

\* The delimiter ends a frame that is not too long to be accumulated.
LEMMA EncodeIs ==
  ASSUME NEW q \in Nat, NEW body \in Seq(Nat)
  PROVE  /\ Encode(q, body) \in Seq(Nat)
         /\ Len(body) <= MaxBody =>
              /\ Encode(q, body) = WireOf(q, body) \o <<0>>
              /\ WireOf(q, body) \in Seq(Nat) /\ NoZero(WireOf(q, body))
              /\ Len(WireOf(q, body)) >= 1 /\ Len(WireOf(q, body)) < MaxWire
<1>. DEFINE f == Checked(q, body)
            w == WireOf(q, body)
            n == Len(body)
<1>1. f \in Seq(Nat) /\ Len(f) = n + 3 /\ n \in Nat
  <2>1. n \in Nat
    OBVIOUS
  <2>2. f \in Seq(Nat) /\ Len(f) = n + 3
    BY CheckedIs
  <2>. QED
    BY <2>1, <2>2
<1>2. Encode(q, body) = IF n > MaxBody THEN <<>> ELSE w \o <<0>>
  BY DEF Encode, WireOf, Checked, Unstuffed
<1>3. w \in Seq(Nat) /\ NoZero(w) /\ Len(w) >= 1 /\ Len(w) <= CobsMaxEncoded(n + 3)
  <2>1. w = Encoder(f)[Len(f)]
    BY <1>1, EncoderIs DEF WireOf
  <2>2. Stuffed(Encoder(f)[Len(f)], Len(f))
    <3>1. Len(f) \in 0 .. Len(f)
      BY <1>1
    <3>. HIDE DEF f
    <3>. QED
      BY <1>1, <3>1, EncodedIs
  <2>. HIDE DEF f, w
  <2>. QED
    BY <1>1, <2>1, <2>2 DEF Stuffed
<1>4. ASSUME n <= MaxBody PROVE Len(w) < MaxWire
  <2>. DEFINE m == Full - 1
              a == n + 3
              b == MaxBody + 3
  <2>1. m \in Nat \ {0} /\ a \in 0 .. b /\ b \in Nat
    BY <1>1, <1>4, WireAssumption
  <2>2. CobsMaxEncoded(a) = a + (a \div m) + 1
    BY DEF CobsMaxEncoded
  <2>3. MaxWire = b + (b \div m) + 1 + 1
    <3>1. MaxDecoded = b
      BY WireAssumption DEF MaxDecoded, HeaderSize, CrcSize
    <3>. HIDE DEF b
    <3>. QED
      BY <3>1 DEF MaxWire, CobsMaxEncoded
  <2>. HIDE DEF m, b
  <2>4. a \div m <= b \div m /\ b \div m \in Nat /\ a \in Nat
    <3>. HIDE DEF a
    <3>. QED
      BY <2>1, DivGroups
  <2>5. a \div m \in Nat
    <3>. HIDE DEF a
    <3>. QED
      BY <2>1, <2>4, DivGroups
  <2>6. Len(w) <= CobsMaxEncoded(a)
    BY <1>3
  <2>. DEFINE lw == Len(w)
              qa == a \div m
              qb == b \div m
  <2>7. lw \in Nat
    BY <1>3
  <2>8. lw <= a + qa + 1 /\ MaxWire = b + qb + 1 + 1 /\ qa <= qb /\ qa \in Nat /\ qb \in Nat /\ a <= b
    BY <2>1, <2>2, <2>3, <2>4, <2>5, <2>6
  <2>. HIDE DEF lw, a, qa, qb
  <2>9. lw < MaxWire
    BY <2>1, <2>4, <2>7, <2>8
  <2>. QED
    BY <2>9 DEF lw
<1>5. <<>> \in Seq(Nat) /\ w \o <<0>> \in Seq(Nat)
  <2>. HIDE DEF w
  <2>. QED
    BY <1>3
<1>6. n <= MaxBody => ~(n > MaxBody)
  BY <1>1, WireAssumption
<1>. HIDE DEF w, n
<1>. QED
  BY <1>2, <1>3, <1>4, <1>5, <1>6 DEF w, n

\* What the parser makes of a frame that is delimited: the frame itself.
LEMMA FrameIsRead ==
  ASSUME NEW q \in Nat, NEW body \in Seq(Nat), Len(body) <= MaxBody
  PROVE  Completed([acc |-> WireOf(q, body), overflow |-> FALSE]) = <<[seq |-> q, body |-> body, ok |-> TRUE]>>
<1>. DEFINE f == Checked(q, body)
            w == WireOf(q, body)
            n == Len(body)
            p == [acc |-> w, overflow |-> FALSE]
<1>1. /\ f \in Seq(Nat) /\ Len(f) = n + 3 /\ n \in Nat /\ f[1] = q /\ f[2] = n
      /\ SubSeq(f, 3, 2 + n) = body /\ SubSeq(f, 1, 2 + n) = Unstuffed(q, body)
      /\ f[n + 3] = Crc32(Unstuffed(q, body))
  <2>1. n \in Nat
    OBVIOUS
  <2>2. f \in Seq(Nat) /\ Len(f) = n + 3 /\ f[1] = q /\ f[2] = n
    BY CheckedIs
  <2>3. /\ SubSeq(f, 3, 2 + n) = body /\ SubSeq(f, 1, 2 + n) = Unstuffed(q, body)
        /\ f[n + 3] = Crc32(Unstuffed(q, body))
    BY CheckedIs
  <2>. QED
    BY <2>1, <2>2, <2>3
<1>2. CobsDecode(w) = f
  <2>. HIDE DEF f
  <2>1. w = CobsEncode(f)
    BY DEF WireOf, f
  <2>. QED
    BY <1>1, <2>1, StuffingIsUndone
<1>3. w # <<>>
  <2>1. Len(w) >= 1
    BY EncodeIs
  <2>. QED
    BY <2>1
<1>4. Len(f) - HeaderSize - CrcSize = n /\ Len(f) >= HeaderSize + CrcSize /\ Len(f) - CrcSize = 2 + n
  BY <1>1 DEF HeaderSize, CrcSize
<1>5. Surfaced(f) = [seq |-> q, body |-> body, ok |-> TRUE]
  <2>1. HeaderSize + 1 = 3 /\ HeaderSize + n = 2 + n
    BY <1>1 DEF HeaderSize
  <2>2. Surfaced(f) = [seq |-> f[1], body |-> SubSeq(f, 3, 2 + n),
            ok |-> f[2] = n /\ f[2] <= MaxBody /\ Crc32(SubSeq(f, 1, 2 + n)) = f[n + 3]]
    <3>. HIDE DEF f, n
    <3>. QED
      BY <1>1, <1>4, <2>1 DEF Surfaced
  <2>. HIDE DEF f
  <2>. QED
    BY <1>1, <2>2
<1>6. Completed(p) = <<Surfaced(f)>>
  <2>1. p.acc = w /\ p.overflow = FALSE
    OBVIOUS
  <2>2. ~(Len(f) < HeaderSize + CrcSize)
    BY <1>1, <1>4 DEF HeaderSize, CrcSize
  <2>. HIDE DEF p, w, f
  <2>. QED
    BY <1>2, <1>3, <2>1, <2>2 DEF Completed
<1>. QED
  BY <1>5, <1>6

\* Whatever the parser surfaces has a number to answer to.
Frame == [seq : Nat, body : Seq(Nat), ok : BOOLEAN]

LEMMA CompletedIs ==
  ASSUME NEW p, p.acc \in Seq(Nat)
  PROVE  Completed(p) = <<>> \/ \E f \in Frame : Completed(p) = <<f>>
<1>. DEFINE e == p.acc
            dec == CobsDecode(e)
<1>1. dec \in Seq(Nat)
  <2>0. e \in Seq(Nat)
    OBVIOUS
  <2>. HIDE DEF e
  <2>1. Len(e) \in 0 .. Len(e)
    BY <2>0
  <2>2. Decoder(e)[Len(e)] \in Decoded /\ dec = Decoder(e)[Len(e)].out
    BY <2>0, <2>1, DecoderIs
  <2>3. \A r \in Decoded : r.out \in Seq(Nat)
    BY DEF Decoded
  <2>. HIDE DEF dec
  <2>. QED
    BY <2>2, <2>3
<1>2. Completed(p) = IF e = <<>> \/ p.overflow \/ Len(dec) < HeaderSize + CrcSize THEN <<>> ELSE <<Surfaced(dec)>>
  BY DEF Completed
<1>3. ASSUME ~(Len(dec) < HeaderSize + CrcSize) PROVE Surfaced(dec) \in Frame
  <2>. HIDE DEF dec
  <2>. DEFINE len == Len(dec) - HeaderSize - CrcSize
              body == SubSeq(dec, HeaderSize + 1, HeaderSize + len)
              ok == /\ dec[2] = len /\ dec[2] <= MaxBody
                    /\ Crc32(SubSeq(dec, 1, Len(dec) - CrcSize)) = dec[Len(dec)]
  <2>1. 1 \in 1 .. Len(dec)
    BY <1>1, <1>3 DEF HeaderSize, CrcSize
  <2>2. dec[1] \in Nat
    BY <1>1, <2>1
  <2>3. body \in Seq(Nat)
    <3>1. HeaderSize + 1 \in Int /\ HeaderSize + len \in Int /\ \A i \in HeaderSize + 1 .. HeaderSize + len : i \in 1 .. Len(dec)
      BY <1>1 DEF HeaderSize, CrcSize
    <3>2. \A i \in HeaderSize + 1 .. HeaderSize + len : dec[i] \in Nat
      BY <1>1, <3>1
    <3>. HIDE DEF len
    <3>. QED
      BY <3>1, <3>2, SubSeqProperties
  <2>4. ok \in BOOLEAN
    OBVIOUS
  <2>5. Surfaced(dec) = [seq |-> dec[1], body |-> body, ok |-> ok]
    BY DEF Surfaced
  <2>. HIDE DEF body, ok
  <2>. QED
    BY <2>2, <2>3, <2>4, <2>5 DEF Frame
<1>. HIDE DEF e, dec
<1>. QED
  BY <1>2, <1>3

-----------------------------------------------------------------------------
(***************************************************************************)
(* Rings.                                                                  *)
(***************************************************************************)
\* An index that is no more than a turn away from the ring.
Wrap(a, m) == IF a < 0 THEN a + m ELSE IF a < m THEN a ELSE a - m

LEMMA WrapIs ==
  ASSUME NEW m \in Nat \ {0}, NEW a \in Int, -m <= a, a < 2 * m
  PROVE  a % m = Wrap(a, m) /\ Wrap(a, m) \in 0 .. m - 1
<1>1. CASE a < 0
  <2>1. a = m * (-1) + (a + m) /\ a + m \in 0 .. m - 1
    BY <1>1
  <2>. QED
    BY <1>1, <2>1, DivOf DEF Wrap
<1>2. CASE a >= 0 /\ a < m
  <2>1. a = m * 0 + a /\ a \in 0 .. m - 1
    BY <1>2
  <2>. QED
    BY <1>2, <2>1, DivOf DEF Wrap
<1>3. CASE a >= m
  <2>1. a = m * 1 + (a - m) /\ a - m \in 0 .. m - 1
    BY <1>3
  <2>. QED
    BY <1>3, <2>1, DivOf DEF Wrap
<1>. QED
  BY <1>1, <1>2, <1>3

RingOf(m) == [bytes : [0 .. m - 1 -> Nat], w : 0 .. m - 1, r : 0 .. m - 1]

\* Where the i-th byte is that the ring holds.
Place(buf, m, i) == (buf.r + i - 1) % m

LEMMA UsedIs ==
  ASSUME NEW m \in Nat \ {0}, NEW buf \in RingOf(m)
  PROVE  /\ Used(buf, m) = Wrap(buf.w - buf.r, m) /\ Used(buf, m) \in 0 .. m - 1
         /\ Free(buf, m) = m - 1 - Used(buf, m) /\ Free(buf, m) \in 0 .. m - 1
         /\ buf.w = Wrap(buf.r + Used(buf, m), m)
<1>1. buf.w \in 0 .. m - 1 /\ buf.r \in 0 .. m - 1
  BY DEF RingOf
<1>. DEFINE a == buf.w - buf.r
<1>2. a \in Int /\ -m <= a /\ a < 2 * m
  BY <1>1
<1>3. a % m = Wrap(a, m) /\ Wrap(a, m) \in 0 .. m - 1
  BY <1>2, WrapIs
<1>4. Used(buf, m) = a % m /\ Free(buf, m) = m - 1 - (a % m)
  BY DEF Used, Free
<1>5. buf.w = Wrap(buf.r + Wrap(a, m), m)
  BY <1>1 DEF Wrap
<1>. DEFINE u == Wrap(a, m)
<1>. HIDE DEF u
<1>6. m - 1 - u \in 0 .. m - 1
  BY <1>3 DEF u
<1>. QED
  BY <1>3, <1>4, <1>5, <1>6 DEF u

LEMMA PlaceIs ==
  ASSUME NEW m \in Nat \ {0}, NEW buf \in RingOf(m), NEW i \in 1 .. m
  PROVE  Place(buf, m, i) = Wrap(buf.r + i - 1, m) /\ Place(buf, m, i) \in 0 .. m - 1
<1>. DEFINE a == buf.r + i - 1
<1>1. a \in Int /\ -m <= a /\ a < 2 * m
  BY DEF RingOf
<1>2. a % m = Wrap(a, m) /\ Wrap(a, m) \in 0 .. m - 1
  <2>. HIDE DEF a
  <2>. QED
    BY <1>1, WrapIs
<1>. QED
  BY <1>2 DEF Place

LEMMA ContentsIs ==
  ASSUME NEW m \in Nat \ {0}, NEW buf \in RingOf(m)
  PROVE  /\ Contents(buf, m) \in Seq(Nat) /\ Len(Contents(buf, m)) = Used(buf, m)
         /\ \A i \in 1 .. Used(buf, m) : Contents(buf, m)[i] = buf.bytes[Place(buf, m, i)]
<1>1. Used(buf, m) \in 0 .. m - 1
  BY UsedIs
<1>. DEFINE u == Used(buf, m)
<1>2. Contents(buf, m) = [i \in 1 .. u |-> buf.bytes[Place(buf, m, i)]]
  BY DEF Contents, Place
<1>3. ASSUME NEW i \in 1 .. u PROVE buf.bytes[Place(buf, m, i)] \in Nat
  <2>1. i \in 1 .. m
    <3>. HIDE DEF u
    <3>1. u \in 0 .. m - 1
      BY <1>1 DEF u
    <3>. QED
      BY <3>1
  <2>2. Place(buf, m, i) \in 0 .. m - 1
    BY <2>1, PlaceIs
  <2>. QED
    BY <2>2 DEF RingOf
<1>4. u \in Nat
  BY <1>1
<1>. HIDE DEF u
<1>. QED
  BY <1>2, <1>3, <1>4 DEF u

RingWith(m, b, w, r) == [bytes |-> b, w |-> w, r |-> r]

Parts(m, b, w, r) == b \in [0 .. m - 1 -> Nat] /\ w \in 0 .. m - 1 /\ r \in 0 .. m - 1

LEMMA RingIs ==
  ASSUME NEW m, NEW b, NEW w, NEW r, Parts(m, b, w, r)
  PROVE  /\ RingWith(m, b, w, r) \in RingOf(m) /\ RingWith(m, b, w, r).r = r
         /\ RingWith(m, b, w, r).w = w /\ RingWith(m, b, w, r).bytes = b
BY DEF RingOf, RingWith, Parts

\* A ring with u bytes and room for n: where they are, and are to be.
Stands(m, w, r, u, n) ==
    /\ w \in 0 .. m - 1 /\ r \in 0 .. m - 1 /\ u \in 0 .. m - 1 /\ n \in Nat
    /\ n <= m - 1 - u /\ w = Wrap(r + u, m)
Room(m, w, r, u, n) ==
    /\ Wrap(Wrap(w + n, m) - r, m) = u + n
    /\ \A i \in 1 .. u : i \in 1 .. m /\ Wrap(Wrap(r + i - 1, m) - w, m) + 1 > n
    /\ \A k \in 1 .. n : u + k \in 1 .. m /\ Wrap(Wrap(r + (u + k) - 1, m) - w, m) + 1 = k

LEMMA PlacesBehind ==
  ASSUME NEW m \in Nat \ {0}, NEW w, NEW r, NEW u, NEW n, Stands(m, w, r, u, n)
  PROVE  Room(m, w, r, u, n)
<1>. USE DEF Stands, Room
<1>1. (r + u < m /\ w = r + u) \/ (r + u >= m /\ w = (r + u) - m)
  BY DEF Wrap
<1>2. Wrap(Wrap(w + n, m) - r, m) = u + n
  BY <1>1 DEF Wrap
<1>3. ASSUME NEW i \in 1 .. u PROVE i \in 1 .. m /\ Wrap(Wrap(r + i - 1, m) - w, m) + 1 > n
  <2>1. i \in 1 .. m
    OBVIOUS
  <2>2. CASE r + i - 1 < m
    <3>1. Wrap(r + i - 1, m) = r + i - 1
      BY <2>2 DEF Wrap
    <3>. QED
      BY <1>1, <2>1, <2>2, <3>1 DEF Wrap
  <2>3. CASE r + i - 1 >= m
    <3>1. Wrap(r + i - 1, m) = r + i - 1 - m
      BY <2>3 DEF Wrap
    <3>. QED
      BY <1>1, <2>1, <2>3, <3>1 DEF Wrap
  <2>. QED
    BY <2>2, <2>3
<1>4. ASSUME NEW k \in 1 .. n PROVE u + k \in 1 .. m /\ Wrap(Wrap(r + (u + k) - 1, m) - w, m) + 1 = k
  <2>1. u + k \in 1 .. m
    OBVIOUS
  <2>. DEFINE a == r + (u + k) - 1
  <2>2. CASE a < m
    <3>1. Wrap(a, m) = a
      BY <2>2 DEF Wrap
    <3>. QED
      BY <1>1, <2>1, <2>2, <3>1 DEF Wrap
  <2>3. CASE a >= m
    <3>1. Wrap(a, m) = a - m
      BY <2>3 DEF Wrap
    <3>. QED
      BY <1>1, <2>1, <2>3, <3>1 DEF Wrap
  <2>. QED
    BY <2>2, <2>3
<1>. QED
  BY <1>2, <1>3, <1>4

\* What is put behind what a ring holds is behind it.
LEMMA FilledIs ==
  ASSUME NEW m \in Nat \ {0}, NEW buf \in RingOf(m), NEW s \in Seq(Nat), Len(s) <= Free(buf, m),
         NEW new, new = Filled(buf, m, s)
  PROVE  /\ new \in RingOf(m) /\ new.r = buf.r
         /\ Used(new, m) = Used(buf, m) + Len(s)
         /\ \A i \in 1 .. Used(buf, m) : new.bytes[Place(new, m, i)] = buf.bytes[Place(buf, m, i)]
         /\ \A k \in 1 .. Len(s) : new.bytes[Place(new, m, Used(buf, m) + k)] = s[k]
<1>. DEFINE n == Len(s)
            w == buf.w
            r == buf.r
            u == Used(buf, m)
            Spot(j) == ((j - w) % m) + 1
            B(j) == IF Spot(j) <= n THEN s[Spot(j)] ELSE buf.bytes[j]
<1>1. n \in Nat /\ w \in 0 .. m - 1 /\ r \in 0 .. m - 1 /\ buf.bytes \in [0 .. m - 1 -> Nat]
  BY DEF RingOf
<1>2. u \in 0 .. m - 1 /\ n <= m - 1 - u /\ w = Wrap(r + u, m) /\ u = Wrap(w - r, m)
  <2>1. u \in 0 .. m - 1 /\ w = Wrap(r + u, m) /\ u = Wrap(w - r, m) /\ Free(buf, m) = m - 1 - u
    BY UsedIs
  <2>. QED
    BY <2>1
<1>3. new = [bytes |-> [j \in 0 .. m - 1 |-> B(j)], w |-> (w + n) % m, r |-> r]
  <2>1. buf = [bytes |-> buf.bytes, w |-> w, r |-> r]
    BY DEF RingOf
  <2>2. new = [buf EXCEPT !.bytes = [j \in 0 .. m - 1 |-> B(j)], !.w = (w + n) % m]
    BY DEF Filled
  <2>. DEFINE b == [j \in 0 .. m - 1 |-> B(j)]
              v == (w + n) % m
              ob == buf.bytes
              ow == buf.w
              or == buf.r
  <2>. HIDE DEF b, v, ob, ow, or
  <2>3. buf = [bytes |-> ob, w |-> ow, r |-> or] /\ new = [buf EXCEPT !.bytes = b, !.w = v]
    BY <2>1, <2>2 DEF b, v, ob, ow, or
  <2>4. new = [bytes |-> b, w |-> v, r |-> or]
    BY <2>3
  <2>. QED
    BY <2>4 DEF b, v, or
<1>4. (w + n) % m = Wrap(w + n, m) /\ Wrap(w + n, m) \in 0 .. m - 1
  <2>1. w \in Nat /\ w < m /\ n \in Nat /\ n < m
    <3>1. n <= m - 1 - u /\ u \in Nat
      BY <1>2
    <3>. HIDE DEF w, n, u
    <3>. QED
      BY <1>1, <3>1
  <2>. DEFINE a == w + n
  <2>2. a \in Int /\ -m <= a /\ a < 2 * m
    <3>. HIDE DEF w, n
    <3>. QED
      BY <2>1
  <2>. HIDE DEF a
  <2>3. a % m = Wrap(a, m) /\ Wrap(a, m) \in 0 .. m - 1
    BY <2>2, WrapIs
  <2>. QED
    BY <2>3 DEF a
<1>5. ASSUME NEW j \in 0 .. m - 1 PROVE Spot(j) = Wrap(j - w, m) + 1 /\ Spot(j) \in 1 .. m
  <2>1. j - w \in Int /\ -m <= j - w /\ j - w < 2 * m
    BY <1>1
  <2>2. (j - w) % m = Wrap(j - w, m) /\ Wrap(j - w, m) \in 0 .. m - 1
    <3>. DEFINE a == j - w
    <3>. HIDE DEF a
    <3>1. a \in Int /\ -m <= a /\ a < 2 * m
      BY <2>1 DEF a
    <3>2. a % m = Wrap(a, m) /\ Wrap(a, m) \in 0 .. m - 1
      BY <3>1, WrapIs
    <3>. QED
      BY <3>2 DEF a
  <2>. DEFINE x == Wrap(j - w, m)
  <2>. HIDE DEF x
  <2>3. x + 1 \in 1 .. m
    BY <2>2 DEF x
  <2>. QED
    BY <2>2, <2>3 DEF x
<1>6. ASSUME NEW j \in 0 .. m - 1 PROVE B(j) \in Nat
  <2>1. Spot(j) \in Int /\ Spot(j) >= 1
    BY <1>5
  <2>. HIDE DEF Spot
  <2>2. CASE Spot(j) <= n
    <3>1. Spot(j) \in 1 .. Len(s)
      BY <1>1, <2>1, <2>2
    <3>. QED
      BY <2>2, <3>1
  <2>3. CASE ~(Spot(j) <= n)
    BY <1>1, <2>3
  <2>. QED
    BY <2>2, <2>3
<1>7. new \in RingOf(m) /\ new.r = r /\ new.w = Wrap(w + n, m) /\ \A j \in 0 .. m - 1 : new.bytes[j] = B(j)
  <2>. DEFINE b == [j \in 0 .. m - 1 |-> B(j)]
              v == (w + n) % m
  <2>1. b \in [0 .. m - 1 -> Nat] /\ \A j \in 0 .. m - 1 : b[j] = B(j)
    <3>. HIDE DEF B
    <3>. QED
      BY <1>6
  <2>2. v \in 0 .. m - 1 /\ v = Wrap(w + n, m)
    BY <1>4
  <2>. HIDE DEF b, v
  <2>3. new = [bytes |-> b, w |-> v, r |-> r]
    BY <1>3 DEF b, v
  <2>. HIDE DEF r, B
  <2>4. new \in RingOf(m) /\ new.r = r /\ new.w = v /\ new.bytes = b
    <3>1. new = RingWith(m, b, v, r)
      BY <2>3 DEF RingWith
    <3>2. Parts(m, b, v, r)
      BY <1>1, <2>1, <2>2 DEF Parts
    <3>3. /\ RingWith(m, b, v, r) \in RingOf(m) /\ RingWith(m, b, v, r).r = r
          /\ RingWith(m, b, v, r).w = v /\ RingWith(m, b, v, r).bytes = b
      BY <3>2, RingIs
    <3>. QED
      BY <3>1, <3>3
  <2>. QED
    BY <2>1, <2>2, <2>4
<1>11. Room(m, w, r, u, n)
  <2>. HIDE DEF w, n, r, u
  <2>1. Stands(m, w, r, u, n)
    BY <1>1, <1>2 DEF Stands
  <2>. QED
    BY <2>1, PlacesBehind
<1>8. Used(new, m) = u + n
  <2>1. Used(new, m) = Wrap(new.w - new.r, m)
    BY <1>7, UsedIs
  <2>2. Wrap(Wrap(w + n, m) - r, m) = u + n
    <3>. HIDE DEF w, n, r, u
    <3>. QED
      BY <1>11 DEF Room
  <2>. QED
    BY <1>7, <2>1, <2>2
<1>. HIDE DEF B, n, w, r, u
<1>9. ASSUME NEW i \in 1 .. u PROVE new.bytes[Place(new, m, i)] = buf.bytes[Place(buf, m, i)]
  <2>. DEFINE j == Place(buf, m, i)
  <2>1. i \in 1 .. m /\ Wrap(Wrap(r + i - 1, m) - w, m) + 1 > n
    BY <1>11 DEF Room
  <2>2. j = Wrap(r + i - 1, m) /\ j \in 0 .. m - 1 /\ Place(new, m, i) = j
    BY <1>7, <2>1, PlaceIs DEF Place, r
  <2>. HIDE DEF j
  <2>3. Spot(j) = Wrap(j - w, m) + 1
    BY <1>5, <2>2
  <2>4. Wrap(j - w, m) + 1 > n
    BY <2>1, <2>2
  <2>5. ~(Spot(j) <= n)
    <3>1. Spot(j) \in Int /\ Spot(j) > n
      BY <1>5, <2>2, <2>3, <2>4
    <3>. HIDE DEF Spot
    <3>. QED
      BY <1>1, <3>1
  <2>6. B(j) = buf.bytes[j]
    BY <2>5 DEF B
  <2>. QED
    BY <1>7, <2>2, <2>6 DEF j
<1>10. ASSUME NEW k \in 1 .. n PROVE new.bytes[Place(new, m, u + k)] = s[k]
  <2>. DEFINE i == u + k
              j == Place(new, m, i)
  <2>1. i \in 1 .. m /\ Wrap(Wrap(r + i - 1, m) - w, m) + 1 = k
    BY <1>11 DEF Room
  <2>2. j = Wrap(r + i - 1, m) /\ j \in 0 .. m - 1
    <3>. HIDE DEF i
    <3>. QED
      BY <1>7, <2>1, PlaceIs
  <2>. HIDE DEF j
  <2>3. Spot(j) = Wrap(j - w, m) + 1
    BY <1>5, <2>2
  <2>4. Wrap(j - w, m) + 1 = k
    BY <2>1, <2>2
  <2>5. Spot(j) = k
    BY <2>3, <2>4
  <2>6. B(j) = s[k]
    <3>. HIDE DEF Spot
    <3>. QED
      BY <1>1, <2>5 DEF B
  <2>. QED
    BY <1>7, <2>2, <2>6 DEF j
<1>. QED
  BY <1>7, <1>8, <1>9, <1>10 DEF u, n, r

\* The reader goes on by n bytes of those the ring holds.
Advances(m, buf, n, new) ==
    buf \in RingOf(m) /\ n \in 0 .. Used(buf, m) /\ new = [buf EXCEPT !.r = (buf.r + n) % m]
HasAdvanced(m, buf, n, new) ==
    /\ new \in RingOf(m) /\ new.bytes = buf.bytes /\ new.w = buf.w
    /\ new.r = Wrap(buf.r + n, m)
    /\ Used(new, m) = Used(buf, m) - n
    /\ \A i \in 1 .. Used(buf, m) - n : Place(new, m, i) = Place(buf, m, n + i)

LEMMA AdvancedIs ==
  ASSUME NEW m \in Nat \ {0}, NEW buf, NEW n, NEW new, Advances(m, buf, n, new)
  PROVE  HasAdvanced(m, buf, n, new)
<1>. USE DEF Advances, HasAdvanced
<1>. DEFINE w == buf.w
            r == buf.r
            u == Used(buf, m)
            v == (r + n) % m
<1>0. buf \in RingOf(m)
  OBVIOUS
<1>1. w \in 0 .. m - 1 /\ r \in 0 .. m - 1 /\ n \in 0 .. u
  BY DEF RingOf
<1>2. u \in 0 .. m - 1 /\ w = Wrap(r + u, m) /\ u = Wrap(w - r, m)
  BY UsedIs
<1>. HIDE DEF u
<1>3. v = Wrap(r + n, m) /\ v \in 0 .. m - 1
  <2>1. r + n \in Int /\ -m <= r + n /\ r + n < 2 * m
    BY <1>1, <1>2
  <2>. HIDE DEF r
  <2>. QED
    BY <2>1, WrapIs
<1>4. new = [buf EXCEPT !.r = v]
  OBVIOUS
<1>. HIDE DEF v
<1>5. new \in RingOf(m) /\ new.bytes = buf.bytes /\ new.w = w /\ new.r = v
  BY <1>3, <1>4 DEF RingOf
<1>. HIDE DEF w, r, Advances, HasAdvanced
<1>6. Used(new, m) = u - n
  <2>1. Used(new, m) = Wrap(w - v, m)
    BY <1>5, UsedIs
  <2>2. Wrap(w - v, m) = u - n
    <3>1. r \in Nat /\ u \in Nat /\ n \in Nat /\ r < m /\ u < m /\ n <= u
      BY <1>1, <1>2
    <3>2. /\ w = IF r + u < m THEN r + u ELSE r + u - m
          /\ v = IF r + n < m THEN r + n ELSE r + n - m
      BY <1>2, <1>3, <3>1 DEF Wrap
    <3>3. w - v \in {u - n, u - n - m} /\ (w - v < 0 => w - v = u - n - m)
      BY <3>1, <3>2
    <3>4. w - v >= 0 => w - v = u - n
      BY <3>1, <3>3
    <3>. DEFINE a == w - v
    <3>. HIDE DEF a
    <3>5. a \in Int /\ (a < 0 => a = u - n - m) /\ (a >= 0 => a = u - n)
      BY <3>1, <3>3, <3>4 DEF a
    <3>6. Wrap(a, m) = u - n
      BY <3>1, <3>5 DEF Wrap
    <3>. QED
      BY <3>6 DEF a
  <2>. QED
    BY <2>1, <2>2
<1>7. ASSUME NEW i \in 1 .. u - n PROVE Place(new, m, i) = Place(buf, m, n + i)
  <2>. DEFINE j == n + i
  <2>1. i \in 1 .. m /\ j \in 1 .. m
    BY <1>1, <1>2
  <2>2. Place(new, m, i) = Wrap(v + i - 1, m)
    BY <1>5, <2>1, PlaceIs
  <2>3. Place(buf, m, j) = Wrap(r + j - 1, m)
    <3>. HIDE DEF j
    <3>. QED
      BY <1>0, <2>1, PlaceIs DEF r
  <2>4. Wrap(v + i - 1, m) = Wrap(r + (n + i) - 1, m)
    <3>1. i \in Nat /\ r \in Nat /\ n \in Nat /\ u \in Nat /\ i >= 1 /\ n + i <= u /\ u < m /\ r < m
      BY <1>1, <1>2
    <3>2. CASE r + n < m
      <4>1. v = r + n
        BY <1>3, <3>1, <3>2 DEF Wrap
      <4>2. v + i - 1 = r + (n + i) - 1
        BY <3>1, <4>1
      <4>. QED
        BY <4>2
    <3>3. CASE ~(r + n < m)
      <4>1. v = r + n - m
        BY <1>3, <3>1, <3>3 DEF Wrap
      <4>. QED
        BY <3>1, <3>3, <4>1 DEF Wrap
    <3>. QED
      BY <3>2, <3>3
  <2>. QED
    BY <2>2, <2>3, <2>4
<1>. QED
  BY <1>3, <1>5, <1>6, <1>7 DEF u, w, r, HasAdvanced

-----------------------------------------------------------------------------
(***************************************************************************)
(* The link.  Of the bytes that were stored, the first Given have been     *)
(* parsed, the batch holds the next and the ring the last; what was parsed *)
(* behind the last delimiter is in the accumulator, and what is between    *)
(* two delimiters has been surfaced if it is a frame.                      *)
(***************************************************************************)
HostTyped == sent \in Scripts /\ line \in Seq(Nat)
RxTyped   == rx \in RingOf(RxRing) /\ stored \in Seq(Nat)
PollTyped ==
    /\ pc \in {"idle", "prepare", "submit", "read", "copy", "advance", "parse"}
    /\ snapshot \in 0 .. RxRing - 1
    /\ batch \in Seq(Nat) /\ Len(batch) <= Batch
    /\ parser \in [acc : Seq(Nat), overflow : BOOLEAN] /\ Len(parser.acc) <= MaxWire
    /\ heard \in Seq(Frame)

\* How far Read has to go to its copy of the writer's index.
Gap == (snapshot - rx.r) % RxRing

RxInv ==
    /\ Given \in Nat
    /\ \A i \in 1 .. Len(batch) : stored[Given + i] = batch[i]
    /\ \A i \in 1 .. Used(rx, RxRing) :
         stored[Len(stored) - Used(rx, RxRing) + i] = rx.bytes[Place(rx, RxRing, i)]
    /\ pc \in {"copy", "advance"} => Gap <= Used(rx, RxRing)
    /\ pc = "advance" => Gap >= 1 /\ Len(batch) >= 1

\* Whether a chunk may begin behind the z-th byte, and no byte from there to the e-th is a delimiter.
Starts(z)  == z = 0 \/ stored[z] = 0
Unbroken(z, e) == \A i \in z + 1 .. e : stored[i] # 0
Whole(acc) == [acc |-> acc, overflow |-> FALSE]

\* The parser when the last delimiter it was given was the z-th byte.
Since(z) ==
    IF Given - z <= MaxWire THEN parser = Whole(SubSeq(stored, z + 1, Given))
    ELSE parser.overflow /\ Len(parser.acc) = MaxWire

ParserInv == \E z \in 0 .. Given : Starts(z) /\ Unbroken(z, Given) /\ Since(z)

HeardInv ==
    \A e \in 1 .. Given : \A z \in 0 .. e - 1 :
        Starts(z) /\ Unbroken(z, e - 1) /\ stored[e] = 0 /\ e - 1 - z <= MaxWire
          => RangeOf(Completed(Whole(SubSeq(stored, z + 1, e - 1)))) \subseteq RangeOf(heard)

\* A transfer reads the chunk that is not being prepared.
TxInv ==
    /\ tx \in RingOf(TxRing) /\ replied \in Seq(Nat) /\ arrived \in Seq(Nat)
    /\ chunk \in [0 .. 1 -> Seq(Nat)] /\ sel \in 0 .. 1 /\ pending \in 0 .. Chunk
    /\ flight \in [buffer : 0 .. 1, len : 0 .. Chunk]
    /\ pending <= Len(chunk[sel]) /\ flight.len <= Len(chunk[flight.buffer])
    /\ flight.len > 0 => flight.buffer = 1 - sel
    /\ RepliesArriveInOrder

PcInv == pending > 0 => pc # "prepare"

LinkIInv == HostTyped /\ RxTyped /\ PollTyped /\ RxInv /\ ParserInv /\ HeardInv /\ TxInv /\ PcInv

LEMMA LinkConstants ==
  /\ RxRing \in Nat \ {0} /\ TxRing \in Nat \ {0} /\ Chunk \in Nat \ {0} /\ Batch \in Nat \ {0}
  /\ Packets \subseteq Nat \ {0} /\ Noise \subseteq Seq(Nat) /\ Scripts \subseteq Seq(Seq(Nat))
  /\ Replies \subseteq Seq(Nat) /\ MaxWire \in Nat
  /\ \A script \in Scripts : \A k \in DOMAIN script : Len(script[k]) <= MaxBody
<1>1. \A script \in Scripts : \A k \in DOMAIN script : Len(script[k]) <= MaxBody
  <2>1. ASSUME NEW script \in Scripts, NEW k \in DOMAIN script PROVE Len(script[k]) <= MaxBody
    <3>1. script[k] \in RangeOf(script)
      BY DEF RangeOf
    <3>. QED
      BY <3>1, LinkAssumption
  <2>. QED
    BY <2>1
<1>2. MaxWire \in Nat
  <2>. DEFINE m == Full - 1
              b == MaxDecoded
  <2>1. m \in Nat \ {0} /\ b \in Nat
    BY WireAssumption DEF MaxDecoded, HeaderSize, CrcSize
  <2>. HIDE DEF m, b
  <2>2. b \div m \in Nat
    BY <2>1, DivGroups
  <2>3. MaxWire = b + (b \div m) + 1 + 1
    BY DEF MaxWire, CobsMaxEncoded, m, b
  <2>. QED
    BY <2>1, <2>2, <2>3
<1>. QED
  BY <1>1, <1>2, LinkAssumption

LEMMA LesserIs ==
  ASSUME NEW a \in Nat, NEW b \in Nat
  PROVE  Min({a, b}) \in Nat /\ Min({a, b}) <= a /\ Min({a, b}) <= b /\ Min({a, b}) \in {a, b}
<1>. DEFINE l == IF a <= b THEN a ELSE b
<1>1. l \in {a, b} /\ \A y \in {a, b} : l <= y
  OBVIOUS
<1>2. Min({a, b}) \in {a, b} /\ \A y \in {a, b} : Min({a, b}) <= y
  <2>. HIDE DEF l
  <2>. QED
    BY <1>1 DEF Min
<1>. QED
  BY <1>2

-----------------------------------------------------------------------------
(* What the interrupts and the loop leave alone.                           *)

LEMMA StreamKept ==
  ASSUME LinkIInv, Given' = Given, parser' = parser, heard' = heard,
         \A i \in 1 .. Given : stored'[i] = stored[i]
  PROVE  ParserInv' /\ HeardInv'
<1>1. Given \in Nat
  BY DEF LinkIInv, RxInv
<1>2. \A z \in 0 .. Given : Starts(z)' = Starts(z)
  BY <1>1 DEF Starts
<1>3. \A z, e \in 0 .. Given : Unbroken(z, e)' = Unbroken(z, e)
  <2>1. ASSUME NEW z \in 0 .. Given, NEW e \in 0 .. Given PROVE Unbroken(z, e)' = Unbroken(z, e)
    <3>1. \A i \in z + 1 .. e : i \in 1 .. Given
      BY <1>1
    <3>. QED
      BY <3>1 DEF Unbroken
  <2>. QED
    BY <2>1
<1>4. \A z, e \in 0 .. Given : SubSeq(stored', z + 1, e) = SubSeq(stored, z + 1, e)
  <2>1. ASSUME NEW z \in 0 .. Given, NEW e \in 0 .. Given PROVE SubSeq(stored', z + 1, e) = SubSeq(stored, z + 1, e)
    <3>1. \A i \in 1 .. e - (z + 1) + 1 : (i + (z + 1)) - 1 \in 1 .. Given
      BY <1>1
    <3>2. SubSeq(stored', z + 1, e) = [i \in 1 .. e - (z + 1) + 1 |-> stored'[(i + (z + 1)) - 1]]
          /\ SubSeq(stored, z + 1, e) = [i \in 1 .. e - (z + 1) + 1 |-> stored[(i + (z + 1)) - 1]]
      BY <1>1
    <3>. QED
      BY <3>1, <3>2
  <2>. QED
    BY <2>1
<1>5. ParserInv'
  <2>1. PICK z \in 0 .. Given : Starts(z) /\ Unbroken(z, Given) /\ Since(z)
    BY DEF LinkIInv, ParserInv
  <2>2. Starts(z)' /\ Unbroken(z, Given)'
    <3>1. Given \in 0 .. Given
      BY <1>1
    <3>. QED
      BY <1>2, <1>3, <2>1, <3>1 DEF Unbroken, Starts
  <2>3. Since(z)'
    <3>1. Given \in 0 .. Given
      BY <1>1
    <3>2. SubSeq(stored', z + 1, Given) = SubSeq(stored, z + 1, Given)
      BY <1>4, <3>1
    <3>. QED
      BY <2>1, <3>2 DEF Since
  <2>. QED
    BY <2>2, <2>3 DEF ParserInv
<1>6. HeardInv'
  <2>. SUFFICES ASSUME NEW e \in 1 .. Given', NEW z \in 0 .. e - 1,
                       Starts(z)', Unbroken(z, e - 1)', stored'[e] = 0, e - 1 - z <= MaxWire
                PROVE  RangeOf(Completed(Whole(SubSeq(stored', z + 1, e - 1)))) \subseteq RangeOf(heard')
    BY DEF HeardInv
  <2>1. e \in 1 .. Given /\ z \in 0 .. Given /\ e - 1 \in 0 .. Given
    BY <1>1
  <2>2. Starts(z) /\ Unbroken(z, e - 1) /\ stored[e] = 0
    <3>. DEFINE d == e - 1
    <3>1. d \in 0 .. Given /\ Unbroken(z, d)'
      BY <2>1
    <3>. HIDE DEF d
    <3>2. Unbroken(z, d)
      BY <1>3, <2>1, <3>1
    <3>. QED
      BY <1>2, <2>1, <3>2 DEF d
  <2>3. SubSeq(stored', z + 1, e - 1) = SubSeq(stored, z + 1, e - 1)
    BY <1>4, <2>1
  <2>4. RangeOf(Completed(Whole(SubSeq(stored, z + 1, e - 1)))) \subseteq RangeOf(heard)
    BY <2>1, <2>2 DEF LinkIInv, HeardInv
  <2>. QED
    BY <2>3, <2>4
<1>. QED
  BY <1>5, <1>6

LEMMA RxKept ==
  ASSUME LinkIInv, UNCHANGED <<rx, stored, batch>>, pc' = "advance" <=> pc = "advance",
         pc' \in {"copy", "advance"} => pc' = pc /\ snapshot' = snapshot
  PROVE  RxInv' /\ Given' = Given
<1>1. Given' = Given
  BY DEF Given
<1>2. pc' \in {"copy", "advance"} => Gap' = Gap
  BY DEF Gap
<1>. QED
  BY <1>1, <1>2 DEF LinkIInv, RxInv

LEMMA TxKept ==
  ASSUME LinkIInv, UNCHANGED <<txVars, usbVars>>
  PROVE  TxInv'
BY DEF LinkIInv, TxInv, txVars, usbVars, RepliesArriveInOrder

-----------------------------------------------------------------------------
(* The start.                                                              *)

LEMMA LinkStarts == LinkInit => LinkIInv
<1>. SUFFICES ASSUME LinkInit PROVE LinkIInv
  OBVIOUS
<1>. USE LinkConstants
<1>1. HostTyped
  <2>1. PICK noise \in Noise : line = noise \o FlattenSeq([k \in DOMAIN sent |-> Encode(k, sent[k])])
    BY DEF LinkInit
  <2>2. sent \in Seq(Seq(Nat)) /\ sent \in Scripts /\ noise \in Seq(Nat)
    BY DEF LinkInit
  <2>. DEFINE ss == [k \in DOMAIN sent |-> Encode(k, sent[k])]
  <2>3. ss \in Seq(Seq(Nat))
    <3>1. DOMAIN sent = 1 .. Len(sent) /\ Len(sent) \in Nat
      BY <2>2
    <3>2. ASSUME NEW k \in 1 .. Len(sent) PROVE Encode(k, sent[k]) \in Seq(Nat)
      <4>1. k \in Nat /\ sent[k] \in Seq(Nat)
        BY <2>2, <3>1
      <4>. QED
        BY <4>1, EncodeIs
    <3>. QED
      BY <3>1, <3>2
  <2>. HIDE DEF ss
  <2>4. FlattenSeq(ss) \in Seq(Nat)
    BY <2>3, FlattenIs
  <2>5. noise \o FlattenSeq(ss) \in Seq(Nat)
    BY <2>2, <2>4
  <2>. QED
    BY <2>1, <2>2, <2>5 DEF HostTyped, ss
<1>2. ASSUME NEW m \in Nat \ {0} PROVE EmptyRing(m) \in RingOf(m) /\ Used(EmptyRing(m), m) = 0
                                       /\ Contents(EmptyRing(m), m) = <<>>
  <2>1. EmptyRing(m) \in RingOf(m) /\ EmptyRing(m).w = 0 /\ EmptyRing(m).r = 0
    BY DEF EmptyRing, RingOf
  <2>2. Used(EmptyRing(m), m) = 0
    BY <2>1 DEF Used
  <2>3. Contents(EmptyRing(m), m) \in Seq(Nat) /\ Len(Contents(EmptyRing(m), m)) = 0
    BY <2>1, <2>2, ContentsIs
  <2>. QED
    BY <2>1, <2>2, <2>3
<1>3. RxTyped /\ PollTyped /\ PcInv
  BY <1>2 DEF LinkInit, RxTyped, PollTyped, PcInv, NewParser
<1>4. Given = 0 /\ Used(rx, RxRing) = 0 /\ Len(batch) = 0
  <2>1. Used(rx, RxRing) = 0 /\ Len(stored) = 0 /\ Len(batch) = 0 /\ pc = "idle"
    BY <1>2 DEF LinkInit
  <2>. QED
    BY <2>1 DEF Given
<1>5. RxInv
  BY <1>4 DEF LinkInit, RxInv
<1>6. ParserInv
  <2>1. 0 \in 0 .. Given /\ Starts(0) /\ Unbroken(0, Given)
    BY <1>4 DEF Starts, Unbroken
  <2>2. SubSeq(stored, 1, 0) = <<>>
    BY DEF LinkInit
  <2>3. Since(0)
    <3>1. Given - 0 <= MaxWire /\ SubSeq(stored, 0 + 1, Given) = <<>>
      BY <1>4, <2>2
    <3>2. parser = Whole(<<>>)
      BY DEF LinkInit, NewParser, Whole
    <3>. QED
      BY <3>1, <3>2 DEF Since
  <2>. QED
    BY <2>1, <2>3 DEF ParserInv
<1>7. HeardInv
  BY <1>4 DEF HeardInv
<1>8. TxInv
  <2>1. /\ tx \in RingOf(TxRing) /\ replied = <<>> /\ arrived = <<>> /\ Contents(tx, TxRing) = <<>>
        /\ chunk = [b \in 0 .. 1 |-> <<>>] /\ sel = 0 /\ pending = 0 /\ flight = [buffer |-> 0, len |-> 0]
    BY <1>2 DEF LinkInit
  <2>2. chunk[0] = <<>> /\ chunk[flight.buffer] = <<>> /\ flight.len = 0
    BY <2>1
  <2>3. RepliesArriveInOrder
    <3>1. SubSeq(chunk[0], 1, 0) = <<>> /\ <<>> \o <<>> = <<>>
      BY <2>2
    <3>. QED
      BY <2>1, <2>2, <3>1 DEF RepliesArriveInOrder
  <2>. QED
    BY <2>1, <2>2, <2>3 DEF TxInv
<1>. QED
  BY <1>1, <1>3, <1>5, <1>6, <1>7, <1>8 DEF LinkIInv

-----------------------------------------------------------------------------
(* The receive interrupt.                                                  *)

LEMMA OnRxHolds == ASSUME LinkIInv, OnRx PROVE LinkIInv'
<1>. USE LinkConstants
<1>1. PICK n \in {Min({p, Len(line)}) : p \in Packets} \ {0} :
        /\ rx' = Filled(rx, RxRing, Accepted(SubSeq(line, 1, n)))
        /\ stored' = stored \o Accepted(SubSeq(line, 1, n))
        /\ line' = SubSeq(line, n + 1, Len(line))
        /\ UNCHANGED <<sent, pollVars, txVars, usbVars>>
  BY DEF OnRx
<1>2. line \in Seq(Nat) /\ Len(line) \in Nat /\ sent \in Scripts /\ rx \in RingOf(RxRing) /\ stored \in Seq(Nat)
  BY DEF LinkIInv, HostTyped, RxTyped
<1>3. n \in Nat /\ n <= Len(line)
  <2>1. PICK p \in Packets : n = Min({p, Len(line)})
    OBVIOUS
  <2>2. p \in Nat
    OBVIOUS
  <2>. QED
    BY <1>2, <2>1, <2>2, LesserIs
<1>. DEFINE head == SubSeq(line, 1, n)
            taken == Accepted(head)
            u == Used(rx, RxRing)
<1>4. head \in Seq(Nat) /\ Len(head) = n /\ line' \in Seq(Nat)
  <2>1. 0 \in Nat /\ n \in 0 .. Len(line) /\ 0 + 1 = 1 /\ n - 0 = n
    BY <1>2, <1>3
  <2>2. SubSeq(line, 0 + 1, n) \in Seq(Nat) /\ Len(SubSeq(line, 0 + 1, n)) = n - 0
    BY <1>2, <2>1, CutIs
  <2>3. Len(line) \in n .. Len(line)
    BY <1>2, <1>3
  <2>4. SubSeq(line, n + 1, Len(line)) \in Seq(Nat)
    BY <1>2, <1>3, <2>3, CutIs
  <2>. QED
    BY <1>1, <2>1, <2>2, <2>4
<1>5. u \in Nat /\ Free(rx, RxRing) \in Nat
  BY <1>2, UsedIs
<1>6. taken \in Seq(Nat) /\ Len(taken) <= Free(rx, RxRing) /\ Len(taken) \in Nat
  <2>. DEFINE l == Min({Len(head), Free(rx, RxRing)})
  <2>1. l \in Nat /\ l <= n /\ l <= Free(rx, RxRing)
    <3>. HIDE DEF head
    <3>. QED
      BY <1>3, <1>4, <1>5, LesserIs
  <2>2. taken = SubSeq(head, 1, l)
    BY DEF Accepted
  <2>. HIDE DEF head, l, taken
  <2>. QED
    BY <1>4, <2>1, <2>2
<1>7. rx' = Filled(rx, RxRing, taken) /\ stored' = stored \o taken /\ UNCHANGED <<sent, pollVars, txVars, usbVars>>
  BY <1>1
<1>. HIDE DEF head, taken, u
<1>. DEFINE t == Len(taken)
<1>8. /\ rx' \in RingOf(RxRing) /\ rx'.r = rx.r /\ Used(rx', RxRing) = u + t
      /\ \A i \in 1 .. u : rx'.bytes[Place(rx', RxRing, i)] = rx.bytes[Place(rx, RxRing, i)]
      /\ \A k \in 1 .. t : rx'.bytes[Place(rx', RxRing, u + k)] = taken[k]
  BY <1>2, <1>6, <1>7, FilledIs DEF u
<1>9. /\ stored' \in Seq(Nat) /\ Len(stored') = Len(stored) + t /\ Len(stored) \in Nat
      /\ (\A i \in 1 .. Len(stored) : stored'[i] = stored[i])
      /\ \A k \in 1 .. t : stored'[Len(stored) + k] = taken[k]
  BY <1>2, <1>6, <1>7
<1>10. t \in Nat /\ UNCHANGED <<pc, snapshot, batch, parser, heard>>
  BY <1>6, <1>7 DEF pollVars
<1>. HIDE DEF t
<1>11. Given' = Given /\ Given \in Nat /\ Given + Len(batch) + u <= Len(stored) + 1
       /\ (pc # "advance" => Given + Len(batch) + u = Len(stored)) /\ Len(batch) \in Nat
  <2>1. Given \in Nat /\ Len(batch) \in Nat
    BY DEF LinkIInv, RxInv, PollTyped
  <2>2. Given = Len(stored) - u - Len(batch) + (IF pc = "advance" THEN 1 ELSE 0)
    BY DEF Given, u
  <2>3. Given' = Len(stored') - Used(rx', RxRing) - Len(batch) + (IF pc = "advance" THEN 1 ELSE 0)
    BY <1>10 DEF Given
  <2>. DEFINE k == Len(batch)
              l == Len(stored)
              l2 == Len(stored')
              u2 == Used(rx', RxRing)
              g == Given
              g2 == Given'
              one == IF pc = "advance" THEN 1 ELSE 0
  <2>4. g = l - u - k + one /\ g2 = l2 - u2 - k + one
    BY <2>2, <2>3
  <2>5. l2 = l + t /\ u2 = u + t /\ l \in Nat /\ u \in Nat /\ t \in Nat /\ k \in Nat /\ g \in Nat
    BY <1>5, <1>8, <1>9, <1>10, <2>1
  <2>6. one \in 0 .. 1 /\ (pc # "advance" => one = 0)
    OBVIOUS
  <2>. HIDE DEF k, l, l2, u2, g, g2, one
  <2>7. g2 = g /\ g \in Nat /\ g + k + u <= l + 1 /\ (pc # "advance" => g + k + u = l)
    BY <2>4, <2>5, <2>6
  <2>. QED
    BY <2>1, <2>7 DEF k, l, g, g2
<1>12. /\ pc \in {"copy", "advance"} => Gap <= u
       /\ pc = "advance" => Gap >= 1 /\ Len(batch) >= 1
       /\ Gap' = Gap /\ Gap \in Nat
  <2>1. Gap' = Gap
    BY <1>8, <1>10 DEF Gap
  <2>2. snapshot - rx.r \in Int
    BY <1>2 DEF LinkIInv, PollTyped, RingOf
  <2>3. Gap \in Nat
    <3>. DEFINE a == snapshot - rx.r
    <3>1. a \in Int
      BY <2>2
    <3>. HIDE DEF a
    <3>2. a % RxRing \in 0 .. RxRing - 1
      BY <3>1, DivIs
    <3>3. Gap = a % RxRing
      BY DEF Gap, a
    <3>. QED
      BY <3>2, <3>3
  <2>. QED
    BY <2>1, <2>3 DEF LinkIInv, RxInv, u
<1>13. Given + Len(batch) <= Len(stored)
  BY <1>5, <1>9, <1>11, <1>12
<1>14. RxInv'
  <2>1. \A i \in 1 .. Len(batch) : stored'[Given + i] = batch[i]
    <3>1. \A i \in 1 .. Len(batch) : Given + i \in 1 .. Len(stored)
      BY <1>9, <1>11, <1>13
    <3>. QED
      BY <1>9, <3>1 DEF LinkIInv, RxInv
  <2>2. ASSUME NEW i \in 1 .. u + t
        PROVE  stored'[Len(stored) + t - (u + t) + i] = rx'.bytes[Place(rx', RxRing, i)]
    <3>1. Len(stored) + t - (u + t) + i = Len(stored) - u + i
      <4>. DEFINE k == Len(stored)
      <4>1. k \in Nat /\ u \in Nat /\ t \in Nat /\ i \in Nat
        BY <1>5, <1>9, <1>10
      <4>. HIDE DEF k
      <4>2. k + t - (u + t) + i = k - u + i
        BY <4>1
      <4>. QED
        BY <4>2 DEF k
    <3>2. CASE i <= u
      <4>1. i \in 1 .. u /\ Len(stored) - u + i \in 1 .. Len(stored)
        <5>. DEFINE k == Len(stored)
                    b == Len(batch)
                    g == Given
        <5>1. k \in Nat /\ u \in Nat /\ b \in Nat /\ g \in Nat /\ i \in Nat /\ i >= 1
          BY <1>5, <1>9, <1>11
        <5>2. u <= k
          <6>1. pc # "advance" => g + b + u = k
            BY <1>11
          <6>2. pc = "advance" => g + b + u <= k + 1 /\ b >= 1
            BY <1>11, <1>12
          <6>. HIDE DEF g, k, b
          <6>. QED
            BY <5>1, <6>1, <6>2
        <5>. HIDE DEF g, k, b
        <5>3. i \in 1 .. u /\ k - u + i \in 1 .. k
          BY <3>2, <5>1, <5>2
        <5>. QED
          BY <5>3 DEF k
      <4>2. stored[Len(stored) - u + i] = rx.bytes[Place(rx, RxRing, i)]
        BY <4>1 DEF LinkIInv, RxInv, u
      <4>. QED
        BY <1>8, <1>9, <3>1, <4>1, <4>2
    <3>3. CASE i > u
      <4>. DEFINE k == i - u
      <4>1. k \in 1 .. t /\ u + k = i /\ Len(stored) - u + i = Len(stored) + k
        <5>1. u \in Nat /\ t \in Nat /\ Len(stored) \in Nat
          BY <1>5, <1>9, <1>10
        <5>. QED
          BY <3>3, <5>1
      <4>. HIDE DEF k
      <4>. QED
        BY <1>8, <1>9, <3>1, <4>1
    <3>. QED
      BY <1>5, <3>2, <3>3
  <2>3. Given' \in Nat /\ \A i \in 1 .. Len(batch') : stored'[Given' + i] = batch'[i]
    BY <1>10, <1>11, <2>1
  <2>4. \A i \in 1 .. Used(rx', RxRing) : stored'[Len(stored') - Used(rx', RxRing) + i] = rx'.bytes[Place(rx', RxRing, i)]
    <3>. DEFINE a == Used(rx', RxRing)
                b == Len(stored')
    <3>1. a = u + t /\ b = Len(stored) + t
      BY <1>8, <1>9
    <3>. HIDE DEF a, b
    <3>2. ASSUME NEW i \in 1 .. a PROVE stored'[b - a + i] = rx'.bytes[Place(rx', RxRing, i)]
      <4>1. i \in 1 .. u + t
        BY <3>1
      <4>2. b - a + i = Len(stored) + t - (u + t) + i
        <5>1. u \in Nat /\ t \in Nat /\ Len(stored) \in Nat
          BY <1>5, <1>9, <1>10
        <5>. QED
          BY <3>1, <4>1, <5>1
      <4>. QED
        BY <2>2, <4>1, <4>2
    <3>. QED
      BY <3>2 DEF a, b
  <2>5. /\ pc' \in {"copy", "advance"} => Gap' <= Used(rx', RxRing)
        /\ pc' = "advance" => Gap' >= 1 /\ Len(batch') >= 1
    BY <1>5, <1>8, <1>10, <1>12
  <2>. QED
    BY <2>3, <2>4, <2>5 DEF RxInv
<1>15. ParserInv' /\ HeardInv'
  <2>1. \A i \in 1 .. Given : stored'[i] = stored[i]
    BY <1>9, <1>11, <1>13
  <2>. QED
    BY <1>10, <1>11, <2>1, StreamKept
<1>16. TxInv'
  BY <1>7, TxKept
<1>17. HostTyped' /\ RxTyped' /\ PollTyped' /\ PcInv'
  BY <1>4, <1>7, <1>8, <1>9, <1>10 DEF LinkIInv, HostTyped, RxTyped, PollTyped, PcInv, usbVars
<1>. QED
  BY <1>14, <1>15, <1>16, <1>17 DEF LinkIInv

-----------------------------------------------------------------------------
(* Replies on their way to the host.                                       *)

\* A transfer that completes has brought the host the front of what was under way.
LEMMA TransferCompletesHolds == ASSUME LinkIInv, TransferCompletes PROVE LinkIInv'
<1>. USE LinkConstants
<1>. DEFINE c == SubSeq(chunk[flight.buffer], 1, flight.len)
            d == SubSeq(chunk[sel], 1, pending)
            e == Contents(tx, TxRing)
            a == arrived
<1>1. /\ arrived' = a \o c /\ flight' = [flight EXCEPT !.len = 0] /\ flight.len > 0
      /\ UNCHANGED <<hostVars, rxVars, pollVars, txVars, chunk, sel, pending>>
  BY DEF TransferCompletes
<1>2. TxInv
  BY DEF LinkIInv
<1>3. flight' = [buffer |-> flight.buffer, len |-> 0]
  BY <1>1, <1>2 DEF TxInv
<1>4. a \in Seq(Nat) /\ c \in Seq(Nat) /\ d \in Seq(Nat) /\ e \in Seq(Nat)
  <2>1. chunk[flight.buffer] \in Seq(Nat) /\ flight.len \in Nat /\ flight.len <= Len(chunk[flight.buffer])
    BY <1>2 DEF TxInv
  <2>2. chunk[sel] \in Seq(Nat) /\ pending \in Nat /\ pending <= Len(chunk[sel])
    BY <1>2 DEF TxInv
  <2>3. c \in Seq(Nat)
    <3>. DEFINE x == chunk[flight.buffer]
    <3>. HIDE DEF x
    <3>. QED
      BY <2>1 DEF x
  <2>4. d \in Seq(Nat)
    <3>. DEFINE x == chunk[sel]
    <3>. HIDE DEF x
    <3>. QED
      BY <2>2 DEF x
  <2>5. e \in Seq(Nat)
    BY <1>2, ContentsIs DEF TxInv
  <2>. QED
    BY <1>2, <2>3, <2>4, <2>5 DEF TxInv
<1>5. UNCHANGED <<tx, replied, chunk, sel, pending>>
  BY <1>1 DEF txVars
<1>6. RepliesArriveInOrder'
  <2>1. replied = a \o c \o d \o e
    BY <1>2 DEF TxInv, RepliesArriveInOrder
  <2>2. SubSeq(chunk'[flight'.buffer], 1, flight'.len) = <<>>
    BY <1>3
  <2>3. (a \o c) \o <<>> = a \o c
    <3>. HIDE DEF a, c
    <3>. QED
      BY <1>4
  <2>4. replied' = arrived' \o <<>> \o d \o e
    <3>. HIDE DEF a, c, d, e
    <3>. QED
      BY <1>1, <1>5, <2>1, <2>3
  <2>. QED
    BY <1>5, <2>2, <2>4 DEF RepliesArriveInOrder
<1>7. TxInv'
  <2>1. arrived' \in Seq(Nat)
    <3>. HIDE DEF a, c
    <3>. QED
      BY <1>1, <1>4
  <2>2. flight' \in [buffer : 0 .. 1, len : 0 .. Chunk] /\ flight'.len = 0 /\ flight'.buffer = flight.buffer
    BY <1>2, <1>3 DEF TxInv
  <2>3. 0 <= Len(chunk[flight.buffer])
    BY <1>2 DEF TxInv
  <2>. QED
    BY <1>2, <1>5, <1>6, <2>1, <2>2, <2>3 DEF TxInv
<1>8. RxInv' /\ Given' = Given
  BY <1>1, RxKept DEF rxVars, pollVars
<1>9. ParserInv' /\ HeardInv'
  BY <1>1, <1>8, StreamKept DEF rxVars, pollVars
<1>10. HostTyped' /\ RxTyped' /\ PollTyped' /\ PcInv'
  BY <1>1 DEF LinkIInv, HostTyped, RxTyped, PollTyped, PcInv, hostVars, rxVars, pollVars
<1>. QED
  BY <1>7, <1>8, <1>9, <1>10 DEF LinkIInv

\* What is under way, as sequences.
LEMMA UnderWay ==
  ASSUME LinkIInv
  PROVE  /\ arrived \in Seq(Nat) /\ SubSeq(chunk[flight.buffer], 1, flight.len) \in Seq(Nat)
         /\ SubSeq(chunk[sel], 1, pending) \in Seq(Nat) /\ Contents(tx, TxRing) \in Seq(Nat)
         /\ replied = arrived \o SubSeq(chunk[flight.buffer], 1, flight.len)
                              \o SubSeq(chunk[sel], 1, pending) \o Contents(tx, TxRing)
<1>. USE LinkConstants
<1>2. TxInv
  BY DEF LinkIInv
<1>3. chunk[flight.buffer] \in Seq(Nat) /\ flight.len \in Nat /\ flight.len <= Len(chunk[flight.buffer])
  BY <1>2 DEF TxInv
<1>4. chunk[sel] \in Seq(Nat) /\ pending \in Nat /\ pending <= Len(chunk[sel])
  BY <1>2 DEF TxInv
<1>5. SubSeq(chunk[flight.buffer], 1, flight.len) \in Seq(Nat)
  <2>. DEFINE x == chunk[flight.buffer]
  <2>. HIDE DEF x
  <2>. QED
    BY <1>3 DEF x
<1>6. SubSeq(chunk[sel], 1, pending) \in Seq(Nat)
  <2>. DEFINE x == chunk[sel]
  <2>. HIDE DEF x
  <2>. QED
    BY <1>4 DEF x
<1>7. Contents(tx, TxRing) \in Seq(Nat)
  BY <1>2, ContentsIs DEF TxInv
<1>. QED
  BY <1>2, <1>5, <1>6, <1>7 DEF TxInv, RepliesArriveInOrder

\* A chunk that the endpoint takes is under way as it was prepared.
LEMMA TransmitHolds ==
  ASSUME LinkIInv, NEW onOk, NEW onBusy, Transmit(onOk, onBusy), UNCHANGED <<tx, replied, chunk, arrived>>
  PROVE  TxInv' /\ (pending' = 0 \/ pc' = onBusy) /\ pc' \in {onOk, onBusy}
<1>. USE LinkConstants
<1>1. TxInv
  BY DEF LinkIInv
<1>2. CASE flight.len = 0
  <2>1. flight' = [buffer |-> sel, len |-> pending] /\ sel' = 1 - sel /\ pending' = 0 /\ pc' = onOk
    BY <1>2 DEF Transmit, Goto
  <2>. DEFINE c == SubSeq(chunk[flight.buffer], 1, flight.len)
              d == SubSeq(chunk[sel], 1, pending)
              e == Contents(tx, TxRing)
              a == arrived
  <2>2. a \in Seq(Nat) /\ d \in Seq(Nat) /\ e \in Seq(Nat) /\ replied = a \o c \o d \o e
    BY UnderWay
  <2>3. c = <<>>
    BY <1>2
  <2>4. a \o <<>> = a /\ (a \o d) \o <<>> = a \o d
    <3>. HIDE DEF a, d
    <3>. QED
      BY <2>2
  <2>5. replied = a \o d \o <<>> \o e
    <3>. HIDE DEF a, c, d, e
    <3>. QED
      BY <2>2, <2>3, <2>4
  <2>6. SubSeq(chunk'[flight'.buffer], 1, flight'.len) = d /\ SubSeq(chunk'[sel'], 1, pending') = <<>>
    <3>1. flight'.buffer = sel /\ flight'.len = pending /\ pending' = 0 /\ chunk' = chunk
      BY <2>1
    <3>2. SubSeq(chunk'[sel'], 1, 0) = <<>>
      BY SubSeqEmpty
    <3>. QED
      BY <3>1, <3>2
  <2>7. RepliesArriveInOrder'
    BY <2>5, <2>6 DEF RepliesArriveInOrder
  <2>8. /\ flight' \in [buffer : 0 .. 1, len : 0 .. Chunk] /\ flight'.len = pending /\ flight'.buffer = sel
        /\ sel' \in 0 .. 1 /\ pending' \in 0 .. Chunk /\ flight'.buffer = 1 - sel'
    BY <1>1, <2>1 DEF TxInv
  <2>9. 0 <= Len(chunk[sel'])
    <3>1. chunk[sel'] \in Seq(Nat)
      BY <1>1, <2>8 DEF TxInv
    <3>. DEFINE x == chunk[sel']
    <3>. HIDE DEF x
    <3>2. 0 <= Len(x)
      BY <3>1 DEF x
    <3>. QED
      BY <3>2 DEF x
  <2>. QED
    BY <1>1, <2>1, <2>7, <2>8, <2>9 DEF TxInv
<1>3. CASE flight.len # 0
  <2>1. UNCHANGED <<flight, sel, pending>> /\ pc' = onBusy
    BY <1>3 DEF Transmit, Goto
  <2>. QED
    BY <1>1, <2>1 DEF TxInv, RepliesArriveInOrder
<1>. QED
  BY <1>2, <1>3

\* What a step of the loop keeps that only goes on.
LEMMA Going ==
  ASSUME LinkIInv, pc \notin {"copy", "advance"}, pc' \in {"idle", "prepare", "submit", "read", "parse"},
         UNCHANGED <<snapshot, batch, parser, heard, hostVars, rxVars>>
  PROVE  HostTyped' /\ RxTyped' /\ PollTyped' /\ RxInv' /\ ParserInv' /\ HeardInv'
<1>1. RxInv' /\ Given' = Given
  BY RxKept DEF rxVars
<1>2. ParserInv' /\ HeardInv'
  BY <1>1, StreamKept DEF rxVars
<1>3. HostTyped' /\ RxTyped' /\ PollTyped'
  BY DEF LinkIInv, HostTyped, RxTyped, PollTyped, hostVars, rxVars
<1>. QED
  BY <1>1, <1>2, <1>3

LEMMA PumpRetriesHolds == ASSUME LinkIInv, PumpRetries PROVE LinkIInv'
<1>1. /\ pc = "idle" /\ UNCHANGED <<hostVars, rxVars, txVars, chunk, arrived>>
      /\ IF pending > 0 THEN Transmit("prepare", "read") ELSE Goto("prepare") /\ UNCHANGED <<flight, sel, pending>>
  BY DEF PumpRetries
<1>2. UNCHANGED <<snapshot, batch, parser, heard>>
  BY <1>1 DEF Transmit, Goto
<1>3. TxInv' /\ PcInv' /\ pc' \in {"prepare", "read"}
  <2>1. CASE pending > 0
    <3>1. TxInv' /\ (pending' = 0 \/ pc' = "read") /\ pc' \in {"prepare", "read"}
      BY <1>1, <2>1, TransmitHolds DEF txVars
    <3>. QED
      BY <3>1 DEF PcInv
  <2>2. CASE ~(pending > 0)
    <3>1. pc' = "prepare" /\ UNCHANGED <<flight, sel, pending>>
      BY <1>1, <2>2 DEF Goto
    <3>2. TxInv'
      BY <1>1, <3>1, TxKept DEF txVars, usbVars
    <3>. QED
      BY <2>2, <3>1, <3>2 DEF PcInv
  <2>. QED
    BY <2>1, <2>2
<1>4. HostTyped' /\ RxTyped' /\ PollTyped' /\ RxInv' /\ ParserInv' /\ HeardInv'
  BY <1>1, <1>2, <1>3, Going
<1>. QED
  BY <1>3, <1>4 DEF LinkIInv

LEMMA PumpSubmitsHolds == ASSUME LinkIInv, PumpSubmits PROVE LinkIInv'
<1>1. pc = "submit" /\ Transmit("read", "read") /\ UNCHANGED <<hostVars, rxVars, txVars, chunk, arrived>>
  BY DEF PumpSubmits
<1>2. UNCHANGED <<snapshot, batch, parser, heard>>
  BY <1>1 DEF Transmit, Goto
<1>3. TxInv' /\ PcInv' /\ pc' = "read"
  <2>1. TxInv' /\ pc' \in {"read", "read"}
    BY <1>1, TransmitHolds DEF txVars
  <2>. QED
    BY <2>1 DEF PcInv
<1>4. HostTyped' /\ RxTyped' /\ PollTyped' /\ RxInv' /\ ParserInv' /\ HeardInv'
  BY <1>1, <1>2, <1>3, Going
<1>. QED
  BY <1>3, <1>4 DEF LinkIInv

\* The front of the ring becomes the front of the chunk that is not in flight.
LEMMA PumpPreparesHolds == ASSUME LinkIInv, PumpPrepares PROVE LinkIInv'
<1>. USE LinkConstants
<1>. DEFINE n == Min({Chunk, Used(tx, TxRing)})
            u == Used(tx, TxRing)
            e == Contents(tx, TxRing)
<1>1. /\ pc = "prepare" /\ UNCHANGED <<hostVars, rxVars, replied, sel, flight, arrived>>
      /\ IF n = 0 THEN Goto("read") /\ UNCHANGED <<tx, chunk, pending>>
         ELSE /\ chunk' = [chunk EXCEPT ![sel] = SubSeq(e, 1, n) \o SubSeq(chunk[sel], n + 1, Len(chunk[sel]))]
              /\ tx' = [tx EXCEPT !.r = (tx.r + n) % TxRing]
              /\ pending' = n
              /\ Goto("submit")
  BY DEF PumpPrepares
<1>2. TxInv /\ pending = 0
  <2>1. pending \in 0 .. Chunk
    BY DEF LinkIInv, TxInv
  <2>. QED
    BY <1>1, <2>1 DEF LinkIInv, PcInv
<1>3. u \in Nat /\ e \in Seq(Nat) /\ Len(e) = u
  <2>1. tx \in RingOf(TxRing) /\ TxRing \in Nat \ {0}
    BY <1>2 DEF TxInv
  <2>2. u \in 0 .. TxRing - 1
    BY <2>1, UsedIs
  <2>3. e \in Seq(Nat) /\ Len(e) = u
    BY <2>1, ContentsIs
  <2>. QED
    BY <2>1, <2>2, <2>3
<1>4. n \in Nat /\ n <= Chunk /\ n <= u
  <2>. HIDE DEF u
  <2>. QED
    BY <1>3, LesserIs DEF u
<1>. HIDE DEF n
<1>5. UNCHANGED <<snapshot, batch, parser, heard>> /\ pc' \in {"read", "submit"}
  BY <1>1 DEF Goto
<1>6. CASE n = 0
  <2>1. UNCHANGED <<tx, chunk, pending>> /\ pc' = "read"
    BY <1>1, <1>6 DEF Goto
  <2>2. TxInv'
    BY <1>1, <2>1, TxKept DEF txVars, usbVars
  <2>3. PcInv'
    BY <2>1 DEF PcInv
  <2>4. HostTyped' /\ RxTyped' /\ PollTyped' /\ RxInv' /\ ParserInv' /\ HeardInv'
    BY <1>1, <1>5, Going
  <2>. QED
    BY <2>2, <2>3, <2>4 DEF LinkIInv
<1>7. CASE n # 0
  <2>. DEFINE front == SubSeq(e, 1, n)
              back == SubSeq(e, n + 1, Len(e))
              old == chunk[sel]
              new == front \o SubSeq(old, n + 1, Len(old))
              c == SubSeq(chunk[flight.buffer], 1, flight.len)
              a == arrived
  <2>1. chunk' = [chunk EXCEPT ![sel] = new] /\ tx' = [tx EXCEPT !.r = (tx.r + n) % TxRing] /\ pending' = n /\ pc' = "submit"
    BY <1>1, <1>7 DEF Goto
  <2>2. front \in Seq(Nat) /\ Len(front) = n /\ back \in Seq(Nat) /\ Len(back) = u - n /\ e = front \o back
        /\ \A i \in 1 .. u - n : back[i] = e[n + i]
    <3>. HIDE DEF e, u
    <3>1. front \in Seq(Nat) /\ Len(front) = n
      BY <1>3, <1>4
    <3>2. back \in Seq(Nat) /\ Len(back) = u - n /\ \A i \in 1 .. u - n : back[i] = e[n + i]
      BY <1>3, <1>4
    <3>3. e = front \o back
      <4>1. SubSeq(e, 1, Len(e)) = e
        BY <1>3, SubSeqFull
      <4>2. 1 \in 1 .. Len(e) + 1 /\ n \in 1 - 1 .. Len(e) /\ Len(e) \in n .. Len(e)
        BY <1>3, <1>4
      <4>3. front \o back = SubSeq(e, 1, Len(e))
        BY <1>3, <4>2, ConcatAdjacentSubSeq
      <4>. QED
        BY <4>1, <4>3
    <3>. QED
      BY <3>1, <3>2, <3>3
  <2>3. old \in Seq(Nat) /\ sel \in 0 .. 1 /\ chunk \in [0 .. 1 -> Seq(Nat)]
    BY <1>2 DEF TxInv
  <2>. HIDE DEF old, front
  <2>4. new \in Seq(Nat) /\ Len(new) >= n /\ SubSeq(new, 1, n) = front
    <3>. DEFINE rest == SubSeq(old, n + 1, Len(old))
    <3>1. rest \in Seq(Nat)
      BY <1>4, <2>3
    <3>. HIDE DEF rest
    <3>2. front \o rest \in Seq(Nat) /\ Len(front \o rest) = n + Len(rest) /\ Len(rest) \in Nat
      BY <2>2, <3>1
    <3>3. SubSeq(front \o rest, 1, n) = front
      BY <1>4, <2>2, <3>1, SubSeqOfConcat1, SubSeqFull
    <3>. QED
      BY <1>4, <3>2, <3>3 DEF rest
  <2>. HIDE DEF new
  <2>5. chunk' \in [0 .. 1 -> Seq(Nat)] /\ chunk'[sel] = new /\ \A b \in 0 .. 1 : b # sel => chunk'[b] = chunk[b]
    BY <2>1, <2>3, <2>4
  <2>6. SubSeq(chunk'[flight.buffer], 1, flight.len) = c
    <3>1. CASE flight.len = 0
      BY <3>1
    <3>2. CASE flight.len # 0
      <4>1. flight.buffer = 1 - sel /\ flight.buffer \in 0 .. 1
        BY <1>2, <3>2 DEF TxInv
      <4>2. flight.buffer # sel
        BY <2>3, <4>1
      <4>. QED
        BY <2>5, <4>1, <4>2
    <3>. QED
      BY <3>1, <3>2
  <2>7. /\ tx' \in RingOf(TxRing) /\ tx'.bytes = tx.bytes /\ Used(tx', TxRing) = u - n
        /\ \A i \in 1 .. u - n : Place(tx', TxRing, i) = Place(tx, TxRing, n + i)
    <3>1. n \in 0 .. Used(tx, TxRing) /\ tx \in RingOf(TxRing)
      BY <1>2, <1>3, <1>4 DEF TxInv
    <3>2. Advances(TxRing, tx, n, tx')
      BY <2>1, <3>1 DEF Advances
    <3>3. HasAdvanced(TxRing, tx, n, tx')
      BY <3>2, AdvancedIs
    <3>. QED
      BY <3>3 DEF HasAdvanced
  <2>8. Contents(tx', TxRing) = back
    <3>. DEFINE f == Contents(tx', TxRing)
    <3>1. f \in Seq(Nat) /\ Len(f) = u - n /\ \A i \in 1 .. u - n : f[i] = tx'.bytes[Place(tx', TxRing, i)]
      BY <2>7, ContentsIs
    <3>2. \A j \in 1 .. u : e[j] = tx.bytes[Place(tx, TxRing, j)]
      BY <1>2, ContentsIs DEF TxInv
    <3>3. \A i \in 1 .. u - n : n + i \in 1 .. u
      <4>. HIDE DEF u
      <4>. QED
        BY <1>3, <1>4
    <3>. HIDE DEF f, back, e, u
    <3>4. ASSUME NEW i \in 1 .. u - n PROVE f[i] = back[i]
      <4>. DEFINE j == n + i
      <4>1. j \in 1 .. u /\ back[i] = e[j] /\ Place(tx', TxRing, i) = Place(tx, TxRing, j)
        BY <2>2, <2>7, <3>3
      <4>. HIDE DEF j
      <4>2. e[j] = tx.bytes[Place(tx, TxRing, j)]
        BY <3>2, <4>1
      <4>3. f[i] = tx'.bytes[Place(tx', TxRing, i)]
        BY <3>1
      <4>. QED
        BY <2>7, <4>1, <4>2, <4>3
    <3>5. f = back
      BY <2>2, <3>1, <3>4, SeqEqual
    <3>. QED
      BY <3>5 DEF f
  <2>9. a \in Seq(Nat) /\ c \in Seq(Nat) /\ replied = a \o c \o SubSeq(chunk[sel], 1, pending) \o e
    BY UnderWay
  <2>10. RepliesArriveInOrder'
    <3>1. SubSeq(chunk[sel], 1, pending) = <<>>
      BY <1>2
    <3>. HIDE DEF a, c, e, back
    <3>2. (a \o c) \o <<>> = a \o c /\ (a \o c) \o (front \o back) = ((a \o c) \o front) \o back
      <4>1. a \o c \in Seq(Nat)
        BY <2>9
      <4>. DEFINE ac == a \o c
      <4>. HIDE DEF ac
      <4>2. ac \in Seq(Nat) /\ front \in Seq(Nat) /\ back \in Seq(Nat)
        BY <2>2, <4>1 DEF ac
      <4>3. ac \o <<>> = ac
        BY <4>2, ConcatEmptySeq
      <4>4. (ac \o front) \o back = ac \o (front \o back)
        BY <4>2, ConcatAssociative
      <4>. QED
        BY <4>3, <4>4 DEF ac
    <3>3. replied = a \o c \o front \o back
      BY <2>2, <2>9, <3>1, <3>2
    <3>4. arrived' = a /\ replied' = replied /\ flight' = flight /\ sel' = sel
      BY <1>1 DEF a
    <3>5. SubSeq(chunk'[sel'], 1, pending') = front
      BY <2>1, <2>4, <2>5, <3>4
    <3>. QED
      BY <2>6, <2>8, <3>3, <3>4, <3>5 DEF RepliesArriveInOrder
  <2>11. TxInv'
    <3>1. pending' \in 0 .. Chunk /\ pending' <= Len(chunk'[sel'])
      <4>1. Len(new) \in Nat
        BY <2>4
      <4>. QED
        BY <1>1, <1>4, <2>1, <2>4, <2>5, <4>1
    <3>2. flight'.len <= Len(chunk'[flight'.buffer])
      <4>1. CASE flight.len = 0
        <5>1. chunk'[flight.buffer] \in Seq(Nat)
          BY <1>2, <2>5 DEF TxInv
        <5>. DEFINE x == chunk'[flight.buffer]
        <5>. HIDE DEF x
        <5>2. 0 <= Len(x)
          BY <5>1 DEF x
        <5>. QED
          BY <1>1, <4>1, <5>2 DEF x
      <4>2. CASE flight.len # 0
        <5>1. flight.buffer = 1 - sel /\ flight.buffer \in 0 .. 1 /\ flight.len <= Len(chunk[flight.buffer])
          BY <1>2, <4>2 DEF TxInv
        <5>2. flight.buffer # sel
          BY <2>3, <5>1
        <5>3. chunk'[flight.buffer] = chunk[flight.buffer]
          BY <2>5, <5>1, <5>2
        <5>. QED
          BY <1>1, <5>1, <5>3
      <4>. QED
        BY <4>1, <4>2
    <3>. QED
      BY <1>1, <1>2, <2>5, <2>7, <2>10, <3>1, <3>2 DEF TxInv
  <2>12. PcInv'
    BY <2>1 DEF PcInv
  <2>13. HostTyped' /\ RxTyped' /\ PollTyped' /\ RxInv' /\ ParserInv' /\ HeardInv'
    BY <1>1, <1>5, Going
  <2>. QED
    BY <2>11, <2>12, <2>13 DEF LinkIInv
<1>. QED
  BY <1>6, <1>7

-----------------------------------------------------------------------------
(* Read.                                                                   *)

LEMMA GapIs ==
  ASSUME LinkIInv
  PROVE  /\ rx \in RingOf(RxRing) /\ rx.w \in 0 .. RxRing - 1 /\ rx.r \in 0 .. RxRing - 1
         /\ snapshot \in 0 .. RxRing - 1 /\ stored \in Seq(Nat) /\ batch \in Seq(Nat)
         /\ Used(rx, RxRing) \in 0 .. RxRing - 1 /\ Given \in Nat
         /\ Gap = Wrap(snapshot - rx.r, RxRing) /\ Gap \in 0 .. RxRing - 1
         /\ rx.r # snapshot => Gap >= 1
<1>. USE LinkConstants
<1>1. rx \in RingOf(RxRing) /\ snapshot \in 0 .. RxRing - 1 /\ stored \in Seq(Nat) /\ batch \in Seq(Nat) /\ Given \in Nat
  BY DEF LinkIInv, RxTyped, PollTyped, RxInv
<1>2. rx.w \in 0 .. RxRing - 1 /\ rx.r \in 0 .. RxRing - 1
  BY <1>1 DEF RingOf
<1>3. Used(rx, RxRing) \in 0 .. RxRing - 1
  BY <1>1, UsedIs
<1>. DEFINE a == snapshot - rx.r
<1>4. a \in Int /\ -RxRing <= a /\ a < 2 * RxRing
  BY <1>1, <1>2
<1>5. a % RxRing = Wrap(a, RxRing) /\ Wrap(a, RxRing) \in 0 .. RxRing - 1
  <2>. HIDE DEF a
  <2>. QED
    BY <1>4, WrapIs
<1>6. rx.r # snapshot => Wrap(a, RxRing) >= 1
  BY <1>1, <1>2 DEF Wrap
<1>. QED
  BY <1>1, <1>2, <1>3, <1>5, <1>6 DEF Gap

LEMMA ReadSnapshotsHolds == ASSUME LinkIInv, ReadSnapshots PROVE LinkIInv'
<1>1. /\ pc = "read" /\ snapshot' = rx.w /\ pc' = "copy"
      /\ UNCHANGED <<hostVars, rxVars, batch, parser, handled, heard, txVars, usbVars>>
  BY DEF ReadSnapshots
<1>2. UNCHANGED <<rx, stored, sent, line>>
  BY <1>1 DEF rxVars, hostVars
<1>3. Given' = Given
  BY <1>1, <1>2 DEF Given
<1>4. Gap' = Used(rx, RxRing)
  BY <1>1, <1>2 DEF Gap, Used
<1>5. RxInv'
  <2>1. Used(rx, RxRing) <= Used(rx, RxRing)
    BY GapIs, LinkConstants
  <2>. QED
    BY <1>1, <1>2, <1>3, <1>4, <2>1 DEF LinkIInv, RxInv
<1>6. ParserInv' /\ HeardInv'
  BY <1>1, <1>2, <1>3, StreamKept
<1>7. HostTyped' /\ RxTyped' /\ PollTyped' /\ PcInv'
  BY <1>1, <1>2, GapIs DEF LinkIInv, HostTyped, RxTyped, PollTyped, PcInv
<1>8. TxInv'
  BY <1>1, TxKept
<1>. QED
  BY <1>5, <1>6, <1>7, <1>8 DEF LinkIInv

\* The byte copied is the next one of those that were stored.
LEMMA ReadCopiesHolds == ASSUME LinkIInv, ReadCopies PROVE LinkIInv'
<1>. USE LinkConstants
<1>. DEFINE b == rx.bytes[rx.r]
            l == Len(batch)
            u == Used(rx, RxRing)
            k == Len(stored)
<1>1. /\ pc = "copy" /\ rx.r # snapshot /\ l < Batch /\ batch' = Append(batch, b) /\ pc' = "advance"
      /\ UNCHANGED <<hostVars, rxVars, snapshot, parser, handled, heard, txVars, usbVars>>
  BY DEF ReadCopies
<1>2. UNCHANGED <<rx, stored, sent, line, snapshot, parser, heard>>
  BY <1>1 DEF rxVars, hostVars
<1>3. l \in Nat /\ u \in Nat /\ k \in Nat /\ Gap \in Nat /\ Gap >= 1 /\ Gap <= u
  <2>1. l \in Nat /\ u \in Nat /\ k \in Nat /\ Gap \in Nat /\ Gap >= 1
    BY <1>1, GapIs
  <2>2. Gap <= u
    BY <1>1 DEF LinkIInv, RxInv
  <2>. QED
    BY <2>1, <2>2
<1>4. b \in Nat /\ rx.bytes[Place(rx, RxRing, 1)] = b
  <2>1. rx.r \in 0 .. RxRing - 1 /\ rx \in RingOf(RxRing)
    BY GapIs
  <2>2. b \in Nat
    BY <2>1 DEF RingOf
  <2>3. Place(rx, RxRing, 1) = rx.r
    <3>1. 1 \in 1 .. RxRing
      OBVIOUS
    <3>2. Place(rx, RxRing, 1) = Wrap(rx.r + 1 - 1, RxRing)
      BY <2>1, <3>1, PlaceIs
    <3>. QED
      BY <2>1, <3>2 DEF Wrap
  <2>. QED
    BY <2>2, <2>3
<1>. HIDE DEF b
<1>5. batch \in Seq(Nat) /\ batch' \in Seq(Nat) /\ Len(batch') = l + 1 /\ batch'[l + 1] = b /\ \A i \in 1 .. l : batch'[i] = batch[i]
  <2>1. batch \in Seq(Nat)
    BY GapIs
  <2>. QED
    BY <1>1, <1>4, <2>1
<1>6. Given = k - u - l /\ Given' = Given /\ Given \in Nat
  <2>1. Given = k - u - l + 0
    BY <1>1 DEF Given
  <2>2. Given' = k - u - (l + 1) + 1
    BY <1>1, <1>2, <1>5 DEF Given
  <2>3. Given \in Nat
    BY GapIs
  <2>. HIDE DEF k, u, l
  <2>. QED
    BY <1>3, <2>1, <2>2, <2>3
<1>7. RxInv'
  <2>1. stored[Given + (l + 1)] = b
    <3>1. stored[k - u + 1] = rx.bytes[Place(rx, RxRing, 1)]
      <4>1. 1 \in 1 .. u
        <5>. HIDE DEF u
        <5>. QED
          BY <1>3
      <4>. QED
        BY <4>1 DEF LinkIInv, RxInv
    <3>2. Given + (l + 1) = k - u + 1
      <4>. HIDE DEF k, u, l
      <4>. QED
        BY <1>3, <1>6
    <3>. QED
      BY <1>4, <3>1, <3>2
  <2>2. \A i \in 1 .. l : stored[Given + i] = batch[i]
    BY DEF LinkIInv, RxInv
  <2>3. ASSUME NEW i \in 1 .. l + 1 PROVE stored[Given + i] = batch'[i]
    <3>. HIDE DEF l
    <3>1. i \in 1 .. l \/ i = l + 1
      BY <1>3
    <3>. QED
      BY <1>5, <2>1, <2>2, <3>1
  <2>4. \A i \in 1 .. Len(batch') : stored'[Given' + i] = batch'[i]
    <3>. HIDE DEF l
    <3>. QED
      BY <1>2, <1>5, <1>6, <2>3
  <2>5. Gap' = Gap
    BY <1>2 DEF Gap
  <2>6. Gap' <= Used(rx, RxRing) /\ Gap' >= 1 /\ Len(batch') >= 1
    <3>. HIDE DEF l
    <3>. QED
      BY <1>3, <1>5, <2>5
  <2>. QED
    BY <1>2, <1>6, <2>4, <2>6 DEF LinkIInv, RxInv
<1>8. ParserInv' /\ HeardInv'
  BY <1>2, <1>6, StreamKept
<1>9. HostTyped' /\ RxTyped' /\ PollTyped' /\ PcInv'
  <2>1. l + 1 <= Batch
    <3>. HIDE DEF l
    <3>. QED
      BY <1>1, <1>3
  <2>. QED
    BY <1>1, <1>2, <1>5, <2>1 DEF LinkIInv, HostTyped, RxTyped, PollTyped, PcInv
<1>10. TxInv'
  BY <1>1, TxKept
<1>. QED
  BY <1>7, <1>8, <1>9, <1>10 DEF LinkIInv

LEMMA ReadAdvancesHolds == ASSUME LinkIInv, ReadAdvances PROVE LinkIInv'
<1>. USE LinkConstants
<1>. DEFINE l == Len(batch)
            u == Used(rx, RxRing)
            k == Len(stored)
<1>1. /\ pc = "advance" /\ rx' = [rx EXCEPT !.r = (rx.r + 1) % RxRing] /\ pc' = "copy"
      /\ UNCHANGED <<hostVars, stored, dropped, txVars, usbVars, snapshot, batch, parser, handled, heard>>
  BY DEF ReadAdvances, Goto
<1>2. UNCHANGED <<stored, sent, line, snapshot, batch, parser, heard>>
  BY <1>1 DEF hostVars
<1>3. l \in Nat /\ u \in Nat /\ k \in Nat /\ Gap \in Nat /\ Gap >= 1 /\ Gap <= u
  <2>1. l \in Nat /\ u \in Nat /\ k \in Nat /\ Gap \in Nat
    BY GapIs
  <2>2. Gap <= u /\ Gap >= 1
    BY <1>1 DEF LinkIInv, RxInv
  <2>. QED
    BY <2>1, <2>2
<1>4. /\ rx' \in RingOf(RxRing) /\ rx'.bytes = rx.bytes /\ rx'.w = rx.w /\ rx'.r = Wrap(rx.r + 1, RxRing)
      /\ Used(rx', RxRing) = u - 1
      /\ \A i \in 1 .. u - 1 : Place(rx', RxRing, i) = Place(rx, RxRing, 1 + i)
  <2>. DEFINE n == 1
  <2>1. rx \in RingOf(RxRing) /\ n \in 0 .. Used(rx, RxRing) /\ rx' = [rx EXCEPT !.r = (rx.r + n) % RxRing]
    <3>1. u >= 1 /\ u \in Nat
      BY <1>3
    <3>2. n \in 0 .. u
      <4>. HIDE DEF u
      <4>. QED
        BY <3>1
    <3>. QED
      BY <1>1, <3>2, GapIs
  <2>. HIDE DEF n
  <2>2. /\ rx' \in RingOf(RxRing) /\ rx'.bytes = rx.bytes /\ rx'.w = rx.w /\ rx'.r = Wrap(rx.r + n, RxRing)
        /\ Used(rx', RxRing) = Used(rx, RxRing) - n
        /\ \A i \in 1 .. Used(rx, RxRing) - n : Place(rx', RxRing, i) = Place(rx, RxRing, n + i)
    <3>1. Advances(RxRing, rx, n, rx')
      BY <2>1 DEF Advances
    <3>2. HasAdvanced(RxRing, rx, n, rx')
      BY <3>1, AdvancedIs
    <3>. QED
      BY <3>2 DEF HasAdvanced
  <2>. QED
    BY <2>2 DEF n
<1>5. Given' = Given /\ Given \in Nat
  <2>1. Given = k - u - l + 1 /\ Given' = k - (u - 1) - l + 0 /\ Given \in Nat
    BY <1>1, <1>2, <1>4, GapIs DEF Given
  <2>. HIDE DEF k, u, l
  <2>. QED
    BY <1>3, <2>1
<1>6. Gap' = Gap - 1
  <2>. DEFINE r == rx.r
              s == snapshot
              a == s - Wrap(r + 1, RxRing)
  <2>1. r \in 0 .. RxRing - 1 /\ s \in 0 .. RxRing - 1 /\ Gap = Wrap(s - r, RxRing)
    BY GapIs
  <2>2. Gap' = a % RxRing
    BY <1>2, <1>4 DEF Gap
  <2>. HIDE DEF r, s
  <2>3. a \in Int /\ -RxRing <= a /\ a < 2 * RxRing
    BY <2>1 DEF Wrap
  <2>4. Wrap(a, RxRing) = Wrap(s - r, RxRing) - 1
    <3>1. Wrap(s - r, RxRing) >= 1
      BY <1>3, <2>1
    <3>. QED
      BY <2>1, <3>1 DEF Wrap
  <2>5. a % RxRing = Wrap(a, RxRing)
    <3>. HIDE DEF a
    <3>. QED
      BY <2>3, WrapIs
  <2>. QED
    BY <2>1, <2>2, <2>4, <2>5
<1>7. RxInv'
  <2>1. \A i \in 1 .. u : stored[k - u + i] = rx.bytes[Place(rx, RxRing, i)]
    BY DEF LinkIInv, RxInv
  <2>2. ASSUME NEW i \in 1 .. u - 1 PROVE stored[k - (u - 1) + i] = rx'.bytes[Place(rx', RxRing, i)]
    <3>. HIDE DEF k, u
    <3>. DEFINE j == 1 + i
    <3>1. j \in 1 .. u /\ k - (u - 1) + i = k - u + j
      BY <1>3
    <3>2. Place(rx', RxRing, i) = Place(rx, RxRing, j)
      BY <1>4
    <3>. HIDE DEF j
    <3>3. stored[k - u + j] = rx.bytes[Place(rx, RxRing, j)]
      BY <2>1, <3>1
    <3>. QED
      BY <1>4, <3>1, <3>2, <3>3
  <2>3. \A i \in 1 .. Used(rx', RxRing) : stored'[Len(stored') - Used(rx', RxRing) + i] = rx'.bytes[Place(rx', RxRing, i)]
    <3>1. Used(rx', RxRing) = u - 1 /\ Len(stored') = k /\ stored' = stored
      BY <1>2, <1>4
    <3>. HIDE DEF k, u
    <3>. QED
      BY <2>2, <3>1
  <2>4. Gap' <= Used(rx', RxRing)
    <3>1. Used(rx', RxRing) = u - 1
      BY <1>4
    <3>. HIDE DEF u
    <3>. QED
      BY <1>3, <1>6, <3>1
  <2>5. pc' # "advance"
    BY <1>1
  <2>. QED
    BY <1>2, <1>5, <2>3, <2>4, <2>5 DEF LinkIInv, RxInv
<1>8. ParserInv' /\ HeardInv'
  BY <1>2, <1>5, StreamKept
<1>9. HostTyped' /\ RxTyped' /\ PollTyped' /\ PcInv'
  BY <1>1, <1>2, <1>4 DEF LinkIInv, HostTyped, RxTyped, PollTyped, PcInv
<1>10. TxInv'
  BY <1>1, TxKept
<1>. QED
  BY <1>7, <1>8, <1>9, <1>10 DEF LinkIInv

LEMMA ReadEndsHolds == ASSUME LinkIInv, ReadEnds PROVE LinkIInv'
<1>1. /\ pc = "copy" /\ pc' \in {"idle", "parse"} /\ snapshot' = 0
      /\ UNCHANGED <<hostVars, rxVars, batch, parser, heard, txVars, usbVars>>
  BY DEF ReadEnds
<1>2. UNCHANGED <<rx, stored, sent, line, batch, parser, heard, pending>>
  BY <1>1 DEF rxVars, hostVars, usbVars
<1>3. RxInv' /\ Given' = Given
  BY <1>1, <1>2, RxKept
<1>4. ParserInv' /\ HeardInv'
  BY <1>2, <1>3, StreamKept
<1>5. HostTyped' /\ RxTyped' /\ PollTyped' /\ PcInv'
  BY <1>1, <1>2, LinkConstants DEF LinkIInv, HostTyped, RxTyped, PollTyped, PcInv
<1>6. TxInv'
  BY <1>1, TxKept
<1>. QED
  BY <1>3, <1>4, <1>5, <1>6 DEF LinkIInv

-----------------------------------------------------------------------------
(* The parser.                                                             *)

LEMMA ParseEndsHolds == ASSUME LinkIInv, ParseEnds PROVE LinkIInv'
<1>1. /\ pc = "parse" /\ pc' \in {"read", "idle"}
      /\ UNCHANGED <<hostVars, rxVars, snapshot, batch, parser, heard, txVars, usbVars>>
  BY DEF ParseEnds
<1>2. HostTyped' /\ RxTyped' /\ PollTyped' /\ RxInv' /\ ParserInv' /\ HeardInv'
  BY <1>1, Going
<1>3. TxInv' /\ PcInv'
  BY <1>1, TxKept DEF PcInv
<1>. QED
  BY <1>2, <1>3 DEF LinkIInv

ParserOf == [acc : Seq(Nat), overflow : BOOLEAN]

LEMMA PushIs ==
  ASSUME NEW p \in ParserOf, Len(p.acc) <= MaxWire, NEW b \in Nat
  PROVE  /\ Push(p, b).parser \in ParserOf /\ Len(Push(p, b).parser.acc) <= MaxWire
         /\ Push(p, b).out = <<>> \/ \E f \in Frame : Push(p, b).out = <<f>>
         /\ b = 0 => Push(p, b) = [parser |-> NewParser, out |-> Completed(p)]
         /\ b # 0 => Push(p, b) = [parser |-> Accumulate(p, b), out |-> <<>>]
<1>1. p.acc \in Seq(Nat) /\ MaxWire \in Nat /\ Len(p.acc) \in Nat
  BY LinkConstants DEF ParserOf
<1>2. CASE b = 0
  <2>1. Push(p, b) = [parser |-> NewParser, out |-> Completed(p)]
    BY <1>2 DEF Push
  <2>2. Completed(p) = <<>> \/ \E f \in Frame : Completed(p) = <<f>>
    BY <1>1, CompletedIs
  <2>3. NewParser \in ParserOf /\ Len(NewParser.acc) <= MaxWire
    <3>1. NewParser \in ParserOf /\ Len(NewParser.acc) = 0
      BY DEF NewParser, ParserOf
    <3>. QED
      BY <1>1, <3>1
  <2>. QED
    BY <1>2, <2>1, <2>2, <2>3
<1>3. CASE b # 0
  <2>1. Push(p, b) = [parser |-> Accumulate(p, b), out |-> <<>>]
    BY <1>3 DEF Push
  <2>2. Accumulate(p, b) \in ParserOf /\ Len(Accumulate(p, b).acc) <= MaxWire
    <3>1. CASE Len(p.acc) < MaxWire
      <4>1. Accumulate(p, b) = [p EXCEPT !.acc = Append(p.acc, b)]
        BY <3>1 DEF Accumulate
      <4>2. Append(p.acc, b) \in Seq(Nat) /\ Len(Append(p.acc, b)) = Len(p.acc) + 1
        BY <1>1, AppendProperties
      <4>3. Accumulate(p, b) \in ParserOf /\ Accumulate(p, b).acc = Append(p.acc, b)
        BY <4>1, <4>2 DEF ParserOf
      <4>. QED
        BY <1>1, <3>1, <4>2, <4>3
    <3>2. CASE ~(Len(p.acc) < MaxWire)
      <4>1. Accumulate(p, b) = [p EXCEPT !.overflow = TRUE]
        BY <3>2 DEF Accumulate
      <4>2. Accumulate(p, b) \in ParserOf /\ Accumulate(p, b).acc = p.acc
        BY <4>1 DEF ParserOf
      <4>. QED
        BY <4>2
    <3>. QED
      BY <3>1, <3>2
  <2>. QED
    BY <1>3, <2>1, <2>2
<1>. QED
  BY <1>2, <1>3

\* A frame goes behind what is queued, whole or not at all.
LEMMA SendHolds ==
  ASSUME LinkIInv, NEW wire \in Seq(Nat), Send(wire), UNCHANGED usbVars
  PROVE  TxInv'
<1>. USE LinkConstants
<1>1. CASE wire = <<>> \/ Free(tx, TxRing) < Len(wire)
  <2>1. UNCHANGED txVars
    BY <1>1 DEF Send
  <2>. QED
    BY <2>1, TxKept
<1>2. CASE ~(wire = <<>> \/ Free(tx, TxRing) < Len(wire))
  <2>1. tx' = Filled(tx, TxRing, wire) /\ replied' = replied \o wire
    BY <1>2 DEF Send
  <2>2. UNCHANGED <<chunk, sel, pending, flight, arrived>>
    BY DEF usbVars
  <2>3. TxInv /\ tx \in RingOf(TxRing)
    BY DEF LinkIInv, TxInv
  <2>. DEFINE n == Len(wire)
              u == Used(tx, TxRing)
              e == Contents(tx, TxRing)
              f == Contents(tx', TxRing)
              c == SubSeq(chunk[flight.buffer], 1, flight.len)
              d == SubSeq(chunk[sel], 1, pending)
              a == arrived
  <2>4. Free(tx, TxRing) \in Nat /\ u \in Nat /\ n \in Nat
    BY <2>3, UsedIs
  <2>5. n <= Free(tx, TxRing)
    <3>. HIDE DEF n
    <3>. QED
      BY <1>2, <2>4 DEF n
  <2>6. /\ tx' \in RingOf(TxRing) /\ Used(tx', TxRing) = u + n
        /\ \A i \in 1 .. u : tx'.bytes[Place(tx', TxRing, i)] = tx.bytes[Place(tx, TxRing, i)]
        /\ \A k \in 1 .. n : tx'.bytes[Place(tx', TxRing, u + k)] = wire[k]
    BY <2>1, <2>3, <2>5, FilledIs
  <2>7. e \in Seq(Nat) /\ Len(e) = u /\ \A i \in 1 .. u : e[i] = tx.bytes[Place(tx, TxRing, i)]
    BY <2>3, ContentsIs
  <2>8. f \in Seq(Nat) /\ Len(f) = u + n /\ \A i \in 1 .. u + n : f[i] = tx'.bytes[Place(tx', TxRing, i)]
    BY <2>6, ContentsIs
  <2>9. f = e \o wire
    <3>. HIDE DEF e, f, u
    <3>1. e \o wire \in Seq(Nat) /\ Len(e \o wire) = u + n
      BY <2>7, ConcatProperties
    <3>2. \A i \in 1 .. u + n : (e \o wire)[i] = IF i <= u THEN e[i] ELSE wire[i - u]
      BY <2>7, ConcatProperties
    <3>. HIDE DEF n
    <3>3. ASSUME NEW i \in 1 .. u + n PROVE f[i] = (e \o wire)[i]
      <4>1. CASE i <= u
        <5>1. i \in 1 .. u
          BY <2>4, <4>1
        <5>2. (e \o wire)[i] = e[i]
          BY <3>2, <4>1
        <5>3. f[i] = tx'.bytes[Place(tx', TxRing, i)]
          BY <2>8
        <5>4. tx'.bytes[Place(tx', TxRing, i)] = e[i]
          BY <2>6, <2>7, <5>1
        <5>. QED
          BY <5>2, <5>3, <5>4
      <4>2. CASE i > u
        <5>. DEFINE k == i - u
        <5>1. k \in 1 .. n /\ i = u + k /\ ~(i <= u)
          BY <2>4, <4>2
        <5>2. (e \o wire)[i] = wire[k]
          BY <3>2, <5>1
        <5>3. f[i] = tx'.bytes[Place(tx', TxRing, i)]
          BY <2>8
        <5>. HIDE DEF k
        <5>4. tx'.bytes[Place(tx', TxRing, u + k)] = wire[k]
          BY <2>6, <5>1
        <5>5. Place(tx', TxRing, u + k) = Place(tx', TxRing, i)
          BY <5>1
        <5>. QED
          BY <5>2, <5>3, <5>4, <5>5
      <4>3. i <= u \/ i > u
        BY <2>4
      <4>. QED
        BY <4>1, <4>2, <4>3
    <3>4. Len(f) = Len(e \o wire) /\ \A i \in 1 .. Len(f) : f[i] = (e \o wire)[i]
      BY <2>8, <3>1, <3>3
    <3>. QED
      BY <2>8, <3>1, <3>4, SeqEqual
  <2>10. a \in Seq(Nat) /\ c \in Seq(Nat) /\ d \in Seq(Nat) /\ replied = a \o c \o d \o e
    BY UnderWay
  <2>11. replied' = a \o c \o d \o f /\ replied' \in Seq(Nat)
    <3>. HIDE DEF a, c, d, e, f
    <3>. DEFINE acd == (a \o c) \o d
    <3>1. acd \in Seq(Nat)
      <4>1. a \o c \in Seq(Nat)
        BY <2>10
      <4>. QED
        BY <2>10, <4>1, ConcatProperties
    <3>2. replied = acd \o e
      BY <2>10
    <3>. HIDE DEF acd
    <3>3. (acd \o e) \o wire = acd \o (e \o wire)
      <4>1. acd \in Seq(Nat) /\ e \in Seq(Nat) /\ wire \in Seq(Nat)
        BY <2>7, <3>1
      <4>. QED
        BY <4>1, ConcatAssociative
    <3>4. acd \o f \in Seq(Nat)
      BY <2>8, <3>1
    <3>5. replied' = acd \o f
      BY <2>1, <2>9, <3>2, <3>3
    <3>. QED
      BY <3>4, <3>5 DEF acd
  <2>12. RepliesArriveInOrder'
    BY <2>2, <2>11 DEF RepliesArriveInOrder
  <2>. QED
    BY <2>2, <2>3, <2>6, <2>11, <2>12 DEF TxInv
<1>. QED
  BY <1>1, <1>2

LEMMA AnsweredHolds ==
  ASSUME LinkIInv, NEW out, out = <<>> \/ \E f \in Frame : out = <<f>>, Answered(out), UNCHANGED usbVars
  PROVE  TxInv'
<1>1. CASE out = <<>>
  <2>1. UNCHANGED txVars
    BY <1>1 DEF Answered
  <2>. QED
    BY <2>1, TxKept
<1>2. CASE out # <<>>
  <2>1. PICK f \in Frame : out = <<f>>
    BY <1>2
  <2>2. out[1].seq \in Nat
    BY <2>1 DEF Frame
  <2>3. CASE ~out[1].ok
    <3>1. Send(Encode(out[1].seq, FrameError))
      BY <1>2, <2>3 DEF Answered
    <3>2. FrameError \in Seq(Nat)
      BY DEF FrameError
    <3>. QED
      BY <2>2, <3>1, <3>2, EncodeIs, SendHolds
  <2>4. CASE out[1].ok
    <3>1. PICK body \in Replies : Send(Encode(out[1].seq, body))
      BY <1>2, <2>4 DEF Answered
    <3>2. body \in Seq(Nat)
      BY LinkConstants
    <3>. QED
      BY <2>2, <3>1, <3>2, EncodeIs, SendHolds
  <2>. QED
    BY <2>3, <2>4
<1>. QED
  BY <1>1, <1>2

\* Two delimiters with none in between are one.
LEMMA OneStart ==
  ASSUME NEW g \in Nat, NEW y \in 0 .. g, NEW z \in 0 .. g, Starts(y), Starts(z), Unbroken(y, g), Unbroken(z, g)
  PROVE  y = z
<1>1. ASSUME y < z PROVE FALSE
  <2>1. z \in y + 1 .. g /\ z # 0
    BY <1>1
  <2>. QED
    BY <2>1 DEF Starts, Unbroken
<1>2. ASSUME z < y PROVE FALSE
  <2>1. y \in z + 1 .. g /\ y # 0
    BY <1>2
  <2>. QED
    BY <2>1 DEF Starts, Unbroken
<1>. QED
  BY <1>1, <1>2

\* What the parser takes is the next byte that was stored.
LEMMA ByteParsed ==
  ASSUME LinkIInv, ParseByte
  PROVE  /\ Given' = Given + 1 /\ Given + 1 \in 1 .. Len(stored) /\ Head(batch) = stored[Given + 1]
         /\ Head(batch) \in Nat /\ RxInv' /\ batch' \in Seq(Nat) /\ Len(batch') <= Batch
<1>. USE LinkConstants
<1>. DEFINE l == Len(batch)
            u == Used(rx, RxRing)
            k == Len(stored)
            g == Given
<1>1. pc = "parse" /\ batch # <<>> /\ batch' = Tail(batch) /\ UNCHANGED <<rx, stored, pc, snapshot>>
  BY DEF ParseByte, rxVars
<1>2. l \in Nat /\ u \in Nat /\ k \in Nat /\ g \in Nat /\ batch \in Seq(Nat)
  BY GapIs
<1>3. l >= 1 /\ Head(batch) = batch[1] /\ batch[1] \in Nat
  BY <1>1, <1>2
<1>4. batch' \in Seq(Nat) /\ Len(batch') = l - 1 /\ \A i \in 1 .. l - 1 : batch'[i] = batch[i + 1]
  BY <1>1, <1>2, HeadTailProperties
<1>5. \A i \in 1 .. l : stored[g + i] = batch[i]
  BY DEF LinkIInv, RxInv
<1>6. g = k - u - l /\ Given' = k - u - (l - 1)
  <2>1. Given = k - u - l + 0
    BY <1>1 DEF Given
  <2>2. Given' = k - u - (l - 1) + 0
    BY <1>1, <1>4 DEF Given
  <2>. HIDE DEF k, u, l, g
  <2>3. k - u - l \in Int /\ k - u - (l - 1) \in Int
    BY <1>2
  <2>. QED
    BY <2>1, <2>2, <2>3 DEF g
<1>7. l <= Batch
  BY DEF LinkIInv, PollTyped
<1>. HIDE DEF k, u, l, g
<1>8. Given' = g + 1 /\ g + 1 \in 1 .. k /\ l - 1 <= Batch /\ 1 \in 1 .. l
  BY <1>2, <1>3, <1>6, <1>7
<1>9. \A i \in 1 .. Len(batch') : stored'[Given' + i] = batch'[i]
  <2>1. ASSUME NEW i \in 1 .. l - 1 PROVE stored[(g + 1) + i] = batch'[i]
    <3>. DEFINE j == i + 1
    <3>1. j \in 1 .. l /\ (g + 1) + i = g + j /\ batch'[i] = batch[j]
      <4>1. j \in 1 .. l /\ (g + 1) + i = g + j
        BY <1>2
      <4>2. batch'[i] = batch[j]
        BY <1>4
      <4>. QED
        BY <4>1, <4>2
    <3>. HIDE DEF j
    <3>2. stored[g + j] = batch[j]
      BY <1>5, <3>1
    <3>. QED
      BY <3>1, <3>2
  <2>. QED
    BY <1>1, <1>4, <1>8, <2>1
<1>10. Gap' = Gap /\ Given' \in Nat
  BY <1>1, <1>2, <1>8 DEF Gap
<1>11. RxInv'
  BY <1>1, <1>9, <1>10 DEF LinkIInv, RxInv
<1>. QED
  BY <1>3, <1>4, <1>5, <1>8, <1>11 DEF k, g

LEMMA ParseByteHolds == ASSUME LinkIInv, ParseByte PROVE LinkIInv'
<1>. USE LinkConstants
<1>. DEFINE b == Head(batch)
            g == Given
            pushed == Push(parser, b)
<1>1. /\ pc = "parse" /\ parser' = pushed.parser /\ heard' = heard \o pushed.out /\ Answered(pushed.out)
      /\ UNCHANGED <<hostVars, rxVars, pc, snapshot, usbVars>>
  BY DEF ParseByte
<1>2. UNCHANGED <<sent, line, rx, stored, pc, snapshot, pending>>
  BY <1>1 DEF hostVars, rxVars, usbVars
<1>3. /\ Given' = g + 1 /\ g + 1 \in 1 .. Len(stored) /\ b = stored[g + 1]
      /\ b \in Nat /\ RxInv' /\ batch' \in Seq(Nat) /\ Len(batch') <= Batch
  BY ByteParsed
<1>4. g \in Nat /\ stored \in Seq(Nat)
  BY GapIs
<1>5. parser \in ParserOf /\ Len(parser.acc) <= MaxWire /\ heard \in Seq(Frame) /\ parser.acc \in Seq(Nat)
  BY DEF LinkIInv, PollTyped, ParserOf
<1>6. /\ pushed.parser \in ParserOf /\ Len(pushed.parser.acc) <= MaxWire
      /\ pushed.out = <<>> \/ \E f \in Frame : pushed.out = <<f>>
      /\ b = 0 => pushed = [parser |-> NewParser, out |-> Completed(parser)]
      /\ b # 0 => pushed = [parser |-> Accumulate(parser, b), out |-> <<>>]
  <2>. HIDE DEF b
  <2>. QED
    BY <1>3, <1>5, PushIs
<1>7. TxInv'
  <2>. DEFINE out == pushed.out
  <2>1. (out = <<>> \/ \E f \in Frame : out = <<f>>) /\ Answered(out) /\ UNCHANGED usbVars
    BY <1>1, <1>6
  <2>. HIDE DEF out
  <2>. QED
    BY <2>1, AnsweredHolds
<1>. HIDE DEF b, pushed
<1>8. heard' \in Seq(Frame) /\ RangeOf(heard) \subseteq RangeOf(heard') /\ RangeOf(pushed.out) \subseteq RangeOf(heard')
  <2>. DEFINE out == pushed.out
  <2>1. out \in Seq(Frame) /\ heard' = heard \o out
    <3>1. heard' = heard \o out
      BY <1>1
    <3>2. out = <<>> \/ \E f \in Frame : out = <<f>>
      BY <1>6
    <3>. HIDE DEF out
    <3>3. CASE out = <<>>
      BY <3>1, <3>3
    <3>4. CASE out # <<>>
      <4>1. PICK f \in Frame : out = <<f>>
        BY <3>2, <3>4
      <4>2. <<f>> \in Seq(Frame)
        OBVIOUS
      <4>. QED
        BY <3>1, <4>1, <4>2
    <3>. QED
      BY <3>3, <3>4
  <2>. HIDE DEF out
  <2>2. /\ heard' \in Seq(Frame) /\ Len(heard') = Len(heard) + Len(out) /\ Len(heard) \in Nat /\ Len(out) \in Nat
        /\ \A i \in 1 .. Len(heard) + Len(out) : heard'[i] = IF i <= Len(heard) THEN heard[i] ELSE out[i - Len(heard)]
    BY <1>5, <2>1, ConcatProperties
  <2>a. DOMAIN heard = 1 .. Len(heard) /\ DOMAIN out = 1 .. Len(out) /\ DOMAIN heard' = 1 .. Len(heard')
    BY <1>5, <2>1, <2>2
  <2>3. ASSUME NEW i \in 1 .. Len(heard) PROVE heard[i] \in RangeOf(heard')
    <3>1. i \in 1 .. Len(heard') /\ heard'[i] = heard[i]
      BY <2>2
    <3>. QED
      BY <2>a, <3>1 DEF RangeOf
  <2>4. ASSUME NEW i \in 1 .. Len(out) PROVE out[i] \in RangeOf(heard')
    <3>. DEFINE j == Len(heard) + i
    <3>1. j \in 1 .. Len(heard) + Len(out) /\ ~(j <= Len(heard)) /\ j - Len(heard) = i
      BY <2>2
    <3>. HIDE DEF j
    <3>2. heard'[j] = out[i] /\ j \in 1 .. Len(heard')
      BY <2>2, <3>1
    <3>. QED
      BY <2>a, <3>2 DEF RangeOf
  <2>5. RangeOf(heard) \subseteq RangeOf(heard')
    <3>1. RangeOf(heard) = {heard[i] : i \in 1 .. Len(heard)}
      BY <2>a DEF RangeOf
    <3>. QED
      BY <2>3, <3>1
  <2>6. RangeOf(out) \subseteq RangeOf(heard')
    <3>1. RangeOf(out) = {out[i] : i \in 1 .. Len(out)}
      BY <2>a DEF RangeOf
    <3>. QED
      BY <2>4, <3>1
  <2>. QED
    BY <2>2, <2>5, <2>6 DEF out
<1>9. PICK z \in 0 .. g : Starts(z) /\ Unbroken(z, g) /\ Since(z)
  BY DEF LinkIInv, ParserInv
<1>10. \A y, e \in Nat : Starts(y)' = Starts(y) /\ Unbroken(y, e)' = Unbroken(y, e)
  BY <1>2 DEF Starts, Unbroken
<1>11. Since(z) <=> IF g - z <= MaxWire THEN parser = Whole(SubSeq(stored, z + 1, g))
                    ELSE parser.overflow /\ Len(parser.acc) = MaxWire
  BY DEF Since
<1>12. \A y \in Nat : Since(y)' <=> IF (g + 1) - y <= MaxWire THEN parser' = Whole(SubSeq(stored, y + 1, g + 1))
                                    ELSE parser'.overflow /\ Len(parser'.acc) = MaxWire
  BY <1>2, <1>3 DEF Since
<1>. HIDE DEF g
<1>13. ParserInv'
  <2>1. CASE b # 0
    <3>1. z \in 0 .. g + 1 /\ z \in Nat /\ g + 1 \in Nat
      BY <1>4
    <3>2. Unbroken(z, g + 1)
      <4>1. \A i \in z + 1 .. g + 1 : i \in z + 1 .. g \/ i = g + 1
        BY <1>4
      <4>. QED
        BY <1>3, <1>9, <2>1, <4>1 DEF Unbroken
    <3>3. parser' = Accumulate(parser, b)
      BY <1>1, <1>6, <2>1
    <3>4. CASE g - z <= MaxWire
      <4>. DEFINE s == SubSeq(stored, z + 1, g)
      <4>1. parser = Whole(s)
        BY <1>9, <1>11, <3>4
      <4>2. s \in Seq(Nat) /\ Len(s) = g - z
        BY <1>3, <1>4
      <4>3. Append(s, b) = SubSeq(stored, z + 1, g + 1)
        <5>1. z + 1 \in Int /\ g + 1 \in Int /\ z + 1 <= g + 1 /\ (g + 1) - 1 = g
          BY <1>4
        <5>. DEFINE m == z + 1
                    n == g + 1
        <5>2. SubSeq(stored, m, n) = Append(SubSeq(stored, m, n - 1), stored[n])
          <6>1. m \in 1 .. Len(stored) /\ n \in m .. Len(stored)
            BY <1>3, <1>4
          <6>. HIDE DEF m, n
          <6>. QED
            BY <1>4, <6>1, SubSeqRecursiveSecond
        <5>. QED
          BY <1>3, <5>1, <5>2
      <4>. HIDE DEF s
      <4>4. CASE g - z < MaxWire
        <5>1. parser' = Whole(Append(s, b))
          <6>1. parser.acc = s /\ parser.overflow = FALSE
            BY <4>1 DEF Whole
          <6>2. Len(s) < MaxWire
            BY <4>2, <4>4
          <6>. QED
            BY <3>3, <4>1, <6>1, <6>2 DEF Whole, Accumulate
        <5>2. (g + 1) - z <= MaxWire
          BY <1>4, <4>4
        <5>3. Since(z)'
          BY <1>12, <3>1, <4>3, <5>1, <5>2
        <5>. QED
          BY <1>3, <1>9, <1>10, <3>1, <3>2, <5>3 DEF ParserInv
      <4>5. CASE g - z = MaxWire
        <5>1. parser'.overflow /\ parser'.acc = s
          <6>1. parser.acc = s /\ ~(Len(s) < MaxWire)
            BY <4>1, <4>2, <4>5 DEF Whole
          <6>2. parser' = [parser EXCEPT !.overflow = TRUE]
            BY <3>3, <6>1 DEF Accumulate
          <6>. QED
            BY <1>5, <6>1, <6>2 DEF ParserOf
        <5>2. ~((g + 1) - z <= MaxWire)
          BY <1>4, <4>5
        <5>3. Len(parser'.acc) = MaxWire
          BY <4>2, <4>5, <5>1
        <5>4. Since(z)'
          BY <1>12, <3>1, <5>1, <5>2, <5>3
        <5>. QED
          BY <1>3, <1>9, <1>10, <3>1, <3>2, <5>4 DEF ParserInv
      <4>. QED
        BY <1>4, <3>4, <4>4, <4>5
    <3>5. CASE ~(g - z <= MaxWire)
      <4>1. parser.overflow /\ Len(parser.acc) = MaxWire
        BY <1>9, <1>11, <3>5
      <4>2. parser' = [parser EXCEPT !.overflow = TRUE]
        BY <3>3, <4>1 DEF Accumulate
      <4>3. parser'.overflow /\ Len(parser'.acc) = MaxWire
        BY <1>5, <4>1, <4>2 DEF ParserOf
      <4>4. ~((g + 1) - z <= MaxWire)
        BY <1>4, <3>5
      <4>5. Since(z)'
        BY <1>12, <3>1, <4>3, <4>4
      <4>. QED
        BY <1>3, <1>9, <1>10, <3>1, <3>2, <4>5 DEF ParserInv
    <3>. QED
      BY <3>4, <3>5
  <2>2. CASE b = 0
    <3>. PICK y \in Nat : y = g + 1
      BY <1>4
    <3>1. y \in 0 .. y /\ y \in Nat /\ Given' = y
      BY <1>3, <1>4
    <3>2. Starts(y)' /\ Unbroken(y, y)'
      <4>1. Starts(y)
        BY <1>3, <2>2 DEF Starts
      <4>2. Unbroken(y, y)
        BY <3>1 DEF Unbroken
      <4>. QED
        BY <1>10, <3>1, <4>1, <4>2
    <3>3. parser' = Whole(<<>>)
      BY <1>1, <1>6, <2>2 DEF NewParser, Whole
    <3>4. Since(y)' <=> IF y - y <= MaxWire THEN parser' = Whole(SubSeq(stored, y + 1, y))
                        ELSE parser'.overflow /\ Len(parser'.acc) = MaxWire
      BY <1>2, <3>1 DEF Since
    <3>5. y - y <= MaxWire /\ y < y + 1 /\ y \in Int /\ y + 1 \in Int
      BY <3>1
    <3>6. SubSeq(stored, y + 1, y) = <<>>
      BY <3>5, SubSeqEmpty
    <3>7. Since(y)'
      BY <3>3, <3>4, <3>5, <3>6
    <3>. QED
      BY <3>1, <3>2, <3>7 DEF ParserInv
  <2>. QED
    BY <2>1, <2>2
<1>14. HeardInv'
  <2>. SUFFICES ASSUME NEW e \in 1 .. Given', NEW y \in 0 .. e - 1,
                       Starts(y)', Unbroken(y, e - 1)', stored'[e] = 0, e - 1 - y <= MaxWire
                PROVE  RangeOf(Completed(Whole(SubSeq(stored', y + 1, e - 1)))) \subseteq RangeOf(heard')
    BY DEF HeardInv
  <2>. DEFINE d == e - 1
  <2>1. e \in 1 .. g + 1 /\ y \in 0 .. d /\ d \in Nat /\ y \in Nat /\ Unbroken(y, d)'
    BY <1>3, <1>4
  <2>2. Starts(y) /\ Unbroken(y, d) /\ stored[e] = 0
    <3>. HIDE DEF d
    <3>. QED
      BY <1>2, <1>10, <2>1
  <2>3. CASE e <= g
    <3>1. e \in 1 .. Given
      BY <1>4, <2>1, <2>3 DEF g
    <3>2. RangeOf(Completed(Whole(SubSeq(stored, y + 1, e - 1)))) \subseteq RangeOf(heard)
      BY <2>2, <3>1 DEF LinkIInv, HeardInv
    <3>. QED
      BY <1>2, <1>8, <3>2
  <2>4. CASE e = g + 1
    <3>1. d = g /\ y \in 0 .. g /\ b = 0
      BY <1>3, <1>4, <2>1, <2>2, <2>4
    <3>2. y = z
      <4>. HIDE DEF d
      <4>. QED
        BY <1>4, <1>9, <2>2, <3>1, OneStart
    <3>3. parser = Whole(SubSeq(stored, y + 1, e - 1))
      <4>1. g - z <= MaxWire
        BY <3>1, <3>2
      <4>. QED
        BY <1>9, <1>11, <3>1, <3>2, <4>1
    <3>4. pushed.out = Completed(parser)
      BY <1>6, <3>1
    <3>. QED
      BY <1>2, <1>8, <3>3, <3>4
  <2>. QED
    BY <1>4, <2>1, <2>3, <2>4
<1>15. HostTyped' /\ RxTyped' /\ PollTyped' /\ PcInv'
  BY <1>1, <1>2, <1>3, <1>6, <1>8 DEF LinkIInv, HostTyped, RxTyped, PollTyped, PcInv, ParserOf
<1>. QED
  BY <1>3, <1>7, <1>13, <1>14, <1>15 DEF LinkIInv

-----------------------------------------------------------------------------
(* The whole.                                                              *)

LEMMA LinkGoesOn == LinkIInv /\ [LinkNext]_linkVars => LinkIInv'
<1>. SUFFICES ASSUME LinkIInv, [LinkNext]_linkVars PROVE LinkIInv'
  OBVIOUS
<1>1. CASE OnRx
  BY <1>1, OnRxHolds
<1>2. CASE TransferCompletes
  BY <1>2, TransferCompletesHolds
<1>3. CASE PumpRetries
  BY <1>3, PumpRetriesHolds
<1>4. CASE PumpPrepares
  BY <1>4, PumpPreparesHolds
<1>5. CASE PumpSubmits
  BY <1>5, PumpSubmitsHolds
<1>6. CASE ReadSnapshots
  BY <1>6, ReadSnapshotsHolds
<1>7. CASE ReadCopies
  BY <1>7, ReadCopiesHolds
<1>8. CASE ReadAdvances
  BY <1>8, ReadAdvancesHolds
<1>9. CASE ReadEnds
  BY <1>9, ReadEndsHolds
<1>10. CASE ParseByte
  BY <1>10, ParseByteHolds
<1>11. CASE ParseEnds
  BY <1>11, ParseEndsHolds
<1>12. CASE UNCHANGED linkVars
  <2>1. UNCHANGED <<hostVars, rxVars, pollVars, txVars, usbVars>>
    BY <1>12 DEF linkVars
  <2>2. UNCHANGED <<rx, stored, sent, line, pc, snapshot, batch, parser, heard, pending>>
    BY <2>1 DEF hostVars, rxVars, pollVars, usbVars
  <2>3. RxInv' /\ Given' = Given
    BY <2>2, RxKept
  <2>4. ParserInv' /\ HeardInv'
    BY <2>2, <2>3, StreamKept
  <2>5. TxInv'
    BY <2>1, TxKept
  <2>6. HostTyped' /\ RxTyped' /\ PollTyped' /\ PcInv'
    BY <2>2 DEF LinkIInv, HostTyped, RxTyped, PollTyped, PcInv
  <2>. QED
    BY <2>3, <2>4, <2>5, <2>6 DEF LinkIInv
<1>. QED
  BY <1>1, <1>2, <1>3, <1>4, <1>5, <1>6, <1>7, <1>8, <1>9, <1>10, <1>11, <1>12 DEF LinkNext, Poll

\* The link keeps to its invariant.
LEMMA LinkIsInductive == LinkSpec => []LinkIInv
<1>. QED
  BY LinkStarts, LinkGoesOn, PTL DEF LinkSpec

LEMMA GivenIsStored == ASSUME LinkIInv PROVE Given <= Len(stored)
<1>. DEFINE l == Len(batch)
            u == Used(rx, RxRing)
            k == Len(stored)
<1>1. l \in Nat /\ u \in Nat /\ k \in Nat
  BY GapIs, LinkConstants
<1>2. Given = k - u - l + (IF pc = "advance" THEN 1 ELSE 0)
  BY DEF Given
<1>3. pc = "advance" => l >= 1
  BY DEF LinkIInv, RxInv
<1>. HIDE DEF l, u, k
<1>4. Given <= k
  BY <1>1, <1>2, <1>3
<1>. QED
  BY <1>4 DEF k

LEMMA InvGivesTypes == LinkIInv => LinkTypeOK
<1>. SUFFICES ASSUME LinkIInv PROVE LinkTypeOK
  OBVIOUS
<1>1. rx.w \in 0 .. RxRing - 1 /\ rx.r \in 0 .. RxRing - 1
  BY GapIs
<1>2. tx.w \in 0 .. TxRing - 1 /\ tx.r \in 0 .. TxRing - 1
  BY DEF LinkIInv, TxInv, RingOf
<1>3. flight.len \in 0 .. Chunk
  BY DEF LinkIInv, TxInv
<1>. QED
  BY <1>1, <1>2, <1>3 DEF LinkIInv, PollTyped, TxInv, PcInv, LinkTypeOK

\* A frame that lies whole in what was stored has been read as what it is.
LEMMA InvGivesSpared == LinkIInv => SparedFrameIsHeard
<1>. SUFFICES ASSUME LinkIInv,
                     NEW k \in DOMAIN sent, NEW e \in Len(Encode(k, sent[k])) .. Given,
                     SubSeq(stored, e - Len(Encode(k, sent[k])) + 1, e) = Encode(k, sent[k]),
                     e = Len(Encode(k, sent[k])) \/ stored[e - Len(Encode(k, sent[k]))] = 0
              PROVE  [seq |-> k, body |-> sent[k], ok |-> TRUE] \in RangeOf(heard)
  BY DEF SparedFrameIsHeard
<1>1. k \in Nat /\ sent[k] \in Seq(Nat) /\ Len(sent[k]) <= MaxBody
  <2>1. sent \in Scripts /\ sent \in Seq(Seq(Nat))
    BY LinkConstants DEF LinkIInv, HostTyped
  <2>2. DOMAIN sent = 1 .. Len(sent) /\ Len(sent) \in Nat
    BY <2>1
  <2>. QED
    BY <2>1, <2>2, LinkConstants
<1>. DEFINE body == sent[k]
            w == WireOf(k, body)
            wire == Encode(k, body)
            m == Len(w)
            z == e - Len(wire)
<1>2. wire = w \o <<0>> /\ w \in Seq(Nat) /\ NoZero(w) /\ m >= 1 /\ m < MaxWire /\ MaxWire \in Nat /\ m \in Nat
  <2>1. body \in Seq(Nat) /\ Len(body) <= MaxBody
    BY <1>1
  <2>. HIDE DEF body
  <2>2. wire = w \o <<0>> /\ w \in Seq(Nat) /\ NoZero(w) /\ m >= 1 /\ m < MaxWire
    BY <1>1, <2>1, EncodeIs
  <2>3. m \in Nat
    BY <2>2
  <2>. QED
    BY <2>2, <2>3, LinkConstants
<1>. HIDE DEF w, wire
<1>3. wire \in Seq(Nat) /\ Len(wire) = m + 1 /\ wire[m + 1] = 0 /\ \A i \in 1 .. m : wire[i] = w[i]
  BY <1>2
<1>4. Given \in Nat /\ stored \in Seq(Nat) /\ Given <= Len(stored)
  <2>1. Given \in Nat /\ stored \in Seq(Nat)
    BY GapIs
  <2>. QED
    BY <2>1, GivenIsStored
<1>5. e \in m + 1 .. Given /\ e \in Nat /\ z = e - (m + 1) /\ z \in Nat
  <2>1. e \in Len(wire) .. Given
    BY DEF wire
  <2>. QED
    BY <1>2, <1>3, <1>4, <2>1
<1>6. SubSeq(stored, z + 1, e) = wire /\ (z = 0 \/ stored[z] = 0)
  <2>1. e = Len(wire) \/ stored[z] = 0
    BY DEF wire
  <2>2. e = Len(wire) => z = 0
    <3>1. Len(wire) \in Nat /\ e \in Nat
      BY <1>2, <1>3, <1>5
    <3>2. \A n \in Nat : n - n = 0
      OBVIOUS
    <3>. QED
      BY <3>1, <3>2
  <2>3. SubSeq(stored, z + 1, e) = wire
    BY DEF wire
  <2>. QED
    BY <2>1, <2>2, <2>3
<1>. HIDE DEF z, m
<1>7. \A i \in 1 .. m + 1 : stored[z + i] = wire[i]
  <2>a. e \in z .. Len(stored) /\ e - z = m + 1
    BY <1>2, <1>4, <1>5
  <2>1. ASSUME NEW i \in 1 .. m + 1 PROVE stored[z + i] = wire[i]
    <3>1. \A j \in 1 .. e - z : SubSeq(stored, z + 1, e)[j] = stored[z + j]
      BY <1>4, <1>5, <2>a, CutIs
    <3>2. SubSeq(stored, z + 1, e)[i] = stored[z + i]
      BY <2>a, <3>1
    <3>. QED
      BY <1>6, <3>2
  <2>. QED
    BY <2>1
<1>8. Starts(z) /\ Unbroken(z, e - 1) /\ stored[e] = 0 /\ e - 1 - z <= MaxWire
  <2>1. Starts(z)
    BY <1>6 DEF Starts
  <2>2. ASSUME NEW i \in z + 1 .. e - 1 PROVE stored[i] # 0
    <3>. DEFINE j == i - z
    <3>1. j \in 1 .. m /\ z + j = i /\ j \in 1 .. m + 1
      BY <1>2, <1>5
    <3>. HIDE DEF j
    <3>2. stored[i] = w[j] /\ w[j] # 0
      BY <1>2, <1>3, <1>7, <3>1 DEF NoZero, m
    <3>. QED
      BY <3>2
  <2>3. stored[e] = 0
    <3>1. m + 1 \in 1 .. m + 1 /\ z + (m + 1) = e
      BY <1>2, <1>5
    <3>. QED
      BY <1>3, <1>7, <3>1
  <2>4. e - 1 - z <= MaxWire
    BY <1>2, <1>5
  <2>. QED
    BY <2>1, <2>2, <2>3, <2>4 DEF Unbroken
<1>9. SubSeq(stored, z + 1, e - 1) = w
  <2>. DEFINE s == SubSeq(stored, z + 1, e - 1)
  <2>1. s \in Seq(Nat) /\ Len(s) = m /\ \A i \in 1 .. m : s[i] = stored[z + i]
    <3>. DEFINE d == e - 1
    <3>1. d \in z .. Len(stored) /\ d - z = m
      BY <1>2, <1>4, <1>5
    <3>. HIDE DEF d
    <3>2. /\ SubSeq(stored, z + 1, d) \in Seq(Nat) /\ Len(SubSeq(stored, z + 1, d)) = d - z
          /\ \A i \in 1 .. d - z : SubSeq(stored, z + 1, d)[i] = stored[z + i]
      <4>1. stored \in Seq(Nat) /\ z \in Nat /\ d \in z .. Len(stored)
        BY <1>4, <1>5, <3>1
      <4>. QED
        BY <4>1, CutIs
    <3>. QED
      BY <3>1, <3>2 DEF d
  <2>. HIDE DEF s
  <2>2. ASSUME NEW i \in 1 .. m PROVE s[i] = w[i]
    <3>1. i \in 1 .. m + 1
      BY <1>2
    <3>. QED
      BY <1>3, <1>7, <2>1, <3>1
  <2>3. Len(w) = m
    BY DEF m
  <2>4. s = w
    BY <1>2, <2>1, <2>2, <2>3, SeqEqual
  <2>. QED
    BY <2>4 DEF s
<1>10. RangeOf(Completed(Whole(w))) \subseteq RangeOf(heard)
  <2>1. e \in 1 .. Given /\ z \in 0 .. e - 1
    BY <1>2, <1>4, <1>5
  <2>2. RangeOf(Completed(Whole(SubSeq(stored, z + 1, e - 1)))) \subseteq RangeOf(heard)
    BY <1>8, <2>1 DEF LinkIInv, HeardInv
  <2>. QED
    BY <1>9, <2>2
<1>11. Completed(Whole(w)) = <<[seq |-> k, body |-> sent[k], ok |-> TRUE]>>
  BY <1>1, FrameIsRead DEF Whole, w
<1>. DEFINE f == [seq |-> k, body |-> sent[k], ok |-> TRUE]
<1>. HIDE DEF f
<1>12. f \in RangeOf(<<f>>)
  <2>1. DOMAIN <<f>> = {1} /\ <<f>>[1] = f
    OBVIOUS
  <2>. QED
    BY <2>1 DEF RangeOf
<1>. QED
  BY <1>10, <1>11, <1>12 DEF f

\* For any sizes of rings, chunks, batches and packets, any noise, scripts and replies, and wherever
\* the two interrupts come: the indices stay in range, a frame that got into the receive ring whole
\* behind a delimiter is surfaced verified once its own is parsed, and the host gets the frames that
\* were queued whole, in order and each byte once (OnRx, Read, FrameParser::Push, Pump, Send).
THEOREM LinkIsTrue == LinkSpec => []LinkIsFaithful
<1>1. LinkIInv => LinkIsFaithful
  BY InvGivesTypes, InvGivesSpared DEF LinkIInv, TxInv, LinkIsFaithful
<1>. QED
  BY <1>1, LinkIsInductive, PTL
=============================================================================
