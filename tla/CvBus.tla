-------------------------------- MODULE CvBus --------------------------------
(***************************************************************************)
(* The I2C chips behind the CV jacks of Alchemy Lab v2: the expander whose *)
(* outputs route the jacks and pulse the latch of the DAC (pca9557.cpp),   *)
(* and the quad DAC (mcp4728.cpp).                                         *)
(*                                                                         *)
(* A line of the expander is asserted (low: switch closed, latch open) or  *)
(* not.  The DAC's outputs follow its input registers while the latch line *)
(* is asserted.  The state is a record, an operation the set of its        *)
(* outcomes [ok, bus]: any transfer can fail.  A failed write of the       *)
(* expander changes nothing or, where answers can be lost (unheard), has   *)
(* taken effect all the same; of the four channels of the DAC any number   *)
(* has been written before the failure.                                    *)
(***************************************************************************)
EXTENDS Integers, FiniteSets

CONSTANTS
    Channels,   \* of the DAC, from 1 on in the order they are written
    Lines,      \* the select lines of the expander, one a jack
    Latch,      \* the line that latches the DAC
    Codes,      \* of the DAC
    Neutral     \* 2048

ASSUME BusAssumption ==
    /\ Cardinality(Channels) \in Nat /\ Channels = 1 .. Cardinality(Channels)
    /\ Codes \subseteq Nat
    /\ Latch \notin Lines /\ Neutral \in Codes

\* As Init left it, or tried to: a chip that did not answer is not ready, and nobody looks
\* whether the latch was pulsed, without which the outputs are what they were.
Buses ==
    {[chip |-> {}, shadow |-> {}, expander |-> e, dac |-> d, unheard |-> u,
      in |-> [c \in Channels |-> Neutral], out |-> o] :
        e \in BOOLEAN, d \in BOOLEAN, u \in BOOLEAN, o \in [Channels -> Codes]}

Transparent(b) == IF Latch \in b.chip THEN [b EXCEPT !.out = b.in] ELSE b

Done(b)   == [ok |-> TRUE, bus |-> b]
Failed(b) == [ok |-> FALSE, bus |-> b]

\* The outcomes of one operation and, where it succeeded, another.
Then(outcomes, op(_)) == UNION {IF r.ok THEN op(r.bus) ELSE {r} : r \in outcomes}

-----------------------------------------------------------------------------
(* Pca9557                                                                 *)

\* The shadow is brought up to date before the write.
WriteRegShadowFirst(b, lines) ==
    {Done(Transparent([b EXCEPT !.chip = lines, !.shadow = lines])),
     Failed([b EXCEPT !.shadow = lines])}

WriteReg(b, lines) ==
    {Done(Transparent([b EXCEPT !.chip = lines, !.shadow = lines])), Failed(b)}
      \cup IF b.unheard THEN {Failed(Transparent([b EXCEPT !.chip = lines]))} ELSE {}

\* A line that is as wanted, by the shadow, is not written.
SetOutputBit(b, line, asserted) ==
    LET lines == IF asserted THEN b.shadow \cup {line} ELSE b.shadow \ {line}
    IN  IF ~b.expander THEN {Failed(b)}
        ELSE IF lines = b.shadow THEN {Done(b)}
        ELSE WriteReg(b, lines)

WriteOutputs(b, lines) == IF ~b.expander THEN {Failed(b)} ELSE WriteReg(b, lines)

-----------------------------------------------------------------------------
(* Mcp4728                                                                 *)

\* The first n channels are written.
Written(b, codes, n) ==
    Transparent([b EXCEPT !.in = [c \in Channels |-> IF c <= n THEN codes[c] ELSE @[c]]])

WriteAll(b, codes) ==
    IF ~b.dac THEN {Failed(b)}
    ELSE {Done(Written(b, codes, Cardinality(Channels)))}
           \cup {Failed(Written(b, codes, n)) : n \in {0} \cup Channels}

\* The latch line is asserted and released.
PulseLdac(b) ==
    LET Release(x) == SetOutputBit(x, Latch, FALSE)
    IN  IF ~b.dac THEN {Failed(b)} ELSE Then(SetOutputBit(b, Latch, TRUE), Release)
=============================================================================
