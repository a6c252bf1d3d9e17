----------------------------- MODULE FactoryCal -----------------------------
(***************************************************************************)
(* The factory calibration of Alchemy Lab v2 (v2_factory_cal.cpp): for one *)
(* jack after the other the DAC's codes are swept through the routing      *)
(* switch and read back at the inputs, and only when every jack has passed *)
(* is the one record in flash erased and written.  Any transfer can fail,  *)
(* power can be lost at any step, and the board may have a defect.         *)
(*                                                                         *)
(* The procedure is straight-line code with an exit at each check; it is   *)
(* written as the list of its instructions for one jack.  A voltage is the *)
(* distance of a code from neutral, read without error; a noisy reading is *)
(* one that is refused.                                                    *)
(***************************************************************************)
EXTENDS CvBus, Sequences

CONSTANTS
    Probes,     \* codes written while the jack is disconnected
    Sweep,      \* the codes of the sweep, in order
    Crosses,    \* steps of the sweep at which the other inputs are read
    Targets,    \* codes that verify the fit
    MinEnd      \* kV2CalMinEndpointV

\* The code probes at 512 and 3583, sweeps 17 codes from 0 on, reads the other inputs at the steps
\* 4 and 12, none of which is 2048, and asks for 4 V at the ends.
ASSUME CalAssumption ==
    /\ Cardinality(Lines) \in Nat \ {0} /\ Lines = 1 .. Cardinality(Lines)
    /\ Channels \subseteq Lines
    /\ Probes \in Seq(Nat) /\ Sweep \in Seq(Nat) /\ Targets \in Seq(Nat)
    /\ Sweep # <<>> /\ MinEnd \in Nat \ {0}
    /\ \E i \in 1 .. Len(Probes) : Probes[i] # Neutral
    /\ \E k \in Crosses \cap (1 .. Len(Sweep)) : Sweep[k] # Neutral

VARIABLES
    cbus,       \* the expander and the DAC
    stm,        \* codes of the STM32's own DAC, for the jacks that are none of Channels
    mcp,        \* s_mcp_shadow
    defect,     \* what is wrong with the board: a tuple, see Defects
    instr,         \* [at, jack, step]: the instruction; or "failed", "persist", "write", ...
    last,       \* the reading before, of the sweep
    verified,   \* the jacks whose stage reached 6
    flash,      \* the record: "old", "invalid", "new"
    loaded      \* what the next boot took: "none" before, "fallback" for the design values

calVars == <<cbus, stm, mcp, defect, instr, last, verified, flash, loaded>>

Sound == <<"none">>
Defects == {Sound}
    \cup {<<"closed", i>> : i \in Lines} \cup {<<"open", i>> : i \in Lines}
    \cup {<<"stuck", i>> : i \in Lines}
    \cup {<<"short", i, j>> : i \in Lines, j \in Lines}

GoTo(at, jack, step) == instr' = [at |-> at, jack |-> jack, step |-> step]

-----------------------------------------------------------------------------
(* The board                                                               *)

CodeOf(j) == IF defect = <<"stuck", j>> THEN Neutral + 1
             ELSE IF j \in Channels THEN cbus.out[j] ELSE stm[j]

Closed(j) == \/ j \in cbus.chip /\ defect # <<"open", j>>
             \/ defect = <<"closed", j>>

\* The voltage at an input: of its own jack, or of the one it is shorted to.
Reading(i) ==
    IF Closed(i) THEN Neutral - CodeOf(i)
    ELSE LET shorted == {j \in Lines : Closed(j) /\ defect = <<"short", j, i>>}
         IN  IF shorted = {} THEN 0 ELSE Neutral - CodeOf(CHOOSE j \in shorted : TRUE)

-----------------------------------------------------------------------------
(* V2RunCalibration: what it does for one jack                             *)

Do(op) == [op |-> op, code |-> 0]
Code(op, code) == [op |-> op, code |-> code]

Isolation == [k \in 1 .. 2 * Len(Probes) |->
                IF k % 2 = 1 THEN Code("write", Probes[(k + 1) \div 2]) ELSE Do("isolated")]

Swept == [k \in 1 .. 2 * Len(Sweep) |->
            IF k % 2 = 1 THEN Code("write", Sweep[(k + 1) \div 2]) ELSE Code("sweep", k \div 2)]

Verification == [k \in 1 .. 2 * Len(Targets) |->
                   IF k % 2 = 1 THEN Code("write", Targets[(k + 1) \div 2])
                   ELSE Code("verify", Targets[k \div 2])]

Procedure ==
    <<Do("off")>> \o Isolation \o <<Code("write", Neutral), Do("connect")>>
      \o Swept \o Verification \o <<Do("off"), Code("write", Neutral)>>

\* Only the other inputs are looked at.
IsolatedFromOthers(j) == \A i \in Lines \ {j} : Reading(i) = 0

\* A disconnected DAC shows on no input.
Isolated(j) == \A i \in Lines : Reading(i) = 0

\* A point of the sweep: it moves on by a step, but at the ends, and reaches far enough there;
\* at some points no other input may follow.
GoodPoint(j, k) ==
    LET y == Reading(j)
    IN  /\ k \in 3 .. Len(Sweep) - 1 => last - y >= 1
        /\ k > 1 => y <= last
        /\ k = 1 => y >= MinEnd
        /\ k = Len(Sweep) => y <= -MinEnd
        /\ k \in Crosses => \A i \in Lines \ {j} : Reading(i) = 0

GoodReading(j, step) ==
    CASE step.op = "isolated" -> Isolated(j)
      [] step.op = "sweep"    -> GoodPoint(j, step.code)
      [] step.op = "verify"   -> Reading(j) = Neutral - step.code

\* WriteJackDac: all four channels and the latch, or the STM32's own DAC.
WriteJackDac(j, code) ==
    LET Pulse(b) == PulseLdac(b)
        codes == [mcp EXCEPT ![j] = code]
    IN  {[ok |-> r.ok, bus |-> r.bus, mcp |-> codes, stm |-> stm] :
            r \in Then(WriteAll(cbus, codes), Pulse)}

WriteStmDac(j, code) ==
    {[ok |-> TRUE, bus |-> cbus, mcp |-> mcp, stm |-> [stm EXCEPT ![j] = code]],
     [ok |-> FALSE, bus |-> cbus, mcp |-> mcp, stm |-> stm]}

BusOnly(outcomes) == {[ok |-> r.ok, bus |-> r.bus, mcp |-> mcp, stm |-> stm] : r \in outcomes}

Outcomes(j, step) ==
    CASE step.op = "write" /\ j \in Channels -> WriteJackDac(j, step.code)
      [] step.op = "write" /\ j \notin Channels -> WriteStmDac(j, step.code)
      [] step.op = "off" -> BusOnly(WriteOutputs(cbus, {}))
      [] step.op = "connect" -> BusOnly(SetOutputBit(cbus, j, TRUE))

MayGoOn(step, ok) == ok

\* To the next instruction, the next jack, or the end.
Advance ==
    IF instr.step < Len(Procedure) THEN GoTo("run", instr.jack, instr.step + 1)
    ELSE IF instr.jack < Cardinality(Lines) THEN GoTo("run", instr.jack + 1, 1)
    ELSE GoTo("persist", 0, 0)

Writes == {"write", "off", "connect"}

RunWrite ==
    LET step == Procedure[instr.step]
    IN  /\ instr.at = "run" /\ step.op \in Writes
        /\ \E r \in Outcomes(instr.jack, step) :
             /\ cbus' = r.bus /\ mcp' = r.mcp /\ stm' = r.stm
             /\ IF MayGoOn(step, r.ok) THEN Advance ELSE GoTo("cleanup", 0, 0)
             /\ verified' = IF r.ok /\ instr.step = Len(Procedure) THEN verified \cup {instr.jack}
                            ELSE verified
        /\ UNCHANGED <<defect, last, flash, loaded>>

\* A reading is noisy, or it is judged.
RunRead ==
    LET step == Procedure[instr.step]
    IN  /\ instr.at = "run" /\ step.op \notin Writes
        /\ \/ GoodReading(instr.jack, step) /\ Advance /\ last' = Reading(instr.jack)
           \/ GoTo("cleanup", 0, 0) /\ UNCHANGED last
        /\ UNCHANGED <<cbus, stm, mcp, defect, verified, flash, loaded>>

\* On any failure the switches are opened, if that succeeds; after one of a jack's
\* instructions FailForever tries it once more.
CleanUp ==
    /\ instr.at \in {"cleanup", "again"}
    /\ \E r \in WriteOutputs(cbus, {}) : cbus' = r.bus
    /\ GoTo(IF instr.at = "cleanup" THEN "again" ELSE "failed", 0, 0)
    /\ UNCHANGED <<stm, mcp, defect, last, verified, flash, loaded>>

-----------------------------------------------------------------------------
(* PersistToQspi, power and the next boot                                  *)

\* The flash may refuse the mode it is written in; the old record is still there.
PersistBegins ==
    /\ instr.at = "persist"
    /\ GoTo("erase", 0, 0) \/ GoTo("restore", 0, 0)
    /\ UNCHANGED <<cbus, stm, mcp, defect, last, verified, flash, loaded>>

Erase ==
    /\ instr.at = "erase"
    /\ \/ flash' = "invalid" /\ GoTo("write", 0, 0)
       \/ flash' \in {flash, "invalid"} /\ GoTo("restore", 0, 0)
    /\ UNCHANGED <<cbus, stm, mcp, defect, last, verified, loaded>>

Write ==
    /\ instr.at = "write"
    /\ \/ flash' = "new" /\ GoTo("verify", 0, 0)
       \/ flash' \in {"invalid", "new"} /\ GoTo("restore", 0, 0)
    /\ UNCHANGED <<cbus, stm, mcp, defect, last, verified, loaded>>

\* The memory is mapped again whether or not it worked; then the record is read back.
Remap ==
    /\ instr.at \in {"verify", "restore"}
    /\ \/ instr.at = "verify" /\ GoTo("done", 0, 0)
       \/ GoTo("again", 0, 0)
    /\ UNCHANGED <<cbus, stm, mcp, defect, last, verified, flash, loaded>>

\* Power is lost, or the operator releases the buttons and the board resets.
Reset ==
    /\ instr.at # "off"
    /\ GoTo("off", 0, 0)
    /\ UNCHANGED <<cbus, stm, mcp, defect, last, verified, flash, loaded>>

\* V2CalLoadFromQspi, and the design values where it finds no valid record; at every boot.
\* That a torn record is not valid is the CRC's doing: here it is what "invalid" means.
Boot ==
    /\ instr.at = "off"
    /\ loaded' = IF flash = "invalid" THEN "fallback" ELSE flash
    /\ UNCHANGED <<cbus, stm, mcp, defect, instr, last, verified, flash>>

CalInit ==
    /\ cbus \in {b \in Buses : b.expander /\ b.dac}
    /\ stm = [j \in Lines |-> Neutral] /\ mcp = [c \in Channels |-> Neutral]
    /\ defect \in {d \in Defects : d[1] # "short" \/ d[2] # d[3]}
    /\ instr = [at |-> "run", jack |-> 1, step |-> 1] /\ last = 0 /\ verified = {}
    /\ flash \in {"old", "invalid"} /\ loaded = "none"

CalNext == RunWrite \/ RunRead \/ CleanUp \/ PersistBegins \/ Erase \/ Write \/ Remap
           \/ Reset \/ Boot

CalSpec == CalInit /\ [][CalNext]_calVars

-----------------------------------------------------------------------------
(* Properties                                                              *)

\* At no time are two DACs connected to the jacks, though every switch is set by a transfer
\* that can fail or whose answer can be lost ("Only one DAC may be connected").
OneDacConnected == Cardinality(cbus.chip \cap Lines) <= 1

\* A switch closes only over a DAC that drives its jack neutrally ("Stage neutral before
\* connecting").
ConnectsAtNeutral ==
    [][\A j \in (cbus'.chip \ cbus.chip) \cap Lines :
         (IF j \in Channels THEN cbus'.out[j] ELSE stm'[j]) = Neutral]_calVars

\* The record in flash is touched only after every jack has passed, and what is loaded at the
\* next boot was measured on a board without a stuck switch, a dead path or a short
\* (FailForever: "the previous QSPI record is only touched after every sweep succeeded").
\* What becomes of a torn record is not its subject: Boot takes it for no record.
RecordIsEarned ==
    /\ flash = "new" => defect = Sound
    /\ instr.at \in {"erase", "write", "verify", "restore", "done"} => verified = Lines
    /\ loaded = "new" => verified = Lines

\* The calibration harms neither jacks nor record (V2RunCalibration, PersistToQspi).
CalibrationIsSafe == [](OneDacConnected /\ RecordIsEarned) /\ ConnectsAtNeutral
=============================================================================
