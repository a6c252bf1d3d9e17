-------------------------------- MODULE MCBoard --------------------------------
(***************************************************************************)
(* Six units that share no state, checked in one run: the USB link,        *)
(* diagnostics, the CV outputs, the factory calibration, the LED strip and *)
(* the preset store.  The first state says which of them runs; the others  *)
(* stay as they start.                                                     *)
(***************************************************************************)
EXTENDS CdcLink, Diagnostics, CvOutputs, FactoryCal, Ws2812, MCPresetStore

VARIABLE unit

boardVars == <<unit, linkVars, diagVars, cvVars, calVars, stripVars, storeVars>>

MCNoise   == {<<1, 0>>, <<1, 1, 1, 1, 1, 1, 1, 1>>}
MCScripts == {<<<<1>>, <<2>>>>, <<<<>>, <<0>>>>}
MCReplies == {<<5>>}
MCAbsent  == [valid |-> 3, bits |-> 3]
MCProbes  == <<1, 3>>
MCSweep   == <<0, 1, 2, 3, 4>>
MCTargets == <<1, 3, 2>>

\* As the latch pulse leaves it, or on every channel another code.
Latched(b) == \A c \in Channels : b.out[c] = Neutral
Unlatched(b) == \A c \in Channels : b.out[c] = 1
Plain(b) == b.expander /\ b.dac /\ ~b.unheard /\ Latched(b)

Init ==
    /\ unit \in {"link", "diagnostics", "cv", "calibration", "strip", "store"}
    /\ LinkInit /\ DiagInit /\ CvInit /\ CalInit /\ StripInit /\ StoreInit
    /\ unit # "link" => sent = <<<<1>>, <<2>>>>
    /\ sent = <<<<1>>, <<2>>>> <=> line[2] = 0     \* each script behind a noise of its own
    /\ (unit # "cv" => Plain(bus)) /\ (Latched(bus) \/ Unlatched(bus))
    /\ unit # "calibration" => Plain(cbus) /\ defect = Sound /\ flash = "old"
    /\ Latched(cbus) \/ (Unlatched(cbus) /\ ~cbus.unheard)
    /\ unit # "strip" => board = "v2"

Link  == /\ unit = "link" /\ LinkNext
         /\ UNCHANGED <<unit, diagVars, cvVars, calVars, stripVars, storeVars>>
Diag  == /\ unit = "diagnostics" /\ DiagNext
         /\ UNCHANGED <<unit, linkVars, cvVars, calVars, stripVars, storeVars>>
Cv    == /\ unit = "cv" /\ CvNext
         /\ UNCHANGED <<unit, linkVars, diagVars, calVars, stripVars, storeVars>>
Cal   == /\ unit = "calibration" /\ CalNext
         /\ UNCHANGED <<unit, linkVars, diagVars, cvVars, stripVars, storeVars>>
Strip == /\ unit = "strip" /\ StripNext
         /\ UNCHANGED <<unit, linkVars, diagVars, cvVars, calVars, storeVars>>
Store == /\ unit = "store" /\ StoreNext
         /\ UNCHANGED <<unit, linkVars, diagVars, cvVars, calVars, stripVars>>

Next == Link \/ Diag \/ Cv \/ Cal \/ Strip \/ Store

\* ShowStep changes the strip only: the others keep what they have.
Spec == Init /\ [][Next]_boardVars
          /\ WF_stripVars(unit = "strip" /\ ShowStep
                            /\ UNCHANGED <<unit, linkVars, diagVars, cvVars, calVars, storeVars>>)
=============================================================================
