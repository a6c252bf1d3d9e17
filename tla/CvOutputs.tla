------------------------------ MODULE CvOutputs ------------------------------
(***************************************************************************)
(* The CV jacks as outputs (v2 cv_jack.cpp, AlchemyLabV2::FlushCvOutputs): *)
(* four jacks share one DAC, the shadow of its codes and one flag that     *)
(* tells whether a value is staged.  All of it runs in the main loop; what *)
(* makes it hard is that each of several transfers can fail.  A write that *)
(* the expander took although its answer was lost is not modelled here: it *)
(* leaves the expander's shadow wrong, and what is wanted next may then be *)
(* skipped as already so.                                                  *)
(*                                                                         *)
(* The jacks of the STM32's own DAC and of the codec have no shadow and    *)
(* are left out, and so are voltages: a value is its code.                 *)
(***************************************************************************)
EXTENDS CvBus

VARIABLES
    bus,        \* the expander and the DAC
    shadow,     \* mcp_shadow_
    dirty,      \* mcp_dirty_
    connected,  \* the jacks with connected_ set
    due         \* ghost: the code a jack was last told is its own, none after a failure;
                \* Neutral at the start, where it is so

cvVars == <<bus, shadow, dirty, connected, due>>

\* No promise: the last SetVolts of the jack failed.
NoCode == -1

CvInit ==
    /\ bus \in {b \in Buses : ~b.unheard}
    /\ shadow = [c \in Channels |-> Neutral] /\ dirty = FALSE
    /\ connected = {}
    /\ due = [c \in Channels |-> IF bus.out[c] = Neutral THEN Neutral ELSE NoCode]

\* Every channel from the shadow, then the latch.
Apply(codes) ==
    LET Pulse(b) == PulseLdac(b)
    IN  Then(WriteAll(bus, codes), Pulse)

\* Only a transfer that succeeded to the end leaves nothing staged.
StillDirty(r) == dirty /\ ~r.ok

SetVolts(j, code) ==
    /\ IF bus.dac
         THEN /\ shadow' = [shadow EXCEPT ![j] = code]
              /\ \E r \in Apply(shadow') :
                   /\ bus' = r.bus
                   /\ dirty' = StillDirty(r)
                   /\ due' = [due EXCEPT ![j] = IF r.ok THEN code ELSE NoCode]
         ELSE UNCHANGED <<bus, shadow, dirty>> /\ due' = [due EXCEPT ![j] = NoCode]
    /\ UNCHANGED connected

StageVolts(j, code) ==
    /\ bus.dac
    /\ shadow' = [shadow EXCEPT ![j] = code] /\ dirty' = TRUE
    /\ due' = [due EXCEPT ![j] = code]
    /\ UNCHANGED <<bus, connected>>

FlushCvOutputs ==
    /\ dirty /\ bus.dac /\ bus.expander
    /\ \E r \in Apply(shadow) : bus' = r.bus /\ dirty' = StillDirty(r)
    /\ UNCHANGED <<shadow, connected, due>>

Route(j, on) ==
    \E r \in SetOutputBit(bus, j, on) :
        /\ bus' = r.bus
        /\ connected' = IF ~r.ok THEN connected
                        ELSE IF on THEN connected \cup {j} ELSE connected \ {j}

EnableCvOutput(j)  == Route(j, TRUE) /\ UNCHANGED <<shadow, dirty, due>>
DisableCvOutput(j) == Route(j, FALSE) /\ UNCHANGED <<shadow, dirty, due>>

CvNext ==
    \/ \E j \in Channels, code \in Codes : SetVolts(j, code) \/ StageVolts(j, code)
    \/ FlushCvOutputs
    \/ \E j \in Lines : EnableCvOutput(j) \/ DisableCvOutput(j)

CvSpec == CvInit /\ [][CvNext]_cvVars

-----------------------------------------------------------------------------
(* Properties                                                              *)

\* When nothing is staged, every jack whose last value was accepted drives it: a transfer
\* that broke off, of this jack or another, on the way to the DAC, the latch or back, leaves
\* the flag set until one succeeds (SetVolts, StageVolts, FlushCvOutputs).
AcceptedIsDriven ==
    ~dirty => \A j \in Channels : due[j] # NoCode => bus.out[j] = due[j]

\* A jack is taken for connected exactly when its switch is closed, though the byte that
\* sets the switches also carries the latch line, whose pulse may have broken off half way
\* (EnableCvOutput, DisableCvOutput, Pca9557::SetOutputBit).
RoutedAsTold == bus.chip \cap Lines = connected

\* What the application was told of jacks is so (SetVolts, StageVolts, SetOutputBit).
OutputsAsTold == AcceptedIsDriven /\ RoutedAsTold
=============================================================================
