------------------------------ MODULE MCSurface ------------------------------
(***************************************************************************)
(* Units that share no state, checked in one run: the surface, with a Shift *)
(* whose button also cycles a global selector, and a Cycle whose button has *)
(* a tap and a hold of its own on page 0; a ring of LEDs; and the lights    *)
(* for clipping and the beat.  The first state says which of them runs; the *)
(* others stay as they start.                                              *)
(***************************************************************************)
EXTENDS Surface, Renderers, Indicators

CONSTANT p1

MCKind  == <<"Shift", "Cycle">>
MCList  == [b \in Bindings |-> << >>]
MCLayer == <<1, 0>>
MCPair  == [b \in Bindings |-> <<0, 0>>]
MCFrom  == [b \in Bindings |-> Pages]

MCHw    == [tapper |-> 1, holder |-> 2]
MCOn    == [tapper |-> {0, 1}, holder |-> {0}]
MCZones == [tapper |-> 2, holder |-> 0]
MCTap   == [tapper |-> "none", holder |-> "call"]
MCHold  == [tapper |-> "none", holder |-> "call"]

-----------------------------------------------------------------------------
(* Rings: the three ways that a ring of the v2 panel is wound, with its    *)
(* arc of thirteen LEDs and shorter ones; thirtieths, so that a tip falls  *)
(* just short of an LED, on it and just past it.                           *)

Clockwise == [start |-> 108, step |-> 9, leds |-> 16]
Rings == {Clockwise, [start |-> 108, step |-> -9, leds |-> 16],
          [start |-> 27, step |-> 9, leds |-> 16]}
Edge(ccw, replace, passive) ==
    [center |-> FALSE, ccw |-> ccw, replace |-> replace, passive |-> passive]
Center(pivot, neg, replace) == [center |-> TRUE, pivot |-> pivot, neg |-> neg, replace |-> replace]
SomeFills == {Edge(FALSE, TRUE, {}), Edge(TRUE, TRUE, {"passive"}), Edge(TRUE, FALSE, {}),
              Center(15, "colour", TRUE), Center(0, "neg", TRUE), Center(13, "neg", FALSE), Center(30, "colour", TRUE)}
ZonesOf(n, geo, available, inactive) ==
    [zones |-> n, geo |-> geo, available |-> available, inactive |-> inactive]
SomeSelectors == {ZonesOf(n, geo, 0 .. 15, {}) : n \in {2, 7, 15}, geo \in {"Distributed", "Point", "Region"}}
                   \cup {ZonesOf(0, "Point", {}, {}), ZonesOf(1, "Region", {0}, {})}
                   \cup {ZonesOf(3, geo, {0, 2}, {"other"}) : geo \in {"Distributed", "Point", "Region"}}
APip == [motion |-> "Direct", compose |-> "Replace", background |-> FALSE, smooth |-> FALSE, width |-> 1,
         trail |-> 0, side |-> "Both"]
SomePips == {APip, [APip EXCEPT !.smooth = TRUE, !.trail = 2], [APip EXCEPT !.width = 4, !.background = TRUE],
             [APip EXCEPT !.compose = "Add", !.trail = 1, !.side = "Cw", !.motion = "Wrap"],
             [APip EXCEPT !.compose = "Carve", !.width = 0, !.motion = "Bounce", !.trail = 1, !.side = "Ccw"]}
SomeFields == {[grain |-> "Whole", chunk |-> 0, invert |-> TRUE], [grain |-> "PerLed", chunk |-> 0, invert |-> FALSE],
               [grain |-> "Chunk", chunk |-> 2, invert |-> FALSE]}
Parameter(style, desc, zones, pip, snaps) ==
    [style |-> style, desc |-> desc, valueZones |-> zones, pip |-> pip, lo |-> 13, hi |-> 15, snaps |-> snaps]
SomeSlots == {Parameter("None", Edge(FALSE, TRUE, {}), 0, "None", {}),
              Parameter("Level", Edge(FALSE, TRUE, {}), 0, "Solid", {}),
              Parameter("Level", Edge(TRUE, TRUE, {"passive"}), 0, "Solid", {}),
              Parameter("Bipolar", Center(15, "neg", TRUE), 0, "ThresholdSnap", {}),
              Parameter("Gradient", Edge(FALSE, TRUE, {}), 0, "GradientSnap", {0, 15, 28}),
              Parameter("Gradient", Edge(FALSE, TRUE, {}), 0, "GradientSnap", {}),
              Parameter("GradientFill", Edge(FALSE, TRUE, {}), 0, "GradientSnap", {15}),
              Parameter("Selector", ZonesOf(3, "Distributed", 0 .. 15, {}), 0, "None", {}),
              Parameter("Selector", ZonesOf(3, "Region", 0 .. 15, {}), 5, "None", {})}

MCLayouts == Rings
MCFills == SomeFills
MCSelectors == SomeSelectors
MCPipDescs == SomePips
MCFields == SomeFields
MCSlots == SomeSlots
MCSpans == {<<7, 22>>, <<22, 7>>}
MCPositions == {-4, 0, 13, 30, 47}
-----------------------------------------------------------------------------
VARIABLE unit

panelVars == <<unit, surface, ringVars, clipVars, beatVars>>

PanelInit ==
    /\ unit \in {"surface", "ring", "clip", "beat"}
    /\ SurfaceInit /\ RingInit /\ ClipInit /\ BeatInit
    /\ unit # "ring" => lights = Lit(Clockwise)

Controls == unit = "surface" /\ SurfaceNext /\ UNCHANGED <<unit, ringVars, clipVars, beatVars>>
Ring == unit = "ring" /\ RenderNext /\ UNCHANGED <<unit, surface, clipVars, beatVars>>
Clip == unit = "clip" /\ ClipNext /\ UNCHANGED <<unit, surface, ringVars, beatVars>>
Beat == unit = "beat" /\ BeatNext /\ UNCHANGED <<unit, surface, ringVars, clipVars>>

PanelSpec == PanelInit /\ [][Controls \/ Ring \/ Clip \/ Beat]_panelVars
-----------------------------------------------------------------------------
\* The state is typed, a press is a tap or a hold, and what Bind wrote is the zone
\* (DispatchHolds, DispatchTaps, Deserialize).
GesturesInv == unit = "surface" => SurfaceTypeOK /\ TapOrHold /\ BindFollows

\* What the LEDs show: every LED of a ring what its frame and its parameter say, wherever the ring
\* begins and however it is wound, a preset that can be told, and clipping and the beat in time
\* (RingFrame, PerfRenderer::Render, ClipIndicator, BeatPip).
LightsAreTrue ==
    unit # "surface" =>
    /\ RegionsAreLit /\ SelectedShows /\ OverlayStays /\ ShowsAtItsHour
    /\ ParameterShows /\ SlotIsLegible /\ GestureShows
    /\ ClippingShows /\ BeatKeepsTime

\* The buttons mean what they say, and so do the lights.
PanelInv == GesturesInv /\ LightsAreTrue
=============================================================================
