------------------------------- MODULE Renderers -------------------------------
(***************************************************************************)
(* What is drawn on the ring of a pot: its parameter with the pips at the   *)
(* bottom and where the pot is caught (perf_renderer.cpp, color_morph_arc,  *)
(* catch_pip), a preset gesture (action_gesture) and a preset slot          *)
(* (slot_indicator).  No CV is patched: what is drawn is what is stored.    *)
(***************************************************************************)
EXTENDS RingFrame

CONSTANTS
    Slots,              \* parameters that are tried
    SnapTol             \* snap_tol

SlotDescs ==
    [style : {"None", "Level", "Bipolar", "Gradient", "GradientFill", "Selector"},
     desc : EdgeDescs \cup CenterDescs \cup SelectorDescs, valueZones : Nat,
     pip : {"None", "Solid", "ThresholdSnap", "GradientSnap"}, lo : Int, hi : Int, snaps : SUBSET (0 .. Unit)]

\* Render sets the mode of a slot's fill.
ASSUME RenderAssumption ==
    /\ Slots \subseteq SlotDescs
    /\ \A slot \in Slots :
         /\ slot.style \in {"Level", "GradientFill"} => slot.desc \in EdgeDescs
         /\ slot.style = "Bipolar" => slot.desc \in CenterDescs
         /\ slot.style = "Selector" => slot.desc \in SelectorDescs

Shown(r, o, seen) == IF o \in DOMAIN r.shows THEN [r EXCEPT !.shows[o] = seen] ELSE r

\* A frame of what its LEDs show.
Drawn(n, leds) == [Begun(n, FALSE) EXCEPT !.leds = leds]

\* DrawCatchPip: where the pot would be caught.
CatchOffset(l, n, stored) ==
    RingOffsetForHour(l, ArcStart * Unit + stored * (n - 1) * ArcStep, Unit)
DrawCatchPip(r, n, caught, stored) ==
    IF caught \/ n = 0 THEN r ELSE Shown(r, CatchOffset(r.layout, n, stored), {"catch"})

\* DrawColorMorphArc: the tip that is not lit hides a marker.
Marked(n, snaps, k) == \E s \in snaps : k = Round(s * (n - 1), Unit)
MorphArc(n, snaps, v) ==
    LET snapped == ArcSnapFrac(v * n, Unit, n)
    IN  Drawn(n, [k \in 0 .. n - 1 |->
            IF k < LitLeds(snapped) THEN {"colour"}
            ELSE IF k > snapped[1] /\ Marked(n, snaps, k) THEN {"marker"} ELSE {}])
AtSnap(snaps, v) == \E s \in snaps : v - s \in -SnapTol .. SnapTol

\* A gradient without snap points draws no arc.
DrawsArc(slot) == slot.style # "Gradient" \/ slot.snaps # {}

\* The arc of PerfRenderer::Render.
RenderedFrame(n, slot, v) ==
    LET f == Begun(n, FALSE)
    IN  CASE slot.style = "Gradient" -> MorphArc(n, slot.snaps, v)
          [] slot.style = "Selector" ->
               IF slot.valueZones # 0
               THEN BaseZone(f, [slot.desc EXCEPT !.zones = slot.valueZones], SelectorIndex(v, slot.valueZones))
               ELSE BaseSelector(f, slot.desc, v)
          [] slot.style \in {"Level", "GradientFill", "Bipolar"} -> BaseFill(f, slot.desc, v)

BottomPip(r, slot, v, caught) ==
    LET o == RingOffsetForHour(r.layout, Bottom, 1)
    IN  CASE slot.pip = "Solid" -> Shown(r, o, {"pip"})
          [] slot.pip = "ThresholdSnap" -> IF v < slot.lo THEN r
                                           ELSE Shown(r, o, IF v <= slot.hi THEN {"pip"} ELSE {"over"})
          [] slot.pip = "GradientSnap" ->
               IF slot.style = "Gradient" /\ AtSnap(slot.snaps, v) /\ caught THEN Shown(r, o, {"pip"}) ELSE r
          [] slot.pip = "None" -> r

Rendered(r, n, slot, v, caught) ==
    LET drawn == IF DrawsArc(slot) THEN Emitted(RenderedFrame(n, slot, v), r) ELSE r
    IN  IF slot.style = "None" THEN r
        ELSE DrawCatchPip(BottomPip(drawn, slot, v, caught), n, caught, v)

-----------------------------------------------------------------------------
(* Presets                                                                 *)

ClearRing(r) == [r EXCEPT !.shows = [o \in DOMAIN @ |-> {}]]

\* Saving grows from the counter-clockwise end, loading from the other.
Progress(n, phase, share) ==
    LET fill == Round(share * n, Unit)
    IN  Drawn(n, [k \in 0 .. n - 1 |-> IF IF phase = "Saving" THEN k < fill ELSE k >= n - fill
                                        THEN {"colour"} ELSE {}])

\* The pivot is the middle of the arc.
Proximity(n, v) ==
    BaseFill(Begun(n, FALSE), [center |-> TRUE, pivot |-> Unit \div 2, neg |-> "colour", replace |-> TRUE], v)

\* DrawActionGesture; halves of flash_half_ms have passed.
DrawActionGesture(r, n, phase, share, halves) ==
    CASE phase = "FlashConfirm" -> [r EXCEPT !.shows = [o \in DOMAIN @ |-> IF halves % 2 = 0 THEN {"confirm"} ELSE {}]]
      [] phase \in {"Saving", "Loading"} -> Emitted(Progress(n, phase, share), ClearRing(r))
      [] phase = "Disarmed" -> ClearRing(r)
      [] phase = "Idle" -> Emitted(Proximity(n, share), ClearRing(r))

SlotColors == <<"first", "second", "third", "fourth">>

\* Mutant: the pairs touch.
SlotStepInTouchingArc(step, arcs) == step \in 1 .. 2 * arcs

\* Two LEDs and a gap for each.
SlotStepInArc(step, arcs) == step % 3 # 0 /\ step \div 3 < arcs /\ step < 12

DrawSlotIndicator(r, n, slot) ==
    Emitted(Drawn(n, [k \in 0 .. n - 1 |-> IF SlotStepInArc(k, 1 + (slot % 4))
                                            THEN {SlotColors[1 + ((slot \div 4) % 4)]} ELSE {}]), r)

-----------------------------------------------------------------------------
Showing(r, kind, desc, v) ==
    /\ stage.phase = "idle" /\ stage' = Stage("rendered") /\ lights' = r
    /\ base' = [kind |-> kind, desc |-> desc, value |-> v]

Render(n, slot, v, caught) ==
    /\ Showing(Rendered(lights, n, slot, v, caught), "parameter", slot, v)
    /\ picture' = IF slot.style = "None" \/ ~DrawsArc(slot) THEN picture ELSE RenderedFrame(n, slot, v)

Gesture(n, phase, share, halves) ==
    /\ Showing(DrawActionGesture(lights, n, phase, share, halves), "gesture", [phase |-> phase], share)
    /\ picture' = Begun(n, FALSE)

Indicate(n, slot) ==
    /\ Showing(DrawSlotIndicator(lights, n, slot), "preset", [slot |-> slot], 0)
    /\ picture' = Begun(n, FALSE)

RenderNext ==
    \/ RingNext
    \/ \E n \in Arcs, slot \in Slots, v \in Values, caught \in BOOLEAN : Render(n, slot, v, caught)
    \/ \E n \in Arcs, v \in Values, halves \in 0 .. 3 :
         \E phase \in {"Idle", "Saving", "Loading", "FlashConfirm", "Disarmed"} : Gesture(n, phase, v, halves)
    \/ \E n \in Arcs, slot \in 0 .. 15 : Indicate(n, slot)

-----------------------------------------------------------------------------
(* Properties                                                              *)

HourOf(o) == (lights.layout.start + o * lights.layout.step) % 144
LedsOf(o) == {k \in 0 .. picture.n - 1 : (ArcStart + k * ArcStep) % 144 = HourOf(o)}
Seen(what) == {o \in DOMAIN lights.shows : what \in lights.shows[o]}

\* A parameter is shown at the hours of its arc under the mark of a pot that is to be caught; the
\* mark lies where a clockwise fill ends, and no arc has the bottom LED (PerfRenderer::Render,
\* DrawCatchPip).
ParameterShows ==
    stage.phase = "rendered" /\ base.kind = "parameter" /\ base.desc.style # "None" =>
      LET caughtAt == Seen("catch")
          lit == {k \in 0 .. picture.n - 1 : "colour" \in picture.leds[k]}
      IN  /\ Cardinality(caughtAt) <= 1
          /\ \A o \in DOMAIN lights.shows \ caughtAt : \A k \in LedsOf(o) : lights.shows[o] = picture.leds[k]
          /\ \A o \in Seen("pip") \cup Seen("over") : HourOf(o) = Bottom
          /\ base.desc.style = "Gradient" \/ (base.desc.style = "Level" /\ ~base.desc.desc.ccw) =>
               \A o \in caughtAt :
                 picture.n > 0 => \E k \in LedsOf(o) : Cardinality(lit) - 1 \in k - 1 .. k + 1

\* On the panel's rings a preset's slot can be told from what is seen: its colour, and how many
\* pairs stand apart from one another (DrawSlotIndicator).
SlotIsLegible ==
    stage.phase = "rendered" /\ base.kind = "preset" /\ picture.n = 13 =>
      LET Group(i) == Seen(SlotColors[i])
          Starts(S) == {o \in S : ~\E p \in S : (HourOf(p) + ArcStep) % 144 = HourOf(o)}
      IN  \A i \in 1 .. 4 :
            Cardinality(Starts(Group(i))) = IF i = 1 + base.desc.slot \div 4 THEN 1 + (base.desc.slot % 4) ELSE 0

\* While a preset is held, half the hold shows half of the arc, either way, and its end all of it;
\* the rest of the ring is dark, so that saving and loading look different (DrawActionGesture).
GestureShows ==
    stage.phase = "rendered" /\ base.kind = "gesture" /\ base.desc.phase \in {"Saving", "Loading"} =>
      LET lit == {k \in 0 .. picture.n - 1 : \E o \in Seen("colour") : k \in LedsOf(o)}
          n == Cardinality(lit)
      IN  /\ Cardinality(Seen("colour")) = n
          /\ 2 * (n * Unit - base.value * picture.n) \in -Unit .. Unit
          /\ \A k \in lit : IF base.desc.phase = "Saving" THEN k < n ELSE k >= picture.n - n
=============================================================================
