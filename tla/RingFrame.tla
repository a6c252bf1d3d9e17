------------------------------- MODULE RingFrame -------------------------------
(***************************************************************************)
(* A frame of a ring of LEDs (ring_frame.cpp, panel.cpp): its base, the     *)
(* regions that the base stamps, pips and fields over it, and its emission  *)
(* onto a ring that already shows something.                               *)
(*                                                                         *)
(* A value, a position and a share are counts of Unit; an hour is a count   *)
(* of twelfths.  Of an LED it is kept what can be seen in it, not how       *)
(* bright; colours are not black, animation gains positive, floats exact.   *)
(***************************************************************************)
EXTENDS Integers, FiniteSets

CONSTANTS
    Unit,               \* 1.0
    Arcs,               \* arc_leds
    Values,             \* values of controls
    Layouts,            \* rings of the panel: [start, step, leds]
    Fills, Selectors, PipDescs, Fields,         \* descriptors that are tried
    Spans, PipPositions,
    Overlaid,           \* bound: values of bases that are drawn over
    MaxOverlays         \* bound: overlays of a frame

EdgeDescs == [center : {FALSE}, ccw : BOOLEAN, replace : BOOLEAN, passive : SUBSET {"passive"}]
CenterDescs == [center : {TRUE}, pivot : 0 .. Unit, neg : {"colour", "neg"}, replace : BOOLEAN]
SelectorDescs == [zones : Nat, geo : {"Distributed", "Point", "Region"}, available : SUBSET Nat,
                  inactive : SUBSET {"other"}]

\* Hours are twelfths: the LEDs of a ring lie three quarters of an hour apart, all round it, either
\* way; the arc leaves out the one at the bottom.  A control's value, a pivot too, is up to Unit.
ASSUME RingAssumption ==
    /\ Unit \in Nat \ {0} /\ Arcs \subseteq 0 .. 14 /\ Values \subseteq 0 .. Unit
    /\ Layouts \subseteq [start : {9 * j : j \in 0 .. 15}, step : {9, -9}, leds : {16}]
    /\ Fills \subseteq EdgeDescs \cup CenterDescs /\ Selectors \subseteq SelectorDescs
    /\ Spans \subseteq Int \X Int /\ \A d \in PipDescs : d.compose \in {"Replace", "Add", "Carve"}

VARIABLES
    picture,            \* RingFrame
    lights,             \* [layout, shows]: a ring of the panel, and what its LEDs show
    base,               \* history: the base of the frame and its value
    stage               \* history: [phase, overlays, region, was], the last overlay's, and the LEDs
                        \* that the overlays have `drawn`

ringVars == <<picture, lights, base, stage>>

Clamp(x, lo, hi) == IF x < lo THEN lo ELSE IF x > hi THEN hi ELSE x
Round(x, y) == (2 * x + y) \div (2 * y)
Lesser(a, b) == IF a < b THEN a ELSE b

-----------------------------------------------------------------------------
(* The frame                                                               *)

NoSpan == [first |-> -1, last |-> -1, a |-> 0, b |-> 0]
Leds(first, last) == [first |-> first, last |-> last, a |-> first * Unit, b |-> last * Unit]

Members(s) == IF s.first < 0 THEN {} ELSE s.first .. s.last

KMaxLeds == 32

\* BeginCommon
Begun(leds, overlay) ==
    LET n == Lesser(leds, KMaxLeds) IN
    [n |-> n, overlay |-> overlay, leds |-> [k \in 0 .. n - 1 |-> {}], touched |-> {},
     active |-> NoSpan, armCw |-> NoSpan, armCcw |-> NoSpan, pastTip |-> NoSpan,
     span |-> <<0, Unit>>, bottom |-> {}, bottomSet |-> FALSE]

\* Set, for every LED that has a paint: a colour, or black.
Painted(f, paint) ==
    [f EXCEPT !.leds = [k \in DOMAIN @ |-> IF k \in DOMAIN paint THEN paint[k] ELSE @[k]],
              !.touched = @ \cup (DOMAIN paint \cap 0 .. f.n - 1)]

Add(f, which, seen) == Painted(f, [k \in which |-> f.leds[k] \cup seen])

\* Mutant: in an overlay too.
DimAnything(f, which, out) == Painted(f, [k \in which |-> IF k \in out THEN {} ELSE f.leds[k]])

\* Some to nothing.  An overlay does not hold what it has not touched.
Dim(f, which, out) ==
    Painted(f, [k \in IF f.overlay THEN which \cap f.touched ELSE which |->
                    IF k \in out THEN {} ELSE f.leds[k]])

MarkActive(f, first, last) ==
    [f EXCEPT !.active = IF first < 0 \/ last < first \/ first >= f.n THEN NoSpan
                         ELSE Leds(first, Lesser(last, f.n - 1))]

SetSpan(f, a, b) ==
    LET from == Clamp(a, 0, Unit) to == Clamp(b, 0, Unit)
    IN  [f EXCEPT !.span = <<from, IF to < from THEN from ELSE to>>]

Resolve(f, region) ==
    LET last == IF f.n = 0 THEN 0 ELSE f.n - 1
    IN  CASE region = "Full"      -> Leds(0, f.n - 1)
          [] region = "Active"    -> f.active
          [] region = "PastTip"   -> f.pastTip
          [] region = "ArmCw"     -> f.armCw
          [] region = "ArmCcw"    -> f.armCcw
          [] region = "Span"      -> [first |-> Round(f.span[1] * last, Unit),
                                      last  |-> Round(f.span[2] * last, Unit),
                                      a |-> f.span[1] * last, b |-> f.span[2] * last]
          [] region = "BottomPip" -> NoSpan
Regions == {"Full", "Active", "PastTip", "ArmCw", "ArmCcw", "Span", "BottomPip"}

-----------------------------------------------------------------------------
(* Fills                                                                   *)

\* ArcSnapFrac of part / whole: <<LEDs lit in full, whether the next one is lit in part>>.
ArcSnapFrac(part, whole, most) ==
    LET hard == part \div whole
        frac == part % whole
    IN  IF 25 * frac < whole THEN <<hard, FALSE>>
        ELSE IF 25 * (whole - frac) < whole THEN <<Lesser(hard + 1, most), FALSE>>
        ELSE <<hard, TRUE>>
LitLeds(snapped) == snapped[1] + IF snapped[2] THEN 1 ELSE 0

\* Mutant: the tip that is lit in part is past the tip.
TipHard(snapped) == snapped[1]

\* The LEDs of an edge fill, the tip with them.
Tip(snapped) == LitLeds(snapped)

EdgeFill(f, d, v) ==
    LET snapped  == ArcSnapFrac(v * f.n, Unit, f.n)
        Led(k)   == IF d.ccw THEN f.n - 1 - k ELSE k
        Between(i, j) == IF d.ccw THEN Leds(Led(j), Led(i)) ELSE Leds(i, j)
        lit      == {Led(k) : k \in 0 .. LitLeds(snapped) - 1}
        g        == Painted(f, [k \in IF d.replace THEN 0 .. f.n - 1 ELSE lit |->
                                    IF k \in lit THEN {"colour"} ELSE d.passive])
    IN  [g EXCEPT !.active  = IF lit = {} THEN @ ELSE Between(0, LitLeds(snapped) - 1),
                  !.pastTip = IF Tip(snapped) < f.n THEN Between(Tip(snapped), f.n - 1) ELSE @]

\* Fans out from the pivot; either arm ends where the control does.
CenterFill(f, d, v) ==
    LET pivot  == Round(d.pivot * (f.n - 1), Unit)
        cw     == v > d.pivot
        side   == IF cw THEN Unit - d.pivot ELSE d.pivot
        cap    == IF cw THEN f.n - 1 - pivot ELSE pivot
        amount == IF side = 0 THEN 0 ELSE IF cw THEN v - d.pivot ELSE d.pivot - v
        arm    == Lesser(LitLeds(ArcSnapFrac(amount * cap, IF side = 0 THEN 1 ELSE side, cap)), cap)
        lit    == IF cw THEN pivot + 1 .. pivot + arm ELSE pivot - arm .. pivot - 1
        g      == Painted(f, [k \in IF d.replace THEN 0 .. f.n - 1 ELSE lit \cup {pivot} |->
                                  IF k = pivot THEN {"center"}
                                  ELSE IF k \in lit THEN {IF cw THEN "colour" ELSE d.neg} ELSE {}])
    IN  [g EXCEPT !.armCw  = IF arm > 0 /\ cw THEN Leds(pivot + 1, pivot + arm) ELSE @,
                  !.armCcw = IF arm > 0 /\ ~cw THEN Leds(pivot - arm, pivot - 1) ELSE @,
                  !.active = IF cw THEN Leds(pivot, pivot + arm) ELSE Leds(pivot - arm, pivot)]

BaseFill(f, d, v) ==
    IF f.n = 0 THEN f ELSE IF d.center THEN CenterFill(f, d, v) ELSE EdgeFill(f, d, v)

-----------------------------------------------------------------------------
(* Selectors                                                               *)

\* Are the zones too narrow for blocks with gaps?
FallsBack(f, d) == d.geo = "Region" /\ f.n + 1 < 2 * d.zones

\* Mutant: whatever they fall back to.
RoundsOnlyDistributed(f, d) == d.geo = "Distributed"

\* Nearest zone, or bins of equal width?
Rounds(f, d) == d.geo = "Distributed" \/ FallsBack(f, d)

ZoneOf(f, d, v) ==
    Lesser(IF Rounds(f, d) THEN Round(v * (d.zones - 1), Unit) ELSE (v * d.zones) \div Unit, d.zones - 1)

\* SelectorIndex (control/selector.h)
SelectorIndex(v, zones) == IF zones <= 1 THEN 0 ELSE Lesser((v * zones) \div Unit, zones - 1)

DistributedZonePosition(z, zones, n) ==
    IF n = 0 \/ zones <= 1 THEN 0 ELSE Lesser(Round(z * (n - 1), zones - 1), n - 1)

ZoneColor(d, z, selected) == IF z = selected THEN {"selected"} ELSE d.inactive

RegionZones(f, d, zone) ==
    LET Zone(k) == (k * d.zones) \div f.n
        End(z)  == ((z + 1) * f.n + d.zones - 1) \div d.zones - 1
        gaps    == {k \in 0 .. f.n - 1 : k = End(Zone(k)) /\ Zone(k) # d.zones - 1}
        mine    == {k \in 0 .. f.n - 1 : Zone(k) = zone} \ gaps
        g       == Painted(f, [k \in 0 .. f.n - 1 |-> IF k \notin gaps /\ Zone(k) \in d.available
                                                      THEN ZoneColor(d, Zone(k), zone) ELSE {}])
    IN  IF mine = {} THEN g
        ELSE [g EXCEPT !.active = Leds(CHOOSE k \in mine : \A j \in mine : k <= j,
                                       CHOOSE k \in mine : \A j \in mine : k >= j)]

PointZones(f, d, zone) ==
    LET g == Painted(f, [k \in 0 .. f.n - 1 |->
                             IF k < d.zones /\ k \in d.available THEN ZoneColor(d, k, zone) ELSE {}])
    IN  IF zone < f.n THEN [g EXCEPT !.active = Leds(zone, zone)] ELSE g

\* Zones that share an LED: the later one shows, and over all the selected one.
DistributedZones(f, d, zone) ==
    LET zones == {z \in d.available : z < d.zones}
        At(z) == DistributedZonePosition(z, d.zones, f.n)
        Over(k) == CHOOSE z \in zones : At(z) = k /\ \A y \in zones : At(y) = k => y <= z
        g == Painted(f, [k \in 0 .. f.n - 1 |->
                             IF zone \in zones /\ k = At(zone) THEN {"selected"}
                             ELSE IF \E z \in zones : At(z) = k THEN ZoneColor(d, Over(k), zone) ELSE {}])
    IN  IF zone \in zones THEN [g EXCEPT !.active = Leds(At(zone), At(zone))] ELSE g

BaseZone(f, d, z) ==
    LET zone == Lesser(z, d.zones - 1)
    IN  IF f.n = 0 \/ d.zones = 0 THEN f
        ELSE IF d.geo = "Region" /\ ~FallsBack(f, d) THEN RegionZones(f, d, zone)
        ELSE IF d.geo = "Point" THEN PointZones(f, d, zone)
        ELSE DistributedZones(f, d, zone)

BaseSelector(f, d, v) == IF d.zones = 0 THEN f ELSE BaseZone(f, d, ZoneOf(f, d, v))

-----------------------------------------------------------------------------
(* Pips and fields                                                         *)

\* Tri01, and the other motions.
Motion(d, p) ==
    CASE d.motion = "Wrap"   -> p % Unit
      [] d.motion = "Bounce" -> IF p < 0 THEN 0
                                ELSE LET x == p % Unit IN IF 2 * x < Unit THEN 2 * x ELSE 2 * (Unit - x)
      [] d.motion = "Direct" -> Clamp(p, 0, Unit)

\* Mutant: wherever it falls.
InsideArc(s, k) == TRUE

Inside(s, k) == k \in s.first .. s.last

\* PaintTap, for every tap: those in full and those in part.  No two are of the same LED.
PaintTaps(f, d, s, taps) ==
    LET hit == {k \in (taps.full \cup taps.part) \cap 0 .. f.n - 1 : Inside(s, k)}
    IN  CASE d.compose = "Replace" -> Painted(f, [k \in hit |-> {"pip"}])
          [] d.compose = "Add"     -> Add(f, hit, {"pip"})
          [] d.compose = "Carve"   -> Dim(f, hit, taps.full)

Trail(d, ccw, cw) ==
    {ccw - i : i \in IF d.side = "Cw" THEN {} ELSE 1 .. d.trail}
      \cup {cw + i : i \in IF d.side = "Ccw" THEN {} ELSE 1 .. d.trail}

\* Two taps share a smooth pip; the other steps from LED to LED.
Taps(d, s, p) ==
    LET center == s.a * Unit + p * (s.b - s.a)
        step   == Clamp(Round(center, Unit * Unit), s.first, s.last)
        at     == center \div (Unit * Unit)
        width  == IF d.width = 0 THEN 1 ELSE d.width
        first  == step - width \div 2
    IN  IF ~d.smooth \/ d.width > 1
        THEN [full |-> first .. first + width - 1, part |-> Trail(d, first, first + width - 1)]
        ELSE IF center % (Unit * Unit) = 0
        THEN [full |-> {at}, part |-> {k \in Trail(d, at, at + 1) : k < at}]
        ELSE [full |-> {}, part |-> {at, at + 1} \cup Trail(d, at, at + 1)]

Pip(f, region, d, p) ==
    LET s == Resolve(f, region)
        g == IF d.background THEN Painted(f, [k \in Members(s) |-> {"background"}]) ELSE f
    IN  IF f.n = 0 THEN f
        ELSE IF region = "BottomPip" THEN [f EXCEPT !.bottom = {"pip"}, !.bottomSet = TRUE]
        ELSE IF s.first < 0 THEN f
        ELSE PaintTaps(g, d, s, Taps(d, s, Motion(d, p)))

\* The unit of an LED, and whether the field darkens it to nothing.
FieldUnit(d, s, k) ==
    CASE d.grain = "Whole"  -> 0
      [] d.grain = "PerLed" -> k - s.first
      [] d.grain = "Chunk"  -> (k - s.first) \div (IF d.chunk = 0 THEN 1 ELSE d.chunk)
Darkens(d, s, k) == (FieldUnit(d, s, k) % 2 = 1) # d.invert

Field(f, region, d) ==
    LET s == Resolve(f, region)
    IN  IF f.n = 0 \/ s.first < 0 THEN f
        ELSE Dim(f, Members(s), {k \in Members(s) : Darkens(d, s, k)})

-----------------------------------------------------------------------------
(* The panel                                                               *)

ArcStart == 90          \* half past seven
ArcStep  == 9           \* three quarters of an hour
Bottom   == 72

\* lround: halves away from zero.
Nearest(x, y) ==
    LET n == IF y < 0 THEN -x ELSE x
        d == IF y < 0 THEN -y ELSE y
    IN  IF n >= 0 THEN Round(n, d) ELSE -Round(-n, d)

\* Mutant: of a ring that is wound the other way too.
OffsetClockwise(l, num, den) == Nearest(num - l.start * den, 9 * den) % l.leds

\* The LED of a ring at hour num / den.
RingOffsetForHour(l, num, den) == Nearest(num - l.start * den, l.step * den) % l.leds

OffsetOf(l, k) == RingOffsetForHour(l, ArcStart + k * ArcStep, 1)

\* SetRingByHour for the LEDs of the arc that the frame holds, and for the bottom one.
Emitted(f, r) ==
    LET l     == r.layout
        holds == {k \in 0 .. f.n - 1 : ~f.overlay \/ k \in f.touched}
        At(o) == {k \in holds : OffsetOf(l, k) = o}
    IN  [r EXCEPT !.shows = [o \in DOMAIN @ |->
            IF f.bottomSet /\ o = RingOffsetForHour(l, Bottom, 1) THEN f.bottom
            ELSE IF At(o) # {} THEN f.leds[CHOOSE k \in At(o) : \A j \in At(o) : j <= k] ELSE @[o]]]

-----------------------------------------------------------------------------
NoBase == [kind |-> "none", desc |-> [style |-> "None"], value |-> 0]
Stage(phase) == [phase |-> phase, overlays |-> 0, region |-> "Full", was |-> [k \in {} |-> {}], drawn |-> {}]

\* A lights on which something is shown already.
Lit(l) == [layout |-> l, shows |-> [o \in 0 .. l.leds - 1 |-> {"before"}]]

RingInit ==
    /\ picture = Begun(0, FALSE) /\ base = NoBase /\ stage = Stage("idle")
    /\ lights \in {Lit(l) : l \in Layouts}

Begin(n, overlay) ==
    /\ stage.phase = "idle"
    /\ picture' = Begun(n, overlay) /\ stage' = Stage("begun")
    /\ UNCHANGED <<lights, base>>

DrawBase(kind, d, v) ==
    /\ stage.phase = "begun"
    /\ picture' = IF kind = "fill" THEN BaseFill(picture, d, v) ELSE BaseSelector(picture, d, v)
    /\ base' = [kind |-> kind, desc |-> d, value |-> v] /\ stage' = Stage("based")
    /\ UNCHANGED lights

\* A base of the application's own making.
BaseByHand(first, last) ==
    /\ stage.phase = "begun"
    /\ picture' = MarkActive(picture, first, last)
    /\ base' = [NoBase EXCEPT !.kind = "hand"] /\ stage' = Stage("based")
    /\ UNCHANGED lights

\* Region::Span is set up before it is used.
Spanned(a, b) ==
    /\ stage.phase = "begun" /\ picture.span = <<0, Unit>>
    /\ picture' = SetSpan(picture, a, b)
    /\ UNCHANGED <<lights, base, stage>>

MayOverlay ==
    /\ stage.phase \in {"begun", "based", "over"} /\ stage.overlays < MaxOverlays
    /\ base.kind \in {"fill", "selector"} => base.value \in Overlaid
OverlayWith(region, f, under) ==
    /\ picture' = f
    /\ stage' = [phase |-> "over", overlays |-> stage.overlays + 1, region |-> region, was |-> picture.leds,
                 drawn |-> stage.drawn \cup under \cup {k \in 0 .. f.n - 1 : f.leds[k] # {}}]
    /\ UNCHANGED <<lights, base>>

DrawPip(region, d, p) ==
    /\ MayOverlay
    /\ OverlayWith(region, Pip(picture, region, d, p),
                   IF d.background THEN Members(Resolve(picture, region)) ELSE {})
DrawField(region, d) == MayOverlay /\ OverlayWith(region, Field(picture, region, d), {})

Emit ==
    /\ stage.phase \in {"begun", "based", "over"}
    /\ lights' = Emitted(picture, lights)
    /\ stage' = [stage EXCEPT !.phase = "shown"]
    /\ UNCHANGED <<picture, base>>

\* The application begins its next frame.
Cleared ==
    /\ stage.phase \in {"shown", "rendered"}
    /\ picture' = Begun(0, FALSE) /\ base' = NoBase /\ stage' = Stage("idle")
    /\ lights' = Lit(lights.layout)

RingNext ==
    \/ \E n \in Arcs, overlay \in BOOLEAN : Begin(n, overlay)
    \/ \E v \in Values : \/ \E d \in Fills : DrawBase("fill", d, v)
                         \/ \E d \in Selectors : DrawBase("selector", d, v)
    \/ \E first \in {-1, 0, 2}, last \in {0, 40} : BaseByHand(first, last)
    \/ \E s \in Spans : Spanned(s[1], s[2])
    \/ \E region \in Regions, d \in PipDescs, p \in PipPositions : DrawPip(region, d, p)
    \/ \E region \in Regions, d \in Fields : DrawField(region, d)
    \/ Emit
    \/ Cleared

-----------------------------------------------------------------------------
(* Properties                                                              *)

\* The regions that a base stamps are its LEDs: Active what the fill lights, PastTip what it does
\* not, the arms what is lit beside the pivot; and no region leaves the arc (Base, Resolve).
RegionsAreLit ==
    /\ picture.n > 0 => \A region \in Regions : Members(Resolve(picture, region)) \subseteq 0 .. picture.n - 1
    /\ stage.phase = "based" /\ base.kind = "fill" /\ picture.n > 0 =>
         LET lit == {k \in 0 .. picture.n - 1 : picture.leds[k] \cap {"colour", "neg", "center"} # {}}
         IN  /\ Members(picture.active) = lit
             /\ IF base.desc.center
                THEN Members(picture.armCw) \cup Members(picture.armCcw)
                       = {k \in lit : "center" \notin picture.leds[k]}
                ELSE Members(picture.pastTip) = (0 .. picture.n - 1) \ lit

\* x and y are no more than half a step apart.
Near(x, y, step) == 2 * (x - y) <= step /\ 2 * (y - x) <= step

\* Is it the LED nearest to zone z, or nearest with another?
Nearby(n, d, z, k) == Near(k * (d.zones - 1), z * (n - 1), d.zones - 1)

\* The zones that v may select: in blocks and points the bin that it falls in, else the nearest.
Chosen(n, d, v) ==
    IF d.geo = "Point" \/ (d.geo = "Region" /\ 2 * d.zones <= n + 1)
    THEN {z \in 0 .. d.zones - 1 :
            z * Unit <= v * d.zones /\ (v * d.zones < (z + 1) * Unit \/ z = d.zones - 1)}
    ELSE {z \in 0 .. d.zones - 1 : Near(v * (d.zones - 1), z * Unit, Unit)}

\* The zone is seen if it is available, and where it is.
ZoneShows(f, d, z, selected) ==
    /\ selected # {} <=> z \in d.available /\ (d.geo = "Point" => z < f.n)
    /\ \A k \in selected :
         IF d.geo = "Point" THEN k = z
         ELSE IF d.geo = "Region" /\ 2 * d.zones <= f.n + 1 THEN k * d.zones \in z * f.n .. (z + 1) * f.n - 1
         ELSE Nearby(f.n, d, z, k)

\* A selector shows the zone of its value, in blocks the bin, else the nearest zone at the LED
\* nearest to it, if it is available, and nothing of a zone that is not (Base, BaseZone).
SelectedShows ==
    stage.phase = "based" /\ base.kind = "selector" /\ picture.n > 0 /\ base.desc.zones > 1 =>
      LET d == base.desc
          selected == {k \in 0 .. picture.n - 1 : "selected" \in picture.leds[k]}
      IN  /\ selected \subseteq Members(picture.active)
          /\ \E z \in Chosen(picture.n, d, base.value) : ZoneShows(picture, d, z, selected)
          /\ d.geo = "Distributed" =>
               \A k \in 0 .. picture.n - 1 :
                 picture.leds[k] # {} => \E z \in d.available : z < d.zones /\ Nearby(picture.n, d, z, k)

\* A pip or a field stays inside the region it was aimed at, whatever its width and trail (Pip, Field).
OverlayStays ==
    stage.phase = "over" =>
      \A k \in 0 .. picture.n - 1 :
        picture.leds[k] = stage.was[k] \/ k \in Members(Resolve(picture, stage.region))

\* A frame shows every LED of its arc at the hour that is its own, however the ring is wound, and
\* the bottom pip off the arc; one that lies over another render takes nothing of it away but with
\* a base of its own, or where it has drawn over it (Emit, RingOffsetForHour, Dim).
ShowsAtItsHour ==
    stage.phase = "shown" =>
      LET l == lights.layout
          Hour(o) == (l.start + o * l.step) % 144
          ArcLeds(o) == {k \in 0 .. picture.n - 1 : (ArcStart + k * ArcStep) % 144 = Hour(o)}
      IN  /\ \A o \in DOMAIN lights.shows : \A k \in ArcLeds(o) :
               \/ lights.shows[o] = picture.leds[k]
               \/ picture.overlay /\ lights.shows[o] = {"before"} /\ picture.leds[k] = {}
          /\ picture.bottomSet => \E o \in DOMAIN lights.shows : Hour(o) = Bottom /\ lights.shows[o] = {"pip"}
          /\ picture.overlay /\ base.kind \in {"none", "hand"} =>
               \A o \in DOMAIN lights.shows : lights.shows[o] = {} => ArcLeds(o) \cap stage.drawn # {}
=============================================================================
