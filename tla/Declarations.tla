----------------------------- MODULE Declarations -----------------------------
(***************************************************************************)
(* What an application declares about its panel: knobs, buttons, jacks,     *)
(* pages and the manual, built by chained calls (virtual_knob.h,            *)
(* virtual_button.h, jack.h, page.h, manual.h, see_ref.h).                  *)
(***************************************************************************)
EXTENDS Naturals, Sequences, FiniteSets

CONSTANTS
    KMaxSeeRefs,        \* SeeAlso references an entity holds
    KMaxActions,        \* labelled gestures of a button
    KMaxControls,       \* fields a button controls
    KMaxSections        \* sections of a manual

Null == "null"
NoHw == 255             \* kNoHw

Given(s) == s \notin {Null, ""}

-----------------------------------------------------------------------------
(* References and prose, the same for every kind of entity                 *)

SeeRef(kind, ident, hw) == [kind |-> kind, ident |-> ident, hw |-> hw]
SeeRaw(id)    == SeeRef("raw", id, NoHw)
SeeKnob(k)    == SeeRef("knob", k.ident, NoHw)
SeeButton(b)  == SeeRef("button", b.ident, b.hw)
SeeSlot(s)    == SeeRef("slot", s.ident, NoHw)

\* SeeAlso: one too many is kept as an error.
SeeAlso(d, r) ==
    IF Len(d.see) < KMaxSeeRefs THEN [d EXCEPT !.see = Append(@, r)]
    ELSE [d EXCEPT !.seeOver = TRUE]

Help(d, md)  == [d EXCEPT !.help = md]
Ident(d, id) == [d EXCEPT !.ident = id]
Disp(d, json) == [d EXCEPT !.disp = json]

-----------------------------------------------------------------------------
(* Knobs                                                                   *)

VirtualKnob(pot) ==
    [pot |-> pot, ident |-> Null, help |-> Null, see |-> <<>>, seeOver |-> FALSE,
     disp |-> <<>>, xform |-> "Linear", zones |-> 0, labels |-> 0, stock |-> TRUE]

\* Selector: no zones are one.
SelectorKnob(k, zones) ==
    [k EXCEPT !.xform = "Selector", !.zones = IF zones = 0 THEN 1 ELSE zones, !.stock = FALSE]
Labels(d, n)        == [d EXCEPT !.labels = n]

-----------------------------------------------------------------------------
(* Buttons                                                                 *)

NoGesture == [used |-> FALSE, action |-> "Cycle", calls |-> FALSE, help |-> Null]

VirtualButton(hw, ident) ==
    [hw |-> hw, ident |-> ident, zones |-> 0, default |-> 0, labels |-> 0, disp |-> <<>>,
     tap |-> NoGesture, hold |-> NoGesture, actions |-> <<>>, controls |-> <<>>,
     anchor |-> Null, help |-> Null, badKey |-> Null, see |-> <<>>, seeOver |-> FALSE]

HasHw(b)    == b.hw # NoHw

Selector(b, zones)  == [b EXCEPT !.zones = zones]
Tap(b, action)      == [b EXCEPT !.tap.used = TRUE, !.tap.action = action]
TapCall(b)          == [b EXCEPT !.tap.used = TRUE, !.tap.calls = TRUE]
Hold(b, action)     == [b EXCEPT !.hold.used = TRUE, !.hold.action = action]
Anchor(b, field)    == [b EXCEPT !.anchor = field]

\* Action and Controls: past the capacity they are dropped.
Action(b, gesture) ==
    IF Len(b.actions) < KMaxActions
    THEN [b EXCEPT !.actions = Append(@, [gesture |-> gesture, help |-> Null])] ELSE b
Controls(b, field) ==
    IF Len(b.controls) < KMaxControls THEN [b EXCEPT !.controls = Append(@, field)] ELSE b

\* GestureHelp: a key that matches no gesture declared so far is kept as an error.
GestureHelp(b, key, md) ==
    LET named == {i \in DOMAIN b.actions : b.actions[i].gesture = key}
    IN  CASE key = "tap" /\ b.tap.used   -> [b EXCEPT !.tap.help = md]
          [] key = "hold" /\ b.hold.used -> [b EXCEPT !.hold.help = md]
          [] ~(key = "tap" /\ b.tap.used) /\ ~(key = "hold" /\ b.hold.used) /\ named # {} ->
               [b EXCEPT !.actions[CHOOSE i \in named : \A j \in named : i <= j].help = md]
          [] OTHER -> [b EXCEPT !.badKey = key]

-----------------------------------------------------------------------------
(* Jacks, pages and the manual                                             *)

Jack(id) == [ident |-> id, norm |-> Null, help |-> Null, see |-> <<>>, seeOver |-> FALSE]
Normalled(j, from) == [j EXCEPT !.norm = from.ident]

Page(idx) == [idx |-> idx, knobs |-> <<>>, buttons |-> <<>>, help |-> Null, hidden |-> {}]

\* Knobs and Buttons of a page: the same one twice counts once.
PageKnob(p, k) ==
    IF \E i \in DOMAIN p.knobs : p.knobs[i] = k THEN p ELSE [p EXCEPT !.knobs = Append(@, k)]
PageButton(p, b) ==
    IF \E i \in DOMAIN p.buttons : p.buttons[i] = b THEN p
    ELSE [p EXCEPT !.buttons = Append(@, b)]
HidePot(p, pot) == [p EXCEPT !.hidden = @ \cup {pot}]

Manual == [preamble |-> Null, presets |-> Null, sections |-> <<>>, over |-> FALSE]
Preamble(m, md)    == [m EXCEPT !.preamble = md]
PresetsHelp(m, md) == [m EXCEPT !.presets = md]

\* Section: one too many is kept as an error.
Section(m, id, body) ==
    IF Len(m.sections) < KMaxSections
    THEN [m EXCEPT !.sections = Append(@, [id |-> id, body |-> body])]
    ELSE [m EXCEPT !.over = TRUE]
=============================================================================
