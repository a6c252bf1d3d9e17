------------------------------- MODULE Describe -------------------------------
(***************************************************************************)
(* How a descriptor is derived (describe.cpp): the describers of the        *)
(* standard surfaces, and the ComponentWriter through which an application  *)
(* describes a component of its own, one call at a time.                    *)
(***************************************************************************)
EXTENDS Descriptor

CONSTANT DispRoom       \* size of the buffer a display hint is derived in

NormHint == <<P("{"), S("kind"), P(":"), S("norm"), P("}")>>

-----------------------------------------------------------------------------
(* ComponentWriter.  u holds a builder and the writer that is pinned to one *)
(* of its components.                                                       *)

ComponentWriter(i) ==
    [i |-> i, id |-> "c" \o ToString(i - 1), kind |-> "fields", grid |-> <<>>,
     opened |-> FALSE, ok |-> TRUE]

\* Ident, Kind, Label, Grid, PageMeta: kept until the component is opened, a misuse afterwards.
Latched(u, cw) == [u EXCEPT !.cw = IF u.cw.opened THEN [@ EXCEPT !.ok = FALSE] ELSE cw]

\* What the writer holds after a call of the builder gave db.
Landed(db, cw) == [db |-> db, cw |-> [cw EXCEPT !.ok = @ /\ ~db.error]]

Gridded(u) ==
    IF ~u.cw.ok \/ u.cw.grid = <<>> THEN u
    ELSE Landed(ComponentGrid(u.db, u.cw.grid[1], u.cw.grid[2]), u.cw)

Open(u) ==
    IF u.cw.opened THEN u
    ELSE Gridded(Landed(BeginComponent(u.db, u.cw.id, u.cw.kind, u.cw.i), [u.cw EXCEPT !.opened = TRUE]))

\* A call of the builder on the open component; none after one has failed.
IfOk(u, BuilderCall(_))    == IF u.cw.ok THEN Landed(BuilderCall(u.db), u.cw) ELSE u
Through(u, BuilderCall(_)) == IfOk(Open(u), BuilderCall)

Called(u, c) ==
    CASE c.op = "Ident" -> Latched(u, [u.cw EXCEPT !.id = c.id])
      [] c.op = "Kind"  -> Latched(u, [u.cw EXCEPT !.kind = c.id])
      [] c.op = "Grid"  -> Latched(u, [u.cw EXCEPT !.grid = c.grid])
      [] c.op = "Field" -> Through(u, LAMBDA d : GenericField(d, c.field))
      [] c.op = "Meta"  -> Through(u, LAMBDA d : GenericMeta(d, c.id, c.json))

Finalize(u) == Through(u, EndComponent)

-----------------------------------------------------------------------------
(* Standard surfaces: <<builder, success>>                                 *)

\* The first knob declared for the pot, on the first page with the index.
FindKnob(pages, pg, pot) ==
    LET found == Concat([i \in DOMAIN pages |->
                   IF pages[i].idx # pg THEN <<>>
                   ELSE SelectSeq(pages[i].knobs, LAMBDA k : k.pot = pot)])
    IN  IF found = <<>> THEN VirtualKnob(pot) ELSE found[1]

IsPotHidden(pages, pg, pot) ==
    \E i \in DOMAIN pages : pages[i].idx = pg /\ pot \in pages[i].hidden

\* DeriveKnobDisp: a hint that does not fit its buffer degrades to the plain one.
DeriveKnobDisp(k) ==
    LET labelled == k.xform = "Selector" /\ k.labels # 0 /\ k.labels = k.zones
        w == WriteAll(NewWriter(DispRoom),
               IF labelled
               THEN <<P("{"), K("kind"), S("snap"), K("labels"), P("[")>>
                    \o [i \in 1 .. k.zones |-> S("label")]
                    \o <<P("]"), K("bins"), N(k.zones), P("}")>>
               ELSE <<P("{"), K("kind"), S(IF k.xform = "Exp" THEN "exp" ELSE "linear")>>
                    \o (IF k.xform = "Selector" THEN <<K("bins"), N(k.zones)>> ELSE <<>>) \o <<P("}")>>)
    IN  CASE k.disp # <<>>                         -> k.disp
          [] k.disp = <<>> /\ k.stock              -> NormHint
          [] OTHER -> IF w.full \/ Len(w.text) >= w.room THEN NormHint ELSE w.text

\* The tab help of the pages that the pager has.
TabHelp(pages, n) ==
    [pg \in 1 .. n |->
       LET given == {i \in DOMAIN pages : pages[i].idx = pg - 1 /\ pages[i].help # Null}
       IN  IF given = {} THEN Null ELSE pages[CHOOSE i \in given : \A j \in given : i >= j].help]

RECURSIVE PagerFields(_, _, _, _)
PagerFields(db, c, pages, n) ==
    LET pg  == n \div c.pots
        pot == n % c.pots
        k   == FindKnob(pages, pg, pot)
        d   == PagerField(db, pg, pot,
                          IF k.ident # Null THEN k.ident ELSE "p" \o ToString(pg) \o "." \o ToString(pot),
                          DeriveKnobDisp(k), k.help, k.see, IsPotHidden(pages, pg, pot))
    IN  IF db.error THEN <<db, FALSE>>
        ELSE IF n = c.pages * c.pots THEN <<EndPager(db), TRUE>>
        ELSE IF k.seeOver THEN <<db, FALSE>>
        ELSE PagerFields(d, c, pages, n + 1)

DescribePager(db, i, pages) ==
    LET c == db.managed[i]
    IN  PagerFields(BeginPager(db, "pager", i, TabHelp(pages, c.pages)), c, pages, 0)

\* Brightness has help of its own.
SlotHelp(slot) ==
    IF slot.help = Null /\ slot.kind = "Brightness" THEN [slot EXCEPT !.help = "stock"] ELSE slot

RECURSIVE SettingsFields(_, _)
SettingsFields(db, s) ==
    IF db.error THEN <<db, FALSE>>
    ELSE IF s > Len(db.of.slots) THEN <<EndSettings(db), TRUE>>
    ELSE LET slot == db.of.slots[s]
         IN  IF PersistedBytesFor(slot.kind) = 0 THEN SettingsFields(db, s + 1)
             ELSE IF slot.seeOver THEN <<db, FALSE>>
             ELSE SettingsFields(
                    SettingsField([db EXCEPT !.of.slots[s] = SlotHelp(slot)], s,
                                  IF slot.ident # Null THEN slot.ident ELSE "s" \o ToString(s)), s + 1)

DescribeSettings(db, i) ==
    SettingsFields(BeginSettings(db, "settings", i, db.managed[i].help), 1)

RECURSIVE ModalButtons(_, _), CellFields(_, _, _)
ModalButtons(db, bs) ==
    IF bs = <<>> \/ db.error THEN db ELSE ModalButtons(ButtonsModal(db, Head(bs)), Tail(bs))
CellFields(db, bs, off) ==
    IF bs = <<>> \/ db.error THEN db ELSE CellFields(ButtonsField(db, Head(bs), off), Tail(bs), off + 1)

\* What a describer tells of the builder it leaves.
Described(db) == <<db, ~db.error>>

\* An error that the bank found in the declarations fails the build.
DescribeButtons(db, i) ==
    LET c == db.managed[i]
        Entries(b) == CellFields(ModalButtons(b, c.modal), c.cells, 0)
    IN  IF c.ok THEN Described(Then(Then(BeginButtons(db, "buttons", i), Entries), EndButtons))
        ELSE <<BeginButtons(db, "buttons", i), FALSE>>

-----------------------------------------------------------------------------
\* RenderErrorDescriptor: no components, and the reason.
RenderErrorDescriptor(room, reason) ==
    LET w == WriteAll(NewWriter(room),
               <<P("{"), K("size"), N(0), K("components"), P("["), P("]"),
                 K("error"), S(IF Given(reason) THEN reason ELSE "descriptor build failed"), P("}")>>)
    IN  IF WriterOk(w) THEN w.text ELSE <<>>

RECURSIVE RawRoots(_, _)
RawRoots(db, fragments) ==
    IF fragments = <<>> \/ db.error THEN db ELSE RawRoots(RawRoot(db, Head(fragments)), Tail(fragments))

\* RenderDescriptor, up to the first component.
RenderBegins(room, managed, live, image, len, buttons, jacks, manual, fragments) ==
    LET db == NewBuilder(room, managed, live)
    IN  RawRoots(Then(Then(Buttons(Begin(IF len = 0 THEN db ELSE Defaults(db, image, len)), buttons),
                           LAMBDA b : Jacks(b, jacks)),
                      LAMBDA c : ManualBlock(c, manual)), fragments)
=============================================================================
