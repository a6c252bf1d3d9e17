------------------------------ MODULE Descriptor ------------------------------
(***************************************************************************)
(* DescriptorBuilder (descriptor.cpp): each call takes a builder and gives  *)
(* the builder after it.  A call has failed when error is set: error stays, *)
(* the first reason is kept, and Finish then gives no text.  Names, labels  *)
(* and colours, which no check reads, are left out of the text.             *)
(***************************************************************************)
EXTENDS JsonText, Declarations

CONSTANTS
    Word,               \* a byte offset is a number modulo Word
    KMaxFieldIds, KMaxExtraIds, KMaxRefs,
    KMaxRootButtons, KMaxJacks, KMaxRootFragments

RECURSIVE Concat(_)
Concat(ss) == IF ss = <<>> THEN <<>> ELSE Head(ss) \o Concat(Tail(ss))

RECURSIVE SumOf(_)
SumOf(ns) == IF ns = <<>> THEN 0 ELSE Head(ns) + SumOf(Tail(ns))

-----------------------------------------------------------------------------
(* The managed components, as far as their description goes                *)

\* Settings::PersistedBytesFor
PersistedBytesFor(kind) ==
    CASE kind \in {"None", "PresetSlot", "PresetAction"} -> 0
      [] kind = "Selector" -> 1
      [] OTHER -> 4

\* SerializedSize; SchemaHash, one value for each layout.
SizeOf(c) ==
    CASE c.kind = "pager"    -> c.pages * c.pots * 4
      [] c.kind = "settings" -> SumOf([i \in DOMAIN c.slots |-> PersistedBytesFor(c.slots[i].kind)])
      [] c.kind = "buttons"  -> Len(c.cells)
      [] OTHER               -> c.size
SchemaOf(managed) == [i \in DOMAIN managed |-> <<managed[i].kind, SizeOf(managed[i])>>]

OffsetOf(managed, i) == SumOf([j \in 1 .. i - 1 |-> SizeOf(managed[j])])
LiveSize(managed)    == OffsetOf(managed, Len(managed) + 1)

-----------------------------------------------------------------------------
\* DescriptorBuilder; live and defs say which state of the module the defaults come from.
NewBuilder(room, managed, live) ==
    [w |-> NewWriter(room), managed |-> managed, live |-> live, defs |-> Null, defsLen |-> 0,
     error |-> FALSE, err |-> "",
     index |-> 1, off |-> 0, size |-> 0,
     open |-> {}, fields |-> FALSE, modal |-> FALSE, of |-> <<>>, nextOff |-> 0, slotOff |-> <<>>,
     fieldIds |-> <<>>, extraIds |-> <<>>, refs |-> <<>>,
     buttons |-> <<>>, jacks |-> <<>>, manual |-> Manual, hasManual |-> FALSE, fragments |-> <<>>]

Defaults(db, image, len) == [db EXCEPT !.defs = image, !.defsLen = len]

Out(db, items) == [db EXCEPT !.w = WriteAll(@, items)]
Fail(db, why)  == [db EXCEPT !.error = TRUE, !.err = IF @ = "" THEN why ELSE @]

\* What follows a call that may have failed.
Then(db, Call(_)) == IF db.error THEN db ELSE Call(db)

\* The value that is the default of the field at an absolute offset: read from the factory image,
\* or from the live state.
DefaultAt(db, abs)      == <<"n", (IF db.defs = Null THEN db.live ELSE db.defs) \o ToString(abs)>>
ImageShort(db, abs, n)  == db.defs # Null /\ abs + n > db.defsLen

Begin(db) ==
    Out(db, <<P("{"), K("size"), N(LiveSize(db.managed)), K("components"), P("[")>>)

\* CheckManaged: components are described in the order of Manage.
OutOfOrder(db, i) == db.index # i

RecordFieldId(db, id) ==
    CASE id = Null -> Fail(db, "field id null")
      [] id # Null /\ Len(db.fieldIds) >= KMaxFieldIds -> Fail(db, "too many fields for ref validation")
      [] OTHER -> [db EXCEPT !.fieldIds = Append(@, id)]
RecordExtraId(db, id) ==
    CASE id = Null -> Fail(db, "entity id null")
      [] id # Null /\ Len(db.extraIds) >= KMaxExtraIds -> Fail(db, "too many entity ids for ref validation")
      [] OTHER -> [db EXCEPT !.extraIds = Append(@, id)]
RecordRef(db, target, fieldsOnly) ==
    IF Len(db.refs) >= KMaxRefs THEN Fail(db, "too many field refs")
    ELSE [db EXCEPT !.refs = Append(@, [target |-> target, fieldsOnly |-> fieldsOnly])]

\* ResolveSee: a knob or a slot has no positional id to be referred by.
ResolveSee(r) ==
    IF r.ident # Null THEN r.ident
    ELSE IF r.kind = "button" THEN "b" \o ToString(r.hw) ELSE Null

RECURSIVE EmitSee(_, _)
EmitSee(db, see) ==
    IF see = <<>> THEN Out(db, <<P("]")>>)
    ELSE LET id == ResolveSee(Head(see))
             d  == IF id = Null THEN Fail(db, "see targets a control without Ident()")
                   ELSE RecordRef(db, id, FALSE)
         IN  IF d.error THEN d ELSE EmitSee(Out(d, <<S(id)>>), Tail(see))

HelpItems(help) == IF Given(help) THEN <<K("help"), S(help)>> ELSE <<>>
EmitHelpSee(db, help, see) ==
    IF see = <<>> THEN Out(db, HelpItems(help))
    ELSE EmitSee(Out(db, HelpItems(help) \o <<K("see"), P("[")>>), see)

\* EmitPageMeta, of which the help is prose.
PageHelp(help) ==
    IF \A i \in DOMAIN help : help[i] = Null THEN <<>>
    ELSE <<K("pageHelp"), P("[")>>
         \o [i \in DOMAIN help |-> S(IF help[i] = Null THEN "" ELSE help[i])] \o <<P("]")>>

OpenComponent(db, id, kind, c) ==
    Out([db EXCEPT !.size = SizeOf(c)],
        <<P("{"), K("id"), S(id), K("kind"), S(kind), K("size"), N(SizeOf(c)), K("off"), N(db.off)>>)

Behind(db)   == [db EXCEPT !.off = @ + db.size, !.index = @ + 1]
EndFields(db) == IF db.fields THEN [Out(db, <<P("]")>>) EXCEPT !.fields = FALSE] ELSE db
BeginFields(db) ==
    IF db.fields THEN db ELSE [Out(db, <<K("fields"), P("[")>>) EXCEPT !.fields = TRUE]

-----------------------------------------------------------------------------
(* Pager                                                                   *)

BeginPager(db, id, i, help) ==
    IF OutOfOrder(db, i) THEN Fail(db, "component out of Manage() order")
    ELSE LET c == db.managed[i]
         IN  [Out(OpenComponent([db EXCEPT !.open = @ \cup {"pager"}, !.of = c], id, "pager", c),
                  PageHelp(help) \o <<K("fields"), P("[")>>) EXCEPT !.fields = TRUE]

PagerField(db, page, pot, id, disp, help, see, hidden) ==
    LET off == (page * db.of.pots + pot) * 4
    IN  IF "pager" \notin db.open \/ ~db.fields THEN Fail(db, "pager: field before BeginPager")
        ELSE IF page >= db.of.pages \/ pot >= db.of.pots THEN Fail(db, "pager: field out of range")
        ELSE Then(RecordFieldId(db, id), LAMBDA d :
               IF ImageShort(d, d.off + off, 4) THEN Fail(d, "defaults image short")
               ELSE Then(EmitHelpSee(Out(d, <<P("{"), K("id"), S(id), K("off"), N(off), K("type"), S("f32"),
                                              K("def"), DefaultAt(d, d.off + off), K("disp"), Raw(disp)>>),
                                     help, see), LAMBDA e :
                      Out(e, (IF hidden THEN <<K("hidden"), True>> ELSE <<>>) \o <<P("}")>>)))

EndPager(db) ==
    IF "pager" \notin db.open THEN Fail(db, "pager: End without Begin")
    ELSE Behind([Out(EndFields(db), <<P("}")>>) EXCEPT !.open = @ \ {"pager"}])

\* Opaque and Name: a component without fields.
Opaque(db, id, kind, i) ==
    IF OutOfOrder(db, i) THEN Fail(db, "component out of Manage() order")
    ELSE Behind(Out(OpenComponent(db, id, kind, db.managed[i]), <<P("}")>>))

-----------------------------------------------------------------------------
(* Generic component                                                       *)

BeginComponent(db, id, kind, i) ==
    IF db.open # {} THEN Fail(db, "component: begin while another open")
    ELSE IF OutOfOrder(db, i) THEN Fail(db, "component out of Manage() order")
    ELSE [OpenComponent(db, id, kind, db.managed[i]) EXCEPT !.open = {"generic"}]

MetaRefused(db) == "generic" \notin db.open \/ db.fields

ComponentGrid(db, pages, pots) ==
    IF MetaRefused(db) THEN Fail(db, "component: grid after fields")
    ELSE Out(db, <<K("pages"), N(pages), K("pots"), N(pots)>>)

GenericMeta(db, key, json) ==
    IF MetaRefused(db) THEN Fail(db, "component: meta after fields")
    ELSE IF json = <<>> THEN Fail(db, "component: meta key/value empty")
    ELSE IF ~ValidJsonValue(json) THEN Fail(db, "component: meta not valid JSON")
    ELSE Out(db, <<K(key), Raw(json)>>)

Width(type) == IF type = "enum" THEN 1 ELSE 4

\* Mutant: the first byte must lie in the component, the others not.
OutsideFromStart(db, off, type) == off > db.size

\* Does a field end behind its component?  The sum is a number of 32 bits.
Outside(db, off, type) == (off + Width(type)) % Word > db.size

GenericField(db, f) ==
    IF "generic" \notin db.open THEN Fail(db, "component: field before Begin")
    ELSE IF Outside(db, f.off, f.type) THEN Fail(BeginFields(db), "component: field outside serialized bytes")
    ELSE Then(RecordFieldId(BeginFields(db), f.id), LAMBDA d :
           IF f.type = "enum" /\ f.zones = 0 THEN Fail(d, "component: enum field needs zones")
           ELSE Then(EmitHelpSee(Out(d, <<P("{"), K("id"), S(f.id), K("off"), N(f.off), K("type"), S(f.type),
                                          K("disp"), Raw(f.disp)>>), f.help, f.see), LAMBDA e :
                  Out(e, <<P("}")>>)))

EndComponent(db) ==
    IF "generic" \notin db.open THEN Fail(db, "component: End without Begin")
    ELSE Behind([Out(EndFields(db), <<P("}")>>) EXCEPT !.open = {}])

-----------------------------------------------------------------------------
(* Buttons                                                                 *)

EffectiveId(b) == IF b.ident # Null THEN b.ident ELSE "b" \o ToString(b.hw)

GestureEntry(gesture, help) == <<P("{"), K("gesture"), S(gesture)>> \o HelpItems(help) \o <<P("}")>>
EmitGestures(b, implicitTap) ==
    <<P("[")>>
    \o (IF b.tap.used THEN GestureEntry("tap", b.tap.help)
        ELSE IF implicitTap THEN GestureEntry("tap", Null) ELSE <<>>)
    \o (IF b.hold.used THEN GestureEntry("hold", b.hold.help) ELSE <<>>)
    \o Concat([i \in DOMAIN b.actions |-> GestureEntry(b.actions[i].gesture, b.actions[i].help)])
    \o <<P("]")>>

\* Mutant: errors of a declaration are passed over.
EmitButtonManualAnyway(db, b) == EmitHelpSee(db, b.help, b.see)

\* EmitButtonManual: errors kept by the declaration fail the build.
EmitButtonManual(db, b) ==
    CASE b.badKey # Null -> Fail(db, "gestureHelp matches no declared gesture")
      [] b.badKey = Null /\ b.seeOver -> Fail(db, "see has too many SeeAlso refs")
      [] OTHER -> EmitHelpSee(db, b.help, b.see)

BeginButtons(db, id, i) ==
    IF db.open # {} THEN Fail(db, "buttons: begin while another open")
    ELSE IF OutOfOrder(db, i) THEN Fail(db, "component out of Manage() order")
    ELSE [OpenComponent(db, id, "buttons", db.managed[i]) EXCEPT !.open = {"buttons"}, !.nextOff = 0]

BeginModal(db) ==
    IF db.modal THEN db ELSE [Out(db, <<K("modal"), P("[")>>) EXCEPT !.modal = TRUE]

ButtonsModal(db, b) ==
    IF "buttons" \notin db.open \/ db.fields THEN Fail(db, "buttons: modal after fields")
    ELSE Then(RecordExtraId(BeginModal(db), EffectiveId(b)), LAMBDA d :
           Then(EmitButtonManual(Out(d, <<P("{"), K("id"), S(EffectiveId(b)), K("gestures")>>
                                        \o EmitGestures(b, FALSE)), b), LAMBDA e :
             Out(e, <<P("}")>>)))

\* The array of modal buttons is closed before the fields begin.
EndModal(db) == IF db.modal THEN [Out(db, <<P("]")>>) EXCEPT !.modal = FALSE] ELSE db

AnchorRef(db, b) ==
    CASE b.anchor = Null -> db
      [] b.anchor # Null /\ b.anchor = EffectiveId(b) -> Fail(db, "anchor is the field itself")
      [] OTHER -> RecordRef(db, b.anchor, TRUE)

FieldItems(b, off) ==
    <<P("{"), K("id"), S(EffectiveId(b)), K("off"), N(off), K("type"), S("enum"),
      K("disp"), Raw(IF b.disp # <<>> THEN b.disp ELSE <<P("{"), P("}")>>)>>
    \o (IF b.anchor # Null THEN <<K("anchor"), S(b.anchor)>> ELSE <<>>)
    \o (IF ~HasHw(b) THEN <<>>
        ELSE <<K("btn"), P("{"), K("gestures")>> \o EmitGestures(b, ~b.tap.used /\ ~b.hold.used) \o <<P("}")>>)

ButtonsField(db, b, off) ==
    IF "buttons" \notin db.open THEN Fail(db, "buttons: field before BeginButtons")
    ELSE IF b.zones < 2 \/ off # db.nextOff \/ off + 1 > db.size
    THEN Fail(BeginFields(EndModal(db)), "buttons: field not a dense 1-byte enum")
    ELSE Then(RecordFieldId([BeginFields(EndModal(db)) EXCEPT !.nextOff = @ + 1], EffectiveId(b)), LAMBDA c :
           Then(AnchorRef(c, b), LAMBDA d :
             Then(EmitButtonManual(Out(d, FieldItems(b, off)), b), LAMBDA e :
               Out(e, <<P("}")>>))))

\* Not as many fields as the bank has bytes.
Dense(db) == IF db.nextOff # db.size THEN Fail(db, "buttons: size != stateful count") ELSE db

EndButtons(db) ==
    IF "buttons" \notin db.open THEN Fail(db, "buttons: End without Begin")
    ELSE Behind([Dense(Out(EndFields(EndModal(db)), <<P("}")>>)) EXCEPT !.open = {}])

-----------------------------------------------------------------------------
(* Settings                                                                *)

\* The pots of gestures.
GestureItems(slots) ==
    IF \A s \in DOMAIN slots : slots[s].kind \notin {"PresetSlot", "PresetAction"} THEN <<>>
    ELSE <<K("gestures"), P("[")>>
         \o Concat([s \in DOMAIN slots |->
              IF slots[s].kind \in {"PresetSlot", "PresetAction"} THEN <<P("{"), K("pot"), N(s), P("}")>> ELSE <<>>])
         \o <<P("]")>>

\* The slots, page by page, with the offset of each that persists.
BeginSettings(db, id, i, help) ==
    LET c     == db.managed[i]
        Bytes == [s \in DOMAIN c.slots |-> PersistedBytesFor(c.slots[s].kind)]
        Offs  == [s \in DOMAIN c.slots |-> IF Bytes[s] = 0 THEN Word ELSE SumOf(SubSeq(Bytes, 1, s - 1))]
        Walked(d) == IF SumOf(Bytes) # d.size THEN Fail(d, "settings: size != slot walk") ELSE BeginFields(d)
    IN  IF OutOfOrder(db, i) THEN Fail(db, "component out of Manage() order")
        ELSE Walked(Out(OpenComponent([db EXCEPT !.open = @ \cup {"settings"}, !.of = c, !.slotOff = Offs],
                                      id, "settings", c), PageHelp(help) \o GestureItems(c.slots)))

SettingsField(db, s, id) ==
    LET slot == db.of.slots[s]
        off  == db.slotOff[s]
        type == IF slot.kind = "Selector" THEN "enum" ELSE "f32"
    IN  IF "settings" \notin db.open \/ ~db.fields
        THEN Fail(db, "settings: field before BeginSettings")
        ELSE IF off = Word THEN Fail(db, "settings: slot not persisted")
        ELSE Then(RecordFieldId(db, id), LAMBDA d :
               IF type = "enum" /\ slot.labels # 0 /\ slot.labels # slot.zones
               THEN Fail(d, "settings: selector labels != zones")
               ELSE IF ImageShort(d, d.off + off, Width(type)) THEN Fail(d, "defaults image short")
               ELSE Then(EmitHelpSee(Out(d, <<P("{"), K("id"), S(id), K("off"), N(off),
                                              K("type"), S(type), K("def"), DefaultAt(d, d.off + off),
                                              K("disp"), P("{"), P("}")>>), slot.help, slot.see), LAMBDA e :
                      Out(e, <<P("}")>>)))

EndSettings(db) ==
    IF "settings" \notin db.open THEN Fail(db, "settings: End without Begin")
    ELSE Behind([Out(EndFields(db), <<P("}")>>) EXCEPT !.open = @ \ {"settings"}])

-----------------------------------------------------------------------------
(* The root: tables that are kept until Finish writes them                 *)

RawRoot(db, fragment) ==
    IF db.open # {} \/ fragment = <<>> \/ Len(db.fragments) >= KMaxRootFragments
    THEN Fail(db, "root fragment invalid or too many")
    ELSE [db EXCEPT !.fragments = Append(@, fragment)]

Buttons(db, bs) ==
    CASE Len(bs) > KMaxRootButtons -> Fail(db, "too many buttons")
      [] Len(bs) <= KMaxRootButtons /\ db.open # {} -> Fail(db, "buttons table while component open")
      [] OTHER -> [db EXCEPT !.buttons = bs]
Jacks(db, js) ==
    CASE Len(js) > KMaxJacks -> Fail(db, "too many jacks")
      [] Len(js) <= KMaxJacks /\ db.open # {} -> Fail(db, "jacks table while component open")
      [] OTHER -> [db EXCEPT !.jacks = js]
ManualBlock(db, m) ==
    IF db.open # {} THEN Fail(db, "manual block while component open")
    ELSE [db EXCEPT !.manual = m, !.hasManual = TRUE]

RECURSIVE EmitControls(_, _)
EmitControls(db, fs) ==
    IF fs = <<>> THEN db
    ELSE EmitControls(Out(IF Given(Head(fs)) THEN RecordRef(db, Head(fs), TRUE) ELSE db,
                          <<P("{"), K("field"), S(Head(fs)), P("}")>>), Tail(fs))

RootHead(db, b) ==
    Out(IF b.ident # Null THEN RecordExtraId(db, b.ident) ELSE db,
        <<P("{"), K("id"), S(IF b.ident # Null THEN b.ident ELSE "")>>
        \o (IF b.tap.used \/ b.hold.used \/ b.actions # <<>>
            THEN <<K("actions")>> \o EmitGestures(b, FALSE) ELSE <<>>))

RootControls(db, fs) ==
    IF fs = <<>> THEN db ELSE Out(EmitControls(Out(db, <<K("controls"), P("[")>>), fs), <<P("]")>>)

RootButton(db, b) == Out(EmitButtonManual(RootControls(RootHead(db, b), b.controls), b), <<P("}")>>)

RECURSIVE EmitRootButtons(_, _)
EmitRootButtons(db, bs) ==
    IF bs = <<>> THEN db ELSE EmitRootButtons(RootButton(db, Head(bs)), Tail(bs))

Norm(db, from) == IF from = Null THEN db ELSE RecordRef(Out(db, <<K("norm"), S(from)>>), from, FALSE)

\* A jack in error ends the table where it stands.
RECURSIVE EmitRootJacks(_, _)
EmitRootJacks(db, js) ==
    IF js = <<>> THEN Out(db, <<P("]")>>)
    ELSE LET j == Head(js)
         IN  IF ~Given(j.ident) THEN Fail(db, "jack: empty id")
             ELSE IF j.seeOver THEN Fail(db, "see has too many SeeAlso refs")
             ELSE EmitRootJacks(
                    Out(EmitHelpSee(Norm(Out(RecordExtraId(db, j.ident), <<P("{"), K("id"), S(j.ident)>>), j.norm),
                                    j.help, j.see), <<P("}")>>), Tail(js))

EmitManualBlock(db) ==
    LET m    == db.manual
        bad  == \E i \in DOMAIN m.sections : m.sections[i].id = Null \/ m.sections[i].body = Null
        items == <<K("manual"), P("{")>>
                 \o (IF m.preamble # Null THEN <<K("preamble"), S(m.preamble)>> ELSE <<>>)
                 \o (IF m.sections = <<>> THEN <<>>
                     ELSE <<K("sections"), P("[")>>
                          \o Concat([i \in DOMAIN m.sections |->
                               <<P("{"), K("id"), S(m.sections[i].id),
                                 K("body"), S(m.sections[i].body), P("}")>>]) \o <<P("]")>>)
                 \o <<K("presets"), P("{"), K("help"),
                      S(IF m.presets # Null THEN m.presets ELSE "stock"), P("}"), P("}")>>
    IN  IF ~db.hasManual THEN db
        ELSE IF m.over THEN Fail(db, "manual: too many sections")
        ELSE IF bad THEN Fail(RecordExtraId(db, "presets"), "manual: section missing id/title/body")
        ELSE Out(RecordExtraId(db, "presets"), items)

-----------------------------------------------------------------------------
\* Does a reference name something?  An anchor and what a button controls must be fields.
Resolved(db, r) ==
    \/ \E i \in DOMAIN db.fieldIds : db.fieldIds[i] = r.target
    \/ ~r.fieldsOnly /\ \E i \in DOMAIN db.extraIds : db.extraIds[i] = r.target

\* Every reference finds the fields, whatever their order: only now are they all known.
Linked(db) == IF \A i \in DOMAIN db.refs : Resolved(db, db.refs[i]) THEN db ELSE Fail(db, "names no field")

Whole(db) ==
    IF db.index # Len(db.managed) + 1 THEN Fail(db, "components != Manage() count")
    ELSE IF db.off # LiveSize(db.managed) THEN Fail(db, "total size drift vs Manage() layout")
    ELSE IF ~WriterOk(db.w) THEN Fail(db, "descriptor buffer overflow")
    ELSE IF ~ValidJsonValue(db.w.text) THEN Fail(db, "descriptor JSON invalid")
    ELSE db

ButtonsTable(db) ==
    IF db.buttons = <<>> THEN db
    ELSE Out(EmitRootButtons(Out(db, <<K("buttons"), P("[")>>), db.buttons), <<P("]")>>)
JacksTable(db) ==
    IF db.jacks = <<>> THEN db ELSE EmitRootJacks(Out(db, <<K("jacks"), P("[")>>), db.jacks)

Finish(db) ==
    LET Fragment == [i \in DOMAIN db.fragments |-> Raw(db.fragments[i])]
    IN  Then(Linked(Out(EmitManualBlock(Out(JacksTable(ButtonsTable(Out(db, <<P("]")>>))), Fragment)), <<P("}")>>)),
             Whole)
=============================================================================
