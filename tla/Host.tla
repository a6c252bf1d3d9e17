--------------------------------- MODULE Host ---------------------------------
(***************************************************************************)
(* hostlink::Host (host.cpp) and RenderDescriptor: the descriptor that a    *)
(* module publishes to the web editor.  It is derived at the first poll     *)
(* from what main() declared, with the defaults of the state before the     *)
(* boot preset landed, and again, in a scratch buffer, on request.          *)
(* A describer that the application wrote calls its ComponentWriter as it   *)
(* likes, so each of its calls is a step; the rest is deterministic.        *)
(***************************************************************************)
EXTENDS Describe

CONSTANTS
    Catalogue,          \* what an application may have declared, by name; said is its prose and
                        \* the ids that it refers to
    Revisions,              \* [DOMAIN Catalogue -> SUBSET DOMAIN Catalogue], later changes
    WriterCalls,        \* calls of a describer
    MaxWriterCalls,     \* bound on the calls of one describer
    Room, RefreshRoom,  \* sizes of the two descriptor buffers
    KMaxExtensions

VARIABLES
    decl,               \* what is declared now, a name in the catalogue
    live,               \* the state of the module: "F" as declared, "L" loaded
    factory,            \* the image of the factory state, and what it was taken of
    started,
    extensions,         \* registered, in order
    configurationOk,
    build,              \* the descriptor that is being built
    served,             \* the descriptor that the link serves
    status              \* of the refresh

hostVars == <<decl, live, factory, started, extensions, configurationOk, build, served, status>>

D == Catalogue[decl]
NotCaptured == [image |-> Null, len |-> 0, schema |-> <<>>]
NoWriter    == ComponentWriter(0)
NoBuild     == [aim |-> "none"]

HostInit ==
    /\ decl \in DOMAIN Catalogue
    /\ live = "F" /\ factory = NotCaptured /\ started = FALSE
    /\ extensions = <<>> /\ configurationOk = TRUE
    /\ build = NoBuild /\ served = <<>> /\ status = "Idle"

Idle == build = NoBuild

-----------------------------------------------------------------------------
(* Before the link starts                                                  *)

\* CaptureFactory: once.
Captured ==
    IF factory # NotCaptured THEN factory
    ELSE [image |-> live, len |-> LiveSize(D.managed), schema |-> SchemaOf(D.managed)]

\* The boot preset lands, or there is none; the hook has run before it.
BootLoad ==
    /\ ~started /\ factory = NotCaptured
    /\ factory' = Captured /\ live' \in {"F", "L"}
    /\ UNCHANGED <<decl, started, extensions, configurationOk, build, served, status>>

\* Mutant: only the first command of an earlier extension is looked at.
MayExtendFirst(e) ==
    /\ ~started /\ Len(extensions) < KMaxExtensions
    /\ e.first >= 80 /\ e.first <= e.last /\ e.last <= 127
    /\ \A i \in DOMAIN extensions : e.first # extensions[i].first

\* An extension answers commands of its own, outside the core's.
MayExtend(e) ==
    /\ ~started /\ Len(extensions) < KMaxExtensions
    /\ e.first >= 80 /\ e.first <= e.last /\ e.last <= 127
    /\ \A i \in DOMAIN extensions : e.first > extensions[i].last \/ e.last < extensions[i].first

\* Extend: the same one twice is no error.
Extend(e) ==
    /\ Idle /\ \A i \in DOMAIN extensions : extensions[i] # e
    /\ IF MayExtend(e) THEN extensions' = Append(extensions, e) /\ UNCHANGED configurationOk
       ELSE configurationOk /\ configurationOk' = FALSE /\ UNCHANGED extensions
    /\ UNCHANGED <<decl, live, factory, started, build, served, status>>

-----------------------------------------------------------------------------
(* Rendering                                                               *)

Capped(s, n) == SubSeq(s, 1, IF Len(s) < n THEN Len(s) ELSE n)

\* AddButton, AddJack: one too many is dropped.  BuildDescriptor: fragments come from the extensions that have one.
Fragments == SelectSeq([i \in DOMAIN extensions |-> extensions[i].fragment], LAMBDA f : f # <<>>)

BuildOf(aim, room, db) ==
    [aim |-> aim, room |-> room, db |-> db, ok |-> ~db.error, n |-> 1, cw |-> NoWriter, calls |-> 0]
BuildFor(aim, room, image) ==
    BuildOf(aim, room,
            RenderBegins(room, D.managed, live, image.image, image.len,
                         Capped(D.buttons, KMaxRootButtons), Capped(D.jacks, KMaxJacks), D.manual, Fragments))

\* Start, at the first poll.
Start ==
    /\ ~started /\ Idle
    /\ started' = TRUE /\ factory' = Captured
    /\ IF D.hand # <<>> THEN served' = D.hand /\ UNCHANGED build
       ELSE build' = BuildFor("start", Room, Captured) /\ UNCHANGED served
    /\ UNCHANGED <<decl, live, extensions, configurationOk, status>>

\* RequestDescriptorRefresh; none for a descriptor made by hand.
RequestDescriptorRefresh ==
    /\ Idle /\ D.hand = <<>> /\ status # "Pending"
    /\ status' = "Pending"
    /\ UNCHANGED <<decl, live, factory, started, extensions, configurationOk, build, served>>

\* Mutant: a changed layout is described with the old image.
MayRefreshAnyLayout == D.hand = <<>> /\ factory # NotCaptured /\ ~D.overlap

\* May the descriptor be rebuilt?  Not when the layout has changed since the factory image was
\* taken, nor into a buffer that is in use.
MayRefresh ==
    /\ D.hand = <<>> /\ factory # NotCaptured
    /\ factory.len = LiveSize(D.managed) /\ factory.schema = SchemaOf(D.managed)
    /\ ~D.overlap

\* RefreshDescriptor, at the poll after the request.
RefreshDescriptor ==
    /\ started /\ Idle /\ status = "Pending"
    /\ status' = "Failed"
    /\ build' = IF MayRefresh
                THEN BuildFor("refresh", IF RefreshRoom < Room THEN RefreshRoom ELSE Room, factory)
                ELSE NoBuild
    /\ UNCHANGED <<decl, live, factory, started, extensions, configurationOk, served>>

Building    == ~Idle /\ build.ok /\ build.n <= Len(D.managed)
Component   == D.managed[build.n]
Custom      == build.n \in D.overrides \/ Component.kind = "other"
InDescriber == build.cw.i # 0

\* Go on behind a component: r is the builder, and whether the describer succeeded.
Advanced(r) == [build EXCEPT !.db = r[1], !.ok = r[2], !.n = @ + 1, !.cw = NoWriter, !.calls = 0]

OthersStand ==
    UNCHANGED <<decl, live, factory, started, extensions, configurationOk, served, status>>

\* A standard surface.
DescribeStandard ==
    /\ Building /\ ~Custom
    /\ build' = Advanced(CASE Component.kind = "pager"    -> DescribePager(build.db, build.n, D.pages)
                           [] Component.kind = "settings" -> DescribeSettings(build.db, build.n)
                           [] Component.kind = "buttons"  -> DescribeButtons(build.db, build.n)
                           [] Component.kind = "name"     -> Described(Opaque(build.db, "name", "name", build.n)))
    /\ OthersStand

\* A describer of the application is called, with a writer for its component.
CallDescriber ==
    /\ Building /\ Custom /\ ~InDescriber
    /\ build' = [build EXCEPT !.cw = ComponentWriter(build.n)]
    /\ OthersStand

DescriberCalls(c) ==
    /\ Building /\ InDescriber /\ build.calls < MaxWriterCalls
    /\ build' = LET After(u) == [build EXCEPT !.db = u.db, !.cw = u.cw, !.calls = @ + 1]
                IN  After(Called([db |-> build.db, cw |-> build.cw], c))
    /\ OthersStand

\* It returns true: the component is closed.
DescriberWrote ==
    /\ Building /\ InDescriber
    /\ build' = LET Closed(u) == Advanced(<<u.db, u.cw.ok>>)
                IN  Closed(Finalize([db |-> build.db, cw |-> build.cw]))
    /\ OthersStand

\* It returns false: without a word of its own the component is opaque bytes; half a component,
\* or an override that declines, fails the build.
DescriberDeclined ==
    /\ Building /\ InDescriber
    /\ build' = IF build.n \in D.overrides \/ build.cw.opened THEN [build EXCEPT !.ok = FALSE]
                ELSE Advanced(Described(Opaque(build.db, ComponentWriter(build.n).id, "opaque", build.n)))
    /\ OthersStand

\* A refresh publishes a whole descriptor only; the start also the one that tells of the error.
MayPublish(aim, ok) == aim = "start" \/ ok

\* Finish, and what Start and RefreshDescriptor make of it.
Publish ==
    /\ ~Idle /\ ~Building
    /\ \E db \in {IF build.ok THEN Finish(build.db) ELSE build.db} : LET ok == build.ok /\ ~db.error IN
           /\ served' = IF ~MayPublish(build.aim, ok) THEN served
                        ELSE IF ok THEN db.w.text ELSE RenderErrorDescriptor(build.room, db.err)
           /\ status' = IF build.aim = "refresh" /\ ok THEN "Succeeded" ELSE status
    /\ build' = NoBuild
    /\ UNCHANGED <<decl, live, factory, started, extensions, configurationOk>>

-----------------------------------------------------------------------------
(* The application, once the link is up                                    *)

LoadPreset ==
    /\ started /\ Idle /\ live = "F" /\ live' = "L"
    /\ UNCHANGED <<decl, factory, started, extensions, configurationOk, build, served, status>>

\* Declarations change.
Edit ==
    /\ started /\ Idle /\ decl' \in Revisions[decl]
    /\ UNCHANGED <<live, factory, started, extensions, configurationOk, build, served, status>>

HostNext ==
    \/ BootLoad \/ Start \/ \E i \in DOMAIN D.offers : Extend(D.offers[i])
    \/ RequestDescriptorRefresh \/ RefreshDescriptor
    \/ DescribeStandard \/ CallDescriber \/ DescriberWrote \/ DescriberDeclined
    \/ \E c \in WriterCalls : DescriberCalls(c)
    \/ Publish
    \/ LoadPreset \/ Edit

-----------------------------------------------------------------------------
(* What a host makes of the descriptor                                     *)

IsError(doc)     == Items(doc, "error") # {} \/ Text(doc, "error") # {}
Components(doc)  == (CHOOSE n \in {doc.items[i] : i \in DOMAIN doc.items} : n.key = "components").items
Fields(comp)     == Items(comp, "fields")
AllFields(doc)   == UNION {Fields(Components(doc)[i]) : i \in DOMAIN Components(doc)}

RECURSIVE Nodes(_)
Nodes(node) == {node} \cup UNION {Nodes(node.items[i]) : i \in DOMAIN node.items}

Ids(nodes)       == UNION {Text(n, "id") : n \in nodes}
ModalNodes(doc)  == UNION {Items(Components(doc)[i], "modal") : i \in DOMAIN Components(doc)}
FieldIds(doc)    == Ids(AllFields(doc))
EntityIds(doc)   == Ids(ModalNodes(doc) \cup Items(doc, "buttons") \cup Items(doc, "jacks")) \cup {"presets"}

\* One component after the other, as they are managed, of the sizes that the link transfers.
LaidOutAsManaged(doc, managed) ==
    /\ Text(doc, "size") = {ToString(LiveSize(managed))}
    /\ Len(Components(doc)) = Len(managed)
    /\ \A i \in DOMAIN managed :
         /\ Text(Components(doc)[i], "off") = {ToString(OffsetOf(managed, i))}
         /\ Text(Components(doc)[i], "size") = {ToString(SizeOf(managed[i]))}

\* Offsets of fields that end inside their component, or so near the end of the number range that
\* the check of GenericField wraps.
RoomFor(c, type) == {o \in 0 .. Word - 1 : o + Width(type) <= SizeOf(c) \/ o + Width(type) >= Word}

FieldsInside(doc, managed) ==
    \A i \in DOMAIN managed : \A f \in Fields(Components(doc)[i]) : \E type \in {"f32", "enum"} :
       /\ Text(f, "type") = {type}
       /\ Text(f, "off") \subseteq {ToString(o) : o \in RoomFor(managed[i], type)}

\* A field that the SDK derived defaults to what the module had before any preset was loaded.
FactoryDefaults(doc, managed) ==
    \A i \in DOMAIN managed : \A f \in Fields(Components(doc)[i]) :
       Text(f, "def") \subseteq
         {"F" \o ToString(OffsetOf(managed, i) + o) :
            o \in {p \in 0 .. SizeOf(managed[i]) : Text(f, "off") = {ToString(p)}}}

\* See and norm lead to something the host shows, anchor and controls to a field.
LinksResolve(doc) ==
    /\ \A n \in Nodes(doc) :
         /\ {s.text : s \in Items(n, "see")} \subseteq FieldIds(doc) \cup EntityIds(doc)
         /\ Text(n, "norm") \subseteq FieldIds(doc) \cup EntityIds(doc)
         /\ Text(n, "anchor") \subseteq FieldIds(doc)
         /\ UNION {Text(c, "field") : c \in Items(n, "controls")} \subseteq FieldIds(doc)

Tells(doc, d) ==
    /\ LaidOutAsManaged(doc, d.managed)
    /\ FieldsInside(doc, d.managed) /\ FactoryDefaults(doc, d.managed)
    /\ LinksResolve(doc)
    /\ d.said \subseteq {n.text : n \in Nodes(doc)}

-----------------------------------------------------------------------------
\* What is published parses.  It is the descriptor of an error, with no components, or tells the
\* truth of all that is declared: layout, fields, factory defaults, links, and no text lost
\* (Start, RefreshDescriptor, Finish, ComponentWriter).
PublishedIsTrue ==
    [][served' # served /\ D.hand = <<>> =>
         /\ ValidJsonValue(served')
         /\ \A doc \in {Doc(served')} :
               IF IsError(doc) THEN Components(doc) = <<>> ELSE Tells(doc, D)]_hostVars

\* A refresh never takes a whole descriptor away: what follows is whole, of the layout of which
\* the factory defaults were taken (RefreshDescriptor).
RefreshIsSafe ==
    [][served # <<>> /\ served' # served =>
         /\ status' = "Succeeded"
         /\ \A doc \in {Doc(served')} :
              ~IsError(doc) /\ Text(doc, "size") = {ToString(factory.len)}]_hostVars

Answered(e) == e.first .. e.last

\* A command is answered by one extension at most, and by none of the core's (Extend).
CommandsAreDisjoint ==
    \A i \in DOMAIN extensions : \A c \in Answered(extensions[i]) :
       /\ c \in 80 .. 127
       /\ {j \in DOMAIN extensions : c \in Answered(extensions[j])} = {i}

HostTypeOK ==
    /\ decl \in DOMAIN Catalogue /\ live \in {"F", "L"} /\ status \in {"Idle", "Pending", "Succeeded", "Failed"}
    /\ started => factory # NotCaptured
    /\ build # NoBuild => started /\ build.n \in 1 .. Len(D.managed) + 1
=============================================================================
