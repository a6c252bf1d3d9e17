------------------------------ MODULE MCFsUpload ------------------------------
(***************************************************************************)
(* Instances of FsUpload, FsBrowse and Host for TLC.  The three share no    *)
(* state; one run checks them: the first state says which unit runs, and   *)
(* the others stay as they start.                                          *)
(***************************************************************************)
EXTENDS FsUpload, FsBrowse, Host

-----------------------------------------------------------------------------
(* Files of two and three chunks, a checkpoint every two: an upload has a tail *)
(* that no checkpoint covers.                                                *)

Chunks2 == {1, 2}
Files3  == {<<1, 1, 1>>, <<2, 2, 2>>, <<1, 2>>}

-----------------------------------------------------------------------------
(* A card: a root with a file whose name the protocol cannot carry, one whose *)
(* name is too long, a directory, and a free slot; two names of a directory   *)
(* fit in an answer.                                                         *)

Named(fold, len, plain) == [fold |-> fold, upper |-> FALSE, staging |-> "", len |-> len, plain |-> plain]
na == Named("a", 1, TRUE)
nA == [na EXCEPT !.upper = TRUE]
nb == Named("b", 2, TRUE)
nd == Named("d", 1, TRUE)
nx == Named("x", 1, FALSE)
nl == Named("l", 4, TRUE)
AFile(n) == [name |-> n, dir |-> FALSE]

AllNames == {[n EXCEPT !.staging = s] : n \in {na, nA, nb, nd, nx, nl}, s \in {"", "part", "meta"}}
Slots    == 1 .. 6
TreeAtFirst ==
    LET root == [NoSlots EXCEPT ![1] = AFile(na), ![2] = AFile(nx), ![3] = AFile(nb),
                                ![4] = [name |-> nd, dir |-> TRUE], ![5] = AFile(nl)]
        sub  == [NoSlots EXCEPT ![1] = AFile(nb), ![3] = AFile(na)]
    IN  [d \in {<<>>, Fold(<<nd>>)} |-> IF d = <<>> THEN root ELSE sub]
SomePaths   == {<<na>>, <<nA>>, <<nd>>, <<nd, na>>, Part(<<na>>)}
Directories == {<<>>, <<nd>>}

MCNames == AllNames
MCPlaces == Slots
MCInitialTree == TreeAtFirst
MCPaths == SomePaths
MCListed == Directories

-----------------------------------------------------------------------------
(* Panels: a whole one, the same with one thing wrong, and a component that an *)
(* application describes itself.                                             *)

Hint == <<P("{"), P("}")>>
Torn == <<P("{"), P("[")>>

\* "sound" is a panel without a fault, "spare" another that differs in its prose only.
Faults == {"sound", "spare", "seeNobody", "seeMany", "seeGone", "torn", "gesture", "bank", "noJack",
           "normGone", "anchorJack", "anchorSelf", "sections", "noBody", "controlsJack", "labels",
           "manyFields", "manyJacks", "manyButtons", "manyIds", "layout", "long"}

Cutoff(o) ==
    LET k == Labels(SelectorKnob(Help(Ident(VirtualKnob(0), "cutoff"), "opens"), 2), 2)
    IN  CASE o = "torn"    -> Disp(k, Torn)
          [] o = "seeMany" -> SeeAlso(SeeAlso(SeeAlso(k, SeeRaw("in")), SeeRaw("mode")), SeeRaw("out"))
          [] OTHER         -> k

Wave(o) ==
    LET b == Anchor(Help(Hold(Tap(Selector(VirtualButton(1, Null), 2), "Cycle"), "Reset"), "forms"),
                    CASE o = "anchorJack" -> "in" [] o = "anchorSelf" -> "b1" [] OTHER -> "cutoff")
    IN  IF o = "gesture" THEN GestureHelp(b, "twice", "turns") ELSE GestureHelp(b, "hold", "turns")

Plays == SeeAlso(TapCall(VirtualButton(2, "play")), SeeButton(VirtualButton(1, Null)))

\* A button of the host only: it has no gestures to show.
Remote == Selector(VirtualButton(NoHw, "remote"), 2)

Bank(o) == [kind |-> "buttons", ok |-> o # "bank", modal |-> <<Plays>> \o (IF o = "manyIds" THEN <<VirtualButton(4, Null)>> ELSE <<>>),
            cells |-> IF o = "manyFields" THEN <<Wave(o), Remote, Selector(VirtualButton(3, Null), 2)>>
                      ELSE <<Wave(o), Remote>>]

Slot(kind, zones, labels) ==
    [kind |-> kind, zones |-> zones, labels |-> labels, ident |-> Null, help |-> Null,
     see |-> <<>>, seeOver |-> FALSE]

Setup(o) == [kind |-> "settings", help |-> <<"tunes">>,
             slots |-> <<Slot("Brightness", 0, 0), Slot("PresetSlot", 0, 0),
                         Ident(Slot("Selector", 2, IF o = "labels" THEN 1 ELSE 2), "mode")>>]

Input(o) == LET j == SeeAlso(Normalled(Help(Jack(IF o = "noJack" THEN Null ELSE "in"), "hears"),
                                       Jack(IF o = "normGone" THEN "gone" ELSE "out")),
                             CASE o = "seeNobody" -> SeeKnob(VirtualKnob(1))
                               [] o = "seeGone"   -> SeeRaw("gone")
                               [] OTHER           -> SeeSlot(Setup(o).slots[3]))
            IN  j

Freeze(o) == Controls(Controls(GestureHelp(Action(VirtualButton(NoHw, "freeze"), "shake"), "shake", "holds"),
                               "mode"), IF o = "controlsJack" THEN "out" ELSE "remote")

Story(o) ==
    LET m == Section(PresetsHelp(Preamble(Manual, "begins"), "keeps"), "s1", IF o = "noBody" THEN Null ELSE "tells")
    IN  CASE o = "sections" -> Section(Section(m, "s2", "more"), "s3", "lost")
          [] o = "long"     -> Section(m, "s2", "more")
          [] OTHER          -> m

Panel(o) ==
    [managed   |-> <<[kind |-> "pager", pages |-> 1, pots |-> 2], Setup(o),
                     [kind |-> "name", size |-> IF o = "layout" THEN 3 ELSE 2], Bank(o)>>,
     overrides |-> {},
     pages     |-> <<[HidePot(PageButton(PageKnob(PageKnob(Page(0), Cutoff(o)), Cutoff(o)), Wave(o)), 1)
                        EXCEPT !.help = IF o = "spare" THEN "reads" ELSE "shows"]>>,
     buttons   |-> <<Freeze(o)>> \o (IF o = "manyButtons" THEN <<Remote>> ELSE <<>>),
     jacks     |-> <<Input(o), Jack("out")>> \o (IF o = "manyJacks" THEN <<Jack("aux")>> ELSE <<>>),
     manual    |-> Story(o),
     offers    |-> IF o # "spare" THEN <<>>
                   ELSE <<[first |-> 80, last |-> 81, fragment |-> <<S("fs"), P(":"), True>>],
                          [first |-> 82, last |-> 82, fragment |-> <<>>],
                          [first |-> 81, last |-> 83, fragment |-> <<>>],
                          [first |-> 79, last |-> 79, fragment |-> <<>>],
                          [first |-> 84, last |-> 85, fragment |-> Torn]>>,
     overlap   |-> FALSE, hand |-> <<>>,
     said      |-> {"opens", "forms", "turns", "tunes", "hears", "holds", "begins", "keeps", "tells",
                    IF o = "spare" THEN "reads" ELSE "shows",
                    "cutoff", "b1", "mode", "remote", "in", "out"}
                   \cup (IF o \in {"long", "sections"} THEN {"more"} ELSE {})
                   \cup (IF o = "sections" THEN {"lost"} ELSE {})]

\* A component that the application describes, in a buffer that overlaps another; a standard one
\* that it describes itself; a text made by hand.
Own(o) ==
    [managed |-> <<IF o = "mine" THEN [kind |-> "name", size |-> 2] ELSE [kind |-> "other", size |-> 5]>>,
     overrides |-> IF o = "mine" THEN {1} ELSE {}, pages |-> <<>>, buttons |-> <<>>,
     jacks |-> <<>>, manual |-> Manual, offers |-> <<>>, overlap |-> o = "own",
     hand |-> IF o = "hand" THEN Hint ELSE <<>>, said |-> {}]

Owns == {"own", "mine", "hand"}

Panels == [o \in Faults |-> Panel(o)] @@ [o \in Owns |-> Own(o)]

\* TLC evaluates Panels once, and what a cfg puts for a constant at every use.
MCCatalogue == Panels

\* A panel comes to have a fault, or is freed of it.
MCRevisions == [o \in Faults \ {"sound"} |-> {"sound"}] @@ ("sound" :> Faults \ {"sound"})
               @@ [o \in Owns |-> {}]

Field(id, off, type, zones, disp, see) ==
    [op |-> "Field", field |-> [id |-> id, off |-> off, type |-> type, zones |-> zones, disp |-> disp,
                                help |-> Null, see |-> see]]

MCWriterCalls ==
    {Field("f", 0, "f32", 0, Hint, <<>>), Field("g", 1, "enum", 2, Hint, <<SeeRaw("f")>>),
     Field("g", 0, "enum", 0, Hint, <<>>), Field("h", 2, "f32", 0, Hint, <<>>),
     Field("h", Word - 1, "f32", 0, Hint, <<>>), Field("h", 0, "enum", 1, Torn, <<>>),
     Field(Null, 0, "enum", 2, Hint, <<>>),
     [op |-> "Ident", id |-> "mine"], [op |-> "Grid", grid |-> <<1, 2>>],
     [op |-> "Meta", id |-> "k", json |-> Hint], [op |-> "Meta", id |-> "k", json |-> Torn]}

-----------------------------------------------------------------------------
VARIABLE unit

deviceVars == <<unit, vars, browseVars, hostVars>>

DeviceInit ==
    /\ unit \in {"files", "directories", "descriptor"}
    /\ Init /\ BrowseInit /\ HostInit
    /\ unit # "descriptor" => decl = "sound"

Transfer == unit = "files" /\ Next /\ UNCHANGED <<unit, browseVars, hostVars>>
Browse   == unit = "directories" /\ BrowseNext /\ UNCHANGED <<unit, vars, hostVars>>
Describe == unit = "descriptor" /\ HostNext /\ UNCHANGED <<unit, vars, browseVars>>

DeviceNext == Transfer \/ Browse \/ Describe
DeviceSpec == DeviceInit /\ [][DeviceNext]_deviceVars
-----------------------------------------------------------------------------
\* A listing tells of what is there, once, and gets on; and the tree under it stays sound, the files
\* that are locked or in transfer with it (OnList, OnRename, CollidesWithTransfer).
DirectoriesAreTrue ==
    [](unit = "directories" => BrowseTypeOK /\ TreeIsSound /\ ListingWhole) /\ ListingAdvances /\ HeldStand

\* What the host is told is the declaration, a refresh harms neither it nor its layout, and no two
\* extensions answer the same command (BuildDescriptor, RefreshDescriptor, Extend).
DescriptorIsTrue ==
    [](unit = "descriptor" => HostTypeOK /\ CommandsAreDisjoint) /\ RefreshIsSafe /\ PublishedIsTrue
=============================================================================
