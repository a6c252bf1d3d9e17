--------------------------- MODULE Surface_proofs ---------------------------
(***************************************************************************)
(* Theorems about Pager, for every panel: any number of pages, pots and    *)
(* bindings, and any calls from the other surfaces; about Surface, the     *)
(* button bank and the pager on the same buttons, for any declared         *)
(* buttons, their zones and gestures; about the lights: the indicators for *)
(* clipping and the beat and the rings, for any length of arc, any layout, *)
(* fill, selector and pip; and about the panel that they make up.          *)
(***************************************************************************)
EXTENDS MCSurface, WellFoundedInduction, SequenceTheorems, FiniteSetTheorems, TLAPS

\* What the proofs need to know of a panel.
LEMMA Panel ==
  /\ Bindings \subseteq Nat /\ Pages \subseteq Nat /\ 0 \in Pages
  /\ \A b \in Bindings : b + 1 \in 1 .. NumBindings + 1
  /\ 1 \in 1 .. NumBindings + 1
  /\ NumPages \in Nat \ {0} /\ \A k \in 1 .. NumPages : k - 1 \in Pages
  /\ NumBindings \in Nat
  /\ List \in [Bindings -> Seq(Pages)]
  /\ Layer \in [Bindings -> Pages]
  /\ \A b \in Bindings : Pair[b][1] \in Pages /\ Pair[b][2] \in Pages
  /\ From \in [Bindings -> SUBSET Pages]
  /\ Shifts \subseteq Bindings /\ Latches \subseteq Bindings
  /\ Positions \subseteq Int /\ Default \in Positions
  /\ None \notin Bindings /\ None \notin Positions
BY PagerAssumption, SMTT(30) DEF PagerAssumption, Bindings, Pages, Shifts, Latches

-----------------------------------------------------------------------------
(***************************************************************************)
(* The helpers.                                                            *)
(***************************************************************************)

\* A non-empty set of numbers has a first one, and First finds it.
LEMMA FirstIsLeast ==
  ASSUME NEW S \in SUBSET Nat, S # {}
  PROVE  First(S) \in S /\ \A k \in S : First(S) <= k
<1>. DEFINE R == {ss \in Nat \X Nat : ss[1] < ss[2]}
<1>1. IsWellFoundedOn(R, Nat)
  BY NatLessThanWellFounded DEF OpToRel
<1>2. PICK x \in S : \A y \in S : <<y, x>> \notin R
  <2>. HIDE DEF R
  <2>. QED  BY <1>1, WFMin
<1>3. ASSUME NEW y \in S PROVE x <= y
  <2>1. x \in Nat /\ y \in Nat
    OBVIOUS
  <2>2. ~(<<y, x>>[1] < <<y, x>>[2])
    BY <1>2, <2>1
  <2>. QED
    BY <2>1, <2>2
<1>. QED
  BY <1>3 DEF First

\* With one layer at most, Overlay is that layer.
LEMMA OverlayOfOne ==
  ASSUME NEW b \in Bindings, active = {b}
  PROVE  Overlay = b
<1>1. {b} \in SUBSET Nat /\ {b} # {}
  BY Panel
<1>2. First({b}) \in {b}
  BY <1>1, FirstIsLeast
<1>. QED
  BY <1>2 DEF Overlay

\* Catch keeps a pot a pot.
LEMMA CatchTypes ==
  ASSUME NEW s \in Pot, NEW x \in Positions
  PROVE  InitCatch(s, x) \in Pot /\ UpdateCatch(s, x) \in Pot
BY Panel DEF Pot, InitCatch, UpdateCatch, SideOf

LEMMA LockedType ==
  ASSUME NEW ps \in [Pages -> Row], NEW pgs, phys \in [Pots -> Positions]
  PROVE  Locked(ps, pgs) \in [Pages -> Row]
BY CatchTypes DEF Locked, Row

LEMMA SnapshotType ==
  ASSUME NEW row \in Row
  PROVE  Snapshot(row) \in [Pots -> Positions \cup {None}]
BY DEF Snapshot, Row, Pot

LEMMA SyncedType ==
  ASSUME NEW pg, sel \in [Bindings -> {1, 2}]
  PROVE  Synced(pg) \in [Bindings -> {1, 2}]
BY DEF Synced

\* A cycle has entries, and the next one is a page.
LEMMA EntriesType ==
  ASSUME NEW b \in Bindings
  PROVE  Entries(b) \in Seq(Pages) /\ Len(Entries(b)) \in Nat \ {0}
<1>1. CASE List[b] = << >>
  <2>1. Entries(b) = [k \in 1 .. NumPages |-> k - 1]
    BY <1>1 DEF Entries
  <2>2. Entries(b) \in [1 .. NumPages -> Pages]
    BY <2>1, Panel
  <2>3. QED
    BY <2>2, Panel
<1>2. CASE List[b] # << >>
  <2>1. Entries(b) = List[b] /\ List[b] \in Seq(Pages)
    BY <1>2, Panel DEF Entries
  <2>2. Len(List[b]) # 0
    BY <1>2, <2>1, EmptySeq
  <2>3. QED
    BY <2>1, <2>2, LenProperties
<1>. QED
  BY <1>1, <1>2

LEMMA NextEntryType ==
  ASSUME NEW b \in Bindings
  PROVE  NextEntry(b) \in Pages
<1>. DEFINE es == Entries(b)
            n == Len(es)
            here == {k \in 1 .. n : SameSlot(es[k], page)}
            pos == IF here = {} THEN 0 ELSE First(here)
            Ahead(k) == es[((pos + k - 1) % n) + 1]
            away == {k \in 1 .. n : ~SameSlot(Ahead(k), page)}
<1>1. es \in Seq(Pages) /\ n \in Nat \ {0}
  BY EntriesType
<1>2. here \subseteq 1 .. n /\ away \subseteq 1 .. n /\ 1 .. n \subseteq Nat
  OBVIOUS
<1>3. pos \in Nat
  <2>. HIDE DEF here
  <2>1. CASE here = {}
    BY <2>1
  <2>2. CASE here # {}
    BY <1>2, <2>2, FirstIsLeast
  <2>. QED  BY <2>1, <2>2
<1>4. (IF away = {} THEN 1 ELSE First(away)) \in Nat \ {0}
  <2>. HIDE DEF away
  <2>1. CASE away = {}
    BY <2>1
  <2>2. CASE away # {}
    <3>1. First(away) \in away
      BY <1>2, <2>2, FirstIsLeast
    <3>2. First(away) \in 1 .. n
      BY <1>2, <3>1
    <3>. QED  BY <2>2, <3>2
  <2>. QED  BY <2>1, <2>2
<1>5. \A k \in Nat \ {0} : Ahead(k) \in Pages
  <2>. SUFFICES ASSUME NEW k \in Nat \ {0} PROVE Ahead(k) \in Pages
    OBVIOUS
  <2>. HIDE DEF es, pos
  <2>1. pos + k - 1 \in Nat
    BY <1>3
  <2>2. (pos + k - 1) % n \in 0 .. n - 1
    BY <1>1, <2>1
  <2>3. ((pos + k - 1) % n) + 1 \in 1 .. n
    BY <1>1, <2>2
  <2>. QED
    BY <1>1, <2>3
<1>6. NextEntry(b) = Ahead(IF away = {} THEN 1 ELSE First(away))
  BY DEF NextEntry
<1>. QED
  <2>. HIDE DEF Ahead, away
  <2>. QED  BY <1>4, <1>5, <1>6

LEMMA ResolveLatchType ==
  ASSUME NEW pg \in Pages, sel \in [Bindings -> {1, 2}]
  PROVE  ResolveLatch(pg) \in Pages
<1>1. CASE \E L \in Latches : InPair(L, pg)
  <2>. DEFINE M == CHOOSE l \in Latches : InPair(l, pg)
  <2>1. M \in Latches
    BY <1>1
  <2>2. ResolveLatch(pg) = Pair[M][sel[M]]
    BY <1>1 DEF ResolveLatch
  <2>. HIDE DEF M
  <2>3. sel[M] \in {1, 2} /\ M \in Bindings
    BY <2>1, Panel
  <2>. QED
    BY <2>2, <2>3, Panel
<1>2. CASE ~\E L \in Latches : InPair(L, pg)
  BY <1>2 DEF ResolveLatch
<1>. QED
  BY <1>1, <1>2

-----------------------------------------------------------------------------
(***************************************************************************)
(* Types and layers.                                                       *)
(***************************************************************************)

\* Settings and a frame of the pager exclude each other.
LayerInv ==
  /\ LayerIsShown
  /\ GateShutsLayers
  /\ phase # "poll" => ~gated

LEMMA TypesAndLayersInit == Init => TypeOK /\ LayerInv
<1>. SUFFICES ASSUME Init PROVE TypeOK /\ LayerInv
  OBVIOUS
<1>1. pots \in [Pages -> Row]
  <2>1. [stored |-> Default, caught |-> TRUE, sign |-> 0] \in Pot
    BY Panel DEF Pot
  <2>. QED
    BY <2>1 DEF Init, Row
<1>2. sel \in [Bindings -> {1, 2}]
  BY DEF Init
<1>3. phys \in [Pots -> Positions] /\ lastPhys \in [Pots -> Positions]
  BY Panel DEF Init
<1>4. ret \in [Bindings -> Pages] /\ engaged \in [Pots -> Positions \cup {None}]
  BY Panel DEF Init
<1>5. next \in 1 .. NumBindings + 1
  BY Panel DEF Init
<1>6. TypeOK
  BY <1>1, <1>2, <1>3, <1>4, <1>5, Panel DEF Init, TypeOK
<1>. QED
  BY <1>6 DEF Init, LayerInv, LayerIsShown, GateShutsLayers

LEMMA OverlayIsActive ==
  ASSUME TypeOK, LayerInv, active # {}
  PROVE  Overlay \in active /\ active = {Overlay}
<1>1. PICK b \in active : TRUE
  OBVIOUS
<1>2. active = {b} /\ b \in Bindings
  <2>1. \A c \in active : c = b
    BY DEF LayerInv, LayerIsShown
  <2>2. b \in Bindings
    BY Panel DEF TypeOK
  <2>. QED
    BY <2>1, <2>2
<1>. QED
  BY <1>2, OverlayOfOne

LEMMA OverlayType ==
  ASSUME TypeOK, LayerInv
  PROVE  /\ Overlay \in active \cup {None} /\ Overlay \in Shifts \cup {None}
         /\ Overlay # None => Overlay \in active
<1>1. CASE active = {}
  BY <1>1 DEF Overlay
<1>2. CASE active # {}
  BY <1>2, OverlayIsActive DEF TypeOK
<1>. QED
  BY <1>1, <1>2

\* What engaging a layer writes is well typed.
LEMMA EngageTypes ==
  ASSUME TypeOK, NEW b \in Shifts, NEW pg \in Pages, NEW ps \in [Pages -> Row],
         EngageShift(b, pg, ps)
  PROVE  /\ ret' \in [Bindings -> Pages] /\ sel' \in [Bindings -> {1, 2}] /\ page' \in Pages
         /\ pots' \in [Pages -> Row]
         /\ engaged' \in [Pots -> Positions \cup {None}]
         /\ active' \subseteq Shifts /\ lingering' \subseteq Shifts
         /\ used' \subseteq Shifts /\ edited' \subseteq Shifts
<1>1. b \in Bindings /\ Layer[b] \in Pages
  BY Panel
<1>2. pots' \in [Pages -> Row]
  BY LockedType DEF EngageShift, TypeOK
<1>3. pots'[Layer[b]] \in Row
  BY <1>1, <1>2
<1>4. engaged' \in [Pots -> Positions \cup {None}]
  BY <1>3, SnapshotType DEF EngageShift
<1>5. sel' \in [Bindings -> {1, 2}]
  BY SyncedType DEF EngageShift, TypeOK
<1>. QED
  BY <1>1, <1>2, <1>4, <1>5 DEF EngageShift, TypeOK

LEMMA TypesAndLayersStep ==
  ASSUME TypeOK, LayerInv, [Next]_vars
  PROVE  TypeOK' /\ LayerInv'
<1>. USE OverlayIsActive
<1>1. ASSUME NEW d \in SUBSET Bindings, PollGateRises(d)
      PROVE  TypeOK' /\ LayerInv'
  <2>1. TypeOK'
    BY <1>1, Panel DEF PollGateRises, AbortOverlays, TypeOK, vars, buttons, layers, view, catching, frame
  <2>2. LayerInv'
    BY <1>1, Panel DEF PollGateRises, AbortOverlays, TypeOK, LayerInv, LayerIsShown, GateShutsLayers, vars, buttons, layers, view, catching, frame
  <2>. QED
    BY <2>1, <2>2
<1>2. ASSUME NEW d \in SUBSET Bindings, NEW g \in BOOLEAN, PollGated(d, g)
      PROVE  TypeOK' /\ LayerInv'
  <2>1. TypeOK'
    BY <1>2, Panel DEF PollGated, TypeOK, vars, buttons, layers, view, catching, frame
  <2>2. LayerInv'
    BY <1>2, Panel DEF PollGated, TypeOK, LayerInv, LayerIsShown, GateShutsLayers, vars, buttons, layers, view, catching, frame
  <2>. QED
    BY <2>1, <2>2
<1>3. ASSUME NEW d \in SUBSET Bindings, PollChord(d)
      PROVE  TypeOK' /\ LayerInv'
  <2>1. TypeOK'
    BY <1>3, Panel DEF PollChord, AbortOverlays, TypeOK, vars, buttons, layers, view, catching, frame
  <2>2. LayerInv'
    BY <1>3, Panel DEF PollChord, AbortOverlays, TypeOK, LayerInv, LayerIsShown, GateShutsLayers, vars, buttons, layers, view, catching, frame
  <2>. QED
    BY <2>1, <2>2
<1>4. ASSUME NEW d \in SUBSET Bindings, Poll(d)
      PROVE  TypeOK' /\ LayerInv'
  <2>1. TypeOK'
    BY <1>4, Panel DEF Poll, TypeOK, vars, buttons, layers, view, catching, frame
  <2>2. LayerInv'
    BY <1>4, Panel DEF Poll, TypeOK, LayerInv, LayerIsShown, GateShutsLayers, vars, buttons, layers, view, catching, frame
  <2>. QED
    BY <2>1, <2>2
<1>5. ASSUME RetainPage
      PROVE  TypeOK' /\ LayerInv'
  <2>1. TypeOK'
    BY <1>5, Panel, OverlayType DEF RetainPage, LocksCalling, TypeOK, vars, buttons, layers, view, catching, frame
  <2>2. LayerInv'
    BY <1>5, Panel, OverlayType DEF RetainPage, LocksCalling, TypeOK, LayerInv, LayerIsShown, GateShutsLayers, vars, buttons, layers, view, catching, frame
  <2>. QED
    BY <2>1, <2>2
<1>6. ASSUME ReleasePage
      PROVE  TypeOK' /\ LayerInv'
  <2>1. TypeOK'
    BY <1>6, Panel DEF ReleasePage, LocksCalling, TypeOK, vars, buttons, layers, view, catching, frame
  <2>2. LayerInv'
    BY <1>6, Panel DEF ReleasePage, LocksCalling, TypeOK, LayerInv, LayerIsShown, GateShutsLayers, vars, buttons, layers, view, catching, frame
  <2>. QED
    BY <2>1, <2>2
<1>7. ASSUME ConsumeButton
      PROVE  TypeOK' /\ LayerInv'
  <2>1. TypeOK'
    BY <1>7, Panel DEF ConsumeButton, LocksCalling, Calling, TypeOK, vars, buttons, layers, view, catching, frame
  <2>2. LayerInv'
    BY <1>7, Panel DEF ConsumeButton, LocksCalling, Calling, TypeOK, LayerInv, LayerIsShown, GateShutsLayers, vars, buttons, layers, view, catching, frame
  <2>. QED
    BY <2>1, <2>2
<1>8. ASSUME NEW pg \in Pages, GoToPage(pg)
      PROVE  TypeOK' /\ LayerInv'
  <2>1. TypeOK'
    BY <1>8, Panel, SyncedType, LockedType DEF GoToPage, Calling, TypeOK, vars, buttons, layers, view, catching, frame
  <2>2. LayerInv'
    BY <1>8, Panel DEF GoToPage, Calling, TypeOK, LayerInv, LayerIsShown, GateShutsLayers, vars, buttons, layers, view, catching, frame
  <2>. QED
    BY <2>1, <2>2
<1>9. ASSUME NEW pg \in Pages, NEW p \in Pots, NEW x \in Positions, SetStored(pg, p, x)
      PROVE  TypeOK' /\ LayerInv'
  <2>3. \A s \in Pot : InitCatch([s EXCEPT !.stored = x], phys[p]) \in Pot
    BY CatchTypes DEF TypeOK, Pot
  <2>4. pots' \in [Pages -> Row]
    <3>1. pots \in [Pages -> [Pots -> Pot]]
      BY DEF TypeOK, Row
    <3>2. pots' = [pots EXCEPT ![pg][p] = InitCatch([pots[pg][p] EXCEPT !.stored = x], phys[p])]
      BY <1>9 DEF SetStored
    <3>. QED
      BY <2>3, <3>1, <3>2 DEF Row
  <2>1. TypeOK'
    BY <1>9, <2>4, Panel DEF SetStored, LocksCalling, TypeOK, vars, buttons, layers, view, catching, frame
  <2>2. LayerInv'
    BY <1>9, Panel DEF SetStored, LocksCalling, Row, Pot, TypeOK, LayerInv, LayerIsShown, GateShutsLayers, vars, buttons, layers, view, catching, frame
  <2>. QED
    BY <2>1, <2>2
<1>10. ASSUME NEW value \in [Pages -> [Pots -> Positions]], Deserialize(value)
      PROVE  TypeOK' /\ LayerInv'
  <2>4. pots' \in [Pages -> Row]
    BY <1>10 DEF Deserialize, Row, Pot
  <2>1. TypeOK'
    BY <1>10, <2>4, Panel DEF Deserialize, Calling, TypeOK, vars, buttons, layers, view, catching, frame
  <2>2. LayerInv'
    BY <1>10, Panel DEF Deserialize, Calling, Row, Pot, TypeOK, LayerInv, LayerIsShown, GateShutsLayers, vars, buttons, layers, view, catching, frame
  <2>. QED
    BY <2>1, <2>2
<1>11. ASSUME NEW x \in [Pots -> Positions], FrameInSettings(x)
      PROVE  TypeOK' /\ LayerInv'
  <2>1. TypeOK'
    BY <1>11, Panel DEF FrameInSettings, TypeOK, vars, buttons, layers, view, catching, frame
  <2>2. LayerInv'
    BY <1>11, Panel DEF FrameInSettings, TypeOK, LayerInv, LayerIsShown, GateShutsLayers, vars, buttons, layers, view, catching, frame
  <2>. QED
    BY <2>1, <2>2
<1>12. ASSUME NEW x \in [Pots -> Positions], Frame(x)
      PROVE  TypeOK' /\ LayerInv'
  <2>1. TypeOK'
    BY <1>12, Panel, CatchTypes, ZenonT(60) DEF Frame, Row, TypeOK, vars, buttons, layers, view, catching, frame
  <2>2. LayerInv'
    BY <1>12, Panel DEF Frame, Row, TypeOK, LayerInv, LayerIsShown, GateShutsLayers, vars, buttons, layers, view, catching, frame
  <2>. QED
    BY <2>1, <2>2
<1>13. ASSUME BeginUpdate
      PROVE  TypeOK' /\ LayerInv'
  <2>4. pots' \in [Pages -> Row] /\ pots'[page] \in Row
    BY <1>13, LockedType DEF BeginUpdate, TypeOK
  <2>5. engaged' \in [Pots -> Positions \cup {None}]
    BY <1>13, <2>4, SnapshotType DEF BeginUpdate, TypeOK
  <2>6. next' \in 1 .. NumBindings + 1
    BY <1>13, Panel DEF BeginUpdate
  <2>1. TypeOK'
    BY <1>13, <2>4, <2>5, <2>6, Panel, ZenonT(60) DEF BeginUpdate, TypeOK, vars, buttons, layers, view, catching, frame
  <2>2. LayerInv'
    BY <1>13, Panel DEF BeginUpdate, TypeOK, LayerInv, LayerIsShown, GateShutsLayers, vars, buttons, layers, view, catching, frame
  <2>. QED
    BY <2>1, <2>2
<1>14. ASSUME NEW b \in Bindings, NavNothing(b)
      PROVE  TypeOK' /\ LayerInv'
  <2>1. TypeOK'
    BY <1>14, Panel DEF NavNothing, Taken, KeepLayers, KeepView, TypeOK, vars, buttons, layers, view, catching, frame
  <2>2. LayerInv'
    BY <1>14, Panel DEF NavNothing, Taken, KeepLayers, KeepView, TypeOK, LayerInv, LayerIsShown, GateShutsLayers, vars, buttons, layers, view, catching, frame
  <2>. QED
    BY <2>1, <2>2
<1>15. ASSUME NEW b \in Bindings, ShiftEngages(b)
      PROVE  TypeOK' /\ LayerInv'
  <2>4. b \in Shifts /\ page \in Pages /\ pots \in [Pages -> Row]
    BY <1>15 DEF ShiftEngages, TypeOK
  <2>1. TypeOK'
    BY <1>15, <2>4, Panel, EngageTypes DEF ShiftEngages, Taken, TypeOK, vars, buttons, layers, view, catching, frame
  <2>2. LayerInv'
    BY <1>15, Panel DEF ShiftEngages, Taken, MayEngage, EngageShift, TypeOK, LayerInv, LayerIsShown, GateShutsLayers, vars, buttons, layers, view, catching, frame
  <2>. QED
    BY <2>1, <2>2
<1>16. ASSUME NEW b \in Bindings, ShiftStaysIdle(b)
      PROVE  TypeOK' /\ LayerInv'
  <2>1. TypeOK'
    BY <1>16, Panel DEF ShiftStaysIdle, Taken, KeepLayers, KeepView, TypeOK, vars, buttons, layers, view, catching, frame
  <2>2. LayerInv'
    BY <1>16, Panel DEF ShiftStaysIdle, Taken, KeepLayers, KeepView, TypeOK, LayerInv, LayerIsShown, GateShutsLayers, vars, buttons, layers, view, catching, frame
  <2>. QED
    BY <2>1, <2>2
<1>17. ASSUME NEW b \in Bindings, ShiftResumes(b)
      PROVE  TypeOK' /\ LayerInv'
  <2>1. TypeOK'
    BY <1>17, Panel DEF ShiftResumes, Taken, ReleaseLiftsPoison, KeepView, TypeOK, vars, buttons, layers, view, catching, frame
  <2>2. LayerInv'
    BY <1>17, Panel DEF ShiftResumes, Taken, ReleaseLiftsPoison, KeepView, TypeOK, LayerInv, LayerIsShown, GateShutsLayers, vars, buttons, layers, view, catching, frame
  <2>. QED
    BY <2>1, <2>2
<1>18. ASSUME NEW b \in Bindings, ShiftResumesAndExits(b)
      PROVE  TypeOK' /\ LayerInv'
  <2>1. TypeOK'
    BY <1>18, Panel, LockedType DEF ShiftResumesAndExits, Taken, ReleaseLiftsPoison, ExitShift, TypeOK, vars, buttons, layers, view, catching, frame
  <2>2. LayerInv'
    BY <1>18, Panel DEF ShiftResumesAndExits, Taken, ReleaseLiftsPoison, ExitShift, TypeOK, LayerInv, LayerIsShown, GateShutsLayers, vars, buttons, layers, view, catching, frame
  <2>. QED
    BY <2>1, <2>2
<1>19. ASSUME NEW b \in Bindings, ShiftLingers(b)
      PROVE  TypeOK' /\ LayerInv'
  <2>1. TypeOK'
    BY <1>19, Panel DEF ShiftLingers, Taken, ReleaseLiftsPoison, KeepView, TypeOK, vars, buttons, layers, view, catching, frame
  <2>2. LayerInv'
    BY <1>19, Panel DEF ShiftLingers, Taken, ReleaseLiftsPoison, KeepView, TypeOK, LayerInv, LayerIsShown, GateShutsLayers, vars, buttons, layers, view, catching, frame
  <2>. QED
    BY <2>1, <2>2
<1>20. ASSUME NEW b \in Bindings, ShiftExits(b)
      PROVE  TypeOK' /\ LayerInv'
  <2>1. TypeOK'
    BY <1>20, Panel, LockedType DEF ShiftExits, Taken, ReleaseLiftsPoison, ExitShift, TypeOK, vars, buttons, layers, view, catching, frame
  <2>2. LayerInv'
    BY <1>20, Panel DEF ShiftExits, Taken, ReleaseLiftsPoison, ExitShift, TypeOK, LayerInv, LayerIsShown, GateShutsLayers, vars, buttons, layers, view, catching, frame
  <2>. QED
    BY <2>1, <2>2
<1>21. ASSUME NEW b \in Bindings, ShiftReengages(b)
      PROVE  TypeOK' /\ LayerInv'
  <2>4. b \in Shifts /\ ret[b] \in Pages /\ Locked(pots, {ret[b]}) \in [Pages -> Row]
    BY <1>21, LockedType DEF ShiftReengages, TypeOK
  <2>1. TypeOK'
    BY <1>21, <2>4, Panel, EngageTypes DEF ShiftReengages, Taken, ReleaseLiftsPoison, TypeOK, vars, buttons, layers, view, catching, frame
  <2>2. LayerInv'
    BY <1>21, Panel DEF ShiftReengages, Taken, ReleaseLiftsPoison, EngageShift, TypeOK, LayerInv, LayerIsShown, GateShutsLayers, vars, buttons, layers, view, catching, frame
  <2>. QED
    BY <2>1, <2>2
<1>22. ASSUME NEW b \in Bindings, DoCycle(b)
      PROVE  TypeOK' /\ LayerInv'
  <2>1. TypeOK'
    BY <1>22, Panel, LockedType, SyncedType, NextEntryType, ResolveLatchType DEF DoCycle, Taken, CleanRelease, Go, KeepLayers, TypeOK, vars, buttons, layers, view, catching, frame
  <2>2. LayerInv'
    BY <1>22, Panel DEF DoCycle, Taken, CleanRelease, Go, KeepLayers, TypeOK, LayerInv, LayerIsShown, GateShutsLayers, vars, buttons, layers, view, catching, frame
  <2>. QED
    BY <2>1, <2>2
<1>23. ASSUME NEW b \in Bindings, DoLatch(b)
      PROVE  TypeOK' /\ LayerInv'
  <2>1. TypeOK'
    BY <1>23, Panel, LockedType, SyncedType DEF DoLatch, Taken, CleanRelease, Go, KeepLayers, TypeOK, vars, buttons, layers, view, catching, frame
  <2>2. LayerInv'
    BY <1>23, Panel DEF DoLatch, Taken, CleanRelease, Go, KeepLayers, TypeOK, LayerInv, LayerIsShown, GateShutsLayers, vars, buttons, layers, view, catching, frame
  <2>. QED
    BY <2>1, <2>2
<1>24. ASSUME NEW b \in Bindings, NavIgnored(b)
      PROVE  TypeOK' /\ LayerInv'
  <2>1. TypeOK'
    BY <1>24, Panel DEF NavIgnored, Taken, ReleaseLiftsPoison, KeepLayers, KeepView, TypeOK, vars, buttons, layers, view, catching, frame
  <2>2. LayerInv'
    BY <1>24, Panel DEF NavIgnored, Taken, ReleaseLiftsPoison, KeepLayers, KeepView, TypeOK, LayerInv, LayerIsShown, GateShutsLayers, vars, buttons, layers, view, catching, frame
  <2>. QED
    BY <2>1, <2>2
<1>25. ASSUME NavDone
      PROVE  TypeOK' /\ LayerInv'
  <2>0. next' \in 1 .. NumBindings + 1 /\ phase' = "exits"
    BY <1>25, Panel DEF NavDone
  <2>1. TypeOK'
    BY <1>25, <2>0 DEF NavDone, TypeOK, vars, buttons, layers, view, catching, frame
  <2>2. LayerInv'
    BY <1>25, Panel DEF NavDone, TypeOK, LayerInv, LayerIsShown, GateShutsLayers, vars, buttons, layers, view, catching, frame
  <2>. QED
    BY <2>1, <2>2
<1>26. ASSUME NEW b \in Shifts, DeferredExit(b)
      PROVE  TypeOK' /\ LayerInv'
  <2>1. TypeOK'
    BY <1>26, Panel, LockedType DEF DeferredExit, ExitShift, Overdue, TypeOK, vars, buttons, layers, view, catching, frame
  <2>2. LayerInv'
    BY <1>26, Panel DEF DeferredExit, ExitShift, Overdue, TypeOK, LayerInv, LayerIsShown, GateShutsLayers, vars, buttons, layers, view, catching, frame
  <2>. QED
    BY <2>1, <2>2
<1>27. ASSUME NoMoreExits
      PROVE  TypeOK' /\ LayerInv'
  <2>1. TypeOK'
    BY <1>27, Panel DEF NoMoreExits, TypeOK, vars, buttons, layers, view, catching, frame
  <2>2. LayerInv'
    BY <1>27, Panel DEF NoMoreExits, TypeOK, LayerInv, LayerIsShown, GateShutsLayers, vars, buttons, layers, view, catching, frame
  <2>. QED
    BY <2>1, <2>2
<1>28. ASSUME Catch
      PROVE  TypeOK' /\ LayerInv'
  <2>1. TypeOK'
    BY <1>28, Panel, CatchTypes, ZenonT(60) DEF Catch, Row, TypeOK, vars, buttons, layers, view, catching, frame
  <2>2. LayerInv'
    BY <1>28, Panel DEF Catch, Row, TypeOK, LayerInv, LayerIsShown, GateShutsLayers, vars, buttons, layers, view, catching, frame
  <2>. QED
    BY <2>1, <2>2
<1>29. ASSUME UNCHANGED vars
      PROVE  TypeOK' /\ LayerInv'
  <2>1. TypeOK'
    BY <1>29, Panel DEF TypeOK, vars, buttons, layers, view, catching, frame
  <2>2. LayerInv'
    BY <1>29, Panel DEF TypeOK, LayerInv, LayerIsShown, GateShutsLayers, vars, buttons, layers, view, catching, frame
  <2>. QED
    BY <2>1, <2>2
<1>. QED
  BY <1>1, <1>2, <1>3, <1>4, <1>5, <1>6, <1>7, <1>8, <1>9, <1>10, <1>11, <1>12, <1>13, <1>14, <1>15, <1>16, <1>17, <1>18, <1>19, <1>20, <1>21, <1>22, <1>23, <1>24, <1>25, <1>26, <1>27, <1>28, <1>29 DEF Next, Polling, Calls, Tick, Nav

\* Every reachable state is well typed and has at most one layer.
THEOREM TypesAndLayers == Spec => [](TypeOK /\ LayerInv)
BY TypesAndLayersInit, TypesAndLayersStep, PTL DEF Spec

\* Whatever the panel, the state of the pager stays in its ranges: pages in
\* range, one latch memory per pair, pot states a pot can be in.
THEOREM PagerTypeCorrect == Spec => []TypeOK
BY TypesAndLayers, PTL

\* Whatever the panel, and however presses, releases, chords, jumps and view
\* latches interleave, at most one layer is engaged and it is the one shown.
THEOREM OneLayer == Spec => []LayerIsShown
<1>1. LayerInv => LayerIsShown
  BY DEF LayerInv
<1>. QED
  BY <1>1, TypesAndLayers, PTL

\* Whatever the panel, no layer is engaged while Settings is open.
THEOREM SettingsOpensOnBase == Spec => []GateShutsLayers
<1>1. LayerInv => GateShutsLayers
  BY DEF LayerInv
<1>. QED
  BY <1>1, TypesAndLayers, PTL

-----------------------------------------------------------------------------
(***************************************************************************)
(* The page underneath.                                                    *)
(***************************************************************************)

\* Base is the page, or the page that the only layer returns to.
BaseIsUnder ==
  \/ active = {} /\ Base = page
  \/ \E b \in Shifts : active = {b} /\ Base = ret[b]

LEMMA BaseIs == TypeOK /\ LayerInv => BaseIsUnder
<1>. SUFFICES ASSUME TypeOK, LayerInv PROVE BaseIsUnder
  OBVIOUS
<1>1. CASE active = {}
  BY <1>1 DEF Base, BaseIsUnder
<1>2. CASE active # {}
  <2>1. Overlay \in active /\ active = {Overlay} /\ active \subseteq Shifts
    BY <1>2, OverlayIsActive DEF TypeOK
  <2>2. Base = ret[Overlay]
    BY <1>2 DEF Base
  <2>. QED
    BY <2>1, <2>2 DEF BaseIsUnder
<1>. QED
  BY <1>1, <1>2

MovesBase ==
  \/ \E b \in Bindings : DoCycle(b) \/ DoLatch(b)
  \/ \E pg \in Pages : GoToPage(pg)

LEMMA BaseStandsStep ==
  ASSUME TypeOK, LayerInv, BaseIsUnder, BaseIsUnder', [Next]_vars, ~MovesBase
  PROVE  Base' = Base
<1>1. CASE UNCHANGED <<layers, view>>
  BY <1>1 DEF layers, view, BaseIsUnder
<1>2. ASSUME AbortOverlays, UNCHANGED ret
      PROVE  Base' = Base
  <2>1. active' = {} /\ page' = Base
    BY <1>2, OverlayIsActive DEF AbortOverlays, Base
  <2>. QED
    BY <2>1 DEF BaseIsUnder
<1>3. ASSUME UNCHANGED <<active, ret, page>>
      PROVE  Base' = Base
  BY <1>3 DEF BaseIsUnder
<1>4. ASSUME NEW b \in Bindings, b \in active, ExitShift(b)
      PROVE  Base' = Base
  <2>1. active = {b} /\ active' = {} /\ page' = ret[b]
    BY <1>4 DEF ExitShift, LayerInv, LayerIsShown
  <2>. QED
    BY <2>1 DEF BaseIsUnder
<1>5. ASSUME NEW b \in Bindings, b \in Shifts, NEW ps,
             NEW pg, EngageShift(b, pg, ps), active \subseteq {b}, pg = Base
      PROVE  Base' = Base
  <2>1. active' = {b} /\ ret'[b] = pg
    BY <1>5, Panel DEF EngageShift, TypeOK
  <2>. QED
    BY <1>5, <2>1 DEF BaseIsUnder
<1>6. ASSUME NEW d \in SUBSET Bindings, PollGateRises(d) \/ PollChord(d)
      PROVE  Base' = Base
  BY <1>2, <1>6 DEF PollGateRises, PollChord
<1>7. ASSUME NEW d \in SUBSET Bindings, NEW g \in BOOLEAN, PollGated(d, g) \/ Poll(d)
      PROVE  Base' = Base
  BY <1>1, <1>7 DEF PollGated, Poll
<1>8. CASE Calls
  <2>1. CASE RetainPage \/ ReleasePage
    BY <1>3, <2>1 DEF RetainPage, ReleasePage, view
  <2>2. CASE ConsumeButton
    BY <1>1, <2>2 DEF ConsumeButton
  <2>3. ASSUME NEW pg \in Pages, NEW p \in Pots, NEW x \in Positions, SetStored(pg, p, x)
        PROVE  Base' = Base
    BY <1>1, <2>3 DEF SetStored
  <2>4. ASSUME NEW value \in [Pages -> [Pots -> Positions]], Deserialize(value)
        PROVE  Base' = Base
    BY <1>1, <2>4 DEF Deserialize
  <2>. QED
    BY <1>8, <2>1, <2>2, <2>3, <2>4 DEF Calls, MovesBase
<1>9. ASSUME NEW b \in Bindings, Nav(b)
      PROVE  Base' = Base
  <2>1. CASE NavNothing(b) \/ ShiftStaysIdle(b) \/ NavIgnored(b)
    BY <1>3, <2>1 DEF NavNothing, ShiftStaysIdle, NavIgnored, KeepLayers, KeepView, view
  <2>2. CASE ShiftResumes(b) \/ ShiftLingers(b)
    BY <1>3, <2>2 DEF ShiftResumes, ShiftLingers, KeepView, view
  <2>3. CASE ShiftResumesAndExits(b) \/ ShiftExits(b)
    BY <1>4, <2>3 DEF ShiftResumesAndExits, ShiftExits
  <2>4. CASE ShiftEngages(b)
    <3>1. active = {} /\ b \in Shifts /\ EngageShift(b, page, pots) /\ page = Base
      BY <2>4 DEF ShiftEngages, MayEngage, Base
    <3>. QED
      BY <1>5, <3>1
  <2>5. CASE ShiftReengages(b)
    <3>1. b \in active /\ EngageShift(b, ret[b], Locked(pots, {ret[b]}))
      BY <2>5 DEF ShiftReengages
    <3>2. active = {b} /\ ret[b] = Base /\ b \in Shifts
      BY <3>1 DEF BaseIsUnder
    <3>. QED
      BY <1>5, <3>1, <3>2
  <2>6. ~DoCycle(b) /\ ~DoLatch(b)
    BY DEF MovesBase
  <2>. QED
    BY <1>9, <2>1, <2>2, <2>3, <2>4, <2>5, <2>6 DEF Nav
<1>10. CASE \E x \in [Pots -> Positions] : FrameInSettings(x) \/ Frame(x)
  BY <1>1, <1>10 DEF FrameInSettings, Frame
<1>11. CASE BeginUpdate
  BY <1>3, <1>11 DEF BeginUpdate, view
<1>12. CASE NavDone \/ NoMoreExits
  BY <1>1, <1>12 DEF NavDone, NoMoreExits
<1>13. ASSUME NEW b \in Shifts, DeferredExit(b)
       PROVE  Base' = Base
  <2>1. b \in active /\ b \in Bindings /\ ExitShift(b)
    BY <1>13, Panel DEF DeferredExit, Overdue, LayerInv, LayerIsShown
  <2>. QED
    BY <1>4, <2>1
<1>14. CASE Catch
  BY <1>3, <1>14 DEF Catch, view
<1>15. CASE UNCHANGED vars
  BY <1>1, <1>15 DEF vars
<1>16. CASE Polling
  BY <1>6, <1>7, <1>16 DEF Polling
<1>17. CASE Tick
  BY <1>9, <1>10, <1>11, <1>12, <1>13, <1>14, <1>17 DEF Tick
<1>. QED
  BY <1>8, <1>15, <1>16, <1>17 DEF Next

\* Whatever the panel, no order in which layers engage, linger, end or abort
\* moves the page underneath them.
THEOREM BaseIsSafe == Spec => BaseStands
<1>1. ASSUME TypeOK, LayerInv, BaseIsUnder, BaseIsUnder', [Next]_vars
      PROVE  [Base' # Base => \/ \E b \in Bindings : DoCycle(b) \/ DoLatch(b)
                              \/ \E pg \in Pages : GoToPage(pg)]_vars
  BY <1>1, BaseStandsStep DEF MovesBase
<1>2. Spec => []BaseIsUnder
  BY BaseIs, TypesAndLayers, PTL
<1>. QED
  BY <1>1, <1>2, TypesAndLayers, PTL DEF Spec, BaseStands

-----------------------------------------------------------------------------
(***************************************************************************)
(* Catch.  A pot of the visible page follows a reading: it is caught and   *)
(* holds it, or it is armed on the side on which the reading lies.  Every  *)
(* change of page arms the pots of the new page at once, or owes a re-arm  *)
(* that the next Update pays before it catches.                            *)
(***************************************************************************)
Follows(s, x) ==
  /\ s.caught => s.stored = x
  /\ ~s.caught /\ s.sign # 0 => s.sign = SideOf(x, s)

Current == \A p \in Pots : \/ Follows(pots[page][p], lastPhys[p])
                           \/ Follows(pots[page][p], phys[p])

CatchInv ==
  /\ phase = "poll" /\ ~wasOpen => phys = lastPhys
  /\ \/ phase = "poll" /\ wasOpen
     \/ phase \in {"poll", "calls"} /\ (relock \/ rearm)
     \/ Current

\* Arming and catching leave a pot that follows the reading they used.
LEMMA InitCatchFollows ==
  ASSUME NEW s \in Pot, NEW x \in Positions
  PROVE  Follows(InitCatch(s, x), x) /\ InitCatch(s, x).stored = s.stored
BY Panel DEF Pot, InitCatch, Follows, SideOf

LEMMA UpdateCatchFollows ==
  ASSUME NEW s \in Pot, NEW x \in Positions
  PROVE  Follows(UpdateCatch(s, x), x)
BY Panel DEF Pot, UpdateCatch, TakesHold, Follows, SideOf

\* A pot that follows one of two readings and is then caught with the second
\* either keeps its value or had it between the two.
LEMMA CatchBetween ==
  ASSUME NEW s \in Pot, NEW x \in Positions, NEW y \in Positions,
         Follows(s, x) \/ Follows(s, y), UpdateCatch(s, y).stored # s.stored
  PROVE  Between(s.stored, x, y)
<1>1. s.stored \in Int /\ x \in Int /\ y \in Int
  BY Panel DEF Pot
<1>2. s.caught \/ TakesHold(s, y)
  BY DEF UpdateCatch
<1>3. y # s.stored
  <2>1. s.caught \/ TakesHold(s, y) => UpdateCatch(s, y).stored = y
    BY DEF UpdateCatch
  <2>. QED
    BY <1>2, <2>1
<1>4. CASE s.caught
  <2>1. s.stored = x
    BY <1>3, <1>4 DEF Follows
  <2>. QED
    BY <1>1, <2>1 DEF Between
<1>5. CASE ~s.caught
  <2>1. s.sign # 0 /\ SideOf(y, s) # s.sign
    BY <1>2, <1>3, <1>5 DEF TakesHold
  <2>2. s.sign = SideOf(x, s)
    BY <1>5, <2>1 DEF Follows
  <2>. QED
    BY <1>1, <2>1, <2>2 DEF SideOf, Between
<1>. QED
  BY <1>4, <1>5

LEMMA LockedFollows ==
  ASSUME TypeOK, NEW ps \in [Pages -> Row], NEW pgs, NEW pg \in Pages, NEW p \in Pots
  PROVE  /\ pg \in pgs => Follows(Locked(ps, pgs)[pg][p], phys[p])
         /\ pg \notin pgs => Locked(ps, pgs)[pg] = ps[pg]
         /\ Locked(ps, pgs)[pg][p].stored = ps[pg][p].stored
<1>1. ps[pg][p] \in Pot /\ phys[p] \in Positions
  BY DEF Row, TypeOK
<1>. QED
  BY <1>1, InitCatchFollows DEF Locked

LEMMA CatchInvInit == Init => CatchInv
BY Panel DEF Init, CatchInv, Current, Follows

LEMMA CatchInvStep ==
  ASSUME TypeOK, TypeOK', LayerInv, CatchInv, [Next]_vars
  PROVE  CatchInv'
<1>. USE DEF CatchInv
<1>1. ASSUME UNCHANGED <<phys, lastPhys, wasOpen, phase, rearm, page, pots>>,
             relock => relock'
      PROVE  CatchInv'
  BY <1>1 DEF Current
<1>2. ASSUME UNCHANGED <<phys, lastPhys, wasOpen>>, Current',
             phase' # "poll" \/ phase = "poll"
      PROVE  CatchInv'
  BY <1>2
<1>3. ASSUME NEW ps \in [Pages -> Row], UNCHANGED <<phys, lastPhys, wasOpen>>,
             pots' = Locked(ps, {page'}), phase' # "poll" \/ phase = "poll"
      PROVE  CatchInv'
  <2>1. page' \in Pages
    BY DEF TypeOK
  <2>2. Current'
    BY <1>3, <2>1, LockedFollows DEF Current
  <2>. QED
    BY <1>2, <1>3, <2>2
<1>4. ASSUME AbortOverlays, phase = "poll", UNCHANGED <<pots, rearm, frame>>
      PROVE  CatchInv'
  <2>1. CASE active = {}
    BY <1>1, <1>4, <2>1 DEF AbortOverlays, frame
  <2>2. CASE active # {}
    BY <1>4, <2>2 DEF AbortOverlays, frame
  <2>. QED
    BY <2>1, <2>2
<1>5. CASE Polling
  <2>1. ASSUME NEW d \in SUBSET Bindings, PollGateRises(d) \/ PollChord(d)
        PROVE  CatchInv'
    BY <1>4, <2>1 DEF PollGateRises, PollChord
  <2>2. ASSUME NEW d \in SUBSET Bindings, NEW g \in BOOLEAN, PollGated(d, g) \/ Poll(d)
        PROVE  CatchInv'
    BY <1>1, <2>2 DEF PollGated, Poll, frame, catching, view
  <2>. QED
    BY <1>5, <2>1, <2>2 DEF Polling
<1>6. CASE Calls
  <2>1. CASE RetainPage \/ ReleasePage \/ ConsumeButton
    BY <1>1, <2>1 DEF RetainPage, ReleasePage, ConsumeButton, frame, catching, view
  <2>2. ASSUME NEW pg \in Pages, GoToPage(pg)
        PROVE  CatchInv'
    BY <1>3, <2>2 DEF GoToPage, frame, TypeOK
  <2>3. ASSUME NEW pg \in Pages, NEW p \in Pots, NEW x \in Positions, SetStored(pg, p, x)
        PROVE  CatchInv'
    <3>1. pots' = [pots EXCEPT ![pg][p] = InitCatch([pots[pg][p] EXCEPT !.stored = x], phys[p])]
      BY <2>3 DEF SetStored
    <3>. DEFINE s == [pots[pg][p] EXCEPT !.stored = x]
    <3>2. s \in Pot /\ phys[p] \in Positions
      <4>1. pots[pg][p] \in Pot /\ phys[p] \in Positions
        BY DEF TypeOK, Row
      <4>. QED
        BY <4>1 DEF Pot
    <3>3. Follows(InitCatch(s, phys[p]), phys[p])
      BY <3>2, InitCatchFollows
    <3>. HIDE DEF s
    <3>4. pots \in [Pages -> [Pots -> Pot]] /\ page \in Pages
      BY DEF TypeOK, Row
    <3>5. \A q \in Pots : pots'[page][q] = IF page = pg /\ q = p THEN InitCatch(s, phys[p])
                                                              ELSE pots[page][q]
      BY <3>1, <3>4 DEF s
    <3>6. page' = page /\ phys' = phys /\ lastPhys' = lastPhys /\ wasOpen' = wasOpen
          /\ phase' = phase /\ relock' = relock /\ rearm' = rearm
      BY <2>3 DEF SetStored, frame, view
    <3>7. Current => Current'
      BY <3>3, <3>5, <3>6 DEF Current
    <3>. QED
      BY <3>6, <3>7
  <2>4. ASSUME NEW value \in [Pages -> [Pots -> Positions]], Deserialize(value)
        PROVE  CatchInv'
    BY <2>4 DEF Deserialize, Calling, frame
  <2>. QED
    BY <1>6, <2>1, <2>2, <2>3, <2>4 DEF Calls
<1>7. ASSUME NEW x \in [Pots -> Positions], FrameInSettings(x)
      PROVE  CatchInv'
  BY <1>7 DEF FrameInSettings
<1>8. ASSUME NEW x \in [Pots -> Positions], Frame(x)
      PROVE  CatchInv'
  <2>1. phase' = "calls" /\ page' = page /\ phys' = x /\ lastPhys' = lastPhys
        /\ relock' = relock /\ rearm' = rearm /\ phase = "poll"
    BY <1>8 DEF Frame, view
  <2>2. CASE wasOpen
    <3>1. \A p \in Pots : pots'[page][p] = InitCatch(pots[page][p], x[p])
      BY <1>8, <2>2 DEF Frame, TypeOK
    <3>2. \A p \in Pots : pots[page][p] \in Pot
      BY DEF TypeOK, Row
    <3>3. Current'
      BY <2>1, <3>1, <3>2, InitCatchFollows DEF Current
    <3>. QED
      BY <2>1, <3>3
  <2>3. CASE ~wasOpen
    <3>1. pots' = pots /\ phys = lastPhys
      BY <1>8, <2>1, <2>3 DEF Frame
    <3>2. Current => Current'
      BY <2>1, <3>1 DEF Current
    <3>. QED
      BY <2>1, <2>3, <3>2
  <2>. QED
    BY <2>2, <2>3
<1>9. CASE BeginUpdate
  <2>1. page \in Pages /\ page' = page /\ phys' = phys /\ lastPhys' = lastPhys
        /\ phase' = "nav" /\ wasOpen' = wasOpen
    BY <1>9 DEF BeginUpdate, view, TypeOK
  <2>2. CASE relock \/ rearm
    <3>1. \E S : page \in S /\ pots' = Locked(pots, S)
      <4>1. page \in {page} /\ page \in Pages
        BY <2>1
      <4>. QED  BY <1>9, <2>2, <4>1 DEF BeginUpdate
    <3>2. PICK S : page \in S /\ pots' = Locked(pots, S)
      BY <3>1
    <3>3. pots \in [Pages -> Row]
      BY DEF TypeOK
    <3>4. \A p \in Pots : Follows(pots'[page][p], phys[p])
      BY <2>1, <3>2, <3>3, LockedFollows
    <3>. QED
      BY <2>1, <3>4 DEF Current
  <2>3. CASE ~relock /\ ~rearm
    <3>1. pots' = Locked(pots, {}) /\ pots \in [Pages -> Row] /\ Current
      BY <1>9, <2>3 DEF BeginUpdate, TypeOK
    <3>2. pots'[page] = pots[page]
      BY <2>1, <3>1 DEF Locked
    <3>. QED
      BY <2>1, <3>1, <3>2 DEF Current
  <2>. QED
    BY <2>2, <2>3
<1>10. ASSUME NEW b \in Bindings, Nav(b)
       PROVE  CatchInv'
  <2>1. UNCHANGED <<phys, lastPhys, wasOpen, phase, rearm, relock>> /\ phase = "nav"
    BY <1>10 DEF Nav, Taken, NavNothing, ShiftEngages, ShiftStaysIdle, ShiftResumes,
                 ShiftResumesAndExits, ShiftLingers, ShiftExits, ShiftReengages, DoCycle,
                 DoLatch, NavIgnored
  <2>2. pots \in [Pages -> Row] /\ \A pgs : Locked(pots, pgs) \in [Pages -> Row]
    BY LockedType DEF TypeOK
  <2>3. CASE UNCHANGED <<page, pots>>
    BY <1>1, <2>1, <2>3
  <2>4. CASE ExitShift(b)
    BY <1>3, <2>1, <2>2, <2>4 DEF ExitShift
  <2>5. CASE EngageShift(b, page, pots)
    BY <1>3, <2>1, <2>2, <2>5 DEF EngageShift
  <2>6. CASE EngageShift(b, ret[b], Locked(pots, {ret[b]}))
    BY <1>3, <2>1, <2>2, <2>6 DEF EngageShift
  <2>7. CASE \E pg : Go(pg)
    BY <1>3, <2>1, <2>2, <2>7 DEF Go
  <2>. QED
    BY <1>10, <2>3, <2>4, <2>5, <2>6, <2>7 DEF Nav, NavNothing, ShiftEngages, ShiftStaysIdle,
       ShiftResumes, ShiftResumesAndExits, ShiftLingers, ShiftExits, ShiftReengages, DoCycle,
       DoLatch, NavIgnored, KeepView, view
<1>11. CASE NavDone \/ NoMoreExits
  <2>1. UNCHANGED <<page, pots, phys, lastPhys, wasOpen>> /\ phase' # "poll" /\ Current
    BY <1>11 DEF NavDone, NoMoreExits, view, catching
  <2>. QED
    BY <2>1 DEF Current
<1>12. ASSUME NEW b \in Shifts, DeferredExit(b)
       PROVE  CatchInv'
  BY <1>3, <1>12 DEF DeferredExit, ExitShift, frame, TypeOK
<1>13. CASE Catch
  <2>1. page' = page /\ phys' = phys /\ lastPhys' = phys /\ page \in Pages
    BY <1>13 DEF Catch, view, TypeOK
  <2>2. \A p \in Pots : pots'[page][p] = UpdateCatch(pots[page][p], phys[p])
    BY <1>13 DEF Catch, TypeOK
  <2>3. \A p \in Pots : pots[page][p] \in Pot /\ phys[p] \in Positions
    BY DEF TypeOK, Row
  <2>4. Current'
    BY <2>1, <2>2, <2>3, UpdateCatchFollows DEF Current
  <2>. QED
    BY <2>1, <2>4
<1>14. CASE UNCHANGED vars
  BY <1>1, <1>14 DEF vars, frame, view, catching
<1>. QED
  BY <1>5, <1>6, <1>7, <1>8, <1>9, <1>10, <1>11, <1>12, <1>13, <1>14 DEF Next, Tick

NoLeapAt(pg, p) ==
  pots'[pg][p].stored # pots[pg][p].stored =>
    \/ \E x \in Positions : SetStored(pg, p, x)
    \/ \E value \in [Pages -> [Pots -> Positions]] : Deserialize(value)
    \/ Between(pots[pg][p].stored, lastPhys[p], phys[p])

LEMMA NoLeapStep ==
  ASSUME TypeOK, CatchInv, [Next]_vars, NEW pg \in Pages, NEW p \in Pots
  PROVE  NoLeapAt(pg, p)
<1>. USE DEF NoLeapAt
<1>1. pots \in [Pages -> Row] /\ \A pgs : Locked(pots, pgs) \in [Pages -> Row]
  BY LockedType DEF TypeOK
<1>2. CASE UNCHANGED pots
  BY <1>2
<1>3. CASE \E pgs : pots' = Locked(pots, pgs)
  BY <1>1, <1>3, LockedFollows
<1>4. CASE \E pgs, more : pots' = Locked(Locked(pots, pgs), more)
  BY <1>1, <1>4, LockedFollows
<1>5. CASE Polling
  BY <1>2, <1>5 DEF Polling, PollGateRises, PollGated, PollChord, Poll, catching
<1>6. CASE Calls
  <2>1. ASSUME NEW q \in Pages, NEW r \in Pots, NEW x \in Positions, SetStored(q, r, x)
        PROVE  NoLeapAt(pg, p)
    <3>1. CASE q = pg /\ r = p
      BY <2>1, <3>1
    <3>2. CASE ~(q = pg /\ r = p)
      BY <1>1, <2>1, <3>2 DEF SetStored, Row
    <3>. QED
      BY <3>1, <3>2
  <2>2. ASSUME NEW q \in Pages, GoToPage(q)
        PROVE  NoLeapAt(pg, p)
    BY <1>3, <2>2 DEF GoToPage
  <2>3. CASE RetainPage \/ ReleasePage \/ ConsumeButton
    BY <1>2, <2>3 DEF RetainPage, ReleasePage, ConsumeButton, catching
  <2>. QED
    BY <1>6, <2>1, <2>2, <2>3 DEF Calls
<1>7. ASSUME NEW x \in [Pots -> Positions], FrameInSettings(x) \/ Frame(x)
      PROVE  NoLeapAt(pg, p)
  <2>1. CASE UNCHANGED pots
    BY <1>2, <2>1
  <2>2. CASE pots' = [pots EXCEPT ![page] =
                        [q \in Pots |-> InitCatch(pots[page][q], x[q])]]
    <3>1. pots[pg][p] \in Pot /\ x[p] \in Positions
      BY <1>1 DEF Row
    <3>2. CASE pg = page
      BY <1>1, <2>2, <3>1, <3>2, InitCatchFollows
    <3>3. CASE pg # page
      BY <1>1, <2>2, <3>3
    <3>. QED
      BY <3>2, <3>3
  <2>. QED
    BY <1>7, <2>1, <2>2 DEF FrameInSettings, Frame, catching
<1>8. CASE BeginUpdate
  BY <1>3, <1>8 DEF BeginUpdate
<1>9. ASSUME NEW b \in Bindings, Nav(b) \/ DeferredExit(b)
      PROVE  NoLeapAt(pg, p)
  BY <1>2, <1>3, <1>4, <1>9 DEF Nav, NavNothing, ShiftEngages, ShiftStaysIdle, ShiftResumes,
     ShiftResumesAndExits, ShiftLingers, ShiftExits, ShiftReengages, DoCycle, DoLatch,
     NavIgnored, DeferredExit, KeepView, EngageShift, ExitShift, Go
<1>10. CASE NavDone \/ NoMoreExits \/ UNCHANGED vars
  BY <1>2, <1>10 DEF NavDone, NoMoreExits, vars, catching
<1>11. CASE Catch
  <2>1. Current
    BY <1>11 DEF Catch, CatchInv
  <2>2. pots[pg][p] \in Pot /\ phys[p] \in Positions /\ lastPhys[p] \in Positions
    BY <1>1 DEF Row, TypeOK
  <2>3. CASE pg = page
    <3>1. pots'[pg][p] = UpdateCatch(pots[pg][p], phys[p])
      BY <1>1, <1>11, <2>3 DEF Catch
    <3>. QED
      BY <2>1, <2>2, <2>3, <3>1, CatchBetween DEF Current
  <2>4. CASE pg # page
    BY <1>1, <1>11, <2>4 DEF Catch
  <2>. QED
    BY <2>3, <2>4
<1>12. Shifts \subseteq Bindings
  BY Panel
<1>. QED
  BY <1>5, <1>6, <1>7, <1>8, <1>9, <1>10, <1>11, <1>12 DEF Next, Tick

\* Whatever the panel, no parameter leaps: through layers, latches, aborts,
\* Settings sessions, jumps and loads, a pot changes a value only from where
\* the value stood or by passing over it between two Updates.
THEOREM NothingLeaps == Spec => NoLeap
<1>1. Spec => []CatchInv
  <2>1. TypeOK /\ TypeOK' /\ LayerInv /\ CatchInv /\ [Next]_vars => CatchInv'
    BY CatchInvStep
  <2>. QED
    BY <2>1, CatchInvInit, TypesAndLayers, PTL DEF Spec
<1>2. ASSUME TypeOK, CatchInv, [Next]_vars
      PROVE  [\A pg \in Pages, p \in Pots :
                pots'[pg][p].stored # pots[pg][p].stored =>
                  \/ \E x \in Positions : SetStored(pg, p, x)
                  \/ \E value \in [Pages -> [Pots -> Positions]] : Deserialize(value)
                  \/ Between(pots[pg][p].stored, lastPhys[p], phys[p])]_vars
  BY <1>2, NoLeapStep DEF NoLeapAt
<1>. QED
  BY <1>1, <1>2, TypesAndLayers, PTL DEF Spec, NoLeap


-----------------------------------------------------------------------------
(***************************************************************************)
(* Latch pairs.  A pair remembers its member while a layer covers it: the  *)
(* base page returns without being told to the pair (ExitShift sets page_, *)
(* and calls no SyncLatchSel).                                             *)
(***************************************************************************)

\* No Shift leads from one member of a pair to the other.  Where one does, the
\* pair remembers the layer after the exit, and not the page that shows.
LayersLeavePairs ==
  \A b \in Shifts, L \in Latches :
    InPair(L, Layer[b]) => \A q \in From[b] \ {Layer[b]} : ~InPair(L, q)

Remembered(p) == \A L \in Latches : InPair(L, p) => Pair[L][sel[L]] = p

LatchInv ==
  /\ Remembered(page)
  /\ \A b \in active : Remembered(ret[b])

\* SyncLatchSel tells the pair of p, and no other.
LEMMA SyncedRemembers ==
  ASSUME TypeOK, NEW p \in Pages, sel' = Synced(p)
  PROVE  /\ Remembered(p)'
         /\ \A q \in Pages : Remembered(q) /\ (\A L \in Latches : InPair(L, p) => ~InPair(L, q))
                               => Remembered(q)'
<1>1. \A L \in Latches : sel'[L] = IF InPair(L, p) THEN (IF p = Pair[L][1] THEN 1 ELSE 2)
                                   ELSE sel[L]
  BY Panel DEF Synced
<1>. QED
  BY <1>1 DEF Remembered, InPair

LEMMA LatchInvInit == Init => LatchInv
BY Panel DEF Init, LatchInv, Remembered, InPair

LEMMA LatchInvStep ==
  ASSUME LayersLeavePairs, TypeOK, TypeOK', LayerInv, LayerInv', LatchInv, [Next]_vars
  PROVE  LatchInv'
<1>1. ASSUME UNCHANGED <<page, sel, ret>>, active' \subseteq active
      PROVE  LatchInv'
  BY <1>1 DEF LatchInv, Remembered
<1>2. ASSUME UNCHANGED sel, active' = {}, \/ page' = page
                                           \/ \E b \in active : page' = ret[b]
      PROVE  LatchInv'
  BY <1>2 DEF LatchInv, Remembered
<1>3. ASSUME NEW b \in active, ExitShift(b)
      PROVE  LatchInv'
  <2>1. active' = {} /\ page' = ret[b] /\ UNCHANGED sel
    BY <1>3 DEF ExitShift, LayerInv, LayerIsShown
  <2>. QED
    BY <1>2, <2>1
<1>4. ASSUME NEW b \in Shifts, NEW pg \in Pages, NEW ps, EngageShift(b, pg, ps),
             active \subseteq {b}, Remembered(pg)
      PROVE  LatchInv'
  <2>1. active' = {b} /\ ret'[b] = pg /\ page' = Layer[b] /\ sel' = Synced(Layer[b])
    <3>1. /\ active' = active \cup {b} /\ ret' = [ret EXCEPT ![b] = pg]
          /\ page' = Layer[b] /\ sel' = Synced(Layer[b])
      BY <1>4, Zenon DEF EngageShift
    <3>2. ret'[b] = pg
      BY <3>1 DEF TypeOK
    <3>. QED
      BY <1>4, <3>1, <3>2
  <2>2. Layer[b] \in Pages /\ ret'[b] \in From[b] \ {Layer[b]}
    BY <1>4, <2>1, Panel DEF LayerInv, LayerIsShown
  <2>3. Remembered(Layer[b])' /\ Remembered(pg)'
    BY <1>4, <2>1, <2>2, SyncedRemembers DEF LayersLeavePairs
  <2>. QED
    BY <2>1, <2>3 DEF LatchInv, Remembered
<1>5. ASSUME NEW pg \in Pages, page' = pg, sel' = Synced(pg), active' = {}
      PROVE  LatchInv'
  BY <1>5, SyncedRemembers DEF LatchInv, Remembered
<1>6. ASSUME AbortOverlays, UNCHANGED sel
      PROVE  LatchInv'
  BY <1>2, <1>6, OverlayIsActive DEF AbortOverlays
<1>7. CASE Polling
  <2>1. ASSUME NEW d \in SUBSET Bindings, PollGateRises(d) \/ PollChord(d)
        PROVE  LatchInv'
    BY <1>6, <2>1 DEF PollGateRises, PollChord
  <2>2. ASSUME NEW d \in SUBSET Bindings, NEW g \in BOOLEAN, PollGated(d, g) \/ Poll(d)
        PROVE  LatchInv'
    BY <1>1, <2>2 DEF PollGated, Poll, layers, view
  <2>. QED
    BY <1>7, <2>1, <2>2 DEF Polling
<1>8. CASE Calls
  <2>1. CASE \/ RetainPage \/ ReleasePage \/ ConsumeButton
             \/ \E pg \in Pages, p \in Pots, x \in Positions : SetStored(pg, p, x)
             \/ \E value \in [Pages -> [Pots -> Positions]] : Deserialize(value)
    BY <1>1, <2>1
       DEF RetainPage, ReleasePage, ConsumeButton, SetStored, Deserialize, layers, view
  <2>2. ASSUME NEW pg \in Pages, GoToPage(pg)
        PROVE  LatchInv'
    BY <1>5, <2>2 DEF GoToPage
  <2>. QED
    BY <1>8, <2>1, <2>2 DEF Calls
<1>9. ASSUME NEW b \in Bindings, Nav(b)
      PROVE  LatchInv'
  <2>1. CASE \/ NavNothing(b) \/ ShiftStaysIdle(b) \/ NavIgnored(b)
             \/ ShiftResumes(b) \/ ShiftLingers(b)
    BY <1>1, <2>1 DEF NavNothing, ShiftStaysIdle, NavIgnored, ShiftResumes, ShiftLingers,
                      KeepLayers, KeepView, view
  <2>2. CASE ShiftResumesAndExits(b) \/ ShiftExits(b)
    BY <1>3, <2>2 DEF ShiftResumesAndExits, ShiftExits
  <2>3. CASE ShiftEngages(b)
    BY <1>4, <2>3 DEF ShiftEngages, MayEngage, TypeOK, LatchInv
  <2>4. CASE ShiftReengages(b)
    <3>1. b \in active /\ EngageShift(b, ret[b], Locked(pots, {ret[b]}))
      BY <2>4 DEF ShiftReengages
    <3>2. active \subseteq {b} /\ b \in Shifts /\ ret[b] \in Pages /\ Remembered(ret[b])
      BY <3>1 DEF LayerInv, LayerIsShown, TypeOK, LatchInv
    <3>. QED
      BY <1>4, <3>1, <3>2
  <2>5. CASE DoCycle(b) \/ DoLatch(b)
    BY <1>5, <2>5 DEF DoCycle, DoLatch, Go, CleanRelease, KeepLayers, TypeOK
  <2>. QED
    BY <1>9, <2>1, <2>2, <2>3, <2>4, <2>5 DEF Nav
<1>10. CASE \/ \E x \in [Pots -> Positions] : FrameInSettings(x) \/ Frame(x)
            \/ BeginUpdate \/ NavDone \/ NoMoreExits \/ Catch \/ UNCHANGED vars
  BY <1>1, <1>10
     DEF FrameInSettings, Frame, BeginUpdate, NavDone, NoMoreExits, Catch, vars, layers, view
<1>11. ASSUME NEW b \in Shifts, DeferredExit(b)
       PROVE  LatchInv'
  <2>1. b \in active /\ ExitShift(b)
    BY <1>11 DEF DeferredExit, Overdue, LayerInv, LayerIsShown
  <2>. QED
    BY <1>3, <2>1
<1>. QED
  BY <1>7, <1>8, <1>9, <1>10, <1>11 DEF Next, Tick

\* On any panel none of whose layers leads from one member of a latch pair to
\* the other, a pair remembers the member that shows, whatever layers, aborts
\* and jumps come in between: "cycling back lands on whichever member the pair
\* last showed" (SyncLatchSel, ExitShift, AbortOverlays, GoToPage).
THEOREM PairsRemember == ASSUME LayersLeavePairs PROVE Spec => []LatchFollowsPage
<1>1. TypeOK /\ TypeOK' /\ LayerInv /\ LayerInv' /\ LatchInv /\ [Next]_vars => LatchInv'
  BY LatchInvStep
<1>2. LatchInv => LatchFollowsPage
  BY DEF LatchInv, Remembered, LatchFollowsPage
<1>. QED
  BY <1>1, <1>2, LatchInvInit, TypesAndLayers, PTL DEF Spec


-----------------------------------------------------------------------------
(***************************************************************************)
(* Used layers.  As long as no pot of a layer has been seen to edit, what   *)
(* it held when the layer engaged is what it still holds, except where the  *)
(* value has been put back in this frame (SetStored): there catch is armed   *)
(* against the reading that it will be given, and takes nothing along.  A    *)
(* load (Deserialize) owes a new snapshot, and the next Update pays it.      *)
(***************************************************************************)
Unedited(b, p) ==
  \/ engaged[p] = None
  \/ pots[Layer[b]][p].stored = engaged[p]
  \/ phase # "poll" /\ Follows(pots[Layer[b]][p], phys[p])

EditInv ==
  /\ edited \subseteq active \cap used
  /\ rearm => phase \in {"poll", "calls"}
  /\ \A b \in active \ used : rearm \/ \A p \in Pots : Unedited(b, p)

\* Re-arming keeps what the pots hold, and what follows the reading.
LEMMA LockedKeepsUnedited ==
  ASSUME TypeOK, NEW pgs, pots' = Locked(pots, pgs), phys' = phys,
         NEW b \in Shifts, NEW p \in Pots, Unedited(b, p),
         engaged'[p] = engaged[p], phase' # "poll" \/ phase = "poll"
  PROVE  Unedited(b, p)'
<1>1. Layer[b] \in Pages /\ pots \in [Pages -> Row]
  BY Panel DEF TypeOK
<1>2. /\ Layer[b] \in pgs => Follows(pots'[Layer[b]][p], phys[p])
      /\ Layer[b] \notin pgs => pots'[Layer[b]] = pots[Layer[b]]
      /\ pots'[Layer[b]][p].stored = pots[Layer[b]][p].stored
  BY <1>1, LockedFollows
<1>. QED
  BY <1>1, <1>2 DEF Unedited

\* A pot that follows the reading keeps its value when it is caught up with it.
LEMMA FollowingStands ==
  ASSUME NEW s \in Pot, NEW x \in Positions, Follows(s, x)
  PROVE  UpdateCatch(s, x).stored = s.stored
BY DEF Follows, UpdateCatch, TakesHold

\* A layer that engages holds what the snapshot says.
LEMMA EngagedUnedited ==
  ASSUME TypeOK, NEW b \in Shifts, pots' \in [Pages -> Row],
         engaged' = Snapshot(pots'[Layer[b]]), NEW p \in Pots
  PROVE  Unedited(b, p)'
BY Panel DEF Snapshot, Unedited

LEMMA EditInvInit == Init => EditInv
BY DEF Init, EditInv

LEMMA EditInvStep ==
  ASSUME TypeOK, TypeOK', LayerInv, EditInv, [Next]_vars
  PROVE  EditInv'
<1>. USE DEF EditInv
<1>1. ASSUME UNCHANGED <<pots, phys, engaged, used, rearm, phase>>,
             active' \subseteq active, edited' \subseteq edited \cap active'
      PROVE  EditInv'
  BY <1>1 DEF Unedited
<1>2. ASSUME active' = {}, edited' = {}, UNCHANGED <<rearm, phase>>
      PROVE  EditInv'
  BY <1>2
<1>3. ASSUME NEW b \in active, ExitShift(b), UNCHANGED <<rearm, phase>>
      PROVE  EditInv'
  <2>1. active' = {} /\ edited' = {}
    BY <1>3 DEF ExitShift, LayerInv, LayerIsShown
  <2>. QED
    BY <1>2, <1>3, <2>1
<1>4. ASSUME NEW b \in Shifts, NEW pg, NEW ps, EngageShift(b, pg, ps),
             active \subseteq {b}, UNCHANGED <<rearm, phase>>
      PROVE  EditInv'
  <2>1. active' = {b} /\ edited' = edited \ {b} /\ edited' = {}
    BY <1>4 DEF EngageShift
  <2>2. \A p \in Pots : Unedited(b, p)'
    BY <1>4, EngagedUnedited DEF EngageShift, TypeOK
  <2>. QED
    BY <1>4, <2>1, <2>2
<1>5. ASSUME NEW pgs, pots' = Locked(pots, pgs), phys' = phys, UNCHANGED <<active, engaged>>,
             rearm' = rearm, phase' = phase,
             edited' = edited, active' \ used' \subseteq active \ used, edited' \subseteq used'
      PROVE  EditInv'
  <2>1. \A b \in active', p \in Pots : Unedited(b, p) => Unedited(b, p)'
    BY <1>5, LockedKeepsUnedited DEF TypeOK
  <2>. QED
    BY <1>5, <2>1
<1>6. CASE Polling
  <2>1. ASSUME NEW d \in SUBSET Bindings, PollGateRises(d) \/ PollChord(d)
        PROVE  EditInv'
    BY <1>2, <2>1 DEF PollGateRises, PollChord, AbortOverlays, frame
  <2>2. ASSUME NEW d \in SUBSET Bindings, NEW g \in BOOLEAN, PollGated(d, g) \/ Poll(d)
        PROVE  EditInv'
    BY <1>1, <2>2 DEF PollGated, Poll, layers, catching, frame
  <2>. QED
    BY <1>6, <2>1, <2>2 DEF Polling
<1>7. CASE Calls
  <2>1. CASE RetainPage \/ ReleasePage \/ ConsumeButton
    BY <1>1, <2>1 DEF RetainPage, ReleasePage, ConsumeButton, layers, catching, frame
  <2>2. ASSUME NEW pg \in Pages, GoToPage(pg)
        PROVE  EditInv'
    BY <1>2, <2>2 DEF GoToPage, frame
  <2>3. ASSUME NEW pg \in Pages, NEW p \in Pots, NEW x \in Positions, SetStored(pg, p, x)
        PROVE  EditInv'
    <3>. DEFINE s == [pots[pg][p] EXCEPT !.stored = x]
    <3>1. pots' = [pots EXCEPT ![pg][p] = InitCatch(s, phys[p])]
      BY <2>3 DEF SetStored
    <3>2. s \in Pot /\ phys[p] \in Positions
      <4>1. pots[pg][p] \in Pot /\ phys[p] \in Positions
        BY DEF TypeOK, Row
      <4>. QED
        BY <4>1 DEF Pot
    <3>3. Follows(InitCatch(s, phys[p]), phys[p])
      BY <3>2, InitCatchFollows
    <3>. HIDE DEF s
    <3>4. pots \in [Pages -> [Pots -> Pot]]
      BY DEF TypeOK, Row
    <3>5. \A r \in Pages, q \in Pots : pots'[r][q] = IF r = pg /\ q = p
                                                      THEN InitCatch(s, phys[p]) ELSE pots[r][q]
      BY <3>1, <3>4
    <3>6. UNCHANGED <<phys, engaged, active, used, edited, phase, rearm>> /\ phase = "calls"
      BY <2>3 DEF SetStored, LocksCalling, frame, layers
    <3>7. \A b \in active, q \in Pots : Unedited(b, q) => Unedited(b, q)'
      <4>1. \A b \in active : Layer[b] \in Pages
        BY Panel DEF TypeOK
      <4>. QED
        BY <3>3, <3>5, <3>6, <4>1 DEF Unedited
    <3>. QED
      BY <3>6, <3>7
  <2>4. ASSUME NEW value \in [Pages -> [Pots -> Positions]], Deserialize(value)
        PROVE  EditInv'
    BY <2>4 DEF Deserialize, Calling, frame, layers
  <2>. QED
    BY <1>7, <2>1, <2>2, <2>3, <2>4 DEF Calls
<1>8. ASSUME NEW x \in [Pots -> Positions], FrameInSettings(x) \/ Frame(x)
      PROVE  EditInv'
  <2>1. UNCHANGED <<active, used, edited, engaged, rearm>> /\ phase = "poll"
        /\ phase' \in {"poll", "calls"}
    BY <1>8 DEF FrameInSettings, Frame, layers, catching
  <2>2. \A r \in Pages, p \in Pots : pots'[r][p].stored = pots[r][p].stored
    <3>1. \A p \in Pots : pots[page][p] \in Pot /\ x[p] \in Positions
      BY DEF TypeOK, Row
    <3>2. \A p \in Pots : InitCatch(pots[page][p], x[p]).stored = pots[page][p].stored
      BY <3>1, InitCatchFollows
    <3>3. \/ pots' = pots
          \/ pots' = [pots EXCEPT ![page] = [p \in Pots |-> InitCatch(pots[page][p], x[p])]]
      BY <1>8 DEF FrameInSettings, Frame, catching
    <3>. QED
      BY <3>2, <3>3 DEF TypeOK
  <2>3. \A b \in active, p \in Pots : Unedited(b, p) => Unedited(b, p)'
    <3>1. \A b \in active : Layer[b] \in Pages
      BY Panel DEF TypeOK
    <3>. QED
      BY <2>1, <2>2, <3>1 DEF Unedited
  <2>. QED
    BY <2>1, <2>3
<1>9. CASE BeginUpdate
  <2>1. UNCHANGED <<active, phys, page>> /\ phase' = "nav" /\ rearm' = FALSE
        /\ \E S : pots' = Locked(pots, S)
    BY <1>9 DEF BeginUpdate, view
  <2>2. CASE rearm /\ active # {}
    <3>1. PICK o \in Shifts : o = Overlay /\ active = {o} /\ page = Layer[o]
      BY <2>2, OverlayIsActive DEF LayerInv, LayerIsShown, TypeOK
    <3>2. engaged' = Snapshot(pots'[Layer[o]]) /\ edited' = {}
      BY <1>9, <2>2, <3>1 DEF BeginUpdate
    <3>3. \A p \in Pots : Unedited(o, p)'
      BY <3>1, <3>2, EngagedUnedited DEF TypeOK
    <3>. QED
      BY <2>1, <3>1, <3>2, <3>3
  <2>3. CASE ~(rearm /\ active # {})
    <3>1. UNCHANGED <<engaged, used, edited>>
      BY <1>9, <2>3 DEF BeginUpdate
    <3>2. PICK S : pots' = Locked(pots, S)
      BY <2>1
    <3>3. \A b \in active, p \in Pots : Unedited(b, p) => Unedited(b, p)'
      BY <2>1, <3>1, <3>2, LockedKeepsUnedited DEF TypeOK
    <3>. QED
      BY <2>1, <2>3, <3>1, <3>3
  <2>. QED
    BY <2>2, <2>3
<1>10. ASSUME NEW b \in Bindings, Nav(b)
       PROVE  EditInv'
  <2>1. UNCHANGED <<phys, phase, rearm>>
    BY <1>10 DEF Nav, Taken, NavNothing, ShiftEngages, ShiftStaysIdle, ShiftResumes,
                 ShiftResumesAndExits, ShiftLingers, ShiftExits, ShiftReengages, DoCycle,
                 DoLatch, NavIgnored
  <2>2. CASE NavNothing(b) \/ NavIgnored(b) \/ ShiftResumes(b) \/ ShiftLingers(b)
    BY <1>1, <2>1, <2>2 DEF NavNothing, NavIgnored, ShiftResumes, ShiftLingers,
                            KeepLayers, KeepView
  <2>3. CASE ShiftStaysIdle(b)
    <3>1. UNCHANGED <<active, engaged, edited, pots>> /\ used' = used \ {b} /\ b \notin active
      BY <2>3 DEF ShiftStaysIdle, KeepLayers, KeepView
    <3>. QED
      BY <2>1, <3>1 DEF Unedited
  <2>4. CASE ShiftResumesAndExits(b) \/ ShiftExits(b)
    BY <1>3, <2>1, <2>4 DEF ShiftResumesAndExits, ShiftExits
  <2>5. CASE ShiftEngages(b)
    BY <1>4, <2>1, <2>5 DEF ShiftEngages, MayEngage
  <2>6. CASE ShiftReengages(b)
    <3>1. b \in active /\ EngageShift(b, ret[b], Locked(pots, {ret[b]}))
      BY <2>6 DEF ShiftReengages
    <3>2. active \subseteq {b} /\ b \in Shifts
      BY <3>1 DEF LayerInv, LayerIsShown, TypeOK
    <3>. QED
      BY <1>4, <2>1, <3>1, <3>2
  <2>7. CASE DoCycle(b) \/ DoLatch(b)
    BY <2>1, <2>7 DEF DoCycle, DoLatch, CleanRelease, KeepLayers
  <2>. QED
    BY <1>10, <2>2, <2>3, <2>4, <2>5, <2>6, <2>7 DEF Nav
<1>11. CASE NavDone \/ NoMoreExits
  <2>1. UNCHANGED <<active, used, edited, engaged, rearm, pots, phys>>
        /\ phase \notin {"poll", "calls"} /\ phase' # "poll"
    BY <1>11 DEF NavDone, NoMoreExits, layers, catching
  <2>. QED
    BY <2>1 DEF Unedited
<1>12. ASSUME NEW b \in Shifts, DeferredExit(b)
       PROVE  EditInv'
  <2>1. b \in active /\ ExitShift(b) /\ UNCHANGED <<rearm, phase>>
    BY <1>12 DEF DeferredExit, Overdue, LayerInv, LayerIsShown, frame
  <2>. QED
    BY <1>3, <2>1
<1>13. CASE Catch
  <2>1. UNCHANGED <<active, engaged, phys, rearm>> /\ ~rearm /\ phase' = "poll"
    BY <1>13 DEF Catch
  <2>2. CASE active = {}
    BY <1>13, <2>1, <2>2 DEF Catch
  <2>3. CASE active # {}
    <3>1. PICK o \in Shifts : /\ o = Overlay /\ active = {o} /\ page = Layer[o]
                           /\ page \in Pages
      BY <2>3, OverlayIsActive DEF LayerInv, LayerIsShown, TypeOK
    <3>2. \A p \in Pots : pots'[page][p] = UpdateCatch(pots[page][p], phys[p])
      BY <1>13, <3>1 DEF Catch, TypeOK
    <3>3. CASE Edited(pots'[page])
      <4>1. used' = used \cup {o} /\ edited' \subseteq {o}
        BY <1>13, <2>3, <3>1, <3>3 DEF Catch
      <4>. QED
        BY <2>1, <3>1, <4>1
    <3>4. CASE ~Edited(pots'[page])
      <4>1. \A p \in Pots : \/ engaged[p] = None /\ ~pots'[page][p].caught
                            \/ engaged[p] # None /\ pots'[page][p].stored = engaged[p]
        BY <3>4 DEF Edited
      <4>2. \A p \in Pots : Unedited(o, p)'
        BY <2>1, <3>1, <4>1 DEF Unedited
      <4>3. o \notin used => \A p \in Pots : pots'[page][p].stored = pots[page][p].stored
        <5>1. SUFFICES ASSUME o \notin used, NEW p \in Pots
                       PROVE  pots'[page][p].stored = pots[page][p].stored
          OBVIOUS
        <5>2. pots[page][p] \in Pot /\ phys[p] \in Positions
          BY <3>1 DEF TypeOK, Row
        <5>3. Unedited(o, p)
          BY <2>1, <3>1, <5>1
        <5>4. CASE engaged[p] = None
          <6>1. ~pots'[page][p].caught
            BY <4>1, <5>4
          <6>2. CASE pots[page][p].caught \/ TakesHold(pots[page][p], phys[p])
            <7>1. pots'[page][p] = [stored |-> phys[p], caught |-> TRUE, sign |-> 0]
              BY <3>2, <6>2 DEF UpdateCatch
            <7>. QED
              BY <6>1, <7>1
          <6>3. CASE ~(pots[page][p].caught \/ TakesHold(pots[page][p], phys[p]))
            BY <3>2, <6>3 DEF UpdateCatch
          <6>. QED
            BY <6>2, <6>3
        <5>5. CASE engaged[p] # None /\ pots[page][p].stored = engaged[p]
          BY <4>1, <5>5
        <5>6. CASE Follows(pots[page][p], phys[p])
          BY <3>2, <5>2, <5>6, FollowingStands
        <5>. QED
          BY <3>1, <5>3, <5>4, <5>5, <5>6 DEF Unedited
      <4>4. used' = used /\ (edited' = edited \/ (edited' = edited \cup {o} /\ o \in used))
        BY <1>13, <3>1, <3>4, <4>3 DEF Catch
      <4>. QED
        BY <2>1, <3>1, <4>2, <4>4
    <3>. QED
      BY <3>3, <3>4
  <2>. QED
    BY <2>2, <2>3
<1>14. CASE UNCHANGED vars
  BY <1>1, <1>14 DEF vars, frame, layers, catching
<1>. QED
  BY <1>6, <1>7, <1>8, <1>9, <1>10, <1>11, <1>12, <1>13, <1>14 DEF Next, Tick

\* Whatever the panel, a hold during which a pot moved a value of its layer
\* claims its release, through values put back and presets loaded under it
\* (SnapshotOverlay, Update's comparison with overlay_engage_).
THEOREM EditsAreUsed == Spec => []EditIsUsed
<1>1. TypeOK /\ TypeOK' /\ LayerInv /\ EditInv /\ [Next]_vars => EditInv'
  BY EditInvStep
<1>2. EditInv => EditIsUsed
  BY DEF EditInv, EditIsUsed
<1>. QED
  BY <1>1, <1>2, EditInvInit, TypesAndLayers, PTL DEF Spec

-----------------------------------------------------------------------------
(* The bank                                                                *)

\* A press that has fired has fired holds, and no release of it taps; one that met the
\* gate has nothing left to fire; Bind targets know the zones but for those owed.
BankInv ==
  /\ Bank!BankTypeOK
  /\ \A h \in prev : acted[h] \subseteq {"hold"} /\ (acted[h] # {} => h \in holdAny)
  /\ \A h \in prev \cap spoiled : h \in holdAny /\ \A b \in Declared : Hw[b] = h => b \in fired
  /\ TapOrHold
  /\ BindFollows

\* A press that met the gate fires nothing in this step.
Inert == \A h \in Bindings : h \in spoiled \cap spoiled' => acted'[h] \subseteq acted[h]

BankKept == BankInv' /\ Inert

-----------------------------------------------------------------------------
(* Bank and pager                                                          *)

\* Between the bank's half of a poll and the pager's the bank is one poll ahead.  A release
\* that the pager has yet to see, or has pending, is of a press that fired nothing, or
\* everything pending is consumed; and a frame ends with nothing pending.
NavInv ==
  /\ phase \in {"poll", "calls", "nav", "exits", "catch"}
  /\ polled \in Reading \cup {None}
  /\ down \subseteq Bindings /\ released \subseteq Bindings
  /\ polled = None => prev = down
  /\ polled # None => phase = "poll" /\ prev = polled.down
  /\ phase = "nav" => \A b \in released : b >= next
  /\ phase \in {"exits", "catch"} => released = {}
  /\ \A b \in released \ Shifts : consume \/ b \in clean
  /\ polled # None => (~polled.gate => \A b \in (down \ polled.down) \ Shifts : consume \/ b \in clean)


-----------------------------------------------------------------------------
(* The bank's steps                                                        *)

\* No gesture leaves a zone out of range.
LEMMA FiredIs ==
  ASSUME NEW b \in Bank!Stateful, NEW g, zone[b] \in Nat, zone[b] < Zones[b]
  PROVE  Bank!Fired(b, g) \in Nat /\ Bank!Fired(b, g) < Zones[b]
<1>1. Zones[b] \in Nat /\ Zones[b] >= 2
  BY SurfaceAssumption DEF Bank!Stateful
<1>2. PICK n : n = Zones[b]
  OBVIOUS
<1>3. (zone[b] + 1) % n \in 0 .. n - 1
  BY <1>1, <1>2
<1>4. QED
  BY <1>1, <1>2, <1>3 DEF Bank!Fired

LEMMA PollOpenTyped ==
  ASSUME Bank!BankTypeOK, NEW d \in SUBSET Bindings, NEW pg \in Pages, NEW claimed,
         Bank!PollOpen(d, pg, claimed)
  PROVE  Bank!BankTypeOK'
<1>1. PICK holds, taps :
        /\ holds = Bank!HoldsDue(d, pg) /\ taps = Bank!TapsDue(d, claimed)
        /\ prev' = d
        /\ age' = [h \in Bindings |-> IF h \in d THEN Bank!Age(h, d) ELSE 0]
        /\ pressPage' = [h \in Bindings |-> IF h \in d \ prev THEN pg
                                            ELSE IF h \in d THEN pressPage[h] ELSE 0]
        /\ holdAny' = Bank!HoldAnyAfter(d, holds)
        /\ fired' = Bank!FiredAtPress(d) \cup holds
        /\ zone' = [b \in Bank!Stateful |->
                      IF b \in holds THEN Bank!Fired(b, Hold[b])
                      ELSE IF b \in taps THEN Bank!Fired(b, Bank!TapOf(b)) ELSE zone[b]]
        /\ told' = [b \in Bank!Stateful |-> IF zone'[b] # zone[b] THEN zone'[b] ELSE told[b]]
        /\ acted' = [h \in Bindings |->
             (IF h \in prev THEN acted[h] ELSE {})
             \cup (IF \E b \in holds : Hw[b] = h /\ Bank!Acts(b, Hold[b]) THEN {"hold"} ELSE {})
             \cup (IF \E b \in taps : Hw[b] = h /\ Bank!Acts(b, Bank!TapOf(b)) THEN {"tap"} ELSE {})]
        /\ spoiled' = spoiled \cap prev
        /\ dirty' = dirty
  BY DEF Bank!PollOpen
<1>2. holds \subseteq Declared /\ \A b \in holds : Hw[b] \in d
  BY <1>1 DEF Bank!HoldsDue
<1>3. age' \in [Bindings -> 0 .. HoldPolls]
  <2>1. \A h \in Bindings : age[h] \in 0 .. HoldPolls /\ HoldPolls \in Nat
    BY SurfaceAssumption DEF Bank!BankTypeOK
  <2>2. \A h \in Bindings : Bank!Age(h, d) \in 0 .. HoldPolls /\ 0 \in 0 .. HoldPolls
    BY <2>1, SurfaceAssumption DEF Bank!Age
  <2>3. QED
    BY <1>1, <2>2
<1>4. pressPage' \in [Bindings -> Pages]
  BY <1>1, Panel DEF Bank!BankTypeOK
<1>5. holdAny' \subseteq Bindings /\ fired' \subseteq Declared /\ spoiled' \subseteq Bindings
  BY <1>1, <1>2 DEF Bank!BankTypeOK, Bank!HoldAnyAfter, Bank!FiredAtPress
<1>6. ASSUME NEW b \in Bank!Stateful PROVE zone'[b] \in Nat /\ zone'[b] < Zones[b] /\ told'[b] \in Nat
  <2>1. zone[b] \in Nat /\ zone[b] < Zones[b] /\ told[b] \in Nat
    BY <1>6 DEF Bank!BankTypeOK
  <2>2. \A g : Bank!Fired(b, g) \in Nat /\ Bank!Fired(b, g) < Zones[b]
    BY <1>6, <2>1, FiredIs
  <2>3. zone'[b] = IF b \in holds THEN Bank!Fired(b, Hold[b])
                   ELSE IF b \in taps THEN Bank!Fired(b, Bank!TapOf(b)) ELSE zone[b]
    BY <1>1, <1>6
  <2>4. told'[b] = IF zone'[b] # zone[b] THEN zone'[b] ELSE told[b]
    BY <1>1, <1>6
  <2>5. QED
    BY <2>1, <2>2, <2>3, <2>4
<1>7. zone' \in [Bank!Stateful -> Nat] /\ told' \in [Bank!Stateful -> Nat]
  BY <1>1, <1>6
<1>8. acted' \in [Bindings -> SUBSET {"tap", "hold"}]
  BY <1>1 DEF Bank!BankTypeOK
<1>9. QED
  BY <1>1, <1>3, <1>4, <1>5, <1>6, <1>7, <1>8 DEF Bank!BankTypeOK, Bank!Stateful

LEMMA PollOpenKept ==
  ASSUME BankInv, NEW d \in SUBSET Bindings, NEW pg \in Pages, NEW claimed, Bank!PollOpen(d, pg, claimed)
  PROVE  BankKept
<1>1. PICK holds, taps :
        /\ holds = Bank!HoldsDue(d, pg) /\ taps = Bank!TapsDue(d, claimed)
        /\ prev' = d
        /\ holdAny' = Bank!HoldAnyAfter(d, holds)
        /\ fired' = Bank!FiredAtPress(d) \cup holds
        /\ zone' = [b \in Bank!Stateful |->
                      IF b \in holds THEN Bank!Fired(b, Hold[b])
                      ELSE IF b \in taps THEN Bank!Fired(b, Bank!TapOf(b)) ELSE zone[b]]
        /\ told' = [b \in Bank!Stateful |-> IF zone'[b] # zone[b] THEN zone'[b] ELSE told[b]]
        /\ acted' = [h \in Bindings |->
             (IF h \in prev THEN acted[h] ELSE {})
             \cup (IF \E b \in holds : Hw[b] = h /\ Bank!Acts(b, Hold[b]) THEN {"hold"} ELSE {})
             \cup (IF \E b \in taps : Hw[b] = h /\ Bank!Acts(b, Bank!TapOf(b)) THEN {"tap"} ELSE {})]
        /\ spoiled' = spoiled \cap prev
        /\ dirty' = dirty
  BY DEF Bank!PollOpen
<1>2. /\ \A b \in holds : Hw[b] \in d /\ b \notin Bank!FiredAtPress(d)
      /\ \A b \in taps : Hw[b] \in prev \ d /\ Hw[b] \notin holdAny
      /\ holds \subseteq Declared /\ taps \subseteq Declared
      /\ \A h \in prev \cap d : h \in holdAny => h \in holdAny'
      /\ \A b \in holds : Hw[b] \in holdAny'
      /\ \A b \in fired : Hw[b] \in prev \cap d => b \in Bank!FiredAtPress(d)
  BY <1>1 DEF Bank!HoldsDue, Bank!TapsDue, Bank!HoldAnyAfter, Bank!FiredAtPress
<1>3. ASSUME NEW h \in Bindings
      PROVE  /\ acted'[h] \subseteq {"hold", "tap"} \cup (IF h \in prev THEN acted[h] ELSE {})
             /\ "hold" \in acted'[h] => \/ h \in prev /\ "hold" \in acted[h]
                                        \/ \E b \in holds : Hw[b] = h
             /\ "tap" \in acted'[h] => \/ h \in prev /\ "tap" \in acted[h]
                                       \/ \E b \in taps : Hw[b] = h
             /\ h \in prev => acted'[h] \subseteq acted[h]
                                \cup (IF \E b \in holds : Hw[b] = h THEN {"hold"} ELSE {})
                                \cup (IF \E b \in taps : Hw[b] = h THEN {"tap"} ELSE {})
  BY <1>1, <1>3
<1>4. ASSUME NEW h \in prev' PROVE acted'[h] \subseteq {"hold"} /\ (acted'[h] # {} => h \in holdAny')
  <2>1. h \in d /\ h \in Bindings
    BY <1>1, <1>4
  <2>2. ~\E b \in taps : Hw[b] = h
    BY <1>2, <2>1
  <2>3. h \in prev => acted[h] \subseteq {"hold"} /\ (acted[h] # {} => h \in holdAny)
    BY DEF BankInv
  <2>4. acted'[h] \subseteq {"hold"}
    BY <1>3, <2>1, <2>2, <2>3
  <2>5. "hold" \in acted'[h] => h \in holdAny'
    BY <1>2, <1>3, <2>1, <2>3
  <2>6. QED
    BY <2>4, <2>5
<1>5. ASSUME NEW h \in prev' \cap spoiled'
      PROVE  h \in holdAny' /\ \A b \in Declared : Hw[b] = h => b \in fired'
  <2>1. h \in d /\ h \in prev \cap spoiled
    BY <1>1, <1>5
  <2>2. h \in holdAny /\ \A b \in Declared : Hw[b] = h => b \in fired
    BY <2>1 DEF BankInv
  <2>3. QED
    BY <1>1, <1>2, <2>1, <2>2
<1>6. TapOrHold'
  <2>. SUFFICES ASSUME NEW h \in Bindings PROVE acted'[h] # {"tap", "hold"}
    BY DEF TapOrHold, Bank!TapOrHold
  <2>1. CASE h \in d
    <3>1. acted'[h] \subseteq {"hold"}
      BY <1>1, <1>4, <2>1
    <3>2. QED
      BY <3>1
  <2>2. CASE h \notin d
    <3>1. ~\E b \in holds : Hw[b] = h
      BY <1>2, <2>2
    <3>2. "hold" \in acted'[h] => h \in holdAny
      BY <1>3, <3>1 DEF BankInv
    <3>3. "tap" \in acted'[h] => h \notin holdAny
      BY <1>2, <1>3 DEF BankInv
    <3>4. QED
      BY <3>2, <3>3
  <2>3. QED
    BY <2>1, <2>2
<1>7. BindFollows'
  <2>. SUFFICES ASSUME NEW b \in Bank!Stateful, b \notin dirty PROVE told'[b] = zone'[b]
    BY <1>1 DEF BindFollows, Bank!BindFollows, Bank!Stateful
  <2>1. told[b] = zone[b]
    BY DEF BankInv, BindFollows, Bank!BindFollows
  <2>2. told'[b] = IF zone'[b] # zone[b] THEN zone'[b] ELSE told[b]
    BY <1>1
  <2>3. QED
    BY <2>1, <2>2
<1>8. Inert
  <2>. SUFFICES ASSUME NEW h \in Bindings, h \in spoiled \cap spoiled' PROVE acted'[h] \subseteq acted[h]
    BY DEF Inert
  <2>1. h \in prev /\ h \in holdAny /\ \A b \in Declared : Hw[b] = h => b \in fired
    BY <1>1 DEF BankInv
  <2>2. ~\E b \in holds : Hw[b] = h
    BY <1>2, <2>1
  <2>3. ~\E b \in taps : Hw[b] = h
    BY <1>2, <2>1
  <2>4. QED
    BY <1>3, <2>1, <2>2, <2>3
<1>9. Bank!BankTypeOK'
  BY PollOpenTyped DEF BankInv
<1>10. QED
  BY <1>1, <1>4, <1>5, <1>6, <1>7, <1>8, <1>9 DEF BankKept, BankInv

LEMMA PollGatedKept ==
  ASSUME BankInv, NEW d \in SUBSET Bindings, Bank!PollGated(d)
  PROVE  BankKept
<1>1. /\ prev' = d /\ holdAny' = d /\ spoiled' = d \cup prev
      /\ age' = [h \in Bindings |-> IF h \in prev \cap d THEN age[h] ELSE 0]
      /\ pressPage' = [h \in Bindings |-> IF h \in prev \cap d THEN pressPage[h] ELSE 0]
      /\ fired' = {b \in Declared : Hw[b] \in d}
      /\ acted' = [h \in Bindings |-> IF h \in prev THEN acted[h] ELSE {}]
      /\ UNCHANGED <<zone, dirty, told>>
  BY DEF Bank!PollGated
<1>2. \A h \in Bindings : acted'[h] = IF h \in prev THEN acted[h] ELSE {}
  BY <1>1
<1>3. \A h \in prev : acted[h] \subseteq {"hold"}
  BY DEF BankInv
<1>4. \A h \in prev' : acted'[h] \subseteq {"hold"} /\ (acted'[h] # {} => h \in holdAny')
  BY <1>1, <1>2, <1>3
<1>5. \A h \in prev' \cap spoiled' : h \in holdAny' /\ \A b \in Declared : Hw[b] = h => b \in fired'
  BY <1>1
<1>6. TapOrHold' /\ BindFollows'
  <2>1. \A h \in Bindings : acted'[h] # {"tap", "hold"}
    BY <1>2, <1>3
  <2>2. BindFollows'
    BY <1>1 DEF BankInv, BindFollows, Bank!BindFollows, Bank!Stateful
  <2>3. QED
    BY <2>1, <2>2 DEF TapOrHold, Bank!TapOrHold
<1>7. Inert
  BY <1>2 DEF Inert
<1>8. Bank!BankTypeOK'
  <2>1. Bank!BankTypeOK /\ 0 \in 0 .. HoldPolls /\ 0 \in Pages
    BY Panel, SurfaceAssumption DEF BankInv
  <2>2. age' \in [Bindings -> 0 .. HoldPolls] /\ pressPage' \in [Bindings -> Pages]
    BY <1>1, <2>1 DEF Bank!BankTypeOK
  <2>3. acted' \in [Bindings -> SUBSET {"tap", "hold"}]
    BY <1>1, <2>1 DEF Bank!BankTypeOK
  <2>4. QED
    BY <1>1, <2>1, <2>2, <2>3 DEF Bank!BankTypeOK, Bank!Stateful
<1>9. QED
  BY <1>1, <1>4, <1>5, <1>6, <1>7, <1>8 DEF BankKept, BankInv

\* What is not a poll leaves every press alone and tells no lie to a Bind target.
LEMMA QuietKept ==
  ASSUME BankInv, UNCHANGED <<prev, age, pressPage, holdAny, fired, acted, spoiled>>,
         zone' \in [Bank!Stateful -> Nat], told' \in [Bank!Stateful -> Nat],
         dirty' \subseteq Bank!Stateful,
         \A b \in Bank!Stateful : zone'[b] < Zones[b] /\ (b \notin dirty' => told'[b] = zone'[b])
  PROVE  BankKept
<1>1. Bank!BankTypeOK'
  BY DEF BankInv, Bank!BankTypeOK, Bank!Stateful
<1>2. BindFollows'
  BY DEF BindFollows, Bank!BindFollows, Bank!Stateful
<1>3. QED
  BY <1>1, <1>2 DEF BankKept, BankInv, Inert, TapOrHold, Bank!TapOrHold

LEMMA StatefulIs ==
  ASSUME BankInv
  PROVE  /\ zone \in [Bank!Stateful -> Nat] /\ told \in [Bank!Stateful -> Nat]
         /\ dirty \subseteq Bank!Stateful
         /\ \A b \in Bank!Stateful : Zones[b] \in Nat \ {0, 1} /\ zone[b] < Zones[b]
         /\ \A b \in Bank!Stateful : b \notin dirty => told[b] = zone[b]
<1>1. \A b \in Bank!Stateful : Zones[b] \in Nat \ {0, 1}
  BY SurfaceAssumption DEF Bank!Stateful
<1>2. QED
  BY <1>1 DEF BankInv, Bank!BankTypeOK, BindFollows, Bank!BindFollows

LEMMA SetZoneKept ==
  ASSUME BankInv, NEW b \in Bank!Stateful, NEW z \in 0 .. Zones[b] - 1, Bank!SetZone(b, z)
  PROVE  BankKept
<1>1. /\ zone' = [zone EXCEPT ![b] = z] /\ dirty' = dirty \cup {b} /\ told' = told
      /\ UNCHANGED <<prev, age, pressPage, holdAny, fired, acted, spoiled>>
  BY DEF Bank!SetZone
<1>2. z \in Nat /\ z < Zones[b]
  BY StatefulIs
<1>3. \A c \in Bank!Stateful : zone'[c] = IF c = b THEN z ELSE zone[c]
  BY <1>1, StatefulIs
<1>4. zone' \in [Bank!Stateful -> Nat]
  BY <1>1, <1>2, StatefulIs
<1>5. QED
  BY <1>1, <1>2, <1>3, <1>4, StatefulIs, QuietKept

LEMMA DeserializeKept ==
  ASSUME BankInv, NEW v \in [Bank!Stateful -> Nat], Bank!Deserialize(v)
  PROVE  BankKept
<1>1. /\ zone' = [b \in Bank!Stateful |-> IF v[b] < Zones[b] THEN v[b] ELSE 0]
      /\ dirty' = dirty \cup {b \in Bank!Stateful : zone'[b] # zone[b]} /\ told' = told
      /\ UNCHANGED <<prev, age, pressPage, holdAny, fired, acted, spoiled>>
  BY DEF Bank!Deserialize
<1>2. zone' \in [Bank!Stateful -> Nat] /\ \A b \in Bank!Stateful : zone'[b] < Zones[b]
  BY <1>1, StatefulIs
<1>3. QED
  BY <1>1, <1>2, StatefulIs, QuietKept

LEMMA FlushKept == ASSUME BankInv, Bank!Flush PROVE BankKept
<1>1. /\ told' = [b \in Bank!Stateful |-> IF b \in dirty THEN zone[b] ELSE told[b]]
      /\ dirty' = {}
      /\ UNCHANGED <<prev, age, pressPage, holdAny, fired, acted, spoiled, zone>>
  BY DEF Bank!Flush
<1>2. told' \in [Bank!Stateful -> Nat] /\ \A b \in Bank!Stateful : told'[b] = zone[b]
  BY <1>1, StatefulIs
<1>3. QED
  BY <1>1, <1>2, StatefulIs, QuietKept


-----------------------------------------------------------------------------
(* Bank and pager together                                                 *)

\* A step of both: the invariant goes on, and a press that met the gate fires nothing.
SurfaceIInv == TypeOK /\ LayerInv /\ BankInv /\ NavInv
SurfaceKept == SurfaceIInv' /\ Inert

\* What the pager does in a step of its own is typed, and its layers are in order.
LEMMA PagerKept == ASSUME SurfaceIInv, [Next]_vars PROVE TypeOK' /\ LayerInv'
BY TypesAndLayersStep DEF SurfaceIInv

\* The bank stands still in a step of the pager.
LEMMA BankStands == ASSUME BankInv, UNCHANGED bank PROVE BankKept
<1>1. UNCHANGED <<prev, age, pressPage, holdAny, fired, acted, spoiled, zone, dirty, told>>
  BY DEF bank
<1>2. QED
  BY <1>1, StatefulIs, QuietKept

\* A release of a button that navigates is of a press that fired nothing, or is consumed.
LEMMA ReleasesAreSeen ==
  ASSUME BankInv, NEW d \in SUBSET Bindings, NEW pg, NEW claimed, Bank!PollOpen(d, pg, claimed),
         NEW b \in (prev \ d) \ Shifts, acted'[b] # {}
  PROVE  Bank!Consumes(d, pg, claimed)
<1>1. PICK holds, taps :
        /\ holds = Bank!HoldsDue(d, pg) /\ taps = Bank!TapsDue(d, claimed)
        /\ acted' = [h \in Bindings |->
             (IF h \in prev THEN acted[h] ELSE {})
             \cup (IF \E c \in holds : Hw[c] = h /\ Bank!Acts(c, Hold[c]) THEN {"hold"} ELSE {})
             \cup (IF \E c \in taps : Hw[c] = h /\ Bank!Acts(c, Bank!TapOf(c)) THEN {"tap"} ELSE {})]
  BY DEF Bank!PollOpen
<1>2. b \in Bindings /\ b \in NavHws
  BY DEF BankInv, Bank!BankTypeOK, NavHws
<1>3. \A c \in holds : Hw[c] # b
  BY <1>1 DEF Bank!HoldsDue
<1>4. \/ acted[b] # {}
      \/ \E c \in taps : Hw[c] = b /\ Bank!Acts(c, Bank!TapOf(c))
  BY <1>1, <1>2, <1>3
<1>5. CASE acted[b] # {}
  <2>1. b \in holdAny
    BY <1>5 DEF BankInv
  <2>2. QED
    BY <1>2, <2>1 DEF Bank!Consumes
<1>6. CASE \E c \in taps : Hw[c] = b /\ Bank!Acts(c, Bank!TapOf(c))
  BY <1>1, <1>2, <1>6 DEF Bank!Consumes
<1>7. QED
  BY <1>4, <1>5, <1>6

LEMMA BankPollsKept == ASSUME SurfaceIInv, NEW r \in Reading, BankPolls(r) PROVE SurfaceKept
<1>1. /\ polled = None /\ phase = "poll" /\ polled' = r /\ r # None
      /\ clean' = clean \cup {b \in prev \ r.down : acted'[b] = {}}
      /\ r.down \in SUBSET Bindings /\ r.gate \in BOOLEAN
      /\ page \in Pages /\ prev = down
  BY SurfaceAssumption DEF BankPolls, Reading, SurfaceIInv, NavInv, TypeOK
<1>2. /\ UNCHANGED <<down, pressed, released, gated, layers, view, catching, frame>>
      /\ consume' \in BOOLEAN /\ poisoned' \subseteq Bindings
      /\ consume => consume'
  <2>1. CASE ~r.gate /\ Bank!Consumes(r.down, page, Claimed)
    BY <1>1, <2>1 DEF BankPolls, ConsumedIn, SurfaceIInv, TypeOK
  <2>2. CASE ~(~r.gate /\ Bank!Consumes(r.down, page, Claimed))
    <3>1. UNCHANGED vars
      BY <2>2 DEF BankPolls
    <3>2. QED
      BY <3>1 DEF vars, buttons, SurfaceIInv, TypeOK
  <2>3. QED
    BY <2>1, <2>2
<1>3. TypeOK' /\ LayerInv'
  <2>1. UNCHANGED <<phase, next, down, pressed, released, active, lingering, used, ret, sel, page,
                    retained, relock, rearm, gated, wasOpen, phys, pots, engaged, edited, lastPhys>>
    BY <1>2 DEF layers, view, catching, frame
  <2>2. TypeOK'
    BY <1>2, <2>1 DEF SurfaceIInv, TypeOK
  <2>3. LayerInv'
    BY <2>1 DEF SurfaceIInv, LayerInv, LayerIsShown, GateShutsLayers
  <2>4. QED
    BY <2>2, <2>3
<1>4. r.gate => Bank!PollGated(r.down)
  BY DEF BankPolls
<1>5. ~r.gate => Bank!PollOpen(r.down, page, Claimed)
  BY DEF BankPolls
<1>6. BankKept
  <2>1. CASE r.gate
    BY <1>1, <1>4, <2>1, PollGatedKept DEF SurfaceIInv
  <2>2. CASE ~r.gate
    BY <1>1, <1>5, <2>2, PollOpenKept DEF SurfaceIInv
  <2>3. QED
    BY <2>1, <2>2
<1>7. prev' = r.down
  <2>1. CASE r.gate
    BY <1>4, <2>1 DEF Bank!PollGated
  <2>2. CASE ~r.gate
    BY <1>5, <2>2 DEF Bank!PollOpen
  <2>3. QED
    BY <2>1, <2>2
<1>8. ASSUME ~r.gate, NEW b \in (down \ r.down) \ Shifts PROVE consume' \/ b \in clean'
  <2>1. CASE acted'[b] = {}
    BY <1>1, <2>1
  <2>2. CASE acted'[b] # {}
    <3>1. Bank!Consumes(r.down, page, Claimed)
      BY <1>1, <1>5, <1>8, <2>2, ReleasesAreSeen DEF SurfaceIInv
    <3>2. consume' = TRUE
      BY <1>8, <3>1 DEF BankPolls, ConsumedIn
    <3>3. QED
      BY <3>2
  <2>3. QED
    BY <2>1, <2>2
<1>9. NavInv'
  <2>1. UNCHANGED <<phase, next, down, released>> /\ phase = "poll"
    BY <1>1, <1>2 DEF frame
  <2>2. \A b \in released' \ Shifts : consume' \/ b \in clean'
    BY <1>1, <1>2, <2>1 DEF SurfaceIInv, NavInv
  <2>3. ~polled'.gate => \A b \in (down' \ polled'.down) \ Shifts : consume' \/ b \in clean'
    BY <1>1, <1>8, <2>1
  <2>4. QED
    BY <1>1, <1>7, <2>1, <2>2, <2>3 DEF SurfaceIInv, NavInv
<1>10. QED
  BY <1>3, <1>6, <1>9 DEF SurfaceKept, SurfaceIInv, BankKept

LEMMA PagerPollsKept == ASSUME SurfaceIInv, PagerPolls PROVE SurfaceKept
<1>1. /\ polled # None /\ polled' = None /\ UNCHANGED bank /\ clean' = clean
      /\ polled.down \in SUBSET Bindings /\ polled.gate \in BOOLEAN /\ prev = polled.down
      /\ phase = "poll"
  BY DEF PagerPolls, SurfaceIInv, NavInv, Reading
<1>2. Next
  BY <1>1 DEF PagerPolls, Next, Polling
<1>3. BankKept
  BY <1>1, BankStands DEF SurfaceIInv
<1>4. /\ down' = polled.down /\ consume' = consume /\ phase' = phase
      /\ released' \subseteq released \cup (IF polled.gate THEN {} ELSE down \ polled.down)
  <2>1. CASE polled.gate /\ PollGateRises(polled.down)
    BY <2>1 DEF PollGateRises, frame
  <2>2. CASE PollGated(polled.down, polled.gate)
    BY <2>2 DEF PollGated, frame
  <2>3. CASE ~polled.gate /\ PollChord(polled.down)
    BY <2>3 DEF PollChord, frame
  <2>4. CASE ~polled.gate /\ Poll(polled.down)
    BY <2>4 DEF Poll, frame
  <2>5. QED
    BY <2>1, <2>2, <2>3, <2>4 DEF PagerPolls
<1>5. NavInv'
  <2>1. \A b \in released' \ Shifts : consume' \/ b \in clean'
    BY <1>1, <1>4 DEF SurfaceIInv, NavInv
  <2>2. released' \subseteq Bindings /\ down' \subseteq Bindings /\ prev' = down'
    BY <1>1, <1>4 DEF SurfaceIInv, NavInv, bank
  <2>3. QED
    BY <1>1, <1>4, <2>1, <2>2 DEF NavInv
<1>6. QED
  BY <1>2, <1>3, <1>5, PagerKept DEF SurfaceKept, SurfaceIInv, BankKept


\* What the pager does outside its navigation leaves the edges as they are.
LEMMA EdgesStand ==
  ASSUME SurfaceIInv, polled = None, polled' = None, clean' = clean, BankKept,
         [Next]_vars, UNCHANGED <<prev, down, released, consume>>,
         phase' \in {"poll", "calls"} \/ UNCHANGED <<phase, next>>
  PROVE  SurfaceKept
<1>1. NavInv'
  BY DEF SurfaceIInv, NavInv
<1>2. QED
  BY <1>1, PagerKept DEF SurfaceKept, SurfaceIInv, BankKept

LEMMA CallsInKept == ASSUME SurfaceIInv, CallsIn PROVE SurfaceKept
<1>1. polled = None /\ polled' = None /\ clean' = clean /\ phase = "poll"
  BY DEF CallsIn
<1>2. ASSUME NEW b \in Bank!Stateful, NEW z \in 0 .. Zones[b] - 1, Bank!SetZone(b, z), UNCHANGED vars
      PROVE  SurfaceKept
  <2>1. BankKept /\ UNCHANGED prev
    BY <1>2, SetZoneKept DEF Bank!SetZone, SurfaceIInv
  <2>2. QED
    BY <1>1, <1>2, <2>1, EdgesStand DEF vars, buttons, frame
<1>3. ASSUME NEW v \in [Bank!Stateful -> 0 .. 2], Bank!Deserialize(v), UNCHANGED vars
      PROVE  SurfaceKept
  <2>1. v \in [Bank!Stateful -> Nat]
    BY <1>3
  <2>2. BankKept /\ UNCHANGED prev
    BY <1>3, <2>1, DeserializeKept DEF Bank!Deserialize, SurfaceIInv
  <2>3. QED
    BY <1>1, <1>3, <2>2, EdgesStand DEF vars, buttons, frame
<1>4. ASSUME NEW pg \in Pages, GoToPage(pg), UNCHANGED bank PROVE SurfaceKept
  <2>1. Next
    BY <1>4 DEF Next, Calls
  <2>2. BankKept /\ UNCHANGED prev
    BY <1>4, BankStands DEF SurfaceIInv, bank
  <2>3. UNCHANGED <<down, released, consume, phase, next>>
    BY <1>4 DEF GoToPage, buttons, frame
  <2>4. QED
    BY <1>1, <2>1, <2>2, <2>3, EdgesStand
<1>5. QED
  BY <1>2, <1>3, <1>4 DEF CallsIn

LEMMA FrameBeginsKept == ASSUME SurfaceIInv, FrameBegins PROVE SurfaceKept
<1>1. polled = None /\ polled' = None /\ clean' = clean /\ Bank!Flush
  BY DEF FrameBegins
<1>2. BankKept /\ UNCHANGED prev
  BY <1>1, FlushKept DEF Bank!Flush, SurfaceIInv
<1>3. PICK x \in [Pots -> Positions] : FrameInSettings(x) \/ Frame(x)
  BY DEF FrameBegins
<1>4. Next
  BY <1>3 DEF Next, Tick
<1>5. UNCHANGED <<down, released, consume>> /\ phase' \in {"poll", "calls"}
  BY <1>3 DEF FrameInSettings, Frame, buttons
<1>6. QED
  BY <1>1, <1>2, <1>4, <1>5, EdgesStand

LEMMA FrameGoesOnKept == ASSUME SurfaceIInv, FrameGoesOn PROVE SurfaceKept
<1>1. polled = None /\ polled' = None /\ clean' = clean /\ UNCHANGED bank
  BY DEF FrameGoesOn, SurfaceIInv, NavInv
<1>2. BankKept /\ UNCHANGED prev
  BY <1>1, BankStands DEF SurfaceIInv, bank
<1>3. Next
  BY DEF FrameGoesOn, Next, Tick
<1>4. released \subseteq Bindings /\ NumBindings \in Nat /\ Bindings = 1 .. NumBindings
  BY Panel DEF SurfaceIInv, NavInv, Bindings
<1>5. CASE BeginUpdate
  <2>1. UNCHANGED <<down, released, consume>> /\ phase' = "nav" /\ next' = 1
    BY <1>5 DEF BeginUpdate, buttons
  <2>2. NavInv'
    BY <1>1, <1>2, <1>4, <2>1 DEF SurfaceIInv, NavInv
  <2>3. QED
    BY <1>2, <1>3, <2>2, PagerKept DEF SurfaceKept, SurfaceIInv, BankKept
<1>6. CASE NavDone
  <2>1. UNCHANGED <<down, released, consume>> /\ phase' = "exits" /\ phase = "nav" /\ next = NumBindings + 1
    BY <1>6 DEF NavDone, buttons
  <2>2. released = {}
    <3>1. \A b \in released : b >= next /\ b \in 1 .. NumBindings
      BY <1>4, <2>1 DEF SurfaceIInv, NavInv
    <3>2. QED
      BY <1>4, <2>1, <3>1
  <2>3. NavInv'
    BY <1>1, <1>2, <2>1, <2>2 DEF SurfaceIInv, NavInv
  <2>4. QED
    BY <1>2, <1>3, <2>3, PagerKept DEF SurfaceKept, SurfaceIInv, BankKept
<1>7. CASE NoMoreExits
  <2>1. UNCHANGED <<down, released, consume>> /\ phase' = "catch" /\ phase = "exits"
    BY <1>7 DEF NoMoreExits, buttons
  <2>2. NavInv'
    BY <1>1, <1>2, <2>1 DEF SurfaceIInv, NavInv
  <2>3. QED
    BY <1>2, <1>3, <2>2, PagerKept DEF SurfaceKept, SurfaceIInv, BankKept
<1>8. CASE Catch
  <2>1. UNCHANGED <<down, released>> /\ phase' = "poll" /\ phase = "catch"
    BY <1>8 DEF Catch, buttons
  <2>2. NavInv'
    BY <1>1, <1>2, <2>1 DEF SurfaceIInv, NavInv
  <2>3. QED
    BY <1>2, <1>3, <2>2, PagerKept DEF SurfaceKept, SurfaceIInv, BankKept
<1>9. ASSUME NEW b \in Shifts, DeferredExit(b) PROVE SurfaceKept
  <2>1. UNCHANGED <<down, released, consume, phase, next>>
    BY <1>9 DEF DeferredExit, buttons, frame
  <2>2. QED
    BY <1>1, <1>2, <1>3, <2>1, EdgesStand
<1>10. QED
  BY <1>5, <1>6, <1>7, <1>8, <1>9 DEF FrameGoesOn

LEMMA FrameNavigatesKept == ASSUME SurfaceIInv, FrameNavigates PROVE SurfaceKept
<1>1. PICK b \in Bindings : Nav(b) /\ clean' = clean \ {b} /\ UNCHANGED <<polled, bank>>
  BY DEF FrameNavigates
<1>2. Taken(b)
  BY <1>1 DEF Nav, NavNothing, ShiftEngages, ShiftStaysIdle, ShiftResumes, ShiftResumesAndExits,
              ShiftLingers, ShiftExits, ShiftReengages, DoCycle, DoLatch, NavIgnored
<1>3. /\ phase = "nav" /\ phase' = "nav" /\ next = b /\ next' = b + 1
      /\ released' = released \ {b} /\ UNCHANGED <<down, consume>>
  BY <1>2 DEF Taken
<1>4. Next
  BY <1>1 DEF Next, Tick
<1>5. BankKept /\ UNCHANGED prev /\ polled = None /\ polled' = None
  BY <1>1, <1>3, BankStands DEF SurfaceIInv, NavInv, bank
<1>6. \A c \in released' : c >= next'
  <2>1. \A c \in released : c \in Nat /\ c >= b
    BY <1>3, Panel DEF SurfaceIInv, NavInv
  <2>2. b \in Nat
    BY Panel
  <2>3. QED
    BY <1>3, <2>1, <2>2
<1>7. NavInv'
  BY <1>1, <1>3, <1>5, <1>6 DEF SurfaceIInv, NavInv
<1>8. QED
  BY <1>4, <1>5, <1>7, PagerKept DEF SurfaceKept, SurfaceIInv, BankKept

-----------------------------------------------------------------------------
(* The theorems                                                            *)

LEMMA SurfaceInitHolds == SurfaceInit => SurfaceIInv
<1>. SUFFICES ASSUME SurfaceInit PROVE SurfaceIInv
  OBVIOUS
<1>1. TypeOK /\ LayerInv
  BY TypesAndLayersInit DEF SurfaceInit
<1>2. Bank!BankTypeOK
  <2>1. \A b \in Bank!Stateful : 0 < Zones[b]
    BY SurfaceAssumption DEF Bank!Stateful
  <2>2. 0 \in 0 .. HoldPolls /\ 0 \in Pages
    BY SurfaceAssumption, Panel
  <2>3. QED
    BY <2>1, <2>2 DEF SurfaceInit, Bank!BankInit, Bank!BankTypeOK
<1>3. BankInv
  BY <1>2 DEF SurfaceInit, Bank!BankInit, BankInv, TapOrHold, Bank!TapOrHold, BindFollows,
              Bank!BindFollows
<1>4. NavInv
  BY DEF SurfaceInit, Bank!BankInit, Init, NavInv
<1>5. QED
  BY <1>1, <1>3, <1>4 DEF SurfaceIInv

LEMMA SurfaceStepHolds == SurfaceIInv /\ [SurfaceNext]_surface => SurfaceKept
<1>. SUFFICES ASSUME SurfaceIInv, [SurfaceNext]_surface PROVE SurfaceKept
  OBVIOUS
<1>1. CASE UNCHANGED surface
  <2>1. UNCHANGED <<vars, bank, polled, clean>>
    BY <1>1 DEF surface
  <2>2. TypeOK' /\ LayerInv'
    BY <2>1, TypesAndLayersStep DEF SurfaceIInv
  <2>3. BankKept
    BY <2>1, BankStands DEF SurfaceIInv
  <2>4. NavInv'
    BY <2>1 DEF SurfaceIInv, NavInv, vars, buttons, frame, bank
  <2>5. QED
    BY <2>2, <2>3, <2>4 DEF SurfaceKept, SurfaceIInv, BankKept
<1>2. CASE SurfaceNext
  BY <1>2, BankPollsKept, PagerPollsKept, CallsInKept, FrameBeginsKept, FrameGoesOnKept,
     FrameNavigatesKept DEF SurfaceNext
<1>3. QED
  BY <1>1, <1>2

LEMMA AlwaysInStep == SurfaceSpec => []SurfaceIInv
<1>1. SurfaceIInv /\ [SurfaceNext]_surface => SurfaceIInv'
  BY SurfaceStepHolds DEF SurfaceKept
<1>2. QED
  BY <1>1, SurfaceInitHolds, PTL DEF SurfaceSpec

\* Bank and pager together stay in their ranges, a press taps or holds and never both,
\* and a Bind target that is owed no notification has the button's zone.
THEOREM GesturesAreSound == SurfaceSpec => [](TypeOK /\ Bank!BankTypeOK /\ TapOrHold /\ BindFollows)
<1>1. SurfaceIInv => TypeOK /\ Bank!BankTypeOK /\ TapOrHold /\ BindFollows
  BY DEF SurfaceIInv, BankInv
<1>2. QED
  BY <1>1, AlwaysInStep, PTL

\* A press during which Settings was open fires nothing any more.
THEOREM GatedPressIsInert == SurfaceSpec => GatedIsInert
<1>1. SurfaceIInv /\ [SurfaceNext]_surface
      => [\A h \in Bindings : h \in spoiled \cap spoiled' => acted'[h] \subseteq acted[h]]_(Bank!bankVars)
  BY SurfaceStepHolds DEF SurfaceKept, Inert
<1>2. QED
  BY <1>1, AlwaysInStep, PTL DEF SurfaceSpec, GatedIsInert, Bank!GatedIsInert

\* Gestures shadow page navigation: a cycle or a latch acts only when one of the releases
\* it has pending ended a press in which no gesture fired.
THEOREM GesturesShadowNav == SurfaceSpec => NavIsShadowed
<1>1. SurfaceIInv => \A b \in Bindings : DoCycle(b) \/ DoLatch(b) => b \in clean
  BY DEF SurfaceIInv, NavInv, DoCycle, DoLatch, CleanRelease, Shifts
<1>2. SurfaceIInv /\ [SurfaceNext]_surface
      => [\A b \in Bindings : DoCycle(b) \/ DoLatch(b) => b \in clean]_surface
  BY <1>1
<1>3. QED
  BY <1>2, AlwaysInStep, PTL DEF SurfaceSpec, NavIsShadowed

\* A press that the gate discarded or a gesture used has nothing left to do: the same pair of
\* promises as the two theorems above make, for any buttons, zones, bindings and pages.
THEOREM SpentPressesAreInert == SurfaceSpec => SpentPressIsInert
BY GatedPressIsInert, GesturesShadowNav, PTL DEF SpentPressIsInert

-----------------------------------------------------------------------------
(* The clip indicator                                                      *)

\* What has come to the window in the last `ago` milliseconds.
Newer(ago) == IF ago = 0 THEN 0 ELSE account.upTo[ago - 1]

ClipTypeOK ==
  /\ clip \in [count : 0 .. Wrap - 1, seen : 0 .. Wrap - 1, credit : Nat, hold : Nat, lit : BOOLEAN,
               enabled : BOOLEAN]
  /\ poll \in [at : {"idle", "tick", "reset"}, now : 0 .. Wrap - 1, dt : Nat]
  /\ account \in [owed : Nat, upTo : [0 .. WindowMs - 1 -> Nat], since : 0 .. Never]
  /\ poll.at = "tick" => poll.dt > 0

\* The bucket never holds more than its brim less what has leaked in some time and what came in
\* that time: whatever filled it before the window has leaked out.
BucketLeaks == \A ago \in 0 .. WindowMs : clip.credit + MinClipped * ago <= Brim + WindowMs * Newer(ago)

ClipInv ==
  /\ ClipTypeOK /\ BucketLeaks
  /\ poll.at # "reset" =>
       /\ (clip.count - (IF poll.at = "tick" THEN poll.now ELSE clip.seen)) % Wrap = account.owed
       /\ clip.hold = Most(0, HoldMs - account.since)
       /\ clip.lit <=> account.since < Most(1, HoldMs)
  /\ account.since = 0 => account.upTo[WindowMs - 1] >= MinClipped

LEMMA ModOf ==
  ASSUME NEW m \in Nat \ {0}, NEW q \in Int, NEW r \in 0 .. m - 1, NEW a \in Int, a = m * q + r
  PROVE  a % m = r
OBVIOUS

LEMMA ModRange ==
  ASSUME NEW m \in Nat \ {0}, NEW a \in Int
  PROVE  a % m \in 0 .. m - 1
OBVIOUS

LEMMA Scaled ==
  ASSUME NEW a \in Nat, NEW b \in Nat, NEW c \in Nat, b <= c
  PROVE  a * b \in Nat /\ a * c \in Nat /\ a * b <= a * c
<1>1. PICK d \in Nat : c = b + d
  OBVIOUS
<1>2. a * c = a * b + a * d /\ a * d \in Nat /\ a * b \in Nat
  BY <1>1
<1>. DEFINE ab == a * b  ac == a * c  ad == a * d
<1>3. ac = ab + ad /\ ad \in Nat /\ ab \in Nat
  BY <1>2
<1>. HIDE DEF ab, ac, ad
<1>4. ab <= ac /\ ac \in Nat
  BY <1>3
<1>. QED
  BY <1>3, <1>4 DEF ab, ac

LEMMA NothingBehind ==
  ASSUME NEW m \in Nat \ {0}, NEW a \in Int
  PROVE  (a - a) % m = 0
<1>1. a - a = 0 /\ 0 % m = 0
  OBVIOUS
<1>. QED
  BY <1>1

LEMMA ClipConstants ==
  /\ MinClipped \in Nat \ {0} /\ WindowMs \in Nat \ {0} /\ Wrap \in Nat \ {0} /\ HoldMs \in Nat
  /\ Frames \subseteq Nat \ {0} /\ Brim \in Nat /\ Brim = MinClipped * WindowMs
  /\ Never = HoldMs + 1 /\ Stride \in Nat
BY IndicatorAssumption DEF Brim, Never, Stride, Most, Least

\* Counting over the wrap.
\* How far a count is past another, and a count that goes on.
Behind(count, seen) == (count - seen) % Wrap
Onward(count, hits) == (count + hits) % Wrap

LEMMA CountsOn ==
  ASSUME NEW a \in Int, NEW x \in Int, NEW h \in Nat, NEW o \in Nat, Behind(a, x) = o, o + h < Wrap
  PROVE  Behind(Onward(a, h), x) = o + h
<1>1. Wrap \in Nat \ {0} /\ (a - x) % Wrap = o
  BY ClipConstants DEF Behind
<1>2. ((Onward(a, h)) - x) % Wrap = o + h
  <2>. DEFINE q == (a - x) \div Wrap
              r == (a + h) \div Wrap
              s == Onward(a, h)
  <2>1. q \in Int /\ a - x = Wrap * q + o
    BY <1>1
  <2>2. r \in Int /\ a + h = Wrap * r + s /\ s \in Int
    BY <1>1 DEF Onward
  <2>. HIDE DEF q, r, s
  <2>3. Wrap * (q - r) = Wrap * q - Wrap * r /\ Wrap * q \in Int /\ Wrap * r \in Int
    BY <1>1, <2>1, <2>2
  <2>4. s - x = Wrap * (q - r) + (o + h) /\ q - r \in Int /\ o + h \in 0 .. Wrap - 1
    BY <1>1, <2>1, <2>2, <2>3
  <2>5. \A m \in Nat \ {0}, k \in Int, b \in Int : \A e \in 0 .. m - 1 : b = m * k + e => b % m = e
    BY ModOf
  <2>6. s - x \in Int
    BY <2>2
  <2>. DEFINE d == s - x  e == o + h  k == q - r
  <2>7. d \in Int /\ e \in 0 .. Wrap - 1 /\ k \in Int /\ d = Wrap * k + e
    BY <2>4, <2>6
  <2>. HIDE DEF d, e, k
  <2>8. d % Wrap = e
    BY <1>1, <2>5, <2>7
  <2>. QED
    BY <2>8 DEF d, e, s
<1>. QED
  BY <1>2 DEF Behind

\* What leaks before new samples come leaves the bucket below its bounds.
LEMMA LeakIs ==
  ASSUME ClipTypeOK, BucketLeaks, NEW dt \in Nat \ {0}, NEW fresh \in Nat
  PROVE  LET credit == Refilled(Most(0, clip.credit - MinClipped * dt), fresh)
             upTo == Recent(account.upTo, dt, fresh)
         IN  /\ credit \in Nat /\ credit <= Brim /\ upTo \in [0 .. WindowMs - 1 -> Nat]
             /\ \A ago \in 0 .. WindowMs :
                  credit + MinClipped * ago
                    <= Brim + WindowMs * (IF ago = 0 THEN 0 ELSE upTo[ago - 1])
<1>. DEFINE leaked == Most(0, clip.credit - MinClipped * dt)
            credit == Refilled(leaked, fresh)
            upTo == Recent(account.upTo, dt, fresh)
<1>c. MinClipped \in Nat \ {0} /\ WindowMs \in Nat \ {0} /\ Brim \in Nat
  BY ClipConstants
<1>b. Brim = MinClipped * WindowMs
  BY ClipConstants
<1>t. clip.credit \in Nat /\ account.upTo \in [0 .. WindowMs - 1 -> Nat]
  BY DEF ClipTypeOK
<1>m. MinClipped * dt \in Nat /\ fresh * WindowMs \in Nat /\ WindowMs * fresh = fresh * WindowMs
  BY <1>c
<1>1. leaked \in Nat /\ (leaked = 0 \/ leaked = clip.credit - MinClipped * dt)
  BY <1>t, <1>m DEF Most
<1>. HIDE DEF leaked
<1>2. credit \in Nat /\ credit <= Brim /\ credit <= leaked + fresh * WindowMs
  BY <1>1, <1>c, <1>m DEF Refilled, Least
<1>. HIDE DEF credit
<1>3. /\ upTo = [ago \in 0 .. WindowMs - 1 |-> fresh + IF ago >= dt THEN account.upTo[ago - dt] ELSE 0]
      /\ upTo \in [0 .. WindowMs - 1 -> Nat]
  BY <1>t, <1>c DEF Recent
<1>. HIDE DEF upTo
<1>4. ASSUME NEW ago \in 0 .. WindowMs
      PROVE  credit + MinClipped * ago <= Brim + WindowMs * (IF ago = 0 THEN 0 ELSE upTo[ago - 1])
  <2>1. CASE ago = 0
    BY <1>c, <1>2, <2>1
  <2>2. CASE ago # 0
    <3>1. ago \in Nat /\ ago - 1 \in 0 .. WindowMs - 1 /\ ago <= WindowMs
      BY <1>c, <2>2
    <3>2. MinClipped * ago \in Nat /\ MinClipped * ago <= Brim
      BY <1>b, <1>c, <3>1, Scaled
    <3>3. CASE ago <= dt
      <4>1. upTo[ago - 1] = fresh
        BY <1>3, <3>1, <3>3
      <4>2. MinClipped * ago <= MinClipped * dt
        BY <1>c, <3>1, <3>3, Scaled
      <4>3. clip.credit <= Brim
        <5>1. clip.credit + MinClipped * 0 <= Brim + WindowMs * Newer(0)
          BY <1>c DEF BucketLeaks
        <5>. QED
          BY <1>c, <1>t, <5>1 DEF Newer
      <4>. DEFINE mA == MinClipped * ago  mD == MinClipped * dt  wF == fresh * WindowMs
      <4>5. credit + mA <= Brim + wF
        <5>1. /\ mA \in Nat /\ mD \in Nat /\ wF \in Nat /\ mA <= Brim /\ mA <= mD
              /\ leaked = 0 \/ leaked = clip.credit - mD
              /\ credit <= leaked + wF
          BY <1>m, <1>1, <1>2, <3>2, <4>2
        <5>2. credit \in Nat /\ clip.credit \in Nat /\ Brim \in Nat /\ credit <= Brim
          BY <1>c, <1>t, <1>2
        <5>. HIDE DEF mA, mD, wF
        <5>3. CASE leaked = 0
          BY <5>1, <5>2, <5>3
        <5>4. CASE leaked = clip.credit - mD
          BY <4>3, <5>1, <5>2, <5>4
        <5>. QED
          BY <5>1, <5>3, <5>4
      <4>. QED
        BY <1>m, <2>2, <4>1, <4>5
    <3>4. CASE ago > dt
      <4>. DEFINE old == account.upTo[ago - 1 - dt]
      <4>1. upTo[ago - 1] = fresh + old /\ old \in Nat
        <5>1. ago - 1 >= dt /\ ago - 1 - dt \in 0 .. WindowMs - 1
          BY <1>c, <3>1, <3>4
        <5>. QED
          BY <1>3, <1>t, <3>1, <5>1
      <4>2. clip.credit + MinClipped * (ago - dt) <= Brim + WindowMs * old
        <5>1. ago - dt \in 0 .. WindowMs /\ ago - dt # 0 /\ (ago - dt) - 1 = (ago - 1) - dt
          BY <1>c, <3>1, <3>4
        <5>. QED
          BY <5>1 DEF BucketLeaks, Newer
      <4>. HIDE DEF old
      <4>. DEFINE mA == MinClipped * ago  mD == MinClipped * dt  wF == fresh * WindowMs
                  wO == WindowMs * old
      <4>3. /\ MinClipped * (ago - dt) = mA - mD
            /\ WindowMs * (fresh + old) = wF + wO
            /\ wO \in Nat
        BY <1>c, <3>1, <4>1
      <4>5. credit + mA <= Brim + (wF + wO)
        <5>1. /\ mA \in Nat /\ mD \in Nat /\ wF \in Nat /\ mA <= Brim /\ wO \in Nat
              /\ leaked = 0 \/ leaked = clip.credit - mD
              /\ credit <= leaked + wF
              /\ clip.credit + (mA - mD) <= Brim + wO
          BY <1>m, <1>1, <1>2, <3>2, <4>2, <4>3
        <5>. HIDE DEF mA, mD, wF, wO
        <5>. QED
          BY <1>c, <1>t, <1>1, <1>2, <5>1
      <4>. QED
        BY <2>2, <4>1, <4>3, <4>5
    <3>. QED
      BY <3>1, <3>3, <3>4
  <2>. QED
    BY <2>1, <2>2
<1>. QED
  BY <1>2, <1>3, <1>4 DEF credit, leaked, upTo

LEMMA ClipStarts == ClipInit => ClipInv
<1>. SUFFICES ASSUME ClipInit PROVE ClipInv
  OBVIOUS
<1>c. /\ MinClipped \in Nat \ {0} /\ WindowMs \in Nat \ {0} /\ Wrap \in Nat \ {0} /\ HoldMs \in Nat
      /\ Brim = MinClipped * WindowMs /\ Never = HoldMs + 1
  BY ClipConstants
<1>1. Unheard.upTo = [ago \in 0 .. WindowMs - 1 |-> 0] /\ Unheard.owed = 0 /\ Unheard.since = Never
  BY DEF Unheard
<1>2. /\ clip.count = 0 /\ clip.seen = 0 /\ clip.credit = 0 /\ clip.hold = 0 /\ clip.lit = FALSE
      /\ poll.at = "idle" /\ account = Unheard
  BY DEF ClipInit
<1>3. ClipTypeOK
  BY <1>c DEF ClipTypeOK, ClipInit, Unheard
<1>4. BucketLeaks
  <2>1. \A ago \in 0 .. WindowMs : Newer(ago) = 0
    BY <1>1, <1>2, <1>c DEF Newer
  <2>2. ASSUME NEW ago \in 0 .. WindowMs PROVE MinClipped * ago <= Brim
    BY <1>c
  <2>. QED
    BY <1>c, <1>2, <2>1, <2>2 DEF BucketLeaks
<1>5. (0 - 0) % Wrap = 0
  BY <1>c
<1>6. Most(0, HoldMs - Never) = 0 /\ ~(Never < Most(1, HoldMs)) /\ Never # 0
  BY <1>c DEF Most
<1>. QED
  BY <1>1, <1>2, <1>3, <1>4, <1>5, <1>6 DEF ClipInv

\* The history counts the milliseconds since the light fired up to one past the hold.
LEMMA HoldIs ==
  ASSUME NEW since \in 0 .. Never, NEW dt \in Nat \ {0}
  PROVE  LET then == Least(Never, since + dt)
             hold == Most(0, Most(0, HoldMs - since) - dt)
         IN  /\ then \in 0 .. Never /\ then # 0 /\ hold \in Nat
             /\ hold = Most(0, HoldMs - then)
             /\ hold > 0 <=> then < Most(1, HoldMs)
BY ClipConstants DEF Least, Most

LEMMA ClipStep == ClipInv /\ [ClipNext]_clipVars => ClipInv'
<1>. SUFFICES ASSUME ClipInv, [ClipNext]_clipVars PROVE ClipInv'
  OBVIOUS
<1>c. /\ MinClipped \in Nat \ {0} /\ WindowMs \in Nat \ {0} /\ Wrap \in Nat \ {0} /\ HoldMs \in Nat
      /\ Frames \subseteq Nat \ {0} /\ Brim \in Nat /\ Brim = MinClipped * WindowMs
      /\ Never = HoldMs + 1 /\ Stride \in Nat
  BY ClipConstants
<1>t. /\ clip.count \in 0 .. Wrap - 1 /\ clip.seen \in 0 .. Wrap - 1 /\ clip.credit \in Nat
      /\ clip.hold \in Nat /\ clip.lit \in BOOLEAN /\ clip.enabled \in BOOLEAN
      /\ clip = [count |-> clip.count, seen |-> clip.seen, credit |-> clip.credit, hold |-> clip.hold,
                 lit |-> clip.lit, enabled |-> clip.enabled]
      /\ poll = [at |-> poll.at, now |-> poll.now, dt |-> poll.dt]
      /\ poll.at \in {"idle", "tick", "reset"} /\ poll.now \in 0 .. Wrap - 1 /\ poll.dt \in Nat
      /\ account.owed \in Nat /\ account.upTo \in [0 .. WindowMs - 1 -> Nat]
      /\ account.since \in 0 .. Never
      /\ account = [owed |-> account.owed, upTo |-> account.upTo, since |-> account.since]
  BY DEF ClipInv, ClipTypeOK
<1>1. ASSUME NEW hits \in 0 .. MostHits, Process(hits) PROVE ClipInv'
  <2>. DEFINE h == hits * Stride
  <2>1. /\ h \in Nat /\ account.owed + h < Wrap /\ poll' = poll
        /\ clip' = [clip EXCEPT !.count = (@ + h) % Wrap]
        /\ account' = [account EXCEPT !.owed = @ + h]
    BY <1>1, <1>c, IndicatorAssumption DEF Process
  <2>. HIDE DEF h
  <2>2. /\ clip'.count = (clip.count + h) % Wrap /\ clip'.seen = clip.seen
        /\ clip'.credit = clip.credit /\ clip'.hold = clip.hold /\ clip'.lit = clip.lit
        /\ account'.owed = account.owed + h /\ account'.upTo = account.upTo
        /\ account'.since = account.since
    BY <1>t, <2>1
  <2>3. ClipTypeOK'
    <3>. DEFINE c == (clip.count + h) % Wrap  o == account.owed + h
    <3>1. c \in 0 .. Wrap - 1
      <4>1. clip.count + h \in Int
        BY <1>t, <2>1
      <4>. QED
        BY <1>c, <4>1, ModRange
    <3>2. o \in Nat
      BY <1>t, <2>1
    <3>3. /\ clip' = [count |-> c, seen |-> clip.seen, credit |-> clip.credit, hold |-> clip.hold,
                     lit |-> clip.lit, enabled |-> clip.enabled]
          /\ account' = [owed |-> o, upTo |-> account.upTo, since |-> account.since]
      BY <1>t, <2>1
    <3>. HIDE DEF c, o
    <3>4. clip' \in [count : 0 .. Wrap - 1, seen : 0 .. Wrap - 1, credit : Nat, hold : Nat,
                     lit : BOOLEAN, enabled : BOOLEAN]
      BY <1>t, <3>1, <3>3
    <3>5. account' \in [owed : Nat, upTo : [0 .. WindowMs - 1 -> Nat], since : 0 .. Never]
      BY <1>t, <3>2, <3>3
    <3>. QED
      BY <2>1, <3>4, <3>5 DEF ClipInv, ClipTypeOK
  <2>4. BucketLeaks'
    BY <2>2 DEF ClipInv, BucketLeaks, Newer
  <2>5. ASSUME poll'.at # "reset"
        PROVE  (clip'.count - (IF poll'.at = "tick" THEN poll'.now ELSE clip'.seen)) % Wrap = account'.owed
    <3>. DEFINE x == IF poll.at = "tick" THEN poll.now ELSE clip.seen
    <3>1. x \in Int /\ (clip.count - x) % Wrap = account.owed
      BY <1>t, <2>1, <2>5 DEF ClipInv
    <3>. HIDE DEF x
    <3>2. (((clip.count + h) % Wrap) - x) % Wrap = account.owed + h
      <4>. DEFINE a == clip.count  o == account.owed
      <4>1. a \in Int /\ o \in Nat /\ h \in Nat /\ (a - x) % Wrap = o /\ o + h < Wrap
        BY <1>t, <2>1, <3>1
      <4>. HIDE DEF a, o
      <4>2. Behind(a, x) = o
        BY <4>1 DEF Behind
      <4>3. Behind(Onward(a, h), x) = o + h
        BY <3>1, <4>1, <4>2, CountsOn
      <4>. QED
        BY <4>3 DEF a, o, Behind, Onward
    <3>. QED
      BY <2>1, <2>2, <3>2 DEF x
  <2>. QED
    BY <2>1, <2>2, <2>3, <2>4, <2>5 DEF ClipInv
<1>2. ASSUME NEW dt \in Frames, TickBegins(dt) PROVE ClipInv'
  <2>1. /\ poll.at = "idle" /\ poll' = [at |-> "tick", now |-> clip.count, dt |-> dt]
        /\ account' = [account EXCEPT !.owed = 0] /\ clip' = clip
    BY <1>2 DEF TickBegins
  <2>2. /\ account'.owed = 0 /\ account'.upTo = account.upTo /\ account'.since = account.since
        /\ poll'.at = "tick" /\ poll'.now = clip.count
    BY <1>t, <2>1
  <2>3. ClipTypeOK'
    <3>1. dt \in Nat \ {0}
      BY <1>2, <1>c
    <3>2. account' = [owed |-> 0, upTo |-> account.upTo, since |-> account.since]
      BY <1>t, <2>1
    <3>. QED
      BY <1>t, <2>1, <3>1, <3>2 DEF ClipInv, ClipTypeOK
  <2>4. BucketLeaks'
    BY <2>1, <2>2 DEF ClipInv, BucketLeaks, Newer
  <2>5. (clip.count - clip.count) % Wrap = 0
    BY <1>c, <1>t, NothingBehind
  <2>. QED
    BY <2>1, <2>2, <2>3, <2>4, <2>5 DEF ClipInv
<1>3. CASE TickEnds
  <2>. DEFINE fresh == (poll.now - clip.seen) % Wrap
              credit == Refilled(Most(0, clip.credit - MinClipped * poll.dt), fresh)
              upTo == Recent(account.upTo, poll.dt, fresh)
              fires == credit >= Brim
              hold == IF fires THEN HoldMs ELSE Most(0, clip.hold - poll.dt)
              since == IF fires THEN 0 ELSE Least(Never, account.since + poll.dt)
              lit == fires \/ hold > 0
  <2>1. /\ poll.at = "tick" /\ poll' = [at |-> "idle", now |-> 0, dt |-> 0]
        /\ clip' = [clip EXCEPT !.seen = poll.now, !.credit = credit, !.hold = hold, !.lit = lit]
        /\ account' = [account EXCEPT !.upTo = upTo, !.since = since]
    BY <1>3 DEF TickEnds, SeenCount
  <2>2. fresh \in Nat /\ poll.dt \in Nat \ {0}
    <3>1. poll.now - clip.seen \in Int
      BY <1>t
    <3>2. fresh \in 0 .. Wrap - 1
      BY <1>c, <3>1, ModRange
    <3>. QED
      BY <1>c, <1>t, <2>1, <3>2 DEF ClipInv, ClipTypeOK
  <2>3. /\ credit \in Nat /\ credit <= Brim /\ upTo \in [0 .. WindowMs - 1 -> Nat]
        /\ \A ago \in 0 .. WindowMs :
             credit + MinClipped * ago <= Brim + WindowMs * (IF ago = 0 THEN 0 ELSE upTo[ago - 1])
    <3>. HIDE DEF fresh
    <3>. QED
      BY <2>2, LeakIs DEF ClipInv
  <2>4. /\ hold \in Nat /\ since \in 0 .. Never /\ hold = Most(0, HoldMs - since)
        /\ lit <=> since < Most(1, HoldMs)
        /\ since = 0 => fires
    <3>. HIDE DEF credit
    <3>1. CASE fires
      BY <1>c, <3>1 DEF Most
    <3>2. CASE ~fires
      <4>1. clip.hold = Most(0, HoldMs - account.since)
        BY <2>1 DEF ClipInv
      <4>. QED
        BY <1>t, <2>2, <3>2, <4>1, HoldIs
    <3>. QED
      BY <3>1, <3>2
  <2>5. fires => upTo[WindowMs - 1] >= MinClipped
    <3>1. SUFFICES ASSUME fires PROVE upTo[WindowMs - 1] >= MinClipped
      OBVIOUS
    <3>2. credit + MinClipped * WindowMs <= Brim + WindowMs * upTo[WindowMs - 1]
      BY <1>c, <2>3
    <3>3. upTo[WindowMs - 1] \in Nat
      BY <1>c, <2>3
    <3>. DEFINE n == upTo[WindowMs - 1]
    <3>. HIDE DEF credit, upTo
    <3>4. WindowMs * MinClipped <= WindowMs * n
      BY <1>c, <2>3, <3>1, <3>2, <3>3
    <3>. HIDE DEF n
    <3>5. n \in Nat
      BY <3>3 DEF n
    <3>6. n < MinClipped => WindowMs * n < WindowMs * MinClipped
      BY <1>c, <3>5
    <3>. QED
      BY <1>c, <3>4, <3>5, <3>6 DEF n
  <2>. HIDE DEF fresh, credit, upTo, fires, hold, since, lit
  <2>6. lit \in BOOLEAN
    BY DEF lit
  <2>7. /\ clip'.count = clip.count /\ clip'.seen = poll.now /\ clip'.credit = credit
        /\ clip'.hold = hold /\ clip'.lit = lit /\ clip'.enabled = clip.enabled
        /\ account'.owed = account.owed /\ account'.upTo = upTo /\ account'.since = since
        /\ poll'.at = "idle"
    BY <1>t, <2>1
  <2>8. ClipTypeOK'
    <3>1. /\ clip' = [count |-> clip.count, seen |-> poll.now, credit |-> credit, hold |-> hold,
                     lit |-> lit, enabled |-> clip.enabled]
          /\ account' = [owed |-> account.owed, upTo |-> upTo, since |-> since]
      BY <1>t, <2>1
    <3>2. 0 \in 0 .. Wrap - 1
      BY <1>c
    <3>. QED
      BY <1>t, <2>1, <2>3, <2>4, <2>6, <3>1, <3>2 DEF ClipTypeOK
  <2>9. BucketLeaks'
    BY <2>3, <2>7 DEF BucketLeaks, Newer
  <2>10. (clip'.count - clip'.seen) % Wrap = account'.owed
    BY <2>1, <2>7 DEF ClipInv
  <2>. QED
    BY <2>4, <2>5, <2>7, <2>8, <2>9, <2>10 DEF ClipInv
<1>4. ASSUME NEW on \in BOOLEAN, SetEnabled(on) PROVE ClipInv'
  <2>1. /\ clip' = [clip EXCEPT !.enabled = on] /\ poll' = [poll EXCEPT !.at = "reset"]
        /\ account' = account
    BY <1>4 DEF SetEnabled
  <2>2. /\ clip' = [count |-> clip.count, seen |-> clip.seen, credit |-> clip.credit,
                   hold |-> clip.hold, lit |-> clip.lit, enabled |-> on]
        /\ poll' = [at |-> "reset", now |-> poll.now, dt |-> poll.dt]
    BY <1>t, <2>1
  <2>3. ClipTypeOK'
    BY <1>4, <1>t, <2>1, <2>2 DEF ClipInv, ClipTypeOK
  <2>4. BucketLeaks'
    BY <2>1, <2>2 DEF ClipInv, BucketLeaks, Newer
  <2>. QED
    BY <2>1, <2>2, <2>3, <2>4 DEF ClipInv
<1>5. CASE ResetClip
  <2>1. /\ clip' = [clip EXCEPT !.seen = clip.count, !.credit = 0, !.hold = 0, !.lit = FALSE]
        /\ poll' = [poll EXCEPT !.at = "idle"] /\ account' = Unheard
    BY <1>5 DEF ResetClip
  <2>2. /\ clip'.count = clip.count /\ clip'.seen = clip.count /\ clip'.credit = 0
        /\ clip'.hold = 0 /\ clip'.lit = FALSE /\ poll'.at = "idle"
        /\ account'.owed = 0 /\ account'.since = Never
        /\ account'.upTo = [ago \in 0 .. WindowMs - 1 |-> 0]
    BY <1>t, <2>1 DEF Unheard
  <2>3. ClipTypeOK'
    <3>1. /\ clip' = [count |-> clip.count, seen |-> clip.count, credit |-> 0, hold |-> 0,
                     lit |-> FALSE, enabled |-> clip.enabled]
          /\ poll' = [at |-> "idle", now |-> poll.now, dt |-> poll.dt]
      BY <1>t, <2>1
    <3>3. /\ account' = [owed |-> 0, upTo |-> [ago \in 0 .. WindowMs - 1 |-> 0], since |-> Never]
      BY <2>1 DEF Unheard
    <3>4. Never \in 0 .. Never
      BY <1>c
    <3>2. [ago \in 0 .. WindowMs - 1 |-> 0] \in [0 .. WindowMs - 1 -> Nat]
      OBVIOUS
    <3>. QED
      BY <1>t, <3>1, <3>2, <3>3, <3>4 DEF ClipTypeOK
  <2>4. BucketLeaks'
    <3>1. \A ago \in 0 .. WindowMs : Newer(ago)' = 0
      BY <1>c, <2>2 DEF Newer
    <3>2. ASSUME NEW ago \in 0 .. WindowMs PROVE MinClipped * ago <= Brim
      BY <1>c, Scaled
    <3>. QED
      BY <1>c, <2>2, <3>1, <3>2 DEF BucketLeaks
  <2>5. (clip.count - clip.count) % Wrap = 0
    BY <1>c, <1>t, NothingBehind
  <2>6. Most(0, HoldMs - Never) = 0 /\ ~(Never < Most(1, HoldMs)) /\ Never # 0
    BY <1>c DEF Most
  <2>. QED
    BY <2>2, <2>3, <2>4, <2>5, <2>6 DEF ClipInv
<1>6. CASE UNCHANGED clipVars
  BY <1>6 DEF clipVars, ClipInv, ClipTypeOK, BucketLeaks, Newer
<1>. QED
  BY <1>1, <1>2, <1>3, <1>4, <1>5, <1>6 DEF ClipNext

\* No sample is lost over the wrap, and the light fires on nothing less than MinClipped samples in the
\* window and stays for the hold: what the invariant says of the clip indicator (clip_indicator.cpp).
LEMMA ClipShows == ClipInv => ClippingShows
<1>. SUFFICES ASSUME ClipInv PROVE ClippingShows
  OBVIOUS
<1>. QED
  BY DEF ClipInv, ClippingShows

-----------------------------------------------------------------------------
(* The beat                                                                *)

BeatTypeOK ==
  /\ beat \in [phase : Nat, left : Nat, period : Nat, blinking : BOOLEAN]
  /\ steady \in [period : Nat, elapsed : Nat, beats : Nat, since : Nat, lit : Nat]

\* The history is that of the beat that blinks: the phase and the beats make up the time, and what is
\* left of the light is what its period gave it less the time since.
BeatInv ==
  /\ BeatTypeOK
  /\ ~beat.blinking => steady.period = 0
  /\ beat.blinking =>
       /\ steady.period = beat.period /\ beat.period >= Threshold /\ steady.lit >= Threshold
       /\ beat.phase < beat.period
       /\ steady.beats * beat.period + beat.phase >= steady.elapsed
       /\ beat.left = Most(0, OnMs(steady.lit) - steady.since)

LEMMA DivMod ==
  ASSUME NEW m \in Nat \ {0}, NEW a \in Nat
  PROVE  a \div m \in Nat /\ a % m \in 0 .. m - 1 /\ a = m * (a \div m) + (a % m)
OBVIOUS

\* A light lasts at least a millisecond and no more than half of its period.
LEMMA OnIs ==
  ASSUME NEW period \in Nat
  PROVE  /\ OnMs(period) \in Nat /\ 2 * OnMs(period) <= period
         /\ period >= Threshold => OnMs(period) > 0
BY IndicatorAssumption DEF OnMs, Least

LEMMA BeatStarts == BeatInit => BeatInv
BY DEF BeatInit, BeatInv, BeatTypeOK, Unsteady

\* The phase that a frame leaves and the beats that came in it.
LEMMA PhaseIs ==
  ASSUME NEW ph \in Nat, NEW period \in Nat \ {0}
  PROVE  LET beats == ph \div period
             then == IF beats > 0 THEN Remainder(ph, period) ELSE ph
         IN  beats \in Nat /\ then \in Nat /\ then < period /\ beats * period + then = ph
<1>. DEFINE beats == ph \div period
<1>1. /\ beats \in Nat /\ ph % period \in 0 .. period - 1
      /\ ph = period * beats + (ph % period)
  BY DivMod
<1>. DEFINE rest == ph % period
<1>2. rest \in Nat /\ rest < period /\ ph = period * beats + rest
  BY <1>1
<1>. HIDE DEF beats, rest
<1>3. CASE beats > 0
  BY <1>1, <1>2, <1>3 DEF Remainder, rest, beats
<1>4. CASE ~(beats > 0)
  BY <1>1, <1>2, <1>4 DEF beats
<1>. QED
  BY <1>3, <1>4

LEMMA BeatStep == BeatInv /\ [BeatNext]_beatVars => BeatInv'
<1>. SUFFICES ASSUME BeatInv, [BeatNext]_beatVars PROVE BeatInv'
  OBVIOUS
<1>c. Threshold \in Nat \ {0, 1} /\ Frames \subseteq Nat \ {0} /\ Periods \subseteq Nat
  BY IndicatorAssumption
<1>t. /\ beat.phase \in Nat /\ beat.left \in Nat /\ beat.period \in Nat /\ beat.blinking \in BOOLEAN
      /\ beat = [phase |-> beat.phase, left |-> beat.left, period |-> beat.period,
                 blinking |-> beat.blinking]
      /\ steady.period \in Nat /\ steady.elapsed \in Nat /\ steady.beats \in Nat
      /\ steady.since \in Nat /\ steady.lit \in Nat
  BY DEF BeatInv, BeatTypeOK
<1>1. CASE ResetBeat
  <2>1. /\ beat' = [phase |-> 0, left |-> 0, period |-> beat.period, blinking |-> FALSE]
        /\ steady' = [period |-> 0, elapsed |-> 0, beats |-> 0, since |-> 0, lit |-> 0]
    BY <1>1, <1>t DEF ResetBeat, Unsteady
  <2>. QED
    BY <1>t, <2>1 DEF BeatInv, BeatTypeOK
<1>2. ASSUME NEW dt \in Frames, NEW period \in Periods, TickBeat(dt, period) PROVE BeatInv'
  <2>n. dt \in Nat \ {0} /\ period \in Nat
    BY <1>2, <1>c
  <2>1. CASE ~(period >= Threshold)
    <3>1. /\ beat' = [phase |-> 0, left |-> 0, period |-> period, blinking |-> FALSE]
          /\ steady' = [period |-> 0, elapsed |-> 0, beats |-> 0, since |-> 0, lit |-> 0]
      BY <1>2, <2>1 DEF TickBeat, Unsteady
    <3>. QED
      BY <2>n, <3>1 DEF BeatInv, BeatTypeOK
  <2>2. CASE period >= Threshold
    <3>. DEFINE starts == ~beat.blinking
                ph == dt + IF beat.blinking THEN beat.phase ELSE 0
                beats == ph \div period
                runs == steady.period = period /\ ~starts
                then == IF beats > 0 THEN Remainder(ph, period) ELSE ph
                left == IF starts \/ beats > 0 THEN OnMs(period) ELSE Most(0, beat.left - dt)
                elapsed == IF runs THEN steady.elapsed + dt ELSE IF starts THEN dt ELSE 0
                all == IF runs THEN steady.beats + beats ELSE IF starts THEN beats ELSE 0
                since == IF starts \/ beats > 0 THEN 0 ELSE steady.since + dt
                lit == IF starts \/ beats > 0 THEN period ELSE steady.lit
    <3>1. /\ beat' = [phase |-> then, left |-> left, period |-> period, blinking |-> TRUE]
          /\ steady' = [period |-> period, elapsed |-> elapsed, beats |-> all, since |-> since,
                        lit |-> lit]
      BY <1>2, <2>2 DEF TickBeat
    <3>2. ph \in Nat /\ period \in Nat \ {0}
      BY <1>t, <1>c, <2>n, <2>2
    <3>3. beats \in Nat /\ then \in Nat /\ then < period /\ beats * period + then = ph
      <4>. HIDE DEF ph
      <4>. QED
        BY <3>2, PhaseIs
    <3>4. OnMs(period) \in Nat
      BY <3>2, OnIs
    <3>. HIDE DEF beats, then
    <3>5. elapsed \in Nat /\ all \in Nat /\ since \in Nat /\ lit \in Nat /\ left \in Nat
      BY <1>t, <2>n, <3>3, <3>4 DEF Most
    <3>6. ~starts => steady.lit >= Threshold /\ beat.left = Most(0, OnMs(steady.lit) - steady.since)
      BY DEF BeatInv
    <3>7. lit >= Threshold
      BY <1>c, <2>2, <3>6
    <3>8. left = Most(0, OnMs(lit) - since)
      <4>1. CASE starts \/ beats > 0
        BY <3>4, <4>1 DEF Most
      <4>2. CASE ~(starts \/ beats > 0)
        <5>. DEFINE on == OnMs(steady.lit)
        <5>1. on \in Nat /\ beat.left = Most(0, on - steady.since)
          BY <1>t, <3>6, <4>2, OnIs
        <5>. HIDE DEF on
        <5>2. Most(0, beat.left - dt) = Most(0, on - (steady.since + dt))
          BY <1>t, <2>n, <5>1 DEF Most
        <5>. QED
          BY <4>2, <5>2 DEF on
      <4>. QED
        BY <4>1, <4>2
    <3>9. all * period + then >= elapsed
      <4>1. CASE runs
        <5>1. steady.beats * period + beat.phase >= steady.elapsed /\ beat.blinking
          BY <4>1, <1>t DEF BeatInv
        <5>. DEFINE old == steady.beats * period  new == beats * period
        <5>2. (steady.beats + beats) * period = old + new /\ old \in Nat /\ new \in Nat
          BY <1>t, <2>n, <3>3
        <5>3. new + then = dt + beat.phase /\ old + beat.phase >= steady.elapsed
          BY <3>3, <5>1
        <5>. HIDE DEF old, new
        <5>4. (old + new) + then >= steady.elapsed + dt
          BY <1>t, <2>n, <3>3, <5>2, <5>3
        <5>. QED
          BY <4>1, <5>2, <5>4
      <4>2. CASE starts
        <5>1. ~runs /\ ph = dt /\ all = beats /\ elapsed = dt
          BY <4>2, <2>n
        <5>. QED
          BY <2>n, <3>3, <5>1
      <4>3. CASE ~runs /\ ~starts
        <5>1. all = 0 /\ elapsed = 0
          BY <4>3
        <5>. QED
          BY <2>n, <3>3, <5>1
      <4>. QED
        BY <4>1, <4>2, <4>3
    <3>. HIDE DEF starts, ph, runs, left, elapsed, all, since, lit
    <3>. QED
      BY <2>2, <3>1, <3>2, <3>3, <3>5, <3>7, <3>8, <3>9 DEF BeatInv, BeatTypeOK
  <2>. QED
    BY <1>c, <2>n, <2>1, <2>2
<1>3. CASE UNCHANGED beatVars
  BY <1>3 DEF beatVars, BeatInv, BeatTypeOK
<1>. QED
  BY <1>1, <1>2, <1>3 DEF BeatNext

\* Beats come at the multiples of the period and light the pip for no more than half of it.
LEMMA BeatShows == BeatInv => BeatKeepsTime
<1>. SUFFICES ASSUME BeatInv, steady.period > 0 PROVE BeatKeepsTime
  BY DEF BeatKeepsTime
<1>1. /\ steady.period = beat.period /\ beat.period >= Threshold /\ steady.lit >= Threshold
      /\ beat.phase < beat.period
      /\ steady.beats * beat.period + beat.phase >= steady.elapsed
      /\ beat.left = Most(0, OnMs(steady.lit) - steady.since)
      /\ beat.left \in Nat /\ beat.period \in Nat /\ steady.since \in Nat /\ steady.lit \in Nat
  BY DEF BeatInv, BeatTypeOK
<1>. DEFINE on == OnMs(steady.lit)
<1>2. on \in Nat /\ 2 * on <= steady.lit /\ on > 0
  BY <1>1, OnIs
<1>3. Threshold \in Nat
  BY IndicatorAssumption
<1>4. beat.left = Most(0, on - steady.since)
  BY <1>1
<1>. HIDE DEF on
<1>5. steady.since = 0 => PipLit
  BY <1>1, <1>2, <1>4 DEF PipLit, Most
<1>6. 2 * steady.since >= steady.lit => ~PipLit
  BY <1>1, <1>2, <1>3, <1>4 DEF PipLit, Most
<1>. QED
  BY <1>1, <1>5, <1>6 DEF BeatKeepsTime

-----------------------------------------------------------------------------
(* The ring of LEDs                                                        *)

LEMMA RingConstants ==
  /\ Unit \in Nat \ {0} /\ Arcs \subseteq 0 .. 14 /\ Values \subseteq 0 .. Unit
  /\ Fills \subseteq EdgeDescs \cup CenterDescs /\ Selectors \subseteq SelectorDescs
  /\ Spans \subseteq Int \X Int /\ \A d \in PipDescs : d.compose \in {"Replace", "Add", "Carve"}
BY RingAssumption

\* Products that differ do so by a factor at least.
LEMMA Apart ==
  ASSUME NEW y \in Nat, NEW a \in Int, NEW b \in Int, a < b
  PROVE  y * a \in Int /\ y * b \in Int /\ y * a + y <= y * b
<1>1. PICK e \in Nat : b = a + 1 + e
  <2>1. b - a - 1 \in Nat /\ b = a + 1 + (b - a - 1)
    OBVIOUS
  <2>. QED
    BY <2>1
<1>2. y * b = y * a + y + y * e /\ y * e \in Nat /\ y * a \in Int /\ y * b \in Int
  BY <1>1
<1>. DEFINE p == y * a  q == y * b  s == y * e
<1>3. q = p + y + s /\ s \in Nat /\ p \in Int /\ q \in Int
  BY <1>2
<1>. HIDE DEF p, q, s
<1>4. p + y <= q
  BY <1>3
<1>. QED
  BY <1>3, <1>4 DEF p, q

\* A quotient is the one number whose multiple is at most the dividend, and less by less than the divisor.
LEMMA Quotient ==
  ASSUME NEW m \in Nat \ {0}, NEW a \in Int
  PROVE  /\ a \div m \in Int /\ a % m \in 0 .. m - 1 /\ m * (a \div m) \in Int
         /\ a = m * (a \div m) + (a % m)
OBVIOUS

LEMMA QuotientIs ==
  ASSUME NEW m \in Nat \ {0}, NEW a \in Int, NEW q \in Int, m * q <= a, a < m * q + m
  PROVE  a \div m = q
<1>. DEFINE d == a \div m  md == m * d  mq == m * q  r == a % m
<1>1. d \in Int /\ r \in 0 .. m - 1 /\ md \in Int /\ a = md + r
  BY Quotient
<1>2. mq \in Int /\ mq <= a /\ a < mq + m
  OBVIOUS
<1>3. d < q => md + m <= mq
  <2>. HIDE DEF d
  <2>. QED
    BY <1>1, Apart
<1>4. q < d => mq + m <= md
  <2>. HIDE DEF d
  <2>. QED
    BY <1>1, Apart
<1>. HIDE DEF d, md, mq, r
<1>5. ~(d < q) /\ ~(q < d)
  BY <1>1, <1>2, <1>3, <1>4
<1>6. d = q
  BY <1>1, <1>5
<1>. QED
  BY <1>6 DEF d

\* Rounding gives the nearest number, the upper one of two.
LEMMA RoundIs ==
  ASSUME NEW x \in Int, NEW y \in Nat \ {0}
  PROVE  /\ Round(x, y) \in Int /\ y * Round(x, y) \in Int
         /\ 2 * (y * Round(x, y) - x) <= y /\ 2 * (x - y * Round(x, y)) < y
<1>. DEFINE a == 2 * x + y  m == 2 * y  q == a \div m  r == a % m
<1>1. a \in Int /\ m \in Nat \ {0}
  OBVIOUS
<1>2. q \in Int /\ r \in 0 .. m - 1 /\ a = m * q + r
  <2>. HIDE DEF a, m
  <2>. QED
    BY <1>1, Quotient
<1>3. m * q = 2 * (y * q) /\ y * q \in Int
  <2>. HIDE DEF q
  <2>. QED
    BY <1>2
<1>4. Round(x, y) = q
  BY DEF Round
<1>. HIDE DEF q, r
<1>. DEFINE p == y * q
<1>5. p \in Int /\ 2 * x + y = 2 * p + r /\ r \in 0 .. 2 * y - 1
  BY <1>2, <1>3
<1>. HIDE DEF p
<1>6. 2 * (p - x) <= y /\ 2 * (x - p) < y
  BY <1>5
<1>. QED
  BY <1>2, <1>4, <1>5, <1>6 DEF p

LEMMA NearIsBetween ==
  ASSUME NEW y \in Nat \ {0}, NEW q \in Int, NEW x \in Int, NEW most \in Nat,
         2 * (y * q - x) <= y, 2 * (x - y * q) <= y, 0 <= x, x <= y * most
  PROVE  q \in 0 .. most
<1>. DEFINE yq == y * q  ym == y * most
<1>1. yq \in Int /\ ym \in Int /\ 2 * (yq - x) <= y /\ 2 * (x - yq) <= y /\ x <= ym
  OBVIOUS
<1>2. q < 0 => yq + y <= 0
  <2>1. q < 0 => y * q + y <= y * 0
    BY Apart
  <2>. QED
    BY <2>1
<1>3. most < q => ym + y <= yq
  BY Apart
<1>. HIDE DEF yq, ym
<1>4. ~(q < 0) /\ ~(most < q)
  BY <1>1, <1>2, <1>3
<1>. QED
  BY <1>4

LEMMA RoundBetween ==
  ASSUME NEW x \in Nat, NEW y \in Nat \ {0}, NEW most \in Nat, x <= y * most
  PROVE  Round(x, y) \in 0 .. most
<1>. DEFINE q == Round(x, y)
<1>1. q \in Int /\ y * q \in Int /\ 2 * (y * q - x) <= y /\ 2 * (x - y * q) < y
  BY RoundIs
<1>. HIDE DEF q
<1>2. 2 * (x - y * q) <= y
  BY <1>1
<1>3. q \in 0 .. most
  BY <1>1, <1>2, NearIsBetween
<1>. QED
  BY <1>3 DEF q

\* A share of a whole.
LEMMA ShareIs ==
  ASSUME NEW share \in 0 .. Unit, NEW n \in Nat
  PROVE  share * n \in Nat /\ share * n <= Unit * n
<1>1. Unit \in Nat
  BY RingConstants
<1>2. PICK rest \in Nat : Unit = share + rest
  <2>1. Unit - share \in Nat /\ Unit = share + (Unit - share)
    BY <1>1
  <2>. QED
    BY <2>1
<1>. DEFINE p == share * n  q == rest * n
<1>3. Unit * n = p + q /\ p \in Nat /\ q \in Nat
  BY <1>2
<1>. HIDE DEF p, q
<1>4. p <= p + q
  BY <1>3
<1>. QED
  BY <1>3, <1>4 DEF p

\* How many LEDs a part of the arc lights: those that it covers, and the one that it covers a
\* twenty-fifth of.
LEMMA SnapIs ==
  ASSUME NEW part \in Nat, NEW whole \in Nat \ {0}, NEW most \in Nat, part <= whole * most
  PROVE  LET c == LitLeds(ArcSnapFrac(part, whole, most))
         IN  /\ c \in 0 .. most /\ whole * c \in Int
             /\ whole <= 25 * (part - whole * c + whole) /\ 25 * (part - whole * c) < whole
<1>. DEFINE hard == part \div whole  frac == part % whole  wh == whole * hard  wm == whole * most
            c == LitLeds(ArcSnapFrac(part, whole, most))
<1>1. hard \in Int /\ frac \in 0 .. whole - 1 /\ wh \in Int /\ part = wh + frac
  BY Quotient
<1>2. whole * (hard + 1) = wh + whole
  <2>. HIDE DEF hard
  <2>. QED
    BY <1>1
<1>3. wm \in Int /\ part <= wm
  OBVIOUS
<1>4. hard < 0 => wh + whole <= 0
  <2>1. hard < 0 => whole * hard + whole <= whole * 0
    <3>. HIDE DEF hard
    <3>. QED
      BY <1>1, Apart
  <2>. QED
    BY <2>1
<1>5. most < hard => wm + whole <= wh
  <2>. HIDE DEF hard
  <2>. QED
    BY <1>1, Apart
<1>6. hard = most => wh = wm
  OBVIOUS
<1>7. c = IF 25 * frac < whole THEN hard
          ELSE IF 25 * (whole - frac) < whole THEN Lesser(hard + 1, most) ELSE hard + 1
  <2>. HIDE DEF hard, frac
  <2>1. c = LitLeds(IF 25 * frac < whole THEN <<hard, FALSE>>
                    ELSE IF 25 * (whole - frac) < whole THEN <<Lesser(hard + 1, most), FALSE>>
                    ELSE <<hard, TRUE>>)
    BY DEF ArcSnapFrac, hard, frac
  <2>2. Lesser(hard + 1, most) \in Int
    BY <1>1 DEF Lesser
  <2>. HIDE DEF c
  <2>3. CASE 25 * frac < whole
    BY <1>1, <2>1, <2>3 DEF LitLeds
  <2>4. CASE ~(25 * frac < whole) /\ 25 * (whole - frac) < whole
    BY <2>1, <2>2, <2>4 DEF LitLeds
  <2>5. CASE ~(25 * frac < whole) /\ ~(25 * (whole - frac) < whole)
    BY <1>1, <2>1, <2>5 DEF LitLeds
  <2>. QED
    BY <2>3, <2>4, <2>5
<1>. HIDE DEF hard, frac, wh, wm, c
<1>8. hard \in 0 .. most /\ (hard = most => frac = 0)
  BY <1>1, <1>3, <1>4, <1>5, <1>6
<1>9. c = IF 25 * frac < whole THEN hard ELSE hard + 1
  <2>1. ~(25 * frac < whole) => hard + 1 <= most
    BY <1>1, <1>8
  <2>2. ~(25 * frac < whole) => Lesser(hard + 1, most) = hard + 1
    BY <1>8, <2>1 DEF Lesser
  <2>. QED
    BY <1>7, <2>2
<1>10. CASE 25 * frac < whole
  BY <1>1, <1>8, <1>9, <1>10 DEF wh, c
<1>11. CASE ~(25 * frac < whole)
  <2>1. whole * c = wh + whole
    BY <1>2, <1>9, <1>11
  <2>. QED
    BY <1>1, <1>8, <1>9, <1>11, <2>1 DEF c
<1>. QED
  BY <1>10, <1>11

-----------------------------------------------------------------------------
\* A stretch of LEDs of an arc of n, or none.
Stretch(n, s) == s = NoSpan \/ \E a \in 0 .. n - 1, b \in 0 .. n - 1 : s = Leds(a, b)

\* The fields of a picture.
Shaped(f) ==
  f = [n |-> f.n, overlay |-> f.overlay, leds |-> f.leds, touched |-> f.touched, active |-> f.active,
       armCw |-> f.armCw, armCcw |-> f.armCcw, pastTip |-> f.pastTip, span |-> f.span,
       bottom |-> f.bottom, bottomSet |-> f.bottomSet]

Framed(f) ==
  /\ Shaped(f) /\ f.n \in 0 .. 14 /\ f.overlay \in BOOLEAN
  /\ DOMAIN f.leds = 0 .. f.n - 1 /\ f.touched \subseteq 0 .. f.n - 1
  /\ \A k \in 0 .. f.n - 1 : k \notin f.touched => f.leds[k] = {}
  /\ Stretch(f.n, f.active) /\ Stretch(f.n, f.armCw) /\ Stretch(f.n, f.armCcw) /\ Stretch(f.n, f.pastTip)
  /\ f.span[1] \in 0 .. Unit /\ f.span[2] \in 0 .. Unit
  /\ f.bottomSet \in BOOLEAN /\ (f.bottomSet => f.bottom = {"pip"})

\* A picture in which nothing has been drawn.
Blank(f) ==
  /\ \A k \in 0 .. f.n - 1 : f.leds[k] = {}
  /\ f.touched = {} /\ f.active = NoSpan /\ f.armCw = NoSpan /\ f.armCcw = NoSpan /\ f.pastTip = NoSpan

LEMMA StretchIsWithin ==
  ASSUME NEW n \in Nat, NEW s, Stretch(n, s)
  PROVE  Members(s) \subseteq 0 .. n - 1 /\ s.first \in Int /\ s.last \in Int
BY DEF Stretch, Members, NoSpan, Leds

LEMMA LedsAre ==
  ASSUME NEW n \in Nat, NEW a \in 0 .. n - 1, NEW b \in 0 .. n - 1
  PROVE  Stretch(n, Leds(a, b)) /\ Members(Leds(a, b)) = a .. b
<1>1. Leds(a, b).first = a /\ Leds(a, b).last = b
  BY DEF Leds
<1>2. Stretch(n, Leds(a, b))
  BY DEF Stretch
<1>. QED
  BY <1>1, <1>2 DEF Members

LEMMA NoSpanIs ==
  ASSUME NEW n
  PROVE  Stretch(n, NoSpan) /\ Members(NoSpan) = {}
BY DEF Stretch, Members, NoSpan

\* What Set leaves alone.
Besides(f, g) ==
  /\ g.n = f.n /\ g.overlay = f.overlay /\ g.active = f.active /\ g.armCw = f.armCw
  /\ g.armCcw = f.armCcw /\ g.pastTip = f.pastTip /\ g.span = f.span /\ g.bottom = f.bottom
  /\ g.bottomSet = f.bottomSet

LEMMA PaintedIs ==
  ASSUME NEW f, Framed(f), NEW paint
  PROVE  LET g == Painted(f, paint)
         IN  /\ Framed(g) /\ Besides(f, g)
             /\ \A k \in 0 .. f.n - 1 : g.leds[k] = IF k \in DOMAIN paint THEN paint[k] ELSE f.leds[k]
             /\ g.touched = f.touched \cup (DOMAIN paint \cap 0 .. f.n - 1)
<1>. DEFINE g == Painted(f, paint)
            leds == [k \in DOMAIN f.leds |-> IF k \in DOMAIN paint THEN paint[k] ELSE f.leds[k]]
            touched == f.touched \cup (DOMAIN paint \cap 0 .. f.n - 1)
<1>1. g = [f EXCEPT !.leds = leds, !.touched = touched]
  BY DEF Painted
<1>. HIDE DEF leds, touched
<1>2. g = [n |-> f.n, overlay |-> f.overlay, leds |-> leds, touched |-> touched, active |-> f.active,
           armCw |-> f.armCw, armCcw |-> f.armCcw, pastTip |-> f.pastTip, span |-> f.span,
           bottom |-> f.bottom, bottomSet |-> f.bottomSet]
  BY <1>1 DEF Framed, Shaped
<1>. HIDE DEF g
<1>3. Besides(f, g) /\ g.leds = leds /\ g.touched = touched
  BY <1>2 DEF Besides
<1>4. Shaped(g)
  BY <1>2 DEF Shaped
<1>5. DOMAIN leds = 0 .. f.n - 1 /\ touched \subseteq 0 .. f.n - 1
  BY DEF leds, touched, Framed
<1>6. \A k \in 0 .. f.n - 1 : leds[k] = IF k \in DOMAIN paint THEN paint[k] ELSE f.leds[k]
  BY <1>5 DEF leds
<1>7. \A k \in 0 .. f.n - 1 : k \notin touched => leds[k] = {}
  BY <1>6 DEF touched, Framed
<1>8. Framed(g)
  BY <1>3, <1>4, <1>5, <1>7 DEF Framed, Besides
<1>. QED
  BY <1>3, <1>6, <1>8 DEF g, touched

\* A picture whose regions are stamped anew.
LEMMA StampedIs ==
  ASSUME NEW f, Framed(f), NEW g, Shaped(g),
         g.n = f.n /\ g.overlay = f.overlay /\ g.leds = f.leds /\ g.touched = f.touched,
         g.span = f.span /\ g.bottom = f.bottom /\ g.bottomSet = f.bottomSet,
         Stretch(f.n, g.active), Stretch(f.n, g.armCw), Stretch(f.n, g.armCcw), Stretch(f.n, g.pastTip)
  PROVE  Framed(g)
BY DEF Framed

\* A picture whose Active is stamped anew.
LEMMA ActiveIs ==
  ASSUME NEW f, Framed(f), NEW act, Stretch(f.n, act), NEW g,
         g = [n |-> f.n, overlay |-> f.overlay, leds |-> f.leds, touched |-> f.touched, active |-> act,
              armCw |-> f.armCw, armCcw |-> f.armCcw, pastTip |-> f.pastTip, span |-> f.span,
              bottom |-> f.bottom, bottomSet |-> f.bottomSet]
  PROVE  /\ Framed(g) /\ g.n = f.n /\ g.leds = f.leds /\ g.overlay = f.overlay /\ g.bottomSet = f.bottomSet
         /\ g.touched = f.touched /\ g.active = act
<1>1. /\ g.n = f.n /\ g.leds = f.leds /\ g.overlay = f.overlay /\ g.touched = f.touched
      /\ g.active = act /\ g.armCw = f.armCw /\ g.armCcw = f.armCcw /\ g.pastTip = f.pastTip
      /\ g.span = f.span /\ g.bottom = f.bottom /\ g.bottomSet = f.bottomSet
  OBVIOUS
<1>2. Shaped(g)
  BY DEF Shaped
<1>3. Stretch(f.n, f.armCw) /\ Stretch(f.n, f.armCcw) /\ Stretch(f.n, f.pastTip)
  BY DEF Framed
<1>4. Framed(g)
  BY <1>1, <1>2, <1>3, StampedIs
<1>. QED
  BY <1>1, <1>4

\* No region leaves the arc.
LEMMA RegionsAreWithin ==
  ASSUME NEW f, Framed(f), f.n > 0, NEW region \in Regions
  PROVE  /\ Members(Resolve(f, region)) \subseteq 0 .. f.n - 1
         /\ Resolve(f, region).first \in Int /\ Resolve(f, region).last \in Int
<1>n. f.n \in Nat
  BY DEF Framed
<1>1. CASE region \in {"Active", "PastTip", "ArmCw", "ArmCcw"}
  <2>1. Stretch(f.n, Resolve(f, region))
    BY <1>1 DEF Resolve, Framed
  <2>. QED
    BY <1>n, <2>1, StretchIsWithin
<1>2. CASE region = "Full"
  <2>1. Resolve(f, region) = Leds(0, f.n - 1)
    BY <1>2 DEF Resolve
  <2>2. Stretch(f.n, Leds(0, f.n - 1))
    BY <1>n, LedsAre
  <2>. QED
    BY <1>n, <2>1, <2>2, StretchIsWithin
<1>3. CASE region = "Span"
  <2>. DEFINE last == f.n - 1
              a == Round(f.span[1] * last, Unit)
              b == Round(f.span[2] * last, Unit)
  <2>1. Resolve(f, region) = [first |-> a, last |-> b, a |-> f.span[1] * last, b |-> f.span[2] * last]
    BY <1>n, <1>3 DEF Resolve
  <2>2. ASSUME NEW share \in 0 .. Unit PROVE Round(share * last, Unit) \in 0 .. last
    <3>1. last \in Nat /\ Unit \in Nat \ {0}
      BY <1>n, RingConstants
    <3>2. share * last \in Nat /\ share * last <= Unit * last
      BY <3>1, ShareIs
    <3>. HIDE DEF last
    <3>. QED
      BY <3>1, <3>2, RoundBetween
  <2>3. a \in 0 .. last /\ b \in 0 .. last
    BY <2>2 DEF Framed
  <2>. HIDE DEF a, b
  <2>4. Resolve(f, region).first = a /\ Resolve(f, region).last = b
    BY <2>1
  <2>. QED
    BY <1>n, <2>3, <2>4 DEF Members
<1>4. CASE region = "BottomPip"
  <2>1. Resolve(f, region) = NoSpan
    BY <1>4 DEF Resolve
  <2>. QED
    BY <1>n, <2>1, StretchIsWithin DEF Stretch
<1>. QED
  BY <1>1, <1>2, <1>3, <1>4 DEF Regions

-----------------------------------------------------------------------------
\* What a fill lights.
LitOf(f) == {k \in 0 .. f.n - 1 : f.leds[k] \cap {"colour", "neg", "center"} # {}}

\* The LEDs of an edge fill, their colours and the regions that it stamps.
LEMMA EdgeFillIs ==
  ASSUME NEW f, Framed(f), Blank(f), f.n > 0, NEW d \in EdgeDescs, NEW v \in 0 .. Unit
  PROVE  LET g == EdgeFill(f, d, v)
             c == LitLeds(ArcSnapFrac(v * f.n, Unit, f.n))
             lit == IF d.ccw THEN f.n - c .. f.n - 1 ELSE 0 .. c - 1
         IN  /\ Framed(g) /\ g.n = f.n /\ g.overlay = f.overlay /\ g.bottomSet = f.bottomSet
             /\ c \in 0 .. f.n
             /\ \A k \in 0 .. f.n - 1 :
                  g.leds[k] = IF k \in lit THEN {"colour"} ELSE IF d.replace THEN d.passive ELSE {}
             /\ Members(g.active) = lit
             /\ Members(g.pastTip) = (0 .. f.n - 1) \ lit
<1>. DEFINE g == EdgeFill(f, d, v)
            snapped == ArcSnapFrac(v * f.n, Unit, f.n)
            c == LitLeds(snapped)
            lit == IF d.ccw THEN f.n - c .. f.n - 1 ELSE 0 .. c - 1
            Led(k) == IF d.ccw THEN f.n - 1 - k ELSE k
            Piece(i, j) == IF d.ccw THEN Leds(Led(j), Led(i)) ELSE Leds(i, j)
            all == {Led(k) : k \in 0 .. c - 1}
            paint == [k \in IF d.replace THEN 0 .. f.n - 1 ELSE all |->
                        IF k \in all THEN {"colour"} ELSE d.passive]
            h == Painted(f, paint)
            act == IF all = {} THEN h.active ELSE Piece(0, c - 1)
            pastTip == IF c < f.n THEN Piece(c, f.n - 1) ELSE h.pastTip
<1>n. f.n \in Nat \ {0} /\ d.ccw \in BOOLEAN /\ d.replace \in BOOLEAN
  BY DEF Framed, EdgeDescs
<1>1. c \in 0 .. f.n
  <2>1. v * f.n \in Nat /\ v * f.n <= Unit * f.n /\ Unit \in Nat \ {0}
    BY <1>n, ShareIs, RingConstants
  <2>. DEFINE part == v * f.n
  <2>2. part \in Nat /\ part <= Unit * f.n
    BY <2>1
  <2>. HIDE DEF part
  <2>3. LitLeds(ArcSnapFrac(part, Unit, f.n)) \in 0 .. f.n
    BY <1>n, <2>1, <2>2, SnapIs
  <2>. QED
    BY <2>3 DEF part
<1>2. g = [h EXCEPT !.active = act, !.pastTip = pastTip]
  BY DEF EdgeFill, Tip
<1>. HIDE DEF c, g
<1>3. all = lit /\ all \subseteq 0 .. f.n - 1
  <2>1. CASE d.ccw
    <3>1. \A k \in lit : k = Led(f.n - 1 - k) /\ f.n - 1 - k \in 0 .. c - 1
      BY <1>1, <1>n, <2>1
    <3>. QED
      BY <1>1, <1>n, <2>1, <3>1
  <2>2. CASE ~d.ccw
    BY <1>1, <1>n, <2>2
  <2>. QED
    BY <2>1, <2>2
<1>. HIDE DEF all
<1>4. /\ Framed(h) /\ Besides(f, h)
      /\ \A k \in 0 .. f.n - 1 : h.leds[k] = IF k \in DOMAIN paint THEN paint[k] ELSE f.leds[k]
  <2>. HIDE DEF paint
  <2>. QED
    BY PaintedIs
<1>5. \A k \in 0 .. f.n - 1 :
        h.leds[k] = IF k \in lit THEN {"colour"} ELSE IF d.replace THEN d.passive ELSE {}
  BY <1>3, <1>4 DEF Blank
<1>. HIDE DEF h, paint
<1>6. Stretch(f.n, act) /\ Members(act) = lit
  <2>1. CASE c = 0
    <3>1. lit = {} /\ act = NoSpan
      BY <1>n, <1>3, <1>4, <2>1 DEF Besides, Blank
    <3>. HIDE DEF lit, act
    <3>. QED
      BY <3>1, NoSpanIs
  <2>2. CASE c # 0
    <3>1. c - 1 \in 0 .. f.n - 1 /\ 0 \in 0 .. f.n - 1 /\ c - 1 \in 0 .. c - 1
      BY <1>1, <1>n, <2>2
    <3>2. all # {}
      BY <3>1 DEF all
    <3>3. act = IF d.ccw THEN Leds(f.n - c, f.n - 1) ELSE Leds(0, c - 1)
      <4>1. f.n - 1 - (c - 1) = f.n - c /\ f.n - 1 - 0 = f.n - 1
        BY <1>1, <1>n
      <4>. QED
        BY <3>2, <4>1
    <3>4. f.n - c \in 0 .. f.n - 1 /\ f.n - 1 \in 0 .. f.n - 1
      BY <1>1, <1>n, <2>2
    <3>. QED
      BY <1>n, <3>1, <3>3, <3>4, LedsAre
  <2>. QED
    BY <2>1, <2>2
<1>7. Stretch(f.n, pastTip) /\ Members(pastTip) = (0 .. f.n - 1) \ lit
  <2>1. CASE c = f.n
    <3>1. lit = 0 .. f.n - 1 /\ pastTip = NoSpan
      BY <1>1, <1>n, <1>4, <2>1 DEF Besides, Blank
    <3>. HIDE DEF lit, pastTip
    <3>. QED
      BY <3>1, NoSpanIs
  <2>2. CASE c # f.n
    <3>1. c < f.n
      BY <1>1, <1>n, <2>2
    <3>2. pastTip = IF d.ccw THEN Leds(0, f.n - 1 - c) ELSE Leds(c, f.n - 1)
      <4>1. f.n - 1 - (f.n - 1) = 0
        BY <1>n
      <4>. QED
        BY <3>1, <4>1
    <3>3. /\ 0 \in 0 .. f.n - 1 /\ f.n - 1 - c \in 0 .. f.n - 1 /\ c \in 0 .. f.n - 1
          /\ f.n - 1 \in 0 .. f.n - 1
      BY <1>1, <1>n, <3>1
    <3>4. Stretch(f.n, pastTip) /\ Members(pastTip) = IF d.ccw THEN 0 .. f.n - 1 - c ELSE c .. f.n - 1
      BY <1>n, <3>2, <3>3, LedsAre
    <3>. QED
      BY <1>1, <1>n, <3>1, <3>4
  <2>. QED
    BY <2>1, <2>2
<1>. HIDE DEF act, pastTip
<1>8. /\ Framed(g) /\ g.n = h.n /\ g.leds = h.leds /\ g.overlay = h.overlay
      /\ g.active = act /\ g.pastTip = pastTip /\ g.bottomSet = h.bottomSet
  <2>1. g = [n |-> h.n, overlay |-> h.overlay, leds |-> h.leds, touched |-> h.touched, active |-> act,
             armCw |-> h.armCw, armCcw |-> h.armCcw, pastTip |-> pastTip, span |-> h.span,
             bottom |-> h.bottom, bottomSet |-> h.bottomSet]
    BY <1>2, <1>4 DEF Framed, Shaped
  <2>3. /\ g.n = h.n /\ g.overlay = h.overlay /\ g.leds = h.leds /\ g.touched = h.touched
        /\ g.active = act /\ g.armCw = h.armCw /\ g.armCcw = h.armCcw /\ g.pastTip = pastTip
        /\ g.span = h.span /\ g.bottom = h.bottom /\ g.bottomSet = h.bottomSet
    BY <2>1
  <2>4. Shaped(g)
    BY <2>1 DEF Shaped
  <2>5. /\ Stretch(h.n, act) /\ Stretch(h.n, pastTip) /\ Stretch(h.n, h.armCw) /\ Stretch(h.n, h.armCcw)
    BY <1>4, <1>6, <1>7 DEF Framed, Besides
  <2>6. Framed(g)
    BY <1>4, <2>3, <2>4, <2>5, StampedIs
  <2>. QED
    BY <2>3, <2>6
<1>. QED
  BY <1>1, <1>4, <1>5, <1>6, <1>7, <1>8 DEF Besides, g, c

\* How far an arm of a center fill reaches: no further than its side of the arc.
LEMMA ArmIs ==
  ASSUME NEW side \in Nat, NEW amount \in 0 .. side, NEW cap \in Nat
  PROVE  LET whole == IF side = 0 THEN 1 ELSE side
             moved == IF side = 0 THEN 0 ELSE amount
         IN  Lesser(LitLeds(ArcSnapFrac(moved * cap, whole, cap)), cap) \in 0 .. cap
<1>. DEFINE whole == IF side = 0 THEN 1 ELSE side
            moved == IF side = 0 THEN 0 ELSE amount
            part == moved * cap
            c == LitLeds(ArcSnapFrac(part, whole, cap))
<1>1. whole \in Nat \ {0} /\ moved \in 0 .. whole
  OBVIOUS
<1>2. part \in Nat /\ part <= whole * cap
  <2>1. PICK rest \in Nat : whole = moved + rest
    <3>1. whole - moved \in Nat /\ whole = moved + (whole - moved)
      BY <1>1
    <3>. QED
      BY <3>1
  <2>. HIDE DEF whole, moved
  <2>2. whole * cap = moved * cap + rest * cap /\ moved * cap \in Nat /\ rest * cap \in Nat
    BY <1>1, <2>1
  <2>. DEFINE p == moved * cap  q == rest * cap
  <2>3. whole * cap = p + q /\ p \in Nat /\ q \in Nat
    BY <2>2
  <2>. HIDE DEF p, q
  <2>4. p <= p + q
    BY <2>3
  <2>. QED
    BY <2>3, <2>4 DEF p
<1>. HIDE DEF part, whole
<1>3. c \in 0 .. cap
  BY <1>1, <1>2, SnapIs
<1>. HIDE DEF c
<1>4. Lesser(c, cap) \in 0 .. cap
  BY <1>3 DEF Lesser
<1>. QED
  BY <1>4 DEF c, part, whole

\* A pivot, an arm of one colour beside it, and the regions that say so.
FansOut(g, pivot, lit, seen) ==
  /\ pivot \in 0 .. g.n - 1 /\ lit \subseteq 0 .. g.n - 1 /\ pivot \notin lit /\ seen \in {"colour", "neg"}
  /\ \A k \in 0 .. g.n - 1 :
       g.leds[k] = IF k = pivot THEN {"center"} ELSE IF k \in lit THEN {seen} ELSE {}
  /\ Members(g.active) = lit \cup {pivot}
  /\ Members(g.armCw) \cup Members(g.armCcw) = lit

\* The LEDs of a center fill: the pivot, and the arm on the value's side of it.
LEMMA CenterFillIs ==
  ASSUME NEW f, Framed(f), Blank(f), f.n > 0, NEW d \in CenterDescs, NEW v \in 0 .. Unit
  PROVE  LET g == CenterFill(f, d, v)
         IN  /\ Framed(g) /\ g.n = f.n /\ g.overlay = f.overlay /\ g.bottomSet = f.bottomSet
             /\ \E pivot, lit, seen : FansOut(g, pivot, lit, seen)
<1>. DEFINE g == CenterFill(f, d, v)
            last == f.n - 1
            pivot == Round(d.pivot * last, Unit)
            cw == v > d.pivot
            side == IF cw THEN Unit - d.pivot ELSE d.pivot
            cap == IF cw THEN last - pivot ELSE pivot
            amount == IF side = 0 THEN 0 ELSE IF cw THEN v - d.pivot ELSE d.pivot - v
            arm == Lesser(LitLeds(ArcSnapFrac(amount * cap, IF side = 0 THEN 1 ELSE side, cap)), cap)
            lit == IF cw THEN pivot + 1 .. pivot + arm ELSE pivot - arm .. pivot - 1
            paint == [k \in IF d.replace THEN 0 .. last ELSE lit \cup {pivot} |->
                        IF k = pivot THEN {"center"}
                        ELSE IF k \in lit THEN {IF cw THEN "colour" ELSE d.neg} ELSE {}]
            h == Painted(f, paint)
            armCw == IF arm > 0 /\ cw THEN Leds(pivot + 1, pivot + arm) ELSE h.armCw
            armCcw == IF arm > 0 /\ ~cw THEN Leds(pivot - arm, pivot - 1) ELSE h.armCcw
            act == IF cw THEN Leds(pivot, pivot + arm) ELSE Leds(pivot - arm, pivot)
<1>n. /\ f.n \in Nat \ {0} /\ d.pivot \in 0 .. Unit /\ d.replace \in BOOLEAN
      /\ d.neg \in {"colour", "neg"} /\ Unit \in Nat \ {0} /\ last \in Nat /\ f.n = last + 1
  <2>1. f.n \in Nat \ {0}
    BY DEF Framed
  <2>. QED
    BY <2>1, RingConstants DEF CenterDescs
<1>1. g = [h EXCEPT !.armCw = armCw, !.armCcw = armCcw, !.active = act]
  BY DEF CenterFill
<1>. HIDE DEF g
<1>2. pivot \in 0 .. last
  <2>1. d.pivot * last \in Nat /\ d.pivot * last <= Unit * last
    BY <1>n, ShareIs
  <2>. DEFINE x == d.pivot * last
  <2>2. x \in Nat /\ x <= Unit * last
    BY <2>1
  <2>. HIDE DEF x, last
  <2>3. Round(x, Unit) \in 0 .. last
    BY <1>n, <2>2, RoundBetween
  <2>. QED
    BY <2>3 DEF x
<1>. HIDE DEF pivot
<1>3. cap \in Nat /\ side \in Nat /\ cw \in BOOLEAN
  BY <1>n, <1>2
<1>4. arm \in 0 .. cap
  <2>. DEFINE full == IF cw THEN v - d.pivot ELSE d.pivot - v
  <2>1. full \in 0 .. side
    BY <1>n
  <2>. HIDE DEF full, side, cap
  <2>2. Lesser(LitLeds(ArcSnapFrac((IF side = 0 THEN 0 ELSE full) * cap, IF side = 0 THEN 1 ELSE side, cap)), cap)
          \in 0 .. cap
    BY <1>3, <2>1, ArmIs
  <2>. QED
    BY <2>2 DEF full
<1>. HIDE DEF arm, last
<1>5. lit \subseteq 0 .. last /\ pivot \notin lit
  BY <1>n, <1>2, <1>3, <1>4
<1>6. /\ Framed(h) /\ Besides(f, h)
      /\ \A k \in 0 .. f.n - 1 : h.leds[k] = IF k \in DOMAIN paint THEN paint[k] ELSE f.leds[k]
  <2>. HIDE DEF paint
  <2>. QED
    BY PaintedIs
<1>. DEFINE seen == IF cw THEN "colour" ELSE d.neg
<1>7. \A k \in 0 .. last : h.leds[k] = IF k = pivot THEN {"center"} ELSE IF k \in lit THEN {seen} ELSE {}
  <2>1. 0 .. last = 0 .. f.n - 1
    BY <1>n
  <2>. HIDE DEF lit
  <2>. QED
    BY <1>5, <1>6, <2>1 DEF Blank
<1>. HIDE DEF h, paint, cw
<1>8. Stretch(f.n, act) /\ Members(act) = lit \cup {pivot}
  <2>1. CASE cw
    <3>1. pivot + arm \in 0 .. f.n - 1 /\ pivot \in 0 .. f.n - 1
      BY <1>n, <1>2, <1>4, <2>1 DEF cap
    <3>2. Stretch(f.n, act) /\ Members(act) = pivot .. pivot + arm
      BY <1>n, <2>1, <3>1, LedsAre
    <3>3. pivot .. pivot + arm = lit \cup {pivot}
      BY <1>2, <1>4, <1>3, <2>1
    <3>. QED
      BY <3>2, <3>3
  <2>2. CASE ~cw
    <3>1. pivot - arm \in 0 .. f.n - 1 /\ pivot \in 0 .. f.n - 1
      BY <1>n, <1>2, <1>4, <2>2 DEF cap
    <3>2. Stretch(f.n, act) /\ Members(act) = pivot - arm .. pivot
      BY <1>n, <2>2, <3>1, LedsAre
    <3>3. pivot - arm .. pivot = lit \cup {pivot}
      BY <1>2, <1>4, <1>3, <2>2
    <3>. QED
      BY <3>2, <3>3
  <2>. QED
    BY <2>1, <2>2
<1>9. /\ Stretch(f.n, armCw) /\ Stretch(f.n, armCcw)
      /\ Members(armCw) \cup Members(armCcw) = lit
  <2>1. h.armCw = NoSpan /\ h.armCcw = NoSpan
    BY <1>6 DEF Besides, Blank
  <2>2. CASE arm = 0
    <3>1. armCw = NoSpan /\ armCcw = NoSpan /\ lit = {}
      BY <1>2, <2>1, <2>2
    <3>. HIDE DEF armCw, armCcw, lit
    <3>. QED
      BY <3>1, NoSpanIs
  <2>3. CASE arm > 0 /\ cw
    <3>1. pivot + 1 \in 0 .. f.n - 1 /\ pivot + arm \in 0 .. f.n - 1
      BY <1>n, <1>2, <1>4, <2>3 DEF cap
    <3>2. armCw = Leds(pivot + 1, pivot + arm) /\ armCcw = NoSpan
      BY <2>1, <2>3
    <3>3. lit = pivot + 1 .. pivot + arm
      BY <2>3
    <3>. HIDE DEF armCw, armCcw, lit
    <3>. QED
      BY <1>n, <3>1, <3>2, <3>3, NoSpanIs, LedsAre
  <2>4. CASE arm > 0 /\ ~cw
    <3>1. pivot - arm \in 0 .. f.n - 1 /\ pivot - 1 \in 0 .. f.n - 1
      BY <1>n, <1>2, <1>4, <2>4 DEF cap
    <3>2. armCw = NoSpan /\ armCcw = Leds(pivot - arm, pivot - 1)
      BY <2>1, <2>4
    <3>3. lit = pivot - arm .. pivot - 1
      BY <2>4
    <3>. HIDE DEF armCw, armCcw, lit
    <3>. QED
      BY <1>n, <3>1, <3>2, <3>3, NoSpanIs, LedsAre
  <2>. QED
    BY <1>4, <1>3, <2>2, <2>3, <2>4
<1>. HIDE DEF act, armCw, armCcw
<1>10. /\ Framed(g) /\ g.n = h.n /\ g.leds = h.leds /\ g.overlay = h.overlay
       /\ g.active = act /\ g.armCw = armCw /\ g.armCcw = armCcw /\ g.bottomSet = h.bottomSet
  <2>1. g = [n |-> h.n, overlay |-> h.overlay, leds |-> h.leds, touched |-> h.touched, active |-> act,
             armCw |-> armCw, armCcw |-> armCcw, pastTip |-> h.pastTip, span |-> h.span,
             bottom |-> h.bottom, bottomSet |-> h.bottomSet]
    BY <1>1, <1>6 DEF Framed, Shaped
  <2>2. /\ g.n = h.n /\ g.overlay = h.overlay /\ g.leds = h.leds /\ g.touched = h.touched
        /\ g.active = act /\ g.armCw = armCw /\ g.armCcw = armCcw /\ g.pastTip = h.pastTip
        /\ g.span = h.span /\ g.bottom = h.bottom /\ g.bottomSet = h.bottomSet
    BY <2>1
  <2>3. Shaped(g)
    BY <2>1 DEF Shaped
  <2>4. /\ Stretch(h.n, act) /\ Stretch(h.n, h.pastTip) /\ Stretch(h.n, armCw) /\ Stretch(h.n, armCcw)
    BY <1>6, <1>8, <1>9 DEF Framed, Besides
  <2>5. Framed(g)
    BY <1>6, <2>2, <2>3, <2>4, StampedIs
  <2>. QED
    BY <2>2, <2>5
<1>11. lit \in SUBSET (0 .. f.n - 1) /\ pivot \in 0 .. f.n - 1 /\ seen \in {"colour", "neg"}
  BY <1>n, <1>2, <1>5
<1>12. 0 .. last = 0 .. f.n - 1
  BY <1>n
<1>. HIDE DEF lit, seen
<1>13. g.n = f.n /\ g.overlay = f.overlay /\ g.bottomSet = f.bottomSet
  BY <1>6, <1>10 DEF Besides
<1>14. FansOut(g, pivot, lit, seen)
  <2>1. \A k \in 0 .. f.n - 1 :
          g.leds[k] = IF k = pivot THEN {"center"} ELSE IF k \in lit THEN {seen} ELSE {}
    BY <1>7, <1>10, <1>12
  <2>. QED
    BY <1>5, <1>8, <1>9, <1>10, <1>11, <1>13, <2>1 DEF FansOut
<1>. QED
  BY <1>10, <1>13, <1>14 DEF g

\* What a fill leaves: a picture whose regions are its LEDs.
LEMMA FillIsLit ==
  ASSUME NEW f, Framed(f), Blank(f), NEW d \in EdgeDescs \cup CenterDescs, NEW v \in 0 .. Unit
  PROVE  LET g == BaseFill(f, d, v)
         IN  /\ Framed(g) /\ g.n = f.n /\ g.overlay = f.overlay /\ g.bottomSet = f.bottomSet
             /\ \A k \in 0 .. f.n - 1 :
                  g.leds[k] \subseteq {"colour", "neg", "center", "passive"}
             /\ f.n > 0 =>
                  /\ Members(g.active) = LitOf(g)
                  /\ IF d.center
                     THEN Members(g.armCw) \cup Members(g.armCcw) = {k \in LitOf(g) : "center" \notin g.leds[k]}
                     ELSE Members(g.pastTip) = (0 .. f.n - 1) \ LitOf(g)
<1>. DEFINE g == BaseFill(f, d, v)
<1>1. CASE f.n = 0
  <2>1. g = f
    BY <1>1 DEF BaseFill
  <2>. HIDE DEF g
  <2>2. \A k \in 0 .. f.n - 1 : FALSE
    BY <1>1
  <2>. QED
    BY <1>1, <2>1, <2>2 DEF g
<1>2. CASE f.n > 0 /\ d \in EdgeDescs
  <2>1. g = EdgeFill(f, d, v) /\ ~d.center /\ d.passive \subseteq {"passive"}
    <3>1. d.center = FALSE /\ d.passive \in SUBSET {"passive"}
      BY <1>2 DEF EdgeDescs
    <3>2. f.n # 0
      BY <1>2 DEF Framed
    <3>. QED
      BY <3>1, <3>2 DEF BaseFill
  <2>2. PICK lit \in SUBSET Int :
           /\ Framed(g) /\ g.n = f.n /\ g.overlay = f.overlay /\ g.bottomSet = f.bottomSet
           /\ \A k \in 0 .. f.n - 1 :
                g.leds[k] = IF k \in lit THEN {"colour"} ELSE IF d.replace THEN d.passive ELSE {}
           /\ Members(g.active) = lit
           /\ Members(g.pastTip) = (0 .. f.n - 1) \ lit
    <3>. DEFINE e == EdgeFill(f, d, v)
                c == LitLeds(ArcSnapFrac(v * f.n, Unit, f.n))
                lit == IF d.ccw THEN f.n - c .. f.n - 1 ELSE 0 .. c - 1
    <3>1. /\ Framed(e) /\ e.n = f.n /\ e.overlay = f.overlay /\ e.bottomSet = f.bottomSet
          /\ c \in 0 .. f.n
          /\ \A k \in 0 .. f.n - 1 :
               e.leds[k] = IF k \in lit THEN {"colour"} ELSE IF d.replace THEN d.passive ELSE {}
          /\ Members(e.active) = lit
          /\ Members(e.pastTip) = (0 .. f.n - 1) \ lit
      BY <1>2, EdgeFillIs
    <3>2. lit \in SUBSET Int
      BY <3>1 DEF Framed
    <3>. HIDE DEF e, lit, g
    <3>3. g = e
      BY <2>1 DEF e
    <3>. QED
      BY <3>1, <3>2, <3>3
  <2>. HIDE DEF g
  <2>3. LitOf(g) = lit
    <3>1. lit \subseteq 0 .. f.n - 1
      <4>1. f.n \in Nat
        BY DEF Framed
      <4>2. Members(g.active) \subseteq 0 .. f.n - 1
        BY <2>2, <4>1, StretchIsWithin DEF Framed
      <4>. QED
        BY <2>2, <4>2
    <3>. QED
      BY <2>1, <2>2, <3>1 DEF LitOf
  <2>. QED
    BY <2>1, <2>2, <2>3 DEF g
<1>3. CASE f.n > 0 /\ d \in CenterDescs
  <2>1. g = CenterFill(f, d, v) /\ d.center
    <3>1. d.center = TRUE
      BY <1>3 DEF CenterDescs
    <3>2. f.n # 0
      BY <1>3 DEF Framed
    <3>. QED
      BY <3>1, <3>2 DEF BaseFill
  <2>2. /\ Framed(g) /\ g.n = f.n /\ g.overlay = f.overlay /\ g.bottomSet = f.bottomSet
        /\ \E pivot, lit, seen : FansOut(g, pivot, lit, seen)
    <3>. DEFINE c == CenterFill(f, d, v)
    <3>1. /\ Framed(c) /\ c.n = f.n /\ c.overlay = f.overlay /\ c.bottomSet = f.bottomSet
          /\ \E pivot, lit, seen : FansOut(c, pivot, lit, seen)
      BY <1>3, CenterFillIs
    <3>. HIDE DEF c, g
    <3>2. g = c
      BY <2>1 DEF c
    <3>. QED
      BY <3>1, <3>2
  <2>. HIDE DEF g
  <2>3. PICK pivot, lit, seen : FansOut(g, pivot, lit, seen)
    BY <2>2
  <2>4. ASSUME NEW k \in 0 .. f.n - 1
        PROVE  /\ g.leds[k] \cap {"colour", "neg", "center"} # {} <=> k \in lit \cup {pivot}
               /\ g.leds[k] \subseteq {"colour", "neg", "center"}
               /\ k \in lit => "center" \notin g.leds[k]
               /\ "center" \in g.leds[pivot]
    <3>1. /\ g.leds[k] = IF k = pivot THEN {"center"} ELSE IF k \in lit THEN {seen} ELSE {}
          /\ seen \in {"colour", "neg"} /\ pivot \notin lit /\ g.leds[pivot] = {"center"}
      BY <2>2, <2>3 DEF FansOut
    <3>. QED
      BY <3>1
  <2>5. lit \cup {pivot} \subseteq 0 .. f.n - 1
    BY <2>2, <2>3 DEF FansOut
  <2>6. LitOf(g) = lit \cup {pivot}
    BY <2>2, <2>4, <2>5 DEF LitOf
  <2>7. {k \in LitOf(g) : "center" \notin g.leds[k]} = lit
    BY <2>4, <2>5, <2>6, <2>3 DEF FansOut
  <2>8. Members(g.active) = LitOf(g) /\ Members(g.armCw) \cup Members(g.armCcw) = lit
    BY <2>3, <2>6 DEF FansOut
  <2>9. \A k \in 0 .. f.n - 1 : g.leds[k] \subseteq {"colour", "neg", "center", "passive"}
    BY <2>4
  <2>. QED
    BY <2>1, <2>2, <2>7, <2>8, <2>9 DEF g
<1>4. f.n = 0 \/ f.n > 0
  <2>1. f.n \in 0 .. 14
    BY DEF Framed
  <2>. QED
    BY <2>1
<1>. HIDE DEF g
<1>. QED
  BY <1>1, <1>2, <1>3, <1>4 DEF g

-----------------------------------------------------------------------------
\* The zone of a value.
LEMMA ZoneOfIs ==
  ASSUME NEW f, f.n \in Nat, NEW d \in SelectorDescs, d.zones > 1, NEW v \in 0 .. Unit
  PROVE  ZoneOf(f, d, v) \in Chosen(f.n, d, v) /\ ZoneOf(f, d, v) \in 0 .. d.zones - 1
<1>. DEFINE last == d.zones - 1
            bins == ~Rounds(f, d)
            x == v * last
            y == v * d.zones
            z == ZoneOf(f, d, v)
<1>n. /\ d.zones \in Nat /\ last \in Nat \ {0} /\ d.zones = last + 1 /\ Unit \in Nat \ {0}
      /\ d.geo \in {"Distributed", "Point", "Region"}
  BY RingConstants DEF SelectorDescs
<1>1. bins <=> d.geo = "Point" \/ (d.geo = "Region" /\ 2 * d.zones <= f.n + 1)
  BY <1>n DEF Rounds, FallsBack
<1>2. x \in Nat /\ x <= Unit * last /\ y \in Nat
  BY <1>n, ShareIs
<1>3. CASE ~bins
  <2>. DEFINE q == Round(x, Unit)
  <2>1. q \in 0 .. last /\ 2 * (Unit * q - x) <= Unit /\ 2 * (x - Unit * q) < Unit
    <3>1. x \in Nat /\ x <= Unit * last /\ Unit \in Nat \ {0} /\ last \in Nat
      BY <1>n, <1>2
    <3>. HIDE DEF x, last
    <3>2. q \in 0 .. last
      BY <3>1, RoundBetween
    <3>3. 2 * (Unit * q - x) <= Unit /\ 2 * (x - Unit * q) < Unit
      <4>1. x \in Int
        BY <3>1
      <4>. QED
        BY <3>1, <4>1, RoundIs
    <3>. QED
      BY <3>2, <3>3
  <2>2. z = Lesser(q, last)
    BY <1>3 DEF ZoneOf
  <2>. HIDE DEF q, z
  <2>3. z = q
    BY <1>n, <2>1, <2>2 DEF Lesser
  <2>. DEFINE uz == Unit * z
  <2>4. uz \in Int /\ 2 * (uz - x) <= Unit /\ 2 * (x - uz) < Unit /\ z * Unit = uz
    BY <1>n, <2>1, <2>3
  <2>5. Near(x, uz, Unit)
    <3>. HIDE DEF x, uz
    <3>. QED
      BY <1>n, <1>2, <2>4 DEF Near
  <2>6. Near(v * (d.zones - 1), z * Unit, Unit)
    BY <2>4, <2>5
  <2>7. z \in 0 .. d.zones - 1
    BY <2>1, <2>3
  <2>. QED
    BY <1>1, <1>3, <2>6, <2>7 DEF Chosen, z
<1>4. CASE bins
  <2>. DEFINE q == y \div Unit
              uq == Unit * q
  <2>1. q \in Int /\ uq \in Int /\ uq <= y /\ y < uq + Unit
    <3>1. q \in Int /\ y % Unit \in 0 .. Unit - 1 /\ uq \in Int /\ y = uq + (y % Unit)
      <4>1. y \in Int /\ Unit \in Nat \ {0}
        BY <1>n, <1>2
      <4>. HIDE DEF y
      <4>. QED
        BY <4>1, Quotient
    <3>. DEFINE rest == y % Unit
    <3>2. Unit \in Nat /\ rest \in 0 .. Unit - 1 /\ y = uq + rest /\ uq \in Int
      BY <1>n, <3>1
    <3>. HIDE DEF y, uq, rest
    <3>3. uq <= y /\ y < uq + Unit
      BY <3>2
    <3>. QED
      BY <3>1, <3>3 DEF uq
  <2>2. z = Lesser(q, last)
    BY <1>4 DEF ZoneOf
  <2>3. q >= 0
    <3>1. q < 0 => Unit * q + Unit <= Unit * 0
      <4>. HIDE DEF q
      <4>. QED
        BY <1>n, <2>1, Apart
    <3>. HIDE DEF q
    <3>. QED
      BY <1>n, <1>2, <2>1, <3>1
  <2>. HIDE DEF q, y, z
  <2>. DEFINE uz == Unit * z
  <2>4. z \in 0 .. last /\ z <= q /\ (z = q \/ z = last)
    BY <1>n, <2>1, <2>2, <2>3 DEF Lesser
  <2>5. uz \in Int /\ uz <= uq
    <3>1. z < q => Unit * z + Unit <= Unit * q
      BY <1>n, <2>1, <2>4, Apart
    <3>2. uz \in Int /\ (z < q => uz + Unit <= uq) /\ (z = q => uz = uq)
      BY <1>n, <2>4, <3>1
    <3>. HIDE DEF uz, uq
    <3>. QED
      BY <1>n, <2>1, <2>4, <3>2
  <2>6. z * Unit = uz /\ (z + 1) * Unit = uz + Unit
    BY <1>n, <2>4
  <2>7. z = q => uz = uq
    OBVIOUS
  <2>. HIDE DEF uz, uq
  <2>8. z * Unit <= y /\ (y < (z + 1) * Unit \/ z = last)
    BY <1>n, <1>2, <2>1, <2>4, <2>5, <2>6, <2>7
  <2>9. z \in 0 .. d.zones - 1
    BY <2>4
  <2>. QED
    BY <1>1, <1>4, <2>8, <2>9 DEF Chosen, z, y
<1>. QED
  BY <1>3, <1>4

\* One LED for each zone.
\* A frame with the zones of a selector on it: those it can have are seen, and z as the one selected.
Picked(f, g, d, z) ==
  LET selected == {k \in 0 .. f.n - 1 : "selected" \in g.leds[k]}
  IN  /\ Framed(g) /\ g.n = f.n /\ g.overlay = f.overlay /\ g.bottomSet = f.bottomSet
      /\ \A k \in 0 .. f.n - 1 : g.leds[k] \subseteq {"selected", "other"}
      /\ z < d.zones => selected \subseteq Members(g.active) /\ ZoneShows(g, d, z, selected)

LEMMA PointZonesAre ==
  ASSUME NEW f, Framed(f), f.n > 0, NEW d \in SelectorDescs, d.geo = "Point", NEW z \in Nat
  PROVE  Picked(f, PointZones(f, d, z), d, z)
<1>. DEFINE paint == [k \in 0 .. f.n - 1 |-> IF k < d.zones /\ k \in d.available THEN ZoneColor(d, k, z) ELSE {}]
            h == Painted(f, paint)
            g == PointZones(f, d, z)
            selected == {k \in 0 .. f.n - 1 : "selected" \in g.leds[k]}
<1>n. f.n \in Nat \ {0} /\ d.zones \in Nat /\ d.inactive \in SUBSET {"other"} /\ d.available \in SUBSET Nat
  BY DEF Framed, SelectorDescs
<1>1. /\ Framed(h) /\ Besides(f, h)
      /\ \A k \in 0 .. f.n - 1 : h.leds[k] = IF k \in DOMAIN paint THEN paint[k] ELSE f.leds[k]
  <2>. HIDE DEF paint
  <2>. QED
    BY PaintedIs
<1>2. \A k \in 0 .. f.n - 1 :
        h.leds[k] = IF k < d.zones /\ k \in d.available THEN ZoneColor(d, k, z) ELSE {}
  BY <1>1
<1>3. g = IF z < f.n THEN [h EXCEPT !.active = Leds(z, z)] ELSE h
  BY DEF PointZones
<1>. HIDE DEF h, g
<1>4. /\ Framed(g) /\ g.n = f.n /\ g.leds = h.leds /\ g.overlay = f.overlay /\ g.bottomSet = f.bottomSet
      /\ z < f.n => Members(g.active) = {z}
  <2>1. CASE ~(z < f.n)
    BY <1>1, <1>3, <2>1 DEF Besides
  <2>2. CASE z < f.n
    <3>1. z \in 0 .. f.n - 1
      BY <1>n, <2>2
    <3>2. Stretch(f.n, Leds(z, z)) /\ Members(Leds(z, z)) = z .. z
      BY <1>n, <3>1, LedsAre
    <3>. DEFINE act == Leds(z, z)
    <3>3. Stretch(h.n, act) /\ Members(act) = {z}
      BY <1>1, <3>2 DEF Besides
    <3>4. g = [h EXCEPT !.active = act]
      BY <1>3, <2>2
    <3>. HIDE DEF act
    <3>5. g = [n |-> h.n, overlay |-> h.overlay, leds |-> h.leds, touched |-> h.touched, active |-> act,
               armCw |-> h.armCw, armCcw |-> h.armCcw, pastTip |-> h.pastTip, span |-> h.span,
               bottom |-> h.bottom, bottomSet |-> h.bottomSet]
      BY <1>1, <3>4 DEF Framed, Shaped
    <3>6. Framed(g) /\ g.n = h.n /\ g.leds = h.leds /\ g.overlay = h.overlay /\ g.bottomSet = h.bottomSet
          /\ g.active = act
      BY <1>1, <3>3, <3>5, ActiveIs
    <3>. QED
      BY <1>1, <3>3, <3>6 DEF Besides
  <2>. QED
    BY <2>1, <2>2
<1>5. \A k \in 0 .. f.n - 1 :
        /\ g.leds[k] \subseteq {"selected", "other"}
        /\ "selected" \in g.leds[k] <=> k < d.zones /\ k \in d.available /\ k = z
  BY <1>n, <1>2, <1>4 DEF ZoneColor
<1>6. ASSUME z < d.zones PROVE selected \subseteq Members(g.active) /\ ZoneShows(g, d, z, selected)
  <2>1. \A k \in selected : k = z /\ z < f.n
    BY <1>n, <1>5
  <2>2. selected \subseteq Members(g.active)
    BY <1>4, <2>1
  <2>3. selected # {} <=> z \in d.available /\ z < f.n
    <3>1. z \in d.available /\ z < f.n => z \in selected
      BY <1>n, <1>5, <1>6
    <3>. QED
      BY <1>5, <2>1, <3>1
  <2>. HIDE DEF selected
  <2>. QED
    BY <1>4, <2>1, <2>2, <2>3 DEF ZoneShows
<1>7. Picked(f, g, d, z)
  BY <1>4, <1>5, <1>6 DEF Picked
<1>. QED
  BY <1>7 DEF g

\* A set of LEDs has a first and a last one.
LEMMA EndsOf ==
  ASSUME NEW n \in Nat, NEW S \in SUBSET (0 .. n - 1), S # {}
  PROVE  /\ (CHOOSE k \in S : \A j \in S : k <= j) \in S
         /\ (CHOOSE k \in S : \A j \in S : k >= j) \in S
         /\ \A k \in S : /\ (CHOOSE k1 \in S : \A j \in S : k1 <= j) <= k
                         /\ k <= (CHOOSE k1 \in S : \A j \in S : k1 >= j)
<1>1. ASSUME NEW T \in SUBSET Nat, T # {} PROVE \E x \in T : \A y \in T : x <= y
  <2>. DEFINE R == {ss \in Nat \X Nat : ss[1] < ss[2]}
  <2>1. IsWellFoundedOn(R, Nat)
    BY NatLessThanWellFounded DEF OpToRel
  <2>2. PICK x \in T : \A y \in T : <<y, x>> \notin R
    <3>. HIDE DEF R
    <3>. QED
      BY <1>1, <2>1, WFMin
  <2>3. ASSUME NEW y \in T PROVE x <= y
    <3>1. x \in Nat /\ y \in Nat
      BY <1>1
    <3>2. ~(<<y, x>>[1] < <<y, x>>[2])
      BY <2>2, <3>1
    <3>. QED
      BY <3>1, <3>2
  <2>. QED
    BY <2>3
<1>2. \E k \in S : \A j \in S : k <= j
  BY <1>1
<1>3. \E k \in S : \A j \in S : k >= j
  <2>. DEFINE T == {n - k : k \in S}
  <2>1. T \in SUBSET Nat /\ T # {}
    OBVIOUS
  <2>2. PICK x \in T : \A y \in T : x <= y
    <3>. HIDE DEF T
    <3>. QED
      BY <1>1, <2>1
  <2>3. PICK k \in S : x = n - k
    BY <2>2
  <2>4. ASSUME NEW j \in S PROVE k >= j
    <3>1. n - k <= n - j
      BY <2>2, <2>3
    <3>2. k \in Int /\ j \in Int
      OBVIOUS
    <3>. QED
      BY <3>1, <3>2
  <2>. QED
    BY <2>4
<1>. QED
  BY <1>2, <1>3

\* The blocks.
Zone(n, d, k) == (k * d.zones) \div n
End(n, d, z) == ((z + 1) * n + d.zones - 1) \div d.zones - 1

LEMMA ZoneIs ==
  ASSUME NEW n \in Nat \ {0}, NEW d, d.zones \in Nat \ {0}, NEW k \in 0 .. n - 1
  PROVE  /\ Zone(n, d, k) \in Int /\ n * Zone(n, d, k) \in Int
         /\ n * Zone(n, d, k) <= k * d.zones /\ k * d.zones < n * Zone(n, d, k) + n
<1>. DEFINE x == k * d.zones  q == x \div n  rest == x % n  nq == n * q
<1>1. x \in Int
  OBVIOUS
<1>2. q \in Int /\ rest \in 0 .. n - 1 /\ nq \in Int /\ x = nq + rest
  <2>. HIDE DEF x
  <2>. QED
    BY <1>1, Quotient
<1>. HIDE DEF x, rest, nq
<1>3. nq <= x /\ x < nq + n
  BY <1>1, <1>2
<1>. QED
  BY <1>2, <1>3 DEF Zone, x, nq

\* Every block has an LED that is no gap.
LEMMA BlockIsSeen ==
  ASSUME NEW n \in Nat \ {0}, NEW d, d.zones \in Nat \ {0}, 2 * d.zones <= n + 1, NEW z \in 0 .. d.zones - 1
  PROVE  \E k \in 0 .. n - 1 : Zone(n, d, k) = z /\ (k # End(n, d, z) \/ z = d.zones - 1)
<1>. DEFINE m == d.zones
            zn == z * n
            x == zn + m - 1
            k == x \div m
            mk == m * k
<1>1. m \in Nat \ {0} /\ zn \in Nat /\ z \in Nat /\ x \in Int /\ 2 * m <= n + 1 /\ z <= m - 1
  OBVIOUS
<1>2. k \in Int /\ mk \in Int /\ mk <= x /\ x < mk + m
  <2>. DEFINE rest == x % m
  <2>1. k \in Int /\ rest \in 0 .. m - 1 /\ mk \in Int /\ x = mk + rest
    <3>. HIDE DEF x, m
    <3>. QED
      BY <1>1, Quotient
  <2>. HIDE DEF rest, x, m, mk
  <2>2. mk <= x /\ x < mk + m
    BY <1>1, <2>1
  <2>. QED
    BY <2>1, <2>2
<1>3. n * z = zn /\ k * m = mk
  <2>. HIDE DEF k
  <2>. QED
    BY <1>2, <1>1
<1>. HIDE DEF k
<1>4. (k * m) \div n = z
  <2>1. n * z <= k * m /\ k * m < n * z + n
    <3>. HIDE DEF mk, zn, m
    <3>. QED
      BY <1>1, <1>2, <1>3 DEF x
  <2>. DEFINE a == k * m
  <2>2. a \in Int /\ n * z <= a /\ a < n * z + n /\ z \in Int
    BY <1>1, <1>2, <2>1
  <2>. HIDE DEF a
  <2>3. a \div n = z
    BY <2>2, QuotientIs
  <2>. QED
    BY <2>3 DEF a
<1>5. k \in 0 .. n - 1
  <2>1. k < 0 => mk + m <= 0
    <3>1. k < 0 => m * k + m <= m * 0
      <4>. HIDE DEF m
      <4>. QED
        BY <1>1, <1>2, Apart
    <3>. QED
      BY <3>1
  <2>. DEFINE mn == m * n
  <2>2. k >= n => mk >= mn
    <3>1. n < k => m * n + m <= m * k
      <4>. HIDE DEF m
      <4>. QED
        BY <1>1, <1>2, Apart
    <3>2. m * n \in Int
      OBVIOUS
    <3>3. k = n => mk = mn
      OBVIOUS
    <3>. HIDE DEF mk, mn, m
    <3>. QED
      BY <1>1, <1>2, <3>1, <3>2, <3>3 DEF mk, mn
  <2>3. mn \in Int /\ zn + n <= mn
    <3>1. z < m => n * z + n <= n * m
      <4>. HIDE DEF m
      <4>. QED
        BY <1>1, Apart
    <3>2. n * m = mn /\ mn \in Int
      OBVIOUS
    <3>. QED
      BY <1>1, <1>3, <3>1, <3>2
  <2>. HIDE DEF mk, zn, m, mn
  <2>. QED
    BY <1>1, <1>2, <2>1, <2>2, <2>3 DEF x
<1>6. ASSUME k = End(n, d, z), z # m - 1 PROVE FALSE
  <2>. DEFINE y == (z + 1) * n + m - 1
              e == y \div m
              me == m * e
  <2>1. y \in Int /\ y = zn + n + m - 1
    BY <1>1
  <2>2. e \in Int /\ me \in Int /\ y < me + m
    <3>. DEFINE rest == y % m
    <3>1. e \in Int /\ rest \in 0 .. m - 1 /\ me \in Int /\ y = me + rest
      <4>. HIDE DEF y, m
      <4>. QED
        BY <1>1, <2>1, Quotient
    <3>. HIDE DEF rest, y, m, me
    <3>2. y < me + m
      BY <1>1, <2>1, <3>1
    <3>. QED
      BY <3>1, <3>2
  <2>3. k = e - 1
    BY <1>6 DEF End
  <2>. HIDE DEF e
  <2>4. me = mk + m
    <3>1. e = k + 1
      BY <1>2, <2>2, <2>3
    <3>. HIDE DEF m
    <3>2. m * (k + 1) = m * k + m
      BY <1>1, <1>2
    <3>. QED
      BY <3>1, <3>2
  <2>5. n = 2 * m - 1 /\ mk = zn + m - 1
    <3>. HIDE DEF mk, zn, m, me, y
    <3>. QED
      BY <1>1, <1>2, <2>1, <2>2, <2>4 DEF x
  <2>. DEFINE t == (2 * z + 1) - k
  <2>6. m * t = z + 1 /\ t \in Int
    <3>1. zn = 2 * (z * m) - z
      BY <1>1, <2>5
    <3>2. m * t = 2 * (z * m) + m - mk
      BY <1>1, <1>2
    <3>. DEFINE zm == z * m
    <3>3. zm \in Int
      BY <1>1
    <3>4. zn = 2 * zm - z /\ m * t = 2 * zm + m - mk /\ mk = zn + m - 1
      BY <2>5, <3>1, <3>2
    <3>5. t \in Int
      BY <1>1, <1>2
    <3>. DEFINE mt == m * t
    <3>6. mt = 2 * zm + m - mk
      BY <3>4
    <3>. HIDE DEF zm, mk, zn, t, m, mt
    <3>7. mt = z + 1
      BY <1>1, <1>2, <3>3, <3>4, <3>6
    <3>. QED
      BY <3>5, <3>7 DEF mt
  <2>. HIDE DEF t, m
  <2>7. t < 1 => m * t <= 0
    <3>1. t < 0 => m * t + m <= m * 0
      BY <1>1, <2>6, Apart
    <3>2. t = 0 => m * t = 0
      BY <1>1
    <3>3. m * 0 = 0
      BY <1>1
    <3>. QED
      BY <1>1, <2>6, <3>1, <3>2, <3>3
  <2>8. t > 0 => m * t >= m
    <3>1. 0 < t => m * 0 + m <= m * t
      BY <1>1, <2>6, Apart
    <3>2. m * 0 = 0
      BY <1>1
    <3>. QED
      BY <1>1, <2>6, <3>1, <3>2
  <2>. QED
    BY <1>1, <1>6, <2>6, <2>7, <2>8
<1>. QED
  BY <1>4, <1>5, <1>6 DEF Zone

\* Blocks of LEDs, and gaps between them.
LEMMA RegionZonesAre ==
  ASSUME NEW f, Framed(f), f.n > 0, NEW d \in SelectorDescs, d.geo = "Region", d.zones > 0, NEW z \in Nat,
         2 * d.zones <= f.n + 1
  PROVE  Picked(f, RegionZones(f, d, z), d, z)
<1>. DEFINE last == d.zones - 1
            gaps == {k \in 0 .. f.n - 1 : k = End(f.n, d, Zone(f.n, d, k)) /\ Zone(f.n, d, k) # last}
            mine == {k \in 0 .. f.n - 1 : Zone(f.n, d, k) = z} \ gaps
            paint == [k \in 0 .. f.n - 1 |-> IF k \notin gaps /\ Zone(f.n, d, k) \in d.available
                                             THEN ZoneColor(d, Zone(f.n, d, k), z) ELSE {}]
            h == Painted(f, paint)
            a == CHOOSE k \in mine : \A j \in mine : k <= j
            b == CHOOSE k \in mine : \A j \in mine : k >= j
            g == RegionZones(f, d, z)
            selected == {k \in 0 .. f.n - 1 : "selected" \in g.leds[k]}
<1>n. /\ f.n \in Nat \ {0} /\ d.zones \in Nat \ {0} /\ d.inactive \in SUBSET {"other"}
      /\ d.available \in SUBSET Nat
  <2>1. f.n \in Nat \ {0}
    BY DEF Framed
  <2>2. d.zones \in Nat \ {0} /\ d.inactive \in SUBSET {"other"} /\ d.available \in SUBSET Nat
    BY DEF SelectorDescs
  <2>. QED
    BY <2>1, <2>2
<1>1. /\ Framed(h) /\ Besides(f, h)
      /\ \A k \in 0 .. f.n - 1 : h.leds[k] = IF k \in DOMAIN paint THEN paint[k] ELSE f.leds[k]
  <2>. HIDE DEF paint
  <2>. QED
    BY PaintedIs
<1>2. \A k \in 0 .. f.n - 1 :
        h.leds[k] = IF k \notin gaps /\ Zone(f.n, d, k) \in d.available
                    THEN ZoneColor(d, Zone(f.n, d, k), z) ELSE {}
  BY <1>1
<1>3. g = IF mine = {} THEN h ELSE [h EXCEPT !.active = Leds(a, b)]
  BY DEF RegionZones, Zone, End
<1>. HIDE DEF h, g
<1>4. /\ Framed(g) /\ g.n = f.n /\ g.leds = h.leds /\ g.overlay = f.overlay /\ g.bottomSet = f.bottomSet
      /\ mine \subseteq Members(g.active)
  <2>1. CASE mine = {}
    BY <1>1, <1>3, <2>1 DEF Besides
  <2>2. CASE mine # {}
    <3>1. a \in mine /\ b \in mine /\ \A k \in mine : a <= k /\ k <= b
      <4>1. mine \in SUBSET (0 .. f.n - 1)
        OBVIOUS
      <4>. HIDE DEF mine
      <4>. QED
        BY <1>n, <2>2, <4>1, EndsOf
    <3>. HIDE DEF a, b
    <3>2. Stretch(f.n, Leds(a, b)) /\ Members(Leds(a, b)) = a .. b
      BY <1>n, <3>1, LedsAre
    <3>3. mine \subseteq a .. b
      BY <1>n, <3>1
    <3>. DEFINE act == Leds(a, b)
    <3>4. Stretch(h.n, act) /\ mine \subseteq Members(act)
      BY <1>1, <3>2, <3>3 DEF Besides
    <3>5. g = [h EXCEPT !.active = act]
      BY <1>3, <2>2
    <3>. HIDE DEF act, mine
    <3>6. g = [n |-> h.n, overlay |-> h.overlay, leds |-> h.leds, touched |-> h.touched, active |-> act,
               armCw |-> h.armCw, armCcw |-> h.armCcw, pastTip |-> h.pastTip, span |-> h.span,
               bottom |-> h.bottom, bottomSet |-> h.bottomSet]
      BY <1>1, <3>5 DEF Framed, Shaped
    <3>7. Framed(g) /\ g.n = h.n /\ g.leds = h.leds /\ g.overlay = h.overlay /\ g.bottomSet = h.bottomSet
          /\ g.active = act
      BY <1>1, <3>4, <3>6, ActiveIs
    <3>. QED
      BY <1>1, <3>4, <3>7 DEF Besides
  <2>. QED
    BY <2>1, <2>2
<1>5. \A k \in 0 .. f.n - 1 :
        /\ g.leds[k] \subseteq {"selected", "other"}
        /\ "selected" \in g.leds[k] <=> k \in mine /\ z \in d.available
  <2>1. \A k \in 0 .. f.n - 1 : k \in mine <=> k \notin gaps /\ Zone(f.n, d, k) = z
    OBVIOUS
  <2>. HIDE DEF gaps, mine
  <2>. QED
    BY <1>n, <1>2, <1>4, <2>1 DEF ZoneColor
<1>6. ASSUME z < d.zones PROVE selected \subseteq Members(g.active) /\ ZoneShows(g, d, z, selected)
  <2>1. z \in 0 .. d.zones - 1
    BY <1>n, <1>6
  <2>2. mine # {}
    <3>1. PICK k \in 0 .. f.n - 1 : Zone(f.n, d, k) = z /\ (k # End(f.n, d, z) \/ z = d.zones - 1)
      BY <1>n, <2>1, BlockIsSeen
    <3>2. k \in mine
      BY <3>1
    <3>. QED
      BY <3>2
  <2>3. selected = IF z \in d.available THEN mine ELSE {}
    <3>1. mine \subseteq 0 .. f.n - 1
      OBVIOUS
    <3>. HIDE DEF mine
    <3>. QED
      BY <1>5, <3>1
  <2>4. ASSUME NEW k \in selected PROVE k * d.zones \in z * f.n .. (z + 1) * f.n - 1
    <3>1. k \in 0 .. f.n - 1 /\ Zone(f.n, d, k) = z
      BY <1>5
    <3>2. f.n * z <= k * d.zones /\ k * d.zones < f.n * z + f.n
      BY <1>n, <3>1, ZoneIs
    <3>. DEFINE zn == z * f.n  x == k * d.zones
    <3>3. f.n * z = zn /\ (z + 1) * f.n = zn + f.n /\ zn \in Int /\ x \in Int
      BY <1>n, <3>1
    <3>. HIDE DEF zn, x
    <3>4. zn <= x /\ x < zn + f.n
      BY <3>2, <3>3 DEF x
    <3>5. x \in zn .. (zn + f.n) - 1
      BY <1>n, <3>3, <3>4
    <3>. QED
      BY <3>3, <3>5 DEF x, zn
  <2>5. selected # {} <=> z \in d.available
    BY <2>2, <2>3
  <2>6. selected \subseteq Members(g.active)
    BY <1>4, <2>3
  <2>. HIDE DEF selected
  <2>. QED
    BY <1>4, <2>4, <2>5, <2>6 DEF ZoneShows
<1>7. Picked(f, g, d, z)
  BY <1>4, <1>5, <1>6 DEF Picked
<1>. QED
  BY <1>7 DEF g

\* Zones spread over the arc.
LEMMA PlaceIs ==
  ASSUME NEW n \in Nat \ {0}, NEW zones \in Nat \ {0}, NEW z \in 0 .. zones - 1
  PROVE  LET k == DistributedZonePosition(z, zones, n)
         IN  k \in 0 .. n - 1 /\ (zones > 1 => Near(k * (zones - 1), z * (n - 1), zones - 1))
<1>. DEFINE k == DistributedZonePosition(z, zones, n)
            last == zones - 1
            most == n - 1
            x == z * most
            q == Round(x, last)
<1>1. CASE zones = 1
  BY <1>1 DEF DistributedZonePosition
<1>2. CASE zones # 1
  <2>1. last \in Nat \ {0} /\ most \in Nat /\ z \in 0 .. last /\ ~(zones <= 1) /\ n # 0
    BY <1>2
  <2>2. x \in Nat /\ x <= last * most
    <3>1. PICK rest \in Nat : last = z + rest
      <4>1. last - z \in Nat /\ last = z + (last - z)
        BY <2>1
      <4>. QED
        BY <4>1
    <3>. DEFINE p == rest * most
    <3>2. last * most = x + p /\ p \in Nat /\ x \in Nat
      BY <2>1, <3>1
    <3>. HIDE DEF x, p
    <3>3. x <= x + p
      BY <3>2
    <3>. QED
      BY <3>2, <3>3
  <2>3. q \in 0 .. most /\ last * q \in Int /\ 2 * (last * q - x) <= last /\ 2 * (x - last * q) < last
    <3>1. x \in Int
      BY <2>2
    <3>. HIDE DEF x, last, most
    <3>2. q \in 0 .. most
      BY <2>1, <2>2, RoundBetween
    <3>3. last * q \in Int /\ 2 * (last * q - x) <= last /\ 2 * (x - last * q) < last
      BY <2>1, <3>1, RoundIs
    <3>. QED
      BY <3>2, <3>3
  <2>4. k = Lesser(q, most)
    BY <2>1 DEF DistributedZonePosition
  <2>. HIDE DEF q, k
  <2>5. k = q
    BY <2>1, <2>3, <2>4 DEF Lesser
  <2>. DEFINE kl == k * last
  <2>6. kl = last * q /\ kl \in Int
    BY <2>1, <2>3, <2>5
  <2>7. Near(kl, x, last)
    <3>1. 2 * (kl - x) <= last /\ 2 * (x - kl) < last
      BY <2>3, <2>6
    <3>. HIDE DEF kl, x, last
    <3>2. 2 * (x - kl) <= last
      BY <2>1, <2>2, <2>6, <3>1
    <3>. QED
      BY <3>1, <3>2 DEF Near
  <2>. QED
    BY <2>1, <2>3, <2>5, <2>7 DEF k
<1>. QED
  BY <1>1, <1>2

\* The zones nearest to an LED: the later one shows, and over all the selected one.
LEMMA DistributedZonesAre ==
  ASSUME NEW f, Framed(f), f.n > 0, NEW d \in SelectorDescs, d.zones > 0, NEW z \in Nat,
         d.geo = "Distributed" \/ (d.geo = "Region" /\ f.n + 1 < 2 * d.zones)
  PROVE  LET g == DistributedZones(f, d, z)
             selected == {k \in 0 .. f.n - 1 : "selected" \in g.leds[k]}
         IN  /\ Framed(g) /\ g.n = f.n /\ g.overlay = f.overlay /\ g.bottomSet = f.bottomSet
             /\ \A k \in 0 .. f.n - 1 : g.leds[k] \subseteq {"selected", "other"}
             /\ d.zones > 1 =>
                  /\ z < d.zones => selected \subseteq Members(g.active) /\ ZoneShows(g, d, z, selected)
                  /\ \A k \in 0 .. f.n - 1 :
                       g.leds[k] # {} => \E y \in d.available : y < d.zones /\ Nearby(f.n, d, y, k)
<1>. DEFINE zones == {y \in d.available : y < d.zones}
            At(y) == DistributedZonePosition(y, d.zones, f.n)
            Over(k) == CHOOSE y \in zones : At(y) = k /\ \A y1 \in zones : At(y1) = k => y1 <= y
            paint == [k \in 0 .. f.n - 1 |->
                        IF z \in zones /\ k = At(z) THEN {"selected"}
                        ELSE IF \E y \in zones : At(y) = k THEN ZoneColor(d, Over(k), z) ELSE {}]
            h == Painted(f, paint)
            g == DistributedZones(f, d, z)
            selected == {k \in 0 .. f.n - 1 : "selected" \in g.leds[k]}
<1>n. /\ f.n \in Nat \ {0} /\ d.zones \in Nat \ {0} /\ d.inactive \in SUBSET {"other"}
      /\ d.available \in SUBSET Nat
  BY DEF Framed, SelectorDescs
<1>z. zones \subseteq 0 .. d.zones - 1
  BY <1>n
<1>a. \A y \in zones : At(y) \in 0 .. f.n - 1 /\ (d.zones > 1 => Nearby(f.n, d, y, At(y)))
  BY <1>n, <1>z, PlaceIs DEF Nearby
<1>1. /\ Framed(h) /\ Besides(f, h)
      /\ \A k \in 0 .. f.n - 1 : h.leds[k] = IF k \in DOMAIN paint THEN paint[k] ELSE f.leds[k]
  <2>. HIDE DEF paint
  <2>. QED
    BY PaintedIs
<1>2. \A k \in 0 .. f.n - 1 :
        h.leds[k] = IF z \in zones /\ k = At(z) THEN {"selected"}
                    ELSE IF \E y \in zones : At(y) = k THEN ZoneColor(d, Over(k), z) ELSE {}
  BY <1>1
<1>3. g = IF z \in zones THEN [h EXCEPT !.active = Leds(At(z), At(z))] ELSE h
  BY DEF DistributedZones
<1>o. ASSUME NEW k \in 0 .. f.n - 1, \E y \in zones : At(y) = k
      PROVE  Over(k) \in zones /\ At(Over(k)) = k
  <2>. DEFINE S == {y \in zones : At(y) = k}
  <2>1. S \in SUBSET (0 .. d.zones - 1) /\ S # {}
    BY <1>z, <1>o
  <2>. DEFINE b == CHOOSE y \in S : \A j \in S : y >= j
  <2>2. b \in S /\ \A y \in S : y <= b
    <3>. HIDE DEF S
    <3>. QED
      BY <1>n, <2>1, EndsOf
  <2>. HIDE DEF b
  <2>3. b \in zones /\ At(b) = k /\ \A y1 \in zones : At(y1) = k => y1 <= b
    BY <2>2
  <2>. QED
    BY <2>3
<1>. HIDE DEF h, g
<1>4. /\ Framed(g) /\ g.n = f.n /\ g.leds = h.leds /\ g.overlay = f.overlay /\ g.bottomSet = f.bottomSet
      /\ z \in zones => Members(g.active) = {At(z)}
  <2>1. CASE z \notin zones
    BY <1>1, <1>3, <2>1 DEF Besides
  <2>2. CASE z \in zones
    <3>. DEFINE k == At(z)
    <3>1. k \in 0 .. f.n - 1
      BY <1>a, <2>2
    <3>2. g = [h EXCEPT !.active = Leds(k, k)]
      BY <1>3, <2>2
    <3>. HIDE DEF k
    <3>3. Stretch(f.n, Leds(k, k)) /\ Members(Leds(k, k)) = k .. k
      BY <1>n, <3>1, LedsAre
    <3>. DEFINE act == Leds(k, k)
    <3>4. Stretch(h.n, act) /\ Members(act) = {k}
      BY <1>1, <3>1, <3>3 DEF Besides
    <3>5. g = [h EXCEPT !.active = act]
      BY <3>2
    <3>. HIDE DEF act
    <3>6. g = [n |-> h.n, overlay |-> h.overlay, leds |-> h.leds, touched |-> h.touched, active |-> act,
               armCw |-> h.armCw, armCcw |-> h.armCcw, pastTip |-> h.pastTip, span |-> h.span,
               bottom |-> h.bottom, bottomSet |-> h.bottomSet]
      BY <1>1, <3>5 DEF Framed, Shaped
    <3>7. Framed(g) /\ g.n = h.n /\ g.leds = h.leds /\ g.overlay = h.overlay /\ g.bottomSet = h.bottomSet
          /\ g.active = act
      BY <1>1, <3>4, <3>6, ActiveIs
    <3>. QED
      BY <1>1, <3>4, <3>7 DEF Besides, k
  <2>. QED
    BY <2>1, <2>2
<1>. HIDE DEF At, Over, paint
<1>5. ASSUME NEW k \in 0 .. f.n - 1
      PROVE  /\ g.leds[k] \subseteq {"selected", "other"}
             /\ "selected" \in g.leds[k] <=> z \in zones /\ k = At(z)
             /\ g.leds[k] # {} => \E y \in zones : At(y) = k
  <2>1. CASE z \in zones /\ k = At(z)
    BY <1>2, <1>4, <2>1
  <2>2. CASE ~(z \in zones /\ k = At(z)) /\ \E y \in zones : At(y) = k
    <3>1. Over(k) \in zones /\ At(Over(k)) = k
      BY <1>o, <2>2
    <3>2. Over(k) # z
      BY <2>2, <3>1
    <3>3. g.leds[k] = d.inactive
      BY <1>2, <1>4, <2>2, <3>2 DEF ZoneColor
    <3>. QED
      BY <1>n, <2>2, <3>3
  <2>3. CASE ~(z \in zones /\ k = At(z)) /\ ~\E y \in zones : At(y) = k
    BY <1>2, <1>4, <2>3
  <2>. QED
    BY <2>1, <2>2, <2>3
<1>6. ASSUME d.zones > 1, z < d.zones
      PROVE  selected \subseteq Members(g.active) /\ ZoneShows(g, d, z, selected)
  <2>1. z \in zones <=> z \in d.available
    BY <1>6
  <2>2. selected = IF z \in zones THEN {At(z)} ELSE {}
    BY <1>5, <1>a
  <2>3. \A k \in selected : Nearby(f.n, d, z, k)
    BY <1>6, <1>a, <2>2
  <2>4. selected # {} <=> z \in d.available
    BY <2>1, <2>2
  <2>5. selected \subseteq Members(g.active)
    BY <1>4, <2>2
  <2>6. d.geo # "Point" /\ ~(d.geo = "Region" /\ 2 * d.zones <= f.n + 1)
    BY <1>n
  <2>. HIDE DEF selected, zones
  <2>. QED
    BY <1>4, <2>3, <2>4, <2>5, <2>6 DEF ZoneShows
<1>7. ASSUME d.zones > 1, NEW k \in 0 .. f.n - 1, g.leds[k] # {}
      PROVE  \E y \in d.available : y < d.zones /\ Nearby(f.n, d, y, k)
  <2>1. PICK y \in zones : At(y) = k
    BY <1>5, <1>7
  <2>. QED
    BY <1>7, <1>a, <2>1
<1>. QED
  BY <1>4, <1>5, <1>6, <1>7 DEF g

\* What the LEDs of a selector show of zone z.
SelectorShows(f, d, z) ==
  LET selected == {k \in 0 .. f.n - 1 : "selected" \in f.leds[k]}
  IN  /\ selected \subseteq Members(f.active) /\ ZoneShows(f, d, z, selected)
      /\ d.geo = "Distributed" =>
           \A k \in 0 .. f.n - 1 :
             f.leds[k] # {} => \E y \in d.available : y < d.zones /\ Nearby(f.n, d, y, k)

LEMMA BaseZoneIs ==
  ASSUME NEW f, Framed(f), Blank(f), NEW d \in SelectorDescs, NEW z \in Nat
  PROVE  LET g == BaseZone(f, d, z)
         IN  /\ Framed(g) /\ g.n = f.n /\ g.overlay = f.overlay /\ g.bottomSet = f.bottomSet
             /\ \A k \in 0 .. f.n - 1 : g.leds[k] \subseteq {"selected", "other"}
             /\ f.n > 0 /\ d.zones > 1 /\ z < d.zones => SelectorShows(g, d, z)
<1>. DEFINE zn == Lesser(z, d.zones - 1)
            g == BaseZone(f, d, z)
<1>n. f.n \in Nat /\ d.zones \in Nat /\ d.geo \in {"Distributed", "Point", "Region"}
  BY DEF Framed, SelectorDescs
<1>1. CASE f.n = 0 \/ d.zones = 0
  <2>1. g = f
    BY <1>1 DEF BaseZone
  <2>. HIDE DEF g
  <2>. QED
    BY <1>n, <1>1, <2>1 DEF g, Blank
<1>2. CASE f.n > 0 /\ d.zones > 0
  <2>1. zn \in Nat /\ (z < d.zones => zn = z) /\ ~(f.n = 0 \/ d.zones = 0)
    BY <1>n, <1>2 DEF Lesser
  <2>. HIDE DEF zn
  <2>2. CASE d.geo = "Region" /\ 2 * d.zones <= f.n + 1
    <3>1. ~FallsBack(f, d)
      BY <1>n, <2>2 DEF FallsBack
    <3>2. g = RegionZones(f, d, zn)
      BY <2>1, <2>2, <3>1 DEF BaseZone, zn
    <3>. DEFINE h == RegionZones(f, d, zn)
                selected == {k \in 0 .. f.n - 1 : "selected" \in h.leds[k]}
    <3>3. Picked(f, h, d, zn)
      <4>1. f.n > 0 /\ d.zones > 0 /\ d.geo = "Region" /\ 2 * d.zones <= f.n + 1 /\ zn \in Nat
        BY <1>2, <2>1, <2>2
      <4>. QED
        BY <4>1, RegionZonesAre
    <3>. HIDE DEF g, h
    <3>4. g = h
      BY <3>2 DEF h
    <3>5. d.geo # "Distributed"
      BY <2>2
    <3>6. z < d.zones => SelectorShows(g, d, z)
      BY <2>1, <3>3, <3>4, <3>5 DEF Picked, SelectorShows
    <3>. QED
      BY <3>3, <3>4, <3>6 DEF g, Picked
  <2>3. CASE d.geo = "Point"
    <3>2. g = PointZones(f, d, zn)
      BY <2>1, <2>3 DEF BaseZone, zn, FallsBack
    <3>. DEFINE h == PointZones(f, d, zn)
                selected == {k \in 0 .. f.n - 1 : "selected" \in h.leds[k]}
    <3>3. Picked(f, h, d, zn)
      <4>1. f.n > 0 /\ d.zones > 0 /\ d.geo = "Point" /\ zn \in Nat
        BY <1>2, <2>1, <2>3
      <4>. QED
        BY <4>1, PointZonesAre
    <3>. HIDE DEF g, h
    <3>4. g = h
      BY <3>2 DEF h
    <3>5. d.geo # "Distributed"
      BY <2>3
    <3>6. z < d.zones => SelectorShows(g, d, z)
      BY <2>1, <3>3, <3>4, <3>5 DEF Picked, SelectorShows
    <3>. QED
      BY <3>3, <3>4, <3>6 DEF g, Picked
  <2>4. CASE d.geo = "Distributed" \/ (d.geo = "Region" /\ f.n + 1 < 2 * d.zones)
    <3>1. d.geo = "Region" => FallsBack(f, d)
      BY <2>4 DEF FallsBack
    <3>2. g = DistributedZones(f, d, zn)
      BY <2>1, <2>4, <3>1 DEF BaseZone, zn
    <3>. DEFINE h == DistributedZones(f, d, zn)
                selected == {k \in 0 .. f.n - 1 : "selected" \in h.leds[k]}
    <3>3. /\ Framed(h) /\ h.n = f.n /\ h.overlay = f.overlay /\ h.bottomSet = f.bottomSet
          /\ \A k \in 0 .. f.n - 1 : h.leds[k] \subseteq {"selected", "other"}
          /\ d.zones > 1 =>
               /\ zn < d.zones => selected \subseteq Members(h.active) /\ ZoneShows(h, d, zn, selected)
               /\ \A k \in 0 .. f.n - 1 :
                    h.leds[k] # {} => \E y \in d.available : y < d.zones /\ Nearby(f.n, d, y, k)
      BY <1>2, <2>1, <2>4, DistributedZonesAre
    <3>. HIDE DEF g, h
    <3>4. g = h
      BY <3>2 DEF h
    <3>6. d.zones > 1 /\ z < d.zones => SelectorShows(g, d, z)
      BY <2>1, <3>3, <3>4 DEF SelectorShows
    <3>. QED
      BY <3>3, <3>4, <3>6 DEF g
  <2>. QED
    BY <1>n, <2>2, <2>3, <2>4
<1>. QED
  BY <1>n, <1>1, <1>2

LEMMA BaseSelectorIs ==
  ASSUME NEW f, Framed(f), Blank(f), NEW d \in SelectorDescs, NEW v \in 0 .. Unit
  PROVE  LET g == BaseSelector(f, d, v)
         IN  /\ Framed(g) /\ g.n = f.n /\ g.overlay = f.overlay /\ g.bottomSet = f.bottomSet
             /\ \A k \in 0 .. f.n - 1 : g.leds[k] \subseteq {"selected", "other"}
             /\ f.n > 0 /\ d.zones > 1 => \E z \in Chosen(f.n, d, v) : SelectorShows(g, d, z)
<1>. DEFINE g == BaseSelector(f, d, v)
            z == ZoneOf(f, d, v)
            h == BaseZone(f, d, z)
<1>n. f.n \in Nat /\ d.zones \in Nat
  BY DEF Framed, SelectorDescs
<1>1. CASE d.zones = 0
  <2>1. g = f
    BY <1>1 DEF BaseSelector
  <2>. HIDE DEF g
  <2>. QED
    BY <1>1, <2>1 DEF g, Blank
<1>2. CASE d.zones > 0
  <2>1. g = h
    BY <1>2 DEF BaseSelector
  <2>2. z \in Nat
    <3>1. CASE d.zones > 1
      <4>1. z \in 0 .. d.zones - 1
        BY <1>n, <3>1, ZoneOfIs
      <4>. QED
        BY <4>1
    <3>2. CASE d.zones = 1
      <4>. DEFINE q == IF Rounds(f, d) THEN Round(v * (d.zones - 1), Unit) ELSE (v * d.zones) \div Unit
      <4>1. Unit \in Nat \ {0}
        BY RingConstants
      <4>2. v * (d.zones - 1) = 0 /\ v * d.zones = v
        BY <3>2
      <4>3. Round(0, Unit) \in 0 .. 0
        BY <4>1, RoundBetween
      <4>4. v \div Unit \in Nat
        BY <4>1
      <4>5. q \in Nat
        BY <4>2, <4>3, <4>4
      <4>. HIDE DEF q
      <4>6. z = Lesser(q, d.zones - 1)
        BY DEF ZoneOf, q
      <4>. QED
        BY <3>2, <4>5, <4>6 DEF Lesser
    <3>. QED
      BY <1>n, <1>2, <3>1, <3>2
  <2>3. d.zones > 1 => z \in Chosen(f.n, d, v) /\ z < d.zones
    <3>1. d.zones > 1 => z \in Chosen(f.n, d, v) /\ z \in 0 .. d.zones - 1
      BY <1>n, ZoneOfIs
    <3>. HIDE DEF z
    <3>. QED
      BY <1>n, <3>1
  <2>. HIDE DEF z, g
  <2>4. /\ Framed(h) /\ h.n = f.n /\ h.overlay = f.overlay /\ h.bottomSet = f.bottomSet
        /\ \A k \in 0 .. f.n - 1 : h.leds[k] \subseteq {"selected", "other"}
        /\ f.n > 0 /\ d.zones > 1 /\ z < d.zones => SelectorShows(h, d, z)
    BY <2>2, BaseZoneIs
  <2>. HIDE DEF h
  <2>. QED
    BY <2>1, <2>3, <2>4 DEF g
<1>. QED
  BY <1>n, <1>1, <1>2

-----------------------------------------------------------------------------
\* What an overlay leaves: a picture that differs only in S, and of what it has touched is new only
\* what it has drawn or what lies in `under`.
Within(f, g, S, under) ==
  /\ Framed(g) /\ Besides(f, g)
  /\ \A k \in 0 .. f.n - 1 : k \notin S => g.leds[k] = f.leds[k]
  /\ f.overlay => g.touched \subseteq f.touched \cup under \cup {k \in 0 .. f.n - 1 : g.leds[k] # {}}

LEMMA DimIs ==
  ASSUME NEW f, Framed(f), NEW which, NEW out
  PROVE  Within(f, Dim(f, which, out), which, {})
<1>. DEFINE paint == [k \in IF f.overlay THEN which \cap f.touched ELSE which |-> IF k \in out THEN {} ELSE f.leds[k]]
            g == Painted(f, paint)
<1>1. DOMAIN paint \subseteq which /\ (f.overlay => DOMAIN paint \subseteq f.touched)
  OBVIOUS
<1>2. /\ Framed(g) /\ Besides(f, g)
      /\ \A k \in 0 .. f.n - 1 : g.leds[k] = IF k \in DOMAIN paint THEN paint[k] ELSE f.leds[k]
      /\ g.touched = f.touched \cup (DOMAIN paint \cap 0 .. f.n - 1)
  <2>. HIDE DEF paint
  <2>. QED
    BY PaintedIs
<1>3. Dim(f, which, out) = g
  BY DEF Dim
<1>. HIDE DEF g, paint
<1>4. Within(f, g, which, {})
  BY <1>1, <1>2 DEF Within
<1>. QED
  BY <1>3, <1>4

LEMMA AddIs ==
  ASSUME NEW f, Framed(f), NEW which
  PROVE  Within(f, Add(f, which, {"pip"}), which, {})
<1>. DEFINE paint == [k \in which |-> f.leds[k] \cup {"pip"}]
            g == Painted(f, paint)
<1>1. DOMAIN paint = which /\ \A k \in which : paint[k] # {}
  OBVIOUS
<1>2. /\ Framed(g) /\ Besides(f, g)
      /\ \A k \in 0 .. f.n - 1 : g.leds[k] = IF k \in DOMAIN paint THEN paint[k] ELSE f.leds[k]
      /\ g.touched = f.touched \cup (DOMAIN paint \cap 0 .. f.n - 1)
  <2>. HIDE DEF paint
  <2>. QED
    BY PaintedIs
<1>3. Add(f, which, {"pip"}) = g
  BY DEF Add
<1>. HIDE DEF g, paint
<1>4. Within(f, g, which, {})
  BY <1>1, <1>2 DEF Within
<1>. QED
  BY <1>3, <1>4

LEMMA ReplaceIs ==
  ASSUME NEW f, Framed(f), NEW paint, \A k \in DOMAIN paint : paint[k] # {}
  PROVE  LET g == Painted(f, paint)
         IN  Within(f, g, DOMAIN paint, {}) /\ g.touched \subseteq f.touched \cup DOMAIN paint
<1>. DEFINE g == Painted(f, paint)
<1>2. /\ Framed(g) /\ Besides(f, g)
      /\ \A k \in 0 .. f.n - 1 : g.leds[k] = IF k \in DOMAIN paint THEN paint[k] ELSE f.leds[k]
      /\ g.touched = f.touched \cup (DOMAIN paint \cap 0 .. f.n - 1)
  BY PaintedIs
<1>. HIDE DEF g
<1>4. Within(f, g, DOMAIN paint, {}) /\ g.touched \subseteq f.touched \cup DOMAIN paint
  BY <1>2 DEF Within
<1>. QED
  BY <1>4 DEF g

\* The pips of a pip lie inside the stretch that they are aimed at.
LEMMA TapsStay ==
  ASSUME NEW f, Framed(f), NEW d, d.compose \in {"Replace", "Add", "Carve"}, NEW s,
         s.first \in Int, s.first >= 0, NEW taps
  PROVE  Within(f, PaintTaps(f, d, s, taps), Members(s), {})
<1>. DEFINE hit == {k \in (taps.full \cup taps.part) \cap 0 .. f.n - 1 : Inside(s, k)}
            full == taps.full
            g == PaintTaps(f, d, s, taps)
<1>1. g = CASE d.compose = "Replace" -> Painted(f, [k \in hit |-> {"pip"}])
            [] d.compose = "Add"     -> Add(f, hit, {"pip"})
            [] d.compose = "Carve"   -> Dim(f, hit, full)
  BY DEF PaintTaps
<1>2. hit \subseteq Members(s)
  <2>1. \A k : Inside(s, k) => k \in s.first .. s.last
    BY DEF Inside
  <2>2. Members(s) = s.first .. s.last
    BY DEF Members
  <2>. QED
    BY <2>1, <2>2
<1>. HIDE DEF hit, g, full
<1>3. Within(f, g, hit, {})
  <2>1. CASE d.compose = "Replace"
    <3>. DEFINE paint == [k \in hit |-> {"pip"}]
    <3>1. DOMAIN paint = hit /\ \A k \in DOMAIN paint : paint[k] # {}
      OBVIOUS
    <3>2. g = Painted(f, paint)
      BY <1>1, <2>1
    <3>. HIDE DEF paint
    <3>. QED
      BY <3>1, <3>2, ReplaceIs
  <2>2. CASE d.compose = "Add"
    BY <1>1, <2>2, AddIs
  <2>3. CASE d.compose = "Carve"
    BY <1>1, <2>3, DimIs
  <2>. QED
    BY <2>1, <2>2, <2>3
<1>4. Within(f, g, Members(s), {})
  BY <1>2, <1>3 DEF Within
<1>. QED
  BY <1>4 DEF g

\* Regions stay where they are when LEDs are set.
LEMMA RegionsKeep ==
  ASSUME NEW f, NEW g, Besides(f, g), NEW region
  PROVE  Resolve(g, region) = Resolve(f, region)
BY DEF Besides, Resolve

\* A frame after an overlay in a region: it differs from the one before only in that region.
Overlaying(f, g, region, under) ==
  /\ Framed(g) /\ g.n = f.n /\ g.overlay = f.overlay
  /\ \A k \in 0 .. f.n - 1 : g.leds[k] = f.leds[k] \/ k \in Members(Resolve(g, region))
  /\ f.overlay => g.touched \subseteq f.touched \cup under \cup {k \in 0 .. f.n - 1 : g.leds[k] # {}}

LEMMA FieldIs ==
  ASSUME NEW f, Framed(f), NEW region, NEW d
  PROVE  Overlaying(f, Field(f, region, d), region, {})
<1>. DEFINE s == Resolve(f, region)
            which == Members(s)
            out == {k \in Members(s) : Darkens(d, s, k)}
            g == Field(f, region, d)
<1>1. g = IF f.n = 0 \/ s.first < 0 THEN f ELSE Dim(f, which, out)
  BY DEF Field
<1>. HIDE DEF g, out
<1>2. CASE f.n = 0 \/ s.first < 0
  <2>1. g = f
    BY <1>1, <1>2
  <2>2. Overlaying(f, g, region, {})
    BY <2>1 DEF Overlaying
  <2>. QED
    BY <2>2 DEF g
<1>3. CASE ~(f.n = 0 \/ s.first < 0)
  <2>. HIDE DEF which
  <2>1. Within(f, g, which, {})
    BY <1>1, <1>3, DimIs
  <2>2. Resolve(g, region) = s
    BY <2>1, RegionsKeep DEF Within
  <2>. HIDE DEF s
  <2>3. Overlaying(f, g, region, {})
    BY <2>1, <2>2 DEF Within, Besides, Overlaying, which
  <2>. QED
    BY <2>3 DEF g
<1>. QED
  BY <1>2, <1>3

LEMMA PipIs ==
  ASSUME NEW f, Framed(f), NEW region \in Regions, NEW d, d.compose \in {"Replace", "Add", "Carve"}, NEW p
  PROVE  Overlaying(f, Pip(f, region, d, p), region, IF d.background THEN Members(Resolve(f, region)) ELSE {})
<1>. DEFINE s == Resolve(f, region)
            which == Members(s)
            under == IF d.background THEN which ELSE {}
            h == IF d.background THEN Painted(f, [k \in which |-> {"background"}]) ELSE f
            taps == Taps(d, s, Motion(d, p))
            g == Pip(f, region, d, p)
<1>1. g = IF f.n = 0 THEN f
          ELSE IF region = "BottomPip" THEN [f EXCEPT !.bottom = {"pip"}, !.bottomSet = TRUE]
          ELSE IF s.first < 0 THEN f
          ELSE PaintTaps(h, d, s, taps)
  BY DEF Pip
<1>. HIDE DEF g, taps
<1>2. CASE f.n = 0 \/ (region # "BottomPip" /\ s.first < 0)
  <2>1. g = f
    BY <1>1, <1>2
  <2>2. Overlaying(f, g, region, under)
    BY <2>1 DEF Overlaying
  <2>. QED
    BY <2>2 DEF g
<1>3. CASE f.n # 0 /\ region = "BottomPip"
  <2>. HIDE DEF under
  <2>1. g = [f EXCEPT !.bottom = {"pip"}, !.bottomSet = TRUE]
    BY <1>1, <1>3
  <2>2. g = [n |-> f.n, overlay |-> f.overlay, leds |-> f.leds, touched |-> f.touched, active |-> f.active,
             armCw |-> f.armCw, armCcw |-> f.armCcw, pastTip |-> f.pastTip, span |-> f.span,
             bottom |-> {"pip"}, bottomSet |-> TRUE]
    BY <2>1 DEF Framed, Shaped
  <2>3. Shaped(g)
    BY <2>2 DEF Shaped
  <2>4. Framed(g)
    BY <2>2, <2>3 DEF Framed
  <2>5. Overlaying(f, g, region, under)
    BY <2>2, <2>4 DEF Overlaying
  <2>. QED
    BY <2>5 DEF g, under
<1>4. CASE f.n # 0 /\ region # "BottomPip" /\ ~(s.first < 0)
  <2>1. g = PaintTaps(h, d, s, taps)
    BY <1>1, <1>4
  <2>2. Within(f, h, which, {}) /\ h.touched \subseteq f.touched \cup under
    <3>. HIDE DEF which
    <3>1. CASE d.background
      <4>. DEFINE paint == [k \in which |-> {"background"}]
      <4>1. DOMAIN paint = which /\ \A k \in DOMAIN paint : paint[k] # {}
        OBVIOUS
      <4>2. h = Painted(f, paint) /\ under = which
        BY <3>1
      <4>. HIDE DEF paint, h, under
      <4>. QED
        BY <4>1, <4>2, ReplaceIs
    <3>2. CASE ~d.background
      BY <3>2 DEF Within, Besides
    <3>. QED
      BY <3>1, <3>2
  <2>3. s.first \in Int /\ s.first >= 0
    <3>1. f.n > 0
      BY <1>4 DEF Framed
    <3>2. s.first \in Int
      BY <3>1, RegionsAreWithin
    <3>. QED
      BY <1>4, <3>2
  <2>. HIDE DEF h, s, under
  <2>4. Framed(h)
    BY <2>2 DEF Within
  <2>5. Within(h, g, which, {})
    BY <2>1, <2>3, <2>4, TapsStay
  <2>6. Besides(f, h) /\ Besides(h, g)
    BY <2>2, <2>5 DEF Within
  <2>7. Besides(f, g)
    BY <2>6 DEF Besides
  <2>8. Resolve(g, region) = s
    BY <2>7, RegionsKeep DEF s
  <2>9. /\ \A k \in 0 .. f.n - 1 : g.leds[k] = f.leds[k] \/ k \in which
        /\ f.overlay => g.touched \subseteq f.touched \cup under \cup {k \in 0 .. f.n - 1 : g.leds[k] # {}}
    <3>. HIDE DEF which
    <3>1. h.n = f.n /\ h.overlay = f.overlay
      BY <2>6 DEF Besides
    <3>. QED
      BY <2>2, <2>5, <3>1 DEF Within
  <2>10. Overlaying(f, g, region, under)
    BY <2>5, <2>7, <2>8, <2>9 DEF Within, Besides, Overlaying
  <2>. QED
    BY <2>10 DEF g, under, s
<1>. QED
  BY <1>2, <1>3, <1>4

-----------------------------------------------------------------------------
(* Emission                                                                *)

LEMMA NearestIs ==
  ASSUME NEW x \in Int, NEW y \in Nat \ {0}
  PROVE  /\ Nearest(x, y) \in Int /\ y * Nearest(x, y) \in Int
         /\ 2 * (y * Nearest(x, y) - x) <= y /\ 2 * (x - y * Nearest(x, y)) <= y
         /\ Nearest(x, -y) = Nearest(-x, y)
<1>. DEFINE r == Round(x, y)  q == Round(-x, y)
<1>1. /\ r \in Int /\ y * r \in Int /\ 2 * (y * r - x) <= y /\ 2 * (x - y * r) < y
      /\ q \in Int /\ y * q \in Int /\ 2 * (y * q + x) <= y /\ 2 * (-x - y * q) < y
  <2>1. -x \in Int
    OBVIOUS
  <2>2. /\ q \in Int /\ y * q \in Int /\ 2 * (y * q - (-x)) <= y /\ 2 * (-x - y * q) < y
    BY <2>1, RoundIs
  <2>3. /\ r \in Int /\ y * r \in Int /\ 2 * (y * r - x) <= y /\ 2 * (x - y * r) < y
    BY RoundIs
  <2>. HIDE DEF r, q
  <2>. DEFINE yq == y * q
  <2>4. yq \in Int /\ 2 * (yq - (-x)) <= y
    BY <2>2
  <2>. HIDE DEF yq
  <2>5. 2 * (yq + x) <= y
    BY <2>4
  <2>. QED
    BY <2>2, <2>3, <2>5 DEF yq
<1>2. Nearest(x, y) = IF x >= 0 THEN r ELSE -q
  BY DEF Nearest
<1>3. Nearest(x, -y) = Nearest(-x, y)
  <2>1. ~(y < 0) /\ -y < 0 /\ -(-y) = y
    OBVIOUS
  <2>. QED
    BY <2>1 DEF Nearest
<1>. HIDE DEF r, q
<1>4. CASE x >= 0
  BY <1>1, <1>2, <1>3, <1>4
<1>5. CASE x < 0
  <2>1. Nearest(x, y) = -q
    BY <1>2, <1>5
  <2>2. y * (-q) = -(y * q)
    BY <1>1
  <2>. DEFINE yq == y * q
  <2>3. /\ yq \in Int /\ 2 * (yq + x) <= y /\ 2 * (-x - yq) < y
    BY <1>1
  <2>. HIDE DEF yq
  <2>4. -yq \in Int /\ 2 * (-yq - x) <= y /\ 2 * (x - (-yq)) <= y
    BY <2>3
  <2>5. y * Nearest(x, y) = -yq
    BY <2>1, <2>2 DEF yq
  <2>. QED
    BY <1>1, <1>3, <2>1, <2>4, <2>5
<1>. QED
  BY <1>4, <1>5

LEMMA LayoutIs ==
  ASSUME NEW l \in Layouts
  PROVE  l.leds = 16 /\ l.step \in {9, -9} /\ \E j \in 0 .. 15 : l.start = 9 * j
BY RingAssumption

\* The LED of a ring that lies m steps on from the hour at which a clockwise ring begins.
LEMMA OffsetAt ==
  ASSUME NEW l \in Layouts, NEW q \in Int, NEW o \in 0 .. 15
  PROVE  /\ Nearest(9 * q - l.start, l.step) % l.leds \in 0 .. 15
         /\ Nearest(9 * q - l.start, l.step) % l.leds = o <=> (9 * q) % 144 = (l.start + o * l.step) % 144
<1>1. PICK j \in 0 .. 15 : l.start = 9 * j
  BY LayoutIs
<1>2. l.leds = 16 /\ l.step \in {9, -9}
  BY LayoutIs
<1>3. \A m \in Int : Nearest(9 * m, 9) = m
  <2>. TAKE m \in Int
  <2>. DEFINE x == 9 * m  r == Nearest(x, 9)
  <2>1. x \in Int
    OBVIOUS
  <2>2. r \in Int /\ 2 * (9 * r - x) <= 9 /\ 2 * (x - 9 * r) <= 9
    BY <2>1, NearestIs
  <2>. HIDE DEF r
  <2>3. r = m
    BY <2>2
  <2>. QED
    BY <2>3 DEF r
<1>4. CASE l.step = 9
  <2>1. 9 * q - l.start = 9 * (q - j) /\ q - j \in Int
    BY <1>1
  <2>2. Nearest(9 * q - l.start, l.step) = q - j
    BY <1>3, <1>4, <2>1
  <2>3. (q - j) % 16 = o <=> q % 16 = (j + o) % 16
    BY <1>1
  <2>4. (9 * q) % 144 = (9 * (j + o)) % 144 <=> q % 16 = (j + o) % 16
    BY <1>1
  <2>5. 9 * (j + o) = l.start + o * l.step
    BY <1>1, <1>4
  <2>6. (q - j) % 16 \in 0 .. 15
    BY <1>1
  <2>. QED
    BY <1>2, <2>2, <2>3, <2>4, <2>5, <2>6
<1>5. CASE l.step = -9
  <2>1. 9 * q - l.start \in Int /\ -(9 * q - l.start) = 9 * (j - q) /\ j - q \in Int
    BY <1>1
  <2>. DEFINE x == 9 * q - l.start
  <2>2. Nearest(x, -9) = Nearest(-x, 9)
    <3>. HIDE DEF x
    <3>1. x \in Int /\ 9 \in Nat \ {0}
      BY <2>1 DEF x
    <3>. QED
      BY <3>1, NearestIs
  <2>3. Nearest(9 * q - l.start, l.step) = j - q
    BY <1>3, <1>5, <2>1, <2>2
  <2>4. (j - q) % 16 = o <=> q % 16 = (j - o) % 16
    BY <1>1
  <2>5. (9 * q) % 144 = (9 * (j - o)) % 144 <=> q % 16 = (j - o) % 16
    BY <1>1
  <2>6. 9 * (j - o) = l.start + o * l.step
    BY <1>1, <1>5
  <2>7. (j - q) % 16 \in 0 .. 15
    BY <1>1
  <2>. QED
    BY <1>2, <2>3, <2>4, <2>5, <2>6, <2>7
<1>. QED
  BY <1>2, <1>4, <1>5

\* The hour of an LED of the ring.
At(l, o) == (l.start + o * l.step) % 144

LEMMA OffsetIs ==
  ASSUME NEW l \in Layouts, NEW k \in 0 .. 13
  PROVE  /\ OffsetOf(l, k) \in 0 .. 15
         /\ \A o \in 0 .. 15 : OffsetOf(l, k) = o <=> (ArcStart + k * ArcStep) % 144 = At(l, o)
<1>. DEFINE q == 10 + k
<1>1. /\ ArcStart + k * ArcStep = 9 * q /\ q \in Int
      /\ OffsetOf(l, k) = Nearest(9 * q - l.start, l.step) % l.leds
  <2>1. l.start \in Int /\ l.step \in Int
    BY LayoutIs
  <2>2. (9 * q) - l.start * 1 = 9 * q - l.start /\ l.step * 1 = l.step /\ ArcStart + k * ArcStep = 9 * q
    BY <2>1 DEF ArcStart, ArcStep
  <2>. QED
    BY <2>2 DEF OffsetOf, RingOffsetForHour
<1>. HIDE DEF q
<1>2. \A o \in 0 .. 15 : /\ OffsetOf(l, k) \in 0 .. 15
                         /\ OffsetOf(l, k) = o <=> (9 * q) % 144 = At(l, o)
  BY <1>1, OffsetAt DEF At
<1>3. 0 \in 0 .. 15
  OBVIOUS
<1>. QED
  BY <1>1, <1>2, <1>3

LEMMA HoursAre ==
  ASSUME NEW l \in Layouts
  PROVE  /\ \A k \in 0 .. 13 : OffsetOf(l, k) \in 0 .. 15
         /\ \A k \in 0 .. 13, o \in 0 .. 15 :
              OffsetOf(l, k) = o <=> (ArcStart + k * ArcStep) % 144 = (l.start + o * l.step) % 144
<1>1. \A k \in 0 .. 13 : OffsetOf(l, k) \in 0 .. 15
  BY OffsetIs
<1>2. \A k \in 0 .. 13, o \in 0 .. 15 : OffsetOf(l, k) = o <=> (ArcStart + k * ArcStep) % 144 = At(l, o)
  BY OffsetIs
<1>. QED
  BY <1>1, <1>2 DEF At

LEMMA HourIs ==
  ASSUME NEW l \in Layouts, NEW k \in 0 .. 13, NEW o \in 0 .. 15, OffsetOf(l, k) = o
  PROVE  (ArcStart + k * ArcStep) % 144 = At(l, o)
BY OffsetIs

LEMMA BottomIs ==
  ASSUME NEW l \in Layouts
  PROVE  /\ RingOffsetForHour(l, Bottom, 1) \in 0 .. 15
         /\ \A o \in 0 .. 15 : RingOffsetForHour(l, Bottom, 1) = o <=> At(l, o) = 72
<1>1. RingOffsetForHour(l, Bottom, 1) = Nearest(9 * 8 - l.start, l.step) % l.leds
  <2>1. l.start \in Int /\ l.step \in Int
    BY LayoutIs
  <2>2. Bottom - l.start * 1 = 9 * 8 - l.start /\ l.step * 1 = l.step
    BY <2>1 DEF Bottom
  <2>. QED
    BY <2>2 DEF RingOffsetForHour
<1>. DEFINE q == 8
<1>2. (9 * q) % 144 = 72 /\ q \in Int /\ RingOffsetForHour(l, Bottom, 1) = Nearest(9 * q - l.start, l.step) % l.leds
  BY <1>1
<1>. HIDE DEF q
<1>3. \A o \in 0 .. 15 : /\ RingOffsetForHour(l, Bottom, 1) \in 0 .. 15
                         /\ RingOffsetForHour(l, Bottom, 1) = o <=> (9 * q) % 144 = At(l, o)
  BY <1>2, OffsetAt DEF At
<1>4. 0 \in 0 .. 15
  OBVIOUS
<1>. QED
  BY <1>2, <1>3, <1>4

\* No two LEDs of an arc share an LED of the ring, and none is the one at the bottom.
LEMMA OffsetsDiffer ==
  ASSUME NEW l \in Layouts
  PROVE  /\ \A k \in 0 .. 13, i \in 0 .. 13 : OffsetOf(l, k) = OffsetOf(l, i) => k = i
         /\ \A k \in 0 .. 13 : OffsetOf(l, k) # RingOffsetForHour(l, Bottom, 1)
<1>1. ASSUME NEW k \in 0 .. 13, NEW i \in 0 .. 13, OffsetOf(l, k) = OffsetOf(l, i) PROVE k = i
  <2>1. (ArcStart + k * ArcStep) % 144 = (ArcStart + i * ArcStep) % 144
    BY <1>1, OffsetIs
  <2>. QED
    BY <2>1 DEF ArcStart, ArcStep
<1>2. ASSUME NEW k \in 0 .. 13, OffsetOf(l, k) = RingOffsetForHour(l, Bottom, 1) PROVE FALSE
  <2>1. (ArcStart + k * ArcStep) % 144 = 72
    BY <1>2, OffsetIs, BottomIs
  <2>. QED
    BY <2>1 DEF ArcStart, ArcStep
<1>. QED
  BY <1>1, <1>2

\* A ring of the panel.
IsRing(r) ==
  /\ r = [layout |-> r.layout, shows |-> r.shows] /\ r.layout \in Layouts /\ DOMAIN r.shows = 0 .. 15

\* What is needed of a frame to emit it.
Emits(f) ==
  /\ f.n \in 0 .. 14 /\ f.overlay \in BOOLEAN /\ f.bottomSet \in BOOLEAN

LEMMA EmittedIs ==
  ASSUME NEW f, Emits(f), NEW r, IsRing(r)
  PROVE  LET s == Emitted(f, r)
             l == r.layout
         IN  /\ IsRing(s) /\ s.layout = l
             /\ \A k \in 0 .. f.n - 1 :
                  s.shows[OffsetOf(l, k)] = IF ~f.overlay \/ k \in f.touched THEN f.leds[k]
                                            ELSE r.shows[OffsetOf(l, k)]
             /\ f.bottomSet => s.shows[RingOffsetForHour(l, Bottom, 1)] = f.bottom
             /\ \A o \in 0 .. 15 :
                  \/ s.shows[o] = r.shows[o]
                  \/ f.bottomSet /\ o = RingOffsetForHour(l, Bottom, 1)
                  \/ \E k \in 0 .. f.n - 1 : /\ o = OffsetOf(l, k) /\ s.shows[o] = f.leds[k]
                                             /\ ~f.overlay \/ k \in f.touched
<1>. DEFINE l == r.layout
            holds == {k \in 0 .. f.n - 1 : ~f.overlay \/ k \in f.touched}
            Here(o) == {k \in holds : OffsetOf(l, k) = o}
            top == RingOffsetForHour(l, Bottom, 1)
            Pick(o) == CHOOSE k \in Here(o) : \A j \in Here(o) : j <= k
            Show(o) == IF f.bottomSet /\ o = top THEN f.bottom
                       ELSE IF Here(o) # {} THEN f.leds[Pick(o)] ELSE r.shows[o]
            shows == [o \in DOMAIN r.shows |-> Show(o)]
            s == Emitted(f, r)
<1>1. s = [r EXCEPT !.shows = shows]
  BY DEF Emitted
<1>. HIDE DEF s, shows
<1>2. s = [layout |-> r.layout, shows |-> shows]
  BY <1>1 DEF IsRing
<1>3. DOMAIN shows = 0 .. 15 /\ \A o \in 0 .. 15 : shows[o] = Show(o)
  <2>1. DOMAIN r.shows = 0 .. 15
    BY DEF IsRing
  <2>. HIDE DEF Show
  <2>. QED
    BY <2>1 DEF shows
<1>4. IsRing(s) /\ s.layout = l /\ s.shows = shows
  <2>. HIDE DEF Show
  <2>1. r.layout \in Layouts
    BY DEF IsRing
  <2>2. s.layout = r.layout /\ s.shows = shows
    BY <1>2
  <2>3. DOMAIN s.shows = 0 .. 15 /\ s.layout \in Layouts
    BY <1>3, <2>1, <2>2
  <2>4. s = [layout |-> s.layout, shows |-> s.shows]
    BY <1>2, <2>2
  <2>. QED
    BY <2>2, <2>3, <2>4 DEF IsRing
<1>5. holds \subseteq 0 .. 13 /\ 0 .. f.n - 1 \subseteq 0 .. 13
  BY DEF Emits
<1>6. l \in Layouts
  BY DEF IsRing
<1>7. /\ \A k \in 0 .. 13, i \in 0 .. 13 : OffsetOf(l, k) = OffsetOf(l, i) => k = i
      /\ \A k \in 0 .. 13 : OffsetOf(l, k) # top
  BY <1>6, OffsetsDiffer
<1>8. \A k \in 0 .. 13 : OffsetOf(l, k) \in 0 .. 15
  BY <1>6, OffsetIs
<1>9. top \in 0 .. 15
  BY <1>6, BottomIs
<1>. HIDE DEF holds, top, l
<1>10. ASSUME NEW k \in holds PROVE Pick(OffsetOf(l, k)) = k /\ Here(OffsetOf(l, k)) # {}
  <2>1. Here(OffsetOf(l, k)) = {k}
    BY <1>5, <1>7, <1>10
  <2>2. k \in 0 .. 13
    BY <1>5, <1>10
  <2>. HIDE DEF Here
  <2>3. Pick(OffsetOf(l, k)) = CHOOSE i \in {k} : \A j \in {k} : j <= i
    BY <2>1
  <2>4. k \in {k} /\ \A j \in {k} : j <= k
    BY <2>2
  <2>5. (CHOOSE i \in {k} : \A j \in {k} : j <= i) \in {k}
    BY <2>4
  <2>. QED
    BY <2>1, <2>3, <2>5
<1>11. ASSUME NEW k \in 0 .. f.n - 1
       PROVE  shows[OffsetOf(l, k)] = IF ~f.overlay \/ k \in f.touched THEN f.leds[k] ELSE r.shows[OffsetOf(l, k)]
  <2>. DEFINE o == OffsetOf(l, k)
  <2>1. o \in 0 .. 15 /\ o # top
    BY <1>5, <1>7, <1>8, <1>11
  <2>2. CASE k \in holds
    <3>1. Pick(o) = k /\ Here(o) # {}
      BY <1>10, <2>2
    <3>. HIDE DEF o, Here, Pick
    <3>2. shows[o] = f.leds[k]
      BY <1>3, <2>1, <3>1
    <3>3. ~f.overlay \/ k \in f.touched
      BY <2>2 DEF holds
    <3>. QED
      BY <3>2, <3>3 DEF o
  <2>3. CASE k \notin holds
    <3>1. Here(o) = {}
      BY <1>5, <1>7, <1>11, <2>3
    <3>. HIDE DEF o, Here, Pick
    <3>2. shows[o] = r.shows[o]
      BY <1>3, <2>1, <3>1
    <3>3. ~(~f.overlay \/ k \in f.touched)
      BY <1>11, <2>3 DEF holds
    <3>. QED
      BY <3>2, <3>3 DEF o
  <2>. QED
    BY <2>2, <2>3
<1>12. ASSUME NEW o \in 0 .. 15, shows[o] # r.shows[o], ~(f.bottomSet /\ o = top)
       PROVE  \E k \in 0 .. f.n - 1 : /\ o = OffsetOf(l, k) /\ shows[o] = f.leds[k]
                                      /\ ~f.overlay \/ k \in f.touched
  <2>1. Here(o) # {}
    <3>. HIDE DEF Here, Pick
    <3>. QED
      BY <1>3, <1>12
  <2>2. PICK k \in holds : OffsetOf(l, k) = o
    BY <2>1
  <2>3. Pick(o) = k
    BY <1>10, <2>2
  <2>. HIDE DEF Here, Pick
  <2>4. shows[o] = f.leds[k]
    BY <1>3, <1>12, <2>1, <2>3
  <2>. QED
    BY <2>2, <2>4 DEF holds
<1>13. f.bottomSet => shows[top] = f.bottom
  BY <1>3, <1>9
<1>. QED
  BY <1>4, <1>11, <1>12, <1>13 DEF s, top, l

-----------------------------------------------------------------------------
(* The ring, step by step                                                  *)

\* The stage has its shape.
Staged(s) ==
  /\ s = [phase |-> s.phase, overlays |-> s.overlays, region |-> s.region, was |-> s.was, drawn |-> s.drawn]
  /\ s.phase \in {"idle", "begun", "based", "over", "shown", "rendered"}

\* A picture is framed until a renderer shows its own; nothing is drawn on it before its base, and
\* of the ring nothing changes before it is shown; what an overlay has touched, it has drawn.
RingHolds ==
  /\ IsRing(lights) /\ Staged(stage)
  /\ stage.phase # "rendered" => Framed(picture)
  /\ stage.phase = "idle" => picture = Begun(0, FALSE)
  /\ stage.phase \in {"idle", "begun"} => Blank(picture) /\ base = NoBase
  /\ stage.phase \in {"idle", "begun", "based", "over"} => \A o \in 0 .. 15 : lights.shows[o] = {"before"}
  /\ stage.phase \in {"idle", "begun", "based", "over"} /\ picture.overlay /\ base.kind \in {"none", "hand"} =>
       picture.touched \subseteq stage.drawn

RingShows ==
  /\ RegionsAreLit /\ SelectedShows /\ OverlayStays /\ ShowsAtItsHour
  /\ ParameterShows /\ SlotIsLegible /\ GestureShows

RingIInv == RingHolds /\ RingShows

LEMMA BegunIs ==
  ASSUME NEW n \in 0 .. 14, NEW overlay \in BOOLEAN
  PROVE  LET f == Begun(n, overlay)
         IN  /\ Framed(f) /\ Blank(f) /\ f.n = n /\ f.overlay = overlay /\ f.touched = {} /\ ~f.bottomSet
             /\ \A k \in 0 .. n - 1 : f.leds[k] = {}
<1>. DEFINE f == Begun(n, overlay)
<1>1. Lesser(n, KMaxLeds) = n
  BY DEF Lesser, KMaxLeds
<1>2. f = [n |-> n, overlay |-> overlay, leds |-> [k \in 0 .. n - 1 |-> {}], touched |-> {},
           active |-> NoSpan, armCw |-> NoSpan, armCcw |-> NoSpan, pastTip |-> NoSpan,
           span |-> <<0, Unit>>, bottom |-> {}, bottomSet |-> FALSE]
  BY <1>1 DEF Begun
<1>. HIDE DEF f
<1>3. Stretch(n, NoSpan)
  BY NoSpanIs
<1>4. Shaped(f)
  BY <1>2 DEF Shaped
<1>5. DOMAIN f.leds = 0 .. f.n - 1 /\ \A k \in 0 .. n - 1 : f.leds[k] = {}
  BY <1>2
<1>6. f.span[1] = 0 /\ f.span[2] = Unit
  BY <1>2
<1>7. Framed(f)
  <2>1. 0 \in 0 .. Unit /\ Unit \in 0 .. Unit
    BY RingConstants
  <2>. QED
    BY <1>2, <1>3, <1>4, <1>5, <1>6, <2>1 DEF Framed
<1>8. Blank(f)
  BY <1>2, <1>5 DEF Blank
<1>. QED
  BY <1>2, <1>5, <1>7, <1>8 DEF f

LEMMA LitIs ==
  ASSUME NEW l \in Layouts
  PROVE  IsRing(Lit(l)) /\ Lit(l).layout = l /\ \A o \in 0 .. 15 : Lit(l).shows[o] = {"before"}
<1>1. l.leds - 1 = 15
  BY LayoutIs
<1>2. Lit(l) = [layout |-> l, shows |-> [o \in 0 .. 15 |-> {"before"}]]
  BY <1>1 DEF Lit
<1>. QED
  BY <1>2 DEF IsRing

LEMMA StageIs ==
  ASSUME NEW ph \in {"idle", "begun", "based", "over", "shown", "rendered"}
  PROVE  Staged(Stage(ph)) /\ Stage(ph).phase = ph /\ Stage(ph).drawn = {}
BY DEF Staged, Stage

LEMMA WithinTheArc ==
  Framed(picture) => (picture.n > 0 => \A region \in Regions : Members(Resolve(picture, region)) \subseteq 0 .. picture.n - 1)
<1>1. ASSUME Framed(picture), picture.n > 0, NEW region \in Regions
      PROVE  Members(Resolve(picture, region)) \subseteq 0 .. picture.n - 1
  BY <1>1, RegionsAreWithin
<1>. QED
  BY <1>1

\* Before a base there is nothing to be shown.
LEMMA NothingShown ==
  Framed(picture) /\ stage.phase \in {"idle", "begun"} => RingShows
<1>1. ASSUME Framed(picture), stage.phase \in {"idle", "begun"} PROVE RingShows
  <2>1. stage.phase \notin {"based", "over", "shown", "rendered"}
    BY <1>1
  <2>2. RegionsAreLit
    BY <1>1, <2>1, WithinTheArc DEF RegionsAreLit
  <2>3. SelectedShows
    BY <2>1 DEF SelectedShows
  <2>4. OverlayStays
    BY <2>1 DEF OverlayStays
  <2>5. ShowsAtItsHour
    BY <2>1 DEF ShowsAtItsHour
  <2>6. ParameterShows /\ SlotIsLegible /\ GestureShows
    BY <2>1 DEF ParameterShows, SlotIsLegible, GestureShows
  <2>. QED
    BY <2>2, <2>3, <2>4, <2>5, <2>6 DEF RingShows
<1>. QED
  BY <1>1

LEMMA RingStarts == RingInit => RingIInv
<1>. SUFFICES ASSUME RingInit PROVE RingIInv
  OBVIOUS
<1>1. picture = Begun(0, FALSE) /\ base = NoBase /\ stage = Stage("idle")
  BY DEF RingInit
<1>2. PICK l \in Layouts : lights = Lit(l)
  BY DEF RingInit
<1>3. Framed(picture) /\ Blank(picture) /\ picture.touched = {}
  <2>1. 0 \in 0 .. 14 /\ FALSE \in BOOLEAN
    OBVIOUS
  <2>. QED
    BY <1>1, <2>1, BegunIs
<1>4. Staged(stage) /\ stage.phase = "idle"
  BY <1>1, StageIs
<1>5. IsRing(lights) /\ \A o \in 0 .. 15 : lights.shows[o] = {"before"}
  BY <1>2, LitIs
<1>6. RingHolds
  BY <1>1, <1>3, <1>4, <1>5 DEF RingHolds
<1>7. RingShows
  BY <1>3, <1>4, NothingShown
<1>. QED
  BY <1>6, <1>7 DEF RingIInv

LEMMA BeginStep ==
  ASSUME RingIInv, NEW n \in Arcs, NEW overlay \in BOOLEAN, Begin(n, overlay)
  PROVE  RingIInv'
<1>1. picture' = Begun(n, overlay) /\ stage' = Stage("begun") /\ lights' = lights /\ base' = base /\ stage.phase = "idle"
  BY DEF Begin
<1>2. n \in 0 .. 14
  BY RingConstants
<1>3. Framed(picture') /\ Blank(picture') /\ picture'.touched = {}
  BY <1>1, <1>2, BegunIs
<1>4. Staged(stage') /\ stage'.phase = "begun"
  BY <1>1, StageIs
<1>5. RingHolds'
  BY <1>1, <1>3, <1>4 DEF RingIInv, RingHolds
<1>6. RingShows'
  <2>1. (Framed(picture) /\ stage.phase \in {"idle", "begun"})'
    BY <1>3, <1>4
  <2>. QED
    BY <2>1, NothingShown, PTL
<1>. QED
  BY <1>5, <1>6 DEF RingIInv

LEMMA SpannedStep ==
  ASSUME RingIInv, NEW a \in Int, NEW b \in Int, Spanned(a, b)
  PROVE  RingIInv'
<1>. DEFINE from == Clamp(a, 0, Unit)
            to == Clamp(b, 0, Unit)
            span == <<from, IF to < from THEN from ELSE to>>
<1>1. picture' = [picture EXCEPT !.span = span] /\ stage' = stage /\ lights' = lights /\ base' = base
      /\ stage.phase = "begun"
  BY DEF Spanned, SetSpan
<1>2. Framed(picture) /\ Blank(picture) /\ Staged(stage)
  BY <1>1 DEF RingIInv, RingHolds
<1>3. span[1] \in 0 .. Unit /\ span[2] \in 0 .. Unit
  BY RingConstants DEF Clamp
<1>. HIDE DEF span
<1>4. picture' = [n |-> picture.n, overlay |-> picture.overlay, leds |-> picture.leds, touched |-> picture.touched,
                  active |-> picture.active, armCw |-> picture.armCw, armCcw |-> picture.armCcw,
                  pastTip |-> picture.pastTip, span |-> span, bottom |-> picture.bottom, bottomSet |-> picture.bottomSet]
  BY <1>1, <1>2 DEF Framed, Shaped
<1>. DEFINE f == picture'
<1>5. f = [n |-> picture.n, overlay |-> picture.overlay, leds |-> picture.leds, touched |-> picture.touched,
           active |-> picture.active, armCw |-> picture.armCw, armCcw |-> picture.armCcw,
           pastTip |-> picture.pastTip, span |-> span, bottom |-> picture.bottom, bottomSet |-> picture.bottomSet]
  BY <1>4
<1>. HIDE DEF f
<1>6. Shaped(f)
  BY <1>5 DEF Shaped
<1>7. Framed(f)
  BY <1>2, <1>3, <1>5, <1>6 DEF Framed
<1>8. Blank(f)
  BY <1>2, <1>5 DEF Blank
<1>9. f.touched = picture.touched /\ f.overlay = picture.overlay
  BY <1>5
<1>10. RingHolds'
  BY <1>1, <1>7, <1>8, <1>9 DEF RingIInv, RingHolds, f
<1>11. Framed(picture)' /\ stage'.phase = "begun"
  BY <1>1, <1>7 DEF f
<1>12. RingShows'
  <2>1. (Framed(picture) /\ stage.phase \in {"idle", "begun"})'
    BY <1>11
  <2>. QED
    BY <2>1, NothingShown, PTL
<1>. QED
  BY <1>10, <1>12 DEF RingIInv

\* A base on a blank picture.
LEMMA BasedHolds ==
  ASSUME RingIInv, stage.phase = "begun", lights' = lights, stage' = Stage("based"),
         Framed(picture'), base'.kind \in {"none", "hand"} => picture'.touched = {}
  PROVE  RingHolds' /\ (RegionsAreLit' /\ SelectedShows' => RingShows')
<1>1. Staged(stage') /\ stage'.phase = "based"
  BY StageIs
<1>2. RingHolds'
  BY <1>1 DEF RingIInv, RingHolds
<1>3. OverlayStays' /\ ShowsAtItsHour' /\ ParameterShows' /\ SlotIsLegible' /\ GestureShows'
  BY <1>1 DEF OverlayStays, ShowsAtItsHour, ParameterShows, SlotIsLegible, GestureShows
<1>. QED
  BY <1>2, <1>3 DEF RingShows

LEMMA DrawFillStep ==
  ASSUME RingIInv, NEW d \in Fills, NEW v \in Values, DrawBase("fill", d, v)
  PROVE  RingIInv'
<1>1. /\ picture' = BaseFill(picture, d, v) /\ stage' = Stage("based") /\ lights' = lights
      /\ base' = [kind |-> "fill", desc |-> d, value |-> v] /\ stage.phase = "begun"
  BY DEF DrawBase
<1>2. Framed(picture) /\ Blank(picture)
  BY <1>1 DEF RingIInv, RingHolds
<1>3. d \in EdgeDescs \cup CenterDescs /\ v \in 0 .. Unit
  BY RingConstants
<1>. DEFINE g == BaseFill(picture, d, v)
<1>4. /\ Framed(g) /\ g.n = picture.n
      /\ g.n > 0 =>
           /\ Members(g.active) = LitOf(g)
           /\ IF d.center
              THEN Members(g.armCw) \cup Members(g.armCcw) = {k \in LitOf(g) : "center" \notin g.leds[k]}
              ELSE Members(g.pastTip) = (0 .. g.n - 1) \ LitOf(g)
  <2>1. g.n = picture.n
    BY <1>2, <1>3, FillIsLit
  <2>2. picture.n > 0 => Members(g.active) = LitOf(g)
    BY <1>2, <1>3, FillIsLit
  <2>3. picture.n > 0 =>
           IF d.center
           THEN Members(g.armCw) \cup Members(g.armCcw) = {k \in LitOf(g) : "center" \notin g.leds[k]}
           ELSE Members(g.pastTip) = (0 .. picture.n - 1) \ LitOf(g)
    BY <1>2, <1>3, FillIsLit
  <2>4. Framed(g)
    BY <1>2, <1>3, FillIsLit
  <2>. HIDE DEF g
  <2>. QED
    BY <2>1, <2>2, <2>3, <2>4
<1>5. picture' = g
  BY <1>1
<1>. HIDE DEF g
<1>6. Framed(picture)'
  BY <1>4, <1>5
<1>7. base'.kind = "fill" /\ base'.desc = d
  BY <1>1
<1>8. RegionsAreLit'
  <2>1. (picture.n > 0 => \A region \in Regions : Members(Resolve(picture, region)) \subseteq 0 .. picture.n - 1)'
    BY <1>6, WithinTheArc, PTL
  <2>2. LitOf(picture') = {k \in 0 .. picture'.n - 1 : picture'.leds[k] \cap {"colour", "neg", "center"} # {}}
    BY DEF LitOf
  <2>. DEFINE lit == LitOf(picture')
  <2>3. picture'.n > 0 =>
          /\ Members(picture'.active) = lit
          /\ IF d.center
             THEN Members(picture'.armCw) \cup Members(picture'.armCcw) = {k \in lit : "center" \notin picture'.leds[k]}
             ELSE Members(picture'.pastTip) = (0 .. picture'.n - 1) \ lit
    BY <1>4, <1>5
  <2>4. lit = {k \in 0 .. picture'.n - 1 : picture'.leds[k] \cap {"colour", "neg", "center"} # {}}
    BY <2>2
  <2>. HIDE DEF lit
  <2>. QED
    BY <1>7, <2>1, <2>3, <2>4 DEF RegionsAreLit
<1>9. SelectedShows'
  BY <1>7 DEF SelectedShows
<1>. QED
  BY <1>1, <1>6, <1>7, <1>8, <1>9, BasedHolds DEF RingIInv

LEMMA DrawSelectorStep ==
  ASSUME RingIInv, NEW d \in Selectors, NEW v \in Values, DrawBase("selector", d, v)
  PROVE  RingIInv'
<1>1. /\ picture' = BaseSelector(picture, d, v) /\ stage' = Stage("based") /\ lights' = lights
      /\ base' = [kind |-> "selector", desc |-> d, value |-> v] /\ stage.phase = "begun"
  BY DEF DrawBase
<1>2. Framed(picture) /\ Blank(picture)
  BY <1>1 DEF RingIInv, RingHolds
<1>3. d \in SelectorDescs /\ v \in 0 .. Unit
  BY RingConstants
<1>. DEFINE g == BaseSelector(picture, d, v)
<1>4. /\ Framed(g) /\ g.n = picture.n
      /\ picture.n > 0 /\ d.zones > 1 => \E z \in Chosen(picture.n, d, v) : SelectorShows(g, d, z)
  BY <1>2, <1>3, BaseSelectorIs
<1>5. picture' = g
  BY <1>1
<1>. HIDE DEF g
<1>6. Framed(picture)' /\ (picture'.n > 0 /\ d.zones > 1 => \E z \in Chosen(picture'.n, d, v) : SelectorShows(picture', d, z))
  BY <1>4, <1>5
<1>7. base'.kind = "selector" /\ base'.desc = d /\ base'.value = v
  BY <1>1
<1>8. RegionsAreLit'
  <2>1. (picture.n > 0 => \A region \in Regions : Members(Resolve(picture, region)) \subseteq 0 .. picture.n - 1)'
    BY <1>6, WithinTheArc, PTL
  <2>. QED
    BY <1>7, <2>1 DEF RegionsAreLit
<1>9. SelectedShows'
  <2>1. ASSUME picture'.n > 0, d.zones > 1
        PROVE  LET selected == {k \in 0 .. picture'.n - 1 : "selected" \in picture'.leds[k]}
               IN  /\ selected \subseteq Members(picture'.active)
                   /\ \E z \in Chosen(picture'.n, d, v) : ZoneShows(picture', d, z, selected)
                   /\ d.geo = "Distributed" =>
                        \A k \in 0 .. picture'.n - 1 :
                          picture'.leds[k] # {} => \E z \in d.available : z < d.zones /\ Nearby(picture'.n, d, z, k)
    <3>1. PICK z \in Chosen(picture'.n, d, v) : SelectorShows(picture', d, z)
      BY <1>6, <2>1
    <3>. QED
      BY <3>1 DEF SelectorShows
  <2>. QED
    BY <1>7, <2>1 DEF SelectedShows
<1>. QED
  BY <1>1, <1>6, <1>7, <1>8, <1>9, BasedHolds DEF RingIInv

LEMMA BaseByHandStep ==
  ASSUME RingIInv, NEW first \in Int, NEW last \in Int, BaseByHand(first, last)
  PROVE  RingIInv'
<1>. DEFINE act == IF first < 0 \/ last < first \/ first >= picture.n THEN NoSpan
                      ELSE Leds(first, Lesser(last, picture.n - 1))
<1>1. /\ picture' = [picture EXCEPT !.active = act] /\ stage' = Stage("based") /\ lights' = lights
      /\ base' = [NoBase EXCEPT !.kind = "hand"] /\ stage.phase = "begun"
  BY DEF BaseByHand, MarkActive
<1>2. Framed(picture) /\ Blank(picture)
  BY <1>1 DEF RingIInv, RingHolds
<1>3. Stretch(picture.n, act)
  <2>1. CASE first < 0 \/ last < first \/ first >= picture.n
    BY <2>1, NoSpanIs
  <2>2. CASE ~(first < 0 \/ last < first \/ first >= picture.n)
    <3>1. picture.n \in Nat
      BY <1>2 DEF Framed
    <3>2. first \in 0 .. picture.n - 1 /\ Lesser(last, picture.n - 1) \in 0 .. picture.n - 1
      BY <2>2, <3>1 DEF Lesser
    <3>3. Stretch(picture.n, Leds(first, Lesser(last, picture.n - 1)))
      BY <3>1, <3>2, LedsAre
    <3>. QED
      BY <2>2, <3>3
  <2>. QED
    BY <2>1, <2>2
<1>. HIDE DEF act
<1>. DEFINE g == picture'
<1>4. g = [n |-> picture.n, overlay |-> picture.overlay, leds |-> picture.leds, touched |-> picture.touched,
           active |-> act, armCw |-> picture.armCw, armCcw |-> picture.armCcw,
           pastTip |-> picture.pastTip, span |-> picture.span, bottom |-> picture.bottom,
           bottomSet |-> picture.bottomSet]
  BY <1>1, <1>2 DEF Framed, Shaped
<1>. HIDE DEF g
<1>5. Framed(g) /\ g.touched = picture.touched
  BY <1>2, <1>3, <1>4, ActiveIs
<1>6. Framed(picture)' /\ picture'.touched = {}
  BY <1>2, <1>5 DEF g, Blank
<1>7. base'.kind = "hand"
  BY <1>1 DEF NoBase
<1>8. RegionsAreLit'
  <2>1. (picture.n > 0 => \A region \in Regions : Members(Resolve(picture, region)) \subseteq 0 .. picture.n - 1)'
    BY <1>6, WithinTheArc, PTL
  <2>. QED
    BY <1>7, <2>1 DEF RegionsAreLit
<1>9. SelectedShows'
  BY <1>7 DEF SelectedShows
<1>. QED
  BY <1>1, <1>6, <1>8, <1>9, BasedHolds DEF RingIInv

LEMMA OverlayStep ==
  ASSUME RingIInv, MayOverlay, NEW where, NEW f, NEW under, OverlayWith(where, f, under),
         Overlaying(picture, f, where, under)
  PROVE  RingIInv'
<1>1. /\ picture' = f /\ lights' = lights /\ base' = base
      /\ stage' = [phase |-> "over", overlays |-> stage.overlays + 1, region |-> where, was |-> picture.leds,
                   drawn |-> stage.drawn \cup under \cup {k \in 0 .. f.n - 1 : f.leds[k] # {}}]
      /\ stage.phase \in {"begun", "based", "over"}
  BY DEF MayOverlay, OverlayWith
<1>2. Framed(picture)
  BY <1>1 DEF RingIInv, RingHolds
<1>3. Staged(stage') /\ stage'.phase = "over" /\ stage'.was = picture.leds /\ stage'.region = where
  BY <1>1 DEF Staged
<1>4. Framed(picture)' /\ picture'.n = picture.n /\ picture'.overlay = picture.overlay
  BY <1>1 DEF Overlaying
<1>5. picture'.overlay /\ base'.kind \in {"none", "hand"} => picture'.touched \subseteq stage'.drawn
  <2>1. stage'.drawn = stage.drawn \cup under \cup {k \in 0 .. f.n - 1 : f.leds[k] # {}}
    BY <1>1
  <2>2. picture.overlay => f.touched \subseteq picture.touched \cup under \cup {k \in 0 .. f.n - 1 : f.leds[k] # {}}
    BY <1>1, <1>4 DEF Overlaying
  <2>3. picture.overlay /\ base.kind \in {"none", "hand"} => picture.touched \subseteq stage.drawn
    BY <1>1 DEF RingIInv, RingHolds
  <2>. QED
    BY <1>1, <1>4, <2>1, <2>2, <2>3
<1>6. RingHolds'
  BY <1>1, <1>3, <1>4, <1>5 DEF RingIInv, RingHolds
<1>7. OverlayStays'
  <2>1. \A k \in 0 .. picture.n - 1 : f.leds[k] = picture.leds[k] \/ k \in Members(Resolve(f, where))
    BY DEF Overlaying
  <2>. QED
    BY <1>1, <1>3, <1>4, <2>1 DEF OverlayStays
<1>8. RegionsAreLit'
  <2>1. (picture.n > 0 => \A region \in Regions : Members(Resolve(picture, region)) \subseteq 0 .. picture.n - 1)'
    <3>1. Framed(picture)'
      BY <1>4
    <3>. QED
      BY <3>1, WithinTheArc, PTL
  <2>. QED
    BY <1>3, <2>1 DEF RegionsAreLit
<1>9. SelectedShows' /\ ShowsAtItsHour' /\ ParameterShows' /\ SlotIsLegible' /\ GestureShows'
  BY <1>3 DEF SelectedShows, ShowsAtItsHour, ParameterShows, SlotIsLegible, GestureShows
<1>. QED
  BY <1>6, <1>7, <1>8, <1>9 DEF RingIInv, RingShows

LEMMA DrawPipStep ==
  ASSUME RingIInv, NEW region \in Regions, NEW d \in PipDescs, NEW p, DrawPip(region, d, p)
  PROVE  RingIInv'
<1>. DEFINE f == Pip(picture, region, d, p)
            under == IF d.background THEN Members(Resolve(picture, region)) ELSE {}
<1>1. MayOverlay /\ OverlayWith(region, f, under)
  BY DEF DrawPip
<1>2. Framed(picture)
  BY <1>1 DEF RingIInv, RingHolds, MayOverlay
<1>3. d.compose \in {"Replace", "Add", "Carve"}
  BY RingConstants
<1>4. Overlaying(picture, f, region, under)
  BY <1>2, <1>3, PipIs
<1>. HIDE DEF f, under
<1>. QED
  BY <1>1, <1>4, OverlayStep

LEMMA DrawFieldStep ==
  ASSUME RingIInv, NEW region \in Regions, NEW d \in Fields, DrawField(region, d)
  PROVE  RingIInv'
<1>. DEFINE f == Field(picture, region, d)
<1>1. MayOverlay /\ OverlayWith(region, f, {})
  BY DEF DrawField
<1>2. Framed(picture)
  BY <1>1 DEF RingIInv, RingHolds, MayOverlay
<1>3. Overlaying(picture, f, region, {})
  BY <1>2, FieldIs
<1>. HIDE DEF f
<1>. QED
  BY <1>1, <1>3, OverlayStep

LEMMA EmitStep ==
  ASSUME RingIInv, Emit
  PROVE  RingIInv'
<1>1. /\ lights' = Emitted(picture, lights) /\ stage' = [stage EXCEPT !.phase = "shown"]
      /\ picture' = picture /\ base' = base /\ stage.phase \in {"begun", "based", "over"}
  BY DEF Emit
<1>2. Framed(picture) /\ IsRing(lights) /\ Staged(stage) /\ \A o \in 0 .. 15 : lights.shows[o] = {"before"}
  BY <1>1 DEF RingIInv, RingHolds
<1>3. Emits(picture)
  BY <1>2 DEF Framed, Emits
<1>. DEFINE s == Emitted(picture, lights)
            l == lights.layout
            f == picture
            top == RingOffsetForHour(l, Bottom, 1)
            Hour(o) == (l.start + o * l.step) % 144
            ArcLeds(o) == {k \in 0 .. f.n - 1 : (ArcStart + k * ArcStep) % 144 = Hour(o)}
<1>4. /\ IsRing(s) /\ s.layout = l
      /\ \A k \in 0 .. f.n - 1 :
           s.shows[OffsetOf(l, k)] = IF ~f.overlay \/ k \in f.touched THEN f.leds[k]
                                     ELSE lights.shows[OffsetOf(l, k)]
      /\ f.bottomSet => s.shows[top] = f.bottom
      /\ \A o \in 0 .. 15 :
           \/ s.shows[o] = lights.shows[o]
           \/ f.bottomSet /\ o = top
           \/ \E k \in 0 .. f.n - 1 : /\ o = OffsetOf(l, k) /\ s.shows[o] = f.leds[k]
                                      /\ ~f.overlay \/ k \in f.touched
  BY <1>2, <1>3, EmittedIs
<1>5. l \in Layouts
  BY <1>2 DEF IsRing
<1>6. top \in 0 .. 15 /\ Hour(top) = 72
  BY <1>5, BottomIs DEF At
<1>7. \A o \in 0 .. 15, k \in 0 .. f.n - 1 : k \in ArcLeds(o) <=> OffsetOf(l, k) = o
  <2>1. f.n \in 0 .. 14
    BY <1>2 DEF Framed
  <2>2. 0 .. f.n - 1 \subseteq 0 .. 13
    BY <2>1
  <2>3. \A k \in 0 .. 13, o \in 0 .. 15 : OffsetOf(l, k) = o <=> (ArcStart + k * ArcStep) % 144 = Hour(o)
    BY <1>5, HoursAre
  <2>. HIDE DEF Hour
  <2>. QED
    BY <2>2, <2>3
<1>8. \A k \in 0 .. f.n - 1 : OffsetOf(l, k) \in 0 .. 15
  <2>1. f.n \in 0 .. 14
    BY <1>2 DEF Framed
  <2>2. 0 .. f.n - 1 \subseteq 0 .. 13
    BY <2>1
  <2>3. \A k \in 0 .. 13 : OffsetOf(l, k) \in 0 .. 15
    BY <1>5, HoursAre
  <2>. QED
    BY <2>2, <2>3
<1>. HIDE DEF s
<1>9. lights' = s /\ stage'.phase = "shown" /\ stage'.drawn = stage.drawn /\ Staged(stage')
  BY <1>1, <1>2 DEF s, Staged
<1>10. RingHolds'
  BY <1>1, <1>2, <1>4, <1>9 DEF RingHolds
<1>11. ShowsAtItsHour'
  <2>1. ASSUME NEW o \in 0 .. 15, NEW k \in ArcLeds(o)
        PROVE  \/ s.shows[o] = f.leds[k]
               \/ f.overlay /\ s.shows[o] = {"before"} /\ f.leds[k] = {}
    <3>1. k \in 0 .. f.n - 1 /\ OffsetOf(l, k) = o
      BY <1>7, <2>1
    <3>2. CASE ~f.overlay \/ k \in f.touched
      BY <1>4, <3>1, <3>2
    <3>3. CASE ~(~f.overlay \/ k \in f.touched)
      <4>1. s.shows[o] = {"before"}
        BY <1>2, <1>4, <3>1, <3>3
      <4>2. f.leds[k] = {}
        BY <1>2, <3>1, <3>3 DEF Framed
      <4>. QED
        BY <3>3, <4>1, <4>2
    <3>. QED
      BY <3>2, <3>3
  <2>2. f.bottomSet => s.shows[top] = {"pip"}
    BY <1>2, <1>4 DEF Framed
  <2>3. ASSUME f.overlay, base.kind \in {"none", "hand"}, NEW o \in 0 .. 15, s.shows[o] = {}
        PROVE  ArcLeds(o) \cap stage.drawn # {}
    <3>1. s.shows[o] # lights.shows[o]
      BY <1>2, <2>3
    <3>2. ~(f.bottomSet /\ o = top)
      BY <2>2, <2>3
    <3>3. PICK k \in 0 .. f.n - 1 : /\ o = OffsetOf(l, k) /\ s.shows[o] = f.leds[k]
                                    /\ ~f.overlay \/ k \in f.touched
      <4>. HIDE DEF top
      <4>. QED
        BY <1>4, <3>1, <3>2
    <3>4. k \in ArcLeds(o)
      BY <1>7, <3>3
    <3>5. k \in stage.drawn
      BY <1>1, <2>3, <3>3 DEF RingIInv, RingHolds
    <3>. QED
      BY <3>4, <3>5
  <2>4. DOMAIN s.shows = 0 .. 15
    BY <1>4 DEF IsRing
  <2>5. s.layout = l
    BY <1>4
  <2>6. \E o \in 0 .. 15 : f.bottomSet => Hour(o) = 72 /\ s.shows[o] = {"pip"}
    <3>. HIDE DEF Hour
    <3>. QED
      BY <1>6, <2>2
  <2>7. /\ \A o \in DOMAIN s.shows : \A k \in ArcLeds(o) :
             \/ s.shows[o] = f.leds[k]
             \/ f.overlay /\ s.shows[o] = {"before"} /\ f.leds[k] = {}
        /\ f.bottomSet => \E o \in DOMAIN s.shows : Hour(o) = Bottom /\ s.shows[o] = {"pip"}
        /\ f.overlay /\ base.kind \in {"none", "hand"} =>
             \A o \in DOMAIN s.shows : s.shows[o] = {} => ArcLeds(o) \cap stage.drawn # {}
    <3>. HIDE DEF Hour, ArcLeds
    <3>. QED
      BY <2>1, <2>3, <2>4, <2>6 DEF Bottom
  <2>. QED
    BY <1>1, <1>9, <2>5, <2>7 DEF ShowsAtItsHour
<1>12. RegionsAreLit'
  <2>1. picture.n > 0 => \A region \in Regions : Members(Resolve(picture, region)) \subseteq 0 .. picture.n - 1
    BY <1>2, WithinTheArc
  <2>. QED
    BY <1>1, <1>9, <2>1 DEF RegionsAreLit
<1>13. SelectedShows' /\ OverlayStays' /\ ParameterShows' /\ SlotIsLegible' /\ GestureShows'
  BY <1>9 DEF SelectedShows, OverlayStays, ParameterShows, SlotIsLegible, GestureShows
<1>. QED
  BY <1>10, <1>11, <1>12, <1>13 DEF RingIInv, RingShows

LEMMA ClearedStep ==
  ASSUME RingIInv, Cleared
  PROVE  RingIInv'
<1>1. picture' = Begun(0, FALSE) /\ base' = NoBase /\ stage' = Stage("idle") /\ lights' = Lit(lights.layout)
  BY DEF Cleared
<1>2. lights.layout \in Layouts
  BY DEF RingIInv, RingHolds, IsRing
<1>3. Framed(picture') /\ Blank(picture') /\ picture'.touched = {}
  <2>1. 0 \in 0 .. 14 /\ FALSE \in BOOLEAN
    OBVIOUS
  <2>. QED
    BY <1>1, <2>1, BegunIs
<1>4. Staged(stage') /\ stage'.phase = "idle"
  BY <1>1, StageIs
<1>5. IsRing(lights') /\ \A o \in 0 .. 15 : lights'.shows[o] = {"before"}
  BY <1>1, <1>2, LitIs
<1>6. RingHolds'
  BY <1>1, <1>3, <1>4, <1>5 DEF RingHolds
<1>7. RingShows'
  <2>1. (Framed(picture) /\ stage.phase \in {"idle", "begun"})'
    BY <1>3, <1>4
  <2>. QED
    BY <2>1, NothingShown, PTL
<1>. QED
  BY <1>6, <1>7 DEF RingIInv

-----------------------------------------------------------------------------
(* What is rendered                                                        *)

\* A frame of a renderer: it holds its whole arc, and has no pip of its own at the bottom.
Rendering(f, n) ==
  /\ Emits(f) /\ f.n = n /\ ~f.overlay /\ ~f.bottomSet
  /\ n > 0 => \A region \in Regions : Members(Resolve(f, region)) \subseteq 0 .. n - 1

Paints == {"colour", "neg", "center", "passive", "selected", "other", "marker"}

LEMMA FramedRenders ==
  ASSUME NEW f, Framed(f), f.overlay = FALSE, f.bottomSet = FALSE
  PROVE  Rendering(f, f.n)
<1>1. Emits(f)
  BY DEF Framed, Emits
<1>2. f.n > 0 => \A region \in Regions : Members(Resolve(f, region)) \subseteq 0 .. f.n - 1
  BY RegionsAreWithin
<1>. QED
  BY <1>1, <1>2 DEF Rendering

LEMMA DrawnIs ==
  ASSUME NEW n \in 0 .. 14, NEW leds
  PROVE  Rendering(Drawn(n, leds), n) /\ Drawn(n, leds).leds = leds
<1>. DEFINE f == Begun(n, FALSE)
            g == Drawn(n, leds)
<1>1. Framed(f) /\ f.n = n /\ f.overlay = FALSE /\ ~f.bottomSet
  <2>1. FALSE \in BOOLEAN
    OBVIOUS
  <2>. QED
    BY <2>1, BegunIs
<1>2. g = [f EXCEPT !.leds = leds]
  BY DEF Drawn
<1>. HIDE DEF f, g
<1>3. g = [n |-> f.n, overlay |-> f.overlay, leds |-> leds, touched |-> f.touched, active |-> f.active,
           armCw |-> f.armCw, armCcw |-> f.armCcw, pastTip |-> f.pastTip, span |-> f.span,
           bottom |-> f.bottom, bottomSet |-> f.bottomSet]
  BY <1>1, <1>2 DEF Framed, Shaped
<1>4. Besides(f, g) /\ g.leds = leds
  BY <1>3 DEF Besides
<1>5. \A region \in Regions : Resolve(g, region) = Resolve(f, region)
  BY <1>4, RegionsKeep
<1>6. n > 0 => \A region \in Regions : Members(Resolve(g, region)) \subseteq 0 .. n - 1
  BY <1>1, <1>5, RegionsAreWithin
<1>7. Emits(g) /\ g.n = n /\ g.overlay = FALSE /\ ~g.bottomSet
  BY <1>1, <1>4 DEF Framed, Besides, Emits
<1>. QED
  BY <1>4, <1>6, <1>7 DEF Rendering, g

LEMMA SlotIs ==
  ASSUME NEW slot \in Slots
  PROVE  /\ slot.style \in {"None", "Level", "Bipolar", "Gradient", "GradientFill", "Selector"}
         /\ slot.pip \in {"None", "Solid", "ThresholdSnap", "GradientSnap"} /\ slot.valueZones \in Nat
         /\ slot.style \in {"Level", "GradientFill"} => slot.desc \in EdgeDescs
         /\ slot.style = "Bipolar" => slot.desc \in CenterDescs
         /\ slot.style = "Selector" => slot.desc \in SelectorDescs
BY RenderAssumption DEF SlotDescs

\* Where a gradient and a clockwise fill end.
EndsAt(n, v) == LitLeds(ArcSnapFrac(v * n, Unit, n))

LEMMA EndIs ==
  ASSUME NEW n \in Nat, NEW v \in 0 .. Unit
  PROVE  /\ EndsAt(n, v) \in 0 .. n /\ Unit * EndsAt(n, v) \in Int
         /\ Unit <= 25 * (v * n - Unit * EndsAt(n, v) + Unit) /\ 25 * (v * n - Unit * EndsAt(n, v)) < Unit
<1>1. v * n \in Nat /\ v * n <= Unit * n
  BY ShareIs
<1>2. Unit \in Nat \ {0}
  BY RingConstants
<1>. DEFINE part == v * n
<1>3. part \in Nat /\ part <= Unit * n
  BY <1>1
<1>. HIDE DEF part
<1>4. LET c == LitLeds(ArcSnapFrac(part, Unit, n))
      IN  /\ c \in 0 .. n /\ Unit * c \in Int
          /\ Unit <= 25 * (part - Unit * c + Unit) /\ 25 * (part - Unit * c) < Unit
  BY <1>2, <1>3, SnapIs
<1>. QED
  BY <1>4 DEF part, EndsAt

LEMMA MorphIs ==
  ASSUME NEW n \in 0 .. 14, NEW snaps, NEW v \in 0 .. Unit
  PROVE  LET f == MorphArc(n, snaps, v)
         IN  /\ Rendering(f, n) /\ \A k \in 0 .. n - 1 : f.leds[k] \subseteq Paints
             /\ {k \in 0 .. n - 1 : "colour" \in f.leds[k]} = 0 .. EndsAt(n, v) - 1
<1>. DEFINE c == EndsAt(n, v)
            Marker(k) == k > ArcSnapFrac(v * n, Unit, n)[1] /\ Marked(n, snaps, k)
            leds == [k \in 0 .. n - 1 |-> IF k < c THEN {"colour"} ELSE IF Marker(k) THEN {"marker"} ELSE {}]
            f == MorphArc(n, snaps, v)
<1>1. f = Drawn(n, leds)
  BY DEF MorphArc, EndsAt
<1>2. c \in 0 .. n
  <2>1. n \in Nat
    OBVIOUS
  <2>. QED
    BY <2>1, EndIs
<1>. HIDE DEF f, c, Marker
<1>3. \A k \in 0 .. n - 1 : leds[k] = IF k < c THEN {"colour"} ELSE IF Marker(k) THEN {"marker"} ELSE {}
  OBVIOUS
<1>. HIDE DEF leds
<1>4. Rendering(f, n) /\ f.leds = leds
  BY <1>1, DrawnIs
<1>5. \A k \in 0 .. n - 1 : leds[k] \subseteq Paints /\ ("colour" \in leds[k] <=> k < c)
  BY <1>3 DEF Paints
<1>6. {k \in 0 .. n - 1 : "colour" \in leds[k]} = 0 .. c - 1
  BY <1>2, <1>5
<1>. QED
  BY <1>4, <1>5, <1>6 DEF f, c

LEMMA RenderedFrameIs ==
  ASSUME NEW n \in 0 .. 14, NEW slot \in Slots, slot.style # "None", NEW v \in 0 .. Unit
  PROVE  LET f == RenderedFrame(n, slot, v)
         IN  /\ Rendering(f, n) /\ \A k \in 0 .. n - 1 : f.leds[k] \subseteq Paints
             /\ n > 0 /\ (slot.style = "Gradient" \/ (slot.style = "Level" /\ ~slot.desc.ccw)) =>
                  {k \in 0 .. n - 1 : "colour" \in f.leds[k]} = 0 .. EndsAt(n, v) - 1
<1>. DEFINE b == Begun(n, FALSE)
            f == RenderedFrame(n, slot, v)
            desc == slot.desc
<1>1. /\ Framed(b) /\ Blank(b) /\ b.n = n /\ b.overlay = FALSE /\ b.bottomSet = FALSE
      /\ \A k \in 0 .. n - 1 : b.leds[k] = {}
  <2>1. FALSE \in BOOLEAN
    OBVIOUS
  <2>2. b.bottomSet = FALSE
    BY DEF Begun
  <2>. QED
    BY <2>1, <2>2, BegunIs
<1>2. f = CASE slot.style = "Gradient" -> MorphArc(n, slot.snaps, v)
            [] slot.style = "Selector" ->
                 IF slot.valueZones # 0
                 THEN BaseZone(b, [desc EXCEPT !.zones = slot.valueZones], SelectorIndex(v, slot.valueZones))
                 ELSE BaseSelector(b, desc, v)
            [] slot.style \in {"Level", "GradientFill", "Bipolar"} -> BaseFill(b, desc, v)
  BY DEF RenderedFrame
<1>. HIDE DEF f, b
<1>3. CASE slot.style = "Gradient"
  <2>. DEFINE snaps == slot.snaps
  <2>1. f = MorphArc(n, snaps, v)
    BY <1>2, <1>3
  <2>. HIDE DEF snaps
  <2>2. /\ Rendering(f, n) /\ \A k \in 0 .. n - 1 : f.leds[k] \subseteq Paints
        /\ {k \in 0 .. n - 1 : "colour" \in f.leds[k]} = 0 .. EndsAt(n, v) - 1
    BY <2>1, MorphIs
  <2>. QED
    BY <2>2 DEF f
<1>4. CASE slot.style = "Selector"
  <2>1. desc \in SelectorDescs
    BY <1>4, SlotIs
  <2>2. /\ Framed(f) /\ f.n = b.n /\ f.overlay = b.overlay /\ f.bottomSet = b.bottomSet
        /\ \A k \in 0 .. b.n - 1 : f.leds[k] \subseteq {"selected", "other"}
    <3>1. CASE slot.valueZones # 0
      <4>. DEFINE d == [desc EXCEPT !.zones = slot.valueZones]
                  z == SelectorIndex(v, slot.valueZones)
      <4>1. f = BaseZone(b, d, z)
        BY <1>2, <1>4, <3>1
      <4>2. slot.valueZones \in Nat
        BY SlotIs
      <4>3. d \in SelectorDescs
        BY <2>1, <4>2 DEF SelectorDescs
      <4>4. z \in Nat
        <5>. DEFINE w == v * slot.valueZones
        <5>1. w \in Nat /\ Unit \in Nat \ {0}
          BY <4>2, RingConstants, ShareIs
        <5>. HIDE DEF w
        <5>2. w \div Unit \in Int /\ w % Unit \in 0 .. Unit - 1 /\ w = Unit * (w \div Unit) + (w % Unit)
          BY <5>1, Quotient
        <5>3. w \div Unit >= 0
          <6>1. w \div Unit < 0 => Unit * (w \div Unit) + Unit <= Unit * 0
            BY <5>1, <5>2, Apart
          <6>. DEFINE u == Unit * (w \div Unit)
          <6>2. u \in Int /\ w = u + (w % Unit) /\ (w \div Unit < 0 => u + Unit <= 0)
            BY <5>1, <5>2, <6>1
          <6>. HIDE DEF u
          <6>. QED
            BY <5>1, <5>2, <6>2
        <5>4. z = IF slot.valueZones <= 1 THEN 0 ELSE Lesser(w \div Unit, slot.valueZones - 1)
          BY DEF SelectorIndex, w
        <5>. QED
          BY <4>2, <5>2, <5>3, <5>4 DEF Lesser
      <4>. HIDE DEF d, z
      <4>. QED
        BY <1>1, <4>1, <4>3, <4>4, BaseZoneIs
    <3>2. CASE slot.valueZones = 0
      <4>1. f = BaseSelector(b, desc, v)
        BY <1>2, <1>4, <3>2
      <4>. HIDE DEF desc
      <4>. QED
        BY <1>1, <2>1, <4>1, BaseSelectorIs
    <3>. QED
      BY <3>1, <3>2
  <2>3. Rendering(f, n)
    BY <1>1, <2>2, FramedRenders
  <2>. QED
    BY <1>1, <1>4, <2>2, <2>3 DEF Paints, f
<1>5. CASE slot.style \in {"Level", "GradientFill", "Bipolar"}
  <2>1. f = BaseFill(b, desc, v)
    BY <1>2, <1>5
  <2>2. desc \in EdgeDescs \cup CenterDescs
    BY <1>5, SlotIs
  <2>. HIDE DEF desc
  <2>3. /\ Framed(f) /\ f.n = b.n /\ f.overlay = b.overlay /\ f.bottomSet = b.bottomSet
        /\ \A k \in 0 .. b.n - 1 : f.leds[k] \subseteq {"colour", "neg", "center", "passive"}
    BY <1>1, <2>1, <2>2, FillIsLit
  <2>4. Rendering(f, n)
    BY <1>1, <2>3, FramedRenders
  <2>5. ASSUME n > 0, slot.style = "Level", ~desc.ccw
        PROVE  {k \in 0 .. n - 1 : "colour" \in f.leds[k]} = 0 .. EndsAt(n, v) - 1
    <3>1. desc \in EdgeDescs
      BY <2>5, SlotIs DEF desc
    <3>2. f = EdgeFill(b, desc, v)
      <4>1. desc.center = FALSE
        BY <3>1 DEF EdgeDescs
      <4>2. b.n # 0
        BY <1>1, <2>5
      <4>. QED
        BY <2>1, <4>1, <4>2 DEF BaseFill
    <3>. DEFINE c == EndsAt(n, v)
                lit == IF desc.ccw THEN n - c .. n - 1 ELSE 0 .. c - 1
    <3>3. /\ c \in 0 .. n
          /\ \A k \in 0 .. n - 1 :
               f.leds[k] = IF k \in lit THEN {"colour"} ELSE IF desc.replace THEN desc.passive ELSE {}
      BY <1>1, <2>5, <3>1, <3>2, EdgeFillIs DEF EndsAt
    <3>4. desc.passive \in SUBSET {"passive"}
      BY <3>1 DEF EdgeDescs
    <3>. HIDE DEF c
    <3>5. lit = 0 .. c - 1
      BY <2>5
    <3>6. \A k \in 0 .. n - 1 : "colour" \in f.leds[k] <=> k \in lit
      <4>. HIDE DEF lit
      <4>. QED
        BY <3>3, <3>4
    <3>. HIDE DEF lit
    <3>7. {k \in 0 .. n - 1 : "colour" \in f.leds[k]} = 0 .. c - 1
      BY <3>3, <3>5, <3>6
    <3>. QED
      BY <3>7 DEF c
  <2>6. \A k \in 0 .. n - 1 : f.leds[k] \subseteq Paints
    BY <1>1, <2>3 DEF Paints
  <2>. QED
    BY <1>5, <2>4, <2>5, <2>6 DEF f, desc
<1>. QED
  BY <1>3, <1>4, <1>5, SlotIs

LEMMA NearestNine ==
  ASSUME NEW m \in Int
  PROVE  Nearest(9 * m, 9) = m /\ Nearest(9 * m, -9) = -m
<1>1. \A i \in Int : Nearest(9 * i, 9) = i
  <2>. TAKE i \in Int
  <2>. DEFINE x == 9 * i  r == Nearest(x, 9)
  <2>1. x \in Int
    OBVIOUS
  <2>2. r \in Int /\ 2 * (9 * r - x) <= 9 /\ 2 * (x - 9 * r) <= 9
    BY <2>1, NearestIs
  <2>. HIDE DEF r
  <2>3. r = i
    BY <2>2
  <2>. QED
    BY <2>3 DEF r
<1>2. Nearest(9 * m, -9) = Nearest(-(9 * m), 9)
  <2>. DEFINE x == 9 * m
  <2>1. x \in Int
    OBVIOUS
  <2>. HIDE DEF x
  <2>2. Nearest(x, -9) = Nearest(-x, 9)
    BY <2>1, NearestIs
  <2>. QED
    BY <2>2 DEF x
<1>3. -(9 * m) = 9 * (-m) /\ -m \in Int
  OBVIOUS
<1>. QED
  BY <1>1, <1>2, <1>3

\* The mark of a pot that is to be caught lies on the LED of the arc nearest to what is stored.
LEMMA CatchIs ==
  ASSUME NEW l \in Layouts, NEW n \in 1 .. 14, NEW v \in 0 .. Unit
  PROVE  \E c \in 0 .. n - 1 : /\ CatchOffset(l, n, v) = OffsetOf(l, c) /\ Unit * c \in Int
                               /\ 2 * (Unit * c - v * (n - 1)) <= Unit /\ 2 * (v * (n - 1) - Unit * c) <= Unit
<1>. DEFINE w == v * (n - 1)
            num == ArcStart * Unit + w * ArcStep
<1>1. Unit \in Nat \ {0}
  BY RingConstants
<1>2. w \in Nat /\ w <= Unit * (n - 1) /\ Unit * (n - 1) \in Nat
  <2>1. n - 1 \in Nat
    OBVIOUS
  <2>. DEFINE m == n - 1
  <2>2. v * m \in Nat /\ v * m <= Unit * m
    <3>. HIDE DEF m
    <3>. QED
      BY <2>1, ShareIs DEF m
  <2>. QED
    BY <1>1, <2>1, <2>2
<1>3. PICK j \in 0 .. 15 : l.start = 9 * j
  BY LayoutIs
<1>4. l.leds = 16 /\ l.step \in {9, -9}
  BY LayoutIs
<1>5. CatchOffset(l, n, v) = Nearest(num - l.start * Unit, l.step * Unit) % 16
  BY <1>4 DEF CatchOffset, RingOffsetForHour
<1>. DEFINE y == 9 * Unit
            a == 10 - j
            x == num - l.start * Unit
<1>6. x = 9 * (Unit * a + w) /\ x \in Int /\ y \in Nat \ {0} /\ l.step * Unit \in {y, -y}
      /\ (l.step = 9 => l.step * Unit = y) /\ (l.step = -9 => l.step * Unit = -y)
  BY <1>1, <1>2, <1>3, <1>4 DEF ArcStart, ArcStep
<1>. HIDE DEF w
<1>7. \A c \in Int : OffsetOf(l, c) = IF l.step = 9 THEN (a - -c) % 16 ELSE (-(a - -c)) % 16
  <2>. TAKE c \in Int
  <2>. DEFINE m == a - -c
  <2>1. m \in Int
    BY <1>3
  <2>2. ArcStart + c * ArcStep - (l.start * 1) = 9 * m /\ l.step * 1 = l.step
    BY <1>3, <1>4 DEF ArcStart, ArcStep
  <2>3. (ArcStart + c * ArcStep) - (l.start * 1) = 9 * m
    BY <2>2, <1>3 DEF ArcStart, ArcStep
  <2>4. OffsetOf(l, c) = Nearest(9 * m, l.step) % 16
    BY <1>4, <2>2, <2>3 DEF OffsetOf, RingOffsetForHour
  <2>. HIDE DEF m
  <2>5. Nearest(9 * m, 9) = m /\ Nearest(9 * m, -9) = -m
    BY <2>1, NearestNine
  <2>6. OffsetOf(l, c) = IF l.step = 9 THEN m % 16 ELSE (-m) % 16
    BY <1>4, <2>4, <2>5
  <2>. QED
    BY <2>6 DEF m
<1>. DEFINE q == Nearest(IF l.step = 9 THEN x ELSE -x, y)
            c == IF l.step = 9 THEN q - a ELSE -q - a
<1>8. CatchOffset(l, n, v) = q % 16
  <2>1. Nearest(x, -y) = Nearest(-x, y)
    <3>. HIDE DEF x, y
    <3>. QED
      BY <1>6, NearestIs
  <2>. HIDE DEF y
  <2>. QED
    BY <1>4, <1>5, <1>6, <2>1 DEF x
<1>9. /\ q \in Int /\ y * q \in Int
      /\ 2 * (y * q - (IF l.step = 9 THEN x ELSE -x)) <= y /\ 2 * ((IF l.step = 9 THEN x ELSE -x) - y * q) <= y
  <2>. DEFINE s == IF l.step = 9 THEN x ELSE -x
  <2>1. s \in Int
    BY <1>6
  <2>. HIDE DEF s, y
  <2>2. /\ Nearest(s, y) \in Int /\ y * Nearest(s, y) \in Int
        /\ 2 * (y * Nearest(s, y) - s) <= y /\ 2 * (s - y * Nearest(s, y)) <= y
    BY <1>6, <2>1, NearestIs
  <2>. QED
    BY <2>2 DEF s
<1>10. a \in Int /\ Unit * a \in Int
  BY <1>1, <1>3
<1>. HIDE DEF q
<1>11. c \in Int /\ (l.step = 9 => q = a - -c) /\ (l.step = -9 => q = -(a - -c))
  BY <1>3, <1>4, <1>9, <1>10
<1>12. CatchOffset(l, n, v) = OffsetOf(l, c)
  <2>. HIDE DEF c, a
  <2>. QED
    BY <1>4, <1>7, <1>8, <1>11
<1>13. Unit * c \in Int /\ 2 * (Unit * c - w) <= Unit /\ 2 * (w - Unit * c) <= Unit
  <2>. DEFINE uq == Unit * q  ua == Unit * a
  <2>1. uq \in Int /\ ua \in Int
    BY <1>1, <1>9, <1>10
  <2>2. y * q = 9 * uq
    BY <1>1, <1>9
  <2>3. Unit * c = IF l.step = 9 THEN uq - ua ELSE -uq - ua
    BY <1>1, <1>4, <1>9, <1>10
  <2>4. x = 9 * (ua + w)
    BY <1>6
  <2>. HIDE DEF uq, ua, c, x, a
  <2>5. CASE l.step = 9
    <3>1. 2 * (9 * uq - x) <= y /\ 2 * (x - 9 * uq) <= y /\ Unit * c = uq - ua
      BY <1>9, <2>2, <2>3, <2>5
    <3>. QED
      BY <1>1, <1>2, <2>1, <2>4, <3>1
  <2>6. CASE l.step = -9
    <3>1. 2 * (9 * uq - -x) <= y /\ 2 * (-x - 9 * uq) <= y /\ Unit * c = -uq - ua
      BY <1>9, <2>2, <2>3, <2>6
    <3>. QED
      BY <1>1, <1>2, <2>1, <2>4, <3>1
  <2>. QED
    BY <1>4, <2>5, <2>6
<1>14. c \in 0 .. n - 1
  <2>. DEFINE m == n - 1
  <2>1. m \in Nat /\ w <= Unit * m
    BY <1>2
  <2>. HIDE DEF c, m
  <2>2. c \in 0 .. m
    BY <1>1, <1>2, <1>11, <1>13, <2>1, NearIsBetween
  <2>. QED
    BY <2>2 DEF m
<1>. HIDE DEF c
<1>. QED
  BY <1>12, <1>13, <1>14 DEF w

\* The mark lies where the fill ends.
LEMMA MarkIsAtTheEnd ==
  ASSUME NEW n \in 1 .. 14, NEW v \in 0 .. Unit, NEW c \in 0 .. n - 1, Unit * c \in Int,
         2 * (Unit * c - v * (n - 1)) <= Unit, 2 * (v * (n - 1) - Unit * c) <= Unit
  PROVE  EndsAt(n, v) - 1 \in c - 1 .. c + 1
<1>. DEFINE e == EndsAt(n, v)
            vn == v * n
            ue == Unit * e
            uc == Unit * c
<1>1. e \in 0 .. n /\ ue \in Int /\ Unit <= 25 * (vn - ue + Unit) /\ 25 * (vn - ue) < Unit
  <2>1. n \in Nat
    OBVIOUS
  <2>. QED
    BY <2>1, EndIs
<1>2. Unit \in Nat \ {0} /\ v * (n - 1) = vn - v /\ vn \in Int
  BY RingConstants
<1>3. c < e + 1 /\ e < c + 3
  <2>1. ASSUME e + 1 <= c PROVE FALSE
    <3>1. ue + Unit <= uc
      <4>1. e < c
        BY <1>1, <2>1
      <4>. HIDE DEF e
      <4>2. Unit * e + Unit <= Unit * c
        BY <1>1, <1>2, <4>1, Apart
      <4>. QED
        BY <4>2
    <3>. HIDE DEF e, ue, uc, vn
    <3>2. 2 * (uc - (vn - v)) <= Unit /\ uc \in Int
      BY <1>2 DEF uc
    <3>. QED
      BY <1>1, <1>2, <3>1, <3>2
  <2>2. ASSUME c + 3 <= e PROVE FALSE
    <3>1. uc + 3 * Unit <= ue
      <4>1. \A i \in Int, k \in Int : i < k => Unit * i \in Int /\ Unit * k \in Int /\ Unit * i + Unit <= Unit * k
        BY <1>2, Apart
      <4>2. c < c + 1 /\ c + 1 < c + 2 /\ c + 2 <= e - 1 /\ e - 1 < e /\ c + 1 \in Int /\ c + 2 \in Int /\ e \in Int
        BY <1>1, <2>2
      <4>. HIDE DEF e
      <4>. DEFINE c1 == c + 1  c2 == c + 2
      <4>3. c < c1 /\ c1 < c2 /\ c2 < e /\ c1 \in Int /\ c2 \in Int /\ c \in Int
        BY <4>2
      <4>. HIDE DEF c1, c2
      <4>4. Unit * c + Unit <= Unit * c1 /\ Unit * c1 + Unit <= Unit * c2 /\ Unit * c2 + Unit <= Unit * e
            /\ Unit * c1 \in Int /\ Unit * c2 \in Int /\ Unit * c \in Int /\ Unit * e \in Int
        BY <4>1, <4>2, <4>3
      <4>. DEFINE u1 == Unit * c1  u2 == Unit * c2
      <4>5. uc + Unit <= u1 /\ u1 + Unit <= u2 /\ u2 + Unit <= ue /\ u1 \in Int /\ u2 \in Int /\ uc \in Int /\ ue \in Int
        BY <4>4
      <4>. HIDE DEF u1, u2, uc, ue
      <4>. QED
        BY <1>2, <4>5
    <3>. HIDE DEF e, ue, uc, vn
    <3>2. 2 * ((vn - v) - uc) <= Unit /\ uc \in Int
      BY <1>2 DEF uc
    <3>. QED
      BY <1>1, <1>2, <3>1, <3>2
  <2>. HIDE DEF e
  <2>. QED
    BY <1>1, <2>1, <2>2
<1>. HIDE DEF e
<1>4. e - 1 \in c - 1 .. c + 1
  BY <1>1, <1>3
<1>. QED
  BY <1>4 DEF e

LEMMA ShownIs ==
  ASSUME NEW r, IsRing(r), NEW o \in 0 .. 15, NEW seen
  PROVE  LET s == Shown(r, o, seen)
         IN  /\ IsRing(s) /\ s.layout = r.layout /\ s.shows[o] = seen
             /\ \A p \in 0 .. 15 : p # o => s.shows[p] = r.shows[p]
<1>. DEFINE shows == [r.shows EXCEPT ![o] = seen]
            s == Shown(r, o, seen)
<1>1. DOMAIN r.shows = 0 .. 15
  BY DEF IsRing
<1>2. s = [r EXCEPT !.shows = shows]
  BY <1>1 DEF Shown
<1>3. DOMAIN shows = 0 .. 15 /\ shows[o] = seen /\ \A p \in 0 .. 15 : p # o => shows[p] = r.shows[p]
  BY <1>1
<1>. HIDE DEF s, shows
<1>4. s = [layout |-> r.layout, shows |-> shows]
  BY <1>2 DEF IsRing
<1>5. IsRing(s) /\ s.layout = r.layout /\ s.shows = shows
  BY <1>3, <1>4 DEF IsRing
<1>. QED
  BY <1>3, <1>5 DEF s

LEMMA AnyOffsetIs ==
  ASSUME NEW l \in Layouts, NEW stored \in 0 .. Unit, NEW n \in 1 .. 14
  PROVE  CatchOffset(l, n, stored) \in 0 .. 15
<1>1. PICK c \in 0 .. n - 1 : CatchOffset(l, n, stored) = OffsetOf(l, c)
  BY CatchIs
<1>2. c \in 0 .. 13
  OBVIOUS
<1>. QED
  BY <1>1, <1>2, OffsetIs

\* A ring on which nothing had been shown, with a parameter on it: its arc as the frame has it, a pip
\* only at the bottom, and over it all, perhaps, the mark of a pot that is to be caught.
Told(r, s, f, l, draws) ==
  LET top == RingOffsetForHour(l, Bottom, 1)
  IN  /\ IsRing(s) /\ s.layout = l
      /\ draws => \A k \in 0 .. f.n - 1 : s.shows[OffsetOf(l, k)] = f.leds[k]
      /\ \A o \in 0 .. 15 : o # top => s.shows[o] \cap {"pip", "over"} = {}
      /\ \A o \in 0 .. 15 : "catch" \notin s.shows[o]

LEMMA ArcIsTold ==
  ASSUME NEW r, IsRing(r), \A o \in 0 .. 15 : r.shows[o] = {"before"}, NEW n \in 0 .. 14, NEW f,
         NEW draws \in BOOLEAN, draws => Rendering(f, n) /\ \A k \in 0 .. n - 1 : f.leds[k] \subseteq Paints
  PROVE  Told(r, IF draws THEN Emitted(f, r) ELSE r, f, r.layout, draws)
<1>. DEFINE l == r.layout
            s == IF draws THEN Emitted(f, r) ELSE r
<1>1. CASE ~draws
  <2>1. s = r
    BY <1>1
  <2>. HIDE DEF s
  <2>2. \A o \in 0 .. 15 : s.shows[o] \cap {"pip", "over"} = {} /\ "catch" \notin s.shows[o]
    BY <2>1
  <2>3. Told(r, s, f, l, draws)
    BY <1>1, <2>1, <2>2 DEF Told
  <2>. QED
    BY <2>3 DEF s
<1>2. CASE draws
  <2>. DEFINE e == Emitted(f, r)
  <2>1. Emits(f) /\ f.n = n /\ ~f.overlay /\ ~f.bottomSet
    BY <1>2 DEF Rendering
  <2>2. /\ IsRing(e) /\ e.layout = l
        /\ \A k \in 0 .. f.n - 1 :
             e.shows[OffsetOf(l, k)] = IF ~f.overlay \/ k \in f.touched THEN f.leds[k] ELSE r.shows[OffsetOf(l, k)]
        /\ \A o \in 0 .. 15 :
             \/ e.shows[o] = r.shows[o]
             \/ f.bottomSet /\ o = RingOffsetForHour(l, Bottom, 1)
             \/ \E k \in 0 .. f.n - 1 : /\ o = OffsetOf(l, k) /\ e.shows[o] = f.leds[k]
                                        /\ ~f.overlay \/ k \in f.touched
    BY <2>1, EmittedIs
  <2>. HIDE DEF e
  <2>3. \A o \in 0 .. 15 : e.shows[o] = {"before"} \/ e.shows[o] \subseteq Paints
    BY <1>2, <2>1, <2>2
  <2>4. \A o \in 0 .. 15 : e.shows[o] \cap {"pip", "over"} = {} /\ "catch" \notin e.shows[o]
    BY <2>3 DEF Paints
  <2>5. Told(r, e, f, l, draws)
    BY <2>1, <2>2, <2>4 DEF Told
  <2>6. s = e
    BY <1>2 DEF e
  <2>. QED
    BY <2>5, <2>6 DEF s
<1>. QED
  BY <1>1, <1>2

LEMMA PipIsTold ==
  ASSUME NEW r, NEW s, NEW f, f.n \in 0 .. 14, NEW l \in Layouts, NEW draws \in BOOLEAN, Told(r, s, f, l, draws),
         NEW slot \in Slots, NEW v, NEW caught
  PROVE  Told(r, BottomPip(s, slot, v, caught), f, l, draws)
<1>. DEFINE top == RingOffsetForHour(l, Bottom, 1)
            g == BottomPip(s, slot, v, caught)
<1>1. top \in 0 .. 15
  BY BottomIs
<1>2. IsRing(s) /\ s.layout = l
  BY DEF Told
<1>3. slot.pip \in {"None", "Solid", "ThresholdSnap", "GradientSnap"}
  BY SlotIs
<1>4. g = s \/ g = Shown(s, top, {"pip"}) \/ g = Shown(s, top, {"over"})
  BY <1>2, <1>3 DEF BottomPip
<1>. HIDE DEF g
<1>5. ASSUME NEW seen, seen \in {{"pip"}, {"over"}}, g = Shown(s, top, seen) PROVE Told(r, g, f, l, draws)
  <2>1. /\ IsRing(g) /\ g.layout = l /\ g.shows[top] = seen
        /\ \A p \in 0 .. 15 : p # top => g.shows[p] = s.shows[p]
    <3>. HIDE DEF top
    <3>. QED
      BY <1>1, <1>2, <1>5, ShownIs
  <2>2. draws => \A k \in 0 .. f.n - 1 : g.shows[OffsetOf(l, k)] = f.leds[k]
    <3>1. ASSUME NEW k \in 0 .. f.n - 1 PROVE OffsetOf(l, k) \in 0 .. 15 /\ OffsetOf(l, k) # top
      <4>1. k \in 0 .. 13
        OBVIOUS
      <4>. QED
        BY <4>1, OffsetIs, OffsetsDiffer
    <3>. HIDE DEF top
    <3>. QED
      BY <2>1, <3>1 DEF Told
  <2>3. \A o \in 0 .. 15 : o # top => g.shows[o] \cap {"pip", "over"} = {}
    BY <2>1 DEF Told
  <2>4. \A o \in 0 .. 15 : "catch" \notin g.shows[o]
    <3>1. "catch" \notin seen
      BY <1>5
    <3>2. \A o \in 0 .. 15 : "catch" \notin s.shows[o]
      BY DEF Told
    <3>. HIDE DEF top
    <3>. QED
      BY <2>1, <3>1, <3>2
  <2>. QED
    BY <2>1, <2>2, <2>3, <2>4 DEF Told
<1>6. CASE g = s
  BY <1>6 DEF g
<1>7. CASE g = Shown(s, top, {"pip"})
  BY <1>5, <1>7 DEF g
<1>8. CASE g = Shown(s, top, {"over"})
  BY <1>5, <1>8 DEF g
<1>. QED
  BY <1>4, <1>6, <1>7, <1>8

LEMMA OneAtMost ==
  ASSUME NEW S, NEW x, S \subseteq {x}
  PROVE  Cardinality(S) <= 1
<1>1. S = {} \/ S = {x}
  OBVIOUS
<1>2. Cardinality({}) = 0 /\ Cardinality({x}) = 1
  BY FS_EmptySet, FS_Singleton
<1>. QED
  BY <1>1, <1>2

LEMMA CountTo ==
  ASSUME NEW c \in Nat
  PROVE  Cardinality(0 .. c - 1) = c /\ IsFiniteSet(0 .. c - 1)
<1>1. 0 \in Int /\ c - 1 \in Int
  OBVIOUS
<1>2. IsFiniteSet(0 .. c - 1) /\ Cardinality(0 .. c - 1) = IF 0 > c - 1 THEN 0 ELSE c - 1 - 0 + 1
  BY <1>1, FS_Interval
<1>3. (c - 1) - 0 + 1 = c
  OBVIOUS
<1>. QED
  BY <1>2, <1>3

\* A renderer starts on a ring on which nothing has been shown, and shows it at once.
LEMMA ShowingIs ==
  ASSUME RingIInv, NEW r, NEW kind \in {"parameter", "gesture", "preset"}, NEW desc, NEW v,
         Showing(r, kind, desc, v), IsRing(r),
         picture'.n > 0 => \A region \in Regions : Members(Resolve(picture', region)) \subseteq 0 .. picture'.n - 1
  PROVE  /\ RingHolds' /\ RegionsAreLit' /\ SelectedShows' /\ OverlayStays' /\ ShowsAtItsHour'
         /\ base'.kind = kind /\ base'.desc = desc /\ base'.value = v /\ lights' = r /\ stage'.phase = "rendered"
         /\ kind # "parameter" => ParameterShows'
         /\ kind # "gesture" => GestureShows'
         /\ kind # "preset" => SlotIsLegible'
<1>1. stage' = Stage("rendered") /\ lights' = r /\ base' = [kind |-> kind, desc |-> desc, value |-> v]
  BY DEF Showing
<1>2. Staged(stage') /\ stage'.phase = "rendered"
  BY <1>1, StageIs
<1>3. base'.kind = kind /\ base'.desc = desc /\ base'.value = v
  BY <1>1
<1>4. RingHolds'
  BY <1>1, <1>2 DEF RingHolds
<1>5. RegionsAreLit' /\ SelectedShows' /\ OverlayStays' /\ ShowsAtItsHour'
  BY <1>2 DEF RegionsAreLit, SelectedShows, OverlayStays, ShowsAtItsHour
<1>6. /\ kind # "parameter" => ParameterShows'
      /\ kind # "gesture" => GestureShows'
      /\ kind # "preset" => SlotIsLegible'
  BY <1>3 DEF ParameterShows, GestureShows, SlotIsLegible
<1>. QED
  BY <1>1, <1>2, <1>3, <1>4, <1>5, <1>6

LEMMA IdleIs ==
  ASSUME RingIInv, stage.phase = "idle"
  PROVE  /\ IsRing(lights) /\ \A o \in 0 .. 15 : lights.shows[o] = {"before"}
         /\ Framed(picture) /\ picture.n = 0 /\ picture = Begun(0, FALSE)
<1>1. 0 \in 0 .. 14 /\ FALSE \in BOOLEAN
  OBVIOUS
<1>2. picture = Begun(0, FALSE)
  BY DEF RingIInv, RingHolds
<1>3. Framed(picture) /\ picture.n = 0
  BY <1>1, <1>2, BegunIs
<1>. QED
  BY <1>2, <1>3 DEF RingIInv, RingHolds

LEMMA RenderStep ==
  ASSUME RingIInv, NEW n \in Arcs, NEW slot \in Slots, NEW v \in Values, NEW caught \in BOOLEAN,
         Render(n, slot, v, caught)
  PROVE  RingIInv'
<1>. DEFINE l == lights.layout
            top == RingOffsetForHour(l, Bottom, 1)
            draws == DrawsArc(slot)
            f == RenderedFrame(n, slot, v)
            r == Rendered(lights, n, slot, v, caught)
<1>1. /\ Showing(r, "parameter", slot, v) /\ stage.phase = "idle"
      /\ picture' = IF slot.style = "None" \/ ~draws THEN picture ELSE f
  BY DEF Render, Showing
<1>2. /\ IsRing(lights) /\ \A o \in 0 .. 15 : lights.shows[o] = {"before"}
      /\ Framed(picture) /\ picture.n = 0
  BY <1>1, IdleIs
<1>3. n \in 0 .. 14 /\ v \in 0 .. Unit /\ l \in Layouts
  BY <1>2, RingConstants DEF IsRing
<1>4. CASE slot.style = "None"
  <2>1. r = lights /\ picture' = picture
    BY <1>1, <1>4 DEF Rendered
  <2>2. picture'.n > 0 => \A region \in Regions : Members(Resolve(picture', region)) \subseteq 0 .. picture'.n - 1
    BY <1>2, <2>1
  <2>. HIDE DEF r
  <2>3. /\ RingHolds' /\ RegionsAreLit' /\ SelectedShows' /\ OverlayStays' /\ ShowsAtItsHour'
        /\ base'.desc = slot /\ GestureShows' /\ SlotIsLegible'
    BY <1>1, <1>2, <2>1, <2>2, ShowingIs
  <2>4. ParameterShows'
    BY <1>4, <2>3 DEF ParameterShows
  <2>. QED
    BY <2>3, <2>4 DEF RingIInv, RingShows
<1>5. CASE slot.style # "None"
  <2>. DEFINE p == picture'
              s1 == IF draws THEN Emitted(p, lights) ELSE lights
              s2 == BottomPip(s1, slot, v, caught)
              co == CatchOffset(l, n, v)
  <2>1. draws \in BOOLEAN
    BY DEF DrawsArc
  <2>2. p = IF draws THEN f ELSE picture
    BY <1>1, <1>5
  <2>3. r = DrawCatchPip(s2, n, caught, v)
    BY <1>5, <2>2 DEF Rendered
  <2>4. /\ Rendering(f, n) /\ \A k \in 0 .. n - 1 : f.leds[k] \subseteq Paints
        /\ n > 0 /\ (slot.style = "Gradient" \/ (slot.style = "Level" /\ ~slot.desc.ccw)) =>
             {k \in 0 .. n - 1 : "colour" \in f.leds[k]} = 0 .. EndsAt(n, v) - 1
    BY <1>3, <1>5, RenderedFrameIs
  <2>. HIDE DEF draws, f, p, r
  <2>5. draws => Rendering(p, n) /\ \A k \in 0 .. n - 1 : p.leds[k] \subseteq Paints
    BY <2>2, <2>4
  <2>6. Told(lights, s1, p, l, draws)
    BY <1>2, <1>3, <2>1, <2>5, ArcIsTold
  <2>7. p.n \in 0 .. 14 /\ (p.n > 0 => draws /\ p.n = n /\ p = f)
    BY <1>2, <1>3, <2>2, <2>4 DEF Rendering
  <2>. HIDE DEF s1
  <2>8. Told(lights, s2, p, l, draws)
    BY <1>3, <2>1, <2>6, <2>7, PipIsTold
  <2>. HIDE DEF s2
  <2>9. IsRing(s2) /\ s2.layout = l
    BY <2>8 DEF Told
  <2>10. r = IF caught \/ n = 0 THEN s2 ELSE Shown(s2, co, {"catch"})
    BY <2>3, <2>9 DEF DrawCatchPip
  <2>11. n > 0 => co \in 0 .. 15
    <3>1. ASSUME n > 0 PROVE co \in 0 .. 15
      <4>1. n \in 1 .. 14
        BY <1>3, <3>1
      <4>. QED
        BY <1>3, <4>1, AnyOffsetIs
    <3>. QED
      BY <3>1
  <2>. HIDE DEF co
  \* Under the mark, if there is one, what was there.
  <2>12. /\ IsRing(r) /\ r.layout = l
         /\ \A o \in 0 .. 15 : r.shows[o] = s2.shows[o] \/ (n > 0 /\ o = co /\ r.shows[o] = {"catch"})
    <3>1. CASE caught \/ n = 0
      BY <2>9, <2>10, <3>1
    <3>2. CASE ~(caught \/ n = 0)
      <4>1. r = Shown(s2, co, {"catch"}) /\ n > 0
        BY <1>3, <2>10, <3>2
      <4>. DEFINE seen == {"catch"}
      <4>2. r = Shown(s2, co, seen) /\ co \in 0 .. 15
        BY <2>11, <4>1
      <4>. HIDE DEF seen
      <4>3. /\ IsRing(r) /\ r.layout = s2.layout /\ r.shows[co] = seen
            /\ \A o \in 0 .. 15 : o # co => r.shows[o] = s2.shows[o]
        BY <2>9, <4>2, ShownIs
      <4>. QED
        BY <2>9, <4>1, <4>3 DEF seen
    <3>. QED
      BY <3>1, <3>2
  <2>13. p.n > 0 => \A region \in Regions : Members(Resolve(p, region)) \subseteq 0 .. p.n - 1
    BY <2>4, <2>7 DEF Rendering
  <2>14. /\ RingHolds' /\ RegionsAreLit' /\ SelectedShows' /\ OverlayStays' /\ ShowsAtItsHour'
         /\ base'.desc = slot /\ base'.value = v /\ lights' = r /\ GestureShows' /\ SlotIsLegible'
    BY <1>1, <2>12, <2>13, ShowingIs DEF p, r
  <2>. DEFINE Hour(o) == (l.start + o * l.step) % 144
              LedsAt(o) == {k \in 0 .. p.n - 1 : (ArcStart + k * ArcStep) % 144 = Hour(o)}
              caughtAt == {o \in 0 .. 15 : "catch" \in r.shows[o]}
              lit == {k \in 0 .. p.n - 1 : "colour" \in p.leds[k]}
  <2>15. \A o \in 0 .. 15 : \A k \in LedsAt(o) : k \in 0 .. p.n - 1 /\ OffsetOf(l, k) = o
    <3>1. ASSUME NEW o \in 0 .. 15, NEW k \in 0 .. p.n - 1, (ArcStart + k * ArcStep) % 144 = Hour(o)
          PROVE  OffsetOf(l, k) = o
      <4>1. k \in 0 .. 13
        BY <2>7
      <4>2. OffsetOf(l, k) = o <=> (ArcStart + k * ArcStep) % 144 = Hour(o)
        BY <1>3, <4>1, HoursAre
      <4>. HIDE DEF Hour
      <4>. QED
        BY <3>1, <4>2
    <3>. QED
      BY <3>1
  <2>16. Cardinality(caughtAt) <= 1
    <3>1. caughtAt \subseteq {co}
      BY <2>8, <2>12 DEF Told
    <3>. HIDE DEF caughtAt
    <3>. QED
      BY <3>1, OneAtMost
  <2>17. ASSUME NEW o \in 0 .. 15, o \notin caughtAt, NEW k \in LedsAt(o) PROVE r.shows[o] = p.leds[k]
    <3>1. k \in 0 .. p.n - 1 /\ OffsetOf(l, k) = o
      BY <2>15, <2>17
    <3>2. p.n > 0
      BY <2>7, <3>1
    <3>3. s2.shows[o] = p.leds[k]
      BY <2>7, <2>8, <3>1, <3>2 DEF Told
    <3>4. r.shows[o] = s2.shows[o]
      BY <2>12, <2>17
    <3>. QED
      BY <3>3, <3>4
  <2>18. ASSUME NEW o \in 0 .. 15, r.shows[o] \cap {"pip", "over"} # {} PROVE Hour(o) = Bottom
    <3>1. r.shows[o] = s2.shows[o]
      BY <2>12, <2>18
    <3>2. o = top
      BY <2>8, <2>18, <3>1 DEF Told
    <3>3. Hour(o) = 72
      BY <1>3, <3>2, BottomIs DEF At
    <3>. QED
      BY <3>3 DEF Bottom
  <2>19. ASSUME slot.style = "Gradient" \/ (slot.style = "Level" /\ ~slot.desc.ccw), NEW o \in caughtAt, p.n > 0
         PROVE  \E k \in LedsAt(o) : Cardinality(lit) - 1 \in k - 1 .. k + 1
    <3>1. n \in 1 .. 14 /\ p.n = n /\ p = f
      BY <1>3, <2>7, <2>19
    <3>2. o \in 0 .. 15 /\ o = co
      BY <2>8, <2>12, <2>19 DEF Told
    <3>3. PICK c \in 0 .. n - 1 : /\ CatchOffset(l, n, v) = OffsetOf(l, c) /\ Unit * c \in Int
                                  /\ 2 * (Unit * c - v * (n - 1)) <= Unit /\ 2 * (v * (n - 1) - Unit * c) <= Unit
      BY <1>3, <3>1, CatchIs
    <3>4. EndsAt(n, v) - 1 \in c - 1 .. c + 1
      <4>1. /\ c \in 0 .. n - 1 /\ Unit * c \in Int
            /\ 2 * (Unit * c - v * (n - 1)) <= Unit /\ 2 * (v * (n - 1) - Unit * c) <= Unit
        BY <3>3
      <4>. QED
        BY <1>3, <3>1, <4>1, MarkIsAtTheEnd
    <3>5. lit = 0 .. EndsAt(n, v) - 1
      BY <2>4, <2>19, <3>1
    <3>6. EndsAt(n, v) \in Nat
      <4>1. n \in Nat
        BY <3>1
      <4>2. EndsAt(n, v) \in 0 .. n
        BY <1>3, <4>1, EndIs
      <4>. QED
        BY <4>1, <4>2
    <3>. HIDE DEF lit
    <3>7. Cardinality(lit) = EndsAt(n, v)
      BY <3>5, <3>6, CountTo
    <3>8. c \in LedsAt(o)
      <4>1. c \in 0 .. 13 /\ OffsetOf(l, c) = o
        BY <3>1, <3>2, <3>3 DEF co
      <4>2. (ArcStart + c * ArcStep) % 144 = At(l, o)
        BY <1>3, <3>2, <4>1, HourIs
      <4>3. (ArcStart + c * ArcStep) % 144 = Hour(o)
        BY <4>2 DEF At
      <4>. QED
        BY <3>1, <3>3, <4>3
    <3>. HIDE DEF LedsAt
    <3>. QED
      BY <3>4, <3>7, <3>8
  <2>20. ParameterShows'
    <3>1. DOMAIN r.shows = 0 .. 15 /\ r.layout = l
      BY <2>12 DEF IsRing
    <3>2. /\ Cardinality({o \in DOMAIN r.shows : "catch" \in r.shows[o]}) <= 1
          /\ \A o \in DOMAIN r.shows \ {o \in DOMAIN r.shows : "catch" \in r.shows[o]} :
               \A k \in LedsAt(o) : r.shows[o] = p.leds[k]
          /\ \A o \in {o \in DOMAIN r.shows : "pip" \in r.shows[o]} \cup {o \in DOMAIN r.shows : "over" \in r.shows[o]} :
               Hour(o) = Bottom
          /\ slot.style = "Gradient" \/ (slot.style = "Level" /\ ~slot.desc.ccw) =>
               \A o \in {o \in DOMAIN r.shows : "catch" \in r.shows[o]} :
                 p.n > 0 => \E k \in LedsAt(o) : Cardinality(lit) - 1 \in k - 1 .. k + 1
      <4>. HIDE DEF LedsAt, Hour, lit
      <4>. QED
        BY <2>16, <2>17, <2>18, <2>19, <3>1
    <3>. HIDE DEF l
    <3>. QED
      BY <2>14, <3>1, <3>2 DEF ParameterShows, Seen, LedsOf, HourOf, p
  <2>. QED
    BY <2>14, <2>20 DEF RingIInv, RingShows
<1>. QED
  BY <1>4, <1>5

LEMMA SameCount ==
  ASSUME NEW S, IsFiniteSet(S), NEW T, NEW f, f \in [S -> T],
         \A x \in S, y \in S : f[x] = f[y] => x = y, \A y \in T : \E x \in S : f[x] = y
  PROVE  Cardinality(T) = Cardinality(S) /\ IsFiniteSet(T)
<1>1. f \in Bijection(S, T)
  BY DEF Bijection, Injection, Surjection, IsInjective
<1>2. ExistsBijection(S, T)
  BY <1>1 DEF ExistsBijection
<1>. QED
  BY <1>2, FS_Bijection

\* As many LEDs of the ring as there are of the arc.
LEMMA OffsetsCount ==
  ASSUME NEW l \in Layouts, NEW S \in SUBSET (0 .. 13), NEW T \in SUBSET (0 .. 15),
         \A o \in 0 .. 15 : o \in T <=> \E k \in S : o = OffsetOf(l, k)
  PROVE  Cardinality(T) = Cardinality(S)
<1>. DEFINE f == [k \in S |-> OffsetOf(l, k)]
<1>1. \A k \in S : OffsetOf(l, k) \in 0 .. 15
  BY OffsetIs
<1>2. f \in [S -> T]
  BY <1>1
<1>3. \A x \in S, y \in S : f[x] = f[y] => x = y
  BY OffsetsDiffer
<1>4. \A y \in T : \E x \in S : f[x] = y
  OBVIOUS
<1>5. IsFiniteSet(S)
  <2>0. 0 \in Int /\ 13 \in Int
    OBVIOUS
  <2>1. IsFiniteSet(0 .. 13)
    BY <2>0, FS_Interval
  <2>. QED
    BY <2>1, FS_Subset
<1>. HIDE DEF f
<1>. QED
  BY <1>2, <1>3, <1>4, <1>5, SameCount

\* A ring with LEDs of an arc over what it showed.
Lays(r, s, n, leds) ==
  /\ IsRing(s) /\ s.layout = r.layout
  /\ \A k \in 0 .. n - 1 : s.shows[OffsetOf(r.layout, k)] = leds[k]
  /\ \A o \in 0 .. 15 : \/ s.shows[o] = r.shows[o]
                        \/ \E k \in 0 .. n - 1 : o = OffsetOf(r.layout, k) /\ s.shows[o] = leds[k]

LEMMA DrawnShows ==
  ASSUME NEW r, IsRing(r), NEW n \in 0 .. 14, NEW leds
  PROVE  Lays(r, Emitted(Drawn(n, leds), r), n, leds)
<1>. DEFINE f == Drawn(n, leds)
            s == Emitted(f, r)
            l == r.layout
<1>1. Rendering(f, n) /\ f.leds = leds
  BY DrawnIs
<1>. HIDE DEF f
<1>2. Emits(f) /\ f.n = n /\ ~f.overlay /\ ~f.bottomSet
  BY <1>1 DEF Rendering
<1>3. /\ IsRing(s) /\ s.layout = l
      /\ \A k \in 0 .. f.n - 1 :
           s.shows[OffsetOf(l, k)] = IF ~f.overlay \/ k \in f.touched THEN f.leds[k] ELSE r.shows[OffsetOf(l, k)]
      /\ \A o \in 0 .. 15 :
           \/ s.shows[o] = r.shows[o]
           \/ f.bottomSet /\ o = RingOffsetForHour(l, Bottom, 1)
           \/ \E k \in 0 .. f.n - 1 : /\ o = OffsetOf(l, k) /\ s.shows[o] = f.leds[k]
                                      /\ ~f.overlay \/ k \in f.touched
  BY <1>2, EmittedIs
<1>. HIDE DEF s
<1>4. Lays(r, s, n, leds)
  BY <1>1, <1>2, <1>3 DEF Lays
<1>. QED
  BY <1>4 DEF s, f

\* The first LEDs of the pairs.
Firsts(arcs) == {3 * i + 1 : i \in 0 .. arcs - 1}

LEMMA FirstsCount ==
  ASSUME NEW arcs \in 1 .. 4
  PROVE  Firsts(arcs) \subseteq 0 .. 13 /\ Cardinality(Firsts(arcs)) = arcs
<1>. DEFINE S == 0 .. arcs - 1
            f == [i \in S |-> 3 * i + 1]
<1>1. f \in [S -> Firsts(arcs)]
  BY DEF Firsts
<1>2. \A x \in S, y \in S : f[x] = f[y] => x = y
  OBVIOUS
<1>3. \A y \in Firsts(arcs) : \E x \in S : f[x] = y
  BY DEF Firsts
<1>4. IsFiniteSet(S) /\ Cardinality(S) = arcs
  BY CountTo
<1>5. Firsts(arcs) \subseteq 0 .. 13
  BY DEF Firsts
<1>. HIDE DEF f, S
<1>6. Cardinality(Firsts(arcs)) = Cardinality(S)
  BY <1>1, <1>2, <1>3, <1>4, SameCount
<1>. QED
  BY <1>4, <1>5, <1>6

LEMMA IndicateStep ==
  ASSUME RingIInv, NEW n \in Arcs, NEW slot \in 0 .. 15, Indicate(n, slot)
  PROVE  RingIInv'
<1>. DEFINE l == lights.layout
            arcs == 1 + (slot % 4)
            mine == 1 + slot \div 4
            colour == SlotColors[1 + ((slot \div 4) % 4)]
            leds == [k \in 0 .. n - 1 |-> IF SlotStepInArc(k, arcs) THEN {colour} ELSE {}]
            r == DrawSlotIndicator(lights, n, slot)
            desc == [slot |-> slot]
<1>1. Showing(r, "preset", desc, 0) /\ stage.phase = "idle" /\ picture' = Begun(n, FALSE)
  BY DEF Indicate, Showing
<1>2. IsRing(lights) /\ \A o \in 0 .. 15 : lights.shows[o] = {"before"}
  BY <1>1, IdleIs
<1>3. n \in 0 .. 14 /\ l \in Layouts
  BY <1>2, RingConstants DEF IsRing
<1>4. Framed(picture') /\ picture'.n = n
  <2>1. FALSE \in BOOLEAN
    OBVIOUS
  <2>. QED
    BY <1>1, <1>3, <2>1, BegunIs
<1>5. r = Emitted(Drawn(n, leds), lights)
  BY DEF DrawSlotIndicator
<1>6. \A k \in 0 .. n - 1 : leds[k] = IF SlotStepInArc(k, arcs) THEN {colour} ELSE {}
  OBVIOUS
<1>. HIDE DEF leds, r
<1>7. /\ IsRing(r) /\ r.layout = l
      /\ \A k \in 0 .. n - 1 : r.shows[OffsetOf(l, k)] = leds[k]
      /\ \A o \in 0 .. 15 : \/ r.shows[o] = lights.shows[o]
                            \/ \E k \in 0 .. n - 1 : o = OffsetOf(l, k) /\ r.shows[o] = leds[k]
  <2>. DEFINE s == Emitted(Drawn(n, leds), lights)
  <2>1. Lays(lights, s, n, leds)
    BY <1>2, <1>3, DrawnShows
  <2>. HIDE DEF s
  <2>2. r = s
    BY <1>5 DEF s
  <2>. QED
    BY <2>1, <2>2 DEF Lays
<1>8. picture'.n > 0 => \A region \in Regions : Members(Resolve(picture', region)) \subseteq 0 .. picture'.n - 1
  BY <1>4, RegionsAreWithin
<1>. HIDE DEF desc
<1>9. /\ RingHolds' /\ RegionsAreLit' /\ SelectedShows' /\ OverlayStays' /\ ShowsAtItsHour'
      /\ base'.desc = desc /\ lights' = r /\ ParameterShows' /\ GestureShows'
  BY <1>1, <1>7, <1>8, ShowingIs
<1>10. arcs \in 1 .. 4 /\ mine \in 1 .. 4 /\ (slot \div 4) % 4 = slot \div 4
  OBVIOUS
<1>11. colour = SlotColors[mine] /\ \A i \in 1 .. 4 : SlotColors[i] = colour <=> i = mine
  BY <1>10 DEF SlotColors
<1>12. \A i \in 1 .. 4 : SlotColors[i] # "before"
  BY DEF SlotColors
<1>. DEFINE Hour(o) == (l.start + o * l.step) % 144
            Group(i) == {o \in DOMAIN r.shows : SlotColors[i] \in r.shows[o]}
            Starts(S) == {o \in S : ~\E p \in S : (Hour(p) + ArcStep) % 144 = Hour(o)}
            steps == {k \in 0 .. 12 : SlotStepInArc(k, arcs)}
<1>. HIDE DEF colour, mine, arcs
<1>13. ASSUME n = 13
       PROVE  \A i \in 1 .. 4 : Cardinality(Starts(Group(i))) = IF i = mine THEN arcs ELSE 0
  <2>1. DOMAIN r.shows = 0 .. 15
    BY <1>7 DEF IsRing
  <2>2. ASSUME NEW i \in 1 .. 4, i # mine PROVE Group(i) = {}
    <3>1. ASSUME NEW o \in 0 .. 15, SlotColors[i] \in r.shows[o] PROVE FALSE
      <4>1. r.shows[o] # {"before"}
        BY <1>12, <3>1
      <4>2. PICK k \in 0 .. n - 1 : r.shows[o] = leds[k]
        BY <1>2, <1>7, <4>1
      <4>. QED
        BY <1>6, <1>11, <2>2, <3>1, <4>2
    <3>. QED
      BY <2>1, <3>1
  <2>3. \A o \in 0 .. 15 : o \in Group(mine) <=> \E k \in steps : o = OffsetOf(l, k)
    <3>1. ASSUME NEW o \in 0 .. 15, colour \in r.shows[o] PROVE \E k \in steps : o = OffsetOf(l, k)
      <4>1. r.shows[o] # {"before"}
        BY <1>10, <1>11, <1>12, <3>1
      <4>2. PICK k \in 0 .. n - 1 : o = OffsetOf(l, k) /\ r.shows[o] = leds[k]
        BY <1>2, <1>7, <4>1
      <4>3. SlotStepInArc(k, arcs) /\ k \in 0 .. 12
        BY <1>6, <1>13, <3>1, <4>2
      <4>. QED
        BY <4>2, <4>3
    <3>2. ASSUME NEW k \in steps PROVE colour \in r.shows[OffsetOf(l, k)]
      <4>1. k \in 0 .. n - 1 /\ SlotStepInArc(k, arcs)
        BY <1>13, <3>2
      <4>. QED
        BY <1>6, <1>7, <4>1
    <3>. HIDE DEF steps
    <3>. QED
      BY <1>11, <2>1, <3>1, <3>2
  <2>4. \A k \in 0 .. 12 : k \in Firsts(arcs) <=> k \in steps /\ ~\E j \in steps : k = j + 1
    BY <1>10 DEF SlotStepInArc, Firsts, arcs
  <2>5. \A k \in steps : OffsetOf(l, k) \in 0 .. 15 /\ Hour(OffsetOf(l, k)) = (ArcStart + k * ArcStep) % 144
    <3>1. ASSUME NEW k \in 0 .. 12
          PROVE  OffsetOf(l, k) \in 0 .. 15 /\ Hour(OffsetOf(l, k)) = (ArcStart + k * ArcStep) % 144
      <4>1. k \in 0 .. 13
        OBVIOUS
      <4>. QED
        BY <1>3, <4>1, OffsetIs DEF At
    <3>. HIDE DEF Hour
    <3>. QED
      BY <3>1
  <2>6. \A k \in 0 .. 12, j \in 0 .. 12 :
          (((ArcStart + j * ArcStep) % 144) + ArcStep) % 144 = (ArcStart + k * ArcStep) % 144 <=> k = j + 1
    BY DEF ArcStart, ArcStep
  <2>7. steps \subseteq 0 .. 12
    OBVIOUS
  <2>. HIDE DEF steps
  <2>8. \A k \in steps, j \in steps : (Hour(OffsetOf(l, j)) + ArcStep) % 144 = Hour(OffsetOf(l, k)) <=> k = j + 1
    <3>. HIDE DEF Hour
    <3>. QED
      BY <2>5, <2>6, <2>7
  <2>9. Group(mine) \subseteq 0 .. 15
    BY <2>1
  <2>. HIDE DEF Hour, Group
  <2>10. \A o \in 0 .. 15 : o \in Starts(Group(mine)) <=> \E k \in Firsts(arcs) : o = OffsetOf(l, k)
    <3>1. ASSUME NEW o \in Starts(Group(mine)) PROVE \E k \in Firsts(arcs) : o = OffsetOf(l, k)
      <4>1. o \in Group(mine) /\ ~\E p \in Group(mine) : (Hour(p) + ArcStep) % 144 = Hour(o)
        BY <3>1
      <4>2. PICK k \in steps : o = OffsetOf(l, k)
        BY <2>3, <2>9, <4>1
      <4>3. ~\E j \in steps : k = j + 1
        <5>1. ASSUME NEW j \in steps, k = j + 1 PROVE FALSE
          <6>1. OffsetOf(l, j) \in Group(mine)
            BY <2>3, <2>5, <5>1
          <6>. QED
            BY <2>8, <4>1, <4>2, <5>1, <6>1
        <5>. QED
          BY <5>1
      <4>. QED
        BY <2>4, <2>7, <4>2, <4>3
    <3>2. ASSUME NEW k \in Firsts(arcs) PROVE OffsetOf(l, k) \in Starts(Group(mine))
      <4>1. k \in 0 .. 12
        BY <1>10, <3>2 DEF Firsts
      <4>2. k \in steps /\ ~\E j \in steps : k = j + 1
        BY <2>4, <3>2, <4>1
      <4>3. OffsetOf(l, k) \in Group(mine)
        BY <2>3, <2>5, <4>2
      <4>4. ASSUME NEW p \in Group(mine), (Hour(p) + ArcStep) % 144 = Hour(OffsetOf(l, k)) PROVE FALSE
        <5>1. PICK j \in steps : p = OffsetOf(l, j)
          BY <2>3, <2>9, <4>4
        <5>. QED
          BY <2>8, <4>2, <4>4, <5>1
      <4>. QED
        BY <4>3, <4>4
    <3>. HIDE DEF Starts
    <3>. QED
      BY <3>1, <3>2
  <2>11. Cardinality(Starts(Group(mine))) = arcs
    <3>1. Starts(Group(mine)) \in SUBSET (0 .. 15)
      BY <2>9
    <3>2. Firsts(arcs) \in SUBSET (0 .. 13) /\ Cardinality(Firsts(arcs)) = arcs
      BY <1>10, FirstsCount
    <3>. DEFINE T == Starts(Group(mine))  S == Firsts(arcs)
    <3>3. T \in SUBSET (0 .. 15) /\ S \in SUBSET (0 .. 13) /\ \A o \in 0 .. 15 : o \in T <=> \E k \in S : o = OffsetOf(l, k)
      BY <2>10, <3>1, <3>2
    <3>. HIDE DEF T, S
    <3>4. Cardinality(T) = Cardinality(S)
      BY <1>3, <3>3, OffsetsCount
    <3>. QED
      BY <3>2, <3>4 DEF T, S
  <2>12. ASSUME NEW i \in 1 .. 4, i # mine PROVE Cardinality(Starts(Group(i))) = 0
    <3>1. Starts(Group(i)) = {}
      BY <2>2, <2>12
    <3>. HIDE DEF Starts
    <3>. QED
      BY <3>1, FS_EmptySet
  <2>. HIDE DEF Starts
  <2>. QED
    BY <2>11, <2>12
<1>14. SlotIsLegible'
  <2>1. base'.desc.slot = slot
    BY <1>9 DEF desc
  <2>2. r.layout = l /\ DOMAIN r.shows = 0 .. 15
    BY <1>7 DEF IsRing
  <2>3. \A i \in 1 .. 4 : Seen(SlotColors[i])' = Group(i)
    BY <1>9 DEF Seen
  <2>4. \A o \in 0 .. 15 : HourOf(o)' = Hour(o)
    BY <1>9, <2>2 DEF HourOf
  <2>5. \A i \in 1 .. 4 : Group(i) \subseteq 0 .. 15
    BY <2>2
  <2>. HIDE DEF Hour, Group
  <2>6. ASSUME NEW i \in 1 .. 4
        PROVE  {o \in Seen(SlotColors[i])' : ~\E p \in Seen(SlotColors[i])' : (HourOf(p)' + ArcStep) % 144 = HourOf(o)'}
                 = Starts(Group(i))
    BY <2>3, <2>4, <2>5
  <2>. HIDE DEF Starts
  <2>7. ASSUME picture'.n = 13, NEW i \in 1 .. 4
        PROVE  Cardinality({o \in Seen(SlotColors[i])' :
                              ~\E p \in Seen(SlotColors[i])' : (HourOf(p)' + ArcStep) % 144 = HourOf(o)'})
                 = IF i = 1 + slot \div 4 THEN 1 + (slot % 4) ELSE 0
    BY <1>4, <1>13, <2>6, <2>7 DEF arcs, mine
  <2>. QED
    BY <2>1, <2>7 DEF SlotIsLegible
<1>. QED
  BY <1>9, <1>14 DEF RingIInv, RingShows

LEMMA ClearIs ==
  ASSUME NEW r, IsRing(r)
  PROVE  /\ IsRing(ClearRing(r)) /\ ClearRing(r).layout = r.layout
         /\ \A o \in 0 .. 15 : ClearRing(r).shows[o] = {}
<1>. DEFINE s == ClearRing(r)
            shows == [o \in DOMAIN r.shows |-> {}]
<1>1. s = [r EXCEPT !.shows = shows]
  BY DEF ClearRing
<1>2. DOMAIN shows = 0 .. 15 /\ \A o \in 0 .. 15 : shows[o] = {}
  BY DEF IsRing
<1>. HIDE DEF s, shows
<1>3. s = [layout |-> r.layout, shows |-> shows]
  BY <1>1 DEF IsRing
<1>4. IsRing(s) /\ s.layout = r.layout /\ s.shows = shows
  BY <1>2, <1>3 DEF IsRing
<1>. QED
  BY <1>2, <1>4 DEF s

LEMMA FlashIs ==
  ASSUME NEW r, IsRing(r), NEW seen
  PROVE  IsRing([r EXCEPT !.shows = [o \in DOMAIN r.shows |-> seen]])
<1>. DEFINE shows == [o \in DOMAIN r.shows |-> seen]
            s == [r EXCEPT !.shows = shows]
<1>1. DOMAIN shows = 0 .. 15
  BY DEF IsRing
<1>2. s = [r EXCEPT !.shows = shows]
  OBVIOUS
<1>. HIDE DEF s, shows
<1>3. s = [layout |-> r.layout, shows |-> shows]
  BY <1>2 DEF IsRing
<1>4. IsRing(s)
  BY <1>1, <1>3 DEF IsRing
<1>. QED
  BY <1>4 DEF s, shows

LEMMA ProximityIs ==
  ASSUME NEW n \in 0 .. 14, NEW v \in 0 .. Unit
  PROVE  Emits(Proximity(n, v))
<1>. DEFINE b == Begun(n, FALSE)
            d == [center |-> TRUE, pivot |-> Unit \div 2, neg |-> "colour", replace |-> TRUE]
            f == BaseFill(b, d, v)
<1>1. /\ Framed(b) /\ Blank(b)
  <2>1. FALSE \in BOOLEAN
    OBVIOUS
  <2>. QED
    BY <2>1, BegunIs
<1>2. d \in CenterDescs
  <2>1. Unit \div 2 \in 0 .. Unit
    BY RingConstants
  <2>. QED
    BY <2>1 DEF CenterDescs
<1>. HIDE DEF b, d
<1>3. Framed(f)
  BY <1>1, <1>2, FillIsLit
<1>4. Proximity(n, v) = f
  BY DEF Proximity, b, d
<1>. HIDE DEF f
<1>5. Emits(f)
  BY <1>3 DEF Framed, Emits
<1>. QED
  BY <1>4, <1>5

LEMMA GestureStep ==
  ASSUME RingIInv, NEW n \in Arcs, NEW v \in Values, NEW halves \in 0 .. 3,
         NEW ph \in {"Idle", "Saving", "Loading", "FlashConfirm", "Disarmed"}, Gesture(n, ph, v, halves)
  PROVE  RingIInv'
<1>. DEFINE l == lights.layout
            dark == ClearRing(lights)
            fill == Round(v * n, Unit)
            mine(k) == IF ph = "Saving" THEN k < fill ELSE k >= n - fill
            leds == [k \in 0 .. n - 1 |-> IF mine(k) THEN {"colour"} ELSE {}]
            r == DrawActionGesture(lights, n, ph, v, halves)
            desc == [phase |-> ph]
<1>1. Showing(r, "gesture", desc, v) /\ stage.phase = "idle" /\ picture' = Begun(n, FALSE)
  BY DEF Gesture, Showing
<1>2. IsRing(lights)
  BY <1>1, IdleIs
<1>3. n \in 0 .. 14 /\ v \in 0 .. Unit /\ l \in Layouts
  BY <1>2, RingConstants DEF IsRing
<1>4. Framed(picture') /\ picture'.n = n
  <2>1. FALSE \in BOOLEAN
    OBVIOUS
  <2>. QED
    BY <1>1, <1>3, <2>1, BegunIs
<1>5. IsRing(dark) /\ dark.layout = l /\ \A o \in 0 .. 15 : dark.shows[o] = {}
  BY <1>2, ClearIs
<1>6. ph \in {"Saving", "Loading"} => r = Emitted(Drawn(n, leds), dark)
  BY DEF DrawActionGesture, Progress
<1>7. \A k \in 0 .. n - 1 : leds[k] = IF mine(k) THEN {"colour"} ELSE {}
  OBVIOUS
<1>. HIDE DEF leds, dark
<1>8. ph \in {"Saving", "Loading"} => Lays(dark, r, n, leds)
  <2>. DEFINE s == Emitted(Drawn(n, leds), dark)
  <2>1. Lays(dark, s, n, leds)
    BY <1>3, <1>5, DrawnShows
  <2>. HIDE DEF s
  <2>. QED
    BY <1>6, <2>1 DEF s
<1>9. IsRing(r)
  <2>1. CASE ph \in {"Saving", "Loading"}
    BY <1>8, <2>1 DEF Lays
  <2>2. CASE ph = "FlashConfirm"
    <3>. DEFINE seen == IF halves % 2 = 0 THEN {"confirm"} ELSE {}
    <3>1. r = [lights EXCEPT !.shows = [o \in DOMAIN lights.shows |-> seen]]
      BY <2>2 DEF DrawActionGesture
    <3>. HIDE DEF seen, r
    <3>2. IsRing([lights EXCEPT !.shows = [o \in DOMAIN lights.shows |-> seen]])
      BY <1>2, FlashIs
    <3>. QED
      BY <3>1, <3>2 DEF r
  <2>3. CASE ph = "Disarmed"
    BY <1>5, <2>3 DEF DrawActionGesture, dark
  <2>4. CASE ph = "Idle"
    <3>. DEFINE f == Proximity(n, v)
    <3>1. r = Emitted(f, dark)
      BY <2>4 DEF DrawActionGesture, dark
    <3>2. Emits(f)
      BY <1>3, ProximityIs
    <3>. HIDE DEF f
    <3>3. IsRing(Emitted(f, dark))
      BY <1>5, <3>2, EmittedIs
    <3>. QED
      BY <3>1, <3>3
  <2>. QED
    BY <2>1, <2>2, <2>3, <2>4
<1>10. picture'.n > 0 => \A region \in Regions : Members(Resolve(picture', region)) \subseteq 0 .. picture'.n - 1
  BY <1>4, RegionsAreWithin
<1>. HIDE DEF desc, r
<1>11. /\ RingHolds' /\ RegionsAreLit' /\ SelectedShows' /\ OverlayStays' /\ ShowsAtItsHour'
       /\ base'.desc = desc /\ base'.value = v /\ lights' = r /\ ParameterShows' /\ SlotIsLegible'
  BY <1>1, <1>9, <1>10, ShowingIs
<1>12. desc.phase = ph
  BY DEF desc
<1>13. /\ fill \in 0 .. n /\ Unit * fill \in Int
       /\ 2 * (Unit * fill - v * n) <= Unit /\ 2 * (v * n - Unit * fill) < Unit
  <2>. DEFINE x == v * n
  <2>1. x \in Nat /\ x <= Unit * n /\ Unit \in Nat \ {0}
    BY <1>3, RingConstants, ShareIs
  <2>. HIDE DEF x
  <2>2. Round(x, Unit) \in 0 .. n
    BY <1>3, <2>1, RoundBetween
  <2>3. /\ Unit * Round(x, Unit) \in Int
        /\ 2 * (Unit * Round(x, Unit) - x) <= Unit /\ 2 * (x - Unit * Round(x, Unit)) < Unit
    BY <2>1, RoundIs
  <2>. QED
    BY <2>2, <2>3 DEF x
<1>. HIDE DEF fill
<1>14. ASSUME ph \in {"Saving", "Loading"} PROVE GestureShows'
  <2>. DEFINE S == IF ph = "Saving" THEN 0 .. fill - 1 ELSE n - fill .. n - 1
              T == {o \in 0 .. 15 : "colour" \in r.shows[o]}
              Hour(o) == (l.start + o * l.step) % 144
              LedsAt(o) == {k \in 0 .. n - 1 : (ArcStart + k * ArcStep) % 144 = Hour(o)}
              lit == {k \in 0 .. n - 1 : \E o \in T : k \in LedsAt(o)}
  <2>1. /\ r.layout = l /\ DOMAIN r.shows = 0 .. 15
        /\ \A k \in 0 .. n - 1 : r.shows[OffsetOf(l, k)] = leds[k]
        /\ \A o \in 0 .. 15 : \/ r.shows[o] = {}
                              \/ \E k \in 0 .. n - 1 : o = OffsetOf(l, k) /\ r.shows[o] = leds[k]
    BY <1>5, <1>8, <1>14 DEF Lays, IsRing
  <2>2. \A k \in 0 .. n - 1 : k \in S <=> "colour" \in leds[k]
    BY <1>3, <1>7, <1>13
  <2>3. S \subseteq 0 .. n - 1
    BY <1>3, <1>13
  <2>4. 0 .. n - 1 \subseteq 0 .. 13
    BY <1>3
  <2>5. \A o \in 0 .. 15, k \in 0 .. n - 1 : k \in LedsAt(o) <=> OffsetOf(l, k) = o
    BY <1>3, <2>4, OffsetIs DEF At
  <2>6. \A k \in 0 .. n - 1 : OffsetOf(l, k) \in 0 .. 15
    BY <1>3, <2>4, OffsetIs
  <2>. HIDE DEF LedsAt, S
  <2>7. \A o \in 0 .. 15 : o \in T <=> \E k \in S : o = OffsetOf(l, k)
    <3>1. ASSUME NEW o \in 0 .. 15, "colour" \in r.shows[o] PROVE \E k \in S : o = OffsetOf(l, k)
      <4>1. PICK k \in 0 .. n - 1 : o = OffsetOf(l, k) /\ r.shows[o] = leds[k]
        BY <2>1, <3>1
      <4>. QED
        BY <2>2, <3>1, <4>1
    <3>2. ASSUME NEW k \in S PROVE "colour" \in r.shows[OffsetOf(l, k)]
      BY <2>1, <2>2, <2>3, <3>2
    <3>. QED
      BY <3>1, <3>2
  <2>8. T \in SUBSET (0 .. 15) /\ S \in SUBSET (0 .. 13)
    BY <2>3, <2>4
  <2>9. lit = S
    <3>1. ASSUME NEW k \in 0 .. n - 1, NEW o \in T, k \in LedsAt(o) PROVE k \in S
      <4>1. o \in 0 .. 15 /\ "colour" \in r.shows[o] /\ OffsetOf(l, k) = o
        BY <2>5, <3>1
      <4>. QED
        BY <2>1, <2>2, <4>1
    <3>2. ASSUME NEW k \in S PROVE k \in 0 .. n - 1 /\ \E o \in T : k \in LedsAt(o)
      <4>1. k \in 0 .. n - 1
        BY <2>3
      <4>2. OffsetOf(l, k) \in T
        BY <2>6, <2>7, <4>1
      <4>. QED
        BY <2>5, <2>6, <4>1, <4>2
    <3>. HIDE DEF T
    <3>. QED
      BY <3>1, <3>2
  <2>. HIDE DEF T
  <2>10. Cardinality(T) = Cardinality(S)
    BY <1>3, <2>7, <2>8, OffsetsCount
  <2>11. Cardinality(S) = fill
    <3>1. CASE ph = "Saving"
      <4>1. S = 0 .. fill - 1 /\ fill \in Nat
        BY <1>3, <1>13, <3>1 DEF S
      <4>. QED
        BY <4>1, CountTo
    <3>2. CASE ph = "Loading"
      <4>. DEFINE a == n - fill  b == n - 1
      <4>1. S = a .. b /\ a \in Int /\ b \in Int /\ (IF a > b THEN 0 ELSE (b - a) + 1) = fill
        BY <1>3, <1>13, <3>2 DEF S
      <4>. HIDE DEF a, b
      <4>2. Cardinality(a .. b) = IF a > b THEN 0 ELSE b - a + 1
        BY <4>1, FS_Interval
      <4>3. b - a + 1 = (b - a) + 1
        BY <4>1
      <4>. QED
        BY <4>1, <4>2, <4>3
    <3>. QED
      BY <1>14, <3>1, <3>2
  <2>12. \A k \in S : IF ph = "Saving" THEN k < fill ELSE k >= n - fill
    BY <1>3, <1>13 DEF S
  <2>13. 2 * (fill * Unit - v * n) \in -Unit .. Unit
    <3>. DEFINE uf == Unit * fill  vn == v * n
    <3>1. fill * Unit = uf /\ vn \in Int /\ uf \in Int /\ Unit \in Nat
      BY <1>3, <1>13, RingConstants
    <3>2. 2 * (uf - vn) <= Unit /\ 2 * (vn - uf) < Unit
      BY <1>13
    <3>. HIDE DEF uf, vn
    <3>3. 2 * (uf - vn) \in -Unit .. Unit
      BY <3>1, <3>2
    <3>. QED
      BY <3>1, <3>3 DEF vn
  <2>14. Seen("colour")' = T
    BY <1>11, <2>1 DEF Seen, T
  <2>15. \A o \in 0 .. 15 : LedsOf(o)' = LedsAt(o)
    BY <1>4, <1>11, <2>1 DEF LedsOf, HourOf, LedsAt
  <2>16. {k \in 0 .. picture'.n - 1 : \E o \in Seen("colour")' : k \in LedsOf(o)'} = S
    <3>1. {k \in 0 .. picture'.n - 1 : \E o \in Seen("colour")' : k \in LedsOf(o)'} = lit
      BY <1>4, <2>8, <2>14, <2>15
    <3>. QED
      BY <2>9, <3>1
  <2>. HIDE DEF lit
  <2>17. /\ Cardinality(Seen("colour")') = Cardinality(S)
         /\ 2 * (Cardinality(S) * Unit - v * picture'.n) \in -Unit .. Unit
         /\ \A k \in S : IF ph = "Saving" THEN k < Cardinality(S) ELSE k >= picture'.n - Cardinality(S)
    BY <1>4, <2>10, <2>11, <2>12, <2>13, <2>14
  <2>. QED
    BY <1>11, <1>12, <2>16, <2>17 DEF GestureShows
<1>15. ASSUME ~(ph \in {"Saving", "Loading"}) PROVE GestureShows'
  BY <1>11, <1>12, <1>15 DEF GestureShows
<1>. QED
  BY <1>11, <1>14, <1>15 DEF RingIInv, RingShows

-----------------------------------------------------------------------------
LEMMA RingStep ==
  ASSUME RingIInv, RenderNext PROVE RingIInv'
<1>1. CASE RingNext
  <2>1. ASSUME NEW n \in Arcs, NEW overlay \in BOOLEAN, Begin(n, overlay) PROVE RingIInv'
    BY <2>1, BeginStep
  <2>2. ASSUME NEW v \in Values, NEW d \in Fills, DrawBase("fill", d, v) PROVE RingIInv'
    BY <2>2, DrawFillStep
  <2>3. ASSUME NEW v \in Values, NEW d \in Selectors, DrawBase("selector", d, v) PROVE RingIInv'
    BY <2>3, DrawSelectorStep
  <2>4. ASSUME NEW first \in {-1, 0, 2}, NEW last \in {0, 40}, BaseByHand(first, last) PROVE RingIInv'
    <3>1. first \in Int /\ last \in Int
      OBVIOUS
    <3>. QED
      BY <2>4, <3>1, BaseByHandStep
  <2>5. ASSUME NEW s \in Spans, Spanned(s[1], s[2]) PROVE RingIInv'
    <3>1. s[1] \in Int /\ s[2] \in Int
      BY RingConstants
    <3>. QED
      BY <2>5, <3>1, SpannedStep
  <2>6. ASSUME NEW region \in Regions, NEW d \in PipDescs, NEW p \in PipPositions, DrawPip(region, d, p) PROVE RingIInv'
    BY <2>6, DrawPipStep
  <2>7. ASSUME NEW region \in Regions, NEW d \in Fields, DrawField(region, d) PROVE RingIInv'
    BY <2>7, DrawFieldStep
  <2>8. CASE Emit
    BY <2>8, EmitStep
  <2>9. CASE Cleared
    BY <2>9, ClearedStep
  <2>. QED
    BY <1>1, <2>1, <2>2, <2>3, <2>4, <2>5, <2>6, <2>7, <2>8, <2>9 DEF RingNext
<1>2. ASSUME NEW n \in Arcs, NEW slot \in Slots, NEW v \in Values, NEW caught \in BOOLEAN, Render(n, slot, v, caught)
      PROVE  RingIInv'
  BY <1>2, RenderStep
<1>3. ASSUME NEW n \in Arcs, NEW v \in Values, NEW halves \in 0 .. 3,
             NEW ph \in {"Idle", "Saving", "Loading", "FlashConfirm", "Disarmed"}, Gesture(n, ph, v, halves)
      PROVE  RingIInv'
  BY <1>3, GestureStep
<1>4. ASSUME NEW n \in Arcs, NEW slot \in 0 .. 15, Indicate(n, slot) PROVE RingIInv'
  BY <1>4, IndicateStep
<1>. QED
  BY <1>1, <1>2, <1>3, <1>4 DEF RenderNext

-----------------------------------------------------------------------------
(* The panel                                                               *)

\* The units share no state: each keeps its own invariant, and the others stand still.
PanelIInv == SurfaceIInv /\ clean \subseteq Bindings /\ RingIInv /\ ClipInv /\ BeatInv

LEMMA PanelStarts == PanelInit => PanelIInv
BY SurfaceInitHolds, RingStarts, ClipStarts, BeatStarts DEF PanelInit, SurfaceInit, PanelIInv

\* The releases that are clean are of buttons that were down.
LEMMA CleanIs ==
  SurfaceIInv /\ clean \subseteq Bindings /\ [SurfaceNext]_surface => clean' \subseteq Bindings
<1>. SUFFICES ASSUME SurfaceIInv, clean \subseteq Bindings, [SurfaceNext]_surface
              PROVE  clean' \subseteq Bindings
  OBVIOUS
<1>1. prev \subseteq Bindings
  BY DEF SurfaceIInv, BankInv, Bank!BankTypeOK
<1>2. ASSUME NEW r \in Reading, BankPolls(r) PROVE clean' \subseteq Bindings
  BY <1>1, <1>2 DEF BankPolls
<1>3. ASSUME FrameNavigates PROVE clean' \subseteq Bindings
  BY <1>3 DEF FrameNavigates
<1>4. PagerPolls \/ CallsIn \/ FrameBegins \/ FrameGoesOn \/ UNCHANGED surface => clean' = clean
  BY DEF PagerPolls, CallsIn, FrameBegins, FrameGoesOn, surface
<1>. QED
  BY <1>2, <1>3, <1>4 DEF SurfaceNext

LEMMA RingStands == RingIInv /\ UNCHANGED ringVars => RingIInv'
<1>. SUFFICES ASSUME RingIInv, UNCHANGED ringVars PROVE RingIInv'
  OBVIOUS
<1>1. picture' = picture /\ lights' = lights /\ base' = base /\ stage' = stage
  BY DEF ringVars
<1>2. RingHolds'
  BY <1>1 DEF RingIInv, RingHolds
<1>3. RegionsAreLit' /\ SelectedShows'
  BY <1>1 DEF RingIInv, RingShows, RegionsAreLit, SelectedShows
<1>4. OverlayStays' /\ ShowsAtItsHour'
  BY <1>1 DEF RingIInv, RingShows, OverlayStays, ShowsAtItsHour
<1>5. /\ \A what : Seen(what)' = Seen(what)
      /\ \A o : HourOf(o)' = HourOf(o) /\ LedsOf(o)' = LedsOf(o)
  <2>1. ASSUME NEW what PROVE Seen(what)' = Seen(what)
    <3>1. ASSUME NEW o PROVE o \in Seen(what)' <=> o \in Seen(what)
      BY <1>1 DEF Seen
    <3>. QED
      BY <3>1 DEF Seen
  <2>2. ASSUME NEW o PROVE HourOf(o)' = HourOf(o) /\ LedsOf(o)' = LedsOf(o)
    <3>1. HourOf(o)' = HourOf(o)
      BY <1>1 DEF HourOf
    <3>2. ASSUME NEW k PROVE k \in LedsOf(o)' <=> k \in LedsOf(o)
      BY <1>1, <3>1 DEF LedsOf
    <3>. QED
      BY <3>1, <3>2 DEF LedsOf
  <2>. QED
    BY <2>1, <2>2
<1>6. ParameterShows'
  <2>. DEFINE lit == {k \in 0 .. picture.n - 1 : "colour" \in picture.leds[k]}
  <2>1. lit' = lit
    <3>1. ASSUME NEW k PROVE k \in lit' <=> k \in lit
      BY <1>1
    <3>. HIDE DEF lit
    <3>. QED
      BY <3>1 DEF lit
  <2>2. ASSUME stage.phase = "rendered", base.kind = "parameter", base.desc.style # "None"
        PROVE  /\ Cardinality(Seen("catch")) <= 1
               /\ \A o \in DOMAIN lights.shows \ Seen("catch") : \A k \in LedsOf(o) : lights.shows[o] = picture.leds[k]
               /\ \A o \in Seen("pip") \cup Seen("over") : HourOf(o) = Bottom
               /\ base.desc.style = "Gradient" \/ (base.desc.style = "Level" /\ ~base.desc.desc.ccw) =>
                    \A o \in Seen("catch") :
                      picture.n > 0 => \E k \in LedsOf(o) : Cardinality(lit) - 1 \in k - 1 .. k + 1
    BY <2>2 DEF RingIInv, RingShows, ParameterShows
  <2>3. ASSUME stage'.phase = "rendered", base'.kind = "parameter", base'.desc.style # "None"
        PROVE  /\ Cardinality(Seen("catch")') <= 1
               /\ \A o \in DOMAIN lights'.shows \ Seen("catch")' :
                    \A k \in LedsOf(o)' : lights'.shows[o] = picture'.leds[k]
               /\ \A o \in Seen("pip")' \cup Seen("over")' : HourOf(o)' = Bottom
               /\ base'.desc.style = "Gradient" \/ (base'.desc.style = "Level" /\ ~base'.desc.desc.ccw) =>
                    \A o \in Seen("catch")' :
                      picture'.n > 0 => \E k \in LedsOf(o)' : Cardinality(lit') - 1 \in k - 1 .. k + 1
    <3>. HIDE DEF lit
    <3>. QED
      BY <1>1, <1>5, <2>1, <2>2, <2>3
  <2>. QED
    BY <2>3 DEF ParameterShows
<1>7. SlotIsLegible' /\ GestureShows'
  <2>1. SlotIsLegible'
    <3>. DEFINE Starts(S) == {o \in S : ~\E p \in S : (HourOf(p) + ArcStep) % 144 = HourOf(o)}
                Begins(S) == {o \in S : ~\E p \in S : (HourOf(p)' + ArcStep) % 144 = HourOf(o)'}
                Share(i) == IF i = 1 + base.desc.slot \div 4 THEN 1 + (base.desc.slot % 4) ELSE 0
    <3>1. ASSUME NEW S PROVE Begins(S) = Starts(S)
      <4>1. ASSUME NEW o PROVE o \in Begins(S) <=> o \in Starts(S)
        BY <1>5
      <4>. QED
        BY <4>1
    <3>2. ASSUME stage.phase = "rendered", base.kind = "preset", picture.n = 13, NEW i \in 1 .. 4
          PROVE  Cardinality(Starts(Seen(SlotColors[i]))) = Share(i)
      BY <3>2 DEF RingIInv, RingShows, SlotIsLegible
    <3>3. ASSUME stage'.phase = "rendered", base'.kind = "preset", picture'.n = 13, NEW i \in 1 .. 4
          PROVE  Cardinality(Begins(Seen(SlotColors[i])')) = Share(i)'
      <4>1. Seen(SlotColors[i])' = Seen(SlotColors[i]) /\ Share(i)' = Share(i)
        BY <1>1, <1>5
      <4>2. Cardinality(Starts(Seen(SlotColors[i]))) = Share(i)
        BY <1>1, <3>2, <3>3
      <4>. HIDE DEF Starts, Begins, Share
      <4>. QED
        BY <3>1, <4>1, <4>2
    <3>. QED
      BY <3>3 DEF SlotIsLegible
  <2>2. GestureShows'
    BY <1>1, <1>5 DEF RingIInv, RingShows, GestureShows
  <2>. QED
    BY <2>1, <2>2
<1>. QED
  BY <1>2, <1>3, <1>4, <1>6, <1>7 DEF RingIInv, RingShows

LEMMA PanelStep ==
  ASSUME PanelIInv, [Controls \/ Ring \/ Clip \/ Beat]_panelVars
  PROVE  PanelIInv'
<1>. USE DEF PanelIInv
<1>1. CASE Controls
  <2>1. SurfaceIInv' /\ clean' \subseteq Bindings
    BY <1>1, SurfaceStepHolds, CleanIs DEF Controls, SurfaceKept
  <2>2. UNCHANGED ringVars /\ UNCHANGED clipVars /\ UNCHANGED beatVars
    BY <1>1 DEF Controls
  <2>. QED
    BY <2>1, <2>2, RingStands, ClipStep, BeatStep
<1>2. CASE Ring
  <2>1. RingIInv'
    BY <1>2, RingStep DEF Ring
  <2>2. UNCHANGED surface /\ UNCHANGED clipVars /\ UNCHANGED beatVars
    BY <1>2 DEF Ring
  <2>. QED
    BY <2>1, <2>2, SurfaceStepHolds, CleanIs, ClipStep, BeatStep DEF SurfaceKept
<1>3. CASE Clip
  <2>1. ClipInv'
    BY <1>3, ClipStep DEF Clip
  <2>2. UNCHANGED surface /\ UNCHANGED ringVars /\ UNCHANGED beatVars
    BY <1>3 DEF Clip
  <2>. QED
    BY <2>1, <2>2, SurfaceStepHolds, CleanIs, RingStands, BeatStep DEF SurfaceKept
<1>4. CASE Beat
  <2>1. BeatInv'
    BY <1>4, BeatStep DEF Beat
  <2>2. UNCHANGED surface /\ UNCHANGED ringVars /\ UNCHANGED clipVars
    BY <1>4 DEF Beat
  <2>. QED
    BY <2>1, <2>2, SurfaceStepHolds, CleanIs, RingStands, ClipStep DEF SurfaceKept
<1>5. CASE UNCHANGED panelVars
  <2>1. UNCHANGED surface /\ UNCHANGED ringVars /\ UNCHANGED clipVars /\ UNCHANGED beatVars
    BY <1>5 DEF panelVars
  <2>. QED
    BY <2>1, SurfaceStepHolds, CleanIs, RingStands, ClipStep, BeatStep DEF SurfaceKept
<1>. QED
  BY <1>1, <1>2, <1>3, <1>4, <1>5

LEMMA PanelAlways == PanelSpec => []PanelIInv
<1>1. PanelIInv /\ [Controls \/ Ring \/ Clip \/ Beat]_panelVars => PanelIInv'
  BY PanelStep
<1>. QED
  BY <1>1, PanelStarts, PTL DEF PanelSpec

\* What the LEDs of a ring show is what was drawn: the regions that a base stamps are its LEDs, a
\* selector shows the zone of its value, an overlay stays in its region, every LED of the arc is lit
\* at its own hour however the ring is wound, the mark of a pot lies where its fill ends, a preset's
\* slot can be told by its pairs and its colour, and a hold by how much of the arc it fills.
THEOREM RingsAreTrue ==
  PanelSpec => [](/\ RegionsAreLit /\ SelectedShows /\ OverlayStays /\ ShowsAtItsHour
                  /\ ParameterShows /\ SlotIsLegible /\ GestureShows)
<1>1. PanelIInv => /\ RegionsAreLit /\ SelectedShows /\ OverlayStays /\ ShowsAtItsHour
                   /\ ParameterShows /\ SlotIsLegible /\ GestureShows
  BY DEF PanelIInv, RingIInv, RingShows
<1>. QED
  BY <1>1, PanelAlways, PTL

\* The light for clipping is lit only for a window that clipped enough, and held as long as it says,
\* and the beat's light is in time, whatever wraps.
THEOREM IndicatorsAreTrue == PanelSpec => [](ClippingShows /\ BeatKeepsTime)
<1>1. PanelIInv => ClippingShows /\ BeatKeepsTime
  BY ClipShows, BeatShows DEF PanelIInv
<1>. QED
  BY <1>1, PanelAlways, PTL

\* The buttons mean what they say, and so do the lights (PanelInv).
THEOREM PanelIsTrue == PanelSpec => []PanelInv
<1>1. PanelIInv => SurfaceTypeOK
  <2>1. PanelIInv => TypeOK /\ Bank!BankTypeOK
    BY DEF PanelIInv, SurfaceIInv, BankInv
  <2>2. PanelIInv => polled \in Reading \cup {None} /\ clean \subseteq Bindings
    BY DEF PanelIInv, SurfaceIInv, NavInv
  <2>. QED
    BY <2>1, <2>2 DEF SurfaceTypeOK
<1>2. PanelIInv => GesturesInv
  BY <1>1 DEF PanelIInv, SurfaceIInv, BankInv, GesturesInv
<1>3. PanelIInv => LightsAreTrue
  BY ClipShows, BeatShows DEF PanelIInv, RingIInv, RingShows, LightsAreTrue
<1>4. PanelIInv => PanelInv
  BY <1>2, <1>3 DEF PanelInv
<1>. QED
  BY <1>4, PanelAlways, PTL
=============================================================================
