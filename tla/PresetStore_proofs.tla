------------------------- MODULE PresetStore_proofs -------------------------
(***************************************************************************)
(* Theorems about PresetStore, for every number of slots, payloads and     *)
(* sectors.  The argument is local to a slot: SlotOK relates what the two  *)
(* sides of a slot hold to the index of the slot, and every flash call of  *)
(* a commit keeps it, because the commit works on the side that a load     *)
(* would not choose.                                                       *)
(***************************************************************************)
EXTENDS PresetStore, TLAPS

\* Verifies, the scan and ReadVia for one slot whose sectors are hd and bd.
V(hd, bd, d) ==
  /\ hd[d] # Junk
  /\ \A k \in 1 .. RecLen[hd[d].val] - 1 : bd[d][k] = hd[d].val

ScanOf(hd, bd) ==
  [d \in Side |-> IF V(hd, bd, d) THEN [valid |-> TRUE, seq |-> hd[d].seq]
                                  ELSE NoEntry]

Read(ix, hd, bd) ==
  IF ~HasEntry(ix) THEN None
  ELSE IF V(hd, bd, BestSide(ix)) THEN hd[BestSide(ix)].val ELSE Junk

TargetOf(ix) ==
  IF ~ix[0].valid THEN 0
  ELSE IF ~ix[1].valid THEN 1
  ELSE IF ix[0].seq <= ix[1].seq THEN 0 ELSE 1

Heads == [Side -> Header \cup {Junk}]
Bodies == [Side -> [BodySectors -> Vals \cup {Junk}]]
Index == [Side -> Entry]

(***************************************************************************)
(* The local invariant.  my is the set of presets a restart may bring      *)
(* back, n the next sequence number.                                       *)
(***************************************************************************)
SlotOK(hd, bd, ix, my, n) ==
  /\ \A d \in Side : ix[d].valid => ix[d].seq < n
  /\ ix[0].valid /\ ix[1].valid => ix[0].seq # ix[1].seq
  /\ HasEntry(ix) =>
       /\ V(hd, bd, BestSide(ix))
       /\ hd[BestSide(ix)].seq = ix[BestSide(ix)].seq
       /\ hd[BestSide(ix)].val \in my
  /\ ~HasEntry(ix) => None \in my /\ ~V(hd, bd, 1)
  /\ \A d \in Side :
       V(hd, bd, d) /\ (HasEntry(ix) => d # BestSide(ix)) =>
         \/ HasEntry(ix) /\ ix[d].valid /\ hd[d].seq = ix[d].seq
         \/ /\ hd[d].val \in my
            /\ HasEntry(ix) => hd[d].seq > ix[BestSide(ix)].seq

\* Every record that verifies is one a restart or an erase may bring back.
Known ==
  \A s \in Slots, d \in Side :
    V(head[s], body[s], d) => head[s][d].val \in may[s] \cup prev[s]

SaveInv ==
  phase \in {"Erase", "Write"} =>
    /\ side = TargetOf(idx[slot])
    /\ val \in may[slot]
    /\ nextSeq < MaxSeq
    /\ phase = "Erase" /\ sect # 0 => head[slot][side] = Junk
    /\ phase = "Write" =>
         /\ sect # 0 => head[slot][side] = [seq |-> nextSeq, val |-> val]
         /\ \A k \in 1 .. sect - 1 : body[slot][side][k] = val

WipeInv ==
  phase = "Wipe" =>
    /\ ok = TRUE
    /\ prev[slot] \cup {None} \subseteq may[slot]
    /\ side = 1 => head[slot][0] = Junk /\ idx[slot][0] = NoEntry

IdleInv == phase \in {"Off", "Idle"} => side = 0 /\ ok = TRUE

IndexInv ==
  phase # "Off" =>
    \A s \in Slots : ~Wiping(s) =>
      SlotOK(head[s], body[s], idx[s], may[s], nextSeq)

IInv ==
  /\ TypeOK
  /\ Known
  /\ SequencesDiffer
  /\ DurableAcrossPowerCut
  /\ IndexInv
  /\ SaveInv
  /\ WipeInv
  /\ IdleInv

-----------------------------------------------------------------------------
(***************************************************************************)
(* Lemmas about one slot.                                                  *)
(***************************************************************************)

\* The operators of PresetStore and those above say the same of a slot.
LEMMA SlotView ==
  ASSUME TypeOK, NEW s \in Slots
  PROVE  /\ \A d \in Side : /\ Verifies(s, d) <=> V(head[s], body[s], d)
                            /\ Intact(s, d) <=> V(head[s], body[s], d)
         /\ Scan[s] = ScanOf(head[s], body[s])
         /\ Peek(s) = Read(idx[s], head[s], body[s])
         /\ RestartValue(s) = Read(ScanOf(head[s], body[s]), head[s], body[s])
         /\ Target(s) = TargetOf(idx[s])
<1>1. \A d \in Side : /\ Verifies(s, d) <=> V(head[s], body[s], d)
                      /\ Intact(s, d) <=> V(head[s], body[s], d)
  BY DEF Verifies, Intact, V
<1>2. Scan[s] = ScanOf(head[s], body[s])
  BY <1>1 DEF Scan, ScanOf
<1>3. \A ix : BestSide(ix) \in Side
  BY DEF BestSide, Side
<1>4. \A ix : ReadVia(ix, s) = Read(ix, head[s], body[s])
  BY <1>1, <1>3 DEF ReadVia, Read
<1>5. Target(s) = TargetOf(idx[s])
  BY DEF Target, TargetOf, TypeOK, Entry, Side
<1>6. QED
  BY <1>1, <1>2, <1>4, <1>5 DEF Peek, RestartValue

SlotsViewed ==
  \A s \in Slots :
    /\ \A d \in Side : /\ Verifies(s, d) <=> V(head[s], body[s], d)
                       /\ Intact(s, d) <=> V(head[s], body[s], d)
    /\ RestartValue(s) = Read(ScanOf(head[s], body[s]), head[s], body[s])

LEMMA SlotViewInEveryState == TypeOK => SlotsViewed
  BY SlotView DEF SlotsViewed

\* A commit works on the side that a load does not choose.
LEMMA TargetIsNotBest ==
  ASSUME NEW ix \in Index
  PROVE  /\ TargetOf(ix) \in Side
         /\ HasEntry(ix) /\ (ix[0].valid /\ ix[1].valid => ix[0].seq # ix[1].seq)
              => TargetOf(ix) # BestSide(ix)
         /\ ~HasEntry(ix) => TargetOf(ix) = 0
  BY DEF Index, Entry, Side, HasEntry, TargetOf, BestSide

\* SlotOK determines what a restart selects, and tells the sides apart.
LEMMA SlotRestart ==
  ASSUME NEW hd \in Heads, NEW bd \in Bodies, NEW ix \in Index,
         NEW my, NEW n \in Nat,
         SlotOK(hd, bd, ix, my, n)
  PROVE  /\ Read(ScanOf(hd, bd), hd, bd) \in my
         /\ V(hd, bd, 0) /\ V(hd, bd, 1) => hd[0].seq # hd[1].seq
<1>. DEFINE sc == ScanOf(hd, bd)
<1>1. /\ V(hd, bd, 0) => hd[0].seq \in Nat
      /\ V(hd, bd, 1) => hd[1].seq \in Nat
  BY DEF V, Heads, Header, Side
<1>2. /\ sc[0].valid <=> V(hd, bd, 0)
      /\ sc[1].valid <=> V(hd, bd, 1)
      /\ V(hd, bd, 0) => sc[0].seq = hd[0].seq
      /\ V(hd, bd, 1) => sc[1].seq = hd[1].seq
  BY DEF ScanOf, Side, NoEntry
<1>3. V(hd, bd, 0) /\ V(hd, bd, 1) => hd[0].seq # hd[1].seq
  BY <1>1 DEF SlotOK, Side, HasEntry, BestSide, Index, Entry
<1>4. ASSUME ~HasEntry(sc) PROVE Read(sc, hd, bd) \in my
  <2>1. ~V(hd, bd, 0) /\ ~V(hd, bd, 1)
    BY <1>2, <1>4 DEF HasEntry
  <2>2. None \in my
    BY <2>1 DEF SlotOK, BestSide
  <2>3. QED
    BY <1>4, <2>2 DEF Read
<1>5. ASSUME HasEntry(sc) PROVE Read(sc, hd, bd) \in my
  <2>1. V(hd, bd, BestSide(sc)) /\ BestSide(sc) \in Side
    BY <1>2, <1>5 DEF HasEntry, BestSide, Side
  <2>2. hd[BestSide(sc)].val \in my
    BY <1>1, <1>2, <1>3, <1>5, <2>1
       DEF SlotOK, Side, HasEntry, BestSide, Index, Entry
  <2>3. QED
    BY <1>5, <2>1, <2>2 DEF Read
<1>6. QED
  BY <1>3, <1>4, <1>5

\* A commit's flash calls keep SlotOK: the side it works on verifies only as
\* what it held before, or as the record with the next sequence number.
LEMMA SlotKept ==
  ASSUME NEW hd \in Heads, NEW bd \in Bodies, NEW ix \in Index,
         NEW my, NEW n \in Nat, NEW hd2 \in Heads, NEW bd2 \in Bodies,
         SlotOK(hd, bd, ix, my, n),
         NEW t, t = TargetOf(ix),
         hd2[1 - t] = hd[1 - t], bd2[1 - t] = bd[1 - t],
         V(hd2, bd2, t) =>
           \/ hd2[t] = hd[t] /\ V(hd, bd, t)
           \/ hd2[t].val \in my /\ hd2[t].seq = n
  PROVE  SlotOK(hd2, bd2, ix, my, n)
<1>1. /\ t \in Side
      /\ HasEntry(ix) => t # BestSide(ix)
      /\ ~HasEntry(ix) => t = 0
  BY TargetIsNotBest DEF SlotOK
<1>2. BestSide(ix) \in Side
  BY DEF BestSide, Side
<1>3. V(hd2, bd2, 1 - t) <=> V(hd, bd, 1 - t)
  BY DEF V
<1>4. \A d \in Side : d # t => d = 1 - t
  BY <1>1 DEF Side
<1>5. HasEntry(ix) => ix[BestSide(ix)].valid
  BY DEF HasEntry, BestSide
<1>6. HasEntry(ix) => n > ix[BestSide(ix)].seq
  BY <1>2, <1>5 DEF SlotOK, Index, Entry
<1>7. QED
  BY <1>1, <1>2, <1>3, <1>4, <1>6 DEF SlotOK, Side

\* More presets allowed, or a later sequence number, keep SlotOK.
LEMMA SlotMonotone ==
  ASSUME NEW hd, NEW bd, NEW ix \in Index, NEW my, NEW n \in Nat,
         NEW my2, NEW n2 \in Nat,
         SlotOK(hd, bd, ix, my, n), my \subseteq my2, n <= n2
  PROVE  SlotOK(hd, bd, ix, my2, n2)
  BY DEF SlotOK, Index, Entry

\* What a scan selects is a preset or nothing, never bytes that do not verify.
LEMMA ScanReadsPreset ==
  ASSUME NEW hd \in Heads, NEW bd
  PROVE  Read(ScanOf(hd, bd), hd, bd) \in Vals \cup {None}
<1>. DEFINE sc == ScanOf(hd, bd)
<1>1. ASSUME HasEntry(sc)
      PROVE  BestSide(sc) \in Side /\ V(hd, bd, BestSide(sc))
  BY <1>1 DEF HasEntry, BestSide, ScanOf, Side, NoEntry
<1>2. ASSUME NEW d \in Side, V(hd, bd, d) PROVE hd[d].val \in Vals
  BY <1>2 DEF V, Heads, Header
<1>3. QED
  BY <1>1, <1>2 DEF Read

-----------------------------------------------------------------------------
(***************************************************************************)
(* Type correctness, under any combination of flash faults.                *)
(***************************************************************************)
LEMMA UpdateSide ==
  ASSUME NEW S, NEW f \in [Slots -> [Side -> S]], NEW s \in Slots, NEW d \in Side,
         NEW c \in S
  PROVE  [f EXCEPT ![s][d] = c] \in [Slots -> [Side -> S]]
  OBVIOUS

LEMMA SetSectorType ==
  ASSUME TypeOK, NEW s \in Slots, NEW d \in Side, NEW k \in 0 .. SectorsPerSide - 1,
         NEW content, k = 0 => content \in Header \cup {Junk},
         k # 0 => content \in Vals \cup {Junk},
         SetSector(s, d, k, content)
  PROVE  /\ head' \in [Slots -> Heads]
         /\ body' \in [Slots -> Bodies]
<1>1. head \in [Slots -> Heads] /\ body \in [Slots -> Bodies]
  BY DEF TypeOK, Heads, Bodies
<1>2. CASE k = 0
  <2>1. content \in Header \cup {Junk}
    BY <1>2
  <2>2. [head EXCEPT ![s][d] = content] \in [Slots -> Heads]
    BY <1>1, <2>1, UpdateSide DEF Heads
  <2>3. QED
    BY <1>1, <1>2, <2>2 DEF SetSector
<1>3. CASE k # 0
  <2>1. k \in BodySectors
    BY <1>3, StoreAssumption DEF BodySectors
  <2>2. [body[s][d] EXCEPT ![k] = content] \in [BodySectors -> Vals \cup {Junk}]
    BY <1>1, <1>3, <2>1 DEF Bodies
  <2>3. body' = [body EXCEPT ![s][d] = [body[s][d] EXCEPT ![k] = content]]
    BY <1>1, <1>3 DEF SetSector, Bodies
  <2>4. body' \in [Slots -> Bodies]
    BY <1>1, <2>2, <2>3, UpdateSide DEF Bodies
  <2>5. QED
    BY <1>1, <1>3, <2>4 DEF SetSector
<1>4. QED
  BY <1>2, <1>3

LEMMA TypeStep ==
  ASSUME TypeOK, [StoreNext]_storeVars
  PROVE  TypeOK'
<1> USE StoreAssumption
<1>1. ASSUME phase \in {"Erase", "Write"}
      PROVE  /\ slot \in Slots /\ side \in Side /\ val \in Vals
             /\ sect \in 0 .. SectorsPerSide - 1
             /\ sect = 0 => Piece \in Header
             /\ sect # 0 => Piece \in Vals
  BY <1>1 DEF TypeOK, Piece, Header
<1>2. ASSUME NEW s \in Slots, NEW v \in Vals, StartSave(s, v) PROVE TypeOK'
  <2>1. Target(s) \in Side
    BY DEF Target, Side, TypeOK, Entry
  <2>2. QED
    BY <1>2, <2>1 DEF StartSave, TypeOK, sectors
<1>3. CASE EraseSector
  <2>1. head' \in [Slots -> Heads] /\ body' \in [Slots -> Bodies]
    BY <1>1, <1>3, SetSectorType DEF EraseSector
  <2>2. QED
    BY <1>3, <2>1 DEF EraseSector, TypeOK, Heads, Bodies, history
<1>4. CASE EraseSectorFails
  <2>1. head' \in [Slots -> Heads] /\ body' \in [Slots -> Bodies]
    <3>1. CASE UNCHANGED sectors
      BY <3>1 DEF TypeOK, sectors, Heads, Bodies
    <3>2. CASE SetSector(slot, side, sect, Junk)
      BY <1>1, <1>4, <3>2, SetSectorType DEF EraseSectorFails
    <3>3. QED
      BY <1>4, <3>1, <3>2 DEF EraseSectorFails
  <2>2. QED
    BY <1>4, <2>1 DEF EraseSectorFails, Stop, TypeOK, Heads, Bodies, history, Side
<1>5. CASE WriteSector
  <2>1. head' \in [Slots -> Heads] /\ body' \in [Slots -> Bodies]
    BY <1>1, <1>5, SetSectorType DEF WriteSector
  <2>2. QED
    BY <1>5, <2>1 DEF WriteSector, TypeOK, Heads, Bodies, history
<1>6. CASE FinishSave
  <2>1. head' \in [Slots -> Heads] /\ body' \in [Slots -> Bodies]
    BY <1>1, <1>6, SetSectorType DEF FinishSave
  <2>2. Peek(slot) \in Vals \cup {None, Junk}
    <3>1. ASSUME NEW d \in Side, Intact(slot, d) PROVE head[slot][d].val \in Vals
      BY <1>1, <1>6, <3>1 DEF Intact, TypeOK, Header, FinishSave
    <3>2. BestSide(idx[slot]) \in Side
      BY DEF BestSide, Side
    <3>3. Intact(slot, BestSide(idx[slot])) =>
             head[slot][BestSide(idx[slot])].val \in Vals
      BY <3>1, <3>2
    <3>4. QED
      BY <3>3 DEF Peek, ReadVia
  <2>3. idx' \in [Slots -> [Side -> Entry]]
    BY <1>1, <1>6 DEF FinishSave, TypeOK, Entry
  <2>4. QED
    BY <1>1, <1>6, <2>1, <2>2, <2>3
       DEF FinishSave, Stop, TypeOK, Heads, Bodies, Side
<1>7. CASE WriteSectorFails
  <2>1. head' \in [Slots -> Heads] /\ body' \in [Slots -> Bodies]
    <3>1. CASE UNCHANGED sectors
      BY <3>1 DEF TypeOK, sectors, Heads, Bodies
    <3>2. ASSUME NEW content \in {Junk, Piece}, SetSector(slot, side, sect, content)
          PROVE  head' \in [Slots -> Heads] /\ body' \in [Slots -> Bodies]
      BY <1>1, <1>7, <3>2, SetSectorType DEF WriteSectorFails
    <3>3. QED
      BY <1>7, <3>1, <3>2 DEF WriteSectorFails
  <2>2. QED
    BY <1>7, <2>1 DEF WriteSectorFails, Stop, TypeOK, Heads, Bodies, history, Side
<1>8. ASSUME NEW s \in Slots, StartWipe(s) PROVE TypeOK'
  <2>1. may' \in [Slots -> SUBSET (Vals \cup {None, Junk})]
    BY <1>8 DEF StartWipe, TypeOK
  <2>2. QED
    BY <1>8, <2>1 DEF StartWipe, TypeOK, sectors
<1>9. CASE WipeSide \/ WipeSideFails
  <2>1. /\ phase = "Wipe" /\ slot \in Slots /\ side \in Side
        /\ UNCHANGED <<body, nextSeq>>
        /\ WipeNext(ok) \/ WipeNext(FALSE)
    BY <1>9 DEF WipeSide, WipeSideFails, TypeOK
  <2>2. head' \in [Slots -> Heads]
    <3>1. [head EXCEPT ![slot][side] = Junk] \in [Slots -> Heads]
      BY <2>1, UpdateSide DEF TypeOK, Heads
    <3>2. QED
      BY <1>9, <3>1 DEF WipeSide, WipeSideFails, TypeOK, Heads
  <2>3. idx' \in [Slots -> [Side -> Entry]]
    <3>1. NoEntry \in Entry
      BY DEF NoEntry, Entry
    <3>2. [idx EXCEPT ![slot][side] = NoEntry] \in [Slots -> [Side -> Entry]]
      BY <2>1, <3>1, UpdateSide DEF TypeOK
    <3>3. QED
      BY <1>9, <3>2 DEF WipeSide, WipeSideFails, TypeOK
  <2>4. CASE side = 0
    BY <2>1, <2>2, <2>3, <2>4 DEF WipeNext, TypeOK, Heads, Side, history
  <2>5. CASE side # 0
    <3>1. may' \in [Slots -> SUBSET (Vals \cup {None, Junk})]
      <4>1. may' = may \/ may' = [may EXCEPT ![slot] = {None}]
        BY <2>1, <2>5 DEF WipeNext
      <4>2. {None} \in SUBSET (Vals \cup {None, Junk})
        OBVIOUS
      <4>3. QED
        BY <4>1, <4>2, ZenonT(60) DEF TypeOK
    <3>2. prev' \in [Slots -> SUBSET (Vals \cup {None, Junk})]
      <4>1. prev' = prev \/ prev' = [prev EXCEPT ![slot] = {}]
        BY <2>1, <2>5 DEF WipeNext
      <4>2. {} \in SUBSET (Vals \cup {None, Junk})
        OBVIOUS
      <4>3. QED
        BY <4>1, <4>2 DEF TypeOK
    <3>3. Stop("Idle")
      BY <2>1, <2>5 DEF WipeNext
    <3>4. QED
      BY <2>1, <2>2, <2>3, <3>1, <3>2, <3>3 DEF Stop, TypeOK, Heads, Side
  <2>6. QED
    BY <2>4, <2>5
<1>10. CASE PowerCut
  <2>1. head' \in [Slots -> Heads] /\ body' \in [Slots -> Bodies]
    <3>1. CASE UNCHANGED sectors
      BY <3>1 DEF TypeOK, sectors, Heads, Bodies
    <3>2. CASE phase = "Erase" /\ SetSector(slot, side, sect, Junk)
      BY <1>1, <3>2, SetSectorType
    <3>3. CASE phase = "Wipe" /\ SetSector(slot, side, 0, Junk)
      BY <3>3, SetSectorType DEF TypeOK
    <3>4. ASSUME phase = "Write", NEW content \in {Junk, Piece},
                 SetSector(slot, side, sect, content)
          PROVE  head' \in [Slots -> Heads] /\ body' \in [Slots -> Bodies]
      BY <1>1, <3>4, SetSectorType
    <3>5. QED
      BY <1>10, <3>1, <3>2, <3>3, <3>4 DEF PowerCut, Cut
  <2>2. QED
    BY <1>10, <2>1 DEF PowerCut, Stop, TypeOK, Heads, Bodies, history, Side,
                       Entry, NoEntry
<1>11. CASE StoreBoot
  <2>1. Scan \in [Slots -> [Side -> Entry]]
    BY DEF Scan, TypeOK, Entry, NoEntry, Header, Verifies, Intact
  <2>2. \A s \in Slots : RestartValue(s) \in Vals \cup {None}
    <3>1. \A s \in Slots : head[s] \in Heads
      BY DEF TypeOK, Heads
    <3>2. \A s \in Slots :
            RestartValue(s) = Read(ScanOf(head[s], body[s]), head[s], body[s])
      BY SlotView
    <3>3. QED
      BY <3>1, <3>2, ScanReadsPreset
  <2>3. /\ may' \in [Slots -> SUBSET (Vals \cup {None, Junk})]
        /\ prev' \in [Slots -> SUBSET (Vals \cup {None, Junk})]
    <3>1. \A s \in Slots : {RestartValue(s)} \in SUBSET (Vals \cup {None, Junk})
      BY <2>2
    <3>2. \A s \in Slots : prev[s] \cup may[s] \in SUBSET (Vals \cup {None, Junk})
      BY DEF TypeOK
    <3>3. QED
      BY <1>11, <3>1, <3>2 DEF StoreBoot
  <2>4. QED
    BY <1>11, <2>1, <2>3 DEF StoreBoot, Stop, TypeOK, sectors, Side
<1>12. CASE UNCHANGED storeVars
  BY <1>12 DEF storeVars, sectors, call, history, TypeOK
<1>13. QED
  BY <1>2, <1>3, <1>4, <1>5, <1>6, <1>7, <1>8, <1>9, <1>10, <1>11, <1>12 DEF StoreNext

\* The store never leaves the states it is meant to be in, whichever flash
\* calls fail and whenever power is lost.
THEOREM TypeCorrect == StoreSpec => []TypeOK
<1>1. StoreInit => TypeOK
  BY DEF StoreInit, TypeOK, Entry, NoEntry, Side
<1>2. TypeOK /\ [StoreNext]_storeVars => TypeOK'
  BY TypeStep
<1>3. QED
  BY <1>1, <1>2, PTL DEF StoreSpec

-----------------------------------------------------------------------------
(***************************************************************************)
(* What one flash call of a commit leaves in flash, whether it succeeds,   *)
(* fails or is cut: every slot still fits the index in RAM.                *)
(***************************************************************************)
FlashFits ==
  \A s \in Slots :
    Wiping(s) \/ SlotOK(head'[s], body'[s], idx[s], may[s], nextSeq)

FlashKnown ==
  \A s \in Slots, d \in Side :
    V(head'[s], body'[s], d) => head'[s][d].val \in may[s] \cup prev[s]

LEMMA CommitFlash ==
  ASSUME IInv, phase \in {"Erase", "Write"},
         NEW content \in {Junk, Piece}, phase = "Erase" => content = Junk,
         SetSector(slot, side, sect, content) \/ UNCHANGED sectors
  PROVE  FlashFits /\ FlashKnown
<1>1. /\ slot \in Slots /\ side \in Side /\ val \in Vals
      /\ sect \in 0 .. SectorsPerSide - 1 /\ nextSeq \in Nat
      /\ head \in [Slots -> Heads] /\ body \in [Slots -> Bodies]
      /\ idx \in [Slots -> Index]
      /\ \A s \in Slots : ~Wiping(s)
  BY StoreAssumption DEF IInv, TypeOK, Heads, Bodies, Index, Wiping
<1>2. CASE UNCHANGED sectors
  BY <1>1, <1>2 DEF IInv, IndexInv, Known, FlashFits, FlashKnown, sectors
<1>3. CASE SetSector(slot, side, sect, content)
  <2>1. head' \in [Slots -> Heads] /\ body' \in [Slots -> Bodies]
    <3>1. /\ sect = 0 => content \in Header \cup {Junk}
          /\ sect # 0 => content \in Vals \cup {Junk}
      BY <1>1 DEF Piece, Header
    <3>2. QED
      BY <1>1, <1>3, <3>1, SetSectorType DEF IInv
  <2>2. /\ \A s \in Slots : s # slot => head'[s] = head[s] /\ body'[s] = body[s]
        /\ head'[slot][1 - side] = head[slot][1 - side]
        /\ body'[slot][1 - side] = body[slot][1 - side]
    BY <1>1, <1>3 DEF SetSector, Heads, Bodies, Side
  <2>3. V(head'[slot], body'[slot], side) =>
          head'[slot][side].val = val /\ head'[slot][side].seq = nextSeq
    <3>1. CASE sect = 0
      BY <1>1, <1>3, <3>1 DEF SetSector, V, Heads, Piece
    <3>2. CASE sect # 0
      BY <1>1, <1>3, <3>2 DEF SetSector, V, IInv, SaveInv
    <3>3. QED
      BY <3>1, <3>2
  <2>4. SlotOK(head'[slot], body'[slot], idx[slot], may[slot], nextSeq)
    <3>1. SlotOK(head[slot], body[slot], idx[slot], may[slot], nextSeq)
      BY <1>1 DEF IInv, IndexInv
    <3>2. side = TargetOf(idx[slot]) /\ val \in may[slot]
      BY DEF IInv, SaveInv
    <3>3. /\ head[slot] \in Heads /\ body[slot] \in Bodies /\ idx[slot] \in Index
          /\ head'[slot] \in Heads /\ body'[slot] \in Bodies
      BY <1>1, <2>1
    <3>4. QED
      BY <1>1, <2>2, <2>3, <3>1, <3>2, <3>3, SlotKept
  <2>5. FlashFits
    BY <1>1, <2>2, <2>4 DEF FlashFits, IInv, IndexInv
  <2>6. FlashKnown
    <3>1. SUFFICES ASSUME NEW s \in Slots, NEW d \in Side, V(head'[s], body'[s], d)
                   PROVE  head'[s][d].val \in may[s] \cup prev[s]
      BY DEF FlashKnown
    <3>2. CASE s = slot /\ d = side
      BY <2>3, <3>1, <3>2 DEF IInv, SaveInv
    <3>3. CASE ~(s = slot /\ d = side)
      <4>1. head'[s][d] = head[s][d] /\ body'[s][d] = body[s][d]
        BY <1>1, <2>2, <3>3 DEF Side
      <4>2. QED
        BY <3>1, <4>1 DEF IInv, Known, V
    <3>4. QED
      BY <3>2, <3>3
  <2>7. QED
    BY <2>5, <2>6
<1>4. QED
  BY <1>2, <1>3

\* The same of an erase: the slot being wiped is accounted for by Known.
LEMMA WipeFlash ==
  ASSUME IInv, phase = "Wipe", UNCHANGED body,
         head' = [head EXCEPT ![slot][side] = Junk] \/ UNCHANGED head
  PROVE  /\ FlashFits /\ FlashKnown
         /\ V(head'[slot], body'[slot], 0) /\ V(head'[slot], body'[slot], 1)
              => head'[slot][0].seq # head'[slot][1].seq
<1>1. /\ slot \in Slots /\ side \in Side
      /\ head \in [Slots -> Heads] /\ body \in [Slots -> Bodies]
  BY DEF IInv, TypeOK, Heads, Bodies
<1>2. \A s \in Slots, d \in Side :
        /\ body'[s][d] = body[s][d]
        /\ head'[s][d] = head[s][d] \/ (s = slot /\ head'[s][d] = Junk)
        /\ s # slot => head'[s] = head[s] /\ body'[s] = body[s]
  BY <1>1 DEF Heads, Side
<1>3. \A s \in Slots, d \in Side :
        V(head'[s], body'[s], d) => V(head[s], body[s], d) /\ head'[s][d] = head[s][d]
  BY <1>2 DEF V
<1>4. FlashFits
  BY <1>2 DEF FlashFits, IInv, IndexInv, Wiping, Side
<1>5. FlashKnown
  BY <1>3 DEF FlashKnown, IInv, Known
<1>6. V(head[slot], body[slot], 0) /\ V(head[slot], body[slot], 1)
        => head[slot][0].seq # head[slot][1].seq
  BY <1>1, SlotView DEF IInv, SequencesDiffer, Side
<1>7. QED
  BY <1>1, <1>3, <1>4, <1>5, <1>6 DEF Side

\* Flash that fits the index satisfies what a restart relies on.
LEMMA FittingFlashIsDurable ==
  ASSUME IInv, TypeOK', FlashFits, FlashKnown, phase # "Off",
         \A s \in Slots : Wiping(s) =>
           (V(head'[s], body'[s], 0) /\ V(head'[s], body'[s], 1)
              => head'[s][0].seq # head'[s][1].seq)
  PROVE  /\ SequencesDiffer'
         /\ \A s \in Slots : RestartValue(s)' \in may[s]
<1>1. /\ head' \in [Slots -> Heads] /\ body' \in [Slots -> Bodies]
      /\ idx \in [Slots -> Index] /\ nextSeq \in Nat
  BY DEF IInv, TypeOK, Heads, Bodies, Index
<1>2. SlotsViewed'
  BY SlotViewInEveryState, PTL
<1>3. SUFFICES ASSUME NEW s \in Slots
               PROVE  /\ V(head'[s], body'[s], 0) /\ V(head'[s], body'[s], 1)
                           => head'[s][0].seq # head'[s][1].seq
                      /\ Read(ScanOf(head'[s], body'[s]), head'[s], body'[s]) \in may[s]
  BY <1>2 DEF SlotsViewed, SequencesDiffer, Side
<1>4. CASE ~Wiping(s)
  <2>1. SlotOK(head'[s], body'[s], idx[s], may[s], nextSeq)
    BY <1>4 DEF FlashFits
  <2>2. head'[s] \in Heads /\ body'[s] \in Bodies /\ idx[s] \in Index
    BY <1>1
  <2>3. QED
    BY <1>1, <2>1, <2>2, SlotRestart
<1>5. CASE Wiping(s)
  <2>1. \A d \in Side : V(head'[s], body'[s], d) => head'[s][d].val \in may[s]
    BY <1>5 DEF FlashKnown, IInv, WipeInv, Wiping
  <2>2. None \in may[s]
    BY <1>5 DEF IInv, WipeInv, Wiping
  <2>3. HasEntry(ScanOf(head'[s], body'[s])) =>
          /\ BestSide(ScanOf(head'[s], body'[s])) \in Side
          /\ V(head'[s], body'[s], BestSide(ScanOf(head'[s], body'[s])))
    BY DEF HasEntry, BestSide, ScanOf, Side, NoEntry
  <2>4. QED
    BY <1>5, <2>1, <2>2, <2>3 DEF Read
<1>6. QED
  BY <1>4, <1>5

\* A completed save leaves a record that any load and any restart selects.
LEMMA SlotFinished ==
  ASSUME NEW hd \in Heads, NEW bd \in Bodies, NEW ix \in Index,
         NEW my, NEW n \in Nat, SlotOK(hd, bd, ix, my, n),
         NEW hd2 \in Heads, NEW bd2 \in Bodies, NEW ix2 \in Index,
         NEW t, t = TargetOf(ix), NEW v,
         hd2[1 - t] = hd[1 - t], bd2[1 - t] = bd[1 - t], ix2[1 - t] = ix[1 - t],
         V(hd2, bd2, t), hd2[t].seq = n, hd2[t].val = v,
         ix2[t].valid, ix2[t].seq = n
  PROVE  /\ SlotOK(hd2, bd2, ix2, {v}, n + 1)
         /\ V(hd2, bd2, 1 - t) => hd2[1 - t].val = Read(ix, hd, bd)
<1>. DEFINE o == 1 - t
<1>1. /\ t \in Side /\ o \in Side /\ t # o
      /\ HasEntry(ix) => o = BestSide(ix)
      /\ ~HasEntry(ix) => o = 1
  BY TargetIsNotBest DEF SlotOK, Side, BestSide
<1>2. V(hd2, bd2, o) <=> V(hd, bd, o)
  BY DEF V
<1>3. V(hd, bd, o) =>
        HasEntry(ix) /\ ix[o].valid /\ hd[o].seq = ix[o].seq /\ ix[o].seq < n
  BY <1>1 DEF SlotOK, HasEntry, BestSide, Side
<1>4. ix[o].valid => ix[o].seq < n
  BY <1>1 DEF SlotOK
<1>5. ix[o].seq \in Nat
  BY <1>1 DEF Index, Entry
<1>6. BestSide(ix2) = t /\ HasEntry(ix2)
  BY <1>1, <1>4, <1>5 DEF BestSide, HasEntry, Side
<1>7. SlotOK(hd2, bd2, ix2, {v}, n + 1)
  BY <1>1, <1>2, <1>3, <1>4, <1>5, <1>6 DEF SlotOK, Side
<1>8. V(hd, bd, o) => hd[o].val = Read(ix, hd, bd)
  BY <1>1, <1>3 DEF Read
<1>9. QED
  BY <1>2, <1>7, <1>8

LEMMA FlashUnchanged ==
  ASSUME UNCHANGED sectors
  PROVE  /\ \A s \in Slots : RestartValue(s)' = RestartValue(s)
         /\ SequencesDiffer' <=> SequencesDiffer
  BY DEF sectors, RestartValue, ReadVia, Scan, Verifies, Intact, SequencesDiffer

-----------------------------------------------------------------------------
(***************************************************************************)
(* The invariant, one lemma for each kind of step.                         *)
(***************************************************************************)

LEMMA StartSaveStep ==
  ASSUME IInv, TypeOK', NEW s \in Slots, NEW v \in Vals, StartSave(s, v)
  PROVE  IInv'
<1>1. /\ UNCHANGED <<head, body, idx, nextSeq, prev>>
      /\ phase = "Idle" /\ phase' = "Erase" /\ slot' = s /\ val' = v /\ sect' = 0
      /\ side' = TargetOf(idx[s]) /\ nextSeq < MaxSeq
      /\ \A x \in Slots : may[x] \subseteq may'[x]
      /\ v \in may'[s]
  BY SlotView DEF StartSave, sectors, IInv, TypeOK
<1>2. DurableAcrossPowerCut' /\ SequencesDiffer'
  BY <1>1, FlashUnchanged DEF sectors, IInv, DurableAcrossPowerCut
<1>3. Known'
  BY <1>1 DEF IInv, Known, V
<1>4. IndexInv'
  <2>1. \A x \in Slots : SlotOK(head[x], body[x], idx[x], may[x], nextSeq)
    BY <1>1 DEF IInv, IndexInv, Wiping
  <2>2. \A x \in Slots : idx[x] \in Index /\ nextSeq \in Nat
    BY DEF IInv, TypeOK, Index
  <2>3. \A x \in Slots : SlotOK(head[x], body[x], idx[x], may'[x], nextSeq)
    BY <1>1, <2>1, <2>2, SlotMonotone
  <2>4. QED
    BY <1>1, <2>3 DEF IndexInv
<1>5. SaveInv' /\ WipeInv' /\ IdleInv'
  BY <1>1 DEF SaveInv, WipeInv, IdleInv
<1>6. QED
  BY <1>2, <1>3, <1>4, <1>5 DEF IInv

\* Steps of a commit up to its last write, and its failures: the index, the
\* sequence number and what a restart may bring back stay as they are.
LEMMA CommitStep ==
  ASSUME IInv, TypeOK', phase \in {"Erase", "Write"},
         phase' \in {"Erase", "Write", "Idle", "Off"},
         NEW content \in {Junk, Piece}, phase = "Erase" => content = Junk,
         SetSector(slot, side, sect, content) \/ UNCHANGED sectors,
         UNCHANGED history, phase' # "Off" => UNCHANGED <<idx, nextSeq>>
  PROVE  /\ Known' /\ SequencesDiffer' /\ DurableAcrossPowerCut'
         /\ IndexInv' /\ WipeInv'
<1>1. FlashFits /\ FlashKnown
  BY CommitFlash
<1>2. \A s \in Slots : ~Wiping(s)
  BY DEF Wiping
<1>3. SequencesDiffer' /\ DurableAcrossPowerCut'
  BY <1>1, <1>2, FittingFlashIsDurable DEF DurableAcrossPowerCut, history
<1>4. Known'
  BY <1>1 DEF FlashKnown, Known, history, V
<1>5. IndexInv'
  BY <1>1, <1>2 DEF FlashFits, IndexInv, history
<1>6. QED
  BY <1>3, <1>4, <1>5 DEF WipeInv

LEMMA EraseSectorStep ==
  ASSUME IInv, TypeOK', EraseSector PROVE IInv'
<1>1. Known' /\ SequencesDiffer' /\ DurableAcrossPowerCut' /\ IndexInv' /\ WipeInv'
  BY CommitStep DEF EraseSector
<1>2. SaveInv'
  <2>1. head'[slot][side] = Junk
    BY DEF EraseSector, SetSector, IInv, TypeOK, SaveInv
  <2>2. QED
    BY <2>1 DEF EraseSector, SaveInv, IInv, history
<1>3. QED
  BY <1>1, <1>2 DEF IInv, IdleInv, EraseSector

\* The record as far as it has been written, after one more write.
LEMMA ChunkWritten ==
  ASSUME IInv, phase = "Write", SetSector(slot, side, sect, Piece)
  PROVE  /\ head'[slot][side] = [seq |-> nextSeq, val |-> val]
         /\ \A k \in 1 .. sect : body'[slot][side][k] = val
<1>1. /\ slot \in Slots /\ side \in Side /\ sect \in 0 .. SectorsPerSide - 1
      /\ head \in [Slots -> Heads] /\ body \in [Slots -> Bodies]
      /\ SectorsPerSide \in Nat
  BY StoreAssumption DEF IInv, TypeOK, Heads, Bodies
<1>2. CASE sect = 0
  BY <1>1, <1>2 DEF SetSector, IInv, SaveInv, Heads, Piece
<1>3. CASE sect # 0
  <2>1. /\ head' = head /\ sect \in BodySectors
        /\ body' = [body EXCEPT ![slot][side][sect] = val]
    BY <1>1, <1>3 DEF SetSector, Piece, BodySectors
  <2>2. body'[slot][side] = [body[slot][side] EXCEPT ![sect] = val]
    BY <1>1, <2>1 DEF Bodies
  <2>3. body[slot][side] \in [BodySectors -> Vals \cup {Junk}]
    BY <1>1 DEF Bodies
  <2>4. ASSUME NEW k \in 1 .. sect PROVE body'[slot][side][k] = val
    <3>1. k \in BodySectors
      BY <1>1, <2>1 DEF BodySectors
    <3>2. CASE k = sect
      BY <2>1, <2>2, <2>3, <3>2
    <3>3. CASE k # sect
      <4>1. k \in 1 .. sect - 1
        BY <1>1, <3>3
      <4>2. body[slot][side][k] = val
        BY <4>1 DEF IInv, SaveInv
      <4>3. QED
        BY <2>2, <2>3, <3>1, <3>3, <4>2
    <3>4. QED
      BY <3>2, <3>3
  <2>5. QED
    BY <1>3, <2>1, <2>4 DEF IInv, SaveInv
<1>4. QED
  BY <1>2, <1>3

LEMMA WriteSectorStep ==
  ASSUME IInv, TypeOK', WriteSector PROVE IInv'
<1>1. Known' /\ SequencesDiffer' /\ DurableAcrossPowerCut' /\ IndexInv' /\ WipeInv'
  BY CommitStep DEF WriteSector
<1>2. SaveInv'
  <2>1. /\ head'[slot][side] = [seq |-> nextSeq, val |-> val]
        /\ \A k \in 1 .. sect : body'[slot][side][k] = val
    BY ChunkWritten DEF WriteSector
  <2>2. sect \in Nat
    BY DEF IInv, TypeOK
  <2>3. QED
    BY <2>1, <2>2 DEF WriteSector, SaveInv, IInv, history
<1>3. QED
  BY <1>1, <1>2 DEF IInv, IdleInv, WriteSector

LEMMA CommitFailsStep ==
  ASSUME IInv, TypeOK', EraseSectorFails \/ WriteSectorFails PROVE IInv'
<1>1. PICK content \in {Junk, Piece} :
        /\ phase = "Erase" => content = Junk
        /\ SetSector(slot, side, sect, content) \/ UNCHANGED sectors
  BY DEF EraseSectorFails, WriteSectorFails
<1>2. /\ phase \in {"Erase", "Write"} /\ phase' = "Idle" /\ side' = 0 /\ ok' = TRUE
      /\ UNCHANGED <<history, idx, nextSeq>>
  BY DEF EraseSectorFails, WriteSectorFails, Stop
<1>3. Known' /\ SequencesDiffer' /\ DurableAcrossPowerCut' /\ IndexInv' /\ WipeInv'
  BY <1>1, <1>2, CommitStep
<1>4. QED
  BY <1>2, <1>3 DEF IInv, IdleInv, SaveInv

LEMMA FinishSaveStep ==
  ASSUME IInv, TypeOK', FinishSave PROVE IInv'
<1>. DEFINE other == 1 - side
<1>1. /\ slot \in Slots /\ side \in Side /\ val \in Vals /\ nextSeq \in Nat
      /\ sect \in 0 .. SectorsPerSide - 1 /\ phase = "Write"
      /\ head \in [Slots -> Heads] /\ body \in [Slots -> Bodies]
      /\ idx \in [Slots -> Index]
      /\ head' \in [Slots -> Heads] /\ body' \in [Slots -> Bodies]
      /\ idx' \in [Slots -> Index]
      /\ RecLen[val] = sect + 1
      /\ SetSector(slot, side, sect, Piece)
  BY StoreAssumption DEF IInv, TypeOK, Heads, Bodies, Index, FinishSave
<1>2. /\ phase' = "Idle" /\ side' = 0 /\ ok' = TRUE /\ nextSeq' = nextSeq + 1
      /\ idx' = [idx EXCEPT ![slot][side] = [valid |-> TRUE, seq |-> nextSeq]]
      /\ \A s \in Slots : s # slot => may'[s] = may[s] /\ prev'[s] = prev[s]
      /\ may'[slot] = {val} /\ prev'[slot] = {Peek(slot)}
  BY <1>1 DEF FinishSave, Stop, IInv, TypeOK
<1>3. /\ \A s \in Slots : s # slot => head'[s] = head[s] /\ body'[s] = body[s]
      /\ head'[slot][other] = head[slot][other]
      /\ body'[slot][other] = body[slot][other]
  BY <1>1 DEF SetSector, Heads, Bodies, Side
<1>4. /\ \A s \in Slots : s # slot => idx'[s] = idx[s]
      /\ idx'[slot][other] = idx[slot][other]
      /\ idx'[slot][side] = [valid |-> TRUE, seq |-> nextSeq]
  BY <1>1, <1>2 DEF Index, Side
<1>5. /\ head'[slot][side] = [seq |-> nextSeq, val |-> val]
      /\ \A k \in 1 .. sect : body'[slot][side][k] = val
  BY <1>1, ChunkWritten
<1>6. \A k \in 1 .. RecLen[val] - 1 : body'[slot][side][k] = val
  BY <1>1, <1>5
<1>7. V(head'[slot], body'[slot], side)
  <2>1. head'[slot][side] # Junk
    BY <1>1, <1>5, StoreAssumption
  <2>2. QED
    BY <1>5, <1>6, <2>1 DEF V
<1>8. \A s \in Slots : SlotOK(head[s], body[s], idx[s], may[s], nextSeq)
  BY <1>1 DEF IInv, IndexInv, Wiping
<1>9. /\ SlotOK(head'[slot], body'[slot], idx'[slot], {val}, nextSeq + 1)
      /\ V(head'[slot], body'[slot], other) => head'[slot][other].val = Peek(slot)
  <2>. DEFINE hd == head[slot]   bd == body[slot]   ix == idx[slot]
              hd2 == head'[slot] bd2 == body'[slot] ix2 == idx'[slot]
              my == may[slot]
  <2>1. /\ hd \in Heads /\ bd \in Bodies /\ ix \in Index /\ nextSeq \in Nat
        /\ hd2 \in Heads /\ bd2 \in Bodies /\ ix2 \in Index
    BY <1>1
  <2>2. /\ side = TargetOf(ix)
        /\ SlotOK(hd, bd, ix, my, nextSeq)
    BY <1>1, <1>8 DEF IInv, SaveInv
  <2>3. /\ hd2[1 - side] = hd[1 - side] /\ bd2[1 - side] = bd[1 - side]
        /\ ix2[1 - side] = ix[1 - side]
    BY <1>3, <1>4
  <2>4. /\ V(hd2, bd2, side) /\ hd2[side].seq = nextSeq /\ hd2[side].val = val
        /\ ix2[side].valid /\ ix2[side].seq = nextSeq
    BY <1>4, <1>5, <1>7
  <2>5. Peek(slot) = Read(ix, hd, bd)
    BY <1>1, SlotView DEF IInv
  <2>. HIDE DEF hd, bd, ix, hd2, bd2, ix2, my
  <2>6. /\ SlotOK(hd2, bd2, ix2, {val}, nextSeq + 1)
        /\ V(hd2, bd2, 1 - side) => hd2[1 - side].val = Read(ix, hd, bd)
    BY <2>1, <2>2, <2>3, <2>4, SlotFinished
  <2>7. QED
    BY <2>5, <2>6 DEF hd, bd, ix, hd2, bd2, ix2
<1>10. ASSUME NEW s \in Slots
       PROVE  SlotOK(head'[s], body'[s], idx'[s], may'[s], nextSeq')
  <2>1. CASE s = slot
    BY <1>2, <1>9, <2>1
  <2>2. CASE s # slot
    <3>1. SlotOK(head[s], body[s], idx[s], may[s], nextSeq + 1)
      BY <1>1, <1>8, SlotMonotone
    <3>2. QED
      BY <1>2, <1>3, <1>4, <2>2, <3>1
  <2>3. QED
    BY <2>1, <2>2
<1>11. IndexInv'
  BY <1>10 DEF IndexInv
<1>12. Known'
  <2>1. SUFFICES ASSUME NEW s \in Slots, NEW d \in Side, V(head'[s], body'[s], d)
                 PROVE  head'[s][d].val \in may'[s] \cup prev'[s]
    BY DEF Known, V
  <2>2. CASE s # slot
    BY <1>2, <1>3, <2>1, <2>2 DEF IInv, Known
  <2>3. CASE s = slot /\ d = side
    BY <1>2, <1>5, <2>3
  <2>4. CASE s = slot /\ d # side
    <3>1. d = other
      BY <1>1, <2>4 DEF Side
    <3>2. QED
      BY <1>2, <1>9, <2>1, <2>4, <3>1
  <2>5. QED
    BY <2>2, <2>3, <2>4
<1>13. SequencesDiffer' /\ DurableAcrossPowerCut'
  <2>1. SlotsViewed'
    BY SlotViewInEveryState, PTL
  <2>2. SUFFICES ASSUME NEW s \in Slots
                 PROVE  /\ V(head'[s], body'[s], 0) /\ V(head'[s], body'[s], 1)
                             => head'[s][0].seq # head'[s][1].seq
                        /\ Read(ScanOf(head'[s], body'[s]), head'[s], body'[s]) \in may'[s]
    BY <2>1 DEF SlotsViewed, SequencesDiffer, DurableAcrossPowerCut, Side
  <2>3. /\ head'[s] \in Heads /\ body'[s] \in Bodies /\ idx'[s] \in Index
        /\ nextSeq' \in Nat
    BY <1>1, <1>2
  <2>4. QED
    BY <1>10, <2>3, SlotRestart
<1>14. QED
  BY <1>2, <1>11, <1>12, <1>13 DEF IInv, SaveInv, WipeInv, IdleInv

LEMMA StartWipeStep ==
  ASSUME IInv, TypeOK', NEW s \in Slots, StartWipe(s)
  PROVE  IInv'
<1>1. /\ UNCHANGED <<head, body, idx, nextSeq, prev>>
      /\ phase = "Idle" /\ phase' = "Wipe" /\ slot' = s /\ side' = 0 /\ ok' = TRUE
      /\ \A x \in Slots : may[x] \subseteq may'[x]
      /\ prev[s] \cup {None} \subseteq may'[s]
  BY DEF StartWipe, sectors, IInv, TypeOK, IdleInv
<1>2. DurableAcrossPowerCut' /\ SequencesDiffer'
  BY <1>1, FlashUnchanged DEF sectors, IInv, DurableAcrossPowerCut
<1>3. Known'
  BY <1>1 DEF IInv, Known, V
<1>4. IndexInv'
  <2>1. \A x \in Slots : SlotOK(head[x], body[x], idx[x], may[x], nextSeq)
    BY <1>1 DEF IInv, IndexInv, Wiping
  <2>2. \A x \in Slots : idx[x] \in Index /\ nextSeq \in Nat
    BY DEF IInv, TypeOK, Index
  <2>3. \A x \in Slots : SlotOK(head[x], body[x], idx[x], may'[x], nextSeq)
    BY <1>1, <2>1, <2>2, SlotMonotone
  <2>4. QED
    BY <1>1, <2>3 DEF IndexInv
<1>5. SaveInv' /\ WipeInv' /\ IdleInv'
  BY <1>1 DEF SaveInv, WipeInv, IdleInv
<1>6. QED
  BY <1>2, <1>3, <1>4, <1>5 DEF IInv

LEMMA WipeSideStep ==
  ASSUME IInv, TypeOK', WipeSide PROVE IInv'
<1>1. /\ phase = "Wipe" /\ slot \in Slots /\ side \in Side /\ ok = TRUE
      /\ UNCHANGED <<body, nextSeq>>
      /\ head' = [head EXCEPT ![slot][side] = Junk]
      /\ idx' = [idx EXCEPT ![slot][side] = NoEntry]
      /\ head \in [Slots -> Heads] /\ body \in [Slots -> Bodies]
      /\ idx \in [Slots -> Index]
      /\ nextSeq \in Nat
      /\ WipeNext(TRUE)
  BY DEF WipeSide, IInv, TypeOK, WipeInv, Heads, Bodies, Index
<1>2. FlashFits /\ FlashKnown
  BY <1>1, WipeFlash
<1>3. V(head'[slot], body'[slot], 0) /\ V(head'[slot], body'[slot], 1)
        => head'[slot][0].seq # head'[slot][1].seq
  BY <1>1, WipeFlash
<1>4. SequencesDiffer' /\ \A s \in Slots : RestartValue(s)' \in may[s]
  BY <1>1, <1>2, <1>3, FittingFlashIsDurable DEF Wiping
<1>5. \A s \in Slots : s # slot =>
        idx'[s] = idx[s] /\ SlotOK(head'[s], body'[s], idx[s], may[s], nextSeq)
  BY <1>1, <1>2 DEF FlashFits, Wiping, Index
<1>6. /\ head'[slot][side] = Junk /\ idx'[slot][side] = NoEntry
      /\ side = 1 => head'[slot][0] = Junk /\ idx'[slot][0] = NoEntry
  BY <1>1 DEF IInv, WipeInv, Heads, Index, Side
<1>7. CASE side = 0
  <2>1. UNCHANGED history /\ phase' = "Wipe" /\ slot' = slot /\ side' = 1 /\ ok' = TRUE
    BY <1>1, <1>7 DEF WipeNext
  <2>2. QED
    BY <1>1, <1>2, <1>4, <1>5, <1>6, <1>7, <2>1
       DEF IInv, Known, FlashKnown, DurableAcrossPowerCut, IndexInv, SaveInv,
           WipeInv, IdleInv, Wiping, history, V
<1>8. CASE side = 1
  <2>1. /\ phase' = "Idle" /\ side' = 0 /\ ok' = TRUE
        /\ may' = [may EXCEPT ![slot] = {None}]
        /\ prev' = [prev EXCEPT ![slot] = {}]
    BY <1>1, <1>8 DEF WipeNext, Stop
  <2>2. /\ may'[slot] = {None}
        /\ \A s \in Slots : s # slot => may'[s] = may[s] /\ prev'[s] = prev[s]
    BY <1>1, <2>1 DEF IInv, TypeOK
  <2>3. ~V(head'[slot], body'[slot], 0) /\ ~V(head'[slot], body'[slot], 1)
    BY <1>6, <1>8 DEF V
  <2>4. SlotOK(head'[slot], body'[slot], idx'[slot], {None}, nextSeq)
    BY <1>6, <1>8, <2>3 DEF SlotOK, HasEntry, NoEntry, Side
  <2>5. IndexInv'
    BY <1>1, <1>5, <2>1, <2>2, <2>4 DEF IndexInv
  <2>6. Known'
    BY <1>2, <2>2, <2>3 DEF Known, FlashKnown, Side, V
  <2>7. \A s \in Slots : s = slot => RestartValue(s)' = None
    <3>1. SlotsViewed'
      BY SlotViewInEveryState, PTL
    <3>2. ~HasEntry(ScanOf(head'[slot], body'[slot]))
      BY <2>3 DEF ScanOf, HasEntry, Side, NoEntry
    <3>3. QED
      BY <1>1, <3>1, <3>2 DEF SlotsViewed, Read
  <2>8. DurableAcrossPowerCut'
    BY <1>4, <2>2, <2>7 DEF DurableAcrossPowerCut
  <2>9. QED
    BY <1>4, <2>1, <2>5, <2>6, <2>8 DEF IInv, SaveInv, WipeInv, IdleInv
<1>9. QED
  BY <1>1, <1>7, <1>8 DEF Side

LEMMA PowerCutStep ==
  ASSUME IInv, TypeOK', PowerCut PROVE IInv'
<1>1. phase # "Off" /\ phase' = "Off" /\ side' = 0 /\ ok' = TRUE /\ UNCHANGED history
  BY DEF PowerCut, Stop
<1>2. SequencesDiffer' /\ DurableAcrossPowerCut' /\ Known'
  <2>1. CASE UNCHANGED sectors
    BY <1>1, <2>1, FlashUnchanged
       DEF IInv, DurableAcrossPowerCut, Known, V, history, sectors
  <2>2. CASE phase \in {"Erase", "Write"} /\ ~UNCHANGED sectors
    <3>1. PICK content \in {Junk, Piece} :
            /\ phase = "Erase" => content = Junk
            /\ SetSector(slot, side, sect, content)
      BY <2>2 DEF PowerCut, Cut
    <3>2. QED
      BY <1>1, <2>2, <3>1, CommitStep
  <2>3. CASE phase = "Wipe" /\ ~UNCHANGED sectors
    <3>1. UNCHANGED body /\ head' = [head EXCEPT ![slot][side] = Junk]
      BY <2>3 DEF PowerCut, Cut, SetSector
    <3>2. FlashFits /\ FlashKnown
      BY <2>3, <3>1, WipeFlash
    <3>3. V(head'[slot], body'[slot], 0) /\ V(head'[slot], body'[slot], 1)
            => head'[slot][0].seq # head'[slot][1].seq
      BY <2>3, <3>1, WipeFlash
    <3>4. SequencesDiffer' /\ \A s \in Slots : RestartValue(s)' \in may[s]
      BY <2>3, <3>2, <3>3, FittingFlashIsDurable DEF Wiping
    <3>5. QED
      BY <1>1, <3>2, <3>4 DEF DurableAcrossPowerCut, Known, FlashKnown, history, V
  <2>4. QED
    BY <1>1, <2>1, <2>2, <2>3 DEF PowerCut, Cut
<1>3. QED
  BY <1>1, <1>2 DEF IInv, IndexInv, SaveInv, WipeInv, IdleInv, Wiping

LEMMA BootStep ==
  ASSUME IInv, TypeOK', StoreBoot PROVE IInv'
<1>1. /\ phase' = "Idle" /\ side' = 0 /\ ok' = TRUE /\ UNCHANGED <<head, body>>
      /\ idx' = Scan
      /\ \A s \in Slots : may'[s] = {RestartValue(s)}
      /\ \A s \in Slots : prev'[s] = prev[s] \cup may[s]
      /\ nextSeq' \in Nat /\ FollowsAll(nextSeq')
  BY DEF StoreBoot, Stop, sectors
<1>2. DurableAcrossPowerCut' /\ SequencesDiffer'
  BY <1>1, FlashUnchanged DEF IInv, DurableAcrossPowerCut, sectors
<1>3. Known'
  BY <1>1 DEF IInv, Known, V
<1>4. IndexInv'
  <2>1. SUFFICES ASSUME NEW s \in Slots
                 PROVE  SlotOK(head[s], body[s], Scan[s], {RestartValue(s)}, nextSeq')
    BY <1>1 DEF IndexInv
  <2>2. /\ \A d \in Side : /\ Verifies(s, d) <=> V(head[s], body[s], d)
                           /\ Intact(s, d) <=> V(head[s], body[s], d)
        /\ Scan[s] = ScanOf(head[s], body[s])
        /\ RestartValue(s) = Read(ScanOf(head[s], body[s]), head[s], body[s])
    BY SlotView DEF IInv
  <2>3. \A d \in Side :
          /\ ScanOf(head[s], body[s])[d].valid <=> V(head[s], body[s], d)
          /\ V(head[s], body[s], d) =>
               /\ ScanOf(head[s], body[s])[d].seq = head[s][d].seq
               /\ head[s][d].seq < nextSeq'
    BY <1>1, <2>2 DEF ScanOf, NoEntry, FollowsAll
  <2>4. V(head[s], body[s], 0) /\ V(head[s], body[s], 1)
          => head[s][0].seq # head[s][1].seq
    BY <2>2 DEF IInv, SequencesDiffer, Side
  <2>5. QED
    BY <2>2, <2>3, <2>4 DEF SlotOK, HasEntry, BestSide, Read, Side
<1>5. QED
  BY <1>1, <1>2, <1>3, <1>4 DEF IInv, SaveInv, WipeInv, IdleInv

-----------------------------------------------------------------------------
(***************************************************************************)
(* As long as EraseSlot's own erases do not fail, the invariant holds      *)
(* through any failures of a commit's flash calls and any power cuts.      *)
(***************************************************************************)
LEMMA Inductive ==
  ASSUME "wipe" \notin Faults
  PROVE  StoreSpec => []IInv
<1>1. StoreInit => IInv
  <2> SUFFICES ASSUME StoreInit PROVE IInv
    OBVIOUS
  <2>1. TypeOK
    BY DEF StoreInit, TypeOK, Entry, NoEntry, Side
  <2>2. \A s \in Slots, d \in Side : ~V(head[s], body[s], d) /\ ~Verifies(s, d) /\ ~Intact(s, d)
    BY DEF StoreInit, V, Verifies, Intact
  <2>3. \A s \in Slots : RestartValue(s) = None
    BY <2>2 DEF RestartValue, ReadVia, Scan, Intact, HasEntry, NoEntry, Side
  <2>4. IndexInv
    BY <2>2 DEF IndexInv, SlotOK, HasEntry, StoreInit, NoEntry, Side
  <2>5. QED
    BY <2>1, <2>2, <2>3, <2>4
       DEF IInv, Known, SequencesDiffer, DurableAcrossPowerCut, SaveInv, WipeInv,
           IdleInv, StoreInit, Side
<1>2. IInv /\ [StoreNext]_storeVars => IInv'
  <2> SUFFICES ASSUME IInv, [StoreNext]_storeVars PROVE IInv'
    OBVIOUS
  <2>1. TypeOK'
    BY TypeStep DEF IInv
  <2>2. ASSUME NEW s \in Slots, NEW v \in Vals, StartSave(s, v) PROVE IInv'
    BY <2>1, <2>2, StartSaveStep
  <2>3. CASE EraseSector
    BY <2>1, <2>3, EraseSectorStep
  <2>4. CASE WriteSector
    BY <2>1, <2>4, WriteSectorStep
  <2>5. CASE EraseSectorFails \/ WriteSectorFails
    BY <2>1, <2>5, CommitFailsStep
  <2>6. CASE FinishSave
    BY <2>1, <2>6, FinishSaveStep
  <2>7. ASSUME NEW s \in Slots, StartWipe(s) PROVE IInv'
    BY <2>1, <2>7, StartWipeStep
  <2>8. CASE WipeSide
    BY <2>1, <2>8, WipeSideStep
  <2>9. CASE WipeSideFails
    BY <2>9 DEF WipeSideFails
  <2>10. CASE PowerCut
    BY <2>1, <2>10, PowerCutStep
  <2>11. CASE StoreBoot
    BY <2>1, <2>11, BootStep
  <2>12. CASE UNCHANGED storeVars
    BY <2>1, <2>12, FlashUnchanged
       DEF storeVars, sectors, call, history, IInv, Known, V, DurableAcrossPowerCut,
           IndexInv, SaveInv, WipeInv, IdleInv, Wiping
  <2>13. QED
    BY <2>2, <2>3, <2>4, <2>5, <2>6, <2>7, <2>8, <2>9, <2>10, <2>11, <2>12 DEF StoreNext
<1>3. QED
  BY <1>1, <1>2, PTL DEF StoreSpec

\* Power may be lost at any point of any call, and any flash call of a commit
\* may fail: a restart still finds the last acknowledged preset of every slot,
\* or one whose save was begun later.
THEOREM SavesSurvivePowerCuts ==
  ASSUME "wipe" \notin Faults
  PROVE  StoreSpec => []DurableAcrossPowerCut
<1>1. IInv => DurableAcrossPowerCut
  BY DEF IInv
<1>2. QED
  BY <1>1, Inductive, PTL

\* HasValid never answers for a record that does not verify.
THEOREM IndexNeverLies ==
  ASSUME "wipe" \notin Faults
  PROVE  StoreSpec => []HasValidIsVerified
<1>1. IInv => HasValidIsVerified
  <2> SUFFICES ASSUME IInv, phase # "Off", NEW s \in Slots, HasEntry(idx[s]), ~Wiping(s)
               PROVE  /\ Intact(s, BestSide(idx[s]))
                      /\ head[s][BestSide(idx[s])].seq = idx[s][BestSide(idx[s])].seq
    BY DEF HasValidIsVerified
  <2>1. BestSide(idx[s]) \in Side
    BY DEF BestSide, Side
  <2>2. QED
    BY <2>1, SlotView DEF IInv, IndexInv, SlotOK
<1>2. QED
  BY <1>1, Inductive, PTL

\* The two sides of a slot are never left undecided between.
THEOREM ScanIsDecisive ==
  ASSUME "wipe" \notin Faults
  PROVE  StoreSpec => []SequencesDiffer
<1>1. IInv => SequencesDiffer
  BY DEF IInv
<1>2. QED
  BY <1>1, Inductive, PTL

-----------------------------------------------------------------------------
(***************************************************************************)
(* The store implements the register.                                      *)
(***************************************************************************)
PeekViewed == \A s \in Slots : Peek(s) = Read(idx[s], head[s], body[s])

LEMMA PeekViewInEveryState == TypeOK => PeekViewed
  BY SlotView DEF PeekViewed

\* A commit never touches the record that a load delivers.
LEMMA CommitKeepsLoaded ==
  ASSUME IInv, phase \in {"Erase", "Write"}, NEW content,
         SetSector(slot, side, sect, content) \/ UNCHANGED sectors,
         NEW s \in Slots
  PROVE  Read(idx[s], head'[s], body'[s]) = Read(idx[s], head[s], body[s])
<1>1. /\ slot \in Slots /\ side \in Side /\ idx[s] \in Index
      /\ head \in [Slots -> Heads] /\ body \in [Slots -> Bodies]
      /\ SlotOK(head[s], body[s], idx[s], may[s], nextSeq)
      /\ side = TargetOf(idx[slot])
  BY DEF IInv, TypeOK, Heads, Bodies, Index, IndexInv, SaveInv, Wiping
<1>2. HasEntry(idx[s]) /\ s = slot => BestSide(idx[s]) # side
  BY <1>1, TargetIsNotBest DEF SlotOK
<1>3. \A d \in Side : ~(s = slot /\ d = side) =>
        (head'[s][d] = head[s][d] /\ body'[s][d] = body[s][d])
  BY <1>1 DEF SetSector, sectors, Heads, Bodies, Side
<1>4. BestSide(idx[s]) \in Side
  BY DEF BestSide, Side
<1>5. QED
  BY <1>2, <1>3, <1>4 DEF Read, V

\* Steps between the beginning and the end of a save are invisible.
LEMMA CommitStutters ==
  ASSUME IInv, TypeOK', phase \in {"Erase", "Write"}, phase' \in {"Erase", "Write", "Idle"},
         NEW content, SetSector(slot, side, sect, content) \/ UNCHANGED sectors,
         UNCHANGED <<idx, history>>
  PROVE  UNCHANGED Register!vars
<1>1. \A s \in Slots : ~Wiping(s) /\ ~Wiping(s)'
  BY DEF Wiping
<1>2. PeekViewed /\ PeekViewed'
  BY PeekViewInEveryState, PTL DEF IInv
<1>3. \A s \in Slots : Peek(s)' = Peek(s)
  BY <1>2, CommitKeepsLoaded DEF PeekViewed
<1>4. Shown' = Shown
  BY <1>1, <1>3 DEF Shown
<1>5. QED
  BY <1>4 DEF Register!vars, history

LEMMA RegisterInit ==
  ASSUME StoreInit PROVE Register!Init
<1>1. \A s \in Slots : Peek(s) = None
  BY DEF StoreInit, Peek, ReadVia, HasEntry, NoEntry, Side
<1>2. Shown = [s \in Slots |-> None]
  BY <1>1 DEF Shown
<1>3. (phase # "Off") = TRUE
  BY DEF StoreInit
<1>4. QED
  BY <1>2, <1>3 DEF StoreInit, Register!Init

\* Every step of the store is a step of the register, or invisible to it.
LEMMA RegisterStep ==
  ASSUME "wipe" \notin Faults, IInv, IInv', [StoreNext]_storeVars
  PROVE  [Register!Next]_(Register!vars)
<1>1. PeekViewed /\ PeekViewed'
  BY PeekViewInEveryState, PTL DEF IInv
<1>2. ASSUME NEW s \in Slots, NEW v \in Vals, StartSave(s, v)
      PROVE  Register!Begin(s, v)
  <2>1. /\ UNCHANGED <<head, body, idx>> /\ phase = "Idle" /\ phase' = "Erase"
        /\ UNCHANGED prev /\ may' = [may EXCEPT ![s] = @ \cup {v}]
    BY <1>2 DEF StartSave, sectors
  <2>2. Shown' = Shown
    BY <1>1, <2>1 DEF PeekViewed, Shown, Wiping, Read, V
  <2>3. QED
    BY <2>1, <2>2 DEF Register!Begin
<1>3. CASE EraseSector \/ WriteSector \/ EraseSectorFails \/ WriteSectorFails
  <2>1. /\ phase \in {"Erase", "Write"} /\ phase' \in {"Erase", "Write", "Idle"}
        /\ UNCHANGED <<idx, history>>
        /\ \E content : SetSector(slot, side, sect, content) \/ UNCHANGED sectors
    BY <1>3 DEF EraseSector, WriteSector, EraseSectorFails, WriteSectorFails, Stop
  <2>2. QED
    BY <2>1, CommitStutters DEF IInv
<1>4. CASE FinishSave
  <2>1. /\ slot \in Slots /\ phase = "Write" /\ phase' = "Idle" /\ val \in Vals
        /\ \A s \in Slots : ~Wiping(s) /\ ~Wiping(s)'
        /\ val \in may[slot]
        /\ may' = [may EXCEPT ![slot] = {val}]
        /\ prev' = [prev EXCEPT ![slot] = {Peek(slot)}]
        /\ SetSector(slot, side, sect, Piece)
    BY <1>4 DEF FinishSave, Stop, IInv, TypeOK, SaveInv, Wiping
  <2>2. \A s \in Slots : s # slot => Peek(s)' = Peek(s)
    <3>1. \A s \in Slots : Read(idx[s], head'[s], body'[s]) = Read(idx[s], head[s], body[s])
      BY <2>1, CommitKeepsLoaded
    <3>2. \A s \in Slots : s # slot => idx'[s] = idx[s]
      BY <1>4, <2>1 DEF FinishSave, IInv, TypeOK
    <3>3. QED
      BY <1>1, <3>1, <3>2 DEF PeekViewed
  <2>3. \A s \in Slots : s = slot => Peek(s)' = val
    <3>1. /\ HasEntry(idx'[slot])
          /\ SlotOK(head'[slot], body'[slot], idx'[slot], may'[slot], nextSeq')
      <4>1. idx'[slot][side].valid
        BY <1>4, <2>1 DEF FinishSave, IInv, TypeOK
      <4>2. side \in Side
        BY DEF IInv, TypeOK
      <4>3. QED
        BY <2>1, <4>1, <4>2 DEF IInv, IndexInv, HasEntry, Side
    <3>2. may'[slot] = {val}
      BY <2>1 DEF IInv, TypeOK
    <3>3. QED
      BY <1>1, <2>1, <3>1, <3>2 DEF PeekViewed, Read, SlotOK
  <2>4. Shown' = [Shown EXCEPT ![slot] = val] /\ Shown[slot] = Peek(slot)
    BY <2>1, <2>2, <2>3 DEF Shown
  <2>5. Register!Finish(slot, val)
    BY <2>1, <2>4 DEF Register!Finish
  <2>6. QED
    BY <2>1, <2>5 DEF Register!Next
<1>5. ASSUME NEW s \in Slots, StartWipe(s)
      PROVE  Register!Discard(s)
  <2>1. /\ UNCHANGED <<head, body, idx, prev>> /\ phase = "Idle" /\ phase' = "Wipe" /\ slot' = s
        /\ may' = [may EXCEPT ![s] = @ \cup prev[s] \cup {None}]
    BY <1>5 DEF StartWipe, sectors
  <2>2. \A x \in Slots : Peek(x)' = Peek(x)
    BY <1>1, <2>1 DEF PeekViewed, Read, V
  <2>3. Shown' = [Shown EXCEPT ![s] = None]
    BY <2>1, <2>2 DEF Shown, Wiping
  <2>4. QED
    BY <2>1, <2>3 DEF Register!Discard
<1>6. CASE WipeSide
  <2>1. /\ slot \in Slots /\ side \in Side /\ phase = "Wipe" /\ ok = TRUE
        /\ UNCHANGED body
        /\ \A s \in Slots : s # slot => head'[s] = head[s] /\ idx'[s] = idx[s]
        /\ idx'[slot][side] = NoEntry
        /\ side = 1 => idx'[slot][0] = NoEntry
        /\ WipeNext(TRUE)
    BY <1>6, ZenonT(60) DEF WipeSide, IInv, TypeOK, WipeInv, Side
  <2>2. \A s \in Slots : s # slot => Peek(s)' = Peek(s)
    BY <1>1, <2>1 DEF PeekViewed
  <2>3. CASE side = 0
    <3>1. UNCHANGED history /\ phase' = "Wipe" /\ slot' = slot
      BY <2>1, <2>3 DEF WipeNext
    <3>2. Shown' = Shown
      BY <2>1, <2>2, <3>1 DEF Shown, Wiping
    <3>3. QED
      BY <2>1, <3>1, <3>2 DEF Register!vars, history
  <2>4. CASE side = 1
    <3>1. /\ phase' = "Idle" /\ may' = [may EXCEPT ![slot] = {None}]
          /\ prev' = [prev EXCEPT ![slot] = {}]
      BY <2>1, <2>4 DEF WipeNext, Stop
    <3>2. \A s \in Slots : s = slot => Peek(s)' = None
      BY <1>1, <2>1, <2>4 DEF PeekViewed, Read, HasEntry, NoEntry
    <3>3. Shown' = Shown /\ Shown[slot] = None
      BY <2>1, <2>2, <3>1, <3>2 DEF Shown, Wiping
    <3>4. None \in may[slot]
      BY <2>1 DEF IInv, WipeInv
    <3>5. Register!Discarded(slot)
      BY <2>1, <3>1, <3>3, <3>4 DEF Register!Discarded
    <3>6. QED
      BY <2>1, <3>5 DEF Register!Next
  <2>5. QED
    BY <2>1, <2>3, <2>4 DEF Side
<1>7. CASE PowerCut
  <2>1. phase # "Off" /\ phase' = "Off" /\ UNCHANGED <<may, prev>>
    BY <1>7 DEF PowerCut, Stop, history
  <2>2. Shown' = [s \in Slots |-> None]
    BY <2>1 DEF Shown
  <2>3. Register!PowerCut
    BY <2>1, <2>2 DEF Register!PowerCut
  <2>4. QED
    BY <2>3 DEF Register!Next
<1>8. CASE StoreBoot
  <2>1. /\ phase = "Off" /\ phase' = "Idle" /\ UNCHANGED <<head, body>> /\ idx' = Scan
        /\ may' = [s \in Slots |-> {RestartValue(s)}]
        /\ prev' = [s \in Slots |-> prev[s] \cup may[s]]
    BY <1>8 DEF StoreBoot, Stop, sectors
  <2>2. SlotsViewed
    BY SlotViewInEveryState DEF IInv
  <2>3. \A s \in Slots : Scan[s] = ScanOf(head[s], body[s]) /\ head[s] \in Heads
    BY SlotView DEF IInv, TypeOK, Heads
  <2>4. \A s \in Slots : Peek(s)' = RestartValue(s)
    BY <1>1, <2>1, <2>2, <2>3 DEF PeekViewed, SlotsViewed
  <2>5. \A s \in Slots : RestartValue(s) \in Vals \cup {None} /\ RestartValue(s) \in may[s]
    BY <2>2, <2>3, ScanReadsPreset DEF SlotsViewed, IInv, DurableAcrossPowerCut
  <2>6. Shown' = [s \in Slots |-> RestartValue(s)]
    BY <2>1, <2>4 DEF Shown, Wiping
  <2>7. Register!Restart
    <3>. DEFINE choice == [s \in Slots |-> RestartValue(s)]
    <3>1. /\ choice \in [Slots -> Vals \cup {None}]
          /\ \A s \in Slots : choice[s] \in may[s]
          /\ Shown' = choice
          /\ may' = [s \in Slots |-> {choice[s]}]
      BY <2>1, <2>5, <2>6
    <3>. HIDE DEF choice
    <3>2. (phase # "Off") = FALSE /\ (phase' # "Off") = TRUE
      BY <2>1
    <3>3. QED
      BY <2>1, <3>1, <3>2 DEF Register!Restart
  <2>8. QED
    BY <2>7 DEF Register!Next
<1>9. CASE UNCHANGED storeVars
  <2>1. UNCHANGED <<head, body, idx, phase, slot, may, prev>>
    BY <1>9 DEF storeVars, sectors, call, history
  <2>2. Shown' = Shown
    BY <1>1, <2>1 DEF PeekViewed, Shown, Wiping, Read, V
  <2>3. QED
    BY <2>1, <2>2 DEF Register!vars
<1>10. CASE WipeSideFails
  BY <1>10 DEF WipeSideFails
<1>11. QED
  BY <1>2, <1>3, <1>4, <1>5, <1>6, <1>7, <1>8, <1>9, <1>10 DEF StoreNext, Register!Next

\* Seen through loads and restarts, the ping-pong store is a register whose
\* saves take effect at one moment or not at all.
THEOREM StoreImplementsRegister ==
  ASSUME "wipe" \notin Faults
  PROVE  StoreSpec => ImplementsRegister
<1>1. StoreInit => Register!Init
  BY RegisterInit
<1>2. IInv /\ IInv' /\ [StoreNext]_storeVars => [Register!Next]_(Register!vars)
  BY RegisterStep
<1>3. QED
  BY <1>1, <1>2, Inductive, PTL DEF StoreSpec, ImplementsRegister, Register!Spec
=============================================================================
