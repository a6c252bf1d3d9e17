----------------------------- MODULE PresetStore -----------------------------
(***************************************************************************)
(* alchemy::PresetStore (framework/include/alchemy/control/preset_store.h):*)
(* a ping-pong store of preset records in memory-mapped NOR flash.         *)
(*                                                                         *)
(* Each slot has two sides of SectorsPerSide sectors.  Sector 0 of a side  *)
(* starts with the record header, so `head' is what that sector holds (the *)
(* header's sequence number and the payload whose CRC it carries) and      *)
(* `body' what the sectors after it hold.  Junk is any content that does   *)
(* not verify: erased, or torn by a failure or a power cut.  A torn sector *)
(* is assumed never to pass the CRC.                                       *)
(*                                                                         *)
(* The store is single threaded, but a commit touches flash one sector at  *)
(* a time: every erase and every write is a step of its own, and each can  *)
(* fail or be cut by a loss of power.                                      *)
(***************************************************************************)
EXTENDS Naturals

CONSTANTS
  Slots,            \* slot numbers, 0 .. kNumSlots - 1 in the code
  Vals,             \* preset payloads
  None,             \* no preset
  Junk,             \* flash content that does not verify
  SectorsPerSide,   \* sectors of one side
  RecLen,           \* RecLen[v]: sectors the record of payload v covers
  MaxSeq,           \* bound on sequence numbers (2^32 - 1 in the code)
  Faults            \* which flash calls may report failure: "save", "wipe"

Side == {0, 1}
BodySectors == 1 .. SectorsPerSide - 1

ASSUME StoreAssumption ==
  /\ SectorsPerSide \in Nat \ {0}
  /\ RecLen \in [Vals -> 1 .. SectorsPerSide]
  /\ MaxSeq \in Nat
  /\ Faults \subseteq {"save", "wipe"}
  /\ None \notin Vals
  /\ Junk \notin Vals \cup {None}
  /\ Junk \notin [seq : Nat, val : Vals]

VARIABLES
  head,      \* flash: sector 0 of each side
  body,      \* flash: the other sectors of each side
  idx,       \* RAM: sectors_[slot][side], the index PresetStore::Init builds
  nextSeq,   \* RAM: next_seq_
  phase,     \* the call in progress, "Idle", or "Off"
  slot,      \* RAM: its slot
  side,      \* RAM: its side
  sect,      \* RAM: sector the next flash call is for
  val,       \* RAM: the staged payload
  ok,        \* RAM: what EraseSlot will return
  may,       \* history: presets a restart could bring back
  prev       \* history: presets superseded by the slot's content

sectors == <<head, body>>
call == <<phase, slot, side, sect, val, ok>>
history == <<may, prev>>
storeVars == <<sectors, idx, nextSeq, call, history>>

Header == [seq : Nat, val : Vals]
Entry == [valid : BOOLEAN, seq : Nat]
NoEntry == [valid |-> FALSE, seq |-> 0]

TypeOK ==
  /\ head \in [Slots -> [Side -> Header \cup {Junk}]]
  /\ body \in [Slots -> [Side -> [BodySectors -> Vals \cup {Junk}]]]
  /\ idx \in [Slots -> [Side -> Entry]]
  /\ nextSeq \in Nat
  /\ phase \in {"Off", "Idle", "Erase", "Write", "Wipe"}
  /\ slot \in Slots \cup {None}
  /\ side \in Side
  /\ sect \in Nat
  /\ val \in Vals \cup {None}
  /\ ok \in BOOLEAN
  /\ phase \in {"Erase", "Write", "Wipe"} => slot \in Slots
  /\ phase \in {"Erase", "Write"} => val \in Vals /\ sect \in 0 .. RecLen[val] - 1
  /\ may \in [Slots -> SUBSET (Vals \cup {None, Junk})]
  /\ prev \in [Slots -> SUBSET (Vals \cup {None, Junk})]

-----------------------------------------------------------------------------
(***************************************************************************)
(* Reading flash.                                                          *)
(***************************************************************************)

\* A record is intact if every sector holds what was written for it.
Intact(s, d) ==
  /\ head[s][d] # Junk
  /\ \A k \in 1 .. RecLen[head[s][d].val] - 1 : body[s][d][k] = head[s][d].val

\* Mutant: a scan that trusts the header and skips the CRC.
VerifiesHeaderOnly(s, d) == head[s][d] # Junk

\* The checks Init makes of a side: header magic, version, length, and the
\* CRC over exactly the payload bytes the header names, which only an
\* intact record passes.
Verifies(s, d) == Intact(s, d)

\* The index that a scan of the present flash yields.
Scan ==
  [s \in Slots |-> [d \in Side |->
     IF Verifies(s, d) THEN [valid |-> TRUE, seq |-> head[s][d].seq]
                       ELSE NoEntry]]

\* Mutant: the first valid side, whatever its sequence number.
BestSideFirst(entries) == IF entries[0].valid THEN 0 ELSE 1

\* The valid side with the highest sequence number; side 0 on a tie.
BestSide(entries) ==
  IF /\ entries[0].valid
     /\ entries[1].valid => entries[0].seq >= entries[1].seq
    THEN 0 ELSE 1

HasEntry(entries) == entries[0].valid \/ entries[1].valid

\* Load and Peek go by the index alone; nothing is verified again.
ReadVia(entries, s) ==
  IF ~HasEntry(entries) THEN None
  ELSE LET d == BestSide(entries)
       IN  IF Intact(s, d) THEN head[s][d].val ELSE Junk

Peek(s) == ReadVia(idx[s], s)

\* What Peek would return had the module just been restarted.
RestartValue(s) == ReadVia(Scan[s], s)

-----------------------------------------------------------------------------
StoreInit ==
  /\ head = [s \in Slots |-> [d \in Side |-> Junk]]
  /\ body = [s \in Slots |-> [d \in Side |-> [k \in BodySectors |-> Junk]]]
  /\ idx = [s \in Slots |-> [d \in Side |-> NoEntry]]
  /\ nextSeq = 0
  /\ phase = "Idle" /\ slot = None /\ side = 0 /\ sect = 0 /\ val = None
  /\ ok = TRUE
  /\ may = [s \in Slots |-> {None}]
  /\ prev = [s \in Slots |-> {}]

SetSector(s, d, k, content) ==
  IF k = 0
    THEN head' = [head EXCEPT ![s][d] = content] /\ UNCHANGED body
    ELSE body' = [body EXCEPT ![s][d][k] = content] /\ UNCHANGED head

\* The sector-sized piece of the record that the next write puts down.
Piece == IF sect = 0 THEN [seq |-> nextSeq, val |-> val] ELSE val

Stop(to) ==
  /\ phase' = to
  /\ slot' = None /\ side' = 0 /\ sect' = 0 /\ val' = None
  /\ ok' = TRUE

(***************************************************************************)
(* CommitStaged, reached from Presets::Save and Presets::WriteSlotRaw.     *)
(***************************************************************************)

\* Mutant: the comparison of the two sequence numbers reversed.
TargetNewer(s) ==
  CASE ~idx[s][0].valid -> 0
    [] idx[s][0].valid /\ ~idx[s][1].valid -> 1
    [] OTHER -> IF idx[s][0].seq >= idx[s][1].seq THEN 0 ELSE 1

\* An invalid side first, else the side with the lower sequence number.
Target(s) ==
  CASE ~idx[s][0].valid -> 0
    [] idx[s][0].valid /\ ~idx[s][1].valid -> 1
    [] OTHER -> IF idx[s][0].seq <= idx[s][1].seq THEN 0 ELSE 1

StartSave(s, v) ==
  /\ phase = "Idle"
  /\ nextSeq < MaxSeq
  /\ phase' = "Erase"
  /\ slot' = s /\ val' = v
  /\ side' = Target(s)
  /\ sect' = 0
  /\ may' = [may EXCEPT ![s] = @ \cup {v}]
  /\ UNCHANGED <<sectors, idx, nextSeq, ok, prev>>

EraseSector ==
  /\ phase = "Erase"
  /\ SetSector(slot, side, sect, Junk)
  /\ IF sect + 1 < RecLen[val]
       THEN sect' = sect + 1 /\ UNCHANGED phase
       ELSE sect' = 0 /\ phase' = "Write"
  /\ UNCHANGED <<idx, nextSeq, slot, side, val, ok, history>>

\* ops_.erase reports failure; the sector may have been disturbed.
EraseSectorFails ==
  /\ phase = "Erase"
  /\ "save" \in Faults
  /\ SetSector(slot, side, sect, Junk) \/ UNCHANGED sectors
  /\ Stop("Idle")
  /\ UNCHANGED <<idx, nextSeq, history>>

WriteSector ==
  /\ phase = "Write"
  /\ sect + 1 < RecLen[val]
  /\ SetSector(slot, side, sect, Piece)
  /\ sect' = sect + 1
  /\ UNCHANGED <<idx, nextSeq, phase, slot, side, val, ok, history>>

\* Mutant: next_seq_ is not advanced.
FinishSaveSameSeq ==
  /\ phase = "Write"
  /\ sect + 1 = RecLen[val]
  /\ SetSector(slot, side, sect, Piece)
  /\ idx' = [idx EXCEPT ![slot][side] = [valid |-> TRUE, seq |-> nextSeq]]
  /\ may' = [may EXCEPT ![slot] = {val}]
  /\ prev' = [prev EXCEPT ![slot] = {Peek(slot)}]
  /\ Stop("Idle")
  /\ UNCHANGED nextSeq

\* The last write: only now does the index learn of the record.
FinishSave ==
  /\ phase = "Write"
  /\ sect + 1 = RecLen[val]
  /\ SetSector(slot, side, sect, Piece)
  /\ idx' = [idx EXCEPT ![slot][side] = [valid |-> TRUE, seq |-> nextSeq]]
  /\ nextSeq' = nextSeq + 1
  /\ may' = [may EXCEPT ![slot] = {val}]
  /\ prev' = [prev EXCEPT ![slot] = {Peek(slot)}]
  /\ Stop("Idle")

\* ops_.write reports failure; the sector may hold nothing, part, or all.
WriteSectorFails ==
  /\ phase = "Write"
  /\ "save" \in Faults
  /\ \/ \E content \in {Junk, Piece} : SetSector(slot, side, sect, content)
     \/ UNCHANGED sectors
  /\ Stop("Idle")
  /\ UNCHANGED <<idx, nextSeq, history>>

(***************************************************************************)
(* EraseSlot: the header sector of side 0, then that of side 1.            *)
(***************************************************************************)
StartWipe(s) ==
  /\ phase = "Idle"
  /\ phase' = "Wipe"
  /\ slot' = s
  /\ may' = [may EXCEPT ![s] = @ \cup prev[s] \cup {None}]
  /\ UNCHANGED <<sectors, idx, nextSeq, side, sect, val, ok, prev>>

\* Mutant: the loop over the sides ends after the first.
WipeNextOneSide(good) ==
  /\ Stop("Idle")
  /\ may' = IF good THEN [may EXCEPT ![slot] = {None}] ELSE may
  /\ prev' = IF good THEN [prev EXCEPT ![slot] = {}] ELSE prev

WipeNext(good) ==
  IF side = 0
    THEN /\ side' = 1 /\ ok' = good
         /\ UNCHANGED <<phase, slot, sect, val, history>>
    ELSE /\ Stop("Idle")
         /\ may' = IF good THEN [may EXCEPT ![slot] = {None}] ELSE may
         /\ prev' = IF good THEN [prev EXCEPT ![slot] = {}] ELSE prev

WipeSide ==
  /\ phase = "Wipe"
  /\ head' = [head EXCEPT ![slot][side] = Junk]
  /\ idx' = [idx EXCEPT ![slot][side] = NoEntry]
  /\ WipeNext(ok)
  /\ UNCHANGED <<body, nextSeq>>

\* A failed erase is noted and the loop goes on; the index keeps its entry.
WipeSideFails ==
  /\ phase = "Wipe"
  /\ "wipe" \in Faults
  /\ head' = [head EXCEPT ![slot][side] = Junk] \/ UNCHANGED head
  /\ WipeNext(FALSE)
  /\ UNCHANGED <<body, idx, nextSeq>>

(***************************************************************************)
(* Power cuts and restart.                                                 *)
(***************************************************************************)

\* What a cut during a flash call leaves of the sector it was working on.
Cut ==
  \/ UNCHANGED sectors
  \/ phase = "Erase" /\ SetSector(slot, side, sect, Junk)
  \/ phase = "Wipe" /\ SetSector(slot, side, 0, Junk)
  \/ phase = "Write" /\ \E content \in {Junk, Piece} :
                       SetSector(slot, side, sect, content)

PowerCut ==
  /\ phase # "Off"
  /\ Cut
  /\ Stop("Off")
  /\ idx' = [s \in Slots |-> [d \in Side |-> NoEntry]]
  /\ nextSeq' = 0
  /\ UNCHANGED history

\* next_seq_ after the scan: one above the highest verified record.
FollowsAll(n) ==
  /\ \A s \in Slots, d \in Side : Verifies(s, d) => head[s][d].seq < n
  /\ \/ n = 0
     \/ \E s \in Slots, d \in Side : Verifies(s, d) /\ head[s][d].seq = n - 1

\* PresetStore::Init.
StoreBoot ==
  /\ phase = "Off"
  /\ Stop("Idle")
  /\ idx' = Scan
  /\ \E n \in 0 .. MaxSeq : FollowsAll(n) /\ nextSeq' = n
  /\ may' = [s \in Slots |-> {RestartValue(s)}]
  /\ prev' = [s \in Slots |-> prev[s] \cup may[s]]
  /\ UNCHANGED sectors

StoreNext ==
  \/ \E s \in Slots, v \in Vals : StartSave(s, v)
  \/ EraseSector
  \/ EraseSectorFails
  \/ WriteSector
  \/ FinishSave
  \/ WriteSectorFails
  \/ \E s \in Slots : StartWipe(s)
  \/ WipeSide
  \/ WipeSideFails
  \/ PowerCut
  \/ StoreBoot

StoreSpec == StoreInit /\ [][StoreNext]_storeVars
-----------------------------------------------------------------------------
(***************************************************************************)
(* Properties.                                                             *)
(***************************************************************************)

Wiping(s) == phase = "Wipe" /\ slot = s

\* A slot for which HasValid answers true holds a record that verifies, and
\* it is the very record the index means, whatever saves failed before.
\* (preset_store.h: "Returns true if slot holds a CRC-verified flash record".)
HasValidIsVerified ==
  phase # "Off" =>
    \A s \in Slots :
      HasEntry(idx[s]) /\ ~Wiping(s) =>
        LET d == BestSide(idx[s])
        IN  Intact(s, d) /\ head[s][d].seq = idx[s][d].seq

\* At whatever moment power is lost, the scan at the next start selects the
\* last preset whose save was reported as successful, or one whose save was
\* begun after it; a slot erased successfully stays empty.
DurableAcrossPowerCut == \A s \in Slots : RestartValue(s) \in may[s]

\* The two sides of a slot never verify with the same sequence number: the
\* scan's choice between them is never left to the order of the sides.
SequencesDiffer ==
  \A s \in Slots :
    Intact(s, 0) /\ Intact(s, 1) => head[s][0].seq # head[s][1].seq

\* The promise made to callers, and how the store's state shows it.
Shown == [s \in Slots |-> IF phase = "Off" \/ Wiping(s) THEN None ELSE Peek(s)]

Register == INSTANCE PresetRegister WITH on <- (phase # "Off"), shown <- Shown

\* The store implements the register.
ImplementsRegister == Register!Spec
=============================================================================
