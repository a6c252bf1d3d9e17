---------------------------- MODULE MCPresetStore ----------------------------
(* Small instances of PresetStore: one payload covers one sector, another two. *)
EXTENDS PresetStore, TLC

CONSTANTS v1, v2, s1, s2

MCRecLen == v1 :> 1 @@ v2 :> 2

\* The steps of the instance in which erases fail and saves do not: StoreNext without what
\* Faults = {"wipe"} disables.  Saves fail in the instance of MCBoard.
WipingNext ==
  \/ \E s \in Slots, v \in Vals : StartSave(s, v)
  \/ EraseSector \/ WriteSector \/ FinishSave
  \/ \E s \in Slots : StartWipe(s)
  \/ WipeSide \/ WipeSideFails
  \/ PowerCut \/ StoreBoot

WipingSpec == StoreInit /\ [][WipingNext]_storeVars
=============================================================================
