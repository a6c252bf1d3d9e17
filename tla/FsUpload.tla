------------------------------- MODULE FsUpload -------------------------------
(***************************************************************************)
(* framework/src/storage/fs_extension.cpp and sd_card.cpp: how a file of    *)
(* the SD card is uploaded through <path>.part and <path>.partmeta,         *)
(* committed, resumed, downloaded and removed, while cards are pulled,      *)
(* calls of FatFS fail and power is lost.                                   *)
(*                                                                         *)
(* There is one path; a session for another path does to this one what      *)
(* OnOpenRead and OnClose do.  A handler is one step.  What a failing call, *)
(* or a loss of power, can leave behind of it is read off the contents the  *)
(* card goes through while the handler makes its calls (the plans below).   *)
(*                                                                         *)
(* Of FatFS it is assumed that a write reaches the directory with f_sync or *)
(* f_close, that FA_CREATE_ALWAYS empties a file at once, and that a handle *)
(* is good only for the mount it was opened in.                             *)
(***************************************************************************)
EXTENDS Naturals, Sequences

CONSTANTS
  Cards,      \* SD cards that are put into the slot
  NoCard,     \* an empty slot
  Chunks,     \* what one request can carry
  Files,      \* the files that hosts have
  Recording,  \* a file of the firmware's own
  None,       \* no file
  Interval,   \* kMetaIntervalBytes, in chunks
  MaxFaults,  \* bound: failing calls and pulled cards
  MaxCuts     \* bound: losses of power

ASSUME FsAssumption ==
  /\ NoCard \notin Cards /\ Cards # {}
  /\ Files \subseteq Seq(Chunks)
  /\ Recording \notin Seq(Chunks) /\ None \notin Seq(Chunks) /\ None # Recording
  /\ None \notin [total : Nat, received : Nat, crc : Seq(Chunks)]
  /\ Interval \in Nat \ {0}
  /\ MaxFaults \in Nat /\ MaxCuts \in Nat

VARIABLES
  disk,     \* of each card: the final file, .part and .partmeta
  card,     \* the card in the slot
  state,    \* SdCard::state_
  xfer,     \* mode_, write_flags_, xfer_size_, _pos_, _crc_, meta_synced_; the
            \* file behind s_fil, and whether that handle has outlived its mount
  locked,   \* the firmware holds the path
  kept,     \* history: what of the upload was acknowledged
  faults,   \* bound: faults that have happened
  cuts      \* bound: losses of power that have happened

vars == <<disk, card, state, xfer, locked, kept, faults, cuts>>

Size(f) == Len(f)

Sizes == {Size(f) : f \in Files}

Checkpoints == [total : Nat, received : Nat, crc : Seq(Chunks)]

Content ==
  [final : Seq(Chunks) \cup {Recording, None},
   part  : Seq(Chunks) \cup {None},
   meta  : Checkpoints \cup {None}]

Blank == [final |-> None, part |-> None, meta |-> None]

NoTransfer ==
  [mode |-> "None", overwrite |-> FALSE, size |-> 0, pos |-> 0, crc |-> <<>>,
   synced |-> 0, fil |-> <<>>, stale |-> FALSE]

Nothing == [total |-> 0, acked |-> 0]

Init ==
  /\ disk = [c \in Cards |-> Blank]
  /\ card \in Cards
  /\ state = "Unmounted"
  /\ xfer = NoTransfer
  /\ locked = FALSE
  /\ kept = Nothing
  /\ faults = 0 /\ cuts = 0

Spend(n) == faults + n <= MaxFaults /\ faults' = faults + n

\* What the slot's card holds.
Here == disk[card]

Leave(d) == disk' = [disk EXCEPT ![card] = d]

-----------------------------------------------------------------------------
(* The card                                                                *)

\* What a mount attempt, or the lack of one, comes to.
Mounting(ok, result, outdates, cost) ==
  [ok |-> ok, state |-> result, stale |-> xfer.stale \/ (outdates /\ xfer.mode # "None"),
   cost |-> cost]

\* EnsureMounted: nothing to do, an attempt that succeeds or fails, or none
\* because one failed less than kRemountBackoffMs ago.  An attempt outdates
\* the open handle.
EnsureMounted ==
  IF state = "Mounted" THEN {Mounting(TRUE, state, FALSE, 0)}
  ELSE {Mounting(TRUE, "Mounted", TRUE, 0) : c \in {card} \ {NoCard}}
       \cup {Mounting(FALSE, "NoCard", TRUE, IF card = NoCard THEN 0 ELSE 1)}
       \cup {Mounting(FALSE, s, FALSE, 0) : s \in {state} \cap {"NoCard"}}

\* MapFr and OnIoError: a failed call makes the next command mount again if
\* the medium is to blame.
Blamed == {"Mounted", "Unmounted"}

\* FS_INFO, FS_STAT, FS_LIST, and every command that is refused.
OnQuery ==
  \E m \in EnsureMounted :
    /\ Spend(m.cost)
    /\ state' = m.state
    /\ xfer' = [xfer EXCEPT !.stale = m.stale]
    /\ UNCHANGED <<disk, card, locked, kept, cuts>>

\* The slot is empty although the volume is mounted, or a call fails: an open
\* command has closed the transfer before.
OnIoError ==
  \E m \in EnsureMounted :
    /\ m.ok
    /\ Spend(IF card = NoCard THEN 0 ELSE 1)
    /\ state' = "Unmounted"
    /\ \/ xfer' = [xfer EXCEPT !.stale = m.stale]
       \/ card = NoCard /\ xfer' = NoTransfer
    /\ UNCHANGED <<disk, card, locked, kept, cuts>>

-----------------------------------------------------------------------------
(* Staging                                                                 *)

Entry(x) == [total |-> x.size, received |-> x.pos, crc |-> x.crc]

\* f_sync: the file behind the handle x reaches the card.
Synced(d, x) == IF x.stale THEN d ELSE [d EXCEPT !.part = x.fil]

\* WriteMeta replaces the checkpoint: it is empty before it is whole.
MetaEmptied(d) == [d EXCEPT !.meta = None]
MetaWritten(d, x) == [d EXCEPT !.meta = Entry(x)]

\* CloseTransfer(true) of the upload x, call by call.
ClosePlan(d, x) ==
  IF x.mode # "Write" THEN <<d>>
  ELSE LET s == Synced(d, x) IN <<d, s, MetaEmptied(s), MetaWritten(s, x)>>

Last(plan) == plan[Len(plan)]

During(plan) == {plan[k] : k \in DOMAIN plan}

\* Mutant: closing writes no checkpoint.
ClosedBare(d, x) == [to : {d, Synced(d, x)}, cost : {0, 1}]

\* CloseTransfer ignores its failures: what it leaves, and their number.
Closed(d, x) ==
  {[to |-> Last(ClosePlan(d, x)), cost |-> 0]}
  \cup (IF x.mode # "Write" THEN {}
        ELSE [to : UNION {{s, MetaEmptied(s), MetaWritten(s, x)} : s \in {d, Synced(d, x)}},
              cost : {1}])

\* A handler ends the transfer x and leaves the volume in the state result.
Close(x, result) ==
  IF card = NoCard
    THEN disk' = disk /\ Spend(0) /\ state' = result
    ELSE \E c \in Closed(Here, x) : Leave(c.to) /\ Spend(c.cost) /\ state' = result

-----------------------------------------------------------------------------
(* FS_OPEN_WRITE                                                           *)

\* A consistent checkpoint of an upload of this size.
Usable(d, total) ==
  /\ d.meta # None /\ d.meta.total = total /\ d.meta.received <= total
  /\ d.part # None /\ d.meta.received <= Len(d.part)

ResumeOffset(d, total) == IF Usable(d, total) THEN d.meta.received ELSE 0

\* The transfer that opens: at the checkpoint, or from nothing.
Opened(d, overwrite, total, offset) ==
  [mode |-> "Write", overwrite |-> overwrite, size |-> total, pos |-> offset,
   crc |-> IF offset = 0 THEN <<>> ELSE d.meta.crc,
   synced |-> offset,
   fil |-> IF offset = 0 THEN <<>> ELSE SubSeq(d.part, 1, offset),
   stale |-> FALSE]

\* Create or truncate .part, write the checkpoint, sync .part.
OpenPlan(d, x) ==
  LET p == IF x.pos = 0 THEN [d EXCEPT !.part = <<>>] ELSE d
  IN  <<d, p, MetaEmptied(p), MetaWritten(p, x), Synced(MetaWritten(p, x), x)>>

\* A failed open closes the new transfer without a checkpoint.
OpenFailed(d, x) ==
  During(OpenPlan(d, x)) \cup {Synced(e, x) : e \in During(OpenPlan(d, x))}

\* Every request of the host's that opens an upload.
Requests == [overwrite : BOOLEAN, resume : BOOLEAN, total : Sizes]

\* FS_EXISTS, or f_stat fails; c is what closing the previous transfer came to.
OpenRefused(m, c, r) ==
  \E cost \in {0, 1} :
    /\ cost = 0 => c.to.final # None /\ ~r.overwrite
    /\ Spend(c.cost + cost)
    /\ Leave(c.to)
    /\ state' \in (IF cost = 0 THEN {m.state} ELSE Blamed)
    /\ xfer' = NoTransfer
    /\ UNCHANGED kept

OpenSucceeds(m, c, r, offset, lost) ==
  \E x \in {Opened(c.to, r.overwrite, r.total, offset)} :
    /\ Spend(c.cost + lost)
    /\ Leave(Last(OpenPlan(c.to, x)))
    /\ state' = m.state
    /\ xfer' = x
    /\ kept' = [total |-> r.total, acked |-> offset]

OpenFails(c, r, offset, lost) ==
  /\ Spend(c.cost + lost + 1)
  /\ \E e \in OpenFailed(c.to, Opened(c.to, r.overwrite, r.total, offset)) : Leave(e)
  /\ state' \in Blamed
  /\ xfer' = NoTransfer
  /\ kept' = Nothing

\* The upload opens, or fails to; the checkpoint it could resume from is read, or that fails.
OpenGoesOn(m, c, r) ==
  /\ c.to.final # None => r.overwrite
  /\ \E read \in BOOLEAN :
       \E offset \in {IF r.resume /\ read THEN ResumeOffset(c.to, r.total) ELSE 0},
          lost \in {IF read THEN 0 ELSE 1} :
            OpenSucceeds(m, c, r, offset, lost) \/ OpenFails(c, r, offset, lost)

\* The command goes past its checks and closes the previous transfer.
OnOpenWrite ==
  \E m \in EnsureMounted, r \in Requests :
    /\ m.ok
    /\ ~locked
    /\ card # NoCard
    /\ \E c \in Closed(Here, [xfer EXCEPT !.stale = m.stale]) :
         OpenRefused(m, c, r) \/ OpenGoesOn(m, c, r)
    /\ UNCHANGED <<card, locked, cuts>>

-----------------------------------------------------------------------------
(* FS_WRITE                                                                *)

Writing == xfer.mode = "Write"

\* A chunk out of order, or one too many, ends the session.
OnWriteRefused ==
  /\ Writing
  /\ Close(xfer, state)
  /\ xfer' = NoTransfer
  /\ UNCHANGED <<card, locked, kept, cuts>>

\* The upload after a chunk was written.
Grown(chunk) ==
  [xfer EXCEPT !.fil = Append(@, chunk), !.pos = @ + 1, !.crc = Append(@, chunk)]

\* A checkpoint is due.
Due(x) == x.pos - x.synced >= Interval

\* f_sync and WriteMeta of a due checkpoint.
CheckpointPlan(d, x) ==
  LET s == Synced(d, x) IN <<d, s, MetaEmptied(s), MetaWritten(s, x)>>

\* The next chunk is written, with a checkpoint if one is due.
OnWrite ==
  /\ Writing /\ ~xfer.stale /\ card # NoCard
  /\ xfer.pos < xfer.size
  /\ \E chunk \in Chunks :
       LET x == Grown(chunk)
       IN  \/ /\ ~Due(x)
              /\ xfer' = x
              /\ kept' = [kept EXCEPT !.acked = x.pos]
              /\ UNCHANGED <<disk, state, faults>>
           \/ /\ Due(x)
              /\ Leave(Last(CheckpointPlan(Here, x)))
              /\ xfer' = [x EXCEPT !.synced = x.pos]
              /\ kept' = [kept EXCEPT !.acked = x.pos]
              /\ UNCHANGED <<state, faults>>
           \* a checkpoint that fails closes the transfer without another
           \/ /\ Due(x)
              /\ Spend(1)
              /\ \E e \in During(CheckpointPlan(Here, x)) : Leave(e) \/ Leave(Synced(e, x))
              /\ xfer' = NoTransfer
              /\ UNCHANGED <<state, kept>>
  /\ UNCHANGED <<card, locked, cuts>>

\* f_write fails, the card is full, or the handle is not good any more; the
\* chunk may have been written in part.
OnWriteFails ==
  /\ Writing /\ xfer.pos < xfer.size
  /\ LET cost == IF xfer.stale \/ card = NoCard THEN 0 ELSE 1
     IN  \E chunk \in Chunks, part \in BOOLEAN :
           LET x == IF part /\ cost = 1 THEN [xfer EXCEPT !.fil = Append(@, chunk)] ELSE xfer
           IN  /\ IF card = NoCard
                    THEN disk' = disk /\ Spend(cost)
                    ELSE \E c \in Closed(Here, x) : Leave(c.to) /\ Spend(c.cost + cost)
               /\ state' \in (IF cost = 0 THEN {"Unmounted"} ELSE {state, "Unmounted"})
  /\ xfer' = NoTransfer
  /\ UNCHANGED <<card, locked, kept, cuts>>

-----------------------------------------------------------------------------
(* FS_COMMIT                                                               *)

\* Mutant: the old file is unlinked before .part is closed.
CommitPlanEarly(d, x) ==
  LET u == [d EXCEPT !.final = None]
      s == Synced(u, x)
      r == [s EXCEPT !.final = s.part, !.part = None]
  IN  <<d, u, s, r, MetaEmptied(r)>>

\* Close .part, unlink the old file, rename, unlink .partmeta.
CommitPlan(d, x) ==
  LET s == Synced(d, x)
      u == [s EXCEPT !.final = None]
      r == [u EXCEPT !.final = s.part, !.part = None]
  IN  <<d, s, u, r, MetaEmptied(r)>>

Complete == Writing /\ xfer.pos = xfer.size

\* Mutant: only the length is compared.
LengthMatches(f) == Len(xfer.crc) = Len(f)

\* The CRC of the whole upload, resumed or not.
CrcMatches(f) == xfer.crc = f

OnCommitBadCrc ==
  /\ Complete
  /\ \E f \in Files : ~CrcMatches(f)
  /\ Close(xfer, state)
  /\ xfer' = NoTransfer
  /\ UNCHANGED <<card, locked, kept, cuts>>

\* A file has appeared since the upload was opened.
TargetRefused(d) == d.final # None /\ ~xfer.overwrite

OnCommit ==
  /\ Complete
  /\ \E f \in Files : CrcMatches(f)
  /\ LET usable == card # NoCard /\ ~xfer.stale
     IN  \/ /\ ~usable                      \* f_close fails
            /\ state' = "Unmounted"
            /\ UNCHANGED <<disk, faults>>
         \/ /\ usable
            /\ LET plan == CommitPlan(Here, xfer)
               IN  \/ /\ TargetRefused(Here)
                      /\ Leave(plan[2])
                      /\ UNCHANGED <<state, faults>>
                   \/ /\ ~TargetRefused(Here)
                      /\ Leave(Last(plan))
                      /\ UNCHANGED <<state, faults>>
                   \/ /\ Spend(1)
                      /\ \E k \in DOMAIN plan :
                           (TargetRefused(Here) => k <= 2) /\ Leave(plan[k])
                      /\ state' \in {state, "Unmounted"}
  /\ xfer' = NoTransfer
  /\ kept' = Nothing
  /\ UNCHANGED <<card, locked, cuts>>

-----------------------------------------------------------------------------
(* Other commands                                                          *)

\* FS_CLOSE, and the five-second timeout of Tick.
OnClose ==
  /\ xfer.mode # "None"
  /\ Close(xfer, state)
  /\ xfer' = NoTransfer
  /\ UNCHANGED <<card, locked, kept, cuts>>

OnOpenRead ==
  \E m \in EnsureMounted :
    /\ m.ok
    /\ card # NoCard
    /\ \E c \in Closed(Here, [xfer EXCEPT !.stale = m.stale]) :
         /\ Leave(c.to)
         /\ \/ /\ c.to.final # None
               /\ Spend(c.cost) /\ state' = m.state
               /\ xfer' = [NoTransfer EXCEPT !.mode = "Read"]
            \/ /\ c.to.final = None
               /\ Spend(c.cost) /\ state' = m.state
               /\ xfer' = NoTransfer
            \/ /\ Spend(c.cost + 1) /\ state' \in Blamed
               /\ xfer' = NoTransfer
    /\ UNCHANGED <<card, locked, kept, cuts>>

\* A read that fails ends the download.
OnReadFails ==
  /\ xfer.mode = "Read"
  /\ Spend(IF xfer.stale \/ card = NoCard THEN 0 ELSE 1)
  /\ state' = "Unmounted"
  /\ xfer' = NoTransfer
  /\ UNCHANGED <<disk, card, locked, kept, cuts>>

\* CollidesWithTransfer; a download remembers the staging paths of the last
\* upload, whichever it was.
Collides(name) == xfer.mode = "Write" \/ (xfer.mode = "Read" /\ name = "final")

\* Delete and rename: the path's state after them.
Edits(d) ==
  {[d EXCEPT !.final = None], [d EXCEPT !.part = None], [d EXCEPT !.meta = None]}
  \cup {[d EXCEPT !.final = f] : f \in IF d.final = None THEN Files ELSE {}}

\* Mutant: the lock table is not asked.
AllowedUnasked(d, e) ==
  IF e.final # d.final THEN ~Collides("final") ELSE ~Collides("part")

\* Locked files are neither removed nor moved, nor moved onto.
Allowed(d, e) ==
  /\ locked => e.final = d.final
  /\ IF e.final # d.final THEN ~Collides("final") ELSE ~Collides("part")

\* OnDelete and OnRename: away, or a whole file here.
OnDeleteOrRename ==
  \E m \in EnsureMounted :
    /\ m.ok
    /\ card # NoCard
    /\ \E e \in Edits(Here) :
         /\ Allowed(Here, e)
         /\ Leave(e)
         /\ kept' = IF e.final = Here.final THEN Nothing ELSE kept
    /\ Spend(m.cost)
    /\ state' = m.state
    /\ xfer' = [xfer EXCEPT !.stale = m.stale]
    /\ UNCHANGED <<card, locked, cuts>>

-----------------------------------------------------------------------------
(* The firmware, the slot and the power                                    *)

\* The firmware records to the path.
Lock ==
  /\ ~locked /\ card # NoCard
  /\ locked' = TRUE
  /\ Leave([Here EXCEPT !.final = Recording])
  /\ UNCHANGED <<card, state, xfer, kept, faults, cuts>>

Unlock ==
  /\ locked
  /\ locked' = FALSE
  /\ UNCHANGED <<disk, card, state, xfer, kept, faults, cuts>>

\* A card is pulled or put in; a handle of another card is not good.
ChangeCard ==
  /\ Spend(IF card = NoCard THEN 0 ELSE 1)
  /\ card' \in IF card = NoCard THEN Cards ELSE {NoCard}
  /\ xfer' = [xfer EXCEPT !.stale = (xfer.mode # "None")]
  /\ UNCHANGED <<disk, state, locked, kept, cuts>>

\* What the card can hold when the power fails in the middle of a handler.
ClosingCut == During(ClosePlan(Here, xfer))

WritingCut ==
  UNION {During(CheckpointPlan(Here, Grown(chunk))) : chunk \in
           {h \in Chunks : Writing /\ ~xfer.stale /\ xfer.pos < xfer.size /\ Due(Grown(h))}}

OpeningCut ==
  LET d == Last(ClosePlan(Here, [xfer EXCEPT !.stale = @ \/ state # "Mounted"]))
  IN  UNION {During(OpenPlan(d, Opened(d, r.overwrite, r.total,
                       IF r.resume THEN ResumeOffset(d, r.total) ELSE 0))) :
             r \in {q \in Requests : ~locked /\ (d.final # None => q.overwrite)}}

CommittingCut ==
  LET plan == CommitPlan(Here, xfer)
  IN  {plan[k] : k \in {j \in DOMAIN plan :
         /\ Complete /\ ~xfer.stale /\ \E f \in Files : CrcMatches(f)
         /\ TargetRefused(Here) => j <= 2}}

PowerLoss ==
  /\ cuts < MaxCuts /\ cuts' = cuts + 1
  /\ \/ UNCHANGED <<disk, kept>>
     \/ card # NoCard /\ UNCHANGED kept
        /\ \E d \in ClosingCut \cup WritingCut : Leave(d)
     \/ card # NoCard /\ kept' = Nothing
        /\ \E d \in OpeningCut \cup CommittingCut : Leave(d)
  /\ state' = "Unmounted"
  /\ xfer' = NoTransfer
  /\ locked' = FALSE
  /\ UNCHANGED <<card, faults>>

-----------------------------------------------------------------------------
Next ==
  \/ OnQuery \/ OnIoError
  \/ OnOpenWrite \/ OnWrite \/ OnWriteRefused \/ OnWriteFails
  \/ OnCommit \/ OnCommitBadCrc \/ OnClose
  \/ OnOpenRead \/ OnReadFails \/ OnDeleteOrRename
  \/ Lock \/ Unlock \/ ChangeCard \/ PowerLoss

Spec == Init /\ [][Next]_vars
-----------------------------------------------------------------------------
(* Properties                                                              *)

\* Every variable has its type.
TypeOK ==
  /\ disk \in [Cards -> Content]
  /\ card \in Cards \cup {NoCard}
  /\ state \in {"Unmounted", "Mounted", "NoCard"}
  /\ xfer \in [mode : {"None", "Read", "Write"}, overwrite : BOOLEAN, size : Nat, pos : Nat,
               crc : Seq(Chunks), synced : Nat, fil : Seq(Chunks), stale : BOOLEAN]
  /\ locked \in BOOLEAN
  /\ kept \in [total : Nat, acked : Nat]
  /\ faults \in 0..MaxFaults /\ cuts \in 0..MaxCuts

\* What the path holds is a file that some host has, whole, or the firmware's
\* own: no failure, pulled card, abandoned or resumed upload tears it
\* (the staging of OnOpenWrite and OnWrite, the checks of OnCommit).
FinalIsWhole == \A c \in Cards : disk[c].final \in Files \cup {Recording, None}

\* The state is typed, and what the path holds is a whole file (OnCommit).
UploadInv == TypeOK /\ FinalIsWhole

\* When an upload removes the file it replaces, whatever stops it there, the
\* replacement is on the card, whole, in .part (the order of OnCommit's calls).
ReplacementStaged ==
  [][\A c \in Cards :
       xfer.mode = "Write" /\ disk[c].final # None /\ disk'[c].final = None
         => disk'[c].part \in Files]_vars

\* An upload that ended, refused, timed out or closed, without the fault of
\* the card or the power, resumes with all that was acknowledged (the
\* checkpoint of CloseTransfer, the one OnOpenWrite finds).
AcknowledgedSurvives ==
  faults = 0 /\ cuts = 0 /\ xfer.mode # "Write"
    => ResumeOffset(Here, kept.total) >= kept.acked

\* Of all that can happen while the firmware holds the path, one thing changes
\* the file: the commit, whole or cut off, of a complete upload that may replace
\* it and was open before the lock (IsLocked in OnOpenWrite, OnDelete and
\* OnRename; OnCommit does not ask, see LockedIsProtected).
LockedOnlyCommitted ==
  [][\A c \in Cards :
       locked /\ disk'[c].final # disk[c].final
         => Complete /\ ~TargetRefused(disk[c]) /\ xfer' = NoTransfer]_vars

\* An upload gives the old file up only when a whole new one is staged, and
\* nothing but such a commit touches a file that is locked (OnCommit, IsLocked).
FinalIsGuarded == ReplacementStaged /\ LockedOnlyCommitted

\* A file that the firmware holds is left alone by the host for as long as the
\* lock stands (docs/hostlink-protocol.md, section 8: "Firmware-owned files are
\* protected").  The code does not keep this: OnCommit asks no lock.
LockedIsProtected ==
  [][\A c \in Cards : locked /\ locked' => disk'[c].final = disk[c].final]_vars
=============================================================================
