---------------------------- MODULE FsUpload_proofs ----------------------------
(***************************************************************************)
(* Theorems about FsUpload, for any files, chunks, checkpoint interval and  *)
(* numbers of faults.                                                       *)
(*                                                                         *)
(* What FS_COMMIT renames to the path is .part; what it has checked is the *)
(* running CRC.  The two say the same because of the staging: what is on    *)
(* the card while an upload is open is a part of what its handle holds, and *)
(* a checkpoint that is short enough for .part to resume from carries the   *)
(* CRC of just that much of .part (Sound, Carries), after every single call *)
(* of every handler.                                                       *)
(***************************************************************************)
EXTENDS FsUpload, SequenceTheorems, TLAPS

Transfers ==
  [mode : {"None", "Read", "Write"}, overwrite : BOOLEAN, size : Nat, pos : Nat,
   crc : Seq(Chunks), synced : Nat, fil : Seq(Chunks), stale : BOOLEAN]

\* s is what t begins with.
Starts(s, t) == Len(s) <= Len(t) /\ \A i \in 1 .. Len(s) : s[i] = t[i]

\* A checkpoint from which f could be resumed carries the CRC of that much of f.
Fits(m, f) == m # None /\ m.received <= Len(f) => Starts(m.crc, f)

\* A checkpoint of what has been written to f.
Follows(m, f) == m # None => Starts(m.crc, f)

\* What a card may hold between any two calls.
Sound(d) ==
  /\ d \in Content
  /\ d.final \in Files \cup {Recording, None}
  /\ d.meta # None => d.meta.received = Len(d.meta.crc)
  /\ d.part # None => Fits(d.meta, d.part)

\* An upload's CRC is that of what it has written up to its position.
Counted(x) == x \in Transfers /\ (x.mode = "Write" => x.pos = Len(x.crc) /\ Starts(x.crc, x.fil))

\* The card holds what the upload x has brought there.
Carries(d, x) ==
  x.mode = "Write" => /\ d.part # None => Starts(d.part, x.fil)
                      /\ Follows(d.meta, x.fil)

-----------------------------------------------------------------------------
(* The calls of a handler                                                  *)

LEMMA StartsItself == ASSUME NEW s \in Seq(Chunks) PROVE Starts(s, s)
  BY LenProperties DEF Starts

LEMMA NothingStarts == ASSUME NEW s \in Seq(Chunks) PROVE Starts(<<>>, s) /\ Len(<<>>) = 0
  BY LenProperties, EmptySeq DEF Starts

\* f_sync of an upload: it writes no more than the upload has.
LEMMA SyncedIsSound ==
  ASSUME NEW d, Sound(d), NEW x, Counted(x), x.mode = "Write", Fits(d.meta, x.fil),
         Carries(d, x) \/ ~x.stale
  PROVE  /\ Sound(Synced(d, x))
         /\ Follows(d.meta, x.fil) => Carries(Synced(d, x), x)
         /\ Synced(d, x).final = d.final /\ Synced(d, x).meta = d.meta
         /\ ~x.stale => Synced(d, x).part = x.fil
<1>1. CASE x.stale
  BY <1>1 DEF Synced
<1>2. CASE ~x.stale
  <2>1. Synced(d, x) = [d EXCEPT !.part = x.fil]
    BY <1>2 DEF Synced
  <2>2. x.fil \in Seq(Chunks)
    BY DEF Counted, Transfers
  <2>3. /\ Synced(d, x) \in Content /\ Synced(d, x).final = d.final
        /\ Synced(d, x).meta = d.meta /\ Synced(d, x).part = x.fil
    BY <2>1, <2>2 DEF Sound, Content
  <2>4. QED
    BY <2>2, <2>3, StartsItself DEF Sound, Carries
<1>3. QED
  BY <1>1, <1>2 DEF Counted, Transfers

LEMMA MetaEmptiedIsSound ==
  ASSUME NEW d, Sound(d)
  PROVE  /\ Sound(MetaEmptied(d))
         /\ MetaEmptied(d).final = d.final /\ MetaEmptied(d).part = d.part
         /\ MetaEmptied(d).meta = None
  BY DEF Sound, MetaEmptied, Content, Fits

\* Two parts of one file: the shorter is a part of the longer.
LEMMA StartsBoth ==
  ASSUME NEW s \in Seq(Chunks), NEW t \in Seq(Chunks), NEW u \in Seq(Chunks),
         Starts(s, u), Starts(t, u), Len(s) <= Len(t)
  PROVE  Starts(s, t)
  BY LenProperties DEF Starts

LEMMA MetaWrittenIsSound ==
  ASSUME NEW d, Sound(d), NEW x, Counted(x), x.mode = "Write",
         d.part # None => Fits(Entry(x), d.part)
  PROVE  /\ Sound(MetaWritten(d, x))
         /\ MetaWritten(d, x).final = d.final /\ MetaWritten(d, x).part = d.part
         /\ MetaWritten(d, x).meta = Entry(x)
         /\ Follows(Entry(x), x.fil)
<1>1. Entry(x) \in Checkpoints /\ Entry(x).received = Len(Entry(x).crc) /\ Entry(x).crc = x.crc
  BY DEF Entry, Checkpoints, Counted, Transfers
<1>2. MetaWritten(d, x) = [d EXCEPT !.meta = Entry(x)]
  BY DEF MetaWritten
<1>3. /\ MetaWritten(d, x) \in Content /\ MetaWritten(d, x).meta = Entry(x)
      /\ MetaWritten(d, x).final = d.final /\ MetaWritten(d, x).part = d.part
  BY <1>1, <1>2 DEF Sound, Content
<1>4. QED
  BY <1>1, <1>3 DEF Sound, Follows, Counted

\* What an open upload has brought to the card agrees with its CRC.
LEMMA EntryFits ==
  ASSUME NEW d, Sound(d), NEW x, Counted(x), x.mode = "Write", Carries(d, x), d.part # None
  PROVE  Fits(Entry(x), d.part)
<1>1. x.crc \in Seq(Chunks) /\ x.fil \in Seq(Chunks) /\ d.part \in Seq(Chunks)
  BY DEF Sound, Content, Counted, Transfers
<1>2. Entry(x).received = Len(x.crc) /\ Entry(x).crc = x.crc
  BY DEF Entry, Counted
<1>3. QED
  BY <1>1, <1>2, StartsBoth DEF Fits, Carries, Counted

\* What a sequence begins with, it begins with when it has grown.
LEMMA StartsGrown ==
  ASSUME NEW s \in Seq(Chunks), NEW t \in Seq(Chunks), NEW e \in Chunks, Starts(s, t)
  PROVE  Starts(s, Append(t, e))
<1>1. Len(s) \in Nat /\ Len(t) \in Nat
  BY LenProperties
<1>2. Len(Append(t, e)) = Len(t) + 1 /\ \A i \in 1 .. Len(t) : Append(t, e)[i] = t[i]
  BY AppendProperties
<1>3. QED
  BY <1>1, <1>2 DEF Starts

-----------------------------------------------------------------------------
(* The plans of the handlers                                               *)

\* A card with the upload x under way.
Good(d, x) == Sound(d) /\ Counted(x) /\ Carries(d, x)

\* f_sync of an upload under way.
LEMMA SyncedIsGood ==
  ASSUME NEW d, NEW x, Good(d, x), x.mode = "Write"
  PROVE  /\ Good(Synced(d, x), x)
         /\ Synced(d, x).final = d.final
         /\ ~x.stale => Synced(d, x).part = x.fil
<1>1. Follows(d.meta, x.fil) /\ Fits(d.meta, x.fil)
  BY DEF Good, Carries, Follows, Fits
<1>2. QED
  BY <1>1, SyncedIsSound DEF Good

LEMMA MetaEmptiedIsGood ==
  ASSUME NEW d, NEW x, Good(d, x)
  PROVE  Good(MetaEmptied(d), x) /\ MetaEmptied(d).final = d.final /\ MetaEmptied(d).part = d.part
  BY MetaEmptiedIsSound DEF Good, Carries, Follows

LEMMA MetaWrittenIsGood ==
  ASSUME NEW d, NEW x, Good(d, x), x.mode = "Write"
  PROVE  /\ Good(MetaWritten(d, x), x)
         /\ MetaWritten(d, x).final = d.final /\ MetaWritten(d, x).part = d.part
         /\ MetaWritten(d, x).meta = Entry(x)
<1>1. d.part # None => Fits(Entry(x), d.part)
  BY EntryFits DEF Good
<1>2. QED
  BY <1>1, MetaWrittenIsSound DEF Good, Carries

\* The plan of a checkpoint, and of CloseTransfer.
LEMMA CheckpointIsGood ==
  ASSUME NEW d, NEW x, Good(d, x), x.mode = "Write",
         NEW e \in During(CheckpointPlan(d, x))
  PROVE  Good(e, x) /\ e.final = d.final
<1> DEFINE s == Synced(d, x)
<1>1. e \in {d, s, MetaEmptied(s), MetaWritten(s, x)}
  BY DEF During, CheckpointPlan
<1>2. Good(s, x) /\ s.final = d.final
  BY SyncedIsGood
<1>3. Good(MetaEmptied(s), x) /\ MetaEmptied(s).final = d.final
  BY <1>2, MetaEmptiedIsGood
<1>4. Good(MetaWritten(s, x), x) /\ MetaWritten(s, x).final = d.final
  BY <1>2, MetaWrittenIsGood
<1>5. QED
  BY <1>1, <1>2, <1>3, <1>4

LEMMA CheckpointEnds ==
  ASSUME NEW d, NEW x
  PROVE  /\ Last(CheckpointPlan(d, x)) = MetaWritten(Synced(d, x), x)
         /\ Last(CheckpointPlan(d, x)) \in During(CheckpointPlan(d, x))
  BY DEF Last, During, CheckpointPlan

LEMMA ClosePlanIsGood ==
  ASSUME NEW d, NEW x, Good(d, x), NEW e \in During(ClosePlan(d, x))
  PROVE  Good(e, x) /\ e.final = d.final
<1>1. CASE x.mode # "Write"
  <2>1. e = d
    BY <1>1 DEF During, ClosePlan
  <2>2. QED
    BY <2>1
<1>2. CASE x.mode = "Write"
  <2>1. e \in During(CheckpointPlan(d, x))
    BY <1>2 DEF During, ClosePlan, CheckpointPlan
  <2>2. QED
    BY <1>2, <2>1, CheckpointIsGood
<1>3. QED
  BY <1>1, <1>2

LEMMA ClosePlanEnds ==
  ASSUME NEW d, NEW x
  PROVE  /\ Last(ClosePlan(d, x)) \in During(ClosePlan(d, x))
         /\ x.mode # "Write" => Last(ClosePlan(d, x)) = d
         /\ x.mode = "Write" => Last(ClosePlan(d, x)) = MetaWritten(Synced(d, x), x)
<1>1. CASE x.mode # "Write"
  BY <1>1 DEF Last, During, ClosePlan
<1>2. CASE x.mode = "Write"
  BY <1>2 DEF Last, During, ClosePlan
<1>3. QED
  BY <1>1, <1>2

\* Whatever of it fails, closing a transfer leaves a good card.
LEMMA ClosedIsGood ==
  ASSUME NEW d, NEW x, Good(d, x), NEW c \in Closed(d, x)
  PROVE  Good(c.to, x) /\ c.to.final = d.final /\ c.cost \in {0, 1}
<1>1. CASE c = [to |-> Last(ClosePlan(d, x)), cost |-> 0]
  BY <1>1, ClosePlanEnds, ClosePlanIsGood
<1>2. CASE x.mode = "Write" /\ c \in [to : UNION {{s, MetaEmptied(s), MetaWritten(s, x)} :
                                                   s \in {d, Synced(d, x)}}, cost : {1}]
  <2>1. c.cost = 1
    BY <1>2
  <2>2. PICK s \in {d, Synced(d, x)} : c.to \in {s, MetaEmptied(s), MetaWritten(s, x)}
    BY <1>2
  <2>3. Good(s, x) /\ s.final = d.final
    BY <1>2, SyncedIsGood
  <2>4. QED
    BY <1>2, <2>1, <2>2, <2>3, MetaEmptiedIsGood, MetaWrittenIsGood
<1>3. QED
  BY <1>1, <1>2 DEF Closed

\* Where an upload may begin on the card d: at nothing, or at a checkpoint that can be used.
Begins(d, total, offset) ==
  offset = 0 \/ (Usable(d, total) /\ offset = d.meta.received)

LEMMA ResumeBegins ==
  ASSUME NEW d, NEW total
  PROVE  Begins(d, total, 0) /\ Begins(d, total, ResumeOffset(d, total))
  BY DEF Begins, ResumeOffset

\* An upload begins with a handle and a CRC that agree, whatever checkpoint it resumes from.
LEMMA OpenedIsCounted ==
  ASSUME NEW d, Sound(d), NEW overwrite \in BOOLEAN, NEW total \in Nat, NEW offset,
         Begins(d, total, offset)
  PROVE  LET x == Opened(d, overwrite, total, offset)
         IN  /\ Counted(x) /\ x.mode = "Write" /\ ~x.stale /\ x.fil = x.crc
             /\ Fits(d.meta, x.fil) /\ x.pos = offset /\ x.size = total
             /\ offset > 0 => d.part # None /\ d.meta # None /\ Entry(x).received = d.meta.received
                              /\ Entry(x).crc = d.meta.crc
<1> DEFINE x == Opened(d, overwrite, total, offset)
<1>1. CASE offset = 0
  <2>1. x = [mode |-> "Write", overwrite |-> overwrite, size |-> total, pos |-> 0, crc |-> <<>>,
             synced |-> 0, fil |-> <<>>, stale |-> FALSE]
    BY <1>1 DEF Opened
  <2>2. <<>> \in Seq(Chunks) /\ Len(<<>>) = 0 /\ Starts(<<>>, <<>>)
    BY EmptySeq, NothingStarts
  <2>3. Counted(x)
    BY <2>1, <2>2 DEF Counted, Transfers
  <2>4. Fits(d.meta, <<>>)
    <3>1. SUFFICES ASSUME d.meta # None, d.meta.received <= 0 PROVE Starts(d.meta.crc, <<>>)
      BY <2>2 DEF Fits
    <3>2. d.meta.crc \in Seq(Chunks) /\ d.meta.received = Len(d.meta.crc)
      BY <3>1 DEF Sound, Content, Checkpoints
    <3>3. QED
      BY <2>2, <3>1, <3>2, LenProperties DEF Starts
  <2>5. QED
    BY <1>1, <2>1, <2>3, <2>4
<1>2. CASE offset # 0
  <2> DEFINE n == d.meta.received
  <2>1. Usable(d, total) /\ offset = n
    BY <1>2 DEF Begins
  <2>2. d.meta \in Checkpoints /\ d.part \in Seq(Chunks) /\ n \in Nat /\ n <= Len(d.part)
    BY <2>1 DEF Usable, Sound, Content, Checkpoints
  <2>3. n = Len(d.meta.crc) /\ d.meta.crc \in Seq(Chunks) /\ Starts(d.meta.crc, d.part)
    BY <2>1, <2>2 DEF Sound, Usable, Fits, Checkpoints
  <2>4. \A i \in 1 .. n : d.part[i] \in Chunks
    BY <2>2, ElementOfSeq, LenProperties
  <2>5. /\ SubSeq(d.part, 1, n) \in Seq(Chunks) /\ Len(SubSeq(d.part, 1, n)) = n
        /\ \A i \in 1 .. n : SubSeq(d.part, 1, n)[i] = d.part[i]
    BY <2>2, <2>4, SubSeqProperties
  <2>6. SubSeq(d.part, 1, n) = d.meta.crc
    BY <2>3, <2>5, SeqEqual DEF Starts
  <2>7. x = [mode |-> "Write", overwrite |-> overwrite, size |-> total, pos |-> n,
             crc |-> d.meta.crc, synced |-> n, fil |-> d.meta.crc, stale |-> FALSE]
    BY <1>2, <2>1, <2>6 DEF Opened
  <2>8. Counted(x)
    BY <2>2, <2>3, <2>7, StartsItself DEF Counted, Transfers
  <2>9. Fits(d.meta, x.fil)
    BY <2>3, <2>7, StartsItself DEF Fits
  <2>10. QED
    BY <1>2, <2>1, <2>7, <2>8, <2>9 DEF Usable, Entry
<1>3. QED
  BY <1>1, <1>2

\* However far FS_OPEN_WRITE gets, what it leaves can be resumed from; a full open is good.
LEMMA OpenIsSound ==
  ASSUME NEW d, Sound(d), NEW overwrite \in BOOLEAN, NEW total \in Nat, NEW offset \in Nat,
         Begins(d, total, offset)
  PROVE  LET x == Opened(d, overwrite, total, offset)
         IN  /\ \A e \in OpenFailed(d, x) : Sound(e) /\ e.final = d.final
             /\ Last(OpenPlan(d, x)) \in OpenFailed(d, x)
             /\ Good(Last(OpenPlan(d, x)), x)
<1> DEFINE x == Opened(d, overwrite, total, offset)
           p == IF x.pos = 0 THEN [d EXCEPT !.part = <<>>] ELSE d
           w == MetaWritten(p, x)
<1>1. /\ Counted(x) /\ x.mode = "Write" /\ ~x.stale
      /\ Fits(d.meta, x.fil) /\ x.pos = offset
      /\ offset > 0 => d.part # None /\ d.meta # None /\ Entry(x).received = d.meta.received
                       /\ Entry(x).crc = d.meta.crc
  BY OpenedIsCounted
<1> HIDE DEF x
<1>2. Sound(p) /\ p.final = d.final /\ p.meta = d.meta /\ (p.part # None => Fits(Entry(x), p.part))
  <2>1. CASE offset = 0
    <3>1. p = [d EXCEPT !.part = <<>>] /\ <<>> \in Seq(Chunks) /\ Len(<<>>) = 0
      BY <1>1, <2>1, EmptySeq
    <3>2. p \in Content /\ p.part = <<>> /\ p.meta = d.meta /\ p.final = d.final
      BY <3>1 DEF Sound, Content
    <3>3. x.crc \in Seq(Chunks) /\ Len(x.crc) = 0 /\ Entry(x).crc = x.crc
      BY <1>1, <2>1 DEF Counted, Transfers, Entry
    <3>4. Fits(Entry(x), p.part)
      BY <3>1, <3>2, <3>3 DEF Fits, Starts
    <3>5. Fits(d.meta, <<>>)
      <4>1. SUFFICES ASSUME d.meta # None, d.meta.received <= 0 PROVE Starts(d.meta.crc, <<>>)
        BY <3>1 DEF Fits
      <4>2. d.meta.crc \in Seq(Chunks) /\ d.meta.received = Len(d.meta.crc)
        BY <4>1 DEF Sound, Content, Checkpoints
      <4>3. QED
        BY <3>1, <4>1, <4>2, LenProperties DEF Starts
    <3>6. QED
      BY <3>2, <3>4, <3>5 DEF Sound
  <2>2. CASE offset > 0
    <3>1. p = d
      BY <1>1, <2>2
    <3>2. Fits(Entry(x), d.part)
      BY <1>1, <2>2 DEF Sound, Fits
    <3>3. QED
      BY <3>1, <3>2
  <2>3. QED
    BY <2>1, <2>2
<1>3. Sound(MetaEmptied(p)) /\ MetaEmptied(p).final = d.final /\ Fits(MetaEmptied(p).meta, x.fil)
  BY <1>2, MetaEmptiedIsSound DEF Fits
<1>4. Sound(w) /\ w.final = d.final /\ Follows(w.meta, x.fil) /\ Fits(w.meta, x.fil)
  <2>1. Sound(w) /\ w.final = d.final /\ Follows(w.meta, x.fil)
    BY <1>1, <1>2, MetaWrittenIsSound, ZenonT(60)
  <2>2. QED
    BY <2>1 DEF Follows, Fits
<1>5. Sound(Synced(w, x)) /\ Carries(Synced(w, x), x) /\ Synced(w, x).final = d.final
      /\ Synced(w, x).meta = w.meta
  BY <1>1, <1>4, SyncedIsSound
<1>6. During(OpenPlan(d, x)) = {d, p, MetaEmptied(p), w, Synced(w, x)}
  BY DEF During, OpenPlan
<1>7. Last(OpenPlan(d, x)) = Synced(w, x)
  BY DEF Last, OpenPlan
<1>8. \A e \in During(OpenPlan(d, x)) : Sound(e) /\ e.final = d.final /\ Fits(e.meta, x.fil)
  BY <1>1, <1>2, <1>3, <1>4, <1>5, <1>6
<1>9. \A e \in During(OpenPlan(d, x)) : Sound(Synced(e, x)) /\ Synced(e, x).final = d.final
  BY <1>1, <1>8, SyncedIsSound
<1>10. QED
  BY <1>1, <1>5, <1>6, <1>7, <1>8, <1>9 DEF OpenFailed, Good, x

\* FS_COMMIT of an upload whose handle and CRC agree on a whole file.
LEMMA CommitIsSound ==
  ASSUME NEW d, NEW x, Good(d, x), x.mode = "Write", ~x.stale, x.fil = x.crc, x.crc \in Files,
         NEW k \in DOMAIN CommitPlan(d, x)
  PROVE  LET e == CommitPlan(d, x)[k]
         IN  /\ Sound(e)
             /\ k <= 2 => e.final = d.final
             /\ e.final = None => e.final = d.final \/ e.part \in Files
<1> DEFINE s == Synced(d, x)
           u == [s EXCEPT !.final = None]
           r == [u EXCEPT !.final = s.part, !.part = None]
<1>1. Sound(s) /\ s.final = d.final /\ s.part = x.fil /\ s.part \in Files
  BY SyncedIsGood DEF Good
<1>2. Sound(u) /\ u.final = None /\ u.part \in Files
  BY <1>1 DEF Sound, Content, Fits
<1>3. r \in Content /\ r.final = s.part /\ r.part = None /\ r.meta = s.meta
  BY <1>1, FsAssumption DEF Sound, Content
<1>4. Sound(r) /\ r.final # None
  BY <1>1, <1>3, FsAssumption DEF Sound
<1>5. Sound(MetaEmptied(r)) /\ MetaEmptied(r).final # None
  BY <1>4, MetaEmptiedIsSound
<1>6. CommitPlan(d, x) = <<d, s, u, r, MetaEmptied(r)>>
  BY DEF CommitPlan
<1>7. k \in 1 .. 5
  BY <1>6
<1> HIDE DEF s, u, r
<1>8. CASE k = 1
  BY <1>6, <1>8 DEF Good
<1>9. CASE k = 2
  BY <1>1, <1>6, <1>9
<1>10. CASE k = 3
  BY <1>2, <1>6, <1>10
<1>11. CASE k = 4
  BY <1>4, <1>6, <1>11
<1>12. CASE k = 5
  BY <1>5, <1>6, <1>12
<1>13. QED
  BY <1>7, <1>8, <1>9, <1>10, <1>11, <1>12

-----------------------------------------------------------------------------
(* The inductive invariant                                                 *)

\* With one card, whatever is mounted is what the open upload writes to.  (Of two cards, an
\* upload that was opened on the one may leave its checkpoint beside the other's .part.)
OneCard == \A a, b \in Cards : a = b

\* What is open, and what the counters and the rest of the state are.
SessionOK ==
  /\ card \in Cards \cup {NoCard}
  /\ state \in {"Unmounted", "Mounted", "NoCard"}
  /\ Counted(xfer) /\ (xfer.mode = "Write" => xfer.fil = xfer.crc)
  /\ locked \in BOOLEAN
  /\ kept \in [total : Nat, acked : Nat]
  /\ faults \in 0 .. MaxFaults /\ cuts \in 0 .. MaxCuts

CardsOK ==
  /\ disk \in [Cards -> Content]
  /\ \A c \in Cards : Sound(disk[c]) /\ Carries(disk[c], xfer)

StagingInv == SessionOK /\ CardsOK

\* What a step does to the cards: nothing, or it leaves e on the mounted one, where the path
\* keeps its promises.
Lands(e) ==
  /\ card \in Cards
  /\ disk' = [disk EXCEPT ![card] = e]
  /\ Sound(e) /\ Carries(e, xfer')
  /\ xfer.mode = "Write" /\ e.final = None => e.final = Here.final \/ e.part \in Files
  /\ locked /\ e.final # Here.final => Complete /\ ~TargetRefused(Here) /\ xfer' = NoTransfer

CardsStep == (disk' = disk /\ \A c \in Cards : Carries(disk[c], xfer')) \/ \E e : Lands(e)

\* One handler, checked: StagingInv holds after it, and the path is guarded.
Kept == SessionOK' /\ CardsStep

LEMMA NoTransferIsCounted == Counted(NoTransfer) /\ \A d : Carries(d, NoTransfer)
<1>1. <<>> \in Seq(Chunks)
  BY EmptySeq
<1>2. QED
  BY <1>1 DEF NoTransfer, Counted, Transfers, Carries

LEMMA HereIsGood ==
  ASSUME StagingInv, card # NoCard
  PROVE  card \in Cards /\ Good(Here, xfer)
  BY DEF StagingInv, SessionOK, CardsOK, Here, Good

LEMMA SpendCounts ==
  ASSUME StagingInv, NEW n \in Nat, Spend(n)
  PROVE  faults' \in 0 .. MaxFaults
  BY FsAssumption DEF StagingInv, SessionOK, Spend

LEMMA MountTypes ==
  ASSUME StagingInv, NEW m \in EnsureMounted
  PROVE  /\ m.ok \in BOOLEAN /\ m.state \in {"Unmounted", "Mounted", "NoCard"}
         /\ m.stale \in BOOLEAN /\ m.cost \in {0, 1}
<1>1. state \in {"Unmounted", "Mounted", "NoCard"}
  BY DEF StagingInv, SessionOK
<1>2. PICK ok \in BOOLEAN, result \in {"Unmounted", "Mounted", "NoCard"}, outdates \in BOOLEAN,
           cost \in {0, 1} : m = Mounting(ok, result, outdates, cost)
  <2>1. CASE state = "Mounted"
    BY <2>1 DEF EnsureMounted
  <2>2. CASE state # "Mounted"
    BY <1>1, <2>2 DEF EnsureMounted
  <2>3. QED
    BY <2>1, <2>2
<1>3. /\ m.ok = ok /\ m.state = result /\ m.cost = cost
      /\ m.stale = (xfer.stale \/ (outdates /\ xfer.mode # "None"))
  BY <1>2 DEF Mounting
<1>4. QED
  BY <1>3

\* A handle that is outdated, or not.
LEMMA RestaledIsGood ==
  ASSUME NEW x, Counted(x), NEW b \in BOOLEAN
  PROVE  LET y == [x EXCEPT !.stale = b]
         IN  /\ Counted(y) /\ y.mode = x.mode /\ y.fil = x.fil /\ y.crc = x.crc
             /\ y.pos = x.pos /\ y.size = x.size
             /\ \A d : Carries(d, x) => Carries(d, y)
  BY DEF Counted, Transfers, Carries

\* A handler that ends the transfer on what CloseTransfer leaves.
LEMMA CloseLands ==
  ASSUME StagingInv, card # NoCard, NEW x, Good(Here, x), NEW c \in Closed(Here, x),
         disk' = [disk EXCEPT ![card] = c.to], \A d : Carries(d, xfer')
  PROVE  CardsStep /\ c.cost \in {0, 1}
<1>1. card \in Cards
  BY HereIsGood
<1>2. Good(c.to, x) /\ c.to.final = Here.final /\ c.cost \in {0, 1}
  BY ClosedIsGood
<1>3. Lands(c.to)
  BY <1>1, <1>2 DEF Lands, Good
<1>4. QED
  BY <1>2, <1>3 DEF CardsStep

-----------------------------------------------------------------------------
(* The handlers                                                            *)

LEMMA Restaled ==
  ASSUME StagingInv, NEW b \in BOOLEAN, xfer' = [xfer EXCEPT !.stale = b]
  PROVE  /\ Counted(xfer') /\ (xfer'.mode = "Write" => xfer'.fil = xfer'.crc)
         /\ \A d : Carries(d, xfer) => Carries(d, xfer')
         /\ \A c \in Cards : Carries(disk[c], xfer')
<1>1. Counted(xfer) /\ (xfer.mode = "Write" => xfer.fil = xfer.crc)
  BY DEF StagingInv, SessionOK
<1>2. \A c \in Cards : Carries(disk[c], xfer)
  BY DEF StagingInv, CardsOK
<1>3. QED
  BY <1>1, <1>2, RestaledIsGood

LEMMA Ended ==
  ASSUME xfer' = NoTransfer
  PROVE  /\ Counted(xfer') /\ (xfer'.mode = "Write" => xfer'.fil = xfer'.crc)
         /\ \A d : Carries(d, xfer')
<1>1. NoTransfer.mode = "None"
  BY DEF NoTransfer
<1>2. QED
  BY <1>1, NoTransferIsCounted

LEMMA QueryKeeps == ASSUME StagingInv, OnQuery PROVE Kept
<1>1. PICK m \in EnsureMounted :
        /\ Spend(m.cost) /\ state' = m.state /\ xfer' = [xfer EXCEPT !.stale = m.stale]
        /\ UNCHANGED <<disk, card, locked, kept, cuts>>
  BY DEF OnQuery
<1>2. m.state \in {"Unmounted", "Mounted", "NoCard"} /\ m.stale \in BOOLEAN /\ m.cost \in {0, 1}
  BY MountTypes
<1>3. faults' \in 0 .. MaxFaults
  BY <1>1, <1>2, SpendCounts
<1>4. QED
  BY <1>1, <1>2, <1>3, Restaled DEF Kept, SessionOK, CardsStep, StagingInv

LEMMA IoErrorKeeps == ASSUME StagingInv, OnIoError PROVE Kept
<1>1. PICK m \in EnsureMounted :
        /\ Spend(IF card = NoCard THEN 0 ELSE 1) /\ state' = "Unmounted"
        /\ xfer' = [xfer EXCEPT !.stale = m.stale] \/ xfer' = NoTransfer
        /\ UNCHANGED <<disk, card, locked, kept, cuts>>
  BY DEF OnIoError
<1>2. m.stale \in BOOLEAN
  BY MountTypes
<1>3. faults' \in 0 .. MaxFaults
  BY <1>1, SpendCounts
<1>4. /\ Counted(xfer') /\ (xfer'.mode = "Write" => xfer'.fil = xfer'.crc)
      /\ \A c \in Cards : Carries(disk[c], xfer')
  BY <1>1, <1>2, Restaled, Ended
<1>5. QED
  BY <1>1, <1>3, <1>4 DEF Kept, SessionOK, CardsStep, StagingInv

\* FS_CLOSE, the timeout, a refused chunk, a bad CRC.
LEMMA CloseKeeps ==
  ASSUME StagingInv, Close(xfer, state), xfer' = NoTransfer, UNCHANGED <<card, locked, kept, cuts>>
  PROVE  Kept
<1>1. \A d : Carries(d, xfer')
  BY Ended
<1>2. CASE card = NoCard
  <2>1. disk' = disk /\ Spend(0) /\ state' = state
    BY <1>2 DEF Close
  <2>2. QED
    BY <1>1, <2>1, Ended, SpendCounts DEF Kept, SessionOK, CardsStep, StagingInv
<1>3. CASE card # NoCard
  <2>1. PICK c \in Closed(Here, xfer) :
          disk' = [disk EXCEPT ![card] = c.to] /\ Spend(c.cost) /\ state' = state
    BY <1>3 DEF Close, Leave
  <2>2. CardsStep /\ c.cost \in {0, 1}
    BY <1>1, <1>3, <2>1, HereIsGood, CloseLands
  <2>3. faults' \in 0 .. MaxFaults
    BY <2>1, <2>2, SpendCounts
  <2>4. QED
    BY <2>1, <2>2, <2>3, Ended DEF Kept, SessionOK, StagingInv
<1>4. QED
  BY <1>2, <1>3

\* What a command leaves on the mounted card when the path stays as it was.
LEMMA SoundLands ==
  ASSUME StagingInv, card # NoCard, NEW e, Sound(e), e.final = Here.final, Carries(e, xfer'),
         Leave(e)
  PROVE  CardsStep
  BY HereIsGood DEF CardsStep, Lands, Leave

\* The previous transfer is closed, its handle outdated or not.
LEMMA PreviousCloses ==
  ASSUME StagingInv, card # NoCard, NEW b \in BOOLEAN,
         NEW c \in Closed(Here, [xfer EXCEPT !.stale = b])
  PROVE  Sound(c.to) /\ c.to.final = Here.final /\ c.cost \in {0, 1}
<1> DEFINE y == [xfer EXCEPT !.stale = b]
<1>1. Good(Here, y)
  BY HereIsGood, RestaledIsGood DEF Good
<1>2. QED
  BY <1>1, ClosedIsGood DEF Good

LEMMA OpenWriteKeeps == ASSUME StagingInv, OnOpenWrite PROVE Kept
<1>1. PICK m \in EnsureMounted, r \in Requests :
        /\ m.ok /\ ~locked /\ card # NoCard
        /\ \E c \in Closed(Here, [xfer EXCEPT !.stale = m.stale]) :
             OpenRefused(m, c, r) \/ OpenGoesOn(m, c, r)
        /\ UNCHANGED <<card, locked, cuts>>
  BY DEF OnOpenWrite
<1>2. m.state \in {"Unmounted", "Mounted", "NoCard"} /\ m.stale \in BOOLEAN
  BY MountTypes
<1>3. r.overwrite \in BOOLEAN /\ r.total \in Nat
  BY FsAssumption, LenProperties DEF Requests, Sizes, Size
<1>4. PICK c \in Closed(Here, [xfer EXCEPT !.stale = m.stale]) :
        OpenRefused(m, c, r) \/ OpenGoesOn(m, c, r)
  BY <1>1
<1>5. Sound(c.to) /\ c.to.final = Here.final /\ c.cost \in {0, 1}
  BY <1>1, <1>2, PreviousCloses
<1>6. CASE OpenRefused(m, c, r)
  <2>1. PICK cost \in {0, 1} :
          /\ Spend(c.cost + cost) /\ Leave(c.to)
          /\ state' \in (IF cost = 0 THEN {m.state} ELSE Blamed)
          /\ xfer' = NoTransfer /\ UNCHANGED kept
    BY <1>6 DEF OpenRefused
  <2>2. faults' \in 0 .. MaxFaults
    BY <1>5, <2>1, SpendCounts
  <2>3. CardsStep
    BY <1>1, <1>5, <2>1, Ended, SoundLands
  <2>4. state' \in {"Unmounted", "Mounted", "NoCard"}
    BY <1>2, <2>1 DEF Blamed
  <2>5. QED
    BY <1>1, <2>1, <2>2, <2>3, <2>4, Ended DEF Kept, SessionOK, StagingInv
<1>7. CASE OpenGoesOn(m, c, r)
  <2>1. PICK offset \in {0, ResumeOffset(c.to, r.total)}, lost \in {0, 1} :
          OpenSucceeds(m, c, r, offset, lost) \/ OpenFails(c, r, offset, lost)
    BY <1>7 DEF OpenGoesOn
  <2>2. Begins(c.to, r.total, offset)
    BY <2>1, ResumeBegins
  <2>3. offset \in Nat
    BY <1>5, <2>1 DEF ResumeOffset, Usable, Sound, Content, Checkpoints
  <2> DEFINE x == Opened(c.to, r.overwrite, r.total, offset)
  <2>4. Counted(x) /\ x.fil = x.crc
    BY <1>3, <1>5, <2>2, OpenedIsCounted
  <2>5. /\ \A e \in OpenFailed(c.to, x) : Sound(e) /\ e.final = c.to.final
        /\ Last(OpenPlan(c.to, x)) \in OpenFailed(c.to, x)
        /\ Good(Last(OpenPlan(c.to, x)), x)
    BY <1>3, <1>5, <2>2, <2>3, OpenIsSound
  <2>6. CASE OpenSucceeds(m, c, r, offset, lost)
    <3>1. /\ Spend(c.cost + lost) /\ Leave(Last(OpenPlan(c.to, x)))
          /\ state' = m.state /\ xfer' = x
          /\ kept' = [total |-> r.total, acked |-> offset]
      BY <2>6 DEF OpenSucceeds
    <3> HIDE DEF x
    <3>2. faults' \in 0 .. MaxFaults
      BY <1>5, <2>1, <3>1, SpendCounts
    <3>3. CardsStep
      BY <1>1, <1>5, <2>5, <3>1, SoundLands DEF Good
    <3>4. kept' \in [total : Nat, acked : Nat]
      BY <1>3, <2>3, <3>1
    <3>5. QED
      BY <1>1, <1>2, <2>4, <3>1, <3>2, <3>3, <3>4 DEF Kept, SessionOK, StagingInv
  <2>7. CASE OpenFails(c, r, offset, lost)
    <3>1. PICK e \in OpenFailed(c.to, x) : Leave(e)
      BY <2>7 DEF OpenFails
    <3>2. Spend(c.cost + lost + 1) /\ state' \in Blamed /\ xfer' = NoTransfer /\ kept' = Nothing
      BY <2>7 DEF OpenFails
    <3> HIDE DEF x
    <3>3. faults' \in 0 .. MaxFaults
      BY <1>5, <2>1, <3>2, SpendCounts
    <3>4. CardsStep
      BY <1>1, <1>5, <2>5, <3>1, <3>2, Ended, SoundLands
    <3>5. kept' \in [total : Nat, acked : Nat] /\ state' \in {"Unmounted", "Mounted", "NoCard"}
      BY <3>2 DEF Nothing, Blamed
    <3>6. QED
      BY <1>1, <3>2, <3>3, <3>4, <3>5, Ended DEF Kept, SessionOK, StagingInv
  <2>8. QED
    BY <2>1, <2>6, <2>7
<1>8. QED
  BY <1>4, <1>6, <1>7

\* A chunk more: the handle and the CRC grow together.
LEMMA GrownIsGood ==
  ASSUME NEW d, Good(d, xfer), xfer.mode = "Write", xfer.fil = xfer.crc, NEW chunk \in Chunks
  PROVE  LET x == Grown(chunk)
         IN  Good(d, x) /\ x.mode = "Write" /\ x.fil = x.crc /\ x.stale = xfer.stale
             /\ x.size = xfer.size /\ x.pos = xfer.pos + 1
<1> DEFINE x == Grown(chunk)
<1>1. xfer \in Transfers /\ xfer.pos = Len(xfer.crc) /\ xfer.crc \in Seq(Chunks)
  BY DEF Good, Counted, Transfers
<1>2. x = [xfer EXCEPT !.fil = Append(xfer.fil, chunk), !.pos = xfer.pos + 1,
                       !.crc = Append(xfer.crc, chunk)]
  BY DEF Grown
<1>3. /\ Append(xfer.crc, chunk) \in Seq(Chunks)
      /\ Len(Append(xfer.crc, chunk)) = Len(xfer.crc) + 1
      /\ \A i \in 1 .. Len(xfer.crc) : Append(xfer.crc, chunk)[i] = xfer.crc[i]
  BY <1>1, AppendProperties
<1>4. /\ x \in Transfers /\ x.mode = "Write" /\ x.fil = Append(xfer.fil, chunk) /\ x.crc = x.fil
      /\ x.stale = xfer.stale /\ x.size = xfer.size /\ x.pos = xfer.pos + 1 /\ x.pos = Len(x.crc)
  <2>1. /\ x.fil = Append(xfer.fil, chunk) /\ x.crc = Append(xfer.crc, chunk) /\ x.pos = xfer.pos + 1
        /\ x.mode = "Write" /\ x.stale = xfer.stale /\ x.size = xfer.size
    BY <1>1, <1>2 DEF Transfers
  <2>2. x \in Transfers
    <3>1. Append(xfer.fil, chunk) \in Seq(Chunks) /\ xfer.pos + 1 \in Nat
      BY <1>1, <1>3 DEF Transfers
    <3>2. QED
      BY <1>1, <1>2, <1>3, <3>1 DEF Transfers
  <2>3. QED
    BY <1>1, <1>3, <2>1, <2>2
<1>5. Counted(x)
  BY <1>4, StartsItself DEF Counted, Transfers
<1>6. ASSUME NEW s \in Seq(Chunks), Starts(s, xfer.fil) PROVE Starts(s, x.fil)
  BY <1>1, <1>4, <1>6, StartsGrown
<1>7. Carries(d, x)
  <2>1. d.part # None => d.part \in Seq(Chunks)
    BY DEF Good, Sound, Content
  <2>2. d.meta # None => d.meta.crc \in Seq(Chunks)
    BY DEF Good, Sound, Content, Checkpoints
  <2>3. QED
    BY <1>6, <2>1, <2>2 DEF Good, Carries, Follows
<1>8. QED
  BY <1>4, <1>5, <1>7 DEF Good

LEMMA WriteKeeps == ASSUME StagingInv, OnWrite PROVE Kept
<1>1. PICK chunk \in Chunks :
        /\ xfer.mode = "Write" /\ ~xfer.stale /\ card # NoCard
        /\ LET x == Grown(chunk)
           IN  \/ /\ xfer' = x /\ kept' = [kept EXCEPT !.acked = x.pos]
                  /\ UNCHANGED <<disk, state, faults>>
               \/ /\ Leave(Last(CheckpointPlan(Here, x))) /\ xfer' = [x EXCEPT !.synced = x.pos]
                  /\ kept' = [kept EXCEPT !.acked = x.pos] /\ UNCHANGED <<state, faults>>
               \/ /\ Spend(1) /\ xfer' = NoTransfer /\ UNCHANGED <<state, kept>>
                  /\ \E e \in During(CheckpointPlan(Here, x)) : Leave(e) \/ Leave(Synced(e, x))
        /\ UNCHANGED <<card, locked, cuts>>
  BY DEF OnWrite, Writing
<1> DEFINE x == Grown(chunk)
<1>2. /\ card \in Cards /\ Good(Here, xfer) /\ xfer.fil = xfer.crc
      /\ \A c \in Cards : Good(disk[c], xfer)
  BY <1>1, HereIsGood DEF StagingInv, SessionOK, CardsOK, Good
<1>3. Good(Here, x) /\ x.mode = "Write" /\ x.fil = x.crc /\ x.stale = xfer.stale
  BY <1>1, <1>2, GrownIsGood
<1>4. \A c \in Cards : Carries(disk[c], x)
  BY <1>1, <1>2, GrownIsGood DEF Good
<1>5. x \in Transfers /\ x.pos \in Nat
  BY <1>3 DEF Good, Counted, Transfers
<1> HIDE DEF x
<1>6. [kept EXCEPT !.acked = x.pos] \in [total : Nat, acked : Nat]
  BY <1>5 DEF StagingInv, SessionOK
<1>7. CASE /\ xfer' = x /\ kept' = [kept EXCEPT !.acked = x.pos]
           /\ UNCHANGED <<disk, state, faults>>
  <2>1. CardsStep
    BY <1>4, <1>7 DEF CardsStep
  <2>2. QED
    BY <1>1, <1>3, <1>6, <1>7, <2>1 DEF Kept, SessionOK, StagingInv, Good
<1>8. CASE /\ Leave(Last(CheckpointPlan(Here, x))) /\ xfer' = [x EXCEPT !.synced = x.pos]
           /\ kept' = [kept EXCEPT !.acked = x.pos] /\ UNCHANGED <<state, faults>>
  <2> DEFINE e == Last(CheckpointPlan(Here, x))
  <2>1. Good(e, x) /\ e.final = Here.final
    BY <1>3, CheckpointEnds, CheckpointIsGood
  <2> HIDE DEF e
  <2>2. /\ xfer' \in Transfers /\ xfer'.mode = "Write" /\ xfer'.fil = x.fil
        /\ xfer'.crc = x.crc /\ xfer'.pos = x.pos
    BY <1>3, <1>5, <1>8 DEF Transfers
  <2>3. Counted(xfer') /\ xfer'.fil = xfer'.crc /\ Carries(e, xfer')
    BY <1>3, <2>1, <2>2 DEF Counted, Good, Carries
  <2>4. CardsStep
    BY <1>1, <1>8, <2>1, <2>3, SoundLands DEF Good, e
  <2>5. QED
    BY <1>1, <1>6, <1>8, <2>3, <2>4 DEF Kept, SessionOK, StagingInv
<1>9. CASE /\ Spend(1) /\ xfer' = NoTransfer /\ UNCHANGED <<state, kept>>
           /\ \E e \in During(CheckpointPlan(Here, x)) : Leave(e) \/ Leave(Synced(e, x))
  <2>1. PICK e \in During(CheckpointPlan(Here, x)) : Leave(e) \/ Leave(Synced(e, x))
    BY <1>9
  <2>2. Good(e, x) /\ e.final = Here.final
    BY <1>3, CheckpointIsGood
  <2>3. Good(Synced(e, x), x) /\ Synced(e, x).final = Here.final
    BY <1>3, <2>2, SyncedIsGood
  <2>4. CardsStep
    BY <1>1, <1>9, <2>1, <2>2, <2>3, Ended, SoundLands DEF Good
  <2>5. QED
    BY <1>1, <1>9, <2>4, Ended, SpendCounts DEF Kept, SessionOK, StagingInv
<1>10. QED
  BY <1>1, <1>7, <1>8, <1>9 DEF x

LEMMA WriteFailsKeeps == ASSUME StagingInv, OnWriteFails PROVE Kept
<1>1. PICK cost \in {0, 1}, chunk \in Chunks, part \in BOOLEAN :
        LET x == IF part /\ cost = 1 THEN [xfer EXCEPT !.fil = Append(@, chunk)] ELSE xfer
        IN  /\ IF card = NoCard
                 THEN disk' = disk /\ Spend(cost)
                 ELSE \E c \in Closed(Here, x) : Leave(c.to) /\ Spend(c.cost + cost)
            /\ state' \in (IF cost = 0 THEN {"Unmounted"} ELSE {state, "Unmounted"})
  BY DEF OnWriteFails
<1>2. xfer' = NoTransfer /\ xfer.mode = "Write" /\ UNCHANGED <<card, locked, kept, cuts>>
  BY DEF OnWriteFails, Writing
<1>3. state' \in {"Unmounted", "Mounted", "NoCard"}
  BY <1>1 DEF StagingInv, SessionOK
<1>4. CASE card = NoCard
  BY <1>1, <1>2, <1>3, <1>4, Ended, SpendCounts DEF Kept, SessionOK, CardsStep, StagingInv
<1>5. CASE card # NoCard
  <2> DEFINE x == IF part /\ cost = 1 THEN [xfer EXCEPT !.fil = Append(@, chunk)] ELSE xfer
  <2>1. PICK c \in Closed(Here, x) : Leave(c.to) /\ Spend(c.cost + cost)
    BY <1>1, <1>5
  <2>2. Good(Here, xfer) /\ card \in Cards
    BY <1>5, HereIsGood
  <2>3. xfer \in Transfers /\ xfer.fil \in Seq(Chunks)
    BY <2>2 DEF Good, Counted, Transfers
  <2>4. /\ Append(xfer.fil, chunk) \in Seq(Chunks)
        /\ Len(Append(xfer.fil, chunk)) = Len(xfer.fil) + 1
        /\ \A i \in 1 .. Len(xfer.fil) : Append(xfer.fil, chunk)[i] = xfer.fil[i]
    BY <2>3, AppendProperties
  <2>5. /\ x \in Transfers /\ x.mode = "Write" /\ x.crc = xfer.crc /\ x.pos = xfer.pos
        /\ x.fil \in {xfer.fil, Append(xfer.fil, chunk)}
    BY <1>2, <2>3, <2>4 DEF Transfers
  <2> HIDE DEF x
  <2>6. ASSUME NEW s \in Seq(Chunks), Starts(s, xfer.fil) PROVE Starts(s, x.fil)
    BY <2>3, <2>5, <2>6, StartsGrown
  <2>7. Counted(x)
    BY <1>2, <2>2, <2>3, <2>5, <2>6 DEF Good, Counted, Transfers
  <2>8. Carries(Here, x)
    <3>1. Here.part # None => Here.part \in Seq(Chunks)
      BY <2>2 DEF Good, Sound, Content
    <3>2. Here.meta # None => Here.meta.crc \in Seq(Chunks)
      BY <2>2 DEF Good, Sound, Content, Checkpoints
    <3>3. QED
      BY <1>2, <2>2, <2>6, <3>1, <3>2 DEF Good, Carries, Follows
  <2>9. Good(Here, x)
    BY <2>2, <2>7, <2>8 DEF Good
  <2>10. CardsStep /\ c.cost \in {0, 1}
    BY <1>2, <1>5, <2>1, <2>9, CloseLands, Ended DEF Leave
  <2>11. faults' \in 0 .. MaxFaults
    BY <2>1, <2>10, SpendCounts
  <2>12. QED
    BY <1>2, <1>3, <2>10, <2>11, Ended DEF Kept, SessionOK, StagingInv
<1>6. QED
  BY <1>4, <1>5

LEMMA CommitKeeps == ASSUME StagingInv, OnCommit PROVE Kept
<1>1. PICK f \in Files : xfer.crc = f
  BY DEF OnCommit, CrcMatches
<1>2. /\ Complete /\ xfer.mode = "Write" /\ xfer' = NoTransfer /\ kept' = Nothing
      /\ UNCHANGED <<card, locked, cuts>>
  BY DEF OnCommit, Complete, Writing
<1>3. kept' \in [total : Nat, acked : Nat]
  BY <1>2 DEF Nothing
<1> DEFINE plan == CommitPlan(Here, xfer)
<1>4. CASE state' = "Unmounted" /\ UNCHANGED <<disk, faults>>
  BY <1>2, <1>3, <1>4, Ended DEF Kept, SessionOK, CardsStep, StagingInv
<1>5. CASE /\ card # NoCard /\ ~xfer.stale
           /\ \E k \in DOMAIN plan : (TargetRefused(Here) => k <= 2) /\ Leave(plan[k])
           /\ faults' = faults \/ Spend(1)
           /\ state' \in {state, "Unmounted"}
  <2>1. PICK k \in DOMAIN plan : (TargetRefused(Here) => k <= 2) /\ Leave(plan[k])
    BY <1>5
  <2>2. card \in Cards /\ Good(Here, xfer) /\ xfer.fil = xfer.crc
    BY <1>2, <1>5, HereIsGood DEF StagingInv, SessionOK
  <2>3. /\ Sound(plan[k]) /\ (plan[k].final = None => plan[k].final = Here.final \/ plan[k].part \in Files)
        /\ TargetRefused(Here) => plan[k].final = Here.final
    BY <1>1, <1>2, <1>5, <2>1, <2>2, CommitIsSound
  <2> HIDE DEF plan
  <2>4. Lands(plan[k])
    BY <1>2, <2>1, <2>2, <2>3, Ended DEF Lands, Leave
  <2>5. faults' \in 0 .. MaxFaults
    BY <1>5, SpendCounts DEF StagingInv, SessionOK
  <2>6. QED
    BY <1>2, <1>3, <1>5, <2>4, <2>5, Ended DEF Kept, SessionOK, CardsStep, StagingInv
<1>6. \/ state' = "Unmounted" /\ UNCHANGED <<disk, faults>>
      \/ /\ card # NoCard /\ ~xfer.stale
         /\ \/ /\ TargetRefused(Here) /\ Leave(plan[2]) /\ UNCHANGED <<state, faults>>
            \/ /\ ~TargetRefused(Here) /\ Leave(Last(plan)) /\ UNCHANGED <<state, faults>>
            \/ /\ Spend(1) /\ state' \in {state, "Unmounted"}
               /\ \E k \in DOMAIN plan : (TargetRefused(Here) => k <= 2) /\ Leave(plan[k])
  BY DEF OnCommit
<1>7. 2 \in DOMAIN plan /\ 2 <= 2 /\ 5 \in DOMAIN plan /\ Last(plan) = plan[5]
  BY DEF CommitPlan, Last
<1> HIDE DEF plan
<1>8. QED
  BY <1>4, <1>5, <1>6, <1>7

LEMMA OpenReadKeeps == ASSUME StagingInv, OnOpenRead PROVE Kept
<1>1. PICK m \in EnsureMounted :
        /\ card # NoCard
        /\ \E c \in Closed(Here, [xfer EXCEPT !.stale = m.stale]) :
             /\ Leave(c.to)
             /\ \/ Spend(c.cost) /\ state' = m.state /\ xfer' = [NoTransfer EXCEPT !.mode = "Read"]
                \/ Spend(c.cost) /\ state' = m.state /\ xfer' = NoTransfer
                \/ Spend(c.cost + 1) /\ state' \in Blamed /\ xfer' = NoTransfer
        /\ UNCHANGED <<card, locked, kept, cuts>>
  BY DEF OnOpenRead
<1>2. m.state \in {"Unmounted", "Mounted", "NoCard"} /\ m.stale \in BOOLEAN
  BY MountTypes
<1>3. PICK c \in Closed(Here, [xfer EXCEPT !.stale = m.stale]) :
        /\ Leave(c.to)
        /\ \/ Spend(c.cost) /\ state' = m.state /\ xfer' = [NoTransfer EXCEPT !.mode = "Read"]
           \/ Spend(c.cost) /\ state' = m.state /\ xfer' = NoTransfer
           \/ Spend(c.cost + 1) /\ state' \in Blamed /\ xfer' = NoTransfer
  BY <1>1
<1>4. Sound(c.to) /\ c.to.final = Here.final /\ c.cost \in {0, 1}
  BY <1>1, <1>2, PreviousCloses
<1>5. Counted(xfer') /\ xfer'.mode # "Write" /\ \A d : Carries(d, xfer')
  <2>1. [NoTransfer EXCEPT !.mode = "Read"] \in Transfers
    BY NoTransferIsCounted DEF Counted, Transfers
  <2>2. [NoTransfer EXCEPT !.mode = "Read"].mode = "Read" /\ NoTransfer.mode = "None"
    BY DEF NoTransfer
  <2>3. QED
    BY <1>3, <2>1, <2>2, NoTransferIsCounted DEF Counted, Carries
<1>6. CardsStep
  BY <1>1, <1>3, <1>4, <1>5, SoundLands
<1>7. faults' \in 0 .. MaxFaults
  BY <1>3, <1>4, SpendCounts
<1>8. state' \in {"Unmounted", "Mounted", "NoCard"}
  BY <1>2, <1>3 DEF Blamed
<1>9. QED
  BY <1>1, <1>5, <1>6, <1>7, <1>8 DEF Kept, SessionOK, StagingInv

LEMMA ReadFailsKeeps == ASSUME StagingInv, OnReadFails PROVE Kept
<1>1. /\ Spend(IF xfer.stale \/ card = NoCard THEN 0 ELSE 1)
      /\ state' = "Unmounted" /\ xfer' = NoTransfer /\ UNCHANGED <<disk, card, locked, kept, cuts>>
  BY DEF OnReadFails
<1>2. faults' \in 0 .. MaxFaults
  BY <1>1, SpendCounts
<1>3. QED
  BY <1>1, <1>2, Ended DEF Kept, SessionOK, CardsStep, StagingInv

\* What a file manager does to a card leaves it sound.
LEMMA EditIsSound ==
  ASSUME NEW d, Sound(d), NEW e \in Edits(d)
  PROVE  Sound(e)
<1>1. CASE e = [d EXCEPT !.part = None]
  BY <1>1 DEF Sound, Content, Fits
<1>2. CASE e = [d EXCEPT !.meta = None]
  BY <1>2 DEF Sound, Content, Fits
<1>3. CASE \E f \in Files \cup {None} : e = [d EXCEPT !.final = f]
  BY <1>3, FsAssumption DEF Sound, Content, Fits
<1>4. QED
  BY <1>1, <1>2, <1>3 DEF Edits

LEMMA DeleteOrRenameKeeps == ASSUME StagingInv, OnDeleteOrRename PROVE Kept
<1>1. PICK m \in EnsureMounted, e \in Edits(Here) :
        /\ card # NoCard /\ Allowed(Here, e) /\ Leave(e)
        /\ kept' = IF e.final = Here.final THEN Nothing ELSE kept
        /\ Spend(m.cost) /\ state' = m.state /\ xfer' = [xfer EXCEPT !.stale = m.stale]
        /\ UNCHANGED <<card, locked, cuts>>
  BY DEF OnDeleteOrRename
<1>2. m.state \in {"Unmounted", "Mounted", "NoCard"} /\ m.stale \in BOOLEAN /\ m.cost \in {0, 1}
  BY MountTypes
<1>3. card \in Cards /\ Good(Here, xfer)
  BY <1>1, HereIsGood
<1>4. xfer.mode # "Write" /\ (locked => e.final = Here.final)
  BY <1>1 DEF Allowed, Collides
<1>5. xfer \in Transfers /\ xfer'.mode # "Write"
  BY <1>1, <1>3, <1>4 DEF Good, Counted, Transfers
<1>6. Sound(e)
  BY <1>3, EditIsSound DEF Good
<1>7. CardsStep
  BY <1>1, <1>3, <1>4, <1>5, <1>6 DEF CardsStep, Lands, Carries, Leave
<1>8. faults' \in 0 .. MaxFaults
  BY <1>1, <1>2, SpendCounts
<1>9. kept' \in [total : Nat, acked : Nat]
  BY <1>1 DEF StagingInv, SessionOK, Nothing
<1>10. QED
  BY <1>1, <1>2, <1>7, <1>8, <1>9, Restaled DEF Kept, SessionOK, StagingInv

\* The firmware's own recording.
LEMMA LockKeeps == ASSUME StagingInv, Lock PROVE Kept
<1> DEFINE e == [Here EXCEPT !.final = Recording]
<1>1. /\ ~locked /\ card # NoCard /\ locked' = TRUE /\ Leave(e)
      /\ UNCHANGED <<card, state, xfer, kept, faults, cuts>>
  BY DEF Lock
<1>2. card \in Cards /\ Good(Here, xfer)
  BY <1>1, HereIsGood
<1>3. /\ e \in Content /\ e.final = Recording /\ e.part = Here.part /\ e.meta = Here.meta
      /\ Recording # None
  BY <1>2, FsAssumption DEF Good, Sound, Content
<1> HIDE DEF e
<1>4. Sound(e) /\ Carries(e, xfer)
  BY <1>2, <1>3 DEF Good, Sound, Carries
<1>5. CardsStep
  BY <1>1, <1>2, <1>3, <1>4 DEF CardsStep, Lands, Leave
<1>6. QED
  BY <1>1, <1>5 DEF Kept, SessionOK, StagingInv

LEMMA UnlockKeeps == ASSUME StagingInv, Unlock PROVE Kept
  BY DEF Kept, SessionOK, CardsStep, StagingInv, CardsOK, Unlock

LEMMA ChangeCardKeeps == ASSUME StagingInv, ChangeCard PROVE Kept
<1>1. /\ Spend(IF card = NoCard THEN 0 ELSE 1)
      /\ card' \in Cards \cup {NoCard}
      /\ xfer' = [xfer EXCEPT !.stale = (xfer.mode # "None")]
      /\ UNCHANGED <<disk, state, locked, kept, cuts>>
  BY DEF ChangeCard
<1>2. faults' \in 0 .. MaxFaults
  BY <1>1, SpendCounts
<1>3. (xfer.mode # "None") \in BOOLEAN
  OBVIOUS
<1>4. QED
  BY <1>1, <1>2, <1>3, Restaled DEF Kept, SessionOK, CardsStep, StagingInv

-----------------------------------------------------------------------------
(* The power                                                               *)

\* Cut while the transfer closes, or while a due checkpoint is written.
LEMMA ClosingCutIsSound ==
  ASSUME StagingInv, card # NoCard, NEW d \in ClosingCut \cup WritingCut
  PROVE  Sound(d) /\ d.final = Here.final
<1>1. Good(Here, xfer) /\ (xfer.mode = "Write" => xfer.fil = xfer.crc)
  BY HereIsGood DEF StagingInv, SessionOK
<1>2. CASE d \in ClosingCut
  BY <1>1, <1>2, ClosePlanIsGood DEF ClosingCut, Good
<1>3. CASE d \in WritingCut
  <2>1. PICK chunk \in Chunks : xfer.mode = "Write" /\ d \in During(CheckpointPlan(Here, Grown(chunk)))
    BY <1>3 DEF WritingCut, Writing
  <2>2. Good(Here, Grown(chunk)) /\ Grown(chunk).mode = "Write"
    BY <1>1, <2>1, GrownIsGood
  <2>3. QED
    BY <2>1, <2>2, CheckpointIsGood DEF Good
<1>4. QED
  BY <1>2, <1>3

\* Cut while an upload opens.
LEMMA OpeningCutIsSound ==
  ASSUME StagingInv, card # NoCard, NEW e \in OpeningCut
  PROVE  Sound(e) /\ e.final = Here.final
<1> DEFINE y == [xfer EXCEPT !.stale = xfer.stale \/ state # "Mounted"]
           d == Last(ClosePlan(Here, y))
           x(r) == Opened(d, r.overwrite, r.total, IF r.resume THEN ResumeOffset(d, r.total) ELSE 0)
<1>1. PICK r \in Requests : e \in During(OpenPlan(d, x(r)))
  BY DEF OpeningCut
<1>2. Good(Here, xfer) /\ xfer.stale \in BOOLEAN
  BY HereIsGood DEF Good, Counted, Transfers
<1>3. Good(Here, y)
  BY <1>2, RestaledIsGood DEF Good
<1>4. Sound(d) /\ d.final = Here.final
  BY <1>3, ClosePlanEnds, ClosePlanIsGood DEF Good
<1>5. r.overwrite \in BOOLEAN /\ r.total \in Nat
  BY FsAssumption, LenProperties DEF Requests, Sizes, Size
<1> HIDE DEF d, y
<1> DEFINE offset == IF r.resume THEN ResumeOffset(d, r.total) ELSE 0
<1>6. Begins(d, r.total, offset) /\ offset \in Nat
  BY <1>4, ResumeBegins DEF ResumeOffset, Usable, Sound, Content, Checkpoints
<1>7. x(r) = Opened(d, r.overwrite, r.total, offset)
  OBVIOUS
<1> HIDE DEF offset
<1>8. \A c \in OpenFailed(d, x(r)) : Sound(c) /\ c.final = d.final
  BY <1>4, <1>5, <1>6, <1>7, OpenIsSound
<1>9. e \in OpenFailed(d, x(r))
  BY <1>1 DEF OpenFailed
<1>10. QED
  BY <1>4, <1>8, <1>9

\* Cut while the upload is committed.
LEMMA CommittingCutIsSound ==
  ASSUME StagingInv, card # NoCard, NEW e \in CommittingCut
  PROVE  /\ Complete /\ xfer.mode = "Write" /\ Sound(e)
         /\ e.final = None => e.final = Here.final \/ e.part \in Files
         /\ TargetRefused(Here) => e.final = Here.final
<1>1. PICK k \in DOMAIN CommitPlan(Here, xfer) :
        /\ e = CommitPlan(Here, xfer)[k]
        /\ Complete /\ xfer.mode = "Write" /\ ~xfer.stale /\ xfer.crc \in Files
        /\ TargetRefused(Here) => k <= 2
  BY DEF CommittingCut, Complete, Writing, CrcMatches
<1>2. Good(Here, xfer) /\ xfer.fil = xfer.crc
  BY <1>1, HereIsGood DEF StagingInv, SessionOK
<1>3. QED
  BY <1>1, <1>2, CommitIsSound

LEMMA PowerLossKeeps == ASSUME StagingInv, PowerLoss PROVE Kept
<1>1. /\ cuts < MaxCuts /\ cuts' = cuts + 1
      /\ state' = "Unmounted" /\ xfer' = NoTransfer /\ locked' = FALSE
      /\ UNCHANGED <<card, faults>>
  BY DEF PowerLoss
<1>2. kept' \in [total : Nat, acked : Nat]
  BY DEF PowerLoss, Nothing, StagingInv, SessionOK
<1>3. CardsStep
  <2>1. CASE disk' = disk
    BY <1>1, <2>1, Ended DEF CardsStep
  <2>2. CASE card # NoCard /\ \E d \in ClosingCut \cup WritingCut : Leave(d)
    <3>1. PICK d \in ClosingCut \cup WritingCut : Leave(d)
      BY <2>2
    <3>2. Sound(d) /\ d.final = Here.final
      BY <2>2, ClosingCutIsSound
    <3>3. QED
      BY <1>1, <2>2, <3>1, <3>2, Ended, SoundLands
  <2>3. CASE card # NoCard /\ \E d \in OpeningCut \cup CommittingCut : Leave(d)
    <3>1. PICK d \in OpeningCut \cup CommittingCut : Leave(d)
      BY <2>3
    <3>2. CASE d \in OpeningCut
      <4>1. Sound(d) /\ d.final = Here.final
        BY <2>3, <3>2, OpeningCutIsSound
      <4>2. QED
        BY <1>1, <2>3, <3>1, <4>1, Ended, SoundLands
    <3>3. CASE d \in CommittingCut
      <4>1. /\ Complete /\ xfer.mode = "Write" /\ Sound(d)
            /\ d.final = None => d.final = Here.final \/ d.part \in Files
            /\ TargetRefused(Here) => d.final = Here.final
        BY <2>3, <3>3, CommittingCutIsSound
      <4>2. card \in Cards
        BY <2>3, HereIsGood
      <4>3. Lands(d)
        BY <1>1, <3>1, <4>1, <4>2, Ended DEF Lands, Leave
      <4>4. QED
        BY <4>3 DEF CardsStep
    <3>4. QED
      BY <3>1, <3>2, <3>3
  <2>4. QED
    BY <2>1, <2>2, <2>3 DEF PowerLoss
<1>4. cuts' \in 0 .. MaxCuts
  BY <1>1, FsAssumption DEF StagingInv, SessionOK
<1>5. QED
  BY <1>1, <1>2, <1>3, <1>4, Ended DEF Kept, SessionOK, StagingInv

-----------------------------------------------------------------------------
(* The specification                                                       *)

LEMMA StutterKeeps == ASSUME StagingInv, UNCHANGED vars PROVE Kept
  BY DEF Kept, SessionOK, CardsStep, StagingInv, CardsOK, vars

\* Every handler, and whatever interrupts it, leaves each card as the path demands.
LEMMA StepKeeps == ASSUME StagingInv, [Next]_vars PROVE Kept
<1>1. CASE OnQuery BY <1>1, QueryKeeps
<1>2. CASE OnIoError BY <1>2, IoErrorKeeps
<1>3. CASE OnOpenWrite BY <1>3, OpenWriteKeeps
<1>4. CASE OnWrite BY <1>4, WriteKeeps
<1>5. CASE OnWriteRefused \/ OnCommitBadCrc \/ OnClose
  BY <1>5, CloseKeeps DEF OnWriteRefused, OnCommitBadCrc, OnClose
<1>6. CASE OnWriteFails BY <1>6, WriteFailsKeeps
<1>7. CASE OnCommit BY <1>7, CommitKeeps
<1>8. CASE OnOpenRead BY <1>8, OpenReadKeeps
<1>9. CASE OnReadFails BY <1>9, ReadFailsKeeps
<1>10. CASE OnDeleteOrRename BY <1>10, DeleteOrRenameKeeps
<1>11. CASE Lock BY <1>11, LockKeeps
<1>12. CASE Unlock BY <1>12, UnlockKeeps
<1>13. CASE ChangeCard BY <1>13, ChangeCardKeeps
<1>14. CASE PowerLoss BY <1>14, PowerLossKeeps
<1>15. CASE UNCHANGED vars BY <1>15, StutterKeeps
<1>16. QED
  BY <1>1, <1>2, <1>3, <1>4, <1>5, <1>6, <1>7, <1>8, <1>9, <1>10, <1>11, <1>12, <1>13, <1>14,
     <1>15 DEF Next

LEMMA StagingInit == Init => StagingInv
<1>1. SUFFICES ASSUME Init PROVE StagingInv
  OBVIOUS
<1>2. SessionOK
  <2>1. /\ card \in Cards /\ state = "Unmounted" /\ xfer = NoTransfer /\ locked = FALSE
        /\ kept = [total |-> 0, acked |-> 0] /\ faults = 0 /\ cuts = 0
    BY <1>1 DEF Init, Nothing
  <2>2. NoTransfer.mode = "None"
    BY DEF NoTransfer
  <2>3. faults \in 0 .. MaxFaults /\ cuts \in 0 .. MaxCuts
    BY <2>1, FsAssumption
  <2>4. QED
    BY <2>1, <2>2, <2>3, NoTransferIsCounted DEF SessionOK
<1>3. Sound(Blank) /\ Blank \in Content
  BY DEF Sound, Content, Blank
<1>4. CardsOK
  <2>1. disk = [c \in Cards |-> Blank] /\ xfer = NoTransfer
    BY <1>1 DEF Init
  <2>2. QED
    BY <1>3, <2>1, NoTransferIsCounted DEF CardsOK
<1>5. QED
  BY <1>2, <1>4 DEF StagingInv

\* With one card, no card is left behind with what an upload no longer carries.
LEMMA KeptStages == ASSUME StagingInv, OneCard, Kept PROVE StagingInv'
<1>1. SessionOK'
  BY DEF Kept
<1>2. CASE disk' = disk /\ \A c \in Cards : Carries(disk[c], xfer')
  BY <1>1, <1>2 DEF StagingInv, CardsOK
<1>3. ASSUME NEW e, Lands(e) PROVE CardsOK'
  <2>1. disk' \in [Cards -> Content]
    BY <1>3 DEF Lands, Sound, StagingInv, CardsOK
  <2>2. \A c \in Cards : disk'[c] = e
    BY <1>3 DEF Lands, OneCard, StagingInv, CardsOK
  <2>3. QED
    BY <1>3, <2>1, <2>2 DEF Lands, CardsOK
<1>4. QED
  BY <1>1, <1>2, <1>3 DEF Kept, CardsStep, StagingInv

\* The staging is sound in every reachable state.
THEOREM StagingHolds == ASSUME OneCard PROVE Spec => []StagingInv
<1>1. StagingInv /\ [Next]_vars => StagingInv'
  BY StepKeeps, KeptStages
<1>2. QED
  BY <1>1, StagingInit, PTL DEF Spec

\* The state is typed and the path holds a whole file, some host's or the firmware's own, through
\* every failure, interrupted commit and resumed upload (OnOpenWrite, OnWrite, OnCommit).
THEOREM PathIsWhole == ASSUME OneCard PROVE Spec => []UploadInv
<1>1. StagingInv => UploadInv
  <2>1. SUFFICES ASSUME StagingInv PROVE TypeOK /\ FinalIsWhole
    BY DEF UploadInv
  <2>2. TypeOK
    BY <2>1 DEF StagingInv, SessionOK, CardsOK, TypeOK, Counted, Transfers
  <2>3. QED
    BY <2>1, <2>2 DEF StagingInv, CardsOK, Sound, FinalIsWhole
<1>2. QED
  BY <1>1, StagingHolds, PTL

\* An upload removes the file at the path only when a whole new one is staged; and a file that the
\* firmware locked is changed by one thing only, the commit of a complete upload that was opened
\* before the lock and may replace it (OnCommit's order, IsLocked in OnOpenWrite and OnDelete).
THEOREM PathIsGuarded == ASSUME OneCard PROVE Spec => FinalIsGuarded
<1>1. StagingInv /\ [Next]_vars
        => [\A c \in Cards : xfer.mode = "Write" /\ disk[c].final # None /\ disk'[c].final = None
                               => disk'[c].part \in Files]_vars
  <2>1. SUFFICES ASSUME StagingInv, Kept, NEW c \in Cards, xfer.mode = "Write",
                        disk[c].final # None, disk'[c].final = None
                 PROVE  disk'[c].part \in Files
    BY StepKeeps
  <2>2. PICK e : Lands(e)
    BY <2>1 DEF Kept, CardsStep
  <2>3. disk'[c] = e /\ Here = disk[c]
    BY <2>1, <2>2 DEF Lands, StagingInv, CardsOK, Here
  <2>4. QED
    BY <2>1, <2>2, <2>3 DEF Lands
<1>2. StagingInv /\ [Next]_vars
        => [\A c \in Cards : locked /\ disk'[c].final # disk[c].final
              => Complete /\ ~TargetRefused(disk[c]) /\ xfer' = NoTransfer]_vars
  <2>1. SUFFICES ASSUME StagingInv, Kept, NEW c \in Cards, locked, disk'[c].final # disk[c].final
                 PROVE  Complete /\ ~TargetRefused(disk[c]) /\ xfer' = NoTransfer
    BY StepKeeps
  <2>2. PICK e : Lands(e)
    BY <2>1 DEF Kept, CardsStep
  <2>3. c = card /\ disk'[c] = e /\ Here = disk[c]
    BY <2>1, <2>2 DEF Lands, StagingInv, CardsOK, Here
  <2>4. QED
    BY <2>1, <2>2, <2>3 DEF Lands
<1>3. QED
  BY <1>1, <1>2, StagingHolds, PTL DEF Spec, FinalIsGuarded, ReplacementStaged, LockedOnlyCommitted

-----------------------------------------------------------------------------
(* What was acknowledged                                                   *)

\* What the host was told of the upload is on the card d to resume from.
Saved(d) == kept.acked = 0 \/ (Usable(d, kept.total) /\ d.meta.received >= kept.acked)

\* As long as nothing fails: the handle is good, the host was told of all that it holds, and
\* what it was told of an upload that ended is saved.
Clean ==
  /\ card \in Cards
  /\ \A c \in Cards \ {card} : disk[c] = Blank
  /\ xfer.mode # "None" => state = "Mounted" /\ ~xfer.stale
  /\ xfer.mode = "Write" => kept.total = xfer.size /\ kept.acked = xfer.pos /\ xfer.pos <= xfer.size
  /\ xfer.mode # "Write" => Saved(Here)

Quiet == faults = 0 /\ cuts = 0

AckInv == faults \in Nat /\ cuts \in Nat /\ (Quiet => StagingInv /\ Clean)

\* Faults and losses of power are only ever counted up.
LEMMA FaultsCount ==
  ASSUME faults \in Nat, cuts \in Nat, [Next]_vars
  PROVE  faults' \in Nat /\ cuts' \in Nat /\ (Quiet' => Quiet)
<1>1. ASSUME NEW n \in Nat, Spend(n) PROVE faults' \in Nat /\ faults' >= faults
  BY <1>1 DEF Spend
<1>2. \A m \in EnsureMounted : m.cost \in Nat
  BY DEF EnsureMounted, Mounting
<1>3. \A d, x : \A c \in Closed(d, x) : c.cost \in Nat
  BY DEF Closed
<1>4. ASSUME NEW x, NEW s, Close(x, s) PROVE faults' \in Nat /\ faults' >= faults
  BY <1>1, <1>3, <1>4 DEF Close
<1>5. CASE OnQuery BY <1>1, <1>2, <1>5 DEF OnQuery, Quiet
<1>6. CASE OnIoError BY <1>1, <1>6 DEF OnIoError, Quiet
<1>7. CASE OnOpenWrite
  <2>1. PICK m, c, r : c.cost \in Nat /\ (OpenRefused(m, c, r) \/ OpenGoesOn(m, c, r)) /\ cuts' = cuts
    BY <1>3, <1>7 DEF OnOpenWrite
  <2>2. \E n \in Nat : Spend(n)
    BY <2>1 DEF OpenRefused, OpenGoesOn, OpenSucceeds, OpenFails
  <2>3. QED
    BY <1>1, <2>1, <2>2 DEF Quiet
<1>8. CASE OnWrite
  <2>1. (faults' = faults \/ Spend(1)) /\ cuts' = cuts
    BY <1>8 DEF OnWrite
  <2>2. QED
    BY <1>1, <2>1 DEF Quiet
<1>9. CASE OnWriteRefused \/ OnCommitBadCrc \/ OnClose
  BY <1>4, <1>9 DEF OnWriteRefused, OnCommitBadCrc, OnClose, Quiet
<1>10. CASE OnWriteFails
  <2>1. PICK cost, x :
          /\ cost \in Nat
          /\ Spend(cost) \/ \E c \in Closed(Here, x) : Spend(c.cost + cost)
          /\ cuts' = cuts
    BY <1>10 DEF OnWriteFails
  <2>2. \E n \in Nat : Spend(n)
    BY <1>3, <2>1
  <2>3. QED
    BY <1>1, <2>1, <2>2 DEF Quiet
<1>11. CASE OnCommit
  <2>1. (faults' = faults \/ Spend(1)) /\ cuts' = cuts
    BY <1>11 DEF OnCommit
  <2>2. QED
    BY <1>1, <2>1 DEF Quiet
<1>12. CASE OnOpenRead
  <2>1. PICK x : \E c \in Closed(Here, x) : Spend(c.cost) \/ Spend(c.cost + 1)
    BY <1>12 DEF OnOpenRead
  <2>2. \E n \in Nat : Spend(n)
    BY <1>3, <2>1
  <2>3. cuts' = cuts
    BY <1>12 DEF OnOpenRead
  <2>4. QED
    BY <1>1, <2>2, <2>3 DEF Quiet
<1>13. CASE OnReadFails BY <1>1, <1>13 DEF OnReadFails, Quiet
<1>14. CASE OnDeleteOrRename BY <1>1, <1>2, <1>14 DEF OnDeleteOrRename, Quiet
<1>15. CASE Lock \/ Unlock \/ UNCHANGED vars BY <1>15 DEF Lock, Unlock, vars, Quiet
<1>16. CASE ChangeCard BY <1>1, <1>16 DEF ChangeCard, Quiet
<1>17. CASE PowerLoss BY <1>17 DEF PowerLoss, Quiet
<1>18. QED
  BY <1>5, <1>6, <1>7, <1>8, <1>9, <1>10, <1>11, <1>12, <1>13, <1>14, <1>15, <1>16, <1>17 DEF Next

\* A command finds the volume mounted and the handle good.
LEMMA MountIsClean ==
  ASSUME StagingInv, Clean, NEW m \in EnsureMounted, xfer.mode # "None" \/ m.ok
  PROVE  m.state = "Mounted" /\ (xfer.mode # "None" => m.stale = FALSE)
<1>1. CASE state = "Mounted"
  <2>1. m = Mounting(TRUE, state, FALSE, 0)
    BY <1>1 DEF EnsureMounted
  <2>2. m.state = state /\ m.stale = (xfer.stale \/ (FALSE /\ xfer.mode # "None"))
    BY <2>1 DEF Mounting
  <2>3. m.stale \in BOOLEAN
    BY MountTypes
  <2>4. QED
    BY <1>1, <2>2, <2>3 DEF Clean
<1>2. CASE state # "Mounted"
  <2>1. xfer.mode = "None" /\ m.ok
    BY <1>2 DEF Clean
  <2>2. m \in {Mounting(TRUE, "Mounted", TRUE, 0)} \/ m.ok = FALSE
    BY <1>2 DEF EnsureMounted, Mounting
  <2>3. QED
    BY <2>1, <2>2 DEF Mounting
<1>3. QED
  BY <1>1, <1>2

LEMMA CloseCosts == ASSUME NEW d, NEW x, NEW c \in Closed(d, x) PROVE c.cost \in {0, 1}
  BY DEF Closed

\* CloseTransfer without a fault saves what was acknowledged.
LEMMA CloseSaves ==
  ASSUME StagingInv, Clean, NEW b, xfer.mode # "None" => b = FALSE,
         NEW c \in Closed(Here, [xfer EXCEPT !.stale = b]), c.cost = 0
  PROVE  Saved(c.to)
<1> DEFINE y == [xfer EXCEPT !.stale = b]
<1>1. /\ xfer \in Transfers /\ Counted(xfer) /\ Sound(Here)
      /\ xfer.mode = "Write" => xfer.fil = xfer.crc
  BY HereIsGood, FsAssumption DEF StagingInv, SessionOK, Counted, Clean, Good
<1>2. c.to = Last(ClosePlan(Here, y))
  BY DEF Closed
<1>3. CASE xfer.mode # "Write"
  <2>1. y.mode = xfer.mode
    BY DEF StagingInv, SessionOK, Counted, Transfers
  <2>2. c.to = Here
    BY <1>2, <1>3, <2>1, ClosePlanEnds
  <2>3. QED
    BY <1>3, <2>2 DEF Clean
<1>4. CASE xfer.mode = "Write"
  <2>1. /\ xfer \in Transfers /\ xfer.fil = xfer.crc /\ xfer.pos = Len(xfer.crc)
        /\ Here \in Content /\ xfer.stale = FALSE /\ b = FALSE
    BY <1>1, <1>4 DEF Counted, Sound, Clean, Transfers
  <2>2. y = xfer
    BY <2>1 DEF Transfers
  <2>3. c.to = MetaWritten(Synced(Here, xfer), xfer)
    BY <1>2, <1>4, <2>2, ClosePlanEnds
  <2>4. Synced(Here, xfer) = [Here EXCEPT !.part = xfer.fil]
    BY <2>1 DEF Synced
  <2>5. c.to.part = xfer.fil /\ c.to.meta = Entry(xfer)
    BY <2>1, <2>3, <2>4 DEF MetaWritten, Content
  <2>6. xfer.fil # None /\ Entry(xfer) # None /\ xfer.pos \in Nat
    BY <2>1, FsAssumption DEF Transfers, Entry
  <2>7. kept.total = xfer.size /\ kept.acked = xfer.pos /\ xfer.pos <= xfer.size
    BY <1>4 DEF Clean
  <2>8. QED
    BY <2>1, <2>5, <2>6, <2>7 DEF Saved, Usable, Entry
<1>5. QED
  BY <1>3, <1>4

\* A step of a quiet run that leaves the mounted card holding d.
LEMMA CleanStep ==
  ASSUME Clean, StagingInv, card' = card, NEW d, Leave(d) \/ (disk' = disk /\ d = Here),
         xfer'.mode # "None" => state' = "Mounted" /\ ~xfer'.stale,
         xfer'.mode = "Write" => /\ kept'.total = xfer'.size /\ kept'.acked = xfer'.pos
                                 /\ xfer'.pos <= xfer'.size,
         xfer'.mode # "Write" => \/ kept' = kept /\ Saved(d)
                                 \/ kept'.acked = 0
  PROVE  Clean'
<1>1. Here' = d /\ \A c \in Cards \ {card} : disk'[c] = disk[c]
  BY DEF Leave, Here, Clean, StagingInv, CardsOK
<1>2. xfer'.mode # "Write" => Saved(Here)'
  BY <1>1 DEF Saved, Here
<1>3. QED
  BY <1>1, <1>2 DEF Clean

\* FS_CLOSE, the timeout, a refused chunk, a bad CRC.
LEMMA CloseIsClean ==
  ASSUME Clean, StagingInv, Quiet, Quiet', Close(xfer, state), xfer' = NoTransfer,
         UNCHANGED <<card, kept>>
  PROVE  Clean'
<1>1. card # NoCard /\ xfer \in Transfers
  BY FsAssumption DEF Clean, StagingInv, SessionOK, Counted
<1>2. PICK c \in Closed(Here, xfer) : Leave(c.to) /\ Spend(c.cost)
  BY <1>1 DEF Close
<1>3. c.cost = 0
  BY <1>2 DEF Spend, Quiet, Closed
<1>4. xfer = [xfer EXCEPT !.stale = xfer.stale] /\ (xfer.mode # "None" => xfer.stale = FALSE)
  BY <1>1 DEF Transfers, Clean
<1>5. Saved(c.to)
  BY <1>3, <1>4, CloseSaves
<1>6. QED
  BY <1>2, <1>5, CleanStep DEF NoTransfer

LEMMA OpenWriteIsClean == ASSUME StagingInv, Clean, Quiet, Quiet', OnOpenWrite PROVE Clean'
<1>1. PICK m \in EnsureMounted, r \in Requests :
        /\ m.ok /\ card # NoCard
        /\ \E c \in Closed(Here, [xfer EXCEPT !.stale = m.stale]) :
             OpenRefused(m, c, r) \/ OpenGoesOn(m, c, r)
        /\ card' = card
  BY DEF OnOpenWrite
<1>2. PICK c \in Closed(Here, [xfer EXCEPT !.stale = m.stale]) :
        OpenRefused(m, c, r) \/ OpenGoesOn(m, c, r)
  BY <1>1
<1>3. c.cost \in {0, 1} /\ m.state = "Mounted" /\ (xfer.mode # "None" => m.stale = FALSE)
  BY <1>1, MountIsClean, CloseCosts
<1>4. CASE OpenRefused(m, c, r)
  <2>1. PICK cost \in {0, 1} : Spend(c.cost + cost) /\ Leave(c.to) /\ xfer' = NoTransfer /\ kept' = kept
    BY <1>4 DEF OpenRefused
  <2>2. c.cost = 0
    BY <1>3, <2>1 DEF Spend, Quiet
  <2>3. Saved(c.to)
    BY <1>3, <2>2, CloseSaves
  <2>4. QED
    BY <1>1, <2>1, <2>3, CleanStep DEF NoTransfer
<1>5. CASE OpenGoesOn(m, c, r)
  <2>1. PICK offset \in {0, ResumeOffset(c.to, r.total)}, lost \in {0, 1} :
          OpenSucceeds(m, c, r, offset, lost) \/ OpenFails(c, r, offset, lost)
    BY <1>5 DEF OpenGoesOn
  <2>2. ~OpenFails(c, r, offset, lost)
    BY <1>3, <2>1 DEF OpenFails, Spend, Quiet
  <2> DEFINE x == Opened(c.to, r.overwrite, r.total, offset)
  <2>3. /\ Leave(Last(OpenPlan(c.to, x))) /\ state' = m.state /\ xfer' = x
        /\ kept' = [total |-> r.total, acked |-> offset]
    BY <2>1, <2>2 DEF OpenSucceeds
  <2>4. x.mode = "Write" /\ x.stale = FALSE /\ x.size = r.total /\ x.pos = offset
    BY DEF Opened
  <2>5. offset <= r.total
    <3>1. r.total \in Nat
      BY FsAssumption, LenProperties DEF Requests, Sizes, Size
    <3>2. QED
      BY <2>1, <3>1 DEF ResumeOffset, Usable
  <2> HIDE DEF x
  <2>6. QED
    BY <1>1, <1>3, <2>3, <2>4, <2>5, CleanStep
<1>6. QED
  BY <1>2, <1>4, <1>5

LEMMA WriteIsClean == ASSUME StagingInv, Clean, Quiet, Quiet', OnWrite PROVE Clean'
<1>1. PICK chunk \in Chunks :
        /\ xfer.mode = "Write" /\ ~xfer.stale /\ xfer.pos < xfer.size /\ card' = card
        /\ LET x == Grown(chunk)
           IN  \/ /\ xfer' = x /\ kept' = [kept EXCEPT !.acked = x.pos]
                  /\ UNCHANGED <<disk, state>>
               \/ /\ Leave(Last(CheckpointPlan(Here, x))) /\ xfer' = [x EXCEPT !.synced = x.pos]
                  /\ kept' = [kept EXCEPT !.acked = x.pos] /\ state' = state
               \/ Spend(1)
  BY DEF OnWrite, Writing
<1> DEFINE x == Grown(chunk)
<1>2. xfer \in Transfers /\ kept \in [total : Nat, acked : Nat] /\ Good(Here, xfer) /\ xfer.fil = xfer.crc
  BY <1>1, HereIsGood, FsAssumption DEF StagingInv, SessionOK, Counted, Clean
<1>3. /\ x.mode = "Write" /\ x.stale = xfer.stale /\ x.size = xfer.size /\ x.pos = xfer.pos + 1
      /\ x \in Transfers
  BY <1>1, <1>2, GrownIsGood DEF Good, Counted
<1>4. x.pos <= x.size
  BY <1>1, <1>2, <1>3 DEF Transfers
<1> HIDE DEF x
<1>5. state = "Mounted" /\ kept.total = xfer.size
  BY <1>1 DEF Clean
<1>6. \/ xfer' = x /\ disk' = disk
      \/ xfer' = [x EXCEPT !.synced = x.pos] /\ Leave(Last(CheckpointPlan(Here, x)))
  BY <1>1 DEF x, Spend, Quiet
<1>7. kept' = [kept EXCEPT !.acked = x.pos] /\ state' = state
  BY <1>1 DEF x, Spend, Quiet
<1>8. /\ xfer'.mode = "Write" /\ ~xfer'.stale /\ xfer'.size = xfer.size /\ xfer'.pos = x.pos
  BY <1>1, <1>3, <1>6 DEF Transfers
<1>9. kept'.total = xfer.size /\ kept'.acked = x.pos
  BY <1>2, <1>5, <1>7
<1>10. QED
  BY <1>1, <1>3, <1>4, <1>5, <1>6, <1>7, <1>8, <1>9, CleanStep

LEMMA OpenReadIsClean == ASSUME StagingInv, Clean, Quiet, Quiet', OnOpenRead PROVE Clean'
<1>1. PICK m \in EnsureMounted :
        /\ m.ok
        /\ \E c \in Closed(Here, [xfer EXCEPT !.stale = m.stale]) :
             /\ Leave(c.to)
             /\ \/ Spend(c.cost) /\ state' = m.state /\ xfer' \in {NoTransfer, [NoTransfer EXCEPT !.mode = "Read"]}
                \/ Spend(c.cost + 1)
        /\ UNCHANGED <<card, kept>>
  BY DEF OnOpenRead
<1>2. PICK c \in Closed(Here, [xfer EXCEPT !.stale = m.stale]) :
        /\ Leave(c.to)
        /\ \/ Spend(c.cost) /\ state' = m.state /\ xfer' \in {NoTransfer, [NoTransfer EXCEPT !.mode = "Read"]}
           \/ Spend(c.cost + 1)
  BY <1>1
<1>3. c.cost \in {0, 1} /\ m.state = "Mounted" /\ (xfer.mode # "None" => m.stale = FALSE)
  BY <1>1, MountIsClean, CloseCosts
<1>4. Spend(c.cost) /\ state' = m.state /\ xfer' \in {NoTransfer, [NoTransfer EXCEPT !.mode = "Read"]}
  BY <1>2, <1>3 DEF Spend, Quiet
<1>5. Saved(c.to)
  <2>1. c.cost = 0
    BY <1>3, <1>4 DEF Spend, Quiet
  <2>2. QED
    BY <1>3, <2>1, CloseSaves
<1>6. xfer'.mode # "Write" /\ xfer'.stale = FALSE
  BY <1>4 DEF NoTransfer
<1>7. QED
  BY <1>1, <1>2, <1>3, <1>4, <1>5, <1>6, CleanStep

LEMMA DeleteOrRenameIsClean == ASSUME StagingInv, Clean, OnDeleteOrRename PROVE Clean'
<1>1. PICK m \in EnsureMounted, e \in Edits(Here) :
        /\ m.ok /\ card # NoCard /\ Allowed(Here, e) /\ Leave(e)
        /\ kept' = IF e.final = Here.final THEN Nothing ELSE kept
        /\ state' = m.state /\ xfer' = [xfer EXCEPT !.stale = m.stale] /\ card' = card
  BY DEF OnDeleteOrRename
<1>2. xfer.mode # "Write" /\ xfer \in Transfers /\ Here \in Content
  BY <1>1, HereIsGood DEF Allowed, Collides, StagingInv, SessionOK, Counted, Good, Sound
<1>3. m.state = "Mounted" /\ (xfer.mode # "None" => m.stale = FALSE)
  BY <1>1, MountIsClean
<1>4. xfer'.mode = xfer.mode /\ xfer'.stale = m.stale
  BY <1>1, <1>2 DEF Transfers
<1>5. kept'.acked = 0 \/ (kept' = kept /\ Saved(e))
  <2>1. CASE e.final = Here.final
    BY <1>1, <2>1 DEF Nothing
  <2>2. CASE e.final # Here.final
    <3>1. PICK f : e = [Here EXCEPT !.final = f]
      BY <1>1, <1>2, <2>2 DEF Edits, Content
    <3>2. e.part = Here.part /\ e.meta = Here.meta
      BY <1>2, <3>1 DEF Content
    <3>3. QED
      BY <1>1, <1>2, <2>2, <3>2 DEF Saved, Usable, Clean
  <2>3. QED
    BY <2>1, <2>2
<1>6. QED
  BY <1>1, <1>2, <1>3, <1>4, <1>5, CleanStep

LEMMA LockIsClean == ASSUME StagingInv, Clean, Lock PROVE Clean'
<1> DEFINE e == [Here EXCEPT !.final = Recording]
<1>1. Leave(e) /\ UNCHANGED <<card, state, xfer, kept>> /\ Here \in Content
  BY HereIsGood DEF Lock, Good, Sound
<1>2. e.part = Here.part /\ e.meta = Here.meta
  BY <1>1 DEF Content
<1> HIDE DEF e
<1>3. Saved(Here) => Saved(e)
  BY <1>2 DEF Saved, Usable
<1>4. QED
  BY <1>1, <1>3, CleanStep DEF Clean

LEMMA StepIsClean == ASSUME StagingInv, Clean, Quiet, Quiet', [Next]_vars PROVE Clean'
<1>1. card # NoCard /\ xfer \in Transfers
  BY FsAssumption DEF Clean, StagingInv, SessionOK, Counted
<1>2. CASE OnQuery
  <2>1. PICK m \in EnsureMounted :
          state' = m.state /\ xfer' = [xfer EXCEPT !.stale = m.stale] /\ UNCHANGED <<disk, card, kept>>
    BY <1>2 DEF OnQuery
  <2>2. xfer.mode # "None" => m.state = "Mounted" /\ m.stale = FALSE
    BY MountIsClean
  <2>3. /\ xfer'.mode = xfer.mode /\ xfer'.stale = m.stale /\ xfer'.size = xfer.size
        /\ xfer'.pos = xfer.pos
    BY <1>1, <2>1 DEF Transfers
  <2>4. QED
    BY <2>1, <2>2, <2>3, CleanStep DEF Clean
<1>3. CASE OnOpenWrite BY <1>3, OpenWriteIsClean
<1>4. CASE OnWrite BY <1>4, WriteIsClean
<1>5. CASE OnWriteRefused \/ OnCommitBadCrc \/ OnClose
  BY <1>5, CloseIsClean DEF OnWriteRefused, OnCommitBadCrc, OnClose
<1>6. CASE OnIoError \/ OnWriteFails \/ OnReadFails \/ ChangeCard \/ PowerLoss
  <2>1. CASE OnIoError BY <1>1, <2>1 DEF OnIoError, Spend, Quiet
  <2>2. CASE OnWriteFails
    <3>1. ~xfer.stale
      BY <2>2 DEF OnWriteFails, Writing, Clean
    <3>2. \E x : \E c \in Closed(Here, x) : Spend(c.cost + 1)
      BY <1>1, <2>2, <3>1 DEF OnWriteFails
    <3>3. QED
      BY <3>2 DEF Closed, Spend, Quiet
  <2>3. CASE OnReadFails BY <1>1, <2>3 DEF OnReadFails, Clean, Spend, Quiet
  <2>4. CASE ChangeCard BY <1>1, <2>4 DEF ChangeCard, Spend, Quiet
  <2>5. CASE PowerLoss BY <2>5 DEF PowerLoss, Quiet
  <2>6. QED
    BY <1>6, <2>1, <2>2, <2>3, <2>4, <2>5
<1>7. CASE OnCommit
  <2>1. xfer' = NoTransfer /\ kept' = Nothing /\ card' = card
    BY <1>7 DEF OnCommit
  <2>2. disk' = disk \/ \E d : Leave(d)
    BY <1>7 DEF OnCommit
  <2>3. QED
    BY <2>1, <2>2, CleanStep DEF NoTransfer, Nothing
<1>8. CASE OnOpenRead BY <1>8, OpenReadIsClean
<1>9. CASE OnDeleteOrRename BY <1>9, DeleteOrRenameIsClean
<1>10. CASE Lock BY <1>10, LockIsClean
<1>11. CASE Unlock \/ UNCHANGED vars
  BY <1>11 DEF Unlock, vars, Clean, Saved, Here
<1>12. QED
  BY <1>2, <1>3, <1>4, <1>5, <1>6, <1>7, <1>8, <1>9, <1>10, <1>11 DEF Next

\* In a quiet run the other cards are blank.
LEMMA QuietStages == ASSUME StagingInv, Clean, Kept PROVE StagingInv'
<1>1. CASE disk' = disk /\ \A c \in Cards : Carries(disk[c], xfer')
  BY <1>1 DEF Kept, StagingInv, CardsOK
<1>2. ASSUME NEW e, Lands(e) PROVE CardsOK'
  <2>1. disk' \in [Cards -> Content]
    BY <1>2 DEF Lands, Sound, StagingInv, CardsOK
  <2>2. \A c \in Cards \ {card} : disk'[c] = Blank /\ Sound(Blank) /\ Carries(Blank, xfer')
    BY <1>2 DEF Lands, Clean, StagingInv, CardsOK, Carries, Follows, Blank
  <2>3. disk'[card] = e
    BY <1>2 DEF Lands, StagingInv, CardsOK
  <2>4. QED
    BY <1>2, <2>1, <2>2, <2>3 DEF Lands, CardsOK
<1>3. QED
  BY <1>1, <1>2 DEF Kept, CardsStep, StagingInv

\* An upload that ended without a fault of the card or the power, refused, timed out or closed,
\* resumes with all that was acknowledged, however many cards there are (CloseTransfer's
\* checkpoint, the one that OnOpenWrite finds).
THEOREM AckedResumes == Spec => []AcknowledgedSurvives
<1>1. Init => AckInv
  <2>1. SUFFICES ASSUME Init PROVE AckInv
    OBVIOUS
  <2>2. faults = 0 /\ cuts = 0 /\ xfer = NoTransfer /\ kept = Nothing
        /\ card \in Cards /\ disk = [c \in Cards |-> Blank]
    BY <2>1 DEF Init
  <2>3. xfer.mode = "None" /\ kept.acked = 0
    BY <2>2 DEF NoTransfer, Nothing
  <2>4. Clean
    BY <2>2, <2>3 DEF Clean, Saved
  <2>5. QED
    BY <2>1, <2>2, <2>4, StagingInit DEF AckInv
<1>2. AckInv /\ [Next]_vars => AckInv'
  <2>1. SUFFICES ASSUME AckInv, [Next]_vars PROVE AckInv'
    OBVIOUS
  <2>2. faults' \in Nat /\ cuts' \in Nat /\ (Quiet' => Quiet)
    BY <2>1, FaultsCount DEF AckInv
  <2>3. ASSUME Quiet' PROVE StagingInv' /\ Clean'
    BY <2>1, <2>2, <2>3, StepKeeps, QuietStages, StepIsClean DEF AckInv
  <2>4. QED
    BY <2>2, <2>3 DEF AckInv
<1>3. AckInv => AcknowledgedSurvives
  <2>1. SUFFICES ASSUME AckInv, Quiet, xfer.mode # "Write"
                 PROVE  ResumeOffset(Here, kept.total) >= kept.acked
    BY DEF AcknowledgedSurvives, Quiet
  <2>2. Saved(Here) /\ kept.acked \in Nat /\ Here \in Content
    BY <2>1, HereIsGood, FsAssumption DEF AckInv, Clean, StagingInv, SessionOK, Good, Sound
  <2>3. QED
    BY <2>2 DEF Saved, ResumeOffset, Usable, Content, Checkpoints
<1>4. QED
  BY <1>1, <1>2, <1>3, PTL DEF Spec
=============================================================================
