------------------------------- MODULE FsBrowse -------------------------------
(***************************************************************************)
(* FsExtension's directories (fs_extension.cpp, sd_card.cpp): the paths of  *)
(* the protocol, FS_LIST's cursor with its one-entry lookahead, FS_STAT,    *)
(* FS_MKDIR, FS_DELETE and FS_RENAME over a tree, beside a transfer and the *)
(* files that the firmware has locked.  What a transfer stages is FsUpload. *)
(*                                                                         *)
(* Of FatFS it is assumed that a directory is a row of slots in which       *)
(* f_readdir goes forward, that a new entry takes the first that is free,   *)
(* that a rename enters the new name before it frees the old one, that a    *)
(* directory with entries is not unlinked, and that a handle outlives no    *)
(* mount.                                                                   *)
(***************************************************************************)
EXTENDS Naturals, Sequences, FiniteSets

CONSTANTS
    Names,              \* [fold, upper, staging, len, plain]
    Places,             \* slots of a directory
    BrowseRoom,         \* bytes of a listing's answer
    KMaxSegment, KMaxPath, KMaxLocks,
    ListEnd,            \* kFsListEnd, no count of entries
    InitialTree,
    Paths, Listed,      \* the paths of commands, and of FS_LIST
    MaxChanges          \* bound: changes of the tree and of the transfer

VARIABLES
    tree,               \* directories and their slots, by folded path
    medium,             \* "in", or "out" of the slot
    volume,             \* SdCard::state_
    cursor,             \* s_dir, dir_open_, s_dir_path, dir_emitted_, pending_
    open,               \* mode_, s_xfer_path, and the path that was staged last
    locks,              \* lock_
    listing,            \* history: the listing of a host
    changes

browseVars == <<tree, medium, volume, cursor, open, locks, listing, changes>>

NoName == [fold |-> "", upper |-> FALSE, staging |-> "", len |-> 0, plain |-> FALSE]
Free   == [name |-> NoName, dir |-> FALSE]

-----------------------------------------------------------------------------
(* Paths                                                                   *)

\* FAT names are equal when they fold to the same.
FoldName(n)    == <<n.fold, n.staging>>
Fold(p)        == [i \in DOMAIN p |-> FoldName(p[i])]
PathEqCI(p, q) == Fold(p) = Fold(q)

Parent(p)  == SubSeq(p, 1, Len(p) - 1)
LastOf(p)  == p[Len(p)]

\* plain: neither dots only nor a final dot or blank, nor a character that is not allowed.
SegmentOk(n) == n.plain /\ n.len \in 1 .. KMaxSegment

RECURSIVE Length(_)
Length(p) == IF p = <<>> THEN 0 ELSE 1 + Head(p).len + Length(Tail(p))

ValidatePath(p, allowRoot) ==
    /\ \A i \in DOMAIN p : SegmentOk(p[i])
    /\ Length(p) <= KMaxPath
    /\ p = <<>> => allowRoot

\* The staging pair: .part and .partmeta.
Part(p) == [p EXCEPT ![Len(p)].staging = "part"]
Meta(p) == [p EXCEPT ![Len(p)].staging = "meta"]

-----------------------------------------------------------------------------
(* The tree                                                                *)

At(t, p) == IF Fold(Parent(p)) \notin DOMAIN t THEN {}
            ELSE {s \in Places : LET e == t[Fold(Parent(p))][s]
                                 IN  e # Free /\ FoldName(e.name) = FoldName(LastOf(p))}
Exists(t, p)  == At(t, p) # {}
SlotOf(t, p)  == CHOOSE s \in At(t, p) : TRUE
EntryOf(t, p) == t[Fold(Parent(p))][SlotOf(t, p)]
IsDir(t, p)   == Exists(t, p) /\ EntryOf(t, p).dir
Empty(slots)  == \A s \in Places : slots[s] = Free
NoSlots       == [s \in Places |-> Free]

Least(S) == CHOOSE s \in S : \A r \in S : s <= r

\* The tree in which an entry has been entered for p, if there is room: none or one.
Entered(t, p, dir) ==
    LET d    == Fold(Parent(p))
        free == IF d \in DOMAIN t THEN {s \in Places : t[d][s] = Free} ELSE {}
    IN  IF free = {} THEN {} ELSE {[t EXCEPT ![d][Least(free)] = [name |-> LastOf(p), dir |-> dir]]}
FreedAt(t, p, s) == [t EXCEPT ![Fold(Parent(p))][s] = Free]

\* f_mkdir: an entry, and the directory behind it.
Made(t, p) ==
    IF Exists(t, p) THEN {}
    ELSE {[d \in DOMAIN u \cup {Fold(p)} |-> IF d = Fold(p) THEN NoSlots ELSE u[d]] :
            u \in Entered(t, p, TRUE)}

\* f_unlink
Unlinked(t, p) ==
    IF ~Exists(t, p) \/ (IsDir(t, p) /\ ~Empty(t[Fold(p)])) THEN {}
    ELSE LET u == FreedAt(t, p, SlotOf(t, p)) IN {[d \in DOMAIN u \ {Fold(p)} |-> u[d]]}

\* What lies under from lies under to.
Rebased(d, from, to) ==
    IF Len(d) >= Len(from) /\ SubSeq(d, 1, Len(from)) = Fold(from)
    THEN Fold(to) \o SubSeq(d, Len(from) + 1, Len(d)) ELSE d

\* f_rename: what is in a directory moves with it; another case of the name is no other name.
Renamed(t, from, to) ==
    IF ~Exists(t, from) \/ (Exists(t, to) /\ ~PathEqCI(from, to)) THEN {}
    ELSE {LET u == FreedAt(v, from, SlotOf(t, from))
          IN  IF ~IsDir(t, from) THEN u
              ELSE [d \in {Rebased(e, from, to) : e \in DOMAIN u} |->
                      u[CHOOSE e \in DOMAIN u : Rebased(e, from, to) = d]] :
            v \in Entered(t, to, IsDir(t, from))}

-----------------------------------------------------------------------------
(* The card, and what a host has of a listing                              *)

Nowhere   == <<FoldName([fold |-> "", staging |-> ""])>>
NoCursor  == [open |-> FALSE, path |-> <<>>, dir |-> <<>>, at |-> 0, emitted |-> 0,
              pending |-> Free, stale |-> FALSE, late |-> FALSE]
NoListing == [on |-> FALSE, path |-> <<>>, cookie |-> 0, got |-> <<>>, stayed |-> {}, seen |-> {},
              changed |-> FALSE, skipped |-> FALSE]
NoOpen    == [mode |-> "None", overwrite |-> FALSE, stale |-> FALSE, path |-> <<>>, staged |-> <<>>]

\* EnsureMounted, with a card that is there.
CardMounted == medium = "in" /\ volume' = "Mounted"

\* Any command without a card: the mount fails, or a call does and OnIoError has the volume
\* mounted again.
NoCardAnswer ==
    /\ medium = "out"
    /\ volume' = IF volume = "Mounted" THEN "Unmounted" ELSE "NoCard"
    /\ cursor' \in {cursor, NoCursor}
    /\ UNCHANGED <<tree, medium, open, locks, listing, changes>>

\* FS_INFO, FS_STAT, and what is refused.
OnInfoOrStat ==
    /\ CardMounted
    /\ UNCHANGED <<tree, medium, cursor, open, locks, listing, changes>>

\* What a change of the tree does to the listing that a host is at.
Watched(t) ==
    LET d == Fold(listing.path)
        now == {<<s, FoldName(t[d][s].name)>> : s \in {q \in Places : t[d][q] # Free}}
    IN  IF ~listing.on \/ t = tree THEN listing
        ELSE IF d \notin DOMAIN t THEN NoListing
        ELSE [listing EXCEPT !.stayed = @ \cap now, !.seen = @ \cup {e[2] : e \in now},
                             !.changed = @ \/ t[d] # tree[d]]

\* A handler that changes the tree to t.
Changes(t) ==
    /\ changes' = changes + 1
    /\ tree' = t /\ listing' = Watched(t)

IsLocked(p) == \E l \in locks : PathEqCI(l, p)

-----------------------------------------------------------------------------
(* FS_LIST                                                                 *)

Addressable(slots) == {s \in Places : slots[s] # Free /\ SegmentOk(slots[s].name)}

\* Mutant: whichever directory it was.
CursorMatchesAnyPath(c, cookie, p) == c.open /\ cookie # 0 /\ cookie = c.emitted

CursorMatches(c, cookie, p) ==
    c.open /\ cookie # 0 /\ cookie = c.emitted /\ PathEqCI(p, c.path)

\* A fresh cursor, behind as many entries as the host has had.  Whether the directory had changed
\* under the listing by then is history.
Reopened(p, cookie) ==
    LET all    == Addressable(tree[Fold(p)])
        wanted == IF cookie = ListEnd THEN 0 ELSE cookie
        behind == {s \in all : Cardinality({q \in all : q <= s}) = wanted}
    IN  [NoCursor EXCEPT !.open = TRUE, !.path = p, !.dir = Fold(p), !.late = listing.changed,
           !.at = IF wanted = 0 THEN 0 ELSE IF behind # {} THEN Least(behind) ELSE Cardinality(Places),
           !.emitted = IF behind # {} THEN wanted ELSE IF wanted = 0 THEN 0 ELSE Cardinality(all)]

EntrySize(n) == 1 + n.len

\* Mutant: an entry that does not fit is not kept.
CarriedOverNever(c) == [c EXCEPT !.pending = Free]

\* An entry that does not fit stays for the next answer, as the directory had it.
CarriedOver(c) == c

\* <<cursor, names, whether the directory has ended>>
RECURSIVE Pack(_, _, _, _)
Pack(c, slots, used, page) ==
    LET ahead == {s \in slots : s > c.at}
        entry == tree[c.dir][Least(ahead)]
    IN  IF c.pending # Free
        THEN IF used + EntrySize(c.pending.name) > BrowseRoom THEN <<CarriedOver(c), page, FALSE>>
             ELSE Pack([c EXCEPT !.pending = Free, !.emitted = @ + 1], slots,
                       used + EntrySize(c.pending.name), Append(page, FoldName(c.pending.name)))
        ELSE IF ahead = {} THEN <<c, page, TRUE>>
        ELSE Pack([c EXCEPT !.at = Least(ahead), !.pending = entry], slots, used, page)

Reopens(cookie, p) == ~CursorMatches(cursor, cookie, p)
Used(cookie, p)    == IF Reopens(cookie, p) THEN Reopened(p, cookie) ELSE cursor

\* What a request is answered: the cookie to go on with, and the names.
Answer(cookie, p) ==
    LET c == Used(cookie, p)
        r == Pack(c, IF c.dir \in DOMAIN tree THEN Addressable(tree[c.dir]) ELSE {}, 0, <<>>)
    IN  [cursor |-> IF r[3] THEN NoCursor ELSE r[1],
         next |-> IF r[3] THEN ListEnd ELSE r[1].emitted, page |-> r[2]]

OnList(cookie, p) ==
    /\ ValidatePath(p, TRUE) /\ CardMounted
    /\ IF Reopens(cookie, p) THEN Fold(p) \in DOMAIN tree ELSE ~cursor.stale
    /\ cursor' = Answer(cookie, p).cursor

\* No such directory, one that is another mount's, or one that was removed.
OnListFails(cookie, p) ==
    /\ ValidatePath(p, TRUE) /\ medium = "in"
    /\ \/ Reopens(cookie, p) /\ Fold(p) \notin DOMAIN tree /\ volume' = "Mounted"
       \/ ~Reopens(cookie, p) /\ cursor.stale /\ volume' = "Unmounted"
       \/ ~Reopens(cookie, p) /\ ~cursor.stale /\ cursor.dir = Nowhere /\ volume' = "Mounted"
    /\ cursor' = NoCursor
    /\ UNCHANGED <<tree, medium, open, locks, listing, changes>>

-----------------------------------------------------------------------------
(* Making, removing and renaming                                           *)


\* Mutant: only the file's own name collides.
CollidesWithFinal(p) == open.mode # "None" /\ PathEqCI(p, open.path)

\* CollidesWithTransfer; a download remembers the staging pair of the last upload.
CollidesWithTransfer(p) ==
    /\ open.mode # "None"
    /\ \/ PathEqCI(p, open.path)
       \/ open.staged # <<>> /\ (PathEqCI(p, Part(open.staged)) \/ PathEqCI(p, Meta(open.staged)))

MayEdit(p) == ValidatePath(p, FALSE) /\ ~IsLocked(p) /\ ~CollidesWithTransfer(p)

OnDelete(p) ==
    /\ CardMounted /\ MayEdit(p)
    /\ \E t \in Unlinked(tree, p) : Changes(t)
    /\ cursor' = IF cursor.open /\ cursor.dir = Fold(p) THEN [cursor EXCEPT !.dir = Nowhere] ELSE cursor
    /\ UNCHANGED <<medium, open, locks>>

OnMkdir(p) ==
    /\ CardMounted /\ ValidatePath(p, FALSE)
    /\ \E t \in Made(tree, p) : Changes(t)
    /\ UNCHANGED <<medium, cursor, open, locks>>

\* Directories stay in the root, a bound.
OnRename(from, to) ==
    /\ CardMounted /\ MayEdit(from) /\ MayEdit(to)
    /\ IsDir(tree, from) => Len(to) = 1
    /\ \E t \in Renamed(tree, from, to) : Changes(t)
    /\ cursor' = IF cursor.open THEN [cursor EXCEPT !.dir = Rebased(@, from, to)] ELSE cursor
    /\ UNCHANGED <<medium, open, locks>>

-----------------------------------------------------------------------------
(* Transfers                                                               *)

\* CloseTransfer writes the checkpoint of an upload, wherever its path leads by now.
WithCheckpoint(t) == IF open.mode = "Write" /\ ~Exists(t, Meta(open.staged))
             THEN Entered(t, Meta(open.staged), FALSE) \cup {t} ELSE {t}
Staged(t, p) == IF ~Exists(t, p) THEN Entered(t, p, FALSE) ELSE IF IsDir(t, p) THEN {} ELSE {t}

OpensRead(p) ==
    /\ CardMounted /\ ValidatePath(p, FALSE)
    /\ \E t \in WithCheckpoint(tree) :
         /\ Changes(t)
         /\ open' = IF Exists(t, p) /\ ~IsDir(t, p) THEN [open EXCEPT !.mode = "Read", !.path = p, !.stale = FALSE]
                    ELSE [open EXCEPT !.mode = "None"]
    /\ UNCHANGED <<medium, cursor, locks>>

\* Parents are made on request; a file in their place is found out later.
WithParent(t, p, mkdirs) ==
    IF Fold(Parent(p)) \in DOMAIN t \/ (mkdirs /\ Exists(t, Parent(p))) THEN {t}
    ELSE IF mkdirs THEN Made(t, Parent(p)) ELSE {}

\* The staging pair is there before the first byte.
OpensWrite(p, overwrite, mkdirs) ==
    /\ CardMounted /\ ValidatePath(p, FALSE) /\ LastOf(p).staging = "" /\ ~IsLocked(p)
    /\ \E c \in WithCheckpoint(tree) :
         IF IsDir(c, p) \/ (Exists(c, p) /\ ~overwrite) \/ WithParent(c, p, mkdirs) = {}
         THEN Changes(c) /\ open' = [open EXCEPT !.mode = "None"]
         ELSE \E d \in WithParent(c, p, mkdirs) :
                LET part == Staged(d, Part(p))
                    both == UNION {Staged(u, Meta(p)) : u \in part}
                IN  /\ \E v \in IF both # {} THEN both ELSE IF part # {} THEN part ELSE {d} : Changes(v)
                    /\ open' = [mode |-> IF both = {} THEN "None" ELSE "Write", overwrite |-> overwrite,
                                stale |-> FALSE, path |-> p, staged |-> p]
    /\ UNCHANGED <<medium, cursor, locks>>

\* A complete upload: the old file goes, the staged one takes its name.
CommitStaged ==
    /\ open.mode = "Write" /\ ~open.stale /\ medium = "in" /\ volume = "Mounted"
    /\ IF IsDir(tree, open.path) \/ (Exists(tree, open.path) /\ ~open.overwrite) THEN Changes(tree)
       ELSE \E t \in IF Exists(tree, open.path) THEN Unlinked(tree, open.path) ELSE {tree} :
              LET final == Renamed(t, Part(open.staged), open.path)
              IN  IF final = {} THEN Changes(t)
                  ELSE \E u \in final :
                         Changes(IF Exists(u, Meta(open.staged))
                                 THEN FreedAt(u, Meta(open.staged), SlotOf(u, Meta(open.staged))) ELSE u)
    /\ open' = [open EXCEPT !.mode = "None"]
    /\ UNCHANGED <<medium, volume, cursor, locks>>

\* FS_CLOSE, or five seconds without a request for the transfer, or for the listing.
ClosesOpen ==
    /\ open.mode # "None"
    /\ \E t \in IF medium = "in" /\ volume = "Mounted" THEN WithCheckpoint(tree) ELSE {tree} : Changes(t)
    /\ open' = [open EXCEPT !.mode = "None"]
    /\ UNCHANGED <<medium, volume, cursor, locks>>
CloseDirCursor ==
    /\ cursor.open /\ cursor' = NoCursor
    /\ UNCHANGED <<tree, medium, volume, open, locks, listing, changes>>

-----------------------------------------------------------------------------
(* The host, the firmware and the slot                                     *)

\* A host begins to list a directory; it does once, a bound.
HostBegins(p) ==
    /\ ~listing.on
    /\ OnList(0, p)
    /\ listing' = [on |-> TRUE, path |-> p, cookie |-> Answer(0, p).next, got |-> Answer(0, p).page,
                   stayed |-> {<<s, FoldName(tree[Fold(p)][s].name)>> : s \in Addressable(tree[Fold(p)])},
                   seen |-> {FoldName(tree[Fold(p)][s].name) : s \in Addressable(tree[Fold(p)])},
                   changed |-> FALSE, skipped |-> FALSE]
    /\ UNCHANGED <<tree, medium, open, locks, changes>>

\* It echoes the cookie.
HostGoesOn ==
    /\ listing.on /\ listing.cookie # ListEnd
    /\ OnList(listing.cookie, listing.path)
    /\ \E a \in {Answer(listing.cookie, listing.path)} :
         listing' = [listing EXCEPT !.cookie = a.next, !.got = @ \o a.page,
                       !.skipped = @ \/ Used(listing.cookie, listing.path).late]
    /\ UNCHANGED <<tree, medium, open, locks, changes>>

\* A request whose answer is lost, or of another client.
Elsewhere(cookie, p) ==
    /\ OnList(cookie, p)
    /\ UNCHANGED <<tree, medium, open, locks, listing, changes>>

\* The firmware records a file; the table of its locks may be full.
Records(p) ==
    /\ medium = "in" /\ volume = "Mounted" /\ ~IsLocked(p)
    /\ locks' = IF Cardinality(locks) < KMaxLocks /\ Length(p) <= KMaxPath THEN locks \cup {p} ELSE locks
    /\ \E t \in Staged(tree, p) : Changes(t)
    /\ UNCHANGED <<medium, volume, cursor, open>>
Unlocks ==
    /\ \E l \in locks : locks' = locks \ {l}
    /\ UNCHANGED <<tree, medium, volume, cursor, open, listing, changes>>

\* The card is pulled, and comes back as it was; no handle of before is good.
ChangeMedium ==
    /\ changes' = changes + 1
    /\ medium' = IF medium = "in" THEN "out" ELSE "in"
    /\ cursor' = [cursor EXCEPT !.stale = cursor.open]
    /\ open' = [open EXCEPT !.stale = open.mode # "None"]
    /\ UNCHANGED <<tree, volume, locks, listing>>

BrowseInit ==
    /\ tree = InitialTree /\ medium = "in" /\ volume = "Unmounted"
    /\ cursor = NoCursor /\ open = NoOpen /\ locks = {} /\ listing = NoListing /\ changes = 0

Cookies == {0, listing.cookie}

BrowseNext ==
    \/ NoCardAnswer \/ OnInfoOrStat \/ CloseDirCursor \/ Unlocks
    \/ \E p \in Listed : HostBegins(p)
    \/ HostGoesOn
    \/ \E p \in Listed, cookie \in Cookies : Elsewhere(cookie, p) \/ OnListFails(cookie, p)
    \/ /\ changes < MaxChanges
       /\ \/ \E p \in Paths : OnDelete(p) \/ OnMkdir(p) \/ Records(p) \/ OpensRead(p)
          \/ \E p, q \in Paths : OnRename(p, q)
          \/ \E p \in Paths, overwrite, mkdirs \in BOOLEAN : OpensWrite(p, overwrite, mkdirs)
          \/ CommitStaged \/ ClosesOpen \/ ChangeMedium

-----------------------------------------------------------------------------
(* Properties                                                              *)

BrowseTypeOK ==
    /\ <<>> \in DOMAIN tree /\ medium \in {"in", "out"} /\ volume \in {"Unmounted", "Mounted", "NoCard"}
    /\ \A d \in DOMAIN tree : tree[d] \in [Places -> [name : Names, dir : BOOLEAN] \cup {Free}]
    /\ cursor.emitted \in 0 .. Cardinality(Places) /\ Cardinality(locks) <= KMaxLocks

\* In a directory a name is there once, and a subdirectory's entry has its contents: whatever the
\* order of commands, which check and change in different calls (OnRename, OpensWrite, CommitStaged).
TreeIsSound ==
    /\ \A d \in DOMAIN tree :
         LET used == {s \in Places : tree[d][s] # Free}
         IN  Cardinality({FoldName(tree[d][s].name) : s \in used}) = Cardinality(used)
    /\ \A p \in Paths \ {<<>>} : IsDir(tree, p) <=> Fold(p) \in DOMAIN tree

\* A listing that has come to its end tells of every entry that stayed where it was exactly once,
\* and of none that was never there, over lost answers, other listings and remounts: unless the
\* directory was opened again after it had changed (OnList).
ListingWhole ==
    /\ {listing.got[i] : i \in DOMAIN listing.got} \subseteq listing.seen
    /\ listing.on /\ listing.cookie = ListEnd /\ ~listing.skipped =>
         \A e \in listing.stayed : Cardinality({i \in DOMAIN listing.got : listing.got[i] = e[2]}) = 1

\* Every answer brings a listing on (OnList).
ListingAdvances ==
    [][listing.on /\ listing'.on /\ listing'.cookie # listing.cookie /\ listing.cookie # ListEnd =>
         listing'.cookie = ListEnd \/ Len(listing'.got) > Len(listing.got)]_browseVars

\* No command removes or renames a file that the firmware has locked, in any case of its name, or
\* that a transfer needs: but for the target of an upload opened before the lock, and for a
\* directory above that moves (IsLocked, CollidesWithTransfer).
HeldStand ==
    [][\A p \in locks \cup (IF open.mode = "None" THEN {}
                            ELSE IF open.mode = "Read" THEN {open.path}
                            ELSE {Part(open.staged), Meta(open.staged)}) :
         Exists(tree, p) /\ Fold(Parent(p)) \in DOMAIN tree' =>
            \/ Exists(tree', p)
            \/ open.mode = "Write" /\ open'.mode = "None"]_browseVars
=============================================================================
