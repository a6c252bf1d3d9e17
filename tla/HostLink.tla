------------------------------- MODULE HostLink -------------------------------
(***************************************************************************)
(* framework/src/host_link/host_link.cpp: the engine by which a host       *)
(* computer manages the presets, between a link that loses frames, a host   *)
(* that times out, retries and crashes, and a player at the panel.          *)
(*                                                                         *)
(* ServeX is the handler of one request frame; Poll is a series of them,    *)
(* after its timers (StageTimesOut, RebootFires).  The chunks of a blob are *)
(* its components' bytes, in order.  The host follows the notes of          *)
(* docs/hostlink-protocol.md: stop and wait, match responses by seq, one    *)
(* retry after a timeout, then a new start; a host that retries BLOB_DATA   *)
(* too, against their advice, is among those considered.                    *)
(***************************************************************************)
EXTENDS Presets, Sequences

CONSTANTS
  Live,         \* kTargetLive
  Payloads,     \* what the host may push: functions from Managed to Contents
  DescChunks,   \* chunks of a descriptor
  MaxDesc,      \* bound: versions of the descriptor
  MaxFaults,    \* bound: faults of the link, the host, flash and power
  MaxJobs,      \* bound: jobs the hosts begin
  MaxMoves      \* bound: moves of the player at the panel

ASSUME HostLinkAssumption ==
  /\ Live \notin Slots
  /\ Payloads \subseteq [Managed -> Contents]
  /\ None \notin Piece
  /\ DescChunks \in Nat \ {0}
  /\ MaxDesc \in Nat \ {0}
  /\ MaxFaults \in Nat /\ MaxJobs \in Nat /\ MaxMoves \in Nat

VARIABLES
  stage,    \* the staged blob: stage_open_, _target_, _schema_, and what of
            \* staging_ has been received (stage_recv_ is its length)
  snap,     \* snapshot_, or None while !snap_valid_
  desc,     \* version of the attached descriptor
  descOk,   \* desc_read_valid_
  reboot,   \* reboot_mode_, or None while !reboot_pending_
  rx, tx,   \* frames on their way to the device and to the host
  host,     \* the host's job and how far it is
  seen,     \* history: the states of what the job is about since it began
  faults,   \* bound: faults that have happened
  jobs,     \* bound: jobs begun
  moves     \* bound: moves of the player

engine == <<stage, snap, desc, descOk, reboot>>
vars == <<presets, engine, rx, tx, host, seen, faults, jobs, moves>>

Modes == {"app", "bootloader"}
Idle == [kind |-> "idle"]
\* The host has no job any more.
Free == [host EXCEPT !.job = Idle, !.pos = 0, !.seq = 0, !.waiting = FALSE,
                     !.retried = FALSE, !.got = <<>>, !.result = "none"]

\* No transaction; what a closed stage remembers of the last is never read.
Closed == [open |-> FALSE, target |-> Live, stamp |-> None, staging |-> <<>>]

-----------------------------------------------------------------------------
(* The jobs of a host                                                      *)

\* A push carries bytes encoded for some build of the firmware, not
\* necessarily the one that runs.
Pushes ==
  [kind : {"push"}, target : Slots \cup {Live}, stamp : Schemas, says : Payloads]

Jobs ==
  Pushes
  \cup [kind : {"pull", "describe"}]
  \cup [kind : {"save", "load", "erase"}, target : Slots]
  \cup [kind : {"reboot"}, mode : Modes]

PushBytes(job) == [c \in Managed |-> [enc |-> job.stamp, says |-> job.says[c]]]

\* What the job writes or reads.
Subject(job) ==
  IF job.kind = "push" /\ job.target # Live THEN stored[job.target] ELSE live

\* The request that step number pos of a job sends.
Command(job, pos) ==
  CASE job.kind = "push" /\ pos = 0 -> "BlobBegin"
    [] job.kind = "push" /\ pos \in Managed -> "BlobData"
    [] job.kind = "push" /\ pos = NumManaged + 1 -> "BlobCommit"
    [] job.kind = "pull" -> "GetLive"
    [] job.kind = "describe" -> "GetDescriptor"
    [] job.kind = "save" -> "SaveToSlot"
    [] job.kind = "load" -> "LoadFromSlot"
    [] job.kind = "erase" -> "EraseSlot"
    [] job.kind = "reboot" -> "Reboot"

\* The last step of a job.
LastStep(job) ==
  CASE job.kind = "push" -> NumManaged + 1
    [] job.kind = "pull" -> NumManaged - 1
    [] job.kind = "describe" -> DescChunks - 1
    [] OTHER -> 0

Init ==
  /\ schema = Shipped
  /\ stored \in [Slots -> Older \cup {None}]
  /\ live = LET r == stored[BootSlot]
            IN  IF StampMatches(r, schema)
                  THEN Restored(Factory(schema), r.bytes) ELSE Factory(schema)
  /\ stage = Closed
  /\ snap = None
  /\ desc = 1 /\ descOk = TRUE
  /\ reboot = None
  /\ rx = <<>> /\ tx = <<>>
  /\ host = [job |-> Idle, pos |-> 0, seq |-> 0, waiting |-> FALSE,
             retried |-> FALSE, got |-> <<>>, result |-> "none"]
  /\ seen = {}
  /\ faults = 0 /\ jobs = 0 /\ moves = 0

\* A step in which n things go wrong; ok says of one thing that it does not.
Spend(n) == faults + n <= MaxFaults /\ faults' = faults + n

Cost(ok) == IF ok THEN 0 ELSE 1

Watch == seen' = IF host.job.kind \in {"push", "pull"}
                   THEN seen \cup {Subject(host.job)'} ELSE seen

-----------------------------------------------------------------------------
(* Responses                                                               *)

\* The transport takes the response, or has no room and the host times out.
Send(status, data, ok) ==
  tx' = IF ok THEN Append(tx, [seq |-> Head(rx).seq, status |-> status, data |-> data])
              ELSE tx

\* Serve the request at the head of the receive ring.
Serving(cmd) == rx # <<>> /\ Head(rx).cmd = cmd /\ rx' = Tail(rx)

\* A handler that answers without data and calls nothing that can fail.
Answer(status) ==
  \E sent \in BOOLEAN : Spend(Cost(sent)) /\ Send(status, None, sent)

AbortStage == stage' = Closed

-----------------------------------------------------------------------------
(* The staged push                                                         *)

OpenStage(job) ==
  stage' = [open |-> TRUE, target |-> job.target, stamp |-> job.stamp, staging |-> <<>>]

ServeBlobBegin ==
  /\ Serving("BlobBegin")
  /\ LET job == Head(rx).job
     IN  \/ /\ job.stamp = schema
            /\ OpenStage(job)
            /\ Answer("Ok")
         \/ /\ job.stamp # schema
            /\ AbortStage
            /\ Answer("SchemaMismatch")
  /\ UNCHANGED <<presets, snap, desc, descOk, reboot>>

\* Mutant: offsets counted from one.
InOrderFromOne(pos) == pos = Len(stage.staging)

\* The chunk is the next one.
InOrder(pos) == pos - 1 = Len(stage.staging)

ServeBlobData ==
  /\ Serving("BlobData")
  /\ LET job == Head(rx).job
         pos == Head(rx).pos
     IN  \/ /\ ~stage.open
            /\ UNCHANGED stage
            /\ Answer("BadState")
         \/ /\ stage.open /\ ~InOrder(pos)
            /\ AbortStage
            /\ Answer("BadArgs")
         \/ /\ stage.open /\ InOrder(pos)
            /\ stage' = [stage EXCEPT !.staging = Append(@, PushBytes(job)[pos])]
            /\ Answer("Ok")
  /\ UNCHANGED <<presets, snap, desc, descOk, reboot>>

\* Mutant: the answer does not wait for the flash.
FlashIgnored(ok) == "Ok"

FlashStatus(ok) == IF ok THEN "Ok" ELSE "FlashFail"

\* A handler that writes flash fails if the flash does.
FlashAnswer(ok) ==
  \E sent \in BOOLEAN :
    Spend(Cost(ok) + Cost(sent)) /\ Send(FlashStatus(ok), None, sent)

\* A complete transaction.
CommitReady == stage.open /\ Len(stage.staging) = NumManaged

\* The CRC the host computed over what it meant to send.
CrcMatches(job) == stage.staging = PushBytes(job)

ServeBlobCommit ==
  /\ Serving("BlobCommit")
  /\ LET job == Head(rx).job
     IN  \/ /\ ~(CommitReady /\ CrcMatches(job))
            /\ UNCHANGED presets
            /\ Answer(IF CommitReady THEN "BadCrc" ELSE "BadState")
         \/ /\ CommitReady /\ CrcMatches(job) /\ stage.target = Live
            /\ DeserializeLive(stage.staging)
            /\ Answer(IF Accepted(stage.staging) THEN "Ok" ELSE "BadArgs")
         \/ /\ CommitReady /\ CrcMatches(job) /\ stage.target # Live
            /\ \E ok \in BOOLEAN :
                 /\ WriteSlotRaw(stage.target, stage.stamp, stage.staging, ok)
                 /\ FlashAnswer(ok)
  /\ AbortStage
  /\ UNCHANGED <<snap, desc, descOk, reboot>>

StageTimesOut ==
  /\ stage.open
  /\ IF host.job.kind = "push" THEN Spend(1) ELSE Spend(0)
  /\ AbortStage
  /\ UNCHANGED <<presets, snap, desc, descOk, reboot, rx, tx, host, seen>>

-----------------------------------------------------------------------------
(* Reads in several requests                                               *)

\* Mutant: every chunk is taken from the present state.
FreshSnapshotAlways(pos) == live

\* The snapshot that chunk pos is served from.
Snapshot(pos) == IF pos = 0 THEN live ELSE snap

ServeGetLive ==
  /\ Serving("GetLive")
  /\ LET pos == Head(rx).pos
     IN  /\ snap' = Snapshot(pos)
         /\ IF snap' = None THEN Answer("BadState")
            ELSE \E sent \in BOOLEAN :
                   Spend(Cost(sent)) /\ Send("Ok", snap'[pos + 1], sent)
  /\ UNCHANGED <<presets, stage, desc, descOk, reboot>>

ServeGetDescriptor ==
  /\ Serving("GetDescriptor")
  /\ descOk' = (Head(rx).pos = 0 \/ descOk)
  /\ IF descOk'
       THEN \E sent \in BOOLEAN : Spend(Cost(sent)) /\ Send("Ok", desc, sent)
       ELSE Answer("BadState")
  /\ UNCHANGED <<presets, stage, snap, desc, reboot>>

\* Mutant: a replacement of the descriptor leaves readers where they are.
KeepsReaders == descOk

\* A new descriptor sends every reader back to offset 0.
StopsReaders == FALSE

\* RefreshDescriptor publishes a descriptor that differs: SetDescriptor.
SetDescriptor ==
  /\ desc < MaxDesc
  /\ desc' = desc + 1
  /\ descOk' = StopsReaders
  /\ UNCHANGED <<presets, stage, snap, reboot, rx, tx, host, seen, faults>>

-----------------------------------------------------------------------------
(* Single requests                                                         *)

ServeSaveToSlot ==
  /\ Serving("SaveToSlot")
  /\ \E ok \in BOOLEAN : Save(Head(rx).job.target, ok) /\ FlashAnswer(ok)
  /\ UNCHANGED engine

ServeLoadFromSlot ==
  /\ Serving("LoadFromSlot")
  /\ Load(Head(rx).job.target)
  /\ Answer(IF LoadSucceeds(Head(rx).job.target) THEN "Ok" ELSE "BadSlot")
  /\ UNCHANGED engine

ServeEraseSlot ==
  /\ Serving("EraseSlot")
  /\ \E ok \in BOOLEAN : EraseSlot(Head(rx).job.target, ok) /\ FlashAnswer(ok)
  /\ UNCHANGED engine

ServeReboot ==
  /\ Serving("Reboot")
  /\ reboot' = Head(rx).job.mode
  /\ Answer("Ok")
  /\ UNCHANGED <<presets, stage, snap, desc, descOk>>

\* A frame that arrived damaged.
ServeDamaged ==
  /\ Serving("Damaged")
  /\ Answer("FrameError")
  /\ UNCHANGED <<presets, engine>>

Serve ==
  /\ \/ ServeBlobBegin \/ ServeBlobData \/ ServeBlobCommit
     \/ ServeGetLive \/ ServeGetDescriptor
     \/ ServeSaveToSlot \/ ServeLoadFromSlot \/ ServeEraseSlot
     \/ ServeReboot \/ ServeDamaged
  /\ UNCHANGED host
  /\ Watch

-----------------------------------------------------------------------------
(* Power and reboot                                                        *)

\* The device starts the firmware of schema h; the port vanishes and the
\* host gives up its job.
StartFirmware(h) ==
  /\ Start(h)
  /\ stage' = Closed
  /\ snap' = None
  /\ descOk' = TRUE
  /\ reboot' = None
  /\ rx' = <<>> /\ tx' = <<>>
  /\ host' = Free
  /\ seen' = {}
  /\ UNCHANGED desc

\* The bootloader may leave another firmware behind.
RebootFires ==
  /\ reboot # None
  /\ \E h \in Schemas : (reboot = "app" => h = schema) /\ StartFirmware(h)
  /\ UNCHANGED faults

PowerLoss == Spend(1) /\ StartFirmware(schema)

-----------------------------------------------------------------------------
(* The player at the panel                                                 *)

Panel ==
  /\ \/ \E c \in Managed, x \in Contents \ Malformed :
          x # live[c].says /\ Edit(c, x)
     \/ \E s \in Slots : Save(s, TRUE) \/ Load(s)
  /\ moves < MaxMoves /\ moves' = moves + 1
  /\ UNCHANGED <<engine, rx, tx, host, faults>>
  /\ Watch

-----------------------------------------------------------------------------
(* The host                                                                *)

Busy == host.job # Idle /\ host.result = "none"

HostBegins ==
  /\ ~Busy
  /\ jobs < MaxJobs /\ jobs' = jobs + 1
  /\ \E job \in Jobs :
       /\ host' = [Free EXCEPT !.job = job]
       /\ seen' = IF job.kind \in {"push", "pull"} THEN {Subject(job)} ELSE {}
  /\ UNCHANGED <<presets, engine, rx, tx, faults>>

SeqNos == 0 .. MaxFaults + 1

Unused(n) ==
  /\ \A k \in DOMAIN rx : rx[k].seq # n
  /\ \A k \in DOMAIN tx : tx[k].seq # n

\* The host's 16-bit counter does not come round to the number of a frame
\* that is still on its way.
HostSends ==
  /\ Busy /\ ~host.waiting
  /\ LET seq == CHOOSE n \in SeqNos : Unused(n)
     IN  /\ seq \in SeqNos /\ Unused(seq)
         /\ rx' = Append(rx, [seq |-> seq, cmd |-> Command(host.job, host.pos),
                              job |-> host.job, pos |-> host.pos])
         /\ host' = [host EXCEPT !.seq = seq, !.waiting = TRUE]
  /\ UNCHANGED <<presets, engine, tx, seen, faults>>

\* Back to the first step of the job.
FromTheStart ==
  [host EXCEPT !.pos = 0, !.waiting = FALSE, !.retried = FALSE, !.got = <<>>]

Kept(r) == IF r.data = None THEN host.got ELSE Append(host.got, r.data)

\* What the host makes of the response r to its request.
After(r) ==
  CASE r.status = "Ok" /\ host.pos # LastStep(host.job) ->
         [host EXCEPT !.got = Kept(r), !.pos = @ + 1,
                      !.waiting = FALSE, !.retried = FALSE]
    [] r.status = "Ok" /\ host.pos = LastStep(host.job)
       /\ host.job.kind \in {"push", "pull", "describe"} ->
         [host EXCEPT !.got = Kept(r), !.waiting = FALSE, !.result = "ok"]
    [] r.status \in {"BadState", "BadCrc", "FrameError", "FlashFail"}
       \/ (r.status = "BadArgs" /\ host.pos # LastStep(host.job)) ->
         FromTheStart
    [] OTHER -> Free

HostReceives ==
  /\ tx # <<>>
  /\ tx' = Tail(tx)
  /\ host' = IF Busy /\ host.waiting /\ Head(tx).seq = host.seq
               THEN After(Head(tx)) ELSE host
  /\ UNCHANGED <<presets, engine, rx, seen, faults>>

\* The request or its response is still on its way.
Underway ==
  \/ \E k \in DOMAIN rx : rx[k].seq = host.seq
  \/ \E k \in DOMAIN tx : tx[k].seq = host.seq

HostTimesOut ==
  /\ Busy /\ host.waiting
  /\ IF Underway THEN Spend(1) ELSE Spend(0)
  /\ host' = IF host.retried THEN FromTheStart
              ELSE [host EXCEPT !.waiting = FALSE, !.retried = TRUE]
  /\ UNCHANGED <<presets, engine, rx, tx, seen>>

HostCrashes ==
  /\ Busy
  /\ Spend(1)
  /\ host' = Free
  /\ seen' = {}
  /\ UNCHANGED <<presets, engine, rx, tx>>

\* A request is damaged on its way.
LinkDamages ==
  /\ Spend(1)
  /\ \E k \in DOMAIN rx : rx' = [rx EXCEPT ![k].cmd = "Damaged"]
  /\ UNCHANGED <<presets, engine, tx, host, seen>>

-----------------------------------------------------------------------------
Next ==
  \/ /\ \/ Serve
        \/ StageTimesOut
        \/ SetDescriptor
        \/ RebootFires \/ PowerLoss
        \/ HostSends \/ HostReceives \/ HostTimesOut \/ HostCrashes
        \/ LinkDamages
     /\ UNCHANGED <<jobs, moves>>
  \/ Panel /\ UNCHANGED jobs
  \/ HostBegins /\ UNCHANGED moves

Spec == Init /\ [][Next]_vars

\* Poll runs every millisecond, the response queue drains, a host process
\* that waits wakes up; none of it is asked of the player, or of faults.
FairSpec ==
  /\ Spec
  /\ WF_vars(Serve /\ UNCHANGED <<jobs, moves>>)
  /\ WF_vars(RebootFires /\ UNCHANGED <<jobs, moves>>)
  /\ WF_vars(HostSends /\ UNCHANGED <<jobs, moves>>)
  /\ WF_vars(HostReceives /\ UNCHANGED <<jobs, moves>>)
  /\ WF_vars(HostTimesOut /\ ~Underway /\ UNCHANGED <<jobs, moves>>)

-----------------------------------------------------------------------------
(* Properties                                                              *)

TypeOK ==
  /\ PresetsTypeOK
  /\ stage \in [open : BOOLEAN, target : Slots \cup {Live},
                stamp : Schemas \cup {None}, staging : Seq(Piece)]
  /\ Len(stage.staging) <= NumManaged
  /\ snap \in Bytes \cup {None}
  /\ desc \in 1 .. MaxDesc /\ descOk \in BOOLEAN
  /\ reboot \in Modes \cup {None}
  /\ host.job \in Jobs \cup {Idle}
  /\ host.pos \in 0 .. LastStep(host.job)
  /\ faults \in 0 .. MaxFaults

Done(kind) == host.job.kind = kind /\ host.result = "ok"

\* A push that the host saw accepted took effect whole: its target, slot or
\* live state, has shown exactly the bytes that were sent, since the push
\* began, whatever was lost, repeated, timed out or reset on the way.
AcceptedMeansApplied ==
  Done("push") =>
    LET bytes == PushBytes(host.job)
    IN  (IF host.job.target = Live THEN bytes
         ELSE [stamp |-> host.job.stamp, bytes |-> bytes]) \in seen

\* What a host reads of the live state in several requests is the state of
\* one moment since it began, however the panel moves between them.
BackupIsOneMoment ==
  host.job.kind = "pull" =>
    \E moment \in seen : \A k \in DOMAIN host.got : host.got[k] = moment[k]

\* The chunks of a descriptor that a host puts together are of one version.
DescriptorIsWhole ==
  host.job.kind = "describe" =>
    \A k, l \in DOMAIN host.got : host.got[k] = host.got[l]

\* A push comes to an end, accepted or refused: no state that lost frames,
\* timeouts or a crashed host leave behind keeps a later push from it.
Pushing == host.job.kind = "push" /\ host.result = "none"

PushEnds == Pushing ~> ~Pushing
=============================================================================
