# Alchemy SDK: formal models

TLA+ models of the Alchemy SDK, the firmware framework for the Alchemy Lab
synthesizer modules: its preset storage, its panel of buttons and pots, and the
protocol by which a host computer manages it. TLC checks the models on small
instances; for the modules named `*_proofs` TLAPS proves the central results for
every instance.

Paths in this file are relative to the repository root; `src/` in
`PROJECT.json` is that root.

## 1. The system

The framework runs on a single-core microcontroller. `ControlLoop::Tick` is the
main loop: it polls the buttons (once a millisecond) a frame's worth of times and
then runs one frame (every 16 ms or so) in which every surface is updated in a
fixed order. Two interrupts run beside it: the audio callback (lock playback,
clock pulses) and USB (bytes from the host). Flash, an SD card and the codec are
the only things that outlive a reset.

| Component (`PROJECT.json` name) | State | Operations | What makes it correct |
|---|---|---|---|
| Preset store | two flash sides per slot, RAM index, next sequence number | `Init` (scan), `Load`/`Peek`, `CommitStaged`, `EraseSlot` | a reported save survives any later failure or power cut; the index never lies |
| Presets | slot names, live components, one staging buffer | `Save`, `Load`, `BootLoad`, `WriteSlotRaw`, `EraseSlot` | a record of another schema is never applied |
| Pager | page, layers, latch memories, poison, pot states | `PollButtons`, `Update`, `GoToPage`, `RetainPage`/`ReleasePage`, `ConsumeButton`, `SetStored`, `Deserialize` | one layer at a time; pages underneath stand; no parameter leaps; a hold that edits is no tap |
| HostLink core | upload session, snapshots, reboot timer, extensions | `Poll` and one handler per opcode | a slot is written only with bytes that arrived complete and checked; every abort leaves the session closed; a retry is harmless |
| File-system extension and SD card | open transfer, `.part` file and its meta, mount state, locks | `OnOpenWrite`, `OnWrite`, `OnCommit`, `OnOpenRead`, `Tick`, `EnsureMounted` | the final file is the old or the new one whole; nothing but the commit of an upload under way changes a locked file; a resumed upload is the file |
| Frame codec | parser buffer and state | COBS encode/decode, `FrameParser::Push` | round trip; resynchronises after garbage |
| CDC transport | receive ring, transmit ring, in-flight flag | USB callback, `Read`, `Write`, `Pump` | bytes in order, none invented, overruns counted, no stuck transmission |
| Param locks | per-slot loops, hold gesture, armed and cleared sets | `OnButtonDown/Up`, `Advance`, `Update`, `RestoreSlot` | a recording targets the bank at the press; no lock changes unless the hold touched it |
| Button bank | per-button values, press page, hold flags | `PollButtons`, `Update`, `Deserialize` | a press acts on the page where it began; tap and hold exclude each other |
| Settings, preset gesture | mode, page, chord timers, gesture state | `PollButtons`, `Update` | no press leaks across the gate; one save or load a gesture |
| Clock | ring of pulse times from the jack's interrupt, PI loop steering one oscillator, lock and loss flags; musical position and its pending Start/Stop/Reset | `OnPulse`, `Update`, `Enable`; `Tick` | no pulse twice, a loss is announced promptly and never without silence, each note value is told once |
| Diagnostics | ring of log records in RAM with sequence numbers, counters of what was dropped or cut, watched gauges, session token of the host | `Log`, `Handle` (info, read from a cursor, describe, values) | a host reads each record once, in order, or is told how many it lost |
| Alchemy Lab v2 and v1 hardware | WS2812 DMA buffer, shadow of the four DAC channels and its dirty flag, expander lines, calibration run and its flash sector | `Show`, `SetVolts`, `FlushCvOutputs`, `SetOutputBit`, `V2RunCalibration` | no buffer is written while DMA reads it; a value that was accepted reaches the DAC; a calibration is recorded only when every jack has passed |
| Control loop | buttons and pots of a frame | `Tick` | every surface is polled and updated in one order |
| Host surface, descriptor and JSON | what the application declared, the factory image, the published text, extensions | `Start`, `RefreshDescriptor`, the builder and the describers, `Extend` | what is published parses and is true of the panel, or is an error; a refresh takes nothing away |
| LED rendering | frame of a ring, clip and beat indicators | `BaseFill`, `StampRegion`, `Emit`, `Render`, `Process`, `Tick` | an LED shows what its parameter says, however the ring is wound; clipping and the beat are shown in time |
| Virtual knobs, CV routing and edges | value curves, filters, comparators | - | floating-point arithmetic; not modelled, see section 5 |

How they interact:

* **Polls and frames.** `ControlLoop::Tick` calls `Settings::PollButtons`,
  `ParamLock::PollButtons`, `ButtonBank::PollButtons`, `Pager::PollButtons` and
  `HostService::Poll` in that order, many times before the frame calls
  `Settings::Update`, `ButtonBank::Update`, `ParamLock::Update`, `Pager::Update`.
  Edges are flags set in a poll and taken in a frame, so several presses fold into
  one pair of flags.
* **Gate.** While Settings is open the other surfaces only synchronise.
* **View latch and claims.** `ParamLock` calls `Pager::RetainPage`,
  `ReleasePage`, `ConsumeButton`, `SetStored`; `ButtonBank` asks
  `Pager::HoldClaimed` and calls `ConsumeButton`.
* **Presets.** A load, or a push from the host, calls `Deserialize` on each
  component from a poll; each re-arms itself in its next `Update`.
* **Host.** `HostLink` reads frames from the transport, calls `Presets` and
  `Extension`s, and answers on the transport, which may have no room.
* **Description.** At the first poll `Host` derives a JSON descriptor from what the
  application declared; `HostLink` serves it in chunks and may be asked to make it again.
* **Lights.** Renderers read the state of the surfaces in a frame and write a ring of LEDs,
  which the strip's driver encodes for its DMA stream.

What is hard: edges that outnumber frames; state changed from a poll that is only
repaired in a frame; a preset load in the middle of a hold; a power cut or a
failing call between two flash or SD operations; late, repeated and missing frames
from the host; timers that wrap. The places where this bites are listed with their lines in
`PROJECT.json` under `hazards`, each with the properties that would catch it.

## 2. Plan

In this order, the behaviour whose failure costs a user the most first. *Checked* means by
TLC on the instances of section 3, *proved* by TLAPS for every instance.

| Step | Modules | State |
|---|---|---|
| 1. The store and its promise | `PresetRegister`, `PresetStore` | checked and proved |
| 2. Navigation, layers and pot catch | `Pager` | checked; proved but for liveness |
| 3. The staged push, snapshots, descriptor, reboot | `HostLink` over `Presets` | checked; proved but for liveness |
| 4. Resumable uploads; directories | `FsUpload`, `FsBrowse` | checked; `FsUpload` proved |
| 5. The rest of the panel | `Settings`, `PresetGesture`, `PotCatch`; `ButtonBank`, `Surface`; `ParamLock`, `LockSlot` | checked and proved |
| 6. The clock | `MusicalClock`, `ClockFollower` | checked and proved |
| 7. Rings and the codec | `Wire`, `CdcLink` | checked |
| 8. The board | `Diagnostics`, `CvBus`, `CvOutputs`, `FactoryCal`, `Ws2812` | checked; proved but for liveness |
| 9. What a host is told | `JsonText`, `Declarations`, `Descriptor`, `Describe`, `Host` | checked |
| 10. What the LEDs show | `RingFrame`, `Renderers`, `Indicators` | checked and proved |

Left: what section 4 leaves to TLC.

A module named `MC...` gives the constants of an instance and puts together the properties that
a run checks. Units that share no state are checked by one run: the first state chooses the
unit, and only its actions are enabled then (`MCFsUpload`, `MCSurface`, `MCBoard`). A property
of a run may be the conjunction of named parts; each part is defined with a comment of its own
in the module of its unit, and is named below.

## 3. The modules

### PresetRegister and PresetStore (`framework/include/alchemy/control/preset_store.h`)

`PresetRegister` is the promise: a save begins and finishes, and the set `may[s]` says
what a restart may bring back at this moment. Between begin and finish that is the old
preset or the new one; after it, the new one alone. An erase hides the slot at once and
may, if cut short, bring back what the slot held before.

`PresetStore` is the code. `head` and `body` are what the sectors of each side hold, `idx`
is `sectors_`, `nextSeq` is `next_seq_`, `phase`/`slot`/`side`/`sect`/`val` are the locals of
the call in progress. `StartSave`, `EraseSector`, `WriteSector`, `FinishSave` are
`CommitStaged` cut at every call to `FlashOps`; `StartWipe`, `WipeSide` are `EraseSlot`;
`StoreBoot` is `Init`'s scan. A failing flash call leaves nothing, everything or junk of the
sector it worked on (`...Fails`), and `PowerCut` can strike before every call and in the
middle of one. `Junk` is anything that does not verify; that a torn record never passes
its CRC-32 is an assumption.

| Run | Instance | What it shows |
|---|---|---|
| `board`, unit *store* | 1 slot, 1- and 2-sector records, up to 6 saves, failing saves, a cut before every flash call | `HasValidIsVerified`, `DurableAcrossPowerCut`, `SequencesDiffer`, and that the store implements `PresetRegister` (`ImplementsRegister`) |
| `store_wipe` | 2 slots sharing the counter, 2 saves, failing `EraseSlot` erases (`WipingSpec`: no failing saves) | `DurableAcrossPowerCut` still holds |

Six saves are enough for every pattern of the two sides (each valid, superseded, failed or
torn) to occur and recur, and sequence numbers are only ever compared with each other.
Slots share nothing but the counter, which the second instance exercises.
The end of the sequence numbers at 2^32 - 1 is out of scope: a slot wears out first.

**Proved** (`PresetStore_proofs`, for any slots, presets, record lengths and sectors, without
failing `EraseSlot` erases): `TypeCorrect`, `SavesSurvivePowerCuts`, `IndexNeverLies`,
`ScanIsDecisive` and `StoreImplementsRegister`. None of these invariants is inductive by
itself. The inductive one, `IInv`, relates the two sides of each slot to its index
(`SlotOK`: the side the index prefers verifies and has the higher number, and a side that
verifies although the index does not know it is a preset that a restart may bring back) and
says what the commit in progress has done to its target (`SaveInv`, `WipeInv`). The step
holds because a commit works on the side a load would not choose. With failing `EraseSlot`
erases `SlotOK` is false: `EraseSlot` clears the index entry of a side only when its erase
succeeded, yet the sector may already be damaged, and `HasValid` then answers true for a record
that no longer verifies. That is why the theorems assume `"wipe" \notin Faults`, and why
`store_wipe` checks durability alone.

### Pager (`framework/src/surface/pager.cpp`, `framework/include/alchemy/control/pot_catch.h`)

The variables are the fields of `NavBinding` turned into sets of bindings (`pressed` is the
set of bindings with `press_pending`, and so on), the fields of `Pager`, and the two
fields of other components that `Update` depends on (`phys`, the frame's pot readings, and
`wasOpen`, `Settings::prev_update_active_`). `edited` and `lastPhys` are history.

A poll is one step (`Poll`, `PollChord`, `PollGateRises`, `PollGated`); it happens any number
of times between frames. A frame is cut into the frame's start (`Frame`, in which Settings
re-arms the visible page if it has just closed), the calls other surfaces make before
`Update`, the owed re-arms (`BeginUpdate`), one step a binding (`Nav(b)`, a disjunct per branch
of the loop body), the deferred exits, and `Catch`. Everything runs in one thread, so
nothing comes between the stages after `BeginUpdate`; the stages are there to keep each
action the size of one branch.

Pot positions are bands of the width of `kCatchTolerance`, so "within tolerance" is equality
and crossing is passing from below to above. The motion gate works inside one band and is
left out.

| Run | Panel | What it shows |
|---|---|---|
| `pager` | four pages, two layers (one of them in scope of one page only), a cycle and a latch pair, of which the player works two buttons at a time; locks, bank and application call | `LatchFollowsPage`, `LayerIsShown`, `BaseStands`, `LingeringEnds` |
| `pager_catch` | a layer, 2 pages, one pot at 3 positions, param locks, loads, Settings | `EditIsUsed`, `NoLeap` |

Two or three bindings are enough because every branch looks at one binding and at whether
any other is down or engaged; three positions because a pot is below, at or above a stored
value. `Callers` limits which other surfaces call in a run; each is free in at least one run.

Orders of events that do not keep what one might expect, and of which no property is claimed:

* A release, a press and a release of a Shift within one frame leave its layer engaged with the
  button up: the two flags hold one press and one release, and the press is taken first.
* A press that follows a poisoned release within one frame lifts the poison before that release
  is dealt with (`pager.cpp:207`).
* A Shift whose layer is the other member of a latch pair leaves the pair remembering the layer's
  page after it has ended, since `ExitShift` calls no `SyncLatchSel` (`pager.cpp:375-382`;
  `docs/pages-and-layers.md:69`: cycling back lands on the member the pair showed last).

*Fairness.* `FairSpec` asks for `WF_vars(Tick)` alone: `ControlLoop::Tick` is called for ever from
`main`. No fairness is asked of the user or of the other surfaces.

**Proved** (`Surface_proofs`, for any panel that satisfies `PagerAssumption`: any pages, pots,
bindings, scopes and callers). `PagerAssumption` includes the rule of `docs/pages-and-layers.md`
that a page belongs to at most one pair; the code does not check it.

| Theorem | Property | Argument |
|---|---|---|
| `PagerTypeCorrect`, `OneLayer`, `SettingsOpensOnBase` | `TypeOK`, `LayerIsShown`, no layer while Settings is open | `TypeOK /\ LayerInv` is inductive: a layer's scope test in `MayEngage` needs "no other layer" at the time of the test, and the gate needs that no frame of the pager runs while it is up |
| `BaseIsSafe` | `BaseStands` | an action property under the same invariant |
| `NothingLeaps` | `NoLeap` | `CatchInv`: each pot of the visible page *follows* the last reading or the present one - it is caught and holds it, or is armed on the side where the reading lies - unless a re-arm is owed (`relock`, `rearm`) or Settings is open |
| `PairsRemember` | `LatchFollowsPage` | `LatchInv` adds what the pair remembers of the page *underneath* a layer; it needs the hypothesis `LayersLeavePairs`, that no Shift leads from one member of a pair to the other - the case in the list above |
| `EditsAreUsed` | `EditIsUsed` | `EditInv` relates the values edited since the layer was engaged to what was stored then, through loads and param locks that put values back |

`LingeringEnds` is liveness and stays with TLC.

### Presets and HostLink (`framework/src/surface/presets.cpp`, `framework/src/host_link/host_link.cpp`)

`Presets` models the calls of `Presets` as operators over three variables: the schema hash
of the firmware that runs, the live state of the managed components, and the record each
slot shows (what `PresetStore`'s `Peek` answers; the flash operations below it are
that module's subject). Each piece of a component's bytes carries a ghost, `enc`: the schema it
was encoded for. The firmware cannot see it; it sees the hash a record is *stamped* with, and
`LiveIsOwn` says that the stamp is enough. `Presets` has no specification of its own;
`HostLink` extends it and composes its calls with three other parties:

| Party | Variables | Actions |
|---|---|---|
| the engine | `stage` (`stage_open_`, `_target_`, `_schema_`, `staging_`), `snap` (`snapshot_`, `snap_valid_`), `desc`, `descOk` (`desc_read_valid_`), `reboot` (`reboot_pending_`, `_mode_`) | `ServeX`, one per handler; `StageTimesOut`, `RebootFires` (the timers of `Poll`); `SetDescriptor` |
| the link | `rx`, `tx`: frames on their way | `LinkDamages`; a response for which the transmit queue has no room (`Send`) |
| the host | `host`: job, step, sequence number, what it has read | `HostBegins`, `HostSends`, `HostReceives`, `HostTimesOut`, `HostCrashes` |
| the player | - | `Panel` (an edit, a save, a load) |

A handler runs to completion inside `Poll`, so it is one step. The host is not in the
repository; it follows the notes of `docs/hostlink-protocol.md` (stop and wait, responses
matched by sequence number, one retry after a timeout, then a new start) and may also do
what they advise against, retry `BLOB_DATA`. Chunks are the components' bytes, in order, so an
offset is a number of components. The CRC is compared as the bytes it was computed over.
Times are left out: a stage may time out, a reboot may fire and a host may give up at any
moment, which includes every order of the real delays; a timeout that beats an answer
still underway costs a fault.

`hostlink` (`MCHostLink`, `HostLink.cfg`): two components, one slot, two firmware builds, two
jobs, two faults, one move at the panel. Two jobs are needed for a push that meets what another
left behind; two faults for a second timeout, after which the host starts again while
frames of the first start may still arrive; one move suffices to tear a read in two chunks.
`seen` is history: the states that the subject of the job has had since it began.

*Fairness.* `Poll` is called every millisecond, so `Serve` and `RebootFires` are weakly fair;
the host process runs, and its timeout fires when nothing is underway. The player, faults and
the timeouts that race an answer are not fair.

The model leaves out `HELLO`, `LIST_SLOTS` and `READ_SLOT` (they change nothing), extensions
(registered before the link starts) and the refusals that this host cannot provoke: a target
that is not a slot, a length of zero or above the buffer, an offset beyond the snapshot.

**Proved** (`HostLink_proofs`, for any number of components, slots, builds, payloads, faults and
jobs), under the assumptions that earlier records were written by a build of their own schema
and that the host follows the protocol:

* `HostLinkTypeCorrect`, `LiveStateIsOwn` (`LiveIsOwn`). The schema is compared once, in
  `OnBlobBegin`; `OnBlobData` and `OnBlobCommit` do not look at it again. The inductive invariant
  `Inv` says why that is enough: a chunk or a commit on the link carries bytes for the running
  firmware (`RequestsOwn`), because the host sent it after an `Ok` to its own begin (`HostOwn`,
  `AnswersOwn`), and a restart, which alone changes the firmware, empties the link and closes the
  stage (`StageOwn`). `StampsTell` says the same of records: those of other builds keep the stamp
  they were written with.
* `AcceptedPushIsApplied` (`AcceptedMeansApplied`), `BackupIsOfOneMoment` (`BackupIsOneMoment`),
  `DescriptorIsOfOneVersion` (`DescriptorIsWhole`). Their invariant, `JobInv`, follows the one
  request that the host waits for. The link is first-in first-out and the host stops and waits,
  so an answer with the number it waits for finds the device with nothing left to serve, and
  what the device holds then (stage, snapshot, descriptor read) is the host's own transaction.
  Retries, late answers of an earlier start and damaged frames are cases of that argument.

`PushEnds` is liveness and stays with TLC.

### FsUpload (`framework/src/storage/fs_extension.cpp`, `framework/src/storage/sd_card.cpp`)

| Variable | In the code |
|---|---|
| `disk` | of each card: the file under the final name, `<path>.part`, `<path>.partmeta` |
| `card`, `state` | what is in the slot, and what `SdCard::state_` believes |
| `xfer` | `mode_`, `write_flags_`, `xfer_size_`, `xfer_pos_`, `xfer_crc_`, `meta_synced_`; the file as `s_fil` sees it, and whether that handle has outlived its mount |
| `locked` | the path is in `lock_` |
| `kept` | history: how much of the upload was acknowledged and checkpointed |
| `faults`, `cuts` | bounds: failing calls and pulled cards, losses of power |

Each handler is one action, since it runs to completion in `HostLink::Poll`. What a failing
FatFS call or a loss of power leaves *inside* a handler matters most, so the contents a card
goes through are written down as a *plan*, a sequence with one element a call: `ClosePlan`
(`CloseTransfer`), `OpenPlan`, `CheckpointPlan`, `CommitPlan`. A handler that succeeds leaves
the last element; one that fails, or that the power cuts off (`PowerLoss`), any of them. The
CRC is the bytes it was taken over, so it chains over a resumption as the code's does.

There is one path. A transfer of another file only closes this one, which `OnClose` and
`OnOpenRead` do. `Recording` is a file the firmware writes; `Lock` puts it there. Hosts rename
whole files onto the path, and remove the file or its staging; they do not rename onto or from
the staging names. A card that was pulled needs a mount, so a handle from before is refused
(`FR_INVALID_OBJECT`), as the comment in `MapFr` says.

**Proved** (`FsUpload_proofs`, for any files, sizes and intervals of checkpoints, any number of
failures and losses of power). `PathIsWhole` (`UploadInv` = `TypeOK /\ FinalIsWhole`) and
`PathIsGuarded` (`FinalIsGuarded` = `ReplacementStaged /\ LockedOnlyCommitted`) hold under the
hypothesis `OneCard`. The invariant behind both, `StagingInv` (`StagingHolds`), says of the staged
file, its record of progress and the open transfer that they belong together: `.part` and the
bytes over which the CRC in `.partmeta` was taken agree as far as both reach (`Sound`), the CRC
of an open upload is that of the bytes it has written up to its position (`Counted`), and what the
card holds of them is a beginning of what the handle has (`Carries`). One lemma each says what an element of a plan may leave
(`Lands`), and a handler keeps the invariant because every element of its plan does. `AckedResumes`
(`AcknowledgedSurvives`) needs no such hypothesis: as long as nothing has failed and no power
was lost, `StagingInv` holds with any number of cards, and the record of progress covers what was
acknowledged (`AckInv`).

`OneCard` is needed: an upload opened on one card whose card is swapped for another that has the
same staged path may leave its checkpoint beside the other's `.part`, and a later resumption then
takes the two for one file. One more thing the code does, of which no property is claimed:
the checkpoint is emptied before it is rewritten, so that a loss of power there loses all of the
upload, although `docs/hostlink-protocol.md` section 8.4 says that at most the tail behind the last
checkpoint is lost.

**Finding** (`fs_locked`). Section 8 of `docs/hostlink-protocol.md` promises that a file the firmware
holds refuses host writes and deletion. `OnOpenWrite`, `OnDelete` and `OnRename` ask the lock table;
`OnCommit` does not, so an upload with the overwrite flag that was open when the firmware locked its
target unlinks the locked file and puts its own there. `LockedIsProtected` says what the
document says and is violated. (Whether `f_unlink` itself refuses a file that is open depends on
how FatFS is configured, outside this repository; the model takes it to succeed.) What does hold, and is
proved, is `LockedOnlyCommitted`: nothing else than such a commit changes a locked file. It does not
claim that the locked file stands.

### FsBrowse (the same sources)

The tree is a set of directories, each a row of slots; `cursor` is the listing with its one-entry
lookahead (`s_dir`, `pending_`, `dir_emitted_`), `open` the transfer as far as a path goes,
`locks` the table. `listing` is history: a host that follows the cookie, what it has been told, and
which entries have stayed where they were. Of FatFS it is assumed that `f_readdir` goes
forward over the slots, that a new entry takes the first free slot, that a rename enters the new
name before it frees the old, that a directory with entries is not unlinked, and that no handle
outlives its mount. Path names are folded as FAT does; `.part` and `.partmeta` names are marked.

`DirectoriesAreTrue` has four parts: `TreeIsSound` (a name is there once in any case of its
letters, a subdirectory's entry has its contents), `ListingWhole` (a listing that came to its
end has told of every entry that stayed exactly once, and of none that was never there),
`ListingAdvances` (each answer brings it on) and `HeldStand` (no command removes or renames a
locked file, or one a transfer needs). The exceptions are in the properties and are what the
code does: a listing whose directory had to be opened again after a change may skip or repeat
an entry (`late`, `skipped`); the target of an upload that was opened before the lock is replaced;
renaming a directory moves what is locked or in transfer below it. Entries whose
path would exceed the protocol's 192 bytes are listed but cannot be addressed.

### The run `fs_upload`

`MCFsUpload` checks three units: *files* (`FsUpload`), *directories* (`FsBrowse`) and *descriptor*
(`Host`, described further below).

* *files*: files of two and three chunks, a checkpoint every two, one card, two faults, one loss of
  power. Two faults are enough for a failing close followed by a failing open, or for a card pulled
  in one session and a failing call in the next; two files of the same length let an upload be
  resumed with another's bytes, a third of another length lets a checkpoint be of the wrong size.
* *directories*: a root with a file, one whose name the protocol cannot carry, one whose name is too
  long, a directory with two files, and a free slot; answers hold two names, so that every listing
  takes several. Three changes of tree, transfer or card are enough for a change before, during and
  after a lookahead; one lock fills the table. Directories are made and moved in the root only.

### ButtonBank and Surface (`framework/src/surface/button_bank.cpp`, `framework/src/surface/control_loop.cpp`)

`ButtonBank` has the bank's state (`prev`, `age`, `pressPage`, `holdAny`, `fired`, the zones with
`dirty` and `told`) and its calls: `PollOpen`, `PollGated`, `SetZone`, `Deserialize`, `Flush`. It has
no next-state relation of its own; `Surface` composes it with `Pager` on the same buttons in
the order of `ControlLoop::Tick`: in a poll the bank first, with the pager's page, then the pager;
in a frame the bank's notifications, also while Settings is open, then the pager's `Update`. The
bank asks the pager whether a hold is claimed and consumes the release when a gesture fired.
Times are counted in polls. `acted`, `spoiled` and `clean` are history. The code keeps `fired` as a mask of
eight, which is that set while a page and the globals declare at most eight buttons (`RosterAssumption`).

The run `surface` has a Shift whose button also cycles a global selector, and a Cycle
whose button has a tap and a hold of its own on page 0. It checks

* `GesturesInv`, a part of `PanelInv`: `TapOrHold` (a press fires taps or holds, never both) and
  `BindFollows` (what a Bind target was told is the zone, unless a notification is owed);
* `SpentPressIsInert`, which is `GatedIsInert` (a press during which Settings was open fires nothing)
  and `NavIsShadowed` (a cycle or a latch acts only when one of the releases it has pending ended a
  press in which no gesture fired).

What the loop does to a hold that fires on a used layer is in the model: a chord that aborts an
edited layer lets the tap of its button fire after all.

**Proved** (`Surface_proofs`, on top of what it proves of `Pager`, for any buttons, zones, bindings and pages that satisfy
`PagerAssumption` and `SurfaceAssumption`): `GesturesAreSound` (types, `TapOrHold`, `BindFollows`),
`GatedPressIsInert` (`GatedIsInert`), `GesturesShadowNav` (`NavIsShadowed`) and with them
`SpentPressesAreInert` (`SpentPressIsInert`). The inductive invariant is
`SurfaceIInv`: the pager's types and `LayerInv`, and

* `BankInv`: a press that is still down fired at most holds, and is marked `holdAny` if it did; a press that
  met the gate is marked `holdAny`, and its holds are marked `fired`, so it has nothing left to fire;
* `NavInv`: what bank and pager saw of the buttons agrees between their polls, and a release of a button that
  navigates is consumed or ended a press in which nothing fired. The second half needs the order of
  `ControlLoop::Tick`: the bank consumes before the pager has seen the release.

`SurfaceAssumption` has no selector with one zone, which `EnrollState` refuses. `PanelInv` as a whole is `PanelIsTrue`,
below with the LEDs.

### Settings, PresetGesture, PotCatch (`framework/src/surface/settings.cpp`, `framework/src/surface/preset_gesture_ui.cpp`, `framework/include/alchemy/control/pot_catch.h`)

`Settings` is the menu behind B2 + B3: the mode gesture and B1's page turns in `PollButtons`, and
`Update` in one step a frame: the re-arm, the controls of the page (a brightness and the selector
of the param locks' mode), and on page 0 the preset gesture. `PresetGesture` gives the gesture as
operators over its phases (`Idle`, `Saving`, `Loading`, `FlashConfirm`, `Disarmed`), `PotCatch` the soft
takeover that `Pager` also uses. Positions are quarters of the travel: both edges, the neutral
zone, and between. A load or a push from the host (`Push`) may come between any two steps.

The run `settings` has two slots, holds of two frames and one poll, and checks

* `SettingsInv`: `EngineFollows` - the zone is that of the stored pot, the locks are in that mode, and
  the LEDs have the stored brightness as soon as no re-arm is owed;
* `NothingTwice`: `OneCommitPerPass` - one save or load for each pass of neutral, whatever
  happens to the menu meanwhile - and `TurnsAreOwed` - a page turns only for a release of B1 in
  the menu, one for each turn;
* `NoSettingLeaps`: but for a load or push a setting changes from where its pot stood, or
  because the pot passed over it.

Holds of two frames are enough to be broken off and to complete. The gesture goes on when its pot
leaves the edge without reaching neutral, as the code's does.

**Proved** (`Settings_proofs`, for any number of slots, hold times and reach of the pots that satisfy
`SettingsAssumption` and `GestureAssumption`): `EngineIsCurrent` (`SettingsInv`), `DoneOnce` (`NothingTwice`) and
`PotsTakeOver` (`NoSettingLeaps`). The inductive invariant is `SettingsIInv`, which adds to the types and
`EngineFollows`

* `Earned`: a gesture in flight, or one that could start in the next frame, passed neutral since the last commit;
* that a page advance that is still pending stands for exactly one release (`turns`);
* `PotsFollow`: while the second page is shown and no re-arm is owed, a caught pot was stored as it was last
  read, and one that is not caught was read on the side of its value that the catch remembers. The
  re-arm of `Update` is what restores it after everything that breaks it.

`GestureIs` and `CatchBetween` are the lemmas about the two operators the proof rests on, one step of the preset gesture
and one of the soft takeover.

### ParamLock and LockSlot (`framework/include/alchemy/surface/param_lock.h`, `framework/src/control/param_lock_manager.cpp`)

`LockSlot` is one slot: the loop recorded from one pot of one page. The main loop changes a slot
field by field while the audio interrupt may read it between any two stores, so an operation is
a run of stores (`run \odot <<field, value>>`, in `ArmSlot`, `ActivateSlot`, `Finalise`, `RestoreSlot`, `SlideSlot`, ...)
that carries `inside`: whether the slot could be read behind every one of them. `readable` is that of all slots. It also has the snap of a
take's length to the musical grid (`LockSnapTicks`). Sample values are left out.

`ParamLock` is the trigger, the hold and the slots: polls of the trigger, the frame (playback, the
edges of the trigger, the gestures), and what others do between two frames. The musical clock is
the `now` and `running` that the locks see of it.

| Run | Shows |
|---|---|
| `locks` | `LockInv` = `LockTypeOK /\ ReadsInsideLoop /\ HoldEnds`: at whatever store the interrupt comes, an active slot has a loop and the head stands in it; no release, on whichever side of Settings it falls, leaves a hold dangling. `TakeIsKept`: a recording ends as a loop unless it is cleared or loaded. `PressesMeanOneThing` = `TapIsClean /\ HoldStaysOnPage`: a tap is a clean press, and a hold arms and clears no slot but of the page of its press. `LoopsKeepStep` = `ThawResumes /\ RestartsOnGrid`: a freeze keeps the distance to the anchor, a loop anchored during it is not slid ahead of the clock, none is touched if the clock was reset behind it, and a clocked loop restarts on its own grid |
| `locks_return` | **finding**: the comment in `param_lock_impl.h` says that a Return exit writes what this hold armed; a preset loaded during the hold is written too |

Two pages, one pot, two positions an arming nudge apart, buffers of two samples, one call of
others: enough for a take to be cut off at its first sample, to fill its buffer, to be loaded over
and to be left for another page.

A release and a press between two frames are taken for a press and its release, in that order, and
a load puts the anchor at the origin of the clock: the properties name these cases. The sizing of the
arena and the overlay are left out.

**Proved** (`ParamLock_proofs`, for any slots, lengths of buffers and frames, clocks, grids and saved forms that
satisfy `LockAssumption`):

| Theorem | Property | Argument |
|---|---|---|
| `LocksAreInductive`, `LocksAreSound` | `LockInv` | `LockIInv` is inductive. `SlotsInv`: a slot that is active has a loop and its head inside, one that records has begun its take, and records only in a hold; a run of stores keeps this because `active` falls before the loop goes and rises after it has come (`ClearSlot`, `ActivateSlot`, `RestoreSlot`). `PressInv` says what the flags of a press and a release mean together |
| `TakesAreKept` | `TakeIsKept` | an action property under `LockIInv`; a take of no sample needs the frames in flight to be flushed (`Finalise`) |
| `PressesAreClear` | `PressesMeanOneThing` | from `PressInv`: a hold that has not acted stands for a press that is clean; the page is followed slot by slot through `Gesture` and the edges (`FrameSlotGestures`, `SlotFrame`) |
| `LoopsStayInStep` | `LoopsKeepStep` | `OnGrid` of one slot through a frame (`PlaySlot`), and the slide of `SetFrozen` (`Resumed`) |

`LockSnapTicks` is the best fit among a finite sequence of lengths, so it needs no recursion: that
a span is 0 or one of them, at most `MaxSpan`, is what the proofs use of it.

### MusicalClock and ClockFollower (`framework/src/control/musical_clock.cpp`, `framework/src/control/clock_follower.cpp`)

`MusicalClock` is the timeline as operators over one record, since the follower works on it in
the same step as `Tick`: the position, the rate, the events, and the transport calls that wait
for the next `Tick`. `ClockFollower` is the interrupt's ring of pulse times, the poll that drains it,
estimates the period, declares lock and loss and steers the clock, and the application's calls. A
poll samples the time first and works later, so `BeginPoll` and `EndPoll` are two steps and pulses
come between them. Times are kept as how long ago they were, modulo `Wrap`: the code only takes
differences of wrapping counters. What the smoothing of the period and the PI loop compute is left
open within the limits the code clamps them to; the tempo meter `ClockPll` is left out. `SetExtPpqn` starts
over with the window it had: `RecomputeLimits`, which scales the window, is left out. The note values and
numbers of bars are constants (`NotePeriods`, `Bars`), one of each in the run and any in the proofs: each
is told by the same computation.

The run `clock` checks

* `ClockInv`: `RingIsFifo` (each pulse it took is handed over once and in order, also when the
  indices wrap), `LossIsPrompt` (when the pulses cease the lock ends within two polls of the time
  that the loss factor allows), and the types;
* `LossIsReal`: a loss is announced only after as long a silence as the loss factor asks for, up to a
  glitch that did not count, or when the ring was full;
* `TickTells`: `FreezeHolds` (from a loss to the next lock the clock stands under the policy
  Freeze), `StartsFromNow` (a start counts no time from before it), `EventsTell` (each note value that
  began is told, and no other).

A ring of two with indices that wrap at four, a wrap of time just above what `FollowerAssumption`
asks for, pulses one or two apart and polls up to two late: so that the ring fills, times
wrap and a pulse overtakes the sample. One call of the application.

**Proved** (`Clock_proofs`, for any ring, period window, loss factor, rates, note values and wrap
of time that satisfy `ClockAssumption` and `FollowerAssumption`): `ClockIsInOrder` (`ClockInv`), `LossesAreReal`
(`LossIsReal`) and `TicksTell` (`TickTells`). The assumptions say that the free-running indices wrap at a multiple of
the ring's size, that a poll comes long before a time since the last pulse can look negative, and that one
poll moves the timeline on by less than a cycle. `CInv` is the inductive invariant, which TLC checks too:

* `RingIsRecent`: what is in the ring came since the poll before (or since its sample, while a poll
  runs), the newest as long ago as `quiet` says unless one was dropped;
* `LockIsRecent`: a lock's stamp is no newer than the last pulse and no older than the loss factor allows
  and a poll. A poll that finds no loss brings the stamp back below the limit; this needs that the code's signed
  difference is the true one for every stamp a lock can have (`SinceIs`, `LostIs`);
* `StampIsLast`: with the ring drained, the follower's stamp is the last pulse's or older by less than the shortest
  period, which is the glitch that `LossIsReal` allows for;
* `Steers`: a follower at work steers the clock, so that no tempo is taken from the application.

What a poll does is a function defined by recursion over the pulses in the ring: `DrainsExist`
and `DrainedIs` give it as a sequence of single pulses, and `DrainedReached` carries `Reached` along that sequence
(`ConsumedReached` for one pulse). `Ticked` says what `Tick` does to every clock; `Passed` is the arithmetic of
`EventsTell`.

Observations without a property: a pulse beyond the validity window ends the lock without an event,
and a stray one makes `EXT_LOST` come twice; at double the tempo the follower may lock to the
wrong one; a Start and a Stop that
wait for the same poll are applied as a stop and then a start, whichever was called first; `ClockPll::Reset` clears the period though `clock_pll.h:71` says that it is kept.

### Wire and CdcLink (`framework/include/alchemy/host_link/cobs.h`, `frame.h`, `framework/src/host_link/cdc_transport.cpp`)

`Wire` has byte stuffing (`CobsEncode`, `CobsDecode`), the frame writer (`Encode`) and the parser with its states, at
small sizes: groups of three bytes, bodies of one. The checksum is an abstract one that a garbled
frame does not pass. The decoder does not look at the size of its output, in the code as here; at the
default `kMaxBody` its buffer is as long as the longest chunk that is accumulated, and no larger setting is
modelled. `CdcLink` puts the transport under it: the receive ring written by the
interrupt `OnRx`, the drain up to a snapshot of its head, the batch handed to the parser, the
transmit ring, two chunk buffers that USB reads in place, and an endpoint that refuses while one
is in flight. A host may have been talking before the device listens.

The run `board` checks two invariants of it: `VerifiedWasSent` (what passes for verified was sent, in order, each
frame at most once, whatever the ring dropped) and `LinkIsFaithful`, which is `SparedFrameIsHeard` (a
frame that arrived whole behind a delimiter is surfaced, whatever garbage came before it) and
`RepliesArriveInOrder` (the host gets the queued frames whole, each byte once), with the types.
Two scripts of two frames, each behind a noise of its own, rings of seven and fifteen bytes:
the receive ring overruns, the parser overflows on noise, and the transmit ring wraps.

**Proved** (`Board_proofs`, for rings, chunks, batches, packets, groups and bodies of any size, any noise, scripts and
replies that satisfy `WireAssumption` and `LinkAssumption`): `LinkIsTrue` (`LinkIsFaithful`), on top of
`StuffingIsUndone`, by which `CobsDecode` undoes `CobsEncode` for every sequence of bytes. The inductive
invariant is `LinkIInv`; with the types it has

* `RxInv`: the receive ring and the batch hold the last of the bytes that were stored, in order, so that the
  first `Given` of them are what the parser was given. `Read` copies up to its snapshot of the writer's
  index, and `OnRx` may come between any two of its steps: the gap to the snapshot never exceeds what
  the ring holds;
* `ParserInv`: the accumulator has exactly what came behind the last delimiter, or is in overflow because that is
  longer than a frame can be;
* `HeardInv`: between any two delimiters parsed so far, what decodes to a frame has been surfaced;
* `TxInv`: a transfer under way reads the chunk that is not being prepared, and what arrived, what is
  in flight, what is prepared and what the transmit ring holds are together what was queued.

The lemmas are about the ring indices (`FilledIs`, `AdvancedIs`, `PlacesBehind`: what a write and a read
leave where), the two directions of the stuffing (`EncodedIs`, `DecodedGroup`) and a frame in front of
its delimiter (`EncodeIs`, `FrameIsRead`). `Encoder` and `Decoder`, recursive functions over the length of
what is left, are unfolded with a lemma on recursion below a number (`Recursion`), proved from the least-number
principle; what they compute is shown by the least length at which it could go wrong. `VerifiedWasSent` stays with TLC: it asks of
the checksum that it tells every damaged frame from a sound one, which holds of the abstract `Crc32` for the
instance's few frames and of no checksum for all.

### Diagnostics (`framework/src/host_link/diagnostics.cpp`)

The ring of records with its sequence numbers, the restart of the numbers (`LogV`, `epoch`), discovery
with the host's token, reading from a cursor, and a gauge that the audio interrupt publishes
between the two reads of `DIAG_VALUES`. `host` is a host that follows the log and may miss any
answer. `HostIsNotMisled` = `FollowedToTheEnd` (it has each record once and in order, or was told how
many it lost, and never reads on across a restart), `GaugesStay` and `ValidWasPublished`, with the types. A
ring of two records, numbers up to four, six messages and three tokens: overrun, restart and a
second session all occur.

### CvBus, CvOutputs and FactoryCal (`hardware/alchemy-lab/v2/src`)

`CvBus` is the expander and the quad DAC: the state is a record, an operation the set of its
outcomes, since any transfer can fail, and of the four channels any number may have been
written before the failure. `CvOutputs` are the calls of the application (`SetVolts`, `StageVolts`,
`FlushCvOutputs`, routing). It starts from any latched codes, since `Init` does not look at the result of
the latch pulse at boot. `OutputsAsTold` = `AcceptedIsDriven` (when nothing is staged, a jack drives
the last value that was accepted for it) and `RoutedAsTold` (a jack is taken for connected exactly
when its switch is closed). It is stated where no answer of the expander is lost: an
expander that took a write whose answer was lost leaves the shadow wrong, and
`SetOutputBit` then skips the write that would put it right.

`FactoryCal` is the calibration as the list of its instructions for one jack, with defects, failing
transfers and loss of power. `CalibrationIsSafe` = `OneDacConnected`, `RecordIsEarned` (the record in
flash is the old one, torn, or of a run in which every jack passed) and `ConnectsAtNeutral`. The
readings of zero before the first jack are left out. That a torn record is read as invalid, and so as the
fallback, is what its checksum is taken to do, not something the run shows; what it shows is
which record can be there.

### Ws2812 (`hardware/alchemy-lab/v2/src`, `hardware/alchemy-lab/v1/src`)

Both versions of the LED strip's driver: `Show` step by step, and the DMA stream with its
interrupt. `FramesAreWhole`: a stream that
ends has sent one frame whole, and one that fails or is aborted on the way the beginning of one; that the
strip shows such a beginning until the next frame is not excluded.
`ShowReturns`: v2's `Show` returns even if the stream stalls or fails ("Don't hang"); v1 waits
without limit, so it is stated for v2 only. *Fairness*: weak fairness of `ShowStep`, the
processor's own next instruction, and nothing of the DMA.

### The run `board`

Six units of `MCBoard`: *link*, *diagnostics*, *cv*, *calibration*, *strip*, and the *store* of `PresetStore` above. Two channels of a DAC and
three codes are enough for a failure between two channels and for a value that differs from
neutral either way.

**Proved** (`Board_proofs`):

* `StripGetsWholeFrames` (`FramesAreWhole`), for either version, any number of waits and any order of
  interrupts. `StripInv` says who has the buffer: while `Show` encodes the stream is idle, and while the
  stream runs `busy` is set, unless `Show` has just started it.
* `OutputsAreAsTold` (`OutputsAsTold`), for any channels, lines and codes. `CvInv` holds of the bus
  record `BusOK` - the expander's shadow is what the chip has, outputs follow while the latch is open -
  and lemmas give what each operation does to it on every outcome (`WrittenLines`, `BitSet`, `Pulsed`,
  `WrittenPrefix`, `WrittenAll`, `Applied`).
* `HostsAreNotMisled` (`HostIsNotMisled`), for any ring, record lengths and numbers of requests. `DiagInv` is
  `RingInv` (cell by cell, the ring holds the last messages in order), `SessionInv`, `CursorInv` (where
  the host's cursor stands in the epoch it knows) and `GaugeInv`. That `Packed` is well defined - there
  is a greatest number of records that fit - is proved from the least-number principle.

* `CalibrationHarmsNothing` (`CalibrationIsSafe`), for any number of jacks, any probes, sweep, targets and
  points where the other inputs are read, any defect. `CalAssumption` asks what the code's tables
  have: some probe and some such point is not neutral, and the sweep is not empty. `CalIInv` says that
  while the procedure runs no transfer has failed, so the expander has what its shadow has
  (`Settled`) and the switches are as far as the instruction says (`Linked`), and which defects the
  readings passed so far rule out (`RuledOut`); after the first failure at most one switch stays
  closed. `Plan` and `PlanChecks` are the facts about the list of instructions: one connects, after a
  write of the neutral code; each reading judges the write before it; each defect has a reading
  that it cannot pass (`ReadingJudges`).

The unit *link* is proved about there too, as told above. `ShowReturns` is liveness and stays with TLC.

### JsonText, Declarations, Descriptor, Describe, Host (`framework/src/host_link`)

| Module | Models |
|---|---|
| `JsonText` | `JsonWriter` and `ValidJsonValue`, over tokens |
| `Declarations` | what an application declares: knobs, buttons, jacks, pages, manual, references |
| `Descriptor` | `DescriptorBuilder` call by call: order rules, tables, limits, first error |
| `Describe` | the describers of the standard surfaces, and `ComponentWriter` |
| `Host` | registration of extensions, factory image, first build, refresh, publication |

Names, labels, colours and number formats, which no check reads, are left out of the text. A
describer that an application wrote calls its `ComponentWriter` as it likes, so each of its calls
is a step of `Host`; the rest of a build is deterministic.

`DescriptorIsTrue`, a property of the run `fs_upload` (unit *descriptor*): `PublishedIsTrue` - what is
published parses; it is the descriptor of an error, without components, or tells the truth of
layout, fields, factory defaults and links, and loses none of the prose that was declared (`said`);
`RefreshIsSafe` - a refresh never takes a whole descriptor away; `CommandsAreDisjoint` - no command is
answered by two extensions or by one and the core. 25 panels: a whole one, 21 with one
fault each or with other prose, and three whose component the application describes itself, with up
to three calls of a small set.

What the code does and the property leaves out: a field near the end of the number range passes the
check of `GenericField`, whose sum wraps at 32 bits; the gesture help of a button of the host only
is lost, although `virtual_button.h:396` and `descriptor.cpp:629` say that text never vanishes. Further, a
misuse of `ComponentWriter`, too many references and a failing bank are reported with the general
reason only; `BeginPager`, `BeginSettings`, `Opaque` and `Name` do not check that another component is
open; `Host::AddJack` and `AddButton` drop what is beyond 16 and 8 without a word, so that the
builder's own errors for that are out of reach through them.

### RingFrame, Renderers, Indicators (`framework/src/led`)

`RingFrame` is a frame of a ring: its base (fill, selector, pip), the regions the base stamps, overlays,
and its emission onto a ring that already shows something. `Renderers` are the performance renderer, the
gradient arc, the catch pip, the preset gesture and the preset slot. `Indicators` are the clip
indicator, fed by the audio interrupt between the steps of `Tick` and `SetEnabled`, and the pip on the
beat. Of an LED is kept what can be seen in it, not how bright; floats are exact, colours not black.

`LightsAreTrue`, a part of `PanelInv` in the run `surface` (units *ring*, *clip*, *beat*): `RegionsAreLit`,
`SelectedShows`, `OverlayStays` and `ShowsAtItsHour` of the frame; `ParameterShows`, `SlotIsLegible` and
`GestureShows` of what is drawn; `ClippingShows` (no sample is lost or counted twice, over the wrap of the
counter; the light fires on nothing less than the limit and stays for the hold) and `BeatKeepsTime` (beats
come at the multiples of the period, whatever the frames).

Bounds: the three ways a ring of the v2 panel is wound, arcs of 0, 1, 4 and 13 LEDs, seven values around
the places of LEDs, one overlay a frame over bases of one value, no CV patched; for clipping a counter
that wraps at 8, so that it wraps within a window; 32 ms of beats of four periods around the threshold.

Two things are left out of the properties: where `fill_frac` is 0, the mark of a color-morph snap is
blackened at the tip; and where a fill is wound counter-clockwise, the catch pip does not lie at its tip
(`DrawCatchPip` always counts from the arc's clockwise start), so `ParameterShows` places the mark for
clockwise fills.

History: `base` and `stage` of a ring remember what was drawn and which LEDs the overlays drew; `account`
what clipped in the window that the light stands for, millisecond by millisecond; `steady` how many beats
have come since the beat began and in how much time.

**Proved** (`Surface_proofs`, for arcs of up to 14 LEDs, rings wound either way from any LED's hour, any fills,
selectors, pips and slots that satisfy `RingAssumption` and `RenderAssumption`; for counters, windows, thresholds,
holds, periods and frames that satisfy `IndicatorAssumption`):

| Theorem | Property | Argument |
|---|---|---|
| `RingsAreTrue` | the parts of `LightsAreTrue` about rings | `RingIInv` is inductive: `RingHolds` (a frame that has not been rendered over is `Framed`: its LEDs are those of its arc and its regions are stretches of them; what a base has drawn in it) and `RingShows` (the properties). The operators have lemmas of their own: `ArcSnapFrac` and the fills, the three ways to lay out zones, pips and fields, and that `RingOffsetForHour` gives each LED of the arc an offset of its own |
| `IndicatorsAreTrue` | `ClippingShows`, `BeatKeepsTime` | `ClipInv`: the bucket never holds more than its brim less what has leaked since, so only the window counts (`BucketLeaks`), and count and account agree modulo the wrap at each point where the interrupt may come; `BeatInv`: beats and phase make up the time |
| `PanelIsTrue` | `PanelInv` | the units share no state: `PanelIInv` is the conjunction of their invariants with `SurfaceIInv`, and each stands while another moves |

The values of a control are multiples of `1/Unit` for any `Unit`, so the theorems hold however finely a value is cut.

## 4. What is assumed throughout

* TLC's results are for the instances named above; the theorems are for all instances that satisfy the
  assumptions named in the modules (`...Assumption`), which TLC evaluates for the instances.
* A step of a model is atomic: the main loop's code between two calls that can fail, be
  cut off by a loss of power or be interrupted.
* CRC-32 tells damaged data from good data.
* Compiler, HAL, FatFs and the USB stack do what the code expects of them.

What stays with TLC: liveness under fairness (`LingeringEnds`, `PushEnds`, `ShowReturns`), which the
prover does not reach; what rests on `RECURSIVE` operators, which it does not unfold (`FsBrowse` and with it
`DirectoriesAreTrue`; `JsonText`, `Descriptor`, `Describe` and `Host` and with them `DescriptorIsTrue`);
and `VerifiedWasSent`, which rests on what the checksum tells apart.

## 5. Not modelled

* *Virtual knobs*: curves, ranges and labels of a value, floating-point arithmetic. When a pot is
  caught is `PotCatch` and in `Pager`; what a knob declares to the host is in `Declarations`.
* *CV routing and edges*: sums, attenuation and hysteresis in floating point, one sample at a time.
* *Presets*: names of slots and the registration of components, before the first load.
* *HostLink*: `HELLO`, `LIST_SLOTS`, `READ_SLOT`, which change nothing.
* *Diagnostics*: the paging of gauge descriptions, and the checks of texts.
* *Settings*: knobs and bipolar pots without an engine behind them, custom slots, names and colours.
* *Control loop*: the application's hooks; the surfaces are composed two at a time (`Surface`, `ParamLock` with
  its page and gate), not all at once.
* *Clock*: the tempo meter `ClockPll`, the divisions and the time base.
* *LED rendering*: brightness and colour arithmetic, animation over time, sparkles, which are random.
* *Hardware*: initialisation, polled reads of pots and buttons, trigger detection, the audio shim, the
  conversion of voltages.
* Examples, tools and stubs use the framework and are not part of it.
