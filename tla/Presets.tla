------------------------------- MODULE Presets -------------------------------
(***************************************************************************)
(* framework/src/surface/presets.cpp: the live state of the managed        *)
(* components, and the slots their bytes are saved to and loaded from.      *)
(*                                                                         *)
(* A call runs to completion on the control-loop thread, so it is one      *)
(* step here; its flash operations are PresetStore's subject, and a slot    *)
(* is what PresetStore's Peek answers.  The module has no specification of  *)
(* its own: HostLink composes these calls with the panel and the host.      *)
(*                                                                         *)
(* The bytes of a component carry the schema they were ENCODED for, which   *)
(* the firmware cannot see; it sees the hash a record is STAMPED with.      *)
(***************************************************************************)
EXTENDS Naturals

CONSTANTS
  NumManaged,   \* number of managed components
  Contents,     \* what a component's bytes can say
  Malformed,    \* the contents a component's Deserialize refuses
  Default,      \* the content every component holds before BootLoad
  Schemas,      \* schema hashes of the firmware builds a device can run
  Shipped,      \* the build that a device runs first
  Slots,        \* preset slots
  BootSlot,     \* the slot loaded at power-on
  Older,        \* records of earlier sessions: [stamp, bytes]
  None          \* no record

Managed == 1 .. NumManaged
Piece   == [enc : Schemas, says : Contents]
Bytes   == [Managed -> Piece]
Record  == [stamp : Schemas, bytes : Bytes]

\* The records that a build of their own schema wrote.
TrueRecord == {r \in Record : \A c \in Managed : r.bytes[c].enc = r.stamp}

ASSUME PresetsAssumption ==
  /\ NumManaged \in Nat \ {0}
  /\ Default \in Contents \ Malformed
  /\ Malformed \subseteq Contents
  /\ Shipped \in Schemas
  /\ BootSlot \in Slots
  /\ Older \subseteq TrueRecord
  /\ None \notin Record

VARIABLES
  schema,   \* SchemaHash() of the running build
  live,     \* what each managed component holds
  stored    \* the record each slot shows, or None

presets == <<schema, live, stored>>

Factory(h) == [c \in Managed |-> [enc |-> h, says |-> Default]]

-----------------------------------------------------------------------------
(* Queries                                                                 *)

\* Mutant: any record that verifies may be loaded.
StampIgnored(r, h) == r # None

\* A record verifies and is stamped with the hash h.
StampMatches(r, h) == r # None /\ r.stamp = h

HasValid(s) == StampMatches(stored[s], schema)

Refused(bytes) == {c \in Managed : bytes[c].says \in Malformed}

Accepted(bytes) == Refused(bytes) = {}

\* Components are restored in order until one refuses; those before it keep
\* what they were given.
Restored(old, bytes) ==
  [c \in Managed |->
     IF \A d \in 1 .. c : d \notin Refused(bytes) THEN bytes[c] ELSE old[c]]

-----------------------------------------------------------------------------
(* Calls                                                                   *)

DeserializeLive(bytes) ==
  /\ live' = Restored(live, bytes)
  /\ UNCHANGED <<schema, stored>>

\* Load succeeds if the record's stamp matches and every component accepts.
LoadSucceeds(s) == HasValid(s) /\ Accepted(stored[s].bytes)

Load(s) ==
  /\ live' = IF HasValid(s) THEN Restored(live, stored[s].bytes) ELSE live
  /\ UNCHANGED <<schema, stored>>

\* Commit a record; on a flash failure the slot keeps showing what it did.
WriteSlotRaw(s, stamp, bytes, ok) ==
  /\ stored' = IF ok THEN [stored EXCEPT ![s] = [stamp |-> stamp, bytes |-> bytes]]
                     ELSE stored
  /\ UNCHANGED <<schema, live>>

Save(s, ok) == WriteSlotRaw(s, schema, live, ok)

\* A failing erase can take either side: what shows then may be gone, be
\* there still, or be an older record.
EraseSlot(s, ok) ==
  /\ \E r \in (IF ok THEN {None} ELSE {stored[s], None} \cup Older) :
       stored' = [stored EXCEPT ![s] = r]
  /\ UNCHANGED <<schema, live>>

\* Start of the firmware of schema h: factory defaults, then BootLoad.
Start(h) ==
  /\ schema' = h
  /\ live' = LET r == stored[BootSlot]
             IN  IF StampMatches(r, h)
                   THEN Restored(Factory(h), r.bytes) ELSE Factory(h)
  /\ UNCHANGED stored

\* A turn of a knob.
Edit(c, says) ==
  /\ live' = [live EXCEPT ![c] = [enc |-> schema, says |-> says]]
  /\ UNCHANGED <<schema, stored>>

-----------------------------------------------------------------------------
PresetsTypeOK ==
  /\ schema \in Schemas
  /\ live \in Bytes
  /\ stored \in [Slots -> Record \cup {None}]

\* Every piece of the live state was encoded for the firmware that runs:
\* no load, push or restart ever applies a record of another layout.
LiveIsOwn == \A c \in Managed : live[c].enc = schema

\* A record's stamp tells the truth about its bytes.
StampsTell ==
  \A s \in Slots : stored[s] \in TrueRecord \cup {None}
=============================================================================
