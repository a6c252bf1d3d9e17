----------------------------- MODULE Diagnostics -----------------------------
(***************************************************************************)
(* Diagnostics over HostLink (host_link/diagnostics.cpp): a ring of log    *)
(* records that hosts follow with a cursor, and gauges whose values are    *)
(* published by the audio interrupt.                                       *)
(*                                                                         *)
(* The host is the client of docs/hostlink-protocol.md section 9: it asks  *)
(* for a session with a fresh token, reads behind its cursor, may lose any *)
(* answer and ask again, and discovers anew when it is refused.            *)
(*                                                                         *)
(* A record is told from the others by a number it gets when it is logged  *)
(* (its message); its size in a response is one more than its length.      *)
(* Levels, times and the counts of shortened messages are left out.        *)
(***************************************************************************)
EXTENDS Integers, Sequences

CONSTANTS
    Kapacity,       \* kCapacity
    LastSequence,   \* UINT32_MAX, for the sequence numbers
    Budget,         \* bytes of records that fit a response
    Lengths,        \* of the text of a record
    Requests,       \* how many records a host asks for at most
    KMaxGauges,     \* kMaxGauges
    MaxTokens,      \* bound: discoveries
    MaxMessages,    \* bound: messages logged
    Absent          \* the answer of a gauge that is not being sampled

ASSUME DiagAssumption ==
    /\ {Kapacity, Requests, KMaxGauges} \subseteq Nat \ {0}
    /\ LastSequence \in Nat /\ LastSequence > 1 /\ Budget \in Nat
    /\ Lengths \subseteq Nat /\ {MaxTokens, MaxMessages} \subseteq Nat

VARIABLES
    ring,       \* records_, head_, count_: records are [sequence, message, length]
    next,       \* next_
    session,    \* session_, 0 for none
    gauges,     \* gauge_count_
    described,  \* described_
    messages,   \* how many messages were recorded since boot
    epoch,      \* ghost: the message before the first of this epoch
    gauge,      \* a gauge's atomics: [bits, valid], bits = 0 before the first Set
    sample,     \* the answer under way: Absent, or [valid, bits] as far as read
    tokens,     \* how many candidate tokens hosts have used
    host        \* the host: see NewHost

diagVars == <<ring, next, session, gauges, described, messages, epoch, gauge, sample, tokens, host>>

EmptyLog == [at |-> [i \in 0 .. Kapacity - 1 |-> [sequence |-> 0, message |-> 0, length |-> 0]],
             head |-> 0, count |-> 0]

\* A host without a session.  got: the messages read; lost: how many it was told it lost;
\* since: the last it did not ask for; sampled: the last answer of the gauge.
NewHost == [session |-> 0, cursor |-> 0, gauges |-> 0, got |-> <<>>, lost |-> 0, since |-> 0,
            sampled |-> [valid |-> 0, bits |-> 0]]

\* After boot.
DiagInit ==
    /\ ring = EmptyLog /\ next = 1 /\ session = 0
    /\ gauges = 0 /\ described = FALSE /\ messages = 0 /\ epoch = 0
    /\ gauge = [bits |-> 0, valid |-> 0] /\ sample = Absent
    /\ tokens = 0 /\ host = NewHost

Oldest == next - ring.count
At(offset) == ring.at[(ring.head + offset) % Kapacity]

-----------------------------------------------------------------------------
(* The firmware                                                            *)

\* A sequence number that is the last starts a new epoch: the ring is emptied, no host has a
\* session in it.
NewEpoch ==
    IF next = LastSequence
      THEN [ring |-> EmptyLog, next |-> 1, session |-> 0, epoch |-> messages]
      ELSE [ring |-> ring, next |-> next, session |-> session, epoch |-> epoch]

\* r behind the records of the ring, over the oldest where it is full.
Stored(log, r) ==
    LET full == log.count = Kapacity
        head == IF full THEN (log.head + 1) % Kapacity ELSE log.head
        kept == IF full THEN log.count - 1 ELSE log.count
    IN  [at |-> [log.at EXCEPT ![(head + kept) % Kapacity] = r], head |-> head, count |-> kept + 1]

LogV ==
    /\ messages < MaxMessages
    /\ \E length \in Lengths :
         LET e == NewEpoch
         IN  /\ ring' = Stored(e.ring, [sequence |-> e.next, message |-> messages + 1,
                                        length |-> length])
             /\ next' = e.next + 1 /\ session' = e.session /\ epoch' = e.epoch
    /\ messages' = messages + 1
    /\ UNCHANGED <<gauges, described, gauge, sample, tokens, host>>

\* A message that cannot be formatted: the epoch may have been closed for it all the same.
LogFails ==
    /\ next = LastSequence
    /\ ring' = NewEpoch.ring /\ next' = NewEpoch.next
    /\ session' = NewEpoch.session /\ epoch' = NewEpoch.epoch
    /\ UNCHANGED <<gauges, described, messages, gauge, sample, tokens, host>>

\* A gauge can be added as long as no host has been told their number.
MayWatch == ~described /\ gauges < KMaxGauges

Watch ==
    /\ MayWatch
    /\ gauges' = gauges + 1
    /\ UNCHANGED <<ring, next, session, described, messages, epoch, gauge, sample, tokens, host>>

\* GaugeBase::Publish, in the audio interrupt.
Set ==
    /\ gauge' = [bits |-> 1, valid |-> 1]
    /\ UNCHANGED <<ring, next, session, gauges, described, messages, epoch, sample, tokens, host>>

-----------------------------------------------------------------------------
(* Requests: the state change of the device, and of the host if it hears   *)

Device == <<gauges, messages, epoch, gauge>>

\* DIAG_INFO with a fresh token, or a retry with the last.
InfoResponse ==
    /\ sample = Absent
    /\ \E token \in {tokens, tokens + 1} \ {0}, heard \in BOOLEAN :
         /\ token <= MaxTokens
         /\ tokens' = token
         /\ session' = IF session = 0 THEN token ELSE session
         /\ described' = TRUE
         /\ host' = IF ~heard THEN NewHost
                    ELSE [NewHost EXCEPT !.session = session', !.cursor = Oldest, !.gauges = gauges,
                                         !.since = messages - ring.count]
    /\ UNCHANGED <<Device, ring, next, sample>>

\* The bytes of n records from `start` on.
SizeOf(start, n) ==
    LET s[i \in 0 .. n] == IF i = 0 THEN 0 ELSE s[i - 1] + 1 + At(start + i - 1).length
    IN  s[n]

\* How many records from `start` on fit the response.
Packed(start, limit) ==
    LET fits == {n \in 0 .. ring.count - start : n <= limit /\ SizeOf(start, n) <= Budget}
    IN  CHOOSE n \in fits : \A m \in fits : m <= n

\* The record that is being overwritten is not counted.
LostLessOne(cursor) == IF cursor + 1 < Oldest THEN Oldest - cursor - 1 ELSE 0

\* How many records the ring has dropped since the cursor.
LostTo(cursor) == IF cursor < Oldest THEN Oldest - cursor ELSE 0

Refused == host' = NewHost

ReadResponse ==
    /\ sample = Absent /\ host.session # 0
    /\ \E limit \in 1 .. Requests, heard \in BOOLEAN :
         LET lost  == LostTo(host.cursor)
             from  == host.cursor + lost
             start == IF from < Oldest THEN 0 ELSE from - Oldest
             n     == Packed(start, limit)
         IN  CASE ~heard -> UNCHANGED host
               [] heard /\ (session # host.session \/ host.cursor > next) -> Refused
               [] OTHER ->
                    host' = [host EXCEPT !.cursor = from + n, !.lost = @ + lost,
                                         !.got = @ \o [i \in 1 .. n |-> At(start + i - 1).message]]
    /\ UNCHANGED <<Device, ring, next, session, described, sample, tokens>>

\* What the flag, or the bits, of a gauge are before they are read.
Unread == 2

\* DIAG_VALUES reads the flag first.
FirstRead == [valid |-> gauge.valid, bits |-> Unread]

\* The audio interrupt may come between the two reads.
ValuesBegin ==
    /\ sample = Absent /\ host.session # 0
    /\ IF session # host.session THEN Refused /\ UNCHANGED sample
       ELSE sample' = FirstRead /\ UNCHANGED host
    /\ UNCHANGED <<Device, ring, next, session, described, tokens>>

ValuesEnd ==
    /\ sample # Absent
    /\ host' = [host EXCEPT !.sampled =
                    [valid |-> IF sample.valid = Unread THEN gauge.valid ELSE sample.valid,
                     bits  |-> IF sample.bits = Unread THEN gauge.bits ELSE sample.bits]]
    /\ sample' = Absent
    /\ UNCHANGED <<Device, ring, next, session, described, tokens>>

DiagNext == \/ LogV \/ LogFails \/ Watch \/ Set
            \/ InfoResponse \/ ReadResponse \/ ValuesBegin \/ ValuesEnd

DiagSpec == DiagInit /\ [][DiagNext]_diagVars

-----------------------------------------------------------------------------
(* Properties                                                              *)

DiagTypeOK ==
    /\ ring.count \in 0 .. Kapacity /\ ring.head \in 0 .. Kapacity - 1
    /\ next \in 1 .. LastSequence /\ session \in 0 .. MaxTokens
    /\ gauges \in 0 .. KMaxGauges /\ epoch <= messages
    /\ messages = epoch + next - 1

\* A host that follows its cursor (ReadResponse) has every record once and in order, or has
\* been told exactly how many it lost, however the ring overtook it, whatever answers went
\* astray; and it never reads on across the restart of the sequence numbers (LogV).
FollowedToTheEnd ==
    LET end == host.since + Len(host.got) + host.lost
    IN  host.session # 0 =>
          /\ \A i \in DOMAIN host.got : host.got[i] \in host.since + i .. end
          /\ \A i, j \in DOMAIN host.got : i < j => host.got[i] < host.got[j]
          /\ session = host.session => end = epoch + host.cursor - 1

\* The number of gauges a host was told stays their number, also when its session ended and
\* another began (Watch is refused once described_ is set).
GaugesStay == host.session # 0 => host.gauges = gauges

\* A gauge reported as valid is reported with bits that were published, though the interrupt
\* may publish the first between the read of one and of the other (ValuesResponse).
ValidWasPublished == host.sampled.valid = 1 => host.sampled.bits # 0

\* What a host makes of the log and the gauges (LogV, ReadResponse, ValuesResponse).
HostIsNotMisled == DiagTypeOK /\ FollowedToTheEnd /\ GaugesStay /\ ValidWasPublished
=============================================================================
