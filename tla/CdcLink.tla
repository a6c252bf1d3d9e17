------------------------------- MODULE CdcLink -------------------------------
(***************************************************************************)
(* The USB link (host_link/cdc_transport.cpp) under the frame parser and   *)
(* the reply path of HostLink::Poll.                                       *)
(*                                                                         *)
(* Two interrupts run between any two steps of the main loop: OnRx brings  *)
(* a packet into the receive ring, and a transfer completes, which frees   *)
(* the endpoint.  USB reads a chunk buffer in place until its transfer     *)
(* completes; what the host gets is what the buffer holds then.            *)
(*                                                                         *)
(* A host may have been talking before the device listens (Noise) and does *)
(* not wait for replies.  What a command does is HostLink's; here a frame  *)
(* that is verified gets one of Replies, a damaged one an error.           *)
(***************************************************************************)
EXTENDS Wire, SequencesExt

CONSTANTS
    RxRing, TxRing, \* kRxRing, kTxRing: one slot of a ring stays free
    Chunk,          \* kChunk
    Batch,          \* sizeof(rx_buf_)
    FramesPerPoll,  \* kMaxFramesPerPoll
    Packets,        \* how many bytes a USB packet has, if so many are left
    Noise,          \* what may be on the wire before the first frame
    Scripts,        \* what the host may send: the bodies of its frames
    Replies         \* bodies of the device's frames

ASSUME LinkAssumption ==
    /\ {RxRing, TxRing} \subseteq Nat \ {0, 1} /\ {Chunk, Batch} \cup Packets \subseteq Nat \ {0}
    /\ FramesPerPoll \in Nat \ {0}
    /\ Noise \subseteq Seq(Nat) /\ Scripts \subseteq Seq(Seq(Nat)) /\ Replies \subseteq Seq(Nat)
    /\ \A b \in Replies \cup UNION {RangeOf(script) : script \in Scripts} : Len(b) <= MaxBody

VARIABLES
    line,       \* bytes the host has still to put on the wire
    sent,       \* bodies of the frames it sends, by sequence number
    rx,         \* the receive ring: [bytes, w, r]
    stored,     \* every byte the ring accepted
    dropped,    \* rx_dropped_
    pc,         \* where HostLink::Poll stands
    snapshot,   \* Read's copy of the writer's index
    batch,      \* rx_buf_, what is left to parse
    parser,
    handled,
    heard,      \* the frames surfaced
    tx,         \* the transmit ring: [bytes, w, r]
    chunk,      \* the two chunk buffers
    sel,        \* chunk_sel_
    pending,    \* pending_len_
    flight,     \* the transfer under way: [buffer, len], len = 0 for none
    replied,    \* ghost: the bytes Send has queued, frame by frame
    arrived     \* ghost: the bytes the host has got

hostVars == <<line, sent>>
rxVars   == <<rx, stored, dropped>>
pollVars == <<pc, snapshot, batch, parser, handled, heard>>
txVars   == <<tx, replied>>
usbVars  == <<chunk, sel, pending, flight, arrived>>
linkVars == <<hostVars, rxVars, pollVars, txVars, usbVars>>

EmptyRing(size) == [bytes |-> [i \in 0 .. size - 1 |-> 0], w |-> 0, r |-> 0]

LinkInit ==
    /\ sent \in Scripts
    /\ \E noise \in Noise :
         line = noise \o FlattenSeq([k \in DOMAIN sent |-> Encode(k, sent[k])])
    /\ rx = EmptyRing(RxRing) /\ stored = <<>> /\ dropped = 0
    /\ pc = "idle" /\ snapshot = 0 /\ batch = <<>> /\ parser = NewParser /\ handled = 0
    /\ heard = <<>>
    /\ tx = EmptyRing(TxRing) /\ replied = <<>>
    /\ chunk = [b \in 0 .. 1 |-> <<>>] /\ sel = 0 /\ pending = 0
    /\ flight = [buffer |-> 0, len |-> 0] /\ arrived = <<>>

-----------------------------------------------------------------------------
(* Rings                                                                   *)

Free(ring, size) == size - 1 - ((ring.w - ring.r) % size)
Used(ring, size) == (ring.w - ring.r) % size

\* s behind what the ring holds.
Filled(ring, size, s) ==
    [ring EXCEPT !.bytes = [i \in 0 .. size - 1 |->
                              LET k == ((i - ring.w) % size) + 1 IN IF k <= Len(s) THEN s[k] ELSE @[i]],
                 !.w = (@ + Len(s)) % size]

Contents(ring, size) ==
    [k \in 1 .. Used(ring, size) |-> ring.bytes[(ring.r + k - 1) % size]]

-----------------------------------------------------------------------------
(* The host and the two interrupts                                         *)

\* How much of a packet the ring takes: the rest is dropped.
Accepted(s) == SubSeq(s, 1, Min({Len(s), Free(rx, RxRing)}))

OnRx ==
    \E n \in {Min({p, Len(line)}) : p \in Packets} \ {0} :
        LET taken == Accepted(SubSeq(line, 1, n))
        IN  /\ rx' = Filled(rx, RxRing, taken)
            /\ stored' = stored \o taken
            /\ dropped' = dropped + n - Len(taken)
            /\ line' = SubSeq(line, n + 1, Len(line))
            /\ UNCHANGED <<sent, pollVars, txVars, usbVars>>

TransferCompletes ==
    /\ flight.len > 0
    /\ arrived' = arrived \o SubSeq(chunk[flight.buffer], 1, flight.len)
    /\ flight' = [flight EXCEPT !.len = 0]
    /\ UNCHANGED <<hostVars, rxVars, pollVars, txVars, chunk, sel, pending>>

-----------------------------------------------------------------------------
(* CdcUsbTransport::Pump                                                   *)

Goto(label) == pc' = label /\ UNCHANGED <<snapshot, batch, parser, handled, heard>>

\* The endpoint takes the prepared chunk if no transfer is under way.
Transmit(onOk, onBusy) ==
    IF flight.len = 0
      THEN /\ flight' = [buffer |-> sel, len |-> pending] /\ sel' = 1 - sel /\ pending' = 0
           /\ Goto(onOk)
      ELSE /\ UNCHANGED <<flight, sel, pending>> /\ Goto(onBusy)

PumpRetries ==
    /\ pc = "idle"
    /\ IF pending > 0 THEN Transmit("prepare", "read")
       ELSE Goto("prepare") /\ UNCHANGED <<flight, sel, pending>>
    /\ UNCHANGED <<hostVars, rxVars, txVars, chunk, arrived>>

PumpPrepares ==
    /\ pc = "prepare"
    /\ LET n == Min({Chunk, Used(tx, TxRing)})
       IN  IF n = 0 THEN Goto("read") /\ UNCHANGED <<tx, chunk, pending>>
           ELSE /\ chunk' = [chunk EXCEPT ![sel] = SubSeq(Contents(tx, TxRing), 1, n)
                                                  \o SubSeq(@, n + 1, Len(@))]
                /\ tx' = [tx EXCEPT !.r = (@ + n) % TxRing]
                /\ pending' = n
                /\ Goto("submit")
    /\ UNCHANGED <<hostVars, rxVars, replied, sel, flight, arrived>>

PumpSubmits ==
    /\ pc = "submit"
    /\ Transmit("read", "read")
    /\ UNCHANGED <<hostVars, rxVars, txVars, chunk, arrived>>

-----------------------------------------------------------------------------
(* CdcUsbTransport::Read and the parser                                    *)

ReadSnapshots ==
    /\ pc = "read"
    /\ snapshot' = rx.w /\ pc' = "copy"
    /\ UNCHANGED <<hostVars, rxVars, batch, parser, handled, heard, txVars, usbVars>>

ReadCopies ==
    /\ pc = "copy" /\ rx.r # snapshot /\ Len(batch) < Batch
    /\ batch' = Append(batch, rx.bytes[rx.r])
    /\ pc' = "advance"
    /\ UNCHANGED <<hostVars, rxVars, snapshot, parser, handled, heard, txVars, usbVars>>

ReadAdvances ==
    /\ pc = "advance"
    /\ rx' = [rx EXCEPT !.r = (@ + 1) % RxRing]
    /\ Goto("copy")
    /\ UNCHANGED <<hostVars, stored, dropped, txVars, usbVars>>

\* What was read is handed over; a Read that got nothing ends the poll.
ReadEnds ==
    /\ pc = "copy" /\ (rx.r = snapshot \/ Len(batch) = Batch)
    /\ IF batch = <<>> THEN pc' = "idle" /\ handled' = 0
       ELSE pc' = "parse" /\ UNCHANGED handled
    /\ snapshot' = 0
    /\ UNCHANGED <<hostVars, rxVars, batch, parser, heard, txVars, usbVars>>

\* HostLink::Send: a frame that does not fit is dropped as a whole.
Send(wire) ==
    IF wire = <<>> \/ Free(tx, TxRing) < Len(wire) THEN UNCHANGED txVars
    ELSE tx' = Filled(tx, TxRing, wire) /\ replied' = replied \o wire

FrameError == <<1>>

Answered(out) ==
    IF out = <<>> THEN UNCHANGED <<txVars, handled>>
    ELSE IF ~out[1].ok THEN Send(Encode(out[1].seq, FrameError)) /\ UNCHANGED handled
    ELSE /\ \E body \in Replies : Send(Encode(out[1].seq, body))
         /\ handled' = handled + 1

ParseByte ==
    /\ pc = "parse" /\ batch # <<>>
    /\ LET pushed == Push(parser, Head(batch))
       IN  /\ parser' = pushed.parser
           /\ heard' = heard \o pushed.out
           /\ Answered(pushed.out)
    /\ batch' = Tail(batch)
    /\ UNCHANGED <<hostVars, rxVars, pc, snapshot, usbVars>>

\* The batch is always parsed to its end; the budget only stops the next Read.
ParseEnds ==
    /\ pc = "parse" /\ batch = <<>>
    /\ IF handled < FramesPerPoll THEN pc' = "read" /\ UNCHANGED handled
       ELSE pc' = "idle" /\ handled' = 0
    /\ UNCHANGED <<hostVars, rxVars, snapshot, batch, parser, heard, txVars, usbVars>>

Poll == \/ PumpRetries \/ PumpPrepares \/ PumpSubmits
        \/ ReadSnapshots \/ ReadCopies \/ ReadAdvances \/ ReadEnds
        \/ ParseByte \/ ParseEnds

LinkNext == OnRx \/ TransferCompletes \/ Poll

LinkSpec == LinkInit /\ [][LinkNext]_linkVars

-----------------------------------------------------------------------------
(* Properties                                                              *)

LinkTypeOK ==
    /\ rx.w \in 0 .. RxRing - 1 /\ rx.r \in 0 .. RxRing - 1
    /\ tx.w \in 0 .. TxRing - 1 /\ tx.r \in 0 .. TxRing - 1
    /\ pc \in {"idle", "prepare", "submit", "read", "copy", "advance", "parse"}
    /\ Len(batch) <= Batch /\ Len(parser.acc) <= MaxWire
    /\ sel \in 0 .. 1 /\ pending \in 0 .. Chunk /\ flight.len \in 0 .. Chunk
    /\ pending > 0 => pc # "prepare"

\* A frame that passes for verified is one the host sent, and they come in the order they
\* were sent in, each at most once: whatever part of the stream the receive ring dropped
\* (OnRx), and wherever the interrupt came between two reads.
VerifiedWasSent ==
    LET ok == SelectSeq(heard, LAMBDA f : f.ok)
    IN  /\ \A i \in DOMAIN ok : ok[i].seq \in DOMAIN sent /\ ok[i].body = sent[ok[i].seq]
        /\ \A i, j \in DOMAIN ok : i < j => ok[i].seq < ok[j].seq

\* What the parser has been given: all that was stored but the batch and the ring.
Given == Len(stored) - Used(rx, RxRing) - Len(batch) + (IF pc = "advance" THEN 1 ELSE 0)

\* A frame that got into the ring whole behind a delimiter, or as the first, is surfaced
\* verified once its own delimiter is parsed: what was dropped or garbled before it,
\* however long, costs no frame behind the next delimiter (FrameParser::Push).
SparedFrameIsHeard ==
    \A k \in DOMAIN sent :
        LET wire == Encode(k, sent[k])
        IN  \A e \in Len(wire) .. Given :
              /\ SubSeq(stored, e - Len(wire) + 1, e) = wire
              /\ e = Len(wire) \/ stored[e - Len(wire)] = 0
              => [seq |-> k, body |-> sent[k], ok |-> TRUE] \in RangeOf(heard)

\* The host gets the frames Send queued whole, in order and each byte once, though USB
\* reads a chunk buffer in place and refuses one while the other is in flight (Pump).
RepliesArriveInOrder ==
    replied
      = arrived \o SubSeq(chunk[flight.buffer], 1, flight.len)
                \o SubSeq(chunk[sel], 1, pending) \o Contents(tx, TxRing)

\* Both directions of the link: none is missed that arrived whole, and replies arrive as sent
\* (FrameParser::Push, OnRx, Pump).
LinkIsFaithful == LinkTypeOK /\ SparedFrameIsHeard /\ RepliesArriveInOrder
=============================================================================
