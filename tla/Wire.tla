-------------------------------- MODULE Wire --------------------------------
(***************************************************************************)
(* What travels between host and device: COBS (host_link/cobs.h) and the   *)
(* frames it delimits (host_link/frame.h).                                 *)
(*                                                                         *)
(* A byte is a small number.  The group length of COBS, 255 in the code,   *)
(* is a constant; the header is a sequence number and the length of the    *)
(* body; the checksum is one number out of many.                           *)
(***************************************************************************)
EXTENDS Integers, Sequences

CONSTANTS
    Full,       \* the code byte of a group without a zero behind it (0xFF)
    MaxBody     \* kMaxBody

ASSUME WireAssumption == Full \in Nat /\ Full >= 2 /\ MaxBody \in Nat

HeaderSize == 2
CrcSize    == 1
MaxDecoded == HeaderSize + MaxBody + CrcSize

RangeOf(s) == {s[i] : i \in DOMAIN s}

\* Worst-case size of n bytes encoded.
CobsMaxEncoded(n) == n + n \div (Full - 1) + 1

MaxWire == CobsMaxEncoded(MaxDecoded) + 1

-----------------------------------------------------------------------------
(* Byte stuffing: each group is a code byte, one more than the bytes that  *)
(* follow it, and stands for those bytes and a zero, but for a full one.   *)

\* How many bytes the first group of s takes.
GroupOf(s) ==
    CHOOSE k \in 0 .. Full - 1 :
        /\ k <= Len(s) /\ \A i \in 1 .. k : s[i] # 0
        /\ k = Full - 1 \/ k = Len(s) \/ s[k + 1] = 0

\* The last n bytes of s.
Back(s, n) == SubSeq(s, Len(s) - n + 1, Len(s))

CobsEncode(s) ==
    LET encoded[n \in 0 .. Len(s)] ==
          LET k     == GroupOf(Back(s, n))
              group == <<k + 1>> \o SubSeq(Back(s, n), 1, k)
          IN  IF k = Full - 1 THEN group \o encoded[n - k]
              ELSE IF k = n THEN group
              ELSE group \o encoded[n - k - 1]
    IN  encoded[Len(s)]

Malformed == [ok |-> FALSE, out |-> <<>>]

\* Whether the group that s begins with is one.
IsGroup(s) == s[1] # 0 /\ s[1] <= Len(s) /\ 0 \notin RangeOf(SubSeq(s, 2, s[1]))

\* Like the code's, it asks nothing of the size of its output; at the default kMaxBody dec_ is as
\* long as the longest chunk that is accumulated.
CobsDecode(e) ==
    LET decoded[n \in 0 .. Len(e)] ==
          LET s    == Back(e, n)
              rest == decoded[n - s[1]]
              zero == IF s[1] # Full /\ s[1] < n THEN <<0>> ELSE <<>>
          IN  IF n = 0 THEN [ok |-> TRUE, out |-> <<>>]
              ELSE IF ~IsGroup(s) THEN Malformed
              ELSE IF ~rest.ok THEN Malformed
              ELSE [ok |-> TRUE, out |-> SubSeq(s, 2, s[1]) \o zero \o rest.out]
    IN  decoded[Len(e)].out

-----------------------------------------------------------------------------
(* Frames                                                                  *)

\* A polynomial over the bytes, modulo a prime.
Crc32(s) ==
    LET crc[n \in 0 .. Len(s)] == IF n = 0 THEN 1 ELSE (31 * crc[n - 1] + s[n]) % 32749
    IN  crc[Len(s)]

\* FrameWriter: header, body, checksum, stuffed and delimited; <<>> when the body does not fit.
Encode(seq, body) ==
    IF Len(body) > MaxBody THEN <<>>
    ELSE LET frame == <<seq, Len(body)>> \o body
         IN  CobsEncode(Append(frame, Crc32(frame))) \o <<0>>

\* A parser that has accumulated nothing.
NewParser == [acc |-> <<>>, overflow |-> FALSE]

\* A frame whose length is right, whatever its checksum says.
SurfacedUnchecked(dec) ==
    LET len == Len(dec) - HeaderSize - CrcSize
    IN  [seq |-> dec[1], body |-> SubSeq(dec, HeaderSize + 1, HeaderSize + len),
         ok  |-> dec[2] = len /\ dec[2] <= MaxBody]

\* What a decoded chunk says of itself.
Surfaced(dec) ==
    LET len == Len(dec) - HeaderSize - CrcSize
    IN  [seq  |-> dec[1],
         body |-> SubSeq(dec, HeaderSize + 1, HeaderSize + len),
         ok   |-> /\ dec[2] = len /\ dec[2] <= MaxBody
                  /\ Crc32(SubSeq(dec, 1, Len(dec) - CrcSize)) = dec[Len(dec)]]

\* The accumulator with one byte more; what does not fit makes the chunk garbage.
Accumulate(p, byte) ==
    IF Len(p.acc) < MaxWire THEN [p EXCEPT !.acc = Append(@, byte)]
    ELSE [p EXCEPT !.overflow = TRUE]

\* The frame a delimiter completes, as a sequence of one, or of none.
Completed(p) ==
    LET dec == CobsDecode(p.acc)
    IN  IF p.acc = <<>> \/ p.overflow \/ Len(dec) < HeaderSize + CrcSize THEN <<>>
        ELSE <<Surfaced(dec)>>

\* Once overflowed, always overflowed.
PushNeverClears(p, byte) ==
    IF byte # 0 THEN [parser |-> Accumulate(p, byte), out |-> <<>>]
    ELSE [parser |-> [p EXCEPT !.acc = <<>>], out |-> Completed(p)]

\* FrameParser::Push: the parser afterwards and the frame it surfaced, if any.
Push(p, byte) ==
    IF byte # 0 THEN [parser |-> Accumulate(p, byte), out |-> <<>>]
    ELSE [parser |-> NewParser, out |-> Completed(p)]
=============================================================================
