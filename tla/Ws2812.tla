-------------------------------- MODULE Ws2812 --------------------------------
(***************************************************************************)
(* The LED strip drivers of both boards (v1 and v2 ws2812.cpp): the main   *)
(* loop encodes a frame into a buffer that a DMA stream then reads, paced  *)
(* by a timer, and an interrupt reports that it ended or failed.           *)
(*                                                                         *)
(* The hand-over is the flag busy: v1 sets it before it starts the stream  *)
(* and waits for it without a limit, v2 sets it after and gives up waiting *)
(* after MaxWaits milliseconds.  A frame is a number; the encoding of its  *)
(* bits, the pins and the clocks are left out.                             *)
(***************************************************************************)
EXTENDS Integers

CONSTANTS
    MaxWaits,   \* the milliseconds v2 waits
    Torn        \* what the buffer holds while it is being encoded, no frame

ASSUME StripAssumption == MaxWaits \in Nat /\ Torn \notin {0, 1}

VARIABLES
    board,      \* "v1", "v2"
    pixels,     \* pixel_buf_: the frame painted
    cells,      \* cell_buf_, ccr_buf_: the frame encoded
    busy,       \* xfer_busy_
    stream,     \* "idle", "armed", "half" of the buffer read, "ended" or "failed": to report
    paced,      \* the timer runs and requests the stream's transfers
    show,       \* where Show() is, "idle" outside it
    waits,      \* t
    begun,      \* ghost: the frame the stream began with
    whole       \* ghost: what the strip was sent last is of one frame, the beginning or all of it

stripVars == <<board, pixels, cells, busy, stream, paced, show, waits, begun, whole>>

StripInit ==
    /\ board \in {"v1", "v2"} /\ pixels = 0 /\ cells = 0 /\ busy = FALSE
    /\ stream = "idle" /\ paced = FALSE /\ show = "idle" /\ waits = 0
    /\ begun = 0 /\ whole = TRUE

Paint ==
    /\ show = "idle"
    /\ pixels' = 1 - pixels
    /\ UNCHANGED <<board, cells, busy, stream, paced, show, waits, begun, whole>>

-----------------------------------------------------------------------------
(* Show()                                                                  *)

Call ==
    /\ show = "idle"
    /\ show' = "wait" /\ waits' = 0
    /\ UNCHANGED <<board, pixels, cells, busy, stream, paced, begun, whole>>

\* Both wait without a limit.
WaitNoLimit ==
    /\ show = "wait"
    /\ show' = IF busy THEN show ELSE "encode"
    /\ UNCHANGED <<board, pixels, cells, busy, stream, paced, waits, begun, whole>>

\* After the limit v2 goes on as if the stream had ended.
WaitThenGo ==
    /\ show = "wait"
    /\ \/ ~busy /\ show' = "encode" /\ UNCHANGED waits
       \/ board = "v1" /\ busy /\ UNCHANGED <<waits, show>>
       \/ board = "v2" /\ busy /\ waits < MaxWaits /\ waits' = waits + 1 /\ UNCHANGED show
       \/ board = "v2" /\ busy /\ waits = MaxWaits /\ show' = "encode" /\ UNCHANGED waits
    /\ UNCHANGED <<board, pixels, cells, busy, stream, paced, begun, whole>>

\* v1 spins as long as the stream is busy.
Wait ==
    /\ show = "wait"
    /\ \/ ~busy /\ show' = "encode" /\ UNCHANGED waits
       \/ board = "v1" /\ busy /\ UNCHANGED <<waits, show>>
       \/ board = "v2" /\ busy /\ waits < MaxWaits /\ waits' = waits + 1 /\ UNCHANGED show
       \/ board = "v2" /\ busy /\ waits = MaxWaits /\ show' = "bail" /\ UNCHANGED waits
    /\ UNCHANGED <<board, pixels, cells, busy, stream, paced, begun, whole>>

Bail ==
    /\ show = "bail"
    /\ paced' = FALSE /\ show' = "abort"
    /\ UNCHANGED <<board, pixels, cells, busy, stream, waits, begun, whole>>

\* The stream is stopped, unless its interrupt came first.
Abort ==
    /\ show = "abort"
    /\ stream' = "idle" /\ busy' = FALSE /\ show' = "encode"
    /\ UNCHANGED <<board, pixels, cells, paced, waits, begun, whole>>

EncodePixels ==
    /\ \/ show = "encode" /\ cells' = Torn /\ show' = "encoding"
       \/ show = "encoding" /\ cells' = pixels /\ show' = "start"
    /\ UNCHANGED <<board, pixels, busy, stream, paced, waits, begun, whole>>

\* HAL_DMA_Start_IT, which can fail; v1 does not look at its answer.
Start ==
    /\ show = "start"
    /\ busy' = (board = "v1")
    /\ \/ stream = "idle" /\ stream' = "armed" /\ show' = "pace"
       \/ stream' = "idle" /\ show' = IF board = "v1" THEN "pace" ELSE "idle"
    /\ UNCHANGED <<board, pixels, cells, paced, waits, begun, whole>>

Pace ==
    /\ show = "pace"
    /\ busy' = (busy \/ board = "v2")
    /\ paced' = TRUE /\ show' = "idle"
    /\ UNCHANGED <<board, pixels, cells, stream, waits, begun, whole>>

ShowStep == Wait \/ Bail \/ Abort \/ EncodePixels \/ Start \/ Pace

-----------------------------------------------------------------------------
(* The stream and its interrupt                                            *)

Read ==
    /\ paced
    /\ \/ stream = "armed" /\ stream' = "half" /\ begun' = cells /\ whole' = (cells # Torn)
       \/ stream = "half" /\ stream' = "ended" /\ whole' = (whole /\ cells = begun)
                          /\ UNCHANGED begun
    /\ UNCHANGED <<board, pixels, cells, busy, paced, show, waits>>

Fail ==
    /\ stream \in {"armed", "half"} /\ stream' = "failed"
    /\ UNCHANGED <<board, pixels, cells, busy, paced, show, waits, begun, whole>>

\* DmaTcCb, DmaErrCb: at any point of Show().
Interrupt ==
    /\ stream \in {"ended", "failed"}
    /\ stream' = "idle" /\ busy' = FALSE /\ paced' = FALSE
    /\ UNCHANGED <<board, pixels, cells, show, waits, begun, whole>>

StripNext == Paint \/ Call \/ ShowStep \/ Read \/ Fail \/ Interrupt

StripSpec == StripInit /\ [][StripNext]_stripVars

-----------------------------------------------------------------------------
(* Properties                                                              *)

\* What the strip is sent is of one frame: from its first bit to its last where the stream
\* reaches its end, and no more than the beginning of one where the stream fails or is
\* aborted.  The buffer is never encoded over while the stream reads it, though the
\* interrupt may clear the flag at any point of Show(), and v2 sets it only after the
\* start and gives up waiting.
FramesAreWhole == whole

\* Show() of v2 returns, also when the stream stalls, fails to start, or failed before the
\* flag was set, so that nobody will clear it ("Don't hang").
ShowReturns == (board = "v2" /\ show # "idle") ~> (show = "idle")
=============================================================================
