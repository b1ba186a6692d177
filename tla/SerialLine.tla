----------------------------- MODULE SerialLine -----------------------------
(***************************************************************************)
(* SerialActions (engine/serial_actions.py) over CapturedSerialTransport   *)
(* (capture.py) and the PTY transport (adapters/serial.py): the steps      *)
(* expect_serial and serial_send of a testcase without a panel.  A read    *)
(* returns whatever part of the stream is there; it is captured and put    *)
(* into JandyFrameBuffer, and appended to the bytes that are compared.     *)
(*                                                                         *)
(* A read that has bytes and what follows it, up to the comparison, runs   *)
(* without letting another task in: the locks of the capture and of the    *)
(* timeline are never held across an await.                                *)
(***************************************************************************)
EXTENDS Naturals, Sequences, SequencesExt

CONSTANTS
  DLE, STX, ETX, Data,  \* the bytes of the framing, and any other
  Expected,             \* payloads of expect_serial
  Payload,              \* lengths of the payloads of serial_send
  MaxBytes,             \* bound on the bytes AqualinkD writes
  MaxSerialSteps        \* bound on the steps of the testcase

Byte == {DLE, STX, ETX, Data}

ASSUME LineAssumption ==
  /\ \A e \in Expected : e \in Seq(Byte) /\ e # <<>>
  /\ Payload \subseteq Nat \ {0} /\ {MaxBytes, MaxSerialSteps} \subseteq Nat

VARIABLES
  out,       \* the bytes AqualinkD has written to the PTY
  unread,    \* those still in the PTY's buffer
  received,  \* SerialActions._received
  buffer, frames,  \* the JandyFrameBuffer of this direction, the frames captured
  step,      \* the step under way: its state, the bytes it wants and those it got
  serialSteps,  \* steps so far
  toPanel,   \* the other direction: the payload's bytes, those left, all sent, captured
  taken,     \* History variable: the bytes that expectations returned
  cut        \* History variable: a send timed out in the middle of its payload

lineVars == <<out, unread, received, buffer, frames, step, serialSteps, toPanel, taken, cut>>

NoStep == [state |-> "none", want |-> <<>>, got |-> <<>>]

LineInit ==
  /\ out = <<>> /\ unread = <<>> /\ received = <<>>
  /\ buffer = <<>> /\ frames = <<>>
  /\ step = NoStep /\ serialSteps = 0
  /\ toPanel = [whole |-> 0, left |-> 0, sent |-> 0, captured |-> 0]
  /\ taken = <<>> /\ cut = FALSE

-----------------------------------------------------------------------------
(* JandyFrameBuffer. *)

\* The last byte of the frame that b begins with, 0 if it has not ended: DLE ETX,
\* where DLE DLE is no end.
FrameEnd(b) ==
  LET from[i \in 1 .. Len(b) + 2] ==
        IF i + 1 > Len(b) THEN 0
        ELSE IF b[i] # DLE THEN from[i + 1]
        ELSE IF b[i + 1] = DLE THEN from[i + 2]
        ELSE IF b[i + 1] = ETX THEN i + 1 ELSE from[i + 1]
  IN  from[3]

Starts(b) == {i \in 1 .. Len(b) - 1 : b[i] = DLE /\ b[i + 1] = STX}

\* feed: the frames in b, and what stays in the buffer, of a b without a start only
\* a DLE at its end.
Feed[b \in Seq(Byte)] ==
  IF Starts(b) = {}
  THEN [frames |-> <<>>, rest |-> IF b # <<>> /\ Last(b) = DLE THEN <<DLE>> ELSE <<>>]
  ELSE LET start == CHOOSE i \in Starts(b) : \A j \in Starts(b) : i <= j
           this == SubSeq(b, start, Len(b))
           more == Feed[SubSeq(this, FrameEnd(this) + 1, Len(this))]
       IN  IF FrameEnd(this) = 0 THEN [frames |-> <<>>, rest |-> this]
           ELSE [frames |-> <<SubSeq(this, 1, FrameEnd(this))>> \o more.frames,
                 rest |-> more.rest]

\* Mutant: the buffer is not kept from one read to the next.
CaptureAfresh(chunk) ==
  /\ buffer' = Feed[chunk].rest
  /\ frames' = frames \o Feed[chunk].frames

\* CapturedSerialTransport._record
Capture(chunk) ==
  /\ buffer' = Feed[buffer \o chunk].rest
  /\ frames' = frames \o Feed[buffer \o chunk].frames

-----------------------------------------------------------------------------
(* AqualinkD, external. *)

Write ==
  /\ Len(out) < MaxBytes /\ step.state # "closed"
  /\ \E b \in Byte : out' = Append(out, b) /\ unread' = Append(unread, b)
  /\ UNCHANGED <<received, buffer, frames, step, serialSteps, toPanel, taken, cut>>

-----------------------------------------------------------------------------
(* The steps. *)

Between == step.state \in {"none", "matched", "failed", "sent"} /\ serialSteps < MaxSerialSteps

\* Mutant: bytes left over are dropped with the match.
ReturnAll(bytes, e) ==
  /\ step' = [state |-> "matched", want |-> e, got |-> SubSeq(bytes, 1, Len(e))]
  /\ taken' = taken \o SubSeq(bytes, 1, Len(e))
  /\ received' = <<>>

\* The end of expect_exact: nothing is compared here.
Return(bytes, e) ==
  /\ step' = [state |-> "matched", want |-> e, got |-> SubSeq(bytes, 1, Len(e))]
  /\ taken' = taken \o SubSeq(bytes, 1, Len(e))
  /\ received' = SubSeq(bytes, Len(e) + 1, Len(bytes))

\* expect_exact: the loop is entered only if too few bytes are left over.
Expect ==
  /\ Between
  /\ serialSteps' = serialSteps + 1
  /\ \E e \in Expected :
       IF Len(received) < Len(e)
       THEN /\ step' = [state |-> "reading", want |-> e, got |-> <<>>]
            /\ UNCHANGED <<received, taken>>
       ELSE Return(received, e)
  /\ UNCHANGED <<out, unread, buffer, frames, toPanel, cut>>

Differs(bytes, e) ==
  \E i \in DOMAIN bytes \cap DOMAIN e : bytes[i] # e[i]

\* One read of at most what is there, and the comparison.
Read ==
  /\ step.state = "reading"
  /\ \E n \in DOMAIN unread :
       LET bytes == received \o SubSeq(unread, 1, n) IN
       /\ unread' = SubSeq(unread, n + 1, Len(unread))
       /\ Capture(SubSeq(unread, 1, n))
       /\ \/ /\ Differs(bytes, step.want)
             /\ step' = [step EXCEPT !.state = "failed"]
             /\ received' = bytes /\ UNCHANGED taken
          \/ /\ ~Differs(bytes, step.want) /\ Len(bytes) < Len(step.want)
             /\ received' = bytes /\ UNCHANGED <<step, taken>>
          \/ /\ ~Differs(bytes, step.want) /\ Len(bytes) >= Len(step.want)
             /\ Return(bytes, step.want)
  /\ UNCHANGED <<out, serialSteps, toPanel, cut>>

\* The timeout, while the read polls an empty buffer.
ExpectTimesOut ==
  /\ step.state = "reading"
  /\ step' = [step EXCEPT !.state = "failed"]
  /\ UNCHANGED <<out, unread, received, buffer, frames, serialSteps, toPanel, taken, cut>>

Send ==
  /\ Between
  /\ serialSteps' = serialSteps + 1
  /\ step' = [NoStep EXCEPT !.state = "sending"]
  /\ \E n \in Payload : toPanel' = [toPanel EXCEPT !.whole = n, !.left = n]
  /\ UNCHANGED <<out, unread, received, buffer, frames, taken, cut>>

\* One os.write of the transport's loop; the payload is captured after the last.
WriteSome ==
  /\ step.state = "sending"
  /\ \E n \in 1 .. toPanel.left :
       LET done == n = toPanel.left IN
       /\ toPanel' = [toPanel EXCEPT !.left = @ - n, !.sent = @ + n,
                        !.captured = IF done THEN @ + toPanel.whole ELSE @]
       /\ step' = [step EXCEPT !.state = IF done THEN "sent" ELSE @]
  /\ UNCHANGED <<out, unread, received, buffer, frames, serialSteps, taken, cut>>

\* The timeout, while the write polls a full buffer.
SendTimesOut ==
  /\ step.state = "sending"
  /\ step' = [step EXCEPT !.state = "failed"]
  /\ cut' = (cut \/ toPanel.left < toPanel.whole)
  /\ UNCHANGED <<out, unread, received, buffer, frames, serialSteps, toPanel, taken>>

\* CapturedSerialTransport.close, once AqualinkD has stopped.
Close ==
  /\ step.state \in {"none", "matched", "failed", "sent"}
  /\ step' = [step EXCEPT !.state = "closed"]
  /\ frames' = IF buffer = <<>> THEN frames ELSE Append(frames, buffer)
  /\ buffer' = <<>>
  /\ UNCHANGED <<out, unread, received, serialSteps, toPanel, taken, cut>>

-----------------------------------------------------------------------------
LineNext ==
  \/ Write \/ Expect \/ Read \/ ExpectTimesOut \/ Send \/ WriteSome \/ SendTimesOut
  \/ Close

LineSpec == LineInit /\ [][LineNext]_lineVars

-----------------------------------------------------------------------------
(* Properties. *)

\* The steps implement the stream: what expectations return is what AqualinkD wrote,
\* in order, although reads, failed expectations and left-over bytes cut it anyhow.
Stream == INSTANCE SerialStream WITH written <- out, handed <- taken

IsStream == Stream!StreamSpec

\* The capture holds the frames of the bytes read, as if they had been read at once,
\* and every byte sent, unless a send timed out in the middle.
CaptureFaithful ==
  LET whole == Feed[SubSeq(out, 1, Len(out) - Len(unread))] IN
  /\ frames = IF step.state = "closed" /\ whole.rest # <<>>
              THEN Append(whole.frames, whole.rest) ELSE whole.frames
  /\ step.state # "sending" /\ ~cut => toPanel.captured = toPanel.sent

\* "Bounded exact-byte operations" (engine/serial_actions.py:33): an expectation that
\* passes has seen the bytes it expects.
ExactMatch == step.state = "matched" => step.got = step.want
=============================================================================
