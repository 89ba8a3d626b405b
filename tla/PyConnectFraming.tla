-------------------------- MODULE PyConnectFraming --------------------------
(***************************************************************************)
(* One direction of a connection, byte by byte: clientDataSend frames a    *)
(* message as '#', a 16-bit length, the (encrypted) payload and '@'; the   *)
(* reader, PyConnectNetComm::processIncomingData, gets the stream in reads *)
(* of up to kTCPMSS bytes and puts the messages together again.  One       *)
(* iteration of its do-while loop is one action.                           *)
(***************************************************************************)
EXTENDS Integers, Sequences, SequencesExt

CONSTANTS
    Payloads,    \* the payloads that are sent, sequences of bytes
    ReadSize,    \* kTCPMSS, the most that one read() returns
    BufferSize,  \* PYCONNECT_MSG_BUFFER_SIZE, the size of bufferedData
    MaxSent      \* bound: messages sent in a behaviour

Byte == 0..255
Hash == 35   \* PYCONNECT_MSG_INIT
At   == 64   \* PYCONNECT_MSG_END

ASSUME FramingAssumption ==
    /\ Payloads \subseteq Seq(Byte) /\ \A p \in Payloads : Len(p) \in 1..BufferSize
    /\ ReadSize \in Nat \ {0} /\ BufferSize \in Nat \ {0} /\ BufferSize <= 32767
    /\ MaxSent \in Nat

VARIABLES
    sent,       \* history: the payloads written so far
    stream,     \* the bytes on their way
    input,      \* clientDataBuffer_ from dataPtr on; its length is readLen
    buffered,   \* dataInfo.bufferedData, bufferedDataLength bytes of it
    expected,   \* dataInfo.expectedDataLength
    delivered,  \* history: what processInput was called with
    clean       \* history: has every read ended where the reader copes

vars == <<sent, stream, input, buffered, expected, delivered, clean>>

\* memcpy of a short: two bytes, little endian, two's complement.
ShortBytes(n)  == <<n % 256, n \div 256>>
ShortValue(lo, hi) == IF hi >= 128 THEN lo + 256 * hi - 65536 ELSE lo + 256 * hi

Frame(p) == <<Hash>> \o ShortBytes(Len(p)) \o p \o <<At>>

\* The bytes of a frame, each marked with whether a read may end after it and
\* the reader still cope: not inside the header or right after it, where fewer
\* than four bytes are "too small", and not between the payload and its '@',
\* where nothing is expected any more.
Marked(p) == [k \in 1..Len(p) + 4 |->
    [byte |-> Frame(p)[k], stop |-> k >= 4 /\ k # Len(p) + 3]]

ClientDataSend(p) ==
    /\ Len(sent) < MaxSent
    /\ sent' = Append(sent, p) /\ stream' = stream \o Marked(p)
    /\ UNCHANGED <<input, buffered, expected, delivered, clean>>

Read(n) ==
    /\ input = <<>> /\ n <= ReadSize
    /\ input'  = [k \in 1..n |-> stream[k].byte]
    /\ stream' = SubSeq(stream, n + 1, Len(stream))
    /\ clean'  = (clean /\ stream[n].stop)
    /\ UNCHANGED <<sent, buffered, expected, delivered>>

\* break: what is left of this read is dropped, with or without a reset.
Drop      == input' = <<>> /\ UNCHANGED <<sent, stream, buffered, expected, delivered, clean>>
DropReset == /\ input' = <<>> /\ buffered' = <<>> /\ expected' = 0
             /\ UNCHANGED <<sent, stream, delivered, clean>>
Deliver(p, rest) == /\ delivered' = Append(delivered, p) /\ input' = rest
                    /\ UNCHANGED <<sent, stream, clean>>
From(s, k) == SubSeq(s, k, Len(s))

\* The first branch of the loop: a new message.
AtStart == input # <<>> /\ input[1] = Hash /\ expected = 0
Count   == ShortValue(input[2], input[3])
Body    == From(input, 4)

TooSmall == AtStart /\ Len(input) < 4 /\ Drop
BadSize  == AtStart /\ Len(input) >= 4 /\ (Count < 0 \/ Count > BufferSize) /\ Drop
\* Fault: the size is not checked against the buffer.
BufferUnchecked ==
    /\ AtStart /\ Len(input) >= 4 /\ Count > Len(Body) - 1
    /\ buffered' = Body /\ expected' = Count - Len(Body) /\ input' = <<>>
    /\ UNCHANGED <<sent, stream, delivered, clean>>
StartBuffering ==
    /\ AtStart /\ Len(input) >= 4 /\ Count \in 0..BufferSize
    /\ Count > Len(Body) - 1
    /\ buffered' = Body /\ expected' = Count - Len(Body) /\ input' = <<>>
    /\ UNCHANGED <<sent, stream, delivered, clean>>
WholeMessage ==
    /\ AtStart /\ Len(input) >= 4 /\ Count \in 0..BufferSize
    /\ Count <= Len(Body) - 1 /\ Body[Count + 1] = At
    /\ Deliver(SubSeq(Body, 1, Count), From(Body, Count + 2))
    /\ UNCHANGED <<buffered, expected>>
NoEnd == /\ AtStart /\ Len(input) >= 4 /\ Count \in 0..BufferSize
         /\ Count <= Len(Body) - 1 /\ Body[Count + 1] # At
         /\ Drop

\* The second branch: a message that began in an earlier read.
Expecting == input # <<>> /\ expected > 0

\* Fault: the bytes cached are not counted.
ContinueUncounted ==
    /\ Expecting /\ expected > Len(input) - 1
    /\ buffered' = buffered \o input /\ input' = <<>>
    /\ UNCHANGED <<sent, stream, expected, delivered, clean>>
ContinueBuffering ==
    /\ Expecting /\ expected > Len(input) - 1
    /\ buffered' = buffered \o input /\ expected' = expected - Len(input)
    /\ input' = <<>>
    /\ UNCHANGED <<sent, stream, delivered, clean>>
\* Fault: what follows the message in the same read is forgotten.
FinishForgetting ==
    /\ Expecting /\ expected <= Len(input) - 1 /\ input[expected + 1] = At
    /\ Deliver(buffered \o SubSeq(input, 1, expected), <<>>)
    /\ buffered' = <<>> /\ expected' = 0
FinishMessage ==
    /\ Expecting /\ expected <= Len(input) - 1 /\ input[expected + 1] = At
    /\ Deliver(buffered \o SubSeq(input, 1, expected), From(input, expected + 2))
    /\ buffered' = <<>> /\ expected' = 0
Fragment == /\ Expecting /\ expected <= Len(input) - 1 /\ input[expected + 1] # At
            /\ DropReset

\* The third branch: neither.
NotAMessage == input # <<>> /\ expected <= 0 /\ input[1] # Hash /\ DropReset

Init == /\ sent = <<>> /\ stream = <<>> /\ input = <<>> /\ buffered = <<>>
        /\ expected = 0 /\ delivered = <<>> /\ clean = TRUE

Reader == \/ \E n \in 1..Len(stream) : Read(n)
          \/ TooSmall \/ BadSize \/ StartBuffering \/ WholeMessage \/ NoEnd
          \/ ContinueBuffering \/ FinishMessage \/ Fragment \/ NotAMessage
Next == (\E p \in Payloads : ClientDataSend(p)) \/ Reader
Spec == Init /\ [][Next]_vars

\* The select loop keeps reading what has arrived.
FairSpec == Spec /\ WF_vars(Reader)

-----------------------------------------------------------------------------
(* Properties *)

TypeOK ==
    /\ sent \in Seq(Payloads) /\ Len(sent) <= MaxSent
    /\ stream \in Seq([byte : Byte, stop : BOOLEAN])
    /\ input \in Seq(Byte) /\ Len(input) <= ReadSize
    /\ buffered \in Seq(Byte) /\ expected \in 0..BufferSize
    /\ delivered \in Seq(Seq(Byte)) /\ clean \in BOOLEAN

\* However the stream is cut and whatever it carries, the bytes that are cached
\* and the bytes that are still expected fit into bufferedData, so no memcpy of
\* the second branch runs past its end.
CacheFits == Len(buffered) + expected <= BufferSize

\* As long as the cuts are ones the reader copes with, the messages are
\* delivered whole, once and in order: the connection the session takes for
\* granted.
Channel == INSTANCE PyConnectChannel
ChannelImplemented ==
    /\ Channel!Init
    /\ [][clean' => [Channel!Next]_(Channel!vars)]_vars

\* ... and every message that was written is delivered in the end.
EventuallyDelivered ==
    []clean => \A k \in 1..MaxSent : Len(sent) >= k ~> Len(delivered) >= k

\* "The message needs multiple reads" (PyConnectNetComm.cpp:386): however it is
\* cut, what was written has been delivered when all bytes have been read.
NothingLost == stream = <<>> /\ input = <<>> => delivered = sent
=============================================================================
