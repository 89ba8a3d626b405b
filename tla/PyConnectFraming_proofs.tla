----------------------- MODULE PyConnectFraming_proofs -----------------------
(***************************************************************************)
(* The stream reader keeps its types and never overfills its cache, for    *)
(* every payload, buffer size and read size, however the stream is cut;    *)
(* with cuts it copes with, the connection implements PyConnectChannel.    *)
(***************************************************************************)
EXTENDS PyConnectFraming, SequenceTheorems, TLAPS

(* A suffix of a sequence is a sequence of the same elements. *)
LEMMA FromType ==
    ASSUME NEW S, NEW s \in Seq(S), NEW k \in Nat \ {0}
    PROVE  /\ From(s, k) \in Seq(S)
           /\ Len(From(s, k)) <= Len(s)
           /\ k <= Len(s) => Len(From(s, k)) = Len(s) - k + 1
  BY DEF From

(* The two bytes of a length are bytes. *)
LEMMA ShortBytesType ==
    ASSUME NEW n \in Nat, n <= 32767
    PROVE  ShortBytes(n) \in Seq(Byte) /\ Len(ShortBytes(n)) = 2
  <1>1. n % 256 \in Nat /\ n % 256 <= 255
    OBVIOUS
  <1>2. n \div 256 \in Int /\ n = 256 * (n \div 256) + (n % 256)
    OBVIOUS
  <1>3. n \div 256 \in Nat /\ n \div 256 <= 255
    BY <1>1, <1>2
  <1>4. n % 256 \in Byte /\ n \div 256 \in Byte
    BY <1>1, <1>3 DEF Byte
  <1> QED
    BY <1>4 DEF ShortBytes

(* The concatenation of two sequences. *)
LEMMA TwoParts ==
    ASSUME NEW S, NEW a \in Seq(S), NEW b \in Seq(S)
    PROVE  a \o b \in Seq(S) /\ Len(a \o b) = Len(a) + Len(b)
  OBVIOUS

(* A marked frame is a piece of stream. *)
LEMMA MarkedType ==
    ASSUME NEW p \in Payloads
    PROVE  Marked(p) \in Seq([byte : Byte, stop : BOOLEAN])
  <1>1. p \in Seq(Byte) /\ Len(p) \in Nat /\ Len(p) <= 32767
    BY FramingAssumption
  <1>2. ShortBytes(Len(p)) \in Seq(Byte) /\ Len(ShortBytes(Len(p))) = 2
    BY <1>1, ShortBytesType
  <1>3. <<Hash>> \in Seq(Byte) /\ <<At>> \in Seq(Byte)
    BY DEF Hash, At, Byte
  <1>4. Frame(p) \in Seq(Byte) /\ Len(Frame(p)) = Len(p) + 4
    <2>1. Len(<<Hash>>) = 1 /\ Len(<<At>>) = 1
      OBVIOUS
    <2>0. p \in Seq(Byte)
      BY <1>1
    <2> DEFINE head == <<Hash>> \o ShortBytes(Len(p))
    <2>2. /\ head \in Seq(Byte)
          /\ Len(head) = Len(<<Hash>>) + Len(ShortBytes(Len(p)))
      BY <1>2, <1>3, TwoParts, Zenon
    <2>3. \A h \in Seq(Byte), q \in Seq(Byte), e \in Seq(Byte) :
            /\ h \o q \o e \in Seq(Byte)
            /\ Len(h \o q \o e) = Len(h) + Len(q) + Len(e)
      BY TwoParts
    <2>4. /\ Frame(p) \in Seq(Byte)
          /\ Len(Frame(p)) = Len(head) + Len(p) + Len(<<At>>)
      BY <1>3, <2>0, <2>2, <2>3, Zenon DEF Frame
    <2>5. Len(Frame(p)) = 1 + 2 + Len(p) + 1
      BY <1>2, <2>1, <2>2, <2>4, Zenon
    <2> QED
      BY <1>1, <2>4, <2>5
  <1>5. \A k \in 1..Len(p) + 4 : Frame(p)[k] \in Byte
    BY <1>1, <1>4
  <1> QED
    BY <1>1, <1>5 DEF Marked

Inv == TypeOK /\ CacheFits

LEMMA InitInv == Init => Inv
  BY FramingAssumption DEF Init, Inv, TypeOK, CacheFits

LEMMA SendInv ==
    ASSUME Inv, NEW p \in Payloads, ClientDataSend(p) PROVE Inv'
  <1>1. sent' \in Seq(Payloads) /\ Len(sent') <= MaxSent
    BY FramingAssumption DEF ClientDataSend, Inv, TypeOK
  <1>2. stream' \in Seq([byte : Byte, stop : BOOLEAN])
    BY MarkedType, ConcatProperties DEF ClientDataSend, Inv, TypeOK
  <1> QED
    BY <1>1, <1>2 DEF ClientDataSend, Inv, TypeOK, CacheFits

LEMMA ReadInv ==
    ASSUME Inv, NEW n \in 1..Len(stream), Read(n) PROVE Inv'
  <1> DEFINE E == [byte : Byte, stop : BOOLEAN]
  <1>1. stream \in Seq(E) /\ n \in Nat /\ n <= Len(stream)
    BY DEF Inv, TypeOK
  <1>2. \A k \in 1..n : stream[k] \in E
    <2> HIDE DEF E
    <2> QED
      BY <1>1
  <1>3. input' \in Seq(Byte) /\ Len(input') = n
    BY <1>1, <1>2 DEF Read
  <1>4. stream' \in Seq(E)
    <2> HIDE DEF E
    <2> QED
      BY <1>1 DEF Read
  <1>5. n <= ReadSize
    BY DEF Read
  <1> QED
    BY <1>3, <1>4, <1>5, FramingAssumption DEF Read, Inv, TypeOK, CacheFits

(* The iterations that give up keep or clear what is cached. *)
LEMMA DropInv ==
    ASSUME Inv, Drop \/ DropReset PROVE Inv'
  <1>0. input' = <<>>
    BY DEF Drop, DropReset
  <1>1. input' \in Seq(Byte) /\ Len(input') <= ReadSize
    BY <1>0, FramingAssumption
  <1>2. /\ buffered' \in Seq(Byte) /\ expected' \in 0..BufferSize
        /\ Len(buffered') + expected' <= BufferSize
    <2>1. CASE Drop
      BY <2>1 DEF Drop, Inv, TypeOK, CacheFits
    <2>2. CASE DropReset
      BY <2>2, FramingAssumption DEF DropReset
    <2> QED
      BY <2>1, <2>2
  <1>3. UNCHANGED <<sent, stream, delivered, clean>>
    BY DEF Drop, DropReset
  <1> QED
    BY <1>1, <1>2, <1>3 DEF Inv, TypeOK, CacheFits

(* What follows the header of a frame, when there is a whole header. *)
LEMMA BodyType ==
    ASSUME Inv, Len(input) >= 4
    PROVE  Body \in Seq(Byte) /\ Len(Body) = Len(input) - 3
  <1>1. input \in Seq(Byte)
    BY DEF Inv, TypeOK
  <1> QED
    BY <1>1, FromType DEF Body

LEMMA StartBufferingInv ==
    ASSUME Inv, StartBuffering PROVE Inv'
  <1>1. Body \in Seq(Byte) /\ Len(Body) = Len(input) - 3
    BY BodyType DEF StartBuffering
  <1>2. Count \in 0..BufferSize /\ Count - Len(Body) \in 0..BufferSize
    BY <1>1, FramingAssumption DEF StartBuffering, Inv, TypeOK
  <1> QED
    BY <1>1, <1>2, FramingAssumption DEF StartBuffering, Inv, TypeOK, CacheFits

LEMMA WholeMessageInv ==
    ASSUME Inv, WholeMessage PROVE Inv'
  <1>1. Body \in Seq(Byte) /\ Len(Body) = Len(input) - 3
    BY BodyType DEF WholeMessage
  <1>2. Count \in Nat /\ Count + 1 <= Len(Body)
    BY <1>1, FramingAssumption DEF WholeMessage
  <1>3. From(Body, Count + 2) \in Seq(Byte)
         /\ Len(From(Body, Count + 2)) <= Len(Body)
    <2>1. Count + 2 \in Nat \ {0}
      BY <1>2
    <2> QED
      BY <1>1, <2>1, FromType
  <1>4. SubSeq(Body, 1, Count) \in Seq(Byte)
    BY <1>1, <1>2
  <1>5. input' \in Seq(Byte) /\ Len(input') <= ReadSize
    BY <1>1, <1>3, FramingAssumption DEF WholeMessage, Deliver, Inv, TypeOK
  <1>6. delivered' \in Seq(Seq(Byte))
    BY <1>4 DEF WholeMessage, Deliver, Inv, TypeOK
  <1> QED
    BY <1>5, <1>6 DEF WholeMessage, Deliver, Inv, TypeOK, CacheFits

LEMMA ContinueInv ==
    ASSUME Inv, ContinueBuffering PROVE Inv'
  <1>1. Len(buffered \o input) = Len(buffered) + Len(input)
         /\ buffered \o input \in Seq(Byte)
    BY DEF Inv, TypeOK
  <1>2. expected - Len(input) \in 0..BufferSize
    BY FramingAssumption DEF ContinueBuffering, Expecting, Inv, TypeOK
  <1> QED
    BY <1>1, <1>2, FramingAssumption
       DEF ContinueBuffering, Expecting, Inv, TypeOK, CacheFits

LEMMA FinishInv ==
    ASSUME Inv, FinishMessage PROVE Inv'
  <1>1. expected \in Nat /\ expected + 1 <= Len(input) /\ input \in Seq(Byte)
    BY FramingAssumption DEF FinishMessage, Expecting, Inv, TypeOK
  <1>2. From(input, expected + 2) \in Seq(Byte)
         /\ Len(From(input, expected + 2)) <= Len(input)
    <2>1. expected + 2 \in Nat \ {0}
      BY <1>1
    <2> QED
      BY <1>1, <2>1, FromType
  <1>3. buffered \o SubSeq(input, 1, expected) \in Seq(Byte)
    BY <1>1 DEF Inv, TypeOK
  <1>4. input' \in Seq(Byte) /\ Len(input') <= ReadSize
    BY <1>1, <1>2, FramingAssumption DEF FinishMessage, Deliver, Inv, TypeOK
  <1>5. delivered' \in Seq(Seq(Byte))
    BY <1>3 DEF FinishMessage, Deliver, Inv, TypeOK
  <1> QED
    BY <1>4, <1>5, FramingAssumption DEF FinishMessage, Deliver, Inv, TypeOK, CacheFits

LEMMA NextInv == Inv /\ [Next]_vars => Inv'
  <1> SUFFICES ASSUME Inv, [Next]_vars PROVE Inv'
    OBVIOUS
  <1>1. CASE \E p \in Payloads : ClientDataSend(p)
    BY <1>1, SendInv
  <1>2. CASE \E n \in 1..Len(stream) : Read(n)
    BY <1>2, ReadInv
  <1>3. CASE TooSmall \/ BadSize \/ NoEnd \/ Fragment \/ NotAMessage
    BY <1>3, DropInv DEF TooSmall, BadSize, NoEnd, Fragment, NotAMessage
  <1>4. CASE StartBuffering
    BY <1>4, StartBufferingInv
  <1>5. CASE WholeMessage
    BY <1>5, WholeMessageInv
  <1>6. CASE ContinueBuffering
    BY <1>6, ContinueInv
  <1>7. CASE FinishMessage
    BY <1>7, FinishInv
  <1>8. CASE UNCHANGED vars
    BY <1>8 DEF vars, Inv, TypeOK, CacheFits
  <1> QED
    BY <1>1, <1>2, <1>3, <1>4, <1>5, <1>6, <1>7, <1>8 DEF Next, Reader

\* What the reader holds has the shape dataInfo and clientDataBuffer_ give it
\* (PyConnectNetComm::processIncomingData).
THEOREM FramingTypeCorrect == Spec => []TypeOK
  <1>1. Inv => TypeOK
    BY DEF Inv
  <1> QED
    BY <1>1, InitInv, NextInv, PTL DEF Spec

\* Whatever bytes arrive and however they are cut into reads, what is cached
\* plus what is expected fits bufferedData, so no memcpy of the reader of
\* PyConnectNetComm::processIncomingData runs past its end.
THEOREM CacheNeverOverflows == Spec => []CacheFits
  <1>1. Inv => CacheFits
    BY DEF Inv
  <1> QED
    BY <1>1, InitInv, NextInv, PTL DEF Spec
-----------------------------------------------------------------------------
(* With cuts the reader copes with, the connection is a channel.           *)

MarkedByte == [byte : Byte, stop : BOOLEAN]

(* All of the stream, what was read included: T has the frames of the        *)
(* messages sent one behind the other, that of the k-th behind o[k].         *)
End(o) == o[Len(sent) + 1]
Laid(T, o) ==
    /\ o \in [Nat -> Nat]
    /\ \A k \in 1..Len(sent) :
          /\ o[k + 1] = o[k] + Len(sent[k]) + 4 /\ o[k] < End(o)
          /\ \A j \in 1..Len(sent[k]) + 4 : T[o[k] + j] = Marked(sent[k])[j]

(* What was read of it ends where the reader copes; the last of it is input. *)
ReadOf(o) == End(o) - Len(stream)
DoneOf(o) == ReadOf(o) - Len(input)
CutWell(T, o) ==
    /\ DoneOf(o) >= 0
    /\ \A j \in 1..Len(stream) : stream[j] = T[ReadOf(o) + j]
    /\ \A j \in 1..Len(input) : input[j] = T[DoneOf(o) + j].byte
    /\ ReadOf(o) > 0 => T[ReadOf(o)].stop

(* What was delivered is what was sent first, and the reader is at the start *)
(* of the next frame or in the payload of the message it has cached part of. *)
InPlace(o) ==
    LET d == Len(delivered) + 1
    IN /\ d <= Len(sent) + 1 /\ \A k \in 1..Len(delivered) : delivered[k] = sent[k]
       /\ expected = 0 => buffered = <<>> /\ DoneOf(o) = o[d]
       /\ expected > 0 =>
             /\ d <= Len(sent) /\ Len(buffered) + expected = Len(sent[d])
             /\ DoneOf(o) = o[d] + 3 + Len(buffered)
             /\ \A j \in 1..Len(buffered) : buffered[j] = sent[d][j]

Follows(T, o) == Laid(T, o) /\ CutWell(T, o) /\ InPlace(o)
CleanInv == Inv /\ (clean => \E T, o : Follows(T, o))

(* The two bytes of a length are read back as that length. *)
LEMMA ShortRead ==
    ASSUME NEW n \in Nat, n <= 32767
    PROVE  ShortValue(n % 256, n \div 256) = n
  <1>1. n % 256 \in 0..255 /\ n \div 256 \in Int /\ n = 256 * (n \div 256) + (n % 256)
    OBVIOUS
  <1>2. n \div 256 < 128
    BY <1>1
  <1> QED
    BY <1>1, <1>2 DEF ShortValue

(* The elements of a concatenation. *)
LEMMA Joined ==
    ASSUME NEW S, NEW a \in Seq(S), NEW b \in Seq(S)
    PROVE  /\ a \o b \in Seq(S) /\ Len(a \o b) = Len(a) + Len(b)
           /\ \A j \in 1..Len(a) : (a \o b)[j] = a[j]
           /\ \A j \in 1..Len(b) : (a \o b)[Len(a) + j] = b[j]
  BY ConcatProperties

LEMMA BytesJoined ==
    \A a, b \in Seq(Byte) :
       /\ a \o b \in Seq(Byte) /\ Len(a \o b) = Len(a) + Len(b)
       /\ \A j \in 1..Len(a) : (a \o b)[j] = a[j]
       /\ \A j \in 1..Len(b) : (a \o b)[Len(a) + j] = b[j]
  BY Joined

LEMMA MarksJoined ==
    \A a, b \in Seq(MarkedByte) :
       /\ a \o b \in Seq(MarkedByte) /\ Len(a \o b) = Len(a) + Len(b)
       /\ \A j \in 1..Len(a) : (a \o b)[j] = a[j]
       /\ \A j \in 1..Len(b) : (a \o b)[Len(a) + j] = b[j]
  BY Joined

(* The bytes of a frame. *)
LEMMA FrameBytes ==
    ASSUME NEW p \in Payloads
    PROVE  /\ p \in Seq(Byte) /\ Len(p) \in 1..BufferSize /\ Len(p) <= 32767
           /\ Frame(p)[1] = Hash /\ Frame(p)[Len(p) + 4] = At
           /\ Frame(p)[2] = Len(p) % 256 /\ Frame(p)[3] = Len(p) \div 256
           /\ \A j \in 1..Len(p) : Frame(p)[j + 3] = p[j]
  <1>1. p \in Seq(Byte) /\ Len(p) \in 1..BufferSize /\ Len(p) <= 32767
    BY FramingAssumption
  <1> DEFINE s == ShortBytes(Len(p))
  <1>2. s \in Seq(Byte) /\ Len(s) = 2 /\ s[1] = Len(p) % 256 /\ s[2] = Len(p) \div 256
    <2>1. s \in Seq(Byte) /\ Len(s) = 2
      BY <1>1, ShortBytesType
    <2>2. s[1] = Len(p) % 256 /\ s[2] = Len(p) \div 256
      BY DEF ShortBytes
    <2> QED
      BY <2>1, <2>2
  <1> HIDE DEF s
  <1>3. <<Hash>> \in Seq(Byte) /\ <<At>> \in Seq(Byte)
    BY DEF Hash, At, Byte
  <1> DEFINE h == <<Hash>> \o s
  <1>4. h \in Seq(Byte) /\ Len(h) = 3 /\ h[1] = Hash /\ h[2] = s[1] /\ h[3] = s[2]
    <2>1. Len(<<Hash>>) = 1 /\ <<Hash>>[1] = Hash
      OBVIOUS
    <2>2. /\ h \in Seq(Byte) /\ Len(h) = Len(<<Hash>>) + Len(s)
          /\ \A j \in 1..Len(<<Hash>>) : h[j] = <<Hash>>[j]
          /\ \A j \in 1..Len(s) : h[Len(<<Hash>>) + j] = s[j]
      <3>1. <<Hash>> \in Seq(Byte) /\ s \in Seq(Byte)
        BY <1>2, <1>3
      <3> QED
        BY <3>1, BytesJoined, Zenon
    <2> HIDE DEF h
    <2>3. /\ Len(h) = 3 /\ h[1] = Hash
          /\ \A j \in 1..2 : h[1 + j] = s[j]
      BY <1>2, <2>1, <2>2
    <2>4. h[2] = s[1] /\ h[3] = s[2]
      <3>1. 1 \in 1..2 /\ 2 \in 1..2 /\ 1 + 1 = 2 /\ 1 + 2 = 3
        OBVIOUS
      <3> QED
        BY <2>3, <3>1
    <2> QED
      BY <2>2, <2>3, <2>4
  <1> HIDE DEF h
  <1> DEFINE b == h \o p
  <1>5. /\ b \in Seq(Byte) /\ Len(b) = Len(p) + 3 /\ \A j \in 1..3 : b[j] = h[j]
        /\ \A j \in 1..Len(p) : b[j + 3] = p[j]
    <2>1. /\ b \in Seq(Byte) /\ Len(b) = Len(h) + Len(p)
          /\ \A j \in 1..Len(h) : b[j] = h[j]
          /\ \A j \in 1..Len(p) : b[Len(h) + j] = p[j]
      <3>1. p \in Seq(Byte) /\ h \in Seq(Byte)
        BY <1>1, <1>4
      <3> QED
        BY <3>1, BytesJoined, Zenon
    <2> HIDE DEF b
    <2> QED
      BY <1>1, <1>4, <2>1
  <1> HIDE DEF b
  <1>6. /\ \A j \in 1..Len(p) + 3 : (b \o <<At>>)[j] = b[j]
        /\ (b \o <<At>>)[Len(p) + 4] = At
    <2>1. Len(<<At>>) = 1 /\ <<At>>[1] = At
      OBVIOUS
    <2> DEFINE f == b \o <<At>>
    <2>2. /\ \A j \in 1..Len(b) : f[j] = b[j]
          /\ \A j \in 1..Len(<<At>>) : f[Len(b) + j] = <<At>>[j]
      BY <1>3, <1>5, BytesJoined
    <2> HIDE DEF f
    <2>3. (\A j \in 1..Len(p) + 3 : f[j] = b[j]) /\ f[Len(p) + 3 + 1] = At
      BY <1>1, <1>5, <2>1, <2>2
    <2>4. Len(p) + 3 + 1 = Len(p) + 4
      BY <1>1
    <2> QED
      BY <2>3, <2>4 DEF f
  <1>7. Frame(p) = b \o <<At>>
    BY DEF Frame, b, h, s
  <1>8. Frame(p)[1] = b[1] /\ Frame(p)[2] = b[2] /\ Frame(p)[3] = b[3]
    <2>1. 1 \in 1..Len(p) + 3 /\ 2 \in 1..Len(p) + 3 /\ 3 \in 1..Len(p) + 3
      BY <1>1
    <2>2. \A j \in 1..Len(p) + 3 : Frame(p)[j] = b[j]
      BY <1>6, <1>7, Zenon
    <2> QED
      BY <2>1, <2>2
  <1>9. b[1] = Hash /\ b[2] = Len(p) % 256 /\ b[3] = Len(p) \div 256
    BY <1>2, <1>4, <1>5
  <1>10. ASSUME NEW j \in 1..Len(p) PROVE Frame(p)[j + 3] = p[j]
    <2>1. j + 3 \in 1..Len(p) + 3
      BY <1>1
    <2>2. Frame(p)[j + 3] = b[j + 3]
      BY <1>6, <1>7, <2>1, Zenon
    <2> QED
      BY <1>5, <2>2
  <1>11. Frame(p)[Len(p) + 4] = At
    BY <1>6, <1>7, Zenon
  <1> QED
    BY <1>1, <1>8, <1>9, <1>10, <1>11

LEMMA MarkedBytes ==
    ASSUME NEW p \in Payloads
    PROVE  /\ p \in Seq(Byte) /\ Len(p) \in 1..BufferSize /\ Len(p) <= 32767
           /\ Marked(p) \in Seq(MarkedByte) /\ Len(Marked(p)) = Len(p) + 4
           /\ \A j \in 1..Len(p) + 4 : /\ Marked(p)[j].byte = Frame(p)[j]
                                       /\ Marked(p)[j].stop <=> j >= 4 /\ j # Len(p) + 3
  <1>1. p \in Seq(Byte) /\ Len(p) \in 1..BufferSize /\ Len(p) <= 32767
    BY FrameBytes
  <1>2. Marked(p) \in Seq(MarkedByte)
    BY MarkedType DEF MarkedByte
  <1>3. Len(Marked(p)) = Len(p) + 4
    BY <1>1 DEF Marked
  <1>4. \A j \in 1..Len(p) + 4 : /\ Marked(p)[j].byte = Frame(p)[j]
                                 /\ Marked(p)[j].stop <=> j >= 4 /\ j # Len(p) + 3
    <2> TAKE j \in 1..Len(p) + 4
    <2>1. Marked(p)[j] = [byte |-> Frame(p)[j], stop |-> j >= 4 /\ j # Len(p) + 3]
      BY <1>1 DEF Marked
    <2>2. Marked(p)[j].byte = Frame(p)[j]
      BY <2>1
    <2>3. Marked(p)[j].stop = (j >= 4 /\ j # Len(p) + 3)
      BY <2>1
    <2> QED
      BY <2>2, <2>3, Zenon
  <1> QED
    BY <1>1, <1>2, <1>3, <1>4

(* Where the bytes of the frame of p are in T if it begins behind a, and where *)
(* a read of r bytes that the reader copes with cannot have ended.           *)
Stands(T, a, p, r) ==
    /\ T[a + 1].byte = Hash /\ T[a + Len(p) + 4].byte = At
    /\ T[a + 2].byte = Len(p) % 256 /\ T[a + 3].byte = Len(p) \div 256
    /\ \A j \in 1..Len(p) : T[a + 3 + j].byte = p[j]
    /\ \A j \in {1, 2, 3, Len(p) + 3} : r # a + j

LEMMA FrameIn ==
    ASSUME NEW p \in Payloads, NEW a \in Nat, NEW T, NEW r,
           \A j \in 1..Len(p) + 4 : T[a + j] = Marked(p)[j],
           r > 0 => T[r].stop
    PROVE  Stands(T, a, p, r)
  <1> DEFINE n == Len(p)
  <1>1. PICK F : F = Frame(p)
    OBVIOUS
  <1>2. PICK M : M = Marked(p)
    OBVIOUS
  <1>3. n \in Nat /\ n >= 1
    BY MarkedBytes
  <1>4. \A j \in 1..n + 4 : M[j].byte = F[j] /\ (M[j].stop <=> j >= 4 /\ j # n + 3)
    BY <1>1, <1>2, MarkedBytes
  <1>5. /\ F[1] = Hash /\ F[n + 4] = At /\ F[2] = n % 256 /\ F[3] = n \div 256
        /\ \A j \in 1..n : F[j + 3] = p[j]
    BY <1>1, FrameBytes
  <1>6. \A j \in 1..n + 4 : T[a + j] = M[j]
    BY <1>2
  <1> HIDE DEF n
  <1>7. \A j \in 1..n + 4 : T[a + j].byte = F[j]
    BY <1>4, <1>6
  <1>8. ASSUME NEW j \in {1, 2, 3, n + 3}, r = a + j PROVE FALSE
    <2>1. j \in 1..n + 4 /\ a + j > 0 /\ (j < 4 \/ j = n + 3)
      BY <1>3
    <2>2. ~T[a + j].stop
      BY <1>4, <1>6, <2>1
    <2> QED
      BY <1>8, <2>1, <2>2
  <1>9. \A j \in 1..n : T[a + 3 + j].byte = p[j]
    <2> TAKE j \in 1..n
    <2>1. j + 3 \in 1..n + 4 /\ a + (j + 3) = a + 3 + j
      BY <1>3
    <2>2. T[a + (j + 3)].byte = F[j + 3]
      BY <1>7, <2>1
    <2> QED
      BY <1>5, <2>1, <2>2
  <1>10. /\ T[a + 1].byte = Hash /\ T[a + n + 4].byte = At
         /\ T[a + 2].byte = n % 256 /\ T[a + 3].byte = n \div 256
    <2>1. /\ 1 \in 1..n + 4 /\ 2 \in 1..n + 4 /\ 3 \in 1..n + 4
          /\ n + 4 \in 1..n + 4 /\ a + (n + 4) = a + n + 4
      BY <1>3
    <2>2. /\ T[a + 1].byte = F[1] /\ T[a + 2].byte = F[2] /\ T[a + 3].byte = F[3]
          /\ T[a + (n + 4)].byte = F[n + 4]
      BY <1>7, <2>1
    <2> QED
      BY <1>5, <2>1, <2>2
  <1> QED
    BY <1>8, <1>9, <1>10, Zenon DEF Stands, n

(* The message the reader is at, when the stream was cut well. *)
LEMMA FrameAt ==
    ASSUME Inv, NEW T, NEW o, Follows(T, o), NEW k \in 1..Len(sent)
    PROVE  /\ sent[k] \in Payloads /\ sent[k] \in Seq(Byte)
           /\ Len(sent[k]) \in 1..BufferSize /\ Len(sent[k]) <= 32767
           /\ o[k] \in Nat /\ o[k + 1] = o[k] + Len(sent[k]) + 4
           /\ Stands(T, o[k], sent[k], ReadOf(o))
  <1>1. sent[k] \in Payloads
    BY DEF Inv, TypeOK
  <1>2. o[k] \in Nat
    BY DEF Follows, Laid, Inv, TypeOK
  <1>3. /\ o[k + 1] = o[k] + Len(sent[k]) + 4
        /\ \A j \in 1..Len(sent[k]) + 4 : T[o[k] + j] = Marked(sent[k])[j]
    BY DEF Follows, Laid
  <1>4. ReadOf(o) > 0 => T[ReadOf(o)].stop
    BY DEF Follows, CutWell
  <1>5. /\ sent[k] \in Seq(Byte) /\ Len(sent[k]) \in 1..BufferSize
        /\ Len(sent[k]) <= 32767
    BY <1>1, MarkedBytes
  <1>6. Stands(T, o[k], sent[k], ReadOf(o))
    BY <1>1, <1>2, <1>3, <1>4, FrameIn, Zenon
  <1> QED
    BY <1>1, <1>2, <1>3, <1>5, <1>6

(* How much of the stream was read and how much of that is done with. *)
LEMMA Lengths ==
    ASSUME Inv
    PROVE  /\ Len(stream) \in Nat /\ Len(input) \in Nat /\ Len(sent) \in Nat
           /\ Len(delivered) \in Nat /\ Len(buffered) \in Nat /\ expected \in Nat
  BY FramingAssumption DEF Inv, TypeOK

LEMMA Positions ==
    ASSUME Inv, NEW T, NEW o, Follows(T, o)
    PROVE  /\ End(o) \in Nat /\ ReadOf(o) \in Nat /\ DoneOf(o) \in Nat
           /\ ReadOf(o) = DoneOf(o) + Len(input) /\ End(o) = ReadOf(o) + Len(stream)
  <1>1. End(o) \in Nat
    <2>1. o \in [Nat -> Nat]
      BY Zenon DEF Follows, Laid
    <2>2. Len(sent) + 1 \in Nat
      BY Lengths
    <2> QED
      BY <2>1, <2>2 DEF End
  <1>2. ReadOf(o) - Len(input) >= 0
    BY DEF Follows, CutWell, DoneOf
  <1> QED
    BY <1>1, <1>2, Lengths DEF ReadOf, DoneOf

LEMMA InitClean == Init => CleanInv
  <1> SUFFICES ASSUME Init PROVE CleanInv
    OBVIOUS
  <1>1. Inv
    BY InitInv
  <1>2. PICK o : o = [k \in Nat |-> 0]
    OBVIOUS
  <1>3. o \in [Nat -> Nat] /\ o[1] = 0
    BY <1>2
  <1>4. Len(sent) = 0 /\ Len(stream) = 0 /\ Len(input) = 0 /\ Len(delivered) = 0
    BY DEF Init
  <1>5. End(o) = 0 /\ ReadOf(o) = 0 /\ DoneOf(o) = 0
    BY <1>3, <1>4 DEF End, ReadOf, DoneOf
  <1>6. Laid(<<>>, o)
    BY <1>3, <1>4 DEF Laid
  <1>7. CutWell(<<>>, o)
    BY <1>4, <1>5 DEF CutWell
  <1>8. InPlace(o)
    BY <1>3, <1>4, <1>5 DEF InPlace, Init
  <1>9. \E S, p : Follows(S, p)
    BY <1>6, <1>7, <1>8 DEF Follows
  <1> QED
    BY <1>1, <1>9 DEF CleanInv

(* A frame is put behind the others. *)
LEMMA SendFollows ==
    ASSUME Inv, NEW T, NEW o, Follows(T, o), NEW p \in Payloads, ClientDataSend(p)
    PROVE  \E S, q : Follows(S, q)'
  <1>1. PICK n \in Nat : n = Len(sent)
    BY Lengths
  <1>2. PICK e \in Nat : e = End(o)
    BY Positions
  <1>3. PICK M : M = Marked(p)
    OBVIOUS
  <1>4. PICK m \in Nat : m = Len(p) + 4 /\ Len(p) \in Nat
    BY MarkedBytes
  <1>5. PICK S : S = [i \in 1..e + m |-> IF i <= e THEN T[i] ELSE M[i - e]]
    OBVIOUS
  <1>6. PICK q : q = [o EXCEPT ![n + 2] = e + m]
    OBVIOUS
  <1>7. /\ \A j \in 1..e : S[j] = T[j]
        /\ \A j \in 1..m : S[e + j] = M[j]
    <2>1. ASSUME NEW j \in 1..m PROVE S[e + j] = M[j]
      <3>1. e + j \in 1..e + m /\ ~(e + j <= e) /\ (e + j) - e = j
        OBVIOUS
      <3> QED
        BY <1>5, <3>1
    <2> QED
      BY <1>5, <2>1
  <1>8. o \in [Nat -> Nat] /\ o[n + 1] = e
    BY <1>1, <1>2 DEF Follows, Laid, End
  <1>9. /\ q \in [Nat -> Nat] /\ q[n + 2] = e + m
        /\ \A k \in 1..n + 1 : q[k] = o[k]
    <2>1. n + 2 \in Nat /\ e + m \in Nat
      OBVIOUS
    <2> QED
      BY <1>6, <1>8, <2>1
  <1>10. /\ sent' = Append(sent, p) /\ stream' = stream \o M
         /\ UNCHANGED <<input, buffered, expected, delivered, clean>>
    BY <1>3 DEF ClientDataSend
  <1>11. /\ Len(sent') = n + 1 /\ sent'[n + 1] = p
         /\ \A k \in 1..n : sent'[k] = sent[k]
    BY <1>1, <1>10 DEF Inv, TypeOK
  <1>12. /\ Len(stream') = Len(stream) + m
         /\ \A j \in 1..Len(stream) : stream'[j] = stream[j]
         /\ \A j \in 1..m : stream'[Len(stream) + j] = M[j]
    <2>1. stream \in Seq(MarkedByte)
      BY DEF Inv, TypeOK, MarkedByte
    <2>2. M \in Seq(MarkedByte) /\ Len(M) = m
      BY <1>3, <1>4, MarkedBytes
    <2>3. /\ Len(stream \o M) = Len(stream) + Len(M)
          /\ \A j \in 1..Len(stream) : (stream \o M)[j] = stream[j]
          /\ \A j \in 1..Len(M) : (stream \o M)[Len(stream) + j] = M[j]
      BY <2>1, <2>2, MarksJoined, Zenon
    <2>4. stream' = stream \o M /\ Len(M) = m
      BY <1>10, <2>2
    <2> QED
      BY <2>3, <2>4, Zenon
  <1>13. ASSUME NEW k \in 1..n
         PROVE  /\ k \in 1..Len(sent) /\ k \in 1..n + 1 /\ k + 1 \in 1..n + 1
                /\ o[k] \in Nat /\ o[k] < e /\ o[k + 1] \in Nat /\ o[k + 1] <= e
                /\ Len(sent[k]) \in Nat /\ o[k + 1] = o[k] + Len(sent[k]) + 4
    <2>1. k \in 1..Len(sent) /\ k \in 1..n + 1 /\ k + 1 \in 1..n + 1
      BY <1>1
    <2>2. /\ sent[k] \in Seq(Byte) /\ o[k] \in Nat
          /\ o[k + 1] = o[k] + Len(sent[k]) + 4
      BY <2>1, FrameAt
    <2>3. Len(sent[k]) \in Nat
      BY <2>2
    <2>4. o[k] < e /\ (k + 1 \in 1..Len(sent) => o[k + 1] < e)
      BY <1>2, <2>1 DEF Follows, Laid
    <2>5. k + 1 \in 1..Len(sent) \/ k + 1 = n + 1
      BY <1>1
    <2>6. o[k + 1] \in Nat
      BY <2>2, <2>3
    <2>7. CASE k + 1 \in 1..Len(sent)
      BY <2>1, <2>2, <2>3, <2>4, <2>6, <2>7
    <2>8. CASE k + 1 = n + 1
      <3>1. o[k + 1] = e
        BY <1>8, <2>8
      <3> QED
        BY <2>1, <2>2, <2>3, <2>4, <2>6, <3>1
    <2> QED
      BY <2>5, <2>7, <2>8
  <1>14. End(q)' = e + m
    <2>1. Len(sent)' + 1 = n + 2
      BY <1>11
    <2> QED
      BY <1>9, <2>1 DEF End
  <1>15. Laid(S, q)'
    <2>1. ASSUME NEW k \in 1..n
          PROVE  /\ q[k + 1] = q[k] + Len(sent'[k]) + 4 /\ q[k] < e + m
                 /\ \A j \in 1..Len(sent'[k]) + 4 : S[q[k] + j] = Marked(sent'[k])[j]
      <3>1. /\ k \in 1..Len(sent) /\ k \in 1..n + 1 /\ k + 1 \in 1..n + 1
            /\ o[k] \in Nat /\ o[k] < e /\ o[k + 1] \in Nat /\ o[k + 1] <= e
            /\ Len(sent[k]) \in Nat /\ o[k + 1] = o[k] + Len(sent[k]) + 4
        BY <1>13
      <3>2. q[k] = o[k] /\ q[k + 1] = o[k + 1]
        BY <1>9, <3>1
      <3>3. sent'[k] = sent[k]
        BY <1>11
      <3>4. \A j \in 1..Len(sent[k]) + 4 : T[o[k] + j] = Marked(sent[k])[j]
        BY <3>1 DEF Follows, Laid
      <3>5. ASSUME NEW j \in 1..Len(sent[k]) + 4 PROVE S[o[k] + j] = T[o[k] + j]
        <4>1. PICK a \in Nat : a = o[k]
          BY <3>1
        <4>2. PICK l \in Nat : l = Len(sent[k])
          BY <3>1
        <4>3. j \in 1..l + 4 /\ a + l + 4 <= e
          <5>1. j \in 1..l + 4
            BY <4>2
          <5>2. o[k + 1] = o[k] + Len(sent[k]) + 4 /\ o[k + 1] <= e
            BY <3>1, Zenon
          <5>3. a + l + 4 <= e
            BY <4>1, <4>2, <5>2, Zenon
          <5> QED
            BY <5>1, <5>3
        <4>4. a + j \in 1..e
          BY <4>3
        <4>5. S[a + j] = T[a + j]
          BY <1>7, <4>4, Zenon
        <4> QED
          BY <4>1, <4>5, Zenon
      <3>6. q[k + 1] = q[k] + Len(sent'[k]) + 4
        BY <3>1, <3>2, <3>3
      <3>7. q[k] < e + m
        BY <3>1, <3>2
      <3>8. \A j \in 1..Len(sent'[k]) + 4 : S[q[k] + j] = Marked(sent'[k])[j]
        BY <3>2, <3>3, <3>4, <3>5, Zenon
      <3> QED
        BY <3>6, <3>7, <3>8
    <2>2. /\ q[n + 1 + 1] = q[n + 1] + Len(sent'[n + 1]) + 4 /\ q[n + 1] < e + m
          /\ \A j \in 1..Len(sent'[n + 1]) + 4 : S[q[n + 1] + j] = Marked(sent'[n + 1])[j]
      <3>1. n + 1 + 1 = n + 2 /\ n + 1 \in 1..n + 1
        OBVIOUS
      <3>2. q[n + 1] = e /\ q[n + 1 + 1] = e + m
        BY <1>8, <1>9, <3>1
      <3>3. q[n + 1 + 1] = q[n + 1] + Len(sent'[n + 1]) + 4 /\ q[n + 1] < e + m
        BY <1>4, <1>11, <3>2
      <3>4. \A j \in 1..Len(p) + 4 : S[e + j] = Marked(p)[j]
        BY <1>3, <1>4, <1>7, Zenon
      <3>5. \A j \in 1..Len(sent'[n + 1]) + 4 :
               S[q[n + 1] + j] = Marked(sent'[n + 1])[j]
        BY <1>11, <3>2, <3>4, Zenon
      <3> QED
        BY <3>3, <3>5
    <2>3. \A k \in 1..Len(sent)' : k \in 1..n \/ k = n + 1
      BY <1>11
    <2>4. \A k \in 1..Len(sent)' :
             /\ q[k + 1] = q[k] + Len(sent'[k]) + 4 /\ q[k] < e + m
             /\ \A j \in 1..Len(sent'[k]) + 4 : S[q[k] + j] = Marked(sent'[k])[j]
      <3> TAKE k \in 1..Len(sent)'
      <3>1. CASE k \in 1..n
        BY <2>1, <3>1
      <3>2. CASE k = n + 1
        BY <2>2, <3>2, Zenon
      <3> QED
        BY <2>3, <3>1, <3>2
    <2> QED
      BY <1>9, <1>14, <2>4, Zenon DEF Laid
  <1>16. ReadOf(q)' = ReadOf(o) /\ DoneOf(q)' = DoneOf(o)
    <2>1. Len(stream)' = Len(stream) + m /\ Len(input)' = Len(input)
      BY <1>10, <1>12
    <2>2. Len(stream) \in Nat /\ Len(input) \in Nat
      BY Lengths
    <2>3. ReadOf(q)' = (e + m) - (Len(stream) + m) /\ ReadOf(o) = e - Len(stream)
      BY <1>2, <1>14, <2>1 DEF ReadOf
    <2>4. ReadOf(q)' = ReadOf(o)
      BY <2>2, <2>3
    <2> QED
      BY <2>1, <2>4 DEF DoneOf
  <1>17. PICK r \in Nat : r = ReadOf(o)
    BY Positions
  <1>18. PICK c \in Nat : c = DoneOf(o)
    BY Positions
  <1>19. PICK w \in Nat : w = Len(stream)
    BY Lengths
  <1>20. e = r + w /\ Len(input) \in Nat /\ r = c + Len(input)
    BY <1>2, <1>17, <1>18, <1>19, Positions, Lengths
  <1>21. CutWell(S, q)'
    <2>1. /\ \A j \in 1..w : stream[j] = T[r + j]
          /\ \A j \in 1..Len(input) : input[j] = T[c + j].byte
          /\ r > 0 => T[r].stop
      BY <1>17, <1>18, <1>19 DEF Follows, CutWell
    <2>2. ASSUME NEW j \in 1..w PROVE stream'[j] = S[r + j]
      <3>1. r + j \in 1..e
        BY <1>20
      <3> QED
        BY <1>7, <1>12, <1>19, <2>1, <3>1
    <2>3. ASSUME NEW j \in 1..m PROVE stream'[w + j] = S[r + (w + j)]
      <3>1. r + (w + j) = e + j
        BY <1>20
      <3> QED
        BY <1>7, <1>12, <1>19, <3>1
    <2>4. ASSUME NEW j \in 1..Len(stream)' PROVE stream'[j] = S[r + j]
      <3>1. CASE j <= w
        <4>1. j \in 1..w
          BY <3>1
        <4> QED
          BY <2>2, <4>1
      <3>2. CASE j > w
        <4>1. j \in 1..w + m
          BY <1>12, <1>19
        <4>2. j - w \in 1..m /\ w + (j - w) = j
          BY <3>2, <4>1
        <4>3. stream'[w + (j - w)] = S[r + (w + (j - w))]
          BY <2>3, <4>2
        <4> QED
          BY <4>2, <4>3
      <3> QED
        BY <3>1, <3>2
    <2>5. ASSUME NEW j \in 1..Len(input)' PROVE input'[j] = S[c + j].byte
      <3>1. j \in 1..Len(input) /\ input' = input
        BY <1>10
      <3>2. c + j \in 1..e
        BY <1>20, <3>1
      <3>3. input[j] = T[c + j].byte
        BY <2>1, <3>1
      <3> QED
        BY <1>7, <3>1, <3>2, <3>3
    <2>6. r > 0 => S[r].stop
      <3>1. r > 0 => r \in 1..e
        BY <1>20
      <3> QED
        BY <1>7, <2>1, <3>1
    <2>7. r = ReadOf(q)' /\ c = DoneOf(q)' /\ c >= 0
      BY <1>16, <1>17, <1>18
    <2> QED
      BY <2>4, <2>5, <2>6, <2>7, Zenon DEF CutWell
  <1>22. InPlace(q)'
    <2>1. PICK d \in Nat : d = Len(delivered) + 1
      BY Lengths
    <2>2. /\ d <= n + 1 /\ \A k \in 1..Len(delivered) : delivered[k] = sent[k]
          /\ expected = 0 => buffered = <<>> /\ c = o[d]
          /\ expected > 0 =>
                /\ d <= n /\ Len(buffered) + expected = Len(sent[d])
                /\ c = o[d] + 3 + Len(buffered)
                /\ \A j \in 1..Len(buffered) : buffered[j] = sent[d][j]
      BY <1>1, <1>18, <2>1 DEF Follows, InPlace
    <2>3. d \in 1..n + 1 /\ q[d] = o[d] /\ d <= Len(sent)' + 1
      <3>1. d \in 1..n + 1
        <4>1. d >= 1 /\ d <= n + 1
          BY <2>1, <2>2, Lengths
        <4> QED
          BY <4>1
      <3>2. q[d] = o[d]
        BY <1>9, <3>1
      <3>3. d <= Len(sent') + 1
        BY <1>11, <3>1
      <3> QED
        BY <3>1, <3>2, <3>3
    <2>4. \A k \in 1..Len(delivered) : delivered[k] = sent'[k]
      <3> TAKE k \in 1..Len(delivered)
      <3>1. k \in 1..n
        BY <2>1, <2>2, Lengths
      <3> QED
        BY <1>11, <2>2, <3>1
    <2>5. expected > 0 => sent'[d] = sent[d] /\ d <= Len(sent)'
      <3>1. expected > 0 => d \in 1..n
        BY <2>2, <2>3
      <3> QED
        BY <1>11, <3>1
    <2>6. DoneOf(q)' = c
      BY <1>16, <1>18
    <2>7. /\ Len(delivered)' + 1 = d /\ Len(delivered)' = Len(delivered)
          /\ UNCHANGED <<buffered, expected, delivered>>
      BY <1>10, <2>1
    <2>8. expected > 0 =>
             /\ d <= Len(sent)' /\ Len(buffered) + expected = Len(sent'[d])
             /\ c = q[d] + 3 + Len(buffered)
             /\ \A j \in 1..Len(buffered) : buffered[j] = sent'[d][j]
      BY <2>2, <2>3, <2>5
    <2> QED
      BY <2>2, <2>3, <2>4, <2>6, <2>7, <2>8 DEF InPlace
  <1>23. Follows(S, q)'
    BY <1>15, <1>21, <1>22 DEF Follows
  <1> QED
    BY <1>23

(* What a read that the reader copes with leaves. *)
LEMMA ReadFollows ==
    ASSUME Inv, NEW T, NEW o, Follows(T, o), NEW n \in 1..Len(stream), Read(n), clean'
    PROVE  Follows(T, o)'
  <1>1. /\ sent' = sent /\ buffered' = buffered /\ expected' = expected
        /\ delivered' = delivered /\ stream[n].stop /\ input = <<>>
        /\ input' = [k \in 1..n |-> stream[k].byte]
        /\ stream' = SubSeq(stream, n + 1, Len(stream))
    BY DEF Read
  <1>2. PICK w \in Nat : w = Len(stream)
    BY Lengths
  <1>3. PICK r \in Nat : r = ReadOf(o)
    BY Positions
  <1>4. DoneOf(o) = r /\ End(o) = r + w /\ Len(input) = 0
    BY <1>1, <1>2, <1>3, Positions
  <1>5. n \in Nat /\ n >= 1 /\ n <= w
    BY <1>2
  <1>6. Len(stream') = w - n /\ \A j \in 1..w - n : stream'[j] = stream[n + j]
    <2>1. stream \in Seq(MarkedByte)
      BY DEF Inv, TypeOK, MarkedByte
    <2>2. \A j \in n + 1..w : stream[j] \in MarkedByte
      BY <1>2, <1>5, <2>1
    <2>3. /\ Len(stream') = IF n + 1 <= w THEN w - (n + 1) + 1 ELSE 0
          /\ \A j \in 1..w - (n + 1) + 1 : stream'[j] = stream[n + 1 + j - 1]
      <3>1. n + 1 \in Int /\ w \in Int
        BY <1>5
      <3>2. stream' = SubSeq(stream, n + 1, w)
        BY <1>1, <1>2
      <3> QED
        BY <2>2, <3>1, <3>2, SubSeqProperties
    <2>4. w - (n + 1) + 1 = w - n
      BY <1>5
    <2>5. Len(stream') = w - n
      <3>1. n + 1 <= w \/ w - n = 0
        BY <1>5
      <3> QED
        BY <1>5, <2>3, <2>4, <3>1
    <2>6. ASSUME NEW j \in 1..w - n PROVE stream'[j] = stream[n + j]
      <3>1. j \in 1..w - (n + 1) + 1 /\ n + 1 + j - 1 = n + j
        BY <1>5, <2>4
      <3>2. stream'[j] = stream[n + 1 + j - 1]
        BY <2>3, <3>1, Zenon
      <3> QED
        BY <3>1, <3>2
    <2> QED
      BY <2>5, <2>6
  <1>7. Len(input') = n /\ \A j \in 1..n : input'[j] = stream[j].byte
    BY <1>1, <1>5
  <1>8. End(o)' = r + w
    BY <1>1, <1>4 DEF End
  <1>9. ReadOf(o)' = r + n /\ DoneOf(o)' = r
    BY <1>5, <1>6, <1>7, <1>8 DEF ReadOf, DoneOf
  <1>10. Laid(T, o)'
    BY <1>1 DEF Follows, Laid, End
  <1>11. \A j \in 1..w : stream[j] = T[r + j]
    BY <1>2, <1>3 DEF Follows, CutWell
  <1>12. CutWell(T, o)'
    <2>1. ASSUME NEW j \in 1..w - n PROVE stream'[j] = T[r + n + j]
      <3>1. n + j \in 1..w /\ r + (n + j) = r + n + j
        BY <1>5
      <3> QED
        BY <1>6, <1>11, <3>1
    <2>2. ASSUME NEW j \in 1..n PROVE input'[j] = T[r + j].byte
      <3>1. j \in 1..w
        BY <1>5
      <3> QED
        BY <1>7, <1>11, <3>1
    <2>3. T[r + n].stop
      <3>1. n \in 1..w
        BY <1>5
      <3> QED
        BY <1>1, <1>11, <3>1
    <2>4. Len(stream)' = w - n /\ Len(input)' = n /\ r >= 0
      BY <1>6, <1>7
    <2> QED
      BY <1>9, <2>1, <2>2, <2>3, <2>4, Zenon DEF CutWell
  <1>13. InPlace(o)'
    <2>1. DoneOf(o)' = DoneOf(o)
      BY <1>4, <1>9
    <2> QED
      BY <1>1, <2>1 DEF Follows, InPlace
  <1> QED
    BY <1>10, <1>12, <1>13 DEF Follows

(* The reader goes on by m bytes within what it has read. *)
LEMMA GoesOn ==
    ASSUME Inv, NEW T, NEW o, Follows(T, o), NEW m \in 1..Len(input),
           sent' = sent, stream' = stream, Len(input') = Len(input) - m,
           \A j \in 1..Len(input) - m : input'[j] = input[m + j]
    PROVE  Laid(T, o)' /\ CutWell(T, o)' /\ DoneOf(o)' = DoneOf(o) + m
  <1>1. Laid(T, o)' /\ End(o)' = End(o)
    BY DEF Follows, Laid, End
  <1>2. PICK c \in Nat : c = DoneOf(o)
    BY Positions
  <1>3. PICK l \in Nat : l = Len(input)
    BY Lengths
  <1>4. m \in Nat /\ m <= l /\ m >= 1
    BY <1>3
  <1>5. ReadOf(o)' = ReadOf(o) /\ ReadOf(o) = c + l
    BY <1>1, <1>2, <1>3, Positions DEF ReadOf
  <1>6. DoneOf(o)' = c + m
    BY <1>3, <1>4, <1>5 DEF DoneOf
  <1>7. \A j \in 1..l : input[j] = T[c + j].byte
    BY <1>2, <1>3 DEF Follows, CutWell
  <1>8. ASSUME NEW j \in 1..l - m PROVE input'[j] = T[c + m + j].byte
    <2>1. m + j \in 1..l /\ c + (m + j) = c + m + j
      BY <1>4
    <2>2. input'[j] = input[m + j]
      BY <1>3
    <2> QED
      BY <1>7, <2>1, <2>2
  <1>9. CutWell(T, o)'
    <2>1. Len(input)' = l - m /\ c + m >= 0
      BY <1>3
    <2>2. /\ \A j \in 1..Len(stream)' : stream'[j] = T[ReadOf(o)' + j]
          /\ ReadOf(o)' > 0 => T[ReadOf(o)'].stop
      BY <1>5 DEF Follows, CutWell
    <2> QED
      BY <1>6, <1>8, <2>1, <2>2, Zenon DEF CutWell
  <1> QED
    BY <1>1, <1>2, <1>6, <1>9

(* There is a message to read when a byte is read that no message has used.  *)
LEMMA MessageThere ==
    ASSUME Inv, NEW T, NEW o, Follows(T, o), input # <<>>
    PROVE  Len(delivered) + 1 \in 1..Len(sent)
  <1>1. PICK d \in Nat : d = Len(delivered) + 1
    BY Lengths
  <1>2. Len(sent) \in Nat /\ d >= 1
    BY <1>1, Lengths
  <1>3. CASE expected = 0
    <2>1. d <= Len(sent) + 1 /\ DoneOf(o) = o[d]
      BY <1>1, <1>3 DEF Follows, InPlace
    <2>2. Len(input) >= 1
      BY DEF Inv, TypeOK
    <2>3. o[d] < End(o)
      BY <2>1, <2>2, Positions, Lengths
    <2>4. d # Len(sent) + 1
      BY <2>3, Positions DEF End
    <2> QED
      BY <1>1, <1>2, <2>1, <2>4
  <1>4. CASE expected > 0
    <2>1. d <= Len(sent)
      BY <1>1, <1>4 DEF Follows, InPlace
    <2> QED
      BY <1>1, <1>2, <2>1
  <1> QED
    BY <1>3, <1>4, Lengths

(* The first message that was not delivered. *)
Awaited == sent[Len(delivered) + 1]

(* What the reader sees at the start of a frame ... *)
LEMMA AtHeader ==
    ASSUME Inv, NEW T, NEW o, Follows(T, o), input # <<>>, expected = 0
    PROVE  /\ Awaited \in Seq(Byte) /\ Len(Awaited) \in 1..BufferSize /\ buffered = <<>>
           /\ DoneOf(o) = o[Len(delivered) + 1]
           /\ o[Len(delivered) + 2] = DoneOf(o) + Len(Awaited) + 4
           /\ Len(input) >= 4 /\ Len(input) # Len(Awaited) + 3
           /\ input[1] = Hash /\ Count = Len(Awaited)
           /\ \A j \in 1..Len(Awaited) : 3 + j <= Len(input) => input[3 + j] = Awaited[j]
           /\ Len(Awaited) + 4 <= Len(input) => input[Len(Awaited) + 4] = At
  <1>1. PICK k \in 1..Len(sent) : k = Len(delivered) + 1
    BY MessageThere
  <1>2. /\ Awaited \in Seq(Byte) /\ Len(Awaited) \in 1..BufferSize
        /\ Len(Awaited) <= 32767 /\ o[k + 1] = o[k] + Len(Awaited) + 4
        /\ Stands(T, o[k], Awaited, ReadOf(o))
    <2>1. Awaited = sent[k]
      BY <1>1 DEF Awaited
    <2>2. /\ sent[k] \in Seq(Byte) /\ Len(sent[k]) \in 1..BufferSize
          /\ Len(sent[k]) <= 32767 /\ o[k + 1] = o[k] + Len(sent[k]) + 4
          /\ Stands(T, o[k], sent[k], ReadOf(o))
      BY FrameAt
    <2> QED
      BY <2>1, <2>2
  <1>3. buffered = <<>> /\ DoneOf(o) = o[k]
    BY <1>1 DEF Follows, InPlace
  <1>4. PICK c \in Nat : c = DoneOf(o)
    BY Positions
  <1>5. PICK l \in Nat : l = Len(input)
    BY Lengths
  <1>6. PICK n \in Nat : n = Len(Awaited) /\ n >= 1
    BY <1>2
  <1>7. ReadOf(o) = c + l
    BY <1>4, <1>5, Positions
  <1>8. l >= 1
    BY <1>5 DEF Inv, TypeOK
  <1>9. \A j \in 1..l : input[j] = T[c + j].byte
    BY <1>4, <1>5 DEF Follows, CutWell
  <1>10. /\ T[c + 1].byte = Hash /\ T[c + n + 4].byte = At
         /\ T[c + 2].byte = n % 256 /\ T[c + 3].byte = n \div 256
         /\ \A j \in 1..n : T[c + 3 + j].byte = Awaited[j]
         /\ \A j \in {1, 2, 3, n + 3} : c + l # c + j
    <2>1. Stands(T, c, Awaited, c + l)
      BY <1>2, <1>3, <1>4, <1>7
    <2>2. /\ T[c + 1].byte = Hash /\ T[c + Len(Awaited) + 4].byte = At
          /\ T[c + 2].byte = Len(Awaited) % 256
          /\ T[c + 3].byte = Len(Awaited) \div 256
          /\ \A j \in 1..Len(Awaited) : T[c + 3 + j].byte = Awaited[j]
          /\ \A j \in {1, 2, 3, Len(Awaited) + 3} : c + l # c + j
      BY <2>1, Zenon DEF Stands
    <2> QED
      BY <1>6, <2>2, Zenon
  <1>11. l >= 4 /\ l # n + 3
    <2>1. c + l # c + 1 /\ c + l # c + 2 /\ c + l # c + 3 /\ c + l # c + (n + 3)
      BY <1>10
    <2> QED
      BY <1>8, <2>1
  <1>12. input[1] = Hash /\ input[2] = n % 256 /\ input[3] = n \div 256
    <2>1. 1 \in 1..l /\ 2 \in 1..l /\ 3 \in 1..l
      BY <1>11
    <2> QED
      BY <1>9, <1>10, <2>1
  <1>13. Count = n
    <2>1. n <= 32767
      BY <1>2, <1>6
    <2>2. ShortValue(n % 256, n \div 256) = n
      BY <2>1, ShortRead
    <2> QED
      BY <1>12, <2>2, Zenon DEF Count
  <1>14. ASSUME NEW j \in 1..n, 3 + j <= l PROVE input[3 + j] = Awaited[j]
    <2>1. 3 + j \in 1..l /\ c + (3 + j) = c + 3 + j
      BY <1>14
    <2> QED
      BY <1>9, <1>10, <2>1
  <1>15. n + 4 <= l => input[n + 4] = At
    <2>1. n + 4 <= l => n + 4 \in 1..l /\ c + (n + 4) = c + n + 4
      OBVIOUS
    <2> QED
      BY <1>9, <1>10, <2>1
  <1>16. Len(delivered) + 2 = k + 1
    BY <1>1, Lengths
  <1>17. o[Len(delivered) + 2] = DoneOf(o) + Len(Awaited) + 4
    BY <1>2, <1>3, <1>16
  <1> QED
    BY <1>1, <1>2, <1>3, <1>5, <1>6, <1>11, <1>12, <1>13, <1>14, <1>15, <1>17

(* ... and within the payload of one. *)
LEMMA InPayload ==
    ASSUME Inv, NEW T, NEW o, Follows(T, o), input # <<>>, expected > 0
    PROVE  /\ Awaited \in Seq(Byte) /\ Len(Awaited) = Len(buffered) + expected
           /\ o[Len(delivered) + 2] = DoneOf(o) + expected + 1
           /\ DoneOf(o) = o[Len(delivered) + 1] + 3 + Len(buffered)
           /\ \A j \in 1..Len(buffered) : buffered[j] = Awaited[j]
           /\ Len(input) >= 1 /\ Len(input) # expected
           /\ \A j \in 1..expected :
                 j <= Len(input) => input[j] = Awaited[Len(buffered) + j]
           /\ expected + 1 <= Len(input) => input[expected + 1] = At
  <1>1. PICK k \in 1..Len(sent) : k = Len(delivered) + 1
    BY MessageThere
  <1>2. /\ Awaited \in Seq(Byte) /\ o[k] \in Nat
        /\ o[k + 1] = o[k] + Len(Awaited) + 4
        /\ Stands(T, o[k], Awaited, ReadOf(o))
    <2>1. Awaited = sent[k]
      BY <1>1 DEF Awaited
    <2>2. /\ sent[k] \in Seq(Byte) /\ o[k] \in Nat
          /\ o[k + 1] = o[k] + Len(sent[k]) + 4
          /\ Stands(T, o[k], sent[k], ReadOf(o))
      BY FrameAt
    <2> QED
      BY <2>1, <2>2
  <1>3. PICK b \in Nat : b = Len(buffered)
    BY Lengths
  <1>4. PICK a \in Nat : a = o[k]
    BY <1>2
  <1>5. PICK x \in Nat : x = expected /\ x >= 1
    BY Lengths
  <1>6. /\ Len(Awaited) = b + x /\ DoneOf(o) = a + 3 + b
        /\ \A j \in 1..b : buffered[j] = Awaited[j]
    BY <1>1, <1>3, <1>4, <1>5 DEF Follows, InPlace, Awaited
  <1>7. PICK l \in Nat : l = Len(input)
    BY Lengths
  <1>8. l >= 1
    BY <1>7 DEF Inv, TypeOK
  <1>9. ReadOf(o) = a + 3 + b + l
    BY <1>6, <1>7, Positions
  <1>10. \A j \in 1..l : input[j] = T[a + 3 + b + j].byte
    BY <1>6, <1>7 DEF Follows, CutWell
  <1>11. /\ T[a + (b + x) + 4].byte = At
         /\ \A j \in 1..b + x : T[a + 3 + j].byte = Awaited[j]
         /\ a + 3 + b + l # a + (b + x + 3)
    <2>1. /\ T[a + Len(Awaited) + 4].byte = At
          /\ \A j \in 1..Len(Awaited) : T[a + 3 + j].byte = Awaited[j]
          /\ ReadOf(o) # a + (Len(Awaited) + 3)
      BY <1>2, <1>4, Zenon DEF Stands
    <2> QED
      BY <1>6, <1>9, <2>1, Zenon
  <1>12. l # x
    BY <1>11
  <1>13. ASSUME NEW j \in 1..x, j <= l PROVE input[j] = Awaited[b + j]
    <2>1. b + j \in 1..b + x /\ j \in 1..l /\ a + 3 + (b + j) = a + 3 + b + j
      BY <1>13
    <2>2. T[a + 3 + (b + j)].byte = Awaited[b + j]
      BY <1>11, <2>1
    <2> QED
      BY <1>10, <2>1, <2>2
  <1>14. x + 1 <= l => input[x + 1] = At
    <2>1. x + 1 <= l => x + 1 \in 1..l /\ a + 3 + b + (x + 1) = a + (b + x) + 4
      OBVIOUS
    <2> QED
      BY <1>10, <1>11, <2>1
  <1>15. Len(delivered) + 2 = k + 1
    BY <1>1, Lengths
  <1>16. o[Len(delivered) + 2] = DoneOf(o) + x + 1
    <2>1. o[Len(delivered) + 2] = a + (b + x) + 4
      BY <1>2, <1>4, <1>6, <1>15
    <2>2. a + (b + x) + 4 = a + 3 + b + x + 1
      OBVIOUS
    <2> QED
      BY <1>6, <2>1, <2>2
  <1> QED
    BY <1>1, <1>2, <1>3, <1>4, <1>5, <1>6, <1>7, <1>8, <1>12, <1>13, <1>14, <1>16

(* The elements of a suffix and of a piece of a sequence of bytes. *)
LEMMA FromBytes ==
    ASSUME NEW s \in Seq(Byte), NEW k \in Nat, k >= 1, k <= Len(s) + 1
    PROVE  /\ From(s, k) \in Seq(Byte) /\ Len(From(s, k)) = Len(s) - k + 1
           /\ \A j \in 1..Len(s) - k + 1 : From(s, k)[j] = s[k - 1 + j]
  <1>1. PICK l \in Nat : l = Len(s)
    OBVIOUS
  <1>2. \A i \in k..l : s[i] \in Byte
    BY <1>1
  <1>3. PICK f : f = SubSeq(s, k, l)
    OBVIOUS
  <1>4. /\ f \in Seq(Byte) /\ Len(f) = IF k <= l THEN l - k + 1 ELSE 0
        /\ \A i \in 1..l - k + 1 : f[i] = s[k + i - 1]
    BY <1>2, <1>3, SubSeqProperties
  <1>5. Len(f) = l - k + 1
    BY <1>1, <1>4
  <1>6. \A j \in 1..l - k + 1 : k + j - 1 = k - 1 + j
    OBVIOUS
  <1>7. \A j \in 1..l - k + 1 : f[j] = s[k - 1 + j]
    BY <1>4, <1>6
  <1>8. From(s, k) = f
    BY <1>1, <1>3 DEF From
  <1> QED
    BY <1>1, <1>4, <1>5, <1>7, <1>8

LEMMA FromEach ==
    \A s \in Seq(Byte) : \A k \in 1..Len(s) + 1 :
       /\ From(s, k) \in Seq(Byte) /\ Len(From(s, k)) = Len(s) - k + 1
       /\ \A j \in 1..Len(s) - k + 1 : From(s, k)[j] = s[k - 1 + j]
  BY FromBytes

LEMMA PrefixBytes ==
    ASSUME NEW s \in Seq(Byte), NEW n \in Nat, n <= Len(s)
    PROVE  /\ SubSeq(s, 1, n) \in Seq(Byte) /\ Len(SubSeq(s, 1, n)) = n
           /\ \A j \in 1..n : SubSeq(s, 1, n)[j] = s[j]
  <1>1. \A i \in 1..n : s[i] \in Byte
    OBVIOUS
  <1>2. PICK f : f = SubSeq(s, 1, n)
    OBVIOUS
  <1>3. /\ f \in Seq(Byte) /\ Len(f) = IF 1 <= n THEN n - 1 + 1 ELSE 0
        /\ \A i \in 1..n - 1 + 1 : f[i] = s[1 + i - 1]
    BY <1>1, <1>2, SubSeqProperties
  <1>4. Len(f) = n
    BY <1>3
  <1>5. n - 1 + 1 = n /\ \A j \in 1..n : 1 + j - 1 = j
    OBVIOUS
  <1>6. \A j \in 1..n : f[j] = s[j]
    BY <1>3, <1>5
  <1> QED
    BY <1>2, <1>3, <1>4, <1>6

(* The message that was awaited is delivered, and the next frame is next.    *)
LEMMA DeliveredInPlace ==
    ASSUME Inv, NEW T, NEW o, Follows(T, o), Len(delivered) + 1 \in 1..Len(sent),
           delivered' = Append(delivered, Awaited), sent' = sent,
           expected' = 0, buffered' = <<>>, DoneOf(o)' = o[Len(delivered) + 2]
    PROVE  InPlace(o)'
  <1>1. PICK d \in Nat : d = Len(delivered)
    BY Lengths
  <1>2. /\ Len(delivered') = d + 1 /\ delivered'[d + 1] = Awaited
        /\ \A k \in 1..d : delivered'[k] = delivered[k]
    BY <1>1 DEF Inv, TypeOK
  <1>3. \A k \in 1..d : delivered[k] = sent[k]
    BY <1>1 DEF Follows, InPlace
  <1>4. ASSUME NEW k \in 1..d + 1 PROVE delivered'[k] = sent[k]
    <2>1. CASE k \in 1..d
      BY <1>2, <1>3, <2>1
    <2>2. CASE k = d + 1
      BY <1>1, <1>2, <2>2 DEF Awaited
    <2>3. k \in 1..d \/ k = d + 1
      OBVIOUS
    <2> QED
      BY <2>1, <2>2, <2>3
  <1>5. d + 1 + 1 <= Len(sent)' + 1 /\ d + 1 + 1 = d + 2
    BY <1>1, Lengths
  <1>6. Len(delivered)' + 1 <= Len(sent)' + 1
    BY <1>2, <1>5
  <1>7. \A k \in 1..Len(delivered)' : delivered'[k] = sent'[k]
    BY <1>2, <1>4
  <1>8. DoneOf(o)' = o[Len(delivered)' + 1]
    BY <1>1, <1>2, <1>5
  <1>9. ~(expected' > 0)
    OBVIOUS
  <1> QED
    BY <1>6, <1>7, <1>8, <1>9, Zenon DEF InPlace

LEMMA WholeFollows ==
    ASSUME Inv, NEW T, NEW o, Follows(T, o), WholeMessage
    PROVE  Follows(T, o)' /\ delivered' = Append(delivered, Awaited)
  <1>1. /\ input # <<>> /\ expected = 0 /\ Count <= Len(Body) - 1
        /\ delivered' = Append(delivered, SubSeq(Body, 1, Count))
        /\ input' = From(Body, Count + 2) /\ sent' = sent /\ stream' = stream
        /\ buffered' = buffered /\ expected' = expected
    BY DEF WholeMessage, AtStart, Deliver
  <1>2. PICK n \in Nat : n = Len(Awaited)
    BY <1>1, AtHeader
  <1>3. /\ Awaited \in Seq(Byte) /\ buffered = <<>> /\ Len(input) >= 4 /\ Count = n
        /\ o[Len(delivered) + 2] = DoneOf(o) + n + 4
        /\ \A j \in 1..n : 3 + j <= Len(input) => input[3 + j] = Awaited[j]
    BY <1>1, <1>2, AtHeader
  <1>4. PICK l \in Nat : l = Len(input) /\ l >= 4
    BY <1>3, Lengths
  <1>5. PICK B : B = Body
    OBVIOUS
  <1>6. B \in Seq(Byte) /\ Len(B) = l - 3 /\ \A j \in 1..l - 3 : B[j] = input[3 + j]
    <2>1. input \in Seq(Byte)
      BY DEF Inv, TypeOK
    <2>2. /\ From(input, 4) \in Seq(Byte) /\ Len(From(input, 4)) = Len(input) - 4 + 1
          /\ \A j \in 1..Len(input) - 4 + 1 : From(input, 4)[j] = input[4 - 1 + j]
      <3>1. 4 \in 1..Len(input) + 1
        BY <1>4
      <3> QED
        BY <2>1, <3>1, FromEach, Zenon
    <2>3. /\ B \in Seq(Byte) /\ Len(B) = l - 4 + 1
          /\ \A j \in 1..l - 4 + 1 : B[j] = input[4 - 1 + j]
      BY <1>4, <1>5, <2>2 DEF Body
    <2>4. l - 4 + 1 = l - 3 /\ 4 - 1 = 3
      OBVIOUS
    <2> QED
      BY <2>3, <2>4
  <1>7. n + 4 <= l
    BY <1>1, <1>3, <1>5, <1>6
  <1>8. SubSeq(B, 1, n) = Awaited
    <2>1. n <= Len(B)
      BY <1>6, <1>7
    <2>2. PICK f : f = SubSeq(B, 1, n)
      OBVIOUS
    <2>3. f \in Seq(Byte) /\ Len(f) = n /\ \A j \in 1..n : f[j] = B[j]
      BY <1>6, <2>1, <2>2, PrefixBytes
    <2>4. ASSUME NEW j \in 1..n PROVE f[j] = Awaited[j]
      <3>1. j \in 1..l - 3 /\ 3 + j <= l
        BY <1>7
      <3> QED
        BY <1>3, <1>4, <1>6, <2>3, <3>1
    <2>5. Len(f) = Len(Awaited) /\ \A j \in 1..Len(f) : f[j] = Awaited[j]
      BY <1>2, <2>3, <2>4
    <2>6. f = Awaited
      BY <1>3, <2>3, <2>5, SeqEqual
    <2> QED
      BY <2>2, <2>6
  <1>9. /\ Len(input') = l - (n + 4)
        /\ \A j \in 1..l - (n + 4) : input'[j] = input[n + 4 + j]
    <2>1. n + 2 \in 1..Len(B) + 1
      BY <1>6, <1>7
    <2>2. PICK f : f = From(B, n + 2)
      OBVIOUS
    <2>3. /\ Len(f) = Len(B) - (n + 2) + 1
          /\ \A j \in 1..Len(B) - (n + 2) + 1 : f[j] = B[n + 2 - 1 + j]
      <3>1. B \in Seq(Byte)
        BY <1>6
      <3>2. PICK k : k = n + 2
        OBVIOUS
      <3>3. f = From(B, k) /\ k \in 1..Len(B) + 1
        BY <2>1, <2>2, <3>2
      <3>4. Len(f) = Len(B) - k + 1 /\ \A j \in 1..Len(B) - k + 1 : f[j] = B[k - 1 + j]
        BY <3>1, <3>3, FromEach, Zenon
      <3> QED
        BY <3>2, <3>4
    <2>4. Len(f) = l - (n + 4) /\ Len(B) - (n + 2) + 1 = l - (n + 4)
      BY <1>6, <2>3
    <2>5. ASSUME NEW j \in 1..l - (n + 4) PROVE f[j] = input[n + 4 + j]
      <3>1. n + 2 - 1 + j \in 1..l - 3 /\ 3 + (n + 2 - 1 + j) = n + 4 + j
        BY <1>7
      <3>2. f[j] = B[n + 2 - 1 + j]
        BY <2>3, <2>4
      <3> QED
        BY <1>6, <3>1, <3>2
    <2>6. input' = f
      BY <1>1, <1>3, <1>5, <2>2
    <2> QED
      BY <2>4, <2>5, <2>6
  <1>10. delivered' = Append(delivered, Awaited)
    BY <1>1, <1>3, <1>5, <1>8
  <1>11. Laid(T, o)' /\ CutWell(T, o)' /\ DoneOf(o)' = DoneOf(o) + (n + 4)
    <2>1. n + 4 \in 1..Len(input)
      BY <1>4, <1>7
    <2> QED
      BY <1>1, <1>4, <1>9, <2>1, GoesOn
  <1>12. InPlace(o)'
    <2>1. DoneOf(o)' = o[Len(delivered) + 2]
      BY <1>3, <1>11, Positions
    <2>2. Len(delivered) + 1 \in 1..Len(sent)
      BY <1>1, MessageThere
    <2> QED
      BY <1>1, <1>3, <1>10, <2>1, <2>2, DeliveredInPlace
  <1> QED
    BY <1>10, <1>11, <1>12 DEF Follows

LEMMA StartFollows ==
    ASSUME Inv, NEW T, NEW o, Follows(T, o), StartBuffering
    PROVE  Follows(T, o)'
  <1>1. /\ input # <<>> /\ expected = 0 /\ Count > Len(Body) - 1
        /\ buffered' = Body /\ expected' = Count - Len(Body) /\ input' = <<>>
        /\ sent' = sent /\ stream' = stream /\ delivered' = delivered
    BY DEF StartBuffering, AtStart
  <1>2. PICK n \in Nat : n = Len(Awaited)
    BY <1>1, AtHeader
  <1>3. /\ DoneOf(o) = o[Len(delivered) + 1] /\ Len(input) >= 4 /\ Count = n
        /\ Len(input) # n + 3
        /\ \A j \in 1..n : 3 + j <= Len(input) => input[3 + j] = Awaited[j]
    BY <1>1, <1>2, AtHeader
  <1>4. PICK l \in Nat : l = Len(input) /\ l >= 4
    BY <1>3, Lengths
  <1>5. /\ Len(buffered') = l - 3 /\ \A j \in 1..l - 3 : buffered'[j] = input[3 + j]
    <2>1. input \in Seq(Byte)
      BY DEF Inv, TypeOK
    <2>2. PICK B : B = From(input, 4)
      OBVIOUS
    <2>3. Len(B) = l - 4 + 1 /\ \A j \in 1..l - 4 + 1 : B[j] = input[4 - 1 + j]
      <3>1. 4 \in 1..Len(input) + 1
        BY <1>4
      <3>2. /\ Len(B) = Len(input) - 4 + 1
            /\ \A j \in 1..Len(input) - 4 + 1 : B[j] = input[4 - 1 + j]
        BY <2>1, <2>2, <3>1, FromEach, Zenon
      <3> QED
        BY <1>4, <3>2
    <2>4. l - 4 + 1 = l - 3 /\ 4 - 1 = 3
      OBVIOUS
    <2>5. buffered' = B
      BY <1>1, <2>2 DEF Body
    <2> QED
      BY <2>3, <2>4, <2>5
  <1>6. l - 3 < n /\ expected' = n - (l - 3)
    <2>1. Len(Body) = l - 3
      BY <1>1, <1>5
    <2> QED
      BY <1>1, <1>3, <1>4, <2>1
  <1>7. Laid(T, o)' /\ CutWell(T, o)' /\ DoneOf(o)' = DoneOf(o) + l
    <2>1. l \in 1..Len(input) /\ Len(input') = Len(input) - l
      BY <1>1, <1>4
    <2>2. \A j \in 1..Len(input) - l : input'[j] = input[l + j]
      BY <1>4
    <2> QED
      BY <1>1, <2>1, <2>2, GoesOn
  <1>8. InPlace(o)'
    <2>1. Len(delivered) + 1 \in 1..Len(sent)
      BY <1>1, MessageThere
    <2>2. \A k \in 1..Len(delivered) : delivered[k] = sent[k]
      BY DEF Follows, InPlace
    <2>3. ~(expected' = 0) /\ Len(buffered)' + expected' = Len(Awaited)
      BY <1>2, <1>5, <1>6
    <2>4. DoneOf(o)' = o[Len(delivered) + 1] + 3 + Len(buffered)'
      <3>1. PICK c \in Nat : c = DoneOf(o)
        BY Positions
      <3>2. c + l = c + 3 + (l - 3)
        OBVIOUS
      <3> QED
        BY <1>3, <1>5, <1>7, <3>1, <3>2
    <2>5. \A j \in 1..Len(buffered)' : buffered'[j] = Awaited[j]
      <3> TAKE j \in 1..Len(buffered)'
      <3>1. j \in 1..l - 3 /\ j \in 1..n /\ 3 + j <= l
        BY <1>5, <1>6
      <3> QED
        BY <1>3, <1>4, <1>5, <3>1
    <2>6. Len(delivered) + 1 <= Len(sent) /\ Len(delivered) + 1 <= Len(sent) + 1
      BY <2>1, Lengths
    <2>7. Awaited = sent[Len(delivered) + 1]
      BY DEF Awaited
    <2> QED
      BY <1>1, <2>2, <2>3, <2>4, <2>5, <2>6, <2>7, Zenon DEF InPlace
  <1> QED
    BY <1>7, <1>8 DEF Follows

LEMMA ContinueFollows ==
    ASSUME Inv, NEW T, NEW o, Follows(T, o), ContinueBuffering
    PROVE  Follows(T, o)'
  <1>1. /\ input # <<>> /\ expected > 0 /\ expected > Len(input) - 1
        /\ buffered' = buffered \o input /\ expected' = expected - Len(input)
        /\ input' = <<>>
        /\ sent' = sent /\ stream' = stream /\ delivered' = delivered
    BY DEF ContinueBuffering, Expecting
  <1>2. PICK x \in Nat : x = expected
    BY Lengths
  <1>3. PICK b \in Nat : b = Len(buffered)
    BY Lengths
  <1>4. /\ Len(Awaited) = b + x /\ DoneOf(o) = o[Len(delivered) + 1] + 3 + b
        /\ \A j \in 1..b : buffered[j] = Awaited[j]
        /\ Len(input) >= 1 /\ Len(input) # x
        /\ \A j \in 1..x : j <= Len(input) => input[j] = Awaited[b + j]
    BY <1>1, <1>2, <1>3, InPayload
  <1>5. PICK l \in Nat : l = Len(input) /\ l >= 1
    BY <1>4, Lengths
  <1>6. l < x /\ expected' = x - l
    BY <1>1, <1>2, <1>4, <1>5
  <1>7. /\ Len(buffered') = b + l /\ \A j \in 1..b : buffered'[j] = buffered[j]
        /\ \A j \in 1..l : buffered'[b + j] = input[j]
    <2>1. buffered \in Seq(Byte) /\ input \in Seq(Byte)
      BY DEF Inv, TypeOK
    <2>2. PICK f : f = buffered \o input
      OBVIOUS
    <2>3. /\ Len(f) = Len(buffered) + Len(input)
          /\ \A j \in 1..Len(buffered) : f[j] = buffered[j]
          /\ \A j \in 1..Len(input) : f[Len(buffered) + j] = input[j]
      BY <2>1, <2>2, BytesJoined, Zenon
    <2>4. buffered' = f
      BY <1>1, <2>2
    <2> QED
      BY <1>3, <1>5, <2>3, <2>4, Zenon
  <1>8. Laid(T, o)' /\ CutWell(T, o)' /\ DoneOf(o)' = DoneOf(o) + l
    <2>1. l \in 1..Len(input) /\ Len(input') = Len(input) - l
      BY <1>1, <1>5
    <2>2. \A j \in 1..Len(input) - l : input'[j] = input[l + j]
      BY <1>5
    <2> QED
      BY <1>1, <2>1, <2>2, GoesOn
  <1>9. InPlace(o)'
    <2>1. Len(delivered) + 1 \in 1..Len(sent)
      BY <1>1, MessageThere
    <2>2. \A k \in 1..Len(delivered) : delivered[k] = sent[k]
      BY DEF Follows, InPlace
    <2>3. ~(expected' = 0) /\ Len(buffered)' + expected' = Len(Awaited)
      BY <1>4, <1>6, <1>7
    <2>4. DoneOf(o)' = o[Len(delivered) + 1] + 3 + Len(buffered)'
      <3>1. PICK a \in Nat : a = o[Len(delivered) + 1]
        BY <2>1, FrameAt
      <3> QED
        BY <1>4, <1>7, <1>8, <3>1
    <2>5. \A j \in 1..Len(buffered)' : buffered'[j] = Awaited[j]
      <3> TAKE j \in 1..Len(buffered)'
      <3>1. CASE j <= b
        <4>1. j \in 1..b
          BY <3>1
        <4> QED
          BY <1>4, <1>7, <4>1
      <3>2. CASE j > b
        <4>1. j \in 1..b + l
          BY <1>7
        <4>2. j - b \in 1..l /\ j - b \in 1..x /\ b + (j - b) = j /\ j - b <= l
          BY <1>6, <3>2, <4>1
        <4>3. buffered'[b + (j - b)] = input[j - b]
          BY <1>7, <4>2
        <4>4. input[j - b] = Awaited[b + (j - b)]
          BY <1>4, <1>5, <4>2
        <4> QED
          BY <4>2, <4>3, <4>4
      <3> QED
        BY <3>1, <3>2
    <2>6. Len(delivered) + 1 <= Len(sent) /\ Len(delivered) + 1 <= Len(sent) + 1
      BY <2>1, Lengths
    <2>7. Awaited = sent[Len(delivered) + 1]
      BY DEF Awaited
    <2> QED
      BY <1>1, <2>2, <2>3, <2>4, <2>5, <2>6, <2>7, Zenon DEF InPlace
  <1> QED
    BY <1>8, <1>9 DEF Follows

LEMMA FinishFollows ==
    ASSUME Inv, NEW T, NEW o, Follows(T, o), FinishMessage
    PROVE  Follows(T, o)' /\ delivered' = Append(delivered, Awaited)
  <1>1. /\ input # <<>> /\ expected > 0 /\ expected <= Len(input) - 1
        /\ delivered' = Append(delivered, buffered \o SubSeq(input, 1, expected))
        /\ input' = From(input, expected + 2) /\ sent' = sent /\ stream' = stream
        /\ buffered' = <<>> /\ expected' = 0
    BY DEF FinishMessage, Expecting, Deliver
  <1>2. PICK x \in Nat : x = expected
    BY Lengths
  <1>3. PICK b \in Nat : b = Len(buffered)
    BY Lengths
  <1>4. /\ Awaited \in Seq(Byte) /\ Len(Awaited) = b + x
        /\ o[Len(delivered) + 2] = DoneOf(o) + x + 1
        /\ \A j \in 1..b : buffered[j] = Awaited[j]
        /\ \A j \in 1..x : j <= Len(input) => input[j] = Awaited[b + j]
    BY <1>1, <1>2, <1>3, InPayload
  <1>5. PICK l \in Nat : l = Len(input) /\ x + 1 <= l
    BY <1>1, <1>2, Lengths
  <1>6. buffered \in Seq(Byte) /\ input \in Seq(Byte)
    BY DEF Inv, TypeOK
  <1>7. buffered \o SubSeq(input, 1, x) = Awaited
    <2>1. PICK g : g = SubSeq(input, 1, x)
      OBVIOUS
    <2>2. g \in Seq(Byte) /\ Len(g) = x /\ \A j \in 1..x : g[j] = input[j]
      <3>1. x <= Len(input)
        BY <1>5
      <3> QED
        BY <1>6, <2>1, <3>1, PrefixBytes
    <2>3. PICK f : f = buffered \o g
      OBVIOUS
    <2>4. /\ f \in Seq(Byte) /\ Len(f) = Len(buffered) + Len(g)
          /\ \A j \in 1..Len(buffered) : f[j] = buffered[j]
          /\ \A j \in 1..Len(g) : f[Len(buffered) + j] = g[j]
      BY <1>6, <2>2, <2>3, BytesJoined, Zenon
    <2>5. /\ Len(f) = b + x /\ \A j \in 1..b : f[j] = buffered[j]
          /\ \A j \in 1..x : f[b + j] = g[j]
      BY <1>3, <2>2, <2>4, Zenon
    <2>6. ASSUME NEW j \in 1..b + x PROVE f[j] = Awaited[j]
      <3>1. CASE j <= b
        <4>1. j \in 1..b
          BY <3>1
        <4> QED
          BY <1>4, <2>5, <4>1
      <3>2. CASE j > b
        <4>1. j - b \in 1..x /\ b + (j - b) = j /\ j - b <= l
          BY <1>5, <3>2
        <4>2. f[b + (j - b)] = g[j - b]
          BY <2>5, <4>1
        <4>3. g[j - b] = Awaited[b + (j - b)]
          BY <1>4, <1>5, <2>2, <4>1
        <4> QED
          BY <4>1, <4>2, <4>3
      <3> QED
        BY <3>1, <3>2
    <2>7. Len(f) = Len(Awaited) /\ \A j \in 1..Len(f) : f[j] = Awaited[j]
      BY <1>4, <2>5, <2>6
    <2>8. f = Awaited
      BY <1>4, <2>4, <2>7, SeqEqual
    <2> QED
      BY <2>1, <2>3, <2>8
  <1>8. /\ Len(input') = l - (x + 1)
        /\ \A j \in 1..l - (x + 1) : input'[j] = input[x + 1 + j]
    <2>1. x + 2 \in 1..Len(input) + 1
      BY <1>5
    <2>2. PICK f : f = From(input, x + 2)
      OBVIOUS
    <2>3. /\ Len(f) = Len(input) - (x + 2) + 1
          /\ \A j \in 1..Len(input) - (x + 2) + 1 : f[j] = input[x + 2 - 1 + j]
      <3>1. PICK k : k = x + 2
        OBVIOUS
      <3>2. f = From(input, k) /\ k \in 1..Len(input) + 1
        BY <2>1, <2>2, <3>1
      <3>3. /\ Len(f) = Len(input) - k + 1
            /\ \A j \in 1..Len(input) - k + 1 : f[j] = input[k - 1 + j]
        BY <1>6, <3>2, FromEach, Zenon
      <3> QED
        BY <3>1, <3>3
    <2>4. Len(f) = l - (x + 1) /\ Len(input) - (x + 2) + 1 = l - (x + 1)
      BY <1>5, <2>3
    <2>5. x + 2 - 1 = x + 1
      OBVIOUS
    <2>6. input' = f
      BY <1>1, <1>2, <2>2
    <2> QED
      BY <2>3, <2>4, <2>5, <2>6
  <1>9. delivered' = Append(delivered, Awaited)
    BY <1>1, <1>2, <1>7
  <1>10. Laid(T, o)' /\ CutWell(T, o)' /\ DoneOf(o)' = DoneOf(o) + (x + 1)
    <2>1. x + 1 \in 1..Len(input)
      BY <1>5
    <2> QED
      BY <1>1, <1>5, <1>8, <2>1, GoesOn
  <1>11. InPlace(o)'
    <2>1. DoneOf(o)' = o[Len(delivered) + 2]
      BY <1>4, <1>10, Positions
    <2>2. Len(delivered) + 1 \in 1..Len(sent)
      BY <1>1, MessageThere
    <2> QED
      BY <1>1, <1>9, <2>1, <2>2, DeliveredInPlace
  <1> QED
    BY <1>9, <1>10, <1>11 DEF Follows

(* A reader that has kept its place never gives up on a message. *)
LEMMA NeverGivesUp ==
    ASSUME Inv, NEW T, NEW o, Follows(T, o)
    PROVE  ~(TooSmall \/ BadSize \/ NoEnd \/ Fragment \/ NotAMessage)
  <1>1. ASSUME input # <<>>, expected = 0
        PROVE  ~(TooSmall \/ BadSize \/ NoEnd \/ NotAMessage)
    <2>1. PICK n \in Nat : n = Len(Awaited) /\ n <= BufferSize
      BY <1>1, AtHeader, FramingAssumption
    <2>2. /\ Len(input) >= 4 /\ input[1] = Hash /\ Count = n
          /\ n + 4 <= Len(input) => input[n + 4] = At
      BY <1>1, <2>1, AtHeader
    <2>3. PICK l \in Nat : l = Len(input) /\ l >= 4
      BY <2>2, Lengths
    <2>4. ~TooSmall
      BY <2>3 DEF TooSmall
    <2>5. ~BadSize
      BY <2>1, <2>2, FramingAssumption DEF BadSize
    <2>6. ~NotAMessage
      BY <2>2 DEF NotAMessage
    <2>7. ~NoEnd
      <3> SUFFICES ASSUME NoEnd PROVE FALSE
        OBVIOUS
      <3>1. Count <= Len(Body) - 1 /\ Body[Count + 1] # At
        BY DEF NoEnd
      <3>2. input \in Seq(Byte)
        BY DEF Inv, TypeOK
      <3>3. PICK B : B = Body
        OBVIOUS
      <3>4. Len(B) = l - 4 + 1 /\ \A j \in 1..l - 4 + 1 : B[j] = input[4 - 1 + j]
        <4>1. 4 \in 1..Len(input) + 1
          BY <2>3
        <4>2. /\ Len(B) = Len(input) - 4 + 1
              /\ \A j \in 1..Len(input) - 4 + 1 : B[j] = input[4 - 1 + j]
          BY <3>2, <3>3, <4>1, FromEach, Zenon DEF Body
        <4> QED
          BY <2>3, <4>2
      <3>5. n + 1 \in 1..l - 4 + 1 /\ 4 - 1 + (n + 1) = n + 4 /\ n + 4 <= l
        BY <2>2, <3>1, <3>3, <3>4
      <3>6. B[n + 1] = input[n + 4]
        BY <3>4, <3>5
      <3> QED
        BY <2>2, <2>3, <3>1, <3>3, <3>5, <3>6
    <2> QED
      BY <2>4, <2>5, <2>6, <2>7
  <1>2. ASSUME input # <<>>, expected > 0 PROVE ~Fragment
    <2>1. PICK x \in Nat : x = expected
      BY Lengths
    <2>2. x + 1 <= Len(input) => input[x + 1] = At
      BY <1>2, <2>1, InPayload
    <2>3. Fragment => x <= Len(input) - 1 /\ input[x + 1] # At
      BY <2>1 DEF Fragment, Expecting
    <2> QED
      BY <2>2, <2>3, Lengths
  <1>3. expected = 0 \/ expected > 0
    BY Lengths
  <1>4. TooSmall \/ BadSize \/ NoEnd \/ NotAMessage => input # <<>> /\ ~(expected > 0)
    BY Lengths DEF TooSmall, BadSize, NoEnd, NotAMessage, AtStart
  <1>5. Fragment => input # <<>> /\ expected > 0
    BY DEF Fragment, Expecting
  <1> QED
    BY <1>1, <1>2, <1>3, <1>4, <1>5

(* One step of the connection is one step of the channel or none. *)
LEMMA ChannelStep ==
    ASSUME Inv, NEW T, NEW o, Follows(T, o), [Next]_vars, clean'
    PROVE  (\E S, q : Follows(S, q)') /\ [Channel!Next]_(Channel!vars)
  <1>1. ASSUME NEW p \in Payloads, ClientDataSend(p)
        PROVE  (\E S, q : Follows(S, q)') /\ Channel!Write(p)
    <2>1. \E S, q : Follows(S, q)'
      BY <1>1, SendFollows
    <2>2. Channel!Write(p)
      BY <1>1 DEF ClientDataSend, Channel!Write
    <2> QED
      BY <2>1, <2>2
  <1>2. ASSUME NEW n \in 1..Len(stream), Read(n)
        PROVE  Follows(T, o)' /\ UNCHANGED <<sent, delivered>>
    BY <1>2, ReadFollows DEF Read
  <1>3. ~(TooSmall \/ BadSize \/ NoEnd \/ Fragment \/ NotAMessage)
    BY NeverGivesUp
  <1>4. CASE StartBuffering
    <2>1. UNCHANGED <<sent, delivered>>
      BY <1>4 DEF StartBuffering
    <2> QED
      BY <1>4, <2>1, StartFollows DEF Channel!vars
  <1>5. CASE ContinueBuffering
    <2>1. UNCHANGED <<sent, delivered>>
      BY <1>5 DEF ContinueBuffering
    <2> QED
      BY <1>5, <2>1, ContinueFollows DEF Channel!vars
  <1>6. ASSUME WholeMessage \/ FinishMessage PROVE Follows(T, o)' /\ Channel!Deliver
    <2>1. Follows(T, o)' /\ delivered' = Append(delivered, Awaited)
      BY <1>6, WholeFollows, FinishFollows
    <2>2. input # <<>> /\ sent' = sent
      BY <1>6 DEF WholeMessage, FinishMessage, AtStart, Expecting, Deliver
    <2>3. Len(delivered) < Len(sent)
      BY <2>2, MessageThere, Lengths
    <2> QED
      BY <2>1, <2>2, <2>3 DEF Channel!Deliver, Awaited
  <1>7. CASE UNCHANGED vars
    <2>1. Follows(T, o)'
      BY <1>7 DEF vars, Follows, Laid, CutWell, InPlace, End, ReadOf, DoneOf
    <2> QED
      BY <1>7, <2>1 DEF vars, Channel!vars
  <1>8. CASE \E p \in Payloads : ClientDataSend(p)
    BY <1>1, <1>8 DEF Channel!Next
  <1>9. CASE \E n \in 1..Len(stream) : Read(n)
    BY <1>2, <1>9 DEF Channel!vars
  <1>10. CASE WholeMessage \/ FinishMessage
    BY <1>6, <1>10 DEF Channel!Next
  <1> QED
    BY <1>3, <1>4, <1>5, <1>7, <1>8, <1>9, <1>10 DEF Next, Reader

LEMMA NextClean == CleanInv /\ [Next]_vars => CleanInv'
  <1> SUFFICES ASSUME CleanInv, [Next]_vars PROVE CleanInv'
    OBVIOUS
  <1>1. Inv'
    BY NextInv DEF CleanInv
  <1>2. clean' => clean
    BY DEF Next, Reader, ClientDataSend, Read, TooSmall, BadSize, StartBuffering,
           WholeMessage, NoEnd, ContinueBuffering, FinishMessage, Fragment,
           NotAMessage, Drop, DropReset, Deliver, vars
  <1>3. ASSUME clean' PROVE \E S, q : Follows(S, q)'
    <2>1. PICK T, o : Follows(T, o)
      BY <1>2, <1>3 DEF CleanInv
    <2> QED
      BY <1>3, <2>1, ChannelStep DEF CleanInv
  <1> QED
    BY <1>1, <1>3 DEF CleanInv

LEMMA CleanAlways == Spec => []CleanInv
  BY InitClean, NextClean, PTL DEF Spec

\* As long as the reads of PyConnectNetComm::processIncomingData end where it
\* copes, not inside a header or right after one and not between a payload and
\* its '@', clientDataSend and the reader together are a channel, whatever the
\* payloads, the size of a read and the number of reads a message takes: each
\* message is delivered once, whole and in the order of the writes.
THEOREM FramingImplementsChannel == Spec => ChannelImplemented
  <1>1. Init => Channel!Init
    BY DEF Init, Channel!Init
  <1>2. CleanInv /\ [Next]_vars => [clean' => [Channel!Next]_(Channel!vars)]_vars
    <2> SUFFICES ASSUME CleanInv, [Next]_vars, clean'
                 PROVE  [Channel!Next]_(Channel!vars)
      OBVIOUS
    <2>1. clean
      BY DEF Next, Reader, ClientDataSend, Read, TooSmall, BadSize, StartBuffering,
             WholeMessage, NoEnd, ContinueBuffering, FinishMessage, Fragment,
             NotAMessage, Drop, DropReset, Deliver, vars
    <2>2. PICK T, o : Follows(T, o)
      BY <2>1 DEF CleanInv
    <2> QED
      BY <2>2, ChannelStep DEF CleanInv
  <1> QED
    BY <1>1, <1>2, CleanAlways, PTL DEF Spec, ChannelImplemented

\* Under the same condition nothing is lost: when every byte that was written
\* has been read, every message has been delivered.
THEOREM CleanCutsLoseNothing == Spec => [](clean => NothingLost)
  <1>1. CleanInv => (clean => NothingLost)
    <2> SUFFICES ASSUME CleanInv, clean, stream = <<>>, input = <<>>
                 PROVE  delivered = sent
      BY DEF NothingLost
    <2>1. PICK T, o : Follows(T, o)
      BY DEF CleanInv
    <2>2. Inv
      BY DEF CleanInv
    <2>3. PICK n \in Nat : n = Len(sent)
      BY <2>2, Lengths
    <2>4. PICK d \in Nat : d = Len(delivered)
      BY <2>2, Lengths
    <2>5. Len(stream) = 0 /\ Len(input) = 0
      OBVIOUS
    <2>6. ReadOf(o) = End(o) /\ DoneOf(o) = End(o) /\ End(o) \in Nat
      BY <2>1, <2>2, <2>5, Positions
    <2>7. d + 1 <= n + 1 /\ \A k \in 1..d : delivered[k] = sent[k]
      BY <2>1, <2>3, <2>4 DEF Follows, InPlace
    <2>8. d = n
      <3> SUFFICES ASSUME d < n PROVE FALSE
        BY <2>7
      <3>1. PICK k \in 1..Len(sent) : k = d + 1
        BY <2>3
      <3>2. o[k] < End(o) /\ o[k] \in Nat
        <4>1. o[k] < End(o)
          BY <2>1 DEF Follows, Laid
        <4> QED
          BY <2>1, <2>2, <4>1, FrameAt
      <3>3. expected # 0
        BY <2>1, <2>4, <2>6, <3>1, <3>2 DEF Follows, InPlace
      <3>4. expected > 0
        BY <2>2, <3>3, Lengths
      <3>5. Len(sent[k]) = Len(buffered) + expected /\ End(o) = o[k] + 3 + Len(buffered)
        BY <2>1, <2>4, <2>6, <3>1, <3>4 DEF Follows, InPlace
      <3>6. /\ o[k + 1] = o[k] + Len(sent[k]) + 4 /\ k + 1 \in 1..n + 1
            /\ Len(buffered) \in Nat /\ expected \in Nat
        BY <2>1, <2>2, <2>3, FrameAt, Lengths
      <3>7. o[k + 1] > End(o)
        BY <3>2, <3>5, <3>6
      <3>8. CASE k + 1 = n + 1
        BY <2>3, <2>6, <3>7, <3>8 DEF End
      <3>9. CASE k + 1 \in 1..n
        <4>1. o[k + 1] < End(o)
          BY <2>1, <2>3, <3>9 DEF Follows, Laid
        <4>2. o[k + 1] \in Nat
          BY <2>1, <2>2, <2>3, <3>9, FrameAt
        <4> QED
          BY <2>6, <3>7, <4>1, <4>2
      <3>10. k + 1 = n + 1 \/ k + 1 \in 1..n
        BY <3>6
      <3> QED
        BY <3>8, <3>9, <3>10
    <2>9. delivered \in Seq(Seq(Byte)) /\ sent \in Seq(Seq(Byte))
      <3>1. delivered \in Seq(Seq(Byte)) /\ sent \in Seq(Payloads)
        BY <2>2 DEF Inv, TypeOK
      <3>2. Payloads \subseteq Seq(Byte)
        BY FramingAssumption
      <3> QED
        BY <3>1, <3>2
    <2> QED
      BY <2>3, <2>4, <2>7, <2>8, <2>9, SeqEqual
  <1> QED
    BY <1>1, CleanAlways, PTL
=============================================================================
