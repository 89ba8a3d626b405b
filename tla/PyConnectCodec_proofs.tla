------------------------ MODULE PyConnectCodec_proofs ------------------------
(***************************************************************************)
(* Numbers survive the wire, a message fills exactly the bytes that were   *)
(* allocated for it, and it is read back as it was packed, for every list  *)
(* of fields.                                                              *)
(***************************************************************************)
EXTENDS PyConnectCodec, SequenceTheorems, TLAPS

(* The low seven bits and the rest of a number of at most fifteen bits. *)
LEMMA SevenBits ==
    ASSUME NEW n \in Nat, n <= 32767
    PROVE  /\ n % 128 \in Nat /\ n % 128 <= 127
           /\ n \div 128 \in Nat /\ n \div 128 <= 255
           /\ n = 128 * (n \div 128) + (n % 128)
           /\ (n \div 128) % 256 = n \div 128
  <1>1. n % 128 \in Nat /\ n % 128 <= 127
    OBVIOUS
  <1>2. n \div 128 \in Int /\ n = 128 * (n \div 128) + (n % 128)
    OBVIOUS
  <1>3. n \div 128 \in Nat /\ n \div 128 <= 255
    BY <1>1, <1>2
  <1>4. \A d \in Nat : d <= 255 => d % 256 = d
    OBVIOUS
  <1> QED
    BY <1>1, <1>2, <1>3, <1>4

(* What packIntToStr writes: one byte, or the low seven bits with the top bit *)
(* set and the eight bits above them.                                        *)
LEMMA OneByte ==
    ASSUME NEW n \in Nat, n <= 127
    PROVE  packIntToStr(n) = <<n>> /\ packedIntLen(n) = 1
  BY DEF packIntToStr, packedIntLen

LEMMA TwoBytes ==
    ASSUME NEW n \in Nat, n <= 32767, n > 127
    PROVE  /\ packIntToStr(n) = <<(n % 128) + 128, (n \div 128) % 256>>
           /\ packedIntLen(n) = 2
  <1>1. ~(n >= 0 /\ n < 128) /\ ~(n < 0 \/ n >= 32768)
    OBVIOUS
  <1>2. n >= 128 /\ n < 32768
    OBVIOUS
  <1> QED
    BY <1>1, <1>2 DEF packIntToStr, packedIntLen

(* packIntToStr writes as many bytes as packedIntLen says. *)
LEMMA PackIntLength ==
    ASSUME NEW n \in Nat, n <= MAX_STR_LENGTH
    PROVE  /\ packIntToStr(n) \in Seq(Byte)
           /\ Len(packIntToStr(n)) = packedIntLen(n)
           /\ packedIntLen(n) \in Nat
  <1>0. n <= 32767
    BY DEF MAX_STR_LENGTH
  <1>1. CASE n <= 127
    <2>1. n \in Byte
      BY <1>1 DEF Byte
    <2>2. packIntToStr(n) = <<n>> /\ packedIntLen(n) = 1
      BY <1>1, OneByte
    <2> QED
      BY <2>1, <2>2
  <1>2. CASE n > 127
    <2> DEFINE lo == (n % 128) + 128
               hi == (n \div 128) % 256
    <2>1. lo \in Byte /\ hi \in Byte
      BY <1>0, SevenBits DEF Byte
    <2>2. packIntToStr(n) = <<lo, hi>> /\ packedIntLen(n) = 2
      BY <1>0, <1>2, TwoBytes
    <2> HIDE DEF lo, hi
    <2> QED
      BY <2>1, <2>2
  <1> QED
    BY <1>1, <1>2

\* unpackStrToInt gives back the number packIntToStr wrote, and steps over just
\* the bytes it wrote, wherever in a message and whatever follows.
THEOREM IntRoundTrip ==
    ASSUME NEW n \in Nat, n <= MAX_STR_LENGTH,
           NEW buf \in Seq(Byte), NEW k \in Nat, k >= 1,
           \A j \in 1..packedIntLen(n) : buf[k + j - 1] = packIntToStr(n)[j]
    PROVE  /\ unpackStrToInt(buf, k).num = n
           /\ unpackStrToInt(buf, k).next = k + packedIntLen(n)
           /\ unpackStrToInt(buf, k).used = packedIntLen(n)
  <1>0. n <= 32767
    BY DEF MAX_STR_LENGTH
  <1>1. CASE n <= 127
    <2>1. packIntToStr(n) = <<n>> /\ packedIntLen(n) = 1
      BY <1>1, OneByte
    <2>2. buf[k] = n
      BY <2>1
    <2>3. ~(buf[k] >= 128)
      BY <1>1, <2>2
    <2> QED
      BY <2>1, <2>2, <2>3 DEF unpackStrToInt
  <1>2. CASE n > 127
    <2> DEFINE lo == (n % 128) + 128
               hi == (n \div 128) % 256
    <2>1. packIntToStr(n) = <<lo, hi>> /\ packedIntLen(n) = 2
      BY <1>0, <1>2, TwoBytes
    <2>2. lo \in Nat /\ hi \in Nat /\ lo >= 128 /\ hi * 128 + (lo - 128) = n
      BY <1>0, SevenBits
    <2> HIDE DEF lo, hi
    <2>3. buf[k] = lo /\ buf[k + 1] = hi
      BY <2>1
    <2> QED
      BY <2>1, <2>2, <2>3 DEF unpackStrToInt
  <1> QED
    BY <1>1, <1>2

(* A head and a string, one after the other. *)
LEMMA Joined ==
    ASSUME NEW a \in Seq(Byte), NEW b \in Seq(Byte)
    PROVE  a \o b \in Seq(Byte) /\ Len(a \o b) = Len(a) + Len(b)
  OBVIOUS

(* The length byte of a string. *)
LEMMA LengthByte ==
    ASSUME NEW n \in Nat
    PROVE  <<n % 256>> \in Seq(Byte) /\ Len(<<n % 256>>) = 1
  <1>1. n % 256 \in Nat /\ n % 256 <= 255
    OBVIOUS
  <1>2. n % 256 \in Byte
    BY <1>1 DEF Byte
  <1> QED
    BY <1>2

(* A sequence over a set is one over any larger set. *)
LEMMA WiderSeq ==
    ASSUME NEW S, NEW T, S \subseteq T, NEW seq \in Seq(S)
    PROVE  seq \in Seq(T) /\ Len(seq) \in Nat
  OBVIOUS

(* What CodecAssumption says of one number and of one string. *)
LEMMA NumberBound ==
    ASSUME NEW n \in Ints
    PROVE  n \in Nat /\ n <= MAX_STR_LENGTH
  BY CodecAssumption

LEMMA StringBytes ==
    ASSUME NEW str \in Strings
    PROVE  str \in Seq(Byte) /\ Len(str) \in Nat /\ Len(str) <= MAX_STR_LENGTH
  <1>1. str \in Seq(1..255) /\ Len(str) <= MAX_STR_LENGTH
    BY CodecAssumption, Zenon
  <1>2. 1..255 \subseteq Byte
    BY DEF Byte
  <1>3. str \in Seq(Byte) /\ Len(str) \in Nat
    BY <1>1, <1>2, WiderSeq
  <1> QED
    BY <1>1, <1>3, Zenon

(* A field fills the bytes that were counted for it. *)
LEMMA FieldLength ==
    ASSUME NEW f \in Field
    PROVE  Packed(f) \in Seq(Byte) /\ Len(Packed(f)) = SizeOf(f)
  <1>1. CASE f.kind = "int"
    <2>1. f.num \in Ints
      BY <1>1 DEF Field
    <2>2. f.num \in Nat /\ f.num <= MAX_STR_LENGTH
      BY <2>1, NumberBound
    <2> QED
      BY <1>1, <2>2, PackIntLength DEF Packed, SizeOf
  <1>2. CASE f.kind # "int"
    <2> DEFINE n == Len(f.str)
               head == IF f.kind = "ext" THEN packIntToStr(n) ELSE <<n % 256>>
    <2>1. f.kind \in {"ext", "str"} /\ f.str \in Strings
      BY <1>2 DEF Field
    <2>2. f.str \in Seq(Byte) /\ n \in Nat /\ n <= MAX_STR_LENGTH
      BY <2>1, StringBytes
    <2>3. Packed(f) = head \o f.str
      BY <1>2, <2>1 DEF Packed, packString
    <2>4. CASE f.kind = "ext"
      <3>1. head \in Seq(Byte) /\ Len(head) = packedIntLen(n)
        BY <2>2, <2>4, PackIntLength
      <3>2. SizeOf(f) = packedIntLen(n) + n
        BY <2>4 DEF SizeOf
      <3> HIDE DEF head
      <3>3. /\ head \o f.str \in Seq(Byte)
            /\ Len(head \o f.str) = Len(head) + n
        BY <2>2, <3>1, Joined, Zenon
      <3> QED
        BY <2>3, <3>1, <3>2, <3>3, Zenon
    <2>5. CASE f.kind = "str"
      <3>1. head \in Seq(Byte) /\ Len(head) = 1
        <4>1. head = <<n % 256>>
          BY <2>5
        <4>2. <<n % 256>> \in Seq(Byte) /\ Len(<<n % 256>>) = 1
          BY <2>2, LengthByte
        <4> QED
          BY <4>1, <4>2
      <3>2. SizeOf(f) = 1 + n
        BY <2>5 DEF SizeOf
      <3> HIDE DEF head
      <3>3. /\ head \o f.str \in Seq(Byte)
            /\ Len(head \o f.str) = Len(head) + n
        BY <2>2, <3>1, Joined, Zenon
      <3> QED
        BY <2>3, <3>1, <3>2, <3>3, Zenon
    <2> QED
      BY <2>1, <2>4, <2>5
  <1> QED
    BY <1>1, <1>2

(* The buffer and the size computed for it grow together. *)
BufferInv == buffer \in Seq(Byte) /\ BufferExact

\* The sender fills exactly the bytes it allocated, whatever it packs: the
\* sizes that declareModuleAttrMetd and declareModuleAttrMetdDesc add up are
\* the bytes packIntToStr and packString write.
THEOREM BufferIsExact == Spec => []BufferExact
  <1>1. Init => BufferInv
    BY DEF Init, BufferInv, BufferExact
  <1>2. BufferInv /\ [Next]_vars => BufferInv'
    <2> SUFFICES ASSUME BufferInv, [Next]_vars
                 PROVE  BufferInv'
      OBVIOUS
    <2>1. CASE \E f \in Field : Pack(f)
      <3>1. PICK f \in Field : Pack(f)
        BY <2>1
      <3>2. buffer' = buffer \o Packed(f) /\ allocated' = allocated + SizeOf(f)
        BY <3>1 DEF Pack
      <3>3. Packed(f) \in Seq(Byte) /\ Len(Packed(f)) = SizeOf(f)
        BY FieldLength
      <3> QED
        BY <3>2, <3>3 DEF BufferInv, BufferExact
    <2>2. CASE Send \/ Unpack \/ UNCHANGED vars
      BY <2>2 DEF Send, Unpack, vars, BufferInv, BufferExact
    <2> QED
      BY <2>1, <2>2 DEF Next
  <1> QED
    BY <1>1, <1>2, PTL DEF Spec, BufferInv

-----------------------------------------------------------------------------
(* What was packed is what is unpacked.                                    *)

(* What a field is, by its kind. *)
LEMMA FieldShape ==
    ASSUME NEW f \in Field
    PROVE  /\ f.kind \in {"int", "ext", "str"}
           /\ f.kind = "int" =>
                 /\ f = [kind |-> "int", num |-> f.num, str |-> <<>>]
                 /\ f.num \in Nat /\ f.num <= MAX_STR_LENGTH
           /\ f.kind # "int" =>
                 /\ f = [kind |-> f.kind, num |-> 0, str |-> f.str]
                 /\ f.str \in Seq(Byte) /\ Len(f.str) \in Nat /\ Len(f.str) <= MAX_STR_LENGTH
           /\ f.kind = "str" => Len(f.str) <= 255
  <1>1. CASE f \in [kind : {"int"}, num : Ints, str : {<<>>}]
    <2>1. f.kind = "int" /\ f.num \in Ints /\ f.str = <<>>
      BY <1>1
    <2>2. f = [kind |-> "int", num |-> f.num, str |-> <<>>]
      BY <1>1
    <2>3. f.num \in Nat /\ f.num <= MAX_STR_LENGTH
      BY <2>1, NumberBound
    <2> QED
      BY <2>1, <2>2, <2>3
  <1>2. CASE f \in [kind : {"ext"}, num : {0}, str : Strings]
    <2>1. f.kind = "ext" /\ f.str \in Strings
      BY <1>2
    <2>2. f = [kind |-> f.kind, num |-> 0, str |-> f.str]
      BY <1>2
    <2>3. f.str \in Seq(Byte) /\ Len(f.str) \in Nat /\ Len(f.str) <= MAX_STR_LENGTH
      BY <2>1, StringBytes
    <2> QED
      BY <2>1, <2>2, <2>3
  <1>3. CASE f \in [kind : {"str"}, num : {0}, str : {s \in Strings : Len(s) <= 255}]
    <2>1. f.kind = "str" /\ f.str \in Strings /\ Len(f.str) <= 255
      BY <1>3
    <2>2. f = [kind |-> f.kind, num |-> 0, str |-> f.str]
      BY <1>3
    <2>3. f.str \in Seq(Byte) /\ Len(f.str) \in Nat /\ Len(f.str) <= MAX_STR_LENGTH
      BY <2>1, StringBytes
    <2> QED
      BY <2>1, <2>2, <2>3
  <1> QED
    BY <1>1, <1>2, <1>3 DEF Field

(* The elements of a concatenation. *)
LEMMA JoinedElements ==
    \A a, b \in Seq(Byte) :
       /\ a \o b \in Seq(Byte) /\ Len(a \o b) = Len(a) + Len(b)
       /\ \A j \in 1..Len(a) : (a \o b)[j] = a[j]
       /\ \A j \in 1..Len(b) : (a \o b)[Len(a) + j] = b[j]
  <1>1. ASSUME NEW a \in Seq(Byte), NEW b \in Seq(Byte)
        PROVE  /\ a \o b \in Seq(Byte) /\ Len(a \o b) = Len(a) + Len(b)
               /\ \A j \in 1..Len(a) : (a \o b)[j] = a[j]
               /\ \A j \in 1..Len(b) : (a \o b)[Len(a) + j] = b[j]
    BY ConcatProperties
  <1> QED
    BY <1>1

(* A packed string: its length, packed or in a byte, and its bytes. *)
LengthOf(f) == IF f.kind = "ext" THEN packIntToStr(Len(f.str)) ELSE <<Len(f.str) % 256>>

LEMMA StringPacked ==
    ASSUME NEW f \in Field, f.kind # "int"
    PROVE  /\ LengthOf(f) \in Seq(Byte) /\ SizeOf(f) = Len(LengthOf(f)) + Len(f.str)
           /\ f.kind = "ext" => Len(LengthOf(f)) = packedIntLen(Len(f.str))
           /\ f.kind = "str" => Len(LengthOf(f)) = 1 /\ LengthOf(f)[1] = Len(f.str)
           /\ \A j \in 1..Len(LengthOf(f)) : Packed(f)[j] = LengthOf(f)[j]
           /\ \A j \in 1..Len(f.str) : Packed(f)[Len(LengthOf(f)) + j] = f.str[j]
  <1>1. /\ f.kind \in {"ext", "str"} /\ f.str \in Seq(Byte) /\ Len(f.str) \in Nat
        /\ Len(f.str) <= MAX_STR_LENGTH
        /\ f.kind = "str" => Len(f.str) <= 255
    BY FieldShape
  <1>2. PICK n \in Nat : n = Len(f.str)
    BY <1>1
  <1>0. n <= MAX_STR_LENGTH /\ (f.kind = "str" => n <= 255)
    <2>1. Len(f.str) <= MAX_STR_LENGTH /\ (f.kind = "str" => Len(f.str) <= 255)
      BY <1>1
    <2> QED
      BY <1>2, <2>1
  <1>3. PICK h : h = LengthOf(f)
    OBVIOUS
  <1>4. ASSUME f.kind = "ext"
        PROVE  /\ h = packIntToStr(n) /\ h \in Seq(Byte)
               /\ Len(h) = packedIntLen(n) /\ SizeOf(f) = Len(h) + n
    <2>0. LengthOf(f) = packIntToStr(Len(f.str))
      BY <1>4, Zenon DEF LengthOf
    <2>1. h = packIntToStr(n) /\ n <= MAX_STR_LENGTH
      <3>1. h = packIntToStr(n)
        BY <1>2, <1>3, <2>0, Zenon
      <3> QED
        BY <1>0, <3>1, Zenon
    <2>2. h \in Seq(Byte) /\ Len(h) = packedIntLen(n)
      BY <2>1, PackIntLength
    <2>3. SizeOf(f) = Len(h) + n
      BY <1>2, <1>4, <2>2 DEF SizeOf
    <2> QED
      BY <2>1, <2>2, <2>3
  <1>5. ASSUME f.kind = "str"
        PROVE  /\ h = <<n % 256>> /\ h \in Seq(Byte)
               /\ Len(h) = 1 /\ h[1] = n /\ SizeOf(f) = 1 + n
    <2>0. LengthOf(f) = <<Len(f.str) % 256>>
      BY <1>5 DEF LengthOf
    <2>1. h = <<n % 256>> /\ n <= 255
      <3>1. h = <<n % 256>>
        BY <1>2, <1>3, <2>0, Zenon
      <3>2. n <= 255
        BY <1>0, <1>5
      <3> QED
        BY <3>1, <3>2, Zenon
    <2>2. h \in Seq(Byte) /\ Len(h) = 1
      BY <2>1, LengthByte
    <2>3. h[1] = n
      <3>1. n % 256 = n
        BY <2>1
      <3> QED
        BY <2>1, <3>1
    <2>4. SizeOf(f) = 1 + n
      BY <1>2, <1>5 DEF SizeOf
    <2> QED
      BY <2>1, <2>2, <2>3, <2>4
  <1>6. /\ h \in Seq(Byte) /\ SizeOf(f) = Len(h) + n
        /\ f.kind = "ext" => Len(h) = packedIntLen(n)
        /\ f.kind = "str" => Len(h) = 1 /\ h[1] = n
    <2>1. CASE f.kind = "ext"
      <3>1. f.kind # "str"
        BY <2>1
      <3> QED
        BY <1>4, <2>1, <3>1
    <2>2. CASE f.kind = "str"
      <3>1. f.kind # "ext"
        BY <2>2
      <3> QED
        BY <1>5, <2>2, <3>1
    <2> QED
      BY <1>1, <2>1, <2>2
  <1>7. Packed(f) = h \o f.str
    <2>1. Packed(f) = packString(f.str, f.kind = "ext")
      BY Zenon DEF Packed
    <2>2. packString(f.str, f.kind = "ext") = LengthOf(f) \o f.str
      BY Zenon DEF packString, LengthOf
    <2> QED
      BY <1>3, <2>1, <2>2, Zenon
  <1>8. /\ \A j \in 1..Len(h) : Packed(f)[j] = h[j]
        /\ \A j \in 1..Len(f.str) : Packed(f)[Len(h) + j] = f.str[j]
    <2>1. f.str \in Seq(Byte) /\ h \in Seq(Byte)
      BY <1>1, <1>6
    <2>2. /\ \A j \in 1..Len(h) : (h \o f.str)[j] = h[j]
          /\ \A j \in 1..Len(f.str) : (h \o f.str)[Len(h) + j] = f.str[j]
      BY <2>1, JoinedElements, Zenon
    <2> QED
      BY <1>7, <2>2, Zenon
  <1> QED
    BY <1>2, <1>3, <1>6, <1>8

(* The same of IntRoundTrip, for any position at once. *)
LEMMA NumberAnywhere ==
    \A n, k \in Nat : \A buf \in Seq(Byte) :
       /\ n <= MAX_STR_LENGTH /\ k >= 1
       /\ \A j \in 1..packedIntLen(n) : buf[k + j - 1] = packIntToStr(n)[j]
       => /\ unpackStrToInt(buf, k).num = n
          /\ unpackStrToInt(buf, k).next = k + packedIntLen(n)
          /\ unpackStrToInt(buf, k).used = packedIntLen(n)
  <1>1. ASSUME NEW n \in Nat, NEW k \in Nat, NEW buf \in Seq(Byte),
               n <= MAX_STR_LENGTH, k >= 1,
               \A j \in 1..packedIntLen(n) : buf[k + j - 1] = packIntToStr(n)[j]
        PROVE  /\ unpackStrToInt(buf, k).num = n
               /\ unpackStrToInt(buf, k).next = k + packedIntLen(n)
               /\ unpackStrToInt(buf, k).used = packedIntLen(n)
    BY <1>1, IntRoundTrip, Zenon
  <1> QED
    BY <1>1, Zenon

(* A number is unpacked, and as many bytes are counted as it has. *)
LEMMA NumberRead ==
    ASSUME NEW f \in Field, f.kind = "int", NEW buf \in Seq(Byte), NEW a \in Nat,
           \A j \in 1..SizeOf(f) : buf[a + j] = Packed(f)[j]
    PROVE  /\ unpackStrToInt(buf, a + 1).num = f.num
           /\ unpackStrToInt(buf, a + 1).next = a + 1 + SizeOf(f)
           /\ unpackStrToInt(buf, a + 1).used = SizeOf(f)
  <1>1. PICK n \in Nat : n = f.num /\ n <= MAX_STR_LENGTH
    BY FieldShape
  <1>2. SizeOf(f) = packedIntLen(n) /\ Packed(f) = packIntToStr(n)
    BY <1>1 DEF SizeOf, Packed
  <1>3. \A j \in 1..packedIntLen(n) : buf[(a + 1) + j - 1] = packIntToStr(n)[j]
    <2>1. \A j \in 1..packedIntLen(n) : buf[a + j] = packIntToStr(n)[j]
      BY <1>2, Zenon
    <2>2. \A j \in 1..packedIntLen(n) : (a + 1) + j - 1 = a + j
      OBVIOUS
    <2> QED
      BY <2>1, <2>2
  <1>4. PICK k \in Nat : k = a + 1 /\ k >= 1
    OBVIOUS
  <1>5. /\ unpackStrToInt(buf, k).num = n
        /\ unpackStrToInt(buf, k).next = k + packedIntLen(n)
        /\ unpackStrToInt(buf, k).used = packedIntLen(n)
    <2>1. \A j \in 1..packedIntLen(n) : buf[k + j - 1] = packIntToStr(n)[j]
      BY <1>3, <1>4, Zenon
    <2>2. n <= MAX_STR_LENGTH /\ k >= 1
      BY <1>1, <1>4
    <2> QED
      BY <2>1, <2>2, NumberAnywhere, Zenon
  <1> QED
    BY <1>1, <1>2, <1>4, <1>5

(* A string is unpacked, and all its bytes but a length byte are counted. *)
LEMMA StringRead ==
    ASSUME NEW f \in Field, f.kind # "int", NEW buf \in Seq(Byte), NEW a \in Nat,
           a + SizeOf(f) <= Len(buf),
           \A j \in 1..SizeOf(f) : buf[a + j] = Packed(f)[j]
    PROVE  LET u == unpackString(buf, a + 1, f.kind = "ext")
           IN /\ u.str = f.str /\ u.next = a + 1 + SizeOf(f)
              /\ f.kind = "ext" => u.used = SizeOf(f)
              /\ f.kind = "str" => u.used = SizeOf(f) - 1
  <1>1. /\ f.kind \in {"ext", "str"} /\ f.str \in Seq(Byte)
        /\ f.kind = "str" => Len(f.str) <= 255
    BY FieldShape
  <1>2. PICK n \in Nat : n = Len(f.str) /\ n <= MAX_STR_LENGTH
    BY FieldShape
  <1>3. PICK h \in Nat : h = Len(LengthOf(f))
    BY StringPacked
  <1>4. PICK s \in Nat : s = SizeOf(f) /\ s = h + n
    BY <1>2, <1>3, StringPacked
  <1>5. /\ \A j \in 1..h : buf[a + j] = LengthOf(f)[j]
        /\ \A j \in 1..n : buf[a + h + j] = f.str[j]
    <2>1. ASSUME NEW j \in 1..h PROVE buf[a + j] = LengthOf(f)[j]
      <3>1. j \in 1..SizeOf(f)
        BY <1>4
      <3>2. Packed(f)[j] = LengthOf(f)[j]
        BY <1>3, StringPacked
      <3> QED
        BY <3>1, <3>2
    <2>2. ASSUME NEW j \in 1..n PROVE buf[a + h + j] = f.str[j]
      <3>1. h + j \in 1..SizeOf(f) /\ a + (h + j) = a + h + j
        BY <1>4
      <3>2. Packed(f)[h + j] = f.str[j]
        BY <1>2, <1>3, StringPacked
      <3> QED
        BY <3>1, <3>2
    <2> QED
      BY <2>1, <2>2
  <1>6. PICK l : l = StringLength(buf, a + 1, f.kind = "ext")
    OBVIOUS
  <1>7. /\ l.num = n /\ l.next = a + 1 + h
        /\ f.kind = "ext" => l.used = h
        /\ f.kind = "str" => h = 1 /\ l.used = 0
    <2>1. CASE f.kind = "ext"
      <3>1. h = packedIntLen(n) /\ LengthOf(f) = packIntToStr(n)
        <4>1. LengthOf(f) = packIntToStr(Len(f.str))
          BY <2>1, Zenon DEF LengthOf
        <4>2. Len(LengthOf(f)) = packedIntLen(Len(f.str))
          BY <2>1, StringPacked
        <4>3. Len(f.str) = n /\ Len(LengthOf(f)) = h
          BY <1>2, <1>3
        <4> QED
          BY <4>1, <4>2, <4>3, Zenon
      <3>2. l = unpackStrToInt(buf, a + 1)
        BY <1>6, <2>1 DEF StringLength
      <3>3. PICK k \in Nat : k = a + 1 /\ k >= 1
        OBVIOUS
      <3>4. \A j \in 1..packedIntLen(n) : buf[k + j - 1] = packIntToStr(n)[j]
        <4>1. \A j \in 1..packedIntLen(n) : buf[a + j] = packIntToStr(n)[j]
          BY <1>5, <3>1, Zenon
        <4>2. \A j \in 1..packedIntLen(n) : k + j - 1 = a + j
          BY <3>3
        <4> QED
          BY <4>1, <4>2
      <3>5. /\ unpackStrToInt(buf, k).num = n
            /\ unpackStrToInt(buf, k).next = k + packedIntLen(n)
            /\ unpackStrToInt(buf, k).used = packedIntLen(n)
        <4>1. n <= MAX_STR_LENGTH /\ k >= 1
          BY <1>2, <3>3
        <4> QED
          BY <3>4, <4>1, NumberAnywhere, Zenon
      <3>6. f.kind # "str"
        BY <2>1
      <3> QED
        BY <3>1, <3>2, <3>3, <3>5, <3>6
    <2>2. CASE f.kind = "str"
      <3>1. h = 1 /\ LengthOf(f)[1] = n
        BY <1>2, <1>3, <2>2, StringPacked
      <3>2. l = [num |-> buf[a + 1], next |-> a + 1 + 1, used |-> 0]
        BY <1>6, <2>2 DEF StringLength
      <3>3. buf[a + 1] = n
        BY <1>5, <3>1
      <3>4. f.kind # "ext"
        BY <2>2
      <3> QED
        BY <3>1, <3>2, <3>3, <3>4
    <2> QED
      BY <1>1, <2>1, <2>2
  <1>8. PICK i \in Nat : i = a + 1 + h
    OBVIOUS
  <1>9. SubSeq(buf, i, i + n - 1) = f.str
    <2>1. PICK g : g = SubSeq(buf, i, i + n - 1)
      OBVIOUS
    <2>2. ASSUME NEW j \in i..i + n - 1 PROVE buf[j] \in Byte
      <3>1. j \in 1..Len(buf)
        BY <1>4, <1>8
      <3> QED
        BY <3>1
    <2>3. i + n - 1 \in Int /\ i \in Int /\ (i + n - 1) - i + 1 = n
      OBVIOUS
    <2>4. /\ g \in Seq(Byte)
          /\ Len(g) = IF i <= i + n - 1 THEN (i + n - 1) - i + 1 ELSE 0
          /\ \A j \in 1..(i + n - 1) - i + 1 : g[j] = buf[i + j - 1]
      BY <2>1, <2>2, <2>3, SubSeqProperties
    <2>5. Len(g) = n
      <3>1. i <= i + n - 1 \/ n = 0
        OBVIOUS
      <3> QED
        BY <2>3, <2>4, <3>1
    <2>6. ASSUME NEW j \in 1..n PROVE g[j] = f.str[j]
      <3>1. j \in 1..(i + n - 1) - i + 1 /\ i + j - 1 = a + h + j
        BY <1>8, <2>3
      <3>2. g[j] = buf[i + j - 1]
        BY <2>4, <3>1
      <3> QED
        BY <1>5, <3>1, <3>2
    <2>7. Len(g) = Len(f.str) /\ \A j \in 1..Len(g) : g[j] = f.str[j]
      BY <1>2, <2>5, <2>6
    <2> QED
      BY <1>1, <2>1, <2>4, <2>7, SeqEqual
  <1>10. PICK u : u = unpackString(buf, a + 1, f.kind = "ext")
    OBVIOUS
  <1>11. u = [str  |-> SubSeq(buf, l.next, l.next + l.num - 1),
              next |-> l.next + l.num, used |-> l.used + l.num]
    BY <1>6, <1>10 DEF unpackString
  <1>12. /\ u.str = SubSeq(buf, l.next, l.next + l.num - 1)
         /\ u.next = l.next + l.num /\ u.used = l.used + l.num
    BY <1>11
  <1>13. u.str = f.str
    BY <1>7, <1>8, <1>9, <1>12
  <1>14. u.next = a + 1 + s
    BY <1>4, <1>7, <1>12
  <1>15. f.kind = "ext" => u.used = s
    BY <1>4, <1>7, <1>12
  <1>16. f.kind = "str" => u.used = s - 1
    BY <1>4, <1>7, <1>12
  <1> QED
    BY <1>4, <1>10, <1>13, <1>14, <1>15, <1>16

(* The bytes of a message, field by field: o[k] bytes come before field k.  *)
Pieces(fs, buf, o) ==
    /\ fs \in Seq(Field) /\ buf \in Seq(Byte) /\ o \in [Nat -> Nat]
    /\ o[1] = 0 /\ o[Len(fs) + 1] = Len(buf)
    /\ \A k \in 1..Len(fs) + 1 : o[k] <= Len(buf)
    /\ \A k \in 1..Len(fs) :
          /\ o[k + 1] = o[k] + SizeOf(fs[k])
          /\ \A j \in 1..SizeOf(fs[k]) : buf[o[k] + j] = Packed(fs[k])[j]

(* How many bytes a field fills. *)
LEMMA FieldSize ==
    \A f \in Field : /\ SizeOf(f) \in Nat /\ Packed(f) \in Seq(Byte)
                     /\ Len(Packed(f)) = SizeOf(f)
  <1>1. ASSUME NEW f \in Field
        PROVE  /\ SizeOf(f) \in Nat /\ Packed(f) \in Seq(Byte)
               /\ Len(Packed(f)) = SizeOf(f)
    <2>1. Packed(f) \in Seq(Byte) /\ Len(Packed(f)) = SizeOf(f)
      BY FieldLength
    <2>2. Len(Packed(f)) \in Nat
      BY <2>1
    <2> QED
      BY <2>1, <2>2, Zenon
  <1> QED
    BY <1>1

(* A field packed behind the others leaves them where they are. *)
LEMMA PiecesGrow ==
    ASSUME NEW fs, NEW buf, NEW o, Pieces(fs, buf, o), NEW f \in Field
    PROVE  \E p : Pieces(Append(fs, f), buf \o Packed(f), p)
  <1>0. fs \in Seq(Field) /\ buf \in Seq(Byte) /\ o \in [Nat -> Nat]
    BY DEF Pieces
  <1>1. PICK n \in Nat : n = Len(fs)
    BY <1>0
  <1>2. PICK m \in Nat : m = Len(buf)
    BY <1>0
  <1>3. PICK s \in Nat : s = SizeOf(f) /\ s = Len(Packed(f))
    BY FieldSize, Zenon
  <1>4. PICK c : c = buf \o Packed(f)
    OBVIOUS
  <1>5. PICK d : d = Append(fs, f)
    OBVIOUS
  <1>6. /\ c \in Seq(Byte) /\ Len(c) = m + s
        /\ \A i \in 1..m : c[i] = buf[i]
        /\ \A j \in 1..s : c[m + j] = Packed(f)[j]
    <2>1. Packed(f) \in Seq(Byte)
      BY FieldSize, Zenon
    <2>2. PICK e : e = Packed(f)
      OBVIOUS
    <2>3. e \in Seq(Byte) /\ buf \in Seq(Byte)
      BY <1>0, <2>1, <2>2
    <2>4. /\ buf \o e \in Seq(Byte) /\ Len(buf \o e) = Len(buf) + Len(e)
          /\ \A i \in 1..Len(buf) : (buf \o e)[i] = buf[i]
          /\ \A j \in 1..Len(e) : (buf \o e)[Len(buf) + j] = e[j]
      BY <2>3, JoinedElements, Zenon
    <2>5. Len(buf) = m /\ Len(e) = s /\ buf \o e = c
      BY <1>2, <1>3, <1>4, <2>2
    <2> QED
      BY <2>2, <2>4, <2>5, Zenon
  <1>7. /\ d \in Seq(Field) /\ Len(d) = n + 1 /\ d[n + 1] = f
        /\ \A k \in 1..n : d[k] = fs[k]
    BY <1>0, <1>1, <1>5
  <1>8. PICK p : p = [o EXCEPT ![n + 2] = m + s]
    OBVIOUS
  <1>9. /\ p \in [Nat -> Nat] /\ p[n + 2] = m + s
        /\ \A k \in Nat : k # n + 2 => p[k] = o[k]
    <2>1. PICK q \in Nat : q = n + 2
      OBVIOUS
    <2>2. PICK v \in Nat : v = m + s
      OBVIOUS
    <2>3. p = [o EXCEPT ![q] = v]
      BY <1>8, <2>1, <2>2
    <2>4. /\ p \in [Nat -> Nat] /\ p[q] = v
          /\ \A k \in Nat : k # q => p[k] = o[k]
      BY <1>0, <2>3
    <2> QED
      BY <2>1, <2>2, <2>4
  <1>10. /\ o[1] = 0 /\ o[n + 1] = m
         /\ \A k \in 1..n + 1 : o[k] <= m
         /\ \A k \in 1..n : /\ o[k + 1] = o[k] + SizeOf(fs[k])
                            /\ \A j \in 1..SizeOf(fs[k]) : buf[o[k] + j] = Packed(fs[k])[j]
    BY <1>1, <1>2, Zenon DEF Pieces
  <1>11. p[1] = 0 /\ p[n + 1 + 1] = m + s
    <2>1. n + 1 + 1 = n + 2 /\ 1 # n + 2
      OBVIOUS
    <2> QED
      BY <1>9, <1>10, <2>1
  <1>12. ASSUME NEW k \in 1..n + 1 + 1
         PROVE  p[k] <= m + s
    <2>1. CASE k = n + 2
      BY <1>9, <2>1
    <2>2. CASE k # n + 2
      <3>1. k \in 1..n + 1 /\ k \in Nat
        BY <2>2
      <3>2. p[k] = o[k] /\ o[k] <= m /\ o[k] \in Nat
        BY <1>0, <1>9, <1>10, <2>2, <3>1
      <3> QED
        BY <3>2
    <2> QED
      BY <2>1, <2>2
  <1>13. ASSUME NEW k \in 1..n + 1
         PROVE  /\ p[k + 1] = p[k] + SizeOf(d[k])
                /\ \A j \in 1..SizeOf(d[k]) : c[p[k] + j] = Packed(d[k])[j]
    <2>1. CASE k = n + 1
      <3>1. p[k + 1] = m + s /\ p[k] = m
        <4>1. k + 1 = n + 2 /\ k # n + 2 /\ k \in Nat
          BY <2>1
        <4> QED
          BY <1>9, <1>10, <2>1, <4>1
      <3>2. d[k] = f
        BY <1>7, <2>1
      <3> QED
        BY <1>3, <1>6, <3>1, <3>2, Zenon
    <2>2. CASE k \in 1..n
      <3>1. PICK t \in Nat : t = SizeOf(fs[k])
        <4>1. fs[k] \in Field
          BY <1>0, <1>1, <2>2
        <4> QED
          BY <4>1, FieldSize, Zenon
      <3>2. p[k + 1] = o[k + 1] /\ p[k] = o[k]
        <4>1. k + 1 # n + 2 /\ k # n + 2 /\ k \in Nat /\ k + 1 \in Nat
          BY <2>2
        <4> QED
          BY <1>9, <4>1, Zenon
      <3>3. PICK a \in Nat : a = o[k]
        BY <1>0, <2>2
      <3>4. d[k] = fs[k]
        BY <1>7, <2>2, Zenon
      <3>5. o[k + 1] = a + t /\ \A j \in 1..t : buf[a + j] = Packed(fs[k])[j]
        BY <1>10, <2>2, <3>1, <3>3, Zenon
      <3>6. a + t <= m
        <4>1. k + 1 \in 1..n + 1
          BY <2>2
        <4> QED
          BY <1>10, <3>5, <4>1, Zenon
      <3>7. ASSUME NEW j \in 1..t PROVE c[a + j] = Packed(fs[k])[j]
        <4>1. a + j \in 1..m
          BY <3>6
        <4> QED
          BY <1>6, <3>5, <4>1, Zenon
      <3> QED
        BY <3>1, <3>2, <3>3, <3>4, <3>5, <3>7, Zenon
    <2> QED
      BY <2>1, <2>2
  <1>14. Pieces(d, c, p)
    BY <1>6, <1>7, <1>9, <1>11, <1>12, <1>13, Zenon DEF Pieces
  <1> QED
    BY <1>4, <1>5, <1>14, Zenon

(* A field is where the lengths of those before it put it. *)
LEMMA PieceAt ==
    ASSUME NEW fs, NEW buf, NEW o, Pieces(fs, buf, o),
           NEW g \in Nat, g < Len(fs)
    PROVE  /\ fs[g + 1] \in Field /\ o[g + 1] \in Nat
           /\ o[g + 2] = o[g + 1] + SizeOf(fs[g + 1])
           /\ o[g + 1] + SizeOf(fs[g + 1]) <= Len(buf)
           /\ \A j \in 1..SizeOf(fs[g + 1]) : buf[o[g + 1] + j] = Packed(fs[g + 1])[j]
  <1>0. fs \in Seq(Field) /\ o \in [Nat -> Nat]
    BY DEF Pieces
  <1>1. PICK k \in Nat : k = g + 1
    OBVIOUS
  <1>2. k \in 1..Len(fs) /\ k + 1 \in 1..Len(fs) + 1 /\ k + 1 = g + 2
    <2>1. PICK n \in Nat : n = Len(fs)
      BY <1>0
    <2>2. k \in 1..n /\ k + 1 \in 1..n + 1 /\ k + 1 = g + 2
      BY <1>1, <2>1
    <2> QED
      BY <2>1, <2>2, Zenon
  <1>3. /\ o[k + 1] <= Len(buf) /\ o[k + 1] = o[k] + SizeOf(fs[k])
        /\ \A j \in 1..SizeOf(fs[k]) : buf[o[k] + j] = Packed(fs[k])[j]
    BY <1>2, Zenon DEF Pieces
  <1>4. fs[k] \in Field /\ o[k] \in Nat
    BY <1>0, <1>2
  <1> QED
    BY <1>1, <1>2, <1>3, <1>4, Zenon

(* How far the receiver is, and what it has read so far. *)
ReadSoFar(o) ==
    /\ Pieces(fields, buffer, o)
    /\ Len(got) <= Len(fields) /\ at = o[Len(got) + 1] + 1
    /\ \A k \in 1..Len(got) : got[k] = fields[k]

(* What holds between two steps: the buffer falls apart into the fields, the *)
(* receiver stands at the start of one, and it has been told enough.         *)
MessageInv ==
    /\ got \in Seq(Field) /\ sent \in BOOLEAN /\ remaining \in Int
    /\ ~sent => got = <<>>
    /\ \E o : ReadSoFar(o)
    /\ RemainingTold

(* What one Unpack reads: the next field, from its first byte to its last; a *)
(* length byte is all that may go uncounted.                                 *)
LEMMA UnpackReads ==
    ASSUME NEW o, ReadSoFar(o), got \in Seq(Field), Unpack
    PROVE  \E f \in Field : \E used \in Int :
              /\ f = fields[Len(got) + 1] /\ Len(got) < Len(fields)
              /\ at = o[Len(got) + 1] + 1 /\ o[Len(got) + 2] = o[Len(got) + 1] + SizeOf(f)
              /\ got' = Append(got, f) /\ at' = at + SizeOf(f)
              /\ remaining' = remaining - used /\ used <= SizeOf(f)
              /\ f.kind # "str" => used = SizeOf(f)
  <1>1. PICK g \in Nat : g = Len(got)
    OBVIOUS
  <1>2. Pieces(fields, buffer, o) /\ at = o[g + 1] + 1 /\ g < Len(fields)
    <2>1. Pieces(fields, buffer, o) /\ at = o[Len(got) + 1] + 1
      BY Zenon DEF ReadSoFar
    <2>2. Len(got) < Len(fields)
      BY Zenon DEF Unpack
    <2> QED
      BY <1>1, <2>1, <2>2, Zenon
  <1>3. PICK f : f = fields[g + 1]
    OBVIOUS
  <1>4. PICK a : a = o[g + 1]
    OBVIOUS
  <1>5. /\ f \in Field /\ a \in Nat /\ o[g + 2] = a + SizeOf(f)
        /\ a + SizeOf(f) <= Len(buffer)
        /\ \A j \in 1..SizeOf(f) : buffer[a + j] = Packed(f)[j]
    <2>1. Pieces(fields, buffer, o) /\ g < Len(fields)
      BY <1>2
    <2>2. /\ fields[g + 1] \in Field /\ o[g + 1] \in Nat
          /\ o[g + 2] = o[g + 1] + SizeOf(fields[g + 1])
          /\ o[g + 1] + SizeOf(fields[g + 1]) <= Len(buffer)
          /\ \A j \in 1..SizeOf(fields[g + 1]) :
                buffer[o[g + 1] + j] = Packed(fields[g + 1])[j]
      BY <2>1, PieceAt
    <2> QED
      BY <1>3, <1>4, <2>2, Zenon
  <1>6. buffer \in Seq(Byte)
    BY <1>2 DEF Pieces
  <1>7. PICK z \in Nat : z = SizeOf(f)
    BY <1>5, FieldSize, Zenon
  <1>8. at = a + 1
    BY <1>2, <1>4, Zenon
  <1>9. f.kind \in {"int", "ext", "str"}
    BY <1>5, FieldShape
  <1>10. ASSUME f.kind = "int"
         PROVE  /\ got' = Append(got, f) /\ at' = at + z
                /\ remaining' = remaining - z
    <2>1. PICK u : u = unpackStrToInt(buffer, at)
      OBVIOUS
    <2>2. u.num = f.num /\ u.next = at + z /\ u.used = z
      BY <1>5, <1>6, <1>7, <1>8, <1>10, <2>1, NumberRead, Zenon
    <2>3. /\ got' = Append(got, [kind |-> f.kind, num |-> u.num, str |-> <<>>])
          /\ at' = u.next /\ remaining' = remaining - u.used
      BY <1>1, <1>3, <1>10, <2>1, Zenon DEF Unpack
    <2>4. f = [kind |-> f.kind, num |-> f.num, str |-> <<>>]
      BY <1>5, <1>10, FieldShape
    <2> QED
      BY <2>2, <2>3, <2>4, Zenon
  <1>11. ASSUME f.kind # "int"
         PROVE  \E used \in Int :
                   /\ got' = Append(got, f) /\ at' = at + z
                   /\ remaining' = remaining - used /\ used <= z
                   /\ f.kind # "str" => used = z
    <2>1. PICK u : u = unpackString(buffer, at, f.kind = "ext")
      OBVIOUS
    <2>2. /\ u.str = f.str /\ u.next = at + z
          /\ f.kind = "ext" => u.used = z
          /\ f.kind = "str" => u.used = z - 1
      BY <1>5, <1>6, <1>7, <1>8, <1>11, <2>1, StringRead, Zenon
    <2>3. /\ got' = Append(got, [kind |-> f.kind, num |-> 0, str |-> u.str])
          /\ at' = u.next /\ remaining' = remaining - u.used
      BY <1>1, <1>3, <1>11, <2>1, Zenon DEF Unpack
    <2>4. f = [kind |-> f.kind, num |-> 0, str |-> f.str]
      BY <1>5, <1>11, FieldShape
    <2>5. u.used \in Int /\ u.used <= z /\ (f.kind # "str" => u.used = z)
      BY <1>9, <1>11, <2>2
    <2> QED
      BY <2>2, <2>3, <2>4, <2>5, Zenon
  <1>12. \E used \in Int :
            /\ got' = Append(got, f) /\ at' = at + z
            /\ remaining' = remaining - used /\ used <= z
            /\ f.kind # "str" => used = z
    <2>1. CASE f.kind = "int"
      <3>1. z \in Int /\ z <= z
        OBVIOUS
      <3> QED
        BY <1>10, <2>1, <3>1, Zenon
    <2>2. CASE f.kind # "int"
      BY <1>11, <2>2, Zenon
    <2> QED
      BY <2>1, <2>2
  <1> QED
    BY <1>1, <1>2, <1>3, <1>4, <1>5, <1>7, <1>12, Zenon

(* Nothing is there at first. *)
LEMMA MessageInit == Init => MessageInv
  <1> SUFFICES ASSUME Init PROVE MessageInv
    OBVIOUS
  <1>1. /\ fields = <<>> /\ buffer = <<>> /\ sent = FALSE /\ got = <<>>
        /\ at = 1 /\ remaining = 0
    BY DEF Init
  <1>2. PICK o : o = [k \in Nat |-> 0]
    OBVIOUS
  <1>3. ReadSoFar(o)
    BY <1>1, <1>2 DEF ReadSoFar, Pieces
  <1>4. RemainingTold
    BY <1>1 DEF RemainingTold
  <1>5. got \in Seq(Field) /\ sent \in BOOLEAN /\ remaining \in Int
    <2>1. got \in Seq(Field)
      BY <1>1
    <2>2. sent \in BOOLEAN
      BY <1>1
    <2>3. remaining \in Int
      BY <1>1
    <2> QED
      BY <2>1, <2>2, <2>3
  <1> QED
    BY <1>1, <1>3, <1>4, <1>5, Zenon DEF MessageInv

(* A field is packed while nothing has been read yet. *)
LEMMA MessagePacked ==
    ASSUME MessageInv, NEW f \in Field, Pack(f)
    PROVE  MessageInv'
  <1>1. /\ fields' = Append(fields, f) /\ buffer' = buffer \o Packed(f)
        /\ ~sent /\ sent' = sent /\ got' = got /\ at' = at /\ remaining' = remaining
    BY Zenon DEF Pack
  <1>2. got = <<>>
    BY <1>1, Zenon DEF MessageInv
  <1>3. PICK o : ReadSoFar(o)
    BY Zenon DEF MessageInv
  <1>4. Pieces(fields, buffer, o) /\ at = o[1] + 1
    BY <1>2, <1>3 DEF ReadSoFar
  <1>5. PICK p : Pieces(fields', buffer', p)
    BY <1>1, <1>4, PiecesGrow, Zenon
  <1>6. o[1] = 0 /\ p[1] = 0 /\ fields' \in Seq(Field)
    BY <1>4, <1>5, Zenon DEF Pieces
  <1>7. ReadSoFar(p)'
    <2>1. Len(got') = 0 /\ 0 <= Len(fields') /\ at' = p[0 + 1] + 1
      BY <1>1, <1>2, <1>4, <1>6
    <2>2. \A k \in 1..Len(got') : got'[k] = fields'[k]
      BY <2>1
    <2> QED
      BY <1>5, <2>1, <2>2, Zenon DEF ReadSoFar
  <1>8. RemainingTold'
    BY <1>1, Zenon DEF RemainingTold
  <1> QED
    BY <1>1, <1>2, <1>7, <1>8, Zenon DEF MessageInv

(* Sending tells the receiver how long the message is. *)
LEMMA MessageSent ==
    ASSUME MessageInv, Send
    PROVE  MessageInv'
  <1>1. /\ ~sent /\ sent' = TRUE /\ remaining' = Len(buffer)
        /\ fields' = fields /\ buffer' = buffer /\ got' = got /\ at' = at
    BY Zenon DEF Send
  <1>2. got = <<>>
    BY <1>1, Zenon DEF MessageInv
  <1>3. PICK o : ReadSoFar(o)
    BY Zenon DEF MessageInv
  <1>4. ReadSoFar(o)'
    BY <1>1, <1>3, Zenon DEF ReadSoFar
  <1>5. at = 1 /\ buffer \in Seq(Byte)
    <2>1. /\ at = o[Len(got) + 1] + 1 /\ o[1] = 0 /\ buffer \in Seq(Byte)
      BY <1>3, Zenon DEF ReadSoFar, Pieces
    <2> QED
      BY <1>2, <2>1
  <1>6. Len(buffer) \in Int /\ Len(buffer) - at + 1 = Len(buffer)
    BY <1>5
  <1>7. RemainingTold'
    BY <1>1, <1>6 DEF RemainingTold
  <1>8. got' \in Seq(Field) /\ sent' \in BOOLEAN /\ remaining' \in Int
    BY <1>1, <1>6 DEF MessageInv
  <1> QED
    BY <1>1, <1>4, <1>7, <1>8, Zenon DEF MessageInv

(* Reading one field leaves the receiver at the next. *)
LEMMA MessageUnpacked ==
    ASSUME MessageInv, Unpack
    PROVE  MessageInv'
  <1>1. /\ sent /\ sent' = sent /\ fields' = fields /\ buffer' = buffer
    BY Zenon DEF Unpack
  <1>2. got \in Seq(Field) /\ remaining \in Int
    BY Zenon DEF MessageInv
  <1>3. PICK o : ReadSoFar(o)
    BY Zenon DEF MessageInv
  <1>4. PICK g \in Nat : g = Len(got)
    BY <1>2
  <1>5. PICK f \in Field : \E used \in Int :
              /\ f = fields[Len(got) + 1] /\ Len(got) < Len(fields)
              /\ at = o[Len(got) + 1] + 1 /\ o[Len(got) + 2] = o[Len(got) + 1] + SizeOf(f)
              /\ got' = Append(got, f) /\ at' = at + SizeOf(f)
              /\ remaining' = remaining - used /\ used <= SizeOf(f)
              /\ f.kind # "str" => used = SizeOf(f)
    BY <1>2, <1>3, UnpackReads, Zenon
  <1>6. PICK used \in Int :
              /\ f = fields[g + 1] /\ g < Len(fields)
              /\ at = o[g + 1] + 1 /\ o[g + 2] = o[g + 1] + SizeOf(f)
              /\ got' = Append(got, f) /\ at' = at + SizeOf(f)
              /\ remaining' = remaining - used /\ used <= SizeOf(f)
              /\ f.kind # "str" => used = SizeOf(f)
    BY <1>4, <1>5, Zenon
  <1>7. PICK z \in Nat : z = SizeOf(f)
    BY FieldSize, Zenon
  <1>8. /\ got' \in Seq(Field) /\ Len(got') = g + 1 /\ got'[g + 1] = f
        /\ \A k \in 1..g : got'[k] = got[k]
    BY <1>2, <1>4, <1>6
  <1>9. /\ Pieces(fields, buffer, o) /\ fields \in Seq(Field)
        /\ buffer \in Seq(Byte) /\ o \in [Nat -> Nat]
        /\ \A k \in 1..g : got[k] = fields[k]
    BY <1>3, <1>4, Zenon DEF ReadSoFar, Pieces
  <1>10. PICK a \in Nat : a = o[g + 1]
    BY <1>9
  <1>11. at = a + 1 /\ at' = a + 1 + z /\ o[g + 2] = a + z
    BY <1>6, <1>7, <1>10, Zenon
  <1>12. \A k \in 1..g + 1 : got'[k] = fields[k]
    <2>1. ASSUME NEW k \in 1..g + 1 PROVE got'[k] = fields[k]
      <3>1. CASE k = g + 1
        BY <1>6, <1>8, <3>1, Zenon
      <3>2. CASE k \in 1..g
        BY <1>8, <1>9, <3>2, Zenon
      <3> QED
        BY <3>1, <3>2
    <2> QED
      BY <2>1
  <1>13. ReadSoFar(o)'
    <2>1. g + 1 <= Len(fields)
      BY <1>6, <1>9
    <2>2. at' = o[g + 1 + 1] + 1
      <3>1. g + 1 + 1 = g + 2 /\ a + 1 + z = (a + z) + 1
        OBVIOUS
      <3> QED
        BY <1>11, <3>1, Zenon
    <2> QED
      BY <1>1, <1>8, <1>9, <1>12, <2>1, <2>2, Zenon DEF ReadSoFar
  <1>14. RemainingTold'
    <2>1. PICK b \in Nat : b = Len(buffer)
      BY <1>9
    <2>2. /\ remaining >= b - at + 1
          /\ (\A k \in DOMAIN got : fields[k].kind # "str") => remaining = b - at + 1
      BY <1>1, <2>1, Zenon DEF MessageInv, RemainingTold
    <2>3. remaining' = remaining - used /\ used <= z /\ (f.kind # "str" => used = z)
      BY <1>6, <1>7, Zenon
    <2>4. remaining' >= b - at' + 1
      BY <1>2, <1>11, <2>2, <2>3
    <2>5. ASSUME \A k \in DOMAIN got' : fields[k].kind # "str"
          PROVE  remaining' = b - at' + 1
      <3>1. DOMAIN got = 1..g /\ DOMAIN got' = 1..g + 1
        BY <1>2, <1>4, <1>8
      <3>2. \A k \in DOMAIN got : fields[k].kind # "str"
        <4>1. \A k \in 1..g : k \in 1..g + 1
          OBVIOUS
        <4> QED
          BY <2>5, <3>1, <4>1, Zenon
      <3>3. f.kind # "str"
        <4>1. g + 1 \in 1..g + 1
          OBVIOUS
        <4> QED
          BY <1>6, <2>5, <3>1, <4>1, Zenon
      <3>4. remaining = b - at + 1 /\ used = z
        BY <2>2, <2>3, <3>2, <3>3, Zenon
      <3> QED
        BY <1>2, <1>11, <2>3, <3>4
    <2> QED
      BY <1>1, <2>1, <2>4, <2>5, Zenon DEF RemainingTold
  <1>15. remaining' \in Int /\ sent' \in BOOLEAN
    BY <1>1, <1>2, <1>6
  <1> QED
    BY <1>1, <1>8, <1>13, <1>14, <1>15, Zenon DEF MessageInv

(* The receiver has what was packed wherever it is in the message. *)
LEMMA MessageRead == MessageInv => RoundTrip /\ RemainingTold
  <1> SUFFICES ASSUME MessageInv PROVE RoundTrip
    BY DEF MessageInv
  <1>1. PICK o : ReadSoFar(o)
    BY Zenon DEF MessageInv
  <1>2. got \in Seq(Field) /\ \A k \in 1..Len(got) : got[k] = fields[k]
    BY <1>1, Zenon DEF MessageInv, ReadSoFar
  <1>3. \A k \in DOMAIN got : got[k] = fields[k]
    BY <1>2
  <1>4. ASSUME Len(got) = Len(fields) PROVE at = Len(buffer) + 1
    BY <1>1, <1>4, Zenon DEF ReadSoFar, Pieces
  <1> QED
    BY <1>3, <1>4, Zenon DEF RoundTrip

(* MessageInv is inductive. *)
LEMMA MessageStep == MessageInv /\ [Next]_vars => MessageInv'
  <1> SUFFICES ASSUME MessageInv, [Next]_vars PROVE MessageInv'
    OBVIOUS
  <1>1. CASE \E f \in Field : Pack(f)
    BY <1>1, MessagePacked, Zenon
  <1>2. CASE Send
    BY <1>2, MessageSent, Zenon
  <1>3. CASE Unpack
    BY <1>3, MessageUnpacked, Zenon
  <1>4. CASE UNCHANGED vars
    BY <1>4 DEF vars, MessageInv, ReadSoFar, RemainingTold
  <1> QED
    BY <1>1, <1>2, <1>3, <1>4 DEF Next

\* Whatever was packed, the receiver gets the same fields from the same bytes,
\* for messages of any length and strings of any size a length allows:
\* unpackStrToInt and unpackString undo packIntToStr and packString.
THEOREM FieldsRoundTrip == Spec => []RoundTrip
  <1>1. MessageInv => RoundTrip
    BY MessageRead
  <1> QED
    BY <1>1, MessageInit, MessageStep, PTL DEF Spec

\* However far the receiver has read, remainingBytes never falls short of what
\* is left, and says exactly that until a string with a length byte is read.
THEOREM RemainingIsTold == Spec => []RemainingTold
  <1>1. MessageInv => RemainingTold
    BY MessageRead
  <1> QED
    BY <1>1, MessageInit, MessageStep, PTL DEF Spec
=============================================================================
