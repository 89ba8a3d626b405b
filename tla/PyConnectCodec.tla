--------------------------- MODULE PyConnectCodec ---------------------------
(***************************************************************************)
(* How numbers and strings travel: packIntToStr and packString append to a *)
(* buffer that the caller allocated from the sum of packedIntLen and the   *)
(* lengths; unpackStrToInt and unpackString walk over it at the other end, *)
(* counting down the bytes that remain.  A message is a list of fields     *)
(* whose kinds both ends know: "int" (a packed number), "str" (a string    *)
(* with a length byte) and "ext" (a string with a packed length).          *)
(***************************************************************************)
EXTENDS Integers, Sequences

CONSTANTS
    Ints,      \* the numbers that are packed
    Strings,   \* the strings that are packed, sequences of bytes
    MaxFields  \* bound: fields in a message

Byte == 0..255
MAX_STR_LENGTH == 32767

\* What the callers see to: counts, indices and lengths within two bytes (the
\* names of attributes and methods within one), and C strings, without a NUL.
ASSUME CodecAssumption ==
    /\ Ints \subseteq Nat /\ \A n \in Ints : n <= MAX_STR_LENGTH
    /\ Strings \subseteq Seq(1..255) /\ \A s \in Strings : Len(s) <= MAX_STR_LENGTH
    /\ MaxFields \in Nat

VARIABLES
    fields,     \* the fields packed so far
    buffer,     \* what they were packed into
    allocated,  \* the size the sender computed for them
    sent,       \* is the message on its way
    got,        \* the fields unpacked so far
    at,         \* dataBufPtr, the index of the next byte
    remaining   \* remainingBytes

vars == <<fields, buffer, allocated, sent, got, at, remaining>>

\* Fault: the second byte takes over too late.
PackIntLate(num) == IF num <= 128 THEN <<num>>
                    ELSE <<(num % 128) + 128, num \div 128>>
packIntToStr(num) ==
    CASE num >= 0 /\ num < 128       -> <<num>>
      [] num >= 128 /\ num < 32768   -> <<(num % 128) + 128, (num \div 128) % 256>>
      [] num < 0 \/ num >= 32768     -> <<>>
packedIntLen(num) ==
    IF num >= 0 /\ num < 128 THEN 1 ELSE IF num < 32768 THEN 2 ELSE 0

packString(str, extendSize) ==
    (IF extendSize THEN packIntToStr(Len(str)) ELSE <<Len(str) % 256>>) \o str

\* Each returns what it read, the next position and the bytes it counted.
unpackStrToInt(buf, k) ==
    IF buf[k] >= 128
    THEN [num |-> buf[k + 1] * 128 + (buf[k] - 128), next |-> k + 2, used |-> 2]
    ELSE [num |-> buf[k], next |-> k + 1, used |-> 1]

\* The length byte of a "str" is not counted (dataBufPtr++ alone).
StringLength(buf, k, extendSize) ==
    IF extendSize THEN unpackStrToInt(buf, k)
                  ELSE [num |-> buf[k], next |-> k + 1, used |-> 0]
\* Fault: the bytes of the string are not counted.
UncountedString(buf, k, extendSize) ==
    LET len == StringLength(buf, k, extendSize)
    IN [str  |-> SubSeq(buf, len.next, len.next + len.num - 1),
        next |-> len.next + len.num, used |-> len.used]
\* Fault: the terminating NUL overwrites the last byte.
ShortString(buf, k, extendSize) ==
    LET len == StringLength(buf, k, extendSize)
    IN [str  |-> SubSeq(buf, len.next, len.next + len.num - 2),
        next |-> len.next + len.num, used |-> len.used + len.num]
unpackString(buf, k, extendSize) ==
    LET len == StringLength(buf, k, extendSize)
    IN [str  |-> SubSeq(buf, len.next, len.next + len.num - 1),
        next |-> len.next + len.num, used |-> len.used + len.num]

\* A field carries a number or a string; the other part is a dummy.
Field == [kind : {"int"}, num : Ints, str : {<<>>}]
    \cup [kind : {"ext"}, num : {0}, str : Strings]
    \cup [kind : {"str"}, num : {0}, str : {s \in Strings : Len(s) <= 255}]

Packed(f) == IF f.kind = "int" THEN packIntToStr(f.num)
                               ELSE packString(f.str, f.kind = "ext")
SizeOf(f) == CASE f.kind = "int" -> packedIntLen(f.num)
               [] f.kind = "ext" -> packedIntLen(Len(f.str)) + Len(f.str)
               [] f.kind = "str" -> 1 + Len(f.str)

Init == /\ fields = <<>> /\ buffer = <<>> /\ allocated = 0 /\ sent = FALSE
        /\ got = <<>> /\ at = 1 /\ remaining = 0

Pack(f) ==
    /\ ~sent /\ Len(fields) < MaxFields
    /\ fields' = Append(fields, f) /\ buffer' = buffer \o Packed(f)
    /\ allocated' = allocated + SizeOf(f)
    /\ UNCHANGED <<sent, got, at, remaining>>
Send == /\ ~sent /\ sent' = TRUE /\ remaining' = Len(buffer)
        /\ UNCHANGED <<fields, buffer, allocated, got, at>>
Unpack ==
    /\ sent /\ Len(got) < Len(fields)
    /\ LET kind == fields[Len(got) + 1].kind
           int  == unpackStrToInt(buffer, at)
           str  == unpackString(buffer, at, kind = "ext")
       IN IF kind = "int"
          THEN /\ got' = Append(got, [kind |-> kind, num |-> int.num, str |-> <<>>])
               /\ at' = int.next /\ remaining' = remaining - int.used
          ELSE /\ got' = Append(got, [kind |-> kind, num |-> 0, str |-> str.str])
               /\ at' = str.next /\ remaining' = remaining - str.used
    /\ UNCHANGED <<fields, buffer, allocated, sent>>

Next == (\E f \in Field : Pack(f)) \/ Send \/ Unpack
Spec == Init /\ [][Next]_vars

-----------------------------------------------------------------------------
(* Properties *)

\* The sender fills exactly the bytes it allocated: no field is packed past the
\* end of the buffer, none leaves a gap (declareModuleAttrMetd and the like).
BufferExact == Len(buffer) = allocated

\* The receiver gets the fields that were packed, from the right positions.
RoundTrip == /\ \A k \in DOMAIN got : got[k] = fields[k]
             /\ sent /\ Len(got) = Len(fields) => at = Len(buffer) + 1

\* remainingBytes tells a method how much of its arguments is left
\* (PyConnectData::getData): it is exact as long as no "str" has been read,
\* and never less than what is left.
RemainingTold ==
    sent => /\ remaining >= Len(buffer) - at + 1
            /\ (\A k \in DOMAIN got : fields[k].kind # "str") =>
                  remaining = Len(buffer) - at + 1
=============================================================================
