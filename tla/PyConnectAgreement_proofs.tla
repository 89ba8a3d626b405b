---------------------- MODULE PyConnectAgreement_proofs ----------------------
(***************************************************************************)
(* Theorems about the session that rest on the order of what is under way: *)
(* an object is exposed once, and what a server and a program believe of   *)
(* each other when everything has been processed.                          *)
(***************************************************************************)
EXTENDS PyConnectClaims_proofs

-----------------------------------------------------------------------------
(* Lists of messages, by the types they hold *)

Has(q, t)  == \E j \in DOMAIN q : q[j].type = t
Once(q, t) == \A j, k \in DOMAIN q : q[j].type = t /\ q[k].type = t => j = k
Asg == "MODULE_ASSIGN_ID"
Exp == "ATTR_METD_EXPOSE"
Dsc == "ATTR_METD_DESC"

(* Every description in q comes after an exposure in q. *)
Covered(q) == \A j \in DOMAIN q : q[j].type = Dsc =>
    \E k \in DOMAIN q : k < j /\ q[k].type = Exp

LEMMA HasParts ==
    ASSUME NEW M, NEW q \in Seq(M), NEW w \in Seq(M), NEW t
    PROVE  Has(q \o w, t) <=> Has(q, t) \/ Has(w, t)
  <1>1. ASSUME Has(q \o w, t)
        PROVE  Has(q, t) \/ Has(w, t)
    BY <1>1, Parts DEF Has
  <1>2. /\ q \o w \in Seq(M) /\ Len(q \o w) = Len(q) + Len(w)
        /\ Len(q) \in Nat /\ Len(w) \in Nat
        /\ \A i \in 1..Len(q) + Len(w) :
              (q \o w)[i] = IF i <= Len(q) THEN q[i] ELSE w[i - Len(q)]
    BY ConcatProperties
  <1>3. DOMAIN q = 1..Len(q) /\ DOMAIN w = 1..Len(w) /\ DOMAIN (q \o w) = 1..Len(q \o w)
    BY <1>2
  <1> DEFINE u == q \o w
  <1> HIDE DEF u
  <1>4. ASSUME NEW j \in DOMAIN q, q[j].type = t
        PROVE  Has(u, t)
    <2>1. j \in DOMAIN u /\ u[j] = q[j]
      BY <1>2, <1>3 DEF u
    <2> QED
      BY <1>4, <2>1 DEF Has
  <1>5. ASSUME NEW j \in DOMAIN w, w[j].type = t
        PROVE  Has(u, t)
    <2>1. Len(q) + j \in DOMAIN u /\ u[Len(q) + j] = w[j]
      BY <1>2, <1>3 DEF u
    <2> QED
      BY <1>5, <2>1 DEF Has
  <1> QED
    BY <1>1, <1>4, <1>5 DEF Has, u

LEMMA HasTail ==
    ASSUME NEW M, NEW q \in Seq(M), q # <<>>, NEW t
    PROVE  /\ Has(Tail(q), t) => Has(q, t)
           /\ Once(q, t) => Once(Tail(q), t)
           /\ Once(q, t) /\ Head(q).type = t => ~Has(Tail(q), t)
           /\ Head(q).type = t => Has(q, t)
           /\ Covered(q) /\ Head(q).type # Exp => Covered(Tail(q))
  <1>1. /\ 1 \in DOMAIN q /\ Head(q) = q[1]
        /\ \A j \in DOMAIN Tail(q) : /\ j \in Nat /\ j >= 1 /\ j + 1 \in DOMAIN q
                                     /\ Tail(q)[j] = q[j + 1]
    BY Tails
  <1>2. \A j \in DOMAIN q : j \in Nat /\ j >= 1 /\ (j # 1 => j - 1 \in DOMAIN Tail(q))
    OBVIOUS
  <1> DEFINE v == Tail(q)
  <1> HIDE DEF v
  <1>3. /\ Has(v, t) => Has(q, t)
        /\ Head(q).type = t => Has(q, t)
    BY <1>1 DEF Has, v
  <1>4. Once(q, t) => Once(v, t)
    <2> SUFFICES ASSUME Once(q, t), NEW j \in DOMAIN v, NEW k \in DOMAIN v,
                        v[j].type = t, v[k].type = t
                 PROVE  j = k
      BY DEF Once
    <2>1. j + 1 = k + 1 /\ j \in Nat /\ k \in Nat
      BY <1>1 DEF Once, v
    <2> QED
      BY <2>1
  <1>5. Once(q, t) /\ Head(q).type = t => ~Has(v, t)
    <2> SUFFICES ASSUME Once(q, t), Head(q).type = t, NEW j \in DOMAIN v, v[j].type = t
                 PROVE  FALSE
      BY DEF Has
    <2>1. j + 1 = 1 /\ j \in Nat /\ j >= 1
      BY <1>1 DEF Once, v
    <2> QED
      BY <2>1
  <1>6. Covered(q) /\ Head(q).type # Exp => Covered(v)
    <2> SUFFICES ASSUME Covered(q), Head(q).type # Exp,
                        NEW j \in DOMAIN v, v[j].type = Dsc
                 PROVE  \E k \in DOMAIN v : k < j /\ v[k].type = Exp
      BY DEF Covered
    <2>1. PICK i \in DOMAIN q : i < j + 1 /\ q[i].type = Exp
      BY <1>1 DEF Covered, v
    <2>2. i \in Nat /\ i # 1 /\ i - 1 \in DOMAIN v /\ j \in Nat
      BY <1>1, <1>2, <2>1 DEF v
    <2>3. v[i - 1] = q[(i - 1) + 1] /\ (i - 1) + 1 = i /\ i - 1 < j
      BY <1>1, <2>1, <2>2 DEF v
    <2> QED
      BY <2>1, <2>2, <2>3
  <1> QED
    BY <1>3, <1>4, <1>5, <1>6 DEF v

LEMMA OnceParts ==
    ASSUME NEW M, NEW q \in Seq(M), NEW w \in Seq(M), NEW t,
           \/ Once(q, t) /\ ~Has(w, t)
           \/ ~Has(q, t) /\ Once(w, t)
    PROVE  Once(q \o w, t)
  <1>1. /\ q \o w \in Seq(M) /\ Len(q \o w) = Len(q) + Len(w)
        /\ Len(q) \in Nat /\ Len(w) \in Nat
        /\ \A i \in 1..Len(q) + Len(w) :
              (q \o w)[i] = IF i <= Len(q) THEN q[i] ELSE w[i - Len(q)]
    BY ConcatProperties
  <1>2. DOMAIN q = 1..Len(q) /\ DOMAIN w = 1..Len(w) /\ DOMAIN (q \o w) = 1..Len(q \o w)
    BY <1>1
  <1> DEFINE u == q \o w
  <1> HIDE DEF u
  <1>3. \A i \in DOMAIN u : \/ i \in DOMAIN q /\ u[i] = q[i]
                            \/ /\ i - Len(q) \in DOMAIN w /\ u[i] = w[i - Len(q)]
                               /\ i \in Nat
    BY <1>1, <1>2 DEF u
  <1> SUFFICES ASSUME NEW j \in DOMAIN u, NEW k \in DOMAIN u, u[j].type = t, u[k].type = t
               PROVE  j = k
    BY DEF Once, u
  <1>4. CASE Once(q, t) /\ ~Has(w, t)
    BY <1>3, <1>4 DEF Once, Has
  <1>5. CASE ~Has(q, t) /\ Once(w, t)
    <2>1. /\ j - Len(q) \in DOMAIN w /\ w[j - Len(q)].type = t /\ j \in Nat
          /\ k - Len(q) \in DOMAIN w /\ w[k - Len(q)].type = t /\ k \in Nat
      BY <1>3, <1>5 DEF Has
    <2>2. j - Len(q) = k - Len(q)
      BY <1>5, <2>1 DEF Once
    <2> QED
      BY <1>1, <2>1, <2>2
  <1> QED
    BY <1>4, <1>5

LEMMA CoveredParts ==
    ASSUME NEW M, NEW q \in Seq(M), NEW w \in Seq(M), Covered(q), Covered(w)
    PROVE  Covered(q \o w)
  <1>1. /\ q \o w \in Seq(M) /\ Len(q \o w) = Len(q) + Len(w)
        /\ Len(q) \in Nat /\ Len(w) \in Nat
        /\ \A i \in 1..Len(q) + Len(w) :
              (q \o w)[i] = IF i <= Len(q) THEN q[i] ELSE w[i - Len(q)]
    BY ConcatProperties
  <1>2. DOMAIN q = 1..Len(q) /\ DOMAIN w = 1..Len(w) /\ DOMAIN (q \o w) = 1..Len(q \o w)
    BY <1>1
  <1> DEFINE u == q \o w
  <1> HIDE DEF u
  <1>3. /\ \A i \in DOMAIN u : /\ i \in Nat
                               /\ \/ i \in DOMAIN q /\ u[i] = q[i]
                                  \/ i - Len(q) \in DOMAIN w /\ u[i] = w[i - Len(q)]
        /\ \A i \in DOMAIN q : i \in DOMAIN u /\ u[i] = q[i]
        /\ \A i \in DOMAIN w : i + Len(q) \in DOMAIN u /\ u[i + Len(q)] = w[i] /\ i \in Nat
    BY <1>1, <1>2 DEF u
  <1> SUFFICES ASSUME NEW j \in DOMAIN u, u[j].type = Dsc
               PROVE  \E k \in DOMAIN u : k < j /\ u[k].type = Exp
    BY DEF Covered, u
  <1>4. CASE j \in DOMAIN q /\ u[j] = q[j]
    BY <1>3, <1>4 DEF Covered
  <1>5. CASE j - Len(q) \in DOMAIN w /\ u[j] = w[j - Len(q)]
    <2>1. PICK k \in DOMAIN w : k < j - Len(q) /\ w[k].type = Exp
      BY <1>5 DEF Covered
    <2>2. k + Len(q) \in DOMAIN u /\ u[k + Len(q)].type = Exp /\ k \in Nat /\ j \in Nat
      BY <1>3, <2>1
    <2>3. k + Len(q) < j
      BY <1>1, <2>1, <2>2
    <2> QED
      BY <2>2, <2>3
  <1> QED
    BY <1>3, <1>4, <1>5

LEMMA OneAndTwo ==
    ASSUME NEW e, NEW d, NEW t
    PROVE  /\ Has(<<e>>, t) <=> e.type = t
           /\ Has(<<e, d>>, t) <=> e.type = t \/ d.type = t
           /\ Once(<<e>>, t)
           /\ e.type # d.type => Once(<<e, d>>, t)
           /\ e.type # Dsc => Covered(<<e>>)
           /\ e.type = Exp => Covered(<<e, d>>)
           /\ ~Has(<<>>, t) /\ Once(<<>>, t) /\ Covered(<<>>)
  <1>1. /\ DOMAIN <<e>> = {1} /\ <<e>>[1] = e
        /\ DOMAIN <<e, d>> = {1, 2} /\ <<e, d>>[1] = e /\ <<e, d>>[2] = d
        /\ DOMAIN <<>> = {}
    OBVIOUS
  <1>2. e.type = Exp => Covered(<<e, d>>)
    BY <1>1 DEF Covered, Exp, Dsc
  <1> QED
    BY <1>1, <1>2 DEF Has, Once, Covered

-----------------------------------------------------------------------------
(* The stream to a module *)

(* What the module at the end of c has in hand from c, and what is on the    *)
(* wire: one stream, of which the module takes the first message.            *)
OutHandOf(c) == IF modTask[conn[c].mod].conn = c THEN modTask[conn[c].mod].buf ELSE <<>>
Out(c)       == OutHandOf(c) \o conn[c].toMod

(* The ways it may change: not, by the handler of its first message, by what *)
(* the server writes, or by being lost with the process.                     *)
Received(c) ==
    LET m == conn[c].mod
    IN /\ modTask[m].buf # <<>> /\ modTask[m].conn = c /\ modTask'[m] = Rest(modTask[m])
       /\ Out(c) # <<>> /\ Head(Out(c)) = Head(modTask[m].buf) /\ Out(c)' = Tail(Out(c))
Sends(s, c, x) ==
    /\ x.type = Asg => /\ AssignModuleID(s) /\ c = sActive[s] /\ x.id = nextObjId[s]
                       /\ x.name = Name[Head(ioTask[s].buf).from]
    /\ x.type = "SERVER_SHUTDOWN" => "disconnect" \in Ops
Sent(c) == \E x \in ModMsg : /\ Sends(conn[c].srv, c, x) /\ Out(c)' = Append(Out(c), x)
                             /\ conn'[c].mEnd # "closed"
OutStep(c) == \/ Out(c)' = Out(c) \/ Received(c) \/ Sent(c)
              \/ Out(c)' = <<>> /\ conn'[c].mEnd = "closed"

LEMMA OutFacts ==
    ASSUME AddressInv, NEW c \in DOMAIN conn
    PROVE  /\ conn[c] \in Conn /\ conn[c].toMod \in Seq(ModMsg)
           /\ conn[c].srv \in Servers /\ conn[c].mod \in Modules
           /\ modTask[conn[c].mod] \in Task(ModMsg)
           /\ modTask[conn[c].mod].buf \in Seq(ModMsg)
           /\ OutHandOf(c) \in Seq(ModMsg)
           /\ c # NoConn /\ Out(c) \in Seq(ModMsg)
  <1>1. /\ conn[c] \in Conn /\ conn[c].toMod \in Seq(ModMsg)
        /\ conn[c].srv \in Servers /\ conn[c].mod \in Modules
    BY Facts, ConnFields DEF AddressInv
  <1>2. modTask[conn[c].mod] \in Task(ModMsg)
    BY <1>1, Facts DEF AddressInv, ModuleTypes
  <1>3. modTask[conn[c].mod].buf \in Seq(ModMsg)
    BY <1>2 DEF Task
  <1>4. c # NoConn
    BY Facts DEF AddressInv, NoConn
  <1>5. OutHandOf(c) \in Seq(ModMsg)
    BY <1>3 DEF OutHandOf
  <1>6. Out(c) \in Seq(ModMsg)
    BY <1>1, <1>5, ConcatProperties DEF Out
  <1> QED
    BY <1>1, <1>2, <1>3, <1>4, <1>5, <1>6

LEMMA SameOutHand ==
    ASSUME NEW c, conn'[c].mod = conn[c].mod
    PROVE  /\ modTask'[conn[c].mod] = modTask[conn[c].mod] => OutHandOf(c)' = OutHandOf(c)
           /\ modTask'[conn[c].mod].conn = c => OutHandOf(c)' = modTask'[conn[c].mod].buf
           /\ modTask'[conn[c].mod].conn # c => OutHandOf(c)' = <<>>
  BY DEF OutHandOf

LEMMA SameOut ==
    ASSUME NEW c, OutHandOf(c)' = OutHandOf(c), conn'[c].toMod = conn[c].toMod
    PROVE  OutStep(c)
  BY DEF Out, OutStep

LEMMA LostOut ==
    ASSUME NEW c, OutHandOf(c)' = <<>>, conn'[c].toMod = <<>>, conn'[c].mEnd = "closed"
    PROVE  OutStep(c)
  BY DEF Out, OutStep

(* What a server sends goes to the end of the stream. *)
LEMMA SentOut ==
    ASSUME AddressInv, NEW c \in DOMAIN conn, OutHandOf(c)' = OutHandOf(c),
           NEW x \in ModMsg, Sends(conn[c].srv, c, x), conn'[c].mEnd # "closed",
           conn'[c].toMod = Append(conn[c].toMod, x)
    PROVE  OutStep(c)
  <1>1. OutHandOf(c) \in Seq(ModMsg) /\ conn[c].toMod \in Seq(ModMsg)
    BY OutFacts
  <1> DEFINE h == OutHandOf(c)
             q == conn[c].toMod
  <1>2. h \o Append(q, x) = Append(h \o q, x)
    <2>1. h \in Seq(ModMsg) /\ q \in Seq(ModMsg) /\ h \o q \in Seq(ModMsg)
      BY <1>1, ConcatProperties
    <2> HIDE DEF h, q
    <2>2. h \o Append(q, x) = (h \o q) \o <<x>>
      BY <2>1, Streams
    <2>3. Append(h \o q, x) = (h \o q) \o <<x>>
      BY <2>1, AppendIsConcat
    <2> QED
      BY <2>2, <2>3
  <1>3. Out(c)' = Append(Out(c), x)
    BY <1>2 DEF Out
  <1> QED
    BY <1>3 DEF OutStep, Sent

(* The end of a handler of the module. *)
LEMMA RestOut ==
    ASSUME AddressInv, NEW c \in DOMAIN conn, NEW m \in Modules,
           conn'[c].mod = conn[c].mod, conn'[c].toMod = conn[c].toMod,
           modTask[m].buf # <<>>, modTask' = [modTask EXCEPT ![m] = Rest(modTask[m])]
    PROVE  OutStep(c) /\ (modTask[m].conn = c => Received(c))
  <1> DEFINE t == modTask[m]
             q == conn[c].toMod
  <1>0. t.buf # <<>>
    OBVIOUS
  <1>1. /\ t \in Task(ModMsg) /\ t.buf \in Seq(ModMsg) /\ On(modTask, Modules)
        /\ q \in Seq(ModMsg) /\ conn[c].mod \in Modules /\ c # NoConn
    <2>1. t \in Task(ModMsg) /\ On(modTask, Modules)
      BY Facts DEF AddressInv, ModuleTypes, On
    <2> QED
      BY <2>1, OutFacts DEF Task
  <1>2. CASE conn[c].mod # m
    <2>1. modTask'[conn[c].mod] = modTask[conn[c].mod]
      BY <1>1, <1>2 DEF On
    <2>2. t.conn # c
      BY <1>0, <1>2 DEF AddressInv, InHand
    <2> QED
      BY <2>1, <2>2, SameOutHand, SameOut
  <1>3. CASE conn[c].mod = m /\ t.conn # c
    <2>1. modTask'[m] = Rest(t)
      BY <1>1 DEF On
    <2>2. Rest(t).conn = NoConn \/ Rest(t).conn = t.conn
      BY <1>1 DEF Rest, Idle, Task
    <2>3. OutHandOf(c)' = <<>> /\ OutHandOf(c) = <<>>
      BY <1>1, <1>3, <2>1, <2>2, SameOutHand DEF OutHandOf
    <2> QED
      BY <1>3, <2>3, SameOut
  <1>4. CASE conn[c].mod = m /\ t.conn = c
    <2>1. modTask'[m] = Rest(t)
      BY <1>1 DEF On
    <2>2. Out(c) = t.buf \o q
      BY <1>4 DEF Out, OutHandOf
    <2>3. Out(c)' = OutHandOf(c)' \o q
      BY DEF Out
    <2>4. Out(c)' = Tail(Out(c))
      <3>1. CASE Len(t.buf) <= 1
        <4>1. OutHandOf(c)' = <<>>
          BY <1>1, <1>4, <2>1, <3>1, SameOutHand DEF Rest, Idle
        <4>2. Tail(t.buf \o q) = q /\ <<>> \o q = q
          BY <1>1, <3>1, Streams
        <4> QED
          BY <2>2, <2>3, <4>1, <4>2
      <3>2. CASE ~(Len(t.buf) <= 1)
        <4>1. Rest(t).conn = c /\ Rest(t).buf = Tail(t.buf)
          BY <1>1, <1>4, <3>2 DEF Rest, Task
        <4>2. OutHandOf(c)' = Tail(t.buf)
          BY <1>4, <2>1, <4>1, SameOutHand
        <4> HIDE DEF q, t
        <4>3. Tail(t.buf) \o q = Tail(t.buf \o q)
          BY <1>0, <1>1, Streams
        <4> QED
          BY <2>2, <2>3, <4>2, <4>3
      <3> QED
        BY <3>1, <3>2
    <2>5. Out(c) # <<>> /\ Head(Out(c)) = Head(t.buf)
      <3> HIDE DEF q, t
      <3>1. Head(t.buf \o q) = Head(t.buf) /\ t.buf \o q # <<>>
        BY <1>0, <1>1, Streams
      <3> QED
        BY <2>2, <3>1
    <2> QED
      BY <1>0, <1>4, <2>1, <2>4, <2>5 DEF OutStep, Received
  <1> QED
    BY <1>2, <1>3, <1>4

LEMMA ServerWriteKept ==
    ASSUME NEW cs \in Seq(Conn), NEW c \in DOMAIN cs, NEW d, NEW x, d # NoConn
    PROVE  LET ds == SrvWrite(cs, d, x)
           IN \/ ds[c].toMod = cs[c].toMod
              \/ /\ c = d /\ ds[c].toMod = Append(cs[c].toMod, x)
                 /\ ds[c].mEnd = cs[c].mEnd /\ cs[c].mEnd # "closed"
  <1>1. \A e \in DOMAIN cs : cs[e] \in Conn
    OBVIOUS
  <1>2. \A k \in Conn : \A q : /\ [k EXCEPT !.toMod = q].toMod = q
                               /\ [k EXCEPT !.toMod = q].mEnd = k.mEnd
    BY DEF Conn
  <1> QED
    BY <1>1, <1>2 DEF SrvWrite

LEMMA ServerOut ==
    ASSUME AddressInv, ~Dials, Wires, NEW s \in Servers, ServerStep(s), NEW c \in DOMAIN conn
    PROVE  OutStep(c)
  <1>1. /\ conn \in Seq(Conn) /\ conn[c] \in Conn /\ conn[c].srv \in Servers
        /\ c # NoConn /\ \A d \in DOMAIN conn : conn[d] \in Conn
    BY OutFacts, Facts DEF AddressInv
  <1>2. OutHandOf(c)' = OutHandOf(c)
    <2>1. conn'[c].mod = conn[c].mod
      BY DEF Wires
    <2> QED
      BY <2>1, ServerLeaves, SameOutHand
  <1>3. ASSUME conn'[c].toMod = conn[c].toMod
        PROVE  OutStep(c)
    BY <1>2, <1>3, SameOut
  <1>4. ASSUME NEW d, NEW x \in ModMsg, conn' = SrvWrite(conn, d, x),
               d # NoConn => d \in DOMAIN conn /\ conn[d].srv = s /\ Sends(s, d, x)
        PROVE  OutStep(c)
    <2>1. CASE d = NoConn
      <3>1. conn' = conn
        BY <1>4, <2>1 DEF SrvWrite
      <3> QED
        BY <1>3, <3>1
    <2>2. CASE d # NoConn
      <3>1. \/ conn'[c].toMod = conn[c].toMod
            \/ /\ c = d /\ conn'[c].toMod = Append(conn[c].toMod, x)
               /\ conn'[c].mEnd # "closed"
        BY <1>1, <1>4, <2>2, ServerWriteKept
      <3>2. CASE /\ c = d /\ conn'[c].toMod = Append(conn[c].toMod, x)
                 /\ conn'[c].mEnd # "closed"
        BY <1>2, <1>4, <2>2, <3>2, SentOut
      <3> QED
        BY <1>3, <3>1, <3>2
    <2> QED
      BY <2>1, <2>2
  <1>5. ASSUME NEW d \in DOMAIN conn
        PROVE  /\ SrvAccept(s, d) \/ SrvEof(s, d) => OutStep(c)
               /\ \A n \in 1..Len(conn[d].toSrv) : SrvRead(s, d, n) => OutStep(c)
    <2>1. SrvAccept(s, d) => conn'[c].toMod = conn[c].toMod
      BY <1>1 DEF SrvAccept, Conn
    <2>2. SrvEof(s, d) => conn'[c].toMod = conn[c].toMod
      BY <1>1, ToModuleKept DEF SrvEof
    <2>3. \A n \in 1..Len(conn[d].toSrv) : SrvRead(s, d, n) => conn'[c].toMod = conn[c].toMod
      BY <1>1 DEF SrvRead, Conn
    <2> QED
      BY <1>3, <2>1, <2>2, <2>3
  <1>6. ASSUME NEW m \in Modules, SrvUdpDeclare(s, m)
        PROVE  OutStep(c)
    <2> DEFINE k == OpenConn(s, m, "srv", "net")
    <2>1. UNCHANGED conn \/ conn' = Append(conn, k)
      BY <1>6 DEF SrvUdpDeclare
    <2>2. Append(conn, k)[c] = conn[c]
      BY <1>1, AppendGrows
    <2> HIDE DEF k
    <2> QED
      BY <1>3, <2>1, <2>2
  <1>7. CASE AssignModuleID(s)
    <2> DEFINE i == nextObjId[s]
               x == AssignId(s, i, Name[Head(ioTask[s].buf).from])
               d == sActive[s]
    <2>1. conn' = SrvWrite(conn, d, x)
      BY <1>7 DEF AssignModuleID
    <2>2. /\ ioTask[s].buf # <<>> /\ Head(ioTask[s].buf).type = "MODULE_DECLARE"
          /\ i \in Ids
      <3>1. /\ ioTask[s].buf # <<>> /\ Head(ioTask[s].buf).type = "MODULE_DECLARE"
            /\ i <= MaxModuleId
        BY <1>7, Facts DEF AddressInv, Assigning, AssignModuleID
      <3>2. i \in FirstId..MaxModuleId + 1
        BY Facts DEF AddressInv, RegistryTypes
      <3> QED
        BY <3>1, <3>2, ConstantsAssumption DEF Ids
    <2>3. x \in ModMsg
      <3>1. Name[Head(ioTask[s].buf).from] \in Names
        BY <2>2, DeclareType DEF AddressInv
      <3> QED
        BY <2>2, <3>1, ServerMessages
    <2>4. x.type = Asg /\ x.id = i /\ x.name = Name[Head(ioTask[s].buf).from]
      <3>1. /\ x.type = Asg /\ x.id = Byte(i)
            /\ x.name = Name[Head(ioTask[s].buf).from]
        BY DEF AssignId, Asg
      <3> QED
        BY <2>2, <3>1, ByteType
    <2>5. Sends(s, d, x)
      <3> HIDE DEF x
      <3> QED
        BY <1>7, <2>4 DEF Sends, Asg
    <2>6. d # NoConn => d \in DOMAIN conn /\ conn[d].srv = s
      BY Facts DEF AddressInv, Channels
    <2> HIDE DEF x, d
    <2> QED
      BY <1>4, <2>1, <2>3, <2>5, <2>6
  <1>8. CASE HandleDeclareDuplicate(s)
    <2>1. UNCHANGED conn \/ conn' = CloseSrv(conn, {sActive[s]})
      BY <1>8 DEF HandleDeclareDuplicate
    <2> QED
      BY <1>1, <1>3, <2>1, ToModuleKept
  <1>9. ASSUME \/ HandleDeclareNew(s) \/ HandleModuleShutdown(s) \/ HandleExpose(s)
               \/ HandleDesc(s) \/ HandleValue(s) \/ SrvStart(s)
        PROVE  OutStep(c)
    <2>1. UNCHANGED conn
      BY <1>9 DEF HandleDeclareNew, HandleModuleShutdown, HandleExpose, HandleDesc, HandleValue,
             SrvApply, SrvStart
    <2> QED
      BY <1>3, <2>1
  <1>10. CASE Discover(s)
    <2>1. PICK all \in Seq(Conn), used \in SUBSET Nat : Discovered(s, all, used)
      BY <1>10, DiscoverShape DEF AddressInv
    <2>2. c \notin used
      BY <2>1 DEF Discovered, Dials, AddressInv, Configured
    <2>3. conn'[c].toMod = conn[c].toMod
      BY <1>1, <2>1, <2>2 DEF Discovered
    <2> QED
      BY <1>3, <2>3
  <1>11. SendDiscovery(s) => FALSE
    BY DEF SendDiscovery, AddressInv, Configured, Dials
  <1>12. \A m \in Modules : Connect(s, m) => FALSE
    BY DEF Connect, Op, Dials
  <1>13. ASSUME NEW r \in modules[s], Disconnect(s, r)
         PROVE  OutStep(c)
    <2> DEFINE d == ChannelOf(s, r.id)
               x == ServerShutdown(s, r.id)
    <2>1. conn' = SrvWrite(conn, d, x) /\ "disconnect" \in Ops
      BY <1>13 DEF Disconnect, Op
    <2>2. d # NoConn => d \in DOMAIN conn /\ conn[d].srv = s
      BY ChannelFacts
    <2>3. x \in ModMsg
      BY ChannelFacts, ServerMessages
    <2>4. Sends(s, d, x)
      BY <2>1 DEF Sends, ServerShutdown, Asg
    <2> HIDE DEF x, d
    <2> QED
      BY <1>4, <2>1, <2>2, <2>3, <2>4
  <1>14. ASSUME NEW r \in modules[s], CallRemote(s, r)
         PROVE  OutStep(c)
    <2> DEFINE d == ChannelOf(s, r.id)
               x == Call(s, r.id, r.name)
    <2>1. conn' = SrvWrite(conn, d, x)
      BY <1>14 DEF CallRemote
    <2>2. d # NoConn => d \in DOMAIN conn /\ conn[d].srv = s
      BY ChannelFacts
    <2>3. x \in ModMsg
      BY ChannelFacts, ServerMessages
    <2>4. Sends(s, d, x)
      BY DEF Sends, Call, Asg
    <2> HIDE DEF x, d
    <2> QED
      BY <1>4, <2>1, <2>2, <2>3, <2>4
  <1>15. CASE SrvStop(s)
    <2>1. conn' = CloseSrv(conn, {d \in DOMAIN conn : conn[d].srv = s})
      BY <1>15 DEF SrvStop
    <2> QED
      BY <1>1, <1>3, <2>1, ToModuleKept
  <1>18. ObjectWork(s) \/ EndDisconnect(s) => OutStep(c)
    BY <1>3, ObjectWorkKeeps
  <1>16. SrvIO(s) => OutStep(c)
    BY <1>5, <1>6, <1>7, <1>8, <1>9, <1>18 DEF SrvIO
  <1>17. SrvPython(s) => OutStep(c)
    BY <1>10, <1>11, <1>12, <1>13, <1>14, <1>18 DEF SrvPython
  <1> QED
    BY <1>9, <1>15, <1>16, <1>17 DEF ServerStep

LEMMA AssignOut ==
    ASSUME AddressInv, NEW m \in Modules, HandleAssignId(m), NEW c \in DOMAIN conn
    PROVE  conn'[c].toMod = conn[c].toMod
  <1> DEFINE a == mActive[m]
             e == FromModule("ATTR_METD_EXPOSE", m, Head(modTask[m].buf).id)
             cs == ModWrite(conn, a, e)
  <1>1. conn \in Seq(Conn)
    BY Facts DEF AddressInv
  <1>2. UNCHANGED conn \/ \E d, y : conn' = ModWrite(cs, d, y)
    BY DEF HandleAssignId
  <1>3. cs \in Seq(Conn)
    <2>1. Head(modTask[m].buf).id \in Int
      BY ModMsgFacts, ByteType DEF HandleAssignId, AddressInv
    <2>2. e \in SrvMsg
      BY <2>1, ModuleMessages DEF Reports
    <2>3. a \in {NoConn} \cup DOMAIN conn
      BY HeldFacts
    <2> QED
      BY <1>1, <2>2, <2>3, ModWriteType
  <1>4. c \in DOMAIN cs
    BY <1>1, WritesKeepEnds DEF SameEnds
  <1>5. cs[c].toMod = conn[c].toMod
    BY <1>1, ToModuleKept
  <1> HIDE DEF cs
  <1> QED
    BY <1>2, <1>3, <1>4, <1>5, ToModuleKept

LEMMA ModuleOut ==
    ASSUME AddressInv, ~Dials, RememberInv, DeadClosed, Wires,
           NEW m \in Modules, ModuleStep(m), NEW c \in DOMAIN conn
    PROVE  OutStep(c)
  <1>1. /\ conn \in Seq(Conn) /\ conn[c] \in Conn /\ conn[c].toMod \in Seq(ModMsg)
        /\ c # NoConn /\ \A d \in DOMAIN conn : conn[d] \in Conn
        /\ On(modTask, Modules) /\ conn[c].mod \in Modules
    BY OutFacts, Facts DEF AddressInv, ModuleTypes, On
  <1>2. conn'[c].mod = conn[c].mod
    BY DEF Wires
  <1>3. ASSUME UNCHANGED modTask, conn'[c].toMod = conn[c].toMod
        PROVE  OutStep(c)
    BY <1>2, <1>3, SameOutHand, SameOut
  <1>4. ASSUME modTask[m].buf # <<>>, modTask' = [modTask EXCEPT ![m] = Rest(modTask[m])],
               conn'[c].toMod = conn[c].toMod
        PROVE  OutStep(c)
    BY <1>2, <1>4, RestOut
  <1>5. ASSUME modTask' = [modTask EXCEPT ![m] = Idle],
               \/ conn[c].mod # m /\ conn'[c].toMod = conn[c].toMod
               \/ conn[c].mod = m /\ conn'[c].toMod = <<>> /\ conn'[c].mEnd = "closed"
               \/ modTask[m].buf = <<>> /\ conn'[c].toMod = conn[c].toMod
        PROVE  OutStep(c)
    <2>1. CASE conn[c].mod # m /\ conn'[c].toMod = conn[c].toMod
      <3>1. modTask'[conn[c].mod] = modTask[conn[c].mod]
        BY <1>1, <1>5, <2>1 DEF On
      <3> QED
        BY <1>2, <2>1, <3>1, SameOutHand, SameOut
    <2>2. CASE conn[c].mod = m
      <3>1. modTask'[conn[c].mod].conn # c
        BY <1>1, <1>5, <2>2 DEF On, Idle
      <3>2. OutHandOf(c)' = <<>>
        BY <1>2, <3>1, SameOutHand
      <3>3. modTask[m].buf = <<>> => OutHandOf(c) = <<>>
        BY <2>2 DEF OutHandOf
      <3> QED
        BY <1>5, <2>2, <3>2, <3>3, SameOut, LostOut
    <2>3. CASE conn[c].mod # m /\ modTask[m].buf = <<>> /\ conn'[c].toMod = conn[c].toMod
      BY <2>1, <2>3
    <2> QED
      BY <1>5, <2>1, <2>2, <2>3
  <1>6. ASSUME NEW d \in DOMAIN conn, ModAccept(m, d) \/ ModEof(m, d)
        PROVE  OutStep(c)
    <2>1. ModAccept(m, d) => conn'[c].toMod = conn[c].toMod
      BY <1>1 DEF ModAccept, Conn
    <2>2. ModEof(m, d) => conn'[c].toMod = conn[c].toMod
      BY <1>1, ToModuleKept DEF ModEof
    <2>3. ModAccept(m, d) \/ ModEof(m, d) => UNCHANGED modTask
      BY DEF ModAccept, ModEof
    <2> QED
      BY <1>3, <1>6, <2>1, <2>2, <2>3
  <1>7. ASSUME NEW d \in DOMAIN conn, NEW n \in 1..Len(conn[d].toMod), ModRead(m, d, n)
        PROVE  OutStep(c)
    <2> DEFINE q == conn[d].toMod
               t == Reading(d, SubSeq(q, 1, n))
    <2>1. /\ modTask[m] = Idle /\ conn[d].mod = m
          /\ modTask' = [modTask EXCEPT ![m] = t]
          /\ conn' = [conn EXCEPT ![d].toMod = SubSeq(q, n + 1, Len(q))]
      BY <1>7 DEF ModRead
    <2>2. t.conn = d /\ t.buf = SubSeq(q, 1, n)
      BY DEF Reading
    <2>3. CASE c # d
      <3>1. conn'[c].toMod = conn[c].toMod
        BY <1>1, <2>1, <2>3
      <3>2. OutHandOf(c)' = OutHandOf(c)
        <4>1. CASE conn[c].mod # m
          <5>1. modTask'[conn[c].mod] = modTask[conn[c].mod]
            BY <1>1, <2>1, <4>1 DEF On
          <5> QED
            BY <1>2, <5>1, SameOutHand
        <4>2. CASE conn[c].mod = m
          <5>1. modTask'[m].conn # c /\ modTask[m].conn # c
            BY <1>1, <2>1, <2>2, <2>3 DEF On, Idle
          <5> QED
            BY <1>2, <4>2, <5>1, SameOutHand DEF OutHandOf
        <4> QED
          BY <4>1, <4>2
      <3> QED
        BY <3>1, <3>2, SameOut
    <2>4. CASE c = d
      <3>1. conn'[c].toMod = SubSeq(q, n + 1, Len(q))
        BY <1>1, <2>1, <2>4 DEF Conn
      <3>2. modTask'[m] = t
        BY <1>1, <2>1 DEF On
      <3>3. OutHandOf(c)' = SubSeq(q, 1, n)
        BY <1>2, <2>1, <2>2, <2>4, <3>2, SameOutHand
      <3>4. OutHandOf(c) = <<>>
        BY <1>1, <2>1, <2>4 DEF OutHandOf, Idle
      <3>5. SubSeq(q, 1, n) \o SubSeq(q, n + 1, Len(q)) = q /\ <<>> \o q = q
        <4>1. q \in Seq(ModMsg)
          BY <1>1, <2>4
        <4> QED
          BY <4>1, SplitStream, ConcatEmptySeq
      <3>6. Out(c)' = Out(c)
        BY <2>4, <3>1, <3>3, <3>4, <3>5 DEF Out
      <3> QED
        BY <3>6 DEF OutStep
    <2> QED
      BY <2>3, <2>4
  <1>8. ASSUME NEW s \in Servers, ModUdpDiscovery(m, s)
        PROVE  OutStep(c)
    <2> DEFINE d  == Len(conn) + 1
               cs == Append(conn, OpenConn(s, m, "mod", "net"))
    <2>1. /\ UNCHANGED conn \/ conn' = CloseMod(cs, {d}) \/ conn' = ModWrite(cs, d, Declare(m))
          /\ UNCHANGED modTask
      BY <1>8 DEF ModUdpDiscovery
    <2>2. cs \in Seq(Conn) /\ d \notin DOMAIN conn /\ c \in DOMAIN cs /\ cs[c] = conn[c]
      BY <1>1, AppendGrows
    <2> HIDE DEF cs, d
    <2>3. conn'[c].toMod = conn[c].toMod
      BY <2>1, <2>2, ToModuleKept
    <2> QED
      BY <1>3, <2>1, <2>3
  <1>9. HandleDiscovery(m) => FALSE
    BY ModInHand DEF HandleDiscovery, ModMsgIs, AddressInv, Addressed
  <1>10. HandleServerShutdown(m) \/ HandleCall(m) => OutStep(c)
    <2>1. HandleServerShutdown(m) \/ HandleCall(m) =>
             /\ modTask[m].buf # <<>> /\ modTask' = [modTask EXCEPT ![m] = Rest(modTask[m])]
             /\ UNCHANGED conn \/ \E d, x : conn' = ModWrite(conn, d, x)
      BY DEF HandleServerShutdown, HandleCall, ModMsgIs
    <2> QED
      BY <1>1, <1>4, <2>1, ToModuleKept
  <1>11. HandleAssignId(m) => OutStep(c)
    BY <1>4, AssignOut DEF HandleAssignId, ModMsgIs
  <1>12. CASE UpdateAttribute(m)
    BY <1>1, <1>3, <1>12, ToModuleKept DEF UpdateAttribute, modCommVars
  <1>13. CASE ModStart(m)
    <2>1. conn'[c] = conn[c]
      BY <1>13, ModStartShape DEF AddressInv, Started
    <2>2. modTask' = [modTask EXCEPT ![m] = Idle] /\ ~up[m]
      BY <1>13 DEF ModStart, ModMemory
    <2>3. modTask[m].buf = <<>>
      <3> SUFFICES ASSUME modTask[m].buf # <<>> PROVE FALSE
        OBVIOUS
      <3>1. /\ modTask[m].conn \in DOMAIN conn /\ conn[modTask[m].conn].mod = m
            /\ conn[modTask[m].conn].mEnd = "open"
        BY DEF AddressInv, InHand, RememberInv, HandMapped
      <3> QED
        BY <2>2, <3>1 DEF DeadClosed
    <2> QED
      BY <1>5, <2>1, <2>2, <2>3
  <1>14. ASSUME NEW cs \in Seq(Conn), DOMAIN cs = DOMAIN conn, cs[c].toMod = conn[c].toMod,
                conn' = CloseMod(cs, ModConns(m)), modTask' = [modTask EXCEPT ![m] = Idle]
         PROVE  OutStep(c)
    <2>1. c \in ModConns(m) <=> conn[c].mod = m
      BY DEF ModConns
    <2>2. conn[c].mod = m => conn'[c].toMod = <<>> /\ conn'[c].mEnd = "closed"
      BY <1>14, <2>1, ToModuleKept, ClosesEnds
    <2>3. conn[c].mod # m => conn'[c].toMod = conn[c].toMod
      BY <1>14, <2>1, ToModuleKept
    <2> QED
      BY <1>5, <1>14, <2>2, <2>3
  <1>15. ModCrash(m) => OutStep(c)
    BY <1>1, <1>14 DEF ModCrash, ModMemory
  <1>16. CASE ModShutdown(m)
    <2> DEFINE cs == ModWriteAll(conn, m, "MODULE_SHUTDOWN")
    <2>1. conn' = CloseMod(cs, ModConns(m)) /\ modTask' = [modTask EXCEPT ![m] = Idle]
      BY <1>16 DEF ModShutdown, ModMemory
    <2>2. cs \in Seq(Conn) /\ DOMAIN cs = DOMAIN conn
      BY WrittenToAll DEF Reports
    <2>3. cs[c].toMod = conn[c].toMod
      BY <1>1, ToModuleKept
    <2> HIDE DEF cs
    <2> QED
      BY <1>14, <2>1, <2>2, <2>3
  <1> QED
    BY <1>6, <1>7, <1>8, <1>9, <1>10, <1>11, <1>12, <1>13, <1>15, <1>16
    DEF ModuleStep, ModLoop, ModProgram

LEMMA OutSteps ==
    ASSUME AddressInv, RememberInv, DeadClosed, TypeInv', [Next]_vars, ~Dials,
           NEW c \in DOMAIN conn
    PROVE  OutStep(c)
  <1>1. Wires
    BY StepWires
  <1>2. UNCHANGED vars => OutStep(c)
    BY DEF vars, OutStep, Out, OutHandOf
  <1> QED
    BY <1>1, <1>2, EachStep, ServerOut, ModuleOut

LEMMA NewOut ==
    ASSUME AddressInv, TypeInv', [Next]_vars, ~Dials, NEW c \in DOMAIN conn' \ DOMAIN conn
    PROVE  Out(c)' = <<>>
  <1>1. conn'[c].toMod = <<>>
    BY NewIn
  <1> DEFINE m == conn'[c].mod
  <1>2. m \in Modules
    <2>1. conn' \in Seq(Conn)
      BY DEF TypeInv, TypeOK, NetworkTypes
    <2> QED
      BY <2>1, ConnFields
  <1>3. ModHand(m)
    BY <1>2, ModHands DEF AddressInv
  <1>4. OutHandOf(c)' = <<>>
    <2> SUFFICES ASSUME modTask'[m].buf # <<>>, modTask'[m].conn = c
                 PROVE  FALSE
      BY DEF OutHandOf
    <2> QED
      BY <1>2, <1>3 DEF ModHand, AddressInv, InHand
  <1>5. <<>> \o <<>> = <<>>
    BY Streams
  <1> QED
    BY <1>1, <1>4, <1>5 DEF Out

-----------------------------------------------------------------------------
(* Assigning an id and telling of it *)

KeysAt(c) == KeysOf(sMap[conn[c].srv], c)

(* A connection carries one MODULE_ASSIGN_ID at most, for an id that the     *)
(* server maps to it; while a program has one in hand, its last used channel *)
(* is the one that brought it.                                               *)
AssignOnce   == \A c \in DOMAIN conn : Once(Out(c), Asg)
AssignActive == \A m \in Modules : Has(modTask[m].buf, Asg) => mActive[m] = modTask[m].conn
AssignMapped == \A c \in DOMAIN conn : conn[c].sEnd # "closed" =>
    \A j \in DOMAIN Out(c) : Out(c)[j].type = Asg => Out(c)[j].id \in KeysAt(c)

(* The exposure and the description on a connection are for an id that the   *)
(* server maps to it, come after the assignment, and the exposure comes once.*)
ToldMapped == \A c \in DOMAIN conn : conn[c].sEnd # "closed" =>
    \A j \in DOMAIN In(c) : In(c)[j].type \in {Exp, Dsc} =>
        In(c)[j].id \in KeysAt(c) /\ ~Has(Out(c), Asg)
AssignedOnce == \A c \in DOMAIN conn : conn[c].sEnd # "closed" => Once(In(c), Exp)

AssignInv == AssignOnce /\ AssignActive /\ AssignMapped
ToldInv   == ToldMapped /\ AssignedOnce

(* The ways the stream to a server may change while its connection stays.    *)
Answered(c) ==
    LET m == conn[c].mod
        x == Head(modTask[m].buf)
    IN /\ HandleAssignId(m) /\ Received(c) /\ x.type = Asg /\ x.name = Name[m]
       /\ In(c)' = In(c) \o <<Expose(m, x.id), Describe(m, x.id)>>
Reported1(c) == \E x \in SrvMsg :
    /\ x.type \in {"ATTR_VALUE_UPDATE", "ATTR_METD_RESP", "MODULE_SHUTDOWN"}
    /\ UnderItsId(conn[c].mod, c, x)
    /\ x.type = "MODULE_SHUTDOWN" => conn'[c].mEnd = "closed"
    /\ In(c)' = In(c) \o <<x>>
TellStep(c) == In(c)' = In(c) \/ Handled(c) \/ Reported1(c) \/ Answered(c)

LEMMA ModHandHead ==
    ASSUME AddressInv, NEW m \in Modules, modTask[m].buf # <<>>
    PROVE  LET c == modTask[m].conn
           IN /\ c \in DOMAIN conn /\ conn[c].mod = m /\ c # NoConn
              /\ Has(Out(c), Head(modTask[m].buf).type)
              /\ Has(modTask[m].buf, Head(modTask[m].buf).type)
              /\ Out(c) # <<>> /\ Head(Out(c)) = Head(modTask[m].buf)
              /\ \A t : Has(modTask[m].buf, t) => Has(Out(c), t)
  <1> DEFINE c == modTask[m].conn
             b == modTask[m].buf
  <1>1. c \in DOMAIN conn /\ conn[c].mod = m
    BY ModInHand
  <1>2. /\ c # NoConn /\ b \in Seq(ModMsg) /\ conn[c].toMod \in Seq(ModMsg)
        /\ Out(c) = b \o conn[c].toMod
    BY <1>1, OutFacts DEF Out, OutHandOf
  <1> DEFINE q == conn[c].toMod
  <1>3. b # <<>>
    OBVIOUS
  <1> HIDE DEF b, q
  <1>4. b \o q # <<>> /\ Head(b \o q) = Head(b)
    BY <1>2, <1>3, Streams DEF q
  <1>5. \A t : Has(b, t) => Has(b \o q, t)
    BY <1>2, HasParts DEF q
  <1>6. Has(b, Head(b).type)
    BY <1>2, <1>3, HasTail
  <1> QED
    BY <1>1, <1>2, <1>3, <1>4, <1>5, <1>6 DEF b, q

LEMMA TellSteps ==
    ASSUME AddressInv, HandInv, TypeInv', [Next]_vars, ~Dials, AssignActive,
           NEW c \in DOMAIN conn, conn'[c].sEnd # "closed"
    PROVE  TellStep(c)
  <1> DEFINE m == conn[c].mod
  <1>1. InStep(c)
    BY InSteps
  <1>2. CASE Written(c)
    <2>1. PICK w \in Seq(SrvMsg) : Writes(m, c, w) /\ In(c)' = In(c) \o w
      BY <1>2 DEF Written
    <2>2. ASSUME Answers(m, c, w)
          PROVE  Answered(c)
      <3>1. /\ HandleAssignId(m) /\ modTask[m].buf # <<>> /\ Head(modTask[m].buf).type = Asg
            /\ Head(modTask[m].buf).name = Name[m] /\ m \in Modules
        BY <2>2, OutFacts DEF Answers, Asg
      <3>2. mActive[m] = modTask[m].conn /\ mActive[m] # NoConn
        BY <3>1, ModHandHead DEF AssignActive
      <3>3. c = modTask[m].conn /\ w = <<Expose(m, Head(modTask[m].buf).id),
                                         Describe(m, Head(modTask[m].buf).id)>>
        BY <2>2, <3>2 DEF Answers
      <3>4. Received(c)
        <4>1. modTask' = [modTask EXCEPT ![m] = Rest(modTask[m])]
          BY <3>1 DEF HandleAssignId
        <4>2. conn'[c].mod = conn[c].mod /\ conn'[c].toMod = conn[c].toMod
          BY <3>1, AssignOut, MailStep
        <4> QED
          BY <3>1, <3>3, <4>1, <4>2, RestOut
      <3> QED
        BY <2>1, <3>1, <3>3, <3>4 DEF Answered
    <2> QED
      BY <2>1, <2>2 DEF Writes, TellStep, Reported1
  <1> QED
    BY <1>1, <1>2 DEF InStep, TellStep

(* An open connection keeps the ids that the server maps to it.              *)
LEMMA KeysStay ==
    ASSUME AddressInv, HandInv, ShareInv, MappedBelow, TypeInv', [Next]_vars,
           NEW c \in DOMAIN conn, conn'[c].sEnd # "closed"
    PROVE  /\ conn[c].sEnd # "closed" /\ KeysAt(c) \subseteq KeysAt(c)'
           /\ KeysAt(c)' = KeysOf(sMap'[conn[c].srv], c)
  <1> DEFINE s == conn[c].srv
             f == sMap[s]
  <1>1. s \in Servers /\ conn'[c].srv = s /\ conn \in Seq(Conn) /\ On(sMap, Servers)
    BY InFacts, MailStep, Facts DEF AddressInv, ServerTypes
  <1>2. conn[c].sEnd # "closed"
    <2>1. (\E x \in Servers : ServerStep(x)) => conn[c].sEnd # "closed"
      BY ServerEnds DEF SrvEnds
    <2>2. (\E m \in Modules : ModuleStep(m)) => conn[c].sEnd # "closed"
      BY ModuleEnds DEF ModEnds
    <2> QED
      BY <2>1, <2>2, EachStep DEF vars
  <1>3. KeysOf(f, c) \subseteq KeysOf(sMap'[s], c)
    <2>1. ASSUME sMap'[s] = f
          PROVE  KeysOf(f, c) \subseteq KeysOf(sMap'[s], c)
      BY <2>1
    <2>2. CASE \/ \E x \in Servers \ {s} : ServerStep(x)
               \/ \E m \in Modules : ModuleStep(m)
               \/ UNCHANGED vars
      BY <1>1, <2>1, <2>2, OthersAlone DEF AddressInv
    <2>3. ASSUME NEW d \in DOMAIN conn, SrvEof(s, d)
          PROVE  KeysOf(f, c) \subseteq KeysOf(sMap'[s], c)
      <3>1. conn' = CloseSrv(conn, {d})
        BY <2>3 DEF SrvEof
      <3>2. c # d
        BY <1>1, <3>1, ClosesEnds
      <3>3. \/ sMap' = sMap
            \/ KeysOf(f, d) # {} /\ sMap' = [sMap EXCEPT ![s] = Del(f, FirstKey(f, d))]
        BY <2>3 DEF SrvEof
      <3>4. ASSUME KeysOf(f, d) # {}, sMap' = [sMap EXCEPT ![s] = Del(f, FirstKey(f, d))]
            PROVE  KeysOf(f, c) \subseteq KeysOf(sMap'[s], c)
        <4>1. FirstKey(f, d) \in KeysOf(f, d)
          BY <1>1, <3>4, OnlyMapped DEF AddressInv, ShareInv
        <4>2. sMap'[s] = Del(f, FirstKey(f, d))
          BY <1>1, <3>4 DEF On
        <4> HIDE DEF f
        <4> QED
          BY <3>2, <4>1, <4>2 DEF Del, KeysOf
      <3> QED
        BY <2>1, <3>3, <3>4
    <2>4. ASSUME HandleDeclareDuplicate(s)
          PROVE  sMap'[s] = f
      <3>1. KeysOf(f, sActive[s]) = {}
        BY <1>1, <2>4, DuplicateHere DEF HandleDeclareDuplicate, SrvMsgIs, ShareInv
      <3> QED
        BY <2>4, <3>1 DEF HandleDeclareDuplicate, srvCommVars
    <2>5. ASSUME AssignModuleID(s)
          PROVE  KeysOf(f, c) \subseteq KeysOf(sMap'[s], c)
      <3>1. sMap'[s] = Put(f, nextObjId[s], sActive[s])
        BY <1>1, <2>5, AssignFacts DEF ShareInv
      <3>2. \A i \in DOMAIN f : i # nextObjId[s]
        <4>1. \A i \in DOMAIN f : i < nextObjId[s] /\ i \in Int
          BY <1>1, Facts DEF MappedBelow, AddressInv, ServerTypes, Ids
        <4>2. nextObjId[s] \in Int
          BY <1>1, SameAs DEF AddressInv
        <4> QED
          BY <4>1, <4>2
      <3> HIDE DEF f
      <3> QED
        BY <3>1, <3>2 DEF Put, KeysOf
    <2>6. ~SrvStop(s)
      <3>1. SrvStop(s) => conn' = CloseSrv(conn, {d \in DOMAIN conn : conn[d].srv = s})
        BY DEF SrvStop
      <3> QED
        BY <1>1, <3>1, ClosesEnds
    <2>7. ~SrvStart(s)
      BY <1>2 DEF SrvStart, HandInv, EndsUp
    <2>8. ASSUME SrvIO(s) \/ SrvPython(s)
          PROVE  KeysOf(f, c) \subseteq KeysOf(sMap'[s], c)
      <3>1. (\E d \in DOMAIN conn : SrvAccept(s, d)) => sMap'[s] = f
        BY DEF SrvAccept
      <3>2. (\E d \in DOMAIN conn : \E n \in 1..Len(conn[d].toSrv) : SrvRead(s, d, n))
               => sMap'[s] = f
        BY DEF SrvRead
      <3>3. (\E m \in Modules : SrvUdpDeclare(s, m)) => sMap'[s] = f
        BY DEF SrvUdpDeclare
      <3>4. HandleDeclareNew(s) \/ HandleModuleShutdown(s) \/ HandleExpose(s)
            \/ HandleDesc(s) \/ HandleValue(s) => sMap'[s] = f
        BY DEF HandleDeclareNew, HandleModuleShutdown, HandleExpose, HandleDesc,
               HandleValue, SrvApply, srvCommVars
      <3>6. ObjectWork(s) \/ EndDisconnect(s) => sMap'[s] = f
        BY <1>1, ObjectWorkKeeps
      <3>5. SrvPython(s) => sMap'[s] = f
        BY <3>6 DEF SrvPython, Discover, SendDiscovery, Connect, Disconnect, CallRemote,
                    srvCommVars
      <3> QED
        BY <2>1, <2>3, <2>4, <2>5, <2>8, <3>1, <3>2, <3>3, <3>4, <3>5, <3>6 DEF SrvIO
    <2> QED
      BY <1>1, <2>2, <2>6, <2>7, <2>8, EachStep DEF ServerStep
  <1> QED
    BY <1>1, <1>2, <1>3 DEF KeysAt

(* Where what is under way after a step comes from.                          *)
LEMMA OutFrom ==
    ASSUME AddressInv, NEW c \in DOMAIN conn, OutStep(c), NEW j \in DOMAIN Out(c)'
    PROVE  \/ \E i \in DOMAIN Out(c) : Out(c)[i] = Out(c)'[j]
           \/ \E x \in ModMsg : /\ Sends(conn[c].srv, c, x) /\ x = Out(c)'[j]
                                /\ conn'[c].mEnd # "closed"
  <1> DEFINE p == Out(c)
             q == Out(c)'
  <1>1. p \in Seq(ModMsg)
    BY OutFacts
  <1>2. CASE q = p
    BY <1>2
  <1>3. CASE Received(c)
    <2>1. p # <<>> /\ q = Tail(p)
      BY <1>3 DEF Received
    <2> HIDE DEF p, q
    <2>2. \A i \in DOMAIN Tail(p) : i + 1 \in DOMAIN p /\ Tail(p)[i] = p[i + 1]
      BY <1>1, <2>1, Tails
    <2>3. j \in DOMAIN Tail(p)
      BY <2>1 DEF q
    <2> QED
      BY <2>1, <2>2, <2>3 DEF p, q
  <1>4. CASE Sent(c)
    <2>1. PICK x \in ModMsg : /\ Sends(conn[c].srv, c, x) /\ q = Append(p, x)
                              /\ conn'[c].mEnd # "closed"
      BY <1>4 DEF Sent
    <2> HIDE DEF p, q
    <2>2. /\ Append(p, x) = p \o <<x>> /\ <<x>> \in Seq(ModMsg)
          /\ DOMAIN <<x>> = {1} /\ <<x>>[1] = x
      BY <1>1, AppendIsConcat
    <2>3. j \in DOMAIN q
      BY DEF q
    <2>4. (j \in DOMAIN p /\ q[j] = p[j]) \/ \E i \in DOMAIN <<x>> : q[j] = <<x>>[i]
      BY <1>1, <2>1, <2>2, <2>3, Parts
    <2>5. (\E i \in DOMAIN p : p[i] = q[j]) \/ x = q[j]
      BY <2>2, <2>4
    <2> QED
      BY <2>1, <2>5 DEF p, q
  <1>5. q # <<>>
    OBVIOUS
  <1> QED
    BY <1>2, <1>3, <1>4, <1>5 DEF OutStep

LEMMA AnsweredId ==
    ASSUME TypeInv, NEW m \in Modules, HandleAssignId(m)
    PROVE  Head(modTask[m].buf).id \in Ids /\ Head(modTask[m].buf).id \in Int
  <1>1. ModMsgIs(m, "MODULE_ASSIGN_ID")
    BY DEF HandleAssignId
  <1> QED
    BY <1>1, ModMsgFacts, ByteType

LEMMA TellFrom ==
    ASSUME AddressInv, NEW c \in DOMAIN conn, TellStep(c), NEW j \in DOMAIN In(c)'
    PROVE  \/ \E i \in DOMAIN In(c) : In(c)[i] = In(c)'[j]
           \/ \E x \in SrvMsg :
                 /\ x.type \in {"ATTR_VALUE_UPDATE", "ATTR_METD_RESP", "MODULE_SHUTDOWN"}
                 /\ UnderItsId(conn[c].mod, c, x) /\ x = In(c)'[j]
                 /\ x.type = "MODULE_SHUTDOWN" => conn'[c].mEnd = "closed"
           \/ LET m == conn[c].mod
                  x == Head(modTask[m].buf)
              IN Answered(c) /\ In(c)'[j] \in {Expose(m, x.id), Describe(m, x.id)}
  <1> DEFINE p == In(c)
             q == In(c)'
             m == conn[c].mod
  <1>1. p \in Seq(SrvMsg) /\ m \in Modules
    BY InFacts
  <1>2. CASE q = p
    BY <1>2
  <1>3. CASE Handled(c)
    <2>1. p # <<>> /\ q = Tail(p)
      <3>1. ioTask[conn[c].srv].buf # <<>> /\ ioTask[conn[c].srv].conn = c /\ q = Tail(p)
        BY <1>3 DEF Handled
      <3>2. p # <<>>
        BY <3>1, HandHead, InFacts
      <3> QED
        BY <3>1, <3>2
    <2> HIDE DEF p, q
    <2>2. \A i \in DOMAIN Tail(p) : i + 1 \in DOMAIN p /\ Tail(p)[i] = p[i + 1]
      BY <1>1, <2>1, Tails
    <2>3. j \in DOMAIN Tail(p)
      BY <2>1 DEF q
    <2> QED
      BY <2>1, <2>2, <2>3 DEF p, q
  <1>4. ASSUME NEW w \in Seq(SrvMsg), q = p \o w
        PROVE  (\E i \in DOMAIN p : p[i] = q[j]) \/ \E i \in DOMAIN w : q[j] = w[i]
    <2>1. j \in DOMAIN q
      OBVIOUS
    <2> HIDE DEF p, q
    <2> QED
      BY <1>1, <1>4, <2>1, Parts
  <1>5. CASE Reported1(c)
    <2>1. PICK x \in SrvMsg :
            /\ x.type \in {"ATTR_VALUE_UPDATE", "ATTR_METD_RESP", "MODULE_SHUTDOWN"}
            /\ UnderItsId(m, c, x)
            /\ x.type = "MODULE_SHUTDOWN" => conn'[c].mEnd = "closed"
            /\ q = p \o <<x>>
      BY <1>5 DEF Reported1
    <2>2. <<x>> \in Seq(SrvMsg) /\ DOMAIN <<x>> = {1} /\ <<x>>[1] = x
      OBVIOUS
    <2>3. (\E i \in DOMAIN p : p[i] = q[j]) \/ x = q[j]
      BY <1>4, <2>1, <2>2
    <2> QED
      BY <2>1, <2>3
  <1>6. CASE Answered(c)
    <2> DEFINE i == Head(modTask[m].buf).id
               e == Expose(m, i)
               d == Describe(m, i)
    <2>1. q = p \o <<e, d>>
      BY <1>6 DEF Answered
    <2>2. e \in SrvMsg /\ d \in SrvMsg
      <3>1. i \in Int
        BY <1>1, <1>6, AnsweredId DEF Answered, AddressInv
      <3> QED
        BY <1>1, <3>1, ModuleMessages DEF Expose, Describe, Reports
    <2> HIDE DEF e, d
    <2>3. <<e, d>> \in Seq(SrvMsg) /\ \A n \in DOMAIN <<e, d>> : <<e, d>>[n] \in {e, d}
      BY <2>2
    <2>4. (\E n \in DOMAIN p : p[n] = q[j]) \/ q[j] \in {e, d}
      BY <1>4, <2>1, <2>3
    <2> QED
      BY <1>6, <2>4 DEF e, d
  <1> QED
    BY <1>2, <1>3, <1>5, <1>6 DEF TellStep

(* A connection carries one MODULE_ASSIGN_ID, and none when it has exposed.  *)
LEMMA AssignSent ==
    ASSUME AddressInv, HandInv, ShareInv, TypeInv', [Next]_vars,
           NEW c \in DOMAIN conn, NEW x, Sends(conn[c].srv, c, x), x.type = Asg
    PROVE  KeysAt(c) = {} /\ conn[c].sEnd # "closed" /\ x.id \in KeysAt(c)'
  <1> DEFINE s == conn[c].srv
  <1>1. AssignModuleID(s) /\ c = sActive[s] /\ x.id = nextObjId[s] /\ s \in Servers
    BY InFacts DEF Sends
  <1>2. /\ c = ioTask[s].conn /\ ioTask[s].buf # <<>> /\ KeysOf(sMap[s], c) = {}
        /\ sMap'[s] = Put(sMap[s], nextObjId[s], c) /\ SameEnds(conn, conn')
    BY <1>1, AssignFacts DEF ShareInv
  <1>3. conn[c].sEnd = "open"
    BY <1>1, <1>2 DEF HandInv, OpenHand
  <1>4. conn'[c].srv = s
    BY MailStep
  <1>5. x.id \in KeysOf(sMap'[s], c)
    BY <1>1, <1>2 DEF Put, KeysOf
  <1> QED
    BY <1>2, <1>3, <1>4, <1>5 DEF KeysAt

LEMMA AssignOnceStep ==
    ASSUME AddressInv, RememberInv, DeadClosed, HandInv, ShareInv, TypeInv', [Next]_vars,
           ~Dials, AssignOnce, AssignMapped, NEW c \in DOMAIN conn'
    PROVE  Once(Out(c)', Asg)
  <1>1. CASE c \notin DOMAIN conn
    BY <1>1, NewOut, OneAndTwo
  <1>2. CASE c \in DOMAIN conn
    <2> DEFINE p == Out(c)
    <2>1. p \in Seq(ModMsg) /\ Once(p, Asg)
      BY <1>2, OutFacts DEF AssignOnce
    <2>2. OutStep(c)
      BY <1>2, OutSteps
    <2>3. CASE Received(c)
      <3>1. p # <<>> /\ Out(c)' = Tail(p)
        BY <2>3 DEF Received
      <3> HIDE DEF p
      <3> QED
        BY <2>1, <3>1, HasTail
    <2>4. CASE Sent(c)
      <3>1. PICK x \in ModMsg : Sends(conn[c].srv, c, x) /\ Out(c)' = Append(p, x)
        BY <2>4 DEF Sent
      <3>2. x.type = Asg => ~Has(p, Asg)
        BY <1>2, <3>1, AssignSent DEF AssignMapped, Has
      <3> HIDE DEF p
      <3>3. Append(p, x) = p \o <<x>> /\ <<x>> \in Seq(ModMsg)
        BY <2>1, AppendIsConcat
      <3>4. (Has(<<x>>, Asg) <=> x.type = Asg) /\ Once(<<x>>, Asg)
        BY OneAndTwo
      <3>5. Once(p \o <<x>>, Asg)
        BY <2>1, <3>2, <3>3, <3>4, OnceParts
      <3> QED
        BY <3>1, <3>3, <3>5
    <2> QED
      BY <2>1, <2>2, <2>3, <2>4, OneAndTwo DEF OutStep
  <1> QED
    BY <1>1, <1>2

LEMMA AssignMappedStep ==
    ASSUME AddressInv, RememberInv, DeadClosed, HandInv, ShareInv, MappedBelow,
           TypeInv', [Next]_vars, ~Dials, AssignMapped,
           NEW c \in DOMAIN conn', conn'[c].sEnd # "closed",
           NEW j \in DOMAIN Out(c)', Out(c)'[j].type = Asg
    PROVE  Out(c)'[j].id \in KeysAt(c)'
  <1>1. c \in DOMAIN conn
    BY NewOut
  <1>2. OutStep(c) /\ conn[c].sEnd # "closed" /\ KeysAt(c) \subseteq KeysAt(c)'
    BY <1>1, OutSteps, KeysStay
  <1>3. \/ \E i \in DOMAIN Out(c) : Out(c)[i] = Out(c)'[j]
        \/ \E x \in ModMsg : Sends(conn[c].srv, c, x) /\ x = Out(c)'[j]
    BY <1>1, <1>2, OutFrom
  <1>4. ASSUME NEW i \in DOMAIN Out(c), Out(c)[i] = Out(c)'[j]
        PROVE  Out(c)'[j].id \in KeysAt(c)
    BY <1>1, <1>2, <1>4 DEF AssignMapped
  <1>5. ASSUME NEW x \in ModMsg, Sends(conn[c].srv, c, x), x = Out(c)'[j]
        PROVE  Out(c)'[j].id \in KeysAt(c)'
    BY <1>1, <1>5, AssignSent
  <1> QED
    BY <1>2, <1>3, <1>4, <1>5

(* While a program works on what it has read, only the assignment of an id   *)
(* changes its last used channel.                                            *)
LEMMA ActiveStays ==
    ASSUME AddressInv, [Next]_vars, ~Dials, NEW m \in Modules,
           modTask[m].buf # <<>>, modTask'[m].buf # <<>>
    PROVE  mActive'[m] = mActive[m] \/ HandleAssignId(m)
  <1>1. UNCHANGED vars => mActive'[m] = mActive[m]
    BY DEF vars
  <1>2. (\E s \in Servers : ServerStep(s)) => mActive'[m] = mActive[m]
    BY ServerLeaves
  <1>3. /\ mActive \in [Modules -> {NoConn} \cup DOMAIN conn]
        /\ modTask \in [Modules -> Task(ModMsg)]
    BY Facts DEF AddressInv, ModuleTypes
  <1>4. modTask[m] # Idle
    BY DEF Idle
  <1>5. ASSUME NEW x \in Modules \ {m}, ModuleStep(x)
        PROVE  mActive'[m] = mActive[m]
    BY <1>3, <1>5
    DEF ModuleStep, ModLoop, ModProgram, ModAccept, ModEof, ModRead, ModUdpDiscovery,
        HandleDiscovery, HandleServerShutdown, HandleAssignId, HandleCall,
        UpdateAttribute, ModStart, ModCrash, ModShutdown, ModMemory, modCommVars
  <1>6. ASSUME ModuleStep(m)
        PROVE  mActive'[m] = mActive[m] \/ HandleAssignId(m)
    <2>1. ~HandleDiscovery(m)
      BY ModInHand DEF HandleDiscovery, ModMsgIs, AddressInv, Addressed
    <2>2. ModStart(m) \/ ModCrash(m) \/ ModShutdown(m) => modTask'[m].buf = <<>>
      BY <1>3 DEF ModStart, ModCrash, ModShutdown, ModMemory, Idle
    <2>3. ModLoop(m) => mActive'[m] = mActive[m] \/ HandleAssignId(m)
      BY <1>4, <2>1 DEF ModLoop, ModAccept, ModEof, ModRead, ModUdpDiscovery,
                        HandleServerShutdown, HandleCall
    <2>4. UpdateAttribute(m) => mActive'[m] = mActive[m]
      BY DEF UpdateAttribute, modCommVars
    <2> QED
      BY <1>6, <2>2, <2>3, <2>4 DEF ModuleStep, ModProgram
  <1> QED
    BY <1>1, <1>2, <1>5, <1>6, EachStep

LEMMA HasRange ==
    ASSUME NEW p, NEW q, NEW t, Range(p) \subseteq Range(q), Has(p, t)
    PROVE  Has(q, t)
  BY DEF Has, Range

LEMMA AssignActiveStep ==
    ASSUME AddressInv, RememberInv, TypeInv', [Next]_vars, ~Dials, AssignOnce,
           AssignActive, NEW m \in Modules, Has(modTask'[m].buf, Asg)
    PROVE  mActive'[m] = modTask'[m].conn
  <1>1. modTask'[m].buf # <<>>
    BY OneAndTwo
  <1>2. ModHand(m)
    BY ModHands DEF AddressInv
  <1> SUFFICES ASSUME modTask[m].buf # <<>>, modTask'[m].conn = modTask[m].conn,
                      Range(modTask'[m].buf) \subseteq Range(modTask[m].buf)
               PROVE  mActive'[m] = modTask'[m].conn
    BY <1>1, <1>2 DEF ModHand
  <1>3. mActive[m] = modTask[m].conn
    <2>1. Has(modTask[m].buf, Asg)
      BY HasRange
    <2> QED
      BY <2>1 DEF AssignActive
  <1>4. ~HandleAssignId(m)
    <2> SUFFICES ASSUME HandleAssignId(m) PROVE FALSE
      OBVIOUS
    <2>0. PICK c : c = modTask[m].conn
      OBVIOUS
    <2>1. /\ c \in DOMAIN conn /\ conn[c].mod = m /\ Out(c) # <<>>
          /\ Head(Out(c)) = Head(modTask[m].buf)
      BY <2>0, ModHandHead
    <2>2. Head(Out(c)).type = Asg /\ modTask' = [modTask EXCEPT ![m] = Rest(modTask[m])]
      BY <2>1 DEF HandleAssignId, ModMsgIs, Asg
    <2>3. Wires
      BY StepWires
    <2>4. conn'[c].mod = conn[c].mod /\ conn'[c].toMod = conn[c].toMod
      BY <2>1, <2>3, AssignOut, MailStep
    <2>5. Out(c)' = Tail(Out(c))
      BY <2>0, <2>1, <2>2, <2>4, RestOut DEF Received
    <2>6. Out(c) \in Seq(ModMsg) /\ Once(Out(c), Asg)
      BY <2>1, OutFacts DEF AssignOnce
    <2>7. ~Has(Out(c)', Asg)
      <3> DEFINE p == Out(c)
      <3>1. p \in Seq(ModMsg) /\ p # <<>> /\ Once(p, Asg) /\ Head(p).type = Asg
        BY <2>1, <2>2, <2>6
      <3> HIDE DEF p
      <3>2. ~Has(Tail(p), Asg)
        BY <3>1, HasTail
      <3> QED
        BY <2>5, <3>2 DEF p
    <2>8. Out(c)' = modTask'[m].buf \o conn'[c].toMod
      BY <2>0, <2>1, <2>4 DEF Out, OutHandOf
    <2>9. modTask'[m].buf \in Seq(ModMsg) /\ conn'[c].toMod \in Seq(ModMsg)
      <3>1. modTask'[m] \in Task(ModMsg)
        BY DEF TypeInv, TypeOK, ModuleTypes
      <3> QED
        BY <2>1, <2>4, <3>1, OutFacts DEF Task
    <2> QED
      BY <2>7, <2>8, <2>9, HasParts
  <1> QED
    BY <1>1, <1>3, <1>4, ActiveStays

LEMMA ToldMappedStep ==
    ASSUME AddressInv, RememberInv, DeadClosed, HandInv, ShareInv, MappedBelow,
           TypeInv', [Next]_vars, ~Dials, AssignInv, ToldMapped,
           NEW c \in DOMAIN conn', conn'[c].sEnd # "closed",
           NEW j \in DOMAIN In(c)', In(c)'[j].type \in {Exp, Dsc}
    PROVE  In(c)'[j].id \in KeysAt(c)' /\ ~Has(Out(c)', Asg)
  <1>1. c \in DOMAIN conn
    <2> SUFFICES ASSUME c \notin DOMAIN conn PROVE FALSE
      OBVIOUS
    <2>1. PICK m \in Modules : In(c)' = <<Declare(m)>>
      BY NewIn
    <2>2. In(c)'[j].type = "MODULE_DECLARE"
      BY <2>1 DEF Declare
    <2> QED
      BY <2>2 DEF Exp, Dsc
  <1>2. /\ OutStep(c) /\ TellStep(c) /\ conn[c].sEnd # "closed"
        /\ KeysAt(c) \subseteq KeysAt(c)'
    BY <1>1, OutSteps, TellSteps, KeysStay DEF AssignInv
  <1>3. ASSUME NEW k \in DOMAIN In(c), In(c)[k].type \in {Exp, Dsc}
        PROVE  In(c)[k].id \in KeysAt(c) /\ ~Has(Out(c), Asg) /\ ~Has(Out(c)', Asg)
    <2>1. In(c)[k].id \in KeysAt(c) /\ ~Has(Out(c), Asg)
      BY <1>1, <1>2, <1>3 DEF ToldMapped
    <2>2. ASSUME NEW n \in DOMAIN Out(c)', Out(c)'[n].type = Asg
          PROVE  FALSE
      <3>1. ~\E i \in DOMAIN Out(c) : Out(c)[i] = Out(c)'[n]
        BY <2>1, <2>2 DEF Has
      <3>2. PICK x \in ModMsg : Sends(conn[c].srv, c, x) /\ x = Out(c)'[n]
        BY <1>1, <1>2, <3>1, OutFrom
      <3> QED
        BY <1>1, <2>1, <2>2, <3>2, AssignSent
    <2> QED
      BY <2>1, <2>2 DEF Has
  <1>4. \/ \E i \in DOMAIN In(c) : In(c)[i] = In(c)'[j]
        \/ LET m == conn[c].mod
               x == Head(modTask[m].buf)
           IN Answered(c) /\ In(c)'[j] \in {Expose(m, x.id), Describe(m, x.id)}
    BY <1>1, <1>2, TellFrom DEF Exp, Dsc
  <1>5. ASSUME NEW i \in DOMAIN In(c), In(c)[i] = In(c)'[j]
        PROVE  In(c)'[j].id \in KeysAt(c)' /\ ~Has(Out(c)', Asg)
    BY <1>2, <1>3, <1>5
  <1>6. ASSUME Answered(c),
               LET m == conn[c].mod
                   x == Head(modTask[m].buf)
               IN In(c)'[j] \in {Expose(m, x.id), Describe(m, x.id)}
        PROVE  In(c)'[j].id \in KeysAt(c)' /\ ~Has(Out(c)', Asg)
    <2> DEFINE m == conn[c].mod
               x == Head(modTask[m].buf)
               p == Out(c)
    <2>1. /\ p # <<>> /\ Head(p) = x /\ x.type = Asg /\ Out(c)' = Tail(p)
          /\ HandleAssignId(m) /\ m \in Modules
      BY <1>1, <1>6, OutFacts DEF Answered, Received
    <2>2. p \in Seq(ModMsg) /\ Once(p, Asg)
      BY <1>1, OutFacts DEF AssignInv, AssignOnce
    <2>3. x.id \in KeysAt(c)
      <3>1. 1 \in DOMAIN p /\ p[1] = x
        BY <2>1, <2>2, Tails
      <3> QED
        BY <1>1, <1>2, <2>1, <3>1 DEF AssignInv, AssignMapped
    <2>4. In(c)'[j].id = x.id
      <3>1. Byte(x.id) = x.id
        BY <2>1, AnsweredId, ByteType DEF AddressInv
      <3> QED
        BY <1>6, <3>1 DEF Expose, Describe, FromModule
    <2>5. ~Has(Out(c)', Asg)
      <3>1. Head(p).type = Asg
        BY <2>1
      <3> HIDE DEF p, x
      <3>2. ~Has(Tail(p), Asg)
        BY <2>1, <2>2, <3>1, HasTail
      <3> QED
        BY <2>1, <3>2
    <2> QED
      BY <1>2, <2>3, <2>4, <2>5
  <1> QED
    BY <1>4, <1>5, <1>6

LEMMA ToldOnceStep ==
    ASSUME AddressInv, HandInv, ShareInv, MappedBelow,
           TypeInv', [Next]_vars, ~Dials, AssignInv, ToldInv,
           NEW c \in DOMAIN conn', conn'[c].sEnd # "closed"
    PROVE  Once(In(c)', Exp)
  <1>1. CASE c \notin DOMAIN conn
    <2>1. In(c)' = <<>> \/ \E m \in Modules : In(c)' = <<Declare(m)>>
      BY <1>1, NewIn
    <2>2. Once(<<>>, Exp) /\ \A m \in Modules : Once(<<Declare(m)>>, Exp)
      BY OneAndTwo
    <2> QED
      BY <2>1, <2>2
  <1>2. CASE c \in DOMAIN conn
    <2> DEFINE p == In(c)
               m == conn[c].mod
    <2>1. TellStep(c) /\ conn[c].sEnd # "closed" /\ p \in Seq(SrvMsg) /\ m \in Modules
      BY <1>2, TellSteps, KeysStay, InFacts DEF AssignInv
    <2>2. Once(p, Exp)
      BY <1>2, <2>1 DEF ToldInv, AssignedOnce
    <2>3. CASE Handled(c)
      <3>1. In(c)' = Tail(p) /\ p # <<>>
        <4>1. /\ ioTask[conn[c].srv].buf # <<>> /\ ioTask[conn[c].srv].conn = c
              /\ conn[c].srv \in Servers /\ In(c)' = Tail(p)
          BY <1>2, <2>3, InFacts DEF Handled
        <4> QED
          BY <4>1, HandHead
      <3> HIDE DEF p
      <3> QED
        BY <2>1, <2>2, <3>1, HasTail
    <2>4. CASE Reported1(c)
      <3>1. PICK x \in SrvMsg :
              /\ x.type \in {"ATTR_VALUE_UPDATE", "ATTR_METD_RESP", "MODULE_SHUTDOWN"}
              /\ In(c)' = p \o <<x>>
        BY <2>4 DEF Reported1
      <3>2. <<x>> \in Seq(SrvMsg) /\ ~Has(<<x>>, Exp)
        <4>1. x.type # Exp /\ (Has(<<x>>, Exp) <=> x.type = Exp)
          BY <3>1, OneAndTwo DEF Exp
        <4> QED
          BY <4>1
      <3> HIDE DEF p
      <3> QED
        BY <2>1, <2>2, <3>1, <3>2, OnceParts
    <2>5. CASE Answered(c)
      <3> DEFINE i == Head(modTask[m].buf).id
                 e == Expose(m, i)
                 d == Describe(m, i)
      <3>1. /\ In(c)' = p \o <<e, d>> /\ HandleAssignId(m)
            /\ Out(c) # <<>> /\ Head(Out(c)).type = Asg
        BY <2>5 DEF Answered, Received
      <3>2. ~Has(p, Exp)
        <4>1. Has(Out(c), Asg)
          BY <1>2, <3>1, OutFacts, HasTail
        <4> QED
          BY <1>2, <2>1, <4>1 DEF ToldInv, ToldMapped, Has
      <3>3. e \in SrvMsg /\ d \in SrvMsg /\ e.type = Exp /\ d.type = Dsc
        <4>1. i \in Int
          BY <2>1, <3>1, AnsweredId DEF AddressInv
        <4> QED
          BY <2>1, <4>1, ModuleMessages DEF Expose, Describe, Reports, FromModule, Exp, Dsc
      <3> HIDE DEF e, d, p
      <3>4. Once(<<e, d>>, Exp) /\ <<e, d>> \in Seq(SrvMsg)
        <4>1. e.type # d.type
          BY <3>3 DEF Exp, Dsc
        <4>2. Once(<<e, d>>, Exp)
          BY <4>1, OneAndTwo
        <4>3. <<e, d>> \in Seq(SrvMsg)
          BY <3>3
        <4> QED
          BY <4>2, <4>3
      <3> QED
        BY <2>1, <3>1, <3>2, <3>4, OnceParts
    <2> QED
      BY <2>1, <2>2, <2>3, <2>4, <2>5 DEF TellStep
  <1> QED
    BY <1>1, <1>2

LEMMA AssignInvStep ==
    ASSUME AddressInv, RememberInv, DeadClosed, HandInv, ShareInv, MappedBelow,
           TypeInv', [Next]_vars, ~Dials, AssignInv, ToldInv
    PROVE  AssignInv' /\ ToldInv'
  <1>1. AssignOnce'
    BY AssignOnceStep DEF AssignOnce, AssignInv
  <1>2. AssignActive'
    BY AssignActiveStep DEF AssignActive, AssignInv
  <1>3. AssignMapped'
    BY AssignMappedStep DEF AssignMapped, AssignInv
  <1>4. ToldMapped'
    BY ToldMappedStep DEF ToldMapped, ToldInv
  <1>5. AssignedOnce'
    BY ToldOnceStep DEF AssignedOnce
  <1> QED
    BY <1>1, <1>2, <1>3, <1>4, <1>5 DEF AssignInv, ToldInv

-----------------------------------------------------------------------------
(* What happens to an object is told once *)

Raw(r)   == r.exposed = 0 /\ ~r.described
Takes(s) == HandleExpose(s) \/ HandleDesc(s) \/ HandleValue(s)

(* An object after a step is new, or one that no message was applied to, or  *)
(* what the message in hand makes of one that it names.                      *)
Made(s, r)    == Declared(s, r) /\ Raw(r)
Left(s, r)    == /\ r \in modules[s]
                 /\ Takes(s) => Head(ioTask[s].buf).id % IdMask # r.id
Touched(s, r) == /\ Takes(s)
                 /\ \E o \in modules[s] : /\ o.id = Head(ioTask[s].buf).id % IdMask
                                          /\ r = Applied(o, Head(ioTask[s].buf))
ObjectsMade(s) == \A r \in modules'[s] : Made(s, r) \/ Left(s, r) \/ Touched(s, r)

(* The types of the messages that are applied to objects.                    *)
Told4 == {Exp, Dsc, "ATTR_VALUE_UPDATE", "ATTR_METD_RESP"}

LEMMA TakesFacts ==
    ASSUME TypeInv, NEW s \in Servers, Takes(s)
    PROVE  /\ SrvApply(s, Told4) /\ ioTask[s].buf # <<>> /\ ~ioTask[s].assigning
           /\ Head(ioTask[s].buf).type \in Told4 /\ Head(ioTask[s].buf) \in SrvMsg
           /\ ioTask' = [ioTask EXCEPT ![s] = Rest(ioTask[s])]
           /\ UNCHANGED <<nextObjId, sMap, sActive, modTask, conn>>
  <1>1. ASSUME NEW types, types \subseteq Told4, SrvApply(s, types)
        PROVE  SrvApply(s, Told4)
    BY <1>1 DEF SrvApply, SrvMsgIs
  <1>2. SrvApply(s, Told4)
    BY <1>1 DEF Takes, HandleExpose, HandleDesc, HandleValue, Told4, Exp, Dsc
  <1>3. /\ ioTask[s].buf # <<>> /\ ~ioTask[s].assigning
        /\ Head(ioTask[s].buf).type \in Told4
        /\ ioTask' = [ioTask EXCEPT ![s] = Rest(ioTask[s])]
        /\ UNCHANGED <<nextObjId, sMap, sActive, modTask, conn>>
    BY <1>2 DEF SrvApply, SrvMsgIs, srvCommVars, modCommVars
  <1>4. Head(ioTask[s].buf) \in SrvMsg
    BY <1>3, Facts, HeadType
  <1> QED
    BY <1>2, <1>3, <1>4

LEMMA ObjectsMadeSteps ==
    ASSUME AddressInv, [Next]_vars, NEW s \in Servers
    PROVE  ObjectsMade(s)
  <1>1. /\ On(modules, Servers) /\ On(ioTask, Servers)
        /\ ioTask[s] \in Task(SrvMsg) /\ modules[s] \subseteq ModuleRec
        /\ TypeInv /\ WorkOf(s)
    BY Facts DEF AddressInv, Working, RegistryTypes, ServerTypes, On
  <1>2. modules'[s] \subseteq modules[s] /\ ~Takes(s) => ObjectsMade(s)
    BY DEF ObjectsMade, Left
  <1>3. CASE Takes(s)
    <2> DEFINE x == Head(ioTask[s].buf)
    <2>1. SrvApply(s, Told4) /\ ioTask[s].buf # <<>>
      BY <1>1, <1>3, TakesFacts
    <2>2. CASE FindsNothing(s)
      <3>1. UNCHANGED modules
        BY <2>1, <2>2 DEF SrvApply, FindsNothing, NoWork
      <3> QED
        BY <2>2, <3>1 DEF FindsNothing, Named, ObjectsMade, Left
    <2>3. CASE ~FindsNothing(s)
      <3>1. /\ work[s].at = "found"
            /\ modules' = [modules EXCEPT ![s] =
                 {IF o.id = work[s].id THEN Applied(o, x) ELSE o : o \in modules[s]}]
        BY <2>1, <2>3 DEF SrvApply
      <3>2. work[s].eof = NoConn => work[s].id = x.id % IdMask
        BY <1>1, <3>1 DEF WorkOf
      <3>3. work[s].id = x.id % IdMask
        BY <1>1, <2>1, <3>1, <3>2 DEF WorkOf, Idle
      <3>4. modules'[s] =
                 {IF o.id = work[s].id THEN Applied(o, x) ELSE o : o \in modules[s]}
        BY <1>1, <3>1 DEF On
      <3>5. \A r \in modules'[s] :
               \/ r \in modules[s] /\ r.id # x.id % IdMask
               \/ \E o \in modules[s] : o.id = x.id % IdMask /\ r = Applied(o, x)
        BY <3>3, <3>4
      <3> QED
        BY <1>3, <3>5 DEF ObjectsMade, Left, Touched
    <2> QED
      BY <2>2, <2>3
  <1>4. CASE ~Takes(s) /\ HandleDeclareNew(s)
    <2> DEFINE x == Head(ioTask[s].buf)
               q == [id |-> nextObjId[s], name |-> Name[x.from], proc |-> x.from,
                     exposed |-> 0, described |-> FALSE, heard |-> {}]
    <2>1. CASE UNCHANGED modules
      BY <1>2, <1>4, <2>1
    <2>2. CASE /\ modules' = [modules EXCEPT ![s] = modules[s] \cup {q}]
               /\ ioTask' = [ioTask EXCEPT ![s].assigning = TRUE]
      <3>1. /\ ioTask[s].buf # <<>> /\ x.type = "MODULE_DECLARE" /\ ~ioTask[s].assigning
        BY <1>4 DEF HandleDeclareNew, SrvMsgIs
      <3>2. ioTask'[s].assigning /\ modules'[s] = modules[s] \cup {q}
        BY <1>1, <2>2 DEF On, Task
      <3>3. Declared(s, q) /\ Raw(q)
        BY <3>1, <3>2 DEF Declared, Raw
      <3> HIDE DEF q
      <3> QED
        BY <1>4, <3>2, <3>3 DEF ObjectsMade, Made, Left
    <2> QED
      BY <1>4, <2>1, <2>2 DEF HandleDeclareNew
  <1>5. CASE ~Takes(s) /\ ~HandleDeclareNew(s)
    <2>1. CASE \/ \E x \in Servers \ {s} : ServerStep(x)
               \/ \E m \in Modules : ModuleStep(m)
               \/ UNCHANGED vars
      BY <1>1, <1>2, <1>5, <2>1, OthersAlone
    <2>2. ObjectWork(s) \/ EndDisconnect(s) => modules'[s] \subseteq modules[s]
      BY <1>1, ObjectWorkTypes
    <2>6. HandleModuleShutdown(s) => modules'[s] \subseteq modules[s]
      <3>1. \A i : \A R \in Erased(s, i) : R \subseteq modules[s]
        BY <1>1, Facts, ErasedTypes
      <3> QED
        BY <1>1, <3>1 DEF HandleModuleShutdown, On
    <2>3. SrvStop(s) \/ SrvStart(s) => modules'[s] \subseteq modules[s]
      BY <1>1 DEF SrvStop, SrvStart, SrvMemory, On
    <2>4. SrvPython(s) => modules'[s] \subseteq modules[s]
      BY <2>2 DEF SrvPython, Discover, SendDiscovery, Connect, Disconnect, CallRemote,
                  registryVars
    <2>5. SrvIO(s) => modules'[s] \subseteq modules[s]
      BY <1>5, <2>2, <2>6 DEF SrvIO, Takes, SrvAccept, SrvEof, SrvRead, SrvUdpDeclare,
         AssignModuleID, HandleDeclareDuplicate, registryVars
    <2> QED
      BY <1>2, <1>5, <2>1, <2>3, <2>4, <2>5, EachStep DEF ServerStep
  <1> QED
    BY <1>3, <1>4, <1>5

(* A message for an object is used up by being applied.                      *)
LEMMA TakesHead ==
    ASSUME AddressInv, [Next]_vars, NEW s \in Servers, modules'[s] # {},
           ioTask[s].buf # <<>>, ioTask'[s] = Rest(ioTask[s]),
           Head(ioTask[s].buf).type \in Told4
    PROVE  Takes(s)
  <1> DEFINE t == ioTask[s]
  <1>1. /\ t \in Task(SrvMsg) /\ On(modules, Servers) /\ On(ioTask, Servers)
    BY Facts DEF AddressInv, RegistryTypes, ServerTypes, On
  <1>2. Rest(t) # t
    <2>1. t.buf \in Seq(SrvMsg) /\ t.buf # <<>>
      BY <1>1 DEF Task
    <2> HIDE DEF t
    <2>2. Idle.buf = <<>>
      BY DEF Idle
    <2>3. Tail(t.buf) # t.buf
      <3>1. Len(Tail(t.buf)) = Len(t.buf) - 1 /\ Len(t.buf) \in Nat
        BY <2>1, HeadTailProperties, LenProperties
      <3>2. Len(Tail(t.buf)) # Len(t.buf)
        BY <3>1
      <3> QED
        BY <3>2, Zenon
    <2>4. CASE Len(t.buf) <= 1
      BY <2>1, <2>2, <2>4 DEF Rest
    <2>5. CASE ~(Len(t.buf) <= 1)
      <3>1. Rest(t).buf = Tail(t.buf)
        BY <1>1, <2>5 DEF Rest, Task
      <3> QED
        BY <2>3, <3>1
    <2> QED
      BY <2>4, <2>5
  <1>3. t # Idle /\ ioTask'[s] # ioTask[s]
    BY <1>2 DEF Idle
  <1>4. ServerStep(s)
    BY <1>3, OthersAlone, EachStep DEF AddressInv
  <1>5. ~SrvStop(s) /\ ~SrvStart(s)
    BY <1>1 DEF SrvStop, SrvStart, SrvMemory, On
  <1>10. ~ObjectWork(s) /\ ~EndDisconnect(s)
    BY <1>3, ObjectWorkKeeps
  <1>6. ~SrvPython(s)
    BY <1>3, <1>10 DEF SrvPython, Discover, SendDiscovery, Connect, Disconnect, CallRemote
  <1>7. ~AssignModuleID(s)
    <2>1. ioTask[s].assigning => Head(ioTask[s].buf).type = "MODULE_DECLARE"
      BY DEF AddressInv, TypeInv, Assigning
    <2> QED
      BY <2>1 DEF AssignModuleID, Told4, Exp, Dsc
  <1>8. ~HandleDeclareNew(s) /\ ~HandleDeclareDuplicate(s) /\ ~HandleModuleShutdown(s)
    BY DEF HandleDeclareNew, HandleDeclareDuplicate, HandleModuleShutdown, SrvMsgIs,
           Told4, Exp, Dsc
  <1>9. SrvIO(s)
    BY <1>4, <1>5, <1>6 DEF ServerStep
  <1> QED
    BY <1>3, <1>7, <1>8, <1>9, <1>10 DEF SrvIO, Takes, SrvAccept, SrvEof, SrvRead,
                                         SrvUdpDeclare

LEMMA AppliedFields ==
    ASSUME NEW o \in ModuleRec, NEW x
    PROVE  LET r == Applied(o, x)
           IN /\ r.id = o.id /\ r.name = o.name /\ r.proc = o.proc
              /\ x.type = Exp => r.exposed = o.exposed + 1
              /\ x.type # Exp => r.exposed = o.exposed
              /\ x.type = Dsc => r.described
              /\ x.type # Dsc => r.described = o.described
              /\ o.exposed \in Nat /\ o.described \in BOOLEAN
  BY DEF Applied, ModuleRec, Exp, Dsc

(* No object is exposed twice or described before it is exposed; and for an  *)
(* object whose assignment or exposure is still under way nothing of this has*)
(* happened.                                                                 *)
Untold(s) == \A r \in modules[s] :
    /\ r.exposed <= 1 /\ (r.described => r.exposed = 1)
    /\ ioTask[s].assigning /\ r.id = nextObjId[s] => Raw(r)
    /\ \A c \in DOMAIN conn : conn[c].srv = s /\ r.id \in KeysAt(c) =>
          /\ Has(Out(c), Asg) \/ Has(In(c), Exp) => Raw(r)
          /\ r.exposed = 1 \/ Covered(In(c))
AllUntold == \A s \in Servers : Fit(s) => Untold(s)

LEMMA NoneCovered ==
    ASSUME NEW q, ~Has(q, Dsc)
    PROVE  Covered(q)
  BY DEF Has, Covered

(* The ids that a message on an open connection may tell of.                 *)
LEMMA ToldId ==
    ASSUME AddressInv, ToldInv, MappedBelow, ShareInv, NEW s \in Servers, Fit(s),
           NEW c \in DOMAIN conn, conn[c].srv = s, conn[c].sEnd # "closed",
           NEW j \in DOMAIN In(c), In(c)[j].type \in {Exp, Dsc}
    PROVE  /\ In(c)[j].id \in KeysAt(c) /\ In(c)[j].id % IdMask = In(c)[j].id
           /\ ~Has(Out(c), Asg)
           /\ \A d \in DOMAIN conn : conn[d].srv = s /\ In(c)[j].id \in KeysAt(d) => d = c
           /\ \A i \in KeysAt(c) : i = In(c)[j].id
  <1> DEFINE i == In(c)[j].id
  <1>1. i \in KeysAt(c) /\ ~Has(Out(c), Asg)
    BY DEF ToldInv, ToldMapped
  <1> HIDE DEF i
  <1>2. i \in DOMAIN sMap[s] /\ sMap[s][i] = c
    BY <1>1 DEF KeysAt, KeysOf
  <1>3. i \in Ids
    BY <1>2, Facts DEF AddressInv, ServerTypes
  <1>4. FirstId \in Nat /\ i \in Nat /\ i >= FirstId
    BY <1>3, ConstantsAssumption DEF Ids
  <1>5. nextObjId[s] \in Int /\ i < nextObjId[s]
    BY <1>2, SameAs DEF AddressInv, MappedBelow
  <1>6. i \in Used(s)
    BY <1>4, <1>5 DEF Used
  <1>7. i % IdMask = i
    BY <1>4, <1>6, WithinMask DEF Fit
  <1>8. \A d \in DOMAIN conn : conn[d].srv = s /\ i \in KeysAt(d) => d = c
    BY <1>2 DEF KeysAt, KeysOf
  <1>9. \A k \in KeysAt(c) : k = i
    BY <1>2 DEF KeysAt, KeysOf, ShareInv, MappedOnce
  <1> QED
    BY <1>1, <1>7, <1>8, <1>9 DEF i

UntoldInv == /\ AddressInv /\ ObjectsInv /\ HomeInv /\ RememberInv /\ OfflineInv
             /\ AssignInv /\ ToldInv /\ AllUntold

(* An object that the message in hand was applied to.                        *)
LEMMA TouchedUntold ==
    ASSUME UntoldInv, NEW s \in Servers, Fit(s), NEW r, Touched(s, r)
    PROVE  /\ r.exposed <= 1 /\ (r.described => r.exposed = 1)
           /\ ~ioTask'[s].assigning
           /\ \A c \in DOMAIN conn' : conn'[c].srv = s /\ r.id \in KeysAt(c)' =>
                 /\ Has(Out(c)', Asg) \/ Has(In(c)', Exp) => Raw(r)
                 /\ r.exposed = 1 \/ Covered(In(c)')
  <1> USE DEF UntoldInv
  <1> DEFINE x == Head(ioTask[s].buf)
  <1>0. PICK d : d = ioTask[s].conn
    OBVIOUS
  <1>1. PICK o \in modules[s] : o.id = x.id % IdMask /\ r = Applied(o, x)
    BY DEF Touched
  <1>2. /\ ioTask[s].buf # <<>> /\ x.type \in Told4 /\ x \in SrvMsg
        /\ ioTask' = [ioTask EXCEPT ![s] = Rest(ioTask[s])]
        /\ UNCHANGED <<nextObjId, sMap, sActive, modTask, conn>>
    BY TakesFacts DEF Touched, AddressInv
  <1>3. o \in ModuleRec
    BY Facts DEF AddressInv
  <1>4. /\ r.id = o.id
        /\ x.type = Exp => r.exposed = o.exposed + 1
        /\ x.type # Exp => r.exposed = o.exposed
        /\ x.type = Dsc => r.described
        /\ x.type # Dsc => r.described = o.described
        /\ o.exposed \in Nat /\ o.described \in BOOLEAN
    BY <1>1, <1>3, AppliedFields
  <1>5. /\ d \in DOMAIN conn /\ conn[d].srv = s /\ In(d) # <<>> /\ In(d) \in Seq(SrvMsg)
        /\ 1 \in DOMAIN In(d) /\ In(d)[1] = x /\ conn[d].sEnd = "open"
    BY <1>0, <1>2, HandHead, InFacts DEF OfflineInv, HandInv, OpenHand
  <1>6. Head(In(d)) = x
    BY <1>5, Tails
  <1>7. Untold(s)
    BY DEF AllUntold
  <1>8. On(ioTask, Servers) /\ ioTask[s] \in Task(SrvMsg)
    BY Facts DEF AddressInv, ServerTypes, On
  <1>9. ~ioTask'[s].assigning
    BY <1>2, <1>8, NotAssigning DEF On
  <1>10. \A c \in DOMAIN conn : Out(c)' = Out(c) /\ KeysAt(c)' = KeysAt(c)
    BY <1>2 DEF Out, OutHandOf, KeysAt
  <1>11. In(d)' = Tail(In(d))
    <2>1. conn'[d].srv = conn[d].srv /\ conn'[d].toSrv = conn[d].toSrv
      BY <1>2
    <2> QED
      BY <1>0, <1>2, <1>5, <2>1, RestIn DEF Handled
  <1>12. ASSUME NEW c \in DOMAIN conn, conn[c].srv = s, c # d
         PROVE  In(c)' = In(c)
    <2>1. Rest(ioTask[s]).conn \in {NoConn, d}
      BY <1>0, <1>8 DEF Rest, Idle, Task
    <2>2. InHandOf(c) = <<>> /\ InHandOf(c)' = <<>>
      BY <1>0, <1>2, <1>8, <1>12, <2>1, InFacts DEF InHandOf, On
    <2> QED
      BY <1>2, <2>2 DEF In
  <1>13. CASE x.type \in {Exp, Dsc}
    <2>1. /\ x.id \in KeysAt(d) /\ x.id = o.id /\ ~Has(Out(d), Asg)
          /\ \A c \in DOMAIN conn : conn[c].srv = s /\ x.id \in KeysAt(c) => c = d
      BY <1>1, <1>5, <1>13, ToldId DEF HomeInv, OfflineInv
    <2>2. CASE x.type = Exp
      <3>1. Has(In(d), Exp)
        BY <1>5, <2>2 DEF Has
      <3>2. Raw(o)
        BY <1>5, <1>7, <2>1, <3>1 DEF Untold
      <3>3. r.exposed = 1 /\ r.described = FALSE
        BY <1>4, <2>2, <3>2 DEF Raw, Exp, Dsc
      <3>4. ~Has(In(d)', Exp)
        <4>1. Once(In(d), Exp)
          BY <1>5 DEF ToldInv, AssignedOnce
        <4> QED
          BY <1>5, <1>6, <1>11, <2>2, <4>1, HasTail
      <3> QED
        BY <1>2, <1>4, <1>9, <1>10, <2>1, <3>3, <3>4
    <2>3. CASE x.type = Dsc
      <3>1. o.exposed = 1 \/ Covered(In(d))
        BY <1>5, <1>7, <2>1 DEF Untold
      <3>2. o.exposed = 1
        <4> SUFFICES ASSUME Covered(In(d)) PROVE FALSE
          BY <3>1
        <4>1. PICK k \in DOMAIN In(d) : k < 1
          BY <1>5, <2>3 DEF Covered
        <4> QED
          BY <1>5, <4>1
      <3>3. r.exposed = 1 /\ ~Raw(o)
        BY <1>4, <2>3, <3>2 DEF Raw, Exp, Dsc
      <3>4. ~Has(In(d), Exp)
        BY <1>5, <1>7, <2>1, <3>3 DEF Untold
      <3>5. ~Has(In(d)', Exp)
        BY <1>5, <1>11, <3>4, HasTail
      <3> QED
        BY <1>2, <1>4, <1>9, <1>10, <2>1, <3>3, <3>5
    <2> QED
      BY <1>13, <2>2, <2>3
  <1>14. CASE x.type \notin {Exp, Dsc}
    <2>1. r.exposed = o.exposed /\ r.described = o.described /\ r.id = o.id
      BY <1>4, <1>14
    <2>2. o.exposed <= 1 /\ (o.described => o.exposed = 1)
      BY <1>7 DEF Untold
    <2>3. ASSUME NEW c \in DOMAIN conn, conn[c].srv = s, o.id \in KeysAt(c)
          PROVE  /\ Has(Out(c), Asg) \/ Has(In(c)', Exp) => Raw(o)
                 /\ o.exposed = 1 \/ Covered(In(c)')
      <3>1. /\ Has(Out(c), Asg) \/ Has(In(c), Exp) => Raw(o)
            /\ o.exposed = 1 \/ Covered(In(c))
        BY <1>7, <2>3 DEF Untold
      <3>2. (Has(In(c)', Exp) => Has(In(c), Exp)) /\ (Covered(In(c)) => Covered(In(c)'))
        <4>1. CASE c = d
          <5> DEFINE p == In(d)
          <5>1. p \in Seq(SrvMsg) /\ p # <<>> /\ Head(p).type # Exp
            BY <1>5, <1>6, <1>14
          <5> HIDE DEF p
          <5>2. /\ Has(Tail(p), Exp) => Has(p, Exp)
                /\ Covered(p) => Covered(Tail(p))
            BY <5>1, HasTail
          <5> QED
            BY <1>11, <4>1, <5>2 DEF p
        <4>2. CASE c # d
          BY <1>12, <2>3, <4>2
        <4> QED
          BY <4>1, <4>2
      <3> QED
        BY <3>1, <3>2
    <2>4. Raw(r) <=> Raw(o)
      BY <2>1 DEF Raw
    <2> QED
      BY <1>2, <1>9, <1>10, <2>1, <2>2, <2>3, <2>4
  <1> QED
    BY <1>13, <1>14

(* An object that was left alone, on a connection.                           *)
LEMMA LeftUntold ==
    ASSUME UntoldInv, TypeInv', [Next]_vars, ~Dials, OpenMapped',
           NEW s \in Servers, Fit(s), NEW r, r \in modules'[s], Left(s, r),
           NEW c \in DOMAIN conn', conn'[c].srv = s, r.id \in KeysAt(c)'
    PROVE  /\ Has(Out(c)', Asg) \/ Has(In(c)', Exp) => Raw(r)
           /\ r.exposed = 1 \/ Covered(In(c)')
  <1> USE DEF UntoldInv
  <1>1. r \in modules[s] /\ Untold(s)
    BY DEF Left, AllUntold
  <1>2. r.id \in KeysOf(sMap'[s], c)
    BY DEF KeysAt
  <1>3. conn'[c].sEnd = "open"
    BY <1>2 DEF OpenMapped, KeysOf
  <1>4. /\ DeclaresOnce /\ DeclareActive /\ ShareInv /\ HandInv /\ MappedBelow
        /\ DeadClosed /\ AssignActive
    BY DEF OfflineInv, ShareInv, HomeInv, AssignInv
  <1>5. CASE r.id \in KeysOf(sMap[s], c)
    <2>1. c \in DOMAIN conn /\ conn[c].srv = s /\ r.id \in KeysAt(c)
      <3>1. c \in DOMAIN conn
        BY <1>5, Facts DEF AddressInv, ServerTypes, KeysOf
      <3> QED
        BY <1>5, <3>1, MailStep DEF KeysAt
    <2>2. OutStep(c) /\ TellStep(c) /\ conn[c].sEnd # "closed"
      BY <1>3, <1>4, <2>1, OutSteps, TellSteps, KeysStay
    <2>3. /\ Has(Out(c), Asg) \/ Has(In(c), Exp) => Raw(r)
          /\ r.exposed = 1 \/ Covered(In(c))
      BY <1>1, <2>1 DEF Untold
    <2>4. Has(Out(c)', Asg) => Has(Out(c), Asg)
      <3> SUFFICES ASSUME NEW j \in DOMAIN Out(c)', Out(c)'[j].type = Asg
                   PROVE  Has(Out(c), Asg)
        BY DEF Has
      <3>1. \/ \E i \in DOMAIN Out(c) : Out(c)[i] = Out(c)'[j]
            \/ \E x \in ModMsg : Sends(conn[c].srv, c, x) /\ x = Out(c)'[j]
        BY <2>1, <2>2, OutFrom
      <3>2. ~\E x \in ModMsg : Sends(conn[c].srv, c, x) /\ x = Out(c)'[j]
        BY <1>4, <2>1, AssignSent
      <3> QED
        BY <3>1, <3>2 DEF Has
    <2>5. Answered(c) => Has(Out(c), Asg)
      <3> SUFFICES ASSUME Answered(c) PROVE Has(Out(c), Asg)
        OBVIOUS
      <3>1. Out(c) # <<>> /\ Head(Out(c)).type = Asg /\ Out(c) \in Seq(ModMsg)
        BY <2>1, OutFacts DEF Answered, Received
      <3> QED
        BY <3>1, HasTail
    <2>6. Has(In(c)', Exp) => Has(In(c), Exp) \/ Has(Out(c), Asg)
      <3> SUFFICES ASSUME NEW j \in DOMAIN In(c)', In(c)'[j].type = Exp
                   PROVE  Has(In(c), Exp) \/ Has(Out(c), Asg)
        BY DEF Has
      <3>1. (\E i \in DOMAIN In(c) : In(c)[i] = In(c)'[j]) \/ Answered(c)
        BY <2>1, <2>2, TellFrom DEF Exp
      <3> QED
        BY <2>5, <3>1 DEF Has
    <2>7. Covered(In(c)) => Covered(In(c)')
      <3> SUFFICES ASSUME Covered(In(c)) PROVE Covered(In(c)')
        OBVIOUS
      <3> DEFINE p == In(c)
                 m == conn[c].mod
      <3>0. p \in Seq(SrvMsg) /\ m \in Modules
        BY <2>1, InFacts
      <3>1. CASE Handled(c)
        <4>1. /\ ioTask[s].buf # <<>> /\ ioTask[s].conn = c /\ In(c)' = Tail(p)
              /\ ioTask'[s] = Rest(ioTask[s])
          BY <2>1, <3>1 DEF Handled
        <4>2. p # <<>> /\ 1 \in DOMAIN p /\ p[1] = Head(ioTask[s].buf)
          BY <4>1, HandHead
        <4>3. Head(p).type # Exp
          <5> SUFFICES ASSUME p[1].type = Exp PROVE FALSE
            BY <3>0, <4>2, Tails
          <5>1. Takes(s)
            BY <4>1, <4>2, TakesHead DEF Told4
          <5>2. p[1].id = r.id /\ p[1].id % IdMask = p[1].id
            BY <1>4, <2>1, <2>2, <4>2, ToldId
          <5> QED
            BY <4>2, <5>1, <5>2 DEF Left
        <4> HIDE DEF p
        <4>4. Covered(p)
          BY DEF p
        <4>5. Covered(Tail(p))
          BY <3>0, <4>2, <4>3, <4>4, HasTail
        <4> QED
          BY <4>1, <4>5
      <3>2. CASE Reported1(c)
        <4>1. PICK x \in SrvMsg :
                /\ x.type \in {"ATTR_VALUE_UPDATE", "ATTR_METD_RESP", "MODULE_SHUTDOWN"}
                /\ In(c)' = p \o <<x>>
          BY <3>2 DEF Reported1
        <4>2. Covered(<<x>>)
          <5>1. x.type # Dsc
            BY <4>1 DEF Dsc
          <5> QED
            BY <5>1, OneAndTwo
        <4>3. <<x>> \in Seq(SrvMsg)
          OBVIOUS
        <4> QED
          BY <3>0, <4>1, <4>2, <4>3, CoveredParts
      <3>3. CASE Answered(c)
        <4> DEFINE i == Head(modTask[m].buf).id
                   e == Expose(m, i)
                   d == Describe(m, i)
        <4>1. In(c)' = p \o <<e, d>> /\ HandleAssignId(m)
          BY <3>3 DEF Answered
        <4>2. e \in SrvMsg /\ d \in SrvMsg /\ e.type = Exp
          <5>1. i \in Int
            BY <3>0, <4>1, AnsweredId DEF AddressInv
          <5> QED
            BY <3>0, <5>1, ModuleMessages DEF Expose, Describe, Reports, FromModule, Exp
        <4>3. <<e, d>> \in Seq(SrvMsg)
          BY <4>2
        <4>4. Covered(p)
          OBVIOUS
        <4> HIDE DEF e, d, p
        <4>5. Covered(<<e, d>>)
          BY <4>2, OneAndTwo
        <4>6. Covered(p \o <<e, d>>)
          BY <3>0, <4>3, <4>4, <4>5, CoveredParts
        <4> QED
          BY <4>1, <4>6
      <3> QED
        BY <2>2, <3>1, <3>2, <3>3 DEF TellStep
    <2> QED
      BY <2>3, <2>4, <2>6, <2>7
  <1>6. CASE r.id \notin KeysOf(sMap[s], c)
    <2>1. AssignModuleID(s) /\ c = sActive[s]
      BY <1>2, <1>4, <1>6, KeysAfter
    <2>2. /\ c = ioTask[s].conn /\ c \in DOMAIN conn /\ conn[c].srv = s
          /\ ioTask[s].buf # <<>> /\ Handled(c) /\ KeysOf(sMap[s], c) = {}
          /\ sMap'[s] = Put(sMap[s], nextObjId[s], c)
      BY <1>4, <2>1, AssignFacts
    <2>3. r.id = nextObjId[s] /\ ioTask[s].assigning
      BY <1>2, <1>6, <2>1, <2>2 DEF Put, KeysOf, AssignModuleID
    <2>4. Raw(r)
      BY <1>1, <2>3 DEF Untold
    <2>5. Covered(In(c)')
      <3> DEFINE p == In(c)
      <3>1. p \in Seq(SrvMsg) /\ p # <<>> /\ In(c)' = Tail(p)
        <4>1. p # <<>>
          BY <2>2, HandHead
        <4> QED
          BY <2>2, <4>1, InFacts DEF Handled
      <3>2. conn[c].sEnd # "closed" /\ KeysAt(c) = {}
        BY <1>4, <2>2 DEF HandInv, OpenHand, KeysAt
      <3>3. ~Has(p, Dsc)
        BY <2>2, <3>2 DEF ToldInv, ToldMapped, Has
      <3> HIDE DEF p
      <3>4. ~Has(Tail(p), Dsc)
        BY <3>1, <3>3, HasTail
      <3> QED
        BY <3>1, <3>4, NoneCovered
    <2> QED
      BY <2>4, <2>5
  <1> QED
    BY <1>5, <1>6

LEMMA UntoldStep ==
    ASSUME UntoldInv, TypeInv', [Next]_vars, ~Dials, OpenMapped',
           NEW s \in Servers, Fit(s)'
    PROVE  Untold(s)'
  <1> USE DEF UntoldInv
  <1> SUFFICES ASSUME NEW r \in modules'[s]
               PROVE  /\ r.exposed <= 1 /\ (r.described => r.exposed = 1)
                      /\ ioTask'[s].assigning /\ r.id = nextObjId'[s] => Raw(r)
                      /\ \A c \in DOMAIN conn' : conn'[c].srv = s /\ r.id \in KeysAt(c)' =>
                            /\ Has(Out(c)', Asg) \/ Has(In(c)', Exp) => Raw(r)
                            /\ r.exposed = 1 \/ Covered(In(c)')
    BY DEF Untold, Raw
  <1>1. Fit(s) /\ Untold(s)
    BY FitBefore DEF AddressInv, AllUntold
  <1>2. ObjectsMade(s) /\ TaskFrom(s)
    BY ObjectsMadeSteps, ObjectsFromSteps DEF AddressInv
  <1>3. CASE Made(s, r)
    <2>1. Raw(r) /\ r.id = nextObjId[s] /\ ~ioTask[s].assigning
      BY <1>3 DEF Made, Declared
    <2>2. ASSUME NEW c \in DOMAIN conn', conn'[c].srv = s, r.id \in KeysAt(c)'
          PROVE  FALSE
      <3>1. r.id \in KeysOf(sMap'[s], c)
        BY <2>2 DEF KeysAt
      <3>2. r.id \in KeysOf(sMap[s], c)
        BY <2>1, <3>1, KeysAfter DEF OfflineInv, ShareInv, AssignModuleID
      <3>3. r.id < nextObjId[s] /\ nextObjId[s] \in Int
        BY <3>2, SameAs DEF HomeInv, MappedBelow, KeysOf, AddressInv
      <3> QED
        BY <2>1, <3>3
    <2> QED
      BY <2>1, <2>2 DEF Raw
  <1>4. CASE Left(s, r)
    <2>1. r.exposed <= 1 /\ (r.described => r.exposed = 1)
      BY <1>1, <1>4 DEF Left, Untold
    <2>2. ASSUME ioTask'[s].assigning, r.id = nextObjId'[s]
          PROVE  Raw(r)
      <3>1. nextObjId'[s] = nextObjId[s] /\ r \in modules[s]
        BY <1>2, <1>4, <2>2 DEF TaskFrom, Left
      <3>2. ioTask[s].assigning
        BY <2>2, <3>1, ObjectsBelow DEF AddressInv
      <3> QED
        BY <1>1, <2>2, <3>1, <3>2 DEF Untold
    <2> QED
      BY <1>1, <1>4, <2>1, <2>2, LeftUntold
  <1>5. CASE Touched(s, r)
    BY <1>1, <1>5, TouchedUntold
  <1> QED
    BY <1>2, <1>3, <1>4, <1>5 DEF ObjectsMade

LEMMA InitUntold == Init => AssignInv /\ ToldInv /\ AllUntold
  <1> SUFFICES ASSUME Init PROVE AssignInv /\ ToldInv /\ AllUntold
    OBVIOUS
  <1>1. DOMAIN conn = {} /\ \A s \in Servers : modules[s] = {}
    BY DEF Init
  <1>2. \A m \in Modules : modTask[m].buf = <<>>
    BY DEF Init, Idle
  <1>3. ~Has(<<>>, Asg)
    BY OneAndTwo
  <1> QED
    BY <1>1, <1>2, <1>3 DEF AssignInv, AssignOnce, AssignActive, AssignMapped,
       ToldInv, ToldMapped, AssignedOnce, AllUntold, Untold

LEMMA NextUntold ==
    ASSUME UntoldInv, [Next]_vars, ~Dials
    PROVE  UntoldInv'
  <1> USE DEF UntoldInv
  <1>1. AddressInv' /\ ObjectsInv' /\ HomeInv'
    BY NextHome
  <1>2. TypeInv'
    BY <1>1 DEF AddressInv
  <1>3. RememberInv'
    BY NextRemember
  <1>4. HandInv'
    BY NextHand DEF OfflineInv
  <1>5. ShareInv'
    BY <1>2, ShareInvStep DEF OfflineInv
  <1>6. DeadClosed' /\ AllPresent'
    BY <1>2, DeadClosedStep, PresentStep DEF OfflineInv, ShareInv, HomeInv
  <1>7. AssignInv' /\ ToldInv'
    BY <1>2, AssignInvStep DEF OfflineInv, HomeInv
  <1>8. AllUntold'
    BY <1>2, <1>5, UntoldStep DEF AllUntold, ShareInv
  <1> QED
    BY <1>1, <1>3, <1>4, <1>5, <1>6, <1>7, <1>8 DEF OfflineInv

LEMMA UntoldStart == Init => UntoldInv
  <1>1. Init => HomeInv /\ RememberInv
    BY DEF Init, HomeInv, MappedBelow, ActiveInHand, AssigningItsOwn, ChannelLeadsHome,
       RememberInv, MappedOpen, EndsUp, KnownMapped, HandMapped, Idle, Empty
  <1> QED
    BY <1>1, InitAddress, InitObjects, InitOffline, InitUntold DEF UntoldInv

LEMMA UntoldAlways == ~Dials => (Spec => []UntoldInv)
  <1> SUFFICES ASSUME ~Dials PROVE Spec => []UntoldInv
    OBVIOUS
  <1>1. Init => UntoldInv
    BY UntoldStart
  <1>2. UntoldInv /\ [Next]_vars => UntoldInv'
    BY NextUntold
  <1> QED
    BY <1>1, <1>2, PTL DEF Spec

\* If neither a server nor a discovery over IPC makes a second connection to a
\* program that has one (Dials), then as long as the ids of the servers fit
\* into the bits that messages to them have, no object is exposed twice and
\* none is described before it is exposed: addNewModule sends one
\* MODULE_ASSIGN_ID on a connection, PyConnectWrapper::processInput answers it
\* with ATTR_METD_EXPOSE and then ATTR_METD_DESC on the same connection, and
\* both are applied to the object that this id was made for.
THEOREM ObjectsExposedOnce == ~Dials => (Spec => [](IdsFit => ExposedOnce))
  <1> SUFFICES ASSUME ~Dials
               PROVE  Spec => [](IdsFit => ExposedOnce)
    OBVIOUS
  <1> DEFINE Once1 == IdsFit => ExposedOnce
  <1>1. UntoldInv => Once1
    BY DEF UntoldInv, AllUntold, Untold, IdsFit, ExposedOnce
  <1> HIDE DEF Once1
  <1>2. Spec => []Once1
    BY <1>1, UntoldAlways, PTL
  <1> QED
    BY <1>2 DEF Once1
-----------------------------------------------------------------------------
(* What a program does with the id it is given *)

(* Here no script disconnects an object, no server restarts, and no two have *)
(* the same bits of address.                                                 *)
Undisturbed == ~Dials /\ ServersApart /\ "disconnect" \notin Ops

(* A server bids nobody farewell; it assigns an id to the name of the program*)
(* at the other end, and stays there until that program has read it.         *)
NoFarewell  == \A c \in DOMAIN conn : ~Has(Out(c), "SERVER_SHUTDOWN")
AssignNamed == \A c \in DOMAIN conn : \A j \in DOMAIN Out(c) :
    Out(c)[j].type = Asg => Out(c)[j].name = Name[conn[c].mod]
AssignOpen  == \A c \in DOMAIN conn :
    Has(Out(c), Asg) /\ conn[c].mEnd # "closed" => conn[c].sEnd # "closed"
GrantInv    == NoFarewell /\ AssignNamed /\ AssignOpen

(* The id that a program holds, while the connection is open, is one that    *)
(* the server maps to it; and so are the ids that the program reports under, *)
(* except -1.  A program says that it shuts down as it hangs up.             *)
HeldMapped == \A m \in Modules : \A k \in DOMAIN serverMap[m] \cap DOMAIN mMap[m] :
    LET c == mMap[m][k]
        i == serverMap[m][k]
    IN i # Unassigned /\ conn[c].sEnd # "closed" => i \in KeysAt(c)
ReportsMapped == \A c \in DOMAIN conn : conn[c].sEnd # "closed" =>
    \A j \in DOMAIN In(c) : LET x == In(c)[j] IN x.type # "MODULE_DECLARE" =>
        /\ x.id = Byte(Unassigned) \/ x.id \in KeysAt(c)
        /\ x.type = "MODULE_SHUTDOWN" => conn[c].mEnd = "closed"
HoldInv == HeldMapped /\ ReportsMapped

LEMMA Known ==
    ASSUME UntoldInv
    PROVE  /\ AddressInv /\ TypeInv /\ ObjectsInv /\ MappedBelow /\ ChannelLeadsHome
           /\ RememberInv /\ HandMapped /\ HandInv /\ OpenHand /\ ShareInv /\ MappedOnce
           /\ OpenMapped /\ DeclaresOnce /\ DeclareActive /\ DeadClosed /\ AllPresent
           /\ AssignOnce /\ AssignActive /\ AssignMapped /\ ToldMapped /\ ToldInv
  BY DEF UntoldInv, AddressInv, HomeInv, RememberInv, OfflineInv, HandInv, ShareInv,
         AssignInv, ToldInv
LEMMA ClosedStays ==
    ASSUME AddressInv, [Next]_vars, NEW c \in DOMAIN conn
    PROVE  /\ conn[c].mEnd = "closed" => conn'[c].mEnd = "closed"
           /\ conn[c].sEnd = "closed" => conn'[c].sEnd = "closed"
  <1>1. ASSUME NEW s \in Servers, ServerStep(s)
        PROVE  /\ conn[c].mEnd = "closed" => conn'[c].mEnd = "closed"
               /\ conn[c].sEnd = "closed" => conn'[c].sEnd = "closed"
    BY <1>1, ServerEnds DEF SrvEnds
  <1>2. ASSUME NEW m \in Modules, ModuleStep(m)
        PROVE  /\ conn[c].mEnd = "closed" => conn'[c].mEnd = "closed"
               /\ conn[c].sEnd = "closed" => conn'[c].sEnd = "closed"
    BY <1>2, ModuleEnds DEF ModEnds
  <1> QED
    BY <1>1, <1>2, EachStep DEF vars

(* The server keeps what it maps to the connection of a running program.     *)
LEMMA StaysMapped ==
    ASSUME UntoldInv, TypeInv', [Next]_vars, "srvcrash" \notin Ops,
           NEW c \in DOMAIN conn, KeysAt(c) # {}, conn[c].mEnd # "closed"
    PROVE  conn'[c].sEnd # "closed" /\ KeysAt(c) \subseteq KeysAt(c)'
  <1> USE Known
  <1> DEFINE s == conn[c].srv
  <1>1. s \in Servers
    BY InFacts
  <1>2. conn[c].sEnd = "open" /\ KeysOf(sMap[s], c) # {}
    BY <1>1 DEF KeysAt, KeysOf, OpenMapped
  <1>3. conn'[c].sEnd # "closed"
    <2>1. CASE AssignModuleID(s)
      BY <1>1, <1>2, <2>1, AssignFacts DEF SameEnds
    <2>2. CASE Keeps(s, {})
      BY <1>2, <2>2 DEF Keeps
    <2>3. ASSUME NEW d \in DOMAIN conn, Keeps(s, {d}), Frees(s, d)
          PROVE  conn'[c].sEnd # "closed"
      <3>1. CASE c # d
        BY <1>2, <2>3, <3>1 DEF Keeps
      <3>2. CASE c = d
        <4>1. ioTask[s].buf # <<>> /\ Head(ioTask[s].buf).type = "MODULE_DECLARE"
              /\ c = sActive[s]
          BY <2>3, <3>2 DEF Frees
        <4> QED
          BY <1>1, <1>2, <4>1, DuplicateHere
      <3> QED
        BY <3>1, <3>2
    <2> QED
      BY <1>1, <2>1, <2>2, <2>3, ShareSteps DEF ShareStep
  <1> QED
    BY <1>3, KeysStay

LEMMA GrantStep ==
    ASSUME UntoldInv, TypeInv', [Next]_vars, Undisturbed, GrantInv,
           NEW c \in DOMAIN conn'
    PROVE  /\ ~Has(Out(c)', "SERVER_SHUTDOWN")
           /\ \A j \in DOMAIN Out(c)' :
                 Out(c)'[j].type = Asg => Out(c)'[j].name = Name[conn'[c].mod]
           /\ Has(Out(c)', Asg) /\ conn'[c].mEnd # "closed" => conn'[c].sEnd # "closed"
  <1> USE Known DEF Undisturbed
  <1>1. CASE c \notin DOMAIN conn
    <2>1. DOMAIN Out(c)' = {}
      BY <1>1, NewOut
    <2> QED
      BY <2>1 DEF Has
  <1>2. CASE c \in DOMAIN conn
    <2>1. OutStep(c) /\ conn[c].srv \in Servers /\ conn'[c].mod = conn[c].mod
      BY <1>2, OutSteps, OutFacts, MailStep
    <2>2. ASSUME NEW j \in DOMAIN Out(c)'
          PROVE  /\ Out(c)'[j].type # "SERVER_SHUTDOWN"
                 /\ Out(c)'[j].type = Asg => /\ Out(c)'[j].name = Name[conn[c].mod]
                                             /\ \/ Has(Out(c), Asg)
                                                \/ conn'[c].sEnd # "closed"
      <3>1. CASE \E i \in DOMAIN Out(c) : Out(c)[i] = Out(c)'[j]
        BY <1>2, <3>1 DEF GrantInv, NoFarewell, AssignNamed, Has
      <3>2. ASSUME NEW x \in ModMsg, Sends(conn[c].srv, c, x), x = Out(c)'[j]
            PROVE  /\ x.type # "SERVER_SHUTDOWN"
                   /\ x.type = Asg => /\ x.name = Name[conn[c].mod]
                                      /\ conn'[c].sEnd # "closed"
        <4> DEFINE s == conn[c].srv
        <4>1. x.type # "SERVER_SHUTDOWN"
          BY <3>2 DEF Sends
        <4>2. ASSUME x.type = Asg
              PROVE  x.name = Name[conn[c].mod] /\ conn'[c].sEnd # "closed"
          <5>1. AssignModuleID(s) /\ c = sActive[s]
                /\ x.name = Name[Head(ioTask[s].buf).from]
            BY <3>2, <4>2 DEF Sends
          <5>2. c = ioTask[s].conn /\ ioTask[s].buf # <<>> /\ SameEnds(conn, conn')
            BY <2>1, <5>1, AssignFacts
          <5>3. Head(ioTask[s].buf).from = conn[c].mod
            BY <2>1, <5>2, SrvInHand
          <5>4. conn[c].sEnd # "closed"
            BY <1>2, <3>2, <4>2, AssignSent
          <5> QED
            BY <1>2, <5>1, <5>2, <5>3, <5>4 DEF SameEnds
        <4> QED
          BY <4>1, <4>2
      <3> QED
        BY <1>2, <2>1, <3>1, <3>2, OutFrom
    <2>3. ASSUME Has(Out(c), Asg), conn'[c].mEnd # "closed"
          PROVE  conn'[c].sEnd # "closed"
      <3>1. conn[c].mEnd # "closed" /\ conn[c].sEnd # "closed"
        BY <1>2, <2>3, ClosedStays DEF GrantInv, AssignOpen
      <3>2. KeysAt(c) # {}
        BY <1>2, <2>3, <3>1 DEF Has, AssignMapped
      <3> QED
        BY <1>2, <3>1, <3>2, StaysMapped DEF ServersApart
    <2> QED
      BY <2>1, <2>2, <2>3 DEF Has
  <1> QED
    BY <1>1, <1>2

(* A program learns of ids from the connection that brought them.            *)
LEMMA LearnsMapped ==
    ASSUME UntoldInv, NEW m \in Modules, NEW k, NEW i, NEW c, Learns(m, k, i, c),
           i # Unassigned
    PROVE  /\ modTask[m].buf # <<>> /\ c = modTask[m].conn /\ c = mActive[m]
           /\ c \in DOMAIN conn /\ conn[c].mod = m /\ conn[c].srv \in Servers
           /\ k = ServerID[conn[c].srv] /\ conn[c].mEnd = "open"
           /\ Has(Out(c), Asg) /\ c # NoConn
           /\ conn[c].sEnd # "closed" => i \in KeysAt(c)
  <1> USE Known
  <1> DEFINE x == Head(modTask[m].buf)
             d == modTask[m].conn
  <1>1. /\ modTask[m].buf # <<>> /\ x.sid = k /\ c = mActive[m]
        /\ x.type = Asg /\ x.id = i
    BY DEF Learns, Asg
  <1>2. /\ d \in DOMAIN conn /\ conn[d].mod = m /\ d # NoConn /\ Has(Out(d), x.type)
        /\ Has(modTask[m].buf, x.type) /\ Out(d) # <<>> /\ Head(Out(d)) = x
    BY <1>1, ModHandHead
  <1>3. c = d
    BY <1>1, <1>2 DEF AssignActive
  <1>4. k = ServerID[conn[d].srv] /\ conn[d].mEnd = "open" /\ conn[d].srv \in Servers
    BY <1>1, <1>2, ModInHand, OutFacts DEF HandMapped
  <1>5. 1 \in DOMAIN Out(d) /\ Out(d)[1] = x
    <2> DEFINE p == Out(d)
    <2>1. p \in Seq(ModMsg) /\ p # <<>>
      BY <1>2, OutFacts
    <2> HIDE DEF p
    <2>2. 1 \in DOMAIN p /\ Head(p) = p[1]
      BY <2>1, Tails
    <2> QED
      BY <1>2, <2>2 DEF p
  <1>6. conn[d].sEnd # "closed" => i \in KeysAt(d)
    BY <1>1, <1>2, <1>5 DEF AssignMapped
  <1> QED
    BY <1>1, <1>2, <1>3, <1>4, <1>6

LEMMA HeldStep ==
    ASSUME UntoldInv, AddressInv', [Next]_vars, HeldMapped, NEW m \in Modules,
           NEW k \in DOMAIN serverMap'[m] \cap DOMAIN mMap'[m],
           NEW c, c = mMap'[m][k], NEW i, i = serverMap'[m][k],
           i # Unassigned, conn'[c].sEnd # "closed"
    PROVE  i \in KeysAt(c)'
  <1> USE Known DEF AddressInv
  <1>1. ASSUME c \in DOMAIN conn, conn[c].sEnd # "closed" => i \in KeysAt(c)
        PROVE  i \in KeysAt(c)'
    <2>1. conn[c].sEnd # "closed" /\ KeysAt(c) \subseteq KeysAt(c)'
      BY <1>1, KeysStay
    <2> QED
      BY <1>1, <2>1
  <1>2. ASSUME k \in DOMAIN serverMap[m], k \in DOMAIN mMap[m],
               i = serverMap[m][k], c = mMap[m][k]
        PROVE  i \in KeysAt(c)'
    <2>1. c \in DOMAIN conn
      BY <1>2, HeldFacts
    <2>2. conn[c].sEnd # "closed" => i \in KeysAt(c)
      BY <1>2 DEF HeldMapped
    <2> QED
      BY <1>1, <2>1, <2>2
  <1>3. MapStep(m)
    BY MapSteps
  <1>4. CASE KeepsMaps(m)
    BY <1>2, <1>4 DEF KeepsMaps
  <1>5. CASE Forgets(m)
    BY <1>2, <1>5 DEF Forgets, Del
  <1>6. CASE Loses(m)
    BY <1>6 DEF Loses, Empty
  <1>7. ASSUME NEW d \in DOMAIN conn, HangsUp(m, d)
        PROVE  i \in KeysAt(c)'
    BY <1>2, <1>7 DEF HangsUp, Del
  <1>8. ASSUME NEW n, NEW j, NEW d, Learns(m, n, j, d)
        PROVE  i \in KeysAt(c)'
    <2>1. /\ serverMap'[m] = Put(serverMap[m], n, j)
          /\ mMap'[m] = IF d = NoConn THEN mMap[m] ELSE Put(mMap[m], n, d)
      BY <1>8 DEF Learns
    <2>2. CASE n # k
      BY <1>2, <2>1, <2>2 DEF Put
    <2>3. CASE n = k
      <3>1. i = j
        BY <2>1, <2>3 DEF Put
      <3>2. /\ d # NoConn /\ d \in DOMAIN conn
            /\ conn[d].sEnd # "closed" => j \in KeysAt(d)
        BY <1>8, <3>1, LearnsMapped
      <3>3. c = d
        BY <2>1, <2>3, <3>2 DEF Put
      <3> QED
        BY <1>1, <3>1, <3>2, <3>3
    <2> QED
      BY <2>2, <2>3
  <1> QED
    BY <1>3, <1>4, <1>5, <1>6, <1>7, <1>8 DEF MapStep

LEMMA ReportsMappedStep ==
    ASSUME UntoldInv, AddressInv', [Next]_vars, ~Dials, HoldInv,
           NEW c \in DOMAIN conn', conn'[c].sEnd # "closed", NEW j \in DOMAIN In(c)',
           In(c)'[j].type # "MODULE_DECLARE"
    PROVE  /\ In(c)'[j].id = Byte(Unassigned) \/ In(c)'[j].id \in KeysAt(c)'
           /\ In(c)'[j].type = "MODULE_SHUTDOWN" => conn'[c].mEnd = "closed"
  <1> USE Known DEF AddressInv
  <1>1. c \in DOMAIN conn
    <2> SUFFICES ASSUME c \notin DOMAIN conn PROVE FALSE
      OBVIOUS
    <2>1. PICK m \in Modules : In(c)' = <<Declare(m)>>
      BY NewIn
    <2> QED
      BY <2>1 DEF Declare
  <1>2. TellStep(c) /\ conn[c].sEnd # "closed" /\ KeysAt(c) \subseteq KeysAt(c)'
    BY <1>1, TellSteps, KeysStay
  <1>3. CASE \E i \in DOMAIN In(c) : In(c)[i] = In(c)'[j]
    BY <1>1, <1>2, <1>3, ClosedStays DEF HoldInv, ReportsMapped
  <1>4. ASSUME NEW x \in SrvMsg, UnderItsId(conn[c].mod, c, x), x = In(c)'[j],
               x.type = "MODULE_SHUTDOWN" => conn'[c].mEnd = "closed"
        PROVE  /\ x.id = Byte(Unassigned) \/ x.id \in KeysAt(c)
               /\ x.type = "MODULE_SHUTDOWN" => conn'[c].mEnd = "closed"
    <2> DEFINE m == conn[c].mod
    <2>1. m \in Modules
      BY <1>1, OutFacts
    <2>2. PICK k \in DOMAIN serverMap[m] \cap DOMAIN mMap[m] :
            mMap[m][k] = c /\ x.id = Byte(serverMap[m][k])
      BY <1>4 DEF UnderItsId
    <2>3. CASE serverMap[m][k] = Unassigned
      BY <1>4, <2>2, <2>3
    <2>4. CASE serverMap[m][k] # Unassigned
      <3>1. serverMap[m][k] \in KeysAt(c)
        BY <1>2, <2>1, <2>2, <2>4 DEF HoldInv, HeldMapped
      <3>2. serverMap[m][k] \in Ids
        BY <2>1, <2>2, <2>4, HeldFacts
      <3>3. x.id = serverMap[m][k]
        BY <2>2, <3>2, ByteType
      <3> QED
        BY <1>4, <3>1, <3>3
    <2> QED
      BY <2>3, <2>4
  <1>5. ASSUME Answered(c),
               LET m == conn[c].mod
                   x == Head(modTask[m].buf)
               IN In(c)'[j] \in {Expose(m, x.id), Describe(m, x.id)}
        PROVE  In(c)'[j].id \in KeysAt(c)' /\ In(c)'[j].type # "MODULE_SHUTDOWN"
    <2>1. In(c)'[j].type \in {Exp, Dsc}
      BY <1>5 DEF Expose, Describe, FromModule, Exp, Dsc
    <2>2. RememberInv /\ AssignInv
      BY DEF UntoldInv
    <2>3. In(c)'[j].id \in KeysAt(c)'
      BY <2>1, <2>2, ToldMappedStep
    <2> QED
      BY <2>1, <2>3 DEF Exp, Dsc
  <1> QED
    BY <1>1, <1>2, <1>3, <1>4, <1>5, TellFrom

-----------------------------------------------------------------------------
(* An object lasts as long as the connection of its program *)

(* An object bears the name of the program that declared it, and is there    *)
(* while its id is being assigned.                                           *)
NamedAfter == \A s \in Servers : \A r \in modules[s] : r.name = Name[r.proc]
AssigningPresent == \A s \in Servers : ioTask[s].assigning =>
    \E r \in modules[s] : r.id = nextObjId[s]
(* The stream whose end the IO thread works on has ended at the program.     *)
EofClosed == \A s \in Servers : work[s].eof # NoConn =>
    work[s].eof \in DOMAIN conn /\ conn[work[s].eof].mEnd = "closed"
(* Without disconnect nothing crosses a handler.                             *)
Unhurried == \A s \in Servers : leaving[s] = <<>> /\ crossed[s] = FALSE
PresentInv == NamedAfter /\ AssigningPresent /\ EofClosed /\ Unhurried

LEMMA UnhurriedStep ==
    ASSUME AddressInv, [Next]_vars, "disconnect" \notin Ops, Unhurried
    PROVE  Unhurried'
  <1> SUFFICES ASSUME NEW s \in Servers PROVE leaving'[s] = <<>> /\ crossed'[s] = FALSE
    BY DEF Unhurried
  <1>1. leaving[s] = <<>> /\ crossed[s] = FALSE /\ On(leaving, Servers) /\ TypeInv
    BY Facts DEF AddressInv, Unhurried, RegistryTypes, On
  <1>2. ASSUME NEW x \in Servers, SrvIO(x)
        PROVE  leaving' = leaving
    <2>1. ObjectWork(x) => leaving' = leaving
      BY DEF ObjectWork, FindAtEof, Find, NotifyDestroyed, EraseAtEof
    <2> QED
      BY <1>2, <2>1 DEF SrvIO, SrvAccept, SrvEof, SrvRead, SrvUdpDeclare, HandleDeclareNew,
         AssignModuleID, HandleDeclareDuplicate, HandleModuleShutdown, HandleExpose,
         HandleDesc, HandleValue, SrvApply, registryVars, handlerVars
  <1>3. ASSUME NEW x \in Servers, SrvPython(x)
        PROVE  leaving' = leaving
    <2>1. ~EndDisconnect(x)
      BY DEF EndDisconnect, Unhurried
    <2> QED
      BY <1>3, <2>1 DEF SrvPython, Discover, SendDiscovery, Connect, Disconnect, CallRemote,
                        Op, registryVars, handlerVars
  <1>4. ASSUME NEW x \in Servers, SrvStop(x) \/ SrvStart(x)
        PROVE  leaving'[s] = <<>>
    BY <1>1, <1>4 DEF SrvStop, SrvStart, SrvMemory, On
  <1>5. ASSUME NEW m \in Modules, ModuleStep(m)
        PROVE  leaving' = leaving
    BY <1>5, ModuleLeaves DEF handlerVars, registryVars
  <1>6. leaving'[s] = <<>>
    BY <1>1, <1>2, <1>3, <1>4, <1>5, EachStep DEF ServerStep, vars
  <1>7. ObjectStep(s)
    BY <1>1, ObjectSteps
  <1>8. ~Leave(s)
    <2>1. \A q \in Seq(Ids) : \A k \in Ids : Append(q, k) # <<>>
      OBVIOUS
    <2>2. leaving[s] \in Seq(Ids) /\ \A r \in modules[s] : r.id \in Ids
      BY Facts DEF AddressInv, RegistryTypes, ModuleRec
    <2> QED
      BY <1>6, <2>1, <2>2 DEF Leave
  <1>9. crossed'[s] = FALSE
    <2>1. Keep(s) \/ Tell(s) \/ Erase(s) \/ Done(s) \/ Touch(s) \/ Gone(s)
          => crossed'[s] = crossed[s]
      BY Zenon DEF Keep, Tell, Erase, Done, Touch, Gone
    <2>2. Add(s) \/ Look(s) => crossed'[s] = (crossed[s] \/ leaving[s] # <<>>)
      BY Zenon DEF Add, Look
    <2>3. Reset(s) => crossed'[s] = FALSE
      BY Zenon DEF Reset
    <2> QED
      BY <1>1, <1>7, <1>8, <2>1, <2>2, <2>3, Zenon DEF ObjectStep
  <1> QED
    BY <1>6, <1>9

LEMMA EofClosedStep ==
    ASSUME AddressInv, TypeInv', [Next]_vars, EofClosed
    PROVE  EofClosed'
  <1> SUFFICES ASSUME NEW s \in Servers, NEW c, c = work'[s].eof, c # NoConn
               PROVE  c \in DOMAIN conn' /\ conn'[c].mEnd = "closed"
    BY DEF EofClosed
  <1>1. /\ On(work, Servers) /\ TypeInv /\ work[s] \in Work
    BY Facts DEF AddressInv, RegistryTypes, On
  <1>2. CASE work'[s].eof = work[s].eof
    <2>1. c \in DOMAIN conn /\ conn[c].mEnd = "closed"
      BY <1>2 DEF EofClosed
    <2>2. DOMAIN conn \subseteq DOMAIN conn'
      BY StepWires DEF Wires
    <2> QED
      BY <2>1, <2>2, ClosedStays
  <1>3. CASE \E d \in DOMAIN conn : FindAtEof(s, d)
    <2>1. PICK d \in DOMAIN conn : FindAtEof(s, d)
      BY <1>3
    <2>2. PICK i : work' = [work EXCEPT ![s] = Found(i, d)]
      BY <2>1 DEF FindAtEof
    <2>3. c = d
      BY <1>1, <2>2 DEF On, Found
    <2> QED
      BY <2>1, <2>3 DEF FindAtEof
  <1>4. NoWork.eof = NoConn /\ \A i : Found(i, NoConn).eof = NoConn
    BY DEF NoWork, Found
  <1>5. \A a : [work[s] EXCEPT !.at = a].eof = work[s].eof
    BY <1>1 DEF Work, NoWork
  <1>6. ASSUME ServerStep(s), ~\E d \in DOMAIN conn : FindAtEof(s, d)
        PROVE  work'[s] = work[s] \/ work'[s].eof \in {NoConn, work[s].eof}
    <2>1. ASSUME ObjectWork(s)
          PROVE  work'[s].eof \in {NoConn, work[s].eof}
      <3>1. Find(s) \/ NotifyDestroyed(s) \/ EraseAtEof(s)
        BY <1>6, <2>1 DEF ObjectWork
      <3>2. \/ \E i : work' = [work EXCEPT ![s] = Found(i, NoConn)]
            \/ \E a : work' = [work EXCEPT ![s].at = a]
        BY <3>1 DEF Find, NotifyDestroyed, EraseAtEof
      <3>3. \/ \E i : work'[s] = Found(i, NoConn)
            \/ \E a : work'[s] = [work[s] EXCEPT !.at = a]
        BY <1>1, <3>2 DEF On
      <3> QED
        BY <1>4, <1>5, <3>3
    <2>2. ASSUME SrvIO(s), ~ObjectWork(s)
          PROVE  work'[s] = work[s] \/ work'[s] = NoWork
      BY <1>1, <2>2 DEF On, SrvIO, registryVars, handlerVars, SrvAccept, SrvEof,
         SrvRead, SrvUdpDeclare, HandleDeclareNew, AssignModuleID, HandleDeclareDuplicate,
         HandleModuleShutdown, HandleExpose, HandleDesc, HandleValue, SrvApply
    <2>3. SrvPython(s) => work'[s] = work[s]
      BY DEF SrvPython, Discover, SendDiscovery, Connect, Disconnect, EndDisconnect,
             CallRemote, registryVars, handlerVars
    <2>4. SrvStop(s) \/ SrvStart(s) => work'[s] = NoWork
      BY <1>1 DEF SrvStop, SrvStart, SrvMemory, On
    <2> QED
      BY <1>4, <1>6, <2>1, <2>2, <2>3, <2>4 DEF ServerStep
  <1>7. ~ServerStep(s) => work'[s] = work[s]
    BY <1>1, OthersAlone, EachStep
  <1> QED
    BY <1>2, <1>3, <1>6, <1>7

(* The ways for a server to lose an object.                                  *)
Ended(s, r)  == EraseAtEof(s) /\ r.id = work[s].id
Bidden(s, r) == HandleModuleShutdown(s) /\ work[s].at = "notified" /\ r.id = work[s].id

LEMMA ObjectsLast ==
    ASSUME AddressInv, [Next]_vars, "srvcrash" \notin Ops, Unhurried,
           NEW s \in Servers, NEW r \in modules[s], ~Ended(s, r), ~Bidden(s, r)
    PROVE  \E q \in modules'[s] : Same(q, r)
  <1>1. On(modules, Servers) /\ TypeInv
    BY Facts DEF AddressInv, RegistryTypes, On
  <1>2. ASSUME r \in modules'[s] PROVE \E q \in modules'[s] : Same(q, r)
    BY <1>2 DEF Same
  <1>3. CASE \/ \E x \in Servers \ {s} : ServerStep(x)
             \/ \E m \in Modules : ModuleStep(m)
             \/ UNCHANGED vars
    BY <1>1, <1>2, <1>3, OthersAlone
  <1>4. ~SrvStop(s) /\ ~SrvStart(s)
    BY DEF AddressInv, Configured, SrvStop, SrvStart, Op
  <1>5. ASSUME NEW i, NEW R \in Erased(s, i), modules' = [modules EXCEPT ![s] = R], r.id # i
        PROVE  r \in modules'[s]
    <2>1. R = {o \in modules[s] : o.id # i}
      BY <1>5 DEF Erased, Unhurried
    <2> QED
      BY <1>1, <1>5, <2>1 DEF On
  <1>6. CASE SrvPython(s)
    <2>1. ~EndDisconnect(s)
      BY DEF EndDisconnect, Unhurried
    <2> QED
      BY <1>2, <1>6, <2>1 DEF SrvPython, Discover, SendDiscovery, Connect, Disconnect,
                              CallRemote, registryVars
  <1>7. CASE ObjectWork(s)
    <2>1. CASE EraseAtEof(s)
      <3>1. PICK R \in Erased(s, work[s].id) : modules' = [modules EXCEPT ![s] = R]
        BY <2>1 DEF EraseAtEof
      <3>2. r.id # work[s].id
        BY <2>1 DEF Ended
      <3> QED
        BY <1>2, <1>5, <3>1, <3>2
    <2>2. CASE ~EraseAtEof(s)
      BY <1>2, <1>7, <2>2 DEF ObjectWork, FindAtEof, Find, NotifyDestroyed
    <2> QED
      BY <2>1, <2>2
  <1>8. CASE HandleModuleShutdown(s)
    <2>1. CASE UNCHANGED modules
      BY <1>2, <2>1
    <2>2. CASE ~UNCHANGED modules
      <3>1. work[s].at = "notified"
            /\ \E R \in Erased(s, work[s].id) : modules' = [modules EXCEPT ![s] = R]
        BY <1>8, <2>2 DEF HandleModuleShutdown
      <3>2. PICK R \in Erased(s, work[s].id) : modules' = [modules EXCEPT ![s] = R]
        BY <3>1
      <3>3. r.id # work[s].id
        BY <1>8, <3>1 DEF Bidden
      <3> QED
        BY <1>2, <1>5, <3>2, <3>3
    <2> QED
      BY <2>1, <2>2
  <1>9. CASE HandleDeclareNew(s)
    <2>1. \/ UNCHANGED modules
          \/ \E o : modules' = [modules EXCEPT ![s] = modules[s] \cup {o}]
      BY <1>9 DEF HandleDeclareNew
    <2>2. r \in modules'[s]
      BY <1>1, <2>1 DEF On
    <2> QED
      BY <1>2, <2>2
  <1>10. CASE Takes(s)
    <2> DEFINE x == Head(ioTask[s].buf)
    <2>1. SrvApply(s, Told4) /\ x \in SrvMsg /\ modules[s] \subseteq ModuleRec
      BY <1>10, TakesFacts, Facts DEF AddressInv
    <2>2. CASE UNCHANGED modules
      BY <1>2, <2>2
    <2>3. CASE ~UNCHANGED modules
      <3> DEFINE f(o) == IF o.id = work[s].id THEN Applied(o, x) ELSE o
      <3>1. modules' = [modules EXCEPT ![s] =
               {IF o.id = work[s].id THEN Applied(o, x) ELSE o : o \in modules[s]}]
        BY <2>1, <2>3 DEF SrvApply
      <3>2. f(r) \in modules'[s]
        BY <1>1, <3>1 DEF On
      <3>3. Same(f(r), r)
        BY <2>1, AppliedFields DEF Same
      <3> QED
        BY <3>2, <3>3
    <2> QED
      BY <2>2, <2>3
  <1>11. CASE SrvIO(s) /\ ~HandleDeclareNew(s) /\ ~HandleModuleShutdown(s) /\ ~Takes(s)
              /\ ~ObjectWork(s)
    BY <1>2, <1>11 DEF SrvIO, Takes, SrvAccept, SrvEof, SrvRead, SrvUdpDeclare,
       AssignModuleID, HandleDeclareDuplicate, registryVars
  <1> QED
    BY <1>3, <1>4, <1>6, <1>7, <1>8, <1>9, <1>10, <1>11, EachStep DEF ServerStep

(* No object is lost while an id is being assigned.                          *)
LEMMA Undoomed ==
    ASSUME NEW s \in Servers, WorkOf(s), ioTask[s].assigning, NEW r
    PROVE  ~Ended(s, r) /\ ~Bidden(s, r)
  <1>1. ioTask[s] # Idle
    BY DEF Idle
  <1> QED
    BY <1>1 DEF Ended, Bidden, EraseAtEof, HandleModuleShutdown, WorkOf, SrvMsgIs

LEMMA NamedAfterStep ==
    ASSUME AddressInv, [Next]_vars, NamedAfter
    PROVE  NamedAfter'
  <1> SUFFICES ASSUME NEW s \in Servers, NEW r \in modules'[s]
               PROVE  r.name = Name[r.proc]
    BY DEF NamedAfter
  <1>1. (\E o \in modules[s] : Same(r, o)) \/ Declared(s, r)
    BY ObjectsFromSteps DEF ObjectsFrom, AddressInv
  <1> QED
    BY <1>1 DEF NamedAfter, Same, Declared

LEMMA AssigningPresentStep ==
    ASSUME AddressInv, TypeInv', [Next]_vars, "srvcrash" \notin Ops,
           Unhurried, AssigningPresent
    PROVE  AssigningPresent'
  <1> SUFFICES ASSUME NEW s \in Servers, ioTask'[s].assigning
               PROVE  \E r \in modules'[s] : r.id = nextObjId'[s]
    BY DEF AssigningPresent
  <1>1. nextObjId'[s] = nextObjId[s]
    BY ObjectsFromSteps DEF TaskFrom, AddressInv
  <1>2. CASE ioTask[s].assigning
    <2>1. PICK r \in modules[s] : r.id = nextObjId[s]
      BY <1>2 DEF AssigningPresent
    <2>2. ~Ended(s, r) /\ ~Bidden(s, r)
      BY <1>2, Undoomed DEF AddressInv, Working
    <2>3. \E q \in modules'[s] : Same(q, r)
      BY <2>2, ObjectsLast
    <2> QED
      BY <1>1, <2>1, <2>3 DEF Same
  <1>3. CASE ~ioTask[s].assigning
    <2>1. Top(s)' = nextObjId[s] /\ Top(s) = nextObjId[s] - 1
      BY <1>1, <1>3 DEF Top
    <2>2. nextObjId[s] \in Int /\ nextObjId[s] >= FirstId /\ FirstId \in Int
      BY Facts, ConstantsAssumption DEF AddressInv, RegistryTypes
    <2>3. /\ ~Keep(s) /\ ~Look(s) /\ ~Tell(s) /\ ~Erase(s) /\ ~Done(s) /\ ~Touch(s)
          /\ ~Leave(s) /\ ~Gone(s) /\ ~Reset(s)
      BY <2>1, <2>2 DEF Keep, Look, Tell, Erase, Done, Touch, Leave, Gone, Reset, SameObjects
    <2>4. Add(s)
      BY <2>3, ObjectSteps DEF ObjectStep, AddressInv
    <2>5. PICK o : o.id = Top(s) + 1 /\ o \in modules'[s]
      BY <2>4 DEF Add
    <2> QED
      BY <1>1, <2>1, <2>2, <2>5
  <1> QED
    BY <1>2, <1>3

-----------------------------------------------------------------------------
(* A message that arrives does its work *)

LEMMA HasRest ==
    ASSUME NEW M, NEW q \in Seq(M), NEW t, Has(q, t), Head(q).type # t
    PROVE  q # <<>> /\ Has(Tail(q), t)
  <1>1. PICK j \in DOMAIN q : q[j].type = t
    BY DEF Has
  <1>2. q # <<>> /\ j \in 1..Len(q) /\ j # 1
    BY <1>1
  <1>3. j - 1 \in DOMAIN Tail(q) /\ Tail(q)[j - 1] = q[j]
    BY <1>2
  <1> QED
    BY <1>1, <1>2, <1>3 DEF Has

(* Only a handler takes a message out of a task.                             *)
LEMMA RestMoves ==
    ASSUME NEW M, NEW t \in Task(M), t.buf # <<>>
    PROVE  Rest(t) # t /\ t # Idle
  <1>1. t.buf \in Seq(M)
    BY DEF Task
  <1>2. Tail(t.buf) # t.buf
    <2>1. Len(Tail(t.buf)) = Len(t.buf) - 1 /\ Len(t.buf) \in Nat
      BY <1>1, HeadTailProperties, LenProperties
    <2>2. Len(Tail(t.buf)) # Len(t.buf)
      BY <2>1
    <2> QED
      BY <2>2, Zenon
  <1>3. CASE Len(t.buf) <= 1
    BY <1>3 DEF Rest, Idle
  <1>4. CASE ~(Len(t.buf) <= 1)
    <2>1. Rest(t).buf = Tail(t.buf)
      BY <1>4 DEF Rest, Task
    <2> QED
      BY <1>2, <2>1 DEF Idle
  <1> QED
    BY <1>3, <1>4

LEMMA ReceivedAssign ==
    ASSUME UntoldInv, [Next]_vars, NEW c \in DOMAIN conn, Received(c),
           Head(Out(c)).type = Asg, conn'[c].mEnd # "closed"
    PROVE  HandleAssignId(conn[c].mod)
  <1> USE Known
  <1> DEFINE m == conn[c].mod
  <1>1. /\ m \in Modules /\ modTask[m] \in Task(ModMsg) /\ modTask[m].buf # <<>>
        /\ modTask[m].conn = c /\ modTask'[m] = Rest(modTask[m])
        /\ Head(modTask[m].buf).type = Asg
    BY OutFacts DEF Received
  <1>2. modTask[m] # Idle /\ modTask'[m] # modTask[m]
    BY <1>1, RestMoves
  <1>3. ASSUME NEW n \in Modules, ModuleStep(n)
        PROVE  n = m
    <2> SUFFICES ASSUME n # m PROVE modTask'[m] = modTask[m]
      BY <1>2
    <2>1. On(modTask, Modules)
      BY Facts DEF ModuleTypes, On, AddressInv
    <2>2. \A t : modTask' = [modTask EXCEPT ![n] = t] => modTask'[m] = modTask[m]
      BY <1>1, <2>1 DEF On
    <2>3. ModProgram(n) => modTask'[m] = modTask[m]
      BY <2>2 DEF ModProgram, UpdateAttribute, ModStart, ModCrash, ModShutdown, ModMemory,
                  modCommVars
    <2>4. ModLoop(n) => modTask'[m] = modTask[m]
      BY <2>2 DEF ModLoop, ModAccept, ModEof, ModRead, ModUdpDiscovery, HandleDiscovery,
                  HandleServerShutdown, HandleAssignId, HandleCall
    <2> QED
      BY <1>3, <2>3, <2>4 DEF ModuleStep
  <1>4. ModuleStep(m)
    <2>1. (\E s \in Servers : ServerStep(s)) => modTask' = modTask
      BY ServerLeaves
    <2>2. UNCHANGED vars => modTask' = modTask
      BY DEF vars
    <2> QED
      BY <1>2, <1>3, <2>1, <2>2, EachStep
  <1>5. up[m] /\ conn[c].mEnd = "open"
    BY <1>1 DEF HandMapped, DeadClosed
  <1>6. ~ModProgram(m)
    <2>1. ModCrash(m) => conn' = CloseMod(conn, ModConns(m))
      BY DEF ModCrash
    <2>2. c \in ModConns(m)
      BY DEF ModConns
    <2>3. ~ModCrash(m)
      BY <2>1, <2>2, ClosesEnds, Facts
    <2> QED
      BY <1>2, <1>5, <2>3 DEF ModProgram, UpdateAttribute, ModStart, ModShutdown
  <1> QED
    BY <1>1, <1>2, <1>4, <1>6 DEF ModuleStep, ModLoop, ModAccept, ModEof, ModRead,
       ModUdpDiscovery, HandleDiscovery, HandleServerShutdown, HandleCall, ModMsgIs, Asg

(* A program that is given its id remembers it, and says what it exports.    *)
LEMMA AnswerGiven ==
    ASSUME UntoldInv, Wires, NEW m \in Modules, HandleAssignId(m),
           NEW x, x = Head(modTask[m].buf), x.name = Name[m],
           NEW c, c = modTask[m].conn, conn[c].sEnd # "closed"
    PROVE  /\ serverMap'[m] = Put(serverMap[m], x.sid, x.id)
           /\ mMap'[m] = Put(mMap[m], x.sid, c)
           /\ Has(In(c)', Exp) /\ Has(In(c)', Dsc)
  <1> USE Known
  <1> DEFINE e == Expose(m, x.id)
             y == Describe(m, x.id)
             cs == ModWrite(conn, c, e)
             q == conn[c].toSrv
             h == InHandOf(c)
  <1>1. /\ modTask[m].buf # <<>> /\ x.type = Asg
    BY DEF HandleAssignId, ModMsgIs, Asg
  <1>2. /\ c \in DOMAIN conn /\ c # NoConn /\ conn[c].mod = m /\ mActive[m] = c
        /\ conn[c].mEnd = "open" /\ x \in ModMsg
    BY <1>1, ModHandHead, ModInHand DEF AssignActive, HandMapped
  <1>3. On(serverMap, Modules) /\ On(mMap, Modules) /\ conn \in Seq(Conn)
    BY Facts DEF ModuleTypes
  <1>4. /\ serverMap'[m] = Put(serverMap[m], x.sid, x.id)
        /\ mMap'[m] = Put(mMap[m], x.sid, c)
    BY <1>2, <1>3 DEF HandleAssignId, On
  <1>5. Put(mMap[m], x.sid, c)[x.sid] = c /\ x.sid \in DOMAIN Put(mMap[m], x.sid, c)
    BY DEF Put
  <1>6. conn' = ModWrite(cs, c, y) /\ ioTask' = ioTask
    BY <1>2, <1>5 DEF HandleAssignId, Expose, Describe
  <1>7. e \in SrvMsg /\ y \in SrvMsg /\ e.type = Exp /\ y.type = Dsc
    <2>1. x.id \in Int
      BY <1>1, <1>2, ByteType DEF ModMsg, Asg
    <2> QED
      BY <2>1, ModuleMessages DEF Expose, Describe, Reports, FromModule, Exp, Dsc
  <1>8. cs \in Seq(Conn) /\ SameEnds(conn, cs)
    <2>1. c \in {NoConn} \cup DOMAIN conn
      BY <1>2
    <2>2. SameEnds(conn, cs)
      BY <1>3, WritesKeepEnds
    <2>3. cs \in Seq(Conn)
      BY <1>3, <1>7, <2>1, ModWriteType
    <2> QED
      BY <2>2, <2>3
  <1>9. ModCanWrite(conn, c) /\ ModCanWrite(cs, c)
    BY <1>2, <1>8 DEF ModCanWrite, SameEnds
  <1>10. q \in Seq(SrvMsg) /\ h \in Seq(SrvMsg) /\ h' = h
    BY <1>2, <1>6, InFacts, SameHand DEF Wires
  <1>11. conn'[c].toSrv = Append(Append(q, e), y)
    <2>1. cs[c].toSrv = Append(q, e)
      BY <1>2, <1>3, <1>9, ModuleWriteKept
    <2>2. c \in DOMAIN cs
      BY <1>2, <1>8 DEF SameEnds
    <2> HIDE DEF cs, e, y
    <2>3. ModWrite(cs, c, y)[c].toSrv = Append(cs[c].toSrv, y)
      BY <1>8, <1>9, <2>2, ModuleWriteKept
    <2> QED
      BY <1>6, <2>1, <2>3
  <1> DEFINE w == <<e, y>>
  <1>12. w \in Seq(SrvMsg) /\ Has(w, Exp) /\ Has(w, Dsc)
    <2> HIDE DEF e, y
    <2>1. <<e, y>> \in Seq(SrvMsg)
      BY <1>7
    <2>2. Has(<<e, y>>, Exp) /\ Has(<<e, y>>, Dsc)
      BY <1>7, OneAndTwo
    <2> QED
      BY <2>1, <2>2
  <1>13. conn'[c].toSrv = q \o w
    <2> HIDE DEF e, y, q
    <2>1. q \o Append(<<e>>, y) = (q \o <<e>>) \o <<y>>
      BY <1>7, <1>10, Lists, Streams
    <2>2. Append(q, e) = q \o <<e>> /\ q \o <<e>> \in Seq(SrvMsg)
      BY <1>7, <1>10, AppendIsConcat, ConcatProperties
    <2>3. Append(q \o <<e>>, y) = (q \o <<e>>) \o <<y>>
      BY <1>7, <2>2, AppendIsConcat
    <2>4. Append(<<e>>, y) = <<e, y>>
      BY <1>7, Pair
    <2> QED
      BY <1>11, <2>1, <2>2, <2>3, <2>4
  <1>14. In(c)' = h \o (q \o w)
    BY <1>10, <1>13 DEF In
  <1> HIDE DEF w, q, h
  <1>15. q \o w \in Seq(SrvMsg)
    BY <1>10, <1>12, ConcatProperties
  <1>16. \A t : Has(w, t) => Has(q \o w, t)
    BY <1>10, <1>12, HasParts
  <1>17. \A t : Has(q \o w, t) => Has(h \o (q \o w), t)
    <2> DEFINE v == q \o w
    <2> HIDE DEF v
    <2>1. \A t : Has(v, t) => Has(h \o v, t)
      BY <1>10, <1>15, HasParts DEF v
    <2> QED
      BY <2>1 DEF v
  <1> QED
    BY <1>4, <1>12, <1>14, <1>16, <1>17

-----------------------------------------------------------------------------
(* A server and the program that an id of it leads to *)

(* The program holds the id, under the channel that the server maps to it.   *)
Knows(s, i, c) ==
    LET m == conn[c].mod
        k == ServerID[s]
    IN /\ k \in DOMAIN serverMap[m] /\ serverMap[m][k] = i
       /\ k \in DOMAIN mMap[m] /\ mMap[m][k] = c
(* The object was exposed (described), or will be by a message on the way.   *)
Shown(r, t)     == IF t = Exp THEN r.exposed >= 1 ELSE r.described
Heading(r, c)   == \A t \in {Exp, Dsc} : Shown(r, t) \/ Has(In(c), t)
(* While a program keeps the connection up that its id leads to, there is an *)
(* object for it, and the program knows of it or will be told.               *)
Joined(s, i) == LET c == sMap[s][i] IN conn[c].mEnd # "closed" =>
    \E r \in modules[s] : r.id = i /\ (Has(Out(c), Asg) \/ (Knows(s, i, c) /\ Heading(r, c)))
Connected(s) == \A i \in DOMAIN sMap[s] : Joined(s, i)
AllConnected == FewIds => \A s \in Servers : Connected(s)
AgreeInv == /\ UntoldInv /\ GrantInv /\ HoldInv /\ PresentInv /\ AllConnected

LEMMA FewFit ==
    ASSUME FewIds, UntoldInv, NEW s \in Servers
    PROVE  /\ Fit(s)
           /\ \A i \in DOMAIN sMap[s] : /\ i \in Nat /\ i % IdMask = i
                                        /\ i # Byte(Unassigned) % IdMask
                                        /\ i < nextObjId[s] /\ nextObjId[s] \in Int
  <1> USE Known
  <1>1. Fit(s)
    BY DEF FewIds, Fit
  <1>2. ASSUME NEW i \in DOMAIN sMap[s]
        PROVE  /\ i \in Nat /\ i % IdMask = i /\ i # Byte(Unassigned) % IdMask
               /\ i < nextObjId[s] /\ nextObjId[s] \in Int
    <2>1. i \in Ids
      BY Facts DEF ServerTypes
    <2>2. FirstId \in Nat /\ i \in Nat /\ i >= FirstId
      BY <2>1, ConstantsAssumption DEF Ids
    <2>3. nextObjId[s] \in Int /\ i < nextObjId[s]
      BY SameAs DEF MappedBelow
    <2>4. i \in Used(s)
      BY <2>2, <2>3 DEF Used
    <2>5. i < IdMask /\ i # Byte(Unassigned) % IdMask
      BY <2>4 DEF FewIds
    <2>6. i % IdMask = i
      BY <2>2, <2>5, WithinMask
    <2> QED
      BY <2>2, <2>3, <2>5, <2>6
  <1> QED
    BY <1>1, <1>2

(* The object of a running program outlives the step.                        *)
LEMMA JoinedLasts ==
    ASSUME AgreeInv, TypeInv', [Next]_vars, Undisturbed, FewIds,
           NEW s \in Servers, NEW i \in DOMAIN sMap[s], NEW c, c = sMap[s][i],
           conn[c].mEnd # "closed", NEW r \in modules[s], r.id = i
    PROVE  \E q \in modules'[s] : Same(q, r)
  <1> USE Known DEF AgreeInv, Undisturbed
  <1>1. /\ i % IdMask = i /\ i # Byte(Unassigned) % IdMask
        /\ \A j \in DOMAIN sMap[s] : j % IdMask = j
    BY FewFit
  <1>2. ~Ended(s, r)
    <2> SUFFICES ASSUME EraseAtEof(s), r.id = work[s].id
                 PROVE  FALSE
      BY DEF Ended
    <2>0. PICK d : d = work[s].eof
      OBVIOUS
    <2>1. /\ d \in DOMAIN conn /\ conn[d].mEnd = "closed"
          /\ KeysOf(sMap[s], d) # {} /\ r.id = FirstKey(sMap[s], d) % IdMask
      BY <2>0 DEF EraseAtEof, PresentInv, EofClosed, AddressInv, Working, WorkOf
    <2>2. FirstKey(sMap[s], d) \in KeysOf(sMap[s], d)
      BY <2>1, OnlyMapped
    <2>3. FirstKey(sMap[s], d) = i
      BY <1>1, <2>1, <2>2 DEF KeysOf
    <2>4. d = c
      BY <2>2, <2>3 DEF KeysOf
    <2> QED
      BY <2>1, <2>4
  <1>3. ~Bidden(s, r)
    <2> SUFFICES ASSUME HandleModuleShutdown(s), work[s].at = "notified", r.id = work[s].id
                 PROVE  FALSE
      BY DEF Bidden
    <2> DEFINE x == Head(ioTask[s].buf)
    <2>0. PICK d : d = ioTask[s].conn
      OBVIOUS
    <2>1. ioTask[s].buf # <<>> /\ x.type = "MODULE_SHUTDOWN" /\ x.id % IdMask = i
      <3>1. ioTask[s].buf # <<>> /\ x.type = "MODULE_SHUTDOWN" /\ ioTask[s] # Idle
        BY DEF HandleModuleShutdown, SrvMsgIs, Idle
      <3> QED
        BY <3>1 DEF AddressInv, Working, WorkOf
    <2>2. /\ d \in DOMAIN conn /\ conn[d].srv = s /\ conn[d].sEnd = "open"
          /\ 1 \in DOMAIN In(d) /\ In(d)[1] = x
      BY <2>0, <2>1, HandHead DEF OpenHand
    <2>3. x.id = Byte(Unassigned) \/ x.id \in KeysAt(d)
      BY <2>1, <2>2 DEF HoldInv, ReportsMapped
    <2>4. conn[d].mEnd = "closed"
      BY <2>1, <2>2 DEF HoldInv, ReportsMapped
    <2>5. x.id \in KeysOf(sMap[s], d)
      BY <1>1, <2>1, <2>2, <2>3 DEF KeysAt
    <2>6. x.id = i /\ d = c
      BY <1>1, <2>1, <2>5 DEF KeysOf
    <2> QED
      BY <2>4, <2>6
  <1> QED
    BY <1>2, <1>3, ObjectsLast DEF ServersApart, PresentInv

(* What the program knows it keeps.                                          *)
LEMMA KnowsLasts ==
    ASSUME AgreeInv, TypeInv', DeadClosed', [Next]_vars,
           Undisturbed, FewIds,
           NEW s \in Servers, NEW i \in DOMAIN sMap[s], NEW c, c = sMap[s][i],
           conn'[c].mEnd # "closed", NEW r \in modules[s], r.id = i, Knows(s, i, c)
    PROVE  Knows(s, i, c)'
  <1> USE Known DEF AgreeInv, Undisturbed
  <1>0. PICK m : m = conn[c].mod
    OBVIOUS
  <1> DEFINE k == ServerID[s]
  <1>1. /\ c \in DOMAIN conn /\ conn[c].srv = s /\ conn[c].sEnd = "open"
        /\ conn[c].mEnd # "closed" /\ m \in Modules /\ conn'[c].mod = m
    <2>1. c \in DOMAIN conn /\ conn[c].srv = s
      BY Facts DEF ServerTypes, AddressInv, Channels
    <2> QED
      BY <1>0, <2>1, ClosedStays, OutFacts, MailStep DEF OpenMapped
  <1> SUFFICES /\ k \in DOMAIN serverMap'[m] /\ serverMap'[m][k] = i
               /\ k \in DOMAIN mMap'[m] /\ mMap'[m][k] = c
    BY <1>1 DEF Knows
  <1>2. /\ k \in DOMAIN serverMap[m] /\ serverMap[m][k] = i
        /\ k \in DOMAIN mMap[m] /\ mMap[m][k] = c
    BY <1>0 DEF Knows
  <1>3. MapStep(m)
    BY <1>1, MapSteps
  <1>4. CASE KeepsMaps(m)
    BY <1>2, <1>4 DEF KeepsMaps
  <1>5. ~Forgets(m)
    <2> SUFFICES ASSUME ModMsgIs(m, "SERVER_SHUTDOWN") PROVE FALSE
      BY DEF Forgets
    <2>1. PICK d \in DOMAIN conn : Has(Out(d), "SERVER_SHUTDOWN")
      BY <1>1, ModHandHead DEF ModMsgIs
    <2> QED
      BY <2>1 DEF GrantInv, NoFarewell
  <1>6. ~Loses(m)
    <2>1. up[m]
      BY <1>0, <1>1 DEF DeadClosed
    <2>2. up'[m]
      <3>1. c \in DOMAIN conn'
        BY <1>1, MailStep
      <3> QED
        BY <1>1, <3>1 DEF DeadClosed
    <2> QED
      BY <2>1, <2>2 DEF Loses
  <1>7. ASSUME NEW d \in DOMAIN conn, HangsUp(m, d)
        PROVE  /\ k \in DOMAIN serverMap'[m] /\ serverMap'[m][k] = i
               /\ k \in DOMAIN mMap'[m] /\ mMap'[m][k] = c
    <2>1. d # c
      BY <1>1, <1>7 DEF HangsUp
    <2>2. CASE KeysOf(mMap[m], d) = {}
      BY <1>2, <1>7, <2>2 DEF HangsUp
    <2>3. CASE KeysOf(mMap[m], d) # {}
      <3> DEFINE n == FirstKey(mMap[m], d)
      <3>1. n \in KeysOf(mMap[m], d)
        BY <1>1, <2>3, OnlyKey
      <3>2. n # k
        BY <1>2, <2>1, <3>1 DEF KeysOf
      <3>3. serverMap'[m] = Del(serverMap[m], n) /\ mMap'[m] = Del(mMap[m], n)
        BY <1>7, <2>3 DEF HangsUp
      <3> HIDE DEF n
      <3> QED
        BY <1>2, <3>2, <3>3 DEF Del
    <2> QED
      BY <2>2, <2>3
  <1>8. ASSUME NEW n, NEW j, NEW d, Learns(m, n, j, d)
        PROVE  /\ k \in DOMAIN serverMap'[m] /\ serverMap'[m][k] = i
               /\ k \in DOMAIN mMap'[m] /\ mMap'[m][k] = c
    <2>1. /\ serverMap'[m] = Put(serverMap[m], n, j)
          /\ mMap'[m] = IF d = NoConn THEN mMap[m] ELSE Put(mMap[m], n, d)
      BY <1>8 DEF Learns
    <2>2. CASE n # k
      BY <1>2, <2>1, <2>2 DEF Put
    <2>3. CASE n = k
      <3>1. j # Unassigned
        <4>1. modTask[m].buf # <<>> /\ Head(modTask[m].buf).id = j
              /\ Head(modTask[m].buf).type = "MODULE_ASSIGN_ID"
          BY <1>2, <1>8, <2>3 DEF Learns
        <4>2. Head(modTask[m].buf) \in ModMsg
          BY <1>1, <4>1, ModInHand
        <4>3. j \in Ids
          BY <4>1, <4>2 DEF ModMsg
        <4> QED
          BY <4>3, ByteType, ConstantsAssumption DEF Ids, Unassigned
      <3>2. /\ d \in DOMAIN conn /\ conn[d].mod = m /\ conn[d].mEnd = "open"
            /\ d # NoConn /\ conn[d].srv \in Servers /\ Has(Out(d), Asg)
            /\ k = ServerID[conn[d].srv]
            /\ conn[d].sEnd # "closed" => j \in KeysAt(d)
        BY <1>1, <1>8, <2>3, <3>1, LearnsMapped
      <3>3. conn[d].srv = s
        BY <3>2 DEF ServersApart
      <3>4. conn[d].sEnd # "closed"
        BY <3>2 DEF GrantInv, AssignOpen
      <3>5. j \in DOMAIN sMap[s] /\ sMap[s][j] = d
        BY <3>2, <3>3, <3>4 DEF KeysAt, KeysOf
      <3>6. PICK q \in modules[s] : q.id = j
        BY <3>2, <3>5 DEF AllConnected, Connected, Joined
      <3>7. q.proc = m /\ r.proc = m
        BY <1>0, <3>2, <3>5, <3>6 DEF ChannelLeadsHome
      <3>8. q = r
        BY <3>6, <3>7 DEF PresentInv, NamedAfter, ObjectsInv, ObjectInv, Distinct
      <3>9. j = i /\ d = c
        BY <3>5, <3>6, <3>8
      <3> QED
        BY <2>1, <2>3, <3>2, <3>9 DEF Put
    <2> QED
      BY <2>2, <2>3
  <1> QED
    BY <1>3, <1>4, <1>5, <1>6, <1>7, <1>8 DEF MapStep


(* What is on its way to a server arrives, or stays on its way.              *)
LEMMA TellKeeps ==
    ASSUME AddressInv, NEW c \in DOMAIN conn, TellStep(c), NEW t, Has(In(c), t)
    PROVE  \/ Has(In(c)', t)
           \/ LET s == conn[c].srv
              IN /\ ioTask[s].buf # <<>> /\ ioTask'[s] = Rest(ioTask[s])
                 /\ 1 \in DOMAIN In(c) /\ In(c)[1] = Head(ioTask[s].buf)
                 /\ In(c)[1].type = t
  <1> DEFINE p == In(c)
             m == conn[c].mod
             s == conn[c].srv
  <1>1. p \in Seq(SrvMsg) /\ m \in Modules /\ s \in Servers
    BY InFacts
  <1>2. ASSUME NEW w \in Seq(SrvMsg), In(c)' = p \o w
        PROVE  Has(In(c)', t)
    <2>1. Has(p, t)
      OBVIOUS
    <2> HIDE DEF p
    <2>2. Has(p \o w, t)
      BY <1>1, <2>1, HasParts
    <2> QED
      BY <1>2, <2>2
  <1>3. CASE In(c)' = In(c)
    BY <1>3
  <1>4. CASE Handled(c)
    <2>1. /\ ioTask[s].buf # <<>> /\ ioTask[s].conn = c /\ In(c)' = Tail(p)
          /\ ioTask'[s] = Rest(ioTask[s])
      BY <1>4 DEF Handled
    <2>2. p # <<>> /\ 1 \in DOMAIN p /\ p[1] = Head(ioTask[s].buf)
      BY <1>1, <2>1, HandHead
    <2>3. Has(p, t)
      OBVIOUS
    <2>4. p[1].type # t => Has(Tail(p), t)
      <3> HIDE DEF p
      <3> QED
        BY <1>1, <2>2, <2>3, HasRest, Tails
    <2> QED
      BY <2>1, <2>2, <2>4
  <1>5. CASE Reported1(c)
    <2>1. PICK x \in SrvMsg : In(c)' = p \o <<x>>
      BY <1>5 DEF Reported1
    <2>2. <<x>> \in Seq(SrvMsg)
      OBVIOUS
    <2> QED
      BY <1>2, <2>1, <2>2
  <1>6. CASE Answered(c)
    <2> DEFINE i == Head(modTask[m].buf).id
               e == Expose(m, i)
               d == Describe(m, i)
    <2>1. In(c)' = p \o <<e, d>> /\ HandleAssignId(m)
      BY <1>6 DEF Answered
    <2>2. e \in SrvMsg /\ d \in SrvMsg
      <3>1. i \in Int
        BY <1>1, <2>1, AnsweredId DEF AddressInv
      <3> QED
        BY <1>1, <3>1, ModuleMessages DEF Expose, Describe, Reports, FromModule
    <2>3. <<e, d>> \in Seq(SrvMsg)
      BY <2>2
    <2> HIDE DEF e, d
    <2> QED
      BY <1>2, <2>1, <2>3
  <1> QED
    BY <1>3, <1>4, <1>5, <1>6 DEF TellStep

(* The connection of a program that an id leads to.                          *)
LEMMA JoinedEnd ==
    ASSUME AgreeInv, TypeInv', [Next]_vars, Undisturbed,
           NEW s \in Servers, NEW i \in DOMAIN sMap[s], NEW c, c = sMap[s][i]
    PROVE  /\ c \in DOMAIN conn /\ conn[c].srv = s /\ conn[c].mod \in Modules
           /\ i \in KeysAt(c) /\ conn[c].sEnd = "open"
           /\ conn'[c].mEnd # "closed" => conn[c].mEnd # "closed"
           /\ conn[c].mEnd # "closed" => /\ conn'[c].sEnd # "closed"
                                         /\ TellStep(c) /\ OutStep(c)
  <1> USE Known DEF AgreeInv, Undisturbed
  <1>1. c \in DOMAIN conn /\ conn[c].srv = s
    BY Facts DEF ServerTypes, AddressInv, Channels
  <1>2. conn[c].mod \in Modules /\ i \in KeysAt(c) /\ conn[c].sEnd = "open"
    BY <1>1, OutFacts DEF KeysAt, KeysOf, OpenMapped
  <1>3. ASSUME conn[c].mEnd # "closed"
        PROVE  conn'[c].sEnd # "closed" /\ TellStep(c) /\ OutStep(c)
    <2>1. conn'[c].sEnd # "closed"
      BY <1>1, <1>2, <1>3, StaysMapped DEF ServersApart
    <2> QED
      BY <1>1, <2>1, TellSteps, OutSteps
  <1> QED
    BY <1>1, <1>2, <1>3, ClosedStays

(* An exposure (description) that is on its way to an object will reach it.  *)
LEMMA HeadingLasts ==
    ASSUME AgreeInv, TypeInv', [Next]_vars, Undisturbed, FewIds,
           NEW s \in Servers, NEW i \in DOMAIN sMap[s], NEW c, c = sMap[s][i],
           conn[c].mEnd # "closed", NEW r \in modules[s], r.id = i, Heading(r, c),
           NEW q \in modules'[s], q.id = i
    PROVE  Heading(q, c)'
  <1> USE Known DEF AgreeInv
  <1> DEFINE x == Head(ioTask[s].buf)
  <1>1. /\ c \in DOMAIN conn /\ conn[c].srv = s /\ i \in KeysAt(c) /\ TellStep(c)
        /\ conn[c].sEnd # "closed"
    BY JoinedEnd
  <1>2. Fit(s) /\ i \in Nat /\ i < nextObjId[s] /\ nextObjId[s] \in Int
    BY FewFit
  <1>3. \/ q = r /\ (Takes(s) => x.id % IdMask # i)
        \/ Takes(s) /\ q = Applied(r, x)
    <2>1. ObjectsMade(s) /\ Distinct(s)
      BY ObjectsMadeSteps DEF AddressInv, ObjectsInv, ObjectInv
    <2>2. ~Made(s, q)
      BY <1>2 DEF Made, Declared
    <2>3. CASE Left(s, q)
      BY <2>1, <2>3 DEF Left, Distinct
    <2>4. CASE Touched(s, q)
      <3>1. PICK o \in modules[s] : q = Applied(o, x)
        BY <2>4 DEF Touched
      <3>2. q.id = o.id
        BY <3>1, AppliedFields, Facts DEF AddressInv
      <3> QED
        BY <2>1, <2>4, <3>1, <3>2 DEF Touched, Distinct
    <2> QED
      BY <2>1, <2>2, <2>3, <2>4 DEF ObjectsMade
  <1>4. /\ r.exposed \in Nat /\ r.described \in BOOLEAN
        /\ q = Applied(r, x) =>
             /\ x.type = Exp => q.exposed = r.exposed + 1
             /\ x.type # Exp => q.exposed = r.exposed
             /\ x.type = Dsc => q.described
             /\ x.type # Dsc => q.described = r.described
    <2>1. r \in ModuleRec
      BY Facts DEF AddressInv
    <2> QED
      BY <2>1, AppliedFields
  <1>5. Exp # Dsc
    BY DEF Exp, Dsc
  <1> SUFFICES ASSUME NEW t \in {Exp, Dsc}
               PROVE  Shown(q, t) \/ Has(In(c)', t)
    BY DEF Heading, Shown
  <1>6. CASE Shown(r, t)
    <2>1. Shown(q, t)
      <3>1. CASE q = r
        BY <1>6, <3>1
      <3>2. CASE q = Applied(r, x)
        BY <1>4, <1>6, <3>2 DEF Shown
      <3> QED
        BY <1>3, <3>1, <3>2
    <2> QED
      BY <2>1
  <1>7. CASE Has(In(c), t)
    <2>1. CASE Has(In(c)', t)
      BY <2>1
    <2>2. CASE ~Has(In(c)', t)
      <3>1. /\ ioTask[s].buf # <<>> /\ ioTask'[s] = Rest(ioTask[s])
            /\ 1 \in DOMAIN In(c) /\ In(c)[1] = x /\ x.type = t
        BY <1>1, <1>7, <2>2, TellKeeps
      <3>2. Takes(s)
        BY <3>1, TakesHead DEF Told4
      <3>3. x.id = i /\ x.id % IdMask = x.id
        BY <1>1, <1>2, <3>1, ToldId
      <3>4. q = Applied(r, x)
        BY <1>3, <3>2, <3>3
      <3> HIDE DEF x
      <3>5. Shown(q, t)
        BY <1>4, <1>5, <3>1, <3>4 DEF Shown
      <3> QED
        BY <3>5
    <2> QED
      BY <2>1, <2>2
  <1> QED
    BY <1>6, <1>7 DEF Heading

(* The id is on its way to the program once it is mapped.                    *)
LEMMA AssignmentSent ==
    ASSUME UntoldInv, TypeInv', [Next]_vars, NEW s \in Servers, AssignModuleID(s),
           NEW c, c = sActive[s], conn'[c].mEnd # "closed"
    PROVE  Has(Out(c)', Asg)
  <1> USE Known
  <1> DEFINE i == nextObjId[s]
             x == AssignId(s, i, Name[Head(ioTask[s].buf).from])
             q == conn[c].toMod
             h == OutHandOf(c)
  <1>1. /\ c = ioTask[s].conn /\ c \in DOMAIN conn /\ conn[c].srv = s
        /\ ioTask[s].buf # <<>> /\ Declares(Head(ioTask[s].buf)) /\ SameEnds(conn, conn')
    BY AssignFacts DEF ShareInv
  <1>2. /\ conn[c] \in Conn /\ c # NoConn /\ q \in Seq(ModMsg) /\ h \in Seq(ModMsg)
        /\ conn \in Seq(Conn)
    BY <1>1, OutFacts, Facts DEF AddressInv
  <1>3. conn[c].sEnd = "open" /\ conn[c].mEnd # "closed"
    BY <1>1 DEF OpenHand, SameEnds
  <1>4. x \in ModMsg /\ x.type = Asg
    <2>1. i <= MaxModuleId
      BY Facts DEF AddressInv, Assigning, AssignModuleID
    <2>2. i \in FirstId..MaxModuleId + 1
      BY Facts DEF AddressInv, RegistryTypes
    <2>3. i \in Ids
      BY <2>1, <2>2, ConstantsAssumption DEF Ids
    <2>4. Name[Head(ioTask[s].buf).from] \in Names
      BY <1>1, DeclareType DEF AddressInv, Declares
    <2>5. x \in ModMsg
      BY <2>3, <2>4, ServerMessages
    <2> QED
      BY <2>5 DEF AssignId, Asg
  <1>5. conn'[c].toMod = Append(q, x)
    <2>1. conn' = SrvWrite(conn, c, x)
      BY DEF AssignModuleID
    <2> QED
      BY <1>1, <1>2, <1>3, <2>1 DEF SrvWrite, Conn
  <1>6. h' = h
    <2>1. conn'[c].mod = conn[c].mod
      BY <1>1, MailStep DEF AddressInv
    <2>2. modTask' = modTask
      BY DEF AssignModuleID, modCommVars
    <2> QED
      BY <2>1, <2>2, SameOutHand
  <1>7. Out(c)' = h \o Append(q, x)
    BY <1>5, <1>6 DEF Out
  <1> HIDE DEF h, q, x
  <1>8. h \o Append(q, x) = (h \o q) \o <<x>> /\ h \o q \in Seq(ModMsg)
    BY <1>2, <1>4, Streams
  <1>9. Has(<<x>>, Asg) /\ <<x>> \in Seq(ModMsg)
    <2>1. Has(<<x>>, Asg)
      BY <1>4, OneAndTwo
    <2>2. <<x>> \in Seq(ModMsg)
      BY <1>4
    <2> QED
      BY <2>1, <2>2
  <1>10. Has((h \o q) \o <<x>>, Asg)
    BY <1>8, <1>9, HasParts
  <1> QED
    BY <1>7, <1>8, <1>10

(* What is on its way to a program arrives, or stays on its way.             *)
LEMMA OutKeeps ==
    ASSUME AddressInv, NEW c \in DOMAIN conn, OutStep(c), NEW t, Has(Out(c), t),
           conn'[c].mEnd # "closed"
    PROVE  Has(Out(c)', t) \/ (Received(c) /\ Head(Out(c)).type = t)
  <1> DEFINE p == Out(c)
  <1>1. p \in Seq(ModMsg) /\ Has(p, t)
    BY OutFacts
  <1>2. CASE Out(c)' = Out(c)
    BY <1>2
  <1>3. CASE Received(c)
    <2>1. Out(c)' = Tail(p)
      BY <1>3 DEF Received
    <2>2. Head(p).type # t => Has(Tail(p), t)
      <3> HIDE DEF p
      <3> QED
        BY <1>1, HasRest
    <2> QED
      BY <1>3, <2>1, <2>2
  <1>4. CASE Sent(c)
    <2>1. PICK x \in ModMsg : Out(c)' = Append(p, x)
      BY <1>4 DEF Sent
    <2> HIDE DEF p
    <2>2. Append(p, x) = p \o <<x>> /\ <<x>> \in Seq(ModMsg)
      BY <1>1, AppendIsConcat
    <2>3. Has(p \o <<x>>, t)
      BY <1>1, <2>2, HasParts
    <2> QED
      BY <2>1, <2>2, <2>3
  <1> QED
    BY <1>2, <1>3, <1>4 DEF OutStep

(* A program that takes its id from an open connection knows it, and says    *)
(* what it exports.                                                          *)
LEMMA JoinedByAnswer ==
    ASSUME AgreeInv, TypeInv', [Next]_vars, Undisturbed,
           NEW s \in Servers, NEW i \in DOMAIN sMap[s], NEW c, c = sMap[s][i],
           conn'[c].mEnd # "closed", Received(c), Head(Out(c)).type = Asg
    PROVE  Knows(s, i, c)' /\ Has(In(c)', Exp) /\ Has(In(c)', Dsc)
  <1> USE Known DEF AgreeInv
  <1> DEFINE m == conn[c].mod
             x == Head(modTask[m].buf)
  <1>1. /\ c \in DOMAIN conn /\ conn[c].srv = s /\ m \in Modules /\ i \in KeysAt(c)
        /\ conn[c].sEnd = "open"
    BY JoinedEnd
  <1>2. HandleAssignId(m)
    BY <1>1, ReceivedAssign
  <1>3. /\ modTask[m].buf # <<>> /\ modTask[m].conn = c /\ Head(Out(c)) = x
        /\ Out(c) # <<>> /\ x.sid = ServerID[s]
    BY <1>1, ModInHand DEF Received
  <1>4. 1 \in DOMAIN Out(c) /\ Out(c)[1] = x /\ x.type = Asg
    <2> DEFINE p == Out(c)
    <2>1. p \in Seq(ModMsg) /\ p # <<>>
      BY <1>1, <1>3, OutFacts
    <2> HIDE DEF p
    <2>2. 1 \in DOMAIN p /\ Head(p) = p[1]
      BY <2>1, Tails
    <2> QED
      BY <1>3, <2>2 DEF p
  <1>5. x.name = Name[m]
    BY <1>1, <1>4 DEF GrantInv, AssignNamed
  <1>6. x.id = i
    <2>1. x.id \in KeysAt(c)
      BY <1>1, <1>4 DEF AssignMapped
    <2> QED
      BY <1>1, <2>1 DEF KeysAt, KeysOf, MappedOnce
  <1>7. /\ serverMap'[m] = Put(serverMap[m], ServerID[s], i)
        /\ mMap'[m] = Put(mMap[m], ServerID[s], c)
        /\ Has(In(c)', Exp) /\ Has(In(c)', Dsc)
    <2>1. Wires
      BY StepWires
    <2>2. conn[c].sEnd # "closed"
      BY <1>1
    <2> HIDE DEF x
    <2>3. /\ serverMap'[m] = Put(serverMap[m], x.sid, x.id)
          /\ mMap'[m] = Put(mMap[m], x.sid, c)
          /\ Has(In(c)', Exp) /\ Has(In(c)', Dsc)
      BY <1>1, <1>2, <1>3, <1>5, <2>1, <2>2, AnswerGiven DEF x
    <2> QED
      BY <1>3, <1>6, <2>3
  <1>8. conn'[c].mod = m
    BY <1>1, MailStep
  <1> QED
    BY <1>7, <1>8 DEF Knows, Put

LEMMA JoinedStep ==
    ASSUME AgreeInv, TypeInv', DeadClosed', [Next]_vars, Undisturbed, FewIds,
           NEW s \in Servers, NEW i \in DOMAIN sMap'[s]
    PROVE  Joined(s, i)'
  <1> USE Known DEF AgreeInv
  <1> SUFFICES ASSUME NEW c, c = sMap'[s][i], conn'[c].mEnd # "closed"
               PROVE  \E r \in modules'[s] :
                         /\ r.id = i
                         /\ Has(Out(c)', Asg) \/ (Knows(s, i, c)' /\ Heading(r, c)')
    BY DEF Joined
  <1>1. i \in KeysOf(sMap'[s], c)
    BY DEF KeysOf
  <1>2. CASE i \in KeysOf(sMap[s], c)
    <2>1. i \in DOMAIN sMap[s] /\ c = sMap[s][i]
      BY <1>2 DEF KeysOf
    <2>2. c \in DOMAIN conn /\ conn[c].mEnd # "closed" /\ OutStep(c)
      BY <2>1, JoinedEnd
    <2>3. PICK r \in modules[s] :
            r.id = i /\ (Has(Out(c), Asg) \/ (Knows(s, i, c) /\ Heading(r, c)))
      BY <2>1, <2>2 DEF AllConnected, Connected, Joined
    <2>4. PICK q \in modules'[s] : Same(q, r)
      BY <2>1, <2>2, <2>3, JoinedLasts
    <2>5. q.id = i
      BY <2>3, <2>4 DEF Same
    <2>6. CASE Knows(s, i, c) /\ Heading(r, c)
      <3>1. Knows(s, i, c)'
        BY <2>1, <2>3, <2>6, KnowsLasts
      <3>2. Heading(q, c)'
        BY <2>1, <2>2, <2>3, <2>5, <2>6, HeadingLasts
      <3> QED
        BY <2>5, <3>1, <3>2
    <2>7. CASE Has(Out(c), Asg)
      <3>1. Has(Out(c)', Asg) \/ (Received(c) /\ Head(Out(c)).type = Asg)
        BY <2>2, <2>7, OutKeeps
      <3>2. CASE Received(c) /\ Head(Out(c)).type = Asg
        <4>1. Knows(s, i, c)' /\ Has(In(c)', Exp) /\ Has(In(c)', Dsc)
          BY <2>1, <3>2, JoinedByAnswer
        <4>2. Heading(q, c)'
          BY <4>1 DEF Heading
        <4> QED
          BY <2>5, <4>1, <4>2
      <3> QED
        BY <2>5, <3>1, <3>2
    <2> QED
      BY <2>3, <2>6, <2>7
  <1>3. CASE i \notin KeysOf(sMap[s], c)
    <2>1. AssignModuleID(s) /\ c = sActive[s]
      BY <1>1, <1>3, KeysAfter DEF ShareInv
    <2>2. sMap'[s] = Put(sMap[s], nextObjId[s], c)
      BY <2>1, AssignFacts DEF ShareInv
    <2>3. i = nextObjId[s]
      BY <1>1, <1>3, <2>2 DEF Put, KeysOf
    <2>4. PICK r \in modules[s] : r.id = nextObjId[s]
      BY <2>1 DEF PresentInv, AssigningPresent, AssignModuleID
    <2>5. modules' = modules
      BY <2>1 DEF AssignModuleID
    <2>6. Has(Out(c)', Asg)
      BY <2>1, AssignmentSent
    <2> QED
      BY <2>3, <2>4, <2>5, <2>6
  <1> QED
    BY <1>2, <1>3

LEMMA InitAgree == Init => AgreeInv
  <1> SUFFICES ASSUME Init PROVE AgreeInv
    OBVIOUS
  <1>1. UntoldInv
    BY UntoldStart
  <1>2. /\ DOMAIN conn = {} /\ \A s \in Servers : modules[s] = {} /\ ~ioTask[s].assigning
        /\ \A s \in Servers : DOMAIN sMap[s] = {}
        /\ \A m \in Modules : DOMAIN serverMap[m] = {}
    BY DEF Init, Idle, Empty
  <1>3. GrantInv /\ HoldInv /\ PresentInv /\ AllConnected
    BY <1>2 DEF GrantInv, NoFarewell, AssignNamed, AssignOpen, HoldInv, HeldMapped,
       ReportsMapped, PresentInv, NamedAfter, AssigningPresent, AllConnected, Connected,
       EofClosed, NoWork, Unhurried, Init
  <1> QED
    BY <1>1, <1>3 DEF AgreeInv

LEMMA NextAgree ==
    ASSUME AgreeInv, [Next]_vars, Undisturbed
    PROVE  AgreeInv'
  <1> USE DEF AgreeInv, Undisturbed
  <1>1. UntoldInv'
    BY NextUntold
  <1>2. AddressInv /\ AddressInv' /\ TypeInv' /\ DeadClosed'
    BY <1>1, Known DEF UntoldInv, AddressInv, OfflineInv
  <1>3. GrantInv'
    <2>1. NoFarewell' /\ AssignOpen'
      BY <1>2, GrantStep DEF NoFarewell, AssignOpen
    <2>2. AssignNamed'
      BY <1>2, GrantStep DEF AssignNamed
    <2> QED
      BY <2>1, <2>2 DEF GrantInv
  <1>4. HoldInv'
    <2>1. HeldMapped'
      BY <1>2, HeldStep DEF HeldMapped, HoldInv
    <2>2. ReportsMapped'
      BY <1>2, ReportsMappedStep DEF ReportsMapped
    <2> QED
      BY <2>1, <2>2 DEF HoldInv
  <1>5. PresentInv'
    BY <1>2, NamedAfterStep, AssigningPresentStep, EofClosedStep, UnhurriedStep
    DEF PresentInv, ServersApart
  <1>6. AllConnected'
    <2> SUFFICES ASSUME FewIds', NEW s \in Servers, NEW i \in DOMAIN sMap'[s]
                 PROVE  Joined(s, i)'
      BY DEF AllConnected, Connected
    <2>1. FewIds
      BY <1>2, FewBefore
    <2> QED
      BY <1>2, <2>1, JoinedStep
  <1> QED
    BY <1>1, <1>3, <1>4, <1>5, <1>6

(* When nothing is left to do, nothing is on its way.                        *)
LEMMA QuietStreams ==
    ASSUME AddressInv, Quiet, NEW c \in DOMAIN conn, conn[c].sEnd = "open"
    PROVE  /\ conn[c].mEnd # "closed"
           /\ \A t : ~Has(Out(c), t) /\ ~Has(In(c), t)
  <1>1. conn[c].srv \in Servers /\ conn[c].mod \in Modules
    BY InFacts
  <1>2. conn[c].mEnd # "closed" /\ conn[c].toSrv = <<>> /\ conn[c].toMod = <<>>
    BY DEF Quiet
  <1>3. ioTask[conn[c].srv].buf = <<>> /\ modTask[conn[c].mod].buf = <<>>
    BY <1>1 DEF Quiet, Idle
  <1>4. InHandOf(c) = <<>> /\ OutHandOf(c) = <<>>
    BY <1>3 DEF InHandOf, OutHandOf
  <1>5. <<>> \o <<>> = <<>>
    OBVIOUS
  <1>6. In(c) = <<>> /\ Out(c) = <<>>
    BY <1>2, <1>4, <1>5 DEF In, Out
  <1> QED
    BY <1>2, <1>6 DEF Has

LEMMA QuietAgreed ==
    ASSUME AgreeInv, FewIds, Quiet, NEW s \in Servers, NEW r \in modules[s]
    PROVE  Agreed(s, r)
  <1> USE Known DEF AgreeInv
  <1>1. PICK i : i = r.id
    OBVIOUS
  <1>2. Fit(s)
    BY FewFit
  <1>3. i \in DOMAIN sMap[s]
    BY <1>1, <1>2 DEF AllPresent, Calm, Present, Quiet, Idle, PresentInv, Unhurried
  <1>4. PICK c : c = sMap[s][i]
    OBVIOUS
  <1>5. c \in DOMAIN conn /\ conn[c].srv = s /\ conn[c].sEnd = "open"
    BY <1>3, <1>4, Facts DEF ServerTypes, AddressInv, Channels, OpenMapped
  <1>6. conn[c].mEnd # "closed" /\ ~Has(Out(c), Asg)
        /\ ~Has(In(c), Exp) /\ ~Has(In(c), Dsc)
    BY <1>5, QuietStreams
  <1>7. PICK o \in modules[s] : o.id = i /\ Knows(s, i, c) /\ Heading(o, c)
    BY <1>3, <1>4, <1>6 DEF AllConnected, Connected, Joined
  <1>8. o = r
    BY <1>1, <1>7 DEF ObjectsInv, ObjectInv, Distinct
  <1>9. r.exposed = 1 /\ r.described
    <2>1. r.exposed >= 1 /\ r.described
      BY <1>6, <1>7, <1>8 DEF Heading, Shown, Exp, Dsc
    <2>2. r.exposed <= 1
      BY <1>2 DEF UntoldInv, AllUntold, Untold
    <2>3. r.exposed \in Nat
      <3>1. r \in ModuleRec
        BY Facts DEF AddressInv
      <3> QED
        BY <3>1, AppliedFields
    <2> QED
      BY <2>1, <2>2, <2>3
  <1>10. conn[c].mod = r.proc /\ up[r.proc]
    BY <1>1, <1>3, <1>4, <1>5, <1>6 DEF ChannelLeadsHome, DeadClosed
  <1> QED
    BY <1>1, <1>3, <1>4, <1>5, <1>7, <1>9, <1>10 DEF Agreed, Knows

LEMMA AgreeAlways == Undisturbed => (Spec => []AgreeInv)
  <1> SUFFICES ASSUME Undisturbed PROVE Spec => []AgreeInv
    OBVIOUS
  <1>1. Init => AgreeInv
    BY InitAgree
  <1>2. AgreeInv /\ [Next]_vars => AgreeInv'
    BY NextAgree
  <1> QED
    BY <1>1, <1>2, PTL DEF Spec

\* If neither a server nor a discovery over IPC makes a second connection to a
\* program that has one (Dials), no server restarts, no two share their low
\* bits (ServersApart) and no script calls disconnect(), then as long as the
\* ids fit (FewIds), programs may come, go and crash as they like: whenever
\* everything has been processed, every object of every server stands for a
\* running program that holds this object's id, was exposed and described once,
\* and shares with the server an open connection that both channel maps name.
THEOREM ServersAndProgramsAgree ==
    ~Dials /\ ServersApart /\ "disconnect" \notin Ops
        => (Spec => [](FewIds => QuietAgreement))
  <1> SUFFICES ASSUME ~Dials, ServersApart, "disconnect" \notin Ops
               PROVE  Spec => [](FewIds => QuietAgreement)
    OBVIOUS
  <1> DEFINE Agree == FewIds => QuietAgreement
  <1>1. AgreeInv => Agree
    BY QuietAgreed DEF QuietAgreement
  <1>2. Spec => []AgreeInv
    BY AgreeAlways DEF Undisturbed
  <1> HIDE DEF Agree
  <1>3. Spec => []Agree
    BY <1>1, <1>2, PTL
  <1> QED
    BY <1>3 DEF Agree
-----------------------------------------------------------------------------
(* Where no program ends *)

(* Here, besides, a program runs on once it is started, and no two have the  *)
(* same class name.                                                          *)
Settled == /\ Undisturbed /\ "crash" \notin Ops /\ "shutdown" \notin Ops
           /\ \A m, n \in Modules : Name[m] = Name[n] => m = n

Lives(c) == conn[c].sEnd # "closed" /\ conn[c].mEnd # "closed"
Dcl      == "MODULE_DECLARE"

(* A server then hangs up on duplicates only.                                *)
LEMMA ServerKeeps ==
    ASSUME AddressInv, "srvcrash" \notin Ops, NEW s \in Servers, ServerStep(s),
           NEW c \in DOMAIN conn, Lives(c)
    PROVE  \/ conn'[c].sEnd # "closed"
           \/ HandleDeclareDuplicate(s) /\ c = sActive[s] /\ conn'[c].toSrv = <<>>
              /\ ioTask[s].udp
  <1> USE DEF Lives
  <1>1. conn \in Seq(Conn) /\ \A d \in DOMAIN conn : conn[d] \in Conn
    BY Facts DEF AddressInv
  <1>2. SameEnds(conn, conn') => conn'[c].sEnd # "closed"
    BY DEF SameEnds
  <1>3. ASSUME NEW d \in DOMAIN conn
        PROVE  /\ SrvAccept(s, d) => conn'[c].sEnd # "closed"
               /\ \A n : SrvRead(s, d, n) => conn'[c].sEnd # "closed"
               /\ SrvEof(s, d) => conn'[c].sEnd # "closed"
    <2>1. SrvAccept(s, d) => conn'[c].sEnd # "closed"
      BY <1>1 DEF SrvAccept, Conn
    <2>2. \A n : SrvRead(s, d, n) => conn'[c].sEnd # "closed"
      BY <1>1 DEF SrvRead, Conn
    <2>3. SrvEof(s, d) => conn'[c].sEnd # "closed"
      BY <1>1, ClosesEnds DEF SrvEof
    <2> QED
      BY <2>1, <2>2, <2>3
  <1>4. ASSUME NEW m \in Modules, conn' = Append(conn, OpenConn(s, m, "srv", "net"))
        PROVE  conn'[c].sEnd # "closed"
    BY <1>1, <1>4, AppendGrows
  <1>5. UNCHANGED conn => conn'[c].sEnd # "closed"
    OBVIOUS
  <1>6. ASSUME NEW m \in Modules
        PROVE  SrvUdpDeclare(s, m) \/ Connect(s, m) => conn'[c].sEnd # "closed"
    BY <1>4, <1>5 DEF SrvUdpDeclare, Connect
  <1>7. HandleDeclareNew(s) \/ HandleModuleShutdown(s) \/ HandleExpose(s)
        \/ HandleDesc(s) \/ HandleValue(s) \/ ObjectWork(s) \/ EndDisconnect(s)
        => UNCHANGED conn
    BY ObjectWorkKeeps DEF HandleDeclareNew, HandleModuleShutdown, HandleExpose, HandleDesc,
       HandleValue, SrvApply
  <1>8. AssignModuleID(s) \/ SendDiscovery(s)
        \/ (\E r \in modules[s] : Disconnect(s, r) \/ CallRemote(s, r))
        => conn'[c].sEnd # "closed"
    <2>1. AssignModuleID(s) \/ SendDiscovery(s)
          \/ (\E r \in modules[s] : Disconnect(s, r) \/ CallRemote(s, r))
          => \E d, x : conn' = SrvWrite(conn, d, x)
      BY DEF AssignModuleID, SendDiscovery, Disconnect, CallRemote
    <2> QED
      BY <1>1, <1>2, <2>1, WritesKeepEnds
  <1>9. CASE HandleDeclareDuplicate(s)
    <2> DEFINE d == sActive[s]
    <2>1. UNCHANGED conn \/ (conn' = CloseSrv(conn, {d}) /\ ioTask[s].udp)
      BY <1>9 DEF HandleDeclareDuplicate
    <2>2. CASE conn' = CloseSrv(conn, {d}) /\ ioTask[s].udp
      BY <1>1, <1>9, <2>2, ClosesEnds, ToServerKept
    <2> QED
      BY <1>5, <2>1, <2>2
  <1>10. CASE Discover(s)
    <2>1. PICK all \in Seq(Conn), used \in SUBSET Nat : Discovered(s, all, used)
      BY <1>10, DiscoverShape DEF AddressInv
    <2>2. \A d \in DOMAIN all : conn'[d].sEnd = all[d].sEnd
      BY <2>1 DEF Discovered, Conn
    <2> QED
      BY <2>1, <2>2 DEF Discovered
  <1>11. ~SrvStop(s) /\ (SrvStart(s) => UNCHANGED conn)
    BY DEF SrvStop, SrvStart, Op
  <1> QED
    BY <1>3, <1>5, <1>6, <1>7, <1>8, <1>9, <1>10, <1>11 DEF ServerStep, SrvIO, SrvPython

(* ... and a program hangs up after its server did.                          *)
LEMMA ModuleKeeps ==
    ASSUME AddressInv, "crash" \notin Ops, "shutdown" \notin Ops,
           NEW m \in Modules, ModuleStep(m), NEW c \in DOMAIN conn, Lives(c)
    PROVE  conn'[c].mEnd # "closed"
  <1> USE DEF Lives
  <1>1. conn \in Seq(Conn) /\ \A d \in DOMAIN conn : conn[d] \in Conn
    BY Facts DEF AddressInv
  <1>2. SameEnds(conn, conn') => conn'[c].mEnd # "closed"
    BY DEF SameEnds
  <1>3. ASSUME NEW d \in DOMAIN conn
        PROVE  /\ ModAccept(m, d) => conn'[c].mEnd # "closed"
               /\ \A n : ModRead(m, d, n) => conn'[c].mEnd # "closed"
               /\ ModEof(m, d) => conn'[c].mEnd # "closed"
    <2>1. ModAccept(m, d) => conn'[c].mEnd # "closed"
      BY <1>1 DEF ModAccept, Conn
    <2>2. \A n : ModRead(m, d, n) => conn'[c].mEnd # "closed"
      BY <1>1 DEF ModRead, Conn
    <2>3. ModEof(m, d) => conn'[c].mEnd # "closed"
      BY <1>1, ClosesEnds DEF ModEof
    <2> QED
      BY <2>1, <2>2, <2>3
  <1>4. UNCHANGED conn => conn'[c].mEnd # "closed"
    OBVIOUS
  <1>5. ASSUME NEW s \in Servers, ModUdpDiscovery(m, s)
        PROVE  conn'[c].mEnd # "closed"
    <2> DEFINE d  == Len(conn) + 1
               cs == Append(conn, OpenConn(s, m, "mod", "net"))
    <2>1. /\ cs \in Seq(Conn) /\ c \in DOMAIN cs /\ c # d /\ cs[c] = conn[c]
      BY <1>1, AppendGrows
    <2>2. UNCHANGED conn \/ conn' = CloseMod(cs, {d}) \/ conn' = ModWrite(cs, d, Declare(m))
      BY <1>5 DEF ModUdpDiscovery
    <2> HIDE DEF cs, d
    <2> QED
      BY <1>4, <2>1, <2>2, ClosesEnds, WritesKeepEnds DEF SameEnds
  <1>6. HandleDiscovery(m) \/ HandleCall(m) \/ HandleAssignId(m)
        => conn'[c].mEnd # "closed"
    <2>1. HandleDiscovery(m) \/ HandleCall(m) =>
            UNCHANGED conn \/ \E d, x : conn' = ModWrite(conn, d, x)
      BY DEF HandleDiscovery, HandleCall
    <2> QED
      BY <1>1, <1>2, <1>4, <2>1, AssignEnds, WritesKeepEnds
  <1>7. HandleServerShutdown(m) => UNCHANGED conn
    BY DEF HandleServerShutdown
  <1>8. UpdateAttribute(m) => conn'[c].mEnd # "closed"
    BY <1>1, <1>2, WritesKeepEnds DEF UpdateAttribute
  <1>9. CASE ModStart(m)
    <2>1. conn'[c] = conn[c]
      BY <1>9, ModStartShape DEF AddressInv, Started
    <2> QED
      BY <2>1
  <1>10. ~ModCrash(m) /\ ~ModShutdown(m)
    BY DEF ModCrash, ModShutdown, Op
  <1> QED
    BY <1>3, <1>4, <1>5, <1>6, <1>7, <1>8, <1>9, <1>10 DEF ModuleStep, ModLoop, ModProgram
(* A connection over which a declaration is under way, or to which an id is  *)
(* mapped, is open or waits to be accepted, at both ends.                    *)
Living == \A c \in DOMAIN conn : Has(In(c), Dcl) \/ KeysAt(c) # {} => Lives(c)

LEMMA LivingStep ==
    ASSUME AgreeInv, AgreeInv', [Next]_vars, Settled, Living, NEW c \in DOMAIN conn',
           Has(In(c)', Dcl) \/ KeysAt(c)' # {}
    PROVE  Lives(c)'
  <1> USE Known DEF AgreeInv
  <1>1. TypeInv' /\ ~Dials /\ OpenHand' /\ OpenMapped' /\ AddressInv'
    <2>1. UntoldInv'
      OBVIOUS
    <2>2. AddressInv' /\ TypeInv' /\ OpenHand' /\ OpenMapped'
      BY <2>1 DEF UntoldInv, AddressInv, OfflineInv, HandInv, ShareInv
    <2> QED
      BY <2>2 DEF Settled, Undisturbed
  <1>2. conn'[c] \in Conn /\ conn'[c].srv \in Servers
    <2>1. conn' \in Seq(Conn)
      BY <1>1 DEF TypeInv, TypeOK, NetworkTypes
    <2> QED
      BY <2>1, ConnFields
  <1>6. Has(In(c)', Dcl) => c \notin DOMAIN conn \/ Has(In(c), Dcl)
    <2> SUFFICES ASSUME c \in DOMAIN conn, Has(In(c)', Dcl)
                 PROVE  Has(In(c), Dcl)
      OBVIOUS
    <2>1. In(c) \in Seq(SrvMsg)
      BY InFacts
    <2>2. InStep(c)
      BY <1>1, InSteps
    <2>3. CASE Handled(c)
      <3>1. In(c) # <<>>
        BY <2>3, HandHead, InFacts DEF Handled
      <3> QED
        BY <2>1, <2>3, <3>1, HasTail DEF Handled
    <2>4. CASE Written(c)
      <3>1. PICK w \in Seq(SrvMsg) : Writes(conn[c].mod, c, w) /\ In(c)' = In(c) \o w
        BY <2>4 DEF Written
      <3>2. ~Has(w, Dcl)
        <4>1. CASE \E x \in SrvMsg : w = <<x>> /\ x.type \in
                      {"ATTR_VALUE_UPDATE", "ATTR_METD_RESP", "MODULE_SHUTDOWN"}
          BY <4>1, OneAndTwo DEF Dcl
        <4>2. CASE Answers(conn[c].mod, c, w)
          <5>1. PICK e, d : /\ w = <<e, d>> \/ w = <<d>>
                            /\ e.type # Dcl /\ d.type # Dcl
            BY <4>2 DEF Answers, Expose, Describe, FromModule, Dcl
          <5>2. Has(<<e, d>>, Dcl) <=> e.type = Dcl \/ d.type = Dcl
            BY OneAndTwo
          <5>3. Has(<<d>>, Dcl) <=> d.type = Dcl
            BY OneAndTwo
          <5> QED
            BY <5>1, <5>2, <5>3
        <4> QED
          BY <3>1, <4>1, <4>2 DEF Writes
      <3> QED
        BY <2>1, <3>1, <3>2, HasParts
    <2>5. ~Has(<<>>, Dcl)
      BY DEF Has
    <2> QED
      BY <2>2, <2>3, <2>4, <2>5 DEF InStep
  <1>3. KeysAt(c)' # {} =>
          c \in DOMAIN conn /\ (KeysAt(c) # {} \/ Has(In(c), Dcl))
    <2> SUFFICES ASSUME KeysAt(c)' # {}
                 PROVE  c \in DOMAIN conn /\ (KeysAt(c) # {} \/ Has(In(c), Dcl))
      OBVIOUS
    <2> DEFINE s == conn'[c].srv
    <2>1. s \in Servers
      BY <1>2
    <2> HIDE DEF s
    <2>2. KeysOf(sMap'[s], c) # {}
      BY DEF KeysAt, s
    <2>3. CASE KeysOf(sMap'[s], c) \subseteq KeysOf(sMap[s], c)
      <3>1. KeysOf(sMap[s], c) # {}
        BY <2>2, <2>3
      <3>2. c \in DOMAIN conn
        BY <2>1, <3>1, Facts DEF AddressInv, ServerTypes, KeysOf
      <3>3. conn[c].srv = s
        BY <1>1, <3>2, StepWires DEF Wires, s
      <3> QED
        BY <3>1, <3>2, <3>3 DEF KeysAt
    <2>4. CASE AssignModuleID(s) /\ c = sActive[s]
      <3>1. /\ c = ioTask[s].conn /\ ioTask[s].buf # <<>>
            /\ Head(ioTask[s].buf).type = Dcl
        BY <1>1, <2>1, <2>4, AssignFacts DEF Declares, Dcl
      <3>2. c \in DOMAIN conn /\ 1 \in DOMAIN In(c) /\ In(c)[1] = Head(ioTask[s].buf)
        BY <2>1, <3>1, HandHead
      <3> QED
        BY <3>1, <3>2 DEF Has
    <2> QED
      BY <1>1, <2>1, <2>3, <2>4, KeysAfter
  <1>4. CASE c \notin DOMAIN conn
    <2>1. In(c)' # <<>>
      BY <1>3, <1>4 DEF Has
    <2> QED
      BY <1>1, <1>4, <2>1, NewIn DEF Lives
  <1>5. CASE c \in DOMAIN conn
    <2>1. Lives(c)
      BY <1>6, <1>3, <1>5 DEF Living
    <2>2. CASE \E s \in Servers : ServerStep(s)
      <3>1. PICK s \in Servers : ServerStep(s)
        BY <2>2
      <3>2. conn'[c].mEnd # "closed"
        BY <1>5, <2>1, <3>1, ServerEnds DEF SrvEnds, Lives
      <3>3. CASE conn'[c].sEnd = "closed"
        <4>1. conn'[c].toSrv = <<>>
          BY <1>5, <2>1, <3>1, <3>3, ServerKeeps DEF Settled, Undisturbed, ServersApart
        <4>2. InHandOf(c)' = <<>>
          BY <1>1, <1>2, <3>3 DEF InHandOf, OpenHand
        <4>3. In(c)' = <<>>
          <5>1. <<>> \o <<>> = <<>>
            OBVIOUS
          <5> QED
            BY <4>1, <4>2, <5>1 DEF In
        <4>4. KeysAt(c)' = {}
          <5> QED
            BY <1>1, <1>2, <3>3 DEF KeysAt, KeysOf, OpenMapped
        <4> QED
          BY <4>3, <4>4 DEF Has
      <3> QED
        BY <3>2, <3>3 DEF Lives
    <2>3. CASE \E m \in Modules : ModuleStep(m)
      <3>1. PICK m \in Modules : ModuleStep(m)
        BY <2>3
      <3>2. conn'[c].sEnd # "closed"
        BY <1>5, <2>1, <3>1, ModuleEnds DEF ModEnds, Lives
      <3>3. conn'[c].mEnd # "closed"
        BY <1>5, <2>1, <3>1, ModuleKeeps DEF Settled
      <3> QED
        BY <3>2, <3>3 DEF Lives
    <2>4. CASE UNCHANGED vars
      BY <2>1, <2>4 DEF vars, Lives
    <2> QED
      BY <2>2, <2>3, <2>4, EachStep
  <1> QED
    BY <1>4, <1>5

(* The object of a program that runs on stays.                               *)
LEMMA ObjectStays ==
    ASSUME AgreeInv, TypeInv', [Next]_vars, Settled, Living, FewIds,
           NEW s \in Servers, NEW r \in modules[s]
    PROVE  \E q \in modules'[s] : Same(q, r)
  <1> USE Known DEF AgreeInv
  <1>1. Undisturbed /\ "srvcrash" \notin Ops /\ "disconnect" \notin Ops
    BY DEF Settled, Undisturbed, ServersApart
  <1>2. CASE r.id \in DOMAIN sMap[s]
    <2> DEFINE i == r.id
               c == sMap[s][i]
    <2>1. c \in DOMAIN conn /\ i \in KeysAt(c)
      BY <1>1, <1>2, JoinedEnd
    <2>2. conn[c].mEnd # "closed"
      BY <2>1 DEF Living, Lives
    <2> HIDE DEF c, i
    <2>3. PICK d, j : d = c /\ j = i
      OBVIOUS
    <2> QED
      BY <1>1, <1>2, <2>2, JoinedLasts DEF c, i
  <1>3. CASE r.id \notin DOMAIN sMap[s]
    <2>1. ioTask[s].assigning
      BY <1>3, FewFit DEF AllPresent, Calm, Present, PresentInv, Unhurried
    <2>2. ~Ended(s, r) /\ ~Bidden(s, r)
      BY <2>1, Undoomed DEF AddressInv, Working
    <2> QED
      BY <1>1, <2>2, ObjectsLast DEF PresentInv
  <1> QED
    BY <1>2, <1>3

(* No server has run out of ids.                                             *)
IdsLeft == \A s \in Servers : nextObjId[s] <= MaxModuleId

LEMMA LeftBefore ==
    ASSUME AddressInv, TypeInv', [Next]_vars, ServersApart, IdsLeft'
    PROVE  IdsLeft
  <1> SUFFICES ASSUME NEW s \in Servers PROVE nextObjId[s] <= MaxModuleId
    BY DEF IdsLeft
  <1>1. nextObjId[s] \in Int /\ nextObjId'[s] \in Int /\ nextObjId'[s] >= nextObjId[s]
    BY IdsGrow DEF ServersApart
  <1>2. nextObjId'[s] <= MaxModuleId /\ MaxModuleId \in Int
    BY ConstantsAssumption DEF IdsLeft
  <1> QED
    BY <1>1, <1>2

(* The handler of a declaration, as long as there are ids left: the last half*)
(* of addNewModule, or the rejection of a duplicate.                         *)
LEMMA DeclareHandlers ==
    ASSUME AddressInv, [Next]_vars, "srvcrash" \notin Ops, IdsLeft, NEW s \in Servers,
           ioTask[s].buf # <<>>, ioTask'[s] = Rest(ioTask[s]),
           Head(ioTask[s].buf).type = Dcl
    PROVE  AssignModuleID(s) \/ HandleDeclareDuplicate(s)
  <1> DEFINE t == ioTask[s]
             u == [t EXCEPT !.assigning = TRUE]
  <1>1. /\ t \in Task(SrvMsg) /\ On(ioTask, Servers)
        /\ nextObjId[s] \in Int /\ MaxModuleId \in Int
    BY Facts, ConstantsAssumption DEF AddressInv, ServerTypes, On, RegistryTypes
  <1>2. Rest(t) # t /\ t # Idle
    BY <1>1, RestMoves
  <1>3. Rest(t) # u
    <2>1. u \in Task(SrvMsg) /\ u.buf # <<>>
      BY <1>1 DEF Task
    <2>2. Rest(u) = Rest(t)
      BY <1>1 DEF Rest, Task
    <2> HIDE DEF u, t
    <2> QED
      BY <2>1, <2>2, RestMoves
  <1>4. ServerStep(s)
    BY <1>2, OthersAlone, EachStep DEF AddressInv
  <1>5. ~SrvStop(s) /\ ~SrvStart(s)
    BY DEF SrvStop, SrvStart, Op, AddressInv, Configured
  <1>10. ~ObjectWork(s) /\ ~EndDisconnect(s)
    BY <1>2, ObjectWorkKeeps
  <1>6. ~SrvPython(s)
    BY <1>2, <1>10 DEF SrvPython, Discover, SendDiscovery, Connect, Disconnect, CallRemote
  <1>7. ~HandleDeclareNew(s)
    <2> SUFFICES ASSUME HandleDeclareNew(s) PROVE FALSE
      OBVIOUS
    <2>1. ~(nextObjId[s] > MaxModuleId)
      BY <1>1 DEF IdsLeft
    <2>2. ioTask' = [ioTask EXCEPT ![s].assigning = TRUE]
      BY <2>1 DEF HandleDeclareNew
    <2>3. ioTask'[s] = u
      BY <1>1, <2>2 DEF On
    <2> QED
      BY <1>3, <2>3
  <1>8. ~HandleModuleShutdown(s) /\ ~HandleExpose(s) /\ ~HandleDesc(s) /\ ~HandleValue(s)
    BY DEF HandleModuleShutdown, HandleExpose, HandleDesc, HandleValue, SrvApply, SrvMsgIs,
           Dcl
  <1>9. SrvIO(s)
    BY <1>4, <1>5, <1>6 DEF ServerStep
  <1> QED
    BY <1>2, <1>7, <1>8, <1>9, <1>10 DEF SrvIO, SrvAccept, SrvEof, SrvRead, SrvUdpDeclare

(* The program has an object, or a declaration of it is on its way.          *)
Registered(s, m) == \E r \in modules[s] : r.proc = m
Declaring(s, m)  == \E c \in DOMAIN conn :
    conn[c].srv = s /\ conn[c].mod = m /\ Has(In(c), Dcl)
Met(s, m) == Registered(s, m) \/ Declaring(s, m)

(* A declaration that arrives makes an object, if there was none.            *)
LEMMA DeclarationMade ==
    ASSUME AgreeInv, TypeInv', [Next]_vars, Settled, Living, FewIds, IdsLeft,
           NEW s \in Servers, NEW c \in DOMAIN conn, conn[c].srv = s,
           ioTask[s].conn = c, ioTask[s].buf # <<>>, Head(ioTask[s].buf).type = Dcl,
           AssignModuleID(s) \/ HandleDeclareDuplicate(s)
    PROVE  \E q \in modules'[s] : q.proc = conn[c].mod
  <1> USE Known DEF AgreeInv
  <1>1. Head(ioTask[s].buf).from = conn[c].mod /\ conn[c].mod \in Modules
    BY SrvInHand
  <1>2. \E r \in modules[s] : r.proc = conn[c].mod
    <2>1. CASE AssignModuleID(s)
      <3>1. PICK r \in modules[s] : r.id = nextObjId[s]
        BY <2>1 DEF AssignModuleID, PresentInv, AssigningPresent
      <3> QED
        BY <1>1, <2>1, <3>1 DEF AssignModuleID, UntoldInv, HomeInv, AssigningItsOwn
    <2>2. CASE HandleDeclareDuplicate(s)
      <3>1. PICK r \in modules[s] : r.name = Name[conn[c].mod]
        BY <1>1, <2>2 DEF HandleDeclareDuplicate
      <3>2. r.name = Name[r.proc] /\ r.proc \in Modules
        BY <3>1, Facts DEF PresentInv, NamedAfter, AddressInv, ModuleRec
      <3> QED
        BY <1>1, <3>1, <3>2 DEF Settled
    <2> QED
      BY <2>1, <2>2
  <1>3. PICK r \in modules[s] : r.proc = conn[c].mod
    BY <1>2
  <1>4. \E q \in modules'[s] : Same(q, r)
    BY ObjectStays
  <1> QED
    BY <1>3, <1>4 DEF Same

LEMMA MetLasts ==
    ASSUME AgreeInv, TypeInv', [Next]_vars, Settled, Living, FewIds, IdsLeft,
           NEW s \in Servers, NEW m \in Modules, Met(s, m)
    PROVE  Met(s, m)'
  <1> USE Known DEF AgreeInv
  <1>1. Undisturbed /\ ~Dials /\ "srvcrash" \notin Ops
    BY DEF Settled, Undisturbed, ServersApart
  <1>2. CASE Registered(s, m)
    <2>1. PICK r \in modules[s] : r.proc = m
      BY <1>2 DEF Registered
    <2>2. \E q \in modules'[s] : Same(q, r)
      BY ObjectStays
    <2> QED
      BY <2>1, <2>2 DEF Met, Registered, Same
  <1>3. ASSUME NEW c \in DOMAIN conn, conn[c].srv = s, conn[c].mod = m, Has(In(c), Dcl)
        PROVE  Met(s, m)'
    <2>1. c \in DOMAIN conn' /\ conn'[c].srv = s /\ conn'[c].mod = m
      BY <1>3, StepWires DEF Wires
    <2>2. Has(In(c)', Dcl) => Met(s, m)'
      BY <2>1 DEF Met, Declaring
    <2>3. In(c) \in Seq(SrvMsg) /\ InStep(c)
      BY <1>1, InFacts, InSteps
    <2>4. CASE Written(c)
      <3>1. PICK w \in Seq(SrvMsg) : In(c)' = In(c) \o w
        BY <2>4 DEF Written
      <3> QED
        BY <1>3, <2>2, <2>3, <3>1, HasParts
    <2>5. CASE Handled(c)
      <3>1. /\ ioTask[s].buf # <<>> /\ ioTask[s].conn = c
            /\ ioTask'[s] = Rest(ioTask[s]) /\ In(c)' = Tail(In(c))
        BY <1>3, <2>5 DEF Handled
      <3>2. In(c) # <<>> /\ Head(In(c)) = Head(ioTask[s].buf)
        BY <3>1, HandHead
      <3>3. CASE Head(ioTask[s].buf).type = Dcl
        <4>1. AssignModuleID(s) \/ HandleDeclareDuplicate(s)
          BY <1>1, <3>1, <3>3, DeclareHandlers
        <4> QED
          BY <1>3, <3>1, <3>3, <4>1, DeclarationMade DEF Met, Registered
      <3>4. CASE Head(ioTask[s].buf).type # Dcl
        <4>1. Has(Tail(In(c)), Dcl)
          BY <1>3, <2>3, <3>2, <3>4, HasRest
        <4> QED
          BY <2>2, <3>1, <4>1
      <3> QED
        BY <3>3, <3>4
    <2>6. CASE conn'[c].sEnd = "closed"
      <3>1. Lives(c)
        BY <1>3 DEF Living
      <3>2. PICK x \in Servers : ServerStep(x)
        <4>1. ~\E n \in Modules : ModuleStep(n)
          BY <2>6, <3>1, ModuleEnds DEF ModEnds, Lives
        <4>2. ~UNCHANGED vars
          BY <2>6, <3>1 DEF vars, Lives
        <4> QED
          BY <4>1, <4>2, EachStep
      <3>3. x = s
        BY <1>3, <2>6, <3>1, <3>2, ServerEnds DEF SrvEnds, Lives
      <3>4. HandleDeclareDuplicate(s) /\ c = sActive[s]
        BY <1>1, <2>6, <3>1, <3>2, <3>3, ServerKeeps
      <3>5. ioTask[s].buf # <<>> /\ Head(ioTask[s].buf).type = Dcl
        BY <3>4 DEF HandleDeclareDuplicate, SrvMsgIs, Dcl
      <3>6. ioTask[s].conn = c
        BY <3>4, <3>5 DEF DeclareActive, Declares, Dcl
      <3> QED
        BY <1>3, <3>4, <3>5, <3>6, DeclarationMade DEF Met, Registered
    <2> QED
      BY <1>3, <2>2, <2>3, <2>4, <2>5, <2>6 DEF InStep
  <1> QED
    BY <1>2, <1>3 DEF Met, Declaring

(* A program meets a server by UDP, or by being assigned an id.              *)
LEMMA NewEntry ==
    ASSUME AddressInv, [Next]_vars, ~Dials, NEW m \in Modules,
           NEW k \in DOMAIN serverMap'[m], k \notin DOMAIN serverMap[m]
    PROVE  /\ ModuleStep(m)
           /\ \/ \E s \in Servers : /\ ModUdpDiscovery(m, s) /\ sUp[s] /\ k = ServerID[s]
                                    /\ ServerID[s] \notin DOMAIN serverMap[m]
              \/ /\ HandleAssignId(m) /\ k = Head(modTask[m].buf).sid
                 /\ Head(modTask[m].buf).name = Name[m]
  <1>1. On(serverMap, Modules) /\ serverMap'[m] # serverMap[m]
    BY Facts DEF AddressInv, ModuleTypes
  <1>2. ASSUME NEW n \in Modules, ModuleStep(n), n # m
        PROVE  FALSE
    <2>1. ASSUME NEW v, serverMap' = [serverMap EXCEPT ![n] = v]
          PROVE  FALSE
      BY <1>1, <1>2, <2>1 DEF On
    <2>2. \A c \in DOMAIN conn : /\ ModAccept(n, c) \/ ModEof(n, c) => FALSE
                                 /\ \A i : ModRead(n, c, i) => FALSE
      BY <1>1, <2>1 DEF ModAccept, ModEof, ModRead
    <2>3. \A s \in Servers : ~ModUdpDiscovery(n, s)
      BY <1>1, <2>1 DEF ModUdpDiscovery
    <2>4. ~HandleDiscovery(n) /\ ~HandleServerShutdown(n) /\ ~HandleAssignId(n)
      BY <1>1, <2>1 DEF HandleDiscovery, HandleServerShutdown, HandleAssignId
    <2>5. ~HandleCall(n) /\ ~UpdateAttribute(n)
      BY <1>1 DEF HandleCall, UpdateAttribute, modCommVars
    <2>6. \A alive : ~ModMemory(n, alive)
      BY <2>1 DEF ModMemory
    <2>7. ~ModProgram(n)
      BY <2>5, <2>6 DEF ModProgram, ModStart, ModCrash, ModShutdown
    <2> QED
      BY <1>2, <2>2, <2>3, <2>4, <2>5, <2>7 DEF ModuleStep, ModLoop
  <1>3. ModuleStep(m)
    <2>1. ASSUME NEW s \in Servers, ServerStep(s)
          PROVE  FALSE
      BY <1>1, <2>1, ServerLeaves
    <2>2. ~UNCHANGED vars
      BY <1>1 DEF vars
    <2> QED
      BY <1>2, <2>1, <2>2, EachStep
  <1>4. \A v : serverMap' = [serverMap EXCEPT ![m] = v] => serverMap'[m] = v
    BY <1>1 DEF On
  <1>5. ~ModStart(m) /\ ~ModCrash(m) /\ ~ModShutdown(m)
    <2>1. DOMAIN Empty = {}
      BY DEF Empty
    <2>2. \A alive : ~ModMemory(m, alive)
      BY <1>4, <2>1 DEF ModMemory
    <2> QED
      BY <2>2 DEF ModStart, ModCrash, ModShutdown
  <1>6. /\ ~HandleCall(m) /\ ~UpdateAttribute(m)
        /\ \A c \in DOMAIN conn : ~ModAccept(m, c) /\ \A n : ~ModRead(m, c, n)
    <2>1. ~HandleCall(m) /\ ~UpdateAttribute(m)
      BY <1>1 DEF HandleCall, UpdateAttribute, modCommVars
    <2>2. \A c \in DOMAIN conn : ~ModAccept(m, c) /\ \A n : ~ModRead(m, c, n)
      BY <1>1 DEF ModAccept, ModRead
    <2> QED
      BY <2>1, <2>2
  <1>7. ~HandleServerShutdown(m) /\ \A c \in DOMAIN conn : ~ModEof(m, c)
    <2>1. \A j : serverMap'[m] # Del(serverMap[m], j)
      BY DEF Del
    <2>2. ~HandleServerShutdown(m)
      BY <1>4, <2>1 DEF HandleServerShutdown
    <2>3. \A c \in DOMAIN conn : ~ModEof(m, c)
      BY <1>1, <1>4, <2>1 DEF ModEof
    <2> QED
      BY <2>2, <2>3
  <1>8. ~HandleDiscovery(m)
    <2> SUFFICES ASSUME HandleDiscovery(m) PROVE FALSE
      OBVIOUS
    <2>1. modTask[m].buf # <<>> /\ Head(modTask[m].buf).type = "MODULE_DISCOVERY"
      BY DEF HandleDiscovery, ModMsgIs
    <2> QED
      BY <2>1, ModInHand DEF AddressInv, Addressed
  <1>9. ASSUME NEW s \in Servers, ModUdpDiscovery(m, s)
        PROVE  sUp[s] /\ k = ServerID[s] /\ ServerID[s] \notin DOMAIN serverMap[m]
    <2>1. ~UNCHANGED serverMap
      BY <1>1
    <2>2. /\ sUp[s] /\ ServerID[s] \notin DOMAIN serverMap[m]
          /\ serverMap' = [serverMap EXCEPT ![m] = Put(serverMap[m], ServerID[s], Unassigned)]
      BY <1>9, <2>1 DEF ModUdpDiscovery
    <2> QED
      BY <1>4, <2>2 DEF Put
  <1>10. ASSUME HandleAssignId(m)
         PROVE  k = Head(modTask[m].buf).sid /\ Head(modTask[m].buf).name = Name[m]
    <2>1. ~UNCHANGED serverMap
      BY <1>1
    <2>2. LET x == Head(modTask[m].buf)
          IN /\ x.name = Name[m]
             /\ serverMap' = [serverMap EXCEPT ![m] = Put(serverMap[m], x.sid, x.id)]
      BY <1>10, <2>1 DEF HandleAssignId
    <2> QED
      BY <1>4, <2>2 DEF Put
  <1> QED
    BY <1>3, <1>5, <1>6, <1>7, <1>8, <1>9, <1>10 DEF ModuleStep, ModLoop, ModProgram

(* As long as ids are left and fit, a program that remembers a server has an *)
(* object there, or a declaration of it is on its way.                       *)
Remembered == FewIds /\ IdsLeft => \A m \in Modules, s \in Servers :
    ServerID[s] \in DOMAIN serverMap[m] => Met(s, m)
MutualInv == AgreeInv /\ Living /\ Remembered

LEMMA NewlyMet ==
    ASSUME AgreeInv, Living, AddressInv', [Next]_vars, Settled, FewIds,
           NEW m \in Modules, NEW s \in Servers,
           ServerID[s] \in DOMAIN serverMap'[m], ServerID[s] \notin DOMAIN serverMap[m]
    PROVE  Met(s, m)'
  <1> USE Known DEF AgreeInv
  <1>1. /\ ~Dials /\ ServersApart
        /\ \A t \in Servers : ServerID[t] = ServerID[s] => t = s
    BY DEF Settled, Undisturbed, ServersApart
  <1>2. conn \in Seq(Conn) /\ On(serverMap, Modules) /\ On(mMap, Modules)
    BY Facts DEF AddressInv, ModuleTypes
  <1>3. CASE \E t \in Servers : /\ ModUdpDiscovery(m, t) /\ sUp[t] /\ ServerID[s] = ServerID[t]
                                /\ ServerID[t] \notin DOMAIN serverMap[m]
    <2> DEFINE cs == Append(conn, OpenConn(s, m, "mod", "net"))
    <2>0. PICK c : c = Len(conn) + 1
      OBVIOUS
    <2>1. ModUdpDiscovery(m, s) /\ sUp[s]
      BY <1>1, <1>3
    <2>2. conn' = ModWrite(cs, c, Declare(m))
      BY <2>0, <2>1 DEF ModUdpDiscovery
    <2>3. /\ cs \in Seq(Conn) /\ c \in DOMAIN cs /\ c \notin DOMAIN conn
          /\ cs[c] = OpenConn(s, m, "mod", "net")
      BY <1>2, <2>0, AppendGrows
    <2>4. cs[c].srv = s /\ cs[c].mod = m /\ cs[c].mEnd = "open"
      BY <2>3 DEF OpenConn
    <2> HIDE DEF cs
    <2>5. SameEnds(cs, conn') /\ \E B : Grows(cs, conn', {}, B)
      BY <2>2, <2>3, WritesKeepEnds, ModWriteGrows, ModuleMessages
    <2>6. /\ c \in DOMAIN conn' \ DOMAIN conn /\ conn'[c].mEnd = "open"
          /\ conn'[c].srv = s /\ conn'[c].mod = m
      BY <2>3, <2>4, <2>5 DEF SameEnds, Grows
    <2>7. In(c)' = <<Declare(m)>>
      BY <1>1, <2>6, NewIn
    <2>8. Has(<<Declare(m)>>, Dcl)
      <3>1. Has(<<Declare(m)>>, Dcl) <=> Declare(m).type = Dcl
        BY OneAndTwo
      <3> QED
        BY <3>1 DEF Declare, Dcl
    <2> QED
      BY <2>6, <2>7, <2>8 DEF Met, Declaring
  <1>4. CASE /\ HandleAssignId(m) /\ ServerID[s] = Head(modTask[m].buf).sid
             /\ Head(modTask[m].buf).name = Name[m]
    <2>0. PICK c, x : c = modTask[m].conn /\ x = Head(modTask[m].buf)
      OBVIOUS
    <2>1. modTask[m].buf # <<>> /\ x.type = Asg
      BY <1>4, <2>0 DEF HandleAssignId, ModMsgIs, Asg
    <2>2. c \in DOMAIN conn /\ conn[c].mod = m /\ x.sid = ServerID[conn[c].srv]
      BY <2>0, <2>1, ModInHand
    <2>3. conn[c].srv = s
      BY <1>1, <1>4, <2>0, <2>2, InFacts
    <2>4. conn[c].mEnd # "closed"
      BY <2>0, <2>1 DEF HandMapped
    <2>5. Has(Out(c), Asg) /\ Out(c) # <<>> /\ Head(Out(c)) = x
      BY <2>0, <2>1, ModHandHead
    <2>6. conn[c].sEnd # "closed"
      BY <2>2, <2>4, <2>5 DEF GrantInv, AssignOpen
    <2>7. 1 \in DOMAIN Out(c) /\ Out(c)[1] = x
      <3>1. Out(c) \in Seq(ModMsg)
        BY <2>2, OutFacts
      <3> QED
        BY <2>5, <3>1
    <2>8. x.id \in DOMAIN sMap[s] /\ sMap[s][x.id] = c
      BY <2>1, <2>2, <2>3, <2>6, <2>7 DEF AssignMapped, KeysAt, KeysOf
    <2>9. PICK r \in modules[s] : r.id = x.id
      BY <2>4, <2>8 DEF AllConnected, Connected, Joined
    <2>10. r.proc = m
      BY <2>2, <2>8, <2>9 DEF ChannelLeadsHome
    <2>11. modules'[s] = modules[s]
      <3>1. ModuleStep(m)
        BY <1>4 DEF ModuleStep, ModLoop
      <3> QED
        BY <3>1, ModuleLeaves
    <2> QED
      BY <2>9, <2>10, <2>11 DEF Met, Registered
  <1> QED
    BY <1>1, <1>3, <1>4, NewEntry

LEMMA NextMutual ==
    ASSUME MutualInv, [Next]_vars, Settled
    PROVE  MutualInv'
  <1>1. AgreeInv /\ Living /\ Remembered /\ Undisturbed /\ ServersApart
    BY DEF MutualInv, Settled, Undisturbed
  <1>2. AgreeInv'
    BY <1>1, NextAgree
  <1>3. AddressInv /\ AddressInv' /\ TypeInv'
    BY <1>1, <1>2 DEF AgreeInv, UntoldInv, AddressInv
  <1>4. Living'
    BY <1>1, <1>2, LivingStep DEF Living
  <1>5. Remembered'
    <2> SUFFICES ASSUME FewIds', IdsLeft', NEW m \in Modules, NEW s \in Servers,
                        ServerID[s] \in DOMAIN serverMap'[m]
                 PROVE  Met(s, m)'
      BY DEF Remembered
    <2>1. FewIds /\ IdsLeft
      BY <1>1, <1>3, FewBefore, LeftBefore
    <2>2. CASE ServerID[s] \in DOMAIN serverMap[m]
      <3>1. Met(s, m)
        BY <1>1, <2>1, <2>2 DEF Remembered
      <3> QED
        BY <1>1, <1>3, <2>1, <3>1, MetLasts
    <2>3. CASE ServerID[s] \notin DOMAIN serverMap[m]
      BY <1>1, <1>3, <2>1, <2>3, NewlyMet
    <2> QED
      BY <2>2, <2>3
  <1> QED
    BY <1>2, <1>4, <1>5 DEF MutualInv

LEMMA QuietMet ==
    ASSUME MutualInv, FewIds, IdsLeft
    PROVE  QuietMutual
  <1> SUFFICES ASSUME Quiet, NEW m \in Modules, NEW s \in Servers,
                      ServerID[s] \in DOMAIN serverMap[m]
               PROVE  \E r \in modules[s] : r.proc = m
    BY DEF QuietMutual
  <1>1. AddressInv /\ Living /\ Met(s, m)
    BY DEF MutualInv, AgreeInv, UntoldInv, Remembered
  <1>2. ~Declaring(s, m)
    <2> SUFFICES ASSUME NEW c \in DOMAIN conn, Has(In(c), Dcl) PROVE FALSE
      BY DEF Declaring
    <2>1. conn[c].sEnd = "open"
      <3>1. conn[c].sEnd # "closed" /\ conn[c].sEnd # "backlog"
        BY <1>1 DEF Living, Lives, Quiet
      <3>2. conn[c] \in Conn
        BY <1>1, InFacts
      <3> QED
        BY <3>1, <3>2 DEF Conn, EndState
    <2> QED
      BY <1>1, <2>1, QuietStreams
  <1> QED
    BY <1>1, <1>2 DEF Met, Registered

LEMMA MutualAlways == Settled => (Spec => []MutualInv)
  <1> SUFFICES ASSUME Settled PROVE Spec => []MutualInv
    OBVIOUS
  <1>1. Init => MutualInv
    <2> SUFFICES ASSUME Init PROVE MutualInv
      OBVIOUS
    <2>1. AgreeInv
      BY InitAgree
    <2>2. DOMAIN conn = {} /\ \A m \in Modules : DOMAIN serverMap[m] = {}
      BY DEF Init, Empty
    <2> QED
      BY <2>1, <2>2 DEF MutualInv, Living, Remembered
  <1>2. MutualInv /\ [Next]_vars => MutualInv'
    BY NextMutual
  <1> QED
    BY <1>1, <1>2, PTL DEF Spec

\* If, besides what ServersAndProgramsAgree asks, no program ends and no two
\* have the same class name (Settled), then as long as the ids fit (FewIds) and
\* addNewModule has one left on every server (IdsLeft), a program that remembers
\* a server when everything has been processed has an object there: either the
\* entry in serverMap_ came with an id, which the server gives with an object,
\* or it was made together with a declaration on a connection that both ends
\* keep until addNewModule has made the object, or findModuleByName found it.
THEOREM RememberedMeansRegistered ==
    Settled => (Spec => [](FewIds /\ IdsLeft => QuietMutual))
  <1> SUFFICES ASSUME Settled PROVE Spec => [](FewIds /\ IdsLeft => QuietMutual)
    OBVIOUS
  <1> DEFINE Mutual == FewIds /\ IdsLeft => QuietMutual
  <1>1. MutualInv => Mutual
    BY QuietMet
  <1>2. Spec => []MutualInv
    BY MutualAlways
  <1> HIDE DEF Mutual
  <1>3. Spec => []Mutual
    BY <1>1, <1>2, PTL
  <1> QED
    BY <1>3 DEF Mutual
=============================================================================
