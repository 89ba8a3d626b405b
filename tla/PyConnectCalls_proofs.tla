------------------------ MODULE PyConnectCalls_proofs ------------------------
(***************************************************************************)
(* Theorems about calls and attributes, for any servers, attributes,       *)
(* methods and bounds.                                                     *)
(*                                                                         *)
(* The first part is about types and the methods a caller finds.  The      *)
(* second is about what scripts see of a program: they are told of every   *)
(* change once and in order, cached values are the program's when nothing  *)
(* is under way, answers are true and come in the order of the calls, and  *)
(* the calls implement PyConnectMirror but for its fairness.               *)
(***************************************************************************)
EXTENDS PyConnectCalls, SequenceTheorems, TLAPS

-----------------------------------------------------------------------------
(* Types.                                                                  *)

LEMMA ExceptInSeq ==
    ASSUME NEW S, NEW f \in Seq(S), NEW n, NEW x, n \in DOMAIN f => x \in S
    PROVE  /\ [f EXCEPT ![n] = x] \in Seq(S)
           /\ Len([f EXCEPT ![n] = x]) = Len(f)
<1> DEFINE g == [f EXCEPT ![n] = x]
<1>1. f \in [1..Len(f) -> S] /\ Len(f) \in Nat /\ DOMAIN f = 1..Len(f)
  OBVIOUS
<1>2. g \in [1..Len(f) -> S]
  BY <1>1
<1>3. g \in Seq(S) /\ Len(g) = Len(f)
  BY <1>1, <1>2
<1> QED BY <1>3

LEMMA Numbers ==
    /\ Values \subseteq Nat /\ 0 \in Values
    /\ \A v \in Nat : Narrow(v) \in Values
  BY CallsAssumption DEF Values, Narrow

LEMMA SrvMsgFields ==
    ASSUME NEW m \in SrvMsg
    PROVE  /\ m.type \in {"expose", "update", "answer"}
           /\ m.id \in Nat /\ m.at \in Nat
           /\ m.type = "expose" =>
                m.values \in [Attributes -> Values] /\ m.writable = Writable
           /\ m.type = "update" => m.attr \in Attributes /\ m.value \in Values
           /\ m.type = "answer" => m.n \in Nat /\ m.err \in Errs
  BY DEF SrvMsg

LEMMA ModMsgFields ==
    ASSUME NEW m \in ModMsg
    PROVE  /\ m.type \in {"assign", "call", "shutdown"}
           /\ m.type = "assign" => m.id \in Nat
           /\ m.type = "call" =>
                /\ m.id \in Nat /\ m.n \in Nat /\ m.cb \in BOOLEAN
                /\ m.on \in Attributes \cup Methods /\ m.value \in Values
  BY DEF ModMsg, ShutdownMsg

\* What the program sends.
LEMMA ExposeMsgType ==
    ASSUME NEW id \in Nat, NEW vals \in [Attributes -> Values], NEW at \in Nat
    PROVE  ExposeMsg(id, vals, at) \in SrvMsg
  BY DEF ExposeMsg, SrvMsg
LEMMA UpdateMsgType ==
    ASSUME NEW id \in Nat, NEW a \in Attributes, NEW v \in Values, NEW at \in Nat
    PROVE  UpdateMsg(id, a, v, at) \in SrvMsg
  BY DEF UpdateMsg, SrvMsg

\* The answers to a call are answers under its id, of the state it left.
LEMMA AnswersType ==
    ASSUME NEW m, NEW fate, NEW at \in Nat, m.id \in Nat, m.n \in Nat
    PROVE  Answers(m, fate, at) \in
             Seq({r \in SrvMsg : r.type = "answer" /\ r.id = m.id /\ r.at = at})
<1> DEFINE R == {r \in SrvMsg : r.type = "answer" /\ r.id = m.id /\ r.at = at}
<1> DEFINE failed == AnswerMsg(m.id, m.n, "METD_EXCEPTION", at)
<1> DEFINE done   == AnswerMsg(m.id, m.n, "NO_ERRORS", at)
<1>1. failed \in R /\ done \in R
  BY DEF AnswerMsg, SrvMsg, Errs
<1>2. \E p, q \in {<<>>, <<failed>>, <<done>>} : Answers(m, fate, at) = p \o q
  BY DEF Answers
<1> HIDE DEF failed, done, R
<1>3. {<<>>, <<failed>>, <<done>>} \subseteq Seq(R)
  BY <1>1
<1>4. \A p, q \in Seq(R) : p \o q \in Seq(R)
  BY ConcatProperties
<1>5. Answers(m, fate, at) \in Seq(R)
  BY <1>2, <1>3, <1>4
<1> QED BY <1>5 DEF R

LEMMA ReportType ==
    ASSUME TypeOK, NEW a \in Attributes, NEW v \in Values, NEW s,
           NEW more \in Seq(SrvMsg), Report(a, v, s, more)
    PROVE  /\ value' \in [Attributes -> Values]
           /\ history' \in Seq([Attributes -> Values])
           /\ toSrv' \in [Servers -> Seq(SrvMsg)]
<1>1. value' \in [Attributes -> Values]
  BY DEF Report, TypeOK
<1>2. history' \in Seq([Attributes -> Values])
  BY <1>1 DEF Report, TypeOK
<1>3. toSrv' \in [Servers -> Seq(SrvMsg)]
  <2> DEFINE told(t) == IF serverMap[t] = None THEN toSrv[t]
                        ELSE Append(toSrv[t],
                                    UpdateMsg(serverMap[t], a, v, Now + 1))
  <2>1. ASSUME NEW t \in Servers PROVE told(t) \in Seq(SrvMsg)
    <3>1. CASE serverMap[t] = None
      BY <3>1 DEF TypeOK
    <3>2. CASE serverMap[t] # None
      <4>1. serverMap[t] \in Nat /\ Now + 1 \in Nat /\ toSrv[t] \in Seq(SrvMsg)
        BY <3>2 DEF TypeOK, Now
      <4>2. UpdateMsg(serverMap[t], a, v, Now + 1) \in SrvMsg
        BY <4>1, UpdateMsgType
      <4> QED BY <3>2, <4>1, <4>2
    <3> QED BY <3>1, <3>2
  <2>2. toSrv' = [t \in Servers |-> IF t = s THEN told(t) \o more ELSE told(t)]
    BY DEF Report
  <2> HIDE DEF told
  <2>3. ASSUME NEW t \in Servers
        PROVE  (IF t = s THEN told(t) \o more ELSE told(t)) \in Seq(SrvMsg)
    BY <2>1
  <2> QED BY <2>2, <2>3
<1> QED BY <1>1, <1>2, <1>3

LEMMA Requeue ==
    ASSUME TypeOK, NEW s \in Servers, NEW m \in ModMsg
    PROVE  [toMod EXCEPT ![s] = Append(@, m)] \in [Servers -> Seq(ModMsg)]
  BY DEF TypeOK

LEMMA TookType ==
    ASSUME TypeOK, NEW s \in Servers, NEW type, Took(s, type)
    PROVE  /\ toMod' \in [Servers -> Seq(ModMsg)]
           /\ Head(toMod[s]) \in ModMsg /\ Head(toMod[s]).type = type
           /\ toMod[s] \in Seq(ModMsg) /\ toMod[s] # <<>>
  BY DEF TypeOK, Took

LEMMA ReadType ==
    ASSUME TypeOK, NEW s \in Servers, NEW type, Read(s, type)
    PROVE  /\ toSrv' \in [Servers -> Seq(SrvMsg)]
           /\ heard' \in [Servers -> Nat]
           /\ Head(toSrv[s]) \in SrvMsg /\ Head(toSrv[s]).type = type
           /\ toSrv[s] \in Seq(SrvMsg) /\ toSrv[s] # <<>>
<1>1. toSrv[s] \in Seq(SrvMsg) /\ toSrv[s] # <<>>
  BY DEF TypeOK, Read
<1>2. Head(toSrv[s]) \in SrvMsg /\ Tail(toSrv[s]) \in Seq(SrvMsg)
  BY <1>1
<1>3. Head(toSrv[s]).at \in Nat
  BY <1>2, SrvMsgFields
<1> QED BY <1>1, <1>2, <1>3 DEF TypeOK, Read

\* A record of calls changes in a field.
LEMMA FateType ==
    ASSUME TypeOK, NEW s \in Servers, NEW n, NEW fate \in Fates
    PROVE  [calls EXCEPT ![s][n].fate = fate] \in [Servers -> Seq(Call)]
<1>1. calls[s] \in Seq(Call) /\ calls \in [Servers -> Seq(Call)]
  BY DEF TypeOK
<1>2. n \in DOMAIN calls[s] => [calls[s][n] EXCEPT !.fate = fate] \in Call
  <2>1. n \in DOMAIN calls[s] => calls[s][n] \in Call
    BY <1>1
  <2> QED BY <2>1 DEF Call
<1>3. [calls[s] EXCEPT ![n] = [calls[s][n] EXCEPT !.fate = fate]] \in Seq(Call)
  BY <1>1, <1>2, ExceptInSeq
<1>4. [calls[s] EXCEPT ![n].fate = fate]
        = [calls[s] EXCEPT ![n] = [calls[s][n] EXCEPT !.fate = fate]]
  BY <1>1
<1> QED BY <1>1, <1>3, <1>4

LEMMA ToldType ==
    ASSUME TypeOK, NEW s \in Servers, NEW n, NEW err \in Errs
    PROVE  [calls EXCEPT ![s][n].told = Append(@, err)] \in [Servers -> Seq(Call)]
<1>1. calls[s] \in Seq(Call) /\ calls \in [Servers -> Seq(Call)]
  BY DEF TypeOK
<1> DEFINE c == [calls[s][n] EXCEPT !.told = Append(calls[s][n].told, err)]
<1>2. n \in DOMAIN calls[s] => c \in Call
  <2> SUFFICES ASSUME n \in DOMAIN calls[s] PROVE c \in Call
    OBVIOUS
  <2>1. calls[s][n] \in Call
    BY <1>1
  <2>2. calls[s][n].told \in Seq(Errs)
    BY <2>1 DEF Call
  <2>3. Append(calls[s][n].told, err) \in Seq(Errs)
    BY <2>2
  <2> QED BY <2>1, <2>3 DEF Call
<1>3. [calls[s] EXCEPT ![n] = c] \in Seq(Call)
  BY <1>1, <1>2, ExceptInSeq
<1>4. [calls[s] EXCEPT ![n].told = Append(@, err)] = [calls[s] EXCEPT ![n] = c]
  BY <1>1
<1> QED BY <1>1, <1>3, <1>4

LEMMA RemoteType ==
    ASSUME TypeOK, NEW s \in Servers, Live(s), NEW x \in Attributes \cup Methods,
           NEW v \in Values, Remote(s, x, v)
    PROVE  toMod' \in [Servers -> Seq(ModMsg)] /\ calls' \in [Servers -> Seq(Call)]
<1> DEFINE o == object[s]
<1> DEFINE n == Len(calls[s]) + 1
<1>1. o \in Object /\ o.id \in Nat /\ o.noCallback \in BOOLEAN
  BY DEF TypeOK, Live, Object
<1>2. calls[s] \in Seq(Call) /\ n \in Nat
  BY DEF TypeOK
<1>3. CallMsg(o.id, n, ~o.noCallback, x, v) \in ModMsg
  BY <1>1, <1>2 DEF CallMsg, ModMsg
<1>4. [on |-> x, id |-> o.id, cb |-> ~o.noCallback, fate |-> "waiting",
       told |-> <<>>] \in Call
  BY <1>1 DEF Call, Fates
<1>5. toMod' \in [Servers -> Seq(ModMsg)]
  BY <1>3 DEF Remote, TypeOK
<1>6. calls' \in [Servers -> Seq(Call)]
  BY <1>2, <1>4 DEF Remote, TypeOK
<1> QED BY <1>5, <1>6

LEMMA TypeInvariance ==
    ASSUME TypeOK, [Next]_vars
    PROVE  TypeOK'
<1> USE DEF program, server
<1>1. ASSUME NEW s \in Servers, Register(s) PROVE TypeOK'
  <2>1. nextObjId[s] \in Nat
    BY DEF TypeOK
  <2>2. NewObject(nextObjId[s]) \in Object
    BY <2>1 DEF NewObject, Object
  <2>3. AssignMsg(nextObjId[s]) \in ModMsg
    BY <2>1 DEF AssignMsg, ModMsg
  <2>4. toMod' \in [Servers -> Seq(ModMsg)]
    BY <1>1, <2>3, Requeue DEF Register
  <2> QED BY <1>1, <2>2, <2>4, CallsAssumption DEF TypeOK, Register, Op
<1>2. ASSUME NEW s \in Servers, Disconnect(s) PROVE TypeOK'
  <2>1. toMod' \in [Servers -> Seq(ModMsg)]
    <3>1. ShutdownMsg \in ModMsg
      BY DEF ModMsg
    <3> QED BY <1>2, <3>1, Requeue DEF Disconnect
  <2> QED BY <1>2, <2>1, CallsAssumption DEF TypeOK, Disconnect, Op
<1>3. ASSUME NEW s \in Servers, NEW b \in BOOLEAN, SetNoCallback(s, b) PROVE TypeOK'
  <2>1. object[s] \in Object
    BY <1>3 DEF SetNoCallback, Live, TypeOK
  <2>2. [object[s] EXCEPT !.noCallback = b] \in Object
    BY <2>1 DEF Object
  <2>3. object' \in [Servers -> Object \cup {None}]
    BY <1>3, <2>2 DEF SetNoCallback, TypeOK
  <2> QED BY <1>3, <2>3, CallsAssumption DEF TypeOK, SetNoCallback, Op
<1>4. ASSUME NEW s \in Servers, NEW a \in Attributes, NEW v \in Assigned,
             SetAttribute(s, a, v)
      PROVE  TypeOK'
  <2>1. v \in Nat /\ Narrow(v) \in Values
    BY CallsAssumption, Numbers
  <2>2. Live(s) /\ object[s] \in Object
    BY <1>4 DEF SetAttribute, Exposed, Live, TypeOK
  <2>3. toMod' \in [Servers -> Seq(ModMsg)] /\ calls' \in [Servers -> Seq(Call)]
    BY <1>4, <2>1, <2>2, RemoteType DEF SetAttribute
  <2>4. object' \in [Servers -> Object \cup {None}]
    BY <1>4, <2>1, <2>2 DEF SetAttribute, TypeOK, Object
  <2> QED BY <1>4, <2>3, <2>4, CallsAssumption DEF TypeOK, SetAttribute, Op
<1>5. ASSUME NEW s \in Servers, NEW m \in Methods, CallMethod(s, m) PROVE TypeOK'
  <2>1. Live(s)
    BY <1>5 DEF CallMethod, Exposed
  <2>2. toMod' \in [Servers -> Seq(ModMsg)] /\ calls' \in [Servers -> Seq(Call)]
    BY <1>5, <2>1, RemoteType, Numbers DEF CallMethod
  <2> QED BY <1>5, <2>2, CallsAssumption DEF TypeOK, CallMethod, Op
<1>6. ASSUME NEW a \in Attributes, NEW v \in Values, Change(a, v) PROVE TypeOK'
  <2>1. <<>> \in Seq(SrvMsg)
    OBVIOUS
  <2>2. /\ value' \in [Attributes -> Values]
        /\ history' \in Seq([Attributes -> Values])
        /\ toSrv' \in [Servers -> Seq(SrvMsg)]
    BY <1>6, <2>1, ReportType DEF Change
  <2> QED BY <1>6, <2>2, CallsAssumption DEF TypeOK, Change, Op
<1>7. ASSUME NEW s \in Servers, HandleAssign(s) PROVE TypeOK'
  <2>1. /\ toMod' \in [Servers -> Seq(ModMsg)]
        /\ Head(toMod[s]) \in ModMsg /\ Head(toMod[s]).type = "assign"
    BY <1>7, TookType DEF HandleAssign
  <2>2. Head(toMod[s]).id \in Nat /\ Now \in Nat
    BY <2>1, ModMsgFields DEF TypeOK, Now
  <2>3. ExposeMsg(Head(toMod[s]).id, value, Now) \in SrvMsg
    BY <2>2, ExposeMsgType DEF TypeOK
  <2>4. toSrv' \in [Servers -> Seq(SrvMsg)]
    BY <1>7, <2>3 DEF HandleAssign, TypeOK
  <2> QED BY <1>7, <2>1, <2>2, <2>4 DEF TypeOK, HandleAssign
<1>8. ASSUME NEW s \in Servers, HandleShutdown(s) PROVE TypeOK'
  <2>1. toMod' \in [Servers -> Seq(ModMsg)]
    BY <1>8, TookType DEF HandleShutdown
  <2> QED BY <1>8, <2>1 DEF TypeOK, HandleShutdown
<1>9. ASSUME NEW s \in Servers, HandleSet(s) PROVE TypeOK'
  <2> DEFINE m == Head(toMod[s])
  <2>1. toMod' \in [Servers -> Seq(ModMsg)] /\ m \in ModMsg /\ m.type = "call"
    BY <1>9, TookType DEF HandleSet
  <2>2. m.on \in Attributes /\ m.value \in Values /\ <<>> \in Seq(SrvMsg)
    BY <1>9, <2>1, ModMsgFields, CallsAssumption DEF HandleSet
  <2>3. /\ value' \in [Attributes -> Values]
        /\ history' \in Seq([Attributes -> Values])
        /\ toSrv' \in [Servers -> Seq(SrvMsg)]
    BY <1>9, <2>2, ReportType DEF HandleSet
  <2>4. calls' \in [Servers -> Seq(Call)]
    BY <1>9, FateType DEF HandleSet, Fates
  <2> QED BY <1>9, <2>1, <2>3, <2>4 DEF TypeOK, HandleSet
<1>10. ASSUME NEW s \in Servers, NEW fate \in {"returned", "threw"},
              HandleMethod(s, fate)
       PROVE  TypeOK'
  <2> DEFINE m == Head(toMod[s])
  <2>1. toMod' \in [Servers -> Seq(ModMsg)] /\ m \in ModMsg /\ m.type = "call"
    BY <1>10, TookType DEF HandleMethod
  <2>2. m.id \in Nat /\ m.n \in Nat
    BY <2>1, ModMsgFields
  <2>3. \A at \in Nat : Answers(m, fate, at) \in Seq(SrvMsg)
    <3> SUFFICES ASSUME NEW at \in Nat PROVE Answers(m, fate, at) \in Seq(SrvMsg)
      OBVIOUS
    <3> DEFINE R == {r \in SrvMsg : r.type = "answer" /\ r.id = m.id /\ r.at = at}
    <3>1. Answers(m, fate, at) \in Seq(R)
      BY <2>2, AnswersType
    <3>2. R \subseteq SrvMsg
      OBVIOUS
    <3> QED BY <3>1, <3>2, SeqMonotonic
  <2>4. Now \in Nat /\ Now + 1 \in Nat
    BY DEF TypeOK, Now
  <2>5. /\ value' \in [Attributes -> Values]
        /\ history' \in Seq([Attributes -> Values])
        /\ toSrv' \in [Servers -> Seq(SrvMsg)]
    <3>1. CASE Reply(s, Answers(m, fate, Now))
      <4>1. toSrv[s] \o Answers(m, fate, Now) \in Seq(SrvMsg)
        BY <2>3, <2>4, ConcatProperties DEF TypeOK
      <4> QED BY <3>1, <4>1 DEF Reply, TypeOK
    <3>2. CASE \E a \in Attributes, v \in Values :
                 Report(a, v, s, Answers(m, fate, Now + 1))
      BY <3>2, <2>3, <2>4, ReportType
    <3> QED BY <1>10, <3>1, <3>2 DEF HandleMethod
  <2>6. calls' \in [Servers -> Seq(Call)]
    BY <1>10, FateType DEF HandleMethod, Fates
  <2> QED BY <1>10, <2>1, <2>5, <2>6 DEF TypeOK, HandleMethod
<1>11. ASSUME NEW s \in Servers, HandleStale(s) PROVE TypeOK'
  <2>1. PICK type \in {"expose", "update", "answer"} : Read(s, type)
    BY <1>11 DEF HandleStale
  <2>2. toSrv' \in [Servers -> Seq(SrvMsg)] /\ heard' \in [Servers -> Nat]
    BY <2>1, ReadType
  <2> QED BY <1>11, <2>1, <2>2 DEF TypeOK, HandleStale, Read
<1>12. ASSUME NEW s \in Servers, HandleExpose(s) PROVE TypeOK'
  <2> DEFINE m == Head(toSrv[s])
  <2>1. /\ toSrv' \in [Servers -> Seq(SrvMsg)] /\ heard' \in [Servers -> Nat]
        /\ m \in SrvMsg /\ m.type = "expose"
    BY <1>12, ReadType DEF HandleExpose
  <2>2. m.values \in [Attributes -> Nat] /\ m.writable = Writable /\ m.at \in Nat
    BY <2>1, SrvMsgFields, Numbers
  <2>3. object[s] \in Object
    BY <1>12 DEF HandleExpose, Mine, Live, TypeOK
  <2>4. object' \in [Servers -> Object \cup {None}]
    BY <1>12, <2>2, <2>3 DEF HandleExpose, TypeOK, Object
  <2> QED BY <1>12, <2>1, <2>4 DEF TypeOK, HandleExpose, Read
<1>13. ASSUME NEW s \in Servers, HandleUpdate(s) PROVE TypeOK'
  <2> DEFINE m == Head(toSrv[s])
  <2>1. /\ toSrv' \in [Servers -> Seq(SrvMsg)] /\ heard' \in [Servers -> Nat]
        /\ m \in SrvMsg /\ m.type = "update"
    BY <1>13, ReadType DEF HandleUpdate
  <2>2. m.attr \in Attributes /\ m.value \in Nat
    BY <2>1, SrvMsgFields, Numbers
  <2>3. object[s] \in Object
    BY <1>13 DEF HandleUpdate, Mine, Live, TypeOK
  <2>4. object' \in [Servers -> Object \cup {None}]
    <3>1. [object[s] EXCEPT !.cached = [object[s].cached EXCEPT ![m.attr] = m.value],
                            !.told = object[s].told + 1] \in Object
      <4> DEFINE new == [object[s].cached EXCEPT ![m.attr] = m.value]
      <4>1. object[s].cached \in [Attributes -> Nat] /\ object[s].told \in Nat
        BY <2>3 DEF Object
      <4>2. new \in [Attributes -> Nat] /\ object[s].told + 1 \in Nat
        BY <2>2, <4>1
      <4> HIDE DEF new
      <4>3. [object[s] EXCEPT !.cached = new, !.told = object[s].told + 1] \in Object
        BY <2>3, <4>2 DEF Object
      <4> QED BY <4>3 DEF new
    <3>2. object' = [object EXCEPT ![s] =
            [object[s] EXCEPT !.cached = [object[s].cached EXCEPT ![m.attr] = m.value],
                              !.told = object[s].told + 1]]
      BY <1>13, <2>3 DEF HandleUpdate, TypeOK, Object
    <3> QED BY <3>1, <3>2 DEF TypeOK
  <2> QED BY <1>13, <2>1, <2>4 DEF TypeOK, HandleUpdate, Read
<1>14. ASSUME NEW s \in Servers, HandleAnswer(s) PROVE TypeOK'
  <2> DEFINE m == Head(toSrv[s])
  <2>1. /\ toSrv' \in [Servers -> Seq(SrvMsg)] /\ heard' \in [Servers -> Nat]
        /\ m \in SrvMsg /\ m.type = "answer"
    BY <1>14, ReadType DEF HandleAnswer
  <2>2. m.err \in Errs
    BY <2>1, SrvMsgFields
  <2>3. calls' \in [Servers -> Seq(Call)]
    BY <1>14, <2>2, ToldType DEF HandleAnswer
  <2> QED BY <1>14, <2>1, <2>3 DEF TypeOK, HandleAnswer, Read
<1>15. CASE UNCHANGED vars
  BY <1>15 DEF TypeOK, vars
<1> QED
  BY <1>1, <1>2, <1>3, <1>4, <1>5, <1>6, <1>7, <1>8, <1>9, <1>10, <1>11, <1>12,
     <1>13, <1>14, <1>15 DEF Next, Script, ModStep, SrvStep

LEMMA TypeInit == Init => TypeOK
<1> SUFFICES ASSUME Init PROVE TypeOK
  OBVIOUS
<1>1. value \in [Attributes -> Values] /\ history \in Seq([Attributes -> Values])
  BY CallsAssumption DEF Init, Values
<1>2. /\ serverMap \in [Servers -> Nat \cup {None}]
      /\ object \in [Servers -> Object \cup {None}]
      /\ nextObjId \in [Servers -> Nat] /\ heard \in [Servers -> Nat]
      /\ ops \in 0..MaxOps
  BY CallsAssumption DEF Init
<1>3. /\ toMod \in [Servers -> Seq(ModMsg)] /\ toSrv \in [Servers -> Seq(SrvMsg)]
      /\ calls \in [Servers -> Seq(Call)]
  BY DEF Init
<1> QED BY <1>1, <1>2, <1>3 DEF TypeOK

\* The types of all variables.
THEOREM CallsTypeCorrect == Spec => []TypeOK
  BY TypeInit, TypeInvariance, PTL DEF Spec

-----------------------------------------------------------------------------
(* No null setter is called.                                               *)

\* An exposed object knows which attributes are read-only.
ReadOnlyKnown ==
    \A s \in Servers : Exposed(s) => object[s].readOnly = Attributes \ Writable

SettersInv == TypeOK /\ NoNullSetter /\ ReadOnlyKnown

LEMMA MsgsAppend ==
    ASSUME NEW S, NEW q \in Seq(S), NEW m \in S
    PROVE  Msgs(Append(q, m)) = Msgs(q) \cup {m}
<1> DEFINE r == Append(q, m)
<1>1. /\ r \in Seq(S) /\ Len(r) = Len(q) + 1 /\ Len(q) \in Nat
      /\ \A i \in 1..Len(q) : r[i] = q[i]
      /\ r[Len(q) + 1] = m
      /\ DOMAIN q = 1..Len(q) /\ DOMAIN r = 1..Len(r)
  OBVIOUS
<1>2. 1..Len(r) = (1..Len(q)) \cup {Len(q) + 1}
  BY <1>1
<1> HIDE DEF r
<1>3. Msgs(r) = Msgs(q) \cup {m}
  BY <1>1, <1>2 DEF Msgs
<1> QED BY <1>3 DEF r

LEMMA MsgsTail ==
    ASSUME NEW S, NEW q \in Seq(S), q # <<>>
    PROVE  Msgs(Tail(q)) \subseteq Msgs(q)
<1>1. /\ Len(Tail(q)) = Len(q) - 1 /\ Len(q) \in Nat \ {0}
      /\ \A i \in 1..Len(Tail(q)) : Tail(q)[i] = q[i + 1]
      /\ DOMAIN q = 1..Len(q) /\ DOMAIN Tail(q) = 1..Len(Tail(q))
  OBVIOUS
<1>2. \A i \in 1..Len(Tail(q)) : i + 1 \in 1..Len(q)
  BY <1>1
<1> QED BY <1>1, <1>2 DEF Msgs

\* What a script adds to a queue may be sent.
LEMMA SettersAppend ==
    ASSUME TypeOK, NoNullSetter, NEW s \in Servers, NEW m \in ModMsg,
           m.type = "call" => m.on \in Writable \cup Methods,
           toMod' = [toMod EXCEPT ![s] = Append(@, m)]
    PROVE  NoNullSetter'
<1>1. \A t \in Servers : toMod[t] \in Seq(ModMsg)
  BY DEF TypeOK
<1>2. Msgs(Append(toMod[s], m)) = Msgs(toMod[s]) \cup {m}
  BY <1>1, MsgsAppend
<1>3. \A t \in Servers :
        toMod'[t] = IF t = s THEN Append(toMod[s], m) ELSE toMod[t]
  BY DEF TypeOK
<1>4. \A t \in Servers : Msgs(toMod'[t]) \subseteq Msgs(toMod[t]) \cup {m}
  BY <1>2, <1>3
<1> HIDE DEF Msgs
<1> QED BY <1>4 DEF NoNullSetter

LEMMA SettersTail ==
    ASSUME TypeOK, NoNullSetter, NEW s \in Servers, NEW type, Took(s, type)
    PROVE  NoNullSetter'
<1>1. \A t \in Servers : toMod[t] \in Seq(ModMsg)
  BY DEF TypeOK
<1>2. toMod[s] # <<>> /\ Msgs(Tail(toMod[s])) \subseteq Msgs(toMod[s])
  BY <1>1, MsgsTail DEF Took
<1>3. \A t \in Servers : toMod'[t] = IF t = s THEN Tail(toMod[s]) ELSE toMod[t]
  BY DEF TypeOK, Took
<1>4. \A t \in Servers : Msgs(toMod'[t]) \subseteq Msgs(toMod[t])
  BY <1>2, <1>3
<1> QED BY <1>4 DEF NoNullSetter

LEMMA SettersInit == Init => SettersInv
<1> SUFFICES ASSUME Init PROVE NoNullSetter /\ ReadOnlyKnown
  BY TypeInit DEF SettersInv
<1>1. \A s \in Servers : Msgs(toMod[s]) = {}
  <2>1. \A s \in Servers : toMod[s] = <<>>
    BY DEF Init
  <2>2. DOMAIN <<>> = {}
    OBVIOUS
  <2>3. Msgs(<<>>) = {}
    BY <2>2 DEF Msgs
  <2> QED BY <2>1, <2>3
<1>2. \A s \in Servers : ~Exposed(s)
  BY DEF Init, Exposed, Live
<1> QED BY <1>1, <1>2 DEF NoNullSetter, ReadOnlyKnown

LEMMA SettersStep ==
    ASSUME SettersInv, [Next]_vars
    PROVE  SettersInv'
<1>t. TypeOK /\ NoNullSetter /\ ReadOnlyKnown /\ TypeOK'
  BY TypeInvariance DEF SettersInv
<1> SUFFICES NoNullSetter' /\ ReadOnlyKnown'
  BY <1>t DEF SettersInv
<1> USE DEF program, server
<1>0. ASSUME UNCHANGED object PROVE ReadOnlyKnown'
  BY <1>t, <1>0 DEF ReadOnlyKnown, Exposed, Live
<1>n. ASSUME UNCHANGED toMod PROVE NoNullSetter'
  BY <1>t, <1>n DEF NoNullSetter, Msgs
<1>1. ASSUME NEW s \in Servers, Register(s)
      PROVE  NoNullSetter' /\ ReadOnlyKnown'
  <2>1. AssignMsg(nextObjId[s]) \in ModMsg /\ AssignMsg(nextObjId[s]).type = "assign"
    BY <1>t DEF TypeOK, AssignMsg, ModMsg
  <2>2. NoNullSetter'
    BY <1>t, <1>1, <2>1, SettersAppend DEF Register
  <2>3. \A t \in Servers : Exposed(t)' => Exposed(t) /\ object'[t] = object[t]
    <3>1. ~NewObject(nextObjId[s]).exposed
      BY DEF NewObject
    <3>2. \A t \in Servers :
            object'[t] = IF t = s THEN NewObject(nextObjId[s]) ELSE object[t]
      BY <1>t, <1>1 DEF Register, TypeOK
    <3> QED BY <3>1, <3>2 DEF Exposed, Live
  <2> QED BY <1>t, <2>2, <2>3 DEF ReadOnlyKnown
<1>2. ASSUME NEW s \in Servers, Disconnect(s)
      PROVE  NoNullSetter' /\ ReadOnlyKnown'
  <2>1. ShutdownMsg \in ModMsg /\ ShutdownMsg.type = "shutdown"
    BY DEF ModMsg, ShutdownMsg
  <2>2. NoNullSetter'
    BY <1>t, <1>2, <2>1, SettersAppend DEF Disconnect
  <2> QED BY <1>t, <1>2, <2>2 DEF ReadOnlyKnown, Exposed, Live, Disconnect, TypeOK
<1>3. ASSUME NEW s \in Servers, NEW b \in BOOLEAN, SetNoCallback(s, b)
      PROVE  NoNullSetter' /\ ReadOnlyKnown'
  <2>1. object[s] \in Object
    BY <1>t, <1>3 DEF SetNoCallback, Live, TypeOK
  <2>2. ReadOnlyKnown'
    BY <1>t, <1>3, <2>1
       DEF ReadOnlyKnown, Exposed, Live, SetNoCallback, TypeOK, Object
  <2> QED BY <1>3, <1>n, <2>2 DEF SetNoCallback
<1>4. ASSUME NEW s \in Servers, NEW a \in Attributes, NEW v \in Assigned,
             SetAttribute(s, a, v)
      PROVE  NoNullSetter' /\ ReadOnlyKnown'
  <2>1. Exposed(s) /\ object[s] \in Object /\ a \in Writable
    BY <1>t, <1>4 DEF SetAttribute, Exposed, Live, TypeOK, ReadOnlyKnown
  <2> DEFINE m == CallMsg(object[s].id, Len(calls[s]) + 1,
                          ~object[s].noCallback, a, Narrow(v))
  <2>2. m \in ModMsg /\ m.type = "call" /\ m.on = a
    <3>1. Len(calls[s]) + 1 \in Nat /\ Narrow(v) \in Values
      BY <1>t, Numbers, CallsAssumption DEF TypeOK
    <3> QED BY <2>1, <3>1 DEF CallMsg, ModMsg, Object
  <2>3. toMod' = [toMod EXCEPT ![s] = Append(@, m)]
    BY <1>4 DEF SetAttribute, Remote
  <2> HIDE DEF m
  <2>4. NoNullSetter'
    BY <1>t, <2>1, <2>2, <2>3, SettersAppend
  <2>5. ReadOnlyKnown'
    BY <1>t, <1>4, <2>1
       DEF ReadOnlyKnown, Exposed, Live, SetAttribute, TypeOK, Object
  <2> QED BY <2>4, <2>5
<1>5. ASSUME NEW s \in Servers, NEW x \in Methods, CallMethod(s, x)
      PROVE  NoNullSetter' /\ ReadOnlyKnown'
  <2>1. object[s] \in Object
    BY <1>t, <1>5 DEF CallMethod, Exposed, Live, TypeOK
  <2> DEFINE m == CallMsg(object[s].id, Len(calls[s]) + 1,
                          ~object[s].noCallback, x, 0)
  <2>2. m \in ModMsg /\ m.type = "call" /\ m.on = x
    <3>1. Len(calls[s]) + 1 \in Nat /\ 0 \in Values
      BY <1>t, Numbers DEF TypeOK
    <3> QED BY <2>1, <3>1 DEF CallMsg, ModMsg, Object
  <2>3. toMod' = [toMod EXCEPT ![s] = Append(@, m)]
    BY <1>5 DEF CallMethod, Remote
  <2> HIDE DEF m
  <2>4. NoNullSetter'
    BY <1>t, <2>2, <2>3, SettersAppend
  <2> QED BY <1>0, <1>5, <2>4 DEF CallMethod
<1>6. ASSUME NEW a \in Attributes, NEW v \in Values, Change(a, v)
      PROVE  NoNullSetter' /\ ReadOnlyKnown'
  BY <1>0, <1>n, <1>6 DEF Change
<1>7. ASSUME NEW s \in Servers, HandleAssign(s) PROVE NoNullSetter' /\ ReadOnlyKnown'
  BY <1>t, <1>0, <1>7, SettersTail DEF HandleAssign
<1>8. ASSUME NEW s \in Servers, HandleShutdown(s) PROVE NoNullSetter' /\ ReadOnlyKnown'
  BY <1>t, <1>0, <1>8, SettersTail DEF HandleShutdown
<1>9. ASSUME NEW s \in Servers, HandleSet(s) PROVE NoNullSetter' /\ ReadOnlyKnown'
  BY <1>t, <1>0, <1>9, SettersTail DEF HandleSet
<1>10. ASSUME NEW s \in Servers, NEW fate, HandleMethod(s, fate)
       PROVE  NoNullSetter' /\ ReadOnlyKnown'
  BY <1>t, <1>0, <1>10, SettersTail DEF HandleMethod
<1>11. ASSUME NEW s \in Servers, HandleStale(s) \/ HandleAnswer(s)
       PROVE  NoNullSetter' /\ ReadOnlyKnown'
  BY <1>0, <1>n, <1>11 DEF HandleStale, HandleAnswer, Read
<1>12. ASSUME NEW s \in Servers, HandleExpose(s) PROVE NoNullSetter' /\ ReadOnlyKnown'
  <2> DEFINE m == Head(toSrv[s])
  <2>1. m \in SrvMsg /\ m.type = "expose" /\ object[s] \in Object
    BY <1>t, <1>12, ReadType DEF HandleExpose, Mine, Live, TypeOK
  <2>2. m.writable = Writable
    BY <2>1, SrvMsgFields
  <2>3. ReadOnlyKnown'
    BY <1>t, <1>12, <2>1, <2>2
       DEF ReadOnlyKnown, Exposed, Live, HandleExpose, TypeOK, Object
  <2> QED BY <1>n, <1>12, <2>3 DEF HandleExpose, Read
<1>13. ASSUME NEW s \in Servers, HandleUpdate(s) PROVE NoNullSetter' /\ ReadOnlyKnown'
  <2>1. object[s] \in Object
    BY <1>t, <1>13 DEF HandleUpdate, Mine, Live, TypeOK
  <2>2. /\ object'[s].exposed = object[s].exposed /\ object[s] # None
        /\ object'[s].readOnly = object[s].readOnly
        /\ \A t \in Servers \ {s} : object'[t] = object[t]
    BY <1>t, <1>13, <2>1 DEF HandleUpdate, Mine, Live, TypeOK, Object
  <2>3. ReadOnlyKnown'
    BY <1>t, <2>2 DEF ReadOnlyKnown, Exposed, Live
  <2> QED BY <1>n, <1>13, <2>3 DEF HandleUpdate, Read
<1>14. CASE UNCHANGED vars
  BY <1>0, <1>n, <1>14 DEF vars
<1> QED
  BY <1>1, <1>2, <1>3, <1>4, <1>5, <1>6, <1>7, <1>8, <1>9, <1>10, <1>11, <1>12,
     <1>13, <1>14 DEF Next, Script, ModStep, SrvStep

\* No assignment to a read-only attribute reaches a program, so
\* Attribute::setAttrValue never calls a null setter.
THEOREM NoNullSetterCalled == Spec => []NoNullSetter
<1>1. SettersInv => NoNullSetter
  BY DEF SettersInv
<1> QED BY <1>1, SettersInit, SettersStep, PTL DEF Spec

-----------------------------------------------------------------------------
(* The inductive invariants, by server.                                    *)

\* Ids are given out in order.
IdsBelow(s) ==
    /\ Live(s) => object[s].id < nextObjId[s]
    /\ serverMap[s] # None => serverMap[s] < nextObjId[s]
    /\ \A i \in 1..Len(toSrv[s]) : toSrv[s][i].id < nextObjId[s]
    /\ \A i \in 1..Len(toMod[s]) :
         toMod[s][i].type = "assign" => toMod[s][i].id < nextObjId[s]
    /\ \A n \in 1..Len(calls[s]) : calls[s][n].id < nextObjId[s]

\* An exposure of the object is under way, and what is its own comes after.
Coming(q, id) ==
    \E k \in 1..Len(q) :
        /\ q[k].type = "expose" /\ q[k].id = id
        /\ \A i \in 1..(k - 1) : q[i].id # id
        /\ \A i \in (k + 1)..Len(q) : q[i].id = id /\ q[i].type # "expose"

\* Where a server and the program are in the life of an object: it has gone,
\* or it was made and the program does not know yet, or the program knows it
\* and its exposure is under way, or it is open.
Gone(s) ==
    /\ ~Live(s)
    /\ toMod[s] = <<>> => serverMap[s] = None
    /\ \A i \in 1..Len(toMod[s]) :
         (toMod[s][i].type = "shutdown") <=> (i = Len(toMod[s]))
Made(s) ==
    /\ Live(s) /\ ~object[s].exposed /\ object[s].told = 0
    /\ serverMap[s] = None /\ toMod[s] = <<AssignMsg(object[s].id)>>
    /\ \A i \in 1..Len(toSrv[s]) : toSrv[s][i].id # object[s].id
Known(s) ==
    /\ Live(s) /\ ~object[s].exposed /\ object[s].told = 0
    /\ serverMap[s] = object[s].id /\ toMod[s] = <<>>
    /\ Coming(toSrv[s], object[s].id)
Open(s) ==
    /\ Exposed(s)
    /\ serverMap[s] = object[s].id
    /\ \A i \in 1..Len(toMod[s]) : toMod[s][i].type = "call"
    /\ \A i \in 1..Len(toSrv[s]) :
         toSrv[s][i].id = object[s].id /\ toSrv[s][i].type # "expose"

Life(s) == IdsBelow(s) /\ (Gone(s) \/ Made(s) \/ Known(s) \/ Open(s))

\* What the queue of messages to a server looks like.  The n-th state of the
\* attributes is hist[n]; h is the state the server has read up to.  Message
\* m may follow a message sent in state p.
Follows(hist, p, m) ==
    /\ m.at \in 1..Len(hist)
    /\ m.type = "expose" => m.at >= p /\ m.values = hist[m.at]
    /\ m.type = "update" =>
         m.at = p + 1 /\ hist[m.at] = [hist[p] EXCEPT ![m.attr] = m.value]
    /\ m.type = "answer" => m.at = p

Before(h, q, i) == IF i = 1 THEN h ELSE q[i - 1].at
LastAt(h, q)    == Before(h, q, Len(q) + 1)

Orderly(hist, h, q) ==
    /\ h \in 1..Len(hist)
    /\ \A i \in 1..Len(q) : Follows(hist, Before(h, q, i), q[i])

\* A server the program knows is sent everything.
InOrder(s) ==
    /\ Orderly(history, heard[s], toSrv[s])
    /\ serverMap[s] # None => LastAt(heard[s], toSrv[s]) = Len(history)

Told(s) == Exposed(s) => object[s].since + object[s].told = heard[s]

\* A cached value is the one the server has read up to, unless the script put
\* another there: then its assignment, or the update it caused, is under way.
Pending(s, a) ==
    \/ \E i \in 1..Len(toMod[s]) :
         toMod[s][i].type = "call" /\ toMod[s][i].on = a
    \/ \E i \in 1..Len(toSrv[s]) :
         toSrv[s][i].type = "update" /\ toSrv[s][i].attr = a
Cached(s) ==
    Exposed(s) => \A a \in Attributes :
        object[s].cached[a] = history[heard[s]][a] \/ Pending(s, a)

Current == history # <<>> /\ value = history[Len(history)]

\* Everything about values.
MirrorInv ==
    TypeOK /\ Current
    /\ \A s \in Servers : Life(s) /\ InOrder(s) /\ Told(s) /\ Cached(s)

\* Calls under way are the last ones made, in their order.
CallsQueued(s) ==
    \A i \in 1..Len(toMod[s]) : toMod[s][i].type = "call" =>
        LET m == toMod[s][i]
        IN /\ m.n \in 1..Len(calls[s])
           /\ calls[s][m.n].on = m.on /\ calls[s][m.n].id = m.id
           /\ calls[s][m.n].cb = m.cb
           /\ \A k \in m.n..Len(calls[s]) : calls[s][k].fate = "waiting"
           /\ \A j \in 1..(i - 1) :
                toMod[s][j].type = "call" => toMod[s][j].n < m.n

F == "METD_EXCEPTION"
D == "NO_ERRORS"

\* An answer that a call of that fate gets.
Deserved(c, err) ==
    /\ err = F => c.fate = "threw"
    /\ err = D => c.cb /\ (c.fate = "returned" \/ c.on \in Void)

\* What the script was told of a call.
ToldTruly(s) ==
    \A n \in 1..Len(calls[s]) :
        LET c == calls[s][n]
        IN /\ c.told \in {<<>>, <<F>>, <<D>>, <<F, D>>}
           /\ c.told \in {<<F>>, <<F, D>>} => Deserved(c, F)
           /\ c.told \in {<<D>>, <<F, D>>} => Deserved(c, D)
           /\ c.fate = "waiting" => c.told = <<>>

\* An answer under way belongs to a call that has ended, and was not told yet.
Due(cs, m) ==
    /\ m.n \in 1..Len(cs)
    /\ LET c == cs[m.n]
       IN /\ c.id = m.id /\ c.fate # "waiting" /\ Deserved(c, m.err)
          /\ m.err = F => c.told = <<>>
          /\ m.err = D => c.told \in {<<>>, <<F>>}
AnswersQueued(s) ==
    \A i \in 1..Len(toSrv[s]) : toSrv[s][i].type = "answer" =>
        /\ Due(calls[s], toSrv[s][i])
        /\ \A j \in 1..(i - 1) : toSrv[s][j].type = "answer" =>
             LET l == toSrv[s][j]
                 m == toSrv[s][i]
             IN l.n < m.n \/ (l.n = m.n /\ l.err = F /\ m.err = D)

\* Of a live object no call and no answer is lost.
NoneLost(s) ==
    Live(s) => \A k \in 1..Len(calls[s]) :
        LET c == calls[s][k]
        IN c.id = object[s].id =>
           /\ c.fate = "waiting" =>
                \E i \in 1..Len(toMod[s]) :
                    toMod[s][i].type = "call" /\ toMod[s][i].n = k
           /\ c.fate # "waiting" /\ c.on \in Methods
              /\ (c.cb \/ c.fate = "threw") /\ c.told = <<>> =>
                \E i \in 1..Len(toSrv[s]) :
                    toSrv[s][i].type = "answer" /\ toSrv[s][i].n = k

InTurn(s) ==
    \A n \in 1..Len(calls[s]) : calls[s][n].told # <<>> =>
        \A k \in 1..(n - 1) :
            LET c == calls[s][k]
            IN c.id = calls[s][n].id /\ c.on \in Methods
               /\ (c.cb \/ c.fate = "threw") => c.told # <<>>

-----------------------------------------------------------------------------
(* Sequences by their elements.                                            *)

LEMMA ConcatAt ==
    ASSUME NEW S, NEW q \in Seq(S), NEW r \in Seq(S)
    PROVE  /\ q \o r \in Seq(S) /\ Len(q \o r) = Len(q) + Len(r)
           /\ Len(q) \in Nat /\ Len(r) \in Nat
           /\ \A i \in 1..Len(q) : (q \o r)[i] = q[i]
           /\ \A i \in 1..Len(r) : (q \o r)[Len(q) + i] = r[i]
           /\ \A i \in 1..Len(q \o r) :
                i \in 1..Len(q)
                \/ (i - Len(q) \in 1..Len(r) /\ (q \o r)[i] = r[i - Len(q)])
<1>1. /\ q \o r \in Seq(S) /\ Len(q \o r) = Len(q) + Len(r)
      /\ Len(q) \in Nat /\ Len(r) \in Nat
      /\ \A i \in 1..(Len(q) + Len(r)) :
           (q \o r)[i] = IF i <= Len(q) THEN q[i] ELSE r[i - Len(q)]
  BY ConcatProperties
<1> DEFINE u == q \o r
<1> HIDE DEF u
<1>2. \A i \in 1..Len(q) : u[i] = q[i]
  BY <1>1 DEF u
<1>3. \A i \in 1..Len(r) : u[Len(q) + i] = r[i]
  <2> SUFFICES ASSUME NEW i \in 1..Len(r) PROVE u[Len(q) + i] = r[i]
    OBVIOUS
  <2>1. Len(q) + i \in 1..(Len(q) + Len(r)) /\ ~(Len(q) + i <= Len(q))
        /\ (Len(q) + i) - Len(q) = i
    BY <1>1
  <2> QED BY <1>1, <2>1 DEF u
<1>4. \A i \in 1..Len(u) :
        i \in 1..Len(q) \/ (i - Len(q) \in 1..Len(r) /\ u[i] = r[i - Len(q)])
  <2> SUFFICES ASSUME NEW i \in 1..Len(u), i \notin 1..Len(q)
               PROVE  i - Len(q) \in 1..Len(r) /\ u[i] = r[i - Len(q)]
    OBVIOUS
  <2>1. i \in 1..(Len(q) + Len(r)) /\ ~(i <= Len(q))
    BY <1>1 DEF u
  <2> QED BY <1>1, <2>1 DEF u
<1> QED BY <1>1, <1>2, <1>3, <1>4 DEF u

LEMMA TailAt ==
    ASSUME NEW S, NEW q \in Seq(S), q # <<>>
    PROVE  /\ Tail(q) \in Seq(S) /\ Head(q) \in S /\ Head(q) = q[1]
           /\ Len(q) \in Nat \ {0} /\ Len(Tail(q)) = Len(q) - 1
           /\ \A i \in 1..Len(Tail(q)) :
                i + 1 \in 1..Len(q) /\ Tail(q)[i] = q[i + 1]
           /\ \A i \in 1..Len(q) :
                i = 1 \/ (i - 1 \in 1..Len(Tail(q)) /\ Tail(q)[i - 1] = q[i])
<1>1. /\ Tail(q) \in Seq(S) /\ Head(q) \in S /\ Head(q) = q[1]
      /\ Len(q) \in Nat \ {0} /\ Len(Tail(q)) = Len(q) - 1
      /\ \A i \in 1..Len(Tail(q)) : Tail(q)[i] = q[i + 1]
  OBVIOUS
<1>2. \A i \in 1..Len(q) : i = 1 \/ (i - 1 \in 1..Len(Tail(q)) /\ (i - 1) + 1 = i)
  BY <1>1
<1>3. \A i \in 1..Len(Tail(q)) : i + 1 \in 1..Len(q)
  BY <1>1
<1> QED BY <1>1, <1>2, <1>3

LEMMA AppendAt ==
    ASSUME NEW S, NEW q \in Seq(S), NEW m \in S
    PROVE  /\ Append(q, m) \in Seq(S) /\ Append(q, m) = q \o <<m>>
           /\ Len(q) \in Nat /\ Len(Append(q, m)) = Len(q) + 1
           /\ \A i \in 1..Len(q) : Append(q, m)[i] = q[i]
           /\ Append(q, m)[Len(q) + 1] = m
           /\ \A i \in 1..Len(Append(q, m)) : i \in 1..Len(q) \/ i = Len(q) + 1
  OBVIOUS

-----------------------------------------------------------------------------
(* What a step does to one server: nothing, or it sends it an update, or   *)
(* it is a step of that server's script, loop or channel.                  *)

At(t) == <<serverMap[t], object[t], nextObjId[t], toMod[t], heard[t], calls[t]>>

News(t, a, v) ==
    IF serverMap[t] = None THEN <<>>
    ELSE <<UpdateMsg(serverMap[t], a, v, Now + 1)>>

Grew(a, v) ==
    /\ value' = [value EXCEPT ![a] = v] /\ history' = Append(history, value')

Idle(t) == UNCHANGED <<At(t), toSrv[t], value, history>>
Informed(t, a, v) ==
    UNCHANGED At(t) /\ Grew(a, v) /\ toSrv'[t] = toSrv[t] \o News(t, a, v)
Own(t) == Script(t) \/ ModStep(t) \/ SrvStep(t)

LEMMA NewsType ==
    ASSUME TypeOK, NEW t \in Servers, NEW a \in Attributes, NEW v \in Values
    PROVE  /\ News(t, a, v) \in Seq(SrvMsg)
           /\ Now \in Nat /\ Now = Len(history)
           /\ serverMap[t] # None => serverMap[t] \in Nat
<1>1. Now \in Nat /\ (serverMap[t] # None => serverMap[t] \in Nat)
  BY DEF TypeOK, Now
<1>2. serverMap[t] # None => UpdateMsg(serverMap[t], a, v, Now + 1) \in SrvMsg
  BY <1>1, UpdateMsgType
<1> QED BY <1>1, <1>2 DEF News, Now

LEMMA ReportAt ==
    ASSUME TypeOK, NEW a \in Attributes, NEW v \in Values, NEW s,
           NEW more \in Seq(SrvMsg), Report(a, v, s, more), NEW t \in Servers
    PROVE  /\ Grew(a, v)
           /\ t # s => toSrv'[t] = toSrv[t] \o News(t, a, v)
           /\ t = s => toSrv'[t] = (toSrv[t] \o News(t, a, v)) \o more
           /\ more = <<>> => toSrv'[t] = toSrv[t] \o News(t, a, v)
<1> DEFINE m    == UpdateMsg(serverMap[t], a, v, Now + 1)
<1> DEFINE told == IF serverMap[t] = None THEN toSrv[t] ELSE Append(toSrv[t], m)
<1>1. toSrv'[t] = IF t = s THEN told \o more ELSE told
  BY DEF Report
<1>2. toSrv[t] \in Seq(SrvMsg) /\ News(t, a, v) \in Seq(SrvMsg)
  BY NewsType DEF TypeOK
<1>3. told = toSrv[t] \o News(t, a, v)
  <2>1. CASE serverMap[t] = None
    BY <1>2, <2>1, ConcatEmptySeq DEF News
  <2>2. CASE serverMap[t] # None
    <3>1. News(t, a, v) = <<m>> /\ told = Append(toSrv[t], m)
      BY <2>2 DEF News
    <3> HIDE DEF m, told
    <3>2. m \in SrvMsg
      BY <1>2, <3>1
    <3> QED BY <1>2, <3>1, <3>2, AppendAt
  <2> QED BY <2>1, <2>2
<1>4. told \in Seq(SrvMsg)
  BY <1>2, <1>3, ConcatAt
<1> HIDE DEF told
<1>5. more = <<>> => told \o more = told
  BY <1>4, ConcatEmptySeq
<1>6. Grew(a, v)
  BY DEF Report, Grew
<1> QED BY <1>1, <1>3, <1>5, <1>6

LEMMA Steps ==
    ASSUME TypeOK, [Next]_vars, NEW t \in Servers
    PROVE  \/ Idle(t) \/ Own(t)
           \/ \E a \in Attributes, v \in Values : Informed(t, a, v)
<1> USE DEF program, server
<1>1. ASSUME NEW s \in Servers, Script(s), s # t PROVE Idle(t)
  <2>1. CASE Register(s)
    BY <1>1, <2>1 DEF Register, Idle, At, TypeOK
  <2>2. CASE Disconnect(s)
    BY <1>1, <2>2 DEF Disconnect, Idle, At, TypeOK
  <2>3. ASSUME NEW b \in BOOLEAN, SetNoCallback(s, b) PROVE Idle(t)
    BY <1>1, <2>3 DEF SetNoCallback, Idle, At, TypeOK
  <2>4. ASSUME NEW a \in Attributes, NEW v \in Assigned, SetAttribute(s, a, v)
        PROVE  Idle(t)
    BY <1>1, <2>4 DEF SetAttribute, Remote, Idle, At, TypeOK
  <2>5. ASSUME NEW m \in Methods, CallMethod(s, m) PROVE Idle(t)
    BY <1>1, <2>5 DEF CallMethod, Remote, Idle, At, TypeOK
  <2> QED BY <1>1, <2>1, <2>2, <2>3, <2>4, <2>5 DEF Script
<1>2. ASSUME NEW s \in Servers, SrvStep(s), s # t PROVE Idle(t)
  <2>1. CASE HandleStale(s)
    BY <1>2, <2>1 DEF HandleStale, Read, Idle, At, TypeOK
  <2>2. CASE HandleExpose(s)
    BY <1>2, <2>2 DEF HandleExpose, Read, Idle, At, TypeOK
  <2>3. CASE HandleUpdate(s)
    BY <1>2, <2>3 DEF HandleUpdate, Read, Idle, At, TypeOK
  <2>4. CASE HandleAnswer(s)
    BY <1>2, <2>4 DEF HandleAnswer, Read, Idle, At, TypeOK
  <2> QED BY <1>2, <2>1, <2>2, <2>3, <2>4 DEF SrvStep
<1>e. <<>> \in Seq(SrvMsg)
  OBVIOUS
<1>3. ASSUME NEW s \in Servers, ModStep(s), s # t
      PROVE  Idle(t) \/ \E a \in Attributes, v \in Values : Informed(t, a, v)
  <2>1. CASE HandleAssign(s)
    BY <1>3, <2>1 DEF HandleAssign, Took, Idle, At, TypeOK
  <2>2. CASE HandleShutdown(s)
    BY <1>3, <2>2 DEF HandleShutdown, Took, Idle, At, TypeOK
  <2>3. CASE HandleSet(s)
    <3> DEFINE m == Head(toMod[s])
    <3>1. m.on \in Attributes /\ m.value \in Values
      BY <2>3, TookType, ModMsgFields, CallsAssumption DEF HandleSet
    <3>2. PICK a \in Attributes, v \in Values : a = m.on /\ v = m.value
      BY <3>1
    <3>3. UNCHANGED At(t) /\ Report(a, v, None, <<>>)
      BY <1>3, <2>3, <3>2 DEF HandleSet, Took, At, TypeOK
    <3>4. Grew(a, v) /\ toSrv'[t] = toSrv[t] \o News(t, a, v)
      BY <1>e, <3>3, ReportAt
    <3> QED BY <3>3, <3>4 DEF Informed
  <2>4. ASSUME NEW fate \in {"returned", "threw"}, HandleMethod(s, fate)
        PROVE  Idle(t) \/ \E a \in Attributes, v \in Values : Informed(t, a, v)
    <3> DEFINE m == Head(toMod[s])
    <3>1. m.id \in Nat /\ m.n \in Nat
      BY <2>4, TookType, ModMsgFields DEF HandleMethod
    <3>2. UNCHANGED At(t)
      BY <1>3, <2>4 DEF HandleMethod, Took, At, TypeOK
    <3>3. CASE Reply(s, Answers(m, fate, Now))
      BY <1>3, <3>2, <3>3 DEF Reply, Idle, TypeOK
    <3>4. ASSUME NEW a \in Attributes, NEW v \in Values,
                 Report(a, v, s, Answers(m, fate, Now + 1))
          PROVE  Informed(t, a, v)
      <4>1. Answers(m, fate, Now + 1) \in Seq(SrvMsg)
        <5> DEFINE R == {r \in SrvMsg : r.type = "answer" /\ r.id = m.id
                                        /\ r.at = Now + 1}
        <5>1. Now + 1 \in Nat
          BY DEF TypeOK, Now
        <5>2. Answers(m, fate, Now + 1) \in Seq(R)
          BY <3>1, <5>1, AnswersType
        <5>3. R \subseteq SrvMsg
          OBVIOUS
        <5> QED BY <5>2, <5>3, SeqMonotonic
      <4>2. Grew(a, v) /\ toSrv'[t] = toSrv[t] \o News(t, a, v)
        BY <1>3, <3>4, <4>1, ReportAt
      <4> QED BY <3>2, <4>2 DEF Informed
    <3> QED BY <2>4, <3>3, <3>4 DEF HandleMethod
  <2> QED BY <1>3, <2>1, <2>2, <2>3, <2>4 DEF ModStep
<1>4. ASSUME NEW a \in Attributes, NEW v \in Values, Change(a, v)
      PROVE  Informed(t, a, v)
  <2>1. Grew(a, v) /\ toSrv'[t] = toSrv[t] \o News(t, a, v)
    BY <1>e, <1>4, ReportAt DEF Change
  <2> QED BY <1>4, <2>1 DEF Informed, At, Change
<1>5. CASE UNCHANGED vars
  BY <1>5 DEF vars, Idle, At
<1> QED
  BY <1>1, <1>2, <1>3, <1>4, <1>5 DEF Next, Own

\* The handlers of a call, at the server that made it.
LEMMA SetAt ==
    ASSUME TypeOK, NEW s \in Servers, HandleSet(s)
    PROVE  /\ toMod[s] \in Seq(ModMsg) /\ toMod[s] # <<>>
           /\ toMod'[s] = Tail(toMod[s]) /\ Head(toMod[s]).type = "call"
           /\ serverMap[s] # None /\ Head(toMod[s]).id = serverMap[s]
           /\ Head(toMod[s]).n \in Nat
           /\ Head(toMod[s]).on \in Attributes
           /\ UNCHANGED <<serverMap[s], object[s], nextObjId[s], heard[s]>>
           /\ calls'[s] = [calls[s] EXCEPT ![Head(toMod[s]).n].fate = "returned"]
           /\ \E v \in Values, a \in Attributes :
                a = Head(toMod[s]).on
                /\ Grew(a, v) /\ toSrv'[s] = toSrv[s] \o News(s, a, v)
<1> DEFINE m == Head(toMod[s])
<1>1. /\ m.on \in Attributes /\ m.value \in Values /\ m.type = "call"
      /\ m.n \in Nat /\ toMod[s] \in Seq(ModMsg) /\ toMod[s] # <<>>
  BY TookType, ModMsgFields, CallsAssumption DEF HandleSet
<1>2. PICK v \in Values, a \in Attributes : a = m.on /\ v = m.value
  BY <1>1
<1>3. /\ toMod'[s] = Tail(toMod[s])
      /\ serverMap[s] # None /\ m.id = serverMap[s]
      /\ UNCHANGED <<serverMap[s], object[s], nextObjId[s], heard[s]>>
      /\ calls'[s] = [calls[s] EXCEPT ![m.n].fate = "returned"]
  BY <1>2 DEF HandleSet, Took, TypeOK, ForUs
<1>4. Report(a, v, None, <<>>) /\ <<>> \in Seq(SrvMsg)
  BY <1>2 DEF HandleSet
<1>5. Grew(a, v) /\ toSrv'[s] = toSrv[s] \o News(s, a, v)
  BY <1>4, ReportAt
<1> QED BY <1>1, <1>2, <1>3, <1>5

LEMMA MethodAt ==
    ASSUME TypeOK, NEW s \in Servers, NEW fate \in {"returned", "threw"},
           HandleMethod(s, fate)
    PROVE  /\ toMod[s] \in Seq(ModMsg) /\ toMod[s] # <<>>
           /\ toMod'[s] = Tail(toMod[s]) /\ Head(toMod[s]).type = "call"
           /\ serverMap[s] # None /\ Head(toMod[s]).id = serverMap[s]
           /\ serverMap[s] \in Nat
           /\ Head(toMod[s]).n \in Nat /\ Head(toMod[s]).cb \in BOOLEAN
           /\ Head(toMod[s]).on \in Methods
           /\ UNCHANGED <<serverMap[s], object[s], nextObjId[s], heard[s]>>
           /\ calls'[s] = [calls[s] EXCEPT ![Head(toMod[s]).n].fate = fate]
           /\ \/ /\ UNCHANGED <<value, history>>
                 /\ toSrv'[s] = toSrv[s] \o Answers(Head(toMod[s]), fate, Now)
              \/ \E a \in Attributes, v \in Values :
                   /\ Grew(a, v)
                   /\ toSrv'[s] = (toSrv[s] \o News(s, a, v))
                                  \o Answers(Head(toMod[s]), fate, Now + 1)
           /\ \A at \in {Now, Now + 1} : Answers(Head(toMod[s]), fate, at)
                \in Seq({r \in SrvMsg : r.type = "answer" /\ r.at = at
                                        /\ r.id = Head(toMod[s]).id})
<1> DEFINE m == Head(toMod[s])
<1>1. /\ m.on \in Methods /\ m.type = "call" /\ m.id \in Nat /\ m.cb \in BOOLEAN
      /\ m.n \in Nat /\ toMod[s] \in Seq(ModMsg) /\ toMod[s] # <<>>
  BY TookType, ModMsgFields DEF HandleMethod
<1>2. /\ toMod'[s] = Tail(toMod[s]) /\ serverMap[s] # None /\ m.id = serverMap[s]
      /\ UNCHANGED <<serverMap[s], object[s], nextObjId[s], heard[s]>>
      /\ calls'[s] = [calls[s] EXCEPT ![m.n].fate = fate]
  BY DEF HandleMethod, Took, TypeOK, ForUs
<1>3. ASSUME NEW at \in {Now, Now + 1}
      PROVE  Answers(m, fate, at)
               \in Seq({r \in SrvMsg : r.type = "answer" /\ r.at = at /\ r.id = m.id})
  <2>1. at \in Nat
    BY DEF TypeOK, Now
  <2>2. {r \in SrvMsg : r.type = "answer" /\ r.id = m.id /\ r.at = at}
          = {r \in SrvMsg : r.type = "answer" /\ r.at = at /\ r.id = m.id}
    OBVIOUS
  <2> QED BY <1>1, <2>1, <2>2, AnswersType
<1>4. CASE Reply(s, Answers(m, fate, Now))
  <2>1. UNCHANGED <<value, history>> /\ toSrv'[s] = toSrv[s] \o Answers(m, fate, Now)
    BY <1>4 DEF Reply, TypeOK
  <2> QED BY <1>1, <1>2, <1>3, <2>1
<1>5. ASSUME NEW a \in Attributes, NEW v \in Values,
             Report(a, v, s, Answers(m, fate, Now + 1))
      PROVE  /\ Grew(a, v)
             /\ toSrv'[s] = (toSrv[s] \o News(s, a, v)) \o Answers(m, fate, Now + 1)
  <2>1. Answers(m, fate, Now + 1)
          \in Seq({r \in SrvMsg : r.type = "answer" /\ r.at = Now + 1 /\ r.id = m.id})
    BY <1>3
  <2>2. Answers(m, fate, Now + 1) \in Seq(SrvMsg)
    <3>1. {r \in SrvMsg : r.type = "answer" /\ r.at = Now + 1 /\ r.id = m.id}
            \subseteq SrvMsg
      OBVIOUS
    <3> QED BY <2>1, <3>1, SeqMonotonic
  <2> QED BY <1>5, <2>2, ReportAt
<1> QED BY <1>1, <1>2, <1>3, <1>4, <1>5 DEF HandleMethod

-----------------------------------------------------------------------------
(* The life of an object.                                                  *)

\* What the program posts goes under the id it knows.
Posted(t, r) ==
    /\ r \in Seq(SrvMsg)
    /\ serverMap[t] = None => r = <<>>
    /\ \A i \in 1..Len(r) :
         r[i].id = serverMap[t] /\ r[i].type \in {"update", "answer"}

\* All of an object but what it knows of the attributes.
SameObject(t) ==
    /\ object[t] = None <=> object'[t] = None
    /\ Live(t) => /\ object'[t].id = object[t].id
                  /\ object'[t].exposed = object[t].exposed
                  /\ object'[t].told = object[t].told

\* No call is made, and the ones that were are for whom they were.
SameCallIds(t) ==
    /\ Len(calls'[t]) = Len(calls[t])
    /\ \A n \in 1..Len(calls[t]) : calls'[t][n].id = calls[t][n].id

LEMMA ComingPost ==
    ASSUME NEW q \in Seq(SrvMsg), NEW id, NEW r \in Seq(SrvMsg), Coming(q, id),
           \A i \in 1..Len(r) : r[i].id = id /\ r[i].type # "expose"
    PROVE  Coming(q \o r, id)
<1> DEFINE u == q \o r
<1>1. /\ Len(q) \in Nat /\ Len(r) \in Nat /\ Len(u) = Len(q) + Len(r)
      /\ \A i \in 1..Len(q) : u[i] = q[i]
      /\ \A i \in 1..Len(u) :
           i \in 1..Len(q) \/ (i - Len(q) \in 1..Len(r) /\ u[i] = r[i - Len(q)])
  BY ConcatAt
<1> HIDE DEF u
<1>2. PICK k \in 1..Len(q) :
        /\ q[k].type = "expose" /\ q[k].id = id
        /\ \A i \in 1..(k - 1) : q[i].id # id
        /\ \A i \in (k + 1)..Len(q) : q[i].id = id /\ q[i].type # "expose"
  BY DEF Coming
<1>3. k \in 1..Len(u) /\ u[k] = q[k] /\ \A i \in 1..(k - 1) : u[i] = q[i]
  BY <1>1
<1>4. ASSUME NEW i \in (k + 1)..Len(u) PROVE u[i].id = id /\ u[i].type # "expose"
  <2>1. CASE i \in 1..Len(q)
    BY <1>1, <1>2, <2>1
  <2>2. CASE i - Len(q) \in 1..Len(r) /\ u[i] = r[i - Len(q)]
    BY <2>2
  <2> QED BY <1>1, <2>1, <2>2
<1>5. Coming(u, id)
  BY <1>2, <1>3, <1>4 DEF Coming
<1> QED BY <1>5 DEF u

LEMMA LifePost ==
    ASSUME TypeOK, NEW t \in Servers, Life(t), NEW r, Posted(t, r),
           toSrv'[t] = toSrv[t] \o r,
           serverMap'[t] = serverMap[t], nextObjId'[t] = nextObjId[t],
           SameObject(t), SameCallIds(t),
           \/ toMod'[t] = toMod[t]
           \/ toMod[t] # <<>> /\ Head(toMod[t]).type = "call"
              /\ toMod'[t] = Tail(toMod[t])
    PROVE  Life(t)'
<1>1. /\ toSrv[t] \in Seq(SrvMsg) /\ toMod[t] \in Seq(ModMsg) /\ r \in Seq(SrvMsg)
      /\ object[t] # None => object[t] \in Object
      /\ serverMap[t] \in Nat \cup {None} /\ nextObjId[t] \in Nat
  BY DEF TypeOK, Posted
<1>2. /\ Len(toSrv[t]) \in Nat /\ Len(r) \in Nat
      /\ Len(toSrv'[t]) = Len(toSrv[t]) + Len(r)
      /\ \A i \in 1..Len(toSrv[t]) : toSrv'[t][i] = toSrv[t][i]
      /\ \A i \in 1..Len(toSrv'[t]) :
           i \in 1..Len(toSrv[t])
           \/ (i - Len(toSrv[t]) \in 1..Len(r)
               /\ toSrv'[t][i] = r[i - Len(toSrv[t])])
  BY <1>1, ConcatAt
<1>3. \A i \in 1..Len(toMod'[t]) :
        \E j \in 1..Len(toMod[t]) :
            /\ toMod'[t][i] = toMod[t][j]
            /\ i = Len(toMod'[t]) <=> j = Len(toMod[t])
  <2>1. CASE toMod'[t] = toMod[t]
    BY <2>1
  <2>2. CASE toMod[t] # <<>> /\ toMod'[t] = Tail(toMod[t])
    <3>1. /\ Len(toMod[t]) \in Nat /\ Len(toMod'[t]) = Len(toMod[t]) - 1
          /\ \A i \in 1..Len(toMod'[t]) :
               i + 1 \in 1..Len(toMod[t]) /\ toMod'[t][i] = toMod[t][i + 1]
      BY <1>1, <2>2, TailAt
    <3>2. \A i \in 1..Len(toMod'[t]) : i = Len(toMod'[t]) <=> i + 1 = Len(toMod[t])
      BY <3>1
    <3> QED BY <3>1, <3>2
  <2> QED BY <2>1, <2>2
<1>4. toMod[t] = <<>> => toMod'[t] = <<>>
  OBVIOUS
<1>5. IdsBelow(t)'
  <2>1. \A i \in 1..Len(toSrv'[t]) : toSrv'[t][i].id < nextObjId[t]
    <3>1. \A i \in 1..Len(r) : r[i].id < nextObjId[t]
      <4>1. r # <<>> => serverMap[t] < nextObjId[t]
        BY DEF Life, IdsBelow, Posted
      <4>2. r # <<>> \/ Len(r) = 0
        OBVIOUS
      <4> QED BY <4>1, <4>2 DEF Posted
    <3> QED BY <1>2, <3>1 DEF Life, IdsBelow
  <2>2. \A i \in 1..Len(toMod'[t]) :
          toMod'[t][i].type = "assign" => toMod'[t][i].id < nextObjId[t]
    BY <1>3 DEF Life, IdsBelow
  <2> QED BY <2>1, <2>2 DEF Life, IdsBelow, SameObject, SameCallIds, Live
<1>6. CASE Gone(t)
  <2>1. toMod'[t] = <<>> => serverMap[t] = None
    <3>1. CASE toMod[t] # <<>> /\ Head(toMod[t]).type = "call"
               /\ toMod'[t] = Tail(toMod[t])
      <4>1. toMod[t][1].type = "call" /\ Len(toMod[t]) \in Nat \ {0}
            /\ Len(toMod'[t]) = Len(toMod[t]) - 1
        BY <1>1, <3>1, TailAt
      <4>2. Len(toMod[t]) # 1
        BY <1>6, <4>1 DEF Gone
      <4>3. Len(toMod'[t]) # 0
        BY <4>1, <4>2
      <4> QED BY <4>3
    <3> QED BY <1>6, <3>1 DEF Gone
  <2>2. Gone(t)'
    BY <1>3, <1>6, <2>1 DEF Gone, SameObject, Live
  <2> QED BY <1>5, <2>2 DEF Life
<1>7. CASE Made(t)
  <2>1. r = <<>> /\ toSrv'[t] = toSrv[t]
    BY <1>1, <1>7, ConcatEmptySeq DEF Made, Posted
  <2>2. toMod'[t] = toMod[t]
    BY <1>7 DEF Made, AssignMsg
  <2> QED BY <1>5, <1>7, <2>1, <2>2 DEF Life, Made, SameObject, Live
<1>8. CASE Known(t)
  <2>1. Coming(toSrv'[t], object[t].id)
    BY <1>1, <1>8, ComingPost DEF Known, Posted
  <2> QED BY <1>4, <1>5, <1>8, <2>1 DEF Life, Known, SameObject, Live
<1>9. CASE Open(t)
  <2>1. \A i \in 1..Len(toSrv'[t]) :
          toSrv'[t][i].id = object[t].id /\ toSrv'[t][i].type # "expose"
    BY <1>2, <1>9 DEF Open, Posted
  <2>2. \A i \in 1..Len(toMod'[t]) : toMod'[t][i].type = "call"
    BY <1>3, <1>9 DEF Open
  <2> QED BY <1>5, <1>9, <2>1, <2>2 DEF Life, Open, SameObject, Exposed, Live
<1> QED BY <1>6, <1>7, <1>8, <1>9 DEF Life

LEMMA LifeRead ==
    ASSUME TypeOK, NEW t \in Servers, Life(t), toSrv[t] # <<>>,
           toSrv'[t] = Tail(toSrv[t]), toMod'[t] = toMod[t],
           serverMap'[t] = serverMap[t], nextObjId'[t] = nextObjId[t],
           SameCallIds(t),
           \/ object'[t] = object[t] /\ ~Mine(t, Head(toSrv[t]))
           \/ /\ Mine(t, Head(toSrv[t])) /\ Head(toSrv[t]).type # "expose"
              /\ object'[t] # None /\ object'[t].id = object[t].id
              /\ object'[t].exposed = object[t].exposed
    PROVE  Life(t)' /\ (Mine(t, Head(toSrv[t])) => Exposed(t))
<1> DEFINE m == Head(toSrv[t])
<1>1. toSrv[t] \in Seq(SrvMsg) /\ nextObjId[t] \in Nat
  BY DEF TypeOK
<1>2. /\ Len(toSrv[t]) \in Nat \ {0} /\ Len(toSrv'[t]) = Len(toSrv[t]) - 1
      /\ m = toSrv[t][1]
      /\ \A i \in 1..Len(toSrv'[t]) :
           i + 1 \in 1..Len(toSrv[t]) /\ toSrv'[t][i] = toSrv[t][i + 1]
      /\ \A i \in 1..Len(toSrv[t]) :
           i = 1 \/ (i - 1 \in 1..Len(toSrv'[t]) /\ toSrv'[t][i - 1] = toSrv[t][i])
  BY <1>1, TailAt
<1>3. IdsBelow(t)'
  <2>1. \A i \in 1..Len(toSrv'[t]) : toSrv'[t][i].id < nextObjId[t]
    BY <1>2 DEF Life, IdsBelow
  <2>2. Live(t)' => object'[t].id < nextObjId[t]
    BY DEF Life, IdsBelow, Live, Mine
  <2> QED BY <2>1, <2>2 DEF Life, IdsBelow, SameCallIds, Live
<1>4. CASE Gone(t)
  <2>1. object'[t] = object[t]
    BY <1>4 DEF Gone, Mine
  <2> QED BY <1>3, <1>4, <2>1 DEF Life, Gone, Live, Mine
<1>5. CASE Made(t)
  <2>1. m.id # object[t].id /\ \A i \in 1..Len(toSrv'[t]) :
          toSrv'[t][i].id # object[t].id
    BY <1>2, <1>5 DEF Made
  <2>2. object'[t] = object[t]
    BY <2>1 DEF Mine
  <2> QED BY <1>3, <1>5, <2>1, <2>2 DEF Life, Made, Live, Mine
<1>6. CASE Known(t)
  <2>1. PICK k \in 1..Len(toSrv[t]) :
          /\ toSrv[t][k].type = "expose" /\ toSrv[t][k].id = object[t].id
          /\ \A i \in 1..(k - 1) : toSrv[t][i].id # object[t].id
          /\ \A i \in (k + 1)..Len(toSrv[t]) :
               toSrv[t][i].id = object[t].id /\ toSrv[t][i].type # "expose"
    BY <1>6 DEF Known, Coming
  <2>2. ~Mine(t, m) /\ k # 1 /\ object'[t] = object[t]
    <3>1. CASE k = 1
      BY <1>2, <1>6, <2>1, <3>1 DEF Mine, Known
    <3>2. CASE k # 1
      <4>1. 1 \in 1..(k - 1)
        BY <3>2
      <4> QED BY <1>2, <2>1, <3>2, <4>1 DEF Mine
    <3> QED BY <3>1, <3>2
  <2>3. Coming(toSrv'[t], object[t].id)
    <3>1. k - 1 \in 1..Len(toSrv'[t]) /\ toSrv'[t][k - 1] = toSrv[t][k]
      BY <1>2, <2>2
    <3>2. \A i \in 1..((k - 1) - 1) :
            i \in 1..Len(toSrv'[t]) /\ i + 1 \in 1..(k - 1)
      BY <3>1
    <3>3. \A i \in ((k - 1) + 1)..Len(toSrv'[t]) :
            i \in 1..Len(toSrv'[t]) /\ i + 1 \in (k + 1)..Len(toSrv[t])
      BY <1>2, <3>1
    <3> DEFINE q == toSrv'[t]
    <3>4. q[k - 1].type = "expose" /\ q[k - 1].id = object[t].id
      BY <2>1, <3>1
    <3>5. \A i \in 1..((k - 1) - 1) : q[i].id # object[t].id
      BY <1>2, <2>1, <3>2
    <3>6. \A i \in ((k - 1) + 1)..Len(q) :
            q[i].id = object[t].id /\ q[i].type # "expose"
      BY <1>2, <2>1, <3>3
    <3> HIDE DEF q
    <3>7. Coming(q, object[t].id)
      BY <3>1, <3>4, <3>5, <3>6 DEF Coming, q
    <3> QED BY <3>7 DEF q
  <2> QED BY <1>3, <1>6, <2>2, <2>3 DEF Life, Known, Live
<1>7. CASE Open(t)
  <2>1. Mine(t, m)
    BY <1>2, <1>7 DEF Open, Mine, Exposed
  <2>2. \A i \in 1..Len(toSrv'[t]) :
          toSrv'[t][i].id = object[t].id /\ toSrv'[t][i].type # "expose"
    BY <1>2, <1>7 DEF Open
  <2> QED BY <1>3, <1>7, <2>1, <2>2 DEF Life, Open, Exposed, Live
<1> QED BY <1>4, <1>5, <1>6, <1>7 DEF Life

\* An exposure that is read opens the object.
LEMMA LifeExpose ==
    ASSUME TypeOK, NEW t \in Servers, Life(t), HandleExpose(t)
    PROVE  Life(t)' /\ Known(t)
<1> DEFINE m == Head(toSrv[t])
<1>1. toSrv[t] \in Seq(SrvMsg) /\ nextObjId[t] \in Nat /\ object[t] \in Object
      /\ toSrv[t] # <<>>
  BY DEF TypeOK, HandleExpose, Mine, Live, Read
<1>2. /\ Len(toSrv[t]) \in Nat \ {0} /\ Len(Tail(toSrv[t])) = Len(toSrv[t]) - 1
      /\ m = toSrv[t][1]
      /\ \A i \in 1..Len(Tail(toSrv[t])) :
           i + 1 \in 1..Len(toSrv[t]) /\ Tail(toSrv[t])[i] = toSrv[t][i + 1]
  BY <1>1, TailAt
<1>3. /\ toSrv'[t] = Tail(toSrv[t]) /\ toMod'[t] = toMod[t]
      /\ serverMap'[t] = serverMap[t] /\ nextObjId'[t] = nextObjId[t]
      /\ calls'[t] = calls[t]
      /\ m.type = "expose" /\ m.id = object[t].id
  BY <1>1 DEF HandleExpose, Read, Mine, TypeOK, program
<1>o. object'[t] # None /\ object'[t].id = object[t].id /\ object'[t].exposed
  <2>1. /\ object'[t].id = object[t].id /\ object'[t].exposed
        /\ object'[t] = [object[t] EXCEPT !.exposed = TRUE,
             !.readOnly = Attributes \ m.writable, !.cached = m.values, !.since = m.at]
    BY <1>1 DEF HandleExpose, TypeOK, Object
  <2>2. m.values \in [Attributes -> Nat] /\ m.at \in Nat
    <3>1. m \in SrvMsg
      BY <1>1
    <3> QED BY <1>3, <3>1, SrvMsgFields, Numbers
  <2>3. object'[t] \in Object
    BY <1>1, <2>1, <2>2 DEF Object
  <2> QED BY <2>1, <2>3, NoneAssumption
<1>4. Known(t)
  <2>1. Live(t) /\ 1 \in 1..Len(toSrv[t])
        /\ toSrv[t][1].type = "expose" /\ toSrv[t][1].id = object[t].id
    BY <1>2, <1>3 DEF HandleExpose, Mine
  <2>2. ~Gone(t) /\ ~Made(t) /\ ~Open(t)
    BY <2>1 DEF Gone, Made, Open
  <2> QED BY <2>2 DEF Life
<1>5. PICK k \in 1..Len(toSrv[t]) :
        /\ \A i \in 1..(k - 1) : toSrv[t][i].id # object[t].id
        /\ \A i \in (k + 1)..Len(toSrv[t]) :
             toSrv[t][i].id = object[t].id /\ toSrv[t][i].type # "expose"
  BY <1>4 DEF Known, Coming
<1>6. k = 1
  <2>1. k # 1 => 1 \in 1..(k - 1)
    OBVIOUS
  <2> QED BY <1>2, <1>3, <1>5, <2>1
<1>7. \A i \in 1..Len(toSrv'[t]) :
        toSrv'[t][i].id = object[t].id /\ toSrv'[t][i].type # "expose"
  <2>1. \A i \in 1..Len(toSrv'[t]) : i + 1 \in (k + 1)..Len(toSrv[t])
    BY <1>2, <1>3, <1>6
  <2> QED BY <1>2, <1>3, <1>5, <2>1
<1>8. \A i \in 1..Len(toSrv'[t]) : toSrv'[t][i].id < nextObjId[t]
  BY <1>1, <1>2, <1>3 DEF Life, IdsBelow
<1>9. IdsBelow(t)'
  BY <1>3, <1>o, <1>4, <1>8 DEF Life, IdsBelow, Live, Known
<1>10. \A i \in 1..Len(toMod'[t]) : toMod'[t][i].type = "call"
  <2>1. toMod'[t] = <<>>
    BY <1>3, <1>4 DEF Known
  <2>2. Len(<<>>) = 0
    OBVIOUS
  <2> QED BY <2>1, <2>2
<1>11. Open(t)'
  BY <1>3, <1>o, <1>4, <1>7, <1>10 DEF Open, Known, Exposed, Live
<1> QED BY <1>4, <1>9, <1>11 DEF Life

\* The news are posted, and so are answers.
LEMMA NewsPosted ==
    ASSUME TypeOK, NEW t \in Servers, NEW a \in Attributes, NEW v \in Values
    PROVE  Posted(t, News(t, a, v))
<1>1. News(t, a, v) \in Seq(SrvMsg)
  BY NewsType
<1>2. UpdateMsg(serverMap[t], a, v, Now + 1).id = serverMap[t]
      /\ UpdateMsg(serverMap[t], a, v, Now + 1).type = "update"
  BY DEF UpdateMsg
<1> QED BY <1>1, <1>2 DEF Posted, News

LEMMA PostedConcat ==
    ASSUME NEW t, NEW q, NEW r, Posted(t, q), Posted(t, r)
    PROVE  Posted(t, q \o r)
<1>1. q \in Seq(SrvMsg) /\ r \in Seq(SrvMsg)
  BY DEF Posted
<1> DEFINE u == q \o r
<1>2. /\ u \in Seq(SrvMsg)
      /\ \A i \in 1..Len(q) : u[i] = q[i]
      /\ \A i \in 1..Len(u) :
           i \in 1..Len(q) \/ (i - Len(q) \in 1..Len(r) /\ u[i] = r[i - Len(q)])
  BY <1>1, ConcatAt
<1>3. q = <<>> /\ r = <<>> => u = <<>>
  BY <1>1, ConcatEmptySeq
<1> HIDE DEF u
<1>4. Posted(t, u)
  BY <1>2, <1>3 DEF Posted
<1> QED BY <1>4 DEF u

LEMMA AnswersPosted ==
    ASSUME NEW t, NEW at,
           NEW r \in Seq({x \in SrvMsg : x.type = "answer" /\ x.at = at
                                          /\ x.id = serverMap[t]}),
           serverMap[t] # None
    PROVE  Posted(t, r)
<1> DEFINE R == {x \in SrvMsg : x.type = "answer" /\ x.at = at
                                /\ x.id = serverMap[t]}
<1>1. r \in Seq(SrvMsg)
  <2>1. R \subseteq SrvMsg
    OBVIOUS
  <2> QED BY <2>1, SeqMonotonic
<1>2. \A i \in 1..Len(r) : r[i] \in R
  OBVIOUS
<1> QED BY <1>1, <1>2 DEF Posted

LEMMA LifeInit ==
    ASSUME Init, NEW s \in Servers
    PROVE  Life(s)
<1>1. /\ object[s] = None /\ serverMap[s] = None
      /\ toMod[s] = <<>> /\ toSrv[s] = <<>> /\ calls[s] = <<>>
  BY DEF Init
<1>2. Len(<<>>) = 0
  OBVIOUS
<1> QED BY <1>1, <1>2 DEF Life, IdsBelow, Gone, Live

LEMMA LifeStep ==
    ASSUME TypeOK, [Next]_vars, NEW t \in Servers, Life(t)
    PROVE  Life(t)'
<1> USE DEF program, server
<1>e. Posted(t, <<>>) /\ toSrv[t] \o <<>> = toSrv[t]
  <2>1. <<>> \in Seq(SrvMsg) /\ Len(<<>>) = 0 /\ toSrv[t] \in Seq(SrvMsg)
    BY DEF TypeOK
  <2> QED BY <2>1, ConcatEmptySeq DEF Posted
<1>1. CASE Idle(t)
  <2>1. UNCHANGED At(t) /\ toSrv'[t] = toSrv[t] \o <<>>
    BY <1>e, <1>1 DEF Idle, At
  <2> QED BY <1>e, <2>1, LifePost DEF At, SameObject, SameCallIds
<1>2. ASSUME NEW a \in Attributes, NEW v \in Values, Informed(t, a, v)
      PROVE  Life(t)'
  <2>1. Posted(t, News(t, a, v))
    BY NewsPosted
  <2> QED BY <1>2, <2>1, LifePost DEF Informed, At, SameObject, SameCallIds
<1>3. CASE Register(t)
  <2>1. /\ toMod'[t] = <<AssignMsg(nextObjId[t])>> /\ serverMap'[t] = None
        /\ object'[t] = NewObject(nextObjId[t]) /\ nextObjId[t] \in Nat
        /\ nextObjId'[t] = nextObjId[t] + 1
        /\ UNCHANGED <<toSrv[t], calls[t]>>
    BY <1>3 DEF Register, TypeOK
  <2>2. /\ object'[t] # None /\ object'[t].id = nextObjId[t]
        /\ ~object'[t].exposed /\ object'[t].told = 0
    <3>1. NewObject(nextObjId[t]) \in Object
      BY <2>1 DEF NewObject, Object
    <3>2. object'[t] # None
      BY <2>1, <3>1, NoneAssumption
    <3> QED BY <2>1, <3>2 DEF NewObject
  <2>3. /\ \A i \in 1..Len(toSrv[t]) :
             toSrv[t][i].id < nextObjId[t] /\ toSrv[t][i].id \in Nat
        /\ \A n \in 1..Len(calls[t]) :
             calls[t][n].id < nextObjId[t] /\ calls[t][n].id \in Nat
    <3>1. /\ \A i \in 1..Len(toSrv[t]) : toSrv[t][i] \in SrvMsg
          /\ \A n \in 1..Len(calls[t]) : calls[t][n] \in Call
      BY DEF TypeOK
    <3> QED BY <3>1, SrvMsgFields DEF Life, IdsBelow, Call
  <2>4. /\ Len(toMod'[t]) = 1 /\ toMod'[t][1].id = nextObjId[t]
    BY <2>1 DEF AssignMsg
  <2>5. IdsBelow(t)'
    BY <2>1, <2>2, <2>3, <2>4 DEF IdsBelow, Live
  <2>6. \A i \in 1..Len(toSrv'[t]) : toSrv'[t][i].id # object'[t].id
    BY <2>1, <2>2, <2>3
  <2>7. Made(t)'
    BY <2>1, <2>2, <2>6 DEF Made, Live
  <2> QED BY <2>5, <2>7 DEF Life
<1>4. CASE Disconnect(t)
  <2>1. /\ toMod[t] \in Seq(ModMsg) /\ ShutdownMsg \in ModMsg
        /\ ShutdownMsg.type = "shutdown" /\ Live(t)
        /\ toMod'[t] = Append(toMod[t], ShutdownMsg) /\ object'[t] = None
        /\ UNCHANGED <<serverMap[t], toSrv[t], calls[t], nextObjId[t]>>
    BY <1>4 DEF Disconnect, TypeOK, ModMsg, ShutdownMsg
  <2>2. /\ Len(toMod[t]) \in Nat /\ Len(toMod'[t]) = Len(toMod[t]) + 1
        /\ \A i \in 1..Len(toMod[t]) : toMod'[t][i] = toMod[t][i]
        /\ toMod'[t][Len(toMod[t]) + 1] = ShutdownMsg
        /\ \A i \in 1..Len(toMod'[t]) : i \in 1..Len(toMod[t]) \/ i = Len(toMod[t]) + 1
    <3> HIDE DEF ShutdownMsg
    <3> QED BY <2>1, AppendAt
  <2>3. \A i \in 1..Len(toMod[t]) : toMod[t][i].type # "shutdown"
    <3>1. CASE Made(t)
      <4>1. Len(toMod[t]) = 1 /\ toMod[t][1].type = "assign"
        BY <3>1 DEF Made, AssignMsg
      <4> QED BY <4>1
    <3>2. CASE Known(t)
      <4>1. Len(<<>>) = 0
        OBVIOUS
      <4> QED BY <3>2, <4>1 DEF Known
    <3>3. CASE Open(t)
      BY <3>3 DEF Open
    <3> QED BY <2>1, <3>1, <3>2, <3>3 DEF Life, Gone
  <2>4. \A i \in 1..Len(toMod'[t]) :
          (toMod'[t][i].type = "shutdown") <=> (i = Len(toMod'[t]))
    BY <2>1, <2>2, <2>3
  <2>5. toMod'[t] # <<>>
    BY <2>1
  <2>6. \A i \in 1..Len(toMod'[t]) :
          toMod'[t][i].type = "assign" => toMod'[t][i].id < nextObjId[t]
    BY <2>1, <2>2 DEF Life, IdsBelow
  <2>7. IdsBelow(t)'
    BY <2>1, <2>6 DEF Life, IdsBelow, Live
  <2> QED BY <2>1, <2>4, <2>5, <2>7 DEF Life, Gone, Live
<1>5. ASSUME NEW b \in BOOLEAN, SetNoCallback(t, b) PROVE Life(t)'
  <2>1. object[t] \in Object
    BY <1>5 DEF SetNoCallback, Live, TypeOK
  <2>2. object'[t] = [object[t] EXCEPT !.noCallback = b]
    BY <1>5 DEF SetNoCallback, TypeOK
  <2>3. object'[t] # None /\ object'[t] \in Object
    BY <2>1, <2>2, NoneAssumption DEF Object
  <2>4. SameObject(t)
    BY <1>5, <2>1, <2>2, <2>3 DEF SameObject, SetNoCallback, Live, Object
  <2>5. toSrv'[t] = toSrv[t] \o <<>> /\ SameCallIds(t) /\ toMod'[t] = toMod[t]
        /\ serverMap'[t] = serverMap[t] /\ nextObjId'[t] = nextObjId[t]
    BY <1>e, <1>5 DEF SetNoCallback, SameCallIds
  <2> QED BY <1>e, <2>4, <2>5, LifePost
<1>6. ASSUME NEW x \in Attributes \cup Methods, NEW v \in Values,
             Remote(t, x, v), Exposed(t),
             UNCHANGED <<serverMap[t], nextObjId[t], toSrv[t]>>, SameObject(t)
      PROVE  Life(t)'
  <2> DEFINE o == object[t]
  <2> DEFINE n == Len(calls[t]) + 1
  <2> DEFINE m == CallMsg(o.id, n, ~o.noCallback, x, v)
  <2> DEFINE c == [on |-> x, id |-> o.id, cb |-> ~o.noCallback,
                   fate |-> "waiting", told |-> <<>>]
  <2>1. /\ toMod[t] \in Seq(ModMsg) /\ calls[t] \in Seq(Call) /\ n \in Nat
        /\ o \in Object /\ o.noCallback \in BOOLEAN /\ o.id \in Nat
    BY <1>6 DEF TypeOK, Exposed, Live, Object
  <2>2. /\ m \in ModMsg /\ c \in Call /\ m.type = "call" /\ c.id = o.id
    BY <2>1 DEF CallMsg, ModMsg, Call, Fates
  <2>3. toMod'[t] = Append(toMod[t], m) /\ calls'[t] = Append(calls[t], c)
    BY <1>6 DEF Remote, TypeOK
  <2> HIDE DEF m, c
  <2>4. /\ \A i \in 1..Len(toMod'[t]) :
             toMod'[t][i] = m \/ (i \in 1..Len(toMod[t]) /\ toMod'[t][i] = toMod[t][i])
        /\ \A i \in 1..Len(calls'[t]) :
             calls'[t][i] = c \/ (i \in 1..Len(calls[t]) /\ calls'[t][i] = calls[t][i])
    BY <2>1, <2>2, <2>3, AppendAt
  <2>5. Open(t)
    BY <1>6 DEF Life, Gone, Made, Known, Exposed
  <2>6. IdsBelow(t)'
    <3>1. o.id < nextObjId[t]
      BY <1>6 DEF Life, IdsBelow, Exposed
    <3>2. \A i \in 1..Len(calls'[t]) : calls'[t][i].id < nextObjId[t]
      BY <2>2, <2>4, <3>1 DEF Life, IdsBelow
    <3>3. \A i \in 1..Len(toMod'[t]) :
            toMod'[t][i].type = "assign" => toMod'[t][i].id < nextObjId[t]
      BY <2>2, <2>4 DEF Life, IdsBelow
    <3> QED BY <1>6, <3>1, <3>2, <3>3 DEF Life, IdsBelow, SameObject, Live, Exposed
  <2>7. \A i \in 1..Len(toMod'[t]) : toMod'[t][i].type = "call"
    BY <2>2, <2>4, <2>5 DEF Open
  <2>8. Open(t)'
    BY <1>6, <2>5, <2>7 DEF Open, SameObject, Exposed, Live
  <2> QED BY <2>6, <2>8 DEF Life
<1>7. ASSUME NEW a \in Attributes, NEW v \in Assigned, SetAttribute(t, a, v)
      PROVE  Life(t)'
  <2>1. v \in Nat /\ Narrow(v) \in Values
    BY CallsAssumption, Numbers
  <2>2. object[t] \in Object
    BY <1>7 DEF SetAttribute, Exposed, Live, TypeOK
  <2>3. SameObject(t)
    <3>1. CASE ~object[t].noCallback
      BY <1>7, <3>1 DEF SetAttribute, SameObject
    <3>2. CASE object[t].noCallback
      <4>1. object'[t] = [object[t] EXCEPT !.cached = [object[t].cached EXCEPT ![a] = v]]
        BY <1>7, <2>2, <3>2 DEF SetAttribute, TypeOK
      <4>2. object'[t] \in Object
        BY <2>1, <2>2, <4>1 DEF Object
      <4>3. object'[t].id = object[t].id /\ object'[t].exposed = object[t].exposed
            /\ object'[t].told = object[t].told
        BY <2>2, <4>1 DEF Object
      <4> QED BY <1>7, <4>2, <4>3, NoneAssumption DEF SetAttribute, Exposed, Live, SameObject
    <3> QED BY <3>1, <3>2
  <2>4. Remote(t, a, Narrow(v)) /\ Exposed(t)
        /\ UNCHANGED <<serverMap[t], nextObjId[t], toSrv[t]>>
    BY <1>7 DEF SetAttribute
  <2> QED BY <1>6, <2>1, <2>3, <2>4
<1>8. ASSUME NEW x \in Methods, CallMethod(t, x) PROVE Life(t)'
  <2>1. Remote(t, x, 0) /\ Exposed(t) /\ SameObject(t)
        /\ UNCHANGED <<serverMap[t], nextObjId[t], toSrv[t]>>
    BY <1>8 DEF CallMethod, SameObject
  <2> QED BY <1>6, <2>1, Numbers
<1>t. ASSUME NEW type, Took(t, type)
      PROVE  /\ toMod[t] \in Seq(ModMsg) /\ toMod'[t] = Tail(toMod[t])
             /\ toMod[t][1].type = type /\ Head(toMod[t]) = toMod[t][1]
             /\ 1 \in 1..Len(toMod[t]) /\ Len(toMod[t]) \in Nat \ {0}
             /\ Len(toMod'[t]) = Len(toMod[t]) - 1
             /\ \A i \in 1..Len(toMod'[t]) :
                  i + 1 \in 1..Len(toMod[t]) /\ toMod'[t][i] = toMod[t][i + 1]
  <2>1. /\ toMod[t] \in Seq(ModMsg) /\ toMod'[t] = Tail(toMod[t])
        /\ toMod[t] # <<>> /\ Head(toMod[t]).type = type
    BY <1>t DEF Took, TypeOK
  <2> QED BY <2>1, TailAt
<1>9. CASE HandleAssign(t)
  <2> DEFINE id == toMod[t][1].id
  <2> DEFINE m  == ExposeMsg(id, value, Now)
  <2>1. /\ Took(t, "assign") /\ serverMap'[t] = id
        /\ toSrv'[t] = Append(toSrv[t], m)
        /\ UNCHANGED <<object[t], nextObjId[t], calls[t]>>
    BY <1>9, <1>t DEF HandleAssign, TypeOK
  <2>t. /\ toMod[t] \in Seq(ModMsg) /\ toMod'[t] = Tail(toMod[t])
        /\ toMod[t][1].type = "assign" /\ 1 \in 1..Len(toMod[t])
        /\ Len(toMod[t]) \in Nat \ {0} /\ Len(toMod'[t]) = Len(toMod[t]) - 1
        /\ \A i \in 1..Len(toMod'[t]) :
             i + 1 \in 1..Len(toMod[t]) /\ toMod'[t][i] = toMod[t][i + 1]
    BY <1>t, <2>1
  <2>2. toMod[t][1].type = "assign" /\ toMod[t][1] \in ModMsg
    BY <2>t
  <2>3. id \in Nat /\ m \in SrvMsg /\ m.type = "expose" /\ m.id = id
    <3>1. id \in Nat /\ Now \in Nat /\ value \in [Attributes -> Values]
      BY <2>2, ModMsgFields DEF TypeOK, Now
    <3> QED BY <3>1, ExposeMsgType DEF ExposeMsg
  <2>4. id < nextObjId[t]
    BY <2>t, <2>1, <2>2 DEF Life, IdsBelow
  <2> HIDE DEF m
  <2>5. /\ toSrv[t] \in Seq(SrvMsg) /\ toSrv'[t] \in Seq(SrvMsg)
        /\ Len(toSrv[t]) \in Nat /\ Len(toSrv'[t]) = Len(toSrv[t]) + 1
        /\ \A i \in 1..Len(toSrv[t]) : toSrv'[t][i] = toSrv[t][i]
        /\ toSrv'[t][Len(toSrv[t]) + 1] = m
        /\ \A i \in 1..Len(toSrv'[t]) : i \in 1..Len(toSrv[t]) \/ i = Len(toSrv[t]) + 1
    <3>1. toSrv[t] \in Seq(SrvMsg)
      BY DEF TypeOK
    <3> QED BY <2>1, <2>3, <3>1, AppendAt
  <2>6. IdsBelow(t)'
    <3>1. \A i \in 1..Len(toSrv'[t]) : toSrv'[t][i].id < nextObjId[t]
      BY <2>3, <2>4, <2>5 DEF Life, IdsBelow
    <3>2. \A i \in 1..Len(toMod'[t]) :
            toMod'[t][i].type = "assign" => toMod'[t][i].id < nextObjId[t]
      BY <2>t, <2>1 DEF Life, IdsBelow
    <3> QED BY <2>1, <2>4, <3>1, <3>2 DEF Life, IdsBelow, Live
  <2>7. CASE Gone(t)
    <3>1. Len(toMod[t]) # 1
      BY <2>t, <2>1, <2>2, <2>7 DEF Gone
    <3>2. toMod'[t] # <<>>
      <4>1. Len(toMod'[t]) # 0 /\ Len(<<>>) = 0
        BY <2>t, <3>1
      <4> QED BY <4>1
    <3>3. \A i \in 1..Len(toMod'[t]) :
            (toMod'[t][i].type = "shutdown") <=> (i = Len(toMod'[t]))
      BY <2>t, <2>1, <2>7 DEF Gone
    <3> QED BY <2>1, <2>6, <2>7, <3>2, <3>3 DEF Life, Gone, Live
  <2>8. CASE Made(t)
    <3>1. id = object[t].id /\ toMod'[t] = <<>>
      BY <2>t, <2>1, <2>8 DEF Made, AssignMsg
    <3> DEFINE k == Len(toSrv[t]) + 1
    <3>2. \A i \in 1..(k - 1) : toSrv'[t][i].id # object[t].id
      BY <2>5, <2>8 DEF Made
    <3>3. ~\E i \in (k + 1)..Len(toSrv'[t]) : TRUE
      BY <2>5
    <3>4. Coming(toSrv'[t], object[t].id)
      BY <2>3, <2>5, <3>1, <3>2, <3>3, SMTT(30) DEF Coming
    <3> QED BY <2>1, <2>6, <2>8, <3>1, <3>4 DEF Life, Made, Known, Live
  <2>9. ~Known(t) /\ ~Open(t)
    <3>1. Len(<<>>) = 0
      OBVIOUS
    <3> QED BY <2>t, <2>1, <3>1 DEF Known, Open
  <2> QED BY <2>7, <2>8, <2>9 DEF Life
<1>10. CASE HandleShutdown(t)
  <2>1. /\ Took(t, "shutdown") /\ serverMap'[t] = None
        /\ UNCHANGED <<object[t], nextObjId[t], calls[t], toSrv[t]>>
    BY <1>10 DEF HandleShutdown, TypeOK
  <2>2. Gone(t)
    <3>1. Len(<<>>) = 0
      OBVIOUS
    <3>2. ~Known(t) /\ ~Open(t) /\ ~Made(t)
      BY <1>t, <2>1, <3>1 DEF Known, Open, Made, AssignMsg
    <3> QED BY <3>2 DEF Life
  <2>3. \A i \in 1..Len(toMod'[t]) :
          (toMod'[t][i].type = "shutdown") <=> (i = Len(toMod'[t]))
    BY <1>t, <2>1, <2>2 DEF Gone
  <2>4. \A i \in 1..Len(toMod'[t]) :
          toMod'[t][i].type = "assign" => toMod'[t][i].id < nextObjId[t]
    BY <1>t, <2>1 DEF Life, IdsBelow
  <2>5. IdsBelow(t)'
    BY <2>1, <2>4 DEF Life, IdsBelow, Live
  <2> QED BY <2>1, <2>2, <2>3, <2>5 DEF Life, Gone, Live
<1>11. CASE HandleSet(t)
  <2> DEFINE m == Head(toMod[t])
  <2>1. PICK v \in Values, a \in Attributes :
          a = m.on /\ Grew(a, v) /\ toSrv'[t] = toSrv[t] \o News(t, a, v)
    BY <1>11, SetAt
  <2>2. /\ toMod[t] # <<>> /\ toMod'[t] = Tail(toMod[t]) /\ m.type = "call"
        /\ UNCHANGED <<serverMap[t], object[t], nextObjId[t]>>
        /\ calls'[t] = [calls[t] EXCEPT ![m.n].fate = "returned"]
    BY <1>11, SetAt
  <2>3. SameObject(t) /\ SameCallIds(t)
    <3>1. calls[t] \in Seq(Call)
      BY DEF TypeOK
    <3>2. \A n \in 1..Len(calls[t]) : calls[t][n] \in Call
      BY <3>1
    <3>3. SameCallIds(t)
      BY <2>2, <3>1, <3>2 DEF SameCallIds, Call
    <3> QED BY <2>2, <3>3 DEF SameObject
  <2>4. Posted(t, News(t, a, v))
    BY NewsPosted
  <2> QED BY <2>1, <2>2, <2>3, <2>4, LifePost
<1>12. ASSUME NEW fate \in {"returned", "threw"}, HandleMethod(t, fate)
       PROVE  Life(t)'
  <2> DEFINE m == Head(toMod[t])
  <2>2. /\ toMod[t] # <<>> /\ toMod'[t] = Tail(toMod[t]) /\ m.type = "call"
        /\ UNCHANGED <<serverMap[t], object[t], nextObjId[t]>>
        /\ calls'[t] = [calls[t] EXCEPT ![m.n].fate = fate]
        /\ serverMap[t] # None /\ m.id = serverMap[t]
    BY <1>12, MethodAt
  <2>3. SameObject(t) /\ SameCallIds(t)
    <3>1. calls[t] \in Seq(Call)
      BY DEF TypeOK
    <3>2. \A n \in 1..Len(calls[t]) : calls[t][n] \in Call
      BY <3>1
    <3>3. SameCallIds(t)
      BY <2>2, <3>1, <3>2 DEF SameCallIds, Call
    <3> QED BY <2>2, <3>3 DEF SameObject
  <2>4. ASSUME NEW at \in {Now, Now + 1} PROVE Posted(t, Answers(m, fate, at))
    <3>1. Answers(m, fate, at)
            \in Seq({r \in SrvMsg : r.type = "answer" /\ r.at = at /\ r.id = m.id})
      BY <1>12, MethodAt
    <3>2. Answers(m, fate, at)
            \in Seq({r \in SrvMsg : r.type = "answer" /\ r.at = at
                                    /\ r.id = serverMap[t]})
      BY <2>2, <3>1
    <3> HIDE DEF m
    <3> QED BY <2>2, <3>2, AnswersPosted
  <2>5. \E r : Posted(t, r) /\ toSrv'[t] = toSrv[t] \o r
    <3>1. CASE toSrv'[t] = toSrv[t] \o Answers(m, fate, Now)
      BY <2>4, <3>1
    <3>2. ASSUME NEW a \in Attributes, NEW v \in Values,
                 toSrv'[t] = (toSrv[t] \o News(t, a, v)) \o Answers(m, fate, Now + 1)
          PROVE  \E r : Posted(t, r) /\ toSrv'[t] = toSrv[t] \o r
      <4> DEFINE q == News(t, a, v)
      <4> DEFINE r == Answers(m, fate, Now + 1)
      <4>1. Posted(t, q) /\ Posted(t, r)
        BY <2>4, NewsPosted
      <4>2. toSrv'[t] = (toSrv[t] \o q) \o r
        BY <3>2
      <4> HIDE DEF q, r
      <4>3. Posted(t, q \o r)
        BY <4>1, PostedConcat
      <4>4. q \in Seq(SrvMsg) /\ r \in Seq(SrvMsg) /\ toSrv[t] \in Seq(SrvMsg)
        BY <4>1 DEF Posted, TypeOK
      <4>5. (toSrv[t] \o q) \o r = toSrv[t] \o (q \o r)
        <5>1. \A x, y, z \in Seq(SrvMsg) : (x \o y) \o z = x \o (y \o z)
          BY ConcatAssociative
        <5> QED BY <4>4, <5>1
      <4> QED BY <4>2, <4>3, <4>5
    <3>3. \/ toSrv'[t] = toSrv[t] \o Answers(m, fate, Now)
          \/ \E a \in Attributes, v \in Values :
               toSrv'[t] = (toSrv[t] \o News(t, a, v)) \o Answers(m, fate, Now + 1)
      <4>1. \/ /\ UNCHANGED <<value, history>>
               /\ toSrv'[t] = toSrv[t] \o Answers(m, fate, Now)
            \/ \E a \in Attributes, v \in Values :
                 /\ Grew(a, v)
                 /\ toSrv'[t] = (toSrv[t] \o News(t, a, v))
                                \o Answers(m, fate, Now + 1)
        BY <1>12, MethodAt
      <4> QED BY <4>1
    <3> QED BY <3>1, <3>2, <3>3
  <2> QED BY <2>2, <2>3, <2>5, LifePost
<1>r. ASSUME NEW type, Read(t, type), object'[t] = object[t] /\ calls'[t] = calls[t]
      PROVE  /\ toSrv[t] # <<>> /\ toSrv'[t] = Tail(toSrv[t])
             /\ toMod'[t] = toMod[t] /\ serverMap'[t] = serverMap[t]
             /\ nextObjId'[t] = nextObjId[t]
             /\ Head(toSrv[t]).type = type
  BY <1>r DEF Read, TypeOK
<1>13. CASE HandleStale(t)
  <2>1. PICK type : Read(t, type)
    BY <1>13 DEF HandleStale
  <2>2. object'[t] = object[t] /\ calls'[t] = calls[t] /\ ~Mine(t, Head(toSrv[t]))
    BY <1>13 DEF HandleStale
  <2>3. SameCallIds(t)
    BY <2>2 DEF SameCallIds
  <2> QED BY <1>r, <2>1, <2>2, <2>3, LifeRead
<1>14. CASE HandleExpose(t)
  BY <1>14, LifeExpose
<1>15. CASE HandleUpdate(t)
  <2> DEFINE m == Head(toSrv[t])
  <2>1. /\ Mine(t, m) /\ m.type = "update" /\ m \in SrvMsg /\ object[t] \in Object
        /\ object'[t] = [object[t] EXCEPT !.cached[m.attr] = m.value, !.told = @ + 1]
    BY <1>15, ReadType DEF HandleUpdate, Mine, Live, TypeOK
  <2>2. object'[t] # None
    <3>1. object'[t] \in Object \cup {None}
      BY TypeInvariance DEF TypeOK
    <3>2. m.attr \in Attributes /\ m.value \in Nat
      BY <2>1, SrvMsgFields, Numbers
    <3> DEFINE c == [object[t].cached EXCEPT ![m.attr] = m.value]
    <3>3. c \in [Attributes -> Nat] /\ object[t].told + 1 \in Nat
      BY <2>1, <3>2 DEF Object
    <3>4. object'[t] = [object[t] EXCEPT !.cached = c, !.told = object[t].told + 1]
      BY <2>1 DEF Object
    <3> HIDE DEF c
    <3>5. object'[t] \in Object
      BY <2>1, <3>3, <3>4 DEF Object
    <3> QED BY <3>5, NoneAssumption
  <2>3. object'[t].id = object[t].id /\ object'[t].exposed = object[t].exposed
    BY <2>1 DEF Object
  <2>4. SameCallIds(t) /\ toSrv[t] # <<>> /\ toSrv'[t] = Tail(toSrv[t])
        /\ toMod'[t] = toMod[t] /\ serverMap'[t] = serverMap[t]
        /\ nextObjId'[t] = nextObjId[t]
    BY <1>15 DEF HandleUpdate, Read, SameCallIds, TypeOK
  <2> HIDE DEF m
  <2> QED BY <2>1, <2>2, <2>3, <2>4, LifeRead DEF m
<1>16. CASE HandleAnswer(t)
  <2> DEFINE m == Head(toSrv[t])
  <2>1. /\ Mine(t, m) /\ m.type = "answer" /\ object'[t] = object[t]
        /\ object'[t] # None
    BY <1>16, ReadType DEF HandleAnswer, Mine, Live
  <2>2. SameCallIds(t)
    <3>1. /\ calls[t] \in Seq(Call)
          /\ calls'[t] = [calls[t] EXCEPT ![m.n].told = Append(@, m.err)]
      BY <1>16 DEF HandleAnswer, TypeOK
    <3>2. \A n \in 1..Len(calls[t]) : calls[t][n] \in Call
      <4>1. calls[t] \in Seq(Call)
        BY <3>1
      <4> HIDE DEF m
      <4> QED BY <4>1
    <3> HIDE DEF m
    <3> QED BY <3>1, <3>2 DEF SameCallIds, Call
  <2>3. toSrv[t] # <<>> /\ toSrv'[t] = Tail(toSrv[t])
        /\ toMod'[t] = toMod[t] /\ serverMap'[t] = serverMap[t]
        /\ nextObjId'[t] = nextObjId[t]
    BY <1>16 DEF HandleAnswer, Read, TypeOK
  <2> QED BY <2>1, <2>2, <2>3, LifeRead
<1> QED
  BY <1>1, <1>2, <1>3, <1>4, <1>5, <1>7, <1>8, <1>9, <1>10, <1>11, <1>12, <1>13,
     <1>14, <1>15, <1>16, Steps DEF Own, Script, ModStep, SrvStep

-----------------------------------------------------------------------------
(* What is on its way to a server.                                         *)

LEMMA OrderlyAppend ==
    ASSUME NEW V, NEW hist \in Seq(V), NEW S, NEW q \in Seq(S), NEW h, NEW m,
           m \in S, Orderly(hist, h, q), Follows(hist, LastAt(h, q), m)
    PROVE  /\ Orderly(hist, h, Append(q, m))
           /\ LastAt(h, Append(q, m)) = m.at
<1> DEFINE r == Append(q, m)
<1>1. /\ r \in Seq(S) /\ Len(r) = Len(q) + 1 /\ Len(q) \in Nat
      /\ \A i \in 1..Len(q) : r[i] = q[i]
      /\ r[Len(q) + 1] = m
  OBVIOUS
<1>2. \A i \in 1..(Len(q) + 1) : Before(h, r, i) = Before(h, q, i)
  BY <1>1 DEF Before
<1>3. \A i \in 1..Len(r) : Follows(hist, Before(h, r, i), r[i])
  <2> SUFFICES ASSUME NEW i \in 1..Len(r)
               PROVE  Follows(hist, Before(h, r, i), r[i])
    OBVIOUS
  <2>1. CASE i \in 1..Len(q)
    <3>1. r[i] = q[i] /\ Before(h, r, i) = Before(h, q, i)
      BY <1>1, <1>2, <2>1
    <3>2. Follows(hist, Before(h, q, i), q[i])
      BY <2>1 DEF Orderly
    <3> QED BY <3>1, <3>2
  <2>2. CASE i = Len(q) + 1
    <3>1. r[i] = m /\ Before(h, r, i) = LastAt(h, q)
      BY <1>1, <1>2, <2>2 DEF LastAt
    <3> QED BY <3>1
  <2> QED BY <1>1, <2>1, <2>2
<1>4. LastAt(h, r) = m.at
  BY <1>1 DEF LastAt, Before
<1> QED BY <1>3, <1>4 DEF Orderly

LEMMA OrderlyTail ==
    ASSUME NEW V, NEW hist \in Seq(V), NEW S, NEW q \in Seq(S), NEW h,
           q # <<>>, Orderly(hist, h, q)
    PROVE  /\ Follows(hist, h, Head(q))
           /\ Orderly(hist, Head(q).at, Tail(q))
           /\ LastAt(Head(q).at, Tail(q)) = LastAt(h, q)
<1> DEFINE r == Tail(q)
<1> DEFINE g == Head(q).at
<1>1. /\ r \in Seq(S) /\ Len(r) = Len(q) - 1 /\ Len(q) \in Nat \ {0}
      /\ \A i \in 1..Len(r) : r[i] = q[i + 1]
      /\ Head(q) = q[1]
  OBVIOUS
<1>2. \A i \in 1..(Len(r) + 1) : Before(g, r, i) = Before(h, q, i + 1)
  BY <1>1 DEF Before
<1>3. Follows(hist, h, Head(q))
  <2>1. Follows(hist, Before(h, q, 1), q[1]) /\ Before(h, q, 1) = h
    BY <1>1 DEF Orderly, Before
  <2> QED BY <2>1, <1>1
<1>4. g \in 1..Len(hist)
  BY <1>3 DEF Follows
<1>5. \A i \in 1..Len(r) : Follows(hist, Before(g, r, i), r[i])
  <2> SUFFICES ASSUME NEW i \in 1..Len(r)
               PROVE  Follows(hist, Before(g, r, i), r[i])
    OBVIOUS
  <2>1. Before(g, r, i) = Before(h, q, i + 1) /\ r[i] = q[i + 1]
    BY <1>1, <1>2
  <2>2. i + 1 \in 1..Len(q)
    BY <1>1
  <2>3. Follows(hist, Before(h, q, i + 1), q[i + 1])
    BY <2>2 DEF Orderly
  <2> QED BY <2>1, <2>3
<1>6. LastAt(g, r) = LastAt(h, q)
  BY <1>1, <1>2 DEF LastAt
<1> QED BY <1>3, <1>4, <1>5, <1>6 DEF Orderly

\* A change of the attributes leaves what was sent before as it is.
LEMMA OrderlyGrows ==
    ASSUME NEW V, NEW hist \in Seq(V), NEW v \in V, NEW q, NEW h,
           Len(q) \in Nat, Orderly(hist, h, q)
    PROVE  /\ Orderly(Append(hist, v), h, q)
           /\ LastAt(h, q) \in 1..Len(hist)
<1> DEFINE new == Append(hist, v)
<1>1. /\ Len(new) = Len(hist) + 1 /\ Len(hist) \in Nat
      /\ \A i \in 1..Len(hist) : new[i] = hist[i]
  OBVIOUS
<1>2. \A i \in 1..(Len(q) + 1) : Before(h, q, i) \in 1..Len(hist)
  <2>1. h \in 1..Len(hist) /\ \A i \in 1..Len(q) : q[i].at \in 1..Len(hist)
    BY DEF Orderly, Follows
  <2>2. \A i \in 1..(Len(q) + 1) : i = 1 \/ i - 1 \in 1..Len(q)
    OBVIOUS
  <2> QED BY <2>1, <2>2 DEF Before
<1>3. \A i \in 1..Len(q) : Follows(new, Before(h, q, i), q[i])
  <2> SUFFICES ASSUME NEW i \in 1..Len(q)
               PROVE  Follows(new, Before(h, q, i), q[i])
    OBVIOUS
  <2>1. Follows(hist, Before(h, q, i), q[i]) /\ Before(h, q, i) \in 1..Len(hist)
    BY <1>2 DEF Orderly
  <2> QED BY <1>1, <2>1 DEF Follows
<1>4. h \in 1..Len(new)
  BY <1>1 DEF Orderly
<1> QED BY <1>1, <1>2, <1>3, <1>4 DEF Orderly, LastAt
LEMMA OrderlyAnswers ==
    ASSUME NEW V, NEW hist \in Seq(V), NEW S, NEW q \in Seq(S), NEW r \in Seq(S),
           NEW h, Orderly(hist, h, q),
           \A i \in 1..Len(r) : r[i].type = "answer" /\ r[i].at = LastAt(h, q)
    PROVE  /\ Orderly(hist, h, q \o r)
           /\ LastAt(h, q \o r) = LastAt(h, q)
<1> DEFINE u == q \o r
<1>1. /\ u \in Seq(S) /\ Len(u) = Len(q) + Len(r)
      /\ Len(q) \in Nat /\ Len(r) \in Nat
      /\ \A i \in 1..Len(q) : u[i] = q[i]
      /\ \A i \in 1..Len(r) : u[Len(q) + i] = r[i]
  BY ConcatProperties
<1> HIDE DEF u
<1>2. LastAt(h, q) \in 1..Len(hist)
  <2>1. h \in 1..Len(hist) /\ \A i \in 1..Len(q) : q[i].at \in 1..Len(hist)
    BY DEF Orderly, Follows
  <2> QED BY <1>1, <2>1 DEF LastAt, Before
<1>3. \A i \in 1..(Len(q) + 1) : Before(h, u, i) = Before(h, q, i)
  BY <1>1 DEF Before
<1>4. \A i \in (Len(q) + 1)..(Len(u) + 1) : Before(h, u, i) = LastAt(h, q)
  <2> SUFFICES ASSUME NEW i \in (Len(q) + 1)..(Len(u) + 1)
               PROVE  Before(h, u, i) = LastAt(h, q)
    OBVIOUS
  <2>1. CASE i = Len(q) + 1
    BY <1>1, <1>3, <2>1 DEF LastAt
  <2>2. CASE i > Len(q) + 1
    <3>1. i - 1 - Len(q) \in 1..Len(r) /\ i # 1
          /\ i - 1 = Len(q) + (i - 1 - Len(q))
      BY <1>1, <2>2
    <3>2. u[i - 1] = r[i - 1 - Len(q)]
      BY <1>1, <3>1
    <3> QED BY <3>1, <3>2 DEF Before
  <2> QED BY <1>1, <2>1, <2>2
<1>5. \A i \in 1..Len(u) : Follows(hist, Before(h, u, i), u[i])
  <2> SUFFICES ASSUME NEW i \in 1..Len(u)
               PROVE  Follows(hist, Before(h, u, i), u[i])
    OBVIOUS
  <2>1. CASE i \in 1..Len(q)
    <3>1. Follows(hist, Before(h, q, i), q[i])
      BY <2>1 DEF Orderly
    <3> QED BY <1>1, <1>3, <2>1, <3>1
  <2>2. CASE i > Len(q)
    <3>1. /\ i - Len(q) \in 1..Len(r) /\ i = Len(q) + (i - Len(q))
          /\ i \in (Len(q) + 1)..(Len(u) + 1)
      BY <1>1, <2>2
    <3>2. u[i] = r[i - Len(q)] /\ Before(h, u, i) = LastAt(h, q)
      BY <1>1, <1>4, <3>1
    <3>3. u[i].type = "answer" /\ u[i].at = LastAt(h, q)
      BY <3>1, <3>2
    <3> QED BY <1>2, <3>2, <3>3 DEF Follows
  <2> QED BY <1>1, <2>1, <2>2
<1>6. Orderly(hist, h, u)
  BY <1>5 DEF Orderly
<1>7. LastAt(h, u) = LastAt(h, q)
  BY <1>1, <1>4 DEF LastAt
<1> QED BY <1>6, <1>7 DEF u

\* The values change one attribute at a time, or not at all.
LEMMA HistorySteps ==
    ASSUME TypeOK, [Next]_vars
    PROVE  \/ UNCHANGED <<value, history>>
           \/ \E a \in Attributes, v \in Values : Grew(a, v)
<1> USE DEF program, server
<1>1. ASSUME NEW s \in Servers, Script(s) PROVE UNCHANGED <<value, history>>
  BY <1>1 DEF Script, Register, Disconnect, SetNoCallback, SetAttribute, CallMethod
<1>2. ASSUME NEW s \in Servers, SrvStep(s) PROVE UNCHANGED <<value, history>>
  BY <1>2 DEF SrvStep, HandleStale, HandleExpose, HandleUpdate, HandleAnswer, Read
<1>3. ASSUME NEW s \in Servers, ModStep(s)
      PROVE  \/ UNCHANGED <<value, history>>
             \/ \E a \in Attributes, v \in Values : Grew(a, v)
  <2>1. CASE HandleAssign(s) \/ HandleShutdown(s)
    BY <2>1 DEF HandleAssign, HandleShutdown
  <2>2. CASE HandleSet(s)
    <3>1. \E v \in Values, a \in Attributes : Grew(a, v)
      BY <2>2, SetAt
    <3> QED BY <3>1
  <2>3. ASSUME NEW fate \in {"returned", "threw"}, HandleMethod(s, fate)
        PROVE  \/ UNCHANGED <<value, history>>
               \/ \E a \in Attributes, v \in Values : Grew(a, v)
    BY <2>3, MethodAt
  <2> QED BY <1>3, <2>1, <2>2, <2>3 DEF ModStep
<1>4. ASSUME NEW a \in Attributes, NEW v \in Values, Change(a, v)
      PROVE  Grew(a, v)
  BY <1>4 DEF Change, Report, Grew
<1>5. CASE UNCHANGED vars
  BY <1>5 DEF vars
<1> QED BY <1>1, <1>2, <1>3, <1>4, <1>5 DEF Next

LEMMA HistoryGrows ==
    ASSUME TypeOK, Current, NEW a \in Attributes, NEW v \in Values, Grew(a, v)
    PROVE  /\ Current'
           /\ Len(history) \in Nat \ {0} /\ Len(history') = Len(history) + 1
           /\ \A n \in 1..Len(history) : history'[n] = history[n]
           /\ history'[Len(history) + 1] = [history[Len(history)] EXCEPT ![a] = v]
           /\ history' = Append(history, value')
           /\ value' \in [Attributes -> Values]
           /\ history \in Seq([Attributes -> Values])
           /\ history' \in Seq([Attributes -> Values])
<1> DEFINE V == [Attributes -> Values]
<1>1. /\ value \in V /\ history \in Seq(V) /\ history # <<>>
      /\ value = history[Len(history)] /\ value' = [value EXCEPT ![a] = v]
      /\ history' = Append(history, value')
  BY DEF TypeOK, Current, Grew
<1>2. value' \in V
  BY <1>1
<1> HIDE DEF V
<1>3. /\ history' \in Seq(V) /\ Len(history) \in Nat \ {0}
      /\ Len(history') = Len(history) + 1
      /\ \A n \in 1..Len(history) : history'[n] = history[n]
      /\ history'[Len(history) + 1] = value'
  BY <1>1, <1>2, AppendAt
<1>4. Current'
  <2>1. Len(history') # 0 /\ Len(<<>>) = 0
    BY <1>3
  <2> QED BY <1>3, <2>1 DEF Current
<1> QED BY <1>1, <1>2, <1>3, <1>4 DEF V

LEMMA CurrentStep ==
    ASSUME TypeOK, Current, [Next]_vars
    PROVE  Current'
<1>1. CASE UNCHANGED <<value, history>>
  BY <1>1 DEF Current
<1>2. ASSUME NEW a \in Attributes, NEW v \in Values, Grew(a, v) PROVE Current'
  BY <1>2, HistoryGrows
<1> QED BY <1>1, <1>2, HistorySteps

\* A change is told to the servers the program knows.
LEMMA NewsInOrder ==
    ASSUME TypeOK, Current, NEW t \in Servers, InOrder(t),
           NEW a \in Attributes, NEW v \in Values, Grew(a, v)
    PROVE  LET q == toSrv[t] \o News(t, a, v)
           IN  /\ q \in Seq(SrvMsg)
               /\ Orderly(history', heard[t], q)
               /\ serverMap[t] # None => LastAt(heard[t], q) = Len(history')
               /\ serverMap[t] # None => \E i \in 1..Len(q) :
                    q[i].type = "update" /\ q[i].attr = a
<1> DEFINE q  == toSrv[t] \o News(t, a, v)
<1> DEFINE at == Len(history) + 1
<1> DEFINE m  == UpdateMsg(serverMap[t], a, v, at)
<1>1. /\ Len(history') = at /\ Len(history) \in Nat \ {0}
      /\ \A n \in 1..Len(history) : history'[n] = history[n]
      /\ history'[at] = [history[Len(history)] EXCEPT ![a] = v]
      /\ history' = Append(history, value') /\ value' \in [Attributes -> Values]
      /\ history \in Seq([Attributes -> Values])
      /\ history' \in Seq([Attributes -> Values])
  BY HistoryGrows
<1>2. /\ toSrv[t] \in Seq(SrvMsg) /\ Orderly(history, heard[t], toSrv[t])
      /\ serverMap[t] # None =>
           LastAt(heard[t], toSrv[t]) = Len(history) /\ serverMap[t] \in Nat
  BY DEF TypeOK, InOrder
<1>3. Orderly(history', heard[t], toSrv[t])
  <2>1. Len(toSrv[t]) \in Nat
    BY <1>2
  <2> QED BY <1>1, <1>2, <2>1, OrderlyGrows
<1>4. CASE serverMap[t] = None
  <2>1. q = toSrv[t]
    BY <1>2, <1>4, ConcatEmptySeq DEF News
  <2> QED BY <1>2, <1>3, <1>4, <2>1
<1>5. CASE serverMap[t] # None
  <2>1. m \in SrvMsg /\ m.type = "update" /\ m.attr = a /\ m.at = at
    <3>1. m \in SrvMsg
      BY <1>1, <1>2, <1>5, UpdateMsgType
    <3> QED BY <3>1 DEF UpdateMsg
  <2>2. Follows(history', LastAt(heard[t], toSrv[t]), m)
    BY <1>1, <1>2, <1>5 DEF Follows, UpdateMsg
  <2>3. News(t, a, v) = <<m>>
    BY <1>5 DEF News, Now
  <2> HIDE DEF m
  <2>4. q = Append(toSrv[t], m) /\ q \in Seq(SrvMsg)
    BY <1>2, <2>1, <2>3, AppendAt
  <2>5. Orderly(history', heard[t], q) /\ LastAt(heard[t], q) = at
    <3>1. /\ Orderly(history', heard[t], Append(toSrv[t], m))
          /\ LastAt(heard[t], Append(toSrv[t], m)) = m.at
      <4>1. PICK hist \in Seq([Attributes -> Values]), h \in {heard[t]} :
                hist = history' /\ h = heard[t]
        BY <1>1
      <4>2. PICK s \in Seq(SrvMsg), x \in SrvMsg : s = toSrv[t] /\ x = m
        BY <1>2, <2>1
      <4>3. Orderly(hist, h, s)
        BY <1>3, <4>1, <4>2
      <4>4. Follows(hist, LastAt(h, s), x)
        BY <2>2, <4>1, <4>2
      <4>5. Orderly(hist, h, Append(s, x)) /\ LastAt(h, Append(s, x)) = x.at
        BY <4>3, <4>4, OrderlyAppend
      <4> QED BY <4>1, <4>2, <4>5
    <3> HIDE DEF q
    <3> QED BY <2>1, <2>4, <3>1
  <2>6. Len(toSrv[t]) + 1 \in 1..Len(q) /\ q[Len(toSrv[t]) + 1] = m
    BY <1>2, <2>1, <2>4, AppendAt
  <2> QED BY <1>1, <2>1, <2>4, <2>5, <2>6
<1> QED BY <1>4, <1>5

\* Reading takes the server on to the state of the message.
LEMMA ReadInOrder ==
    ASSUME TypeOK, NEW t \in Servers, InOrder(t), NEW type, Read(t, type)
    PROVE  /\ InOrder(t)'
           /\ Head(toSrv[t]) \in SrvMsg /\ Head(toSrv[t]).type = type
           /\ heard'[t] = Head(toSrv[t]).at
           /\ Follows(history, heard[t], Head(toSrv[t]))
           /\ heard[t] \in 1..Len(history)
           /\ UNCHANGED <<history, value, serverMap[t], toMod[t]>>
           /\ toSrv[t] # <<>> /\ toSrv'[t] = Tail(toSrv[t])
<1>1. /\ toSrv[t] \in Seq(SrvMsg) /\ toSrv[t] # <<>>
      /\ toSrv'[t] = Tail(toSrv[t]) /\ heard'[t] = Head(toSrv[t]).at
      /\ Head(toSrv[t]) \in SrvMsg /\ Head(toSrv[t]).type = type
      /\ UNCHANGED <<history, value, serverMap[t], toMod[t]>>
  BY ReadType DEF Read, TypeOK, program
<1>2. /\ Orderly(history, heard[t], toSrv[t])
      /\ serverMap[t] # None => LastAt(heard[t], toSrv[t]) = Len(history)
      /\ history \in Seq([Attributes -> Values])
  BY DEF InOrder, TypeOK
<1>3. /\ Follows(history, heard[t], Head(toSrv[t]))
      /\ Orderly(history, Head(toSrv[t]).at, Tail(toSrv[t]))
      /\ LastAt(Head(toSrv[t]).at, Tail(toSrv[t])) = LastAt(heard[t], toSrv[t])
  BY <1>1, <1>2, OrderlyTail
<1>4. InOrder(t)'
  BY <1>1, <1>2, <1>3 DEF InOrder
<1> QED BY <1>1, <1>2, <1>3, <1>4 DEF Orderly

LEMMA InOrderStep ==
    ASSUME TypeOK, Current, [Next]_vars, NEW t \in Servers, InOrder(t)
    PROVE  InOrder(t)'
<1> USE DEF program, server
<1>1. CASE Idle(t)
  BY <1>1 DEF Idle, At, InOrder
<1>2. ASSUME NEW a \in Attributes, NEW v \in Values, Informed(t, a, v)
      PROVE  InOrder(t)'
  <2>1. Grew(a, v) /\ toSrv'[t] = toSrv[t] \o News(t, a, v)
        /\ heard'[t] = heard[t] /\ serverMap'[t] = serverMap[t]
    BY <1>2 DEF Informed, At
  <2> QED BY <2>1, NewsInOrder DEF InOrder
<1>3. CASE Script(t)
  BY <1>3 DEF Script, Register, Disconnect, SetNoCallback, SetAttribute,
     CallMethod, InOrder
<1>4. CASE HandleAssign(t)
  <2> DEFINE m == ExposeMsg(Head(toMod[t]).id, value, Now)
  <2>1. /\ toSrv'[t] = Append(toSrv[t], m) /\ UNCHANGED <<history, heard[t]>>
        /\ Head(toMod[t]).id \in Nat
    BY <1>4, TookType, ModMsgFields DEF HandleAssign, TypeOK
  <2>2. /\ toSrv[t] \in Seq(SrvMsg) /\ Orderly(history, heard[t], toSrv[t])
        /\ history \in Seq([Attributes -> Values]) /\ Len(history) \in Nat \ {0}
        /\ value \in [Attributes -> Values] /\ value = history[Len(history)]
    BY DEF TypeOK, InOrder, Current
  <2>3. m \in SrvMsg /\ m.at = Len(history)
    BY <2>1, <2>2, ExposeMsgType DEF Now, ExposeMsg
  <2>4. Follows(history, LastAt(heard[t], toSrv[t]), m)
    <3>1. LastAt(heard[t], toSrv[t]) \in 1..Len(history)
      <4>1. Len(toSrv[t]) \in Nat
        BY <2>2
      <4> QED BY <2>2, <4>1, OrderlyGrows
    <3> QED BY <2>2, <3>1 DEF Follows, ExposeMsg, Now
  <2> HIDE DEF m
  <2>5. /\ Orderly(history, heard[t], Append(toSrv[t], m))
        /\ LastAt(heard[t], Append(toSrv[t], m)) = m.at
    BY <2>2, <2>3, <2>4, OrderlyAppend
  <2> QED BY <2>1, <2>3, <2>5 DEF InOrder
<1>5. CASE HandleShutdown(t)
  BY <1>5 DEF HandleShutdown, InOrder, TypeOK
<1>6. CASE HandleSet(t)
  <2>1. PICK v \in Values, a \in Attributes :
          Grew(a, v) /\ toSrv'[t] = toSrv[t] \o News(t, a, v)
    BY <1>6, SetAt
  <2>2. heard'[t] = heard[t] /\ serverMap'[t] = serverMap[t]
    BY <1>6, SetAt
  <2> QED BY <2>1, <2>2, NewsInOrder DEF InOrder
<1>7. ASSUME NEW fate \in {"returned", "threw"}, HandleMethod(t, fate)
      PROVE  InOrder(t)'
  <2> DEFINE m == Head(toMod[t])
  <2>1. heard'[t] = heard[t] /\ serverMap'[t] = serverMap[t] /\ serverMap[t] # None
    BY <1>7, MethodAt
  <2>2. ASSUME NEW at \in {Now, Now + 1}
        PROVE  /\ Answers(m, fate, at) \in Seq(SrvMsg)
               /\ \A i \in 1..Len(Answers(m, fate, at)) :
                    /\ Answers(m, fate, at)[i].type = "answer"
                    /\ Answers(m, fate, at)[i].at = at
    <3> DEFINE R == {x \in SrvMsg : x.type = "answer" /\ x.at = at /\ x.id = m.id}
    <3>1. Answers(m, fate, at) \in Seq(R)
      BY <1>7, MethodAt
    <3>2. R \subseteq SrvMsg
      OBVIOUS
    <3>3. \A i \in 1..Len(Answers(m, fate, at)) : Answers(m, fate, at)[i] \in R
      BY <3>1
    <3> QED BY <3>1, <3>2, <3>3, SeqMonotonic
  <2>3. CASE /\ UNCHANGED <<value, history>>
             /\ toSrv'[t] = toSrv[t] \o Answers(m, fate, Now)
    <3> DEFINE r == Answers(m, fate, Now)
    <3>1. /\ r \in Seq(SrvMsg) /\ toSrv[t] \in Seq(SrvMsg)
          /\ history \in Seq([Attributes -> Values])
          /\ Orderly(history, heard[t], toSrv[t])
          /\ LastAt(heard[t], toSrv[t]) = Len(history)
          /\ \A i \in 1..Len(r) : r[i].type = "answer"
                                  /\ r[i].at = LastAt(heard[t], toSrv[t])
      BY <2>1, <2>2 DEF TypeOK, InOrder, Now
    <3>2. toSrv'[t] = toSrv[t] \o r
      BY <2>3
    <3> HIDE DEF r
    <3>3. Orderly(history, heard[t], toSrv[t] \o r)
          /\ LastAt(heard[t], toSrv[t] \o r) = Len(history)
      BY <3>1, OrderlyAnswers
    <3> QED BY <2>1, <2>3, <3>2, <3>3 DEF InOrder
  <2>4. ASSUME NEW a \in Attributes, NEW v \in Values, Grew(a, v),
               toSrv'[t] = (toSrv[t] \o News(t, a, v)) \o Answers(m, fate, Now + 1)
        PROVE  InOrder(t)'
    <3> DEFINE r == Answers(m, fate, Now + 1)
    <3> DEFINE q == toSrv[t] \o News(t, a, v)
    <3>1. /\ q \in Seq(SrvMsg) /\ Orderly(history', heard[t], q)
          /\ LastAt(heard[t], q) = Len(history')
      BY <2>1, <2>4, NewsInOrder
    <3>2. /\ r \in Seq(SrvMsg) /\ history' \in Seq([Attributes -> Values])
          /\ \A i \in 1..Len(r) : r[i].type = "answer"
                                  /\ r[i].at = LastAt(heard[t], q)
      BY <2>2, <2>4, <3>1, HistoryGrows DEF Now
    <3>3. toSrv'[t] = q \o r
      BY <2>4
    <3> HIDE DEF q, r
    <3>4. Orderly(history', heard[t], q \o r)
          /\ LastAt(heard[t], q \o r) = Len(history')
      BY <3>1, <3>2, OrderlyAnswers
    <3> QED BY <2>1, <3>3, <3>4 DEF InOrder
  <2>5. \/ /\ UNCHANGED <<value, history>>
           /\ toSrv'[t] = toSrv[t] \o Answers(m, fate, Now)
        \/ \E a \in Attributes, v \in Values :
             /\ Grew(a, v)
             /\ toSrv'[t] = (toSrv[t] \o News(t, a, v)) \o Answers(m, fate, Now + 1)
    BY <1>7, MethodAt
  <2> QED BY <2>3, <2>4, <2>5
<1>8. CASE SrvStep(t)
  <2>1. PICK type : Read(t, type)
    BY <1>8 DEF SrvStep, HandleStale, HandleExpose, HandleUpdate, HandleAnswer
  <2> QED BY <2>1, ReadInOrder
<1> QED
  BY <1>1, <1>2, <1>3, <1>4, <1>5, <1>6, <1>7, <1>8, Steps DEF Own, ModStep

-----------------------------------------------------------------------------
(* What the scripts have seen.                                             *)

Seen(s) == IF Exposed(s) THEN object[s].since + object[s].told ELSE None

\* Nothing, or the server sees the program, or one change more, or no more.
SeenStep(s) ==
    \/ Seen(s)' = Seen(s)
    \/ /\ UNCHANGED history
       /\ \/ Seen(s) = None /\ Seen(s)' \in 0..Len(history)
          \/ Seen(s) # None /\ Seen(s) < Len(history) /\ Seen(s)' = Seen(s) + 1
          \/ Seen(s) # None /\ Seen(s)' = None

\* The parts of an object that seeing depends on.
SameSight(t) ==
    /\ object'[t] # None /\ object'[t].exposed = object[t].exposed
    /\ object'[t].since = object[t].since /\ object'[t].told = object[t].told

LEMMA SightKept ==
    ASSUME NEW t \in Servers, Told(t), UNCHANGED heard[t],
           object'[t] = object[t] \/ (Live(t) /\ SameSight(t))
    PROVE  Told(t)' /\ Seen(t)' = Seen(t)
<1>1. /\ Exposed(t)' <=> Exposed(t)
      /\ Exposed(t) => object'[t].since = object[t].since
                       /\ object'[t].told = object[t].told
  BY DEF SameSight, Exposed, Live
<1> QED BY <1>1 DEF Told, Seen

LEMMA SetObject ==
    ASSUME TypeOK, NEW t \in Servers, NEW a \in Attributes, NEW v \in Assigned,
           SetAttribute(t, a, v), object[t].noCallback
    PROVE  /\ SameSight(t) /\ object'[t].cached[a] = v
           /\ \A b \in Attributes \ {a} :
                object'[t].cached[b] = object[t].cached[b]
<1>1. object[t] \in Object /\ v \in Nat
  BY CallsAssumption DEF SetAttribute, Exposed, Live, TypeOK
<1> DEFINE c == [object[t].cached EXCEPT ![a] = v]
<1>2. object'[t] = [object[t] EXCEPT !.cached = c]
  BY <1>1 DEF SetAttribute, TypeOK
<1>3. /\ c \in [Attributes -> Nat] /\ c[a] = v
      /\ \A b \in Attributes \ {a} : c[b] = object[t].cached[b]
  BY <1>1 DEF Object
<1> HIDE DEF c
<1>4. object'[t] \in Object
  BY <1>1, <1>2, <1>3 DEF Object
<1>5. object'[t].cached = c /\ object'[t].exposed = object[t].exposed
      /\ object'[t].since = object[t].since /\ object'[t].told = object[t].told
  BY <1>1, <1>2 DEF Object
<1> QED BY <1>3, <1>4, <1>5, NoneAssumption DEF SameSight

LEMMA ExposeObject ==
    ASSUME TypeOK, NEW t \in Servers, HandleExpose(t)
    PROVE  /\ object[t] \in Object /\ object'[t] \in Object /\ object'[t].exposed
           /\ object'[t].since = Head(toSrv[t]).at
           /\ object'[t].told = object[t].told
           /\ object'[t].cached = Head(toSrv[t]).values
<1> DEFINE m == Head(toSrv[t])
<1>1. m \in SrvMsg /\ m.type = "expose" /\ object[t] \in Object
  BY ReadType DEF HandleExpose, Mine, Live, TypeOK
<1>2. m.values \in [Attributes -> Nat] /\ m.at \in Nat
  BY <1>1, SrvMsgFields, Numbers
<1> DEFINE ro == Attributes \ m.writable
<1> DEFINE c  == m.values
<1> DEFINE n  == m.at
<1>3. object'[t] = [object[t] EXCEPT !.exposed = TRUE, !.readOnly = ro,
                                     !.cached = c, !.since = n]
  BY DEF HandleExpose, TypeOK
<1>4. ro \in SUBSET Attributes /\ c \in [Attributes -> Nat] /\ n \in Nat
  BY <1>2
<1> HIDE DEF m, ro, c, n
<1>5. object'[t] \in Object
  BY <1>1, <1>3, <1>4 DEF Object
<1>6. /\ object'[t].exposed /\ object'[t].since = n /\ object'[t].cached = c
      /\ object'[t].told = object[t].told
  BY <1>1, <1>3 DEF Object
<1> QED BY <1>1, <1>5, <1>6 DEF m, c, n

LEMMA UpdateObject ==
    ASSUME TypeOK, NEW t \in Servers, HandleUpdate(t)
    PROVE  /\ object[t] \in Object /\ object'[t] \in Object
           /\ object'[t].exposed = object[t].exposed
           /\ object'[t].since = object[t].since
           /\ object'[t].told = object[t].told + 1
           /\ Head(toSrv[t]).attr \in Attributes
           /\ object'[t].cached[Head(toSrv[t]).attr] = Head(toSrv[t]).value
           /\ \A b \in Attributes \ {Head(toSrv[t]).attr} :
                object'[t].cached[b] = object[t].cached[b]
<1> DEFINE m == Head(toSrv[t])
<1>1. m \in SrvMsg /\ m.type = "update" /\ object[t] \in Object
  BY ReadType DEF HandleUpdate, Mine, Live, TypeOK
<1>2. m.attr \in Attributes /\ m.value \in Nat
  BY <1>1, SrvMsgFields, Numbers
<1> DEFINE c == [object[t].cached EXCEPT ![m.attr] = m.value]
<1> DEFINE n == object[t].told + 1
<1>3. object'[t] = [object[t] EXCEPT !.cached = c, !.told = n]
  BY <1>1 DEF HandleUpdate, TypeOK, Object
<1>4. /\ c \in [Attributes -> Nat] /\ n \in Nat /\ c[m.attr] = m.value
      /\ \A b \in Attributes \ {m.attr} : c[b] = object[t].cached[b]
  BY <1>1, <1>2 DEF Object
<1> HIDE DEF c, n
<1>5. object'[t] \in Object
  BY <1>1, <1>3, <1>4 DEF Object
<1>6. object'[t].cached = c /\ object'[t].told = n
      /\ object'[t].exposed = object[t].exposed
      /\ object'[t].since = object[t].since
  BY <1>1, <1>3 DEF Object
<1> QED BY <1>1, <1>2, <1>4, <1>5, <1>6 DEF n

\* A message for an object that is open is one for it.
LEMMA OpenIsMine ==
    ASSUME TypeOK, NEW t \in Servers, Life(t), Exposed(t), toSrv[t] # <<>>
    PROVE  Mine(t, Head(toSrv[t]))
<1>1. Open(t)
  BY DEF Life, Gone, Made, Known, Exposed
<1>2. 1 \in 1..Len(toSrv[t]) /\ Head(toSrv[t]) = toSrv[t][1]
  BY TailAt DEF TypeOK
<1> QED BY <1>1, <1>2 DEF Open, Mine, Exposed

LEMMA SeenSteps ==
    ASSUME TypeOK, [Next]_vars, NEW t \in Servers,
           Life(t), InOrder(t), Told(t)
    PROVE  Told(t)' /\ SeenStep(t)
<1> USE DEF program, server
<1>n. history \in Seq([Attributes -> Values]) /\ Len(history) \in Nat
  BY DEF TypeOK
<1>s. Seen(t)' = Seen(t) => SeenStep(t)
  BY DEF SeenStep
<1>1. CASE Idle(t) \/ \E a \in Attributes, v \in Values : Informed(t, a, v)
  <2>1. heard'[t] = heard[t] /\ object'[t] = object[t]
    BY <1>1 DEF Idle, Informed, At
  <2> QED BY <1>s, <2>1, SightKept
<1>2. CASE Register(t)
  <2>1. ~Exposed(t) /\ ~Exposed(t)'
    <3>1. object'[t] = NewObject(nextObjId[t]) /\ object[t] = None
      BY <1>2 DEF Register, Live, TypeOK
    <3> QED BY <3>1 DEF Exposed, Live, NewObject
  <2> QED BY <1>s, <2>1 DEF Seen, Told
<1>3. CASE Disconnect(t)
  <2>1. ~Exposed(t)' /\ UNCHANGED history
    BY <1>3 DEF Disconnect, Exposed, Live, TypeOK
  <2> QED BY <2>1 DEF Seen, Told, SeenStep
<1>4. ASSUME NEW b \in BOOLEAN, SetNoCallback(t, b) PROVE Told(t)' /\ SeenStep(t)
  <2>1. object[t] \in Object /\ Live(t)
    BY <1>4 DEF SetNoCallback, Live, TypeOK
  <2>2. object'[t] = [object[t] EXCEPT !.noCallback = b] /\ heard'[t] = heard[t]
    BY <1>4 DEF SetNoCallback, TypeOK
  <2>3. object'[t] \in Object
    BY <2>1, <2>2 DEF Object
  <2>4. SameSight(t)
    BY <2>1, <2>2, <2>3, NoneAssumption DEF SameSight, Object
  <2> QED BY <1>s, <2>1, <2>2, <2>4, SightKept
<1>5. ASSUME NEW a \in Attributes, NEW v \in Assigned, SetAttribute(t, a, v)
      PROVE  Told(t)' /\ SeenStep(t)
  <2>1. Live(t) /\ heard'[t] = heard[t]
    BY <1>5 DEF SetAttribute, Exposed
  <2>2. CASE object[t].noCallback
    <3>1. SameSight(t)
      BY <1>5, <2>2, SetObject
    <3> QED BY <1>s, <2>1, <3>1, SightKept
  <2>3. CASE ~object[t].noCallback
    <3>1. object'[t] = object[t]
      BY <1>5, <2>3 DEF SetAttribute
    <3> QED BY <1>s, <2>1, <3>1, SightKept
  <2> QED BY <2>2, <2>3
<1>6. ASSUME \/ \E x \in Methods : CallMethod(t, x)
             \/ ModStep(t)
      PROVE  Told(t)' /\ SeenStep(t)
  <2>1. heard'[t] = heard[t] /\ object'[t] = object[t]
    BY <1>6 DEF CallMethod, ModStep, HandleAssign, HandleShutdown, HandleSet,
       HandleMethod
  <2> QED BY <1>s, <2>1, SightKept
<1>7. CASE HandleStale(t)
  <2>1. PICK type : Read(t, type)
    BY <1>7 DEF HandleStale
  <2>2. ~Exposed(t) /\ object'[t] = object[t]
    BY <1>7, <2>1, OpenIsMine DEF HandleStale, Read
  <2>3. ~Exposed(t)'
    BY <2>2 DEF Exposed, Live
  <2> QED BY <1>s, <2>2, <2>3 DEF Seen, Told
<1>8. CASE HandleExpose(t)
  <2> DEFINE m == Head(toSrv[t])
  <2>1. Read(t, "expose")
    BY <1>8 DEF HandleExpose
  <2>2. /\ heard'[t] = m.at /\ m.at \in 1..Len(history) /\ UNCHANGED history
    BY <2>1, ReadInOrder DEF Follows
  <2>3. Known(t)
    BY <1>8, LifeExpose
  <2>4. /\ object'[t] # None /\ object'[t].exposed
        /\ object'[t].since + object'[t].told = m.at
    <3>1. object[t].told = 0 /\ m.at + 0 = m.at
      BY <2>2, <2>3 DEF Known
    <3> QED BY <1>8, <3>1, ExposeObject, NoneAssumption
  <2>5. ~Exposed(t) /\ Exposed(t)'
    BY <2>3, <2>4 DEF Known, Exposed, Live
  <2>6. Seen(t) = None /\ Seen(t)' = m.at
    BY <2>4, <2>5 DEF Seen
  <2> QED BY <2>2, <2>4, <2>6 DEF Told, SeenStep
<1>9. CASE HandleUpdate(t)
  <2> DEFINE m == Head(toSrv[t])
  <2>1. Read(t, "update") /\ Mine(t, m)
    BY <1>9 DEF HandleUpdate
  <2>2. /\ heard'[t] = m.at /\ m.at \in 1..Len(history) /\ UNCHANGED history
        /\ heard[t] \in 1..Len(history) /\ m.at = heard[t] + 1
    BY <2>1, ReadInOrder DEF Follows
  <2>3. /\ object[t] \in Object /\ object'[t] \in Object
        /\ object'[t].exposed = object[t].exposed
        /\ object'[t].since = object[t].since
        /\ object'[t].told = object[t].told + 1
    BY <1>9, UpdateObject
  <2>4. Exposed(t)
    <3>1. ~Gone(t)
      BY <2>1 DEF Gone, Mine
    <3>2. toSrv[t] # <<>> /\ toSrv'[t] = Tail(toSrv[t]) /\ m.type = "update"
          /\ 1 \in 1..Len(toSrv[t]) /\ m = toSrv[t][1]
      <4>1. toSrv[t] # <<>> /\ toSrv'[t] = Tail(toSrv[t]) /\ m.type = "update"
        BY <2>1, ReadInOrder
      <4> QED BY <4>1, TailAt DEF TypeOK
    <3>3. ~Made(t)
      BY <2>1, <3>2 DEF Made, Mine
    <3>4. ~Known(t)
      <4> SUFFICES ASSUME Known(t) PROVE FALSE
        OBVIOUS
      <4>1. PICK k \in 1..Len(toSrv[t]) :
              /\ toSrv[t][k].type = "expose"
              /\ \A i \in 1..(k - 1) : toSrv[t][i].id # object[t].id
        BY DEF Known, Coming
      <4>2. k # 1 => 1 \in 1..(k - 1)
        OBVIOUS
      <4> QED BY <2>1, <3>2, <4>1, <4>2 DEF Mine
    <3> QED BY <3>1, <3>3, <3>4 DEF Life, Open
  <2>5. Exposed(t)'
    BY <2>3, <2>4, NoneAssumption DEF Exposed, Live
  <2>6. /\ object[t].since \in Nat /\ object[t].told \in Nat
        /\ object[t].since + object[t].told = heard[t]
    BY <2>3, <2>4 DEF Object, Told
  <2>7. Seen(t) = heard[t] /\ Seen(t)' = heard[t] + 1
    BY <2>3, <2>4, <2>5, <2>6 DEF Seen
  <2>8. Told(t)'
    BY <2>2, <2>3, <2>5, <2>6 DEF Told
  <2> QED BY <1>n, <2>2, <2>7, <2>8, CallsAssumption DEF SeenStep
<1>10. CASE HandleAnswer(t)
  <2> DEFINE m == Head(toSrv[t])
  <2>1. Read(t, "answer") /\ object'[t] = object[t]
    BY <1>10 DEF HandleAnswer
  <2>2. heard'[t] = heard[t]
    BY <2>1, ReadInOrder DEF Follows
  <2> QED BY <1>s, <2>1, <2>2, SightKept
<1> QED
  BY <1>1, <1>2, <1>3, <1>4, <1>5, <1>6, <1>7, <1>8, <1>9, <1>10, Steps
     DEF Own, Script, SrvStep

-----------------------------------------------------------------------------
(* Cached values.                                                          *)

\* What is pending stays so unless it is taken from its queue.
LEMMA PendingKept ==
    ASSUME TypeOK, NEW t \in Servers, NEW b, Pending(t, b),
           NEW r \in Seq(SrvMsg), toSrv'[t] = toSrv[t] \o r,
           \/ toMod'[t] = toMod[t]
           \/ \E m \in ModMsg : toMod'[t] = Append(toMod[t], m)
           \/ toMod[t] # <<>> /\ toMod'[t] = Tail(toMod[t])
              /\ Head(toMod[t]).on # b
    PROVE  Pending(t, b)'
<1>1. toSrv[t] \in Seq(SrvMsg) /\ toMod[t] \in Seq(ModMsg)
  BY DEF TypeOK
<1>2. /\ \A i \in 1..Len(toSrv[t]) : toSrv'[t][i] = toSrv[t][i]
      /\ Len(toSrv'[t]) = Len(toSrv[t]) + Len(r)
      /\ Len(r) \in Nat /\ Len(toSrv[t]) \in Nat
  BY <1>1, ConcatAt
<1>3. ASSUME NEW i \in 1..Len(toMod[t]), toMod[t][i].type = "call",
             toMod[t][i].on = b
      PROVE  \E j \in 1..Len(toMod'[t]) : toMod'[t][j] = toMod[t][i]
  <2>1. ASSUME NEW m \in ModMsg, toMod'[t] = Append(toMod[t], m)
        PROVE  \E j \in 1..Len(toMod'[t]) : toMod'[t][j] = toMod[t][i]
    BY <1>1, <1>3, <2>1, AppendAt
  <2>2. CASE toMod[t] # <<>> /\ toMod'[t] = Tail(toMod[t])
             /\ Head(toMod[t]).on # b
    <3>1. i = 1 \/ (i - 1 \in 1..Len(toMod'[t])
                    /\ toMod'[t][i - 1] = toMod[t][i])
      BY <1>1, <2>2, TailAt
    <3>2. i # 1
      BY <1>1, <1>3, <2>2, TailAt
    <3> QED BY <3>1, <3>2
  <2> QED BY <1>3, <2>1, <2>2
<1>4. ASSUME NEW i \in 1..Len(toSrv[t]) PROVE i \in 1..Len(toSrv'[t])
  BY <1>2
<1> QED BY <1>2, <1>3, <1>4 DEF Pending

LEMMA PendingRead ==
    ASSUME TypeOK, NEW t \in Servers, NEW b, Pending(t, b),
           toMod'[t] = toMod[t], toSrv[t] # <<>>, toSrv'[t] = Tail(toSrv[t]),
           ~(Head(toSrv[t]).type = "update" /\ Head(toSrv[t]).attr = b)
    PROVE  Pending(t, b)'
<1>1. /\ Head(toSrv[t]) = toSrv[t][1]
      /\ \A i \in 1..Len(toSrv[t]) :
           i = 1 \/ (i - 1 \in 1..Len(toSrv'[t]) /\ toSrv'[t][i - 1] = toSrv[t][i])
  BY TailAt DEF TypeOK
<1> QED BY <1>1 DEF Pending

LEMMA CachedStep ==
    ASSUME TypeOK, Current, [Next]_vars, NEW t \in Servers,
           Life(t), InOrder(t), Cached(t)
    PROVE  Cached(t)'
<1> USE DEF program, server
<1>e. <<>> \in Seq(SrvMsg) /\ toSrv[t] \o <<>> = toSrv[t]
  <2>1. <<>> \in Seq(SrvMsg) /\ toSrv[t] \in Seq(SrvMsg)
    BY DEF TypeOK
  <2> QED BY <2>1, ConcatEmptySeq
<1>h. heard[t] \in 1..Len(history)
  BY DEF InOrder, Orderly
<1>g. /\ UNCHANGED history => history'[heard[t]] = history[heard[t]]
      /\ \A a \in Attributes, v \in Values :
           Grew(a, v) => history'[heard[t]] = history[heard[t]]
  BY <1>h, HistoryGrows
<1>k. ASSUME Exposed(t)' => Exposed(t), heard'[t] = heard[t],
             history'[heard[t]] = history[heard[t]],
             \A b \in Attributes :
                /\ object'[t].cached[b] = object[t].cached[b] \/ Pending(t, b)'
                /\ Pending(t, b) => Pending(t, b)'
      PROVE  Cached(t)'
  BY <1>k DEF Cached
<1>1. CASE Idle(t)
  BY <1>1, <1>g DEF Idle, At, Cached, Exposed, Live, Pending
<1>2. ASSUME NEW a \in Attributes, NEW v \in Values, Informed(t, a, v)
      PROVE  Cached(t)'
  <2>1. /\ toSrv'[t] = toSrv[t] \o News(t, a, v) /\ News(t, a, v) \in Seq(SrvMsg)
        /\ Grew(a, v) /\ toMod'[t] = toMod[t] /\ object'[t] = object[t]
        /\ heard'[t] = heard[t]
    BY <1>2, NewsType DEF Informed, At
  <2>2. \A b \in Attributes : Pending(t, b) => Pending(t, b)'
    BY <2>1, PendingKept
  <2> QED BY <1>g, <1>k, <2>1, <2>2 DEF Exposed, Live
<1>3. CASE Register(t)
  <2>1. object'[t] = NewObject(nextObjId[t])
    BY <1>3 DEF Register, TypeOK
  <2> QED BY <2>1 DEF Cached, Exposed, Live, NewObject
<1>4. CASE Disconnect(t)
  BY <1>4 DEF Disconnect, Cached, Exposed, Live, TypeOK
<1>5. ASSUME NEW b \in BOOLEAN, SetNoCallback(t, b) PROVE Cached(t)'
  <2>1. object[t] \in Object
    BY <1>5 DEF SetNoCallback, Live, TypeOK
  <2>2. /\ object'[t] = [object[t] EXCEPT !.noCallback = b]
        /\ UNCHANGED <<heard[t], toMod[t], toSrv[t], history>>
    BY <1>5 DEF SetNoCallback, TypeOK
  <2>3. object'[t].cached = object[t].cached /\ object'[t].exposed = object[t].exposed
    BY <2>1, <2>2 DEF Object
  <2>4. Exposed(t)' => Exposed(t)
    BY <1>5, <2>3 DEF SetNoCallback, Exposed, Live
  <2>5. \A x \in Attributes : Pending(t, x)' <=> Pending(t, x)
    BY <2>2 DEF Pending
  <2> QED BY <1>g, <1>k, <2>2, <2>3, <2>4, <2>5
<1>6. ASSUME NEW x \in Attributes \cup Methods, NEW v \in Values,
             Remote(t, x, v), Exposed(t), UNCHANGED <<heard, history, toSrv>>,
             Exposed(t)' => Exposed(t),
             \A b \in Attributes :
                b # x => object'[t].cached[b] = object[t].cached[b],
             x \in Methods => object' = object
      PROVE  Cached(t)'
  <2> DEFINE m == CallMsg(object[t].id, Len(calls[t]) + 1,
                          ~object[t].noCallback, x, v)
  <2>1. m \in ModMsg /\ m.type = "call" /\ m.on = x
    <3>1. object[t] \in Object /\ object[t].id \in Nat
          /\ object[t].noCallback \in BOOLEAN /\ Len(calls[t]) + 1 \in Nat
      BY <1>6 DEF TypeOK, Exposed, Live, Object
    <3> QED BY <3>1 DEF CallMsg, ModMsg
  <2>2. toMod'[t] = Append(toMod[t], m) /\ toMod[t] \in Seq(ModMsg)
    BY <1>6 DEF Remote, TypeOK
  <2> HIDE DEF m
  <2>3. Len(toMod[t]) + 1 \in 1..Len(toMod'[t]) /\ toMod'[t][Len(toMod[t]) + 1] = m
    BY <2>1, <2>2, AppendAt
  <2>4. Pending(t, x)'
    BY <2>1, <2>3 DEF Pending
  <2>5. \A b \in Attributes : Pending(t, b) => Pending(t, b)'
    BY <1>e, <1>6, <2>1, <2>2, PendingKept
  <2> QED BY <1>g, <1>k, <1>6, <2>4, <2>5
<1>7. ASSUME NEW a \in Attributes, NEW v \in Assigned, SetAttribute(t, a, v)
      PROVE  Cached(t)'
  <2>1. Narrow(v) \in Values
    BY CallsAssumption, Numbers
  <2>2. /\ Remote(t, a, Narrow(v)) /\ Exposed(t) /\ UNCHANGED <<heard, history, toSrv>>
        /\ ~object[t].noCallback => object' = object
    BY <1>7 DEF SetAttribute
  <2>3. \A b \in Attributes :
          b # a => object'[t].cached[b] = object[t].cached[b]
    BY <1>7, <2>2, SetObject
  <2>4. a \notin Methods
    BY CallsAssumption
  <2> QED BY <1>6, <2>1, <2>2, <2>3, <2>4
<1>8. ASSUME NEW x \in Methods, CallMethod(t, x) PROVE Cached(t)'
  <2>1. /\ Remote(t, x, 0) /\ Exposed(t) /\ UNCHANGED <<heard, history, toSrv>>
        /\ object' = object
    BY <1>8 DEF CallMethod
  <2> QED BY <1>6, <2>1, Numbers
<1>9. CASE HandleAssign(t) \/ HandleShutdown(t)
  <2>1. object'[t] = object[t] /\ \E type \in {"assign", "shutdown"} :
          Head(toMod[t]).type = type /\ toMod[t] # <<>>
    BY <1>9 DEF HandleAssign, HandleShutdown, Took
  <2>2. ~Open(t)
    <3>1. 1 \in 1..Len(toMod[t]) /\ Head(toMod[t]) = toMod[t][1]
      BY <2>1, TailAt DEF TypeOK
    <3> QED BY <2>1, <3>1 DEF Open
  <2>3. ~Exposed(t) /\ ~Exposed(t)'
    BY <2>1, <2>2 DEF Life, Gone, Made, Known, Exposed, Live
  <2> QED BY <2>3 DEF Cached
<1>10. CASE HandleSet(t)
  <2> DEFINE m == Head(toMod[t])
  <2>1. /\ toMod[t] # <<>> /\ toMod'[t] = Tail(toMod[t]) /\ serverMap[t] # None
        /\ UNCHANGED <<object[t], heard[t]>>
    BY <1>10, SetAt
  <2>2. PICK v \in Values, a \in Attributes :
          a = m.on /\ Grew(a, v) /\ toSrv'[t] = toSrv[t] \o News(t, a, v)
    BY <1>10, SetAt
  <2>3. Pending(t, a)'
    <3>1. \E i \in 1..Len(toSrv[t] \o News(t, a, v)) :
            /\ (toSrv[t] \o News(t, a, v))[i].type = "update"
            /\ (toSrv[t] \o News(t, a, v))[i].attr = a
      BY <2>1, <2>2, NewsInOrder
    <3>2. \E i \in 1..Len(toSrv'[t]) :
            toSrv'[t][i].type = "update" /\ toSrv'[t][i].attr = a
      BY <2>2, <3>1
    <3> QED BY <3>2 DEF Pending
  <2>4. News(t, a, v) \in Seq(SrvMsg)
    BY NewsType
  <2>5. \A b \in Attributes : Pending(t, b) => Pending(t, b)'
    <3> SUFFICES ASSUME NEW b \in Attributes, Pending(t, b), b # a
                 PROVE  Pending(t, b)'
      BY <2>3
    <3> QED BY <2>1, <2>2, <2>4, PendingKept
  <2> QED BY <1>g, <1>k, <2>1, <2>2, <2>5 DEF Exposed, Live
<1>11. ASSUME NEW fate \in {"returned", "threw"}, HandleMethod(t, fate)
       PROVE  Cached(t)'
  <2> DEFINE m == Head(toMod[t])
  <2>1. /\ toMod[t] # <<>> /\ toMod'[t] = Tail(toMod[t])
        /\ UNCHANGED <<object[t], heard[t]>>
        /\ \A b \in Attributes : m.on # b
    <3>1. m.on \in Methods
      BY <1>11, MethodAt
    <3> QED BY <1>11, <3>1, MethodAt, CallsAssumption
  <2>2. history'[heard[t]] = history[heard[t]]
        /\ \E r \in Seq(SrvMsg) : toSrv'[t] = toSrv[t] \o r
    <3>1. \A at \in {Now, Now + 1} : Answers(m, fate, at) \in Seq(SrvMsg)
      <4> SUFFICES ASSUME NEW at \in {Now, Now + 1}
                   PROVE  Answers(m, fate, at) \in Seq(SrvMsg)
        OBVIOUS
      <4> DEFINE R == {r \in SrvMsg : r.type = "answer" /\ r.at = at /\ r.id = m.id}
      <4>1. Answers(m, fate, at) \in Seq(R)
        BY <1>11, MethodAt
      <4>2. R \subseteq SrvMsg
        OBVIOUS
      <4> QED BY <4>1, <4>2, SeqMonotonic
    <3>2. \/ /\ UNCHANGED <<value, history>>
             /\ toSrv'[t] = toSrv[t] \o Answers(m, fate, Now)
          \/ \E a \in Attributes, v \in Values :
               /\ Grew(a, v)
               /\ toSrv'[t] = (toSrv[t] \o News(t, a, v))
                              \o Answers(m, fate, Now + 1)
      BY <1>11, MethodAt
    <3>3. ASSUME NEW a \in Attributes, NEW v \in Values,
                 toSrv'[t] = (toSrv[t] \o News(t, a, v)) \o Answers(m, fate, Now + 1)
          PROVE  \E r \in Seq(SrvMsg) : toSrv'[t] = toSrv[t] \o r
      <4>1. News(t, a, v) \in Seq(SrvMsg) /\ toSrv[t] \in Seq(SrvMsg)
            /\ Answers(m, fate, Now + 1) \in Seq(SrvMsg)
        BY <3>1, NewsType DEF TypeOK
      <4>2. \A x, y, z \in Seq(SrvMsg) :
              (x \o y) \o z = x \o (y \o z) /\ y \o z \in Seq(SrvMsg)
        BY ConcatAssociative, ConcatProperties
      <4>3. PICK x, y, z \in Seq(SrvMsg) :
              x = toSrv[t] /\ y = News(t, a, v) /\ z = Answers(m, fate, Now + 1)
        BY <4>1
      <4>4. (x \o y) \o z = x \o (y \o z) /\ y \o z \in Seq(SrvMsg)
        BY <4>2
      <4>5. toSrv'[t] = (x \o y) \o z
        BY <3>3, <4>3
      <4> QED BY <4>3, <4>4, <4>5
    <3> QED BY <1>g, <3>1, <3>2, <3>3
  <2>3. \A b \in Attributes : Pending(t, b) => Pending(t, b)'
    <3> HIDE DEF m
    <3> QED BY <2>1, <2>2, PendingKept DEF m
  <2> QED BY <1>k, <2>1, <2>2, <2>3 DEF Exposed, Live
<1>12. CASE HandleStale(t)
  <2>1. PICK type : Read(t, type)
    BY <1>12 DEF HandleStale
  <2>2. ~Exposed(t) /\ object'[t] = object[t]
    BY <1>12, <2>1, OpenIsMine DEF HandleStale, Read
  <2> QED BY <2>2 DEF Cached, Exposed, Live
<1>13. CASE HandleExpose(t)
  <2> DEFINE m == Head(toSrv[t])
  <2>1. Read(t, "expose")
    BY <1>13 DEF HandleExpose
  <2>2. /\ heard'[t] = m.at /\ UNCHANGED history /\ m.values = history[m.at]
    BY <2>1, ReadInOrder, ZenonT(40) DEF Follows
  <2>3. object'[t].cached = m.values
    BY <1>13, ExposeObject
  <2> QED BY <2>2, <2>3 DEF Cached
<1>14. CASE HandleUpdate(t)
  <2> DEFINE m == Head(toSrv[t])
  <2>1. Read(t, "update") /\ object[t] # None
    BY <1>14 DEF HandleUpdate, Mine, Live
  <2>2. /\ m.type = "update" /\ heard'[t] = m.at /\ UNCHANGED history
        /\ m.at = heard[t] + 1 /\ m.at \in 1..Len(history)
        /\ history[m.at] = [history[heard[t]] EXCEPT ![m.attr] = m.value]
        /\ toMod'[t] = toMod[t] /\ toSrv[t] # <<>> /\ toSrv'[t] = Tail(toSrv[t])
    BY <2>1, ReadInOrder DEF Follows
  <2>3. /\ m.attr \in Attributes /\ object'[t].exposed = object[t].exposed
        /\ object'[t].cached[m.attr] = m.value
        /\ \A b \in Attributes \ {m.attr} :
             object'[t].cached[b] = object[t].cached[b]
    BY <1>14, UpdateObject
  <2> SUFFICES ASSUME Exposed(t)', NEW b \in Attributes
               PROVE  object'[t].cached[b] = history'[heard'[t]][b]
                      \/ Pending(t, b)'
    BY DEF Cached
  <2>4. history[heard[t]] \in [Attributes -> Values]
    BY <1>h DEF TypeOK
  <2>5. CASE b = m.attr
    BY <2>2, <2>3, <2>4, <2>5
  <2>6. CASE b # m.attr
    <3>1. history'[heard'[t]][b] = history[heard[t]][b]
      BY <2>2, <2>4, <2>6
    <3>2. Pending(t, b) => Pending(t, b)'
      BY <2>2, <2>6, PendingRead
    <3>3. Exposed(t)
      BY <2>1, <2>3 DEF Exposed, Live
    <3> QED BY <2>3, <2>6, <3>1, <3>2, <3>3 DEF Cached
  <2> QED BY <2>5, <2>6
<1>15. CASE HandleAnswer(t)
  <2> DEFINE m == Head(toSrv[t])
  <2>1. Read(t, "answer") /\ object'[t] = object[t]
    BY <1>15 DEF HandleAnswer
  <2>2. /\ m.type = "answer" /\ heard'[t] = heard[t] /\ UNCHANGED history
        /\ toMod'[t] = toMod[t] /\ toSrv[t] # <<>> /\ toSrv'[t] = Tail(toSrv[t])
    BY <2>1, ReadInOrder DEF Follows
  <2>3. \A b \in Attributes : Pending(t, b) => Pending(t, b)'
    BY <2>2, PendingRead
  <2> QED BY <1>g, <1>k, <2>1, <2>2, <2>3 DEF Exposed, Live
<1> QED
  BY <1>1, <1>2, <1>3, <1>4, <1>5, <1>7, <1>8, <1>9, <1>10, <1>11, <1>12,
     <1>13, <1>14, <1>15, Steps DEF Own, Script, ModStep, SrvStep

-----------------------------------------------------------------------------
(* Theorems about values.                                                  *)

LEMMA MirrorInit ==
    ASSUME Init
    PROVE  MirrorInv
<1>1. TypeOK
  BY TypeInit
<1>2. Current /\ history = <<value>> /\ Len(history) = 1
  <2>1. Len(<<value>>) = 1 /\ Len(<<>>) = 0 /\ <<value>>[1] = value
    OBVIOUS
  <2> QED BY <2>1 DEF Current, Init
<1>3. ASSUME NEW s \in Servers PROVE Life(s) /\ InOrder(s) /\ Told(s) /\ Cached(s)
  <2>1. /\ object[s] = None /\ serverMap[s] = None /\ toSrv[s] = <<>>
        /\ heard[s] = 1
    BY <1>3 DEF Init
  <2>2. Len(<<>>) = 0
    OBVIOUS
  <2>3. InOrder(s)
    BY <1>2, <2>1, <2>2 DEF InOrder, Orderly
  <2> QED BY <2>1, <2>3, LifeInit DEF Told, Cached, Exposed, Live
<1> QED BY <1>1, <1>2, <1>3 DEF MirrorInv

LEMMA MirrorStep ==
    ASSUME MirrorInv, [Next]_vars
    PROVE  MirrorInv'
<1>1. TypeOK' /\ Current'
  BY TypeInvariance, CurrentStep DEF MirrorInv
<1>2. ASSUME NEW s \in Servers
      PROVE  Life(s)' /\ InOrder(s)' /\ Told(s)' /\ Cached(s)'
  <2>1. TypeOK /\ Current /\ Life(s) /\ InOrder(s) /\ Told(s) /\ Cached(s)
    BY DEF MirrorInv
  <2> QED BY <2>1, LifeStep, InOrderStep, SeenSteps, CachedStep
<1> QED BY <1>1, <1>2 DEF MirrorInv

LEMMA MirrorInvariant == Spec => []MirrorInv
  BY MirrorInit, MirrorStep, PTL DEF Spec

\* The script of every server is told of every change since the exposure of
\* its object, once each (updateAttribute posts to every entry of serverMap_).
THEOREM EveryChangeTold == Spec => []ToldOfEveryChange
<1>1. MirrorInv => ToldOfEveryChange
  BY DEF MirrorInv, Told, ToldOfEveryChange
<1> QED BY <1>1, MirrorInvariant, PTL

\* When nothing is under way, the cached values are the program's, although
\* an assignment without callback puts another number there first.
THEOREM CachedValuesSettle == Spec => []QuietValues
<1>1. MirrorInv => QuietValues
  <2> SUFFICES ASSUME MirrorInv, NEW s \in Servers, Quiet(s), Exposed(s)
               PROVE  object[s].cached = value
    BY DEF QuietValues
  <2>1. TypeOK /\ Current /\ Life(s) /\ InOrder(s) /\ Cached(s)
    BY DEF MirrorInv
  <2>2. toSrv[s] = <<>> /\ toMod[s] = <<>> /\ Len(<<>>) = 0
    BY DEF Quiet
  <2>3. Open(s)
    BY <2>1 DEF Life, Gone, Made, Known, Exposed
  <2>4. serverMap[s] # None
    <3>1. object[s].id \in Nat
      BY <2>1 DEF TypeOK, Exposed, Live, Object
    <3> QED BY <2>3, <3>1, CallsAssumption DEF Open
  <2>5. heard[s] = Len(history)
    BY <2>1, <2>2, <2>4 DEF InOrder, LastAt, Before
  <2>6. \A a \in Attributes : object[s].cached[a] = value[a]
    BY <2>1, <2>2, <2>5 DEF Cached, Pending, Current
  <2>7. object[s].cached \in [Attributes -> Nat] /\ value \in [Attributes -> Values]
    BY <2>1 DEF TypeOK, Exposed, Live, Object
  <2> QED BY <2>6, <2>7
<1> QED BY <1>1, MirrorInvariant, PTL

-----------------------------------------------------------------------------
(* The refinement.                                                         *)

\* A step touches the object of one server at most.
LEMMA OneObject ==
    ASSUME TypeOK, [Next]_vars, NEW s \in Servers, object'[s] # object[s]
    PROVE  \A t \in Servers \ {s} : object'[t] = object[t]
<1> SUFFICES ASSUME NEW t \in Servers \ {s} PROVE object'[t] = object[t]
  OBVIOUS
<1> USE DEF program, server
<1>1. CASE UNCHANGED vars \/ \E a \in Attributes, v \in Values : Change(a, v)
  BY <1>1 DEF Change, vars
<1>2. ASSUME NEW u \in Servers, Script(u) PROVE object'[t] = object[t]
  <2>1. \A r \in Servers \ {u} : object'[r] = object[r]
    <3>1. CASE Register(u)
      BY <3>1 DEF Register, TypeOK
    <3>2. CASE Disconnect(u)
      BY <3>2 DEF Disconnect, TypeOK
    <3>3. ASSUME NEW b \in BOOLEAN, SetNoCallback(u, b)
          PROVE  \A r \in Servers \ {u} : object'[r] = object[r]
      BY <3>3 DEF SetNoCallback, TypeOK
    <3>4. ASSUME NEW a \in Attributes, NEW v \in Assigned, SetAttribute(u, a, v)
          PROVE  \A r \in Servers \ {u} : object'[r] = object[r]
      BY <3>4 DEF SetAttribute, TypeOK
    <3>5. ASSUME NEW m \in Methods, CallMethod(u, m)
          PROVE  \A r \in Servers \ {u} : object'[r] = object[r]
      BY <3>5 DEF CallMethod
    <3> QED BY <1>2, <3>1, <3>2, <3>3, <3>4, <3>5 DEF Script
  <2> QED BY <2>1
<1>3. ASSUME NEW u \in Servers, ModStep(u) PROVE object'[t] = object[t]
  BY <1>3 DEF ModStep, HandleAssign, HandleShutdown, HandleSet, HandleMethod
<1>4. ASSUME NEW u \in Servers, SrvStep(u) PROVE object'[t] = object[t]
  <2>1. \A r \in Servers \ {u} : object'[r] = object[r]
    BY <1>4 DEF SrvStep, HandleStale, HandleExpose, HandleUpdate, HandleAnswer,
       TypeOK
  <2> QED BY <2>1
<1> QED BY <1>1, <1>2, <1>3, <1>4 DEF Next

LEMMA SeenType ==
    ASSUME TypeOK, NEW s \in Servers
    PROVE  Seen(s) \in Nat \cup {None} /\ (Exposed(s) => Seen(s) # None)
  BY CallsAssumption DEF Seen, Exposed, Live, TypeOK, Object

LEMMA MirrorNext ==
    ASSUME MirrorInv, TypeOK', [Next]_vars
    PROVE  Mirror!Next \/ UNCHANGED Mirror!vars
<1> DEFINE seen == [s \in Servers |->
               IF Exposed(s) THEN object[s].since + object[s].told ELSE None]
<1>1. \A s \in Servers : seen[s] = Seen(s) /\ seen'[s] = Seen(s)'
  BY DEF Seen
<1>2. \A s \in Servers : SeenStep(s)
  BY SeenSteps DEF MirrorInv
<1>3. Len(history) \in Nat /\ Len(history') \in Nat
  BY DEF MirrorInv, TypeOK
<1>4. CASE \E s \in Servers : Seen(s)' # Seen(s)
  <2>1. PICK s \in Servers : Seen(s)' # Seen(s)
    BY <1>4
  <2>2. object'[s] # object[s]
    BY <2>1 DEF Seen, Exposed, Live
  <2>3. \A t \in Servers \ {s} : seen'[t] = seen[t]
    <3>1. \A t \in Servers \ {s} : object'[t] = object[t]
      BY <2>2, OneObject DEF MirrorInv
    <3> QED BY <3>1 DEF Exposed, Live
  <2>4. /\ UNCHANGED history
        /\ \/ Seen(s) = None /\ Seen(s)' \in 0..Len(history)
           \/ Seen(s) # None /\ Seen(s) < Len(history) /\ Seen(s)' = Seen(s) + 1
           \/ Seen(s) # None /\ Seen(s)' = None
    BY <1>2, <2>1 DEF SeenStep
  <2>5. seen' = [seen EXCEPT ![s] = Seen(s)']
    BY <1>1, <2>3
  <2>6. Len(history') = Len(history)
    BY <2>4
  <2>7. CASE Seen(s) = None /\ Seen(s)' \in 0..Len(history)
    <3>1. Mirror!Appear(s)
      BY <1>1, <2>5, <2>6, <2>7 DEF Mirror!Appear
    <3> QED BY <3>1 DEF Mirror!Next
  <2>8. CASE Seen(s) # None /\ Seen(s) < Len(history) /\ Seen(s)' = Seen(s) + 1
    <3>1. Mirror!Learn(s)
      BY <1>1, <2>5, <2>6, <2>8 DEF Mirror!Learn
    <3> QED BY <3>1 DEF Mirror!Next
  <2>9. CASE Seen(s) # None /\ Seen(s)' = None
    <3>1. Mirror!Vanish(s)
      BY <1>1, <2>5, <2>6, <2>9 DEF Mirror!Vanish
    <3> QED BY <3>1 DEF Mirror!Next
  <2> QED BY <2>4, <2>7, <2>8, <2>9
<1>5. CASE \A s \in Servers : Seen(s)' = Seen(s)
  <2>1. seen' = seen
    BY <1>1, <1>5
  <2>2. UNCHANGED history \/ \E a \in Attributes, v \in Values : Grew(a, v)
    BY HistorySteps DEF MirrorInv
  <2>3. CASE UNCHANGED history
    BY <2>1, <2>3 DEF Mirror!vars
  <2>4. CASE \E a \in Attributes, v \in Values : Grew(a, v)
    <3>1. Len(history') > Len(history)
      <4>1. PICK a \in Attributes, v \in Values : Grew(a, v)
        BY <2>4
      <4>2. Len(history') = Len(history) + 1
        BY <4>1, HistoryGrows DEF MirrorInv
      <4> QED BY <1>3, <4>2
    <3>2. Mirror!Change
      BY <1>3, <2>1, <3>1 DEF Mirror!Change
    <3> QED BY <3>2 DEF Mirror!Next
  <2> QED BY <2>2, <2>3, <2>4
<1> QED BY <1>4, <1>5

\* What the scripts see of the attributes is what PyConnectMirror promises:
\* every step of scripts, program and IO threads is a step of it or leaves it
\* alone (its fairness is left to the run that checks MirrorImplemented).
THEOREM CallsImplementMirror ==
    Spec => Mirror!Init /\ [][Mirror!Next]_(Mirror!vars)
<1>1. Init => Mirror!Init
  <2> SUFFICES ASSUME Init PROVE Mirror!Init
    OBVIOUS
  <2>1. Len(history) \in Nat
    BY TypeInit DEF TypeOK
  <2>2. \A s \in Servers : ~Exposed(s)
    BY DEF Init, Exposed, Live
  <2> QED BY <2>1, <2>2 DEF Mirror!Init
<1>2. MirrorInv /\ MirrorInv' /\ [Next]_vars => [Mirror!Next]_(Mirror!vars)
  <2> SUFFICES ASSUME MirrorInv, MirrorInv', [Next]_vars
               PROVE  Mirror!Next \/ UNCHANGED Mirror!vars
    OBVIOUS
  <2>1. TypeOK'
    BY DEF MirrorInv
  <2> QED BY <2>1, MirrorNext
<1> QED BY <1>1, <1>2, MirrorInvariant, PTL DEF Spec

-----------------------------------------------------------------------------
(* Calls and answers.                                                      *)

\* The calls in a queue are as they were, one place further on or not.
SameCalls(t) ==
    \E d \in {0, 1} :
       /\ \A i \in 1..Len(toMod'[t]) : toMod'[t][i].type = "call" =>
            i + d \in 1..Len(toMod[t]) /\ toMod'[t][i] = toMod[t][i + d]
       /\ \A i \in 1..Len(toMod[t]) : toMod[t][i].type = "call" =>
            i - d \in 1..Len(toMod'[t]) /\ toMod'[t][i - d] = toMod[t][i]

\* So are the answers, except that one for no live object may be gone.
SameAnswers(t) ==
    \E d \in {0, 1} :
       /\ \A i \in 1..Len(toSrv'[t]) : toSrv'[t][i].type = "answer" =>
            i + d \in 1..Len(toSrv[t]) /\ toSrv'[t][i] = toSrv[t][i + d]
       /\ \A i \in 1..Len(toSrv[t]) : toSrv[t][i].type = "answer" =>
            \/ i - d \in 1..Len(toSrv'[t]) /\ toSrv'[t][i - d] = toSrv[t][i]
            \/ Live(t)' => toSrv[t][i].id # object'[t].id

\* An object that is live was so before, or nothing was called on it.
SameOwner(t) ==
    Live(t)' => \/ Live(t) /\ object'[t].id = object[t].id
                \/ \A n \in 1..Len(calls[t]) : calls[t][n].id # object'[t].id

CallsInv(t) ==
    CallsQueued(t) /\ ToldTruly(t) /\ AnswersQueued(t) /\ NoneLost(t) /\ InTurn(t)

LEMMA CallsUntouched ==
    ASSUME TypeOK, NEW t \in Servers, CallsInv(t), calls'[t] = calls[t],
           SameCalls(t), SameAnswers(t), SameOwner(t)
    PROVE  CallsInv(t)'
<1>1. PICK d \in {0, 1} :
       /\ \A i \in 1..Len(toMod'[t]) : toMod'[t][i].type = "call" =>
            i + d \in 1..Len(toMod[t]) /\ toMod'[t][i] = toMod[t][i + d]
       /\ \A i \in 1..Len(toMod[t]) : toMod[t][i].type = "call" =>
            i - d \in 1..Len(toMod'[t]) /\ toMod'[t][i - d] = toMod[t][i]
  BY DEF SameCalls
<1>2. PICK e \in {0, 1} :
       /\ \A i \in 1..Len(toSrv'[t]) : toSrv'[t][i].type = "answer" =>
            i + e \in 1..Len(toSrv[t]) /\ toSrv'[t][i] = toSrv[t][i + e]
       /\ \A i \in 1..Len(toSrv[t]) : toSrv[t][i].type = "answer" =>
            \/ i - e \in 1..Len(toSrv'[t]) /\ toSrv'[t][i - e] = toSrv[t][i]
            \/ Live(t)' => toSrv[t][i].id # object'[t].id
  BY DEF SameAnswers
<1>3. CallsQueued(t)'
  <2> SUFFICES ASSUME NEW i \in 1..Len(toMod'[t]), toMod'[t][i].type = "call"
               PROVE  /\ toMod'[t][i].n \in 1..Len(calls[t])
                      /\ calls[t][toMod'[t][i].n].on = toMod'[t][i].on
                      /\ calls[t][toMod'[t][i].n].id = toMod'[t][i].id
                      /\ calls[t][toMod'[t][i].n].cb = toMod'[t][i].cb
                      /\ \A k \in toMod'[t][i].n..Len(calls[t]) :
                           calls[t][k].fate = "waiting"
                      /\ \A j \in 1..(i - 1) : toMod'[t][j].type = "call" =>
                           toMod'[t][j].n < toMod'[t][i].n
    BY DEF CallsQueued
  <2>1. i + d \in 1..Len(toMod[t]) /\ toMod'[t][i] = toMod[t][i + d]
    BY <1>1
  <2>2. \A j \in 1..(i - 1) : toMod'[t][j].type = "call" =>
          j + d \in 1..((i + d) - 1) /\ toMod'[t][j] = toMod[t][j + d]
    <3> SUFFICES ASSUME NEW j \in 1..(i - 1), toMod'[t][j].type = "call"
                 PROVE  j + d \in 1..((i + d) - 1) /\ toMod'[t][j] = toMod[t][j + d]
      OBVIOUS
    <3>1. j \in 1..Len(toMod'[t])
      OBVIOUS
    <3> QED BY <1>1, <3>1
  <2> QED BY <2>1, <2>2 DEF CallsInv, CallsQueued
<1>4. ToldTruly(t)' /\ InTurn(t)'
  BY DEF CallsInv, ToldTruly, InTurn, Deserved
<1>5. AnswersQueued(t)'
  <2> SUFFICES ASSUME NEW i \in 1..Len(toSrv'[t]), toSrv'[t][i].type = "answer"
               PROVE  /\ Due(calls[t], toSrv'[t][i])
                      /\ \A j \in 1..(i - 1) : toSrv'[t][j].type = "answer" =>
                           \/ toSrv'[t][j].n < toSrv'[t][i].n
                           \/ /\ toSrv'[t][j].n = toSrv'[t][i].n
                              /\ toSrv'[t][j].err = F /\ toSrv'[t][i].err = D
    BY DEF AnswersQueued
  <2>1. i + e \in 1..Len(toSrv[t]) /\ toSrv'[t][i] = toSrv[t][i + e]
    BY <1>2
  <2>2. \A j \in 1..(i - 1) : toSrv'[t][j].type = "answer" =>
          j + e \in 1..((i + e) - 1) /\ toSrv'[t][j] = toSrv[t][j + e]
    <3> SUFFICES ASSUME NEW j \in 1..(i - 1), toSrv'[t][j].type = "answer"
                 PROVE  j + e \in 1..((i + e) - 1) /\ toSrv'[t][j] = toSrv[t][j + e]
      OBVIOUS
    <3>1. j \in 1..Len(toSrv'[t])
      OBVIOUS
    <3> QED BY <1>2, <3>1
  <2> QED BY <2>1, <2>2 DEF CallsInv, AnswersQueued
<1>6. NoneLost(t)'
  <2> SUFFICES ASSUME Live(t)', NEW k \in 1..Len(calls[t]),
                      calls[t][k].id = object'[t].id
               PROVE  /\ calls[t][k].fate = "waiting" =>
                           \E i \in 1..Len(toMod'[t]) :
                             toMod'[t][i].type = "call" /\ toMod'[t][i].n = k
                      /\ calls[t][k].fate # "waiting" /\ calls[t][k].on \in Methods
                         /\ (calls[t][k].cb \/ calls[t][k].fate = "threw")
                         /\ calls[t][k].told = <<>> =>
                           \E i \in 1..Len(toSrv'[t]) :
                             toSrv'[t][i].type = "answer" /\ toSrv'[t][i].n = k
    BY DEF NoneLost
  <2>1. Live(t) /\ object'[t].id = object[t].id
    BY DEF SameOwner
  <2>2. ASSUME calls[t][k].fate = "waiting"
        PROVE  \E i \in 1..Len(toMod'[t]) :
                 toMod'[t][i].type = "call" /\ toMod'[t][i].n = k
    <3>1. PICK i \in 1..Len(toMod[t]) :
            toMod[t][i].type = "call" /\ toMod[t][i].n = k
      BY <2>1, <2>2 DEF CallsInv, NoneLost
    <3> QED BY <1>1, <3>1
  <2>3. ASSUME calls[t][k].fate # "waiting", calls[t][k].on \in Methods,
               calls[t][k].cb \/ calls[t][k].fate = "threw",
               calls[t][k].told = <<>>
        PROVE  \E i \in 1..Len(toSrv'[t]) :
                 toSrv'[t][i].type = "answer" /\ toSrv'[t][i].n = k
    <3>1. PICK i \in 1..Len(toSrv[t]) :
            toSrv[t][i].type = "answer" /\ toSrv[t][i].n = k
      BY <2>1, <2>3 DEF CallsInv, NoneLost
    <3>2. toSrv[t][i].id = object'[t].id
      BY <3>1 DEF CallsInv, AnswersQueued, Due
    <3> QED BY <1>2, <3>1, <3>2
  <2> QED BY <2>2, <2>3
<1> QED BY <1>3, <1>4, <1>5, <1>6 DEF CallsInv

\* A call that a script makes is the last of its calls and of its queue.
LEMMA CallMade ==
    ASSUME TypeOK, NEW t \in Servers, CallsInv(t), Live(t),
           toSrv'[t] = toSrv[t], object'[t].id = object[t].id,
           NEW m \in ModMsg, m.type = "call", m.n = Len(calls[t]) + 1,
           NEW c \in Call, c.on = m.on, c.id = m.id, c.cb = m.cb,
           c.fate = "waiting", c.told = <<>>,
           toMod'[t] = Append(toMod[t], m), calls'[t] = Append(calls[t], c)
    PROVE  CallsInv(t)'
<1> DEFINE N == Len(calls[t])
<1>1. /\ N \in Nat /\ Len(calls'[t]) = N + 1 /\ calls'[t][N + 1] = c
      /\ \A n \in 1..N : calls'[t][n] = calls[t][n]
      /\ \A n \in 1..Len(calls'[t]) : n \in 1..N \/ n = N + 1
  <2>1. calls[t] \in Seq(Call)
    BY DEF TypeOK
  <2> QED BY <2>1, AppendAt
<1>2. /\ Len(toMod[t]) \in Nat /\ Len(toMod'[t]) = Len(toMod[t]) + 1
      /\ toMod'[t][Len(toMod[t]) + 1] = m
      /\ \A i \in 1..Len(toMod[t]) : toMod'[t][i] = toMod[t][i]
      /\ \A i \in 1..Len(toMod'[t]) : i \in 1..Len(toMod[t]) \/ i = Len(toMod[t]) + 1
  <2>1. toMod[t] \in Seq(ModMsg)
    BY DEF TypeOK
  <2> QED BY <2>1, AppendAt
<1>3. CallsQueued(t)'
  <2> SUFFICES ASSUME NEW i \in 1..Len(toMod'[t]), toMod'[t][i].type = "call"
               PROVE  /\ toMod'[t][i].n \in 1..Len(calls'[t])
                      /\ calls'[t][toMod'[t][i].n].on = toMod'[t][i].on
                      /\ calls'[t][toMod'[t][i].n].id = toMod'[t][i].id
                      /\ calls'[t][toMod'[t][i].n].cb = toMod'[t][i].cb
                      /\ \A k \in toMod'[t][i].n..Len(calls'[t]) :
                           calls'[t][k].fate = "waiting"
                      /\ \A j \in 1..(i - 1) : toMod'[t][j].type = "call" =>
                           toMod'[t][j].n < toMod'[t][i].n
    BY DEF CallsQueued
  <2>1. CASE i \in 1..Len(toMod[t])
    <3>1. toMod'[t][i] = toMod[t][i]
      BY <1>2, <2>1
    <3>2. /\ toMod[t][i].n \in 1..N
          /\ calls[t][toMod[t][i].n].on = toMod[t][i].on
          /\ calls[t][toMod[t][i].n].id = toMod[t][i].id
          /\ calls[t][toMod[t][i].n].cb = toMod[t][i].cb
          /\ \A k \in toMod[t][i].n..N : calls[t][k].fate = "waiting"
          /\ \A j \in 1..(i - 1) :
               toMod[t][j].type = "call" => toMod[t][j].n < toMod[t][i].n
      BY <2>1, <3>1 DEF CallsInv, CallsQueued
    <3>3. \A k \in toMod[t][i].n..(N + 1) : k \in toMod[t][i].n..N \/ k = N + 1
      BY <1>1, <3>2
    <3>4. \A k \in toMod[t][i].n..N : k \in 1..N
      BY <3>2
    <3>5. \A j \in 1..(i - 1) : toMod'[t][j] = toMod[t][j]
      BY <1>2, <2>1
    <3> HIDE DEF N
    <3> QED BY <1>1, <3>1, <3>2, <3>3, <3>4, <3>5
  <2>2. CASE i = Len(toMod[t]) + 1
    <3>1. toMod'[t][i] = m
      BY <1>2, <2>2
    <3>2. \A j \in 1..(i - 1) : toMod'[t][j].type = "call" => toMod'[t][j].n < m.n
      <4> SUFFICES ASSUME NEW j \in 1..Len(toMod[t]), toMod[t][j].type = "call"
                   PROVE  toMod[t][j].n < m.n
        BY <1>2, <2>2
      <4>1. toMod[t][j].n \in 1..N
        BY DEF CallsInv, CallsQueued
      <4> QED BY <1>1, <4>1
    <3> QED BY <1>1, <3>1, <3>2
  <2> QED BY <1>2, <2>1, <2>2
<1>4. ToldTruly(t)'
  <2> SUFFICES ASSUME NEW n \in 1..Len(calls'[t])
               PROVE  /\ calls'[t][n].told \in {<<>>, <<F>>, <<D>>, <<F, D>>}
                      /\ calls'[t][n].told \in {<<F>>, <<F, D>>} =>
                           Deserved(calls'[t][n], F)
                      /\ calls'[t][n].told \in {<<D>>, <<F, D>>} =>
                           Deserved(calls'[t][n], D)
                      /\ calls'[t][n].fate = "waiting" => calls'[t][n].told = <<>>
    BY DEF ToldTruly, Deserved
  <2>1. CASE n \in 1..N
    <3>1. calls'[t][n] = calls[t][n]
      BY <1>1, <2>1
    <3> QED BY <2>1, <3>1 DEF CallsInv, ToldTruly
  <2>2. CASE n = N + 1
    <3>1. Len(<<>>) = 0 /\ Len(<<F>>) = 1 /\ Len(<<D>>) = 1 /\ Len(<<F, D>>) = 2
      OBVIOUS
    <3>2. <<>> \notin {<<F>>, <<D>>, <<F, D>>}
      BY <3>1
    <3>3. calls'[t][n].told = <<>>
      BY <1>1, <2>2
    <3> QED BY <3>2, <3>3
  <2> QED BY <1>1, <2>1, <2>2
<1>5. AnswersQueued(t)'
  <2> SUFFICES ASSUME NEW i \in 1..Len(toSrv[t]), toSrv[t][i].type = "answer"
               PROVE  /\ Due(calls'[t], toSrv[t][i])
                      /\ \A j \in 1..(i - 1) : toSrv[t][j].type = "answer" =>
                           \/ toSrv[t][j].n < toSrv[t][i].n
                           \/ /\ toSrv[t][j].n = toSrv[t][i].n
                              /\ toSrv[t][j].err = F /\ toSrv[t][i].err = D
    BY DEF AnswersQueued
  <2>1. /\ Due(calls[t], toSrv[t][i])
        /\ \A j \in 1..(i - 1) : toSrv[t][j].type = "answer" =>
             \/ toSrv[t][j].n < toSrv[t][i].n
             \/ /\ toSrv[t][j].n = toSrv[t][i].n
                /\ toSrv[t][j].err = F /\ toSrv[t][i].err = D
    BY DEF CallsInv, AnswersQueued
  <2>2. calls'[t][toSrv[t][i].n] = calls[t][toSrv[t][i].n]
        /\ toSrv[t][i].n \in 1..Len(calls'[t])
    BY <1>1, <2>1 DEF Due
  <2> QED BY <2>1, <2>2 DEF Due, Deserved
<1>6. NoneLost(t)'
  <2> SUFFICES ASSUME NEW k \in 1..Len(calls'[t]), calls'[t][k].id = object[t].id
               PROVE  /\ calls'[t][k].fate = "waiting" =>
                           \E i \in 1..Len(toMod'[t]) :
                             toMod'[t][i].type = "call" /\ toMod'[t][i].n = k
                      /\ calls'[t][k].fate # "waiting" /\ calls'[t][k].on \in Methods
                         /\ (calls'[t][k].cb \/ calls'[t][k].fate = "threw")
                         /\ calls'[t][k].told = <<>> =>
                           \E i \in 1..Len(toSrv[t]) :
                             toSrv[t][i].type = "answer" /\ toSrv[t][i].n = k
    BY DEF NoneLost
  <2>1. CASE k \in 1..N
    <3>1. calls'[t][k] = calls[t][k]
      BY <1>1, <2>1
    <3>2. \A i \in 1..Len(toMod[t]) : i \in 1..Len(toMod'[t])
      BY <1>2
    <3> QED BY <1>2, <2>1, <3>1, <3>2 DEF CallsInv, NoneLost
  <2>2. CASE k = N + 1
    <3>1. Len(toMod[t]) + 1 \in 1..Len(toMod'[t])
      BY <1>2
    <3> QED BY <1>1, <1>2, <2>2, <3>1
  <2> QED BY <1>1, <2>1, <2>2
<1>7. InTurn(t)'
  <2> SUFFICES ASSUME NEW n \in 1..Len(calls'[t]), calls'[t][n].told # <<>>,
                      NEW k \in 1..(n - 1),
                      calls'[t][k].id = calls'[t][n].id,
                      calls'[t][k].on \in Methods,
                      calls'[t][k].cb \/ calls'[t][k].fate = "threw"
               PROVE  calls'[t][k].told # <<>>
    BY DEF InTurn
  <2>1. n \in 1..N
    BY <1>1
  <2>2. calls'[t][n] = calls[t][n] /\ calls'[t][k] = calls[t][k]
    BY <1>1, <2>1
  <2> QED BY <2>1, <2>2 DEF CallsInv, InTurn
<1> QED BY <1>3, <1>4, <1>5, <1>6, <1>7 DEF CallsInv

\* What may be sent when a call ends: its own answers, failed before done, and
\* one at least if a method threw or an answer was asked for.
AnswersTo(m, f, r) ==
    /\ \A i \in 1..Len(r) : r[i].type = "answer" =>
         /\ r[i].n = m.n /\ r[i].id = m.id
         /\ r[i].err = F => f = "threw"
         /\ r[i].err = D => m.cb /\ (f = "returned" \/ m.on \in Void)
         /\ \A j \in 1..(i - 1) :
              r[j].type = "answer" => r[j].err = F /\ r[i].err = D
    /\ m.on \in Methods /\ (m.cb \/ f = "threw") =>
         \E i \in 1..Len(r) : r[i].type = "answer"

\* A call that ends is the first of its queue, and its answers are the last.
Ends(t, m, f, r) ==
    /\ toMod[t] # <<>> /\ m = Head(toMod[t]) /\ toMod'[t] = Tail(toMod[t])
    /\ calls'[t] = [calls[t] EXCEPT ![m.n].fate = f]
    /\ toSrv'[t] = toSrv[t] \o r

\* Ending a call, with the answers it owes, keeps what is said of every call.
LEMMA CallEnded ==
    ASSUME TypeOK, NEW t \in Servers, CallsInv(t), object'[t] = object[t],
           NEW m \in ModMsg, m.type = "call", NEW f \in {"returned", "threw"},
           NEW r \in Seq(SrvMsg), Ends(t, m, f, r), AnswersTo(m, f, r)
    PROVE  CallsInv(t)'
<1> DEFINE N == Len(calls[t])
<1>1. /\ Len(toMod[t]) \in Nat \ {0} /\ m = toMod[t][1]
      /\ Len(toMod'[t]) = Len(toMod[t]) - 1
      /\ \A i \in 1..Len(toMod'[t]) :
           i + 1 \in 1..Len(toMod[t]) /\ toMod'[t][i] = toMod[t][i + 1]
      /\ \A i \in 1..Len(toMod[t]) : i = 1 \/
           (i - 1 \in 1..Len(toMod'[t]) /\ toMod'[t][i - 1] = toMod[t][i])
  <2>1. toMod[t] \in Seq(ModMsg)
    BY DEF TypeOK
  <2> QED BY <2>1, TailAt DEF Ends
<1>2. /\ m.n \in 1..N /\ calls[t][m.n].on = m.on /\ calls[t][m.n].id = m.id
      /\ calls[t][m.n].cb = m.cb
      /\ \A k \in m.n..N : calls[t][k].fate = "waiting"
      /\ \A i \in 1..Len(toMod'[t]) :
           toMod'[t][i].type = "call" => m.n < toMod'[t][i].n
  <2>1. 1 \in 1..Len(toMod[t]) /\ toMod[t][1].type = "call" /\ toMod[t][1] = m
    BY <1>1
  <2>2. /\ m.n \in 1..N /\ calls[t][m.n].on = m.on /\ calls[t][m.n].id = m.id
        /\ calls[t][m.n].cb = m.cb
        /\ \A k \in m.n..N : calls[t][k].fate = "waiting"
    BY <2>1 DEF CallsInv, CallsQueued
  <2>3. ASSUME NEW i \in 1..Len(toMod'[t]), toMod'[t][i].type = "call"
        PROVE  m.n < toMod'[t][i].n
    <3>1. i + 1 \in 1..Len(toMod[t]) /\ toMod'[t][i] = toMod[t][i + 1]
          /\ 1 \in 1..((i + 1) - 1)
      BY <1>1
    <3> QED BY <2>1, <2>3, <3>1 DEF CallsInv, CallsQueued
  <2> QED BY <2>2, <2>3
<1>3. /\ Len(calls'[t]) = N /\ N \in Nat /\ calls[t] \in Seq(Call)
      /\ \A k \in 1..N : k # m.n => calls'[t][k] = calls[t][k]
      /\ calls'[t][m.n] = [calls[t][m.n] EXCEPT !.fate = f]
      /\ calls[t][m.n] \in Call
  <2>1. calls[t] \in Seq(Call)
    BY DEF TypeOK
  <2>2. m.n \in 1..N
    BY <1>2
  <2> QED BY <2>1, <2>2 DEF Ends
<1>4. /\ calls'[t][m.n].on = m.on /\ calls'[t][m.n].id = m.id
      /\ calls'[t][m.n].cb = m.cb /\ calls'[t][m.n].fate = f
      /\ calls'[t][m.n].told = calls[t][m.n].told
  BY <1>2, <1>3 DEF Call
<1>5. \A k \in m.n..N : calls[t][k].told = <<>>
  <2>1. \A k \in m.n..N : k \in 1..N
    BY <1>2
  <2> QED BY <1>2, <2>1 DEF CallsInv, ToldTruly
<1>6. /\ Len(toSrv[t]) \in Nat
      /\ \A i \in 1..Len(toSrv[t]) :
           i \in 1..Len(toSrv'[t]) /\ toSrv'[t][i] = toSrv[t][i]
      /\ \A i \in 1..Len(r) : Len(toSrv[t]) + i \in 1..Len(toSrv'[t])
                              /\ toSrv'[t][Len(toSrv[t]) + i] = r[i]
      /\ \A i \in 1..Len(toSrv'[t]) : i \in 1..Len(toSrv[t]) \/
           (i - Len(toSrv[t]) \in 1..Len(r) /\ toSrv'[t][i] = r[i - Len(toSrv[t])])
  <2>1. toSrv[t] \in Seq(SrvMsg)
    BY DEF TypeOK
  <2>2. /\ Len(toSrv'[t]) = Len(toSrv[t]) + Len(r)
        /\ Len(toSrv[t]) \in Nat /\ Len(r) \in Nat
        /\ \A i \in 1..Len(toSrv[t]) : toSrv'[t][i] = toSrv[t][i]
        /\ \A i \in 1..Len(r) : toSrv'[t][Len(toSrv[t]) + i] = r[i]
        /\ \A i \in 1..Len(toSrv'[t]) : i \in 1..Len(toSrv[t]) \/
           (i - Len(toSrv[t]) \in 1..Len(r) /\ toSrv'[t][i] = r[i - Len(toSrv[t])])
    BY <2>1, ConcatAt DEF Ends
  <2> QED BY <2>2
<1> HIDE DEF N
<1>n. /\ N \in Nat /\ m.n \in 1..N /\ m.n \in m.n..N /\ Len(calls'[t]) = N
      /\ Len(toMod'[t]) \in Nat
  BY <1>1, <1>2, <1>3
<1>7. CallsQueued(t)'
  <2> SUFFICES ASSUME NEW i \in 1..Len(toMod'[t]), toMod'[t][i].type = "call"
               PROVE  /\ toMod'[t][i].n \in 1..Len(calls'[t])
                      /\ calls'[t][toMod'[t][i].n].on = toMod'[t][i].on
                      /\ calls'[t][toMod'[t][i].n].id = toMod'[t][i].id
                      /\ calls'[t][toMod'[t][i].n].cb = toMod'[t][i].cb
                      /\ \A k \in toMod'[t][i].n..Len(calls'[t]) :
                           calls'[t][k].fate = "waiting"
                      /\ \A j \in 1..(i - 1) : toMod'[t][j].type = "call" =>
                           toMod'[t][j].n < toMod'[t][i].n
    BY DEF CallsQueued
  <2> DEFINE n == toMod'[t][i].n
  <2>1. i + 1 \in 1..Len(toMod[t]) /\ toMod'[t][i] = toMod[t][i + 1]
    BY <1>1
  <2>2. /\ n \in 1..N /\ calls[t][n].on = toMod'[t][i].on
        /\ calls[t][n].id = toMod'[t][i].id /\ calls[t][n].cb = toMod'[t][i].cb
        /\ \A k \in n..N : calls[t][k].fate = "waiting"
        /\ \A j \in 1..((i + 1) - 1) : toMod[t][j].type = "call" => toMod[t][j].n < n
        /\ m.n < n
    BY <1>2, <2>1 DEF CallsInv, CallsQueued, N
  <2>3. \A j \in 1..(i - 1) :
          j + 1 \in 1..((i + 1) - 1) /\ toMod'[t][j] = toMod[t][j + 1]
    <3>1. \A j \in 1..(i - 1) : j \in 1..Len(toMod'[t]) /\ j + 1 \in 1..((i + 1) - 1)
      BY <1>n
    <3> QED BY <1>1, <3>1
  <2> HIDE DEF n
  <2>4. \A k \in n..N : k \in 1..N /\ k # m.n
    BY <1>n, <2>2
  <2>5. \A j \in 1..(i - 1) :
          toMod'[t][j].type = "call" => toMod'[t][j].n < n
    BY <2>2, <2>3
  <2>6. calls'[t][n] = calls[t][n] /\ n \in 1..Len(calls'[t])
        /\ \A k \in n..Len(calls'[t]) : calls'[t][k].fate = "waiting"
    <3>1. n \in n..N
      BY <1>n, <2>2
    <3> QED BY <1>3, <1>n, <2>2, <2>4, <3>1
  <2> QED BY <2>2, <2>5, <2>6 DEF n
<1>8. ToldTruly(t)'
  <2> SUFFICES ASSUME NEW n \in 1..N
               PROVE  /\ calls'[t][n].told \in {<<>>, <<F>>, <<D>>, <<F, D>>}
                      /\ calls'[t][n].told \in {<<F>>, <<F, D>>} =>
                           Deserved(calls'[t][n], F)
                      /\ calls'[t][n].told \in {<<D>>, <<F, D>>} =>
                           Deserved(calls'[t][n], D)
                      /\ calls'[t][n].fate = "waiting" => calls'[t][n].told = <<>>
    BY <1>3 DEF ToldTruly, Deserved
  <2>1. CASE n # m.n
    <3>1. calls'[t][n] = calls[t][n]
      BY <1>3, <2>1
    <3> QED BY <3>1 DEF CallsInv, ToldTruly, N
  <2>2. CASE n = m.n
    <3>1. Len(<<>>) = 0 /\ Len(<<F>>) = 1 /\ Len(<<D>>) = 1 /\ Len(<<F, D>>) = 2
      OBVIOUS
    <3>2. <<>> \notin {<<F>>, <<D>>, <<F, D>>}
      BY <3>1
    <3>3. calls'[t][n].told = <<>>
      BY <1>4, <1>5, <1>n, <2>2
    <3> QED BY <3>2, <3>3
  <2> QED BY <2>1, <2>2
<1>9. \A l \in SrvMsg : l.type = "answer" /\ Due(calls[t], l) =>
        Due(calls'[t], l) /\ l.n < m.n
  <2> SUFFICES ASSUME NEW l \in SrvMsg, Due(calls[t], l)
               PROVE  Due(calls'[t], l) /\ l.n < m.n
    OBVIOUS
  <2>1. l.n \in 1..N /\ calls[t][l.n].fate # "waiting"
    BY DEF Due, N
  <2>2. l.n < m.n
    BY <1>2, <2>1, <1>3
  <2>3. Len(calls'[t]) = N /\ \A k \in 1..N : k # m.n => calls'[t][k] = calls[t][k]
    BY <1>3
  <2>4. l.n # m.n
    BY <1>n, <2>1, <2>2
  <2>5. calls'[t][l.n] = calls[t][l.n] /\ l.n \in 1..Len(calls'[t])
    BY <2>3, <2>1, <2>4
  <2> QED BY <2>2, <2>5 DEF Due
<1>10. AnswersQueued(t)'
  <2> SUFFICES ASSUME NEW i \in 1..Len(toSrv'[t]), toSrv'[t][i].type = "answer"
               PROVE  /\ Due(calls'[t], toSrv'[t][i])
                      /\ \A j \in 1..(i - 1) : toSrv'[t][j].type = "answer" =>
                           \/ toSrv'[t][j].n < toSrv'[t][i].n
                           \/ /\ toSrv'[t][j].n = toSrv'[t][i].n
                              /\ toSrv'[t][j].err = F /\ toSrv'[t][i].err = D
    BY DEF AnswersQueued
  <2>1. toSrv[t] \in Seq(SrvMsg)
    BY DEF TypeOK
  <2>2. CASE i \in 1..Len(toSrv[t])
    <3>1. \A j \in 1..(i - 1) : j \in 1..Len(toSrv[t])
      BY <1>6, <2>2
    <3>2. toSrv[t][i] \in SrvMsg /\ toSrv'[t][i] = toSrv[t][i]
          /\ Due(calls[t], toSrv[t][i])
      BY <1>6, <2>1, <2>2 DEF CallsInv, AnswersQueued
    <3>3. \A j \in 1..(i - 1) : toSrv'[t][j] = toSrv[t][j]
      BY <1>6, <3>1
    <3>4. \A j \in 1..(i - 1) : toSrv[t][j].type = "answer" =>
            \/ toSrv[t][j].n < toSrv[t][i].n
            \/ /\ toSrv[t][j].n = toSrv[t][i].n
               /\ toSrv[t][j].err = F /\ toSrv[t][i].err = D
      BY <2>2, <3>2 DEF CallsInv, AnswersQueued
    <3> QED BY <1>9, <3>2, <3>3, <3>4
  <2>3. ASSUME NEW x \in 1..Len(r), x = i - Len(toSrv[t]), toSrv'[t][i] = r[x]
        PROVE  /\ Due(calls'[t], toSrv'[t][i])
               /\ \A j \in 1..(i - 1) : toSrv'[t][j].type = "answer" =>
                    \/ toSrv'[t][j].n < toSrv'[t][i].n
                    \/ /\ toSrv'[t][j].n = toSrv'[t][i].n
                       /\ toSrv'[t][j].err = F /\ toSrv'[t][i].err = D
    <3>1. /\ r[x].n = m.n /\ r[x].id = m.id
          /\ r[x].err = F => f = "threw"
          /\ r[x].err = D => m.cb /\ (f = "returned" \/ m.on \in Void)
          /\ \A j \in 1..(x - 1) :
               r[j].type = "answer" => r[j].err = F /\ r[x].err = D
      BY <2>3 DEF AnswersTo
    <3>2. calls[t][m.n].told = <<>> /\ m.n \in 1..Len(calls'[t])
      BY <1>5, <1>n
    <3>3. Due(calls'[t], r[x])
      BY <1>4, <3>1, <3>2 DEF Due, Deserved
    <3>4. ASSUME NEW j \in 1..(i - 1), toSrv'[t][j].type = "answer"
          PROVE  \/ toSrv'[t][j].n < m.n
                 \/ toSrv'[t][j].n = m.n /\ toSrv'[t][j].err = F /\ r[x].err = D
      <4>1. CASE j \in 1..Len(toSrv[t])
        <5>1. toSrv[t][j] \in SrvMsg /\ toSrv'[t][j] = toSrv[t][j]
          BY <1>6, <2>1, <4>1
        <5>2. Due(calls[t], toSrv[t][j])
          BY <3>4, <4>1, <5>1 DEF CallsInv, AnswersQueued
        <5> QED BY <1>9, <3>4, <5>1, <5>2
      <4>2. CASE j \notin 1..Len(toSrv[t])
        <5>1. j \in 1..Len(toSrv'[t])
          OBVIOUS
        <5>2. /\ j - Len(toSrv[t]) \in 1..Len(r)
              /\ toSrv'[t][j] = r[j - Len(toSrv[t])]
          BY <1>6, <4>2, <5>1
        <5>3. j - Len(toSrv[t]) \in 1..(x - 1)
          BY <1>6, <2>3, <5>2
        <5>4. r[j - Len(toSrv[t])].n = m.n
          BY <3>4, <5>2 DEF AnswersTo
        <5> QED BY <3>1, <3>4, <5>2, <5>3, <5>4
      <4> QED BY <4>1, <4>2
    <3> QED BY <2>3, <3>1, <3>3, <3>4
  <2> QED BY <1>6, <2>2, <2>3
<1>11. NoneLost(t)'
  <2> SUFFICES ASSUME Live(t), NEW k \in 1..Len(calls'[t]),
                      calls'[t][k].id = object[t].id
               PROVE  /\ calls'[t][k].fate = "waiting" =>
                           \E i \in 1..Len(toMod'[t]) :
                             toMod'[t][i].type = "call" /\ toMod'[t][i].n = k
                      /\ calls'[t][k].fate # "waiting" /\ calls'[t][k].on \in Methods
                         /\ (calls'[t][k].cb \/ calls'[t][k].fate = "threw")
                         /\ calls'[t][k].told = <<>> =>
                           \E i \in 1..Len(toSrv'[t]) :
                             toSrv'[t][i].type = "answer" /\ toSrv'[t][i].n = k
    BY DEF NoneLost, Live
  <2>n. k \in 1..N
    BY <1>n
  <2>1. CASE k # m.n
    <3>1. calls'[t][k] = calls[t][k]
      BY <1>3, <2>1, <2>n
    <3>2. ASSUME calls[t][k].fate = "waiting"
          PROVE  \E i \in 1..Len(toMod'[t]) :
                   toMod'[t][i].type = "call" /\ toMod'[t][i].n = k
      <4>1. PICK i \in 1..Len(toMod[t]) :
              toMod[t][i].type = "call" /\ toMod[t][i].n = k
        BY <2>n, <3>1, <3>2 DEF CallsInv, NoneLost, N
      <4>2. i # 1
        BY <1>1, <2>1, <4>1
      <4> QED BY <1>1, <4>1, <4>2
    <3>3. ASSUME calls[t][k].fate # "waiting", calls[t][k].on \in Methods,
                 calls[t][k].cb \/ calls[t][k].fate = "threw",
                 calls[t][k].told = <<>>
          PROVE  \E i \in 1..Len(toSrv'[t]) :
                   toSrv'[t][i].type = "answer" /\ toSrv'[t][i].n = k
      <4>1. PICK i \in 1..Len(toSrv[t]) :
              toSrv[t][i].type = "answer" /\ toSrv[t][i].n = k
        BY <2>n, <3>1, <3>3 DEF CallsInv, NoneLost, N
      <4>2. i \in 1..Len(toSrv'[t]) /\ toSrv'[t][i] = toSrv[t][i]
        BY <1>6
      <4> QED BY <4>1, <4>2
    <3> QED BY <3>1, <3>2, <3>3
  <2>2. CASE k = m.n
    <3>1. ASSUME m.on \in Methods, m.cb \/ f = "threw"
          PROVE  \E i \in 1..Len(toSrv'[t]) :
                   toSrv'[t][i].type = "answer" /\ toSrv'[t][i].n = k
      <4>1. PICK i \in 1..Len(r) : r[i].type = "answer"
        BY <3>1 DEF AnswersTo
      <4>2. r[i].n = m.n
        BY <4>1 DEF AnswersTo
      <4>3. /\ Len(toSrv[t]) + i \in 1..Len(toSrv'[t])
            /\ toSrv'[t][Len(toSrv[t]) + i] = r[i]
        BY <1>6
      <4> QED BY <2>2, <4>1, <4>2, <4>3
    <3> QED BY <1>4, <2>2, <3>1
  <2> QED BY <2>1, <2>2
<1>12. InTurn(t)'
  <2> SUFFICES ASSUME NEW n \in 1..N, calls'[t][n].told # <<>>,
                      NEW k \in 1..(n - 1),
                      calls'[t][k].id = calls'[t][n].id,
                      calls'[t][k].on \in Methods,
                      calls'[t][k].cb \/ calls'[t][k].fate = "threw"
               PROVE  calls'[t][k].told # <<>>
    BY <1>3 DEF InTurn
  <2>1. n < m.n
    <3>1. calls[t][n].told # <<>>
      BY <1>3, <1>4
    <3>2. n \notin m.n..N
      BY <1>5, <3>1
    <3> QED BY <1>n, <3>2
  <2>2. calls'[t][n] = calls[t][n] /\ calls'[t][k] = calls[t][k]
    <3>1. k \in 1..N /\ k # m.n /\ n # m.n
      BY <1>n, <2>1
    <3> QED BY <1>3, <3>1
  <2>3. /\ calls[t][n].told # <<>> /\ calls[t][k].id = calls[t][n].id
        /\ calls[t][k].on \in Methods
        /\ calls[t][k].cb \/ calls[t][k].fate = "threw"
    BY <2>2
  <2>4. calls[t][k].told # <<>>
    BY <2>3 DEF CallsInv, InTurn, N
  <2> QED BY <2>2, <2>4
<1> QED BY <1>7, <1>8, <1>10, <1>11, <1>12 DEF CallsInv

LEMMA Appended ==
    ASSUME NEW S, NEW f \in S, NEW d \in S
    PROVE  Append(<<>>, f) = <<f>> /\ Append(<<f>>, d) = <<f, d>>
<1>1. <<>> \in Seq(S) /\ <<f>> \in Seq(S) /\ <<f, d>> \in Seq(S)
  OBVIOUS
<1>2. Append(<<>>, f) = <<f>>
  <2>1. Append(<<>>, f) \in Seq(S) /\ Len(Append(<<>>, f)) = 1
        /\ Append(<<>>, f)[1] = f
    BY <1>1
  <2> QED BY <1>1, <2>1
<1>3. Append(<<f>>, d) = <<f, d>>
  <2>1. Append(<<f>>, d) \in Seq(S) /\ Len(Append(<<f>>, d)) = 2
        /\ Append(<<f>>, d)[1] = f /\ Append(<<f>>, d)[2] = d
    BY <1>1
  <2>2. Len(<<f, d>>) = 2 /\ <<f, d>>[1] = f /\ <<f, d>>[2] = d
    OBVIOUS
  <2>3. \A i \in 1..2 : i = 1 \/ i = 2
    OBVIOUS
  <2>4. \A i \in 1..2 : Append(<<f>>, d)[i] = <<f, d>>[i]
    BY <2>1, <2>2, <2>3
  <2> QED BY <1>1, <2>1, <2>2, <2>4, SeqEqual
<1> QED BY <1>2, <1>3

\* What the script is told of a call changes nothing else about it.
Answered(t, n, err) ==
    LET c == calls[t][n]
        d == calls'[t][n]
    IN /\ Len(calls'[t]) = Len(calls[t])
       /\ \A k \in 1..Len(calls[t]) : k # n => calls'[t][k] = calls[t][k]
       /\ d.on = c.on /\ d.id = c.id /\ d.cb = c.cb /\ d.fate = c.fate
       /\ d.told = Append(c.told, err)

LEMMA AnsweredAt ==
    ASSUME TypeOK, NEW t \in Servers, NEW n, n \in 1..Len(calls[t]), NEW err,
           calls'[t] = [calls[t] EXCEPT ![n].told = Append(@, err)]
    PROVE  Answered(t, n, err)
<1>1. calls[t] \in Seq(Call)
  BY DEF TypeOK
<1>2. /\ Len(calls'[t]) = Len(calls[t])
      /\ \A k \in 1..Len(calls[t]) : k # n => calls'[t][k] = calls[t][k]
      /\ calls'[t][n] = [calls[t][n] EXCEPT !.told = Append(@, err)]
      /\ calls[t][n] \in Call
  BY <1>1
<1> QED BY <1>2 DEF Answered, Call

\* An answer that is read belongs to the first call that still waits for one.
LEMMA CallTold ==
    ASSUME TypeOK, NEW t \in Servers, CallsInv(t), Live(t),
           object'[t] = object[t], toMod'[t] = toMod[t],
           toSrv[t] # <<>>, toSrv'[t] = Tail(toSrv[t]),
           NEW m \in SrvMsg, m = Head(toSrv[t]), m.type = "answer",
           m.id = object[t].id, m.err \in Errs,
           Answered(t, m.n, m.err)
    PROVE  CallsInv(t)'
<1> DEFINE N == Len(calls[t])
<1>1. /\ Len(toSrv[t]) \in Nat \ {0} /\ m = toSrv[t][1]
      /\ Len(toSrv'[t]) = Len(toSrv[t]) - 1
      /\ \A i \in 1..Len(toSrv'[t]) :
           i + 1 \in 1..Len(toSrv[t]) /\ toSrv'[t][i] = toSrv[t][i + 1]
      /\ \A i \in 1..Len(toSrv[t]) : i = 1 \/
           (i - 1 \in 1..Len(toSrv'[t]) /\ toSrv'[t][i - 1] = toSrv[t][i])
  BY TailAt DEF TypeOK
<1>2. 1 \in 1..Len(toSrv[t]) /\ toSrv[t][1].type = "answer" /\ toSrv[t][1] = m
      /\ Len(toSrv'[t]) \in Nat
  BY <1>1
<1>3. Due(calls[t], m)
  BY <1>2 DEF CallsInv, AnswersQueued
<1>4. /\ N \in Nat /\ m.n \in 1..N /\ Len(calls'[t]) = N
      /\ \A k \in 1..N : k # m.n => calls'[t][k] = calls[t][k]
  <2>1. calls[t] \in Seq(Call)
    BY DEF TypeOK
  <2>2. N \in Nat
    BY <2>1
  <2> QED BY <1>3, <2>2 DEF Due, Answered
<1>5. /\ calls'[t][m.n].on = calls[t][m.n].on
      /\ calls'[t][m.n].id = calls[t][m.n].id
      /\ calls'[t][m.n].cb = calls[t][m.n].cb
      /\ calls'[t][m.n].fate = calls[t][m.n].fate
      /\ calls'[t][m.n].told = Append(calls[t][m.n].told, m.err)
  BY DEF Answered
<1>6. /\ calls[t][m.n].id = object[t].id /\ calls[t][m.n].fate # "waiting"
      /\ Deserved(calls[t][m.n], m.err)
      /\ \/ m.err = F /\ calls'[t][m.n].told = <<F>>
         \/ m.err = D /\ calls'[t][m.n].told = <<D>>
         \/ /\ m.err = D /\ calls[t][m.n].told = <<F>>
            /\ calls'[t][m.n].told = <<F, D>>
  <2>1. m.err = F \/ m.err = D
    BY DEF Errs, F, D
  <2>2. /\ calls[t][m.n].fate # "waiting" /\ Deserved(calls[t][m.n], m.err)
        /\ calls[t][m.n].id = object[t].id
        /\ m.err = F => calls[t][m.n].told = <<>>
        /\ m.err = D => calls[t][m.n].told \in {<<>>, <<F>>}
    BY <1>3 DEF Due
  <2>3. Append(<<>>, F) = <<F>> /\ Append(<<>>, D) = <<D>>
        /\ Append(<<F>>, D) = <<F, D>>
    <3> F \in {F, D} /\ D \in {F, D}
      OBVIOUS
    <3> QED BY Appended
  <2> QED BY <1>5, <2>1, <2>2, <2>3
<1>7. calls'[t][m.n].told # <<>>
  <2>1. Len(<<>>) = 0 /\ Len(<<F>>) = 1 /\ Len(<<D>>) = 1 /\ Len(<<F, D>>) = 2
    OBVIOUS
  <2>2. <<F>> # <<>> /\ <<D>> # <<>> /\ <<F, D>> # <<>>
    BY <2>1
  <2> QED BY <1>6, <2>2
<1>n. N \in Nat /\ m.n \in 1..N /\ Len(calls'[t]) = N
  BY <1>4
<1> HIDE DEF N
<1>8. CallsQueued(t)'
  <2>1. \A k \in 1..N : /\ calls'[t][k].on = calls[t][k].on
                        /\ calls'[t][k].id = calls[t][k].id
                        /\ calls'[t][k].cb = calls[t][k].cb
                        /\ calls'[t][k].fate = calls[t][k].fate
    BY <1>4, <1>5
  <2> SUFFICES ASSUME NEW i \in 1..Len(toMod[t]), toMod[t][i].type = "call"
               PROVE  /\ toMod[t][i].n \in 1..Len(calls'[t])
                      /\ calls'[t][toMod[t][i].n].on = toMod[t][i].on
                      /\ calls'[t][toMod[t][i].n].id = toMod[t][i].id
                      /\ calls'[t][toMod[t][i].n].cb = toMod[t][i].cb
                      /\ \A k \in toMod[t][i].n..Len(calls'[t]) :
                           calls'[t][k].fate = "waiting"
                      /\ \A j \in 1..(i - 1) : toMod[t][j].type = "call" =>
                           toMod[t][j].n < toMod[t][i].n
    BY DEF CallsQueued
  <2>2. /\ toMod[t][i].n \in 1..N
        /\ calls[t][toMod[t][i].n].on = toMod[t][i].on
        /\ calls[t][toMod[t][i].n].id = toMod[t][i].id
        /\ calls[t][toMod[t][i].n].cb = toMod[t][i].cb
        /\ \A k \in toMod[t][i].n..N : calls[t][k].fate = "waiting"
        /\ \A j \in 1..(i - 1) : toMod[t][j].type = "call" =>
             toMod[t][j].n < toMod[t][i].n
    BY DEF CallsInv, CallsQueued, N
  <2>3. \A k \in toMod[t][i].n..N : k \in 1..N
    BY <1>n, <2>2
  <2> QED BY <1>n, <2>1, <2>2, <2>3
<1>9. ToldTruly(t)'
  <2> SUFFICES ASSUME NEW n \in 1..N
               PROVE  /\ calls'[t][n].told \in {<<>>, <<F>>, <<D>>, <<F, D>>}
                      /\ calls'[t][n].told \in {<<F>>, <<F, D>>} =>
                           Deserved(calls'[t][n], F)
                      /\ calls'[t][n].told \in {<<D>>, <<F, D>>} =>
                           Deserved(calls'[t][n], D)
                      /\ calls'[t][n].fate = "waiting" => calls'[t][n].told = <<>>
    BY <1>n DEF ToldTruly, Deserved
  <2>o. /\ calls[t][n].told \in {<<F>>, <<F, D>>} => Deserved(calls[t][n], F)
        /\ calls[t][n].told \in {<<D>>, <<F, D>>} => Deserved(calls[t][n], D)
    BY DEF CallsInv, ToldTruly, N
  <2>1. CASE n # m.n
    <3>1. calls'[t][n] = calls[t][n]
      BY <1>4, <2>1
    <3> QED BY <2>o, <3>1 DEF CallsInv, ToldTruly, N
  <2>2. CASE n = m.n
    <3>1. <<F>> \notin {<<D>>, <<F, D>>} /\ <<D>> \notin {<<F>>, <<F, D>>}
      <4>1. /\ Len(<<F>>) = 1 /\ Len(<<D>>) = 1 /\ Len(<<F, D>>) = 2
            /\ <<F>>[1] = F /\ <<D>>[1] = D /\ F # D
        BY DEF F, D
      <4> QED BY <4>1
    <3>2. Deserved(calls[t][n], F) => Deserved(calls'[t][n], F)
      BY <1>5, <2>2 DEF Deserved
    <3>3. Deserved(calls[t][n], D) => Deserved(calls'[t][n], D)
      BY <1>5, <2>2 DEF Deserved
    <3>4. calls'[t][n].fate # "waiting"
      BY <1>5, <1>6, <2>2
    <3>5. CASE m.err = F /\ calls'[t][m.n].told = <<F>>
      BY <1>6, <2>2, <3>1, <3>2, <3>4, <3>5
    <3>6. CASE m.err = D /\ calls'[t][m.n].told = <<D>>
      BY <1>6, <2>2, <3>1, <3>3, <3>4, <3>6
    <3>7. CASE m.err = D /\ calls[t][m.n].told = <<F>>
               /\ calls'[t][m.n].told = <<F, D>>
      <4>1. Deserved(calls[t][n], F) /\ Deserved(calls[t][n], D)
        BY <1>6, <2>o, <2>2, <3>7
      <4> QED BY <2>2, <3>2, <3>3, <3>4, <3>7, <4>1
    <3> QED BY <1>6, <3>5, <3>6, <3>7
  <2> QED BY <2>1, <2>2
<1>10. \A i \in 2..Len(toSrv[t]) : toSrv[t][i].type = "answer" =>
         m.n < toSrv[t][i].n \/
         (m.n = toSrv[t][i].n /\ m.err = F /\ toSrv[t][i].err = D)
  <2> SUFFICES ASSUME NEW i \in 2..Len(toSrv[t]), toSrv[t][i].type = "answer"
               PROVE  m.n < toSrv[t][i].n \/
                      (m.n = toSrv[t][i].n /\ m.err = F /\ toSrv[t][i].err = D)
    OBVIOUS
  <2>1. i \in 1..Len(toSrv[t]) /\ 1 \in 1..(i - 1)
    BY <1>1
  <2> QED BY <1>2, <2>1 DEF CallsInv, AnswersQueued
<1>11. AnswersQueued(t)'
  <2> SUFFICES ASSUME NEW i \in 1..Len(toSrv'[t]), toSrv'[t][i].type = "answer"
               PROVE  /\ Due(calls'[t], toSrv'[t][i])
                      /\ \A j \in 1..(i - 1) : toSrv'[t][j].type = "answer" =>
                           \/ toSrv'[t][j].n < toSrv'[t][i].n
                           \/ /\ toSrv'[t][j].n = toSrv'[t][i].n
                              /\ toSrv'[t][j].err = F /\ toSrv'[t][i].err = D
    BY DEF AnswersQueued
  <2> DEFINE l == toSrv'[t][i]
  <2>1. i + 1 \in 1..Len(toSrv[t]) /\ l = toSrv[t][i + 1] /\ i + 1 \in 2..Len(toSrv[t])
    BY <1>1
  <2>2. /\ Due(calls[t], l)
        /\ \A j \in 1..((i + 1) - 1) : toSrv[t][j].type = "answer" =>
             \/ toSrv[t][j].n < l.n
             \/ toSrv[t][j].n = l.n /\ toSrv[t][j].err = F /\ l.err = D
    BY <2>1 DEF CallsInv, AnswersQueued
  <2>3. m.n < l.n \/ (m.n = l.n /\ m.err = F /\ l.err = D)
    BY <1>10, <2>1
  <2>4. \A j \in 1..(i - 1) :
          j + 1 \in 1..((i + 1) - 1) /\ toSrv'[t][j] = toSrv[t][j + 1]
    <3>1. \A j \in 1..(i - 1) : j \in 1..Len(toSrv'[t]) /\ j + 1 \in 1..((i + 1) - 1)
      BY <1>2
    <3> QED BY <1>1, <3>1
  <2>5. \A j \in 1..(i - 1) : toSrv'[t][j].type = "answer" =>
          \/ toSrv'[t][j].n < l.n
          \/ toSrv'[t][j].n = l.n /\ toSrv'[t][j].err = F /\ l.err = D
    BY <2>2, <2>4
  <2> HIDE DEF l
  <2>6. l.n \in 1..N
    BY <2>2 DEF Due, N
  <2>7. CASE m.n < l.n
    <3>1. calls'[t][l.n] = calls[t][l.n]
      BY <1>4, <1>n, <2>6, <2>7
    <3>2. Due(calls'[t], l)
      BY <1>n, <2>2, <2>6, <3>1 DEF Due
    <3> QED BY <2>5, <3>2 DEF l
  <2>8. CASE m.n = l.n /\ m.err = F /\ l.err = D
    <3>1. D # F
      BY DEF D, F
    <3>2. calls'[t][l.n].told = <<F>>
      BY <1>6, <2>8, <3>1
    <3>3. Due(calls'[t], l)
      BY <1>n, <1>5, <2>2, <2>6, <2>8, <3>1, <3>2, ZenonT(40) DEF Due, Deserved
    <3> QED BY <2>5, <3>3 DEF l
  <2> QED BY <2>3, <2>7, <2>8
<1>12. NoneLost(t)'
  <2> SUFFICES ASSUME NEW k \in 1..Len(calls'[t]), calls'[t][k].id = object[t].id
               PROVE  /\ calls'[t][k].fate = "waiting" =>
                           \E i \in 1..Len(toMod[t]) :
                             toMod[t][i].type = "call" /\ toMod[t][i].n = k
                      /\ calls'[t][k].fate # "waiting" /\ calls'[t][k].on \in Methods
                         /\ (calls'[t][k].cb \/ calls'[t][k].fate = "threw")
                         /\ calls'[t][k].told = <<>> =>
                           \E i \in 1..Len(toSrv'[t]) :
                             toSrv'[t][i].type = "answer" /\ toSrv'[t][i].n = k
    BY DEF NoneLost
  <2>1. CASE k = m.n
    BY <1>5, <1>6, <1>7, <2>1
  <2>2. CASE k # m.n
    <3>1. calls'[t][k] = calls[t][k] /\ k \in 1..N
      BY <1>4, <1>n, <2>2
    <3>2. ASSUME calls[t][k].fate # "waiting", calls[t][k].on \in Methods,
                 calls[t][k].cb \/ calls[t][k].fate = "threw",
                 calls[t][k].told = <<>>
          PROVE  \E i \in 1..Len(toSrv'[t]) :
                   toSrv'[t][i].type = "answer" /\ toSrv'[t][i].n = k
      <4>1. PICK i \in 1..Len(toSrv[t]) :
              toSrv[t][i].type = "answer" /\ toSrv[t][i].n = k
        BY <3>1, <3>2 DEF CallsInv, NoneLost, N
      <4>2. i # 1
        BY <1>2, <2>2, <4>1
      <4> QED BY <1>1, <4>1, <4>2
    <3>3. calls[t][k].fate = "waiting" =>
            \E i \in 1..Len(toMod[t]) :
              toMod[t][i].type = "call" /\ toMod[t][i].n = k
      BY <3>1 DEF CallsInv, NoneLost, N
    <3> QED BY <3>1, <3>2, <3>3
  <2> QED BY <2>1, <2>2
<1>13. InTurn(t)'
  <2> SUFFICES ASSUME NEW n \in 1..N, calls'[t][n].told # <<>>,
                      NEW k \in 1..(n - 1),
                      calls'[t][k].id = calls'[t][n].id,
                      calls'[t][k].on \in Methods,
                      calls'[t][k].cb \/ calls'[t][k].fate = "threw"
               PROVE  calls'[t][k].told # <<>>
    BY <1>n DEF InTurn
  <2>1. k \in 1..N /\ k # n
    BY <1>n
  <2>2. \A x \in 1..N : /\ calls'[t][x].on = calls[t][x].on
                        /\ calls'[t][x].id = calls[t][x].id
                        /\ calls'[t][x].cb = calls[t][x].cb
                        /\ calls'[t][x].fate = calls[t][x].fate
    BY <1>4, <1>5
  <2>3. /\ calls[t][k].id = calls[t][n].id /\ calls[t][k].on \in Methods
        /\ calls[t][k].cb \/ calls[t][k].fate = "threw"
    BY <2>1, <2>2
  <2>4. CASE k = m.n
    BY <1>7, <2>4
  <2>5. CASE k # m.n
    <3>1. calls'[t][k].told = calls[t][k].told
      BY <1>4, <2>1, <2>5
    <3>2. CASE calls[t][n].told # <<>>
      <4>1. calls[t][k].told # <<>>
        BY <2>3, <3>2 DEF CallsInv, InTurn, N
      <4> QED BY <3>1, <4>1
    <3>3. CASE calls[t][n].told = <<>>
      <4> SUFFICES ASSUME calls[t][k].told = <<>> PROVE FALSE
        BY <3>1
      <4>1. n = m.n
        BY <1>4, <3>3
      <4>2. calls[t][k].id = object[t].id
        BY <1>6, <2>3, <4>1
      <4>3. CASE calls[t][k].fate = "waiting"
        <5>1. PICK i \in 1..Len(toMod[t]) :
                toMod[t][i].type = "call" /\ toMod[t][i].n = k
          BY <2>1, <4>2, <4>3 DEF CallsInv, NoneLost, N
        <5>2. n \in k..N
          BY <1>n
        <5>3. calls[t][n].fate = "waiting"
          BY <5>1, <5>2 DEF CallsInv, CallsQueued, N
        <5> QED BY <1>6, <4>1, <5>3
      <4>4. CASE calls[t][k].fate # "waiting"
        <5>1. PICK i \in 1..Len(toSrv[t]) :
                toSrv[t][i].type = "answer" /\ toSrv[t][i].n = k
          BY <2>1, <2>3, <4>2, <4>4 DEF CallsInv, NoneLost, N
        <5>2. i \in 2..Len(toSrv[t])
          BY <1>2, <2>5, <5>1
        <5>3. m.n < k \/ m.n = k
          BY <1>10, <5>1, <5>2
        <5> QED BY <1>n, <2>5, <4>1, <5>3
      <4> QED BY <4>3, <4>4
    <3> QED BY <3>2, <3>3
  <2> QED BY <2>4, <2>5
<1> QED BY <1>8, <1>9, <1>11, <1>12, <1>13 DEF CallsInv

-----------------------------------------------------------------------------
(* Steps and queues.                                                       *)

LEMMA CallsAfter ==
    ASSUME NEW t, NEW q \in Seq(ModMsg), q = toMod[t], NEW m \in ModMsg,
           m.type # "call", toMod'[t] = Append(q, m)
    PROVE  SameCalls(t)
<1>1. /\ Len(q) \in Nat /\ Len(toMod'[t]) = Len(q) + 1
      /\ \A i \in 1..Len(q) : toMod'[t][i] = q[i]
      /\ toMod'[t][Len(q) + 1] = m
      /\ \A i \in 1..Len(toMod'[t]) : i \in 1..Len(q) \/ i = Len(q) + 1
  BY AppendAt
<1>2. \A i \in 1..Len(toMod'[t]) : toMod'[t][i].type = "call" =>
        i + 0 \in 1..Len(q) /\ toMod'[t][i] = q[i + 0]
  BY <1>1
<1>3. \A i \in 1..Len(q) : i - 0 \in 1..Len(toMod'[t]) /\ toMod'[t][i - 0] = q[i]
  BY <1>1
<1> QED BY <1>2, <1>3 DEF SameCalls

LEMMA CallsTail ==
    ASSUME NEW t, NEW q \in Seq(ModMsg), q = toMod[t], q # <<>>,
           Head(q).type # "call", toMod'[t] = Tail(q)
    PROVE  SameCalls(t)
<1>1. /\ Head(q) = q[1] /\ Len(q) \in Nat \ {0} /\ Len(toMod'[t]) = Len(q) - 1
      /\ \A i \in 1..Len(toMod'[t]) : i + 1 \in 1..Len(q) /\ toMod'[t][i] = q[i + 1]
      /\ \A i \in 1..Len(q) :
           i = 1 \/ (i - 1 \in 1..Len(toMod'[t]) /\ toMod'[t][i - 1] = q[i])
  BY TailAt
<1> QED BY <1>1 DEF SameCalls

LEMMA CallsKept ==
    ASSUME TypeOK, NEW t \in Servers, toMod'[t] = toMod[t]
    PROVE  SameCalls(t)
<1>1. Len(toMod[t]) \in Nat
  BY DEF TypeOK
<1>2. \A i \in 1..Len(toMod[t]) : i + 0 = i /\ i - 0 = i
  BY <1>1
<1> QED BY <1>2 DEF SameCalls

LEMMA AnswersAfter ==
    ASSUME TypeOK, NEW t \in Servers, NEW r \in Seq(SrvMsg),
           \A i \in 1..Len(r) : r[i].type # "answer", toSrv'[t] = toSrv[t] \o r
    PROVE  SameAnswers(t)
<1> DEFINE q == toSrv[t]
<1>1. q \in Seq(SrvMsg)
  BY DEF TypeOK
<1>2. /\ Len(toSrv'[t]) = Len(q) + Len(r) /\ Len(q) \in Nat /\ Len(r) \in Nat
      /\ \A i \in 1..Len(q) : toSrv'[t][i] = q[i]
      /\ \A i \in 1..Len(toSrv'[t]) : i \in 1..Len(q) \/
           (i - Len(q) \in 1..Len(r) /\ toSrv'[t][i] = r[i - Len(q)])
  BY <1>1, ConcatAt
<1>3. \A i \in 1..Len(toSrv'[t]) : toSrv'[t][i].type = "answer" =>
        i + 0 \in 1..Len(q) /\ toSrv'[t][i] = q[i + 0]
  BY <1>2
<1>4. \A i \in 1..Len(q) : i - 0 \in 1..Len(toSrv'[t]) /\ toSrv'[t][i - 0] = q[i]
  BY <1>2
<1> QED BY <1>3, <1>4 DEF SameAnswers

LEMMA AnswersTail ==
    ASSUME TypeOK, NEW t \in Servers, toSrv[t] # <<>>, toSrv'[t] = Tail(toSrv[t]),
           \/ Head(toSrv[t]).type # "answer"
           \/ Live(t)' => Head(toSrv[t]).id # object'[t].id
    PROVE  SameAnswers(t)
<1> DEFINE q == toSrv[t]
<1>1. q \in Seq(SrvMsg)
  BY DEF TypeOK
<1>2. /\ Head(q) = q[1] /\ Len(q) \in Nat \ {0} /\ Len(toSrv'[t]) = Len(q) - 1
      /\ \A i \in 1..Len(toSrv'[t]) : i + 1 \in 1..Len(q) /\ toSrv'[t][i] = q[i + 1]
      /\ \A i \in 1..Len(q) :
           i = 1 \/ (i - 1 \in 1..Len(toSrv'[t]) /\ toSrv'[t][i - 1] = q[i])
  BY <1>1, TailAt
<1> QED BY <1>2 DEF SameAnswers

LEMMA AnswersKept ==
    ASSUME TypeOK, NEW t \in Servers, toSrv'[t] = toSrv[t]
    PROVE  SameAnswers(t)
<1>1. Len(toSrv[t]) \in Nat
  BY DEF TypeOK
<1>2. \A i \in 1..Len(toSrv[t]) : i + 0 = i /\ i - 0 = i
  BY <1>1
<1> QED BY <1>2 DEF SameAnswers

LEMMA NewsAreNoAnswers ==
    ASSUME TypeOK, NEW t \in Servers, NEW a \in Attributes, NEW v \in Values
    PROVE  /\ News(t, a, v) \in Seq(SrvMsg)
           /\ \A i \in 1..Len(News(t, a, v)) : News(t, a, v)[i].type # "answer"
<1> DEFINE m == UpdateMsg(serverMap[t], a, v, Now + 1)
<1>1. m.type = "update"
  BY DEF UpdateMsg
<1> HIDE DEF m
<1>2. Len(<<>>) = 0 /\ Len(<<m>>) = 1 /\ \A i \in 1..Len(<<m>>) : <<m>>[i] = m
  OBVIOUS
<1>3. News(t, a, v) = <<>> \/ News(t, a, v) = <<m>>
  BY DEF News, m
<1>4. \A i \in 1..Len(News(t, a, v)) : News(t, a, v)[i].type # "answer"
  BY <1>1, <1>2, <1>3
<1> QED BY <1>4, NewsType

\* What a method is answered with are its answers.
LEMMA AnswersBelong ==
    ASSUME NEW m \in ModMsg, m.type = "call", m.on \in Methods,
           NEW f \in {"returned", "threw"}, NEW at \in Nat
    PROVE  AnswersTo(m, f, Answers(m, f, at))
<1> DEFINE failed == AnswerMsg(m.id, m.n, F, at)
<1> DEFINE done   == AnswerMsg(m.id, m.n, D, at)
<1> DEFINE p == IF f = "threw" THEN <<failed>> ELSE <<>>
<1> DEFINE q == IF m.cb /\ (f = "returned" \/ m.on \in Void) THEN <<done>> ELSE <<>>
<1>1. Answers(m, f, at) = p \o q
  BY DEF Answers, F, D
<1>2. /\ failed.type = "answer" /\ failed.n = m.n /\ failed.id = m.id
      /\ failed.err = F /\ done.type = "answer" /\ done.n = m.n
      /\ done.id = m.id /\ done.err = D /\ F # D
  BY DEF AnswerMsg, F, D
<1> HIDE DEF failed, done
<1>3. /\ <<>> \o <<>> = <<>> /\ <<failed>> \o <<>> = <<failed>>
      /\ <<>> \o <<done>> = <<done>> /\ <<failed>> \o <<done>> = <<failed, done>>
      /\ Len(<<>>) = 0 /\ Len(<<failed>>) = 1 /\ Len(<<done>>) = 1
      /\ <<failed>>[1] = failed /\ <<done>>[1] = done
      /\ Len(<<failed, done>>) = 2 /\ <<failed, done>>[1] = failed
      /\ <<failed, done>>[2] = done
  <2> DEFINE R == {failed, done}
  <2>1. <<>> \in Seq(R) /\ <<failed>> \in Seq(R) /\ <<done>> \in Seq(R)
    OBVIOUS
  <2>2. \A s \in Seq(R), e \in R : s \o <<e>> = Append(s, e)
    BY AppendIsConcat
  <2>3. Append(<<failed>>, done) = <<failed, done>> /\ Append(<<>>, done) = <<done>>
    <3> failed \in R /\ done \in R
      OBVIOUS
    <3> QED BY Appended
  <2>4. \A s \in Seq(R) : s \o <<>> = s
    BY ConcatEmptySeq
  <2> QED BY <2>1, <2>2, <2>3, <2>4
<1>4. CASE f = "threw" /\ m.cb /\ m.on \in Void
  <2>1. Answers(m, f, at) = <<failed, done>>
    BY <1>1, <1>3, <1>4
  <2>2. \A i \in 1..2 : i = 1 \/ (i = 2 /\ \A j \in 1..(i - 1) : j = 1)
    OBVIOUS
  <2>3. \A j \in 1..(1 - 1) : FALSE
    OBVIOUS
  <2> QED BY <1>2, <1>3, <1>4, <2>1, <2>2, <2>3 DEF AnswersTo
<1>5. CASE f = "threw" /\ ~(m.cb /\ m.on \in Void)
  <2>1. Answers(m, f, at) = <<failed>>
    BY <1>1, <1>3, <1>5
  <2>2. \A i \in 1..1 : i = 1 /\ \A j \in 1..(i - 1) : FALSE
    OBVIOUS
  <2> QED BY <1>2, <1>3, <1>5, <2>1, <2>2 DEF AnswersTo
<1>6. CASE f = "returned" /\ m.cb
  <2>1. Answers(m, f, at) = <<done>>
    BY <1>1, <1>3, <1>6
  <2>2. \A i \in 1..1 : i = 1 /\ \A j \in 1..(i - 1) : FALSE
    OBVIOUS
  <2> QED BY <1>2, <1>3, <1>6, <2>1, <2>2 DEF AnswersTo
<1>7. CASE f = "returned" /\ ~m.cb
  <2>1. Answers(m, f, at) = <<>>
    BY <1>1, <1>3, <1>7
  <2>2. \A i \in 1..0 : FALSE
    OBVIOUS
  <2> QED BY <1>3, <1>7, <2>1, <2>2 DEF AnswersTo
<1> QED BY <1>4, <1>5, <1>6, <1>7

\* News before them does not change that.
LEMMA AnswersAfterNews ==
    ASSUME NEW m, NEW f, NEW q \in Seq(SrvMsg), NEW r \in Seq(SrvMsg),
           \A i \in 1..Len(q) : q[i].type # "answer", AnswersTo(m, f, r)
    PROVE  AnswersTo(m, f, q \o r)
<1> DEFINE u == q \o r
<1>1. /\ Len(q) \in Nat /\ Len(r) \in Nat /\ Len(u) = Len(q) + Len(r)
      /\ \A i \in 1..Len(q) : u[i] = q[i]
      /\ \A i \in 1..Len(r) : u[Len(q) + i] = r[i]
      /\ \A i \in 1..Len(u) : i \in 1..Len(q) \/
           (i - Len(q) \in 1..Len(r) /\ u[i] = r[i - Len(q)])
  BY ConcatAt
<1> HIDE DEF u
<1>2. \A i \in 1..Len(u) : u[i].type = "answer" =>
        i - Len(q) \in 1..Len(r) /\ u[i] = r[i - Len(q)]
  BY <1>1
<1>3. ASSUME NEW i \in 1..Len(u), u[i].type = "answer",
             NEW j \in 1..(i - 1), u[j].type = "answer"
      PROVE  u[j].err = F /\ u[i].err = D
  <2>1. j \in 1..Len(u)
    BY <1>1
  <2>2. /\ i - Len(q) \in 1..Len(r) /\ u[i] = r[i - Len(q)]
        /\ j - Len(q) \in 1..Len(r) /\ u[j] = r[j - Len(q)]
    BY <1>2, <1>3, <2>1
  <2>3. j - Len(q) \in 1..((i - Len(q)) - 1)
    BY <1>1, <2>2
  <2> QED BY <1>3, <2>2, <2>3 DEF AnswersTo
<1>4. ASSUME NEW i \in 1..Len(u), u[i].type = "answer"
      PROVE  /\ u[i].n = m.n /\ u[i].id = m.id
             /\ u[i].err = F => f = "threw"
             /\ u[i].err = D => m.cb /\ (f = "returned" \/ m.on \in Void)
  BY <1>2, <1>4 DEF AnswersTo
<1>5. ASSUME NEW i \in 1..Len(r), r[i].type = "answer"
      PROVE  \E j \in 1..Len(u) : u[j].type = "answer"
  <2>1. Len(q) + i \in 1..Len(u) /\ u[Len(q) + i] = r[i]
    BY <1>1
  <2> QED BY <1>5, <2>1
<1> QED BY <1>3, <1>4, <1>5 DEF AnswersTo, u

LEMMA AnswersInit ==
    ASSUME Init, NEW s \in Servers
    PROVE  CallsInv(s)
<1>1. calls[s] = <<>> /\ toMod[s] = <<>> /\ toSrv[s] = <<>>
  BY DEF Init
<1>2. \A i \in 1..Len(<<>>) : FALSE
  OBVIOUS
<1> QED BY <1>1, <1>2 DEF CallsInv, CallsQueued, ToldTruly, AnswersQueued,
           NoneLost, InTurn

\* A script that assigns or calls adds the last call.
LEMMA RemoteAnswers ==
    ASSUME TypeOK, NEW t \in Servers, CallsInv(t), Exposed(t),
           NEW x \in Attributes \cup Methods, NEW v \in Values, Remote(t, x, v),
           toSrv'[t] = toSrv[t], object'[t].id = object[t].id
    PROVE  CallsInv(t)'
<1> DEFINE m == CallMsg(object[t].id, Len(calls[t]) + 1,
                        ~object[t].noCallback, x, v)
<1> DEFINE c == [on |-> x, id |-> object[t].id, cb |-> ~object[t].noCallback,
                 fate |-> "waiting", told |-> <<>>]
<1>1. /\ object[t] \in Object /\ object[t].id \in Nat
      /\ object[t].noCallback \in BOOLEAN /\ Len(calls[t]) + 1 \in Nat
  BY DEF TypeOK, Exposed, Live, Object
<1>2. m \in ModMsg
  BY <1>1 DEF CallMsg, ModMsg
<1>3. c \in Call
  <2>1. <<>> \in Seq(Errs)
    OBVIOUS
  <2> QED BY <1>1, <2>1 DEF Call, Fates
<1>4. /\ m.type = "call" /\ m.n = Len(calls[t]) + 1
      /\ c.on = m.on /\ c.id = m.id /\ c.cb = m.cb
      /\ c.fate = "waiting" /\ c.told = <<>>
  BY DEF CallMsg
<1>5. toMod'[t] = Append(toMod[t], m) /\ calls'[t] = Append(calls[t], c)
  BY DEF Remote, TypeOK
<1>6. Live(t)
  BY DEF Exposed
<1> HIDE DEF m, c
<1> QED BY <1>2, <1>3, <1>4, <1>5, <1>6, CallMade

LEMMA AnswersStep ==
    ASSUME TypeOK, [Next]_vars, NEW t \in Servers, Life(t), CallsInv(t)
    PROVE  CallsInv(t)'
<1> USE DEF program, server
<1>0. toMod[t] \in Seq(ModMsg) /\ toSrv[t] \in Seq(SrvMsg)
  BY DEF TypeOK
<1>1. CASE Idle(t)
  <2>1. /\ calls'[t] = calls[t] /\ toMod'[t] = toMod[t] /\ toSrv'[t] = toSrv[t]
        /\ object'[t] = object[t]
    BY <1>1 DEF Idle, At
  <2> QED BY <2>1, CallsKept, AnswersKept, CallsUntouched DEF SameOwner, Live
<1>2. ASSUME NEW a \in Attributes, NEW v \in Values, Informed(t, a, v)
      PROVE  CallsInv(t)'
  <2>1. /\ calls'[t] = calls[t] /\ toMod'[t] = toMod[t]
        /\ toSrv'[t] = toSrv[t] \o News(t, a, v) /\ object'[t] = object[t]
    BY <1>2 DEF Informed, At
  <2>2. SameAnswers(t)
    BY <2>1, NewsAreNoAnswers, AnswersAfter
  <2> QED BY <2>1, <2>2, CallsKept, CallsUntouched DEF SameOwner, Live
<1>3. CASE Register(t)
  <2>1. /\ calls'[t] = calls[t] /\ toSrv'[t] = toSrv[t] /\ nextObjId[t] \in Nat
        /\ toMod'[t] = Append(toMod[t], AssignMsg(nextObjId[t]))
        /\ object'[t].id = nextObjId[t]
    BY <1>3 DEF Register, NewObject, TypeOK
  <2>2. AssignMsg(nextObjId[t]) \in ModMsg /\ AssignMsg(nextObjId[t]).type # "call"
    BY <2>1 DEF AssignMsg, ModMsg
  <2>3. \A n \in 1..Len(calls[t]) : calls[t][n].id # nextObjId[t]
    <3> SUFFICES ASSUME NEW n \in 1..Len(calls[t])
                 PROVE  calls[t][n].id # nextObjId[t]
      OBVIOUS
    <3>1. calls[t][n].id < nextObjId[t]
      BY DEF Life, IdsBelow
    <3> QED BY <2>1, <3>1
  <2>4. SameCalls(t)
    BY <1>0, <2>1, <2>2, CallsAfter
  <2> QED BY <2>1, <2>3, <2>4, AnswersKept, CallsUntouched DEF SameOwner
<1>4. CASE Disconnect(t)
  <2>1. /\ calls'[t] = calls[t] /\ toSrv'[t] = toSrv[t] /\ ~Live(t)'
        /\ toMod'[t] = Append(toMod[t], ShutdownMsg)
    BY <1>4 DEF Disconnect, Live, TypeOK
  <2>2. ShutdownMsg \in ModMsg /\ ShutdownMsg.type # "call"
    BY DEF ShutdownMsg, ModMsg
  <2>3. SameCalls(t)
    BY <1>0, <2>1, <2>2, CallsAfter
  <2> QED BY <2>1, <2>3, AnswersKept, CallsUntouched DEF SameOwner
<1>5. ASSUME NEW b \in BOOLEAN, SetNoCallback(t, b) PROVE CallsInv(t)'
  <2>1. /\ calls'[t] = calls[t] /\ toMod'[t] = toMod[t] /\ toSrv'[t] = toSrv[t]
        /\ Live(t) /\ object[t] \in Object
        /\ object'[t] = [object[t] EXCEPT !.noCallback = b]
    BY <1>5 DEF SetNoCallback, Live, TypeOK
  <2>2. object'[t].id = object[t].id
    BY <2>1 DEF Object
  <2> QED BY <2>1, <2>2, CallsKept, AnswersKept, CallsUntouched DEF SameOwner
<1>6. ASSUME NEW a \in Attributes, NEW v \in Assigned, SetAttribute(t, a, v)
      PROVE  CallsInv(t)'
  <2>1. Narrow(v) \in Values
    BY CallsAssumption, Numbers
  <2>2. /\ Remote(t, a, Narrow(v)) /\ Exposed(t) /\ toSrv'[t] = toSrv[t]
        /\ object[t] \in Object
    BY <1>6 DEF SetAttribute, Exposed, Live, TypeOK
  <2>3. object'[t].id = object[t].id
    BY <1>6, <2>2 DEF SetAttribute, TypeOK, Object
  <2> QED BY <2>1, <2>2, <2>3, RemoteAnswers
<1>7. ASSUME NEW x \in Methods, CallMethod(t, x) PROVE CallsInv(t)'
  <2>1. /\ Remote(t, x, 0) /\ Exposed(t) /\ toSrv'[t] = toSrv[t]
        /\ object' = object
    BY <1>7 DEF CallMethod
  <2> QED BY <2>1, Numbers, RemoteAnswers
<1>8. CASE HandleAssign(t)
  <2> DEFINE e == ExposeMsg(Head(toMod[t]).id, value, Now)
  <2>1. /\ toMod[t] # <<>> /\ Head(toMod[t]).type = "assign"
        /\ toMod'[t] = Tail(toMod[t]) /\ calls'[t] = calls[t]
        /\ object'[t] = object[t] /\ toSrv'[t] = Append(toSrv[t], e)
    BY <1>8 DEF HandleAssign, Took, TypeOK
  <2>2. e \in SrvMsg /\ e.type = "expose"
    <3>1. Head(toMod[t]) \in ModMsg
      BY <1>0, <2>1, TailAt
    <3>2. Head(toMod[t]).id \in Nat /\ Now \in Nat
          /\ value \in [Attributes -> Values]
      BY <2>1, <3>1, ModMsgFields DEF TypeOK, Now
    <3>3. e \in SrvMsg
      BY <3>2, ExposeMsgType
    <3> QED BY <3>3 DEF ExposeMsg
  <2> HIDE DEF e
  <2>3. /\ toSrv'[t] = toSrv[t] \o <<e>> /\ <<e>> \in Seq(SrvMsg)
        /\ \A i \in 1..Len(<<e>>) : <<e>>[i].type # "answer"
    <3>1. Len(<<e>>) = 1 /\ <<e>>[1] = e /\ <<e>> \in Seq(SrvMsg)
      BY <2>2
    <3>2. toSrv'[t] = toSrv[t] \o <<e>>
      BY <1>0, <2>1, <2>2, AppendAt
    <3> QED BY <2>2, <3>1, <3>2
  <2>4. SameAnswers(t)
    BY <2>3, AnswersAfter
  <2>5. SameCalls(t)
    BY <1>0, <2>1, CallsTail
  <2> QED BY <2>1, <2>4, <2>5, CallsUntouched DEF SameOwner, Live
<1>9. CASE HandleShutdown(t)
  <2>1. /\ toMod[t] # <<>> /\ Head(toMod[t]).type = "shutdown"
        /\ toMod'[t] = Tail(toMod[t]) /\ calls'[t] = calls[t]
        /\ object'[t] = object[t] /\ toSrv'[t] = toSrv[t]
    BY <1>9 DEF HandleShutdown, Took, TypeOK
  <2>2. SameCalls(t)
    BY <1>0, <2>1, CallsTail
  <2> QED BY <2>1, <2>2, AnswersKept, CallsUntouched DEF SameOwner, Live
<1>10. CASE HandleSet(t)
  <2> DEFINE m == Head(toMod[t])
  <2>1. /\ toMod[t] # <<>> /\ toMod'[t] = Tail(toMod[t]) /\ m \in ModMsg
        /\ m.type = "call" /\ m.on \in Attributes /\ object'[t] = object[t]
        /\ calls'[t] = [calls[t] EXCEPT ![m.n].fate = "returned"]
    BY <1>10, SetAt, TailAt
  <2>2. PICK v \in Values, a \in Attributes : toSrv'[t] = toSrv[t] \o News(t, a, v)
    BY <1>10, SetAt
  <2>3. m.on \notin Methods
    BY <2>1, CallsAssumption
  <2>4. AnswersTo(m, "returned", News(t, a, v))
    BY <2>3, NewsAreNoAnswers DEF AnswersTo
  <2>5. News(t, a, v) \in Seq(SrvMsg)
    BY NewsType
  <2> HIDE DEF m
  <2>6. PICK f \in {"returned", "threw"} : f = "returned"
    OBVIOUS
  <2>7. /\ AnswersTo(m, f, News(t, a, v)) /\ Ends(t, m, f, News(t, a, v))
        /\ m \in ModMsg /\ m.type = "call" /\ object'[t] = object[t]
    BY <2>1, <2>2, <2>4, <2>6 DEF m, Ends
  <2> QED BY <2>5, <2>7, CallEnded
<1>11. ASSUME NEW fate \in {"returned", "threw"}, HandleMethod(t, fate)
       PROVE  CallsInv(t)'
  <2> DEFINE m == Head(toMod[t])
  <2>1. /\ toMod[t] # <<>> /\ toMod'[t] = Tail(toMod[t]) /\ m \in ModMsg
        /\ m.type = "call" /\ m.on \in Methods /\ object'[t] = object[t]
        /\ calls'[t] = [calls[t] EXCEPT ![m.n].fate = fate]
    BY <1>11, MethodAt, TailAt
  <2>2. ASSUME NEW at \in {Now, Now + 1}
        PROVE  Answers(m, fate, at) \in Seq(SrvMsg)
               /\ AnswersTo(m, fate, Answers(m, fate, at))
    <3> DEFINE R == {r \in SrvMsg : r.type = "answer" /\ r.at = at /\ r.id = m.id}
    <3>1. Answers(m, fate, at) \in Seq(R)
      BY <1>11, MethodAt
    <3>2. R \subseteq SrvMsg
      OBVIOUS
    <3>3. Answers(m, fate, at) \in Seq(SrvMsg)
      BY <3>1, <3>2, SeqMonotonic
    <3>4. at \in Nat
      BY DEF Now, TypeOK
    <3> HIDE DEF m
    <3> QED BY <2>1, <3>3, <3>4, AnswersBelong
  <2>3. \/ toSrv'[t] = toSrv[t] \o Answers(m, fate, Now)
        \/ \E a \in Attributes, v \in Values :
             /\ Grew(a, v)
             /\ toSrv'[t] = (toSrv[t] \o News(t, a, v)) \o Answers(m, fate, Now + 1)
    BY <1>11, MethodAt
  <2>4. m = Head(toMod[t])
    OBVIOUS
  <2> HIDE DEF m
  <2>5. ASSUME NEW r \in Seq(SrvMsg), toSrv'[t] = toSrv[t] \o r,
               AnswersTo(m, fate, r)
        PROVE  CallsInv(t)'
    <3>1. Ends(t, m, fate, r)
      BY <2>1, <2>4, <2>5 DEF Ends
    <3> QED BY <2>1, <2>5, <3>1, CallEnded
  <2>6. CASE toSrv'[t] = toSrv[t] \o Answers(m, fate, Now)
    BY <2>2, <2>5, <2>6
  <2>7. ASSUME NEW a \in Attributes, NEW v \in Values,
               toSrv'[t] = (toSrv[t] \o News(t, a, v)) \o Answers(m, fate, Now + 1)
        PROVE  CallsInv(t)'
    <3>1. \A x, y, z \in Seq(SrvMsg) :
            (x \o y) \o z = x \o (y \o z) /\ y \o z \in Seq(SrvMsg)
      BY ConcatAssociative, ConcatProperties
    <3>2. PICK x \in Seq(SrvMsg), y \in Seq(SrvMsg), z \in Seq(SrvMsg) :
            x = toSrv[t] /\ y = News(t, a, v) /\ z = Answers(m, fate, Now + 1)
      BY <1>0, <2>2, NewsType
    <3>3. (x \o y) \o z = x \o (y \o z) /\ y \o z \in Seq(SrvMsg)
      BY <3>1
    <3>4. \A i \in 1..Len(y) : y[i].type # "answer"
      BY <3>2, NewsAreNoAnswers
    <3>5. AnswersTo(m, fate, z)
      BY <2>2, <3>2
    <3>6. AnswersTo(m, fate, y \o z)
      BY <3>4, <3>5, AnswersAfterNews
    <3>7. toSrv'[t] = toSrv[t] \o (y \o z)
      BY <2>7, <3>2, <3>3
    <3> QED BY <2>5, <3>3, <3>6, <3>7
  <2> QED BY <2>3, <2>6, <2>7
<1>12. CASE HandleStale(t)
  <2>1. /\ toSrv[t] # <<>> /\ toSrv'[t] = Tail(toSrv[t]) /\ toMod'[t] = toMod[t]
        /\ calls'[t] = calls[t] /\ object'[t] = object[t]
        /\ ~Mine(t, Head(toSrv[t]))
    BY <1>12 DEF HandleStale, Read, TypeOK
  <2>2. Live(t)' => Head(toSrv[t]).id # object'[t].id
    BY <2>1 DEF Mine, Live
  <2> QED BY <2>1, <2>2, CallsKept, AnswersTail, CallsUntouched DEF SameOwner, Live
<1>13. CASE HandleExpose(t) \/ HandleUpdate(t)
  <2>1. /\ toSrv[t] # <<>> /\ toSrv'[t] = Tail(toSrv[t]) /\ toMod'[t] = toMod[t]
        /\ calls'[t] = calls[t] /\ Head(toSrv[t]).type # "answer" /\ Live(t)
    BY <1>13 DEF HandleExpose, HandleUpdate, Read, Mine, TypeOK
  <2>2. object[t] \in Object
    BY <2>1 DEF Live, TypeOK
  <2>3. object'[t].id = object[t].id
    BY <1>13, <2>2 DEF HandleExpose, HandleUpdate, TypeOK, Object
  <2> QED BY <2>1, <2>3, CallsKept, AnswersTail, CallsUntouched DEF SameOwner
<1>14. CASE HandleAnswer(t)
  <2> DEFINE m == Head(toSrv[t])
  <2>1. /\ toSrv[t] # <<>> /\ toSrv'[t] = Tail(toSrv[t]) /\ toMod'[t] = toMod[t]
        /\ object'[t] = object[t] /\ m.type = "answer" /\ Live(t)
        /\ m.id = object[t].id
        /\ calls'[t] = [calls[t] EXCEPT ![m.n].told = Append(@, m.err)]
    BY <1>14 DEF HandleAnswer, Read, Mine, TypeOK
  <2>2. m \in SrvMsg /\ m.err \in Errs /\ 1 \in 1..Len(toSrv[t]) /\ m = toSrv[t][1]
    <3>1. m \in SrvMsg /\ Len(toSrv[t]) \in Nat \ {0} /\ m = toSrv[t][1]
      BY <1>0, <2>1, TailAt
    <3>2. m.type = "answer"
      BY <2>1
    <3>3. m.err \in Errs
      BY <3>1, <3>2, SrvMsgFields
    <3> HIDE DEF m
    <3> QED BY <3>1, <3>3
  <2>3. m.n \in 1..Len(calls[t])
    BY <2>1, <2>2 DEF CallsInv, AnswersQueued, Due
  <2>4. m = Head(toSrv[t])
    OBVIOUS
  <2> HIDE DEF m
  <2>5. Answered(t, m.n, m.err)
    BY <2>1, <2>3, AnsweredAt
  <2> QED BY <2>1, <2>2, <2>4, <2>5, CallTold
<1> QED
  BY <1>1, <1>2, <1>3, <1>4, <1>5, <1>6, <1>7, <1>8, <1>9, <1>10, <1>11,
     <1>12, <1>13, <1>14, Steps DEF Own, Script, ModStep, SrvStep

-----------------------------------------------------------------------------
(* Theorems about answers.                                                 *)

AnswersInv == TypeOK /\ \A s \in Servers : Life(s) /\ CallsInv(s)

LEMMA AnswersInvariant == Spec => []AnswersInv
<1>1. Init => AnswersInv
  BY TypeInit, LifeInit, AnswersInit DEF AnswersInv
<1>2. AnswersInv /\ [Next]_vars => AnswersInv'
  <2> SUFFICES ASSUME AnswersInv, [Next]_vars PROVE AnswersInv'
    OBVIOUS
  <2>1. TypeOK'
    BY TypeInvariance DEF AnswersInv
  <2>2. ASSUME NEW s \in Servers PROVE Life(s)' /\ CallsInv(s)'
    <3>1. TypeOK /\ Life(s) /\ CallsInv(s)
      BY DEF AnswersInv
    <3> QED BY <3>1, LifeStep, AnswersStep
  <2> QED BY <2>1, <2>2 DEF AnswersInv
<1> QED BY <1>1, <1>2, PTL DEF Spec

\* What a script is told of a call is what became of it, and at most once,
\* but for a void method that throws (PYCONNECT_METHOD, onSetAttrMetdResp).
THEOREM AnswersTrue == Spec => []AnswersAreTrue
<1>1. AnswersInv => AnswersAreTrue
  <2> SUFFICES ASSUME AnswersInv, NEW s \in Servers, NEW n \in DOMAIN calls[s]
               PROVE  LET c == calls[s][n]
                      IN /\ "METD_EXCEPTION" \in Msgs(c.told) => c.fate = "threw"
                         /\ "NO_ERRORS" \in Msgs(c.told) =>
                              c.cb /\ (c.fate = "returned" \/ c.on \in Void)
                         /\ Len(c.told) <=
                              IF c.fate = "threw" /\ c.on \in Void THEN 2 ELSE 1
    BY DEF AnswersAreTrue
  <2> DEFINE c == calls[s][n]
  <2>1. n \in 1..Len(calls[s]) /\ c \in Call
    BY DEF AnswersInv, TypeOK
  <2>2. /\ c.told \in {<<>>, <<F>>, <<D>>, <<F, D>>}
        /\ c.told \in {<<F>>, <<F, D>>} => Deserved(c, F)
        /\ c.told \in {<<D>>, <<F, D>>} => Deserved(c, D)
    BY <2>1 DEF AnswersInv, CallsInv, ToldTruly
  <2>3. F # D /\ F = "METD_EXCEPTION" /\ D = "NO_ERRORS"
    BY DEF F, D
  <2>4. /\ Len(<<>>) = 0 /\ Len(<<F>>) = 1 /\ Len(<<D>>) = 1 /\ Len(<<F, D>>) = 2
        /\ Msgs(<<>>) = {} /\ Msgs(<<F>>) = {F} /\ Msgs(<<D>>) = {D}
    <3>1. /\ Len(<<>>) = 0 /\ Len(<<F>>) = 1 /\ Len(<<D>>) = 1
          /\ Len(<<F, D>>) = 2 /\ <<F>>[1] = F /\ <<D>>[1] = D
          /\ DOMAIN <<>> = {} /\ DOMAIN <<F>> = {1} /\ DOMAIN <<D>> = {1}
      OBVIOUS
    <3> QED BY <3>1 DEF Msgs
  <2> HIDE DEF c
  <2>5. CASE c.told = <<>>
    BY <2>4, <2>5 DEF c
  <2>6. CASE c.told = <<F>>
    <3>1. Deserved(c, F)
      BY <2>2, <2>6
    <3> QED BY <2>3, <2>4, <2>6, <3>1 DEF c, Deserved
  <2>7. CASE c.told = <<D>>
    <3>1. Deserved(c, D)
      BY <2>2, <2>7
    <3> QED BY <2>3, <2>4, <2>7, <3>1 DEF c, Deserved
  <2>8. CASE c.told = <<F, D>>
    <3>1. Deserved(c, F) /\ Deserved(c, D)
      BY <2>2, <2>8
    <3>2. c.fate = "threw" /\ c.cb /\ c.on \in Void
      BY <2>3, <3>1 DEF Deserved
    <3> QED BY <2>3, <2>4, <2>8, <3>2 DEF c
  <2> QED BY <2>2, <2>5, <2>6, <2>7, <2>8
<1> QED BY <1>1, AnswersInvariant, PTL

\* A call is answered no later than any call made after it: the channel is a
\* FIFO and the program ends one call before it takes the next.
THEOREM AnswersOrdered == Spec => []AnswersInOrder
<1>1. AnswersInv => AnswersInOrder
  <2>1. TypeOK => \A s \in Servers : DOMAIN calls[s] = 1..Len(calls[s])
    BY DEF TypeOK
  <2> QED BY <2>1 DEF AnswersInv, CallsInv, InTurn, AnswersInOrder
<1> QED BY <1>1, AnswersInvariant, PTL
=============================================================================
