--------------------------- MODULE PyConnectCalls ---------------------------
(***************************************************************************)
(* Calls and attributes: what passes between the scripts of several        *)
(* servers and one program over the channels that the session sets up.     *)
(*                                                                         *)
(* A script that reads an attribute of an object gets a value the server   *)
(* has cached; assignments and method calls are messages whose effects     *)
(* come back as value updates and answers.  The program runs in one thread *)
(* (PYCONNECT_NETCOMM_PROCESS_DATA), so each of its handlers is one step;  *)
(* the server's handlers and its script exclude each other by the GIL.     *)
(* How an object comes to be made, how its id travels and what happens     *)
(* when connections end is the subject of PyConnectSession: here a channel *)
(* is a FIFO in each direction that stays open.                            *)
(***************************************************************************)
EXTENDS Integers, Sequences

CONSTANTS
    Servers,
    Attributes, Methods,  \* what the program exports
    Writable,             \* attributes exported with ..._RW_ATTRIBUTE
    Void,                 \* methods that return nothing
    Assigned,             \* the numbers a script may assign
    Wire,                 \* the C++ type of an attribute holds 0..Wire-1
    Initial,              \* what the program's constructor sets them to
    None,
    MaxOps                \* bound on what scripts and the program start

ASSUME CallsAssumption ==
    /\ Writable \subseteq Attributes /\ Void \subseteq Methods
    /\ Attributes \cap Methods = {}
    /\ Assigned \subseteq Nat /\ Wire \in Nat \ {0}
    /\ Initial \in [Attributes -> 0..(Wire - 1)]
    /\ None \notin Nat /\ MaxOps \in Nat

VARIABLES
    \* the program
    value,       \* its attributes
    serverMap,   \* by server: the module id assigned by it, or None
    \* the servers
    object,      \* the PyConnectObject of the program, or None
    nextObjId,
    \* the channels
    toMod, toSrv,
    \* history that only properties read
    history,     \* the values of the attributes after each change
    heard,       \* how many changes the program had made when it sent the
                 \* last message that the server read
    calls,       \* what each script asked for and was told
    ops

program == <<value, serverMap, history>>
server  == <<object, nextObjId, heard, calls>>
vars    == <<value, serverMap, object, nextObjId, toMod, toSrv, history, heard,
             calls, ops>>

Values    == 0..(Wire - 1)
\* Fault: the number travels as it is.
WideNumber(v) == v
Narrow(v) == v % Wire
Now       == Len(history)

\* "since" and "told" are history: where the exposure stood, and how often
\* on<attribute>Update was called for the object.
NewObject(id) ==
    [id |-> id, exposed |-> FALSE, readOnly |-> {}, noCallback |-> FALSE,
     cached |-> [a \in Attributes |-> 0], since |-> 0, told |-> 0]

Live(s)    == object[s] # None
Exposed(s) == Live(s) /\ object[s].exposed
Mine(s, m) == Live(s) /\ object[s].id = m.id

-----------------------------------------------------------------------------
(* Messages.  "at" and "n" are history: how many changes were made before  *)
(* the message was sent, and which call it belongs to.                     *)

AssignMsg(id)        == [type |-> "assign", id |-> id]
ShutdownMsg          == [type |-> "shutdown"]
CallMsg(id, n, cb, x, v) ==
    [type |-> "call", id |-> id, n |-> n, cb |-> cb, on |-> x, value |-> v]

\* Fault: the flag of writable attributes is sent for the others.
ExposeInverted(id, vals, at) ==
    [type |-> "expose", id |-> id, at |-> at, values |-> vals,
     writable |-> Attributes \ Writable]
ExposeMsg(id, vals, at) ==
    [type |-> "expose", id |-> id, at |-> at, values |-> vals,
     writable |-> Writable]
UpdateMsg(id, a, v, at) ==
    [type |-> "update", id |-> id, at |-> at, attr |-> a, value |-> v]
AnswerMsg(id, n, err, at) ==
    [type |-> "answer", id |-> id, at |-> at, n |-> n, err |-> err]

-----------------------------------------------------------------------------
(* The script.                                                             *)

Op == ops < MaxOps /\ ops' = ops + 1

\* The session has made an object and sends its id.  A program that knows the
\* server, or has not processed all the server sent, is not registered anew
\* here: that race is in the session.
Register(s) ==
    /\ Op /\ ~Live(s) /\ serverMap[s] = None /\ toMod[s] = <<>>
    /\ object' = [object EXCEPT ![s] = NewObject(nextObjId[s])]
    /\ nextObjId' = [nextObjId EXCEPT ![s] = @ + 1]
    /\ toMod' = [toMod EXCEPT ![s] = Append(@, AssignMsg(nextObjId[s]))]
    /\ UNCHANGED <<program, toSrv, heard, calls>>

Disconnect(s) ==
    /\ Op /\ Live(s)
    /\ object' = [object EXCEPT ![s] = None]
    /\ toMod' = [toMod EXCEPT ![s] = Append(@, ShutdownMsg)]
    /\ UNCHANGED <<program, nextObjId, toSrv, heard, calls>>

SetNoCallback(s, b) ==
    /\ Op /\ Live(s) /\ object[s].noCallback # b
    /\ object' = [object EXCEPT ![s].noCallback = b]
    /\ UNCHANGED <<program, nextObjId, toMod, toSrv, heard, calls>>

\* remoteAttrMethodCall, with an attribute's or a method's index.
Remote(s, x, v) ==
    LET o == object[s]
        n == Len(calls[s]) + 1
    IN /\ toMod' = [toMod EXCEPT
            ![s] = Append(@, CallMsg(o.id, n, ~o.noCallback, x, v))]
       /\ calls' = [calls EXCEPT ![s] = Append(@,
            [on |-> x, id |-> o.id, cb |-> ~o.noCallback,
             fate |-> "waiting", told |-> <<>>])]

\* obj.a = v: without callbacks the server caches the Python number at once;
\* what travels is cut to the type of the attribute.
SetAttribute(s, a, v) ==
    /\ Op /\ Exposed(s) /\ a \notin object[s].readOnly
    /\ Remote(s, a, Narrow(v))
    /\ object' = IF object[s].noCallback
                 THEN [object EXCEPT ![s].cached[a] = v]
                 ELSE object
    /\ UNCHANGED <<program, nextObjId, toSrv, heard>>

CallMethod(s, m) ==
    /\ Op /\ Exposed(s)
    /\ Remote(s, m, 0)
    /\ UNCHANGED <<program, object, nextObjId, toSrv, heard>>

-----------------------------------------------------------------------------
(* The program.                                                            *)

\* Fault: a value that stays the same is not reported.
ReportIfNew(a, v, s, more) ==
    /\ value' = [value EXCEPT ![a] = v]
    /\ history' = IF v = value[a] THEN history ELSE Append(history, value')
    /\ toSrv' = [t \in Servers |->
         LET told == IF serverMap[t] = None \/ v = value[a] THEN toSrv[t]
                     ELSE Append(toSrv[t], UpdateMsg(serverMap[t], a, v, Now + 1))
         IN IF t = s THEN told \o more ELSE told]

\* Fault: an update is dropped while messages wait to be sent.
ReportIfIdle(a, v, s, more) ==
    /\ value' = [value EXCEPT ![a] = v]
    /\ history' = Append(history, value')
    /\ toSrv' = [t \in Servers |->
         LET told == IF serverMap[t] = None \/ toSrv[t] # <<>> THEN toSrv[t]
                     ELSE <<UpdateMsg(serverMap[t], a, v, Now + 1)>>
         IN IF t = s THEN told \o more ELSE told]

\* Assign an attribute and report it, to every server it knows
\* (set_NAME_value, updateAttribute).  "more" is what s is sent besides.
Report(a, v, s, more) ==
    /\ value' = [value EXCEPT ![a] = v]
    /\ history' = Append(history, value')
    /\ toSrv' = [t \in Servers |->
         LET told == IF serverMap[t] = None THEN toSrv[t]
                     ELSE Append(toSrv[t], UpdateMsg(serverMap[t], a, v, Now + 1))
         IN IF t = s THEN told \o more ELSE told]

\* Fault: answers go out before what waits to be sent.
ReplyFirst(s, more) ==
    /\ toSrv' = [toSrv EXCEPT ![s] = more \o @]
    /\ UNCHANGED <<value, history>>

\* What s is sent when nothing has changed.
Reply(s, more) ==
    /\ toSrv' = [toSrv EXCEPT ![s] = @ \o more]
    /\ UNCHANGED <<value, history>>

Took(s, type) == toMod[s] # <<>> /\ Head(toMod[s]).type = type
                 /\ toMod' = [toMod EXCEPT ![s] = Tail(@)]

\* The program changes one of its attributes of its own accord.
Change(a, v) ==
    /\ Op /\ Report(a, v, None, <<>>)
    /\ UNCHANGED <<serverMap, server, toMod>>

HandleAssign(s) ==
    /\ Took(s, "assign")
    /\ serverMap' = [serverMap EXCEPT ![s] = Head(toMod[s]).id]
    /\ toSrv' = [toSrv EXCEPT
         ![s] = Append(@, ExposeMsg(Head(toMod[s]).id, value, Now))]
    /\ UNCHANGED <<value, history, server, ops>>

HandleShutdown(s) ==
    /\ Took(s, "shutdown")
    /\ serverMap' = [serverMap EXCEPT ![s] = None]
    /\ UNCHANGED <<value, history, toSrv, server, ops>>

\* A call under another id is ignored; while the channel stays open none comes.
ForUs(s, m) == serverMap[s] # None /\ serverMap[s] = m.id

\* The setter is a null pointer if the attribute is read-only.
HandleSet(s) ==
    LET m == Head(toMod[s])
    IN /\ Took(s, "call") /\ ForUs(s, m) /\ m.on \in Writable
       /\ Report(m.on, m.value, None, <<>>)
       /\ calls' = [calls EXCEPT ![s][m.n].fate = "returned"]
       /\ UNCHANGED <<serverMap, object, nextObjId, heard, ops>>

\* Fault: every call is answered, wanted or not.
AnswerAlways(m, fate, at) ==
    LET failed == AnswerMsg(m.id, m.n, "METD_EXCEPTION", at)
        done   == AnswerMsg(m.id, m.n, "NO_ERRORS", at)
    IN IF fate = "threw" THEN <<failed>> ELSE <<done>>

\* Fault: exceptions are swallowed.
AnswerNoThrow(m, fate, at) ==
    IF m.cb /\ (fate = "returned" \/ m.on \in Void)
    THEN <<AnswerMsg(m.id, m.n, "NO_ERRORS", at)>> ELSE <<>>

\* The messages that PYCONNECT_METHOD sends for a method that ended so: what
\* is thrown is reported to every caller; a value goes back if an answer was
\* asked for, and so does the end of a void method, thrown or not.
Answers(m, fate, at) ==
    LET failed == AnswerMsg(m.id, m.n, "METD_EXCEPTION", at)
        done   == AnswerMsg(m.id, m.n, "NO_ERRORS", at)
    IN (IF fate = "threw" THEN <<failed>> ELSE <<>>)
       \o (IF m.cb /\ (fate = "returned" \/ m.on \in Void)
           THEN <<done>> ELSE <<>>)

\* The method may first assign an attribute and report it.
HandleMethod(s, fate) ==
    LET m == Head(toMod[s])
    IN /\ Took(s, "call") /\ ForUs(s, m) /\ m.on \in Methods
       /\ \/ Reply(s, Answers(m, fate, Now))
          \/ \E a \in Attributes, v \in Values :
                Report(a, v, s, Answers(m, fate, Now + 1))
       /\ calls' = [calls EXCEPT ![s][m.n].fate = fate]
       /\ UNCHANGED <<serverMap, object, nextObjId, heard, ops>>

-----------------------------------------------------------------------------
(* The server's IO thread.                                                 *)

Read(s, type) ==
    /\ toSrv[s] # <<>> /\ Head(toSrv[s]).type = type
    /\ toSrv' = [toSrv EXCEPT ![s] = Tail(@)]
    /\ heard' = [heard EXCEPT ![s] = Head(toSrv[s]).at]
    /\ UNCHANGED <<program, nextObjId, toMod, ops>>

\* No object has the id: "unable to find module".
HandleStale(s) ==
    /\ \E type \in {"expose", "update", "answer"} : Read(s, type)
    /\ ~Mine(s, Head(toSrv[s]))
    /\ UNCHANGED <<object, calls>>

HandleExpose(s) ==
    LET m == Head(toSrv[s])
    IN /\ Read(s, "expose") /\ Mine(s, m)
       /\ object' = [object EXCEPT ![s].exposed = TRUE,
                                   ![s].readOnly = Attributes \ m.writable,
                                   ![s].cached = m.values, ![s].since = m.at]
       /\ UNCHANGED calls

\* Fault: the script is only told of a value that differs from the cached one.
UpdateIfNew(s) ==
    LET m == Head(toSrv[s])
    IN /\ Read(s, "update") /\ Mine(s, m)
       /\ object' = IF m.value = object[s].cached[m.attr] THEN object
                    ELSE [object EXCEPT ![s].cached[m.attr] = m.value,
                                        ![s].told = @ + 1]
       /\ UNCHANGED calls

\* onGetAttrResp
HandleUpdate(s) ==
    LET m == Head(toSrv[s])
    IN /\ Read(s, "update") /\ Mine(s, m)
       /\ object' = [object EXCEPT ![s].cached[m.attr] = m.value,
                                   ![s].told = @ + 1]
       /\ UNCHANGED calls

\* onSetAttrMetdResp: on<method>Completed or on<method>Failed
HandleAnswer(s) ==
    LET m == Head(toSrv[s])
    IN /\ Read(s, "answer") /\ Mine(s, m)
       /\ calls' = [calls EXCEPT ![s][m.n].told = Append(@, m.err)]
       /\ UNCHANGED object

-----------------------------------------------------------------------------
Init ==
    /\ value = Initial
    /\ serverMap = [s \in Servers |-> None]
    /\ object = [s \in Servers |-> None]
    /\ nextObjId = [s \in Servers |-> 1]
    /\ toMod = [s \in Servers |-> <<>>]
    /\ toSrv = [s \in Servers |-> <<>>]
    /\ history = <<value>>
    /\ heard = [s \in Servers |-> 1]
    /\ calls = [s \in Servers |-> <<>>]
    /\ ops = 0

Script(s) ==
    \/ Register(s) \/ Disconnect(s)
    \/ \E b \in BOOLEAN : SetNoCallback(s, b)
    \/ \E a \in Attributes, v \in Assigned : SetAttribute(s, a, v)
    \/ \E m \in Methods : CallMethod(s, m)

ModStep(s) ==
    \/ HandleAssign(s) \/ HandleShutdown(s) \/ HandleSet(s)
    \/ \E fate \in {"returned", "threw"} : HandleMethod(s, fate)

SrvStep(s) ==
    HandleStale(s) \/ HandleExpose(s) \/ HandleUpdate(s) \/ HandleAnswer(s)

Next ==
    \/ \E a \in Attributes, v \in Values : Change(a, v)
    \/ \E s \in Servers : Script(s) \/ ModStep(s) \/ SrvStep(s)

Spec == Init /\ [][Next]_vars

\* Both select loops serve every descriptor that is ready.
FairSpec == Spec /\ \A s \in Servers : WF_vars(ModStep(s)) /\ WF_vars(SrvStep(s))

-----------------------------------------------------------------------------
(* Properties.                                                             *)

Msgs(q) == {q[i] : i \in DOMAIN q}
Ids     == 1..MaxOps
Fates   == {"waiting", "returned", "threw"}
Errs    == {"NO_ERRORS", "METD_EXCEPTION"}

ModMsg == [type : {"assign"}, id : Nat] \cup {ShutdownMsg} \cup
          [type : {"call"}, id : Nat, n : Nat, cb : BOOLEAN,
           on : Attributes \cup Methods, value : Values]
SrvMsg == [type : {"expose"}, id : Nat, at : Nat,
           values : [Attributes -> Values], writable : {Writable}] \cup
          [type : {"update"}, id : Nat, at : Nat, attr : Attributes,
           value : Values] \cup
          [type : {"answer"}, id : Nat, at : Nat, n : Nat, err : Errs]
Object == [id : Nat, exposed : BOOLEAN, readOnly : SUBSET Attributes,
           noCallback : BOOLEAN, cached : [Attributes -> Nat],
           since : Nat, told : Nat]
Call   == [on : Attributes \cup Methods, id : Nat, cb : BOOLEAN,
           fate : Fates, told : Seq(Errs)]

\* A server without an object holds None.
ASSUME NoneAssumption == None \notin Object

\* The types of all variables.
TypeOK ==
    /\ value \in [Attributes -> Values]
    /\ serverMap \in [Servers -> Nat \cup {None}]
    /\ object \in [Servers -> Object \cup {None}]
    /\ nextObjId \in [Servers -> Nat]
    /\ toMod \in [Servers -> Seq(ModMsg)] /\ toSrv \in [Servers -> Seq(SrvMsg)]
    /\ history \in Seq([Attributes -> Values])
    /\ heard \in [Servers -> Nat] /\ calls \in [Servers -> Seq(Call)]
    /\ ops \in 0..MaxOps

Quiet(s) == toMod[s] = <<>> /\ toSrv[s] = <<>>

\* A null setter is never called: no assignment to a read-only attribute
\* reaches the program, whose side of the check is only that it exposed the
\* attribute as such (Attribute::setAttrValue calls attrSetFn unchecked).
NoNullSetter ==
    \A s \in Servers : \A m \in Msgs(toMod[s]) :
        m.type = "call" => m.on \in Writable \cup Methods

\* The script of every server is told of every change since the exposure of
\* its object, once each, however assignments of several servers, method
\* calls and the program's own changes interleave (updateAttribute posts to
\* every entry of serverMap_).
ToldOfEveryChange ==
    \A s \in Servers : Exposed(s) =>
        object[s].since + object[s].told = heard[s]

\* When nothing is under way, the cached values are the program's, although
\* an assignment without callback puts the script's own number there first
\* and an older update may overwrite that (onGetAttrResp, setAttribute).
QuietValues ==
    \A s \in Servers : Quiet(s) /\ Exposed(s) => object[s].cached = value

\* What a script is told of a call is what became of it, and at most once:
\* but for a void method that throws, which is reported as failed and then
\* as completed when an answer was asked for.
AnswersAreTrue ==
    \A s \in Servers : \A n \in DOMAIN calls[s] :
        LET c == calls[s][n]
        IN /\ "METD_EXCEPTION" \in Msgs(c.told) => c.fate = "threw"
           /\ "NO_ERRORS" \in Msgs(c.told) =>
                c.cb /\ (c.fate = "returned" \/ c.on \in Void)
           /\ Len(c.told) <= IF c.fate = "threw" /\ c.on \in Void THEN 2 ELSE 1

\* A script can tell the answers of two calls of a method apart only by their
\* order: a call is answered no later than any call made after it.
AnswersInOrder ==
    \A s \in Servers : \A n \in DOMAIN calls[s] : calls[s][n].told # <<>> =>
        \A k \in 1..(n - 1) :
            LET c == calls[s][k]
            IN c.id = calls[s][n].id /\ c.on \in Methods
               /\ (c.cb \/ c.fate = "threw") => c.told # <<>>

\* The servers see the attributes as PyConnectMirror says.
Mirror == INSTANCE PyConnectMirror WITH
    Scripts <- Servers, Blind <- None, made <- Len(history),
    seen <- [s \in Servers |->
        IF Exposed(s) THEN object[s].since + object[s].told ELSE None]
MirrorImplemented == Mirror!Spec

Waiting(s, n) ==
    /\ n \in DOMAIN calls[s] /\ Mine(s, calls[s][n])
    /\ calls[s][n].cb /\ calls[s][n].on \in Methods /\ calls[s][n].told = <<>>

\* Calls that asked for an answer get one unless their object goes first.
CallsAnswered ==
    \A s \in Servers : (\E n \in 1..MaxOps : Waiting(s, n))
                       ~> (\A n \in 1..MaxOps : ~Waiting(s, n))

\* A claim the code does not keep: onSetAttrMetdResp calls onSet<attribute>
\* when an assignment is answered ("onSetAtt"), so one that asked for
\* callbacks is told so.
AssignmentsAcknowledged ==
    \A s \in Servers : Quiet(s) => \A n \in DOMAIN calls[s] :
        Mine(s, calls[s][n]) /\ calls[s][n].cb => calls[s][n].told # <<>>
=============================================================================
