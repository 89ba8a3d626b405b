----------------------- MODULE PyConnectClaims_proofs -----------------------
(***************************************************************************)
(* Theorems about the session that rest on what is under way: what servers *)
(* and modules believe of each other, through whatever connections and     *)
(* datagrams they learn it.                                                *)
(***************************************************************************)
EXTENDS PyConnectSession_proofs, SequenceTheorems


-----------------------------------------------------------------------------
(* What is under way between servers and modules *)

(* Lists of messages as sets. *)
LEMMA Ranges ==
    ASSUME NEW M
    PROVE  /\ Range(<<>>) = {}
           /\ \A x : Range(<<x>>) = {x}
           /\ \A q \in Seq(M), x \in M : Range(Append(q, x)) = Range(q) \cup {x}
           /\ \A q \in Seq(M) : /\ Range(q) \subseteq M
                                /\ q # <<>> => Head(q) \in Range(q)
                                /\ q # <<>> => Range(Tail(q)) \subseteq Range(q)
                                /\ q = <<>> <=> Range(q) = {}
  <1>1. Range(<<>>) = {} /\ \A x : Range(<<x>>) = {x}
    BY DEF Range
  <1>2. ASSUME NEW q \in Seq(M), NEW x \in M
        PROVE  Range(Append(q, x)) = Range(q) \cup {x}
    <2>1. /\ DOMAIN q = 1..Len(q) /\ DOMAIN Append(q, x) = 1..(Len(q) + 1)
          /\ Len(q) \in Nat
          /\ \A i \in 1..Len(q) : Append(q, x)[i] = q[i]
          /\ Append(q, x)[Len(q) + 1] = x
      OBVIOUS
    <2> QED
      BY <2>1 DEF Range
  <1>3. ASSUME NEW q \in Seq(M)
        PROVE  /\ Range(q) \subseteq M
               /\ q # <<>> => Head(q) \in Range(q)
               /\ q # <<>> => Range(Tail(q)) \subseteq Range(q)
               /\ q = <<>> <=> Range(q) = {}
    <2>1. DOMAIN q = 1..Len(q) /\ Len(q) \in Nat /\ \A i \in 1..Len(q) : q[i] \in M
      OBVIOUS
    <2>2. q # <<>> => Len(q) > 0 /\ Head(q) = q[1]
      OBVIOUS
    <2>3. q # <<>> => /\ DOMAIN Tail(q) = 1..(Len(q) - 1)
                      /\ \A i \in 1..(Len(q) - 1) : Tail(q)[i] = q[i + 1]
      OBVIOUS
    <2>4. q = <<>> <=> Len(q) = 0
      OBVIOUS
    <2>5. Range(q) \subseteq M
      BY <2>1 DEF Range
    <2>6. q # <<>> => q[1] \in Range(q)
      BY <2>1, <2>2 DEF Range
    <2>7. q # <<>> => Range(Tail(q)) \subseteq Range(q)
      BY <2>1, <2>2, <2>3 DEF Range
    <2>8. q = <<>> => Range(q) = {}
      BY <2>1, <2>4 DEF Range
    <2> QED
      BY <2>2, <2>5, <2>6, <2>7, <2>8
  <1> QED
    BY <1>1, <1>2, <1>3

LEMMA PartRange ==
    ASSUME NEW M, NEW q \in Seq(M), NEW n \in 1..Len(q)
    PROVE  /\ Range(SubSeq(q, 1, n)) \subseteq Range(q)
           /\ Range(SubSeq(q, n + 1, Len(q))) \subseteq Range(q)
  <1>1. DOMAIN q = 1..Len(q) /\ Len(q) \in Nat
    OBVIOUS
  <1>2. /\ DOMAIN SubSeq(q, 1, n) = 1..n
        /\ \A i \in 1..n : SubSeq(q, 1, n)[i] = q[i]
    OBVIOUS
  <1>3. /\ DOMAIN SubSeq(q, n + 1, Len(q)) = 1..(Len(q) - n)
        /\ \A i \in 1..(Len(q) - n) : SubSeq(q, n + 1, Len(q))[i] = q[i + n]
    OBVIOUS
  <1> QED
    BY <1>1, <1>2, <1>3 DEF Range

(* From cs to ds connections stay between the same two processes, and all    *)
(* messages on them are old but those of A, to modules, and B, to servers.   *)
Grows(cs, ds, A, B) ==
    /\ DOMAIN cs \subseteq DOMAIN ds
    /\ \A c \in DOMAIN cs : /\ ds[c].srv = cs[c].srv /\ ds[c].mod = cs[c].mod
                            /\ ds[c].by = cs[c].by /\ ds[c].via = cs[c].via
    /\ \A c \in DOMAIN ds : \A x \in Range(ds[c].toMod) :
          (c \in DOMAIN cs /\ x \in Range(cs[c].toMod)) \/ <<c, x>> \in A
    /\ \A c \in DOMAIN ds : \A x \in Range(ds[c].toSrv) :
          (c \in DOMAIN cs /\ x \in Range(cs[c].toSrv)) \/ <<c, x>> \in B

LEMMA GrowsTwice ==
    ASSUME NEW cs, NEW ds, NEW es, NEW A1, NEW B1, NEW A2, NEW B2,
           Grows(cs, ds, A1, B1), Grows(ds, es, A2, B2)
    PROVE  Grows(cs, es, A1 \cup A2, B1 \cup B2)
  BY DEF Grows

LEMMA GrowsNot == \A cs : Grows(cs, cs, {}, {})
  BY DEF Grows

(* Every change of one connection. *)
LEMMA GrowsOne ==
    ASSUME NEW cs \in Seq(Conn), NEW c \in DOMAIN cs, NEW k \in Conn,
           k.srv = cs[c].srv, k.mod = cs[c].mod, k.by = cs[c].by, k.via = cs[c].via,
           NEW A, NEW B,
           \A x \in Range(k.toMod) : x \in Range(cs[c].toMod) \/ <<c, x>> \in A,
           \A x \in Range(k.toSrv) : x \in Range(cs[c].toSrv) \/ <<c, x>> \in B
    PROVE  Grows(cs, [cs EXCEPT ![c] = k], A, B)
  BY DEF Grows

LEMMA SrvWriteGrows ==
    ASSUME NEW cs \in Seq(Conn), NEW c \in {NoConn} \cup DOMAIN cs, NEW msg \in ModMsg
    PROVE  Grows(cs, SrvWrite(cs, c, msg), {<<c, msg>>}, {})
  <1>1. CASE c # NoConn /\ cs[c].sEnd = "open" /\ cs[c].mEnd # "closed"
    <2>1. c \in DOMAIN cs /\ cs[c] \in Conn /\ cs[c].toMod \in Seq(ModMsg)
      BY <1>1, ConnFields
    <2> DEFINE k == [cs[c] EXCEPT !.toMod = Append(cs[c].toMod, msg)]
    <2>2. k \in Conn
      BY <2>1, ConnFields, Lists
    <2>3. SrvWrite(cs, c, msg) = [cs EXCEPT ![c] = k]
      BY <1>1 DEF SrvWrite
    <2>4. /\ k.srv = cs[c].srv /\ k.mod = cs[c].mod /\ k.by = cs[c].by
          /\ k.via = cs[c].via /\ k.toSrv = cs[c].toSrv
          /\ k.toMod = Append(cs[c].toMod, msg)
      BY <2>1 DEF Conn
    <2>5. \A x \in Range(k.toMod) : x \in Range(cs[c].toMod) \/ <<c, x>> \in {<<c, msg>>}
      BY <2>1, <2>4, Ranges
    <2>6. Grows(cs, [cs EXCEPT ![c] = k], {<<c, msg>>}, {})
      <3> HIDE DEF k
      <3> QED
        BY <2>1, <2>2, <2>4, <2>5, GrowsOne, Zenon
    <2> QED
      BY <2>3, <2>6
  <1>2. CASE ~(c # NoConn /\ cs[c].sEnd = "open" /\ cs[c].mEnd # "closed")
    BY <1>2, GrowsNot DEF SrvWrite, Grows
  <1> QED
    BY <1>1, <1>2

LEMMA ModWriteGrows ==
    ASSUME NEW cs \in Seq(Conn), NEW c \in {NoConn} \cup DOMAIN cs, NEW msg \in SrvMsg
    PROVE  Grows(cs, ModWrite(cs, c, msg), {}, IF c = NoConn THEN {} ELSE {<<c, msg>>})
  <1>1. CASE ModCanWrite(cs, c)
    <2>1. c \in DOMAIN cs /\ cs[c] \in Conn /\ cs[c].toSrv \in Seq(SrvMsg) /\ c # NoConn
      BY <1>1, ConnFields DEF ModCanWrite
    <2> DEFINE k == [cs[c] EXCEPT !.toSrv = Append(cs[c].toSrv, msg)]
    <2>2. k \in Conn
      BY <2>1, ConnFields, Lists
    <2>3. ModWrite(cs, c, msg) = [cs EXCEPT ![c] = k]
      BY <1>1 DEF ModWrite
    <2>4. /\ k.srv = cs[c].srv /\ k.mod = cs[c].mod /\ k.by = cs[c].by
          /\ k.via = cs[c].via /\ k.toMod = cs[c].toMod
          /\ k.toSrv = Append(cs[c].toSrv, msg)
      BY <2>1 DEF Conn
    <2>5. \A x \in Range(k.toSrv) : x \in Range(cs[c].toSrv) \/ <<c, x>> \in {<<c, msg>>}
      BY <2>1, <2>4, Ranges
    <2>6. Grows(cs, [cs EXCEPT ![c] = k], {}, {<<c, msg>>})
      <3> HIDE DEF k
      <3> QED
        BY <2>1, <2>2, <2>4, <2>5, GrowsOne, Zenon
    <2> QED
      BY <2>1, <2>3, <2>6
  <1>2. CASE ~ModCanWrite(cs, c)
    BY <1>2 DEF ModWrite, Grows
  <1> QED
    BY <1>1, <1>2

LEMMA ClosedGrows ==
    ASSUME NEW cs \in Seq(Conn), NEW C
    PROVE  Grows(cs, CloseSrv(cs, C), {}, {}) /\ Grows(cs, CloseMod(cs, C), {}, {})
  <1>1. \A c \in DOMAIN cs : cs[c] \in Conn
    OBVIOUS
  <1>2. Range(<<>>) = {}
    BY Ranges
  <1>3. ASSUME NEW c \in DOMAIN cs
        PROVE  LET k == CloseSrv(cs, C)[c]
                   l == CloseMod(cs, C)[c]
               IN /\ k.srv = cs[c].srv /\ k.mod = cs[c].mod /\ k.by = cs[c].by
                  /\ k.via = cs[c].via
                  /\ k.toMod = cs[c].toMod /\ k.toSrv \in {cs[c].toSrv, <<>>}
                  /\ l.srv = cs[c].srv /\ l.mod = cs[c].mod /\ l.by = cs[c].by
                  /\ l.via = cs[c].via
                  /\ l.toSrv = cs[c].toSrv /\ l.toMod \in {cs[c].toMod, <<>>}
    BY <1>1 DEF CloseSrv, CloseMod, Conn
  <1>4. DOMAIN CloseSrv(cs, C) = DOMAIN cs /\ DOMAIN CloseMod(cs, C) = DOMAIN cs
    BY DEF CloseSrv, CloseMod
  <1> QED
    BY <1>2, <1>3, <1>4 DEF Grows

(* New connections, empty but for the messages of A and B. *)
LEMMA AddedGrows ==
    ASSUME NEW cs \in Seq(Conn), NEW ds \in Seq(Conn), DOMAIN cs \subseteq DOMAIN ds,
           \A c \in DOMAIN cs : ds[c] = cs[c], NEW A, NEW B,
           \A c \in DOMAIN ds \ DOMAIN cs :
              /\ \A x \in Range(ds[c].toMod) : <<c, x>> \in A
              /\ \A x \in Range(ds[c].toSrv) : <<c, x>> \in B
    PROVE  Grows(cs, ds, A, B)
  BY DEF Grows

LEMMA AppendGrows ==
    ASSUME NEW cs \in Seq(Conn), NEW s \in Servers, NEW m \in Modules,
           NEW by \in {"srv", "mod"}, NEW via \in {"net", "ipc"}
    PROVE  LET ds == Append(cs, OpenConn(s, m, by, via))
               c  == Len(cs) + 1
           IN /\ Grows(cs, ds, {}, {}) /\ ds \in Seq(Conn)
              /\ c \in DOMAIN ds /\ c \notin DOMAIN cs /\ c # NoConn /\ c \in Nat
              /\ DOMAIN ds = DOMAIN cs \cup {c}
              /\ ds[c] = OpenConn(s, m, by, via)
              /\ \A x \in DOMAIN cs : ds[x] = cs[x]
  <1> DEFINE k == OpenConn(s, m, by, via)
             ds == Append(cs, k)
             c  == Len(cs) + 1
  <1>1. k \in Conn
    BY OpenConnType
  <1>2. k.toMod = <<>> /\ k.toSrv = <<>>
    BY DEF OpenConn
  <1> HIDE DEF k
  <1>3. /\ ds \in Seq(Conn) /\ c \in DOMAIN ds /\ c \notin DOMAIN cs /\ c # NoConn
        /\ c \in Nat
        /\ DOMAIN ds = DOMAIN cs \cup {c} /\ \A x \in DOMAIN cs : ds[x] = cs[x]
        /\ ds[c] = k
    BY <1>1 DEF NoConn
  <1>4. Grows(cs, ds, {}, {})
    <2>1. Range(<<>>) = {}
      BY Ranges
    <2> HIDE DEF ds, c
    <2> QED
      BY <1>2, <1>3, <2>1 DEF Grows
  <1> QED
    BY <1>3, <1>4 DEF k

-----------------------------------------------------------------------------
(* What the processes hold and what is addressed to whom *)

Holds(m, k, i)    == k \in DOMAIN serverMap[m] /\ serverMap[m][k] = i
WillHold(m, k, i) == k \in DOMAIN serverMap'[m] /\ serverMap'[m][k] = i

(* The only ways to send a MODULE_DISCOVERY over a connection.               *)
Dials == "connect" \in Ops \/ ("ipc" \in Transports /\ "discover" \in Ops)

(* What a message that a process has read came by, read or unread: the       *)
(* messages on their way over connection c.                                  *)
ToModule(c) == Range(conn[c].toMod) \cup
    (IF modTask[conn[c].mod].conn = c THEN Range(modTask[conn[c].mod].buf) ELSE {})
ToServer(c) == Range(conn[c].toSrv) \cup
    (IF ioTask[conn[c].srv].conn = c THEN Range(ioTask[conn[c].srv].buf) ELSE {})

(* A run has only the operations and transports it is configured for.        *)
Configured ==
    /\ \A s \in Servers : main[s] = "connecting" => "connect" \in Ops
    /\ \A s \in Servers : sUp[s] \/ "srvcrash" \in Ops
    /\ \A c \in DOMAIN conn : conn[c].via = "ipc" => "ipc" \in Transports

(* A thread with messages in hand read them off a connection of its own; in  *)
(* a module nothing else has become the last used channel since.             *)
InHand ==
    /\ \A m \in Modules : modTask[m].buf # <<>> =>
          /\ modTask[m].conn \in DOMAIN conn /\ conn[modTask[m].conn].mod = m
          /\ mActive[m] \in {NoConn, modTask[m].conn}
    /\ \A s \in Servers : ioTask[s].buf # <<>> =>
          ioTask[s].conn \in DOMAIN conn /\ conn[ioTask[s].conn].srv = s

(* The channels a process knows are its own, and it finds a server under the *)
(* bits of the server at the other end.                                      *)
Channels ==
    /\ \A s \in Servers :
          /\ sActive[s] # NoConn => conn[sActive[s]].srv = s
          /\ \A i \in DOMAIN sMap[s] : conn[sMap[s][i]].srv = s
    /\ \A m \in Modules :
          /\ mActive[m] # NoConn => conn[mActive[m]].mod = m
          /\ \A k \in DOMAIN mMap[m] : /\ conn[mMap[m][k]].mod = m
                                      /\ ServerID[conn[mMap[m][k]].srv] = k

(* Messages carry the marks of the ends of their connection.                 *)
Addressed ==
    /\ \A c \in DOMAIN conn : \A x \in ToModule(c) :
          x.sid = ServerID[conn[c].srv] /\ (x.type = "MODULE_DISCOVERY" => Dials)
    /\ \A c \in DOMAIN conn : \A x \in ToServer(c) : x.from = conn[c].mod

(* What the IO thread works on is the object that its message names, or that *)
(* of the first id mapped to the connection whose stream has ended; once it  *)
(* is erased there is none with that id, unless a disconnect has crossed.    *)
WorkOf(s) == work[s].at # "none" =>
    IF work[s].eof = NoConn
    THEN /\ SrvMsgIs(s, Reports) /\ work[s].at # "erased"
         /\ work[s].id = Head(ioTask[s].buf).id % IdMask
    ELSE /\ ioTask[s] = Idle /\ KeysOf(sMap[s], work[s].eof) # {}
         /\ work[s].id = FirstKey(sMap[s], work[s].eof) % IdMask
         /\ work[s].at = "erased" /\ ~crossed[s] =>
               \A r \in modules[s] : r.id # work[s].id
Working == \A s \in Servers : WorkOf(s)
AddressInv == TypeInv /\ Configured /\ InHand /\ Channels /\ Addressed /\ Working

-----------------------------------------------------------------------------
(* What a step sends and reads *)

(* New messages: a server speaks of an object it has a channel for, or of    *)
(* the one whose id it assigns in this step; a module of an id it holds.     *)
BeingAssigned(s, i, n) ==
    ioTask[s].assigning /\ i = nextObjId[s] /\ n = Name[Head(ioTask[s].buf).from]
Said(s, i, n) ==
    \/ i \in DOMAIN sMap[s] /\ \E r \in modules[s] : r.id = i /\ r.name = n
    \/ BeingAssigned(s, i, n) /\ nextObjId'[s] = i + 1
FromServer(s, x) ==
    /\ x.sid = ServerID[s] /\ (x.type = "MODULE_DISCOVERY" => Dials)
    /\ x.type \in {"MODULE_ASSIGN_ID", "CALL_ATTR_METD"} => Said(s, x.id, x.name)
FromProgram(m, k, x) ==
    /\ x.from = m
    /\ x.type # "MODULE_DECLARE" =>
         x.id = Byte(Unassigned) \/ Holds(m, k, x.id) \/ WillHold(m, k, x.id)

Wires ==
    /\ DOMAIN conn \subseteq DOMAIN conn'
    /\ \A c \in DOMAIN conn :
          /\ conn'[c].srv = conn[c].srv /\ conn'[c].mod = conn[c].mod
          /\ conn'[c].by = conn[c].by /\ conn'[c].via = conn[c].via
    /\ \A c \in DOMAIN conn' : \A x \in Range(conn'[c].toMod) :
          \/ c \in DOMAIN conn /\ x \in Range(conn[c].toMod)
          \/ FromServer(conn'[c].srv, x)
    /\ \A c \in DOMAIN conn' : \A x \in Range(conn'[c].toSrv) :
          \/ c \in DOMAIN conn /\ x \in Range(conn[c].toSrv)
          \/ FromProgram(conn'[c].mod, ServerID[conn'[c].srv], x)

(* What a module, or a server, has in hand after a step: nothing, less than  *)
(* before, or what it has just read.                                         *)
ModHand(m) ==
    \/ modTask'[m].buf = <<>>
    \/ /\ modTask[m].buf # <<>> /\ modTask'[m].conn = modTask[m].conn
       /\ Range(modTask'[m].buf) \subseteq Range(modTask[m].buf)
       /\ mActive'[m] \in {NoConn, mActive[m]}
    \/ \E c \in DOMAIN conn :
          /\ conn[c].mod = m /\ conn[c].mEnd = "open"
          /\ modTask'[m].conn = c /\ mActive'[m] = c
          /\ Range(modTask'[m].buf) \subseteq Range(conn[c].toMod)
SrvHand(s) ==
    \/ ioTask'[s].buf = <<>>
    \/ /\ ioTask[s].buf # <<>> /\ ioTask'[s].conn = ioTask[s].conn
       /\ Range(ioTask'[s].buf) \subseteq Range(ioTask[s].buf)
    \/ \E c \in DOMAIN conn :
          /\ conn[c].srv = s /\ ioTask'[s].conn = c
          /\ Range(ioTask'[s].buf) \subseteq Range(conn[c].toSrv)
    \/ \E c \in DOMAIN conn' \ DOMAIN conn :
          /\ conn'[c].srv = s /\ ioTask'[s].conn = c
          /\ Range(ioTask'[s].buf) = {Declare(conn'[c].mod)}

(* The steps of servers and modules do not touch each other's variables.     *)
ServerStep(s) == SrvIO(s) \/ SrvPython(s) \/ SrvStop(s) \/ SrvStart(s)
ModuleStep(m) == ModLoop(m) \/ ModProgram(m)

LEMMA ServerLeaves ==
    ASSUME NEW s \in Servers, ServerStep(s)
    PROVE  UNCHANGED <<up, serverMap, mMap, mActive, modTask, executed>>
  <1>1. CASE SrvIO(s)
    BY <1>1, ObjectWorkKeeps DEF SrvIO, modCommVars, SrvAccept, SrvEof, SrvRead,
       SrvUdpDeclare, HandleDeclareNew, AssignModuleID, HandleDeclareDuplicate,
       HandleModuleShutdown, HandleExpose, HandleDesc, HandleValue, SrvApply,
       ObjectWork, FindAtEof, Find, NotifyDestroyed, EraseAtEof
  <1>2. CASE ~SrvIO(s)
    BY <1>2, ObjectWorkKeeps DEF ServerStep, SrvPython, modCommVars, EndDisconnect, Discover, SendDiscovery, Connect,
       Disconnect, CallRemote, SrvStop, SrvStart
  <1> QED
    BY <1>1, <1>2

LEMMA ModuleLeaves ==
    ASSUME NEW m \in Modules, ModuleStep(m)
    PROVE  UNCHANGED <<sUp, modules, nextObjId, notices, work, leaving, crossed, sMap,
                       sActive, ioTask, main>>
  BY DEF ModuleStep, ModLoop, ModProgram, registryVars, handlerVars, srvCommVars, ModAccept, ModEof,
     ModRead, ModUdpDiscovery, HandleDiscovery, HandleServerShutdown, HandleAssignId,
     HandleCall, UpdateAttribute, ModStart, ModCrash, ModShutdown

LEMMA EachStep ==
    ASSUME [Next]_vars
    PROVE  \/ \E s \in Servers : ServerStep(s)
           \/ \E m \in Modules : ModuleStep(m)
           \/ UNCHANGED vars
  BY DEF Next, ServerStep, ModuleStep

(* A handler lays its message down. *)
LEMMA RestHand ==
    ASSUME NEW M, NEW t \in Task(M), t.buf # <<>>
    PROVE  \/ Rest(t).buf = <<>>
           \/ Rest(t).conn = t.conn /\ Rest(t).buf = Tail(t.buf)
              /\ Range(Rest(t).buf) \subseteq Range(t.buf) /\ Rest(t).udp = t.udp
  <1>1. t.buf \in Seq(M)
    BY DEF Task
  <1>2. Range(Tail(t.buf)) \subseteq Range(t.buf)
    BY <1>1, Ranges
  <1> QED
    BY <1>2 DEF Rest, Idle, Task

LEMMA ModHands ==
    ASSUME TypeInv, [Next]_vars
    PROVE  \A m \in Modules : ModHand(m)
  <1>1. CASE UNCHANGED <<modTask, mActive>>
    BY <1>1 DEF ModHand
  <1>2. ASSUME NEW m \in Modules, ModuleStep(m), ~UNCHANGED <<modTask, mActive>>
        PROVE  \A x \in Modules : ModHand(x)
    <2>1. ASSUME NEW t, NEW a, modTask' = [modTask EXCEPT ![m] = t],
                 mActive' = [mActive EXCEPT ![m] = a],
                 \/ t.buf = <<>>
                 \/ /\ modTask[m].buf # <<>> /\ t.conn = modTask[m].conn
                    /\ Range(t.buf) \subseteq Range(modTask[m].buf)
                    /\ a \in {NoConn, mActive[m]}
                 \/ \E c \in DOMAIN conn : /\ conn[c].mod = m /\ conn[c].mEnd = "open"
                                           /\ t.conn = c /\ a = c
                                           /\ Range(t.buf) \subseteq Range(conn[c].toMod)
          PROVE  \A x \in Modules : ModHand(x)
      <3>1. modTask'[m] = t /\ mActive'[m] = a
        BY <2>1, Facts DEF ModuleTypes
      <3>2. ModHand(m)
        BY <2>1, <3>1 DEF ModHand
      <3>3. \A x \in Modules \ {m} : modTask'[x] = modTask[x] /\ mActive'[x] = mActive[x]
        BY <2>1, Facts DEF ModuleTypes
      <3>4. \A x \in Modules \ {m} : ModHand(x)
        BY <3>3 DEF ModHand
      <3> QED
        BY <3>2, <3>4
    <2>2. /\ modTask[m] \in Task(ModMsg)
          /\ modTask = [modTask EXCEPT ![m] = modTask[m]]
          /\ mActive = [mActive EXCEPT ![m] = mActive[m]]
          /\ modTask[m] = Idle => modTask[m].buf = <<>>
      BY Facts DEF ModuleTypes, Idle
    <2>3. ASSUME modTask[m].buf # <<>>, NEW a \in {NoConn, mActive[m]},
                 modTask' = [modTask EXCEPT ![m] = Rest(modTask[m])],
                 mActive' = [mActive EXCEPT ![m] = a]
          PROVE  \A x \in Modules : ModHand(x)
      <3> DEFINE t == Rest(modTask[m])
      <3>1. \/ t.buf = <<>>
            \/ t.conn = modTask[m].conn /\ Range(t.buf) \subseteq Range(modTask[m].buf)
        BY <2>2, <2>3, RestHand
      <3> HIDE DEF t
      <3> QED
        BY <2>1, <2>3, <3>1 DEF t
    <2>4. CASE HandleDiscovery(m) \/ HandleServerShutdown(m) \/ HandleAssignId(m)
               \/ HandleCall(m)
      <3>1. /\ modTask[m].buf # <<>>
            /\ modTask' = [modTask EXCEPT ![m] = Rest(modTask[m])]
            /\ \/ mActive' = [mActive EXCEPT ![m] = NoConn]
               \/ mActive' = mActive
        BY <2>4 DEF HandleDiscovery, HandleServerShutdown, HandleAssignId, HandleCall, ModMsgIs
      <3> QED
        BY <2>2, <2>3, <3>1
    <2>5. ASSUME modTask[m] = Idle, UNCHANGED modTask,
                 NEW a, mActive' = [mActive EXCEPT ![m] = a]
          PROVE  \A x \in Modules : ModHand(x)
      BY <2>1, <2>2, <2>5
    <2>6. CASE \E c \in DOMAIN conn : ModAccept(m, c)
      BY <2>5, <2>6 DEF ModAccept
    <2>7. CASE \E s \in Servers : ModUdpDiscovery(m, s)
      BY <1>2, <2>5, <2>7 DEF ModUdpDiscovery
    <2>8. ASSUME NEW c \in DOMAIN conn, NEW n \in 1..Len(conn[c].toMod), ModRead(m, c, n)
          PROVE  \A x \in Modules : ModHand(x)
      <3> DEFINE q == SubSeq(conn[c].toMod, 1, n)
                 t == Reading(c, q)
      <3>1. Range(q) \subseteq Range(conn[c].toMod)
        BY <2>8, PartRange, Facts, ConnFields
      <3>2. t.conn = c /\ t.buf = q
        BY DEF Reading
      <3>3. modTask' = [modTask EXCEPT ![m] = t] /\ mActive' = [mActive EXCEPT ![m] = c]
            /\ conn[c].mod = m /\ conn[c].mEnd = "open"
        BY <2>8 DEF ModRead
      <3> HIDE DEF t, q
      <3> QED
        BY <2>1, <3>1, <3>2, <3>3
    <2>9. CASE ModStart(m) \/ ModCrash(m) \/ ModShutdown(m)
      <3>1. /\ modTask' = [modTask EXCEPT ![m] = Idle]
            /\ \E a : mActive' = [mActive EXCEPT ![m] = a]
        BY <2>9 DEF ModStart, ModCrash, ModShutdown, ModMemory
      <3>2. Idle.buf = <<>>
        BY DEF Idle
      <3> QED
        BY <2>1, <3>1, <3>2
    <2>10. (\E c \in DOMAIN conn : ModEof(m, c)) \/ UpdateAttribute(m) =>
              UNCHANGED <<modTask, mActive>>
      BY DEF ModEof, UpdateAttribute, modCommVars
    <2> QED
      BY <1>2, <2>4, <2>6, <2>7, <2>8, <2>9, <2>10 DEF ModuleStep, ModLoop, ModProgram
  <1>3. ASSUME NEW s \in Servers, ServerStep(s)
        PROVE  UNCHANGED <<modTask, mActive>>
    BY <1>3, ServerLeaves
  <1> QED
    BY <1>1, <1>2, <1>3, EachStep DEF vars

LEMMA SrvHands ==
    ASSUME TypeInv, TypeInv', [Next]_vars
    PROVE  \A s \in Servers : SrvHand(s)
  <1>1. CASE UNCHANGED ioTask
    BY <1>1 DEF SrvHand
  <1>2. ASSUME NEW s \in Servers, ServerStep(s), ~UNCHANGED ioTask
        PROVE  \A x \in Servers : SrvHand(x)
    <2>1. ASSUME NEW t, ioTask' = [ioTask EXCEPT ![s] = t],
                 \/ t.buf = <<>>
                 \/ /\ ioTask[s].buf # <<>> /\ t.conn = ioTask[s].conn
                    /\ Range(t.buf) \subseteq Range(ioTask[s].buf)
                 \/ \E c \in DOMAIN conn : /\ conn[c].srv = s /\ t.conn = c
                                           /\ Range(t.buf) \subseteq Range(conn[c].toSrv)
                 \/ \E c \in DOMAIN conn' \ DOMAIN conn :
                       /\ conn'[c].srv = s /\ t.conn = c
                       /\ Range(t.buf) = {Declare(conn'[c].mod)}
          PROVE  \A x \in Servers : SrvHand(x)
      <3>1. ioTask'[s] = t
        BY <2>1, Facts DEF ServerTypes
      <3>2. SrvHand(s)
        BY <2>1, <3>1 DEF SrvHand
      <3>3. \A x \in Servers \ {s} : ioTask'[x] = ioTask[x]
        BY <2>1, Facts DEF ServerTypes
      <3>4. \A x \in Servers \ {s} : SrvHand(x)
        BY <3>3 DEF SrvHand
      <3> QED
        BY <3>2, <3>4
    <2>2. ioTask[s] \in Task(SrvMsg)
      BY Facts
    <2>3. ASSUME ioTask[s].buf # <<>>, ioTask' = [ioTask EXCEPT ![s] = Rest(ioTask[s])]
          PROVE  \A x \in Servers : SrvHand(x)
      <3> DEFINE t == Rest(ioTask[s])
      <3>1. \/ t.buf = <<>>
            \/ t.conn = ioTask[s].conn /\ Range(t.buf) \subseteq Range(ioTask[s].buf)
        BY <2>2, <2>3, RestHand
      <3> HIDE DEF t
      <3> QED
        BY <2>1, <2>3, <3>1 DEF t
    <2>4. CASE HandleDeclareDuplicate(s) \/ HandleModuleShutdown(s)
               \/ HandleExpose(s) \/ HandleDesc(s) \/ HandleValue(s)
      BY <2>3, <2>4 DEF HandleDeclareDuplicate, HandleModuleShutdown, HandleExpose,
         HandleDesc, HandleValue, SrvApply, SrvMsgIs
    <2>5. CASE AssignModuleID(s)
      <3>1. ioTask[s].buf # <<>>
        BY <2>5, Facts DEF Assigning, AssignModuleID
      <3> QED
        BY <2>3, <2>5, <3>1 DEF AssignModuleID
    <2>6. CASE HandleDeclareNew(s)
      <3> DEFINE t == [ioTask[s] EXCEPT !.assigning = TRUE]
      <3>1. \/ ioTask' = [ioTask EXCEPT ![s] = Rest(ioTask[s])]
            \/ ioTask' = [ioTask EXCEPT ![s] = t]
        BY <2>6 DEF HandleDeclareNew
      <3>2. t.conn = ioTask[s].conn /\ t.buf = ioTask[s].buf /\ ioTask[s].buf # <<>>
        BY <2>2, <2>6 DEF Task, HandleDeclareNew, SrvMsgIs
      <3> HIDE DEF t
      <3> QED
        BY <2>1, <2>3, <3>1, <3>2
    <2>7. ASSUME NEW c \in DOMAIN conn, NEW n \in 1..Len(conn[c].toSrv), SrvRead(s, c, n)
          PROVE  \A x \in Servers : SrvHand(x)
      <3> DEFINE q == SubSeq(conn[c].toSrv, 1, n)
                 t == Reading(c, q)
      <3>1. Range(q) \subseteq Range(conn[c].toSrv)
        BY <2>7, PartRange, Facts, ConnFields
      <3>2. t.conn = c /\ t.buf = q
        BY DEF Reading
      <3>3. ioTask' = [ioTask EXCEPT ![s] = t] /\ conn[c].srv = s
        BY <2>7 DEF SrvRead
      <3> HIDE DEF t, q
      <3> QED
        BY <2>1, <3>1, <3>2, <3>3
    <2>8. ASSUME NEW m \in Modules, SrvUdpDeclare(s, m)
          PROVE  \A x \in Servers : SrvHand(x)
      <3> DEFINE c == Len(conn) + 1
                 t == [Reading(c, <<Declare(m)>>) EXCEPT !.udp = TRUE]
      <3>1. conn' = Append(conn, OpenConn(s, m, "srv", "net"))
            /\ ioTask' = [ioTask EXCEPT ![s] = t]
        BY <1>2, <2>8 DEF SrvUdpDeclare
      <3>2. /\ c \in DOMAIN conn' \ DOMAIN conn /\ conn'[c].srv = s
            /\ conn'[c].mod = m
        <4> HIDE DEF c, t
        <4>1. c \in DOMAIN conn' \ DOMAIN conn /\ conn'[c] = OpenConn(s, m, "srv", "net")
          BY <3>1, AppendGrows, Facts DEF c
        <4> QED
          BY <4>1 DEF OpenConn
      <3>3. t.conn = c /\ t.buf = <<Declare(m)>> /\ Range(<<Declare(m)>>) = {Declare(m)}
        BY Ranges DEF Reading
      <3> HIDE DEF t, c
      <3> QED
        BY <2>1, <3>1, <3>2, <3>3
    <2>9. CASE SrvStop(s) \/ SrvStart(s)
      <3>1. ioTask' = [ioTask EXCEPT ![s] = Idle] /\ Idle.buf = <<>>
        BY <2>9 DEF SrvStop, SrvStart, SrvMemory, Idle
      <3> QED
        BY <2>1, <3>1
    <2>10. SrvPython(s) \/ (\E c \in DOMAIN conn : SrvAccept(s, c) \/ SrvEof(s, c))
           \/ ObjectWork(s) => UNCHANGED ioTask
      BY ObjectWorkKeeps DEF SrvPython, Discover, SendDiscovery, Connect, Disconnect, CallRemote,
         SrvAccept, SrvEof
    <2> QED
      BY <1>2, <2>4, <2>5, <2>6, <2>7, <2>8, <2>9, <2>10 DEF ServerStep, SrvIO
  <1>3. ASSUME NEW m \in Modules, ModuleStep(m)
        PROVE  UNCHANGED ioTask
    BY <1>3, ModuleLeaves
  <1> QED
    BY <1>1, <1>2, <1>3, EachStep DEF vars

-----------------------------------------------------------------------------
(* What servers send *)

LEMMA WiresFrom ==
    ASSUME NEW A, NEW B, Grows(conn, conn', A, B),
           \A c \in DOMAIN conn' : \A x : <<c, x>> \in A => FromServer(conn'[c].srv, x),
           \A c \in DOMAIN conn' : \A x : <<c, x>> \in B =>
              FromProgram(conn'[c].mod, ServerID[conn'[c].srv], x)
    PROVE  Wires
  BY DEF Grows, Wires

LEMMA QuietWires ==
    ASSUME Grows(conn, conn', {}, {})
    PROVE  Wires
  BY WiresFrom

(* A server writes one message on a channel of its own. *)
LEMMA ServerWrites ==
    ASSUME TypeInv, NEW s \in Servers, NEW c \in {NoConn} \cup DOMAIN conn, NEW x \in ModMsg,
           conn' = SrvWrite(conn, c, x),
           c # NoConn => conn[c].srv = s /\ FromServer(s, x)
    PROVE  Wires
  <1>1. Grows(conn, conn', {<<c, x>>}, {})
    BY SrvWriteGrows, Facts
  <1>2. \A d \in DOMAIN conn' : \A y : <<d, y>> \in {<<c, x>>} => FromServer(conn'[d].srv, y)
    <2>2. DOMAIN conn' = DOMAIN conn /\ conn \in Seq(Conn)
      BY SrvWriteType, Facts
    <2>1. \A d \in DOMAIN conn' : d # NoConn
      BY <2>2 DEF NoConn
    <2> QED
      BY <1>1, <2>1, <2>2 DEF Grows
  <1> QED
    BY <1>1, <1>2, WiresFrom

LEMMA SrvAcceptWires ==
    ASSUME AddressInv, NEW s \in Servers, NEW c \in DOMAIN conn, SrvAccept(s, c)
    PROVE  Wires
  <1> DEFINE k == [conn[c] EXCEPT !.sEnd = "open"]
  <1>1. conn \in Seq(Conn) /\ conn[c] \in Conn
    BY Facts DEF AddressInv
  <1>2. /\ k \in Conn /\ k.srv = conn[c].srv /\ k.mod = conn[c].mod
        /\ k.by = conn[c].by /\ k.via = conn[c].via
        /\ k.toSrv = conn[c].toSrv /\ k.toMod = conn[c].toMod
    <2>1. "open" \in EndState
      BY DEF EndState
    <2>2. k \in Conn
      BY <1>1, <2>1, ConnFields
    <2> QED
      BY <1>1, <2>2 DEF Conn
  <1>3. conn' = [conn EXCEPT ![c] = k]
    BY DEF SrvAccept
  <1> HIDE DEF k
  <1> QED
    BY <1>1, <1>2, <1>3, GrowsOne, QuietWires

LEMMA SrvReadWires ==
    ASSUME AddressInv, NEW s \in Servers, NEW c \in DOMAIN conn,
           NEW n \in 1..Len(conn[c].toSrv), SrvRead(s, c, n)
    PROVE  Wires
  <1> DEFINE rest == SubSeq(conn[c].toSrv, n + 1, Len(conn[c].toSrv))
             k == [conn[c] EXCEPT !.toSrv = rest]
  <1>1. conn \in Seq(Conn) /\ conn[c] \in Conn /\ conn[c].toSrv \in Seq(SrvMsg)
    BY Facts, ConnFields DEF AddressInv
  <1>2. rest \in Seq(SrvMsg) /\ Range(rest) \subseteq Range(conn[c].toSrv)
    BY <1>1, PartOfList, PartRange
  <1>3. conn' = [conn EXCEPT ![c] = k]
    BY DEF SrvRead
  <1> HIDE DEF rest
  <1>4. /\ k \in Conn /\ k.srv = conn[c].srv /\ k.mod = conn[c].mod
        /\ k.by = conn[c].by /\ k.via = conn[c].via
        /\ k.toSrv = rest /\ k.toMod = conn[c].toMod
    BY <1>1, <1>2, ConnFields DEF Conn
  <1> HIDE DEF k
  <1> QED
    BY <1>1, <1>2, <1>3, <1>4, GrowsOne, QuietWires

LEMMA AssignModuleIDWires ==
    ASSUME AddressInv, NEW s \in Servers, AssignModuleID(s)
    PROVE  Wires
  <1> DEFINE i == nextObjId[s]
             n == Name[Head(ioTask[s].buf).from]
             x == AssignId(s, i, n)
             c == sActive[s]
  <1>1. /\ ioTask[s].assigning /\ nextObjId'[s] = i + 1 /\ conn' = SrvWrite(conn, c, x)
    BY Facts DEF AssignModuleID, AddressInv, RegistryTypes
  <1>2. i \in Ids /\ Byte(i) = i
    <2>1. i \in FirstId..MaxModuleId + 1 /\ i <= MaxModuleId
      BY <1>1, Facts DEF AddressInv, RegistryTypes, Assigning
    <2>2. i \in Ids
      BY <2>1, ConstantsAssumption DEF Ids
    <2> QED
      BY <2>2, ByteType
  <1>3. n \in Names
    <2>1. ioTask[s].buf # <<>> /\ Head(ioTask[s].buf).type = "MODULE_DECLARE"
      BY <1>1, Facts DEF AddressInv, Assigning
    <2>2. Head(ioTask[s].buf) \in SrvMsg
      BY <2>1, Facts, HeadType DEF AddressInv
    <2> QED
      BY <2>1, <2>2 DEF SrvMsg, Names
  <1>4. x \in ModMsg /\ c \in {NoConn} \cup DOMAIN conn /\ (c # NoConn => conn[c].srv = s)
    BY <1>2, <1>3, ServerMessages, Facts DEF AddressInv, Channels
  <1>5. Said(s, i, n)
    BY <1>1 DEF Said, BeingAssigned
  <1>6. FromServer(s, x)
    BY <1>2, <1>5 DEF FromServer, AssignId
  <1> HIDE DEF x, c
  <1> QED
    BY <1>1, <1>4, <1>6, ServerWrites DEF AddressInv

LEMMA SendDiscoveryWires ==
    ASSUME AddressInv, NEW s \in Servers, SendDiscovery(s)
    PROVE  Wires
  <1>1. /\ sActive[s] \in {NoConn} \cup DOMAIN conn /\ Discovery(s) \in ModMsg
        /\ conn' = SrvWrite(conn, sActive[s], Discovery(s))
        /\ sActive[s] # NoConn => conn[sActive[s]].srv = s
    BY ServerMessages, Facts DEF AddressInv, SendDiscovery, Channels
  <1>2. FromServer(s, Discovery(s))
    BY DEF AddressInv, Configured, SendDiscovery, Dials, Discovery, FromServer
  <1> QED
    BY <1>1, <1>2, ServerWrites DEF AddressInv

LEMMA ChannelFacts ==
    ASSUME AddressInv, NEW s \in Servers, NEW r \in modules[s]
    PROVE  LET c == ChannelOf(s, r.id)
           IN /\ c \in {NoConn} \cup DOMAIN conn
              /\ c # NoConn => conn[c].srv = s /\ r.id \in DOMAIN sMap[s]
              /\ r.id \in Ids /\ Byte(r.id) = r.id /\ r.name \in Names
  <1>1. r \in ModuleRec
    BY Facts DEF AddressInv
  <1>2. r.id \in Ids /\ Byte(r.id) = r.id /\ r.name \in Names
    BY <1>1, ByteType DEF ModuleRec
  <1>3. \A i \in DOMAIN sMap[s] : sMap[s][i] \in DOMAIN conn /\ conn[sMap[s][i]].srv = s
    BY Facts DEF AddressInv, ServerTypes, Channels
  <1> QED
    BY <1>2, <1>3 DEF ChannelOf

LEMMA DisconnectWires ==
    ASSUME AddressInv, NEW s \in Servers, NEW r \in modules[s], Disconnect(s, r)
    PROVE  Wires
  <1> DEFINE x == ServerShutdown(s, r.id)
             c == ChannelOf(s, r.id)
  <1>1. conn' = SrvWrite(conn, c, x)
    BY DEF Disconnect
  <1>2. /\ c \in {NoConn} \cup DOMAIN conn /\ (c # NoConn => conn[c].srv = s)
        /\ x \in ModMsg
    BY ChannelFacts, ServerMessages
  <1>3. FromServer(s, x)
    BY DEF FromServer, ServerShutdown
  <1> HIDE DEF x, c
  <1> QED
    BY <1>1, <1>2, <1>3, ServerWrites DEF AddressInv

LEMMA CallRemoteWires ==
    ASSUME AddressInv, NEW s \in Servers, NEW r \in modules[s], CallRemote(s, r)
    PROVE  Wires
  <1> DEFINE x == Call(s, r.id, r.name)
             c == ChannelOf(s, r.id)
  <1>1. conn' = SrvWrite(conn, c, x)
    BY DEF CallRemote
  <1>2. /\ c \in {NoConn} \cup DOMAIN conn
        /\ c # NoConn => conn[c].srv = s /\ r.id \in DOMAIN sMap[s]
        /\ x \in ModMsg /\ Byte(r.id) = r.id
    BY ChannelFacts, ServerMessages
  <1>3. c # NoConn => FromServer(s, x)
    BY <1>2 DEF FromServer, Call, Said
  <1> HIDE DEF x, c
  <1> QED
    BY <1>1, <1>2, <1>3, ServerWrites DEF AddressInv

(* PyConnect.discover(): connections may be added, and every connection used *)
(* is this server's own.                                                     *)
Discovered(s, all, used) ==
    /\ used \subseteq DOMAIN all /\ DOMAIN conn \subseteq DOMAIN all
    /\ \A c \in DOMAIN conn : all[c] = conn[c]
    /\ \A c \in DOMAIN all \ DOMAIN conn :
          /\ all[c].toMod = <<>> /\ all[c].toSrv = <<>>
          /\ all[c].by = "srv" /\ all[c].via = "ipc" /\ all[c].srv = s
          /\ all[c].sEnd = "open" /\ up[all[c].mod] /\ "ipc" \in Transports
    /\ conn' = [c \in DOMAIN all |-> IF c \in used
          THEN [all[c] EXCEPT !.toMod = Append(all[c].toMod, Discovery(s))]
          ELSE all[c]]
    /\ \A c \in used : all[c].srv = s /\ all[c].via = "ipc"
    /\ "discover" \in Ops
    /\ \/ used = {} /\ UNCHANGED sActive
       \/ \E c \in used : sActive' = [sActive EXCEPT ![s] = c]

LEMMA DiscoverShape ==
    ASSUME TypeInv, NEW s \in Servers, Discover(s)
    PROVE  \E all \in Seq(Conn), used \in SUBSET Nat : Discovered(s, all, used)
  <1> DEFINE live == {m \in Modules : "ipc" \in Transports /\ up[m]}
             todo == live \ {conn[c].mod : c \in Talkers(s)}
             new  == SetToSeq(todo)
             more == [k \in DOMAIN new |-> OpenConn(s, new[k], "srv", "ipc")]
             all  == conn \o more
             used == Talkers(s) \cup (Len(conn) + 1..Len(all))
  <1>1. new \in Seq(todo) /\ new \in Seq(Modules)
    <2>1. IsFiniteSet(Modules) /\ todo \in SUBSET Modules
      BY ConstantsAssumption
    <2>2. IsFiniteSet(todo)
      BY <2>1, FS_Subset
    <2>3. new \in Seq(todo)
      BY <2>2, SetToSeqType
    <2> HIDE DEF new, todo
    <2> QED
      BY <2>1, <2>3
  <1>2. Len(new) \in Nat /\ DOMAIN new = 1..Len(new)
    <2> HIDE DEF new
    <2> QED
      BY <1>1
  <1>3. \A k \in DOMAIN new : new[k] \in Modules /\ up[new[k]] /\ "ipc" \in Transports
    <2>1. \A k \in DOMAIN new : new[k] \in todo
      <3> HIDE DEF new, todo
      <3> QED
        BY <1>1
    <2> HIDE DEF new
    <2> QED
      BY <2>1
  <1>4. more \in [1..Len(new) -> Conn]
    <2>1. \A k \in DOMAIN new : OpenConn(s, new[k], "srv", "ipc") \in Conn
      BY <1>3, OpenConnType
    <2> HIDE DEF new
    <2> QED
      BY <1>2, <2>1
  <1>5. conn \in Seq(Conn) /\ Len(conn) \in Nat /\ DOMAIN conn = 1..Len(conn)
    BY Facts
  <1>6. /\ all \in Seq(Conn) /\ DOMAIN conn \subseteq DOMAIN all
        /\ DOMAIN all = 1..Len(all) /\ Len(all) = Len(conn) + Len(new)
        /\ \A c \in DOMAIN conn : all[c] = conn[c]
        /\ \A c \in Len(conn) + 1..Len(all) : all[c] = more[c - Len(conn)]
    <2> HIDE DEF new, more
    <2>1. more \in Seq(Conn) /\ Len(more) = Len(new)
      BY <1>2, <1>4
    <2> QED
      BY <1>2, <1>5, <2>1
  <1>7. \A c \in Len(conn) + 1..Len(all) :
           /\ all[c].toMod = <<>> /\ all[c].toSrv = <<>>
           /\ all[c].by = "srv" /\ all[c].via = "ipc" /\ all[c].srv = s
           /\ all[c].sEnd = "open" /\ up[all[c].mod] /\ "ipc" \in Transports
    <2> SUFFICES ASSUME NEW c \in Len(conn) + 1..Len(all)
                 PROVE  /\ all[c].toMod = <<>> /\ all[c].toSrv = <<>>
                        /\ all[c].by = "srv" /\ all[c].via = "ipc" /\ all[c].srv = s
                        /\ all[c].sEnd = "open" /\ up[all[c].mod] /\ "ipc" \in Transports
      OBVIOUS
    <2>1. c - Len(conn) \in DOMAIN new /\ all[c] = more[c - Len(conn)]
      <3> HIDE DEF new, more, all
      <3> QED
        BY <1>2, <1>5, <1>6
    <2>2. all[c] = OpenConn(s, new[c - Len(conn)], "srv", "ipc")
      <3> HIDE DEF new, all
      <3> QED
        BY <2>1
    <2> HIDE DEF new, all
    <2> QED
      BY <1>3, <2>1, <2>2 DEF OpenConn
  <1>8. used \subseteq DOMAIN all
    <2>1. Talkers(s) \subseteq DOMAIN conn
      BY DEF Talkers
    <2> HIDE DEF all
    <2> QED
      BY <1>5, <1>6, <2>1
  <1>9. \A c \in used : all[c].srv = s /\ all[c].via = "ipc"
    <2>1. \A c \in Talkers(s) : c \in DOMAIN conn /\ conn[c].srv = s /\ conn[c].via = "ipc"
      BY DEF Talkers
    <2> HIDE DEF all
    <2> QED
      BY <1>6, <1>7, <2>1
  <1>10. /\ conn' = [c \in DOMAIN all |-> IF c \in used
               THEN [all[c] EXCEPT !.toMod = Append(all[c].toMod, Discovery(s))]
               ELSE all[c]]
         /\ "discover" \in Ops
         /\ \/ used = {} /\ UNCHANGED sActive
            \/ \E c \in used : sActive' = [sActive EXCEPT ![s] = c]
    BY DEF Discover, Op
  <1>11. \A c \in DOMAIN all \ DOMAIN conn : c \in Len(conn) + 1..Len(all)
    <2> HIDE DEF all
    <2> QED
      BY <1>5, <1>6
  <1>12. used \in SUBSET Nat /\ DOMAIN all \subseteq Nat
    <2> HIDE DEF all, used
    <2> QED
      BY <1>6, <1>8
  <1> HIDE DEF all, used
  <1>13. Discovered(s, all, used)
    BY <1>6, <1>7, <1>8, <1>9, <1>10, <1>11, Zenon DEF Discovered
  <1> QED
    BY <1>6, <1>12, <1>13

LEMMA DiscoverWires ==
    ASSUME AddressInv, TypeInv', NEW s \in Servers, Discover(s)
    PROVE  Wires
  <1>1. PICK all \in Seq(Conn), used \in SUBSET Nat : Discovered(s, all, used)
    BY DiscoverShape DEF AddressInv
  <1>2. Range(<<>>) = {}
    BY Ranges
  <1>3. Grows(conn, all, {}, {})
    <2>1. \A c \in DOMAIN all \ DOMAIN conn : all[c].toMod = <<>> /\ all[c].toSrv = <<>>
      BY <1>1 DEF Discovered
    <2>2. DOMAIN conn \subseteq DOMAIN all /\ \A c \in DOMAIN conn : all[c] = conn[c]
      BY <1>1 DEF Discovered
    <2> QED
      BY <1>2, <2>1, <2>2 DEF Grows
  <1>4. used # {} => Dials
    BY <1>1 DEF Dials, AddressInv, Configured, Discovered
  <1> DEFINE A == used \X {Discovery(s)}
  <1>5. Grows(all, conn', A, {})
    <2>1. DOMAIN conn' = DOMAIN all
      BY <1>1 DEF Discovered
    <2>2. ASSUME NEW c \in DOMAIN all
          PROVE  /\ conn'[c].srv = all[c].srv /\ conn'[c].mod = all[c].mod
                 /\ conn'[c].by = all[c].by /\ conn'[c].via = all[c].via
                 /\ conn'[c].toSrv = all[c].toSrv
                 /\ \A x \in Range(conn'[c].toMod) : x \in Range(all[c].toMod) \/ <<c, x>> \in A
      <3>1. all[c] \in Conn /\ all[c].toMod \in Seq(ModMsg) /\ Discovery(s) \in ModMsg
        BY ConnFields, ServerMessages
      <3>2. CASE c \in used
        <4>1. conn'[c] = [all[c] EXCEPT !.toMod = Append(all[c].toMod, Discovery(s))]
          BY <1>1, <3>2 DEF Discovered
        <4>2. conn'[c].toMod = Append(all[c].toMod, Discovery(s))
          BY <3>1, <4>1 DEF Conn
        <4>3. Range(conn'[c].toMod) = Range(all[c].toMod) \cup {Discovery(s)}
          BY <3>1, <4>2, Ranges
        <4> QED
          BY <3>1, <3>2, <4>1, <4>3 DEF Conn
      <3>3. CASE c \notin used
        BY <1>1, <3>3 DEF Discovered
      <3> QED
        BY <3>2, <3>3
    <2> QED
      BY <2>1, <2>2 DEF Grows
  <1>6. Grows(conn, conn', A, {})
    BY <1>3, <1>5 DEF Grows
  <1>7. \A c \in DOMAIN conn' : \A x : <<c, x>> \in A => FromServer(conn'[c].srv, x)
    <2> SUFFICES ASSUME NEW c \in used PROVE FromServer(conn'[c].srv, Discovery(s))
      OBVIOUS
    <2>1. c \in DOMAIN all /\ conn'[c].srv = s
      BY <1>1, <1>5 DEF Grows, Discovered
    <2> QED
      BY <1>4, <2>1 DEF FromServer, Discovery
  <1> HIDE DEF A
  <1> QED
    BY <1>6, <1>7, WiresFrom

LEMMA ServerWires ==
    ASSUME AddressInv, TypeInv', NEW s \in Servers, ServerStep(s)
    PROVE  Wires
  <1>1. UNCHANGED conn => Wires
    BY GrowsNot, QuietWires
  <1>2. \A C : conn' = CloseSrv(conn, C) => Wires
    BY ClosedGrows, QuietWires, Facts DEF AddressInv
  <1>3. \A m \in Modules :
           conn' = Append(conn, OpenConn(s, m, "srv", "net")) => Wires
    BY AppendGrows, QuietWires, Facts DEF AddressInv
  <1>4. CASE SrvIO(s)
    <2>1. \A c \in DOMAIN conn : SrvEof(s, c) => Wires
      BY <1>2 DEF SrvEof
    <2>2. \A m \in Modules : SrvUdpDeclare(s, m) => Wires
      BY <1>1, <1>3 DEF SrvUdpDeclare
    <2>3. HandleDeclareNew(s) \/ HandleModuleShutdown(s) \/ HandleExpose(s)
          \/ HandleDesc(s) \/ HandleValue(s) => Wires
      BY <1>1 DEF HandleDeclareNew, HandleModuleShutdown, HandleExpose, HandleDesc,
         HandleValue, SrvApply
    <2>4. HandleDeclareDuplicate(s) => Wires
      BY <1>1, <1>2 DEF HandleDeclareDuplicate
    <2>5. ObjectWork(s) => Wires
      BY <1>1, ObjectWorkKeeps
    <2> QED
      BY <1>4, <2>1, <2>2, <2>3, <2>4, <2>5, SrvAcceptWires, SrvReadWires,
         AssignModuleIDWires DEF SrvIO
  <1>5. CASE SrvPython(s)
    BY <1>1, <1>3, <1>5, DiscoverWires, SendDiscoveryWires, DisconnectWires,
       CallRemoteWires, ObjectWorkKeeps DEF SrvPython, Connect
  <1>6. CASE SrvStop(s) \/ SrvStart(s)
    BY <1>1, <1>2, <1>6 DEF SrvStop, SrvStart
  <1> QED
    BY <1>4, <1>5, <1>6 DEF ServerStep

-----------------------------------------------------------------------------
(* What modules send *)

(* The message a module handles came over the connection it was read from,   *)
(* and so did one that a server handles.                                     *)
LEMMA ModInHand ==
    ASSUME AddressInv, NEW m \in Modules, modTask[m].buf # <<>>
    PROVE  LET c == modTask[m].conn
               x == Head(modTask[m].buf)
           IN /\ c \in DOMAIN conn /\ conn[c].mod = m /\ mActive[m] \in {NoConn, c}
              /\ x \in ModMsg /\ x \in ToModule(c)
              /\ x.sid = ServerID[conn[c].srv]
              /\ Range(modTask[m].buf) \subseteq ToModule(c)
  <1>1. modTask[m] \in Task(ModMsg)
    BY Facts DEF AddressInv
  <1>2. Head(modTask[m].buf) \in ModMsg
    BY <1>1, HeadType
  <1>3. modTask[m].buf \in Seq(ModMsg)
    BY <1>1 DEF Task
  <1>4. Head(modTask[m].buf) \in Range(modTask[m].buf)
    BY <1>3, Ranges
  <1>5. /\ modTask[m].conn \in DOMAIN conn /\ conn[modTask[m].conn].mod = m
        /\ mActive[m] \in {NoConn, modTask[m].conn}
    BY DEF AddressInv, InHand
  <1>6. Range(modTask[m].buf) \subseteq ToModule(modTask[m].conn)
    BY <1>5 DEF ToModule
  <1> QED
    BY <1>2, <1>4, <1>5, <1>6 DEF AddressInv, Addressed

LEMMA SrvInHand ==
    ASSUME AddressInv, NEW s \in Servers, ioTask[s].buf # <<>>
    PROVE  LET c == ioTask[s].conn
               x == Head(ioTask[s].buf)
           IN /\ c \in DOMAIN conn /\ conn[c].srv = s
              /\ x \in SrvMsg /\ x \in ToServer(c)
              /\ x.from = conn[c].mod /\ x.from \in Modules
              /\ Range(ioTask[s].buf) \subseteq ToServer(c)
  <1>1. ioTask[s] \in Task(SrvMsg)
    BY Facts DEF AddressInv
  <1>2. Head(ioTask[s].buf) \in SrvMsg
    BY <1>1, HeadType
  <1>3. ioTask[s].buf \in Seq(SrvMsg)
    BY <1>1 DEF Task
  <1>4. Head(ioTask[s].buf) \in Range(ioTask[s].buf)
    BY <1>3, Ranges
  <1>5. ioTask[s].conn \in DOMAIN conn /\ conn[ioTask[s].conn].srv = s
    BY DEF AddressInv, InHand
  <1>6. Range(ioTask[s].buf) \subseteq ToServer(ioTask[s].conn)
    BY <1>5 DEF ToServer
  <1>7. Head(ioTask[s].buf).from \in Modules
    BY <1>2 DEF SrvMsg
  <1> QED
    BY <1>2, <1>4, <1>5, <1>6, <1>7 DEF AddressInv, Addressed

(* What is mapped to a channel, and the ids a module holds. *)
LEMMA HeldFacts ==
    ASSUME AddressInv, NEW m \in Modules
    PROVE  /\ \A k \in DOMAIN mMap[m] :
                /\ mMap[m][k] \in DOMAIN conn /\ conn[mMap[m][k]].mod = m
                /\ ServerID[conn[mMap[m][k]].srv] = k
           /\ mActive[m] \in {NoConn} \cup DOMAIN conn
           /\ mActive[m] # NoConn => conn[mActive[m]].mod = m
           /\ \A k \in DOMAIN serverMap[m] : serverMap[m][k] \in {Unassigned} \cup Ids
  BY Facts DEF AddressInv, ModuleTypes, Channels

(* A module writes one message, to the channel c. *)
LEMMA ModuleWrites ==
    ASSUME NEW cs \in Seq(Conn), Grows(conn, cs, {}, {}),
           NEW m \in Modules, NEW c \in {NoConn} \cup DOMAIN cs, NEW x \in SrvMsg,
           conn' = ModWrite(cs, c, x),
           c # NoConn => cs[c].mod = m /\ FromProgram(m, ServerID[cs[c].srv], x)
    PROVE  Wires
  <1>1. Grows(cs, conn', {}, IF c = NoConn THEN {} ELSE {<<c, x>>})
    BY ModWriteGrows
  <1>2. Grows(conn, conn', {}, IF c = NoConn THEN {} ELSE {<<c, x>>})
    BY <1>1 DEF Grows
  <1>3. c # NoConn => conn'[c].mod = m /\ conn'[c].srv = cs[c].srv
    BY <1>1 DEF Grows
  <1>4. \A d, y : <<d, y>> \in (IF c = NoConn THEN {} ELSE {<<c, x>>}) =>
           FromProgram(conn'[d].mod, ServerID[conn'[d].srv], y)
    <2>1. CASE c = NoConn
      BY <2>1
    <2>2. CASE c # NoConn
      <3>1. FromProgram(conn'[c].mod, ServerID[conn'[c].srv], x)
        BY <1>3, <2>2
      <3> QED
        BY <2>2, <3>1
    <2> QED
      BY <2>1, <2>2
  <1> QED
    BY <1>2, <1>4, WiresFrom

LEMMA ModUdpDiscoveryWires ==
    ASSUME AddressInv, NEW m \in Modules, NEW s \in Servers, ModUdpDiscovery(m, s)
    PROVE  Wires
  <1> DEFINE c  == Len(conn) + 1
             cs == Append(conn, OpenConn(s, m, "mod", "net"))
  <1>1. conn \in Seq(Conn)
    BY Facts DEF AddressInv
  <1>2. /\ Grows(conn, cs, {}, {}) /\ cs \in Seq(Conn) /\ c \in DOMAIN cs
        /\ cs[c].mod = m
    <2>1. /\ Grows(conn, cs, {}, {}) /\ cs \in Seq(Conn) /\ c \in DOMAIN cs
          /\ cs[c] = OpenConn(s, m, "mod", "net")
      BY <1>1, AppendGrows
    <2> HIDE DEF cs
    <2> QED
      BY <2>1 DEF OpenConn
  <1>3. \/ UNCHANGED conn \/ conn' = CloseMod(cs, {c}) \/ conn' = ModWrite(cs, c, Declare(m))
    BY DEF ModUdpDiscovery
  <1> HIDE DEF cs, c
  <1>4. Declare(m) \in SrvMsg /\ FromProgram(m, ServerID[cs[c].srv], Declare(m))
    BY ModuleMessages DEF FromProgram, Declare
  <1>5. CASE conn' = CloseMod(cs, {c})
    BY <1>2, <1>5, ClosedGrows, GrowsTwice, QuietWires
  <1>6. CASE conn' = ModWrite(cs, c, Declare(m))
    BY <1>2, <1>4, <1>6, ModuleWrites
  <1> QED
    BY <1>3, <1>5, <1>6, GrowsNot, QuietWires

LEMMA HandleDiscoveryWires ==
    ASSUME AddressInv, NEW m \in Modules, HandleDiscovery(m)
    PROVE  Wires
  <1>1. UNCHANGED conn \/ conn' = ModWrite(conn, mActive[m], Declare(m))
    BY DEF HandleDiscovery
  <1>2. \A k : Declare(m) \in SrvMsg /\ FromProgram(m, k, Declare(m))
    BY ModuleMessages DEF FromProgram, Declare
  <1>3. conn \in Seq(Conn) /\ Grows(conn, conn, {}, {})
    BY Facts, GrowsNot DEF AddressInv
  <1> QED
    BY <1>1, <1>2, <1>3, HeldFacts, ModuleWrites, QuietWires

LEMMA HandleCallWires ==
    ASSUME AddressInv, NEW m \in Modules, HandleCall(m)
    PROVE  Wires
  <1> DEFINE msg == Head(modTask[m].buf)
             k == msg.sid
             c == ModChannel(m, k)
             x == FromModule("ATTR_METD_RESP", m, msg.id)
  <1>1. \/ UNCHANGED conn
        \/ Holds(m, k, msg.id) /\ conn' = ModWrite(conn, c, x)
    BY DEF HandleCall, Holds
  <1>2. msg \in ModMsg /\ msg.type = "CALL_ATTR_METD"
    BY ModInHand DEF HandleCall, ModMsgIs
  <1>3. msg.id \in Ids /\ Byte(msg.id) = msg.id
    BY <1>2, ByteType DEF ModMsg
  <1>4. x \in SrvMsg
    BY <1>3, ByteType, ModuleMessages DEF Reports
  <1>5. c \in {NoConn} \cup DOMAIN conn /\ (c # NoConn => conn[c].mod = m
            /\ ServerID[conn[c].srv] = k)
    BY HeldFacts DEF ModChannel
  <1>6. Holds(m, k, msg.id) => FromProgram(m, k, x)
    <2>1. x.from = m /\ x.id = msg.id
      BY <1>3 DEF FromModule
    <2> HIDE DEF x, msg
    <2> QED
      BY <2>1 DEF FromProgram
  <1>7. conn \in Seq(Conn) /\ Grows(conn, conn, {}, {})
    BY Facts, GrowsNot DEF AddressInv
  <1> HIDE DEF x, c, msg
  <1> QED
    BY <1>1, <1>4, <1>5, <1>6, <1>7, ModuleWrites, QuietWires

LEMMA HandleAssignIdWires ==
    ASSUME AddressInv, NEW m \in Modules, HandleAssignId(m)
    PROVE  Wires
  <1> DEFINE msg == Head(modTask[m].buf)
             k == msg.sid
             a == mActive[m]
             map == IF a = NoConn THEN mMap[m] ELSE Put(mMap[m], k, a)
             dst == IF k \in DOMAIN map THEN map[k] ELSE NoConn
             x == FromModule("ATTR_METD_EXPOSE", m, msg.id)
             y == FromModule("ATTR_METD_DESC", m, msg.id)
             cs == ModWrite(conn, a, x)
  <1>1. \/ UNCHANGED conn
        \/ /\ serverMap' = [serverMap EXCEPT ![m] = Put(serverMap[m], k, msg.id)]
           /\ conn' = ModWrite(cs, dst, y)
    BY DEF HandleAssignId
  <1>2. /\ msg \in ModMsg /\ msg.type = "MODULE_ASSIGN_ID"
        /\ a # NoConn => a \in DOMAIN conn /\ conn[a].mod = m /\ k = ServerID[conn[a].srv]
    BY ModInHand DEF HandleAssignId, ModMsgIs
  <1>3. msg.id \in Ids /\ Byte(msg.id) = msg.id /\ msg.id \in Int
    BY <1>2, ByteType DEF ModMsg
  <1>4. x \in SrvMsg /\ y \in SrvMsg /\ conn \in Seq(Conn)
    BY <1>3, ModuleMessages, Facts DEF Reports, AddressInv
  <1>5. dst \in {NoConn} \cup DOMAIN conn
        /\ (dst # NoConn => conn[dst].mod = m /\ ServerID[conn[dst].srv] = k)
    <2>1. CASE a = NoConn
      BY <2>1, HeldFacts
    <2>2. CASE a # NoConn
      <3>1. k \in DOMAIN Put(mMap[m], k, a) /\ Put(mMap[m], k, a)[k] = a
        BY DEF Put
      <3>2. dst = a
        BY <2>2, <3>1
      <3> QED
        BY <1>2, <2>2, <3>2
    <2> QED
      BY <2>1, <2>2
  <1>6. serverMap' = [serverMap EXCEPT ![m] = Put(serverMap[m], k, msg.id)] =>
           FromProgram(m, k, x) /\ FromProgram(m, k, y)
    <2> SUFFICES ASSUME serverMap' = [serverMap EXCEPT ![m] = Put(serverMap[m], k, msg.id)]
                 PROVE  FromProgram(m, k, x) /\ FromProgram(m, k, y)
      OBVIOUS
    <2>1. serverMap'[m] = Put(serverMap[m], k, msg.id)
      BY Facts DEF AddressInv, ModuleTypes, On
    <2>2. WillHold(m, k, msg.id)
      BY <2>1 DEF Put, WillHold
    <2> QED
      BY <1>3, <2>2 DEF FromProgram, FromModule
  <1> HIDE DEF x, y, dst, msg, map, a
  <1>7. Grows(conn, cs, {}, IF a = NoConn THEN {} ELSE {<<a, x>>})
        /\ cs \in Seq(Conn) /\ DOMAIN cs = DOMAIN conn
    BY <1>2, <1>4, ModWriteGrows, ModWriteType
  <1> HIDE DEF cs
  <1>8. Grows(cs, ModWrite(cs, dst, y), {}, IF dst = NoConn THEN {} ELSE {<<dst, y>>})
    BY <1>4, <1>5, <1>7, ModWriteGrows
  <1>9. CASE UNCHANGED conn
    BY <1>9, GrowsNot, QuietWires
  <1>10. CASE /\ serverMap' = [serverMap EXCEPT ![m] = Put(serverMap[m], k, msg.id)]
              /\ conn' = ModWrite(cs, dst, y)
    <2> DEFINE B == (IF a = NoConn THEN {} ELSE {<<a, x>>})
                    \cup (IF dst = NoConn THEN {} ELSE {<<dst, y>>})
    <2>1. Grows(conn, conn', {}, B)
      BY <1>7, <1>8, <1>10, GrowsTwice
    <2>2. /\ a # NoConn => conn'[a].mod = m /\ ServerID[conn'[a].srv] = k
          /\ dst # NoConn => conn'[dst].mod = m /\ ServerID[conn'[dst].srv] = k
      BY <1>2, <1>5, <2>1 DEF Grows
    <2>3. \A d, z : <<d, z>> \in B => FromProgram(conn'[d].mod, ServerID[conn'[d].srv], z)
      BY <1>6, <1>10, <2>2
    <2> HIDE DEF B
    <2> QED
      BY <2>1, <2>3, WiresFrom
  <1> QED
    BY <1>1, <1>9, <1>10

LEMMA ModAcceptWires ==
    ASSUME AddressInv, NEW m \in Modules, NEW c \in DOMAIN conn, ModAccept(m, c)
    PROVE  Wires
  <1> DEFINE k == [conn[c] EXCEPT !.mEnd = "open"]
  <1>1. conn \in Seq(Conn) /\ conn[c] \in Conn
    BY Facts DEF AddressInv
  <1>2. /\ k \in Conn /\ k.srv = conn[c].srv /\ k.mod = conn[c].mod
        /\ k.by = conn[c].by /\ k.via = conn[c].via
        /\ k.toSrv = conn[c].toSrv /\ k.toMod = conn[c].toMod
    <2>1. "open" \in EndState
      BY DEF EndState
    <2>2. k \in Conn
      BY <1>1, <2>1, ConnFields
    <2> QED
      BY <1>1, <2>2 DEF Conn
  <1>3. conn' = [conn EXCEPT ![c] = k]
    BY DEF ModAccept
  <1> HIDE DEF k
  <1> QED
    BY <1>1, <1>2, <1>3, GrowsOne, QuietWires

LEMMA ModReadWires ==
    ASSUME AddressInv, NEW m \in Modules, NEW c \in DOMAIN conn,
           NEW n \in 1..Len(conn[c].toMod), ModRead(m, c, n)
    PROVE  Wires
  <1> DEFINE rest == SubSeq(conn[c].toMod, n + 1, Len(conn[c].toMod))
             k == [conn[c] EXCEPT !.toMod = rest]
  <1>1. conn \in Seq(Conn) /\ conn[c] \in Conn /\ conn[c].toMod \in Seq(ModMsg)
    BY Facts, ConnFields DEF AddressInv
  <1>2. rest \in Seq(ModMsg) /\ Range(rest) \subseteq Range(conn[c].toMod)
    BY <1>1, PartOfList, PartRange
  <1>3. conn' = [conn EXCEPT ![c] = k]
    BY DEF ModRead
  <1> HIDE DEF rest
  <1>4. /\ k \in Conn /\ k.srv = conn[c].srv /\ k.mod = conn[c].mod
        /\ k.by = conn[c].by /\ k.via = conn[c].via
        /\ k.toMod = rest /\ k.toSrv = conn[c].toSrv
    BY <1>1, <1>2, ConnFields DEF Conn
  <1> HIDE DEF k
  <1> QED
    BY <1>1, <1>2, <1>3, <1>4, GrowsOne, QuietWires

(* One message to every server: on each channel, about the id of its server. *)
ToAll(m, type) ==
    {z \in (DOMAIN conn) \X SrvMsg :
        /\ conn[z[1]].mod = m /\ z[2].from = m /\ z[2].type = type
        /\ z[2].id = Byte(Unassigned) \/ Holds(m, ServerID[conn[z[1]].srv], z[2].id)}

LEMMA WrittenToAll ==
    ASSUME AddressInv, NEW m \in Modules, NEW type \in Reports
    PROVE  LET cs == ModWriteAll(conn, m, type)
           IN /\ cs \in Seq(Conn) /\ DOMAIN cs = DOMAIN conn
              /\ Grows(conn, cs, {}, ToAll(m, type))
  <1> DEFINE cs == ModWriteAll(conn, m, type)
             Good(c, x) == /\ conn[c].mod = m /\ x.from = m /\ x.type = type
                           /\ x.id = Byte(Unassigned)
                                \/ Holds(m, ServerID[conn[c].srv], x.id)
             B == ToAll(m, type)
             sids(c) == KeysOf(mMap[m], c) \cap DOMAIN serverMap[m]
             id(c)   == serverMap[m][CHOOSE k \in sids(c) : TRUE]
  <1>1. conn \in Seq(Conn) /\ ModuleTypes
    BY Facts DEF AddressInv
  <1>2. cs \in Seq(Conn) /\ DOMAIN cs = DOMAIN conn
    BY <1>1, ModWriteAllType
  <1>3. ASSUME NEW c \in DOMAIN conn
        PROVE  /\ cs[c].srv = conn[c].srv /\ cs[c].mod = conn[c].mod
               /\ cs[c].by = conn[c].by /\ cs[c].via = conn[c].via
               /\ cs[c].toMod = conn[c].toMod
               /\ \A x \in Range(cs[c].toSrv) : x \in Range(conn[c].toSrv) \/ <<c, x>> \in B
    <2>1. conn[c] \in Conn /\ conn[c].toSrv \in Seq(SrvMsg)
      BY <1>1, ConnFields
    <2>2. CASE sids(c) # {} /\ ModCanWrite(conn, c)
      <3> DEFINE x == FromModule(type, m, id(c))
      <3>1. PICK k \in sids(c) : id(c) = serverMap[m][k]
        BY <2>2
      <3>2. k \in DOMAIN serverMap[m] /\ k \in DOMAIN mMap[m] /\ mMap[m][k] = c
        BY <3>1 DEF KeysOf
      <3>3. id(c) \in {Unassigned} \cup Ids /\ conn[c].mod = m /\ ServerID[conn[c].srv] = k
        BY <3>1, <3>2, HeldFacts
      <3>4. id(c) \in Int /\ x \in SrvMsg
        <4> HIDE DEF id
        <4>1. id(c) \in Int
          BY <3>3, ByteType DEF Unassigned
        <4> QED
          BY <4>1, ModuleMessages
      <3>5. Good(c, x)
        <4> HIDE DEF id
        <4>1. x.id = Byte(id(c)) /\ x.from = m /\ x.type = type
          BY DEF FromModule
        <4>2. CASE id(c) = Unassigned
          BY <3>3, <4>1, <4>2
        <4>3. CASE id(c) \in Ids
          <5>1. x.id = id(c)
            BY <4>1, <4>3, ByteType
          <5>2. Holds(m, k, x.id)
            BY <3>1, <3>2, <5>1 DEF Holds
          <5> QED
            BY <3>3, <4>1, <5>2
        <4> QED
          BY <3>3, <4>2, <4>3
      <3>6. cs[c] = [conn[c] EXCEPT !.toSrv = Append(conn[c].toSrv, x)]
        BY <2>2 DEF ModWriteAll
      <3> HIDE DEF x, cs
      <3>7. cs[c].toSrv = Append(conn[c].toSrv, x)
        BY <2>1, <3>6 DEF Conn
      <3>8. Range(cs[c].toSrv) = Range(conn[c].toSrv) \cup {x}
        BY <2>1, <3>4, <3>7, Ranges
      <3>9. <<c, x>> \in B
        BY <3>4, <3>5 DEF ToAll
      <3> HIDE DEF B
      <3> QED
        BY <2>1, <3>6, <3>8, <3>9 DEF Conn
    <2>3. CASE ~(sids(c) # {} /\ ModCanWrite(conn, c))
      <3>1. cs[c] = conn[c]
        BY <2>3 DEF ModWriteAll
      <3> QED
        BY <3>1
    <2> QED
      BY <2>2, <2>3
  <1>4. Grows(conn, cs, {}, B)
    <2> HIDE DEF cs, B
    <2> QED
      BY <1>2, <1>3 DEF Grows
  <1> QED
    BY <1>2, <1>4

LEMMA WrittenToAllWires ==
    ASSUME AddressInv, NEW m \in Modules, NEW type \in Reports,
           \/ conn' = ModWriteAll(conn, m, type)
           \/ \E C : conn' = CloseMod(ModWriteAll(conn, m, type), C)
    PROVE  Wires
  <1> DEFINE cs == ModWriteAll(conn, m, type)
             B  == ToAll(m, type)
  <1>1. cs \in Seq(Conn) /\ Grows(conn, cs, {}, B)
    BY WrittenToAll
  <1>2. \A c, x : <<c, x>> \in B =>
           /\ c \in DOMAIN conn /\ conn[c].mod = m
           /\ FromProgram(m, ServerID[conn[c].srv], x)
    BY DEF FromProgram, ToAll
  <1> HIDE DEF cs, B
  <1>3. Grows(conn, conn', {}, B)
    <2>1. Grows(cs, conn', {}, {})
      BY <1>1, ClosedGrows, GrowsNot DEF cs
    <2>2. Grows(conn, conn', {} \cup {}, B \cup {})
      BY <1>1, <2>1, GrowsTwice
    <2> QED
      BY <2>2
  <1>4. \A c \in DOMAIN conn' : \A x : <<c, x>> \in B =>
           FromProgram(conn'[c].mod, ServerID[conn'[c].srv], x)
    <2> SUFFICES ASSUME NEW c \in DOMAIN conn', NEW x, <<c, x>> \in B
                 PROVE  FromProgram(conn'[c].mod, ServerID[conn'[c].srv], x)
      OBVIOUS
    <2>1. c \in DOMAIN conn /\ conn[c].mod = m /\ FromProgram(m, ServerID[conn[c].srv], x)
      BY <1>2
    <2>2. conn'[c].mod = m /\ conn'[c].srv = conn[c].srv
      BY <1>3, <2>1 DEF Grows
    <2> QED
      BY <2>1, <2>2
  <1> QED
    BY <1>3, <1>4, WiresFrom

(* PYCONNECT_MODULE_INIT: connections to servers on this host, on each of    *)
(* which the module declares itself.                                         *)
Started(m) ==
    /\ DOMAIN conn \subseteq DOMAIN conn' /\ \A c \in DOMAIN conn : conn'[c] = conn[c]
    /\ \A c \in DOMAIN conn' \ DOMAIN conn :
          /\ conn'[c].toMod = <<>> /\ conn'[c].toSrv = <<Declare(m)>>
          /\ conn'[c].by = "mod" /\ conn'[c].via = "ipc" /\ conn'[c].mod = m
          /\ conn'[c].mEnd = "open" /\ conn'[c].sEnd = "backlog"
          /\ sUp[conn'[c].srv] /\ "ipc" \in Transports
    /\ \E a : /\ mActive' = [mActive EXCEPT ![m] = a]
              /\ a = NoConn \/ a \in DOMAIN conn' \ DOMAIN conn

LEMMA ModStartShape ==
    ASSUME TypeInv, NEW m \in Modules, ModStart(m)
    PROVE  Started(m)
  <1> DEFINE todo == {s \in Servers : "ipc" \in Transports /\ sUp[s]}
             new  == SetToSeq(todo)
             more == [k \in DOMAIN new |->
                       [OpenConn(new[k], m, "mod", "ipc") EXCEPT !.toSrv = <<Declare(m)>>]]
  <1>1. new \in Seq(todo)
    <2>1. IsFiniteSet(Servers) /\ todo \in SUBSET Servers
      BY ConstantsAssumption
    <2>2. IsFiniteSet(todo)
      BY <2>1, FS_Subset
    <2> HIDE DEF todo
    <2> QED
      BY <2>2, SetToSeqType
  <1>2. /\ Len(new) \in Nat /\ DOMAIN new = 1..Len(new)
        /\ \A k \in DOMAIN new : new[k] \in todo
    <2> HIDE DEF new, todo
    <2> QED
      BY <1>1
  <1>3. \A k \in DOMAIN new :
           /\ more[k] \in Conn
           /\ more[k].toMod = <<>> /\ more[k].toSrv = <<Declare(m)>>
           /\ more[k].by = "mod" /\ more[k].via = "ipc" /\ more[k].mod = m
           /\ more[k].mEnd = "open" /\ more[k].sEnd = "backlog"
           /\ sUp[more[k].srv] /\ "ipc" \in Transports
    <2> SUFFICES ASSUME NEW k \in DOMAIN new
                 PROVE  /\ more[k] \in Conn
                        /\ more[k].toMod = <<>> /\ more[k].toSrv = <<Declare(m)>>
                        /\ more[k].by = "mod" /\ more[k].via = "ipc" /\ more[k].mod = m
                        /\ more[k].mEnd = "open" /\ more[k].sEnd = "backlog"
                        /\ sUp[more[k].srv] /\ "ipc" \in Transports
      OBVIOUS
    <2> DEFINE o == OpenConn(new[k], m, "mod", "ipc")
    <2>1. new[k] \in Servers /\ sUp[new[k]] /\ "ipc" \in Transports
      <3>1. new[k] \in todo
        BY <1>2
      <3> HIDE DEF new
      <3> QED
        BY <3>1
    <2>2. o \in Conn
      <3> HIDE DEF new
      <3> QED
        BY <2>1, OpenConnType
    <2>3. more[k] = [o EXCEPT !.toSrv = <<Declare(m)>>]
      <3> HIDE DEF new
      <3> QED
        OBVIOUS
    <2>4. /\ o.toMod = <<>> /\ o.by = "mod" /\ o.via = "ipc" /\ o.mod = m
          /\ o.mEnd = "open" /\ o.sEnd = "backlog" /\ o.srv = new[k]
      <3> HIDE DEF new
      <3> QED
        BY DEF OpenConn
    <2>5. <<Declare(m)>> \in Seq(SrvMsg)
      BY ModuleMessages, Lists
    <2> HIDE DEF o, more, new
    <2>6. more[k] \in Conn
      BY <2>2, <2>3, <2>5, ConnFields
    <2> QED
      BY <2>1, <2>2, <2>3, <2>4, <2>6 DEF Conn
  <1>4. conn' = conn \o more
    BY DEF ModStart
  <1>5. \/ mActive' = [mActive EXCEPT ![m] = NoConn]
        \/ \E k \in DOMAIN new : mActive' = [mActive EXCEPT ![m] = Len(conn) + k]
    BY DEF ModStart
  <1>6. DOMAIN more = DOMAIN new
    OBVIOUS
  <1>7. more = [k \in DOMAIN new |-> more[k]]
    OBVIOUS
  <1> HIDE DEF new, more
  <1>8. more \in [1..Len(new) -> Conn]
    BY <1>2, <1>3, <1>7
  <1>9. /\ Len(conn) \in Nat /\ DOMAIN conn = 1..Len(conn)
        /\ DOMAIN conn' = 1..Len(conn) + Len(new)
        /\ \A c \in DOMAIN conn : conn'[c] = conn[c]
        /\ \A k \in DOMAIN new : conn'[Len(conn) + k] = more[k]
    <2>1. more \in Seq(Conn) /\ Len(more) = Len(new) /\ conn \in Seq(Conn)
      BY <1>2, <1>8, Facts
    <2>2. Len(conn) \in Nat /\ DOMAIN conn = 1..Len(conn)
      BY <2>1
    <2>3. DOMAIN conn' = 1..Len(conn) + Len(new)
      BY <1>2, <1>4, <2>1, <2>2
    <2>4. \A c \in DOMAIN conn : conn'[c] = conn[c]
      BY <1>2, <1>4, <2>1, <2>2
    <2>5. \A k \in DOMAIN new : conn'[Len(conn) + k] = more[k]
      BY <1>2, <1>4, <2>1, <2>2
    <2> QED
      BY <2>2, <2>3, <2>4, <2>5
  <1>10. ASSUME NEW c \in DOMAIN conn' \ DOMAIN conn
         PROVE  /\ conn'[c].toMod = <<>> /\ conn'[c].toSrv = <<Declare(m)>>
                /\ conn'[c].by = "mod" /\ conn'[c].via = "ipc" /\ conn'[c].mod = m
                /\ conn'[c].mEnd = "open" /\ conn'[c].sEnd = "backlog"
                /\ sUp[conn'[c].srv] /\ "ipc" \in Transports
    <2>1. PICK k \in DOMAIN new : c = Len(conn) + k
      <3>1. c - Len(conn) \in DOMAIN new /\ c = Len(conn) + (c - Len(conn))
        BY <1>2, <1>9
      <3> QED
        BY <3>1
    <2>2. conn'[c] = more[k]
      BY <1>9, <2>1
    <2> QED
      BY <1>3, <2>2
  <1>11. \E a : /\ mActive' = [mActive EXCEPT ![m] = a]
                /\ a = NoConn \/ a \in DOMAIN conn' \ DOMAIN conn
    <2>1. \A k \in DOMAIN new : Len(conn) + k \in DOMAIN conn' \ DOMAIN conn
      BY <1>2, <1>9
    <2> QED
      BY <1>5, <2>1
  <1>12. DOMAIN conn \subseteq DOMAIN conn'
    BY <1>2, <1>9
  <1> QED
    BY <1>9, <1>10, <1>11, <1>12, Zenon DEF Started

LEMMA ModuleWires ==
    ASSUME AddressInv, TypeInv', NEW m \in Modules, ModuleStep(m)
    PROVE  Wires
  <1>1. CASE ModLoop(m)
    <2>1. ASSUME NEW c \in DOMAIN conn, ModEof(m, c)
          PROVE  Wires
      BY <2>1, ClosedGrows, QuietWires, Facts DEF ModEof, AddressInv
    <2>2. HandleServerShutdown(m) => Wires
      BY GrowsNot, QuietWires DEF HandleServerShutdown
    <2> QED
      BY <1>1, <2>1, <2>2, ModAcceptWires, ModReadWires, ModUdpDiscoveryWires,
         HandleDiscoveryWires, HandleAssignIdWires, HandleCallWires DEF ModLoop
  <1>2. CASE UpdateAttribute(m)
    BY <1>2, WrittenToAllWires DEF UpdateAttribute, Reports
  <1>3. CASE ModCrash(m)
    BY <1>3, ClosedGrows, QuietWires, Facts DEF ModCrash, AddressInv
  <1>4. CASE ModShutdown(m)
    BY <1>4, WrittenToAllWires DEF ModShutdown, Reports
  <1>5. CASE ModStart(m)
    <2>1. Started(m)
      BY <1>5, ModStartShape DEF AddressInv
    <2>2. \A k : FromProgram(m, k, Declare(m))
      BY DEF FromProgram, Declare
    <2>3. Range(<<>>) = {} /\ Range(<<Declare(m)>>) = {Declare(m)}
      BY Ranges
    <2> QED
      BY <2>1, <2>2, <2>3 DEF Started, Wires
  <1> QED
    BY <1>1, <1>2, <1>3, <1>4, <1>5 DEF ModuleStep, ModProgram

LEMMA StepWires ==
    ASSUME AddressInv, TypeInv', [Next]_vars
    PROVE  Wires
  BY EachStep, ServerWires, ModuleWires, GrowsNot, QuietWires DEF vars

(* What is under way after a step was under way before it, or is new. *)
LEMMA MailStep ==
    ASSUME AddressInv, TypeInv', [Next]_vars
    PROVE  /\ DOMAIN conn \subseteq DOMAIN conn'
           /\ \A c \in DOMAIN conn :
                 /\ conn'[c].srv = conn[c].srv /\ conn'[c].mod = conn[c].mod
                 /\ conn'[c].by = conn[c].by /\ conn'[c].via = conn[c].via
           /\ \A c \in DOMAIN conn' : \A x \in ToModule(c)' :
                 (c \in DOMAIN conn /\ x \in ToModule(c)) \/ FromServer(conn'[c].srv, x)
           /\ \A c \in DOMAIN conn' : \A x \in ToServer(c)' :
                 \/ c \in DOMAIN conn /\ x \in ToServer(c)
                 \/ FromProgram(conn'[c].mod, ServerID[conn'[c].srv], x)
  <1>1. Wires
    BY StepWires
  <1>2. conn' \in Seq(Conn)
    BY Facts DEF TypeInv, TypeOK, NetworkTypes
  <1>3. \A c \in DOMAIN conn' : conn'[c].srv \in Servers /\ conn'[c].mod \in Modules
    BY <1>2, ConnFields
  <1>4. Range(<<>>) = {}
    BY Ranges
  <1>5. ASSUME NEW c \in DOMAIN conn', NEW x \in ToModule(c)'
        PROVE  (c \in DOMAIN conn /\ x \in ToModule(c)) \/ FromServer(conn'[c].srv, x)
    <2> DEFINE m == conn'[c].mod
    <2>1. CASE x \in Range(conn'[c].toMod)
      BY <1>1, <2>1 DEF Wires, ToModule
    <2>2. CASE x \in Range(modTask'[m].buf) /\ modTask'[m].conn = c
      <3>1. ModHand(m)
        BY <1>3, ModHands DEF AddressInv
      <3>2. modTask'[m].buf # <<>>
        BY <1>4, <2>2
      <3>3. CASE /\ modTask[m].buf # <<>> /\ modTask'[m].conn = modTask[m].conn
                 /\ Range(modTask'[m].buf) \subseteq Range(modTask[m].buf)
        <4>1. m \in Modules
          BY <1>3
        <4> HIDE DEF m
        <4>2. c \in DOMAIN conn /\ conn[c].mod = m
          BY <2>2, <3>3, <4>1 DEF AddressInv, InHand
        <4> QED
          BY <2>2, <3>3, <4>2 DEF ToModule
      <3>4. CASE \E d \in DOMAIN conn :
                    /\ conn[d].mod = m /\ modTask'[m].conn = d
                    /\ Range(modTask'[m].buf) \subseteq Range(conn[d].toMod)
        BY <2>2, <3>4 DEF ToModule
      <3> QED
        BY <3>1, <3>2, <3>3, <3>4 DEF ModHand
    <2> QED
      BY <2>1, <2>2 DEF ToModule
  <1>6. ASSUME NEW c \in DOMAIN conn', NEW x \in ToServer(c)'
        PROVE  \/ c \in DOMAIN conn /\ x \in ToServer(c)
               \/ FromProgram(conn'[c].mod, ServerID[conn'[c].srv], x)
    <2> DEFINE s == conn'[c].srv
    <2>1. CASE x \in Range(conn'[c].toSrv)
      BY <1>1, <2>1 DEF Wires, ToServer
    <2>2. CASE x \in Range(ioTask'[s].buf) /\ ioTask'[s].conn = c
      <3>1. SrvHand(s)
        BY <1>3, SrvHands DEF AddressInv
      <3>2. ioTask'[s].buf # <<>>
        BY <1>4, <2>2
      <3>3. CASE /\ ioTask[s].buf # <<>> /\ ioTask'[s].conn = ioTask[s].conn
                 /\ Range(ioTask'[s].buf) \subseteq Range(ioTask[s].buf)
        <4>1. s \in Servers
          BY <1>3
        <4> HIDE DEF s
        <4>2. c \in DOMAIN conn /\ conn[c].srv = s
          BY <2>2, <3>3, <4>1 DEF AddressInv, InHand
        <4> QED
          BY <2>2, <3>3, <4>2 DEF ToServer
      <3>4. CASE \E d \in DOMAIN conn :
                    /\ conn[d].srv = s /\ ioTask'[s].conn = d
                    /\ Range(ioTask'[s].buf) \subseteq Range(conn[d].toSrv)
        BY <2>2, <3>4 DEF ToServer
      <3>5. CASE \E d \in DOMAIN conn' \ DOMAIN conn :
                    /\ ioTask'[s].conn = d
                    /\ Range(ioTask'[s].buf) = {Declare(conn'[d].mod)}
        <4>1. x = Declare(conn'[c].mod)
          BY <2>2, <3>5
        <4> QED
          BY <4>1 DEF FromProgram, Declare
      <3> QED
        BY <3>1, <3>2, <3>3, <3>4, <3>5 DEF SrvHand
    <2> QED
      BY <2>1, <2>2 DEF ToServer
  <1> QED
    BY <1>1, <1>5, <1>6 DEF Wires

-----------------------------------------------------------------------------
(* Which ends of connections a step opens and closes *)

SameEnds(cs, ds) ==
    /\ DOMAIN ds = DOMAIN cs
    /\ \A c \in DOMAIN cs : ds[c].sEnd = cs[c].sEnd /\ ds[c].mEnd = cs[c].mEnd

LEMMA WritesKeepEnds ==
    ASSUME NEW cs \in Seq(Conn)
    PROVE  /\ \A c, x : SameEnds(cs, SrvWrite(cs, c, x))
           /\ \A c, x : SameEnds(cs, ModWrite(cs, c, x))
           /\ \A m, type : SameEnds(cs, ModWriteAll(cs, m, type))
  <1>1. \A c \in DOMAIN cs : cs[c] \in Conn
    OBVIOUS
  <1>2. \A k \in Conn : \A q : /\ [k EXCEPT !.toMod = q].sEnd = k.sEnd
                               /\ [k EXCEPT !.toMod = q].mEnd = k.mEnd
                               /\ [k EXCEPT !.toSrv = q].sEnd = k.sEnd
                               /\ [k EXCEPT !.toSrv = q].mEnd = k.mEnd
    BY DEF Conn
  <1>3. \A c, x : SameEnds(cs, SrvWrite(cs, c, x))
    BY <1>1, <1>2 DEF SrvWrite, SameEnds
  <1>4. \A c, x : SameEnds(cs, ModWrite(cs, c, x))
    BY <1>1, <1>2 DEF ModWrite, SameEnds
  <1>5. \A m, type : SameEnds(cs, ModWriteAll(cs, m, type))
    BY <1>1, <1>2 DEF ModWriteAll, SameEnds
  <1> QED
    BY <1>3, <1>4, <1>5

LEMMA ClosesEnds ==
    ASSUME NEW cs \in Seq(Conn), NEW C
    PROVE  /\ DOMAIN CloseSrv(cs, C) = DOMAIN cs /\ DOMAIN CloseMod(cs, C) = DOMAIN cs
           /\ \A c \in DOMAIN cs :
                 /\ CloseSrv(cs, C)[c].mEnd = cs[c].mEnd
                 /\ CloseMod(cs, C)[c].sEnd = cs[c].sEnd
                 /\ CloseSrv(cs, C)[c].sEnd = IF c \in C THEN "closed" ELSE cs[c].sEnd
                 /\ CloseMod(cs, C)[c].mEnd = IF c \in C THEN "closed" ELSE cs[c].mEnd
  <1>1. \A c \in DOMAIN cs : cs[c] \in Conn
    OBVIOUS
  <1> QED
    BY <1>1 DEF CloseSrv, CloseMod, Conn

(* A server opens and closes ends of its own; new connections are between    *)
(* processes that run, over a transport there is.                            *)
NewConn(c) ==
    /\ sUp[conn'[c].srv] /\ sUp'[conn'[c].srv] /\ up'[conn'[c].mod]
    /\ conn'[c].via = "ipc" => "ipc" \in Transports
SrvEnds(s) ==
    /\ \A c \in DOMAIN conn : /\ conn'[c].mEnd = conn[c].mEnd
                              /\ conn[c].sEnd = "closed" => conn'[c].sEnd = "closed"
                              /\ conn'[c].sEnd = conn[c].sEnd \/ conn[c].srv = s
    /\ \A c \in DOMAIN conn' \ DOMAIN conn : NewConn(c)
ModEnds(m) ==
    /\ \A c \in DOMAIN conn : /\ conn'[c].sEnd = conn[c].sEnd
                              /\ conn[c].mEnd = "closed" => conn'[c].mEnd = "closed"
                              /\ conn'[c].mEnd = conn[c].mEnd \/ conn[c].mod = m
    /\ \A c \in DOMAIN conn' \ DOMAIN conn : NewConn(c)

LEMMA ServerEnds ==
    ASSUME AddressInv, NEW s \in Servers, ServerStep(s)
    PROVE  SrvEnds(s)
  <1>1. /\ conn \in Seq(Conn) /\ \A c \in DOMAIN conn : conn[c] \in Conn
        /\ \A x \in Servers : sActive[x] \in {NoConn} \cup DOMAIN conn
        /\ \A x \in Servers : sActive[x] # NoConn => conn[sActive[x]].srv = x
    BY Facts DEF AddressInv, Channels
  <1>2. SameEnds(conn, conn') => SrvEnds(s)
    BY DEF SameEnds, SrvEnds
  <1>3. ASSUME NEW C, \A c \in C \cap DOMAIN conn : conn[c].srv = s, conn' = CloseSrv(conn, C)
        PROVE  SrvEnds(s)
    BY <1>1, <1>3, ClosesEnds DEF SrvEnds
  <1>4. ASSUME NEW m \in Modules, UNCHANGED <<sUp, up>>, sUp[s], up[m],
               conn' = Append(conn, OpenConn(s, m, "srv", "net"))
        PROVE  SrvEnds(s)
    <2>1. /\ \A c \in DOMAIN conn : conn'[c] = conn[c]
          /\ \A c \in DOMAIN conn' \ DOMAIN conn : conn'[c] = OpenConn(s, m, "srv", "net")
      BY <1>1, <1>4, AppendGrows
    <2>2. \A c \in DOMAIN conn' \ DOMAIN conn : NewConn(c)
      BY <1>4, <2>1 DEF NewConn, OpenConn
    <2> QED
      BY <2>1, <2>2 DEF SrvEnds
  <1>5. UNCHANGED conn => SrvEnds(s)
    BY <1>2 DEF SameEnds
  <1>6. ASSUME NEW c \in DOMAIN conn, SrvAccept(s, c)
        PROVE  SrvEnds(s)
    BY <1>1, <1>6 DEF SrvAccept, SrvEnds, Conn
  <1>7. ASSUME NEW c \in DOMAIN conn, NEW n, SrvRead(s, c, n)
        PROVE  SrvEnds(s)
    BY <1>1, <1>7 DEF SrvRead, SrvEnds, Conn
  <1>8. ASSUME NEW c \in DOMAIN conn, SrvEof(s, c)
        PROVE  SrvEnds(s)
    BY <1>3, <1>8 DEF SrvEof
  <1>9. ASSUME NEW m \in Modules, SrvUdpDeclare(s, m)
        PROVE  SrvEnds(s)
    BY <1>4, <1>5, <1>9 DEF SrvUdpDeclare
  <1>10. HandleDeclareNew(s) \/ HandleModuleShutdown(s) \/ HandleExpose(s)
         \/ HandleDesc(s) \/ HandleValue(s) \/ ObjectWork(s) \/ EndDisconnect(s)
         => UNCHANGED conn
    BY ObjectWorkKeeps DEF HandleDeclareNew, HandleModuleShutdown, HandleExpose,
       HandleDesc, HandleValue, SrvApply
  <1>11. AssignModuleID(s) \/ SendDiscovery(s)
         \/ (\E r \in modules[s] : Disconnect(s, r) \/ CallRemote(s, r))
         => SrvEnds(s)
    <2>1. AssignModuleID(s) \/ SendDiscovery(s)
          \/ (\E r \in modules[s] : Disconnect(s, r) \/ CallRemote(s, r))
          => \E c, x : conn' = SrvWrite(conn, c, x)
      BY DEF AssignModuleID, SendDiscovery, Disconnect, CallRemote
    <2> QED
      BY <1>1, <1>2, <2>1, WritesKeepEnds
  <1>12. HandleDeclareDuplicate(s) => SrvEnds(s)
    <2> SUFFICES ASSUME HandleDeclareDuplicate(s) PROVE SrvEnds(s)
      OBVIOUS
    <2>1. UNCHANGED conn \/ conn' = CloseSrv(conn, {sActive[s]})
      BY DEF HandleDeclareDuplicate
    <2>2. \A c \in {sActive[s]} \cap DOMAIN conn : conn[c].srv = s
      BY <1>1 DEF AddressInv, NoConn
    <2> QED
      BY <1>3, <1>5, <2>1, <2>2
  <1>13. ASSUME NEW m \in Modules, Connect(s, m)
         PROVE  SrvEnds(s)
    BY <1>4, <1>13 DEF Connect
  <1>14. CASE Discover(s)
    <2>1. PICK all \in Seq(Conn), used \in SUBSET Nat : Discovered(s, all, used)
      BY <1>14, DiscoverShape DEF AddressInv
    <2>2. UNCHANGED <<sUp, up>> /\ sUp[s]
      BY <1>14 DEF Discover
    <2>3. \A c \in DOMAIN all : /\ conn'[c].sEnd = all[c].sEnd /\ conn'[c].mEnd = all[c].mEnd
                                /\ conn'[c].srv = all[c].srv /\ conn'[c].mod = all[c].mod
                                /\ conn'[c].via = all[c].via
      BY <2>1 DEF Discovered, Conn
    <2>4. \A c \in DOMAIN conn : conn'[c].sEnd = conn[c].sEnd /\ conn'[c].mEnd = conn[c].mEnd
      BY <2>1, <2>3 DEF Discovered
    <2>5. \A c \in DOMAIN conn' \ DOMAIN conn : NewConn(c)
      BY <2>1, <2>2, <2>3 DEF Discovered, NewConn
    <2> QED
      BY <2>4, <2>5 DEF SrvEnds
  <1>15. SrvStop(s) => SrvEnds(s)
    BY <1>3 DEF SrvStop
  <1>16. SrvStart(s) => UNCHANGED conn
    BY DEF SrvStart
  <1> QED
    BY <1>5, <1>6, <1>7, <1>8, <1>9, <1>10, <1>11, <1>12, <1>13, <1>14, <1>15, <1>16
    DEF ServerStep, SrvIO, SrvPython

(* The two messages about an assigned id. *)
LEMMA AssignEnds ==
    ASSUME AddressInv, NEW m \in Modules, HandleAssignId(m)
    PROVE  SameEnds(conn, conn') /\ \A d \in DOMAIN conn : conn'[d].mEnd = conn[d].mEnd
  <1> DEFINE x == FromModule("ATTR_METD_EXPOSE", m, Head(modTask[m].buf).id)
             cs == ModWrite(conn, mActive[m], x)
  <1>1. UNCHANGED conn \/ \E d, y : conn' = ModWrite(cs, d, y)
    BY DEF HandleAssignId
  <1>2. x \in SrvMsg
    <2>1. Head(modTask[m].buf) \in ModMsg /\ Head(modTask[m].buf).type = "MODULE_ASSIGN_ID"
      BY ModInHand DEF HandleAssignId, ModMsgIs
    <2>2. Head(modTask[m].buf).id \in Int
      BY <2>1, ByteType DEF ModMsg
    <2> QED
      BY <2>2, ModuleMessages DEF Reports
  <1> HIDE DEF x
  <1>3. cs \in Seq(Conn) /\ SameEnds(conn, cs)
    BY <1>2, ModWriteType, WritesKeepEnds, Facts DEF AddressInv
  <1> HIDE DEF cs
  <1>4. SameEnds(cs, conn') \/ UNCHANGED conn
    BY <1>1, <1>3, WritesKeepEnds
  <1> QED
    BY <1>3, <1>4 DEF SameEnds

LEMMA ModuleEnds ==
    ASSUME AddressInv, NEW m \in Modules, ModuleStep(m)
    PROVE  ModEnds(m)
  <1>1. conn \in Seq(Conn) /\ \A c \in DOMAIN conn : conn[c] \in Conn
    BY Facts DEF AddressInv
  <1>2. SameEnds(conn, conn') => ModEnds(m)
    BY DEF SameEnds, ModEnds
  <1>3. ASSUME NEW cs \in Seq(Conn), SameEnds(conn, cs), NEW C,
               \A c \in C \cap DOMAIN conn : conn[c].mod = m, conn' = CloseMod(cs, C)
        PROVE  ModEnds(m)
    BY <1>1, <1>3, ClosesEnds DEF ModEnds, SameEnds
  <1>4. UNCHANGED conn => ModEnds(m)
    BY <1>2 DEF SameEnds
  <1>5. ASSUME NEW c \in DOMAIN conn, ModAccept(m, c)
        PROVE  ModEnds(m)
    BY <1>1, <1>5 DEF ModAccept, ModEnds, Conn
  <1>6. ASSUME NEW c \in DOMAIN conn, NEW n, ModRead(m, c, n)
        PROVE  ModEnds(m)
    BY <1>1, <1>6 DEF ModRead, ModEnds, Conn
  <1>7. ASSUME NEW c \in DOMAIN conn, ModEof(m, c)
        PROVE  ModEnds(m)
    BY <1>1, <1>3, <1>7 DEF ModEof, SameEnds
  <1>8. ASSUME NEW s \in Servers, ModUdpDiscovery(m, s), ~UNCHANGED conn
        PROVE  ModEnds(m)
    <2> DEFINE c  == Len(conn) + 1
               cs == Append(conn, OpenConn(s, m, "mod", "net"))
    <2>1. /\ cs \in Seq(Conn) /\ c \in DOMAIN cs /\ DOMAIN cs = DOMAIN conn \cup {c}
          /\ cs[c] = OpenConn(s, m, "mod", "net") /\ c \notin DOMAIN conn
          /\ \A d \in DOMAIN conn : cs[d] = conn[d]
      BY <1>1, AppendGrows
    <2>2. conn' = CloseMod(cs, {c}) \/ conn' = ModWrite(cs, c, Declare(m))
      BY <1>8 DEF ModUdpDiscovery
    <2>3. sUp[s] /\ up[m] /\ UNCHANGED <<sUp, up>>
      BY <1>8 DEF ModUdpDiscovery
    <2> HIDE DEF cs, c
    <2>4. \A d \in DOMAIN cs : cs[d] \in Conn
      BY <2>1
    <2>5. DOMAIN conn' = DOMAIN cs
      BY <2>1, <2>2, ClosesEnds, WritesKeepEnds DEF SameEnds
    <2>6. \A d \in DOMAIN conn : conn'[d].sEnd = conn[d].sEnd /\ conn'[d].mEnd = conn[d].mEnd
      BY <2>1, <2>2, ClosesEnds, WritesKeepEnds DEF SameEnds
    <2>7. conn'[c].srv = s /\ conn'[c].mod = m /\ conn'[c].via = "net"
      <3>1. cs[c].srv = s /\ cs[c].mod = m /\ cs[c].via = "net" /\ cs[c] \in Conn
        BY <2>1, <2>4 DEF OpenConn
      <3>2. Declare(m) \in SrvMsg
        BY ModuleMessages
      <3>3. Grows(cs, CloseMod(cs, {c}), {}, {})
        BY <2>1, ClosedGrows
      <3>4. \E B : Grows(cs, ModWrite(cs, c, Declare(m)), {}, B)
        BY <2>1, <3>2, ModWriteGrows
      <3>5. \A ds, A, B : Grows(cs, ds, A, B) => \A d \in DOMAIN cs :
               ds[d].srv = cs[d].srv /\ ds[d].mod = cs[d].mod /\ ds[d].via = cs[d].via
        BY DEF Grows
      <3>6. \E A, B : Grows(cs, conn', A, B)
        <4>1. CASE conn' = CloseMod(cs, {c})
          BY <3>3, <4>1
        <4>2. CASE conn' = ModWrite(cs, c, Declare(m))
          BY <3>4, <4>2
        <4> QED
          BY <2>2, <4>1, <4>2
      <3> QED
        BY <2>1, <3>1, <3>5, <3>6
    <2>8. \A d \in DOMAIN conn' \ DOMAIN conn : NewConn(d)
      BY <2>1, <2>3, <2>5, <2>7 DEF NewConn
    <2> QED
      BY <2>6, <2>8 DEF ModEnds
  <1>9. HandleDiscovery(m) \/ HandleCall(m) \/ HandleAssignId(m) => ModEnds(m)
    <2>1. HandleDiscovery(m) \/ HandleCall(m) =>
            UNCHANGED conn \/ \E c, x : conn' = ModWrite(conn, c, x)
      BY DEF HandleDiscovery, HandleCall
    <2> QED
      BY <1>1, <1>2, <1>4, <2>1, AssignEnds, WritesKeepEnds
  <1>10. HandleServerShutdown(m) => UNCHANGED conn
    BY DEF HandleServerShutdown
  <1>11. UpdateAttribute(m) => ModEnds(m)
    BY <1>1, <1>2, WritesKeepEnds DEF UpdateAttribute
  <1>12. ModCrash(m) => ModEnds(m)
    BY <1>1, <1>3 DEF ModCrash, ModConns, SameEnds
  <1>13. ModShutdown(m) => ModEnds(m)
    <2>1. ModWriteAll(conn, m, "MODULE_SHUTDOWN") \in Seq(Conn)
      BY <1>1, ModWriteAllType, Facts DEF AddressInv, Reports
    <2> QED
      BY <1>1, <1>3, <2>1, WritesKeepEnds DEF ModShutdown, ModConns
  <1>14. CASE ModStart(m)
    <2>1. Started(m)
      BY <1>14, ModStartShape DEF AddressInv
    <2>2. UNCHANGED sUp /\ up'[m]
      BY <1>14, Facts DEF ModStart, ModMemory, AddressInv, ModuleTypes
    <2> QED
      BY <2>1, <2>2 DEF Started, ModEnds, NewConn
  <1> QED
    BY <1>4, <1>5, <1>6, <1>7, <1>8, <1>9, <1>10, <1>11, <1>12, <1>13, <1>14
    DEF ModuleStep, ModLoop, ModProgram

-----------------------------------------------------------------------------
(* What becomes of the maps *)

(* A module learns the id that the message in hand is about, or meets a      *)
(* server it did not know; it forgets a server, or everything.               *)
Learns(m, k, i, c) ==
    /\ serverMap'[m] = Put(serverMap[m], k, i)
    /\ mMap'[m] = IF c = NoConn THEN mMap[m] ELSE Put(mMap[m], k, c)
    /\ c # NoConn => /\ c \in DOMAIN conn' /\ conn'[c].mod = m
                     /\ ServerID[conn'[c].srv] = k
    /\ \A d \in DOMAIN conn : conn'[d].mEnd = conn[d].mEnd
    /\ \/ modTask[m].buf # <<>> /\ Head(modTask[m].buf).sid = k /\ c = mActive[m]
       \/ /\ modTask[m] = Idle /\ modTask'[m] = Idle
          /\ c \in DOMAIN conn' \ DOMAIN conn /\ conn'[c].mEnd = "open"
          /\ i = Unassigned
    /\ \/ i = Unassigned /\ k \notin DOMAIN serverMap[m]
       \/ /\ modTask[m].buf # <<>> /\ Head(modTask[m].buf).type = "MODULE_ASSIGN_ID"
          /\ Head(modTask[m].buf).name = Name[m] /\ Head(modTask[m].buf).id = i
HangsUp(m, c) ==
    /\ modTask[m] = Idle /\ modTask'[m] = Idle /\ conn[c].mod = m
    /\ conn[c].sEnd = "closed"
    /\ \A d \in DOMAIN conn \ {c} : conn'[d].mEnd = conn[d].mEnd
    /\ \/ KeysOf(mMap[m], c) = {} /\ serverMap'[m] = serverMap[m] /\ mMap'[m] = mMap[m]
       \/ /\ KeysOf(mMap[m], c) # {}
          /\ serverMap'[m] = Del(serverMap[m], FirstKey(mMap[m], c))
          /\ mMap'[m] = Del(mMap[m], FirstKey(mMap[m], c))
KeepsMaps(m) ==
    /\ serverMap'[m] = serverMap[m] /\ mMap'[m] = mMap[m]
    /\ modTask[m].buf # <<>> => mActive'[m] = mActive[m]
    /\ \A d \in DOMAIN conn : conn[d].mod = m /\ conn[d].mEnd = "open" => conn'[d].mEnd = "open"
Forgets(m) ==
    /\ ModMsgIs(m, "SERVER_SHUTDOWN")
    /\ \E k : serverMap'[m] = Del(serverMap[m], k)
    /\ mMap'[m] = mMap[m] /\ UNCHANGED <<mActive, conn>>
Loses(m) == /\ serverMap'[m] = Empty /\ mMap'[m] = Empty /\ modTask'[m] = Idle
            /\ ~up[m] \/ ~up'[m]
MapStep(m) ==
    \/ KeepsMaps(m) \/ Forgets(m) \/ Loses(m)
    \/ \E c \in DOMAIN conn : HangsUp(m, c)
    \/ \E k, i, c : Learns(m, k, i, c)

LEMMA UdpLearns ==
    ASSUME AddressInv, NEW m \in Modules, NEW s \in Servers, ModUdpDiscovery(m, s)
    PROVE  MapStep(m)
  <1> DEFINE k  == ServerID[s]
             c  == Len(conn) + 1
             cs == Append(conn, OpenConn(s, m, "mod", "net"))
             x  == Declare(m)
  <1>1. /\ cs \in Seq(Conn) /\ c \in DOMAIN cs /\ c \notin DOMAIN conn /\ c # NoConn
        /\ cs[c] = OpenConn(s, m, "mod", "net")
        /\ \A d \in DOMAIN conn : d \in DOMAIN cs /\ cs[d] = conn[d]
        /\ modTask[m] = Idle /\ modTask'[m] = Idle
    BY AppendGrows, Facts DEF AddressInv, ModUdpDiscovery
  <1>2. ModEnds(m)
    BY ModuleEnds DEF ModuleStep, ModLoop
  <1>3. CASE serverMap' = serverMap /\ mMap' = mMap
    <2>1. UNCHANGED conn \/ conn' = CloseMod(cs, {c})
      <3>1. CASE ~sUp[s]
        BY <3>1 DEF ModUdpDiscovery
      <3>2. CASE sUp[s] /\ k \in DOMAIN serverMap[m]
        BY <3>2 DEF ModUdpDiscovery
      <3>3. CASE sUp[s] /\ k \notin DOMAIN serverMap[m]
        <4>1. serverMap'[m] = Put(serverMap[m], k, Unassigned)
          BY <3>3, Facts DEF ModUdpDiscovery, AddressInv, ModuleTypes, On
        <4>2. k \in DOMAIN serverMap'[m]
          BY <4>1 DEF Put
        <4> QED
          BY <1>3, <3>3, <4>2
      <3> QED
        BY <3>1, <3>2, <3>3
    <2>2. \A d \in DOMAIN conn : d # c /\ cs[d] = conn[d] /\ d \in DOMAIN cs
      BY <1>1, AppendGrows, Facts DEF AddressInv
    <2> HIDE DEF c, cs
    <2>3. \A d \in DOMAIN conn : conn'[d].mEnd = conn[d].mEnd
      BY <1>1, <2>1, <2>2, ClosesEnds
    <2>4. modTask[m].buf = <<>>
      BY <1>1 DEF Idle
    <2> QED
      BY <1>3, <2>3, <2>4 DEF MapStep, KeepsMaps
  <1>4. CASE ~(serverMap' = serverMap /\ mMap' = mMap)
    <2>1. /\ serverMap' = [serverMap EXCEPT ![m] = Put(serverMap[m], k, Unassigned)]
          /\ mMap' = [mMap EXCEPT ![m] = Put(mMap[m], k, c)]
          /\ conn' = ModWrite(cs, c, x)
      BY <1>4 DEF ModUdpDiscovery
    <2>2. serverMap'[m] = Put(serverMap[m], k, Unassigned) /\ mMap'[m] = Put(mMap[m], k, c)
      BY <2>1, Facts DEF AddressInv, ModuleTypes, On
    <2>3. x \in SrvMsg
      BY ModuleMessages
    <2> HIDE DEF c, cs, x
    <2>4. SameEnds(cs, conn') /\ \E B : Grows(cs, conn', {}, B)
      BY <1>1, <2>1, <2>3, WritesKeepEnds, ModWriteGrows
    <2>5. c \in DOMAIN conn' /\ conn'[c].mod = m /\ conn'[c].srv = s
          /\ conn'[c].mEnd = "open"
      <3>1. cs[c].mod = m /\ cs[c].srv = s /\ cs[c].mEnd = "open"
        BY <1>1 DEF OpenConn
      <3> QED
        BY <1>1, <2>4, <3>1 DEF SameEnds, Grows
    <2>6. \A d \in DOMAIN conn : conn'[d].mEnd = conn[d].mEnd
      BY <1>1, <2>4 DEF SameEnds
    <2>7. k \notin DOMAIN serverMap[m]
      BY <1>4 DEF ModUdpDiscovery
    <2>8. Learns(m, k, Unassigned, c)
      BY <1>1, <2>2, <2>5, <2>6, <2>7 DEF Learns
    <2> QED
      BY <2>8 DEF MapStep
  <1> QED
    BY <1>3, <1>4

LEMMA MapSteps ==
    ASSUME AddressInv, TypeInv', [Next]_vars
    PROVE  \A m \in Modules : MapStep(m)
  <1> SUFFICES ASSUME NEW m \in Modules PROVE MapStep(m)
    OBVIOUS
  <1>1. CASE UNCHANGED vars
    BY <1>1 DEF vars, MapStep, KeepsMaps
  <1>2. ASSUME NEW s \in Servers, ServerStep(s)
        PROVE  MapStep(m)
    BY <1>2, ServerLeaves, ServerEnds DEF SrvEnds, MapStep, KeepsMaps
  <1>3. ASSUME NEW x \in Modules \ {m}, ModuleStep(x)
        PROVE  MapStep(m)
    <2>1. ModEnds(x)
      BY <1>3, ModuleEnds
    <2>2. /\ serverMap'[m] = serverMap[m] /\ mMap'[m] = mMap[m]
          /\ mActive'[m] = mActive[m]
      <3>1. On(serverMap, Modules) /\ On(mMap, Modules) /\ On(mActive, Modules)
        BY Facts DEF AddressInv, ModuleTypes, On
      <3> QED
        BY <1>3, <3>1 DEF ModuleStep, ModLoop, ModProgram, modCommVars, ModAccept, ModEof,
           ModRead, ModUdpDiscovery, HandleDiscovery, HandleServerShutdown, HandleAssignId,
           HandleCall, UpdateAttribute, ModStart, ModCrash, ModShutdown, ModMemory, On
    <2> QED
      BY <2>1, <2>2 DEF ModEnds, MapStep, KeepsMaps
  <1>4. CASE ModuleStep(m)
    <2>1. /\ ModEnds(m) /\ On(serverMap, Modules) /\ On(mMap, Modules)
          /\ On(modTask, Modules) /\ Idle.buf = <<>>
      BY <1>4, ModuleEnds, Facts DEF AddressInv, ModuleTypes, On, Idle
    <2>2. ASSUME NEW c \in DOMAIN conn, ModAccept(m, c)
          PROVE  MapStep(m)
      <3>1. \A d \in DOMAIN conn : conn[d].mEnd = "open" => conn'[d].mEnd = "open"
        <4>1. \A d \in DOMAIN conn : conn[d] \in Conn
          BY Facts DEF AddressInv
        <4> QED
          BY <2>2, <4>1 DEF ModAccept, Conn
      <3> QED
        BY <2>1, <2>2, <3>1 DEF ModAccept, MapStep, KeepsMaps
    <2>3. ASSUME NEW c \in DOMAIN conn, NEW n, ModRead(m, c, n)
          PROVE  MapStep(m)
      <3>1. \A d \in DOMAIN conn : conn'[d].mEnd = conn[d].mEnd
        <4>1. \A d \in DOMAIN conn : conn[d] \in Conn
          BY Facts DEF AddressInv
        <4> QED
          BY <2>3, <4>1 DEF ModRead, Conn
      <3> QED
        BY <2>1, <2>3, <3>1 DEF ModRead, MapStep, KeepsMaps
    <2>4. ASSUME NEW c \in DOMAIN conn, ModEof(m, c)
          PROVE  MapStep(m)
      <3>1. \A d \in DOMAIN conn \ {c} : conn'[d].mEnd = conn[d].mEnd
        BY <2>4, ClosesEnds, Facts DEF ModEof, AddressInv
      <3>2. HangsUp(m, c)
        BY <2>1, <2>4, <3>1 DEF ModEof, HangsUp, On
      <3> QED
        BY <3>2 DEF MapStep
    <2>5. ASSUME HandleDiscovery(m)
          PROVE  MapStep(m)
      <3> DEFINE k == Head(modTask[m].buf).sid
                 c == mActive[m]
      <3>1. modTask[m].buf # <<>>
        BY <2>5 DEF HandleDiscovery, ModMsgIs
      <3>2. c # NoConn => c \in DOMAIN conn /\ conn[c].mod = m /\ ServerID[conn[c].srv] = k
        BY <3>1, ModInHand
      <3>3. CASE k \in DOMAIN serverMap[m]
        BY <2>5, <3>3 DEF HandleDiscovery, MapStep, KeepsMaps
      <3>4. CASE k \notin DOMAIN serverMap[m]
        <4>1. /\ serverMap' = [serverMap EXCEPT ![m] = Put(serverMap[m], k, Unassigned)]
              /\ mMap' = IF c = NoConn THEN mMap
                         ELSE [mMap EXCEPT ![m] = Put(mMap[m], k, c)]
              /\ conn' = ModWrite(conn, c, Declare(m))
          BY <2>5, <3>4 DEF HandleDiscovery
        <4>2. /\ serverMap'[m] = Put(serverMap[m], k, Unassigned)
              /\ mMap'[m] = IF c = NoConn THEN mMap[m] ELSE Put(mMap[m], k, c)
          BY <2>1, <4>1 DEF On
        <4>3. \A d \in DOMAIN conn : conn'[d].mEnd = conn[d].mEnd
          BY <4>1, WritesKeepEnds, Facts DEF AddressInv, SameEnds
        <4>4. c # NoConn => /\ c \in DOMAIN conn' /\ conn'[c].mod = m
                            /\ ServerID[conn'[c].srv] = k
          BY <3>2, MailStep
        <4>5. Learns(m, k, Unassigned, c)
          BY <3>1, <3>4, <4>1, <4>2, <4>3, <4>4 DEF Learns
        <4> QED
          BY <4>5 DEF MapStep
      <3> QED
        BY <3>3, <3>4
    <2>6. ASSUME HandleAssignId(m)
          PROVE  MapStep(m)
      <3> DEFINE msg == Head(modTask[m].buf)
                 k == msg.sid
                 c == mActive[m]
      <3>1. modTask[m].buf # <<>> /\ msg.type = "MODULE_ASSIGN_ID"
        BY <2>6 DEF HandleAssignId, ModMsgIs
      <3>2. c # NoConn => c \in DOMAIN conn /\ conn[c].mod = m /\ ServerID[conn[c].srv] = k
        BY <3>1, ModInHand
      <3>3. CASE msg.name # Name[m]
        BY <2>6, <3>3 DEF HandleAssignId, MapStep, KeepsMaps
      <3>4. CASE msg.name = Name[m]
        <4>1. /\ serverMap' = [serverMap EXCEPT ![m] = Put(serverMap[m], k, msg.id)]
              /\ mMap' = [mMap EXCEPT ![m] = IF c = NoConn THEN mMap[m]
                                             ELSE Put(mMap[m], k, c)]
              /\ msg.name = Name[m]
          BY <2>6, <3>4 DEF HandleAssignId
        <4>2. /\ serverMap'[m] = Put(serverMap[m], k, msg.id)
              /\ mMap'[m] = IF c = NoConn THEN mMap[m] ELSE Put(mMap[m], k, c)
          BY <2>1, <4>1 DEF On
        <4>3. \A d \in DOMAIN conn : conn'[d].mEnd = conn[d].mEnd
          BY <2>6, AssignEnds
        <4>4. c # NoConn => /\ c \in DOMAIN conn' /\ conn'[c].mod = m
                            /\ ServerID[conn'[c].srv] = k
          BY <3>2, MailStep
        <4>5. Learns(m, k, msg.id, c)
          BY <3>1, <4>1, <4>2, <4>3, <4>4 DEF Learns
        <4> QED
          BY <4>5 DEF MapStep
      <3> QED
        BY <3>3, <3>4
    <2>7. HandleServerShutdown(m) => MapStep(m)
      BY <2>1 DEF HandleServerShutdown, MapStep, Forgets, On
    <2>8. HandleCall(m) => MapStep(m)
      <3> SUFFICES ASSUME HandleCall(m) PROVE MapStep(m)
        OBVIOUS
      <3>1. UNCHANGED conn \/ \E c, x : conn' = ModWrite(conn, c, x)
        BY DEF HandleCall
      <3>2. \A d \in DOMAIN conn : conn'[d].mEnd = conn[d].mEnd
        BY <3>1, WritesKeepEnds, Facts DEF AddressInv, SameEnds
      <3> QED
        BY <3>2 DEF HandleCall, MapStep, KeepsMaps
    <2>9. UpdateAttribute(m) => MapStep(m)
      <3> SUFFICES ASSUME UpdateAttribute(m) PROVE MapStep(m)
        OBVIOUS
      <3>1. \A d \in DOMAIN conn : conn'[d].mEnd = conn[d].mEnd
        BY WritesKeepEnds, Facts DEF UpdateAttribute, AddressInv, SameEnds
      <3> QED
        BY <3>1 DEF UpdateAttribute, modCommVars, MapStep, KeepsMaps
    <2>10. ModStart(m) \/ ModCrash(m) \/ ModShutdown(m) => MapStep(m)
      <3>1. up \in [Modules -> BOOLEAN]
        BY Facts DEF AddressInv, ModuleTypes
      <3> QED
        BY <2>1, <3>1 DEF ModStart, ModCrash, ModShutdown, ModMemory, MapStep, Loses, On
    <2> QED
      BY <1>4, <2>2, <2>3, <2>4, <2>5, <2>6, <2>7, <2>8, <2>9, <2>10, UdpLearns
      DEF ModuleStep, ModLoop, ModProgram
  <1> QED
    BY <1>1, <1>2, <1>3, <1>4, EachStep

(* A server keeps its mapping, drops a channel, starts again, or maps the id *)
(* it assigns to the last used channel; and uses channels of its own.        *)
Assigns(s) ==
    /\ ioTask[s].assigning /\ sActive[s] # NoConn
    /\ nextObjId'[s] = nextObjId[s] + 1
    /\ sMap'[s] = Put(sMap[s], nextObjId[s], sActive[s])
SrvMapStep(s) ==
    \/ sMap'[s] = sMap[s] /\ nextObjId'[s] >= nextObjId[s]
    \/ sMap'[s] = Empty /\ modules'[s] = {}
    \/ (\E k : sMap'[s] = Del(sMap[s], k)) /\ nextObjId'[s] = nextObjId[s]
    \/ Assigns(s)
OwnActive(s) == sActive'[s] # NoConn => conn'[sActive'[s]].srv = s

LEMMA SrvMapSteps ==
    ASSUME AddressInv, TypeInv', [Next]_vars
    PROVE  \A s \in Servers : SrvMapStep(s) /\ OwnActive(s)
  <1> SUFFICES ASSUME NEW s \in Servers PROVE SrvMapStep(s) /\ OwnActive(s)
    OBVIOUS
  <1>1. /\ On(sMap, Servers) /\ On(sActive, Servers) /\ On(nextObjId, Servers)
        /\ On(modules, Servers) /\ nextObjId[s] \in Int
        /\ sActive[s] \in {NoConn} \cup DOMAIN conn
        /\ conn \in Seq(Conn)
    <2>1. /\ nextObjId \in [Servers -> FirstId..MaxModuleId + 1]
          /\ modules \in [Servers -> SUBSET ModuleRec]
          /\ sActive \in [Servers -> {NoConn} \cup DOMAIN conn]
      BY Facts DEF AddressInv, RegistryTypes, ServerTypes
    <2>2. nextObjId[s] \in Int
      BY <2>1, ConstantsAssumption
    <2> QED
      BY <2>1, <2>2, Facts DEF AddressInv, ServerTypes, On
  <1>2. nextObjId[s] >= nextObjId[s]
    BY <1>1
  <1>3. sActive'[s] = sActive[s] => OwnActive(s)
    BY <1>1, MailStep DEF OwnActive, AddressInv, Channels
  <1>4. sMap'[s] = sMap[s] /\ nextObjId'[s] = nextObjId[s] => SrvMapStep(s)
    BY <1>2 DEF SrvMapStep
  <1>5. CASE UNCHANGED <<sMap, nextObjId, sActive>>
    BY <1>3, <1>4, <1>5
  <1>6. ASSUME NEW x \in Servers \ {s}, ServerStep(x)
        PROVE  SrvMapStep(s) /\ OwnActive(s)
    <2>1. CASE SrvIO(x)
      <3>1. /\ sMap'[s] = sMap[s] /\ sActive'[s] = sActive[s]
            /\ nextObjId'[s] = nextObjId[s]
        BY <1>1, <1>6, <2>1, ObjectWorkKeeps DEF On, SrvIO, registryVars, srvCommVars,
           SrvAccept, SrvEof, SrvRead, SrvUdpDeclare, HandleDeclareNew, AssignModuleID, HandleDeclareDuplicate,
           HandleModuleShutdown, HandleExpose, HandleDesc, HandleValue, SrvApply
      <3> QED
        BY <1>3, <1>4, <3>1
    <2>2. CASE ~SrvIO(x)
      <3>1. /\ sMap'[s] = sMap[s] /\ sActive'[s] = sActive[s]
            /\ nextObjId'[s] = nextObjId[s]
        BY <1>1, <1>6, <2>2, ObjectWorkKeeps DEF On, ServerStep, registryVars,
           srvCommVars, SrvPython, Discover, SendDiscovery, Connect, Disconnect, CallRemote, SrvStop, SrvStart,
           SrvMemory
      <3> QED
        BY <1>3, <1>4, <3>1
    <2> QED
      BY <2>1, <2>2
  <1>7. CASE ServerStep(s)
    <2>1. ASSUME NEW c \in DOMAIN conn, conn[c].srv = s, UNCHANGED <<sMap, nextObjId>>,
                 sActive' = [sActive EXCEPT ![s] = c]
          PROVE  SrvMapStep(s) /\ OwnActive(s)
      <3>1. sActive'[s] = c
        BY <1>1, <2>1 DEF On
      <3> QED
        BY <1>4, <2>1, <3>1, MailStep DEF OwnActive
    <2>2. ASSUME UNCHANGED <<sMap, nextObjId>>, NEW m \in Modules,
                 conn' = Append(conn, OpenConn(s, m, "srv", "net")),
                 sActive' = [sActive EXCEPT ![s] = Len(conn) + 1]
          PROVE  SrvMapStep(s) /\ OwnActive(s)
      <3>1. sActive'[s] = Len(conn) + 1
        BY <1>1, <2>2 DEF On
      <3>2. conn'[Len(conn) + 1] = OpenConn(s, m, "srv", "net")
        BY <1>1, <2>2, AppendGrows
      <3>3. conn'[Len(conn) + 1].srv = s
        BY <3>2 DEF OpenConn
      <3> QED
        BY <1>4, <2>2, <3>1, <3>3 DEF OwnActive
    <2>3. (\E c \in DOMAIN conn : SrvAccept(s, c) \/ \E n : SrvRead(s, c, n))
             => SrvMapStep(s) /\ OwnActive(s)
      BY <2>1 DEF SrvAccept, SrvRead, registryVars
    <2>4. (\E m \in Modules : SrvUdpDeclare(s, m) \/ Connect(s, m))
             => SrvMapStep(s) /\ OwnActive(s)
      BY <1>5, <2>2 DEF SrvUdpDeclare, Connect, registryVars
    <2>5. ASSUME NEW c \in DOMAIN conn, SrvEof(s, c)
          PROVE  SrvMapStep(s) /\ OwnActive(s)
      <3>1. UNCHANGED <<sActive, nextObjId>>
        BY <2>5 DEF SrvEof, registryVars
      <3>2. sMap'[s] = sMap[s] \/ \E k : sMap'[s] = Del(sMap[s], k)
        <4>1. CASE KeysOf(sMap[s], c) = {}
          BY <2>5, <4>1 DEF SrvEof
        <4>2. CASE KeysOf(sMap[s], c) # {}
          <5>1. sMap' = [sMap EXCEPT ![s] = Del(sMap[s], FirstKey(sMap[s], c))]
            BY <2>5, <4>2 DEF SrvEof
          <5> QED
            BY <1>1, <5>1 DEF On
        <4> QED
          BY <4>1, <4>2
      <3> QED
        BY <1>2, <1>3, <3>1, <3>2 DEF SrvMapStep
    <2>6. HandleDeclareNew(s) \/ HandleModuleShutdown(s) \/ HandleExpose(s)
          \/ HandleDesc(s) \/ HandleValue(s) \/ ObjectWork(s) \/ EndDisconnect(s)
          => UNCHANGED <<sMap, nextObjId, sActive>>
      BY ObjectWorkKeeps DEF HandleDeclareNew, HandleModuleShutdown, HandleExpose,
         HandleDesc, HandleValue, SrvApply, srvCommVars
    <2>7. AssignModuleID(s) => SrvMapStep(s) /\ OwnActive(s)
      <3> SUFFICES ASSUME AssignModuleID(s) PROVE SrvMapStep(s) /\ OwnActive(s)
        OBVIOUS
      <3>1. sActive'[s] = NoConn /\ nextObjId'[s] = nextObjId[s] + 1
        BY <1>1 DEF AssignModuleID, On
      <3>2. CASE sActive[s] = NoConn
        <4>1. UNCHANGED sMap
          BY <3>2 DEF AssignModuleID
        <4> QED
          BY <1>1, <3>1, <4>1 DEF SrvMapStep, OwnActive
      <3>3. CASE sActive[s] # NoConn
        <4>1. sMap' = [sMap EXCEPT ![s] = Put(sMap[s], nextObjId[s], sActive[s])]
              /\ ioTask[s].assigning
          BY <3>3 DEF AssignModuleID
        <4>2. sMap'[s] = Put(sMap[s], nextObjId[s], sActive[s])
          BY <1>1, <4>1 DEF On
        <4> QED
          BY <3>1, <3>3, <4>1, <4>2 DEF SrvMapStep, OwnActive, Assigns
      <3> QED
        BY <3>2, <3>3
    <2>8. HandleDeclareDuplicate(s) => SrvMapStep(s) /\ OwnActive(s)
      <3> SUFFICES ASSUME HandleDeclareDuplicate(s), ~UNCHANGED <<sMap, nextObjId, sActive>>
                   PROVE  SrvMapStep(s) /\ OwnActive(s)
        BY <1>5
      <3>1. /\ UNCHANGED nextObjId /\ sActive' = [sActive EXCEPT ![s] = NoConn]
            /\ LET c == sActive[s]
               IN sMap' = IF KeysOf(sMap[s], c) = {} THEN sMap
                          ELSE [sMap EXCEPT ![s] = Del(sMap[s], FirstKey(sMap[s], c))]
        BY DEF HandleDeclareDuplicate, registryVars, srvCommVars
      <3>2. sActive'[s] = NoConn
        BY <1>1, <3>1 DEF On
      <3>3. sMap'[s] = sMap[s] \/ \E k : sMap'[s] = Del(sMap[s], k)
        BY <1>1, <3>1 DEF On
      <3> QED
        BY <1>2, <3>1, <3>2, <3>3 DEF SrvMapStep, OwnActive
    <2>9. SendDiscovery(s) => SrvMapStep(s) /\ OwnActive(s)
      <3> SUFFICES ASSUME SendDiscovery(s) PROVE SrvMapStep(s) /\ OwnActive(s)
        OBVIOUS
      <3>1. sActive'[s] = NoConn /\ UNCHANGED <<sMap, nextObjId>>
        BY <1>1 DEF SendDiscovery, registryVars, On
      <3> QED
        BY <1>4, <3>1 DEF OwnActive
    <2>10. (\E r \in modules[s] : Disconnect(s, r) \/ CallRemote(s, r))
              => UNCHANGED <<sMap, nextObjId, sActive>>
      BY DEF Disconnect, CallRemote, registryVars, srvCommVars
    <2>11. ASSUME Discover(s)
           PROVE  SrvMapStep(s) /\ OwnActive(s)
      <3>1. PICK all \in Seq(Conn), used \in SUBSET Nat : Discovered(s, all, used)
        BY <2>11, DiscoverShape DEF AddressInv
      <3>2. UNCHANGED <<sMap, nextObjId>>
        BY <2>11 DEF Discover, registryVars
      <3>3. UNCHANGED sActive \/ \E c \in used : sActive' = [sActive EXCEPT ![s] = c]
        BY <3>1 DEF Discovered
      <3>4. \A c \in used : conn'[c].srv = s
        <4>1. \A c \in used : c \in DOMAIN all /\ all[c] \in Conn /\ all[c].srv = s
          BY <3>1 DEF Discovered
        <4> QED
          BY <3>1, <4>1 DEF Discovered, Conn
      <3>5. OwnActive(s)
        <4>1. CASE UNCHANGED sActive
          BY <1>3, <4>1
        <4>2. ASSUME NEW c \in used, sActive' = [sActive EXCEPT ![s] = c]
              PROVE  OwnActive(s)
          <5>1. sActive'[s] = c
            BY <1>1, <4>2 DEF On
          <5> QED
            BY <3>4, <5>1 DEF OwnActive
        <4> QED
          BY <3>3, <4>1, <4>2
      <3> QED
        BY <1>4, <3>2, <3>5
    <2>12. SrvStop(s) \/ SrvStart(s) => SrvMapStep(s) /\ OwnActive(s)
      BY <1>1 DEF SrvStop, SrvStart, SrvMemory, SrvMapStep, OwnActive, On
    <2> QED
      BY <1>5, <1>7, <2>3, <2>4, <2>5, <2>6, <2>7, <2>8, <2>9, <2>10, <2>11, <2>12
      DEF ServerStep, SrvIO, SrvPython
  <1>8. ASSUME NEW m \in Modules, ModuleStep(m)
        PROVE  UNCHANGED <<sMap, nextObjId, sActive>>
    BY <1>8, ModuleLeaves
  <1> QED
    BY <1>5, <1>6, <1>7, <1>8, EachStep DEF vars

-----------------------------------------------------------------------------
(* Messages are addressed, and processes use channels of their own *)

LEMMA ConfiguredStep ==
    ASSUME AddressInv, TypeInv', [Next]_vars
    PROVE  Configured' /\ \A c \in DOMAIN conn' \ DOMAIN conn : NewConn(c)
  <1>1. \A s \in Servers : main'[s] = "connecting" => "connect" \in Ops
    <2>1. ASSUME NEW s \in Servers, ServerStep(s), ~UNCHANGED main
          PROVE  \/ main' = [main EXCEPT ![s] = "idle"]
                 \/ "connect" \in Ops
      <3>1. CASE SrvIO(s)
        BY <2>1, <3>1, ObjectWorkKeeps DEF SrvIO, SrvAccept, SrvEof, SrvRead, SrvUdpDeclare,
           HandleDeclareNew, AssignModuleID, HandleDeclareDuplicate,
           HandleModuleShutdown, HandleExpose, HandleDesc, HandleValue, SrvApply
      <3>2. CASE ~SrvIO(s)
        BY <2>1, <3>2, ObjectWorkKeeps DEF ServerStep, SrvPython, Discover, SendDiscovery, Connect, Op,
           Disconnect, CallRemote, SrvStop, SrvStart, SrvMemory
      <3> QED
        BY <3>1, <3>2
    <2>2. main \in [Servers -> {"idle", "connecting"}]
      BY Facts DEF AddressInv, ServerTypes
    <2>3. \A s \in Servers : main' = [main EXCEPT ![s] = "idle"] =>
             \A x \in Servers : main'[x] = "connecting" => main[x] = "connecting"
      BY <2>2
    <2>4. UNCHANGED main \/ \E s \in Servers : ServerStep(s)
      BY EachStep, ModuleLeaves DEF vars
    <2> QED
      BY <2>1, <2>3, <2>4 DEF AddressInv, Configured
  <1>2. \A s \in Servers : sUp'[s] \/ "srvcrash" \in Ops
    <2>1. ASSUME NEW s \in Servers, ServerStep(s), ~UNCHANGED sUp
          PROVE  SrvStop(s) \/ SrvStart(s)
      <3>1. CASE SrvIO(s)
        BY <2>1, <3>1, ObjectWorkKeeps DEF SrvIO, SrvAccept, SrvEof, SrvRead, SrvUdpDeclare,
           HandleDeclareNew, AssignModuleID, HandleDeclareDuplicate,
           HandleModuleShutdown, HandleExpose, HandleDesc, HandleValue, SrvApply
      <3>2. CASE ~SrvIO(s)
        BY <2>1, <3>2, ObjectWorkKeeps DEF ServerStep, SrvPython, Discover, SendDiscovery, Connect,
           Disconnect, CallRemote
      <3> QED
        BY <3>1, <3>2
    <2>2. UNCHANGED sUp \/ \E s \in Servers : ServerStep(s)
      BY EachStep, ModuleLeaves DEF vars
    <2>3. \A s \in Servers : SrvStop(s) => "srvcrash" \in Ops
      BY DEF SrvStop, Op
    <2>4. \A s \in Servers : SrvStart(s) => \A x \in Servers : sUp'[x] \/ sUp'[x] = sUp[x]
      BY Facts DEF SrvStart, SrvMemory, AddressInv, ServerTypes
    <2> QED
      BY <2>1, <2>2, <2>3, <2>4 DEF AddressInv, Configured
  <1>3. \A c \in DOMAIN conn' \ DOMAIN conn : NewConn(c)
    BY EachStep, ServerEnds, ModuleEnds DEF SrvEnds, ModEnds, vars
  <1>4. \A c \in DOMAIN conn' : conn'[c].via = "ipc" => "ipc" \in Transports
    BY <1>3, MailStep DEF NewConn, AddressInv, Configured
  <1> QED
    BY <1>1, <1>2, <1>3, <1>4 DEF Configured

LEMMA InHandStep ==
    ASSUME AddressInv, TypeInv', [Next]_vars
    PROVE  InHand'
  <1>1. Range(<<>>) = {}
    BY Ranges
  <1>2. ASSUME NEW m \in Modules, modTask'[m].buf # <<>>
        PROVE  /\ modTask'[m].conn \in DOMAIN conn' /\ conn'[modTask'[m].conn].mod = m
               /\ mActive'[m] \in {NoConn, modTask'[m].conn}
    <2>1. ModHand(m)
      BY ModHands DEF AddressInv
    <2> QED
      BY <1>2, <2>1, MailStep DEF ModHand, AddressInv, InHand
  <1>3. ASSUME NEW s \in Servers, ioTask'[s].buf # <<>>
        PROVE  ioTask'[s].conn \in DOMAIN conn' /\ conn'[ioTask'[s].conn].srv = s
    <2>1. SrvHand(s)
      BY SrvHands DEF AddressInv
    <2> QED
      BY <1>3, <2>1, MailStep DEF SrvHand, AddressInv, InHand
  <1> QED
    BY <1>2, <1>3 DEF InHand

(* The last used channel of a module is its own. *)
LEMMA OwnModActive ==
    ASSUME AddressInv, TypeInv', [Next]_vars, NEW m \in Modules, mActive'[m] # NoConn
    PROVE  conn'[mActive'[m]].mod = m
  <1>1. On(mActive, Modules) /\ mActive[m] \in {NoConn} \cup DOMAIN conn
    BY Facts DEF AddressInv, ModuleTypes, On
  <1>2. mActive'[m] = mActive[m] => conn'[mActive'[m]].mod = m
    BY <1>1, MailStep DEF AddressInv, Channels
  <1>3. ASSUME NEW s \in Servers, ServerStep(s)
        PROVE  mActive'[m] = mActive[m]
    BY <1>3, ServerLeaves
  <1>4. ASSUME NEW x \in Modules \ {m}, ModuleStep(x)
        PROVE  mActive'[m] = mActive[m]
    BY <1>1, <1>4 DEF ModuleStep, ModLoop, ModProgram, modCommVars, ModAccept, ModEof,
       ModRead, ModUdpDiscovery, HandleDiscovery, HandleServerShutdown, HandleAssignId,
       HandleCall, UpdateAttribute, ModStart, ModCrash, ModShutdown, On
  <1>5. CASE ModuleStep(m)
    <2>1. CASE ModStart(m)
      <3>1. Started(m)
        BY <2>1, ModStartShape DEF AddressInv
      <3> QED
        BY <1>1, <3>1 DEF Started, On
    <2>2. ASSUME NEW c \in DOMAIN conn, ModAccept(m, c) \/ \E n : ModRead(m, c, n)
          PROVE  conn'[mActive'[m]].mod = m
      <3>1. mActive'[m] = c /\ conn[c].mod = m
        BY <1>1, <2>2 DEF ModAccept, ModRead, On
      <3> QED
        BY <3>1, MailStep
    <2>3. (\E c \in DOMAIN conn : ModEof(m, c)) \/ UpdateAttribute(m) \/ HandleCall(m)
          \/ HandleServerShutdown(m) => mActive' = mActive
      BY DEF ModEof, UpdateAttribute, HandleCall, HandleServerShutdown, modCommVars
    <2>4. (\E s \in Servers : ModUdpDiscovery(m, s)) \/ HandleDiscovery(m)
          \/ HandleAssignId(m) \/ ModCrash(m) \/ ModShutdown(m)
          => mActive' \in {mActive, [mActive EXCEPT ![m] = NoConn]}
      BY DEF ModUdpDiscovery, HandleDiscovery, HandleAssignId, ModCrash, ModShutdown
    <2> QED
      BY <1>1, <1>2, <1>5, <2>1, <2>2, <2>3, <2>4 DEF ModuleStep, ModLoop, ModProgram, On
  <1> QED
    BY <1>2, <1>3, <1>4, <1>5, EachStep DEF vars

LEMMA ChannelsStep ==
    ASSUME AddressInv, TypeInv', [Next]_vars
    PROVE  Channels'
  <1>1. ASSUME NEW s \in Servers
        PROVE  /\ sActive'[s] # NoConn => conn'[sActive'[s]].srv = s
               /\ \A i \in DOMAIN sMap'[s] : conn'[sMap'[s][i]].srv = s
    <2>1. SrvMapStep(s) /\ OwnActive(s)
      BY SrvMapSteps
    <2>2. \A i \in DOMAIN sMap[s] : sMap[s][i] \in DOMAIN conn /\ conn[sMap[s][i]].srv = s
      BY Facts DEF AddressInv, ServerTypes, Channels
    <2>3. sActive[s] # NoConn => sActive[s] \in DOMAIN conn /\ conn[sActive[s]].srv = s
      BY Facts DEF AddressInv, Channels
    <2>4. DOMAIN Empty = {}
      BY DEF Empty
    <2>5. ASSUME NEW i \in DOMAIN sMap'[s]
          PROVE  \/ i \in DOMAIN sMap[s] /\ sMap'[s][i] = sMap[s][i]
                 \/ sMap'[s][i] = sActive[s] /\ sActive[s] # NoConn
      <3>1. CASE sMap'[s] = sMap[s] \/ sMap'[s] = Empty
        BY <2>4, <2>5, <3>1
      <3>2. ASSUME NEW k, sMap'[s] = Del(sMap[s], k)
            PROVE  i \in DOMAIN sMap[s] /\ sMap'[s][i] = sMap[s][i]
        BY <2>5, <3>2 DEF Del
      <3>3. CASE Assigns(s)
        BY <2>5, <3>3 DEF Assigns, Put
      <3> QED
        BY <2>1, <3>1, <3>2, <3>3 DEF SrvMapStep
    <2> QED
      BY <2>1, <2>2, <2>3, <2>5, MailStep DEF OwnActive
  <1>2. ASSUME NEW m \in Modules, NEW k \in DOMAIN mMap'[m]
        PROVE  conn'[mMap'[m][k]].mod = m /\ ServerID[conn'[mMap'[m][k]].srv] = k
    <2>1. MapStep(m)
      BY MapSteps
    <2>2. \A j \in DOMAIN mMap[m] : /\ mMap[m][j] \in DOMAIN conn
                                    /\ conn'[mMap[m][j]].mod = m
                                    /\ ServerID[conn'[mMap[m][j]].srv] = j
      BY HeldFacts, MailStep
    <2>3. CASE mMap'[m] = mMap[m]
      BY <1>2, <2>2, <2>3
    <2>4. CASE mMap'[m] = Empty
      BY <1>2, <2>4 DEF Empty
    <2>5. ASSUME NEW j, mMap'[m] = Del(mMap[m], j)
          PROVE  k \in DOMAIN mMap[m] /\ mMap'[m][k] = mMap[m][k]
      BY <1>2, <2>5 DEF Del
    <2>6. ASSUME NEW j, NEW i, NEW c, Learns(m, j, i, c), c # NoConn
          PROVE  \/ k \in DOMAIN mMap[m] /\ mMap'[m][k] = mMap[m][k]
                 \/ k = j /\ mMap'[m][k] = c /\ conn'[c].mod = m /\ ServerID[conn'[c].srv] = j
      <3>1. mMap'[m] = Put(mMap[m], j, c)
        BY <2>6 DEF Learns
      <3>2. conn'[c].mod = m /\ ServerID[conn'[c].srv] = j
        BY <2>6 DEF Learns
      <3> QED
        BY <1>2, <3>1, <3>2 DEF Put
    <2>7. \/ mMap'[m] = mMap[m] \/ mMap'[m] = Empty \/ (\E j : mMap'[m] = Del(mMap[m], j))
          \/ \E j, i, c : Learns(m, j, i, c) /\ c # NoConn
      BY <2>1 DEF MapStep, KeepsMaps, Forgets, Loses, HangsUp, Learns
    <2> QED
      BY <2>2, <2>3, <2>4, <2>5, <2>6, <2>7
  <1>3. ASSUME NEW m \in Modules, mActive'[m] # NoConn
        PROVE  conn'[mActive'[m]].mod = m
    BY <1>3, OwnModActive
  <1> QED
    BY <1>1, <1>2, <1>3 DEF Channels

LEMMA AddressedStep ==
    ASSUME AddressInv, TypeInv', [Next]_vars
    PROVE  Addressed'
  <1>1. ASSUME NEW c \in DOMAIN conn', NEW x \in ToModule(c)'
        PROVE  x.sid = ServerID[conn'[c].srv] /\ (x.type = "MODULE_DISCOVERY" => Dials)
    BY MailStep DEF FromServer, AddressInv, Addressed
  <1>2. ASSUME NEW c \in DOMAIN conn', NEW x \in ToServer(c)'
        PROVE  x.from = conn'[c].mod
    BY MailStep DEF FromProgram, AddressInv, Addressed
  <1>3. Dials' = Dials
    BY DEF Dials
  <1> QED
    BY <1>1, <1>2 DEF Addressed, Dials

-----------------------------------------------------------------------------
(* What the IO thread works on *)

(* What a step of another process leaves alone. *)
LEMMA OthersAlone ==
    ASSUME TypeInv, NEW s \in Servers,
           \/ \E x \in Servers \ {s} : ServerStep(x)
           \/ \E m \in Modules : ModuleStep(m)
           \/ UNCHANGED vars
    PROVE  /\ modules'[s] = modules[s] /\ nextObjId'[s] = nextObjId[s]
           /\ work'[s] = work[s] /\ crossed'[s] = crossed[s]
           /\ ioTask'[s] = ioTask[s] /\ sActive'[s] = sActive[s]
           /\ sUp'[s] = sUp[s] /\ sMap'[s] = sMap[s]
  <1> DEFINE Kept == /\ modules'[s] = modules[s] /\ nextObjId'[s] = nextObjId[s]
                     /\ work'[s] = work[s] /\ crossed'[s] = crossed[s]
                     /\ ioTask'[s] = ioTask[s] /\ sActive'[s] = sActive[s]
                     /\ sUp'[s] = sUp[s] /\ sMap'[s] = sMap[s]
  <1>1. /\ On(modules, Servers) /\ On(nextObjId, Servers) /\ On(ioTask, Servers)
        /\ On(sActive, Servers) /\ On(sUp, Servers) /\ On(sMap, Servers)
        /\ On(work, Servers) /\ crossed \in [Servers -> BOOLEAN]
    BY Facts DEF RegistryTypes, ServerTypes, On
  <1>2. ASSUME NEW x \in Servers \ {s}, ObjectWork(x) \/ EndDisconnect(x)
        PROVE  Kept
    <2>1. modules'[s] = modules[s]
      BY <1>2, ObjectWorkTypes
    <2>2. work'[s] = work[s]
      BY <1>1, <1>2 DEF On, ObjectWork, FindAtEof, Find, NotifyDestroyed, EraseAtEof,
         EndDisconnect
    <2>3. \/ UNCHANGED crossed
          \/ crossed' = [crossed EXCEPT ![x] = crossed[x] \/ leaving[x] # <<>>]
      BY <1>2 DEF ObjectWork, FindAtEof, Find, NotifyDestroyed, EraseAtEof, EndDisconnect
    <2>4. crossed'[s] = crossed[s]
      BY <1>1, <1>2, <2>3, Zenon
    <2> QED
      BY <1>2, <2>1, <2>2, <2>4, ObjectWorkKeeps
  <1>3. ASSUME NEW x \in Servers \ {s}, SrvIO(x), ~ObjectWork(x)
        PROVE  Kept
    <2>1. /\ modules'[s] = modules[s] /\ nextObjId'[s] = nextObjId[s]
          /\ work'[s] = work[s]
          /\ ioTask'[s] = ioTask[s] /\ sActive'[s] = sActive[s]
          /\ sUp'[s] = sUp[s] /\ sMap'[s] = sMap[s]
      BY <1>1, <1>3 DEF On, SrvIO, registryVars, handlerVars, srvCommVars, SrvAccept, SrvEof,
         SrvRead, SrvUdpDeclare, HandleDeclareNew, AssignModuleID, HandleDeclareDuplicate,
         HandleModuleShutdown, HandleExpose, HandleDesc, HandleValue, SrvApply
    <2>2. \/ UNCHANGED crossed
          \/ crossed' = [crossed EXCEPT ![x] = crossed[x] \/ leaving[x] # <<>>]
      BY <1>3 DEF SrvIO, registryVars, handlerVars, SrvAccept, SrvEof, SrvRead,
         SrvUdpDeclare, HandleDeclareNew, AssignModuleID, HandleDeclareDuplicate,
         HandleModuleShutdown, HandleExpose, HandleDesc, HandleValue, SrvApply
    <2>3. crossed'[s] = crossed[s]
      BY <1>1, <1>3, <2>2, Zenon
    <2> QED
      BY <2>1, <2>3
  <1>4. ASSUME NEW x \in Servers \ {s}, NEW r, Disconnect(x, r)
        PROVE  Kept
    <2>1. crossed' = [crossed EXCEPT ![x] = \/ crossed[x] \/ leaving[x] # <<>>
                                            \/ work[x].at \in {"found", "notified"}]
      BY <1>4 DEF Disconnect
    <2>2. crossed'[s] = crossed[s]
      BY <1>1, <1>4, <2>1, Zenon
    <2> QED
      BY <1>4, <2>2 DEF Disconnect, srvCommVars
  <1>5. ASSUME NEW x \in Servers \ {s}, SrvPython(x), ~EndDisconnect(x)
        PROVE  Kept
    BY <1>1, <1>4, <1>5 DEF On, registryVars, handlerVars, srvCommVars, SrvPython,
       Discover, SendDiscovery, Connect, CallRemote
  <1>6. ASSUME NEW x \in Servers \ {s}, SrvStop(x) \/ SrvStart(x)
        PROVE  Kept
    <2>1. crossed'[s] = crossed[s]
      BY <1>1, <1>6, Zenon DEF SrvStop, SrvStart, SrvMemory
    <2> QED
      BY <1>1, <1>6, <2>1 DEF On, SrvStop, SrvStart, SrvMemory
  <1> QED
    BY <1>2, <1>3, <1>5, <1>6, ModuleLeaves DEF ServerStep, SrvPython, vars

(* A step that leaves an object in hand, and its mapping, as they were. *)
LEMMA WorkKept ==
    ASSUME NEW s \in Servers, WorkOf(s), work'[s] = work[s], ioTask'[s] = ioTask[s],
           sMap'[s] = sMap[s], crossed[s] => crossed'[s], modules'[s] \subseteq modules[s]
    PROVE  WorkOf(s)'
  BY DEF WorkOf, SrvMsgIs

LEMMA WorkingStep ==
    ASSUME AddressInv, TypeInv', [Next]_vars
    PROVE  Working'
  <1> SUFFICES ASSUME NEW s \in Servers PROVE WorkOf(s)'
    BY DEF Working
  <1>1. /\ On(modules, Servers) /\ On(ioTask, Servers) /\ On(sMap, Servers)
        /\ On(work, Servers) /\ crossed \in [Servers -> BOOLEAN] /\ WorkOf(s) /\ TypeInv
    BY Facts DEF AddressInv, Working, RegistryTypes, ServerTypes, On
  <1>2. work'[s] = NoWork \/ work'[s].at = "none" => WorkOf(s)'
    BY DEF WorkOf, NoWork
  <1>3. CASE \/ \E x \in Servers \ {s} : ServerStep(x)
             \/ \E m \in Modules : ModuleStep(m)
             \/ UNCHANGED vars
    BY <1>1, <1>3, OthersAlone, WorkKept
  <1>4. ASSUME UNCHANGED work, \/ ioTask[s].assigning
                               \/ SrvMsgIs(s, {"MODULE_DECLARE"})
        PROVE  WorkOf(s)'
    <2>1. work[s].at = "none"
      BY <1>1, <1>4 DEF WorkOf, SrvMsgIs, Reports, Idle
    <2> QED
      BY <1>2, <1>4, <2>1
  <1>5. ASSUME UNCHANGED <<work, ioTask, sMap>>, crossed[s] => crossed'[s],
               modules'[s] \subseteq modules[s]
        PROVE  WorkOf(s)'
    BY <1>1, <1>5, WorkKept
  <1>6. CASE SrvStop(s) \/ SrvStart(s)
    BY <1>1, <1>2, <1>6 DEF SrvStop, SrvStart, SrvMemory, On
  <1>7. CASE SrvPython(s)
    <2>1. ASSUME NEW r, Disconnect(s, r)
          PROVE  WorkOf(s)'
      <3>1. crossed' = [crossed EXCEPT ![s] = \/ crossed[s] \/ leaving[s] # <<>>
                                              \/ work[s].at \in {"found", "notified"}]
        BY <2>1 DEF Disconnect
      <3>2. crossed[s] => crossed'[s]
        BY <1>1, <3>1, Zenon
      <3> QED
        BY <1>5, <2>1, <3>2 DEF Disconnect, srvCommVars
    <2>2. EndDisconnect(s) => WorkOf(s)'
      <3>1. EndDisconnect(s) => UNCHANGED <<work, crossed>>
        BY DEF EndDisconnect
      <3> QED
        BY <1>1, <1>5, <3>1, ObjectWorkKeeps, ObjectWorkTypes
    <2>3. CASE Discover(s) \/ SendDiscovery(s) \/ (\E m \in Modules : Connect(s, m))
               \/ \E r \in modules[s] : CallRemote(s, r)
      BY <1>5, <2>3 DEF Discover, SendDiscovery, Connect, CallRemote, registryVars,
         handlerVars, srvCommVars
    <2> QED
      BY <1>7, <2>1, <2>2, <2>3 DEF SrvPython
  <1>8. CASE SrvIO(s) /\ ~ObjectWork(s)
    <2>1. (\E c \in DOMAIN conn : SrvAccept(s, c) \/ \E n : SrvRead(s, c, n))
          \/ (\E m \in Modules : SrvUdpDeclare(s, m)) => work'[s] = NoWork
      BY DEF SrvAccept, SrvRead, SrvUdpDeclare, registryVars, handlerVars
    <2>2. (\E c \in DOMAIN conn : SrvEof(s, c)) \/ HandleModuleShutdown(s)
          \/ HandleExpose(s) \/ HandleDesc(s) \/ HandleValue(s) => work'[s] = NoWork
      BY <1>1 DEF SrvEof, HandleModuleShutdown, HandleExpose, HandleDesc, HandleValue,
         SrvApply, On
    <2>3. HandleDeclareNew(s) \/ AssignModuleID(s) \/ HandleDeclareDuplicate(s)
          => WorkOf(s)'
      BY <1>4 DEF HandleDeclareNew, AssignModuleID, HandleDeclareDuplicate, registryVars,
         handlerVars
    <2> QED
      BY <1>2, <1>8, <2>1, <2>2, <2>3 DEF SrvIO
  <1>9. CASE ObjectWork(s)
    <2>1. UNCHANGED <<ioTask, sMap>>
      BY <1>9, ObjectWorkKeeps
    <2>2. ASSUME NEW c \in DOMAIN conn, FindAtEof(s, c)
          PROVE  WorkOf(s)'
      <3>1. PICK r \in LostWith(s, c) : work' = [work EXCEPT ![s] = Found(r.id, c)]
        BY <2>2 DEF FindAtEof
      <3>2. KeysOf(sMap[s], c) # {} /\ r.id = FirstKey(sMap[s], c) % IdMask
        BY <3>1 DEF LostWith, Named
      <3>3. work'[s] = Found(r.id, c) /\ c # NoConn /\ ioTask[s] = Idle
        BY <1>1, <2>2, <3>1, Facts DEF On, FindAtEof, NoConn
      <3> QED
        BY <2>1, <3>2, <3>3 DEF WorkOf, Found
    <2>3. ASSUME Find(s)
          PROVE  WorkOf(s)'
      <3>1. PICK r \in Named(s, Head(ioTask[s].buf).id) :
                   work' = [work EXCEPT ![s] = Found(r.id, NoConn)]
        BY <2>3 DEF Find
      <3>2. work'[s] = Found(r.id, NoConn) /\ r.id = Head(ioTask[s].buf).id % IdMask
            /\ SrvMsgIs(s, Reports)
        BY <1>1, <2>3, <3>1 DEF On, Find, Named
      <3> QED
        BY <2>1, <3>2 DEF WorkOf, Found, SrvMsgIs
    <2>4. ASSUME NotifyDestroyed(s)
          PROVE  WorkOf(s)'
      <3>1. work' = [work EXCEPT ![s].at = "notified"] /\ work[s].at = "found"
        BY <2>4 DEF NotifyDestroyed
      <3>2. work[s] \in Work
        BY <1>1, Facts DEF RegistryTypes
      <3>3. work'[s].at = "notified" /\ work'[s].id = work[s].id
            /\ work'[s].eof = work[s].eof
        BY <1>1, <3>1, <3>2 DEF On, Work, NoWork
      <3> QED
        BY <1>1, <2>1, <3>1, <3>3 DEF WorkOf, SrvMsgIs
    <2>5. ASSUME EraseAtEof(s)
          PROVE  WorkOf(s)'
      <3>1. /\ work' = [work EXCEPT ![s].at = "erased"] /\ work[s].at = "notified"
            /\ work[s].eof # NoConn /\ UNCHANGED crossed
        BY <2>5 DEF EraseAtEof
      <3>2. work[s] \in Work
        BY <1>1, Facts DEF RegistryTypes
      <3>3. work'[s].at = "erased" /\ work'[s].id = work[s].id
            /\ work'[s].eof = work[s].eof
        BY <1>1, <3>1, <3>2 DEF On, Work, NoWork
      <3>4. ~crossed[s] => \A r \in modules'[s] : r.id # work[s].id
        BY <1>1, <2>5 DEF EraseAtEof, Erased, On
      <3> QED
        BY <1>1, <2>1, <3>1, <3>3, <3>4 DEF WorkOf, SrvMsgIs
    <2> QED
      BY <1>9, <2>2, <2>3, <2>4, <2>5 DEF ObjectWork
  <1> QED
    BY <1>3, <1>6, <1>7, <1>8, <1>9, EachStep DEF ServerStep

LEMMA NextAddress == AddressInv /\ [Next]_vars => AddressInv'
  <1> SUFFICES ASSUME AddressInv, [Next]_vars PROVE AddressInv'
    OBVIOUS
  <1>1. TypeInv'
    BY NextTypes DEF AddressInv
  <1> QED
    BY <1>1, ConfiguredStep, InHandStep, ChannelsStep, AddressedStep, WorkingStep
    DEF AddressInv

LEMMA InitAddress == Init => AddressInv
  <1> SUFFICES ASSUME Init PROVE AddressInv
    OBVIOUS
  <1>1. TypeInv
    BY InitTypes
  <1>2. conn = <<>> /\ DOMAIN conn = {}
    BY DEF Init
  <1>3. Configured /\ InHand /\ Channels
    BY <1>2 DEF Init, Configured, InHand, Channels, Idle, Empty
  <1>4. Addressed
    BY <1>2 DEF Addressed
  <1>5. Working
    BY DEF Init, Working, WorkOf, NoWork
  <1> QED
    BY <1>1, <1>3, <1>4, <1>5 DEF AddressInv

LEMMA AddressAlways == Spec => []AddressInv
  BY InitAddress, NextAddress, PTL DEF Spec

-----------------------------------------------------------------------------
(* A module remembers a server while they share a connection *)

(* The channels a module has mapped are open at its end, a connection that a *)
(* server has not closed is that of a running server, and every server a     *)
(* module knows has a channel.  With messages in hand that last point holds  *)
(* of their sender once the last used channel has been taken.                *)
MappedOpen == \A m \in Modules : \A k \in DOMAIN mMap[m] : conn[mMap[m][k]].mEnd = "open"
EndsUp     == \A c \in DOMAIN conn : conn[c].sEnd # "closed" => sUp[conn[c].srv]
KnownMapped == \A m \in Modules : DOMAIN serverMap[m] \subseteq DOMAIN mMap[m]
HandMapped == \A m \in Modules : modTask[m].buf # <<>> =>
    LET c == modTask[m].conn
    IN /\ conn[c].mEnd = "open"
       /\ mActive[m] = NoConn => ServerID[conn[c].srv] \in DOMAIN mMap[m]
RememberInv == MappedOpen /\ EndsUp /\ KnownMapped /\ HandMapped

LEMMA EndsUpStep ==
    ASSUME AddressInv, TypeInv', [Next]_vars, EndsUp
    PROVE  EndsUp'
  <1> SUFFICES ASSUME NEW c \in DOMAIN conn', conn'[c].sEnd # "closed"
               PROVE  sUp'[conn'[c].srv]
    BY DEF EndsUp
  <1>1. CASE c \notin DOMAIN conn
    BY <1>1, ConfiguredStep DEF NewConn
  <1>2. CASE c \in DOMAIN conn
    <2> DEFINE s == conn[c].srv
    <2>1. conn'[c].srv = s /\ s \in Servers
      BY <1>2, MailStep, Facts, ConnFields DEF AddressInv
    <2>2. conn[c].sEnd # "closed"
      BY <1>2, EachStep, ServerEnds, ModuleEnds DEF SrvEnds, ModEnds, vars
    <2>3. sUp[s] /\ sUp \in [Servers -> BOOLEAN] /\ conn \in Seq(Conn)
      BY <1>2, <2>2, Facts DEF EndsUp, AddressInv, ServerTypes
    <2>4. CASE UNCHANGED sUp
      BY <2>1, <2>3, <2>4
    <2>5. ASSUME NEW x \in Servers, SrvStop(x)
          PROVE  sUp'[conn'[c].srv]
      <3>1. s # x
        BY <1>2, <2>3, <2>5, ClosesEnds DEF SrvStop
      <3>2. sUp' = [sUp EXCEPT ![x] = FALSE]
        BY <2>5 DEF SrvStop, SrvMemory
      <3> QED
        BY <2>1, <2>3, <3>1, <3>2
    <2>6. ASSUME NEW x \in Servers, SrvStart(x)
          PROVE  sUp'[conn'[c].srv]
      <3>1. sUp' = [sUp EXCEPT ![x] = TRUE]
        BY <2>6 DEF SrvStart, SrvMemory
      <3> QED
        BY <2>1, <2>3, <3>1
    <2>7. ASSUME NEW x \in Servers, ServerStep(x), ~SrvStop(x), ~SrvStart(x)
          PROVE  UNCHANGED sUp
      <3>1. CASE SrvIO(x)
        BY <2>7, <3>1, ObjectWorkKeeps DEF SrvIO, SrvAccept, SrvEof, SrvRead, SrvUdpDeclare,
           HandleDeclareNew, AssignModuleID, HandleDeclareDuplicate,
           HandleModuleShutdown, HandleExpose, HandleDesc, HandleValue, SrvApply
      <3>2. CASE ~SrvIO(x)
        BY <2>7, <3>2, ObjectWorkKeeps DEF ServerStep, SrvPython, Discover, SendDiscovery, Connect,
           Disconnect, CallRemote
      <3> QED
        BY <3>1, <3>2
    <2> QED
      BY <2>4, <2>5, <2>6, <2>7, EachStep, ModuleLeaves DEF vars
  <1> QED
    BY <1>1, <1>2

(* The channel that ends is mapped at most once. *)
LEMMA OnlyKey ==
    ASSUME AddressInv, NEW m \in Modules, NEW c, KeysOf(mMap[m], c) # {}
    PROVE  KeysOf(mMap[m], c) = {FirstKey(mMap[m], c)}
  <1>1. \A k \in KeysOf(mMap[m], c) : k = ServerID[conn[c].srv]
    BY HeldFacts DEF KeysOf
  <1>2. PICK k \in KeysOf(mMap[m], c) : TRUE
    OBVIOUS
  <1>3. KeysOf(mMap[m], c) = {k}
    BY <1>1, <1>2
  <1>4. k \in ServerIDs
    BY <1>2, Facts DEF KeysOf, AddressInv, ModuleTypes
  <1>5. k <= k
    BY <1>4 DEF ServerIDs
  <1>6. \A j \in KeysOf(mMap[m], c) : k <= j
    BY <1>3, <1>5
  <1> QED
    BY <1>2, <1>3, <1>6 DEF FirstKey

LEMMA RememberStep ==
    ASSUME AddressInv, TypeInv', [Next]_vars, RememberInv, NEW m \in Modules
    PROVE  /\ \A k \in DOMAIN mMap'[m] : conn'[mMap'[m][k]].mEnd = "open"
           /\ DOMAIN serverMap'[m] \subseteq DOMAIN mMap'[m]
  <1>1. /\ DOMAIN serverMap[m] \subseteq DOMAIN mMap[m]
        /\ \A k \in DOMAIN mMap[m] : /\ mMap[m][k] \in DOMAIN conn
                                     /\ conn[mMap[m][k]].mod = m
                                     /\ conn[mMap[m][k]].mEnd = "open"
    BY HeldFacts DEF RememberInv, MappedOpen, KnownMapped
  <1>2. CASE KeepsMaps(m)
    BY <1>1, <1>2 DEF KeepsMaps
  <1>3. CASE Forgets(m)
    BY <1>1, <1>3 DEF Forgets, Del
  <1>4. CASE Loses(m)
    BY <1>4 DEF Loses, Empty
  <1>5. ASSUME NEW c \in DOMAIN conn, HangsUp(m, c)
        PROVE  /\ \A k \in DOMAIN mMap'[m] : conn'[mMap'[m][k]].mEnd = "open"
               /\ DOMAIN serverMap'[m] \subseteq DOMAIN mMap'[m]
    <2>1. CASE KeysOf(mMap[m], c) = {}
      <3>1. \A k \in DOMAIN mMap[m] : mMap[m][k] # c
        BY <2>1 DEF KeysOf
      <3> QED
        BY <1>1, <1>5, <2>1, <3>1 DEF HangsUp
    <2>2. CASE KeysOf(mMap[m], c) # {}
      <3> DEFINE j == FirstKey(mMap[m], c)
      <3>1. serverMap'[m] = Del(serverMap[m], j) /\ mMap'[m] = Del(mMap[m], j)
        BY <1>5, <2>2 DEF HangsUp
      <3>2. KeysOf(mMap[m], c) = {j}
        BY <2>2, OnlyKey
      <3> HIDE DEF j
      <3>3. \A k \in DOMAIN mMap[m] \ {j} : mMap[m][k] # c
        BY <3>2 DEF KeysOf
      <3>4. /\ DOMAIN serverMap'[m] = DOMAIN serverMap[m] \ {j}
            /\ DOMAIN mMap'[m] = DOMAIN mMap[m] \ {j}
            /\ \A k \in DOMAIN mMap[m] \ {j} : mMap'[m][k] = mMap[m][k]
        BY <3>1 DEF Del
      <3>5. \A d \in DOMAIN conn \ {c} : conn'[d].mEnd = conn[d].mEnd
        BY <1>5 DEF HangsUp
      <3> QED
        BY <1>1, <3>3, <3>4, <3>5
    <2> QED
      BY <2>1, <2>2
  <1>6. ASSUME NEW k, NEW i, NEW c, Learns(m, k, i, c)
        PROVE  /\ \A j \in DOMAIN mMap'[m] : conn'[mMap'[m][j]].mEnd = "open"
               /\ DOMAIN serverMap'[m] \subseteq DOMAIN mMap'[m]
    <2>1. \A d \in DOMAIN conn : conn'[d].mEnd = conn[d].mEnd
      BY <1>6 DEF Learns
    <2>2. DOMAIN serverMap'[m] = DOMAIN serverMap[m] \cup {k}
      BY <1>6 DEF Learns, Put
    <2>3. CASE c = NoConn
      <3>1. modTask[m].buf # <<>> /\ Head(modTask[m].buf).sid = k /\ mActive[m] = NoConn
        <4>1. NoConn \notin DOMAIN conn'
          BY Facts DEF TypeInv, TypeOK, NetworkTypes, NoConn
        <4> QED
          BY <1>6, <2>3, <4>1 DEF Learns
      <3>2. k \in DOMAIN mMap[m]
        BY <3>1, ModInHand DEF RememberInv, HandMapped
      <3> QED
        BY <1>1, <1>6, <2>1, <2>2, <2>3, <3>2 DEF Learns
    <2>4. CASE c # NoConn
      <3>1. mMap'[m] = Put(mMap[m], k, c)
        BY <1>6, <2>4 DEF Learns
      <3>2. conn'[c].mEnd = "open"
        <4>1. CASE modTask[m].buf # <<>> /\ c = mActive[m]
          <5>1. c = modTask[m].conn /\ c \in DOMAIN conn
            BY <2>4, <4>1, ModInHand
          <5>2. conn[c].mEnd = "open"
            BY <4>1, <5>1 DEF RememberInv, HandMapped
          <5> QED
            BY <2>1, <5>1, <5>2
        <4> QED
          BY <1>6, <4>1 DEF Learns
      <3>3. /\ DOMAIN mMap'[m] = DOMAIN mMap[m] \cup {k} /\ mMap'[m][k] = c
            /\ \A j \in DOMAIN mMap[m] : j # k => mMap'[m][j] = mMap[m][j]
        BY <3>1 DEF Put
      <3> QED
        BY <1>1, <2>1, <2>2, <3>2, <3>3
    <2> QED
      BY <2>3, <2>4
  <1> QED
    BY <1>2, <1>3, <1>4, <1>5, <1>6, MapSteps DEF MapStep

LEMMA HandMappedStep ==
    ASSUME AddressInv, TypeInv', [Next]_vars, RememberInv
    PROVE  HandMapped'
  <1> SUFFICES ASSUME NEW m \in Modules, modTask'[m].buf # <<>>
               PROVE  LET c == modTask'[m].conn
                      IN /\ conn'[c].mEnd = "open"
                         /\ mActive'[m] = NoConn =>
                              ServerID[conn'[c].srv] \in DOMAIN mMap'[m]
    BY DEF HandMapped
  <1> DEFINE c == modTask'[m].conn
  <1>1. Idle.buf = <<>> /\ NoConn \notin DOMAIN conn
    BY Facts DEF Idle, AddressInv, NoConn
  <1>2. \/ KeepsMaps(m) \/ Forgets(m)
        \/ modTask[m].buf = <<>> /\ \A d \in DOMAIN conn : conn'[d].mEnd = conn[d].mEnd
        \/ \E k, i : /\ Learns(m, k, i, mActive[m])
                     /\ modTask[m].buf # <<>> /\ Head(modTask[m].buf).sid = k
    BY <1>1, MapSteps DEF MapStep, Loses, HangsUp, Learns
  <1>3. CASE /\ modTask[m].buf # <<>> /\ c = modTask[m].conn
             /\ mActive'[m] \in {NoConn, mActive[m]}
    <2>1. /\ c \in DOMAIN conn /\ conn[c].mod = m /\ conn[c].mEnd = "open"
          /\ mActive[m] = NoConn => ServerID[conn[c].srv] \in DOMAIN mMap[m]
          /\ Head(modTask[m].buf).sid = ServerID[conn[c].srv]
          /\ conn'[c].srv = conn[c].srv
      BY <1>3, ModInHand, MailStep DEF RememberInv, HandMapped
    <2>2. CASE KeepsMaps(m)
      BY <1>3, <2>1, <2>2 DEF KeepsMaps
    <2>3. CASE Forgets(m)
      BY <1>3, <2>1, <2>3 DEF Forgets
    <2>4. ASSUME NEW k, NEW i, Learns(m, k, i, mActive[m]), Head(modTask[m].buf).sid = k
          PROVE  /\ conn'[c].mEnd = "open" /\ ServerID[conn'[c].srv] \in DOMAIN mMap'[m]
      <3>1. conn'[c].mEnd = "open"
        BY <2>1, <2>4 DEF Learns
      <3>2. k = ServerID[conn'[c].srv]
        BY <2>1, <2>4
      <3>3. CASE mActive[m] = NoConn
        BY <2>1, <2>4, <3>1, <3>2, <3>3 DEF Learns
      <3>4. CASE mActive[m] # NoConn
        BY <2>4, <3>1, <3>2, <3>4 DEF Learns, Put
      <3> QED
        BY <3>3, <3>4
    <2>5. CASE \E k, i : Learns(m, k, i, mActive[m]) /\ Head(modTask[m].buf).sid = k
      BY <2>4, <2>5
    <2> QED
      BY <1>2, <1>3, <2>2, <2>3, <2>5
  <1>4. CASE c \in DOMAIN conn /\ conn[c].mod = m /\ conn[c].mEnd = "open"
             /\ mActive'[m] = c
    <2>1. conn'[c].mEnd = "open"
      BY <1>2, <1>4 DEF KeepsMaps, Forgets, Learns
    <2> QED
      BY <1>1, <1>4, <2>1
  <1>5. ModHand(m)
    BY ModHands DEF AddressInv
  <1> QED
    BY <1>3, <1>4, <1>5 DEF ModHand

LEMMA NextRemember ==
    AddressInv /\ RememberInv /\ [Next]_vars => AddressInv' /\ RememberInv'
  <1> SUFFICES ASSUME AddressInv, RememberInv, [Next]_vars
               PROVE  AddressInv' /\ RememberInv'
    OBVIOUS
  <1>1. AddressInv' /\ TypeInv'
    BY NextAddress DEF AddressInv
  <1>2. EndsUp'
    BY <1>1, EndsUpStep DEF RememberInv
  <1>3. MappedOpen' /\ KnownMapped'
    BY <1>1, RememberStep DEF MappedOpen, KnownMapped
  <1>4. HandMapped'
    BY <1>1, HandMappedStep
  <1> QED
    BY <1>1, <1>2, <1>3, <1>4 DEF RememberInv

LEMMA RememberAlways == Spec => [](AddressInv /\ RememberInv)
  <1>1. Init => RememberInv
    BY DEF Init, RememberInv, MappedOpen, EndsUp, KnownMapped, HandMapped, Idle, Empty
  <1> QED
    BY <1>1, InitAddress, NextRemember, PTL DEF Spec

\* When everything has been processed, a module remembers a server only while
\* it shares an open connection with that server, which still runs: an entry
\* of serverMap_ and its channel are made and dropped together
\* (objCommChannelShutdown and the handler of SERVER_SHUTDOWN).
THEOREM RememberedServersRun == Spec => []QuietServers
  <1>1. AddressInv /\ RememberInv => QuietServers
    <2> SUFFICES ASSUME AddressInv, RememberInv, Quiet,
                        NEW m \in Modules, NEW k \in DOMAIN serverMap[m]
                 PROVE  /\ k \in DOMAIN mMap[m]
                        /\ LET c == conn[mMap[m][k]] IN
                           c.mEnd = "open" /\ sUp[c.srv] /\ ServerID[c.srv] = k
      BY DEF QuietServers
    <2>1. k \in DOMAIN mMap[m]
      BY DEF RememberInv, KnownMapped
    <2>2. /\ mMap[m][k] \in DOMAIN conn /\ ServerID[conn[mMap[m][k]].srv] = k
          /\ conn[mMap[m][k]].mEnd = "open"
      BY <2>1, HeldFacts DEF RememberInv, MappedOpen
    <2>3. conn[mMap[m][k]].sEnd # "closed"
      BY <2>2 DEF Quiet
    <2> QED
      BY <2>1, <2>2, <2>3 DEF RememberInv, EndsUp
  <1> QED
    BY <1>1, RememberAlways, PTL


-----------------------------------------------------------------------------
(* Where objects, and what is in hand of a server, come from *)

(* An object after a step: one of before, to which the message in hand may   *)
(* have been applied, or the one that the declaration in hand makes.         *)
Same(r, o) == r.id = o.id /\ r.name = o.name /\ r.proc = o.proc
Heard(s, r, o) ==
    \/ r.heard = o.heard
    \/ LET x == Head(ioTask[s].buf)
       IN /\ ioTask[s].buf # <<>> /\ x.type # "MODULE_DECLARE"
          /\ r.id = x.id % IdMask /\ r.heard = o.heard \cup {x.from}
Declared(s, r) ==
    LET x == Head(ioTask[s].buf)
    IN /\ ioTask[s].buf # <<>> /\ x.type = "MODULE_DECLARE" /\ ~ioTask[s].assigning
       /\ r.id = nextObjId[s] /\ r.name = Name[x.from] /\ r.proc = x.from
       /\ r.heard = {} /\ ioTask'[s].assigning
ObjectsFrom(s) == \A r \in modules'[s] :
    (\E o \in modules[s] : Same(r, o) /\ Heard(s, r, o)) \/ Declared(s, r)
TaskFrom(s) == ioTask'[s].assigning =>
    /\ ioTask[s].buf # <<>> /\ Head(ioTask[s].buf).type = "MODULE_DECLARE"
    /\ ioTask'[s].buf = ioTask[s].buf /\ nextObjId'[s] = nextObjId[s]

LEMMA ObjectsFromSteps ==
    ASSUME AddressInv, [Next]_vars
    PROVE  \A s \in Servers : ObjectsFrom(s) /\ TaskFrom(s)
  <1> SUFFICES ASSUME NEW s \in Servers PROVE ObjectsFrom(s) /\ TaskFrom(s)
    OBVIOUS
  <1>1. /\ On(modules, Servers) /\ On(ioTask, Servers)
        /\ ioTask[s] \in Task(SrvMsg) /\ modules[s] \subseteq ModuleRec
        /\ TypeInv /\ WorkOf(s)
    BY Facts DEF AddressInv, Working, RegistryTypes, ServerTypes, On
  <1>2. ioTask'[s].assigning = FALSE => TaskFrom(s)
    BY DEF TaskFrom
  <1>3. ioTask'[s] = ioTask[s] /\ nextObjId'[s] = nextObjId[s] => TaskFrom(s)
    BY <1>1, Facts DEF TaskFrom, Assigning
  <1>4. modules'[s] \subseteq modules[s] => ObjectsFrom(s)
    BY DEF ObjectsFrom, Same, Heard
  <1>5. CASE \/ \E x \in Servers \ {s} : ServerStep(x)
             \/ \E m \in Modules : ModuleStep(m)
             \/ UNCHANGED vars
    BY <1>1, <1>3, <1>4, <1>5, OthersAlone
  <1>6. CASE ServerStep(s)
    <2>1. ASSUME UNCHANGED <<registryVars, ioTask>>
          PROVE  ObjectsFrom(s) /\ TaskFrom(s)
      BY <1>3, <1>4, <2>1 DEF registryVars
    <2>2. (\E c \in DOMAIN conn : SrvAccept(s, c)) \/ Discover(s) \/ SendDiscovery(s)
          \/ (\E m \in Modules : Connect(s, m)) \/ (\E r \in modules[s] : CallRemote(s, r))
          => UNCHANGED <<registryVars, ioTask>>
      BY DEF SrvAccept, Discover, SendDiscovery, Connect, CallRemote
    <2>3. ASSUME UNCHANGED modules, NEW t, ioTask' = [ioTask EXCEPT ![s] = t],
                 t.assigning = FALSE
          PROVE  ObjectsFrom(s) /\ TaskFrom(s)
      BY <1>1, <1>2, <1>4, <2>3 DEF On
    <2>4. Rest(ioTask[s]).assigning = FALSE
      BY <1>1, NotAssigning
    <2>5. ASSUME NEW c, NEW n, SrvRead(s, c, n)
          PROVE  ObjectsFrom(s) /\ TaskFrom(s)
      <3>1. UNCHANGED modules
            /\ ioTask' = [ioTask EXCEPT ![s] = Reading(c, SubSeq(conn[c].toSrv, 1, n))]
        BY <2>5 DEF SrvRead, registryVars
      <3> QED
        BY <2>3, <3>1, NotAssigning
    <2>6. ASSUME NEW m \in Modules, SrvUdpDeclare(s, m)
          PROVE  ObjectsFrom(s) /\ TaskFrom(s)
      <3> DEFINE t == [Reading(Len(conn) + 1, <<Declare(m)>>) EXCEPT !.udp = TRUE]
      <3>1. t.assigning = FALSE
        BY DEF Reading
      <3>2. /\ UNCHANGED registryVars
            /\ ioTask' = [ioTask EXCEPT ![s] = t] \/ UNCHANGED ioTask
        BY <2>6 DEF SrvUdpDeclare
      <3> QED
        BY <2>1, <2>3, <3>1, <3>2 DEF registryVars
    <2>7. AssignModuleID(s) \/ HandleDeclareDuplicate(s) => ObjectsFrom(s) /\ TaskFrom(s)
      BY <2>3, <2>4 DEF AssignModuleID, HandleDeclareDuplicate, registryVars
    <2>8. \A i : \A R \in Erased(s, i) : R \subseteq modules[s]
      BY <1>1, Facts, ErasedTypes
    <2>9. ASSUME NEW c \in DOMAIN conn, SrvEof(s, c)
          PROVE  ObjectsFrom(s) /\ TaskFrom(s)
      BY <1>3, <1>4, <2>9 DEF SrvEof
    <2>10. ASSUME HandleModuleShutdown(s)
           PROVE  ObjectsFrom(s) /\ TaskFrom(s)
      <3>1. modules'[s] \subseteq modules[s]
        BY <1>1, <2>8, <2>10 DEF HandleModuleShutdown, On
      <3>2. ioTask'[s].assigning = FALSE
        BY <1>1, <2>4, <2>10 DEF HandleModuleShutdown, On
      <3> QED
        BY <1>2, <1>4, <3>1, <3>2
    <2>11. ASSUME NEW r \in modules[s], Disconnect(s, r)
           PROVE  ObjectsFrom(s) /\ TaskFrom(s)
      BY <1>3, <1>4, <2>11 DEF Disconnect
    <2>16. ASSUME ObjectWork(s) \/ EndDisconnect(s)
           PROVE  ObjectsFrom(s) /\ TaskFrom(s)
      BY <1>1, <1>3, <1>4, <2>16, ObjectWorkKeeps, ObjectWorkTypes
    <2>12. ASSUME NEW types, "MODULE_DECLARE" \notin types, SrvApply(s, types)
           PROVE  ObjectsFrom(s) /\ TaskFrom(s)
      <3> DEFINE x == Head(ioTask[s].buf)
      <3>1. ioTask' = [ioTask EXCEPT ![s] = Rest(ioTask[s])]
            /\ ioTask[s].buf # <<>> /\ x.type # "MODULE_DECLARE"
        BY <2>12 DEF SrvApply, SrvMsgIs
      <3>2. TaskFrom(s)
        BY <1>1, <1>2, <2>4, <3>1 DEF On
      <3>3. CASE UNCHANGED modules
        BY <1>4, <3>2, <3>3
      <3>4. CASE work[s].at = "found" /\ ~UNCHANGED modules
        <4>1. modules' = [modules EXCEPT ![s] =
                 {IF o.id = work[s].id THEN Applied(o, x) ELSE o : o \in modules[s]}]
          BY <2>12, <3>4 DEF SrvApply, FindsNothing, NoWork
        <4>2. work[s].eof = NoConn => work[s].id = x.id % IdMask
          BY <1>1, <3>4 DEF WorkOf
        <4>3. work[s].id = x.id % IdMask
          BY <1>1, <3>1, <3>4, <4>2 DEF WorkOf, Idle
        <4>4. \A o \in modules[s] : /\ Applied(o, x).id = o.id /\ Applied(o, x).name = o.name
                                    /\ Applied(o, x).proc = o.proc
                                    /\ Applied(o, x).heard = o.heard \cup {x.from}
          <5> TAKE o \in modules[s]
          <5>1. o \in ModuleRec
            BY <1>1
          <5> QED
            BY <5>1 DEF Applied, ModuleRec
        <4>5. ASSUME NEW q \in modules'[s]
              PROVE  \E o \in modules[s] : Same(q, o) /\ Heard(s, q, o)
          <5>1. PICK o \in modules[s] : q = IF o.id = work[s].id THEN Applied(o, x) ELSE o
            BY <1>1, <4>1 DEF On
          <5>2. CASE o.id = work[s].id
            BY <3>1, <4>3, <4>4, <5>1, <5>2 DEF Same, Heard
          <5>3. CASE o.id # work[s].id
            BY <5>1, <5>3 DEF Same, Heard
          <5> QED
            BY <5>2, <5>3
        <4> QED
          BY <3>2, <4>5 DEF ObjectsFrom
      <3> QED
        BY <2>12, <3>2, <3>3, <3>4 DEF SrvApply
    <2>13. HandleExpose(s) \/ HandleDesc(s) \/ HandleValue(s) => ObjectsFrom(s) /\ TaskFrom(s)
      BY <2>12 DEF HandleExpose, HandleDesc, HandleValue
    <2>14. ASSUME HandleDeclareNew(s)
           PROVE  ObjectsFrom(s) /\ TaskFrom(s)
      <3> DEFINE x == Head(ioTask[s].buf)
                 t == [ioTask[s] EXCEPT !.assigning = TRUE]
                 q == [id |-> nextObjId[s], name |-> Name[x.from], proc |-> x.from,
                       exposed |-> 0, described |-> FALSE, heard |-> {}]
      <3>1. CASE UNCHANGED modules /\ ioTask' = [ioTask EXCEPT ![s] = Rest(ioTask[s])]
        BY <2>3, <2>4, <3>1
      <3>2. CASE /\ modules' = [modules EXCEPT ![s] = modules[s] \cup {q}]
                 /\ ioTask' = [ioTask EXCEPT ![s] = t]
        <4>1. /\ ioTask[s].buf # <<>> /\ x.type = "MODULE_DECLARE" /\ ~ioTask[s].assigning
              /\ nextObjId' = nextObjId
          BY <2>14 DEF HandleDeclareNew, SrvMsgIs
        <4>2. ioTask'[s] = t /\ modules'[s] = modules[s] \cup {q}
          BY <1>1, <3>2 DEF On
        <4>3. t.assigning /\ t.buf = ioTask[s].buf
          BY <1>1 DEF Task
        <4>4. Declared(s, q)
          BY <4>1, <4>2, <4>3 DEF Declared
        <4>5. \A o \in modules[s] : Same(o, o) /\ Heard(s, o, o)
          BY DEF Same, Heard
        <4> QED
          BY <4>1, <4>2, <4>3, <4>4, <4>5 DEF ObjectsFrom, TaskFrom
      <3> QED
        BY <2>14, <3>1, <3>2 DEF HandleDeclareNew
    <2>15. SrvStop(s) \/ SrvStart(s) => ObjectsFrom(s) /\ TaskFrom(s)
      <3> SUFFICES ASSUME SrvStop(s) \/ SrvStart(s) PROVE ObjectsFrom(s) /\ TaskFrom(s)
        OBVIOUS
      <3>1. modules'[s] = {} /\ ioTask'[s] = Idle
        BY <1>1 DEF SrvStop, SrvStart, SrvMemory, On
      <3> QED
        BY <1>2, <1>4, <3>1, NotAssigning
    <2> QED
      BY <1>6, <2>1, <2>2, <2>5, <2>6, <2>7, <2>9, <2>10, <2>11, <2>13, <2>14, <2>15, <2>16
      DEF ServerStep, SrvIO, SrvPython
  <1> QED
    BY <1>5, <1>6, EachStep

-----------------------------------------------------------------------------
(* The channel of an object leads to the process that declared it *)

(* Without connect(), and without discover() over IPC, no other thread makes *)
(* a channel the last used one while the IO thread has messages in hand, and *)
(* only the handler of a message uses it up.                                 *)
ActiveStep(s) ==
    \/ ioTask'[s].buf = <<>>
    \/ /\ ioTask[s].buf # <<>> /\ ioTask'[s].conn = ioTask[s].conn
       /\ sActive'[s] \in {NoConn, sActive[s]}
       /\ sActive'[s] = sActive[s] \/ ioTask'[s] = Rest(ioTask[s])
    \/ sActive'[s] = ioTask'[s].conn

LEMMA ActiveSteps ==
    ASSUME AddressInv, TypeInv', [Next]_vars, ~Dials
    PROVE  \A s \in Servers : ActiveStep(s)
  <1> SUFFICES ASSUME NEW s \in Servers PROVE ActiveStep(s)
    OBVIOUS
  <1>1. /\ On(sActive, Servers) /\ On(ioTask, Servers) /\ ioTask[s] \in Task(SrvMsg)
    BY Facts DEF AddressInv, ServerTypes, On
  <1>2. ASSUME sActive'[s] = sActive[s], ioTask'[s] = ioTask[s]
        PROVE  ActiveStep(s)
    BY <1>2 DEF ActiveStep
  <1>3. CASE \/ \E x \in Servers \ {s} : ServerStep(x)
             \/ \E m \in Modules : ModuleStep(m)
             \/ UNCHANGED vars
    BY <1>2, <1>3, OthersAlone DEF AddressInv
  <1>4. CASE ServerStep(s)
    <2>1. (\E c \in DOMAIN conn : SrvEof(s, c))
          \/ (\E r \in modules[s] : Disconnect(s, r) \/ CallRemote(s, r))
          \/ ObjectWork(s) \/ EndDisconnect(s)
          => UNCHANGED <<ioTask, sActive>>
      BY ObjectWorkKeeps DEF SrvEof, Disconnect, CallRemote, srvCommVars
    <2>2. (\E c \in DOMAIN conn : SrvAccept(s, c)) => ActiveStep(s)
      BY DEF SrvAccept, ActiveStep, Idle
    <2>3. ~SendDiscovery(s)
      BY DEF SendDiscovery, AddressInv, Configured, Dials
    <2>4. \A m \in Modules : ~Connect(s, m)
      BY DEF Connect, Op, Dials
    <2>5. Discover(s) => UNCHANGED <<ioTask, sActive>>
      <3> SUFFICES ASSUME Discover(s) PROVE UNCHANGED <<ioTask, sActive>>
        OBVIOUS
      <3>1. PICK all \in Seq(Conn), used \in SUBSET Nat : Discovered(s, all, used)
        BY DiscoverShape DEF AddressInv
      <3>2. used # {} => Dials
        BY <3>1 DEF Dials, AddressInv, Configured, Discovered
      <3>3. UNCHANGED sActive
        BY <3>1, <3>2 DEF Discovered
      <3> QED
        BY <3>3 DEF Discover
    <2>6. ASSUME NEW c, NEW n, SrvRead(s, c, n)
          PROVE  ActiveStep(s)
      <3>1. /\ ioTask' = [ioTask EXCEPT ![s] = Reading(c, SubSeq(conn[c].toSrv, 1, n))]
            /\ sActive' = [sActive EXCEPT ![s] = c]
        BY <2>6 DEF SrvRead
      <3>2. ioTask'[s].conn = c /\ sActive'[s] = c
        BY <1>1, <3>1 DEF On, Reading
      <3> QED
        BY <3>2 DEF ActiveStep
    <2>7. ASSUME NEW m \in Modules, SrvUdpDeclare(s, m)
          PROVE  ActiveStep(s)
      <3> DEFINE t == [Reading(Len(conn) + 1, <<Declare(m)>>) EXCEPT !.udp = TRUE]
      <3>1. \/ UNCHANGED <<ioTask, sActive>>
            \/ /\ ioTask' = [ioTask EXCEPT ![s] = t]
               /\ sActive' = [sActive EXCEPT ![s] = Len(conn) + 1]
        BY <2>7 DEF SrvUdpDeclare
      <3>2. t.conn = Len(conn) + 1
        BY DEF Reading
      <3> HIDE DEF t
      <3> QED
        BY <1>1, <1>2, <3>1, <3>2 DEF On, ActiveStep
    <2>8. ASSUME ioTask[s].buf # <<>>, ioTask' = [ioTask EXCEPT ![s] = Rest(ioTask[s])],
                 sActive' \in {sActive, [sActive EXCEPT ![s] = NoConn]}
          PROVE  ActiveStep(s)
      <3>1. ioTask'[s] = Rest(ioTask[s]) /\ sActive'[s] \in {NoConn, sActive[s]}
        BY <1>1, <2>8 DEF On
      <3>2. Rest(ioTask[s]).buf = <<>> \/ Rest(ioTask[s]).conn = ioTask[s].conn
        BY <1>1, <2>8, RestHand
      <3> QED
        BY <2>8, <3>1, <3>2 DEF ActiveStep
    <2>9. HandleDeclareDuplicate(s) \/ HandleModuleShutdown(s)
          \/ HandleExpose(s) \/ HandleDesc(s) \/ HandleValue(s) => ActiveStep(s)
      BY <2>8 DEF HandleDeclareDuplicate, HandleModuleShutdown, HandleExpose, HandleDesc,
         HandleValue, SrvApply, SrvMsgIs, srvCommVars
    <2>10. AssignModuleID(s) => ActiveStep(s)
      <3>1. AssignModuleID(s) => ioTask[s].buf # <<>>
        BY Facts DEF AddressInv, Assigning, AssignModuleID
      <3> QED
        BY <2>8, <3>1 DEF AssignModuleID
    <2>11. ASSUME HandleDeclareNew(s)
           PROVE  ActiveStep(s)
      <3> DEFINE t == [ioTask[s] EXCEPT !.assigning = TRUE]
      <3>1. /\ ioTask[s].buf # <<>> /\ UNCHANGED sActive
            /\ \/ ioTask' = [ioTask EXCEPT ![s] = Rest(ioTask[s])]
               \/ ioTask' = [ioTask EXCEPT ![s] = t]
        BY <2>11 DEF HandleDeclareNew, SrvMsgIs, srvCommVars
      <3>2. t.conn = ioTask[s].conn
        BY <1>1 DEF Task
      <3> HIDE DEF t
      <3>3. CASE ioTask' = [ioTask EXCEPT ![s] = t]
        <4>1. ioTask'[s] = t /\ sActive'[s] = sActive[s]
          BY <1>1, <3>1, <3>3 DEF On
        <4> QED
          BY <3>1, <3>2, <4>1 DEF ActiveStep
      <3> QED
        BY <2>8, <3>1, <3>3
    <2>12. SrvStop(s) \/ SrvStart(s) => ActiveStep(s)
      <3> SUFFICES ASSUME SrvStop(s) \/ SrvStart(s) PROVE ActiveStep(s)
        OBVIOUS
      <3>1. ioTask'[s] = Idle
        BY <1>1 DEF SrvStop, SrvStart, SrvMemory, On
      <3> QED
        BY <3>1 DEF ActiveStep, Idle
    <2>13. UNCHANGED <<ioTask, sActive>> => ActiveStep(s)
      BY <1>2
    <2> QED
      BY <1>4, <2>1, <2>2, <2>3, <2>4, <2>5, <2>6, <2>7, <2>9, <2>10, <2>11, <2>12, <2>13
      DEF ServerStep, SrvIO, SrvPython
  <1> QED
    BY <1>3, <1>4, EachStep

(* Ids that are mapped have been given out, and were before the object whose *)
(* id is being assigned; the channel an id will be mapped to is the one its  *)
(* declaration came by.                                                      *)
MappedBelow == \A s \in Servers : \A i \in DOMAIN sMap[s] : i < nextObjId[s]
ActiveInHand == \A s \in Servers :
    ioTask[s].buf # <<>> => sActive[s] \in {NoConn, ioTask[s].conn}
AssigningItsOwn == \A s \in Servers : ioTask[s].assigning =>
    \A r \in modules[s] : r.id = nextObjId[s] => r.proc = Head(ioTask[s].buf).from
HomeInv == MappedBelow /\ ActiveInHand /\ AssigningItsOwn /\ ChannelLeadsHome

LEMMA MappedBelowStep ==
    ASSUME AddressInv, TypeInv', [Next]_vars, MappedBelow
    PROVE  MappedBelow'
  <1> SUFFICES ASSUME NEW s \in Servers, NEW i \in DOMAIN sMap'[s]
               PROVE  i < nextObjId'[s]
    BY DEF MappedBelow
  <1>1. nextObjId[s] \in Int /\ nextObjId'[s] \in Int
    <2>1. /\ nextObjId[s] \in FirstId..MaxModuleId + 1
          /\ nextObjId'[s] \in FirstId..MaxModuleId + 1
      BY DEF AddressInv, TypeInv, TypeOK, RegistryTypes
    <2> QED
      BY <2>1, ConstantsAssumption
  <1>2. \A j \in DOMAIN sMap[s] : j \in Int /\ j < nextObjId[s]
    <2>1. DOMAIN sMap[s] \subseteq Ids
      BY Facts DEF AddressInv, ServerTypes
    <2> QED
      BY <2>1, ConstantsAssumption DEF Ids, MappedBelow
  <1>3. SrvMapStep(s)
    BY SrvMapSteps
  <1>4. CASE sMap'[s] = sMap[s] /\ nextObjId'[s] >= nextObjId[s]
    BY <1>1, <1>2, <1>4
  <1>5. CASE sMap'[s] = Empty
    BY <1>5 DEF Empty
  <1>6. CASE (\E k : sMap'[s] = Del(sMap[s], k)) /\ nextObjId'[s] = nextObjId[s]
    BY <1>2, <1>6 DEF Del
  <1>7. CASE Assigns(s)
    <2>1. i \in DOMAIN sMap[s] \/ i = nextObjId[s]
      BY <1>7 DEF Assigns, Put
    <2>2. nextObjId'[s] = nextObjId[s] + 1
      BY <1>7 DEF Assigns
    <2> QED
      BY <1>1, <1>2, <2>1, <2>2
  <1> QED
    BY <1>3, <1>4, <1>5, <1>6, <1>7 DEF SrvMapStep

(* The ids of objects are known, and below the next unless being assigned. *)
LEMMA ObjectsBelow ==
    ASSUME TypeInv, ObjectsInv, NEW s \in Servers
    PROVE  /\ nextObjId[s] \in Int
           /\ \A r \in modules[s] :
                 /\ r.id \in Int
                 /\ r.id < nextObjId[s] \/ (ioTask[s].assigning /\ r.id = nextObjId[s])
  <1>1. nextObjId[s] \in Int
    BY SameAs
  <1>2. \A r \in modules[s] : r.id \in Int /\ r.id <= Top(s)
    <2>1. \A r \in modules[s] : r.id \in Ids
      BY Facts DEF ModuleRec
    <2> QED
      BY <2>1, ConstantsAssumption DEF Ids, ObjectsInv, ObjectInv, Below
  <1> QED
    BY <1>1, <1>2 DEF Top

LEMMA AssigningStep ==
    ASSUME AddressInv, ObjectsInv, [Next]_vars, AssigningItsOwn
    PROVE  AssigningItsOwn'
  <1> SUFFICES ASSUME NEW s \in Servers, ioTask'[s].assigning,
                      NEW r \in modules'[s], r.id = nextObjId'[s]
               PROVE  r.proc = Head(ioTask'[s].buf).from
    BY DEF AssigningItsOwn
  <1>1. ObjectsFrom(s) /\ TaskFrom(s)
    BY ObjectsFromSteps DEF AddressInv
  <1>2. ioTask'[s].buf = ioTask[s].buf /\ nextObjId'[s] = nextObjId[s]
    BY <1>1 DEF TaskFrom
  <1>3. CASE Declared(s, r)
    BY <1>2, <1>3 DEF Declared
  <1>4. ASSUME NEW o \in modules[s], Same(r, o)
        PROVE  r.proc = Head(ioTask'[s].buf).from
    <2>1. o.id = nextObjId[s] /\ o.proc = r.proc
      BY <1>2, <1>4 DEF Same
    <2>2. ioTask[s].assigning
      BY <2>1, ObjectsBelow DEF AddressInv
    <2> QED
      BY <1>2, <2>1, <2>2 DEF AssigningItsOwn
  <1> QED
    BY <1>1, <1>3, <1>4 DEF ObjectsFrom

LEMMA HomeStep ==
    ASSUME AddressInv, TypeInv', ObjectsInv, [Next]_vars, HomeInv
    PROVE  ChannelLeadsHome'
  <1> SUFFICES ASSUME NEW s \in Servers, NEW r \in modules'[s], r.id \in DOMAIN sMap'[s]
               PROVE  conn'[sMap'[s][r.id]].mod = r.proc
    BY DEF ChannelLeadsHome
  <1>1. ObjectsFrom(s) /\ SrvMapStep(s)
    BY ObjectsFromSteps, SrvMapSteps DEF AddressInv
  <1>2. \A c \in DOMAIN conn : conn'[c].mod = conn[c].mod
    BY MailStep
  <1>3. /\ \A i \in DOMAIN sMap[s] : sMap[s][i] \in DOMAIN conn
        /\ sActive[s] \in {NoConn} \cup DOMAIN conn /\ nextObjId[s] \in Int
    BY Facts, SameAs DEF AddressInv, ServerTypes
  <1>4. CASE Declared(s, r)
    <2>1. r.id = nextObjId[s] /\ ~ioTask[s].assigning
      BY <1>4 DEF Declared
    <2>2. r.id \notin DOMAIN sMap[s]
      BY <1>3, <2>1 DEF HomeInv, MappedBelow
    <2>3. modules'[s] # {}
      OBVIOUS
    <2> QED
      BY <1>1, <2>1, <2>2, <2>3 DEF SrvMapStep, Assigns, Del
  <1>5. ASSUME NEW o \in modules[s], Same(r, o)
        PROVE  conn'[sMap'[s][r.id]].mod = r.proc
    <2>1. r.id = o.id /\ r.proc = o.proc
      BY <1>5 DEF Same
    <2>2. ASSUME r.id \in DOMAIN sMap[s], sMap'[s][r.id] = sMap[s][r.id]
          PROVE  conn'[sMap'[s][r.id]].mod = r.proc
      BY <1>2, <1>3, <2>1, <2>2 DEF HomeInv, ChannelLeadsHome
    <2>3. CASE sMap'[s] = sMap[s] \/ \E k : sMap'[s] = Del(sMap[s], k)
      BY <2>2, <2>3 DEF Del
    <2>4. CASE sMap'[s] = Empty
      BY <2>4 DEF Empty
    <2>5. CASE Assigns(s) /\ r.id # nextObjId[s]
      BY <2>2, <2>5 DEF Assigns, Put
    <2>6. CASE Assigns(s) /\ r.id = nextObjId[s]
      <3>1. ioTask[s].buf # <<>>
        BY <2>6, Facts DEF Assigns, Assigning, AddressInv
      <3>2. sMap'[s][r.id] = ioTask[s].conn
        BY <2>6, <3>1 DEF Assigns, Put, HomeInv, ActiveInHand
      <3>3. o.proc = Head(ioTask[s].buf).from
        BY <2>1, <2>6 DEF Assigns, HomeInv, AssigningItsOwn
      <3>4. ioTask[s].conn \in DOMAIN conn
            /\ Head(ioTask[s].buf).from = conn[ioTask[s].conn].mod
        BY <3>1, SrvInHand
      <3> QED
        BY <1>2, <2>1, <3>2, <3>3, <3>4
    <2> QED
      BY <1>1, <2>3, <2>4, <2>5, <2>6 DEF SrvMapStep
  <1> QED
    BY <1>1, <1>4, <1>5 DEF ObjectsFrom

LEMMA NextHome ==
    AddressInv /\ ObjectsInv /\ HomeInv /\ [Next]_vars /\ ~Dials
        => AddressInv' /\ ObjectsInv' /\ HomeInv'
  <1> SUFFICES ASSUME AddressInv, ObjectsInv, HomeInv, [Next]_vars, ~Dials
               PROVE  AddressInv' /\ ObjectsInv' /\ HomeInv'
    OBVIOUS
  <1>1. AddressInv' /\ TypeInv' /\ ObjectsInv'
    BY NextAddress, NextObjects DEF AddressInv
  <1>2. ActiveInHand'
    <2>1. \A s \in Servers : ActiveStep(s)
      BY <1>1, ActiveSteps
    <2> QED
      BY <2>1 DEF ActiveStep, HomeInv, ActiveInHand
  <1> QED
    BY <1>1, <1>2, MappedBelowStep, AssigningStep, HomeStep DEF HomeInv

\* Without connect(), and without discover() over IPC, the server's channel
\* for an object leads to the process that declared it: addNewModule maps the
\* new id to the last used channel, and nothing then comes between the
\* declaration that was read and that mapping.  With them the Python thread
\* may put another channel there while the id is being assigned.
THEOREM ChannelsLeadHome == ~Dials => (Spec => []ChannelLeadsHome)
  <1> SUFFICES ASSUME ~Dials PROVE Spec => []ChannelLeadsHome
    OBVIOUS
  <1>1. Init => HomeInv
    BY DEF Init, HomeInv, MappedBelow, ActiveInHand, AssigningItsOwn, ChannelLeadsHome,
       Idle, Empty
  <1>2. AddressInv /\ ObjectsInv /\ HomeInv /\ [Next]_vars
           => (AddressInv /\ ObjectsInv /\ HomeInv)'
    BY NextHome
  <1>3. HomeInv => ChannelLeadsHome
    BY DEF HomeInv
  <1> QED
    BY <1>1, <1>2, <1>3, InitAddress, InitObjects, PTL DEF Spec


-----------------------------------------------------------------------------
(* What an id stands for *)

(* An id of a server is spoken of, as that of an object with a name, in a    *)
(* message to a module or from one that holds it, or in a serverMap_.  It is *)
(* claimed for that name, besides, by an object, or by a declaration whose   *)
(* id is being assigned.                                                     *)
Told(s, i, n) == \E c \in DOMAIN conn : \E x \in ToModule(c) :
    /\ conn[c].srv = s /\ x.type \in {"MODULE_ASSIGN_ID", "CALL_ATTR_METD"}
    /\ x.id = i /\ x.name = n
Kept(s, i, n) == \E m \in Modules : i # Unassigned /\ Holds(m, ServerID[s], i) /\ n = Name[m]
Reported(s, i, n) == \E c \in DOMAIN conn : \E x \in ToServer(c) :
    /\ conn[c].srv = s /\ x.type # "MODULE_DECLARE"
    /\ x.id = i /\ i # Byte(Unassigned) /\ n = Name[x.from]
Spoken(s, i, n) == Told(s, i, n) \/ Kept(s, i, n) \/ Reported(s, i, n)
Object(s, i, n) == \E r \in modules[s] : r.id = i /\ r.name = n
Claimed(s, i, n) == Object(s, i, n) \/ BeingAssigned(s, i, n) \/ Spoken(s, i, n)

(* No two servers have the same low bits of address, and none restarts.      *)
ServersApart == /\ "srvcrash" \notin Ops
                /\ \A s, t \in Servers : ServerID[s] = ServerID[t] => s = t

(* Only a declaration makes a new claim.                                     *)
Adds(s, i, n) ==
    /\ ~ioTask[s].assigning /\ ioTask'[s].assigning
    /\ i = nextObjId[s] /\ n = Name[Head(ioTask[s].buf).from]

LEMMA ToldStep ==
    ASSUME AddressInv, TypeInv', [Next]_vars, NEW s \in Servers, NEW i, NEW n,
           Told(s, i, n)'
    PROVE  Told(s, i, n) \/ Said(s, i, n)
  <1>0. PICK c \in DOMAIN conn' : \E x \in ToModule(c)' :
          /\ conn'[c].srv = s /\ x.type \in {"MODULE_ASSIGN_ID", "CALL_ATTR_METD"}
          /\ x.id = i /\ x.name = n
    BY DEF Told
  <1>1. PICK x \in ToModule(c)' :
          /\ conn'[c].srv = s /\ x.type \in {"MODULE_ASSIGN_ID", "CALL_ATTR_METD"}
          /\ x.id = i /\ x.name = n
    BY <1>0
  <1>2. CASE c \in DOMAIN conn /\ x \in ToModule(c)
    <2>1. conn[c].srv = s
      BY <1>1, <1>2, MailStep
    <2> QED
      BY <1>1, <1>2, <2>1 DEF Told
  <1>3. CASE FromServer(conn'[c].srv, x)
    BY <1>1, <1>3 DEF FromServer
  <1> QED
    BY <1>1, <1>2, <1>3, MailStep

LEMMA KeptStep ==
    ASSUME AddressInv, TypeInv', [Next]_vars, ServersApart, NEW s \in Servers,
           NEW m \in Modules, NEW i, i # Unassigned, WillHold(m, ServerID[s], i)
    PROVE  Kept(s, i, Name[m]) \/ Told(s, i, Name[m])
  <1> DEFINE k == ServerID[s]
  <1>1. MapStep(m)
    BY MapSteps
  <1>2. ASSUME Holds(m, k, i)
        PROVE  Kept(s, i, Name[m])
    BY <1>2 DEF Kept
  <1>3. CASE KeepsMaps(m)
    BY <1>2, <1>3 DEF KeepsMaps, WillHold, Holds
  <1>4. CASE \E j : serverMap'[m] = Del(serverMap[m], j)
    BY <1>2, <1>4 DEF Del, WillHold, Holds
  <1>5. CASE Loses(m)
    BY <1>5 DEF Loses, Empty, WillHold
  <1>6. ASSUME NEW j, NEW l, NEW c, Learns(m, j, l, c)
        PROVE  Kept(s, i, Name[m]) \/ Told(s, i, Name[m])
    <2>1. serverMap'[m] = Put(serverMap[m], j, l)
      BY <1>6 DEF Learns
    <2>2. CASE j # k
      BY <1>2, <2>1, <2>2 DEF Put, WillHold, Holds
    <2>3. CASE j = k
      <3>1. l = i
        BY <2>1, <2>3 DEF Put, WillHold
      <3> DEFINE x == Head(modTask[m].buf)
                 d == modTask[m].conn
      <3>2. /\ modTask[m].buf # <<>> /\ x.sid = k
            /\ x.type = "MODULE_ASSIGN_ID" /\ x.name = Name[m] /\ x.id = i
        BY <1>6, <2>3, <3>1 DEF Learns
      <3>3. d \in DOMAIN conn /\ x \in ToModule(d) /\ x.sid = ServerID[conn[d].srv]
        BY <3>2, ModInHand
      <3>4. conn[d].srv \in Servers
        BY <3>3, Facts DEF AddressInv, Conn
      <3>5. conn[d].srv = s
        BY <3>2, <3>3, <3>4 DEF ServersApart
      <3> QED
        BY <3>2, <3>3, <3>5 DEF Told
    <2> QED
      BY <2>2, <2>3
  <1>7. ASSUME NEW c, HangsUp(m, c)
        PROVE  Kept(s, i, Name[m]) \/ Told(s, i, Name[m])
    <2>1. serverMap'[m] = serverMap[m] \/ \E j : serverMap'[m] = Del(serverMap[m], j)
      BY <1>7 DEF HangsUp
    <2> QED
      BY <1>2, <1>4, <2>1 DEF WillHold, Holds
  <1> QED
    BY <1>1, <1>3, <1>4, <1>5, <1>6, <1>7 DEF MapStep, Forgets

LEMMA ReportedStep ==
    ASSUME AddressInv, TypeInv', [Next]_vars, ServersApart, NEW s \in Servers,
           NEW i, NEW n, Reported(s, i, n)'
    PROVE  Spoken(s, i, n)
  <1>0. PICK c \in DOMAIN conn' : \E x \in ToServer(c)' :
          /\ conn'[c].srv = s /\ x.type # "MODULE_DECLARE"
          /\ x.id = i /\ i # Byte(Unassigned) /\ n = Name[x.from]
    BY DEF Reported
  <1>1. PICK x \in ToServer(c)' :
          /\ conn'[c].srv = s /\ x.type # "MODULE_DECLARE"
          /\ x.id = i /\ i # Byte(Unassigned) /\ n = Name[x.from]
    BY <1>0
  <1>2. CASE c \in DOMAIN conn /\ x \in ToServer(c)
    <2>1. conn[c].srv = s
      BY <1>1, <1>2, MailStep
    <2> QED
      BY <1>1, <1>2, <2>1 DEF Reported, Spoken
  <1>3. CASE FromProgram(conn'[c].mod, ServerID[s], x)
    <2> DEFINE m == conn'[c].mod
    <2>1. /\ x.from = m /\ m \in Modules
          /\ Holds(m, ServerID[s], i) \/ WillHold(m, ServerID[s], i)
      <3>1. conn'[c] \in Conn
        BY DEF TypeInv, TypeOK, NetworkTypes
      <3> QED
        BY <1>1, <1>3, <3>1 DEF FromProgram, Conn
    <2>2. i # Unassigned
      <3>1. x \in SrvMsg
        <4>1. conn'[c].toSrv \in Seq(SrvMsg)
          <5>1. conn'[c] \in Conn
            BY DEF TypeInv, TypeOK, NetworkTypes
          <5> QED
            BY <5>1 DEF Conn
        <4>2. ioTask'[s].buf \in Seq(SrvMsg)
          BY DEF TypeInv, TypeOK, ServerTypes, Task
        <4>3. x \in Range(conn'[c].toSrv) \/ x \in Range(ioTask'[s].buf)
          BY <1>1 DEF ToServer
        <4> QED
          BY <4>1, <4>2, <4>3, Ranges
      <3>2. x.id \in Bytes
        BY <1>1, <3>1 DEF SrvMsg
      <3> QED
        BY <1>1, <3>2 DEF Bytes, Unassigned
    <2>3. Kept(s, i, n) \/ Told(s, i, n)
      BY <1>1, <2>1, <2>2, KeptStep DEF Kept
    <2> QED
      BY <2>3 DEF Spoken
  <1> QED
    BY <1>1, <1>2, <1>3, MailStep

LEMMA SpokenStep ==
    ASSUME AddressInv, TypeInv', [Next]_vars, ServersApart, NEW s \in Servers,
           NEW i, NEW n, Spoken(s, i, n)'
    PROVE  Spoken(s, i, n) \/ Said(s, i, n)
  <1>1. CASE Told(s, i, n)'
    BY <1>1, ToldStep DEF Spoken
  <1>2. CASE Kept(s, i, n)'
    BY <1>2, KeptStep DEF Kept, Spoken, WillHold, Holds
  <1>3. CASE Reported(s, i, n)'
    BY <1>3, ReportedStep
  <1> QED
    BY <1>1, <1>2, <1>3 DEF Spoken

LEMMA ClaimedStep ==
    ASSUME AddressInv, TypeInv', [Next]_vars, ServersApart, NEW s \in Servers,
           NEW i, NEW n, Claimed(s, i, n)'
    PROVE  Claimed(s, i, n) \/ Adds(s, i, n)
  <1>1. ObjectsFrom(s) /\ TaskFrom(s)
    BY ObjectsFromSteps DEF AddressInv
  <1>2. CASE Object(s, i, n)'
    <2>1. PICK r \in modules'[s] : r.id = i /\ r.name = n
      BY <1>2 DEF Object
    <2>2. CASE Declared(s, r)
      BY <2>1, <2>2 DEF Declared, Adds
    <2>3. ASSUME NEW o \in modules[s], Same(r, o)
          PROVE  Claimed(s, i, n)
      BY <2>1, <2>3 DEF Same, Claimed, Object
    <2> QED
      BY <1>1, <2>2, <2>3 DEF ObjectsFrom
  <1>3. CASE BeingAssigned(s, i, n)'
    BY <1>1, <1>3 DEF BeingAssigned, TaskFrom, Adds, Claimed
  <1>4. CASE Spoken(s, i, n)'
    BY <1>4, SpokenStep DEF Claimed, Said, Object
  <1> QED
    BY <1>2, <1>3, <1>4 DEF Claimed

(* Unless it restarts, a server only ever gives out more ids.                *)
LEMMA IdsGrow ==
    ASSUME AddressInv, TypeInv', [Next]_vars, "srvcrash" \notin Ops, NEW s \in Servers
    PROVE  /\ nextObjId[s] \in Int /\ nextObjId'[s] \in Int
           /\ nextObjId'[s] >= nextObjId[s] /\ Top(s)' >= Top(s)
           /\ Top(s) \in Int /\ Top(s)' \in Int
  <1>1. /\ On(nextObjId, Servers) /\ On(ioTask, Servers)
        /\ nextObjId[s] \in Int /\ nextObjId'[s] \in Int
    <2>1. nextObjId[s] \in FirstId..MaxModuleId + 1
          /\ nextObjId'[s] \in FirstId..MaxModuleId + 1
      BY DEF AddressInv, TypeInv, TypeOK, RegistryTypes
    <2>2. nextObjId[s] \in Int /\ nextObjId'[s] \in Int
      BY <2>1, ConstantsAssumption
    <2> QED
      BY <2>2, Facts DEF AddressInv, RegistryTypes, ServerTypes, On
  <1>2. \/ nextObjId'[s] = nextObjId[s] + 1 /\ ioTask[s].assigning
        \/ nextObjId'[s] = nextObjId[s] /\ ioTask'[s] = ioTask[s]
        \/ nextObjId'[s] = nextObjId[s] /\ ~ioTask[s].assigning
    <2>1. CASE \/ \E x \in Servers \ {s} : ServerStep(x)
               \/ \E m \in Modules : ModuleStep(m)
               \/ UNCHANGED vars
      BY <2>1, OthersAlone DEF AddressInv
    <2>2. CASE SrvPython(s)
      BY <2>2, ObjectWorkKeeps DEF SrvPython, Discover, SendDiscovery, Connect,
         Disconnect, CallRemote, registryVars
    <2>3. ~SrvStop(s) /\ ~SrvStart(s)
      BY DEF SrvStop, SrvStart, Op, AddressInv, Configured
    <2>4. CASE AssignModuleID(s)
      BY <1>1, <2>4 DEF AssignModuleID, On
    <2>6. CASE ObjectWork(s)
      BY <2>6, ObjectWorkKeeps
    <2>5. CASE SrvIO(s) /\ ~AssignModuleID(s) /\ ~ObjectWork(s)
      <3>1. ioTask[s] = Idle \/ ~ioTask[s].assigning
        BY <2>5 DEF SrvIO, SrvAccept, SrvEof, SrvRead, SrvUdpDeclare, HandleDeclareNew,
           HandleDeclareDuplicate, HandleModuleShutdown, HandleExpose, HandleDesc,
           HandleValue, SrvApply, SrvMsgIs
      <3>2. UNCHANGED nextObjId
        BY <2>5 DEF SrvIO, SrvAccept, SrvEof, SrvRead, SrvUdpDeclare, HandleDeclareNew,
           HandleDeclareDuplicate, HandleModuleShutdown, HandleExpose, HandleDesc,
           HandleValue, SrvApply, registryVars
      <3> QED
        BY <3>1, <3>2, NotAssigning
    <2> QED
      BY <2>1, <2>2, <2>3, <2>4, <2>5, <2>6, EachStep DEF ServerStep
  <1> QED
    BY <1>1, <1>2 DEF Top

(* Ids in use are among those given out, what is spoken of has been assigned *)
(* to its name, and an id is claimed for one name only.                      *)
ClaimsKnown == \A s \in Servers : \A i, n : Claimed(s, i, n) => i \in FirstId..Top(s)
SpokenBelow == \A s \in Servers : \A i, n : Spoken(s, i, n) => i < nextObjId[s]
ClaimedOnce == \A s \in Servers : \A i, n1, n2 :
    Claimed(s, i, n1) /\ Claimed(s, i, n2) => n1 = n2
ClaimInv == MappedBelow /\ ClaimsKnown /\ SpokenBelow /\ ClaimedOnce

LEMMA ClaimsStep ==
    ASSUME AddressInv, TypeInv', [Next]_vars, ServersApart, ClaimInv
    PROVE  ClaimsKnown' /\ SpokenBelow' /\ ClaimedOnce'
  <1> SUFFICES ASSUME NEW s \in Servers
               PROVE  /\ \A i, n : Claimed(s, i, n)' => i \in FirstId..Top(s)'
                      /\ \A i, n : Spoken(s, i, n)' => i < nextObjId'[s]
                      /\ \A i, n1, n2 :
                            Claimed(s, i, n1)' /\ Claimed(s, i, n2)' => n1 = n2
    BY DEF ClaimsKnown, SpokenBelow, ClaimedOnce
  <1>1. /\ nextObjId[s] \in Int /\ nextObjId'[s] \in Int
        /\ nextObjId'[s] >= nextObjId[s] /\ Top(s)' >= Top(s)
        /\ Top(s) \in Int /\ Top(s)' \in Int /\ FirstId \in Int
    BY IdsGrow, ConstantsAssumption DEF ServersApart
  <1>2. \A i, n : Claimed(s, i, n) => i \in FirstId..Top(s)
    BY DEF ClaimInv, ClaimsKnown
  <1>3. \A i, n : Adds(s, i, n) => i = Top(s) + 1 /\ i \in FirstId..Top(s)'
    <2> SUFFICES ASSUME NEW i, NEW n, Adds(s, i, n)
                 PROVE  i = Top(s) + 1 /\ i \in FirstId..Top(s)'
      OBVIOUS
    <2>1. nextObjId[s] \in FirstId..MaxModuleId + 1
      BY Facts DEF AddressInv, RegistryTypes
    <2>2. nextObjId'[s] = nextObjId[s]
      BY ObjectsFromSteps DEF AddressInv, TaskFrom, Adds
    <2>3. i = nextObjId[s] /\ Top(s) = nextObjId[s] - 1 /\ Top(s)' = nextObjId[s]
      BY <2>2 DEF Adds, Top
    <2> QED
      BY <1>1, <2>1, <2>3
  <1>4. ASSUME NEW i, NEW n, Claimed(s, i, n)'
        PROVE  i \in FirstId..Top(s)'
    BY <1>1, <1>2, <1>3, <1>4, ClaimedStep
  <1>5. ASSUME NEW i, NEW n, Spoken(s, i, n)'
        PROVE  i < nextObjId'[s]
    <2>1. CASE Spoken(s, i, n)
      <3>1. i < nextObjId[s] /\ i \in Int
        BY <1>1, <1>2, <2>1 DEF ClaimInv, SpokenBelow, Claimed
      <3> QED
        BY <1>1, <3>1
    <2>2. CASE i \in DOMAIN sMap[s]
      <3>1. i < nextObjId[s] /\ i \in Int
        <4>1. i \in Ids
          BY <2>2, Facts DEF AddressInv, ServerTypes
        <4> QED
          BY <2>2, <4>1, ByteType DEF ClaimInv, MappedBelow
      <3> QED
        BY <1>1, <3>1
    <2>3. CASE BeingAssigned(s, i, n) /\ nextObjId'[s] = i + 1
      BY <1>1, <2>3 DEF BeingAssigned
    <2> QED
      BY <1>5, <2>1, <2>2, <2>3, SpokenStep DEF Said
  <1>6. ASSUME NEW i, NEW n1, NEW n2, Claimed(s, i, n1)', Claimed(s, i, n2)'
        PROVE  n1 = n2
    <2>1. /\ Claimed(s, i, n1) \/ Adds(s, i, n1)
          /\ Claimed(s, i, n2) \/ Adds(s, i, n2)
      BY <1>6, ClaimedStep
    <2>2. CASE Claimed(s, i, n1) /\ Claimed(s, i, n2)
      BY <2>2 DEF ClaimInv, ClaimedOnce
    <2>3. CASE Adds(s, i, n1) /\ Adds(s, i, n2)
      BY <2>3 DEF Adds
    <2>4. ~((\E n : Claimed(s, i, n)) /\ \E n : Adds(s, i, n))
      BY <1>1, <1>2, <1>3
    <2> QED
      BY <2>1, <2>2, <2>3, <2>4
  <1> QED
    BY <1>4, <1>5, <1>6

LEMMA NextClaims ==
    AddressInv /\ ClaimInv /\ [Next]_vars /\ ServersApart => AddressInv' /\ ClaimInv'
  <1> SUFFICES ASSUME AddressInv, ClaimInv, [Next]_vars, ServersApart
               PROVE  AddressInv' /\ ClaimInv'
    OBVIOUS
  <1>1. AddressInv' /\ TypeInv'
    BY NextAddress DEF AddressInv
  <1> QED
    BY <1>1, ClaimsStep, MappedBelowStep DEF ClaimInv

LEMMA InitClaims == Init => ClaimInv
  <1> SUFFICES ASSUME Init PROVE ClaimInv
    OBVIOUS
  <1>1. \A s \in Servers : \A i, n : ~Claimed(s, i, n)
    <2>1. conn = <<>> /\ \A m \in Modules : serverMap[m] = Empty
      BY DEF Init
    <2>2. \A s \in Servers : modules[s] = {} /\ ioTask[s].assigning = FALSE
      BY NotAssigning DEF Init
    <2> QED
      BY <2>1, <2>2 DEF Claimed, Object, BeingAssigned, Spoken, Told, Kept, Reported, Holds,
         Empty
  <1>2. MappedBelow
    BY DEF Init, MappedBelow, Empty
  <1> QED
    BY <1>1, <1>2 DEF ClaimInv, ClaimsKnown, SpokenBelow, ClaimedOnce, Claimed

\* If no two servers share their low bits and no server restarts, then while
\* a module's connection is up the id it holds was given out by the server at
\* the other end, and to its own name: assignModuleID tells all modules on a
\* channel, and HandleAssignId keeps an id for its own name only.
THEOREM HeldIdsAreOurs == ServersApart => (Spec => []AssignedIdIsOurs)
  <1> SUFFICES ASSUME ServersApart PROVE Spec => []AssignedIdIsOurs
    OBVIOUS
  <1>1. AddressInv /\ ClaimInv => AssignedIdIsOurs
    <2> SUFFICES ASSUME AddressInv, ClaimInv, NEW m \in Modules,
                        NEW k \in DOMAIN serverMap[m] \cap DOMAIN mMap[m],
                        serverMap[m][k] # Unassigned
                 PROVE  LET s == conn[mMap[m][k]].srv
                            i == serverMap[m][k]
                        IN /\ i < nextObjId[s]
                           /\ \A r \in modules[s] : r.id = i => r.name = Name[m]
      BY DEF AssignedIdIsOurs
    <2> DEFINE s == conn[mMap[m][k]].srv
               i == serverMap[m][k]
    <2>1. s \in Servers /\ ServerID[s] = k
      BY HeldFacts, Facts DEF AddressInv, Conn
    <2>2. Spoken(s, i, Name[m])
      BY <2>1 DEF Spoken, Kept, Holds
    <2> QED
      BY <2>1, <2>2 DEF ClaimInv, SpokenBelow, ClaimedOnce, Claimed, Object
  <1>2. AddressInv /\ ClaimInv /\ [Next]_vars => (AddressInv /\ ClaimInv)'
    BY NextClaims
  <1> QED
    BY <1>1, <1>2, InitAddress, InitClaims, PTL DEF Spec

-----------------------------------------------------------------------------
(* Calls and reports *)

LEMMA ExecutedStep ==
    ASSUME TypeInv, [Next]_vars, NEW m \in Modules
    PROVE  \/ executed'[m] \subseteq executed[m]
           \/ LET x == Head(modTask[m].buf)
              IN /\ modTask[m].buf # <<>> /\ x.type = "CALL_ATTR_METD"
                 /\ Holds(m, x.sid, x.id)
                 /\ executed'[m] = executed[m] \cup {x.name}
  <1>1. On(executed, Modules)
    BY Facts DEF ModuleTypes, On
  <1>2. CASE UNCHANGED executed
    BY <1>2
  <1>3. ASSUME NEW x \in Modules, ModuleStep(x), ~UNCHANGED executed
        PROVE  HandleCall(x) \/ \E alive : ModMemory(x, alive)
    BY <1>3 DEF ModuleStep, ModLoop, ModProgram, ModAccept, ModRead, ModEof,
       ModUdpDiscovery, HandleDiscovery, HandleServerShutdown, HandleAssignId,
       UpdateAttribute, ModStart, ModCrash, ModShutdown
  <1>4. ASSUME NEW x \in Modules, NEW alive, ModMemory(x, alive)
        PROVE  executed'[m] \subseteq executed[m]
    BY <1>1, <1>4 DEF ModMemory, On
  <1>5. ASSUME NEW x \in Modules, HandleCall(x)
        PROVE  \/ executed'[m] \subseteq executed[m]
               \/ LET y == Head(modTask[m].buf)
                  IN /\ modTask[m].buf # <<>> /\ y.type = "CALL_ATTR_METD"
                     /\ Holds(m, y.sid, y.id)
                     /\ executed'[m] = executed[m] \cup {y.name}
    <2> DEFINE y == Head(modTask[x].buf)
    <2>1. CASE UNCHANGED executed
      BY <2>1
    <2>2. CASE ~UNCHANGED executed
      <3>1. /\ modTask[x].buf # <<>> /\ y.type = "CALL_ATTR_METD"
            /\ Holds(x, y.sid, y.id)
            /\ executed' = [executed EXCEPT ![x] = executed[x] \cup {y.name}]
        BY <1>5, <2>2 DEF HandleCall, ModMsgIs, Holds
      <3> QED
        BY <1>1, <3>1 DEF On
    <2> QED
      BY <2>1, <2>2
  <1> QED
    BY <1>2, <1>3, <1>4, <1>5, EachStep, ServerLeaves DEF vars

\* If no two servers share their low bits and no server restarts, a program
\* executes no call that was made on an object of another class, whichever
\* connection the call came by: HandleCall compares the id, and an id that it
\* holds stands for its own name.
THEOREM CallsReachPrograms == ServersApart => (Spec => []CallsReachTheirModule)
  <1> SUFFICES ASSUME ServersApart PROVE Spec => []CallsReachTheirModule
    OBVIOUS
  <1> DEFINE Inv == AddressInv /\ ClaimInv /\ CallsReachTheirModule
  <1>1. Init => CallsReachTheirModule
    BY DEF Init, CallsReachTheirModule
  <1>2. ASSUME Inv, [Next]_vars
        PROVE  CallsReachTheirModule'
    <2> SUFFICES ASSUME NEW m \in Modules PROVE executed'[m] \subseteq {Name[m]}
      BY DEF CallsReachTheirModule
    <2>1. executed[m] \subseteq {Name[m]}
      BY <1>2 DEF CallsReachTheirModule
    <2> DEFINE x == Head(modTask[m].buf)
               c == modTask[m].conn
    <2>2. CASE /\ modTask[m].buf # <<>> /\ x.type = "CALL_ATTR_METD"
               /\ Holds(m, x.sid, x.id)
               /\ executed'[m] = executed[m] \cup {x.name}
      <3>1. /\ c \in DOMAIN conn /\ x \in ModMsg /\ x \in ToModule(c)
            /\ x.sid = ServerID[conn[c].srv]
        BY <1>2, <2>2, ModInHand
      <3>2. conn[c].srv \in Servers
        BY <1>2, <3>1, Facts DEF AddressInv, Conn
      <3>3. x.id \in Ids
        BY <2>2, <3>1 DEF ModMsg
      <3>4. x.id # Unassigned
        BY <3>3, ConstantsAssumption DEF Ids, Unassigned
      <3>5. Told(conn[c].srv, x.id, x.name)
        BY <2>2, <3>1 DEF Told
      <3>6. Kept(conn[c].srv, x.id, Name[m])
        BY <2>2, <3>1, <3>4 DEF Kept
      <3>7. x.name = Name[m]
        BY <1>2, <3>2, <3>5, <3>6 DEF ClaimInv, ClaimedOnce, Claimed, Spoken
      <3> QED
        BY <2>1, <2>2, <3>7
    <2> QED
      BY <1>2, <2>1, <2>2, ExecutedStep DEF AddressInv
  <1>3. Inv /\ [Next]_vars => Inv'
    BY <1>2, NextClaims
  <1>4. Init => Inv
    BY <1>1, InitAddress, InitClaims
  <1>5. Inv => CallsReachTheirModule
    OBVIOUS
  <1> QED
    BY <1>3, <1>4, <1>5, PTL DEF Spec

(* The ids of a server fit into the bits that messages to it have, and none  *)
(* is taken for the -1 of a module that has not been given an id.            *)
FewIds == \A s \in Servers : \A i \in Used(s) :
    i < IdMask /\ i # Byte(Unassigned) % IdMask

LEMMA WithinMask ==
    ASSUME NEW i \in Nat, i < IdMask
    PROVE  i % IdMask = i
  <1>1. IdMask \in Nat \ {0}
    BY ConstantsAssumption
  <1> QED
    BY <1>1

LEMMA ReportsStep ==
    ASSUME AddressInv, ObjectsInv, ClaimInv, FewIds, ReportsReachTheirObject, [Next]_vars
    PROVE  ReportsReachTheirObject'
  <1> SUFFICES ASSUME NEW s \in Servers, NEW r \in modules'[s], NEW m \in r.heard
               PROVE  Name[m] = r.name
    BY DEF ReportsReachTheirObject
  <1> DEFINE x == Head(ioTask[s].buf)
  <1>1. ObjectsFrom(s)
    BY ObjectsFromSteps DEF AddressInv
  <1>2. CASE Declared(s, r)
    BY <1>2 DEF Declared
  <1>3. ASSUME NEW o \in modules[s], Same(r, o), Heard(s, r, o)
        PROVE  Name[m] = r.name
    <2>1. r.id = o.id /\ r.name = o.name
      BY <1>3 DEF Same
    <2>2. CASE m \in o.heard
      BY <2>1, <2>2 DEF ReportsReachTheirObject
    <2>3. CASE /\ ioTask[s].buf # <<>> /\ x.type # "MODULE_DECLARE"
               /\ r.id = x.id % IdMask /\ m = x.from
      <3> DEFINE c == ioTask[s].conn
      <3>1. c \in DOMAIN conn /\ conn[c].srv = s /\ x \in SrvMsg /\ x \in ToServer(c)
        BY <2>3, SrvInHand
      <3>2. x.id \in Bytes
        BY <2>3, <3>1 DEF SrvMsg
      <3>3. Claimed(s, o.id, o.name)
        BY DEF Claimed, Object
      <3>4. \A i, n : Claimed(s, i, n) => i \in Used(s)
        BY DEF ClaimInv, ClaimsKnown, Used, Top
      <3>5. x.id # Byte(Unassigned)
        BY <2>1, <2>3, <3>3, <3>4 DEF FewIds
      <3>6. Claimed(s, x.id, Name[m])
        BY <2>3, <3>1, <3>5 DEF Claimed, Spoken, Reported
      <3>7. x.id < IdMask
        BY <3>4, <3>6 DEF FewIds
      <3>8. x.id % IdMask = x.id
        <4>1. \A b \in Bytes : b \in Nat
          BY DEF Bytes
        <4>2. x.id \in Nat
          BY <3>2, <4>1
        <4> QED
          BY <3>7, <4>2, WithinMask
      <3> QED
        BY <2>1, <2>3, <3>3, <3>6, <3>8 DEF ClaimInv, ClaimedOnce
    <2> QED
      BY <1>3, <2>2, <2>3 DEF Heard
  <1> QED
    BY <1>1, <1>2, <1>3 DEF ObjectsFrom

LEMMA FewBefore ==
    ASSUME AddressInv, TypeInv', [Next]_vars, ServersApart, FewIds'
    PROVE  FewIds
  <1> SUFFICES ASSUME NEW s \in Servers, NEW i \in Used(s)
               PROVE  i < IdMask /\ i # Byte(Unassigned) % IdMask
    BY DEF FewIds
  <1>1. /\ Used(s) = FirstId..Top(s) /\ Used(s)' = FirstId..Top(s)'
        /\ Top(s)' >= Top(s) /\ Top(s) \in Int /\ Top(s)' \in Int /\ FirstId \in Int
    BY IdsGrow, ConstantsAssumption DEF Used, Top, ServersApart
  <1>2. i \in Used(s)'
    BY <1>1
  <1> QED
    BY <1>2 DEF FewIds

\* If no two servers share their low bits and no server restarts, then as
\* long as no server has given out an id that does not fit into its four bits
\* or that reads as -1 there (processInput masks the byte after the header),
\* whatever a program reports is applied to an object of its own name.
THEOREM ReportsReachObjects ==
    ServersApart => (Spec => [](FewIds => ReportsReachTheirObject))
  <1> SUFFICES ASSUME ServersApart
               PROVE  Spec => [](FewIds => ReportsReachTheirObject)
    OBVIOUS
  <1> DEFINE Reports1 == FewIds => ReportsReachTheirObject
             Inv == AddressInv /\ ObjectsInv /\ ClaimInv /\ Reports1
  <1>1. Init => Inv
    <2>1. Init => ReportsReachTheirObject
      BY DEF Init, ReportsReachTheirObject
    <2> QED
      BY <2>1, InitAddress, InitObjects, InitClaims
  <1>2. ASSUME Inv, [Next]_vars
        PROVE  Inv'
    <2>1. AddressInv' /\ TypeInv' /\ ObjectsInv' /\ ClaimInv'
      BY <1>2, NextClaims, NextObjects DEF AddressInv
    <2>2. ASSUME FewIds'
          PROVE  ReportsReachTheirObject'
      BY <1>2, <2>1, <2>2, FewBefore, ReportsStep
    <2> QED
      BY <2>1, <2>2
  <1>3. Inv => Reports1
    OBVIOUS
  <1> QED
    BY <1>1, <1>2, <1>3, PTL DEF Spec


-----------------------------------------------------------------------------
(* What is on its way over a connection, in order *)

LEMMA Streams ==
    ASSUME NEW M, NEW q \in Seq(M), NEW r \in Seq(M)
    PROVE  /\ q \o r \in Seq(M)
           /\ <<>> \o r = r /\ q \o <<>> = q
           /\ \A x \in M : r \o Append(q, x) = (r \o q) \o <<x>>
           /\ q # <<>> => /\ Tail(q) \o r = Tail(q \o r) /\ Head(q \o r) = Head(q)
                          /\ q \o r # <<>>
           /\ Len(q) <= 1 /\ q # <<>> => Tail(q \o r) = r
  <1>1. /\ q \o r \in Seq(M) /\ Len(q \o r) = Len(q) + Len(r)
        /\ \A i \in 1..Len(q) + Len(r) : (q \o r)[i] = IF i <= Len(q) THEN q[i] ELSE r[i - Len(q)]
        /\ Len(q) \in Nat /\ Len(r) \in Nat
    BY ConcatProperties
  <1>2. <<>> \o r = r /\ q \o <<>> = q
    BY ConcatEmptySeq
  <1>3. ASSUME NEW x \in M
        PROVE  r \o Append(q, x) = (r \o q) \o <<x>>
    <2>1. <<x>> \in Seq(M)
      OBVIOUS
    <2>2. Append(q, x) = q \o <<x>>
      BY AppendIsConcat
    <2> QED
      BY <2>1, <2>2, ConcatAssociative
  <1>5. ASSUME q # <<>>
        PROVE  /\ Tail(q) \o r = Tail(q \o r) /\ Head(q \o r) = Head(q)
               /\ q \o r # <<>>
    <2>1. Len(q) >= 1 /\ q \o r # <<>>
      BY <1>1, <1>5
    <2>2. Head(q \o r) = Head(q)
      BY <1>1, <2>1
    <2>3. /\ Tail(q) \in Seq(M) /\ Len(Tail(q)) = Len(q) - 1
          /\ \A i \in 1..Len(q) - 1 : Tail(q)[i] = q[i + 1]
      BY <1>5
    <2>4. /\ Tail(q) \o r \in Seq(M) /\ Len(Tail(q) \o r) = Len(Tail(q)) + Len(r)
          /\ \A i \in 1..Len(Tail(q)) + Len(r) : (Tail(q) \o r)[i] =
                IF i <= Len(Tail(q)) THEN Tail(q)[i] ELSE r[i - Len(Tail(q))]
      BY <2>3, ConcatProperties
    <2> DEFINE u == q \o r
               v == Tail(q) \o r
    <2>5. /\ Tail(u) \in Seq(M) /\ Len(Tail(u)) = Len(u) - 1
          /\ \A i \in 1..Len(u) - 1 : Tail(u)[i] = u[i + 1]
      BY <1>1, <2>1
    <2> HIDE DEF u, v
    <2>6. Len(v) = Len(Tail(u)) /\ v \in Seq(M)
      BY <1>1, <2>3, <2>4, <2>5 DEF u, v
    <2>7. ASSUME NEW i \in 1..Len(v)
          PROVE  v[i] = Tail(u)[i]
      <3>1. i \in Nat /\ i >= 1 /\ i <= Len(q) + Len(r) - 1 /\ Tail(u)[i] = u[i + 1]
        BY <1>1, <2>3, <2>4, <2>5, <2>6 DEF u, v
      <3>2. CASE i <= Len(q) - 1
        BY <1>1, <2>3, <2>4, <3>1, <3>2 DEF u, v
      <3>3. CASE ~(i <= Len(q) - 1)
        <4>1. v[i] = r[i - (Len(q) - 1)]
          BY <1>1, <2>3, <2>4, <3>1, <3>3 DEF v
        <4>2. u[i + 1] = r[i + 1 - Len(q)]
          BY <1>1, <3>1, <3>3 DEF u
        <4>3. i - (Len(q) - 1) = i + 1 - Len(q)
          BY <1>1, <3>1
        <4> QED
          BY <3>1, <4>1, <4>2, <4>3
      <3> QED
        BY <3>2, <3>3
    <2>8. v = Tail(u)
      BY <2>5, <2>6, <2>7, SeqEqual
    <2> QED
      BY <2>1, <2>2, <2>8 DEF u, v
  <1>6. Len(q) <= 1 /\ q # <<>> => Tail(q \o r) = r
    <2> SUFFICES ASSUME Len(q) <= 1, q # <<>> PROVE Tail(q \o r) = r
      OBVIOUS
    <2>1. Tail(q) = <<>>
      OBVIOUS
    <2> QED
      BY <1>2, <1>5, <2>1
  <1> QED
    BY <1>1, <1>2, <1>3, <1>5, <1>6

LEMMA SplitStream ==
    ASSUME NEW M, NEW q \in Seq(M), NEW n \in 1..Len(q)
    PROVE  SubSeq(q, 1, n) \o SubSeq(q, n + 1, Len(q)) = q
  <1> DEFINE a == SubSeq(q, 1, n)
             b == SubSeq(q, n + 1, Len(q))
             u == a \o b
  <1>1. /\ a \in Seq(M) /\ Len(a) = n /\ \A i \in 1..n : a[i] = q[i]
        /\ b \in Seq(M) /\ Len(b) = Len(q) - n
        /\ \A i \in 1..(Len(q) - n) : b[i] = q[i + n]
        /\ n \in Nat /\ Len(q) \in Nat /\ n <= Len(q)
    OBVIOUS
  <1> HIDE DEF a, b
  <1>2. /\ u \in Seq(M) /\ Len(u) = Len(a) + Len(b)
        /\ \A i \in 1..Len(a) + Len(b) : u[i] = IF i <= Len(a) THEN a[i] ELSE b[i - Len(a)]
    <2>1. a \in Seq(M) /\ b \in Seq(M)
      BY <1>1
    <2> QED
      BY <2>1, ConcatProperties
  <1> HIDE DEF u
  <1>3. Len(u) = Len(q)
    BY <1>1, <1>2
  <1>4. ASSUME NEW i \in 1..Len(u)
        PROVE  u[i] = q[i]
    <2>1. CASE i <= n
      BY <1>1, <1>2, <1>3, <2>1
    <2>2. CASE ~(i <= n)
      <3>1. u[i] = b[i - n] /\ i - n \in 1..(Len(q) - n)
        BY <1>1, <1>2, <1>3, <2>2
      <3>2. b[i - n] = q[(i - n) + n] /\ (i - n) + n = i
        BY <1>1, <1>3, <3>1
      <3> QED
        BY <3>1, <3>2
    <2> QED
      BY <2>1, <2>2
  <1> QED
    BY <1>2, <1>3, <1>4, SeqEqual DEF a, b, u

(* What the server at the end of c has in hand from c, and what is on the    *)
(* wire: one stream, of which the server takes the first message.            *)
InHandOf(c) == IF ioTask[conn[c].srv].conn = c THEN ioTask[conn[c].srv].buf ELSE <<>>
In(c)       == InHandOf(c) \o conn[c].toSrv

(* The ways a stream may change: not, by being lost with its connection, by  *)
(* the handler of its first message, or by what the program writes.          *)
Expose(m, i)   == FromModule("ATTR_METD_EXPOSE", m, i)
Describe(m, i) == FromModule("ATTR_METD_DESC", m, i)
Answers(m, c, w) ==
    LET x == Head(modTask[m].buf)
    IN /\ HandleAssignId(m) /\ modTask[m].buf # <<>>
       /\ x.type = "MODULE_ASSIGN_ID" /\ x.name = Name[m]
       /\ \/ c = mActive[m] /\ w = <<Expose(m, x.id), Describe(m, x.id)>>
          \/ mActive[m] = NoConn /\ w = <<Describe(m, x.id)>>
UnderItsId(m, c, x) == \E k \in DOMAIN serverMap[m] \cap DOMAIN mMap[m] :
    mMap[m][k] = c /\ x.id = Byte(serverMap[m][k])
Writes(m, c, w) ==
    \/ \E x \in SrvMsg : /\ w = <<x>> /\ UnderItsId(m, c, x)
                         /\ \/ x.type \in {"ATTR_VALUE_UPDATE", "ATTR_METD_RESP"}
                            \/ x.type = "MODULE_SHUTDOWN" /\ conn'[c].mEnd = "closed"
    \/ Answers(m, c, w)
Handled(c) ==
    LET s == conn[c].srv
    IN /\ ioTask[s].buf # <<>> /\ ioTask[s].conn = c /\ ioTask'[s] = Rest(ioTask[s])
       /\ In(c)' = Tail(In(c))
Written(c) == \E w \in Seq(SrvMsg) : Writes(conn[c].mod, c, w) /\ In(c)' = In(c) \o w
InStep(c) == \/ In(c)' = In(c) \/ Handled(c) \/ Written(c)
             \/ In(c)' = <<>> /\ conn'[c].sEnd = "closed"

(* Messages by UDP come one at a time, and a server has none in hand from a  *)
(* connection that it has closed.                                            *)
UdpAlone == \A s \in Servers : ioTask[s].udp => Len(ioTask[s].buf) <= 1
OpenHand == \A s \in Servers : ioTask[s].buf # <<>> => conn[ioTask[s].conn].sEnd = "open"

LEMMA InFacts ==
    ASSUME AddressInv, NEW c \in DOMAIN conn
    PROVE  /\ conn[c] \in Conn /\ conn[c].toSrv \in Seq(SrvMsg)
           /\ conn[c].srv \in Servers /\ conn[c].mod \in Modules
           /\ ioTask[conn[c].srv] \in Task(SrvMsg)
           /\ ioTask[conn[c].srv].buf \in Seq(SrvMsg)
           /\ InHandOf(c) \in Seq(SrvMsg)
           /\ c # NoConn /\ In(c) \in Seq(SrvMsg)
  <1>1. /\ conn[c] \in Conn /\ conn[c].toSrv \in Seq(SrvMsg)
        /\ conn[c].srv \in Servers /\ conn[c].mod \in Modules
    BY Facts, ConnFields DEF AddressInv
  <1>2. ioTask[conn[c].srv] \in Task(SrvMsg)
    BY <1>1, Facts DEF AddressInv, ServerTypes
  <1>3. ioTask[conn[c].srv].buf \in Seq(SrvMsg)
    BY <1>2 DEF Task
  <1>4. c # NoConn
    BY Facts DEF AddressInv, NoConn
  <1>5. InHandOf(c) \in Seq(SrvMsg)
    BY <1>3 DEF InHandOf
  <1>6. In(c) \in Seq(SrvMsg)
    BY <1>1, <1>5, ConcatProperties DEF In
  <1> QED
    BY <1>1, <1>2, <1>3, <1>4, <1>5, <1>6

LEMMA SameHand ==
    ASSUME NEW c, conn'[c].srv = conn[c].srv
    PROVE  /\ ioTask'[conn[c].srv] = ioTask[conn[c].srv] => InHandOf(c)' = InHandOf(c)
           /\ ioTask'[conn[c].srv].conn = c => InHandOf(c)' = ioTask'[conn[c].srv].buf
           /\ ioTask'[conn[c].srv].conn # c => InHandOf(c)' = <<>>
  BY DEF InHandOf

LEMMA SameIn ==
    ASSUME NEW c, InHandOf(c)' = InHandOf(c), conn'[c].toSrv = conn[c].toSrv
    PROVE  InStep(c)
  BY DEF In, InStep

LEMMA LostIn ==
    ASSUME NEW c, InHandOf(c)' = <<>>, conn'[c].toSrv = <<>>, conn'[c].sEnd = "closed"
    PROVE  InStep(c)
  BY DEF In, InStep

(* The end of a handler. *)
LEMMA RestIn ==
    ASSUME AddressInv, NEW c \in DOMAIN conn, NEW s \in Servers,
           conn'[c].srv = conn[c].srv, conn'[c].toSrv = conn[c].toSrv,
           ioTask[s].buf # <<>>, ioTask' = [ioTask EXCEPT ![s] = Rest(ioTask[s])]
    PROVE  InStep(c) /\ (ioTask[s].conn = c => Handled(c))
  <1> DEFINE t == ioTask[s]
             q == conn[c].toSrv
  <1>0. t.buf # <<>>
    OBVIOUS
  <1>1. /\ t \in Task(SrvMsg) /\ t.buf \in Seq(SrvMsg) /\ On(ioTask, Servers)
        /\ q \in Seq(SrvMsg) /\ conn[c].srv \in Servers /\ c # NoConn
    <2>1. t \in Task(SrvMsg) /\ On(ioTask, Servers)
      BY Facts DEF AddressInv, ServerTypes, On
    <2> QED
      BY <2>1, InFacts DEF Task
  <1>2. CASE conn[c].srv # s
    <2>1. ioTask'[conn[c].srv] = ioTask[conn[c].srv]
      BY <1>1, <1>2 DEF On
    <2>2. t.conn # c
      BY <1>0, <1>2 DEF AddressInv, InHand
    <2> QED
      BY <2>1, <2>2, SameHand, SameIn
  <1>3. CASE conn[c].srv = s /\ t.conn # c
    <2>1. ioTask'[s] = Rest(t)
      BY <1>1 DEF On
    <2>2. Rest(t).conn = NoConn \/ Rest(t).conn = t.conn
      BY <1>1 DEF Rest, Idle, Task
    <2>3. InHandOf(c)' = <<>> /\ InHandOf(c) = <<>>
      BY <1>1, <1>3, <2>1, <2>2, SameHand DEF InHandOf
    <2> QED
      BY <1>3, <2>3, SameIn
  <1>4. CASE conn[c].srv = s /\ t.conn = c
    <2>1. ioTask'[s] = Rest(t)
      BY <1>1 DEF On
    <2>2. In(c) = t.buf \o q
      BY <1>4 DEF In, InHandOf
    <2>3. In(c)' = InHandOf(c)' \o q
      BY DEF In
    <2>4. CASE Len(t.buf) <= 1
      <3>1. InHandOf(c)' = <<>>
        BY <1>1, <1>4, <2>1, <2>4, SameHand DEF Rest, Idle
      <3>2. In(c)' = Tail(In(c))
        <4>1. Tail(t.buf \o q) = q /\ <<>> \o q = q
          BY <1>1, <2>4, Streams
        <4> QED
          BY <2>2, <2>3, <3>1, <4>1
      <3> QED
        BY <1>4, <2>1, <3>2 DEF InStep, Handled
    <2>5. CASE ~(Len(t.buf) <= 1)
      <3>1. Rest(t).conn = c /\ Rest(t).buf = Tail(t.buf)
        BY <1>1, <1>4, <2>5 DEF Rest, Task
      <3>2. InHandOf(c)' = Tail(t.buf)
        BY <1>4, <2>1, <3>1, SameHand
      <3>3. In(c)' = Tail(In(c))
        <4> HIDE DEF q, t
        <4>1. Tail(t.buf) \o q = Tail(t.buf \o q)
          BY <1>0, <1>1, Streams
        <4> QED
          BY <2>2, <2>3, <3>2, <4>1
      <3> QED
        BY <1>4, <2>1, <3>3 DEF InStep, Handled
    <2> QED
      BY <2>4, <2>5
  <1> QED
    BY <1>2, <1>3, <1>4

(* What a step of the network does to the messages for a server. *)
LEMMA ToServerKept ==
    ASSUME NEW cs \in Seq(Conn), NEW c \in DOMAIN cs
    PROVE  /\ \A d, x : SrvWrite(cs, d, x)[c].toSrv = cs[c].toSrv
           /\ \A C : CloseSrv(cs, C)[c].toSrv = IF c \in C THEN <<>> ELSE cs[c].toSrv
           /\ \A C : CloseMod(cs, C)[c].toSrv = cs[c].toSrv
           /\ \A d, x : ModWrite(cs, d, x)[c].toSrv =
                 IF c = d /\ ModCanWrite(cs, d) THEN Append(cs[c].toSrv, x) ELSE cs[c].toSrv
  <1>1. cs[c] \in Conn
    OBVIOUS
  <1>2. \A k \in Conn : \A q : /\ [k EXCEPT !.toMod = q].toSrv = k.toSrv
                               /\ [k EXCEPT !.toSrv = q].toSrv = q
                               /\ [k EXCEPT !.sEnd = "closed", !.toSrv = q].toSrv = q
                               /\ [k EXCEPT !.mEnd = "closed", !.toMod = q].toSrv = k.toSrv
    BY DEF Conn
  <1>3. \A d \in DOMAIN cs : cs[d] \in Conn
    OBVIOUS
  <1>4. \A d, x : SrvWrite(cs, d, x)[c].toSrv = cs[c].toSrv
    BY <1>2, <1>3 DEF SrvWrite
  <1>5. \A C : CloseSrv(cs, C)[c].toSrv = IF c \in C THEN <<>> ELSE cs[c].toSrv
    BY <1>1, <1>2 DEF CloseSrv
  <1>6. \A C : CloseMod(cs, C)[c].toSrv = cs[c].toSrv
    BY <1>1, <1>2 DEF CloseMod
  <1>7. \A d, x : ModWrite(cs, d, x)[c].toSrv =
           IF c = d /\ ModCanWrite(cs, d) THEN Append(cs[c].toSrv, x) ELSE cs[c].toSrv
    BY <1>1, <1>2, <1>3 DEF ModWrite
  <1> QED
    BY <1>4, <1>5, <1>6, <1>7

(* What a step of the network does to the messages for a module. *)
LEMMA ToModuleKept ==
    ASSUME NEW cs \in Seq(Conn), NEW c \in DOMAIN cs
    PROVE  /\ \A d, x : ModWrite(cs, d, x)[c].toMod = cs[c].toMod
           /\ \A m, type : ModWriteAll(cs, m, type)[c].toMod = cs[c].toMod
           /\ \A C : CloseMod(cs, C)[c].toMod = IF c \in C THEN <<>> ELSE cs[c].toMod
           /\ \A C : CloseSrv(cs, C)[c].toMod = cs[c].toMod
  <1>1. cs[c] \in Conn
    OBVIOUS
  <1>2. \A k \in Conn : \A q : /\ [k EXCEPT !.toSrv = q].toMod = k.toMod
                               /\ [k EXCEPT !.sEnd = "closed", !.toSrv = q].toMod = k.toMod
                               /\ [k EXCEPT !.mEnd = "closed", !.toMod = q].toMod = q
    BY DEF Conn
  <1>3. \A d \in DOMAIN cs : cs[d] \in Conn
    OBVIOUS
  <1>4. \A d, x : ModWrite(cs, d, x)[c].toMod = cs[c].toMod
    BY <1>2, <1>3 DEF ModWrite
  <1>5. \A m, type : ModWriteAll(cs, m, type)[c].toMod = cs[c].toMod
    BY <1>1, <1>2 DEF ModWriteAll
  <1>6. \A C : CloseMod(cs, C)[c].toMod = IF c \in C THEN <<>> ELSE cs[c].toMod
    BY <1>1, <1>2 DEF CloseMod
  <1>7. \A C : CloseSrv(cs, C)[c].toMod = cs[c].toMod
    BY <1>1, <1>2 DEF CloseSrv
  <1> QED
    BY <1>4, <1>5, <1>6, <1>7

LEMMA ModuleWriteKept ==
    ASSUME NEW cs \in Seq(Conn), NEW c \in DOMAIN cs, NEW d, NEW x
    PROVE  ModWrite(cs, d, x)[c].toSrv =
              IF c = d /\ ModCanWrite(cs, d) THEN Append(cs[c].toSrv, x) ELSE cs[c].toSrv
  BY ToServerKept

LEMMA ServerIn ==
    ASSUME AddressInv, EndsUp, UdpAlone, OpenHand, Wires,
           NEW s \in Servers, ServerStep(s), NEW c \in DOMAIN conn
    PROVE  InStep(c)
  <1>1. /\ conn \in Seq(Conn) /\ conn[c] \in Conn /\ conn[c].toSrv \in Seq(SrvMsg)
        /\ conn[c].srv \in Servers /\ c # NoConn /\ On(ioTask, Servers)
        /\ ioTask[s] \in Task(SrvMsg) /\ sActive[s] \in {NoConn} \cup DOMAIN conn
        /\ sActive[s] # NoConn => conn[sActive[s]].srv = s
    BY InFacts, Facts DEF AddressInv, ServerTypes, On, Channels
  <1>2. conn'[c].srv = conn[c].srv
    BY DEF Wires
  <1>3. ASSUME conn[c].srv # s \/ ioTask'[s] = ioTask[s],
               ioTask' = [ioTask EXCEPT ![s] = ioTask'[s]]
        PROVE  InHandOf(c)' = InHandOf(c)
    <2>1. ioTask'[conn[c].srv] = ioTask[conn[c].srv]
      BY <1>1, <1>3 DEF On
    <2> QED
      BY <1>2, <2>1, SameHand
  <1>4. ASSUME UNCHANGED ioTask, conn'[c].toSrv = conn[c].toSrv
        PROVE  InStep(c)
    BY <1>2, <1>4, SameHand, SameIn
  <1>5. ASSUME ioTask[s].buf # <<>>, ioTask' = [ioTask EXCEPT ![s] = Rest(ioTask[s])],
               conn'[c].toSrv = conn[c].toSrv
        PROVE  InStep(c)
    BY <1>2, <1>5, RestIn
  <1>6. ASSUME NEW d \in DOMAIN conn, SrvAccept(s, d)
        PROVE  InStep(c)
    <2>1. conn'[c].toSrv = conn[c].toSrv
      BY <1>1, <1>6 DEF SrvAccept, Conn
    <2> QED
      BY <1>4, <1>6, <2>1 DEF SrvAccept
  <1>7. ASSUME NEW d \in DOMAIN conn, SrvEof(s, d)
        PROVE  InStep(c)
    <2>1. conn'[c].toSrv = conn[c].toSrv
      BY <1>1, <1>7, ToServerKept DEF SrvEof
    <2> QED
      BY <1>4, <1>7, <2>1 DEF SrvEof
  <1>8. ASSUME NEW d \in DOMAIN conn, NEW n \in 1..Len(conn[d].toSrv), SrvRead(s, d, n)
        PROVE  InStep(c)
    <2> DEFINE q == conn[d].toSrv
               t == Reading(d, SubSeq(q, 1, n))
    <2>1. /\ ioTask[s] = Idle /\ conn[d].srv = s /\ ioTask' = [ioTask EXCEPT ![s] = t]
          /\ conn' = [conn EXCEPT ![d].toSrv = SubSeq(q, n + 1, Len(q))]
      BY <1>8 DEF SrvRead
    <2>2. t.conn = d /\ t.buf = SubSeq(q, 1, n)
      BY DEF Reading
    <2>3. CASE c # d
      <3>1. conn'[c].toSrv = conn[c].toSrv
        BY <1>1, <2>1, <2>3
      <3>2. InHandOf(c)' = InHandOf(c)
        <4>1. CASE conn[c].srv # s
          <5>1. ioTask'[conn[c].srv] = ioTask[conn[c].srv]
            BY <1>1, <2>1, <4>1 DEF On
          <5> QED
            BY <1>2, <5>1, SameHand
        <4>2. CASE conn[c].srv = s
          <5>1. ioTask'[s].conn # c /\ ioTask[s].conn # c
            BY <1>1, <2>1, <2>2, <2>3 DEF On, Idle
          <5> QED
            BY <1>2, <4>2, <5>1, SameHand DEF InHandOf
        <4> QED
          BY <4>1, <4>2
      <3> QED
        BY <3>1, <3>2, SameIn
    <2>4. CASE c = d
      <3>1. conn'[c].toSrv = SubSeq(q, n + 1, Len(q))
        BY <1>1, <2>1, <2>4 DEF Conn
      <3>2. ioTask'[s] = t
        BY <1>1, <2>1 DEF On
      <3>3. InHandOf(c)' = SubSeq(q, 1, n)
        BY <1>2, <2>1, <2>2, <2>4, <3>2, SameHand
      <3>4. InHandOf(c) = <<>>
        BY <1>1, <2>1, <2>4 DEF InHandOf, Idle
      <3>5. SubSeq(q, 1, n) \o SubSeq(q, n + 1, Len(q)) = q /\ <<>> \o q = q
        <4>1. q \in Seq(SrvMsg)
          BY <1>1, <2>4
        <4> QED
          BY <4>1, SplitStream, ConcatEmptySeq
      <3>6. In(c)' = In(c)
        BY <2>4, <3>1, <3>3, <3>4, <3>5 DEF In
      <3> QED
        BY <3>6 DEF InStep
    <2> QED
      BY <2>3, <2>4
  <1>9. ASSUME NEW m \in Modules, SrvUdpDeclare(s, m)
        PROVE  InStep(c)
    <2> DEFINE k == OpenConn(s, m, "srv", "net")
               t == [Reading(Len(conn) + 1, <<Declare(m)>>) EXCEPT !.udp = TRUE]
    <2>1. /\ ioTask[s] = Idle
          /\ \/ UNCHANGED <<ioTask, conn>>
             \/ conn' = Append(conn, k) /\ ioTask' = [ioTask EXCEPT ![s] = t]
      BY <1>9 DEF SrvUdpDeclare
    <2>2. t.conn = Len(conn) + 1
      BY DEF Reading
    <2>3. c # Len(conn) + 1 /\ Append(conn, k)[c] = conn[c]
      BY <1>1, AppendGrows
    <2> HIDE DEF k, t
    <2>4. CASE conn' = Append(conn, k) /\ ioTask' = [ioTask EXCEPT ![s] = t]
      <3>1. conn'[c].toSrv = conn[c].toSrv
        BY <2>3, <2>4
      <3>2. InHandOf(c)' = InHandOf(c)
        <4>1. CASE conn[c].srv # s
          <5>1. ioTask'[conn[c].srv] = ioTask[conn[c].srv]
            BY <1>1, <2>4, <4>1 DEF On
          <5> QED
            BY <1>2, <5>1, SameHand
        <4>2. CASE conn[c].srv = s
          <5>1. ioTask'[s].conn # c /\ ioTask[s].conn # c
            BY <1>1, <2>1, <2>2, <2>3, <2>4 DEF On, Idle
          <5> QED
            BY <1>2, <4>2, <5>1, SameHand DEF InHandOf
        <4> QED
          BY <4>1, <4>2
      <3> QED
        BY <3>1, <3>2, SameIn
    <2> QED
      BY <1>4, <2>1, <2>4
  <1>10. CASE HandleDeclareNew(s)
    <2>1. /\ ioTask[s].buf # <<>> /\ UNCHANGED conn
          /\ \/ ioTask' = [ioTask EXCEPT ![s] = Rest(ioTask[s])]
             \/ ioTask' = [ioTask EXCEPT ![s].assigning = TRUE]
      BY <1>10 DEF HandleDeclareNew, SrvMsgIs
    <2>2. CASE ioTask' = [ioTask EXCEPT ![s].assigning = TRUE]
      <3>1. \A x \in Servers : /\ ioTask'[x].conn = ioTask[x].conn
                               /\ ioTask'[x].buf = ioTask[x].buf
        BY <1>1, <2>2 DEF On, Task
      <3>2. InHandOf(c)' = InHandOf(c)
        BY <1>1, <1>2, <3>1, SameHand DEF InHandOf
      <3> QED
        BY <2>1, <3>2, SameIn
    <2> QED
      BY <1>5, <2>1, <2>2
  <1>11. CASE AssignModuleID(s)
    <2>1. ioTask[s].buf # <<>>
      BY <1>11, Facts DEF AddressInv, Assigning, AssignModuleID
    <2>2. conn'[c].toSrv = conn[c].toSrv
      BY <1>1, <1>11, ToServerKept DEF AssignModuleID
    <2> QED
      BY <1>5, <1>11, <2>1, <2>2 DEF AssignModuleID
  <1>12. CASE HandleDeclareDuplicate(s)
    <2>1. /\ ioTask[s].buf # <<>> /\ ioTask' = [ioTask EXCEPT ![s] = Rest(ioTask[s])]
          /\ \/ UNCHANGED conn
             \/ ioTask[s].udp /\ conn' = CloseSrv(conn, {sActive[s]})
      BY <1>12 DEF HandleDeclareDuplicate, SrvMsgIs
    <2>2. CASE ioTask[s].udp /\ conn' = CloseSrv(conn, {c})
      <3>1. conn'[c].toSrv = <<>> /\ conn'[c].sEnd = "closed"
        BY <1>1, <2>2, ToServerKept, ClosesEnds
      <3>2. Rest(ioTask[s]) = Idle
        BY <2>2 DEF UdpAlone, Rest
      <3>3. ioTask'[s].conn # c
        BY <1>1, <2>1, <3>2 DEF On, Idle
      <3>4. CASE conn[c].srv = s
        <4>1. InHandOf(c)' = <<>>
          BY <1>2, <3>3, <3>4, SameHand
        <4> QED
          BY <3>1, <4>1, LostIn
      <3>5. CASE conn[c].srv # s
        <4>1. conn[c].toSrv = <<>>
          <5>1. c # sActive[s]
            BY <1>1, <3>5
          <5>2. conn'[c].toSrv = conn[c].toSrv
            BY <1>1, <2>1, <5>1, ToServerKept
          <5> QED
            BY <3>1, <5>2
        <4> QED
          BY <1>5, <2>1, <3>1, <4>1
      <3> QED
        BY <3>4, <3>5
    <2>3. CASE conn' = CloseSrv(conn, {sActive[s]}) /\ c # sActive[s]
      <3>1. conn'[c].toSrv = conn[c].toSrv
        BY <1>1, <2>3, ToServerKept
      <3> QED
        BY <1>5, <2>1, <3>1
    <2> QED
      BY <1>5, <2>1, <2>2, <2>3
  <1>13. HandleModuleShutdown(s) \/ HandleExpose(s) \/ HandleDesc(s) \/ HandleValue(s)
            => InStep(c)
    <2>1. HandleModuleShutdown(s) \/ HandleExpose(s) \/ HandleDesc(s) \/ HandleValue(s)
            => /\ ioTask[s].buf # <<>> /\ UNCHANGED conn
               /\ ioTask' = [ioTask EXCEPT ![s] = Rest(ioTask[s])]
      BY DEF HandleModuleShutdown, HandleExpose, HandleDesc, HandleValue, SrvApply, SrvMsgIs
    <2> QED
      BY <1>5, <2>1
  <1>14. CASE Discover(s)
    <2>1. PICK all \in Seq(Conn), used \in SUBSET Nat : Discovered(s, all, used)
      BY <1>14, DiscoverShape DEF AddressInv
    <2>2. conn'[c].toSrv = conn[c].toSrv
      BY <1>1, <2>1 DEF Discovered, Conn
    <2> QED
      BY <1>4, <1>14, <2>2 DEF Discover
  <1>15. SendDiscovery(s) \/ (\E r \in modules[s] : Disconnect(s, r) \/ CallRemote(s, r))
            => InStep(c)
    <2>1. SendDiscovery(s) \/ (\E r \in modules[s] : Disconnect(s, r) \/ CallRemote(s, r))
            => UNCHANGED ioTask /\ \E d, x : conn' = SrvWrite(conn, d, x)
      BY DEF SendDiscovery, Disconnect, CallRemote
    <2> QED
      BY <1>1, <1>4, <2>1, ToServerKept
  <1>16. ASSUME NEW m \in Modules, Connect(s, m)
         PROVE  InStep(c)
    <2>1. conn'[c].toSrv = conn[c].toSrv
      BY <1>1, <1>16, AppendGrows DEF Connect
    <2> QED
      BY <1>4, <1>16, <2>1 DEF Connect
  <1>17. CASE SrvStop(s)
    <2>1. /\ ioTask' = [ioTask EXCEPT ![s] = Idle]
          /\ conn' = CloseSrv(conn, {d \in DOMAIN conn : conn[d].srv = s})
      BY <1>17 DEF SrvStop, SrvMemory
    <2>2. CASE conn[c].srv = s
      <3>1. conn'[c].toSrv = <<>> /\ conn'[c].sEnd = "closed"
        BY <1>1, <2>1, <2>2, ToServerKept, ClosesEnds
      <3>2. ioTask'[s].conn # c
        BY <1>1, <2>1 DEF On, Idle
      <3> QED
        BY <1>2, <2>2, <3>1, <3>2, SameHand, LostIn
    <2>3. CASE conn[c].srv # s
      <3>1. conn'[c].toSrv = conn[c].toSrv
        BY <1>1, <2>1, <2>3, ToServerKept
      <3>2. ioTask'[conn[c].srv] = ioTask[conn[c].srv]
        BY <1>1, <2>1, <2>3 DEF On
      <3> QED
        BY <1>2, <3>1, <3>2, SameHand, SameIn
    <2> QED
      BY <2>2, <2>3
  <1>18. CASE SrvStart(s)
    <2>1. UNCHANGED conn /\ ioTask' = [ioTask EXCEPT ![s] = Idle] /\ ~sUp[s]
      BY <1>18 DEF SrvStart, SrvMemory
    <2>2. ioTask[s].buf = <<>>
      <3> SUFFICES ASSUME ioTask[s].buf # <<>> PROVE FALSE
        OBVIOUS
      <3>1. ioTask[s].conn \in DOMAIN conn /\ conn[ioTask[s].conn].srv = s
            /\ conn[ioTask[s].conn].sEnd = "open"
        BY DEF AddressInv, InHand, OpenHand
      <3> QED
        BY <2>1, <3>1 DEF EndsUp
    <2>3. InHandOf(c)' = InHandOf(c)
      <3>1. CASE conn[c].srv = s
        <4>1. ioTask'[s].buf = <<>>
          BY <1>1, <2>1 DEF On, Idle
        <4> QED
          BY <1>2, <2>2, <3>1, <4>1, SameHand DEF InHandOf
      <3>2. CASE conn[c].srv # s
        <4>1. ioTask'[conn[c].srv] = ioTask[conn[c].srv]
          BY <1>1, <2>1, <3>2 DEF On
        <4> QED
          BY <1>2, <4>1, SameHand
      <3> QED
        BY <3>1, <3>2
    <2> QED
      BY <2>1, <2>3, SameIn
  <1>19. ObjectWork(s) \/ EndDisconnect(s) => InStep(c)
    BY <1>4, ObjectWorkKeeps
  <1> QED
    BY <1>6, <1>7, <1>8, <1>9, <1>10, <1>11, <1>12, <1>13, <1>14, <1>15, <1>16, <1>17,
       <1>18, <1>19 DEF ServerStep, SrvIO, SrvPython

LEMMA Pair ==
    ASSUME NEW M, NEW e \in M, NEW y \in M
    PROVE  Append(<<e>>, y) = <<e, y>>
  <1> DEFINE u == Append(<<e>>, y)
             v == <<e, y>>
  <1>1. u \in Seq(M) /\ Len(u) = 2 /\ u[1] = e /\ u[2] = y
    <2>1. <<e>> \in Seq(M) /\ Len(<<e>>) = 1 /\ <<e>>[1] = e
      OBVIOUS
    <2> QED
      BY <2>1, AppendProperties
  <1>2. v \in Seq(M) /\ Len(v) = 2 /\ v[1] = e /\ v[2] = y
    OBVIOUS
  <1> HIDE DEF u, v
  <1>3. \A i \in 1..Len(u) : u[i] = v[i]
    BY <1>1, <1>2
  <1>4. u = v
    BY <1>1, <1>2, <1>3, SeqEqual
  <1> QED
    BY <1>4 DEF u, v

(* What a program writes goes to the end of the stream. *)
LEMMA WrittenIn ==
    ASSUME AddressInv, NEW c \in DOMAIN conn, InHandOf(c)' = InHandOf(c),
           NEW w \in Seq(SrvMsg), Writes(conn[c].mod, c, w),
           conn'[c].toSrv = conn[c].toSrv \o w
    PROVE  InStep(c)
  <1>1. InHandOf(c) \in Seq(SrvMsg) /\ conn[c].toSrv \in Seq(SrvMsg)
    BY InFacts
  <1> DEFINE h == InHandOf(c)
             q == conn[c].toSrv
  <1>2. h \o (q \o w) = (h \o q) \o w
    <2>1. h \in Seq(SrvMsg) /\ q \in Seq(SrvMsg)
      BY <1>1
    <2> HIDE DEF h, q
    <2> QED
      BY <2>1, ConcatAssociative
  <1>3. In(c)' = In(c) \o w
    BY <1>2 DEF In
  <1> QED
    BY <1>3 DEF InStep, Written

LEMMA ToAllAppends ==
    ASSUME AddressInv, NEW m \in Modules, NEW type \in Reports, NEW c \in DOMAIN conn
    PROVE  LET q == ModWriteAll(conn, m, type)[c].toSrv
           IN \/ q = conn[c].toSrv
              \/ /\ conn[c].mod = m
                 /\ \E x \in SrvMsg : /\ x.type = type /\ UnderItsId(m, c, x)
                                      /\ q = Append(conn[c].toSrv, x)
  <1> DEFINE sids == KeysOf(mMap[m], c) \cap DOMAIN serverMap[m]
             id   == serverMap[m][CHOOSE k \in sids : TRUE]
             x    == FromModule(type, m, id)
             cs   == ModWriteAll(conn, m, type)
  <1>1. conn[c] \in Conn
    BY InFacts
  <1>2. CASE sids # {} /\ ModCanWrite(conn, c)
    <2>1. PICK k \in sids : id = serverMap[m][k]
      BY <1>2
    <2>2. id \in {Unassigned} \cup Ids /\ conn[c].mod = m
      BY <2>1, HeldFacts DEF KeysOf
    <2>3. cs[c] = [conn[c] EXCEPT !.toSrv = Append(conn[c].toSrv, x)]
      BY <1>2 DEF ModWriteAll
    <2>4. x.type = type /\ UnderItsId(m, c, x)
      <3>1. x.type = type /\ x.id = Byte(id)
        BY DEF FromModule
      <3> HIDE DEF id, x
      <3> QED
        BY <2>1, <3>1 DEF UnderItsId, KeysOf
    <2> HIDE DEF id
    <2>5. x \in SrvMsg
      <3>1. id \in Int
        BY <2>2, ByteType DEF Unassigned
      <3> QED
        BY <3>1, ModuleMessages
    <2> HIDE DEF x, cs
    <2>6. cs[c].toSrv = Append(conn[c].toSrv, x)
      BY <1>1, <2>3 DEF Conn
    <2> QED
      BY <2>2, <2>4, <2>5, <2>6 DEF cs
  <1>3. CASE ~(sids # {} /\ ModCanWrite(conn, c))
    <2>1. cs[c] = conn[c]
      BY <1>3 DEF ModWriteAll
    <2> QED
      BY <2>1
  <1> QED
    BY <1>2, <1>3

LEMMA AssignIn ==
    ASSUME AddressInv, Wires, NEW m \in Modules, HandleAssignId(m), NEW c \in DOMAIN conn
    PROVE  InStep(c)
  <1> DEFINE x == Head(modTask[m].buf)
             k == x.sid
             a == mActive[m]
             map == IF a = NoConn THEN mMap[m] ELSE Put(mMap[m], k, a)
             dst == IF k \in DOMAIN map THEN map[k] ELSE NoConn
             e == Expose(m, x.id)
             y == Describe(m, x.id)
             cs == ModWrite(conn, a, e)
             q == conn[c].toSrv
  <1>1. /\ conn \in Seq(Conn) /\ q \in Seq(SrvMsg) /\ c # NoConn
        /\ \A d \in DOMAIN conn : conn[d] \in Conn
    BY InFacts, Facts DEF AddressInv
  <1>2. InHandOf(c)' = InHandOf(c)
    BY SameHand DEF HandleAssignId, Wires
  <1>3. ASSUME conn'[c].toSrv = q
        PROVE  InStep(c)
    BY <1>2, <1>3, SameIn
  <1>4. /\ x \in ModMsg /\ x.type = "MODULE_ASSIGN_ID" /\ modTask[m].buf # <<>>
        /\ a # NoConn => a \in DOMAIN conn /\ conn[a].mod = m
    BY ModInHand DEF HandleAssignId, ModMsgIs
  <1>5. e \in SrvMsg /\ y \in SrvMsg
    <2>1. x.id \in Int
      BY <1>4, ByteType DEF ModMsg
    <2> QED
      BY <2>1, ModuleMessages DEF Expose, Describe, Reports
  <1>6. UNCHANGED conn \/ (x.name = Name[m] /\ conn' = ModWrite(cs, dst, y))
    BY DEF HandleAssignId, Expose, Describe
  <1>7. CASE x.name = Name[m] /\ conn' = ModWrite(cs, dst, y) /\ a = NoConn
    <2>1. cs = conn
      BY <1>7 DEF ModWrite, ModCanWrite
    <2>2. dst # NoConn => dst \in DOMAIN conn /\ conn[dst].mod = m
      BY <1>7, HeldFacts
    <2> HIDE DEF cs, dst, y
    <2>3. conn'[c].toSrv = q \/ (c = dst /\ conn'[c].toSrv = Append(q, y))
      <3>1. conn' = ModWrite(conn, dst, y)
        BY <1>7, <2>1
      <3>2. ModWrite(conn, dst, y)[c].toSrv =
              IF c = dst /\ ModCanWrite(conn, dst) THEN Append(q, y) ELSE q
        BY <1>1, ModuleWriteKept
      <3> QED
        BY <3>1, <3>2
    <2>4. CASE c = dst /\ conn'[c].toSrv = Append(q, y)
      <3>1. conn'[c].toSrv = q \o <<y>> /\ <<y>> \in Seq(SrvMsg)
        BY <1>1, <1>5, <2>4, AppendIsConcat
      <3>2. Writes(m, c, <<y>>) /\ conn[c].mod = m
        BY <1>1, <1>4, <1>7, <2>2, <2>4 DEF Writes, Answers, y
      <3> QED
        BY <1>2, <3>1, <3>2, WrittenIn
    <2> QED
      BY <1>3, <2>3, <2>4
  <1>8. CASE x.name = Name[m] /\ conn' = ModWrite(cs, dst, y) /\ a # NoConn
    <2>1. dst = a
      BY <1>8 DEF Put
    <2>2. cs \in Seq(Conn) /\ SameEnds(conn, cs)
      <3>1. SameEnds(conn, cs)
        BY <1>1, WritesKeepEnds
      <3>2. cs \in Seq(Conn)
        BY <1>1, <1>4, <1>5, ModWriteType
      <3> QED
        BY <3>1, <3>2
    <2>3. cs[c].toSrv = IF c = a /\ ModCanWrite(conn, a) THEN Append(q, e) ELSE q
      BY <1>1, ToServerKept
    <2>4. a # NoConn => (ModCanWrite(cs, a) <=> ModCanWrite(conn, a))
      BY <1>4, <2>2 DEF SameEnds, ModCanWrite
    <2> HIDE DEF cs, dst, e, y
    <2>5. conn'[c].toSrv = IF c = a /\ ModCanWrite(cs, a) THEN Append(cs[c].toSrv, y)
                           ELSE cs[c].toSrv
      <3>1. c \in DOMAIN cs
        BY <2>2 DEF SameEnds
      <3> QED
        BY <1>8, <2>1, <2>2, <3>1, ToServerKept
    <2>6. CASE c = a /\ ModCanWrite(conn, a)
      <3>1. conn'[c].toSrv = Append(Append(q, e), y)
        BY <1>8, <2>3, <2>4, <2>5, <2>6
      <3>2. Append(Append(q, e), y) = q \o <<e, y>>
        <4>1. q \o Append(<<e>>, y) = (q \o <<e>>) \o <<y>>
          BY <1>1, <1>5, Lists, Streams
        <4>2. Append(q, e) = q \o <<e>> /\ q \o <<e>> \in Seq(SrvMsg)
          BY <1>1, <1>5, AppendIsConcat, ConcatProperties
        <4>3. Append(q \o <<e>>, y) = (q \o <<e>>) \o <<y>>
          BY <1>5, <4>2, AppendIsConcat
        <4>4. Append(<<e>>, y) = <<e, y>>
          BY <1>5, Pair
        <4> QED
          BY <4>1, <4>2, <4>3, <4>4
      <3>3. <<e, y>> \in Seq(SrvMsg)
        BY <1>5
      <3>4. Writes(m, c, <<e, y>>) /\ conn[c].mod = m
        BY <1>4, <1>8, <2>6 DEF Writes, Answers, e, y
      <3> QED
        BY <1>2, <3>1, <3>2, <3>3, <3>4, WrittenIn
    <2>7. CASE ~(c = a /\ ModCanWrite(conn, a))
      <3>1. conn'[c].toSrv = q
        BY <1>8, <2>3, <2>4, <2>5, <2>7
      <3> QED
        BY <1>3, <3>1
    <2> QED
      BY <2>6, <2>7
  <1> QED
    BY <1>3, <1>6, <1>7, <1>8

LEMMA ModuleIn ==
    ASSUME AddressInv, Wires, ~Dials,
           NEW m \in Modules, ModuleStep(m), NEW c \in DOMAIN conn
    PROVE  InStep(c)
  <1>1. /\ conn \in Seq(Conn) /\ conn[c] \in Conn /\ conn[c].toSrv \in Seq(SrvMsg)
        /\ c # NoConn
    BY InFacts, Facts DEF AddressInv
  <1>2. InHandOf(c)' = InHandOf(c)
    BY ModuleLeaves, SameHand DEF Wires
  <1>3. ASSUME conn'[c].toSrv = conn[c].toSrv
        PROVE  InStep(c)
    BY <1>2, <1>3, SameIn
  <1>4. ASSUME NEW x \in SrvMsg, conn'[c].toSrv = Append(conn[c].toSrv, x), conn[c].mod = m,
               UnderItsId(m, c, x),
               \/ x.type \in {"ATTR_VALUE_UPDATE", "ATTR_METD_RESP"}
               \/ x.type = "MODULE_SHUTDOWN" /\ conn'[c].mEnd = "closed"
        PROVE  InStep(c)
    <2>1. conn'[c].toSrv = conn[c].toSrv \o <<x>> /\ <<x>> \in Seq(SrvMsg)
      BY <1>1, <1>4, AppendIsConcat
    <2>2. Writes(m, c, <<x>>)
      BY <1>4 DEF Writes
    <2> QED
      BY <1>2, <1>4, <2>1, <2>2, WrittenIn
  <1>5. (\E d \in DOMAIN conn : ModAccept(m, d) \/ ModEof(m, d)
           \/ \E n \in 1..Len(conn[d].toMod) : ModRead(m, d, n)) => InStep(c)
    <2>1. \A d \in DOMAIN conn : ModEof(m, d) => conn'[c].toSrv = conn[c].toSrv
      BY <1>1, ToServerKept DEF ModEof
    <2>2. \A d \in DOMAIN conn : ModAccept(m, d) => conn'[c].toSrv = conn[c].toSrv
      BY <1>1 DEF ModAccept, Conn
    <2>3. \A d \in DOMAIN conn : \A n \in 1..Len(conn[d].toMod) : ModRead(m, d, n)
             => conn'[c].toSrv = conn[c].toSrv
      BY <1>1 DEF ModRead, Conn
    <2> QED
      BY <1>3, <2>1, <2>2, <2>3
  <1>6. ASSUME NEW s \in Servers, ModUdpDiscovery(m, s)
        PROVE  InStep(c)
    <2> DEFINE d  == Len(conn) + 1
               cs == Append(conn, OpenConn(s, m, "mod", "net"))
    <2>1. UNCHANGED conn \/ conn' = CloseMod(cs, {d}) \/ conn' = ModWrite(cs, d, Declare(m))
      BY <1>6 DEF ModUdpDiscovery
    <2>2. cs \in Seq(Conn) /\ d \notin DOMAIN conn /\ c \in DOMAIN cs /\ cs[c] = conn[c]
      BY <1>1, AppendGrows
    <2> HIDE DEF cs, d
    <2>3. conn'[c].toSrv = conn[c].toSrv
      BY <2>1, <2>2, ToServerKept
    <2> QED
      BY <1>3, <2>3
  <1>7. HandleDiscovery(m) => FALSE
    BY ModInHand DEF HandleDiscovery, ModMsgIs, AddressInv, Addressed
  <1>8. HandleServerShutdown(m) => InStep(c)
    BY <1>3 DEF HandleServerShutdown
  <1>9. HandleAssignId(m) => InStep(c)
    BY AssignIn
  <1>10. CASE HandleCall(m)
    <2> DEFINE x == FromModule("ATTR_METD_RESP", m, Head(modTask[m].buf).id)
               d == ModChannel(m, Head(modTask[m].buf).sid)
    <2>1. \/ UNCHANGED conn
          \/ /\ conn' = ModWrite(conn, d, x)
             /\ Holds(m, Head(modTask[m].buf).sid, Head(modTask[m].buf).id)
      BY <1>10 DEF HandleCall, Holds
    <2>2. /\ d # NoConn => conn[d].mod = m
          /\ d # NoConn /\ Holds(m, Head(modTask[m].buf).sid, Head(modTask[m].buf).id)
                => UnderItsId(m, d, x)
      <3>1. x.id = Byte(Head(modTask[m].buf).id)
        BY DEF FromModule
      <3> QED
        BY <3>1, HeldFacts DEF ModChannel, UnderItsId, Holds
    <2>3. x \in SrvMsg /\ x.type = "ATTR_METD_RESP"
      <3>1. Head(modTask[m].buf) \in ModMsg /\ Head(modTask[m].buf).type = "CALL_ATTR_METD"
        BY <1>10, ModInHand DEF HandleCall, ModMsgIs
      <3>2. Head(modTask[m].buf).id \in Int
        BY <3>1, ByteType DEF ModMsg
      <3>3. x.type = "ATTR_METD_RESP"
        BY DEF FromModule
      <3> QED
        BY <3>2, <3>3, ModuleMessages DEF Reports
    <2> HIDE DEF x, d
    <2>4. \/ conn'[c].toSrv = conn[c].toSrv
          \/ /\ c = d /\ UnderItsId(m, d, x)
             /\ conn'[c].toSrv = Append(conn[c].toSrv, x)
      <3>1. CASE /\ conn' = ModWrite(conn, d, x)
                 /\ Holds(m, Head(modTask[m].buf).sid, Head(modTask[m].buf).id)
        <4>1. ModWrite(conn, d, x)[c].toSrv =
                IF c = d /\ ModCanWrite(conn, d) THEN Append(conn[c].toSrv, x)
                ELSE conn[c].toSrv
          BY <1>1, ModuleWriteKept
        <4> QED
          BY <1>1, <2>2, <3>1, <4>1
      <3> QED
        BY <2>1, <3>1
    <2> QED
      BY <1>1, <1>3, <1>4, <2>2, <2>3, <2>4
  <1>11. CASE UpdateAttribute(m)
    <2>1. conn' = ModWriteAll(conn, m, "ATTR_VALUE_UPDATE")
      BY <1>11 DEF UpdateAttribute
    <2> QED
      BY <1>3, <1>4, <2>1, ToAllAppends DEF Reports
  <1>12. CASE ModStart(m)
    <2>1. conn'[c] = conn[c]
      BY <1>12, ModStartShape DEF AddressInv, Started
    <2> QED
      BY <1>3, <2>1
  <1>13. CASE ModCrash(m)
    <2>1. conn'[c].toSrv = conn[c].toSrv
      BY <1>1, <1>13, ToServerKept DEF ModCrash
    <2> QED
      BY <1>3, <2>1
  <1>14. CASE ModShutdown(m)
    <2> DEFINE cs == ModWriteAll(conn, m, "MODULE_SHUTDOWN")
    <2>1. conn' = CloseMod(cs, ModConns(m))
      BY <1>14 DEF ModShutdown
    <2>2. cs \in Seq(Conn) /\ DOMAIN cs = DOMAIN conn
      BY WrittenToAll DEF Reports
    <2>3. \/ cs[c].toSrv = conn[c].toSrv
          \/ /\ conn[c].mod = m
             /\ \E x \in SrvMsg : /\ x.type = "MODULE_SHUTDOWN" /\ UnderItsId(m, c, x)
                                  /\ cs[c].toSrv = Append(conn[c].toSrv, x)
      BY ToAllAppends DEF Reports
    <2> HIDE DEF cs
    <2>4. conn'[c].toSrv = cs[c].toSrv
      BY <2>1, <2>2, ToServerKept
    <2>5. conn[c].mod = m => conn'[c].mEnd = "closed"
      BY <2>1, <2>2, ClosesEnds DEF ModConns
    <2> QED
      BY <1>3, <1>4, <2>3, <2>4, <2>5
  <1> QED
    BY <1>5, <1>6, <1>7, <1>8, <1>9, <1>10, <1>11, <1>12, <1>13, <1>14
    DEF ModuleStep, ModLoop, ModProgram

LEMMA HandStep ==
    ASSUME AddressInv, TypeInv', [Next]_vars, UdpAlone, OpenHand
    PROVE  UdpAlone' /\ OpenHand'
  <1> SUFFICES ASSUME NEW s \in Servers
               PROVE  /\ ioTask'[s].udp => Len(ioTask'[s].buf) <= 1
                      /\ ioTask'[s].buf # <<>> => conn'[ioTask'[s].conn].sEnd = "open"
    BY DEF UdpAlone, OpenHand
  <1> DEFINE t == ioTask[s]
             Good == /\ ioTask'[s].udp => Len(ioTask'[s].buf) <= 1
                     /\ ioTask'[s].buf # <<>> => conn'[ioTask'[s].conn].sEnd = "open"
  <1>1. /\ conn \in Seq(Conn) /\ \A c \in DOMAIN conn : conn[c] \in Conn
        /\ On(ioTask, Servers) /\ t \in Task(SrvMsg) /\ t.buf \in Seq(SrvMsg)
        /\ t.buf # <<>> => t.conn \in DOMAIN conn /\ conn[t.conn].srv = s
        /\ t.udp => Len(t.buf) <= 1
        /\ t.buf # <<>> => conn[t.conn].sEnd = "open"
    <2>1. On(ioTask, Servers) /\ t \in Task(SrvMsg)
      BY Facts DEF AddressInv, ServerTypes, On
    <2> QED
      BY <2>1, Facts DEF AddressInv, InHand, UdpAlone, OpenHand, Task
  <1>2. ioTask'[s].buf = <<>> => Good
    OBVIOUS
  <1>3. ASSUME ioTask'[s] = t, t.buf # <<>> => conn'[t.conn].sEnd = conn[t.conn].sEnd
        PROVE  Good
    BY <1>1, <1>3
  <1>4. ASSUME ioTask'[s] = t, SameEnds(conn, conn')
        PROVE  Good
    BY <1>1, <1>3, <1>4 DEF SameEnds
  <1>5. ASSUME t.buf # <<>>, ioTask' = [ioTask EXCEPT ![s] = Rest(t)], SameEnds(conn, conn')
        PROVE  Good
    <2>1. ioTask'[s] = Rest(t)
      BY <1>1, <1>5 DEF On
    <2>2. CASE Len(t.buf) <= 1
      BY <2>1, <2>2 DEF Rest, Idle
    <2>3. CASE ~(Len(t.buf) <= 1)
      <3>1. Rest(t).conn = t.conn /\ Rest(t).udp = t.udp
        BY <1>1, <2>3 DEF Rest, Task
      <3>2. conn'[t.conn].sEnd = "open" /\ ~t.udp
        BY <1>1, <1>5, <2>3 DEF SameEnds
      <3> QED
        BY <2>1, <3>1, <3>2
    <2> QED
      BY <2>2, <2>3
  <1>6. SameEnds(conn, conn)
    BY DEF SameEnds
  <1>7. CASE \/ \E x \in Servers \ {s} : ServerStep(x)
             \/ \E m \in Modules : ModuleStep(m)
             \/ UNCHANGED vars
    <2>1. ioTask'[s] = t
      BY <1>7, OthersAlone DEF AddressInv
    <2>2. \A c \in DOMAIN conn : conn[c].srv = s => conn'[c].sEnd = conn[c].sEnd
      <3>1. (\E x \in Servers \ {s} : ServerStep(x))
              => \A c \in DOMAIN conn : conn[c].srv = s => conn'[c].sEnd = conn[c].sEnd
        BY ServerEnds DEF SrvEnds
      <3>2. (\E m \in Modules : ModuleStep(m))
              => \A c \in DOMAIN conn : conn'[c].sEnd = conn[c].sEnd
        BY ModuleEnds DEF ModEnds
      <3> QED
        BY <1>7, <3>1, <3>2 DEF vars
    <2> QED
      BY <1>1, <1>3, <2>1, <2>2
  <1>8. CASE ServerStep(s)
    <2>1. \A c \in DOMAIN conn : SrvAccept(s, c) \/ SrvEof(s, c) => Good
      <3>1. \A c \in DOMAIN conn : SrvAccept(s, c) \/ SrvEof(s, c)
               => t = Idle /\ UNCHANGED ioTask
        BY DEF SrvAccept, SrvEof
      <3> QED
        BY <1>2, <3>1 DEF Idle
    <2>2. ASSUME NEW c \in DOMAIN conn, NEW n, SrvRead(s, c, n)
          PROVE  Good
      <3>1. ioTask'[s] = Reading(c, SubSeq(conn[c].toSrv, 1, n))
        BY <1>1, <2>2 DEF SrvRead, On
      <3>2. ioTask'[s].conn = c /\ ~ioTask'[s].udp
        BY <3>1 DEF Reading
      <3>3. conn'[c].sEnd = "open"
        BY <1>1, <2>2 DEF SrvRead, Conn
      <3> QED
        BY <3>2, <3>3
    <2>3. ASSUME NEW m \in Modules, SrvUdpDeclare(s, m)
          PROVE  Good
      <3> DEFINE k == OpenConn(s, m, "srv", "net")
                 b == <<Declare(m)>>
                 u == [Reading(Len(conn) + 1, b) EXCEPT !.udp = TRUE]
      <3>1. \/ t = Idle /\ UNCHANGED ioTask
            \/ conn' = Append(conn, k) /\ ioTask' = [ioTask EXCEPT ![s] = u]
        BY <2>3 DEF SrvUdpDeclare
      <3>2. Append(conn, k)[Len(conn) + 1] = k
        BY <1>1, AppendGrows
      <3>3. k.sEnd = "open"
        BY DEF OpenConn
      <3>4. u.conn = Len(conn) + 1 /\ u.buf = b /\ Len(b) = 1
        BY DEF Reading
      <3> HIDE DEF k, u, b
      <3>5. CASE conn' = Append(conn, k) /\ ioTask' = [ioTask EXCEPT ![s] = u]
        <4>1. ioTask'[s] = u
          BY <1>1, <3>5 DEF On
        <4> QED
          <5>1. ioTask'[s].conn = Len(conn) + 1 /\ Len(ioTask'[s].buf) <= 1
            <6>1. ioTask'[s].conn = Len(conn) + 1 /\ ioTask'[s].buf = b
              BY <3>4, <4>1
            <6> QED
              BY <6>1 DEF b
          <5>2. conn'[Len(conn) + 1].sEnd = "open"
            BY <3>2, <3>3, <3>5
          <5> QED
            BY <5>1, <5>2
      <3> QED
        BY <1>2, <3>1, <3>5 DEF Idle
    <2>4. CASE HandleDeclareNew(s)
      <3>1. /\ t.buf # <<>> /\ UNCHANGED conn
            /\ \/ ioTask' = [ioTask EXCEPT ![s] = Rest(t)]
               \/ ioTask' = [ioTask EXCEPT ![s].assigning = TRUE]
        BY <2>4 DEF HandleDeclareNew, SrvMsgIs
      <3>2. CASE ioTask' = [ioTask EXCEPT ![s].assigning = TRUE]
        <4>1. /\ ioTask'[s].conn = t.conn /\ ioTask'[s].buf = t.buf
              /\ ioTask'[s].udp = t.udp
          BY <1>1, <3>2 DEF On, Task
        <4> QED
          BY <1>1, <3>1, <4>1
      <3> QED
        BY <1>5, <1>6, <3>1, <3>2
    <2>5. CASE AssignModuleID(s)
      <3>1. t.buf # <<>>
        BY <2>5, Facts DEF AddressInv, Assigning, AssignModuleID
      <3>2. SameEnds(conn, conn')
        BY <1>1, <2>5, WritesKeepEnds DEF AssignModuleID
      <3> QED
        BY <1>5, <2>5, <3>1, <3>2 DEF AssignModuleID
    <2>6. CASE HandleDeclareDuplicate(s)
      <3>1. /\ t.buf # <<>> /\ ioTask' = [ioTask EXCEPT ![s] = Rest(t)]
            /\ t.udp \/ UNCHANGED conn
        BY <2>6 DEF HandleDeclareDuplicate, SrvMsgIs
      <3>2. t.udp => ioTask'[s] = Idle
        BY <1>1, <3>1 DEF Rest, On
      <3> QED
        BY <1>2, <1>5, <1>6, <3>1, <3>2 DEF Idle
    <2>7. HandleModuleShutdown(s) \/ HandleExpose(s) \/ HandleDesc(s) \/ HandleValue(s)
            => Good
      <3>1. HandleModuleShutdown(s) \/ HandleExpose(s) \/ HandleDesc(s) \/ HandleValue(s)
            => /\ t.buf # <<>> /\ UNCHANGED conn
               /\ ioTask' = [ioTask EXCEPT ![s] = Rest(t)]
        BY DEF HandleModuleShutdown, HandleExpose, HandleDesc, HandleValue, SrvApply, SrvMsgIs
      <3> QED
        BY <1>5, <1>6, <3>1
    <2>10. ObjectWork(s) \/ EndDisconnect(s) => Good
      BY <1>4, <1>6, ObjectWorkKeeps
    <2>8. SrvPython(s) => Good
      <3>1. SrvPython(s) => UNCHANGED ioTask
        BY ObjectWorkKeeps DEF SrvPython, Discover, SendDiscovery, Connect, Disconnect, CallRemote
      <3>2. Discover(s) => \A c \in DOMAIN conn : conn'[c].sEnd = conn[c].sEnd
        <4> SUFFICES ASSUME Discover(s), NEW c \in DOMAIN conn
                     PROVE  conn'[c].sEnd = conn[c].sEnd
          OBVIOUS
        <4>1. PICK all \in Seq(Conn), used \in SUBSET Nat : Discovered(s, all, used)
          BY DiscoverShape DEF AddressInv
        <4> QED
          BY <1>1, <4>1 DEF Discovered, Conn
      <3>3. \A m \in Modules : Connect(s, m)
               => \A c \in DOMAIN conn : conn'[c].sEnd = conn[c].sEnd
        BY <1>1, AppendGrows DEF Connect
      <3>4. SendDiscovery(s) \/ (\E r \in modules[s] : Disconnect(s, r) \/ CallRemote(s, r))
               => SameEnds(conn, conn')
        <4>1. SendDiscovery(s) \/ (\E r \in modules[s] : Disconnect(s, r) \/ CallRemote(s, r))
                => \E d, x : conn' = SrvWrite(conn, d, x)
          BY DEF SendDiscovery, Disconnect, CallRemote
        <4> QED
          BY <1>1, <4>1, WritesKeepEnds
      <3> QED
        BY <1>1, <1>3, <1>4, <2>10, <3>1, <3>2, <3>3, <3>4 DEF SrvPython
    <2>9. SrvStop(s) \/ SrvStart(s) => Good
      <3>1. SrvStop(s) \/ SrvStart(s) => ioTask' = [ioTask EXCEPT ![s] = Idle]
        BY DEF SrvStop, SrvStart, SrvMemory
      <3>2. SrvStop(s) \/ SrvStart(s) => ioTask'[s] = Idle
        BY <1>1, <3>1 DEF On
      <3> QED
        BY <1>2, <3>2 DEF Idle
    <2> QED
      BY <1>8, <2>1, <2>2, <2>3, <2>4, <2>5, <2>6, <2>7, <2>8, <2>9, <2>10
      DEF ServerStep, SrvIO
  <1> QED
    BY <1>7, <1>8, EachStep

(* Every step on a stream, and the streams that are new. *)
HandInv == EndsUp /\ UdpAlone /\ OpenHand
LEMMA NextHand ==
    AddressInv /\ HandInv /\ [Next]_vars => HandInv'
  BY NextAddress, HandStep, EndsUpStep DEF HandInv, AddressInv

LEMMA InSteps ==
    ASSUME AddressInv, HandInv, TypeInv', [Next]_vars, ~Dials, NEW c \in DOMAIN conn
    PROVE  InStep(c)
  <1>1. Wires
    BY StepWires
  <1>2. UNCHANGED vars => InStep(c)
    BY SameHand, SameIn DEF vars
  <1> QED
    BY <1>1, <1>2, EachStep, ServerIn, ModuleIn DEF HandInv

(* A new connection brings the declaration that opened it, or is closed.     *)
LEMMA NewAtServer ==
    ASSUME AddressInv, ~Dials, NEW s \in Servers, ServerStep(s),
           NEW c \in DOMAIN conn' \ DOMAIN conn
    PROVE  /\ conn'[c].mod \in Modules /\ conn'[c].toMod = <<>>
           /\ In(c)' = <<Declare(conn'[c].mod)>>
           /\ conn'[c].sEnd # "closed" /\ conn'[c].mEnd # "closed"
  <1>1. conn \in Seq(Conn) /\ On(ioTask, Servers)
    BY Facts DEF AddressInv, ServerTypes, On
  <1>2. ASSUME DOMAIN conn' = DOMAIN conn
        PROVE  FALSE
    BY <1>2
  <1>3. (\E d \in DOMAIN conn : SrvAccept(s, d) \/ SrvEof(s, d) \/ \E n : SrvRead(s, d, n))
        => FALSE
    <2>1. (\E d \in DOMAIN conn : SrvAccept(s, d) \/ \E n : SrvRead(s, d, n))
          => DOMAIN conn' = DOMAIN conn
      BY <1>1 DEF SrvAccept, SrvRead
    <2>2. (\E d \in DOMAIN conn : SrvEof(s, d)) => DOMAIN conn' = DOMAIN conn
      BY <1>1, ClosesEnds DEF SrvEof
    <2> QED
      BY <1>2, <2>1, <2>2
  <1>4. HandleDeclareNew(s) \/ HandleModuleShutdown(s) \/ HandleExpose(s) \/ HandleDesc(s)
        \/ HandleValue(s) \/ SrvStart(s) \/ ObjectWork(s) \/ EndDisconnect(s) => FALSE
    BY ObjectWorkKeeps DEF HandleDeclareNew, HandleModuleShutdown, HandleExpose, HandleDesc, HandleValue,
       SrvApply, SrvStart
  <1>5. AssignModuleID(s) \/ SendDiscovery(s)
        \/ (\E r \in modules[s] : Disconnect(s, r) \/ CallRemote(s, r)) => FALSE
    <2>1. AssignModuleID(s) \/ SendDiscovery(s)
          \/ (\E r \in modules[s] : Disconnect(s, r) \/ CallRemote(s, r))
          => \E d, x : conn' = SrvWrite(conn, d, x)
      BY DEF AssignModuleID, SendDiscovery, Disconnect, CallRemote
    <2> QED
      BY <1>1, <1>2, <2>1, WritesKeepEnds DEF SameEnds
  <1>6. HandleDeclareDuplicate(s) \/ SrvStop(s) => FALSE
    <2>1. HandleDeclareDuplicate(s) \/ SrvStop(s)
          => UNCHANGED conn \/ \E C : conn' = CloseSrv(conn, C)
      BY DEF HandleDeclareDuplicate, SrvStop
    <2> QED
      BY <1>1, <1>2, <2>1, ClosesEnds
  <1>7. Discover(s) \/ (\E m \in Modules : Connect(s, m)) => FALSE
    <2>1. \A m \in Modules : ~Connect(s, m)
      BY DEF Connect, Op, Dials
    <2>2. ASSUME Discover(s)
          PROVE  FALSE
      <3>1. PICK all \in Seq(Conn), used \in SUBSET Nat : Discovered(s, all, used)
        BY <2>2, DiscoverShape DEF AddressInv
      <3>2. DOMAIN conn' = DOMAIN all
        BY <3>1 DEF Discovered
      <3>3. "ipc" \in Transports /\ "discover" \in Ops
        BY <3>1, <3>2 DEF Discovered
      <3> QED
        BY <3>3 DEF Dials
    <2> QED
      BY <2>1, <2>2
  <1>8. ASSUME NEW m \in Modules, SrvUdpDeclare(s, m)
        PROVE  /\ conn'[c].mod \in Modules /\ conn'[c].toMod = <<>>
               /\ In(c)' = <<Declare(conn'[c].mod)>>
               /\ conn'[c].sEnd # "closed" /\ conn'[c].mEnd # "closed"
    <2> DEFINE k == OpenConn(s, m, "srv", "net")
               b == <<Declare(m)>>
               u == [Reading(Len(conn) + 1, b) EXCEPT !.udp = TRUE]
    <2>1. UNCHANGED conn \/ (conn' = Append(conn, k) /\ ioTask' = [ioTask EXCEPT ![s] = u])
      BY <1>8 DEF SrvUdpDeclare
    <2>2. DOMAIN Append(conn, k) = DOMAIN conn \cup {Len(conn) + 1}
          /\ Append(conn, k)[Len(conn) + 1] = k
      BY <1>1, AppendGrows
    <2>3. /\ k.srv = s /\ k.mod = m /\ k.toSrv = <<>> /\ k.toMod = <<>>
          /\ k.sEnd = "open" /\ k.mEnd = "backlog"
      BY DEF OpenConn
    <2>4. u.conn = Len(conn) + 1 /\ u.buf = b
      BY DEF Reading
    <2>5. b \o <<>> = b
      <3>1. b \in Seq(SrvMsg)
        BY ModuleMessages
      <3> QED
        BY <3>1, ConcatEmptySeq
    <2> HIDE DEF k, u, b
    <2>6. conn' = Append(conn, k) /\ ioTask' = [ioTask EXCEPT ![s] = u]
      BY <2>1
    <2>7. c = Len(conn) + 1 /\ conn'[c] = k
      BY <2>2, <2>6
    <2>8. ioTask'[conn'[c].srv] = u
      BY <1>1, <2>3, <2>6, <2>7 DEF On
    <2>9. InHandOf(c)' = b
      BY <2>4, <2>7, <2>8 DEF InHandOf
    <2>10. In(c)' = b
      BY <2>3, <2>5, <2>7, <2>9 DEF In
    <2> QED
      BY <2>3, <2>7, <2>10 DEF b
  <1> QED
    BY <1>3, <1>4, <1>5, <1>6, <1>7, <1>8 DEF ServerStep, SrvIO, SrvPython

LEMMA NewAtModule ==
    ASSUME AddressInv, ~Dials, NEW m \in Modules, ModuleStep(m),
           NEW c \in DOMAIN conn' \ DOMAIN conn
    PROVE  /\ conn'[c].mod \in Modules /\ conn'[c].toMod = <<>>
           /\ \/ In(c)' = <<>> /\ conn'[c].mEnd = "closed"
              \/ /\ In(c)' = <<Declare(conn'[c].mod)>>
                 /\ conn'[c].sEnd # "closed" /\ conn'[c].mEnd # "closed"
  <1> DEFINE Good == /\ conn'[c].mod \in Modules /\ conn'[c].toMod = <<>>
                     /\ \/ In(c)' = <<>> /\ conn'[c].mEnd = "closed"
                        \/ /\ In(c)' = <<Declare(conn'[c].mod)>>
                           /\ conn'[c].sEnd # "closed" /\ conn'[c].mEnd # "closed"
  <1>1. conn \in Seq(Conn) /\ \A k \in DOMAIN conn : conn[k] \in Conn
    BY Facts DEF AddressInv
  <1>2. ASSUME conn'[c].srv \in Servers, conn'[c].mod = m, conn'[c].toMod = <<>>,
               \/ conn'[c].toSrv = <<>> /\ conn'[c].mEnd = "closed"
               \/ /\ conn'[c].toSrv = <<Declare(m)>>
                  /\ conn'[c].sEnd # "closed" /\ conn'[c].mEnd # "closed"
        PROVE  Good
    <2>1. InHandOf(c)' = <<>>
      <3>1. UNCHANGED ioTask
        BY ModuleLeaves
      <3>2. ioTask[conn'[c].srv].buf \in Seq(SrvMsg)
        BY <1>2, Facts DEF AddressInv, Task
      <3>3. ioTask[conn'[c].srv].conn = c => ioTask[conn'[c].srv].buf = <<>>
        BY <1>2 DEF AddressInv, InHand
      <3> QED
        BY <3>1, <3>3 DEF InHandOf
    <2>2. <<>> \o <<Declare(m)>> = <<Declare(m)>>
      <3>1. <<Declare(m)>> \in Seq(SrvMsg)
        BY ModuleMessages
      <3> QED
        BY <3>1, ConcatEmptySeq
    <2>3. \A q : q = <<>> => q \o q = <<>>
      <3>1. <<>> \in Seq(SrvMsg)
        OBVIOUS
      <3> QED
        BY <3>1, ConcatEmptySeq
    <2> QED
      BY <1>2, <2>1, <2>2, <2>3 DEF In
  <1>3. ASSUME DOMAIN conn' = DOMAIN conn
        PROVE  FALSE
    BY <1>3
  <1>4. (\E d \in DOMAIN conn : ModAccept(m, d) \/ ModEof(m, d) \/ \E n : ModRead(m, d, n))
        => FALSE
    <2>1. (\E d \in DOMAIN conn : ModAccept(m, d) \/ \E n : ModRead(m, d, n))
          => DOMAIN conn' = DOMAIN conn
      BY <1>1 DEF ModAccept, ModRead
    <2>2. (\E d \in DOMAIN conn : ModEof(m, d)) => DOMAIN conn' = DOMAIN conn
      BY <1>1, ClosesEnds DEF ModEof
    <2> QED
      BY <1>3, <2>1, <2>2
  <1>5. HandleDiscovery(m) \/ HandleCall(m) \/ HandleServerShutdown(m) \/ HandleAssignId(m)
        \/ UpdateAttribute(m) => FALSE
    <2>1. HandleDiscovery(m) \/ HandleCall(m) \/ HandleServerShutdown(m) =>
            UNCHANGED conn \/ \E d, x : conn' = ModWrite(conn, d, x)
      BY DEF HandleDiscovery, HandleCall, HandleServerShutdown
    <2>2. HandleAssignId(m) \/ UpdateAttribute(m) => SameEnds(conn, conn')
      BY <1>1, AssignEnds, WritesKeepEnds DEF UpdateAttribute
    <2> QED
      BY <1>1, <1>3, <2>1, <2>2, WritesKeepEnds DEF SameEnds
  <1>6. ModCrash(m) \/ ModShutdown(m) => FALSE
    <2>1. LET cs == ModWriteAll(conn, m, "MODULE_SHUTDOWN")
          IN cs \in Seq(Conn) /\ DOMAIN cs = DOMAIN conn
      BY <1>1, WrittenToAll DEF Reports
    <2>2. \A C : /\ DOMAIN CloseMod(conn, C) = DOMAIN conn
                 /\ DOMAIN CloseMod(ModWriteAll(conn, m, "MODULE_SHUTDOWN"), C) = DOMAIN conn
      BY <1>1, <2>1, ClosesEnds
    <2> QED
      BY <1>3, <2>2 DEF ModCrash, ModShutdown
  <1>7. ASSUME ModStart(m)
        PROVE  Good
    <2>1. /\ conn'[c].toSrv = <<Declare(m)>> /\ conn'[c].mod = m
          /\ sUp[conn'[c].srv] /\ conn'[c].toMod = <<>>
          /\ conn'[c].sEnd = "backlog" /\ conn'[c].mEnd = "open"
      BY <1>7, ModStartShape DEF AddressInv, Started
    <2>2. conn' \in Seq(Conn)
      BY <1>7, ModStartTypes DEF AddressInv, TypeInv, TypeOK, NetworkTypes
    <2>3. conn'[c].srv \in Servers
      BY <2>2, ConnFields
    <2> QED
      BY <1>2, <2>1, <2>3
  <1>8. ASSUME NEW s \in Servers, ModUdpDiscovery(m, s), ~UNCHANGED conn
        PROVE  Good
    <2> DEFINE d  == Len(conn) + 1
               cs == Append(conn, OpenConn(s, m, "mod", "net"))
    <2>1. /\ cs \in Seq(Conn) /\ d \in DOMAIN cs /\ DOMAIN cs = DOMAIN conn \cup {d}
          /\ d # NoConn
          /\ cs[d] = OpenConn(s, m, "mod", "net")
      BY <1>1, AppendGrows
    <2>2. conn' = CloseMod(cs, {d}) \/ conn' = ModWrite(cs, d, Declare(m))
      BY <1>8 DEF ModUdpDiscovery
    <2>3. /\ cs[d].toSrv = <<>> /\ cs[d].srv = s /\ cs[d].mod = m /\ cs[d].toMod = <<>>
          /\ cs[d].sEnd = "backlog" /\ cs[d].mEnd = "open"
      BY <2>1 DEF OpenConn
    <2> HIDE DEF cs, d
    <2>4. DOMAIN conn' = DOMAIN cs
      BY <2>1, <2>2, ClosesEnds, WritesKeepEnds DEF SameEnds
    <2>5. c = d
      BY <2>1, <2>4
    <2>6. Append(<<>>, Declare(m)) = <<Declare(m)>>
      OBVIOUS
    <2>7. CloseMod(cs, {d})[d].toSrv = <<>> /\ CloseMod(cs, {d})[d].mEnd = "closed"
      BY <2>1, <2>3, ToServerKept, ClosesEnds
    <2>8. /\ ModWrite(cs, d, Declare(m))[d].toSrv = <<Declare(m)>>
          /\ ModWrite(cs, d, Declare(m))[d].sEnd # "closed"
          /\ ModWrite(cs, d, Declare(m))[d].mEnd # "closed"
      <3>1. ModWrite(cs, d, Declare(m))[d].toSrv =
              IF d = d /\ ModCanWrite(cs, d) THEN Append(cs[d].toSrv, Declare(m)) ELSE cs[d].toSrv
        BY <2>1, ModuleWriteKept
      <3>2. ModCanWrite(cs, d)
        BY <2>1, <2>3 DEF ModCanWrite
      <3>3. SameEnds(cs, ModWrite(cs, d, Declare(m)))
        BY <2>1, WritesKeepEnds
      <3>4. /\ ModWrite(cs, d, Declare(m))[d].sEnd # "closed"
            /\ ModWrite(cs, d, Declare(m))[d].mEnd # "closed"
        BY <2>1, <2>3, <3>3 DEF SameEnds
      <3> QED
        BY <2>3, <2>6, <3>1, <3>2, <3>4
    <2>9. conn'[c].srv = s /\ conn'[c].mod = m
      <3>1. Declare(m) \in SrvMsg
        BY ModuleMessages
      <3>2. Grows(cs, CloseMod(cs, {d}), {}, {})
        BY <2>1, ClosedGrows
      <3>3. \E B : Grows(cs, ModWrite(cs, d, Declare(m)), {}, B)
        BY <2>1, <3>1, ModWriteGrows
      <3>4. \A ds, A, B : Grows(cs, ds, A, B) => \A e \in DOMAIN cs :
               ds[e].srv = cs[e].srv /\ ds[e].mod = cs[e].mod
        BY DEF Grows
      <3>5. CASE conn' = CloseMod(cs, {d})
        BY <2>1, <2>3, <2>5, <3>2, <3>4, <3>5
      <3>6. CASE conn' = ModWrite(cs, d, Declare(m))
        BY <2>1, <2>3, <2>5, <3>3, <3>4, <3>6
      <3> QED
        BY <2>2, <3>5, <3>6
    <2>10. \/ conn'[c].toSrv = <<>> /\ conn'[c].mEnd = "closed"
           \/ /\ conn'[c].toSrv = <<Declare(m)>>
              /\ conn'[c].sEnd # "closed" /\ conn'[c].mEnd # "closed"
      BY <2>2, <2>5, <2>7, <2>8
    <2>11. conn'[c].toMod = <<>>
      BY <2>1, <2>2, <2>3, <2>5, ToModuleKept
    <2> QED
      BY <1>2, <2>9, <2>10, <2>11
  <1> QED
    BY <1>3, <1>4, <1>5, <1>6, <1>7, <1>8 DEF ModuleStep, ModLoop, ModProgram

LEMMA NewIn ==
    ASSUME AddressInv, ~Dials, [Next]_vars, NEW c \in DOMAIN conn' \ DOMAIN conn
    PROVE  /\ In(c)' = <<>> \/ \E m \in Modules : In(c)' = <<Declare(m)>>
           /\ conn'[c].toMod = <<>>
           /\ \/ In(c)' = <<>> /\ conn'[c].mEnd = "closed"
              \/ /\ In(c)' = <<Declare(conn'[c].mod)>>
                 /\ conn'[c].sEnd # "closed" /\ conn'[c].mEnd # "closed"
  BY EachStep, NewAtServer, NewAtModule DEF vars

-----------------------------------------------------------------------------
(* What a step does to the channels of a server *)

(* A server's channels stay open except those of a set C. *)
Keeps(s, C) == \A c \in DOMAIN conn \ C :
    conn[c].srv = s /\ conn[c].sEnd = "open" => conn'[c].sEnd = "open"

(* It stops; it maps the id of a new object; it leaves its map alone; or it  *)
(* closes a connection and forgets an id mapped to it, either at the end of  *)
(* the stream, when the object of that id is gone, or as a duplicate.        *)
Frees(s, c) ==
    /\ sMap'[s] = IF KeysOf(sMap[s], c) = {} THEN sMap[s]
                  ELSE Del(sMap[s], FirstKey(sMap[s], c))
    /\ \/ /\ conn[c].mEnd = "closed"
          /\ KeysOf(sMap[s], c) # {} /\ ~crossed[s] =>
                Named(s, FirstKey(sMap[s], c)) = {}
       \/ /\ ioTask[s].buf # <<>> /\ Head(ioTask[s].buf).type = "MODULE_DECLARE"
          /\ c = sActive[s]
ShareStep(s) ==
    \/ sMap'[s] = Empty /\ modules'[s] = {} /\ "srvcrash" \in Ops
    \/ AssignModuleID(s)
    \/ /\ sMap'[s] = sMap[s] /\ Keeps(s, {})
       /\ ioTask[s].assigning => ioTask'[s].assigning
    \/ \E c \in DOMAIN conn : conn[c].srv = s /\ Keeps(s, {c}) /\ ~ioTask[s].assigning
                              /\ Frees(s, c)

LEMMA ShareSteps ==
    ASSUME AddressInv, [Next]_vars
    PROVE  \A s \in Servers : ShareStep(s)
  <1> SUFFICES ASSUME NEW s \in Servers PROVE ShareStep(s)
    OBVIOUS
  <1>1. /\ conn \in Seq(Conn) /\ \A c \in DOMAIN conn : conn[c] \in Conn
        /\ On(ioTask, Servers) /\ On(sMap, Servers) /\ On(modules, Servers)
        /\ ioTask[s] \in Task(SrvMsg)
        /\ sActive[s] \in {NoConn} \cup DOMAIN conn
        /\ sActive[s] # NoConn => conn[sActive[s]].srv = s
        /\ \A i \in DOMAIN sMap[s] : sMap[s][i] \in DOMAIN conn
        /\ NoConn \notin DOMAIN conn /\ WorkOf(s)
    BY Facts DEF AddressInv, ServerTypes, RegistryTypes, On, Channels, Working, NoConn
  <1>2. ASSUME sMap'[s] = sMap[s],
               \A c \in DOMAIN conn : conn[c].srv = s => conn'[c].sEnd = conn[c].sEnd,
               ~ioTask[s].assigning \/ ioTask'[s] = ioTask[s]
        PROVE  ShareStep(s)
    BY <1>2 DEF ShareStep, Keeps
  <1>3. ASSUME sMap'[s] = sMap[s], SameEnds(conn, conn'),
               ~ioTask[s].assigning \/ ioTask'[s] = ioTask[s]
        PROVE  ShareStep(s)
    BY <1>2, <1>3 DEF SameEnds
  <1>4. SameEnds(conn, conn)
    BY DEF SameEnds
  <1>5. CASE \/ \E x \in Servers \ {s} : ServerStep(x)
             \/ \E m \in Modules : ModuleStep(m)
             \/ UNCHANGED vars
    <2>1. ioTask'[s] = ioTask[s] /\ sMap'[s] = sMap[s]
      BY <1>5, OthersAlone DEF AddressInv
    <2>2. \A c \in DOMAIN conn : conn[c].srv = s => conn'[c].sEnd = conn[c].sEnd
      <3>1. (\E x \in Servers \ {s} : ServerStep(x))
              => \A c \in DOMAIN conn : conn[c].srv = s => conn'[c].sEnd = conn[c].sEnd
        BY ServerEnds DEF SrvEnds
      <3>2. (\E m \in Modules : ModuleStep(m))
              => \A c \in DOMAIN conn : conn'[c].sEnd = conn[c].sEnd
        BY ModuleEnds DEF ModEnds
      <3> QED
        BY <1>5, <3>1, <3>2 DEF vars
    <2> QED
      BY <1>2, <2>1, <2>2
  <1>6. CASE ServerStep(s)
    <2>1. ASSUME NEW d \in DOMAIN conn, SrvAccept(s, d)
          PROVE  ShareStep(s)
      <3>1. ioTask[s] = Idle /\ UNCHANGED sMap
        BY <2>1 DEF SrvAccept
      <3>2. Keeps(s, {})
        BY <1>1, <2>1 DEF SrvAccept, Keeps, Conn
      <3> QED
        BY <3>1, <3>2, NotAssigning DEF ShareStep
    <2>2. ASSUME NEW d \in DOMAIN conn, NEW n, SrvRead(s, d, n)
          PROVE  ShareStep(s)
      <3>1. ioTask[s] = Idle /\ UNCHANGED sMap
        BY <2>2 DEF SrvRead
      <3>2. Keeps(s, {})
        BY <1>1, <2>2 DEF SrvRead, Keeps, Conn
      <3> QED
        BY <3>1, <3>2, NotAssigning DEF ShareStep
    <2>3. ASSUME NEW c \in DOMAIN conn, SrvEof(s, c)
          PROVE  ShareStep(s)
      <3>1. /\ conn[c].srv = s /\ ioTask[s] = Idle
            /\ conn' = CloseSrv(conn, {c}) /\ conn[c].mEnd = "closed"
        BY <2>3 DEF SrvEof
      <3>2. Keeps(s, {c})
        BY <1>1, <3>1, ClosesEnds DEF Keeps
      <3>3. CASE KeysOf(sMap[s], c) = {}
        <4>1. UNCHANGED sMap
          BY <2>3, <3>3 DEF SrvEof
        <4>2. Frees(s, c)
          BY <3>1, <3>3, <4>1 DEF Frees
        <4> QED
          BY <3>1, <3>2, <4>2, NotAssigning DEF ShareStep
      <3>4. CASE KeysOf(sMap[s], c) # {}
        <4> DEFINE k == FirstKey(sMap[s], c)
        <4>1. sMap' = [sMap EXCEPT ![s] = Del(sMap[s], k)]
          BY <2>3, <3>4 DEF SrvEof
        <4>2. sMap'[s] = Del(sMap[s], k)
          BY <1>1, <4>1 DEF On
        <4>3. ASSUME ~crossed[s] PROVE Named(s, k) = {}
          <5>1. CASE LostWith(s, c) = {}
            BY <3>4, <5>1 DEF LostWith
          <5>2. CASE work[s].at = "erased" /\ work[s].eof = c
            <6>1. work[s].id = k % IdMask /\ \A r \in modules[s] : r.id # work[s].id
              BY <1>1, <3>1, <4>3, <5>2 DEF WorkOf, SrvMsgIs, Idle
            <6> QED
              BY <6>1 DEF Named
          <5> QED
            BY <2>3, <5>1, <5>2 DEF SrvEof
        <4>4. Frees(s, c)
          BY <3>1, <3>4, <4>2, <4>3 DEF Frees
        <4> QED
          BY <3>1, <3>2, <4>4, NotAssigning DEF ShareStep
      <3> QED
        BY <3>3, <3>4
    <2>4. ASSUME NEW m \in Modules, SrvUdpDeclare(s, m)
          PROVE  ShareStep(s)
      <3>1. /\ ioTask[s] = Idle /\ UNCHANGED sMap
            /\ UNCHANGED conn \/ conn' = Append(conn, OpenConn(s, m, "srv", "net"))
        BY <2>4 DEF SrvUdpDeclare
      <3>2. \A c \in DOMAIN conn : conn'[c] = conn[c]
        BY <1>1, <3>1, AppendGrows
      <3> QED
        BY <1>2, <3>1, <3>2, NotAssigning
    <2>5. HandleDeclareNew(s) \/ HandleModuleShutdown(s) \/ HandleExpose(s) \/ HandleDesc(s)
          \/ HandleValue(s) \/ ObjectWork(s) \/ EndDisconnect(s) => ShareStep(s)
      <3>1. HandleDeclareNew(s) \/ HandleModuleShutdown(s) \/ HandleExpose(s)
            \/ HandleDesc(s) \/ HandleValue(s)
            => UNCHANGED <<sMap, conn>> /\ ~ioTask[s].assigning
        BY DEF HandleDeclareNew, HandleModuleShutdown, HandleExpose, HandleDesc, HandleValue,
           SrvApply, SrvMsgIs, srvCommVars
      <3> QED
        BY <1>3, <1>4, <3>1, ObjectWorkKeeps
    <2>6. AssignModuleID(s) => ShareStep(s)
      BY DEF ShareStep
    <2>7. CASE HandleDeclareDuplicate(s)
      <3> DEFINE c == sActive[s]
      <3>1. /\ ioTask[s].buf # <<>> /\ Head(ioTask[s].buf).type = "MODULE_DECLARE"
            /\ ~ioTask[s].assigning
            /\ \/ UNCHANGED <<sMap, conn>>
               \/ /\ conn' = CloseSrv(conn, {c})
                  /\ sMap' = IF KeysOf(sMap[s], c) = {} THEN sMap
                             ELSE [sMap EXCEPT ![s] = Del(sMap[s], FirstKey(sMap[s], c))]
        BY <2>7 DEF HandleDeclareDuplicate, SrvMsgIs, srvCommVars
      <3>2. CASE UNCHANGED <<sMap, conn>>
        BY <1>3, <1>4, <3>1, <3>2
      <3>3. CASE /\ conn' = CloseSrv(conn, {c})
                 /\ sMap' = IF KeysOf(sMap[s], c) = {} THEN sMap
                            ELSE [sMap EXCEPT ![s] = Del(sMap[s], FirstKey(sMap[s], c))]
        <4>1. Keeps(s, {c})
          BY <1>1, <3>3, ClosesEnds DEF Keeps
        <4>2. sMap'[s] = IF KeysOf(sMap[s], c) = {} THEN sMap[s]
                         ELSE Del(sMap[s], FirstKey(sMap[s], c))
          BY <1>1, <3>3 DEF On
        <4>3. CASE c = NoConn
          <5>1. KeysOf(sMap[s], c) = {}
            BY <1>1, <4>3 DEF KeysOf
          <5>2. Keeps(s, {})
            BY <1>1, <4>1, <4>3 DEF Keeps
          <5> QED
            BY <3>1, <4>2, <5>1, <5>2 DEF ShareStep
        <4>4. CASE c # NoConn
          <5>1. Frees(s, c)
            BY <3>1, <4>2 DEF Frees
          <5>2. c \in DOMAIN conn /\ conn[c].srv = s
            BY <1>1, <4>4
          <5> QED
            BY <3>1, <4>1, <5>1, <5>2 DEF ShareStep
        <4> QED
          BY <4>3, <4>4
      <3> QED
        BY <3>1, <3>2, <3>3
    <2>8. SrvPython(s) => ShareStep(s)
      <3>1. SrvPython(s) => UNCHANGED <<ioTask, sMap>>
        BY ObjectWorkKeeps DEF SrvPython, Discover, SendDiscovery, Connect, Disconnect, CallRemote, srvCommVars
      <3>2. Discover(s) => \A c \in DOMAIN conn : conn'[c].sEnd = conn[c].sEnd
        <4> SUFFICES ASSUME Discover(s), NEW c \in DOMAIN conn
                     PROVE  conn'[c].sEnd = conn[c].sEnd
          OBVIOUS
        <4>1. PICK all \in Seq(Conn), used \in SUBSET Nat : Discovered(s, all, used)
          BY DiscoverShape DEF AddressInv
        <4> QED
          BY <1>1, <4>1 DEF Discovered, Conn
      <3>3. \A m \in Modules : Connect(s, m)
               => \A c \in DOMAIN conn : conn'[c].sEnd = conn[c].sEnd
        BY <1>1, AppendGrows DEF Connect
      <3>4. SendDiscovery(s) \/ (\E r \in modules[s] : Disconnect(s, r) \/ CallRemote(s, r))
               => SameEnds(conn, conn')
        <4>1. SendDiscovery(s) \/ (\E r \in modules[s] : Disconnect(s, r) \/ CallRemote(s, r))
                => \E d, x : conn' = SrvWrite(conn, d, x)
          BY DEF SendDiscovery, Disconnect, CallRemote
        <4> QED
          BY <1>1, <4>1, WritesKeepEnds
      <3> QED
        BY <1>2, <1>3, <2>5, <3>1, <3>2, <3>3, <3>4 DEF SrvPython
    <2>9. SrvStop(s) \/ SrvStart(s) => ShareStep(s)
      <3>1. SrvStop(s) \/ SrvStart(s) => "srvcrash" \in Ops
        BY DEF SrvStop, SrvStart, Op, AddressInv, Configured
      <3> QED
        BY <1>1, <3>1 DEF SrvStop, SrvStart, SrvMemory, On, ShareStep
    <2> QED
      BY <1>6, <2>1, <2>2, <2>3, <2>4, <2>5, <2>6, <2>7, <2>8, <2>9 DEF ServerStep, SrvIO
  <1> QED
    BY <1>5, <1>6, EachStep

-----------------------------------------------------------------------------
(* A channel is mapped for one object at most, and while it is open *)

(* A program declares itself first and once over a connection, before an id  *)
(* is mapped to it; and the server answers over the connection it read the   *)
(* declaration from.                                                         *)
Declares(x) == x.type = "MODULE_DECLARE"
DeclaresOnce == \A c \in DOMAIN conn : \A j \in DOMAIN In(c) :
    Declares(In(c)[j]) => j = 1 /\ KeysOf(sMap[conn[c].srv], c) = {}
DeclareActive == \A s \in Servers :
    ioTask[s].buf # <<>> /\ Declares(Head(ioTask[s].buf)) => sActive[s] = ioTask[s].conn
MappedOnce == \A s \in Servers : \A i, j \in DOMAIN sMap[s] : sMap[s][i] = sMap[s][j] => i = j
OpenMapped == \A s \in Servers : \A i \in DOMAIN sMap[s] : conn[sMap[s][i]].sEnd = "open"
ShareInv == DeclaresOnce /\ DeclareActive /\ MappedOnce /\ OpenMapped

LEMMA Tails ==
    ASSUME NEW M, NEW q \in Seq(M), q # <<>>
    PROVE  /\ Tail(q) \in Seq(M) /\ 1 \in DOMAIN q /\ Head(q) = q[1]
           /\ \A j \in DOMAIN Tail(q) : /\ j \in Nat /\ j >= 1 /\ j + 1 \in DOMAIN q
                                        /\ Tail(q)[j] = q[j + 1]
  OBVIOUS

LEMMA Parts ==
    ASSUME NEW M, NEW q \in Seq(M), NEW w \in Seq(M), NEW j \in DOMAIN (q \o w)
    PROVE  \/ j \in DOMAIN q /\ (q \o w)[j] = q[j]
           \/ \E i \in DOMAIN w : (q \o w)[j] = w[i]
  <1>1. /\ q \o w \in Seq(M) /\ Len(q \o w) = Len(q) + Len(w)
        /\ \A i \in 1..Len(q) + Len(w) : (q \o w)[i] = IF i <= Len(q) THEN q[i] ELSE w[i - Len(q)]
        /\ Len(q) \in Nat /\ Len(w) \in Nat
    BY ConcatProperties
  <1>2. /\ j \in Nat /\ j >= 1 /\ j <= Len(q) + Len(w)
        /\ (q \o w)[j] = IF j <= Len(q) THEN q[j] ELSE w[j - Len(q)]
    BY <1>1
  <1>3. CASE j <= Len(q)
    BY <1>1, <1>2, <1>3
  <1>4. CASE ~(j <= Len(q))
    <2>1. j - Len(q) \in DOMAIN w
      BY <1>1, <1>2, <1>4
    <2> QED
      BY <1>2, <1>4, <2>1
  <1> QED
    BY <1>3, <1>4

LEMMA HandHead ==
    ASSUME AddressInv, NEW s \in Servers, ioTask[s].buf # <<>>
    PROVE  LET c == ioTask[s].conn
           IN /\ c \in DOMAIN conn /\ conn[c].srv = s /\ c # NoConn
              /\ In(c) # <<>> /\ 1 \in DOMAIN In(c) /\ In(c)[1] = Head(ioTask[s].buf)
  <1> DEFINE c == ioTask[s].conn
             q == ioTask[s].buf
             r == conn[c].toSrv
  <1>1. c \in DOMAIN conn /\ conn[c].srv = s
    BY DEF AddressInv, InHand
  <1>2. q \in Seq(SrvMsg) /\ r \in Seq(SrvMsg) /\ c # NoConn
    BY <1>1, InFacts
  <1>3. In(c) = q \o r
    BY <1>1 DEF In, InHandOf
  <1> HIDE DEF q, r
  <1>4. q # <<>>
    BY DEF q
  <1>5. q \o r \in Seq(SrvMsg) /\ q \o r # <<>> /\ Head(q \o r) = Head(q)
    BY <1>2, <1>4, Streams
  <1> QED
    BY <1>1, <1>2, <1>3, <1>5, Tails DEF q

LEMMA AssignFacts ==
    ASSUME AddressInv, TypeInv', [Next]_vars, DeclaresOnce, DeclareActive,
           NEW s \in Servers, AssignModuleID(s)
    PROVE  LET c == sActive[s]
           IN /\ c = ioTask[s].conn /\ c \in DOMAIN conn /\ conn[c].srv = s
              /\ ioTask[s].buf # <<>> /\ Declares(Head(ioTask[s].buf))
              /\ Handled(c) /\ KeysOf(sMap[s], c) = {}
              /\ sMap'[s] = Put(sMap[s], nextObjId[s], c)
              /\ nextObjId'[s] = nextObjId[s] + 1 /\ SameEnds(conn, conn')
  <1> DEFINE c == sActive[s]
             x == AssignId(s, nextObjId[s], Name[Head(ioTask[s].buf).from])
  <1>1. ioTask[s].buf # <<>> /\ Declares(Head(ioTask[s].buf))
    BY Facts DEF AddressInv, Assigning, AssignModuleID, Declares
  <1>2. /\ c = ioTask[s].conn /\ c \in DOMAIN conn /\ conn[c].srv = s /\ c # NoConn
        /\ 1 \in DOMAIN In(c) /\ In(c)[1] = Head(ioTask[s].buf)
    BY <1>1, HandHead DEF DeclareActive
  <1>3. KeysOf(sMap[s], c) = {}
    BY <1>1, <1>2 DEF DeclaresOnce
  <1>4. conn \in Seq(Conn) /\ On(sMap, Servers) /\ On(nextObjId, Servers)
    BY Facts DEF AddressInv, ServerTypes, RegistryTypes, On
  <1>5. /\ conn' = SrvWrite(conn, c, x)
        /\ ioTask' = [ioTask EXCEPT ![s] = Rest(ioTask[s])]
        /\ nextObjId' = [nextObjId EXCEPT ![s] = nextObjId[s] + 1]
        /\ sMap' = [sMap EXCEPT ![s] = Put(sMap[s], nextObjId[s], c)]
    BY <1>2 DEF AssignModuleID
  <1> HIDE DEF x
  <1>6. conn'[c].toSrv = conn[c].toSrv /\ SameEnds(conn, conn')
    BY <1>2, <1>4, <1>5, ToServerKept, WritesKeepEnds
  <1>7. conn'[c].srv = conn[c].srv
    BY <1>2, MailStep
  <1>8. Handled(c)
    BY <1>1, <1>2, <1>5, <1>6, <1>7, RestIn
  <1>9. sMap'[s] = Put(sMap[s], nextObjId[s], c) /\ nextObjId'[s] = nextObjId[s] + 1
    BY <1>4, <1>5 DEF On
  <1> QED
    BY <1>1, <1>2, <1>3, <1>6, <1>8, <1>9

LEMMA DuplicateHere ==
    ASSUME AddressInv, DeclaresOnce, DeclareActive, NEW s \in Servers,
           ioTask[s].buf # <<>>, Head(ioTask[s].buf).type = "MODULE_DECLARE"
    PROVE  KeysOf(sMap[s], sActive[s]) = {}
  BY HandHead DEF DeclaresOnce, DeclareActive, Declares

(* What is mapped to a channel after a step. *)
LEMMA KeysAfter ==
    ASSUME AddressInv, TypeInv', [Next]_vars, DeclaresOnce, DeclareActive,
           NEW s \in Servers, NEW c
    PROVE  \/ KeysOf(sMap'[s], c) \subseteq KeysOf(sMap[s], c)
           \/ AssignModuleID(s) /\ c = sActive[s]
  <1>1. ShareStep(s)
    BY ShareSteps
  <1>2. CASE sMap'[s] = Empty
    BY <1>2 DEF Empty, KeysOf
  <1>3. CASE AssignModuleID(s)
    <2>1. sMap'[s] = Put(sMap[s], nextObjId[s], sActive[s])
          /\ KeysOf(sMap[s], sActive[s]) = {}
      BY <1>3, AssignFacts
    <2> QED
      BY <1>3, <2>1 DEF Put, KeysOf
  <1>4. \A k : KeysOf(Del(sMap[s], k), c) \subseteq KeysOf(sMap[s], c)
    BY DEF Del, KeysOf
  <1>5. CASE sMap'[s] = sMap[s]
    BY <1>5
  <1>6. ASSUME NEW d, Frees(s, d)
        PROVE  KeysOf(sMap'[s], c) \subseteq KeysOf(sMap[s], c)
    BY <1>4, <1>6 DEF Frees
  <1> QED
    BY <1>1, <1>2, <1>3, <1>5, <1>6 DEF ShareStep

LEMMA DeclaresOnceStep ==
    ASSUME AddressInv, HandInv, TypeInv', [Next]_vars, ~Dials, DeclaresOnce, DeclareActive
    PROVE  DeclaresOnce'
  <1> SUFFICES ASSUME NEW c \in DOMAIN conn', NEW j \in DOMAIN In(c)', Declares(In(c)'[j])
               PROVE  j = 1 /\ KeysOf(sMap'[conn'[c].srv], c) = {}
    BY DEF DeclaresOnce, Declares
  <1>1. conn'[c].srv \in Servers
    <2>1. conn' \in Seq(Conn)
      BY DEF TypeInv, TypeOK, NetworkTypes
    <2> QED
      BY <2>1, ConnFields
  <1>2. CASE c \notin DOMAIN conn
    <2>1. In(c)' = <<>> \/ \E m \in Modules : In(c)' = <<Declare(m)>>
      BY <1>2, NewIn
    <2>2. j = 1
      BY <2>1
    <2>3. KeysOf(sMap[conn'[c].srv], c) = {}
      BY <1>1, <1>2, Facts DEF AddressInv, ServerTypes, KeysOf
    <2>4. ~(AssignModuleID(conn'[c].srv) /\ c = sActive[conn'[c].srv])
      BY <1>1, <1>2, AssignFacts
    <2> QED
      BY <1>1, <2>2, <2>3, <2>4, KeysAfter
  <1>3. CASE c \in DOMAIN conn
    <2> DEFINE s == conn[c].srv
    <2>1. conn'[c].srv = s /\ s \in Servers /\ In(c) \in Seq(SrvMsg)
      BY <1>1, <1>3, MailStep, InFacts
    <2>2. ASSUME NEW i \in DOMAIN In(c), Declares(In(c)[i])
          PROVE  i = 1 /\ KeysOf(sMap[s], c) = {}
      BY <1>3, <2>2 DEF DeclaresOnce
    <2>3. ASSUME Handled(c)
          PROVE  FALSE
      <3>1. In(c)' = Tail(In(c))
        BY <2>3 DEF Handled
      <3>2. In(c) # <<>>
        <4>1. ioTask[s].buf # <<>> /\ ioTask[s].conn = c
          BY <2>3 DEF Handled
        <4> QED
          BY <2>1, <4>1, HandHead
      <3>3. j \in Nat /\ j >= 1 /\ j + 1 \in DOMAIN In(c) /\ In(c)'[j] = In(c)[j + 1]
        BY <2>1, <3>1, <3>2, Tails
      <3>4. j + 1 = 1
        BY <2>2, <3>3
      <3> QED
        BY <3>3, <3>4
    <2>4. ~(AssignModuleID(s) /\ c = sActive[s])
      BY <2>1, <2>3, AssignFacts
    <2>5. KeysOf(sMap'[s], c) \subseteq KeysOf(sMap[s], c)
      BY <2>1, <2>4, KeysAfter
    <2>6. InStep(c)
      BY <1>3, InSteps
    <2>7. CASE In(c)' = In(c)
      BY <2>1, <2>2, <2>5, <2>7
    <2>8. CASE In(c)' = <<>>
      BY <2>8
    <2>9. CASE Written(c)
      <3>1. PICK w \in Seq(SrvMsg) : Writes(conn[c].mod, c, w) /\ In(c)' = In(c) \o w
        BY <2>9 DEF Written
      <3>2. \A i \in DOMAIN w : ~Declares(w[i])
        <4>1. CASE \E x \in SrvMsg : /\ w = <<x>>
                     /\ x.type \in {"ATTR_VALUE_UPDATE", "ATTR_METD_RESP", "MODULE_SHUTDOWN"}
          BY <4>1 DEF Declares
        <4>2. CASE \E i : w = <<Expose(conn[c].mod, i), Describe(conn[c].mod, i)>>
                          \/ w = <<Describe(conn[c].mod, i)>>
          <5>1. \A m, i : ~Declares(Expose(m, i)) /\ ~Declares(Describe(m, i))
            BY DEF Declares, Expose, Describe, FromModule
          <5> QED
            BY <4>2, <5>1
        <4> QED
          BY <3>1, <4>1, <4>2 DEF Writes, Answers
      <3>3. j \in DOMAIN In(c) /\ In(c)'[j] = In(c)[j]
        BY <2>1, <3>1, <3>2, Parts
      <3> QED
        BY <2>1, <2>2, <2>5, <3>3
    <2> QED
      BY <2>3, <2>6, <2>7, <2>8, <2>9 DEF InStep
  <1> QED
    BY <1>2, <1>3

LEMMA HeadOf ==
    ASSUME NEW M, NEW q \in Seq(M), NEW r \in Seq(M), q # <<>>
    PROVE  q \o r # <<>> /\ 1 \in DOMAIN (q \o r) /\ (q \o r)[1] = Head(q)
  <1>1. q \o r \in Seq(M) /\ q \o r # <<>> /\ Head(q \o r) = Head(q)
    BY Streams
  <1> QED
    BY <1>1, Tails

LEMMA HandHeadNext ==
    ASSUME TypeInv', NEW c \in DOMAIN conn', NEW s \in Servers, conn'[c].srv = s,
           ioTask'[s].conn = c, ioTask'[s].buf # <<>>
    PROVE  In(c)' # <<>> /\ 1 \in DOMAIN In(c)' /\ In(c)'[1] = Head(ioTask'[s].buf)
  <1> DEFINE q == ioTask'[s].buf
             r == conn'[c].toSrv
  <1>1. q \in Seq(SrvMsg) /\ r \in Seq(SrvMsg)
    <2>1. conn' \in Seq(Conn) /\ ioTask' \in [Servers -> Task(SrvMsg)]
      BY DEF TypeInv, TypeOK, NetworkTypes, ServerTypes
    <2> QED
      BY <2>1, ConnFields DEF Task
  <1>2. In(c)' = q \o r
    BY DEF In, InHandOf
  <1>3. q # <<>>
    OBVIOUS
  <1> HIDE DEF q, r
  <1> QED
    BY <1>1, <1>2, <1>3, HeadOf DEF q

LEMMA DeclareActiveStep ==
    ASSUME AddressInv, HandInv, TypeInv', [Next]_vars, ~Dials, DeclaresOnce, DeclareActive
    PROVE  DeclareActive'
  <1> SUFFICES ASSUME NEW s \in Servers, ioTask'[s].buf # <<>>, Declares(Head(ioTask'[s].buf))
               PROVE  sActive'[s] = ioTask'[s].conn
    BY DEF DeclareActive, Declares
  <1>1. ActiveStep(s)
    BY ActiveSteps
  <1>2. CASE /\ ioTask[s].buf # <<>> /\ ioTask'[s].conn = ioTask[s].conn
             /\ sActive'[s] \in {NoConn, sActive[s]}
             /\ sActive'[s] = sActive[s] \/ ioTask'[s] = Rest(ioTask[s])
    <2> DEFINE c == ioTask[s].conn
               b == ioTask[s].buf
    <2>1. /\ c \in DOMAIN conn /\ conn[c].srv = s /\ c # NoConn
          /\ In(c) # <<>> /\ 1 \in DOMAIN In(c) /\ In(c)[1] = Head(b)
      BY <1>2, HandHead
    <2>2. In(c) \in Seq(SrvMsg) /\ b \in Seq(SrvMsg) /\ conn[c].toSrv \in Seq(SrvMsg)
          /\ ioTask[s] \in Task(SrvMsg)
      BY <2>1, InFacts
    <2>3. In(c)' # <<>> /\ 1 \in DOMAIN In(c)' /\ In(c)'[1] = Head(ioTask'[s].buf)
      <3>1. c \in DOMAIN conn' /\ conn'[c].srv = s
        BY <2>1, MailStep
      <3> QED
        BY <1>2, <3>1, HandHeadNext
    <2>4. ASSUME In(c)' = Tail(In(c))
          PROVE  FALSE
      <3>1. 1 + 1 \in DOMAIN In(c) /\ In(c)'[1] = In(c)[1 + 1]
        BY <2>1, <2>2, <2>3, <2>4, Tails
      <3>2. 1 + 1 = 1
        BY <2>1, <2>3, <3>1 DEF DeclaresOnce
      <3> QED
        BY <3>2
    <2>5. ASSUME ioTask'[s] = Rest(ioTask[s])
          PROVE  FALSE
      <3>1. Rest(ioTask[s]).buf = Tail(b)
        BY <1>2, <2>2, <2>5, RestHand
      <3>2. Head(Tail(b)) = b[2] /\ 2 \in 1..Len(b)
        BY <1>2, <2>2, <2>5, <3>1
      <3>3. In(c) = b \o conn[c].toSrv
        BY <2>1 DEF In, InHandOf
      <3>4. 2 \in DOMAIN In(c) /\ In(c)[2] = b[2]
        <4> DEFINE bb == ioTask[s].buf
                   rr == conn[c].toSrv
        <4>1. In(c) = bb \o rr /\ 2 \in 1..Len(bb) /\ bb \in Seq(SrvMsg) /\ rr \in Seq(SrvMsg)
          BY <2>2, <3>2, <3>3
        <4> HIDE DEF bb, rr
        <4>2. /\ bb \o rr \in Seq(SrvMsg) /\ Len(bb \o rr) = Len(bb) + Len(rr)
              /\ \A j \in 1..Len(bb) : (bb \o rr)[j] = bb[j]
          BY <4>1, ConcatProperties
        <4>3. Len(bb) \in Nat /\ Len(rr) \in Nat
          BY <4>1, LenProperties
        <4>4. 2 \in 1..(Len(bb) + Len(rr)) /\ DOMAIN (bb \o rr) = 1..Len(bb \o rr)
          BY <4>1, <4>2, <4>3, LenProperties
        <4>5. 2 \in DOMAIN (bb \o rr) /\ (bb \o rr)[2] = bb[2]
          BY <4>1, <4>2, <4>4
        <4>6. 2 \in DOMAIN In(c) /\ In(c)[2] = bb[2]
          BY <4>1, <4>5
        <4> QED
          BY <4>6 DEF bb
      <3>5. 2 = 1
        BY <2>1, <2>5, <3>1, <3>2, <3>4 DEF DeclaresOnce
      <3> QED
        BY <3>5
    <2>6. sActive'[s] = sActive[s]
      BY <1>2, <2>5
    <2>7. InStep(c)
      BY <2>1, InSteps
    <2>8. In(c)'[1] = In(c)[1]
      <3>1. ASSUME Written(c)
            PROVE  In(c)'[1] = In(c)[1]
        <4>1. PICK w \in Seq(SrvMsg) : In(c)' = In(c) \o w
          BY <3>1 DEF Written
        <4>2. Head(In(c)) = In(c)[1]
          BY <2>1, <2>2, Tails
        <4> QED
          BY <2>1, <2>2, <4>1, <4>2, HeadOf
      <3> QED
        BY <2>3, <2>4, <2>7, <3>1 DEF InStep, Handled
    <2> QED
      BY <1>2, <2>1, <2>3, <2>6, <2>8 DEF DeclareActive
  <1> QED
    BY <1>1, <1>2 DEF ActiveStep

LEMMA OnlyMapped ==
    ASSUME TypeInv, MappedOnce, NEW s \in Servers, NEW c, KeysOf(sMap[s], c) # {}
    PROVE  KeysOf(sMap[s], c) = {FirstKey(sMap[s], c)}
  <1>1. PICK k \in KeysOf(sMap[s], c) : TRUE
    OBVIOUS
  <1>2. KeysOf(sMap[s], c) = {k}
    BY <1>1 DEF KeysOf, MappedOnce
  <1>3. k \in Int
    BY <1>1, Facts, ConstantsAssumption DEF KeysOf, ServerTypes, Ids
  <1>4. \A j \in KeysOf(sMap[s], c) : k <= j
    BY <1>2, <1>3
  <1> QED
    BY <1>1, <1>2, <1>4 DEF FirstKey

LEMMA MappedStep ==
    ASSUME AddressInv, HandInv, TypeInv', [Next]_vars, ShareInv, NEW s \in Servers
    PROVE  /\ \A i, j \in DOMAIN sMap'[s] : sMap'[s][i] = sMap'[s][j] => i = j
           /\ \A i \in DOMAIN sMap'[s] : conn'[sMap'[s][i]].sEnd = "open"
  <1> DEFINE Good == /\ \A i, j \in DOMAIN sMap'[s] : sMap'[s][i] = sMap'[s][j] => i = j
                     /\ \A i \in DOMAIN sMap'[s] : conn'[sMap'[s][i]].sEnd = "open"
  <1>1. /\ \A i, j \in DOMAIN sMap[s] : sMap[s][i] = sMap[s][j] => i = j
        /\ \A i \in DOMAIN sMap[s] : /\ sMap[s][i] \in DOMAIN conn
                                     /\ conn[sMap[s][i]].srv = s
                                     /\ conn[sMap[s][i]].sEnd = "open"
    BY Facts DEF AddressInv, ServerTypes, Channels, ShareInv, MappedOnce, OpenMapped
  <1>2. ShareStep(s)
    BY ShareSteps
  <1>3. CASE sMap'[s] = Empty
    BY <1>3 DEF Empty
  <1>4. CASE AssignModuleID(s)
    <2> DEFINE c == sActive[s]
    <2>1. /\ c = ioTask[s].conn /\ c \in DOMAIN conn /\ ioTask[s].buf # <<>>
          /\ KeysOf(sMap[s], c) = {}
          /\ sMap'[s] = Put(sMap[s], nextObjId[s], c) /\ SameEnds(conn, conn')
      BY <1>4, AssignFacts DEF ShareInv
    <2>2. conn[c].sEnd = "open"
      BY <2>1 DEF HandInv, OpenHand
    <2> HIDE DEF c
    <2>3. \A i \in DOMAIN sMap[s] : sMap[s][i] # c
      BY <2>1 DEF KeysOf
    <2> QED
      BY <1>1, <2>1, <2>2, <2>3 DEF Put, SameEnds
  <1>5. CASE sMap'[s] = sMap[s] /\ Keeps(s, {})
    BY <1>1, <1>5 DEF Keeps
  <1>6. ASSUME NEW c \in DOMAIN conn, Keeps(s, {c}), Frees(s, c)
        PROVE  Good
    <2>1. CASE KeysOf(sMap[s], c) = {}
      <3>1. sMap'[s] = sMap[s] /\ \A i \in DOMAIN sMap[s] : sMap[s][i] # c
        BY <1>6, <2>1 DEF Frees, KeysOf
      <3> QED
        BY <1>1, <1>6, <3>1 DEF Keeps
    <2>2. CASE KeysOf(sMap[s], c) # {}
      <3> DEFINE k == FirstKey(sMap[s], c)
      <3>1. k \in DOMAIN sMap[s] /\ sMap[s][k] = c
        BY <2>2, OnlyMapped DEF KeysOf, AddressInv, ShareInv
      <3>2. sMap'[s] = Del(sMap[s], k)
        BY <1>6, <2>2 DEF Frees
      <3> HIDE DEF k
      <3>3. \A i \in DOMAIN sMap'[s] : i \in DOMAIN sMap[s] /\ sMap'[s][i] = sMap[s][i] /\ i # k
        BY <3>2 DEF Del
      <3>4. \A i \in DOMAIN sMap'[s] : sMap'[s][i] # c
        BY <1>1, <3>1, <3>3
      <3> QED
        BY <1>1, <1>6, <3>3, <3>4 DEF Keeps
    <2> QED
      BY <2>1, <2>2
  <1> QED
    BY <1>2, <1>3, <1>4, <1>5, <1>6 DEF ShareStep

LEMMA ShareInvStep ==
    ASSUME AddressInv, HandInv, TypeInv', [Next]_vars, ~Dials, ShareInv
    PROVE  ShareInv'
  <1>1. DeclaresOnce' /\ DeclareActive'
    BY DeclaresOnceStep, DeclareActiveStep DEF ShareInv
  <1>2. MappedOnce'
    BY MappedStep DEF MappedOnce
  <1>3. OpenMapped'
    BY MappedStep DEF OpenMapped
  <1> QED
    BY <1>1, <1>2, <1>3 DEF ShareInv

-----------------------------------------------------------------------------
(* Programs that are gone *)

(* The connections of a program that does not run are closed at its end.     *)
DeadClosed == \A c \in DOMAIN conn : conn[c].mEnd # "closed" => up[conn[c].mod]

LEMMA DeadClosedStep ==
    ASSUME AddressInv, TypeInv', [Next]_vars, DeadClosed
    PROVE  DeadClosed'
  <1> SUFFICES ASSUME NEW c \in DOMAIN conn', conn'[c].mEnd # "closed"
               PROVE  up'[conn'[c].mod]
    BY DEF DeadClosed
  <1>1. CASE c \notin DOMAIN conn
    BY <1>1, ConfiguredStep DEF NewConn
  <1>2. CASE c \in DOMAIN conn
    <2> DEFINE m == conn[c].mod
    <2>1. conn'[c].mod = m /\ m \in Modules
      BY <1>2, MailStep, Facts, ConnFields DEF AddressInv
    <2>2. conn[c].mEnd # "closed"
      BY <1>2, EachStep, ServerEnds, ModuleEnds DEF SrvEnds, ModEnds, vars
    <2>3. up[m] /\ up \in [Modules -> BOOLEAN] /\ conn \in Seq(Conn)
      BY <1>2, <2>2, Facts DEF DeadClosed, AddressInv, ModuleTypes
    <2>4. CASE UNCHANGED up
      BY <2>1, <2>3, <2>4
    <2>5. ASSUME NEW x \in Modules, ModStart(x)
          PROVE  up'[conn'[c].mod]
      <3>1. up' = [up EXCEPT ![x] = TRUE]
        BY <2>5 DEF ModStart, ModMemory
      <3> QED
        BY <2>1, <2>3, <3>1
    <2>6. ASSUME NEW x \in Modules, ModCrash(x) \/ ModShutdown(x)
          PROVE  up'[conn'[c].mod]
      <3>1. m # x
        <4>1. PICK cs \in Seq(Conn) : DOMAIN cs = DOMAIN conn /\ conn' = CloseMod(cs, ModConns(x))
          <5>1. CASE ModCrash(x)
            BY <2>3, <5>1 DEF ModCrash
          <5>2. CASE ModShutdown(x)
            <6>1. "MODULE_SHUTDOWN" \in Reports
              BY DEF Reports
            <6> QED
              BY <5>2, <6>1, WrittenToAll DEF ModShutdown
          <5> QED
            BY <2>6, <5>1, <5>2
        <4>2. c \notin ModConns(x)
          BY <1>2, <4>1, ClosesEnds
        <4> QED
          BY <1>2, <4>2 DEF ModConns
      <3>2. up' = [up EXCEPT ![x] = FALSE]
        BY <2>6 DEF ModCrash, ModShutdown, ModMemory
      <3> QED
        BY <2>1, <2>3, <3>1, <3>2
    <2>7. ASSUME NEW x \in Modules, ModuleStep(x), ~ModStart(x), ~ModCrash(x), ~ModShutdown(x)
          PROVE  UNCHANGED up
      BY <2>7 DEF ModuleStep, ModLoop, ModProgram, ModAccept, ModEof, ModRead,
         ModUdpDiscovery, HandleDiscovery, HandleServerShutdown, HandleAssignId,
         HandleCall, UpdateAttribute
    <2> QED
      BY <2>4, <2>5, <2>6, <2>7, EachStep, ServerLeaves DEF vars
  <1> QED
    BY <1>1, <1>2

(* As long as the ids of a server fit into the bits that messages to it      *)
(* have, and no disconnect has crossed a handler, it has a channel for every *)
(* object but the one whose id it assigns.                                   *)
Fit(s)     == \A i \in Used(s) : i < IdMask
IdsFit     == \A s \in Servers : Fit(s)
Calm(s)    == Fit(s) /\ ~crossed[s]
AllCalm    == \A s \in Servers : Calm(s)
Present(s) == \A r \in modules[s] :
                 r.id \in DOMAIN sMap[s] \/ (ioTask[s].assigning /\ r.id = nextObjId[s])
AllPresent == \A s \in Servers : Calm(s) => Present(s)

LEMMA FitBefore ==
    ASSUME TypeInv, TypeInv', [Next]_vars, NEW s \in Servers, modules'[s] # {}
    PROVE  /\ Fit(s)' => Fit(s)
           /\ Calm(s)' => Calm(s)
  <1>1. Top(s) \in Int /\ Top(s)' \in Int
    <2>1. nextObjId[s] \in FirstId..MaxModuleId + 1
          /\ nextObjId'[s] \in FirstId..MaxModuleId + 1
      BY DEF TypeInv, TypeOK, RegistryTypes
    <2> QED
      BY <2>1, ConstantsAssumption DEF Top
  <1>2. Top(s)' >= Top(s) /\ (crossed[s] => crossed'[s])
    <2>1. ObjectStep(s)
      BY ObjectSteps
    <2>2. Top(s)' = Top(s) \/ Top(s)' = Top(s) + 1
      BY <2>1 DEF ObjectStep, Keep, Add, Look, Tell, Erase, Done, Touch, Leave, Gone, Reset,
         SameObjects
    <2>3. crossed[s] => crossed'[s]
      BY <2>1 DEF ObjectStep, Keep, Add, Look, Tell, Erase, Done, Touch, Leave, Gone, Reset
    <2> QED
      BY <1>1, <2>2, <2>3
  <1>3. Used(s) = FirstId..Top(s) /\ Used(s)' = FirstId..Top(s)'
    BY DEF Used, Top
  <1>4. Fit(s)' => Fit(s)
    BY <1>1, <1>2, <1>3, ConstantsAssumption DEF Fit
  <1> QED
    BY <1>2, <1>4 DEF Calm

(* The object that goes with a forgotten id is the one that has this id.     *)
LEMMA FreedObject ==
    ASSUME AddressInv, ObjectsInv, MappedBelow, NEW s \in Servers, Fit(s),
           ~ioTask[s].assigning, NEW k \in DOMAIN sMap[s]
    PROVE  \A o : o \in Named(s, k) <=> o \in modules[s] /\ o.id = k
  <1>1. k \in Ids
    BY Facts DEF AddressInv, ServerTypes
  <1>2. FirstId \in Nat /\ k \in Nat /\ k >= FirstId
    BY <1>1, ConstantsAssumption DEF Ids
  <1>3. nextObjId[s] \in Int /\ k < nextObjId[s]
    BY SameAs DEF AddressInv, MappedBelow
  <1>4. k \in Used(s)
    BY <1>2, <1>3 DEF Used
  <1>5. k % IdMask = k
    BY <1>2, <1>4, WithinMask DEF Fit
  <1> QED
    BY <1>5 DEF Named

LEMMA PresentStep ==
    ASSUME AddressInv, ObjectsInv, MappedBelow, DeclaresOnce, DeclareActive, AllPresent,
           TypeInv', [Next]_vars
    PROVE  AllPresent'
  <1> SUFFICES ASSUME NEW s \in Servers, Calm(s)', NEW r \in modules'[s]
               PROVE  r.id \in DOMAIN sMap'[s]
                      \/ (ioTask'[s].assigning /\ r.id = nextObjId'[s])
    BY DEF AllPresent, Present
  <1>1. Fit(s) /\ ~crossed[s] /\ Present(s)
    BY FitBefore DEF AddressInv, AllPresent, Calm
  <1>2. ObjectsFrom(s) /\ TaskFrom(s)
    BY ObjectsFromSteps DEF AddressInv
  <1>3. CASE Declared(s, r)
    BY <1>2, <1>3 DEF Declared, TaskFrom
  <1>4. ASSUME NEW o \in modules[s], r.id = o.id
        PROVE  r.id \in DOMAIN sMap'[s] \/ (ioTask'[s].assigning /\ r.id = nextObjId'[s])
    <2>1. r.id \in DOMAIN sMap[s] \/ (ioTask[s].assigning /\ r.id = nextObjId[s])
      BY <1>1, <1>4 DEF Present
    <2>2. CASE AssignModuleID(s)
      <3>1. sMap'[s] = Put(sMap[s], nextObjId[s], sActive[s])
        BY <2>2, AssignFacts
      <3> QED
        BY <2>1, <3>1 DEF Put
    <2>3. CASE sMap'[s] = sMap[s] /\ (ioTask[s].assigning => ioTask'[s].assigning)
      BY <1>2, <2>1, <2>3 DEF TaskFrom
    <2>4. ASSUME NEW c, ~ioTask[s].assigning, Frees(s, c)
          PROVE  r.id \in DOMAIN sMap'[s]
      <3> DEFINE k == FirstKey(sMap[s], c)
      <3>1. r.id \in DOMAIN sMap[s]
        BY <2>1, <2>4
      <3>2. CASE KeysOf(sMap[s], c) = {}
        BY <2>4, <3>1, <3>2 DEF Frees
      <3>3. CASE KeysOf(sMap[s], c) # {}
        <4>1. sMap'[s] = Del(sMap[s], k)
          BY <2>4, <3>3 DEF Frees
        <4>2. ASSUME r.id = k PROVE FALSE
          <5>1. \A q : q \in Named(s, k) <=> q \in modules[s] /\ q.id = k
            BY <1>1, <2>4, <3>1, <4>2, FreedObject
          <5>2. o \in Named(s, k)
            BY <1>4, <4>2, <5>1
          <5>3. CASE /\ ioTask[s].buf # <<>> /\ Head(ioTask[s].buf).type = "MODULE_DECLARE"
                     /\ c = sActive[s]
            BY <3>3, <5>3, DuplicateHere
          <5> QED
            BY <1>1, <2>4, <3>3, <5>2, <5>3 DEF Frees
        <4> HIDE DEF k
        <4> QED
          BY <3>1, <4>1, <4>2 DEF Del
      <3> QED
        BY <3>2, <3>3
    <2> QED
      BY <2>2, <2>3, <2>4, ShareSteps DEF ShareStep
  <1> QED
    BY <1>2, <1>3, <1>4 DEF ObjectsFrom, Same

(* What connects the objects of a server to running programs.                *)
OfflineInv == HandInv /\ ShareInv /\ DeadClosed /\ AllPresent

LEMMA InitOffline == Init => OfflineInv
  <1> SUFFICES ASSUME Init PROVE OfflineInv
    OBVIOUS
  <1>1. conn = <<>> /\ DOMAIN conn = {}
    BY DEF Init
  <1>2. \A s \in Servers : ioTask[s] = Idle /\ sMap[s] = Empty /\ modules[s] = {}
    BY DEF Init
  <1>3. Idle.buf = <<>> /\ Idle.udp = FALSE /\ DOMAIN Empty = {}
    BY DEF Idle, Empty
  <1>4. HandInv
    BY <1>1, <1>2, <1>3 DEF HandInv, EndsUp, UdpAlone, OpenHand
  <1>5. ShareInv
    BY <1>1, <1>2, <1>3 DEF ShareInv, DeclaresOnce, DeclareActive, MappedOnce, OpenMapped
  <1>6. DeadClosed /\ AllPresent
    BY <1>1, <1>2 DEF DeadClosed, AllPresent, Present
  <1> QED
    BY <1>4, <1>5, <1>6 DEF OfflineInv

\* If neither a server nor a discovery over IPC makes a second connection to a
\* program that has one (Dials), then as long as the ids of the servers fit
\* into the bits that messages to them have, and no disconnect has crossed a
\* handler, a server that has processed everything remembers no program that is
\* gone: whatever ended the program, the end of its connection deleted the
\* object, and no other.
THEOREM OfflineProgramsGone == ~Dials => (Spec => [](AllCalm => QuietOffline))
  <1> SUFFICES ASSUME ~Dials
               PROVE  Spec => [](AllCalm => QuietOffline)
    OBVIOUS
  <1> DEFINE Inv == AddressInv /\ ObjectsInv /\ HomeInv /\ OfflineInv
             Offline == AllCalm => QuietOffline
  <1>1. Init => Inv
    <2>1. Init => HomeInv
      BY DEF Init, HomeInv, MappedBelow, ActiveInHand, AssigningItsOwn, ChannelLeadsHome,
         Idle, Empty
    <2> QED
      BY <2>1, InitAddress, InitObjects, InitOffline
  <1>2. Inv /\ [Next]_vars => Inv'
    <2> SUFFICES ASSUME Inv, [Next]_vars PROVE Inv'
      OBVIOUS
    <2>1. AddressInv' /\ ObjectsInv' /\ HomeInv' /\ TypeInv'
      BY NextHome DEF AddressInv
    <2>2. HandInv'
      BY NextHand DEF OfflineInv
    <2>3. ShareInv'
      BY <2>1, ShareInvStep DEF OfflineInv
    <2>4. DeadClosed'
      BY <2>1, DeadClosedStep DEF OfflineInv
    <2>5. AllPresent'
      BY <2>1, PresentStep DEF OfflineInv, ShareInv, HomeInv
    <2> QED
      BY <2>1, <2>2, <2>3, <2>4, <2>5 DEF OfflineInv
  <1>3. Inv => Offline
    <2> SUFFICES ASSUME Inv, AllCalm, Quiet, NEW s \in Servers, NEW r \in modules[s]
                 PROVE  up[r.proc]
      BY DEF QuietOffline
    <2> DEFINE c == sMap[s][r.id]
    <2>1. ~ioTask[s].assigning
      BY DEF Quiet, Idle
    <2>2. r.id \in DOMAIN sMap[s]
      BY <2>1 DEF AllCalm, OfflineInv, AllPresent, Present
    <2>3. c \in DOMAIN conn /\ conn[c].mod = r.proc
      BY <2>2, Facts DEF AddressInv, ServerTypes, HomeInv, ChannelLeadsHome
    <2>4. conn[c].sEnd = "open"
      BY <2>2 DEF OfflineInv, ShareInv, OpenMapped
    <2>5. conn[c].mEnd # "closed"
      BY <2>3, <2>4 DEF Quiet
    <2> QED
      BY <2>3, <2>5 DEF OfflineInv, DeadClosed
  <1> QED
    BY <1>1, <1>2, <1>3, PTL DEF Spec
=============================================================================
