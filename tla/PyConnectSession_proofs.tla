----------------------- MODULE PyConnectSession_proofs -----------------------
(***************************************************************************)
(* Theorems about the session, for any number of servers and modules, any  *)
(* identities and names, and behaviours of any length.                     *)
(***************************************************************************)
EXTENDS PyConnectSession, FiniteSetTheorems, TLAPS

-----------------------------------------------------------------------------
(* Messages, tasks and connections *)

(* A byte on the wire; an id that is handed out fits in it. *)
LEMMA ByteType ==
    /\ \A i \in Int : Byte(i) \in Bytes
    /\ \A i \in Ids : Byte(i) = i /\ i \in Int
  <1>1. \A i \in Int : i % 256 \in Nat /\ i % 256 <= 255
    OBVIOUS
  <1>2. \A i \in Nat : i <= 255 => i % 256 = i
    OBVIOUS
  <1>3. \A i \in Ids : i \in Nat /\ i <= MaxModuleId
    BY ConstantsAssumption DEF Ids
  <1>4. \A i \in Ids : i \in Nat /\ i <= 255
    BY <1>3, ConstantsAssumption
  <1>5. \A i \in Int : Byte(i) \in Bytes
    BY <1>1 DEF Byte, Bytes
  <1> QED
    BY <1>2, <1>4, <1>5 DEF Byte

(* The messages a server sends are messages a module can receive... *)
LEMMA ServerMessages ==
    ASSUME NEW s \in Servers
    PROVE  /\ Discovery(s) \in ModMsg
           /\ \A i \in Ids : ServerShutdown(s, i) \in ModMsg
           /\ \A i \in Ids, n \in Names : /\ AssignId(s, i, n) \in ModMsg
                                          /\ Call(s, i, n) \in ModMsg
  <1>1. ServerID[s] \in ServerIDs
    BY ConstantsAssumption DEF ServerIDs
  <1>2. \A i \in Ids : Byte(i) \in Ids
    BY ByteType
  <1> QED
    BY <1>1, <1>2 DEF Discovery, ServerShutdown, AssignId, Call, ModMsg

(* ... and the other way round. *)
LEMMA ModuleMessages ==
    ASSUME NEW m \in Modules
    PROVE  /\ Declare(m) \in SrvMsg
           /\ \A t \in Reports, i \in Int : FromModule(t, m, i) \in SrvMsg
  <1>1. \A i \in Int : Byte(i) \in Bytes
    BY ByteType
  <1> QED
    BY <1>1 DEF Declare, FromModule, SrvMsg, Reports

(* Lists of messages. *)
LEMMA Lists ==
    ASSUME NEW M
    PROVE  /\ <<>> \in Seq(M)
           /\ \A x \in M : <<x>> \in Seq(M)
           /\ \A q \in Seq(M), x \in M : Append(q, x) \in Seq(M)
           /\ \A q \in Seq(M) : q # <<>> => Head(q) \in M /\ Tail(q) \in Seq(M)
  OBVIOUS

LEMMA PartOfList ==
    ASSUME NEW M, NEW q \in Seq(M), NEW n \in 1..Len(q)
    PROVE  SubSeq(q, 1, n) \in Seq(M) /\ SubSeq(q, n + 1, Len(q)) \in Seq(M)
  OBVIOUS

(* What a thread holds in its hands. *)
LEMMA Tasks ==
    ASSUME NEW M
    PROVE  /\ Idle \in Task(M)
           /\ \A c \in Nat, q \in Seq(M) : Reading(c, q) \in Task(M)
           /\ \A t \in Task(M) : Rest(t) \in Task(M)
  <1>1. Idle \in Task(M)
    BY Lists DEF Idle, Task, NoConn
  <1>2. ASSUME NEW t \in Task(M)
        PROVE  Rest(t) \in Task(M)
    <2>1. CASE Len(t.buf) <= 1
      BY <1>1, <2>1 DEF Rest
    <2>2. CASE ~(Len(t.buf) <= 1)
      <3>1. t.buf \in Seq(M)
        BY DEF Task
      <3>2. Tail(t.buf) \in Seq(M)
        BY <2>2, <3>1
      <3>3. Rest(t) = [t EXCEPT !.buf = Tail(t.buf), !.assigning = FALSE]
        BY <2>2 DEF Rest
      <3> QED
        BY <3>2, <3>3 DEF Task
    <2> QED
      BY <2>1, <2>2
  <1>3. ASSUME NEW c \in Nat, NEW q \in Seq(M)
        PROVE  Reading(c, q) \in Task(M)
    BY DEF Reading, Task
  <1> QED
    BY <1>1, <1>2, <1>3

(* A list of connections with one of them changed. *)
LEMMA ChangeOne ==
    ASSUME NEW cs \in Seq(Conn), NEW c \in DOMAIN cs, NEW new \in Conn
    PROVE  /\ [cs EXCEPT ![c] = new] \in Seq(Conn)
           /\ DOMAIN [cs EXCEPT ![c] = new] = DOMAIN cs
  OBVIOUS

(* A list of connections with any of them changed. *)
LEMMA ChangeMany ==
    ASSUME NEW cs \in Seq(Conn), NEW new,
           DOMAIN new = DOMAIN cs, new = [c \in DOMAIN cs |-> new[c]],
           \A c \in DOMAIN cs : new[c] \in Conn
    PROVE  new \in Seq(Conn)
  <1>1. Len(cs) \in Nat /\ DOMAIN cs = 1..Len(cs)
    OBVIOUS
  <1>2. new \in [1..Len(cs) -> Conn]
    BY <1>1
  <1> QED
    BY <1>1, <1>2

(* One connection with a list of messages replaced, or an end closed. *)
LEMMA ConnFields ==
    ASSUME NEW k \in Conn
    PROVE  /\ k.toSrv \in Seq(SrvMsg) /\ k.toMod \in Seq(ModMsg)
           /\ k.srv \in Servers /\ k.mod \in Modules
           /\ \A q \in Seq(SrvMsg) : [k EXCEPT !.toSrv = q] \in Conn
           /\ \A q \in Seq(ModMsg) : [k EXCEPT !.toMod = q] \in Conn
           /\ \A e \in EndState : /\ [k EXCEPT !.sEnd = e] \in Conn
                                  /\ [k EXCEPT !.mEnd = e] \in Conn
  BY DEF Conn

LEMMA ClosedEnd ==
    ASSUME NEW k \in Conn
    PROVE  /\ [k EXCEPT !.sEnd = "closed", !.toSrv = <<>>] \in Conn
           /\ [k EXCEPT !.mEnd = "closed", !.toMod = <<>>] \in Conn
  <1>1. <<>> \in Seq(SrvMsg) /\ <<>> \in Seq(ModMsg)
    BY Lists
  <1>2. "closed" \in EndState
    BY DEF EndState
  <1>3. \A q \in Seq(SrvMsg), e \in EndState : [k EXCEPT !.sEnd = e, !.toSrv = q] \in Conn
    BY DEF Conn
  <1>4. \A q \in Seq(ModMsg), e \in EndState : [k EXCEPT !.mEnd = e, !.toMod = q] \in Conn
    BY DEF Conn
  <1> QED
    BY <1>1, <1>2, <1>3, <1>4

LEMMA CloseSrvType ==
    ASSUME NEW cs \in Seq(Conn), NEW C
    PROVE  CloseSrv(cs, C) \in Seq(Conn) /\ DOMAIN CloseSrv(cs, C) = DOMAIN cs
  <1>1. \A c \in DOMAIN cs : cs[c] \in Conn
    OBVIOUS
  <1>2. \A c \in DOMAIN cs : [cs[c] EXCEPT !.sEnd = "closed", !.toSrv = <<>>] \in Conn
    BY <1>1, ClosedEnd
  <1>3. /\ DOMAIN CloseSrv(cs, C) = DOMAIN cs
        /\ CloseSrv(cs, C) = [c \in DOMAIN cs |-> CloseSrv(cs, C)[c]]
        /\ \A c \in DOMAIN cs : CloseSrv(cs, C)[c] \in Conn
    BY <1>1, <1>2, Zenon DEF CloseSrv
  <1> QED
    BY <1>3, ChangeMany

LEMMA CloseModType ==
    ASSUME NEW cs \in Seq(Conn), NEW C
    PROVE  CloseMod(cs, C) \in Seq(Conn) /\ DOMAIN CloseMod(cs, C) = DOMAIN cs
  <1>1. \A c \in DOMAIN cs : cs[c] \in Conn
    OBVIOUS
  <1>2. \A c \in DOMAIN cs : [cs[c] EXCEPT !.mEnd = "closed", !.toMod = <<>>] \in Conn
    BY <1>1, ClosedEnd
  <1>3. /\ DOMAIN CloseMod(cs, C) = DOMAIN cs
        /\ CloseMod(cs, C) = [c \in DOMAIN cs |-> CloseMod(cs, C)[c]]
        /\ \A c \in DOMAIN cs : CloseMod(cs, C)[c] \in Conn
    BY <1>1, <1>2, Zenon DEF CloseMod
  <1> QED
    BY <1>3, ChangeMany

LEMMA SrvWriteType ==
    ASSUME NEW cs \in Seq(Conn), NEW c \in {NoConn} \cup DOMAIN cs, NEW msg \in ModMsg
    PROVE  SrvWrite(cs, c, msg) \in Seq(Conn) /\ DOMAIN SrvWrite(cs, c, msg) = DOMAIN cs
  <1>1. CASE c # NoConn /\ cs[c].sEnd = "open" /\ cs[c].mEnd # "closed"
    <2>1. c \in DOMAIN cs /\ cs[c] \in Conn
      BY <1>1
    <2>2. [cs[c] EXCEPT !.toMod = Append(cs[c].toMod, msg)] \in Conn
      BY <2>1, ConnFields, Lists
    <2>3. SrvWrite(cs, c, msg) =
            [cs EXCEPT ![c] = [cs[c] EXCEPT !.toMod = Append(cs[c].toMod, msg)]]
      BY <1>1 DEF SrvWrite
    <2> QED
      BY <2>1, <2>2, <2>3, ChangeOne
  <1>2. CASE ~(c # NoConn /\ cs[c].sEnd = "open" /\ cs[c].mEnd # "closed")
    BY <1>2 DEF SrvWrite
  <1> QED
    BY <1>1, <1>2

LEMMA ModWriteType ==
    ASSUME NEW cs \in Seq(Conn), NEW c \in {NoConn} \cup DOMAIN cs, NEW msg \in SrvMsg
    PROVE  ModWrite(cs, c, msg) \in Seq(Conn) /\ DOMAIN ModWrite(cs, c, msg) = DOMAIN cs
  <1>1. CASE ModCanWrite(cs, c)
    <2>1. c \in DOMAIN cs /\ cs[c] \in Conn
      BY <1>1 DEF ModCanWrite
    <2>2. [cs[c] EXCEPT !.toSrv = Append(cs[c].toSrv, msg)] \in Conn
      BY <2>1, ConnFields, Lists
    <2>3. ModWrite(cs, c, msg) =
            [cs EXCEPT ![c] = [cs[c] EXCEPT !.toSrv = Append(cs[c].toSrv, msg)]]
      BY <1>1 DEF ModWrite
    <2> QED
      BY <2>1, <2>2, <2>3, ChangeOne
  <1>2. CASE ~ModCanWrite(cs, c)
    BY <1>2 DEF ModWrite
  <1> QED
    BY <1>1, <1>2

(* A new connection is appended. *)
LEMMA OpenConnType ==
    ASSUME NEW s \in Servers, NEW m \in Modules, NEW by \in {"srv", "mod"},
           NEW via \in {"net", "ipc"}
    PROVE  OpenConn(s, m, by, via) \in Conn
  BY Lists DEF OpenConn, Conn, EndState

LEMMA AppendType ==
    ASSUME NEW cs \in Seq(Conn), NEW k \in Conn
    PROVE  /\ Append(cs, k) \in Seq(Conn) /\ DOMAIN cs \subseteq DOMAIN Append(cs, k)
           /\ Len(cs) + 1 \in DOMAIN Append(cs, k) /\ Len(cs) + 1 \in Nat
  OBVIOUS
(* The messages to all servers. *)
LEMMA ModWriteAllType ==
    ASSUME NEW cs \in Seq(Conn), NEW m \in Modules, NEW type \in Reports, ModuleTypes
    PROVE  /\ ModWriteAll(cs, m, type) \in Seq(Conn)
           /\ DOMAIN ModWriteAll(cs, m, type) = DOMAIN cs
  <1> DEFINE sids(c) == KeysOf(mMap[m], c) \cap DOMAIN serverMap[m]
             id(c)   == serverMap[m][CHOOSE k \in sids(c) : TRUE]
             all     == ModWriteAll(cs, m, type)
  <1>1. ASSUME NEW c \in DOMAIN cs
        PROVE  all[c] \in Conn
    <2>1. cs[c] \in Conn /\ cs[c].toSrv \in Seq(SrvMsg)
      BY ConnFields
    <2>2. CASE sids(c) # {} /\ ModCanWrite(cs, c)
      <3>1. id(c) \in {Unassigned} \cup Ids
        BY <2>2 DEF ModuleTypes
      <3>2. id(c) \in Int
        BY <3>1, ByteType DEF Unassigned
      <3>3. FromModule(type, m, id(c)) \in SrvMsg
        BY <3>2, ModuleMessages
      <3>4. Append(cs[c].toSrv, FromModule(type, m, id(c))) \in Seq(SrvMsg)
        BY <2>1, <3>3, Lists, Zenon
      <3>5. [cs[c] EXCEPT !.toSrv = Append(cs[c].toSrv, FromModule(type, m, id(c)))] \in Conn
        BY <2>1, <3>4, ConnFields, Zenon
      <3> QED
        BY <2>2, <3>5 DEF ModWriteAll
    <2>3. CASE ~(sids(c) # {} /\ ModCanWrite(cs, c))
      BY <2>1, <2>3 DEF ModWriteAll
    <2> QED
      BY <2>2, <2>3
  <1>2. DOMAIN all = DOMAIN cs /\ all = [c \in DOMAIN cs |-> all[c]]
    BY DEF ModWriteAll
  <1> QED
    BY <1>1, <1>2, ChangeMany

-----------------------------------------------------------------------------
(* The type invariant *)

(* TypeOK alone is not inductive: nextObjId_ stays within its range because  *)
(* an id is only being assigned while there is one left, and the name that   *)
(* goes with it is that of the declaration still in hand.                    *)
Assigning ==
    \A s \in Servers : ioTask[s].assigning =>
        /\ ioTask[s].buf # <<>> /\ Head(ioTask[s].buf).type = "MODULE_DECLARE"
        /\ nextObjId[s] <= MaxModuleId
TypeInv == TypeOK /\ Assigning

LEMMA InitTypes == Init => TypeInv
  <1> SUFFICES ASSUME Init PROVE TypeInv
    OBVIOUS
  <1>1. RegistryTypes
    <2>1. FirstId \in FirstId..MaxModuleId + 1
      BY ConstantsAssumption
    <2>2. <<>> \in Seq(Notice) /\ <<>> \in Seq(Ids) /\ NoWork \in Work
      BY Lists DEF Work
    <2> QED
      BY <2>1, <2>2 DEF Init, RegistryTypes
  <1>2. ServerTypes
    BY Tasks DEF Init, ServerTypes, On, Empty
  <1>3. ModuleTypes
    BY Tasks DEF Init, ModuleTypes, On, Empty
  <1>4. NetworkTypes
    BY ConstantsAssumption, Lists DEF Init, NetworkTypes
  <1>5. Assigning
    BY DEF Init, Assigning, Idle
  <1> QED
    BY <1>1, <1>2, <1>3, <1>4, <1>5 DEF TypeInv, TypeOK

(* What a step leaves alone keeps its type, and connections stay opened. *)
LEMMA RegistryFrame ==
    ASSUME RegistryTypes, UNCHANGED registryVars
    PROVE  RegistryTypes'
  BY DEF RegistryTypes, registryVars, handlerVars

LEMMA ServerFrame ==
    ASSUME ServerTypes, UNCHANGED <<sUp, main, ioTask, srvCommVars>>,
           DOMAIN conn \subseteq DOMAIN conn'
    PROVE  ServerTypes'
  BY DEF ServerTypes, srvCommVars, On

LEMMA ModuleFrame ==
    ASSUME ModuleTypes, UNCHANGED <<up, executed, modCommVars>>,
           DOMAIN conn \subseteq DOMAIN conn'
    PROVE  ModuleTypes'
  BY DEF ModuleTypes, modCommVars, On

LEMMA AssigningFrame ==
    ASSUME Assigning, UNCHANGED <<ioTask, nextObjId>>
    PROVE  Assigning'
  BY DEF Assigning

(* The same with the mapping of one server, or of one module, replaced. *)
LEMMA ServerChange ==
    ASSUME ServerTypes, UNCHANGED <<sUp, main>>,
           DOMAIN conn \subseteq DOMAIN conn',
           ioTask' \in [Servers -> Task(SrvMsg)],
           sActive' \in [Servers -> {NoConn} \cup DOMAIN conn'],
           NEW s \in Servers, NEW STATE map,
           DOMAIN map \subseteq Ids, \A i \in DOMAIN map : map[i] \in DOMAIN conn',
           sMap' = [sMap EXCEPT ![s] = map]
    PROVE  ServerTypes'
  BY DEF ServerTypes, On

(* What the invariant says of one connection, one server, one module. *)
LEMMA Facts ==
    ASSUME TypeInv
    PROVE  /\ conn \in Seq(Conn) /\ DOMAIN conn \subseteq Nat
           /\ \A c \in DOMAIN conn : conn[c] \in Conn
           /\ udp \subseteq Datagram /\ ops \in 0..MaxOps
           /\ \A s \in Servers : /\ ioTask[s] \in Task(SrvMsg)
                                 /\ sActive[s] \in {NoConn} \cup DOMAIN conn
                                 /\ modules[s] \subseteq ModuleRec
           /\ \A m \in Modules : /\ modTask[m] \in Task(ModMsg)
                                 /\ mActive[m] \in {NoConn} \cup DOMAIN conn
           /\ RegistryTypes /\ ServerTypes /\ ModuleTypes /\ Assigning
  <1>1. conn \in Seq(Conn) /\ udp \subseteq Datagram /\ ops \in 0..MaxOps
    BY DEF TypeInv, TypeOK, NetworkTypes
  <1>2. DOMAIN conn \subseteq Nat /\ \A c \in DOMAIN conn : conn[c] \in Conn
    BY <1>1
  <1>3. RegistryTypes /\ ServerTypes /\ ModuleTypes /\ Assigning
    BY DEF TypeInv, TypeOK
  <1> QED
    BY <1>1, <1>2, <1>3 DEF RegistryTypes, ServerTypes, ModuleTypes

(* Messages that were read are messages; a thread that put one down, or      *)
(* picked some up, is not assigning.                                         *)
LEMMA HeadType ==
    ASSUME NEW M, NEW t \in Task(M), t.buf # <<>>
    PROVE  Head(t.buf) \in M
  BY Lists DEF Task

LEMMA NotAssigning ==
    /\ Idle.assigning = FALSE
    /\ \A c, q : Reading(c, q).assigning = FALSE
    /\ \A M : \A t \in Task(M) : Rest(t).assigning = FALSE
  BY DEF Idle, Reading, Rest, Task

LEMMA TaskChange ==
    ASSUME ServerTypes, Assigning, NEW s \in Servers, NEW STATE t, t.assigning = FALSE,
           ioTask' = [ioTask EXCEPT ![s] = t],
           \A x \in Servers \ {s} : nextObjId'[x] = nextObjId[x]
    PROVE  Assigning'
  BY DEF ServerTypes, Assigning

LEMMA SrvAcceptTypes ==
    ASSUME TypeInv, NEW s \in Servers, NEW c \in DOMAIN conn, SrvAccept(s, c)
    PROVE  TypeInv'
  <1>1. conn \in Seq(Conn) /\ conn[c] \in Conn
    BY DEF TypeInv, TypeOK, NetworkTypes
  <1>2. [conn[c] EXCEPT !.sEnd = "open"] \in Conn
    BY <1>1, ConnFields DEF EndState
  <1>3. conn' = [conn EXCEPT ![c] = [conn[c] EXCEPT !.sEnd = "open"]]
    BY <1>1 DEF SrvAccept
  <1>4. conn' \in Seq(Conn) /\ DOMAIN conn' = DOMAIN conn
    BY <1>1, <1>2, <1>3, ChangeOne
  <1>5. ServerTypes'
    BY <1>4 DEF TypeInv, TypeOK, ServerTypes, SrvAccept, On
  <1>6. RegistryTypes'
    BY RegistryFrame DEF TypeInv, TypeOK, SrvAccept
  <1>7. ModuleTypes'
    BY <1>4, ModuleFrame DEF TypeInv, TypeOK, SrvAccept
  <1>8. Assigning'
    BY AssigningFrame DEF TypeInv, SrvAccept, registryVars
  <1> QED
    BY <1>4, <1>5, <1>6, <1>7, <1>8 DEF TypeInv, TypeOK, NetworkTypes, SrvAccept
LEMMA SrvReadTypes ==
    ASSUME TypeInv, NEW s \in Servers, NEW c \in DOMAIN conn,
           NEW n \in 1..Len(conn[c].toSrv), SrvRead(s, c, n)
    PROVE  TypeInv'
  <1>1. conn \in Seq(Conn) /\ conn[c] \in Conn /\ conn[c].toSrv \in Seq(SrvMsg)
    BY Facts, ConnFields
  <1> DEFINE rest == SubSeq(conn[c].toSrv, n + 1, Len(conn[c].toSrv))
             task == Reading(c, SubSeq(conn[c].toSrv, 1, n))
  <1>2. rest \in Seq(SrvMsg) /\ SubSeq(conn[c].toSrv, 1, n) \in Seq(SrvMsg)
    BY <1>1, PartOfList
  <1>3. [conn[c] EXCEPT !.toSrv = rest] \in Conn
    BY <1>1, <1>2, ConnFields
  <1>4. conn' = [conn EXCEPT ![c] = [conn[c] EXCEPT !.toSrv = rest]]
    BY <1>1 DEF SrvRead
  <1>5. conn' \in Seq(Conn) /\ DOMAIN conn' = DOMAIN conn
    BY <1>1, <1>3, <1>4, ChangeOne
  <1>6. task \in Task(SrvMsg) /\ task.assigning = FALSE
    BY <1>2, Tasks, Facts, NotAssigning
  <1>7. ioTask' = [ioTask EXCEPT ![s] = task] /\ UNCHANGED nextObjId
    BY DEF SrvRead, registryVars
  <1> HIDE DEF task
  <1>8. ServerTypes'
    BY <1>5, <1>6, <1>7, Facts DEF ServerTypes, SrvRead, On
  <1>9. Assigning'
    BY <1>6, <1>7, Facts, TaskChange
  <1>10. RegistryTypes'
    BY RegistryFrame, Facts DEF SrvRead
  <1>11. ModuleTypes'
    BY <1>5, ModuleFrame, Facts DEF SrvRead
  <1> QED
    BY <1>5, <1>8, <1>9, <1>10, <1>11, Facts DEF TypeInv, TypeOK, NetworkTypes, SrvRead

(* A callback, and what an erasure leaves. *)
LEMMA CallbackTypes ==
    ASSUME RegistryTypes, NEW s \in Servers, NEW i \in Ids,
           NEW what \in {"onModuleCreated", "onModuleDestroyed"}, Callback(s, what, i)
    PROVE  notices' \in [Servers -> Seq(Notice)]
  <1>1. [what |-> what, id |-> i] \in Notice
    BY DEF Notice
  <1>2. Append(notices[s], [what |-> what, id |-> i]) \in Seq(Notice)
    BY <1>1, Lists DEF RegistryTypes
  <1> QED
    BY <1>2 DEF Callback, RegistryTypes

LEMMA ErasedTypes ==
    ASSUME RegistryTypes, NEW s \in Servers, NEW i, NEW R \in Erased(s, i)
    PROVE  R \subseteq modules[s]
  BY DEF Erased

LEMMA EraseTypes ==
    ASSUME RegistryTypes, NEW s \in Servers, NEW i,
           \E R \in Erased(s, i) : modules' = [modules EXCEPT ![s] = R]
    PROVE  /\ modules' \in [Servers -> SUBSET ModuleRec]
           /\ modules'[s] \subseteq modules[s]
           /\ \A x \in Servers : x # s => modules'[x] = modules[x]
  <1>1. PICK R \in Erased(s, i) : modules' = [modules EXCEPT ![s] = R]
    OBVIOUS
  <1>2. R \subseteq modules[s]
    BY ErasedTypes
  <1> QED
    BY <1>1, <1>2 DEF RegistryTypes

(* What the IO thread has found. *)
LEMMA WorkFacts ==
    ASSUME RegistryTypes, NEW s \in Servers
    PROVE  /\ NoWork \in Work /\ NoWork.at = "none"
           /\ \A i \in Ids, c \in Nat : Found(i, c) \in Work
           /\ work[s].at \in {"found", "notified", "erased"} =>
                  /\ work[s].id \in Ids
                  /\ \A a \in {"found", "notified", "erased"} :
                        [work[s] EXCEPT !.at = a] \in Work
  <1>1. NoWork \in Work /\ NoWork.at = "none"
    BY DEF Work, NoWork
  <1>2. \A i \in Ids, c \in Nat : Found(i, c) \in Work
    BY DEF Work, Found
  <1>3. work[s] \in Work
    BY DEF RegistryTypes
  <1>4. ASSUME work[s].at \in {"found", "notified", "erased"}
        PROVE  work[s] \in [at : {"found", "notified", "erased"}, id : Ids, eof : Nat]
    BY <1>1, <1>3, <1>4 DEF Work
  <1>5. \A w \in [at : {"found", "notified", "erased"}, id : Ids, eof : Nat] :
          /\ w.id \in Ids
          /\ \A a \in {"found", "notified", "erased"} : [w EXCEPT !.at = a] \in Work
    BY DEF Work
  <1> QED
    BY <1>1, <1>2, <1>4, <1>5

(* The IO thread's work on an object, and the end of a disconnect, leave all  *)
(* but the objects and what is told of them alone.                            *)
LEMMA ObjectWorkKeeps ==
    ASSUME NEW s \in Servers, ObjectWork(s) \/ EndDisconnect(s)
    PROVE  /\ UNCHANGED <<sUp, nextObjId, srvCommVars, ioTask, main, up, modCommVars>>
           /\ UNCHANGED <<sMap, sActive, serverMap, mMap, mActive, modTask>>
           /\ UNCHANGED <<executed, conn, udp, ops>>
  <1>1. ASSUME NEW c, FindAtEof(s, c)
        PROVE  UNCHANGED <<sUp, nextObjId, srvCommVars, ioTask, main, up, modCommVars,
                           executed, conn, udp, ops>>
    BY <1>1 DEF FindAtEof
  <1>2. UNCHANGED <<sUp, nextObjId, srvCommVars, ioTask, main, up, modCommVars,
                    executed, conn, udp, ops>>
    BY <1>1 DEF ObjectWork, Find, NotifyDestroyed, EraseAtEof, EndDisconnect
  <1> QED
    BY <1>2 DEF srvCommVars, modCommVars

LEMMA ObjectWorkTypes ==
    ASSUME TypeInv, NEW s \in Servers, ObjectWork(s) \/ EndDisconnect(s)
    PROVE  /\ TypeInv'
           /\ modules'[s] \subseteq modules[s]
           /\ \A x \in Servers : x # s => modules'[x] = modules[x]
  <1> DEFINE Fewer == /\ modules'[s] \subseteq modules[s]
                      /\ \A x \in Servers : x # s => modules'[x] = modules[x]
  <1>1. RegistryTypes /\ \A r \in modules[s] : r.id \in Ids
    BY Facts DEF RegistryTypes, ModuleRec
  <1>2. ASSUME NEW c \in DOMAIN conn, FindAtEof(s, c)
        PROVE  RegistryTypes' /\ Fewer
    <2>1. PICK r \in modules[s] : work' = [work EXCEPT ![s] = Found(r.id, c)]
      BY <1>2 DEF FindAtEof, LostWith, Named
    <2>2. Found(r.id, c) \in Work
      BY <1>1, WorkFacts, Facts
    <2> QED
      BY <1>1, <1>2, <2>1, <2>2 DEF RegistryTypes, FindAtEof
  <1>3. ASSUME Find(s)
        PROVE  RegistryTypes' /\ Fewer
    <2>1. PICK r \in modules[s] : work' = [work EXCEPT ![s] = Found(r.id, NoConn)]
      BY <1>3 DEF Find, Named
    <2>2. Found(r.id, NoConn) \in Work
      BY <1>1, WorkFacts DEF NoConn
    <2> QED
      BY <1>1, <1>3, <2>1, <2>2 DEF RegistryTypes, Find
  <1>4. ASSUME NotifyDestroyed(s)
        PROVE  RegistryTypes' /\ Fewer
    <2>1. work[s].id \in Ids /\ [work[s] EXCEPT !.at = "notified"] \in Work
      BY <1>1, <1>4, WorkFacts DEF NotifyDestroyed
    <2>2. notices' \in [Servers -> Seq(Notice)]
      BY <1>1, <1>4, <2>1, CallbackTypes DEF NotifyDestroyed
    <2> QED
      BY <1>1, <1>4, <2>1, <2>2 DEF RegistryTypes, NotifyDestroyed
  <1>5. ASSUME EraseAtEof(s)
        PROVE  RegistryTypes' /\ Fewer
    <2>1. [work[s] EXCEPT !.at = "erased"] \in Work
      BY <1>1, <1>5, WorkFacts DEF EraseAtEof
    <2>2. modules' \in [Servers -> SUBSET ModuleRec] /\ Fewer
      BY <1>1, <1>5, EraseTypes DEF EraseAtEof
    <2> QED
      BY <1>1, <1>5, <2>1, <2>2 DEF RegistryTypes, EraseAtEof
  <1>6. ASSUME EndDisconnect(s)
        PROVE  RegistryTypes' /\ Fewer
    <2>1. Tail(leaving[s]) \in Seq(Ids)
      BY <1>1, <1>6, Lists DEF RegistryTypes, EndDisconnect
    <2>2. modules' \in [Servers -> SUBSET ModuleRec] /\ Fewer
      BY <1>1, <1>6, EraseTypes DEF EndDisconnect
    <2> QED
      BY <1>1, <1>6, <2>1, <2>2 DEF RegistryTypes, EndDisconnect
  <1>7. RegistryTypes' /\ Fewer
    BY <1>2, <1>3, <1>4, <1>5, <1>6 DEF ObjectWork
  <1>8. ServerTypes' /\ ModuleTypes' /\ Assigning' /\ NetworkTypes'
    <2>1. UNCHANGED conn /\ DOMAIN conn \subseteq DOMAIN conn'
      BY ObjectWorkKeeps
    <2>2. ServerTypes' /\ ModuleTypes'
      BY <2>1, ObjectWorkKeeps, ServerFrame, ModuleFrame, Facts
    <2>3. Assigning'
      BY ObjectWorkKeeps, AssigningFrame, Facts
    <2> QED
      BY <2>2, <2>3, ObjectWorkKeeps, Facts DEF NetworkTypes
  <1> QED
    BY <1>7, <1>8 DEF TypeInv, TypeOK

(* A mapping with a key set or erased. *)
LEMMA Mappings ==
    ASSUME NEW D, NEW R, NEW f, DOMAIN f \subseteq D, \A x \in DOMAIN f : f[x] \in R
    PROVE  /\ \A k \in D, v \in R :
                  DOMAIN Put(f, k, v) \subseteq D
                  /\ \A x \in DOMAIN Put(f, k, v) : Put(f, k, v)[x] \in R
           /\ \A k : DOMAIN Del(f, k) \subseteq D
                     /\ \A x \in DOMAIN Del(f, k) : Del(f, k)[x] \in R
  BY DEF Put, Del

LEMMA SrvEofTypes ==
    ASSUME TypeInv, NEW s \in Servers, NEW c \in DOMAIN conn, SrvEof(s, c)
    PROVE  TypeInv'
  <1>1. conn' \in Seq(Conn) /\ DOMAIN conn' = DOMAIN conn
    BY Facts, CloseSrvType DEF SrvEof
  <1>2. RegistryTypes' /\ UNCHANGED nextObjId
    BY Facts, WorkFacts DEF SrvEof, RegistryTypes
  <1>3. ServerTypes'
    <2>1. CASE UNCHANGED sMap
      BY <1>1, <2>1, ServerFrame, Facts DEF SrvEof, srvCommVars
    <2>2. CASE \E k : sMap' = [sMap EXCEPT ![s] = Del(sMap[s], k)]
      <3>1. PICK k : sMap' = [sMap EXCEPT ![s] = Del(sMap[s], k)]
        BY <2>2
      <3>2. /\ DOMAIN Del(sMap[s], k) \subseteq Ids
            /\ \A i \in DOMAIN Del(sMap[s], k) : Del(sMap[s], k)[i] \in DOMAIN conn
        BY Facts, Mappings DEF ServerTypes
      <3> QED
        BY <1>1, <3>1, <3>2, ServerChange, Facts DEF SrvEof, ServerTypes
    <2> QED
      BY <2>1, <2>2 DEF SrvEof
  <1>4. ModuleTypes'
    BY <1>1, ModuleFrame, Facts DEF SrvEof
  <1>5. Assigning'
    BY <1>2, AssigningFrame, Facts DEF SrvEof
  <1> QED
    BY <1>1, <1>2, <1>3, <1>4, <1>5, Facts DEF TypeInv, TypeOK, NetworkTypes, SrvEof
LEMMA SrvUdpDeclareTypes ==
    ASSUME TypeInv, NEW s \in Servers, NEW m \in Modules, SrvUdpDeclare(s, m)
    PROVE  TypeInv'
  <1>1. udp' \subseteq Datagram
    BY Facts DEF SrvUdpDeclare
  <1>2. RegistryTypes' /\ UNCHANGED nextObjId
    BY RegistryFrame, Facts DEF SrvUdpDeclare, registryVars
  <1>3. CASE up[m]
    <2> DEFINE task == [Reading(Len(conn) + 1, <<Declare(m)>>) EXCEPT !.udp = TRUE]
    <2>1. OpenConn(s, m, "srv", "net") \in Conn
      BY OpenConnType
    <2>2. conn' = Append(conn, OpenConn(s, m, "srv", "net"))
      BY <1>3 DEF SrvUdpDeclare
    <2>3. /\ conn' \in Seq(Conn) /\ DOMAIN conn \subseteq DOMAIN conn'
          /\ Len(conn) + 1 \in DOMAIN conn' /\ Len(conn) + 1 \in Nat
      BY <2>1, <2>2, AppendType, Facts
    <2>4. <<Declare(m)>> \in Seq(SrvMsg)
      BY ModuleMessages, Lists
    <2>5. Reading(Len(conn) + 1, <<Declare(m)>>) \in Task(SrvMsg)
      BY <2>3, <2>4, Tasks
    <2>6. task \in Task(SrvMsg) /\ task.assigning = FALSE
      BY <2>5, NotAssigning DEF Task, Reading
    <2>7. /\ ioTask' = [ioTask EXCEPT ![s] = task]
          /\ sActive' = [sActive EXCEPT ![s] = Len(conn) + 1]
      BY <1>3 DEF SrvUdpDeclare
    <2> HIDE DEF task
    <2>8. ServerTypes'
      BY <2>3, <2>6, <2>7, Facts DEF ServerTypes, SrvUdpDeclare, On
    <2>9. Assigning'
      BY <1>2, <2>6, <2>7, TaskChange, Facts
    <2>10. ModuleTypes'
      BY <2>3, ModuleFrame, Facts DEF SrvUdpDeclare
    <2> QED
      BY <1>1, <1>2, <2>3, <2>8, <2>9, <2>10, Facts
      DEF TypeInv, TypeOK, NetworkTypes, SrvUdpDeclare
  <1>4. CASE ~up[m]
    <2>1. ServerTypes' /\ ModuleTypes' /\ Assigning'
      BY <1>2, <1>4, ServerFrame, ModuleFrame, AssigningFrame, Facts
      DEF SrvUdpDeclare, srvCommVars
    <2> QED
      BY <1>1, <1>2, <1>4, <2>1, Facts
      DEF TypeInv, TypeOK, NetworkTypes, SrvUdpDeclare
  <1> QED
    BY <1>3, <1>4

(* The declaration in the IO thread's hands, and who sent it. *)
LEMMA DeclareType ==
    ASSUME TypeInv, NEW s \in Servers, ioTask[s].buf # <<>>,
           Head(ioTask[s].buf).type = "MODULE_DECLARE"
    PROVE  /\ Head(ioTask[s].buf).from \in Modules
           /\ Name[Head(ioTask[s].buf).from] \in Names
  <1>1. Head(ioTask[s].buf) \in SrvMsg
    BY Facts, HeadType
  <1>2. Head(ioTask[s].buf).from \in Modules
    BY <1>1 DEF SrvMsg
  <1> QED
    BY <1>2 DEF Names

(* A message the IO thread has dealt with. *)
LEMMA RestTypes ==
    ASSUME TypeInv, NEW s \in Servers
    PROVE  Rest(ioTask[s]) \in Task(SrvMsg) /\ Rest(ioTask[s]).assigning = FALSE
  BY Facts, Tasks, NotAssigning

LEMMA HandleDeclareNewTypes ==
    ASSUME TypeInv, NEW s \in Servers, HandleDeclareNew(s)
    PROVE  TypeInv'
  <1> DEFINE m == Head(ioTask[s].buf).from
             i == nextObjId[s]
             object == [id |-> i, name |-> Name[m], proc |-> m, exposed |-> 0,
                        described |-> FALSE, heard |-> {}]
  <1>1. m \in Modules /\ Name[m] \in Names
    BY DeclareType DEF HandleDeclareNew, SrvMsgIs
  <1>2. i \in FirstId..MaxModuleId + 1
    BY Facts DEF RegistryTypes
  <1>3. UNCHANGED <<conn, udp, ops>> /\ UNCHANGED nextObjId
    BY DEF HandleDeclareNew
  <1>4. ModuleTypes'
    BY <1>3, ModuleFrame, Facts DEF HandleDeclareNew
  <1>5. CASE i > MaxModuleId
    <2>1. ioTask' = [ioTask EXCEPT ![s] = Rest(ioTask[s])] /\ UNCHANGED modules
      BY <1>5 DEF HandleDeclareNew
    <2>2. RegistryTypes'
      BY <1>5, <2>1, Facts DEF HandleDeclareNew, RegistryTypes
    <2>3. ServerTypes'
      BY <2>1, <1>3, RestTypes, Facts DEF ServerTypes, HandleDeclareNew, srvCommVars, On
    <2>4. Assigning'
      BY <2>1, <1>3, RestTypes, TaskChange, Facts
    <2> QED
      BY <1>3, <1>4, <2>2, <2>3, <2>4, Facts DEF TypeInv, TypeOK, NetworkTypes
  <1>6. CASE ~(i > MaxModuleId)
    <2>1. /\ modules' = [modules EXCEPT ![s] = modules[s] \cup {object}]
          /\ ioTask' = [ioTask EXCEPT ![s] = [ioTask[s] EXCEPT !.assigning = TRUE]]
      BY <1>6 DEF HandleDeclareNew
    <2>2. i \in Ids
      BY <1>2, <1>6, ConstantsAssumption DEF Ids
    <2>3. object \in ModuleRec
      BY <1>1, <2>2 DEF ModuleRec
    <2>4. RegistryTypes'
      BY <1>6, <2>1, <2>3, Facts DEF RegistryTypes, HandleDeclareNew
    <2>5. [ioTask[s] EXCEPT !.assigning = TRUE] \in Task(SrvMsg)
      BY Facts DEF Task
    <2>6. ServerTypes'
      BY <2>1, <2>5, <1>3, Facts DEF ServerTypes, HandleDeclareNew, srvCommVars, On
    <2>7. Assigning'
      <3>1. i <= MaxModuleId
        BY <1>2, <1>6, ConstantsAssumption
      <3>2. ioTask[s].buf # <<>> /\ Head(ioTask[s].buf).type = "MODULE_DECLARE"
        BY DEF HandleDeclareNew, SrvMsgIs
      <3> QED
        BY <1>3, <2>1, <3>1, <3>2, Facts DEF Assigning, Task, ServerTypes
    <2> QED
      BY <1>3, <1>4, <2>4, <2>6, <2>7, Facts DEF TypeInv, TypeOK, NetworkTypes
  <1> QED
    BY <1>5, <1>6

LEMMA AssignModuleIDTypes ==
    ASSUME TypeInv, NEW s \in Servers, AssignModuleID(s)
    PROVE  TypeInv'
  <1> DEFINE m == Head(ioTask[s].buf).from
             i == nextObjId[s]
             c == sActive[s]
             map == IF c = NoConn THEN sMap[s] ELSE Put(sMap[s], i, c)
  <1>1. i \in FirstId..MaxModuleId + 1 /\ i <= MaxModuleId
    BY Facts DEF RegistryTypes, Assigning, AssignModuleID
  <1>2. i \in Ids /\ i + 1 \in FirstId..MaxModuleId + 1
    BY <1>1, ConstantsAssumption DEF Ids
  <1>3. Name[m] \in Names
    BY Facts, DeclareType DEF Assigning, AssignModuleID
  <1>4. AssignId(s, i, Name[m]) \in ModMsg
    BY <1>2, <1>3, ServerMessages
  <1>5. conn' \in Seq(Conn) /\ DOMAIN conn' = DOMAIN conn
    BY <1>4, Facts, SrvWriteType DEF AssignModuleID
  <1>6. DOMAIN map \subseteq Ids /\ \A k \in DOMAIN map : map[k] \in DOMAIN conn
    <2>1. DOMAIN sMap[s] \subseteq Ids /\ \A k \in DOMAIN sMap[s] : sMap[s][k] \in DOMAIN conn
      BY Facts DEF ServerTypes
    <2>2. CASE c = NoConn
      BY <2>1, <2>2
    <2>3. CASE c # NoConn
      <3>1. c \in DOMAIN conn
        BY <2>3, Facts
      <3>2. /\ DOMAIN Put(sMap[s], i, c) \subseteq Ids
            /\ \A k \in DOMAIN Put(sMap[s], i, c) : Put(sMap[s], i, c)[k] \in DOMAIN conn
        BY <1>2, <2>1, <3>1, Mappings
      <3> QED
        BY <2>3, <3>2
    <2> QED
      BY <2>2, <2>3
  <1>7. sMap' = [sMap EXCEPT ![s] = map]
    BY Facts DEF AssignModuleID, ServerTypes, On
  <1>8. /\ ioTask' = [ioTask EXCEPT ![s] = Rest(ioTask[s])]
        /\ sActive' = [sActive EXCEPT ![s] = NoConn]
    BY DEF AssignModuleID
  <1>9. ServerTypes'
    <2>1. ioTask' \in [Servers -> Task(SrvMsg)]
      BY <1>8, RestTypes, Facts DEF ServerTypes
    <2>2. sActive' \in [Servers -> {NoConn} \cup DOMAIN conn']
      BY <1>5, <1>8, Facts DEF ServerTypes
    <2> HIDE DEF map
    <2> QED
      BY <1>5, <1>6, <1>7, <2>1, <2>2, ServerChange, Facts DEF AssignModuleID
  <1>10. RegistryTypes'
    BY <1>2, Facts DEF RegistryTypes, AssignModuleID, handlerVars
  <1>11. ModuleTypes'
    BY <1>5, ModuleFrame, Facts DEF AssignModuleID
  <1>12. Assigning'
    BY <1>8, RestTypes, TaskChange, Facts DEF AssignModuleID, RegistryTypes
  <1> QED
    BY <1>5, <1>9, <1>10, <1>11, <1>12, Facts
    DEF TypeInv, TypeOK, NetworkTypes, AssignModuleID

LEMMA HandleDeclareDuplicateTypes ==
    ASSUME TypeInv, NEW s \in Servers, HandleDeclareDuplicate(s)
    PROVE  TypeInv'
  <1> DEFINE c == sActive[s]
  <1>1. conn' \in Seq(Conn) /\ DOMAIN conn' = DOMAIN conn
    BY Facts, CloseSrvType DEF HandleDeclareDuplicate
  <1>2. ioTask' = [ioTask EXCEPT ![s] = Rest(ioTask[s])]
    BY DEF HandleDeclareDuplicate
  <1>3. ioTask' \in [Servers -> Task(SrvMsg)]
    BY <1>2, RestTypes, Facts DEF ServerTypes
  <1>4. sActive' \in [Servers -> {NoConn} \cup DOMAIN conn']
    BY <1>1, Facts DEF ServerTypes, HandleDeclareDuplicate, srvCommVars
  <1>5. ServerTypes'
    <2>1. CASE UNCHANGED sMap
      BY <1>1, <1>3, <1>4, <2>1, Facts DEF ServerTypes, HandleDeclareDuplicate, On
    <2>2. CASE \E k : sMap' = [sMap EXCEPT ![s] = Del(sMap[s], k)]
      <3>1. PICK k : sMap' = [sMap EXCEPT ![s] = Del(sMap[s], k)]
        BY <2>2
      <3>2. /\ DOMAIN Del(sMap[s], k) \subseteq Ids
            /\ \A i \in DOMAIN Del(sMap[s], k) : Del(sMap[s], k)[i] \in DOMAIN conn
        BY Facts, Mappings, ZenonT(40) DEF ServerTypes
      <3> QED
        BY <1>1, <1>3, <1>4, <3>1, <3>2, ServerChange, Facts DEF HandleDeclareDuplicate
    <2> QED
      BY <2>1, <2>2 DEF HandleDeclareDuplicate, srvCommVars
  <1>6. RegistryTypes' /\ UNCHANGED nextObjId
    BY RegistryFrame, Facts DEF HandleDeclareDuplicate, registryVars
  <1>7. ModuleTypes'
    BY <1>1, ModuleFrame, Facts DEF HandleDeclareDuplicate
  <1>8. Assigning'
    BY <1>2, <1>6, RestTypes, TaskChange, Facts
  <1> QED
    BY <1>1, <1>5, <1>6, <1>7, <1>8, Facts
    DEF TypeInv, TypeOK, NetworkTypes, HandleDeclareDuplicate
LEMMA HandleModuleShutdownTypes ==
    ASSUME TypeInv, NEW s \in Servers, HandleModuleShutdown(s)
    PROVE  TypeInv'
  <1>1. UNCHANGED <<conn, udp, ops>> /\ UNCHANGED nextObjId
        /\ ioTask' = [ioTask EXCEPT ![s] = Rest(ioTask[s])]
    BY DEF HandleModuleShutdown
  <1>2. RegistryTypes'
    <2>1. modules' \in [Servers -> SUBSET ModuleRec]
      BY Facts, EraseTypes DEF HandleModuleShutdown, RegistryTypes
    <2> QED
      BY <1>1, <2>1, Facts, WorkFacts DEF HandleModuleShutdown, RegistryTypes
  <1>3. ServerTypes'
    BY <1>1, RestTypes, Facts DEF ServerTypes, HandleModuleShutdown, srvCommVars, On
  <1>4. ModuleTypes'
    BY <1>1, ModuleFrame, Facts DEF HandleModuleShutdown
  <1>5. Assigning'
    BY <1>1, RestTypes, TaskChange, Facts
  <1> QED
    BY <1>1, <1>2, <1>3, <1>4, <1>5, Facts DEF TypeInv, TypeOK, NetworkTypes

(* A message applied to an object leaves an object. *)
LEMMA AppliedType ==
    ASSUME NEW r \in ModuleRec, NEW msg \in SrvMsg
    PROVE  Applied(r, msg) \in ModuleRec
  <1>1. msg.from \in Modules
    BY DEF SrvMsg
  <1>2. r.exposed \in Nat /\ r.exposed + 1 \in Nat
    BY DEF ModuleRec
  <1>3. r.heard \cup {msg.from} \in SUBSET Modules
    BY <1>1 DEF ModuleRec
  <1>4. (r.described \/ msg.type = "ATTR_METD_DESC") \in BOOLEAN
    OBVIOUS
  <1> QED
    BY <1>2, <1>3, <1>4 DEF Applied, ModuleRec

LEMMA SrvApplyTypes ==
    ASSUME TypeInv, NEW s \in Servers, NEW types, SrvApply(s, types)
    PROVE  TypeInv'
  <1> DEFINE msg == Head(ioTask[s].buf)
  <1>1. UNCHANGED <<conn, udp, ops>> /\ UNCHANGED nextObjId
        /\ ioTask' = [ioTask EXCEPT ![s] = Rest(ioTask[s])]
    BY DEF SrvApply
  <1>2. msg \in SrvMsg
    BY Facts, HeadType DEF SrvApply, SrvMsgIs
  <1>3. RegistryTypes'
    <2>1. CASE FindsNothing(s) /\ UNCHANGED <<modules, notices>>
      BY <1>1, <2>1, WorkFacts, Facts DEF SrvApply, RegistryTypes
    <2>2. CASE work[s].at = "found" /\ ~(FindsNothing(s) /\ UNCHANGED <<modules, notices>>)
      <3> DEFINE new == {IF r.id = work[s].id THEN Applied(r, msg) ELSE r : r \in modules[s]}
      <3>1. modules' = [modules EXCEPT ![s] = new]
        BY <2>2 DEF SrvApply
      <3>2. new \subseteq ModuleRec
        BY <1>2, AppliedType, Facts
      <3>3. modules' \in [Servers -> SUBSET ModuleRec]
        BY <3>1, <3>2, Facts DEF RegistryTypes
      <3>4. work[s].id \in Ids
        BY <2>2, WorkFacts, Facts
      <3>5. Callback(s, "onModuleCreated", work[s].id) \/ UNCHANGED notices
        BY <2>2 DEF SrvApply
      <3>6. notices' \in [Servers -> Seq(Notice)]
        BY <3>4, <3>5, CallbackTypes, Facts DEF RegistryTypes
      <3> QED
        BY <1>1, <3>3, <3>6, WorkFacts, Facts DEF RegistryTypes, SrvApply
    <2> QED
      BY <2>1, <2>2 DEF SrvApply
  <1>4. ServerTypes'
    BY <1>1, RestTypes, Facts DEF ServerTypes, SrvApply, srvCommVars, On
  <1>5. ModuleTypes'
    BY <1>1, ModuleFrame, Facts DEF SrvApply
  <1>6. Assigning'
    BY <1>1, RestTypes, TaskChange, Facts
  <1> QED
    BY <1>1, <1>3, <1>4, <1>5, <1>6, Facts DEF TypeInv, TypeOK, NetworkTypes

(* The number of external operations stays within its bound. *)
LEMMA OpType ==
    ASSUME NEW kind, Op(kind), ops \in 0..MaxOps
    PROVE  ops' \in 0..MaxOps
  BY ConstantsAssumption DEF Op

(* What SetToSeq lists are the elements of the set. *)
LEMMA SetToSeqType ==
    ASSUME NEW S, IsFiniteSet(S)
    PROVE  SetToSeq(S) \in Seq(S)
  <1>1. ExistsBijection(1..Cardinality(S), S) /\ Cardinality(S) \in Nat
    BY FS_CardinalityType
  <1>2. \E f \in [1..Cardinality(S) -> S] : IsInjective(f)
    BY <1>1 DEF ExistsBijection, Bijection, Injection
  <1>3. SetToSeq(S) \in [1..Cardinality(S) -> S]
    BY <1>2 DEF SetToSeq
  <1> QED
    BY <1>1, <1>3

(* New connections are appended one after the other. *)
LEMMA ConcatType ==
    ASSUME NEW cs \in Seq(Conn), NEW n \in Nat, NEW more \in [1..n -> Conn]
    PROVE  /\ cs \o more \in Seq(Conn) /\ DOMAIN cs \subseteq DOMAIN (cs \o more)
           /\ Len(cs \o more) = Len(cs) + n /\ DOMAIN (cs \o more) = 1..(Len(cs) + n)
           /\ Len(more) = n
  <1>1. more \in Seq(Conn) /\ Len(more) = n
    OBVIOUS
  <1> QED
    BY <1>1

LEMMA ConnectTypes ==
    ASSUME TypeInv, NEW s \in Servers, NEW m \in Modules, Connect(s, m)
    PROVE  TypeInv'
  <1>1. OpenConn(s, m, "srv", "net") \in Conn
    BY OpenConnType
  <1>2. conn' = Append(conn, OpenConn(s, m, "srv", "net"))
    BY DEF Connect
  <1>3. /\ conn' \in Seq(Conn) /\ DOMAIN conn \subseteq DOMAIN conn'
        /\ Len(conn) + 1 \in DOMAIN conn'
    BY <1>1, <1>2, AppendType, Facts
  <1>4. ServerTypes'
    BY <1>3, Facts DEF ServerTypes, Connect, On
  <1>5. RegistryTypes' /\ UNCHANGED nextObjId
    BY RegistryFrame, Facts DEF Connect, registryVars
  <1>6. ModuleTypes'
    BY <1>3, ModuleFrame, Facts DEF Connect
  <1>7. Assigning'
    BY <1>5, AssigningFrame, Facts DEF Connect
  <1>8. ops' \in 0..MaxOps
    BY OpType, Facts DEF Connect
  <1> QED
    BY <1>3, <1>4, <1>5, <1>6, <1>7, <1>8, Facts DEF TypeInv, TypeOK, NetworkTypes, Connect

LEMMA SendDiscoveryTypes ==
    ASSUME TypeInv, NEW s \in Servers, SendDiscovery(s)
    PROVE  TypeInv'
  <1>1. conn' \in Seq(Conn) /\ DOMAIN conn' = DOMAIN conn
    BY ServerMessages, SrvWriteType, Facts DEF SendDiscovery
  <1>2. ServerTypes'
    BY <1>1, Facts DEF ServerTypes, SendDiscovery, On
  <1>3. RegistryTypes' /\ UNCHANGED nextObjId
    BY RegistryFrame, Facts DEF SendDiscovery, registryVars
  <1>4. ModuleTypes'
    BY <1>1, ModuleFrame, Facts DEF SendDiscovery
  <1>5. Assigning'
    BY <1>3, AssigningFrame, Facts DEF SendDiscovery
  <1> QED
    BY <1>1, <1>2, <1>3, <1>4, <1>5, Facts
    DEF TypeInv, TypeOK, NetworkTypes, SendDiscovery

(* An object has an id and a name, and its channel was opened. *)
LEMMA ObjectFacts ==
    ASSUME TypeInv, NEW s \in Servers, NEW r \in modules[s]
    PROVE  /\ r.id \in Ids /\ r.name \in Names
           /\ ChannelOf(s, r.id) \in {NoConn} \cup DOMAIN conn
  <1>1. r \in ModuleRec
    BY Facts
  <1> QED
    BY <1>1, Facts DEF ModuleRec, ChannelOf, ServerTypes

LEMMA DisconnectTypes ==
    ASSUME TypeInv, NEW s \in Servers, NEW r \in modules[s], Disconnect(s, r)
    PROVE  TypeInv'
  <1>1. ServerShutdown(s, r.id) \in ModMsg
    BY ObjectFacts, ServerMessages
  <1>2. conn' \in Seq(Conn) /\ DOMAIN conn' = DOMAIN conn
    BY <1>1, ObjectFacts, SrvWriteType, Facts DEF Disconnect
  <1>3. RegistryTypes'
    <2>1. r.id \in Ids
      BY ObjectFacts
    <2>2. notices' \in [Servers -> Seq(Notice)]
      BY <2>1, CallbackTypes, Facts DEF Disconnect
    <2>3. Append(leaving[s], r.id) \in Seq(Ids)
      BY <2>1, Lists, Facts DEF RegistryTypes
    <2> QED
      BY <2>2, <2>3, Facts DEF Disconnect, RegistryTypes
  <1>4. ServerTypes'
    BY <1>2, ServerFrame, Facts DEF Disconnect
  <1>5. ModuleTypes'
    BY <1>2, ModuleFrame, Facts DEF Disconnect
  <1>6. Assigning'
    BY AssigningFrame, Facts DEF Disconnect
  <1>7. ops' \in 0..MaxOps
    BY OpType, Facts DEF Disconnect
  <1> QED
    BY <1>2, <1>3, <1>4, <1>5, <1>6, <1>7, Facts
    DEF TypeInv, TypeOK, NetworkTypes, Disconnect

LEMMA CallRemoteTypes ==
    ASSUME TypeInv, NEW s \in Servers, NEW r \in modules[s], CallRemote(s, r)
    PROVE  TypeInv'
  <1>1. Call(s, r.id, r.name) \in ModMsg
    BY ObjectFacts, ServerMessages
  <1>2. conn' \in Seq(Conn) /\ DOMAIN conn' = DOMAIN conn
    BY <1>1, ObjectFacts, SrvWriteType, Facts DEF CallRemote
  <1>3. RegistryTypes' /\ UNCHANGED nextObjId
    BY RegistryFrame, Facts DEF CallRemote, registryVars
  <1>4. ServerTypes'
    BY <1>2, ServerFrame, Facts DEF CallRemote
  <1>5. ModuleTypes'
    BY <1>2, ModuleFrame, Facts DEF CallRemote
  <1>6. Assigning'
    BY <1>3, AssigningFrame, Facts DEF CallRemote
  <1>7. ops' \in 0..MaxOps
    BY OpType, Facts DEF CallRemote
  <1> QED
    BY <1>2, <1>3, <1>4, <1>5, <1>6, <1>7, Facts
    DEF TypeInv, TypeOK, NetworkTypes, CallRemote
LEMMA DiscoverTypes ==
    ASSUME TypeInv, NEW s \in Servers, Discover(s)
    PROVE  TypeInv'
  <1> DEFINE live == {m \in Modules : "ipc" \in Transports /\ up[m]}
             todo == live \ {conn[c].mod : c \in Talkers(s)}
             new  == SetToSeq(todo)
             more == [k \in DOMAIN new |-> OpenConn(s, new[k], "srv", "ipc")]
             all  == conn \o more
             used == Talkers(s) \cup (Len(conn) + 1..Len(all))
  <1>1. new \in Seq(Modules)
    <2>1. IsFiniteSet(Modules) /\ todo \in SUBSET Modules
      BY ConstantsAssumption
    <2>2. IsFiniteSet(todo)
      BY <2>1, FS_Subset
    <2>3. new \in Seq(todo)
      BY <2>2, SetToSeqType
    <2> HIDE DEF new, todo
    <2> QED
      BY <2>1, <2>3
  <1>2. Len(new) \in Nat /\ DOMAIN new = 1..Len(new)
    <2> HIDE DEF new
    <2> QED
      BY <1>1
  <1>3. more \in [1..Len(new) -> Conn]
    <2>1. \A k \in DOMAIN new : new[k] \in Modules
      <3> HIDE DEF new
      <3> QED
        BY <1>1
    <2>2. \A k \in DOMAIN new : OpenConn(s, new[k], "srv", "ipc") \in Conn
      BY <2>1, OpenConnType
    <2> HIDE DEF new
    <2> QED
      BY <1>2, <2>2
  <1>4. /\ all \in Seq(Conn) /\ DOMAIN conn \subseteq DOMAIN all
        /\ DOMAIN all = 1..Len(all) /\ Len(all) \in Nat
    <2> HIDE DEF new, more
    <2> QED
      BY <1>2, <1>3, ConcatType, Facts
  <1>5. conn' = [c \in DOMAIN all |-> IF c \in used
               THEN [all[c] EXCEPT !.toMod = Append(all[c].toMod, Discovery(s))]
               ELSE all[c]]
    BY DEF Discover
  <1>6. /\ \/ UNCHANGED sActive
           \/ \E c \in used : sActive' = [sActive EXCEPT ![s] = c]
        /\ used \subseteq DOMAIN all
    <2>1. Talkers(s) \subseteq DOMAIN conn /\ Len(conn) \in Nat
      BY Facts DEF Talkers
    <2>2. used \subseteq DOMAIN all
      <3> HIDE DEF all
      <3> QED
        BY <1>4, <2>1
    <2> QED
      BY <2>2 DEF Discover
  <1> HIDE DEF all, used
  <1>7. conn' \in Seq(Conn) /\ DOMAIN conn' = DOMAIN all
    <2>1. \A c \in DOMAIN all : all[c] \in Conn
      BY <1>4
    <2>2. \A c \in DOMAIN all :
            [all[c] EXCEPT !.toMod = Append(all[c].toMod, Discovery(s))] \in Conn
      <3> SUFFICES ASSUME NEW c \in DOMAIN all
                   PROVE  [all[c] EXCEPT !.toMod = Append(all[c].toMod, Discovery(s))] \in Conn
        OBVIOUS
      <3>1. all[c] \in Conn /\ all[c].toMod \in Seq(ModMsg)
        BY <2>1, ConnFields
      <3>2. Append(all[c].toMod, Discovery(s)) \in Seq(ModMsg)
        BY <3>1, ServerMessages, Lists
      <3> QED
        BY <3>1, <3>2, ConnFields
    <2>3. /\ DOMAIN conn' = DOMAIN all /\ conn' = [c \in DOMAIN all |-> conn'[c]]
          /\ \A c \in DOMAIN all : conn'[c] \in Conn
      BY <1>5, <2>1, <2>2, Zenon
    <2> QED
      BY <1>4, <2>3, ChangeMany
  <1>8. DOMAIN conn \subseteq DOMAIN conn'
    BY <1>4, <1>7
  <1>9. ServerTypes'
    BY <1>6, <1>7, <1>8, Facts DEF ServerTypes, Discover, On
  <1>10. RegistryTypes' /\ UNCHANGED nextObjId
    BY RegistryFrame, Facts DEF Discover, registryVars
  <1>11. ModuleTypes'
    BY <1>8, ModuleFrame, Facts DEF Discover
  <1>12. Assigning'
    BY <1>10, AssigningFrame, Facts DEF Discover
  <1>13. ops' \in 0..MaxOps
    BY OpType, Facts DEF Discover
  <1>14. udp' \subseteq Datagram
    <2>1. udp \subseteq Datagram
      BY Facts
    <2>2. udp' = udp \/ \E M \in SUBSET Modules : udp' = udp \cup
            {[type |-> "MODULE_DISCOVERY", srv |-> s, mod |-> m] : m \in M}
      BY DEF Discover
    <2>3. \A m \in Modules :
            [type |-> "MODULE_DISCOVERY", srv |-> s, mod |-> m] \in Datagram
      BY DEF Datagram
    <2> QED
      BY <2>1, <2>2, <2>3
  <1> QED
    BY <1>7, <1>9, <1>10, <1>11, <1>12, <1>13, <1>14 DEF TypeInv, TypeOK, NetworkTypes
(* A step of a module leaves the servers as they are. *)
LEMMA ServersAlone ==
    ASSUME TypeInv, UNCHANGED <<sUp, registryVars, srvCommVars, ioTask, main>>,
           DOMAIN conn \subseteq DOMAIN conn'
    PROVE  RegistryTypes' /\ ServerTypes' /\ Assigning'
  <1>1. RegistryTypes' /\ UNCHANGED nextObjId
    BY RegistryFrame, Facts DEF registryVars
  <1>2. ServerTypes'
    BY ServerFrame, Facts
  <1>3. Assigning'
    BY <1>1, AssigningFrame, Facts
  <1> QED
    BY <1>1, <1>2, <1>3

(* A map of one server or module to channels, or to ids. *)
IdMap(f)      == /\ DOMAIN f \subseteq ServerIDs
                 /\ \A k \in DOMAIN f : f[k] \in {Unassigned} \cup Ids
ChannelMap(f) == /\ DOMAIN f \subseteq ServerIDs
                 /\ \A k \in DOMAIN f : f[k] \in DOMAIN conn

LEMMA MapFacts ==
    ASSUME TypeInv, NEW m \in Modules
    PROVE  /\ IdMap(serverMap[m]) /\ ChannelMap(mMap[m])
           /\ \A k : IdMap(Del(serverMap[m], k)) /\ ChannelMap(Del(mMap[m], k))
           /\ \A k \in ServerIDs, i \in {Unassigned} \cup Ids :
                 IdMap(Put(serverMap[m], k, i))
           /\ \A k \in ServerIDs, c \in DOMAIN conn : ChannelMap(Put(mMap[m], k, c))
  <1>1. IdMap(serverMap[m]) /\ ChannelMap(mMap[m])
    BY Facts DEF ModuleTypes, IdMap, ChannelMap
  <1> QED
    BY <1>1, Mappings DEF IdMap, ChannelMap

LEMMA ModuleChange ==
    ASSUME ModuleTypes, UNCHANGED up,
           DOMAIN conn \subseteq DOMAIN conn',
           executed' \in [Modules -> SUBSET Names],
           modTask' \in [Modules -> Task(ModMsg)],
           mActive' \in [Modules -> {NoConn} \cup DOMAIN conn'],
           NEW m \in Modules, NEW STATE ids, NEW STATE map,
           DOMAIN ids \subseteq ServerIDs,
           \A k \in DOMAIN ids : ids[k] \in {Unassigned} \cup Ids,
           DOMAIN map \subseteq ServerIDs, \A k \in DOMAIN map : map[k] \in DOMAIN conn',
           serverMap' = [serverMap EXCEPT ![m] = ids],
           mMap' = [mMap EXCEPT ![m] = map]
    PROVE  ModuleTypes'
  BY DEF ModuleTypes, On

(* The map of a module that a step does not touch. *)
LEMMA SameMaps ==
    ASSUME ModuleTypes, NEW m \in Modules
    PROVE  /\ serverMap = [serverMap EXCEPT ![m] = serverMap[m]]
           /\ mMap = [mMap EXCEPT ![m] = mMap[m]]
  BY DEF ModuleTypes, On

LEMMA ModAcceptTypes ==
    ASSUME TypeInv, NEW m \in Modules, NEW c \in DOMAIN conn, ModAccept(m, c)
    PROVE  TypeInv'
  <1>1. conn \in Seq(Conn) /\ conn[c] \in Conn
    BY Facts
  <1>2. [conn[c] EXCEPT !.mEnd = "open"] \in Conn
    BY <1>1, ConnFields DEF EndState
  <1>3. conn' = [conn EXCEPT ![c] = [conn[c] EXCEPT !.mEnd = "open"]]
    BY <1>1 DEF ModAccept
  <1>4. conn' \in Seq(Conn) /\ DOMAIN conn' = DOMAIN conn
    BY <1>1, <1>2, <1>3, ChangeOne
  <1>5. ModuleTypes'
    BY <1>4, Facts DEF ModuleTypes, ModAccept, On
  <1>6. RegistryTypes' /\ ServerTypes' /\ Assigning'
    BY <1>4, ServersAlone DEF ModAccept
  <1> QED
    BY <1>4, <1>5, <1>6, Facts DEF TypeInv, TypeOK, NetworkTypes, ModAccept

LEMMA ModReadTypes ==
    ASSUME TypeInv, NEW m \in Modules, NEW c \in DOMAIN conn,
           NEW n \in 1..Len(conn[c].toMod), ModRead(m, c, n)
    PROVE  TypeInv'
  <1>1. conn \in Seq(Conn) /\ conn[c] \in Conn /\ conn[c].toMod \in Seq(ModMsg)
    BY Facts, ConnFields
  <1> DEFINE rest == SubSeq(conn[c].toMod, n + 1, Len(conn[c].toMod))
             task == Reading(c, SubSeq(conn[c].toMod, 1, n))
  <1>2. rest \in Seq(ModMsg) /\ SubSeq(conn[c].toMod, 1, n) \in Seq(ModMsg)
    BY <1>1, PartOfList
  <1>3. [conn[c] EXCEPT !.toMod = rest] \in Conn
    BY <1>1, <1>2, ConnFields
  <1>4. conn' = [conn EXCEPT ![c] = [conn[c] EXCEPT !.toMod = rest]]
    BY <1>1 DEF ModRead
  <1>5. conn' \in Seq(Conn) /\ DOMAIN conn' = DOMAIN conn
    BY <1>1, <1>3, <1>4, ChangeOne
  <1>6. task \in Task(ModMsg)
    BY <1>2, Tasks, Facts
  <1>7. modTask' = [modTask EXCEPT ![m] = task]
    BY DEF ModRead
  <1> HIDE DEF task
  <1>8. ModuleTypes'
    BY <1>5, <1>6, <1>7, Facts DEF ModuleTypes, ModRead, On
  <1>9. RegistryTypes' /\ ServerTypes' /\ Assigning'
    BY <1>5, ServersAlone DEF ModRead
  <1> QED
    BY <1>5, <1>8, <1>9, Facts DEF TypeInv, TypeOK, NetworkTypes, ModRead

LEMMA ModEofTypes ==
    ASSUME TypeInv, NEW m \in Modules, NEW c \in DOMAIN conn, ModEof(m, c)
    PROVE  TypeInv'
  <1>1. conn' \in Seq(Conn) /\ DOMAIN conn' = DOMAIN conn
    BY Facts, CloseModType DEF ModEof
  <1>2. ModuleTypes'
    <2>1. CASE UNCHANGED <<serverMap, mMap>>
      BY <1>1, <2>1, Facts DEF ModuleTypes, ModEof, On
    <2>2. CASE \E k : /\ serverMap' = [serverMap EXCEPT ![m] = Del(serverMap[m], k)]
                      /\ mMap' = [mMap EXCEPT ![m] = Del(mMap[m], k)]
      <3>1. PICK k : /\ serverMap' = [serverMap EXCEPT ![m] = Del(serverMap[m], k)]
                     /\ mMap' = [mMap EXCEPT ![m] = Del(mMap[m], k)]
        BY <2>2
      <3>2. IdMap(Del(serverMap[m], k)) /\ ChannelMap(Del(mMap[m], k))
        BY MapFacts
      <3>3. /\ executed' \in [Modules -> SUBSET Names]
            /\ modTask' \in [Modules -> Task(ModMsg)]
            /\ mActive' \in [Modules -> {NoConn} \cup DOMAIN conn'] /\ UNCHANGED up
        BY <1>1, Facts DEF ModuleTypes, ModEof
      <3> QED
        BY <1>1, <3>1, <3>2, <3>3, ModuleChange, Facts DEF IdMap, ChannelMap
    <2> QED
      BY <2>1, <2>2 DEF ModEof
  <1>3. RegistryTypes' /\ ServerTypes' /\ Assigning'
    BY <1>1, ServersAlone DEF ModEof
  <1> QED
    BY <1>1, <1>2, <1>3, Facts DEF TypeInv, TypeOK, NetworkTypes, ModEof

LEMMA ModUdpDiscoveryTypes ==
    ASSUME TypeInv, NEW m \in Modules, NEW s \in Servers, ModUdpDiscovery(m, s)
    PROVE  TypeInv'
  <1> DEFINE k  == ServerID[s]
             c  == Len(conn) + 1
             cs == Append(conn, OpenConn(s, m, "mod", "net"))
  <1>1. udp' \subseteq Datagram
    BY Facts DEF ModUdpDiscovery
  <1>2. CASE ~sUp[s]
    <2>1. ModuleTypes' /\ RegistryTypes' /\ ServerTypes' /\ Assigning'
      BY <1>2, ModuleFrame, ServersAlone, Facts DEF ModUdpDiscovery, modCommVars
    <2> QED
      BY <1>1, <1>2, <2>1, Facts DEF TypeInv, TypeOK, NetworkTypes, ModUdpDiscovery
  <1>3. CASE sUp[s]
    <2>1. k \in ServerIDs
      BY ConstantsAssumption DEF ServerIDs
    <2>2. OpenConn(s, m, "mod", "net") \in Conn
      BY OpenConnType
    <2>3. cs \in Seq(Conn) /\ DOMAIN conn \subseteq DOMAIN cs /\ c \in DOMAIN cs
      BY <2>2, AppendType, Facts
    <2>4. mActive' = [mActive EXCEPT ![m] = NoConn]
      BY <1>3 DEF ModUdpDiscovery
    <2>5. CASE k \in DOMAIN serverMap[m]
      <3>1. conn' = CloseMod(cs, {c}) /\ UNCHANGED <<serverMap, mMap>>
        BY <1>3, <2>5 DEF ModUdpDiscovery
      <3>2. conn' \in Seq(Conn) /\ DOMAIN conn' = DOMAIN cs
        BY <2>3, <3>1, CloseModType
      <3>3. DOMAIN conn \subseteq DOMAIN conn'
        BY <2>3, <3>2
      <3> HIDE DEF cs
      <3>4. ModuleTypes'
        BY <2>4, <3>1, <3>3, Facts DEF ModuleTypes, ModUdpDiscovery, On
      <3>5. RegistryTypes' /\ ServerTypes' /\ Assigning'
        BY <3>3, ServersAlone DEF ModUdpDiscovery
      <3> QED
        BY <1>1, <3>2, <3>4, <3>5, Facts DEF TypeInv, TypeOK, NetworkTypes, ModUdpDiscovery
    <2>6. CASE k \notin DOMAIN serverMap[m]
      <3>1. /\ conn' = ModWrite(cs, c, Declare(m))
            /\ serverMap' = [serverMap EXCEPT ![m] = Put(serverMap[m], k, Unassigned)]
            /\ mMap' = [mMap EXCEPT ![m] = Put(mMap[m], k, c)]
        BY <1>3, <2>6 DEF ModUdpDiscovery
      <3>2. Declare(m) \in SrvMsg
        BY ModuleMessages
      <3> HIDE DEF cs, c, k
      <3>3. conn' \in Seq(Conn) /\ DOMAIN conn' = DOMAIN cs
        BY <2>3, <3>1, <3>2, ModWriteType
      <3>4. DOMAIN conn \subseteq DOMAIN conn' /\ c \in DOMAIN conn'
        BY <2>3, <3>3
      <3>5. IdMap(Put(serverMap[m], k, Unassigned))
        BY <2>1, MapFacts
      <3>6. /\ DOMAIN Put(mMap[m], k, c) \subseteq ServerIDs
            /\ \A x \in DOMAIN Put(mMap[m], k, c) : Put(mMap[m], k, c)[x] \in DOMAIN conn'
        <4>1. /\ DOMAIN mMap[m] \subseteq ServerIDs
              /\ \A x \in DOMAIN mMap[m] : mMap[m][x] \in DOMAIN conn'
          BY <3>4, MapFacts DEF ChannelMap
        <4> QED
          BY <2>1, <3>4, <4>1, Mappings
      <3>7. /\ executed' \in [Modules -> SUBSET Names]
            /\ modTask' \in [Modules -> Task(ModMsg)]
            /\ mActive' \in [Modules -> {NoConn} \cup DOMAIN conn'] /\ UNCHANGED up
        BY <2>4, <3>4, Facts DEF ModuleTypes, ModUdpDiscovery
      <3>8. ModuleTypes'
        BY <3>1, <3>4, <3>5, <3>6, <3>7, ModuleChange, Facts DEF IdMap
      <3>9. RegistryTypes' /\ ServerTypes' /\ Assigning'
        BY <3>4, ServersAlone DEF ModUdpDiscovery
      <3> QED
        BY <1>1, <3>3, <3>8, <3>9, Facts DEF TypeInv, TypeOK, NetworkTypes, ModUdpDiscovery
    <2> QED
      BY <2>5, <2>6
  <1> QED
    BY <1>2, <1>3
(* The message in a module's hands, and the task without it. *)
LEMMA ModMsgFacts ==
    ASSUME TypeInv, NEW m \in Modules, NEW type, ModMsgIs(m, type)
    PROVE  /\ Head(modTask[m].buf).sid \in ServerIDs
           /\ Head(modTask[m].buf).type = type
           /\ type \in {"MODULE_ASSIGN_ID", "CALL_ATTR_METD"} =>
                /\ Head(modTask[m].buf).id \in Ids
                /\ Head(modTask[m].buf).name \in Names
           /\ Rest(modTask[m]) \in Task(ModMsg)
           /\ [modTask EXCEPT ![m] = Rest(modTask[m])] \in [Modules -> Task(ModMsg)]
  <1>1. Head(modTask[m].buf) \in ModMsg /\ Head(modTask[m].buf).type = type
    BY Facts, HeadType DEF ModMsgIs
  <1>2. Rest(modTask[m]) \in Task(ModMsg)
    BY Facts, Tasks
  <1>3. [modTask EXCEPT ![m] = Rest(modTask[m])] \in [Modules -> Task(ModMsg)]
    BY <1>2, Facts DEF ModuleTypes
  <1> QED
    BY <1>1, <1>2, <1>3 DEF ModMsg

LEMMA HandleDiscoveryTypes ==
    ASSUME TypeInv, NEW m \in Modules, HandleDiscovery(m)
    PROVE  TypeInv'
  <1> DEFINE k == Head(modTask[m].buf).sid
  <1>1. k \in ServerIDs
    BY ModMsgFacts DEF HandleDiscovery
  <1>2. modTask' \in [Modules -> Task(ModMsg)]
    BY ModMsgFacts DEF HandleDiscovery
  <1>3. CASE k \in DOMAIN serverMap[m]
    <2>1. UNCHANGED <<serverMap, mMap, mActive, conn>>
      BY <1>3 DEF HandleDiscovery
    <2>2. ModuleTypes'
      BY <1>2, <2>1, Facts DEF ModuleTypes, HandleDiscovery, On
    <2>3. RegistryTypes' /\ ServerTypes' /\ Assigning'
      BY <2>1, ServersAlone DEF HandleDiscovery
    <2> QED
      BY <2>1, <2>2, <2>3, Facts DEF TypeInv, TypeOK, NetworkTypes, HandleDiscovery
  <1>4. CASE k \notin DOMAIN serverMap[m]
    <2> DEFINE map == IF mActive[m] = NoConn THEN mMap[m] ELSE Put(mMap[m], k, mActive[m])
    <2>1. /\ serverMap' = [serverMap EXCEPT ![m] = Put(serverMap[m], k, Unassigned)]
          /\ conn' = ModWrite(conn, mActive[m], Declare(m))
          /\ mActive' = [mActive EXCEPT ![m] = NoConn]
      BY <1>4 DEF HandleDiscovery
    <2>2. mMap' = [mMap EXCEPT ![m] = map]
      BY <1>4, SameMaps, Facts DEF HandleDiscovery
    <2>3. conn' \in Seq(Conn) /\ DOMAIN conn' = DOMAIN conn
      BY <2>1, ModuleMessages, ModWriteType, Facts
    <2>4. ChannelMap(map)
      BY <1>1, MapFacts, Facts
    <2>5. IdMap(Put(serverMap[m], k, Unassigned))
      BY <1>1, MapFacts
    <2> HIDE DEF map, k
    <2>6. /\ executed' \in [Modules -> SUBSET Names]
          /\ mActive' \in [Modules -> {NoConn} \cup DOMAIN conn'] /\ UNCHANGED up
      BY <2>1, <2>3, Facts DEF ModuleTypes, HandleDiscovery
    <2>7. ModuleTypes'
      BY <1>2, <2>1, <2>2, <2>3, <2>4, <2>5, <2>6, ModuleChange, Facts DEF IdMap, ChannelMap
    <2>8. RegistryTypes' /\ ServerTypes' /\ Assigning'
      BY <2>3, ServersAlone DEF HandleDiscovery
    <2> QED
      BY <2>3, <2>7, <2>8, Facts DEF TypeInv, TypeOK, NetworkTypes, HandleDiscovery
  <1> QED
    BY <1>3, <1>4

LEMMA HandleServerShutdownTypes ==
    ASSUME TypeInv, NEW m \in Modules, HandleServerShutdown(m)
    PROVE  TypeInv'
  <1> DEFINE k == Head(modTask[m].buf).sid
  <1>1. modTask' \in [Modules -> Task(ModMsg)] /\ UNCHANGED conn
    BY ModMsgFacts DEF HandleServerShutdown
  <1>2. serverMap' = [serverMap EXCEPT ![m] = Del(serverMap[m], k)]
    BY DEF HandleServerShutdown
  <1>3. IdMap(Del(serverMap[m], k)) /\ ChannelMap(mMap[m])
    BY MapFacts
  <1>4. mMap' = [mMap EXCEPT ![m] = mMap[m]]
    BY SameMaps, Facts DEF HandleServerShutdown
  <1>5. /\ executed' \in [Modules -> SUBSET Names]
        /\ mActive' \in [Modules -> {NoConn} \cup DOMAIN conn'] /\ UNCHANGED up
    BY <1>1, Facts DEF ModuleTypes, HandleServerShutdown
  <1> HIDE DEF k
  <1>6. ModuleTypes'
    BY <1>1, <1>2, <1>3, <1>4, <1>5, ModuleChange, Facts DEF IdMap, ChannelMap
  <1>7. RegistryTypes' /\ ServerTypes' /\ Assigning'
    BY <1>1, ServersAlone DEF HandleServerShutdown
  <1> QED
    BY <1>1, <1>6, <1>7, Facts DEF TypeInv, TypeOK, NetworkTypes, HandleServerShutdown

LEMMA HandleAssignIdTypes ==
    ASSUME TypeInv, NEW m \in Modules, HandleAssignId(m)
    PROVE  TypeInv'
  <1> DEFINE msg == Head(modTask[m].buf)
             k   == msg.sid
             map == IF mActive[m] = NoConn THEN mMap[m] ELSE Put(mMap[m], k, mActive[m])
             dst == IF k \in DOMAIN map THEN map[k] ELSE NoConn
             cs  == ModWrite(conn, mActive[m], FromModule("ATTR_METD_EXPOSE", m, msg.id))
  <1>1. k \in ServerIDs /\ msg.id \in Ids
    BY ModMsgFacts DEF HandleAssignId
  <1>2. modTask' \in [Modules -> Task(ModMsg)]
    BY ModMsgFacts DEF HandleAssignId
  <1>3. CASE msg.name # Name[m]
    <2>1. UNCHANGED <<serverMap, mMap, mActive, conn>>
      BY <1>3 DEF HandleAssignId
    <2>2. ModuleTypes'
      BY <1>2, <2>1, Facts DEF ModuleTypes, HandleAssignId, On
    <2>3. RegistryTypes' /\ ServerTypes' /\ Assigning'
      BY <2>1, ServersAlone DEF HandleAssignId
    <2> QED
      BY <2>1, <2>2, <2>3, Facts DEF TypeInv, TypeOK, NetworkTypes, HandleAssignId
  <1>4. CASE msg.name = Name[m]
    <2>1. /\ serverMap' = [serverMap EXCEPT ![m] = Put(serverMap[m], k, msg.id)]
          /\ mMap' = [mMap EXCEPT ![m] = map]
          /\ mActive' = [mActive EXCEPT ![m] = NoConn]
          /\ conn' = ModWrite(cs, dst, FromModule("ATTR_METD_DESC", m, msg.id))
      BY <1>4 DEF HandleAssignId
    <2>2. /\ FromModule("ATTR_METD_EXPOSE", m, msg.id) \in SrvMsg
          /\ FromModule("ATTR_METD_DESC", m, msg.id) \in SrvMsg
      BY <1>1, ByteType, ModuleMessages DEF Reports
    <2>3. cs \in Seq(Conn) /\ DOMAIN cs = DOMAIN conn
      BY <2>2, ModWriteType, Facts
    <2>4. ChannelMap(map)
      BY <1>1, MapFacts, Facts
    <2>5. dst \in {NoConn} \cup DOMAIN cs
      <3> HIDE DEF map, k, cs
      <3> QED
        BY <2>3, <2>4 DEF ChannelMap
    <2>6. conn' \in Seq(Conn) /\ DOMAIN conn' = DOMAIN conn
      <3> HIDE DEF dst, cs
      <3> QED
        BY <2>1, <2>2, <2>3, <2>5, ModWriteType
    <2>7. IdMap(Put(serverMap[m], k, msg.id))
      BY <1>1, MapFacts
    <2> HIDE DEF map, k
    <2>8. /\ executed' \in [Modules -> SUBSET Names]
          /\ mActive' \in [Modules -> {NoConn} \cup DOMAIN conn'] /\ UNCHANGED up
      BY <2>1, <2>6, Facts DEF ModuleTypes, HandleAssignId
    <2>9. ModuleTypes'
      BY <1>2, <2>1, <2>4, <2>6, <2>7, <2>8, ModuleChange, Facts DEF IdMap, ChannelMap
    <2>10. RegistryTypes' /\ ServerTypes' /\ Assigning'
      BY <2>6, ServersAlone DEF HandleAssignId
    <2> QED
      BY <2>6, <2>9, <2>10, Facts DEF TypeInv, TypeOK, NetworkTypes, HandleAssignId
  <1> QED
    BY <1>3, <1>4

LEMMA HandleCallTypes ==
    ASSUME TypeInv, NEW m \in Modules, HandleCall(m)
    PROVE  TypeInv'
  <1> DEFINE msg == Head(modTask[m].buf)
             k   == msg.sid
  <1>1. k \in ServerIDs /\ msg.id \in Ids /\ msg.name \in Names
    BY ModMsgFacts DEF HandleCall
  <1>2. modTask' \in [Modules -> Task(ModMsg)]
    BY ModMsgFacts DEF HandleCall
  <1>3. conn' \in Seq(Conn) /\ DOMAIN conn' = DOMAIN conn
    <2>1. FromModule("ATTR_METD_RESP", m, msg.id) \in SrvMsg
      BY <1>1, ByteType, ModuleMessages DEF Reports
    <2>2. ModChannel(m, k) \in {NoConn} \cup DOMAIN conn
      BY MapFacts DEF ModChannel, ChannelMap
    <2>3. \/ conn' = ModWrite(conn, ModChannel(m, k), FromModule("ATTR_METD_RESP", m, msg.id))
          \/ conn' = conn
      BY DEF HandleCall
    <2>4. conn \in Seq(Conn)
      BY Facts
    <2> HIDE DEF msg, k
    <2> QED
      BY <2>1, <2>2, <2>3, <2>4, ModWriteType
  <1>4. executed' \in [Modules -> SUBSET Names]
    BY <1>1, Facts DEF ModuleTypes, HandleCall
  <1>5. ModuleTypes'
    BY <1>2, <1>3, <1>4, Facts DEF ModuleTypes, HandleCall, On
  <1>6. RegistryTypes' /\ ServerTypes' /\ Assigning'
    BY <1>3, ServersAlone DEF HandleCall
  <1> QED
    BY <1>3, <1>5, <1>6, Facts DEF TypeInv, TypeOK, NetworkTypes, HandleCall

LEMMA UpdateAttributeTypes ==
    ASSUME TypeInv, NEW m \in Modules, UpdateAttribute(m)
    PROVE  TypeInv'
  <1>1. conn' \in Seq(Conn) /\ DOMAIN conn' = DOMAIN conn
    BY ModWriteAllType, Facts DEF UpdateAttribute, Reports
  <1>2. ModuleTypes'
    BY <1>1, ModuleFrame, Facts DEF UpdateAttribute
  <1>3. RegistryTypes' /\ ServerTypes' /\ Assigning'
    BY <1>1, ServersAlone DEF UpdateAttribute
  <1>4. ops' \in 0..MaxOps
    BY OpType, Facts DEF UpdateAttribute
  <1> QED
    BY <1>1, <1>2, <1>3, <1>4, Facts DEF TypeInv, TypeOK, NetworkTypes, UpdateAttribute
(* A module's memory starts and ends empty. *)
LEMMA ModMemoryTypes ==
    ASSUME TypeInv, NEW m \in Modules, NEW alive \in BOOLEAN, ModMemory(m, alive),
           DOMAIN conn \subseteq DOMAIN conn',
           mActive' \in [Modules -> {NoConn} \cup DOMAIN conn']
    PROVE  ModuleTypes'
  <1>1. up' \in [Modules -> BOOLEAN] /\ executed' \in [Modules -> SUBSET Names]
    BY Facts DEF ModMemory, ModuleTypes
  <1>2. modTask' \in [Modules -> Task(ModMsg)]
    BY Tasks, Facts DEF ModMemory, ModuleTypes
  <1>3. On(serverMap', Modules) /\ On(mMap', Modules)
    BY Facts DEF ModMemory, ModuleTypes, On
  <1>4. \A x \in Modules : /\ serverMap'[x] \in {serverMap[x], Empty}
                           /\ mMap'[x] \in {mMap[x], Empty}
    BY Facts DEF ModMemory, ModuleTypes, On
  <1>5. DOMAIN Empty = {}
    BY DEF Empty
  <1> QED
    BY <1>1, <1>2, <1>3, <1>4, <1>5, Facts DEF ModuleTypes

LEMMA ModStartTypes ==
    ASSUME TypeInv, NEW m \in Modules, ModStart(m)
    PROVE  TypeInv'
  <1> DEFINE todo == {s \in Servers : "ipc" \in Transports /\ sUp[s]}
             new  == SetToSeq(todo)
             more == [k \in DOMAIN new |->
                       [OpenConn(new[k], m, "mod", "ipc") EXCEPT !.toSrv = <<Declare(m)>>]]
  <1>1. new \in Seq(Servers)
    <2>1. IsFiniteSet(Servers) /\ todo \in SUBSET Servers
      BY ConstantsAssumption
    <2>2. IsFiniteSet(todo)
      BY <2>1, FS_Subset
    <2>3. new \in Seq(todo)
      BY <2>2, SetToSeqType
    <2> HIDE DEF new, todo
    <2> QED
      BY <2>1, <2>3
  <1>2. Len(new) \in Nat /\ DOMAIN new = 1..Len(new) /\ (new = <<>> <=> Len(new) = 0)
    <2> HIDE DEF new
    <2> QED
      BY <1>1
  <1>3. more \in [1..Len(new) -> Conn]
    <2>1. \A k \in DOMAIN new : new[k] \in Servers
      <3> HIDE DEF new
      <3> QED
        BY <1>1
    <2>2. \A k \in DOMAIN new : OpenConn(new[k], m, "mod", "ipc") \in Conn
      BY <2>1, OpenConnType
    <2>3. <<Declare(m)>> \in Seq(SrvMsg)
      BY ModuleMessages, Lists
    <2>4. \A k \in DOMAIN new :
            [OpenConn(new[k], m, "mod", "ipc") EXCEPT !.toSrv = <<Declare(m)>>] \in Conn
      BY <2>2, <2>3, ConnFields
    <2> HIDE DEF new
    <2> QED
      BY <1>2, <2>4
  <1>4. /\ conn \o more \in Seq(Conn) /\ DOMAIN conn \subseteq DOMAIN (conn \o more)
        /\ DOMAIN (conn \o more) = 1..(Len(conn) + Len(new)) /\ Len(conn) \in Nat
    <2> HIDE DEF new, more
    <2>1. conn \in Seq(Conn) /\ Len(conn) \in Nat
      BY Facts
    <2> QED
      BY <1>2, <1>3, <2>1, ConcatType
  <1>5. conn' = conn \o more
    BY DEF ModStart
  <1>6. mActive' \in [Modules -> {NoConn} \cup DOMAIN conn']
    <2>1. \/ mActive' = [mActive EXCEPT ![m] = NoConn]
          \/ \E k \in DOMAIN new : mActive' = [mActive EXCEPT ![m] = Len(conn) + k]
      BY DEF ModStart
    <2> HIDE DEF new, more
    <2>2. \A k \in DOMAIN new : Len(conn) + k \in DOMAIN conn'
      BY <1>2, <1>4, <1>5
    <2>3. DOMAIN conn \subseteq DOMAIN conn' /\ mActive \in [Modules -> {NoConn} \cup DOMAIN conn]
      BY <1>4, <1>5, Facts DEF ModuleTypes
    <2> QED
      BY <2>1, <2>2, <2>3
  <1>7. conn' \in Seq(Conn) /\ DOMAIN conn \subseteq DOMAIN conn'
    BY <1>4, <1>5
  <1>8. ModuleTypes'
    BY <1>6, <1>7, ModMemoryTypes DEF ModStart
  <1>9. RegistryTypes' /\ ServerTypes' /\ Assigning'
    BY <1>7, ServersAlone DEF ModStart
  <1>10. ops' \in 0..MaxOps
    BY OpType, Facts DEF ModStart
  <1>11. udp' \subseteq Datagram
    BY Facts DEF ModStart, Datagram
  <1> QED
    BY <1>7, <1>8, <1>9, <1>10, <1>11 DEF TypeInv, TypeOK, NetworkTypes

LEMMA ModCrashTypes ==
    ASSUME TypeInv, NEW m \in Modules, ModCrash(m)
    PROVE  TypeInv'
  <1>1. conn' \in Seq(Conn) /\ DOMAIN conn' = DOMAIN conn
    BY CloseModType, Facts DEF ModCrash
  <1>2. mActive' \in [Modules -> {NoConn} \cup DOMAIN conn']
    BY <1>1, Facts DEF ModCrash, ModuleTypes
  <1>3. ModuleTypes'
    BY <1>1, <1>2, ModMemoryTypes DEF ModCrash
  <1>4. RegistryTypes' /\ ServerTypes' /\ Assigning'
    BY <1>1, ServersAlone DEF ModCrash
  <1>5. ops' \in 0..MaxOps
    BY OpType, Facts DEF ModCrash
  <1> QED
    BY <1>1, <1>3, <1>4, <1>5, Facts DEF TypeInv, TypeOK, NetworkTypes, ModCrash

LEMMA ModShutdownTypes ==
    ASSUME TypeInv, NEW m \in Modules, ModShutdown(m)
    PROVE  TypeInv'
  <1>1. conn' \in Seq(Conn) /\ DOMAIN conn' = DOMAIN conn
    BY CloseModType, ModWriteAllType, Facts DEF ModShutdown, Reports
  <1>2. mActive' \in [Modules -> {NoConn} \cup DOMAIN conn']
    BY <1>1, Facts DEF ModShutdown, ModuleTypes
  <1>3. ModuleTypes'
    BY <1>1, <1>2, ModMemoryTypes DEF ModShutdown
  <1>4. RegistryTypes' /\ ServerTypes' /\ Assigning'
    BY <1>1, ServersAlone DEF ModShutdown
  <1>5. ops' \in 0..MaxOps
    BY OpType, Facts DEF ModShutdown
  <1> QED
    BY <1>1, <1>3, <1>4, <1>5, Facts DEF TypeInv, TypeOK, NetworkTypes, ModShutdown

(* A server's memory starts and ends empty. *)
LEMMA SrvMemoryTypes ==
    ASSUME TypeInv, NEW s \in Servers, NEW alive \in BOOLEAN, SrvMemory(s, alive),
           DOMAIN conn \subseteq DOMAIN conn'
    PROVE  RegistryTypes' /\ ServerTypes' /\ Assigning'
  <1>1. FirstId \in FirstId..MaxModuleId + 1
    BY ConstantsAssumption
  <1>2. RegistryTypes'
    BY <1>1, Lists, WorkFacts, Facts DEF RegistryTypes, SrvMemory
  <1>3. ioTask' \in [Servers -> Task(SrvMsg)] /\ sActive' \in [Servers -> {NoConn} \cup DOMAIN conn']
    BY Tasks, Facts DEF ServerTypes, SrvMemory
  <1>4. sUp' \in [Servers -> BOOLEAN] /\ main' \in [Servers -> {"idle", "connecting"}]
    BY Facts DEF ServerTypes, SrvMemory
  <1>5. /\ On(sMap', Servers) /\ \A x \in Servers : sMap'[x] \in {sMap[x], Empty}
    BY Facts DEF ServerTypes, SrvMemory, On
  <1>6. DOMAIN Empty = {}
    BY DEF Empty
  <1>7. ServerTypes'
    BY <1>3, <1>4, <1>5, <1>6, Facts DEF ServerTypes
  <1>8. Assigning'
    BY NotAssigning, TaskChange, Facts DEF SrvMemory, RegistryTypes
  <1> QED
    BY <1>2, <1>7, <1>8

LEMMA SrvStopTypes ==
    ASSUME TypeInv, NEW s \in Servers, SrvStop(s)
    PROVE  TypeInv'
  <1>1. conn' \in Seq(Conn) /\ DOMAIN conn' = DOMAIN conn
    BY CloseSrvType, Facts DEF SrvStop
  <1>2. RegistryTypes' /\ ServerTypes' /\ Assigning'
    BY <1>1, SrvMemoryTypes DEF SrvStop
  <1>3. ModuleTypes'
    BY <1>1, ModuleFrame, Facts DEF SrvStop
  <1>4. ops' \in 0..MaxOps
    BY OpType, Facts DEF SrvStop
  <1> QED
    BY <1>1, <1>2, <1>3, <1>4, Facts DEF TypeInv, TypeOK, NetworkTypes, SrvStop

LEMMA SrvStartTypes ==
    ASSUME TypeInv, NEW s \in Servers, SrvStart(s)
    PROVE  TypeInv'
  <1>1. RegistryTypes' /\ ServerTypes' /\ Assigning'
    BY SrvMemoryTypes DEF SrvStart
  <1>2. ModuleTypes'
    BY ModuleFrame, Facts DEF SrvStart
  <1>3. ops' \in 0..MaxOps
    BY OpType, Facts DEF SrvStart
  <1> QED
    BY <1>1, <1>2, <1>3, Facts DEF TypeInv, TypeOK, NetworkTypes, SrvStart

LEMMA NextTypes == TypeInv /\ [Next]_vars => TypeInv'
  <1> SUFFICES ASSUME TypeInv, [Next]_vars PROVE TypeInv'
    OBVIOUS
  <1>1. ASSUME NEW s \in Servers, SrvIO(s)
        PROVE  TypeInv'
    BY <1>1, SrvAcceptTypes, SrvEofTypes, SrvReadTypes, SrvUdpDeclareTypes,
       HandleDeclareNewTypes, AssignModuleIDTypes, HandleDeclareDuplicateTypes,
       HandleModuleShutdownTypes, SrvApplyTypes, ObjectWorkTypes
    DEF SrvIO, HandleExpose, HandleDesc, HandleValue
  <1>2. ASSUME NEW s \in Servers, SrvPython(s)
        PROVE  TypeInv'
    BY <1>2, DiscoverTypes, SendDiscoveryTypes, ConnectTypes, DisconnectTypes,
       CallRemoteTypes, ObjectWorkTypes DEF SrvPython
  <1>3. ASSUME NEW m \in Modules, ModLoop(m)
        PROVE  TypeInv'
    BY <1>3, ModAcceptTypes, ModEofTypes, ModReadTypes, ModUdpDiscoveryTypes,
       HandleDiscoveryTypes, HandleServerShutdownTypes, HandleAssignIdTypes,
       HandleCallTypes DEF ModLoop
  <1>4. ASSUME NEW m \in Modules, ModProgram(m)
        PROVE  TypeInv'
    BY <1>4, UpdateAttributeTypes, ModStartTypes, ModCrashTypes, ModShutdownTypes
    DEF ModProgram
  <1>5. CASE UNCHANGED vars
    <2>1. RegistryTypes'
      BY <1>5, RegistryFrame, Facts DEF vars, registryVars, handlerVars
    <2>2. ServerTypes'
      BY <1>5, ServerFrame, Facts DEF vars, srvCommVars
    <2>3. ModuleTypes'
      BY <1>5, ModuleFrame, Facts DEF vars, modCommVars
    <2>4. Assigning'
      BY <1>5, AssigningFrame, Facts DEF vars
    <2> QED
      BY <1>5, <2>1, <2>2, <2>3, <2>4, Facts DEF vars, TypeInv, TypeOK, NetworkTypes
  <1> QED
    BY <1>1, <1>2, <1>3, <1>4, <1>5, SrvStopTypes, SrvStartTypes DEF Next

\* The variables keep their types, whatever the number of servers and modules:
\* ids stay within the byte they are sent in, every descriptor in a channel map
\* or in activeCommChannel_ is one that was opened, and a module stores no id
\* but -1 and the ones addNewModule hands out.
THEOREM SessionTypeCorrect == Spec => []TypeOK
  <1>1. Spec => []TypeInv
    BY InitTypes, NextTypes, PTL DEF Spec
  <1>2. TypeInv => TypeOK
    BY DEF TypeInv
  <1> QED
    BY <1>1, <1>2, PTL
-----------------------------------------------------------------------------
(* The objects of a server: ten kinds of step *)

(* The highest id given out so far; the object whose id is still being       *)
(* assigned is in modules_ already.                                          *)
Top(s) == IF ioTask[s].assigning THEN nextObjId[s] ELSE nextObjId[s] - 1

Created(i)   == [what |-> "onModuleCreated", id |-> i]
Destroyed(i) == [what |-> "onModuleDestroyed", id |-> i]

SameObjects(s) == modules'[s] = modules[s] /\ Top(s)' = Top(s)
SameHands(s)   == work'[s] = work[s] /\ leaving'[s] = leaving[s]

Keep(s)   == SameObjects(s) /\ SameHands(s) /\ UNCHANGED <<notices[s], crossed[s]>>
(* An object is made. *)
Add(s)    == \E o \in ModuleRec :
                /\ o.id = Top(s) + 1 /\ \A r \in modules[s] : r.name # o.name
                /\ modules'[s] = modules[s] \cup {o} /\ Top(s)' = Top(s) + 1
                /\ SameHands(s) /\ UNCHANGED notices[s]
                /\ crossed'[s] = (crossed[s] \/ leaving[s] # <<>>)
(* The IO thread finds an object... *)
Look(s)   == \E r \in modules[s], c \in Nat :
                /\ work[s] = NoWork /\ work'[s] = Found(r.id, c)
                /\ SameObjects(s) /\ UNCHANGED <<notices[s], leaving[s]>>
                /\ crossed'[s] = (crossed[s] \/ leaving[s] # <<>>)
(* ... tells the script that it ends, erases it, and is done with it... *)
Tell(s)   == /\ work[s].at = "found" /\ work'[s] = [work[s] EXCEPT !.at = "notified"]
             /\ notices'[s] = Append(notices[s], Destroyed(work[s].id))
             /\ SameObjects(s) /\ UNCHANGED <<leaving[s], crossed[s]>>
Erase(s)  == /\ work[s].at = "notified"
             /\ \/ work'[s] = NoWork
                \/ work'[s] = [work[s] EXCEPT !.at = "erased"]
             /\ modules'[s] \in Erased(s, work[s].id) /\ Top(s)' = Top(s)
             /\ UNCHANGED <<notices[s], leaving[s], crossed[s]>>
Done(s)   == /\ work[s].at = "erased" /\ work'[s] = NoWork
             /\ SameObjects(s) /\ UNCHANGED <<notices[s], leaving[s], crossed[s]>>
(* ... or applies a message to it. *)
Touch(s)  == \E f \in [modules[s] -> ModuleRec] :
                /\ work[s].at = "found" /\ work'[s] = NoWork
                /\ \A r \in modules[s] : f[r].id = r.id /\ f[r].name = r.name
                /\ modules'[s] = {f[r] : r \in modules[s]} /\ Top(s)' = Top(s)
                /\ notices'[s] \in {notices[s], Append(notices[s], Created(work[s].id))}
                /\ UNCHANGED <<leaving[s], crossed[s]>>
(* A disconnect tells the script, and erases. *)
Leave(s)  == \E r \in modules[s] :
                /\ notices'[s] = Append(notices[s], Destroyed(r.id))
                /\ leaving'[s] = Append(leaving[s], r.id)
                /\ crossed'[s] = (crossed[s] \/ leaving[s] # <<>>
                                             \/ work[s].at \in {"found", "notified"})
                /\ SameObjects(s) /\ UNCHANGED work[s]
Gone(s)   == /\ leaving[s] # <<>> /\ leaving'[s] = Tail(leaving[s])
             /\ modules'[s] \in Erased(s, Head(leaving[s])) /\ Top(s)' = Top(s)
             /\ UNCHANGED <<work[s], notices[s], crossed[s]>>
Reset(s)  == /\ modules'[s] = {} /\ notices'[s] = <<>> /\ Top(s)' = FirstId - 1
             /\ work'[s] = NoWork /\ leaving'[s] = <<>> /\ crossed'[s] = FALSE

ObjectStep(s) == \/ Keep(s) \/ Add(s) \/ Look(s) \/ Tell(s) \/ Erase(s) \/ Done(s)
                 \/ Touch(s) \/ Leave(s) \/ Gone(s) \/ Reset(s)

(* A step that leaves the registry, and what is being assigned, as they are. *)
LEMMA KeepAll ==
    ASSUME TypeInv, UNCHANGED <<registryVars, ioTask>>
    PROVE  \A s \in Servers : ObjectStep(s)
  BY DEF registryVars, handlerVars, Keep, SameObjects, SameHands, Top, ObjectStep

(* What a step of the server s leaves to the other servers. *)
Only(s) == \A x \in Servers : x # s =>
              /\ ioTask'[x] = ioTask[x] /\ modules'[x] = modules[x]
              /\ notices'[x] = notices[x] /\ nextObjId'[x] = nextObjId[x]
              /\ work'[x] = work[x] /\ leaving'[x] = leaving[x]
              /\ crossed'[x] = crossed[x]

LEMMA KeepOthers ==
    ASSUME NEW s \in Servers, Only(s), ObjectStep(s)
    PROVE  \A x \in Servers : ObjectStep(x)
  <1>1. ASSUME NEW x \in Servers, x # s
        PROVE  Keep(x)
    BY <1>1 DEF Only, Keep, SameObjects, SameHands, Top
  <1> QED
    BY <1>1 DEF ObjectStep

(* The arrays of the servers, by their types. *)
LEMMA ServerArrays ==
    ASSUME TypeInv
    PROVE  /\ DOMAIN ioTask = Servers /\ DOMAIN modules = Servers
           /\ DOMAIN notices = Servers /\ DOMAIN nextObjId = Servers
           /\ DOMAIN work = Servers /\ DOMAIN leaving = Servers
           /\ DOMAIN crossed = Servers
  BY Facts DEF RegistryTypes, ServerTypes

(* What stays the same, written as if it were assigned. *)
LEMMA SameAs ==
    ASSUME TypeInv, NEW s \in Servers
    PROVE  /\ ioTask = [ioTask EXCEPT ![s] = ioTask[s]]
           /\ modules = [modules EXCEPT ![s] = modules[s]]
           /\ notices = [notices EXCEPT ![s] = notices[s]]
           /\ nextObjId = [nextObjId EXCEPT ![s] = nextObjId[s]]
           /\ nextObjId[s] \in Int
  <1>1. nextObjId[s] \in FirstId..MaxModuleId + 1
    BY Facts DEF RegistryTypes
  <1>2. nextObjId[s] \in Int
    BY <1>1, ConstantsAssumption
  <1> QED
    BY <1>2, Facts DEF RegistryTypes, ServerTypes

LEMMA IdleAndRest ==
    ASSUME TypeInv, NEW s \in Servers
    PROVE  /\ ioTask[s] = Idle => ioTask[s].assigning = FALSE
           /\ \A types : SrvMsgIs(s, types) => ioTask[s].assigning = FALSE
           /\ Rest(ioTask[s]).assigning = FALSE
  BY Facts, RestTypes, NotAssigning DEF SrvMsgIs, Task

(* The IO thread takes a message, or puts one down, without touching objects. *)
LEMMA TaskOnly ==
    ASSUME TypeInv, NEW s \in Servers, NEW STATE task, UNCHANGED registryVars,
           ioTask[s].assigning = FALSE, task.assigning = FALSE,
           ioTask' = [ioTask EXCEPT ![s] = task]
    PROVE  \A x \in Servers : ObjectStep(x)
  <1>1. Only(s) /\ ioTask'[s] = task
    BY ServerArrays DEF Only, registryVars, handlerVars
  <1>2. Keep(s)
    BY <1>1 DEF Keep, SameObjects, SameHands, Top, registryVars, handlerVars
  <1> QED
    BY <1>1, <1>2, KeepOthers DEF ObjectStep

LEMMA SrvReadObjects ==
    ASSUME TypeInv, NEW s \in Servers, NEW c, NEW n, SrvRead(s, c, n)
    PROVE  \A x \in Servers : ObjectStep(x)
  <1> DEFINE task == Reading(c, SubSeq(conn[c].toSrv, 1, n))
  <1>1. ioTask' = [ioTask EXCEPT ![s] = task] /\ UNCHANGED registryVars
    BY DEF SrvRead
  <1>2. ioTask[s].assigning = FALSE /\ task.assigning = FALSE
    BY IdleAndRest, NotAssigning DEF SrvRead
  <1> QED
    BY <1>1, <1>2, TaskOnly

LEMMA SrvUdpDeclareObjects ==
    ASSUME TypeInv, NEW s \in Servers, NEW m, SrvUdpDeclare(s, m)
    PROVE  \A x \in Servers : ObjectStep(x)
  <1> DEFINE task == [Reading(Len(conn) + 1, <<Declare(m)>>) EXCEPT !.udp = TRUE]
  <1>1. UNCHANGED registryVars
    BY DEF SrvUdpDeclare
  <1>2. ioTask[s].assigning = FALSE /\ task.assigning = FALSE
    BY IdleAndRest DEF SrvUdpDeclare, Reading
  <1>3. CASE up[m]
    BY <1>1, <1>2, <1>3, TaskOnly DEF SrvUdpDeclare
  <1>4. CASE ~up[m]
    BY <1>1, <1>4, KeepAll DEF SrvUdpDeclare
  <1> QED
    BY <1>3, <1>4

(* The IO thread finds the object r, for a message or for the end of a stream. *)
LEMMA LookObjects ==
    ASSUME TypeInv, NEW s \in Servers, NEW r \in modules[s], NEW c \in Nat,
           work[s] = NoWork, work' = [work EXCEPT ![s] = Found(r.id, c)],
           crossed' = [crossed EXCEPT ![s] = crossed[s] \/ leaving[s] # <<>>],
           UNCHANGED <<ioTask, modules, nextObjId, notices, leaving>>
    PROVE  \A x \in Servers : ObjectStep(x)
  <1>1. /\ Only(s) /\ work'[s] = Found(r.id, c)
        /\ crossed'[s] = (crossed[s] \/ leaving[s] # <<>>)
    BY ServerArrays DEF Only
  <1>2. Look(s)
    BY <1>1 DEF Look, SameObjects, Top
  <1> QED
    BY <1>1, <1>2, KeepOthers DEF ObjectStep

LEMMA FindAtEofObjects ==
    ASSUME TypeInv, NEW s \in Servers, NEW c \in DOMAIN conn, FindAtEof(s, c)
    PROVE  \A x \in Servers : ObjectStep(x)
  <1>1. PICK r \in modules[s] : work' = [work EXCEPT ![s] = Found(r.id, c)]
    BY DEF FindAtEof, LostWith, Named
  <1>2. c \in Nat
    BY Facts
  <1> QED
    BY <1>1, <1>2, LookObjects DEF FindAtEof

LEMMA FindObjects ==
    ASSUME TypeInv, NEW s \in Servers, Find(s)
    PROVE  \A x \in Servers : ObjectStep(x)
  <1>1. PICK r \in modules[s] : work' = [work EXCEPT ![s] = Found(r.id, NoConn)]
    BY DEF Find, Named
  <1>2. NoConn \in Nat
    BY DEF NoConn
  <1> QED
    BY <1>1, <1>2, LookObjects DEF Find

LEMMA NotifyDestroyedObjects ==
    ASSUME TypeInv, NEW s \in Servers, NotifyDestroyed(s)
    PROVE  \A x \in Servers : ObjectStep(x)
  <1>1. UNCHANGED <<ioTask, modules, nextObjId, leaving, crossed>>
    BY DEF NotifyDestroyed
  <1>2. /\ notices' = [notices EXCEPT ![s] = Append(notices[s], Destroyed(work[s].id))]
        /\ work' = [work EXCEPT ![s] = [work[s] EXCEPT !.at = "notified"]]
        /\ work[s].at = "found"
    BY DEF NotifyDestroyed, Callback, Destroyed
  <1>3. Only(s) /\ Tell(s)
    BY <1>1, <1>2, ServerArrays DEF Only, Tell, SameObjects, Top
  <1> QED
    BY <1>3, KeepOthers DEF ObjectStep

LEMMA EraseAtEofObjects ==
    ASSUME TypeInv, NEW s \in Servers, EraseAtEof(s)
    PROVE  \A x \in Servers : ObjectStep(x)
  <1>1. UNCHANGED <<ioTask, nextObjId, notices, leaving, crossed>>
    BY DEF EraseAtEof
  <1>2. PICK R \in Erased(s, work[s].id) : modules' = [modules EXCEPT ![s] = R]
    BY DEF EraseAtEof
  <1>3. /\ work' = [work EXCEPT ![s] = [work[s] EXCEPT !.at = "erased"]]
        /\ work[s].at = "notified"
    BY DEF EraseAtEof
  <1>4. Only(s) /\ Erase(s)
    BY <1>1, <1>2, <1>3, ServerArrays DEF Only, Erase, Top
  <1> QED
    BY <1>4, KeepOthers DEF ObjectStep

LEMMA SrvEofObjects ==
    ASSUME TypeInv, NEW s \in Servers, NEW c, SrvEof(s, c)
    PROVE  \A x \in Servers : ObjectStep(x)
  <1>1. /\ UNCHANGED <<ioTask, modules, nextObjId, notices, leaving, crossed>>
        /\ work' = [work EXCEPT ![s] = NoWork]
        /\ work[s] = NoWork \/ work[s].at = "erased"
    BY DEF SrvEof
  <1>2. Only(s) /\ (Keep(s) \/ Done(s))
    BY <1>1, ServerArrays DEF Only, Keep, Done, SameObjects, SameHands, Top
  <1> QED
    BY <1>2, KeepOthers DEF ObjectStep

LEMMA HandleModuleShutdownObjects ==
    ASSUME TypeInv, NEW s \in Servers, HandleModuleShutdown(s)
    PROVE  \A x \in Servers : ObjectStep(x)
  <1>1. /\ ioTask' = [ioTask EXCEPT ![s] = Rest(ioTask[s])]
        /\ work' = [work EXCEPT ![s] = NoWork]
        /\ UNCHANGED <<nextObjId, notices, leaving, crossed>>
        /\ ioTask[s].assigning = FALSE /\ Rest(ioTask[s]).assigning = FALSE
    BY IdleAndRest DEF HandleModuleShutdown
  <1>2. CASE FindsNothing(s) /\ UNCHANGED modules
    <2>1. Only(s) /\ ioTask'[s] = Rest(ioTask[s]) /\ work'[s] = NoWork
      BY <1>1, <1>2, ServerArrays DEF Only
    <2>2. Keep(s)
      BY <1>1, <1>2, <2>1 DEF FindsNothing, Keep, SameObjects, SameHands, Top
    <2> QED
      BY <2>1, <2>2, KeepOthers DEF ObjectStep
  <1>3. CASE work[s].at = "notified"
               /\ \E R \in Erased(s, work[s].id) : modules' = [modules EXCEPT ![s] = R]
    <2>1. PICK R \in Erased(s, work[s].id) : modules' = [modules EXCEPT ![s] = R]
      BY <1>3
    <2>2. /\ Only(s) /\ ioTask'[s] = Rest(ioTask[s]) /\ work'[s] = NoWork
          /\ modules'[s] = R
      BY <1>1, <2>1, ServerArrays DEF Only
    <2>3. Erase(s)
      BY <1>1, <1>3, <2>1, <2>2 DEF Erase, Top
    <2> QED
      BY <2>2, <2>3, KeepOthers DEF ObjectStep
  <1> QED
    BY <1>2, <1>3 DEF HandleModuleShutdown

LEMMA DisconnectObjects ==
    ASSUME TypeInv, NEW s \in Servers, NEW r \in modules[s], Disconnect(s, r)
    PROVE  \A x \in Servers : ObjectStep(x)
  <1>1. /\ UNCHANGED <<ioTask, modules, nextObjId, work>>
        /\ notices' = [notices EXCEPT ![s] = Append(notices[s], Destroyed(r.id))]
        /\ leaving' = [leaving EXCEPT ![s] = Append(leaving[s], r.id)]
        /\ crossed' = [crossed EXCEPT ![s] = crossed[s] \/ leaving[s] # <<>>
                                     \/ work[s].at \in {"found", "notified"}]
    BY DEF Disconnect, Callback, Destroyed
  <1>2. Only(s) /\ Leave(s)
    BY <1>1, ServerArrays DEF Only, Leave, SameObjects, Top
  <1> QED
    BY <1>2, KeepOthers DEF ObjectStep

LEMMA EndDisconnectObjects ==
    ASSUME TypeInv, NEW s \in Servers, EndDisconnect(s)
    PROVE  \A x \in Servers : ObjectStep(x)
  <1>1. PICK R \in Erased(s, Head(leaving[s])) : modules' = [modules EXCEPT ![s] = R]
    BY DEF EndDisconnect
  <1>2. /\ UNCHANGED <<ioTask, nextObjId, notices, work, crossed>>
        /\ leaving[s] # <<>> /\ leaving' = [leaving EXCEPT ![s] = Tail(leaving[s])]
    BY DEF EndDisconnect
  <1>3. Only(s) /\ Gone(s)
    BY <1>1, <1>2, ServerArrays DEF Only, Gone, Top
  <1> QED
    BY <1>3, KeepOthers DEF ObjectStep

LEMMA HandleDeclareNewObjects ==
    ASSUME TypeInv, NEW s \in Servers, HandleDeclareNew(s)
    PROVE  \A x \in Servers : ObjectStep(x)
  <1> DEFINE m == Head(ioTask[s].buf).from
             i == nextObjId[s]
             object == [id |-> i, name |-> Name[m], proc |-> m, exposed |-> 0,
                        described |-> FALSE, heard |-> {}]
             task == [ioTask[s] EXCEPT !.assigning = TRUE]
  <1>1. /\ UNCHANGED <<nextObjId, notices, work, leaving>>
        /\ ioTask[s].assigning = FALSE /\ Rest(ioTask[s]).assigning = FALSE
    BY IdleAndRest DEF HandleDeclareNew
  <1>2. CASE i > MaxModuleId
    BY <1>1, <1>2, TaskOnly DEF HandleDeclareNew, registryVars, handlerVars
  <1>3. CASE ~(i > MaxModuleId)
    <2>1. /\ modules' = [modules EXCEPT ![s] = modules[s] \cup {object}]
          /\ ioTask' = [ioTask EXCEPT ![s] = task]
          /\ crossed' = [crossed EXCEPT ![s] = crossed[s] \/ leaving[s] # <<>>]
          /\ \A r \in modules[s] : r.name # object.name
      BY <1>1, <1>3 DEF HandleDeclareNew
    <2>2. task.assigning = TRUE
      BY Facts DEF Task
    <2>3. object \in ModuleRec
      <3>1. m \in Modules /\ Name[m] \in Names
        BY DeclareType DEF HandleDeclareNew, SrvMsgIs
      <3>2. i \in FirstId..MaxModuleId + 1
        BY Facts DEF RegistryTypes
      <3>3. i \in Ids
        BY <1>3, <3>2, ConstantsAssumption DEF Ids
      <3> QED
        BY <3>1, <3>3 DEF ModuleRec
    <2>4. object.id = i
      OBVIOUS
    <2> HIDE DEF object, task
    <2>5. /\ Only(s) /\ modules'[s] = modules[s] \cup {object}
          /\ ioTask'[s] = task /\ crossed'[s] = (crossed[s] \/ leaving[s] # <<>>)
      BY <1>1, <2>1, ServerArrays DEF Only
    <2>6. Top(s) + 1 = i /\ Top(s)' = i
      BY <1>1, <2>2, <2>5, SameAs DEF Top
    <2>7. Add(s)
      BY <1>1, <2>1, <2>3, <2>4, <2>5, <2>6 DEF Add, SameHands
    <2> QED
      BY <2>5, <2>7, KeepOthers DEF ObjectStep
  <1> QED
    BY <1>2, <1>3

LEMMA AssignModuleIDObjects ==
    ASSUME TypeInv, NEW s \in Servers, AssignModuleID(s)
    PROVE  \A x \in Servers : ObjectStep(x)
  <1> DEFINE i == nextObjId[s]
             task == Rest(ioTask[s])
  <1>1. /\ nextObjId' = [nextObjId EXCEPT ![s] = i + 1]
        /\ ioTask' = [ioTask EXCEPT ![s] = task]
        /\ UNCHANGED <<modules, notices, work, leaving, crossed>>
    BY DEF AssignModuleID, handlerVars
  <1>2. task.assigning = FALSE
    BY IdleAndRest
  <1> HIDE DEF task
  <1>3. Only(s) /\ ioTask'[s] = task /\ nextObjId'[s] = i + 1
    BY <1>1, ServerArrays DEF Only
  <1>4. ioTask[s].assigning = TRUE
    BY Facts DEF AssignModuleID, Task
  <1>5. Top(s)' = Top(s)
    BY <1>2, <1>3, <1>4, SameAs DEF Top
  <1>6. Keep(s)
    BY <1>1, <1>5 DEF Keep, SameObjects, SameHands
  <1> QED
    BY <1>3, <1>6, KeepOthers DEF ObjectStep

(* What a message that is applied leaves of the objects' identity. *)
LEMMA AppliedObject ==
    ASSUME TypeInv, NEW s \in Servers, NEW types, SrvMsgIs(s, types), types \subseteq Reports,
           NEW r \in modules[s]
    PROVE  LET q == Applied(r, Head(ioTask[s].buf)) IN
           q \in ModuleRec /\ q.id = r.id /\ q.name = r.name /\ q.proc = r.proc
  <1>1. r \in ModuleRec /\ Head(ioTask[s].buf) \in SrvMsg
    BY Facts, HeadType DEF SrvMsgIs
  <1> QED
    BY <1>1, AppliedType DEF Applied, ModuleRec

LEMMA SrvApplyObjects ==
    ASSUME TypeInv, NEW s \in Servers, NEW types, types \subseteq Reports, SrvApply(s, types)
    PROVE  \A x \in Servers : ObjectStep(x)
  <1> DEFINE msg  == Head(ioTask[s].buf)
             task == Rest(ioTask[s])
             f == [r \in modules[s] |-> IF r.id = work[s].id THEN Applied(r, msg) ELSE r]
  <1>1. /\ ioTask' = [ioTask EXCEPT ![s] = task] /\ work' = [work EXCEPT ![s] = NoWork]
        /\ UNCHANGED <<nextObjId, leaving, crossed>>
        /\ ioTask[s].assigning = FALSE /\ task.assigning = FALSE
        /\ SrvMsgIs(s, types)
    BY IdleAndRest DEF SrvApply
  <1>2. CASE FindsNothing(s) /\ UNCHANGED <<modules, notices>>
    <2>1. Only(s) /\ ioTask'[s] = task /\ work'[s] = NoWork
      BY <1>1, <1>2, ServerArrays DEF Only
    <2>2. Keep(s)
      BY <1>1, <1>2, <2>1 DEF FindsNothing, Keep, SameObjects, SameHands, Top
    <2> QED
      BY <2>1, <2>2, KeepOthers DEF ObjectStep
  <1>3. CASE work[s].at = "found"
    <2>1. work[s] # NoWork
      BY <1>3 DEF NoWork
    <2>2. /\ modules' = [modules EXCEPT ![s] = {f[r] : r \in modules[s]}]
          /\ \/ notices' = [notices EXCEPT ![s] = Append(notices[s], Created(work[s].id))]
             \/ UNCHANGED notices
      BY <2>1 DEF SrvApply, FindsNothing, Callback, Created
    <2>3. modules[s] \subseteq ModuleRec
      BY Facts DEF RegistryTypes
    <2>4. /\ f \in [modules[s] -> ModuleRec]
          /\ \A r \in modules[s] : f[r].id = r.id /\ f[r].name = r.name
      BY <1>1, <2>3, AppliedObject
    <2> HIDE DEF f, task
    <2>5. /\ Only(s) /\ ioTask'[s] = task /\ work'[s] = NoWork
          /\ modules'[s] = {f[r] : r \in modules[s]}
          /\ notices'[s] \in {notices[s], Append(notices[s], Created(work[s].id))}
      BY <1>1, <2>2, ServerArrays DEF Only
    <2>6. Top(s)' = Top(s)
      BY <1>1, <2>5 DEF Top
    <2>7. Touch(s)
      BY <1>1, <1>3, <2>4, <2>5, <2>6 DEF Touch
    <2> QED
      BY <2>5, <2>7, KeepOthers DEF ObjectStep
  <1> QED
    BY <1>2, <1>3 DEF SrvApply

LEMMA SrvMemoryObjects ==
    ASSUME TypeInv, NEW s \in Servers, NEW alive, SrvMemory(s, alive)
    PROVE  \A x \in Servers : ObjectStep(x)
  <1>1. /\ Only(s) /\ nextObjId'[s] = FirstId /\ ioTask'[s] = Idle /\ modules'[s] = {}
        /\ notices'[s] = <<>> /\ work'[s] = NoWork /\ leaving'[s] = <<>>
        /\ crossed'[s] = FALSE
    BY ServerArrays DEF SrvMemory, Only
  <1>2. Reset(s)
    BY <1>1, NotAssigning DEF Reset, Top
  <1> QED
    BY <1>1, <1>2, KeepOthers DEF ObjectStep

(* Every step of the session is one of these for every server. *)
LEMMA ObjectSteps ==
    ASSUME TypeInv, [Next]_vars
    PROVE  \A x \in Servers : ObjectStep(x)
  <1>1. ASSUME NEW s \in Servers, SrvIO(s)
        PROVE  \A x \in Servers : ObjectStep(x)
    <2>1. ASSUME NEW c \in DOMAIN conn, SrvAccept(s, c)
          PROVE  \A x \in Servers : ObjectStep(x)
      BY <2>1, KeepAll DEF SrvAccept
    <2>2. ASSUME HandleDeclareDuplicate(s)
          PROVE  \A x \in Servers : ObjectStep(x)
      BY <2>2, IdleAndRest, TaskOnly DEF HandleDeclareDuplicate
    <2>3. ASSUME ObjectWork(s)
          PROVE  \A x \in Servers : ObjectStep(x)
      BY <2>3, FindAtEofObjects, FindObjects, NotifyDestroyedObjects, EraseAtEofObjects
      DEF ObjectWork
    <2>4. ASSUME HandleExpose(s) \/ HandleDesc(s) \/ HandleValue(s)
          PROVE  \A x \in Servers : ObjectStep(x)
      BY <2>4, SrvApplyObjects DEF HandleExpose, HandleDesc, HandleValue, Reports
    <2> QED
      BY <1>1, <2>1, <2>2, <2>3, <2>4, SrvEofObjects, SrvReadObjects,
         SrvUdpDeclareObjects, HandleDeclareNewObjects, AssignModuleIDObjects,
         HandleModuleShutdownObjects
      DEF SrvIO
  <1>2. ASSUME NEW s \in Servers, SrvPython(s)
        PROVE  \A x \in Servers : ObjectStep(x)
    <2>1. CASE \E r \in modules[s] : Disconnect(s, r)
      BY <2>1, DisconnectObjects
    <2>2. CASE EndDisconnect(s)
      BY <2>2, EndDisconnectObjects
    <2>3. CASE ~(\E r \in modules[s] : Disconnect(s, r)) /\ ~EndDisconnect(s)
      <3>1. UNCHANGED <<registryVars, ioTask>>
        BY <1>2, <2>3 DEF SrvPython, Discover, SendDiscovery, Connect, CallRemote
      <3> QED
        BY <3>1, KeepAll
    <2> QED
      BY <2>1, <2>2, <2>3
  <1>3. ASSUME NEW m \in Modules, ModLoop(m) \/ ModProgram(m)
        PROVE  \A x \in Servers : ObjectStep(x)
    <2>1. UNCHANGED <<registryVars, ioTask>>
      BY <1>3 DEF ModLoop, ModProgram, ModAccept, ModEof, ModRead, ModUdpDiscovery,
        HandleDiscovery, HandleServerShutdown, HandleAssignId, HandleCall,
        UpdateAttribute, ModStart, ModCrash, ModShutdown
    <2> QED
      BY <2>1, KeepAll
  <1>4. ASSUME NEW s \in Servers, SrvStop(s) \/ SrvStart(s)
        PROVE  \A x \in Servers : ObjectStep(x)
    BY <1>4, SrvMemoryObjects DEF SrvStop, SrvStart
  <1>5. CASE UNCHANGED vars
    BY <1>5, KeepAll DEF vars, registryVars, handlerVars
  <1> QED
    BY <1>1, <1>2, <1>3, <1>4, <1>5 DEF Next
-----------------------------------------------------------------------------
(* Objects live once and die once *)

(* The properties of one server, and why they last: no id above Top is in    *)
(* use, so a new object never meets an old one, and as long as no disconnect *)
(* overlapped a handler's work, an object is in one hand at most when the    *)
(* script is told of its end.                                                *)
Below(s)    == /\ \A r \in modules[s] : r.id <= Top(s)
               /\ \A k \in DOMAIN notices[s] : notices[s][k].id <= Top(s)
               /\ work[s].at = "found" => work[s].id <= Top(s)
Distinct(s) == \A r1, r2 \in modules[s] :
                  r1.id = r2.id \/ r1.name = r2.name => r1 = r2
InOrder(s)  == \A j, k \in DOMAIN notices[s] :
                  /\ notices[s][j].what = "onModuleDestroyed"
                  /\ notices[s][k].what = "onModuleCreated"
                  /\ notices[s][j].id = notices[s][k].id
                  => k < j
Alive(s)    == \A r \in modules[s] : r.id \in DestroyedIds(s) => r.id \in Ending(s)
(* The script knows of the objects that are ending. *)
KnownEnds(s)     == Ending(s) \subseteq DestroyedIds(s)
(* The IO thread and PyConnect.disconnect do not end objects at the same     *)
(* time, and the object the IO thread has found is there.                    *)
Alone(s)    == /\ work[s].at \in {"found", "notified"} => leaving[s] = <<>>
               /\ \A j, k \in DOMAIN leaving[s] : j = k
Held(s)     == work[s].at = "found" => \E r \in modules[s] : r.id = work[s].id
Apart(s)    == ToldOnce(s) /\ Alive(s) /\ InOrder(s) /\ Alone(s) /\ Held(s)
ObjectInv(s) == Below(s) /\ Distinct(s) /\ KnownEnds(s) /\ (~crossed[s] => Apart(s))

LEMMA ObjectTypes ==
    ASSUME TypeInv, NEW s \in Servers
    PROVE  /\ notices[s] \in Seq(Notice) /\ Top(s) \in Int
           /\ leaving[s] \in Seq(Ids) /\ crossed[s] \in BOOLEAN
           /\ \A r \in modules[s] : r \in ModuleRec /\ r.id \in Ids /\ r.id \in Int
           /\ \A n \in Notice : n.id \in Int
           /\ \A i \in Ids : Created(i) \in Notice /\ Destroyed(i) \in Notice
           /\ work[s].at \in {"found", "notified", "erased"} => work[s].id \in Ids
           /\ \A i \in Ids : i \in Int
  <1>1. /\ notices[s] \in Seq(Notice) /\ modules[s] \subseteq ModuleRec
        /\ leaving[s] \in Seq(Ids) /\ crossed[s] \in BOOLEAN
    BY Facts DEF RegistryTypes
  <1>2. \A i \in Ids : i \in Int
    BY ByteType
  <1>3. \A r \in modules[s] : r.id \in Ids
    BY <1>1 DEF ModuleRec
  <1>4. \A n \in Notice : n.id \in Int
    BY <1>2 DEF Notice
  <1>5. Top(s) \in Int
    BY SameAs DEF Top
  <1>6. \A i \in Ids : Created(i) \in Notice /\ Destroyed(i) \in Notice
    BY DEF Created, Destroyed, Notice
  <1>7. work[s].at \in {"found", "notified", "erased"} => work[s].id \in Ids
    BY WorkFacts, Facts
  <1> QED
    BY <1>1, <1>2, <1>3, <1>4, <1>5, <1>6, <1>7

(* A list after one more, and after one less. *)
LEMMA OneMore ==
    ASSUME NEW M, NEW q \in Seq(M), NEW e \in M
    PROVE  /\ \A k \in DOMAIN Append(q, e) :
                 \/ k \in DOMAIN q /\ Append(q, e)[k] = q[k] /\ k < Len(q) + 1
                 \/ k = Len(q) + 1 /\ Append(q, e)[k] = e
           /\ \A k \in DOMAIN q : q[k] \in M /\ k \in Int
           /\ Len(q) + 1 \in Int
           /\ DOMAIN Append(q, e) = DOMAIN q \cup {Len(q) + 1}
           /\ \A k \in DOMAIN q : Append(q, e)[k] = q[k]
           /\ Append(q, e)[Len(q) + 1] = e
  OBVIOUS
LEMMA OneLess ==
    ASSUME NEW M, NEW q \in Seq(M), q # <<>>
    PROVE  /\ Head(q) = q[1] /\ 1 \in DOMAIN q
           /\ \A k \in DOMAIN Tail(q) : k + 1 \in DOMAIN q /\ Tail(q)[k] = q[k + 1]
           /\ (\A j, k \in DOMAIN q : j = k) => Tail(q) = <<>> /\ DOMAIN q = {1}
  <1>1. PICK n \in Nat : n = Len(q)
    OBVIOUS
  <1>2. Head(q) = q[1] /\ 1 \in DOMAIN q
    OBVIOUS
  <1>3. \A k \in DOMAIN Tail(q) : k + 1 \in DOMAIN q /\ Tail(q)[k] = q[k + 1]
    OBVIOUS
  <1>4. ASSUME \A j, k \in DOMAIN q : j = k
        PROVE  Tail(q) = <<>> /\ DOMAIN q = {1}
    <2>1. DOMAIN q = 1..n
      BY <1>1
    <2>2. n = 1
      <3>1. n # 0
        BY <1>1
      <3>2. n \in 1..n /\ 1 \in 1..n
        BY <1>1, <3>1
      <3> QED
        BY <1>4, <2>1, <3>2
    <2>3. Len(q) = 1
      BY <1>1, <2>2
    <2>4. Tail(q) = <<>>
      <3>1. Tail(q) \in Seq(M)
        OBVIOUS
      <3>2. Len(Tail(q)) = 0
        BY <2>3
      <3>3. \A t \in Seq(M) : Len(t) = 0 => t = <<>>
        OBVIOUS
      <3> QED
        BY <3>1, <3>2, <3>3, Zenon
    <2>5. 1..1 = {1}
      OBVIOUS
    <2> QED
      BY <2>1, <2>2, <2>4, <2>5
  <1> QED
    BY <1>2, <1>3, <1>4

(* The ids the script was told about change only when it is told of an end.  *)
LEMMA ToldAfter ==
    ASSUME TypeInv, NEW s \in Servers, NEW e \in Notice,
           notices'[s] = Append(notices[s], e)
    PROVE  DestroyedIds(s)' = IF e.what = "onModuleDestroyed"
                              THEN DestroyedIds(s) \cup {e.id} ELSE DestroyedIds(s)
  <1> DEFINE q == notices[s]
  <1>1. q \in Seq(Notice)
    BY ObjectTypes
  <1>2. /\ DOMAIN Append(q, e) = DOMAIN q \cup {Len(q) + 1}
        /\ \A k \in DOMAIN q : Append(q, e)[k] = q[k]
        /\ Append(q, e)[Len(q) + 1] = e
    BY <1>1
  <1> QED
    BY <1>2 DEF DestroyedIds

(* An erasure takes nothing but objects away, and exactly the object it means *)
(* as long as no disconnect overlapped a handler's work.                      *)
LEMMA ErasedObject ==
    ASSUME NEW s, NEW i, NEW R \in Erased(s, i)
    PROVE  /\ R \subseteq modules[s]
           /\ ~crossed[s] => R = {r \in modules[s] : r.id # i}
  BY DEF Erased

(* One more callback: of an end for an object not yet told of, or of an      *)
(* exposure.                                                                 *)
LEMMA OneNotice ==
    ASSUME TypeInv, NEW s \in Servers, NEW e \in Notice,
           notices'[s] = Append(notices[s], e), e.id \notin DestroyedIds(s)
    PROVE  /\ ToldOnce(s) => ToldOnce(s)'
           /\ InOrder(s) => InOrder(s)'
  <1> DEFINE q == notices[s]
  <1>1. q \in Seq(Notice)
    BY ObjectTypes
  <1>2. \A k \in DOMAIN q : q[k].what = "onModuleDestroyed" => q[k].id # e.id
    BY DEF DestroyedIds
  <1>3. ToldOnce(s) => ToldOnce(s)'
    BY <1>1, <1>2, OneMore DEF ToldOnce
  <1>4. InOrder(s) => InOrder(s)'
    BY <1>1, <1>2, OneMore DEF InOrder
  <1> QED
    BY <1>3, <1>4

LEMMA KeepObjects ==
    ASSUME NEW s \in Servers, ObjectInv(s), Keep(s)
    PROVE  ObjectInv(s)'
  <1>1. DestroyedIds(s)' = DestroyedIds(s) /\ Ending(s)' = Ending(s)
    BY DEF Keep, SameHands, DestroyedIds, Ending
  <1>2. Below(s)' /\ Distinct(s)' /\ KnownEnds(s)'
    BY <1>1 DEF Keep, SameObjects, SameHands, ObjectInv, Below, Distinct, KnownEnds
  <1>3. Apart(s) => Apart(s)'
    BY <1>1 DEF Keep, SameObjects, SameHands, Apart, ToldOnce, Alive, InOrder, Alone, Held
  <1> QED
    BY <1>2, <1>3 DEF ObjectInv, Keep

LEMMA AddObject ==
    ASSUME TypeInv, NEW s \in Servers, ObjectInv(s), Add(s)
    PROVE  ObjectInv(s)'
  <1>1. PICK o \in ModuleRec :
          /\ o.id = Top(s) + 1 /\ \A r \in modules[s] : r.name # o.name
          /\ modules'[s] = modules[s] \cup {o} /\ Top(s)' = Top(s) + 1
          /\ SameHands(s) /\ UNCHANGED notices[s]
          /\ crossed'[s] = (crossed[s] \/ leaving[s] # <<>>)
    BY DEF Add
  <1>2. DestroyedIds(s)' = DestroyedIds(s) /\ Ending(s)' = Ending(s)
    BY <1>1 DEF SameHands, DestroyedIds, Ending
  <1>3. /\ Top(s) \in Int /\ \A r \in modules[s] : r.id \in Int
        /\ \A k \in DOMAIN notices[s] : notices[s][k].id \in Int
        /\ work[s].at = "found" => work[s].id \in Int
    BY ObjectTypes
  <1>4. /\ \A r \in modules[s] : r.id <= Top(s) /\ r.id # o.id
        /\ \A k \in DOMAIN notices[s] : notices[s][k].id <= Top(s)
                                        /\ notices[s][k].id # o.id
        /\ work[s].at = "found" => work[s].id <= Top(s)
    BY <1>1, <1>3 DEF ObjectInv, Below
  <1>5. Below(s)'
    BY <1>1, <1>3, <1>4 DEF Below, SameHands
  <1>6. Distinct(s)'
    BY <1>1, <1>4 DEF ObjectInv, Distinct
  <1>7. KnownEnds(s)'
    BY <1>2 DEF ObjectInv, KnownEnds
  <1>8. o.id \notin DestroyedIds(s)
    BY <1>4 DEF DestroyedIds
  <1>9. Apart(s) => Apart(s)'
    <2> SUFFICES ASSUME Apart(s) PROVE Apart(s)'
      OBVIOUS
    <2>1. Alive(s)'
      BY <1>1, <1>2, <1>8 DEF Apart, Alive
    <2>2. ToldOnce(s)' /\ InOrder(s)'
      BY <1>1 DEF Apart, ToldOnce, InOrder
    <2>3. Alone(s)' /\ Held(s)'
      BY <1>1 DEF Apart, Alone, Held, SameHands
    <2> QED
      BY <2>1, <2>2, <2>3 DEF Apart
  <1> QED
    BY <1>1, <1>5, <1>6, <1>7, <1>9 DEF ObjectInv

LEMMA LookObject ==
    ASSUME TypeInv, NEW s \in Servers, ObjectInv(s), Look(s)
    PROVE  ObjectInv(s)'
  <1>1. PICK r \in modules[s], c \in Nat :
          /\ work[s] = NoWork /\ work'[s] = Found(r.id, c)
          /\ SameObjects(s) /\ UNCHANGED <<notices[s], leaving[s]>>
          /\ crossed'[s] = (crossed[s] \/ leaving[s] # <<>>)
    BY DEF Look
  <1>2. /\ work[s].at = "none" /\ work'[s].at = "found" /\ work'[s].id = r.id
    BY <1>1 DEF NoWork, Found
  <1>3. DestroyedIds(s)' = DestroyedIds(s) /\ Ending(s)' = Ending(s)
    BY <1>1, <1>2 DEF DestroyedIds, Ending
  <1>4. Below(s)' /\ Distinct(s)' /\ KnownEnds(s)'
    BY <1>1, <1>2, <1>3 DEF SameObjects, ObjectInv, Below, Distinct, KnownEnds
  <1>5. Apart(s) /\ leaving[s] = <<>> => Apart(s)'
    BY <1>1, <1>2, <1>3
    DEF SameObjects, Apart, ToldOnce, Alive, InOrder, Alone, Held
  <1> QED
    BY <1>1, <1>4, <1>5 DEF ObjectInv

LEMMA TellObject ==
    ASSUME TypeInv, NEW s \in Servers, ObjectInv(s), Tell(s)
    PROVE  ObjectInv(s)'
  <1> DEFINE i == work[s].id
             e == Destroyed(i)
  <1>1. /\ work[s].at = "found" /\ notices'[s] = Append(notices[s], e)
        /\ SameObjects(s) /\ UNCHANGED <<leaving[s], crossed[s]>>
    BY DEF Tell
  <1>2. i \in Ids /\ e \in Notice
    BY <1>1, ObjectTypes
  <1>3. e.what = "onModuleDestroyed" /\ e.id = i
    BY DEF Destroyed
  <1>4. work'[s].at = "notified" /\ work'[s].id = i
    <2>1. work[s] \in Work /\ work[s] # NoWork
      BY <1>1, Facts DEF RegistryTypes, NoWork
    <2> QED
      BY <2>1 DEF Tell, Work
  <1> HIDE DEF e
  <1>5. DestroyedIds(s)' = DestroyedIds(s) \cup {i}
    BY <1>1, <1>2, <1>3, ToldAfter
  <1>6. Ending(s)' = Ending(s) \cup {i}
    BY <1>1, <1>4 DEF Ending
  <1>7. KnownEnds(s)' /\ Distinct(s)'
    BY <1>1, <1>5, <1>6 DEF ObjectInv, KnownEnds, Distinct, SameObjects
  <1>8. Below(s)'
    <2>1. notices[s] \in Seq(Notice)
      BY ObjectTypes
    <2>2. \A k \in DOMAIN notices'[s] : notices'[s][k].id <= Top(s)
      BY <1>1, <1>2, <1>3, <2>1, OneMore DEF ObjectInv, Below
    <2> QED
      BY <1>1, <1>4, <2>2 DEF ObjectInv, Below, SameObjects
  <1>9. Apart(s) => Apart(s)'
    <2> SUFFICES ASSUME Apart(s) PROVE Apart(s)'
      OBVIOUS
    <2>1. leaving[s] = <<>> /\ \E r \in modules[s] : r.id = i
      BY <1>1 DEF Apart, Alone, Held
    <2>2. i \notin DestroyedIds(s)
      <3>1. Ending(s) = {}
        BY <1>1, <2>1 DEF Ending
      <3> QED
        BY <2>1, <3>1 DEF Apart, Alive
    <2>3. ToldOnce(s)' /\ InOrder(s)'
      BY <1>1, <1>2, <1>3, <2>2, OneNotice DEF Apart
    <2>4. Alive(s)'
      BY <1>1, <1>5, <1>6 DEF Apart, Alive, SameObjects
    <2>5. Alone(s)' /\ Held(s)'
      BY <1>1, <1>4, <2>1 DEF Alone, Held
    <2> QED
      BY <2>3, <2>4, <2>5 DEF Apart
  <1> QED
    BY <1>1, <1>7, <1>8, <1>9 DEF ObjectInv

LEMMA EraseObject ==
    ASSUME TypeInv, NEW s \in Servers, ObjectInv(s), Erase(s)
    PROVE  ObjectInv(s)'
  <1> DEFINE i == work[s].id
  <1>1. /\ work[s].at = "notified" /\ modules'[s] \in Erased(s, i)
        /\ Top(s)' = Top(s) /\ UNCHANGED <<notices[s], leaving[s], crossed[s]>>
    BY DEF Erase
  <1>2. work'[s].at \in {"none", "erased"}
    <2>1. work[s] \in Work /\ work[s] # NoWork
      BY <1>1, Facts DEF RegistryTypes, NoWork
    <2> QED
      BY <2>1 DEF Erase, Work, NoWork
  <1>3. /\ modules'[s] \subseteq modules[s]
        /\ ~crossed[s] => modules'[s] = {r \in modules[s] : r.id # i}
    BY <1>1, ErasedObject
  <1>4. DestroyedIds(s)' = DestroyedIds(s) /\ Ending(s)' \cup {i} = Ending(s) \cup {i}
        /\ Ending(s)' \subseteq Ending(s)
    BY <1>1, <1>2 DEF DestroyedIds, Ending
  <1>5. Below(s)' /\ Distinct(s)' /\ KnownEnds(s)'
    BY <1>1, <1>2, <1>3, <1>4 DEF ObjectInv, Below, Distinct, KnownEnds
  <1>6. Apart(s) /\ ~crossed[s] => Apart(s)'
    <2> SUFFICES ASSUME Apart(s), ~crossed[s] PROVE Apart(s)'
      OBVIOUS
    <2>1. Alive(s)'
      BY <1>3, <1>4 DEF Apart, Alive
    <2>2. ToldOnce(s)' /\ InOrder(s)'
      BY <1>1 DEF Apart, ToldOnce, InOrder
    <2>3. Alone(s)' /\ Held(s)'
      BY <1>1, <1>2 DEF Apart, Alone, Held
    <2> QED
      BY <2>1, <2>2, <2>3 DEF Apart
  <1> QED
    BY <1>1, <1>5, <1>6 DEF ObjectInv

LEMMA DoneObject ==
    ASSUME TypeInv, NEW s \in Servers, ObjectInv(s), Done(s)
    PROVE  ObjectInv(s)'
  <1>1. work[s].at = "erased" /\ work'[s].at = "none"
    BY DEF Done, NoWork
  <1>2. DestroyedIds(s)' = DestroyedIds(s) /\ Ending(s)' = Ending(s)
    BY <1>1 DEF Done, DestroyedIds, Ending
  <1>3. Below(s)' /\ Distinct(s)' /\ KnownEnds(s)'
    BY <1>1, <1>2 DEF Done, SameObjects, ObjectInv, Below, Distinct, KnownEnds
  <1>4. Apart(s) => Apart(s)'
    BY <1>1, <1>2 DEF Done, SameObjects, Apart, ToldOnce, Alive, InOrder, Alone, Held
  <1> QED
    BY <1>3, <1>4 DEF Done, ObjectInv

LEMMA TouchObject ==
    ASSUME TypeInv, NEW s \in Servers, ObjectInv(s), Touch(s)
    PROVE  ObjectInv(s)'
  <1> DEFINE i == work[s].id
             e == Created(i)
  <1>1. PICK f \in [modules[s] -> ModuleRec] :
          /\ work[s].at = "found" /\ work'[s] = NoWork
          /\ \A r \in modules[s] : f[r].id = r.id /\ f[r].name = r.name
          /\ modules'[s] = {f[r] : r \in modules[s]} /\ Top(s)' = Top(s)
          /\ notices'[s] \in {notices[s], Append(notices[s], e)}
          /\ UNCHANGED <<leaving[s], crossed[s]>>
    BY DEF Touch
  <1>2. i \in Ids /\ e \in Notice /\ work'[s].at = "none"
    BY <1>1, ObjectTypes DEF NoWork
  <1>3. e.what = "onModuleCreated" /\ e.id = i
    BY DEF Created
  <1> HIDE DEF e
  <1>4. Ending(s)' = Ending(s)
    BY <1>1, <1>2 DEF Ending
  <1>5. DestroyedIds(s)' = DestroyedIds(s)
    <2>1. CASE notices'[s] = notices[s]
      BY <2>1 DEF DestroyedIds
    <2>2. CASE notices'[s] = Append(notices[s], e)
      BY <1>2, <1>3, <2>2, ToldAfter
    <2> QED
      BY <1>1, <2>1, <2>2
  <1>6. Distinct(s)' /\ KnownEnds(s)'
    BY <1>1, <1>4, <1>5 DEF ObjectInv, Distinct, KnownEnds
  <1>7. Below(s)'
    <2>1. notices[s] \in Seq(Notice)
      BY ObjectTypes
    <2>2. i <= Top(s) /\ \A k \in DOMAIN notices[s] : notices[s][k].id <= Top(s)
      BY <1>1 DEF ObjectInv, Below
    <2>3. \A k \in DOMAIN notices'[s] : notices'[s][k].id <= Top(s)
      <3>1. CASE notices'[s] = notices[s]
        BY <2>2, <3>1
      <3>2. CASE notices'[s] = Append(notices[s], e)
        BY <1>2, <1>3, <2>1, <2>2, <3>2, OneMore
      <3> QED
        BY <1>1, <3>1, <3>2
    <2>4. \A r \in modules'[s] : r.id <= Top(s)
      BY <1>1 DEF ObjectInv, Below
    <2> QED
      BY <1>1, <1>2, <2>3, <2>4 DEF Below
  <1>8. Apart(s) => Apart(s)'
    <2> SUFFICES ASSUME Apart(s) PROVE Apart(s)'
      OBVIOUS
    <2>1. leaving[s] = <<>> /\ \E r \in modules[s] : r.id = i
      BY <1>1 DEF Apart, Alone, Held
    <2>2. i \notin DestroyedIds(s)
      <3>1. Ending(s) = {}
        BY <1>1, <2>1 DEF Ending
      <3> QED
        BY <2>1, <3>1 DEF Apart, Alive
    <2>3. ToldOnce(s)' /\ InOrder(s)'
      <3>1. CASE notices'[s] = notices[s]
        BY <3>1 DEF Apart, ToldOnce, InOrder
      <3>2. CASE notices'[s] = Append(notices[s], e)
        BY <1>2, <1>3, <2>2, <3>2, OneNotice DEF Apart
      <3> QED
        BY <1>1, <3>1, <3>2
    <2>4. Alive(s)'
      BY <1>1, <1>4, <1>5 DEF Apart, Alive
    <2>5. Alone(s)' /\ Held(s)'
      BY <1>1, <1>2 DEF Apart, Alone, Held
    <2> QED
      BY <2>3, <2>4, <2>5 DEF Apart
  <1> QED
    BY <1>1, <1>6, <1>7, <1>8 DEF ObjectInv

LEMMA LeaveObject ==
    ASSUME TypeInv, NEW s \in Servers, ObjectInv(s), Leave(s)
    PROVE  ObjectInv(s)'
  <1>1. PICK r \in modules[s] :
          /\ notices'[s] = Append(notices[s], Destroyed(r.id))
          /\ leaving'[s] = Append(leaving[s], r.id)
          /\ crossed'[s] = (crossed[s] \/ leaving[s] # <<>>
                                       \/ work[s].at \in {"found", "notified"})
          /\ SameObjects(s) /\ UNCHANGED work[s]
    BY DEF Leave
  <1> DEFINE i == r.id
             e == Destroyed(i)
  <1>2. i \in Ids /\ e \in Notice /\ leaving[s] \in Seq(Ids) /\ notices[s] \in Seq(Notice)
    BY ObjectTypes
  <1>3. e.what = "onModuleDestroyed" /\ e.id = i
    BY DEF Destroyed
  <1> HIDE DEF e
  <1>4. DestroyedIds(s)' = DestroyedIds(s) \cup {i}
    BY <1>1, <1>2, <1>3, ToldAfter DEF e
  <1>5. Ending(s)' = Ending(s) \cup {i}
    <2>1. /\ DOMAIN leaving'[s] = DOMAIN leaving[s] \cup {Len(leaving[s]) + 1}
          /\ \A k \in DOMAIN leaving[s] : leaving'[s][k] = leaving[s][k]
          /\ leaving'[s][Len(leaving[s]) + 1] = i
      BY <1>1, <1>2
    <2> QED
      BY <1>1, <2>1 DEF Ending
  <1>6. KnownEnds(s)' /\ Distinct(s)'
    BY <1>1, <1>4, <1>5 DEF ObjectInv, KnownEnds, Distinct, SameObjects
  <1>7. Below(s)'
    <2>1. i <= Top(s) /\ \A k \in DOMAIN notices[s] : notices[s][k].id <= Top(s)
      BY DEF ObjectInv, Below
    <2>2. \A k \in DOMAIN notices'[s] : notices'[s][k].id <= Top(s)
      BY <1>1, <1>2, <1>3, <2>1, OneMore DEF e
    <2> QED
      BY <1>1, <2>2 DEF ObjectInv, Below, SameObjects
  <1>8. Apart(s) /\ leaving[s] = <<>> /\ ~(work[s].at \in {"found", "notified"})
          => Apart(s)'
    <2> SUFFICES ASSUME Apart(s), leaving[s] = <<>>,
                        ~(work[s].at \in {"found", "notified"})
                 PROVE  Apart(s)'
      OBVIOUS
    <2>1. i \notin DestroyedIds(s)
      <3>1. Ending(s) = {}
        BY DEF Ending
      <3> QED
        BY <3>1 DEF Apart, Alive
    <2>2. ToldOnce(s)' /\ InOrder(s)'
      BY <1>1, <1>2, <1>3, <2>1, OneNotice DEF Apart, e
    <2>3. Alive(s)'
      BY <1>1, <1>4, <1>5 DEF Apart, Alive, SameObjects
    <2>4. DOMAIN leaving'[s] = {1}
      BY <1>1, <1>2
    <2>5. Alone(s)' /\ Held(s)'
      BY <1>1, <2>4 DEF Alone, Held
    <2> QED
      BY <2>2, <2>3, <2>5 DEF Apart
  <1> QED
    BY <1>1, <1>6, <1>7, <1>8 DEF ObjectInv

LEMMA GoneObject ==
    ASSUME TypeInv, NEW s \in Servers, ObjectInv(s), Gone(s)
    PROVE  ObjectInv(s)'
  <1> DEFINE q == leaving[s]
             i == Head(q)
  <1>1. /\ q # <<>> /\ leaving'[s] = Tail(q) /\ modules'[s] \in Erased(s, i)
        /\ Top(s)' = Top(s) /\ UNCHANGED <<work[s], notices[s], crossed[s]>>
        /\ q \in Seq(Ids)
    BY ObjectTypes DEF Gone
  <1>2. /\ i = q[1] /\ 1 \in DOMAIN q
        /\ \A k \in DOMAIN Tail(q) : k + 1 \in DOMAIN q /\ Tail(q)[k] = q[k + 1]
        /\ (\A j, k \in DOMAIN q : j = k) => Tail(q) = <<>> /\ DOMAIN q = {1}
    BY <1>1, OneLess
  <1>3. /\ modules'[s] \subseteq modules[s]
        /\ ~crossed[s] => modules'[s] = {r \in modules[s] : r.id # i}
    BY <1>1, ErasedObject
  <1>4. DestroyedIds(s)' = DestroyedIds(s)
    BY <1>1 DEF DestroyedIds
  <1>5. Ending(s)' \subseteq Ending(s)
    BY <1>1, <1>2 DEF Ending
  <1>6. Below(s)' /\ Distinct(s)' /\ KnownEnds(s)'
    BY <1>1, <1>3, <1>4, <1>5 DEF ObjectInv, Below, Distinct, KnownEnds
  <1>7. Apart(s) /\ ~crossed[s] => Apart(s)'
    <2> SUFFICES ASSUME Apart(s), ~crossed[s] PROVE Apart(s)'
      OBVIOUS
    <2>1. Tail(q) = <<>> /\ DOMAIN q = {1}
      BY <1>2 DEF Apart, Alone
    <2>2. ~(work[s].at \in {"found", "notified"})
      BY <1>1 DEF Apart, Alone
    <2>3. Ending(s) = {i}
      BY <1>2, <2>1, <2>2 DEF Ending
    <2>4. Alive(s)'
      BY <1>3, <1>4, <2>3 DEF Apart, Alive
    <2>5. ToldOnce(s)' /\ InOrder(s)'
      BY <1>1 DEF Apart, ToldOnce, InOrder
    <2>6. Alone(s)' /\ Held(s)'
      BY <1>1, <2>1, <2>2 DEF Alone, Held
    <2> QED
      BY <2>4, <2>5, <2>6 DEF Apart
  <1> QED
    BY <1>1, <1>6, <1>7 DEF ObjectInv

LEMMA ResetObjects ==
    ASSUME NEW s \in Servers, Reset(s)
    PROVE  ObjectInv(s)'
  <1>1. /\ modules'[s] = {} /\ notices'[s] = <<>> /\ work'[s].at = "none"
        /\ leaving'[s] = <<>>
    BY DEF Reset, NoWork
  <1>2. Ending(s)' = {}
    BY <1>1 DEF Ending
  <1> QED
    BY <1>1, <1>2
    DEF ObjectInv, Below, Distinct, KnownEnds, Apart, ToldOnce, Alive, InOrder, Alone, Held

(* The invariant of the objects of all servers. *)
ObjectsInv == \A s \in Servers : ObjectInv(s)

LEMMA NextObjects == TypeInv /\ ObjectsInv /\ [Next]_vars => ObjectsInv'
  <1> SUFFICES ASSUME TypeInv, ObjectsInv, [Next]_vars, NEW s \in Servers
               PROVE  ObjectInv(s)'
    BY DEF ObjectsInv
  <1>1. ObjectStep(s) /\ ObjectInv(s)
    BY ObjectSteps DEF ObjectsInv
  <1> QED
    BY <1>1, KeepObjects, AddObject, LookObject, TellObject, EraseObject, DoneObject,
       TouchObject, LeaveObject, GoneObject, ResetObjects
    DEF ObjectStep

LEMMA InitObjects == Init => ObjectsInv
  <1> SUFFICES ASSUME Init, NEW s \in Servers
               PROVE  ObjectInv(s)
    BY DEF ObjectsInv
  <1>1. modules[s] = {} /\ notices[s] = <<>> /\ work[s].at = "none" /\ leaving[s] = <<>>
    BY DEF Init, NoWork
  <1>2. Ending(s) = {}
    BY <1>1 DEF Ending
  <1> QED
    BY <1>1, <1>2
    DEF ObjectInv, Below, Distinct, KnownEnds, Apart, ToldOnce, Alive, InOrder, Alone, Held

LEMMA ObjectsAlways == Spec => [](TypeInv /\ ObjectsInv)
  BY InitTypes, NextTypes, InitObjects, NextObjects, PTL DEF Spec

\* The live objects of a server have distinct ids and distinct names: however
\* declarations arrive (over UDP, over IPC, twice, or while another object is
\* being made), addNewModule makes no second object under a name or an id.
THEOREM LiveObjectsDistinct == Spec => []LiveDistinct
  <1>1. ObjectsInv => LiveDistinct
    BY DEF ObjectsInv, ObjectInv, Distinct, LiveDistinct
  <1> QED
    BY <1>1, ObjectsAlways, PTL

\* As long as no disconnect overlapped a handler: onModuleDestroyed once per
\* object, and for no object that stays in modules_, whether it ends by
\* disconnect(), by MODULE_SHUTDOWN or at the end of the stream, although the
\* look for the object, the callback and the erasure are steps apart.
THEOREM ObjectsDieOnce == Spec => []DestroyedOnce
  <1>1. ObjectsInv => DestroyedOnce
    BY DEF ObjectsInv, ObjectInv, Apart, Alive, DestroyedOnce
  <1> QED
    BY <1>1, ObjectsAlways, PTL

\* As long as no disconnect overlapped a handler, onModuleCreated never follows
\* onModuleDestroyed for the same object: the object an exposure found is there
\* when the IO thread has the GIL.
THEOREM CallbacksInOrder == Spec => []CreatedBeforeDestroyed
  <1>1. ObjectsInv => CreatedBeforeDestroyed
    BY DEF ObjectsInv, ObjectInv, Apart, InOrder, CreatedBeforeDestroyed
  <1> QED
    BY <1>1, ObjectsAlways, PTL
-----------------------------------------------------------------------------
(* A server implements the abstract registry *)

(* The object whose end the script is told of vanishes from the registry.    *)
LEMMA Vanishes ==
    ASSUME TypeInv, NEW s \in Servers, ObjectInv(s), NEW r \in modules[s],
           r.id \notin DestroyedIds(s), SameObjects(s),
           notices'[s] = Append(notices[s], Destroyed(r.id))
    PROVE  RegistryStep(s)
  <1> DEFINE obj == [id |-> r.id, name |-> r.name]
  <1>1. \A p \in modules[s] : p.id = r.id => p = r
    BY DEF ObjectInv, Distinct
  <1>2. r \in ModuleRec /\ r.id \in Ids /\ Destroyed(r.id) \in Notice
    BY ObjectTypes
  <1>3. DestroyedIds(s)' = DestroyedIds(s) \cup {r.id}
    BY <1>2, ToldAfter DEF Destroyed
  <1>4. Live(s)' = Live(s) \ {obj} /\ obj \in Live(s)
    BY <1>1, <1>3 DEF Live, SameObjects
  <1>5. Used(s)' = Used(s)
    BY DEF Used, Top, SameObjects
  <1>6. obj \in [id : Ids, name : Names] /\ obj.id = r.id
    BY <1>2 DEF ModuleRec
  <1> QED
    BY <1>4, <1>5, <1>6
    DEF RegistryStep, Registry!Next, Registry!Vanish, Registry!Tell, Registry!Object,
        Destroyed

(* A step that tells nothing and takes away only what is told already.       *)
LEMMA Silent ==
    ASSUME TypeInv, NEW s \in Servers, UNCHANGED notices[s], Top(s)' = Top(s),
           modules'[s] \subseteq modules[s],
           \A r \in modules[s] : r \in modules'[s] \/ r.id \in DestroyedIds(s)
    PROVE  RegistryStep(s)
  <1>1. DestroyedIds(s)' = DestroyedIds(s)
    BY DEF DestroyedIds
  <1>2. Live(s)' = Live(s) /\ Used(s)' = Used(s)
    BY <1>1 DEF Live, Used, Top
  <1> QED
    BY <1>2 DEF RegistryStep, Registry!vars

LEMMA RegistryAdd ==
    ASSUME TypeInv, NEW s \in Servers, ObjectInv(s), Add(s)
    PROVE  RegistryStep(s)
  <1>1. PICK o \in ModuleRec :
          /\ o.id = Top(s) + 1 /\ \A r \in modules[s] : r.name # o.name
          /\ modules'[s] = modules[s] \cup {o} /\ Top(s)' = Top(s) + 1
          /\ UNCHANGED notices[s]
    BY DEF Add
  <1> DEFINE obj == [id |-> o.id, name |-> o.name]
  <1>2. o.id \in Ids /\ o.name \in Names /\ Top(s) \in Int
    BY ObjectTypes DEF ModuleRec
  <1>3. o.id \notin DestroyedIds(s)
    <2>1. \A k \in DOMAIN notices[s] : notices[s][k].id <= Top(s)
                                       /\ notices[s][k].id \in Int
      BY ObjectTypes DEF ObjectInv, Below
    <2>2. \A k \in DOMAIN notices[s] : notices[s][k].id # o.id
      BY <1>1, <1>2, <2>1
    <2> QED
      BY <2>2 DEF DestroyedIds
  <1>4. DestroyedIds(s)' = DestroyedIds(s)
    BY <1>1 DEF DestroyedIds
  <1>5. Live(s)' = Live(s) \cup {obj}
    BY <1>1, <1>3, <1>4 DEF Live
  <1>6. Used(s) = FirstId..Top(s) /\ Used(s)' = FirstId..Top(s)'
    BY DEF Used, Top
  <1>7. FirstId \in Int /\ FirstId <= o.id
    BY <1>2, ConstantsAssumption DEF Ids
  <1>8. o.id \notin Used(s) /\ Used(s)' = Used(s) \cup {o.id}
    BY <1>1, <1>2, <1>6, <1>7
  <1>9. \A p \in Live(s) : p.name # obj.name
    BY <1>1 DEF Live
  <1>10. obj \in [id : Ids, name : Names]
    BY <1>2
  <1> QED
    BY <1>1, <1>5, <1>8, <1>9, <1>10
    DEF RegistryStep, Registry!Next, Registry!Appear, Registry!Object

LEMMA RegistryTouch ==
    ASSUME TypeInv, NEW s \in Servers, ObjectInv(s), Touch(s), ~crossed[s]
    PROVE  RegistryStep(s)
  <1> DEFINE i == work[s].id
             e == Created(i)
  <1>1. PICK f \in [modules[s] -> ModuleRec] :
          /\ work[s].at = "found"
          /\ \A r \in modules[s] : f[r].id = r.id /\ f[r].name = r.name
          /\ modules'[s] = {f[r] : r \in modules[s]} /\ Top(s)' = Top(s)
          /\ notices'[s] \in {notices[s], Append(notices[s], e)}
    BY DEF Touch
  <1>2. i \in Ids /\ e \in Notice /\ e.what = "onModuleCreated"
    BY <1>1, ObjectTypes DEF Created
  <1>3. DestroyedIds(s)' = DestroyedIds(s)
    <2>1. CASE notices'[s] = notices[s]
      BY <2>1 DEF DestroyedIds
    <2>2. CASE notices'[s] = Append(notices[s], e)
      BY <1>2, <2>2, ToldAfter
    <2> QED
      BY <1>1, <2>1, <2>2
  <1>4. Live(s)' = Live(s)
    <2>1. Live(s)' = {[id |-> f[r].id, name |-> f[r].name] :
                         r \in {q \in modules[s] : f[q].id \notin DestroyedIds(s)}}
      BY <1>1, <1>3 DEF Live
    <2> QED
      BY <1>1, <2>1 DEF Live
  <1>5. Used(s)' = Used(s)
    BY <1>1 DEF Used, Top
  <1>6. CASE notices'[s] = notices[s]
    BY <1>4, <1>5, <1>6 DEF RegistryStep, Registry!vars
  <1>7. CASE notices'[s] = Append(notices[s], e)
    <2>1. PICK r \in modules[s] : r.id = i
      BY <1>1 DEF ObjectInv, Apart, Held
    <2>2. Ending(s) = {}
      BY <1>1 DEF ObjectInv, Apart, Alone, Ending
    <2>3. r.id \notin DestroyedIds(s)
      BY <2>2 DEF ObjectInv, Apart, Alive
    <2> DEFINE obj == [id |-> r.id, name |-> r.name]
    <2>4. obj \in Live(s)
      BY <2>3 DEF Live
    <2>5. obj \in [id : Ids, name : Names] /\ obj.id = i
      BY <2>1, ObjectTypes DEF ModuleRec
    <2> QED
      BY <1>4, <1>5, <1>7, <2>4, <2>5
      DEF RegistryStep, Registry!Next, Registry!Announce, Registry!Tell, Registry!Object,
          Created
  <1> QED
    BY <1>1, <1>6, <1>7

LEMMA RegistryStepProved ==
    ASSUME TypeInv, NEW s \in Servers, ObjectInv(s), ObjectStep(s), ~crossed'[s]
    PROVE  RegistryStep(s)
  <1>1. CASE Reset(s)
    <2>1. Live(s)' = {} /\ Used(s)' = {}
      BY <1>1, ConstantsAssumption DEF Reset, Live, Used, Top
    <2> QED
      BY <1>1, <2>1 DEF RegistryStep, Registry!Next, Registry!Restart, Reset
  <1>2. CASE Add(s)
    BY <1>2, RegistryAdd
  <1>3. CASE Keep(s) \/ Look(s) \/ Done(s)
    BY <1>3, Silent DEF Keep, Look, Done, SameObjects
  <1>4. CASE Tell(s)
    <2>1. Apart(s) /\ work[s].at = "found"
      BY <1>4 DEF Tell, ObjectInv
    <2>2. PICK r \in modules[s] : r.id = work[s].id
      BY <2>1 DEF Apart, Held
    <2>3. Ending(s) = {}
      BY <2>1 DEF Apart, Alone, Ending
    <2>4. r.id \notin DestroyedIds(s)
      BY <2>1, <2>3 DEF Apart, Alive
    <2> QED
      BY <1>4, <2>2, <2>4, Vanishes DEF Tell
  <1>5. CASE Erase(s)
    <2>1. ~crossed[s] /\ modules'[s] \in Erased(s, work[s].id) /\ work[s].at = "notified"
      BY <1>5 DEF Erase
    <2>2. modules'[s] = {r \in modules[s] : r.id # work[s].id}
      BY <2>1, ErasedObject
    <2>3. work[s].id \in DestroyedIds(s)
      BY <2>1 DEF ObjectInv, KnownEnds, Ending
    <2> QED
      BY <1>5, <2>2, <2>3, Silent DEF Erase
  <1>6. CASE Touch(s)
    BY <1>6, RegistryTouch DEF Touch
  <1>7. CASE Leave(s)
    <2>1. PICK r \in modules[s] :
            /\ notices'[s] = Append(notices[s], Destroyed(r.id)) /\ SameObjects(s)
            /\ crossed'[s] = (crossed[s] \/ leaving[s] # <<>>
                                         \/ work[s].at \in {"found", "notified"})
      BY <1>7 DEF Leave
    <2>2. ~crossed[s] /\ leaving[s] = <<>> /\ ~(work[s].at \in {"found", "notified"})
      BY <2>1, Zenon
    <2>3. Apart(s) /\ Ending(s) = {}
      BY <2>2 DEF ObjectInv, Ending
    <2>4. r.id \notin DestroyedIds(s)
      BY <2>3 DEF Apart, Alive
    <2> QED
      BY <2>1, <2>4, Vanishes
  <1>8. CASE Gone(s)
    <2>1. ~crossed[s] /\ modules'[s] \in Erased(s, Head(leaving[s])) /\ leaving[s] # <<>>
      BY <1>8 DEF Gone
    <2>2. modules'[s] = {r \in modules[s] : r.id # Head(leaving[s])}
      BY <2>1, ErasedObject
    <2>3. Head(leaving[s]) = leaving[s][1] /\ 1 \in DOMAIN leaving[s]
      BY <2>1, ObjectTypes, OneLess
    <2>4. Head(leaving[s]) \in DestroyedIds(s)
      BY <2>3 DEF ObjectInv, KnownEnds, Ending
    <2> QED
      BY <1>8, <2>2, <2>4, Silent DEF Gone
  <1> QED
    BY <1>1, <1>2, <1>3, <1>4, <1>5, <1>6, <1>7, <1>8 DEF ObjectStep

\* What a script sees of a server (objects that appear under new names and with
\* new ids, are announced while they live, and go with one callback each) is
\* what PyConnectRegistry promises: every step of the session after which no
\* disconnect has overlapped a handler is a step of it, or leaves it alone.
THEOREM SessionImplementsRegistry == Spec => RegistryImplemented
  <1>1. Init => \A s \in Servers : Registry(s)!Init
    <2> SUFFICES ASSUME Init, NEW s \in Servers
                 PROVE  Registry(s)!Init
      OBVIOUS
    <2>1. Live(s) = {} /\ notices[s] = <<>>
      BY DEF Init, Live
    <2>2. Used(s) = {}
      BY ConstantsAssumption DEF Init, Used, Idle
    <2> QED
      BY <2>1, <2>2 DEF Registry!Init
  <1>2. TypeInv /\ ObjectsInv /\ [Next]_vars =>
          [\A s \in Servers : ~crossed'[s] => RegistryStep(s)]_vars
    <2> SUFFICES ASSUME TypeInv, ObjectsInv, [Next]_vars, NEW s \in Servers, ~crossed'[s]
                 PROVE  RegistryStep(s)
      OBVIOUS
    <2>1. ObjectInv(s) /\ ObjectStep(s)
      BY ObjectSteps DEF ObjectsInv
    <2> QED
      BY <2>1, RegistryStepProved
  <1> QED
    BY <1>1, <1>2, ObjectsAlways, PTL DEF Spec, RegistryImplemented
=============================================================================
