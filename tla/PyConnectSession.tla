-------------------------- MODULE PyConnectSession --------------------------
(***************************************************************************)
(* The life of the association between PyConnect servers (the Python       *)
(* extension module, PyConnectStub) and PyConnect modules (the wrapped C++ *)
(* programs, PyConnectWrapper): discovery and declaration, connections,    *)
(* id assignment, exposure, calls, attribute updates, shutdown, crashes.   *)
(*                                                                         *)
(* A server runs two threads that share objCommMap_ and activeCommChannel_:*)
(* the IO thread (PyConnectNetComm::processIncomingData) and the Python    *)
(* thread, which calls PyConnect.discover/connect/disconnect and methods.  *)
(* A module is one single-threaded select loop.  Connections are FIFO in   *)
(* both directions, UDP datagrams are unordered and may be lost, and any   *)
(* process may die at any time.                                            *)
(***************************************************************************)
EXTENDS Integers, Sequences, FiniteSets, SequencesExt

CONSTANTS
    Servers,      \* processes that imported the PyConnect extension
    Modules,      \* processes that linked the wrapper library
    ServerID,     \* [Servers -> 0..15], the low bits of a server's address
    Name,         \* [Modules -> names], the class name a module declares
    FirstId,      \* nextObjId_ of a new server (1), more after earlier modules
    MaxModuleId,  \* the highest id addNewModule hands out (0xff)
    IdMask,       \* ids in messages to the server are taken modulo this (0x10)
    Transports,   \* subset of {"net", "ipc"} that the modules enable
    Ops,          \* the kinds of external operation a run explores
    MaxOps,       \* bound: external operations in a behaviour
    MaxConns      \* bound: connections ever opened in a behaviour

OpKinds == {"start", "crash", "shutdown", "srvcrash", "srvstart", "discover",
            "connect", "disconnect", "call", "update"}

ASSUME ConstantsAssumption ==
    /\ IsFiniteSet(Servers) /\ IsFiniteSet(Modules)
    /\ ServerID \in [Servers -> 0..15]
    /\ DOMAIN Name = Modules
    /\ FirstId \in Nat /\ MaxModuleId \in Nat /\ FirstId >= 1
    /\ FirstId <= MaxModuleId + 1 /\ MaxModuleId <= 255
    /\ IdMask \in Nat \ {0}
    /\ Transports \subseteq {"net", "ipc"} /\ Ops \subseteq OpKinds
    /\ MaxOps \in Nat /\ MaxConns \in Nat

VARIABLES
    \* the server process
    sUp,          \* is the process running
    modules,      \* PyConnectStub::modules_
    nextObjId,    \* PyConnectStub::nextObjId_
    notices,      \* history: the onModuleCreated/onModuleDestroyed callbacks
    sMap,         \* the server's objCommMap_, module id -> connection
    sActive,      \* the server's activeCommChannel_
    ioTask,       \* what the IO thread has read and not yet processed
    main,         \* the Python thread: "idle", or inside PyConnect.connect
    work,         \* the object the IO thread has found and works on
    leaving,      \* the ids PyConnect.disconnect is ending, callback not returned
    crossed,      \* history: has a disconnect overlapped a handler's work
    \* the module process
    up,           \* is the process running
    serverMap,    \* PyConnectWrapper::serverMap_, server id -> assigned id
    mMap,         \* the module's objCommMap_, server id -> connection
    mActive,      \* the module's activeCommChannel_
    modTask,      \* what the select loop has read and not yet processed
    executed,     \* history: the names of the objects whose calls it executed
    \* the network and the bounds
    conn,         \* the connections opened so far, in order
    udp,          \* the datagrams in flight
    ops           \* external operations so far

handlerVars  == <<work, leaving, crossed>>
registryVars == <<modules, nextObjId, notices, handlerVars>>
srvCommVars  == <<sMap, sActive>>
modCommVars  == <<serverMap, mMap, mActive, modTask>>
vars == <<sUp, modules, nextObjId, notices, work, leaving, crossed, sMap, sActive,
          ioTask, main, up, serverMap, mMap, mActive, modTask, executed, conn,
          udp, ops>>

-----------------------------------------------------------------------------
(* Data *)

NoConn     == 0     \* INVALID_SOCKET
Unassigned == -1    \* ServerInfo.assignedModuleID before MODULE_ASSIGN_ID
Names      == {Name[m] : m \in Modules}
ByteUntruncated(i) == i   \* fault: an id is sent without the cast to char
Byte(i)    == i % 256
Bytes      == 0..255
Ids        == FirstId..MaxModuleId
ServerIDs  == 0..15

\* Messages.  "sid" is the low nibble of the header and "id" the byte after it.
\* "from" is the sender of a module's message and "name" the object a server
\* means; only MODULE_DECLARE and MODULE_ASSIGN_ID carry a name on the wire,
\* elsewhere these two fields are read by properties only.
Discovery(s)      == [type |-> "MODULE_DISCOVERY", sid |-> ServerID[s]]
Declare(m)        == [type |-> "MODULE_DECLARE", from |-> m]
AssignId(s, i, n) == [type |-> "MODULE_ASSIGN_ID", sid |-> ServerID[s],
                      id |-> Byte(i), name |-> n]
ServerShutdown(s, i) == [type |-> "SERVER_SHUTDOWN", sid |-> ServerID[s],
                         id |-> Byte(i)]
Call(s, i, n)     == [type |-> "CALL_ATTR_METD", sid |-> ServerID[s],
                      id |-> Byte(i), name |-> n]
FromModule(t, m, i) == [type |-> t, id |-> Byte(i), from |-> m]

SrvMsg == [type : {"MODULE_DECLARE"}, from : Modules]
            \cup [type : {"MODULE_SHUTDOWN", "ATTR_METD_EXPOSE",
                          "ATTR_METD_DESC", "ATTR_METD_RESP",
                          "ATTR_VALUE_UPDATE"}, id : Bytes, from : Modules]
ModMsg == [type : {"MODULE_DISCOVERY"}, sid : ServerIDs]
            \cup [type : {"SERVER_SHUTDOWN"}, sid : ServerIDs, id : Ids]
            \cup [type : {"MODULE_ASSIGN_ID", "CALL_ATTR_METD"},
                  sid : ServerIDs, id : Ids, name : Names]
Datagram == [type : {"MODULE_DISCOVERY", "MODULE_DECLARE"},
             srv : Servers, mod : Modules]

\* An entry of modules_.  "proc" and "heard" are read by properties only: the
\* process that declared it and those whose messages were applied to it.
ModuleRec == [id : Ids, name : Names, proc : Modules, exposed : Nat,
              described : BOOLEAN, heard : SUBSET Modules]
Notice    == [what : {"onModuleCreated", "onModuleDestroyed"}, id : Ids]

\* What the IO thread has found and is not done with: an object, by its id, for
\* the first message of its task or for the end of a stream ("eof").
NoWork      == [at |-> "none", id |-> 0, eof |-> NoConn]
Found(i, c) == [at |-> "found", id |-> i, eof |-> c]
Work == {NoWork} \cup [at : {"found", "notified", "erased"}, id : Ids, eof : Nat]

EndState == {"backlog", "open", "closed"}
Conn == [srv : Servers, mod : Modules, by : {"srv", "mod"},
         via : {"net", "ipc"}, sEnd : EndState, mEnd : EndState,
         toSrv : Seq(SrvMsg), toMod : Seq(ModMsg)]

\* std::map: set a key, erase a key, and the first key mapped to c if any.
Put(f, k, v) == [x \in DOMAIN f \cup {k} |-> IF x = k THEN v ELSE f[x]]
Del(f, k)    == [x \in DOMAIN f \ {k} |-> f[x]]
Empty        == [x \in {} |-> 0]
KeysOf(f, c) == {k \in DOMAIN f : f[k] = c}
FirstKey(f, c) == CHOOSE k \in KeysOf(f, c) : \A j \in KeysOf(f, c) : k <= j

\* A thread that has read messages "buf" off connection "conn" (or off the UDP
\* socket, after opening "conn") and has not yet processed them; the IO thread
\* is "assigning" when addNewModule is between its two halves.
Idle == [conn |-> NoConn, buf |-> <<>>, udp |-> FALSE, assigning |-> FALSE]
Reading(c, msgs) == [conn |-> c, buf |-> msgs, udp |-> FALSE, assigning |-> FALSE]
Rest(task) == IF Len(task.buf) <= 1 THEN Idle
                                    ELSE [task EXCEPT !.buf = Tail(@), !.assigning = FALSE]

\* write() on a descriptor: lost when either end is closed.
SrvWrite(cs, c, msg) ==
    IF c # NoConn /\ cs[c].sEnd = "open" /\ cs[c].mEnd # "closed"
    THEN [cs EXCEPT ![c].toMod = Append(@, msg)] ELSE cs
ModCanWrite(cs, c) == c # NoConn /\ cs[c].mEnd = "open" /\ cs[c].sEnd # "closed"
ModWrite(cs, c, msg) ==
    IF ModCanWrite(cs, c) THEN [cs EXCEPT ![c].toSrv = Append(@, msg)] ELSE cs
\* The loops over serverMap_ that send one message per server.
ModWriteAll(cs, m, type) ==
    [c \in DOMAIN cs |->
        LET sids == KeysOf(mMap[m], c) \cap DOMAIN serverMap[m]
            id   == serverMap[m][CHOOSE k \in sids : TRUE]
        IN IF sids # {} /\ ModCanWrite(cs, c)
           THEN [cs[c] EXCEPT !.toSrv = Append(@, FromModule(type, m, id))]
           ELSE cs[c]]

\* close(): what was on its way to the closed end is gone.
CloseSrv(cs, C) == [c \in DOMAIN cs |-> IF c \in C
    THEN [cs[c] EXCEPT !.sEnd = "closed", !.toSrv = <<>>] ELSE cs[c]]
CloseMod(cs, C) == [c \in DOMAIN cs |-> IF c \in C
    THEN [cs[c] EXCEPT !.mEnd = "closed", !.toMod = <<>>] ELSE cs[c]]

\* A connection just made by connect(): the other end waits in the backlog.
OpenConn(s, m, by, via) ==
    [srv |-> s, mod |-> m, by |-> by, via |-> via,
     sEnd |-> IF by = "srv" THEN "open" ELSE "backlog",
     mEnd |-> IF by = "mod" THEN "open" ELSE "backlog",
     toSrv |-> <<>>, toMod |-> <<>>]
Room(n) == Len(conn) + n <= MaxConns

Op(kind) == kind \in Ops /\ ops < MaxOps /\ ops' = ops + 1

-----------------------------------------------------------------------------
(* The server's IO thread: PyConnectNetComm and PyConnectStub::processInput *)

SrvMsgIs(s, types) == /\ ioTask[s].buf # <<>> /\ ~ioTask[s].assigning
                      /\ Head(ioTask[s].buf).type \in types
\* The Python thread keeps the GIL for the whole of PyConnect.connect.
GILFree(s) == main[s] = "idle"
\* The object a message to the server names: the byte is masked first.
Named(s, byte) == {r \in modules[s] : r.id = byte % IdMask}

\* invokeCallback
Callback(s, what, i) ==
    notices' = [notices EXCEPT ![s] = Append(@, [what |-> what, id |-> i])]
\* Fault: the entry stays in modules_.
EraseNothing(s, i) == {modules[s]}
\* What modules_.erase leaves.  Its iterator was taken before the callback: once
\* another erasure or push_back can have come between, it is undefined which
\* entry goes, if one does.
Erased(s, i) ==
    IF crossed[s] THEN {modules[s] \ R : R \in {{}} \cup {{r} : r \in modules[s]}}
                  ELSE {{r \in modules[s] : r.id # i}}

SrvAccept(s, c) ==
    /\ sUp[s] /\ ioTask[s] = Idle /\ work[s] = NoWork
    /\ conn[c].srv = s /\ conn[c].sEnd = "backlog"
    /\ conn' = [conn EXCEPT ![c].sEnd = "open"]
    /\ sActive' = [sActive EXCEPT ![s] = c]
    /\ UNCHANGED <<sUp, registryVars, sMap, ioTask, main, up, modCommVars,
                   executed, udp, ops>>

\* Fault: a read that does not make its descriptor the last used channel.
ReadWithoutActive(s, c, n) ==
    /\ sUp[s] /\ ioTask[s] = Idle /\ work[s] = NoWork
    /\ conn[c].srv = s /\ conn[c].sEnd = "open" /\ n <= Len(conn[c].toSrv)
    /\ ioTask' = [ioTask EXCEPT ![s] = Reading(c, SubSeq(conn[c].toSrv, 1, n))]
    /\ conn' = [conn EXCEPT ![c].toSrv = SubSeq(@, n + 1, Len(@))]
    /\ UNCHANGED <<sUp, registryVars, srvCommVars, main, up, modCommVars,
                   executed, udp, ops>>

\* One read() returns the messages that have arrived, at least one.
SrvRead(s, c, n) ==
    /\ sUp[s] /\ ioTask[s] = Idle /\ work[s] = NoWork
    /\ conn[c].srv = s /\ conn[c].sEnd = "open" /\ n <= Len(conn[c].toSrv)
    /\ ioTask' = [ioTask EXCEPT ![s] = Reading(c, SubSeq(conn[c].toSrv, 1, n))]
    /\ conn' = [conn EXCEPT ![c].toSrv = SubSeq(@, n + 1, Len(@))]
    /\ sActive' = [sActive EXCEPT ![s] = c]
    /\ UNCHANGED <<sUp, registryVars, sMap, main, up, modCommVars, executed,
                   udp, ops>>

\* Fault: the end of a stream forgets the mapping without a MODULE_SHUTDOWN.
EofWithoutMessage(s, c) ==
    /\ sUp[s] /\ ioTask[s] = Idle /\ work[s] = NoWork
    /\ conn[c].srv = s /\ conn[c].sEnd = "open"
    /\ conn[c].toSrv = <<>> /\ conn[c].mEnd = "closed"
    /\ conn' = CloseSrv(conn, {c})
    /\ sMap' = IF KeysOf(sMap[s], c) = {} THEN sMap
               ELSE [sMap EXCEPT ![s] = Del(@, FirstKey(@, c))]
    /\ UNCHANGED <<sUp, registryVars, sActive, ioTask, main, up, modCommVars,
                   executed, udp, ops>>

\* The object of the first id that is mapped to the channel c.
LostWith(s, c) == IF KeysOf(sMap[s], c) = {} THEN {}
                  ELSE Named(s, FirstKey(sMap[s], c))

\* End of stream: objCommChannelShutdown(fd, true) makes an artificial
\* MODULE_SHUTDOWN for that id; the object is found.
FindAtEof(s, c) ==
    /\ sUp[s] /\ ioTask[s] = Idle /\ work[s] = NoWork
    /\ conn[c].srv = s /\ conn[c].sEnd = "open"
    /\ conn[c].toSrv = <<>> /\ conn[c].mEnd = "closed"
    /\ \E r \in LostWith(s, c) : work' = [work EXCEPT ![s] = Found(r.id, c)]
    /\ crossed' = [crossed EXCEPT ![s] = @ \/ leaving[s] # <<>>]
    /\ UNCHANGED <<sUp, modules, nextObjId, notices, leaving, srvCommVars, ioTask,
                   main, up, modCommVars, executed, conn, udp, ops>>

\* There is no such object, or it is gone by now: the id is unmapped and the
\* descriptor closed.
SrvEof(s, c) ==
    /\ sUp[s] /\ ioTask[s] = Idle
    /\ conn[c].srv = s /\ conn[c].sEnd = "open"
    /\ conn[c].toSrv = <<>> /\ conn[c].mEnd = "closed"
    /\ \/ work[s] = NoWork /\ LostWith(s, c) = {}
       \/ work[s].at = "erased" /\ work[s].eof = c
    /\ conn' = CloseSrv(conn, {c})
    /\ sMap' = IF KeysOf(sMap[s], c) = {} THEN sMap
               ELSE [sMap EXCEPT ![s] = Del(@, FirstKey(@, c))]
    /\ work' = [work EXCEPT ![s] = NoWork]
    /\ UNCHANGED <<sUp, modules, nextObjId, notices, leaving, crossed, sActive,
                   ioTask, main, up, modCommVars, executed, udp, ops>>

\* processUDPInput: a declaration makes the server connect to the module.
SrvUdpDeclare(s, m) ==
    /\ sUp[s] /\ ioTask[s] = Idle /\ work[s] = NoWork
    /\ \E d \in udp : /\ d.type = "MODULE_DECLARE" /\ d.srv = s /\ d.mod = m
                      /\ udp' = udp \ {d}
    /\ IF up[m]
       THEN /\ Room(1)
            /\ conn' = Append(conn, OpenConn(s, m, "srv", "net"))
            /\ sActive' = [sActive EXCEPT ![s] = Len(conn) + 1]
            /\ ioTask' = [ioTask EXCEPT ![s] =
                 [Reading(Len(conn) + 1, <<Declare(m)>>) EXCEPT !.udp = TRUE]]
       ELSE UNCHANGED <<conn, sActive, ioTask>>
    /\ UNCHANGED <<sUp, registryVars, sMap, main, up, modCommVars, executed, ops>>

\* Fault: findModuleByName is not asked first.
DeclareWithoutNameCheck(s) ==
    /\ SrvMsgIs(s, {"MODULE_DECLARE"}) /\ GILFree(s)
    /\ LET m == Head(ioTask[s].buf).from IN
       modules' = [modules EXCEPT ![s] = @ \cup
         {[id |-> nextObjId[s], name |-> Name[m], proc |-> m, exposed |-> 0,
           described |-> FALSE, heard |-> {}]}]
    /\ ioTask' = [ioTask EXCEPT ![s].assigning = TRUE]
    /\ UNCHANGED <<sUp, nextObjId, notices, handlerVars, srvCommVars, main, up,
                   modCommVars, executed, conn, udp, ops>>

\* MODULE_DECLARE of a new name: addNewModule makes the object while it holds
\* the GIL; its push_back may move the entries a disconnect has an iterator to.
HandleDeclareNew(s) ==
    /\ SrvMsgIs(s, {"MODULE_DECLARE"})
    /\ LET m == Head(ioTask[s].buf).from
           i == nextObjId[s]
       IN /\ \A r \in modules[s] : r.name # Name[m]
          /\ IF i > MaxModuleId
             THEN /\ ioTask' = [ioTask EXCEPT ![s] = Rest(@)]
                  /\ UNCHANGED <<modules, crossed>>
             ELSE /\ GILFree(s)
                  /\ modules' = [modules EXCEPT ![s] = @ \cup
                       {[id |-> i, name |-> Name[m], proc |-> m, exposed |-> 0,
                         described |-> FALSE, heard |-> {}]}]
                  /\ ioTask' = [ioTask EXCEPT ![s].assigning = TRUE]
                  /\ crossed' = [crossed EXCEPT ![s] = @ \/ leaving[s] # <<>>]
    /\ UNCHANGED <<sUp, nextObjId, notices, work, leaving, srvCommVars, main, up,
                   modCommVars, executed, conn, udp, ops>>

\* Fault: the id is assigned and nextObjId_ stays, or the channel it went out
\* on is not mapped.
AssignWithoutIncrement(s) ==
    /\ ioTask[s].assigning
    /\ conn' = SrvWrite(conn, sActive[s],
                   AssignId(s, nextObjId[s], Name[Head(ioTask[s].buf).from]))
    /\ sMap' = IF sActive[s] = NoConn THEN sMap
               ELSE [sMap EXCEPT ![s] = Put(@, nextObjId[s], sActive[s])]
    /\ sActive' = [sActive EXCEPT ![s] = NoConn]
    /\ ioTask' = [ioTask EXCEPT ![s] = Rest(@)]
    /\ UNCHANGED <<sUp, registryVars, main, up, modCommVars, executed, udp, ops>>
AssignWithoutMapping(s) ==
    /\ ioTask[s].assigning
    /\ nextObjId' = [nextObjId EXCEPT ![s] = @ + 1]
    /\ conn' = SrvWrite(conn, sActive[s],
                   AssignId(s, nextObjId[s], Name[Head(ioTask[s].buf).from]))
    /\ sActive' = [sActive EXCEPT ![s] = NoConn]
    /\ ioTask' = [ioTask EXCEPT ![s] = Rest(@)]
    /\ UNCHANGED <<sUp, modules, notices, handlerVars, sMap, main, up, modCommVars,
                   executed, udp, ops>>

\* After the GIL is released: assignModuleID(name, nextObjId_++), through the
\* last used channel, whichever that is by now.
AssignModuleID(s) ==
    /\ ioTask[s].assigning
    /\ LET i == nextObjId[s]
           c == sActive[s]
       IN /\ nextObjId' = [nextObjId EXCEPT ![s] = i + 1]
          /\ conn' = SrvWrite(conn, c, AssignId(s, i, Name[Head(ioTask[s].buf).from]))
          /\ sMap' = IF c = NoConn THEN sMap ELSE [sMap EXCEPT ![s] = Put(@, i, c)]
          /\ sActive' = [sActive EXCEPT ![s] = NoConn]
    /\ ioTask' = [ioTask EXCEPT ![s] = Rest(@)]
    /\ UNCHANGED <<sUp, modules, notices, handlerVars, main, up, modCommVars,
                   executed, udp, ops>>

\* Fault: any registered module counts as the same name.
DuplicateOfAny(s) ==
    /\ SrvMsgIs(s, {"MODULE_DECLARE"}) /\ modules[s] # {}
    /\ ioTask' = [ioTask EXCEPT ![s] = Rest(@)]
    /\ UNCHANGED <<sUp, registryVars, srvCommVars, main, up, modCommVars,
                   executed, conn, udp, ops>>
\* Fault: a module that declares itself again is sent its id again.
DuplicateAssignedAgain(s) ==
    /\ SrvMsgIs(s, {"MODULE_DECLARE"})
    /\ \E r \in modules[s] :
          /\ r.name = Name[Head(ioTask[s].buf).from]
          /\ conn' = SrvWrite(conn, sActive[s], AssignId(s, r.id, r.name))
    /\ ioTask' = [ioTask EXCEPT ![s] = Rest(@)]
    /\ UNCHANGED <<sUp, registryVars, srvCommVars, main, up, modCommVars,
                   executed, udp, ops>>

\* MODULE_DECLARE of a name that is registered: MESG_TO_SHUTDOWN.  Only
\* processUDPInput acts on it, by closing the last used channel; the stream
\* loop never assigns procResult and goes on.
HandleDeclareDuplicate(s) ==
    /\ SrvMsgIs(s, {"MODULE_DECLARE"})
    /\ \E r \in modules[s] : r.name = Name[Head(ioTask[s].buf).from]
    /\ ioTask' = [ioTask EXCEPT ![s] = Rest(@)]
    /\ IF ioTask[s].udp
       THEN LET c == sActive[s] IN
            /\ sActive' = [sActive EXCEPT ![s] = NoConn]
            /\ sMap' = IF KeysOf(sMap[s], c) = {} THEN sMap
                       ELSE [sMap EXCEPT ![s] = Del(@, FirstKey(@, c))]
            /\ conn' = CloseSrv(conn, {c})
       ELSE UNCHANGED <<srvCommVars, conn>>
    /\ UNCHANGED <<sUp, registryVars, main, up, modCommVars, executed, udp, ops>>

\* deleteModuleByID and findModuleByID look for the object of a message while
\* the IO thread does not hold the GIL.
Reports == {"MODULE_SHUTDOWN", "ATTR_METD_EXPOSE", "ATTR_METD_DESC",
            "ATTR_METD_RESP", "ATTR_VALUE_UPDATE"}
Find(s) ==
    /\ SrvMsgIs(s, Reports) /\ work[s] = NoWork
    /\ \E r \in Named(s, Head(ioTask[s].buf).id) :
          work' = [work EXCEPT ![s] = Found(r.id, NoConn)]
    /\ crossed' = [crossed EXCEPT ![s] = @ \/ leaving[s] # <<>>]
    /\ UNCHANGED <<sUp, modules, nextObjId, notices, leaving, srvCommVars, ioTask,
                   main, up, modCommVars, executed, conn, udp, ops>>
FindsNothing(s) == work[s] = NoWork /\ Named(s, Head(ioTask[s].buf).id) = {}

\* deleteModuleByID, once it has the GIL: the callback runs while the object is
\* in modules_, and lets other threads have the GIL.
NotifyDestroyed(s) ==
    /\ work[s].at = "found" /\ GILFree(s)
    /\ work[s].eof # NoConn \/ SrvMsgIs(s, {"MODULE_SHUTDOWN"})
    /\ Callback(s, "onModuleDestroyed", work[s].id)
    /\ work' = [work EXCEPT ![s].at = "notified"]
    /\ UNCHANGED <<sUp, modules, nextObjId, leaving, crossed, srvCommVars, ioTask,
                   main, up, modCommVars, executed, conn, udp, ops>>

\* deleteModuleByID after the callback, for the end of a stream.
EraseAtEof(s) ==
    /\ work[s].at = "notified" /\ work[s].eof # NoConn /\ GILFree(s)
    /\ \E R \in Erased(s, work[s].id) : modules' = [modules EXCEPT ![s] = R]
    /\ work' = [work EXCEPT ![s].at = "erased"]
    /\ UNCHANGED <<sUp, nextObjId, notices, leaving, crossed, srvCommVars, ioTask,
                   main, up, modCommVars, executed, conn, udp, ops>>

\* MODULE_SHUTDOWN: after the callback the object is erased and the connection
\* is left as it is.
HandleModuleShutdown(s) ==
    /\ SrvMsgIs(s, {"MODULE_SHUTDOWN"})
    /\ \/ FindsNothing(s) /\ UNCHANGED modules
       \/ /\ work[s].at = "notified" /\ GILFree(s)
          /\ \E R \in Erased(s, work[s].id) : modules' = [modules EXCEPT ![s] = R]
    /\ ioTask' = [ioTask EXCEPT ![s] = Rest(@)]
    /\ work' = [work EXCEPT ![s] = NoWork]
    /\ UNCHANGED <<sUp, nextObjId, notices, leaving, crossed, srvCommVars, main, up,
                   modCommVars, executed, conn, udp, ops>>

\* What a message does to the object it is applied to.
Applied(r, msg) ==
    [r EXCEPT !.exposed   = IF msg.type = "ATTR_METD_EXPOSE" THEN @ + 1 ELSE @,
              !.described = @ \/ msg.type = "ATTR_METD_DESC",
              !.heard     = @ \cup {msg.from}]

\* The messages that are applied to the object that was found, if any.  It may
\* have left modules_ since; the exposure is announced all the same.
SrvApply(s, types) ==
    /\ SrvMsgIs(s, types)
    /\ \/ FindsNothing(s) /\ UNCHANGED <<modules, notices>>
       \/ /\ work[s].at = "found" /\ GILFree(s)
          /\ modules' = [modules EXCEPT ![s] =
               {IF r.id = work[s].id THEN Applied(r, Head(ioTask[s].buf)) ELSE r :
                    r \in @}]
          /\ IF Head(ioTask[s].buf).type = "ATTR_METD_EXPOSE"
             THEN Callback(s, "onModuleCreated", work[s].id) ELSE UNCHANGED notices
    /\ ioTask' = [ioTask EXCEPT ![s] = Rest(@)]
    /\ work' = [work EXCEPT ![s] = NoWork]
    /\ UNCHANGED <<sUp, nextObjId, leaving, crossed, srvCommVars, main, up,
                   modCommVars, executed, conn, udp, ops>>

HandleExpose(s) == SrvApply(s, {"ATTR_METD_EXPOSE"})
HandleDesc(s)   == SrvApply(s, {"ATTR_METD_DESC"})
HandleValue(s)  == SrvApply(s, {"ATTR_VALUE_UPDATE", "ATTR_METD_RESP"})

-----------------------------------------------------------------------------
(* The server's Python thread *)

\* PyConnect.discover(): a broadcast, and over IPC a message to every module
\* that listens, on the connection this server made to it, or a new one.
Talkers(s) == {c \in DOMAIN conn : conn[c].srv = s /\ conn[c].by = "srv"
                 /\ conn[c].via = "ipc" /\ conn[c].sEnd = "open"
                 /\ conn[c].mEnd # "closed"}
Discover(s) ==
    /\ sUp[s] /\ main[s] = "idle" /\ Op("discover")
    /\ IF "net" \notin Transports THEN UNCHANGED udp
       ELSE \E M \in SUBSET Modules : udp' = udp \cup
              {[type |-> "MODULE_DISCOVERY", srv |-> s, mod |-> m] : m \in M}
    /\ LET live == {m \in Modules : "ipc" \in Transports /\ up[m]}
           new  == SetToSeq(live \ {conn[c].mod : c \in Talkers(s)})
           all  == conn \o [k \in DOMAIN new |-> OpenConn(s, new[k], "srv", "ipc")]
           used == Talkers(s) \cup (Len(conn) + 1..Len(all))
       IN /\ Room(Len(new))
          /\ conn' = [c \in DOMAIN all |-> IF c \in used
               THEN [all[c] EXCEPT !.toMod = Append(@, Discovery(s))] ELSE all[c]]
          /\ IF used = {} THEN UNCHANGED sActive
             ELSE \E c \in used : sActive' = [sActive EXCEPT ![s] = c]
    /\ UNCHANGED <<sUp, registryVars, sMap, ioTask, main, up, modCommVars, executed>>

\* PyConnect.connect(): createTalker makes the new connection the last used
\* one and lets go of g_mutex; sendDiscoveryMsg takes it again.
Connect(s, m) ==
    /\ sUp[s] /\ main[s] = "idle" /\ Op("connect")
    /\ "net" \in Transports /\ up[m] /\ Room(1)
    /\ conn' = Append(conn, OpenConn(s, m, "srv", "net"))
    /\ sActive' = [sActive EXCEPT ![s] = Len(conn) + 1]
    /\ main' = [main EXCEPT ![s] = "connecting"]
    /\ UNCHANGED <<sUp, registryVars, sMap, ioTask, up, modCommVars, executed, udp>>
SendDiscovery(s) ==
    /\ sUp[s] /\ main[s] = "connecting"
    /\ conn' = SrvWrite(conn, sActive[s], Discovery(s))
    /\ sActive' = [sActive EXCEPT ![s] = NoConn]
    /\ main' = [main EXCEPT ![s] = "idle"]
    /\ UNCHANGED <<sUp, registryVars, sMap, ioTask, up, modCommVars, executed,
                   udp, ops>>

ChannelOf(s, i) == IF i \in DOMAIN sMap[s] THEN sMap[s][i] ELSE NoConn

\* PyConnect.disconnect(): shutdownModuleByRef tells the module and the script;
\* the callback may call PyConnect again, and other threads run meanwhile.
Disconnect(s, r) ==
    /\ sUp[s] /\ main[s] = "idle" /\ Op("disconnect")
    /\ conn' = SrvWrite(conn, ChannelOf(s, r.id), ServerShutdown(s, r.id))
    /\ Callback(s, "onModuleDestroyed", r.id)
    /\ leaving' = [leaving EXCEPT ![s] = Append(@, r.id)]
    /\ crossed' = [crossed EXCEPT ![s] = @ \/ leaving[s] # <<>>
                                         \/ work[s].at \in {"found", "notified"}]
    /\ UNCHANGED <<sUp, modules, nextObjId, work, srvCommVars, ioTask, main, up,
                   modCommVars, executed, udp>>
\* The callback has returned: the object is erased.
EndDisconnect(s) ==
    /\ leaving[s] # <<>> /\ GILFree(s)
    /\ \E R \in Erased(s, Head(leaving[s])) : modules' = [modules EXCEPT ![s] = R]
    /\ leaving' = [leaving EXCEPT ![s] = Tail(@)]
    /\ UNCHANGED <<sUp, nextObjId, notices, work, crossed, srvCommVars, ioTask, main,
                   up, modCommVars, executed, conn, udp, ops>>

\* A method call or an attribute assignment: remoteAttrMethodCall.
CallRemote(s, r) ==
    /\ sUp[s] /\ main[s] = "idle" /\ Op("call")
    /\ conn' = SrvWrite(conn, ChannelOf(s, r.id), Call(s, r.id, r.name))
    /\ UNCHANGED <<sUp, registryVars, srvCommVars, ioTask, main, up, modCommVars,
                   executed, udp>>

-----------------------------------------------------------------------------
(* The module: PyConnectNetComm and PyConnectWrapper::processInput *)

ModMsgIs(m, type) == modTask[m].buf # <<>> /\ Head(modTask[m].buf).type = type
ModChannel(m, k)  == IF k \in DOMAIN mMap[m] THEN mMap[m][k] ELSE NoConn

ModAccept(m, c) ==
    /\ up[m] /\ modTask[m] = Idle
    /\ conn[c].mod = m /\ conn[c].mEnd = "backlog"
    /\ conn' = [conn EXCEPT ![c].mEnd = "open"]
    /\ mActive' = [mActive EXCEPT ![m] = c]
    /\ UNCHANGED <<sUp, registryVars, srvCommVars, ioTask, main, up, serverMap,
                   mMap, modTask, executed, udp, ops>>

ModRead(m, c, n) ==
    /\ up[m] /\ modTask[m] = Idle
    /\ conn[c].mod = m /\ conn[c].mEnd = "open" /\ n <= Len(conn[c].toMod)
    /\ modTask' = [modTask EXCEPT ![m] = Reading(c, SubSeq(conn[c].toMod, 1, n))]
    /\ conn' = [conn EXCEPT ![c].toMod = SubSeq(@, n + 1, Len(@))]
    /\ mActive' = [mActive EXCEPT ![m] = c]
    /\ UNCHANGED <<sUp, registryVars, srvCommVars, ioTask, main, up, serverMap,
                   mMap, executed, udp, ops>>

\* Fault: the end of a stream closes the descriptor and tells nobody.
ModEofWithoutMessage(m, c) ==
    /\ up[m] /\ modTask[m] = Idle
    /\ conn[c].mod = m /\ conn[c].mEnd = "open"
    /\ conn[c].toMod = <<>> /\ conn[c].sEnd = "closed"
    /\ conn' = CloseMod(conn, {c})
    /\ UNCHANGED <<sUp, registryVars, srvCommVars, ioTask, main, up, serverMap,
                   mMap, mActive, modTask, executed, udp, ops>>

\* End of stream: an artificial SERVER_SHUTDOWN for the server mapped to the
\* channel, then that mapping is erased.
ModEof(m, c) ==
    /\ up[m] /\ modTask[m] = Idle
    /\ conn[c].mod = m /\ conn[c].mEnd = "open"
    /\ conn[c].toMod = <<>> /\ conn[c].sEnd = "closed"
    /\ conn' = CloseMod(conn, {c})
    /\ IF KeysOf(mMap[m], c) = {} THEN UNCHANGED <<serverMap, mMap>>
       ELSE LET k == FirstKey(mMap[m], c) IN
            /\ serverMap' = [serverMap EXCEPT ![m] = Del(@, k)]
            /\ mMap' = [mMap EXCEPT ![m] = Del(@, k)]
    /\ UNCHANGED <<sUp, registryVars, srvCommVars, ioTask, main, up, mActive,
                   modTask, executed, udp, ops>>

\* processUDPInput: the module connects to the server that asks, declares
\* itself there if it does not know the server, and hangs up if it does.
ModUdpDiscovery(m, s) ==
    /\ up[m] /\ modTask[m] = Idle
    /\ \E d \in udp : /\ d.type = "MODULE_DISCOVERY" /\ d.srv = s /\ d.mod = m
                      /\ udp' = udp \ {d}
    /\ IF ~sUp[s] THEN UNCHANGED <<serverMap, mMap, mActive, conn>>
       ELSE LET k    == ServerID[s]
                c    == Len(conn) + 1
                cs   == Append(conn, OpenConn(s, m, "mod", "net"))
            IN /\ Room(1)
               /\ mActive' = [mActive EXCEPT ![m] = NoConn]
               /\ IF k \in DOMAIN serverMap[m]
                  THEN conn' = CloseMod(cs, {c}) /\ UNCHANGED <<serverMap, mMap>>
                  ELSE /\ serverMap' = [serverMap EXCEPT ![m] = Put(@, k, Unassigned)]
                       /\ mMap' = [mMap EXCEPT ![m] = Put(@, k, c)]
                       /\ conn' = ModWrite(cs, c, Declare(m))
    /\ UNCHANGED <<sUp, registryVars, srvCommVars, ioTask, main, up, modTask,
                   executed, ops>>

\* MODULE_DISCOVERY on a connection: the declaration goes to the last used
\* channel.  From a known server it is MESG_TO_SHUTDOWN, which nobody reads.
HandleDiscovery(m) ==
    /\ ModMsgIs(m, "MODULE_DISCOVERY")
    /\ LET k == Head(modTask[m].buf).sid IN
       IF k \in DOMAIN serverMap[m] THEN UNCHANGED <<serverMap, mMap, mActive, conn>>
       ELSE /\ serverMap' = [serverMap EXCEPT ![m] = Put(@, k, Unassigned)]
            /\ mMap' = IF mActive[m] = NoConn THEN mMap
                       ELSE [mMap EXCEPT ![m] = Put(@, k, mActive[m])]
            /\ conn' = ModWrite(conn, mActive[m], Declare(m))
            /\ mActive' = [mActive EXCEPT ![m] = NoConn]
    /\ modTask' = [modTask EXCEPT ![m] = Rest(@)]
    /\ UNCHANGED <<sUp, registryVars, srvCommVars, ioTask, main, up, executed,
                   udp, ops>>

\* SERVER_SHUTDOWN: whatever module id it carries, the server is forgotten.
HandleServerShutdown(m) ==
    /\ ModMsgIs(m, "SERVER_SHUTDOWN")
    /\ serverMap' = [serverMap EXCEPT ![m] = Del(@, Head(modTask[m].buf).sid)]
    /\ modTask' = [modTask EXCEPT ![m] = Rest(@)]
    /\ UNCHANGED <<sUp, registryVars, srvCommVars, ioTask, main, up, mMap,
                   mActive, executed, conn, udp, ops>>

\* Fault: the id is taken whatever name it is for.
AssignWithoutNameCheck(m) ==
    /\ ModMsgIs(m, "MODULE_ASSIGN_ID")
    /\ LET msg == Head(modTask[m].buf) IN
       /\ serverMap' = [serverMap EXCEPT ![m] = Put(@, msg.sid, msg.id)]
       /\ mMap' = IF mActive[m] = NoConn THEN mMap
                  ELSE [mMap EXCEPT ![m] = Put(@, msg.sid, mActive[m])]
       /\ conn' = ModWrite(conn, mActive[m],
                           FromModule("ATTR_METD_EXPOSE", m, msg.id))
    /\ mActive' = [mActive EXCEPT ![m] = NoConn]
    /\ modTask' = [modTask EXCEPT ![m] = Rest(@)]
    /\ UNCHANGED <<sUp, registryVars, srvCommVars, ioTask, main, up, executed,
                   udp, ops>>

\* MODULE_ASSIGN_ID: kept if the name is ours; ATTR_METD_EXPOSE goes to the
\* last used channel and maps it, ATTR_METD_DESC to the channel then mapped.
HandleAssignId(m) ==
    /\ ModMsgIs(m, "MODULE_ASSIGN_ID")
    /\ LET msg == Head(modTask[m].buf)
           k   == msg.sid
           map == IF mActive[m] = NoConn THEN mMap[m] ELSE Put(mMap[m], k, mActive[m])
           dst == IF k \in DOMAIN map THEN map[k] ELSE NoConn
       IN IF msg.name # Name[m]
          THEN UNCHANGED <<serverMap, mMap, mActive, conn>>
          ELSE /\ serverMap' = [serverMap EXCEPT ![m] = Put(@, k, msg.id)]
               /\ mMap' = [mMap EXCEPT ![m] = map]
               /\ mActive' = [mActive EXCEPT ![m] = NoConn]
               /\ conn' = ModWrite(ModWrite(conn, mActive[m],
                                            FromModule("ATTR_METD_EXPOSE", m, msg.id)),
                                   dst, FromModule("ATTR_METD_DESC", m, msg.id))
    /\ modTask' = [modTask EXCEPT ![m] = Rest(@)]
    /\ UNCHANGED <<sUp, registryVars, srvCommVars, ioTask, main, up, executed,
                   udp, ops>>

\* Fault: the module id of a call is not compared.
CallWithoutIdCheck(m) ==
    /\ ModMsgIs(m, "CALL_ATTR_METD")
    /\ executed' = [executed EXCEPT ![m] = @ \cup {Head(modTask[m].buf).name}]
    /\ modTask' = [modTask EXCEPT ![m] = Rest(@)]
    /\ UNCHANGED <<sUp, registryVars, srvCommVars, ioTask, main, up, serverMap,
                   mMap, mActive, conn, udp, ops>>

\* CALL_ATTR_METD: executed and answered only under the id this server gave.
HandleCall(m) ==
    /\ ModMsgIs(m, "CALL_ATTR_METD")
    /\ LET msg == Head(modTask[m].buf)
           k   == msg.sid
       IN IF k \in DOMAIN serverMap[m] /\ serverMap[m][k] = msg.id
          THEN /\ executed' = [executed EXCEPT ![m] = @ \cup {msg.name}]
               /\ conn' = ModWrite(conn, ModChannel(m, k),
                                   FromModule("ATTR_METD_RESP", m, msg.id))
          ELSE UNCHANGED <<executed, conn>>
    /\ modTask' = [modTask EXCEPT ![m] = Rest(@)]
    /\ UNCHANGED <<sUp, registryVars, srvCommVars, ioTask, main, up, serverMap,
                   mMap, mActive, udp, ops>>

\* The wrapped program changes an exported attribute: updateAttribute sends to
\* every entry of serverMap_, the ones without an assigned id included.
UpdateAttribute(m) ==
    /\ up[m] /\ modTask[m] = Idle /\ Op("update")
    /\ DOMAIN serverMap[m] # {}
    /\ conn' = ModWriteAll(conn, m, "ATTR_VALUE_UPDATE")
    /\ UNCHANGED <<sUp, registryVars, srvCommVars, ioTask, main, up, modCommVars,
                   executed, udp>>

-----------------------------------------------------------------------------
(* Processes come and go *)

ModMemory(m, alive) ==
    /\ up'        = [up EXCEPT ![m] = alive]
    /\ serverMap' = [serverMap EXCEPT ![m] = Empty]
    /\ mMap'      = [mMap EXCEPT ![m] = Empty]
    /\ modTask'   = [modTask EXCEPT ![m] = Idle]
    /\ executed'  = [executed EXCEPT ![m] = {}]

\* PYCONNECT_MODULE_INIT: the declaration is broadcast, and sent over a new
\* IPC connection to every server on this host.
ModStart(m) ==
    /\ ~up[m] /\ Op("start") /\ ModMemory(m, TRUE)
    /\ IF "net" \notin Transports THEN UNCHANGED udp
       ELSE \E S \in SUBSET Servers : udp' = udp \cup
              {[type |-> "MODULE_DECLARE", srv |-> s, mod |-> m] : s \in S}
    /\ LET new == SetToSeq({s \in Servers : "ipc" \in Transports /\ sUp[s]}) IN
       /\ Room(Len(new))
       /\ conn' = conn \o [k \in DOMAIN new |->
            [OpenConn(new[k], m, "mod", "ipc") EXCEPT !.toSrv = <<Declare(m)>>]]
       /\ IF new = <<>> THEN mActive' = [mActive EXCEPT ![m] = NoConn]
          ELSE \E k \in DOMAIN new : mActive' = [mActive EXCEPT ![m] = Len(conn) + k]
    /\ UNCHANGED <<sUp, registryVars, srvCommVars, ioTask, main>>

ModConns(m) == {c \in DOMAIN conn : conn[c].mod = m}
ModCrash(m) ==
    /\ up[m] /\ Op("crash") /\ ModMemory(m, FALSE)
    /\ mActive' = [mActive EXCEPT ![m] = NoConn]
    /\ conn' = CloseMod(conn, ModConns(m))
    /\ UNCHANGED <<sUp, registryVars, srvCommVars, ioTask, main, udp>>

\* PYCONNECT_MODULE_FINI, PYCONNECT_NETCOMM_FINI and the end of the program.
ModShutdown(m) ==
    /\ up[m] /\ modTask[m] = Idle /\ Op("shutdown") /\ ModMemory(m, FALSE)
    /\ mActive' = [mActive EXCEPT ![m] = NoConn]
    /\ conn' = CloseMod(ModWriteAll(conn, m, "MODULE_SHUTDOWN"), ModConns(m))
    /\ UNCHANGED <<sUp, registryVars, srvCommVars, ioTask, main, udp>>

SrvMemory(s, alive) ==
    /\ sUp'       = [sUp EXCEPT ![s] = alive]
    /\ modules'   = [modules EXCEPT ![s] = {}]
    /\ nextObjId' = [nextObjId EXCEPT ![s] = FirstId]
    /\ notices'   = [notices EXCEPT ![s] = <<>>]
    /\ work'      = [work EXCEPT ![s] = NoWork]
    /\ leaving'   = [leaving EXCEPT ![s] = <<>>]
    /\ crossed'   = [crossed EXCEPT ![s] = FALSE]
    /\ sMap'      = [sMap EXCEPT ![s] = Empty]
    /\ sActive'   = [sActive EXCEPT ![s] = NoConn]
    /\ ioTask'    = [ioTask EXCEPT ![s] = Idle]
    /\ main'      = [main EXCEPT ![s] = "idle"]

\* The Python process ends; nothing is sent (PyConnectStub::fini deletes
\* nothing and Python 3 registers no exit handler).
SrvStop(s) ==
    /\ sUp[s] /\ Op("srvcrash") /\ SrvMemory(s, FALSE)
    /\ conn' = CloseSrv(conn, {c \in DOMAIN conn : conn[c].srv = s})
    /\ UNCHANGED <<up, modCommVars, executed, udp>>
SrvStart(s) ==
    /\ ~sUp[s] /\ Op("srvstart") /\ SrvMemory(s, TRUE)
    /\ UNCHANGED <<up, modCommVars, executed, conn, udp>>

-----------------------------------------------------------------------------
(* The specification *)

Init ==
    /\ sUp = [s \in Servers |-> TRUE]
    /\ modules = [s \in Servers |-> {}]
    /\ nextObjId = [s \in Servers |-> FirstId]
    /\ notices = [s \in Servers |-> <<>>]
    /\ work = [s \in Servers |-> NoWork]
    /\ leaving = [s \in Servers |-> <<>>]
    /\ crossed = [s \in Servers |-> FALSE]
    /\ sMap = [s \in Servers |-> Empty]
    /\ sActive = [s \in Servers |-> NoConn]
    /\ ioTask = [s \in Servers |-> Idle]
    /\ main = [s \in Servers |-> "idle"]
    /\ up = [m \in Modules |-> FALSE]
    /\ serverMap = [m \in Modules |-> Empty]
    /\ mMap = [m \in Modules |-> Empty]
    /\ mActive = [m \in Modules |-> NoConn]
    /\ modTask = [m \in Modules |-> Idle]
    /\ executed = [m \in Modules |-> {}]
    /\ conn = <<>> /\ udp = {} /\ ops = 0

ObjectWork(s) ==
    \/ \E c \in DOMAIN conn : FindAtEof(s, c)
    \/ Find(s) \/ NotifyDestroyed(s) \/ EraseAtEof(s)

SrvIO(s) ==
    \/ \E c \in DOMAIN conn : SrvAccept(s, c)
    \/ \E c \in DOMAIN conn : SrvEof(s, c)
    \/ \E c \in DOMAIN conn : \E n \in 1..Len(conn[c].toSrv) : SrvRead(s, c, n)
    \/ \E m \in Modules : SrvUdpDeclare(s, m)
    \/ HandleDeclareNew(s) \/ AssignModuleID(s) \/ HandleDeclareDuplicate(s)
    \/ ObjectWork(s) \/ HandleModuleShutdown(s)
    \/ HandleExpose(s) \/ HandleDesc(s) \/ HandleValue(s)

SrvPython(s) ==
    \/ Discover(s) \/ SendDiscovery(s)
    \/ \E m \in Modules : Connect(s, m)
    \/ \E r \in modules[s] : Disconnect(s, r)
    \/ EndDisconnect(s)
    \/ \E r \in modules[s] : CallRemote(s, r)

ModLoop(m) ==
    \/ \E c \in DOMAIN conn : ModAccept(m, c)
    \/ \E c \in DOMAIN conn : ModEof(m, c)
    \/ \E c \in DOMAIN conn : \E n \in 1..Len(conn[c].toMod) : ModRead(m, c, n)
    \/ \E s \in Servers : ModUdpDiscovery(m, s)
    \/ HandleDiscovery(m) \/ HandleServerShutdown(m)
    \/ HandleAssignId(m) \/ HandleCall(m)

ModProgram(m) == UpdateAttribute(m) \/ ModStart(m) \/ ModCrash(m) \/ ModShutdown(m)

Next == \/ \E s \in Servers : SrvIO(s) \/ SrvPython(s) \/ SrvStop(s) \/ SrvStart(s)
        \/ \E m \in Modules : ModLoop(m) \/ ModProgram(m)

Spec == Init /\ [][Next]_vars

\* The IO thread and the select loop never stop serving, and a call of
\* PyConnect.connect returns; nobody has to start, stop or call anything.
Fairness == /\ \A s \in Servers : /\ WF_vars(SrvIO(s)) /\ WF_vars(SendDiscovery(s))
                                   /\ WF_vars(EndDisconnect(s))
            /\ \A m \in Modules : WF_vars(ModLoop(m))
FairSpec == Spec /\ Fairness

-----------------------------------------------------------------------------
(* Properties *)

Task(Msgs) == [conn : Nat, buf : Seq(Msgs), udp : BOOLEAN, assigning : BOOLEAN]

\* f is a function and its domain is S.
On(f, S) == f = [x \in S |-> f[x]]

\* The type invariant: every variable keeps the shape the code gives it, and
\* every descriptor a process holds names a connection that was opened.
RegistryTypes ==
    /\ modules \in [Servers -> SUBSET ModuleRec]
    /\ nextObjId \in [Servers -> FirstId..MaxModuleId + 1]
    /\ notices \in [Servers -> Seq(Notice)]
    /\ work \in [Servers -> Work]
    /\ leaving \in [Servers -> Seq(Ids)]
    /\ crossed \in [Servers -> BOOLEAN]
ServerTypes ==
    /\ sUp \in [Servers -> BOOLEAN]
    /\ main \in [Servers -> {"idle", "connecting"}]
    /\ ioTask \in [Servers -> Task(SrvMsg)]
    /\ sActive \in [Servers -> {NoConn} \cup DOMAIN conn]
    /\ On(sMap, Servers)
    /\ \A s \in Servers : /\ DOMAIN sMap[s] \subseteq Ids
                          /\ \A i \in DOMAIN sMap[s] : sMap[s][i] \in DOMAIN conn
ModuleTypes ==
    /\ up \in [Modules -> BOOLEAN]
    /\ executed \in [Modules -> SUBSET Names]
    /\ modTask \in [Modules -> Task(ModMsg)]
    /\ mActive \in [Modules -> {NoConn} \cup DOMAIN conn]
    /\ On(serverMap, Modules) /\ On(mMap, Modules)
    /\ \A m \in Modules : /\ DOMAIN serverMap[m] \subseteq ServerIDs
                          /\ \A k \in DOMAIN serverMap[m] :
                                serverMap[m][k] \in {Unassigned} \cup Ids
                          /\ DOMAIN mMap[m] \subseteq ServerIDs
                          /\ \A k \in DOMAIN mMap[m] : mMap[m][k] \in DOMAIN conn
NetworkTypes == conn \in Seq(Conn) /\ udp \subseteq Datagram /\ ops \in 0..MaxOps
TypeOK == RegistryTypes /\ ServerTypes /\ ModuleTypes /\ NetworkTypes

\* At any time the live objects of a server have distinct ids and distinct
\* names (addNewModule against findModuleByName).
LiveDistinct ==
    \A s \in Servers : \A r1, r2 \in modules[s] :
        r1.id = r2.id \/ r1.name = r2.name => r1 = r2

\* As long as no disconnect overlapped a handler, onModuleDestroyed is called at
\* most once per object however its end is learnt (disconnect, MODULE_SHUTDOWN,
\* end of stream, in any order), and an object it was called for is on its way
\* out of modules_.
DestroyedIds(s) == {notices[s][k].id : k \in
    {j \in DOMAIN notices[s] : notices[s][j].what = "onModuleDestroyed"}}
Ending(s) == {leaving[s][k] : k \in DOMAIN leaving[s]}
                \cup (IF work[s].at = "notified" THEN {work[s].id} ELSE {})
ToldOnce(s) == \A j, k \in DOMAIN notices[s] :
    /\ notices[s][j].what = "onModuleDestroyed"
    /\ notices[s][k].what = "onModuleDestroyed"
    /\ notices[s][j].id = notices[s][k].id
    => j = k
DestroyedOnce ==
    \A s \in Servers : ~crossed[s] =>
        ToldOnce(s) /\ \A r \in modules[s] : r.id \in DestroyedIds(s) => r.id \in Ending(s)

\* A claim the code does not keep: the handlers hold a "threadsafe lock"
\* (PyConnectStub.cpp:978, 848, 821), but take it after the object was found, so
\* that a disconnect comes between.  Once onModuleDestroyed was called for an
\* object, no callback is made for it.
LastWord ==
    \A s \in Servers : \A j, k \in DOMAIN notices[s] :
        notices[s][j].what = "onModuleDestroyed" /\ j < k
            => notices[s][k].id # notices[s][j].id

\* As long as no disconnect overlapped a handler, there is no onModuleCreated
\* for an object that was already destroyed: an ATTR_METD_EXPOSE that arrives
\* late finds nothing.
CreatedBeforeDestroyed ==
    \A s \in Servers : ~crossed[s] =>
        \A j, k \in DOMAIN notices[s] :
            /\ notices[s][j].what = "onModuleDestroyed"
            /\ notices[s][k].what = "onModuleCreated"
            /\ notices[s][j].id = notices[s][k].id
            => k < j

\* A call is executed by a module only if the object it was made on stands for
\* that module's class, whichever connection the call travelled on.
CallsReachTheirModule == \A m \in Modules : executed[m] \subseteq {Name[m]}

\* What a module reports (exposure, values, responses) is applied to an object
\* that carries that module's name and to no other.
ReportsReachTheirObject ==
    \A s \in Servers : \A r \in modules[s] : \A m \in r.heard : Name[m] = r.name

\* onModuleCreated once per object: its attributes and methods are appended,
\* so a second exposure would list each of them twice; and the descriptions,
\* which index those lists, never arrive before them.
ExposedOnce ==
    \A s \in Servers : \A r \in modules[s] :
        r.exposed <= 1 /\ (r.described => r.exposed = 1)

\* A server's channel for an object leads to the process that declared it.
ChannelLeadsHome ==
    \A s \in Servers : \A r \in modules[s] :
        r.id \in DOMAIN sMap[s] => conn[sMap[s][r.id]].mod = r.proc

\* A module never holds an id that its server did not give to its name: while
\* the connection is up, the id is below nextObjId_ and the live object with
\* that id, if there is one, has the module's name.
AssignedIdIsOurs ==
    \A m \in Modules : \A k \in DOMAIN serverMap[m] \cap DOMAIN mMap[m] :
        LET c == conn[mMap[m][k]]
            i == serverMap[m][k]
        IN i # Unassigned /\ c.sEnd = "open" =>
             /\ i < nextObjId[c.srv]
             /\ \A r \in modules[c.srv] : r.id = i => r.name = Name[m]

\* Nothing is left to do for the IO threads and the select loops.
Quiet ==
    /\ \A s \in Servers : /\ ioTask[s] = Idle /\ work[s] = NoWork
                          /\ main[s] = "idle" /\ leaving[s] = <<>>
    /\ \A m \in Modules : modTask[m] = Idle
    /\ \A d \in udp : IF d.type = "MODULE_DECLARE" THEN ~sUp[d.srv] ELSE ~up[d.mod]
    /\ \A c \in DOMAIN conn :
          /\ conn[c].sEnd # "backlog" /\ conn[c].mEnd # "backlog"
          /\ conn[c].sEnd = "closed" <=> conn[c].mEnd = "closed"
          /\ conn[c].sEnd = "open" => conn[c].toSrv = <<>> /\ conn[c].toMod = <<>>

\* When everything has been processed, a server and a running module agree:
\* an object stands for a process that holds the object's id, exposed itself,
\* and shares an open connection with the server in both channel maps.
Agreed(s, r) ==
    LET m == r.proc
        k == ServerID[s]
    IN /\ up[m] /\ r.exposed = 1 /\ r.described
       /\ k \in DOMAIN serverMap[m] /\ serverMap[m][k] = r.id
       /\ k \in DOMAIN mMap[m] /\ r.id \in DOMAIN sMap[s]
       /\ mMap[m][k] = sMap[s][r.id] /\ conn[mMap[m][k]].sEnd = "open"
QuietAgreement ==
    Quiet => \A s \in Servers : sUp[s] => \A r \in modules[s] : Agreed(s, r)

\* When everything has been processed, a running module that remembers a
\* running server is registered there (discovery and declaration end in an
\* object, not in an entry of serverMap_ that blocks every later discovery).
QuietMutual ==
    Quiet => \A m \in Modules, s \in Servers :
        up[m] /\ sUp[s] /\ ServerID[s] \in DOMAIN serverMap[m] =>
            \E r \in modules[s] : r.proc = m

\* When everything has been processed, no object stands for a program that
\* went offline ("A Python callback function is invoked when your program gets
\* an exception and/or goes offline", README.md:25).
QuietOffline ==
    Quiet => \A s \in Servers : \A r \in modules[s] : up[r.proc]

\* When everything has been processed, a module remembers a server only while
\* it shares an open connection with that server: an entry that outlived its
\* server would answer the server's next discovery with MESG_TO_SHUTDOWN.
QuietServers ==
    Quiet => \A m \in Modules : \A k \in DOMAIN serverMap[m] :
        /\ k \in DOMAIN mMap[m]
        /\ LET c == conn[mMap[m][k]] IN
           c.mEnd = "open" /\ sUp[c.srv] /\ ServerID[c.srv] = k

\* A claim the code does not keep, on MESG_TO_SHUTDOWN for a duplicate name:
\* "we should reject the connection" (PyConnectStub.cpp:938).  Once all is
\* processed, a connection over which a module declared itself and that no
\* object uses has been closed.
RejectedIsClosed ==
    Quiet => \A s \in Servers, c \in DOMAIN conn :
        conn[c].srv = s /\ conn[c].sEnd = "open" =>
            \E r \in modules[s] : r.proc = conn[c].mod

\* A program that went offline is eventually forgotten by every server, unless
\* it is started again or a disconnect overlapped a handler there.
OfflineForgotten ==
    \A m \in Modules, s \in Servers :
        ~up[m] ~> (up[m] \/ crossed[s] \/ \A r \in modules[s] : r.proc # m)

\* An object that was made for a declaration is eventually announced to the
\* script (onModuleCreated) or destroyed again; it does not stay half made,
\* unless a disconnect overlapped a handler.
ObjectAnnounced ==
    \A s \in Servers, i \in Ids :
        (\E r \in modules[s] : r.id = i /\ r.exposed = 0) ~>
            (crossed[s] \/ \A r \in modules[s] : r.id = i => r.exposed > 0)

\* The abstract specification: what the script is told by one server.  An
\* object lives until the script is told of its end, not until its erasure.
\* The code implements it as long as no disconnect overlapped a handler.
Live(s) == {[id |-> r.id, name |-> r.name] :
               r \in {q \in modules[s] : q.id \notin DestroyedIds(s)}}
Used(s) == FirstId..(IF ioTask[s].assigning THEN nextObjId[s] ELSE nextObjId[s] - 1)
Registry(s) == INSTANCE PyConnectRegistry
                 WITH live <- Live(s), used <- Used(s), callbacks <- notices[s]
RegistryStep(s) == [Registry(s)!Next]_(Registry(s)!vars)
RegistryImplemented ==
    /\ \A s \in Servers : Registry(s)!Init
    /\ [][\A s \in Servers : ~crossed'[s] => RegistryStep(s)]_vars
=============================================================================
