# PyConnect in TLA+

A verification project for [PyConnect](../src/README.md), the C++ framework
that makes the functions and variables of running programs appear as objects
in a Python interpreter. The specifications are written from the C++ code; the
documentation and the tests say what to expect of it. `PROJECT.json` holds the
table that ties every definition to the lines it models, the list of runs, the
faults that show each property can fail, and the hazards.

Check one instance, or the proofs of one module, with

    tlc -workers 2 -config one_program.cfg MCSession
    tlapm PyConnectSession_proofs.tla

## 1. The system

Two kinds of processes:

* a **server**: a Python interpreter that imported the extension module;
* a **module**: a C++ program linked with the wrapper library. It is wrapped
  with macros that name the attributes and methods it exports.

They find each other by UDP broadcast, or on one host by socket files named by
process id; they then talk over one stream per pair (TCP or a local socket).
Every message is encrypted, framed and sent by the same `PyConnectNetComm`
class, which both sides compile with different switches.

### Components

| component | state | operations | what makes it correct |
|---|---|---|---|
| **Module registry** `PyConnectStub` | `modules_` (objects with id, name, attributes, methods), `nextObjId_` | `processInput` (declare, shutdown, expose, description, response, value), `addNewModule`, `assignModuleID`, `deleteModuleByID`, `shutdownModuleByRef`, `remoteAttrMethodCall`, discover/connect/disconnect | live names and ids are distinct; every object is announced once, destroyed once, in that order; what a module reports goes to its own object; no object outlives its program |
| **Server table** `PyConnectWrapper` | `serverMap_` (server id -> assigned module id) | `processInput` (discovery, assignment, call, shutdown), `declarePyConnectModule`, `declareModuleAttrMetd(Desc)`, `updateAttribute`, `moduleShutdown` | executes only its own calls; remembers a server exactly while it is registered there |
| **Channel map** `ObjectComm` | `objCommMap_` (id -> socket), `activeCommChannel_` (last used socket, consumed by one answer) | `findOrAddCommChanByMsgID`, `set/getLastUsedCommChannel`, `objCommChannelShutdown` | an id leads to the process it was given to |
| **Connections** `PyConnectNetComm` | `clientFDList_`, listeners, the select loop | `processIncomingData`, `processUDPInput`, `createTalker`, `localBroadcastSend`, `findOrCreateIPCTalker`, `enable/disable` | every connection is opened, closed and reported once |
| **Framing** `clientDataSend` / `processIncomingData` | `bufferedData`, `bufferedDataLength`, `expectedDataLength` per descriptor | frame, read, reassemble | messages are delivered whole, once, in order; the buffer is never overrun |
| **Codec** (`PyConnectCommon`) | none | `packIntToStr`, `packedIntLen`, `packString`, `unpackStrToInt`, `unpackString`, typed values | sizes computed are sizes written; reading inverts writing |
| **Dispatch** | the GIL, `g_mutex` (recursive), static encryption and dispatch buffers | entering Python from the IO thread, sending from either thread | no deadlock, no shared buffer read while it is written, no object used after its deletion |
| **Calls and attributes** | values cached by the server, callbacks waited for | `setAttribute`, `getAttribute`, `pyCall`, `onSetAttrMetdResp`, `onGetAttrResp`, `sendAttrMetdResponse` | one answer per call; cached values converge |
| **Local IPC** | socket files `.pid`, descriptor list | `consolidateIPCSockets`, `localBroadcastSend`, `disable*` | dead processes' files do no harm; no node is used after it is freed |
| Encryption, peer servers, Python object protocol, samples, build files | | | not modelled, see section 7 |

### How they interact

1. A module that starts broadcasts `MODULE_DECLARE` (and sends it over a new
   local connection to each server of the host). A server that hears it on UDP
   *connects to the module* and processes the declaration as if it had come
   over that connection.
2. A server that calls `PyConnect.discover()` broadcasts `MODULE_DISCOVERY`; a
   module that hears it *connects to the server* and sends `MODULE_DECLARE`
   over that connection. `PyConnect.connect()` opens the connection from the
   server and sends the discovery over it.
3. `MODULE_DECLARE` makes `addNewModule` create an object while it holds the
   GIL; after that `assignModuleID` sends `MODULE_ASSIGN_ID` over the *last
   used channel* and maps the id to it.
4. The module keeps the id if the name in the message is its own, and answers
   `ATTR_METD_EXPOSE` (over its last used channel, which it maps) and
   `ATTR_METD_DESC`. The exposure triggers `onModuleCreated` in the script.
5. Calls travel as `CALL_ATTR_METD` over the channel mapped to the id, their
   answers and value updates come back under the same id.
6. The end is learnt from `MODULE_SHUTDOWN` / `SERVER_SHUTDOWN`, from the end
   of the stream (`objCommChannelShutdown` makes such a message up), or from
   `PyConnect.disconnect()`.

### What is hard here

The server's IO thread and its Python thread share the channel state, and the
last used channel is one variable for all connections; discovery, declaration
and end of stream arrive on different connections in any order; datagrams get
lost and repeated; processes die between any two steps; ids are a byte in some
messages and four bits in others; frames are cut anywhere by `read`. The list
`hazards` of `PROJECT.json` has each of these at its line, with the properties
that watch it or the reason why none does.

## 2. Modules

| module | models | role |
|---|---|---|
| `PyConnectSession` | registry, server table, channel map, connections, both threads of the server | the core |
| `PyConnectRegistry` | what a script may rely on: objects appear and vanish | abstract specification of the registry |
| `PyConnectCalls` | attributes, method calls, answers, value updates | several scripts and one program, over channels the session sets up |
| `PyConnectMirror` | what a script may rely on: it sees every change once, in order | abstract specification of the value updates |
| `PyConnectDispatch` | the two threads of a server, their locks and buffers, callbacks that call back | lock by lock, inside one server |
| `PyConnectLocal` | socket files in `/tmp`, local broadcasts, processes that die | how processes of one host find each other |
| `PyConnectFraming` | frames and their reassembly, byte by byte | one direction of one connection |
| `PyConnectChannel` | a FIFO of messages | abstract specification of the framing, and what the session and the calls take for granted |
| `PyConnectCodec` | numbers and strings in messages | sequential |
| `..._proofs` | | theorems about each of these; the session has three such modules, each built on the one before: `PyConnectSession_proofs` about a server's objects, `PyConnectClaims_proofs` about what is under way between processes, `PyConnectAgreement_proofs` about the order of messages and what both sides end up with; those of the calls that implement the mirror are in `PyConnectCalls_proofs` |
| `MCSession`, `MCCalls`, `MCFraming`, `MCCodec`, `MCLocal` | | the constants of the instances, and the symmetry of the process ids; the dispatch needs none |

The modules share a process, a channel or a message but no variable: each
looks at one layer and takes the layer below as its promise. The framing
promises a FIFO; the session and the calls use FIFOs. The dispatch justifies
that the session takes what a thread does with the GIL and between two
callbacks in one step (locks are balanced, a thread that runs extension code
has the GIL), and shows the places where handlers come apart: the assignment
of an id, the lookup before the GIL, and callbacks. The session splits its
handlers there. It decides who is registered under which id; the calls start
from there.

### The session and the code

State. `modules`, `nextObjId`, `sMap`, `sActive` are `modules_`, `nextObjId_`
and the server's `objCommMap_` and `activeCommChannel_`; `serverMap`, `mMap`,
`mActive` are the module's. `ioTask` and `modTask` are what a thread has read
and not yet processed: one `read()` may return several messages, and the loop
over them is interleaved with the other processes. `conn` is the sequence of
connections ever made, each with the state of its two ends and a FIFO in each
direction; `udp` is the set of datagrams in flight, of which any may never be
delivered (a broadcast reaches any subset). `notices` and `executed` are
history variables that only properties read, as are the fields `proc`, `heard`
of an object and `from` of a message.

Actions. Each handler is one action or, where it may be interrupted, a few:
of the IO thread `SrvAccept`, `SrvRead`, `FindAtEof`/`SrvEof`,
`SrvUdpDeclare`, `Find` and `Handle...` per message; of the Python thread
`Discover`, `Connect`/`SendDiscovery`, `Disconnect`/`EndDisconnect`,
`CallRemote`; of the module's loop `ModAccept`, `ModRead`, `ModEof`,
`ModUdpDiscovery` and `Handle...`; and the programs' own `ModStart`,
`UpdateAttribute`, `ModShutdown`, `ModCrash`, `SrvStop`, `SrvStart`.

Handlers are split where the code does not hold its lock or runs the script:

* `addNewModule` makes the object under the GIL (`HandleDeclareNew`) and
  assigns the id after releasing it (`AssignModuleID`);
* `PyConnect.connect` makes the new connection the last used channel and drops
  `g_mutex` (`Connect`), and sends the discovery under it again
  (`SendDiscovery`). It keeps the GIL throughout, so a handler of the IO
  thread that needs the GIL waits (`GILFree`);
* a message about an object, and the end of a stream, look the object up
  *without* the GIL (`Find`, `FindAtEof`): `work` then holds what was found.
  With the GIL the object is used (`HandleExpose`, `HandleDesc`,
  `HandleValue`), or its end is told to the script (`NotifyDestroyed`); the
  callback runs while the object is still in `modules_`, and the object is
  erased after it (`HandleModuleShutdown`, `EraseAtEof`, then `SrvEof`);
* `PyConnect.disconnect` tells the module and the script (`Disconnect`) and
  erases the object when the callback is back (`EndDisconnect`). `leaving` is
  the list of those in between, for callbacks may disconnect again.

So a disconnect may come between any two of these steps. `crossed` notes that
one has: an object that was found, or an iterator of `modules_` that was
taken, may then be gone or have moved when it is used. A message is applied to
the object by its id, and to none if that is gone (the script may have kept
it), but the announcement is made all the same; an erasure takes whichever
entry, or none (`Erased`). Section 4 has what goes wrong then; what holds as
long as `crossed` is false says so.

Everything else the Python thread does (`Discover`, `CallRemote`) is one step:
it holds the GIL, and the channel state it touches is touched under one
acquisition of `g_mutex`. `Discover` chooses which connection ends up as the
last used one, since the order of the directory scan is not defined.

Message bytes. Ids are cut to a byte when sent (`Byte`) and to four bits when
the server receives them (`Named`, constant `IdMask`), as in the code. A
module that was never given an id sends -1, which arrives as 255 and is looked
up as 15.

Operators marked *Fault* in the modules are not part of any specification;
each is a plausible mistake in one definition (a dropped check, a missing
reset) under which a property is known to fail. The list `mutants` of
`PROJECT.json` says which.

### The calls and the code

`value` and `serverMap` are the program's attributes and server table,
`object` each server's `PyConnectObject`: its id, what it learnt from the
exposure (`exposed`, `readOnly`), its cached values and `no_callback` flag.
`toMod` and `toSrv` are the channels. A script may register and disconnect the
object, switch callbacks on and off, assign (`SetAttribute`) and call
(`CallMethod`); the program may `Change` an attribute, or do so in the middle
of a method. Its handlers (`HandleAssign`, `HandleShutdown`, `HandleSet`,
`HandleMethod`) are one step each because the program has one thread; the
server's (`HandleExpose`, `HandleUpdate`, `HandleAnswer`, `HandleStale` for an
id no object has) because they hold the GIL. `Answers` lists what the macros
`PYCONNECT_METHOD...` send for a method that returns or throws, including the
second answer of a void method that throws. A number is narrowed to the
attribute's C++ type when it is packed (`Narrow`), while a script without
callbacks finds its own, wide number in the cache until the update arrives.
`history`, `heard`, `calls` and the fields `since`, `told`, `at`, `n` are
history that only properties read.

### The dispatch and the code

`gil`, `mutex` (`g_mutex`, recursive, with its depth) and `encrypting`
(`t_mutex_2`) are the locks; `encryptbuffer` and `dispatchBuffer` the two
static buffers through which every message goes; `modules` is the vector
`modules_` with the order of its elements, because iterators of it are kept
over calls. Each of the threads `"io"` and `"py"` is a stack of frames, and a
step is taken by the frame on top: `at` says where in its procedure it is,
`kind` what it works on, `pos` is an iterator of `modules_`, 0 when unset or
invalidated by a reallocation. A callback is a frame in which Python code
runs: it may give up the GIL (`Yield`), call a method, disconnect a module or
discover, and thus nest (`MaxDepth`).

Sending is `encrypt`, `encrypting`, `lock`, `copy`, `talk` for broadcasts that
add a connection and take the mutex a second time, `write`. The IO thread
takes up what `select` reports (`Declared`, `Received`, `Left`, `Closed`, `Unknown`),
notes the channel under the mutex (`Touch`), looks the module up without the
GIL (`Lookup`), takes it (`TakeGil`), works (`Use`, `Destroy`, `EraseByID`,
`PushBack`) and gives it back (`Release`); `Assign` follows `PushBack` without
it. A message of unknown type (`Unknown`) ends in the default branch of
`processInput` (`Ignore`), which returns with the GIL: from then on
`PyGILState_Ensure` finds the thread in possession of it, `PyGILState_Release`
leaves it there, and no other thread ever gets it (`kept`). The script's own
threads are one thread here: they differ only by who has the GIL.

Undefined behaviour is a choice: an object that is used after its deletion, or
an iterator past the end, may kill the process (`up`) or not, and then an
element is erased that nobody meant.

### The local broadcasts and the code

`role` and `phase` say what process, if any, has an id and where in
`enableIPCComm`, `localBroadcastSend` or `disableIPCComm` it is. `files` are
the socket files with whether a socket of a running process is bound to each;
`dead` and `live` are the two lists `consolidateIPCSockets` makes of them, and
`talkers` the entries of `clientFDList_` that have a process id. The scan of
`/tmp` is one step, the removal of each dead file one more, and every
connection one more; other processes act in between. Accepted connections are
not among the talkers: they carry process id 0, and a broadcast never reuses
one. A stop, clean or not, ends the connections of a process and leaves its
file unless `disableIPCComm` gets to remove it. `finiPyConnect` is registered
with `Py_AtExit` for Python 2 only (constant `Python2`). `fini` runs
`disableNetComm` first, which frees nodes of `clientFDList_` and leaves them in
it; the walk of `disableIPCComm` through them comes to its end, ends early or
kills the process (`DisableIPCComm`).

An id is used again as soon as its process is gone (`Start`, `Reuse`), also
while another process has it on its list of dead ones or has not yet read the
end of its connection; `suspected` and `mistaken` are history variables that
note for which processes that was so.

### The framing and the code

`input` is what is left of `clientDataBuffer_` after `dataPtr`; `buffered` and
`expected` are the descriptor's `dataInfo`; one iteration of the `do ...
while` loop is one action, one per branch. `read()` may end anywhere; the
history variable `clean` says whether it has always ended where the reader
copes: not within a header, not right after one, not just before the final `@`
(`Marked`). The two byte length is converted by what `memcpy` to a `short`
does, negative values included.

### The codec and the code

A message is a list of fields whose kinds both ends know. The sender packs
(`Pack`) while it adds up the size it allocates (`SizeOf`); the receiver
unpacks with a cursor and a count of remaining bytes (`Unpack`). A string has
a length byte or a packed length, which is the `extendSize` argument of the
code.

## 3. Runs

External operations (starts, crashes, discoveries, calls...) are counted by
`MaxOps` and connections by `MaxConns`; each run of the session enables the
operations it is about in `Ops`. A behaviour stops when the operations run
out, which is why deadlock is not checked: a system with nothing left to do is
a legal end. That two threads of a server never wait for each other is checked
as `EverythingEnds`.

| run | instance | distinct states | properties |
|---|---|---|---|
| `one_program` | 1 server, 1 program, network; start crash shutdown discover update; 5 operations, 5 connections | 244 k | `TypeOK` `ExposedOnce` `QuietAgreement` `QuietOffline` |
| `two_programs` | 2 programs of different classes; start connect call; 4/3 | 817 k | `CallsReachTheirModule` `AssignedIdIsOurs` `ReportsReachTheirObject` `QuietMutual` |
| `two_servers` | 2 servers, 1 program, local; start discover srvcrash srvstart; 6/3 | 613 k | `QuietServers` |
| `registry` | 2 programs of one class, two ids; start crash shutdown disconnect discover; 3/3, `FairSpec` | 75 k | `LiveDistinct` `ChannelLeadsHome` `DestroyedOnce` `CreatedBeforeDestroyed` `RegistryImplemented` `OfflineForgotten` `ObjectAnnounced` |
| `calls` | 2 servers, 2 attributes, 2 methods, 4 operations, `FairSpec` | 285 k | `TypeOK` `NoNullSetter` `ToldOfEveryChange` `QuietValues` `AnswersAreTrue` `AnswersInOrder` `MirrorImplemented` `CallsAnswered` |
| `dispatch` | 2 modules known, ids up to 3, 4 frames per thread, 3 operations, `FairSpec` | 72 k | `TypeOK` `OwnFrames` `LocksBalanced` `OnlyDisconnectsDisturb` `SafeWithoutDisconnect` `EverythingEnds` |
| `local` | 3 process ids up to permutation (they are only compared for equality), 7 operations | 454 k | `TypeOK` `LiveFileKept` `ReachedAll` |
| `framing` | 4 payloads with frame bytes in them, reads of 8, buffer of 6, 3 messages, `FairSpec` | 36 k | `TypeOK` `CacheFits` `ChannelImplemented` `EventuallyDelivered` |
| `codec` | 2 fields out of 10 numbers and 6 strings at the boundaries | 2 k | `BufferExact` `RoundTrip` `RemainingTold` |

The properties named `Quiet...` say what holds once everything that has
arrived has been processed (`Quiet`): this is how one states that both sides
agree in a system where they are bound to disagree in between.

**Why the bounds are enough.** The interesting cases need few operations. In
the session: two declarations of one program (a start and a discovery) over
two connections; a crash with a declaration in flight and a second start; a
discovery that crosses a declaration. The bounds allow these with one
operation to spare. Two programs suffice for confusions between objects,
because an id or channel error confuses a pair; two servers suffice likewise.
Over the local transport a start and a discovery open connections at once and
nothing is lost: six operations there are a start, two restarts of a server
and a discovery between them. Both transports together take longer than the
time given to a run; the theorem `RememberedServersRun` is about both.
`MaxModuleId` is 2 where exhaustion of the ids is wanted, and 255 as in the
code otherwise. In the calls four operations are a registration and three more
on each of two servers' objects, or two registrations and two assignments that
cross; a disconnection and a second registration while answers to the first
object travel fits too. In the dispatch three operations are enough for a
message, a disconnection on the other thread and a call of the callback, and
four frames for a callback in a callback. In the local run seven operations
let a process start, broadcast and crash, and a second and third one start
under ids that others have on their lists. In the framing a message of one
byte, one with a `@` and `#` in it, and two whose payload reads as a header
with a negative or a plausible length meet reads that carry part of one, one,
or several of them; a frame of nine bytes never fits one read of eight, and
the buffer of six is one byte more than the longest payload, so that the limit
is met. The codec uses every number and string length next to a change of
encoding.

**Properties restricted on purpose.** Outside these limits the code does not
have the property; section 4 says what happens instead.

* `ChannelLeadsHome` is checked where `PyConnect.connect` and, over IPC,
  `PyConnect.discover` are not used, `QuietOffline` in such runs and with ids
  below `IdMask`, delivery while the cuts are `clean`.
* `QuietMutual` is checked where no program crashes: one that restarts before
  the server has noticed its end is refused under its old name, and remembers
  the server for good. It is checked without disconnections, too: a read that
  returns an assignment, a `SERVER_SHUTDOWN` and a `MODULE_DISCOVERY` leaves
  no channel for the declaration, whose server is remembered all the same.
  The theorem asks for programs with different class names, too: of two with
  one name the second is refused, and remembers the server.
* `CallsReachTheirModule`, `AssignedIdIsOurs` and `ReportsReachTheirObject`
  are checked and proved without server restarts: a new server gives the ids
  of the old one out again. No run was found in which that matters, since a
  program's old connection ends with the old server.
* `QuietAgreement` is checked without server restarts: a program may learn of
  the end of the old server after it has registered with the new one, under
  the same four bits, and then forget the new one. It needs servers that
  differ in those bits. The theorem excludes disconnections and second
  connections as well.
* `DestroyedOnce`, `CreatedBeforeDestroyed`, `RegistryImplemented`,
  `OfflineForgotten` and `ObjectAnnounced` hold of a server as long as no
  `PyConnect.disconnect` overlapped a handler there (`crossed`). Disconnects
  before, after and between handlers are part of the run, and so are those
  that overlap one, after which nothing is asked of that server.
  `ExposedOnce`, `QuietAgreement` and `QuietOffline` are checked without
  disconnects.
* `OwnFrames` excepts the assignment of an id, and `OnlyDisconnectsDisturb` a
  `PyConnect.disconnect` of the script. `EverythingEnds` excepts the script
  once a message of unknown type has been received.
* `LiveFileKept` and `ReachedAll` name the processes they do not speak of: one
  that got its id while another process had that id on its list of dead
  (`suspected`) may lose the file it listens on, and one that got it while
  another had a connection to the earlier process (`mistaken`) may be taken for
  that. Every other listener is covered, however ids are used again.
* `AnswersAreTrue` admits that a void method that throws is answered twice.

**Fairness.** The session's `FairSpec` assumes weak fairness of the IO thread
as a whole (`ioprocess_thread` loops over `continuousProcessing` forever), of
each program's select loop, and that `PyConnect.connect` goes on to send its
message. The calls assume the same of both loops, and nothing of the scripts.
The dispatch assumes that a thread which again and again finds a lock free
gets it in the end (`SF` of taking the GIL, and of running, which includes the
mutexes: the system's scheduler gives this for mutexes that are free again and
again, and CPython hands the GIL to a thread that asks), that Python code
which runs gives up the GIL some time (`WF` of `Yield`: the interpreter makes
it), and that callbacks return. The framing assumes that the loop keeps
reading what has arrived. No fairness is assumed of any external operation,
nor of the arrival of any datagram beyond the fact that the loop serves those
that have arrived. Local broadcasts have no liveness property: what they
promise is `ReachedAll` when they end, and they are loops over finite lists.

## 4. Where the code and its documentation disagree

Each of these has a run whose single property TLC finds violated.

| run | property | what happens |
|---|---|---|
| `v_framing_split` | `NothingLost` | a read ends just before the `@` of a message, or within the three bytes before its payload: the message is lost (`PyConnectNetComm.cpp:385`). |
| `v_local` | `EngineSurvives` | `PyConnect.discover` finds a socket file whose process does not listen, as after a crash when the id is in use again: the failed connection is added with an invalid descriptor and the Python engine aborts (`PyConnectNetComm.cpp:752`, `PyConnectObjComm.cpp:109`). `README.md:25` says the engine is left alone by the failure of a program. |
| `v_disconnect` | `LastWord` | `PyConnect.disconnect` comes between the lookup of an object and the "threadsafe lock" (`PyConnectStub.cpp:970`, `842`, `978`): the script is told that the object ended and then of the object again, a second end or its creation. |

More of the same kind was found and is not among the runs. The properties are
in the modules; a run is a copy of the one named, changed as said here.

* `QuietAgreement` in `one_program` with two servers and `ServerID <- SameIDs`:
  two servers with the same four bits of address, as any two on one host, both
  announce an object of a program, which then answers only the one that
  registered it last (`PyConnectWrapper.cpp:370`). The slides have programs
  serve several engines.
* `QuietAgreement` in `two_programs` with `FirstId = 15`, as after fourteen
  earlier registrations, and the operation start: ids are handed out up to
  `0xff` and masked with `0xf` when they come back (`PyConnectStub.cpp:715`,
  `969`), so what the next but one program reports finds no object.
* `QuietOffline` in `two_programs` with the operations start, crash, connect:
  `PyConnect.connect` comes between the making of an object and the assignment
  of its id (`PyConnectStub.cpp:790`); the id is mapped to no connection, and
  the end of the program is never noticed, although a callback is promised for
  it (`README.md:25`). `ChannelLeadsHome` fails in the same way, where the id
  is mapped to another program's connection.
* `RejectedIsClosed` with two programs of one name, `Transports = {"ipc"}` and
  the operation start: "we should reject the connection"
  (`PyConnectStub.cpp:938`) of the second, but the stream loop tests a result
  it never assigns (`PyConnectNetComm.cpp:361, 446`).
* `UnknownIgnored` in `dispatch`: a message of unknown type is said to be
  ignored, and its branch returns with the GIL (`PyConnectStub.cpp:1045`); the
  script never runs again.
* `AssignmentsAcknowledged` in `calls`: an assignment that asks for a callback
  is never answered by the program, although the server has a branch that
  tells the script so (`PyConnectStub.cpp:506`, `PyConnectWrapper.h:475`).

## 5. Proofs

Proved with TLAPS for every value of the constants that satisfies the
assumptions of the modules.

**Session** (`PyConnectSession_proofs`), from `ConstantsAssumption`: finite
sets of servers and modules, server ids of four bits, ids between `FirstId >=
1` and `MaxModuleId <= 255`.

* `SessionTypeCorrect`: `Spec => []TypeOK`. `TypeOK` alone is not inductive,
  because `AssignModuleID` increments `nextObjId_` and reads the message that
  was being handled when the object was made. The invariant adds `Assigning`:
  while the IO thread is between the two halves of `addNewModule`, the message
  it holds is a `MODULE_DECLARE` and `nextObjId_` is still within the limit.
* `LiveObjectsDistinct`, `ObjectsDieOnce`, `CallbacksInOrder`. Lemma
  `ObjectSteps` reduces the actions to ten kinds of step on one server's
  objects: keep, add, reset; look, tell, erase, done, touch of the IO thread;
  leave and gone of a disconnect. `ObjectInv` says that every id seen, live, in
  a callback or in hand, is at most the last one given out (`Below`), that live
  objects are distinct, that the script knows of every end that is under way,
  and, until a disconnect has overlapped a handler (`Apart`), that an id is
  destroyed once, that a live id which was destroyed is on its way out, that
  callbacks are in order, that the IO thread and the script do not end objects
  at the same time (`Alone`), and that the object the IO thread has found is
  there (`Held`). `Below` is what makes the rest inductive where objects are
  made: only because a new object's id is above everything in the history can
  its callbacks not repeat or precede an old one's. `Alone` and `Held` do so
  where they end: each step of a handler relies on the lookup before it.
* `SessionImplementsRegistry`: with the mapping of `PyConnectSession` (live are
  the objects whose end was not told, used the ids given out, including the one
  being assigned) every step of a server without an overlap is a step of
  `PyConnectRegistry` or leaves its variables alone. It rests on the same kinds
  of step: add is `Appear`, touch by an exposure `Announce`, tell and leave are
  `Vanish`, reset is `Restart`, the others stutter; in particular the erasure,
  since a script that was told of the end has no use for the object.

**What is under way in the session** (`PyConnectClaims_proofs`), from the
same assumption. All of it rests on `StepWires` and `MailStep`: whichever
action is taken, what a process has in hand or on a wire afterwards was there
before or was written by this action, and then it is one of the few messages
the sender may write (`FromServer`, `FromProgram`). `AddressInv` says that
what a process has in hand came by a connection of its own, that a message
comes from the process at the other end and carries that server's bits, and
that a program's channel for a server leads to one with those bits. Its part
`Working` says what the IO thread is in the middle of: the object of the
message it has in hand, or of the first id of a connection whose stream has
ended.

* `RememberedServersRun`, for every configuration. `RememberInv` adds that
  the channels in a program's map are open, that a connection a server has not
  closed is that of a running server, and that a server which is remembered
  has a channel. The last one is not inductive: the assignment of an id
  remembers its server whether or not there is a last used channel to map. It
  needs `HandMapped`, that a program which is processing messages and has used
  its channel up has mapped the server they come from.
* `ChannelsLeadHome`, if nothing else makes a channel the last used one while
  the IO thread processes messages: no `PyConnect.connect`, no discovery over
  IPC (`~Dials`). Section 4 says what happens with them. `HomeInv` adds that
  the last used channel is the one in hand or none, that mapped ids have been
  given out, and that the object whose id is being assigned is that of the
  process whose declaration is in hand.
* `HeldIdsAreOurs`, `CallsReachPrograms` and `ReportsReachObjects`, if servers
  have different bits and do not restart (`ServersApart`); the third as long
  as every id that was given out fits into `IdMask` and is none that an
  unassigned one is mistaken for (`FewIds`). The invariant `ClaimInv` is one
  for the three: an id of a server is *claimed* for a name if an object has
  both, or the id is being assigned to it, or a message on its way or in hand
  or an entry of `serverMap_` says so; every id is claimed for one name at
  most, and for none before it is given out. A declaration is the only step
  that adds a claim for an id nobody spoke of (`ClaimedStep`), and its id is
  above every claim.
* `OfflineProgramsGone`, under `~Dials` and as long as the ids that were given
  out are below `IdMask` and no disconnect has overlapped a handler
  (`AllCalm`), with crashes and restarts of either side.
  It depends on the order of messages: `In(c)` is what a server has in hand
  from a connection followed by what is on the wire, and `InSteps` says what a
  step makes of that stream: nothing, a message less at the front, what a
  program wrote at the end, or the end of it all. `ShareInv` says that a
  declaration is the first of its stream and finds no id mapped to its
  connection (`DeclaresOnce`), that the connection it is handled for is the
  one last used (`DeclareActive`), that a connection has one id at most
  (`MappedOnce`), and is open as long as it has one (`OpenMapped`). With it
  the end of a connection deletes the object of its id and no other
  (`FreedObject`), so that every object has a channel except while its id is
  being assigned (`AllPresent`). `DeadClosed` says that a program which is
  gone has closed its connections. With nothing left to process such a channel
  would be closed at both ends, which `OpenMapped` excludes.

**Agreement of servers and programs** (`PyConnectAgreement_proofs`), from the
same assumption. The counterpart of `In(c)` is `Out(c)`, what a program has in
hand from a connection followed by what is on the wire to it, with `OutSteps`.
`TellSteps` refines `InSteps` for what a program writes: reports under an id,
or the answer to an assignment.

* `ObjectsExposedOnce`, under `~Dials` and as long as ids fit (`IdsFit`), with
  crashes and restarts of either side. `AssignInv` says that a connection
  carries at most one assignment (`AssignOnce`), for the id the server has
  mapped to it (`AssignMapped`), and that the program which has it in hand
  answers on that connection (`AssignActive`). `ToldInv` says that exposures
  and descriptions come under the id mapped to their connection, when the
  assignment is no longer on its way (`ToldMapped`), and that one exposure at
  most is under way (`ToldOnce`). Then an object is `Raw`, neither exposed nor
  described, as long as its assignment or its exposure is under way, and a
  description under way is behind an exposure or its object was exposed
  (`AllUntold`).
* `ServersAndProgramsAgree`, under `~Dials` and `ServersApart`, without
  `PyConnect.disconnect`, and as long as `FewIds`; programs come, go, crash
  and are discovered. `Connected` says what keeps the two sides together
  before everything is processed: for every id that a server has mapped to a
  connection the program keeps open there is an object, and either the
  assignment is still in `Out(c)`, or the program knows the id and the channel
  (`Knows`) and the object was exposed and described or the messages which do
  it are in `In(c)` (`Heading`). It needs that nothing takes either away: no
  `SERVER_SHUTDOWN` is sent and an assignment names the program and travels
  on a connection which the server keeps (`GrantInv`); an id a program holds
  is mapped at the server to the channel the program has for it, and what a
  program reports, its end included, is about the id of that connection
  (`HoldInv`); the object of an assignment is there while it is made, and
  without disconnects nothing overlaps a handler (`PresentInv`). Lemma `ObjectsLast` lists the ways an object goes, each of
  which takes its id out of the map or finds its program gone.
* `RememberedMeansRegistered`, if besides no program ends and no two have one
  class name (`Settled`), and as long as ids are left (`IdsLeft`).
  `Remembered` says that a server in a program's `serverMap_` has an object of
  the program or a declaration of it under way. A declaration may be refused
  only if the name is known, which in a settled system means that the program
  has an object already, or if no id is left. `Living` says that the
  connection of a declaration and of every id mapped is kept by both ends, so
  neither is lost by the end of a connection.

**Calls** (`PyConnectCalls_proofs`), from `CallsAssumption`:
`CallsTypeCorrect`, and `NoNullSetterCalled`: no assignment to a read-only
attribute is ever on its way, whose setter is a null pointer that the program
calls unchecked. The invariant `SettersInv` adds to both that every object
which has been exposed knows exactly the read-only attributes
(`ReadOnlyKnown`); it holds because the exposure that travels carries the
program's own flags, which `TypeOK` says.

**Mirror** (the second part of `PyConnectCalls_proofs`), from
`CallsAssumption` and `NoneAssumption` (`None`, which stands for no object, is
not an object):

* `EveryChangeTold`, `CachedValuesSettle` and `CallsImplementMirror`. The last
  is the safety part of `MirrorImplemented`: initial states map to initial
  states and every step to a step or a stutter. `MirrorInv` relates the
  messages in the channel from the program to a server to `history`: behind
  the exposure of the object that is registered there, the updates in the
  channel are, in order, the changes its server has not heard of (`InOrder`),
  what it was told before is the rest (`Told`), and a cached value is the last
  one the server has heard of unless an assignment or an update of that
  attribute is still under way (`Cached`). `Life` says which messages may be
  there at all when an object was just made, is known to the program, is
  exposed, or is gone: ids are never reused, so nothing meant for an object
  that is gone is taken for news of the next.
* `AnswersTrue` and `AnswersOrdered`. `AnswersInv` says that the calls under
  way are the last ones made, in their order (`CallsQueued`), that an answer
  under way belongs to a call that has ended and says what that call did
  (`AnswersQueued`), that of a live object no call and no answer is lost
  (`NoneLost`), and that a script told of a call was told of every earlier one
  that has an answer to come (`InTurn`).

Lemma `Steps` reduces the actions to those that leave a server's side alone,
that bring it news, and that are its own.

**Dispatch** (`PyConnectDispatch_proofs`), from `DispatchAssumption`:
`DispatchTypeCorrect`, `MutexBalanced` and `FramesAreOwn`, for any number of
objects, any depth of callbacks and any bounds. `DispatchInv` has these
parts.

* `StacksGood` describes the shape of a stack: which frames may lie under
  which, and that the root of the IO thread is its select loop and that of the
  other its script. Lemmas `HandleMoves`, `CallMoves` and `ReturnMoves`
  reduce every action to one of replacing, covering and removing the frame on
  top.
* `LocksBalanced` is inductive with it, because only the frame on top of a
  stack may hold the mutex.
* `GilHeld`: a thread that encrypts, copies or writes has the GIL unless it is
  assigning an id.
* `BuffersHold`: what the two buffers contain is what the thread in the
  middle of a send has put there, unless an id was being assigned meanwhile.
  With `GilHeld` this gives `OwnFrames`: the lock of `encryptMessage` does not
  protect the buffer it returns, and the GIL does.

A thread that has kept the GIL needs no case of its own in these: `Release`
gives it back or leaves it, and no part says that it is free.

From `DispatchInv`, about `modules_`:

* `DisturbedByDisconnectOnly`. `SoundStack` says of every frame of the IO
  thread, and not only of those that are current, that its iterator is at its
  module or that a disconnection has ended since; `SoundLater` is the case of
  that disconnection. That nothing else disturbs an iterator is
  `OnlyRootBeneath`: the handlers that change `modules_` run directly on the
  select loop, so no callback of another handler is beneath them.
* `NoDisconnectNoHarm`. `Calm` is the invariant until the first disconnection:
  ids in `modules_` are distinct and below the next one but for the one that
  is being assigned (`Fresh`), and a module whose end the script has been told
  of is the one the IO thread is about to erase (`Counted`), which
  `OneHandler` makes unique.

**Local IPC** (`PyConnectLocal_proofs`), from `LocalAssumption`:

* `LocalTypeCorrect`, with `FilesInv`: files are told apart by their path, and
  a process that has cleaned and not yet bound finds its path free.
* `ListenersKeepTheirFiles`, with ids that may be used again at any time.
  `KeepInv` adds that the processes on a list of dead ones are dead still, or
  that their successors are `suspected`, and that a process from its bind to
  the close of its socket has its file unless it is suspected.
* `BroadcastsReachAll`. `ReachInv` adds that the other end of a connection that
  was closed is gone, or its successor is `mistaken`, that whoever is still
  expected listens, and that whoever is expected and not reached is still on
  the list (`Pending`).

**Framing** (`PyConnectFraming_proofs`), from `FramingAssumption`:
`FramingTypeCorrect` and `CacheNeverOverflows`, for any payloads, read size
and cuts, hence also for a reader that has lost its place. The argument is
that `StartBuffering` sets the sum of cached and expected bytes to a checked
length and `ContinueBuffering` keeps the sum.

* `FramingImplementsChannel` is the refinement the run checks, `Spec =>
  ChannelImplemented`: as long as the cuts are `clean`, every step is a step of
  `PyConnectChannel` or none. The invariant has to speak of all frames at once
  without recursion. `CleanInv` says that there are a stream `T` and positions
  `o` such that the frame of the `k`-th message stands in `T` behind `o[k]`
  (`Laid`), that the bytes in `input` and `stream` are the end of `T`, cut where
  the reader copes (`CutWell`), and that the reader is at the start of a frame
  or has cached the first bytes of a payload whose rest it expects
  (`InPlace`). A send puts a frame behind the others; every other step leaves
  `T` and `o` alone. `AtHeader` and `InPayload` say what the reader then sees:
  the length and the `@` it looks for are where it looks, so that it never
  gives up on a message (`NeverGivesUp`).
* `CleanCutsLoseNothing`: from the same invariant, `NothingLost` as long as
  the cuts are `clean`. Section 4 has what is lost otherwise.

**Codec** (`PyConnectCodec_proofs`), from `CodecAssumption` (numbers and
lengths below 2^15): `BufferIsExact`, and `IntRoundTrip`, that a packed number
is read back wherever in a buffer it stands. From it and its like for strings
(`StringRead`) follow `FieldsRoundTrip` and `RemainingIsTold`, for messages of
any length. As with the framing, no recursion is needed: `MessageInv` says that
there are offsets `o` such that the bytes behind `o[k]` are those of the `k`-th
field (`Pieces`), and that the receiver stands at the first byte of the next one
with all before it read (`ReadSoFar`). A field packed leaves the offsets of the
others alone (`PiecesGrow`); reading one moves to the next (`UnpackReads`).

`CleanInv` of the framing and `MessageInv` quantify over positions or offsets,
which are functions on the natural numbers: TLC cannot evaluate them and checks
the properties that follow from them.

**Only model-checked.** `QuietMutual` where `PyConnect.connect` is used, which
is what its run `two_programs` has and the theorem excludes.
Liveness under fairness (`OfflineForgotten`, `ObjectAnnounced`,
`EventuallyDelivered`, `CallsAnswered`, `EverythingEnds`) is outside the
prover too.

## 6. Plan

Done: the session with its abstract registry, the calls with the abstract
mirror, the two threads of a server, the local broadcasts, the framing with
its abstract channel, the codec, and the proofs above. What is left:

`QuietMutual` with `PyConnect.connect`, whose second connection takes the place
of the first in both maps while messages are under way on each: proving it
needs the agreement of the two sides without `~Dials`.

## 7. Not modelled

* Encryption: a library call that turns any message into bytes; the framing is
  checked on arbitrary bytes instead.
* Peer servers: discovery of peers is marked as to be done in the source; peer
  messages keep no state.
* Python object protocol, reference counts, conversion of values other than
  the narrowing of numbers, argument binding templates: sequential code
  between the interpreter and the above.
* Disabling a transport while the process goes on: it frees nodes of
  `clientFDList_` that the list still reaches. There are macros for it, which
  no program of the repository uses. At the end of a process the same happens,
  which `PyConnectLocal.DisableIPCComm` has.
* Sockets' buffers filling up, descriptors that the system uses again for
  another connection between two steps, address discovery, multicast, and
  failing system calls other than connect and write to a closed connection.
* What the wrapped program does in its callbacks, other than changing its
  attributes.
* Windows variants of the same functions, samples and build files.
