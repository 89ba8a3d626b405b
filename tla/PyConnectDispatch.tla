-------------------------- MODULE PyConnectDispatch --------------------------
(***************************************************************************)
(* The two threads of a server: the Python engine, which runs the script,  *)
(* and the IO thread of the extension module, which reads the connections  *)
(* and calls the script back.                                              *)
(*                                                                         *)
(* Three locks order them: the GIL, which a thread gives up between two    *)
(* steps of Python code but never inside the extension's C++ code;         *)
(* g_mutex, which is recursive and guards the client list, the dispatch    *)
(* buffer and the writes; and t_mutex_2, which guards the encryption but   *)
(* not the buffer that encryptMessage returns.  modules_ has no lock but   *)
(* the GIL, and is searched without it.                                    *)
(*                                                                         *)
(* Each thread is a stack of procedure frames; a step is taken by the top. *)
(***************************************************************************)
EXTENDS Integers, Sequences

CONSTANTS
    Known,     \* ids 1..Known are registered at the start
    None,
    MaxId, MaxDepth, MaxOps   \* bounds: ids, frames of a thread, operations

ASSUME DispatchAssumption ==
    /\ MaxId \in Nat /\ Known \in 0..MaxId
    /\ MaxDepth \in Nat \ {0} /\ MaxOps \in Nat
    /\ None \notin {"io", "py"}

VARIABLES
    gil, mutex,      \* their owners; g_mutex also counts
    encrypting,      \* the owner of t_mutex_2
    encryptbuffer, dispatchBuffer,
    modules,         \* modules_, a vector of PyConnectObjects: their ids
    nextObjId,
    objCommMap,      \* the ids that have a channel
    stack,
    kept,            \* a handler of the IO thread has returned with the GIL
    up,              \* the process has not been killed
    \* history that only properties read
    wire,            \* what was sent and what was written
    destroyed,       \* by id: the calls of onModuleDestroyed
    begun, ended,    \* the calls of PyConnect.disconnect that found a module,
                     \* and those that have erased it
    ops

locks   == <<gil, mutex, encrypting>>
buffers == <<encryptbuffer, dispatchBuffer, wire>>
objects == <<modules, nextObjId, objCommMap, kept, up, destroyed, begun, ended>>
vars    == <<locks, buffers, objects, stack, ops>>

Threads == {"io", "py"}
Id      == 1..MaxId
Op      == ops < MaxOps /\ ops' = ops + 1

-----------------------------------------------------------------------------
(* Frames.  "pos" is an iterator of modules_, 0 if it is unset or dangling *)
(* after a reallocation; "seen" is history: "ended" when pos was set.      *)

Frame(at, kind, id) == [at |-> at, kind |-> kind, id |-> id, pos |-> 0, seen |-> 0]
Send(kind, id)      == Frame("encrypt", kind, id)
Callback            == Frame("python", "callback", 0)

Top(t)       == Head(stack[t])
At(t, at)    == Top(t).at = at
Moved(t, at) == <<[Top(t) EXCEPT !.at = at]>> \o Tail(stack[t])

Goto(t, at)        == stack' = [stack EXCEPT ![t] = Moved(t, at)]
Call(t, at, frame) == stack' = [stack EXCEPT ![t] = <<frame>> \o Moved(t, at)]
Return(t)          == stack' = [stack EXCEPT ![t] = Tail(@)]

Free         == [owner |-> None, depth |-> 0]
\* Fault: the mutex has the default attributes.
LockablePlain(t) == mutex.owner = None
Lockable(t)  == mutex.owner \in {None, t}
Lock(t)      == Lockable(t) /\ mutex' = [owner |-> t, depth |-> mutex.depth + 1]
\* Fault: the owner is not reset.
UnlockOwned  == mutex' = [mutex EXCEPT !.depth = @ - 1]
Unlock       == mutex' = IF mutex.depth = 1 THEN Free
                         ELSE [mutex EXCEPT !.depth = @ - 1]

-----------------------------------------------------------------------------
(* Sending: clientDataSend, and localBroadcastSend for discoveries.        *)

Message(frame) == [kind |-> frame.kind, id |-> frame.id, whole |-> TRUE]

BeginEncrypt(t) ==
    /\ At(t, "encrypt") /\ encrypting = None
    /\ encrypting' = t
    /\ encryptbuffer' = [Message(Top(t)) EXCEPT !.whole = FALSE]
    /\ Goto(t, "encrypting")
    /\ UNCHANGED <<gil, mutex, dispatchBuffer, wire, objects, ops>>

EndEncrypt(t) ==
    /\ At(t, "encrypting")
    /\ encryptbuffer' = Message(Top(t)) /\ encrypting' = None
    /\ Goto(t, "lock")
    /\ UNCHANGED <<gil, mutex, dispatchBuffer, wire, objects, ops>>

LockToSend(t) ==
    /\ At(t, "lock") /\ Lock(t) /\ Goto(t, "copy")
    /\ UNCHANGED <<gil, encrypting, buffers, objects, ops>>

\* findOrAddCommChanByMsgID: an assignment maps its module to the channel in use.
Copy(t) ==
    /\ At(t, "copy")
    /\ objCommMap' = objCommMap \cup (IF Top(t).kind = "assign" THEN {Top(t).id} ELSE {})
    /\ Top(t).kind = "discover" \/ Top(t).id \in objCommMap'
    /\ dispatchBuffer' = encryptbuffer
    /\ Goto(t, IF Top(t).kind = "discover" THEN "talk" ELSE "write")
    /\ UNCHANGED <<locks, encryptbuffer, wire, modules, nextObjId, kept, up,
                   destroyed, begun, ended, ops>>

\* Fault: an early return without unlocking.
NoChannelReturn(t) ==
    /\ At(t, "copy") /\ Top(t).kind \notin {"assign", "discover"}
    /\ Top(t).id \notin objCommMap
    /\ Return(t)
    /\ UNCHANGED <<locks, buffers, objects, ops>>

\* "invalid socket found"
NoChannel(t) ==
    /\ At(t, "copy") /\ Top(t).kind \notin {"assign", "discover"}
    /\ Top(t).id \notin objCommMap
    /\ Unlock /\ Return(t)
    /\ UNCHANGED <<gil, encrypting, buffers, objects, ops>>

\* findOrCreateIPCTalker adds a connection, which locks again.
Talk(t) ==
    /\ At(t, "talk") /\ Lock(t) /\ Goto(t, "talking")
    /\ UNCHANGED <<gil, encrypting, buffers, objects, ops>>

Talked(t) ==
    /\ At(t, "talking") /\ Unlock /\ Goto(t, "write")
    /\ UNCHANGED <<gil, encrypting, buffers, objects, ops>>

Write(t) ==
    /\ At(t, "write")
    /\ wire' = wire \cup {[sent |-> Message(Top(t)), written |-> dispatchBuffer]}
    /\ Unlock /\ Return(t)
    /\ UNCHANGED <<gil, encrypting, encryptbuffer, dispatchBuffer, objects, ops>>

Sending(t) ==
    \/ BeginEncrypt(t) \/ EndEncrypt(t) \/ LockToSend(t) \/ Copy(t)
    \/ NoChannel(t) \/ Talk(t) \/ Talked(t) \/ Write(t)

-----------------------------------------------------------------------------
(* modules_.                                                               *)

Found(id) == \E i \in DOMAIN modules : modules[i] = id
Find(id)  == CHOOSE i \in DOMAIN modules : modules[i] = id
Looked(frame, id) == [frame EXCEPT !.pos = Find(id), !.seen = ended]

WithoutAt(q, i) == [k \in 1..(Len(q) - 1) |-> IF k < i THEN q[k] ELSE q[k + 1]]

\* A pointer to an object that another thread, or a callback, has erased.
Dangling(frame) ==
    \/ frame.pos \notin DOMAIN modules
    \/ frame.kind = "disconnect" /\ ~Found(frame.id)

\* modules_.erase(miter): past the end it moves nothing, or all of memory.
Erase(frame) ==
    \/ Dangling(frame) /\ up' = FALSE /\ UNCHANGED modules
    \/ /\ frame.pos \in DOMAIN modules \/ modules # <<>>
       /\ modules' = WithoutAt(modules, IF frame.pos \in DOMAIN modules
                                        THEN frame.pos ELSE Len(modules))
       /\ UNCHANGED up

\* invokeCallback(.., "onModuleDestroyed", ..)
Destroy(t) ==
    /\ At(t, "destroy")
    /\ up' \in {TRUE, ~Dangling(Top(t))}
    /\ destroyed' = [destroyed EXCEPT ![Top(t).id] = @ + 1]
    /\ Call(t, "erase", Callback)
    /\ UNCHANGED <<locks, buffers, modules, nextObjId, objCommMap, kept, begun, ended,
                   ops>>

\* PyGILState_Release: a thread that has kept the GIL once never gives it back.
Release == gil' = IF kept THEN gil ELSE None

\* Fault: the module stays in modules_.
EraseNothing ==
    /\ At("io", "erase") /\ Top("io").kind # "disconnect"
    /\ Release
    /\ IF Top("io").kind = "closed" THEN Goto("io", "unmap") ELSE Return("io")
    /\ UNCHANGED <<mutex, encrypting, buffers, objects, ops>>

\* deleteModuleByID ends; its caller forgets the channel if that was closed.
EraseByID ==
    /\ At("io", "erase") /\ Top("io").kind # "disconnect"
    /\ Erase(Top("io"))
    /\ Release
    /\ IF Top("io").kind = "closed" THEN Goto("io", "unmap") ELSE Return("io")
    /\ UNCHANGED <<mutex, encrypting, buffers, nextObjId, objCommMap, kept, destroyed,
                   begun, ended, ops>>

\* shutdownModuleByRef ends.
EraseByRef(t) ==
    /\ At(t, "erase") /\ Top(t).kind = "disconnect"
    /\ Erase(Top(t))
    /\ ended' = ended + 1
    /\ Return(t)
    /\ UNCHANGED <<locks, buffers, nextObjId, objCommMap, kept, destroyed, begun, ops>>

-----------------------------------------------------------------------------
(* The script, and the callbacks, on either thread.                        *)

Running(t) == gil = t /\ At(t, "python")
Room(t)    == Len(stack[t]) < MaxDepth

\* Fault: the GIL is given up around the calls of the C library.
YieldToSend(t) ==
    /\ gil = t /\ Top(t).at \in {"python", "lock"}
    /\ gil' = None
    /\ UNCHANGED <<mutex, encrypting, buffers, objects, stack, ops>>

Yield(t) ==
    /\ Running(t)
    /\ gil' = None
    /\ UNCHANGED <<mutex, encrypting, buffers, objects, stack, ops>>

Resume(t) ==
    /\ At(t, "python") /\ gil = None
    /\ gil' = t
    /\ UNCHANGED <<mutex, encrypting, buffers, objects, stack, ops>>

\* A script may still have an object whose module is gone.
CallMethod(t, id) ==
    /\ Running(t) /\ Room(t) /\ Op
    /\ id < nextObjId \/ Found(id)
    /\ Call(t, "python", Send("call", id))
    /\ UNCHANGED <<locks, buffers, objects>>

\* PyConnect_disconnect, shutdownModuleByRef
Disconnect(t, id) ==
    /\ Running(t) /\ Room(t) /\ Op
    /\ Found(id)
    /\ stack' = [stack EXCEPT ![t] =
         <<Send("shutdown", id), Looked(Frame("destroy", "disconnect", id), id)>> \o @]
    /\ begun' = begun + 1
    /\ UNCHANGED <<locks, buffers, modules, nextObjId, objCommMap, kept, up,
                   destroyed, ended>>

Discover(t) ==
    /\ Running(t) /\ Room(t) /\ Op
    /\ Call(t, "python", Send("discover", 0))
    /\ UNCHANGED <<locks, buffers, objects>>

CallbackReturns(t) ==
    /\ Running(t) /\ Top(t).kind = "callback"
    /\ Return(t)
    /\ UNCHANGED <<locks, buffers, objects, ops>>

Scripting(t) ==
    \/ Discover(t)
    \/ \E id \in Id : CallMethod(t, id) \/ Disconnect(t, id)

-----------------------------------------------------------------------------
(* The IO thread.                                                          *)

Begin(kind, id, at) ==
    /\ At("io", "select") /\ Op
    /\ Call("io", "select", Frame(at, kind, id))
    /\ UNCHANGED <<locks, buffers, objects>>

\* What select() reports: a declaration, a message or the shutdown of a
\* module, a message of a type the server does not know (as a program of
\* another version may send), the end of a connection.
Declared      == nextObjId <= MaxId /\ Begin("declare", 0, "touch")
Received(id)  == id \in objCommMap /\ Begin("message", id, "touch")
Unknown(id)   == id \in objCommMap /\ Begin("unknown", id, "touch")
Left(id)      == id \in objCommMap /\ Begin("shutdown", id, "touch")
Closed(id)    == id \in objCommMap /\ Begin("closed", id, "lookup")

\* setLastUsedCommChannel, under g_mutex
Touch ==
    /\ At("io", "touch") /\ Lockable("io")
    /\ Goto("io", IF Top("io").kind = "declare" THEN "gil" ELSE "lookup")
    /\ UNCHANGED <<locks, buffers, objects, ops>>

\* Fault: no test for the end of modules_.
LookupUnchecked ==
    /\ At("io", "lookup")
    /\ stack' = [stack EXCEPT !["io"] = <<[Top("io") EXCEPT !.at = "gil",
           !.pos = IF Found(Top("io").id) THEN Find(Top("io").id) ELSE 0,
           !.seen = ended]>> \o Tail(@)]
    /\ UNCHANGED <<locks, buffers, objects, ops>>

\* findModuleByID, and the same loop in deleteModuleByID: without the GIL
Lookup ==
    /\ At("io", "lookup")
    /\ LET m == Top("io")
       IN \/ /\ Found(m.id)
             /\ stack' = [stack EXCEPT !["io"] =
                  <<Looked([m EXCEPT !.at = "gil"], m.id)>> \o Tail(@)]
          \/ ~Found(m.id) /\ m.kind = "closed" /\ Goto("io", "unmap")
          \/ ~Found(m.id) /\ m.kind # "closed" /\ Return("io")
    /\ UNCHANGED <<locks, buffers, objects, ops>>

\* PyGILState_Ensure
TakeGil ==
    /\ At("io", "gil") /\ gil \in {None} \cup (IF kept THEN {"io"} ELSE {})
    /\ gil' = "io"
    /\ Goto("io", CASE Top("io").kind = "declare" -> "push"
                    [] Top("io").kind \in {"message", "unknown"} -> "use"
                    [] OTHER                      -> "destroy")
    /\ UNCHANGED <<mutex, encrypting, buffers, objects, ops>>

\* processInput works on the object, most often to call the script back.
Use ==
    /\ At("io", "use") /\ Top("io").kind = "message"
    /\ up' \in {TRUE, Found(Top("io").id)}
    /\ Goto("io", "drop") \/ Call("io", "drop", Callback)
    /\ UNCHANGED <<locks, buffers, modules, nextObjId, objCommMap, kept, destroyed,
                   begun, ended, ops>>

\* Its default branch returns at once.
Ignore ==
    /\ At("io", "use") /\ Top("io").kind = "unknown"
    /\ kept' = TRUE
    /\ Return("io")
    /\ UNCHANGED <<locks, buffers, modules, nextObjId, objCommMap, up, destroyed,
                   begun, ended, ops>>

Drop ==
    /\ At("io", "drop")
    /\ Release
    /\ Return("io")
    /\ UNCHANGED <<mutex, encrypting, buffers, objects, ops>>

\* addNewModule: push_back may reallocate modules_, so that an iterator of
\* the other thread dangles; then the GIL is released.
PushBack ==
    /\ At("io", "push")
    /\ modules' = Append(modules, nextObjId)
    /\ \E moved \in BOOLEAN :
         stack' = [io |-> <<[Top("io") EXCEPT !.at = "assign", !.id = nextObjId]>>
                          \o Tail(stack["io"]),
                   py |-> [i \in DOMAIN stack["py"] |->
                       IF moved THEN [stack["py"][i] EXCEPT !.pos = 0]
                       ELSE stack["py"][i]]]
    /\ Release
    /\ UNCHANGED <<mutex, encrypting, buffers, nextObjId, objCommMap, kept, up,
                   destroyed, begun, ended, ops>>

\* assignModuleID: without the GIL
Assign ==
    /\ At("io", "assign")
    /\ nextObjId' = nextObjId + 1
    /\ stack' = [stack EXCEPT !["io"] = <<Send("assign", Top("io").id)>> \o Tail(@)]
    /\ UNCHANGED <<locks, buffers, modules, objCommMap, kept, up, destroyed, begun,
                   ended, ops>>

\* objCommChannelShutdown
Unmap ==
    /\ At("io", "unmap")
    /\ objCommMap' = objCommMap \ {Top("io").id}
    /\ Goto("io", "close")
    /\ UNCHANGED <<locks, buffers, modules, nextObjId, kept, up, destroyed, begun,
                   ended, ops>>

\* destroyCurrentClient, under g_mutex
Close ==
    /\ At("io", "close") /\ Lockable("io")
    /\ Return("io")
    /\ UNCHANGED <<locks, buffers, objects, ops>>

Arrival ==
    \/ Declared
    \/ \E id \in Id : Received(id) \/ Unknown(id) \/ Left(id) \/ Closed(id)

Handling ==
    \/ Touch \/ Lookup \/ Use \/ Ignore \/ Drop \/ PushBack \/ Assign \/ Unmap \/ Close
    \/ EraseByID

-----------------------------------------------------------------------------
Init ==
    /\ gil = "py" /\ mutex = Free /\ encrypting = None
    /\ encryptbuffer = [kind |-> "none", id |-> 0, whole |-> TRUE]
    /\ dispatchBuffer = encryptbuffer /\ wire = {}
    /\ modules = [i \in 1..Known |-> i] /\ nextObjId = Known + 1
    /\ objCommMap = 1..Known /\ kept = FALSE /\ up = TRUE
    /\ destroyed = [id \in Id |-> 0] /\ begun = 0 /\ ended = 0
    /\ stack = [io |-> <<Frame("select", "io", 0)>>,
                py |-> <<Frame("python", "script", 0)>>]
    /\ ops = 0

\* What a thread goes on with; "Get" is where it needs the GIL.
Get(t) == Resume(t) \/ (t = "io" /\ TakeGil)
Run(t) ==
    \/ Sending(t) \/ Destroy(t) \/ EraseByRef(t) \/ CallbackReturns(t)
    \/ t = "io" /\ Handling

Next ==
    /\ up
    /\ \/ \E t \in Threads : Get(t) \/ Run(t) \/ Yield(t) \/ Scripting(t)
       \/ Arrival

Spec == Init /\ [][Next]_vars

\* The scheduler runs both threads, a thread that waits for a lock gets it in
\* the end (Python code is made to give up the GIL, and hands it over to a
\* thread that waits), and callbacks end.
FairSpec == Spec /\ \A t \in Threads :
    SF_vars(up /\ Get(t)) /\ SF_vars(up /\ Run(t)) /\ WF_vars(up /\ Yield(t))

-----------------------------------------------------------------------------
(* Properties.                                                             *)

Labels == {"python", "select", "encrypt", "encrypting", "lock", "copy", "talk",
           "talking", "write", "destroy", "erase", "touch", "lookup", "gil",
           "use", "drop", "push", "assign", "unmap", "close"}
Kinds  == {"none", "script", "callback", "io", "call", "disconnect", "discover",
           "assign", "declare", "message", "unknown", "shutdown", "closed"}
Frames == [at : Labels, kind : Kinds, id : 0..MaxId, pos : Nat, seen : Nat]
Content == [kind : Kinds, id : 0..MaxId, whole : BOOLEAN]

\* The types of all variables.
TypeOK ==
    /\ gil \in Threads \cup {None} /\ encrypting \in Threads \cup {None}
    /\ mutex \in [owner : Threads, depth : Nat \ {0}] \cup {Free}
    /\ encryptbuffer \in Content /\ dispatchBuffer \in Content
    /\ wire \subseteq [sent : Content, written : Content]
    /\ modules \in Seq(Id) /\ nextObjId \in 1..(MaxId + 1) /\ objCommMap \subseteq Id
    /\ stack \in [Threads -> Seq(Frames)] /\ \A t \in Threads : stack[t] # <<>>
    /\ kept \in BOOLEAN /\ up \in BOOLEAN /\ destroyed \in [Id -> Nat]
    /\ begun \in Nat /\ ended \in Nat /\ ops \in 0..MaxOps

\* Frames are written as they were sent, although the buffer that
\* encryptMessage returns is shared and unlocked, but for those that meet the
\* assignment of an id: assignModuleID alone sends without the GIL.
OwnFrames ==
    \A f \in wire : f.written = f.sent \/ "assign" \in {f.sent.kind, f.written.kind}

Held(at) == CASE at \in {"copy", "talk", "write"} -> 1
              [] at = "talking"                   -> 2
              [] OTHER                            -> 0

\* g_mutex is held exactly while something is copied and written, and given
\* back as often as it was taken.  So no thread takes the GIL, or runs Python
\* code, with g_mutex: the order of the locks is the GIL first.
LocksBalanced ==
    \A t \in Threads :
        (IF mutex.owner = t THEN mutex.depth ELSE 0) = Held(Top(t).at)

\* What the IO thread found in modules_ without the GIL is still there when
\* it has the GIL, unless a script has disconnected some module since; so no
\* other message, registration or end of a connection comes between.
OnlyDisconnectsDisturb ==
    \A i \in DOMAIN stack["io"] :
        LET m == stack["io"][i]
        IN m.at \in {"gil", "use", "drop", "destroy", "erase"} /\ m.kind # "declare"
           /\ m.seen = ended
           => m.pos \in DOMAIN modules /\ modules[m.pos] = m.id

\* As long as no script disconnects a module the process is not killed, and
\* onModuleDestroyed is called once at most for each module.
SafeWithoutDisconnect ==
    begun = 0 => up /\ \A id \in Id : destroyed[id] <= 1

\* Every callback, call of the extension and message comes to its end, but for
\* those of the script once the IO thread has kept the GIL.
EverythingEnds ==
    \A t \in Threads :
        Len(stack[t]) > 1 ~> (Len(stack[t]) = 1 \/ ~up \/ (t = "py" /\ kept))

\* A claim the code does not keep, on a message of unknown type: "invalid message
\* header! Ignore." (PyConnectStub.cpp:1046).  It has no effect on the script: a
\* thread that waits for the next message does not have the GIL.
UnknownIgnored == At("io", "select") => gil # "io"
=============================================================================
