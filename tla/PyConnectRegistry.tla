-------------------------- MODULE PyConnectRegistry --------------------------
(***************************************************************************)
(* What a PyConnect server promises to the Python script: the life of the  *)
(* objects that appear under the PyConnect module and the callbacks about  *)
(* them, without threads, ids on the wire, connections or messages.        *)
(***************************************************************************)
EXTENDS Naturals, Sequences

CONSTANTS Ids, Names

VARIABLES
    live,       \* the objects whose end was not told, as [id, name] records
    used,       \* every id given out by this process
    callbacks   \* the callbacks so far, in order

Object == [id : Ids, name : Names]
vars   == <<live, used, callbacks>>

Init == live = {} /\ used = {} /\ callbacks = <<>>

\* The script is called back about the object o.
Tell(what, o) == callbacks' = Append(callbacks, [what |-> what, id |-> o.id])

\* An object appears under a name that no live object has and an id that no
\* object ever had.
Appear(o) ==
    /\ o.id \notin used
    /\ \A p \in live : p.name # o.name
    /\ live' = live \cup {o} /\ used' = used \cup {o.id}
    /\ UNCHANGED callbacks

\* A live object has described itself and the script may use it.
Announce(o) ==
    /\ o \in live /\ Tell("onModuleCreated", o)
    /\ UNCHANGED <<live, used>>

\* An object ends and the script is told; nothing is told of it afterwards.
Vanish(o) ==
    /\ o \in live /\ Tell("onModuleDestroyed", o)
    /\ live' = live \ {o}
    /\ UNCHANGED used

\* The process ends or starts: nothing survives it.
Restart == live' = {} /\ used' = {} /\ callbacks' = <<>>

Next == (\E o \in Object : Appear(o) \/ Announce(o) \/ Vanish(o)) \/ Restart
Spec == Init /\ [][Next]_vars
=============================================================================
