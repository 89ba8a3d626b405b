---------------------------- MODULE PyConnectLocal ----------------------------
(***************************************************************************)
(* How servers and programs of one machine find each other: each listens   *)
(* on a socket file in /tmp that is named after its role and process id,   *)
(* and broadcasts by connecting to the files of the other role.            *)
(*                                                                         *)
(* Processes stop at any point, cleanly or not, and their ids are used     *)
(* again.  Whatever a process does between taking g_mutex and releasing it *)
(* excludes its other thread, but no other process.                        *)
(***************************************************************************)
EXTENDS Integers, FiniteSets

CONSTANTS
    Pids,
    Python2,   \* the server runs finiPyConnect when it exits
    MaxOps     \* bound on starts, broadcasts, stops

ASSUME LocalAssumption == Python2 \in BOOLEAN /\ MaxOps \in Nat

VARIABLES
    role,    \* by id: "srv", "mod", "other", or "none" if no process has it
    phase,   \* where it is in enableIPCComm, localBroadcastSend, disableIPCComm
    files,   \* the socket files, each [role, pid, bound]; bound ones belong
             \* to the socket of a running process
    dead,    \* deadSocketList of consolidateIPCSockets
    live,    \* liveServerSocketList_
    talkers, \* the entries of clientFDList_ with a localProcID, each
             \* [pid, open]; the peers of the others are gone
    \* history that only properties read
    expected, reached,  \* whom the last broadcast should and did reach
    killed,  \* the roles that were killed by a broadcast of their own
    suspected, mistaken, \* the ids whose process started while another had the
             \* id on its list of dead, or a connection to its earlier process
    ops

lists   == <<dead, live, talkers>>
reuse   == <<suspected, mistaken>>
history == <<expected, reached, killed, reuse>>
vars    == <<role, phase, files, lists, history, ops>>

Op == ops < MaxOps /\ ops' = ops + 1

Other(r)     == IF r = "srv" THEN "mod" ELSE "srv"
Path(p)      == [role |-> role[p], pid |-> p]
PathOf(f)    == [role |-> f.role, pid |-> f.pid]
Listening(p) == role[p] # "none" /\ phase[p] \in {"idle", "clean", "talk"}

-----------------------------------------------------------------------------
(* Processes come and go.                                                  *)

\* An id is used again as soon as its process is gone, although others may
\* still have to do with that process.
Reuse(p) ==
    /\ suspected' = (suspected \ {p}) \cup {q \in {p} : \E o \in Pids : q \in dead[o]}
    /\ mistaken' = (mistaken \ {p})
         \cup {q \in {p} : \E o \in Pids : \E e \in talkers[o] : e.pid = q}

Start(p, r) ==
    /\ Op /\ role[p] = "none"
    /\ role' = [role EXCEPT ![p] = r]
    /\ phase' = [phase EXCEPT ![p] = IF r = "other" THEN "running" ELSE "new"]
    /\ Reuse(p)
    /\ UNCHANGED <<files, lists, expected, reached, killed>>

\* Connections of p end, whichever side made them.
Hangup(p) ==
    talkers' = [q \in Pids |-> IF q = p THEN {} ELSE
                  {[e EXCEPT !.open = e.open /\ e.pid # p] : e \in talkers[q]}]
Leaves(p) ==
    /\ expected' = [q \in Pids |-> IF q = p THEN {} ELSE expected[q] \ {p}]
    /\ reached' = [reached EXCEPT ![p] = {}]

\* The system closes the sockets of p: files stay, connections end.
Stop(p) ==
    /\ role' = [role EXCEPT ![p] = "none"]
    /\ phase' = [phase EXCEPT ![p] = "none"]
    /\ files' = {[f EXCEPT !.bound = f.bound /\ f.pid # p] : f \in files}
    /\ dead' = [dead EXCEPT ![p] = {}] /\ live' = [live EXCEPT ![p] = {}]
    /\ Hangup(p) /\ Leaves(p)

\* A crash, or the end of a Python 3 engine, which registers no finiPyConnect.
Crash(p) ==
    /\ Op /\ role[p] # "none"
    /\ Stop(p)
    /\ UNCHANGED <<killed, reuse>>

-----------------------------------------------------------------------------
(* consolidateIPCSockets: a scan, then one unlink after the other.         *)

\* Fault: no id matches, as when its digits do not fit procIDStr.
ScanNone(p) ==
    /\ dead' = [dead EXCEPT ![p] = {f.pid : f \in {g \in files : g.role = Other(role[p])}}]
    /\ live' = [live EXCEPT ![p] = {}]

Scan(p) ==
    LET found == {f.pid : f \in {g \in files : g.role = Other(role[p])}}
    IN /\ live' = [live EXCEPT ![p] = {q \in found : role[q] # "none"}]
       /\ dead' = [dead EXCEPT ![p] = {q \in found : role[q] = "none"}]

Unlink(p, q) ==
    /\ files' = {f \in files : PathOf(f) # [role |-> Other(role[p]), pid |-> q]}
    /\ dead' = [dead EXCEPT ![p] = @ \ {q}]

RemoveDead(p) ==
    /\ phase[p] \in {"cleanFirst", "clean"}
    /\ \E q \in dead[p] : Unlink(p, q)
    /\ UNCHANGED <<role, phase, live, talkers, history, ops>>

-----------------------------------------------------------------------------
(* enableIPCComm                                                           *)

\* Fault: the file that is there is left.
EnableOver(p) ==
    /\ phase[p] = "new"
    /\ Scan(p)
    /\ phase' = [phase EXCEPT ![p] = "cleanFirst"]
    /\ UNCHANGED <<role, files, talkers, history, ops>>

EnableIPCComm(p) ==
    /\ phase[p] = "new"
    /\ files' = {f \in files : PathOf(f) # Path(p)}
    /\ Scan(p)
    /\ phase' = [phase EXCEPT ![p] = "cleanFirst"]
    /\ UNCHANGED <<role, talkers, history, ops>>

Bind(p) ==
    /\ phase[p] = "cleanFirst" /\ dead[p] = {}
    /\ files' = files \cup {[role |-> role[p], pid |-> p, bound |-> TRUE]}
    /\ phase' = [phase EXCEPT ![p] = "bound"]
    /\ UNCHANGED <<role, lists, history, ops>>

Listen(p) ==
    /\ phase[p] = "bound"
    /\ phase' = [phase EXCEPT ![p] = "idle"]
    /\ UNCHANGED <<role, files, lists, history, ops>>

-----------------------------------------------------------------------------
(* localBroadcastSend, under g_mutex                                       *)

Broadcast(p) ==
    /\ Op /\ phase[p] = "idle"
    /\ Scan(p)
    /\ phase' = [phase EXCEPT ![p] = "clean"]
    /\ expected' = [expected EXCEPT ![p] =
         {q \in Pids : role[q] = Other(role[p]) /\ Listening(q)}]
    /\ reached' = [reached EXCEPT ![p] = {}]
    /\ UNCHANGED <<role, files, talkers, killed, reuse>>

Cleaned(p) ==
    /\ phase[p] = "clean" /\ dead[p] = {}
    /\ phase' = [phase EXCEPT ![p] = "talk"]
    /\ UNCHANGED <<role, files, lists, history, ops>>

\* Fault: any local connection will do.
TalkerAny(p, q) == talkers[p]

\* findFdFromClientListByProcID
Talker(p, q) == {e \in talkers[p] : e.pid = q}

\* A connection to q is used again.  If q has closed it the signal SIGPIPE
\* kills a program; the Python engine ignores it.
TalkAgain(p, q) ==
    /\ phase[p] = "talk" /\ q \in live[p]
    /\ \E e \in Talker(p, q) :
         IF e.open \/ role[p] = "srv"
         THEN /\ live' = [live EXCEPT ![p] = @ \ {q}]
              /\ reached' = IF e.open THEN [reached EXCEPT ![p] = @ \cup {e.pid}]
                            ELSE reached
              /\ UNCHANGED <<role, phase, files, dead, talkers, expected, killed>>
         ELSE Stop(p) /\ killed' = killed \cup {role[p]}
    /\ UNCHANGED <<reuse, ops>>

CanConnect(p, q) ==
    [role |-> Other(role[p]), pid |-> q, bound |-> TRUE] \in files /\ Listening(q)

\* findOrCreateIPCTalker
Connect(p, q) ==
    /\ phase[p] = "talk" /\ q \in live[p] /\ Talker(p, q) = {}
    /\ CanConnect(p, q)
    /\ talkers' = [talkers EXCEPT ![p] = @ \cup {[pid |-> q, open |-> TRUE]}]
    /\ reached' = [reached EXCEPT ![p] = @ \cup {q}]
    /\ live' = [live EXCEPT ![p] = @ \ {q}]
    /\ UNCHANGED <<role, phase, files, dead, expected, killed, reuse, ops>>

\* The socket that could not be connected is closed and added all the same:
\* setLastUsedCommChannel calls abort() for an invalid one.
ConnectFails(p, q) ==
    /\ phase[p] = "talk" /\ q \in live[p] /\ Talker(p, q) = {}
    /\ ~CanConnect(p, q)
    /\ Stop(p) /\ killed' = killed \cup {role[p]}
    /\ UNCHANGED <<reuse, ops>>

EndBroadcast(p) ==
    /\ phase[p] = "talk" /\ live[p] = {}
    /\ phase' = [phase EXCEPT ![p] = "idle"]
    /\ UNCHANGED <<role, files, lists, history, ops>>

-----------------------------------------------------------------------------
\* The select loop reads the end of a connection.
ReadEnd(p) ==
    /\ phase[p] = "idle"
    /\ \E e \in talkers[p] :
         ~e.open /\ talkers' = [talkers EXCEPT ![p] = @ \ {e}]
    /\ UNCHANGED <<role, phase, files, dead, live, history, ops>>

\* disableIPCComm as part of fini: connections are closed, then the file goes.
\* disableNetComm, which ran before, has freed the nodes of its connections and
\* left them in clientFDList_: the walk through them may end early, and what it
\* did not get to is closed when the process ends, or it kills the process.
DisableIPCComm(p) ==
    /\ Op /\ phase[p] = "idle" /\ (Python2 \/ role[p] = "mod")
    /\ \/ /\ phase' = [phase EXCEPT ![p] = "closed"]
          /\ Hangup(p) \/ UNCHANGED talkers
          /\ Leaves(p)
          /\ UNCHANGED <<role, files, dead, live>>
       \/ Stop(p)
    /\ UNCHANGED <<killed, reuse>>

Exit(p) ==
    /\ phase[p] = "closed"
    /\ role' = [role EXCEPT ![p] = "none"]
    /\ phase' = [phase EXCEPT ![p] = "none"]
    /\ files' = {f \in files : PathOf(f) # Path(p)}
    /\ Hangup(p)
    /\ UNCHANGED <<dead, live, history, ops>>

-----------------------------------------------------------------------------
Init ==
    /\ role = [p \in Pids |-> "none"] /\ phase = [p \in Pids |-> "none"]
    /\ files = {}
    /\ dead = [p \in Pids |-> {}] /\ live = [p \in Pids |-> {}]
    /\ talkers = [p \in Pids |-> {}]
    /\ expected = [p \in Pids |-> {}] /\ reached = [p \in Pids |-> {}]
    /\ killed = {} /\ suspected = {} /\ mistaken = {} /\ ops = 0

Next == \E p \in Pids :
    \/ \E r \in {"srv", "mod", "other"} : Start(p, r)
    \/ Crash(p) \/ RemoveDead(p)
    \/ EnableIPCComm(p) \/ Bind(p) \/ Listen(p)
    \/ Broadcast(p) \/ Cleaned(p) \/ EndBroadcast(p)
    \/ \E q \in Pids : TalkAgain(p, q) \/ Connect(p, q) \/ ConnectFails(p, q)
    \/ ReadEnd(p) \/ DisableIPCComm(p) \/ Exit(p)

Spec == Init /\ [][Next]_vars

-----------------------------------------------------------------------------
(* Properties.                                                             *)

\* The types of all variables; no two files have one path, so a bind never
\* finds its path taken.
TypeOK ==
    /\ role \in [Pids -> {"none", "srv", "mod", "other"}]
    /\ phase \in [Pids -> {"none", "new", "cleanFirst", "bound", "idle",
                           "clean", "talk", "closed", "running"}]
    /\ files \subseteq [role : {"srv", "mod"}, pid : Pids, bound : BOOLEAN]
    /\ \A f, g \in files : PathOf(f) = PathOf(g) => f = g
    /\ {dead[p] : p \in Pids} \cup {live[p] : p \in Pids} \subseteq SUBSET Pids
    /\ talkers \in [Pids -> SUBSET [pid : Pids, open : BOOLEAN]]
    /\ {expected[p] : p \in Pids} \cup {reached[p] : p \in Pids} \subseteq SUBSET Pids
    /\ killed \subseteq {"srv", "mod"} /\ ops \in 0..MaxOps
    /\ suspected \cup mistaken \subseteq Pids

\* Another process's cleaning takes the file a process listens on in one case
\* only: the id was on that other's list of dead when the process started (the
\* look at the process and the unlink are not one step, NetComm.cpp:845).
\* Neither an early start or bind nor a file or a process of the same id that
\* was there before costs it its file.
LiveFileKept ==
    \A p \in Pids : Listening(p) =>
        p \in suspected \/ [role |-> role[p], pid |-> p, bound |-> TRUE] \in files

\* A broadcast that has ended has reached every process of the other role
\* that was listening when it began and has not stopped since
\* (NetComm.cpp:588), but for those it may have taken for an earlier process
\* of their id: their file went with that, or a connection to it was used.
ReachedAll ==
    \A p \in Pids : phase[p] = "idle" =>
        expected[p] \subseteq reached[p] \cup suspected \cup mistaken

\* The doc's claim that the failure of a program leaves the Python engine
\* alone (README.md:25): no broadcast kills the server that makes it.
EngineSurvives == "srv" \notin killed
=============================================================================
