----------------------- MODULE PyConnectLocal_proofs -----------------------
(***************************************************************************)
(* Theorems about socket files and local broadcasts, for any process ids   *)
(* and bounds.                                                             *)
(***************************************************************************)
EXTENDS PyConnectLocal, TLAPS

Roles  == {"none", "srv", "mod", "other"}
Phases == {"none", "new", "cleanFirst", "bound", "idle", "clean", "talk",
           "closed", "running"}
Files  == [role : {"srv", "mod"}, pid : Pids, bound : BOOLEAN]
File(p) == [role |-> role[p], pid |-> p, bound |-> TRUE]

\* TypeOK, with functions for the lists, and what a phase says of a role.
Types ==
    /\ role \in [Pids -> Roles] /\ phase \in [Pids -> Phases]
    /\ files \subseteq Files
    /\ dead \in [Pids -> SUBSET Pids] /\ live \in [Pids -> SUBSET Pids]
    /\ talkers \in [Pids -> SUBSET [pid : Pids, open : BOOLEAN]]
    /\ expected \in [Pids -> SUBSET Pids] /\ reached \in [Pids -> SUBSET Pids]
    /\ killed \subseteq {"srv", "mod"} /\ ops \in 0..MaxOps
    /\ suspected \subseteq Pids /\ mistaken \subseteq Pids

RolesFit == \A p \in Pids :
    /\ role[p] = "none" <=> phase[p] = "none"
    /\ role[p] = "other" <=> phase[p] = "running"

\* A file is the only one of its path, and while a process that is about to
\* bind cleans, the path it is going to use stays free.
PathsDistinct ==
    /\ \A f, g \in files : PathOf(f) = PathOf(g) => f = g
    /\ \A p \in Pids : phase[p] = "cleanFirst" => \A f \in files : PathOf(f) # Path(p)

FilesInv == Types /\ RolesFit /\ PathsDistinct

-----------------------------------------------------------------------------
LEMMA FilesInvInit == Init => FilesInv
  BY LocalAssumption DEF Init, FilesInv, Types, RolesFit, PathsDistinct, Roles,
     Phases, Files

\* What the end of a process does to its file.
LEMMA StopKeeps ==
    ASSUME FilesInv, NEW p \in Pids, Stop(p)
    PROVE  /\ files' \subseteq Files
           /\ \A f \in files' : \E g \in files : PathOf(f) = PathOf(g)
           /\ \A f, g \in files' : PathOf(f) = PathOf(g) => f = g
<1> DEFINE shut(f) == [f EXCEPT !.bound = f.bound /\ f.pid # p]
<1>1. \A f \in files : shut(f) \in Files /\ PathOf(shut(f)) = PathOf(f)
  BY DEF FilesInv, Types, Files, PathOf
<1>2. files' = {shut(f) : f \in files}
  BY DEF Stop
<1>3. files' \subseteq Files
  BY <1>1, <1>2
<1>4. \A f \in files' : \E g \in files : f = shut(g) /\ PathOf(f) = PathOf(g)
  BY <1>1, <1>2
<1>5. ASSUME NEW f \in files', NEW g \in files', PathOf(f) = PathOf(g)
      PROVE  f = g
  <2>1. PICK ff \in files : f = shut(ff) /\ PathOf(f) = PathOf(ff)
    BY <1>4
  <2>2. PICK gg \in files : g = shut(gg) /\ PathOf(g) = PathOf(gg)
    BY <1>4
  <2>3. ff = gg
    BY <1>5, <2>1, <2>2 DEF FilesInv, PathsDistinct
  <2> QED BY <2>1, <2>2, <2>3
<1> HIDE DEF shut
<1> QED BY <1>3, <1>4, <1>5

LEMMA GoneKeepsTypes ==
    ASSUME Types, NEW p \in Pids
    PROVE  /\ Hangup(p) => talkers' \in [Pids -> SUBSET [pid : Pids, open : BOOLEAN]]
           /\ Leaves(p) => /\ expected' \in [Pids -> SUBSET Pids]
                           /\ reached' \in [Pids -> SUBSET Pids]
<1> DEFINE E == [pid : Pids, open : BOOLEAN]
           shut(e) == [e EXCEPT !.open = e.open /\ e.pid # p]
           left(q) == IF q = p THEN {} ELSE {shut(e) : e \in talkers[q]}
<1>1. \A e \in E : shut(e) \in E
  <2> SUFFICES ASSUME NEW e \in E PROVE shut(e) \in E
    OBVIOUS
  <2>1. PICK x \in Pids, b \in BOOLEAN : e = [pid |-> x, open |-> b]
    OBVIOUS
  <2>2. (b /\ x # p) \in BOOLEAN
    OBVIOUS
  <2>3. shut(e) = [pid |-> x, open |-> (b /\ x # p)]
    BY <2>1
  <2> QED BY <2>2, <2>3
<1>2. ASSUME Hangup(p) PROVE talkers' \in [Pids -> SUBSET E]
  <2>1. talkers' = [q \in Pids |-> left(q)]
    BY <1>2 DEF Hangup
  <2>2. \A q \in Pids : talkers[q] \subseteq E
    BY DEF Types
  <2> HIDE DEF E, shut
  <2>3. \A q \in Pids : left(q) \subseteq E
    BY <1>1, <2>2
  <2> HIDE DEF left
  <2> QED BY <2>1, <2>3
<1>3. Leaves(p) => expected' \in [Pids -> SUBSET Pids] /\ reached' \in [Pids -> SUBSET Pids]
  BY DEF Leaves, Types
<1> QED BY <1>2, <1>3

LEMMA StopFilesInv ==
    ASSUME FilesInv, NEW p \in Pids, Stop(p), killed' \subseteq {"srv", "mod"},
           ops' \in 0..MaxOps, UNCHANGED reuse
    PROVE  FilesInv'
<1> USE DEF FilesInv
<1>1. Types'
  <2>1. role' \in [Pids -> Roles] /\ phase' \in [Pids -> Phases]
        /\ dead' \in [Pids -> SUBSET Pids] /\ live' \in [Pids -> SUBSET Pids]
    BY DEF Types, Stop, Roles, Phases
  <2>2. Hangup(p) /\ Leaves(p)
    BY DEF Stop
  <2> QED BY <2>1, <2>2, StopKeeps, GoneKeepsTypes DEF Types, reuse
<1>2. RolesFit'
  BY DEF RolesFit, Stop, Types
<1>3. PathsDistinct'
  <2>1. \A f, g \in files' : PathOf(f) = PathOf(g) => f = g
    BY StopKeeps
  <2>2. ASSUME NEW q \in Pids, phase'[q] = "cleanFirst", NEW f \in files'
        PROVE  PathOf(f) # Path(q)'
    <3>1. q # p /\ phase[q] = "cleanFirst" /\ role'[q] = role[q]
      BY <2>2 DEF Stop, Types
    <3>2. PICK g \in files : PathOf(f) = PathOf(g)
      BY StopKeeps
    <3> QED BY <3>1, <3>2 DEF PathsDistinct, Path
  <2> QED BY <2>1, <2>2 DEF PathsDistinct, PathOf
<1> QED BY <1>1, <1>2, <1>3

LEMMA FilesInvNext == FilesInv /\ [Next]_vars => FilesInv'
<1> SUFFICES ASSUME FilesInv, [Next]_vars
             PROVE  FilesInv'
  OBVIOUS
<1> USE LocalAssumption DEF FilesInv
<1>0. ops \in 0..MaxOps /\ (Op => ops' \in 0..MaxOps)
  BY DEF Op, Types
<1>1. CASE UNCHANGED vars
  BY <1>1 DEF vars, lists, history, reuse, Types, RolesFit, PathsDistinct, PathOf, Path
<1>2. ASSUME NEW p \in Pids, NEW r \in {"srv", "mod", "other"}, Start(p, r)
      PROVE  FilesInv'
  <2>1. Types' /\ RolesFit'
    BY <1>0, <1>2 DEF Start, Reuse, Types, RolesFit, Roles, Phases, lists
  <2>2. PathsDistinct'
    BY <1>2 DEF Start, Types, PathsDistinct, PathOf, Path
  <2> QED BY <2>1, <2>2
<1>3. ASSUME NEW p \in Pids, Crash(p) PROVE FilesInv'
  BY <1>0, <1>3, StopFilesInv DEF Crash, Types
<1>4. ASSUME NEW p \in Pids, RemoveDead(p) PROVE FilesInv'
  <2>1. PICK q \in dead[p] : Unlink(p, q)
    BY <1>4 DEF RemoveDead
  <2>2. files' \subseteq files /\ dead' \in [Pids -> SUBSET Pids]
    BY <2>1 DEF Unlink, Types
  <2>3. Types' /\ RolesFit'
    BY <1>4, <2>2 DEF RemoveDead, Types, RolesFit, history, reuse
  <2>4. PathsDistinct'
    BY <1>4, <2>2 DEF RemoveDead, PathsDistinct, Path, PathOf
  <2> QED BY <2>3, <2>4
<1>5. ASSUME NEW p \in Pids, EnableIPCComm(p) PROVE FilesInv'
  <2>1. dead' \in [Pids -> SUBSET Pids] /\ live' \in [Pids -> SUBSET Pids]
    BY <1>5 DEF EnableIPCComm, Scan, Types, Files
  <2>2. Types' /\ RolesFit'
    BY <1>5, <2>1 DEF EnableIPCComm, Types, RolesFit, Phases, history, reuse
  <2>3. PathsDistinct'
    BY <1>5 DEF EnableIPCComm, PathsDistinct, Path, PathOf, Types
  <2> QED BY <2>2, <2>3
<1>6. ASSUME NEW p \in Pids, Bind(p) PROVE FilesInv'
  <2>1. role[p] \in {"srv", "mod"}
    BY <1>6 DEF Bind, RolesFit, Types, Roles
  <2>5. File(p) \in Files /\ files' = files \cup {File(p)}
    BY <1>6, <2>1 DEF Bind, Files, File
  <2>2. files' \subseteq Files /\ phase' \in [Pids -> Phases] /\ RolesFit'
    BY <1>6, <2>1, <2>5 DEF Bind, Types, RolesFit, Phases
  <2>4. Types'
    BY <1>6, <2>2 DEF Bind, Types, lists, history, reuse
  <2>3. PathsDistinct'
    <3>1. \A f \in files : PathOf(f) # Path(p)
      BY <1>6 DEF Bind, PathsDistinct
    <3>2. files' = files \cup {File(p)} /\ PathOf(File(p)) = Path(p)
      BY <1>6 DEF Bind, File, PathOf, Path
    <3>3. \A q \in Pids : phase'[q] = "cleanFirst" =>
             q # p /\ phase[q] = "cleanFirst" /\ Path(q)' = Path(q) /\ Path(q) # Path(p)
      BY <1>6 DEF Bind, Types, Path
    <3> HIDE DEF File
    <3> QED BY <3>1, <3>2, <3>3 DEF PathsDistinct, PathOf
  <2> QED BY <2>2, <2>3, <2>4
<1>7. ASSUME NEW p \in Pids, Listen(p) \/ Cleaned(p) \/ EndBroadcast(p)
      PROVE  FilesInv'
  <2>1. /\ \E ph \in {"idle", "talk"} : phase' = [phase EXCEPT ![p] = ph]
        /\ phase[p] \in {"bound", "clean", "talk"}
        /\ UNCHANGED <<role, files, lists, history, ops>>
    BY <1>7 DEF Listen, Cleaned, EndBroadcast
  <2>2. Types' /\ RolesFit'
    BY <2>1 DEF Types, RolesFit, Phases, lists, history, reuse
  <2>3. PathsDistinct'
    BY <2>1 DEF Types, PathsDistinct, Path, PathOf
  <2> QED BY <2>2, <2>3
<1>8. ASSUME NEW p \in Pids, Broadcast(p) PROVE FilesInv'
  <2>1. dead' \in [Pids -> SUBSET Pids] /\ live' \in [Pids -> SUBSET Pids]
    BY <1>8 DEF Broadcast, Scan, Types, Files
  <2> QED BY <1>0, <1>8, <2>1 DEF Broadcast, Types, RolesFit, PathsDistinct,
          Path, PathOf, Phases, reuse
<1>9. ASSUME NEW p \in Pids, NEW q \in Pids, TalkAgain(p, q) PROVE FilesInv'
  <2>1. PICK e \in Talker(p, q) :
          IF e.open \/ role[p] = "srv"
          THEN /\ live' = [live EXCEPT ![p] = @ \ {q}]
               /\ reached' = IF e.open THEN [reached EXCEPT ![p] = @ \cup {e.pid}]
                             ELSE reached
               /\ UNCHANGED <<role, phase, files, dead, talkers, expected, killed>>
          ELSE Stop(p) /\ killed' = killed \cup {role[p]}
    BY <1>9 DEF TalkAgain
  <2>2. e.pid = q
    BY <2>1 DEF Talker
  <2>3. CASE e.open \/ role[p] = "srv"
    <3>1. UNCHANGED <<role, phase, files, dead, talkers, expected, killed, reuse, ops>>
      BY <1>9, <2>1, <2>3 DEF TalkAgain
    <3>2. live' \in [Pids -> SUBSET Pids] /\ reached' \in [Pids -> SUBSET Pids]
      BY <2>1, <2>2, <2>3 DEF Types
    <3> QED BY <3>1, <3>2 DEF Types, RolesFit, PathsDistinct, Path, PathOf, reuse
  <2>4. CASE ~(e.open \/ role[p] = "srv")
    <3>1. role[p] = "mod"
      BY <1>9, <2>4 DEF TalkAgain, RolesFit, Types, Roles
    <3> QED BY <1>0, <1>9, <2>1, <2>4, <3>1, StopFilesInv DEF TalkAgain, Types
  <2> QED BY <2>3, <2>4
<1>10. ASSUME NEW p \in Pids, NEW q \in Pids, Connect(p, q) PROVE FilesInv'
  <2>1. UNCHANGED <<role, phase, files, dead, expected, killed, reuse, ops>>
    BY <1>10 DEF Connect
  <2>2. talkers' \in [Pids -> SUBSET [pid : Pids, open : BOOLEAN]]
        /\ reached' \in [Pids -> SUBSET Pids] /\ live' \in [Pids -> SUBSET Pids]
    <3>1. [pid |-> q, open |-> TRUE] \in [pid : Pids, open : BOOLEAN]
      OBVIOUS
    <3> DEFINE e == [pid |-> q, open |-> TRUE]
    <3>2. talkers' = [talkers EXCEPT ![p] = @ \cup {e}]
      BY <1>10 DEF Connect
    <3>3. live' = [live EXCEPT ![p] = @ \ {q}] /\ reached' = [reached EXCEPT ![p] = @ \cup {q}]
      BY <1>10 DEF Connect
    <3> HIDE DEF e
    <3> QED BY <3>1, <3>2, <3>3 DEF Types, e
  <2> QED BY <2>1, <2>2 DEF Types, RolesFit, PathsDistinct, Path, PathOf, reuse
<1>11. ASSUME NEW p \in Pids, NEW q \in Pids, ConnectFails(p, q) PROVE FilesInv'
  <2>1. role[p] \in {"srv", "mod"}
    BY <1>11 DEF ConnectFails, RolesFit, Types, Roles
  <2> QED BY <1>0, <1>11, <2>1, StopFilesInv DEF ConnectFails, Types
<1>12. ASSUME NEW p \in Pids, ReadEnd(p) PROVE FilesInv'
  BY <1>12 DEF ReadEnd, Types, RolesFit, PathsDistinct, Path, PathOf, history, reuse
<1>13. ASSUME NEW p \in Pids, DisableIPCComm(p) PROVE FilesInv'
  <2>1. CASE Stop(p) /\ UNCHANGED <<killed, reuse>>
    BY <1>0, <1>13, <2>1, StopFilesInv DEF DisableIPCComm, Types
  <2>2. CASE /\ phase' = [phase EXCEPT ![p] = "closed"]
             /\ Hangup(p) \/ UNCHANGED talkers
             /\ Leaves(p)
             /\ UNCHANGED <<role, files, dead, live, killed, reuse>>
    <3>1. talkers' \in [Pids -> SUBSET [pid : Pids, open : BOOLEAN]]
          /\ expected' \in [Pids -> SUBSET Pids] /\ reached' \in [Pids -> SUBSET Pids]
      BY <2>2, GoneKeepsTypes DEF Types
    <3>2. ops' \in 0..MaxOps /\ phase[p] = "idle"
      BY <1>0, <1>13 DEF DisableIPCComm
    <3> QED BY <2>2, <3>1, <3>2 DEF Types, RolesFit, PathsDistinct, Path, PathOf, Phases, reuse
  <2> QED BY <1>13, <2>1, <2>2 DEF DisableIPCComm
<1>14. ASSUME NEW p \in Pids, Exit(p) PROVE FilesInv'
  <2>1. talkers' \in [Pids -> SUBSET [pid : Pids, open : BOOLEAN]]
    BY <1>14, GoneKeepsTypes DEF Exit
  <2> QED BY <1>14, <2>1 DEF Exit, Types, RolesFit, PathsDistinct, Path, PathOf, Phases,
          Roles, history, reuse
<1> QED BY <1>1, <1>2, <1>3, <1>4, <1>5, <1>6, <1>7, <1>8, <1>9, <1>10, <1>11,
        <1>12, <1>13, <1>14 DEF Next

\* Every variable keeps its type, and no two files have one path: a bind is
\* never refused because an earlier process of the same id left its file.
THEOREM LocalTypeCorrect == Spec => []TypeOK
<1>1. Spec => []FilesInv
  BY FilesInvInit, FilesInvNext, PTL DEF Spec
<1>2. FilesInv => TypeOK
  BY DEF FilesInv, Types, PathsDistinct, TypeOK, Roles, Phases, Files
<1> QED BY <1>1, <1>2, PTL

-----------------------------------------------------------------------------
(* Who loses the file it listens on.  A process that cleans has looked for  *)
(* dead processes before it removes their files: what is on its list is    *)
(* dead still, or was started since.                                       *)

Serving(p) == phase[p] \in {"bound", "idle", "clean", "talk"}

DeadAreDead == \A p, q \in Pids : q \in dead[p] => role[q] = "none" \/ q \in suspected
FileOfServing == \A p \in Pids : Serving(p) => p \in suspected \/ File(p) \in files
KeepInv == FilesInv /\ DeadAreDead /\ FileOfServing

LEMMA KeepInvInit == Init => KeepInv
  BY FilesInvInit DEF Init, KeepInv, DeadAreDead, FileOfServing, Serving

LEMMA StopKeepInv ==
    ASSUME KeepInv, NEW p \in Pids, Stop(p), UNCHANGED reuse
    PROVE  DeadAreDead' /\ FileOfServing'
<1> USE DEF KeepInv, FilesInv
<1>1. DeadAreDead'
  BY DEF DeadAreDead, Stop, Types, reuse
<1>2. ASSUME NEW q \in Pids, Serving(q)', q \notin suspected' PROVE File(q)' \in files'
  <2>1. q # p /\ Serving(q) /\ File(q)' = File(q)
    BY <1>2 DEF Serving, File, Stop, Types
  <2>2. File(q) \in files /\ File(q).bound /\ File(q).pid # p
    BY <1>2, <2>1 DEF FileOfServing, File, reuse
  <2>3. [File(q) EXCEPT !.bound = File(q).bound /\ File(q).pid # p] = File(q)
    BY <2>1 DEF File
  <2>4. [File(q) EXCEPT !.bound = File(q).bound /\ File(q).pid # p] \in files'
    BY <2>2 DEF Stop
  <2> QED BY <2>1, <2>3, <2>4
<1> QED BY <1>1, <1>2 DEF FileOfServing

LEMMA KeepInvNext ==
    ASSUME KeepInv, [Next]_vars
    PROVE  KeepInv'
<1>0. FilesInv'
  BY FilesInvNext DEF KeepInv
<1> SUFFICES DeadAreDead' /\ FileOfServing'
  BY <1>0 DEF KeepInv
<1> USE DEF KeepInv, FilesInv
\* Steps that leave files, roles and dead sockets alone, and let nobody serve.
<1>a. ASSUME UNCHANGED <<role, files, dead, suspected>>,
             \A p \in Pids : Serving(p)' => Serving(p)
      PROVE  DeadAreDead' /\ FileOfServing'
  BY <1>a DEF DeadAreDead, FileOfServing, File
<1>1. CASE UNCHANGED vars
  BY <1>1, <1>a DEF vars, lists, history, reuse, Serving
<1>2. ASSUME NEW p \in Pids, NEW r \in {"srv", "mod", "other"}, Start(p, r)
      PROVE  DeadAreDead' /\ FileOfServing'
  <2>1. /\ (\E q \in Pids : p \in dead[q]) => p \in suspected'
        /\ \A q \in Pids : q # p => (q \in suspected' <=> q \in suspected)
    BY <1>2 DEF Start, Reuse
  <2>2. DeadAreDead'
    BY <1>2, <2>1 DEF Start, DeadAreDead, lists, Types
  <2>3. \A q \in Pids : Serving(q)' => q # p /\ Serving(q) /\ File(q)' = File(q)
    BY <1>2 DEF Start, Serving, File, Types
  <2>4. FileOfServing'
    BY <1>2, <2>1, <2>3 DEF Start, FileOfServing
  <2> QED BY <2>2, <2>4
<1>3. ASSUME NEW p \in Pids, Crash(p) PROVE DeadAreDead' /\ FileOfServing'
  BY <1>3, StopKeepInv DEF Crash
<1>4. ASSUME NEW p \in Pids, RemoveDead(p) PROVE DeadAreDead' /\ FileOfServing'
  <2>1. PICK q \in dead[p] : Unlink(p, q)
    BY <1>4 DEF RemoveDead
  <2>2. q \in Pids /\ (role[q] = "none" \/ q \in suspected)
    BY <2>1 DEF DeadAreDead, Types
  <2>3. DeadAreDead'
    BY <1>4, <2>1 DEF RemoveDead, Unlink, DeadAreDead, Types, history, reuse
  <2>4. ASSUME NEW o \in Pids, Serving(o)', o \notin suspected'
        PROVE  File(o)' \in files'
    <3>1. Serving(o) /\ File(o)' = File(o) /\ File(o) \in files /\ o \notin suspected
      BY <1>4, <2>4 DEF RemoveDead, Serving, File, FileOfServing, history, reuse
    <3>2. o # q
      BY <2>2, <3>1 DEF Serving, RolesFit
    <3>3. PathOf(File(o)) # [role |-> Other(role[p]), pid |-> q]
      BY <3>2 DEF PathOf, File
    <3> QED BY <2>1, <3>1, <3>3 DEF Unlink
  <2> QED BY <2>3, <2>4 DEF FileOfServing
<1>5. ASSUME NEW p \in Pids, EnableIPCComm(p) PROVE DeadAreDead' /\ FileOfServing'
  <2>1. DeadAreDead'
    BY <1>5 DEF EnableIPCComm, Scan, DeadAreDead, Types, history, reuse
  <2>2. ASSUME NEW o \in Pids, Serving(o)', o \notin suspected'
        PROVE  File(o)' \in files'
    <3>1. o # p /\ Serving(o) /\ File(o)' = File(o) /\ File(o) \in files
      BY <1>5, <2>2 DEF EnableIPCComm, Serving, File, FileOfServing, Types, history, reuse
    <3>2. PathOf(File(o)) # Path(p)
      BY <3>1 DEF PathOf, File, Path
    <3> QED BY <1>5, <3>1, <3>2 DEF EnableIPCComm
  <2> QED BY <2>1, <2>2 DEF FileOfServing
<1>6. ASSUME NEW p \in Pids, Bind(p) PROVE DeadAreDead' /\ FileOfServing'
  <2>1. files' = files \cup {File(p)} /\ UNCHANGED <<role, dead, suspected>>
    BY <1>6 DEF Bind, File, lists, history, reuse
  <2>2. \A o \in Pids : Serving(o)' => o = p \/ Serving(o)
    BY <1>6 DEF Bind, Serving, Types
  <2> QED BY <2>1, <2>2 DEF DeadAreDead, FileOfServing, File
<1>7. ASSUME NEW p \in Pids, Listen(p) \/ Cleaned(p) \/ EndBroadcast(p)
      PROVE  DeadAreDead' /\ FileOfServing'
  <2>1. UNCHANGED <<role, files, dead, suspected>>
    BY <1>7 DEF Listen, Cleaned, EndBroadcast, lists, history, reuse
  <2>2. \A o \in Pids : Serving(o)' => Serving(o)
    BY <1>7 DEF Listen, Cleaned, EndBroadcast, Serving, Types
  <2> QED BY <2>1, <2>2, <1>a
<1>8. ASSUME NEW p \in Pids, Broadcast(p) PROVE DeadAreDead' /\ FileOfServing'
  <2>1. DeadAreDead'
    BY <1>8 DEF Broadcast, Scan, DeadAreDead, Types, reuse
  <2>2. FileOfServing'
    BY <1>8 DEF Broadcast, FileOfServing, Serving, File, Types, reuse
  <2> QED BY <2>1, <2>2
<1>9. ASSUME NEW p \in Pids, NEW q \in Pids, TalkAgain(p, q)
      PROVE  DeadAreDead' /\ FileOfServing'
  <2>1. (Stop(p) \/ UNCHANGED <<role, phase, files, dead>>) /\ UNCHANGED reuse
    BY <1>9 DEF TalkAgain
  <2> QED BY <2>1, <1>a, StopKeepInv DEF Serving, reuse
<1>10. ASSUME NEW p \in Pids, NEW q \in Pids, Connect(p, q)
       PROVE  DeadAreDead' /\ FileOfServing'
  BY <1>10, <1>a DEF Connect, Serving, reuse
<1>11. ASSUME NEW p \in Pids, NEW q \in Pids, ConnectFails(p, q)
       PROVE  DeadAreDead' /\ FileOfServing'
  BY <1>11, StopKeepInv DEF ConnectFails
<1>12. ASSUME NEW p \in Pids, ReadEnd(p) PROVE DeadAreDead' /\ FileOfServing'
  BY <1>12, <1>a DEF ReadEnd, Serving, history, reuse
<1>13. ASSUME NEW p \in Pids, DisableIPCComm(p)
       PROVE  DeadAreDead' /\ FileOfServing'
  <2>1. CASE Stop(p)
    BY <1>13, <2>1, StopKeepInv DEF DisableIPCComm
  <2>2. CASE ~Stop(p)
    <3>1. UNCHANGED <<role, files, dead, suspected>>
      BY <1>13, <2>2 DEF DisableIPCComm, reuse
    <3>2. \A o \in Pids : Serving(o)' => Serving(o)
      BY <1>13, <2>2 DEF DisableIPCComm, Serving, Types
    <3> QED BY <1>a, <3>1, <3>2
  <2> QED BY <2>1, <2>2
<1>14. ASSUME NEW p \in Pids, Exit(p) PROVE DeadAreDead' /\ FileOfServing'
  <2>1. DeadAreDead'
    BY <1>14 DEF Exit, DeadAreDead, history, reuse, Types
  <2>2. ASSUME NEW o \in Pids, Serving(o)', o \notin suspected'
        PROVE  File(o)' \in files'
    <3>1. o # p /\ Serving(o) /\ File(o)' = File(o) /\ File(o) \in files
      BY <1>14, <2>2 DEF Exit, Serving, File, FileOfServing, Types, history, reuse
    <3>2. PathOf(File(o)) # Path(p)
      BY <3>1 DEF PathOf, File, Path
    <3> QED BY <1>14, <3>1, <3>2 DEF Exit
  <2> QED BY <2>1, <2>2 DEF FileOfServing
<1> QED BY <1>1, <1>2, <1>3, <1>4, <1>5, <1>6, <1>7, <1>8, <1>9, <1>10, <1>11,
        <1>12, <1>13, <1>14 DEF Next

\* consolidateIPCSockets, which removes files some time after its scan, takes
\* the file of a process that listens in one case only: the scan took the id
\* for dead before the process started.  Whatever else overlaps, with ids that
\* are used again at once, every listener keeps its file.
THEOREM ListenersKeepTheirFiles == Spec => []LiveFileKept
<1>1. Spec => []KeepInv
  BY KeepInvInit, KeepInvNext, PTL DEF Spec
<1>2. KeepInv => LiveFileKept
  BY DEF KeepInv, FileOfServing, Serving, LiveFileKept, Listening, File
<1> QED BY <1>1, <1>2, PTL

-----------------------------------------------------------------------------
(* A broadcast reaches all that listen.  A connection is found by process  *)
(* id; one that is closed belongs to a process that does not listen any    *)
(* more, unless the id was used again, so that skipping it loses nobody    *)
(* else who is still expected.                                             *)

ClosedAreGone == \A p \in Pids : \A e \in talkers[p] :
    \/ e.open \/ role[e.pid] = "none" \/ phase[e.pid] = "closed"
    \/ e.pid \in mistaken
ExpectedListen == \A p \in Pids : \A q \in expected[p] : Listening(q)
StillToReach(p) ==
    CASE phase[p] \in {"clean", "talk"} -> live[p] \cup reached[p]
      [] phase[p] = "idle"              -> reached[p]
      [] OTHER                          -> {}
Pending == \A p \in Pids :
    expected[p] \subseteq StillToReach(p) \cup suspected \cup mistaken
ReachInv == KeepInv /\ ClosedAreGone /\ ExpectedListen /\ Pending

LEMMA ReachInvInit == Init => ReachInv
  BY KeepInvInit DEF Init, ReachInv, ClosedAreGone, ExpectedListen, Pending

LEMMA HangupCloses ==
    ASSUME ReachInv, NEW p \in Pids, Hangup(p)
    PROVE  \A o \in Pids : \A e \in talkers'[o] :
             /\ e.pid \in Pids
             /\ \/ e.open \/ e.pid = p \/ role[e.pid] = "none" \/ phase[e.pid] = "closed"
                \/ e.pid \in mistaken
<1> USE DEF ReachInv, KeepInv, FilesInv
<1>1. ASSUME NEW o \in Pids, NEW e \in talkers'[o]
      PROVE  /\ e.pid \in Pids
             /\ \/ e.open \/ e.pid = p \/ role[e.pid] = "none" \/ phase[e.pid] = "closed"
                \/ e.pid \in mistaken
  <2>1. o # p
    BY <1>1 DEF Hangup
  <2>2. PICK d \in talkers[o] : e = [d EXCEPT !.open = d.open /\ d.pid # p]
    BY <1>1, <2>1 DEF Hangup
  <2>3. PICK x \in Pids, b \in BOOLEAN : d = [pid |-> x, open |-> b]
    BY DEF Types
  <2>4. e.pid = x /\ e.open = (b /\ x # p)
    BY <2>2, <2>3
  <2>5. b \/ role[x] = "none" \/ phase[x] = "closed" \/ x \in mistaken
    BY <2>3 DEF ClosedAreGone
  <2> QED BY <2>4, <2>5
<1> QED BY <1>1

LEMMA LeavesLists ==
    ASSUME Types, NEW p \in Pids, Leaves(p), NEW o \in Pids
    PROVE  /\ o = p => expected'[o] = {}
           /\ o # p => expected'[o] = expected[o] \ {p} /\ reached'[o] = reached[o]
  BY DEF Leaves, Types

\* The end of p, and its last steps.
LEMMA LeaveReachInv ==
    ASSUME ReachInv, NEW p \in Pids, Leaves(p), Hangup(p) \/ UNCHANGED talkers,
           UNCHANGED reuse,
           \A q \in Pids : q # p =>
               role'[q] = role[q] /\ phase'[q] = phase[q] /\ live'[q] = live[q],
           role'[p] = "none" \/ phase'[p] = "closed"
    PROVE  ClosedAreGone' /\ ExpectedListen' /\ Pending'
<1> USE DEF ReachInv, KeepInv, FilesInv
<1>1. ClosedAreGone'
  <2>1. \A o \in Pids : \A e \in talkers'[o] :
          /\ e.pid \in Pids
          /\ \/ e.open \/ e.pid = p \/ role[e.pid] = "none" \/ phase[e.pid] = "closed"
             \/ e.pid \in mistaken
    <3>1. CASE Hangup(p)
      BY <3>1, HangupCloses
    <3>2. CASE UNCHANGED talkers
      BY <3>2 DEF ClosedAreGone, Types
    <3> QED BY <3>1, <3>2
  <2> QED BY <2>1 DEF ClosedAreGone, reuse
<1>2. ASSUME NEW o \in Pids, NEW q \in expected'[o] PROVE Listening(q)'
  <2>1. o # p /\ q # p /\ q \in expected[o]
    BY <1>2, LeavesLists
  <2>2. q \in Pids /\ Listening(q)
    BY <2>1 DEF ExpectedListen, Types
  <2> QED BY <2>1, <2>2 DEF Listening
<1>3. ASSUME NEW o \in Pids
      PROVE  expected'[o] \subseteq StillToReach(o)' \cup suspected' \cup mistaken'
  <2>1. CASE o = p
    BY <2>1, LeavesLists
  <2>2. CASE o # p
    <3>1. expected'[o] = expected[o] \ {p} /\ reached'[o] = reached[o]
      BY <2>2, LeavesLists
    <3>2. StillToReach(o)' = StillToReach(o)
      BY <2>2, <3>1 DEF StillToReach
    <3>3. expected[o] \subseteq StillToReach(o) \cup suspected \cup mistaken
      BY DEF Pending
    <3> QED BY <3>1, <3>2, <3>3 DEF reuse
  <2> QED BY <2>1, <2>2
<1> QED BY <1>1, <1>2, <1>3 DEF ExpectedListen, Pending

LEMMA ReachInvNext ==
    ASSUME ReachInv, [Next]_vars
    PROVE  ReachInv'
<1>0. KeepInv'
  BY KeepInvNext DEF ReachInv
<1> DEFINE G == ClosedAreGone' /\ ExpectedListen' /\ Pending'
<1> SUFFICES G
  BY <1>0 DEF ReachInv
<1> USE DEF ReachInv, KeepInv, FilesInv
<1>s. ASSUME NEW p \in Pids, Stop(p), UNCHANGED reuse PROVE G
  BY <1>s, LeaveReachInv DEF Stop, Types
<1>1. CASE UNCHANGED vars
  BY <1>1 DEF vars, lists, history, reuse, ClosedAreGone, ExpectedListen, Listening,
     Pending, StillToReach
<1>2. ASSUME NEW p \in Pids, NEW r \in {"srv", "mod", "other"}, Start(p, r)
      PROVE  G
  <2>1. /\ \A q \in Pids : \A e \in talkers[q] :
             e.pid \in Pids /\ (e.pid = p => p \in mistaken')
        /\ \A q \in Pids : q # p => (q \in mistaken' <=> q \in mistaken)
                                    /\ (q \in suspected' <=> q \in suspected)
    BY <1>2 DEF Start, Reuse, Types
  <2>2. ClosedAreGone'
    BY <1>2, <2>1 DEF Start, ClosedAreGone, lists, Types
  <2>3. \A q \in Pids : p \notin expected[q]
    BY <1>2 DEF Start, ExpectedListen, Listening
  <2>4. ExpectedListen'
    BY <1>2, <2>3 DEF Start, ExpectedListen, Listening, Types
  <2>5. phase[p] = "none"
    BY <1>2 DEF Start, RolesFit
  <2>6. ASSUME NEW q \in Pids
        PROVE  expected'[q] \subseteq StillToReach(q)' \cup suspected' \cup mistaken'
    <3>1. expected'[q] = expected[q] /\ StillToReach(q) \subseteq StillToReach(q)'
      BY <1>2, <2>5 DEF Start, StillToReach, lists, Types
    <3>2. expected[q] \subseteq StillToReach(q) \cup suspected \cup mistaken
      BY DEF Pending
    <3>3. \A x \in expected[q] : x \in Pids /\ x # p
      BY <2>3 DEF Types
    <3> HIDE DEF StillToReach
    <3> QED BY <2>1, <3>1, <3>2, <3>3
  <2> QED BY <2>2, <2>4, <2>6 DEF Pending
<1>3. ASSUME NEW p \in Pids, Crash(p) PROVE G
  BY <1>3, <1>s DEF Crash
<1>4. ASSUME NEW p \in Pids, RemoveDead(p) PROVE G
  BY <1>4 DEF RemoveDead, history, reuse, ClosedAreGone, ExpectedListen, Listening,
     Pending, StillToReach
\* Steps on the way to listening, and between the parts of a broadcast.
<1>5. ASSUME NEW p \in Pids, EnableIPCComm(p) \/ Bind(p) \/ Listen(p) \/ Cleaned(p)
                              \/ EndBroadcast(p)
      PROVE  G
  <2>1. /\ UNCHANGED <<role, talkers, history>>
        /\ \E ph \in {"cleanFirst", "bound", "idle", "talk"} :
             phase' = [phase EXCEPT ![p] = ph]
        /\ \A q \in Pids : q # p => live'[q] = live[q]
    BY <1>5 DEF EnableIPCComm, Scan, Bind, Listen, Cleaned, EndBroadcast, lists,
       history, Types
  <2>2. /\ phase[p] # "closed" /\ (Listening(p) => Listening(p)')
        /\ expected'[p] \subseteq StillToReach(p)' \cup suspected \cup mistaken
    <3>1. CASE EnableIPCComm(p) \/ Bind(p)
      BY <3>1, <2>1 DEF EnableIPCComm, Bind, Pending, StillToReach, Listening, history
    <3>2. CASE Listen(p)
      BY <3>2, <2>1 DEF Listen, Pending, StillToReach, Listening, history, Types
    <3>3. CASE Cleaned(p)
      BY <3>3, <2>1 DEF Cleaned, Pending, StillToReach, Listening, history, lists, Types
    <3>4. CASE EndBroadcast(p)
      BY <3>4, <2>1 DEF EndBroadcast, Pending, StillToReach, Listening, history, lists,
         Types
    <3> QED BY <1>5, <3>1, <3>2, <3>3, <3>4
  <2>3. ClosedAreGone'
    <3>1. ASSUME NEW q \in Pids, NEW e \in talkers[q]
          PROVE  e.open \/ role[e.pid] = "none" \/ phase'[e.pid] = "closed"
                 \/ e.pid \in mistaken
      <4>1. e.pid \in Pids
        BY DEF Types
      <4> QED BY <2>1, <2>2, <4>1 DEF ClosedAreGone, Types
    <3> QED BY <2>1, <3>1 DEF ClosedAreGone, history, reuse
  <2>4. ExpectedListen'
    BY <2>1, <2>2 DEF ExpectedListen, Listening, history, Types
  <2>5. Pending'
    BY <2>1, <2>2 DEF Pending, StillToReach, history, reuse, Types
  <2> QED BY <2>3, <2>4, <2>5
<1>8. ASSUME NEW p \in Pids, Broadcast(p) PROVE G
  <2>1. expected'[p] \subseteq live'[p] \cup suspected
    <3>1. ASSUME NEW q \in Pids, role[q] = Other(role[p]), Listening(q), q \notin suspected
          PROVE  q \in live'[p]
      <4>1. File(q) \in files /\ File(q).role = Other(role[p]) /\ File(q).pid = q
        BY <3>1 DEF FileOfServing, Serving, Listening, File
      <4>2. role[q] # "none"
        BY <3>1 DEF Listening
      <4> QED BY <1>8, <4>1, <4>2 DEF Broadcast, Scan, Types
    <3> QED BY <1>8, <3>1 DEF Broadcast, Types
  <2>2. ClosedAreGone'
    <3>1. ASSUME NEW q \in Pids, NEW e \in talkers[q]
          PROVE  e.open \/ role[e.pid] = "none" \/ phase'[e.pid] = "closed"
                 \/ e.pid \in mistaken
      <4>1. e.pid \in Pids
        BY DEF Types
      <4> QED BY <1>8, <4>1 DEF Broadcast, ClosedAreGone, Types
    <3> QED BY <1>8, <3>1 DEF Broadcast, ClosedAreGone, reuse
  <2>3. \A q \in Pids : Listening(q) => Listening(q)'
    BY <1>8 DEF Broadcast, Listening, Types
  <2>4. ExpectedListen'
    BY <1>8, <2>3 DEF Broadcast, ExpectedListen, Types
  <2>5. Pending'
    BY <1>8, <2>1 DEF Broadcast, Scan, Pending, StillToReach, Types, reuse
  <2> QED BY <2>2, <2>4, <2>5
<1>9. ASSUME NEW p \in Pids, NEW q \in Pids, TalkAgain(p, q) PROVE G
  <2>1. PICK e \in Talker(p, q) :
          IF e.open \/ role[p] = "srv"
          THEN /\ live' = [live EXCEPT ![p] = @ \ {q}]
               /\ reached' = IF e.open THEN [reached EXCEPT ![p] = @ \cup {e.pid}]
                             ELSE reached
               /\ UNCHANGED <<role, phase, files, dead, talkers, expected, killed>>
          ELSE Stop(p) /\ killed' = killed \cup {role[p]}
    BY <1>9 DEF TalkAgain
  <2>2. e.pid = q /\ e \in talkers[p]
    BY <2>1 DEF Talker
  <2>3. CASE e.open \/ role[p] = "srv"
    <3>1. UNCHANGED <<role, phase, talkers, expected, reuse>>
      BY <1>9, <2>1, <2>3 DEF TalkAgain
    <3>2. e.open \/ q \notin expected[p] \/ q \in mistaken
      BY <2>2 DEF ClosedAreGone, ExpectedListen, Listening
    <3>3. /\ live'[p] = live[p] \ {q}
          /\ e.open => reached'[p] = reached[p] \cup {q}
          /\ ~e.open => reached'[p] = reached[p]
          /\ \A o \in Pids : o # p => live'[o] = live[o] /\ reached'[o] = reached[o]
      BY <2>1, <2>2, <2>3 DEF Types
    <3>4. phase[p] = "talk"
      BY <1>9 DEF TalkAgain
    <3>5. Pending'
      BY <3>1, <3>2, <3>3, <3>4 DEF Pending, StillToReach, reuse
    <3> QED BY <3>1, <3>5 DEF ClosedAreGone, ExpectedListen, Listening, reuse
  <2>4. CASE ~(e.open \/ role[p] = "srv")
    BY <1>9, <2>1, <2>4, <1>s DEF TalkAgain
  <2> QED BY <2>3, <2>4
<1>10. ASSUME NEW p \in Pids, NEW q \in Pids, Connect(p, q) PROVE G
  <2>1. UNCHANGED <<role, phase, expected, reuse>> /\ phase[p] = "talk"
    BY <1>10 DEF Connect
  <2>2. /\ live'[p] = live[p] \ {q} /\ reached'[p] = reached[p] \cup {q}
        /\ \A o \in Pids : o # p => live'[o] = live[o] /\ reached'[o] = reached[o]
    BY <1>10 DEF Connect, Types
  <2>3. \A o \in Pids : \A e \in talkers'[o] : e \in talkers[o] \/ e.open
    BY <1>10 DEF Connect, Types
  <2> QED BY <2>1, <2>2, <2>3 DEF ClosedAreGone, ExpectedListen, Listening, Pending,
          StillToReach, reuse
<1>11. ASSUME NEW p \in Pids, NEW q \in Pids, ConnectFails(p, q) PROVE G
  BY <1>11, <1>s DEF ConnectFails
<1>12. ASSUME NEW p \in Pids, ReadEnd(p) PROVE G
  <2>1. \A o \in Pids : talkers'[o] \subseteq talkers[o]
    BY <1>12 DEF ReadEnd, Types
  <2> QED BY <1>12, <2>1 DEF ReadEnd, history, reuse, ClosedAreGone, ExpectedListen, Listening,
          Pending, StillToReach
<1>13. ASSUME NEW p \in Pids, DisableIPCComm(p) PROVE G
  <2>1. CASE Stop(p)
    BY <1>13, <2>1, <1>s DEF DisableIPCComm
  <2>2. CASE ~Stop(p)
    BY <1>13, <2>2, LeaveReachInv DEF DisableIPCComm, Types
  <2> QED BY <2>1, <2>2
<1>14. ASSUME NEW p \in Pids, Exit(p) PROVE G
  <2>1. \A q \in Pids : q # p => role'[q] = role[q] /\ phase'[q] = phase[q]
    BY <1>14 DEF Exit, Types
  <2>2. role'[p] = "none" /\ phase'[p] = "none" /\ phase[p] = "closed"
        /\ UNCHANGED <<live, expected, reached, suspected, mistaken>>
    BY <1>14 DEF Exit, history, reuse, Types
  <2>3. ClosedAreGone'
    <3>1. Hangup(p)
      BY <1>14 DEF Exit
    <3> QED BY <2>1, <2>2, <3>1, HangupCloses DEF ClosedAreGone
  <2>4. ExpectedListen'
    BY <2>1, <2>2 DEF ExpectedListen, Listening, Types
  <2>5. Pending'
    BY <2>1, <2>2 DEF Pending, StillToReach
  <2> QED BY <2>3, <2>4, <2>5
<1> QED BY <1>1, <1>2, <1>3, <1>4, <1>5, <1>8, <1>9, <1>10, <1>11, <1>12, <1>13,
        <1>14 DEF Next

\* A broadcast that has ended has reached every process of the other role
\* that was listening when it began and still is, but for those that started
\* while their id was on a list of dead or stood for an open connection to an
\* earlier process: a closed connection is used in nobody else's place, and no
\* other listener is missed by the scan.
THEOREM BroadcastsReachAll == Spec => []ReachedAll
<1>1. Spec => []ReachInv
  BY ReachInvInit, ReachInvNext, PTL DEF Spec
<1>2. ReachInv => ReachedAll
  BY DEF ReachInv, Pending, StillToReach, ReachedAll
<1> QED BY <1>1, <1>2, PTL
=============================================================================
