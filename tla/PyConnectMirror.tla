--------------------------- MODULE PyConnectMirror ---------------------------
(***************************************************************************)
(* What a script may rely on about the attributes of a program: it is told *)
(* of every change since the program was exposed to it, of each one once   *)
(* and in the order in which the program made them.  No messages, no ids,  *)
(* no threads.                                                             *)
(***************************************************************************)
EXTENDS Naturals

CONSTANTS
    Scripts,
    Blind     \* what a script without an object knows: no number

VARIABLES
    made,   \* how many changes the program has made
    seen    \* by script, how many of them it knows of, Blind if it has no object

vars == <<made, seen>>

Init == made \in Nat /\ seen = [s \in Scripts |-> Blind]

Change    == made' \in Nat /\ made' > made /\ UNCHANGED seen
Appear(s) == /\ seen[s] = Blind
             /\ \E k \in 0..made : seen' = [seen EXCEPT ![s] = k]
             /\ UNCHANGED made
Learn(s)  == /\ seen[s] # Blind /\ seen[s] < made
             /\ seen' = [seen EXCEPT ![s] = @ + 1]
             /\ UNCHANGED made
Vanish(s) == /\ seen[s] # Blind
             /\ seen' = [seen EXCEPT ![s] = Blind]
             /\ UNCHANGED made

Next == Change \/ \E s \in Scripts : Appear(s) \/ Learn(s) \/ Vanish(s)
Spec == Init /\ [][Next]_vars /\ \A s \in Scripts : WF_vars(Learn(s))
=============================================================================
