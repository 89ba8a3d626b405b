------------------------------ MODULE MCSession ------------------------------
(***************************************************************************)
(* Small instances of the session.  The two servers differ in the low bits *)
(* of their addresses, or do not, as on one host; the two programs have a  *)
(* class each, or the same one.                                            *)
(***************************************************************************)
EXTENDS PyConnectSession

OwnIDs    == [s \in Servers |-> IF s = "s1" THEN 1 ELSE 2]
SameIDs   == [s \in Servers |-> 1]
OwnNames  == [m \in Modules |-> IF m = "m1" THEN "A" ELSE "B"]
SameNames == [m \in Modules |-> "A"]
=============================================================================
