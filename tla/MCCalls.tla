------------------------------ MODULE MCCalls ------------------------------
(***************************************************************************)
(* Small instances of the calls: an attribute that scripts may assign and  *)
(* one they may not, a method that returns a value and one that does not.  *)
(***************************************************************************)
EXTENDS PyConnectCalls

Zeros == [a \in Attributes |-> 0]
=============================================================================
