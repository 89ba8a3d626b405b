------------------------------- MODULE MCCodec -------------------------------
(***************************************************************************)
(* The codec at the boundaries of one byte, seven bits and two bytes.      *)
(***************************************************************************)
EXTENDS PyConnectCodec

Copies(n) == [k \in 1..n |-> 255]
EdgeInts    == {0, 1, 127, 128, 129, 255, 256, 16383, 16384, 32767}
EdgeStrings == {Copies(n) : n \in {0, 1, 127, 128, 255, 256}}
=============================================================================
