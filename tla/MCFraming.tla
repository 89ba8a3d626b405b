------------------------------ MODULE MCFraming ------------------------------
(***************************************************************************)
(* The framing on short messages whose payload, being ciphertext, holds    *)
(* every byte that means something to the reader: '#', '@', and pairs that *)
(* read as a negative or a plausible length.                               *)
(***************************************************************************)
EXTENDS PyConnectFraming

TrickyPayloads == {<<7>>, <<64, 35>>, <<35, 0, 128, 35>>, <<35, 3, 0, 7, 7>>}
=============================================================================
