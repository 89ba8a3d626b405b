-------------------------- MODULE PyConnectChannel --------------------------
(***************************************************************************)
(* What one direction of a connection promises to the message processor:   *)
(* the messages that were written, each once, whole and in order.  The     *)
(* session relies on it: toSrv and toMod are sequences of messages.        *)
(***************************************************************************)
EXTENDS Naturals, Sequences

CONSTANT Payloads

VARIABLES sent,       \* the messages handed to clientDataSend, in order
          delivered   \* the messages handed to processInput, in order

vars == <<sent, delivered>>

Init == sent = <<>> /\ delivered = <<>>

Write(p) == sent' = Append(sent, p) /\ UNCHANGED delivered
Deliver  == /\ Len(delivered) < Len(sent)
            /\ delivered' = Append(delivered, sent[Len(delivered) + 1])
            /\ UNCHANGED sent

Next == (\E p \in Payloads : Write(p)) \/ Deliver
Spec == Init /\ [][Next]_vars
=============================================================================
