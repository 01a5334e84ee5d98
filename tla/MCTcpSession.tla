----------------------------- MODULE MCTcpSession ----------------------------
(* Bounds for two connections of one 4-tuple that are weaker than the same   *)
(* for both: what takes two bytes happens in the first as well.              *)
EXTENDS TcpSession

\* Two bytes for the app in one of the connections or one in each, and one byte
\* from the app in the second.
Bytes ==
    /\ relayed[1] + relayed[2] <= 2
    /\ created = 2 => \A k \in Keys : sent[k] <= 1

\* Only in the first connection is a byte or a SYN sent again, which no fairness
\* asks for.
ResendsEarly == resends' # resends => created <= 1
==============================================================================
