---------------------------- MODULE MCTorControl -----------------------------
(* Replies of Tor for the runs of TorControl. *)
EXTENDS TorControl

\* OK, an error, and a value in data lines, longer than syncResp.
PlainReplies == {<<"end250">>, <<"end552">>, <<"data250", "data", "dot", "end250">>}

\* A list of two circuits, the first of which has an ID of three digits.
OldCircuitReplies == {<<"end250">>, <<"data250", "id3", "data", "dot", "end250">>}
=============================================================================
