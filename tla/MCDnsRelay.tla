----------------------------- MODULE MCDnsRelay ------------------------------
(* Queries for the run of DnsRelay. *)
EXTENDS DnsRelay, TLC

CONSTANTS q1, q2, q3, q4

FourQueries == {q1, q2, q3, q4}

\* Two apps have chosen the same transaction ID.
SharedTxId == (q1 :> 1) @@ (q2 :> 1) @@ (q3 :> 2) @@ (q4 :> 3)
ShortQuery == {q4}
=============================================================================
