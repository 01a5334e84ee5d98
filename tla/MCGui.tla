------------------------------- MODULE MCGui ---------------------------------
\* Two circuits that share their guard, three relays.
EXTENDS Gui, TLC

CONSTANTS g1, e1, e2, c1, c2

\* Quit, which no property asks for and no fairness, comes only while at most one
\* Run has begun.
EarlyQuit == quit' => \E r \in Runs : \A s \in Runs \ {r} : pc[s] = "unborn"

MCPath == c1 :> <<g1, e1>> @@ c2 :> <<g1, e2>>
=============================================================================
