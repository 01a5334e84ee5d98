--------------------------- MODULE MCBrowserEngine ---------------------------
(* Symmetry for the safety run of BrowserEngine, and the behaviours of the   *)
(* liveness run: those with a breach and those with a second launch, but not *)
(* both, and runs that overlap share one process.                            *)
EXTENDS BrowserEngine, TLC

Symmetry == Permutations(Runs)

Launched == {r \in Runs : pc[r] # "none"}
Overlap == \E r, s \in Launched : r # s /\ pc[r] # "done" /\ pc[s] # "done"

\* The Runs are numbered in the order of their launches.
InOrder == Launched # {} => (CHOOSE r \in Runs : TRUE) \in Launched

BreachOrSecondLaunch ==
    (\A g \in Procs : reported[g] = 0) \/ \E r \in Runs : Launched \subseteq {r}

\* The steps of the liveness run.  What this leaves out are launches and breaches,
\* which are not subject to fairness, and starts, in whose place a failure is
\* possible (MayFail).
OneOfTwo ==
    /\ (InOrder /\ BreachOrSecondLaunch)'
    /\ Overlap => gen' = gen \/ gen = 0
=============================================================================
