----------------------------- MODULE EgressGuard -----------------------------
(***************************************************************************)
(* What the controller promises about the host's traffic, whatever routes, *)
(* managers, retries and processes it takes (README.md, Security model):   *)
(* while it is up, all traffic goes to the VM; traffic that goes to the VM *)
(* is handed back only on the way down; a controller that ends in order    *)
(* has handed it back; and one that dies, or is started again, leaves the  *)
(* traffic where it was.  Lifecycle implements this specification.         *)
(***************************************************************************)
VARIABLES
    phase,   \* "starting", "up", "ending", "ended" (in order) or "dead"
    egress   \* where the host's packets go: a part of {"vm", "direct"}

Torified == egress = {"vm"}
Paths == {{}, {"vm"}, {"direct"}, {"vm", "direct"}}

Init == phase = "starting" /\ egress = {"direct"}

\* Routes are put in; once all traffic goes to the VM it stays there.
Prepare ==
    /\ phase = "starting"
    /\ egress' \in Paths
    /\ Torified => egress' = egress
    /\ phase' = phase

ComeUp ==
    /\ phase = "starting"
    /\ Torified
    /\ phase' = "up"
    /\ egress' = egress

\* The only steps that may release traffic, and those that follow.
GoDown ==
    /\ phase \in {"starting", "up", "ending"}
    /\ phase' = "ending"
    /\ egress' \in Paths

End ==
    /\ phase = "ending"
    /\ egress = {"direct"}
    /\ phase' = "ended"
    /\ egress' = egress

\* A crash, a panic, a refusal for lack of privileges.
Die ==
    /\ phase \in {"starting", "up", "ending"}
    /\ phase' = "dead"
    /\ egress' = egress

StartAgain ==
    /\ phase \in {"ended", "dead"}
    /\ phase' = "starting"
    /\ egress' = egress

Next == Prepare \/ ComeUp \/ GoDown \/ End \/ Die \/ StartAgain

Spec == Init /\ [][Next]_<<phase, egress>>
=============================================================================
