----------------------------- MODULE HostProtocol -----------------------------
(***************************************************************************)
(* What RunWithLimits, Resume and ResumeWithError (taipan.go) promise to   *)
(* the host of one execution, and nothing of how: an execution is started  *)
(* or refused, then it alternates between running and waiting for the      *)
(* answer to one external call, never asks for the same call twice, always *)
(* comes back from running, ends once, and holds its resources (capture    *)
(* file, temporary path, interpreter context) exactly until it ends.       *)
(***************************************************************************)
EXTENDS Naturals

CONSTANT CallIds  \* the external calls an execution can make, numbered

VARIABLES
    phase,  \* "new", "running", "waiting", "finished" or "refused"
    asked,  \* the external call the host was last asked for, 0 for none
    held    \* whether the execution holds resources

hostVars == <<phase, asked, held>>

Init ==
    /\ phase = "new"
    /\ asked = 0
    /\ held = FALSE

Start ==
    /\ phase = "new"
    /\ phase' = "running"
    /\ held' = TRUE
    /\ UNCHANGED asked

(* No promise is made about what a refused execution leaves behind.        *)
Refuse ==
    /\ phase = "new"
    /\ phase' = "refused"
    /\ held' \in BOOLEAN
    /\ UNCHANGED asked

Ask ==
    /\ phase = "running"
    /\ phase' = "waiting"
    /\ asked' \in CallIds /\ asked' > asked
    /\ UNCHANGED held

Answer ==
    /\ phase = "waiting"
    /\ phase' = "running"
    /\ UNCHANGED <<asked, held>>

Finish ==
    /\ phase = "running"
    /\ phase' = "finished"
    /\ held' = FALSE
    /\ UNCHANGED asked

ComeBack == Ask \/ Finish

Next == Start \/ Refuse \/ Answer \/ ComeBack

Spec == Init /\ [][Next]_hostVars /\ WF_hostVars(ComeBack)
===============================================================================
