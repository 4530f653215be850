-------------------------- MODULE ExportLifecycle --------------------------
(***************************************************************************)
(* What the export job manager promises a client of /api/export/*, with    *)
(* every internal detail left out: a job is absent, active, or over in one *)
(* of three ways; at most MaxConcurrent jobs are active; a job that was    *)
(* canceled or failed can be made active again; a job that is over may be  *)
(* forgotten, an active one may not.  ExportJobs implements this.          *)
(***************************************************************************)
EXTENDS Integers, FiniteSets

CONSTANTS
    JobId,          \* export job identifiers
    MaxConcurrent   \* how many exports may be active at once

VARIABLE phase      \* phase[j]: where job j is in its life

Over == {"completed", "failed", "canceled"}
Phases == {"absent", "active"} \union Over

Active == {j \in JobId : phase[j] = "active"}
Ended  == {j \in JobId : phase[j] \in Over}

Forgetting(E) == [j \in JobId |-> IF j \in E THEN "absent" ELSE phase[j]]

----------------------------------------------------------------------------
Init == phase = [j \in JobId |-> "absent"]

\* An unknown job becomes active, if a slot is free.
Start(j) ==
    /\ phase[j] = "absent"
    /\ Cardinality(Active) < MaxConcurrent
    /\ \E E \in SUBSET Ended : phase' = [Forgetting(E) EXCEPT ![j] = "active"]

\* A job that did not succeed becomes active again, if a slot is free.
Resume(j) ==
    /\ phase[j] \in {"failed", "canceled"}
    /\ Cardinality(Active) < MaxConcurrent
    /\ phase' = [phase EXCEPT ![j] = "active"]

\* An active job is over; its slot is free for others in the same step.
Finish(j) ==
    /\ phase[j] = "active"
    /\ \E how \in Over, E \in SUBSET Ended :
          phase' = [Forgetting(E) EXCEPT ![j] = how]

\* Jobs that are over are forgotten.
Forget == \E E \in SUBSET Ended : phase' = Forgetting(E)

Next == Forget \/ \E j \in JobId : Start(j) \/ Resume(j) \/ Finish(j)

Spec == Init /\ [][Next]_phase

\* Every active job is over eventually.
FairSpec == Spec /\ \A j \in JobId : WF_phase(Finish(j))
=============================================================================
