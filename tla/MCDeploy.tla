------------------------------ MODULE MCDeploy ------------------------------
(***************************************************************************)
(* DeployRuns up to the first robbery of the lock.  Nothing is claimed of  *)
(* the releases after one, and FollowsMain excepts it, so a behaviour that *)
(* comes to one may end there.                                             *)
(***************************************************************************)
EXTENDS DeployRuns

UpToRobbery(A) == ~robbed /\ A

MCNext == UpToRobbery(RunsNext)

MCFairSpec ==
  /\ RunsInit /\ [][MCNext]_runVars
  /\ WF_runVars(UpToRobbery(StartRun(AutoRun)))
  /\ \A r \in Runs : WF_runVars(UpToRobbery(RunGoesOn(r)))
  /\ WF_runVars(UpToRobbery(AppStarts /\ UNCHANGED <<lockVars, due, manual>>))
=============================================================================
