----------------------------- MODULE DeployRuns -----------------------------
(***************************************************************************)
(* The runs of deploy.sh: every run takes the lock, gives its one command  *)
(* and gives up the lock.  launchd starts the run that follows main every  *)
(* minute; the operator starts one now and then.  The machine may die      *)
(* under a run, and a command may end half-way with its EXIT trap run.     *)
(***************************************************************************)
EXTENDS Deployer

CONSTANTS AutoRun,  \* the run that launchd starts
          MaxManual \* bound on the runs the operator starts

ASSUME AutoAssumption == AutoRun \in Runs /\ MaxManual \in Nat

VARIABLES due,   \* the runs that have the lock and have yet to start a command
          manual

runVars == <<vars, lockVars, due, manual>>

RunsInit == Init /\ LockInit /\ due = {} /\ manual = 0

LockOnly == UNCHANGED <<vars, manual>>

StartRun(r) ==
  /\ Start(r)
  /\ \/ r = AutoRun /\ UNCHANGED manual
     \/ r # AutoRun /\ manual < MaxManual /\ manual' = manual + 1
  /\ UNCHANGED <<vars, due>>

\* acquire_lock, to its end.
Acquire(r) ==
  \/ /\ MakeLock(r) \/ ReadPid(r) \/ Probe(r) \/ UnlinkPid(r) \/ RemoveDir(r)
          \/ MakeAgain(r)
     /\ LockOnly /\ UNCHANGED due
  \/ Stamp(r) /\ due' = due \cup {r} /\ LockOnly

\* The run's command begins: cmd_deploy, cmd_rollback or cmd_resume.  There
\* may be nothing to do.
Begin(r) ==
  /\ place[r] = "working" /\ r \in due /\ at[r] = "idle"
  /\ due' = due \ {r}
  /\ \/ Deploy(r)
     \/ ~Looks /\ UNCHANGED vars
     \/ r # AutoRun /\ (Resume(r) \/ \E c \in Commits : Rollback(r, c))
  /\ UNCHANGED <<lockVars, manual>>

Holder(r) == place[r] = "working" /\ r \notin due

WorkOn(r) == Holder(r) /\ Work(r) /\ UNCHANGED <<lockVars, due, manual>>

\* errexit, or a signal the shell traps.
BreaksOff(r) == Holder(r) /\ Interrupt(r) /\ UNCHANGED <<lockVars, due, manual>>

Leave(r) ==
  /\ Holder(r) /\ at[r] = "idle"
  /\ Finish(r)
  /\ LockOnly /\ UNCHANGED due

Killed(r) ==
  /\ Crash(r)
  /\ due' = due \ {r}
  /\ IF Holder(r) /\ at[r] # "idle" THEN Interrupt(r) ELSE UNCHANGED vars
  /\ UNCHANGED manual

Outside ==
  /\ (\E t \in Trees : Push(t)) \/ AppDies \/ AppStarts
  /\ UNCHANGED <<lockVars, due, manual>>

RunGoesOn(r) == Acquire(r) \/ Begin(r) \/ WorkOn(r) \/ Leave(r)

RunsNext ==
  \/ \E r \in Runs : StartRun(r) \/ RunGoesOn(r) \/ BreaksOff(r) \/ Killed(r)
  \/ Outside

RunsSpec == RunsInit /\ [][RunsNext]_runVars

\* launchd starts its run every minute and keeps the app alive, and a run
\* that is started goes on.
RunsFairSpec ==
  /\ RunsSpec
  /\ WF_runVars(StartRun(AutoRun))
  /\ \A r \in Runs : WF_runVars(RunGoesOn(r))
  /\ WF_runVars(AppStarts /\ UNCHANGED <<lockVars, due, manual>>)

-----------------------------------------------------------------------------

\* Main is followed in the end, whatever runs were cut off or killed: the
\* current release has main's tree, or main's newest commit failed, or the
\* operator intervened, or a run was robbed of the lock.
FollowsMain ==
  <>[](\/ hold \/ rollbacks > 0
       \/ failed = Len(main) \/ robbed
       \/ current # None /\ main[current] = main[Len(main)])
=============================================================================
