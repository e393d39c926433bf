-------------------------- MODULE DeployRunsProofs --------------------------
(***************************************************************************)
(* deploy.sh for every set of runs, history of main, number of releases    *)
(* kept, rollback, interruption and crash: what its lock excludes, and     *)
(* what therefore stays true of the releases while no run is robbed of it. *)
(***************************************************************************)
EXTENDS DeployRuns, TLAPS

(***************************************************************************)
(* What the lock gives.  A run that made the directory holds it until it   *)
(* is gone, its pid is in it while it works, and there is at most one such *)
(* run: this is what every step keeps that does not remove a held lock.    *)
(***************************************************************************)

OneHolder ==
  \A r, q \in Runs : place[r] \in Holding /\ place[q] \in Holding => r = q
HeldIsLocked == \A r \in Runs : place[r] \in Holding => locked
HolderIsNamed == \A r \in Runs : place[r] \in {"working", "release"} => pid = r

LockInv ==
  /\ LockTypeOK
  /\ ~locked => pid = Empty
  /\ ~robbed => OneHolder /\ HeldIsLocked /\ HolderIsNamed

USE DEF Places, Taking, Leaving, Pids, Holding, Settled, InWindow, Go

LEMMA LockInvInit == LockInit => LockInv
<1> SUFFICES ASSUME LockInit PROVE LockInv
  OBVIOUS
<1>1. LockTypeOK
  <2>1. crashes \in 0..MaxCrashes
    BY LockAssumption DEF LockInit
  <2>2. place \in [Runs -> Places] /\ noted \in [Runs -> Pids]
    BY DEF LockInit
  <2> QED
    BY <2>1, <2>2 DEF LockInit, LockTypeOK
<1>2. \A r \in Runs : place[r] = "idle"
  BY DEF LockInit
<1> QED
  BY <1>1, <1>2 DEF LockInv, LockInit, OneHolder, HeldIsLocked, HolderIsNamed

LEMMA LockInvStep ==
  ASSUME LockInv, [LockNext]_lockVars
  PROVE  LockInv'
<1> USE LockAssumption DEF LockInv, OneHolder, HeldIsLocked, HolderIsNamed, HeldByAnother, Robs
<1>1. CASE UNCHANGED lockVars
  BY <1>1 DEF lockVars, LockTypeOK
<1>2. ASSUME NEW r \in Runs, Start(r) PROVE LockInv'
  BY <1>2 DEF Start, LockTypeOK
<1>3. ASSUME NEW r \in Runs, MakeLock(r) PROVE LockInv'
  BY <1>3 DEF MakeLock, LockTypeOK
<1>4. ASSUME NEW r \in Runs, ReadPid(r) PROVE LockInv'
  BY <1>4 DEF ReadPid, LockTypeOK
<1>5. ASSUME NEW r \in Runs, Probe(r) PROVE LockInv'
  BY <1>5 DEF Probe, LooksAlive, LockTypeOK
<1>6. ASSUME NEW r \in Runs, UnlinkPid(r) PROVE LockInv'
  BY <1>6 DEF UnlinkPid, LockTypeOK
<1>7. ASSUME NEW r \in Runs, RemoveDir(r) PROVE LockInv'
  <2>0. /\ place[r] \in {"rmdir", "vanish"} /\ place \in [Runs -> Places]
        /\ place' = [place EXCEPT ![r] = IF place[r] = "rmdir" THEN "again" ELSE "idle"]
    BY <1>7 DEF RemoveDir, LockTypeOK
  <2>1. /\ place' \in [Runs -> Places]
        /\ \A q \in Runs \ {r} : place'[q] = place[q]
        /\ place'[r] = IF place[r] = "rmdir" THEN "again" ELSE "idle"
    BY <2>0
  <2>2. LockTypeOK'
    <3>1. noted' = noted \/ Forget(r)
      BY <1>7 DEF RemoveDir
    <3>2. noted' \in [Runs -> Pids]
      BY <3>1 DEF Forget, LockTypeOK
    <3>3. raced' \in BOOLEAN /\ robbed' \in BOOLEAN /\ locked' \in BOOLEAN /\ UNCHANGED <<pid, crashes>>
      BY <1>7, <2>0 DEF RemoveDir, LockTypeOK
    <3> QED
      BY <2>1, <3>2, <3>3 DEF LockTypeOK
  <2>3. /\ locked' = (locked /\ pid # Empty) /\ UNCHANGED pid
        /\ robbed' = (robbed \/ (locked /\ pid = Empty /\ HeldByAnother(r)))
    BY <1>7 DEF RemoveDir
  <2>4. ~robbed' => OneHolder' /\ HeldIsLocked' /\ HolderIsNamed'
    BY <2>0, <2>1, <2>3
  <2> QED
    BY <2>2, <2>3, <2>4
<1>8. ASSUME NEW r \in Runs, MakeAgain(r) PROVE LockInv'
  BY <1>8 DEF MakeAgain, LockTypeOK
<1>9. ASSUME NEW r \in Runs, Stamp(r) PROVE LockInv'
  BY <1>9 DEF Stamp, LockTypeOK
<1>10. ASSUME NEW r \in Runs, Finish(r) PROVE LockInv'
  BY <1>10 DEF Finish, LockTypeOK
<1>11. ASSUME NEW r \in Runs, Crash(r) PROVE LockInv'
  BY <1>11 DEF Crash, Forget, LockTypeOK
<1> QED
  BY <1>1, <1>2, <1>3, <1>4, <1>5, <1>6, <1>7, <1>8, <1>9, <1>10, <1>11
     DEF LockNext, Step

\* Unless a run removed a lock that was held, two runs never work at once
\* and the lock names the one that does, whichever runs contended and
\* whichever were killed, at whatever points.
THEOREM LockExcludes == LockSpec => []ExcludesUnlessRobbed
<1>1. LockInv /\ [LockNext]_lockVars => LockInv'
  BY LockInvStep
<1>2. LockInv => ExcludesUnlessRobbed
  BY DEF LockInv, ExcludesUnlessRobbed, MutualExclusion, LockNamesItsHolder,
     OneHolder, HeldIsLocked, HolderIsNamed
<1> QED
  BY LockInvInit, <1>1, <1>2, PTL DEF LockSpec

(***************************************************************************)
(* When a lock is not robbed.  As long as the windows of two runs have not *)
(* overlapped: at most one run is in its window; a run in its window that  *)
(* has seen a working run's lock noted that run's pid, so it leaves; and a *)
(* run that judged the lock stale, or made it, has no other beside it.     *)
(***************************************************************************)

OneWindow == \A r, q \in Runs : InWindow(r) /\ InWindow(q) => r = q

\* Places from which a run goes on to write, or to remove, the lock.
Alone == {"unlink", "rmdir", "again", "stamp", "release", "vanish"}
NobodyWorksBesides ==
  \A r, q \in Runs : place[r] \in Alone => place[q] # "working"

NotedIsTheHolder ==
  \A r, q \in Runs : place[r] = "probe" /\ place[q] = "working" => noted[r] = q

RaceInv ==
  /\ LockInv
  /\ ~raced => ~robbed /\ OneWindow /\ NobodyWorksBesides /\ NotedIsTheHolder

LEMMA RaceInvStep ==
  ASSUME RaceInv, [LockNext]_lockVars
  PROVE  RaceInv'
<1> LockInv'
  BY LockInvStep DEF RaceInv
<1> USE LockAssumption DEF RaceInv, OneWindow, NobodyWorksBesides, NotedIsTheHolder,
        Alone, LockInv, OneHolder, HeldIsLocked, HolderIsNamed, HeldByAnother, Robs
<1>1. CASE UNCHANGED lockVars
  BY <1>1 DEF lockVars
<1>2. ASSUME NEW r \in Runs, Start(r) PROVE RaceInv'
  BY <1>2 DEF Start, LockTypeOK
<1>3. ASSUME NEW r \in Runs, MakeLock(r) PROVE RaceInv'
  BY <1>3 DEF MakeLock, LockTypeOK
<1>4. ASSUME NEW r \in Runs, ReadPid(r) PROVE RaceInv'
  BY <1>4 DEF ReadPid, LockTypeOK
<1>5. ASSUME NEW r \in Runs, Probe(r) PROVE RaceInv'
  BY <1>5 DEF Probe, LooksAlive, LockTypeOK
<1>6. ASSUME NEW r \in Runs, UnlinkPid(r) PROVE RaceInv'
  BY <1>6 DEF UnlinkPid, LockTypeOK
<1>7. ASSUME NEW r \in Runs, RemoveDir(r) PROVE RaceInv'
  BY <1>7 DEF RemoveDir, Forget, LockTypeOK
<1>8. ASSUME NEW r \in Runs, MakeAgain(r) PROVE RaceInv'
  BY <1>8 DEF MakeAgain, LockTypeOK
<1>9. ASSUME NEW r \in Runs, Stamp(r) PROVE RaceInv'
  BY <1>9 DEF Stamp, LockTypeOK
<1>10. ASSUME NEW r \in Runs, Finish(r) PROVE RaceInv'
  BY <1>10 DEF Finish, LockTypeOK
<1>11. ASSUME NEW r \in Runs, Crash(r) PROVE RaceInv'
  BY <1>11 DEF Crash, Forget, LockTypeOK
<1> QED
  BY <1>1, <1>2, <1>3, <1>4, <1>5, <1>6, <1>7, <1>8, <1>9, <1>10, <1>11
     DEF LockNext, Step

\* Runs that come one after another never rob: not while another works, nor
\* after any number of them were killed with the lock in hand.
THEOREM NobodyRobsAlone == LockSpec => []RobberyNeedsARace
<1>1. LockInit => RaceInv
  <2>1. ASSUME LockInit PROVE \A r \in Runs : place[r] = "idle"
    BY <2>1 DEF LockInit
  <2> QED
    BY <2>1, LockInvInit DEF LockInit, RaceInv, OneWindow, NobodyWorksBesides,
       NotedIsTheHolder, Alone
<1>2. RaceInv /\ [LockNext]_lockVars => RaceInv'
  BY RaceInvStep
<1>3. RaceInv => RobberyNeedsARace
  BY DEF RaceInv, RobberyNeedsARace
<1> QED
  BY <1>1, <1>2, <1>3, PTL DEF LockSpec

\* Both together: what the lock is good for, for any number of runs.
THEOREM LockHoldsUntilRobbed == LockSpec => []LockHolds
<1>1. ExcludesUnlessRobbed /\ RobberyNeedsARace => LockHolds
  BY DEF LockHolds
<1> QED
  BY <1>1, LockExcludes, NobodyRobsAlone, PTL

HIDE DEF Places, Taking, Leaving, Pids, Holding, Settled, InWindow, Go

-----------------------------------------------------------------------------
(***************************************************************************)
(* What the lock does for the commands.  A step of the runs is one of the  *)
(* machine, one of a working run's command, or leaves the releases alone.  *)
(* A command under way is that of a run that works and has begun, and what *)
(* it is about to activate, or to go back to, is a commit.                 *)
(***************************************************************************)

Machine == (\E t \in Trees : Push(t)) \/ AppDies \/ AppStarts
CommandStep(r) ==
  Deploy(r) \/ Work(r) \/ Interrupt(r) \/ Resume(r) \/ \E c \in Commits : Rollback(r, c)

Targeted ==
  \A r \in Runs :
    /\ at[r] # "idle" => new[r] \in Commits
    /\ at[r] = "flipBack" => old[r] \in Commits

OneAtATime ==
  /\ due \subseteq Runs /\ \A r \in due : place[r] = "working"
  /\ \A r \in Runs : at[r] # "idle" => Holder(r)

BaseInv == LockInv /\ TypeOK /\ Targeted /\ OneAtATime

LEMMA RunsStepCases ==
  ASSUME [RunsNext]_runVars
  PROVE  \/ UNCHANGED vars
         \/ Machine /\ UNCHANGED <<lockVars, due>>
         \/ \E r \in Runs : place[r] = "working" /\ CommandStep(r)
<1> USE DEF Machine, CommandStep
<1>1. CASE UNCHANGED runVars
  BY <1>1 DEF runVars
<1>2. CASE Outside
  BY <1>2 DEF Outside
<1>3. ASSUME NEW r \in Runs, StartRun(r) \/ Acquire(r) \/ Leave(r)
      PROVE  UNCHANGED vars
  BY <1>3 DEF StartRun, Acquire, Leave, LockOnly
<1>4. ASSUME NEW r \in Runs, Begin(r)
      PROVE  UNCHANGED vars \/ (place[r] = "working" /\ CommandStep(r))
  BY <1>4 DEF Begin
<1>5. ASSUME NEW r \in Runs, WorkOn(r) \/ BreaksOff(r) \/ Killed(r)
      PROVE  UNCHANGED vars \/ (place[r] = "working" /\ CommandStep(r))
  BY <1>5 DEF WorkOn, BreaksOff, Killed, Holder
<1> QED
  BY <1>1, <1>2, <1>3, <1>4, <1>5 DEF RunsNext, RunGoesOn

LEMMA RunsStepIsALockStep == [RunsNext]_runVars => [LockNext]_lockVars
<1> SUFFICES ASSUME [RunsNext]_runVars PROVE [LockNext]_lockVars
  OBVIOUS
<1>1. CASE UNCHANGED runVars
  BY <1>1 DEF runVars
<1>2. CASE Outside
  BY <1>2 DEF Outside
<1>3. ASSUME NEW r \in Runs, StartRun(r) \/ Acquire(r) \/ Leave(r) \/ Killed(r)
      PROVE  LockNext
  BY <1>3 DEF StartRun, Acquire, Leave, Killed, LockNext, Step
<1>4. ASSUME NEW r \in Runs, Begin(r) \/ WorkOn(r) \/ BreaksOff(r)
      PROVE  UNCHANGED lockVars
  BY <1>4 DEF Begin, WorkOn, BreaksOff
<1> QED
  BY <1>1, <1>2, <1>3, <1>4 DEF RunsNext, RunGoesOn

\* A robbery is not forgotten.
LEMMA RobbedStays == [LockNext]_lockVars /\ robbed => robbed'
<1> SUFFICES ASSUME [LockNext]_lockVars, robbed PROVE robbed'
  OBVIOUS
<1>1. ASSUME NEW r \in Runs, Start(r) \/ Step(r) \/ Crash(r) PROVE robbed'
  BY <1>1 DEF Start, Step, Crash, MakeLock, ReadPid, Probe, UnlinkPid, RemoveDir,
     MakeAgain, Stamp, Finish, Robs
<1> QED
  BY <1>1 DEF LockNext, lockVars

LEMMA NoneIsNoCommit == None \notin Commits /\ Releases = Commits \cup {None}
BY DEF None, Commits, Releases

LEMMA BaseInit == RunsInit => BaseInv
<1> SUFFICES ASSUME RunsInit PROVE BaseInv
  OBVIOUS
<1>1. Init /\ due = {} /\ LockInv
  BY LockInvInit DEF RunsInit
<1>2. main \in Seq(Trees) /\ Len(main) = 1 /\ 1 \in Commits
  BY <1>1, DeployAssumption DEF Init, Commits
<1>3. TypeOK
  <2>1. None \in Releases /\ Len(main) \in Commits
    BY <1>2 DEF Releases
  <2>2. rollbacks \in 0..MaxRollbacks /\ interrupts \in 0..MaxInterrupts
    BY <1>1, DeployAssumption DEF Init
  <2>3. releases \subseteq Commits /\ newer \subseteq releases \X releases
    BY <1>1 DEF Init
  <2>4. /\ at \in [Runs -> Steps] /\ cmd \in [Runs -> {"deploy", "rollback"}]
        /\ new \in [Runs -> Releases] /\ old \in [Runs -> Releases]
    BY <1>1, <2>1 DEF Init, Steps
  <2> QED
    BY <1>1, <1>2, <2>1, <2>2, <2>3, <2>4 DEF Init, TypeOK
<1>4. Targeted /\ OneAtATime
  BY <1>1 DEF Init, Targeted, OneAtATime
<1> QED
  BY <1>1, <1>3, <1>4 DEF BaseInv

\* Touching a release, old or new, keeps the order an order of releases.
LEMMA TouchKeepsTheDisk ==
  ASSUME NEW c \in Commits, Touch(c),
         releases \subseteq Commits, newer \subseteq releases \X releases
  PROVE  /\ releases \subseteq releases' /\ c \in releases'
         /\ releases' \subseteq Commits
         /\ newer' \subseteq releases' \X releases'
BY DEF Touch

\* The prune removes neither of the releases that links and notes name.
LEMMA PruneSparesWhatIsNamed ==
  ASSUME NEW r \in Runs, Prune(r)
  PROVE  /\ releases' \subseteq releases
         /\ {current, previous} \cap releases \subseteq releases'
         /\ newer' \subseteq releases' \X releases'
BY DEF Prune, Spared

\* A command's step touches no other run's locals, and it has a new place.
LEMMA CommandIsLocal ==
  ASSUME TypeOK, NEW r \in Runs, CommandStep(r)
  PROVE  /\ \A q \in Runs \ {r} : /\ at'[q] = at[q] /\ cmd'[q] = cmd[q]
                                  /\ new'[q] = new[q] /\ old'[q] = old[q]
         /\ UNCHANGED main
<1> USE DEF TypeOK, Goto, Return, Command, locals
<1>1. CASE SkipCommit(r) \/ BeginDeploy(r)
  BY <1>1 DEF SkipCommit, BeginDeploy
<1>2. CASE Work(r)
  BY <1>2 DEF Work, Build, BuildFails, NotePrevious, HoldDeploys, Flip, StopApp,
     Ready, GiveUp, GiveUpForGood, Deployed, Prune
<1>3. CASE Interrupt(r) \/ Resume(r)
  BY <1>3 DEF Interrupt, Resume
<1>4. CASE \E c \in Commits : Rollback(r, c)
  BY <1>4 DEF Rollback
<1> QED
  BY <1>1, <1>2, <1>3, <1>4 DEF CommandStep, Deploy

LEMMA CommandTyped ==
  ASSUME TypeOK, Targeted, NEW r \in Runs, CommandStep(r)
  PROVE  TypeOK' /\ Targeted'
<1> USE NoneIsNoCommit DEF Targeted, files, disk, history, Goto, Return, Command, locals
<1>1. CASE SkipCommit(r)
  BY <1>1 DEF TypeOK, SkipCommit, Newest
<1>2. CASE BeginDeploy(r)
  BY <1>2 DEF TypeOK, BeginDeploy, Newest, Steps
<1>3. CASE Build(r)
  <2>1. /\ releases' \subseteq Commits /\ newer' \subseteq releases' \X releases'
    BY <1>3, TouchKeepsTheDisk DEF Build, TypeOK
  <2> QED
    BY <1>3, <2>1 DEF TypeOK, Build, Steps
<1>4. CASE BuildFails(r)
  BY <1>4 DEF TypeOK, BuildFails, Condemn, Steps
<1>5. CASE NotePrevious(r)
  BY <1>5 DEF TypeOK, NotePrevious, Steps
<1>6. CASE HoldDeploys(r)
  BY <1>6 DEF TypeOK, HoldDeploys, Steps
<1>7. CASE Flip(r)
  <2>1. Target(r) \in Commits
    BY <1>7 DEF Flip, Target
  <2>2. releases' \subseteq Commits /\ newer' \subseteq releases' \X releases'
    BY <1>7, <2>1, TouchKeepsTheDisk DEF Flip, TypeOK
  <2> QED
    BY <1>7, <2>1, <2>2 DEF TypeOK, Flip, Steps
<1>8. CASE StopApp(r)
  BY <1>8 DEF TypeOK, StopApp, Steps
<1>9. CASE Ready(r)
  BY <1>9 DEF TypeOK, Ready, Steps
<1>10. CASE GiveUp(r)
  BY <1>10 DEF TypeOK, GiveUp, Condemn, Steps
<1>11. CASE GiveUpForGood(r)
  BY <1>11 DEF TypeOK, GiveUpForGood, Steps
<1>12. CASE Deployed(r)
  BY <1>12 DEF TypeOK, Deployed, Steps
<1>13. CASE Prune(r)
  <2>1. releases' \subseteq releases /\ newer' \subseteq releases' \X releases'
    BY <1>13, PruneSparesWhatIsNamed
  <2> QED
    BY <1>13, <2>1 DEF TypeOK, Prune, Steps
<1>14. CASE Interrupt(r)
  BY <1>14, DeployAssumption DEF TypeOK, Interrupt, Steps
<1>15. CASE Resume(r)
  BY <1>15 DEF TypeOK, Resume
<1>16. ASSUME NEW c \in Commits, Rollback(r, c) PROVE TypeOK' /\ Targeted'
  BY <1>16, DeployAssumption DEF TypeOK, Rollback, Steps
<1> QED
  BY <1>1, <1>2, <1>3, <1>4, <1>5, <1>6, <1>7, <1>8, <1>9, <1>10, <1>11, <1>12,
     <1>13, <1>14, <1>15, <1>16 DEF CommandStep, Deploy, Work

LEMMA MachineTyped ==
  ASSUME TypeOK, Targeted, Machine
  PROVE  TypeOK' /\ Targeted'
<1> USE DEF Targeted, files, disk, history, locals
<1>1. ASSUME NEW t \in Trees, Push(t) PROVE TypeOK' /\ Targeted'
  <2>1. main' \in Seq(Trees) /\ Len(main') = Len(main) + 1
    BY <1>1 DEF Push, TypeOK
  <2>2. Len(main') \in Commits
    BY <1>1, <2>1, DeployAssumption DEF Push, TypeOK, Commits
  <2> QED
    BY <1>1, <2>1, <2>2 DEF Push, TypeOK
<1>2. CASE AppDies \/ AppStarts
  BY <1>2, NoneIsNoCommit DEF AppDies, AppStarts, TypeOK
<1> QED
  BY <1>1, <1>2 DEF Machine

LEMMA OneAtATimeStep ==
  ASSUME LockTypeOK, TypeOK, OneAtATime, [RunsNext]_runVars
  PROVE  OneAtATime'
<1> place \in [Runs -> Places] /\ at \in [Runs -> Steps]
  BY DEF LockTypeOK, TypeOK
<1> USE DEF OneAtATime, Holder, vars, locals, lockVars, LockOnly, Go
<1>1. CASE UNCHANGED runVars \/ Outside
  BY <1>1 DEF runVars, Outside, Push, AppDies, AppStarts
<1>2. ASSUME NEW r \in Runs, StartRun(r) PROVE OneAtATime'
  BY <1>2 DEF StartRun, Start
<1>3. ASSUME NEW r \in Runs, Acquire(r) PROVE OneAtATime'
  <2>1. CASE Stamp(r) /\ due' = due \cup {r} /\ LockOnly
    BY <2>1 DEF Stamp
  <2>2. CASE /\ \/ MakeLock(r) \/ ReadPid(r) \/ Probe(r)
                \/ UnlinkPid(r) \/ RemoveDir(r) \/ MakeAgain(r)
             /\ LockOnly /\ UNCHANGED due
    <3>1. place[r] # "working" /\ \A q \in Runs \ {r} : place'[q] = place[q]
      BY <2>2 DEF MakeLock, ReadPid, Probe, UnlinkPid, RemoveDir, MakeAgain
    <3> QED
      BY <2>2, <3>1
  <2> QED
    BY <1>3, <2>1, <2>2 DEF Acquire
<1>4. ASSUME NEW r \in Runs, Begin(r) PROVE OneAtATime'
  <2>1. \A q \in Runs \ {r} : at'[q] = at[q]
    BY <1>4, CommandIsLocal DEF Begin, CommandStep
  <2> QED
    BY <1>4, <2>1 DEF Begin
<1>5. ASSUME NEW r \in Runs, WorkOn(r) \/ BreaksOff(r) PROVE OneAtATime'
  <2>1. \A q \in Runs \ {r} : at'[q] = at[q]
    BY <1>5, CommandIsLocal DEF WorkOn, BreaksOff, CommandStep
  <2> QED
    BY <1>5, <2>1 DEF WorkOn, BreaksOff
<1>6. ASSUME NEW r \in Runs, Leave(r) PROVE OneAtATime'
  BY <1>6 DEF Leave, Finish
<1>7. ASSUME NEW r \in Runs, Killed(r) PROVE OneAtATime'
  <2>1. at'[r] = "idle" /\ \A q \in Runs \ {r} : at'[q] = at[q]
    BY <1>7 DEF Killed, Interrupt, Return, Command
  <2>2. due' = due \ {r} /\ \A q \in Runs \ {r} : place'[q] = place[q]
    BY <1>7 DEF Killed, Crash
  <2> QED
    BY <2>1, <2>2
<1> QED
  BY <1>1, <1>2, <1>3, <1>4, <1>5, <1>6, <1>7 DEF RunsNext, RunGoesOn

LEMMA BaseStep == BaseInv /\ [RunsNext]_runVars => BaseInv'
<1> SUFFICES ASSUME BaseInv, [RunsNext]_runVars PROVE BaseInv'
  OBVIOUS
<1>1. LockInv' /\ OneAtATime'
  BY RunsStepIsALockStep, LockInvStep, OneAtATimeStep DEF BaseInv, LockInv
<1>2. TypeOK' /\ Targeted'
  <2>1. CASE UNCHANGED vars
    BY <2>1 DEF BaseInv, TypeOK, Targeted, vars, files, disk, locals, history
  <2>2. CASE Machine
    BY <2>2, MachineTyped DEF BaseInv
  <2>3. CASE \E r \in Runs : CommandStep(r)
    BY <2>3, CommandTyped DEF BaseInv
  <2> QED
    BY <2>1, <2>2, <2>3, RunsStepCases
<1> QED
  BY <1>1, <1>2 DEF BaseInv

\* Unless a run was robbed, the others are idle while one works.
LEMMA OthersIdle ==
  ASSUME BaseInv, ~robbed, NEW r \in Runs, place[r] = "working"
  PROVE  \A q \in Runs \ {r} : at[q] = "idle"
BY DEF BaseInv, LockInv, OneHolder, OneAtATime, Holder, Holding

\* A command under way is that of the only run that works, unless a run was
\* robbed of the lock.
OneCommand ==
  ~robbed =>
    \A r, q \in Runs : at[r] # "idle" /\ place[q] = "working" => q = r

\* Commands do not overlap, and no run starts one beside another's: each run
\* has a place of its own in its command, and only the lock keeps them apart.
THEOREM CommandsDoNotOverlap == RunsSpec => []OneCommand
<1>1. BaseInv => OneCommand
  BY OthersIdle DEF OneCommand
<1> QED
  BY <1>1, BaseInit, BaseStep, PTL DEF RunsSpec

-----------------------------------------------------------------------------
(***************************************************************************)
(* The releases, as long as no run is robbed.  That a failed commit is not *)
(* retried is not inductive: state/failed holds only one commit and is     *)
(* removed by the next success.  What makes it enough is order: everything *)
(* condemned lies behind the commit being deployed, and if main's newest   *)
(* commit is condemned then state/failed names it.                         *)
(***************************************************************************)

Forward == {"build", "note", "flip", "stop", "wait", "done"}

Orderly(r) ==
  /\ at[r] \in {"build", "done"} => cmd[r] = "deploy"
  /\ at[r] = "hold" => cmd[r] = "rollback"
  /\ cmd[r] = "deploy" /\ at[r] \in Forward =>
       new[r] <= Len(main) /\ \A c \in condemned : c < new[r]

OrderInv ==
  /\ \A c \in condemned : c <= Len(main)
  /\ Len(main) \in condemned => failed = Len(main)
  /\ \A r \in Runs : Orderly(r)

\* Main's end is a commit, and what is marked and named are commits.
LEMMA Numbers ==
  ASSUME TypeOK
  PROVE  /\ Len(main) \in Nat /\ condemned \subseteq Nat /\ failed \in Nat
         /\ \A r \in Runs : new[r] \in Nat
BY DeployAssumption DEF TypeOK, Releases, Commits, None

LEMMA CommandKeepsOrder ==
  ASSUME TypeOK, OrderInv, NEW r \in Runs, CommandStep(r),
         \A q \in Runs \ {r} : at[q] = "idle"
  PROVE  OrderInv'
<1> \A q \in Runs \ {r} : at'[q] = "idle"
  BY CommandIsLocal
<1> \A q \in Runs \ {r} : Orderly(q)'
  BY DEF Orderly, Forward
<1> SUFFICES /\ \A c \in condemned' : c <= Len(main')
             /\ Len(main') \in condemned' => failed' = Len(main')
             /\ Orderly(r)'
  BY DEF OrderInv
<1> /\ at \in [Runs -> Steps] /\ cmd \in [Runs -> {"deploy", "rollback"}]
    /\ new \in [Runs -> Releases] /\ old \in [Runs -> Releases]
  BY DEF TypeOK
<1> main' = main /\ Orderly(r) /\ (\A c \in condemned : c <= Len(main))
    /\ (Len(main) \in condemned => failed = Len(main))
  BY CommandIsLocal DEF OrderInv
<1> USE Numbers DEF files, history, locals, Orderly, Forward, Goto, Return, Command
<1>1. CASE SkipCommit(r) \/ Resume(r)
  BY <1>1 DEF SkipCommit, Resume
<1>2. CASE BeginDeploy(r)
  <2>1. Len(main) \notin condemned
    BY <1>2 DEF BeginDeploy, Looks, IsNews, Newest
  <2>2. new'[r] = Len(main) /\ cmd'[r] = "deploy" /\ UNCHANGED <<condemned, failed>> /\ at'[r] = "build"
    BY <1>2 DEF BeginDeploy, Newest
  <2>3. \A c \in condemned : c < Len(main)
    BY <2>1
  <2> QED
    BY <2>1, <2>2, <2>3
<1>3. CASE Build(r)
  BY <1>3 DEF Build
<1>4. CASE BuildFails(r) \/ GiveUp(r)
  <2>1. failed' = new[r] /\ condemned' = condemned \cup {new[r]}
    BY <1>4 DEF BuildFails, GiveUp, Condemn
  <2>2. new[r] <= Len(main) /\ \A c \in condemned : c < new[r]
    BY <1>4 DEF BuildFails, GiveUp
  <2>3. at'[r] \in {"idle", "flipBack"}
    BY <1>4 DEF BuildFails, GiveUp
  <2> QED
    BY <2>1, <2>2, <2>3
<1>5. CASE NotePrevious(r) \/ HoldDeploys(r) \/ Flip(r) \/ StopApp(r)
  BY <1>5 DEF NotePrevious, HoldDeploys, Flip, StopApp
<1>6. CASE Ready(r) \/ GiveUpForGood(r) \/ Interrupt(r) \/ Prune(r)
  BY <1>6 DEF Ready, GiveUpForGood, Interrupt, Prune
<1>7. CASE Deployed(r)
  <2>1. new[r] <= Len(main) /\ \A c \in condemned : c < new[r]
    BY <1>7 DEF Deployed
  <2>2. Len(main) \notin condemned
    BY <2>1
  <2>3. UNCHANGED condemned /\ at'[r] = "prune"
    BY <1>7 DEF Deployed
  <2> QED
    BY <2>2, <2>3
<1>8. CASE \E c \in Commits : Rollback(r, c)
  <2>1. at'[r] = "note" /\ cmd'[r] = "rollback" /\ UNCHANGED <<condemned, failed>>
    BY <1>8 DEF Rollback
  <2> QED
    BY <2>1
<1> QED
  BY <1>1, <1>2, <1>3, <1>4, <1>5, <1>6, <1>7, <1>8 DEF CommandStep, Deploy, Work

LEMMA MachineKeepsOrder ==
  ASSUME TypeOK, OrderInv, Machine
  PROVE  OrderInv'
<1> USE DEF files, history, locals, OrderInv, Orderly
<1>1. ASSUME NEW t \in Trees, Push(t) PROVE OrderInv'
  <2>1. main \in Seq(Trees) /\ UNCHANGED <<condemned, failed, at, cmd, new>>
    BY <1>1 DEF Push, TypeOK
  <2>2. Len(main') = Len(main) + 1
    BY <1>1, <2>1 DEF Push
  <2> QED
    BY <2>1, <2>2, Numbers
<1>2. CASE AppDies \/ AppStarts
  BY <1>2 DEF AppDies, AppStarts
<1> QED
  BY <1>1, <1>2 DEF Machine

OrderedInv == BaseInv /\ (~robbed => OrderInv)

\* Whatever the deployer, the operator and interruptions did since, a commit
\* that ever was marked failed is not activated by the deployer again.
THEOREM FailedStaysBehind == RunsSpec => []FailedIsNotRetried
<1>1. RunsInit => OrderedInv
  BY BaseInit DEF RunsInit, Init, OrderedInv, OrderInv, Orderly, Forward
<1>2. OrderedInv /\ [RunsNext]_runVars => OrderedInv'
  <2> SUFFICES ASSUME OrderedInv, [RunsNext]_runVars, ~robbed' PROVE OrderInv'
    BY BaseStep DEF OrderedInv
  <2>1. ~robbed /\ OrderInv /\ BaseInv /\ TypeOK
    BY RunsStepIsALockStep, RobbedStays DEF OrderedInv, BaseInv
  <2>2. CASE UNCHANGED vars
    BY <2>1, <2>2 DEF OrderInv, Orderly, vars, files, locals, history
  <2>3. CASE Machine
    BY <2>1, <2>3, MachineKeepsOrder
  <2>4. ASSUME NEW r \in Runs, place[r] = "working", CommandStep(r) PROVE OrderInv'
    BY <2>1, <2>4, OthersIdle, CommandKeepsOrder
  <2> QED
    BY <2>2, <2>3, <2>4, RunsStepCases
<1>3. OrderedInv => FailedIsNotRetried
  <2> SUFFICES ASSUME OrderedInv, ~robbed, NEW r \in Runs, at[r] = "flip", cmd[r] = "deploy"
               PROVE  new[r] \notin condemned
    BY DEF FailedIsNotRetried
  <2>1. TypeOK /\ \A c \in condemned : c < new[r]
    BY DEF OrderedInv, OrderInv, Orderly, Forward, BaseInv
  <2> QED
    BY <2>1, Numbers
<1> QED
  BY <1>1, <1>2, <1>3, PTL DEF RunsSpec

(***************************************************************************)
(* What is in use stays on disk.  Only the prune removes a release, and it *)
(* spares the two that `current` and `previous` name; what remains to be   *)
(* shown is that the app runs from one of these by then.  It was stopped   *)
(* after the flip, so whatever launchd started since is the current        *)
(* release.                                                                *)
(***************************************************************************)

Verified(r) ==
  at[r] \in {"wait", "waitBack", "done", "prune"} => app \in {None, current}

Supplied(r) ==
  /\ at[r] \in Steps \ {"idle", "build"} => new[r] \in releases
  /\ at[r] # "idle" => old[r] \in releases \cup {None}

DiskInv ==
  /\ {current, previous, app} \subseteq releases \cup {None}
  /\ \A r \in Runs : Verified(r) /\ Supplied(r)

LEMMA CommandKeepsTheDisk ==
  ASSUME TypeOK, Targeted, DiskInv, NEW r \in Runs, CommandStep(r),
         \A q \in Runs \ {r} : at[q] = "idle"
  PROVE  DiskInv'
<1> \A q \in Runs \ {r} : at'[q] = "idle"
  BY CommandIsLocal
<1> \A q \in Runs \ {r} : Verified(q)' /\ Supplied(q)'
  BY DEF Verified, Supplied
<1> SUFFICES /\ {current', previous', app'} \subseteq releases' \cup {None}
             /\ Verified(r)' /\ Supplied(r)'
  BY DEF DiskInv
<1> /\ at \in [Runs -> Steps] /\ cmd \in [Runs -> {"deploy", "rollback"}]
    /\ new \in [Runs -> Releases] /\ old \in [Runs -> Releases]
    /\ releases \subseteq Commits /\ newer \subseteq releases \X releases
  BY DEF TypeOK
<1> /\ {current, previous, app} \subseteq releases \cup {None}
    /\ Verified(r) /\ Supplied(r)
  BY DEF DiskInv
<1> USE NoneIsNoCommit DEF Targeted, Verified, Supplied, Steps,
        files, disk, locals, history, Goto, Return, Command
<1>1. CASE SkipCommit(r) \/ Resume(r)
  BY <1>1 DEF SkipCommit, Resume
<1>2. CASE BeginDeploy(r)
  BY <1>2 DEF BeginDeploy
<1>3. CASE Build(r)
  <2>1. releases \subseteq releases' /\ new[r] \in releases'
    BY <1>3, TouchKeepsTheDisk DEF Build
  <2> QED
    BY <1>3, <2>1 DEF Build
<1>4. CASE BuildFails(r) \/ GiveUp(r)
  BY <1>4 DEF BuildFails, GiveUp
<1>5. CASE NotePrevious(r) \/ HoldDeploys(r)
  BY <1>5 DEF NotePrevious, HoldDeploys
<1>6. CASE Flip(r)
  <2>1. Target(r) \in releases /\ Target(r) \in Commits
    BY <1>6 DEF Flip, Target
  <2>2. releases \subseteq releases' /\ Target(r) \in releases'
    BY <1>6, <2>1, TouchKeepsTheDisk DEF Flip
  <2> QED
    BY <1>6, <2>1, <2>2 DEF Flip
<1>7. CASE StopApp(r)
  BY <1>7 DEF StopApp
<1>8. CASE Ready(r)
  BY <1>8 DEF Ready
<1>9. CASE GiveUpForGood(r) \/ Interrupt(r)
  BY <1>9 DEF GiveUpForGood, Interrupt
<1>10. CASE Deployed(r)
  BY <1>10 DEF Deployed
<1>11. CASE Prune(r)
  <2>1. app \in {None, current}
    BY <1>11 DEF Prune
  <2>2. {current, previous} \cap releases \subseteq releases'
    BY <1>11, PruneSparesWhatIsNamed
  <2> QED
    BY <1>11, <2>1, <2>2 DEF Prune
<1>12. CASE \E c \in Commits : Rollback(r, c)
  BY <1>12 DEF Rollback
<1> QED
  BY <1>1, <1>2, <1>3, <1>4, <1>5, <1>6, <1>7, <1>8, <1>9, <1>10, <1>11, <1>12
     DEF CommandStep, Deploy, Work

LEMMA MachineKeepsTheDisk == DiskInv /\ Machine => DiskInv'
BY DEF DiskInv, Verified, Supplied, Machine, Push, AppDies, AppStarts,
   files, disk, locals, history, None

ReleasesInv == BaseInv /\ (~robbed => DiskInv)

LEMMA ReleasesInvHolds == RunsSpec => []ReleasesInv
<1>1. RunsInit => ReleasesInv
  BY BaseInit DEF RunsInit, Init, ReleasesInv, DiskInv, Verified, Supplied, None
<1>2. ReleasesInv /\ [RunsNext]_runVars => ReleasesInv'
  <2> SUFFICES ASSUME ReleasesInv, [RunsNext]_runVars, ~robbed' PROVE DiskInv'
    BY BaseStep DEF ReleasesInv
  <2>1. ~robbed /\ DiskInv /\ BaseInv /\ TypeOK /\ Targeted
    BY RunsStepIsALockStep, RobbedStays DEF ReleasesInv, BaseInv
  <2>2. CASE UNCHANGED vars
    BY <2>1, <2>2 DEF DiskInv, Verified, Supplied, vars, files, disk, locals
  <2>3. CASE Machine
    BY <2>1, <2>3, MachineKeepsTheDisk
  <2>4. ASSUME NEW r \in Runs, place[r] = "working", CommandStep(r) PROVE DiskInv'
    BY <2>1, <2>4, OthersIdle, CommandKeepsTheDisk
  <2> QED
    BY <2>2, <2>3, <2>4, RunsStepCases
<1> QED
  BY <1>1, <1>2, PTL DEF RunsSpec

\* The links, the noted release, the app's release and whatever a command
\* is about to activate are on disk, after any number of prunes, rollbacks
\* and interruptions and for any number of releases kept.
THEOREM InUseStaysOnDisk == RunsSpec => []InUseIsOnDisk
<1>1. ReleasesInv => InUseIsOnDisk
  BY DEF ReleasesInv, DiskInv, Supplied, InUseIsOnDisk
<1> QED
  BY <1>1, ReleasesInvHolds, PTL

\* Whoever answers the readiness check is the release being verified, even
\* when the app dies and is started again meanwhile.
THEOREM TheCurrentAppAnswers == RunsSpec => []TheRightAppAnswers
<1>1. ReleasesInv => TheRightAppAnswers
  BY DEF ReleasesInv, DiskInv, Verified, TheRightAppAnswers
<1> QED
  BY <1>1, ReleasesInvHolds, PTL

=============================================================================
