----------------------------- MODULE DeployLock -----------------------------
(***************************************************************************)
(* The lock of deploy.sh: a directory made with mkdir, with the holder's   *)
(* pid in a file inside it.  A run that finds the directory reads the pid; *)
(* when no live process has it, the lock counts as stale and is taken.     *)
(* Two runs meet when an operator's command and launchd's run overlap.     *)
(*                                                                         *)
(* rm -rf of the directory is two steps, as the system calls are: unlink   *)
(* the pid file, remove the directory if it is empty.  acquire_lock runs   *)
(* as the condition of an if, where errexit is off, so a failed write of   *)
(* the pid does not stop the run.  A pid is not given to a new process     *)
(* while the old one is still written somewhere: the pid of an ended run   *)
(* is Dead wherever it was noted.                                          *)
(***************************************************************************)
EXTENDS Naturals

CONSTANTS Runs,      \* those who start deploy.sh: launchd, an operator
          Dead,      \* the pid of a run that has ended
          Empty,     \* no pid: the file is missing or not yet written
          MaxCrashes \* bound on the runs killed half-way

ASSUME LockAssumption ==
  /\ Dead \notin Runs /\ Empty \notin Runs /\ Dead # Empty
  /\ MaxCrashes \in Nat

VARIABLES place,   \* per run, where it is
          locked, \* the lock directory exists
          pid,    \* what its pid file holds
          noted,  \* per run, the pid it read there
          crashes,
          raced,  \* history: two runs were in their windows at once
          robbed  \* history: a run removed the lock another one held

lockVars == <<place, locked, pid, noted, crashes, raced, robbed>>

Taking == {"inspect", "probe", "unlink", "rmdir", "again", "stamp"}
Leaving == {"release", "vanish"}
Places == {"idle", "mkdir", "working"} \cup Taking \cup Leaving
Pids == Runs \cup {Dead, Empty}

LockTypeOK ==
  /\ place \in [Runs -> Places]
  /\ locked \in BOOLEAN
  /\ pid \in Pids
  /\ noted \in [Runs -> Pids]
  /\ crashes \in 0..MaxCrashes
  /\ raced \in BOOLEAN /\ robbed \in BOOLEAN

LockInit ==
  /\ place = [r \in Runs |-> "idle"]
  /\ locked = FALSE
  /\ pid = Empty
  /\ noted = [r \in Runs |-> Empty]
  /\ crashes = 0 /\ raced = FALSE /\ robbed = FALSE

\* A run in its window is between its first look at the lock and its
\* verdict, or between its last command and the lock being gone.
Settled == {"idle", "working"}
InWindow(r) == place[r] \notin Settled

Go(r, p) ==
  /\ place' = [place EXCEPT ![r] = p]
  /\ raced' = (raced \/ (p \notin Settled /\ \E q \in Runs \ {r} : InWindow(q)))

\* The runs that made the lock, or made it anew, and have yet to give it up.
Holding == {"stamp", "working", "release", "vanish"}
HeldByAnother(r) == \E q \in Runs \ {r} : place[q] \in Holding
Robs(r, removes) == robbed' = (robbed \/ (removes /\ HeldByAnother(r)))

\* The run is over: its pid, wherever it was read, is no live run's.
Forget(r) ==
  noted' = [q \in Runs |-> IF q = r THEN Empty
                           ELSE IF noted[q] = r THEN Dead ELSE noted[q]]

Start(r) ==
  /\ place[r] = "idle"
  /\ Go(r, "mkdir")
  /\ UNCHANGED <<locked, pid, noted, crashes, robbed>>

\* (Mutated form: mkdir -p, which an existing directory does not fail.)
MutMakeLock(r) ==
  /\ place[r] = "mkdir"
  /\ locked' = TRUE
  /\ pid' = IF locked THEN pid ELSE Empty
  /\ Go(r, "stamp")
  /\ UNCHANGED <<noted, crashes, robbed>>
\* mkdir "$LOCK": made by this run, or there already.
MakeLock(r) ==
  /\ place[r] = "mkdir"
  /\ locked' = TRUE
  /\ pid' = IF locked THEN pid ELSE Empty
  /\ Go(r, IF locked THEN "inspect" ELSE "stamp")
  /\ UNCHANGED <<noted, crashes, robbed>>

ReadPid(r) ==
  /\ place[r] = "inspect"
  /\ noted' = [noted EXCEPT ![r] = pid]
  /\ Go(r, "probe")
  /\ UNCHANGED <<locked, pid, crashes, robbed>>

\* (Mutated form: a pid that was read is taken for a live one.)
MutLooksAlive(p) == p # Empty
\* kill -0: a pid that was read and is a live run's.
LooksAlive(p) == p \in Runs

\* "another deploy.sh is running; exiting", or the lock counts as stale.
Probe(r) ==
  /\ place[r] = "probe"
  /\ Go(r, IF LooksAlive(noted[r]) THEN "idle" ELSE "unlink")
  /\ noted' = [noted EXCEPT ![r] = Empty]
  /\ UNCHANGED <<locked, pid, crashes, robbed>>

UnlinkPid(r) ==
  /\ place[r] \in {"unlink", "release"}
  /\ pid' = Empty
  /\ Robs(r, pid # Empty)
  /\ Go(r, IF place[r] = "unlink" THEN "rmdir" ELSE "vanish")
  /\ UNCHANGED <<locked, noted, crashes>>

\* rmdir fails when a pid has been written into the directory meanwhile.
RemoveDir(r) ==
  /\ place[r] \in {"rmdir", "vanish"}
  /\ locked' = (locked /\ pid # Empty)
  /\ Robs(r, locked /\ pid = Empty)
  /\ IF place[r] = "rmdir" THEN Go(r, "again") /\ UNCHANGED noted
                        ELSE Go(r, "idle") /\ Forget(r)
  /\ UNCHANGED <<pid, crashes>>

MakeAgain(r) ==
  /\ place[r] = "again"
  /\ locked' = TRUE
  /\ Go(r, IF locked THEN "idle" ELSE "stamp")
  /\ UNCHANGED <<pid, noted, crashes, robbed>>

\* echo $$ >"$LOCK/pid"; the command runs next, whether or not that worked.
Stamp(r) ==
  /\ place[r] = "stamp"
  /\ pid' = IF locked THEN r ELSE pid
  /\ Go(r, "working")
  /\ UNCHANGED <<locked, noted, crashes, robbed>>

\* The command is done and the EXIT trap runs.
Finish(r) ==
  /\ place[r] = "working"
  /\ Go(r, "release")
  /\ UNCHANGED <<locked, pid, noted, crashes, robbed>>

\* Killed outright, or the machine stops: no trap runs.
Crash(r) ==
  /\ place[r] # "idle" /\ crashes < MaxCrashes
  /\ crashes' = crashes + 1
  /\ Go(r, "idle")
  /\ pid' = IF pid = r THEN Dead ELSE pid
  /\ Forget(r)
  /\ UNCHANGED <<locked, robbed>>

Step(r) ==
  \/ MakeLock(r) \/ ReadPid(r) \/ Probe(r) \/ UnlinkPid(r)
  \/ RemoveDir(r) \/ MakeAgain(r) \/ Stamp(r) \/ Finish(r)

LockNext == \E r \in Runs : Start(r) \/ Step(r) \/ Crash(r)

LockSpec == LockInit /\ [][LockNext]_lockVars

-----------------------------------------------------------------------------

\* "locking: mkdir is atomic; a stale lock (dead pid) is stolen", so that the
\* next run finds "another deploy.sh is running; exiting": two runs never
\* work on the releases at once.  The code does not keep this: a run that
\* reads the lock before the holder's pid is in it, or after another run
\* judged it stale too, removes the lock of a live run.
MutualExclusion ==
  \A r, q \in Runs : place[r] = "working" /\ place[q] = "working" => r = q

\* What the lock directory says is true: while a run works, its pid is there
\* for the next run to find, so that run leaves.
LockNamesItsHolder == \A r \in Runs : place[r] = "working" => locked /\ pid = r

\* Removing a lock that is held is the only way out: as long as no run did,
\* two never work at once, whichever runs contended for the lock or were
\* killed, at whatever points.
ExcludesUnlessRobbed == ~robbed => MutualExclusion /\ LockNamesItsHolder

\* A held lock is removed only by a run whose look at the lock overlapped
\* that of another: a run that comes while another works, or after one that
\* was killed half-way, robs nobody.
RobberyNeedsARace == robbed => raced

\* What "mkdir is atomic" leaves of the lock: without a race nothing goes
\* wrong, and in one nothing goes wrong before a held lock is removed.
LockHolds == ExcludesUnlessRobbed /\ RobberyNeedsARace

=============================================================================
