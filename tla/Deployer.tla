------------------------------ MODULE Deployer ------------------------------
(***************************************************************************)
(* What deploy.sh does to the releases of the machine: the automatic run   *)
(* that follows main, the operator's rollback and resume, and the app that *)
(* launchd keeps running from the release `current` points at.             *)
(*                                                                         *)
(* Every run has its own place in its command and its own locals: commands *)
(* overlap when a run robbed another of the lock (DeployLock), and may be  *)
(* cut off between any two of their writes.  What a command reads before   *)
(* it writes is one step, and so is a whole prune: after a robbery nothing *)
(* is claimed of the releases.  A commit of main is its position; the      *)
(* fetch refuses a main that was rewritten, so main only grows.  Of a      *)
(* commit's files only the ones the app serves matter: its tree.           *)
(***************************************************************************)
EXTENDS DeployLock, Sequences, FiniteSets

CONSTANTS Trees,      \* what a commit's cmd, internal and web/public may hold
          Sick,       \* the trees whose app never answers /readyz
          Keep,       \* CRIBBAGER_KEEP_RELEASES
          MaxCommits, \* bound on the length of main
          MaxRollbacks, MaxInterrupts \* bounds on the operator and on bad luck

None == 0

ASSUME DeployAssumption ==
  /\ Sick \subseteq Trees /\ Trees # {}
  /\ Keep \in Nat \ {0} /\ MaxCommits \in Nat \ {0}
  /\ MaxRollbacks \in Nat /\ MaxInterrupts \in Nat

VARIABLES
  main,      \* the tree of every commit of origin/main, oldest first
  current,   \* the release the link `current` names
  previous,  \* state/previous
  failed,    \* state/failed
  skipped,   \* state/skipped
  hold,      \* state/hold exists
  releases,  \* the releases on disk
  newer,     \* pairs of them: the first was touched after the second
  app,       \* the release the running process was started from
  at, cmd,   \* per run, where its command is, and which it is
  new, old,  \* its locals: the release to activate, the one that was deployed
  rollbacks, interrupts,
  condemned  \* history: every commit that state/failed ever held

disk == <<releases, newer>>
files == <<current, previous, failed, skipped, hold, disk>>
locals == <<at, cmd, new, old>>
history == <<rollbacks, interrupts, condemned>>
vars == <<main, files, app, locals, history>>

Commits == 1..MaxCommits
Releases == Commits \cup {None}
Steps == {"idle", "build", "note", "hold", "flip", "stop", "wait", "done",
          "prune", "flipBack", "stopBack", "waitBack"}

TypeOK ==
  /\ main \in Seq(Trees) /\ Len(main) \in Commits
  /\ {current, previous, failed, skipped, app} \subseteq Releases
  /\ hold \in BOOLEAN
  /\ releases \subseteq Commits /\ newer \subseteq releases \X releases
  /\ at \in [Runs -> Steps] /\ cmd \in [Runs -> {"deploy", "rollback"}]
  /\ new \in [Runs -> Releases] /\ old \in [Runs -> Releases]
  /\ rollbacks \in 0..MaxRollbacks /\ interrupts \in 0..MaxInterrupts
  /\ condemned \subseteq Commits

Init ==
  /\ \E t \in Trees : main = <<t>>
  /\ current = None /\ previous = None /\ failed = None /\ skipped = None
  /\ hold = FALSE /\ releases = {} /\ newer = {} /\ app = None
  /\ at = [r \in Runs |-> "idle"] /\ cmd = [r \in Runs |-> "deploy"]
  /\ new = [r \in Runs |-> None] /\ old = [r \in Runs |-> None]
  /\ rollbacks = 0 /\ interrupts = 0 /\ condemned = {}

Newest == Len(main)
Touch(c) ==
  /\ releases' = releases \cup {c}
  /\ newer' = {p \in newer : c \notin {p[1], p[2]}} \cup {c} \X (releases \ {c})
Goto(r, step) == at' = [at EXCEPT ![r] = step] /\ UNCHANGED <<cmd, new, old>>
Command(r, c, step, from, to) ==
  /\ at' = [at EXCEPT ![r] = step] /\ cmd' = [cmd EXCEPT ![r] = c]
  /\ old' = [old EXCEPT ![r] = from] /\ new' = [new EXCEPT ![r] = to]
\* The command is over, and its locals with it.
Return(r) == Command(r, "deploy", "idle", None, None)

\* touches_app: git diff over the directories the app is made of.
TouchesApp(a, b) == main[a] # main[b]
\* git merge-base --is-ancestor
IsAncestor(a, b) == a <= b

-----------------------------------------------------------------------------
\* Outside: commits are pushed, the app dies, launchd starts it.

Push(t) ==
  /\ Len(main) < MaxCommits
  /\ main' = Append(main, t)
  /\ UNCHANGED <<files, app, locals, history>>

AppDies ==
  /\ app # None /\ app' = None
  /\ UNCHANGED <<main, files, locals, history>>

\* run-app.sh execs what `current` names at that moment.
AppStarts ==
  /\ app = None /\ current \in releases
  /\ app' = current
  /\ UNCHANGED <<main, files, locals, history>>

-----------------------------------------------------------------------------
\* deploy: what the run finds under the lock, before it writes anything.

\* (Mutated form: a commit that already failed is tried again.)
MutIsNews(c) == c \notin {current, skipped}
IsNews(c) == c \notin {current, failed, skipped}

Looks ==
  /\ ~hold /\ IsNews(Newest)
  /\ (current # None => IsAncestor(current, Newest))

SkipCommit(r) ==
  /\ at[r] = "idle" /\ Looks /\ current # None /\ ~TouchesApp(current, Newest)
  /\ skipped' = Newest
  /\ UNCHANGED <<main, current, previous, failed, hold, disk, app, locals,
                 history>>

BeginDeploy(r) ==
  /\ at[r] = "idle" /\ Looks
  /\ current # None => TouchesApp(current, Newest)
  /\ Command(r, "deploy", "build", current, Newest)
  /\ UNCHANGED <<main, files, app, history>>

\* build_release: a release that is complete already is not built again; a
\* new one appears whole, by the mv of its finished directory.
Build(r) ==
  /\ at[r] = "build"
  /\ IF new[r] \in releases THEN UNCHANGED disk ELSE Touch(new[r])
  /\ Goto(r, "note")
  /\ UNCHANGED <<main, current, previous, failed, skipped, hold, app, history>>

Condemn(c) == failed' = c /\ condemned' = condemned \cup {c}

BuildFails(r) ==
  /\ at[r] = "build" /\ new[r] \notin releases
  /\ Condemn(new[r])
  /\ Return(r)
  /\ UNCHANGED <<main, current, previous, skipped, hold, disk, app,
                 rollbacks, interrupts>>

NotePrevious(r) ==
  /\ at[r] = "note"
  /\ previous' = IF cmd[r] = "deploy" /\ old[r] = None THEN previous ELSE old[r]
  /\ Goto(r, IF cmd[r] = "deploy" THEN "flip" ELSE "hold")
  /\ UNCHANGED <<main, current, failed, skipped, hold, disk, app, history>>

-----------------------------------------------------------------------------
\* activate: flip, restart, verify; forward, or back after a failure.

Target(r) == IF at[r] = "flipBack" THEN old[r] ELSE new[r]

Flip(r) ==
  /\ at[r] \in {"flip", "flipBack"}
  /\ current' = Target(r)
  /\ Touch(Target(r))
  /\ Goto(r, IF at[r] = "flip" THEN "stop" ELSE "stopBack")
  /\ UNCHANGED <<main, previous, failed, skipped, hold, app, history>>

\* restart_app: TERM, wait for the exit, KILL after 30 s.
StopApp(r) ==
  /\ at[r] \in {"stop", "stopBack"}
  /\ app' = None
  /\ Goto(r, IF at[r] = "stop" THEN "wait" ELSE "waitBack")
  /\ UNCHANGED <<main, files, history>>

\* wait_ready, answered: whichever process is up answers /readyz.
Ready(r) ==
  /\ at[r] \in {"wait", "waitBack"}
  /\ app # None /\ main[app] \notin Sick
  /\ IF at[r] = "wait" /\ cmd[r] = "deploy" THEN Goto(r, "done") ELSE Return(r)
  /\ UNCHANGED <<main, files, app, rollbacks, interrupts, condemned>>

\* wait_ready ran out of tries: the commit is marked and the release that
\* was deployed comes back.
GiveUp(r) ==
  /\ at[r] = "wait" /\ cmd[r] = "deploy"
  /\ Condemn(new[r])
  /\ IF old[r] = None THEN Return(r) ELSE Goto(r, "flipBack")
  /\ UNCHANGED <<main, current, previous, skipped, hold, disk, app,
                 rollbacks, interrupts>>

\* "MANUAL INTERVENTION REQUIRED", or a rollback target that is not ready.
GiveUpForGood(r) ==
  /\ at[r] = "waitBack" \/ (at[r] = "wait" /\ cmd[r] = "rollback")
  /\ Return(r)
  /\ UNCHANGED <<main, files, app, history>>

\* The release is verified: forget the marks, then prune.
Deployed(r) ==
  /\ at[r] = "done"
  /\ failed' = None /\ skipped' = None
  /\ Goto(r, "prune")
  /\ UNCHANGED <<main, current, previous, hold, disk, app, history>>

\* (Mutated form: only the current release is spared.)
MutSpared == {current}
\* Beyond the newest Keep, the two releases that may still be needed stay.
Spared == {current, previous}

Prune(r) ==
  /\ at[r] = "prune"
  /\ releases' = {c \in releases :
                    \/ Cardinality({d \in releases : <<d, c>> \in newer}) < Keep
                    \/ c \in Spared}
  /\ newer' = newer \cap (releases' \X releases')
  /\ Return(r)
  /\ UNCHANGED <<main, current, previous, failed, skipped, hold, app, history>>

-----------------------------------------------------------------------------
\* The operator.

Rollback(r, target) ==
  /\ at[r] = "idle" /\ rollbacks < MaxRollbacks
  /\ target \in releases \ {current}
  /\ Command(r, "rollback", "note", current, target)
  /\ rollbacks' = rollbacks + 1
  /\ UNCHANGED <<main, files, app, interrupts, condemned>>

HoldDeploys(r) ==
  /\ at[r] = "hold"
  /\ hold' = TRUE
  /\ Goto(r, "flip")
  /\ UNCHANGED <<main, current, previous, failed, skipped, disk, app,
                 history>>

Resume(r) ==
  /\ at[r] = "idle" /\ hold
  /\ hold' = FALSE
  /\ UNCHANGED <<main, current, previous, failed, skipped, disk, app,
                 locals, history>>

\* The run is killed, or the machine stops.
Interrupt(r) ==
  /\ at[r] # "idle" /\ interrupts < MaxInterrupts
  /\ interrupts' = interrupts + 1
  /\ Return(r)
  /\ UNCHANGED <<main, files, app, rollbacks, condemned>>

-----------------------------------------------------------------------------

Deploy(r) == SkipCommit(r) \/ BeginDeploy(r)
Work(r) ==
  \/ Build(r) \/ BuildFails(r) \/ NotePrevious(r) \/ HoldDeploys(r) \/ Flip(r)
  \/ StopApp(r) \/ Ready(r) \/ GiveUp(r) \/ GiveUpForGood(r) \/ Deployed(r)
  \/ Prune(r)

-----------------------------------------------------------------------------

\* The links, the noted release and the release the app was started from
\* (it serves web/public from there) are on disk, prune included: current
\* and previous always, and whatever a command is about to activate, as
\* long as no run was robbed of the lock.
InUseIsOnDisk ==
  ~robbed =>
    /\ {current, previous, app} \subseteq releases \cup {None}
    /\ \A r \in Runs :
         /\ at[r] \in Steps \ {"idle", "build"} => new[r] \in releases
         /\ at[r] # "idle" => old[r] \in releases \cup {None}

\* A commit that failed is not activated by the deployer again, after
\* whatever other deploys, rollbacks and interruptions ("marked failed and
\* will not be retried"), as long as no run was robbed of the lock.
FailedIsNotRetried ==
  ~robbed =>
    \A r \in Runs : at[r] = "flip" /\ cmd[r] = "deploy" => new[r] \notin condemned

\* The answer that passes a release comes from that release: the readiness
\* URL does not say which one is running.
TheRightAppAnswers ==
  ~robbed =>
    \A r \in Runs : at[r] \in {"wait", "waitBack"} /\ app # None => app = current

=============================================================================
