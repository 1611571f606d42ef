----------------------------- MODULE DaemonStart ------------------------------
(***************************************************************************)
(* The start of the macOS daemon with a tray: the registration bounce      *)
(* (cli/registration.go), the single-instance lock and the takeover of its *)
(* holder (cli/lock_unix.go), launchd, which may have started the daemon   *)
(* and starts it again after a crash, and the restart that adopts an       *)
(* update (agent.restart).  Processes start and end in any order: the user *)
(* launches the app, launchd relaunches its job, a daemon respawns.        *)
(*                                                                         *)
(* A process is known by its pid; a pid is used again only when neither    *)
(* the lock file nor a takeover still names it.  SIGTERM ends a process at *)
(* once, as nothing catches it when there is a tray.  Left out: headless   *)
(* and terminal runs, which do not bounce, and translocated ones, which    *)
(* only show an alert.                                                     *)
(***************************************************************************)
EXTENDS Naturals, FiniteSets

CONSTANTS
    MaxPid,      \* bound: pids
    MaxLaunches, \* bound: launches by the user
    MaxVersion,  \* bound: versions of the program
    MaxFailures  \* bound: calls that fail, crashes, quits

ASSUME DaemonAssumption ==
    /\ MaxPid \in Nat \ {0} /\ MaxVersion \in Nat \ {0}
    /\ MaxLaunches \in Nat /\ MaxFailures \in Nat

VARIABLES
    proc,     \* proc[p]: where process p is
    holder,   \* who holds the flock
    recorded, \* the pid in the lock file
    job,      \* the pid of launchd's job
    relaunch, \* launchd is going to start its job
    stamp,    \* the version in the file registration-bounce
    disk,     \* the version of the installed binary
    launches,
    failures,
    stopped   \* history: a daemon was quit or crashed

vars == <<proc, holder, recorded, job, relaunch, stamp, disk, launches, failures, stopped>>
launchd == <<job, relaunch>>
counters == <<launches, failures, stopped>>

-----------------------------------------------------------------------------
Pids == 1 .. MaxPid
Versions == 1 .. MaxVersion
None == 0

(* unnamed is a history variable: it failed to write its pid.              *)
Dead == [pc |-> "dead", image |-> None, target |-> None, unnamed |-> FALSE]
Born == [pc |-> "start", image |-> disk, target |-> None, unnamed |-> FALSE]

At(p, place) == proc[p].pc = place
Goes(p, place) == proc' = [proc EXCEPT ![p].pc = place]

(* What runs the agent: with the lock, "adopt"ing an update, or "bare" of  *)
(* the lock.                                                               *)
Running(p) == proc[p].pc \in {"run", "adopt", "bare"}

Free == {p \in Pids : At(p, "dead") /\ p # recorded /\ \A q \in Pids : proc[q].target # p}
Fresh(q) == q \in Free /\ \A r \in Free : q <= r

Failure == failures < MaxFailures /\ failures' = failures + 1

(* A process ends: its flock is gone, and launchd relaunches its job       *)
(* unless it ended well (KeepAlive/SuccessfulExit).                        *)
Unlocks(p) == holder' = IF holder = p THEN None ELSE holder
MutEnds(p, well) ==
    /\ Unlocks(p)
    /\ job' = IF job = p THEN None ELSE job
    /\ relaunch' = (relaunch \/ ~well)
Ends(p, well) ==
    /\ Unlocks(p)
    /\ job' = IF job = p THEN None ELSE job
    /\ relaunch' = (relaunch \/ (job = p /\ ~well))

-----------------------------------------------------------------------------
UserLaunch ==
    /\ launches < MaxLaunches /\ launches' = launches + 1
    /\ \E q \in Pids : Fresh(q) /\ proc' = [proc EXCEPT ![q] = Born]
    /\ UNCHANGED <<holder, recorded, launchd, stamp, disk, failures, stopped>>

LaunchdStarts ==
    /\ relaunch /\ relaunch' = FALSE
    /\ \E q \in Pids : Fresh(q) /\ job' = q /\ proc' = [proc EXCEPT ![q] = Born]
    /\ UNCHANGED <<holder, recorded, stamp, disk, counters>>

Reinstall ==
    /\ disk < MaxVersion /\ disk' = disk + 1
    /\ UNCHANGED <<proc, holder, recorded, launchd, stamp, counters>>

(* claimRegistrationBounce: the first start of a version.                  *)
Start(p) ==
    /\ At(p, "start")
    /\ Goes(p, IF proc[p].image = stamp THEN "lock" ELSE "claim")
    /\ UNCHANGED <<holder, recorded, launchd, stamp, disk, counters>>

(* It leaves a stamp and then makes room for a fresh process, through      *)
(* launchd or by itself.                                                   *)
MutStamps(p) == stamp' = stamp
Stamps(p) == stamp' = proc[p].image

Bounce(p) ==
    /\ At(p, "claim") /\ Stamps(p)
    /\ Ends(p, FALSE)
    /\ IF job = p
       THEN proc' = [proc EXCEPT ![p] = Dead]
       ELSE \E q \in Pids : Fresh(q) /\ proc' = [proc EXCEPT ![p] = Dead, ![q] = Born]
    /\ UNCHANGED <<recorded, disk, counters>>

(* launchctl does not tell that the process is launchd's job: it starts    *)
(* another by itself.                                                      *)
BounceUntold(p) ==
    /\ At(p, "claim") /\ job = p /\ Failure /\ Stamps(p)
    /\ Ends(p, TRUE)
    /\ \E q \in Pids : Fresh(q) /\ proc' = [proc EXCEPT ![p] = Dead, ![q] = Born]
    /\ UNCHANGED <<recorded, disk, launches, stopped>>

(* No stamp could be read or written, or no process spawned.               *)
BounceFails(p) ==
    /\ Failure
    /\ \/ At(p, "start") /\ UNCHANGED stamp
       \/ At(p, "claim") /\ stamp' \in {stamp, proc[p].image}
    /\ Goes(p, "lock")
    /\ UNCHANGED <<holder, recorded, launchd, disk, launches, stopped>>

-----------------------------------------------------------------------------
(* acquireDaemonLock: the flock first, the pid after.                      *)
Locks(p) == holder = None /\ holder' = p /\ Goes(p, "held")

Lock(p) ==
    /\ At(p, "lock")
    /\ \/ Locks(p)
       \/ holder # None /\ Goes(p, "find") /\ UNCHANGED holder
    /\ UNCHANGED <<recorded, launchd, stamp, disk, counters>>

LockUnavailable(p) ==
    /\ At(p, "lock") /\ Failure /\ Goes(p, "bare")
    /\ UNCHANGED <<holder, recorded, launchd, stamp, disk, launches, stopped>>

MutRecord(p) ==
    /\ At(p, "held") /\ Goes(p, "run")
    /\ UNCHANGED <<holder, recorded, launchd, stamp, disk, counters>>
Record(p) ==
    /\ At(p, "held") /\ recorded' = p /\ Goes(p, "run")
    /\ UNCHANGED <<holder, launchd, stamp, disk, counters>>

(* The file could not be truncated or written, and the daemon runs all the *)
(* same: the file is empty or still names who held the lock before.  (If   *)
(* it has digits of both pids it names no daemon, as if it were empty.)    *)
RecordFails(p) ==
    /\ At(p, "held") /\ Failure
    /\ proc' = [proc EXCEPT ![p].pc = "run", ![p].unnamed = TRUE]
    /\ recorded' \in {recorded, None}
    /\ UNCHANGED <<holder, launchd, stamp, disk, launches, stopped>>

(* restartIncumbentViaLaunchd: kill launchd's job and start it anew.       *)
MutKicks(p) == job # None
Kicks(p) == job \notin {None, p}

Kickstart(p) ==
    /\ At(p, "find") /\ Kicks(p)
    /\ \E q \in Pids :
          /\ Fresh(q) /\ job' = q
          /\ proc' = [proc EXCEPT ![p] = Dead, ![job] = Dead, ![q] = Born]
    /\ Unlocks(job)
    /\ UNCHANGED <<recorded, relaunch, stamp, disk, counters>>

NoKickstart(p) ==
    /\ At(p, "find") /\ Goes(p, "takeover")
    /\ \/ ~Kicks(p) /\ UNCHANGED failures
       \/ Kicks(p) /\ Failure
    /\ UNCHANGED <<holder, recorded, launchd, stamp, disk, launches, stopped>>

(* takeOverIncumbent.  A process that is recording its pid has the file    *)
(* empty for a moment.                                                     *)
Content == {recorded} \cup (IF \E q \in Pids : At(q, "held") THEN {None} ELSE {})

GivesUp(p) == Ends(p, TRUE) /\ proc' = [proc EXCEPT ![p] = Dead]

ReadPid(p) ==
    /\ At(p, "takeover")
    /\ \E pid \in Content :
          IF pid \in {None, p}
          THEN GivesUp(p)
          ELSE /\ proc' = [proc EXCEPT ![p].pc = "signal", ![p].target = pid]
               /\ UNCHANGED <<holder, launchd>>
    /\ UNCHANGED <<recorded, stamp, disk, counters>>

Signal(p) ==
    /\ At(p, "signal")
    /\ LET incumbent == proc[p].target
       IN IF At(incumbent, "dead")
          THEN GivesUp(p)
          ELSE /\ Ends(incumbent, FALSE)
               /\ proc' = [proc EXCEPT ![incumbent] = Dead,
                                       ![p].pc = "wait", ![p].target = None]
    /\ UNCHANGED <<recorded, stamp, disk, counters>>

(* For five seconds it tries to get the lock.                              *)
MutWait(p) ==
    /\ At(p, "wait")
    /\ holder' = p /\ Goes(p, "held") /\ UNCHANGED launchd
    /\ UNCHANGED <<recorded, stamp, disk, counters>>
Wait(p) ==
    /\ At(p, "wait")
    /\ \/ Locks(p) /\ UNCHANGED launchd
       \/ holder # None /\ GivesUp(p)
    /\ UNCHANGED <<recorded, stamp, disk, counters>>

-----------------------------------------------------------------------------
(* The agent has swapped the binary; it releases the lock, starts the      *)
(* successor and exits, or else goes on without the lock.                  *)
Swap(p) ==
    /\ disk < MaxVersion /\ disk' = disk + 1
    /\ \/ At(p, "run") /\ Goes(p, "adopt")
       \/ At(p, "bare") /\ Goes(p, "released")
    /\ UNCHANGED <<holder, recorded, launchd, stamp, counters>>

Release(p) ==
    /\ At(p, "adopt") /\ Unlocks(p) /\ Goes(p, "released")
    /\ UNCHANGED <<recorded, launchd, stamp, disk, counters>>

Respawn(p) ==
    /\ At(p, "released") /\ Ends(p, TRUE)
    /\ \E q \in Pids : Fresh(q) /\ proc' = [proc EXCEPT ![p] = Dead, ![q] = Born]
    /\ UNCHANGED <<recorded, stamp, disk, counters>>

MutRespawnFails(p) ==
    /\ At(p, "released") /\ Failure /\ GivesUp(p)
    /\ UNCHANGED <<recorded, stamp, disk, launches, stopped>>
RespawnFails(p) ==
    /\ At(p, "released") /\ Failure /\ Goes(p, "bare")
    /\ UNCHANGED <<holder, recorded, launchd, stamp, disk, launches, stopped>>

Quit(p) ==
    /\ Running(p) /\ Failure /\ stopped' = TRUE /\ GivesUp(p)
    /\ UNCHANGED <<recorded, stamp, disk, launches>>

Crash(p) ==
    /\ ~At(p, "dead") /\ Failure /\ stopped' = TRUE
    /\ Ends(p, FALSE) /\ proc' = [proc EXCEPT ![p] = Dead]
    /\ UNCHANGED <<recorded, stamp, disk, launches>>

-----------------------------------------------------------------------------
(* The user has logged in, with or without the launch agent installed, and *)
(* nothing runs yet; this version or none has started before.              *)
Init ==
    /\ proc = [p \in Pids |-> Dead]
    /\ holder = None /\ recorded = None
    /\ job = None /\ relaunch \in BOOLEAN
    /\ stamp \in {None, 1} /\ disk = 1
    /\ launches = 0 /\ failures = 0 /\ stopped = FALSE

Step(p) ==
    \/ Start(p) \/ Bounce(p) \/ Lock(p) \/ Record(p)
    \/ Kickstart(p) \/ NoKickstart(p) \/ ReadPid(p) \/ Signal(p) \/ Wait(p)
    \/ Release(p) \/ Respawn(p)

Next ==
    \/ UserLaunch \/ LaunchdStarts \/ Reinstall
    \/ \E p \in Pids :
          \/ Step(p) \/ Swap(p)
          \/ BounceUntold(p) \/ BounceFails(p)
          \/ LockUnavailable(p) \/ RecordFails(p) \/ RespawnFails(p)
          \/ Quit(p) \/ Crash(p)

Spec == Init /\ [][Next]_vars

(* The processes go on, in whatever order, and launchd starts its job.     *)
FairSpec == Spec /\ WF_vars(LaunchdStarts \/ \E p \in Pids : Step(p))

-----------------------------------------------------------------------------
(* Every variable has its type.                                            *)
TypeOK ==
    /\ proc \in [Pids -> [pc : {"dead", "start", "claim", "lock", "held", "run", "bare",
                                "find", "takeover", "signal", "wait", "adopt", "released"},
                          image : Versions \cup {None}, target : Pids \cup {None},
                          unnamed : BOOLEAN]]
    /\ holder \in Pids \cup {None} /\ recorded \in Pids \cup {None}
    /\ job \in Pids \cup {None} /\ relaunch \in BOOLEAN /\ (relaunch => job = None)
    /\ stamp \in Versions \cup {None} /\ disk \in Versions
    /\ launches \in 0 .. MaxLaunches /\ failures \in 0 .. MaxFailures
    /\ stopped \in BOOLEAN

(* "a double-click while the login-item daemon is already running doesn't  *)
(* spawn a second tray icon" (lock_unix.go:14-15): two daemons run at once *)
(* only when one of them goes on without the lock after a failure.         *)
OneDaemon ==
    \A p, q \in Pids : Running(p) /\ Running(q) /\ p # q =>
        (At(p, "bare") \/ At(q, "bare")) /\ failures > 0

(* A daemon with the lock can be found by a later launch: whatever         *)
(* takeovers, crashes and restarts came before, the file names it, unless  *)
(* it failed to write its pid ("Record our pid so a later launch can take  *)
(* the daemon over", lock_unix.go:34).                                     *)
HolderRecorded ==
    \A p \in Pids : proc[p].pc \in {"run", "adopt"} =>
        holder = p /\ (recorded = p \/ proc[p].unnamed)

(* The steps of a start come to an end: no two processes bounce, relaunch  *)
(* or take over from one another for ever ("a bounce can never loop",      *)
(* registration.go:37).                                                    *)
ComesToRest == <>[](\A p \in Pids : proc[p].pc \in {"dead", "run", "bare"})

(* Where a process was started a daemon runs in the end, unless one was    *)
(* quit or crashed: processes that start at once, under launchd or not, do *)
(* not all give way to each other, and no failed call leaves none.         *)
LaunchLeavesDaemon ==
    (\E p \in Pids : ~At(p, "dead")) ~> (stopped \/ \E p \in Pids : Running(p))

(* "the user's launch wins" (daemon.go:111-112): a running daemon in the   *)
(* way of a launch is replaced.                                            *)
IncumbentGoes ==
    \A p \in Pids :
        (At(p, "run") /\ \E l \in Pids : At(l, "find")) ~> (~At(p, "run") \/ failures > 0)

=============================================================================
