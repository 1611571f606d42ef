----------------------------- MODULE AutoUpdate ------------------------------
(***************************************************************************)
(* The self-update of the desktop client (autoupdate/autoupdate.go) as all *)
(* its processes do it over one binary, one pending-update marker and one  *)
(* throttle file: main (cmd/aiscan/main.go) applies the marker that an     *)
(* earlier run left, a command checks in a goroutine that dies with the    *)
(* command, `aiscan update' checks and waits, and the daemon checks from   *)
(* its loop and restarts when it has swapped the binary.                   *)
(*                                                                         *)
(* A restart, in place or as a successor, is a process that begins anew    *)
(* from the binary on disk.  Left out: builds that never update (dev, kill *)
(* switch), and marker files that cannot be parsed, which are removed like *)
(* one that is not newer.                                                  *)
(***************************************************************************)
EXTENDS Naturals

CONSTANTS
    Daemon,      \* the resident process
    Commands,    \* the others
    MaxVersion,  \* bound: releases
    MaxFailures  \* bound: downloads, requests, restarts and files that fail, kills

ASSUME UpdateAssumption ==
    /\ Daemon \notin Commands
    /\ MaxVersion \in Nat \ {0} /\ MaxFailures \in Nat

VARIABLES
    proc,    \* proc[p]: what process p does
    disk,    \* the version of the binary
    marker,  \* pending-update.json
    checked, \* last-update-check is less than a day old
    latest,  \* the latest release
    failures

vars == <<proc, disk, marker, checked, latest, failures>>

-----------------------------------------------------------------------------
Processes == Commands \cup {Daemon}
Releases == 1 .. MaxVersion
None == 0

Off == [pc |-> "off", verb |-> "none", image |-> None, release |-> None]
Goes(p, place) == proc' = [proc EXCEPT ![p].pc = place]
At(p, place) == proc[p].pc = place

(* A new image of p starts: main begins with ApplyPendingUpdate.           *)
Begins(p, verb) ==
    proc' = [proc EXCEPT
                ![p] = [pc |-> "apply", verb |-> verb, image |-> disk, release |-> None]]

Failure == failures < MaxFailures /\ failures' = failures + 1

Run(p) ==
    /\ At(p, "off")
    /\ \E verb \in IF p = Daemon THEN {"daemon"} ELSE {"command", "update"} : Begins(p, verb)
    /\ UNCHANGED <<disk, marker, checked, latest, failures>>

-----------------------------------------------------------------------------
(* ApplyPendingUpdate: read the marker; unless it is newer, remove it.     *)
MutNewer(p) == marker # None
Newer(p) == marker > proc[p].image

(* What main goes on to do.                                                *)
AfterApply(p) == IF proc[p].verb = "daemon" THEN "idle" ELSE "check"

Apply(p) ==
    /\ At(p, "apply")
    /\ proc' = [proc EXCEPT
          ![p].release = IF Newer(p) THEN marker ELSE None,
          ![p].pc = IF marker = None THEN AfterApply(p)
                    ELSE IF Newer(p) THEN "install" ELSE "unmark"]
    /\ UNCHANGED <<disk, marker, checked, latest, failures>>

Install(p) ==
    /\ At(p, "install")
    /\ disk' = proc[p].release
    /\ Goes(p, "unmark")
    /\ UNCHANGED <<marker, checked, latest, failures>>

(* A download that fails: the marker goes all the same, and no restart.    *)
InstallFails(p) ==
    /\ At(p, "install") /\ Failure
    /\ proc' = [proc EXCEPT ![p].release = None, ![p].pc = "unmark"]
    /\ UNCHANGED <<disk, marker, checked, latest>>

MutUnmarked(p) == IF proc[p].release # None THEN None ELSE marker
Unmarked(p) == None

GoesAfterUnmark(p) ==
    Goes(p, IF proc[p].release # None THEN "restart" ELSE AfterApply(p))

Unmark(p) ==
    /\ At(p, "unmark")
    /\ marker' = Unmarked(p) /\ GoesAfterUnmark(p)
    /\ UNCHANGED <<disk, checked, latest, failures>>

(* The file stays, and nobody asks why.                                    *)
UnmarkFails(p) ==
    /\ At(p, "unmark") /\ Failure /\ GoesAfterUnmark(p)
    /\ UNCHANGED <<disk, marker, checked, latest>>

(* Reexec or Respawn.                                                      *)
Restart(p) ==
    /\ At(p, "restart") /\ Begins(p, proc[p].verb)
    /\ UNCHANGED <<disk, marker, checked, latest, failures>>

RestartFails(p) ==
    /\ At(p, "restart") /\ Failure
    /\ proc' = [proc EXCEPT ![p].release = None, ![p].pc = AfterApply(p)]
    /\ UNCHANGED <<disk, marker, checked, latest>>

-----------------------------------------------------------------------------
(* The end of a check: the daemon's loop goes on, `aiscan update' exits,   *)
(* another command has its own work to do.                                 *)
MutFinished(p) ==
    IF proc[p].verb = "daemon" THEN [proc[p] EXCEPT !.release = None, !.pc = "idle"]
    ELSE [proc[p] EXCEPT !.release = None, !.pc = "work"]
Finished(p) ==
    CASE proc[p].verb = "daemon"  -> [proc[p] EXCEPT !.release = None, !.pc = "idle"]
      [] proc[p].verb = "command" -> [proc[p] EXCEPT !.release = None, !.pc = "work"]
      [] proc[p].verb = "update"  -> Off

(* The daemon's ticker, or "Check for updates" in its menu, which skips    *)
(* the throttle as `aiscan update' does.                                   *)
Due(p) ==
    /\ p = Daemon /\ At(p, "idle") /\ Goes(p, "check")
    /\ UNCHANGED <<disk, marker, checked, latest, failures>>

Asked(p) ==
    /\ p = Daemon /\ At(p, "idle") /\ Goes(p, "detect")
    /\ UNCHANGED <<disk, marker, checked, latest, failures>>

(* shouldCheck: once a day, whichever process it is.                       *)
Check(p) ==
    /\ At(p, "check")
    /\ IF proc[p].verb # "update" /\ checked
       THEN proc' = [proc EXCEPT ![p] = Finished(p)]
       ELSE Goes(p, "detect")
    /\ UNCHANGED <<disk, marker, checked, latest, failures>>

(* DetectLatest.  `aiscan update' leaves marker and throttle alone.        *)
Offers(p) == latest > proc[p].image

Detect(p) ==
    /\ At(p, "detect")
    /\ IF Offers(p)
       THEN /\ proc' = [proc EXCEPT ![p].release = latest,
                            ![p].pc = IF proc[p].verb = "update" THEN "swap" ELSE "mark"]
            /\ UNCHANGED checked
       ELSE /\ proc' = [proc EXCEPT ![p] = Finished(p)]
            /\ checked' = (checked \/ proc[p].verb # "update")
    /\ UNCHANGED <<disk, marker, latest, failures>>

(* The marker is written before the download, and then the throttle.       *)
MutMark(p) ==
    /\ At(p, "mark") /\ Goes(p, "stamp")
    /\ UNCHANGED <<disk, marker, checked, latest, failures>>
Mark(p) ==
    /\ At(p, "mark")
    /\ marker' = proc[p].release /\ Goes(p, "stamp")
    /\ UNCHANGED <<disk, checked, latest, failures>>

Stamp(p) ==
    /\ At(p, "stamp")
    /\ checked' = TRUE /\ Goes(p, "swap")
    /\ UNCHANGED <<disk, marker, latest, failures>>

(* Either file may be left as it was, or cut short: an error is ignored.   *)
MarkFails(p) ==
    /\ At(p, "mark") /\ Failure /\ Goes(p, "stamp")
    /\ marker' \in {marker, None}
    /\ UNCHANGED <<disk, checked, latest>>

StampFails(p) ==
    /\ At(p, "stamp") /\ Failure /\ Goes(p, "swap")
    /\ checked' \in {checked, TRUE}
    /\ UNCHANGED <<disk, marker, latest>>

(* `aiscan update' asks once more what is the latest (UpdateSelf).         *)
Downloaded(p) ==
    IF proc[p].verb = "update" THEN proc[p].release .. latest ELSE {proc[p].release}

Swap(p) ==
    /\ At(p, "swap")
    /\ disk' \in Downloaded(p) /\ Goes(p, "clear")
    /\ UNCHANGED <<marker, checked, latest, failures>>

(* ClearPendingUpdate; the daemon then restarts, a command does not.       *)
GoesAfterClear(p) ==
    proc' = [proc EXCEPT ![p] = IF proc[p].verb = "daemon"
                                THEN [proc[p] EXCEPT !.pc = "restart"]
                                ELSE Finished(p)]

Clear(p) ==
    /\ At(p, "clear")
    /\ marker' = None /\ GoesAfterClear(p)
    /\ UNCHANGED <<disk, checked, latest, failures>>

ClearFails(p) ==
    /\ At(p, "clear") /\ Failure /\ GoesAfterClear(p)
    /\ UNCHANGED <<disk, marker, checked, latest>>

CheckFails(p) ==
    /\ proc[p].pc \in {"detect", "swap"} /\ Failure
    /\ proc' = [proc EXCEPT ![p] = Finished(p)]
    /\ UNCHANGED <<disk, marker, checked, latest>>

(* A command ends when its work is done, wherever its check is.            *)
CommandEnds(p) ==
    /\ proc[p].verb = "command"
    /\ proc[p].pc \in {"work", "check", "detect", "mark", "stamp", "swap", "clear"}
    /\ proc' = [proc EXCEPT ![p] = Off]
    /\ UNCHANGED <<disk, marker, checked, latest, failures>>

Killed(p) ==
    /\ ~At(p, "off") /\ Failure
    /\ proc' = [proc EXCEPT ![p] = Off]
    /\ UNCHANGED <<disk, marker, checked, latest>>

(* A release is published; a day has passed since the throttle was set.    *)
Publish ==
    /\ latest < MaxVersion /\ latest' = latest + 1
    /\ UNCHANGED <<proc, disk, marker, checked, failures>>

Expire ==
    /\ checked /\ checked' = FALSE
    /\ UNCHANGED <<proc, disk, marker, latest, failures>>

-----------------------------------------------------------------------------
Init ==
    /\ proc = [p \in Processes |-> Off]
    /\ disk = 1 /\ marker = None /\ checked = FALSE /\ latest = 1
    /\ failures = 0

Starting(p) == Apply(p) \/ Install(p) \/ Unmark(p) \/ Restart(p)
Checking(p) == Check(p) \/ Detect(p) \/ Mark(p) \/ Stamp(p) \/ Swap(p) \/ Clear(p)

Next ==
    \/ \E p \in Processes :
          \/ Run(p) \/ Starting(p) \/ Checking(p) \/ Due(p) \/ Asked(p)
          \/ InstallFails(p) \/ RestartFails(p) \/ CheckFails(p)
          \/ UnmarkFails(p) \/ MarkFails(p) \/ StampFails(p) \/ ClearFails(p)
          \/ CommandEnds(p) \/ Killed(p)
    \/ Publish \/ Expire

Spec == Init /\ [][Next]_vars

(* Days pass, and processes go on, if they are not ended.  Commands are    *)
(* run again and again, and now and then one finds the throttle open and   *)
(* lives until it has written the marker; none need live any longer.       *)
FairSpec ==
    /\ Spec /\ WF_vars(Expire)
    /\ WF_vars(Run(Daemon)) /\ WF_vars(Due(Daemon))
    /\ WF_vars(Starting(Daemon) \/ Checking(Daemon))
    /\ \A p \in Commands :
          /\ WF_vars(Run(p)) /\ WF_vars(Starting(p) \/ Checking(p)) /\ WF_vars(CommandEnds(p))
          /\ SF_vars(Run(p) /\ ~checked)
          /\ SF_vars(Check(p) /\ ~checked) /\ SF_vars(Detect(p)) /\ SF_vars(Mark(p))

-----------------------------------------------------------------------------
(* Every variable has its type; only the daemon waits for the next check.  *)
TypeOK ==
    /\ proc \in [Processes -> [pc : {"off", "apply", "install", "unmark", "restart", "idle",
                                     "check", "detect", "mark", "stamp", "swap", "clear", "work"},
                               verb : {"none", "daemon", "command", "update"},
                               image : Releases \cup {None}, release : Releases \cup {None}]]
    /\ \A p \in Processes : /\ At(p, "idle") => proc[p].verb = "daemon"
                            /\ At(p, "work") => proc[p].verb = "command"
    /\ disk \in 1 .. latest /\ marker \in 0 .. latest /\ latest \in Releases
    /\ checked \in BOOLEAN /\ failures \in 0 .. MaxFailures

(* "A stale background marker must not re-apply an older version next run" *)
(* (update.go:76): a process never puts back a version older than the one  *)
(* it was itself started from, whatever markers killed runs have left.     *)
NoStaleReapply ==
    [][\A p \in Processes :
          (Install(p) \/ Swap(p)) /\ disk' < disk => proc[p].image < disk']_vars

(* A marker does not stay: a run applies it or removes it.                 *)
MarkerGoes == \A v \in Releases : (marker = v) ~> (marker # v)

(* "The process usually exits before the download finishes; the marker is  *)
(* what survives" (autoupdate.go:7-8): the latest release gets installed,  *)
(* though no command need live long enough to install it.  (When a slower  *)
(* process puts back an older one, a daemon that has the latest already    *)
(* does not mend that.)                                                    *)
EventuallyLatest == <>[](latest \in {disk, proc[Daemon].image})

=============================================================================
