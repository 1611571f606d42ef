----------------------------- MODULE RunContract -----------------------------
(***************************************************************************)
(* What one sync run of the browser extension promises, whatever happens   *)
(* around it: the sites are taken one at a time and in order, each gets    *)
(* exactly one outcome, and a run that is over does not change any more.   *)
(* ExtensionRun.tla is the worker that keeps this promise; here there is   *)
(* no worker, no tab, no watchdog and no second run, only the run itself.  *)
(***************************************************************************)
EXTENDS Naturals

CONSTANT NSites   \* number of sites selected for the run

Sites == 1 .. NSites
Outcome == {"pending", "in flight", "done", "failed", "skipped"}

VARIABLES
    phase,   \* as in background.js; "none" before the run is stored
    outcome  \* what has become of each site

vars == <<phase, outcome>>

Started == phase \in {"authorizing", "running"}
NoneInFlight == \A i \in Sites : outcome[i] # "in flight"

Init == phase = "none" /\ outcome = [i \in Sites |-> "pending"]

(* The user, or the weekly check, starts the run.                          *)
Begin ==
    /\ phase = "none"
    /\ phase' = "authorizing"
    /\ UNCHANGED outcome

(* Authorization was refused, failed or took too long: no site is touched. *)
Refuse ==
    /\ phase = "authorizing"
    /\ phase' = "error"
    /\ UNCHANGED outcome

(* The first site not yet visited is taken when no other is in flight.     *)
Take(i) ==
    /\ Started /\ NoneInFlight
    /\ outcome[i] = "pending"
    /\ \A j \in Sites : j < i => outcome[j] \in {"done", "failed"}
    /\ phase' = "running"
    /\ outcome' = [outcome EXCEPT ![i] = "in flight"]

(* The site in flight gets its outcome, once.                              *)
Settle(i) ==
    /\ phase = "running"
    /\ outcome[i] = "in flight"
    /\ \E result \in {"done", "failed"} :
          outcome' = [outcome EXCEPT ![i] = result]
    /\ UNCHANGED phase

(* The run is done when every site has an outcome.                         *)
Finish ==
    /\ phase = "running"
    /\ \A i \in Sites : outcome[i] \in {"done", "failed"}
    /\ phase' = "done"
    /\ UNCHANGED outcome

(* The user gives up: what has an outcome keeps it, the rest is skipped.   *)
Cancel ==
    /\ Started
    /\ phase' = "cancelled"
    /\ outcome' = [i \in Sites |->
                      IF outcome[i] \in {"done", "failed"} THEN outcome[i]
                      ELSE "skipped"]

Next == \/ Begin \/ Refuse \/ Finish \/ Cancel
        \/ \E i \in Sites : Take(i) \/ Settle(i)

Spec == Init /\ [][Next]_vars

=============================================================================
