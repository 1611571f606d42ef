-------------------------- MODULE AutoUpdateProofs ---------------------------
(***************************************************************************)
(* Proofs about AutoUpdate, for every number of commands, releases and     *)
(* failures: types, and that no process puts back a version older than its *)
(* own.                                                                    *)
(***************************************************************************)
EXTENDS AutoUpdate, TLAPS

Places == {"off", "apply", "install", "unmark", "restart", "idle",
           "check", "detect", "mark", "stamp", "swap", "clear", "work"}
Verbs == {"none", "daemon", "command", "update"}
Process == [pc : Places, verb : Verbs,
            image : Releases \cup {None}, release : Releases \cup {None}]

(* Where a process has a release in hand that it may still install.        *)
Upgrading == {"install", "mark", "stamp", "swap"}

(* A process runs for a verb, has heard only of published releases, and is *)
(* about to install only what is newer than itself.                        *)
Sound(r) ==
    /\ r \in Process
    /\ r.pc # "off" => r.verb # "none"
    /\ r.pc = "idle" => r.verb = "daemon"
    /\ r.pc = "work" => r.verb = "command"
    /\ r.release <= latest
    /\ r.pc \in Upgrading => r.image < r.release

ProcsSound ==
    /\ proc = [p \in Processes |-> proc[p]]
    /\ \A p \in Processes : Sound(proc[p])
FilesTyped == disk \in 1 .. latest /\ marker \in 0 .. latest /\ latest \in Releases
CountersTyped == checked \in BOOLEAN /\ failures \in 0 .. MaxFailures

IInv == ProcsSound /\ FilesTyped /\ CountersTyped

-----------------------------------------------------------------------------
(* The invariant has the types.                                            *)
LEMMA InvTyped == IInv => TypeOK
  <1> SUFFICES ASSUME IInv PROVE TypeOK
    OBVIOUS
  <1>1. \A p \in Processes : proc[p] \in Process
    BY DEF IInv, ProcsSound, Sound
  <1>2. proc \in [Processes -> Process]
    BY <1>1 DEF IInv, ProcsSound
  <1>3. \A p \in Processes : /\ At(p, "idle") => proc[p].verb = "daemon"
                             /\ At(p, "work") => proc[p].verb = "command"
    BY DEF IInv, ProcsSound, Sound, At
  <1> QED
    BY <1>2, <1>3 DEF TypeOK, IInv, FilesTyped, CountersTyped, Process, Places, Verbs

(* A process that changes into a sound one leaves all of them sound.       *)
LEMMA ChangeSound ==
    ASSUME ProcsSound, latest' = latest, NEW p \in Processes, NEW r, Sound(r),
           proc' = [proc EXCEPT ![p] = r]
    PROVE  ProcsSound'
  <1>1. \A q \in Processes : proc'[q] = IF q = p THEN r ELSE proc[q]
    BY DEF ProcsSound
  <1>2. \A q \in Processes : Sound(proc'[q])
    BY <1>1 DEF ProcsSound
  <1>3. proc' = [q \in Processes |-> proc'[q]]
    BY DEF ProcsSound
  <1> QED
    BY <1>2, <1>3 DEF ProcsSound, Sound

(* A process that goes to a place where its release does not matter, or    *)
(* did already, stays sound.                                               *)
LEMMA GoesSound ==
    ASSUME ProcsSound, latest' = latest, NEW p \in Processes, NEW place \in Places,
           Goes(p, place), proc[p].pc # "off",
           place = "idle" => proc[p].verb = "daemon",
           place = "work" => proc[p].verb = "command",
           place \in Upgrading => proc[p].pc \in Upgrading
    PROVE  ProcsSound'
  <1> DEFINE r == [proc[p] EXCEPT !.pc = place]
  <1>1. Sound(proc[p])
    BY DEF ProcsSound
  <1>2. /\ r \in Process
        /\ r.pc = place /\ r.verb = proc[p].verb
        /\ r.image = proc[p].image /\ r.release = proc[p].release
    BY <1>1 DEF Sound, Process
  <1>3. Sound(r)
    <2> HIDE DEF r
    <2> QED BY <1>1, <1>2 DEF Sound
  <1>4. proc' = [proc EXCEPT ![p] = r]
    BY DEF Goes
  <1> HIDE DEF r
  <1> QED BY <1>3, <1>4, ChangeSound

(* A sound process is so with another release in hand, if that is newer    *)
(* where it matters.                                                       *)
LEMMA WithReleaseSound ==
    ASSUME NEW q, Sound(q), NEW place \in Places, q.pc # "off",
           NEW known \in Releases \cup {None}, known <= latest,
           place = "idle" => q.verb = "daemon",
           place = "work" => q.verb = "command",
           place \in Upgrading => q.image < known
    PROVE  Sound([q EXCEPT !.release = known, !.pc = place])
  <1> DEFINE half == [q EXCEPT !.release = known]
             r == [half EXCEPT !.pc = place]
  <1>1. /\ half \in Process /\ half.verb = q.verb
        /\ half.image = q.image /\ half.release = known
    BY DEF Sound, Process
  <1>2. /\ r \in Process /\ r.pc = place /\ r.verb = q.verb
        /\ r.image = q.image /\ r.release = known
    <2> HIDE DEF half
    <2> QED BY <1>1 DEF Process
  <1>3. Sound(r)
    <2> HIDE DEF half, r
    <2> QED BY <1>2 DEF Sound
  <1>4. [q EXCEPT !.release = known, !.pc = place] = r
    OBVIOUS
  <1> HIDE DEF half, r
  <1> QED BY <1>3, <1>4

(* So is the process in its place.                                         *)
LEMMA TakesSound ==
    ASSUME ProcsSound, latest' = latest, NEW p \in Processes, NEW place \in Places,
           NEW known \in Releases \cup {None}, known <= latest, proc[p].pc # "off",
           proc' = [proc EXCEPT ![p].release = known, ![p].pc = place],
           place = "idle" => proc[p].verb = "daemon",
           place = "work" => proc[p].verb = "command",
           place \in Upgrading => proc[p].image < known
    PROVE  ProcsSound'
  <1> DEFINE r == [proc[p] EXCEPT !.release = known, !.pc = place]
  <1>1. Sound(r)
    <2>1. Sound(proc[p])
      BY DEF ProcsSound
    <2> QED BY <2>1, WithReleaseSound
  <1>2. proc' = [proc EXCEPT ![p] = r]
    BY DEF ProcsSound
  <1> HIDE DEF r
  <1> QED BY <1>1, <1>2, ChangeSound

(* A process that begins is sound.                                         *)
LEMMA BeginsSound ==
    ASSUME IInv, latest' = latest, NEW p \in Processes, NEW verb \in Verbs \ {"none"},
           Begins(p, verb)
    PROVE  ProcsSound'
  <1> DEFINE r == [pc |-> "apply", verb |-> verb, image |-> disk, release |-> None]
  <1>1. disk \in Releases /\ latest \in Nat
    BY UpdateAssumption DEF IInv, FilesTyped, Releases, UpdateAssumption
  <1>2. Sound(r)
    <2>1. r \in Process
      BY <1>1 DEF Process, Places, Verbs
    <2> QED BY <1>1, <2>1 DEF Sound, Upgrading, None
  <1>3. proc' = [proc EXCEPT ![p] = r]
    BY DEF Begins
  <1> HIDE DEF r
  <1> QED BY <1>2, <1>3, ChangeSound DEF IInv

(* What is off is sound.                                                   *)
LEMMA EndsSound ==
    ASSUME IInv, latest' = latest, NEW p \in Processes, proc' = [proc EXCEPT ![p] = Off]
    PROVE  ProcsSound'
  <1>1. latest \in Nat
    BY UpdateAssumption DEF IInv, FilesTyped, Releases, UpdateAssumption
  <1>2. Sound(Off)
    BY <1>1 DEF Sound, Off, Process, Places, Verbs, Upgrading, None
  <1> QED BY <1>2, ChangeSound DEF IInv

(* What has finished its check is sound.                                   *)
LEMMA FinishesSound ==
    ASSUME IInv, latest' = latest, NEW p \in Processes, proc[p].pc # "off",
           proc' = [proc EXCEPT ![p] = Finished(p)]
    PROVE  ProcsSound'
  <1>1. Sound(proc[p]) /\ latest \in Nat /\ None <= latest
    BY UpdateAssumption DEF IInv, ProcsSound, FilesTyped, Releases, UpdateAssumption, None
  <1>2. CASE proc[p].verb = "daemon"
    <2>1. proc' = [proc EXCEPT ![p] = [proc[p] EXCEPT !.release = None, !.pc = "idle"]]
      BY <1>2 DEF Finished
    <2>2. Sound([proc[p] EXCEPT !.release = None, !.pc = "idle"])
      BY <1>1, <1>2, WithReleaseSound DEF Places, Upgrading
    <2> QED BY <2>1, <2>2, ChangeSound DEF IInv
  <1>3. CASE proc[p].verb = "command"
    <2>1. proc' = [proc EXCEPT ![p] = [proc[p] EXCEPT !.release = None, !.pc = "work"]]
      BY <1>3 DEF Finished
    <2>2. Sound([proc[p] EXCEPT !.release = None, !.pc = "work"])
      BY <1>1, <1>3, WithReleaseSound DEF Places, Upgrading
    <2> QED BY <2>1, <2>2, ChangeSound DEF IInv
  <1>4. CASE proc[p].verb = "update"
    BY <1>4, EndsSound DEF Finished
  <1> QED
    BY <1>1, <1>2, <1>3, <1>4 DEF Sound, Process, Verbs

(* So is one that has cleared the marker, or could not.                    *)
LEMMA ClearedSound ==
    ASSUME IInv, latest' = latest, NEW p \in Processes, proc[p].pc # "off",
           GoesAfterClear(p)
    PROVE  ProcsSound'
  <1>1. CASE proc[p].verb = "daemon"
    <2>1. Goes(p, "restart")
      BY <1>1 DEF GoesAfterClear, Goes
    <2> QED BY <2>1, GoesSound DEF Places, Upgrading, IInv
  <1>2. CASE proc[p].verb # "daemon"
    <2>1. proc' = [proc EXCEPT ![p] = Finished(p)]
      BY <1>2 DEF GoesAfterClear
    <2> QED BY <2>1, FinishesSound
  <1> QED BY <1>1, <1>2

-----------------------------------------------------------------------------
(* Initially nothing runs.                                                 *)
LEMMA InitInv == Init => IInv
  <1> SUFFICES ASSUME Init PROVE IInv
    OBVIOUS
  <1>1. FilesTyped
    BY UpdateAssumption DEF Init, FilesTyped, Releases, UpdateAssumption, None
  <1>2. failures \in 0 .. MaxFailures
    BY UpdateAssumption DEF Init, UpdateAssumption
  <1>3. checked \in BOOLEAN
    BY DEF Init
  <1>4. Sound(Off)
    BY <1>1 DEF Init, Sound, Off, Process, Places, Verbs, Upgrading, None
  <1>5. ProcsSound
    BY <1>4 DEF Init, ProcsSound
  <1> QED
    BY <1>1, <1>2, <1>3, <1>5 DEF IInv, CountersTyped

(* The release a process has in hand is one that was published.            *)
LEMMA ReleaseKnown ==
    ASSUME IInv, NEW p \in Processes, proc[p].release # None
    PROVE  proc[p].release \in 1 .. latest
  BY UpdateAssumption
     DEF IInv, ProcsSound, Sound, Process, FilesTyped, Releases, None, UpdateAssumption

(* Every step of a process keeps the invariant: starting.                  *)
LEMMA StartingKeeps ==
    ASSUME IInv, NEW p \in Processes, Run(p) \/ Starting(p)
    PROVE  IInv'
  <1>0. /\ Sound(proc[p]) /\ proc[p].verb \in Verbs
        /\ latest \in Nat /\ marker \in 0 .. latest /\ latest \in Releases
        /\ marker \in Releases \cup {None} /\ None <= latest /\ ProcsSound
    BY UpdateAssumption
       DEF IInv, ProcsSound, Sound, Process, FilesTyped, Releases, UpdateAssumption, None
  <1>1. CASE Run(p)
    <2>1. PICK verb \in Verbs \ {"none"} : Begins(p, verb)
      BY <1>1 DEF Run, Verbs
    <2>2. UNCHANGED <<disk, marker, checked, latest, failures>>
      BY <1>1 DEF Run
    <2>3. ProcsSound'
      BY <2>1, <2>2, BeginsSound
    <2> QED BY <2>2, <2>3 DEF IInv, FilesTyped, CountersTyped
  <1>2. CASE Apply(p)
    <2> DEFINE known == IF Newer(p) THEN marker ELSE None
               place == IF marker = None THEN AfterApply(p)
                        ELSE IF Newer(p) THEN "install" ELSE "unmark"
    <2>1. known \in Releases \cup {None} /\ known <= latest
      BY <1>0
    <2>2. place \in Places
      BY DEF Places, AfterApply
    <2>3. place = "idle" => proc[p].verb = "daemon"
      BY DEF AfterApply
    <2>4. place \in Upgrading => proc[p].image < known
      BY DEF Upgrading, AfterApply, Newer
    <2>5. place # "work"
      BY DEF AfterApply
    <2>6. /\ proc' = [proc EXCEPT ![p].release = known, ![p].pc = place]
          /\ proc[p].pc # "off" /\ UNCHANGED <<disk, marker, checked, latest, failures>>
      BY <1>2 DEF Apply, At
    <2> HIDE DEF known, place
    <2>7. ProcsSound'
      BY <1>0, <2>1, <2>2, <2>3, <2>4, <2>5, <2>6, TakesSound
    <2> QED BY <2>6, <2>7 DEF IInv, FilesTyped, CountersTyped
  <1>3. CASE Install(p)
    <2>1. proc[p].release # None
      BY <1>0, <1>3 DEF Install, At, Sound, Process, Upgrading, Releases, None
    <2>2. ProcsSound'
      BY <1>0, <1>3, GoesSound DEF Install, At, Places, Upgrading
    <2> QED BY <1>3, <2>1, <2>2, ReleaseKnown DEF Install, IInv, FilesTyped, CountersTyped
  <1>4. CASE Unmark(p)
    <2> DEFINE place == IF proc[p].release # None THEN "restart" ELSE AfterApply(p)
    <2>1. /\ place \in Places /\ place # "work" /\ place \notin Upgrading
          /\ place = "idle" => proc[p].verb = "daemon"
      BY DEF Places, AfterApply, Upgrading
    <2>2. Goes(p, place) /\ proc[p].pc # "off" /\ latest' = latest
      BY <1>4 DEF Unmark, GoesAfterUnmark, At
    <2> HIDE DEF place
    <2>3. ProcsSound'
      BY <1>0, <2>1, <2>2, GoesSound
    <2> QED BY <1>0, <1>4, <2>3 DEF Unmark, Unmarked, None, IInv, FilesTyped, CountersTyped
  <1>5. CASE Restart(p)
    <2>1. proc[p].verb \in Verbs \ {"none"} /\ Begins(p, proc[p].verb)
      BY <1>0, <1>5 DEF Restart, At, Sound
    <2>2. UNCHANGED <<disk, marker, checked, latest, failures>>
      BY <1>5 DEF Restart
    <2>3. PICK verb \in Verbs \ {"none"} : verb = proc[p].verb
      BY <2>1
    <2>4. ProcsSound'
      BY <2>1, <2>2, <2>3, BeginsSound
    <2> QED BY <2>2, <2>4 DEF IInv, FilesTyped, CountersTyped
  <1> QED
    BY <1>1, <1>2, <1>3, <1>4, <1>5 DEF Starting

(* Checking for a release.                                                 *)
LEMMA CheckingKeeps ==
    ASSUME IInv, NEW p \in Processes, Checking(p) \/ Due(p) \/ Asked(p)
    PROVE  IInv'
  <1>0. /\ Sound(proc[p]) /\ latest \in Nat /\ latest \in Releases /\ ProcsSound
    BY UpdateAssumption DEF IInv, ProcsSound, FilesTyped, Releases, UpdateAssumption
  <1>1. CASE Due(p) \/ Asked(p)
    <2>1. PICK place \in {"check", "detect"} : Goes(p, place) /\ proc[p].pc # "off"
      BY <1>1 DEF Due, Asked, At
    <2>2. UNCHANGED <<disk, marker, checked, latest, failures>>
      BY <1>1 DEF Due, Asked
    <2>3. ProcsSound'
      BY <1>0, <2>1, <2>2, GoesSound DEF Places, Upgrading
    <2> QED BY <2>2, <2>3 DEF IInv, FilesTyped, CountersTyped
  <1>2. CASE Check(p)
    <2>1. UNCHANGED <<disk, marker, checked, latest, failures>> /\ proc[p].pc # "off"
      BY <1>2 DEF Check, At
    <2>2. CASE proc' = [proc EXCEPT ![p] = Finished(p)]
      BY <2>1, <2>2, FinishesSound DEF IInv, FilesTyped, CountersTyped
    <2>3. CASE Goes(p, "detect")
      <3>1. ProcsSound'
        BY <1>0, <2>1, <2>3, GoesSound DEF Places, Upgrading
      <3> QED BY <2>1, <3>1 DEF IInv, FilesTyped, CountersTyped
    <2> QED BY <1>2, <2>2, <2>3 DEF Check
  <1>3. CASE Detect(p)
    <2>1. UNCHANGED <<disk, marker, latest, failures>> /\ proc[p].pc # "off"
      BY <1>3 DEF Detect, At
    <2>2. CASE Offers(p)
      <3> DEFINE place == IF proc[p].verb = "update" THEN "swap" ELSE "mark"
      <3>1. /\ proc' = [proc EXCEPT ![p].release = latest, ![p].pc = place]
            /\ checked' = checked
        BY <1>3, <2>2 DEF Detect
      <3>2. place \in Places /\ place \notin {"idle", "work"}
        BY DEF Places
      <3>3. proc[p].image < latest
        BY <2>2 DEF Offers
      <3> HIDE DEF place
      <3>4. PICK known \in Releases : known = latest
        BY <1>0
      <3>5. known <= latest /\ proc' = [proc EXCEPT ![p].release = known, ![p].pc = place]
        BY <1>0, <3>1, <3>4
      <3>6. ProcsSound'
        BY <1>0, <2>1, <3>2, <3>3, <3>4, <3>5, TakesSound
      <3> QED BY <2>1, <3>1, <3>6 DEF IInv, FilesTyped, CountersTyped
    <2>3. CASE ~Offers(p)
      <3>1. proc' = [proc EXCEPT ![p] = Finished(p)] /\ checked' \in BOOLEAN
        BY <1>3, <2>3 DEF Detect
      <3>2. ProcsSound'
        BY <2>1, <3>1, FinishesSound
      <3> QED BY <2>1, <3>1, <3>2 DEF IInv, FilesTyped, CountersTyped
    <2> QED BY <2>2, <2>3
  <1>4. CASE Mark(p) \/ Stamp(p) \/ Swap(p)
    <2>1. /\ proc[p].pc \in Upgrading /\ latest' = latest
          /\ Goes(p, "stamp") \/ Goes(p, "swap") \/ Goes(p, "clear")
      BY <1>4 DEF Mark, Stamp, Swap, At, Upgrading
    <2>2. ProcsSound' /\ proc[p].pc # "off"
      BY <1>0, <2>1, GoesSound DEF Places, Upgrading
    <2>3. proc[p].release # None
      BY <1>0, <2>1 DEF Sound, Process, Releases, None
    <2>4. proc[p].release \in 1 .. latest
      BY <2>3, ReleaseKnown
    <2>5. checked' \in BOOLEAN /\ UNCHANGED failures
      BY <1>4 DEF Mark, Stamp, Swap, IInv, CountersTyped
    <2>6. Downloaded(p) \subseteq 1 .. latest
      BY <1>0, <2>4 DEF Downloaded
    <2>7. FilesTyped'
      BY <1>0, <1>4, <2>1, <2>4, <2>6 DEF Mark, Stamp, Swap, IInv, FilesTyped
    <2> QED BY <2>2, <2>5, <2>7 DEF IInv, CountersTyped
  <1>5. CASE Clear(p)
    <2>1. /\ UNCHANGED <<disk, checked, latest, failures>> /\ marker' = None
          /\ proc[p].pc # "off" /\ GoesAfterClear(p)
      BY <1>5 DEF Clear, At
    <2>2. ProcsSound'
      BY <2>1, ClearedSound
    <2> QED BY <1>0, <2>1, <2>2 DEF IInv, FilesTyped, None, CountersTyped
  <1> QED
    BY <1>1, <1>2, <1>3, <1>4, <1>5 DEF Checking

(* What fails, and what is ended.                                          *)
LEMMA FailuresKeep ==
    ASSUME IInv, NEW p \in Processes,
           InstallFails(p) \/ RestartFails(p) \/ CheckFails(p) \/ CommandEnds(p) \/ Killed(p)
    PROVE  IInv'
  <1>0. ProcsSound /\ Sound(proc[p]) /\ latest \in Nat /\ None <= latest
    BY UpdateAssumption DEF IInv, ProcsSound, FilesTyped, Releases, UpdateAssumption, None
  <1>1. UNCHANGED <<disk, marker, checked, latest>>
    BY DEF InstallFails, RestartFails, CheckFails, CommandEnds, Killed
  <1>2. failures' \in 0 .. MaxFailures
    <2>1. Failure \/ failures' = failures
      BY DEF InstallFails, RestartFails, CheckFails, CommandEnds, Killed
    <2>2. failures \in 0 .. MaxFailures
      BY DEF IInv, CountersTyped
    <2> QED BY <2>1, <2>2, UpdateAssumption DEF Failure, UpdateAssumption
  <1>3. ProcsSound'
    <2>1. CASE InstallFails(p)
      <3>1. /\ proc' = [proc EXCEPT ![p].release = None, ![p].pc = "unmark"]
            /\ proc[p].pc # "off"
        BY <2>1 DEF InstallFails, At
      <3> QED BY <1>0, <1>1, <3>1, TakesSound DEF Places, Upgrading
    <2>2. CASE RestartFails(p)
      <3> DEFINE place == AfterApply(p)
      <3>1. /\ proc' = [proc EXCEPT ![p].release = None, ![p].pc = place]
            /\ proc[p].pc # "off"
        BY <2>2 DEF RestartFails, At
      <3>2. /\ place \in Places /\ place # "work" /\ place \notin Upgrading
            /\ place = "idle" => proc[p].verb = "daemon"
        BY DEF AfterApply, Places, Upgrading
      <3> HIDE DEF place
      <3> QED BY <1>0, <1>1, <3>1, <3>2, TakesSound
    <2>3. CASE CheckFails(p)
      <3>1. proc' = [proc EXCEPT ![p] = Finished(p)] /\ proc[p].pc # "off"
        BY <2>3 DEF CheckFails
      <3> QED BY <1>1, <3>1, FinishesSound
    <2>4. CASE CommandEnds(p) \/ Killed(p)
      <3>1. proc' = [proc EXCEPT ![p] = Off]
        BY <2>4 DEF CommandEnds, Killed
      <3> QED BY <1>1, <3>1, EndsSound
    <2> QED BY <2>1, <2>2, <2>3, <2>4
  <1> QED
    BY <1>1, <1>2, <1>3 DEF IInv, FilesTyped, CountersTyped

(* A file that could not be written or removed.                            *)
LEMMA FilesFailKeep ==
    ASSUME IInv, NEW p \in Processes,
           UnmarkFails(p) \/ MarkFails(p) \/ StampFails(p) \/ ClearFails(p)
    PROVE  IInv'
  <1>0. ProcsSound /\ latest \in Nat
    BY UpdateAssumption DEF IInv, FilesTyped, Releases, UpdateAssumption
  <1>1. /\ UNCHANGED <<disk, latest>> /\ proc[p].pc # "off"
        /\ marker' \in {marker, None} /\ checked' \in {checked, TRUE}
    BY DEF UnmarkFails, MarkFails, StampFails, ClearFails, At
  <1>2. failures' \in 0 .. MaxFailures
    <2>1. Failure /\ failures \in 0 .. MaxFailures
      BY DEF UnmarkFails, MarkFails, StampFails, ClearFails, IInv, CountersTyped
    <2> QED BY <2>1, UpdateAssumption DEF Failure, UpdateAssumption
  <1>3. ProcsSound'
    <2>1. CASE UnmarkFails(p)
      <3> DEFINE place == IF proc[p].release # None THEN "restart" ELSE AfterApply(p)
      <3>1. /\ place \in Places /\ place # "work" /\ place \notin Upgrading
            /\ place = "idle" => proc[p].verb = "daemon"
        BY DEF Places, AfterApply, Upgrading
      <3>2. Goes(p, place)
        BY <2>1 DEF UnmarkFails, GoesAfterUnmark
      <3> HIDE DEF place
      <3> QED BY <1>0, <1>1, <3>1, <3>2, GoesSound
    <2>2. CASE MarkFails(p) \/ StampFails(p)
      <3>1. PICK place \in {"stamp", "swap"} : Goes(p, place) /\ proc[p].pc \in Upgrading
        BY <2>2 DEF MarkFails, StampFails, At, Upgrading
      <3> QED BY <1>0, <1>1, <3>1, GoesSound DEF Places
    <2>3. CASE ClearFails(p)
      BY <1>1, <2>3, ClearedSound DEF ClearFails
    <2> QED BY <2>1, <2>2, <2>3
  <1>4. FilesTyped'
    <2>1. disk \in 1 .. latest /\ marker \in 0 .. latest /\ latest \in Releases
      BY DEF IInv, FilesTyped
    <2>2. marker' \in 0 .. latest
      BY <1>0, <1>1, <2>1 DEF None
    <2> QED BY <1>1, <2>1, <2>2 DEF FilesTyped
  <1>5. checked' \in BOOLEAN
    BY <1>1 DEF IInv, CountersTyped
  <1> QED
    BY <1>2, <1>3, <1>4, <1>5 DEF IInv, CountersTyped

(* Every step keeps the invariant.                                         *)
LEMMA InvNext == IInv /\ [Next]_vars => IInv'
  <1> SUFFICES ASSUME IInv, [Next]_vars PROVE IInv'
    OBVIOUS
  <1>1. ASSUME NEW p \in Processes,
               Run(p) \/ Starting(p) \/ Checking(p) \/ Due(p) \/ Asked(p)
        PROVE  IInv'
    BY <1>1, StartingKeeps, CheckingKeeps
  <1>2. ASSUME NEW p \in Processes,
               InstallFails(p) \/ RestartFails(p) \/ CheckFails(p) \/ CommandEnds(p) \/ Killed(p)
        PROVE  IInv'
    BY <1>2, FailuresKeep
  <1>5. ASSUME NEW p \in Processes,
               UnmarkFails(p) \/ MarkFails(p) \/ StampFails(p) \/ ClearFails(p)
        PROVE  IInv'
    BY <1>5, FilesFailKeep
  <1>3. CASE Publish
    <2>1. latest' \in Releases /\ latest' = latest + 1 /\ latest \in Nat
      BY <1>3, UpdateAssumption DEF Publish, IInv, FilesTyped, Releases, UpdateAssumption
    <2>2. ASSUME NEW q \in Processes PROVE proc[q].release <= latest'
      <3>1. proc[q].release <= latest /\ proc[q].release \in Nat
        BY DEF IInv, ProcsSound, Sound, Process, Releases, None
      <3> QED BY <2>1, <3>1
    <2>3. ProcsSound'
      BY <1>3, <2>2 DEF Publish, IInv, ProcsSound, Sound
    <2> QED BY <1>3, <2>1, <2>3 DEF Publish, IInv, FilesTyped, CountersTyped
  <1>4. CASE Expire \/ UNCHANGED vars
    <2>1. UNCHANGED <<proc, disk, marker, latest, failures>> /\ checked' \in BOOLEAN
      BY <1>4 DEF Expire, vars, IInv, CountersTyped
    <2> QED BY <2>1 DEF IInv, ProcsSound, Sound, FilesTyped, CountersTyped
  <1> QED
    BY <1>1, <1>2, <1>3, <1>4, <1>5 DEF Next

(* In every reachable state processes are sound and files typed.           *)
THEOREM Invariance == Spec => []IInv
  BY InitInv, InvNext, PTL DEF Spec

(* Every variable has its type, and neither binary nor marker is ever a    *)
(* version that was not released.                                          *)
THEOREM TypeCorrect == Spec => []TypeOK
  BY Invariance, InvTyped, PTL

(* Whatever markers are left behind, and whoever reads them when, a        *)
(* process installs only what is newer than itself.                        *)
THEOREM NoStaleReapplyAlways == Spec => NoStaleReapply
  <1>1. ASSUME IInv, [Next]_vars, NEW p \in Processes, Install(p) \/ Swap(p)
        PROVE  proc[p].image < disk'
    <2>1. /\ proc[p].image < proc[p].release
          /\ proc[p].image \in Nat /\ proc[p].release \in Nat
      BY <1>1 DEF IInv, ProcsSound, Sound, Process, Releases, None, Upgrading, Install, Swap, At
    <2>2. disk' \in Downloaded(p) \/ disk' = proc[p].release
      BY <1>1 DEF Install, Swap
    <2>3. latest \in Nat
      BY UpdateAssumption, <1>1 DEF IInv, FilesTyped, Releases, UpdateAssumption
    <2> QED BY <2>1, <2>2, <2>3 DEF Downloaded
  <1>2. IInv /\ [Next]_vars =>
            [\A p \in Processes :
                (Install(p) \/ Swap(p)) /\ disk' < disk => proc[p].image < disk']_vars
    BY <1>1
  <1> QED
    BY Invariance, <1>2, PTL DEF Spec, NoStaleReapply

=============================================================================
