-------------------------- MODULE DaemonStartProofs ---------------------------
(***************************************************************************)
(* Proofs about DaemonStart, for every number of pids, launches, versions  *)
(* and failures: types, that two daemons run at once only after one of     *)
(* them had to do without the lock, and that every step brings the         *)
(* processes nearer to rest.                                               *)
(***************************************************************************)
EXTENDS DaemonStart, FiniteSetTheorems, WellFoundedInduction, TLAPS

Places == {"dead", "start", "claim", "lock", "held", "run", "bare",
           "find", "takeover", "signal", "wait", "adopt", "released"}
Process == [pc : Places, image : Versions \cup {None}, target : Pids \cup {None},
            unnamed : BOOLEAN]

(* The parts of TypeOK.                                                    *)
ProcsTyped == proc \in [Pids -> Process]
LockTyped == holder \in Pids \cup {None} /\ recorded \in Pids \cup {None}
LaunchdTyped ==
    job \in Pids \cup {None} /\ relaunch \in BOOLEAN /\ (relaunch => job = None)
FilesTyped == stamp \in Versions \cup {None} /\ disk \in Versions
CountersTyped ==
    launches \in 0 .. MaxLaunches /\ failures \in 0 .. MaxFailures /\ stopped \in BOOLEAN

(* Where a process holds the flock, and where it neither holds it nor runs *)
(* without.                                                                *)
Owns(p) == proc[p].pc \in {"held", "run", "adopt"}
Idle == Places \ {"held", "run", "adopt", "bare"}

Failed == failures > 0
Dies(p) == proc' = [proc EXCEPT ![p] = Dead]

(* Who is past acquiring the lock holds it, who runs with it has its pid   *)
(* in the file unless it failed to write it, and who runs without it does  *)
(* so for a call that failed.                                              *)
LockInv ==
    /\ \A p \in Pids : Owns(p) => holder = p
    /\ \A p \in Pids : proc[p].pc \in {"run", "adopt"} => recorded = p \/ proc[p].unnamed
    /\ \A p \in Pids : At(p, "bare") => Failed

-----------------------------------------------------------------------------
(* The parts are TypeOK.                                                   *)
LEMMA TypeParts ==
    TypeOK <=> ProcsTyped /\ LockTyped /\ LaunchdTyped /\ FilesTyped /\ CountersTyped
  BY DEF TypeOK, ProcsTyped, Process, Places, LockTyped, LaunchdTyped, FilesTyped, CountersTyped

(* The same of the next state.                                            *)
LEMMA TypePartsNext ==
    TypeOK' <=> ProcsTyped' /\ LockTyped' /\ LaunchdTyped' /\ FilesTyped' /\ CountersTyped'
  BY DEF TypeOK, ProcsTyped, Process, Places, LockTyped, LaunchdTyped, FilesTyped, CountersTyped

(* What starts, goes on or ends is a process again.                        *)
LEMMA BornTyped ==
    ASSUME FilesTyped
    PROVE  Born \in Process /\ Dead \in Process
  BY DEF FilesTyped, Born, Dead, Process, Places

(* A process that goes to another place stays a process.                   *)
LEMMA GoesTyped ==
    ASSUME ProcsTyped, NEW p \in Pids, NEW place \in Places, Goes(p, place)
    PROVE  ProcsTyped'
  BY DEF ProcsTyped, Process, Goes

(* The end of a process, real or not, leaves typed what it let go of.      *)
LEMMA EndsTyped ==
    ASSUME LockTyped, LaunchdTyped, NEW p \in Pids \cup {None}, NEW well \in BOOLEAN,
           Ends(p, well), recorded' = recorded
    PROVE  LockTyped' /\ LaunchdTyped'
  BY DEF LockTyped, LaunchdTyped, Ends, Unlocks

(* A failure is counted, and within the bound.                             *)
LEMMA FailureTyped ==
    ASSUME DaemonAssumption, failures \in 0 .. MaxFailures, Failure
    PROVE  failures' \in 0 .. MaxFailures /\ failures' > 0
  BY DaemonAssumption DEF Failure, DaemonAssumption

-----------------------------------------------------------------------------
(* Init has the types and nobody owns anything.                            *)
LEMMA InitInv == Init => TypeOK /\ LockInv
  <1> SUFFICES ASSUME Init PROVE TypeOK /\ LockInv
    OBVIOUS
  <1>0. 1 \in Versions
    BY DaemonAssumption DEF DaemonAssumption, Versions
  <1>1. FilesTyped /\ CountersTyped /\ LockTyped /\ LaunchdTyped
    <2>1. FilesTyped
      BY <1>0 DEF Init, FilesTyped
    <2>2. CountersTyped
      <3>1. launches \in 0 .. MaxLaunches /\ failures \in 0 .. MaxFailures
        BY DaemonAssumption DEF Init, DaemonAssumption
      <3>2. stopped \in BOOLEAN
        BY DEF Init
      <3> QED BY <3>1, <3>2 DEF CountersTyped
    <2>3. LockTyped /\ LaunchdTyped
      BY DEF Init, LockTyped, LaunchdTyped
    <2> QED BY <2>1, <2>2, <2>3
  <1>2. ProcsTyped
    BY <1>1, BornTyped DEF Init, ProcsTyped
  <1>3. LockInv
    BY DEF Init, LockInv, Owns, At, Dead
  <1> QED
    BY <1>1, <1>2, <1>3, TypeParts

(* The steps that start or end processes keep their types.                 *)
LEMMA SpawnsTyped ==
    ASSUME DaemonAssumption, TypeOK,
           \/ UserLaunch \/ LaunchdStarts \/ \E p \in Pids : Bounce(p) \/ Respawn(p) \/ Kickstart(p)
    PROVE  TypeOK'
  <1> USE DEF ProcsTyped
  <1>0. /\ ProcsTyped /\ LockTyped /\ LaunchdTyped /\ FilesTyped /\ CountersTyped
        /\ Born \in Process /\ Dead \in Process
    BY TypeParts, BornTyped
  <1>1. CASE UserLaunch
    <2>1. ProcsTyped'
      BY <1>0, <1>1 DEF UserLaunch
    <2>2. CountersTyped'
      BY <1>0, <1>1, DaemonAssumption DEF UserLaunch, CountersTyped, DaemonAssumption
    <2>3. LockTyped' /\ LaunchdTyped' /\ FilesTyped'
      BY <1>0, <1>1 DEF UserLaunch, LockTyped, LaunchdTyped, FilesTyped, launchd
    <2> QED BY <2>1, <2>2, <2>3, TypePartsNext
  <1>2. CASE LaunchdStarts
    <2>1. ProcsTyped' /\ LaunchdTyped'
      BY <1>0, <1>2 DEF LaunchdStarts, LaunchdTyped
    <2>2. LockTyped' /\ FilesTyped' /\ CountersTyped'
      BY <1>0, <1>2 DEF LaunchdStarts, LockTyped, FilesTyped, CountersTyped, counters
    <2> QED BY <2>1, <2>2, TypePartsNext
  <1>3. ASSUME NEW p \in Pids, Bounce(p) PROVE TypeOK'
    <2>1. ProcsTyped'
      BY <1>0, <1>3 DEF Bounce
    <2>2. LockTyped' /\ LaunchdTyped'
      BY <1>0, <1>3, EndsTyped DEF Bounce
    <2>3. FilesTyped' /\ CountersTyped'
      BY <1>0, <1>3 DEF Bounce, Stamps, FilesTyped, CountersTyped, counters, Process
    <2> QED BY <2>1, <2>2, <2>3, TypePartsNext
  <1>4. ASSUME NEW p \in Pids, Respawn(p) PROVE TypeOK'
    <2>1. ProcsTyped'
      BY <1>0, <1>4 DEF Respawn
    <2>2. LockTyped' /\ LaunchdTyped'
      BY <1>0, <1>4, EndsTyped DEF Respawn
    <2>3. FilesTyped' /\ CountersTyped'
      BY <1>0, <1>4 DEF Respawn, FilesTyped, CountersTyped, counters
    <2> QED BY <2>1, <2>2, <2>3, TypePartsNext
  <1>5. ASSUME NEW p \in Pids, Kickstart(p) PROVE TypeOK'
    <2>1. ProcsTyped'
      BY <1>0, <1>5 DEF Kickstart, LaunchdTyped
    <2>2. LockTyped' /\ LaunchdTyped'
      BY <1>0, <1>5 DEF Kickstart, Kicks, LaunchdTyped, LockTyped, Unlocks
    <2>3. FilesTyped' /\ CountersTyped'
      BY <1>0, <1>5 DEF Kickstart, FilesTyped, CountersTyped, counters
    <2> QED BY <2>1, <2>2, <2>3, TypePartsNext
  <1> QED
    BY <1>1, <1>2, <1>3, <1>4, <1>5

(* The steps of one process that ends or goes on keep their types.         *)
LEMMA StepsTyped ==
    ASSUME DaemonAssumption, TypeOK, NEW p \in Pids,
           \/ Start(p) \/ Lock(p) \/ Record(p) \/ NoKickstart(p) \/ ReadPid(p) \/ Signal(p)
           \/ Wait(p) \/ Release(p) \/ Swap(p)
    PROVE  TypeOK'
  <1>0. /\ ProcsTyped /\ LockTyped /\ LaunchdTyped /\ FilesTyped /\ CountersTyped
        /\ Born \in Process /\ Dead \in Process
    BY TypeParts, BornTyped
  <1> DEFINE Rest == LockTyped' /\ LaunchdTyped' /\ FilesTyped' /\ CountersTyped'
  <1>1. CASE Start(p)
    <2>1. ProcsTyped'
      BY <1>0, <1>1, GoesTyped DEF Start, Places
    <2>2. Rest
      BY <1>0, <1>1 DEF Start, LockTyped, LaunchdTyped, FilesTyped, CountersTyped, launchd, counters
    <2> QED BY <2>1, <2>2, TypePartsNext
  <1>2. CASE Lock(p)
    <2>1. ProcsTyped'
      BY <1>0, <1>2, GoesTyped DEF Lock, Locks, Places
    <2>2. Rest
      BY <1>0, <1>2 DEF Lock, Locks, LockTyped, LaunchdTyped, FilesTyped, CountersTyped,
         launchd, counters
    <2> QED BY <2>1, <2>2, TypePartsNext
  <1>3. CASE Record(p)
    <2>1. ProcsTyped'
      BY <1>0, <1>3, GoesTyped DEF Record, Places
    <2>2. Rest
      BY <1>0, <1>3 DEF Record, LockTyped, LaunchdTyped, FilesTyped, CountersTyped, launchd, counters
    <2> QED BY <2>1, <2>2, TypePartsNext
  <1>4. CASE NoKickstart(p)
    <2>1. ProcsTyped'
      BY <1>0, <1>4, GoesTyped DEF NoKickstart, Places
    <2>2. CountersTyped'
      BY <1>0, <1>4, FailureTyped DEF NoKickstart, CountersTyped
    <2>3. LockTyped' /\ LaunchdTyped' /\ FilesTyped'
      BY <1>0, <1>4 DEF NoKickstart, LockTyped, LaunchdTyped, FilesTyped, launchd
    <2> QED BY <2>1, <2>2, <2>3, TypePartsNext
  <1>5. CASE ReadPid(p)
    <2>1. PICK pid \in Content :
             IF pid \in {None, p}
             THEN GivesUp(p)
             ELSE /\ proc' = [proc EXCEPT ![p].pc = "signal", ![p].target = pid]
                  /\ UNCHANGED <<holder, launchd>>
      BY <1>5 DEF ReadPid
    <2>2. pid \in Pids \cup {None}
      BY <1>0 DEF Content, LockTyped
    <2>3. ProcsTyped'
      <3> DEFINE half == [proc EXCEPT ![p].pc = "signal"]
      <3>1. half \in [Pids -> Process]
        BY <1>0 DEF ProcsTyped, Process, Places
      <3>2. [half EXCEPT ![p].target = pid] \in [Pids -> Process]
        BY <3>1, <2>2 DEF Process
      <3>3. proc' \in {[proc EXCEPT ![p] = Dead], [half EXCEPT ![p].target = pid]}
        BY <2>1 DEF GivesUp
      <3> QED BY <1>0, <3>2, <3>3 DEF ProcsTyped
    <2>4. LockTyped' /\ LaunchdTyped'
      <3>1. CASE pid \in {None, p}
        BY <1>0, <1>5, <2>1, <3>1, EndsTyped DEF GivesUp, ReadPid
      <3>2. CASE pid \notin {None, p}
        BY <1>0, <1>5, <2>1, <3>2 DEF ReadPid, LockTyped, LaunchdTyped, launchd
      <3> QED BY <3>1, <3>2
    <2>5. FilesTyped' /\ CountersTyped'
      BY <1>0, <1>5 DEF ReadPid, FilesTyped, CountersTyped, counters
    <2> QED BY <2>3, <2>4, <2>5, TypePartsNext
  <1>6. CASE Signal(p)
    <2>1. proc[p].target \in Pids \cup {None}
      BY <1>0 DEF ProcsTyped, Process
    <2>2. ProcsTyped'
      <3> DEFINE killed == [proc EXCEPT ![proc[p].target] = Dead]
                 half == [killed EXCEPT ![p].pc = "wait"]
      <3>1. killed \in [Pids -> Process]
        BY <1>0 DEF ProcsTyped
      <3>2. half \in [Pids -> Process]
        BY <3>1 DEF Process, Places
      <3>3. [half EXCEPT ![p].target = None] \in [Pids -> Process]
        BY <3>2 DEF Process
      <3>4. proc' \in {[proc EXCEPT ![p] = Dead], [half EXCEPT ![p].target = None]}
        BY <1>6 DEF Signal, GivesUp
      <3> QED BY <1>0, <3>3, <3>4 DEF ProcsTyped
    <2>3. LockTyped' /\ LaunchdTyped'
      BY <1>0, <1>6, <2>1, EndsTyped DEF Signal, GivesUp
    <2>4. FilesTyped' /\ CountersTyped'
      BY <1>0, <1>6 DEF Signal, FilesTyped, CountersTyped, counters
    <2> QED BY <2>2, <2>3, <2>4, TypePartsNext
  <1>7. CASE Wait(p)
    <2>1. FilesTyped' /\ CountersTyped'
      BY <1>0, <1>7 DEF Wait, FilesTyped, CountersTyped, counters
    <2>2. CASE Locks(p) /\ UNCHANGED launchd
      BY <1>0, <1>7, <2>1, <2>2, GoesTyped, TypePartsNext
         DEF Wait, Locks, LockTyped, LaunchdTyped, launchd, Places
    <2>3. CASE GivesUp(p)
      <3>1. ProcsTyped'
        BY <1>0, <2>3 DEF GivesUp, ProcsTyped
      <3>2. LockTyped' /\ LaunchdTyped'
        BY <1>0, <1>7, <2>3, EndsTyped DEF Wait, GivesUp
      <3> QED BY <2>1, <3>1, <3>2, TypePartsNext
    <2> QED BY <1>7, <2>2, <2>3 DEF Wait
  <1>8. CASE Release(p)
    <2>1. ProcsTyped'
      BY <1>0, <1>8, GoesTyped DEF Release, Places
    <2>2. Rest
      BY <1>0, <1>8 DEF Release, Unlocks, LockTyped, LaunchdTyped, FilesTyped, CountersTyped,
         launchd, counters
    <2> QED BY <2>1, <2>2, TypePartsNext
  <1>9. CASE Swap(p)
    <2>1. ProcsTyped'
      BY <1>0, <1>9, GoesTyped DEF Swap, Places
    <2>2. FilesTyped'
      BY <1>0, <1>9, DaemonAssumption DEF Swap, FilesTyped, Versions, DaemonAssumption
    <2>3. LockTyped' /\ LaunchdTyped' /\ CountersTyped'
      BY <1>0, <1>9 DEF Swap, LockTyped, LaunchdTyped, CountersTyped, launchd, counters
    <2> QED BY <2>1, <2>2, <2>3, TypePartsNext
  <1> QED
    BY <1>1, <1>2, <1>3, <1>4, <1>5, <1>6, <1>7, <1>8, <1>9

(* So do the calls that fail, and the processes that are quit or crash.    *)
LEMMA FailuresTyped ==
    ASSUME DaemonAssumption, TypeOK, NEW p \in Pids,
           \/ BounceUntold(p) \/ BounceFails(p) \/ LockUnavailable(p)
           \/ RecordFails(p) \/ RespawnFails(p) \/ Quit(p) \/ Crash(p)
    PROVE  TypeOK'
  <1>0. /\ ProcsTyped /\ LockTyped /\ LaunchdTyped /\ FilesTyped /\ CountersTyped
        /\ Born \in Process /\ Dead \in Process
    BY TypeParts, BornTyped
  <1>1. CountersTyped'
    BY <1>0, FailureTyped
       DEF BounceUntold, BounceFails, LockUnavailable, RecordFails, RespawnFails, Quit, Crash,
           CountersTyped
  <1>2. CASE BounceFails(p) \/ LockUnavailable(p) \/ RespawnFails(p)
    <2>1. ProcsTyped'
      BY <1>0, <1>2, GoesTyped DEF BounceFails, LockUnavailable, RespawnFails, Places
    <2>2. LockTyped' /\ LaunchdTyped'
      BY <1>0, <1>2 DEF BounceFails, LockUnavailable, RespawnFails, LockTyped, LaunchdTyped, launchd
    <2>3. FilesTyped'
      BY <1>0, <1>2 DEF BounceFails, LockUnavailable, RespawnFails, FilesTyped, ProcsTyped, Process
    <2> QED BY <1>1, <2>1, <2>2, <2>3, TypePartsNext
  <1>3. CASE Quit(p) \/ Crash(p)
    <2>1. ProcsTyped' /\ FilesTyped'
      BY <1>0, <1>3 DEF Quit, Crash, GivesUp, ProcsTyped, FilesTyped
    <2>2. LockTyped' /\ LaunchdTyped'
      BY <1>0, <1>3, EndsTyped DEF Quit, Crash, GivesUp
    <2> QED BY <1>1, <2>1, <2>2, TypePartsNext
  <1>4. CASE BounceUntold(p)
    <2>1. ProcsTyped'
      BY <1>0, <1>4 DEF BounceUntold, ProcsTyped
    <2>2. LockTyped' /\ LaunchdTyped'
      BY <1>0, <1>4, EndsTyped DEF BounceUntold
    <2>3. FilesTyped'
      BY <1>0, <1>4 DEF BounceUntold, Stamps, FilesTyped, ProcsTyped, Process
    <2> QED BY <1>1, <2>1, <2>2, <2>3, TypePartsNext
  <1>5. CASE RecordFails(p)
    <2>1. ProcsTyped'
      BY <1>0, <1>5 DEF RecordFails, ProcsTyped, Process, Places
    <2>2. LockTyped' /\ LaunchdTyped' /\ FilesTyped'
      BY <1>0, <1>5 DEF RecordFails, LockTyped, LaunchdTyped, FilesTyped, launchd
    <2> QED BY <1>1, <2>1, <2>2, TypePartsNext
  <1> QED
    BY <1>2, <1>3, <1>4, <1>5

(* Every step keeps the types.                                             *)
LEMMA TypeNext == TypeOK /\ [Next]_vars => TypeOK'
  <1> SUFFICES ASSUME TypeOK, [Next]_vars PROVE TypeOK'
    OBVIOUS
  <1>1. CASE UserLaunch \/ LaunchdStarts
    BY <1>1, SpawnsTyped, DaemonAssumption
  <1>2. CASE Reinstall
    <2>1. FilesTyped'
      BY <1>2, TypeParts, DaemonAssumption DEF Reinstall, FilesTyped, Versions, DaemonAssumption
    <2>2. ProcsTyped' /\ LockTyped' /\ LaunchdTyped' /\ CountersTyped'
      BY <1>2, TypeParts
         DEF Reinstall, ProcsTyped, LockTyped, LaunchdTyped, CountersTyped, launchd, counters
    <2> QED BY <2>1, <2>2, TypePartsNext
  <1>3. ASSUME NEW p \in Pids, Step(p) \/ Swap(p) PROVE TypeOK'
    BY <1>3, SpawnsTyped, StepsTyped, DaemonAssumption DEF Step
  <1>4. ASSUME NEW p \in Pids,
               \/ BounceUntold(p) \/ BounceFails(p) \/ LockUnavailable(p)
               \/ RecordFails(p) \/ RespawnFails(p) \/ Quit(p) \/ Crash(p)
        PROVE TypeOK'
    BY <1>4, FailuresTyped, DaemonAssumption
  <1>5. CASE UNCHANGED vars
    BY <1>5, TypeParts, TypePartsNext
       DEF vars, ProcsTyped, LockTyped, LaunchdTyped, FilesTyped, CountersTyped
  <1> QED
    BY <1>1, <1>2, <1>3, <1>4, <1>5 DEF Next

(* Every variable has its type in every reachable state: no lock file,     *)
(* takeover or launchd job names what is not a process.                    *)
THEOREM TypeCorrect == Spec => []TypeOK
  BY InitInv, TypeNext, PTL DEF Spec

-----------------------------------------------------------------------------
(* Only e lets go of the lock, and each process stays as it was or comes   *)
(* to where it owns nothing: whoever owned the lock and is not e still     *)
(* does.                                                                   *)
LEMMA KeepsLock ==
    ASSUME TypeOK, LockInv, NEW e, Unlocks(e),
           recorded' = recorded, Failed => Failed',
           \A q \in Pids : \/ proc'[q] = proc[q] /\ (Owns(q) => q # e)
                          \/ proc'[q].pc \in Idle
    PROVE  LockInv'
  <1>1. ASSUME NEW q \in Pids, Owns(q)' PROVE holder' = q
    <2>1. Owns(q) /\ q # e
      BY <1>1 DEF Owns, At, Idle, Places
    <2> QED BY <2>1 DEF LockInv, Unlocks
  <1>2. ASSUME NEW q \in Pids, proc'[q].pc \in {"run", "adopt"}
        PROVE  recorded' = q \/ proc'[q].unnamed
    BY <1>2 DEF LockInv, Owns, Idle, Places
  <1>3. ASSUME NEW q \in Pids, At(q, "bare")' PROVE Failed'
    <2>1. At(q, "bare")
      BY <1>3 DEF At, Idle, Places
    <2> QED BY <2>1 DEF LockInv
  <1> QED
    BY <1>1, <1>2, <1>3 DEF LockInv

(* The same where the lock does not change hands.                          *)
LEMMA QuietLock ==
    ASSUME TypeOK, LockInv, holder' = holder, recorded' = recorded, Failed => Failed',
           \A q \in Pids : \/ proc'[q] = proc[q]
                          \/ proc'[q].pc \in Idle
    PROVE  LockInv'
  <1>1. ASSUME NEW q \in Pids, Owns(q)' PROVE holder' = q
    <2>1. Owns(q)
      BY <1>1 DEF Owns, At, Idle, Places
    <2> QED BY <2>1 DEF LockInv
  <1>2. ASSUME NEW q \in Pids, proc'[q].pc \in {"run", "adopt"}
        PROVE  recorded' = q \/ proc'[q].unnamed
    BY <1>2 DEF LockInv, Owns, Idle, Places
  <1>3. ASSUME NEW q \in Pids, At(q, "bare")' PROVE Failed'
    <2>1. At(q, "bare")
      BY <1>3 DEF At, Idle, Places
    <2> QED BY <2>1 DEF LockInv
  <1> QED
    BY <1>1, <1>2, <1>3 DEF LockInv

(* The lock goes to one who did not have it only when nobody has it.       *)
LEMMA AcquiresLock ==
    ASSUME TypeOK, LockInv, NEW p \in Pids, Locks(p), UNCHANGED <<recorded, failures>>
    PROVE  LockInv'
  <1>1. \A q \in Pids : ~Owns(q)
    BY DEF Locks, LockInv, Pids, None
  <1>2. \A q \in Pids : proc'[q] = proc[q] \/ (q = p /\ proc'[q].pc = "held")
    BY DEF Locks, Goes, At, TypeOK
  <1> QED
    BY <1>1, <1>2 DEF LockInv, Owns, At, Locks, Failed

(* Who gives up, quits or crashes leaves the others what they own.         *)
LEMMA GivingUpKeepsLock ==
    ASSUME TypeOK, LockInv, NEW p \in Pids, Unlocks(p), Dies(p),
           recorded' = recorded, Failed => Failed'
    PROVE  LockInv'
  <1>1. \A q \in Pids : \/ proc'[q] = proc[q] /\ (Owns(q) => q # p)
                       \/ proc'[q].pc \in Idle
    BY DEF TypeOK, Dies, Dead, Owns, At, Idle, Places
  <1> QED
    BY <1>1, KeepsLock

(* A failed call may leave a daemon without the lock; it does not give it. *)
LEMMA FailuresKeepLock ==
    ASSUME DaemonAssumption, TypeOK, LockInv, NEW p \in Pids,
           \/ BounceUntold(p) \/ BounceFails(p) \/ LockUnavailable(p)
           \/ RecordFails(p) \/ RespawnFails(p) \/ Quit(p) \/ Crash(p)
    PROVE  LockInv'
  <1>0. proc \in [Pids -> Process]
    BY TypeParts DEF ProcsTyped
  <1>1. Failed' /\ (recorded' = recorded \/ RecordFails(p))
    <2>1. failures \in Nat
      BY TypeParts DEF CountersTyped
    <2>2. Failure /\ (recorded' = recorded \/ RecordFails(p))
      BY DEF BounceUntold, BounceFails, LockUnavailable, RecordFails, RespawnFails, Quit, Crash
    <2> QED
      BY <2>1, <2>2 DEF Failure, Failed
  <1>2. CASE BounceFails(p)
    <2>1. \A q \in Pids : proc'[q] = proc[q] \/ proc'[q].pc \in Idle
      BY <1>2 DEF BounceFails, Goes, At, Owns, Idle, Places, TypeOK
    <2>2. holder' = holder /\ recorded' = recorded /\ (Failed => Failed')
      BY <1>1, <1>2 DEF BounceFails
    <2> QED BY <2>1, <2>2, QuietLock
  <1>3. CASE LockUnavailable(p) \/ RespawnFails(p)
    <2>1. holder' = holder
      BY <1>3 DEF LockUnavailable, RespawnFails
    <2>2. \A q \in Pids : proc'[q] = proc[q] \/ (q = p /\ proc'[q].pc = "bare")
      BY <1>3 DEF LockUnavailable, RespawnFails, Goes, At, TypeOK
    <2>3. recorded' = recorded
      BY <1>3 DEF LockUnavailable, RespawnFails
    <2> QED BY <1>1, <2>1, <2>2, <2>3 DEF LockInv, Owns, At, Idle, Places
  <1>4. CASE Quit(p) \/ Crash(p)
    <2>1. Unlocks(p) /\ Dies(p)
      BY <1>4 DEF Quit, Crash, GivesUp, Ends, Dies
    <2>2. recorded' = recorded
      BY <1>4 DEF Quit, Crash
    <2> QED BY <1>1, <2>1, <2>2, GivingUpKeepsLock
  <1>5. CASE BounceUntold(p)
    <2>1. \A q \in Pids : \/ proc'[q] = proc[q] /\ (Owns(q) => q # p)
                         \/ proc'[q].pc \in Idle
      <3>1. PICK n \in Pids : proc' = [proc EXCEPT ![p] = Dead, ![n] = Born]
        BY <1>5 DEF BounceUntold
      <3> QED
        BY <1>0, <3>1 DEF Dead, Born, Idle, Places
    <2>2. Unlocks(p) /\ recorded' = recorded
      BY <1>5 DEF BounceUntold, Ends
    <2> QED BY <1>1, <2>1, <2>2, KeepsLock
  <1>6. CASE RecordFails(p)
    <2>1. \A q \in Pids :
             proc'[q] = proc[q] \/ (q = p /\ proc'[q].pc = "run" /\ proc'[q].unnamed)
      BY <1>0, <1>6 DEF RecordFails, Process
    <2>2. holder' = holder /\ holder = p
      BY <1>6 DEF RecordFails, LockInv, Owns, At
    <2>3. ASSUME NEW q \in Pids, q # p PROVE ~Owns(q)
      BY <2>2, <2>3 DEF LockInv
    <2>4. \A q \in Pids : Owns(q)' => q = p
      BY <2>1, <2>3 DEF Owns
    <2>5. \A q \in Pids : At(q, "bare")' => Failed'
      BY <1>1
    <2>6. \A q \in Pids :
             proc'[q].pc \in {"run", "adopt"} => recorded' = q \/ proc'[q].unnamed
      BY <1>6, <2>1, <2>4 DEF RecordFails, At, Owns
    <2> QED BY <2>2, <2>4, <2>5, <2>6 DEF LockInv
  <1> QED
    BY <1>2, <1>3, <1>4, <1>5, <1>6

(* The steps of a process keep the lock with its owner.                    *)
LEMMA StepsKeepLock ==
    ASSUME DaemonAssumption, TypeOK, LockInv, NEW p \in Pids, Step(p) \/ Swap(p)
    PROVE  LockInv'
  <1>0. proc \in [Pids -> Process] /\ Pids \subseteq Nat \ {None}
    BY TypeParts DEF TypeOK, ProcsTyped, Pids, None
  <1>1. CASE Start(p)
    <2>1. \A q \in Pids : proc'[q] = proc[q] \/ proc'[q].pc \in Idle
      BY <1>0, <1>1 DEF Start, Goes, At, Owns, Idle, Places, Process
    <2>2. holder' = holder /\ recorded' = recorded /\ (Failed => Failed')
      BY <1>1 DEF Start, counters, Failed
    <2> QED BY <2>1, <2>2, QuietLock
  <1>2. CASE Bounce(p)
    <2>1. \A q \in Pids : \/ proc'[q] = proc[q] /\ (Owns(q) => q # p)
                         \/ proc'[q].pc \in Idle
      BY <1>0, <1>2 DEF Bounce, Dead, Born, Owns, At, Idle, Places
    <2>2. Unlocks(p) /\ recorded' = recorded /\ (Failed => Failed')
      BY <1>2 DEF Bounce, Ends, counters, Failed
    <2> QED BY <2>1, <2>2, KeepsLock
  <1>3. CASE Lock(p)
    <2>1. CASE Locks(p)
      BY <1>3, <2>1, AcquiresLock DEF Lock, counters, Failed
    <2>2. CASE Goes(p, "find") /\ UNCHANGED holder
      <3>1. \A q \in Pids : proc'[q] = proc[q] \/ proc'[q].pc \in Idle
        BY <1>0, <2>2 DEF Goes, At, Owns, Idle, Places, Process
      <3>2. holder' = holder /\ recorded' = recorded /\ (Failed => Failed')
        BY <1>3, <2>2 DEF Lock, counters, Failed
      <3> QED BY <3>1, <3>2, QuietLock
    <2> QED BY <1>3, <2>1, <2>2 DEF Lock
  <1>4. CASE Record(p)
    <2>1. \A q \in Pids : proc'[q] = proc[q] \/ (q = p /\ proc'[q].pc = "run")
      BY <1>0, <1>4 DEF Record, Goes, At, Process
    <2>2. holder' = p /\ holder = p /\ recorded' = p /\ Failed = Failed'
      BY <1>4 DEF Record, LockInv, Owns, At, Idle, Places, counters, Failed
    <2> QED BY <2>1, <2>2 DEF LockInv, Owns, At, Idle, Places
  <1>5. CASE Kickstart(p)
    <2>1. job \in Pids /\ ~Owns(p)
      BY <1>5, TypeParts DEF Kickstart, Kicks, LaunchdTyped, At, Owns
    <2> PICK e \in Pids : e = job
      BY <2>1
    <2>2. \A q \in Pids : \/ proc'[q] = proc[q] /\ (Owns(q) => q # e)
                         \/ proc'[q].pc \in Idle
      <3>1. PICK n \in Pids : proc' = [proc EXCEPT ![p] = Dead, ![e] = Dead, ![n] = Born]
        BY <1>5 DEF Kickstart
      <3> QED
        BY <1>0, <3>1 DEF Dead, Born, Idle, Places
    <2>3. Unlocks(e) /\ recorded' = recorded /\ (Failed => Failed')
      BY <1>5 DEF Kickstart, Unlocks, counters, Failed
    <2> QED BY <2>2, <2>3, KeepsLock
  <1>6. CASE NoKickstart(p)
    <2>1. \A q \in Pids : proc'[q] = proc[q] \/ proc'[q].pc \in Idle
      BY <1>0, <1>6 DEF NoKickstart, Goes, At, Owns, Idle, Places, Process
    <2>2. Failed => Failed'
      BY <1>6 DEF NoKickstart, Failure, Failed, TypeOK
    <2>3. holder' = holder /\ recorded' = recorded /\ (Failed => Failed')
      BY <1>6, <2>2 DEF NoKickstart
    <2> QED BY <2>1, <2>3, QuietLock
  <1>7. CASE ReadPid(p)
    <2>1. CASE GivesUp(p)
      <3>1. Unlocks(p) /\ Dies(p)
        BY <2>1 DEF GivesUp, Ends, Dies
      <3>2. recorded' = recorded /\ (Failed => Failed')
        BY <1>7 DEF ReadPid, counters, Failed
      <3> QED BY <3>1, <3>2, GivingUpKeepsLock
    <2>2. ASSUME NEW pid, UNCHANGED holder,
                 proc' = [proc EXCEPT ![p].pc = "signal", ![p].target = pid]
          PROVE  LockInv'
      <3>1. \A q \in Pids : proc'[q] = proc[q] \/ proc'[q].pc \in Idle
        BY <1>0, <2>2 DEF Owns, At, Idle, Places, Process
      <3>2. holder' = holder /\ recorded' = recorded /\ (Failed => Failed')
        BY <1>7, <2>2 DEF ReadPid, counters, Failed
      <3> QED BY <3>1, <3>2, QuietLock
    <2> QED BY <1>7, <2>1, <2>2 DEF ReadPid
  <1>8. CASE Signal(p)
    <2>1. CASE GivesUp(p)
      <3>1. Unlocks(p) /\ Dies(p)
        BY <2>1 DEF GivesUp, Ends, Dies
      <3>2. recorded' = recorded /\ (Failed => Failed')
        BY <1>8 DEF Signal, counters, Failed
      <3> QED BY <3>1, <3>2, GivingUpKeepsLock
    <2>2. CASE ~GivesUp(p)
      <3>1. PICK e \in Pids \cup {None} : e = proc[p].target
        BY <1>0 DEF Process
      <3>2. proc' = [proc EXCEPT ![e] = Dead, ![p].pc = "wait", ![p].target = None]
        BY <1>8, <2>2, <3>1 DEF Signal
      <3>3. ~Owns(p)
        BY <1>8 DEF Signal, At, Owns
      <3>4. \A q \in Pids : \/ proc'[q] = proc[q] /\ (Owns(q) => q # e)
                           \/ proc'[q].pc \in Idle
        <4> DEFINE killed == [proc EXCEPT ![e] = Dead]
                   half == [killed EXCEPT ![p].pc = "wait"]
                   final == [half EXCEPT ![p].target = None]
        <4>1. /\ killed \in [Pids -> Process]
              /\ \A q \in Pids : killed[q] = proc[q] \/ killed[q].pc = "dead"
              /\ \A q \in Pids : q = e => killed[q].pc = "dead"
          BY <1>0, BornTyped, TypeParts DEF Dead
        <4>2. /\ half \in [Pids -> Process] /\ half[p].pc = "wait"
              /\ \A q \in Pids : q # p => half[q] = killed[q]
          <5> HIDE DEF killed
          <5> QED BY <4>1 DEF Process, Places
        <4>3. final[p].pc = "wait" /\ \A q \in Pids : q # p => final[q] = killed[q]
          <5> HIDE DEF half, killed
          <5> QED BY <4>2 DEF Process
        <4>4. proc' = final
          BY <3>2
        <4> HIDE DEF killed, half, final
        <4>5. ASSUME NEW q \in Pids, q # p, proc'[q] = proc[q], q = e
              PROVE  proc'[q].pc \in Idle
          BY <4>1, <4>3, <4>4, <4>5 DEF Idle, Places
        <4>6. ASSUME NEW q \in Pids PROVE proc'[q] = proc[q] \/ proc'[q].pc \in Idle
          BY <4>1, <4>3, <4>4 DEF Idle, Places
        <4> QED
          BY <4>3, <4>4, <4>5, <4>6 DEF Idle, Places
      <3>5. Unlocks(e) /\ recorded' = recorded /\ (Failed => Failed')
        BY <1>8, <2>2, <3>1 DEF Signal, Ends, Unlocks, counters, Failed
      <3> QED BY <3>4, <3>5, KeepsLock
    <2> QED BY <2>1, <2>2
  <1>9. CASE Wait(p)
    <2>1. CASE Locks(p)
      BY <1>9, <2>1, AcquiresLock DEF Wait, counters, Failed
    <2>2. CASE GivesUp(p)
      <3>1. Unlocks(p) /\ Dies(p)
        BY <2>2 DEF GivesUp, Ends, Dies
      <3>2. recorded' = recorded /\ (Failed => Failed')
        BY <1>9 DEF Wait, counters, Failed
      <3> QED BY <3>1, <3>2, GivingUpKeepsLock
    <2> QED BY <1>9, <2>1, <2>2 DEF Wait
  <1>10. CASE Release(p)
    <2>1. \A q \in Pids : \/ proc'[q] = proc[q] /\ (Owns(q) => q # p)
                         \/ proc'[q].pc \in Idle
      BY <1>0, <1>10 DEF Release, Goes, Owns, At, Idle, Places, Process
    <2>2. Unlocks(p) /\ recorded' = recorded /\ (Failed => Failed')
      BY <1>10 DEF Release, counters, Failed
    <2> QED BY <2>1, <2>2, KeepsLock
  <1>11. CASE Respawn(p)
    <2>1. \A q \in Pids : \/ proc'[q] = proc[q] /\ (Owns(q) => q # p)
                         \/ proc'[q].pc \in Idle
      <3>1. PICK n \in Pids : proc' = [proc EXCEPT ![p] = Dead, ![n] = Born]
        BY <1>11 DEF Respawn
      <3> QED
        BY <1>0, <3>1 DEF Dead, Born, Idle, Places
    <2>2. Unlocks(p) /\ recorded' = recorded /\ (Failed => Failed')
      BY <1>11 DEF Respawn, Ends, counters, Failed
    <2> QED BY <2>1, <2>2, KeepsLock
  <1>12. CASE Swap(p)
    <2>1. CASE At(p, "run") /\ Goes(p, "adopt")
      <3>1. \A q \in Pids :
               \/ proc'[q] = proc[q]
               \/ q = p /\ proc'[q].pc = "adopt" /\ proc'[q].unnamed = proc[q].unnamed
        BY <1>0, <2>1 DEF Goes, Process
      <3>2. UNCHANGED <<holder, recorded, failures>>
        BY <1>12 DEF Swap, counters
      <3> QED BY <2>1, <3>1, <3>2 DEF LockInv, Owns, At, Failed
    <2>2. CASE At(p, "bare") /\ Goes(p, "released")
      <3>1. \A q \in Pids : proc'[q] = proc[q] \/ proc'[q].pc \in Idle
        BY <1>0, <2>2 DEF Goes, At, Idle, Places, Process
      <3>2. holder' = holder /\ recorded' = recorded /\ (Failed => Failed')
        BY <1>12 DEF Swap, counters, Failed
      <3> QED BY <3>1, <3>2, QuietLock
    <2> QED BY <1>12, <2>1, <2>2 DEF Swap
  <1> QED
    BY <1>1, <1>2, <1>3, <1>4, <1>5, <1>6, <1>7, <1>8, <1>9, <1>10, <1>11, <1>12 DEF Step

(* Every step keeps the lock with its owner.                               *)
LEMMA LockNext == TypeOK /\ LockInv /\ [Next]_vars => LockInv'
  <1> SUFFICES ASSUME TypeOK, LockInv, [Next]_vars PROVE LockInv'
    OBVIOUS
  <1>1. CASE UserLaunch \/ LaunchdStarts
    <2>1. \A q \in Pids : proc'[q] = proc[q] \/ proc'[q].pc \in Idle
      BY <1>1 DEF UserLaunch, LaunchdStarts, Born, Idle, Places, TypeOK
    <2>2. holder' = holder /\ recorded' = recorded /\ (Failed => Failed')
      BY <1>1 DEF UserLaunch, LaunchdStarts, counters, Failed
    <2> QED BY <2>1, <2>2, QuietLock
  <1>2. CASE Reinstall \/ UNCHANGED vars
    <2>1. UNCHANGED <<proc, holder, recorded, failures>>
      BY <1>2 DEF Reinstall, vars, counters
    <2> QED BY <2>1, QuietLock DEF Failed
  <1>3. ASSUME NEW p \in Pids, Step(p) \/ Swap(p) PROVE LockInv'
    BY <1>3, StepsKeepLock, DaemonAssumption
  <1>4. ASSUME NEW p \in Pids,
               \/ BounceUntold(p) \/ BounceFails(p) \/ LockUnavailable(p)
               \/ RecordFails(p) \/ RespawnFails(p) \/ Quit(p) \/ Crash(p)
        PROVE LockInv'
    BY <1>4, FailuresKeepLock, DaemonAssumption
  <1> QED
    BY <1>1, <1>2, <1>3, <1>4 DEF Next

(* Who runs with the lock holds it and, unless it failed to write its pid, *)
(* is named by the file; who runs without it was left without by a failure. *)
LEMMA LockInvariant == Spec => [](TypeOK /\ LockInv)
  BY InitInv, TypeNext, LockNext, PTL DEF Spec

(* The state predicates follow from the invariant.                         *)
LEMMA LockGives == TypeOK /\ LockInv => OneDaemon /\ HolderRecorded
  <1> SUFFICES ASSUME TypeOK, LockInv PROVE OneDaemon /\ HolderRecorded
    OBVIOUS
  <1>1. ASSUME NEW p \in Pids, NEW q \in Pids, Running(p), Running(q), p # q
        PROVE  (At(p, "bare") \/ At(q, "bare")) /\ failures > 0
    BY <1>1 DEF LockInv, Running, Owns, At, Failed
  <1> QED
    BY <1>1 DEF OneDaemon, HolderRecorded, LockInv, Owns, Failed

(* However many processes start, bounce, take over and are relaunched, two *)
(* daemons run at once only after a failure that left one without a lock.  *)
THEOREM OneDaemonAlways == Spec => []OneDaemon
  BY LockInvariant, LockGives, PTL

(* The file names the daemon that has the lock, whatever bounces,          *)
(* takeovers, restarts, kickstarts and kills came before, for every number *)
(* of processes and versions, unless that daemon failed to write its pid.  *)
THEOREM HolderRecordedAlways == Spec => []HolderRecorded
  BY LockInvariant, LockGives, PTL

-----------------------------------------------------------------------------
(* That starts come to rest.  The distance from rest has seven parts, the  *)
(* earlier of which weigh more.  What the environment can still do: new    *)
(* versions, launches, failures.  Daemons that will respawn for an update. *)
(* Processes, with the one that launchd is about to start.  Processes of   *)
(* an older version, and whether the stamp is of another version than the  *)
(* binary.  Processes that will bounce, and how far the processes have to  *)
(* go, where the job of launchd counts last: whoever makes it start again  *)
(* gets ahead by that.                                                     *)
Live == {p \in Pids : ~At(p, "dead")}
One(b) == IF b THEN 1 ELSE 0

Budget == (MaxVersion - disk) + (MaxLaunches - launches) + (MaxFailures - failures)
Adopting == {p \in Pids : proc[p].pc \in {"adopt", "released"}}
Stale == {p \in Live : proc[p].image # disk}

Bounces(p) == At(p, "claim") \/ (At(p, "start") /\ proc[p].image # stamp)
Own == Live \ {job}
Bouncing == {p \in Own : Bounces(p)}

Ahead == [start |-> 8, claim |-> 7, lock |-> 7, find |-> 6, takeover |-> 5,
          signal |-> 4, wait |-> 3, held |-> 2, adopt |-> 2, released |-> 1,
          run |-> 0, bare |-> 0, dead |-> 0]
Path == {step \in Own \X (1 .. 8) : step[2] <= Ahead[proc[step[1]].pc]}
JobAhead ==
    IF relaunch THEN 9 + 10 * One(stamp # disk)
    ELSE IF job = None THEN 0
    ELSE Ahead[proc[job].pc] + 10 * One(Bounces(job))

Distance == <<Budget, Cardinality(Adopting), Cardinality(Live) + One(relaunch),
              2 * Cardinality(Stale) + One(stamp # disk), Cardinality(Bouncing),
              Cardinality(Path), JobAhead>>

Below(a, b) ==
    \E i \in 1 .. 7 : a[i] < b[i] /\ \A j \in 1 .. 7 : j < i => a[j] = b[j]

(* Every step, of a process, of launchd or of the user, comes nearer to    *)
(* rest: "a bounce can never loop" (registration.go:37), and neither can   *)
(* processes that relaunch or take over from one another.                  *)
NearsRest == [][Below(Distance', Distance)]_vars

-----------------------------------------------------------------------------
(* The order is well-founded: nothing is below something below something   *)
(* and so on for ever.                                                     *)
LEMMA LeastOf ==
    ASSUME NEW S, S \subseteq Nat, S # {}
    PROVE  \E m \in S : \A n \in S : m <= n
  <1>1. PICK m \in S : \A n \in S : ~(<<n, m>> \in OpToRel(<, Nat))
    BY WFMin, NatLessThanWellFounded
  <1>2. \A n \in S : ~(n < m)
    BY <1>1 DEF OpToRel
  <1> QED BY <1>2

Numbers(a) == \A i \in 1 .. 7 : a[i] \in Nat

(* Those of a set that are least in one part.                              *)
LEMMA LeastIn ==
    ASSUME NEW S, S # {}, NEW i, \A a \in S : a[i] \in Nat
    PROVE  \E m \in S : \A a \in S : m[i] <= a[i]
  <1> DEFINE V == {a[i] : a \in S}
  <1>1. V \subseteq Nat /\ V # {}
    OBVIOUS
  <1>2. PICK v \in V : \A n \in V : v <= n
    <2> HIDE DEF V
    <2> QED BY <1>1, LeastOf
  <1> QED BY <1>2

(* Of any distances there is one that none of the others is below.         *)
THEOREM BelowEnds ==
    ASSUME NEW S, S # {}, \A a \in S : Numbers(a)
    PROVE  \E m \in S : \A a \in S : ~Below(a, m)
  <1>0. \A a \in S : /\ a[1] \in Nat /\ a[2] \in Nat /\ a[3] \in Nat
                     /\ a[4] \in Nat /\ a[5] \in Nat /\ a[6] \in Nat
                     /\ a[7] \in Nat
    BY DEF Numbers
  <1>1. PICK m1 \in S : \A a \in S : m1[1] <= a[1]
    BY <1>0, LeastIn
  <1> DEFINE S1 == {a \in S : a[1] = m1[1]}
  <1>2. PICK m2 \in S1 : \A a \in S1 : m2[2] <= a[2]
    <2>1. S1 # {} /\ \A a \in S1 : a[2] \in Nat
      BY <1>0, <1>1
    <2> HIDE DEF S1
    <2> QED BY <2>1, LeastIn
  <1> DEFINE S2 == {a \in S1 : a[2] = m2[2]}
  <1>3. PICK m3 \in S2 : \A a \in S2 : m3[3] <= a[3]
    <2>1. S2 # {} /\ \A a \in S2 : a[3] \in Nat
      BY <1>0, <1>2
    <2> HIDE DEF S2
    <2> QED BY <2>1, LeastIn
  <1> DEFINE S3 == {a \in S2 : a[3] = m3[3]}
  <1>4. PICK m4 \in S3 : \A a \in S3 : m4[4] <= a[4]
    <2>1. S3 # {} /\ \A a \in S3 : a[4] \in Nat
      BY <1>0, <1>3
    <2> HIDE DEF S3
    <2> QED BY <2>1, LeastIn
  <1> DEFINE S4 == {a \in S3 : a[4] = m4[4]}
  <1>5. PICK m5 \in S4 : \A a \in S4 : m5[5] <= a[5]
    <2>1. S4 # {} /\ \A a \in S4 : a[5] \in Nat
      BY <1>0, <1>4
    <2> HIDE DEF S4
    <2> QED BY <2>1, LeastIn
  <1> DEFINE S5 == {a \in S4 : a[5] = m5[5]}
  <1>6. PICK m6 \in S5 : \A a \in S5 : m6[6] <= a[6]
    <2>1. S5 # {} /\ \A a \in S5 : a[6] \in Nat
      BY <1>0, <1>5
    <2> HIDE DEF S5
    <2> QED BY <2>1, LeastIn
  <1> DEFINE S6 == {a \in S5 : a[6] = m6[6]}
  <1>7. PICK m7 \in S6 : \A a \in S6 : m7[7] <= a[7]
    <2>1. S6 # {} /\ \A a \in S6 : a[7] \in Nat
      BY <1>0, <1>6
    <2> HIDE DEF S6
    <2> QED BY <2>1, LeastIn
  <1>8. ASSUME NEW a \in S, Below(a, m7) PROVE FALSE
    <2>1. PICK i \in 1 .. 7 :
             a[i] < m7[i] /\ \A j \in 1 .. 7 : j < i => a[j] = m7[j]
      BY <1>8 DEF Below
    <2>2. /\ m7 \in S /\ m7[1] = m1[1] /\ m7[2] = m2[2] /\ m7[3] = m3[3]
          /\ m7[4] = m4[4] /\ m7[5] = m5[5] /\ m7[6] = m6[6]
      BY <1>7
    <2>3. \A j \in 1 .. 7 : a[j] \in Nat /\ m7[j] \in Nat
      BY <2>2 DEF Numbers
    <2>4. m7[i] <= a[i]
      <3>1. i = 1 => m7[1] <= a[1]
        BY <1>1, <2>2
      <3>2. i = 2 => m7[2] <= a[2]
        BY <1>2, <2>1, <2>2
      <3>3. i = 3 => m7[3] <= a[3]
        BY <1>3, <2>1, <2>2
      <3>4. i = 4 => m7[4] <= a[4]
        BY <1>4, <2>1, <2>2
      <3>5. i = 5 => m7[5] <= a[5]
        BY <1>5, <2>1, <2>2
      <3>6. i = 6 => m7[6] <= a[6]
        BY <1>6, <2>1, <2>2
      <3>7. i = 7 => m7[7] <= a[7]
        BY <1>7, <2>1, <2>2
      <3> QED BY <3>1, <3>2, <3>3, <3>4, <3>5, <3>6, <3>7
    <2> QED BY <2>1, <2>3, <2>4
  <1> QED BY <1>7, <1>8

(* One part that falls is enough, if those before it do not rise.          *)
LEMMA Falls ==
    ASSUME NEW a, NEW b, Numbers(a), Numbers(b), NEW i \in 1 .. 7,
           a[i] < b[i], \A j \in 1 .. 7 : j < i => a[j] <= b[j]
    PROVE  Below(a, b)
  <1> DEFINE S == {j \in 1 .. 7 : a[j] < b[j]}
  <1>1. PICK m \in S : \A n \in S : m <= n
    <2>1. S \subseteq Nat /\ S # {}
      OBVIOUS
    <2> HIDE DEF S
    <2> QED BY <2>1, LeastOf
  <1>2. ASSUME NEW j \in 1 .. 7, j < m PROVE a[j] = b[j]
    <2>1. j < i /\ ~(a[j] < b[j])
      BY <1>1, <1>2
    <2> QED BY <2>1 DEF Numbers
  <1> QED BY <1>1, <1>2 DEF Below

-----------------------------------------------------------------------------
(* What the distance needs of the state: launchd's job is alive, and       *)
(* nobody is about to signal itself.                                       *)
JobLives == job # None => job \in Live
SignalsOther ==
    \A p \in Pids : At(p, "signal") => proc[p].target \in Pids \ {p}
RestInv == JobLives /\ SignalsOther

(* What a step does to the processes: some die, one may be born, and one   *)
(* may go on.                                                              *)
LEMMA BornFacts ==
    /\ Born.pc = "start" /\ Born.image = disk /\ Born.target = None
    /\ Dead.pc = "dead"
  BY DEF Born, Dead

LEMMA FreshFacts ==
    ASSUME NEW q \in Pids, Fresh(q)
    PROVE  At(q, "dead")
  BY DEF Fresh, Free

LEMMA SignalsNext ==
    ASSUME TypeOK, RestInv,
           \A q \in Pids :
              \/ proc'[q] = proc[q]
              \/ proc'[q].pc # "signal"
              \/ proc'[q].target \in Pids \ {q}
    PROVE  SignalsOther'
  BY DEF RestInv, SignalsOther, At

LEMMA ConstantPids == None \notin Pids
  BY DEF Pids, None

LEMMA RestInit == Init => RestInv
  BY DEF Init, RestInv, JobLives, SignalsOther, At, Dead

LEMMA RestNext == TypeOK /\ RestInv /\ [Next]_vars => RestInv'
  <1> SUFFICES ASSUME TypeOK, RestInv, [Next]_vars PROVE RestInv'
    OBVIOUS
  <1>0. proc \in [Pids -> Process]
    BY TypeParts DEF ProcsTyped
  <1>1. CASE UserLaunch
    <2>1. PICK q \in Pids : Fresh(q) /\ proc' = [proc EXCEPT ![q] = Born]
      BY <1>1 DEF UserLaunch
    <2>2. proc'[q] = Born /\ \A r \in Pids \ {q} : proc'[r] = proc[r]
      BY <1>0, <2>1
    <2>3. SignalsOther'
      BY <2>2, BornFacts, SignalsNext
    <2>4. JobLives'
      BY <1>1, <2>2, BornFacts DEF UserLaunch, launchd, RestInv, JobLives, Live, At
    <2> QED BY <2>3, <2>4 DEF RestInv
  <1>2. CASE LaunchdStarts
    <2>1. PICK q \in Pids :
             Fresh(q) /\ job' = q /\ proc' = [proc EXCEPT ![q] = Born]
      BY <1>2 DEF LaunchdStarts
    <2>2. proc'[q] = Born /\ \A r \in Pids \ {q} : proc'[r] = proc[r]
      BY <1>0, <2>1
    <2>3. SignalsOther'
      BY <2>2, BornFacts, SignalsNext
    <2>4. JobLives'
      BY <2>1, <2>2, BornFacts DEF JobLives, Live, At
    <2> QED BY <2>3, <2>4 DEF RestInv
  <1>3. CASE Reinstall \/ UNCHANGED vars
    BY <1>3 DEF Reinstall, vars, launchd, RestInv, JobLives, SignalsOther, Live, At
  (* A process that dies gives up the job if it has it.                    *)
  <1>4. ASSUME NEW x \in Pids, NEW well \in BOOLEAN, Ends(x, well),
               proc'[x].pc = "dead",
               \A r \in Pids \ {x} :
                  proc'[r] = proc[r] \/ proc'[r].pc \in {"start", "wait"}
        PROVE  RestInv'
    <2>1. SignalsOther'
      BY <1>4, SignalsNext
    <2>2. JobLives'
      BY <1>4 DEF Ends, RestInv, JobLives, Live, At
    <2> QED BY <2>1, <2>2 DEF RestInv
  <1>5. ASSUME NEW p \in Pids, Bounce(p) PROVE RestInv'
    <2>1. \/ proc' = [proc EXCEPT ![p] = Dead]
          \/ \E q \in Pids :
                Fresh(q) /\ proc' = [proc EXCEPT ![p] = Dead, ![q] = Born]
      BY <1>5 DEF Bounce
    <2>2. Ends(p, FALSE) /\ At(p, "claim")
      BY <1>5 DEF Bounce
    <2>3. /\ proc'[p].pc = "dead"
          /\ \A r \in Pids \ {p} :
                proc'[r] = proc[r] \/ proc'[r].pc \in {"start", "wait"}
      BY <1>0, <2>1, <2>2, BornFacts, FreshFacts DEF At
    <2> QED BY <1>4, <2>2, <2>3
  <1>6. ASSUME NEW p \in Pids, Respawn(p) PROVE RestInv'
    <2>1. PICK q \in Pids :
             Fresh(q) /\ proc' = [proc EXCEPT ![p] = Dead, ![q] = Born]
      BY <1>6 DEF Respawn
    <2>2. Ends(p, TRUE) /\ At(p, "released")
      BY <1>6 DEF Respawn
    <2>3. /\ proc'[p].pc = "dead"
          /\ \A r \in Pids \ {p} :
                proc'[r] = proc[r] \/ proc'[r].pc \in {"start", "wait"}
      BY <1>0, <2>1, <2>2, BornFacts, FreshFacts DEF At
    <2> QED BY <1>4, <2>2, <2>3
  <1>7. ASSUME NEW p \in Pids, NEW well \in BOOLEAN, Ends(p, well),
               proc' = [proc EXCEPT ![p] = Dead]
        PROVE  RestInv'
    <2>1. /\ proc'[p].pc = "dead"
          /\ \A r \in Pids \ {p} :
                proc'[r] = proc[r] \/ proc'[r].pc \in {"start", "wait"}
      BY <1>0, <1>7, BornFacts
    <2> QED BY <1>4, <1>7, <2>1
  <1>8. ASSUME NEW p \in Pids, Kickstart(p) PROVE RestInv'
    <2>1. PICK q \in Pids :
             /\ Fresh(q) /\ job' = q
             /\ proc' = [proc EXCEPT ![p] = Dead, ![job] = Dead, ![q] = Born]
      BY <1>8 DEF Kickstart
    <2>2. proc'[q] = Born /\ \A r \in Pids \ {q} : proc'[r] = proc[r] \/ proc'[r] = Dead
      BY <1>0, <2>1
    <2>3. SignalsOther'
      BY <2>2, BornFacts, SignalsNext
    <2>4. JobLives'
      BY <2>1, <2>2, BornFacts DEF JobLives, Live, At
    <2> QED BY <2>3, <2>4 DEF RestInv
  (* Everyone else goes on.                                                *)
  <1>9. ASSUME NEW p \in Pids, proc'[p].pc \notin {"dead", "signal"}, job' = job,
               \A r \in Pids \ {p} : proc'[r] = proc[r]
        PROVE  RestInv'
    <2>1. SignalsOther'
      BY <1>9, SignalsNext
    <2>2. JobLives'
      BY <1>9 DEF RestInv, JobLives, Live, At
    <2> QED BY <2>1, <2>2 DEF RestInv
  <1>10. ASSUME NEW p \in Pids, NEW place, Goes(p, place),
                place \notin {"dead", "signal"}, job' = job
         PROVE  RestInv'
    <2>1. /\ proc'[p].pc = place
          /\ \A r \in Pids \ {p} : proc'[r] = proc[r]
      BY <1>0, <1>10 DEF Goes, Process
    <2> QED BY <1>9, <1>10, <2>1
  <1>11. ASSUME NEW p \in Pids, ReadPid(p) PROVE RestInv'
    <2>1. CASE GivesUp(p)
      BY <1>7, <2>1 DEF GivesUp
    <2>2. CASE ~GivesUp(p)
      <3>1. PICK pid \in Content :
               /\ pid \notin {None, p} /\ job' = job
               /\ proc' = [proc EXCEPT ![p].pc = "signal", ![p].target = pid]
        BY <1>11, <2>2 DEF ReadPid, launchd
      <3>2. pid \in Pids \ {p}
        BY <3>1 DEF Content, TypeOK
      <3>3. /\ proc'[p].pc = "signal" /\ proc'[p].target = pid
            /\ \A r \in Pids \ {p} : proc'[r] = proc[r]
        BY <1>0, <3>1 DEF Process
      <3>4. SignalsOther'
        BY <3>2, <3>3, SignalsNext
      <3>5. JobLives'
        BY <3>1, <3>3 DEF RestInv, JobLives, Live, At
      <3> QED BY <3>4, <3>5 DEF RestInv
    <2> QED BY <2>1, <2>2
  <1>12. ASSUME NEW p \in Pids, Signal(p) PROVE RestInv'
    <2>1. CASE GivesUp(p)
      BY <1>7, <2>1 DEF GivesUp
    <2>2. CASE ~GivesUp(p)
      <3>1. PICK x \in Pids \ {p} : x = proc[p].target
        BY <1>12 DEF Signal, RestInv, SignalsOther
      <3>2. /\ Ends(x, FALSE)
            /\ proc' = [proc EXCEPT ![x] = Dead, ![p].pc = "wait", ![p].target = None]
        BY <1>12, <2>2, <3>1 DEF Signal
      <3>3. /\ proc'[x].pc = "dead"
            /\ \A r \in Pids \ {x} :
                  proc'[r] = proc[r] \/ proc'[r].pc \in {"start", "wait"}
        BY <1>0, <3>1, <3>2, BornFacts DEF Process
      <3> QED BY <1>4, <3>1, <3>2, <3>3
    <2> QED BY <2>1, <2>2
  <1>13. ASSUME NEW p \in Pids, Wait(p) PROVE RestInv'
    BY <1>7, <1>10, <1>13 DEF Wait, GivesUp, Locks, launchd
  <1>14. ASSUME NEW p \in Pids,
                \/ Start(p) \/ Lock(p) \/ Record(p) \/ NoKickstart(p) \/ Release(p)
                \/ Swap(p) \/ BounceFails(p) \/ LockUnavailable(p) \/ RespawnFails(p)
         PROVE RestInv'
    <2>1. PICK place \in Places \ {"dead", "signal"} : Goes(p, place)
      BY <1>14 DEF Start, Lock, Locks, Record, NoKickstart, Release, Swap, BounceFails,
         LockUnavailable, RespawnFails, Places
    <2>2. job' = job
      BY <1>14 DEF Start, Lock, Record, NoKickstart, Release, Swap, BounceFails,
         LockUnavailable, RespawnFails, launchd
    <2> QED BY <1>10, <2>1, <2>2
  <1>15. ASSUME NEW p \in Pids, Quit(p) \/ Crash(p) PROVE RestInv'
    BY <1>7, <1>15 DEF Quit, Crash, GivesUp
  <1>16. ASSUME NEW p \in Pids, BounceUntold(p) PROVE RestInv'
    <2>1. PICK q \in Pids :
             Fresh(q) /\ proc' = [proc EXCEPT ![p] = Dead, ![q] = Born]
      BY <1>16 DEF BounceUntold
    <2>2. Ends(p, TRUE) /\ At(p, "claim")
      BY <1>16 DEF BounceUntold
    <2>3. /\ proc'[p].pc = "dead"
          /\ \A r \in Pids \ {p} :
                proc'[r] = proc[r] \/ proc'[r].pc \in {"start", "wait"}
      BY <1>0, <2>1, <2>2, BornFacts, FreshFacts DEF At
    <2> QED BY <1>4, <2>2, <2>3
  <1>17. ASSUME NEW p \in Pids, RecordFails(p) PROVE RestInv'
    <2>1. job' = job /\ proc' = [proc EXCEPT ![p].pc = "run", ![p].unnamed = TRUE]
      BY <1>17 DEF RecordFails, launchd
    <2>2. /\ proc'[p].pc = "run"
          /\ \A r \in Pids \ {p} : proc'[r] = proc[r]
      BY <1>0, <2>1 DEF Process
    <2> QED BY <1>9, <2>1, <2>2
  <1> QED BY <1>1, <1>2, <1>3, <1>5, <1>6, <1>8, <1>11, <1>12, <1>13, <1>14, <1>15, <1>16, <1>17
          DEF Next, Step

-----------------------------------------------------------------------------
(* The parts of the distance are numbers.                                  *)
LEMMA PidsFinite == IsFiniteSet(Pids)
  <1>1. 1 \in Int /\ MaxPid \in Int
    BY DaemonAssumption DEF DaemonAssumption
  <1> QED BY <1>1, FS_Interval DEF Pids

LEMMA Shrinks ==
    ASSUME NEW S, IsFiniteSet(S), NEW T \in SUBSET S
    PROVE  /\ IsFiniteSet(T) /\ Cardinality(T) \in Nat /\ Cardinality(S) \in Nat
           /\ Cardinality(T) <= Cardinality(S)
           /\ T # S => Cardinality(T) < Cardinality(S)
  <1>1. /\ IsFiniteSet(T) /\ Cardinality(T) <= Cardinality(S)
        /\ Cardinality(S) = Cardinality(T) => S = T
    BY FS_Subset
  <1>2. Cardinality(T) \in Nat /\ Cardinality(S) \in Nat
    BY <1>1, FS_CardinalityType
  <1> QED BY <1>1, <1>2

(* One dies and one is born.                                               *)
LEMMA Replaced ==
    ASSUME NEW S, IsFiniteSet(S), NEW p \in S, NEW q, q \notin S
    PROVE  Cardinality((S \ {p}) \cup {q}) = Cardinality(S)
  <1>1. IsFiniteSet(S \ {p}) /\ Cardinality(S \ {p}) = Cardinality(S) - 1
    BY FS_RemoveElement
  <1>2. Cardinality((S \ {p}) \cup {q}) = Cardinality(S \ {p}) + 1
    BY <1>1, FS_AddElement
  <1>3. Cardinality(S) \in Nat
    BY FS_CardinalityType
  <1> QED BY <1>1, <1>2, <1>3

LEMMA AheadTyped ==
    /\ Ahead["start"] = 8 /\ Ahead["claim"] = 7 /\ Ahead["lock"] = 7
    /\ Ahead["find"] = 6 /\ Ahead["takeover"] = 5 /\ Ahead["signal"] = 4
    /\ Ahead["wait"] = 3 /\ Ahead["held"] = 2 /\ Ahead["adopt"] = 2
    /\ Ahead["released"] = 1 /\ Ahead["run"] = 0 /\ Ahead["bare"] = 0
    /\ Ahead["dead"] = 0
    /\ \A place \in Places : Ahead[place] \in 0 .. 8
  BY DEF Ahead, Places

LEMMA SetsOf ==
    /\ Live \in SUBSET Pids /\ Adopting \in SUBSET Pids /\ Stale \in SUBSET Pids
    /\ Bouncing \in SUBSET Pids /\ Path \in SUBSET (Pids \X (1 .. 8))
  BY DEF Live, Adopting, Stale, Bouncing, Own, Path

LEMMA SetsFinite ==
    /\ \A S \in SUBSET Pids : IsFiniteSet(S) /\ Cardinality(S) \in Nat
    /\ \A S \in SUBSET (Pids \X (1 .. 8)) : IsFiniteSet(S) /\ Cardinality(S) \in Nat
  <1>1. IsFiniteSet(1 .. 8)
    <2>1. 1 \in Int /\ 8 \in Int
      OBVIOUS
    <2> QED BY <2>1, FS_Interval
  <1>2. IsFiniteSet(Pids \X (1 .. 8))
    BY <1>1, PidsFinite, FS_Product
  <1> QED BY <1>2, PidsFinite, Shrinks

LEMMA OneTyped == \A b \in BOOLEAN : One(b) \in 0 .. 1
  BY DEF One

LEMMA BudgetTyped == ASSUME TypeOK PROVE Budget \in Nat
  BY DaemonAssumption DEF TypeOK, DaemonAssumption, Versions, Budget

LEMMA JobAheadTyped == ASSUME TypeOK PROVE JobAhead \in Nat
  <1>1. job # None => proc[job].pc \in Places
    BY TypeParts DEF TypeOK, ProcsTyped, Process
  <1>2. job # None => Ahead[proc[job].pc] \in 0 .. 8
    BY <1>1, AheadTyped
  <1>3. One(stamp # disk) \in 0 .. 1 /\ One(Bounces(job)) \in 0 .. 1
    BY DEF One
  <1> QED BY <1>2, <1>3 DEF JobAhead

LEMMA DistanceNumbers == TypeOK => Numbers(Distance)
  <1> SUFFICES ASSUME TypeOK PROVE Numbers(Distance)
    OBVIOUS
  <1>1. Budget \in Nat /\ JobAhead \in Nat
    BY BudgetTyped, JobAheadTyped
  <1>2. /\ Cardinality(Adopting) \in Nat /\ Cardinality(Live) \in Nat
        /\ Cardinality(Stale) \in Nat /\ Cardinality(Bouncing) \in Nat
        /\ Cardinality(Path) \in Nat
    BY SetsOf, SetsFinite
  <1>3. One(relaunch) \in 0 .. 1 /\ One(stamp # disk) \in 0 .. 1
    BY DEF One
  <1>4. /\ Cardinality(Live) + One(relaunch) \in Nat
        /\ 2 * Cardinality(Stale) + One(stamp # disk) \in Nat
    BY <1>2, <1>3
  <1> QED BY <1>1, <1>2, <1>4 DEF Numbers, Distance

-----------------------------------------------------------------------------
(* A step comes nearer if one part falls and none before it rises.         *)
LEMMA NearerBy ==
    ASSUME TypeOK, TypeOK', NEW i \in 1 .. 7, Distance'[i] < Distance[i],
           \A j \in 1 .. 7 : j < i => Distance'[j] <= Distance[j]
    PROVE  Below(Distance', Distance)
  <1>1. Numbers(Distance)
    BY DistanceNumbers
  <1>2. (TypeOK => Numbers(Distance))'
    BY DistanceNumbers, PTL
  <1>3. PICK a, b : a = Distance' /\ b = Distance
    OBVIOUS
  <1> QED BY <1>1, <1>2, <1>3, Falls

LEMMA PartsNow ==
    /\ Distance[1] = Budget /\ Distance[2] = Cardinality(Adopting)
    /\ Distance[3] = Cardinality(Live) + One(relaunch)
    /\ Distance[4] = 2 * Cardinality(Stale) + One(stamp # disk)
    /\ Distance[5] = Cardinality(Bouncing) /\ Distance[6] = Cardinality(Path)
    /\ Distance[7] = JobAhead
  BY DEF Distance

LEMMA PartsNext ==
    /\ Distance'[1] = Budget' /\ Distance'[2] = Cardinality(Adopting')
    /\ Distance'[3] = Cardinality(Live') + One(relaunch')
    /\ Distance'[4] = 2 * Cardinality(Stale') + One(stamp' # disk')
    /\ Distance'[5] = Cardinality(Bouncing') /\ Distance'[6] = Cardinality(Path')
    /\ Distance'[7] = JobAhead'
  BY DEF Distance

(* The environment does something.                                         *)
LEMMA BudgetFalls ==
    ASSUME TypeOK, TypeOK', disk <= disk', launches <= launches', failures <= failures',
           disk < disk' \/ launches < launches' \/ failures < failures'
    PROVE  Below(Distance', Distance)
  <1>1. /\ disk \in Nat /\ disk' \in Nat /\ launches \in Nat /\ launches' \in Nat
        /\ failures \in Nat /\ failures' \in Nat
        /\ MaxVersion \in Nat /\ MaxLaunches \in Nat /\ MaxFailures \in Nat
    BY DaemonAssumption DEF TypeOK, DaemonAssumption, Versions
  <1>2. Budget' < Budget
    <2>1. PICK d, l, f, e, m, g :
             /\ d = disk /\ l = launches /\ f = failures
             /\ e = disk' /\ m = launches' /\ g = failures'
      OBVIOUS
    <2>2. /\ Budget = (MaxVersion - d) + (MaxLaunches - l) + (MaxFailures - f)
          /\ Budget' = (MaxVersion - e) + (MaxLaunches - m) + (MaxFailures - g)
      BY <2>1 DEF Budget
    <2>3. /\ d \in Nat /\ l \in Nat /\ f \in Nat
          /\ e \in Nat /\ m \in Nat /\ g \in Nat
          /\ d <= e /\ l <= m /\ f <= g
          /\ d < e \/ l < m \/ f < g
      BY <1>1, <2>1
    <2>4. (MaxVersion - e) + (MaxLaunches - m) + (MaxFailures - g)
             < (MaxVersion - d) + (MaxLaunches - l) + (MaxFailures - f)
      BY <1>1, <2>3
    <2> QED BY <2>2, <2>4
  <1>3. Distance'[1] < Distance[1]
    BY <1>2, PartsNow, PartsNext
  <1> QED BY <1>3, NearerBy

(* It does nothing.                                                        *)
Quiet ==
    /\ disk' = disk /\ launches' = launches /\ failures' = failures
    /\ Adopting' \in SUBSET Adopting

LEMMA QuietParts ==
    ASSUME TypeOK, Quiet
    PROVE  Distance'[1] <= Distance[1] /\ Distance'[2] <= Distance[2]
  <1>1. Budget' = Budget /\ Budget \in Nat
    BY BudgetTyped DEF Budget, Quiet
  <1>2. Cardinality(Adopting') <= Cardinality(Adopting)
    BY SetsOf, SetsFinite, Shrinks DEF Quiet
  <1> QED BY <1>1, <1>2, PartsNow, PartsNext

LEMMA AdoptingFalls ==
    ASSUME TypeOK, TypeOK', Quiet, Adopting' # Adopting
    PROVE  Below(Distance', Distance)
  <1>1. Cardinality(Adopting') < Cardinality(Adopting)
    BY SetsOf, SetsFinite, Shrinks DEF Quiet
  <1>2. Distance'[2] < Distance[2] /\ Distance'[1] <= Distance[1]
    BY <1>1, QuietParts, PartsNow, PartsNext
  <1> QED BY <1>2, NearerBy

LEMMA LiveFalls ==
    ASSUME TypeOK, TypeOK', Quiet, Live' \in SUBSET Live, Live' # Live,
           relaunch' = relaunch
    PROVE  Below(Distance', Distance)
  <1>1. /\ Cardinality(Live') < Cardinality(Live)
        /\ Cardinality(Live') \in Nat /\ Cardinality(Live) \in Nat
    BY SetsOf, SetsFinite, Shrinks
  <1>2. One(relaunch') = One(relaunch) /\ One(relaunch) \in 0 .. 1
    BY DEF One
  <1>3. Distance'[3] < Distance[3]
    BY <1>1, <1>2, PartsNow, PartsNext
  <1> QED BY <1>3, QuietParts, NearerBy

(* No more processes, or that launchd will start, than before.             *)
Peopled ==
    \/ Live' = Live /\ relaunch' = relaunch
    \/ \E p \in Live, q \in Pids \ Live :
          Live' = (Live \ {p}) \cup {q} /\ relaunch' = relaunch
    \/ \E p \in Live : Live' = Live \ {p} /\ ~relaunch /\ relaunch'
    \/ \E q \in Pids \ Live : Live' = Live \cup {q} /\ relaunch /\ ~relaunch'

LEMMA PeopledParts ==
    ASSUME TypeOK, Quiet, Peopled
    PROVE  Distance'[3] <= Distance[3]
  <1>0. IsFiniteSet(Live) /\ Cardinality(Live) \in Nat
    BY SetsOf, SetsFinite
  <1>1. PICK n, m, a, b : /\ n = Cardinality(Live) /\ m = Cardinality(Live')
                          /\ a = One(relaunch) /\ b = One(relaunch')
    OBVIOUS
  <1>2. \/ m = n /\ b = a
        \/ m = n - 1 /\ a = 0 /\ b = 1
        \/ m = n + 1 /\ a = 1 /\ b = 0
    <2>1. CASE Live' = Live /\ relaunch' = relaunch
      BY <1>1, <2>1
    <2>2. ASSUME NEW p \in Live, NEW q \in Pids \ Live,
                 Live' = (Live \ {p}) \cup {q}, relaunch' = relaunch
          PROVE  m = n /\ b = a
      BY <1>0, <1>1, <2>2, Replaced
    <2>3. ASSUME NEW p \in Live, Live' = Live \ {p}, ~relaunch, relaunch'
          PROVE  m = n - 1 /\ a = 0 /\ b = 1
      <3>1. m = n - 1
        BY <1>0, <1>1, <2>3, FS_RemoveElement
      <3> QED BY <1>1, <2>3, <3>1 DEF One
    <2>4. ASSUME NEW q \in Pids \ Live, Live' = Live \cup {q}, relaunch, ~relaunch'
          PROVE  m = n + 1 /\ a = 1 /\ b = 0
      <3>1. m = n + 1
        BY <1>0, <1>1, <2>4, FS_AddElement
      <3> QED BY <1>1, <2>4, <3>1 DEF One
    <2> QED BY <2>1, <2>2, <2>3, <2>4 DEF Peopled
  <1>3. n \in Nat /\ a \in 0 .. 1
    BY <1>0, <1>1 DEF One
  <1>4. m + b <= n + a
    BY <1>2, <1>3
  <1> QED BY <1>1, <1>4, PartsNow, PartsNext

LEMMA StaleFalls ==
    ASSUME TypeOK, TypeOK', Quiet, Peopled,
           \/ Stale' \in SUBSET Stale /\ Stale' # Stale
           \/ Stale' \in SUBSET Stale /\ stamp # disk /\ stamp' = disk'
    PROVE  Below(Distance', Distance)
  <1>1. PICK n, m, a, b : /\ n = Cardinality(Stale) /\ m = Cardinality(Stale')
                          /\ a = One(stamp # disk) /\ b = One(stamp' # disk')
    OBVIOUS
  <1>2. /\ m \in Nat /\ n \in Nat /\ m <= n
        /\ Stale' # Stale => m < n
    BY <1>1, SetsOf, SetsFinite, Shrinks
  <1>3. /\ a \in 0 .. 1 /\ b \in 0 .. 1
        /\ stamp # disk => a = 1
        /\ stamp' = disk' => b = 0
    BY <1>1 DEF One
  <1>4. 2 * m + b < 2 * n + a
    <2>1. CASE Stale' # Stale
      BY <1>2, <1>3, <2>1
    <2>2. CASE stamp # disk /\ stamp' = disk'
      BY <1>2, <1>3, <2>2
    <2> QED BY <2>1, <2>2
  <1>5. Distance'[4] < Distance[4]
    BY <1>1, <1>4, PartsNow, PartsNext
  <1>6. \A j \in 1 .. 7 : j < 4 => Distance'[j] <= Distance[j]
    BY QuietParts, PeopledParts
  <1> QED BY <1>5, <1>6, NearerBy

(* Nothing changes in the versions, and the processes of launchd and of    *)
(* others go on.                                                           *)
Settled ==
    /\ Quiet /\ Peopled /\ stamp' = stamp
    /\ Stale' \in SUBSET Stale /\ Bouncing' \in SUBSET Bouncing

LEMMA SettledParts ==
    ASSUME TypeOK, Settled
    PROVE  \A j \in 1 .. 7 : j < 6 => Distance'[j] <= Distance[j]
  <1>1. Distance'[4] <= Distance[4]
    <2>1. PICK n, m, a : /\ n = Cardinality(Stale) /\ m = Cardinality(Stale')
                         /\ a = One(stamp # disk) /\ a = One(stamp' # disk')
      BY DEF Settled, Quiet
    <2>2. m \in Nat /\ n \in Nat /\ m <= n
      BY <2>1, SetsOf, SetsFinite, Shrinks DEF Settled
    <2>3. a \in 0 .. 1
      BY <2>1 DEF One
    <2>4. 2 * m + a <= 2 * n + a
      BY <2>2, <2>3
    <2> QED BY <2>1, <2>4, PartsNow, PartsNext
  <1>2. Distance'[5] <= Distance[5]
    <2>1. Cardinality(Bouncing') <= Cardinality(Bouncing)
      BY SetsOf, SetsFinite, Shrinks DEF Settled
    <2> QED BY <2>1, PartsNow, PartsNext
  <1>3. /\ Distance'[1] <= Distance[1] /\ Distance'[2] <= Distance[2]
        /\ Distance'[3] <= Distance[3]
    BY QuietParts, PeopledParts DEF Settled
  <1> QED BY <1>1, <1>2, <1>3

LEMMA BouncingFalls ==
    ASSUME TypeOK, TypeOK', Settled, Bouncing' # Bouncing
    PROVE  Below(Distance', Distance)
  <1>1. Cardinality(Bouncing') < Cardinality(Bouncing)
    BY SetsOf, SetsFinite, Shrinks DEF Settled
  <1>2. Distance'[5] < Distance[5]
    BY <1>1, PartsNow, PartsNext
  <1> QED BY <1>2, SettledParts, NearerBy

LEMMA PathFalls ==
    ASSUME TypeOK, TypeOK', Settled, Path' \in SUBSET Path, Path' # Path
    PROVE  Below(Distance', Distance)
  <1>1. Cardinality(Path') < Cardinality(Path)
    BY SetsOf, SetsFinite, Shrinks
  <1>2. Distance'[6] < Distance[6]
    BY <1>1, PartsNow, PartsNext
  <1> QED BY <1>2, SettledParts, NearerBy

LEMMA JobFalls ==
    ASSUME TypeOK, TypeOK', Settled, Path' \in SUBSET Path, JobAhead' < JobAhead
    PROVE  Below(Distance', Distance)
  <1>1. Cardinality(Path') <= Cardinality(Path)
    BY SetsOf, SetsFinite, Shrinks
  <1>2. Distance'[6] <= Distance[6] /\ Distance'[7] < Distance[7]
    BY <1>1, PartsNow, PartsNext
  <1>3. \A j \in 1 .. 7 : j < 7 => Distance'[j] <= Distance[j]
    BY <1>2, SettledParts
  <1> QED BY <1>2, <1>3, NearerBy

-----------------------------------------------------------------------------
(* A process goes on: it has less ahead of it.                             *)
LEMMA GoesOnNearer ==
    ASSUME TypeOK, RestInv, TypeOK', NEW p \in Pids, NEW place \in Places \ {"dead", "start"},
           ~At(p, "dead"), Ahead[place] < Ahead[proc[p].pc],
           place \in {"adopt", "released"} => proc[p].pc \in {"adopt", "released"},
           place = "claim" => Bounces(p),
           proc'[p].pc = place, proc'[p].image = proc[p].image,
           \A q \in Pids \ {p} : proc'[q] = proc[q],
           UNCHANGED <<stamp, disk, launchd, launches, failures>>
    PROVE  Below(Distance', Distance)
  <1>1. Live' = Live /\ Own' = Own /\ Stale' = Stale
    BY DEF Live, Own, Stale, At, launchd
  <1>2. Quiet /\ Peopled
    BY <1>1 DEF Quiet, Peopled, Adopting, launchd
  <1>3. \A q \in Pids : Bounces(q)' => Bounces(q)
    BY DEF Bounces, At
  <1>4. Settled
    BY <1>1, <1>2 DEF Settled, Bouncing, Bounces, At, Own, Live
  <1>5. Ahead[place] \in 0 .. 8 /\ Ahead[proc[p].pc] \in 0 .. 8
    <2>1. proc[p].pc \in Places
      BY DEF TypeOK, Places
    <2> QED BY <2>1, AheadTyped
  <1>6. Path' \in SUBSET Path
    BY <1>1, <1>5 DEF Path, Own, Live
  <1>7. CASE p # job
    <2>1. <<p, Ahead[proc[p].pc]>> \in Path
      BY <1>5, <1>7 DEF Path, Own, Live
    <2>2. <<p, Ahead[proc[p].pc]>> \notin Path'
      BY <1>5 DEF Path
    <2> QED BY <1>4, <1>6, <2>1, <2>2, PathFalls
  <1>8. CASE p = job
    <2>1. ~relaunch /\ ~relaunch' /\ job # None /\ job' = job
      BY <1>8, ConstantPids DEF TypeOK, launchd
    <2>2. PICK a, b : a = One(Bounces(job)) /\ b = One(Bounces(job))'
      OBVIOUS
    <2>3. a \in 0 .. 1 /\ b \in 0 .. 1 /\ b <= a
      BY <1>3, <1>8, <2>1, <2>2 DEF One
    <2>4. JobAhead = Ahead[proc[p].pc] + 10 * a
      BY <1>8, <2>1, <2>2 DEF JobAhead
    <2>5. JobAhead' = Ahead[place] + 10 * b
      BY <1>8, <2>1, <2>2 DEF JobAhead
    <2>6. Ahead[place] + 10 * b < Ahead[proc[p].pc] + 10 * a
      BY <1>5, <2>3
    <2> QED BY <1>4, <1>6, <2>4, <2>5, <2>6, JobFalls
  <1> QED BY <1>7, <1>8

LEMMA MovesNearer ==
    ASSUME TypeOK, RestInv, TypeOK', NEW p \in Pids,
           \/ Start(p) \/ Lock(p) \/ Record(p) \/ Release(p)
           \/ NoKickstart(p) /\ UNCHANGED failures
           \/ Wait(p) /\ ~GivesUp(p)
    PROVE  Below(Distance', Distance)
  <1>0. proc \in [Pids -> Process]
    BY TypeParts DEF ProcsTyped
  <1>1. UNCHANGED <<stamp, disk, launchd, launches, failures>>
    BY DEF Start, Lock, Record, Release, NoKickstart, Wait, counters
  <1>2. PICK place \in Places \ {"dead", "start"} :
           /\ Goes(p, place) /\ ~At(p, "dead") /\ Ahead[place] < Ahead[proc[p].pc]
           /\ place \in {"adopt", "released"} => proc[p].pc \in {"adopt", "released"}
           /\ place = "claim" => Bounces(p)
    <2>1. CASE Start(p)
      BY <2>1, AheadTyped DEF Start, At, Places, Bounces
    <2>2. CASE Lock(p)
      BY <2>2, AheadTyped DEF Lock, Locks, At, Places
    <2>3. CASE Record(p)
      BY <2>3, AheadTyped DEF Record, At, Places
    <2>4. CASE Release(p)
      BY <2>4, AheadTyped DEF Release, At, Places
    <2>5. CASE NoKickstart(p)
      BY <2>5, AheadTyped DEF NoKickstart, At, Places
    <2>6. CASE Wait(p) /\ ~GivesUp(p)
      BY <2>6, AheadTyped DEF Wait, Locks, At, Places
    <2> QED BY <2>1, <2>2, <2>3, <2>4, <2>5, <2>6
  <1>3. /\ proc'[p].pc = place /\ proc'[p].image = proc[p].image
        /\ \A q \in Pids \ {p} : proc'[q] = proc[q]
    BY <1>0, <1>2 DEF Goes, Process
  <1> QED BY <1>1, <1>2, <1>3, GoesOnNearer

(* One process gives up.                                                   *)
LEMMA GivesUpNearer ==
    ASSUME TypeOK, RestInv, TypeOK', NEW p \in Pids, ~At(p, "dead"), GivesUp(p),
           UNCHANGED <<disk, launches, failures>>
    PROVE  Below(Distance', Distance)
  <1>1. /\ proc'[p].pc = "dead"
        /\ \A q \in Pids \ {p} : proc'[q] = proc[q]
    BY BornFacts DEF GivesUp, TypeOK
  <1>2. Live' = Live \ {p} /\ p \in Live /\ Quiet
    BY <1>1 DEF Live, At, Quiet, Adopting
  <1>3. relaunch' = relaunch
    BY DEF GivesUp, Ends, TypeOK
  <1> QED BY <1>2, <1>3, LiveFalls

LEMMA ReadPidNearer ==
    ASSUME TypeOK, RestInv, TypeOK', NEW p \in Pids, ReadPid(p)
    PROVE  Below(Distance', Distance)
  <1>0. proc \in [Pids -> Process]
    BY TypeParts DEF ProcsTyped
  <1>1. CASE GivesUp(p)
    BY <1>1, GivesUpNearer DEF ReadPid, At, counters
  <1>2. CASE ~GivesUp(p)
    <2>1. PICK pid :
             /\ proc' = [proc EXCEPT ![p].pc = "signal", ![p].target = pid]
             /\ UNCHANGED launchd
      BY <1>2 DEF ReadPid
    <2>2. /\ proc'[p].pc = "signal" /\ proc'[p].image = proc[p].image
          /\ \A q \in Pids \ {p} : proc'[q] = proc[q]
      BY <1>0, <2>1 DEF Process
    <2>3. /\ UNCHANGED <<stamp, disk, launchd, launches, failures>>
          /\ At(p, "takeover")
      BY <2>1 DEF ReadPid, counters
    <2>4. /\ "signal" \in Places \ {"dead", "start"}
          /\ Ahead["signal"] < Ahead[proc[p].pc] /\ ~At(p, "dead")
      BY <2>3, AheadTyped DEF Places, At
    <2> QED BY <2>2, <2>3, <2>4, GoesOnNearer
  <1> QED BY <1>1, <1>2

(* The incumbent is killed.  If it is launchd's job that will be started   *)
(* again; but who killed it waits now for the lock.                        *)
LEMMA SignalNearer ==
    ASSUME TypeOK, RestInv, TypeOK', NEW p \in Pids, Signal(p)
    PROVE  Below(Distance', Distance)
  <1>0. proc \in [Pids -> Process]
    BY TypeParts DEF ProcsTyped
  <1>1. CASE GivesUp(p)
    BY <1>1, GivesUpNearer DEF Signal, At, counters
  <1>2. CASE ~GivesUp(p)
    <2>1. PICK x \in Pids \ {p} : x = proc[p].target
      BY DEF Signal, RestInv, SignalsOther
    <2>2. /\ Ends(x, FALSE) /\ ~At(x, "dead") /\ At(p, "signal")
          /\ proc' = [proc EXCEPT ![x] = Dead, ![p].pc = "wait", ![p].target = None]
          /\ UNCHANGED <<stamp, disk, launches, failures>>
      BY <1>2, <2>1 DEF Signal, counters
    <2>3. /\ proc'[x].pc = "dead" /\ proc'[p].pc = "wait"
          /\ proc'[p].image = proc[p].image
          /\ \A q \in Pids \ {p, x} : proc'[q] = proc[q]
      BY <1>0, <2>1, <2>2, BornFacts DEF Process
    <2>4. /\ Live' = Live \ {x} /\ x \in Live /\ p \in Live /\ Quiet
          /\ Stale' \in SUBSET Stale
      BY <2>2, <2>3 DEF Live, At, Quiet, Adopting, Stale
    <2>5. CASE x # job
      <3>1. relaunch' = relaunch
        BY <2>2, <2>5 DEF Ends, TypeOK
      <3> QED BY <2>4, <3>1, LiveFalls
    <2>6. CASE x = job
      <3>1. ~relaunch /\ relaunch' /\ job' = None
        BY <2>2, <2>6, ConstantPids DEF Ends, TypeOK
      <3>2. Peopled
        BY <2>4, <3>1 DEF Peopled
      <3>3. Own' = Own /\ p \in Own
        BY <2>1, <2>4, <2>6, <3>1, ConstantPids DEF Own, Live
      <3>4. Bouncing' \in SUBSET Bouncing
        BY <2>2, <2>3, <2>6, <3>3 DEF Bouncing, Bounces, At, Own, Live
      <3>5. Settled
        BY <2>2, <2>4, <3>2, <3>4 DEF Settled
      <3>6. \A q \in Own : Ahead[proc'[q].pc] <= Ahead[proc[q].pc]
        <4>1. ASSUME NEW q \in Own PROVE Ahead[proc'[q].pc] <= Ahead[proc[q].pc]
          <5>1. q \in Pids /\ q # x /\ proc[q].pc \in Places
            BY <2>6 DEF Own, Live, TypeOK, Places
          <5>2. CASE q = p
            BY <2>2, <2>3, <5>2, AheadTyped DEF At
          <5>3. CASE q # p
            BY <2>3, <5>1, <5>3, AheadTyped
          <5> QED BY <5>2, <5>3
        <4> QED BY <4>1
      <3>7. \A q \in Own : /\ Ahead[proc[q].pc] \in 0 .. 8
                            /\ Ahead[proc'[q].pc] \in 0 .. 8
        BY AheadTyped DEF Own, Live, TypeOK, Places
      <3>8. Path' \in SUBSET Path
        BY <3>3, <3>6, <3>7 DEF Path
      <3>9. <<p, 4>> \in Path /\ <<p, 4>> \notin Path'
        <4>1. Ahead[proc[p].pc] = 4 /\ Ahead[proc'[p].pc] = 3
          BY <2>2, <2>3, AheadTyped DEF At
        <4>2. <<p, 4>> \in Own \X (1 .. 8)
          BY <3>3
        <4> QED BY <4>1, <4>2 DEF Path
      <3> QED BY <3>5, <3>8, <3>9, PathFalls
    <2> QED BY <2>5, <2>6
  <1> QED BY <1>1, <1>2

(* Two die and one is born.                                                *)
LEMMA KickstartNearer ==
    ASSUME TypeOK, RestInv, TypeOK', NEW p \in Pids, Kickstart(p)
    PROVE  Below(Distance', Distance)
  <1>0. proc \in [Pids -> Process]
    BY TypeParts DEF ProcsTyped
  <1>1. PICK q \in Pids :
           /\ Fresh(q)
           /\ proc' = [proc EXCEPT ![p] = Dead, ![job] = Dead, ![q] = Born]
    BY DEF Kickstart
  <1>2. /\ At(p, "find") /\ job \in Live /\ job # p /\ At(q, "dead")
        /\ UNCHANGED <<relaunch, disk, launches, failures>>
    BY <1>1, FreshFacts DEF Kickstart, Kicks, RestInv, JobLives, counters
  <1>3. /\ proc'[q].pc = "start" /\ proc'[p].pc = "dead" /\ proc'[job].pc = "dead"
        /\ \A r \in Pids \ {p, job, q} : proc'[r] = proc[r]
    BY <1>0, <1>1, <1>2, BornFacts DEF At, Live
  <1>4. Live' = ((Live \ {p}) \ {job}) \cup {q} /\ p \in Live /\ q \notin Live /\ Quiet
    BY <1>2, <1>3 DEF Live, At, Quiet, Adopting
  <1>5. IsFiniteSet(Live) /\ Cardinality(Live) \in Nat
    BY SetsOf, SetsFinite
  <1>6. /\ IsFiniteSet(Live \ {p})
        /\ Cardinality(((Live \ {p}) \ {job}) \cup {q}) = Cardinality(Live \ {p})
    <2>1. IsFiniteSet(Live \ {p})
      BY <1>5, FS_RemoveElement
    <2> QED BY <1>2, <1>4, <2>1, Replaced
  <1>7. Cardinality(Live \ {p}) = Cardinality(Live) - 1
    BY <1>4, <1>5, FS_RemoveElement
  <1>8. PICK n, a : n = Cardinality(Live) /\ a = One(relaunch)
    OBVIOUS
  <1>9. n \in Nat /\ a \in 0 .. 1
    BY <1>5, <1>8 DEF One
  <1>10. Distance'[3] = n - 1 + a /\ Distance[3] = n + a
    BY <1>2, <1>4, <1>6, <1>7, <1>8, PartsNow, PartsNext
  <1>11. Distance'[3] < Distance[3]
    BY <1>9, <1>10
  <1> QED BY <1>4, <1>11, QuietParts, NearerBy

LEMMA RespawnNearer ==
    ASSUME TypeOK, RestInv, TypeOK', NEW p \in Pids, Respawn(p)
    PROVE  Below(Distance', Distance)
  <1>0. proc \in [Pids -> Process]
    BY TypeParts DEF ProcsTyped
  <1>1. PICK q \in Pids :
           Fresh(q) /\ proc' = [proc EXCEPT ![p] = Dead, ![q] = Born]
    BY DEF Respawn
  <1>2. At(p, "released") /\ At(q, "dead") /\ UNCHANGED <<disk, launches, failures>>
    BY <1>1, FreshFacts DEF Respawn, counters
  <1>3. /\ proc'[q].pc = "start" /\ proc'[p].pc = "dead"
        /\ \A r \in Pids \ {p, q} : proc'[r] = proc[r]
    BY <1>0, <1>1, <1>2, BornFacts DEF At
  <1>4. Quiet /\ p \in Adopting /\ p \notin Adopting'
    BY <1>2, <1>3 DEF Quiet, Adopting, At
  <1> QED BY <1>4, AdoptingFalls

(* launchd starts what it was going to.                                    *)
LEMMA LaunchdStartsNearer ==
    ASSUME TypeOK, RestInv, TypeOK', LaunchdStarts
    PROVE  Below(Distance', Distance)
  <1>0. proc \in [Pids -> Process]
    BY TypeParts DEF ProcsTyped
  <1>1. PICK q \in Pids :
           Fresh(q) /\ job' = q /\ proc' = [proc EXCEPT ![q] = Born]
    BY DEF LaunchdStarts
  <1>2. /\ At(q, "dead") /\ relaunch /\ ~relaunch' /\ job = None /\ q # None
        /\ UNCHANGED <<stamp, disk, launches, failures>>
    BY <1>1, FreshFacts, ConstantPids DEF LaunchdStarts, TypeOK, counters
  <1>3. /\ proc'[q].pc = "start" /\ proc'[q].image = disk
        /\ \A r \in Pids \ {q} : proc'[r] = proc[r]
    BY <1>0, <1>1, BornFacts
  <1>4. /\ Live' = Live \cup {q} /\ q \notin Live /\ Quiet
        /\ Stale' \in SUBSET Stale
    BY <1>2, <1>3 DEF Live, At, Quiet, Adopting, Stale
  <1>5. Peopled
    BY <1>2, <1>4 DEF Peopled
  <1>6. Own' = Own
    BY <1>1, <1>2, <1>4, ConstantPids DEF Own, Live
  <1>7. Bouncing' \in SUBSET Bouncing
    <2>1. \A r \in Own : r \in Pids \ {q}
      BY <1>4 DEF Own, Live
    <2> QED BY <1>2, <1>3, <1>6, <2>1 DEF Bouncing, Bounces, At
  <1>8. Settled
    BY <1>2, <1>4, <1>5, <1>7 DEF Settled
  <1>9. Path' \in SUBSET Path
    BY <1>3, <1>4, <1>6 DEF Path, Own, Live
  <1>10. PICK a : a = One(stamp # disk)
    OBVIOUS
  <1>11. JobAhead = 9 + 10 * a /\ a \in 0 .. 1
    BY <1>2, <1>10 DEF JobAhead, One
  <1>12. Bounces(job)' <=> stamp # disk
    BY <1>1, <1>2, <1>3 DEF Bounces, At
  <1>13. One(Bounces(job)') = a
    BY <1>10, <1>12 DEF One
  <1>14. JobAhead' = 8 + 10 * a
    BY <1>1, <1>2, <1>3, <1>13, AheadTyped DEF JobAhead
  <1> QED BY <1>8, <1>9, <1>11, <1>14, JobFalls

(* A bounce: after it a process of an older version is gone, or the stamp  *)
(* is of the version on disk, or both were so already and what is born     *)
(* will not bounce.                                                        *)
LEMMA BounceNearer ==
    ASSUME TypeOK, RestInv, TypeOK', NEW p \in Pids, Bounce(p)
    PROVE  Below(Distance', Distance)
  <1>0. proc \in [Pids -> Process]
    BY TypeParts DEF ProcsTyped
  <1>1. /\ At(p, "claim") /\ stamp' = proc[p].image /\ Ends(p, FALSE)
        /\ UNCHANGED <<disk, launches, failures>>
    BY DEF Bounce, Stamps, counters
  <1>2. p \in Live
    BY <1>1 DEF Live, At
  (* Whichever of the two starts the new process: what the others see.     *)
  <1>3. ASSUME Quiet, Peopled, Stale' \in SUBSET Stale, p \notin Live',
               stamp = disk /\ proc[p].image = disk => Below(Distance', Distance)
        PROVE  Below(Distance', Distance)
    <2>1. CASE proc[p].image # disk
      <3>1. p \in Stale /\ p \notin Stale'
        BY <1>2, <1>3, <2>1 DEF Stale
      <3> QED BY <1>3, <3>1, StaleFalls
    <2>2. CASE proc[p].image = disk /\ stamp # disk
      BY <1>1, <1>3, <2>2, StaleFalls
    <2> QED BY <1>3, <2>1, <2>2
  <1>4. CASE p = job
    <2>1. proc' = [proc EXCEPT ![p] = Dead]
      BY <1>4 DEF Bounce
    <2>2. /\ job # None /\ job' = None /\ ~relaunch /\ relaunch'
      BY <1>1, <1>4, ConstantPids DEF Ends, TypeOK
    <2>3. /\ proc'[p].pc = "dead" /\ \A r \in Pids \ {p} : proc'[r] = proc[r]
      BY <1>0, <2>1, BornFacts
    <2>4. Live' = Live \ {p} /\ Quiet /\ Stale' \in SUBSET Stale
      BY <1>1, <2>3 DEF Live, At, Quiet, Adopting, Stale
    <2>5. Peopled
      BY <1>2, <2>2, <2>4 DEF Peopled
    <2>6. ASSUME stamp = disk, proc[p].image = disk PROVE Below(Distance', Distance)
      <3>1. Own' = Own /\ stamp' = stamp
        BY <1>1, <1>4, <2>2, <2>4, <2>6, ConstantPids DEF Own, Live
      <3>2. \A r \in Own : r \in Pids \ {p}
        BY <1>4 DEF Own, Live
      <3>3. Bouncing' \in SUBSET Bouncing /\ Path' \in SUBSET Path
        BY <2>3, <3>1, <3>2 DEF Bouncing, Bounces, At, Path
      <3>4. Settled
        BY <2>4, <2>5, <3>1, <3>3 DEF Settled
      <3>5. stamp' = disk'
        BY <1>1, <2>6
      <3>6. JobAhead' = 9
        BY <2>2, <3>5 DEF JobAhead, One
      <3>7. Bounces(job) /\ Ahead[proc[job].pc] = 7
        BY <1>1, <1>4, AheadTyped DEF Bounces, At
      <3>8. JobAhead = 17
        BY <2>2, <3>7 DEF JobAhead, One
      <3> QED BY <3>3, <3>4, <3>6, <3>8, JobFalls
    <2> QED BY <1>3, <2>3, <2>4, <2>5, <2>6 DEF Live
  <1>5. CASE p # job
    <2>1. PICK q \in Pids :
             Fresh(q) /\ proc' = [proc EXCEPT ![p] = Dead, ![q] = Born]
      BY <1>5 DEF Bounce
    <2>2. At(q, "dead") /\ job' = job /\ relaunch' = relaunch
      BY <1>1, <1>5, <2>1, FreshFacts DEF Ends, TypeOK
    <2>3. /\ proc'[q].pc = "start" /\ proc'[q].image = disk /\ proc'[p].pc = "dead"
          /\ \A r \in Pids \ {p, q} : proc'[r] = proc[r]
      BY <1>0, <1>1, <2>1, <2>2, BornFacts DEF At
    <2>4. /\ Live' = (Live \ {p}) \cup {q} /\ q \in Pids \ Live /\ Quiet
          /\ Stale' \in SUBSET Stale
      BY <1>1, <2>2, <2>3 DEF Live, At, Quiet, Adopting, Stale
    <2>5. Peopled
      BY <1>2, <2>2, <2>4 DEF Peopled
    <2>6. ASSUME stamp = disk, proc[p].image = disk PROVE Below(Distance', Distance)
      <3>1. stamp' = stamp
        BY <1>1, <2>6
      <3>2. Bouncing' \in SUBSET Bouncing
        BY <1>1, <2>2, <2>3, <2>4, <2>6, <3>1 DEF Bouncing, Bounces, At, Own, Live
      <3>3. p \in Bouncing /\ p \notin Bouncing'
        BY <1>1, <1>2, <1>5, <2>3 DEF Bouncing, Bounces, At, Own, Live
      <3>4. Settled
        BY <2>4, <2>5, <3>1, <3>2 DEF Settled
      <3> QED BY <3>3, <3>4, BouncingFalls
    <2> QED BY <1>2, <1>3, <2>2, <2>4, <2>5, <2>6 DEF Live
  <1> QED BY <1>4, <1>5

(* What the environment does, and what fails, uses up some of it.          *)
LEMMA EnvironmentNearer ==
    ASSUME TypeOK, TypeOK',
           \/ UserLaunch \/ Reinstall
           \/ \E p \in Pids :
                 \/ Swap(p) \/ BounceUntold(p) \/ BounceFails(p) \/ LockUnavailable(p)
                 \/ RecordFails(p) \/ RespawnFails(p)
                 \/ Quit(p) \/ Crash(p) \/ (NoKickstart(p) /\ Failure)
    PROVE  Below(Distance', Distance)
  <1>0. disk \in Nat /\ launches \in Nat /\ failures \in Nat
    BY DaemonAssumption DEF TypeOK, DaemonAssumption, Versions
  <1>1. CASE UserLaunch
    <2>1. disk' = disk /\ failures' = failures /\ launches' = launches + 1
      BY <1>1 DEF UserLaunch
    <2> QED BY <1>0, <2>1, BudgetFalls
  <1>2. CASE Reinstall \/ \E p \in Pids : Swap(p)
    <2>1. disk' = disk + 1 /\ failures' = failures /\ launches' = launches
      BY <1>2 DEF Reinstall, Swap, counters
    <2> QED BY <1>0, <2>1, BudgetFalls
  <1>3. CASE \E p \in Pids :
                \/ BounceUntold(p) \/ BounceFails(p) \/ LockUnavailable(p)
                \/ RecordFails(p) \/ RespawnFails(p)
                \/ Quit(p) \/ Crash(p) \/ (NoKickstart(p) /\ Failure)
    <2>1. disk' = disk /\ failures' = failures + 1 /\ launches' = launches
      BY <1>3 DEF BounceUntold, BounceFails, LockUnavailable, RecordFails, RespawnFails, Quit,
         Crash, NoKickstart, Failure
    <2> QED BY <1>0, <2>1, BudgetFalls
  <1> QED BY <1>1, <1>2, <1>3

LEMMA StepsNearer ==
    ASSUME TypeOK, RestInv, TypeOK', Next
    PROVE  Below(Distance', Distance)
  <1>1. CASE LaunchdStarts
    BY <1>1, LaunchdStartsNearer
  <1>2. CASE UserLaunch \/ Reinstall
    BY <1>2, EnvironmentNearer
  <1>3. ASSUME NEW p \in Pids, Step(p) PROVE Below(Distance', Distance)
    <2>1. CASE \/ Start(p) \/ Lock(p) \/ Record(p) \/ Release(p)
               \/ NoKickstart(p) /\ UNCHANGED failures
               \/ Wait(p) /\ ~GivesUp(p)
      BY <2>1, MovesNearer
    <2>2. CASE NoKickstart(p) /\ Failure
      BY <2>2, EnvironmentNearer
    <2>3. CASE Wait(p) /\ GivesUp(p)
      BY <2>3, GivesUpNearer DEF Wait, At, counters
    <2>4. CASE Bounce(p) \/ Kickstart(p) \/ ReadPid(p) \/ Signal(p) \/ Respawn(p)
      BY <2>4, BounceNearer, KickstartNearer, ReadPidNearer, SignalNearer, RespawnNearer
    <2> QED BY <1>3, <2>1, <2>2, <2>3, <2>4 DEF Step, NoKickstart
  <1>4. ASSUME NEW p \in Pids,
               \/ Swap(p) \/ BounceUntold(p) \/ BounceFails(p) \/ LockUnavailable(p)
               \/ RecordFails(p) \/ RespawnFails(p)
               \/ Quit(p) \/ Crash(p)
        PROVE  Below(Distance', Distance)
    BY <1>4, EnvironmentNearer
  <1> QED BY <1>1, <1>2, <1>3, <1>4 DEF Next

(* Whatever is launched, relaunched, taken over, updated, and whichever    *)
(* calls fail, every step comes nearer to rest: with BelowEnds, the part   *)
(* of ComesToRest that needs no fairness.                                  *)
THEOREM NearsRestAlways == Spec => NearsRest
  <1>1. TypeOK /\ RestInv /\ TypeOK' /\ [Next]_vars => [Below(Distance', Distance)]_vars
    BY StepsNearer
  <1> QED BY <1>1, RestInit, RestNext, TypeCorrect, PTL DEF Spec, NearsRest

=============================================================================
