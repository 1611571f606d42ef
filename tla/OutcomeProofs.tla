---------------------------- MODULE OutcomeProofs ----------------------------
(***************************************************************************)
(* What the outcome of a run rests on, for every number of sites, runs,    *)
(* worker deaths and outside events of ExtensionRun.tla: a run that        *)
(* completed is stamped, its tabs are closed by somebody, and a site that  *)
(* counts as done was reported by its own scan.                            *)
(***************************************************************************)
EXTENDS ExtensionRunProofs

-----------------------------------------------------------------------------
(* The chain as a set.                                                     *)
Chain == {queue[n] : n \in 1 .. Len(queue)}

LEMMA ChainAfterAppend ==
    ASSUME IInv, NEW us \in Seq(ProperUpdate), queue' = queue \o us
    PROVE  Chain' = Chain \cup {us[n] : n \in 1 .. Len(us)}
  <1>1. queue \in Seq(ProperUpdate)
    BY DEF IInv, Addressed
  <1>2. Len(queue \o us) = Len(queue) + Len(us)
    BY <1>1
  <1>3. \A n \in 1 .. Len(queue) + Len(us) :
           (queue \o us)[n] = IF n <= Len(queue) THEN queue[n]
                              ELSE us[n - Len(queue)]
    BY <1>1
  <1>4. Chain' \subseteq Chain \cup {us[n] : n \in 1 .. Len(us)}
    <2> SUFFICES ASSUME NEW n \in 1 .. Len(queue) + Len(us)
                 PROVE  \/ \E m \in 1 .. Len(queue) : (queue \o us)[n] = queue[m]
                        \/ \E m \in 1 .. Len(us) : (queue \o us)[n] = us[m]
      BY <1>2 DEF Chain
    <2>1. CASE n <= Len(queue)
      BY <1>1, <1>3, <2>1
    <2>2. CASE n > Len(queue)
      <3>1. n - Len(queue) \in 1 .. Len(us)
        BY <1>1, <2>2
      <3> QED BY <1>1, <1>3, <2>2, <3>1
    <2> QED BY <1>1, <2>1, <2>2
  <1>5. Chain \subseteq Chain'
    BY <1>1, <1>2, <1>3 DEF Chain
  <1>6. ASSUME NEW m \in 1 .. Len(us) PROVE us[m] \in Chain'
    <2>1. /\ Len(queue) + m \in 1 .. Len(queue')
          /\ queue'[Len(queue) + m] = us[m]
      BY <1>1, <1>2, <1>3
    <2> QED BY <2>1 DEF Chain
  <1> QED BY <1>4, <1>5, <1>6

LEMMA ChainGrowsBy ==
    ASSUME IInv, NEW us \in Seq(ProperUpdate), queue' = queue \o us
    PROVE  Chain \subseteq Chain'
  BY ChainAfterAppend

LEMMA ChainAfterOne ==
    ASSUME IInv, NEW u \in ProperUpdate, queue' = Append(queue, u)
    PROVE  Chain' = Chain \cup {u}
  <1>1. queue' = queue \o <<u>> /\ <<u>> \in Seq(ProperUpdate)
    BY OneMore, OneUpdate
  <1>2. {<<u>>[n] : n \in 1 .. Len(<<u>>)} = {u}
    OBVIOUS
  <1> QED BY <1>1, <1>2, ChainAfterAppend

(* The rest of the chain has all that is not its head.                     *)
LEMMA ChainTail ==
    ASSUME IInv, queue # <<>>, NEW rest, rest = Tail(queue)
    PROVE  /\ rest \in Seq(ProperUpdate) /\ Head(queue) \in ProperUpdate
           /\ Len(rest) = Len(queue) - 1
           /\ \A n \in 1 .. Len(rest) : rest[n] = queue[n + 1]
           /\ \A u \in Chain : u # Head(queue) =>
                 \E n \in 1 .. Len(rest) : rest[n] = u
  <1>1. queue \in Seq(ProperUpdate) /\ Len(queue) \in Nat /\ Len(queue) # 0
    BY EmptySeq DEF IInv, Addressed
  <1>2. /\ rest \in Seq(ProperUpdate) /\ Head(queue) \in ProperUpdate
        /\ Len(rest) = Len(queue) - 1 /\ Head(queue) = queue[1]
        /\ \A n \in 1 .. Len(rest) : rest[n] = queue[n + 1]
    BY <1>1, HeadTailProperties
  <1>3. ASSUME NEW u \in Chain, u # Head(queue)
        PROVE  \E n \in 1 .. Len(rest) : rest[n] = u
    <2>1. PICK m \in 1 .. Len(queue) : queue[m] = u
      BY DEF Chain
    <2>2. m # 1
      BY <1>2, <1>3, <2>1
    <2>3. m - 1 \in 1 .. Len(rest) /\ rest[m - 1] = queue[m - 1 + 1]
      BY <1>1, <1>2, <2>1, <2>2
    <2> QED BY <1>1, <2>1, <2>3
  <1> QED BY <1>2, <1>3

-----------------------------------------------------------------------------
(* The stamp of a completed run.                                           *)
Completed(r) == runs[r].phase = "done" /\ \E i \in Sites : runs[r].site[i] = "done"

WillStamp(j, r) == j.sid = r /\ (j.k = "stamp" \/ (j.k = "finish" /\ j.ok))

Stamped(r) == r \in stamps \/ crashes > 0 \/ \E j \in jobs : WillStamp(j, r)

LEMMA StampedSplits ==
    CompletedRunStamped <=> \A r \in Ids : Completed(r) => Stamped(r)
  BY DEF CompletedRunStamped, Completed, Stamped, WillStamp

LEMMA StampKept ==
    ASSUME CompletedRunStamped, \A r \in Ids : Completed(r)' => Completed(r),
           stamps \subseteq stamps', crashes > 0 => crashes' > 0,
           \A j \in jobs, r \in Ids : WillStamp(j, r) => j \in jobs' \/ Stamped(r)'
    PROVE  CompletedRunStamped'
  <1> SUFFICES ASSUME NEW r \in Ids, Completed(r)'
               PROVE  Stamped(r)'
    BY DEF CompletedRunStamped, Completed, Stamped, WillStamp
  <1>1. Stamped(r)
    BY StampedSplits
  <1>2. CASE \E j \in jobs : WillStamp(j, r)
    <2>1. PICK j \in jobs : WillStamp(j, r)
      BY <1>2
    <2>2. CASE j \in jobs'
      BY <2>1, <2>2 DEF Stamped, WillStamp
    <2> QED BY <2>1, <2>2
  <1> QED BY <1>1, <1>2 DEF Stamped

(* Only the update that completes a run can make it a completed one, and   *)
(* it leaves the job that stamps it.                                       *)
LEMMA WriteStamps == IInv /\ CompletedRunStamped /\ WriteState => CompletedRunStamped'
  <1> SUFFICES ASSUME IInv, CompletedRunStamped, WriteState
               PROVE  CompletedRunStamped'
    OBVIOUS
  <1>1. PICK u, s, t : u = Head(queue) /\ s = runs[snap] /\ t = Post(u, s)
    OBVIOUS
  <1>2. /\ u \in ProperUpdate /\ snap \in Ids /\ s \in Run /\ t \in Run
        /\ RunShape(s) /\ Guard(u, snap, s)
    <2>1. OthersTyped /\ Addressed /\ SitesWalkedInOrder /\ ReadHolds
      BY TypeSplits
    <2>2. queue # <<>> /\ snap # NoRun
      BY DEF WriteState
    <2>3. u \in ProperUpdate
      BY <1>1, <2>1, <2>2, HeadTailProperties DEF Addressed
    <2>4. snap \in Ids /\ s \in Run /\ RunShape(s) /\ Guard(u, snap, s)
      BY <1>1, <2>1, <2>2 DEF OthersTyped, SitesWalkedInOrder, ReadHolds
    <2> QED BY <1>1, <2>3, <2>4, PostIsRun
  <1>3. /\ runs' = [runs EXCEPT ![snap] = t]
        /\ jobs' = jobs \cup JobsAfter(u, snap, s, t)
        /\ UNCHANGED <<stamps, crashes>>
    BY <1>1 DEF WriteState, browser, counts
  <1>4. runs'[snap] = t /\ \A r \in Ids : r # snap => runs'[r] = runs[r]
    BY <1>2, <1>3, TypeSplits DEF OthersTyped
  <1>5. CASE u.k = "advance" /\ t.phase = "done" /\ \E i \in Sites : t.site[i] = "done"
    <2> DEFINE w == WOk("finish", snap, NoSite, AnyDone(t))
    <2>1. w \in jobs'
      BY <1>3, <1>5 DEF JobsAfter
    <2>2. WillStamp(w, snap)
      BY <1>5 DEF WillStamp, W, WOk, AnyDone
    <2> HIDE DEF w
    <2> QED BY <1>3, <1>4, <2>1, <2>2, StampedSplits
            DEF CompletedRunStamped, Completed, Stamped, WillStamp
  <1>6. CASE ~(u.k = "advance" /\ t.phase = "done" /\ \E i \in Sites : t.site[i] = "done")
    <2>1. t.phase = "done" /\ (\E i \in Sites : t.site[i] = "done") =>
             s.phase = "done" /\ \E i \in Sites : s.site[i] = "done"
      <3>1. CASE u.k = "settle"
        <4>1. u.idx \in Sites /\ InFlight(s.site[u.idx])
          BY <1>2, <3>1, UpdateFields DEF Guard, SettleGuard
        <4>2. t.phase = "running"
          BY <1>1, <1>2, <3>1, <4>1, InFlightIsCurrent DEF Post, SettlePost, Run
        <4> QED BY <4>2
      <3>2. CASE u.k = "mark"
        <4>1. u.idx \in Sites /\ InFlight(s.site[u.idx])
          BY <1>2, <3>2, UpdateFields DEF Guard, WaitingGuard, InFlight
        <4>2. t.phase = "running"
          BY <1>1, <1>2, <3>2, <4>1, InFlightIsCurrent DEF Post, Run
        <4> QED BY <4>2
      <3>3. CASE u.k \in {"prompt", "bind", "progress"}
        BY <1>1, <1>2, <3>3 DEF Post, Run
      <3>4. CASE u.k \in {"cancel", "fail"}
        BY <1>1, <1>2, <3>4 DEF Post, CancelPost, Run
      <3>5. CASE u.k = "advance"
        BY <1>6, <3>5
      <3> QED BY <1>2, <3>1, <3>2, <3>3, <3>4, <3>5, UpdateFields DEF UpdateKind
    <2>2. \A r \in Ids : Completed(r)' => Completed(r)
      BY <1>1, <1>4, <2>1 DEF Completed
    <2> QED BY <1>3, <2>2, StampKept
  <1> QED BY <1>5, <1>6

LEMMA StampsKept == IInv /\ CompletedRunStamped /\ [Next]_vars => CompletedRunStamped'
  <1> SUFFICES ASSUME IInv, CompletedRunStamped, [Next]_vars
               PROVE  CompletedRunStamped'
    OBVIOUS
  <1>1. CASE WriteState
    BY <1>1, WriteStamps
  <1>2. CASE \E j \in jobs : SetState(j)
    <2>1. PICK j \in jobs : SetState(j)
      BY <1>2
    <2>2. /\ j.k = "set" /\ runs' = [runs EXCEPT ![j.sid] = FreshRun]
          /\ jobs \ {j} \subseteq jobs' /\ UNCHANGED <<stamps, crashes>>
      BY <2>1 DEF SetState, browser, counts
    <2>3. \A r \in Ids : Completed(r)' => Completed(r)
      BY <2>2, TypeSplits DEF Completed, FreshRun, OthersTyped
    <2>4. \A i \in jobs, r \in Ids : WillStamp(i, r) => i \in jobs'
      BY <2>2 DEF WillStamp
    <2> QED BY <2>2, <2>3, <2>4, StampKept
  <1>3. CASE \E j \in jobs : ClearWatchdog(j)
    <2>1. PICK j \in jobs : ClearWatchdog(j)
      BY <1>3
    <2>2. /\ UNCHANGED <<runs, stamps, crashes>> /\ jobs \ {j} \subseteq jobs'
          /\ j.k \in {"clear", "abandon", "finish"}
      BY <2>1 DEF ClearWatchdog, storage, counts
    <2>3. j.k = "finish" /\ j.ok => W("stamp", j.sid, NoSite) \in jobs'
      BY <2>1 DEF ClearWatchdog
    <2>4. \A r \in Ids : WillStamp(j, r) => Stamped(r)'
      <3> SUFFICES ASSUME NEW r \in Ids, WillStamp(j, r) PROVE Stamped(r)'
        OBVIOUS
      <3> DEFINE w == W("stamp", j.sid, NoSite)
      <3>1. w \in jobs' /\ w.k = "stamp" /\ w.sid = r
        BY <2>2, <2>3 DEF WillStamp, W
      <3> HIDE DEF w
      <3> QED BY <3>1 DEF Stamped, WillStamp
    <2>5. \A r \in Ids : Completed(r)' => Completed(r)
      BY <2>2 DEF Completed
    <2> QED BY <2>2, <2>4, <2>5, StampKept
  <1>4. CASE \E j \in jobs : StampSynced(j)
    <2>1. PICK j \in jobs : StampSynced(j)
      BY <1>4
    <2>2. /\ UNCHANGED <<runs, crashes>> /\ jobs' = jobs \ {j}
          /\ stamps' = stamps \cup {j.sid}
      BY <2>1 DEF StampSynced, storage, counts
    <2>3. \A r \in Ids : WillStamp(j, r) => Stamped(r)'
      BY <2>2 DEF WillStamp, Stamped
    <2>4. \A r \in Ids : Completed(r)' => Completed(r)
      BY <2>2 DEF Completed
    <2> QED BY <2>2, <2>3, <2>4, StampKept
  <1>5. CASE WorkerDies
    <2>1. crashes' > 0 /\ UNCHANGED <<runs, stamps>>
      BY <1>5, TypeSplits, BoundsAssumption DEF WorkerDies, OthersTyped, storage, browser
    <2>2. \A r \in Ids : Completed(r)' => Completed(r)
      BY <2>1 DEF Completed
    <2> QED BY <2>1, <2>2, StampKept DEF Stamped
  <1>6. CASE /\ UNCHANGED <<runs, stamps, crashes>>
             /\ \A j \in jobs, r \in Ids : WillStamp(j, r) => j \in jobs'
    <2>1. \A r \in Ids : Completed(r)' => Completed(r)
      BY <1>6 DEF Completed
    <2> QED BY <1>6, <2>1, StampKept
  <1>7. CASE ReadState \/ StartSync \/ CancelSync \/ WatchdogTick \/ Elapse \/ Age
             \/ UNCHANGED vars
    <2>1. UNCHANGED <<runs, stamps, crashes>> /\ jobs \subseteq jobs'
      BY <1>7 DEF ReadState, StartSync, CancelSync, WatchdogTick, Elapse, Age,
                  vars, storage, worker, browser, counts
    <2> QED BY <1>6, <2>1
  <1>8. CASE \E r \in Ids, i \in Sites : TabStep(r, i)
    <2>1. UNCHANGED <<runs, stamps, crashes>> /\ jobs \subseteq jobs'
      BY <1>8 DEF TabStep, PageLoads, ScanProgress, ScanNeedsAuth, UserClosesTab,
                  ScanEnds, storage, worker, browser, counts
    <2> QED BY <1>6, <2>1
  <1>9. CASE \E j \in jobs : \/ ArmWatchdog(j) \/ EnsureToken(j) \/ PollForToken(j)
                             \/ OpenTab(j) \/ PingTab(j) \/ SendScan(j) \/ RemoveTab(j)
                             \/ HandleScanDone(j) \/ HandleTabRemoved(j) \/ EndReauth(j)
    <2>1. PICK j \in jobs : \/ ArmWatchdog(j) \/ EnsureToken(j) \/ PollForToken(j)
                            \/ OpenTab(j) \/ PingTab(j) \/ SendScan(j) \/ RemoveTab(j)
                            \/ HandleScanDone(j) \/ HandleTabRemoved(j) \/ EndReauth(j)
      BY <1>9
    <2>2. UNCHANGED <<runs, stamps, crashes>> /\ jobs \ {j} \subseteq jobs'
      BY <2>1 DEF ArmWatchdog, EnsureToken, PollForToken, OpenTab, PingTab,
                  SendScan, RemoveTab, HandleScanDone, HandleTabRemoved,
                  EndReauth, Continue, storage, browser, counts
    <2>3. j.k \notin {"finish", "stamp"}
      BY <2>1 DEF ArmWatchdog, EnsureToken, PollForToken, OpenTab, PingTab,
                  SendScan, RemoveTab, HandleScanDone, HandleTabRemoved, EndReauth
    <2>4. \A i \in jobs, r \in Ids : WillStamp(i, r) => i \in jobs'
      BY <2>2, <2>3 DEF WillStamp
    <2> QED BY <1>6, <2>2, <2>4
  <1> QED BY <1>1, <1>2, <1>3, <1>4, <1>5, <1>7, <1>8, <1>9 DEF Next, JobStep

(* CompletedRunStamped, of any number of overlapping runs: between the     *)
(* write that completes a run and its stamp there is always a job that     *)
(* stamps it, and only a worker death loses that (background.js:567-592).  *)
THEOREM CompletedStamped == Spec => []CompletedRunStamped
  <1>1. Init => CompletedRunStamped
    BY DEF Init, CompletedRunStamped, NotStarted, FreshRun
  <1> QED BY <1>1, Invariance, StampsKept, PTL DEF Spec

-----------------------------------------------------------------------------
(* What the steps that neither read nor write storage add to the chain:    *)
(* updates that bind no tab and settle nothing as done, except for two.    *)
Harmless == {u \in ProperUpdate : u.k # "bind" /\ (u.k = "settle" => ~u.ok)}

Adds(S) == \E us \in Seq(S) : queue' = queue \o us

LEMMA HarmlessUpdates ==
    /\ \A sid \in Ids :
          /\ Advance(sid) \in Harmless /\ W("fail", sid, NoSite) \in Harmless
          /\ \A i \in Sites \cup {NoSite} : FailSite(sid, i) \in Harmless
          /\ \A i \in Sites :
                /\ W("mark", sid, i) \in Harmless
                /\ WFrom("progress", sid, i, FALSE, <<sid, i>>) \in Harmless
    /\ \A up \in BOOLEAN : Prompt(up) \in Harmless
    /\ W("cancel", NoRun, NoSite) \in Harmless
  BY DEF Advance, FailSite, Prompt, W, WOk, WFrom, Harmless, ProperUpdate, Work,
         UpdateKind

LEMMA AddsNothing == ASSUME IInv, queue' = queue, NEW S PROVE Adds(S)
  BY SameQueue, EmptySeq DEF Adds

LEMMA AddsOne ==
    ASSUME IInv, NEW S \in SUBSET ProperUpdate, NEW u \in S,
           queue' = Append(queue, u) \/ queue' = queue \o <<u>>
    PROVE  Adds(S)
  <1>1. <<u>> \in Seq(S)
    OBVIOUS
  <1>2. Append(queue, u) = queue \o <<u>>
    BY OneMore
  <1> QED BY <1>1, <1>2 DEF Adds

LEMMA JobsAdd ==
    ASSUME IInv, NEW j \in jobs, JobStep(j), ~SetState(j), ~OpenTab(j),
           ~HandleScanDone(j)
    PROVE  Adds(Harmless)
  <1>0. Harmless \in SUBSET ProperUpdate
    BY DEF Harmless
  <1>1. CASE ArmWatchdog(j) \/ ClearWatchdog(j) \/ StampSynced(j)
    BY <1>1, AddsNothing DEF ArmWatchdog, ClearWatchdog, StampSynced
  <1>2. CASE EnsureToken(j) \/ PollForToken(j)
    <2>1. PICK us \in {<<Advance(j.sid)>>, <<W("fail", j.sid, NoSite)>>,
                       <<Prompt(TRUE)>>, <<Prompt(FALSE), Advance(j.sid)>>} :
             queue' = queue \o us
      BY <1>2 DEF EnsureToken, PollForToken, Continue
    <2>2. j.sid \in Ids
      BY <1>2, JobFields DEF EnsureToken, PollForToken
    <2>3. \A u, v \in Harmless : <<u>> \in Seq(Harmless) /\ <<u, v>> \in Seq(Harmless)
      OBVIOUS
    <2>4. us \in Seq(Harmless)
      BY <2>1, <2>2, <2>3, HarmlessUpdates
    <2> QED BY <2>1, <2>4 DEF Adds
  <1>3. CASE PingTab(j)
    <2>1. FailSite(j.sid, j.idx) \in Harmless
      BY <1>3, JobFields, HarmlessUpdates DEF PingTab
    <2>2. queue' = queue \o <<FailSite(j.sid, j.idx)>> \/ queue' = queue \o <<>>
      BY <1>3 DEF PingTab, Continue
    <2> QED BY <1>0, <2>1, <2>2, AddsOne, AddsNothing, SameQueue
  <1>4. CASE SendScan(j)
    <2>1. /\ FailSite(j.sid, j.idx) \in Harmless
          /\ W("mark", j.sid, j.idx) \in Harmless
      BY <1>4, JobFields, HarmlessUpdates DEF SendScan
    <2>2. \/ queue' = queue \o <<FailSite(j.sid, j.idx)>>
          \/ queue' = Append(queue, W("mark", j.sid, j.idx))
      BY <1>4 DEF SendScan, Continue
    <2> QED BY <1>0, <2>1, <2>2, AddsOne
  <1>5. CASE RemoveTab(j)
    <2>1. Advance(j.sid) \in Harmless
      BY <1>5, JobFields, HarmlessUpdates DEF RemoveTab
    <2>2. queue' = queue \/ queue' = Append(queue, Advance(j.sid))
      BY <1>5 DEF RemoveTab
    <2> QED BY <1>0, <2>1, <2>2, AddsOne, AddsNothing
  <1>6. CASE HandleTabRemoved(j)
    <2>1. FailSite(j.sid, j.idx) \in Harmless
      BY <1>6, JobFields, HarmlessUpdates DEF HandleTabRemoved
    <2>2. queue' = queue \o <<FailSite(j.sid, j.idx)>> \/ queue' = queue \o <<>>
      BY <1>6 DEF HandleTabRemoved, Continue
    <2> QED BY <1>0, <2>1, <2>2, AddsOne, AddsNothing, SameQueue
  <1>7. CASE EndReauth(j)
    <2>1. queue' = queue \o <<Prompt(FALSE)>> \/ queue' = queue \o <<>>
      BY <1>7 DEF EndReauth, Continue
    <2> QED BY <1>0, <2>1, HarmlessUpdates, AddsOne, AddsNothing, SameQueue
  <1> QED BY <1>1, <1>2, <1>3, <1>4, <1>5, <1>6, <1>7 DEF JobStep

LEMMA OthersAdd ==
    ASSUME IInv,
           \/ StartSync \/ CancelSync \/ WatchdogTick \/ Elapse \/ Age
           \/ (\E r \in Ids, i \in Sites : TabStep(r, i)) \/ UNCHANGED vars
    PROVE  Adds(Harmless)
  <1>0. Harmless \in SUBSET ProperUpdate
    BY DEF Harmless
  <1>1. CASE StartSync \/ Elapse \/ Age \/ UNCHANGED vars
    BY <1>1, AddsNothing DEF StartSync, Elapse, Age, vars, worker
  <1>2. CASE CancelSync
    BY <1>0, <1>2, AddsOne, HarmlessUpdates DEF CancelSync
  <1>3. CASE WatchdogTick
    <2>1. CASE ~StoredLive
      BY <1>3, <2>1, AddsNothing DEF WatchdogTick
    <2>2. CASE StoredLive
      <3>1. stored \in Ids /\ Stored.cur \in Sites \cup {NoSite}
        BY <2>2, TypeSplits DEF StoredLive, OthersTyped, Stored, Run
      <3>2. WatchdogUpdates \in {<<>>, <<W("fail", stored, NoSite)>>,
                                 <<FailSite(stored, Stored.cur)>>,
                                 <<Advance(stored)>>}
        BY DEF WatchdogUpdates
      <3>3. \A u \in Harmless : <<u>> \in Seq(Harmless)
        OBVIOUS
      <3>4. WatchdogUpdates \in Seq(Harmless)
        BY <3>1, <3>2, <3>3, HarmlessUpdates, EmptySeq
      <3> QED BY <1>3, <2>2, <3>4 DEF WatchdogTick, Adds
    <2> QED BY <2>1, <2>2
  <1>4. CASE \E r \in Ids, i \in Sites : TabStep(r, i)
    <2>1. PICK r \in Ids, i \in Sites : TabStep(r, i)
      BY <1>4
    <2>2. \/ queue' = queue
          \/ queue' = Append(queue, Prompt(TRUE))
          \/ queue' = Append(queue, WFrom("progress", r, i, FALSE, <<r, i>>))
      BY <2>1 DEF TabStep, PageLoads, ScanProgress, ScanNeedsAuth,
                  UserClosesTab, ScanEnds, worker
    <2> QED BY <1>0, <2>2, HarmlessUpdates, AddsOne, AddsNothing
  <1> QED BY <1>1, <1>2, <1>3, <1>4

LEMMA AddsToChain ==
    ASSUME IInv, NEW S \in SUBSET ProperUpdate, Adds(S)
    PROVE  Chain \subseteq Chain' /\ Chain' \subseteq Chain \cup S
  <1>1. PICK us \in Seq(S) : queue' = queue \o us
    BY DEF Adds
  <1>2. us \in Seq(ProperUpdate)
    BY SeqMonotonic
  <1>3. {us[n] : n \in 1 .. Len(us)} \subseteq S
    OBVIOUS
  <1> QED BY <1>1, <1>2, <1>3, ChainAfterAppend

LEMMA OpenTabAdds ==
    ASSUME IInv, NEW j \in jobs, OpenTab(j)
    PROVE  /\ j.sid \in Ids /\ j.idx \in Sites
           /\ \/ Adds(Harmless) /\ tabs' = tabs
              \/ /\ W("bind", j.sid, j.idx) \in ProperUpdate
                 /\ queue' = Append(queue, W("bind", j.sid, j.idx))
                 /\ tabs' = [tabs EXCEPT ![j.sid][j.idx] = "loading"]
  <1>1. j.sid \in Ids /\ j.idx \in Sites
    BY JobFields DEF OpenTab
  <1>2. Harmless \in SUBSET ProperUpdate /\ FailSite(j.sid, j.idx) \in Harmless
        /\ W("bind", j.sid, j.idx) \in ProperUpdate
    BY <1>1, HarmlessUpdates, UpdatesAddressed DEF Harmless
  <1>3. CASE Continue(j, <<FailSite(j.sid, j.idx)>>, {})
    BY <1>1, <1>2, <1>3, AddsOne DEF Continue, browser
  <1>4. CASE ~Continue(j, <<FailSite(j.sid, j.idx)>>, {})
    BY <1>1, <1>2, <1>4 DEF OpenTab
  <1> QED BY <1>3, <1>4

LEMMA ScanDoneAdds ==
    ASSUME IInv, NEW j \in jobs, HandleScanDone(j)
    PROVE  /\ j.sid \in Ids /\ j.idx \in Sites /\ j.ok \in BOOLEAN
           /\ Adds({u \in ProperUpdate : /\ u.k = "settle" /\ u.ok = j.ok
                                         /\ u.from = <<j.sid, j.idx>>})
  <1> DEFINE S == {u \in ProperUpdate : /\ u.k = "settle" /\ u.ok = j.ok
                                        /\ u.from = <<j.sid, j.idx>>}
             w == WFrom("settle", j.sid, Stored.cur, j.ok, <<j.sid, j.idx>>)
  <1>1. j.sid \in Ids /\ j.idx \in Sites /\ j.ok \in BOOLEAN
    BY JobFields DEF HandleScanDone
  <1>2. CASE stored # j.sid
    <2>1. queue' = queue
      BY <1>2, SameQueue DEF HandleScanDone, Continue
    <2> QED BY <1>1, <2>1, AddsNothing
  <1>3. CASE stored = j.sid
    <2>1. Stored.cur \in Sites \cup {NoSite}
      BY <1>1, <1>3, TypeSplits DEF OthersTyped, Stored, Run
    <2>2. w \in ProperUpdate
      BY <1>1, <2>1, UpdatesAddressed
    <2>3. w.k = "settle" /\ w.ok = j.ok /\ w.from = <<j.sid, j.idx>>
      BY DEF WFrom, WOk, W
    <2>4. queue' = queue \o <<w>>
      BY <1>3 DEF HandleScanDone, Continue
    <2> HIDE DEF w
    <2>5. w \in S /\ S \in SUBSET ProperUpdate
      BY <2>2, <2>3
    <2> HIDE DEF S
    <2>6. Adds(S)
      BY <2>4, <2>5, AddsOne
    <2> QED BY <1>1, <2>6 DEF S
  <1> QED BY <1>2, <1>3

-----------------------------------------------------------------------------
(* Who closes a tab.  A run whose state the head of the chain has read is  *)
(* in hand like the stored one: the write brings it back.                  *)
InHand(r) == r = stored \/ r = snap

HeldTab(r, i) == InHand(r) /\ InFlight(runs[r].site[i]) /\ runs[r].bound[i]

BindWaits(r, i) == \E u \in Chain : u.k = "bind" /\ u.sid = r /\ u.idx = i

Closes(j, r, i) == j.k \in {"close", "drop", "abandon"} /\ j.sid = r /\ j.idx = i

CloserWaits(r, i) == \E j \in jobs : Closes(j, r, i)

HasOwner(r, i) == HeldTab(r, i) \/ BindWaits(r, i) \/ CloserWaits(r, i)

TakenOver(r) == Live(runs[r]) /\ ~InHand(r)

TabsOwned ==
    crashes = 0 => \A r \in Ids, i \in Sites :
                      Open(r, i) /\ ~TakenOver(r) => HasOwner(r, i)

LEMMA TabsOwnedIsEnough == IInv /\ TabsOwned => OpenTabsOwned
  <1> SUFFICES ASSUME IInv, TabsOwned, crashes = 0, NEW r \in Ids, NEW i \in Sites,
                      Open(r, i), ~Replaced(r)
               PROVE  Owned(r, i)
    BY DEF OpenTabsOwned
  <1>1. HasOwner(r, i)
    BY DEF TabsOwned, TakenOver, Replaced, InHand
  <1>2. CASE HeldTab(r, i)
    <2>1. Live(runs[r])
      BY <1>2, InFlightIsCurrent, TypeSplits
         DEF HeldTab, OthersTyped, SitesWalkedInOrder, Live
    <2> QED BY <1>2, <2>1 DEF HeldTab, Owned, Replaced
  <1>3. CASE BindWaits(r, i)
    BY <1>3 DEF BindWaits, Owned, Chain
  <1>4. CASE CloserWaits(r, i)
    BY <1>4 DEF CloserWaits, Closes, Owned
  <1> QED BY <1>1, <1>2, <1>3, <1>4 DEF HasOwner

(* Steps that leave storage and what was read of it alone, and give every  *)
(* tab that they open, and every one whose closer they take, a new owner.  *)
LEMMA OwnersStay ==
    ASSUME TabsOwned, UNCHANGED <<runs, stored, snap, crashes>>, Chain \subseteq Chain',
           \A r \in Ids, i \in Sites :
              Open(r, i)' => \/ Open(r, i) /\ (CloserWaits(r, i) => CloserWaits(r, i)')
                            \/ BindWaits(r, i)'
    PROVE  TabsOwned'
  <1> SUFFICES ASSUME crashes = 0, NEW r \in Ids, NEW i \in Sites,
                      Open(r, i)', ~TakenOver(r)'
               PROVE  HasOwner(r, i)'
    BY DEF TabsOwned
  <1>1. ~TakenOver(r) /\ (HeldTab(r, i) => HeldTab(r, i)')
    BY DEF TakenOver, HeldTab, InHand
  <1>2. BindWaits(r, i) => BindWaits(r, i)'
    BY DEF BindWaits
  <1>3. CASE Open(r, i) /\ (CloserWaits(r, i) => CloserWaits(r, i)')
    <2>1. HasOwner(r, i)
      BY <1>1, <1>3 DEF TabsOwned
    <2> QED BY <1>1, <1>2, <1>3, <2>1 DEF HasOwner
  <1> QED BY <1>3 DEF HasOwner

LEMMA JobsKeepOwners ==
    ASSUME IInv, TabsOwned, NEW j \in jobs, JobStep(j), ~SetState(j)
    PROVE  TabsOwned'
  <1>0. Harmless \in SUBSET ProperUpdate
    BY DEF Harmless
  <1>1. UNCHANGED <<runs, stored, snap, crashes>>
    BY DEF JobStep, ArmWatchdog, EnsureToken, PollForToken, OpenTab, PingTab,
           SendScan, RemoveTab, ClearWatchdog, StampSynced, HandleScanDone,
           HandleTabRemoved, EndReauth, Continue, storage, counts
  <1>2. jobs \ {j} \subseteq jobs'
    BY DEF JobStep, ArmWatchdog, EnsureToken, PollForToken, OpenTab, PingTab,
           SendScan, RemoveTab, ClearWatchdog, StampSynced, HandleScanDone,
           HandleTabRemoved, EndReauth, Continue
  <1>3. ASSUME NEW r \in Ids, NEW i \in Sites, ~Closes(j, r, i)
        PROVE  CloserWaits(r, i) => CloserWaits(r, i)'
    BY <1>2, <1>3 DEF CloserWaits
  <1>4. tabs \in [Ids -> [Sites -> TabState]]
    BY TypeSplits DEF OthersTyped
  <1>5. CASE OpenTab(j)
    <2>1. \A r \in Ids, i \in Sites : ~Closes(j, r, i)
      BY <1>5 DEF OpenTab, Closes
    <2>2. CASE Adds(Harmless) /\ tabs' = tabs
      <3>1. Chain \subseteq Chain'
        BY <1>0, <2>2, AddsToChain
      <3>2. \A r \in Ids, i \in Sites : Open(r, i)' => Open(r, i)
        BY <2>2 DEF Open
      <3> QED BY <1>1, <1>3, <2>1, <3>1, <3>2, OwnersStay
    <2>3. CASE ~(Adds(Harmless) /\ tabs' = tabs)
      <3> DEFINE w == W("bind", j.sid, j.idx)
      <3>1. /\ w \in ProperUpdate /\ queue' = Append(queue, w)
            /\ tabs' = [tabs EXCEPT ![j.sid][j.idx] = "loading"]
            /\ j.sid \in Ids /\ j.idx \in Sites
        BY <1>5, <2>3, OpenTabAdds
      <3>2. w.k = "bind" /\ w.sid = j.sid /\ w.idx = j.idx
        BY DEF W
      <3> HIDE DEF w
      <3>3. Chain' = Chain \cup {w}
        BY <3>1, ChainAfterOne
      <3>4. BindWaits(j.sid, j.idx)'
        BY <3>2, <3>3 DEF BindWaits
      <3>5. \A r \in Ids, i \in Sites :
               Open(r, i)' => Open(r, i) \/ (r = j.sid /\ i = j.idx)
        BY <1>4, <3>1 DEF Open
      <3> QED BY <1>1, <1>3, <2>1, <3>3, <3>4, <3>5, OwnersStay
    <2> QED BY <2>2, <2>3
  <1>6. CASE ~OpenTab(j)
    <2>1. Chain \subseteq Chain'
      <3>1. CASE HandleScanDone(j)
        BY <3>1, ScanDoneAdds, AddsToChain
      <3>2. CASE ~HandleScanDone(j)
        BY <1>0, <1>6, <3>2, JobsAdd, AddsToChain
      <3> QED BY <3>1, <3>2
    <2>2. ASSUME NEW r \in Ids, NEW i \in Sites, Open(r, i)'
          PROVE  Open(r, i) /\ (CloserWaits(r, i) => CloserWaits(r, i)')
      <3>1. CASE RemoveTab(j)
        <4>1. /\ tabs' = [tabs EXCEPT ![j.sid][j.idx] = "closed"]
              /\ j.sid \in Ids /\ j.idx \in Sites
          BY <3>1, JobFields DEF RemoveTab
        <4>2. ~(r = j.sid /\ i = j.idx) /\ Open(r, i)
          BY <1>4, <2>2, <4>1 DEF Open
        <4> QED BY <1>3, <4>2 DEF Closes
      <3>2. CASE ClearWatchdog(j)
        <4>1. tabs' = tabs
          BY <3>2 DEF ClearWatchdog
        <4>2. CASE Closes(j, r, i)
          <5>1. j.k = "abandon" /\ j.idx # NoSite
            BY <3>2, <4>2 DEF ClearWatchdog, Closes, NoSite, Sites
          <5>2. W("drop", j.sid, j.idx) \in jobs'
            BY <3>2, <5>1 DEF ClearWatchdog
          <5>3. Closes(W("drop", j.sid, j.idx), r, i)
            BY <4>2 DEF Closes, W
          <5> QED BY <2>2, <4>1, <5>2, <5>3 DEF CloserWaits, Open
        <4> QED BY <1>3, <2>2, <4>1, <4>2 DEF Open
      <3>3. CASE SendScan(j)
        <4>1. j.sid \in Ids /\ j.idx \in Sites /\ ~Closes(j, r, i)
          BY <3>3, JobFields DEF SendScan, Closes
        <4>2. \/ tabs' = tabs
              \/ /\ tabs[j.sid][j.idx] = "ready"
                 /\ tabs' = [tabs EXCEPT ![j.sid][j.idx] = "scanning"]
          BY <3>3 DEF SendScan, Continue, browser
        <4>3. Open(r, i)
          BY <1>4, <2>2, <4>1, <4>2 DEF Open
        <4> QED BY <1>3, <4>1, <4>3
      <3>4. CASE ~RemoveTab(j) /\ ~ClearWatchdog(j) /\ ~SendScan(j)
        <4>1. tabs' = tabs /\ ~Closes(j, r, i)
          BY <1>6, <3>4
             DEF JobStep, ArmWatchdog, EnsureToken, PollForToken, PingTab,
                 StampSynced, HandleScanDone, HandleTabRemoved, EndReauth,
                 Continue, browser, Closes
        <4> QED BY <1>3, <2>2, <4>1 DEF Open
      <3> QED BY <3>1, <3>2, <3>3, <3>4
    <2> QED BY <1>1, <2>1, <2>2, OwnersStay
  <1> QED BY <1>5, <1>6

(* The update of the head of the chain, when it is written.                *)
LEMMA Writes ==
    ASSUME IInv, WriteState, NEW u, NEW h, NEW s, NEW t,
           u = Head(queue), h = snap, s = runs[h], t = Post(u, s)
    PROVE  /\ u \in ProperUpdate /\ h \in Ids /\ s \in Run /\ t \in Run
           /\ RunShape(s) /\ Guard(u, h, s) /\ queue # <<>>
           /\ runs'[h] = t /\ \A r \in Ids : r # h => runs'[r] = runs[r]
           /\ stored' = h /\ snap' = NoRun
           /\ queue' = Tail(queue) \o UpdatesAfter(u, s)
           /\ UpdatesAfter(u, s) \in Seq(Harmless)
           /\ jobs' = jobs \cup JobsAfter(u, h, s, t)
           /\ UNCHANGED <<tabs, reports, stamps, crashes>>
  <1>1. OthersTyped /\ Addressed /\ SitesWalkedInOrder /\ ReadHolds
    BY TypeSplits
  <1>2. /\ queue # <<>> /\ snap # NoRun /\ runs' = [runs EXCEPT ![h] = t]
        /\ queue' = Tail(queue) \o UpdatesAfter(u, s)
        /\ jobs' = jobs \cup JobsAfter(u, h, s, t)
        /\ stored' = h /\ snap' = NoRun
        /\ UNCHANGED <<tabs, reports, stamps, crashes>>
    BY DEF WriteState, browser, counts
  <1>3. u \in ProperUpdate
    BY <1>1, <1>2, HeadTailProperties DEF Addressed
  <1>4. h \in Ids /\ s \in Run /\ RunShape(s) /\ Guard(u, h, s)
    BY <1>1, <1>2 DEF OthersTyped, SitesWalkedInOrder, ReadHolds
  <1>5. t \in Run
    BY <1>3, <1>4, PostIsRun
  <1>6. runs'[h] = t /\ \A r \in Ids : r # h => runs'[r] = runs[r]
    BY <1>1, <1>2, <1>4 DEF OthersTyped
  <1>7. UpdatesAfter(u, s) \in Seq(Harmless)
    <2>1. CASE UpdatesAfter(u, s) = <<>>
      BY <2>1, EmptySeq
    <2>2. CASE UpdatesAfter(u, s) # <<>>
      <3>1. UpdatesAfter(u, s) = <<Advance(u.sid)>> /\ u.k = "settle"
        BY <2>2 DEF UpdatesAfter
      <3>2. PICK w \in Harmless : w = Advance(u.sid)
        BY <1>3, <3>1, UpdateFields, HarmlessUpdates
      <3>3. <<w>> \in Seq(Harmless)
        OBVIOUS
      <3> QED BY <3>1, <3>2, <3>3
    <2> QED BY <2>1, <2>2
  <1> QED BY <1>2, <1>3, <1>4, <1>5, <1>6, <1>7

(* The chain without its head, and with what follows it.                   *)
LEMMA ChainMovesOn ==
    ASSUME IInv, queue # <<>>, NEW us \in Seq(ProperUpdate),
           queue' = Tail(queue) \o us
    PROVE  /\ Chain \subseteq Chain' \cup {Head(queue)}
           /\ Chain' \subseteq Chain \cup {us[n] : n \in 1 .. Len(us)}
           /\ Len(queue') = Len(queue) - 1 + Len(us) /\ Len(queue) \in Nat
           /\ \A n \in 1 .. Len(queue) - 1 : queue'[n] = queue[n + 1]
           /\ \A n \in 1 .. Len(us) : queue'[Len(queue) - 1 + n] = us[n]
  <1>1. PICK rest : rest = Tail(queue)
    OBVIOUS
  <1>0. queue \in Seq(ProperUpdate) /\ Len(queue) \in Nat
    BY DEF IInv, Addressed
  <1>2. /\ rest \in Seq(ProperUpdate) /\ Len(rest) = Len(queue) - 1
        /\ \A n \in 1 .. Len(rest) : rest[n] = queue[n + 1]
        /\ \A u \in Chain : u # Head(queue) => \E n \in 1 .. Len(rest) : rest[n] = u
        /\ queue \in Seq(ProperUpdate) /\ Len(queue) \in Nat
    BY <1>0, <1>1, ChainTail, Zenon
  <1>3. /\ Len(queue') = Len(rest) + Len(us) /\ Len(rest) \in Nat /\ Len(us) \in Nat
        /\ \A n \in 1 .. Len(rest) : queue'[n] = rest[n]
        /\ \A n \in 1 .. Len(us) : queue'[Len(rest) + n] = us[n]
    BY <1>1, <1>2
  <1>4. Chain \subseteq Chain' \cup {Head(queue)}
    <2> SUFFICES ASSUME NEW u \in Chain, u # Head(queue) PROVE u \in Chain'
      OBVIOUS
    <2>1. PICK n \in 1 .. Len(rest) : rest[n] = u
      BY <1>2
    <2>2. n \in 1 .. Len(queue') /\ queue'[n] = u
      BY <1>3, <2>1
    <2> QED BY <2>2 DEF Chain
  <1>5. Chain' \subseteq Chain \cup {us[n] : n \in 1 .. Len(us)}
    <2> SUFFICES ASSUME NEW n \in 1 .. Len(queue')
                 PROVE  queue'[n] \in Chain \cup {us[m] : m \in 1 .. Len(us)}
      BY DEF Chain
    <2>1. CASE n <= Len(rest)
      <3>1. n + 1 \in 1 .. Len(queue) /\ queue'[n] = queue[n + 1]
        BY <1>2, <1>3, <2>1
      <3> QED BY <3>1 DEF Chain
    <2>2. CASE n > Len(rest)
      <3>1. /\ n - Len(rest) \in 1 .. Len(us)
            /\ queue'[Len(rest) + (n - Len(rest))] = us[n - Len(rest)]
        BY <1>3, <2>2
      <3>2. Len(rest) + (n - Len(rest)) = n
        BY <1>3
      <3> QED BY <3>1, <3>2
    <2> QED BY <1>3, <2>1, <2>2
  <1> QED BY <1>2, <1>3, <1>4, <1>5

LEMMA WriteKeepsOwners == IInv /\ TabsOwned /\ WriteState => TabsOwned'
  <1> SUFFICES ASSUME IInv, TabsOwned, WriteState, crashes = 0,
                      NEW r \in Ids, NEW i \in Sites, Open(r, i), ~TakenOver(r)'
               PROVE  HasOwner(r, i)'
    BY DEF TabsOwned, WriteState, browser, counts, Open
  <1>1. PICK u, h, s, t : u = Head(queue) /\ h = snap /\ s = runs[h] /\ t = Post(u, s)
    OBVIOUS
  <1>2. /\ u \in ProperUpdate /\ h \in Ids /\ s \in Run /\ t \in Run
        /\ RunShape(s) /\ Guard(u, h, s) /\ queue # <<>>
        /\ runs'[h] = t /\ \A p \in Ids : p # h => runs'[p] = runs[p]
        /\ stored' = h /\ snap' = NoRun
        /\ queue' = Tail(queue) \o UpdatesAfter(u, s)
        /\ UpdatesAfter(u, s) \in Seq(Harmless)
        /\ jobs' = jobs \cup JobsAfter(u, h, s, t)
        /\ UNCHANGED <<tabs, reports, stamps, crashes>>
    BY <1>1, Writes
  <1>3. Chain \subseteq Chain' \cup {u}
    <2>1. UpdatesAfter(u, s) \in Seq(ProperUpdate)
      BY <1>2, SeqMonotonic DEF Harmless
    <2> QED BY <1>1, <1>2, <2>1, ChainMovesOn
  <1>4. CloserWaits(r, i) => CloserWaits(r, i)'
    BY <1>2 DEF CloserWaits
  <1>5. (InHand(r)' <=> r = h) /\ NoRun \notin Ids
    BY <1>2 DEF InHand, NoRun, Ids
  <1>6. HasOwner(r, i) /\ (r # h => ~HeldTab(r, i))
    <2>1. CASE r = h
      BY <1>1, <2>1 DEF TabsOwned, TakenOver, InHand
    <2>2. CASE r # h
      <3>1. ~Live(runs[r])
        BY <1>2, <1>5, <2>2 DEF TakenOver
      <3>2. ~InFlight(runs[r].site[i])
        BY <3>1, InFlightIsCurrent, TypeSplits
           DEF OthersTyped, SitesWalkedInOrder, Live
      <3> QED BY <2>2, <3>1, <3>2 DEF TabsOwned, TakenOver, HeldTab
    <2> QED BY <2>1, <2>2
  <1>7. CASE BindWaits(r, i)
    <2>1. PICK w \in Chain : w.k = "bind" /\ w.sid = r /\ w.idx = i
      BY <1>7 DEF BindWaits
    <2>2. CASE w # u
      BY <1>3, <2>1, <2>2 DEF HasOwner, BindWaits
    <2>3. CASE w = u
      <3>1. r = h /\ s.site[i] = "waiting" /\ t = [s EXCEPT !.bound[i] = TRUE]
        BY <1>1, <1>2, <2>1, <2>3 DEF Guard, WaitingGuard, Post
      <3>2. t.site[i] = "waiting" /\ t.bound[i] = TRUE
        BY <1>2, <3>1 DEF Run
      <3> QED BY <1>2, <1>5, <3>1, <3>2 DEF HasOwner, HeldTab, InFlight
    <2> QED BY <2>2, <2>3
  <1>8. CASE HeldTab(r, i)
    <2>1. r = h /\ InFlight(s.site[i]) /\ s.bound[i]
      BY <1>1, <1>6, <1>8 DEF HeldTab
    <2>2. s.phase = "running"
      BY <1>2, <2>1, InFlightIsCurrent
    <2>3. CASE InFlight(t.site[i]) /\ t.bound[i]
      BY <1>2, <1>5, <2>1, <2>3 DEF HasOwner, HeldTab
    <2>4. CASE u.k \in {"prompt", "bind", "progress"}
      <3>1. \/ t = s \/ t = [s EXCEPT !.auth = u.ok]
            \/ t = [s EXCEPT !.bound[u.idx] = TRUE]
        BY <1>1, <2>4 DEF Post
      <3>2. t.site[i] = s.site[i] /\ t.bound[i]
        BY <1>2, <2>1, <3>1 DEF Run
      <3> QED BY <2>1, <2>3, <3>2
    <2>5. CASE u.k = "mark"
      <3>1. InFlight(t.site[i]) /\ t.bound[i]
        BY <1>1, <1>2, <2>1, <2>5, UpdateFields DEF Post, Run, InFlight
      <3> QED BY <2>3, <3>1
    <2>6. CASE u.k \in {"fail", "advance"}
      BY <1>2, <2>1, <2>2, <2>6
         DEF Guard, FailGuard, AdvanceGuard, AnyInFlight
    <2>7. CASE u.k = "settle"
      <3>1. CASE u.idx = i
        <4>1. W("close", h, i) \in jobs'
          BY <1>2, <2>1, <2>7, <3>1 DEF JobsAfter
        <4>2. Closes(W("close", h, i), r, i)
          BY <2>1 DEF Closes, W
        <4> QED BY <4>1, <4>2 DEF HasOwner, CloserWaits
      <3>2. CASE u.idx # i
        <4>1. u.idx \in Sites
          BY <1>2, <2>7, UpdateFields DEF Guard, SettleGuard
        <4>2. t = SettlePost(u, s)
          BY <1>1, <2>7 DEF Post
        <4>3. PICK d : d = IF u.ok THEN "done" ELSE "failed"
          OBVIOUS
        <4>4. t = [s EXCEPT !.site[u.idx] = d, !.bound[u.idx] = FALSE]
          BY <4>2, <4>3 DEF SettlePost
        <4>5. t.site[i] = s.site[i] /\ t.bound[i] = s.bound[i]
          BY <1>2, <3>2, <4>1, <4>4 DEF Run
        <4> QED BY <2>1, <2>3, <4>5
      <3> QED BY <3>1, <3>2
    <2>8. CASE u.k = "cancel"
      <3>1. i \in OpenSites(s)
        BY <2>1 DEF OpenSites
      <3>2. W("abandon", h, i) \in jobs'
        BY <1>2, <2>8, <3>1 DEF JobsAfter
      <3>3. Closes(W("abandon", h, i), r, i)
        BY <2>1 DEF Closes, W
      <3> QED BY <3>2, <3>3 DEF HasOwner, CloserWaits
    <2> QED BY <1>2, <2>4, <2>5, <2>6, <2>7, <2>8, UpdateFields DEF UpdateKind
  <1> QED BY <1>4, <1>6, <1>7, <1>8 DEF HasOwner

LEMMA ReadKeepsOwners == IInv /\ TabsOwned /\ ReadState => TabsOwned'
  <1> SUFFICES ASSUME IInv, TabsOwned, ReadState, crashes = 0,
                      NEW r \in Ids, NEW i \in Sites, Open(r, i), ~TakenOver(r)'
               PROVE  HasOwner(r, i)'
    BY DEF TabsOwned, ReadState, browser, counts, Open
  <1>1. /\ queue # <<>> /\ snap = NoRun /\ snap' \in {NoRun, stored}
        /\ UNCHANGED <<stored, runs>>
    BY DEF ReadState, storage
  <1>2. NoRun \notin Ids
    BY DEF NoRun, Ids
  <1>3. InHand(r)' <=> InHand(r)
    BY <1>1, <1>2 DEF InHand
  <1>4. HasOwner(r, i)
    BY <1>1, <1>3 DEF TabsOwned, TakenOver
  <1>5. CASE HeldTab(r, i) \/ CloserWaits(r, i)
    <2>1. jobs \subseteq jobs'
      BY DEF ReadState
    <2> QED BY <1>1, <1>3, <1>5, <2>1 DEF HasOwner, HeldTab, CloserWaits
  <1>6. CASE BindWaits(r, i)
    <2>1. PICK w \in Chain : w.k = "bind" /\ w.sid = r /\ w.idx = i
      BY <1>6 DEF BindWaits
    <2>2. CASE queue' = queue
      BY <2>1, <2>2 DEF HasOwner, BindWaits, Chain
    <2>3. CASE queue' # queue
      <3>1. queue' = Tail(queue) /\ jobs' = jobs \cup JobsAfterAbort(Head(queue))
        BY <2>3 DEF ReadState
      <3>2. CASE w = Head(queue)
        <4>1. W("drop", r, i) \in jobs'
          BY <2>1, <3>1, <3>2 DEF JobsAfterAbort
        <4>2. Closes(W("drop", r, i), r, i)
          BY DEF Closes, W
        <4> QED BY <4>1, <4>2 DEF HasOwner, CloserWaits
      <3>3. CASE w # Head(queue)
        <4>1. \E n \in 1 .. Len(queue') : queue'[n] = w
          BY <1>1, <2>1, <3>1, <3>3, ChainTail
        <4> QED BY <2>1, <4>1 DEF HasOwner, BindWaits, Chain
      <3> QED BY <3>2, <3>3
    <2> QED BY <2>2, <2>3
  <1> QED BY <1>4, <1>5, <1>6 DEF HasOwner

LEMMA SetKeepsOwners ==
    ASSUME IInv, TabsOwned, NEW j \in jobs, SetState(j) PROVE TabsOwned'
  <1> SUFFICES ASSUME crashes = 0, NEW r \in Ids, NEW i \in Sites, Open(r, i),
                      ~TakenOver(r)'
               PROVE  HasOwner(r, i)'
    BY DEF TabsOwned, SetState, browser, counts, Open
  <1>1. /\ j.k = "set" /\ stored' = j.sid /\ runs' = [runs EXCEPT ![j.sid] = FreshRun]
        /\ jobs \ {j} \subseteq jobs' /\ UNCHANGED <<queue, snap>>
    BY DEF SetState
  <1>2. runs[j.sid] = NotStarted /\ j.sid \in Ids
    BY <1>1, JobFields DEF IInv, IdsFresh
  <1>3. BindWaits(r, i) => BindWaits(r, i)'
    BY <1>1 DEF BindWaits, Chain
  <1>4. CloserWaits(r, i) => CloserWaits(r, i)'
    BY <1>1 DEF CloserWaits, Closes
  <1>5. CASE r = j.sid
    <2>1. ~Live(runs[r]) /\ ~InFlight(runs[r].site[i])
      BY <1>2, <1>5 DEF NotStarted, FreshRun, Live, InFlight
    <2> QED BY <1>3, <1>4, <2>1 DEF TabsOwned, TakenOver, HasOwner, HeldTab
  <1>6. CASE r # j.sid
    <2>1. runs'[r] = runs[r]
      BY <1>1, <1>2, <1>6, TypeSplits DEF OthersTyped
    <2>2. ~TakenOver(r)
      BY <1>1, <1>6, <2>1 DEF TakenOver, InHand
    <2>3. HeldTab(r, i) => HeldTab(r, i)'
      <3> SUFFICES ASSUME HeldTab(r, i) PROVE HeldTab(r, i)'
        OBVIOUS
      <3>1. Live(runs[r])
        BY InFlightIsCurrent, TypeSplits
           DEF HeldTab, OthersTyped, SitesWalkedInOrder, Live
      <3> QED BY <2>1, <3>1 DEF HeldTab, TakenOver
    <2> QED BY <1>3, <1>4, <2>2, <2>3 DEF TabsOwned, HasOwner
  <1> QED BY <1>5, <1>6

LEMMA OwnersKept == IInv /\ TabsOwned /\ [Next]_vars => TabsOwned'
  <1> SUFFICES ASSUME IInv, TabsOwned, [Next]_vars PROVE TabsOwned'
    OBVIOUS
  <1>0. Harmless \in SUBSET ProperUpdate
    BY DEF Harmless
  <1>1. CASE ReadState
    BY <1>1, ReadKeepsOwners
  <1>2. CASE WriteState
    BY <1>2, WriteKeepsOwners
  <1>3. CASE \E j \in jobs : JobStep(j)
    BY <1>3, SetKeepsOwners, JobsKeepOwners
  <1>4. CASE WorkerDies
    BY <1>4, TypeSplits, BoundsAssumption DEF WorkerDies, TabsOwned, OthersTyped
  <1>5. CASE \/ StartSync \/ CancelSync \/ WatchdogTick \/ Elapse \/ Age
             \/ UNCHANGED vars
    <2>1. /\ UNCHANGED <<runs, stored, snap, crashes, tabs>> /\ jobs \subseteq jobs'
      BY <1>5 DEF StartSync, CancelSync, WatchdogTick, Elapse, Age, vars,
                  storage, worker, browser, counts
    <2>2. Chain \subseteq Chain'
      BY <1>0, <1>5, OthersAdd, AddsToChain
    <2> QED BY <2>1, <2>2, OwnersStay DEF Open, CloserWaits
  <1>6. CASE \E r \in Ids, i \in Sites : TabStep(r, i)
    <2>1. PICK r \in Ids, i \in Sites : TabStep(r, i)
      BY <1>6
    <2>2. UNCHANGED <<runs, stored, snap, crashes>> /\ jobs \subseteq jobs'
      BY <2>1 DEF TabStep, PageLoads, ScanProgress, ScanNeedsAuth, UserClosesTab,
                  ScanEnds, storage, worker, counts
    <2>3. \/ tabs' = tabs
          \/ Open(r, i) /\ tabs' = [tabs EXCEPT ![r][i] = "ready"]
          \/ Open(r, i) /\ tabs' = [tabs EXCEPT ![r][i] = "closed"]
      BY <2>1
         DEF TabStep, PageLoads, ScanProgress, ScanNeedsAuth, UserClosesTab,
             ScanEnds, Open, browser
    <2>6. tabs \in [Ids -> [Sites -> TabState]]
      BY TypeSplits DEF OthersTyped
    <2>5. \A p \in Ids, q \in Sites : Open(p, q)' => Open(p, q)
      <3> SUFFICES ASSUME NEW p \in Ids, NEW q \in Sites, Open(p, q)'
                   PROVE  Open(p, q)
        OBVIOUS
      <3>1. CASE p = r /\ q = i
        BY <2>3, <3>1 DEF Open
      <3>2. CASE ~(p = r /\ q = i)
        <4>1. tabs'[p][q] = tabs[p][q]
          BY <2>3, <2>6, <3>2
        <4> QED BY <4>1 DEF Open
      <3> QED BY <3>1, <3>2
    <2>4. Chain \subseteq Chain'
      BY <1>0, <1>6, OthersAdd, AddsToChain
    <2> QED BY <2>2, <2>5, <2>4, OwnersStay DEF CloserWaits
  <1> QED BY <1>1, <1>2, <1>3, <1>4, <1>5, <1>6 DEF Next

(* OpenTabsOwned: also when a second run takes over in storage while the   *)
(* first one's update is on its way there, and whatever the user closes or *)
(* cancels, an open tab has somebody to close it (background.js:600-633).  *)
THEOREM TabsHaveOwners == Spec => []OpenTabsOwned
  <1>1. Init => TabsOwned
    BY DEF Init, TabsOwned, Open
  <1>2. Spec => []TabsOwned
    BY <1>1, Invariance, OwnersKept, PTL DEF Spec
  <1> QED BY <1>2, Invariance, TabsOwnedIsEnough, PTL

-----------------------------------------------------------------------------
(* A site of a run is scanned at most once: until its scan reports success *)
(* it is in at most one of these stages, and it leaves a stage for the     *)
(* next one or for none.                                                   *)
Stage == {"pending", "open", "bind", "ping", "send", "scanning", "reported"}
Stepping == {"open", "ping", "send"}

At(a, r, i) ==
    \/ a = "pending" /\ runs[r].site[i] = "pending"
    \/ a \in Stepping /\ \E j \in jobs : j.k = a /\ j.sid = r /\ j.idx = i
    \/ a = "bind" /\ BindWaits(r, i)
    \/ a = "scanning" /\ tabs[r][i] = "scanning"
    \/ a = "reported" /\ reports[r][i]

OneStage ==
    \A r \in Ids, i \in Sites, a, b \in Stage : At(a, r, i) /\ At(b, r, i) => a = b

OneJob == \A j \in jobs : j.k \in Stepping => j = W(j.k, j.sid, j.idx)

OneBind ==
    \A m, n \in 1 .. Len(queue) :
       (/\ queue[m].k = "bind" /\ queue[n].k = "bind"
        /\ queue[m].sid = queue[n].sid /\ queue[m].idx = queue[n].idx) => m = n

(* What will settle a site as done comes from a tab that reported success. *)
Backed(u) == u.from \in Ids \X Sites /\ reports[u.from[1]][u.from[2]]

Credited ==
    /\ \A u \in Chain : u.k = "settle" /\ u.ok => Backed(u)
    /\ \A j \in jobs : j.k = "scan:done" /\ j.ok =>
          j.sid \in Ids /\ j.idx \in Sites /\ reports[j.sid][j.idx]

Outcome == OneStage /\ OneJob /\ OneBind /\ Credited /\ DoneWasReported

LEMMA StagesKept ==
    ASSUME OneStage,
           \A r \in Ids, i \in Sites, a \in Stage : At(a, r, i)' => At(a, r, i)
    PROVE  OneStage'
  BY DEF OneStage

LEMMA StageMoves ==
    ASSUME OneStage, NEW p \in Ids, NEW q \in Sites, NEW from \in Stage, NEW to \in Stage,
           At(from, p, q), ~At(from, p, q)',
           \A r \in Ids, i \in Sites, a \in Stage :
              At(a, r, i)' => At(a, r, i) \/ (r = p /\ i = q /\ a = to)
    PROVE  OneStage'
  <1> SUFFICES ASSUME NEW r \in Ids, NEW i \in Sites, NEW a \in Stage, NEW b \in Stage,
                      At(a, r, i)', At(b, r, i)'
               PROVE  a = b
    BY DEF OneStage
  <1>1. CASE r = p /\ i = q
    <2>1. ASSUME NEW c \in Stage, At(c, p, q)' PROVE c = to
      <3>1. CASE At(c, p, q)
        <4>1. c = from
          BY <3>1 DEF OneStage
        <4> QED BY <2>1, <4>1
      <3> QED BY <2>1, <3>1
    <2> QED BY <1>1, <2>1
  <1>2. CASE ~(r = p /\ i = q)
    BY <1>2 DEF OneStage
  <1> QED BY <1>1, <1>2

LEMMA AppendKeepsBinds ==
    ASSUME IInv, OneBind, NEW us \in Seq(ProperUpdate), queue' = queue \o us,
           \A n \in 1 .. Len(us) : us[n].k # "bind"
    PROVE  OneBind'
  <1>1. /\ Len(queue') = Len(queue) + Len(us)
        /\ \A n \in 1 .. Len(queue') :
              queue'[n] = IF n <= Len(queue) THEN queue[n] ELSE us[n - Len(queue)]
        /\ Len(queue) \in Nat /\ Len(us) \in Nat
    BY DEF IInv, Addressed
  <1>2. ASSUME NEW n \in 1 .. Len(queue'), queue'[n].k = "bind"
        PROVE  n \in 1 .. Len(queue) /\ queue'[n] = queue[n]
    <2>1. CASE n > Len(queue)
      <3>1. n - Len(queue) \in 1 .. Len(us)
        BY <1>1, <2>1
      <3> QED BY <1>1, <1>2, <2>1, <3>1
    <2> QED BY <1>1, <2>1
  <1> QED BY <1>2 DEF OneBind

LEMMA NewBind ==
    ASSUME IInv, OneBind, NEW w \in ProperUpdate, queue' = Append(queue, w),
           ~BindWaits(w.sid, w.idx)
    PROVE  OneBind'
  <1>1. /\ Len(queue') = Len(queue) + 1 /\ Len(queue) \in Nat
        /\ \A n \in 1 .. Len(queue) : queue'[n] = queue[n]
        /\ queue'[Len(queue) + 1] = w
    BY DEF IInv, Addressed
  <1>2. \A n \in 1 .. Len(queue') : n \in 1 .. Len(queue) \/ n = Len(queue) + 1
    BY <1>1
  <1>3. \A n \in 1 .. Len(queue) :
           ~(queue[n].k = "bind" /\ queue[n].sid = w.sid /\ queue[n].idx = w.idx)
    BY DEF BindWaits, Chain
  <1> QED BY <1>1, <1>2, <1>3 DEF OneBind

(* The head leaves the chain: no other update binds what it binds.         *)
LEMMA HeadLeaves ==
    ASSUME IInv, OneBind, queue # <<>>, NEW us \in Seq(Harmless),
           queue' = Tail(queue) \o us
    PROVE  /\ OneBind'
           /\ \A r \in Ids, i \in Sites :
                 BindWaits(r, i)' =>
                    /\ BindWaits(r, i)
                    /\ LET u == Head(queue)
                       IN  ~(u.k = "bind" /\ u.sid = r /\ u.idx = i)
           /\ \A u \in Chain' : u \in Chain \/ u \in Harmless
  <1>1. us \in Seq(ProperUpdate)
    BY SeqMonotonic DEF Harmless
  <1>2. /\ Chain' \subseteq Chain \cup {us[n] : n \in 1 .. Len(us)}
        /\ Len(queue') = Len(queue) - 1 + Len(us) /\ Len(queue) \in Nat
        /\ \A n \in 1 .. Len(queue) - 1 : queue'[n] = queue[n + 1]
        /\ \A n \in 1 .. Len(us) : queue'[Len(queue) - 1 + n] = us[n]
    BY <1>1, ChainMovesOn
  <1>3. Len(us) \in Nat /\ \A n \in 1 .. Len(us) : us[n] \in Harmless
    OBVIOUS
  <1>4. Len(queue) # 0 /\ Head(queue) = queue[1]
    BY EmptySeq, HeadTailProperties DEF IInv, Addressed
  <1>5. ASSUME NEW n \in 1 .. Len(queue'), queue'[n].k = "bind"
        PROVE  n + 1 \in 1 .. Len(queue) /\ queue'[n] = queue[n + 1]
    <2>1. CASE n > Len(queue) - 1
      <3>1. n - (Len(queue) - 1) \in 1 .. Len(us)
        BY <1>2, <1>3, <2>1
      <3>2. Len(queue) - 1 + (n - (Len(queue) - 1)) = n
        BY <1>2
      <3>3. queue'[n] \in Harmless
        BY <1>2, <1>3, <3>1, <3>2
      <3> QED BY <1>5, <3>3 DEF Harmless
    <2> QED BY <1>2, <1>4, <2>1
  <1>6. OneBind'
    <2> SUFFICES ASSUME NEW m \in 1 .. Len(queue'), NEW n \in 1 .. Len(queue'),
                        queue'[m].k = "bind", queue'[n].k = "bind",
                        queue'[m].sid = queue'[n].sid, queue'[m].idx = queue'[n].idx
                 PROVE  m = n
      BY DEF OneBind
    <2>1. m + 1 = n + 1
      BY <1>5 DEF OneBind
    <2> QED BY <2>1
  <1>7. ASSUME NEW r \in Ids, NEW i \in Sites, BindWaits(r, i)'
        PROVE  /\ BindWaits(r, i)
               /\ LET u == Head(queue)
                  IN  ~(u.k = "bind" /\ u.sid = r /\ u.idx = i)
    <2>1. PICK n \in 1 .. Len(queue') :
             queue'[n].k = "bind" /\ queue'[n].sid = r /\ queue'[n].idx = i
      BY <1>7 DEF BindWaits, Chain
    <2>2. n + 1 \in 1 .. Len(queue) /\ queue'[n] = queue[n + 1]
      BY <1>5, <2>1
    <2>3. BindWaits(r, i)
      BY <2>1, <2>2 DEF BindWaits, Chain
    <2>4. 1 \in 1 .. Len(queue) /\ n + 1 # 1
      BY <1>2, <1>4, <2>2
    <2> QED BY <1>4, <2>1, <2>2, <2>3, <2>4 DEF OneBind
  <1> QED BY <1>2, <1>3, <1>6, <1>7

LEMMA OutcomeFrom ==
    ASSUME Outcome, OneStage', OneJob', OneBind',
           \A r \in Ids, i \in Sites : reports[r][i] => reports'[r][i],
           \A u \in Chain' : \/ u \in Chain \/ u \in Harmless
                             \/ u.k = "settle" /\ Backed(u)',
           \A j \in jobs' : \/ j \in jobs \/ j.k # "scan:done"
                            \/ /\ j.sid \in Ids /\ j.idx \in Sites
                               /\ j.ok => reports'[j.sid][j.idx],
           \A r \in Ids, i \in Sites :
              runs'[r].site[i] = "done" => runs[r].site[i] = "done" \/ reports[r][i]
    PROVE  Outcome'
  <1>1. DoneWasReported'
    BY DEF Outcome, DoneWasReported
  <1>2. ASSUME NEW u \in Chain', u.k = "settle", u.ok PROVE Backed(u)'
    <2>1. CASE u \in Chain
      <3>1. Backed(u)
        BY <1>2, <2>1 DEF Outcome, Credited
      <3>2. PICK r \in Ids, i \in Sites : u.from = <<r, i>>
        BY <3>1 DEF Backed
      <3> QED BY <3>1, <3>2 DEF Backed
    <2>2. CASE u \in Harmless
      BY <1>2, <2>2 DEF Harmless
    <2> QED BY <2>1, <2>2
  <1>3. ASSUME NEW j \in jobs', j.k = "scan:done", j.ok
        PROVE  j.sid \in Ids /\ j.idx \in Sites /\ reports'[j.sid][j.idx]
    BY <1>3 DEF Outcome, Credited
  <1> QED BY <1>1, <1>2, <1>3 DEF Outcome, Credited

(* Steps that take no site from one stage to the next.                     *)
LEMMA QuietKeepsOutcome ==
    ASSUME IInv, Outcome, Adds(Harmless), UNCHANGED reports,
           \A j \in jobs' : j \in jobs \/ j.k \notin Stepping \cup {"scan:done"},
           \A r \in Ids, i \in Sites :
              /\ tabs'[r][i] = "scanning" => tabs[r][i] = "scanning"
              /\ runs'[r].site[i] = "pending" => runs[r].site[i] = "pending"
              /\ runs'[r].site[i] = "done" => runs[r].site[i] = "done"
    PROVE  Outcome'
  <1>1. PICK us \in Seq(Harmless) : queue' = queue \o us
    BY DEF Adds
  <1>2. us \in Seq(ProperUpdate)
    BY SeqMonotonic DEF Harmless
  <1>3. \A n \in 1 .. Len(us) : us[n] \in Harmless
    OBVIOUS
  <1>4. OneBind'
    BY <1>1, <1>2, <1>3, AppendKeepsBinds DEF Outcome, Harmless
  <1>5. \A u \in Chain' : u \in Chain \/ u \in Harmless
    <2>1. Chain' = Chain \cup {us[n] : n \in 1 .. Len(us)}
      BY <1>1, <1>2, ChainAfterAppend
    <2> QED BY <1>3, <2>1
  <1>6. OneStage'
    <2> SUFFICES ASSUME NEW r \in Ids, NEW i \in Sites, NEW a \in Stage, At(a, r, i)'
                 PROVE  At(a, r, i)
      BY StagesKept DEF Outcome
    <2>1. BindWaits(r, i)' => BindWaits(r, i)
      BY <1>5 DEF BindWaits, Harmless
    <2>2. CASE a \in Stepping
      <3>1. \E j \in jobs' : j.k = a /\ j.sid = r /\ j.idx = i
        BY <2>2 DEF At, Stepping
      <3> QED BY <2>2, <3>1 DEF At
    <2> QED BY <2>1, <2>2 DEF At
  <1>7. OneJob'
    BY DEF Outcome, OneJob
  <1> QED BY <1>4, <1>5, <1>6, <1>7, OutcomeFrom

(* openAndScan, up to the point where the content script scans.            *)
LEMMA OpeningKeepsOutcome ==
    ASSUME IInv, Outcome, NEW j \in jobs, OpenTab(j) PROVE Outcome'
  <1>1. /\ UNCHANGED <<runs, reports>> /\ jobs' \subseteq jobs \ {j}
        /\ j.k = "open" /\ j.sid \in Ids /\ j.idx \in Sites
    BY OpenTabAdds DEF OpenTab, Continue, storage, browser
  <1>2. CASE Adds(Harmless) /\ tabs' = tabs
    BY <1>1, <1>2, QuietKeepsOutcome
  <1>3. CASE ~(Adds(Harmless) /\ tabs' = tabs)
    <2> DEFINE w == W("bind", j.sid, j.idx)
    <2>1. /\ w \in ProperUpdate /\ queue' = Append(queue, w)
          /\ tabs' = [tabs EXCEPT ![j.sid][j.idx] = "loading"]
      BY <1>3, OpenTabAdds
    <2>2. w.k = "bind" /\ w.sid = j.sid /\ w.idx = j.idx
      BY DEF W
    <2> HIDE DEF w
    <2>3. Chain' = Chain \cup {w}
      BY <2>1, ChainAfterOne
    <2>4. At("open", j.sid, j.idx)
      BY <1>1 DEF At, Stepping
    <2>5. ~At("open", j.sid, j.idx)'
      <3>1. \A i \in jobs : i.k = "open" /\ i.sid = j.sid /\ i.idx = j.idx => i = j
        BY <1>1 DEF Outcome, OneJob, Stepping
      <3> QED BY <1>1, <3>1 DEF At, Stepping
    <2>6. ~BindWaits(j.sid, j.idx)
      BY <1>1, <2>4 DEF Outcome, OneStage, At, Stage
    <2>7. OneBind'
      BY <2>1, <2>2, <2>6, NewBind DEF Outcome
    <2>8. tabs \in [Ids -> [Sites -> TabState]]
      BY TypeSplits DEF OthersTyped
    <2>9. OneStage'
      <3>1. ASSUME NEW r \in Ids, NEW i \in Sites, NEW a \in Stage, At(a, r, i)'
            PROVE  At(a, r, i) \/ (r = j.sid /\ i = j.idx /\ a = "bind")
        <4>1. BindWaits(r, i)' => BindWaits(r, i) \/ (r = j.sid /\ i = j.idx)
          BY <2>2, <2>3 DEF BindWaits
        <4>2. tabs'[r][i] = "scanning" => tabs[r][i] = "scanning"
          BY <1>1, <2>1, <2>8
        <4> QED BY <1>1, <3>1, <4>1, <4>2 DEF At
      <3>2. "open" \in Stage /\ "bind" \in Stage
        BY DEF Stage
      <3> QED BY <1>1, <2>4, <2>5, <3>1, <3>2, StageMoves DEF Outcome
    <2>10. OneJob'
      BY <1>1 DEF Outcome, OneJob
    <2>11. Credited' /\ DoneWasReported'
      BY <1>1, <2>2, <2>3 DEF Outcome, Credited, Backed, DoneWasReported
    <2> QED BY <2>7, <2>9, <2>10, <2>11 DEF Outcome
  <1> QED BY <1>2, <1>3

LEMMA PingKeepsOutcome ==
    ASSUME IInv, Outcome, NEW j \in jobs, PingTab(j) PROVE Outcome'
  <1>1. /\ UNCHANGED <<runs, reports, tabs>> /\ j.k = "ping"
        /\ j.sid \in Ids /\ j.idx \in Sites /\ Adds(Harmless)
        /\ jobs' \subseteq (jobs \ {j}) \cup {W("send", j.sid, j.idx)}
    BY JobFields, JobsAdd
       DEF PingTab, Continue, storage, browser, JobStep, SetState, OpenTab,
           HandleScanDone
  <1>2. At("ping", j.sid, j.idx)
    BY <1>1 DEF At, Stepping
  <1>3. ~At("ping", j.sid, j.idx)'
    <2>1. \A i \in jobs : i.k = "ping" /\ i.sid = j.sid /\ i.idx = j.idx => i = j
      BY <1>1 DEF Outcome, OneJob, Stepping
    <2>2. W("send", j.sid, j.idx).k = "send"
      BY DEF W
    <2> QED BY <1>1, <2>1, <2>2 DEF At, Stepping
  <1>4. PICK us \in Seq(Harmless) : queue' = queue \o us
    BY <1>1 DEF Adds
  <1>5. us \in Seq(ProperUpdate) /\ \A n \in 1 .. Len(us) : us[n] \in Harmless
    BY SeqMonotonic DEF Harmless
  <1>6. OneBind'
    BY <1>4, <1>5, AppendKeepsBinds DEF Outcome, Harmless
  <1>7. \A u \in Chain' : u \in Chain \/ u \in Harmless
    <2>1. Chain' = Chain \cup {us[n] : n \in 1 .. Len(us)}
      BY <1>4, <1>5, ChainAfterAppend
    <2> QED BY <1>5, <2>1
  <1>8. OneStage'
    <2>1. ASSUME NEW r \in Ids, NEW i \in Sites, NEW a \in Stage, At(a, r, i)'
          PROVE  At(a, r, i) \/ (r = j.sid /\ i = j.idx /\ a = "send")
      <3>1. BindWaits(r, i)' => BindWaits(r, i)
        BY <1>7 DEF BindWaits, Harmless
      <3>2. CASE a \in Stepping
        <4>1. PICK k \in jobs' : k.k = a /\ k.sid = r /\ k.idx = i
          BY <2>1, <3>2 DEF At, Stepping
        <4>2. CASE k \in jobs
          BY <3>2, <4>1, <4>2 DEF At
        <4>3. CASE k = W("send", j.sid, j.idx)
          BY <4>1, <4>3 DEF W
        <4> QED BY <1>1, <4>1, <4>2, <4>3
      <3> QED BY <1>1, <2>1, <3>1, <3>2 DEF At
    <2>2. "ping" \in Stage /\ "send" \in Stage
      BY DEF Stage
    <2> QED BY <1>1, <1>2, <1>3, <2>1, <2>2, StageMoves DEF Outcome
  <1>9. W("send", j.sid, j.idx) = W(W("send", j.sid, j.idx).k,
                                    W("send", j.sid, j.idx).sid,
                                    W("send", j.sid, j.idx).idx)
        /\ W("send", j.sid, j.idx).k # "scan:done"
    BY DEF W
  <1>10. OneJob'
    BY <1>1, <1>9 DEF Outcome, OneJob
  <1>11. \A i \in jobs' : i \in jobs \/ i.k # "scan:done"
    BY <1>1, <1>9
  <1> QED BY <1>1, <1>6, <1>7, <1>8, <1>10, <1>11, OutcomeFrom

LEMMA SendKeepsOutcome ==
    ASSUME IInv, Outcome, NEW j \in jobs, SendScan(j) PROVE Outcome'
  <1>1. /\ UNCHANGED <<runs, reports>> /\ j.k = "send" /\ jobs' \subseteq jobs \ {j}
        /\ j.sid \in Ids /\ j.idx \in Sites /\ Adds(Harmless)
        /\ tabs' = tabs \/ tabs' = [tabs EXCEPT ![j.sid][j.idx] = "scanning"]
    BY JobFields, JobsAdd
       DEF SendScan, Continue, storage, browser, JobStep, SetState, OpenTab,
           HandleScanDone
  <1>2. At("send", j.sid, j.idx)
    BY <1>1 DEF At, Stepping
  <1>3. ~At("send", j.sid, j.idx)'
    <2>1. \A i \in jobs : i.k = "send" /\ i.sid = j.sid /\ i.idx = j.idx => i = j
      BY <1>1 DEF Outcome, OneJob, Stepping
    <2> QED BY <1>1, <2>1 DEF At, Stepping
  <1>4. PICK us \in Seq(Harmless) : queue' = queue \o us
    BY <1>1 DEF Adds
  <1>5. us \in Seq(ProperUpdate) /\ \A n \in 1 .. Len(us) : us[n] \in Harmless
    BY SeqMonotonic DEF Harmless
  <1>6. OneBind'
    BY <1>4, <1>5, AppendKeepsBinds DEF Outcome, Harmless
  <1>7. \A u \in Chain' : u \in Chain \/ u \in Harmless
    <2>1. Chain' = Chain \cup {us[n] : n \in 1 .. Len(us)}
      BY <1>4, <1>5, ChainAfterAppend
    <2> QED BY <1>5, <2>1
  <1>8. OneStage'
    <2>0. tabs \in [Ids -> [Sites -> TabState]]
      BY TypeSplits DEF OthersTyped
    <2>1. ASSUME NEW r \in Ids, NEW i \in Sites, NEW a \in Stage, At(a, r, i)'
          PROVE  At(a, r, i) \/ (r = j.sid /\ i = j.idx /\ a = "scanning")
      <3>1. BindWaits(r, i)' => BindWaits(r, i)
        BY <1>7 DEF BindWaits, Harmless
      <3>2. tabs'[r][i] = "scanning" =>
               tabs[r][i] = "scanning" \/ (r = j.sid /\ i = j.idx)
        BY <1>1, <2>0
      <3> QED BY <1>1, <2>1, <3>1, <3>2 DEF At
    <2>2. "send" \in Stage /\ "scanning" \in Stage
      BY DEF Stage
    <2> QED BY <1>1, <1>2, <1>3, <2>1, <2>2, StageMoves DEF Outcome
  <1>9. OneJob'
    BY <1>1 DEF Outcome, OneJob
  <1> QED BY <1>1, <1>6, <1>7, <1>8, <1>9, OutcomeFrom

(* A scan reports once: its tab leaves the stage of scanning, for that of  *)
(* the reported ones if it succeeded.                                      *)
LEMMA ReportKeepsOutcome ==
    ASSUME IInv, Outcome, NEW r \in Ids, NEW i \in Sites, NEW ok \in BOOLEAN,
           ScanEnds(r, i, ok)
    PROVE  Outcome'
  <1> DEFINE w == WOk("scan:done", r, i, ok)
  <1>1. /\ UNCHANGED <<runs, queue>> /\ jobs' = jobs \cup {w}
        /\ tabs[r][i] = "scanning" /\ tabs' = [tabs EXCEPT ![r][i] = "ready"]
        /\ reports' = [reports EXCEPT ![r][i] = ok]
    BY DEF ScanEnds, storage
  <1>2. w.k = "scan:done" /\ w.sid = r /\ w.idx = i /\ w.ok = ok
    BY DEF WOk, W
  <1> HIDE DEF w
  <1>3. /\ tabs \in [Ids -> [Sites -> TabState]]
        /\ reports \in [Ids -> [Sites -> BOOLEAN]]
    BY TypeSplits DEF OthersTyped
  <1>4. tabs'[r][i] = "ready" /\ reports'[r][i] = ok
    BY <1>1, <1>3
  <1>5. ASSUME NEW p \in Ids, NEW q \in Sites, ~(p = r /\ q = i)
        PROVE  tabs'[p][q] = tabs[p][q] /\ reports'[p][q] = reports[p][q]
    BY <1>1, <1>3, <1>5
  <1>6. At("scanning", r, i) /\ ~reports[r][i]
    <2>1. At("scanning", r, i)
      BY <1>1 DEF At
    <2>2. reports[r][i] => At("reported", r, i)
      BY DEF At
    <2> QED BY <2>1, <2>2 DEF Outcome, OneStage, Stage
  <1>7. ~At("scanning", r, i)'
    BY <1>4 DEF At, Stepping
  <1>8. OneStage'
    <2>1. ASSUME NEW p \in Ids, NEW q \in Sites, NEW a \in Stage, At(a, p, q)'
          PROVE  At(a, p, q) \/ (p = r /\ q = i /\ a = "reported")
      <3>1. BindWaits(p, q)' => BindWaits(p, q)
        BY <1>1 DEF BindWaits, Chain
      <3>2. CASE a \in Stepping
        BY <1>1, <1>2, <2>1, <3>2 DEF At, Stepping
      <3>3. CASE a \notin Stepping
        BY <1>1, <1>4, <1>5, <2>1, <3>1, <3>3 DEF At
      <3> QED BY <3>2, <3>3
    <2>2. "scanning" \in Stage /\ "reported" \in Stage
      BY DEF Stage
    <2> QED BY <1>6, <1>7, <2>1, <2>2, StageMoves DEF Outcome
  <1>9. OneJob'
    BY <1>1, <1>2 DEF Outcome, OneJob, Stepping
  <1>10. OneBind' /\ Chain' = Chain
    BY <1>1 DEF Outcome, OneBind, Chain
  <1>11. \A p \in Ids, q \in Sites : reports[p][q] => reports'[p][q]
    BY <1>5, <1>6
  <1>12. \A j \in jobs' : j \in jobs \/ (j.sid = r /\ j.idx = i /\ j.ok = ok)
    BY <1>1, <1>2
  <1>13. \A j \in jobs' : \/ j \in jobs \/ j.k # "scan:done"
                          \/ /\ j.sid \in Ids /\ j.idx \in Sites
                             /\ j.ok => reports'[j.sid][j.idx]
    BY <1>4, <1>12
  <1> QED BY <1>1, <1>8, <1>9, <1>10, <1>11, <1>13, OutcomeFrom

LEMMA ScanDoneKeepsOutcome ==
    ASSUME IInv, Outcome, NEW j \in jobs, HandleScanDone(j) PROVE Outcome'
  <1> DEFINE S == {u \in ProperUpdate : /\ u.k = "settle" /\ u.ok = j.ok
                                        /\ u.from = <<j.sid, j.idx>>}
  <1>1. /\ UNCHANGED <<runs, reports, tabs>> /\ jobs' \subseteq jobs
        /\ j.k = "scan:done" /\ j.sid \in Ids /\ j.idx \in Sites /\ Adds(S)
    BY ScanDoneAdds DEF HandleScanDone, Continue, storage, browser
  <1>2. PICK us \in Seq(S) : queue' = queue \o us
    BY <1>1 DEF Adds
  <1>3. us \in Seq(ProperUpdate) /\ \A n \in 1 .. Len(us) : us[n] \in S
    BY SeqMonotonic
  <1>4. OneBind'
    BY <1>2, <1>3, AppendKeepsBinds DEF Outcome
  <1>5. \A u \in Chain' : u \in Chain \/ u \in S
    <2>1. Chain' = Chain \cup {us[n] : n \in 1 .. Len(us)}
      BY <1>2, <1>3, ChainAfterAppend
    <2> QED BY <1>3, <2>1
  <1>6. OneStage'
    <2> SUFFICES ASSUME NEW r \in Ids, NEW i \in Sites, NEW a \in Stage, At(a, r, i)'
                 PROVE  At(a, r, i)
      BY StagesKept DEF Outcome
    <2>1. BindWaits(r, i)' => BindWaits(r, i)
      BY <1>5 DEF BindWaits
    <2> QED BY <1>1, <2>1 DEF At
  <1>7. OneJob'
    BY <1>1 DEF Outcome, OneJob
  <1>8. Credited'
    <2>1. ASSUME NEW u \in Chain', u.k = "settle", u.ok PROVE Backed(u)'
      <3>1. CASE u \in Chain
        BY <1>1, <2>1, <3>1 DEF Outcome, Credited, Backed
      <3>2. CASE u \in S
        <4>1. j.ok /\ u.from = <<j.sid, j.idx>>
          BY <2>1, <3>2
        <4>2. reports'[j.sid][j.idx]
          BY <1>1, <4>1 DEF Outcome, Credited
        <4> QED BY <1>1, <4>1, <4>2 DEF Backed
      <3> QED BY <1>5, <3>1, <3>2
    <2> QED BY <1>1, <2>1 DEF Outcome, Credited
  <1>9. DoneWasReported'
    BY <1>1 DEF Outcome, DoneWasReported
  <1> QED BY <1>4, <1>6, <1>7, <1>8, <1>9 DEF Outcome

(* A new run starts with the sites that its id had all along: pending.     *)
LEMMA SetKeepsOutcome ==
    ASSUME IInv, Outcome, NEW j \in jobs, SetState(j) PROVE Outcome'
  <1>1. /\ j.k = "set" /\ runs' = [runs EXCEPT ![j.sid] = FreshRun]
        /\ jobs' = (jobs \ {j}) \cup {W("arm", j.sid, NoSite)}
        /\ UNCHANGED <<queue, tabs, reports>>
    BY DEF SetState, browser
  <1>2. runs[j.sid] = NotStarted /\ j.sid \in Ids
    BY <1>1, JobFields DEF IInv, IdsFresh
  <1>3. \A r \in Ids : runs'[r].site = runs[r].site
    BY <1>1, <1>2, TypeSplits DEF OthersTyped, NotStarted, FreshRun
  <1>4. W("arm", j.sid, NoSite).k = "arm"
    BY DEF W
  <1>5. \A i \in jobs' : i \in jobs \/ i.k \notin Stepping \cup {"scan:done"}
    BY <1>1, <1>4 DEF Stepping
  <1>6. Adds(Harmless)
    BY <1>1, AddsNothing
  <1> QED BY <1>1, <1>3, <1>5, <1>6, QuietKeepsOutcome

LEMMA JobsKeepOutcome ==
    ASSUME IInv, Outcome, NEW j \in jobs, JobStep(j) PROVE Outcome'
  <1>1. CASE SetState(j)
    BY <1>1, SetKeepsOutcome
  <1>2. CASE OpenTab(j)
    BY <1>2, OpeningKeepsOutcome
  <1>3. CASE PingTab(j)
    BY <1>3, PingKeepsOutcome
  <1>4. CASE SendScan(j)
    BY <1>4, SendKeepsOutcome
  <1>5. CASE HandleScanDone(j)
    BY <1>5, ScanDoneKeepsOutcome
  <1>6. CASE \/ ArmWatchdog(j) \/ EnsureToken(j) \/ PollForToken(j) \/ RemoveTab(j)
             \/ ClearWatchdog(j) \/ StampSynced(j) \/ HandleTabRemoved(j) \/ EndReauth(j)
    <2>1. j.k \notin {"set", "open", "scan:done"}
      BY <1>6 DEF ArmWatchdog, EnsureToken, PollForToken, RemoveTab, ClearWatchdog,
                  StampSynced, HandleTabRemoved, EndReauth
    <2>2. Adds(Harmless)
      BY <2>1, JobsAdd DEF SetState, OpenTab, HandleScanDone
    <2>3. UNCHANGED <<runs, reports>>
      BY <1>6 DEF ArmWatchdog, EnsureToken, PollForToken, RemoveTab, ClearWatchdog,
                  StampSynced, HandleTabRemoved, EndReauth, Continue, storage, browser
    <2>4. jobs' \subseteq jobs \cup
             {W("token", j.sid, NoSite), W("poll", j.sid, NoSite),
              W("onRemoved", j.sid, j.idx), W("drop", j.sid, j.idx),
              W("stamp", j.sid, NoSite)}
      BY <1>6 DEF ArmWatchdog, EnsureToken, PollForToken, RemoveTab, ClearWatchdog,
                  StampSynced, HandleTabRemoved, EndReauth, Continue
    <2>5. \A i \in jobs' : i \in jobs \/ i.k \notin Stepping \cup {"scan:done"}
      BY <2>4 DEF Stepping, W
    <2>6. tabs' = tabs \/ tabs' = [tabs EXCEPT ![j.sid][j.idx] = "closed"]
      BY <1>6 DEF ArmWatchdog, EnsureToken, PollForToken, RemoveTab, ClearWatchdog,
                  StampSynced, HandleTabRemoved, EndReauth, Continue, browser
    <2>7. tabs \in [Ids -> [Sites -> TabState]]
      BY TypeSplits DEF OthersTyped
    <2>8. \A r \in Ids, i \in Sites : tabs'[r][i] = "scanning" => tabs[r][i] = "scanning"
      BY <2>6, <2>7
    <2> QED BY <2>2, <2>3, <2>5, <2>8, QuietKeepsOutcome
  <1> QED BY <1>1, <1>2, <1>3, <1>4, <1>5, <1>6 DEF JobStep

LEMMA TabsKeepOutcome ==
    ASSUME IInv, Outcome, NEW r \in Ids, NEW i \in Sites, TabStep(r, i) PROVE Outcome'
  <1>1. CASE \E ok \in BOOLEAN : ScanEnds(r, i, ok)
    BY <1>1, ReportKeepsOutcome
  <1>2. CASE \/ PageLoads(r, i) \/ ScanProgress(r, i) \/ ScanNeedsAuth(r, i)
             \/ UserClosesTab(r, i)
    <2>1. Adds(Harmless)
      BY OthersAdd
    <2>2. UNCHANGED <<runs, reports>>
      BY <1>2 DEF PageLoads, ScanProgress, ScanNeedsAuth, UserClosesTab, storage, browser
    <2>3. jobs' \subseteq jobs \cup {W("reauth", r, i), W("onRemoved", r, i)}
      BY <1>2 DEF PageLoads, ScanProgress, ScanNeedsAuth, UserClosesTab, worker
    <2>4. \A j \in jobs' : j \in jobs \/ j.k \notin Stepping \cup {"scan:done"}
      BY <2>3 DEF Stepping, W
    <2>5. \/ tabs' = tabs \/ tabs' = [tabs EXCEPT ![r][i] = "ready"]
          \/ tabs' = [tabs EXCEPT ![r][i] = "closed"]
      BY <1>2 DEF PageLoads, ScanProgress, ScanNeedsAuth, UserClosesTab, browser
    <2>6. tabs \in [Ids -> [Sites -> TabState]]
      BY TypeSplits DEF OthersTyped
    <2>7. \A p \in Ids, q \in Sites : tabs'[p][q] = "scanning" => tabs[p][q] = "scanning"
      BY <2>5, <2>6
    <2> QED BY <2>1, <2>2, <2>4, <2>7, QuietKeepsOutcome
  <1> QED BY <1>1, <1>2 DEF TabStep

LEMMA ReadKeepsOutcome == IInv /\ Outcome /\ ReadState => Outcome'
  <1> SUFFICES ASSUME IInv, Outcome, ReadState PROVE Outcome'
    OBVIOUS
  <1>1. UNCHANGED <<runs, tabs, reports>> /\ queue # <<>>
    BY DEF ReadState, storage, browser
  <1>2. CASE UNCHANGED <<queue, jobs>>
    <2>1. Adds(Harmless)
      BY <1>2, AddsNothing
    <2> QED BY <1>1, <1>2, <2>1, QuietKeepsOutcome
  <1>3. CASE ~UNCHANGED <<queue, jobs>>
    <2>1. queue' = Tail(queue) /\ jobs' = jobs \cup JobsAfterAbort(Head(queue))
      BY <1>3 DEF ReadState
    <2>2. PICK rest : rest = Tail(queue)
      OBVIOUS
    <2>3. rest \in Seq(ProperUpdate)
      BY <1>1, <2>2, ChainTail
    <2>4. rest = rest \o <<>> /\ <<>> \in Seq(Harmless)
      BY <2>3, ConcatEmptySeq, EmptySeq
    <2>5. queue' = Tail(queue) \o <<>>
      BY <2>1, <2>2, <2>4
    <2>6. /\ OneBind'
          /\ \A r \in Ids, i \in Sites : BindWaits(r, i)' => BindWaits(r, i)
          /\ \A u \in Chain' : u \in Chain \/ u \in Harmless
      BY <1>1, <2>4, <2>5, HeadLeaves DEF Outcome
    <2>7. \A j \in jobs' : j \in jobs \/ j.k \in {"clear", "drop"}
      BY <2>1 DEF JobsAfterAbort, W
    <2>8. OneStage'
      <3> SUFFICES ASSUME NEW r \in Ids, NEW i \in Sites, NEW a \in Stage, At(a, r, i)'
                   PROVE  At(a, r, i)
        BY StagesKept DEF Outcome
      <3>1. CASE a \in Stepping
        BY <2>7, <3>1 DEF At, Stepping
      <3>2. CASE a \notin Stepping
        BY <1>1, <2>6, <3>2 DEF At
      <3> QED BY <3>1, <3>2
    <2>9. OneJob'
      BY <2>7 DEF Outcome, OneJob, Stepping
    <2> QED BY <1>1, <2>6, <2>7, <2>8, <2>9, OutcomeFrom
  <1> QED BY <1>2, <1>3

LEMMA HeadInChain == IInv /\ queue # <<>> => Head(queue) \in Chain
  <1> SUFFICES ASSUME IInv, queue # <<>> PROVE Head(queue) \in Chain
    OBVIOUS
  <1>1. queue \in Seq(ProperUpdate) /\ Len(queue) \in Nat /\ Len(queue) # 0
    BY EmptySeq DEF IInv, Addressed
  <1>2. Head(queue) = queue[1] /\ 1 \in 1 .. Len(queue)
    BY <1>1, HeadTailProperties
  <1> QED BY <1>2 DEF Chain

(* No update makes a site pending, and only the settling of its own tab    *)
(* makes it done: expectedTabId is what ties the report to the site.       *)
LEMMA UpdatesCredit ==
    ASSUME Outcome, NEW u \in ProperUpdate, u \in Chain, NEW h \in Ids, NEW s \in Run,
           NEW t \in Run, t = Post(u, s), Guard(u, h, s), NEW q \in Sites
    PROVE  /\ t.site[q] = "pending" => s.site[q] = "pending"
           /\ t.site[q] = "done" => s.site[q] = "done" \/ reports[h][q]
  <1>1. CASE u.k \in {"prompt", "fail", "bind", "progress"}
    <2>1. t.site = s.site
      BY <1>1 DEF Post, Run
    <2> QED BY <2>1
  <1>2. CASE u.k = "cancel"
    <2>1. t = CancelPost(s)
      BY <1>2 DEF Post
    <2>2. t.site = [i \in Sites |-> IF Settled(s.site[i]) THEN s.site[i]
                                   ELSE "skipped"]
      BY <2>1 DEF CancelPost, Run
    <2> QED BY <2>2 DEF Settled
  <1>3. CASE u.k = "mark"
    <2>1. t = [s EXCEPT !.site[u.idx] = "scanning"]
      BY <1>3 DEF Post
    <2>2. t.site[q] = s.site[q] \/ t.site[q] = "scanning"
      BY <2>1 DEF Run
    <2> QED BY <2>2
  <1>4. CASE u.k = "advance"
    <2>1. t = AdvancePost(s)
      BY <1>4 DEF Post
    <2>2. t.site[q] = s.site[q] \/ t.site[q] = "waiting"
      BY <2>1 DEF AdvancePost, Finished, Take, Run
    <2> QED BY <2>2
  <1>5. CASE u.k = "settle"
    <2>1. u.idx \in Sites /\ (u.from # NoTab => u.from = TabOf(h, s, u.idx))
      BY <1>5, UpdateFields DEF Guard, SettleGuard
    <2>2. PICK d : d = IF u.ok THEN "done" ELSE "failed"
      OBVIOUS
    <2>3. t = [s EXCEPT !.site[u.idx] = d, !.bound[u.idx] = FALSE]
      BY <1>5, <2>2 DEF Post, SettlePost
    <2>4. t.site[q] = IF q = u.idx THEN d ELSE s.site[q]
      BY <2>1, <2>3 DEF Run
    <2>5. u.ok => reports[h][u.idx]
      <3> SUFFICES ASSUME u.ok PROVE reports[h][u.idx]
        OBVIOUS
      <3>1. Backed(u)
        BY <1>5 DEF Outcome, Credited
      <3>2. PICK r \in Ids, i \in Sites : u.from = <<r, i>>
        BY <3>1 DEF Backed
      <3>3. u.from # NoTab
        BY <3>2 DEF NoTab, NoRun, Ids
      <3>4. u.from = <<h, u.idx>>
        BY <2>1, <3>3 DEF TabOf
      <3> QED BY <3>1, <3>4 DEF Backed
    <2> QED BY <2>2, <2>4, <2>5
  <1> QED BY <1>1, <1>2, <1>3, <1>4, <1>5, UpdateFields DEF UpdateKind

LEMMA WriteKeepsOutcome == IInv /\ Outcome /\ WriteState => Outcome'
  <1> SUFFICES ASSUME IInv, Outcome, WriteState PROVE Outcome'
    OBVIOUS
  <1>1. PICK u, h, s, t : u = Head(queue) /\ h = snap /\ s = runs[h] /\ t = Post(u, s)
    OBVIOUS
  <1>2. /\ u \in ProperUpdate /\ h \in Ids /\ s \in Run /\ t \in Run
        /\ RunShape(s) /\ Guard(u, h, s) /\ queue # <<>>
        /\ runs'[h] = t /\ \A p \in Ids : p # h => runs'[p] = runs[p]
        /\ queue' = Tail(queue) \o UpdatesAfter(u, s)
        /\ UpdatesAfter(u, s) \in Seq(Harmless)
        /\ jobs' = jobs \cup JobsAfter(u, h, s, t)
        /\ UNCHANGED <<tabs, reports>>
    BY <1>1, Writes
  <1>3. /\ OneBind'
        /\ \A r \in Ids, i \in Sites :
              BindWaits(r, i)' => /\ BindWaits(r, i)
                                  /\ ~(u.k = "bind" /\ u.sid = r /\ u.idx = i)
        /\ \A v \in Chain' : v \in Chain \/ v \in Harmless
    BY <1>1, <1>2, HeadLeaves DEF Outcome
  <1>4. u \in Chain
    BY <1>1, <1>2, HeadInChain
  <1>5. \A r \in Ids, i \in Sites :
           /\ runs'[r].site[i] = "pending" => runs[r].site[i] = "pending"
           /\ runs'[r].site[i] = "done" => runs[r].site[i] = "done" \/ reports[r][i]
    BY <1>1, <1>2, <1>4, UpdatesCredit
  <1>6. CASE u.k = "bind"
    <2> DEFINE w == W("ping", h, u.idx)
    <2>1. jobs' = jobs \cup {w}
      BY <1>2, <1>6 DEF JobsAfter
    <2>2. w.k = "ping" /\ w.sid = h /\ w.idx = u.idx /\ w = W(w.k, w.sid, w.idx)
      BY DEF W
    <2> HIDE DEF w
    <2>3. u.sid = h /\ u.idx \in Sites
      BY <1>2, <1>6, UpdateFields DEF Guard, WaitingGuard
    <2>4. At("bind", h, u.idx)
      BY <1>4, <1>6, <2>3 DEF At, BindWaits
    <2>5. ~At("bind", h, u.idx)'
      BY <1>2, <1>3, <1>6, <2>3 DEF At, Stepping
    <2>6. ASSUME NEW r \in Ids, NEW i \in Sites, NEW a \in Stage, At(a, r, i)'
          PROVE  At(a, r, i) \/ (r = h /\ i = u.idx /\ a = "ping")
      <3>1. CASE a \in Stepping
        BY <2>1, <2>2, <2>6, <3>1 DEF At, Stepping
      <3>2. CASE a \notin Stepping
        BY <1>2, <1>3, <1>5, <2>6, <3>2 DEF At
      <3> QED BY <3>1, <3>2
    <2>7. "bind" \in Stage /\ "ping" \in Stage
      BY DEF Stage
    <2>8. OneStage'
      BY <1>2, <2>3, <2>4, <2>5, <2>6, <2>7, StageMoves DEF Outcome
    <2>9. OneJob'
      BY <2>1, <2>2 DEF Outcome, OneJob
    <2>10. \A j \in jobs' : j \in jobs \/ j.k # "scan:done"
      BY <2>1, <2>2
    <2> QED BY <1>2, <1>3, <1>5, <2>8, <2>9, <2>10, OutcomeFrom
  <1>7. CASE u.k = "advance" /\ t.phase # "done"
    <2>1. PICK q : q = FirstPending(s)
      OBVIOUS
    <2>2. t = AdvancePost(s) /\ Live(s) /\ ~AnyInFlight(s)
      BY <1>1, <1>2, <1>7 DEF Post, Guard, AdvanceGuard
    <2>3. Pending(s) # {}
      BY <1>2, <1>7, <2>2 DEF AdvancePost, Finished, Run
    <2>4. q \in Pending(s)
      BY <1>2, <2>1, <2>2, <2>3, FirstPendingIsNext
    <2>5. q \in Sites /\ s.site[q] = "pending"
      BY <2>4 DEF Pending
    <2>6. t.cur = q /\ t.site[q] = "waiting"
      BY <1>2, <2>1, <2>2, <2>3, <2>5 DEF AdvancePost, Take, Run
    <2> DEFINE w == W("open", h, q)
    <2>7. jobs' = jobs \cup {w}
      BY <1>2, <1>7, <2>6 DEF JobsAfter
    <2>8. w.k = "open" /\ w.sid = h /\ w.idx = q /\ w = W(w.k, w.sid, w.idx)
      BY DEF W
    <2> HIDE DEF w
    <2>9. At("pending", h, q) /\ ~At("pending", h, q)'
      BY <1>1, <1>2, <2>5, <2>6 DEF At, Stepping
    <2>10. ASSUME NEW r \in Ids, NEW i \in Sites, NEW a \in Stage, At(a, r, i)'
           PROVE  At(a, r, i) \/ (r = h /\ i = q /\ a = "open")
      <3>1. CASE a \in Stepping
        BY <2>7, <2>8, <2>10, <3>1 DEF At, Stepping
      <3>2. CASE a \notin Stepping
        BY <1>2, <1>3, <1>5, <2>10, <3>2 DEF At
      <3> QED BY <3>1, <3>2
    <2>11. "pending" \in Stage /\ "open" \in Stage
      BY DEF Stage
    <2>12. OneStage'
      BY <1>2, <2>5, <2>9, <2>10, <2>11, StageMoves DEF Outcome
    <2>13. OneJob'
      BY <2>7, <2>8 DEF Outcome, OneJob
    <2>14. \A j \in jobs' : j \in jobs \/ j.k # "scan:done"
      BY <2>7, <2>8
    <2> QED BY <1>2, <1>3, <1>5, <2>12, <2>13, <2>14, OutcomeFrom
  <1>8. CASE u.k # "bind" /\ ~(u.k = "advance" /\ t.phase # "done")
    <2>1. \A j \in JobsAfter(u, h, s, t) : j.k \notin Stepping \cup {"scan:done"}
      BY <1>8 DEF JobsAfter, Stepping, W, WOk
    <2>2. OneStage'
      <3> SUFFICES ASSUME NEW r \in Ids, NEW i \in Sites, NEW a \in Stage, At(a, r, i)'
                   PROVE  At(a, r, i)
        BY StagesKept DEF Outcome
      <3>1. CASE a \in Stepping
        BY <1>2, <2>1, <3>1 DEF At, Stepping
      <3>2. CASE a \notin Stepping
        BY <1>2, <1>3, <1>5, <3>2 DEF At
      <3> QED BY <3>1, <3>2
    <2>3. OneJob'
      BY <1>2, <2>1 DEF Outcome, OneJob
    <2>4. \A j \in jobs' : j \in jobs \/ j.k # "scan:done"
      BY <1>2, <2>1
    <2> QED BY <1>2, <1>3, <1>5, <2>2, <2>3, <2>4, OutcomeFrom
  <1> QED BY <1>6, <1>7, <1>8

LEMMA DeathKeepsOutcome == IInv /\ Outcome /\ WorkerDies => Outcome'
  <1> SUFFICES ASSUME IInv, Outcome, WorkerDies PROVE Outcome'
    OBVIOUS
  <1>1. UNCHANGED <<runs, tabs, reports>> /\ queue' = <<>> /\ jobs' = {}
    BY DEF WorkerDies, storage, browser
  <1>2. OneBind' /\ Chain' = {}
    BY <1>1 DEF OneBind, Chain
  <1>3. OneStage'
    BY <1>1, <1>2, StagesKept DEF Outcome, At, BindWaits
  <1>4. OneJob'
    BY <1>1 DEF OneJob
  <1> QED BY <1>1, <1>2, <1>3, <1>4, OutcomeFrom

LEMMA OutcomeKept == IInv /\ Outcome /\ [Next]_vars => Outcome'
  <1> SUFFICES ASSUME IInv, Outcome, [Next]_vars PROVE Outcome'
    OBVIOUS
  <1>1. CASE ReadState \/ WriteState \/ WorkerDies
    BY <1>1, ReadKeepsOutcome, WriteKeepsOutcome, DeathKeepsOutcome
  <1>2. CASE \E j \in jobs : JobStep(j)
    BY <1>2, JobsKeepOutcome
  <1>3. CASE \E r \in Ids, i \in Sites : TabStep(r, i)
    BY <1>3, TabsKeepOutcome
  <1>4. CASE \/ StartSync \/ CancelSync \/ WatchdogTick \/ Elapse \/ Age
             \/ UNCHANGED vars
    <2>1. Adds(Harmless)
      BY <1>4, OthersAdd
    <2>2. /\ UNCHANGED <<runs, tabs, reports>>
          /\ jobs' \subseteq jobs \cup {W("set", starts', NoSite)}
      BY <1>4 DEF StartSync, CancelSync, WatchdogTick, Elapse, Age, vars,
                  storage, worker, browser
    <2>3. \A j \in jobs' : j \in jobs \/ j.k \notin Stepping \cup {"scan:done"}
      BY <2>2 DEF Stepping, W
    <2> QED BY <2>1, <2>2, <2>3, QuietKeepsOutcome
  <1> QED BY <1>1, <1>2, <1>3, <1>4 DEF Next

(* DoneWasReported: whatever is lost, repeated or overtaken, a site counts *)
(* as done only if the scan of its own tab reported success, and a report  *)
(* is not taken back (background.js:668-676).                              *)
THEOREM DoneIsReported == Spec => []DoneWasReported
  <1>1. Init => Outcome
    <2> SUFFICES ASSUME Init PROVE Outcome
      OBVIOUS
    <2>1. /\ queue = <<>> /\ jobs = {} /\ Chain = {}
          /\ \A r \in Ids, i \in Sites : /\ runs[r].site[i] = "pending"
                                         /\ tabs[r][i] = "unopened" /\ ~reports[r][i]
      BY DEF Init, Chain, NotStarted, FreshRun
    <2>2. OneStage
      BY <2>1 DEF OneStage, At, BindWaits
    <2> QED BY <2>1, <2>2 DEF Outcome, OneJob, OneBind, Credited, DoneWasReported
  <1>2. Spec => []Outcome
    BY <1>1, Invariance, OutcomeKept, PTL DEF Spec
  <1>3. Outcome => DoneWasReported
    BY DEF Outcome
  <1> QED BY <1>2, <1>3, PTL

=============================================================================
