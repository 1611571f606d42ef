------------------------- MODULE ExtensionRunProofs -------------------------
(***************************************************************************)
(* Proofs about ExtensionRun.tla, for every number of sites, runs, worker  *)
(* deaths and outside events: the inductive invariant IInv, type           *)
(* correctness, the shape of the stored state, and that every run keeps    *)
(* the contract of RunContract.tla.                                        *)
(***************************************************************************)
EXTENDS ExtensionRun, SequenceTheorems, TLAPS

-----------------------------------------------------------------------------
(* Addressed work: an update on the chain names the run it is for, unless  *)
(* it is for whichever run is stored, and names a site where it needs one. *)
ProperUpdate ==
    {u \in Work(UpdateKind) :
        /\ u.k \notin {"prompt", "cancel"} => u.sid \in Ids
        /\ u.k \in {"bind", "mark"} => u.idx \in Sites}

ProperJob ==
    {j \in Work(JobKind) :
        /\ j.k # "clear" => j.sid \in Ids
        /\ j.k \in {"open", "ping", "send", "close", "drop", "scan:done",
                    "onRemoved", "reauth"} => j.idx \in Sites}

(* The update that has read storage may still write: the state it read is  *)
(* the last one written for that run, and passes its guard.                *)
ReadHolds == snap # NoRun => queue # <<>> /\ Guard(Head(queue), snap, runs[snap])

(* A request whose state is not yet written owns an id nobody else uses.   *)
IdsFresh ==
    /\ \A j \in jobs : j.k = "set" => /\ j = W("set", j.sid, NoSite)
                                      /\ j.sid <= starts
                                      /\ runs[j.sid] = NotStarted
    /\ \A r \in Ids : r > starts => runs[r] = NotStarted

Addressed == queue \in Seq(ProperUpdate) /\ jobs \subseteq ProperJob

IInv == TypeOK /\ Addressed /\ SitesWalkedInOrder /\ ReadHolds /\ IdsFresh

-----------------------------------------------------------------------------
(* What an update may do to a well-formed run state.                       *)

(* In a walk the first pending site follows the current one; before the    *)
(* walk it is the first site.                                              *)
LEMMA FirstPendingIsNext ==
    ASSUME NEW s \in Run, RunShape(s), Live(s), ~AnyInFlight(s),
           Pending(s) # {}
    PROVE  /\ FirstPending(s) \in Pending(s)
           /\ \A j \in Sites : j < FirstPending(s) => Settled(s.site[j])
           /\ \A j \in Sites : j >= FirstPending(s) => s.site[j] = "pending"
  <1> DEFINE first == IF s.phase = "authorizing" THEN 1 ELSE s.cur + 1
  <1>1. CASE s.phase = "authorizing"
    <2>1. 1 \in Pending(s) /\ \A j \in Pending(s) : 1 <= j
      BY <1>1, BoundsAssumption DEF RunShape, Untouched, Pending, Sites
    <2>2. FirstPending(s) \in Pending(s)
          /\ \A j \in Pending(s) : FirstPending(s) <= j
      BY <2>1 DEF FirstPending
    <2>3. FirstPending(s) = 1
      BY <2>1, <2>2 DEF Pending, Sites
    <2> QED BY <1>1, <2>2, <2>3 DEF RunShape, Untouched, Sites
  <1>2. CASE s.phase = "running"
    <2>1. Walking(s) BY <1>2 DEF RunShape
    <2>2. \A j \in Sites : /\ j <= s.cur => Settled(s.site[j])
                           /\ j > s.cur => s.site[j] = "pending"
      BY <2>1 DEF Walking, AnyInFlight, InFlight, Settled, Sites
    <2>3. PICK p \in Pending(s) : TRUE OBVIOUS
    <2>4. p \in Sites /\ p > s.cur /\ s.cur \in Sites
      BY <2>1, <2>2, <2>3 DEF Pending, Settled, Walking, Sites
    <2>5. s.cur + 1 \in Pending(s) /\ \A j \in Pending(s) : s.cur + 1 <= j
      BY <2>2, <2>4, BoundsAssumption DEF Pending, Settled, Sites
    <2>6. FirstPending(s) \in Pending(s)
          /\ \A j \in Pending(s) : FirstPending(s) <= j
      BY <2>5 DEF FirstPending
    <2>7. FirstPending(s) = s.cur + 1
      BY <2>4, <2>5, <2>6, BoundsAssumption DEF Pending, Sites
    <2> QED BY <2>2, <2>4, <2>6, <2>7 DEF Sites
  <1> QED BY <1>1, <1>2 DEF Live

(* A run state is typed whatever an update makes of it.                    *)
LEMMA PostIsRun ==
    ASSUME NEW u \in ProperUpdate, NEW r \in Ids, NEW s \in Run,
           RunShape(s), Guard(u, r, s)
    PROVE  Post(u, s) \in Run
  <1> USE DEF Run, Phase, Status
  <1>1. CASE u.k = "prompt"
    BY <1>1 DEF Post, ProperUpdate, Work
  <1>2. CASE u.k = "cancel"
    BY <1>2 DEF Post, CancelPost, Settled
  <1>3. CASE u.k = "fail"
    BY <1>3 DEF Post
  <1>4. CASE u.k = "advance"
    <2>1. Live(s) /\ ~AnyInFlight(s)
      BY <1>4 DEF Guard, AdvanceGuard
    <2>2. CASE Pending(s) = {}
      BY <1>4, <2>2 DEF Post, AdvancePost, Finished
    <2>3. CASE Pending(s) # {}
      <3>1. FirstPending(s) \in Sites
        BY <2>1, <2>3, FirstPendingIsNext DEF Pending
      <3> QED BY <1>4, <2>3, <3>1 DEF Post, AdvancePost, Take
    <2> QED BY <2>2, <2>3
  <1>5. CASE u.k \in {"bind", "mark", "progress"}
    BY <1>5 DEF Post, ProperUpdate, Work
  <1>6. CASE u.k = "settle"
    BY <1>6 DEF Post, SettlePost, ProperUpdate, Work
  <1> QED
    BY <1>1, <1>2, <1>3, <1>4, <1>5, <1>6 DEF ProperUpdate, Work, UpdateKind

(* Only the site in flight of a running run can be bound, marked, settled. *)
LEMMA InFlightIsCurrent ==
    ASSUME NEW s \in Run, RunShape(s), NEW i \in Sites, InFlight(s.site[i])
    PROVE  s.phase = "running" /\ s.cur = i /\ Walking(s)
  <1>1. s.phase = "running"
    BY DEF RunShape, Untouched, Ended, InFlight, Settled, Run, Phase
  <1>2. Walking(s) BY <1>1 DEF RunShape
  <1> QED BY <1>1, <1>2 DEF Walking, InFlight, Settled, Sites

(* Every update keeps the shape of the run state it passes the guard on.   *)
LEMMA PostKeepsShape ==
    ASSUME NEW u \in ProperUpdate, NEW r \in Ids, NEW s \in Run,
           RunShape(s), Guard(u, r, s)
    PROVE  RunShape(Post(u, s))
  <1> USE DEF Run
  <1>1. CASE u.k = "prompt"
    BY <1>1 DEF Post, Guard, Live, RunShape, Untouched, Walking
  <1>2. CASE u.k = "cancel"
    BY <1>2 DEF Post, CancelPost, RunShape, Ended, Guard, Live, Settled,
                Untouched, Walking, InFlight
  <1>3. CASE u.k = "fail"
    BY <1>3 DEF Post, Guard, FailGuard, RunShape, Untouched
  <1>4. CASE u.k = "advance"
    <2>1. Live(s) /\ ~AnyInFlight(s)
      BY <1>4 DEF Guard, AdvanceGuard
    <2>2. CASE Pending(s) = {}
      <3>1. s.phase = "running" /\ Walking(s)
        <4>1. 1 \in Sites
          BY BoundsAssumption DEF Sites
        <4> QED
          BY <2>1, <2>2, <4>1 DEF RunShape, Untouched, Live, Pending
      <3>2. \A i \in Sites : Settled(s.site[i]) /\ ~s.bound[i]
        BY <2>1, <2>2, <3>1 DEF Walking, Pending, AnyInFlight, Sites
      <3> QED
        BY <1>4, <2>2, <3>1, <3>2
           DEF Post, AdvancePost, Finished, RunShape, Ended
    <2>3. CASE Pending(s) # {}
      <3> DEFINE first == FirstPending(s)
      <3>1. /\ first \in Sites
            /\ \A j \in Sites : j < first => Settled(s.site[j])
            /\ \A j \in Sites : j >= first => s.site[j] = "pending"
        BY <2>1, <2>3, FirstPendingIsNext DEF Pending
      <3>2. \A j \in Sites : ~s.bound[j]
        BY <2>1 DEF RunShape, Untouched, Walking, Live, AnyInFlight
      <3>3. Post(u, s) = Take(s, first, first)
        BY <1>4, <2>3 DEF Post, AdvancePost
      <3> HIDE DEF first
      <3> DEFINE t == Take(s, first, first)
      <3>4. /\ t.cur = first /\ t.bound = s.bound
            /\ t.site[first] = "waiting"
            /\ \A j \in Sites : j # first => t.site[j] = s.site[j]
        BY <3>1 DEF Take
      <3> HIDE DEF t
      <3>5. Walking(t)
        BY <3>1, <3>2, <3>4 DEF Walking, InFlight, Settled, Sites
      <3> QED BY <3>3, <3>5 DEF RunShape, Take, t
    <2> QED BY <2>2, <2>3
  <1>5. CASE u.k \in {"bind", "mark"}
    <2>1. u.idx \in Sites /\ InFlight(s.site[u.idx])
      BY <1>5 DEF Guard, WaitingGuard, ProperUpdate, InFlight
    <2>2. s.phase = "running" /\ s.cur = u.idx /\ Walking(s)
      BY <2>1, InFlightIsCurrent
    <2>3. Walking(Post(u, s))
      BY <1>5, <2>1, <2>2 DEF Post, Walking, InFlight, Settled, Sites
    <2> QED BY <1>5, <2>2, <2>3 DEF RunShape, Post
  <1>6. CASE u.k = "settle"
    <2>1. u.idx \in Sites /\ InFlight(s.site[u.idx])
      BY <1>6 DEF Guard, SettleGuard, ProperUpdate, Work
    <2>2. s.phase = "running" /\ s.cur = u.idx /\ Walking(s)
      BY <2>1, InFlightIsCurrent
    <2>3. Walking(Post(u, s))
      BY <1>6, <2>1, <2>2
         DEF Post, SettlePost, Walking, InFlight, Settled, Sites
    <2> QED BY <1>6, <2>2, <2>3 DEF RunShape, Post, SettlePost
  <1>7. CASE u.k = "progress"
    BY <1>7 DEF Post
  <1> QED
    BY <1>1, <1>2, <1>3, <1>4, <1>5, <1>6, <1>7
       DEF ProperUpdate, Work, UpdateKind

(* A run that passes a guard has been stored.                              *)
LEMMA GuardedIsStored ==
    ASSUME NEW u \in ProperUpdate, NEW r \in Ids, NEW s \in Run,
           RunShape(s), Guard(u, r, s)
    PROVE  s.phase # "none"
  <1>1. CASE u.k \in {"prompt", "cancel", "fail", "advance"}
    BY <1>1 DEF Guard, FailGuard, AdvanceGuard, Live
  <1>2. CASE u.k \in {"bind", "mark", "settle"}
    <2>1. u.idx \in Sites /\ InFlight(s.site[u.idx])
      BY <1>2 DEF Guard, WaitingGuard, SettleGuard, ProperUpdate, Work,
                  InFlight
    <2> QED BY <2>1, InFlightIsCurrent
  <1>3. CASE u.k = "progress"
    BY <1>3 DEF Guard, ProgressGuard, RunShape, Untouched
  <1> QED BY <1>1, <1>2, <1>3 DEF ProperUpdate, Work, UpdateKind

-----------------------------------------------------------------------------
(* All work the steps leave behind is addressed.                           *)

LEMMA UpdatesAddressed ==
    ASSUME NEW sid \in Ids
    PROVE  /\ Advance(sid) \in ProperUpdate
           /\ W("fail", sid, NoSite) \in ProperUpdate
           /\ \A i \in Sites \cup {NoSite} : FailSite(sid, i) \in ProperUpdate
           /\ \A i \in Sites : /\ W("bind", sid, i) \in ProperUpdate
                               /\ W("mark", sid, i) \in ProperUpdate
           /\ \A i \in Sites, c \in Sites \cup {NoSite}, ok \in BOOLEAN :
                 /\ WFrom("settle", sid, c, ok, <<sid, i>>) \in ProperUpdate
                 /\ WFrom("progress", sid, c, ok, <<sid, i>>) \in ProperUpdate
  BY DEF Advance, FailSite, W, WOk, WFrom, ProperUpdate, Work, UpdateKind

LEMMA UnaddressedUpdates ==
    /\ \A up \in BOOLEAN : Prompt(up) \in ProperUpdate
    /\ W("cancel", NoRun, NoSite) \in ProperUpdate
  BY DEF Prompt, W, WOk, ProperUpdate, Work, UpdateKind

(* Jobs other than a sync:start that has yet to write its state.           *)
LaterJob == {j \in ProperJob : j.k # "set"}

LEMMA JobsAddressed ==
    /\ W("clear", NoRun, NoSite) \in LaterJob
    /\ \A sid \in Ids :
          /\ \A k \in {"arm", "token", "poll", "abandon", "stamp"} :
                W(k, sid, NoSite) \in LaterJob
          /\ \A ok \in BOOLEAN : WOk("finish", sid, NoSite, ok) \in LaterJob
          /\ \A i \in Sites, k \in JobKind \ {"set"} : W(k, sid, i) \in LaterJob
          /\ \A i \in Sites, ok \in BOOLEAN :
                WOk("scan:done", sid, i, ok) \in LaterJob
  BY DEF W, WOk, LaterJob, ProperJob, Work, JobKind

LEMMA UpdateFields ==
    ASSUME NEW u \in ProperUpdate
    PROVE  /\ u.k \in UpdateKind /\ u.idx \in Sites \cup {NoSite}
           /\ u.ok \in BOOLEAN
           /\ u.k \notin {"prompt", "cancel"} => u.sid \in Ids
           /\ u.k \in {"bind", "mark"} => u.idx \in Sites
  BY DEF ProperUpdate, Work

(* What an update leaves when it was written, and when it was not.         *)
LEMMA AfterwardsAddressed ==
    ASSUME NEW u \in ProperUpdate, NEW r \in Ids, NEW s \in Run,
           RunShape(s), Guard(u, r, s)
    PROVE  /\ JobsAfter(u, r, s, Post(u, s)) \subseteq LaterJob
           /\ UpdatesAfter(u, s) \in Seq(ProperUpdate)
  <1> DEFINE t == Post(u, s)
             js == JobsAfter(u, r, s, t)
  <1>1. CASE u.k = "fail"
    <2>1. js = {W("clear", NoRun, NoSite)} /\ UpdatesAfter(u, s) = <<>>
      BY <1>1 DEF JobsAfter, UpdatesAfter
    <2> QED BY <2>1, JobsAddressed
  <1>2. CASE u.k = "advance"
    <2>1. UpdatesAfter(u, s) = <<>>
      BY <1>2 DEF UpdatesAfter
    <2>2. CASE t.phase = "done"
      <3>1. js = {WOk("finish", r, NoSite, AnyDone(t))}
        BY <1>2, <2>2 DEF JobsAfter
      <3>2. AnyDone(t) \in BOOLEAN
        BY DEF AnyDone
      <3> QED BY <2>1, <3>1, <3>2, JobsAddressed
    <2>3. CASE t.phase # "done"
      <3>1. js = {W("open", r, t.cur)}
        BY <1>2, <2>3 DEF JobsAfter
      <3>2. Live(s) /\ ~AnyInFlight(s)
        BY <1>2 DEF Guard, AdvanceGuard
      <3>3. t = AdvancePost(s)
        BY <1>2 DEF Post
      <3>4. Pending(s) # {}
        BY <2>3, <3>3 DEF AdvancePost, Finished, Run
      <3>5. FirstPending(s) \in Sites
        BY <3>2, <3>4, FirstPendingIsNext DEF Pending
      <3>6. t.cur = FirstPending(s)
        BY <3>3, <3>4 DEF AdvancePost, Take, Run
      <3>7. "open" \in JobKind \ {"set"}
        BY DEF JobKind
      <3> QED BY <2>1, <3>1, <3>5, <3>6, <3>7, JobsAddressed
    <2> QED BY <2>2, <2>3
  <1>3. CASE u.k = "bind"
    <2>1. js = {W("ping", r, u.idx)} /\ UpdatesAfter(u, s) = <<>>
      BY <1>3 DEF JobsAfter, UpdatesAfter
    <2>2. "ping" \in JobKind \ {"set"} /\ u.idx \in Sites
      BY <1>3, UpdateFields DEF JobKind
    <2> QED BY <2>1, <2>2, JobsAddressed
  <1>4. CASE u.k = "settle"
    <2>1. /\ js \in {{}, {W("close", r, u.idx)}}
          /\ UpdatesAfter(u, s) \in {<<>>, <<Advance(u.sid)>>}
      BY <1>4 DEF JobsAfter, UpdatesAfter
    <2>2. u.idx \in Sites /\ u.sid \in Ids
      BY <1>4, UpdateFields DEF Guard, SettleGuard
    <2>3. "close" \in JobKind \ {"set"}
      BY DEF JobKind
    <2>4. W("close", r, u.idx) \in LaterJob /\ Advance(u.sid) \in ProperUpdate
      BY <2>2, <2>3, JobsAddressed, UpdatesAddressed
    <2> HIDE DEF js
    <2>5. js \subseteq LaterJob
      BY <2>1, <2>4
    <2>6. UpdatesAfter(u, s) \in Seq(ProperUpdate)
      <3>1. <<Advance(u.sid)>> \in Seq(ProperUpdate)
        BY <2>4
      <3> QED BY <2>1, <3>1, EmptySeq
    <2> QED BY <2>5, <2>6 DEF js
  <1>5. CASE u.k = "cancel"
    <2>1. /\ js = IF OpenSites(s) = {} THEN {W("abandon", r, NoSite)}
                  ELSE {W("abandon", r, i) : i \in OpenSites(s)}
          /\ UpdatesAfter(u, s) = <<>>
      BY <1>5 DEF JobsAfter, UpdatesAfter
    <2>2. "abandon" \in JobKind \ {"set"}
      BY DEF JobKind
    <2>3. OpenSites(s) \subseteq Sites
      BY DEF OpenSites
    <2>4. /\ W("abandon", r, NoSite) \in LaterJob
          /\ \A i \in OpenSites(s) : W("abandon", r, i) \in LaterJob
      BY <2>2, <2>3, JobsAddressed
    <2> QED BY <2>1, <2>4
  <1>6. CASE u.k \in {"prompt", "mark", "progress"}
    BY <1>6 DEF JobsAfter, UpdatesAfter
  <1> QED
    BY <1>1, <1>2, <1>3, <1>4, <1>5, <1>6, UpdateFields DEF UpdateKind

LEMMA AbortAddressed ==
    ASSUME NEW u \in ProperUpdate
    PROVE  JobsAfterAbort(u) \subseteq LaterJob
  <1>1. CASE u.k = "bind"
    <2>1. JobsAfterAbort(u) = {W("drop", u.sid, u.idx)}
      BY <1>1 DEF JobsAfterAbort
    <2>2. "drop" \in JobKind \ {"set"} /\ u.sid \in Ids /\ u.idx \in Sites
      BY <1>1, UpdateFields DEF JobKind
    <2> QED BY <2>1, <2>2, JobsAddressed
  <1>2. CASE u.k # "bind"
    <2>1. JobsAfterAbort(u) \in {{}, {W("clear", NoRun, NoSite)}}
      BY <1>2 DEF JobsAfterAbort
    <2> QED BY <2>1, JobsAddressed
  <1> QED BY <1>1, <1>2

(* Most steps only add to the chain and to the jobs: the invariant's parts *)
(* about work and run states survive them.                                 *)
LEMMA ChainGrows ==
    ASSUME IInv, UNCHANGED <<runs, snap, starts>>,
           NEW us \in Seq(ProperUpdate), queue' = queue \o us,
           NEW js \in SUBSET LaterJob, jobs' \subseteq jobs \cup js
    PROVE  Addressed' /\ SitesWalkedInOrder' /\ ReadHolds' /\ IdsFresh'
  <1>1. queue \in Seq(ProperUpdate) /\ jobs \subseteq ProperJob
    BY DEF IInv, Addressed
  <1>2. Addressed'
    BY <1>1, ConcatProperties DEF Addressed, LaterJob
  <1>3. SitesWalkedInOrder'
    BY DEF IInv, SitesWalkedInOrder
  <1>4. ReadHolds'
    <2> SUFFICES ASSUME snap # NoRun
                 PROVE  queue' # <<>> /\ Guard(Head(queue'), snap, runs[snap])
      BY DEF ReadHolds
    <2>1. queue # <<>> /\ Guard(Head(queue), snap, runs[snap])
      BY DEF IInv, ReadHolds
    <2>2. queue' # <<>> /\ Head(queue') = Head(queue)
      BY <1>1, <2>1
    <2> QED BY <2>1, <2>2
  <1>5. IdsFresh'
    BY DEF IInv, IdsFresh, LaterJob
  <1> QED BY <1>2, <1>3, <1>4, <1>5

(* The parts of TypeOK that are not about work.                            *)
LEMMA WorkTyped ==
    ASSUME NEW q \in Seq(ProperUpdate), NEW js \in SUBSET ProperJob
    PROVE  q \in Seq(Work(UpdateKind)) /\ js \subseteq Work(JobKind)
  <1>1. ProperUpdate \subseteq Work(UpdateKind)
    BY DEF ProperUpdate
  <1> QED BY <1>1, SeqMonotonic DEF ProperJob

OthersTyped ==
    /\ stored \in Ids \cup {NoRun} /\ runs \in [Ids -> Run]
    /\ snap \in Ids \cup {NoRun}
    /\ tabs \in [Ids -> [Sites -> TabState]]
    /\ reports \in [Ids -> [Sites -> BOOLEAN]]
    /\ alarm \in BOOLEAN /\ stamps \subseteq Ids
    /\ quiet \in 0 .. 2 /\ aged \subseteq Ids
    /\ starts \in 0 .. MaxRuns /\ crashes \in 0 .. MaxCrashes
    /\ events \in 0 .. MaxEvents

LEMMA TypeSplits == IInv <=> /\ OthersTyped /\ Addressed
                             /\ SitesWalkedInOrder /\ ReadHolds /\ IdsFresh
  BY WorkTyped DEF IInv, TypeOK, OthersTyped, Addressed

LEMMA TypeSplitsNext ==
    /\ OthersTyped' /\ Addressed' /\ SitesWalkedInOrder' /\ ReadHolds'
    /\ IdsFresh'
    => IInv'
  BY TypeSplits, PTL

-----------------------------------------------------------------------------
(* The inductive invariant holds initially.                                *)
LEMMA InitEstablishes == Init => IInv
  <1> SUFFICES ASSUME Init PROVE IInv
    OBVIOUS
  <1> USE DEF Init
  <1>1. FreshRun \in Run /\ NotStarted \in Run /\ RunShape(NotStarted)
    BY DEF FreshRun, NotStarted, Run, Phase, Status, RunShape, Untouched
  <1>2. OthersTyped
    <2>1. /\ stored \in Ids \cup {NoRun} /\ runs \in [Ids -> Run]
          /\ snap \in Ids \cup {NoRun}
      BY <1>1
    <2>2. /\ tabs \in [Ids -> [Sites -> TabState]]
          /\ reports \in [Ids -> [Sites -> BOOLEAN]]
      BY DEF TabState
    <2>3. alarm \in BOOLEAN /\ stamps \subseteq Ids /\ aged \subseteq Ids
      OBVIOUS
    <2>4. /\ quiet \in 0 .. 2 /\ starts \in 0 .. MaxRuns
          /\ crashes \in 0 .. MaxCrashes /\ events \in 0 .. MaxEvents
      BY BoundsAssumption
    <2> QED BY <2>1, <2>2, <2>3, <2>4 DEF OthersTyped
  <1>3. Addressed /\ SitesWalkedInOrder /\ ReadHolds /\ IdsFresh
    BY <1>1 DEF Addressed, SitesWalkedInOrder, ReadHolds, IdsFresh
  <1> QED BY <1>2, <1>3, TypeSplits

(* Reading storage keeps it: what is read passes the guard.                *)
LEMMA ReadStateKeeps == IInv /\ ReadState => IInv'
  <1> SUFFICES ASSUME IInv, ReadState PROVE IInv'
    OBVIOUS
  <1>1. OthersTyped /\ Addressed /\ SitesWalkedInOrder /\ ReadHolds /\ IdsFresh
    BY TypeSplits
  <1>2. /\ queue # <<>> /\ snap = NoRun
        /\ UNCHANGED <<stored, runs, tabs, reports, alarm, stamps, quiet, aged,
                       starts, crashes, events>>
    BY DEF ReadState, storage, browser, clock, counts
  <1>3. Head(queue) \in ProperUpdate /\ Tail(queue) \in Seq(ProperUpdate)
    BY <1>1, <1>2, HeadTailProperties DEF Addressed
  <1>4. CASE stored # NoRun /\ Guard(Head(queue), stored, Stored)
    <2>1. snap' = stored /\ UNCHANGED <<queue, jobs>>
      BY <1>4 DEF ReadState
    <2>2. OthersTyped'
      BY <1>1, <1>2, <2>1 DEF OthersTyped
    <2>3. Addressed' /\ SitesWalkedInOrder' /\ IdsFresh'
      BY <1>1, <1>2, <2>1 DEF Addressed, SitesWalkedInOrder, IdsFresh
    <2>4. ReadHolds'
      BY <1>2, <1>4, <2>1 DEF ReadHolds, Stored
    <2> QED BY <2>2, <2>3, <2>4, TypeSplitsNext
  <1>5. CASE ~(stored # NoRun /\ Guard(Head(queue), stored, Stored))
    <2>1. /\ queue' = Tail(queue) /\ UNCHANGED snap
          /\ jobs' = jobs \cup JobsAfterAbort(Head(queue))
      BY <1>5 DEF ReadState
    <2>2. OthersTyped'
      BY <1>1, <1>2, <2>1 DEF OthersTyped
    <2>3. JobsAfterAbort(Head(queue)) \subseteq LaterJob
      BY <1>3, AbortAddressed
    <2>4. Addressed'
      BY <1>1, <1>3, <2>1, <2>3 DEF Addressed, LaterJob
    <2>5. SitesWalkedInOrder' /\ ReadHolds'
      BY <1>1, <1>2, <2>1 DEF SitesWalkedInOrder, ReadHolds
    <2>6. IdsFresh'
      BY <1>1, <1>2, <2>1, <2>3 DEF IdsFresh, LaterJob
    <2> QED BY <2>2, <2>4, <2>5, <2>6, TypeSplitsNext
  <1> QED BY <1>4, <1>5

(* Writing keeps it: only the run that was read changes, by a guarded      *)
(* update, and nobody else holds its id.                                   *)
LEMMA WriteStateKeeps == IInv /\ WriteState => IInv'
  <1> SUFFICES ASSUME IInv, WriteState PROVE IInv'
    OBVIOUS
  <1> DEFINE u == Head(queue)
             s == runs[snap]
             t == Post(u, s)
  <1>1. OthersTyped /\ Addressed /\ SitesWalkedInOrder /\ ReadHolds /\ IdsFresh
    BY TypeSplits
  <1>2. /\ queue # <<>> /\ snap # NoRun
        /\ runs' = [runs EXCEPT ![snap] = t]
        /\ queue' = Tail(queue) \o UpdatesAfter(u, s)
        /\ jobs' = jobs \cup JobsAfter(u, snap, s, t)
        /\ aged' = IF t.phase = "authorizing" THEN aged ELSE aged \ {snap}
        /\ stored' = snap /\ snap' = NoRun /\ quiet' = 0
        /\ UNCHANGED <<tabs, reports, alarm, stamps, starts, crashes, events>>
    BY DEF WriteState, browser, counts
  <1>3. u \in ProperUpdate /\ Tail(queue) \in Seq(ProperUpdate)
    BY <1>1, <1>2, HeadTailProperties DEF Addressed
  <1>4. snap \in Ids /\ s \in Run /\ RunShape(s) /\ Guard(u, snap, s)
    BY <1>1, <1>2 DEF OthersTyped, SitesWalkedInOrder, ReadHolds
  <1>5. t \in Run /\ RunShape(t) /\ s.phase # "none"
    BY <1>3, <1>4, PostIsRun, PostKeepsShape, GuardedIsStored
  <1>6. /\ JobsAfter(u, snap, s, t) \subseteq LaterJob
        /\ UpdatesAfter(u, s) \in Seq(ProperUpdate)
    BY <1>3, <1>4, AfterwardsAddressed
  <1> HIDE DEF u, s, t
  <1>7. OthersTyped'
    BY <1>1, <1>2, <1>4, <1>5 DEF OthersTyped
  <1>8. Addressed'
    BY <1>1, <1>2, <1>3, <1>6, ConcatProperties DEF Addressed, LaterJob
  <1>9. SitesWalkedInOrder'
    BY <1>1, <1>2, <1>4, <1>5 DEF SitesWalkedInOrder, OthersTyped
  <1>10. ReadHolds'
    BY <1>2 DEF ReadHolds
  <1>11. IdsFresh'
    <2>1. s # NotStarted
      BY <1>5 DEF NotStarted, FreshRun
    <2>2. \A r \in Ids : runs[r] = NotStarted => runs'[r] = runs[r]
      BY <1>1, <1>2, <2>1 DEF s, OthersTyped
    <2>3. \A j \in jobs : j.k = "set" => j.sid \in Ids
      BY <1>1 DEF Addressed, ProperJob
    <2> QED BY <1>1, <1>2, <1>6, <2>2, <2>3 DEF IdsFresh, LaterJob
  <1> QED BY <1>7, <1>8, <1>9, <1>10, <1>11, TypeSplitsNext

-----------------------------------------------------------------------------
(* The other steps.                                                        *)

LEMMA StartSyncKeeps == IInv /\ StartSync => IInv'
  <1> SUFFICES ASSUME IInv, StartSync PROVE IInv'
    OBVIOUS
  <1> DEFINE n == starts + 1
  <1>1. OthersTyped /\ Addressed /\ SitesWalkedInOrder /\ ReadHolds /\ IdsFresh
    BY TypeSplits
  <1>2. /\ starts < MaxRuns /\ starts' = n
        /\ jobs' = jobs \cup {W("set", n, NoSite)}
        /\ UNCHANGED <<stored, runs, queue, snap, tabs, reports, alarm, stamps,
                       quiet, aged, crashes, events>>
    BY DEF StartSync, storage, browser, clock
  <1>3. n \in Ids /\ n > starts /\ starts \in Nat
    BY <1>1, <1>2, BoundsAssumption DEF OthersTyped, Ids
  <1>4. /\ W("set", n, NoSite) \in ProperJob
        /\ W("set", n, NoSite).k = "set" /\ W("set", n, NoSite).sid = n
    BY <1>3 DEF W, ProperJob, Work, JobKind
  <1>5. OthersTyped'
    BY <1>1, <1>2, <1>3, BoundsAssumption DEF OthersTyped, Ids
  <1>6. Addressed'
    BY <1>1, <1>2, <1>4 DEF Addressed
  <1>7. SitesWalkedInOrder' /\ ReadHolds'
    BY <1>1, <1>2 DEF SitesWalkedInOrder, ReadHolds
  <1>8. IdsFresh'
    <2>1. runs[n] = NotStarted
      BY <1>1, <1>3 DEF IdsFresh
    <2>2. \A j \in jobs : j.k = "set" => j.sid <= n
      BY <1>1, <1>3 DEF IdsFresh, Addressed, ProperJob, Ids
    <2>3. \A r \in Ids : r > n => r > starts
      BY <1>3 DEF Ids
    <2> QED BY <1>1, <1>2, <1>3, <1>4, <2>1, <2>2, <2>3 DEF IdsFresh
  <1> QED BY <1>5, <1>6, <1>7, <1>8, TypeSplitsNext

(* startSync writes past the chain, but under an id of its own: whatever   *)
(* the head of the chain has read stays as it read it.                     *)
LEMMA SetStateKeeps ==
    ASSUME IInv, NEW j \in jobs, SetState(j)
    PROVE  IInv'
  <1>1. OthersTyped /\ Addressed /\ SitesWalkedInOrder /\ ReadHolds /\ IdsFresh
    BY TypeSplits
  <1>2. /\ j.k = "set" /\ stored' = j.sid /\ quiet' = 0
        /\ runs' = [runs EXCEPT ![j.sid] = FreshRun]
        /\ jobs' = (jobs \ {j}) \cup {W("arm", j.sid, NoSite)}
        /\ UNCHANGED <<queue, snap, tabs, reports, alarm, stamps, aged, starts,
                       crashes, events>>
    BY DEF SetState, browser, counts
  <1>3. j.sid \in Ids
    BY <1>1, <1>2 DEF Addressed, ProperJob
  <1>4. FreshRun \in Run /\ RunShape(FreshRun)
    BY DEF FreshRun, Run, Phase, Status, RunShape, Untouched
  <1>5. W("arm", j.sid, NoSite) \in LaterJob
    BY <1>3, JobsAddressed
  <1>6. runs[j.sid] = NotStarted /\ j = W("set", j.sid, NoSite)
        /\ j.sid <= starts
    BY <1>1, <1>2 DEF IdsFresh
  <1>7. OthersTyped'
    BY <1>1, <1>2, <1>3, <1>4 DEF OthersTyped
  <1>8. Addressed'
    BY <1>1, <1>2, <1>5 DEF Addressed, LaterJob
  <1>9. SitesWalkedInOrder'
    BY <1>1, <1>2, <1>3, <1>4 DEF SitesWalkedInOrder, OthersTyped
  <1>10. ReadHolds'
    <2> SUFFICES ASSUME snap # NoRun
                 PROVE  queue # <<>> /\ Guard(Head(queue), snap, runs'[snap])
      BY <1>2 DEF ReadHolds
    <2>1. /\ queue # <<>> /\ Guard(Head(queue), snap, runs[snap])
          /\ snap \in Ids /\ runs[snap] \in Run /\ RunShape(runs[snap])
      BY <1>1 DEF ReadHolds, OthersTyped, SitesWalkedInOrder
    <2>2. Head(queue) \in ProperUpdate
      BY <1>1, <2>1, HeadTailProperties DEF Addressed
    <2>3. runs[snap].phase # "none"
      BY <2>1, <2>2, GuardedIsStored
    <2>4. snap # j.sid
      BY <1>6, <2>3 DEF NotStarted, FreshRun
    <2>5. runs'[snap] = runs[snap]
      BY <1>1, <1>2, <2>1, <2>4 DEF OthersTyped
    <2> QED BY <2>1, <2>5
  <1>11. IdsFresh'
    <2>1. \A i \in jobs' : i.k = "set" => i \in jobs /\ i # j
      BY <1>2, <1>5 DEF LaterJob
    <2>2. \A i \in jobs : i.k = "set" /\ i # j => i.sid # j.sid
      BY <1>1, <1>6 DEF IdsFresh
    <2>3. \A i \in jobs : i.k = "set" => i.sid \in Ids
      BY <1>1 DEF Addressed, ProperJob
    <2>4. \A r \in Ids : r # j.sid => runs'[r] = runs[r]
      BY <1>1, <1>2 DEF OthersTyped
    <2>5. \A r \in Ids : r > starts => r # j.sid
      BY <1>3, <1>6, <1>1 DEF Ids, OthersTyped
    <2> QED
      BY <1>1, <1>2, <2>1, <2>2, <2>3, <2>4, <2>5 DEF IdsFresh
  <1> QED BY <1>7, <1>8, <1>9, <1>10, <1>11, TypeSplitsNext

(* Jobs that only enqueue updates and leave jobs.                          *)
LEMMA ContinueKeeps ==
    ASSUME IInv, NEW j \in jobs, NEW us \in Seq(ProperUpdate),
           NEW js \in SUBSET LaterJob, Continue(j, us, js)
    PROVE  IInv'
  <1>1. /\ queue' = queue \o us /\ jobs' \subseteq jobs \cup js
        /\ UNCHANGED <<stored, runs, snap, tabs, reports, alarm, stamps, quiet,
                       aged, starts, crashes, events>>
    BY DEF Continue, storage, browser, clock, counts
  <1>2. Addressed' /\ SitesWalkedInOrder' /\ ReadHolds' /\ IdsFresh'
    BY <1>1, ChainGrows
  <1>3. OthersTyped'
    BY <1>1, TypeSplits DEF OthersTyped
  <1> QED BY <1>2, <1>3, TypeSplitsNext

LEMMA JobFields ==
    ASSUME IInv, NEW j \in jobs
    PROVE  /\ j.k \in JobKind /\ j.ok \in BOOLEAN
           /\ j.idx \in Sites \cup {NoSite}
           /\ j.k # "clear" => j.sid \in Ids
           /\ j.k \in {"open", "ping", "send", "close", "drop", "scan:done",
                       "onRemoved", "reauth"} => j.idx \in Sites
  BY TypeSplits DEF Addressed, ProperJob, Work

LEMMA OneUpdate == \A u \in ProperUpdate : <<u>> \in Seq(ProperUpdate)
  OBVIOUS

(* Steps that change nothing else than the chain, the jobs and, in a typed *)
(* way, what the browser and the clock hold.                               *)
LEMMA GrowthKeeps ==
    ASSUME IInv, UNCHANGED <<storage, snap, starts>>, OthersTyped',
           NEW us \in Seq(ProperUpdate), queue' = queue \o us,
           NEW js \in SUBSET LaterJob, jobs' \subseteq jobs \cup js
    PROVE  IInv'
  <1>1. Addressed' /\ SitesWalkedInOrder' /\ ReadHolds' /\ IdsFresh'
    BY ChainGrows DEF storage
  <1> QED BY <1>1, TypeSplitsNext

LEMMA SameQueue == IInv => queue = queue \o <<>>
  BY TypeSplits, ConcatEmptySeq DEF Addressed

LEMMA OneMore ==
    ASSUME IInv, NEW u \in ProperUpdate
    PROVE  Append(queue, u) = queue \o <<u>>
  BY TypeSplits, AppendIsConcat DEF Addressed

(* startSync's tail, ensureRunToken and openAndScan.                       *)
LEMMA StartingKeeps ==
    ASSUME IInv, NEW j \in jobs,
           ArmWatchdog(j) \/ EnsureToken(j) \/ PollForToken(j)
    PROVE  IInv'
  <1>1. j.sid \in Ids
    BY JobFields DEF ArmWatchdog, EnsureToken, PollForToken
  <1>2. /\ Advance(j.sid) \in ProperUpdate
        /\ W("fail", j.sid, NoSite) \in ProperUpdate
        /\ Prompt(TRUE) \in ProperUpdate /\ Prompt(FALSE) \in ProperUpdate
    BY <1>1, UpdatesAddressed, UnaddressedUpdates
  <1>3. W("token", j.sid, NoSite) \in LaterJob
        /\ W("poll", j.sid, NoSite) \in LaterJob
    BY <1>1, JobsAddressed
  <1>4. CASE ArmWatchdog(j)
    <2>1. OthersTyped'
      BY <1>4, TypeSplits
         DEF ArmWatchdog, OthersTyped, storage, clock, counts
    <2>2. /\ UNCHANGED <<storage, snap, starts>> /\ queue' = queue \o <<>>
          /\ jobs' \subseteq jobs \cup {W("token", j.sid, NoSite)}
      BY <1>4, SameQueue DEF ArmWatchdog, counts
    <2>3. {W("token", j.sid, NoSite)} \in SUBSET LaterJob
          /\ <<>> \in Seq(ProperUpdate)
      BY <1>3
    <2> QED BY <2>1, <2>2, <2>3, GrowthKeeps
  <1>5. CASE EnsureToken(j) \/ PollForToken(j)
    <2>1. PICK us \in {<<Advance(j.sid)>>, <<W("fail", j.sid, NoSite)>>,
                       <<Prompt(TRUE)>>, <<Prompt(FALSE), Advance(j.sid)>>},
               js \in {{}, {W("poll", j.sid, NoSite)}} : Continue(j, us, js)
      BY <1>5 DEF EnsureToken, PollForToken
    <2>2. us \in Seq(ProperUpdate)
      <3>1. \A u, v \in ProperUpdate : <<u, v>> \in Seq(ProperUpdate)
        OBVIOUS
      <3> QED BY <1>2, <3>1, OneUpdate
    <2>3. js \subseteq LaterJob
      BY <1>3
    <2> QED BY <2>1, <2>2, <2>3, ContinueKeeps
  <1> QED BY <1>4, <1>5

LEMMA OpeningKeeps ==
    ASSUME IInv, NEW j \in jobs, OpenTab(j) \/ PingTab(j) \/ SendScan(j)
    PROVE  IInv'
  <1>1. j.sid \in Ids /\ j.idx \in Sites
    BY JobFields DEF OpenTab, PingTab, SendScan
  <1>2. /\ FailSite(j.sid, j.idx) \in ProperUpdate
        /\ W("bind", j.sid, j.idx) \in ProperUpdate
        /\ W("mark", j.sid, j.idx) \in ProperUpdate
        /\ W("send", j.sid, j.idx) \in LaterJob
    BY <1>1, UpdatesAddressed, JobsAddressed DEF JobKind
  <1>3. CASE \E us \in {<<FailSite(j.sid, j.idx)>>, <<>>},
                js \in {{}, {W("send", j.sid, j.idx)}} : Continue(j, us, js)
    <2>1. PICK us \in {<<FailSite(j.sid, j.idx)>>, <<>>},
               js \in {{}, {W("send", j.sid, j.idx)}} : Continue(j, us, js)
      BY <1>3
    <2>2. us \in Seq(ProperUpdate)
      BY <1>2, OneUpdate, EmptySeq
    <2>3. js \subseteq LaterJob
      BY <1>2
    <2> QED BY <2>1, <2>2, <2>3, ContinueKeeps
  <1>4. CASE \E st \in {"loading", "scanning"},
                u \in {W("bind", j.sid, j.idx), W("mark", j.sid, j.idx)} :
                /\ tabs' = [tabs EXCEPT ![j.sid][j.idx] = st]
                /\ queue' = Append(queue, u)
                /\ jobs' = jobs \ {j}
                /\ UNCHANGED <<storage, snap, reports, alarm, stamps, clock,
                               counts>>
    <2>1. PICK st \in {"loading", "scanning"},
               u \in {W("bind", j.sid, j.idx), W("mark", j.sid, j.idx)} :
                /\ tabs' = [tabs EXCEPT ![j.sid][j.idx] = st]
                /\ queue' = Append(queue, u)
                /\ jobs' = jobs \ {j}
                /\ UNCHANGED <<storage, snap, reports, alarm, stamps, clock,
                               counts>>
      BY <1>4
    <2>2. u \in ProperUpdate
      BY <1>2
    <2>3. OthersTyped'
      BY <1>1, <2>1, TypeSplits
         DEF OthersTyped, TabState, storage, clock, counts
    <2>4. queue' = queue \o <<u>> /\ <<u>> \in Seq(ProperUpdate)
      BY <2>1, <2>2, OneMore, OneUpdate
    <2>5. UNCHANGED <<storage, snap, starts>> /\ jobs' \subseteq jobs \cup {}
      BY <2>1 DEF counts
    <2> QED BY <2>3, <2>4, <2>5, GrowthKeeps
  <1>5. CASE OpenTab(j)
    BY <1>3, <1>4, <1>5 DEF OpenTab
  <1>6. CASE PingTab(j)
    BY <1>3, <1>6 DEF PingTab
  <1>7. CASE SendScan(j)
    BY <1>3, <1>4, <1>7 DEF SendScan
  <1> QED BY <1>5, <1>6, <1>7

(* The tails of settleSite, cancelSync, advance and authorizeThenRun.      *)
LEMMA TailsKeep ==
    ASSUME IInv, NEW j \in jobs,
           RemoveTab(j) \/ ClearWatchdog(j) \/ StampSynced(j)
    PROVE  IInv'
  <1>1. CASE RemoveTab(j)
    <2>1. j.sid \in Ids /\ j.idx \in Sites
      BY <1>1, JobFields DEF RemoveTab
    <2>2. OthersTyped'
      BY <1>1, <2>1, TypeSplits
         DEF RemoveTab, OthersTyped, TabState, storage, clock, counts
    <2>3. Advance(j.sid) \in ProperUpdate
          /\ W("onRemoved", j.sid, j.idx) \in LaterJob
      BY <2>1, UpdatesAddressed, JobsAddressed DEF JobKind
    <2>4. PICK us \in {<<>>, <<Advance(j.sid)>>} : queue' = queue \o us
      BY <1>1, <2>3, SameQueue, OneMore DEF RemoveTab
    <2>5. us \in Seq(ProperUpdate)
      BY <2>3, OneUpdate, EmptySeq
    <2>6. /\ UNCHANGED <<storage, snap, starts>>
          /\ jobs' \subseteq jobs \cup {W("onRemoved", j.sid, j.idx)}
      BY <1>1 DEF RemoveTab, counts
    <2>7. {W("onRemoved", j.sid, j.idx)} \in SUBSET LaterJob
      BY <2>3
    <2> QED BY <2>2, <2>4, <2>5, <2>6, <2>7, GrowthKeeps
  <1>2. CASE ClearWatchdog(j) \/ StampSynced(j)
    <2> DEFINE js == {w \in {W("drop", j.sid, j.idx),
                             W("stamp", j.sid, NoSite)} : w \in LaterJob}
    <2>1. CASE ClearWatchdog(j)
      <3>1. OthersTyped' /\ UNCHANGED <<storage, snap, starts>>
            /\ queue' = queue
        BY <2>1, TypeSplits
           DEF ClearWatchdog, OthersTyped, storage, clock, counts
      <3>2. jobs' \subseteq jobs \cup js
        <4>1. CASE j.k = "abandon" /\ j.idx # NoSite
          <5>1. W("drop", j.sid, j.idx) \in LaterJob
            BY <4>1, JobFields, JobsAddressed DEF JobKind
          <5> QED BY <2>1, <4>1, <5>1 DEF ClearWatchdog
        <4>2. CASE j.k = "finish" /\ j.ok
          <5>1. W("stamp", j.sid, NoSite) \in LaterJob
            BY <4>2, JobFields, JobsAddressed
          <5> QED BY <2>1, <4>2, <5>1 DEF ClearWatchdog
        <4>3. CASE ~(j.k = "abandon" /\ j.idx # NoSite)
                   /\ ~(j.k = "finish" /\ j.ok)
          <5>1. jobs' = (jobs \ {j}) \cup {}
            BY <2>1, <4>3 DEF ClearWatchdog
          <5> QED BY <5>1
        <4> QED BY <4>1, <4>2, <4>3
      <3>3. queue' = queue \o <<>> /\ <<>> \in Seq(ProperUpdate)
            /\ js \in SUBSET LaterJob
        BY <3>1, SameQueue
      <3> HIDE DEF js
      <3> QED BY <3>1, <3>2, <3>3, GrowthKeeps
    <2>2. CASE StampSynced(j)
      <3>1. j.sid \in Ids
        BY <2>2, JobFields DEF StampSynced
      <3>2. OthersTyped' /\ UNCHANGED <<storage, snap, starts>>
            /\ queue' = queue /\ jobs' \subseteq jobs \cup {}
        BY <2>2, <3>1, TypeSplits
           DEF StampSynced, OthersTyped, storage, clock, counts
      <3>3. queue' = queue \o <<>> /\ <<>> \in Seq(ProperUpdate)
        BY <3>2, SameQueue
      <3> QED BY <3>2, <3>3, GrowthKeeps
    <2> QED BY <1>2, <2>1, <2>2
  <1> QED BY <1>1, <1>2

(* scan:done, tabs.onRemoved and the end of a mid-run authorization.       *)
LEMMA HandlersKeep ==
    ASSUME IInv, NEW j \in jobs,
           HandleScanDone(j) \/ HandleTabRemoved(j) \/ EndReauth(j)
    PROVE  IInv'
  <1>1. PICK us : /\ Continue(j, us, {})
                  /\ us \in Seq(ProperUpdate)
    <2>1. CASE HandleScanDone(j)
      <3> DEFINE u == WFrom("settle", j.sid, Stored.cur, j.ok,
                            <<j.sid, j.idx>>)
      <3>1. j.sid \in Ids /\ j.idx \in Sites /\ j.ok \in BOOLEAN
        BY <2>1, JobFields DEF HandleScanDone
      <3>2. CASE stored = j.sid
        <4>1. Stored.cur \in Sites \cup {NoSite}
          BY <3>1, <3>2, TypeSplits DEF OthersTyped, Stored, Run
        <4>2. u \in ProperUpdate
          BY <3>1, <4>1, UpdatesAddressed
        <4>3. <<u>> \in Seq(ProperUpdate)
          BY <4>2, OneUpdate
        <4>4. Continue(j, <<u>>, {})
          BY <2>1, <3>2 DEF HandleScanDone
        <4> QED BY <4>3, <4>4
      <3>3. CASE stored # j.sid
        BY <2>1, <3>3, EmptySeq DEF HandleScanDone
      <3> QED BY <3>2, <3>3
    <2>2. CASE HandleTabRemoved(j)
      <3>1. j.sid \in Ids /\ j.idx \in Sites
        BY <2>2, JobFields DEF HandleTabRemoved
      <3>2. FailSite(j.sid, j.idx) \in ProperUpdate
        BY <3>1, UpdatesAddressed
      <3>3. \/ Continue(j, <<FailSite(j.sid, j.idx)>>, {})
            \/ Continue(j, <<>>, {})
        BY <2>2 DEF HandleTabRemoved
      <3> QED BY <3>2, <3>3, OneUpdate, EmptySeq
    <2>3. CASE EndReauth(j)
      BY <2>3, OneUpdate, UnaddressedUpdates, EmptySeq DEF EndReauth
    <2> QED BY <2>1, <2>2, <2>3
  <1>2. {} \in SUBSET LaterJob
    OBVIOUS
  <1> QED BY <1>1, <1>2, ContinueKeeps

LEMMA JobStepKeeps == ASSUME IInv, NEW j \in jobs, JobStep(j) PROVE IInv'
  BY SetStateKeeps, StartingKeeps, OpeningKeeps, TailsKeep, HandlersKeep
     DEF JobStep

LEMMA CancelSyncKeeps == IInv /\ CancelSync => IInv'
  <1> SUFFICES ASSUME IInv, CancelSync PROVE IInv'
    OBVIOUS
  <1>1. OthersTyped' /\ UNCHANGED <<storage, snap, starts>>
    BY TypeSplits, BoundsAssumption
       DEF CancelSync, OthersTyped, storage, browser, clock
  <1>2. queue' = queue \o <<W("cancel", NoRun, NoSite)>>
        /\ <<W("cancel", NoRun, NoSite)>> \in Seq(ProperUpdate)
    BY UnaddressedUpdates, OneMore, OneUpdate DEF CancelSync
  <1>3. jobs' \subseteq jobs \cup {}
    BY DEF CancelSync
  <1> QED BY <1>1, <1>2, <1>3, GrowthKeeps

LEMMA WatchdogTickKeeps == IInv /\ WatchdogTick => IInv'
  <1> SUFFICES ASSUME IInv, WatchdogTick PROVE IInv'
    OBVIOUS
  <1>1. OthersTyped' /\ UNCHANGED <<storage, snap, starts>>
        /\ jobs' \subseteq jobs \cup {}
    BY TypeSplits DEF WatchdogTick, OthersTyped, storage, clock, counts
  <1>2. PICK us \in Seq(ProperUpdate) : queue' = queue \o us
    <2>1. CASE StoredLive
      <3>1. stored \in Ids /\ Stored \in Run
        BY <2>1, TypeSplits DEF StoredLive, OthersTyped, Stored
      <3>2. /\ W("fail", stored, NoSite) \in ProperUpdate
            /\ FailSite(stored, Stored.cur) \in ProperUpdate
            /\ Advance(stored) \in ProperUpdate
        BY <3>1, UpdatesAddressed DEF Run
      <3>3. WatchdogUpdates \in {<<>>, <<W("fail", stored, NoSite)>>,
                                 <<FailSite(stored, Stored.cur)>>,
                                 <<Advance(stored)>>}
        BY DEF WatchdogUpdates
      <3>4. WatchdogUpdates \in Seq(ProperUpdate)
        BY <3>2, <3>3, OneUpdate, EmptySeq
      <3> QED BY <2>1, <3>4 DEF WatchdogTick
    <2>2. CASE ~StoredLive
      BY <2>2, SameQueue, EmptySeq DEF WatchdogTick
    <2> QED BY <2>1, <2>2
  <1> QED BY <1>1, <1>2, GrowthKeeps

(* The content script, the user, time, and the death of the worker.        *)
LEMMA TabStepKeeps ==
    ASSUME IInv, NEW r \in Ids, NEW i \in Sites, TabStep(r, i)
    PROVE  IInv'
  <1>1. OthersTyped' /\ UNCHANGED <<storage, snap, starts>>
    <2>1. CASE PageLoads(r, i)
      BY <2>1, TypeSplits
         DEF PageLoads, OthersTyped, TabState, storage, worker, clock, counts
    <2>2. CASE ScanProgress(r, i)
      BY <2>2, TypeSplits, BoundsAssumption
         DEF ScanProgress, OthersTyped, storage, browser, clock
    <2>3. CASE ScanNeedsAuth(r, i)
      BY <2>3, TypeSplits, BoundsAssumption
         DEF ScanNeedsAuth, OthersTyped, storage, browser, clock
    <2>4. CASE UserClosesTab(r, i)
      BY <2>4, TypeSplits, BoundsAssumption
         DEF UserClosesTab, OthersTyped, TabState, storage, clock
    <2>5. CASE \E ok \in BOOLEAN : ScanEnds(r, i, ok)
      BY <2>5, TypeSplits
         DEF ScanEnds, OthersTyped, TabState, storage, clock, counts
    <2> QED BY <2>1, <2>2, <2>3, <2>4, <2>5 DEF TabStep
  <1>2. PICK us \in Seq(ProperUpdate) : queue' = queue \o us
    <2>1. WFrom("progress", r, i, FALSE, <<r, i>>) \in ProperUpdate
          /\ Prompt(TRUE) \in ProperUpdate
      BY UpdatesAddressed, UnaddressedUpdates
    <2>2. CASE ScanProgress(r, i) \/ ScanNeedsAuth(r, i)
      BY <2>1, <2>2, OneMore, OneUpdate DEF ScanProgress, ScanNeedsAuth
    <2>3. CASE ~(ScanProgress(r, i) \/ ScanNeedsAuth(r, i))
      BY <2>3, SameQueue, EmptySeq
         DEF TabStep, PageLoads, UserClosesTab, ScanEnds, worker
    <2> QED BY <2>2, <2>3
  <1>3. PICK js \in SUBSET LaterJob : jobs' \subseteq jobs \cup js
    <2>1. /\ W("reauth", r, i) \in LaterJob
          /\ W("onRemoved", r, i) \in LaterJob
          /\ \A ok \in BOOLEAN : WOk("scan:done", r, i, ok) \in LaterJob
      BY JobsAddressed DEF JobKind
    <2> QED
      BY <2>1 DEF TabStep, PageLoads, ScanProgress, ScanNeedsAuth,
                  UserClosesTab, ScanEnds, worker
  <1> QED BY <1>1, <1>2, <1>3, GrowthKeeps

LEMMA TimeKeeps == IInv /\ (Elapse \/ Age) => IInv'
  <1> SUFFICES ASSUME IInv, Elapse \/ Age PROVE IInv'
    OBVIOUS
  <1>1. OthersTyped'
    <2>1. stored \in Ids
      BY TypeSplits DEF Elapse, Age, StoredLive, OthersTyped
    <2>2. aged' \subseteq Ids
      BY <2>1, TypeSplits DEF Elapse, Age, OthersTyped
    <2>3. quiet' \in 0 .. 2
      BY TypeSplits DEF Elapse, Age, OthersTyped
    <2> QED
      BY <2>2, <2>3, TypeSplits
         DEF Elapse, Age, OthersTyped, storage, worker, browser, counts
  <1>2. /\ UNCHANGED <<storage, snap, starts>> /\ queue' = queue
        /\ jobs' \subseteq jobs \cup {}
    BY DEF Elapse, Age, worker, counts
  <1>3. queue' = queue \o <<>> /\ <<>> \in Seq(ProperUpdate)
    BY <1>2, SameQueue
  <1> QED BY <1>1, <1>2, <1>3, GrowthKeeps

LEMMA WorkerDiesKeeps == IInv /\ WorkerDies => IInv'
  <1> SUFFICES ASSUME IInv, WorkerDies PROVE IInv'
    OBVIOUS
  <1>1. OthersTyped'
    BY TypeSplits, BoundsAssumption
       DEF WorkerDies, OthersTyped, storage, browser, clock
  <1>2. Addressed' /\ SitesWalkedInOrder' /\ ReadHolds' /\ IdsFresh'
    BY TypeSplits
       DEF WorkerDies, Addressed, SitesWalkedInOrder, ReadHolds, IdsFresh,
           storage
  <1> QED BY <1>1, <1>2, TypeSplitsNext

LEMMA StutterKeeps == IInv /\ UNCHANGED vars => IInv'
  <1> SUFFICES ASSUME IInv, UNCHANGED vars PROVE IInv'
    OBVIOUS
  <1>1. OthersTyped'
    BY TypeSplits
       DEF vars, OthersTyped, storage, worker, browser, clock, counts
  <1>2. Addressed' /\ SitesWalkedInOrder' /\ ReadHolds' /\ IdsFresh'
    BY TypeSplits
       DEF vars, Addressed, SitesWalkedInOrder, ReadHolds, IdsFresh, storage,
           worker, counts
  <1> QED BY <1>1, <1>2, TypeSplitsNext

(* IInv is inductive.                                                      *)
LEMMA NextKeeps == IInv /\ [Next]_vars => IInv'
  <1> SUFFICES ASSUME IInv, [Next]_vars PROVE IInv'
    OBVIOUS
  <1>1. CASE ReadState
    BY <1>1, ReadStateKeeps
  <1>2. CASE WriteState
    BY <1>2, WriteStateKeeps
  <1>3. CASE StartSync
    BY <1>3, StartSyncKeeps
  <1>4. CASE CancelSync
    BY <1>4, CancelSyncKeeps
  <1>5. CASE WatchdogTick
    BY <1>5, WatchdogTickKeeps
  <1>6. CASE \E j \in jobs : JobStep(j)
    BY <1>6, JobStepKeeps
  <1>7. CASE \E r \in Ids, i \in Sites : TabStep(r, i)
    BY <1>7, TabStepKeeps
  <1>8. CASE Elapse \/ Age
    BY <1>8, TimeKeeps
  <1>9. CASE WorkerDies
    BY <1>9, WorkerDiesKeeps
  <1>10. CASE UNCHANGED vars
    BY <1>10, StutterKeeps
  <1> QED
    BY <1>1, <1>2, <1>3, <1>4, <1>5, <1>6, <1>7, <1>8, <1>9, <1>10 DEF Next

-----------------------------------------------------------------------------
(* The inductive invariant holds in every reachable state: in particular,  *)
(* what the chain's head has read from storage is never out of date when   *)
(* it is written back, also when startSync wrote in between.               *)
THEOREM Invariance == Spec => []IInv
  BY InitEstablishes, NextKeeps, PTL DEF Spec

(* Every variable keeps its type.                                          *)
THEOREM TypeCorrect == Spec => []TypeOK
  <1>1. IInv => TypeOK
    BY DEF IInv
  <1> QED BY <1>1, Invariance, PTL

(* The stored run states have the shape SitesWalkedInOrder describes, for  *)
(* any number of sites and of overlapping runs, and whatever the worker,   *)
(* the user and the pages do.                                              *)
THEOREM WalkCorrect == Spec => []SitesWalkedInOrder
  <1>1. IInv => SitesWalkedInOrder
    BY DEF IInv
  <1> QED BY <1>1, Invariance, PTL

-----------------------------------------------------------------------------
(* The contract of RunContract.tla, for every run.                         *)

(* What a guarded update makes of a run, as a step of the contract; phase  *)
(* and outcome stand for the run before it, phase' and outcome' after it.  *)
ContractStep(r) == [Contract(r)!Next]_(Contract(r)!vars)

LEMMA OutcomeAt ==
    ASSUME NEW s, NEW i \in Sites
    PROVE  OutcomeOf(s)[i] = IF InFlight(s.site[i]) THEN "in flight"
                             ELSE s.site[i]
  BY DEF OutcomeOf

(* Nothing happens to a run whose phase and sites stay as they are.        *)
LEMMA SameRunStutters ==
    ASSUME NEW r \in Ids, runs'[r].phase = runs[r].phase,
           OutcomeOf(runs'[r]) = OutcomeOf(runs[r])
    PROVE  ContractStep(r)
  BY DEF ContractStep, Contract!vars

(* The update on the chain takes a contract step for its run.              *)
LEMMA UpdateKeepsContract ==
    ASSUME NEW r \in Ids, NEW u \in ProperUpdate, runs[r] \in Run,
           RunShape(runs[r]), Guard(u, r, runs[r]),
           runs'[r] = Post(u, runs[r])
    PROVE  ContractStep(r)
  <1> DEFINE s == runs[r]
             t == runs'[r]
             o == OutcomeOf(s)
             p == OutcomeOf(t)
  <1> USE DEF Run
  <1>1. CASE u.k \in {"prompt", "bind", "progress"}
    <2>1. t.phase = s.phase /\ t.site = s.site
      BY <1>1 DEF Post
    <2> QED BY <2>1, SameRunStutters DEF OutcomeOf
  <1>2. CASE u.k = "mark"
    <2>1. /\ u.idx \in Sites /\ s.site[u.idx] = "waiting"
          /\ t.phase = s.phase
          /\ t.site = [s.site EXCEPT ![u.idx] = "scanning"]
      BY <1>2, UpdateFields DEF Guard, WaitingGuard, Post
    <2>2. p = o
      BY <2>1 DEF OutcomeOf, InFlight
    <2> QED BY <2>1, <2>2, SameRunStutters
  <1>3. CASE u.k = "cancel"
    <2>1. /\ Live(s) /\ t.phase = "cancelled"
          /\ t.site = [i \in Sites |-> IF Settled(s.site[i]) THEN s.site[i]
                                       ELSE "skipped"]
      BY <1>3 DEF Guard, Post, CancelPost
    <2>2. p = [i \in Sites |-> IF o[i] \in {"done", "failed"} THEN o[i]
                               ELSE "skipped"]
      BY <2>1 DEF OutcomeOf, InFlight, Settled
    <2>3. Contract(r)!Cancel
      BY <2>1, <2>2 DEF Contract!Cancel, Contract!Started, Contract!Sites,
                        Live, Sites
    <2> QED BY <2>3 DEF ContractStep, Contract!Next
  <1>4. CASE u.k = "fail"
    <2>1. s.phase = "authorizing" /\ t.phase = "error" /\ t.site = s.site
      BY <1>4 DEF Guard, FailGuard, Post
    <2>2. p = o
      BY <2>1 DEF OutcomeOf
    <2>3. Contract(r)!Refuse
      BY <2>1, <2>2 DEF Contract!Refuse
    <2> QED BY <2>3 DEF ContractStep, Contract!Next
  <1>5. CASE u.k = "settle"
    <2>1. u.idx \in Sites /\ InFlight(s.site[u.idx])
      BY <1>5, UpdateFields DEF Guard, SettleGuard
    <2>2. s.phase = "running"
      BY <2>1, InFlightIsCurrent
    <2>3. PICK result \in {"done", "failed"} :
             t.phase = s.phase /\ t.site = [s.site EXCEPT ![u.idx] = result]
      BY <1>5 DEF Post, SettlePost
    <2>4. p = [o EXCEPT ![u.idx] = result]
      BY <2>1, <2>3 DEF OutcomeOf, InFlight
    <2>5. Contract(r)!Settle(u.idx)
      BY <2>1, <2>2, <2>3, <2>4 DEF Contract!Settle, OutcomeOf
    <2> QED BY <2>1, <2>5 DEF ContractStep, Contract!Next, Contract!Sites, Sites
  <1>6. CASE u.k = "advance"
    <2>1. Live(s) /\ ~AnyInFlight(s) /\ t = AdvancePost(s)
      BY <1>6 DEF Guard, AdvanceGuard, Post
    <2>2. o = s.site
      BY <2>1 DEF OutcomeOf, AnyInFlight
    <2>3. CASE Pending(s) = {}
      <3>1. s.phase = "running" /\ Walking(s)
        <4>1. 1 \in Sites
          BY BoundsAssumption DEF Sites
        <4> QED
          BY <2>1, <2>3, <4>1 DEF RunShape, Untouched, Live, Pending
      <3>2. \A i \in Sites : o[i] \in {"done", "failed"}
        BY <2>1, <2>2, <2>3, <3>1
           DEF Walking, Pending, AnyInFlight, Settled, Sites
      <3>3. t.phase = "done" /\ t.site = s.site
        BY <2>1, <2>3 DEF AdvancePost, Finished
      <3>4. p = o
        BY <3>3 DEF OutcomeOf
      <3>5. Contract(r)!Finish
        BY <3>1, <3>2, <3>3, <3>4 DEF Contract!Finish, Contract!Sites, Sites
      <3> QED BY <3>5 DEF ContractStep, Contract!Next
    <2>4. CASE Pending(s) # {}
      <3> DEFINE first == FirstPending(s)
      <3>1. /\ first \in Sites
            /\ \A j \in Sites : j < first => Settled(s.site[j])
            /\ \A j \in Sites : j >= first => s.site[j] = "pending"
        BY <2>1, <2>4, FirstPendingIsNext DEF Pending
      <3>2. t = Take(s, first, first)
        BY <2>1, <2>4 DEF AdvancePost
      <3> HIDE DEF first
      <3>3. /\ t.phase = "running"
            /\ t.site = [s.site EXCEPT ![first] = "waiting"]
        BY <3>2 DEF Take
      <3>4. p = [o EXCEPT ![first] = "in flight"]
        BY <2>1, <2>2, <3>1, <3>3 DEF OutcomeOf, AnyInFlight, InFlight
      <3>5. Contract(r)!NoneInFlight
        BY <2>1, <2>2 DEF Contract!NoneInFlight, Contract!Sites, Sites,
                          AnyInFlight, InFlight, Status
      <3>6. o[first] = "pending"
            /\ \A j \in Sites : j < first => o[j] \in {"done", "failed"}
        BY <2>2, <3>1 DEF Settled, Sites
      <3>7. Contract(r)!Take(first)
        BY <2>1, <3>3, <3>4, <3>5, <3>6
           DEF Contract!Take, Contract!Started, Contract!Sites, Sites, Live
      <3> QED
        BY <3>1, <3>7 DEF ContractStep, Contract!Next, Contract!Sites, Sites
    <2> QED BY <2>3, <2>4
  <1> QED
    BY <1>1, <1>2, <1>3, <1>4, <1>5, <1>6, UpdateFields DEF UpdateKind

(* A new run begins when startSync writes its state.                       *)
LEMMA SetStateBegins ==
    ASSUME IInv, NEW j \in jobs, SetState(j), NEW r \in Ids
    PROVE  ContractStep(r)
  <1>1. /\ j.k = "set" /\ runs' = [runs EXCEPT ![j.sid] = FreshRun]
        /\ runs[j.sid] = NotStarted /\ j.sid \in Ids /\ runs \in [Ids -> Run]
    BY TypeSplits
       DEF SetState, IdsFresh, Addressed, ProperJob, OthersTyped
  <1>2. CASE r = j.sid
    <2>1. runs[r] = NotStarted /\ runs'[r] = FreshRun
      BY <1>1, <1>2
    <2>2. runs[r].phase = "none" /\ runs'[r].phase = "authorizing"
          /\ OutcomeOf(runs'[r]) = OutcomeOf(runs[r])
      BY <2>1 DEF NotStarted, FreshRun, OutcomeOf
    <2>3. Contract(r)!Begin
      BY <2>2 DEF Contract!Begin
    <2> QED BY <2>3 DEF ContractStep, Contract!Next
  <1>3. CASE r # j.sid
    BY <1>1, <1>3, SameRunStutters
  <1> QED BY <1>2, <1>3

LEMMA WriteStateKeepsContract ==
    ASSUME IInv, WriteState, NEW r \in Ids
    PROVE  ContractStep(r)
  <1> DEFINE u == Head(queue)
  <1>1. OthersTyped /\ Addressed /\ SitesWalkedInOrder /\ ReadHolds
    BY TypeSplits
  <1>2. /\ queue # <<>> /\ snap # NoRun
        /\ runs' = [runs EXCEPT ![snap] = Post(u, runs[snap])]
    BY DEF WriteState
  <1>3. u \in ProperUpdate
    BY <1>1, <1>2, HeadTailProperties DEF Addressed
  <1>4. /\ snap \in Ids /\ runs[snap] \in Run /\ RunShape(runs[snap])
        /\ Guard(u, snap, runs[snap]) /\ runs \in [Ids -> Run]
    BY <1>1, <1>2 DEF OthersTyped, SitesWalkedInOrder, ReadHolds
  <1> HIDE DEF u
  <1>5. CASE r = snap
    BY <1>2, <1>3, <1>4, <1>5, UpdateKeepsContract
  <1>6. CASE r # snap
    BY <1>2, <1>4, <1>6, SameRunStutters
  <1> QED BY <1>5, <1>6

(* No other step touches what is written for a run.                        *)
LEMMA OthersLeaveRuns ==
    ASSUME [Next]_vars, ~WriteState, ~(\E j \in jobs : SetState(j))
    PROVE  UNCHANGED runs
  <1>1. CASE ReadState \/ StartSync \/ CancelSync \/ WatchdogTick
    BY <1>1 DEF ReadState, StartSync, CancelSync, WatchdogTick, storage
  <1>2. CASE \E j \in jobs : JobStep(j)
    BY <1>2 DEF JobStep, ArmWatchdog, EnsureToken, PollForToken, OpenTab,
                PingTab, SendScan, RemoveTab, ClearWatchdog, StampSynced,
                HandleScanDone, HandleTabRemoved, EndReauth, Continue, storage
  <1>3. CASE \E r \in Ids, i \in Sites : TabStep(r, i)
    BY <1>3 DEF TabStep, PageLoads, ScanProgress, ScanNeedsAuth,
                UserClosesTab, ScanEnds, storage
  <1>4. CASE Elapse \/ Age \/ WorkerDies \/ UNCHANGED vars
    BY <1>4 DEF Elapse, Age, WorkerDies, vars, storage
  <1> QED BY <1>1, <1>2, <1>3, <1>4 DEF Next

LEMMA StepKeepsContract ==
    ASSUME IInv, [Next]_vars, NEW r \in Ids
    PROVE  ContractStep(r)
  <1>1. CASE WriteState
    BY <1>1, WriteStateKeepsContract
  <1>2. CASE \E j \in jobs : SetState(j)
    BY <1>2, SetStateBegins
  <1>3. CASE ~WriteState /\ ~(\E j \in jobs : SetState(j))
    BY <1>3, OthersLeaveRuns, SameRunStutters
  <1> QED BY <1>1, <1>2, <1>3

LEMMA InitKeepsContract ==
    ASSUME Init, NEW r \in Ids
    PROVE  Contract(r)!Init
  <1>1. runs[r] = NotStarted
    BY DEF Init
  <1>2. runs[r].phase = "none"
        /\ OutcomeOf(runs[r]) = [i \in Sites |-> "pending"]
    BY <1>1 DEF NotStarted, FreshRun, OutcomeOf, InFlight
  <1> QED BY <1>2 DEF Contract!Init, Contract!Sites, Sites

-----------------------------------------------------------------------------
(* Every run keeps its contract, whatever raced to write its state: the    *)
(* worker implements RunContract for each run.                             *)
THEOREM ContractKept == Spec => RunsKeepContract
  <1>1. Init => \A r \in Ids : Contract(r)!Init
    BY InitKeepsContract
  <1>2. IInv /\ [Next]_vars =>
           [\A r \in Ids : [Contract(r)!Next]_(Contract(r)!vars)]_vars
    BY StepKeepsContract DEF ContractStep
  <1> QED BY <1>1, <1>2, Invariance, PTL DEF Spec, RunsKeepContract

=============================================================================
