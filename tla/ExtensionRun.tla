---------------------------- MODULE ExtensionRun ----------------------------
(***************************************************************************)
(* The browser extension's sync orchestrator (extension/background.js):    *)
(* the service worker that walks the selected sites one at a time, opening *)
(* a background tab for each, telling its content script to scan, and      *)
(* settling the site when the scan, the user or the watchdog says so.      *)
(*                                                                         *)
(* The worker is one JavaScript thread: what can interleave is what an     *)
(* await separates.  A step is the code from one resumption to the next    *)
(* await, the call it then issues included.  What is waiting is kept in    *)
(*   - `queue', the stateWriteChain of updateSyncState: read-modify-writes *)
(*     that run one after the other.  The head reads storage in one step   *)
(*     (`snap') and writes in a later one; startSync writes without it.    *)
(*   - `jobs', all other continuations, messages and browser events.       *)
(* A worker death loses all three; storage, alarms and tabs survive it.    *)
(*                                                                         *)
(* Time is what the code compares: how long the stored run has been silent *)
(* (`quiet') and which runs started too long ago (`aged').  A machine may  *)
(* sleep between any two steps, so time may pass in every state.           *)
(***************************************************************************)
EXTENDS Naturals, Sequences

CONSTANTS
    NSites,     \* number of sites selected for a run
    MaxRuns,    \* bound: sync:start requests accepted
    MaxCrashes, \* bound: worker deaths
    MaxEvents,  \* bound: cancels, tabs closed by hand, progress lines, prompts
    MaxQueue    \* bound: outside events wait while the chain is this long

ASSUME BoundsAssumption ==
    /\ NSites \in Nat \ {0} /\ MaxRuns \in Nat \ {0}
    /\ MaxCrashes \in Nat /\ MaxEvents \in Nat /\ MaxQueue \in Nat

VARIABLES
    stored,  \* id of the run in chrome.storage.session, or NoRun
    runs,    \* the state last written for each run; runs[stored] is storage
    queue, snap, jobs,
    tabs,    \* tabs[r][i]: the tab opened for site i of run r
    reports, \* reports[r][i]: the scan in that tab has reported success
    alarm,   \* the watchdog alarm is armed
    stamps,  \* runs that stamped lastSyncedAt
    quiet,   \* 0, 1: past SITE_STALL_MS, 2: past AUTH_STALL_MS of silence
    aged,    \* authorizing runs that started more than AUTH_STALL_MS ago
    starts, crashes, events  \* counted against the bounds

storage == <<stored, runs>>
worker  == <<queue, snap, jobs>>
browser == <<tabs, reports, alarm, stamps>>
clock   == <<quiet, aged>>
counts  == <<starts, crashes, events>>
vars    == <<storage, worker, browser, clock, counts>>

-----------------------------------------------------------------------------
Sites == 1 .. NSites
Ids == 1 .. MaxRuns
NoRun == 0      \* no syncState in storage
NoSite == 0     \* currentIndex = -1, or no particular site

(* A tab is named after the run and the site it is opened for: a run picks *)
(* each site once, so it opens at most one tab for it.                     *)
NoTab == <<NoRun, NoSite>>
TabState == {"unopened", "loading", "ready", "scanning", "closed"}

Status == {"pending", "waiting", "scanning", "done", "failed", "skipped"}
Phase == {"none", "authorizing", "running", "done", "error", "cancelled"}

Run == [phase : Phase,
        auth  : BOOLEAN,              \* a device-code prompt is up
        cur   : Sites \cup {NoSite},  \* currentIndex
        site  : [Sites -> Status],
        bound : [Sites -> BOOLEAN]]   \* tabId # null

FreshRun == [phase |-> "authorizing", auth |-> FALSE, cur |-> NoSite,
             site  |-> [i \in Sites |-> "pending"],
             bound |-> [i \in Sites |-> FALSE]]
NotStarted == [FreshRun EXCEPT !.phase = "none"]

(* Updates on the chain and other pending work: what it is, for which run  *)
(* and site, with which outcome, and from which tab (expectedTabId).       *)
UpdateKind == {"prompt", "fail", "advance", "bind", "mark", "settle",
               "cancel", "progress"}
JobKind == {"set", "arm", "token", "poll", "open", "ping", "send", "close",
            "drop", "clear", "abandon", "finish", "stamp", "scan:done",
            "onRemoved", "reauth"}
Work(Kind) == [k : Kind, sid : Ids \cup {NoRun}, idx : Sites \cup {NoSite},
               ok : BOOLEAN, from : (Ids \X Sites) \cup {NoTab}]

W(k, sid, idx) == [k |-> k, sid |-> sid, idx |-> idx, ok |-> FALSE,
                   from |-> NoTab]
WOk(k, sid, idx, ok) == [W(k, sid, idx) EXCEPT !.ok = ok]
WFrom(k, sid, idx, ok, tab) == [WOk(k, sid, idx, ok) EXCEPT !.from = tab]

Prompt(up) == WOk("prompt", NoRun, NoSite, up)
Advance(sid) == W("advance", sid, NoSite)
FailSite(sid, idx) == W("settle", sid, idx)

Live(s) == s.phase \in {"authorizing", "running"}
InFlight(st) == st \in {"waiting", "scanning"}
Settled(st) == st \in {"done", "failed"}
AnyInFlight(s) == \E i \in Sites : InFlight(s.site[i])
Pending(s) == {i \in Sites : s.site[i] = "pending"}

Stored == runs[stored]
StoredLive == stored # NoRun /\ Live(Stored)

-----------------------------------------------------------------------------
(* The functions passed to updateSyncState: Guard says whether `fn' goes   *)
(* through (else it returns false), Post is the state it leaves.  u is the *)
(* update, r the id in storage and s the state stored under it.            *)

FailGuard(u, r, s) == r = u.sid /\ s.phase = "authorizing"

MutAdvancePhase(u, r, s) == r = u.sid /\ ~AnyInFlight(s)
MutAdvanceGuard(u, r, s) == r = u.sid /\ Live(s)
AdvanceGuard(u, r, s) == r = u.sid /\ Live(s) /\ ~AnyInFlight(s)

WaitingGuard(u, r, s) == r = u.sid /\ s.site[u.idx] = "waiting"

TabOf(r, s, i) == IF s.bound[i] THEN <<r, i>> ELSE NoTab   \* site.tabId

MutSettleGuard(u, r, s) ==
    r = u.sid /\ u.idx # NoSite /\ InFlight(s.site[u.idx])
SettleGuard(u, r, s) ==
    /\ r = u.sid /\ u.idx # NoSite
    /\ InFlight(s.site[u.idx])
    /\ u.from # NoTab => u.from = TabOf(r, s, u.idx)

ProgressGuard(u, r, s) ==
    r = u.sid /\ s.cur # NoSite /\ TabOf(r, s, s.cur) = u.from

Guard(u, r, s) ==
    \/ u.k \in {"prompt", "cancel"} /\ Live(s)
    \/ u.k = "fail" /\ FailGuard(u, r, s)
    \/ u.k = "advance" /\ AdvanceGuard(u, r, s)
    \/ u.k \in {"bind", "mark"} /\ WaitingGuard(u, r, s)
    \/ u.k = "settle" /\ SettleGuard(u, r, s)
    \/ u.k = "progress" /\ ProgressGuard(u, r, s)

FirstPending(s) == CHOOSE i \in Pending(s) : \A j \in Pending(s) : i <= j
Finished(s) == [s EXCEPT !.phase = "done", !.auth = FALSE, !.cur = NoSite]
Take(s, i, at) == [s EXCEPT !.phase = "running", !.auth = FALSE, !.cur = at,
                            !.site[i] = "waiting"]

MutAdvancePost(s) ==
    IF Pending(s) = {} THEN [Finished(s) EXCEPT !.cur = NSites + 1]
    ELSE Take(s, FirstPending(s), FirstPending(s))
AdvancePost(s) ==
    IF Pending(s) = {} THEN Finished(s)
    ELSE Take(s, FirstPending(s), FirstPending(s))

SettlePost(u, s) ==
    [s EXCEPT !.site[u.idx] = IF u.ok THEN "done" ELSE "failed",
              !.bound[u.idx] = FALSE]

CancelPost(s) ==
    [s EXCEPT !.phase = "cancelled", !.auth = FALSE,
              !.site = [i \in Sites |-> IF Settled(s.site[i]) THEN s.site[i]
                                        ELSE "skipped"],
              !.bound = [i \in Sites |-> Settled(s.site[i]) /\ s.bound[i]]]

Post(u, s) ==
    CASE u.k = "prompt"   -> [s EXCEPT !.auth = u.ok]
      [] u.k = "cancel"   -> CancelPost(s)
      [] u.k = "fail"     -> [s EXCEPT !.phase = "error", !.auth = FALSE]
      [] u.k = "advance"  -> AdvancePost(s)
      [] u.k = "bind"     -> [s EXCEPT !.bound[u.idx] = TRUE]
      [] u.k = "mark"     -> [s EXCEPT !.site[u.idx] = "scanning"]
      [] u.k = "settle"   -> SettlePost(u, s)
      [] OTHER            -> s    \* "progress": the log and lastProgressAt

(* What the caller of updateSyncState leaves to be done once its update    *)
(* turned s into t, and once it was aborted.  cancelSync closes the tab of *)
(* the site in flight: there is at most one (SitesWalkedInOrder).          *)
MutAnyDone(s) == \A i \in Sites : s.site[i] = "done"
AnyDone(s) == \E i \in Sites : s.site[i] = "done"

OpenSites(s) == {i \in Sites : InFlight(s.site[i]) /\ s.bound[i]}

JobsAfter(u, r, s, t) ==
    CASE u.k = "fail"    -> {W("clear", NoRun, NoSite)}
      [] u.k = "advance" -> IF t.phase = "done"
                            THEN {WOk("finish", r, NoSite, AnyDone(t))}
                            ELSE {W("open", r, t.cur)}
      [] u.k = "bind"    -> {W("ping", r, u.idx)}
      [] u.k = "settle"  -> IF s.bound[u.idx] THEN {W("close", r, u.idx)}
                            ELSE {}
      [] u.k = "cancel"  -> IF OpenSites(s) = {}
                            THEN {W("abandon", r, NoSite)}
                            ELSE {W("abandon", r, i) : i \in OpenSites(s)}
      [] OTHER           -> {}

UpdatesAfter(u, s) ==
    IF u.k = "settle" /\ ~s.bound[u.idx] THEN <<Advance(u.sid)>> ELSE <<>>

MutJobsAfterAbort(u) ==
    IF u.k \in {"fail", "cancel"} THEN {W("clear", NoRun, NoSite)} ELSE {}
JobsAfterAbort(u) ==
    CASE u.k \in {"fail", "cancel"} -> {W("clear", NoRun, NoSite)}
      [] u.k = "bind"               -> {W("drop", u.sid, u.idx)}
      [] OTHER                      -> {}

(* The head of the chain reads storage; an update whose guard fails ends   *)
(* here, with nothing written.                                             *)
ReadState ==
    /\ queue # <<>> /\ snap = NoRun
    /\ IF stored # NoRun /\ Guard(Head(queue), stored, Stored)
       THEN snap' = stored /\ UNCHANGED <<queue, jobs>>
       ELSE /\ queue' = Tail(queue)
            /\ jobs' = jobs \cup JobsAfterAbort(Head(queue))
            /\ UNCHANGED snap
    /\ UNCHANGED <<storage, browser, clock, counts>>

(* It writes what it made of the state it read, whatever storage holds by  *)
(* now, and bumps lastProgressAt.                                          *)
WriteState ==
    /\ queue # <<>> /\ snap # NoRun
    /\ LET u == Head(queue)
           s == runs[snap]
           t == Post(u, s)
       IN /\ runs' = [runs EXCEPT ![snap] = t]
          /\ queue' = Tail(queue) \o UpdatesAfter(u, s)
          /\ jobs' = jobs \cup JobsAfter(u, snap, s, t)
          /\ aged' = IF t.phase = "authorizing" THEN aged ELSE aged \ {snap}
    /\ stored' = snap
    /\ snap' = NoRun
    /\ quiet' = 0
    /\ UNCHANGED <<browser, counts>>

-----------------------------------------------------------------------------
(* A job that only enqueues updates and leaves further jobs.               *)
Continue(j, us, js) ==
    /\ queue' = queue \o us
    /\ jobs' = (jobs \ {j}) \cup js
    /\ UNCHANGED <<storage, snap, browser, clock, counts>>

CanStart ==
    StoredLive => quiet >= (IF Stored.phase = "authorizing" THEN 2 ELSE 1)

(* sync:start reads the state and decides; SetState writes the new state   *)
(* after another await, then the alarm is armed and authorization begins.  *)
StartSync ==
    /\ starts < MaxRuns
    /\ CanStart
    /\ starts' = starts + 1
    /\ jobs' = jobs \cup {W("set", starts', NoSite)}
    /\ UNCHANGED <<storage, queue, snap, browser, clock, crashes, events>>

SetState(j) ==
    /\ j.k = "set"
    /\ stored' = j.sid
    /\ runs' = [runs EXCEPT ![j.sid] = FreshRun]
    /\ quiet' = 0
    /\ jobs' = (jobs \ {j}) \cup {W("arm", j.sid, NoSite)}
    /\ UNCHANGED <<queue, snap, browser, aged, counts>>

ArmWatchdog(j) ==
    /\ j.k = "arm"
    /\ alarm' = TRUE
    /\ jobs' = (jobs \ {j}) \cup {W("token", j.sid, NoSite)}
    /\ UNCHANGED <<storage, queue, snap, tabs, reports, stamps, clock, counts>>

(* ensureRunToken: a cached token, a failed request, or a prompt and a     *)
(* poll that ends with a token, a refusal or the deadline.                 *)
EnsureToken(j) ==
    /\ j.k = "token"
    /\ \/ Continue(j, <<Advance(j.sid)>>, {})
       \/ Continue(j, <<W("fail", j.sid, NoSite)>>, {})
       \/ Continue(j, <<Prompt(TRUE)>>, {W("poll", j.sid, NoSite)})

PollForToken(j) ==
    /\ j.k = "poll"
    /\ \/ Continue(j, <<Prompt(FALSE), Advance(j.sid)>>, {})
       \/ Continue(j, <<W("fail", j.sid, NoSite)>>, {})

(* openAndScan: create the tab or fail the site, ...                       *)
OpenTab(j) ==
    /\ j.k = "open"
    /\ \/ Continue(j, <<FailSite(j.sid, j.idx)>>, {})
       \/ /\ tabs' = [tabs EXCEPT ![j.sid][j.idx] = "loading"]
          /\ queue' = Append(queue, W("bind", j.sid, j.idx))
          /\ jobs' = jobs \ {j}
          /\ UNCHANGED <<storage, snap, reports, alarm, stamps, clock, counts>>

(* ... ping until the state moved on, the page answered or the deadline    *)
(* passed, ...                                                             *)
PingTab(j) ==
    /\ j.k = "ping"
    /\ \/ /\ ~WaitingGuard(j, stored, Stored)
          /\ Continue(j, <<>>, {})
       \/ /\ WaitingGuard(j, stored, Stored)
          /\ tabs[j.sid][j.idx] \in {"ready", "scanning"}
          /\ Continue(j, <<>>, {W("send", j.sid, j.idx)})
       \/ Continue(j, <<FailSite(j.sid, j.idx)>>, {})

(* ... and send scan:start, which a script that is gone does not answer.   *)
SendScan(j) ==
    /\ j.k = "send"
    /\ \/ /\ tabs[j.sid][j.idx] = "ready"
          /\ tabs' = [tabs EXCEPT ![j.sid][j.idx] = "scanning"]
          /\ queue' = Append(queue, W("mark", j.sid, j.idx))
          /\ jobs' = jobs \ {j}
          /\ UNCHANGED <<storage, snap, reports, alarm, stamps, clock, counts>>
       \/ /\ tabs[j.sid][j.idx] # "ready"
          /\ Continue(j, <<FailSite(j.sid, j.idx)>>, {})

(* chrome.tabs.remove, at the end of settleSite ("close", then advance),   *)
(* of cancelSync and of openAndScan for a tab nobody wants ("drop").       *)
Open(r, i) == tabs[r][i] \in {"loading", "ready", "scanning"}

RemoveTab(j) ==
    /\ j.k \in {"close", "drop"}
    /\ tabs' = [tabs EXCEPT ![j.sid][j.idx] = "closed"]
    /\ jobs' = (jobs \ {j}) \cup (IF Open(j.sid, j.idx)
                                  THEN {W("onRemoved", j.sid, j.idx)} ELSE {})
    /\ queue' = IF j.k = "close" THEN Append(queue, Advance(j.sid)) ELSE queue
    /\ UNCHANGED <<storage, snap, reports, alarm, stamps, clock, counts>>

(* chrome.alarms.clear, in authorizeThenRun and watchdogTick ("clear"),    *)
(* cancelSync ("abandon") and advance ("finish").                          *)
ClearWatchdog(j) ==
    /\ j.k \in {"clear", "abandon", "finish"}
    /\ alarm' = FALSE
    /\ jobs' = (jobs \ {j}) \cup
          CASE j.k = "abandon" /\ j.idx # NoSite -> {W("drop", j.sid, j.idx)}
            [] j.k = "finish" /\ j.ok            -> {W("stamp", j.sid, NoSite)}
            [] OTHER                             -> {}
    /\ UNCHANGED <<storage, queue, snap, tabs, reports, stamps, clock, counts>>

StampSynced(j) ==
    /\ j.k = "stamp"
    /\ stamps' = stamps \cup {j.sid}
    /\ jobs' = jobs \ {j}
    /\ UNCHANGED <<storage, queue, snap, tabs, reports, alarm, clock, counts>>

(* scan:done: the site to settle is the one current when it is handled.    *)
HandleScanDone(j) ==
    /\ j.k = "scan:done"
    /\ Continue(j, IF stored # j.sid THEN <<>>
                   ELSE <<WFrom("settle", j.sid, Stored.cur, j.ok,
                                <<j.sid, j.idx>>)>>, {})

HandleTabRemoved(j) ==
    /\ j.k = "onRemoved"
    /\ Continue(j, IF /\ stored = j.sid /\ Stored.phase = "running"
                      /\ Stored.cur = j.idx /\ Stored.bound[j.idx]
                   THEN <<FailSite(j.sid, j.idx)>> ELSE <<>>, {})

(* The end of a mid-run authorization: only success takes the prompt down. *)
EndReauth(j) ==
    /\ j.k = "reauth"
    /\ \E us \in {<<Prompt(FALSE)>>, <<>>} : Continue(j, us, {})

CancelSync ==
    /\ stored # NoRun
    /\ events < MaxEvents /\ Len(queue) < MaxQueue
    /\ events' = events + 1
    /\ queue' = Append(queue, W("cancel", NoRun, NoSite))
    /\ UNCHANGED <<storage, snap, jobs, browser, clock, starts, crashes>>

(* watchdogTick: time out the authorization, fail a stalled site, or       *)
(* resume a walk whose worker died between settling a site and advancing.  *)
StallLimit == IF Stored.auth THEN 2 ELSE 1
CurrentInFlight == Stored.cur # NoSite /\ InFlight(Stored.site[Stored.cur])

MutWatchdogUpdates ==
    CASE Stored.phase = "authorizing" /\ stored \in aged ->
            <<W("fail", stored, NoSite)>>
      [] Stored.phase = "running" /\ quiet >= StallLimit /\ CurrentInFlight ->
            <<FailSite(stored, Stored.cur)>>
      [] OTHER -> <<>>
WatchdogUpdates ==
    CASE Stored.phase = "authorizing" /\ stored \in aged ->
            <<W("fail", stored, NoSite)>>
      [] Stored.phase = "running" /\ quiet >= StallLimit ->
            IF CurrentInFlight THEN <<FailSite(stored, Stored.cur)>>
            ELSE <<Advance(stored)>>
      [] OTHER -> <<>>

WatchdogTick ==
    /\ alarm /\ Len(queue) < MaxQueue
    /\ IF StoredLive
       THEN queue' = queue \o WatchdogUpdates /\ UNCHANGED alarm
       ELSE alarm' = FALSE /\ UNCHANGED queue
    /\ UNCHANGED <<storage, snap, jobs, tabs, reports, stamps, clock, counts>>

-----------------------------------------------------------------------------
(* The content script in the tab of site i of run r, the user, time, and   *)
(* the death of the worker.                                                *)

PageLoads(r, i) ==
    /\ tabs[r][i] = "loading"
    /\ tabs' = [tabs EXCEPT ![r][i] = "ready"]
    /\ UNCHANGED <<storage, worker, reports, alarm, stamps, clock, counts>>

ScanProgress(r, i) ==
    /\ tabs[r][i] = "scanning"
    /\ events < MaxEvents /\ Len(queue) < MaxQueue
    /\ events' = events + 1
    /\ queue' = Append(queue, WFrom("progress", r, i, FALSE, <<r, i>>))
    /\ UNCHANGED <<storage, snap, jobs, browser, clock, starts, crashes>>

(* A plan or an upload finds the token expired: its prompt goes into the   *)
(* stored run, whichever that is, and the scan waits for the answer.       *)
AwaitsAuth(r, i) == W("reauth", r, i) \in jobs

ScanNeedsAuth(r, i) ==
    /\ tabs[r][i] = "scanning" /\ ~AwaitsAuth(r, i)
    /\ events < MaxEvents /\ Len(queue) < MaxQueue
    /\ events' = events + 1
    /\ queue' = Append(queue, Prompt(TRUE))
    /\ jobs' = jobs \cup {W("reauth", r, i)}
    /\ UNCHANGED <<storage, snap, browser, clock, starts, crashes>>

ScanEnds(r, i, ok) ==
    /\ tabs[r][i] = "scanning" /\ ~AwaitsAuth(r, i)
    /\ tabs' = [tabs EXCEPT ![r][i] = "ready"]
    /\ reports' = [reports EXCEPT ![r][i] = ok]
    /\ jobs' = jobs \cup {WOk("scan:done", r, i, ok)}
    /\ UNCHANGED <<storage, queue, snap, alarm, stamps, clock, counts>>

UserClosesTab(r, i) ==
    /\ Open(r, i)
    /\ events < MaxEvents
    /\ events' = events + 1
    /\ tabs' = [tabs EXCEPT ![r][i] = "closed"]
    /\ jobs' = jobs \cup {W("onRemoved", r, i)}
    /\ UNCHANGED <<storage, queue, snap, reports, alarm, stamps, clock,
                   starts, crashes>>

(* Silence passes the next limit; a run silent for AUTH_STALL_MS started   *)
(* at least that long ago.                                                 *)
Elapse ==
    /\ StoredLive /\ quiet < 2
    /\ quiet' = quiet + 1
    /\ aged' = IF quiet = 1 /\ Stored.phase = "authorizing"
               THEN aged \cup {stored} ELSE aged
    /\ UNCHANGED <<storage, worker, browser, counts>>

Age ==
    /\ stored # NoRun /\ Stored.phase = "authorizing"
    /\ aged' = aged \cup {stored}
    /\ UNCHANGED <<storage, worker, browser, quiet, counts>>

WorkerDies ==
    /\ crashes < MaxCrashes
    /\ queue # <<>> \/ jobs # {}    \* else nothing is lost
    /\ crashes' = crashes + 1
    /\ queue' = <<>> /\ snap' = NoRun /\ jobs' = {}
    /\ UNCHANGED <<storage, browser, clock, starts, events>>

-----------------------------------------------------------------------------
Init ==
    /\ stored = NoRun /\ runs = [r \in Ids |-> NotStarted]
    /\ queue = <<>> /\ snap = NoRun /\ jobs = {}
    /\ tabs = [r \in Ids |-> [i \in Sites |-> "unopened"]]
    /\ reports = [r \in Ids |-> [i \in Sites |-> FALSE]]
    /\ alarm = FALSE /\ stamps = {} /\ quiet = 0 /\ aged = {}
    /\ starts = 0 /\ crashes = 0 /\ events = 0

JobStep(j) ==
    \/ SetState(j) \/ ArmWatchdog(j) \/ EnsureToken(j) \/ PollForToken(j)
    \/ OpenTab(j) \/ PingTab(j) \/ SendScan(j)
    \/ RemoveTab(j) \/ ClearWatchdog(j) \/ StampSynced(j)
    \/ HandleScanDone(j) \/ HandleTabRemoved(j) \/ EndReauth(j)

TabStep(r, i) ==
    \/ PageLoads(r, i) \/ ScanProgress(r, i) \/ ScanNeedsAuth(r, i)
    \/ UserClosesTab(r, i) \/ \E ok \in BOOLEAN : ScanEnds(r, i, ok)

Next ==
    \/ ReadState \/ WriteState
    \/ StartSync \/ CancelSync \/ WatchdogTick
    \/ \E j \in jobs : JobStep(j)
    \/ \E r \in Ids, i \in Sites : TabStep(r, i)
    \/ Elapse \/ Age \/ WorkerDies

Spec == Init /\ [][Next]_vars

(* The extension as a whole is not stopped: the event loop runs some of    *)
(* what is pending, storage and network calls return (every poll and ping  *)
(* has a deadline), an armed alarm keeps firing or time passes.  Nothing   *)
(* is assumed of their order, nor of pages, scans or the user.             *)
ExtensionStep ==
    \/ ReadState \/ WriteState \/ WatchdogTick
    \/ \E j \in jobs : JobStep(j)
    \/ Elapse \/ Age

FairSpec == Spec /\ WF_vars(ExtensionStep)

-----------------------------------------------------------------------------
(* Every variable has its type.                                            *)
TypeOK ==
    /\ stored \in Ids \cup {NoRun} /\ runs \in [Ids -> Run]
    /\ queue \in Seq(Work(UpdateKind)) /\ snap \in Ids \cup {NoRun}
    /\ jobs \subseteq Work(JobKind)
    /\ tabs \in [Ids -> [Sites -> TabState]]
    /\ reports \in [Ids -> [Sites -> BOOLEAN]]
    /\ alarm \in BOOLEAN /\ stamps \subseteq Ids
    /\ quiet \in 0 .. 2 /\ aged \subseteq Ids
    /\ starts \in 0 .. MaxRuns /\ crashes \in 0 .. MaxCrashes
    /\ events \in 0 .. MaxEvents

(* The stored state of a run, whatever raced to write it: before a site is *)
(* picked nothing has happened; while running, the sites before            *)
(* currentIndex are settled, those after it untouched, and only the        *)
(* current one can hold a tab; a finished run has settled every site and a *)
(* cancelled one has settled or skipped every site.                        *)
Untouched(s) == /\ \A i \in Sites : s.site[i] = "pending" /\ ~s.bound[i]
                /\ s.cur = NoSite

Walking(s) ==
    /\ s.cur \in Sites
    /\ InFlight(s.site[s.cur]) \/ Settled(s.site[s.cur])
    /\ \A i \in Sites : /\ i < s.cur => Settled(s.site[i])
                        /\ i > s.cur => s.site[i] = "pending"
                        /\ s.bound[i] => i = s.cur /\ InFlight(s.site[i])

Ended(s) ==
    /\ ~s.auth
    /\ s.phase = "done" => s.cur = NoSite
    /\ \A i \in Sites : /\ ~s.bound[i]
                        /\ \/ Settled(s.site[i])
                           \/ s.phase = "cancelled" /\ s.site[i] = "skipped"

RunShape(s) ==
    /\ s.phase \in {"none", "authorizing", "error"} => Untouched(s)
    /\ s.phase \in {"none", "error"} => ~s.auth
    /\ s.phase = "running" => Walking(s)
    /\ s.phase \in {"done", "cancelled"} => Ended(s)

SitesWalkedInOrder == \A r \in Ids : RunShape(runs[r])

(* A site counts as done only if the scan in the tab opened for that very  *)
(* site, in that run, reported success: a late scan:done is never credited *)
(* to the site or the run that is current by the time it is handled.       *)
DoneWasReported ==
    \A r \in Ids, i \in Sites : runs[r].site[i] = "done" => reports[r][i]

(* As long as the worker has not died, every open tab of a run that was    *)
(* not replaced while live has someone to close it: it is the tab of the   *)
(* site in flight, or its binding or its removal is pending ("don't leak   *)
(* it", background.js:615).                                                *)
Owned(r, i) ==
    \/ stored = r /\ InFlight(runs[r].site[i]) /\ runs[r].bound[i]
    \/ \E n \in 1 .. Len(queue) :
          queue[n].k = "bind" /\ queue[n].sid = r /\ queue[n].idx = i
    \/ \E j \in jobs :
          j.k \in {"close", "drop", "abandon"} /\ j.sid = r /\ j.idx = i

Replaced(r) == Live(runs[r]) /\ stored # r

OpenTabsOwned ==
    crashes = 0 => \A r \in Ids, i \in Sites :
                      Open(r, i) /\ ~Replaced(r) => Owned(r, i)

(* A run whose watchdog is armed ends, and the alarm with it, wherever the *)
(* worker died, whether or not its pages load and its scans ever answer.   *)
ArmedRunEnds == alarm ~> (~alarm /\ ~StoredLive)

(* A run that completed with a site done stamps lastSyncedAt, which the    *)
(* weekly staleness check relies on, whatever run is stored by then: unless*)
(* the worker died, it has stamped it or still holds the step that will.   *)
CompletedRunStamped ==
    \A r \in Ids :
        runs[r].phase = "done" /\ (\E i \in Sites : runs[r].site[i] = "done") =>
            \/ r \in stamps \/ crashes > 0
            \/ \E j \in jobs : /\ j.sid = r
                               /\ j.k = "stamp" \/ (j.k = "finish" /\ j.ok)

-----------------------------------------------------------------------------
(* The worker implements RunContract for every run, followed through all   *)
(* that is ever written for it, also when runs overlap, replace each other *)
(* in storage or outlive their worker: scan:done, the watchdog,            *)
(* tabs.onRemoved and cancel race, and only the first of them acts.        *)
OutcomeOf(s) == [i \in Sites |-> IF InFlight(s.site[i]) THEN "in flight"
                                 ELSE s.site[i]]

Contract(r) == INSTANCE RunContract
                   WITH phase <- runs[r].phase, outcome <- OutcomeOf(runs[r])

RunsKeepContract ==
    /\ \A r \in Ids : Contract(r)!Init
    /\ [][\A r \in Ids : [Contract(r)!Next]_(Contract(r)!vars)]_vars

=============================================================================
