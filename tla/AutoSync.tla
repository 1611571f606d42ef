------------------------------ MODULE AutoSync ------------------------------
(***************************************************************************)
(* The weekly auto-sync of the browser extension: the staleness check the  *)
(* worker runs on an alarm (extension/background.js, autoSyncTick) and the *)
(* tab it opens in the background (extension/app.js with ?auto=1), which   *)
(* starts a run itself, closes itself after a full success and comes       *)
(* forward otherwise.  The run in between is what the page can tell of it: *)
(* live, or over with an outcome; ExtensionRun has its steps.              *)
(*                                                                         *)
(* Worker and pages are separate threads.  A step is the code between two  *)
(* awaits.  A page's inbox is what the worker sent it, in order: the       *)
(* answer to sync:start leaves before the run it announces has had a reply *)
(* from anyone, so it is ahead of that run's end.                          *)
(*                                                                         *)
(* Stale counts units of the staleness window on the wall clock, which may *)
(* be set back.                                                            *)
(***************************************************************************)
EXTENDS Integers, Sequences

CONSTANTS
    Stale,     \* AUTO_SYNC_STALE_MS, in units; test mode's window is one unit
    MaxNow,    \* bound: where the clock stops
    Pages,     \* bound: app.html tabs there may be at a time
    MaxRuns,   \* bound: runs accepted
    MaxEvents, \* bound: things the user does
    MaxFaults  \* bound: deaths, restarts, refused tabs, clock set back

ASSUME AutoSyncAssumption ==
    /\ Stale \in Nat \ {0} /\ MaxNow \in Nat /\ MaxRuns \in Nat
    /\ MaxEvents \in Nat /\ MaxFaults \in Nat

VARIABLES
    now,            \* Date.now()
    lastSyncedAt, lastAutoOpenAt, \* chrome.storage.local
    autoSyncTest,   \* chrome.storage.local: dev setting
    cur, runs,      \* chrome.storage.session: id of the stored run, all runs
    tick,           \* the autoSyncTick under way: where it is, its staleMs
    stamping,       \* advance has yet to stamp lastSyncedAt
    page,           \* the app.html tabs
    opened,         \* history: the last tab autoSyncTick created
    events, faults  \* counted against the bounds

clocks == <<now, lastSyncedAt, lastAutoOpenAt, autoSyncTest>>
worker == <<tick, stamping>>
vars == <<clocks, cur, runs, worker, page, opened, events, faults>>

-----------------------------------------------------------------------------
Never == -1                 \* a stamp that was not written
Ids == 1 .. MaxRuns
NoRun == 0

Outcomes == {"full", "partial", "failed"}   \* all, some, no site done
RunState == [phase : {"none", "live"} \cup Outcomes, auto : BOOLEAN]

Answer(id) == <<"ok", id>>
Refused == <<"no", NoRun>>
Ended(id) == <<"end", id>>

(* autoRun is autoRunSyncId, timer is autoCloseTimer; "fired" is its       *)
(* callback between getCurrent and tabs.remove.  mine and looked are       *)
(* history: the run the page was told it started, and whether it has been  *)
(* on screen - "early" before its listeners existed, "late" once the timer *)
(* had fired.                                                              *)
Page == [st        : {"none", "loading", "asking", "open"},
         auto      : BOOLEAN,
         visible   : BOOLEAN,
         tookOver  : BOOLEAN,
         autoRun   : Ids \cup {NoRun},
         timer     : {"off", "set", "fired"},
         surfacing : BOOLEAN,
         inbox     : Seq({"ok", "no", "end"} \X (Ids \cup {NoRun})),
         mine      : Ids \cup {NoRun},
         looked    : {"no", "early", "yes", "late"}]

NoPage == [st |-> "none", auto |-> FALSE, visible |-> FALSE,
           tookOver |-> FALSE, autoRun |-> NoRun, timer |-> "off",
           surfacing |-> FALSE, inbox |-> <<>>, mine |-> NoRun,
           looked |-> "no"]
PlainPage == [NoPage EXCEPT !.st = "open", !.visible = TRUE, !.looked = "yes"]
AutoPage == [NoPage EXCEPT !.st = "loading", !.auto = TRUE]

IsOpen(p) == page[p].st # "none"
Listening(p) == page[p].auto /\ page[p].st \in {"asking", "open"}
FreePages == {p \in Pages : ~IsOpen(p)}
NextPage == CHOOSE p \in Pages : p \in FreePages

Live == cur # NoRun /\ runs[cur].phase = "live"
Started == {id \in Ids : runs[id].phase # "none"}

MutStaleMs == IF autoSyncTest THEN 0 ELSE Stale
StaleMs == IF autoSyncTest THEN 1 ELSE Stale

(* sinceStamp: a stamp from the future is infinitely old.                  *)
Expired(ts, stale) == now < ts \/ now - ts >= stale

Init ==
    /\ now = 0
    /\ lastSyncedAt \in {Never, 0}
    /\ lastAutoOpenAt = Never
    /\ autoSyncTest = FALSE
    /\ cur = NoRun
    /\ runs = [id \in Ids |-> [phase |-> "none", auto |-> FALSE]]
    /\ tick = [at |-> "idle", stale |-> Stale]
    /\ stamping = FALSE
    /\ page = [p \in Pages |-> NoPage]
    /\ opened = [at |-> Never, stamped |-> TRUE, setBack |-> FALSE]
    /\ events = 0 /\ faults = 0

-----------------------------------------------------------------------------
(* autoSyncTick, from one await to the next.  The alarm may fire whenever  *)
(* no check is under way.                                                  *)
TickTo(at) == tick' = [tick EXCEPT !.at = at]

MutThrottle == Expired(lastSyncedAt, StaleMs)
Throttle ==
    /\ Expired(lastSyncedAt, StaleMs)
    /\ lastAutoOpenAt # Never => Expired(lastAutoOpenAt, StaleMs)

CheckStamps ==
    /\ tick.at = "idle"
    /\ \/ /\ lastSyncedAt = Never
          /\ lastSyncedAt' = now
          /\ UNCHANGED tick
       \/ /\ lastSyncedAt # Never /\ Throttle
          /\ tick' = [at |-> "state", stale |-> StaleMs]
          /\ UNCHANGED lastSyncedAt
    /\ UNCHANGED <<now, lastAutoOpenAt, autoSyncTest, cur, runs, stamping,
                   page, opened, events, faults>>

CheckState ==
    /\ tick.at = "state"
    /\ TickTo(IF Live THEN "idle" ELSE "query")
    /\ UNCHANGED <<clocks, cur, runs, stamping, page, opened, events, faults>>

QueryTabs ==
    /\ tick.at = "query"
    /\ TickTo(IF \E p \in Pages : IsOpen(p) THEN "idle" ELSE "create")
    /\ UNCHANGED <<clocks, cur, runs, stamping, page, opened, events, faults>>

(* chrome.tabs.create fails when no browser window is open.                *)
MutCreateRefused ==
    /\ tick.at = "create"
    /\ faults < MaxFaults /\ faults' = faults + 1
    /\ TickTo("stamp")
    /\ UNCHANGED <<clocks, cur, runs, stamping, page, opened, events>>
CreateRefused ==
    /\ tick.at = "create"
    /\ faults < MaxFaults /\ faults' = faults + 1
    /\ TickTo("idle")
    /\ UNCHANGED <<clocks, cur, runs, stamping, page, opened, events>>

CreateTab ==
    /\ tick.at = "create" /\ FreePages # {}
    /\ page' = [page EXCEPT ![NextPage] = AutoPage]
    /\ opened' = [at |-> now, stamped |-> FALSE, setBack |-> FALSE]
    /\ TickTo("stamp")
    /\ UNCHANGED <<clocks, cur, runs, stamping, events, faults>>

StampOpen ==
    /\ tick.at = "stamp"
    /\ lastAutoOpenAt' = now
    /\ opened' = [opened EXCEPT !.stamped = TRUE]
    /\ TickTo("idle")
    /\ UNCHANGED <<now, lastSyncedAt, autoSyncTest, cur, runs, stamping, page,
                   events, faults>>

-----------------------------------------------------------------------------
(* The run.  A run gone silent may be taken over by the next start; when   *)
(* that is, is ExtensionRun's matter, and here it may be at any time.      *)
NewRun(auto) ==
    /\ Started # Ids
    /\ LET id == CHOOSE i \in Ids : i \notin Started
       IN /\ cur' = id
          /\ runs' = [runs EXCEPT ![id] = [phase |-> "live", auto |-> auto]]

Tell(s, m) == [s EXCEPT !.inbox = Append(@, m)]

(* sync:start from an auto page: accepted, or refused because a run is in  *)
(* flight or no site is selected.                                          *)
Asked(p) == /\ page[p].st = "asking" /\ page[p].mine = NoRun
            /\ page[p].inbox = <<>>

AcceptStart(p) ==
    /\ Asked(p)
    /\ NewRun(TRUE)
    /\ page' = [page EXCEPT ![p] = [@ EXCEPT !.mine = cur',
                                             !.inbox = <<Answer(cur')>>]]
    /\ UNCHANGED <<clocks, worker, opened, events, faults>>

RefuseStart(p) ==
    /\ Asked(p)
    /\ page' = [page EXCEPT ![p] = Tell(@, Refused)]
    /\ UNCHANGED <<clocks, cur, runs, worker, opened, events, faults>>

(* The run ends; every page that subscribed is told.  A run with a site    *)
(* done stamps lastSyncedAt in a later step.                               *)
EndRun(outcome) ==
    /\ Live
    /\ runs' = [runs EXCEPT ![cur].phase = outcome]
    /\ page' = [p \in Pages |->
                  IF Listening(p) THEN Tell(page[p], Ended(cur)) ELSE page[p]]
    /\ stamping' = (stamping \/ outcome # "failed")
    /\ UNCHANGED <<clocks, cur, tick, opened, events, faults>>

StampSync ==
    /\ stamping
    /\ lastSyncedAt' = now
    /\ stamping' = FALSE
    /\ UNCHANGED <<now, lastAutoOpenAt, autoSyncTest, cur, runs, tick, page,
                   opened, events, faults>>

-----------------------------------------------------------------------------
(* The page.  disarmAutoClose: the user has seen it.                       *)
Disarm(s) == [s EXCEPT !.tookOver = TRUE, !.autoRun = NoRun,
                       !.timer = IF @ = "set" THEN "off" ELSE @]

(* The tab comes on screen: visibilitychange, once the page listens for it.*)
OnScreen(s, how) == [s EXCEPT !.visible = TRUE, !.looked = how]
Shown(s) ==
    IF s.visible THEN s
    ELSE IF s.st = "loading" THEN OnScreen(s, "early")
    ELSE IF s.timer = "fired" THEN OnScreen(Disarm(s), "late")
    ELSE OnScreen(IF s.auto THEN Disarm(s) ELSE s, "yes")

(* init's end: the listeners are in place and sync:start is sent.          *)
StartListening(p) ==
    /\ page[p].st = "loading"
    /\ page' = [page EXCEPT ![p] = [@ EXCEPT !.st = "asking"]]
    /\ UNCHANGED <<clocks, cur, runs, worker, opened, events, faults>>

(* The answer to sync:start arms the auto-close or brings the tab forward. *)
Answered(s) == [s EXCEPT !.st = "open"]
MutArm(s, id) == IF ~s.visible THEN [Answered(s) EXCEPT !.autoRun = id]
                 ELSE Answered(s)
Arm(s, id) == IF ~s.tookOver /\ ~s.visible
              THEN [Answered(s) EXCEPT !.autoRun = id]
              ELSE Answered(s)

MutOnRefused(s) == [s EXCEPT !.st = "open"]
OnRefused(s) == [s EXCEPT !.st = "open", !.surfacing = TRUE]

(* maybeAutoClose, on the state of a run that is over.                     *)
MaybeAutoClose(s, id) ==
    IF s.autoRun = NoRun \/ id # s.autoRun THEN s
    ELSE IF runs[id].phase # "full"
    THEN [Disarm(s) EXCEPT !.surfacing = TRUE]
    ELSE [s EXCEPT !.timer = IF @ = "off" THEN "set" ELSE @]

Receive(p) ==
    /\ page[p].inbox # <<>>
    /\ LET m == Head(page[p].inbox)
           s == [page[p] EXCEPT !.inbox = Tail(@)]
       IN page' = [page EXCEPT ![p] =
                     CASE m[1] = "ok"  -> Arm(s, m[2])
                       [] m[1] = "no"  -> OnRefused(s)
                       [] m[1] = "end" -> MaybeAutoClose(s, m[2])]
    /\ UNCHANGED <<clocks, cur, runs, worker, opened, events, faults>>

(* surfaceTab activates the tab in which the page runs.                    *)
SurfaceTab(p) ==
    /\ page[p].surfacing
    /\ page' = [page EXCEPT ![p] = [Shown(@) EXCEPT !.surfacing = FALSE]]
    /\ UNCHANGED <<clocks, cur, runs, worker, opened, events, faults>>

FireTimer(p) ==
    /\ page[p].timer = "set"
    /\ page' = [page EXCEPT ![p] = [@ EXCEPT !.timer = "fired"]]
    /\ UNCHANGED <<clocks, cur, runs, worker, opened, events, faults>>

CloseItself(p) ==
    /\ page[p].timer = "fired"
    /\ page' = [page EXCEPT ![p] = NoPage]
    /\ UNCHANGED <<clocks, cur, runs, worker, opened, events, faults>>

-----------------------------------------------------------------------------
(* openOrFocusAppPage: the toolbar icon, or a run the extension started    *)
(* itself that needs an approval.                                          *)
OpenOrFocus ==
    IF \E p \in Pages : IsOpen(p)
    THEN \E p \in Pages : IsOpen(p) /\ page' = [page EXCEPT ![p] = Shown(@)]
    ELSE page' = [page EXCEPT ![NextPage] = PlainPage]

AskApproval ==
    /\ Live /\ runs[cur].auto
    /\ events < MaxEvents /\ events' = events + 1
    /\ OpenOrFocus
    /\ UNCHANGED <<clocks, cur, runs, worker, opened, faults>>

(* What the user does: the icon, switching tabs, closing or reloading one  *)
(* (?auto=1 is stripped by then), a sync by hand, the test mode toggle.    *)
User(A) == /\ events < MaxEvents /\ events' = events + 1
           /\ A
           /\ UNCHANGED <<worker, opened, faults>>
ClickIcon == User(OpenOrFocus /\ UNCHANGED <<clocks, cur, runs>>)
Look(p) == User(/\ IsOpen(p) /\ ~page[p].visible
                /\ page' = [page EXCEPT ![p] = Shown(@)]
                /\ UNCHANGED <<clocks, cur, runs>>)
Leave(p) == User(/\ page[p].visible
                 /\ page' = [page EXCEPT ![p] = [@ EXCEPT !.visible = FALSE]]
                 /\ UNCHANGED <<clocks, cur, runs>>)
ClosePage(p) == User(/\ IsOpen(p)
                     /\ page' = [page EXCEPT ![p] = NoPage]
                     /\ UNCHANGED <<clocks, cur, runs>>)
Reload(p) == User(/\ Listening(p) /\ page[p].visible
                  /\ page' = [page EXCEPT ![p] = PlainPage]
                  /\ UNCHANGED <<clocks, cur, runs>>)
SyncByHand == User(/\ \E p \in Pages : page[p].visible /\ page[p].st = "open"
                   /\ NewRun(FALSE)
                   /\ UNCHANGED <<clocks, page>>)
ToggleTest == User(/\ \E p \in Pages : page[p].visible
                   /\ autoSyncTest' = ~autoSyncTest
                   /\ UNCHANGED <<now, lastSyncedAt, lastAutoOpenAt, cur, runs,
                                  page>>)

-----------------------------------------------------------------------------
(* The world: time, a clock set back, the worker's death and a restart of  *)
(* the browser, which empties storage.session and closes the tabs.         *)
Tick ==
    /\ now < MaxNow /\ now' = now + 1
    /\ UNCHANGED <<lastSyncedAt, lastAutoOpenAt, autoSyncTest, cur, runs,
                   worker, page, opened, events, faults>>

Fault == faults < MaxFaults /\ faults' = faults + 1

SetClockBack ==
    /\ Fault
    /\ \E t \in 0 .. now - 1 : now' = t
    /\ opened' = [opened EXCEPT !.setBack = TRUE]
    /\ UNCHANGED <<lastSyncedAt, lastAutoOpenAt, autoSyncTest, cur, runs,
                   worker, page, events>>

Died == /\ tick' = [tick EXCEPT !.at = "idle"]
        /\ stamping' = FALSE

(* A page whose sync:start was not answered yet gets no response, though   *)
(* the run may be in storage by then.                                      *)
WorkerDies ==
    /\ Fault
    /\ Died
    /\ page' = [p \in Pages |->
                  IF Asked(p) THEN Tell(page[p], Refused) ELSE page[p]]
    /\ \/ UNCHANGED <<cur, runs>>
       \/ (\E p \in Pages : Asked(p)) /\ NewRun(TRUE)
    /\ UNCHANGED <<clocks, opened, events>>

Restart ==
    /\ Fault
    /\ Died
    /\ page' = [p \in Pages |-> NoPage]
    /\ cur' = NoRun
    /\ UNCHANGED <<clocks, runs, opened, events>>

(* onInstalled: an update or reload of the extension drops the test mode   *)
(* (its pages are closed with it).                                         *)
Updated ==
    /\ Fault
    /\ Died
    /\ autoSyncTest' = FALSE
    /\ page' = [p \in Pages |-> NoPage]
    /\ cur' = NoRun
    /\ UNCHANGED <<now, lastSyncedAt, lastAutoOpenAt, runs, opened, events>>

AutoSyncTick == \/ CheckStamps \/ CheckState \/ QueryTabs
                \/ CreateTab \/ StampOpen
PageStep(p) == \/ StartListening(p) \/ Receive(p) \/ SurfaceTab(p)
               \/ FireTimer(p) \/ CloseItself(p)
Respond(p) == AcceptStart(p) \/ RefuseStart(p)
UserStep == \/ ClickIcon \/ SyncByHand \/ ToggleTest
            \/ \E p \in Pages : Look(p) \/ Leave(p) \/ ClosePage(p) \/ Reload(p)
Environment == \/ Tick \/ SetClockBack \/ WorkerDies \/ Restart \/ Updated

Next ==
    \/ AutoSyncTick \/ CreateRefused \/ StampSync \/ AskApproval
    \/ \E outcome \in Outcomes : EndRun(outcome)
    \/ \E p \in Pages : PageStep(p) \/ Respond(p)
    \/ UserStep \/ Environment

Spec == Init /\ [][Next]_vars

(* The alarm keeps firing, a page's events are handled and a message that  *)
(* was sent is answered.  Nothing is assumed of the user or of a run.      *)
FairSpec ==
    /\ Spec /\ WF_vars(AutoSyncTick)
    /\ \A p \in Pages : WF_vars(PageStep(p)) /\ WF_vars(Respond(p))

-----------------------------------------------------------------------------
(* Every variable has its type.                                            *)
TypeOK ==
    /\ now \in 0 .. MaxNow
    /\ lastSyncedAt \in Nat \cup {Never} /\ lastAutoOpenAt \in Nat \cup {Never}
    /\ autoSyncTest \in BOOLEAN
    /\ cur \in Ids \cup {NoRun} /\ runs \in [Ids -> RunState]
    /\ tick \in [at : {"idle", "state", "query", "create", "stamp"},
                 stale : {1, Stale}]
    /\ stamping \in BOOLEAN
    /\ page \in [Pages -> Page]
    /\ opened \in [at : Nat \cup {Never}, stamped : BOOLEAN, setBack : BOOLEAN]
    /\ events \in 0 .. MaxEvents /\ faults \in 0 .. MaxFaults

(* At most one auto-open per staleness window ("weekly nudges, not daily   *)
(* nagging"): a second one inside the window means that the worker died    *)
(* before it stamped the first, or that the clock was set back since.      *)
NotNagged ==
    [][opened'.at # opened.at \/ opened'.stamped # opened.stamped =>
         \/ opened'.stamped
         \/ opened.at = Never \/ ~opened.stamped \/ opened.setBack
         \/ now - opened.at >= tick.stale]_vars

(* The page only closes itself over a run it started, that got every site  *)
(* done, and that nobody has watched from it: no look or touch since its   *)
(* listeners exist and until the timer fired, even one followed by leaving.*)
ClosesOnlyUnseen ==
    \A p \in Pages : page[p].timer # "off" =>
        /\ page[p].mine # NoRun /\ runs[page[p].mine].phase = "full"
        /\ page[p].looked # "yes"
        /\ page[p].visible => page[p].looked = "late"

(* An auto page whose start was refused or whose run is over does not stay *)
(* behind unseen, where it would keep the alarm from ever opening another: *)
(* it closes itself or has been on screen.                                 *)
Over(p) ==
    /\ page[p].auto /\ page[p].st = "open"
    /\ \/ page[p].mine = NoRun
       \/ runs[page[p].mine].phase \in Outcomes
NotParked ==
    \A p \in Pages : Over(p) ~> (~IsOpen(p) \/ page[p].looked # "no")

(* A staleness that is due, by the full window, is acted on whatever       *)
(* tabs.create did before: a page or a run appears or the stamp is renewed *)
(* - a failed create must not use up the window.  A clock set back makes   *)
(* stamps younger again.                                                   *)
Due == /\ tick.at = "idle" /\ lastSyncedAt # Never
       /\ Expired(lastSyncedAt, Stale)
       /\ lastAutoOpenAt # Never => Expired(lastAutoOpenAt, Stale)
DueIsOpened ==
    Due ~> \/ Live \/ \E p \in Pages : IsOpen(p)
           \/ ~Expired(lastSyncedAt, Stale) \/ opened.setBack
=============================================================================
