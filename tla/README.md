# Verification of aiscan-clients

TLA+ models of the two aiscan clients, the browser extension (`extension/`)
and the desktop program (`desktop/`), checked with TLC on small instances and,
for the core, proved with TLAPS for every value of the constants. Line numbers
refer to the files of this repository.

## 1. The system

Both clients do the same thing in different places: they find out what AI-tool
conversations exist, ask the server which time spans it still needs
(`aiscanSyncPlan`), and post each needed span's conversations as evidence
(`POST /api/aiscan/ingest`). Posting evidence *covers* the span, and the server
does not ask for it again (`docs/upload-schema-v1.md`). Everything that is hard
follows from three facts: the walk is long and interruptible, several actors
change its state at once, and covering a window is final.

| component | state | operations | talks to |
|---|---|---|---|
| extension orchestrator (`background.js` 430-784) | `syncState` in `chrome.storage.session`, the write chain, tabs, the watchdog alarm | start, authorize, advance, open and scan, settle, cancel, watchdog | page (`app.js`) by messages and storage; content script by messages; tabs, alarms |
| extension evidence service (51-112, 246-416) | none | plan, upload | content script by messages; server |
| extension authorization (119-235) | cached token in `storage.local`, the prompt in `syncState` | ensure, poll, store, clear | orchestrator; server |
| page scan (`content.js`) | one `scanning` flag, the list | list, plan, fetch, upload per span | orchestrator; the site's API |
| weekly auto-sync (`background.js` 815-880, `app.js` 154-209) | `lastSyncedAt`, `lastAutoOpenAt` | tick, open page, auto-start, auto-close | orchestrator |
| desktop sync (`cli/sync.go`, `upload`, `syncplan`) | where the sync is; all that lasts is on the server | discover, plan, capture, split, post, retry, re-authorize | capture recipes; server; token cache |
| desktop agent (`cli/agent.go`, `tray`) | snapshot, channel to the tray, queues of requests, login in flight, restart pending | scheduled and manual passes, login, logout, pause, update | sync; tray; token cache; auto-update |
| token cache (`auth`) | one file, shared by all processes | ensure, clear | sync, agent, server |
| daemon start (`cli/daemon.go`, `lock_unix.go`, `registration.go`) | lock file with a pid, per-version stamp | acquire, take over, release | agent |
| auto-update (`autoupdate`) | marker, throttle stamp, the binary | check, apply, swap | agent, command line |
| redaction, command line, packaging | none that lasts | | |

`PROJECT.json` lists every component with what is and is not modelled, and
the hazards with their lines.

What makes each correct:

* orchestrator: one site at a time and in order; one outcome per site; nothing
  is credited to the wrong site or run; no tab is orphaned; a run ends;
* scan and desktop sync: a window is never covered over a conversation that
  was neither sent nor deliberately given up; a failed sync is made up for;
* agent: manual requests and logins are served; publishing never blocks; the
  menu tells the truth; no valid token is destroyed;
* daemon lock: at most one daemon; a takeover ends the one that holds the lock;
* auto-update: a downloaded update is adopted, never an older one;
* auto-sync: one automatic opening per week, and always one when due.

## 2. The modules

| module | models | lines |
|---|---|---|
| `RunContract` | what one extension run promises: abstract specification | |
| `ExtensionRun` | the orchestrator, one step per stretch of code between awaits | `background.js` 438-784, 894-957 |
| `MCExtensionRun` | a comment that `ExtensionRun` does not live up to | |
| `ExtensionRunProofs` | types, `SitesWalkedInOrder`, and that `ExtensionRun` implements `RunContract` for every run, proved | |
| `OutcomeProofs` | `DoneWasReported`, `OpenTabsOwned` and `CompletedRunStamped`, proved | |
| `SyncPlan` | spans of time and what the server needs of them | `syncplan.go`, `background.js`, the server |
| `ExtensionScan` | the scan of one site, with plan and upload | `content.js` 61-439, `background.js` 246-416, `ensureToken` |
| `ExtensionScanProofs` | types, `CoveredIsAccounted`, `UnpackableNotAlone`, and that a scan takes a bounded number of steps, proved | |
| `AutoSync` | the weekly check, the tab it opens and how that tab closes or comes forward | `background.js` 786-880, 951-970, `app.js` 123-209, 328-336, 402-450 |
| `AutoSyncProofs` | types, `ClosesOnlyUnseen` and `NotNagged`, proved | |
| `DesktopSync` | the sync of several sources by several processes; uses `SyncPlan` | `cli/sync.go`, `upload.go`, `syncplan.go`, recipes |
| `MCDesktopSync` | sizes and sources of the instances' sessions | |
| `DesktopSyncProofs` | types, `CoveredIsAccounted` and `EmptyBodyReadNothing`, what `Split` computes, and that a sync only ever comes nearer to its end, proved | |
| `Agent` | the resident daemon, its goroutines, the tray and the token cache | `cli/agent.go`, `tray.go`, `auth.go`, `firstrun.go` |
| `MCAgent` | a comment it does not live up to | |
| `AgentProofs` | types, `LogoutSticks`, what "syncing" means in the menu, and that a login takes a bounded number of steps, proved | |
| `DaemonStart` | bounce, lock, takeover, launchd, restart | `registration.go`, `lock_unix.go`, `daemon.go`, `agent.go` 186-204 |
| `DaemonStartProofs` | types, mutual exclusion, and that no processes bounce or take over from one another for ever, proved | |
| `AutoUpdate` | marker, throttle and binary as all processes use them | `autoupdate.go`, `main.go`, `update.go` |
| `AutoUpdateProofs` | types and `NoStaleReapply`, proved | |

### ExtensionRun

JavaScript runs a function up to its next `await`. So a step of the model is
the code from one resumption to the next `await`, with the call it issues. What
waits is in `queue` (the `stateWriteChain` of `updateSyncState`, whose head
reads storage in one step, `ReadState`, and writes it in another, `WriteState`)
and `jobs` (every other continuation, message and browser event). The functions
handed to `updateSyncState` are pairs `Guard`/`Post`: whether `fn` goes through,
and the state it leaves; what the code does after the update is `JobsAfter`,
`UpdatesAfter` or, when `fn` returned false, `JobsAfterAbort`. `startSync` is
`StartSync` (reads, decides), `SetState` (its raw write, past the chain) and
`ArmWatchdog`. A worker death (`WorkerDies`) loses `queue`, `snap` and `jobs`;
storage, alarms and tabs survive. `runs[r]` is the state last written for run
`r`, `stored` the one in storage, so a run that another replaced can still be
talked about.

Time: the code compares "silent for longer than a limit" and "started too long
ago"; `quiet` and `aged` are just that. They may advance in any state because
the machine may sleep between two events.

### AutoSync

`tick.at` is the `await` of `autoSyncTick` at which the check is, `page[p]` one
`app.html` tab with the three variables of its auto-run logic (`userTookOver`,
`autoRunSyncId`, `autoCloseTimer`) and whether it is on screen. What the worker
sends a page (the answer to `sync:start`, the end of a run as
`storage.onChanged` shows it) lies in its `inbox`, in order. The run in between
is `live` or over with an outcome; it may be taken over by another at any time,
which `canStartSync` allows of a run gone silent. Checks do not overlap: a check
takes milliseconds, the alarm's period is a minute at least. `mine`, `looked`
and `opened` are history variables.

Three things the code does are exceptions in the properties: a look before the
page has its listeners is not noticed, nor is one after the close timer has
fired ("a tab they've looked at never closes itself", `app.js:438-439`); and an
auto-run that another run replaced in storage never ends for its page, which
then stays where it is (`NotParked` speaks of runs that ended). A comment says
that an all-failed run is retried on the next check (`background.js:588-589`);
the throttle of line 865 makes that the next week's.

### DesktopSync

Sessions have a modification time (`mtime`); a capture reads what lies in a
window; the server keeps the slots that have evidence (`coverage`) and the
newest version of each session it got (`held`). `sync[c]` is the local state of
a sync in process `c`: the sources still to do, the current one, its spans
still to do, the captured versions, the batches still to post, the retries.
`NextSource` is the loop over the sources, which the first failure ends. `Split` is `SplitForUpload`, applied again by `TooLarge` with half
of the rejected size. `fate` is a history variable: what syncs made of a
session's current version. Windows are half open and captures are closed at
both ends, as in the code. All of a capture is one step: its properties speak of
one session at a time, and a session is read at one moment.

The recipes are modelled by what they discover and capture, not by their file
formats: trees of files by modification time (Claude Code, Antigravity),
Cowork's trees without the ignore list, and Cursor's composers by their date,
where a composer without one (`Undated`) is in no discovery and in every
capture. A capture may read any part of that: files fail to open, recipes fail.
What `--ignore` leaves out is not read and yet covered.

Plan and ingest of the server are external, modelled after
`docs/upload-schema-v1.md`. That document keys ingest on the window alone (line
59), `content.js:423` on window and content; the model keeps every body, which
is what a span split into several bodies needs.

### Agent

Each goroutine (loop, login, tray) has a program counter or waits in
`setState`. `SetState` mutates the snapshot under the mutex; the publication
after the unlock is `Send` and `Drain`, and the goroutine goes on when its
`pub` is empty. `select` is the choice among the actions of `LoopTakes`. A pass
over the sources is one step from start to end. Other `aiscan` processes store
and clear tokens (`OtherLogin`, `TokenGone`); an expired token is an absent one.
The device flow is there with its deadline: `Sleep` and `Poll` alternate, the
deadline is looked at before a sleep only, `slow_down` lengthens the next sleep,
and an approval may come at any moment up to the answer, or never. `storeToken`
truncates the file and then writes it (`StoreToken`, `WriteToken`); between the
two every reader finds no token.
`Relaunched` is Quit or a crash at any moment and the next launch. The snapshot
is cut down to the user, paused and syncing: the note of an update check with
its timer, the last error and the time of the last sync only reach the status
line.

### ExtensionScan

One tab scans one site: `scan.pc` says which request is under way, `scan.list`
what the pages have given so far, `scan.todo` the spans still to do, `scan.got`
the versions fetched for the span that is uploaded. `ListPage` reads a page
by rank at that moment, and the conversations go on meanwhile (`Chat`). The end
of the offered span is taken after the last page has arrived (`Offer`), so a
conversation that goes on between its page and that moment is covered unread:
that is what the code does, `missed` remembers exactly these, and
`CoveredIsAccounted` says that nothing else is lost. An upload belongs to the
worker; when its tab is closed it goes on in `adrift` and lands before, after or
never. The token is cached, expires and is revoked only when time passes (`Tick`).
`packed` is a history variable: the slots covered by a body that had a
conversation in it. A window in which nothing packs is to stay uncovered
(`background.js:350-357`), so `UnpackableNotAlone` asks that the time of a
conversation that does not pack is in `packed`, whatever was sent before of other
windows.
What counts as a session in the report to the page is left out.

### DaemonStart

`proc[p]` is where process `p` is in `runDaemon`: bounce (`start`, `claim`),
lock (`lock`, `held`), takeover (`find`, `takeover`, `signal`, `wait`), running
(`run`), restarting for an update (`adopt`, `released`), or running without a
lock (`bare`), which the code does when the lock cannot be used (`daemon.go`) or
the respawn fails after the lock was released. `holder` is the flock, `recorded`
the pid in the file, `job` the pid of launchd's job. `Ends` is what follows from
the end of a process: its flock is gone and launchd starts its job again unless
it ended well. Errors are part of it: launchctl may not tell that the process is
launchd's job (`BounceUntold`), and a write of the pid that fails is ignored
(`RecordFails`, `lock_unix.go:36-37`), so the daemon runs while the file is empty
or names an earlier one, and a later launch gives way to it or signals
another process. `HolderRecorded` excepts just this daemon, by a history field
`unnamed` of the process, and no daemon that comes after it. A pid is used again when neither the file nor a takeover names
it. With a tray nothing catches SIGTERM, so `Signal` ends the process at once;
headless daemons, Windows and translocated starts are left out.

### AutoUpdate

`disk` is the version of the binary, `marker` the pending update, `checked` the
throttle, `latest` what is released. `proc[p]` is one process with the image it
was started from and the release it has in hand. A command ends anywhere in its
check (`CommandEnds`), since its check is a goroutine that dies with it; a restart,
in place or as a successor, begins anew from the binary on disk. That marker or
throttle could not be written or removed is ignored by the code, and so it is here
(`UnmarkFails`, `MarkFails`, `StampFails`, `ClearFails`). `aiscan update` may install
a later release than the one it found, since `UpdateSelf` asks again (`Downloaded`).

## 3. The runs

Deadlock is checked except in the runs of ExtensionRun, where a finished run with
no event left is a proper end, in `daemon`, where all processes may have ended
with no launch left, and in `autosync`, where the clock has stopped and nothing
is due.

| run | bounds | shows |
|---|---|---|
| `walk` | 2 sites, 1 run, 1 worker death, 1 outside event; fair | order, one outcome each, no false credit; a run ends, a completed run is stamped |
| `overlap` | 1 site, 2 runs, 1 worker death | the contract for runs that overlap; no orphaned tab |
| `scan` | 3 conversations, one undated, one that does not pack; pages of 2; 3 moments; 1 failure or closed tab; fair | nothing covered is lost unless it moved while it was listed; a refused token is replaced; a scan ends and makes up for an earlier one |
| `autosync` | a window of 2, clock up to 3; 2 tabs, 2 runs, 2 things the user does, 1 fault; fair | one automatic opening per window and always one when due; no tab closes under a user, none stays behind unseen |
| `desktop` | daemon and command line; 3 composers of sizes 1, 3, 5, one undated; cap 4, server 2; no retry; 3 seconds | nothing covered is lost by accident; no empty body over skipped sessions |
| `desktop_live` | daemon alone; 3 sources, the first empty, the last broken; 2 sessions of sizes 1 and 3; cap 4, server 3; 1 retry; 3 seconds; 1 kill; fair | a sync ends; what fits arrives, whatever becomes of the other sources |
| `agent` | every menu item, one click, 1 token, a device code of 2 polls; fair | a removed token is not written back; publishing returns, a login ends and is served, a lost token is noticed, the menu catches up |
| `daemon` | 5 pids, 2 launches by the user beside launchd's, 2 versions, 1 failure, crash or quit; fair | one daemon with the lock, named by the file unless it could not write it; every start comes to rest and leaves a daemon; a launch replaces the one in its way |
| `update` | daemon and one command, 3 releases, 2 failures (requests, restarts, files) or kills; fair | no stale marker is applied, none stays, the latest release gets installed |
| `run_stuck`, `fresh_cleared`, `ignored_sent` | as `overlap`, `agent` (2 tokens) and `desktop_live` (2 sources, one of them Cowork, no fault) | see below |

Why the bounds are enough: two sites give a current, an earlier and a later
one; two runs are what one storage key can confuse; a second death starts again
from states the first one reaches. In `desktop` one session fits everywhere,
one is refused by the server alone, one is over the client's cap; the first two
share a body that the server refuses and the client splits again. In
`desktop_live` both share such a body and each would be taken by itself. Three
seconds give two adjacent windows and one covered before the other, and two
processes are enough for one to cover what the other has planned. In `scan` a
page of two and three conversations give a second page, and a conversation that
moves to a page already read; three moments give a covered, a needed and an
unfinished one. In `daemon` five pids are two launches, launchd's job, a
bounced or respawned successor of one of them and one to spare (a dead pid is
used again). In `update` three releases give a stale marker, a newer one and a
still newer binary. In `autosync` a window of two units tells test mode's
window from the weekly one, three moments leave room for a second opening and
for a clock set back, and two tabs are the auto page and another. In `agent`
menu items are chosen once, in whatever state logins and logouts of other
processes, restarts and scheduled passes have brought about; in `fresh_cleared`
two tokens are a stale and a fresh one; each queue holds one request in the
code. `MaxQueue` only delays outside events while the
chain is long.

Every property of a passing run has a mutant in `PROJECT.json`: a plausible
error in one definition (`Mut...`, next to the definition it changes) under
which the property fails.

### Fairness

* `ExtensionRun!FairSpec`: the event loop does not rest while something is
  pending, a call of the browser is under way (polls and pings have deadlines in
  the code), the alarm is armed or time can pass. Nothing is assumed of pages,
  scans or the user.
* `DesktopSync!BackfillSpec`: calls return (each request has a timeout), the
  daemon's timer and the clock go on, and discovery, plan and post do not fail
  for ever (strong fairness, for each source that is not broken): it is about a
  network that recovers.
* `AutoSync!FairSpec`: the alarm keeps firing, a page's events are handled,
  a message that was sent is answered. Nothing is assumed of the user, of runs,
  or that time passes.
* `Agent!FairSpec`: goroutines go on; Go's `select` chooses at random among
  what is ready, hence strong fairness of what the loop takes; a sender that
  has emptied the channel is not overtaken for ever; and the tray's goroutine
  waits in its receive, where the next value sent is handed to it, hence strong
  fairness of `Render`. Nothing is assumed of the user and of other processes:
  a login ends by its deadline alone.
* `ExtensionScan!FairSpec`: the scan's requests are answered or fail, scans go
  on being started (the user's or the weekly one) and time passes.
* `DaemonStart!FairSpec`: some process that can take a step does, or launchd
  does; nothing orders them. Nothing is assumed of users, crashes and updates.
* `AutoUpdate!FairSpec`: days pass, the daemon's loop and the start of every
  process go on, commands are run again and again and go on unless they end (an
  `aiscan update` waits for its check); strong fairness says that
  now and then one finds the throttle open and lives until it has written the
  marker, which takes one request. No command need live through a download.

### Where the code and its documentation differ

Three are runs with `expect: violation`.

| run | what happens |
|---|---|
| `run_stuck` | an older run clears the watchdog of the newer one, which may then hang for ever |
| `fresh_cleared` | a refusal of an old token deletes a fresh one |
| `ignored_sent` | `--ignore` does not keep a Cowork session from being sent |

The models show more of them by what their actions do, and `PROJECT.json` notes
them with their hazards:

* two `sync:start` at the same time are both accepted, and the tab of the run
  that is replaced is closed by nobody;
* a conversation that goes on while the list is read is covered unsent;
* after a 413, sessions the server would accept are skipped;
* a window of which nothing could be read is posted as empty;
* the tray may be left with an older snapshot than the last, until the next pass;
* a source that fails for ever keeps the sources after it from being synced;
* a session that one sync ignored is covered for later syncs without the flag;
* a tab that was looked at too early or too late closes all the same;
* an update restarts the process in the middle of a login;
* a launch gives way to a daemon that is only just starting, even one of an
  older version;
* a daemon whose throttle others use up does not restart for a binary that
  others have swapped, and two overlapping swaps may end with the older version.

## 4. The proofs

Every theorem is for every value of the constants that the module's named
assumption admits.

`ExtensionRunProofs` holds for every number of sites, runs,
deaths and events; the only assumption is `BoundsAssumption` (the constants are
natural numbers, with at least one site and one run).

`SitesWalkedInOrder` is not inductive: an update writes what it computed from a
state read earlier, a job could name no run, a request could reuse an id. The
inductive invariant `IInv` adds

* `Addressed`: what is on the chain or pending names the run it is for, and a
  site where it needs one;
* `ReadHolds`: the state that the head of the chain has read is the one last
  written for that run, and passes its guard. It survives a racing `startSync`
  because that write creates a new run and leaves the older run's state alone;
* `IdsFresh`: a request that has not written yet owns an id nobody else uses.

The steps: `PostKeepsShape` (each update keeps the shape of the run it changes;
the heart of it is `FirstPendingIsNext`: in a walk the first pending site is the
one after the current), `...Addressed` (what each step leaves behind), one
`...Keeps` lemma per action, `NextKeeps`, and `Invariance`. `TypeCorrect` and
`WalkCorrect` follow. `ContractKept` shows with the same invariant that every
step is, for every run, a step of `RunContract` or a stutter, under the mapping
`OutcomeOf` that makes `waiting` and `scanning` one outcome "in flight".

`OutcomeProofs` proves, on top of `IInv`, the three other invariants of
ExtensionRun. `CompletedStamped`: from the write that completes a run to its
stamp there is always a job that stamps it. `TabsHaveOwners` needs one case more
than `OpenTabsOwned`: a run that another one replaced in storage while the head
of the chain holds a read of it is about to be stored again (`InHand`), so its
tab must have an owner too. `DoneIsReported` follows each site of a run through
its stages (`Stage`: pending, a job or an update that carries it to its tab,
scanning, reported): `OneStage` says that it is in at most one of them at a time,
which rests on `OneJob` (a job that carries a site is determined by it) and
`OneBind` (no two updates on the chain bind the same tab). So a tab scans once,
a report is never taken back, and `Credited` can say that what will settle a
site as done comes from a tab that has reported success; that this tab is the
one of the settled site is the guard on `expectedTabId`.

`DaemonStartProofs` holds for every number of pids, launches, versions and
failures (`DaemonAssumption`). `TypeOK` is inductive by itself; `OneDaemon` and
`HolderRecorded` are not, since the step from `held` to `run` looks at nothing.
`LockInv` says that whoever is past acquiring the lock holds it, that the file
names whoever runs with it unless that daemon failed to write its pid, and that whoever runs without it has a failure
behind it. `KeepsLock` and `QuietLock` are the two ways a step keeps that: one
process lets go and no other moves into a place that needs the lock, or the lock
does not change hands at all; `AcquiresLock` and `Record` are the steps in between.

`NearsRest` is the part of `ComesToRest` that needs no fairness: every step, whoever
takes it, lowers one distance, and the order of distances is well-founded
(`BelowEnds`), so once nobody launches, updates or breaks anything any more the
processes can only come to rest. The distance has seven parts, the earlier ones
weighing more: what the environment can still do (this is where the bounds on
launches, versions and failures come in, for any value of them); the daemons that
will respawn for an update; the live processes together with the one launchd is about
to start; the processes of an older version than the binary, with whether the stamp
is of another version; the processes that will bounce; how far the processes have to
go; and last how far launchd's job has to go. Each rules out one way to loop: a
kickstart or a surrender loses a process; a bounce by an old process loses an old
one, and a bounce that sets the stamp right cannot be repeated; of two processes that
both decided to bounce before either wrote the stamp, the second begets one that does
not; and who kills launchd's job, which will be started again, itself gets ahead.
It needs that the job is alive (`JobLives`) and that nobody signals itself
(`SignalsOther`).

`AutoUpdateProofs` holds for every number of commands, releases and failures
(`UpdateAssumption`). Its invariant `Sound` adds to the types that a process has
in hand only what was released, and something newer than its own image wherever
it may go on to install it: `NoStaleReapply` follows from that without looking
at the other processes or the marker.

`AutoSyncProofs` holds for every number of tabs, runs, events and faults and
every length of the window (`AutoSyncAssumption`). `ClosesOnlyUnseen` needs what
is on its way to a page: that an answer in its inbox names the run it started,
that an end in its inbox names a run that is over, and that the page is armed
only for that run and only while nobody has looked. `NotNagged` needs that a
check that goes on to create a tab has seen an old stamp, that the stamp of an
opening is not older than the opening, and that the clock has not been set back
since.

`DesktopSyncProofs` holds for any number of clients, sources, sessions, sizes,
retries and kills (`SyncAssumption`). `CoveredIsAccounted` is not inductive: a
session written now could lie in a window that is already planned. `InThePast`
rules that out: all windows a sync has in use, and all that is covered, end by
now, so a session that is written now is in none of them, and what was captured
is no newer than what is there. `PostedIsHandled` says that from the capture on
every session of the window that is posted is in a body still to post, with the
server, or given up: so covering the window keeps `CoveredIsHandled`.
`SyncStepKeeps`, `LocalStepKeeps` and `PostStepKeeps` reduce each action to
what it does to one client's record; how `Split` cuts does not matter, only
that what it leaves out is given up.

For the types and `EmptyBodyReadNothing` it does matter. The prover cannot
instantiate an induction scheme, so what the recursive `Split` computes is shown
by a least counterexample (`LeastOf`, from the well-foundedness of the natural
numbers): `SplitExists`, that the recursion defines a function at all, since a
batch of two or more is halved into two that are smaller (`HalvesSmaller`), and
`SplitPieces`, that the pieces of a batch that is not empty are disjoint parts
of it, none of them empty, all within the cap, and that what is left out does
not fit even by itself. The invariant `JInv` then says of every sync that posts
that its bodies are disjoint (so that one of them is first, `FirstBody`) and
that an empty one among them is the only one and means that nothing was read; a
413 keeps that, because the server only refuses a body that weighs something
(`EmptyWeight`).

`SyncDescends` is the part of `SyncEnds` that needs no fairness. A sync has, in this
order, sources to visit, spans of the source to do, bodies to post and attempts at
the body, and each of its steps lowers the first of these that it changes
(`Nearer`). A body refused with a 413 is replaced by smaller ones, so the bodies
are measured not by their number, which grows, but by the sets that are contained in
one of them (`Parts`): a body that is cut into disjoint parts is itself no longer
contained in any. `NearerEnds` shows the order to be well-founded on the states of a
sync. That the weight of every batch is a number, which the comparison with a cap
needs, is again shown by a least counterexample (`WeightNumber`).

`ExtensionScanProofs` holds for every number of conversations, length of page
and number of failures (`ScanAssumption`), and follows the same idea on the other
client: `Listed` says that from the offer on what lies before the end of the
offered span is in the list or was missed, `Carries` that an upload has every
conversation of its span as it is, also when its tab is gone. A conversation
that goes on leaves every span in use, since all of them end by now (`ChatCarries`).
`UnpackableNotAlone` needs in addition that what is listed exists and that an
upload adrift has passed the guard for empty packs: then each body that is
received carries a conversation that packs, and all its slots become `packed`.
Of the types, only the offset of the list needs an argument: `PageFits` counts
that whoever ranks before the first conversation of a page is not in the page,
so the offset never passes the number of conversations, although the list may
have been reordered since the page before. `ScanDescends` gives a scan a number of
steps left: the conversations not listed yet, then twice the spans not fetched yet.
Every step of the scan lowers it or gets the token it lacks, and nothing else raises
it; a page that is not the last is full, so listing moves on whatever happens to the
list. This is the part of `ScanEnds` that needs no fairness.

`AgentProofs` holds for any number of tokens and clicks, whatever the menu offers,
and any interval and life of a device code (`AgentAssumption`). Its invariant
`IInv` adds to the types what a login carries at each place (`LoginShape`), that
nothing in the process holds a token the server did not issue (`OnlyIssued`), that
a token still to be stored has never been in the cache (`StillNew`), and that the
snapshot says "syncing" while a pass runs and at no other time
(`SyncingIsAPass`): the menu's "Sync now" is disabled by that flag, so a way out of
a pass that left it set would disable the item for good. `LogoutSticks` says, of
every token, that once it was in the cache and was removed it is never there
again; the prover gets there by `Spent`: a token that has been in the cache is
among those issued, so no approval gives it again, and is not on its way to the
cache in a login, and nothing else writes one (`SpentStays`). `LoginDescends`
gives the login a rank, two for each unit of time its device code has left and
one for each place it has still to pass: each step of the login lowers it,
nothing else raises it (`LoginStepsDescend`, `OthersDoNotRaise`), whatever
`slow_down` does to the interval. This is the part of `LoginEnds` that needs no
fairness.

Only model-checked, because the prover has neither fairness nor ENABLED:
`ArmedRunEnds`, `ScanEnds`, `Reauthorizes`, `SyncEnds`, `Backfilled`,
`PublishReturns`, `LoginEnds`, `LoginSyncs`, `LogoutNoticed`, `ShownCatchesUp`,
`NotParked`, `DueIsOpened`, `ComesToRest`, `LaunchLeavesDaemon`,
`IncumbentGoes`, `MarkerGoes`, `EventuallyLatest`.

What some properties leave open: `CoveredIsAccounted` of DesktopSync accepts what a
capture did not read, or ignored, as given up, so it is not about where a capture
stops reading or a recipe fails; `CompletedRunStamped` excepts the death of the
worker between the end of a run and its stamp; `NoStaleReapply` is about the image
a process was started from, so an older process may still undo what a newer one
installed.

## 5. Not modelled

Provider adapters and the recipes' file formats, redaction rules, tar and gzip,
rendering and wording, command-line parsing, build and release: pure functions,
I/O or layout. The server is external. The lifetime of a token is an event, not
a clock. Headless daemons (`lock_unix.go:76`) and Windows are not in
DaemonStart. The polling arithmetic of the extension's device flow
(`background.js` 156-187) is that of the desktop client, which Agent has; in
ExtensionRun it answers sooner or later, never, or with an error.

## 6. What could follow

1. `Coverage`, an abstract specification of what both clients promise the
   server (a window is covered only over what was sent or given up), and
   DesktopSync and ExtensionScan shown to implement it.
2. Headless daemons in DaemonStart: an incumbent that finishes its pass before
   it exits, against the five seconds of a takeover.
