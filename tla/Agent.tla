-------------------------------- MODULE Agent --------------------------------
(***************************************************************************)
(* The resident desktop daemon (desktop/internal/cli/agent.go): the run    *)
(* loop that syncs and updates, the login goroutine, the tray's event      *)
(* goroutine, and what they share: the state snapshot and the channel that *)
(* carries it to the tray, the queues of manual requests, and the token    *)
(* cache, a file that other `aiscan' processes also read and write.        *)
(*                                                                         *)
(* A pass over the sources is one step here, from its start to its end;    *)
(* DesktopSync has its inside.  Of the snapshot the last error, the time   *)
(* of the last sync and the note of an update check, with the timer that   *)
(* clears it, are left out.  A new process replaces the old one after      *)
(* Quit, a crash or an update: its variables start again, the token cache  *)
(* and the first-run marker stay.                                          *)
(***************************************************************************)
EXTENDS Naturals

CONSTANTS
    Clicks,    \* the menu items the user may choose
    MaxClicks, \* bound: how often the user chooses one
    MaxTokens, \* bound: access tokens the server ever issues
    Interval, Expiry  \* interval and expires_in of a device code, in units

ASSUME AgentAssumption ==
    /\ Clicks \subseteq {"sync", "force", "update", "pause", "login", "logout"}
    /\ MaxClicks \in Nat /\ MaxTokens \in Nat
    /\ Interval \in Nat \ {0} /\ Expiry \in Nat \ {0}

VARIABLES
    st,       \* the snapshot the mutex guards
    pub,      \* pub[g]: what goroutine g has still to publish
    chan,     \* the channel of capacity 1
    shown,    \* what the tray renders
    requests, \* syncReq, forceReq and updateReq, of capacity 1 each
    loop, login, restartPending,
    cache,    \* the token in the cache file
    issued, accepted, \* tokens the server has issued, and still accepts
    prompted, \* whether the first-run marker is there
    clicks    \* counted against the bound

process == <<st, pub, chan, shown, requests, loop, login, restartPending>>
lasting == <<cache, issued, accepted, prompted, clicks>>
vars == <<process, lasting>>

-----------------------------------------------------------------------------
Goroutines == {"loop", "login", "tray"}
NoToken == 0
Tokens == 1 .. MaxTokens
Nothing == [user |-> "nothing"]   \* no snapshot

State == [user : {"", "someone"}, paused : BOOLEAN, syncing : BOOLEAN]

StartState == [user |-> "", paused |-> FALSE, syncing |-> FALSE]

(* A login: the token it got, and of the device code how long it lasts,    *)
(* how long to sleep between polls, and what the user made of it.          *)
Off == [pc |-> "off", token |-> NoToken, left |-> 0, every |-> Interval,
        answer |-> "pending"]

(* A goroutine goes on when its last setState has returned.                *)
Ready(g) == pub[g] = Nothing

(* setState: mutates under the mutex, then publishes outside it.           *)
MutSetState(g, new) ==
    st' = new /\ pub' = [pub EXCEPT ![g] = IF new = st THEN @ ELSE new]
SetState(g, new) == st' = new /\ pub' = [pub EXCEPT ![g] = new]

Send(g) ==
    /\ pub[g] # Nothing /\ chan = Nothing
    /\ chan' = pub[g]
    /\ pub' = [pub EXCEPT ![g] = Nothing]
    /\ UNCHANGED <<st, shown, requests, loop, login, restartPending, lasting>>

MutDrain(g) == FALSE
Drain(g) ==
    /\ pub[g] # Nothing /\ chan # Nothing
    /\ chan' = Nothing
    /\ UNCHANGED <<st, pub, shown, requests, loop, login, restartPending,
                   lasting>>

(* A fresh process.                                                        *)
StartLoop == [pc |-> "start", token |-> NoToken]

Boot ==
    /\ st' = StartState /\ shown' = StartState /\ chan' = Nothing
    /\ pub' = [g \in Goroutines |-> Nothing]
    /\ requests' = {} /\ restartPending' = FALSE
    /\ loop' = StartLoop /\ login' = Off

(* LogIn: one login at a time.                                             *)
LogIn ==
    login' = IF login.pc = "off" THEN [Off EXCEPT !.pc = "ensure"] ELSE login

-----------------------------------------------------------------------------
(* The run loop.                                                           *)

(* refreshIdentity, CachedToken and then Whoami, which may not answer; a   *)
(* refused token is cleared, with whatever the cache holds by then.        *)
CachedAtStart ==
    /\ loop.pc = "start"
    /\ IF cache = NoToken
       THEN /\ SetState("loop", [st EXCEPT !.user = ""])
            /\ loop' = [loop EXCEPT !.pc = "first run"]
       ELSE /\ loop' = [pc |-> "whoami", token |-> cache]
            /\ UNCHANGED <<st, pub>>
    /\ UNCHANGED <<chan, shown, requests, login, restartPending, lasting>>

MutWhoamiAtStart ==
    /\ loop.pc = "whoami"
    /\ loop' = [loop EXCEPT !.pc = "first run"]
    /\ cache' = IF loop.token \in accepted THEN loop.token ELSE NoToken
    /\ UNCHANGED <<st, pub, chan, shown, requests, login, restartPending,
                   issued, accepted, prompted, clicks>>
WhoamiAtStart ==
    /\ loop.pc = "whoami"
    /\ loop' = [loop EXCEPT !.pc = "first run"]
    /\ \/ /\ loop.token \notin accepted
          /\ cache' = NoToken /\ SetState("loop", [st EXCEPT !.user = ""])
       \/ /\ loop.token \in accepted
          /\ SetState("loop", [st EXCEPT !.user = "someone"])
          /\ UNCHANGED cache
       \/ UNCHANGED <<st, pub, cache>>
    /\ UNCHANGED <<chan, shown, requests, login, restartPending, issued,
                   accepted, prompted, clicks>>

(* claimFirstRunLogin; without a marker that could be written, no login.   *)
FirstRun ==
    /\ loop.pc = "first run" /\ Ready("loop")
    /\ loop' = [loop EXCEPT !.pc = "idle"]
    /\ \/ /\ ~prompted /\ prompted' = TRUE
          /\ IF cache = NoToken THEN LogIn ELSE UNCHANGED login
       \/ UNCHANGED <<login, prompted>>
    /\ UNCHANGED <<st, pub, chan, shown, requests, restartPending, cache,
                   issued, accepted, clicks>>

Idle == loop.pc = "idle" /\ Ready("loop") /\ ~restartPending

(* syncOnce up to the first request: without a token the pass is skipped.  *)
MutStartPass ==
    /\ IF cache = NoToken
       THEN SetState("loop", st) /\ UNCHANGED loop
       ELSE /\ SetState("loop", [st EXCEPT !.syncing = TRUE])
            /\ loop' = [pc |-> "sync", token |-> cache]
    /\ UNCHANGED <<chan, shown, login, restartPending, lasting>>
StartPass ==
    /\ IF cache = NoToken
       THEN SetState("loop", [st EXCEPT !.user = ""]) /\ UNCHANGED loop
       ELSE /\ SetState("loop", [st EXCEPT !.syncing = TRUE])
            /\ loop' = [pc |-> "sync", token |-> cache]
    /\ UNCHANGED <<chan, shown, login, restartPending, lasting>>

ScheduledSync == Idle /\ ~st.paused /\ StartPass /\ UNCHANGED requests

MutManualSync(kind) ==
    /\ Idle /\ kind \in requests
    /\ requests' = requests \ {kind}
    /\ \/ ~st.paused /\ StartPass
       \/ /\ st.paused
          /\ UNCHANGED <<st, pub, loop, chan, shown, login, restartPending,
                         lasting>>
ManualSync(kind) ==
    /\ Idle /\ kind \in requests
    /\ requests' = requests \ {kind}
    /\ StartPass

PassEnds ==
    /\ loop.pc = "sync" /\ Ready("loop")
    /\ loop' = [loop EXCEPT !.pc = "idle"]
    /\ SetState("loop", [st EXCEPT !.syncing = FALSE])
    /\ UNCHANGED <<chan, shown, requests, login, restartPending, lasting>>

(* The server refuses the token the pass started with: reauthorize clears  *)
(* the cache, and the pass ends.                                           *)
PassRefused ==
    /\ loop.pc = "sync" /\ Ready("loop") /\ loop.token \notin accepted
    /\ cache' = NoToken
    /\ loop' = [loop EXCEPT !.pc = "refused"]
    /\ SetState("loop", [st EXCEPT !.syncing = FALSE])
    /\ UNCHANGED <<chan, shown, requests, login, restartPending, issued,
                   accepted, prompted, clicks>>

LoggedOut ==
    /\ loop.pc = "refused" /\ Ready("loop")
    /\ loop' = [loop EXCEPT !.pc = "idle"]
    /\ SetState("loop", [st EXCEPT !.user = ""])
    /\ UNCHANGED <<chan, shown, requests, login, restartPending, lasting>>

(* checkUpdate and checkUpdateNow; a swapped binary is adopted later.      *)
ScheduledUpdate ==
    /\ Idle /\ restartPending' = TRUE
    /\ UNCHANGED <<st, pub, chan, shown, requests, loop, login, lasting>>

CheckNow ==
    /\ Idle /\ "update" \in requests
    /\ requests' = requests \ {"update"}
    /\ SetState("loop", st)
    /\ loop' = [loop EXCEPT !.pc = "checking"]
    /\ UNCHANGED <<chan, shown, login, restartPending, lasting>>

CheckEnds ==
    /\ loop.pc = "checking" /\ Ready("loop")
    /\ loop' = [loop EXCEPT !.pc = "idle"]
    /\ SetState("loop", st)
    /\ restartPending' \in {restartPending, TRUE}
    /\ UNCHANGED <<chan, shown, requests, login, lasting>>

(* restart, at the loop's next idle point; it returns only when it fails.  *)
RestartFails ==
    /\ loop.pc = "idle" /\ Ready("loop") /\ restartPending
    /\ restartPending' = FALSE
    /\ UNCHANGED <<st, pub, chan, shown, requests, loop, login, lasting>>

Restart ==
    /\ loop.pc = "idle" /\ Ready("loop") /\ restartPending
    /\ Boot
    /\ UNCHANGED lasting

-----------------------------------------------------------------------------
(* The login goroutine: EnsureToken, Whoami, setState, SyncNow.            *)
LoginGoes(new) ==
    /\ login' = new
    /\ UNCHANGED <<st, pub, chan, shown, requests, loop, restartPending,
                   lasting>>

GivesUp ==
    /\ SetState("login", st)
    /\ login' = [Off EXCEPT !.pc = "ends"]
    /\ UNCHANGED <<chan, shown, requests, loop, restartPending, lasting>>

CachedAtLogin ==
    /\ login.pc = "ensure"
    /\ IF cache # NoToken
       THEN LoginGoes([login EXCEPT !.pc = "whoami", !.token = cache])
       ELSE \/ LoginGoes([login EXCEPT !.pc = "approve", !.left = Expiry])
            \/ GivesUp   \* startDeviceAuthorization fails

(* pollForToken: the deadline is looked at between polls only; then it     *)
(* sleeps and asks.  What may go wrong with a poll ends the login.         *)
MutSlept(l) == l
Slept(l) == [l EXCEPT !.left = IF @ > l.every THEN @ - l.every ELSE 0]

Sleep ==
    /\ login.pc = "approve"
    /\ IF login.left > 0
       THEN LoginGoes([Slept(login) EXCEPT !.pc = "poll"])
       ELSE GivesUp

Poll ==
    /\ login.pc = "poll"
    /\ \/ /\ login.answer = "given"
          /\ LoginGoes([Off EXCEPT !.pc = "store", !.token = login.token])
       \/ /\ login.answer = "pending"    \* or slow_down
          /\ \E d \in {0, 1} :
                LoginGoes([login EXCEPT !.pc = "approve", !.every = @ + d])
       \/ GivesUp

(* storeToken, on a best effort, truncates the file before it writes it.   *)
StoreToken ==
    /\ login.pc = "store"
    /\ login' = [login EXCEPT !.pc = "write"]
    /\ cache' = NoToken
    /\ UNCHANGED <<st, pub, chan, shown, requests, loop, restartPending,
                   issued, accepted, prompted, clicks>>

WriteToken ==
    /\ login.pc \in {"store", "write"}
    /\ login' = [login EXCEPT !.pc = "whoami"]
    /\ cache' = IF login.pc = "write" THEN login.token ELSE cache
    /\ UNCHANGED <<st, pub, chan, shown, requests, loop, restartPending,
                   issued, accepted, prompted, clicks>>

(* Whatever Whoami answers.                                                *)
LoggedIn ==
    /\ login.pc = "whoami"
    /\ SetState("login", [st EXCEPT !.user = "someone"])
    /\ login' = [login EXCEPT !.pc = "sync now"]
    /\ UNCHANGED <<chan, shown, requests, loop, restartPending, lasting>>

LoginReturns ==
    /\ login.pc \in {"sync now", "ends"} /\ Ready("login")
    /\ requests' = requests \cup (IF login.pc = "ends" THEN {} ELSE {"sync"})
    /\ login' = Off
    /\ UNCHANGED <<st, pub, chan, shown, loop, restartPending, lasting>>

-----------------------------------------------------------------------------
(* The tray's event goroutine: renders, and calls what the user chooses    *)
(* among the items it has rendered.                                        *)
Render ==
    /\ Ready("tray") /\ chan # Nothing
    /\ shown' = chan /\ chan' = Nothing
    /\ UNCHANGED <<st, pub, requests, loop, login, restartPending, lasting>>

Clicked(item) == /\ item \in Clicks /\ Ready("tray")
                 /\ clicks < MaxClicks /\ clicks' = clicks + 1

Click(kind) ==     \* SyncNow, SyncAll, CheckForUpdates
    /\ Clicked(kind)
    /\ kind = "update" \/ (shown.user # "" /\ ~shown.syncing)
    /\ requests' = requests \cup {kind}
    /\ UNCHANGED <<st, pub, chan, shown, loop, login, restartPending, cache,
                   issued, accepted, prompted>>

ClickPause ==
    /\ Clicked("pause")
    /\ SetState("tray", [st EXCEPT !.paused = ~shown.paused])
    /\ UNCHANGED <<chan, shown, requests, loop, login, restartPending,
                   cache,
                   issued, accepted, prompted>>

MutClickLogIn ==
    /\ Clicked("login") /\ shown.user = ""
    /\ requests' = requests \cup {"login"}
    /\ UNCHANGED <<st, pub, chan, shown, login, loop, restartPending, cache,
                   issued, accepted, prompted>>
ClickLogIn ==
    /\ Clicked("login") /\ shown.user = ""
    /\ LogIn
    /\ UNCHANGED <<st, pub, chan, shown, requests, loop, restartPending,
                   cache,
                   issued, accepted, prompted>>

ClickLogOut ==
    /\ Clicked("logout") /\ shown.user # ""
    /\ cache' = NoToken
    /\ SetState("tray", [st EXCEPT !.user = ""])
    /\ UNCHANGED <<chan, shown, requests, loop, login, restartPending, issued,
                   accepted, prompted>>

-----------------------------------------------------------------------------
(* The user answers on the approval page.  An approval is the server's     *)
(* promise of a token; one given to a process that is gone is lost.        *)
Issue == issued < MaxTokens /\ issued' = issued + 1
                            /\ accepted' = accepted \cup {issued + 1}

Approve ==
    /\ login.pc \in {"approve", "poll"} /\ login.answer = "pending"
    /\ Issue
    /\ login' = [login EXCEPT !.answer = "given", !.token = issued + 1]
    /\ UNCHANGED <<st, pub, chan, shown, requests, loop, restartPending,
                   cache, prompted, clicks>>

(* Around the process: another `aiscan' logs in; a token expires or        *)
(* another `aiscan' clears it; the server revokes one; Quit or a crash,    *)
(* and the next launch.                                                    *)
OtherLogin ==
    /\ Issue /\ cache' = issued + 1
    /\ UNCHANGED <<process, prompted, clicks>>

TokenGone ==
    /\ cache # NoToken /\ cache' = NoToken
    /\ UNCHANGED <<process, issued, accepted, prompted, clicks>>

Revoked(t) ==
    /\ t \in accepted /\ accepted' = accepted \ {t}
    /\ UNCHANGED <<process, cache, issued, prompted, clicks>>

Relaunched == Boot /\ UNCHANGED lasting

Init ==
    /\ st = StartState /\ shown = StartState /\ chan = Nothing
    /\ pub = [g \in Goroutines |-> Nothing]
    /\ requests = {} /\ restartPending = FALSE
    /\ loop = StartLoop /\ login = Off
    /\ cache \in {NoToken} \cup Tokens /\ issued = cache
    /\ accepted = 1 .. issued /\ prompted \in BOOLEAN /\ clicks = 0

LoopStep ==
    \/ CachedAtStart \/ WhoamiAtStart \/ FirstRun
    \/ PassEnds \/ PassRefused \/ LoggedOut \/ CheckEnds
    \/ RestartFails \/ Restart

LoopTakes ==
    \/ ScheduledSync \/ ManualSync("sync") \/ ManualSync("force")
    \/ ScheduledUpdate \/ CheckNow

LoginStep ==
    \/ CachedAtLogin \/ Sleep \/ Poll \/ StoreToken \/ WriteToken
    \/ LoggedIn \/ LoginReturns

TrayStep ==
    \/ Render \/ ClickPause \/ ClickLogIn \/ ClickLogOut
    \/ \E kind \in {"sync", "force", "update"} : Click(kind)

Outside ==
    \/ Approve \/ OtherLogin \/ TokenGone \/ Relaunched
    \/ \E t \in Tokens : Revoked(t)

Publish == \E g \in Goroutines : Send(g) \/ Drain(g)

Next == LoopStep \/ LoopTakes \/ LoginStep \/ TrayStep \/ Outside \/ Publish

Spec == Init /\ [][Next]_vars

(* Goroutines go on; select is random among what is ready, so that what is *)
(* ready again and again is taken; a sender that has emptied the channel   *)
(* is not overtaken for ever, and the tray waits in its receive.  Nothing  *)
(* is assumed of the user.                                                 *)
FairSpec ==
    /\ Spec
    /\ WF_vars(LoopStep) /\ WF_vars(LoginStep) /\ SF_vars(Render)
    /\ SF_vars(ScheduledSync) /\ SF_vars(ManualSync("sync"))
    /\ WF_vars(Publish) /\ \A g \in Goroutines : SF_vars(Send(g))

-----------------------------------------------------------------------------
(* Every variable has its type.                                            *)
TypeOK ==
    /\ st \in State /\ shown \in State /\ chan \in State \cup {Nothing}
    /\ pub \in [Goroutines -> State \cup {Nothing}]
    /\ requests \subseteq {"sync", "force", "update"}
    /\ loop \in [pc : {"start", "whoami", "first run", "idle", "sync",
                       "refused", "checking"},
                 token : Tokens \cup {NoToken}]
    /\ login \in [pc : {"off", "ensure", "approve", "poll", "store", "write",
                        "whoami", "sync now", "ends"},
                  token : Tokens \cup {NoToken}, left : 0 .. Expiry,
                  every : Nat \ {0}, answer : {"pending", "given"}]
    /\ restartPending \in BOOLEAN
    /\ cache \in Tokens \cup {NoToken} /\ issued \in Tokens \cup {NoToken}
    /\ accepted \subseteq Tokens /\ prompted \in BOOLEAN
    /\ clicks \in 0 .. MaxClicks

(* A logout sticks: a token that the menu, a refusal or another process    *)
(* has removed from the cache file is not written back, by whatever login  *)
(* or pass still holds it; only a login writes, and only what is new.      *)
LogoutSticks ==
    \A t \in Tokens : [](cache = t => [](cache # t => [](cache # t)))

(* setState returns whether or not anyone reads the channel, also on the   *)
(* tray's goroutine, the only one that does.                               *)
PublishReturns == \A g \in Goroutines : ~Ready(g) ~> Ready(g)

(* The login goroutine ends, and lets another login start, whatever the    *)
(* user and the server do: its polling has a deadline that slow_down does  *)
(* not move.                                                               *)
LoginEnds == login.pc # "off" ~> login.pc = "off"

(* A login is followed by a pass with its token, paused or not and         *)
(* whatever the loop is doing, unless the token is gone or the process is. *)
LoginSyncs ==
    \A t \in Tokens :
        (login.pc = "sync now" /\ login.token = t /\ cache = t) ~>
            \/ loop.pc = "sync" /\ loop.token = t
            \/ cache # t \/ loop.pc = "start"

(* The daemon does not go on showing a user when there is no token: a pass *)
(* finds out, unless scheduled passes are paused.                          *)
LogoutNoticed ==
    (st.user # "" /\ cache = NoToken) ~>
        (st.user = "" \/ cache # NoToken \/ st.paused)

(* What the tray shows of the user catches up with the snapshot, even when *)
(* two goroutines published in the opposite order of their changes: every  *)
(* scheduled pass publishes again, unless passes are paused.               *)
ShownCatchesUp ==
    shown.user # st.user ~> (shown.user = st.user \/ st.paused)

=============================================================================
