----------------------------- MODULE AgentProofs -----------------------------
(***************************************************************************)
(* Proofs about Agent.tla, for every number of tokens and clicks, whatever *)
(* the menu offers and however long a device code lasts: the types, that a *)
(* removed token does not come back, what the menu's "syncing" means, and  *)
(* that a login comes nearer to its end with every step it takes.          *)
(***************************************************************************)
EXTENDS Agent, TLAPS

(* A token the login is about to store: the user has approved it and it is *)
(* not in the cache file yet.                                              *)
ToStore(t) ==
    login.pc \in {"approve", "poll", "store", "write"} /\ login.token = t

(* A login has a token once the cache or the server gave it one.           *)
LoginShape ==
    /\ login.pc \in {"off", "ensure", "ends"} =>
           login.token = NoToken /\ login.answer = "pending"
    /\ login.pc \in {"approve", "poll"} =>
           (login.token = NoToken <=> login.answer = "pending")
    /\ login.pc \in {"store", "write"} => login.token # NoToken

(* Nobody has a token that the server did not issue, and one still to be   *)
(* stored has never been in the cache.                                     *)
OnlyIssued ==
    cache <= issued /\ login.token <= issued /\ loop.token <= issued

StillNew == \A t \in Tokens : ToStore(t) => cache # t

(* The snapshot says "syncing" while a pass runs and at no other time: no  *)
(* way out of a pass leaves the menu's "Sync now" disabled.                *)
SyncingIsAPass == st.syncing <=> loop.pc = "sync"

IInv == TypeOK /\ LoginShape /\ OnlyIssued /\ StillNew /\ SyncingIsAPass

LEMMA Constants ==
    /\ MaxTokens \in Nat /\ Expiry \in Nat \ {0} /\ Interval \in Nat \ {0}
    /\ MaxClicks \in Nat /\ NoToken = 0 /\ NoToken \notin Tokens
    /\ Tokens = 1 .. MaxTokens
  BY AgentAssumption DEF NoToken, Tokens

-----------------------------------------------------------------------------
(* The types, part by part: what the goroutines publish and show, the run  *)
(* loop, the login, and what outlives the process.                         *)
ViewTyped ==
    /\ st \in State /\ shown \in State /\ chan \in State \cup {Nothing}
    /\ pub \in [Goroutines -> State \cup {Nothing}]

LoopState == [pc : {"start", "whoami", "first run", "idle", "sync", "refused",
                    "checking"},
              token : Tokens \cup {NoToken}]

LoginState == [pc : {"off", "ensure", "approve", "poll", "store", "write",
                     "whoami", "sync now", "ends"},
               token : Tokens \cup {NoToken}, left : 0 .. Expiry,
               every : Nat \ {0}, answer : {"pending", "given"}]

LoopTyped ==
    /\ requests \subseteq {"sync", "force", "update"} /\ loop \in LoopState
    /\ restartPending \in BOOLEAN

LastingTyped ==
    /\ cache \in Tokens \cup {NoToken} /\ issued \in Tokens \cup {NoToken}
    /\ accepted \subseteq Tokens /\ prompted \in BOOLEAN
    /\ clicks \in 0 .. MaxClicks

LEMMA TypeSplits ==
    TypeOK <=> /\ ViewTyped /\ LoopTyped /\ LastingTyped
               /\ login \in LoginState
  BY DEF TypeOK, ViewTyped, LoopTyped, LastingTyped, LoopState, LoginState

LEMMA TypesJoin ==
    ASSUME ViewTyped', LoopTyped', LastingTyped', login' \in LoginState
    PROVE  TypeOK'
  BY DEF TypeOK, ViewTyped, LoopTyped, LastingTyped, LoopState, LoginState

(* What relates the login to the cache and to what the server issued.      *)
LoginSound == login \in LoginState /\ LoginShape /\ OnlyIssued /\ StillNew

LEMMA OffIsSound ==
    /\ Off \in LoginState /\ Off.pc = "off" /\ Off.token = NoToken
    /\ Off.answer = "pending" /\ Off.left = 0
  BY Constants DEF Off, LoginState

LEMMA StartTyped == StartState \in State /\ ~StartState.syncing
  BY DEF StartState, State

LEMMA SetStateTyped ==
    ASSUME ViewTyped, NEW g \in Goroutines, NEW new \in State,
           SetState(g, new), UNCHANGED <<chan, shown>>
    PROVE  ViewTyped' /\ st' = new
  BY DEF ViewTyped, SetState

(* A process starts, whenever that is.                                     *)
LEMMA FreshProcess ==
    ASSUME st' = StartState, shown' = StartState, chan' = Nothing,
           pub' = [g \in Goroutines |-> Nothing], requests' = {},
           restartPending' = FALSE, loop' = StartLoop, login' = Off,
           LastingTyped', cache' <= issued'
    PROVE  IInv'
  <1>1. ViewTyped'
    BY StartTyped DEF ViewTyped
  <1>2. LoopTyped'
    BY DEF LoopTyped, LoopState, StartLoop
  <1>3. login' \in LoginState
    BY OffIsSound
  <1>4. TypeOK'
    BY <1>1, <1>2, <1>3, TypesJoin
  <1>5. LoginShape' /\ StillNew'
    BY OffIsSound DEF LoginShape, StillNew, ToStore
  <1>6. OnlyIssued'
    BY Constants, OffIsSound DEF OnlyIssued, StartLoop, LastingTyped
  <1>7. SyncingIsAPass'
    BY StartTyped DEF SyncingIsAPass, StartLoop
  <1> QED BY <1>4, <1>5, <1>6, <1>7 DEF IInv

LEMMA BootKeeps == ASSUME IInv, Boot, UNCHANGED lasting PROVE IInv'
  <1>1. LastingTyped' /\ cache' <= issued'
    BY TypeSplits DEF IInv, LastingTyped, OnlyIssued, lasting
  <1> QED BY <1>1, FreshProcess DEF Boot

LEMMA InitIInv == Init => IInv
  <1> SUFFICES ASSUME Init PROVE IInv
    OBVIOUS
  <1>1. ViewTyped
    BY StartTyped DEF ViewTyped, Init
  <1>2. LoopTyped
    BY DEF LoopTyped, LoopState, StartLoop, Init
  <1>3. LastingTyped /\ cache <= issued
    BY Constants DEF LastingTyped, Init
  <1>4. login = Off /\ loop.token = NoToken /\ loop.pc = "start" /\ ~st.syncing
    BY StartTyped DEF Init, StartLoop
  <1>5. TypeOK
    BY <1>1, <1>2, <1>3, <1>4, OffIsSound, TypeSplits
  <1>6. LoginShape /\ StillNew
    BY <1>4, OffIsSound DEF LoginShape, StillNew, ToStore
  <1>7. OnlyIssued
    BY <1>3, <1>4, Constants, OffIsSound DEF OnlyIssued, LastingTyped
  <1>8. SyncingIsAPass
    BY <1>4 DEF SyncingIsAPass
  <1> QED BY <1>5, <1>6, <1>7, <1>8 DEF IInv

-----------------------------------------------------------------------------
(* What a step has to show.                                                *)
LEMMA Joined ==
    ASSUME ViewTyped', LoopTyped', LastingTyped', LoginSound', SyncingIsAPass'
    PROVE  IInv'
  BY TypesJoin DEF IInv, LoginSound, LoginState

LEMMA Parts ==
    ASSUME IInv
    PROVE  /\ ViewTyped /\ LoopTyped /\ LastingTyped /\ LoginSound
           /\ SyncingIsAPass
  BY TypeSplits DEF IInv, LoginSound

(* The login does not go on, no token is issued, and the cache loses its   *)
(* token if it changes at all; a pass takes its token from the cache.      *)
LEMMA CalmLogin ==
    ASSUME IInv, UNCHANGED <<login, issued>>, cache' \in {cache, NoToken},
           loop'.token \in {loop.token, cache}
    PROVE  LoginSound'
  <1>1. LastingTyped /\ LoopTyped /\ LoginSound
    BY Parts
  <1>2. OnlyIssued'
    BY <1>1, Constants DEF OnlyIssued, LoginSound, LastingTyped
  <1>3. StillNew'
    BY <1>1, Constants DEF StillNew, LoginSound, ToStore
  <1> QED
    BY <1>1, <1>2, <1>3 DEF LoginSound, LoginShape, LoginState

(* A login is asked for.                                                   *)
LEMMA LogInSound ==
    ASSUME IInv, LogIn, UNCHANGED <<issued, cache>>, loop'.token = loop.token
    PROVE  LoginSound'
  <1>1. CASE login.pc # "off"
    BY <1>1, CalmLogin DEF LogIn
  <1>2. CASE login.pc = "off"
    <2>1. login' = [Off EXCEPT !.pc = "ensure"]
      BY <1>2 DEF LogIn
    <2>2. /\ login' \in LoginState /\ login'.pc = "ensure"
          /\ login'.token = NoToken /\ login'.answer = "pending"
      BY <2>1, OffIsSound DEF LoginState
    <2>3. OnlyIssued'
      BY <2>2, Parts, Constants DEF OnlyIssued, LoginSound, LastingTyped
    <2> QED
      BY <2>2, <2>3 DEF LoginSound, LoginShape, StillNew, ToStore, LoginState
  <1> QED BY <1>1, <1>2

(* A step that leaves the login alone.                                     *)
LEMMA CalmKeeps ==
    ASSUME IInv, ViewTyped', LoopTyped', LastingTyped',
           UNCHANGED <<login, issued>>, cache' \in {cache, NoToken},
           loop'.token \in {loop.token, cache},
           st'.syncing <=> loop'.pc = "sync"
    PROVE  IInv'
  BY CalmLogin, Joined DEF SyncingIsAPass

(* What setState and the loop do to their records.                         *)
LEMMA Snapshots ==
    ASSUME ViewTyped, NEW u \in {"", "someone"}, NEW b \in BOOLEAN
    PROVE  /\ [st EXCEPT !.user = u] \in State
           /\ [st EXCEPT !.user = u].syncing = st.syncing
           /\ [st EXCEPT !.paused = b] \in State
           /\ [st EXCEPT !.paused = b].syncing = st.syncing
           /\ [st EXCEPT !.syncing = b] \in State
           /\ [st EXCEPT !.syncing = b].syncing = b
           /\ shown.paused \in BOOLEAN
  BY DEF ViewTyped, State

LEMMA LoopMoves ==
    ASSUME LoopTyped,
           NEW p \in {"start", "whoami", "first run", "idle", "sync",
                      "refused", "checking"}
    PROVE  /\ [loop EXCEPT !.pc = p] \in LoopState
           /\ [loop EXCEPT !.pc = p].pc = p
           /\ [loop EXCEPT !.pc = p].token = loop.token
  BY DEF LoopTyped, LoopState

LEMMA PassBegins ==
    ASSUME LastingTyped, NEW p \in {"whoami", "sync"}
    PROVE  /\ [pc |-> p, token |-> cache] \in LoopState
           /\ [pc |-> p, token |-> cache].pc = p
           /\ [pc |-> p, token |-> cache].token = cache
  BY DEF LastingTyped, LoopState

(* A step that sets the snapshot.                                          *)
LEMMA SettingKeeps ==
    ASSUME IInv, NEW g \in Goroutines, NEW new \in State, SetState(g, new),
           UNCHANGED <<chan, shown>>, LoopTyped', LastingTyped',
           UNCHANGED <<login, issued>>, cache' \in {cache, NoToken},
           loop'.token \in {loop.token, cache},
           new.syncing <=> loop'.pc = "sync"
    PROVE  IInv'
  BY Parts, SetStateTyped, CalmKeeps

-----------------------------------------------------------------------------
(* The run loop.                                                           *)
LEMMA CachedAtStartKeeps == ASSUME IInv, CachedAtStart PROVE IInv'
  <1> USE Parts
  <1>1. /\ loop.pc = "start" /\ UNCHANGED <<chan, shown, requests>>
        /\ UNCHANGED <<login, restartPending, lasting>>
    BY DEF CachedAtStart
  <1>2. LastingTyped' /\ UNCHANGED <<login, issued, cache>>
    BY <1>1 DEF LastingTyped, lasting
  <1>3. ~st.syncing
    BY <1>1 DEF SyncingIsAPass
  <1>4. CASE cache = NoToken
    <2> DEFINE new == [st EXCEPT !.user = ""]
    <2>1. SetState("loop", new) /\ loop' = [loop EXCEPT !.pc = "first run"]
      BY <1>4 DEF CachedAtStart
    <2>2. new \in State /\ ~new.syncing
      BY <1>3, Snapshots
    <2> HIDE DEF new
    <2>3. LoopTyped' /\ loop'.pc # "sync" /\ loop'.token = loop.token
      BY <1>1, <2>1, LoopMoves DEF LoopTyped, LoopState
    <2> QED BY <1>1, <1>2, <2>1, <2>2, <2>3, SettingKeeps DEF Goroutines
  <1>5. CASE cache # NoToken
    <2>1. loop' = [pc |-> "whoami", token |-> cache] /\ UNCHANGED <<st, pub>>
      BY <1>5 DEF CachedAtStart
    <2>2. ViewTyped'
      BY <1>1, <2>1 DEF ViewTyped
    <2>3. LoopTyped' /\ loop'.pc # "sync" /\ loop'.token = cache
      BY <1>1, <2>1, PassBegins DEF LoopTyped, LoopState
    <2> QED BY <1>1, <1>2, <1>3, <2>1, <2>2, <2>3, CalmKeeps
  <1> QED BY <1>4, <1>5

LEMMA WhoamiAtStartKeeps == ASSUME IInv, WhoamiAtStart PROVE IInv'
  <1> USE Parts
  <1> DEFINE out == [st EXCEPT !.user = ""]
             in == [st EXCEPT !.user = "someone"]
  <1>1. /\ loop.pc = "whoami" /\ loop' = [loop EXCEPT !.pc = "first run"]
        /\ UNCHANGED <<chan, shown, requests, login, restartPending>>
        /\ UNCHANGED <<issued, accepted, prompted, clicks>>
        /\ \/ cache' = NoToken /\ SetState("loop", out)
           \/ cache' = cache /\ SetState("loop", in)
           \/ UNCHANGED <<st, pub, cache>>
    BY DEF WhoamiAtStart
  <1>2. ~st.syncing
    BY <1>1 DEF SyncingIsAPass
  <1>3. out \in State /\ ~out.syncing /\ in \in State /\ ~in.syncing
    BY <1>2, Snapshots
  <1> HIDE DEF out, in
  <1>4. LastingTyped' /\ cache' \in {cache, NoToken} /\ UNCHANGED <<login, issued>>
    BY <1>1 DEF LastingTyped
  <1>5. LoopTyped' /\ loop'.pc # "sync" /\ loop'.token = loop.token
    BY <1>1, LoopMoves DEF LoopTyped, LoopState
  <1>6. CASE UNCHANGED <<st, pub>>
    BY <1>1, <1>2, <1>4, <1>5, <1>6, CalmKeeps DEF ViewTyped
  <1>7. CASE SetState("loop", out) \/ SetState("loop", in)
    BY <1>1, <1>3, <1>4, <1>5, <1>7, SettingKeeps DEF Goroutines
  <1> QED BY <1>1, <1>6, <1>7

LEMMA FirstRunKeeps == ASSUME IInv, FirstRun PROVE IInv'
  <1> USE Parts
  <1>1. /\ loop.pc = "first run" /\ loop' = [loop EXCEPT !.pc = "idle"]
        /\ UNCHANGED <<st, pub, chan, shown, requests, restartPending>>
        /\ UNCHANGED <<cache, issued, accepted, clicks>>
        /\ prompted' \in BOOLEAN /\ (LogIn \/ UNCHANGED login)
    BY DEF FirstRun, LastingTyped
  <1>2. ViewTyped' /\ LastingTyped'
    BY <1>1 DEF ViewTyped, LastingTyped
  <1>3. LoopTyped' /\ loop'.pc # "sync" /\ loop'.token = loop.token
    BY <1>1, LoopMoves DEF LoopTyped, LoopState
  <1>4. LoginSound'
    BY <1>1, <1>3, LogInSound, CalmLogin
  <1>5. SyncingIsAPass'
    BY <1>1, <1>3 DEF SyncingIsAPass
  <1> QED BY <1>2, <1>3, <1>4, <1>5, Joined

(* syncOnce, up to its first request.                                      *)
LEMMA StartPassKeeps ==
    ASSUME IInv, loop.pc = "idle", StartPass, requests' \subseteq requests
    PROVE  IInv'
  <1> USE Parts
  <1>1. UNCHANGED <<chan, shown, login, restartPending, lasting>>
    BY DEF StartPass
  <1>2. LastingTyped' /\ UNCHANGED <<issued, cache>>
    BY <1>1 DEF LastingTyped, lasting
  <1>3. CASE cache = NoToken
    <2> DEFINE new == [st EXCEPT !.user = ""]
    <2>1. SetState("loop", new) /\ loop' = loop
      BY <1>3 DEF StartPass
    <2>2. new \in State /\ ~new.syncing
      BY Snapshots DEF SyncingIsAPass
    <2> HIDE DEF new
    <2>3. LoopTyped'
      BY <1>1, <2>1 DEF LoopTyped
    <2> QED BY <1>1, <1>2, <2>1, <2>2, <2>3, SettingKeeps DEF Goroutines
  <1>4. CASE cache # NoToken
    <2> DEFINE new == [st EXCEPT !.syncing = TRUE]
    <2>1. SetState("loop", new) /\ loop' = [pc |-> "sync", token |-> cache]
      BY <1>4 DEF StartPass
    <2>2. new \in State /\ new.syncing
      BY Snapshots
    <2> HIDE DEF new
    <2>3. LoopTyped' /\ loop'.pc = "sync" /\ loop'.token = cache
      BY <1>1, <2>1, PassBegins DEF LoopTyped, LoopState
    <2> QED BY <1>1, <1>2, <2>1, <2>2, <2>3, SettingKeeps DEF Goroutines
  <1> QED BY <1>3, <1>4

LEMMA ScheduledSyncKeeps == ASSUME IInv, ScheduledSync PROVE IInv'
  BY StartPassKeeps DEF ScheduledSync, Idle

LEMMA ManualSyncKeeps ==
    ASSUME IInv, NEW kind, ManualSync(kind)
    PROVE  IInv'
  BY StartPassKeeps DEF ManualSync, Idle

(* The loop moves on and sets the snapshot; a refusal clears the cache.    *)
LEMMA MovesOnKeeps ==
    ASSUME IInv, NEW new \in State, SetState("loop", new), ~new.syncing,
           NEW p \in {"idle", "refused", "checking"},
           loop' = [loop EXCEPT !.pc = p], requests' \subseteq requests,
           restartPending' \in BOOLEAN, cache' \in {cache, NoToken},
           UNCHANGED <<chan, shown, login, issued, accepted, prompted, clicks>>
    PROVE  IInv'
  <1> USE Parts
  <1>1. LoopTyped' /\ loop'.pc # "sync" /\ loop'.token = loop.token
    BY LoopMoves DEF LoopTyped, LoopState
  <1>2. LastingTyped'
    BY DEF LastingTyped
  <1> QED BY <1>1, <1>2, SettingKeeps DEF Goroutines

LEMMA PassEndsKeeps == ASSUME IInv, PassEnds PROVE IInv'
  BY Parts, Snapshots, MovesOnKeeps DEF PassEnds, lasting, LoopTyped

LEMMA PassRefusedKeeps == ASSUME IInv, PassRefused PROVE IInv'
  BY Parts, Snapshots, MovesOnKeeps DEF PassRefused, LoopTyped

LEMMA LoggedOutKeeps == ASSUME IInv, LoggedOut PROVE IInv'
  BY Parts, Snapshots, MovesOnKeeps
     DEF LoggedOut, lasting, LoopTyped, SyncingIsAPass

LEMMA ChecksKeep == ASSUME IInv, CheckNow \/ CheckEnds PROVE IInv'
  <1>1. st \in State /\ restartPending \in BOOLEAN
    BY Parts DEF ViewTyped, LoopTyped
  <1>2. CASE CheckNow
    BY <1>1, <1>2, Parts, MovesOnKeeps DEF CheckNow, Idle, lasting, SyncingIsAPass
  <1>3. CASE CheckEnds
    BY <1>1, <1>3, Parts, MovesOnKeeps DEF CheckEnds, lasting, SyncingIsAPass
  <1> QED BY <1>2, <1>3

LEMMA PendingKeeps == ASSUME IInv, ScheduledUpdate \/ RestartFails PROVE IInv'
  <1>1. /\ UNCHANGED <<st, pub, chan, shown, requests, loop, login, lasting>>
        /\ restartPending' \in BOOLEAN
    BY DEF ScheduledUpdate, RestartFails
  <1>2. ViewTyped' /\ LoopTyped' /\ LastingTyped' /\ UNCHANGED <<issued, cache>>
    BY <1>1, Parts DEF ViewTyped, LoopTyped, LastingTyped, lasting
  <1> QED BY <1>1, <1>2, Parts, CalmKeeps DEF SyncingIsAPass

-----------------------------------------------------------------------------
(* The login goroutine.                                                    *)
LEMMA LoginGoesKeeps ==
    ASSUME IInv, NEW new, LoginGoes(new), LoginSound'
    PROVE  IInv'
  <1>1. ViewTyped' /\ LoopTyped' /\ LastingTyped' /\ SyncingIsAPass'
    BY Parts DEF ViewTyped, LoopTyped, LastingTyped, SyncingIsAPass, LoginGoes,
                 lasting
  <1> QED BY <1>1, Joined

LEMMA GivesUpKeeps == ASSUME IInv, GivesUp PROVE IInv'
  <1> USE Parts
  <1>1. /\ SetState("login", st) /\ login' = [Off EXCEPT !.pc = "ends"]
        /\ UNCHANGED <<chan, shown, requests, loop, restartPending, lasting>>
    BY DEF GivesUp
  <1>2. st \in State
    BY DEF ViewTyped
  <1>3. ViewTyped' /\ st' = st
    BY <1>1, <1>2, SetStateTyped DEF Goroutines
  <1>4. LoopTyped' /\ LastingTyped' /\ SyncingIsAPass'
    BY <1>1, <1>3 DEF LoopTyped, LastingTyped, SyncingIsAPass, lasting
  <1>5. /\ login' \in LoginState /\ login'.pc = "ends"
        /\ login'.token = NoToken /\ login'.answer = "pending"
    BY <1>1, OffIsSound DEF LoginState
  <1>6. OnlyIssued'
    BY <1>1, <1>5, Constants DEF OnlyIssued, LoginSound, LastingTyped, lasting
  <1>7. LoginSound'
    BY <1>5, <1>6 DEF LoginSound, LoginShape, StillNew, ToStore, LoginState
  <1> QED BY <1>3, <1>4, <1>7, Joined

LEMMA CachedAtLoginKeeps == ASSUME IInv, CachedAtLogin PROVE IInv'
  <1> USE Parts
  <1>1. /\ login \in LoginState /\ login.pc = "ensure" /\ login.token = NoToken
    BY DEF CachedAtLogin, LoginSound, LoginShape
  <1>2. CASE cache # NoToken
    <2> DEFINE new == [login EXCEPT !.pc = "whoami", !.token = cache]
    <2>1. LoginGoes(new)
      BY <1>2 DEF CachedAtLogin
    <2>2. new \in LoginState /\ new.pc = "whoami" /\ new.token = cache
      BY <1>1 DEF LoginState, LastingTyped
    <2> HIDE DEF new
    <2>3. LoginSound'
      BY <2>1, <2>2, Constants
         DEF LoginGoes, LoginSound, LoginShape, OnlyIssued, StillNew, ToStore,
             LoginState, lasting
    <2> QED BY <2>1, <2>3, LoginGoesKeeps
  <1>3. CASE LoginGoes([login EXCEPT !.pc = "approve", !.left = Expiry])
    <2> DEFINE new == [login EXCEPT !.pc = "approve", !.left = Expiry]
    <2>0. Expiry \in 0 .. Expiry /\ LoginGoes(new)
      BY <1>3, Constants
    <2>1. /\ new \in LoginState /\ new.pc = "approve" /\ new.token = NoToken
          /\ new.answer = login.answer
      BY <1>1, <2>0 DEF LoginState
    <2>2. login.answer = "pending"
      BY <1>1 DEF LoginSound, LoginShape
    <2> HIDE DEF new
    <2>3. LoginSound'
      BY <1>1, <2>0, <2>1, <2>2, Constants
         DEF LoginGoes, LoginSound, LoginShape, OnlyIssued, StillNew, ToStore,
             LoginState, lasting
    <2> QED BY <1>3, <2>3, LoginGoesKeeps
  <1> QED BY <1>2, <1>3, GivesUpKeeps DEF CachedAtLogin

LEMMA LoginFields ==
    ASSUME NEW l \in LoginState
    PROVE  /\ l.left \in Nat /\ l.left <= Expiry
           /\ l.every \in Nat /\ l.every # 0 /\ l.token \in Tokens \cup {NoToken}
  <1>1. l.left \in 0 .. Expiry /\ l.every \in Nat \ {0}
    BY DEF LoginState
  <1>2. l.token \in Tokens \cup {NoToken}
    BY DEF LoginState
  <1> QED BY <1>1, <1>2, Constants

LEMMA TokensAreNumbers ==
    ASSUME IInv
    PROVE  /\ cache \in Nat /\ issued \in Nat
           /\ loop.token \in Nat /\ login.token \in Nat
           /\ cache <= issued /\ loop.token <= issued /\ login.token <= issued
  <1>1. /\ cache \in Tokens \cup {NoToken} /\ issued \in Tokens \cup {NoToken}
    BY Parts DEF LastingTyped
  <1>2. loop.token \in Tokens \cup {NoToken}
    BY Parts DEF LoopTyped, LoopState
  <1>3. login.token \in Tokens \cup {NoToken}
    BY Parts, LoginFields DEF LoginSound
  <1>4. Tokens \cup {NoToken} \subseteq Nat
    BY Constants
  <1>5. OnlyIssued
    BY Parts DEF LoginSound
  <1> QED BY <1>1, <1>2, <1>3, <1>4, <1>5 DEF OnlyIssued

(* A sleep takes time off what is left, and more than none.                *)
LEMMA SleptTyped ==
    ASSUME login \in LoginState, login.left > 0
    PROVE  /\ Slept(login).left \in 0 .. Expiry
           /\ Slept(login).left < login.left
           /\ Slept(login) \in LoginState
           /\ Slept(login).token = login.token
           /\ Slept(login).answer = login.answer
  <1> DEFINE rest == IF login.left > login.every THEN login.left - login.every ELSE 0
  <1>1. Slept(login) = [login EXCEPT !.left = rest]
    BY DEF Slept
  <1>2. login.left \in Nat /\ login.left <= Expiry /\ login.every \in Nat \ {0}
    BY LoginFields
  <1>3. rest \in 0 .. Expiry /\ rest < login.left
    BY <1>2, Constants
  <1> HIDE DEF rest
  <1> QED BY <1>1, <1>3 DEF LoginState

LEMMA SleepKeeps == ASSUME IInv, Sleep PROVE IInv'
  <1> USE Parts
  <1>1. login \in LoginState /\ login.pc = "approve"
    BY DEF Sleep, LoginSound
  <1>2. CASE login.left > 0
    <2> DEFINE slept == Slept(login)
               new == [slept EXCEPT !.pc = "poll"]
    <2>1. LoginGoes(new)
      BY <1>2 DEF Sleep
    <2>2. /\ slept \in LoginState /\ slept.token = login.token
          /\ slept.answer = login.answer
      BY <1>1, <1>2, SleptTyped
    <2> HIDE DEF slept
    <2>3. /\ new \in LoginState /\ new.pc = "poll" /\ new.token = login.token
          /\ new.answer = login.answer
      BY <2>2 DEF LoginState
    <2> HIDE DEF new
    <2>4. LoginSound'
      BY <1>1, <2>1, <2>3, Constants
         DEF LoginGoes, LoginSound, LoginShape, OnlyIssued, StillNew, ToStore,
             LoginState, lasting
    <2> QED BY <2>1, <2>4, LoginGoesKeeps
  <1> QED BY <1>1, <1>2, GivesUpKeeps DEF Sleep

LEMMA PollKeeps == ASSUME IInv, Poll PROVE IInv'
  <1> USE Parts
  <1>1. login \in LoginState /\ login.pc = "poll"
    BY DEF Poll, LoginSound
  <1>2. CASE /\ login.answer = "given"
             /\ LoginGoes([Off EXCEPT !.pc = "store", !.token = login.token])
    <2> DEFINE new == [Off EXCEPT !.pc = "store", !.token = login.token]
    <2>1. LoginGoes(new)
      BY <1>2
    <2>2. login.token # NoToken
      BY <1>1, <1>2 DEF LoginSound, LoginShape
    <2>3. new \in LoginState /\ new.pc = "store" /\ new.token = login.token
      BY <1>1, OffIsSound DEF LoginState
    <2> HIDE DEF new
    <2>4. LoginSound'
      BY <1>1, <2>1, <2>2, <2>3, Constants
         DEF LoginGoes, LoginSound, LoginShape, OnlyIssued, StillNew, ToStore,
             LoginState, lasting
    <2> QED BY <2>1, <2>4, LoginGoesKeeps
  <1>3. ASSUME login.answer = "pending", NEW d \in {0, 1},
               LoginGoes([login EXCEPT !.pc = "approve", !.every = @ + d])
        PROVE  IInv'
    <2> DEFINE new == [login EXCEPT !.pc = "approve", !.every = @ + d]
    <2>1. LoginGoes(new)
      BY <1>3
    <2>2. login.every + d \in Nat \ {0}
      BY <1>1, <1>3, LoginFields
    <2>3. /\ new \in LoginState /\ new.pc = "approve"
          /\ new.token = login.token /\ new.answer = login.answer
      BY <1>1, <2>2 DEF LoginState
    <2> HIDE DEF new
    <2>4. LoginSound'
      BY <1>1, <2>1, <2>3, Constants
         DEF LoginGoes, LoginSound, LoginShape, OnlyIssued, StillNew, ToStore,
             LoginState, lasting
    <2> QED BY <2>1, <2>4, LoginGoesKeeps
  <1> QED BY <1>2, <1>3, GivesUpKeeps DEF Poll

LEMMA StoreKeeps == ASSUME IInv, StoreToken \/ WriteToken PROVE IInv'
  <1> USE Parts
  <1>1. login \in LoginState /\ LoginShape
    BY DEF LoginSound
  <1>2. /\ UNCHANGED <<st, pub, chan, shown, requests, loop, restartPending>>
        /\ UNCHANGED <<issued, accepted, prompted, clicks>>
        /\ cache' \in {cache, NoToken, login.token}
    BY DEF StoreToken, WriteToken
  <1>3. ViewTyped' /\ LoopTyped' /\ LastingTyped' /\ SyncingIsAPass'
    BY <1>1, <1>2 DEF ViewTyped, LoopTyped, LastingTyped, SyncingIsAPass,
                      LoginState
  <1>4. OnlyIssued'
    <2>1. login'.token = login.token
      BY <1>1 DEF StoreToken, WriteToken, LoginState
    <2>2. NoToken <= issued
      BY Constants DEF LastingTyped
    <2> QED BY <1>2, <2>1, <2>2 DEF OnlyIssued, LoginSound
  <1>5. CASE StoreToken
    <2>1. login.pc = "store" /\ login' = [login EXCEPT !.pc = "write"]
          /\ cache' = NoToken
      BY <1>5 DEF StoreToken
    <2>2. /\ login' \in LoginState /\ login'.pc = "write"
          /\ login'.token = login.token
      BY <1>1, <2>1 DEF LoginState
    <2>3. LoginShape' /\ StillNew'
      BY <1>1, <2>1, <2>2, Constants DEF LoginShape, StillNew, ToStore
    <2>4. LoginSound'
      BY <1>4, <2>2, <2>3 DEF LoginSound, LoginState
    <2> QED BY <1>3, <2>4, Joined
  <1>6. CASE WriteToken
    <2>1. login' = [login EXCEPT !.pc = "whoami"]
      BY <1>6 DEF WriteToken
    <2>2. /\ login' \in LoginState /\ login'.pc = "whoami"
          /\ login'.token = login.token
      BY <1>1, <2>1 DEF LoginState
    <2>3. LoginShape' /\ StillNew'
      BY <1>1, <2>1, <2>2, Constants DEF LoginShape, StillNew, ToStore
    <2>4. LoginSound'
      BY <1>4, <2>2, <2>3 DEF LoginSound, LoginState
    <2> QED BY <1>3, <2>4, Joined
  <1> QED BY <1>5, <1>6

LEMMA LoggedInKeeps == ASSUME IInv, LoggedIn PROVE IInv'
  <1> USE Parts
  <1> DEFINE new == [st EXCEPT !.user = "someone"]
  <1>1. /\ login.pc = "whoami" /\ login' = [login EXCEPT !.pc = "sync now"]
        /\ SetState("login", new)
        /\ UNCHANGED <<chan, shown, requests, loop, restartPending, lasting>>
    BY DEF LoggedIn
  <1>2. new \in State /\ new.syncing = st.syncing
    BY Snapshots
  <1> HIDE DEF new
  <1>3. ViewTyped' /\ st' = new
    BY <1>1, <1>2, SetStateTyped DEF Goroutines
  <1>4. LoopTyped' /\ LastingTyped' /\ SyncingIsAPass'
    BY <1>1, <1>2, <1>3 DEF LoopTyped, LastingTyped, SyncingIsAPass, lasting
  <1>5. /\ login' \in LoginState /\ login'.pc = "sync now"
        /\ login'.token = login.token
    BY <1>1 DEF LoginSound, LoginState
  <1>6. LoginSound'
    BY <1>1, <1>5, Constants
       DEF LoginSound, LoginShape, OnlyIssued, StillNew, ToStore, LoginState,
           lasting
  <1> QED BY <1>3, <1>4, <1>6, Joined

LEMMA LoginReturnsKeeps == ASSUME IInv, LoginReturns PROVE IInv'
  <1> USE Parts
  <1>1. /\ login' = Off /\ requests' \subseteq requests \cup {"sync"}
        /\ UNCHANGED <<st, pub, chan, shown, loop, restartPending, lasting>>
    BY DEF LoginReturns
  <1>2. ViewTyped' /\ LoopTyped' /\ LastingTyped' /\ SyncingIsAPass'
    BY <1>1 DEF ViewTyped, LoopTyped, LastingTyped, SyncingIsAPass, lasting
  <1>3. OnlyIssued'
    BY <1>1, OffIsSound, Constants DEF LoginSound, OnlyIssued, LastingTyped, lasting
  <1>4. LoginSound'
    BY <1>1, <1>3, OffIsSound DEF LoginSound, LoginShape, StillNew, ToStore,
                                  LoginState
  <1> QED BY <1>2, <1>4, Joined

-----------------------------------------------------------------------------
(* The channel and the tray.                                               *)
LEMMA PublishKeeps == ASSUME IInv, Publish PROVE IInv'
  <1> USE Parts
  <1>1. PICK g \in Goroutines : Send(g) \/ Drain(g)
    BY DEF Publish
  <1>2. /\ UNCHANGED <<st, shown, requests, loop, login, restartPending, lasting>>
        /\ chan' \in {pub[g], Nothing}
        /\ pub' \in {pub, [pub EXCEPT ![g] = Nothing]}
    BY <1>1 DEF Send, Drain
  <1>3. ViewTyped'
    BY <1>2 DEF ViewTyped
  <1>4. LoopTyped' /\ LastingTyped' /\ UNCHANGED <<cache, issued>>
    BY <1>2 DEF LoopTyped, LastingTyped, lasting
  <1> QED BY <1>2, <1>3, <1>4, CalmKeeps DEF SyncingIsAPass

LEMMA RenderKeeps == ASSUME IInv, Render PROVE IInv'
  <1> USE Parts
  <1>1. /\ chan # Nothing /\ shown' = chan /\ chan' = Nothing
        /\ UNCHANGED <<st, pub, requests, loop, login, restartPending, lasting>>
    BY DEF Render
  <1>2. ViewTyped'
    BY <1>1 DEF ViewTyped
  <1>3. LoopTyped' /\ LastingTyped' /\ UNCHANGED <<cache, issued>>
    BY <1>1 DEF LoopTyped, LastingTyped, lasting
  <1> QED BY <1>1, <1>2, <1>3, CalmKeeps DEF SyncingIsAPass

LEMMA ClickedCounts ==
    ASSUME LastingTyped, NEW item, Clicked(item), cache' \in {cache, NoToken},
           UNCHANGED <<issued, accepted, prompted>>
    PROVE  LastingTyped'
  BY Constants DEF LastingTyped, Clicked

LEMMA ClickKeeps ==
    ASSUME IInv, NEW kind \in {"sync", "force", "update"}, Click(kind)
    PROVE  IInv'
  <1> USE Parts
  <1>1. /\ Clicked(kind) /\ requests' = requests \cup {kind}
        /\ UNCHANGED <<st, pub, chan, shown, loop, login, restartPending>>
        /\ UNCHANGED <<cache, issued, accepted, prompted>>
    BY DEF Click
  <1>2. ViewTyped' /\ LoopTyped' /\ LastingTyped'
    BY <1>1, ClickedCounts DEF ViewTyped, LoopTyped
  <1> QED BY <1>1, <1>2, CalmKeeps DEF SyncingIsAPass

LEMMA MenuSetsKeep == ASSUME IInv, ClickPause \/ ClickLogOut PROVE IInv'
  <1> USE Parts
  <1>1. /\ \E item : Clicked(item)
        /\ cache' \in {cache, NoToken} /\ UNCHANGED <<issued, accepted, prompted>>
        /\ UNCHANGED <<chan, shown, requests, loop, login, restartPending>>
    BY DEF ClickPause, ClickLogOut
  <1>2. LoopTyped' /\ LastingTyped'
    BY <1>1, ClickedCounts DEF LoopTyped
  <1>3. PICK new \in State : new.syncing = st.syncing /\ SetState("tray", new)
    <2>1. \/ SetState("tray", [st EXCEPT !.paused = ~shown.paused])
          \/ SetState("tray", [st EXCEPT !.user = ""])
      BY DEF ClickPause, ClickLogOut
    <2>2. CASE SetState("tray", [st EXCEPT !.user = ""])
      BY <2>2, Snapshots
    <2>3. CASE SetState("tray", [st EXCEPT !.paused = ~shown.paused])
      <3> DEFINE b == ~shown.paused
      <3>1. b \in BOOLEAN
        OBVIOUS
      <3>2. SetState("tray", [st EXCEPT !.paused = b])
        BY <2>3
      <3> HIDE DEF b
      <3> QED BY <3>1, <3>2, Snapshots
    <2> QED BY <2>1, <2>2, <2>3
  <1> QED
    BY <1>1, <1>2, <1>3, SettingKeeps DEF Goroutines, SyncingIsAPass

LEMMA ClickLogInKeeps == ASSUME IInv, ClickLogIn PROVE IInv'
  <1> USE Parts
  <1>1. /\ Clicked("login") /\ LogIn
        /\ UNCHANGED <<st, pub, chan, shown, requests, loop, restartPending>>
        /\ UNCHANGED <<cache, issued, accepted, prompted>>
    BY DEF ClickLogIn
  <1>2. ViewTyped' /\ LoopTyped' /\ LastingTyped' /\ SyncingIsAPass'
    BY <1>1, ClickedCounts DEF ViewTyped, LoopTyped, SyncingIsAPass
  <1> QED BY <1>1, <1>2, LogInSound, Joined

-----------------------------------------------------------------------------
(* Around the process.                                                     *)
LEMMA IssueTyped ==
    ASSUME LastingTyped, Issue
    PROVE  /\ issued' = issued + 1 /\ issued' \in Tokens /\ issued' # NoToken
           /\ issued \in Nat /\ accepted' \subseteq Tokens
  BY Constants DEF LastingTyped, Issue

LEMMA ApproveKeeps == ASSUME IInv, Approve PROVE IInv'
  <1> USE Parts
  <1>1. /\ login.pc \in {"approve", "poll"} /\ Issue
        /\ login' = [login EXCEPT !.answer = "given", !.token = issued + 1]
        /\ UNCHANGED <<st, pub, chan, shown, requests, loop, restartPending>>
        /\ UNCHANGED <<cache, prompted, clicks>>
    BY DEF Approve
  <1>2. ViewTyped' /\ LoopTyped' /\ LastingTyped' /\ SyncingIsAPass'
    BY <1>1, IssueTyped DEF ViewTyped, LoopTyped, LastingTyped, SyncingIsAPass
  <1>3. /\ login' \in LoginState /\ login'.pc = login.pc
        /\ login'.token = issued' /\ login'.answer = "given"
    BY <1>1, IssueTyped DEF LoginState, LoginSound
  <1>4. OnlyIssued'
    BY <1>1, <1>3, TokensAreNumbers, IssueTyped DEF OnlyIssued
  <1>5. LoginShape'
    BY <1>1, <1>3, IssueTyped DEF LoginShape
  <1>6. StillNew'
    BY <1>1, <1>3, TokensAreNumbers, IssueTyped DEF StillNew, ToStore
  <1>7. LoginSound'
    BY <1>3, <1>4, <1>5, <1>6 DEF LoginSound, LoginState
  <1> QED BY <1>2, <1>7, Joined

LEMMA OtherLoginKeeps == ASSUME IInv, OtherLogin PROVE IInv'
  <1> USE Parts
  <1>1. /\ Issue /\ cache' = issued' /\ UNCHANGED <<prompted, clicks>>
        /\ UNCHANGED process
    BY DEF OtherLogin, Issue
  <1>2. ViewTyped' /\ LoopTyped' /\ LastingTyped' /\ SyncingIsAPass'
    BY <1>1, IssueTyped
       DEF ViewTyped, LoopTyped, LastingTyped, SyncingIsAPass, process
  <1>3. login' = login /\ loop' = loop
    BY <1>1 DEF process
  <1>4. OnlyIssued'
    BY <1>1, <1>3, TokensAreNumbers, IssueTyped DEF OnlyIssued
  <1>5. StillNew'
    BY <1>1, <1>3, TokensAreNumbers, IssueTyped DEF StillNew, ToStore
  <1>6. LoginSound'
    BY <1>3, <1>4, <1>5 DEF LoginSound, LoginShape, LoginState
  <1> QED BY <1>2, <1>6, Joined

LEMMA AroundKeeps ==
    ASSUME IInv, TokenGone \/ (\E t \in Tokens : Revoked(t))
    PROVE  IInv'
  <1> USE Parts
  <1>1. /\ UNCHANGED process /\ UNCHANGED <<issued, prompted, clicks>>
        /\ cache' \in {cache, NoToken} /\ accepted' \subseteq accepted
    BY DEF TokenGone, Revoked
  <1>2. ViewTyped' /\ LoopTyped' /\ LastingTyped' /\ UNCHANGED <<login, loop, st>>
    BY <1>1 DEF ViewTyped, LoopTyped, LastingTyped, process
  <1> QED BY <1>1, <1>2, CalmKeeps DEF SyncingIsAPass

LEMMA StutterKeeps == ASSUME IInv, UNCHANGED vars PROVE IInv'
  <1> USE Parts
  <1>1. ViewTyped' /\ LoopTyped' /\ LastingTyped'
        /\ UNCHANGED <<login, loop, st, issued, cache>>
    BY DEF ViewTyped, LoopTyped, LastingTyped, vars, process, lasting
  <1> QED BY <1>1, CalmKeeps DEF SyncingIsAPass

-----------------------------------------------------------------------------
LEMMA NextKeeps == IInv /\ [Next]_vars => IInv'
  <1> SUFFICES ASSUME IInv, [Next]_vars PROVE IInv'
    OBVIOUS
  <1>1. CASE LoopStep
    BY <1>1, CachedAtStartKeeps, WhoamiAtStartKeeps, FirstRunKeeps,
       PassEndsKeeps, PassRefusedKeeps, LoggedOutKeeps, ChecksKeep,
       PendingKeeps, BootKeeps DEF LoopStep, Restart
  <1>2. CASE LoopTakes
    BY <1>2, ScheduledSyncKeeps, ManualSyncKeeps, ChecksKeep, PendingKeeps
       DEF LoopTakes
  <1>3. CASE LoginStep
    BY <1>3, CachedAtLoginKeeps, SleepKeeps, PollKeeps, StoreKeeps,
       LoggedInKeeps, LoginReturnsKeeps DEF LoginStep
  <1>4. CASE TrayStep
    BY <1>4, RenderKeeps, MenuSetsKeep, ClickLogInKeeps, ClickKeeps
       DEF TrayStep
  <1>5. CASE Outside
    BY <1>5, ApproveKeeps, OtherLoginKeeps, AroundKeeps, BootKeeps
       DEF Outside, Relaunched
  <1> QED
    BY <1>1, <1>2, <1>3, <1>4, <1>5, PublishKeeps, StutterKeeps DEF Next

(* The invariant of the daemon, through logins, logouts, restarts and      *)
(* whatever other processes do to the cache.                               *)
THEOREM InvariantHolds == Spec => []IInv
  BY InitIInv, NextKeeps, PTL DEF Spec

(* Every variable keeps its type.                                          *)
THEOREM TypesHold == Spec => []TypeOK
  <1>1. IInv => TypeOK
    BY DEF IInv
  <1> QED BY <1>1, InvariantHolds, PTL

(* The menu says "syncing" exactly while a pass runs.                      *)
THEOREM SyncingShownRight == Spec => []SyncingIsAPass
  <1>1. IInv => SyncingIsAPass
    BY DEF IInv
  <1> QED BY <1>1, InvariantHolds, PTL

-----------------------------------------------------------------------------
(* Once a token has been in the cache, it is among those that were issued  *)
(* and no login is about to store it; that stays so, and nothing else      *)
(* writes a token.                                                         *)
Spent(t) == t <= issued /\ ~ToStore(t)

LEMMA CachedIsSpent ==
    ASSUME IInv, NEW t \in Tokens, cache = t
    PROVE  Spent(t)
  BY DEF IInv, OnlyIssued, StillNew, Spent

(* No step of the login but an approval puts a token on its way to the     *)
(* cache, and one that was written is no longer on its way.                *)
LEMMA LoginStepsStore ==
    ASSUME IInv, LoginStep, NEW t \in Tokens
    PROVE  /\ ToStore(t)' => ToStore(t)
           /\ \/ cache' \in {cache, NoToken}
              \/ cache' = login.token /\ login.pc = "write"
           /\ issued' = issued
  <1> USE Parts
  <1>0. login \in LoginState /\ t # NoToken
    BY Constants DEF LoginSound
  <1>1. CASE GivesUp
    <2>1. login'.token = NoToken /\ UNCHANGED <<cache, issued>>
      BY <1>1, OffIsSound DEF GivesUp, LoginState, lasting
    <2> QED BY <1>0, <2>1 DEF ToStore
  <1>2. CASE CachedAtLogin /\ ~GivesUp
    <2>1. /\ UNCHANGED <<cache, issued>>
          /\ login'.pc = "whoami" \/ login'.token = login.token
      BY <1>0, <1>2 DEF CachedAtLogin, LoginGoes, LoginState, lasting
    <2>2. login.token = NoToken
      BY <1>2 DEF CachedAtLogin, LoginSound, LoginShape
    <2> QED BY <1>0, <2>1, <2>2 DEF ToStore
  <1>3. CASE Sleep /\ ~GivesUp
    <2>1. /\ UNCHANGED <<cache, issued>> /\ login.pc = "approve"
          /\ login'.token = Slept(login).token /\ login.left > 0
      BY <1>0, <1>3, SleptTyped DEF Sleep, LoginGoes, LoginState, lasting
    <2> QED BY <1>0, <2>1, SleptTyped DEF ToStore
  <1>4. CASE Poll /\ ~GivesUp
    <2>1. /\ UNCHANGED <<cache, issued>> /\ login.pc = "poll"
          /\ login'.token = login.token
      BY <1>0, <1>4, OffIsSound DEF Poll, LoginGoes, LoginState, lasting
    <2> QED BY <2>1 DEF ToStore
  <1>5. CASE StoreToken
    BY <1>0, <1>5 DEF StoreToken, ToStore, LoginState
  <1>6. CASE WriteToken
    BY <1>0, <1>6 DEF WriteToken, ToStore, LoginState
  <1>7. CASE LoggedIn
    BY <1>0, <1>7 DEF LoggedIn, ToStore, LoginState, lasting
  <1>8. CASE LoginReturns
    BY <1>0, <1>8, OffIsSound DEF LoginReturns, ToStore, lasting
  <1> QED
    BY <1>1, <1>2, <1>3, <1>4, <1>5, <1>6, <1>7, <1>8 DEF LoginStep

LEMMA SpentStays ==
    ASSUME IInv, [Next]_vars, NEW t \in Tokens, Spent(t)
    PROVE  Spent(t)' /\ (cache # t => cache' # t)
  <1> USE Parts
  <1>0. t \in Nat /\ t # NoToken /\ issued \in Nat
    BY Constants DEF LastingTyped
  <1>1. CASE UNCHANGED <<login, issued>> /\ cache' \in {cache, NoToken}
    BY <1>0, <1>1 DEF Spent, ToStore
  <1>2. CASE LogIn /\ UNCHANGED <<issued, cache>>
    <2>1. CASE login.pc # "off"
      BY <1>1, <1>2, <2>1 DEF LogIn
    <2>2. CASE login.pc = "off"
      <3>1. login'.pc = "ensure"
        BY <1>2, <2>2, OffIsSound DEF LogIn, LoginState
      <3> QED BY <1>0, <1>2, <3>1 DEF Spent, ToStore
    <2> QED BY <2>1, <2>2
  <1>3. CASE LoginStep
    BY <1>0, <1>3, LoginStepsStore DEF Spent, ToStore
  <1>4. CASE Approve
    <2>1. /\ login'.token = issued' /\ cache' = cache
      BY <1>4, IssueTyped DEF Approve, LoginSound, LoginState
    <2>2. issued' = issued + 1
      BY <1>4, IssueTyped DEF Approve
    <2> QED BY <1>0, <2>1, <2>2 DEF Spent, ToStore
  <1>5. CASE OtherLogin
    BY <1>0, <1>5 DEF OtherLogin, Issue, Spent, ToStore, process
  <1>6. CASE LoopStep \/ LoopTakes
    <2>1. /\ issued' = issued /\ cache' \in {cache, NoToken}
          /\ UNCHANGED login \/ Boot \/ (LogIn /\ cache' = cache)
      BY <1>6
         DEF LoopStep, LoopTakes, CachedAtStart, WhoamiAtStart, FirstRun,
             PassEnds, PassRefused, LoggedOut, CheckEnds, RestartFails, Restart,
             ScheduledSync, ManualSync, StartPass, ScheduledUpdate, CheckNow,
             lasting
    <2>2. CASE Boot
      BY <1>0, <2>1, <2>2, OffIsSound DEF Boot, Spent, ToStore
    <2> QED BY <1>1, <1>2, <2>1, <2>2
  <1>7. CASE TrayStep
    <2>1. /\ issued' = issued /\ cache' \in {cache, NoToken}
          /\ UNCHANGED login \/ (LogIn /\ cache' = cache)
      BY <1>7 DEF TrayStep, Render, ClickPause, ClickLogIn, ClickLogOut, Click,
                  lasting
    <2> QED BY <1>1, <1>2, <2>1
  <1>8. CASE Relaunched
    BY <1>0, <1>8, OffIsSound DEF Relaunched, Boot, Spent, ToStore, lasting
  <1>9. CASE TokenGone \/ (\E u \in Tokens : Revoked(u))
    BY <1>1, <1>9 DEF TokenGone, Revoked, process
  <1>10. CASE Publish \/ UNCHANGED vars
    BY <1>1, <1>10 DEF Publish, Send, Drain, vars, process, lasting
  <1> QED
    BY <1>3, <1>4, <1>5, <1>6, <1>7, <1>8, <1>9, <1>10 DEF Next, Outside

(* A logout sticks, whatever login or pass is under way.                   *)
THEOREM RemovedStaysRemoved == Spec => LogoutSticks
  <1> SUFFICES ASSUME NEW t \in Tokens
               PROVE  Spec => [](cache = t => [](cache # t => [](cache # t)))
    BY DEF LogoutSticks
  <1>1. IInv /\ cache = t => Spent(t)
    BY CachedIsSpent
  <1>2. IInv /\ [Next]_vars /\ Spent(t) =>
           Spent(t)' /\ (cache # t => (cache # t)')
    BY SpentStays
  <1>3. cache # t <=> ~(cache = t)
    OBVIOUS
  <1>4. Spec => []IInv /\ [][Next]_vars
    BY InvariantHolds DEF Spec
  <1> QED BY <1>1, <1>2, <1>3, <1>4, PTL

-----------------------------------------------------------------------------
(* How far a login is from its end: the places it has still to pass, and   *)
(* two steps for each unit of time the device code has left.               *)
Place(pc) ==
    IF pc = "off" THEN 0
    ELSE IF pc = "whoami" THEN 2
    ELSE IF pc = "write" THEN 3
    ELSE IF pc = "store" THEN 4
    ELSE IF pc = "approve" THEN 5
    ELSE IF pc = "poll" THEN 6
    ELSE 1   \* "ends", "sync now"

Rank(l) == IF l.pc = "ensure" THEN 2 * Expiry + 6 ELSE 2 * l.left + Place(l.pc)

(* Every step of a login brings it nearer to its end, and nothing else     *)
(* takes it further away: a login makes at most 2 * Expiry + 6 steps of    *)
(* its own, whatever slow_down does to the interval, and LoginEnds needs   *)
(* no more than that it goes on.                                           *)
LoginDescends ==
    [][login.pc # "off" => /\ Rank(login)' <= Rank(login)
                           /\ LoginStep => Rank(login)' < Rank(login)]_vars

Ranked(l) ==
    /\ Rank(l) \in Nat /\ 2 * l.left <= Rank(l)
    /\ l.pc = "off" => Rank(l) = 2 * l.left
    /\ l.pc = "ensure" => Rank(l) = 2 * Expiry + 6
    /\ l.pc = "ends" => Rank(l) = 2 * l.left + 1
    /\ l.pc = "sync now" => Rank(l) = 2 * l.left + 1
    /\ l.pc = "whoami" => Rank(l) = 2 * l.left + 2
    /\ l.pc = "write" => Rank(l) = 2 * l.left + 3
    /\ l.pc = "store" => Rank(l) = 2 * l.left + 4
    /\ l.pc = "approve" => Rank(l) = 2 * l.left + 5
    /\ l.pc = "poll" => Rank(l) = 2 * l.left + 6

LEMMA RankOf == ASSUME NEW l \in LoginState PROVE Ranked(l)
  <1> USE DEF Ranked
  <1>1. l.left \in Nat /\ l.left <= Expiry
    BY LoginFields
  <1>2. l.pc \in {"off", "ensure", "approve", "poll", "store", "write",
                  "whoami", "sync now", "ends"}
    BY DEF LoginState
  <1>3. Expiry \in Nat
    BY Constants
  <1>4. CASE l.pc = "off"
    <2>1. Place(l.pc) = 0
      BY <1>4 DEF Place
    <2>2. Rank(l) = 2 * l.left + 0
      BY <1>4, <2>1 DEF Rank
    <2> QED BY <1>1, <1>4, <2>2
  <1>5. CASE l.pc = "ends"
    <2>1. Place(l.pc) = 1
      BY <1>5 DEF Place
    <2>2. Rank(l) = 2 * l.left + 1
      BY <1>5, <2>1 DEF Rank
    <2> QED BY <1>1, <1>5, <2>2
  <1>6. CASE l.pc = "sync now"
    <2>1. Place(l.pc) = 1
      BY <1>6 DEF Place
    <2>2. Rank(l) = 2 * l.left + 1
      BY <1>6, <2>1 DEF Rank
    <2>3. /\ l.pc # "off" /\ l.pc # "ensure" /\ l.pc # "ends"
          /\ l.pc # "whoami" /\ l.pc # "write" /\ l.pc # "store"
          /\ l.pc # "approve" /\ l.pc # "poll"
      BY <1>6, Zenon
    <2> QED BY <1>1, <2>2, <2>3
  <1>7. CASE l.pc = "whoami"
    <2>1. Place(l.pc) = 2
      BY <1>7 DEF Place
    <2>2. Rank(l) = 2 * l.left + 2
      BY <1>7, <2>1 DEF Rank
    <2> QED BY <1>1, <1>7, <2>2
  <1>8. CASE l.pc = "write"
    <2>1. Place(l.pc) = 3
      BY <1>8 DEF Place
    <2>2. Rank(l) = 2 * l.left + 3
      BY <1>8, <2>1 DEF Rank
    <2> QED BY <1>1, <1>8, <2>2
  <1>9. CASE l.pc = "store"
    <2>1. Place(l.pc) = 4
      BY <1>9 DEF Place
    <2>2. Rank(l) = 2 * l.left + 4
      BY <1>9, <2>1 DEF Rank
    <2> QED BY <1>1, <1>9, <2>2
  <1>10. CASE l.pc = "approve"
    <2>1. Place(l.pc) = 5
      BY <1>10 DEF Place
    <2>2. Rank(l) = 2 * l.left + 5
      BY <1>10, <2>1 DEF Rank
    <2> QED BY <1>1, <1>10, <2>2
  <1>11. CASE l.pc = "poll"
    <2>1. Place(l.pc) = 6
      BY <1>11 DEF Place
    <2>2. Rank(l) = 2 * l.left + 6
      BY <1>11, <2>1 DEF Rank
    <2> QED BY <1>1, <1>11, <2>2
  <1>12. CASE l.pc = "ensure"
    <2>1. Rank(l) = 2 * Expiry + 6
      BY <1>12 DEF Rank
    <2> QED BY <1>1, <1>3, <1>12, <2>1
  <1> QED BY <1>2, <1>4, <1>5, <1>6, <1>7, <1>8, <1>9, <1>10, <1>11, <1>12

(* Where a step of a login takes it.                                       *)
Along(a, b) ==
    \/ a.pc \in {"ensure", "approve", "poll"} /\ b.pc = "ends" /\ b.left = 0
    \/ a.pc = "ensure" /\ b.pc \in {"whoami", "approve"}
    \/ a.pc = "approve" /\ b.pc = "poll" /\ b.left < a.left
    \/ a.pc = "poll" /\ b.pc = "store" /\ b.left = 0
    \/ a.pc = "poll" /\ b.pc = "approve" /\ b.left = a.left
    \/ a.pc = "store" /\ b.pc = "write" /\ b.left = a.left
    \/ a.pc \in {"store", "write"} /\ b.pc = "whoami" /\ b.left = a.left
    \/ a.pc = "whoami" /\ b.pc = "sync now" /\ b.left = a.left
    \/ a.pc \in {"sync now", "ends"} /\ b.pc = "off" /\ b.left = 0

LEMMA AlongDescends ==
    ASSUME NEW a \in LoginState, NEW b \in LoginState, Along(a, b)
    PROVE  Rank(b) < Rank(a)
  <1>1. /\ a.left \in Nat /\ a.left <= Expiry /\ b.left \in Nat
        /\ b.left <= Expiry /\ Expiry \in Nat
    BY LoginFields, Constants
  <1>2. Ranked(a) /\ Ranked(b)
    BY RankOf
  <1>3. CASE a.pc \in {"ensure", "approve", "poll"} /\ b.pc = "ends" /\ b.left = 0
    <2>1. Rank(b) = 2 * b.left + 1
      BY <1>2, <1>3, Zenon DEF Ranked
    <2>2. \/ Rank(a) = 2 * Expiry + 6 \/ Rank(a) = 2 * a.left + 5
          \/ Rank(a) = 2 * a.left + 6
      BY <1>2, <1>3, Zenon DEF Ranked
    <2> QED BY <1>1, <1>3, <2>1, <2>2
  <1>4. CASE a.pc = "ensure" /\ b.pc \in {"whoami", "approve"}
    <2>1. Rank(b) = 2 * b.left + 2 \/ Rank(b) = 2 * b.left + 5
      BY <1>2, <1>4, Zenon DEF Ranked
    <2>2. Rank(a) = 2 * Expiry + 6
      BY <1>2, <1>4, Zenon DEF Ranked
    <2> QED BY <1>1, <1>4, <2>1, <2>2
  <1>5. CASE a.pc = "approve" /\ b.pc = "poll" /\ b.left < a.left
    BY <1>1, <1>2, <1>5 DEF Ranked
  <1>6. CASE a.pc = "poll" /\ b.pc = "store" /\ b.left = 0
    BY <1>1, <1>2, <1>6 DEF Ranked
  <1>7. CASE a.pc = "poll" /\ b.pc = "approve" /\ b.left = a.left
    BY <1>1, <1>2, <1>7 DEF Ranked
  <1>8. CASE a.pc = "store" /\ b.pc = "write" /\ b.left = a.left
    BY <1>1, <1>2, <1>8 DEF Ranked
  <1>9. CASE a.pc \in {"store", "write"} /\ b.pc = "whoami" /\ b.left = a.left
    <2>1. Rank(b) = 2 * b.left + 2
      BY <1>2, <1>9, Zenon DEF Ranked
    <2>2. Rank(a) = 2 * a.left + 4 \/ Rank(a) = 2 * a.left + 3
      BY <1>2, <1>9, Zenon DEF Ranked
    <2> QED BY <1>1, <1>9, <2>1, <2>2
  <1>10. CASE a.pc = "whoami" /\ b.pc = "sync now" /\ b.left = a.left
    <2>1. Rank(b) = 2 * b.left + 1
      BY <1>2, <1>10, Zenon DEF Ranked
    <2>2. Rank(a) = 2 * a.left + 2
      BY <1>2, <1>10, Zenon DEF Ranked
    <2>3. b.left = a.left
      BY <1>10
    <2> QED BY <1>1, <2>1, <2>2, <2>3
  <1>11. CASE a.pc = "sync now" /\ b.pc = "off" /\ b.left = 0
    <2>1. Rank(b) = 2 * b.left
      BY <1>2, <1>11, Zenon DEF Ranked
    <2>2. Rank(a) = 2 * a.left + 1
      BY <1>2, <1>11, Zenon DEF Ranked
    <2>3. b.left = 0
      BY <1>11
    <2> QED BY <1>1, <2>1, <2>2, <2>3
  <1>12. CASE a.pc = "ends" /\ b.pc = "off" /\ b.left = 0
    BY <1>1, <1>2, <1>12 DEF Ranked
  <1> QED
    BY <1>3, <1>4, <1>5, <1>6, <1>7, <1>8, <1>9, <1>10, <1>11, <1>12 DEF Along

LEMMA LoginStepsGoAlong ==
    ASSUME IInv, LoginStep
    PROVE  Along(login, login')
  <1>0. login \in LoginState
    BY Parts DEF LoginSound
  <1>1. CASE GivesUp
    <2>1. login' = [Off EXCEPT !.pc = "ends"]
      BY <1>1 DEF GivesUp
    <2>2. login'.pc = "ends" /\ login'.left = 0
      BY <2>1, OffIsSound DEF LoginState
    <2>3. CASE login.pc \in {"ensure", "approve", "poll"}
      BY <2>2, <2>3 DEF Along
    <2>4. CASE login.pc \notin {"ensure", "approve", "poll"}
      BY <1>0, <2>2, <2>4, OffIsSound
         DEF LoginStep, CachedAtLogin, Sleep, Poll, StoreToken, WriteToken,
             LoggedIn, LoginReturns, LoginState
    <2> QED BY <2>3, <2>4
  <1>2. CASE CachedAtLogin /\ ~GivesUp
    <2>1. login.pc = "ensure" /\ login'.pc \in {"whoami", "approve"}
      BY <1>0, <1>2 DEF CachedAtLogin, LoginGoes, LoginState
    <2> QED BY <2>1 DEF Along
  <1>3. CASE Sleep /\ ~GivesUp
    <2>1. /\ login.pc = "approve" /\ login'.pc = "poll"
          /\ login'.left < login.left
      BY <1>0, <1>3, SleptTyped DEF Sleep, LoginGoes, LoginState
    <2> QED BY <2>1 DEF Along
  <1>4. CASE Poll /\ ~GivesUp
    <2>1. /\ login.pc = "poll"
          /\ \/ login'.pc = "store" /\ login'.left = 0
             \/ login'.pc = "approve" /\ login'.left = login.left
      BY <1>0, <1>4, OffIsSound DEF Poll, LoginGoes, LoginState
    <2> QED BY <2>1 DEF Along
  <1>5. CASE StoreToken
    <2>1. /\ login.pc = "store" /\ login'.pc = "write"
          /\ login'.left = login.left
      BY <1>0, <1>5 DEF StoreToken, LoginState
    <2> QED BY <2>1 DEF Along
  <1>6. CASE WriteToken
    <2>1. /\ login.pc \in {"store", "write"} /\ login'.pc = "whoami"
          /\ login'.left = login.left
      BY <1>0, <1>6 DEF WriteToken, LoginState
    <2> QED BY <2>1 DEF Along
  <1>7. CASE LoggedIn
    <2>1. /\ login.pc = "whoami" /\ login'.pc = "sync now"
          /\ login'.left = login.left
      BY <1>0, <1>7 DEF LoggedIn, LoginState
    <2> QED BY <2>1, Zenon DEF Along
  <1>8. CASE LoginReturns
    <2>1. /\ login.pc \in {"sync now", "ends"} /\ login'.pc = "off"
          /\ login'.left = 0
      BY <1>8, OffIsSound DEF LoginReturns
    <2> QED BY <2>1, Zenon DEF Along
  <1> QED
    BY <1>1, <1>2, <1>3, <1>4, <1>5, <1>6, <1>7, <1>8 DEF LoginStep

LEMMA LoginStepsDescend ==
    ASSUME IInv, LoginStep
    PROVE  Rank(login') < Rank(login)
  <1>1. [Next]_vars
    BY DEF Next
  <1>2. login \in LoginState /\ login' \in LoginState
    BY <1>1, NextKeeps, Parts DEF LoginSound, IInv, TypeOK, LoginState
  <1> QED BY <1>2, LoginStepsGoAlong, AlongDescends

LEMMA RanksAreNumbers ==
    ASSUME IInv, [Next]_vars
    PROVE  Rank(login) \in Nat /\ Rank(login') \in Nat
  <1>1. login \in LoginState /\ login' \in LoginState
    BY NextKeeps, Parts DEF LoginSound, IInv, TypeOK, LoginState
  <1> QED BY <1>1, RankOf DEF Ranked

(* Whatever else happens, the login is left where it is, or is over.       *)
LEMMA OthersDoNotRaise ==
    ASSUME IInv, [Next]_vars, ~LoginStep, login.pc # "off"
    PROVE  Rank(login') <= Rank(login)
  <1> USE Parts
  <1>0. login \in LoginState /\ Rank(login) \in Nat
    BY RankOf DEF LoginSound, Ranked
  <1>1. CASE UNCHANGED login \/ LogIn
    <2>1. login' = login
      BY <1>1 DEF LogIn
    <2> QED BY <1>0, <2>1
  <1>2. CASE Boot
    <2>1. login' = Off
      BY <1>2 DEF Boot
    <2>2. Ranked(Off) /\ Rank(login') = Rank(Off)
      BY <2>1, OffIsSound, RankOf
    <2>3. Rank(login') = 0
      BY <2>2, OffIsSound DEF Ranked
    <2> QED BY <1>0, <2>3
  <1>3. CASE Approve
    <2>1. /\ login.pc \in {"approve", "poll"}
          /\ login'.pc = login.pc /\ login'.left = login.left
      BY <1>0, <1>3 DEF Approve, LoginState
    <2> QED BY <1>0, <2>1 DEF Rank
  <1>4. CASE LoopStep \/ LoopTakes
    <2>1. UNCHANGED login \/ Boot \/ LogIn
      BY <1>4
         DEF LoopStep, LoopTakes, CachedAtStart, WhoamiAtStart, FirstRun,
             PassEnds, PassRefused, LoggedOut, CheckEnds, RestartFails, Restart,
             ScheduledSync, ManualSync, StartPass, ScheduledUpdate, CheckNow
    <2> QED BY <1>1, <1>2, <2>1
  <1>5. CASE TrayStep
    <2>1. UNCHANGED login \/ LogIn
      BY <1>5 DEF TrayStep, Render, ClickPause, ClickLogIn, ClickLogOut, Click
    <2> QED BY <1>1, <2>1
  <1>6. CASE Relaunched
    BY <1>2, <1>6 DEF Relaunched
  <1>7. CASE \/ OtherLogin \/ TokenGone \/ (\E u \in Tokens : Revoked(u))
             \/ Publish \/ UNCHANGED vars
    BY <1>1, <1>7
       DEF OtherLogin, TokenGone, Revoked, Publish, Send, Drain, vars, process
  <1> QED
    BY <1>3, <1>4, <1>5, <1>6, <1>7 DEF Next, Outside

(* A login takes a bounded number of steps.                                *)
THEOREM LoginsDescend == Spec => LoginDescends
  <1>1. IInv /\ [Next]_vars =>
           [login.pc # "off" => /\ Rank(login)' <= Rank(login)
                                /\ LoginStep => Rank(login)' < Rank(login)]_vars
    <2> SUFFICES ASSUME IInv, [Next]_vars, login.pc # "off"
                 PROVE  /\ Rank(login)' <= Rank(login)
                        /\ LoginStep => Rank(login)' < Rank(login)
      OBVIOUS
    <2>1. CASE LoginStep
      <3>1. Rank(login') < Rank(login)
        BY <2>1, LoginStepsDescend
      <3>2. Rank(login') \in Nat /\ Rank(login) \in Nat
        BY RanksAreNumbers
      <3> QED BY <3>1, <3>2
    <2>2. CASE ~LoginStep
      BY <2>2, OthersDoNotRaise
    <2> QED BY <2>1, <2>2
  <1> QED BY <1>1, InvariantHolds, PTL DEF Spec, LoginDescends

=============================================================================
