----------------------------- MODULE DesktopSync -----------------------------
(***************************************************************************)
(* The desktop client's sync (desktop/internal/cli/sync.go): for one       *)
(* source after the other, discover the available span, ask the server     *)
(* which spans it still needs, capture the sessions of each span, split    *)
(* them into bodies under the size cap, and post every body as evidence    *)
(* for the declared span.  The first source that fails ends the sync.  The *)
(* daemon and `aiscan sync' may run at the same time and share nothing but *)
(* the server.                                                             *)
(*                                                                         *)
(* Posting evidence covers its window: the server never asks for it again, *)
(* whatever the window's other bodies are worth.  So the question is what  *)
(* becomes of a session once its window is covered.                        *)
(*                                                                         *)
(* Time is counted in the seconds of the wire format.                      *)
(* Session files are edited at any time.  A session is read at one moment  *)
(* of the capture; all of a capture is one step because what is shown is   *)
(* shown for each session by itself.  Sessions are numbered in the order   *)
(* the capture lists them.                                                 *)
(***************************************************************************)
EXTENDS SyncPlan, FiniteSets, FiniteSetsExt

CONSTANTS
    Clients,     \* processes that sync: the daemon, `aiscan sync'
    Interactive, \* those with a prompt, that can run the device flow
    Sources,     \* 1 .. n, in the order of `recipes'
    Cowork,      \* those read by the Cowork recipe
    Cursor,      \* those read by the Cursor recipe; the others are files
    Sessions,    \* 1 .. n
    Source,      \* the source of each session
    Undated,     \* Cursor's composers without a date
    Noisy,       \* sessions that the paths of an --ignore match
    Broken,      \* sources that may fail for ever
    Size,        \* compressed size of each session
    MaxBody,     \* MaxCompressedBytes
    ServerLimit, \* what the server (or a proxy) really accepts
    MaxRetries,  \* transientMaxRetries
    MaxCrashes   \* bound: processes killed in the middle of a sync

ASSUME SyncAssumption ==
    /\ Interactive \subseteq Clients
    /\ IsFiniteSet(Sources) /\ Sources \subseteq Nat \ {0}
    /\ Cowork \subseteq Sources /\ Cursor \subseteq Sources \ Cowork
    /\ IsFiniteSet(Sessions) /\ Sessions \subseteq Nat
    /\ Source \in [Sessions -> Sources] /\ Noisy \subseteq Sessions
    /\ Broken \subseteq Sources
    /\ Undated \subseteq {s \in Sessions : Source[s] \in Cursor}
    /\ Size \in [Sessions -> Nat \ {0}]
    /\ MaxBody \in Nat /\ ServerLimit \in Nat
    /\ MaxRetries \in Nat /\ MaxCrashes \in Nat

VARIABLES
    now,
    mtime,    \* when each session was last written
    coverage, \* slots the server has evidence for, per source
    held,     \* held[s]: the newest version of s the server has received
    fate,     \* fate[s]: why the current version of s was given up, if it was
    sync,     \* where each client's sync is
    crashes

vars == <<now, mtime, coverage, held, fate, sync, crashes>>

-----------------------------------------------------------------------------
Absent == 0     \* a session that does not exist yet, no version

Fate == {"none", "unread", "ignored", "too large", "failed", "cut off"}
Batches == SUBSET SUBSET Sessions   \* the empty body is the batch {}

NoSource == 0

Idle == [pc |-> "idle", force |-> FALSE, ignore |-> {}, src |-> NoSource,
         left |-> {}, offered |-> NoSpan, todo |-> {}, span |-> NoSpan,
         ver |-> [s \in Sessions |-> Absent], batches |-> {}, tries |-> 0,
         fresh |-> FALSE]

Existing == {s \in Sessions : mtime[s] # Absent}
Kept(src) == {s \in Existing : Source[s] = src}

(* The next source of the loop, or the end of it.                          *)
Turn(rec, src) ==
    [Idle EXCEPT !.pc = "discover", !.force = rec.force,
                 !.ignore = rec.ignore, !.src = src,
                 !.left = rec.left \ {src}]
MutNextSource(rec) ==
    IF rec.left = {} \/ rec.src # NoSource THEN Idle
    ELSE Turn(rec, Min(rec.left))
NextSource(rec) ==
    IF rec.left = {} THEN Idle ELSE Turn(rec, Min(rec.left))

(* SplitForUpload: halve, in capture order, what exceeds the cap; a single *)
(* session that does is left out.                                          *)
Weight(batch) == MapThenSumSet(LAMBDA s : Size[s], batch)
LowerHalf(batch) ==
    {s \in batch :
        Cardinality({t \in batch : t < s}) < Cardinality(batch) \div 2}

Split(batch, cap) ==
    LET pieces[b \in SUBSET batch] ==
            IF Weight(b) <= cap THEN {b}
            ELSE IF Cardinality(b) = 1 THEN {}
            ELSE pieces[LowerHalf(b)] \cup pieces[b \ LowerHalf(b)]
    IN pieces[batch]

NextBatch(batches) ==
    CHOOSE b \in batches :
        \A q \in batches \ {b} : b = {} \/ Min(b) < Min(q)

Became(f, gone) == [s \in Sessions |-> IF s \in gone THEN f ELSE fate[s]]

(* The captured sessions of a batch that are still as they were captured.  *)
Current(c, batch) == {s \in batch : sync[c].ver[s] = mtime[s]}

-----------------------------------------------------------------------------
(* A sync starts: `aiscan sync', the daemon's timer, "Sync now" or, with   *)
(* force, "Sync all".  Only `aiscan sync' selects sources and ignores      *)
(* paths.                                                                  *)
StartSync(c, force, selected, ignore) ==
    /\ sync[c].pc = "idle"
    /\ c \in Interactive \/ (selected = Sources /\ ignore = {})
    /\ sync' = [sync EXCEPT ![c] =
          NextSource([Idle EXCEPT !.force = force, !.left = selected,
                                  !.ignore = ignore])]
    /\ UNCHANGED <<now, mtime, coverage, held, fate, crashes>>

(* The earliest data of a source: the oldest file, or the oldest composer  *)
(* that has a date.                                                        *)
Earlier(sessions) == Min({mtime[s] : s \in sessions})
DiscoverFiles(src) == Kept(src)
DiscoverComposers(src) == Kept(src) \ Undated
Discovered(src) == IF src \in Cursor THEN DiscoverComposers(src)
                   ELSE DiscoverFiles(src)

(* The available span runs from the earliest data to now, narrowed by the  *)
(* window flags, which only `aiscan sync' has.                             *)
MutAvailableEnd(c, src) ==
    {sp \in Spans : sp.start = Earlier(Discovered(src)) /\ sp.end = now + 1}
Available(c, src) ==
    LET first == Earlier(Discovered(src))
        narrowed == c \in Interactive
    IN {sp \in Spans : /\ sp.start = first \/ (narrowed /\ sp.start > first)
                       /\ sp.end = now \/ (narrowed /\ sp.end < now)}

Discover(c) ==
    /\ sync[c].pc = "discover"
    /\ LET src == sync[c].src
       IN IF Discovered(src) = {} \/ Available(c, src) = {}
          THEN sync' = [sync EXCEPT ![c] = NextSource(@)]
          ELSE \E sp \in Available(c, src) :
                sync' = [sync EXCEPT ![c] =
                    IF @.force THEN [@ EXCEPT !.pc = "capture", !.todo = {sp}]
                    ELSE [@ EXCEPT !.pc = "plan", !.offered = sp]]
    /\ UNCHANGED <<now, mtime, coverage, held, fate, crashes>>

Plan(c) ==
    /\ sync[c].pc = "plan"
    /\ LET needed == Needed(sync[c].offered, coverage[sync[c].src])
       IN sync' = [sync EXCEPT ![c] =
                      IF needed = {} THEN NextSource(@)
                      ELSE [@ EXCEPT !.pc = "capture", !.todo = needed,
                                     !.offered = NoSpan]]
    /\ UNCHANGED <<now, mtime, coverage, held, fate, crashes>>

(* Discovery or the plan fails: the token is refused and cannot be         *)
(* renewed, the request is not answered, the answer is an error.  No other *)
(* source is tried.                                                        *)
PlanFails(c) ==
    /\ sync[c].pc \in {"discover", "plan"}
    /\ sync' = [sync EXCEPT ![c] = Idle]
    /\ UNCHANGED <<now, mtime, coverage, held, fate, crashes>>

(* What is left once the batches of the current span are `rest'.           *)
Post(rec, rest) == [rec EXCEPT !.pc = "post", !.batches = rest, !.tries = 0,
                               !.fresh = FALSE]
NextSpan(rec) ==
    IF rec.todo = {} THEN NextSource(rec)
    ELSE [rec EXCEPT !.pc = "capture", !.span = NoSpan, !.ver = Idle.ver,
                     !.batches = {}, !.tries = 0, !.fresh = FALSE]
AfterBatch(rec, rest) ==
    IF rest # {} THEN Post(rec, rest) ELSE NextSpan(rec)

(* Capture reads the sessions written within the span, of the end second   *)
(* those before the end's fraction.  A file that cannot be read is passed  *)
(* over, and a recipe that fails only costs a warning: what was `read' may *)
(* be any part of what is there.                                           *)
InWindow(src, sp) ==
    {s \in Kept(src) : sp.start <= mtime[s] /\ mtime[s] <= sp.end}

CaptureFiles(src, sp, ignore) == InWindow(src, sp) \ ignore
CaptureCowork(src, sp, ignore) == InWindow(src, sp)
CaptureComposers(src, sp, ignore) ==
    (InWindow(src, sp) \cup (Kept(src) \cap Undated)) \ ignore

Captured(src, sp, ignore) ==
    IF src \in Cowork THEN CaptureCowork(src, sp, ignore)
    ELSE IF src \in Cursor THEN CaptureComposers(src, sp, ignore)
    ELSE CaptureFiles(src, sp, ignore)

MutBodies(read) ==
    IF Split(read, MaxBody) = {} THEN {{}} ELSE Split(read, MaxBody)
Bodies(read) == Split(read, MaxBody)    \* {{}}, an empty body, for {}

Capture(c, sp, read) ==
    LET batches == Bodies(read)
        oversized == read \ UNION batches
    IN /\ sync[c].pc = "capture" /\ Earliest(sp, sync[c].todo)
       /\ read \subseteq Captured(sync[c].src, sp, sync[c].ignore)
       /\ sync' = [sync EXCEPT ![c] =
             AfterBatch([sync[c] EXCEPT
                           !.span = sp, !.todo = sync[c].todo \ {sp},
                           !.ver = [s \in Sessions |->
                               IF s \in read THEN mtime[s] ELSE Absent]],
                        batches)]
       /\ fate' = [s \in Sessions |->
             IF s \in oversized THEN "too large"
             ELSE IF s \in Kept(sync[c].src) \ read /\ mtime[s] \in Slots(sp)
             THEN IF s \in sync[c].ignore THEN "ignored" ELSE "unread"
             ELSE fate[s]]
       /\ UNCHANGED <<now, mtime, coverage, held, crashes>>

-----------------------------------------------------------------------------
(* The posting of one batch.  The server accepts a body within its limit:  *)
(* it covers the window, and keeps the newest version of each session.     *)
Body(c) == NextBatch(sync[c].batches)

Received(c) ==
    /\ sync[c].pc = "post"
    /\ Weight(Body(c)) <= ServerLimit
    /\ coverage' = [coverage EXCEPT ![sync[c].src] =
                       @ \cup Slots(sync[c].span)]
    /\ held' = [s \in Sessions |->
                   IF s \in Body(c) /\ sync[c].ver[s] > held[s]
                   THEN sync[c].ver[s] ELSE held[s]]

Posted(c) ==
    /\ Received(c)
    /\ sync' = [sync EXCEPT ![c] = AfterBatch(@, @.batches \ {Body(c)})]
    /\ UNCHANGED <<now, mtime, fate, crashes>>

(* The sync ends with an error, which leaves the other batches of the      *)
(* span, all later spans and all later sources.                            *)
Fail(c) ==
    /\ sync' = [sync EXCEPT ![c] = Idle]
    /\ fate' = Became("failed", Current(c, UNION sync[c].batches))

(* A transient failure, after the server took the body or before: the same *)
(* body is posted again, up to MaxRetries times.                           *)
MutRetry(c) ==
    \/ /\ sync[c].tries <= MaxRetries
       /\ sync' = [sync EXCEPT ![c].tries = @ + 1]
       /\ UNCHANGED fate
    \/ sync[c].tries > MaxRetries /\ Fail(c)
Retry(c) ==
    \/ /\ sync[c].tries < MaxRetries
       /\ sync' = [sync EXCEPT ![c].tries = @ + 1]
       /\ UNCHANGED fate
    \/ sync[c].tries = MaxRetries /\ Fail(c)

AnswerLost(c) == Received(c) /\ Retry(c) /\ UNCHANGED <<now, mtime, crashes>>

NotDelivered(c) ==
    /\ sync[c].pc = "post"
    /\ Retry(c)
    /\ UNCHANGED <<now, mtime, coverage, held, crashes>>

(* 401: the device flow, once per body and only with a prompt.             *)
Unauthorized(c) ==
    /\ sync[c].pc = "post"
    /\ \/ /\ c \in Interactive /\ ~sync[c].fresh
          /\ sync' = [sync EXCEPT ![c] = [@ EXCEPT !.fresh = TRUE,
                                                   !.tries = 0]]
          /\ UNCHANGED fate
       \/ Fail(c)
    /\ UNCHANGED <<now, mtime, coverage, held, crashes>>

(* 413: a lone session is skipped, several are split under half the size.  *)
MutResplitCap(batch) == Weight(batch)
ResplitCap(batch) == Weight(batch) \div 2

TooLarge(c) ==
    LET b == Body(c)
        pieces == IF Cardinality(b) = 1 THEN {} ELSE Split(b, ResplitCap(b))
    IN /\ sync[c].pc = "post"
       /\ Weight(b) > ServerLimit
       /\ sync' = [sync EXCEPT ![c] =
                      AfterBatch(@, (@.batches \ {b}) \cup pieces)]
       /\ fate' = Became("too large", Current(c, b \ UNION pieces))
       /\ UNCHANGED <<now, mtime, coverage, held, crashes>>

-----------------------------------------------------------------------------
(* A session is written, the clock ticks, a process is killed.             *)
Write(s) ==
    /\ mtime[s] # now /\ now < MaxTime
    /\ mtime' = [mtime EXCEPT ![s] = now]
    /\ fate' = [fate EXCEPT ![s] = "none"]
    /\ UNCHANGED <<now, coverage, held, sync, crashes>>

Tick ==
    /\ now < MaxTime
    /\ now' = now + 1
    /\ UNCHANGED <<mtime, coverage, held, fate, sync, crashes>>

Killed(c) ==
    /\ sync[c].pc # "idle" /\ crashes < MaxCrashes
    /\ crashes' = crashes + 1
    /\ sync' = [sync EXCEPT ![c] = Idle]
    /\ fate' = Became("cut off", Current(c, UNION sync[c].batches))
    /\ UNCHANGED <<now, mtime, coverage, held>>

Init ==
    /\ now = 1 /\ mtime = [s \in Sessions |-> Absent]
    /\ coverage = [src \in Sources |-> {}]
    /\ held = [s \in Sessions |-> Absent]
    /\ fate = [s \in Sessions |-> "none"]
    /\ sync = [c \in Clients |-> Idle] /\ crashes = 0

SyncStep(c) ==
    \/ Discover(c) \/ Plan(c) \/ PlanFails(c)
    \/ \E sp \in sync[c].todo, read \in SUBSET Sessions : Capture(c, sp, read)
    \/ Posted(c) \/ AnswerLost(c) \/ NotDelivered(c) \/ Unauthorized(c)
    \/ TooLarge(c)

Next ==
    \/ \E c \in Clients :
           \/ \E force \in BOOLEAN, selected \in SUBSET Sources \ {{}},
                 ignore \in {{}, Noisy} : StartSync(c, force, selected, ignore)
           \/ SyncStep(c) \/ Killed(c)
    \/ \E s \in Sessions : Write(s)
    \/ Tick

Spec == Init /\ [][Next]_vars

(* Every call of a sync returns, the daemon's timer keeps starting syncs   *)
(* and time passes; in BackfillSpec discovery, plan and post also do not   *)
(* fail for ever, but for the sources that are broken.                     *)
FairSpec == Spec /\ \A c \in Clients : WF_vars(SyncStep(c))

BackfillSpec ==
    /\ FairSpec /\ WF_vars(Tick)
    /\ \A c \in Clients :
          /\ WF_vars(StartSync(c, FALSE, Sources, {}))
          /\ \A src \in Sources \ Broken :
                /\ SF_vars(Discover(c) /\ sync[c].src = src)
                /\ SF_vars(Plan(c) /\ sync[c].src = src)
                /\ SF_vars(Posted(c) /\ sync[c].src = src)
                /\ SF_vars(TooLarge(c) /\ sync[c].src = src)

-----------------------------------------------------------------------------
(* Every variable has its type.                                            *)
SyncState ==
    [pc : {"idle", "discover", "plan", "capture", "post"}, force : BOOLEAN,
     ignore : SUBSET Sessions, src : Sources \cup {NoSource},
     left : SUBSET Sources, offered : Spans \cup {NoSpan}, todo : SUBSET Spans,
     span : Spans \cup {NoSpan}, ver : [Sessions -> Times \cup {Absent}],
     batches : Batches, tries : 0 .. MaxRetries, fresh : BOOLEAN]

TypeOK ==
    /\ now \in Times /\ mtime \in [Sessions -> Times \cup {Absent}]
    /\ coverage \in [Sources -> SUBSET Times]
    /\ held \in [Sessions -> Times \cup {Absent}]
    /\ fate \in [Sessions -> Fate] /\ sync \in [Clients -> SyncState]
    /\ crashes \in 0 .. MaxCrashes

(* A session whose window the server considers covered is not lost by      *)
(* accident: the server holds its current version, or a running sync still *)
(* has it to post under a window that spans it, or a sync gave it up: it   *)
(* could not be read or was too large, or the sync failed or was killed.   *)
(* In particular a session written while syncs run is never covered by a   *)
(* window they offered before.                                             *)
GivenUp(s) == fate[s] # "none"

InHand(s) ==
    \E c \in Clients : /\ sync[c].pc = "post"
                       /\ s \in Current(c, UNION sync[c].batches)
                       /\ mtime[s] \in Slots(sync[c].span)

CoveredIsAccounted ==
    \A s \in Existing : mtime[s] \in coverage[Source[s]] =>
        held[s] = mtime[s] \/ InHand(s) \/ GivenUp(s)

(* An empty body is posted only for a window of which nothing was read,    *)
(* never because everything in it was skipped as too large: that would     *)
(* "bury the skipped sessions for good" (sync.go:246-251).                 *)
EmptyBodyReadNothing ==
    \A c \in Clients : sync[c].pc = "post" /\ {} \in sync[c].batches =>
        \A s \in Sessions : sync[c].ver[s] = Absent

(* A sync ends, also when the server answers 413 again and again.          *)
SyncEnds == \A c \in Clients : (sync[c].pc # "idle") ~> (sync[c].pc = "idle")

(* A failed, killed or interrupted sync is made up for by a later one:     *)
(* every version of a session that fits reaches the server, unless it is   *)
(* overwritten or was given up in a window that became covered, or a       *)
(* source before its own, or its own, is broken: the sources after a       *)
(* broken one are held up, those before it are not.  Composers without a   *)
(* date have no window of their own to come back to.                       *)
Fits(s) == Size[s] <= MaxBody /\ Size[s] <= ServerLimit
Buried(s) == mtime[s] \in coverage[Source[s]] /\ GivenUp(s)
HeldUp(s) == \E src \in Broken : src <= Source[s]

Backfilled ==
    \A s \in Sessions \ Undated, t \in Times :
        (mtime[s] = t /\ Fits(s)) ~>
            (mtime[s] # t \/ held[s] = t \/ Buried(s) \/ HeldUp(s))

(* "Ignore drops artifacts whose logical path contains any of these        *)
(* substrings" (capture.go:55): what a sync was told to ignore is not in   *)
(* what it posts.                                                          *)
IgnoredNotSent ==
    \A c \in Clients : sync[c].ignore \cap UNION sync[c].batches = {}

=============================================================================
