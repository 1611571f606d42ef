---------------------------- MODULE ExtensionScan ----------------------------
(***************************************************************************)
(* One site's scan in the extension: the content script                    *)
(* (extension/content.js) lists the conversations page by page, offers the *)
(* server the span from the earliest to now, and fetches and uploads the   *)
(* conversations of each span the server needs; plan and upload run in the *)
(* worker (extension/background.js), with the token it keeps in storage.   *)
(* Meanwhile the user goes on chatting.  The tab may be closed at any      *)
(* time, when an upload it began goes on without it.                       *)
(*                                                                         *)
(* How many sessions a scan reports and the text of its errors are left    *)
(* out: a site whose uploads fail is done all the same.  All conversations *)
(* of a span are fetched in one step, because what is shown is shown for   *)
(* each of them by itself.                                                 *)
(***************************************************************************)
EXTENDS SyncPlan, FiniteSets, FiniteSetsExt

CONSTANTS
    Conversations, \* 1 .. n
    Undated,       \* those the adapter cannot date
    Unpackable,    \* those whose transcript comes back empty
    PageSize,      \* of the site's conversation list
    MaxFailures    \* bound: requests that fail, tabs that are closed

ASSUME ScanAssumption ==
    /\ IsFiniteSet(Conversations) /\ Conversations \subseteq Nat
    /\ Undated \subseteq Conversations /\ Unpackable \subseteq Conversations
    /\ PageSize \in Nat \ {0} /\ MaxFailures \in Nat

VARIABLES
    now,
    updated,  \* when each conversation was last active
    coverage, \* slots the server has evidence for
    held,     \* held[c]: the newest version of c the server has received
    packed,   \* history: slots covered by a body with a conversation in it
    token,    \* the token in storage.local
    scan,     \* where the scan is
    adrift,   \* uploads whose tab is gone
    missed,   \* conversations active before the span's end but not listed so
    failures

vars == <<now, updated, coverage, held, packed, token, scan, adrift, missed, failures>>
server == <<coverage, held, packed>>

-----------------------------------------------------------------------------
Absent == 0     \* not yet created; no version; no date
Existing == {c \in Conversations : updated[c] # Absent}
Dated == Existing \ Undated
Entries == [id : Conversations, at : Times \cup {Absent}]

Nothing == [c \in {} |-> Absent]
Versions == UNION {[s -> Times] : s \in SUBSET Conversations}

Idle == [pc |-> "idle", force |-> FALSE, offset |-> 0, list |-> {},
         offered |-> NoSpan, todo |-> {}, span |-> NoSpan, got |-> Nothing]

(* The list is ordered by last activity, the latest first.                 *)
Before(c, d) == updated[c] > updated[d] \/ (updated[c] = updated[d] /\ c < d)
Rank(c) == Cardinality({d \in Existing : Before(d, c)})
Page == {c \in Existing : scan.offset <= Rank(c) /\ Rank(c) < scan.offset + PageSize}

Entry(c) == [id |-> c, at |-> IF c \in Undated THEN Absent ELSE updated[c]]

Start(force) ==
    /\ scan.pc = "idle"
    /\ scan' = [Idle EXCEPT !.pc = "list", !.force = force]
    /\ UNCHANGED <<now, updated, server, token, adrift, missed, failures>>

(* listConversations: a page as the site has it, until a short page or the *)
(* last conversation.                                                      *)
MutNextOffset == scan.offset + PageSize
MutSameOffset == scan.offset
NextOffset == scan.offset + Cardinality(Page)

ListPage ==
    /\ scan.pc = "list"
    /\ scan' = [scan EXCEPT
          !.list = @ \cup {Entry(c) : c \in Page},
          !.offset = NextOffset,
          !.pc = IF Cardinality(Page) < PageSize \/ NextOffset >= Cardinality(Existing)
                 THEN "offer" ELSE "list"]
    /\ UNCHANGED <<now, updated, server, token, adrift, missed, failures>>

(* The span that is offered ends when the last page has arrived.           *)
MutFloor(dates) == IF dates = {} THEN 1 ELSE Max(dates)
Floor(dates) == IF dates = {} THEN 1 ELSE Min(dates)

Offer ==
    /\ scan.pc = "offer"
    /\ LET dates == {e.at : e \in scan.list} \ {Absent}
       IN scan' = IF scan.list = {} THEN Idle
                  ELSE [scan EXCEPT !.offered = [start |-> Floor(dates), end |-> now],
                                    !.pc = "plan"]
    /\ missed' = missed \cup {c \in Dated : updated[c] < now /\ Entry(c) \notin scan.list}
    /\ UNCHANGED <<now, updated, server, token, adrift, failures>>

Planned ==
    /\ scan.pc = "plan" /\ token = "good"
    /\ LET needed == IF scan.force THEN {scan.offered} \cap Spans
                     ELSE Needed(scan.offered, coverage)
       IN scan' = IF needed = {} THEN Idle
                  ELSE [scan EXCEPT !.todo = needed, !.pc = "fetch"]
    /\ UNCHANGED <<now, updated, server, token, adrift, missed, failures>>

(* The dated conversations of the span and, with the last span, the        *)
(* undated ones.                                                           *)
MutInSpan(sp, last) ==
    {e.id : e \in {x \in scan.list : IF x.at = Absent THEN last
                                     ELSE sp.start < x.at /\ x.at <= sp.end}}
InSpan(sp, last) ==
    {e.id : e \in {x \in scan.list : IF x.at = Absent THEN last
                                     ELSE x.at \in Slots(sp)}}

Fetched ==
    /\ scan.pc = "fetch"
    /\ \E sp \in scan.todo :
          LET rest == scan.todo \ {sp}
          IN /\ Earliest(sp, scan.todo)
             /\ scan' = [scan EXCEPT
                   !.span = sp, !.todo = rest, !.pc = "upload",
                   !.got = [c \in InSpan(sp, rest = {}) |-> updated[c]]]
    /\ UNCHANGED <<now, updated, server, token, adrift, missed, failures>>

-----------------------------------------------------------------------------
(* upload.  Conversations that were handed over but do not pack are left   *)
(* out; if none packs nothing is uploaded.                                 *)
MutPacks == TRUE
Packs == DOMAIN scan.got \subseteq Unpackable => DOMAIN scan.got = {}

(* The scan goes on with the next span whatever became of this one.        *)
NextSpan ==
    IF scan.todo = {} THEN Idle ELSE [scan EXCEPT !.pc = "fetch"]

Received(sp, got) ==
    /\ coverage' = coverage \cup Slots(sp)
    /\ held' = [c \in Conversations |->
                   IF c \in DOMAIN got \ Unpackable /\ got[c] > held[c]
                   THEN got[c] ELSE held[c]]
    /\ packed' = IF DOMAIN got \subseteq Unpackable THEN packed ELSE packed \cup Slots(sp)

(* The server has the body, whether or not its answer arrives.             *)
Posted ==
    /\ scan.pc = "upload" /\ Packs /\ token = "good"
    /\ Received(scan.span, scan.got)
    /\ scan' = NextSpan
    /\ UNCHANGED <<now, updated, token, adrift, missed, failures>>

NothingToUpload ==
    /\ scan.pc = "upload" /\ ~Packs
    /\ scan' = NextSpan
    /\ UNCHANGED <<now, updated, server, token, adrift, missed, failures>>

(* A request fails, or the user does not authorize: an upload that fails   *)
(* is only reported, anything else ends the scan.                          *)
Failure == failures < MaxFailures /\ failures' = failures + 1

Fails ==
    /\ Failure
    /\ \/ scan.pc \in {"list", "plan", "fetch"} /\ scan' = Idle
       \/ scan.pc = "upload" /\ Packs /\ scan' = NextSpan
    /\ UNCHANGED <<now, updated, server, token, adrift, missed>>

(* 401: the token is removed.                                              *)
MutRefused ==
    /\ token = "bad"
    /\ \/ scan.pc = "plan" /\ scan' = Idle
       \/ scan.pc = "upload" /\ Packs /\ scan' = NextSpan
    /\ UNCHANGED <<now, updated, server, token, adrift, missed, failures>>
Refused ==
    /\ token = "bad" /\ token' = "none"
    /\ \/ scan.pc = "plan" /\ scan' = Idle
       \/ scan.pc = "upload" /\ Packs /\ scan' = NextSpan
    /\ UNCHANGED <<now, updated, server, adrift, missed, failures>>

(* ensureRunToken: the device flow, when no token is cached.               *)
Authorized ==
    /\ token = "none" /\ token' = "good"
    /\ scan.pc = "plan" \/ (scan.pc = "upload" /\ Packs)
    /\ UNCHANGED <<now, updated, server, scan, adrift, missed, failures>>

-----------------------------------------------------------------------------
(* The tab is closed: by the user, a cancel or the watchdog.  An upload    *)
(* the worker has begun reaches the server now, later or never.            *)
TabClosed ==
    /\ Failure
    /\ scan.pc # "idle" /\ scan' = Idle
    /\ adrift' = IF scan.pc = "upload" /\ Packs
                 THEN adrift \cup {[span |-> scan.span, got |-> scan.got]}
                 ELSE adrift
    /\ UNCHANGED <<now, updated, server, token, missed>>

Lands(post) ==
    /\ Received(post.span, post.got)
    /\ adrift' = adrift \ {post}
    /\ UNCHANGED <<now, updated, token, scan, missed, failures>>

Lost(post) ==
    /\ adrift' = adrift \ {post}
    /\ UNCHANGED <<now, updated, server, token, scan, missed, failures>>

(* A conversation is begun or goes on; time passes, in which the token may *)
(* expire or be revoked.                                                   *)
Chat(c) ==
    /\ updated[c] # now /\ now < MaxTime
    /\ updated' = [updated EXCEPT ![c] = now]
    /\ missed' = missed \ {c}
    /\ UNCHANGED <<now, server, token, scan, adrift, failures>>

Tick ==
    /\ now < MaxTime /\ now' = now + 1
    /\ token' \in IF token = "good" THEN {"good", "none", "bad"} ELSE {token}
    /\ UNCHANGED <<updated, server, scan, adrift, missed, failures>>

Init ==
    /\ now = 1 /\ updated = [c \in Conversations |-> Absent]
    /\ coverage = {} /\ held = [c \in Conversations |-> Absent] /\ packed = {}
    /\ token = "none" /\ scan = Idle /\ adrift = {} /\ missed = {}
    /\ failures = 0

ScanStep ==
    \/ ListPage \/ Offer \/ Planned \/ Fetched
    \/ Posted \/ NothingToUpload \/ Fails \/ Refused \/ Authorized

Next ==
    \/ ScanStep
    \/ \E force \in BOOLEAN : Start(force)
    \/ TabClosed
    \/ \E post \in adrift : Lands(post) \/ Lost(post)
    \/ \E c \in Conversations : Chat(c)
    \/ Tick

Spec == Init /\ [][Next]_vars

(* Every request is answered or fails, and again and again a scan starts:  *)
(* the user's or, each week, one by itself.                                *)
FairSpec ==
    Spec /\ WF_vars(ScanStep) /\ WF_vars(Start(FALSE)) /\ WF_vars(Tick)

-----------------------------------------------------------------------------
(* Every variable has its type.                                            *)
TypeOK ==
    /\ now \in Times /\ updated \in [Conversations -> Times \cup {Absent}]
    /\ coverage \subseteq Times /\ packed \subseteq Times
    /\ held \in [Conversations -> Times \cup {Absent}]
    /\ token \in {"none", "good", "bad"}
    /\ scan.pc \in {"idle", "list", "offer", "plan", "fetch", "upload"}
    /\ scan.force \in BOOLEAN /\ scan.offset \in 0 .. Cardinality(Conversations)
    /\ scan.list \subseteq Entries
    /\ scan.offered \in [start : Times, end : Times] /\ scan.todo \subseteq Spans
    /\ scan.span \in Spans \cup {NoSpan} /\ scan.got \in Versions
    /\ adrift \subseteq [span : Spans, got : Versions]
    /\ missed \subseteq Conversations /\ failures \in 0 .. MaxFailures

(* A conversation whose time the server considers covered has been sent as *)
(* it is, if it can be packed and was listed as it is: whichever uploads   *)
(* failed, were cut off or arrived late.                                   *)
CoveredIsAccounted ==
    \A c \in Dated \ Unpackable :
        updated[c] \in coverage => held[c] = updated[c] \/ c \in missed

(* "rather than silently marking the span covered" (background.js:350-354):*)
(* the time of a conversation that does not pack is covered only by a body *)
(* that had one in it that does, unless it was not listed as it is.        *)
UnpackableNotAlone ==
    \A c \in Dated \cap Unpackable :
        updated[c] \in coverage => updated[c] \in packed \/ c \in missed

(* A scan ends, however the list changes under it.                         *)
ScanEnds == (scan.pc # "idle") ~> (scan.pc = "idle")

(* "scan again to re-authorize" (background.js:309-313): a token that the  *)
(* server refuses does not stay in the way.                                *)
Reauthorizes == (token = "bad" /\ Dated # {}) ~> (token # "bad")

(* What one scan could not send a later one does.                          *)
Backfilled ==
    \A c \in Conversations \ (Undated \cup Unpackable), t \in Times :
        (updated[c] = t) ~>
            (updated[c] # t \/ held[c] = t \/ (t \in coverage /\ c \in missed))

=============================================================================
