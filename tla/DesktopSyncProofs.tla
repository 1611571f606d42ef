-------------------------- MODULE DesktopSyncProofs --------------------------
(***************************************************************************)
(* What DesktopSync.tla shows of small instances, for every number of      *)
(* clients, sources, sessions, sizes, retries and crashes: no session is   *)
(* lost by accident in a window that the server considers covered.         *)
(*                                                                         *)
(* The invariant is about the windows in use: all of them lie in the past, *)
(* so that a session written later is in none of them; and while one is    *)
(* posted, each of its sessions is in hand, with the server, or given up.  *)
(* How bodies are split does not matter to it, only that what is split off *)
(* is still posted or given up.                                            *)
(*                                                                         *)
(* A second invariant, with the types, is about the bodies themselves, and *)
(* there it matters: what the recursive Split computes is shown of every   *)
(* batch and cap, by a least counterexample.                               *)
(*                                                                         *)
(* Last, that every step of a sync brings it nearer to its end.            *)
(***************************************************************************)
EXTENDS DesktopSync, FiniteSetTheorems, WellFoundedInduction, TLAPS

(* The record of a sync: its windows end by now, and what it has read is   *)
(* no newer than what is there.                                            *)
Fields == {"pc", "force", "ignore", "src", "left", "offered", "todo", "span",
           "ver", "batches", "tries", "fresh"}
Shaped(r) == r = [f \in Fields |-> r[f]]

Windows == {sp \in Spans \cup {NoSpan} : sp.end <= now}

Proper(r) ==
    /\ Shaped(r)
    /\ r.todo \subseteq Windows /\ r.offered \in Windows /\ r.span \in Windows
    /\ r.ver \in [Sessions -> Nat]
    /\ \A s \in Sessions : r.ver[s] <= mtime[s]

Typed ==
    /\ now \in Nat \ {0} /\ mtime \in [Sessions -> Nat]
    /\ held \in [Sessions -> Nat] /\ fate \in [Sessions -> Fate]
    /\ coverage \in [Sources -> SUBSET Nat]
    /\ sync = [c \in Clients |-> sync[c]]

InThePast ==
    /\ \A c \in Clients : Proper(sync[c])
    /\ \A s \in Sessions : held[s] <= mtime[s] /\ mtime[s] <= now
    /\ \A src \in Sources : \A t \in coverage[src] : t < now

(* Session s is posted by client c, with the server, or given up.          *)
PostedBy(r, s) ==
    /\ r.pc = "post" /\ mtime[s] \in Slots(r.span)
    /\ \E b \in r.batches : s \in b
    /\ r.ver[s] = mtime[s]

Handled(c, s) == held[s] = mtime[s] \/ GivenUp(s) \/ PostedBy(sync[c], s)

PostedIsHandled ==
    \A c \in Clients : sync[c].pc = "post" =>
        \A s \in Kept(sync[c].src) : mtime[s] \in Slots(sync[c].span) =>
            Handled(c, s)

CoveredIsHandled ==
    \A s \in Existing : mtime[s] \in coverage[Source[s]] =>
        \E c \in Clients : Handled(c, s)

IInv == Typed /\ InThePast /\ PostedIsHandled /\ CoveredIsHandled

-----------------------------------------------------------------------------
LEMMA ConstantFacts ==
    /\ Source \in [Sessions -> Sources] /\ Sources \subseteq Nat
    /\ Sessions \subseteq Nat /\ MaxTime \in Nat \ {0}
    /\ Times \subseteq Nat /\ NoSpan.start = 1 /\ NoSpan.end = 1
    /\ \A sp \in Spans \cup {NoSpan} : sp.start \in Nat /\ sp.end \in Nat
  BY SyncAssumption, TimeAssumption DEF Times, Spans, NoSpan

LEMMA SlotsEnd ==
    ASSUME NEW sp \in Spans \cup {NoSpan}, NEW t \in Slots(sp)
    PROVE  t \in Nat /\ t < sp.end /\ sp.start <= t
  BY ConstantFacts DEF Slots

(* CoveredIsHandled says what CoveredIsAccounted says, unless there is no  *)
(* client at all, when nothing is ever covered.                            *)
LEMMA HandledIsAccounted == Typed /\ CoveredIsHandled => CoveredIsAccounted
  <1> SUFFICES ASSUME Typed, CoveredIsHandled, NEW s \in Existing,
                      mtime[s] \in coverage[Source[s]]
               PROVE  held[s] = mtime[s] \/ InHand(s) \/ GivenUp(s)
    BY DEF CoveredIsAccounted
  <1>1. PICK c \in Clients : Handled(c, s)
    BY DEF CoveredIsHandled
  <1>2. CASE PostedBy(sync[c], s)
    <2>1. s \in Current(c, UNION sync[c].batches)
      BY <1>2 DEF Current, PostedBy
    <2> QED BY <1>2, <2>1 DEF InHand, PostedBy
  <1> QED BY <1>1, <1>2 DEF Handled

LEMMA IdleProper == Typed => Proper(Idle) /\ Idle.pc = "idle"
  <1> SUFFICES ASSUME Typed PROVE Proper(Idle) /\ Idle.pc = "idle"
    OBVIOUS
  <1>1. NoSpan \in Windows
    BY ConstantFacts DEF Windows, Typed
  <1>2. Shaped(Idle)
    BY DEF Shaped, Fields, Idle
  <1>3. Idle.ver \in [Sessions -> Nat] /\ \A s \in Sessions : Idle.ver[s] = 0
    BY DEF Idle, Absent
  <1>4. \A s \in Sessions : Idle.ver[s] <= mtime[s]
    BY <1>3 DEF Typed
  <1> QED BY <1>1, <1>2, <1>3, <1>4 DEF Proper, Idle

(* What a sync goes on with: idle, the next source or the next span, or    *)
(* the batches that are left.                                              *)
LEMMA NextSourceProper ==
    ASSUME Typed, NEW rec
    PROVE  Proper(NextSource(rec)) /\ NextSource(rec).pc # "post"
  <1>1. CASE rec.left = {}
    BY <1>1, IdleProper DEF NextSource
  <1>2. CASE rec.left # {}
    <2> DEFINE r == Turn(rec, Min(rec.left))
    <2>1. r = [Idle EXCEPT !.pc = "discover", !.force = rec.force,
                           !.ignore = rec.ignore, !.src = Min(rec.left),
                           !.left = rec.left \ {Min(rec.left)}]
      BY DEF Turn
    <2>2. /\ Shaped(r) /\ r.pc = "discover" /\ r.todo = Idle.todo
          /\ r.offered = Idle.offered /\ r.span = Idle.span
          /\ r.ver = Idle.ver
      BY <2>1 DEF Shaped, Fields, Idle
    <2>3. Proper(r)
      BY <2>2, IdleProper DEF Proper
    <2> QED BY <1>2, <2>2, <2>3 DEF NextSource
  <1> QED BY <1>1, <1>2

LEMMA AfterBatchProper ==
    ASSUME Typed, NEW rec, Proper(rec), NEW rest
    PROVE  /\ Proper(AfterBatch(rec, rest))
           /\ rest = {} => AfterBatch(rec, rest).pc # "post"
           /\ rest # {} => LET r == AfterBatch(rec, rest)
                           IN /\ r.pc = "post" /\ r.batches = rest
                              /\ r.ver = rec.ver /\ r.span = rec.span
                              /\ r.src = rec.src
  <1>1. CASE rest # {}
    <2> DEFINE r == Post(rec, rest)
    <2>1. /\ Shaped(r) /\ r.pc = "post" /\ r.batches = rest
          /\ r.ver = rec.ver /\ r.span = rec.span /\ r.src = rec.src
          /\ r.todo = rec.todo /\ r.offered = rec.offered
      BY DEF Post, Shaped, Fields, Proper
    <2>2. Proper(r)
      BY <2>1 DEF Proper
    <2> QED BY <1>1, <2>1, <2>2 DEF AfterBatch
  <1>2. CASE rest = {} /\ rec.todo # {}
    <2> DEFINE r == [rec EXCEPT !.pc = "capture", !.span = NoSpan,
                                !.ver = Idle.ver, !.batches = {}, !.tries = 0,
                                !.fresh = FALSE]
    <2>1. /\ Shaped(r) /\ r.pc = "capture" /\ r.ver = Idle.ver
          /\ r.span = NoSpan /\ r.todo = rec.todo /\ r.offered = rec.offered
      BY DEF Shaped, Fields, Proper
    <2>2. NoSpan \in Windows
      BY IdleProper DEF Proper, Idle
    <2>3. Proper(r)
      BY <2>1, <2>2, IdleProper DEF Proper
    <2> QED BY <1>2, <2>1, <2>3 DEF AfterBatch, NextSpan
  <1>3. CASE rest = {} /\ rec.todo = {}
    BY <1>3, NextSourceProper DEF AfterBatch, NextSpan
  <1> QED BY <1>1, <1>2, <1>3

-----------------------------------------------------------------------------
(* A step of client c's sync keeps the invariant, if it loses no session,  *)
(* handles those of the window it posts, and covers only that window.      *)
LEMMA SyncStepKeeps ==
    ASSUME IInv, NEW c \in Clients,
           sync' = [sync EXCEPT ![c] = sync'[c]], Proper(sync'[c]),
           mtime' = mtime, now' = now,
           coverage' \in [Sources -> SUBSET Nat],
           \A src \in Sources : \A t \in coverage'[src] \ coverage[src] :
               /\ sync[c].pc = "post" /\ src = sync[c].src
               /\ t \in Slots(sync[c].span),
           held' \in [Sessions -> Nat], fate' \in [Sessions -> Fate],
           \A s \in Sessions :
               /\ held'[s] <= mtime[s]
               /\ held[s] = mtime[s] => held'[s] = mtime[s]
               /\ GivenUp(s) => GivenUp(s)'
               /\ Handled(c, s) => Handled(c, s)',
           sync'[c].pc = "post" =>
               \A s \in Kept(sync'[c].src) :
                   mtime[s] \in Slots(sync'[c].span) => Handled(c, s)'
    PROVE  IInv'
  <1> USE DEF IInv
  <1>1. /\ sync' = [d \in Clients |-> IF d = c THEN sync'[c] ELSE sync[d]]
        /\ \A d \in Clients \ {c} : sync'[d] = sync[d]
    BY DEF Typed
  <1>2. Typed'
    BY <1>1 DEF Typed
  <1>3. \A d \in Clients, s \in Sessions : Handled(d, s) => Handled(d, s)'
    BY <1>1 DEF Handled, PostedBy
  <1>4. \A d \in Clients : Proper(sync[d])'
    BY <1>1 DEF InThePast, Proper, Windows
  <1>5. \A src \in Sources : \A t \in coverage'[src] : t < now
    <2> SUFFICES ASSUME NEW src \in Sources, NEW t \in coverage'[src]
                 PROVE  t < now
      OBVIOUS
    <2>1. CASE t \in coverage[src]
      BY <2>1 DEF InThePast
    <2>2. CASE t \notin coverage[src]
      <3>1. t \in Slots(sync[c].span) /\ Proper(sync[c])
        BY <2>2 DEF InThePast
      <3>2. sync[c].span \in Spans \cup {NoSpan} /\ sync[c].span.end <= now
        BY <3>1 DEF Proper, Windows
      <3>3. t \in Nat /\ t < sync[c].span.end
        BY <3>1, <3>2, SlotsEnd
      <3> QED BY <3>2, <3>3, ConstantFacts DEF Typed
    <2> QED BY <2>1, <2>2
  <1>6. InThePast'
    BY <1>4, <1>5 DEF InThePast
  <1>7. PostedIsHandled'
    <2> SUFFICES ASSUME NEW d \in Clients, sync'[d].pc = "post",
                        NEW s \in Kept(sync'[d].src),
                        mtime[s] \in Slots(sync'[d].span)
                 PROVE  Handled(d, s)'
      BY DEF PostedIsHandled, Kept, Existing
    <2>1. CASE d = c
      BY <2>1
    <2>2. CASE d # c
      <3>1. s \in Sessions /\ Handled(d, s)
        BY <1>1, <2>2 DEF PostedIsHandled, Kept, Existing
      <3> QED BY <1>3, <3>1
    <2> QED BY <2>1, <2>2
  <1>8. CoveredIsHandled'
    <2> SUFFICES ASSUME NEW s \in Existing, mtime[s] \in coverage'[Source[s]]
                 PROVE  \E d \in Clients : Handled(d, s)'
      BY DEF CoveredIsHandled, Existing
    <2>1. s \in Sessions /\ Source[s] \in Sources
      BY ConstantFacts DEF Existing
    <2>2. \E d \in Clients : Handled(d, s)
      <3>1. CASE mtime[s] \in coverage[Source[s]]
        BY <3>1 DEF CoveredIsHandled
      <3>2. CASE mtime[s] \notin coverage[Source[s]]
        BY <2>1, <3>2 DEF PostedIsHandled, Kept
      <3> QED BY <3>1, <3>2
    <2> QED BY <1>3, <2>1, <2>2
  <1> QED BY <1>2, <1>6, <1>7, <1>8

(* The same of a step that reaches no server and gives nothing up without  *)
(* recording it.                                                           *)
LEMMA LocalStepKeeps ==
    ASSUME IInv, NEW c \in Clients,
           sync' = [sync EXCEPT ![c] = sync'[c]], Proper(sync'[c]),
           UNCHANGED <<now, mtime, coverage, held>>,
           fate' \in [Sessions -> Fate],
           \A s \in Sessions :
               /\ GivenUp(s) => GivenUp(s)'
               /\ PostedBy(sync[c], s) => Handled(c, s)',
           sync'[c].pc = "post" =>
               \A s \in Kept(sync'[c].src) :
                   mtime[s] \in Slots(sync'[c].span) => Handled(c, s)'
    PROVE  IInv'
  <1>1. \A s \in Sessions : Handled(c, s) => Handled(c, s)'
    BY DEF Handled
  <1>2. /\ coverage' \in [Sources -> SUBSET Nat]
        /\ held' \in [Sessions -> Nat]
        /\ \A s \in Sessions : held'[s] <= mtime[s]
    BY DEF IInv, Typed, InThePast
  <1> QED BY <1>1, <1>2, SyncStepKeeps

(* A step of a post: the server may receive the body, and what is posted   *)
(* next is for the same window.                                            *)
LEMMA PostStepKeeps ==
    ASSUME IInv, NEW c \in Clients, sync[c].pc = "post",
           sync' = [sync EXCEPT ![c] = sync'[c]], Proper(sync'[c]),
           UNCHANGED <<now, mtime>>,
           UNCHANGED <<coverage, held>> \/ Received(c),
           fate' \in [Sessions -> Fate],
           \A s \in Sessions :
               /\ GivenUp(s) => GivenUp(s)'
               /\ PostedBy(sync[c], s) => Handled(c, s)',
           sync'[c].pc = "post" => /\ sync'[c].src = sync[c].src
                                   /\ sync'[c].span = sync[c].span
    PROVE  IInv'
  <1> USE DEF IInv
  <1> DEFINE slots == Slots(sync[c].span)
             src0 == sync[c].src
  <1>0. mtime' = mtime /\ now' = now
    OBVIOUS
  <1>1. Proper(sync[c]) /\ sync[c].span \in Spans \cup {NoSpan}
    BY DEF InThePast, Proper, Windows
  <1>2. slots \subseteq Nat
    BY <1>1, SlotsEnd
  <1>3. /\ coverage' \in [Sources -> SUBSET Nat]
        /\ \A src \in Sources : \A t \in coverage'[src] \ coverage[src] :
               src = src0 /\ t \in slots
    <2>1. CASE UNCHANGED <<coverage, held>>
      BY <2>1 DEF Typed
    <2>2. CASE Received(c)
      <3>1. coverage' = [coverage EXCEPT ![src0] = @ \cup slots]
        BY <2>2 DEF Received
      <3>2. coverage \in [Sources -> SUBSET Nat]
        BY DEF Typed
      <3> HIDE DEF slots, src0
      <3> QED BY <3>1, <3>2, <1>2
    <2> QED BY <2>1, <2>2
  <1>4. /\ held' \in [Sessions -> Nat]
        /\ \A s \in Sessions : /\ held'[s] <= mtime[s]
                               /\ held[s] = mtime[s] => held'[s] = mtime[s]
    <2>1. CASE UNCHANGED <<coverage, held>>
      BY <2>1 DEF Typed, InThePast
    <2>2. CASE Received(c)
      <3>1. \A s \in Sessions : held'[s] \in {held[s], sync[c].ver[s]}
        BY <2>2 DEF Received
      <3>2. \A s \in Sessions : held[s] >= sync[c].ver[s] \/ held'[s] \in Nat
        BY <3>1, <1>1 DEF Proper, Typed
      <3>3. \A s \in Sessions : held'[s] >= held[s]
        BY <2>2, <1>1 DEF Received, Proper, Typed
      <3>4. held' = [s \in Sessions |-> held'[s]]
        BY <2>2 DEF Received
      <3>5. \A s \in Sessions :
               /\ held'[s] \in Nat /\ mtime[s] \in Nat /\ held[s] \in Nat
               /\ held'[s] <= mtime[s]
        BY <3>1, <1>1 DEF Proper, Typed, InThePast
      <3> QED BY <3>3, <3>4, <3>5
    <2> QED BY <2>1, <2>2
  <1>5. ASSUME NEW s \in Sessions, Handled(c, s)
        PROVE  Handled(c, s)'
    <2>1. CASE held[s] = mtime[s]
      <3>1. held'[s] = mtime'[s]
        BY <1>0, <1>4, <2>1
      <3> QED BY <3>1 DEF Handled
    <2>2. CASE GivenUp(s)
      BY <2>2 DEF Handled
    <2>3. CASE PostedBy(sync[c], s)
      BY <2>3
    <2> QED BY <1>5, <2>1, <2>2, <2>3 DEF Handled
  <1>6. sync'[c].pc = "post" =>
            \A s \in Kept(sync'[c].src) :
                mtime[s] \in Slots(sync'[c].span) => Handled(c, s)'
    BY <1>5 DEF PostedIsHandled, Kept, Existing
  <1>7. \A src \in Sources : \A t \in coverage'[src] \ coverage[src] :
            /\ sync[c].pc = "post" /\ src = sync[c].src
            /\ t \in Slots(sync[c].span)
    BY <1>3
  <1>8. \A s \in Sessions :
            /\ held'[s] <= mtime[s]
            /\ held[s] = mtime[s] => held'[s] = mtime[s]
            /\ GivenUp(s) => GivenUp(s)'
            /\ Handled(c, s) => Handled(c, s)'
    <2> SUFFICES ASSUME NEW s \in Sessions
                 PROVE  /\ held'[s] <= mtime[s]
                        /\ held[s] = mtime[s] => held'[s] = mtime[s]
                        /\ GivenUp(s) => GivenUp(s)'
                        /\ Handled(c, s) => Handled(c, s)'
      OBVIOUS
    <2>1. Handled(c, s) => Handled(c, s)'
      BY <1>5
    <2>2. held'[s] <= mtime[s] /\ (held[s] = mtime[s] => held'[s] = mtime[s])
      BY <1>4
    <2> QED BY <2>1, <2>2
  <1>9. coverage' \in [Sources -> SUBSET Nat] /\ held' \in [Sessions -> Nat]
    BY <1>3, <1>4
  <1> HIDE DEF IInv
  <1> QED BY <1>6, <1>7, <1>8, <1>9, <1>0, SyncStepKeeps

-----------------------------------------------------------------------------
LEMMA InitIInv == Init => IInv
  <1> SUFFICES ASSUME Init PROVE IInv
    OBVIOUS
  <1>1. Typed
    BY ConstantFacts DEF Init, Typed, Fate, Absent
  <1>2. \A c \in Clients : sync[c] = Idle
    BY DEF Init
  <1>3. InThePast
    BY <1>1, <1>2, IdleProper, ConstantFacts DEF Init, InThePast, Absent
  <1>4. \A c \in Clients : sync[c].pc = "idle"
    BY <1>2 DEF Idle
  <1>5. \A src \in Sources : coverage[src] = {}
    BY DEF Init
  <1>6. PostedIsHandled
    BY <1>4 DEF PostedIsHandled
  <1>7. CoveredIsHandled
    BY <1>5, ConstantFacts DEF CoveredIsHandled, Existing
  <1> QED BY <1>1, <1>3, <1>6, <1>7 DEF IInv

LEMMA StartKeeps ==
    ASSUME IInv, NEW c \in Clients, NEW force, NEW selected, NEW ignore,
           StartSync(c, force, selected, ignore)
    PROVE  IInv'
  <1>1. PICK rec : rec = [Idle EXCEPT !.force = force, !.left = selected,
                                      !.ignore = ignore]
    OBVIOUS
  <1>2. sync' = [sync EXCEPT ![c] = NextSource(rec)] /\ Typed
    BY <1>1 DEF StartSync, IInv
  <1>3. sync'[c] = NextSource(rec)
    BY <1>2 DEF Typed
  <1>4. Proper(sync'[c]) /\ sync'[c].pc # "post"
    BY <1>2, <1>3, NextSourceProper
  <1>5. sync' = [sync EXCEPT ![c] = sync'[c]]
    BY <1>2, <1>3
  <1>6. /\ UNCHANGED <<now, mtime, coverage, held, fate>>
        /\ sync[c].pc = "idle"
    BY DEF StartSync
  <1> QED BY <1>2, <1>4, <1>5, <1>6, LocalStepKeeps
          DEF PostedBy, GivenUp, Typed

LEMMA DiscoverKeeps ==
    ASSUME IInv, NEW c \in Clients, Discover(c)
    PROVE  IInv'
  <1>1. /\ sync[c].pc = "discover" /\ Typed /\ Proper(sync[c])
        /\ UNCHANGED <<now, mtime, coverage, held, fate>>
    BY DEF Discover, IInv, InThePast
  <1>2. PICK rec : rec = sync[c]
    OBVIOUS
  <1>3. CASE sync' = [sync EXCEPT ![c] = NextSource(@)]
    <2>1. sync'[c] = NextSource(rec)
      BY <1>1, <1>2, <1>3 DEF Typed
    <2>2. Proper(sync'[c]) /\ sync'[c].pc # "post"
      BY <1>1, <2>1, NextSourceProper
    <2>3. sync' = [sync EXCEPT ![c] = sync'[c]]
      BY <1>2, <1>3, <2>1
    <2> QED BY <1>1, <2>2, <2>3, LocalStepKeeps DEF PostedBy, GivenUp, Typed
  <1>4. ASSUME NEW sp \in Available(c, sync[c].src),
               sync' = [sync EXCEPT ![c] =
                    IF @.force THEN [@ EXCEPT !.pc = "capture", !.todo = {sp}]
                    ELSE [@ EXCEPT !.pc = "plan", !.offered = sp]]
        PROVE  IInv'
    <2>1. sp \in Windows
      BY <1>1, ConstantFacts DEF Available, Windows, Typed
    <2>2. sync'[c] = IF rec.force
                     THEN [rec EXCEPT !.pc = "capture", !.todo = {sp}]
                     ELSE [rec EXCEPT !.pc = "plan", !.offered = sp]
      BY <1>1, <1>2, <1>4 DEF Typed
    <2>3. /\ Shaped(sync'[c]) /\ sync'[c].pc # "post"
          /\ sync'[c].todo \in {rec.todo, {sp}}
          /\ sync'[c].offered \in {rec.offered, sp}
          /\ sync'[c].span = rec.span /\ sync'[c].ver = rec.ver
      BY <1>1, <1>2, <2>2 DEF Proper, Shaped, Fields
    <2>4. Proper(sync'[c])
      BY <1>1, <1>2, <2>1, <2>3 DEF Proper
    <2>5. sync' = [sync EXCEPT ![c] = sync'[c]]
      BY <1>2, <1>4, <2>2
    <2> QED BY <1>1, <2>3, <2>4, <2>5, LocalStepKeeps
            DEF PostedBy, GivenUp, Typed
  <1> QED BY <1>3, <1>4 DEF Discover

LEMMA NeededInThePast ==
    ASSUME Typed, NEW offered \in Windows, NEW covered
    PROVE  Needed(offered, covered) \subseteq Windows
  <1> SUFFICES ASSUME NEW sp \in Needed(offered, covered)
               PROVE  sp \in Spans /\ sp.end <= now
    BY DEF Windows
  <1>1. /\ sp \in Spans /\ Slots(sp) \subseteq Slots(offered)
        /\ sp.start \in Nat /\ sp.end \in Nat /\ sp.start < sp.end
    BY ConstantFacts DEF Needed, Spans
  <1>2. sp.end - 1 \in Slots(sp)
    BY <1>1 DEF Slots
  <1>3. /\ sp.end - 1 < offered.end /\ offered.end <= now
        /\ offered.end \in Nat
    BY <1>1, <1>2, SlotsEnd, ConstantFacts DEF Windows
  <1> QED BY <1>1, <1>3 DEF Typed

LEMMA PlanKeeps ==
    ASSUME IInv, NEW c \in Clients, Plan(c)
    PROVE  IInv'
  <1>1. /\ sync[c].pc = "plan" /\ Typed /\ Proper(sync[c])
        /\ UNCHANGED <<now, mtime, coverage, held, fate>>
    BY DEF Plan, IInv, InThePast
  <1>2. PICK rec : rec = sync[c]
    OBVIOUS
  <1>3. PICK needed : needed = Needed(sync[c].offered, coverage[sync[c].src])
    OBVIOUS
  <1>4. needed \subseteq Windows
    <2>1. sync[c].offered \in Windows
      BY <1>1 DEF Proper
    <2>2. PICK o \in Windows : o = sync[c].offered
      BY <2>1
    <2>3. PICK covered : covered = coverage[sync[c].src]
      OBVIOUS
    <2> QED BY <1>1, <1>3, <2>2, <2>3, NeededInThePast
  <1>5. sync' = [sync EXCEPT ![c] =
                    IF needed = {} THEN NextSource(rec)
                    ELSE [rec EXCEPT !.pc = "capture", !.todo = needed,
                                     !.offered = NoSpan]]
    BY <1>2, <1>3 DEF Plan
  <1>6. sync'[c] = IF needed = {} THEN NextSource(rec)
                   ELSE [rec EXCEPT !.pc = "capture", !.todo = needed,
                                    !.offered = NoSpan]
    BY <1>1, <1>5 DEF Typed
  <1>7. Proper(sync'[c]) /\ sync'[c].pc # "post"
    <2>1. CASE needed = {}
      BY <1>1, <1>6, <2>1, NextSourceProper
    <2>2. CASE needed # {}
      <3>1. /\ Shaped(sync'[c]) /\ sync'[c].pc = "capture"
            /\ sync'[c].todo = needed /\ sync'[c].offered = NoSpan
            /\ sync'[c].span = rec.span /\ sync'[c].ver = rec.ver
        BY <1>1, <1>2, <1>6, <2>2 DEF Proper, Shaped, Fields
      <3>2. NoSpan \in Windows
        BY <1>1, IdleProper DEF Proper, Idle
      <3> QED BY <1>1, <1>2, <1>4, <3>1, <3>2 DEF Proper
    <2> QED BY <2>1, <2>2
  <1>8. sync' = [sync EXCEPT ![c] = sync'[c]]
    BY <1>5, <1>6
  <1> QED BY <1>1, <1>7, <1>8, LocalStepKeeps DEF PostedBy, GivenUp, Typed

LEMMA PlanFailsKeeps ==
    ASSUME IInv, NEW c \in Clients, PlanFails(c)
    PROVE  IInv'
  <1>1. /\ sync[c].pc # "post" /\ Typed
        /\ sync' = [sync EXCEPT ![c] = Idle]
        /\ UNCHANGED <<now, mtime, coverage, held, fate>>
    BY DEF PlanFails, IInv
  <1>2. sync'[c] = Idle
    BY <1>1 DEF Typed
  <1>3. Proper(sync'[c]) /\ sync'[c].pc # "post"
    BY <1>1, <1>2, IdleProper
  <1>4. sync' = [sync EXCEPT ![c] = sync'[c]]
    BY <1>1, <1>2
  <1> QED BY <1>1, <1>3, <1>4, LocalStepKeeps DEF PostedBy, GivenUp, Typed

(* What a capture reads is in a body or too large; what it does not read   *)
(* of the window is given up.                                              *)
LEMMA CaptureKeeps ==
    ASSUME IInv, NEW c \in Clients, NEW sp \in sync[c].todo,
           NEW read \in SUBSET Sessions, Capture(c, sp, read)
    PROVE  IInv'
  <1>1. /\ sync[c].pc = "capture" /\ Typed /\ Proper(sync[c])
        /\ read \subseteq Captured(sync[c].src, sp, sync[c].ignore)
        /\ UNCHANGED <<now, mtime, coverage, held>>
    BY DEF Capture, IInv, InThePast
  <1>2. PICK batches : batches = Bodies(read)
    OBVIOUS
  <1>3. PICK rec : rec = [sync[c] EXCEPT
                            !.span = sp, !.todo = sync[c].todo \ {sp},
                            !.ver = [s \in Sessions |->
                                IF s \in read THEN mtime[s] ELSE Absent]]
    OBVIOUS
  <1>4. sync' = [sync EXCEPT ![c] = AfterBatch(rec, batches)]
    BY <1>2, <1>3 DEF Capture
  <1>5. fate' = [s \in Sessions |->
             IF s \in read \ UNION batches THEN "too large"
             ELSE IF s \in Kept(sync[c].src) \ read /\ mtime[s] \in Slots(sp)
             THEN IF s \in sync[c].ignore THEN "ignored" ELSE "unread"
             ELSE fate[s]]
    BY <1>2 DEF Capture
  <1>6. /\ Shaped(rec) /\ rec.span = sp /\ rec.src = sync[c].src
        /\ rec.todo = sync[c].todo \ {sp} /\ rec.offered = sync[c].offered
        /\ rec.ver = [s \in Sessions |->
                         IF s \in read THEN mtime[s] ELSE Absent]
    BY <1>1, <1>3 DEF Proper, Shaped, Fields
  <1>7. Proper(rec)
    <2>1. rec.ver \in [Sessions -> Nat]
      BY <1>1, <1>6 DEF Typed, Absent
    <2>2. \A s \in Sessions : rec.ver[s] <= mtime[s]
      BY <1>1, <1>6 DEF Typed, Absent
    <2>3. sp \in Windows
      BY <1>1 DEF Proper
    <2> QED BY <1>1, <1>6, <2>1, <2>2, <2>3 DEF Proper
  <1>8. sync'[c] = AfterBatch(rec, batches)
    BY <1>1, <1>4 DEF Typed
  <1>9. /\ Proper(sync'[c])
        /\ sync'[c].pc = "post" =>
              /\ sync'[c].batches = batches /\ sync'[c].ver = rec.ver
              /\ sync'[c].span = sp /\ sync'[c].src = sync[c].src
    BY <1>1, <1>6, <1>7, <1>8, AfterBatchProper
  <1>10. fate' \in [Sessions -> Fate]
    BY <1>1, <1>5 DEF Typed, Fate
  <1>11. \A s \in Sessions : GivenUp(s) => GivenUp(s)'
    BY <1>5 DEF GivenUp
  <1>12. ASSUME sync'[c].pc = "post", NEW s \in Kept(sync'[c].src),
                mtime[s] \in Slots(sync'[c].span)
         PROVE  Handled(c, s)'
    <2>1. s \in Sessions /\ s \in Kept(sync[c].src) /\ mtime[s] \in Slots(sp)
      BY <1>9, <1>12 DEF Kept, Existing
    <2>2. CASE s \in read /\ \E b \in batches : s \in b
      <3>1. rec.ver[s] = mtime[s]
        BY <1>6, <2>1, <2>2
      <3>2. PostedBy(sync[c], s)'
        BY <1>1, <1>9, <1>12, <2>1, <2>2, <3>1 DEF PostedBy
      <3> QED BY <3>2 DEF Handled
    <2>3. CASE s \in read /\ ~\E b \in batches : s \in b
      <3>1. fate'[s] = "too large"
        BY <1>5, <2>1, <2>3
      <3> QED BY <3>1 DEF Handled, GivenUp
    <2>4. CASE s \notin read
      <3>1. fate'[s] \in {"ignored", "unread"}
        BY <1>5, <2>1, <2>4
      <3> QED BY <3>1 DEF Handled, GivenUp
    <2> QED BY <2>2, <2>3, <2>4
  <1>13. sync' = [sync EXCEPT ![c] = sync'[c]]
    BY <1>4, <1>8
  <1>14. \A s \in Sessions : ~PostedBy(sync[c], s)
    BY <1>1 DEF PostedBy
  <1> QED BY <1>1, <1>9, <1>10, <1>11, <1>12, <1>13, <1>14, LocalStepKeeps

-----------------------------------------------------------------------------
(* What a sync has in hand when it fails or is killed is given up.         *)
LEMMA GivesUpKeeps ==
    ASSUME IInv, NEW c \in Clients, sync[c].pc = "post",
           UNCHANGED <<now, mtime>>,
           UNCHANGED <<coverage, held>> \/ Received(c),
           sync' = [sync EXCEPT ![c] = Idle], NEW f \in Fate \ {"none"},
           fate' = Became(f, Current(c, UNION sync[c].batches))
    PROVE  IInv'
  <1>1. Typed /\ sync'[c] = Idle
    BY DEF IInv, Typed
  <1>2. Proper(sync'[c]) /\ sync'[c].pc # "post"
    BY <1>1, IdleProper
  <1>3. sync' = [sync EXCEPT ![c] = sync'[c]]
    BY <1>1
  <1>4. /\ fate' \in [Sessions -> Fate]
        /\ \A s \in Sessions : GivenUp(s) => GivenUp(s)'
    BY <1>1 DEF Typed, Became, GivenUp, Fate
  <1>5. ASSUME NEW s \in Sessions, PostedBy(sync[c], s)
        PROVE  Handled(c, s)'
    <2>1. s \in Current(c, UNION sync[c].batches)
      BY <1>5 DEF PostedBy, Current
    <2>2. fate'[s] # "none"
      BY <2>1 DEF Became, Fate
    <2> QED BY <2>2 DEF Handled, GivenUp
  <1> QED BY <1>2, <1>3, <1>4, <1>5, PostStepKeeps

(* The same body again, with a prompt after a 401 or after a failure.      *)
LEMMA AgainKeeps ==
    ASSUME IInv, NEW c \in Clients, sync[c].pc = "post",
           UNCHANGED <<now, mtime>>, fate' = fate,
           UNCHANGED <<coverage, held>> \/ Received(c),
           sync' = [sync EXCEPT ![c] = sync'[c]],
           Shaped(sync'[c]),
           \A f \in Fields \ {"tries", "fresh"} : sync'[c][f] = sync[c][f]
    PROVE  IInv'
  <1>1. Typed /\ Proper(sync[c])
    BY DEF IInv, InThePast
  <1>2. /\ sync'[c].pc = "post"
        /\ sync'[c].todo = sync[c].todo /\ sync'[c].offered = sync[c].offered
        /\ sync'[c].span = sync[c].span /\ sync'[c].ver = sync[c].ver
        /\ sync'[c].src = sync[c].src /\ sync'[c].batches = sync[c].batches
    BY DEF Fields
  <1>3. Proper(sync'[c])
    BY <1>1, <1>2 DEF Proper
  <1>4. /\ fate' \in [Sessions -> Fate]
        /\ \A s \in Sessions : GivenUp(s) => GivenUp(s)'
    BY <1>1 DEF Typed, GivenUp
  <1>5. ASSUME NEW s \in Sessions, PostedBy(sync[c], s)
        PROVE  Handled(c, s)'
    <2>1. PostedBy(sync[c], s)'
      BY <1>2, <1>5 DEF PostedBy
    <2> QED BY <2>1 DEF Handled
  <1> QED BY <1>2, <1>3, <1>4, <1>5, PostStepKeeps

LEMMA RetryKeeps ==
    ASSUME IInv, NEW c \in Clients, sync[c].pc = "post", Retry(c),
           UNCHANGED <<now, mtime>>,
           UNCHANGED <<coverage, held>> \/ Received(c)
    PROVE  IInv'
  <1>1. Typed /\ Shaped(sync[c])
    BY DEF IInv, InThePast, Proper
  <1>2. CASE sync' = [sync EXCEPT ![c].tries = @ + 1] /\ UNCHANGED fate
    <2>1. PICK tries : tries = sync[c].tries + 1
      OBVIOUS
    <2>2. sync'[c] = [sync[c] EXCEPT !.tries = tries]
      BY <1>1, <1>2, <2>1 DEF Typed
    <2>3. Shaped(sync'[c])
      BY <1>1, <2>2 DEF Shaped, Fields
    <2>4. \A f \in Fields \ {"tries", "fresh"} : sync'[c][f] = sync[c][f]
      BY <1>1, <2>2 DEF Shaped, Fields
    <2>5. sync' = [sync EXCEPT ![c] = sync'[c]]
      BY <1>2, <2>1, <2>2
    <2>6. fate' = fate
      BY <1>2
    <2> QED BY <2>3, <2>4, <2>5, <2>6, AgainKeeps
  <1>3. CASE Fail(c)
    BY <1>3, GivesUpKeeps DEF Fail, Fate
  <1> QED BY <1>2, <1>3 DEF Retry

LEMMA AnswerLostKeeps ==
    ASSUME IInv, NEW c \in Clients, AnswerLost(c)
    PROVE  IInv'
  BY RetryKeeps DEF AnswerLost, Received

LEMMA NotDeliveredKeeps ==
    ASSUME IInv, NEW c \in Clients, NotDelivered(c)
    PROVE  IInv'
  BY RetryKeeps DEF NotDelivered

LEMMA UnauthorizedKeeps ==
    ASSUME IInv, NEW c \in Clients, Unauthorized(c)
    PROVE  IInv'
  <1>1. /\ sync[c].pc = "post" /\ Typed /\ Shaped(sync[c])
        /\ UNCHANGED <<now, mtime>> /\ UNCHANGED <<coverage, held>>
    BY DEF Unauthorized, IInv, InThePast, Proper
  <1>2. CASE /\ sync' = [sync EXCEPT ![c] = [@ EXCEPT !.fresh = TRUE,
                                                      !.tries = 0]]
             /\ UNCHANGED fate
    <2>1. sync'[c] = [sync[c] EXCEPT !.fresh = TRUE, !.tries = 0]
      BY <1>1, <1>2 DEF Typed
    <2>2. Shaped(sync'[c])
      BY <1>1, <2>1 DEF Shaped, Fields
    <2>3. \A f \in Fields \ {"tries", "fresh"} : sync'[c][f] = sync[c][f]
      BY <1>1, <2>1 DEF Shaped, Fields
    <2>4. sync' = [sync EXCEPT ![c] = sync'[c]]
      BY <1>2, <2>1
    <2>5. fate' = fate
      BY <1>2
    <2> QED BY <1>1, <2>2, <2>3, <2>4, <2>5, AgainKeeps
  <1>3. CASE Fail(c)
    BY <1>1, <1>3, GivesUpKeeps DEF Fail, Fate
  <1> QED BY <1>1, <1>2, <1>3 DEF Unauthorized

(* A batch is posted: what it held is with the server, what is left is     *)
(* still posted for the same window.                                       *)
LEMMA PostedKeeps ==
    ASSUME IInv, NEW c \in Clients, Posted(c)
    PROVE  IInv'
  <1>1. /\ sync[c].pc = "post" /\ Typed /\ Proper(sync[c])
        /\ UNCHANGED <<now, mtime>> /\ Received(c) /\ fate' = fate
    BY DEF Posted, Received, IInv, InThePast
  <1>2. PICK rec : rec = sync[c]
    OBVIOUS
  <1>3. PICK rest : rest = sync[c].batches \ {Body(c)}
    OBVIOUS
  <1>4. sync' = [sync EXCEPT ![c] = AfterBatch(rec, rest)]
    BY <1>2, <1>3 DEF Posted
  <1>5. sync'[c] = AfterBatch(rec, rest)
    BY <1>1, <1>4 DEF Typed
  <1>6. sync' = [sync EXCEPT ![c] = sync'[c]]
    BY <1>4, <1>5
  <1>7. /\ Proper(sync'[c])
        /\ rest # {} => /\ sync'[c].pc = "post" /\ sync'[c].batches = rest
                        /\ sync'[c].ver = rec.ver /\ sync'[c].span = rec.span
                        /\ sync'[c].src = rec.src
        /\ rest = {} => sync'[c].pc # "post"
    BY <1>1, <1>2, <1>5, AfterBatchProper
  <1>8. sync'[c].pc = "post" => /\ sync'[c].src = sync[c].src
                                /\ sync'[c].span = sync[c].span
    BY <1>2, <1>7
  <1>9. ASSUME NEW s \in Sessions, PostedBy(sync[c], s)
        PROVE  Handled(c, s)'
    <2>1. PICK b \in sync[c].batches : s \in b
      BY <1>9 DEF PostedBy
    <2>2. CASE b = Body(c)
      <3>1. held'[s] = IF sync[c].ver[s] > held[s] THEN sync[c].ver[s]
                       ELSE held[s]
        BY <1>1, <2>1, <2>2 DEF Received
      <3>2. /\ sync[c].ver[s] = mtime[s] /\ held[s] <= mtime[s]
            /\ held[s] \in Nat /\ mtime[s] \in Nat
        BY <1>1, <1>9 DEF PostedBy, IInv, InThePast, Typed
      <3>3. held'[s] = mtime[s]
        BY <3>1, <3>2
      <3>4. held'[s] = mtime'[s]
        BY <1>1, <3>3
      <3> QED BY <3>4 DEF Handled
    <2>3. CASE b # Body(c)
      <3>1. b \in rest
        BY <1>3, <2>1, <2>3
      <3>2. PostedBy(sync[c], s)'
        BY <1>1, <1>2, <1>7, <1>9, <2>1, <3>1 DEF PostedBy
      <3> QED BY <3>2 DEF Handled
    <2> QED BY <2>2, <2>3
  <1>10. /\ fate' \in [Sessions -> Fate]
         /\ \A s \in Sessions : GivenUp(s) => GivenUp(s)'
    BY <1>1 DEF Typed, GivenUp
  <1> QED BY <1>1, <1>6, <1>7, <1>8, <1>9, <1>10, PostStepKeeps

(* 413: what the pieces leave out of the body is too large.                *)
LEMMA TooLargeKeeps ==
    ASSUME IInv, NEW c \in Clients, TooLarge(c)
    PROVE  IInv'
  <1>1. /\ sync[c].pc = "post" /\ Typed /\ Proper(sync[c])
        /\ UNCHANGED <<now, mtime>> /\ UNCHANGED <<coverage, held>>
    BY DEF TooLarge, IInv, InThePast
  <1>2. PICK rec : rec = sync[c]
    OBVIOUS
  <1>3. PICK body : body = Body(c)
    OBVIOUS
  <1>4. PICK pieces : pieces = IF Cardinality(body) = 1 THEN {}
                               ELSE Split(body, ResplitCap(body))
    OBVIOUS
  <1>5. PICK rest : rest = (sync[c].batches \ {body}) \cup pieces
    OBVIOUS
  <1>6. sync' = [sync EXCEPT ![c] = AfterBatch(rec, rest)]
    BY <1>2, <1>3, <1>4, <1>5 DEF TooLarge
  <1>7. sync'[c] = AfterBatch(rec, rest)
    BY <1>1, <1>6 DEF Typed
  <1>8. sync' = [sync EXCEPT ![c] = sync'[c]]
    BY <1>6, <1>7
  <1>9. /\ Proper(sync'[c])
        /\ rest # {} => /\ sync'[c].pc = "post" /\ sync'[c].batches = rest
                        /\ sync'[c].ver = rec.ver /\ sync'[c].span = rec.span
                        /\ sync'[c].src = rec.src
        /\ rest = {} => sync'[c].pc # "post"
    BY <1>1, <1>2, <1>7, AfterBatchProper
  <1>10. sync'[c].pc = "post" => /\ sync'[c].src = sync[c].src
                                 /\ sync'[c].span = sync[c].span
    BY <1>2, <1>9
  <1>11. fate' = Became("too large", Current(c, body \ UNION pieces))
    BY <1>3, <1>4 DEF TooLarge
  <1>12. /\ fate' \in [Sessions -> Fate]
         /\ \A s \in Sessions : GivenUp(s) => GivenUp(s)'
    BY <1>1, <1>11 DEF Typed, Became, GivenUp, Fate
  <1>13. ASSUME NEW s \in Sessions, PostedBy(sync[c], s)
         PROVE  Handled(c, s)'
    <2>1. PICK b \in sync[c].batches : s \in b
      BY <1>13 DEF PostedBy
    <2>2. CASE \E q \in rest : s \in q
      <3>1. PostedBy(sync[c], s)'
        BY <1>1, <1>2, <1>9, <1>13, <2>2 DEF PostedBy
      <3> QED BY <3>1 DEF Handled
    <2>3. CASE ~\E q \in rest : s \in q
      <3>1. b = body /\ s \in body \ UNION pieces
        BY <1>5, <2>1, <2>3
      <3>2. s \in Current(c, body \ UNION pieces)
        BY <1>13, <3>1 DEF Current, PostedBy
      <3>3. fate'[s] = "too large"
        BY <1>11, <3>2 DEF Became
      <3> QED BY <3>3 DEF Handled, GivenUp
    <2> QED BY <2>2, <2>3
  <1> QED BY <1>1, <1>8, <1>9, <1>10, <1>12, <1>13, PostStepKeeps

LEMMA KilledKeeps ==
    ASSUME IInv, NEW c \in Clients, Killed(c)
    PROVE  IInv'
  <1>1. /\ UNCHANGED <<now, mtime>> /\ UNCHANGED <<coverage, held>>
        /\ sync' = [sync EXCEPT ![c] = Idle] /\ Typed
        /\ fate' = Became("cut off", Current(c, UNION sync[c].batches))
    BY DEF Killed, IInv
  <1>2. CASE sync[c].pc = "post"
    BY <1>1, <1>2, GivesUpKeeps DEF Fate
  <1>3. CASE sync[c].pc # "post"
    <2>1. sync'[c] = Idle
      BY <1>1 DEF Typed
    <2>2. Proper(sync'[c]) /\ sync'[c].pc # "post"
      BY <1>1, <2>1, IdleProper
    <2>3. sync' = [sync EXCEPT ![c] = sync'[c]]
      BY <1>1, <2>1
    <2>4. /\ fate' \in [Sessions -> Fate]
          /\ \A s \in Sessions : GivenUp(s) => GivenUp(s)'
      BY <1>1 DEF Typed, Became, GivenUp, Fate
    <2>5. \A s \in Sessions : ~PostedBy(sync[c], s)
      BY <1>3 DEF PostedBy
    <2> QED BY <1>1, <2>2, <2>3, <2>4, <2>5, LocalStepKeeps
  <1> QED BY <1>2, <1>3

-----------------------------------------------------------------------------
(* A session that is written now is in no window that is in use, and in no *)
(* slot that is covered: they all lie in the past.                         *)
LEMMA WriteKeeps ==
    ASSUME IInv, NEW s \in Sessions, Write(s)
    PROVE  IInv'
  <1>1. /\ UNCHANGED <<now, coverage, held, sync>> /\ Typed /\ InThePast
        /\ mtime' = [mtime EXCEPT ![s] = now]
        /\ fate' = [fate EXCEPT ![s] = "none"]
    BY DEF Write, IInv
  <1>2. /\ now \in Nat /\ mtime' \in [Sessions -> Nat] /\ mtime'[s] = now
        /\ \A t \in Sessions : /\ mtime[t] \in Nat /\ mtime'[t] \in Nat
                               /\ mtime[t] <= mtime'[t] /\ mtime'[t] <= now
        /\ \A t \in Sessions \ {s} : mtime'[t] = mtime[t] /\ fate'[t] = fate[t]
    BY <1>1 DEF Typed, InThePast
  <1>3. Typed'
    BY <1>1, <1>2 DEF Typed, Fate
  <1>4. \A c \in Clients : Proper(sync[c])'
    <2> SUFFICES ASSUME NEW c \in Clients PROVE Proper(sync[c])'
      OBVIOUS
    <2>1. Proper(sync[c])
      BY <1>1 DEF InThePast
    <2>2. \A t \in Sessions : sync[c].ver[t] \in Nat
      BY <2>1 DEF Proper
    <2>3. \A t \in Sessions : sync[c].ver[t] <= mtime'[t]
      BY <1>2, <2>1, <2>2 DEF Proper
    <2> QED BY <1>1, <2>1, <2>3 DEF Proper, Windows
  <1>5. \A t \in Sessions : held[t] <= mtime'[t] /\ mtime'[t] <= now
    <2>1. \A t \in Sessions : held[t] \in Nat /\ held[t] <= mtime[t]
      BY <1>1 DEF Typed, InThePast
    <2> QED BY <1>2, <2>1
  <1>6. InThePast'
    BY <1>1, <1>4, <1>5 DEF InThePast
  <1>7. ASSUME NEW c \in Clients, NEW t \in Sessions \ {s}, Handled(c, t)
        PROVE  Handled(c, t)'
    <2>1. CASE GivenUp(t)
      BY <1>2, <2>1 DEF Handled, GivenUp
    <2>2. CASE held[t] = mtime[t]
      <3>1. held'[t] = mtime'[t]
        BY <1>1, <1>2, <2>2
      <3> QED BY <3>1 DEF Handled
    <2>3. CASE PostedBy(sync[c], t)
      <3>1. PostedBy(sync[c], t)'
        BY <1>1, <1>2, <2>3 DEF PostedBy
      <3> QED BY <3>1 DEF Handled
    <2> QED BY <1>7, <2>1, <2>2, <2>3 DEF Handled
  <1>8. PostedIsHandled'
    <2> SUFFICES ASSUME NEW c \in Clients, sync[c].pc = "post",
                        NEW t \in Sessions, t \in Kept(sync[c].src)',
                        mtime'[t] \in Slots(sync[c].span)
                 PROVE  Handled(c, t)'
      BY <1>1 DEF PostedIsHandled, Kept, Existing
    <2>1. /\ sync[c].span \in Spans \cup {NoSpan} /\ sync[c].span.end <= now
          /\ sync[c].span.end \in Nat
      BY <1>1, ConstantFacts DEF InThePast, Proper, Windows
    <2>2. mtime'[t] < sync[c].span.end /\ mtime'[t] \in Nat
      BY <2>1, SlotsEnd
    <2>3. t # s
      BY <1>2, <2>1, <2>2
    <2>4. mtime'[t] = mtime[t] /\ t \in Kept(sync[c].src)
      BY <1>1, <1>2, <2>3 DEF Kept, Existing
    <2>5. Handled(c, t)
      BY <2>4 DEF IInv, PostedIsHandled
    <2> QED BY <1>7, <2>3, <2>5
  <1>9. CoveredIsHandled'
    <2> SUFFICES ASSUME NEW t \in Sessions, t \in Existing',
                        mtime'[t] \in coverage[Source[t]]
                 PROVE  \E c \in Clients : Handled(c, t)'
      BY <1>1 DEF CoveredIsHandled, Existing
    <2>1. mtime'[t] < now
      BY <1>1, ConstantFacts DEF InThePast
    <2>2. t # s
      BY <1>2, <2>1
    <2>3. \E c \in Clients : Handled(c, t)
      BY <1>2, <2>2 DEF IInv, CoveredIsHandled, Existing
    <2> QED BY <1>7, <2>2, <2>3
  <1> QED BY <1>3, <1>6, <1>8, <1>9 DEF IInv

(* The clock only moves away from the windows in use.                      *)
LEMMA TickKeeps == IInv /\ Tick => IInv'
  <1> SUFFICES ASSUME IInv, Tick PROVE IInv'
    OBVIOUS
  <1>1. /\ now' = now + 1 /\ Typed /\ InThePast
        /\ UNCHANGED <<mtime, coverage, held, fate, sync>>
    BY DEF Tick, IInv
  <1>2. Typed'
    BY <1>1 DEF Typed
  <1>3. \A c \in Clients : Proper(sync[c])'
    <2>1. Windows \subseteq Windows'
      BY <1>1, ConstantFacts DEF Windows, Typed
    <2> QED BY <1>1, <2>1 DEF InThePast, Proper
  <1>4. /\ \A s \in Sessions : held'[s] <= mtime'[s] /\ mtime'[s] <= now'
        /\ \A src \in Sources : \A t \in coverage'[src] : t < now'
    BY <1>1 DEF InThePast, Typed
  <1>5. InThePast'
    BY <1>3, <1>4 DEF InThePast
  <1>6. \A c \in Clients, s \in Sessions : Handled(c, s)' <=> Handled(c, s)
    BY <1>1 DEF Handled, PostedBy, GivenUp
  <1>7. PostedIsHandled'
    BY <1>1, <1>6 DEF IInv, PostedIsHandled, Kept, Existing
  <1>8. CoveredIsHandled'
    BY <1>1, <1>6 DEF IInv, CoveredIsHandled, Existing
  <1> QED BY <1>2, <1>5, <1>7, <1>8 DEF IInv

LEMMA StutterKeeps == IInv /\ UNCHANGED vars => IInv'
  <1> SUFFICES ASSUME IInv, UNCHANGED vars PROVE IInv'
    OBVIOUS
  <1>1. UNCHANGED <<now, mtime, coverage, held, fate, sync>>
    BY DEF vars
  <1>2. Typed' /\ InThePast'
    BY <1>1 DEF IInv, Typed, InThePast, Proper, Windows
  <1>3. PostedIsHandled' /\ CoveredIsHandled'
    BY <1>1 DEF IInv, PostedIsHandled, CoveredIsHandled, Handled, PostedBy,
                GivenUp, Kept, Existing
  <1> QED BY <1>2, <1>3 DEF IInv

LEMMA NextKeeps == IInv /\ [Next]_vars => IInv'
  <1> SUFFICES ASSUME IInv, [Next]_vars PROVE IInv'
    OBVIOUS
  <1>1. ASSUME NEW c \in Clients, SyncStep(c) PROVE IInv'
    <2>1. CASE Discover(c) \/ Plan(c) \/ PlanFails(c)
      BY <1>1, <2>1, DiscoverKeeps, PlanKeeps, PlanFailsKeeps
    <2>2. CASE \E sp \in sync[c].todo, read \in SUBSET Sessions :
                   Capture(c, sp, read)
      BY <1>1, <2>2, CaptureKeeps
    <2>3. CASE Posted(c) \/ AnswerLost(c) \/ NotDelivered(c)
      BY <1>1, <2>3, PostedKeeps, AnswerLostKeeps, NotDeliveredKeeps
    <2>4. CASE Unauthorized(c) \/ TooLarge(c)
      BY <1>1, <2>4, UnauthorizedKeeps, TooLargeKeeps
    <2> QED BY <1>1, <2>1, <2>2, <2>3, <2>4 DEF SyncStep
  <1>2. ASSUME NEW c \in Clients, NEW force \in BOOLEAN,
               NEW selected \in SUBSET Sources \ {{}},
               NEW ignore \in {{}, Noisy},
               StartSync(c, force, selected, ignore)
        PROVE  IInv'
    BY <1>2, StartKeeps
  <1>3. ASSUME NEW c \in Clients, Killed(c) PROVE IInv'
    BY <1>3, KilledKeeps
  <1>4. ASSUME NEW s \in Sessions, Write(s) PROVE IInv'
    BY <1>4, WriteKeeps
  <1> QED BY <1>1, <1>2, <1>3, <1>4, TickKeeps, StutterKeeps DEF Next

(* Every behaviour of the desktop client keeps its windows in the past and *)
(* every session of a posted or covered window accounted for.              *)
THEOREM InvariantHolds == Spec => []IInv
  BY InitIInv, NextKeeps, PTL DEF Spec

(* No session in a covered window is lost by accident (cli/sync.go), for   *)
(* any number of sources, sessions, processes, retries and kills.          *)
THEOREM CoveredAccounted == Spec => []CoveredIsAccounted
  <1>1. IInv => CoveredIsAccounted
    BY HandledIsAccounted DEF IInv
  <1> QED BY <1>1, InvariantHolds, PTL

-----------------------------------------------------------------------------
(* SplitForUpload, of every batch and every cap.  That the recursion is a  *)
(* function at all, and what holds of all its values, follows from the     *)
(* well-foundedness of the natural numbers: a batch of two or more is      *)
(* halved into two that are smaller.                                       *)
LEMMA LeastOf ==
    ASSUME NEW S, S \subseteq Nat, S # {}
    PROVE  \E m \in S : \A n \in S : m <= n
  <1>1. PICK m \in S : \A n \in S : ~(<<n, m>> \in OpToRel(<, Nat))
    BY WFMin, NatLessThanWellFounded
  <1>2. \A n \in S : ~(n < m)
    BY <1>1 DEF OpToRel
  <1> QED BY <1>2

LEMMA MinIn == ASSUME NEW S, S \subseteq Nat, S # {} PROVE Min(S) \in S
  BY LeastOf DEF Min

(* A set of numbers that contains the successor of each of its members,    *)
(* and 0, contains them all.                                               *)
LEMMA Reached ==
    ASSUME NEW S, S \subseteq Nat, 0 \in S, \A n \in S : n + 1 \in S
    PROVE  S = Nat
  <1> SUFFICES ASSUME Nat \ S # {} PROVE FALSE
    OBVIOUS
  <1>1. PICK m \in Nat \ S : \A n \in Nat \ S : m <= n
    BY LeastOf
  <1>2. m - 1 \in Nat /\ m - 1 \in S
    BY <1>1
  <1>3. (m - 1) + 1 \in S
    BY <1>2
  <1> QED BY <1>1, <1>3

LEMMA BatchFinite ==
    ASSUME NEW b \in SUBSET Sessions
    PROVE  /\ IsFiniteSet(b) /\ Cardinality(b) \in Nat /\ b \subseteq Nat
           /\ Cardinality(b) = 0 <=> b = {}
           /\ \A h \in SUBSET b : /\ Cardinality(h) <= Cardinality(b)
                                  /\ h # b => Cardinality(h) < Cardinality(b)
  <1>1. IsFiniteSet(b) /\ Cardinality(b) \in Nat /\ b \subseteq Nat
    BY FS_Subset, FS_CardinalityType, SyncAssumption
  <1>2. ASSUME NEW h \in SUBSET b
        PROVE  /\ Cardinality(h) <= Cardinality(b)
               /\ h # b => Cardinality(h) < Cardinality(b)
    <2>1. /\ Cardinality(h) \in Nat /\ Cardinality(h) <= Cardinality(b)
          /\ Cardinality(b) = Cardinality(h) => b = h
      BY <1>1, FS_Subset, FS_CardinalityType
    <2> QED BY <1>1, <2>1
  <1> QED BY <1>1, <1>2, FS_EmptySet

Below(s, b) == {t \in b : t < s}

LEMMA LowerHalfProper ==
    ASSUME NEW b \in SUBSET Sessions, b # {}, Cardinality(b) # 1
    PROVE  /\ LowerHalf(b) \in SUBSET b
           /\ LowerHalf(b) # {} /\ LowerHalf(b) # b
  <1>0. /\ IsFiniteSet(b) /\ b \subseteq Nat /\ Cardinality(b) \in Nat
        /\ Cardinality(b) # 0
    BY BatchFinite
  <1>1. /\ IsFiniteSet(b) /\ b \subseteq Nat /\ \A s \in b : s \in Nat
        /\ Cardinality(b) \in Nat /\ Cardinality(b) >= 2
    BY <1>0
  <1>2. \A s \in b : /\ Below(s, b) \in SUBSET b
                     /\ Cardinality(Below(s, b)) \in Nat
                     /\ Cardinality(Below(s, b)) <= Cardinality(b)
    BY BatchFinite, <1>1 DEF Below
  <1>3. LowerHalf(b) =
           {s \in b : Cardinality(Below(s, b)) < Cardinality(b) \div 2}
    BY DEF LowerHalf, Below
  <1>4. LowerHalf(b) # {}
    <2>1. PICK s \in b : \A t \in b : s <= t
      BY <1>1, LeastOf
    <2>2. Below(s, b) = {}
      <3>1. \A t \in b : ~(t < s)
        BY <1>1, <2>1
      <3> QED BY <3>1 DEF Below
    <2>3. Cardinality(Below(s, b)) = 0
      BY <2>2, FS_EmptySet
    <2> QED BY <1>1, <1>3, <2>3
  <1>5. LowerHalf(b) # b
    <2> DEFINE above == {Cardinality(b) - Cardinality(Below(s, b)) : s \in b}
    <2>0. \A s \in b : Cardinality(b) - Cardinality(Below(s, b)) \in Nat
      BY <1>1, <1>2
    <2>1. above \subseteq Nat /\ above # {}
      BY <2>0
    <2>2. PICK m \in above : \A n \in above : m <= n
      BY <2>1, LeastOf
    <2>3. PICK g \in b : m = Cardinality(b) - Cardinality(Below(g, b))
      BY <2>2
    <2>4. \A t \in b : t <= g
      <3> SUFFICES ASSUME NEW t \in b, g < t PROVE FALSE
        BY <1>1
      <3>1. /\ Below(g, b) \in SUBSET Below(t, b) /\ Below(g, b) # Below(t, b)
            /\ Below(t, b) \in SUBSET Sessions
        <4>1. \A s \in b : s < g => s < t
          BY <1>1
        <4>2. ~(g < g)
          BY <1>1
        <4> QED BY <4>1, <4>2 DEF Below
      <3>2. Cardinality(Below(g, b)) < Cardinality(Below(t, b))
        BY <3>1, BatchFinite
      <3>3. Cardinality(b) - Cardinality(Below(t, b)) \in above
        OBVIOUS
      <3>4. m <= Cardinality(b) - Cardinality(Below(t, b))
        BY <2>2, <3>3
      <3> HIDE DEF above
      <3> QED BY <1>1, <1>2, <2>3, <3>2, <3>4
    <2>5. Below(g, b) = b \ {g}
      <3>1. \A t \in b : t < g <=> t # g
        BY <1>1, <2>4
      <3> QED BY <3>1 DEF Below
    <2>6. Cardinality(Below(g, b)) = Cardinality(b) - 1
      BY <1>1, <2>5, FS_RemoveElement
    <2>7. g \notin LowerHalf(b)
      BY <1>1, <1>3, <2>6
    <2> QED BY <2>3, <2>7
  <1> QED BY <1>3, <1>4, <1>5

LEMMA HalvesSmaller ==
    ASSUME NEW b \in SUBSET Sessions, b # {}, Cardinality(b) # 1
    PROVE  \A h \in {LowerHalf(b), b \ LowerHalf(b)} :
              /\ h \in SUBSET b /\ h # {} /\ h # b
              /\ Cardinality(h) \in Nat /\ Cardinality(h) < Cardinality(b)
  <1>1. \A h \in {LowerHalf(b), b \ LowerHalf(b)} :
            h \in SUBSET b /\ h # {} /\ h # b
    BY LowerHalfProper
  <1>2. \A h \in SUBSET b : h # b =>
            Cardinality(h) \in Nat /\ Cardinality(h) < Cardinality(b)
    BY BatchFinite
  <1> QED BY <1>1, <1>2

Halved(F, b, cap) ==
    IF Weight(b) <= cap THEN {b}
    ELSE IF Cardinality(b) = 1 THEN {}
    ELSE F[LowerHalf(b)] \cup F[b \ LowerHalf(b)]

Splits(F, batch, cap) == F = [b \in SUBSET batch |-> Halved(F, b, cap)]

LEMMA SplitExists ==
    ASSUME NEW batch \in SUBSET Sessions, NEW cap
    PROVE  \E F : Splits(F, batch, cap)
  <1> DEFINE small(n) == {b \in SUBSET batch : Cardinality(b) <= n}
             P(n) == \E F : \A b \in small(n) : F[b] = Halved(F, b, cap)
             S == {n \in Nat : P(n)}
  <1>1. \A b \in SUBSET batch : b \in SUBSET Sessions /\ Cardinality(b) \in Nat
    BY BatchFinite
  <1>2. \A b \in SUBSET batch :
           LowerHalf(b) \in SUBSET batch /\ b \ LowerHalf(b) \in SUBSET batch
    BY DEF LowerHalf
  <1>3. 0 \in S
    <2> DEFINE F == [b \in SUBSET batch |->
                        IF Weight(b) <= cap THEN {b} ELSE {}]
    <2>1. \A b \in small(0) : b = {}
      BY <1>1, BatchFinite
    <2>2. LowerHalf({}) = {} /\ Cardinality({}) # 1
      BY FS_EmptySet DEF LowerHalf
    <2>3. F[{}] = Halved(F, {}, cap)
      BY <2>2 DEF Halved
    <2> HIDE DEF F
    <2> QED BY <2>1, <2>3
  <1>4. ASSUME NEW n \in S PROVE n + 1 \in S
    <2>1. PICK F : \A b \in small(n) : F[b] = Halved(F, b, cap)
      OBVIOUS
    <2> DEFINE G == [b \in SUBSET batch |->
                        IF b \in small(n) THEN F[b] ELSE Halved(F, b, cap)]
    <2>2. \A b \in small(n) : G[b] = F[b]
      OBVIOUS
    <2>3. \A b \in SUBSET batch : G[b] = Halved(F, b, cap)
      BY <2>1
    <2>4. ASSUME NEW b \in small(n + 1)
          PROVE  Halved(G, b, cap) = Halved(F, b, cap)
      <3>1. CASE Cardinality(b) = 1
        BY <3>1 DEF Halved
      <3>2. CASE b = {}
        <4>1. LowerHalf(b) = {} /\ b \ LowerHalf(b) = {}
          BY <3>2 DEF LowerHalf
        <4>2. {} \in small(n)
          BY FS_EmptySet
        <4> HIDE DEF G, small
        <4> QED BY <2>2, <4>1, <4>2 DEF Halved
      <3>3. CASE b # {} /\ Cardinality(b) # 1
        <4>1. \A h \in {LowerHalf(b), b \ LowerHalf(b)} :
                 /\ h \in SUBSET batch /\ Cardinality(h) \in Nat
                 /\ Cardinality(h) < Cardinality(b)
          BY <1>1, <3>3, HalvesSmaller
        <4>2. Cardinality(b) <= n + 1 /\ Cardinality(b) \in Nat
          BY <1>1
        <4>3. ASSUME NEW h \in {LowerHalf(b), b \ LowerHalf(b)}
              PROVE  h \in small(n)
          <5>1. /\ h \in SUBSET batch /\ Cardinality(h) \in Nat
                /\ Cardinality(h) < Cardinality(b)
            BY <4>1
          <5>2. Cardinality(h) <= n
            BY <4>2, <5>1
          <5> QED BY <5>1, <5>2
        <4> HIDE DEF G, small
        <4> QED BY <2>2, <4>3 DEF Halved
      <3> QED BY <3>1, <3>2, <3>3
    <2>5. \A b \in small(n + 1) : G[b] = Halved(G, b, cap)
      BY <2>3, <2>4
    <2> HIDE DEF G
    <2> QED BY <2>5
  <1>5. Cardinality(batch) \in S
    <2> HIDE DEF P
    <2>1. S \subseteq Nat
      OBVIOUS
    <2> HIDE DEF S
    <2>2. S = Nat
      BY <1>3, <1>4, <2>1, Reached
    <2> QED BY <2>2, BatchFinite
  <1>6. PICK F : \A b \in small(Cardinality(batch)) : F[b] = Halved(F, b, cap)
    BY <1>5
  <1>7. \A b \in SUBSET batch : F[b] = Halved(F, b, cap)
    BY <1>6, BatchFinite
  <1> DEFINE G == [b \in SUBSET batch |-> F[b]]
  <1>8. \A b \in SUBSET batch : Halved(G, b, cap) = Halved(F, b, cap)
    BY <1>2 DEF Halved
  <1>9. G = [b \in SUBSET batch |-> Halved(G, b, cap)]
    BY <1>7, <1>8
  <1> HIDE DEF G
  <1> QED BY <1>9 DEF Splits

LEMMA SplitIs ==
    ASSUME NEW batch \in SUBSET Sessions, NEW cap
    PROVE  \E F : Splits(F, batch, cap) /\ Split(batch, cap) = F[batch]
  <1>1. \E F : F = [b \in SUBSET batch |->
                       IF Weight(b) <= cap THEN {b}
                       ELSE IF Cardinality(b) = 1 THEN {}
                       ELSE F[LowerHalf(b)] \cup F[b \ LowerHalf(b)]]
    BY SplitExists DEF Splits, Halved
  <1> QED BY <1>1 DEF Split, Splits, Halved

(* Of every batch that is not empty: the pieces are disjoint parts of it   *)
(* and none of them is empty.                                              *)
Disjoint(batches) ==
    \A p, q \in batches : p # q => p \cap q = {}
PiecesOf(pieces, b) ==
    pieces \subseteq SUBSET b /\ {} \notin pieces /\ Disjoint(pieces)

(* They keep to the cap, and what is left out does not fit even by itself. *)
Fitting(pieces, b, cap) ==
    /\ \A p \in pieces : Weight(p) <= cap
    /\ \A s \in b : (\E p \in pieces : s \in p) \/ ~(Weight({s}) <= cap)

(* What SplitForUpload (upload.go) promises, of every batch and cap.       *)
THEOREM SplitPieces ==
    ASSUME NEW batch \in SUBSET Sessions, batch # {}, NEW cap
    PROVE  /\ PiecesOf(Split(batch, cap), batch)
           /\ Fitting(Split(batch, cap), batch, cap)
  <1>1. PICK F : Splits(F, batch, cap) /\ Split(batch, cap) = F[batch]
    BY SplitIs
  <1>2. \A b \in SUBSET batch : F[b] = Halved(F, b, cap)
    BY <1>1 DEF Splits
  <1> DEFINE good(b) == PiecesOf(F[b], b) /\ Fitting(F[b], b, cap)
             bad == {b \in SUBSET batch : b # {} /\ ~good(b)}
             sizes == {Cardinality(b) : b \in bad}
  <1> SUFFICES ASSUME batch \in bad PROVE FALSE
    BY <1>1
  <1>3. \A b \in bad : b \in SUBSET Sessions /\ Cardinality(b) \in Nat
    BY BatchFinite
  <1>4. sizes \subseteq Nat /\ sizes # {}
    BY <1>3
  <1>5. PICK m \in sizes : \A n \in sizes : m <= n
    BY <1>4, LeastOf
  <1>6. PICK b \in bad : Cardinality(b) = m
    BY <1>5
  <1>7. F[b] = Halved(F, b, cap) /\ b # {} /\ ~good(b)
    BY <1>2
  <1>8. Cardinality(b) # 1 /\ F[b] = F[LowerHalf(b)] \cup F[b \ LowerHalf(b)]
    <2>1. CASE Weight(b) <= cap
      <3>1. F[b] = {b}
        BY <1>7, <2>1 DEF Halved
      <3> QED BY <1>7, <2>1, <3>1 DEF PiecesOf, Disjoint, Fitting
    <2>2. CASE ~(Weight(b) <= cap) /\ Cardinality(b) = 1
      <3>1. F[b] = {}
        BY <1>7, <2>2 DEF Halved
      <3>2. \E s : b = {s}
        BY <1>3, <2>2, BatchFinite, FS_Singleton
      <3>3. \A s \in b : ~(Weight({s}) <= cap)
        BY <2>2, <3>2
      <3> QED BY <1>7, <3>1, <3>3 DEF PiecesOf, Disjoint, Fitting
    <2> QED BY <1>7, <2>1, <2>2 DEF Halved
  <1>9. \A h \in {LowerHalf(b), b \ LowerHalf(b)} : good(h)
    <2> SUFFICES ASSUME NEW h \in {LowerHalf(b), b \ LowerHalf(b)}
                 PROVE  good(h)
      OBVIOUS
    <2>1. /\ h \in SUBSET b /\ h # {} /\ Cardinality(h) \in Nat
          /\ Cardinality(h) < Cardinality(b)
      BY <1>3, <1>7, <1>8, HalvesSmaller
    <2>2. h \notin bad
      BY <1>3, <1>5, <1>6, <2>1
    <2> QED BY <2>1, <2>2
  <1>10. LowerHalf(b) \subseteq b
    BY DEF LowerHalf
  <1>11. PiecesOf(F[b], b)
    <2>1. PICK lower, upper : lower = F[LowerHalf(b)]
                              /\ upper = F[b \ LowerHalf(b)]
      OBVIOUS
    <2>2. /\ lower \subseteq SUBSET LowerHalf(b) /\ {} \notin lower
          /\ upper \subseteq SUBSET (b \ LowerHalf(b)) /\ {} \notin upper
          /\ Disjoint(lower) /\ Disjoint(upper)
      BY <1>9, <2>1 DEF PiecesOf
    <2>3. \A p \in lower, q \in upper : p \cap q = {} /\ q \cap p = {}
      BY <2>2
    <2>4. Disjoint(lower \cup upper)
      BY <2>2, <2>3 DEF Disjoint
    <2> QED BY <1>8, <1>10, <2>1, <2>2, <2>4 DEF PiecesOf
  <1>12. Fitting(F[b], b, cap)
    <2>1. \A h \in {LowerHalf(b), b \ LowerHalf(b)} : Fitting(F[h], h, cap)
      BY <1>9
    <2> HIDE DEF good, bad
    <2> QED BY <1>8, <1>10, <2>1 DEF Fitting
  <1> QED BY <1>7, <1>11, <1>12

(* The empty batch weighs nothing and makes an empty body.                 *)
LEMMA EmptyWeight == Weight({}) = 0
  <1>1. \E f : f = [s \in SUBSET {} |->
                       IF s = {} THEN 0
                       ELSE Size[CHOOSE x \in s : TRUE]
                               + f[s \ {CHOOSE x \in s : TRUE}]]
    <2> DEFINE f == [s \in SUBSET {} |-> 0]
    <2>1. f = [s \in SUBSET {} |->
                  IF s = {} THEN 0
                  ELSE Size[CHOOSE x \in s : TRUE]
                          + f[s \ {CHOOSE x \in s : TRUE}]]
      OBVIOUS
    <2> QED BY <2>1
  <1> QED BY <1>1 DEF Weight, MapThenSumSet, MapThenFoldSet

LEMMA EmptySplit == ASSUME NEW cap \in Nat PROVE Split({}, cap) = {{}}
  <1>1. PICK F : Splits(F, {}, cap) /\ Split({}, cap) = F[{}]
    BY SplitIs
  <1> QED BY <1>1, EmptyWeight DEF Splits, Halved

-----------------------------------------------------------------------------
(* The types and the empty body.  A sync that posts has a body, its bodies *)
(* are disjoint, so that there is a first one, and if one of them is empty *)
(* it is the only one and nothing was read.                                *)
SyncTyped(r) ==
    /\ Shaped(r)
    /\ r.pc \in {"idle", "discover", "plan", "capture", "post"}
    /\ r.force \in BOOLEAN /\ r.ignore \in SUBSET Sessions
    /\ r.src \in Sources \cup {NoSource} /\ r.left \in SUBSET Sources
    /\ r.offered \in Spans \cup {NoSpan} /\ r.todo \in SUBSET Spans
    /\ r.span \in Spans \cup {NoSpan}
    /\ r.ver \in [Sessions -> Times \cup {Absent}]
    /\ r.batches \in Batches /\ r.tries \in 0 .. MaxRetries
    /\ r.fresh \in BOOLEAN

ReadNothing(ver) == \A s \in Sessions : ver[s] = Absent

Postable(batches, ver) ==
    /\ batches \in Batches /\ Disjoint(batches)
    /\ {} \in batches => batches = {{}} /\ ReadNothing(ver)

Bodied(r) == r.pc = "post" => r.batches # {} /\ Postable(r.batches, r.ver)

JInv == TypeOK /\ \A c \in Clients : Bodied(sync[c])

LEMMA SyncTypes == ASSUME NEW r PROVE SyncTyped(r) <=> r \in SyncState
  <1>1. ASSUME SyncTyped(r) PROVE r \in SyncState
    BY <1>1 DEF SyncTyped, Shaped, Fields, SyncState
  <1>2. ASSUME r \in SyncState PROVE SyncTyped(r)
    BY <1>2 DEF SyncTyped, Shaped, Fields, SyncState
  <1> QED BY <1>1, <1>2

LEMMA IdleTyped == SyncTyped(Idle) /\ Bodied(Idle) /\ Idle.pc = "idle"
  <1>1. Shaped(Idle)
    BY DEF Shaped, Fields, Idle
  <1>2. 0 \in 0 .. MaxRetries
    BY SyncAssumption
  <1> QED BY <1>1, <1>2 DEF SyncTyped, Idle, Absent, Batches, Bodied

LEMMA NextSourceTyped ==
    ASSUME NEW rec, rec.left \in SUBSET Sources, rec.force \in BOOLEAN,
           rec.ignore \in SUBSET Sessions
    PROVE  SyncTyped(NextSource(rec)) /\ Bodied(NextSource(rec))
  <1>1. CASE rec.left = {}
    BY <1>1, IdleTyped DEF NextSource
  <1>2. CASE rec.left # {}
    <2>1. PICK src : src = Min(rec.left)
      OBVIOUS
    <2>2. src \in Sources
      BY <1>2, <2>1, MinIn, ConstantFacts
    <2>3. PICK r : r = Turn(rec, src)
      OBVIOUS
    <2>4. r = [Idle EXCEPT !.pc = "discover", !.force = rec.force,
                           !.ignore = rec.ignore, !.src = src,
                           !.left = rec.left \ {src}]
      BY <2>3 DEF Turn
    <2>5. /\ Shaped(r) /\ r.pc = "discover" /\ r.force = rec.force
          /\ r.ignore = rec.ignore /\ r.src = src
          /\ r.left = rec.left \ {src} /\ r.todo = Idle.todo
          /\ r.offered = Idle.offered /\ r.span = Idle.span
          /\ r.ver = Idle.ver /\ r.batches = Idle.batches
          /\ r.tries = Idle.tries /\ r.fresh = Idle.fresh
      BY <2>4 DEF Shaped, Fields, Idle
    <2>6. SyncTyped(r) /\ Bodied(r)
      BY <2>2, <2>5, IdleTyped DEF SyncTyped, Bodied
    <2> QED BY <1>2, <2>1, <2>3, <2>6 DEF NextSource
  <1> QED BY <1>1, <1>2

LEMMA AfterBatchTyped ==
    ASSUME NEW rec, SyncTyped(rec), NEW rest, Postable(rest, rec.ver)
    PROVE  SyncTyped(AfterBatch(rec, rest)) /\ Bodied(AfterBatch(rec, rest))
  <1>1. CASE rest # {}
    <2>1. PICK r : r = Post(rec, rest)
      OBVIOUS
    <2>2. /\ Shaped(r) /\ r.pc = "post" /\ r.force = rec.force
          /\ r.ignore = rec.ignore /\ r.src = rec.src /\ r.left = rec.left
          /\ r.todo = rec.todo /\ r.offered = rec.offered
          /\ r.span = rec.span /\ r.ver = rec.ver /\ r.batches = rest
          /\ r.tries = 0 /\ r.fresh = FALSE
      BY <2>1 DEF Post, Shaped, Fields, SyncTyped
    <2>3. 0 \in 0 .. MaxRetries
      BY SyncAssumption
    <2>4. SyncTyped(r) /\ Bodied(r)
      BY <1>1, <2>2, <2>3 DEF SyncTyped, Bodied, Postable
    <2> QED BY <1>1, <2>1, <2>4 DEF AfterBatch
  <1>2. CASE rest = {} /\ rec.todo # {}
    <2>1. PICK r : r = [rec EXCEPT !.pc = "capture", !.span = NoSpan,
                                   !.ver = Idle.ver, !.batches = {},
                                   !.tries = 0, !.fresh = FALSE]
      OBVIOUS
    <2>2. /\ Shaped(r) /\ r.pc = "capture" /\ r.force = rec.force
          /\ r.ignore = rec.ignore /\ r.src = rec.src /\ r.left = rec.left
          /\ r.todo = rec.todo /\ r.offered = rec.offered
          /\ r.span = NoSpan /\ r.ver = Idle.ver /\ r.batches = {}
          /\ r.tries = 0 /\ r.fresh = FALSE
      BY <2>1 DEF Shaped, Fields, SyncTyped
    <2>3. 0 \in 0 .. MaxRetries
      BY SyncAssumption
    <2>4. SyncTyped(r) /\ Bodied(r)
      BY <2>2, <2>3, IdleTyped DEF SyncTyped, Bodied, Batches
    <2> QED BY <1>2, <2>1, <2>4 DEF AfterBatch, NextSpan
  <1>3. CASE rest = {} /\ rec.todo = {}
    BY <1>3, NextSourceTyped DEF AfterBatch, NextSpan, SyncTyped
  <1> QED BY <1>1, <1>2, <1>3

(* There is a first body: an empty one, or the one with the first session. *)
LEMMA FirstBody ==
    ASSUME NEW batches \in Batches, batches # {}, Disjoint(batches)
    PROVE  NextBatch(batches) \in batches
  <1>1. CASE {} \in batches
    BY <1>1 DEF NextBatch
  <1>2. CASE {} \notin batches
    <2>1. \A b \in batches : b \subseteq Nat /\ b # {}
      BY <1>2, ConstantFacts DEF Batches
    <2>2. \A b \in batches : Min(b) \in b /\ Min(b) \in Nat
      BY <2>1, MinIn
    <2> DEFINE mins == {Min(b) : b \in batches}
    <2>3. mins \subseteq Nat /\ mins # {}
      BY <2>2
    <2>4. PICK m \in mins : \A n \in mins : m <= n
      BY <2>3, LeastOf
    <2>5. PICK b \in batches : Min(b) = m
      BY <2>4
    <2>6. ASSUME NEW q \in batches \ {b} PROVE Min(b) < Min(q)
      <3>1. Min(q) # Min(b)
        BY <2>2 DEF Disjoint
      <3>2. Min(q) \in mins
        OBVIOUS
      <3>3. m <= Min(q)
        BY <2>4, <3>2
      <3> HIDE DEF mins
      <3> QED BY <2>2, <2>5, <3>1, <3>3
    <2> QED BY <2>6 DEF NextBatch
  <1> QED BY <1>1, <1>2

(* A step of client c, with the times as they are.                         *)
LEMMA SyncStepTyped ==
    ASSUME JInv, NEW c \in Clients, NEW r, SyncTyped(r), Bodied(r),
           sync' = [sync EXCEPT ![c] = r], UNCHANGED <<now, mtime>>,
           coverage' \in [Sources -> SUBSET Times],
           held' \in [Sessions -> Times \cup {Absent}],
           fate' \in [Sessions -> Fate], crashes' \in 0 .. MaxCrashes
    PROVE  JInv'
  <1>1. r \in SyncState /\ sync \in [Clients -> SyncState]
    BY SyncTypes DEF JInv, TypeOK
  <1>2. sync' \in [Clients -> SyncState]
    BY <1>1
  <1>3. \A d \in Clients : sync'[d] = IF d = c THEN r ELSE sync[d]
    BY <1>1
  <1>4. \A d \in Clients : Bodied(sync'[d])
    BY <1>3 DEF JInv
  <1> QED BY <1>2, <1>4 DEF JInv, TypeOK, Bodied, Postable, ReadNothing

LEMMA ClientTyped ==
    ASSUME JInv, NEW c \in Clients
    PROVE  SyncTyped(sync[c]) /\ Bodied(sync[c])
  BY SyncTypes DEF JInv, TypeOK

(* The actions, in the order of DesktopSync.                               *)
LEMMA StartTyped ==
    ASSUME JInv, NEW c \in Clients, NEW force \in BOOLEAN,
           NEW selected \in SUBSET Sources, NEW ignore \in SUBSET Sessions,
           StartSync(c, force, selected, ignore)
    PROVE  JInv'
  <1>1. PICK rec : rec = [Idle EXCEPT !.force = force, !.left = selected,
                                      !.ignore = ignore]
    OBVIOUS
  <1>2. rec.force = force /\ rec.left = selected /\ rec.ignore = ignore
    BY <1>1 DEF Idle
  <1>3. PICK r : r = NextSource(rec)
    OBVIOUS
  <1>4. SyncTyped(r) /\ Bodied(r)
    BY <1>2, <1>3, NextSourceTyped
  <1> QED BY <1>1, <1>3, <1>4, SyncStepTyped DEF StartSync, JInv, TypeOK

LEMMA DiscoverTyped == ASSUME JInv, NEW c \in Clients, Discover(c) PROVE JInv'
  <1>1. PICK rec : rec = sync[c] /\ SyncTyped(rec)
    BY ClientTyped
  <1>2. UNCHANGED <<now, mtime, coverage, held, fate, crashes>>
    BY DEF Discover
  <1>3. CASE sync' = [sync EXCEPT ![c] = NextSource(rec)]
    <2>1. PICK r : r = NextSource(rec)
      OBVIOUS
    <2>2. SyncTyped(r) /\ Bodied(r)
      BY <1>1, <2>1, NextSourceTyped DEF SyncTyped
    <2> QED BY <1>2, <1>3, <2>1, <2>2, SyncStepTyped DEF JInv, TypeOK
  <1>4. ASSUME NEW sp \in Spans,
               sync' = [sync EXCEPT ![c] =
                    IF rec.force THEN [rec EXCEPT !.pc = "capture", !.todo = {sp}]
                    ELSE [rec EXCEPT !.pc = "plan", !.offered = sp]]
        PROVE  JInv'
    <2>1. PICK r : r = IF rec.force
                       THEN [rec EXCEPT !.pc = "capture", !.todo = {sp}]
                       ELSE [rec EXCEPT !.pc = "plan", !.offered = sp]
      OBVIOUS
    <2>2. /\ Shaped(r) /\ r.pc \in {"capture", "plan"} /\ r.force = rec.force
          /\ r.ignore = rec.ignore /\ r.src = rec.src /\ r.left = rec.left
          /\ r.todo \in {rec.todo, {sp}} /\ r.offered \in {rec.offered, sp}
          /\ r.span = rec.span /\ r.ver = rec.ver
          /\ r.batches = rec.batches /\ r.tries = rec.tries
          /\ r.fresh = rec.fresh
      BY <1>1, <2>1 DEF SyncTyped, Shaped, Fields
    <2>3. SyncTyped(r) /\ Bodied(r)
      BY <1>1, <2>2 DEF SyncTyped, Bodied
    <2> QED BY <1>2, <1>4, <2>1, <2>3, SyncStepTyped DEF JInv, TypeOK
  <1>5. \A src : Available(c, src) \subseteq Spans
    BY DEF Available
  <1> QED BY <1>1, <1>3, <1>4, <1>5 DEF Discover

LEMMA PlanTyped == ASSUME JInv, NEW c \in Clients, Plan(c) PROVE JInv'
  <1>1. PICK rec : rec = sync[c] /\ SyncTyped(rec)
    BY ClientTyped
  <1>2. UNCHANGED <<now, mtime, coverage, held, fate, crashes>>
    BY DEF Plan
  <1>3. PICK needed : needed = Needed(sync[c].offered, coverage[sync[c].src])
    OBVIOUS
  <1>4. needed \in SUBSET Spans
    BY <1>3 DEF Needed
  <1>5. PICK r : r = IF needed = {} THEN NextSource(rec)
                     ELSE [rec EXCEPT !.pc = "capture", !.todo = needed,
                                      !.offered = NoSpan]
    OBVIOUS
  <1>6. sync' = [sync EXCEPT ![c] = r]
    BY <1>1, <1>3, <1>5 DEF Plan
  <1>7. SyncTyped(r) /\ Bodied(r)
    <2>1. CASE needed = {}
      BY <1>1, <1>5, <2>1, NextSourceTyped DEF SyncTyped
    <2>2. CASE needed # {}
      <3>1. /\ Shaped(r) /\ r.pc = "capture" /\ r.force = rec.force
            /\ r.ignore = rec.ignore /\ r.src = rec.src /\ r.left = rec.left
            /\ r.todo = needed /\ r.offered = NoSpan
            /\ r.span = rec.span /\ r.ver = rec.ver
            /\ r.batches = rec.batches /\ r.tries = rec.tries
            /\ r.fresh = rec.fresh
        BY <1>1, <1>5, <2>2 DEF SyncTyped, Shaped, Fields
      <3> QED BY <1>1, <1>4, <3>1 DEF SyncTyped, Bodied
    <2> QED BY <2>1, <2>2
  <1> QED BY <1>2, <1>6, <1>7, SyncStepTyped DEF JInv, TypeOK

(* The sync ends: discovery, a post or the process does.                   *)
LEMMA EndTyped ==
    ASSUME JInv, NEW c \in Clients, sync' = [sync EXCEPT ![c] = Idle],
           UNCHANGED <<now, mtime>>, coverage' \in [Sources -> SUBSET Times],
           held' \in [Sessions -> Times \cup {Absent}],
           fate' \in [Sessions -> Fate], crashes' \in 0 .. MaxCrashes
    PROVE  JInv'
  <1>1. PICK r : r = Idle
    OBVIOUS
  <1> QED BY <1>1, IdleTyped, SyncStepTyped

(* What a capture posts are the bodies of what it read: an empty one only  *)
(* if it read nothing.                                                     *)
LEMMA BodiesPostable ==
    ASSUME NEW read \in SUBSET Sessions, NEW ver,
           \A s \in Sessions \ read : ver[s] = Absent
    PROVE  Postable(Bodies(read), ver)
  <1>1. CASE read = {}
    BY <1>1, EmptySplit, SyncAssumption
       DEF Bodies, Postable, Disjoint, Batches, ReadNothing
  <1>2. CASE read # {}
    <2>1. PiecesOf(Split(read, MaxBody), read)
      BY <1>2, SplitPieces
    <2> QED BY <2>1 DEF Bodies, Postable, PiecesOf, Batches
  <1> QED BY <1>1, <1>2

LEMMA CaptureTyped ==
    ASSUME JInv, NEW c \in Clients, NEW sp \in sync[c].todo,
           NEW read \in SUBSET Sessions, Capture(c, sp, read)
    PROVE  JInv'
  <1>1. PICK old : old = sync[c] /\ SyncTyped(old)
    BY ClientTyped
  <1>2. PICK ver : ver = [s \in Sessions |->
                             IF s \in read THEN mtime[s] ELSE Absent]
    OBVIOUS
  <1>3. ver \in [Sessions -> Times \cup {Absent}]
    BY <1>2 DEF JInv, TypeOK
  <1>4. PICK batches : batches = Bodies(read)
    OBVIOUS
  <1>5. Postable(batches, ver)
    BY <1>2, <1>4, BodiesPostable
  <1>6. PICK rec : rec = [old EXCEPT !.span = sp, !.todo = old.todo \ {sp},
                                     !.ver = ver]
    OBVIOUS
  <1>7. /\ Shaped(rec) /\ rec.pc = old.pc /\ rec.force = old.force
        /\ rec.ignore = old.ignore /\ rec.src = old.src /\ rec.left = old.left
        /\ rec.todo = old.todo \ {sp} /\ rec.offered = old.offered
        /\ rec.span = sp /\ rec.ver = ver /\ rec.batches = old.batches
        /\ rec.tries = old.tries /\ rec.fresh = old.fresh
    BY <1>1, <1>6 DEF SyncTyped, Shaped, Fields
  <1>8. SyncTyped(rec)
    BY <1>1, <1>3, <1>7 DEF SyncTyped
  <1>9. PICK r : r = AfterBatch(rec, batches)
    OBVIOUS
  <1>10. SyncTyped(r) /\ Bodied(r)
    BY <1>5, <1>7, <1>8, <1>9, AfterBatchTyped
  <1>11. sync' = [sync EXCEPT ![c] = r]
    BY <1>1, <1>2, <1>4, <1>6, <1>9 DEF Capture
  <1>12. UNCHANGED <<now, mtime, coverage, held, crashes>>
    BY DEF Capture
  <1>13. fate' \in [Sessions -> Fate]
    <2>1. \A s \in Sessions : fate'[s] \in Fate
      BY DEF Capture, JInv, TypeOK, Fate
    <2>2. fate' = [s \in Sessions |-> fate'[s]]
      BY DEF Capture
    <2> QED BY <2>1, <2>2
  <1> QED BY <1>10, <1>11, <1>12, <1>13, SyncStepTyped DEF JInv, TypeOK

LEMMA ReceivedTyped ==
    ASSUME JInv, NEW c \in Clients, Received(c)
    PROVE  /\ coverage' \in [Sources -> SUBSET Times]
           /\ held' \in [Sessions -> Times \cup {Absent}]
  <1>1. PICK rec : rec = sync[c] /\ SyncTyped(rec)
    BY ClientTyped
  <1>2. Slots(rec.span) \subseteq Times
    <2>1. rec.span \in Spans \cup {NoSpan}
      BY <1>1 DEF SyncTyped
    <2> QED BY <2>1, TimeAssumption DEF Slots, Spans, NoSpan, Times
  <1>3. PICK src, slots : src = rec.src /\ slots = Slots(rec.span)
    OBVIOUS
  <1>4. coverage' = [coverage EXCEPT ![src] = @ \cup slots]
    BY <1>1, <1>3 DEF Received
  <1>5. coverage' \in [Sources -> SUBSET Times]
    BY <1>2, <1>3, <1>4 DEF JInv, TypeOK
  <1>6. \A s \in Sessions : /\ rec.ver[s] \in Times \cup {Absent}
                            /\ held[s] \in Times \cup {Absent}
    BY <1>1 DEF SyncTyped, JInv, TypeOK
  <1>7. held' = [s \in Sessions |->
                    IF s \in Body(c) /\ rec.ver[s] > held[s]
                    THEN rec.ver[s] ELSE held[s]]
    BY <1>1 DEF Received
  <1> QED BY <1>5, <1>6, <1>7

LEMMA GivenUpTyped ==
    ASSUME JInv, NEW f \in Fate, NEW gone
    PROVE  Became(f, gone) \in [Sessions -> Fate]
  BY DEF Became, JInv, TypeOK

LEMMA PostedTyped == ASSUME JInv, NEW c \in Clients, Posted(c) PROVE JInv'
  <1>1. PICK rec : rec = sync[c] /\ SyncTyped(rec) /\ Bodied(rec)
    BY ClientTyped
  <1>2. PICK rest : rest = rec.batches \ {Body(c)}
    OBVIOUS
  <1>3. rec.pc = "post"
    BY <1>1 DEF Posted, Received
  <1>4. Postable(rest, rec.ver)
    BY <1>1, <1>2, <1>3 DEF Bodied, Postable, Disjoint, Batches
  <1>5. PICK r : r = AfterBatch(rec, rest)
    OBVIOUS
  <1>6. SyncTyped(r) /\ Bodied(r)
    BY <1>1, <1>4, <1>5, AfterBatchTyped
  <1>7. sync' = [sync EXCEPT ![c] = r]
    BY <1>1, <1>2, <1>5 DEF Posted
  <1>8. /\ coverage' \in [Sources -> SUBSET Times]
        /\ held' \in [Sessions -> Times \cup {Absent}]
    BY ReceivedTyped DEF Posted
  <1> QED BY <1>6, <1>7, <1>8, SyncStepTyped DEF Posted, JInv, TypeOK

(* The same bodies again.                                                  *)
LEMMA AgainTyped ==
    ASSUME JInv, NEW c \in Clients, NEW tries \in 0 .. MaxRetries,
           NEW fresh \in BOOLEAN,
           sync' = [sync EXCEPT
                       ![c] = [sync[c] EXCEPT !.tries = tries, !.fresh = fresh]],
           UNCHANGED <<now, mtime, fate, crashes>>,
           coverage' \in [Sources -> SUBSET Times],
           held' \in [Sessions -> Times \cup {Absent}]
    PROVE  JInv'
  <1>1. PICK rec : rec = sync[c] /\ SyncTyped(rec) /\ Bodied(rec)
    BY ClientTyped
  <1>2. PICK r : r = [rec EXCEPT !.tries = tries, !.fresh = fresh]
    OBVIOUS
  <1>3. /\ Shaped(r) /\ r.pc = rec.pc /\ r.force = rec.force
        /\ r.ignore = rec.ignore /\ r.src = rec.src /\ r.left = rec.left
        /\ r.todo = rec.todo /\ r.offered = rec.offered
        /\ r.span = rec.span /\ r.ver = rec.ver /\ r.batches = rec.batches
        /\ r.tries = tries /\ r.fresh = fresh
    BY <1>1, <1>2 DEF SyncTyped, Shaped, Fields
  <1>4. SyncTyped(r) /\ Bodied(r)
    BY <1>1, <1>3 DEF SyncTyped, Bodied
  <1> QED BY <1>1, <1>2, <1>4, SyncStepTyped DEF JInv, TypeOK

LEMMA RetryTyped ==
    ASSUME JInv, NEW c \in Clients, Retry(c),
           UNCHANGED <<now, mtime, crashes>>,
           coverage' \in [Sources -> SUBSET Times],
           held' \in [Sessions -> Times \cup {Absent}]
    PROVE  JInv'
  <1>1. PICK rec : rec = sync[c] /\ SyncTyped(rec)
    BY ClientTyped
  <1>2. CASE /\ rec.tries < MaxRetries /\ UNCHANGED fate
             /\ sync' = [sync EXCEPT ![c].tries = @ + 1]
    <2>1. PICK tries, fresh : tries = rec.tries + 1 /\ fresh = rec.fresh
      OBVIOUS
    <2>2. tries \in 0 .. MaxRetries /\ fresh \in BOOLEAN
      BY <1>1, <1>2, <2>1, SyncAssumption DEF SyncTyped
    <2>3. [rec EXCEPT !.tries = tries]
             = [rec EXCEPT !.tries = tries, !.fresh = fresh]
      BY <1>1, <2>1 DEF SyncTyped, Shaped, Fields
    <2>4. sync' = [sync EXCEPT
                      ![c] = [sync[c] EXCEPT !.tries = tries, !.fresh = fresh]]
      BY <1>1, <1>2, <2>1, <2>3
    <2> QED BY <1>2, <2>2, <2>4, AgainTyped
  <1>3. CASE Fail(c)
    BY <1>3, EndTyped, GivenUpTyped DEF Fail, Fate, JInv, TypeOK
  <1> QED BY <1>1, <1>2, <1>3 DEF Retry

LEMMA UnauthorizedTyped ==
    ASSUME JInv, NEW c \in Clients, Unauthorized(c) PROVE JInv'
  <1>1. UNCHANGED <<now, mtime, coverage, held, crashes>>
    BY DEF Unauthorized
  <1>2. CASE /\ sync' = [sync EXCEPT ![c] = [@ EXCEPT !.fresh = TRUE,
                                                      !.tries = 0]]
             /\ UNCHANGED fate
    <2>1. PICK rec : rec = sync[c] /\ SyncTyped(rec)
      BY ClientTyped
    <2>2. [rec EXCEPT !.fresh = TRUE, !.tries = 0]
             = [rec EXCEPT !.tries = 0, !.fresh = TRUE]
      BY <2>1 DEF SyncTyped, Shaped, Fields
    <2>3. sync' = [sync EXCEPT
                      ![c] = [sync[c] EXCEPT !.tries = 0, !.fresh = TRUE]]
      BY <1>2, <2>1, <2>2
    <2>4. 0 \in 0 .. MaxRetries
      BY SyncAssumption
    <2> QED BY <1>1, <1>2, <2>3, <2>4, AgainTyped DEF JInv, TypeOK
  <1>3. CASE Fail(c)
    BY <1>1, <1>3, EndTyped, GivenUpTyped DEF Fail, Fate, JInv, TypeOK
  <1> QED BY <1>2, <1>3 DEF Unauthorized

(* 413: a body the server refuses is not empty, and neither are its        *)
(* pieces.                                                                 *)
LEMMA TooLargeTyped == ASSUME JInv, NEW c \in Clients, TooLarge(c) PROVE JInv'
  <1>1. PICK rec : rec = sync[c] /\ SyncTyped(rec) /\ Bodied(rec)
    BY ClientTyped
  <1>2. PICK b : b = Body(c)
    OBVIOUS
  <1>3. rec.pc = "post" /\ Weight(b) > ServerLimit
    BY <1>1, <1>2 DEF TooLarge
  <1>4. /\ rec.batches \in Batches /\ rec.batches # {}
        /\ Disjoint(rec.batches)
        /\ {} \in rec.batches => rec.batches = {{}}
    BY <1>1, <1>3 DEF Bodied, Postable
  <1>5. b \in rec.batches /\ b \in SUBSET Sessions
    <2>1. NextBatch(rec.batches) \in rec.batches
      BY <1>4, FirstBody
    <2> QED BY <1>1, <1>2, <1>4, <2>1 DEF Body, Batches
  <1>6. b # {}
    BY <1>3, EmptyWeight, SyncAssumption
  <1>7. PICK pieces : pieces = IF Cardinality(b) = 1 THEN {}
                               ELSE Split(b, ResplitCap(b))
    OBVIOUS
  <1>8. PiecesOf(pieces, b)
    <2>1. PICK cap : cap = ResplitCap(b)
      OBVIOUS
    <2>2. PiecesOf(Split(b, cap), b)
      BY <1>5, <1>6, SplitPieces
    <2> QED BY <1>7, <2>1, <2>2 DEF PiecesOf, Disjoint
  <1>9. PICK rest : rest = (rec.batches \ {b}) \cup pieces
    OBVIOUS
  <1>10. Postable(rest, rec.ver)
    <2>1. rest \in Batches /\ {} \notin rest
      BY <1>4, <1>5, <1>8, <1>9 DEF Batches, PiecesOf
    <2>2. \A p \in pieces, q \in rec.batches \ {b} :
             p \cap q = {} /\ q \cap p = {}
      BY <1>4, <1>5, <1>8 DEF PiecesOf, Disjoint
    <2>3. Disjoint(rest)
      BY <1>4, <1>8, <1>9, <2>2 DEF PiecesOf, Disjoint
    <2> QED BY <1>4, <2>1, <2>3 DEF Postable
  <1>11. PICK r : r = AfterBatch(rec, rest)
    OBVIOUS
  <1>12. SyncTyped(r) /\ Bodied(r)
    BY <1>1, <1>10, <1>11, AfterBatchTyped
  <1>13. sync' = [sync EXCEPT ![c] = r]
    BY <1>1, <1>2, <1>7, <1>9, <1>11 DEF TooLarge
  <1>14. /\ UNCHANGED <<now, mtime, coverage, held, crashes>>
         /\ fate' = Became("too large", Current(c, b \ UNION pieces))
    BY <1>2, <1>7 DEF TooLarge
  <1>15. fate' \in [Sessions -> Fate]
    BY <1>14, GivenUpTyped DEF Fate
  <1> QED BY <1>12, <1>13, <1>14, <1>15, SyncStepTyped DEF JInv, TypeOK

LEMMA KilledTyped == ASSUME JInv, NEW c \in Clients, Killed(c) PROVE JInv'
  <1>1. crashes' \in 0 .. MaxCrashes
    <2>1. crashes' = crashes + 1 /\ crashes < MaxCrashes
      BY DEF Killed
    <2>2. crashes \in 0 .. MaxCrashes
      BY DEF JInv, TypeOK
    <2> QED BY <2>1, <2>2, SyncAssumption
  <1>2. fate' \in [Sessions -> Fate]
    BY GivenUpTyped DEF Killed, Fate
  <1> QED BY <1>1, <1>2, EndTyped DEF Killed, JInv, TypeOK

LEMMA TimeTyped ==
    ASSUME JInv, Tick \/ \E s \in Sessions : Write(s)
    PROVE  JInv'
  <1>1. UNCHANGED <<coverage, held, sync, crashes>>
    BY DEF Tick, Write
  <1>2. /\ now' \in Times /\ mtime' \in [Sessions -> Times \cup {Absent}]
        /\ fate' \in [Sessions -> Fate]
    <2>0. /\ now \in Times /\ mtime \in [Sessions -> Times \cup {Absent}]
          /\ fate \in [Sessions -> Fate]
      BY DEF JInv, TypeOK
    <2>1. CASE Tick
      <3>1. now' = now + 1 /\ now < MaxTime /\ UNCHANGED <<mtime, fate>>
        BY <2>1 DEF Tick
      <3>2. now' \in Times
        BY <2>0, <3>1, TimeAssumption DEF Times
      <3> QED BY <2>0, <3>1, <3>2
    <2>2. CASE \E s \in Sessions : Write(s)
      BY <2>0, <2>2 DEF Write, Fate
    <2> QED BY <2>1, <2>2
  <1> QED BY <1>1, <1>2 DEF JInv, TypeOK, Bodied, Postable, ReadNothing

LEMMA InitJInv == Init => JInv
  <1> SUFFICES ASSUME Init PROVE JInv
    OBVIOUS
  <1>1. Idle \in SyncState
    BY IdleTyped, SyncTypes
  <1>2. 1 \in Times /\ 0 \in 0 .. MaxCrashes
    BY TimeAssumption, SyncAssumption DEF Times
  <1>3. TypeOK
    BY <1>1, <1>2 DEF Init, TypeOK, Fate
  <1>4. \A c \in Clients : sync[c].pc # "post"
    BY IdleTyped DEF Init
  <1> QED BY <1>3, <1>4 DEF JInv, Bodied

LEMMA NextTyped == JInv /\ [Next]_vars => JInv'
  <1> SUFFICES ASSUME JInv, [Next]_vars PROVE JInv'
    OBVIOUS
  <1>1. ASSUME NEW c \in Clients, SyncStep(c) PROVE JInv'
    <2>1. CASE Discover(c) \/ Plan(c)
      BY <2>1, DiscoverTyped, PlanTyped
    <2>2. CASE PlanFails(c)
      BY <2>2, EndTyped DEF PlanFails, JInv, TypeOK
    <2>3. CASE \E sp \in sync[c].todo, read \in SUBSET Sessions :
                   Capture(c, sp, read)
      BY <2>3, CaptureTyped
    <2>4. CASE Posted(c) \/ Unauthorized(c) \/ TooLarge(c)
      BY <2>4, PostedTyped, UnauthorizedTyped, TooLargeTyped
    <2>5. CASE AnswerLost(c)
      BY <2>5, ReceivedTyped, RetryTyped DEF AnswerLost
    <2>6. CASE NotDelivered(c)
      BY <2>6, RetryTyped DEF NotDelivered, JInv, TypeOK
    <2> QED BY <1>1, <2>1, <2>2, <2>3, <2>4, <2>5, <2>6 DEF SyncStep
  <1>2. ASSUME NEW c \in Clients, NEW force \in BOOLEAN,
               NEW selected \in SUBSET Sources \ {{}},
               NEW ignore \in {{}, Noisy},
               StartSync(c, force, selected, ignore)
        PROVE  JInv'
    <2>1. ignore \in SUBSET Sessions /\ selected \in SUBSET Sources
      BY SyncAssumption
    <2> QED BY <1>2, <2>1, StartTyped
  <1>3. ASSUME NEW c \in Clients, Killed(c) PROVE JInv'
    BY <1>3, KilledTyped
  <1>4. CASE UNCHANGED vars
    BY <1>4 DEF vars, JInv, TypeOK, Bodied, Postable, ReadNothing
  <1> QED BY <1>1, <1>2, <1>3, <1>4, TimeTyped DEF Next

THEOREM TypedAndBodied == Spec => []JInv
  BY InitJInv, NextTyped, PTL DEF Spec

(* TypeOK: in particular the bodies of a sync are parts of what it read.   *)
THEOREM TypesHold == Spec => []TypeOK
  <1>1. JInv => TypeOK
    BY DEF JInv
  <1> QED BY <1>1, TypedAndBodied, PTL

(* EmptyBodyReadNothing (sync.go:246-251): however SplitForUpload halves,  *)
(* whatever it skips, and however often the server answers 413, an empty   *)
(* body is only posted for a window in which nothing was read.             *)
THEOREM EmptyBodyMeansNothing == Spec => []EmptyBodyReadNothing
  <1>1. JInv => EmptyBodyReadNothing
    BY DEF JInv, Bodied, Postable, ReadNothing, EmptyBodyReadNothing
  <1> QED BY <1>1, TypedAndBodied, PTL

-----------------------------------------------------------------------------
(* What a batch weighs is a number, for every batch: again by a least      *)
(* counterexample, after the recursion has been shown to define a function. *)
Some(s) == CHOOSE x \in s : TRUE
Summed(F, s) == IF s = {} THEN 0 ELSE Size[Some(s)] + F[s \ {Some(s)}]
Sums(F, batch) == F = [s \in SUBSET batch |-> Summed(F, s)]

LEMMA SomeSmaller ==
    ASSUME NEW s \in SUBSET Sessions, s # {}
    PROVE  /\ Some(s) \in s /\ s \ {Some(s)} \in SUBSET s
           /\ Cardinality(s \ {Some(s)}) \in Nat
           /\ Cardinality(s \ {Some(s)}) < Cardinality(s)
  <1>1. Some(s) \in s
    BY DEF Some
  <1>2. s \ {Some(s)} \in SUBSET s /\ s \ {Some(s)} # s
    BY <1>1
  <1>3. s \ {Some(s)} \in SUBSET Sessions
    BY <1>2
  <1> QED BY <1>1, <1>2, <1>3, BatchFinite

LEMMA SumExists ==
    ASSUME NEW batch \in SUBSET Sessions
    PROVE  \E F : Sums(F, batch)
  <1> DEFINE small(n) == {s \in SUBSET batch : Cardinality(s) <= n}
             P(n) == \E F : \A s \in small(n) : F[s] = Summed(F, s)
             S == {n \in Nat : P(n)}
  <1>1. \A s \in SUBSET batch : s \in SUBSET Sessions /\ Cardinality(s) \in Nat
    BY BatchFinite
  <1>2. 0 \in S
    <2> DEFINE F == [s \in SUBSET batch |-> 0]
    <2>1. \A s \in small(0) : s = {}
      BY <1>1, BatchFinite
    <2>2. F[{}] = Summed(F, {})
      BY DEF Summed
    <2> HIDE DEF F
    <2> QED BY <2>1, <2>2
  <1>3. ASSUME NEW n \in S PROVE n + 1 \in S
    <2>1. PICK F : \A s \in small(n) : F[s] = Summed(F, s)
      OBVIOUS
    <2> DEFINE G == [s \in SUBSET batch |->
                        IF s \in small(n) THEN F[s] ELSE Summed(F, s)]
    <2>2. \A s \in small(n) : G[s] = F[s]
      OBVIOUS
    <2>3. \A s \in SUBSET batch : G[s] = Summed(F, s)
      BY <2>1
    <2>4. ASSUME NEW s \in small(n + 1) PROVE Summed(G, s) = Summed(F, s)
      <3>1. CASE s = {}
        BY <3>1 DEF Summed
      <3>2. CASE s # {}
        <4>1. /\ s \ {Some(s)} \in SUBSET s
              /\ Cardinality(s \ {Some(s)}) \in Nat
              /\ Cardinality(s \ {Some(s)}) < Cardinality(s)
              /\ Cardinality(s) \in Nat /\ Cardinality(s) <= n + 1
          BY <1>1, <3>2, SomeSmaller
        <4>2. Cardinality(s \ {Some(s)}) <= n
          BY <4>1
        <4>3. s \ {Some(s)} \in small(n)
          BY <4>1, <4>2
        <4> HIDE DEF G, small
        <4> QED BY <2>2, <3>2, <4>3 DEF Summed
      <3> QED BY <3>1, <3>2
    <2>5. \A s \in small(n + 1) : G[s] = Summed(G, s)
      BY <2>3, <2>4
    <2> HIDE DEF G
    <2> QED BY <2>5
  <1>4. Cardinality(batch) \in S
    <2> HIDE DEF P
    <2>1. S \subseteq Nat
      OBVIOUS
    <2> HIDE DEF S
    <2>2. S = Nat
      BY <1>2, <1>3, <2>1, Reached
    <2> QED BY <2>2, BatchFinite
  <1>5. PICK F : \A s \in small(Cardinality(batch)) : F[s] = Summed(F, s)
    BY <1>4
  <1>6. \A s \in SUBSET batch : F[s] = Summed(F, s)
    BY <1>5, BatchFinite
  <1> DEFINE G == [s \in SUBSET batch |-> F[s]]
  <1>7. ASSUME NEW s \in SUBSET batch PROVE Summed(G, s) = Summed(F, s)
    <2>1. s \ {Some(s)} \in SUBSET batch
      OBVIOUS
    <2>2. G[s \ {Some(s)}] = F[s \ {Some(s)}]
      BY <2>1
    <2> HIDE DEF G
    <2> QED BY <2>2 DEF Summed
  <1>8. G = [s \in SUBSET batch |-> Summed(G, s)]
    BY <1>6, <1>7
  <1> HIDE DEF G
  <1> QED BY <1>8 DEF Sums

LEMMA WeightNumber ==
    ASSUME NEW batch \in SUBSET Sessions
    PROVE  Weight(batch) \in Nat
  <1>1. \E F : F = [s \in SUBSET batch |->
                       IF s = {} THEN 0
                       ELSE Size[CHOOSE x \in s : TRUE]
                               + F[s \ {CHOOSE x \in s : TRUE}]]
    BY SumExists DEF Sums, Summed, Some
  <1>2. PICK F : Sums(F, batch) /\ Weight(batch) = F[batch]
    BY <1>1 DEF Weight, MapThenSumSet, MapThenFoldSet, Sums, Summed, Some
  <1>3. \A s \in SUBSET batch : F[s] = Summed(F, s)
    BY <1>2 DEF Sums
  <1> DEFINE bad == {s \in SUBSET batch : F[s] \notin Nat}
             sizes == {Cardinality(s) : s \in bad}
  <1> SUFFICES ASSUME batch \in bad PROVE FALSE
    BY <1>2
  <1>4. \A s \in bad : s \in SUBSET Sessions /\ Cardinality(s) \in Nat
    BY BatchFinite
  <1>5. sizes \subseteq Nat /\ sizes # {}
    BY <1>4
  <1>6. PICK m \in sizes : \A n \in sizes : m <= n
    BY <1>5, LeastOf
  <1>7. PICK s \in bad : Cardinality(s) = m
    BY <1>6
  <1>8. F[s] = Summed(F, s) /\ F[s] \notin Nat
    BY <1>3
  <1>9. s # {}
    BY <1>8 DEF Summed
  <1>10. PICK x, rest : x = Some(s) /\ rest = s \ {Some(s)}
    OBVIOUS
  <1>11. /\ x \in Sessions /\ rest \in SUBSET batch
         /\ Cardinality(rest) \in Nat /\ Cardinality(rest) < Cardinality(s)
    BY <1>4, <1>9, <1>10, SomeSmaller
  <1>12. rest \notin bad
    BY <1>4, <1>6, <1>7, <1>11
  <1>13. F[rest] \in Nat /\ Size[x] \in Nat
    BY <1>11, <1>12, SyncAssumption
  <1>14. F[s] = Size[x] + F[rest]
    BY <1>8, <1>9, <1>10 DEF Summed
  <1> QED BY <1>8, <1>13, <1>14

-----------------------------------------------------------------------------
(* How far a sync is from its end: the sources still to visit, the spans   *)
(* of this one still to do, what is left of the span to post, and how      *)
(* often the body in hand may still be posted.  Each may start anew when   *)
(* one before it has gone down.  Of what is left to post the sets count    *)
(* that a body contains: a 413 replaces a body by parts of it.             *)
Visits(r) == 3 * Cardinality(r.left) + (IF r.pc = "discover" THEN 2
                                        ELSE IF r.pc = "plan" THEN 1 ELSE 0)
Parts(batches) == UNION {SUBSET b : b \in batches}
Attempts(r) == (IF r.fresh THEN 0 ELSE MaxRetries + 1) + MaxRetries - r.tries

Nearer(a, b) ==
    \/ Visits(a) < Visits(b)
    \/ /\ Visits(a) = Visits(b)
       /\ \/ Cardinality(a.todo) < Cardinality(b.todo)
          \/ /\ Cardinality(a.todo) = Cardinality(b.todo)
             /\ \/ Cardinality(Parts(a.batches)) < Cardinality(Parts(b.batches))
                \/ /\ Cardinality(Parts(a.batches)) = Cardinality(Parts(b.batches))
                   /\ Attempts(a) < Attempts(b)

(* Every step of a sync brings it nearer to its end or ends it, and        *)
(* nothing else moves it but what ends it: retries, a renewed              *)
(* authorization and one 413 after the other (sync.go:204-335) never take  *)
(* it back to where it has been.                                           *)
SyncDescends ==
    [][\A c \in Clients : sync[c].pc # "idle" =>
          \/ sync'[c].pc = "idle"
          \/ IF SyncStep(c) THEN Nearer(sync'[c], sync[c])
             ELSE sync'[c] = sync[c]]_vars

LEMMA Shrinks ==
    ASSUME NEW S, IsFiniteSet(S), NEW T \in SUBSET S
    PROVE  /\ IsFiniteSet(T) /\ Cardinality(T) \in Nat /\ Cardinality(S) \in Nat
           /\ Cardinality(T) <= Cardinality(S)
           /\ T # S => Cardinality(T) < Cardinality(S)
  <1>1. /\ IsFiniteSet(T) /\ Cardinality(T) <= Cardinality(S)
        /\ Cardinality(S) = Cardinality(T) => S = T
    BY FS_Subset
  <1>2. Cardinality(T) \in Nat /\ Cardinality(S) \in Nat
    BY <1>1, FS_CardinalityType
  <1> QED BY <1>1, <1>2

LEMMA SpansFinite == IsFiniteSet(Spans)
  <1> DEFINE Pairs == Times \X Times
             All == [start : Times, end : Times]
             f == [p \in Pairs |-> [start |-> p[1], end |-> p[2]]]
  <1>1. IsFiniteSet(Times)
    <2>1. 1 \in Int /\ MaxTime \in Int
      BY TimeAssumption
    <2> QED BY <2>1, FS_Interval DEF Times
  <1>2. IsFiniteSet(Pairs)
    BY <1>1, FS_Product
  <1>3. f \in Surjection(Pairs, All)
    <2>1. f \in [Pairs -> All]
      OBVIOUS
    <2>2. ASSUME NEW sp \in All PROVE \E p \in Pairs : f[p] = sp
      <3>1. <<sp.start, sp.end>> \in Pairs
        OBVIOUS
      <3>2. f[<<sp.start, sp.end>>] = sp
        BY <3>1
      <3> QED BY <3>1, <3>2
    <2> HIDE DEF f, Pairs, All
    <2> QED BY <2>1, <2>2 DEF Surjection
  <1>4. IsFiniteSet(All)
    <2> HIDE DEF f, Pairs, All
    <2> QED BY <1>2, <1>3, FS_Surjection
  <1>5. Spans \in SUBSET All
    BY DEF Spans
  <1> QED BY <1>4, <1>5, FS_Subset

LEMMA PartsFinite ==
    ASSUME NEW batches \in Batches
    PROVE  IsFiniteSet(Parts(batches))
  <1>1. IsFiniteSet(SUBSET Sessions)
    BY FS_SUBSET, SyncAssumption
  <1>2. Parts(batches) \in SUBSET SUBSET Sessions
    BY DEF Parts, Batches
  <1> QED BY <1>1, <1>2, FS_Subset

(* All four are numbers, so it cannot go on for ever.                      *)
LEMMA Counted ==
    ASSUME NEW r, SyncTyped(r)
    PROVE  /\ Visits(r) \in Nat /\ Cardinality(r.todo) \in Nat
           /\ Cardinality(Parts(r.batches)) \in Nat /\ Attempts(r) \in Nat
           /\ Cardinality(r.left) \in Nat /\ 3 * Cardinality(r.left) <= Visits(r)
           /\ IsFiniteSet(r.left) /\ IsFiniteSet(r.todo)
  <1>1. IsFiniteSet(r.left) /\ Cardinality(r.left) \in Nat
    BY FS_Subset, FS_CardinalityType, SyncAssumption DEF SyncTyped
  <1>2. Visits(r) \in Nat /\ 3 * Cardinality(r.left) <= Visits(r)
    <2>1. PICK n : n = Cardinality(r.left)
      OBVIOUS
    <2> QED BY <1>1, <2>1 DEF Visits
  <1>3. IsFiniteSet(r.todo) /\ Cardinality(r.todo) \in Nat
    BY SpansFinite, FS_Subset, FS_CardinalityType DEF SyncTyped
  <1>4. Cardinality(Parts(r.batches)) \in Nat
    BY PartsFinite, FS_CardinalityType DEF SyncTyped
  <1>5. Attempts(r) \in Nat
    <2>1. r.tries \in Nat /\ r.tries <= MaxRetries /\ MaxRetries \in Nat
      BY SyncAssumption DEF SyncTyped
    <2> QED BY <2>1 DEF Attempts
  <1> QED BY <1>1, <1>2, <1>3, <1>4, <1>5

(* Nothing comes nearer for ever: of any states of a sync there is one     *)
(* that none of the others is nearer than.                                 *)
THEOREM NearerEnds ==
    ASSUME NEW S, S # {}, \A r \in S : SyncTyped(r)
    PROVE  \E m \in S : \A r \in S : ~Nearer(r, m)
  <1>0. \A r \in S : /\ Visits(r) \in Nat /\ Cardinality(r.todo) \in Nat
                     /\ Cardinality(Parts(r.batches)) \in Nat
                     /\ Attempts(r) \in Nat
    BY Counted
  <1> DEFINE V == {Visits(r) : r \in S}
  <1>1. PICK v \in V : \A n \in V : v <= n
    <2>1. V \subseteq Nat /\ V # {}
      BY <1>0
    <2> HIDE DEF V
    <2> QED BY <2>1, LeastOf
  <1> DEFINE S1 == {r \in S : Visits(r) = v}
             T == {Cardinality(r.todo) : r \in S1}
  <1>2. PICK t \in T : \A n \in T : t <= n
    <2>1. T \subseteq Nat /\ T # {}
      BY <1>0, <1>1
    <2> HIDE DEF T
    <2> QED BY <2>1, LeastOf
  <1> DEFINE S2 == {r \in S1 : Cardinality(r.todo) = t}
             P == {Cardinality(Parts(r.batches)) : r \in S2}
  <1>3. PICK k \in P : \A n \in P : k <= n
    <2>1. P \subseteq Nat /\ P # {}
      BY <1>0, <1>2
    <2> HIDE DEF P
    <2> QED BY <2>1, LeastOf
  <1> DEFINE S3 == {r \in S2 : Cardinality(Parts(r.batches)) = k}
             A == {Attempts(r) : r \in S3}
  <1>4. PICK a \in A : \A n \in A : a <= n
    <2>1. A \subseteq Nat /\ A # {}
      BY <1>0, <1>3
    <2> HIDE DEF A
    <2> QED BY <2>1, LeastOf
  <1>5. PICK m \in S3 : Attempts(m) = a
    BY <1>4
  <1>6. ASSUME NEW r \in S, Nearer(r, m) PROVE FALSE
    <2>0. /\ m \in S /\ Visits(m) = v /\ Cardinality(m.todo) = t
          /\ Cardinality(Parts(m.batches)) = k
          /\ v \in Nat /\ t \in Nat /\ k \in Nat /\ a \in Nat
      BY <1>0, <1>5
    <2>1. v <= Visits(r) /\ Visits(r) \in Nat
      BY <1>0, <1>1
    <2>2. Visits(r) = v
      BY <1>6, <2>0, <2>1 DEF Nearer
    <2>3. t <= Cardinality(r.todo) /\ Cardinality(r.todo) \in Nat
      BY <1>0, <1>2, <2>2
    <2>4. Cardinality(r.todo) = t
      BY <1>6, <2>0, <2>1, <2>2, <2>3 DEF Nearer
    <2>5. k <= Cardinality(Parts(r.batches)) /\ Cardinality(Parts(r.batches)) \in Nat
      BY <1>0, <1>3, <2>2, <2>4
    <2>6. Cardinality(Parts(r.batches)) = k
      BY <1>6, <2>0, <2>2, <2>3, <2>4, <2>5 DEF Nearer
    <2>7. a <= Attempts(r) /\ Attempts(r) \in Nat
      BY <1>0, <1>4, <2>2, <2>4, <2>6
    <2> QED BY <1>5, <1>6, <2>0, <2>2, <2>4, <2>6, <2>7 DEF Nearer
  <1> QED BY <1>5, <1>6

(* The next source is one of those left.                                   *)
LEMMA NextSourceNearer ==
    ASSUME NEW old, SyncTyped(old), NEW rec, rec.left = old.left
    PROVE  NextSource(rec).pc = "idle" \/ Nearer(NextSource(rec), old)
  <1>1. CASE rec.left = {}
    BY <1>1, IdleTyped DEF NextSource
  <1>2. CASE rec.left # {}
    <2>1. PICK src : src = Min(rec.left)
      OBVIOUS
    <2>2. src \in old.left
      BY <1>2, <2>1, MinIn, ConstantFacts DEF SyncTyped
    <2>3. PICK r : r = Turn(rec, src)
      OBVIOUS
    <2>4. r.pc = "discover" /\ r.left = old.left \ {src}
      BY <2>3 DEF Turn, Idle
    <2>5. Cardinality(r.left) = Cardinality(old.left) - 1
      BY <2>2, <2>4, Counted, FS_RemoveElement
    <2>6. Visits(r) = 3 * Cardinality(r.left) + 2
      BY <2>4 DEF Visits
    <2>7. Visits(r) < Visits(old)
      <3>1. PICK m, n : m = Cardinality(r.left) /\ n = Cardinality(old.left)
        OBVIOUS
      <3>2. n \in Nat /\ 3 * n <= Visits(old) /\ Visits(old) \in Nat
        BY <3>1, Counted
      <3> QED BY <2>5, <2>6, <3>1, <3>2
    <2> QED BY <1>2, <2>1, <2>3, <2>7 DEF NextSource, Nearer
  <1> QED BY <1>1, <1>2

(* What comes after a batch, or after a capture that has nothing to post.  *)
LEMMA AfterBatchNearer ==
    ASSUME NEW old, SyncTyped(old), old.pc \in {"capture", "post"},
           NEW rec, SyncTyped(rec), rec.left = old.left,
           NEW rest,
           \/ Cardinality(rec.todo) < Cardinality(old.todo)
           \/ /\ rec.todo = old.todo
              /\ Cardinality(Parts(rest)) < Cardinality(Parts(old.batches))
    PROVE  AfterBatch(rec, rest).pc = "idle"
           \/ Nearer(AfterBatch(rec, rest), old)
  <1>1. ASSUME NEW r, r.pc \in {"capture", "post"}, r.left = rec.left,
               r.todo = rec.todo, r.batches = rest
        PROVE  Nearer(r, old)
    <2>1. Visits(r) = Visits(old)
      BY <1>1 DEF Visits
    <2> QED BY <1>1, <2>1 DEF Nearer
  <1>2. CASE rest # {}
    <2>1. PICK r : r = Post(rec, rest)
      OBVIOUS
    <2>2. /\ r.pc = "post" /\ r.left = rec.left /\ r.todo = rec.todo
          /\ r.batches = rest
      BY <2>1 DEF Post, Shaped, Fields, SyncTyped
    <2> QED BY <1>1, <1>2, <2>1, <2>2 DEF AfterBatch
  <1>3. CASE rest = {} /\ rec.todo # {}
    <2>1. PICK r : r = [rec EXCEPT !.pc = "capture", !.span = NoSpan,
                                   !.ver = Idle.ver, !.batches = {},
                                   !.tries = 0, !.fresh = FALSE]
      OBVIOUS
    <2>2. /\ r.pc = "capture" /\ r.left = rec.left /\ r.todo = rec.todo
          /\ r.batches = rest
      BY <1>3, <2>1 DEF Shaped, Fields, SyncTyped
    <2>3. AfterBatch(rec, rest) = r
      BY <1>3, <2>1 DEF AfterBatch, NextSpan
    <2>4. Nearer(r, old)
      BY <1>1, <2>2
    <2> QED BY <2>3, <2>4
  <1>4. CASE rest = {} /\ rec.todo = {}
    BY <1>4, NextSourceNearer DEF AfterBatch, NextSpan
  <1> QED BY <1>2, <1>3, <1>4

(* A body that is posted, or replaced by smaller ones, is contained in     *)
(* none of those that are left.                                            *)
LEMMA BodyGone ==
    ASSUME NEW batches \in Batches, Disjoint(batches),
           {} \in batches => batches = {{}}, NEW b \in batches,
           NEW pieces \in SUBSET SUBSET b, b \notin pieces
    PROVE  Cardinality(Parts((batches \ {b}) \cup pieces))
              < Cardinality(Parts(batches))
  <1> DEFINE rest == (batches \ {b}) \cup pieces
  <1>1. Parts(rest) \in SUBSET Parts(batches) /\ b \in Parts(batches)
    BY DEF Parts
  <1>2. b \notin Parts(rest)
    <2>1. \A p \in pieces : ~(b \subseteq p)
      OBVIOUS
    <2>2. ASSUME NEW q \in batches \ {b}, b \subseteq q PROVE FALSE
      <3>1. b = {}
        BY <2>2 DEF Disjoint
      <3> QED BY <3>1
    <2> QED BY <2>1, <2>2 DEF Parts
  <1>3. Parts(rest) # Parts(batches)
    BY <1>1, <1>2
  <1> QED BY <1>1, <1>3, PartsFinite, Shrinks

(* Retries and a renewed authorization.                                    *)
LEMMA AgainNearer ==
    ASSUME NEW old, SyncTyped(old), NEW new, SyncTyped(new),
           new.left = old.left, new.pc = old.pc, new.todo = old.todo,
           new.batches = old.batches,
           \/ new.fresh = old.fresh /\ new.tries = old.tries + 1
           \/ ~old.fresh /\ new.fresh /\ new.tries = 0
    PROVE  Nearer(new, old)
  <1>1. Visits(new) = Visits(old)
    BY DEF Visits
  <1>2. Attempts(new) < Attempts(old)
    <2>1. /\ old.tries \in Nat /\ old.tries <= MaxRetries /\ MaxRetries \in Nat
          /\ new.tries \in Nat /\ old.fresh \in BOOLEAN
      BY SyncAssumption DEF SyncTyped
    <2>2. CASE new.fresh = old.fresh /\ new.tries = old.tries + 1
      BY <2>1, <2>2 DEF Attempts
    <2>3. CASE ~old.fresh /\ new.fresh /\ new.tries = 0
      <3>1. /\ Attempts(old) = MaxRetries + 1 + MaxRetries - old.tries
            /\ Attempts(new) = 0 + MaxRetries - 0
        BY <2>3 DEF Attempts
      <3> QED BY <2>1, <3>1
    <2> QED BY <2>2, <2>3
  <1> QED BY <1>1, <1>2 DEF Nearer

-----------------------------------------------------------------------------
(* Action by action.                                                       *)
Comes(c) == sync'[c].pc = "idle" \/ Nearer(sync'[c], sync[c])

LEMMA ComesTo ==
    ASSUME JInv, NEW c \in Clients, NEW r, sync' = [sync EXCEPT ![c] = r],
           r.pc = "idle" \/ Nearer(r, sync[c])
    PROVE  Comes(c)
  <1>1. sync'[c] = r
    BY DEF JInv, TypeOK
  <1> QED BY <1>1 DEF Comes

LEMMA EndsIdle ==
    ASSUME JInv, NEW c \in Clients, sync' = [sync EXCEPT ![c] = Idle]
    PROVE  Comes(c)
  <1>1. PICK r : r = Idle
    OBVIOUS
  <1> QED BY <1>1, IdleTyped, ComesTo

LEMMA DiscoverComes == ASSUME JInv, NEW c \in Clients, Discover(c) PROVE Comes(c)
  <1>1. PICK rec : rec = sync[c] /\ SyncTyped(rec)
    BY ClientTyped
  <1>2. CASE sync' = [sync EXCEPT ![c] = NextSource(rec)]
    <2>1. PICK r : r = NextSource(rec)
      OBVIOUS
    <2>2. r.pc = "idle" \/ Nearer(r, rec)
      BY <1>1, <2>1, NextSourceNearer
    <2> QED BY <1>1, <1>2, <2>1, <2>2, ComesTo
  <1>3. ASSUME NEW sp \in Spans,
               sync' = [sync EXCEPT ![c] =
                    IF rec.force THEN [rec EXCEPT !.pc = "capture", !.todo = {sp}]
                    ELSE [rec EXCEPT !.pc = "plan", !.offered = sp]]
        PROVE  Comes(c)
    <2>1. PICK r : r = IF rec.force
                       THEN [rec EXCEPT !.pc = "capture", !.todo = {sp}]
                       ELSE [rec EXCEPT !.pc = "plan", !.offered = sp]
      OBVIOUS
    <2>2. r.pc \in {"capture", "plan"} /\ r.left = rec.left
      BY <1>1, <2>1 DEF SyncTyped, Shaped, Fields
    <2>3. Nearer(r, rec)
      <3>1. PICK n : n = Cardinality(rec.left)
        OBVIOUS
      <3>2. n \in Nat
        BY <1>1, <3>1, Counted
      <3>3. rec.pc = "discover"
        BY <1>1 DEF Discover
      <3>4. Visits(rec) = 3 * n + 2 /\ Visits(r) <= 3 * n + 1
        BY <2>2, <3>1, <3>2, <3>3 DEF Visits
      <3>5. Visits(r) \in Nat
        BY <2>2, <3>1, <3>2 DEF Visits
      <3>6. Visits(r) < Visits(rec)
        BY <3>2, <3>4, <3>5
      <3> QED BY <3>6 DEF Nearer
    <2> QED BY <1>1, <1>3, <2>1, <2>3, ComesTo
  <1>4. \A src : Available(c, src) \subseteq Spans
    BY DEF Available
  <1> QED BY <1>1, <1>2, <1>3, <1>4 DEF Discover

LEMMA PlanComes == ASSUME JInv, NEW c \in Clients, Plan(c) PROVE Comes(c)
  <1>1. PICK rec : rec = sync[c] /\ SyncTyped(rec)
    BY ClientTyped
  <1>2. PICK needed : needed = Needed(sync[c].offered, coverage[sync[c].src])
    OBVIOUS
  <1>3. PICK r : r = IF needed = {} THEN NextSource(rec)
                     ELSE [rec EXCEPT !.pc = "capture", !.todo = needed,
                                      !.offered = NoSpan]
    OBVIOUS
  <1>4. sync' = [sync EXCEPT ![c] = r]
    BY <1>1, <1>2, <1>3 DEF Plan
  <1>5. CASE needed = {}
    <2>1. r.pc = "idle" \/ Nearer(r, rec)
      BY <1>1, <1>3, <1>5, NextSourceNearer
    <2> QED BY <1>1, <1>4, <2>1, ComesTo
  <1>6. CASE needed # {}
    <2>1. r.pc = "capture" /\ r.left = rec.left
      BY <1>1, <1>3, <1>6 DEF SyncTyped, Shaped, Fields
    <2>2. PICK n : n = Cardinality(rec.left)
      OBVIOUS
    <2>3. n \in Nat
      BY <1>1, <2>2, Counted
    <2>4. rec.pc = "plan"
      BY <1>1 DEF Plan
    <2>5. Visits(rec) = 3 * n + 1 /\ Visits(r) = 3 * n
      BY <2>1, <2>2, <2>3, <2>4 DEF Visits
    <2>6. Visits(r) < Visits(rec)
      BY <2>3, <2>5
    <2>7. Nearer(r, rec)
      BY <2>6 DEF Nearer
    <2> QED BY <1>1, <1>4, <2>7, ComesTo
  <1> QED BY <1>5, <1>6

LEMMA CaptureComes ==
    ASSUME JInv, NEW c \in Clients, NEW sp \in sync[c].todo,
           NEW read \in SUBSET Sessions, Capture(c, sp, read)
    PROVE  Comes(c)
  <1>1. PICK old : old = sync[c] /\ SyncTyped(old)
    BY ClientTyped
  <1>2. PICK ver : ver = [s \in Sessions |->
                             IF s \in read THEN mtime[s] ELSE Absent]
    OBVIOUS
  <1>3. ver \in [Sessions -> Times \cup {Absent}]
    BY <1>2 DEF JInv, TypeOK
  <1>4. PICK batches : batches = Bodies(read)
    OBVIOUS
  <1>5. PICK rec : rec = [old EXCEPT !.span = sp, !.todo = old.todo \ {sp},
                                     !.ver = ver]
    OBVIOUS
  <1>6. /\ Shaped(rec) /\ rec.pc = old.pc /\ rec.force = old.force
        /\ rec.ignore = old.ignore /\ rec.src = old.src /\ rec.left = old.left
        /\ rec.todo = old.todo \ {sp} /\ rec.offered = old.offered
        /\ rec.span = sp /\ rec.ver = ver /\ rec.batches = old.batches
        /\ rec.tries = old.tries /\ rec.fresh = old.fresh
    BY <1>1, <1>5 DEF SyncTyped, Shaped, Fields
  <1>7. SyncTyped(rec)
    BY <1>1, <1>3, <1>6 DEF SyncTyped
  <1>8. Cardinality(rec.todo) < Cardinality(old.todo)
    <2>1. IsFiniteSet(old.todo) /\ rec.todo \in SUBSET old.todo
          /\ rec.todo # old.todo
      BY <1>1, <1>6, Counted
    <2> QED BY <2>1, Shrinks
  <1>9. PICK r : r = AfterBatch(rec, batches)
    OBVIOUS
  <1>10. old.pc \in {"capture", "post"}
    BY <1>1 DEF Capture
  <1>11. r.pc = "idle" \/ Nearer(r, old)
    BY <1>1, <1>6, <1>7, <1>8, <1>9, <1>10, AfterBatchNearer
  <1>12. sync' = [sync EXCEPT ![c] = r]
    BY <1>1, <1>2, <1>4, <1>5, <1>9 DEF Capture
  <1> QED BY <1>1, <1>11, <1>12, ComesTo

(* The body in hand is one of those left to post.                          *)
LEMMA BodyInHand ==
    ASSUME JInv, NEW c \in Clients, sync[c].pc = "post"
    PROVE  /\ sync[c].batches \in Batches /\ Disjoint(sync[c].batches)
           /\ {} \in sync[c].batches => sync[c].batches = {{}}
           /\ Body(c) \in sync[c].batches /\ Body(c) \in SUBSET Sessions
  <1>1. PICK rec : rec = sync[c] /\ SyncTyped(rec) /\ Bodied(rec)
    BY ClientTyped
  <1>2. /\ rec.batches \in Batches /\ rec.batches # {}
        /\ Disjoint(rec.batches)
        /\ {} \in rec.batches => rec.batches = {{}}
    BY <1>1 DEF Bodied, Postable
  <1>3. NextBatch(rec.batches) \in rec.batches
    BY <1>2, FirstBody
  <1> QED BY <1>1, <1>2, <1>3 DEF Body, Batches

LEMMA PostedComes == ASSUME JInv, NEW c \in Clients, Posted(c) PROVE Comes(c)
  <1>1. PICK rec : rec = sync[c] /\ SyncTyped(rec)
    BY ClientTyped
  <1>2. PICK b : b = Body(c)
    OBVIOUS
  <1>3. rec.pc = "post"
    BY <1>1 DEF Posted, Received
  <1>4. /\ rec.batches \in Batches /\ Disjoint(rec.batches)
        /\ {} \in rec.batches => rec.batches = {{}}
        /\ b \in rec.batches
    BY <1>1, <1>2, <1>3, BodyInHand
  <1>5. PICK rest : rest = (rec.batches \ {b}) \cup {}
    OBVIOUS
  <1>6. Cardinality(Parts(rest)) < Cardinality(Parts(rec.batches))
    BY <1>4, <1>5, BodyGone
  <1>7. PICK r : r = AfterBatch(rec, rest)
    OBVIOUS
  <1>8. r.pc = "idle" \/ Nearer(r, rec)
    BY <1>1, <1>3, <1>6, <1>7, AfterBatchNearer
  <1>9. sync' = [sync EXCEPT ![c] = r]
    <2>1. rest = rec.batches \ {b}
      BY <1>5
    <2> QED BY <1>1, <1>2, <1>7, <2>1 DEF Posted
  <1> QED BY <1>1, <1>8, <1>9, ComesTo

LEMMA TooLargeComes == ASSUME JInv, NEW c \in Clients, TooLarge(c) PROVE Comes(c)
  <1>1. PICK rec : rec = sync[c] /\ SyncTyped(rec)
    BY ClientTyped
  <1>2. PICK b : b = Body(c)
    OBVIOUS
  <1>3. rec.pc = "post" /\ Weight(b) > ServerLimit
    BY <1>1, <1>2 DEF TooLarge
  <1>4. /\ rec.batches \in Batches /\ Disjoint(rec.batches)
        /\ {} \in rec.batches => rec.batches = {{}}
        /\ b \in rec.batches /\ b \in SUBSET Sessions
    BY <1>1, <1>2, <1>3, BodyInHand
  <1>5. b # {} /\ Weight(b) \in Nat /\ Weight(b) > 0
    BY <1>3, <1>4, EmptyWeight, WeightNumber, SyncAssumption
  <1>6. PICK pieces : pieces = IF Cardinality(b) = 1 THEN {}
                               ELSE Split(b, ResplitCap(b))
    OBVIOUS
  <1>7. pieces \in SUBSET SUBSET b /\ b \notin pieces
    <2>1. PICK cap : cap = ResplitCap(b)
      OBVIOUS
    <2>2. /\ PiecesOf(Split(b, cap), b)
          /\ \A p \in Split(b, cap) : Weight(p) <= cap
      BY <1>4, <1>5, SplitPieces DEF Fitting
    <2>3. ~(Weight(b) <= cap)
      <3>1. PICK w : w = Weight(b)
        OBVIOUS
      <3>2. cap = w \div 2
        BY <2>1, <3>1 DEF ResplitCap
      <3> QED BY <1>5, <3>1, <3>2
    <2> QED BY <1>6, <2>1, <2>2, <2>3 DEF PiecesOf
  <1>8. PICK rest : rest = (rec.batches \ {b}) \cup pieces
    OBVIOUS
  <1>9. Cardinality(Parts(rest)) < Cardinality(Parts(rec.batches))
    BY <1>4, <1>7, <1>8, BodyGone
  <1>10. PICK r : r = AfterBatch(rec, rest)
    OBVIOUS
  <1>11. r.pc = "idle" \/ Nearer(r, rec)
    BY <1>1, <1>3, <1>9, <1>10, AfterBatchNearer
  <1>12. sync' = [sync EXCEPT ![c] = r]
    BY <1>1, <1>2, <1>6, <1>8, <1>10 DEF TooLarge
  <1> QED BY <1>1, <1>11, <1>12, ComesTo

LEMMA RetryComes == ASSUME JInv, NEW c \in Clients, Retry(c) PROVE Comes(c)
  <1>1. PICK rec : rec = sync[c] /\ SyncTyped(rec)
    BY ClientTyped
  <1>2. CASE /\ rec.tries < MaxRetries
             /\ sync' = [sync EXCEPT ![c].tries = @ + 1]
    <2>1. PICK r : r = [rec EXCEPT !.tries = rec.tries + 1]
      OBVIOUS
    <2>2. /\ Shaped(r) /\ r.pc = rec.pc /\ r.force = rec.force
          /\ r.ignore = rec.ignore /\ r.src = rec.src /\ r.left = rec.left
          /\ r.todo = rec.todo /\ r.offered = rec.offered
          /\ r.span = rec.span /\ r.ver = rec.ver /\ r.batches = rec.batches
          /\ r.tries = rec.tries + 1 /\ r.fresh = rec.fresh
      BY <1>1, <2>1 DEF SyncTyped, Shaped, Fields
    <2>3. r.tries \in 0 .. MaxRetries
      BY <1>1, <1>2, <2>2, SyncAssumption DEF SyncTyped
    <2>4. SyncTyped(r)
      BY <1>1, <2>2, <2>3 DEF SyncTyped
    <2>5. Nearer(r, rec)
      BY <1>1, <2>2, <2>4, AgainNearer
    <2>6. sync' = [sync EXCEPT ![c] = r]
      BY <1>1, <1>2, <2>1
    <2> QED BY <1>1, <2>5, <2>6, ComesTo
  <1>3. CASE Fail(c)
    BY <1>3, EndsIdle DEF Fail
  <1> QED BY <1>1, <1>2, <1>3 DEF Retry

LEMMA UnauthorizedComes ==
    ASSUME JInv, NEW c \in Clients, Unauthorized(c) PROVE Comes(c)
  <1>1. PICK rec : rec = sync[c] /\ SyncTyped(rec)
    BY ClientTyped
  <1>2. CASE /\ ~rec.fresh
             /\ sync' = [sync EXCEPT ![c] = [@ EXCEPT !.fresh = TRUE,
                                                      !.tries = 0]]
    <2>1. PICK r : r = [rec EXCEPT !.fresh = TRUE, !.tries = 0]
      OBVIOUS
    <2>2. /\ Shaped(r) /\ r.pc = rec.pc /\ r.force = rec.force
          /\ r.ignore = rec.ignore /\ r.src = rec.src /\ r.left = rec.left
          /\ r.todo = rec.todo /\ r.offered = rec.offered
          /\ r.span = rec.span /\ r.ver = rec.ver /\ r.batches = rec.batches
          /\ r.tries = 0 /\ r.fresh = TRUE
      BY <1>1, <2>1 DEF SyncTyped, Shaped, Fields
    <2>3. r.tries \in 0 .. MaxRetries
      BY <2>2, SyncAssumption
    <2>4. SyncTyped(r)
      BY <1>1, <2>2, <2>3 DEF SyncTyped
    <2>5. Nearer(r, rec)
      BY <1>1, <1>2, <2>2, <2>4, AgainNearer
    <2>6. sync' = [sync EXCEPT ![c] = r]
      BY <1>1, <1>2, <2>1
    <2> QED BY <1>1, <2>5, <2>6, ComesTo
  <1>3. CASE Fail(c)
    BY <1>3, EndsIdle DEF Fail
  <1> QED BY <1>1, <1>2, <1>3 DEF Unauthorized

LEMMA SyncStepComes ==
    ASSUME JInv, NEW c \in Clients, SyncStep(c) PROVE Comes(c)
  <1>1. CASE Discover(c) \/ Plan(c)
    BY <1>1, DiscoverComes, PlanComes
  <1>2. CASE PlanFails(c)
    BY <1>2, EndsIdle DEF PlanFails
  <1>3. CASE \E sp \in sync[c].todo, read \in SUBSET Sessions :
                 Capture(c, sp, read)
    BY <1>3, CaptureComes
  <1>4. CASE Posted(c) \/ Unauthorized(c) \/ TooLarge(c)
    BY <1>4, PostedComes, UnauthorizedComes, TooLargeComes
  <1>5. CASE AnswerLost(c) \/ NotDelivered(c)
    BY <1>5, RetryComes DEF AnswerLost, NotDelivered
  <1> QED BY <1>1, <1>2, <1>3, <1>4, <1>5 DEF SyncStep

(* A step that is not the sync's own leaves it where it is or ends it.     *)
LEMMA SyncFrame ==
    ASSUME JInv, NEW c \in Clients, SyncStep(c)
    PROVE  \E r : sync' = [sync EXCEPT ![c] = r]
  <1>1. CASE Retry(c) \/ Unauthorized(c)
    <2>1. CASE sync' = [sync EXCEPT ![c].tries = @ + 1]
      BY <2>1
    <2>2. CASE sync' = [sync EXCEPT ![c] = [@ EXCEPT !.fresh = TRUE, !.tries = 0]]
      BY <2>2
    <2> QED BY <1>1, <2>1, <2>2 DEF Retry, Unauthorized, Fail
  <1> QED
    BY <1>1 DEF SyncStep, Discover, Plan, PlanFails, Capture, Posted,
                AnswerLost, NotDelivered, TooLarge

LEMMA OthersLeaveIt ==
    ASSUME JInv, [Next]_vars, NEW c \in Clients, sync[c].pc # "idle",
           ~SyncStep(c)
    PROVE  sync'[c].pc = "idle" \/ sync'[c] = sync[c]
  <1>1. ASSUME NEW d \in Clients, d # c, NEW r, sync' = [sync EXCEPT ![d] = r]
        PROVE  sync'[c] = sync[c]
    BY <1>1 DEF JInv, TypeOK
  <1>2. CASE \E d \in Clients : SyncStep(d)
    BY <1>1, <1>2, SyncFrame
  <1>3. CASE \E d \in Clients, force \in BOOLEAN, ignore \in {{}, Noisy},
                selected \in SUBSET Sources \ {{}} :
                 StartSync(d, force, selected, ignore)
    BY <1>1, <1>3 DEF StartSync
  <1>4. CASE \E d \in Clients : Killed(d)
    <2>1. PICK d \in Clients : Killed(d)
      BY <1>4
    <2>2. CASE d = c
      BY <2>1, <2>2, EndsIdle, IdleTyped DEF Killed, JInv, TypeOK
    <2>3. CASE d # c
      BY <1>1, <2>1, <2>3 DEF Killed
    <2> QED BY <2>2, <2>3
  <1>5. CASE Tick \/ (\E s \in Sessions : Write(s)) \/ UNCHANGED vars
    BY <1>5 DEF Tick, Write, vars
  <1> QED BY <1>2, <1>3, <1>4, <1>5 DEF Next

(* The part of SyncEnds that needs no fairness.                            *)
THEOREM SyncsDescend == Spec => SyncDescends
  <1>1. JInv /\ [Next]_vars =>
           [\A c \in Clients : sync[c].pc # "idle" =>
               \/ sync'[c].pc = "idle"
               \/ IF SyncStep(c) THEN Nearer(sync'[c], sync[c])
                  ELSE sync'[c] = sync[c]]_vars
    <2> SUFFICES ASSUME JInv, [Next]_vars, NEW c \in Clients,
                        sync[c].pc # "idle"
                 PROVE  \/ sync'[c].pc = "idle"
                        \/ IF SyncStep(c) THEN Nearer(sync'[c], sync[c])
                           ELSE sync'[c] = sync[c]
      OBVIOUS
    <2> QED BY SyncStepComes, OthersLeaveIt DEF Comes
  <1> QED BY <1>1, TypedAndBodied, PTL DEF Spec, SyncDescends

=============================================================================
