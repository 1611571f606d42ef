------------------------- MODULE ExtensionScanProofs -------------------------
(***************************************************************************)
(* What ExtensionScan.tla shows of small instances, for every number of    *)
(* conversations, pages and failures: no conversation is lost in a span    *)
(* that the server considers covered, unless it moved while it was listed. *)
(*                                                                         *)
(* The invariant follows the span from the list to the server: what it     *)
(* holds is in the list, then in what was fetched, then with the server,   *)
(* and a conversation that goes on leaves every span in use, because all   *)
(* of them end by now.                                                     *)
(*                                                                         *)
(* Then the types: the paging of a list that is reordered meanwhile never  *)
(* passes its end; and last that a scan takes a bounded number of steps.   *)
(***************************************************************************)
EXTENDS ExtensionScan, FiniteSetTheorems, WellFoundedInduction, TLAPS

Fields == {"pc", "force", "offset", "list", "offered", "todo", "span", "got"}
Shaped(r) == r = [f \in Fields |-> r[f]]

(* An upload: its span lies in the past, what was fetched for it is no     *)
(* newer than what is there, and every conversation of the span is in it   *)
(* as it is.                                                               *)
Carries(sp, got) ==
    /\ sp \in Spans /\ sp.end <= now
    /\ \A c \in DOMAIN got :
          c \in Conversations /\ got[c] \in Nat \ {0} /\ got[c] <= updated[c]
    /\ \A c \in Dated : updated[c] \in Slots(sp) =>
          c \in missed \/ (c \in DOMAIN got /\ got[c] = updated[c])

HasPackable(got) == DOMAIN got \subseteq Unpackable => DOMAIN got = {}

(* A scan: once it has offered a span, what lies before the end of that    *)
(* span is in its list.                                                    *)
Listed(r) ==
    \A c \in Dated : updated[c] < r.offered.end =>
        Entry(c) \in r.list \/ c \in missed

Proper(r) ==
    /\ Shaped(r)
    /\ r.offered.end \in Nat /\ r.offered.end <= now
    /\ \A sp \in r.todo : sp \in Spans /\ sp.end <= r.offered.end
    /\ \A e \in r.list : e.id \in Existing
    /\ r.pc \in {"plan", "fetch", "upload"} => Listed(r)
    /\ r.pc = "upload" => Carries(r.span, r.got)

Typed ==
    /\ now \in Nat \ {0} /\ updated \in [Conversations -> Nat]
    /\ held \in [Conversations -> Nat] /\ coverage \subseteq Nat

InThePast ==
    /\ \A c \in Conversations : updated[c] <= now /\ held[c] <= updated[c]
    /\ \A t \in coverage : t < now

AdriftCarries ==
    \A post \in adrift : Carries(post.span, post.got) /\ HasPackable(post.got)

IInv ==
    /\ Typed /\ InThePast /\ Proper(scan) /\ AdriftCarries
    /\ CoveredIsAccounted /\ UnpackableNotAlone

-----------------------------------------------------------------------------
LEMMA ConstantFacts ==
    /\ MaxTime \in Nat \ {0} /\ Times \subseteq Nat /\ NoSpan.end = 1
    /\ Conversations \subseteq Nat
    /\ \A sp \in Spans : sp.start \in Nat /\ sp.end \in Nat
  BY ScanAssumption, TimeAssumption DEF Times, Spans, NoSpan

LEMMA SlotsEnd ==
    ASSUME NEW sp \in Spans, NEW t \in Slots(sp)
    PROVE  t \in Nat /\ t < sp.end
  BY ConstantFacts DEF Slots

LEMMA IdleProper == Typed => Proper(Idle)
  <1> SUFFICES ASSUME Typed PROVE Proper(Idle)
    OBVIOUS
  <1>1. Shaped(Idle)
    BY DEF Shaped, Fields, Idle
  <1>2. /\ Idle.offered = NoSpan /\ Idle.todo = {} /\ Idle.list = {}
        /\ Idle.pc = "idle"
    BY DEF Idle
  <1> QED BY <1>1, <1>2, ConstantFacts DEF Proper, Typed

(* The scan goes on with the next span.                                    *)
LEMMA NextSpanProper ==
    Typed /\ Proper(scan) /\ scan.pc = "upload" => Proper(NextSpan)
  <1> SUFFICES ASSUME Typed, Proper(scan), scan.pc = "upload"
               PROVE  Proper(NextSpan)
    OBVIOUS
  <1>1. CASE scan.todo = {}
    BY <1>1, IdleProper DEF NextSpan
  <1>2. CASE scan.todo # {}
    <2> DEFINE r == [scan EXCEPT !.pc = "fetch"]
    <2>1. /\ Shaped(r) /\ r.pc = "fetch" /\ r.offered = scan.offered
          /\ r.todo = scan.todo /\ r.list = scan.list
      BY DEF Shaped, Fields, Proper
    <2>2. Proper(r)
      BY <2>1 DEF Proper, Listed
    <2> QED BY <1>2, <2>2 DEF NextSpan
  <1> QED BY <1>1, <1>2

-----------------------------------------------------------------------------
(* What uploads and scans keep of the time and the conversations: nothing  *)
(* changes, the span that is offered ends, a conversation goes on, time    *)
(* passes.                                                                 *)
Calm ==
    /\ now' \in Nat /\ now <= now' /\ missed \subseteq missed'
    /\ updated' = updated

LEMMA CalmCarries ==
    ASSUME Typed, Calm, NEW sp, NEW got, Carries(sp, got)
    PROVE  Carries(sp, got)'
  <1>1. Dated' = Dated
    BY DEF Calm, Dated, Existing
  <1>2. sp.end \in Nat
    BY ConstantFacts DEF Carries
  <1> QED BY <1>1, <1>2 DEF Calm, Carries, Typed

LEMMA CalmProper ==
    ASSUME Typed, Calm, NEW r, Proper(r)
    PROVE  Proper(r)'
  <1>1. Dated' = Dated /\ Existing' = Existing
    BY DEF Calm, Dated, Existing
  <1>2. \A c \in Dated : Entry(c)' = Entry(c)
    BY DEF Calm, Entry
  <1>3. Listed(r) => Listed(r)'
    BY <1>1, <1>2 DEF Listed, Calm
  <1>4. r.pc = "upload" => Carries(r.span, r.got)'
    BY CalmCarries DEF Proper
  <1> QED BY <1>1, <1>3, <1>4 DEF Proper, Calm, Typed

LEMMA ChatDated ==
    ASSUME Typed, NEW c \in Conversations, Chat(c)
    PROVE  /\ \A d \in Conversations \ {c} : updated'[d] = updated[d]
           /\ updated'[c] = now /\ Existing' = Existing \cup {c}
           /\ Dated' \subseteq Dated \cup {c}
           /\ updated' \in [Conversations -> Nat]
           /\ \A d \in Conversations \ {c} : d \in missed => d \in missed'
  <1>1. updated' = [updated EXCEPT ![c] = now] /\ missed' = missed \ {c}
    BY DEF Chat
  <1>2. /\ \A d \in Conversations \ {c} : updated'[d] = updated[d]
        /\ updated'[c] = now /\ updated' \in [Conversations -> Nat]
    BY <1>1 DEF Typed
  <1>3. Existing' = Existing \cup {c}
    BY <1>2 DEF Existing, Absent, Typed
  <1> QED BY <1>1, <1>2, <1>3 DEF Dated

LEMMA ChatCarries ==
    ASSUME Typed, InThePast, NEW c \in Conversations, Chat(c),
           NEW sp, NEW got, Carries(sp, got)
    PROVE  Carries(sp, got)'
  <1>1. now' = now
    BY DEF Chat
  <1>2. \A d \in Conversations : updated[d] <= updated'[d]
    BY ChatDated DEF InThePast, Typed
  <1>3. \A d \in DOMAIN got : d \in Conversations /\ got[d] <= updated'[d]
    <2> SUFFICES ASSUME NEW d \in DOMAIN got
                 PROVE  d \in Conversations /\ got[d] <= updated'[d]
      OBVIOUS
    <2>1. /\ d \in Conversations /\ got[d] \in Nat /\ got[d] <= updated[d]
          /\ updated[d] \in Nat /\ updated'[d] \in Nat
      BY ChatDated DEF Carries, Typed
    <2> QED BY <1>2, <2>1
  <1>4. ASSUME NEW d \in Dated', updated'[d] \in Slots(sp)
        PROVE  d \in missed' \/ (d \in DOMAIN got /\ got[d] = updated'[d])
    <2>1. d # c
      BY <1>4, SlotsEnd, ChatDated, ConstantFacts DEF Carries, Typed
    <2>2. d \in Dated /\ d \in Conversations
      BY <2>1, ChatDated DEF Dated, Existing
    <2> QED BY <1>4, <2>1, <2>2, ChatDated DEF Carries
  <1> QED BY <1>1, <1>3, <1>4 DEF Carries

LEMMA ChatProper ==
    ASSUME Typed, InThePast, NEW c \in Conversations, Chat(c), NEW r, Proper(r)
    PROVE  Proper(r)'
  <1>1. now' = now
    BY DEF Chat
  <1>2. ASSUME Listed(r) PROVE Listed(r)'
    <2> SUFFICES ASSUME NEW d \in Dated', updated'[d] < r.offered.end
                 PROVE  Entry(d)' \in r.list \/ d \in missed'
      BY DEF Listed
    <2>1. d # c
      BY ChatDated DEF Proper, Typed
    <2>2. d \in Dated /\ d \in Conversations /\ updated'[d] = updated[d]
      BY <2>1, ChatDated DEF Dated, Existing
    <2>3. Entry(d)' = Entry(d)
      BY <2>2 DEF Entry
    <2> QED BY <1>2, <2>1, <2>2, <2>3, ChatDated DEF Listed
  <1>3. r.pc = "upload" => Carries(r.span, r.got)'
    BY ChatCarries DEF Proper
  <1> QED BY <1>1, <1>2, <1>3, ChatDated DEF Proper

-----------------------------------------------------------------------------
(* What a body leaves behind at the server.                                *)
LEMMA ReceivedKeeps ==
    ASSUME Typed, InThePast, CoveredIsAccounted, UnpackableNotAlone,
           NEW sp, NEW got, Carries(sp, got), HasPackable(got),
           Received(sp, got), UNCHANGED <<now, updated, missed>>
    PROVE  (Typed /\ InThePast /\ CoveredIsAccounted /\ UnpackableNotAlone)'
  <1> DEFINE new(c) == IF c \in DOMAIN got \ Unpackable /\ got[c] > held[c]
                       THEN got[c] ELSE held[c]
  <1>1. /\ coverage' = coverage \cup Slots(sp)
        /\ \A c \in Conversations : held'[c] = new(c)
        /\ DOMAIN held' = Conversations
        /\ held' = [c \in Conversations |-> new(c)]
    BY DEF Received
  <1>2. /\ \A t \in Slots(sp) : t \in Nat /\ t < now
        /\ Dated' = Dated
    <2>1. \A t \in Slots(sp) : t \in Nat /\ t < sp.end /\ sp.end \in Nat
      BY SlotsEnd, ConstantFacts DEF Carries
    <2> QED BY <2>1 DEF Carries, Typed, Dated, Existing
  <1>3. \A c \in Conversations :
           new(c) \in Nat /\ held[c] <= new(c) /\ new(c) <= updated[c]
    BY DEF Typed, InThePast, Carries
  <1>4. Typed' /\ InThePast'
    BY <1>1, <1>2, <1>3 DEF Typed, InThePast
  <1>5. \A c \in DOMAIN got \ Unpackable :
           c \in Conversations /\ got[c] <= new(c)
    BY DEF Typed, Carries
  <1>6. CoveredIsAccounted'
    <2> SUFFICES ASSUME NEW c \in Dated \ Unpackable, updated[c] \in coverage',
                        c \notin missed
                 PROVE  held'[c] = updated[c]
      BY <1>2 DEF CoveredIsAccounted
    <2>1. c \in Conversations /\ held'[c] = new(c) /\ updated[c] \in Nat
      BY <1>1 DEF Dated, Existing, Typed
    <2>2. CASE updated[c] \in coverage
      BY <2>1, <2>2, <1>3 DEF CoveredIsAccounted, Typed
    <2>3. CASE updated[c] \in Slots(sp)
      BY <2>1, <2>3, <1>3, <1>5 DEF Carries
    <2> QED BY <1>1, <2>2, <2>3
  <1>7. UnpackableNotAlone'
    <2> SUFFICES ASSUME NEW c \in Dated \cap Unpackable,
                        updated[c] \in coverage', c \notin missed
                 PROVE  updated[c] \in packed'
      BY <1>2 DEF UnpackableNotAlone
    <2>1. CASE updated[c] \in coverage
      <3>1. updated[c] \in packed
        BY <2>1 DEF UnpackableNotAlone
      <3> QED BY <3>1 DEF Received
    <2>2. CASE updated[c] \in Slots(sp)
      <3>1. ~(DOMAIN got \subseteq Unpackable)
        BY <2>2 DEF Carries, HasPackable
      <3> QED BY <2>2, <3>1 DEF Received
    <2> QED BY <1>1, <2>1, <2>2
  <1> QED BY <1>4, <1>6, <1>7

(* A step in which no conversation goes on and nothing is posted: it is    *)
(* enough that the scan stays proper.                                      *)
LEMMA CalmKeeps ==
    ASSUME IInv, Calm, UNCHANGED <<server, adrift>>, Proper(scan)'
    PROVE  IInv'
  <1>1. Typed' /\ InThePast'
    BY DEF IInv, Calm, Typed, InThePast, server
  <1>2. AdriftCarries'
    BY CalmCarries DEF AdriftCarries, IInv, HasPackable
  <1>3. CoveredIsAccounted' /\ UnpackableNotAlone'
    BY DEF IInv, Calm, CoveredIsAccounted, UnpackableNotAlone, Dated, Existing,
           server
  <1> QED BY <1>1, <1>2, <1>3 DEF IInv

(* An action of the scan alone.                                            *)
LEMMA ScanKeeps ==
    ASSUME IInv, NEW r, Proper(r), scan' = r,
           UNCHANGED <<now, updated, server, adrift, missed>>
    PROVE  IInv'
  <1>1. Calm
    BY DEF Calm, IInv, Typed
  <1>2. Proper(r)'
    BY <1>1, CalmProper DEF IInv
  <1>3. Proper(scan)'
    BY <1>2 DEF Proper, Shaped, Listed, Carries
  <1> QED BY <1>1, <1>3, CalmKeeps

LEMMA StartKeeps == ASSUME IInv, NEW force \in BOOLEAN, Start(force) PROVE IInv'
  <1> DEFINE r == [Idle EXCEPT !.pc = "list", !.force = force]
  <1>1. scan' = r /\ UNCHANGED <<now, updated, server, adrift, missed>>
    BY DEF Start
  <1>2. /\ Shaped(r) /\ r.pc = "list" /\ r.offered = Idle.offered
        /\ r.todo = Idle.todo /\ r.list = Idle.list
    BY DEF Shaped, Fields, Idle
  <1>3. Proper(r)
    BY <1>2, IdleProper DEF Proper, IInv
  <1> QED BY <1>1, <1>3, ScanKeeps

LEMMA ListPageKeeps == ASSUME IInv, ListPage PROVE IInv'
  <1>1. PICK p \in {"list", "offer"} :
           scan' = [scan EXCEPT !.list = scan.list \cup {Entry(c) : c \in Page},
                                !.offset = NextOffset, !.pc = p]
    BY DEF ListPage
  <1>2. UNCHANGED <<now, updated, server, adrift, missed>>
    BY DEF ListPage
  <1>3. PICK r : r = [scan EXCEPT
                         !.list = scan.list \cup {Entry(c) : c \in Page},
                         !.offset = NextOffset, !.pc = p]
    OBVIOUS
  <1>4. /\ Shaped(r) /\ r.pc = p
        /\ r.offered = scan.offered /\ r.todo = scan.todo
        /\ r.list = scan.list \cup {Entry(c) : c \in Page}
    BY <1>3 DEF Shaped, Fields, Proper, IInv
  <1>5. \A e \in r.list : e.id \in Existing
    BY <1>4 DEF Proper, IInv, Entry, Page
  <1>6. Proper(r)
    BY <1>4, <1>5 DEF Proper, IInv
  <1> QED BY <1>1, <1>2, <1>3, <1>6, ScanKeeps

LEMMA OfferKeeps == ASSUME IInv, Offer PROVE IInv'
  <1>1. Calm /\ UNCHANGED <<server, adrift>>
    BY DEF Offer, Calm, IInv, Typed
  <1>2. CASE scan.list = {}
    <2>1. scan' = Idle
      BY <1>2 DEF Offer
    <2>2. PICK r : r = Idle
      OBVIOUS
    <2>3. Proper(r)'
      BY <1>1, <2>2, IdleProper, CalmProper DEF IInv
    <2>4. Proper(scan)'
      BY <2>1, <2>2, <2>3 DEF Proper, Shaped, Listed, Carries
    <2> QED BY <1>1, <2>4, CalmKeeps
  <1>3. CASE scan.list # {}
    <2>1. PICK from :
             scan' = [scan EXCEPT !.offered = [start |-> from, end |-> now],
                                  !.pc = "plan"]
      BY <1>3 DEF Offer
    <2>2. PICK r : r = [scan EXCEPT !.offered = [start |-> from, end |-> now],
                                    !.pc = "plan"]
      OBVIOUS
    <2>3. /\ Shaped(r) /\ r.pc = "plan" /\ r.todo = scan.todo
          /\ r.offered = [start |-> from, end |-> now] /\ r.list = scan.list
      BY <2>2 DEF Shaped, Fields, Proper, IInv
    <2>4. Listed(r)'
      <3>1. /\ Dated' = Dated /\ updated' = updated
            /\ \A c \in Dated : Entry(c)' = Entry(c)
        BY DEF Offer, Dated, Existing, Entry
      <3>2. missed' = missed \cup
               {c \in Dated : updated[c] < now /\ Entry(c) \notin scan.list}
        BY DEF Offer
      <3> QED BY <3>1, <3>2, <2>3 DEF Listed
    <2>5. /\ now' = now /\ now \in Nat /\ scan.offered.end \in Nat
          /\ scan.offered.end <= now
      BY DEF Offer, IInv, Typed, Proper
    <2>6. \A sp \in r.todo : sp \in Spans /\ sp.end <= r.offered.end
      BY <2>3, <2>5, ConstantFacts DEF Proper, IInv
    <2>7. \A e \in r.list : e.id \in Existing'
      BY <2>3 DEF Proper, IInv, Offer, Existing
    <2>8. Proper(r)'
      BY <2>3, <2>4, <2>5, <2>6, <2>7 DEF Proper, Shaped
    <2>9. Proper(scan)'
      BY <2>1, <2>2, <2>8 DEF Proper, Shaped, Listed, Carries
    <2> QED BY <1>1, <2>9, CalmKeeps
  <1> QED BY <1>2, <1>3

LEMMA PlannedKeeps == ASSUME IInv, Planned PROVE IInv'
  <1>1. UNCHANGED <<now, updated, server, adrift, missed>> /\ scan.pc = "plan"
    BY DEF Planned
  <1>2. CASE scan' = Idle
    BY <1>1, <1>2, IdleProper, ScanKeeps DEF IInv
  <1>3. CASE scan' # Idle
    <2>1. PICK needed :
             /\ \/ needed \subseteq {scan.offered} \cap Spans
                \/ needed = Needed(scan.offered, coverage)
             /\ scan' = [scan EXCEPT !.todo = needed, !.pc = "fetch"]
      BY <1>3 DEF Planned
    <2>2. PICK r : r = [scan EXCEPT !.todo = needed, !.pc = "fetch"]
      OBVIOUS
    <2>3. /\ Shaped(r) /\ r.pc = "fetch" /\ r.offered = scan.offered
          /\ r.todo = needed /\ r.list = scan.list
      BY <2>2 DEF Shaped, Fields, Proper, IInv
    <2>4. ASSUME NEW sp \in needed
          PROVE  sp \in Spans /\ sp.end <= scan.offered.end
      <3>1. scan.offered.end \in Nat
        BY DEF IInv, Proper
      <3>2. CASE sp \in {scan.offered} \cap Spans
        BY <3>1, <3>2
      <3>3. CASE sp \in Needed(scan.offered, coverage)
        <4>1. sp \in Spans /\ Slots(sp) \subseteq Slots(scan.offered)
          BY <3>3 DEF Needed
        <4>2. sp.start \in Nat /\ sp.end \in Nat /\ sp.start < sp.end
          BY <4>1, ConstantFacts DEF Spans
        <4>3. sp.end - 1 \in Slots(sp)
          BY <4>2 DEF Slots
        <4>4. sp.end - 1 <= scan.offered.end - 1
          BY <4>1, <4>3 DEF Slots
        <4> QED BY <3>1, <4>1, <4>2, <4>4
      <3> QED BY <2>1, <3>2, <3>3
    <2>5. Proper(r)
      BY <2>3, <2>4, <1>1 DEF Proper, IInv, Listed
    <2> QED BY <1>1, <2>1, <2>2, <2>5, ScanKeeps
  <1> QED BY <1>2, <1>3

LEMMA FetchedKeeps == ASSUME IInv, Fetched PROVE IInv'
  <1>1. /\ UNCHANGED <<now, updated, server, adrift, missed>>
        /\ scan.pc = "fetch"
    BY DEF Fetched
  <1>2. PICK sp \in scan.todo, last \in BOOLEAN :
           scan' = [scan EXCEPT !.span = sp, !.todo = scan.todo \ {sp},
                                !.pc = "upload",
                                !.got = [c \in InSpan(sp, last) |-> updated[c]]]
    BY DEF Fetched
  <1>3. PICK got : got = [c \in InSpan(sp, last) |-> updated[c]]
    OBVIOUS
  <1>4. PICK r : r = [scan EXCEPT !.span = sp, !.todo = scan.todo \ {sp},
                                  !.pc = "upload", !.got = got]
    OBVIOUS
  <1>5. /\ Shaped(r) /\ r.pc = "upload" /\ r.offered = scan.offered
        /\ r.todo = scan.todo \ {sp} /\ r.list = scan.list
        /\ r.span = sp /\ r.got = got
    BY <1>4 DEF Shaped, Fields, Proper, IInv
  <1>6. /\ sp \in Spans /\ sp.end \in Nat /\ sp.end <= scan.offered.end
        /\ scan.offered.end \in Nat /\ scan.offered.end <= now /\ now \in Nat
    BY ConstantFacts DEF IInv, Proper, Typed
  <1>7. \A c \in InSpan(sp, last) : c \in Existing
    BY DEF InSpan, IInv, Proper
  <1>8. \A c \in DOMAIN got :
           c \in Conversations /\ got[c] \in Nat \ {0} /\ got[c] <= updated[c]
    <2> SUFFICES ASSUME NEW c \in InSpan(sp, last)
                 PROVE  /\ c \in Conversations /\ got[c] \in Nat \ {0}
                        /\ got[c] <= updated[c]
      BY <1>3
    <2>1. c \in Conversations /\ updated[c] \in Nat \ {0}
      BY <1>7 DEF Existing, Absent, IInv, Typed
    <2> QED BY <1>3, <2>1
  <1>9. ASSUME NEW c \in Dated, updated[c] \in Slots(sp), c \notin missed
        PROVE  c \in DOMAIN got /\ got[c] = updated[c]
    <2>1. updated[c] \in Nat /\ updated[c] < scan.offered.end
      BY <1>6, <1>9, SlotsEnd
    <2>2. Entry(c) \in scan.list
      BY <1>1, <1>9, <2>1 DEF IInv, Proper, Listed
    <2>3. Entry(c).id = c /\ Entry(c).at = updated[c] /\ Entry(c).at # Absent
      BY DEF Entry, Dated, Existing
    <2>4. c \in InSpan(sp, last)
      BY <1>9, <2>2, <2>3 DEF InSpan
    <2> QED BY <1>3, <2>4
  <1>10. Carries(sp, got)
    BY <1>6, <1>8, <1>9 DEF Carries
  <1>11. Proper(r)
    BY <1>1, <1>5, <1>6, <1>10 DEF IInv, Proper, Listed
  <1> QED BY <1>1, <1>2, <1>3, <1>4, <1>11, ScanKeeps

(* The scan goes on or ends, and the server knows nothing of it.           *)
LEMMA GoesOnKeeps ==
    ASSUME IInv,
           \/ scan' = NextSpan /\ scan.pc = "upload"
           \/ scan' = Idle \/ scan' = scan,
           UNCHANGED <<now, updated, server, adrift, missed>>
    PROVE  IInv'
  <1>1. Proper(NextSpan) \/ scan' # NextSpan \/ scan.pc # "upload"
    BY NextSpanProper DEF IInv
  <1>2. PICK r : r = scan' /\ Proper(r)
    BY <1>1, IdleProper DEF IInv
  <1> QED BY <1>2, ScanKeeps

(* A body reaches the server.                                              *)
LEMMA PostKeeps ==
    ASSUME IInv, NEW sp, NEW got, Carries(sp, got), HasPackable(got),
           Received(sp, got), UNCHANGED <<now, updated, missed>>,
           adrift' \subseteq adrift,
           \/ scan' = NextSpan /\ scan.pc = "upload"
           \/ scan' = scan
    PROVE  IInv'
  <1>1. (Typed /\ InThePast /\ CoveredIsAccounted /\ UnpackableNotAlone)'
    BY ReceivedKeeps DEF IInv
  <1>2. Calm
    BY DEF Calm, IInv, Typed
  <1>3. PICK r : r = scan' /\ Proper(r)
    BY NextSpanProper DEF IInv
  <1>4. Proper(r)'
    BY <1>2, <1>3, CalmProper DEF IInv
  <1>5. Proper(scan)'
    BY <1>3, <1>4 DEF Proper, Shaped, Listed, Carries
  <1>6. AdriftCarries'
    BY <1>2, CalmCarries DEF AdriftCarries, IInv, HasPackable
  <1> QED BY <1>1, <1>5, <1>6 DEF IInv

LEMMA PostedKeeps == ASSUME IInv, Posted PROVE IInv'
  <1>1. PICK sp, got : sp = scan.span /\ got = scan.got
    OBVIOUS
  <1>2. Carries(sp, got) /\ HasPackable(got)
    BY <1>1 DEF IInv, Proper, Posted, Packs, HasPackable
  <1> QED BY <1>1, <1>2, PostKeeps DEF Posted

LEMMA LandsKeeps == ASSUME IInv, NEW post \in adrift, Lands(post) PROVE IInv'
  <1>1. Carries(post.span, post.got) /\ HasPackable(post.got)
    BY DEF IInv, AdriftCarries
  <1> QED BY <1>1, PostKeeps DEF Lands

LEMMA LostKeeps == ASSUME IInv, NEW post \in adrift, Lost(post) PROVE IInv'
  <1>1. AdriftCarries'
    BY DEF Lost, IInv, AdriftCarries, Carries, Dated, Existing
  <1> QED BY <1>1 DEF Lost, IInv, Typed, InThePast, server, Proper, Shaped,
             Listed, Carries, Entry, Dated, Existing, CoveredIsAccounted,
             UnpackableNotAlone

LEMMA TabClosedKeeps == ASSUME IInv, TabClosed PROVE IInv'
  <1>1. Calm
    BY DEF Calm, IInv, Typed, TabClosed
  <1>2. PICK r : r = scan' /\ Proper(r)
    BY IdleProper DEF IInv, TabClosed
  <1>3. Proper(r)'
    BY <1>1, <1>2, CalmProper DEF IInv
  <1>4. Proper(scan)'
    BY <1>2, <1>3 DEF Proper, Shaped, Listed, Carries
  <1>5. AdriftCarries'
    <2> SUFFICES ASSUME NEW post \in adrift'
                 PROVE  Carries(post.span, post.got)' /\ HasPackable(post.got)
      BY DEF AdriftCarries, HasPackable
    <2>1. Carries(post.span, post.got) /\ HasPackable(post.got)
      BY DEF TabClosed, IInv, AdriftCarries, Proper, Packs, HasPackable
    <2> QED BY <1>1, <2>1, CalmCarries DEF IInv
  <1>6. UNCHANGED <<now, updated, server, missed>>
    BY DEF TabClosed
  <1>7. Typed' /\ InThePast' /\ CoveredIsAccounted' /\ UnpackableNotAlone'
    BY <1>6 DEF IInv, Typed, InThePast, server, Dated, Existing,
                CoveredIsAccounted, UnpackableNotAlone
  <1> QED BY <1>4, <1>5, <1>7 DEF IInv

LEMMA TickKeeps == ASSUME IInv, Tick PROVE IInv'
  <1>1. Calm /\ UNCHANGED <<server, adrift>>
    BY DEF Calm, IInv, Typed, Tick
  <1>2. PICK r : r = scan /\ scan' = r
    BY DEF Tick
  <1>3. Proper(r)'
    BY <1>1, <1>2, CalmProper DEF IInv
  <1>4. Proper(scan)'
    BY <1>2, <1>3 DEF Proper, Shaped, Listed, Carries
  <1> QED BY <1>1, <1>4, CalmKeeps

(* A conversation that goes on is in no span that is covered or in use.    *)
LEMMA ChatKeeps == ASSUME IInv, NEW c \in Conversations, Chat(c) PROVE IInv'
  <1>1. /\ UNCHANGED <<now, server, scan, adrift>> /\ Typed /\ InThePast
    BY DEF Chat, IInv
  <1>2. Typed' /\ InThePast'
    BY <1>1, ChatDated DEF Typed, InThePast, server
  <1>3. PICK r : r = scan /\ scan' = r
    BY <1>1
  <1>4. Proper(r)'
    BY <1>1, <1>3, ChatProper DEF IInv
  <1>5. Proper(scan)'
    BY <1>3, <1>4 DEF Proper, Shaped, Listed, Carries
  <1>6. AdriftCarries'
    BY <1>1, ChatCarries DEF AdriftCarries, IInv, HasPackable
  <1>7. ASSUME NEW d \in Dated', updated'[d] \in coverage'
        PROVE  /\ d \in Dated /\ updated[d] \in coverage
               /\ updated'[d] = updated[d] /\ held'[d] = held[d]
               /\ packed' = packed
               /\ d \in missed => d \in missed'
    <2>1. d # c
      BY <1>1, <1>7, ChatDated DEF InThePast, Typed, server
    <2> QED BY <1>1, <1>7, <2>1, ChatDated DEF Dated, Existing, server
  <1>8. CoveredIsAccounted'
    BY <1>7 DEF CoveredIsAccounted, IInv
  <1>9. UnpackableNotAlone'
    BY <1>1, <1>7 DEF UnpackableNotAlone, IInv, server
  <1> QED BY <1>2, <1>5, <1>6, <1>8, <1>9 DEF IInv

-----------------------------------------------------------------------------
LEMMA InitIInv == Init => IInv
  <1> SUFFICES ASSUME Init PROVE IInv
    OBVIOUS
  <1>1. Typed /\ InThePast
    BY ConstantFacts DEF Init, Typed, InThePast, Absent
  <1>2. Proper(scan)
    BY <1>1, IdleProper DEF Init
  <1>3. AdriftCarries /\ CoveredIsAccounted /\ UnpackableNotAlone
    BY DEF Init, AdriftCarries, CoveredIsAccounted, UnpackableNotAlone
  <1> QED BY <1>1, <1>2, <1>3 DEF IInv

LEMMA NextKeeps == IInv /\ [Next]_vars => IInv'
  <1> SUFFICES ASSUME IInv, [Next]_vars PROVE IInv'
    OBVIOUS
  <1>1. CASE ListPage
    BY <1>1, ListPageKeeps
  <1>2. CASE Offer
    BY <1>2, OfferKeeps
  <1>3. CASE Planned
    BY <1>3, PlannedKeeps
  <1>4. CASE Fetched
    BY <1>4, FetchedKeeps
  <1>5. CASE Posted
    BY <1>5, PostedKeeps
  <1>6. CASE NothingToUpload \/ Fails \/ Refused \/ Authorized
    BY <1>6, GoesOnKeeps DEF NothingToUpload, Fails, Refused, Authorized
  <1>7. CASE \E force \in BOOLEAN : Start(force)
    BY <1>7, StartKeeps
  <1>8. CASE TabClosed
    BY <1>8, TabClosedKeeps
  <1>9. CASE \E post \in adrift : Lands(post) \/ Lost(post)
    BY <1>9, LandsKeeps, LostKeeps
  <1>10. CASE \E c \in Conversations : Chat(c)
    BY <1>10, ChatKeeps
  <1>11. CASE Tick
    BY <1>11, TickKeeps
  <1>12. CASE UNCHANGED vars
    BY <1>12, GoesOnKeeps DEF vars, server
  <1> QED BY <1>1, <1>2, <1>3, <1>4, <1>5, <1>6, <1>7, <1>8, <1>9, <1>10,
             <1>11, <1>12 DEF Next, ScanStep

(* Whatever a scan does, IInv holds.                                       *)
THEOREM InvariantHolds == Spec => []IInv
  BY InitIInv, NextKeeps, PTL DEF Spec

(* CoveredIsAccounted, of every conversation that the worker can pack: the *)
(* paging, planning, fetching and posting of content.js and background.js  *)
(* lose none in a covered span, except while they list it.                 *)
THEOREM CoveredAccounted == Spec => []CoveredIsAccounted
  <1>1. IInv => CoveredIsAccounted
    BY DEF IInv
  <1> QED BY <1>1, InvariantHolds, PTL

(* UnpackableNotAlone: the guard of background.js:350-357, and a list that *)
(* holds all there is before the end of the span, keep a conversation that *)
(* does not pack from being covered by a body without any that does, for   *)
(* every number of conversations, pages and spans.                         *)
THEOREM NeverAlone == Spec => []UnpackableNotAlone
  <1>1. IInv => UnpackableNotAlone
    BY DEF IInv
  <1> QED BY <1>1, InvariantHolds, PTL

-----------------------------------------------------------------------------
(* The types.  Two of them rest on facts about finite sets: the start of a *)
(* span is one of the dates it is the least of, and the offset, which      *)
(* grows by a page, never passes the conversations there are, because      *)
(* whoever ranks before the first of a page is not in it.                  *)
LEMMA LeastOf ==
    ASSUME NEW S, S \subseteq Nat, S # {}
    PROVE  \E m \in S : \A n \in S : m <= n
  <1>1. PICK m \in S : \A n \in S : ~(<<n, m>> \in OpToRel(<, Nat))
    BY WFMin, NatLessThanWellFounded
  <1>2. \A n \in S : ~(n < m)
    BY <1>1 DEF OpToRel
  <1> QED BY <1>2

LEMMA MinIn == ASSUME NEW S, S \subseteq Nat, S # {} PROVE Min(S) \in S
  BY LeastOf DEF Min

LEMMA ExistingFinite ==
    /\ IsFiniteSet(Existing) /\ Cardinality(Existing) \in Nat
    /\ Cardinality(Conversations) \in Nat
    /\ Cardinality(Existing) <= Cardinality(Conversations)
    /\ \A S \in SUBSET Existing : IsFiniteSet(S) /\ Cardinality(S) \in Nat
  <1>1. Existing \in SUBSET Conversations
    BY DEF Existing
  <1>2. IsFiniteSet(Existing)
        /\ Cardinality(Existing) <= Cardinality(Conversations)
    BY <1>1, FS_Subset, ScanAssumption
  <1>3. \A S \in SUBSET Existing : IsFiniteSet(S)
    BY <1>2, FS_Subset
  <1> QED BY <1>2, <1>3, FS_CardinalityType, ScanAssumption

Preceding(c) == {d \in Existing : Before(d, c)}

LEMMA PrecedingGrows ==
    ASSUME Typed, NEW c \in Existing, NEW d \in Existing, Before(d, c)
    PROVE  Rank(d) < Rank(c)
  <1>0. \A e \in Existing : e \in Nat /\ updated[e] \in Nat
    BY ConstantFacts DEF Existing, Typed
  <1>1. /\ Preceding(d) \subseteq Preceding(c)
        /\ d \in Preceding(c) /\ d \notin Preceding(d)
    <2>1. \A e \in Existing : Before(e, d) => Before(e, c)
      BY <1>0 DEF Before
    <2>2. ~Before(d, d)
      BY <1>0 DEF Before
    <2> QED BY <2>1, <2>2 DEF Preceding
  <1>2. /\ IsFiniteSet(Preceding(c)) /\ Cardinality(Preceding(c)) \in Nat
        /\ Cardinality(Preceding(d)) \in Nat
    BY ExistingFinite DEF Preceding
  <1>3. /\ Cardinality(Preceding(d)) <= Cardinality(Preceding(c))
        /\ Cardinality(Preceding(d)) # Cardinality(Preceding(c))
    BY <1>1, <1>2, FS_Subset
  <1> QED BY <1>2, <1>3 DEF Rank, Preceding

LEMMA PageFits ==
    ASSUME Typed, scan.offset \in 0 .. Cardinality(Conversations)
    PROVE  NextOffset \in 0 .. Cardinality(Conversations)
  <1>1. /\ Page \in SUBSET Existing /\ IsFiniteSet(Page)
        /\ Cardinality(Page) \in Nat
    BY ExistingFinite DEF Page
  <1>2. CASE Page = {}
    BY <1>2, FS_EmptySet DEF NextOffset
  <1>3. CASE Page # {}
    <2> DEFINE ranks == {Rank(c) : c \in Page}
    <2>1. \A c \in Existing :
             /\ Preceding(c) \in SUBSET Existing /\ IsFiniteSet(Preceding(c))
             /\ Rank(c) = Cardinality(Preceding(c)) /\ Rank(c) \in Nat
      BY ExistingFinite DEF Preceding, Rank
    <2>2. ranks \subseteq Nat /\ ranks # {}
      BY <1>1, <1>3, <2>1
    <2>3. PICK m \in ranks : \A n \in ranks : m <= n
      BY <2>2, LeastOf
    <2>4. PICK f \in Page : Rank(f) = m
      BY <2>3
    <2>5. f \in Existing /\ scan.offset <= Rank(f)
      BY <2>4 DEF Page
    <2>6. Preceding(f) \cap Page = {}
      <3> SUFFICES ASSUME NEW d \in Preceding(f), d \in Page PROVE FALSE
        OBVIOUS
      <3>1. Rank(d) < Rank(f)
        BY <2>5, PrecedingGrows DEF Preceding
      <3> QED BY <2>2, <2>3, <2>4, <3>1
    <2>7. Cardinality(Preceding(f) \cup Page)
             = Cardinality(Preceding(f)) + Cardinality(Page)
      <3>1. Cardinality(Preceding(f) \cup Page) =
               Cardinality(Preceding(f)) + Cardinality(Page)
                  - Cardinality(Preceding(f) \cap Page)
        BY <1>1, <2>1, <2>5, FS_Union
      <3>2. Cardinality(Preceding(f) \cap Page) = 0
        BY <2>6, FS_EmptySet
      <3>3. Cardinality(Preceding(f)) \in Nat
        BY <2>1, <2>5
      <3> HIDE DEF ranks
      <3> QED BY <1>1, <3>1, <3>2, <3>3
    <2>8. Cardinality(Preceding(f) \cup Page) <= Cardinality(Existing)
      BY <1>1, <2>1, <2>5, FS_Subset, ExistingFinite
    <2>9. Rank(f) + Cardinality(Page) <= Cardinality(Conversations)
      BY <1>1, <2>1, <2>5, <2>7, <2>8, ExistingFinite
    <2> QED BY <1>1, <2>1, <2>5, <2>9, ExistingFinite DEF NextOffset
  <1> QED BY <1>2, <1>3

ScanTyped(r) ==
    /\ r.pc \in {"idle", "list", "offer", "plan", "fetch", "upload"}
    /\ r.force \in BOOLEAN /\ r.offset \in 0 .. Cardinality(Conversations)
    /\ r.list \subseteq Entries /\ r.offered \in [start : Times, end : Times]
    /\ r.todo \subseteq Spans /\ r.span \in Spans \cup {NoSpan}
    /\ r.got \in Versions

Tokens == {"none", "good", "bad"}

LEMMA VersionsOf ==
    ASSUME NEW S \in SUBSET Conversations, NEW got \in [S -> Times]
    PROVE  got \in Versions
  BY DEF Versions

LEMMA IdleTyped == ScanTyped(Idle)
  <1>1. Nothing \in [{} -> Times]
    BY DEF Nothing
  <1>2. Nothing \in Versions
    BY <1>1, VersionsOf
  <1>3. 0 \in 0 .. Cardinality(Conversations)
    BY ExistingFinite
  <1>4. NoSpan \in [start : Times, end : Times]
    BY TimeAssumption DEF NoSpan, Times
  <1> QED BY <1>2, <1>3, <1>4 DEF ScanTyped, Idle

LEMMA NextSpanTyped ==
    ASSUME Shaped(scan), ScanTyped(scan) PROVE ScanTyped(NextSpan)
  <1>1. CASE scan.todo = {}
    BY <1>1, IdleTyped DEF NextSpan
  <1>2. CASE scan.todo # {}
    <2> DEFINE r == [scan EXCEPT !.pc = "fetch"]
    <2>1. /\ r.pc = "fetch" /\ r.force = scan.force /\ r.offset = scan.offset
          /\ r.list = scan.list /\ r.offered = scan.offered
          /\ r.todo = scan.todo /\ r.span = scan.span /\ r.got = scan.got
      BY DEF Shaped, Fields
    <2> HIDE DEF r
    <2>2. ScanTyped(r)
      BY <2>1 DEF ScanTyped
    <2> QED BY <1>2, <2>2 DEF NextSpan, r
  <1> QED BY <1>1, <1>2

(* An action of the scan alone, or none.                                   *)
LEMMA ScanStaysTyped ==
    ASSUME TypeOK, NEW r, ScanTyped(r), scan' = r,
           UNCHANGED <<now, updated, server, adrift>>,
           missed' \subseteq Conversations, token' \in Tokens,
           failures' = failures \/ Failure
    PROVE  TypeOK'
  <1>1. failures' \in 0 .. MaxFailures
    BY ScanAssumption DEF TypeOK, Failure
  <1> QED BY <1>1 DEF TypeOK, ScanTyped, server, Tokens

LEMMA StartTyped == ASSUME TypeOK, NEW force \in BOOLEAN, Start(force) PROVE TypeOK'
  <1>1. PICK r : r = [Idle EXCEPT !.pc = "list", !.force = force]
    OBVIOUS
  <1>2. /\ r.pc = "list" /\ r.force = force /\ r.offset = Idle.offset
        /\ r.list = Idle.list /\ r.offered = Idle.offered
        /\ r.todo = Idle.todo /\ r.span = Idle.span /\ r.got = Idle.got
    BY <1>1 DEF Idle
  <1>3. ScanTyped(r)
    BY <1>2, IdleTyped DEF ScanTyped
  <1> QED BY <1>1, <1>3, ScanStaysTyped DEF Start, TypeOK, Tokens

LEMMA ListPageTyped == ASSUME IInv, TypeOK, ListPage PROVE TypeOK'
  <1>1. PICK p \in {"list", "offer"} :
           scan' = [scan EXCEPT !.list = scan.list \cup {Entry(c) : c \in Page},
                                !.offset = NextOffset, !.pc = p]
    BY DEF ListPage
  <1>2. PICK r : r = [scan EXCEPT
                         !.list = scan.list \cup {Entry(c) : c \in Page},
                         !.offset = NextOffset, !.pc = p]
    OBVIOUS
  <1>3. /\ r.pc = p /\ r.force = scan.force /\ r.offset = NextOffset
        /\ r.list = scan.list \cup {Entry(c) : c \in Page}
        /\ r.offered = scan.offered
        /\ r.todo = scan.todo /\ r.span = scan.span /\ r.got = scan.got
    BY <1>2 DEF Shaped, Fields, Proper, IInv
  <1>4. \A c \in Page : Entry(c) \in Entries
    BY DEF Page, Existing, Entry, Entries, TypeOK
  <1>5. NextOffset \in 0 .. Cardinality(Conversations)
    BY PageFits DEF IInv, TypeOK
  <1>6. ScanTyped(r)
    BY <1>3, <1>4, <1>5 DEF ScanTyped, TypeOK
  <1> QED BY <1>1, <1>2, <1>6, ScanStaysTyped DEF ListPage, TypeOK, Tokens

LEMMA OfferTyped == ASSUME IInv, TypeOK, Offer PROVE TypeOK'
  <1>1. missed' \subseteq Conversations
    BY DEF Offer, TypeOK, Dated, Existing
  <1>2. CASE scan' = Idle
    BY <1>1, <1>2, IdleTyped, ScanStaysTyped DEF Offer, TypeOK, Tokens
  <1>3. CASE scan' # Idle
    <2> DEFINE dates == {e.at : e \in scan.list} \ {Absent}
    <2>1. PICK from : from = Floor(dates)
      OBVIOUS
    <2>2. scan' = [scan EXCEPT !.offered = [start |-> from, end |-> now],
                               !.pc = "plan"]
      BY <1>3, <2>1 DEF Offer
    <2>3. from \in Times
      <3>1. dates \subseteq Times
        BY DEF TypeOK, Entries
      <3>2. CASE dates = {}
        BY <2>1, <3>2, TimeAssumption DEF Floor, Times
      <3>3. CASE dates # {}
        BY <2>1, <3>1, <3>3, MinIn, ConstantFacts DEF Floor
      <3> QED BY <3>2, <3>3
    <2>4. PICK r : r = [scan EXCEPT !.offered = [start |-> from, end |-> now],
                                    !.pc = "plan"]
      OBVIOUS
    <2>5. /\ r.pc = "plan" /\ r.force = scan.force /\ r.offset = scan.offset
          /\ r.list = scan.list /\ r.offered = [start |-> from, end |-> now]
          /\ r.todo = scan.todo /\ r.span = scan.span /\ r.got = scan.got
      BY <2>4 DEF Shaped, Fields, Proper, IInv
    <2>6. ScanTyped(r)
      BY <2>3, <2>5 DEF ScanTyped, TypeOK
    <2> QED BY <1>1, <2>2, <2>4, <2>6, ScanStaysTyped DEF Offer, TypeOK, Tokens
  <1> QED BY <1>2, <1>3

LEMMA PlannedTyped == ASSUME IInv, TypeOK, Planned PROVE TypeOK'
  <1>1. CASE scan' = Idle
    BY <1>1, IdleTyped, ScanStaysTyped DEF Planned, TypeOK, Tokens
  <1>2. CASE scan' # Idle
    <2>1. PICK needed \in SUBSET Spans :
             scan' = [scan EXCEPT !.todo = needed, !.pc = "fetch"]
      BY <1>2 DEF Planned, Needed
    <2>2. PICK r : r = [scan EXCEPT !.todo = needed, !.pc = "fetch"]
      OBVIOUS
    <2>3. /\ r.pc = "fetch" /\ r.force = scan.force /\ r.offset = scan.offset
          /\ r.list = scan.list /\ r.offered = scan.offered
          /\ r.todo = needed /\ r.span = scan.span /\ r.got = scan.got
      BY <2>2 DEF Shaped, Fields, Proper, IInv
    <2>4. ScanTyped(r)
      BY <2>3 DEF ScanTyped, TypeOK
    <2> QED BY <2>1, <2>2, <2>4, ScanStaysTyped DEF Planned, TypeOK, Tokens
  <1> QED BY <1>1, <1>2

LEMMA FetchedTyped == ASSUME IInv, TypeOK, Fetched PROVE TypeOK'
  <1>1. PICK sp \in scan.todo, last \in BOOLEAN :
           scan' = [scan EXCEPT !.span = sp, !.todo = scan.todo \ {sp},
                                !.pc = "upload",
                                !.got = [c \in InSpan(sp, last) |-> updated[c]]]
    BY DEF Fetched
  <1>2. PICK got : got = [c \in InSpan(sp, last) |-> updated[c]]
    OBVIOUS
  <1>3. PICK r : r = [scan EXCEPT !.span = sp, !.todo = scan.todo \ {sp},
                                  !.pc = "upload", !.got = got]
    OBVIOUS
  <1>4. /\ r.pc = "upload" /\ r.force = scan.force /\ r.offset = scan.offset
        /\ r.list = scan.list /\ r.offered = scan.offered
        /\ r.todo = scan.todo \ {sp} /\ r.span = sp /\ r.got = got
    BY <1>3 DEF Shaped, Fields, Proper, IInv
  <1>5. got \in Versions
    <2>1. \A c \in InSpan(sp, last) : c \in Conversations /\ updated[c] \in Times
      BY DEF InSpan, IInv, Proper, Existing, TypeOK
    <2>2. PICK S : S = InSpan(sp, last)
      OBVIOUS
    <2>3. S \in SUBSET Conversations /\ got \in [S -> Times]
      BY <1>2, <2>1, <2>2
    <2> QED BY <2>3, VersionsOf
  <1>6. ScanTyped(r)
    BY <1>4, <1>5 DEF ScanTyped, TypeOK
  <1> QED BY <1>1, <1>2, <1>3, <1>6, ScanStaysTyped DEF Fetched, TypeOK, Tokens

(* The scan goes on or ends.                                               *)
LEMMA GoesOnTyped ==
    ASSUME IInv, TypeOK, scan' = NextSpan \/ scan' = Idle \/ scan' = scan,
           UNCHANGED <<now, updated, server, adrift, missed>>,
           token' \in Tokens, failures' = failures \/ Failure
    PROVE  TypeOK'
  <1>1. ScanTyped(scan)
    BY DEF TypeOK, ScanTyped
  <1>2. PICK r : r = scan' /\ ScanTyped(r)
    BY <1>1, IdleTyped, NextSpanTyped DEF IInv, Proper
  <1> QED BY <1>2, ScanStaysTyped DEF TypeOK

(* What the server has of a body is of its types.                          *)
LEMMA ReceivedTyped ==
    ASSUME TypeOK, NEW sp \in Spans, NEW got \in Versions, Received(sp, got)
    PROVE  /\ coverage' \subseteq Times /\ packed' \subseteq Times
           /\ held' \in [Conversations -> Times \cup {Absent}]
  <1>1. Slots(sp) \subseteq Times
    BY TimeAssumption DEF Slots, Spans, Times
  <1>2. \A c \in DOMAIN got : got[c] \in Times
    BY DEF Versions
  <1>3. \A c \in Conversations :
           (IF c \in DOMAIN got \ Unpackable /\ got[c] > held[c]
            THEN got[c] ELSE held[c]) \in Times \cup {Absent}
    BY <1>2 DEF TypeOK
  <1> QED BY <1>1, <1>3 DEF Received, TypeOK

LEMMA PostedTyped == ASSUME IInv, TypeOK, Posted PROVE TypeOK'
  <1>1. PICK sp, got : sp = scan.span /\ got = scan.got
    OBVIOUS
  <1>2. sp \in Spans /\ got \in Versions
    BY <1>1 DEF IInv, Proper, Posted, Carries, TypeOK
  <1>3. /\ coverage' \subseteq Times /\ packed' \subseteq Times
        /\ held' \in [Conversations -> Times \cup {Absent}]
    BY <1>1, <1>2, ReceivedTyped DEF Posted
  <1>4. ScanTyped(scan)
    BY DEF TypeOK, ScanTyped
  <1>5. PICK r : r = scan' /\ ScanTyped(r)
    BY <1>4, NextSpanTyped DEF IInv, Proper, Posted
  <1> QED BY <1>3, <1>5 DEF Posted, TypeOK, ScanTyped

LEMMA LandsTyped == ASSUME TypeOK, NEW post \in adrift, Lands(post) PROVE TypeOK'
  <1>1. post.span \in Spans /\ post.got \in Versions
    BY DEF TypeOK
  <1>2. /\ coverage' \subseteq Times /\ packed' \subseteq Times
        /\ held' \in [Conversations -> Times \cup {Absent}]
    BY <1>1, ReceivedTyped DEF Lands
  <1> QED BY <1>2 DEF Lands, TypeOK

LEMMA TabClosedTyped == ASSUME IInv, TypeOK, TabClosed PROVE TypeOK'
  <1>1. adrift' \subseteq [span : Spans, got : Versions]
    BY DEF TabClosed, TypeOK, IInv, Proper, Carries
  <1>2. failures' \in 0 .. MaxFailures
    BY ScanAssumption DEF TypeOK, TabClosed, Failure
  <1>3. PICK r : r = Idle
    OBVIOUS
  <1>4. scan' = r /\ ScanTyped(r)
    BY <1>3, IdleTyped DEF TabClosed
  <1>5. UNCHANGED <<now, updated, coverage, held, packed, token, missed>>
    BY DEF TabClosed, server
  <1> QED BY <1>1, <1>2, <1>4, <1>5 DEF TypeOK, ScanTyped

LEMMA ChatTyped == ASSUME TypeOK, NEW c \in Conversations, Chat(c) PROVE TypeOK'
  <1>1. updated' \in [Conversations -> Times \cup {Absent}]
    BY DEF Chat, TypeOK
  <1> QED BY <1>1 DEF Chat, TypeOK, server

LEMMA TickTyped == ASSUME TypeOK, Tick PROVE TypeOK'
  <1>1. now' \in Times
    BY TimeAssumption DEF Tick, TypeOK, Times
  <1> QED BY <1>1 DEF Tick, TypeOK, server

LEMMA InitTyped == Init => TypeOK
  <1> SUFFICES ASSUME Init PROVE TypeOK
    OBVIOUS
  <1>1. PICK r : r = Idle
    OBVIOUS
  <1>2. scan = r /\ ScanTyped(r)
    BY <1>1, IdleTyped DEF Init
  <1>3. 1 \in Times /\ 0 \in 0 .. MaxFailures
    BY TimeAssumption, ScanAssumption DEF Times
  <1> QED BY <1>2, <1>3 DEF Init, TypeOK, ScanTyped

LEMMA NextTyped == IInv /\ TypeOK /\ [Next]_vars => TypeOK'
  <1> SUFFICES ASSUME IInv, TypeOK, [Next]_vars PROVE TypeOK'
    OBVIOUS
  <1>1. CASE ListPage
    BY <1>1, ListPageTyped
  <1>2. CASE Offer
    BY <1>2, OfferTyped
  <1>3. CASE Planned
    BY <1>3, PlannedTyped
  <1>4. CASE Fetched
    BY <1>4, FetchedTyped
  <1>5. CASE Posted
    BY <1>5, PostedTyped
  <1>6. CASE NothingToUpload \/ Fails \/ Refused \/ Authorized
    BY <1>6, GoesOnTyped
       DEF NothingToUpload, Fails, Refused, Authorized, TypeOK, Tokens
  <1>7. CASE \E force \in BOOLEAN : Start(force)
    BY <1>7, StartTyped
  <1>8. CASE TabClosed
    BY <1>8, TabClosedTyped
  <1>9. CASE \E post \in adrift : Lands(post)
    BY <1>9, LandsTyped
  <1>10. CASE \E post \in adrift : Lost(post)
    BY <1>10 DEF Lost, TypeOK, server
  <1>11. CASE \E c \in Conversations : Chat(c)
    BY <1>11, ChatTyped
  <1>12. CASE Tick
    BY <1>12, TickTyped
  <1>13. CASE UNCHANGED vars
    BY <1>13 DEF vars, TypeOK
  <1> QED BY <1>1, <1>2, <1>3, <1>4, <1>5, <1>6, <1>7, <1>8, <1>9, <1>10,
             <1>11, <1>12, <1>13 DEF Next, ScanStep

(* TypeOK: the offset of listConversations never passes the conversations  *)
(* there are, though the list is reordered between two pages, and the span *)
(* that is offered starts at a time some conversation has.                 *)
THEOREM TypesHold == Spec => []TypeOK
  BY InitTyped, NextTyped, InvariantHolds, PTL DEF Spec

-----------------------------------------------------------------------------
(* How far a scan is from its end: the conversations not listed yet, the   *)
(* spans not fetched yet.  Whatever the server finds needed is no more     *)
(* than all spans.                                                         *)
Most == 2 * Cardinality(Spans)

Left(r) ==
    IF r.pc = "list" THEN Most + 4 + Cardinality(Conversations) - r.offset
    ELSE IF r.pc = "offer" THEN Most + 3
    ELSE IF r.pc = "plan" THEN Most + 2
    ELSE IF r.pc = "fetch" THEN 2 * Cardinality(r.todo) + 1
    ELSE IF r.pc = "upload" THEN 2 * Cardinality(r.todo) + 2
    ELSE 0

(* Every step of a scan brings it nearer to its end or fetches the token   *)
(* it lacks, and nothing else takes it further away: listing a list that   *)
(* is reordered meanwhile, failed uploads and refused tokens               *)
(* (content.js, background.js) never make it begin again.                  *)
ScanDescends ==
    [][scan.pc # "idle" =>
          /\ Left(scan') <= Left(scan)
          /\ ScanStep => \/ Left(scan') < Left(scan)
                         \/ token = "none" /\ token' # "none"]_vars

LEMMA SpansFinite == IsFiniteSet(Spans)
  <1> DEFINE Pairs == Times \X Times
             All == [start : Times, end : Times]
             f == [p \in Pairs |-> [start |-> p[1], end |-> p[2]]]
  <1>1. IsFiniteSet(Times)
    <2>1. 1 \in Int /\ MaxTime \in Int
      BY TimeAssumption
    <2> QED BY <2>1, FS_Interval DEF Times
  <1>2. IsFiniteSet(Pairs)
    BY <1>1, FS_Product
  <1>3. f \in Surjection(Pairs, All)
    <2>1. f \in [Pairs -> All]
      OBVIOUS
    <2>2. ASSUME NEW sp \in All PROVE \E p \in Pairs : f[p] = sp
      <3>1. <<sp.start, sp.end>> \in Pairs
        OBVIOUS
      <3>2. f[<<sp.start, sp.end>>] = sp
        BY <3>1
      <3> QED BY <3>1, <3>2
    <2> HIDE DEF f, Pairs, All
    <2> QED BY <2>1, <2>2 DEF Surjection
  <1>4. IsFiniteSet(All)
    <2> HIDE DEF f, Pairs, All
    <2> QED BY <1>2, <1>3, FS_Surjection
  <1>5. Spans \in SUBSET All
    BY DEF Spans
  <1> QED BY <1>4, <1>5, FS_Subset

LEMMA SomeSpans ==
    /\ Cardinality(Spans) \in Nat /\ Cardinality(Conversations) \in Nat
    /\ \A T \in SUBSET Spans : /\ IsFiniteSet(T) /\ Cardinality(T) \in Nat
                               /\ Cardinality(T) <= Cardinality(Spans)
  BY SpansFinite, FS_Subset, FS_CardinalityType, ScanAssumption

(* Of a scan of the right types the distance is a number.                  *)
LEMMA LeftNumber == ASSUME NEW r, ScanTyped(r) PROVE Left(r) \in Nat
  <1>1. /\ Cardinality(r.todo) \in Nat /\ r.offset \in Nat
        /\ r.offset <= Cardinality(Conversations)
    BY SomeSpans DEF ScanTyped
  <1> QED BY <1>1, SomeSpans DEF Left, Most

LEMMA IdleLeft == Left(Idle) = 0
  BY DEF Left, Idle

LEMMA NextSpanNearer ==
    ASSUME Shaped(scan), ScanTyped(scan), scan.pc = "upload"
    PROVE  Left(NextSpan) < Left(scan)
  <1>1. Cardinality(scan.todo) \in Nat
    BY SomeSpans DEF ScanTyped
  <1>2. Left(scan) = 2 * Cardinality(scan.todo) + 2
    BY DEF Left
  <1>3. CASE scan.todo = {}
    BY <1>1, <1>2, <1>3, IdleLeft DEF NextSpan
  <1>4. CASE scan.todo # {}
    <2>1. PICK r : r = [scan EXCEPT !.pc = "fetch"]
      OBVIOUS
    <2>2. r.pc = "fetch" /\ r.todo = scan.todo
      BY <2>1 DEF Shaped, Fields
    <2>3. Left(r) = 2 * Cardinality(scan.todo) + 1
      BY <2>2 DEF Left
    <2>4. NextSpan = r
      BY <1>4, <2>1 DEF NextSpan
    <2> QED BY <1>1, <1>2, <2>3, <2>4
  <1> QED BY <1>3, <1>4

(* A page that is not the last is full, so the next one begins further on. *)
LEMMA ListPageNearer ==
    ASSUME IInv, TypeOK, ListPage PROVE Left(scan') < Left(scan)
  <1>1. PICK p : p = IF \/ Cardinality(Page) < PageSize
                        \/ NextOffset >= Cardinality(Existing)
                     THEN "offer" ELSE "list"
    OBVIOUS
  <1>2. PICK r : r = [scan EXCEPT
                         !.list = scan.list \cup {Entry(c) : c \in Page},
                         !.offset = NextOffset, !.pc = p]
    OBVIOUS
  <1>3. scan' = r /\ r.pc = p /\ r.offset = NextOffset
    BY <1>1, <1>2 DEF ListPage, Shaped, Fields, Proper, IInv
  <1>4. /\ scan.offset \in Nat /\ scan.offset <= Cardinality(Conversations)
        /\ Cardinality(Conversations) \in Nat /\ Most \in Nat
    BY SomeSpans DEF TypeOK, Most
  <1>5. Left(scan) = Most + 4 + Cardinality(Conversations) - scan.offset
    BY DEF Left, ListPage
  <1>6. CASE p = "offer"
    <2>1. Left(r) = Most + 3
      BY <1>3, <1>6 DEF Left
    <2> QED BY <1>3, <1>4, <1>5, <2>1
  <1>7. CASE p = "list"
    <2>1. Left(r) = Most + 4 + Cardinality(Conversations) - NextOffset
      BY <1>3, <1>7 DEF Left
    <2>2. Cardinality(Page) \in Nat
      BY ExistingFinite DEF Page
    <2>3. ~(Cardinality(Page) < PageSize)
      BY <1>1, <1>7
    <2>4. NextOffset > scan.offset /\ NextOffset \in Nat
      BY <1>4, <2>2, <2>3, ScanAssumption DEF NextOffset
    <2> QED BY <1>3, <1>4, <1>5, <2>1, <2>4
  <1> QED BY <1>1, <1>6, <1>7

LEMMA OfferNearer ==
    ASSUME IInv, TypeOK, Offer PROVE Left(scan') < Left(scan)
  <1>1. Left(scan) = Most + 3 /\ Most \in Nat
    BY SomeSpans DEF Left, Offer, Most
  <1>2. CASE scan' = Idle
    BY <1>1, <1>2, IdleLeft
  <1>3. CASE scan' # Idle
    <2>1. PICK o : scan' = [scan EXCEPT !.offered = o, !.pc = "plan"]
      BY <1>3 DEF Offer
    <2>2. scan'.pc = "plan"
      BY <2>1 DEF Shaped, Fields, Proper, IInv
    <2>3. PICK r : r = scan' /\ r.pc = "plan"
      BY <2>2
    <2>4. Left(r) = Most + 2
      BY <2>3 DEF Left
    <2> QED BY <1>1, <2>3, <2>4
  <1> QED BY <1>2, <1>3

LEMMA PlannedNearer ==
    ASSUME IInv, TypeOK, Planned PROVE Left(scan') < Left(scan)
  <1>1. Left(scan) = Most + 2 /\ Most \in Nat
    BY SomeSpans DEF Left, Planned, Most
  <1>2. CASE scan' = Idle
    BY <1>1, <1>2, IdleLeft
  <1>3. CASE scan' # Idle
    <2>1. PICK needed \in SUBSET Spans :
             scan' = [scan EXCEPT !.todo = needed, !.pc = "fetch"]
      BY <1>3 DEF Planned, Needed
    <2>2. scan'.pc = "fetch" /\ scan'.todo = needed
      BY <2>1 DEF Shaped, Fields, Proper, IInv
    <2>3. PICK r : r = scan' /\ r.pc = "fetch" /\ r.todo = needed
      BY <2>2
    <2>4. Left(r) = 2 * Cardinality(needed) + 1
      BY <2>3 DEF Left
    <2> QED BY <1>1, <2>3, <2>4, SomeSpans DEF Most
  <1> QED BY <1>2, <1>3

LEMMA FetchedNearer ==
    ASSUME IInv, TypeOK, Fetched PROVE Left(scan') < Left(scan)
  <1>1. PICK sp \in scan.todo : \E got :
           scan' = [scan EXCEPT !.span = sp, !.todo = scan.todo \ {sp},
                                !.pc = "upload", !.got = got]
    BY DEF Fetched
  <1>2. scan'.pc = "upload" /\ scan'.todo = scan.todo \ {sp}
    BY <1>1 DEF Shaped, Fields, Proper, IInv
  <1>3. PICK r : r = scan' /\ r.pc = "upload" /\ r.todo = scan.todo \ {sp}
    BY <1>2
  <1>4. Left(r) = 2 * Cardinality(scan.todo \ {sp}) + 2
    BY <1>3 DEF Left
  <1>5. Left(scan) = 2 * Cardinality(scan.todo) + 1
    BY DEF Left, Fetched
  <1>6. IsFiniteSet(scan.todo) /\ Cardinality(scan.todo) \in Nat
    BY SomeSpans DEF TypeOK
  <1>7. /\ Cardinality(scan.todo \ {sp}) = Cardinality(scan.todo) - 1
        /\ Cardinality(scan.todo \ {sp}) \in Nat
    BY <1>6, FS_RemoveElement, FS_CardinalityType
  <1> QED BY <1>3, <1>4, <1>5, <1>6, <1>7

(* A scan that has begun has something left.                               *)
LEMMA BusyLeft ==
    ASSUME ScanTyped(scan), scan.pc # "idle" PROVE 0 < Left(scan)
  <1>1. /\ Cardinality(scan.todo) \in Nat /\ scan.offset \in Nat
        /\ scan.offset <= Cardinality(Conversations)
    BY SomeSpans DEF ScanTyped
  <1> QED BY <1>1, SomeSpans DEF ScanTyped, Left, Most

LEMMA ScanStepsNearer ==
    ASSUME IInv, TypeOK, ScanStep
    PROVE  \/ Left(scan') < Left(scan)
           \/ scan' = scan /\ token = "none" /\ token' # "none"
  <1>1. ScanTyped(scan) /\ Shaped(scan)
    BY DEF TypeOK, ScanTyped, IInv, Proper
  <1>2. CASE ListPage
    BY <1>2, ListPageNearer
  <1>3. CASE Offer
    BY <1>3, OfferNearer
  <1>4. CASE Planned
    BY <1>4, PlannedNearer
  <1>5. CASE Fetched
    BY <1>5, FetchedNearer
  <1>6. CASE scan.pc = "upload" /\ scan' = NextSpan
    BY <1>1, <1>6, NextSpanNearer
  <1>7. CASE scan.pc # "idle" /\ scan' = Idle
    BY <1>1, <1>7, IdleLeft, BusyLeft
  <1>8. CASE Authorized
    BY <1>8 DEF Authorized
  <1> QED BY <1>2, <1>3, <1>4, <1>5, <1>6, <1>7, <1>8
          DEF ScanStep, Posted, NothingToUpload, Fails, Refused

LEMMA OthersLeaveScan ==
    ASSUME Next, ~ScanStep, scan.pc # "idle"
    PROVE  scan' = scan \/ scan' = Idle
  BY DEF Next, Start, TabClosed, Lands, Lost, Chat, Tick

(* A scan takes a bounded number of steps: what ScanEnds needs besides     *)
(* that its requests are answered or fail and that time does not pass for  *)
(* ever.                                                                   *)
THEOREM ScansDescend == Spec => ScanDescends
  <1>1. ASSUME IInv, TypeOK, [Next]_vars, scan.pc # "idle"
        PROVE  /\ Left(scan') <= Left(scan)
               /\ ScanStep => \/ Left(scan') < Left(scan)
                              \/ token = "none" /\ token' # "none"
    <2>1. TypeOK'
      BY <1>1, NextTyped
    <2>2. PICK r : r = scan' /\ ScanTyped(r)
      BY <2>1 DEF TypeOK, ScanTyped
    <2>3. Left(r) \in Nat /\ Left(scan) \in Nat
      BY <1>1, <2>2, LeftNumber DEF TypeOK, ScanTyped
    <2>4. CASE ScanStep
      BY <1>1, <2>2, <2>3, <2>4, ScanStepsNearer
    <2>5. CASE ~ScanStep
      <3>1. scan' = scan \/ scan' = Idle
        BY <1>1, <2>5, OthersLeaveScan DEF vars
      <3> QED BY <2>2, <2>3, <2>5, <3>1, IdleLeft
    <2> QED BY <2>4, <2>5
  <1>2. IInv /\ TypeOK /\ [Next]_vars =>
           [scan.pc # "idle" =>
               /\ Left(scan') <= Left(scan)
               /\ ScanStep => \/ Left(scan') < Left(scan)
                              \/ token = "none" /\ token' # "none"]_vars
    BY <1>1
  <1> QED BY <1>2, InvariantHolds, TypesHold, PTL DEF Spec, ScanDescends

=============================================================================
