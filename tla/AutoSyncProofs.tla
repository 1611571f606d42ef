--------------------------- MODULE AutoSyncProofs ---------------------------
(***************************************************************************)
(* Proofs about AutoSync, for every window, clock, number of pages, runs,  *)
(* user actions and faults: type correctness, at most one auto-open per    *)
(* staleness window, and an auto-close only of a page nobody watched.      *)
(***************************************************************************)
EXTENDS AutoSync, TLAPS

-----------------------------------------------------------------------------
(* Operations on one page, whose invariant is PageOK.  R is the runs.      *)

Message == {"ok", "no", "end"} \X (Ids \cup {NoRun})
Runs == [Ids -> RunState]

TimerOK(s, R) ==
    s.timer # "off" =>
        /\ s.mine # NoRun /\ R[s.mine].phase = "full"
        /\ s.looked # "yes"
        /\ s.visible => s.looked = "late"
ArmedOK(s) ==
    /\ s.autoRun # NoRun =>
         /\ s.autoRun = s.mine /\ s.looked \in {"no", "early"}
         /\ ~s.visible /\ s.st # "loading"
    /\ s.timer = "set" => s.autoRun # NoRun
    /\ s.st = "loading" => s.timer = "off"
SeenOK(s) ==
    /\ s.looked \in {"yes", "late"} => s.tookOver \/ ~s.auto
    /\ s.mine # NoRun \/ s.st \in {"loading", "asking"} => s.auto
InboxOK(s) == \A k \in 1 .. Len(s.inbox) :
    s.inbox[k][1] = "ok" => s.inbox[k][2] = s.mine /\ s.mine # NoRun
PageOK(s, R) == TimerOK(s, R) /\ ArmedOK(s) /\ SeenOK(s) /\ InboxOK(s)

LEMMA DisarmPage ==
    ASSUME NEW R \in Runs, NEW s \in Page, PageOK(s, R)
    PROVE  LET d == Disarm(s)
           IN /\ d \in Page /\ PageOK(d, R)
              /\ d.tookOver /\ d.autoRun = NoRun /\ d.timer # "set"
              /\ d.timer = "fired" <=> s.timer = "fired"
              /\ d.st = s.st /\ d.mine = s.mine /\ d.inbox = s.inbox
              /\ d.auto = s.auto
BY DEF Disarm, Page, PageOK, TimerOK, ArmedOK, SeenOK, InboxOK, NoRun

LEMMA OnScreenPage ==
    ASSUME NEW R \in Runs, NEW s \in Page, PageOK(s, R),
           s.autoRun = NoRun, s.timer # "set",
           NEW how \in {"early", "yes", "late"},
           s.timer = "fired" => how = "late",
           how # "early" => s.tookOver \/ ~s.auto
    PROVE  OnScreen(s, how) \in Page /\ PageOK(OnScreen(s, how), R)
BY DEF OnScreen, Page, PageOK, TimerOK, ArmedOK, SeenOK, InboxOK, NoRun

(* A tab coming on screen stops an auto-close that has not fired.          *)
LEMMA ShownPage ==
    ASSUME NEW R \in Runs, NEW s \in Page, PageOK(s, R)
    PROVE  Shown(s) \in Page /\ PageOK(Shown(s), R)
<1> DEFINE d == Disarm(s)
<1>d. /\ d \in Page /\ PageOK(d, R)
      /\ d.tookOver /\ d.autoRun = NoRun /\ d.timer # "set"
      /\ d.timer = "fired" <=> s.timer = "fired"
  BY DisarmPage
<1>1. CASE s.visible
  BY <1>1 DEF Shown
<1>2. CASE ~s.visible /\ s.st = "loading"
  <2>1. Shown(s) = OnScreen(s, "early") BY <1>2 DEF Shown
  <2>2. s.autoRun = NoRun /\ s.timer # "set"
    BY <1>2 DEF PageOK, ArmedOK
  <2>3. s.timer # "fired" BY <1>2 DEF PageOK, ArmedOK
  <2> QED BY <2>1, <2>2, <2>3, OnScreenPage
<1>3. CASE ~s.visible /\ s.st # "loading" /\ s.timer = "fired"
  <2>1. Shown(s) = OnScreen(d, "late") BY <1>3 DEF Shown
  <2> HIDE DEF d
  <2> QED BY <1>d, <2>1, OnScreenPage
<1>4. CASE ~s.visible /\ s.st # "loading" /\ s.timer # "fired"
  <2>1. CASE s.auto
    <3>1. Shown(s) = OnScreen(d, "yes") BY <1>4, <2>1 DEF Shown
    <3> HIDE DEF d
    <3> QED BY <1>4, <1>d, <3>1, OnScreenPage
  <2>2. CASE ~s.auto
    <3>1. Shown(s) = OnScreen(s, "yes") BY <1>4, <2>2 DEF Shown
    <3>2. s.mine = NoRun BY <2>2 DEF PageOK, SeenOK
    <3>3. s.autoRun = NoRun /\ s.timer = "off"
      BY <3>2, <1>4 DEF PageOK, TimerOK, ArmedOK, Page
    <3> QED BY <2>2, <3>1, <3>3, OnScreenPage
  <2> QED BY <2>1, <2>2
<1> QED BY <1>1, <1>2, <1>3, <1>4

(* The answer to sync:start arms the auto-close only of an unwatched page. *)
LEMMA ArmPage ==
    ASSUME NEW R \in Runs, NEW s \in Page, PageOK(s, R), s.mine # NoRun
    PROVE  Arm(s, s.mine) \in Page /\ PageOK(Arm(s, s.mine), R)
BY DEF Arm, Answered, Page, PageOK, TimerOK, ArmedOK, SeenOK, InboxOK, NoRun

LEMMA RefusedPage ==
    ASSUME NEW R \in Runs, NEW s \in Page, PageOK(s, R)
    PROVE  OnRefused(s) \in Page /\ PageOK(OnRefused(s), R)
BY DEF OnRefused, Page, PageOK, TimerOK, ArmedOK, SeenOK, InboxOK, NoRun

(* The end of the page's own run sets the timer only after a full success. *)
LEMMA AutoClosePage ==
    ASSUME NEW R \in Runs, R = runs, NEW s \in Page, PageOK(s, R),
           NEW id \in Ids \cup {NoRun}
    PROVE  MaybeAutoClose(s, id) \in Page /\ PageOK(MaybeAutoClose(s, id), R)
<1>1. CASE s.autoRun = NoRun \/ id # s.autoRun
  BY <1>1 DEF MaybeAutoClose
<1>2. CASE ~(s.autoRun = NoRun \/ id # s.autoRun) /\ runs[id].phase # "full"
  <2> DEFINE d == Disarm(s)
  <2>1. MaybeAutoClose(s, id) = [d EXCEPT !.surfacing = TRUE]
    BY <1>2 DEF MaybeAutoClose
  <2>2. d \in Page /\ PageOK(d, R) BY DisarmPage
  <2> HIDE DEF d
  <2> DEFINE t == [d EXCEPT !.surfacing = TRUE]
  <2>3. t \in Page BY <2>2 DEF Page
  <2>4. /\ t.timer = d.timer /\ t.mine = d.mine /\ t.looked = d.looked
        /\ t.visible = d.visible /\ t.autoRun = d.autoRun /\ t.st = d.st
        /\ t.tookOver = d.tookOver /\ t.auto = d.auto /\ t.inbox = d.inbox
    BY <2>2 DEF Page
  <2> HIDE DEF t
  <2>5. PageOK(t, R)
    BY <2>2, <2>4 DEF PageOK, TimerOK, ArmedOK, SeenOK, InboxOK
  <2> QED BY <2>1, <2>3, <2>5 DEF t
<1>3. CASE ~(s.autoRun = NoRun \/ id # s.autoRun) /\ runs[id].phase = "full"
  <2> DEFINE t == [s EXCEPT !.timer = IF @ = "off" THEN "set" ELSE @]
  <2>1. MaybeAutoClose(s, id) = t
    BY <1>3 DEF MaybeAutoClose
  <2>2. /\ s.mine = id /\ s.mine # NoRun /\ R[s.mine].phase = "full"
        /\ s.looked \in {"no", "early"} /\ ~s.visible /\ s.st # "loading"
    BY <1>3 DEF PageOK, ArmedOK
  <2>3. t \in Page BY DEF Page
  <2>4. PageOK(t, R)
    BY <1>3, <2>2 DEF Page, PageOK, TimerOK, ArmedOK, SeenOK, InboxOK
  <2> QED BY <2>1, <2>3, <2>4
<1> QED BY <1>1, <1>2, <1>3

(* A message appended to the inbox of a page, an answer only if it is its. *)
LEMMA TellPage ==
    ASSUME NEW R \in Runs, NEW s \in Page, PageOK(s, R), NEW m \in Message,
           m[1] = "ok" => m[2] = s.mine /\ s.mine # NoRun
    PROVE  Tell(s, m) \in Page /\ PageOK(Tell(s, m), R)
<1> DEFINE t == [s EXCEPT !.inbox = Append(@, m)]
<1>1. s.inbox \in Seq(Message) BY DEF Page, Message
<1>2. t \in Page
  <2> DEFINE b == Append(s.inbox, m)
  <2>1. b \in Seq(Message) BY <1>1
  <2> HIDE DEF b
  <2>2. [s EXCEPT !.inbox = b] \in Page BY <2>1 DEF Page, Message
  <2> QED BY <2>2 DEF b
<1>3. InboxOK(t)
  <2> SUFFICES ASSUME NEW k \in 1 .. Len(t.inbox), t.inbox[k][1] = "ok"
               PROVE  t.inbox[k][2] = t.mine /\ t.mine # NoRun
    BY DEF InboxOK
  <2>1. t.inbox = Append(s.inbox, m) /\ t.mine = s.mine BY DEF Page
  <2>2. Len(t.inbox) = Len(s.inbox) + 1 /\ Len(s.inbox) \in Nat BY <2>1, <1>1
  <2>3. CASE k = Len(s.inbox) + 1
    <3>1. t.inbox[k] = m BY <2>1, <2>3, <1>1
    <3> QED BY <3>1, <2>1
  <2>4. CASE k \in 1 .. Len(s.inbox)
    <3>1. t.inbox[k] = s.inbox[k] BY <2>1, <2>4, <1>1
    <3> QED BY <3>1, <2>1, <2>4 DEF PageOK, InboxOK
  <2> QED BY <2>2, <2>3, <2>4
<1>4. TimerOK(t, R) /\ ArmedOK(t) /\ SeenOK(t)
  BY DEF PageOK, TimerOK, ArmedOK, SeenOK, Page
<1> QED BY <1>2, <1>3, <1>4 DEF PageOK, Tell

(* Taking the head off the inbox.                                          *)
LEMMA TakePage ==
    ASSUME NEW R \in Runs, NEW s \in Page, PageOK(s, R), s.inbox # <<>>
    PROVE  LET t == [s EXCEPT !.inbox = Tail(@)]
           IN t \in Page /\ PageOK(t, R) /\ Head(s.inbox) \in Message
<1> DEFINE t == [s EXCEPT !.inbox = Tail(@)]
<1>1. s.inbox \in Seq(Message) BY DEF Page, Message
<1>2. t \in Page /\ Head(s.inbox) \in Message BY <1>1 DEF Page, Message
<1>3. InboxOK(t)
  <2> SUFFICES ASSUME NEW k \in 1 .. Len(t.inbox), t.inbox[k][1] = "ok"
               PROVE  t.inbox[k][2] = t.mine /\ t.mine # NoRun
    BY DEF InboxOK
  <2>1. t.inbox = Tail(s.inbox) /\ t.mine = s.mine BY DEF Page
  <2>2. Len(s.inbox) \in Nat /\ Len(t.inbox) = Len(s.inbox) - 1
    BY <2>1, <1>1
  <2>3. t.inbox[k] = s.inbox[k + 1] BY <2>1, <2>2, <1>1
  <2>4. k + 1 \in 1 .. Len(s.inbox) BY <2>2
  <2> QED BY <2>1, <2>3, <2>4 DEF PageOK, InboxOK
<1>4. TimerOK(t, R) /\ ArmedOK(t) /\ SeenOK(t)
  BY DEF PageOK, TimerOK, ArmedOK, SeenOK, Page
<1> QED BY <1>2, <1>3, <1>4 DEF PageOK

LEMMA FreshPages ==
    ASSUME NEW R \in Runs
    PROVE  /\ NoPage \in Page /\ PageOK(NoPage, R)
           /\ PlainPage \in Page /\ PageOK(PlainPage, R)
           /\ AutoPage \in Page /\ PageOK(AutoPage, R)
<1>1. NoPage \in Page BY DEF NoPage, Page, NoRun
<1>2. /\ NoPage.looked = "no" /\ NoPage.timer = "off" /\ NoPage.mine = NoRun
      /\ NoPage.autoRun = NoRun /\ ~NoPage.auto /\ NoPage.inbox = <<>>
      /\ NoPage.st = "none"
  BY DEF NoPage
<1>3. PageOK(NoPage, R)
  BY <1>2 DEF PageOK, TimerOK, ArmedOK, SeenOK, InboxOK
<1>4. PlainPage \in Page BY <1>1 DEF PlainPage, Page
<1>5. AutoPage \in Page BY <1>1 DEF AutoPage, Page
<1>6. PageOK(PlainPage, R)
  BY <1>1, <1>2 DEF PlainPage, Page, PageOK, TimerOK, ArmedOK, SeenOK, InboxOK
<1>7. PageOK(AutoPage, R)
  BY <1>1, <1>2 DEF AutoPage, Page, PageOK, TimerOK, ArmedOK, SeenOK, InboxOK
<1> QED BY <1>1, <1>3, <1>4, <1>5, <1>6, <1>7

(* The first message of an inbox, handled.                                 *)
LEMMA ReceivePage ==
    ASSUME NEW R \in Runs, R = runs, NEW s \in Page, PageOK(s, R),
           s.inbox # <<>>
    PROVE  LET m == Head(s.inbox)
               t == [s EXCEPT !.inbox = Tail(@)]
               v == CASE m[1] = "ok"  -> Arm(t, m[2])
                      [] m[1] = "no"  -> OnRefused(t)
                      [] m[1] = "end" -> MaybeAutoClose(t, m[2])
           IN v \in Page /\ PageOK(v, R)
<1> DEFINE m == Head(s.inbox)
           t == [s EXCEPT !.inbox = Tail(@)]
<1>1. t \in Page /\ PageOK(t, R) /\ m \in Message BY TakePage
<1>2. m[1] = "ok" => m[2] = t.mine /\ t.mine # NoRun
  <2>1. s.inbox \in Seq(Message) BY DEF Page, Message
  <2>2. m = s.inbox[1] /\ 1 \in 1 .. Len(s.inbox) BY <2>1
  <2>3. t.mine = s.mine BY DEF Page
  <2> QED BY <2>2, <2>3 DEF PageOK, InboxOK
<1>3. m[1] \in {"ok", "no", "end"} /\ m[2] \in Ids \cup {NoRun}
  BY <1>1 DEF Message
<1> HIDE DEF m, t
<1>4. CASE m[1] = "ok"
  <2>1. Arm(t, m[2]) \in Page /\ PageOK(Arm(t, m[2]), R)
    BY <1>1, <1>2, <1>4, ArmPage
  <2> QED BY <1>4, <2>1 DEF m, t
<1>5. CASE m[1] = "no"
  <2>1. OnRefused(t) \in Page /\ PageOK(OnRefused(t), R)
    BY <1>1, RefusedPage
  <2> QED BY <1>5, <2>1 DEF m, t
<1>6. CASE m[1] = "end"
  <2>1. MaybeAutoClose(t, m[2]) \in Page /\ PageOK(MaybeAutoClose(t, m[2]), R)
    BY <1>1, <1>3, AutoClosePage
  <2> QED BY <1>6, <2>1 DEF m, t
<1> QED BY <1>3, <1>4, <1>5, <1>6

-----------------------------------------------------------------------------
(* All pages.                                                              *)

AllOK(f, R) == f \in [Pages -> Page] /\ \A q \in Pages : PageOK(f[q], R)

LEMMA PutPage ==
    ASSUME NEW R \in Runs, NEW f, AllOK(f, R), NEW x,
           NEW v \in Page, PageOK(v, R)
    PROVE  AllOK([f EXCEPT ![x] = v], R)
BY DEF AllOK

(* A run that is over stays as it is, so growing runs disturb no page.     *)
LEMMA RunsGrow ==
    ASSUME NEW R \in Runs, NEW Q \in Runs, NEW f, AllOK(f, R),
           \A id \in Ids : R[id].phase = "full" => Q[id].phase = "full"
    PROVE  AllOK(f, Q)
<1> SUFFICES ASSUME NEW q \in Pages PROVE PageOK(f[q], Q)
  BY DEF AllOK
<1>1. f[q] \in Page /\ PageOK(f[q], R) BY DEF AllOK
<1>2. f[q].mine \in Ids \cup {NoRun} BY <1>1 DEF Page
<1>3. TimerOK(f[q], Q) BY <1>1, <1>2 DEF PageOK, TimerOK
<1> QED BY <1>1, <1>3 DEF PageOK
-----------------------------------------------------------------------------
(* The pages under every step.                                             *)

PagesInv == runs \in Runs /\ cur \in Ids \cup {NoRun} /\ AllOK(page, runs)

(* One page replaced, the runs as they are.                                *)
LEMMA PutStep ==
    ASSUME PagesInv, NEW x, NEW v \in Page, PageOK(v, runs),
           page' = [page EXCEPT ![x] = v], UNCHANGED <<cur, runs>>
    PROVE  PagesInv'
<1>1. PICK R \in Runs : R = runs BY DEF PagesInv
<1>2. PICK f : f = page OBVIOUS
<1>3. PICK w \in Page : w = v OBVIOUS
<1>4. PICK y : y = x OBVIOUS
<1>5. AllOK([f EXCEPT ![y] = w], R)
  BY <1>1, <1>2, <1>3, PutPage DEF PagesInv
<1>6. page' = [f EXCEPT ![y] = w] /\ runs' = R /\ cur' = cur
  BY <1>1, <1>2, <1>3, <1>4
<1> QED BY <1>1, <1>5, <1>6 DEF PagesInv

LEMMA FreshFacts ==
    ASSUME PagesInv
    PROVE  /\ NoPage \in Page /\ PageOK(NoPage, runs)
           /\ PlainPage \in Page /\ PageOK(PlainPage, runs)
           /\ AutoPage \in Page /\ PageOK(AutoPage, runs)
<1>1. PICK R \in Runs : R = runs BY DEF PagesInv
<1> QED BY <1>1, FreshPages

LEMMA ShownFacts ==
    ASSUME PagesInv, NEW p \in Pages
    PROVE  Shown(page[p]) \in Page /\ PageOK(Shown(page[p]), runs)
<1>1. PICK R \in Runs : R = runs BY DEF PagesInv
<1>2. PICK s : s = page[p] OBVIOUS
<1>3. s \in Page /\ PageOK(s, R) BY <1>1, <1>2 DEF PagesInv, AllOK
<1>4. Shown(s) \in Page /\ PageOK(Shown(s), R) BY <1>3, ShownPage
<1> QED BY <1>1, <1>2, <1>4

(* Nothing the tick, a stamp or the clock does reaches a page.             *)
LEMMA QuietPages ==
    ASSUME PagesInv, UNCHANGED <<cur, runs, page>>
    PROVE  PagesInv'
BY DEF PagesInv

LEMMA NewRunFacts ==
    ASSUME PagesInv, NEW auto \in BOOLEAN, NewRun(auto)
    PROVE  /\ runs' \in Runs /\ cur' \in Ids
           /\ \A id \in Ids : runs[id].phase = "full" =>
                               runs'[id].phase = "full"
<1> DEFINE id == CHOOSE i \in Ids : i \notin Started
<1>1. \E i \in Ids : i \notin Started BY DEF NewRun, Started
<1>2. id \in Ids /\ id \notin Started BY <1>1
<1>3. cur' = id /\ runs' = [runs EXCEPT ![id] = [phase |-> "live",
                                                  auto |-> auto]]
  BY DEF NewRun
<1> HIDE DEF id
<1>4. runs[id].phase = "none" BY <1>2 DEF Started, PagesInv, Runs
<1> QED BY <1>2, <1>3, <1>4 DEF PagesInv, Runs, RunState

(* New or longer runs, the pages as they are.                              *)
LEMMA RunStep ==
    ASSUME PagesInv, NEW f, AllOK(f, runs), page' = f,
           runs' \in Runs, cur' \in Ids \cup {NoRun},
           \A id \in Ids : runs[id].phase = "full" => runs'[id].phase = "full"
    PROVE  PagesInv'
<1>1. PICK R \in Runs : R = runs BY DEF PagesInv
<1>2. PICK Q \in Runs : Q = runs' OBVIOUS
<1>3. PICK g : g = f OBVIOUS
<1>4. AllOK(g, Q) BY <1>1, <1>2, <1>3, RunsGrow
<1> QED BY <1>2, <1>3, <1>4 DEF PagesInv

(* Telling some of the pages something that is not an answer.              *)
LEMMA TellAll ==
    ASSUME PagesInv, NEW m \in Message, m[1] # "ok", NEW T
    PROVE  AllOK([p \in Pages |-> IF p \in T THEN Tell(page[p], m) ELSE page[p]],
                 runs)
<1>1. PICK R \in Runs : R = runs BY DEF PagesInv
<1>2. PICK f : f = page OBVIOUS
<1>3. PICK n \in Message : n = m OBVIOUS
<1>4. \A p \in Pages : Tell(f[p], n) \in Page /\ PageOK(Tell(f[p], n), R)
  <2> SUFFICES ASSUME NEW p \in Pages
               PROVE  Tell(f[p], n) \in Page /\ PageOK(Tell(f[p], n), R)
    OBVIOUS
  <2>1. f[p] \in Page /\ PageOK(f[p], R)
    BY <1>1, <1>2 DEF PagesInv, AllOK
  <2> QED BY <1>3, <2>1, TellPage
<1> QED BY <1>1, <1>2, <1>3, <1>4 DEF PagesInv, AllOK
(* Every step keeps the pages' invariant.                                  *)
LEMMA PageStepKeeps ==
    ASSUME PagesInv, NEW p \in Pages, PageStep(p)
    PROVE  PagesInv'
<1>1. PICK R \in Runs : R = runs BY DEF PagesInv
<1>2. PICK s : s = page[p] OBVIOUS
<1>3. s \in Page /\ PageOK(s, R) BY <1>1, <1>2 DEF PagesInv, AllOK
<1>4. SUFFICES ASSUME UNCHANGED <<cur, runs>>,
                      \E v \in Page : /\ PageOK(v, R)
                                      /\ page' = [page EXCEPT ![p] = v]
               PROVE  PagesInv'
  <2>1. CASE StartListening(p)
    <3> DEFINE v == [s EXCEPT !.st = "asking"]
    <3>1. page' = [page EXCEPT ![p] = v] /\ s.st = "loading"
      BY <2>1, <1>2 DEF StartListening, PagesInv, AllOK
    <3>2. v \in Page /\ PageOK(v, R)
      BY <1>3, <3>1 DEF Page, PageOK, TimerOK, ArmedOK, SeenOK, InboxOK, NoRun
    <3> QED BY <1>4, <2>1, <3>1, <3>2 DEF StartListening
  <2>2. CASE Receive(p)
    <3> DEFINE m == Head(s.inbox)
               t == [s EXCEPT !.inbox = Tail(@)]
               v == CASE m[1] = "ok"  -> Arm(t, m[2])
                      [] m[1] = "no"  -> OnRefused(t)
                      [] m[1] = "end" -> MaybeAutoClose(t, m[2])
    <3>1. page' = [page EXCEPT ![p] = v] /\ s.inbox # <<>>
      BY <2>2, <1>2 DEF Receive
    <3>2. v \in Page /\ PageOK(v, R)
      BY <1>1, <1>3, <3>1, ReceivePage
    <3> HIDE DEF v
    <3> QED BY <1>4, <2>2, <3>1, <3>2 DEF Receive
  <2>3. CASE SurfaceTab(p)
    <3> DEFINE h == Shown(s)
               v == [h EXCEPT !.surfacing = FALSE]
    <3>1. page' = [page EXCEPT ![p] = v]
      BY <2>3, <1>2 DEF SurfaceTab, PagesInv, AllOK
    <3>2. h \in Page /\ PageOK(h, R) BY <1>3, ShownPage
    <3> HIDE DEF h
    <3>3. v \in Page BY <3>2 DEF Page
    <3>4. PageOK(v, R)
      BY <3>2 DEF Page, PageOK, TimerOK, ArmedOK, SeenOK, InboxOK
    <3> HIDE DEF v
    <3> QED BY <1>4, <2>3, <3>1, <3>3, <3>4 DEF SurfaceTab
  <2>4. CASE FireTimer(p)
    <3> DEFINE v == [s EXCEPT !.timer = "fired"]
    <3>1. page' = [page EXCEPT ![p] = v] /\ s.timer = "set"
      BY <2>4, <1>2 DEF FireTimer, PagesInv, AllOK
    <3>2. v \in Page /\ PageOK(v, R)
      BY <1>3, <3>1 DEF Page, PageOK, TimerOK, ArmedOK, SeenOK, InboxOK, NoRun
    <3> QED BY <1>4, <2>4, <3>1, <3>2 DEF FireTimer
  <2>5. CASE CloseItself(p)
    <3>1. NoPage \in Page /\ PageOK(NoPage, R) BY FreshPages
    <3> QED BY <1>4, <2>5, <3>1 DEF CloseItself
  <2> QED BY <2>1, <2>2, <2>3, <2>4, <2>5 DEF PageStep
<1>5. PICK v \in Page : PageOK(v, R) /\ page' = [page EXCEPT ![p] = v]
  BY <1>4
<1> QED BY <1>1, <1>4, <1>5, PutStep

LEMMA RespondKeeps ==
    ASSUME PagesInv, NEW p \in Pages, Respond(p)
    PROVE  PagesInv'
<1>1. PICK R \in Runs : R = runs BY DEF PagesInv
<1>2. PICK s : s = page[p] OBVIOUS
<1>3. s \in Page /\ PageOK(s, R) BY <1>1, <1>2 DEF PagesInv, AllOK
<1>4. CASE AcceptStart(p)
  <2>1. /\ runs' \in Runs /\ cur' \in Ids
        /\ \A id \in Ids : runs[id].phase = "full" => runs'[id].phase = "full"
    BY <1>4, NewRunFacts DEF AcceptStart
  <2>2. PICK c \in Ids : c = cur' BY <2>1
  <2> DEFINE v == [s EXCEPT !.mine = c, !.inbox = <<Answer(c)>>]
             g == [page EXCEPT ![p] = v]
  <2>3. page' = g BY <1>2, <1>4, <2>2 DEF AcceptStart
  <2>4. s.st = "asking" /\ s.mine = NoRun BY <1>2, <1>4 DEF AcceptStart, Asked
  <2>5. v \in Page
    <3>1. <<Answer(c)>> \in Seq({"ok", "no", "end"} \X (Ids \cup {NoRun}))
      BY DEF Answer
    <3> QED BY <1>3, <3>1 DEF Page
  <2>6. PageOK(v, R)
    <3>0. /\ v.mine = c /\ v.inbox = <<Answer(c)>> /\ v.timer = s.timer
          /\ v.looked = s.looked /\ v.visible = s.visible /\ v.st = s.st
          /\ v.autoRun = s.autoRun /\ v.tookOver = s.tookOver
          /\ v.auto = s.auto
      BY <1>3 DEF Page
    <3>1. c # NoRun BY DEF Ids, NoRun
    <3>2. s.timer = "off" /\ s.autoRun = NoRun /\ s.auto
      BY <1>3, <2>4 DEF Page, PageOK, TimerOK, ArmedOK, SeenOK
    <3>3. InboxOK(v)
      <4>1. \A k \in 1 .. Len(v.inbox) : v.inbox[k] = Answer(c)
        BY <3>0
      <4> QED BY <4>1, <3>0, <3>1 DEF InboxOK, Answer
    <3> HIDE DEF v
    <3> QED BY <1>3, <3>0, <3>1, <3>2, <3>3
            DEF PageOK, TimerOK, ArmedOK, SeenOK
  <2> HIDE DEF v
  <2>7. AllOK(g, runs)
    <3>1. PICK f : f = page OBVIOUS
    <3>2. AllOK([f EXCEPT ![p] = v], R)
      BY <1>1, <3>1, <2>5, <2>6, PutPage DEF PagesInv
    <3> QED BY <1>1, <3>1, <3>2
  <2>8. PICK G : G = g OBVIOUS
  <2> HIDE DEF g
  <2> QED BY <2>1, <2>3, <2>7, <2>8, RunStep
<1>5. CASE RefuseStart(p)
  <2>1. Refused \in Message /\ Refused[1] # "ok" BY DEF Refused, Message
  <2>2. PICK m \in Message : m = Refused BY <2>1
  <2>3. Tell(s, m) \in Page /\ PageOK(Tell(s, m), R)
    BY <1>3, <2>1, <2>2, TellPage
  <2>4. page' = [page EXCEPT ![p] = Tell(s, m)]
    BY <1>2, <1>5, <2>2 DEF RefuseStart
  <2> QED BY <1>1, <1>5, <2>3, <2>4, PutStep DEF RefuseStart
<1> QED BY <1>4, <1>5 DEF Respond
LEMMA OpenOrFocusKeeps ==
    ASSUME PagesInv, OpenOrFocus, UNCHANGED <<cur, runs>>
    PROVE  PagesInv'
<1>1. CASE \E p \in Pages : IsOpen(p)
  <2>1. PICK p \in Pages : page' = [page EXCEPT ![p] = Shown(@)]
    BY <1>1 DEF OpenOrFocus
  <2>2. page' = [page EXCEPT ![p] = Shown(page[p])]
    BY <2>1 DEF PagesInv, AllOK
  <2>3. PICK v : v = Shown(page[p]) OBVIOUS
  <2>4. v \in Page /\ PageOK(v, runs) BY <2>3, ShownFacts
  <2> QED BY <2>2, <2>3, <2>4, PutStep
<1>2. CASE ~\E p \in Pages : IsOpen(p)
  <2>1. page' = [page EXCEPT ![NextPage] = PlainPage]
    BY <1>2 DEF OpenOrFocus
  <2>2. PICK x : x = NextPage OBVIOUS
  <2>3. PlainPage \in Page /\ PageOK(PlainPage, runs) BY FreshFacts
  <2> QED BY <2>1, <2>2, <2>3, PutStep
<1> QED BY <1>1, <1>2

LEMMA UserKeeps ==
    ASSUME PagesInv, UserStep
    PROVE  PagesInv'
<1>f. NoPage \in Page /\ PageOK(NoPage, runs)
      /\ PlainPage \in Page /\ PageOK(PlainPage, runs)
  BY FreshFacts
<1>1. CASE ClickIcon
  BY <1>1, OpenOrFocusKeeps DEF ClickIcon, User
<1>2. CASE SyncByHand
  <2>1. UNCHANGED page /\ NewRun(FALSE) BY <1>2 DEF SyncByHand, User
  <2>2. PICK f : f = page OBVIOUS
  <2>3. /\ runs' \in Runs /\ cur' \in Ids
        /\ \A id \in Ids : runs[id].phase = "full" => runs'[id].phase = "full"
    BY <2>1, NewRunFacts
  <2>4. AllOK(f, runs) /\ page' = f BY <2>1, <2>2 DEF PagesInv
  <2> QED BY <2>3, <2>4, RunStep
<1>3. CASE ToggleTest
  BY <1>3, QuietPages DEF ToggleTest, User
<1>4. ASSUME NEW p \in Pages, Look(p) PROVE PagesInv'
  <2>1. page' = [page EXCEPT ![p] = Shown(page[p])]
    BY <1>4 DEF Look, User, PagesInv, AllOK
  <2>2. PICK v : v = Shown(page[p]) OBVIOUS
  <2>3. v \in Page /\ PageOK(v, runs) BY <2>2, ShownFacts
  <2>4. UNCHANGED <<cur, runs>> BY <1>4 DEF Look, User
  <2> QED BY <2>1, <2>2, <2>3, <2>4, PutStep
<1>5. ASSUME NEW p \in Pages, Leave(p) PROVE PagesInv'
  <2>1. PICK R \in Runs : R = runs BY DEF PagesInv
  <2>2. PICK s : s = page[p] OBVIOUS
  <2>3. s \in Page /\ PageOK(s, R) BY <2>1, <2>2 DEF PagesInv, AllOK
  <2> DEFINE v == [s EXCEPT !.visible = FALSE]
  <2>4. page' = [page EXCEPT ![p] = v] /\ UNCHANGED <<cur, runs>>
    BY <1>5, <2>2 DEF Leave, User, PagesInv, AllOK
  <2>a. s.visible BY <1>5, <2>2 DEF Leave, User
  <2>5. v \in Page /\ PageOK(v, R)
    BY <2>3, <2>a DEF Page, PageOK, TimerOK, ArmedOK, SeenOK, InboxOK
  <2> HIDE DEF v
  <2> QED BY <2>1, <2>4, <2>5, PutStep
<1>6. ASSUME NEW p \in Pages, ClosePage(p) PROVE PagesInv'
  BY <1>6, <1>f, PutStep DEF ClosePage, User
<1>7. ASSUME NEW p \in Pages, Reload(p) PROVE PagesInv'
  BY <1>7, <1>f, PutStep DEF Reload, User
<1> QED BY <1>1, <1>2, <1>3, <1>4, <1>5, <1>6, <1>7 DEF UserStep

(* The end of the run: only the stored run changes, and it was not over.   *)
LEMMA EndRunKeeps ==
    ASSUME PagesInv, NEW outcome \in Outcomes, EndRun(outcome)
    PROVE  PagesInv'
<1>0. Ended(cur) \in Message /\ Ended(cur)[1] # "ok"
  BY DEF Message, Ended, PagesInv
<1>1. PICK m \in Message : m = Ended(cur) /\ m[1] # "ok"
  BY <1>0
<1>2. PICK T : T = {p \in Pages : Listening(p)} OBVIOUS
<1>3. PICK f : f = [p \in Pages |-> IF p \in T THEN Tell(page[p], m)
                                     ELSE page[p]]
  OBVIOUS
<1>4. AllOK(f, runs) BY <1>1, <1>3, TellAll
<1>5. page' = f BY <1>1, <1>2, <1>3 DEF EndRun
<1>6. runs' \in Runs /\ cur' = cur
      /\ \A id \in Ids : runs[id].phase = "full" => runs'[id].phase = "full"
  BY DEF EndRun, Live, PagesInv, Runs, RunState, Outcomes
<1> QED BY <1>4, <1>5, <1>6, RunStep DEF PagesInv

LEMMA WorkerDiesKeeps ==
    ASSUME PagesInv, WorkerDies
    PROVE  PagesInv'
<1>0. Refused \in Message /\ Refused[1] # "ok" BY DEF Message, Refused
<1>1. PICK m \in Message : m = Refused /\ m[1] # "ok" BY <1>0
<1>2. PICK T : T = {p \in Pages : Asked(p)} OBVIOUS
<1>3. PICK f : f = [p \in Pages |-> IF p \in T THEN Tell(page[p], m)
                                     ELSE page[p]]
  OBVIOUS
<1>4. AllOK(f, runs) BY <1>1, <1>3, TellAll
<1>5. page' = f BY <1>1, <1>2, <1>3 DEF WorkerDies
<1>6. CASE UNCHANGED <<cur, runs>>
  BY <1>4, <1>5, <1>6, RunStep DEF PagesInv
<1>7. CASE NewRun(TRUE)
  <2>1. /\ runs' \in Runs /\ cur' \in Ids
        /\ \A id \in Ids : runs[id].phase = "full" => runs'[id].phase = "full"
    BY <1>7, NewRunFacts
  <2> QED BY <1>4, <1>5, <2>1, RunStep
<1> QED BY <1>6, <1>7 DEF WorkerDies

LEMMA PagesGone ==
    ASSUME PagesInv, page' = [p \in Pages |-> NoPage], cur' = NoRun,
           UNCHANGED runs
    PROVE  PagesInv'
BY FreshFacts DEF PagesInv, AllOK

LEMMA PagesInvStep ==
    ASSUME PagesInv, [Next]_vars
    PROVE  PagesInv'
<1>1. CASE AutoSyncTick
  <2>1. CASE CreateTab
    <3>1. AutoPage \in Page /\ PageOK(AutoPage, runs) BY FreshFacts
    <3>2. PICK x : x = NextPage OBVIOUS
    <3>3. page' = [page EXCEPT ![x] = AutoPage] /\ UNCHANGED <<cur, runs>>
      BY <2>1, <3>2 DEF CreateTab
    <3> QED BY <3>1, <3>3, PutStep
  <2>2. CASE CheckStamps \/ CheckState \/ QueryTabs \/ StampOpen
    BY <2>2, QuietPages DEF CheckStamps, CheckState, QueryTabs, StampOpen
  <2> QED BY <1>1, <2>1, <2>2 DEF AutoSyncTick
<1>2. CASE CreateRefused \/ StampSync
  BY <1>2, QuietPages DEF CreateRefused, StampSync
<1>3. CASE AskApproval
  BY <1>3, OpenOrFocusKeeps DEF AskApproval
<1>4. CASE \E outcome \in Outcomes : EndRun(outcome)
  BY <1>4, EndRunKeeps
<1>5. CASE \E p \in Pages : PageStep(p) \/ Respond(p)
  BY <1>5, PageStepKeeps, RespondKeeps
<1>6. CASE UserStep
  BY <1>6, UserKeeps
<1>7. CASE Environment
  <2>1. CASE Tick \/ SetClockBack
    BY <2>1, QuietPages DEF Tick, SetClockBack
  <2>2. CASE WorkerDies
    BY <2>2, WorkerDiesKeeps
  <2>3. CASE Restart \/ Updated
    BY <2>3, PagesGone DEF Restart, Updated
  <2> QED BY <1>7, <2>1, <2>2, <2>3 DEF Environment
<1>8. CASE UNCHANGED vars
  BY <1>8, QuietPages DEF vars
<1> QED BY <1>1, <1>2, <1>3, <1>4, <1>5, <1>6, <1>7, <1>8 DEF Next

LEMMA PagesInvInit ==
    ASSUME Init
    PROVE  PagesInv
<1>1. runs \in Runs /\ cur \in Ids \cup {NoRun}
  BY DEF Init, Runs, RunState
<1>2. PICK R \in Runs : R = runs BY <1>1
<1> QED BY <1>1, <1>2, FreshPages DEF Init, PagesInv, AllOK

(* The page closes itself only over its own, fully successful run, and     *)
(* only if nobody watched it before the timer fired.                       *)
THEOREM ClosesUnseen == Spec => []ClosesOnlyUnseen
<1>1. Init => PagesInv BY PagesInvInit
<1>2. PagesInv /\ [Next]_vars => PagesInv' BY PagesInvStep
<1>3. PagesInv => ClosesOnlyUnseen
  BY DEF PagesInv, AllOK, PageOK, TimerOK, ClosesOnlyUnseen
<1> QED BY <1>1, <1>2, <1>3, PTL DEF Spec

-----------------------------------------------------------------------------
(* The check, its stamps and the history of the tabs it created.           *)

TimesOK ==
    /\ now \in 0 .. MaxNow
    /\ lastSyncedAt \in Nat \cup {Never} /\ lastAutoOpenAt \in Nat \cup {Never}
FlagsOK == autoSyncTest \in BOOLEAN /\ stamping \in BOOLEAN
TickOK == tick \in [at : {"idle", "state", "query", "create", "stamp"},
                   stale : {1, Stale}]
OpenedOK ==
    opened \in [at : Nat \cup {Never}, stamped : BOOLEAN, setBack : BOOLEAN]
CountsOK == events \in 0 .. MaxEvents /\ faults \in 0 .. MaxFaults
TickTypes == TimesOK /\ FlagsOK /\ TickOK /\ OpenedOK /\ CountsOK

LEMMA TickTypesStep ==
    ASSUME TickTypes, [Next]_vars
    PROVE  TickTypes'
<1> USE AutoSyncAssumption DEF TickTypes, TimesOK, FlagsOK, TickOK, OpenedOK,
                               CountsOK, Never
<1>a. CASE CheckStamps
  <2>1. StaleMs \in {1, Stale} BY DEF StaleMs
  <2> QED BY <1>a, <2>1 DEF CheckStamps
<1>b. CASE CheckState \/ QueryTabs
  BY <1>b DEF CheckState, QueryTabs, TickTo, clocks
<1>c. CASE CreateTab
  BY <1>c DEF CreateTab, TickTo, clocks
<1>d. CASE CreateRefused
  BY <1>d DEF CreateRefused, TickTo, clocks
<1>e. CASE StampOpen
  <2>a. TimesOK' BY <1>e DEF StampOpen, TickTo
  <2>b. FlagsOK' BY <1>e DEF StampOpen, TickTo
  <2>c. TickOK' BY <1>e DEF StampOpen, TickTo
  <2>d. OpenedOK' BY <1>e DEF StampOpen, TickTo
  <2>e. CountsOK' BY <1>e DEF StampOpen, TickTo
  <2> QED BY <2>a, <2>b, <2>c, <2>d, <2>e
<1>f. CASE StampSync
  <2>a. TimesOK' BY <1>f DEF StampSync
  <2>b. FlagsOK' BY <1>f DEF StampSync
  <2>c. TickOK' BY <1>f DEF StampSync
  <2>d. OpenedOK' BY <1>f DEF StampSync
  <2>e. CountsOK' BY <1>f DEF StampSync
  <2> QED BY <2>a, <2>b, <2>c, <2>d, <2>e
<1>g. CASE AskApproval
  BY <1>g DEF AskApproval, clocks, worker
<1>h. CASE \E outcome \in Outcomes : EndRun(outcome)
  BY <1>h DEF EndRun, clocks
<1>i. CASE \E p \in Pages : PageStep(p) \/ Respond(p)
  BY <1>i DEF PageStep, Respond, StartListening, Receive, SurfaceTab,
              FireTimer, CloseItself, AcceptStart, RefuseStart, clocks, worker
<1>j. CASE ToggleTest
  BY <1>j DEF ToggleTest, User, worker
<1>k. CASE UserStep /\ ~ToggleTest
  <2>1. UNCHANGED <<clocks, worker, opened, faults>>
    BY <1>k DEF UserStep, User, ClickIcon, Look, Leave, ClosePage, Reload,
                SyncByHand
  <2>2. events < MaxEvents /\ events' = events + 1
    BY <1>k DEF UserStep, User, ClickIcon, Look, Leave, ClosePage, Reload,
                SyncByHand
  <2> QED BY <2>1, <2>2 DEF clocks, worker
<1>l. CASE Tick
  BY <1>l DEF Tick, worker
<1>m. CASE SetClockBack
  <2>a. TimesOK' BY <1>m DEF SetClockBack, Fault, worker
  <2>b. FlagsOK' BY <1>m DEF SetClockBack, Fault, worker
  <2>c. TickOK' BY <1>m DEF SetClockBack, Fault, worker
  <2>d. OpenedOK' BY <1>m DEF SetClockBack, Fault, worker
  <2>e. CountsOK' BY <1>m DEF SetClockBack, Fault, worker
  <2> QED BY <2>a, <2>b, <2>c, <2>d, <2>e
<1>n. CASE WorkerDies \/ Restart \/ Updated
  <2>a. TimesOK' BY <1>n DEF WorkerDies, Restart, Updated, Fault, Died,
                       clocks
  <2>b. FlagsOK' BY <1>n DEF WorkerDies, Restart, Updated, Fault, Died,
                       clocks
  <2>c. TickOK' BY <1>n DEF WorkerDies, Restart, Updated, Fault, Died,
                       clocks
  <2>d. OpenedOK' BY <1>n DEF WorkerDies, Restart, Updated, Fault, Died,
                       clocks
  <2>e. CountsOK'
    <3>1. faults < MaxFaults /\ faults' = faults + 1 /\ events' = events
      BY <1>n DEF WorkerDies, Restart, Updated, Fault
    <3> QED BY <3>1
  <2> QED BY <2>a, <2>b, <2>c, <2>d, <2>e
<1>o. CASE UNCHANGED vars
  BY <1>o DEF vars, clocks, worker
<1> QED BY <1>a, <1>b, <1>c, <1>d, <1>e, <1>f, <1>g, <1>h, <1>i, <1>j, <1>k,
           <1>l, <1>m, <1>n, <1>o DEF Next, AutoSyncTick, Environment

(* Unless the clock was set back or the stamp was lost, lastAutoOpenAt is  *)
(* no older than the last tab, and a check past its throttle has found it  *)
(* expired.                                                                *)
StampInv ==
    opened.at # Never /\ ~opened.setBack =>
      /\ opened.at <= now
      /\ opened.stamped =>
           /\ lastAutoOpenAt # Never
           /\ opened.at <= lastAutoOpenAt /\ lastAutoOpenAt <= now
           /\ tick.at \in {"state", "query", "create"} =>
                now - lastAutoOpenAt >= tick.stale

Quiet == UNCHANGED <<now, lastAutoOpenAt, tick, opened>>

LEMMA StampInvStep ==
    ASSUME TickTypes, StampInv, [Next]_vars
    PROVE  StampInv'
<1> USE AutoSyncAssumption DEF TickTypes, TimesOK, TickOK, OpenedOK, StampInv,
                               Never
<1>1. CASE Quiet
  BY <1>1 DEF Quiet
<1>2. CASE CheckStamps
  BY <1>2 DEF CheckStamps, Throttle, Expired
<1>3. CASE CheckState \/ QueryTabs
  BY <1>3 DEF CheckState, QueryTabs, TickTo, clocks
<1>4. CASE CreateRefused
  BY <1>4 DEF CreateRefused, TickTo, clocks
<1>5. CASE CreateTab
  BY <1>5 DEF CreateTab, TickTo, clocks
<1>6. CASE StampOpen
  BY <1>6 DEF StampOpen, TickTo
<1>7. CASE Tick
  BY <1>7 DEF Tick, worker
<1>8. CASE SetClockBack
  BY <1>8 DEF SetClockBack, worker
<1>9. CASE WorkerDies \/ Restart \/ Updated
  BY <1>9 DEF WorkerDies, Restart, Updated, Died, clocks
<1>10. CASE StampSync \/ AskApproval
  BY <1>10, <1>1 DEF StampSync, AskApproval, clocks, worker, Quiet
<1>11. CASE \/ \E outcome \in Outcomes : EndRun(outcome)
            \/ \E p \in Pages : PageStep(p) \/ Respond(p)
  BY <1>11, <1>1 DEF EndRun, PageStep, Respond, StartListening, Receive,
     SurfaceTab, FireTimer, CloseItself, AcceptStart, RefuseStart, clocks,
     worker, Quiet
<1>12. CASE UserStep
  BY <1>12, <1>1 DEF UserStep, User, ClickIcon, Look, Leave, ClosePage, Reload,
     SyncByHand, ToggleTest, clocks, worker, Quiet
<1>13. CASE UNCHANGED vars
  BY <1>13, <1>1 DEF vars, clocks, worker, Quiet
<1> QED BY <1>2, <1>3, <1>4, <1>5, <1>6, <1>7, <1>8, <1>9, <1>10, <1>11, <1>12,
           <1>13 DEF Next, AutoSyncTick, Environment

LEMMA StampInvInit ==
    ASSUME Init
    PROVE  TickTypes /\ StampInv
<1> USE AutoSyncAssumption DEF Init, Never
<1>1. TimesOK BY DEF TimesOK
<1>2. FlagsOK BY DEF FlagsOK
<1>3. TickOK BY DEF TickOK
<1>4. OpenedOK /\ opened.at = Never BY DEF OpenedOK
<1>5. CountsOK BY DEF CountsOK
<1> QED BY <1>1, <1>2, <1>3, <1>4, <1>5 DEF TickTypes, StampInv

(* At most one auto-open per staleness window, but for a stamp that was    *)
(* lost and a clock that was set back.                                     *)
THEOREM OnePerWindow == Spec => NotNagged
<1> DEFINE Rule == opened'.at # opened.at \/ opened'.stamped # opened.stamped =>
             \/ opened'.stamped
             \/ opened.at = Never \/ ~opened.stamped \/ opened.setBack
             \/ now - opened.at >= tick.stale
<1>1. Init => TickTypes /\ StampInv BY StampInvInit
<1>2. TickTypes /\ StampInv /\ [Next]_vars => TickTypes' /\ StampInv'
  BY TickTypesStep, StampInvStep
<1>3. TickTypes /\ StampInv /\ [Next]_vars => [Rule]_vars
  <2> SUFFICES ASSUME TickTypes, StampInv, Next
               PROVE  Rule
    OBVIOUS
  <2>1. CASE opened' = opened
    BY <2>1
  <2>2. CASE CreateTab
    BY <2>2, AutoSyncAssumption DEF CreateTab, TickTypes, TimesOK, TickOK,
       OpenedOK, StampInv, Never
  <2>3. CASE StampOpen
    BY <2>3 DEF StampOpen, TickTypes, OpenedOK
  <2>4. CASE SetClockBack
    BY <2>4 DEF SetClockBack, TickTypes, OpenedOK
  <2>5. CASE CheckStamps \/ CheckState \/ QueryTabs \/ CreateRefused
    BY <2>1, <2>5 DEF CheckStamps, CheckState, QueryTabs, CreateRefused
  <2>6. CASE \/ StampSync \/ AskApproval
             \/ \E outcome \in Outcomes : EndRun(outcome)
             \/ \E p \in Pages : PageStep(p) \/ Respond(p)
    BY <2>1, <2>6 DEF StampSync, AskApproval, EndRun, PageStep, Respond,
       StartListening, Receive, SurfaceTab, FireTimer, CloseItself,
       AcceptStart, RefuseStart
  <2>7. CASE UserStep
    BY <2>1, <2>7 DEF UserStep, User, ClickIcon, Look, Leave, ClosePage, Reload,
       SyncByHand, ToggleTest
  <2>8. CASE Tick \/ WorkerDies \/ Restart \/ Updated
    BY <2>1, <2>8 DEF Tick, WorkerDies, Restart, Updated
  <2> QED BY <2>2, <2>3, <2>4, <2>5, <2>6, <2>7, <2>8
          DEF Next, AutoSyncTick, Environment
<1> QED BY <1>1, <1>2, <1>3, PTL DEF Spec, NotNagged

(* Every variable keeps its type.                                          *)
THEOREM TypesKept == Spec => []TypeOK
<1>1. Init => PagesInv /\ TickTypes BY PagesInvInit, StampInvInit
<1>2. PagesInv /\ TickTypes /\ [Next]_vars => PagesInv' /\ TickTypes'
  BY PagesInvStep, TickTypesStep
<1>3. PagesInv /\ TickTypes => TypeOK
  BY DEF PagesInv, AllOK, Runs, TickTypes, TimesOK, FlagsOK, TickOK, OpenedOK,
         CountsOK, TypeOK
<1> QED BY <1>1, <1>2, <1>3, PTL DEF Spec
=============================================================================
