------------------------------ MODULE SyncPlan ------------------------------
(***************************************************************************)
(* Time spans, and the work-list the server computes from them (the query  *)
(* aiscanSyncPlan, docs/upload-schema-v1.md), as both clients use them.    *)
(* Time is counted in slots: slot t is [t, t+1), a span [start, end).      *)
(***************************************************************************)
EXTENDS Naturals

CONSTANT MaxTime   \* bound: the last moment

ASSUME TimeAssumption == MaxTime \in Nat \ {0}

Times == 1 .. MaxTime
Spans == {sp \in [start : Times, end : Times] : sp.start < sp.end}
NoSpan == [start |-> 1, end |-> 1]
Slots(sp) == sp.start .. sp.end - 1

(* The maximal spans of `offered' the server has no evidence for: what is  *)
(* available minus what is covered.                                        *)
Needed(offered, coverage) ==
    {sp \in Spans :
        /\ Slots(sp) \subseteq Slots(offered) \ coverage
        /\ sp.start = offered.start \/ sp.start - 1 \in coverage
        /\ sp.end = offered.end \/ sp.end \in coverage}

(* The clients work through the list from its start.                       *)
Earliest(sp, spans) == sp \in spans /\ \A q \in spans : sp.start <= q.start

=============================================================================
