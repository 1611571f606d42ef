--------------------------- MODULE MCDesktopSync ---------------------------
(***************************************************************************)
(* DesktopSync on small instances.  Sizes are chosen so that all sessions  *)
(* together exceed the server's limit and some of them the client's cap.   *)
(***************************************************************************)
EXTENDS DesktopSync

MixedSizes == <<1, 3, 5>>   \* two to a body, one over the cap
PairSizes == <<1, 3>>       \* both in a body the server refuses

OneSource == [s \in Sessions |-> 1]
OneEach == [s \in Sessions |-> s]
Second == [s \in Sessions |-> 2]

=============================================================================
