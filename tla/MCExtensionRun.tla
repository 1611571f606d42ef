--------------------------- MODULE MCExtensionRun ---------------------------
(***************************************************************************)
(* ExtensionRun on small instances; the bounds are in the cfg files.  What *)
(* ExtensionRun promises is stated there.  Here is what a comment says of  *)
(* the extension, which the code does not keep once two runs overlap.      *)
(***************************************************************************)
EXTENDS ExtensionRun

(* "a run whose worker died mid-flight still gets cleaned up: a stalled    *)
(* site is failed and the run moves on" (background.js:745-748): a stored  *)
(* run does not stay live for ever.                                        *)
RunEnds == StoredLive ~> ~StoredLive

=============================================================================
