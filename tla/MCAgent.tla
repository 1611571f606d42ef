------------------------------- MODULE MCAgent -------------------------------
(***************************************************************************)
(* What a comment of the daemon's code says of it, for the run in which    *)
(* TLC finds a behaviour of Agent that does otherwise.                     *)
(***************************************************************************)
EXTENDS Agent

(* After a refusal it is "the stale token" that "is already cleared"       *)
(* (sync.go:364-366), not one the server accepts.                          *)
OnlyStaleCleared == [][PassRefused => cache \notin accepted]_vars

=============================================================================
