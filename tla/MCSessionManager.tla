------------------------- MODULE MCSessionManager --------------------------
(***************************************************************************)
(* The engine for TLC.  Torrent objects are interchangeable, hashes too;   *)
(* neither is in the specification otherwise than as a variable's value or *)
(* through a CHOOSE among equals (Unused, and the inverse of an injection).*)
(***************************************************************************)
EXTENDS SessionManagerLanes, TLC

HandleSymmetry == Permutations(Handle)

\* Bound of the long runs: no more than two commands wait for the worker at a time.
ShortQueue == Len(commands) <= 2

=============================================================================
