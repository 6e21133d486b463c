---------------------------- MODULE CommandLanes ----------------------------
(***************************************************************************)
(* What the engine promises about the commands it accepts, whatever they   *)
(* do: they wait in two lanes, staging commands (begin, finalize, cancel,  *)
(* add) and operations on torrents.  A command is its number in the order  *)
(* of acceptance, a lane the set of its numbers: each lane is first in,    *)
(* first out, and every command leaves it once.  An operation never        *)
(* overtakes a staging command accepted before it; a staging command may   *)
(* overtake operations.                                                    *)
(***************************************************************************)
EXTENDS Naturals

VARIABLES
    accepted,    \* commands accepted so far
    staging,     \* the staging lane
    operations   \* the lane of operations

vars == <<accepted, staging, operations>>

Init ==
    /\ accepted = 0
    /\ staging = {}
    /\ operations = {}

AcceptStaging ==
    /\ accepted' = accepted + 1
    /\ staging' = staging \cup {accepted + 1}
    /\ UNCHANGED operations

AcceptOperation ==
    /\ accepted' = accepted + 1
    /\ operations' = operations \cup {accepted + 1}
    /\ UNCHANGED staging

RunStaging(n) ==
    /\ n \in staging
    /\ \A m \in staging : n <= m
    /\ staging' = staging \ {n}
    /\ UNCHANGED <<accepted, operations>>

RunOperation(n) ==
    /\ n \in operations
    /\ \A m \in operations : n <= m
    /\ \A m \in staging : n < m
    /\ operations' = operations \ {n}
    /\ UNCHANGED <<accepted, staging>>

\* The process ends and takes the commands that did not run with it.
DropAll ==
    /\ staging' = {}
    /\ operations' = {}
    /\ UNCHANGED accepted

Next ==
    \/ AcceptStaging
    \/ AcceptOperation
    \/ \E n \in staging : RunStaging(n)
    \/ \E n \in operations : RunOperation(n)
    \/ DropAll

Spec == Init /\ [][Next]_vars

=============================================================================
