-------------------------- MODULE PreviewLifecycle --------------------------
(***************************************************************************)
(* What the add dialogs promise about the preview they show: one preview   *)
(* at a time; loading it shows no files; once it is ready it stays so      *)
(* until it is dropped or fails; and only a ready preview is accepted.     *)
(***************************************************************************)
EXTENDS Naturals

CONSTANTS Hash, NoHash

VARIABLES status, hash, files, begun, accepted

vars == <<status, hash, files, begun, accepted>>

Init == status = "idle" /\ hash = NoHash /\ files = NoHash /\ begun = [h \in Hash |-> 0] /\ accepted = NoHash

Show(h) ==
    /\ status' = "loading" /\ hash' = h /\ files' = NoHash
    /\ begun' = [begun EXCEPT ![h] = @ + 1]
    /\ UNCHANGED accepted

ShowFile(h) ==
    /\ status' = "ready" /\ hash' = h /\ files' = h
    /\ UNCHANGED <<begun, accepted>>

\* The files of the magnet arrive; a preview given up may still get them.
Answer ==
    /\ status \in {"loading", "error"} /\ hash # NoHash
    /\ status' = "ready" /\ files' = hash
    /\ UNCHANGED <<hash, begun, accepted>>

\* A preview given up turns out to be still loading; so does a ready one of a torrent begun
\* before, when its files were the answer to the earlier load.
Wait ==
    /\ hash # NoHash
    /\ status = "error" \/ (status = "ready" /\ begun[hash] > 1)
    /\ status' = "loading" /\ files' = NoHash
    /\ UNCHANGED <<hash, begun, accepted>>

Fail == status' = "error" /\ UNCHANGED <<hash, files, begun, accepted>>

Drop ==
    /\ status' \in {"idle", "error"} /\ hash' = NoHash /\ files' = NoHash
    /\ UNCHANGED <<begun, accepted>>

Accept ==
    /\ status = "ready" /\ files = hash
    /\ accepted' = hash
    /\ status' = "idle" /\ hash' = NoHash /\ files' = NoHash
    /\ UNCHANGED begun

Next == (\E h \in Hash : Show(h) \/ ShowFile(h)) \/ Answer \/ Wait \/ Fail \/ Drop \/ Accept

Spec == Init /\ [][Next]_vars

=============================================================================
