------------------------ MODULE SessionManagerLanes -------------------------
(***************************************************************************)
(* SessionManager implements CommandLanes: the refinement mapping reads    *)
(* the two lanes off the command queue and the batch being worked through. *)
(***************************************************************************)
EXTENDS SessionManager

\* The places of the batch the first pass, and the second pass, has still to run.
StagingLeft == {i \in at .. Len(batch) : phase = "staging" /\ batch[i].type \in StageTypes}
OperationsLeft == {i \in 1 .. Len(batch) : (phase = "staging" \/ at <= i) /\ batch[i].type \in OpTypes}

Lane(left, types) ==
    {batch[i].id : i \in left} \cup {commands[i].id : i \in {j \in DOMAIN commands : commands[j].type \in types}}

Lanes == INSTANCE CommandLanes WITH
    accepted <- sent,
    staging <- Lane(StagingLeft, StageTypes),
    operations <- Lane(OperationsLeft, OpTypes)

\* Each lane runs in order, and no operation overtakes a staging command accepted before it,
\* however enqueueing, the batch swap and the two passes interleave (process_commands, lines
\* 770-1101).
ImplementsLanes == Lanes!Spec

\* A command waits at one place: the batch the worker took is not in the queue any more, so that
\* every command leaves its lane the first time it runs and never runs again (lines 771-780).
QueuedOnce ==
    /\ \A i, j \in DOMAIN commands : commands[i].id = commands[j].id => i = j
    /\ \A i \in StagingLeft \cup OperationsLeft :
          /\ \A j \in StagingLeft \cup OperationsLeft : batch[i].id = batch[j].id => i = j
          /\ \A j \in DOMAIN commands : batch[i].id # commands[j].id

=============================================================================
