------------------------ MODULE AddPreviewLifecycle -------------------------
(***************************************************************************)
(* AddPreview implements PreviewLifecycle: the variables of the abstract   *)
(* specification are the controller's of the same names.                   *)
(***************************************************************************)
EXTENDS AddPreview

Lifecycle == INSTANCE PreviewLifecycle

\* The controller's preview follows PreviewLifecycle: a ready preview never falls back to loading
\* unless its link was loaded before, its files never change, and only a ready one is accepted, in
\* every interleaving of polls, checks, timeouts, edits and the engine (app_controller.cpp, lines 700-974).
ImplementsLifecycle == Lifecycle!Spec

=============================================================================
