---------------------------- MODULE MCAddPreview ----------------------------
(***************************************************************************)
(* AddPreview for TLC: hashes are interchangeable, and the user neither    *)
(* floods the queue nor leaves many checks waiting.                        *)
(***************************************************************************)
EXTENDS AddPreviewLifecycle, TLC

HashSymmetry == Permutations(Hash)

ShortQueue == Len(commands) <= 4

=============================================================================
