----------------------------- MODULE MCRecorder -----------------------------
(***************************************************************************)
(* One recording on two pages, with two passes over them at a time.        *)
(***************************************************************************)
EXTENDS Recorder, TLC

CONSTANTS ann, bob, p1, p2

PassSymmetry == Permutations(Passes)
=============================================================================
