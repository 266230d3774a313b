---------------------------- MODULE MCTopFrames ----------------------------
(* TopFrames for TLC: every forest of a few frames; the chunks are alike.  *)
EXTENDS TopFrames, TLC

ChunkSymmetry == Permutations(Chunks)
=============================================================================
