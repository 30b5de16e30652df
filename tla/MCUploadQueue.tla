---------------------------- MODULE MCUploadQueue ----------------------------
(* UploadQueue for TLC.  Its run checks a liveness property, so it declares  *)
(* no symmetry, though uploads and workers are interchangeable.              *)
EXTENDS UploadQueue, TLC
==============================================================================
