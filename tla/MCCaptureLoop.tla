--------------------------- MODULE MCCaptureLoop ---------------------------
(***************************************************************************)
(* Small instances of CaptureLoop.  The values of count stand for the two  *)
(* meanings of the argument of ov_capture_dispatch(): no limit, and limits *)
(* that are reached within one buffer and only after several.              *)
(***************************************************************************)
EXTENDS CaptureLoop

MCCounts == {-1, 0, 1, 2}
=============================================================================
