----------------------------- MODULE MCFdcServer -----------------------------
(* Two tracks and two values on a line with up to three faults or early repeats. *)
EXTENDS FdcServer
=============================================================================
