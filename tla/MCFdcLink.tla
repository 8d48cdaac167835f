----------------------------- MODULE MCFdcLink -----------------------------
(* Small instances of FdcLink. *)
EXTENDS FdcLink, TLC

Symmetry == Permutations(Sockets) \cup Permutations(Consoles)

=============================================================================
