----------------------------- MODULE MCPackReload -----------------------------
(* Small instances of PackReload.                                          *)
EXTENDS PackReload

CONSTANTS p1, p2, r1
=============================================================================
