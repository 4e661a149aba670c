----------------------------- MODULE MCExporter -----------------------------
(* Model-checking instance of Exporter: two mediators, two locations, one  *)
(* intercept with one CIN.                                                 *)
EXTENDS Exporter, TLC

CONSTANTS m1, m2, a1, a2, l1, c1

MCMediators == {m1, m2}
MCAddrs == {a1, a2}
MCLIIDs == {l1}
MCCINs == {c1}

\* Mediator ids and locations are interchangeable (safety runs only).
MCSymmetry == Permutations(MCMediators) \cup Permutations(MCAddrs)
====
