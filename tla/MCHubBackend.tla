----------------------------- MODULE MCHubBackend -----------------------------
(***************************************************************************)
(* Small instances of HubBackend for TLC.                                  *)
(***************************************************************************)
EXTENDS HubBackend, TLC

CONSTANTS c1, c2, n1

OneCall == {c1}
CallAndNote == {c1, n1}
CallsAndNote == {c1, c2, n1}
NoNotes == {}
OneNote == {n1}
Silent == {}
FirstId == {1}
ZeroId == {0}

\* The calls of one kind are interchangeable.
Symmetry == Permutations({c1, c2})
===============================================================================
