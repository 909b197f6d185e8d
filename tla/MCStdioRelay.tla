----------------------------- MODULE MCStdioRelay -----------------------------
(***************************************************************************)
(* Small instances of StdioRelay for TLC.                                  *)
(***************************************************************************)
EXTENDS StdioRelay, TLC

CONSTANTS r1, n1, s1

OneRequest == {r1}
OneNote == {n1}
OneServerNote == {s1}
Nothing == {}
FromClient == {r1, n1}
Both == {"in", "out"}
InOnly == {"in"}
===============================================================================
