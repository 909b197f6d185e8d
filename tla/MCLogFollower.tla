----------------------------- MODULE MCLogFollower -----------------------------
(* Small instances of LogFollower for TLC. *)
EXTENDS LogFollower

CONSTANTS p, b

OneProc == {p}
OneBrowser == {b}
MCKeep == {0, 1}
MCSizes == {1}
MCLastNs == {0, 1}
BothPrograms == {"logs", "ui"}
===============================================================================
