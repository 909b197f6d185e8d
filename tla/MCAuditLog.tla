------------------------------ MODULE MCAuditLog ------------------------------
(* Small instances of AuditLog for TLC. *)
EXTENDS AuditLog

CONSTANTS p, q

OneProc == {p}
TwoProcs == {p, q}
MCKeep == {0, 1, 3}
MCSizes == {1, 2, 4}
===============================================================================
