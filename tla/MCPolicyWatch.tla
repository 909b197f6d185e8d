---------------------------- MODULE MCPolicyWatch -----------------------------
(* Small instances of PolicyWatch for TLC. *)
EXTENDS PolicyWatch

MCUnparsable == {1}
MCUncompilable == {2}
MCHalfParses == {1, 3}
MCAnyDisturbance == {"early", "same", "unread"}
===============================================================================
