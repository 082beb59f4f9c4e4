-------------------------- MODULE MCSpendLedger --------------------------
(***************************************************************************)
(* A small instance of SpendLedger for TLC: a fu-round and a chat reading  *)
(* over one ledger, and one midnight.                                      *)
(***************************************************************************)
EXTENDS SpendLedger, TLC

CONSTANTS round, reading, nobody

BothPasses == {round, reading}
=============================================================================
