---------------------------- MODULE MCReceiptLog ----------------------------
(***************************************************************************)
(* Small instances of ReceiptLog for TLC.                                  *)
(***************************************************************************)
EXTENDS ReceiptLog, TLC

CONSTANTS seed1, off, absent

OneSeed == {seed1}
SeedOrOff == {seed1, off}

=============================================================================
