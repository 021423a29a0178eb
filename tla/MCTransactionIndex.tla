------------------------- MODULE MCTransactionIndex -------------------------
(***************************************************************************)
(* An instance of TransactionIndex.  One transaction does not invoke the   *)
(* contract, as when an archived entry is restored; a page is too small    *)
(* for the whole ledger.                                                   *)
(***************************************************************************)
EXTENDS TransactionIndex, TLC
=============================================================================
