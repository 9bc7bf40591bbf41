--------------------------- MODULE MCJsonFileStore ---------------------------
(***************************************************************************)
(* Two processes on one ledger file: one writes twice through its mutex,   *)
(* the other writes and reads.                                             *)
(***************************************************************************)
EXTENDS JsonFileStore, TLC

CONSTANTS p, q, t1, t2, t3, r

MCProcessOf == [t \in Transactions |-> IF t \in {t1, t2} THEN p ELSE q]
=============================================================================
