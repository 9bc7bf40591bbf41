-------------------------- MODULE MCDatabaseStores --------------------------
(***************************************************************************)
(* One process with two stores on the database and a second with one.      *)
(***************************************************************************)
EXTENDS DatabaseStores

CONSTANTS s1, s2, s3, t1, t2, t3, r

MCProcessOf == [s \in Stores |-> IF s = s3 THEN "q" ELSE "p"]
MCStoreOf == [t \in Transactions |-> CASE t = t1 -> s1 [] t \in {t2, r} -> s2 [] OTHER -> s3]
=============================================================================
