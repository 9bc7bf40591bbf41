------------------------------- MODULE Totals -------------------------------
(***************************************************************************)
(* The sum of a function with natural values over a finite domain, written *)
(* as the cardinality of its set of units: a record that weighs n owns the *)
(* n units <<record, 1>>, ..., <<record, n>>.  Adding a record adds its    *)
(* units, dropping it removes them, so every fact a ledger needs about     *)
(* sums (TotalsTheorems) is a fact about cardinalities, with no recursion. *)
(* The source adds the same amounts one by one (policy.ts, policyUsage).   *)
(***************************************************************************)
EXTENDS Naturals, FiniteSets

Units(weight) == UNION {{k} \X (1..weight[k]) : k \in DOMAIN weight}

Total(weight) == Cardinality(Units(weight))
=============================================================================
