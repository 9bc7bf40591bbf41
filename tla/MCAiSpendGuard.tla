---------------------------- MODULE MCAiSpendGuard ----------------------------
(***************************************************************************)
(* Instances of AiSpendGuard for TLC: the limits of a configuration.       *)
(***************************************************************************)
EXTENDS AiSpendGuard, TLC

Unlimited == [name \in LimitNames |-> Undefined]

\* A monthly limit for everybody and a daily one, with a largest request, for one provider.
TwoScopes ==
    [scope \in Scopes |->
        CASE scope = "global" -> [Unlimited EXCEPT !["monthly"] = 3]
          [] scope = "openai" -> [Unlimited EXCEPT !["daily"] = 1, !["perRequest"] = 1]
          [] OTHER -> Unlimited]

Symmetry == Permutations(Callers) \cup Permutations(Ids)
=============================================================================
