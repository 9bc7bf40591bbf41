------------------------------- MODULE MCDoctor -------------------------------
(***************************************************************************)
(* Configurations of up to two policies over two fields.                   *)
(***************************************************************************)
EXTENDS Doctor

NoLimit == [match |-> Undefined, groupBy |-> {}, window |-> [kind |-> "utc-month", rolling |-> 0],
            limitUsd |-> Undefined, limitCalls |-> Undefined,
            maxOperationUsd |-> Undefined, maxConcurrent |-> Undefined, mode |-> Undefined]

Pool ==
    {[[NoLimit EXCEPT ![limit] = 1] EXCEPT !.match = match, !.groupBy = groupBy, !.mode = mode] :
        limit \in {"limitUsd", "limitCalls", "maxOperationUsd", "maxConcurrent"},
        match \in {Undefined, [field \in {} |-> {}], [field \in {"provider"} |-> {"a"}]},
        groupBy \in {{}, {"userId"}},
        mode \in {Undefined, "observe"}}
    \cup {NoLimit, [NoLimit EXCEPT !.window = [kind |-> "rolling", rolling |-> 5], !.limitUsd = 1]}
AtMostTwo == {{}} \cup {{p, q} : p, q \in Pool}
=============================================================================
