------------------------- MODULE MCExecutionAnalyze -------------------------
EXTENDS ExecutionAnalyze

CONSTANTS n1, n2

MCNodes == {n1, n2}
MCNetworks == {1, 2}

(* One transaction type, or none, and up to two reserved instructions.    *)
MCAnalyses ==
    [transaction_types : {<<>>} \cup {<<t>> : t \in TransactionTypes},
     reserved_instructions :
        {<<>>} \cup {<<r>> : r \in ReservedInstructions}
               \cup {<<r, q>> : r, q \in ReservedInstructions}]
=============================================================================
