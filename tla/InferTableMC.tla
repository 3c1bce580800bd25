---------------------------- MODULE InferTableMC ----------------------------
EXTENDS InferTable
CONSTANTS A, B, I, J, i32, u8, bool
MCTyVars == {A, B}
MCIntVars == {I, J}
MCIntPrims == {i32, u8}
MCOthers == {bool}
MCArgs == [AB |-> <<A, B>>, BA |-> <<B, A>>, IJ |-> <<I, J>>, ZU |-> <<i32, u8>>,
           AL |-> <<A>>, IL |-> <<I>>]
MCCons == DOMAIN MCArgs
MCShape == [c \in MCCons |-> IF Len(MCArgs[c]) = 2 THEN "tuple" ELSE "slice"]
MCVarsIn == [t \in Ty |-> IF t \in Vars THEN {t}
                          ELSE IF t \in MCCons THEN {MCArgs[t][i] : i \in DOMAIN MCArgs[t]} \cap Vars
                          ELSE {}]
MCCalls == {<<"AB", "BA">>, <<"IJ", "ZU">>, <<"AL", "IL">>, <<A, bool>>, <<J, I>>, <<A, "AL">>}
=============================================================================
