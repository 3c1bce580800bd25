----------------------------- MODULE LspDriverMC -----------------------------
EXTENDS LspDriver
CONSTANTS main, util
MCFiles == {main, util}
(* main uses util in its odd texts, util always uses main. *)
MCUses == [f \in MCFiles |->
             [v \in 1..MaxVersion |-> IF f = util THEN {main}
                                      ELSE IF v % 2 = 1 THEN {util} ELSE {}]]
=============================================================================
