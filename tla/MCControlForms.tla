--------------------------- MODULE MCControlForms ---------------------------
(* ControlForms with two requests at once, one numeric parameter and one        *)
(* register, on any one of the tabs.  Four edits are enough to set three fields *)
(* of a form and change the mind, or tick, choose, fill in and untick.          *)
EXTENDS ControlForms

CONSTANTS r1, r2

MCReq == {r1, r2}
MCKeys == <<"poll">>
MCDefault == [params |-> [k \in {"poll"} |-> 1], regs |-> {0}]
Symmetry == {[r \in MCReq |-> r], [r \in MCReq |-> IF r = r1 THEN r2 ELSE r1]}

=============================================================================
