----------------------------- MODULE MCBackend -----------------------------
(* Three units: an issue queue for INT and SYS, one for INT, BR and VINT, LSU. *)
EXTENDS Backend

MCUnits == {"iq0", "iq1", "lsu"}
MCDispatchers == [p \in {"INT", "SYS", "BR", "VINT", "LSU"} |->
                    CASE p = "INT" -> <<"iq0", "iq1">>
                      [] p = "SYS" -> <<"iq0">>
                      [] p \in {"BR", "VINT"} -> <<"iq1">>
                      [] p = "LSU" -> <<"lsu">>]
MCUnitSize == [u \in MCUnits |-> IF u = "iq0" THEN 2 ELSE 1]

T(p, k)    == [pipe |-> p, kind |-> k, uops |-> 1]
alu == T("INT", "alu")
br  == T("BR", "branch")
csr == T("SYS", "csr")
sys == T("SYS", "sys")
ld  == T("LSU", "alu")
st  == T("LSU", "store")
vec(n) == [pipe |-> "VINT", kind |-> "alu", uops |-> n]

\* Stores that wait for their retirement behind a full LSU, branches and CSR
\* instructions that flush what was dispatched behind them, uops between them.
MCTraces == {<<st, br, st, ld, alu, br>>, <<ld, st, csr, st, br, alu>>,
             <<alu, sys, br, br, alu, alu>>, <<br, vec(3), csr, alu>>}
=============================================================================
