------------------------------ MODULE MCRename ------------------------------
(* Small register files for Rename: two integer registers and one float     *)
(* register over four and two physical registers.                           *)
EXTENDS Rename, TLC

CONSTANTS x1, x2, f0, p1, p2, p3, p4, q0, q1

MCARegs == {x1, x2, f0}
MCPRegs == {p1, p2, p3, p4, q0, q1}
MCAFile == [a \in MCARegs |-> IF a = f0 THEN "FLOAT" ELSE "INT"]
MCPFile == [p \in MCPRegs |-> IF p \in {q0, q1} THEN "FLOAT" ELSE "INT"]
MCInitMap == (x1 :> p1) @@ (x2 :> p2) @@ (f0 :> q0)
MCInitFree == [f \in {"INT", "FLOAT"} |-> IF f = "INT" THEN <<p3, p4>> ELSE <<q1>>]

O(s, d, k) == [src |-> s, dst |-> d, kind |-> k]

\* Overwriting a register from itself, a move whose registers are both overwritten again
\* (by the first and by itself), a store-like instruction with no destination.
MCOps == {O(x1, x1, "alu"), O(x1, x2, "move"), O(x1, NoReg, "alu")}
\* Loads, and a move between files.
MCOpsFiles == {O(x1, f0, "load"), O(f0, x1, "move"), O(x2, x2, "load"), O(x1, NoReg, "alu")}
=============================================================================
