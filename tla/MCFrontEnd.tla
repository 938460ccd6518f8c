---------------------------- MODULE MCFrontEnd ----------------------------
(* Traces for the front end: lines hold two blocks, blocks two instructions. *)
EXTENDS FrontEnd

A == [sew |-> 8, lmul |-> 1, vl |-> 4]   \* one uop (VLEN is 32)
B == [sew |-> 8, lmul |-> 2, vl |-> 8]   \* two uops
C == [sew |-> 8, lmul |-> 4, vl |-> 16]  \* four uops

I(kind, block) == [kind |-> kind, block |-> block, line |-> block \div 2, cof |-> FALSE,
                   taken |-> FALSE, cfg |-> A, x0 |-> "none"]
alu(b)    == I("alu", b)
br(b)     == I("branch", b)
taken(b)  == [I("branch", b) EXCEPT !.taken = TRUE, !.cof = TRUE]
vec(b)    == I("vector", b)
vset(b, c)    == [I("vset", b) EXCEPT !.cfg = c]
vsetreg(b, c) == [I("vset_reg", b) EXCEPT !.cfg = c]
vsetx0(b, c, x) == [vset(b, c) EXCEPT !.x0 = x]

\* A loop back to the first line, a branch inside a block, three lines.
MCScalar == {<<br(0), taken(1), alu(4), alu(0)>>,
             <<alu(0), br(2), alu(2), alu(4), alu(5)>>}
\* Three lines; two vsets with a branch between them, of which the second waits; a
\* vset behind a vector instruction that a flush reaches; something behind the last
\* vector instruction.
MCVector == {<<br(0), alu(2), alu(4)>>,
             <<vset(0, B), br(0), vsetreg(0, C), vec(1), alu(1)>>,
             <<br(0), vec(0), vsetx0(0, [B EXCEPT !.vl = 1], "source"), vec(0), alu(1)>>}
=============================================================================
