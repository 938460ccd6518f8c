----------------------------- MODULE MCExecute -----------------------------
(* Programs for the issue queue: two pipes, the second also for vectors. *)
EXTENDS Execute

I(target, x, v) == [target |-> target, srcs |-> [int |-> x, vec |-> v], branch |-> FALSE, time |-> 1,
                    vlmax |-> 8, lmul |-> 1, vl |-> 8, uop |-> 0]
alu(x)     == I("int", x, {})
slow(x)    == [alu(x) EXCEPT !.time = 2]
br(x)      == [alu(x) EXCEPT !.branch = TRUE]
load(x)    == I("other", x, {})
vint(v)    == I("vint", {}, v)
vint1(v)   == [vint(v) EXCEPT !.vlmax = 2, !.vl = 2]   \* one pass
vtail(v)   == [vint(v) EXCEPT !.vlmax = 24, !.lmul = 2, !.vl = 14, !.uop = 1,
                              !.srcs["int"] = {0}]     \* the second uop of two
vmove(v)   == [vint(v) EXCEPT !.uop = 3]               \* behind VL, of a register move
vx(x, v)   == [vint1(v) EXCEPT !.srcs["int"] = x]

MCPipes == {"exe0", "exe1"}
MCMapping == [int |-> <<"exe0", "exe1">>, vint |-> <<"exe1">>]

\* Chains on a load and on slow instructions, flushed behind one or two branches;
\* vector uops before and behind the branch.  Register 0 is always ready.
MCPrograms == {<<br({}), load({}), alu({2}), slow({2, 3}), alu({3}), br({2}), alu({4})>>,
               <<load({}), br({1}), slow({}), br({3}), load({3}), slow({1, 3}), alu({5, 6})>>,
               <<slow({0}), alu({1}), slow({}), br({}), slow({2}), alu({3}), slow({5})>>,
               <<vint({}), vint1({1}), vtail({1}), vmove({}), br({0}), slow({}), alu({6})>>,
               <<slow({}), br({}), vx({1}, {0}), vmove({3}), alu({1}), vint1({})>>}
\* Vector uops behind the branch.
MCVectorFlush == {<<br({}), vint({}), vint1({})>>}
\* A vector uop that waits for a scalar and for a vector.
MCTwoFiles == {<<load({}), vint1({}), vx({1}, {2})>>}
=============================================================================
