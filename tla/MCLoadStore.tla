---------------------------- MODULE MCLoadStore ----------------------------
(***************************************************************************)
(* Instances of LoadStore: pairs of loads and stores of the same or of     *)
(* different pages, in the modes of the unit. Register 0 is always ready,  *)
(* register 1 is the first instruction's, register 9 another unit's.       *)
(***************************************************************************)
EXTENDS LoadStore

Ld(vaddr, size, src) == [store |-> FALSE, vaddr |-> vaddr, size |-> size, src |-> src,
                         data |-> 0, branch |-> FALSE]
St(vaddr, size, src, data) == [store |-> TRUE, vaddr |-> vaddr, size |-> size, src |-> src,
                               data |-> data, branch |-> FALSE]

\* A mispredicted branch precedes the instruction.
Branch(i) == [i EXCEPT !.branch = TRUE]

Setup(prog, spec, fwd) == [program |-> prog, speculative |-> spec, forwarding |-> fwd]

\* A store and a load of its bytes; the store waits for its data or for its address.
LateData    == << Branch(St(2, 2, 0, 9)), Ld(2, 1, 0) >>
LateAddress == << St(0, 2, 9, 0), Ld(0, 2, 0) >>

\* A load that waits for another load; two stores; a store behind a load that waits.
LoadChain == << Ld(0, 1, 0), Branch(Ld(2, 1, 1)) >>
TwoStores == << St(0, 1, 0, 0), St(2, 1, 0, 0) >>
LateLoad  == << Branch(Ld(0, 1, 9)), St(0, 1, 0, 0) >>

MCSetups == {Setup(LateData, FALSE, TRUE),
             Setup(LateAddress, TRUE, FALSE), Setup(LateAddress, FALSE, TRUE),
             Setup(LoadChain, TRUE, FALSE), Setup(LoadChain, FALSE, FALSE),
             Setup(TwoStores, TRUE, FALSE), Setup(TwoStores, FALSE, FALSE),
             Setup(LateLoad, TRUE, FALSE), Setup(LateLoad, TRUE, TRUE)}
=============================================================================
