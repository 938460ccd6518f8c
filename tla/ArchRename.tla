----------------------------- MODULE ArchRename -----------------------------
(***************************************************************************)
(* What register renaming promises the rest of the machine, with no        *)
(* physical register in sight: a window of in-flight instructions, each    *)
(* of which reads the value of the latest older writer of its source, and  *)
(* a committed register state that only retirement changes.  Rename.tla    *)
(* implements it with a map table, reference counters and freelists.       *)
(***************************************************************************)
EXTENDS Integers, Sequences

CONSTANTS ARegs,   \* architectural registers of all register files, x0 excluded
          Ops,     \* the operands and kinds of instructions
          Uids,    \* unique ids of instructions
          NoReg    \* "no register": an absent operand, or x0

VARIABLES committed,   \* the value of each architectural register at retirement
          window       \* instructions renamed and not yet retired, oldest first

archVars == <<committed, window>>

\* The value written by an instruction is named by its uid; the initial value
\* of register a is named a.  A move writes the value it reads.
Written(uid, kind, sval) == IF kind = "move" /\ sval # NoReg THEN sval ELSE uid

Writers(a) == {k \in DOMAIN window : window[k].dst = a}

\* The value register a has for the next instruction in program order.
SpecValue(a) ==
    IF Writers(a) = {} THEN committed[a]
    ELSE window[CHOOSE k \in Writers(a) : \A j \in Writers(a) : j <= k].dval

Init == /\ committed = [a \in ARegs |-> a]
        /\ window = << >>

\* An instruction enters the window and binds its source to the value of the
\* latest older writer.
Enter(uid, src, dst, kind) ==
    LET sval == IF src = NoReg THEN NoReg ELSE SpecValue(src)
    IN  /\ window' = Append(window,
                        [uid |-> uid, src |-> src, dst |-> dst, sval |-> sval,
                         dval |-> IF dst = NoReg THEN NoReg
                                  ELSE Written(uid, kind, sval)])
        /\ UNCHANGED committed

\* The oldest instruction leaves the window and its result is committed.
Commit ==
    /\ window # << >>
    /\ committed' = IF Head(window).dst = NoReg THEN committed
                    ELSE [committed EXCEPT ![Head(window).dst] = Head(window).dval]
    /\ window' = Tail(window)

\* The youngest instruction is squashed: it leaves no trace.
Squash ==
    /\ window # << >>
    /\ window' = SubSeq(window, 1, Len(window) - 1)
    /\ UNCHANGED committed

Next == \/ \E uid \in Uids, op \in Ops : Enter(uid, op.src, op.dst, op.kind)
        \/ Commit
        \/ Squash

Spec == Init /\ [][Next]_archVars
=============================================================================
