----------------------------- MODULE VectorUops -----------------------------
(***************************************************************************)
(* The uop generator on its own: instructions of every type under every    *)
(* configuration, with a flush at any point.                               *)
(***************************************************************************)
EXTENDS VectorUopGenerator

CONSTANT Insts   \* records [type, whole, ext, cfg, dst, rs1, rs2]

VARIABLES inst,  \* the last instruction given to the generator
          uops   \* history: the uops made of it

vars == <<gen, inst, uops>>

Total(i) == NumUops(i.type, i.whole, i.cfg)

\* What Decode passes on: a configuration that a vset can make, and the operands of the
\* type.  INT_EXT extends by 2, 4 or 8; it, SINGLE_SRC and the slides have no vector
\* register as rs1; only ELEMENTWISE instructions move, load or store whole registers.
ASSUME InstAssumption ==
    \A i \in Insts : /\ i # NoInst
                     /\ i.cfg \in VectorConfig /\ i.type \in UopGenTypes
                     /\ i.cfg.sew <= VLEN /\ i.cfg.vl <= vlmax(i.cfg)
                     /\ i.type \in WideTypes => i.cfg.lmul <= 4
                     /\ Total(i) <= N_VECTOR_UOPS
                     /\ {i.dst, i.rs1, i.rs2} \subseteq Int
                     /\ i.type = "INT_EXT" => i.ext \in {2, 4, 8}
                     /\ i.type \in {"INT_EXT", "SINGLE_SRC", "SLIDE1UP", "SLIDE1DOWN"} => i.rs1 = -1
                     /\ i.whole \in Nat /\ (i.whole # 0 => i.type = "ELEMENTWISE")

\* Decode: setInst and, in the same step, the first uop.
Start(i) ==
    /\ CanSetInst
    /\ gen' = AfterUop(SetInst(i, Total(i)))
    /\ inst' = i
    /\ uops' = <<Uop(i, 0, Total(i))>>

generateUop ==
    /\ getNumUopsRemaining > 0
    /\ gen' = AfterUop(gen)
    /\ uops' = Append(uops, Uop(inst, gen.num_uops_generated_, gen.num_uops_to_generate_))
    /\ UNCHANGED inst

handleFlush ==
    /\ gen.current_inst_ # NoInst
    /\ gen' = AfterGenFlush({inst})
    /\ uops' = << >>
    /\ inst' = NoInst

Init == gen = IdleGen /\ inst = NoInst /\ uops = << >>

Next == (\E i \in Insts : Start(i)) \/ generateUop \/ handleFlush

Spec == Init /\ [][Next]_vars

-----------------------------------------------------------------------------
(* Properties.                                                             *)

Done == uops # << >> /\ getNumUopsRemaining = 0

Group(base, regs) == base .. base + regs - 1
Read == UNION {uops[k].srcs : k \in DOMAIN uops}
Written == {uops[k].dst : k \in DOMAIN uops}

\* The register groups of the vector extension.  n registers hold the elements below
\* VL if they are as wide as SEW; an operand that is twice as wide has 2 * n, one that
\* is narrower by ext as many fewer, a mask one.
SourceRegs(i, field) ==
    LET n == ElementUops(i.cfg)
    IN  CASE i.type \in {"NARROWING", "WIDENING_MIXED"} /\ field = "rs2" -> 2 * n
          [] i.type = "INT_EXT" -> (n + i.ext - 1) \div i.ext
          [] i.type = "SINGLE_SRC" -> 1
          [] i.whole # 0 -> i.whole
          [] OTHER -> n
DestRegs(i) == CASE i.type \in WideTypes -> 2 * ElementUops(i.cfg)
                 [] i.type = "SINGLE_DEST" -> 1
                 [] i.whole # 0 -> i.whole
                 [] OTHER -> ElementUops(i.cfg)
Reductions == {"REDUCTION", "REDUCTION_WIDE"}

\* The finished uops of an instruction write the registers of its destination group and
\* read no others than those of its source groups, and the accumulator.  They read all
\* of them, except that those of SINGLE_DEST stay on the first register of each ("only
\* increment all src register numbers" is not what generateUops_ does).
GroupsCovered ==
    Done /\ Total(inst) # 0 /\ inst.type \notin Reductions =>
      LET dest == Group(inst.dst, DestRegs(inst))
          srcs == Group(inst.rs2, SourceRegs(inst, "rs2"))
                  \cup (IF inst.rs1 = -1 THEN {} ELSE Group(inst.rs1, SourceRegs(inst, "rs1")))
                  \cup (IF inst.type \in {"MAC", "MAC_WIDE"} THEN dest ELSE {})
      IN  /\ Written = dest
          /\ Read \subseteq srcs
          /\ inst.type # "SINGLE_DEST" => srcs \subseteq Read

\* A reduction is a chain: uop k + 1 reads uop k's result.  The chain starts at the
\* destination and takes in the whole group rs2.
ReductionChained ==
    inst # NoInst /\ inst.type \in Reductions =>
        /\ \A k \in 1..Len(uops) - 1 : uops[k].dst \in uops[k + 1].srcs
        /\ uops[1].dst = inst.dst
        /\ Done => Group(inst.rs2, SourceRegs(inst, "rs2")) \subseteq Read

\* Every element below VL belongs to a uop and every uop has one; without elements
\* there is one uop.
ElementsCovered ==
    Done /\ inst.whole = 0 =>
        LET regs == IF inst.type \in WideTypes THEN Len(uops) \div 2 ELSE Len(uops)
            per  == VLEN \div inst.cfg.sew
        IN  IF inst.cfg.vl = 0 THEN Len(uops) = 1
            ELSE regs * per >= inst.cfg.vl /\ (regs - 1) * per < inst.cfg.vl

\* The uops of an instruction are right: they cover its register groups and its
\* elements, no more and no less, and reductions are chained.  The tables in the
\* constructor's comments are not the reference, as they disagree with the extension
\* and with the code: WIDENING and WIDENING_MIXED step a shared source by two
\* registers, SINGLE_SRC counts up its source and not its destination, slides keep
\* their destination, REDUCTION_WIDE shares rs2 and not rs1.
UopsExact == GroupsCovered /\ ReductionChained /\ ElementsCovered
=============================================================================
