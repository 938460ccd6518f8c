------------------------- MODULE VectorUopGenerator -------------------------
(***************************************************************************)
(* The vector uop generator (core/vector/VectorUopGenerator.cpp) and the   *)
(* vector configuration (VectorConfig.hpp).  Decode gives it a vector      *)
(* instruction and takes one uop after another; how many there are depends *)
(* on the configuration, which registers each uses on the generator type.  *)
(***************************************************************************)
EXTENDS Integers, Sequences, FiniteSets

CONSTANTS VLEN,    \* bits of a vector register
          NoInst   \* no current instruction

ASSUME VectorAssumption == VLEN \in Nat \ {0}

\* VectorConfig: element width, register grouping and vector length.
VectorConfig == [sew : Nat \ {0}, lmul : Nat \ {0}, vl : Nat]

vlmax(cfg) == (VLEN \div cfg.sew) * cfg.lmul

WideTypes == {"WIDENING", "WIDENING_MIXED", "MAC_WIDE", "REDUCTION_WIDE"}

UopGenTypes == WideTypes \cup {"ELEMENTWISE", "SINGLE_DEST", "SINGLE_SRC", "NARROWING", "MAC",
                               "REDUCTION", "INT_EXT", "SLIDE1UP", "SLIDE1DOWN"}

N_VECTOR_UOPS == 8

-----------------------------------------------------------------------------
(* State: the current instruction and how far it is.                       *)

VARIABLE gen

IdleGen == [current_inst_ |-> NoInst, num_uops_to_generate_ |-> 0, num_uops_generated_ |-> 0]

\* One uop for every register that holds elements below VL.
ElementUops(cfg) == LET per == VLEN \div cfg.sew IN (cfg.vl + per - 1) \div per

\* Widening doubles them; a whole-register instruction (whole # 0) names them.
NumUops(type, whole, cfg) == IF type \in WideTypes THEN 2 * ElementUops(cfg)
                             ELSE IF whole # 0 THEN whole ELSE ElementUops(cfg)

\* setInst of an instruction with n uops.  sparta_assert: CanSetInst.
SetInst(i, n) == [current_inst_ |-> i, num_uops_to_generate_ |-> n, num_uops_generated_ |-> 0]

CanSetInst == gen.current_inst_ = NoInst

getNumUopsRemaining == gen.num_uops_to_generate_

\* generateUop from state g: the last uop resets the generator.  With VL = 0 the first
\* uop, which Decode asks for at once, is not the last one: none of the zero uops
\* remains, and only a flush frees the generator.
AfterUop(g) == IF g.num_uops_generated_ + 1 = g.num_uops_to_generate_ THEN IdleGen
               ELSE [g EXCEPT !.num_uops_generated_ = @ + 1]

\* Seeded fault: the generator is not flushed.
AfterGenFlush_Keep(flushed) == gen

\* handleFlush: flushed holds the instructions that the flush includes.
AfterGenFlush(flushed) == IF gen.current_inst_ \in flushed THEN IdleGen ELSE gen

-----------------------------------------------------------------------------
(* Operands of uop k (counted from 0) of n, for an instruction with vector *)
(* registers dst, rs1 and rs2 (rs1 = -1: not a vector register).           *)

\* Seeded fault: widening uops use a new source register each.
SrcOffset_NotShared(type, field, ext, k) == k

SrcOffset(type, field, ext, k) ==
    CASE type \in {"ELEMENTWISE", "MAC", "REDUCTION", "SLIDE1UP", "SLIDE1DOWN"} -> k
      [] type \in {"WIDENING", "MAC_WIDE"} -> k \div 2
      [] type \in {"WIDENING_MIXED", "REDUCTION_WIDE"} -> IF field = "rs2" THEN k ELSE k \div 2
      [] type = "NARROWING" -> IF field = "rs2" THEN 2 * k ELSE k
      [] type = "INT_EXT" -> k \div ext
      [] type \in {"SINGLE_DEST", "SINGLE_SRC"} -> 0

DestOffset(type, k) == IF type = "SINGLE_DEST" THEN 0 ELSE k

\* Registers that a uop reads besides rs1 and rs2.
ExtraSources(i, k, n) ==
    CASE i.type = "NARROWING" -> {i.rs2 + 2 * k + 1}
      [] i.type \in {"MAC", "MAC_WIDE"} -> {i.dst + k}
      [] i.type \in {"REDUCTION", "REDUCTION_WIDE"} /\ k # 0 -> {i.dst + k - 1}
      [] i.type = "SLIDE1UP" /\ k # 0 -> {i.rs2 + k - 1}
      [] i.type = "SLIDE1DOWN" /\ k + 1 # n -> {i.rs2 + k + 1}
      [] OTHER -> {}

\* The scalar source of a slide goes to one uop, of the others to all.
ReadsScalar(type, k, n) == CASE type = "SLIDE1UP" -> k = 0
                             [] type = "SLIDE1DOWN" -> k + 1 = n
                             [] OTHER -> TRUE

\* The tail flag: "Does this uop contain tail elements?"
hasTail(cfg, k) == (vlmax(cfg) \div cfg.sew) * (k + 1) > cfg.vl

Uop(i, k, n) ==
    [dst |-> i.dst + DestOffset(i.type, k),
     srcs |-> {i.rs2 + SrcOffset(i.type, "rs2", i.ext, k)}
              \cup (IF i.rs1 = -1 THEN {} ELSE {i.rs1 + SrcOffset(i.type, "rs1", i.ext, k)})
              \cup ExtraSources(i, k, n),
     scalar |-> ReadsScalar(i.type, k, n),
     tail |-> hasTail(i.cfg, k)]
=============================================================================
