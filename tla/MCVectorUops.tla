---------------------------- MODULE MCVectorUops ----------------------------
(* Registers of 32 bits: four or two elements; every grouping and length.   *)
EXTENDS VectorUops

Cfgs == {c \in [sew : {8, 16}, lmul : {1, 2, 4, 8}, vl : 0..32] : c.vl <= vlmax(c)}

InstsOf(types, cfgs) ==
    {i \in [type : types, whole : {0}, ext : {2, 4}, cfg : cfgs, dst : {0}, rs1 : {-1, 32}, rs2 : {64}] :
        /\ i.type \in WideTypes => i.cfg.lmul <= 4
        /\ i.type # "INT_EXT" => i.ext = 2
        /\ i.type \in {"INT_EXT", "SINGLE_SRC", "SLIDE1UP", "SLIDE1DOWN"} => i.rs1 = -1}

WholeMoves == [type : {"ELEMENTWISE"}, whole : {1, 2, 4, 8}, ext : {2}, cfg : Cfgs,
               dst : {0}, rs1 : {-1}, rs2 : {64}]

MCInsts == InstsOf(UopGenTypes, Cfgs) \cup WholeMoves
=============================================================================
