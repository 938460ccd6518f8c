-------------------------- MODULE VectorUopsProofs --------------------------
(***************************************************************************)
(* The uop generator makes the right uops for every vector length,         *)
(* grouping, element width and register numbers, flushed at any point.     *)
(***************************************************************************)
EXTENDS VectorUops, SequenceFacts

\* The first m uops of i.
FirstUops(i, m) == [k \in 1..m |-> Uop(i, k - 1, Total(i))]

\* The state after m of the uops of i, which is the idle one after the last.
Progress(i, m) == IF m = Total(i) THEN IdleGen
                  ELSE [current_inst_ |-> i, num_uops_to_generate_ |-> Total(i),
                        num_uops_generated_ |-> m]

\* In the middle of an instruction, or at its end.
Underway ==
    /\ inst \in Insts
    /\ \E m \in 1..Total(inst) : uops = FirstUops(inst, m) /\ gen = Progress(inst, m)

\* One uop of an instruction without elements, which the generator keeps.
Stuck ==
    /\ inst \in Insts /\ Total(inst) = 0
    /\ uops = FirstUops(inst, 1) /\ gen = Progress(inst, 1)

\* Before the first instruction, or after a flush.
Nothing == gen = IdleGen /\ inst = NoInst /\ uops = << >>

IInv == Nothing \/ Underway \/ Stuck

-----------------------------------------------------------------------------
(* The number of uops.                                                     *)

\* Quotient and remainder.
LEMMA DivisionFacts ==
    ASSUME NEW a \in Nat, NEW b \in Nat, b > 0
    PROVE  a \div b \in Nat /\ b * (a \div b) <= a /\ a < b * (a \div b) + b
  OBVIOUS

\* The registers that hold vl elements, p in each: the last one is not empty.
LEMMA RoundedUp ==
    ASSUME NEW vl \in Nat, NEW p \in Nat, NEW e \in Nat, vl > 0, p > 0,
           p * e <= vl + p - 1, vl + p - 1 < p * e + p
    PROVE  e >= 1 /\ e * p >= vl /\ (e - 1) * p < vl
<1>1. e >= 1
  <2> SUFFICES ASSUME e = 0 PROVE FALSE
    OBVIOUS
  <2>1. p * e = 0
    OBVIOUS
  <2> QED
    BY <2>1
<1>2. e * p = p * e /\ (e - 1) * p = p * e - p
  OBVIOUS
<1>3. p * e \in Nat
  OBVIOUS
<1> QED
  BY <1>1, <1>2, <1>3

\* The operands of an instruction.
LEMMA OperandFacts ==
    ASSUME NEW i \in Insts
    PROVE  /\ i # NoInst /\ i.dst \in Int /\ i.rs1 \in Int /\ i.rs2 \in Int
           /\ i.type \in UopGenTypes /\ i.whole \in Nat
           /\ i.type = "INT_EXT" => i.ext \in {2, 4, 8}
           /\ i.type \in {"INT_EXT", "SINGLE_SRC", "SLIDE1UP", "SLIDE1DOWN"} => i.rs1 = -1
           /\ i.whole # 0 => i.type = "ELEMENTWISE"
  BY InstAssumption

\* An instruction has at most N_VECTOR_UOPS uops, and those of an instruction whose number
\* follows from VL have all its elements.
LEMMA TotalFacts ==
    ASSUME NEW i \in Insts
    PROVE  /\ Total(i) \in 0..8 /\ ElementUops(i.cfg) \in Nat
           /\ i.cfg.vl \in Nat
           /\ i.type \in WideTypes => Total(i) = 2 * ElementUops(i.cfg)
           /\ i.type \notin WideTypes => Total(i) = IF i.whole # 0 THEN i.whole ELSE ElementUops(i.cfg)
           /\ i.cfg.vl = 0 => ElementUops(i.cfg) = 0
           /\ i.cfg.vl > 0 => LET e == ElementUops(i.cfg)
                                  per == VLEN \div i.cfg.sew
                              IN  e >= 1 /\ e * per >= i.cfg.vl /\ (e - 1) * per < i.cfg.vl
<1> DEFINE p == VLEN \div i.cfg.sew
           vl == i.cfg.vl
           e == ElementUops(i.cfg)
<1>1. i.cfg.sew \in Nat /\ i.cfg.sew > 0 /\ i.cfg.sew <= VLEN /\ vl \in Nat
  BY InstAssumption DEF VectorConfig
<1>2. p \in Nat
  BY <1>1, DivisionFacts, VectorAssumption
<1>3. p > 0
  <2> DEFINE w == i.cfg.sew
  <2>1. w \in Nat /\ w > 0 /\ w <= VLEN /\ VLEN \in Nat /\ p = VLEN \div w
    BY <1>1, VectorAssumption
  <2> HIDE DEF w, p
  <2>2. VLEN < w * p + w
    BY <2>1, DivisionFacts
  <2> SUFFICES ASSUME p = 0 PROVE FALSE
    BY <1>2
  <2>3. w * p = 0
    BY <2>1
  <2> QED
    BY <2>1, <2>2, <2>3
<1>4. vl + p - 1 \in Nat
  <2> HIDE DEF p, vl
  <2> QED
    BY <1>1, <1>2, <1>3
<1>5. e = (vl + p - 1) \div p
  BY DEF ElementUops
<1>6. e \in Nat /\ p * e <= vl + p - 1 /\ vl + p - 1 < p * e + p
  <2> HIDE DEF p, vl, e
  <2> QED
    BY <1>2, <1>3, <1>4, <1>5, DivisionFacts
<1>7. vl > 0 => e >= 1 /\ e * p >= vl /\ (e - 1) * p < vl
  <2> HIDE DEF p, vl, e
  <2> QED
    BY <1>1, <1>2, <1>3, <1>6, RoundedUp
<1>8. vl = 0 => e = 0
  <2> HIDE DEF p, vl, e
  <2> SUFFICES ASSUME vl = 0, e # 0 PROVE FALSE
    OBVIOUS
  <2>1. p * e >= p
    BY <1>2, <1>6
  <2> QED
    BY <1>2, <1>3, <1>6, <2>1
<1>9. /\ i.type \in WideTypes => Total(i) = 2 * e
      /\ i.type \notin WideTypes => Total(i) = IF i.whole # 0 THEN i.whole ELSE e
  BY DEF Total, NumUops
<1>10. Total(i) \in 0..8
  <2>1. Total(i) <= 8
    BY InstAssumption DEF N_VECTOR_UOPS
  <2>2. i.whole \in Nat
    BY OperandFacts
  <2> HIDE DEF e
  <2> QED
    BY <1>6, <1>9, <2>1, <2>2
<1> QED
  BY <1>1, <1>6, <1>7, <1>8, <1>9, <1>10

-----------------------------------------------------------------------------
(* The uops made so far.                                                   *)

\* The first uops are a sequence, and the next one is appended to them.
LEMMA FirstUopsFacts ==
    ASSUME NEW i, NEW m \in Nat
    PROVE  /\ Len(FirstUops(i, m)) = m /\ DOMAIN FirstUops(i, m) = 1..m
           /\ \A k \in 1..m : FirstUops(i, m)[k] = Uop(i, k - 1, Total(i))
           /\ m > 0 => FirstUops(i, m) # << >>
           /\ Append(FirstUops(i, m), Uop(i, m, Total(i))) = FirstUops(i, m + 1)
<1> DEFINE U == {Uop(i, k, Total(i)) : k \in Int}
           f == FirstUops(i, m)
           g == FirstUops(i, m + 1)
           u == Uop(i, m, Total(i))
           a == Append(f, u)
<1>1. f \in [1..m -> U]
  BY DEF FirstUops
<1>2. f \in Seq(U) /\ Len(f) = m /\ DOMAIN f = 1..m
  BY <1>1, FunIsSeq
<1>3. \A k \in 1..m : f[k] = Uop(i, k - 1, Total(i))
  BY DEF FirstUops
<1>4. m > 0 => f # << >>
  BY <1>2, SeqFacts
<1>5. u \in U
  OBVIOUS
<1>6. /\ a \in Seq(U) /\ Len(a) = m + 1 /\ DOMAIN a = 1..(m + 1)
      /\ \A k \in 1..m : a[k] = f[k]
      /\ a[m + 1] = u
  <2> HIDE DEF f, U, u
  <2> QED
    BY <1>2, <1>5, AppendFacts
<1>7. a = [k \in 1..(m + 1) |-> a[k]]
  <2> HIDE DEF a, f, U, u
  <2>1. a \in [1..Len(a) -> U]
    BY <1>6, LenProperties
  <2> QED
    BY <2>1, <1>6
<1>8. \A k \in 1..(m + 1) : a[k] = Uop(i, k - 1, Total(i))
  <2> TAKE k \in 1..(m + 1)
  <2>1. CASE k \in 1..m
    BY <2>1, <1>3, <1>6
  <2>2. CASE k = m + 1
    <3>1. k - 1 = m
      BY <2>2
    <3>2. a[k] = u
      <4> HIDE DEF a, u
      <4> QED
        BY <2>2, <1>6
    <3> QED
      BY <3>1, <3>2
  <2>3. k \in 1..m \/ k = m + 1
    OBVIOUS
  <2> QED
    BY <2>1, <2>2, <2>3, Zenon
<1>9. a = g
  <2> HIDE DEF a
  <2> QED
    BY <1>7, <1>8 DEF FirstUops
<1> QED
  BY <1>2, <1>3, <1>4, <1>9

\* One uop further.
LEMMA ProgressStep ==
    ASSUME NEW i, NEW m \in Nat, NEW g, Total(i) \in Nat,
           g = [current_inst_ |-> i, num_uops_to_generate_ |-> Total(i), num_uops_generated_ |-> m]
    PROVE  AfterUop(g) = Progress(i, m + 1)
<1>1. /\ g.num_uops_generated_ = m /\ g.num_uops_to_generate_ = Total(i)
      /\ [g EXCEPT !.num_uops_generated_ = @ + 1]
            = [current_inst_ |-> i, num_uops_to_generate_ |-> Total(i), num_uops_generated_ |-> m + 1]
  OBVIOUS
<1> QED
  BY <1>1 DEF AfterUop, Progress

-----------------------------------------------------------------------------
(* Every step keeps the invariant.                                         *)

\* A new instruction and its first uop.
LEMMA StartKeeps ==
    ASSUME NEW i \in Insts, Start(i)
    PROVE  IInv'
<1>1. Total(i) \in 0..8
  BY TotalFacts
<1>2. gen' = Progress(i, 0 + 1)
  <2> DEFINE g == SetInst(i, Total(i))
  <2>1. g = [current_inst_ |-> i, num_uops_to_generate_ |-> Total(i), num_uops_generated_ |-> 0]
    BY DEF SetInst
  <2>2. AfterUop(g) = Progress(i, 0 + 1)
    <3> HIDE DEF g
    <3>1. 0 \in Nat /\ Total(i) \in Nat
      BY <1>1
    <3> QED
      BY <2>1, <3>1, ProgressStep, Zenon
  <2> QED
    BY <2>2 DEF Start
<1>3. uops' = FirstUops(i, 1)
  <2>1. FirstUops(i, 0) = << >>
    BY DEF FirstUops
  <2>2. Append(FirstUops(i, 0), Uop(i, 0, Total(i))) = FirstUops(i, 0 + 1)
    BY FirstUopsFacts
  <2>3. uops' = <<Uop(i, 0, Total(i))>>
    BY DEF Start
  <2> QED
    BY <2>1, <2>2, <2>3
<1>4. 0 + 1 = 1 /\ (1 \in 1..Total(i) \/ Total(i) = 0)
  BY <1>1
<1>5. inst' = i
  BY DEF Start
<1> QED
  BY <1>2, <1>3, <1>4, <1>5 DEF IInv, Underway, Stuck

\* The next uop of the current instruction.
LEMMA UopKeeps ==
    ASSUME IInv, generateUop
    PROVE  Underway'
<1>1. gen.num_uops_to_generate_ > 0
  BY DEF generateUop, getNumUopsRemaining
<1>2. gen # IdleGen
  BY <1>1 DEF IdleGen
<1>3. Underway
  BY <1>1, <1>2 DEF IInv, Nothing, Stuck, Progress
<1>4. PICK m \in 1..Total(inst) : /\ uops = FirstUops(inst, m) /\ m # Total(inst)
                                  /\ gen = [current_inst_ |-> inst, num_uops_to_generate_ |-> Total(inst),
                                            num_uops_generated_ |-> m]
  BY <1>2, <1>3 DEF Underway, Progress
<1>5. inst \in Insts /\ Total(inst) \in 0..8
  BY <1>3, TotalFacts DEF Underway
<1>6. m \in Nat /\ Total(inst) \in Nat /\ m + 1 \in 1..Total(inst)
  BY <1>4, <1>5
<1>7. gen' = Progress(inst, m + 1)
  <2>1. AfterUop(gen) = Progress(inst, m + 1)
    BY <1>4, <1>6, ProgressStep
  <2> QED
    BY <2>1 DEF generateUop
<1>8. uops' = FirstUops(inst, m + 1)
  <2>1. gen.num_uops_generated_ = m /\ gen.num_uops_to_generate_ = Total(inst)
    BY <1>4
  <2>2. Append(FirstUops(inst, m), Uop(inst, m, Total(inst))) = FirstUops(inst, m + 1)
    BY <1>6, FirstUopsFacts
  <2> QED
    BY <1>4, <2>1, <2>2 DEF generateUop
<1>9. inst' = inst
  BY DEF generateUop
<1> QED
  BY <1>5, <1>6, <1>7, <1>8, <1>9 DEF Underway

\* A flush of the current instruction.
LEMMA FlushKeeps ==
    ASSUME IInv, handleFlush
    PROVE  Nothing'
<1>1. gen.current_inst_ # NoInst
  BY DEF handleFlush
<1>2. gen # IdleGen
  BY <1>1 DEF IdleGen
<1>3. gen.current_inst_ = inst
  BY <1>2 DEF IInv, Nothing, Underway, Stuck, Progress
<1>4. AfterGenFlush({inst}) = IdleGen
  BY <1>3 DEF AfterGenFlush
<1> QED
  BY <1>4 DEF handleFlush, Nothing, IdleGen

\* The generator is where its history says.
THEOREM UopsInvariant == Spec => []IInv
<1>1. Init => IInv
  BY DEF Init, IInv, Nothing
<1>2. IInv /\ [Next]_vars => IInv'
  <2> SUFFICES ASSUME IInv, [Next]_vars PROVE IInv'
    OBVIOUS
  <2>1. ASSUME NEW i \in Insts, Start(i) PROVE IInv'
    BY <2>1, StartKeeps
  <2>2. CASE generateUop
    BY <2>2, UopKeeps DEF IInv
  <2>3. CASE handleFlush
    BY <2>3, FlushKeeps DEF IInv
  <2>4. CASE UNCHANGED vars
    BY <2>4 DEF vars, IInv, Nothing, Underway, Stuck
  <2> QED
    BY <2>1, <2>2, <2>3, <2>4 DEF Next
<1> QED
  BY <1>1, <1>2, PTL DEF Spec

-----------------------------------------------------------------------------
(* Which registers n uops name, by how the table numbers them.             *)

\* One register for each uop.
LEMMA OneEach ==
    ASSUME NEW b \in Int, NEW n \in Nat
    PROVE  {b + j : j \in 0..n - 1} = Group(b, n)
<1>1. \A r \in Group(b, n) : r - b \in 0..n - 1 /\ b + (r - b) = r
  BY DEF Group
<1>2. \A j \in 0..n - 1 : b + j \in Group(b, n)
  BY DEF Group
<1> QED
  BY <1>1, <1>2

\* One register for x uops, the last one perhaps for fewer.
LEMMA OneForSome ==
    ASSUME NEW b \in Int, NEW n \in Nat, NEW x \in {2, 4, 8}
    PROVE  {b + (j \div x) : j \in 0..n - 1} = Group(b, (n + x - 1) \div x)
<1>1. ASSUME NEW r \in Group(b, (n + x - 1) \div x)
      PROVE  x * (r - b) \in 0..n - 1 /\ b + ((x * (r - b)) \div x) = r
  <2>1. CASE x = 2
    BY <1>1, <2>1 DEF Group
  <2>2. CASE x = 4
    BY <1>1, <2>2 DEF Group
  <2>3. CASE x = 8
    BY <1>1, <2>3 DEF Group
  <2> QED
    BY <2>1, <2>2, <2>3
<1>2. ASSUME NEW j \in 0..n - 1 PROVE b + (j \div x) \in Group(b, (n + x - 1) \div x)
  <2>1. CASE x = 2
    BY <1>2, <2>1 DEF Group
  <2>2. CASE x = 4
    BY <1>2, <2>2 DEF Group
  <2>3. CASE x = 8
    BY <1>2, <2>3 DEF Group
  <2> QED
    BY <2>1, <2>2, <2>3
<1> QED
  BY <1>1, <1>2

\* Two registers for each uop.
LEMMA TwoEach ==
    ASSUME NEW b \in Int, NEW n \in Nat
    PROVE  {b + 2 * j : j \in 0..n - 1} \cup {b + 2 * j + 1 : j \in 0..n - 1} = Group(b, 2 * n)
<1>1. ASSUME NEW r \in Group(b, 2 * n)
      PROVE  \E j \in 0..n - 1 : r = b + 2 * j \/ r = b + 2 * j + 1
  <2>1. (r - b) \div 2 \in 0..n - 1
    BY DEF Group
  <2>2. r = b + 2 * ((r - b) \div 2) \/ r = b + 2 * ((r - b) \div 2) + 1
    BY DEF Group
  <2> QED
    BY <2>1, <2>2
<1>2. \A j \in 0..n - 1 : b + 2 * j \in Group(b, 2 * n) /\ b + 2 * j + 1 \in Group(b, 2 * n)
  BY DEF Group
<1> QED
  BY <1>1, <1>2

-----------------------------------------------------------------------------
(* The registers of all uops.                                              *)

\* What n uops read as rs2, as rs1 and besides.
Rs2Regs(i, n) == {i.rs2 + SrcOffset(i.type, "rs2", i.ext, j) : j \in 0..n - 1}
Rs1Regs(i, n) == {i.rs1 + SrcOffset(i.type, "rs1", i.ext, j) : j \in 0..n - 1}
MoreRegs(i, n) == UNION {ExtraSources(i, j, n) : j \in 0..n - 1}

\* What all uops of an instruction read and write.
LEMMA RegsOfAll ==
    ASSUME NEW i \in Insts, Total(i) # 0, uops = FirstUops(i, Total(i))
    PROVE  /\ i.type # "SINGLE_DEST" => Written = Group(i.dst, Total(i))
           /\ i.type = "SINGLE_DEST" => Written = Group(i.dst, 1)
           /\ Read = Rs2Regs(i, Total(i)) \cup (IF i.rs1 = -1 THEN {} ELSE Rs1Regs(i, Total(i)))
                     \cup MoreRegs(i, Total(i))
<1> DEFINE n == Total(i)
<1>1. n \in 1..8
  <2>1. n \in 0..8
    BY TotalFacts
  <2> QED
    BY <2>1
<1>2. DOMAIN uops = 1..n /\ \A k \in 1..n : uops[k] = Uop(i, k - 1, n)
  <2>1. n \in Nat
    BY <1>1
  <2> QED
    BY <2>1, FirstUopsFacts
<1> HIDE DEF n
<1>3. \A k \in 1..n : k - 1 \in 0..n - 1
  BY <1>1
<1>4. \A j \in 0..n - 1 : j + 1 \in 1..n /\ (j + 1) - 1 = j
  BY <1>1
<1>5. \A j \in 0..n - 1 : uops[j + 1] = Uop(i, j, n)
  BY <1>2, <1>4
<1>6. Written = {Uop(i, j, n).dst : j \in 0..n - 1}
  BY <1>2, <1>3, <1>4, <1>5 DEF Written
<1>7. Read = UNION {Uop(i, j, n).srcs : j \in 0..n - 1}
  BY <1>2, <1>3, <1>4, <1>5 DEF Read
<1>8. ASSUME i.type # "SINGLE_DEST" PROVE Written = Group(i.dst, n)
  <2>1. \A j \in 0..n - 1 : Uop(i, j, n).dst = i.dst + j
    BY <1>8 DEF Uop, DestOffset
  <2>2. {Uop(i, j, n).dst : j \in 0..n - 1} = {i.dst + j : j \in 0..n - 1}
    BY <2>1
  <2>3. {i.dst + j : j \in 0..n - 1} = Group(i.dst, n)
    <3>1. i.dst \in Int /\ n \in Nat
      BY <1>1, OperandFacts
    <3> QED
      BY <3>1, OneEach
  <2> QED
    BY <1>6, <2>2, <2>3
<1>10. ASSUME i.type = "SINGLE_DEST" PROVE Written = Group(i.dst, 1)
  <2>0. i.dst \in Int
    BY OperandFacts
  <2>1. \A j \in 0..n - 1 : Uop(i, j, n).dst = i.dst
    BY <1>10, <2>0 DEF Uop, DestOffset
  <2>2. 0 \in 0..n - 1
    BY <1>1
  <2>3. Written = {i.dst}
    BY <1>6, <2>1, <2>2
  <2> QED
    BY <2>0, <2>3 DEF Group
<1>9. Read = Rs2Regs(i, n) \cup (IF i.rs1 = -1 THEN {} ELSE Rs1Regs(i, n)) \cup MoreRegs(i, n)
  <2>1. \A j : Uop(i, j, n).srcs
                  = {i.rs2 + SrcOffset(i.type, "rs2", i.ext, j)}
                    \cup (IF i.rs1 = -1 THEN {} ELSE {i.rs1 + SrcOffset(i.type, "rs1", i.ext, j)})
                    \cup ExtraSources(i, j, n)
    BY DEF Uop
  <2>2. CASE i.rs1 = -1
    BY <1>7, <2>1, <2>2 DEF Rs2Regs, MoreRegs
  <2>3. CASE i.rs1 # -1
    BY <1>7, <2>1, <2>3 DEF Rs2Regs, Rs1Regs, MoreRegs
  <2> QED
    BY <2>2, <2>3
<1> QED
  BY <1>8, <1>9, <1>10 DEF n

\* The accumulator and the other registers that uops read besides their sources.
LEMMA MoreRegsAre ==
    ASSUME NEW i \in Insts, i.type \notin Reductions, NEW n \in Nat \ {0}
    PROVE  /\ i.type \in {"MAC", "MAC_WIDE"} => MoreRegs(i, n) = Group(i.dst, n)
           /\ i.type \in {"SLIDE1UP", "SLIDE1DOWN"} => MoreRegs(i, n) \subseteq Group(i.rs2, n)
           /\ i.type = "NARROWING" => MoreRegs(i, n) = {i.rs2 + 2 * j + 1 : j \in 0..n - 1}
           /\ i.type \in {"ELEMENTWISE", "WIDENING", "WIDENING_MIXED", "INT_EXT", "SINGLE_SRC",
                          "SINGLE_DEST"} => MoreRegs(i, n) = {}
<1>0. i.dst \in Int /\ i.rs2 \in Int
  BY OperandFacts
<1>1. CASE i.type \in {"MAC", "MAC_WIDE"}
  <2>1. \A j \in 0..n - 1 : ExtraSources(i, j, n) = {i.dst + j}
    BY <1>1 DEF ExtraSources
  <2>2. MoreRegs(i, n) = {i.dst + j : j \in 0..n - 1}
    BY <2>1 DEF MoreRegs
  <2>3. {i.dst + j : j \in 0..n - 1} = Group(i.dst, n)
    BY <1>0, OneEach
  <2> QED
    BY <1>1, <2>2, <2>3
<1>3. CASE i.type = "SLIDE1UP"
  <2>1. \A j \in 0..n - 1 : ExtraSources(i, j, n) = IF j = 0 THEN {} ELSE {i.rs2 + j - 1}
    BY <1>3 DEF ExtraSources
  <2>2. \A r \in MoreRegs(i, n) : r \in Group(i.rs2, n)
    BY <1>0, <2>1 DEF MoreRegs, Group
  <2> QED
    BY <1>3, <2>2
<1>4. CASE i.type = "SLIDE1DOWN"
  <2>1. \A j \in 0..n - 1 : ExtraSources(i, j, n) = IF j + 1 = n THEN {} ELSE {i.rs2 + j + 1}
    BY <1>4 DEF ExtraSources
  <2>2. \A r \in MoreRegs(i, n) : r \in Group(i.rs2, n)
    BY <1>0, <2>1 DEF MoreRegs, Group
  <2> QED
    BY <1>4, <2>2
<1>5. CASE i.type = "NARROWING"
  <2>1. \A j \in 0..n - 1 : ExtraSources(i, j, n) = {i.rs2 + 2 * j + 1}
    BY <1>5 DEF ExtraSources
  <2> QED
    BY <1>5, <2>1 DEF MoreRegs
<1>6. CASE i.type \in {"ELEMENTWISE", "WIDENING", "WIDENING_MIXED", "INT_EXT", "SINGLE_SRC",
                      "SINGLE_DEST"}
  <2>1. \A j \in 0..n - 1 : ExtraSources(i, j, n) = {}
    BY <1>6 DEF ExtraSources
  <2> QED
    BY <1>6, <2>1 DEF MoreRegs
<1>7. \/ i.type \in {"MAC", "MAC_WIDE"}
      \/ i.type = "SLIDE1UP" \/ i.type = "SLIDE1DOWN" \/ i.type = "NARROWING"
      \/ i.type \in {"ELEMENTWISE", "WIDENING", "WIDENING_MIXED", "INT_EXT", "SINGLE_SRC",
                     "SINGLE_DEST"}
  BY OperandFacts DEF Reductions, UopGenTypes, WideTypes
<1> QED
  BY <1>1, <1>3, <1>4, <1>5, <1>6, <1>7

\* The registers of a numbered source: its offset for each uop decides how many.
LEMMA SourcesAre ==
    ASSUME NEW i \in Insts, Total(i) # 0
    PROVE  /\ i.type \notin {"NARROWING", "SINGLE_DEST", "REDUCTION_WIDE"}
                => Rs2Regs(i, Total(i)) = Group(i.rs2, SourceRegs(i, "rs2"))
           /\ i.type = "NARROWING"
                => /\ Rs2Regs(i, Total(i)) = {i.rs2 + 2 * j : j \in 0..Total(i) - 1}
                   /\ SourceRegs(i, "rs2") = 2 * Total(i)
           /\ i.rs1 # -1 /\ i.type # "SINGLE_DEST"
                => Rs1Regs(i, Total(i)) = Group(i.rs1, SourceRegs(i, "rs1"))
           /\ i.type = "SINGLE_DEST"
                => /\ Rs2Regs(i, Total(i)) \subseteq Group(i.rs2, SourceRegs(i, "rs2"))
                   /\ Rs1Regs(i, Total(i)) \subseteq Group(i.rs1, SourceRegs(i, "rs1"))
           /\ i.type = "REDUCTION_WIDE"
                => Group(i.rs2, SourceRegs(i, "rs2")) \subseteq Rs2Regs(i, Total(i))
           /\ i.type \in {"SLIDE1UP", "SLIDE1DOWN"} => SourceRegs(i, "rs2") = Total(i)
<1> DEFINE n == Total(i)
           e == ElementUops(i.cfg)
<1>1. /\ n \in Nat \ {0} /\ e \in Nat
      /\ i.type \in WideTypes => n = 2 * e
      /\ i.type \notin WideTypes => n = IF i.whole # 0 THEN i.whole ELSE e
  BY TotalFacts
<1>2. i.rs1 \in Int /\ i.rs2 \in Int
  BY OperandFacts
<1>3. i.whole # 0 => i.type = "ELEMENTWISE"
  BY OperandFacts
<1>4. SourceRegs(i, "rs2")
         = CASE i.type \in {"NARROWING", "WIDENING_MIXED"} -> 2 * e
             [] i.type = "INT_EXT" -> (e + i.ext - 1) \div i.ext
             [] i.type = "SINGLE_SRC" -> 1
             [] i.whole # 0 -> i.whole
             [] OTHER -> e
  BY <1>3 DEF SourceRegs
<1>5. SourceRegs(i, "rs1")
         = CASE i.type = "INT_EXT" -> (e + i.ext - 1) \div i.ext
             [] i.type = "SINGLE_SRC" -> 1
             [] i.whole # 0 -> i.whole
             [] OTHER -> e
  BY <1>3 DEF SourceRegs
<1> HIDE DEF n, e
<1>6. \A b \in Int : {b + j : j \in 0..n - 1} = Group(b, n)
  BY <1>1, OneEach
<1>7. CASE i.type \in {"ELEMENTWISE", "MAC", "REDUCTION", "SLIDE1UP", "SLIDE1DOWN"}
  <2>1. SourceRegs(i, "rs2") = n /\ SourceRegs(i, "rs1") = n
    BY <1>1, <1>4, <1>5, <1>7 DEF WideTypes
  <2>2. \A j \in 0..n - 1, f \in {"rs1", "rs2"} : SrcOffset(i.type, f, i.ext, j) = j
    BY <1>7 DEF SrcOffset
  <2>3. /\ Rs2Regs(i, n) = {i.rs2 + j : j \in 0..n - 1}
        /\ Rs1Regs(i, n) = {i.rs1 + j : j \in 0..n - 1}
    BY <2>2 DEF Rs2Regs, Rs1Regs
  <2> QED
    BY <1>2, <1>6, <1>7, <2>1, <2>3 DEF n
<1>8. ASSUME i.type \in WideTypes PROVE \A b \in Int : {b + (j \div 2) : j \in 0..n - 1} = Group(b, e)
  <2>1. (n + 2 - 1) \div 2 = e
    BY <1>1, <1>8
  <2> QED
    BY <1>1, <2>1, OneForSome
<1>9. CASE i.type \in {"WIDENING", "MAC_WIDE"}
  <2>0. i.type \in WideTypes
    BY <1>9 DEF WideTypes
  <2>1. SourceRegs(i, "rs2") = e /\ SourceRegs(i, "rs1") = e
    BY <1>3, <1>4, <1>5, <1>9
  <2>2. \A j \in 0..n - 1, f \in {"rs1", "rs2"} : SrcOffset(i.type, f, i.ext, j) = j \div 2
    BY <1>9 DEF SrcOffset
  <2>3. /\ Rs2Regs(i, n) = {i.rs2 + (j \div 2) : j \in 0..n - 1}
        /\ Rs1Regs(i, n) = {i.rs1 + (j \div 2) : j \in 0..n - 1}
    BY <2>2 DEF Rs2Regs, Rs1Regs
  <2>4. Rs2Regs(i, n) = Group(i.rs2, e) /\ Rs1Regs(i, n) = Group(i.rs1, e)
    BY <1>2, <1>8, <2>0, <2>3
  <2> QED
    BY <1>9, <2>1, <2>4 DEF n
<1>10. CASE i.type \in {"WIDENING_MIXED", "REDUCTION_WIDE"}
  <2>0. i.type \in WideTypes
    BY <1>10 DEF WideTypes
  <2>1. /\ SourceRegs(i, "rs2") = IF i.type = "WIDENING_MIXED" THEN n ELSE e
        /\ SourceRegs(i, "rs1") = e
    BY <1>1, <1>3, <1>4, <1>5, <1>10, <2>0
  <2>2. \A j \in 0..n - 1 : /\ SrcOffset(i.type, "rs2", i.ext, j) = j
                            /\ SrcOffset(i.type, "rs1", i.ext, j) = j \div 2
    BY <1>10 DEF SrcOffset
  <2>3. /\ Rs2Regs(i, n) = {i.rs2 + j : j \in 0..n - 1}
        /\ Rs1Regs(i, n) = {i.rs1 + (j \div 2) : j \in 0..n - 1}
    BY <2>2 DEF Rs2Regs, Rs1Regs
  <2>4. Rs2Regs(i, n) = Group(i.rs2, n) /\ Rs1Regs(i, n) = Group(i.rs1, e)
    BY <1>2, <1>6, <1>8, <2>0, <2>3
  <2>5. Group(i.rs2, e) \subseteq Group(i.rs2, n)
    BY <1>1, <1>2, <2>0 DEF Group
  <2> QED
    BY <1>10, <2>1, <2>4, <2>5 DEF n
<1>11. CASE i.type = "NARROWING"
  <2>1. SourceRegs(i, "rs2") = 2 * n /\ SourceRegs(i, "rs1") = n
    BY <1>1, <1>3, <1>4, <1>5, <1>11 DEF WideTypes
  <2>2. \A j \in 0..n - 1 : /\ SrcOffset(i.type, "rs2", i.ext, j) = 2 * j
                            /\ SrcOffset(i.type, "rs1", i.ext, j) = j
    BY <1>11 DEF SrcOffset
  <2>3. /\ Rs2Regs(i, n) = {i.rs2 + 2 * j : j \in 0..n - 1}
        /\ Rs1Regs(i, n) = {i.rs1 + j : j \in 0..n - 1}
    BY <2>2 DEF Rs2Regs, Rs1Regs
  <2>4. Rs1Regs(i, n) = Group(i.rs1, n)
    BY <1>2, <1>6, <2>3
  <2> QED
    BY <1>11, <2>1, <2>3, <2>4 DEF n
<1>12. CASE i.type = "INT_EXT"
  <2>0. i.ext \in {2, 4, 8} /\ i.rs1 = -1
    BY <1>12, OperandFacts
  <2>1. SourceRegs(i, "rs2") = (n + i.ext - 1) \div i.ext
    BY <1>1, <1>3, <1>4, <1>12 DEF WideTypes
  <2>2. \A j \in 0..n - 1 : SrcOffset(i.type, "rs2", i.ext, j) = j \div i.ext
    BY <1>12 DEF SrcOffset
  <2>3. Rs2Regs(i, n) = {i.rs2 + (j \div i.ext) : j \in 0..n - 1}
    BY <2>2 DEF Rs2Regs
  <2>4. Rs2Regs(i, n) = Group(i.rs2, (n + i.ext - 1) \div i.ext)
    BY <1>1, <1>2, <2>0, <2>3, OneForSome, ZenonT(30)
  <2> QED
    BY <1>12, <2>0, <2>1, <2>4 DEF n
<1>13. CASE i.type = "SINGLE_SRC"
  <2>0. i.rs1 = -1
    BY <1>13, OperandFacts
  <2>1. SourceRegs(i, "rs2") = 1
    BY <1>3, <1>4, <1>13
  <2>2. \A j \in 0..n - 1 : SrcOffset(i.type, "rs2", i.ext, j) = 0
    BY <1>13 DEF SrcOffset
  <2>3. 0 \in 0..n - 1
    BY <1>1
  <2>4. Rs2Regs(i, n) = {i.rs2}
    BY <1>2, <2>2, <2>3 DEF Rs2Regs
  <2>5. Group(i.rs2, 1) = {i.rs2}
    BY <1>2 DEF Group
  <2> QED
    BY <1>13, <2>0, <2>1, <2>4, <2>5 DEF n
<1>15. CASE i.type = "SINGLE_DEST"
  <2>1. SourceRegs(i, "rs2") = n /\ SourceRegs(i, "rs1") = n
    BY <1>1, <1>3, <1>4, <1>5, <1>15 DEF WideTypes
  <2>2. \A j \in 0..n - 1, f \in {"rs1", "rs2"} : SrcOffset(i.type, f, i.ext, j) = 0
    BY <1>15 DEF SrcOffset
  <2>3. Rs2Regs(i, n) \subseteq {i.rs2} /\ Rs1Regs(i, n) \subseteq {i.rs1}
    BY <1>2, <2>2 DEF Rs2Regs, Rs1Regs
  <2>4. i.rs2 \in Group(i.rs2, n) /\ i.rs1 \in Group(i.rs1, n)
    BY <1>1, <1>2 DEF Group
  <2> QED
    BY <1>15, <2>1, <2>3, <2>4 DEF n
<1>14. \/ i.type \in {"ELEMENTWISE", "MAC", "REDUCTION", "SLIDE1UP", "SLIDE1DOWN"}
       \/ i.type \in {"WIDENING", "MAC_WIDE"} \/ i.type \in {"WIDENING_MIXED", "REDUCTION_WIDE"}
       \/ i.type = "NARROWING" \/ i.type = "INT_EXT" \/ i.type = "SINGLE_SRC"
       \/ i.type = "SINGLE_DEST"
  BY OperandFacts DEF UopGenTypes, WideTypes
<1> QED
  BY <1>7, <1>9, <1>10, <1>11, <1>12, <1>13, <1>14, <1>15

-----------------------------------------------------------------------------
(* The property.                                                           *)

\* A finished instruction has all its uops, or is one without elements.
LEMMA DoneHasAll ==
    ASSUME IInv, Done
    PROVE  /\ inst \in Insts
           /\ Total(inst) # 0 => uops = FirstUops(inst, Total(inst)) /\ Len(uops) = Total(inst)
           /\ Total(inst) = 0 => Len(uops) = 1
<1>1. Underway \/ Stuck
  BY DEF IInv, Nothing, Done
<1>2. gen.num_uops_to_generate_ = 0
  BY DEF Done, getNumUopsRemaining
<1>3. CASE Underway
  <2>1. PICK m \in 1..Total(inst) : uops = FirstUops(inst, m) /\ gen = Progress(inst, m)
    BY <1>3 DEF Underway
  <2>2. inst \in Insts /\ Total(inst) \in 0..8
    BY <1>3, TotalFacts DEF Underway
  <2>3. m = Total(inst) /\ Total(inst) \in Nat /\ Total(inst) # 0
    BY <1>2, <2>1, <2>2 DEF Progress
  <2> QED
    BY <2>1, <2>2, <2>3, FirstUopsFacts
<1>4. CASE Stuck
  <2>1. Len(FirstUops(inst, 1)) = 1
    BY FirstUopsFacts
  <2> QED
    BY <1>4, <2>1 DEF Stuck
<1> QED
  BY <1>1, <1>3, <1>4

\* All uops of an instruction cover its register groups.
LEMMA GroupsAreCovered == IInv => GroupsCovered
<1> SUFFICES ASSUME IInv, Done, Total(inst) # 0, inst.type \notin Reductions PROVE GroupsCovered
  BY DEF GroupsCovered
<1> DEFINE n == Total(inst)
           dest == Group(inst.dst, DestRegs(inst))
           acc == IF inst.type \in {"MAC", "MAC_WIDE"} THEN dest ELSE {}
           r2 == Group(inst.rs2, SourceRegs(inst, "rs2"))
           r1 == IF inst.rs1 = -1 THEN {} ELSE Group(inst.rs1, SourceRegs(inst, "rs1"))
           x1 == IF inst.rs1 = -1 THEN {} ELSE Rs1Regs(inst, n)
<1>1. inst \in Insts /\ uops = FirstUops(inst, n)
  BY DoneHasAll
<1>2. n \in Nat \ {0} /\ inst.rs2 \in Int
  BY <1>1, TotalFacts, OperandFacts
<1>3. inst.type # "SINGLE_DEST" => DestRegs(inst) = n
  <2> DEFINE e == ElementUops(inst.cfg)
  <2>1. /\ inst.type \in WideTypes => n = 2 * e
        /\ inst.type \notin WideTypes => n = IF inst.whole # 0 THEN inst.whole ELSE e
        /\ inst.whole # 0 => inst.type \notin WideTypes
    BY <1>1, TotalFacts, OperandFacts DEF WideTypes
  <2>2. DestRegs(inst) = CASE inst.type \in WideTypes -> 2 * e
                           [] inst.type = "SINGLE_DEST" -> 1
                           [] inst.whole # 0 -> inst.whole
                           [] OTHER -> e
    BY DEF DestRegs
  <2> HIDE DEF e, n
  <2>3. CASE inst.type \in WideTypes
    BY <2>1, <2>2, <2>3 DEF WideTypes
  <2>4. CASE inst.type \notin WideTypes
    BY <2>1, <2>2, <2>4
  <2> QED
    BY <2>3, <2>4
<1>4. Written = dest
  <2>1. inst.type = "SINGLE_DEST" => DestRegs(inst) = 1
    BY <1>1, OperandFacts DEF DestRegs, WideTypes
  <2> QED
    BY <1>1, <1>3, <2>1, RegsOfAll
<1>5. Read = Rs2Regs(inst, n) \cup x1 \cup MoreRegs(inst, n)
  BY <1>1, RegsOfAll
<1>6. CASE inst.type = "NARROWING"
  <2>1. Rs2Regs(inst, n) \cup MoreRegs(inst, n) = Group(inst.rs2, 2 * n)
    BY <1>1, <1>2, <1>6, SourcesAre, MoreRegsAre, TwoEach, ZenonT(30)
  <2>2. r2 = Group(inst.rs2, 2 * n) /\ acc = {} /\ x1 = r1
    BY <1>1, <1>6, SourcesAre
  <2> HIDE DEF r1, r2, x1, acc, n
  <2>3. Read = r2 \cup r1 \cup acc
    BY <1>5, <2>1, <2>2
  <2> QED
    BY <1>4, <2>3 DEF GroupsCovered, r1, r2, acc
<1>7. CASE inst.type = "SINGLE_DEST"
  <2>1. Rs2Regs(inst, n) \subseteq r2 /\ x1 \subseteq r1
    BY <1>1, <1>7, SourcesAre
  <2>2. MoreRegs(inst, n) = {} /\ acc = {}
    BY <1>1, <1>2, <1>7, MoreRegsAre
  <2> HIDE DEF r1, r2, x1, acc, n
  <2>3. Read \subseteq r2 \cup r1 \cup acc
    BY <1>5, <2>1, <2>2
  <2> QED
    BY <1>4, <1>7, <2>3 DEF GroupsCovered, r1, r2, acc
<1>8. CASE inst.type \notin {"NARROWING", "SINGLE_DEST"}
  <2>1. Rs2Regs(inst, n) = r2 /\ x1 = r1
    BY <1>1, <1>8, SourcesAre DEF Reductions
  <2>2. acc \subseteq MoreRegs(inst, n) /\ MoreRegs(inst, n) \subseteq r2 \cup acc
    <3>1. CASE inst.type \in {"MAC", "MAC_WIDE"}
      BY <1>1, <1>2, <1>3, <3>1, MoreRegsAre
    <3>2. CASE inst.type \in {"SLIDE1UP", "SLIDE1DOWN"}
      BY <1>1, <1>2, <3>2, MoreRegsAre, SourcesAre
    <3>3. CASE inst.type \in {"ELEMENTWISE", "WIDENING", "WIDENING_MIXED", "INT_EXT", "SINGLE_SRC"}
      BY <1>1, <1>2, <3>3, MoreRegsAre
    <3> QED
      BY <1>1, <1>8, <3>1, <3>2, <3>3, OperandFacts DEF Reductions, UopGenTypes, WideTypes
  <2> HIDE DEF r1, r2, x1, acc, n
  <2>3. Read = r2 \cup r1 \cup acc
    BY <1>5, <2>1, <2>2
  <2> QED
    BY <1>4, <2>3 DEF GroupsCovered, r1, r2, acc
<1> QED
  BY <1>6, <1>7, <1>8

\* A uop of a reduction reads what the one before it wrote, and together they read rs2.
LEMMA ReductionsAreChained == IInv => ReductionChained
<1> SUFFICES ASSUME IInv, inst # NoInst, inst.type \in Reductions PROVE ReductionChained
  BY DEF ReductionChained
<1>1. Underway \/ Stuck
  BY DEF IInv, Nothing
<1>2. inst \in Insts /\ Total(inst) \in 0..8
  BY <1>1, TotalFacts DEF Underway, Stuck
<1>3. PICK m \in Nat \ {0} : uops = FirstUops(inst, m)
  <2>1. CASE Underway
    BY <1>2, <2>1 DEF Underway
  <2>2. CASE Stuck
    BY <2>2 DEF Stuck
  <2> QED
    BY <1>1, <2>1, <2>2
<1>4. Len(uops) = m /\ \A j \in 1..m : uops[j] = Uop(inst, j - 1, Total(inst))
  BY <1>3, FirstUopsFacts
<1>5. inst.dst \in Int /\ inst.rs2 \in Int /\ inst.type # "SINGLE_DEST"
  BY <1>2, OperandFacts DEF Reductions
<1>6. ASSUME NEW k \in 1..Len(uops) - 1
      PROVE  uops[k].dst \in uops[k + 1].srcs
  <2>1. k \in 1..m /\ k + 1 \in 1..m /\ (k + 1) - 1 = k /\ k # 0
    BY <1>3, <1>4
  <2>2. uops[k] = Uop(inst, k - 1, Total(inst)) /\ uops[k + 1] = Uop(inst, k, Total(inst))
    BY <1>4, <2>1
  <2>3. Uop(inst, k - 1, Total(inst)).dst = inst.dst + (k - 1)
    BY <1>5 DEF Uop, DestOffset
  <2>4. inst.dst + k - 1 \in Uop(inst, k, Total(inst)).srcs
    BY <2>1 DEF Uop, ExtraSources, Reductions
  <2>5. inst.dst + (k - 1) = inst.dst + k - 1
    BY <1>5, <2>1
  <2> QED
    BY <2>2, <2>3, <2>4, <2>5
<1>7. uops[1].dst = inst.dst
  <2>1. uops[1] = Uop(inst, 0, Total(inst))
    BY <1>3, <1>4
  <2>2. Uop(inst, 0, Total(inst)).dst = inst.dst + 0
    BY <1>5 DEF Uop, DestOffset
  <2> QED
    BY <1>5, <2>1, <2>2
<1>8. ASSUME Done PROVE Group(inst.rs2, SourceRegs(inst, "rs2")) \subseteq Read
  <2>1. CASE Total(inst) # 0
    <3>1. uops = FirstUops(inst, Total(inst))
      BY <1>8, <2>1, DoneHasAll
    <3>2. Rs2Regs(inst, Total(inst)) \subseteq Read
      BY <1>2, <2>1, <3>1, RegsOfAll
    <3>3. Group(inst.rs2, SourceRegs(inst, "rs2")) \subseteq Rs2Regs(inst, Total(inst))
      BY <1>2, <2>1, SourcesAre DEF Reductions
    <3> QED
      BY <3>2, <3>3
  <2>2. CASE Total(inst) = 0
    <3>1. ElementUops(inst.cfg) = 0
      BY <1>2, <2>2, TotalFacts, OperandFacts DEF Reductions, WideTypes
    <3>2. SourceRegs(inst, "rs2") = 0
      BY <1>2, <3>1, OperandFacts DEF SourceRegs, Reductions
    <3> QED
      BY <1>5, <3>2 DEF Group
  <2> QED
    BY <2>1, <2>2
<1> QED
  BY <1>6, <1>7, <1>8 DEF ReductionChained

\* The uops of an instruction have all elements below VL, and none is without one.
LEMMA ElementsAreCovered == IInv => ElementsCovered
<1> SUFFICES ASSUME IInv, Done, inst.whole = 0 PROVE ElementsCovered
  BY DEF ElementsCovered
<1> DEFINE e == ElementUops(inst.cfg)
           per == VLEN \div inst.cfg.sew
           regs == IF inst.type \in WideTypes THEN Len(uops) \div 2 ELSE Len(uops)
<1>1. /\ inst \in Insts
      /\ Total(inst) # 0 => Len(uops) = Total(inst)
      /\ Total(inst) = 0 => Len(uops) = 1
  BY DoneHasAll
<1>2. /\ e \in Nat /\ inst.cfg.vl \in Nat
      /\ inst.type \in WideTypes => Total(inst) = 2 * e
      /\ inst.type \notin WideTypes => Total(inst) = e
      /\ inst.cfg.vl = 0 => e = 0
      /\ inst.cfg.vl > 0 => e >= 1 /\ e * per >= inst.cfg.vl /\ (e - 1) * per < inst.cfg.vl
  BY <1>1, TotalFacts
<1>3. CASE inst.cfg.vl = 0
  <2>1. Total(inst) = 0
    BY <1>2, <1>3
  <2> QED
    BY <1>1, <1>3, <2>1 DEF ElementsCovered
<1>4. CASE inst.cfg.vl > 0
  <2>1. regs = e
    <3> HIDE DEF e
    <3>1. CASE inst.type \in WideTypes
      <4>1. (2 * e) \div 2 = e /\ 2 * e # 0
        BY <1>2, <1>4
      <4> QED
        BY <1>1, <1>2, <3>1, <4>1
    <3>2. CASE inst.type \notin WideTypes
      BY <1>1, <1>2, <1>4, <3>2
    <3> QED
      BY <3>1, <3>2
  <2>2. regs * per >= inst.cfg.vl /\ (regs - 1) * per < inst.cfg.vl
    <3> HIDE DEF e, regs, per
    <3> QED
      BY <1>2, <1>4, <2>1
  <2>3. inst.cfg.vl # 0
    BY <1>4
  <2> QED
    BY <2>2, <2>3 DEF ElementsCovered
<1> QED
  BY <1>2, <1>3, <1>4

\* The uops of every instruction are right, whatever its type and VL: they read and write
\* exactly the registers of its groups (those of SINGLE_DEST and of reductions as the
\* property says), they have its elements, and reductions are chained.
THEOREM UopsAreExact == Spec => []UopsExact
<1>1. IInv => UopsExact
  BY GroupsAreCovered, ReductionsAreChained, ElementsAreCovered DEF UopsExact
<1> QED
  BY <1>1, UopsInvariant, PTL
=============================================================================
