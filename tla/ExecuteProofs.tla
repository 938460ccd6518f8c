--------------------------- MODULE ExecuteProofs ---------------------------
(***************************************************************************)
(* The issue queue and its pipes, for every set of pipes and register      *)
(* files, every scheduler size and every program: IInv is kept by Execute  *)
(* for programs whose instructions wait in one register file at a time,    *)
(* and QueueExact and ReadyExact follow; with PassInv, PipesExact follows. *)
(***************************************************************************)
EXTENDS Execute, SequenceFacts

-----------------------------------------------------------------------------
(* The programs.                                                           *)

\* An instruction has sources that may not be ready in one register file at most: with
\* two, a callback registers another one for the other file (IssueQueue.cpp:130).
WaitsInOneFile ==
    \A pr \in Programs : \A k \in DOMAIN pr : \A f, g \in Files :
        f # g => pr[k].srcs[f] \subseteq {0} \/ pr[k].srcs[g] \subseteq {0}

-----------------------------------------------------------------------------
(* The invariant.                                                          *)

\* Counters, registers and results; a result is due in the next cycle when a cycle ends.
StateInv ==
    /\ phase \in DOMAIN NextOf /\ program \in Programs
    /\ ev_issue_ready_inst_ \in BOOLEAN /\ fifo_ \in BOOLEAN
    /\ ready \subseteq 0..Len(program) /\ 0 \in ready
    /\ next_pid \in 1..Len(program) + 1 /\ next_uid \in Nat \ {0}
    /\ credits \in Nat /\ flushed_by \in Nat
    /\ writes \subseteq [reg : 1..Len(program), due : {0, 1}]
    /\ phase = "issue" => \A w \in writes : w.due > 0

\* The next instruction is a new one.
LiveInv ==
    /\ live \subseteq InstType
    /\ \A i \in live : i.pid < next_pid /\ i.uid < next_uid

PipeType == [unit_busy_ : BOOLEAN, num_passes_needed_ : Nat, curr_num_pass_ : Nat,
             execute : SUBSET EventType, issue : SUBSET EventType, complete : SUBSET EventType]

\* A pipe is busy with one instruction, which it executes or will issue again before the
\* phase ends; nothing is overdue.
PipeInv ==
    /\ pipe \in [Pipes -> PipeType]
    /\ \A p \in Pipes :
          /\ phase # "pipes" => pipe[p].issue = {}
          /\ phase = "issue" => \A e \in pipe[p].execute \cup pipe[p].complete : e.due > 0
          /\ \A e \in pipe[p].complete : e.due \in {0, 1}
          /\ \A e, f \in pipe[p].execute \cup pipe[p].issue : e = f
          /\ pipe[p].execute = {} \/ pipe[p].issue = {}
          /\ pipe[p].unit_busy_ <=> pipe[p].execute \cup pipe[p].issue # {}

\* The instructions of this unit are in the queue or in one event of one pipe.
PlaceInv ==
    /\ \A i \in ToSet(issue_queue_) : i \in live /\ Here(i)
    /\ \A p \in Pipes : \A e \in Events(pipe[p]) :
          /\ e.inst \in live /\ Here(e.inst) /\ e.inst \notin ToSet(issue_queue_)
          /\ \A q \in Pipes : \A f \in Events(pipe[q]) : f.inst = e.inst => q = p /\ f = e
    /\ \A i \in live : Here(i) => \/ i \in ToSet(issue_queue_)
                                  \/ \E p \in Pipes : \E e \in Events(pipe[p]) : e.inst = i

\* What has completed is not executed.
ApartInv ==
    \A p \in Pipes : \A e \in pipe[p].complete : e \notin pipe[p].execute \cup pipe[p].issue

\* The queues hold nothing twice, and who does not wait is ready.
QueueInv ==
    /\ IsSequence(issue_queue_) /\ IsSequence(ready_queue_) /\ IsSequence(callbacks)
    /\ Distinct(issue_queue_) /\ Distinct(ready_queue_) /\ Distinct(callbacks)
    /\ \A i : i \in ToSet(ready_queue_) <=>
                  i \in ToSet(issue_queue_) /\ \A f \in Files : ~Unready(i, f, ready)
    /\ \A c : c \in ToSet(callbacks) <=>
                  \E i \in ToSet(issue_queue_), f \in Files :
                      Unready(i, f, ready) /\ c = [inst |-> i, file |-> f]

\* Who is ready is about to be offered to its pipes, or one of them is not done.
WakeInv ==
    \A i \in ToSet(ready_queue_) : ev_issue_ready_inst_ \/
        \E k \in DOMAIN PipeMapping[program[i.pid].target] :
            Events(pipe[PipeMapping[program[i.pid].target][k]]) # {}

IInv == /\ StateInv /\ LiveInv /\ PipeInv /\ PlaceInv /\ ApartInv /\ QueueInv
        /\ WakeInv /\ CreditsConserved

\* The counters are those of the uop that the pipe x is busy with, and what it completed
\* made as many passes as it needs.
PassFine(x) ==
    LET busy == x.execute \cup x.issue
        num  == x.num_passes_needed_
        curr == x.curr_num_pass_
    IN  /\ num = 0 => /\ curr = 0
                      /\ \A e \in busy : e.passes = 1 /\ (isVInt(e.inst) => NumPasses(e.inst) <= 1)
        /\ num # 0 => /\ busy # {}
                      /\ \A e \in busy : /\ isVInt(e.inst) /\ num = NumPasses(e.inst)
                                         /\ num > 1 /\ e.passes = curr /\ curr \in 1..num
        /\ \A e \in x.issue : num # 0 /\ curr < num
        /\ \A e \in x.complete :
              e.passes = IF isVInt(e.inst) THEN Max({1, NumPasses(e.inst)}) ELSE 1

\* It is so until a flush meets the pipe between two passes.
PassInv == \A p \in Pipes \ cut : PassFine(pipe[p])

\* The pipes that a flush met between two passes are pipes.
CutInv == cut \subseteq Pipes

-----------------------------------------------------------------------------
(* Operators of the issue queue.                                           *)

\* Elements of a sequence, and its places.
LEMMA ToSetIsRange == \A s : ToSet(s) = Range(s)
  BY DEF ToSet, Range

\* What InsertReady does to the ready queue: it has one more instruction.
LEMMA InsertReadyFacts ==
    ASSUME NEW q, IsSequence(q), Distinct(q), NEW i, i \notin Range(q)
    PROVE  /\ IsSequence(InsertReady(q, i)) /\ Distinct(InsertReady(q, i))
           /\ Range(InsertReady(q, i)) = Range(q) \cup {i}
<1> DEFINE older == {k \in DOMAIN q : q[k].uid <= i.uid}
           younger == DOMAIN q \ older
           a == ElementsAt(q, older)
           b == Append(a, i)
           c == ElementsAt(q, younger)
<1>0. DOMAIN q = 1..Len(q)
  BY LenProperties DEF IsSequence
<1>1. older \in SUBSET (1..Len(q)) /\ younger \in SUBSET (1..Len(q))
  BY <1>0
<1>2. older \cup younger = DOMAIN q /\ older \cap younger = {}
  OBVIOUS
<1>3. InsertReady(q, i) = IF fifo_ THEN Append(q, i) ELSE b \o c
  BY DEF InsertReady
<1> HIDE DEF older, younger
<1>4. IsSequence(a) /\ Range(a) = {q[k] : k \in older} /\ Distinct(a)
  BY <1>1, ElementsAtFacts
<1>5. IsSequence(c) /\ Range(c) = {q[k] : k \in younger} /\ Distinct(c)
  BY <1>1, ElementsAtFacts
<1>6. Range(a) \cup Range(c) = Range(q) /\ Range(a) \cap Range(c) = {}
  <2>1. Range(a) \cup Range(c) = Range(q)
    BY <1>2, <1>4, <1>5 DEF Range
  <2>2. ASSUME NEW x \in Range(a), x \in Range(c) PROVE FALSE
    <3>1. PICK j \in older : x = q[j]
      BY <1>4
    <3>2. PICK k \in younger : x = q[k]
      BY <1>5, <2>2
    <3> QED
      BY <1>2, <3>1, <3>2 DEF Distinct
  <2> QED
    BY <2>1, <2>2
<1> HIDE DEF a, c
<1>7. IsSequence(b) /\ Range(b) = Range(a) \cup {i} /\ Distinct(b)
  BY <1>4, <1>6, AppendIsSequence
<1> HIDE DEF b
<1>8. Range(b) \cap Range(c) = {}
  BY <1>6, <1>7
<1>9. IsSequence(b \o c) /\ Range(b \o c) = Range(b) \cup Range(c) /\ Distinct(b \o c)
  BY <1>5, <1>7, <1>8, DistinctConcat
<1>10. IsSequence(Append(q, i)) /\ Range(Append(q, i)) = Range(q) \cup {i} /\ Distinct(Append(q, i))
  BY AppendIsSequence
<1> QED
  BY <1>3, <1>6, <1>7, <1>9, <1>10

\* A set of one element as a sequence.
LEMMA SetToSeqOne == \A c : SetToSeq({c}) = <<c>>
<1> TAKE c
<1> DEFINE P(f) == f \in [1..1 -> {c}] /\ IsInjective(f)
<1>1. IsFiniteSet({c}) /\ Cardinality({c}) = 1
  BY FS_Singleton
<1>2. SetToSeq({c}) = CHOOSE f \in [1..1 -> {c}] : IsInjective(f)
  BY <1>1 DEF SetToSeq
<1>3. <<c>> \in [1..1 -> {c}] /\ IsInjective(<<c>>)
  BY DEF IsInjective
<1>4. \A f \in [1..1 -> {c}] : f = <<c>>
  <2> TAKE f \in [1..1 -> {c}]
  <2>1. f[1] = c /\ DOMAIN f = 1..1
    OBVIOUS
  <2>2. f \in Seq({c}) /\ Len(f) = 1
    BY FunIsSeq, 1 \in Nat
  <2>4. <<c>> \in Seq({c}) /\ Len(<<c>>) = 1
    OBVIOUS
  <2>3. \A k \in 1..1 : f[k] = <<c>>[k]
    BY <2>1
  <2> QED
    BY <2>2, <2>3, <2>4, SeqEqual
<1> QED
  BY <1>2, <1>3, <1>4

\* A queue without some instructions.
LEMMA KeptFacts ==
    ASSUME NEW q, IsSequence(q), Distinct(q), NEW gone
    PROVE  /\ IsSequence(Kept(q, gone)) /\ Distinct(Kept(q, gone))
           /\ Range(Kept(q, gone)) = Range(q) \ gone
<1> DEFINE T == {k \in DOMAIN q : q[k] \notin gone}
<1>1. T \in SUBSET (1..Len(q))
  BY LenProperties DEF IsSequence
<1>2. Kept(q, gone) = ElementsAt(q, T)
  BY DEF Kept
<1>3. Range(q) \ gone = {q[k] : k \in T}
  BY DEF Range
<1> HIDE DEF T
<1> QED
  BY <1>1, <1>2, <1>3, ElementsAtFacts

\* The callbacks without those of some instructions.
LEMMA KeptCallbacksFacts ==
    ASSUME IsSequence(callbacks), Distinct(callbacks), NEW gone
    PROVE  /\ IsSequence(KeptCallbacks(gone)) /\ Distinct(KeptCallbacks(gone))
           /\ Range(KeptCallbacks(gone)) = {c \in Range(callbacks) : c.inst \notin gone}
<1> DEFINE T == {k \in DOMAIN callbacks : callbacks[k].inst \notin gone}
<1>1. T \in SUBSET (1..Len(callbacks))
  BY LenProperties DEF IsSequence
<1>2. KeptCallbacks(gone) = ElementsAt(callbacks, T)
  BY DEF KeptCallbacks
<1>3. {c \in Range(callbacks) : c.inst \notin gone} = {callbacks[k] : k \in T}
  BY DEF Range
<1> HIDE DEF T
<1> QED
  BY <1>1, <1>2, <1>3, ElementsAtFacts

\* The state of a check: the ready queue, the callbacks and the event.
Check(q, c, e) == [queue |-> q, calls |-> c, event |-> e]

\* A check of an instruction whose sources are all ready makes it ready.
LEMMA CheckReady ==
    ASSUME NEW q, NEW c, NEW e, NEW i, NEW now, \A f \in Files : ~Unready(i, f, now)
    PROVE  operandIssueCheck(Check(q, c, e), i, now) = Check(InsertReady(q, i), c, TRUE)
<1> DEFINE st == [queue |-> q, calls |-> c, event |-> e]
<1>1. {file \in Files : Unready(i, file, now)} = {}
  OBVIOUS
<1>2. operandIssueCheck(st, i, now) = [st EXCEPT !.queue = InsertReady(@, i), !.event = TRUE]
  BY <1>1 DEF operandIssueCheck
<1> QED
  BY <1>2 DEF Check

\* A check of an instruction that waits in one register file registers one callback.
LEMMA CheckWaits ==
    ASSUME NEW q, NEW cs, NEW e, NEW i, NEW now, NEW f \in Files, Unready(i, f, now),
           \A g \in Files : Unready(i, g, now) => g = f
    PROVE  operandIssueCheck(Check(q, cs, e), i, now)
               = Check(q, cs \o <<[inst |-> i, file |-> f]>>, e)
<1> DEFINE c == [inst |-> i, file |-> f]
           waits == {file \in Files : Unready(i, file, now)}
           st == [queue |-> q, calls |-> cs, event |-> e]
<1>1. waits = {f}
  OBVIOUS
<1>2. {[inst |-> i, file |-> g] : g \in waits} = {c}
  BY <1>1
<1>3. waits # {}
  BY <1>1
<1>4. operandIssueCheck(st, i, now) = [st EXCEPT !.calls = @ \o SetToSeq({c})]
  BY <1>2, <1>3, Zenon DEF operandIssueCheck
<1>5. SetToSeq({c}) = <<c>>
  BY SetToSeqOne
<1> HIDE DEF c
<1> DEFINE t == SetToSeq({c})
<1> HIDE DEF t
<1> DEFINE u == st.calls \o t
<1>7. u = cs \o t
  OBVIOUS
<1> HIDE DEF u
<1>6. [st EXCEPT !.calls = u] = [queue |-> q, calls |-> u, event |-> e]
  OBVIOUS
<1> QED
  BY <1>4, <1>5, <1>6, <1>7, Zenon DEF Check, c, t, u

-----------------------------------------------------------------------------
(* Operators of the pipes.                                                 *)

\* Division and remainder.
LEMMA DivisionFacts ==
    ASSUME NEW a \in Nat, NEW d \in Nat \ {0}
    PROVE  /\ a \div d \in Nat /\ a \div d <= a /\ (a % d) \in Nat
           /\ a = d * (a \div d) + (a % d)
           /\ a < d => a \div d = 0 /\ (a % d) = a
  OBVIOUS

\* More is divided into more.
LEMMA DivisionMonotone ==
    ASSUME NEW a \in Nat, NEW b \in Nat, NEW d \in Nat \ {0}, a <= b
    PROVE  a \div d <= b \div d
  OBVIOUS

\* The smaller one of two numbers.
LEMMA MinOfTwo ==
    ASSUME NEW a \in Int, NEW b \in Int
    PROVE  Min({a, b}) = IF a <= b THEN a ELSE b
<1> DEFINE m == IF a <= b THEN a ELSE b
<1>1. m \in {a, b} /\ \A y \in {a, b} : m <= y
  OBVIOUS
<1>2. \A x \in {a, b} : (\A y \in {a, b} : x <= y) => x = m
  OBVIOUS
<1> HIDE DEF m
<1>3. Min({a, b}) = m
  BY <1>1, <1>2 DEF Min
<1> QED
  BY <1>3 DEF m

\* The larger one of two numbers.
LEMMA MaxOfTwo ==
    ASSUME NEW a \in Int, NEW b \in Int
    PROVE  Max({a, b}) = IF b > a THEN b ELSE a
<1> DEFINE m == IF b > a THEN b ELSE a
<1>1. m \in {a, b} /\ \A y \in {a, b} : m >= y
  OBVIOUS
<1>2. \A x \in {a, b} : (\A y \in {a, b} : x >= y) => x = m
  OBVIOUS
<1> HIDE DEF m
<1>3. Max({a, b}) = m
  BY <1>1, <1>2 DEF Max
<1> QED
  BY <1>3 DEF m

\* The vector configuration of an instruction.
LEMMA ConfigType ==
    ASSUME program \in Programs, NEW i, i.pid \in 1..Len(program)
    PROVE  LET op == program[i.pid]
           IN  /\ op.vlmax \in Nat /\ op.lmul \in Nat \ {0} /\ op.vl \in Nat /\ op.uop \in Nat
               /\ op.vl + op.vlmax < UIntSize
               /\ ElementsPerUop(op) \in Nat /\ ElementsPerUop(op) <= op.vlmax
<1> DEFINE op == program[i.pid]
<1>1. /\ op.vlmax \in Nat /\ op.lmul \in Nat \ {0} /\ op.vl \in Nat /\ op.uop \in Nat
      /\ op.vl + op.vlmax < UIntSize
  <2>1. op \in [target : DOMAIN PipeMapping \cup {"other"}, srcs : [Files -> SUBSET Nat],
                branch : BOOLEAN, time : Nat \ {0}, vlmax : Nat, lmul : Nat \ {0}, vl : Nat,
                uop : Nat]
    BY ProgramAssumption, ElementOfSeq
  <2>2. i.pid \in DOMAIN program
    BY ProgramAssumption, LenProperties
  <2>3. op.vl + op.vlmax < UIntSize
    BY <2>2, ProgramAssumption
  <2> QED
    BY <2>1, <2>3
<1>2. ElementsPerUop(op) \in Nat /\ ElementsPerUop(op) <= op.vlmax
  BY <1>1, DivisionFacts DEF ElementsPerUop
<1> QED
  BY <1>1, <1>2

\* The elements that the code takes for those of the uop: as many as a full one has if some
\* of its elements are below VL, and never more.
LEMMA PassElements ==
    ASSUME program \in Programs, NEW i, i.pid \in 1..Len(program)
    PROVE  LET op   == program[i.pid]
               full == ElementsPerUop(op)
           IN  \E m \in 0..full : /\ NumPasses(i) = m \div Adders
                                  /\ op.vl > full * op.uop => m = full
<1> DEFINE op == program[i.pid]
           full == ElementsPerUop(op)
           vl == op.vl
           u == op.uop
           top == op.vlmax
<1>1. full \in Nat /\ vl \in Nat /\ u \in Nat /\ top \in Nat /\ vl + top < UIntSize /\ full <= top
  BY ConfigType
<1> DEFINE b == vl - full * (u - 1)
           r == b % UIntSize
           m == Min({full, r})
<1>2. NumPasses(i) = m \div Adders
  BY DEF NumPasses
<1> HIDE DEF op, full, vl, u, top
<1>3. full * u \in Nat /\ full * (u - 1) = full * u - full
  BY <1>1
<1>4. b \in Int /\ b = vl - full * u + full
  BY <1>1, <1>3
<1> HIDE DEF b
<1>5. r \in Nat
  BY <1>4, ExecutePipeAssumption
<1>6. vl > full * u => r = b
  <2>1. vl > full * u => b \in Nat /\ b < UIntSize
    BY <1>1, <1>3, <1>4, ExecutePipeAssumption
  <2> QED
    BY <2>1, DivisionFacts, ExecutePipeAssumption
<1>7. vl > full * u => r >= full
  BY <1>1, <1>3, <1>4, <1>6
<1> HIDE DEF r
<1>8. m = IF full <= r THEN full ELSE r
  BY <1>1, <1>5, MinOfTwo
<1> HIDE DEF m
<1>9. m \in 0..full /\ (vl > full * u => m = full)
  BY <1>1, <1>5, <1>7, <1>8
<1> QED
  BY <1>2, <1>9 DEF full, vl, u, op

\* The number of passes of a uop is a number.
LEMMA NumPassesInt ==
    ASSUME program \in Programs, NEW i, i.pid \in 1..Len(program)
    PROVE  NumPasses(i) \in Int
<1> DEFINE full == ElementsPerUop(program[i.pid])
<1>1. PICK m \in 0..full : NumPasses(i) = m \div Adders
  BY PassElements
<1>2. full \in Nat
  BY ConfigType
<1> HIDE DEF full
<1> QED
  BY <1>1, <1>2, DivisionFacts, ExecutePipeAssumption

\* As many passes as insertInst computes are enough, and no more than a full uop takes.
LEMMA PassesEnough ==
    ASSUME program \in Programs, NEW i, i.pid \in 1..Len(program)
    PROVE  LET op   == program[i.pid]
               full == ElementsPerUop(op)
               n    == Max({1, NumPasses(i)})
           IN  /\ n <= Max({1, full \div Adders})
               /\ full % Adders = 0 \/ full < Adders => n * Adders >= BodyElements(op)
<1> DEFINE op == program[i.pid]
           full == ElementsPerUop(op)
           vl == op.vl
           u == op.uop
           n == Max({1, NumPasses(i)})
           q == full \div Adders
           body == BodyElements(op)
<1>1. full \in Nat /\ vl \in Nat /\ u \in Nat
  BY ConfigType
<1>2. PICK m \in 0..full : NumPasses(i) = m \div Adders /\ (vl > full * u => m = full)
  BY PassElements
<1>3. body = Max({0, Min({full, vl - full * u})})
  BY DEF BodyElements
<1> HIDE DEF op, full, vl, u, body
<1>4. m \in Nat /\ m <= full /\ m \div Adders \in Nat /\ q \in Nat /\ m \div Adders <= q
  BY <1>1, <1>2, DivisionFacts, DivisionMonotone, ExecutePipeAssumption
<1>5. n = IF m \div Adders > 1 THEN m \div Adders ELSE 1
  BY <1>2, <1>4, MaxOfTwo
<1>6. Max({1, q}) = IF q > 1 THEN q ELSE 1
  BY <1>4, MaxOfTwo
<1>7. full = Adders * q + (full % Adders) /\ (full % Adders) \in Nat
  BY <1>1, DivisionFacts, ExecutePipeAssumption
<1>8. full * u \in Nat
  BY <1>1
<1>9. body \in Nat /\ body <= full /\ (body > 0 => vl > full * u)
  <2> DEFINE w == vl - full * u
             x == Min({full, w})
  <2>1. w \in Int /\ (w > 0 => vl > full * u)
    BY <1>1, <1>8
  <2> HIDE DEF w
  <2>2. x = IF full <= w THEN full ELSE w
    BY <1>1, <2>1, MinOfTwo
  <2>3. x \in Int /\ x <= full /\ (x > 0 => w > 0)
    BY <1>1, <2>1, <2>2
  <2> HIDE DEF x
  <2>4. body = IF x > 0 THEN x ELSE 0
    <3>1. Max({0, x}) = IF x > 0 THEN x ELSE 0
      BY <2>3, MaxOfTwo
    <3> QED
      BY <1>3, <3>1 DEF x, w
  <2> QED
    BY <1>1, <2>1, <2>3, <2>4
<1> DEFINE k == m \div Adders
<1>10. k \in Nat /\ (body > 0 => k = q)
  BY <1>2, <1>4, <1>9
<1>11. n = IF k > 1 THEN k ELSE 1
  BY <1>5
<1>12. full < Adders => q = 0
  BY <1>1, DivisionFacts, ExecutePipeAssumption
<1> HIDE DEF n, q, k
<1>13. Adders \in Nat /\ Adders > 0
  BY ExecutePipeAssumption
<1>14. ASSUME full % Adders = 0 \/ full < Adders PROVE n * Adders >= body
  <2>1. CASE body = 0
    BY <1>10, <1>11, <1>13, <2>1
  <2>2. CASE body > 0 /\ full < Adders
    BY <1>1, <1>9, <1>10, <1>11, <1>12, <1>13, <2>2
  <2>3. CASE body > 0 /\ full % Adders = 0
    <3>0. Adders * q \in Nat
      BY <1>4, <1>13
    <3>1. full = Adders * q /\ k = q /\ full > 0
      <4>1. full = Adders * q
        BY <1>7, <2>3, <3>0
      <4> QED
        BY <1>1, <1>9, <1>10, <2>3, <4>1
    <3>2. q = 0 \/ q = 1 \/ q > 1
      BY <1>4
    <3>3. n * Adders >= full
      BY <1>4, <1>11, <1>13, <3>1, <3>2
    <3>4. n * Adders \in Nat
      BY <1>10, <1>11, <1>13
    <3> QED
      BY <1>1, <1>9, <3>3, <3>4
  <2> QED
    BY <1>9, <1>14, <2>1, <2>2, <2>3
<1>15. n <= Max({1, q})
  BY <1>4, <1>5, <1>6
<1> QED
  BY <1>14, <1>15 DEF n, q, full, op, body

\* The event that insertInst schedules.
Entry(i, entered) == [inst |-> i, due |-> program[i.pid].time, passes |-> entered + 1]

\* A uop that needs several passes enters the pipe for the first time.
Multi(p, i) == isVInt(i) /\ FirstPass(p) /\ NumPasses(i) > 1

\* The pipe r is p, busy with the instruction i; its other events are as they were.
Inserted(r, p, i, entered) ==
    /\ r.unit_busy_ = TRUE
    /\ r.num_passes_needed_ = IF Multi(p, i) THEN NumPasses(i) ELSE p.num_passes_needed_
    /\ r.curr_num_pass_ = IF Multi(p, i) THEN 1
                          ELSE IF isVInt(i) /\ ~FirstPass(p) THEN p.curr_num_pass_ + 1
                          ELSE p.curr_num_pass_
    /\ r.execute = p.execute \cup {Entry(i, entered)}
    /\ r.issue = p.issue /\ r.complete = p.complete
    /\ /\ r.num_passes_needed_ \in Nat /\ r.curr_num_pass_ \in Nat
       /\ r.execute \subseteq EventType
       => r \in PipeType

\* What insertInst does to a pipe.
LEMMA InsertInstFacts ==
    ASSUME NEW p \in PipeType, NEW i, NEW entered
    PROVE  Inserted(insertInst(p, i, entered), p, i, entered)
<1> DEFINE num == IF Multi(p, i) THEN NumPasses(i) ELSE p.num_passes_needed_
           curr == IF Multi(p, i) THEN 1
                   ELSE IF isVInt(i) /\ ~FirstPass(p) THEN p.curr_num_pass_ + 1
                   ELSE p.curr_num_pass_
           x == p.execute \cup {Entry(i, entered)}
           r == [p EXCEPT !.num_passes_needed_ = num, !.curr_num_pass_ = curr,
                          !.unit_busy_ = TRUE, !.execute = x]
<1>1. insertInst(p, i, entered) = r
  BY Zenon DEF insertInst, Multi, Entry
<1> HIDE DEF num, curr, x
<1>2. /\ r.unit_busy_ = TRUE /\ r.num_passes_needed_ = num /\ r.curr_num_pass_ = curr
      /\ r.execute = x /\ r.issue = p.issue /\ r.complete = p.complete
  BY Zenon DEF PipeType
<1>3. num \in Nat /\ curr \in Nat /\ x \subseteq EventType => r \in PipeType
  BY Zenon DEF PipeType
<1> HIDE DEF r
<1>4. /\ r.num_passes_needed_ \in Nat /\ r.curr_num_pass_ \in Nat /\ r.execute \subseteq EventType
      => r \in PipeType
  BY <1>2, <1>3, Zenon
<1> QED
  BY <1>1, <1>2, <1>4, Zenon DEF num, curr, x, Inserted

\* The pipe r is p after the event e: the instruction goes round again, or the pipe is free
\* and completes it.
Executed(r, p, e) ==
    /\ r \in PipeType /\ r.execute = p.execute \ {e}
    /\ AnotherPass(p) => /\ r.unit_busy_ = p.unit_busy_
                         /\ r.num_passes_needed_ = p.num_passes_needed_
                         /\ r.curr_num_pass_ = p.curr_num_pass_
                         /\ r.issue = p.issue \cup {e} /\ r.complete = p.complete
    /\ ~AnotherPass(p) => /\ r.unit_busy_ = FALSE
                          /\ r.num_passes_needed_ = 0 /\ r.curr_num_pass_ = 0
                          /\ r.issue = p.issue
                          /\ r.complete = p.complete \cup
                                 {[inst |-> e.inst, due |-> 1, passes |-> e.passes]}

\* What executeInst does to a pipe.
LEMMA ExecuteInstFacts ==
    ASSUME NEW p \in PipeType, NEW e \in EventType
    PROVE  Executed(executeInst(p, e), p, e)
<1> DEFINE d == [inst |-> e.inst, due |-> 1, passes |-> e.passes]
           x == p.execute \ {e}
           t == p.issue \cup {e}
           m == p.complete \cup {d}
<1>1. d = [e EXCEPT !.due = 1] /\ d \in EventType
  BY DEF EventType
<1> HIDE DEF d
<1>2. executeInst(p, e) = IF AnotherPass(p) THEN [p EXCEPT !.execute = x, !.issue = t]
                          ELSE [p EXCEPT !.execute = x, !.num_passes_needed_ = 0,
                                         !.curr_num_pass_ = 0, !.unit_busy_ = FALSE,
                                         !.complete = m]
  BY <1>1, Zenon DEF executeInst, CompleteDelay
<1>3. /\ p.execute \subseteq EventType /\ p.issue \subseteq EventType
      /\ p.complete \subseteq EventType
  BY DEF PipeType
<1>4. x \subseteq EventType /\ t \subseteq EventType /\ m \subseteq EventType
  BY <1>1, <1>3
<1>5. 0 \in Nat
  OBVIOUS
<1> HIDE DEF x, t, m
<1> DEFINE r == [p EXCEPT !.execute = x, !.issue = t]
           q == [p EXCEPT !.execute = x, !.num_passes_needed_ = 0, !.curr_num_pass_ = 0,
                          !.unit_busy_ = FALSE, !.complete = m]
<1>6. /\ r \in PipeType /\ r.execute = x /\ r.unit_busy_ = p.unit_busy_
      /\ r.num_passes_needed_ = p.num_passes_needed_ /\ r.curr_num_pass_ = p.curr_num_pass_
      /\ r.issue = t /\ r.complete = p.complete
  BY <1>4, Zenon DEF PipeType
<1>7. /\ q \in PipeType /\ q.execute = x /\ q.unit_busy_ = FALSE
      /\ q.num_passes_needed_ = 0 /\ q.curr_num_pass_ = 0
      /\ q.issue = p.issue /\ q.complete = m
  BY <1>4, <1>5, Zenon DEF PipeType
<1> HIDE DEF r, q
<1>8. executeInst(p, e) = IF AnotherPass(p) THEN r ELSE q
  BY <1>2, Zenon DEF r, q
<1> QED
  BY <1>6, <1>7, <1>8, Zenon DEF x, t, m, d, Executed

\* An event, one cycle later.
Later(e) == [inst |-> e.inst, due |-> e.due - 1, passes |-> e.passes]

\* AgedPipe makes every event due one cycle earlier.
LEMMA LaterIs ==
    ASSUME NEW S, S \subseteq EventType
    PROVE  {[e EXCEPT !.due = @ - 1] : e \in S} = {Later(e) : e \in S}
<1>1. \A e \in S : [e EXCEPT !.due = @ - 1] = Later(e)
  BY DEF EventType, Later
<1> QED
  BY <1>1, Zenon

\* The pipe r is p with other events issue and complete.
Dropped(r, p, issue, complete) ==
    /\ r \in PipeType /\ r.unit_busy_ = p.unit_busy_
    /\ r.num_passes_needed_ = p.num_passes_needed_ /\ r.curr_num_pass_ = p.curr_num_pass_
    /\ r.execute = p.execute /\ r.issue = issue /\ r.complete = complete

\* A pipe that loses a completion or an event that issues again.
LEMMA DropFacts ==
    ASSUME NEW p \in PipeType, NEW e
    PROVE  /\ Dropped(completeInst(p, e), p, p.issue, p.complete \ {e})
           /\ Dropped([p EXCEPT !.issue = @ \ {e}], p, p.issue \ {e}, p.complete)
<1> DEFINE x == p.complete \ {e}
           t == p.issue \ {e}
<1>1. x \subseteq EventType /\ t \subseteq EventType
  BY DEF PipeType
<1>2. completeInst(p, e) = [p EXCEPT !.complete = x]
  BY Zenon DEF completeInst
<1>3. [p EXCEPT !.issue = @ \ {e}] = [p EXCEPT !.issue = t]
  BY Zenon
<1> HIDE DEF x, t
<1> DEFINE c == [p EXCEPT !.complete = x]
           i == [p EXCEPT !.issue = t]
<1>4. /\ c \in PipeType /\ c.unit_busy_ = p.unit_busy_
      /\ c.num_passes_needed_ = p.num_passes_needed_
      /\ c.curr_num_pass_ = p.curr_num_pass_
      /\ c.execute = p.execute /\ c.issue = p.issue /\ c.complete = x
  BY <1>1, Zenon DEF PipeType
<1>5. /\ i \in PipeType /\ i.unit_busy_ = p.unit_busy_
      /\ i.num_passes_needed_ = p.num_passes_needed_
      /\ i.curr_num_pass_ = p.curr_num_pass_
      /\ i.execute = p.execute /\ i.issue = t /\ i.complete = p.complete
  BY <1>1, Zenon DEF PipeType
<1> HIDE DEF c, i
<1> QED
  BY <1>2, <1>3, <1>4, <1>5, Zenon DEF c, i, x, t, Dropped

\* The pipe r is p after a flush: only what is not flushed is left.
Flushed(r, p, flushed) ==
    LET left == {x \in p.execute : x.inst \notin flushed}
    IN  /\ r \in PipeType
        /\ r.unit_busy_ = (IF left = {} THEN FALSE ELSE p.unit_busy_)
        /\ r.num_passes_needed_ = p.num_passes_needed_
        /\ r.curr_num_pass_ = p.curr_num_pass_
        /\ r.execute = left /\ r.issue = {}
        /\ r.complete = {x \in p.complete : x.inst \notin flushed}

\* What flushPipe does to a pipe.
LEMMA FlushPipeFacts ==
    ASSUME NEW p \in PipeType, NEW flushed
    PROVE  Flushed(flushPipe(p, flushed), p, flushed)
<1> DEFINE left == {x \in p.execute : x.inst \notin flushed}
           kept == {x \in p.complete : x.inst \notin flushed}
           busy == IF left = {} THEN FALSE ELSE p.unit_busy_
           r == [p EXCEPT !.issue = {}, !.complete = kept, !.execute = left, !.unit_busy_ = busy]
<1>1. left \subseteq EventType /\ kept \subseteq EventType /\ busy \in BOOLEAN
  BY DEF PipeType
<1>2. flushPipe(p, flushed) = r
  BY Zenon DEF flushPipe, BusyAfterFlush
<1> HIDE DEF left, kept, busy
<1>3. /\ r \in PipeType /\ r.unit_busy_ = busy
      /\ r.num_passes_needed_ = p.num_passes_needed_
      /\ r.curr_num_pass_ = p.curr_num_pass_
      /\ r.execute = left /\ r.issue = {} /\ r.complete = kept
  BY <1>1, Zenon DEF PipeType
<1> HIDE DEF r
<1> QED
  BY <1>2, <1>3, Zenon DEF left, kept, busy, Flushed

\* A pipe one cycle later, when nothing is overdue.
LEMMA AgedPipeFacts ==
    ASSUME NEW p \in PipeType, \A e \in p.execute \cup p.complete : e.due > 0
    PROVE  LET r == AgedPipe(p)
           IN  /\ r \in PipeType /\ r.unit_busy_ = p.unit_busy_
               /\ r.num_passes_needed_ = p.num_passes_needed_
               /\ r.curr_num_pass_ = p.curr_num_pass_
               /\ r.execute = {Later(e) : e \in p.execute} /\ r.issue = p.issue
               /\ r.complete = {Later(e) : e \in p.complete}
<1> DEFINE x == {Later(e) : e \in p.execute}
           m == {Later(e) : e \in p.complete}
           r == [p EXCEPT !.execute = x, !.complete = m]
<1>1. p.execute \subseteq EventType /\ p.complete \subseteq EventType
  BY DEF PipeType
<1>2. \A e \in p.execute \cup p.complete : Later(e) \in EventType
  BY <1>1 DEF EventType, Later
<1>3. x \subseteq EventType /\ m \subseteq EventType
  BY <1>2
<1>4. /\ {[e EXCEPT !.due = @ - 1] : e \in p.execute} = x
      /\ {[e EXCEPT !.due = @ - 1] : e \in p.complete} = m
  BY <1>1, LaterIs
<1> HIDE DEF x, m
<1>5. AgedPipe(p) = r
  BY <1>4, Zenon DEF AgedPipe
<1>6. /\ r \in PipeType /\ r.unit_busy_ = p.unit_busy_
      /\ r.num_passes_needed_ = p.num_passes_needed_
      /\ r.curr_num_pass_ = p.curr_num_pass_
      /\ r.execute = x /\ r.issue = p.issue /\ r.complete = m
  BY <1>3, Zenon DEF PipeType
<1> HIDE DEF r
<1> QED
  BY <1>5, <1>6, Zenon DEF x, m

-----------------------------------------------------------------------------
(* The loop of setReady over the callbacks that fire.                      *)

\* f is the state of the checks of the callbacks of s, up to each from 0 to n.
Checks(f, st, s, now, n) ==
    f = [k \in 0..n |-> IF k = 0 THEN st ELSE operandIssueCheck(f[k - 1], s[k].inst, now)]

\* The state after the k-th callback.
LEMMA ChecksAt ==
    ASSUME NEW f, NEW st, NEW s, NEW now, NEW n \in Nat, Checks(f, st, s, now, n), NEW k \in 0..n
    PROVE  f[k] = IF k = 0 THEN st ELSE operandIssueCheck(f[k - 1], s[k].inst, now)
<1> DEFINE h(j) == IF j = 0 THEN st ELSE operandIssueCheck(f[j - 1], s[j].inst, now)
<1>1. f = [j \in 0..n |-> h(j)]
  BY DEF Checks
<1> HIDE DEF h
<1>2. f[k] = h(k)
  BY <1>1
<1> QED
  BY <1>2 DEF h

\* The recursion has a solution.
LEMMA ChecksExists ==
    ASSUME NEW st, NEW s, NEW now, NEW n \in Nat
    PROVE  \E f : Checks(f, st, s, now, n)
<1> DEFINE B == {m \in Nat : ~ \E f : Checks(f, st, s, now, m)}
<1> SUFFICES B = {}
  OBVIOUS
<1> SUFFICES ASSUME B # {} PROVE FALSE
  OBVIOUS
<1>1. PICK m \in B : \A k \in B : m <= k
  BY LeastNumber, B \in SUBSET Nat
<1>2. CASE m = 0
  <2> DEFINE f == [k \in 0..0 |-> st]
  <2>1. Checks(f, st, s, now, 0)
    BY DEF Checks
  <2> QED
    BY <1>2, <2>1
<1>3. CASE m # 0
  <2>1. m - 1 \in Nat /\ m - 1 \notin B
    BY <1>1, <1>3
  <2>2. PICK f : Checks(f, st, s, now, m - 1)
    BY <2>1
  <2> DEFINE g == [k \in 0..m |-> IF k = 0 THEN st
                                  ELSE operandIssueCheck(f[k - 1], s[k].inst, now)]
  <2>3. ASSUME NEW k \in 0..m - 1 PROVE g[k] = f[k]
    <3>1. k \in 0..m
      BY <2>1
    <3>2. f[k] = IF k = 0 THEN st ELSE operandIssueCheck(f[k - 1], s[k].inst, now)
      BY <2>1, <2>2, ChecksAt
    <3> QED
      BY <3>1, <3>2
  <2>4. ASSUME NEW k \in 0..m, k # 0 PROVE g[k - 1] = f[k - 1]
    <3>1. k - 1 \in 0..m - 1
      BY <2>1, <2>4
    <3> QED
      BY <2>3, <3>1
  <2>5. Checks(g, st, s, now, m)
    BY <2>4 DEF Checks
  <2> QED
    BY <2>5
<1> QED
  BY <1>2, <1>3

\* The callbacks of s are of different instructions, none of them is in q yet, and all
\* have their sources.
AllDue(s, q, now) ==
    /\ \A k \in DOMAIN s : s[k].inst \notin Range(q)
    /\ \A j, k \in DOMAIN s : s[j].inst = s[k].inst => j = k
    /\ \A k \in DOMAIN s : \A g \in Files : ~Unready(s[k].inst, g, now)

\* The queue t is q with the instructions of the callbacks of s.
Joined(t, q, s) == /\ IsSequence(t) /\ Distinct(t)
                   /\ Range(t) = Range(q) \cup {s[k].inst : k \in DOMAIN s}

\* The state r after the checks of the callbacks of s.
AllChecked(r, q, c, e, s) ==
    \E t : r = Check(t, c, IF s = << >> THEN e ELSE TRUE) /\ Joined(t, q, s)

\* When all callbacks are due, every instruction joins the ready queue, once.
LEMMA ChecksFacts ==
    ASSUME NEW q, IsSequence(q), Distinct(q), NEW c, NEW e, NEW s, IsSequence(s), NEW now,
           NEW f, Checks(f, Check(q, c, e), s, now, Len(s)), AllDue(s, q, now)
    PROVE  AllChecked(f[Len(s)], q, c, e, s)
<1> USE DEF AllDue, Joined, AllChecked
<1> DEFINE n == Len(s)
<1>1. n \in Nat /\ DOMAIN s = 1..n /\ (s = << >> <=> n = 0)
  BY SeqIsSequence DEF IsSequence
<1> DEFINE Good(k, t) == /\ f[k] = Check(t, c, IF k = 0 THEN e ELSE TRUE)
                         /\ IsSequence(t) /\ Distinct(t)
                         /\ Range(t) = Range(q) \cup {s[j].inst : j \in 1..k}
           B == {k \in 0..n : ~ \E t : Good(k, t)}
<1>2. f[0] = Check(q, c, e)
  <2>1. 0 \in 0..n
    BY <1>1
  <2> QED
    BY <1>1, <2>1, ChecksAt
<1>3. ASSUME NEW k \in 1..n PROVE f[k] = operandIssueCheck(f[k - 1], s[k].inst, now)
  <2>1. k \in 0..n /\ k # 0
    BY <1>1
  <2> QED
    BY <1>1, <2>1, ChecksAt
<1>4. B = {}
  <2> SUFFICES ASSUME B # {} PROVE FALSE
    OBVIOUS
  <2>1. B \in SUBSET Nat
    <3>1. 0..n \subseteq Nat
      BY <1>1
    <3>2. B \subseteq 0..n
      BY Zenon
    <3> QED
      BY <3>1, <3>2, Zenon
  <2>2. PICK m \in B : \A k \in B : m <= k
    BY <2>1, LeastNumber
  <2>3. Good(0, q)
    <3>1. {s[j].inst : j \in 1..0} = {}
      OBVIOUS
    <3> QED
      BY <1>2, <3>1
  <2>4. m # 0
    BY <2>2, <2>3
  <2> DEFINE k == m - 1
  <2>5. k \in Nat /\ k \in 0..n /\ k + 1 = m /\ m \in 1..n /\ ~(m <= k)
    BY <1>1, <2>2, <2>4
  <2>6. PICK t : Good(k, t)
    BY <2>2, <2>5
  <2> DEFINE i == s[m].inst
             r == InsertReady(t, i)
  <2>7. \A j \in 1..m : j \in 1..k \/ j = m
    BY <2>5
  <2>7a. \A j \in 1..k : j \in 1..m /\ j # m /\ j \in DOMAIN s
    BY <1>1, <2>5
  <2>8. m \in DOMAIN s /\ m \in 1..m
    BY <1>1, <2>5
  <2>9. i \notin Range(t)
    <3>1. \A j \in 1..k : s[j].inst # i
      BY <2>7a, <2>8
    <3> QED
      BY <2>6, <2>8, <3>1
  <2>10. f[m] = operandIssueCheck(f[k], i, now)
    BY <1>3, <2>5
  <2> HIDE DEF k, i
  <2>11. IsSequence(r) /\ Distinct(r) /\ Range(r) = Range(t) \cup {i}
    BY <2>6, <2>9, InsertReadyFacts
  <2> DEFINE b == IF k = 0 THEN e ELSE TRUE
  <2>11a. f[k] = Check(t, c, b)
    BY <2>6
  <2> HIDE DEF b
  <2>12. operandIssueCheck(Check(t, c, b), i, now) = Check(r, c, TRUE)
    <3>1. \A g \in Files : ~Unready(i, g, now)
      BY <2>8 DEF i
    <3> QED
      BY <3>1, CheckReady
  <2>13. f[m] = Check(r, c, IF m = 0 THEN e ELSE TRUE)
    BY <2>4, <2>10, <2>11a, <2>12
  <2>14. Range(r) = Range(q) \cup {s[j].inst : j \in 1..m}
    <3>1. {s[j].inst : j \in 1..m} = {s[j].inst : j \in 1..k} \cup {i}
      BY <2>7, <2>7a, <2>8 DEF i
    <3>2. Range(t) = Range(q) \cup {s[j].inst : j \in 1..k}
      BY <2>6
    <3> QED
      BY <2>11, <3>1, <3>2
  <2> HIDE DEF r
  <2>15. Good(m, r)
    BY <2>11, <2>13, <2>14
  <2> QED
    BY <2>2, <2>15
<1>5. n \in 0..n
  BY <1>1
<1>6. PICK t : Good(n, t)
  BY <1>4, <1>5
<1> QED
  BY <1>1, <1>6

\* An instruction waits in one register file at a time.
LEMMA OneFileOnly ==
    ASSUME WaitsInOneFile, program \in Programs, NEW i, i.pid \in 1..Len(program),
           NEW R, 0 \in R, NEW f \in Files, NEW g \in Files, Unready(i, f, R), Unready(i, g, R)
    PROVE  f = g
<1>1. i.pid \in DOMAIN program
  BY ProgramAssumption, LenProperties
<1>2. ~(program[i.pid].srcs[f] \subseteq {0}) /\ ~(program[i.pid].srcs[g] \subseteq {0})
  BY DEF Unready, Srcs
<1> QED
  BY <1>1, <1>2, Zenon DEF WaitsInOneFile

\* The instructions of the queue are instructions of the program.
LEMMA QueuedPid ==
    ASSUME IInv, NEW i \in Range(issue_queue_)
    PROVE  i \in live /\ i \in InstType /\ i.pid \in 1..Len(program) /\ Here(i)
<1>1. i \in live /\ Here(i)
  BY ToSetIsRange DEF IInv, PlaceInv
<1>2. i \in InstType
  BY <1>1 DEF IInv, LiveInv
<1> QED
  BY <1>1, <1>2 DEF InstType

\* A callback is of an instruction of the queue and of the file that it waits for.
LEMMA CallbackIs ==
    ASSUME IInv, NEW c \in Range(callbacks)
    PROVE  /\ c.inst \in Range(issue_queue_) /\ c.file \in Files
           /\ Unready(c.inst, c.file, ready) /\ c = [inst |-> c.inst, file |-> c.file]
<1>1. PICK i \in Range(issue_queue_), f \in Files :
          Unready(i, f, ready) /\ c = [inst |-> i, file |-> f]
  BY ToSetIsRange DEF IInv, QueueInv
<1> QED
  BY <1>1

\* QueueInv for given registers: the instructions that wait and the ones that are ready.
ReadyOnes(R) == {i \in Range(issue_queue_) : \A f \in Files : ~Unready(i, f, R)}

Waiting(R) == UNION {{[inst |-> i, file |-> f] : f \in {g \in Files : Unready(i, g, R)}} :
                       i \in Range(issue_queue_)}

\* setReady moves the instructions that got their last source to the ready queue, each
\* once, and keeps the other callbacks.
LEMMA SetReadyFacts ==
    ASSUME WaitsInOneFile, IInv, NEW reg, setReady(reg)
    PROVE  /\ ready' = ready \cup {reg} /\ issue_queue_' = issue_queue_
           /\ IsSequence(ready_queue_') /\ Distinct(ready_queue_')
           /\ IsSequence(callbacks') /\ Distinct(callbacks')
           /\ Range(ready_queue_') = ReadyOnes(ready \cup {reg})
           /\ Range(callbacks') = {c \in Range(callbacks) : Unready(c.inst, c.file, ready \cup {reg})}
           /\ ev_issue_ready_inst_' \in BOOLEAN /\ (ev_issue_ready_inst_ => ev_issue_ready_inst_')
           /\ ev_issue_ready_inst_' \/ ready_queue_' = ready_queue_
<1> DEFINE now == ready \cup {reg}
           fires == {k \in DOMAIN callbacks : ~Unready(callbacks[k].inst, callbacks[k].file, now)}
           rest == DOMAIN callbacks \ fires
           fired == ElementsAt(callbacks, fires)
           kept == ElementsAt(callbacks, rest)
           n == Len(fired)
           e == ev_issue_ready_inst_
           f == CHOOSE g : Checks(g, CheckState(kept), fired, now, n)
<1>1. /\ ready' = now /\ issue_queue_' = issue_queue_ /\ Checked(f[n])
  BY Zenon DEF setReady, Checks
<1>2. /\ IsSequence(callbacks) /\ Distinct(callbacks)
      /\ IsSequence(ready_queue_) /\ Distinct(ready_queue_) /\ DOMAIN callbacks = 1..Len(callbacks)
      /\ Range(ready_queue_) = ReadyOnes(ready)
      /\ program \in Programs /\ 0 \in ready /\ e \in BOOLEAN
  <2>1. DOMAIN callbacks = 1..Len(callbacks)
    BY SeqIsSequence DEF IsSequence, IInv, QueueInv
  <2>2. Range(ready_queue_) = ReadyOnes(ready)
    BY ToSetIsRange DEF ReadyOnes, IInv, QueueInv
  <2> QED
    BY <2>1, <2>2 DEF IInv, QueueInv, StateInv
<1>3. fires \in SUBSET (1..Len(callbacks)) /\ rest \in SUBSET (1..Len(callbacks))
  BY <1>2
<1>4. Range(callbacks) = {callbacks[k] : k \in DOMAIN callbacks}
  BY DEF Range
<1>5. {callbacks[k] : k \in rest} = {c \in Range(callbacks) : Unready(c.inst, c.file, now)}
  BY <1>4
<1>6. {callbacks[k] : k \in fires} = {c \in Range(callbacks) : ~Unready(c.inst, c.file, now)}
  BY <1>4
<1> HIDE DEF fires, rest
<1>7. IsSequence(kept) /\ Distinct(kept) /\ Range(kept) = {callbacks[k] : k \in rest}
  BY <1>2, <1>3, ElementsAtFacts
<1>8. IsSequence(fired) /\ Distinct(fired) /\ Range(fired) = {callbacks[k] : k \in fires}
  BY <1>2, <1>3, ElementsAtFacts
<1> HIDE DEF kept, fired
<1>9. n \in Nat /\ DOMAIN fired = 1..n
  BY <1>8, SeqIsSequence DEF IsSequence
<1>10. CheckState(kept) = Check(ready_queue_, kept, e)
  BY DEF CheckState, Check
<1>11. Checks(f, Check(ready_queue_, kept, e), fired, now, n)
  <2>1. \E g : Checks(g, CheckState(kept), fired, now, n)
    BY <1>9, ChecksExists
  <2>2. Checks(f, CheckState(kept), fired, now, n)
    BY <2>1, Zenon
  <2> QED
    BY <1>10, <2>2
<1> HIDE DEF f, n
<1>12. ASSUME NEW c \in Range(fired)
       PROVE  /\ c.inst \in Range(issue_queue_) /\ c.file \in Files
              /\ Unready(c.inst, c.file, ready) /\ c = [inst |-> c.inst, file |-> c.file]
              /\ \A g \in Files : ~Unready(c.inst, g, now)
              /\ \A d \in Range(fired) : d.inst = c.inst => d = c
  <2>1. c \in Range(callbacks) /\ ~Unready(c.inst, c.file, now)
    BY <1>6, <1>8
  <2>2. /\ c.inst \in Range(issue_queue_) /\ c.file \in Files
        /\ Unready(c.inst, c.file, ready) /\ c = [inst |-> c.inst, file |-> c.file]
    BY <2>1, CallbackIs
  <2>3. c.inst.pid \in 1..Len(program)
    BY <2>2, QueuedPid
  <2>4. ASSUME NEW g \in Files PROVE ~Unready(c.inst, g, now)
    <3> SUFFICES ASSUME Unready(c.inst, g, now) PROVE FALSE
      OBVIOUS
    <3>1. Unready(c.inst, g, ready)
      BY DEF Unready
    <3>2. g = c.file
      BY <1>2, <2>2, <2>3, <3>1, OneFileOnly
    <3> QED
      BY <2>1, <3>2
  <2>5. ASSUME NEW d \in Range(fired), d.inst = c.inst PROVE d = c
    <3>1. d \in Range(callbacks)
      BY <1>6, <1>8
    <3>2. d.file \in Files /\ Unready(d.inst, d.file, ready) /\ d = [inst |-> d.inst, file |-> d.file]
      BY <3>1, CallbackIs
    <3>3. d.file = c.file
      BY <1>2, <2>2, <2>3, <2>5, <3>2, OneFileOnly
    <3> QED
      BY <2>2, <2>5, <3>2, <3>3
  <2> QED
    BY <2>2, <2>4, <2>5
<1>13. \A k \in DOMAIN fired : fired[k] \in Range(fired)
  BY DEF Range
<1>14. \A k \in DOMAIN fired : fired[k].inst \notin Range(ready_queue_)
  BY <1>2, <1>12, <1>13 DEF ReadyOnes
<1>15. \A j, k \in DOMAIN fired : fired[j].inst = fired[k].inst => j = k
  BY <1>8, <1>12, <1>13 DEF Distinct
<1>16. \A k \in DOMAIN fired : \A g \in Files : ~Unready(fired[k].inst, g, now)
  BY <1>12, <1>13
<1>17. PICK t : /\ f[Len(fired)] = Check(t, kept, IF fired = << >> THEN e ELSE TRUE)
                /\ Joined(t, ready_queue_, fired)
  <2>1. Checks(f, Check(ready_queue_, kept, e), fired, now, Len(fired))
    BY <1>11 DEF n
  <2>2. AllDue(fired, ready_queue_, now)
    BY <1>14, <1>15, <1>16 DEF AllDue
  <2> HIDE DEF now, e
  <2>3. AllChecked(f[Len(fired)], ready_queue_, kept, e, fired)
    BY <1>2, <1>8, <2>1, <2>2, ChecksFacts
  <2> QED
    BY <2>3 DEF AllChecked
<1>17a. /\ IsSequence(t) /\ Distinct(t)
        /\ Range(t) = Range(ready_queue_) \cup {fired[k].inst : k \in DOMAIN fired}
  BY <1>17 DEF Joined
<1>18. /\ ready_queue_' = t /\ callbacks' = kept
       /\ ev_issue_ready_inst_' = (IF fired = << >> THEN e ELSE TRUE)
  BY <1>1, <1>17 DEF n, Checked, Check
<1>19. {fired[k].inst : k \in DOMAIN fired} = {c.inst : c \in Range(fired)}
  BY DEF Range
<1>20. Range(t) = ReadyOnes(now)
  <2>1. ASSUME NEW i \in Range(t) PROVE i \in ReadyOnes(now)
    <3>1. CASE i \in Range(ready_queue_)
      BY <1>2, <3>1 DEF ReadyOnes, Unready
    <3>2. CASE i \in {c.inst : c \in Range(fired)}
      BY <1>12, <3>2 DEF ReadyOnes
    <3> QED
      BY <1>17a, <1>19, <2>1, <3>1, <3>2
  <2>2. ASSUME NEW i \in ReadyOnes(now) PROVE i \in Range(t)
    <3>1. i \in Range(issue_queue_) /\ \A g \in Files : ~Unready(i, g, now)
      BY DEF ReadyOnes
    <3>2. CASE \A g \in Files : ~Unready(i, g, ready)
      BY <1>2, <1>17a, <3>1, <3>2 DEF ReadyOnes
    <3>3. CASE \E g \in Files : Unready(i, g, ready)
      <4>1. PICK g \in Files : Unready(i, g, ready)
        BY <3>3
      <4> DEFINE c == [inst |-> i, file |-> g]
      <4>2. c \in Range(callbacks)
        BY <3>1, <4>1, ToSetIsRange DEF IInv, QueueInv
      <4>3. c.inst = i /\ c.file = g
        OBVIOUS
      <4> HIDE DEF c
      <4>4. c \in Range(fired)
        BY <1>6, <1>8, <3>1, <4>2, <4>3
      <4> QED
        BY <1>17a, <1>19, <4>3, <4>4
    <3> QED
      BY <3>2, <3>3
  <2> QED
    BY <2>1, <2>2
<1>22. fired = << >> => f[n] = CheckState(kept)
  <2> SUFFICES ASSUME fired = << >> PROVE f[n] = CheckState(kept)
    OBVIOUS
  <2>1. n = 0
    BY EmptyIsSequence DEF n
  <2>2. 0 \in 0..0 /\ 0 \in Nat
    OBVIOUS
  <2> DEFINE st == Check(ready_queue_, kept, e)
  <2>3. Checks(f, st, fired, now, 0)
    BY <1>11, <2>1
  <2> HIDE DEF st
  <2>4. f[0] = st
    BY <2>2, <2>3, ChecksAt
  <2> QED
    BY <1>10, <2>1, <2>4 DEF st
<1>23. ev_issue_ready_inst_' \/ ready_queue_' = ready_queue_
  <2>1. CASE fired = << >>
    <3>1. ready_queue_' = CheckState(kept).queue
      BY <1>1, <1>22, <2>1 DEF Checked
    <3> QED
      BY <3>1 DEF CheckState
  <2>2. CASE fired # << >>
    BY <1>18, <2>2
  <2> QED
    BY <2>1, <2>2
<1> QED
  BY <1>1, <1>2, <1>5, <1>7, <1>17a, <1>18, <1>20, <1>23

-----------------------------------------------------------------------------
(* The loop of sendReadyInsts over the ready queue.                        *)

\* The state of the loop: the pipes, the instructions left and the ones sent.
Offered(pp, l, s) == [pipe |-> pp, left |-> l, sent |-> s]

PipesOf(i) == PipeMapping[program[i.pid].target]

\* An instruction of this unit has pipes.
LEMMA PipesOfFacts ==
    ASSUME program \in Programs, NEW i, i.pid \in 1..Len(program), Here(i)
    PROVE  /\ DOMAIN PipesOf(i) \subseteq Nat /\ 1 \in DOMAIN PipesOf(i)
           /\ \A k \in DOMAIN PipesOf(i) : PipesOf(i)[k] \in Pipes
<1>1. program[i.pid].target \in DOMAIN PipeMapping
  <2>1. program[i.pid] \in [target : DOMAIN PipeMapping \cup {"other"},
                            srcs : [Files -> SUBSET Nat], branch : BOOLEAN, time : Nat \ {0},
                            vlmax : Nat, lmul : Nat \ {0}, vl : Nat, uop : Nat]
    BY ProgramAssumption, ElementOfSeq
  <2>2. program[i.pid].target \in DOMAIN PipeMapping \cup {"other"}
    BY <2>1
  <2> QED
    BY <2>2 DEF Here
<1>2. PipesOf(i) \in Seq(Pipes) \ {<< >>}
  BY <1>1, IssueQueueAssumption DEF PipesOf
<1> DEFINE s == PipesOf(i)
<1> HIDE DEF s
<1>3. s \in Seq(Pipes) /\ s # << >>
  BY <1>2 DEF s
<1>4. \A k \in DOMAIN s : s[k] \in Pipes
  BY <1>3, LenProperties, ElementOfSeq
<1>5. DOMAIN s \subseteq Nat
  BY <1>3, LenProperties
<1>6. 1 \in DOMAIN s
  BY <1>3, SeqFacts
<1> QED
  BY <1>4, <1>5, <1>6 DEF s

\* What an instruction enters a pipe with has its type.
LEMMA EntryType ==
    ASSUME program \in Programs, NEW i \in InstType, NEW n \in Nat
    PROVE  Entry(i, n) \in EventType
<1>1. i.pid \in 1..Len(program)
  BY DEF InstType
<1>2. program[i.pid] \in [target : DOMAIN PipeMapping \cup {"other"},
                          srcs : [Files -> SUBSET Nat], branch : BOOLEAN, time : Nat \ {0},
                          vlmax : Nat, lmul : Nat \ {0}, vl : Nat, uop : Nat]
  BY <1>1, ProgramAssumption, ElementOfSeq
<1>3. program[i.pid].time \in Nat
  BY <1>2
<1> QED
  BY <1>3 DEF Entry, EventType

\* A pipe that an instruction enters has its type.
LEMMA InsertInstType ==
    ASSUME program \in Programs, NEW p \in PipeType, NEW i \in InstType, NEW n \in Nat
    PROVE  insertInst(p, i, n) \in PipeType
<1> DEFINE r == insertInst(p, i, n)
<1>1. i.pid \in 1..Len(program)
  BY DEF InstType
<1>2. NumPasses(i) \in Int
  BY <1>1, NumPassesInt
<1>3. p.num_passes_needed_ \in Nat /\ p.curr_num_pass_ \in Nat /\ p.execute \subseteq EventType
  BY DEF PipeType
<1>4. Entry(i, n) \in EventType
  BY EntryType
<1>5. /\ r.num_passes_needed_ = IF Multi(p, i) THEN NumPasses(i) ELSE p.num_passes_needed_
      /\ r.curr_num_pass_ = IF Multi(p, i) THEN 1
                            ELSE IF isVInt(i) /\ ~FirstPass(p) THEN p.curr_num_pass_ + 1
                            ELSE p.curr_num_pass_
      /\ r.execute = p.execute \cup {Entry(i, n)}
      /\ /\ r.num_passes_needed_ \in Nat /\ r.curr_num_pass_ \in Nat
         /\ r.execute \subseteq EventType
         => r \in PipeType
  <2>1. Inserted(r, p, i, n)
    BY InsertInstFacts
  <2> HIDE DEF r
  <2> QED
    BY <2>1, Zenon DEF Inserted
<1> HIDE DEF r
<1>6. r.num_passes_needed_ \in Nat
  BY <1>2, <1>3, <1>5 DEF Multi
<1>7. r.curr_num_pass_ \in Nat
  BY <1>3, <1>5
<1>8. r.execute \subseteq EventType
  BY <1>3, <1>4, <1>5
<1> QED
  BY <1>5, <1>6, <1>7, <1>8 DEF r

\* The pipes pp: each instruction of s is in a pipe of its own that was not busy, the
\* other pipes are as they were.
Taken(pp, at, s) ==
    /\ pp \in [Pipes -> PipeType] /\ at \in [s -> Pipes] /\ s \subseteq InstType
    /\ \A i \in s : ~pipe[at[i]].unit_busy_ /\ pp[at[i]] = insertInst(pipe[at[i]], i, 0)
    /\ \A i, j \in s : at[i] = at[j] => i = j
    /\ \A p \in Pipes : (\A i \in s : at[i] # p) => pp[p] = pipe[p]

\* A pipe that took an instruction is busy.
LEMMA TakenBusy ==
    ASSUME NEW pp, NEW at, NEW s, Taken(pp, at, s), pipe \in [Pipes -> PipeType], NEW i \in s
    PROVE  pp[at[i]].unit_busy_ = TRUE
<1>1. at[i] \in Pipes /\ pp[at[i]] = insertInst(pipe[at[i]], i, 0)
  BY DEF Taken
<1>2. pipe[at[i]] \in PipeType
  BY <1>1
<1> DEFINE x == pipe[at[i]]
<1> HIDE DEF x
<1>3. x \in PipeType
  BY <1>2 DEF x
<1>4. insertInst(x, i, 0).unit_busy_ = TRUE
  BY <1>3, InsertInstFacts DEF Inserted
<1> QED
  BY <1>1, <1>4 DEF x

\* One more instruction goes to a pipe that is not busy.
LEMMA TakeOne ==
    ASSUME program \in Programs, pipe \in [Pipes -> PipeType],
           NEW pp, NEW at, NEW s, Taken(pp, at, s), NEW i \in InstType, i \notin s,
           NEW p \in Pipes, ~pp[p].unit_busy_
    PROVE  \E a : Taken([pp EXCEPT ![p] = insertInst(@, i, 0)], a, s \cup {i})
<1> DEFINE a == [j \in s \cup {i} |-> IF j = i THEN p ELSE at[j]]
           x == insertInst(pp[p], i, 0)
           r == [pp EXCEPT ![p] = x]
<1>1. \A j \in s : at[j] # p
  BY TakenBusy
<1>2. pp[p] = pipe[p]
  BY <1>1 DEF Taken
<1>3. pp \in [Pipes -> PipeType] /\ at \in [s -> Pipes]
  BY DEF Taken
<1>4. x \in PipeType
  BY <1>3, InsertInstType
<1>5. x = insertInst(pipe[p], i, 0)
  BY <1>2
<1> HIDE DEF x
<1>6. r \in [Pipes -> PipeType] /\ r[p] = x /\ \A q \in Pipes : q # p => r[q] = pp[q]
  BY <1>3, <1>4
<1>7. a \in [s \cup {i} -> Pipes] /\ a[i] = p /\ \A j \in s : a[j] = at[j]
  BY <1>3
<1> HIDE DEF r, a
<1>8. ASSUME NEW j \in s \cup {i}
      PROVE  ~pipe[a[j]].unit_busy_ /\ r[a[j]] = insertInst(pipe[a[j]], j, 0)
  <2>1. CASE j = i
    BY <1>2, <1>5, <1>6, <1>7, <2>1
  <2>2. CASE j \in s
    <3>1. a[j] = at[j] /\ at[j] \in Pipes /\ at[j] # p
      BY <1>1, <1>3, <1>7, <2>2
    <3>2. ~pipe[at[j]].unit_busy_ /\ pp[at[j]] = insertInst(pipe[at[j]], j, 0)
      BY <2>2 DEF Taken
    <3> QED
      BY <1>6, <3>1, <3>2
  <2> QED
    BY <2>1, <2>2
<1>9. \A j, k \in s \cup {i} : a[j] = a[k] => j = k
  BY <1>1, <1>7 DEF Taken
<1>10. ASSUME NEW q \in Pipes, \A j \in s \cup {i} : a[j] # q PROVE r[q] = pipe[q]
  <2>1. q # p /\ \A j \in s : at[j] # q
    BY <1>7, <1>10
  <2> QED
    BY <1>6, <2>1 DEF Taken
<1>11. s \cup {i} \subseteq InstType
  BY DEF Taken
<1>12. Taken(r, a, s \cup {i})
  BY <1>6, <1>7, <1>8, <1>9, <1>10, <1>11 DEF Taken
<1> QED
  BY <1>12 DEF r, x

\* f is the state of the loop over the queue q, up to each of its instructions from 0 to n.
Offers(f, st, q, n) == f = [k \in 0..n |-> IF k = 0 THEN st ELSE offer(f[k - 1], q[k])]

\* The state after the k-th instruction.
LEMMA OffersAt ==
    ASSUME NEW f, NEW st, NEW q, NEW n \in Nat, Offers(f, st, q, n), NEW k \in 0..n
    PROVE  f[k] = IF k = 0 THEN st ELSE offer(f[k - 1], q[k])
<1> DEFINE h(j) == IF j = 0 THEN st ELSE offer(f[j - 1], q[j])
<1>1. f = [j \in 0..n |-> h(j)]
  BY DEF Offers
<1> HIDE DEF h
<1>2. f[k] = h(k)
  BY <1>1
<1> QED
  BY <1>2 DEF h

\* The recursion has a solution.
LEMMA OffersExists ==
    ASSUME NEW st, NEW q, NEW n \in Nat
    PROVE  \E f : Offers(f, st, q, n)
<1> DEFINE B == {m \in Nat : ~ \E f : Offers(f, st, q, m)}
<1> SUFFICES B = {}
  OBVIOUS
<1> SUFFICES ASSUME B # {} PROVE FALSE
  OBVIOUS
<1>1. PICK m \in B : \A k \in B : m <= k
  BY LeastNumber, B \in SUBSET Nat
<1>2. CASE m = 0
  <2> DEFINE f == [k \in 0..0 |-> st]
  <2>1. Offers(f, st, q, 0)
    BY DEF Offers
  <2> QED
    BY <1>2, <2>1
<1>3. CASE m # 0
  <2>1. m - 1 \in Nat /\ m - 1 \notin B
    BY <1>1, <1>3
  <2>2. PICK f : Offers(f, st, q, m - 1)
    BY <2>1
  <2> DEFINE g == [k \in 0..m |-> IF k = 0 THEN st ELSE offer(f[k - 1], q[k])]
  <2>3. ASSUME NEW k \in 0..m - 1 PROVE g[k] = f[k]
    <3>1. k \in 0..m
      BY <2>1
    <3>2. f[k] = IF k = 0 THEN st ELSE offer(f[k - 1], q[k])
      BY <2>1, <2>2, OffersAt
    <3> QED
      BY <3>1, <3>2
  <2>4. ASSUME NEW k \in 0..m, k # 0 PROVE g[k - 1] = f[k - 1]
    <3>1. k - 1 \in 0..m - 1
      BY <2>1, <2>4
    <3> QED
      BY <2>3, <3>1
  <2>5. Offers(g, st, q, m)
    BY <2>4 DEF Offers
  <2> QED
    BY <2>5
<1> QED
  BY <1>2, <1>3

\* Every pipe of i is busy.
Refused(pp, i) ==
    \A k \in DOMAIN PipesOf(i) : PipesOf(i)[k] \in Pipes /\ pp[PipesOf(i)[k]].unit_busy_

\* The instruction i is refused and left, or goes to a pipe.
OneOffered(r, pp, l, s, i) ==
    \/ Refused(pp, i) /\ r = Offered(pp, Append(l, i), s)
    \/ \E p \in Pipes : /\ ~pp[p].unit_busy_
                        /\ r = Offered([pp EXCEPT ![p] = insertInst(@, i, 0)], l, s \cup {i})

\* An instruction is left when its pipes are all busy, or goes to the first that is not.
LEMMA OfferFacts ==
    ASSUME NEW pp, NEW l, NEW s, NEW i,
           DOMAIN PipesOf(i) \subseteq Nat, pp \in [Pipes -> PipeType],
           \A k \in DOMAIN PipesOf(i) : PipesOf(i)[k] \in Pipes
    PROVE  OneOffered(offer(Offered(pp, l, s), i), pp, l, s, i)
<1> DEFINE st == Offered(pp, l, s)
           free == {k \in DOMAIN PipesOf(i) : ~st.pipe[PipesOf(i)[k]].unit_busy_}
<1>1. st.pipe = pp /\ st.left = l /\ st.sent = s
  BY DEF Offered
<1>2. CASE free = {}
  <2>1. Refused(pp, i)
    BY <1>1, <1>2 DEF Refused
  <2>2. offer(st, i) = [st EXCEPT !.left = Append(@, i)]
    BY <1>2 DEF offer, PipesOf
  <2> DEFINE a == Append(l, i)
  <2>3. offer(st, i) = [st EXCEPT !.left = a]
    BY <1>1, <2>2
  <2> HIDE DEF a
  <2>4. [st EXCEPT !.left = a] = Offered(pp, a, s)
    BY DEF Offered
  <2> QED
    BY <2>1, <2>3, <2>4 DEF a, OneOffered
<1>3. CASE free # {}
  <2> DEFINE k == Min(free)
             p == PipesOf(i)[k]
  <2>1. k \in free
    <3>1. free \in SUBSET Nat
      OBVIOUS
    <3>2. \E x \in free : \A y \in free : x =< y
      BY <1>3, <3>1, LeastNumber
    <3> QED
      BY <3>2 DEF Min
  <2>2. p \in Pipes /\ ~pp[p].unit_busy_
    BY <1>1, <2>1
  <2>3. offer(st, i) = [pipe |-> [st.pipe EXCEPT ![p] = insertInst(@, i, 0)], left |-> st.left,
                        sent |-> st.sent \cup {i}]
    BY <1>3, Zenon DEF offer, PipesOf
  <2> HIDE DEF p, k, st
  <2>6. offer(st, i) = Offered([pp EXCEPT ![p] = insertInst(@, i, 0)], l, s \cup {i})
    BY <1>1, <2>3, Zenon DEF Offered
  <2> QED
    BY <2>2, <2>6, Zenon DEF st, OneOffered
<1> QED
  BY <1>2, <1>3

\* The instructions s of Q went to pipes of their own, the ones of l are left because
\* their pipes are busy.
Served(pp, at, s, l, Q) ==
    /\ Taken(pp, at, s) /\ s \subseteq Q
    /\ IsSequence(l) /\ Distinct(l) /\ Range(l) = Q \ s
    /\ \A i \in Range(l) : Refused(pp, i)

\* A state r of the loop in which the instructions Q have been served.
ServedState(r, Q) == \E pp, at, s, l : r = Offered(pp, l, s) /\ Served(pp, at, s, l, Q)

\* Once a pipe is busy it refuses until the loop ends.
LEMMA RefusedStays ==
    ASSUME NEW pp, pp \in [Pipes -> PipeType], NEW p \in Pipes, NEW x, NEW i, Refused(pp, i),
           ~pp[p].unit_busy_
    PROVE  Refused([pp EXCEPT ![p] = x], i)
<1> SUFFICES ASSUME NEW k \in DOMAIN PipesOf(i)
             PROVE  /\ PipesOf(i)[k] \in Pipes
                    /\ [pp EXCEPT ![p] = x][PipesOf(i)[k]].unit_busy_
  BY DEF Refused
<1> DEFINE q == PipesOf(i)[k]
<1>1. q \in Pipes /\ pp[q].unit_busy_
  BY DEF Refused
<1> HIDE DEF q
<1>2. q # p
  BY <1>1
<1>3. [pp EXCEPT ![p] = x][q] = pp[q]
  BY <1>1, <1>2
<1> QED
  BY <1>1, <1>3 DEF q

\* One round of the loop serves one more instruction.
LEMMA ServeOne ==
    ASSUME program \in Programs, pipe \in [Pipes -> PipeType],
           NEW st, NEW Q, ServedState(st, Q), NEW i \in InstType, i \notin Q, Here(i)
    PROVE  ServedState(offer(st, i), Q \cup {i})
<1>1. PICK pp, at, s, l : st = Offered(pp, l, s) /\ Served(pp, at, s, l, Q)
  BY DEF ServedState
<1>2. /\ Taken(pp, at, s) /\ s \subseteq Q /\ IsSequence(l) /\ Distinct(l) /\ Range(l) = Q \ s
      /\ pp \in [Pipes -> PipeType] /\ i \notin s
  BY <1>1 DEF Served, Taken
<1>2a. i.pid \in 1..Len(program)
  BY DEF InstType
<1>3. \A k \in DOMAIN PipesOf(i) : PipesOf(i)[k] \in Pipes
  BY <1>2a, PipesOfFacts
<1>4. DOMAIN PipesOf(i) \subseteq Nat
  BY <1>2a, PipesOfFacts
<1> DEFINE r == offer(st, i)
<1>5. OneOffered(r, pp, l, s, i)
  <2>1. OneOffered(offer(Offered(pp, l, s), i), pp, l, s, i)
    BY <1>2, <1>3, <1>4, OfferFacts
  <2> QED
    BY <1>1, <2>1
<1> HIDE DEF r
<1>6. CASE Refused(pp, i) /\ r = Offered(pp, Append(l, i), s)
  <2> DEFINE m == Append(l, i)
  <2>1. IsSequence(m) /\ Range(m) = Range(l) \cup {i} /\ Distinct(m)
    BY <1>2, AppendIsSequence
  <2>2. r = Offered(pp, m, s)
    BY <1>6
  <2> HIDE DEF m
  <2>3. Range(m) = (Q \cup {i}) \ s
    BY <1>2, <2>1
  <2>4. \A j \in Range(m) : Refused(pp, j)
    BY <1>1, <1>6, <2>1 DEF Served
  <2>5. Served(pp, at, s, m, Q \cup {i})
    BY <1>2, <2>1, <2>3, <2>4 DEF Served
  <2> QED
    BY <2>2, <2>5, Zenon DEF ServedState, r
<1>7. CASE \E p \in Pipes : /\ ~pp[p].unit_busy_
                            /\ r = Offered([pp EXCEPT ![p] = insertInst(@, i, 0)], l, s \cup {i})
  <2>1. PICK p \in Pipes : /\ ~pp[p].unit_busy_
                           /\ r = Offered([pp EXCEPT ![p] = insertInst(@, i, 0)], l, s \cup {i})
    BY <1>7
  <2> DEFINE g == [pp EXCEPT ![p] = insertInst(@, i, 0)]
             t == s \cup {i}
  <2>2. PICK a : Taken(g, a, t)
    BY <1>2, <2>1, TakeOne
  <2>3. ASSUME NEW j \in Range(l) PROVE Refused(g, j)
    <3>1. Refused(pp, j)
      BY <1>1 DEF Served
    <3> QED
      BY <1>2, <2>1, <3>1, RefusedStays
  <2>4. t \subseteq Q \cup {i} /\ Range(l) = (Q \cup {i}) \ t
    BY <1>2
  <2>5. r = Offered(g, l, t)
    BY <2>1
  <2> HIDE DEF g, t
  <2>6. Served(g, a, t, l, Q \cup {i})
    BY <1>2, <2>2, <2>3, <2>4 DEF Served
  <2> QED
    BY <2>5, <2>6, Zenon DEF ServedState, r
<1> QED
  BY <1>5, <1>6, <1>7 DEF OneOffered, r

\* The loop serves the whole queue.
LEMMA OffersFacts ==
    ASSUME program \in Programs, pipe \in [Pipes -> PipeType],
           NEW q, IsSequence(q), Distinct(q), \A k \in DOMAIN q : q[k] \in InstType /\ Here(q[k]),
           NEW f, Offers(f, Offered(pipe, << >>, {}), q, Len(q))
    PROVE  ServedState(f[Len(q)], Range(q))
<1> DEFINE n == Len(q)
           First(k) == {q[j] : j \in 1..k}
           Good(k) == ServedState(f[k], First(k))
           B == {k \in 0..n : ~Good(k)}
<1>1. n \in Nat /\ DOMAIN q = 1..n
  BY SeqIsSequence DEF IsSequence
<1>2. Good(0)
  <2>1. 0 \in 0..n
    BY <1>1
  <2>2. f[0] = Offered(pipe, << >>, {})
    BY <1>1, <2>1, OffersAt
  <2>3. First(0) = {}
    OBVIOUS
  <2> HIDE DEF First
  <2> DEFINE at == [x \in {} |-> x]
  <2>4. at \in [{} -> Pipes]
    OBVIOUS
  <2> HIDE DEF at
  <2>5. Taken(pipe, at, {})
    BY <2>4 DEF Taken
  <2>6. Served(pipe, at, {}, << >>, {})
    BY <2>5, EmptyIsSequence DEF Served
  <2> QED
    BY <2>2, <2>3, <2>6 DEF ServedState
<1>3. ASSUME NEW k \in Nat, k + 1 \in 1..n, Good(k) PROVE Good(k + 1)
  <2> DEFINE i == q[k + 1]
  <2>1. f[k + 1] = offer(f[k], i)
    <3>1. k + 1 \in 0..n /\ k + 1 # 0 /\ (k + 1) - 1 = k
      BY <1>1, <1>3
    <3>2. f[k + 1] = IF k + 1 = 0 THEN Offered(pipe, << >>, {}) ELSE offer(f[(k + 1) - 1], q[k + 1])
      BY <1>1, <3>1, OffersAt
    <3> QED
      BY <3>1, <3>2
  <2>2. First(k + 1) = First(k) \cup {i}
    <3>1. \A j : j \in 1..k + 1 <=> j \in 1..k \/ j = k + 1
      BY <1>3
    <3> QED
      BY <3>1
  <2>3. k + 1 \in DOMAIN q /\ \A j \in 1..k : j \in DOMAIN q /\ j # k + 1
    BY <1>1, <1>3
  <2>4. i \notin First(k) /\ i \in InstType /\ Here(i)
    BY <2>3 DEF Distinct
  <2> HIDE DEF First, i
  <2>5. ServedState(offer(f[k], i), First(k) \cup {i})
    BY <1>3, <2>4, ServeOne
  <2> QED
    BY <2>1, <2>2, <2>5
<1> HIDE DEF Good
<1>4. B = {}
  <2> SUFFICES ASSUME B # {} PROVE FALSE
    OBVIOUS
  <2>1. B \in SUBSET Nat
    BY <1>1
  <2>2. PICK m \in B : \A k \in B : m <= k
    BY <2>1, LeastNumber
  <2>3. m # 0
    BY <1>2, <2>2
  <2> DEFINE k == m - 1
  <2>4. k \in Nat /\ k \in 0..n /\ k + 1 = m /\ m \in 1..n /\ ~(m <= k)
    BY <1>1, <2>2, <2>3
  <2>5. Good(k)
    BY <2>2, <2>4
  <2> HIDE DEF k
  <2>6. Good(k + 1)
    BY <1>3, <2>4, <2>5
  <2> QED
    BY <2>2, <2>4, <2>6
<1>5. Good(n)
  BY <1>1, <1>4
<1>6. First(n) = Range(q)
  BY <1>1 DEF Range
<1> QED
  BY <1>5, <1>6 DEF Good

-----------------------------------------------------------------------------
(* Steps that leave a part of the invariant alone.                         *)

\* The queues are as they were.
LEMMA QueueFrame ==
    ASSUME QueueInv,
           UNCHANGED <<program, issue_queue_, ready_queue_, callbacks, ready>>
    PROVE  QueueInv'
<1>1. \A i, f : Unready(i, f, ready)' <=> Unready(i, f, ready)
  BY DEF Unready, Srcs
<1> QED
  BY <1>1 DEF QueueInv

\* Events are replaced: none is lost and none is new.
LEMMA WakeFrame ==
    ASSUME WakeInv, UNCHANGED <<program, ready_queue_>>,
           ev_issue_ready_inst_ => ev_issue_ready_inst_',
           \A p \in Pipes : Events(pipe[p]) # {} => Events(pipe'[p]) # {},
           StateInv, PlaceInv, LiveInv, QueueInv
    PROVE  WakeInv'
<1> SUFFICES ASSUME NEW i \in ToSet(ready_queue_), ~ev_issue_ready_inst_'
             PROVE  \E k \in DOMAIN PipesOf(i) : Events(pipe'[PipesOf(i)[k]]) # {}
  BY DEF WakeInv, PipesOf
<1>1. PICK k \in DOMAIN PipesOf(i) : Events(pipe[PipesOf(i)[k]]) # {}
  BY DEF WakeInv, PipesOf
<1>2. i \in live /\ Here(i)
  BY DEF QueueInv, PlaceInv
<1>3. i.pid \in 1..Len(program)
  BY <1>2 DEF LiveInv, InstType
<1>4. PipesOf(i)[k] \in Pipes
  BY <1>2, <1>3, PipesOfFacts DEF StateInv
<1> QED
  BY <1>1, <1>4

\* One event of one pipe is replaced by another one of the same instruction.
LEMMA SwapEvent ==
    ASSUME PlaceInv, pipe \in [Pipes -> PipeType], NEW p \in Pipes, NEW e \in Events(pipe[p]),
           NEW d, d.inst = e.inst, NEW r, pipe' = [pipe EXCEPT ![p] = r],
           Events(r) = (Events(pipe[p]) \ {e}) \cup {d},
           UNCHANGED <<live, issue_queue_, program>>
    PROVE  PlaceInv'
<1>1. pipe'[p] = r /\ \A q \in Pipes : q # p => pipe'[q] = pipe[q]
  OBVIOUS
<1> DEFINE old(q, x) == IF q = p /\ x = d THEN e ELSE x
<1>2. ASSUME NEW q \in Pipes, NEW x \in Events(pipe'[q])
      PROVE  /\ old(q, x) \in Events(pipe[q]) /\ old(q, x).inst = x.inst
             /\ q = p /\ old(q, x) = e => x = d
  <2>1. CASE q = p
    BY <1>1, <1>2, <2>1
  <2>2. CASE q # p
    BY <1>1, <1>2, <2>2
  <2> QED
    BY <2>1, <2>2
<1>3. \A i : Here(i)' <=> Here(i)
  BY DEF Here
<1>4. \A i \in ToSet(issue_queue_') : i \in live' /\ Here(i)'
  BY <1>3 DEF PlaceInv
<1>5. ASSUME NEW q \in Pipes, NEW x \in Events(pipe'[q])
      PROVE  /\ x.inst \in live' /\ Here(x.inst)' /\ x.inst \notin ToSet(issue_queue_')
             /\ \A q1 \in Pipes : \A y \in Events(pipe'[q1]) : y.inst = x.inst => q1 = q /\ y = x
  <2>1. old(q, x) \in Events(pipe[q]) /\ old(q, x).inst = x.inst /\ (q = p /\ old(q, x) = e => x = d)
    BY <1>2, <1>5
  <2>2. x.inst \in live' /\ Here(x.inst)' /\ x.inst \notin ToSet(issue_queue_')
    BY <1>3, <2>1 DEF PlaceInv
  <2>3. ASSUME NEW q1 \in Pipes, NEW y \in Events(pipe'[q1]), y.inst = x.inst
        PROVE  q1 = q /\ y = x
    <3>1. /\ old(q1, y) \in Events(pipe[q1]) /\ old(q1, y).inst = y.inst
          /\ (q1 = p /\ old(q1, y) = e => y = d)
      BY <1>2, <2>3
    <3> DEFINE a == old(q, x)
               b == old(q1, y)
    <3>1a. a = IF q = p /\ x = d THEN e ELSE x
      OBVIOUS
    <3>1b. b = IF q1 = p /\ y = d THEN e ELSE y
      OBVIOUS
    <3>1c. a \in Events(pipe[q]) /\ b \in Events(pipe[q1]) /\ b.inst = a.inst
      BY <2>1, <2>3, <3>1
    <3> HIDE DEF a, b
    <3>2. q1 = q /\ b = a
      BY <3>1c DEF PlaceInv
    <3> QED
      BY <2>1, <3>1, <3>1a, <3>1b, <3>2
  <2> QED
    BY <2>2, <2>3
<1>6. ASSUME NEW i \in live', Here(i)', i \notin ToSet(issue_queue_')
      PROVE  \E q \in Pipes : \E x \in Events(pipe'[q]) : x.inst = i
  <2>1. PICK q \in Pipes : \E x \in Events(pipe[q]) : x.inst = i
    BY <1>3, <1>6 DEF PlaceInv
  <2>2. PICK x \in Events(pipe[q]) : x.inst = i
    BY <2>1
  <2>3. CASE q = p /\ x = e
    BY <1>1, <2>2, <2>3
  <2>4. CASE ~(q = p /\ x = e)
    BY <1>1, <2>2, <2>4
  <2> QED
    BY <2>3, <2>4
<1> HIDE DEF old
<1> QED
  BY <1>4, <1>5, <1>6 DEF PlaceInv

-----------------------------------------------------------------------------
(* Every action keeps the invariant.                                       *)

\* A cycle ends: every event and every result is one cycle nearer.
LEMMA AgeingKeepsIInv ==
    ASSUME IInv, nextPhase, phase = "issue"
    PROVE  IInv'
<1>1. /\ phase' = "port"
      /\ pipe' = [p \in Pipes |-> AgedPipe(pipe[p])]
      /\ writes' = {[w EXCEPT !.due = @ - 1] : w \in writes}
      /\ UNCHANGED <<program, fifo_, iqVars, next_pid, next_uid, credits, live, flushed_by>>
  BY DEF nextPhase, NextOf
<1>2. UNCHANGED <<issue_queue_, ready_queue_, ev_issue_ready_inst_, ready, callbacks>>
  BY <1>1 DEF iqVars
<1>3. StateInv'
  <2>1. ASSUME NEW w \in writes
        PROVE  [w EXCEPT !.due = @ - 1] \in [reg : 1..Len(program), due : {0, 1}]
    <3>1. w \in [reg : 1..Len(program), due : {0, 1}] /\ w.due > 0
      BY DEF IInv, StateInv
    <3> QED
      BY <3>1
  <2>2. writes' \subseteq [reg : 1..Len(program), due : {0, 1}]
    BY <1>1, <2>1
  <2> QED
    BY <1>1, <1>2, <2>2 DEF IInv, StateInv, NextOf
<1>4. LiveInv'
  BY <1>1 DEF IInv, LiveInv, InstType
<1>5. ASSUME NEW p \in Pipes
      PROVE  /\ pipe'[p] \in PipeType /\ pipe'[p].unit_busy_ = pipe[p].unit_busy_
             /\ pipe'[p].execute = {Later(e) : e \in pipe[p].execute} /\ pipe'[p].issue = {}
             /\ pipe'[p].complete = {Later(e) : e \in pipe[p].complete}
             /\ Events(pipe'[p]) = {Later(e) : e \in Events(pipe[p])}
  <2> DEFINE x == pipe[p]
  <2>1. x \in PipeType /\ x.issue = {} /\ \A e \in x.execute \cup x.complete : e.due > 0
    BY DEF IInv, PipeInv
  <2>2. pipe'[p] = AgedPipe(x)
    BY <1>1
  <2> HIDE DEF x
  <2>3. LET r == AgedPipe(x)
        IN  /\ r \in PipeType /\ r.unit_busy_ = x.unit_busy_
            /\ r.execute = {Later(e) : e \in x.execute} /\ r.issue = x.issue
            /\ r.complete = {Later(e) : e \in x.complete}
    BY <2>1, AgedPipeFacts, Zenon
  <2> DEFINE r == AgedPipe(x)
  <2> HIDE DEF r
  <2>4. Events(r) = {Later(e) : e \in Events(x)}
    BY <2>1, <2>3 DEF Events, r
  <2> QED
    BY <2>1, <2>2, <2>3, <2>4, Zenon DEF x, r
<1>6. PipeInv'
  <2>0. pipe' \in [Pipes -> PipeType] /\ PipeType' = PipeType
    BY <1>1, <1>5 DEF PipeType, EventType, InstType
  <2>1. ASSUME NEW p \in Pipes
        PROVE  /\ pipe'[p].issue = {}
               /\ \A e \in pipe'[p].complete : e.due \in {0, 1}
               /\ \A e, f \in pipe'[p].execute \cup pipe'[p].issue : e = f
               /\ pipe'[p].unit_busy_ <=> pipe'[p].execute \cup pipe'[p].issue # {}
    <3>1. /\ \A e \in pipe[p].complete : e.due \in {0, 1} /\ e.due > 0
          /\ \A e, f \in pipe[p].execute \cup pipe[p].issue : e = f
          /\ pipe[p].unit_busy_ <=> pipe[p].execute \cup pipe[p].issue # {}
          /\ pipe[p].issue = {}
      BY DEF IInv, PipeInv
    <3>2. \A e \in pipe'[p].complete : e.due \in {0, 1}
      BY <1>5, <3>1 DEF Later
    <3>3. \A e, f \in pipe'[p].execute \cup pipe'[p].issue : e = f
      BY <1>5, <3>1
    <3>4. pipe'[p].unit_busy_ <=> pipe'[p].execute \cup pipe'[p].issue # {}
      BY <1>5, <3>1
    <3> QED
      BY <1>5, <3>2, <3>3, <3>4
  <2> QED
    BY <1>1, <2>0, <2>1 DEF PipeInv
<1>7. \A i : Here(i)' <=> Here(i)
  BY <1>1 DEF Here
<1>8. \A e : Later(e).inst = e.inst
  BY DEF Later
<1>9. PlaceInv'
  <2>1. ASSUME NEW p \in Pipes, NEW e \in Events(pipe'[p])
        PROVE  /\ e.inst \in live' /\ Here(e.inst)' /\ e.inst \notin ToSet(issue_queue_')
               /\ \A q \in Pipes : \A f \in Events(pipe'[q]) : f.inst = e.inst => q = p /\ f = e
    <3>1. PICK x \in Events(pipe[p]) : e = Later(x)
      BY <1>5, <2>1
    <3>2. e.inst \in live' /\ Here(e.inst)' /\ e.inst \notin ToSet(issue_queue_')
      BY <1>1, <1>2, <1>7, <1>8, <3>1 DEF IInv, PlaceInv
    <3>3. ASSUME NEW q \in Pipes, NEW f \in Events(pipe'[q]), f.inst = e.inst
          PROVE  q = p /\ f = e
      <4>1. PICK y \in Events(pipe[q]) : f = Later(y)
        BY <1>5, <3>3
      <4>2. y.inst = x.inst
        BY <1>8, <3>1, <3>3, <4>1
      <4>3. q = p /\ y = x
        BY <4>2 DEF IInv, PlaceInv
      <4> QED
        BY <3>1, <4>1, <4>3
    <3> QED
      BY <3>2, <3>3
  <2>2. ASSUME NEW i \in live', Here(i)', i \notin ToSet(issue_queue_')
        PROVE  \E p \in Pipes : \E e \in Events(pipe'[p]) : e.inst = i
    <3>1. PICK p \in Pipes : \E e \in Events(pipe[p]) : e.inst = i
      BY <1>1, <1>2, <1>7, <2>2 DEF IInv, PlaceInv
    <3>2. PICK e \in Events(pipe[p]) : e.inst = i
      BY <3>1
    <3>3. Later(e) \in Events(pipe'[p]) /\ Later(e).inst = i
      BY <1>5, <1>8, <3>2
    <3> QED
      BY <3>3
  <2>3. \A i \in ToSet(issue_queue_') : i \in live' /\ Here(i)'
    BY <1>1, <1>2, <1>7 DEF IInv, PlaceInv
  <2> QED
    BY <2>1, <2>2, <2>3 DEF PlaceInv
<1>10. ApartInv'
  <2> SUFFICES ASSUME NEW p \in Pipes, NEW e \in pipe'[p].complete,
                      e \in pipe'[p].execute \cup pipe'[p].issue
               PROVE  FALSE
    BY DEF ApartInv
  <2>1. PICK x \in pipe[p].complete : e = Later(x)
    BY <1>5
  <2>2. PICK y \in pipe[p].execute : e = Later(y)
    BY <1>5
  <2>3. x \in Events(pipe[p]) /\ y \in Events(pipe[p]) /\ x.inst = y.inst
    BY <1>8, <2>1, <2>2 DEF Events
  <2>4. x = y
    BY <2>3 DEF IInv, PlaceInv
  <2> QED
    BY <2>1, <2>2, <2>4 DEF IInv, ApartInv
<1>11. QueueInv'
  BY <1>1, <1>2, QueueFrame DEF IInv
<1>12. WakeInv'
  <2>1. \A p \in Pipes : Events(pipe[p]) # {} => Events(pipe'[p]) # {}
    BY <1>5
  <2> QED
    BY <1>1, <1>2, <2>1, WakeFrame DEF IInv
<1>13. CreditsConserved'
  BY <1>1, <1>2 DEF IInv, CreditsConserved
<1> QED
  BY <1>3, <1>4, <1>6, <1>9, <1>10, <1>11, <1>12, <1>13 DEF IInv

\* The other phases only pass.
LEMMA PhaseKeepsIInv ==
    ASSUME IInv, nextPhase, phase # "issue"
    PROVE  IInv'
<1>1. /\ phase' = NextOf[phase] /\ PhaseDone
      /\ UNCHANGED <<program, fifo_, next_pid, next_uid, credits, live, flushed_by, pipe, writes,
                     issue_queue_, ready_queue_, ev_issue_ready_inst_, ready, callbacks>>
  BY DEF nextPhase, iqVars
<1>2. /\ phase' \in DOMAIN NextOf
      /\ phase' = "issue" => phase = "pipes"
      /\ phase = "pipes" => phase' = "issue"
  BY <1>1 DEF IInv, StateInv, NextOf
<1>3. StateInv'
  <2>1. phase' = "issue" => \A w \in writes : w.due > 0
    BY <1>1, <1>2 DEF PhaseDone
  <2> QED
    BY <1>1, <1>2, <2>1 DEF IInv, StateInv
<1>4. LiveInv'
  BY <1>1 DEF IInv, LiveInv, InstType
<1>5. PipeInv'
  <2>1. PipeType' = PipeType
    BY <1>1 DEF PipeType, EventType, InstType
  <2>2. ASSUME NEW p \in Pipes
        PROVE  /\ phase' # "pipes" => pipe[p].issue = {}
               /\ phase' = "issue" => \A e \in pipe[p].execute \cup pipe[p].complete : e.due > 0
    BY <1>1, <1>2 DEF PhaseDone, IInv, PipeInv
  <2> QED
    BY <1>1, <2>1, <2>2 DEF IInv, PipeInv
<1>6. PlaceInv'
  <2>1. \A i : Here(i)' <=> Here(i)
    BY <1>1 DEF Here
  <2> QED
    BY <1>1, <2>1 DEF IInv, PlaceInv
<1>7. ApartInv'
  BY <1>1 DEF IInv, ApartInv
<1>8. QueueInv'
  BY <1>1, QueueFrame DEF IInv
<1>9. WakeInv'
  BY <1>1, WakeFrame DEF IInv
<1>10. CreditsConserved'
  BY <1>1 DEF IInv, CreditsConserved
<1> QED
  BY <1>3, <1>4, <1>5, <1>6, <1>7, <1>8, <1>9, <1>10 DEF IInv

\* Another unit completes one of its instructions.
LEMMA OtherKeepsIInv ==
    ASSUME IInv, OtherUnitCompletes
    PROVE  IInv'
<1>1. PICK i \in live : /\ ~Here(i) /\ live' = live \ {i}
                        /\ writes' = writes \cup {[reg |-> i.pid, due |-> 1]}
  BY DEF OtherUnitCompletes
<1>2. /\ phase = "pipes"
      /\ UNCHANGED <<phase, program, pipe, fifo_, issue_queue_, ready_queue_, callbacks, ready,
                     ev_issue_ready_inst_, next_pid, next_uid, credits, flushed_by>>
  BY DEF OtherUnitCompletes, iqVars
<1>3. StateInv'
  <2>1. i.pid \in 1..Len(program)
    BY DEF IInv, LiveInv, InstType
  <2>2. [reg |-> i.pid, due |-> 1] \in [reg : 1..Len(program), due : {0, 1}]
    BY <2>1
  <2> QED
    BY <1>1, <1>2, <2>2 DEF IInv, StateInv
<1>4. LiveInv'
  BY <1>1, <1>2 DEF IInv, LiveInv, InstType
<1>5. PipeInv'
  <2>1. PipeType' = PipeType
    BY <1>2 DEF PipeType, EventType, InstType
  <2> QED
    BY <1>2, <2>1 DEF IInv, PipeInv
<1>6. PlaceInv'
  <2>1. \A j : Here(j)' <=> Here(j)
    BY <1>2 DEF Here
  <2> QED
    BY <1>1, <1>2, <2>1 DEF IInv, PlaceInv
<1>7. ApartInv'
  BY <1>2 DEF IInv, ApartInv
<1>8. QueueInv'
  BY <1>2, QueueFrame DEF IInv
<1>9. WakeInv'
  BY <1>2, WakeFrame DEF IInv
<1>10. CreditsConserved'
  BY <1>2 DEF IInv, CreditsConserved
<1> QED
  BY <1>3, <1>4, <1>5, <1>6, <1>7, <1>8, <1>9, <1>10 DEF IInv

\* A result reaches the scoreboard: who waited for it last is ready, once.
LEMMA ScoreboardKeepsIInv ==
    ASSUME WaitsInOneFile, IInv, ScoreboardUpdate
    PROVE  IInv'
<1>1. PICK w \in writes : setReady(w.reg) /\ writes' = writes \ {w}
  BY DEF ScoreboardUpdate
<1>2. UNCHANGED <<phase, program, pipe, fifo_, next_pid, next_uid, credits, live, flushed_by>>
  BY DEF ScoreboardUpdate
<1> DEFINE now == ready \cup {w.reg}
<1>3. /\ ready' = now /\ issue_queue_' = issue_queue_
      /\ IsSequence(ready_queue_') /\ Distinct(ready_queue_')
      /\ IsSequence(callbacks') /\ Distinct(callbacks')
      /\ Range(ready_queue_') = ReadyOnes(now)
      /\ Range(callbacks') = {c \in Range(callbacks) : Unready(c.inst, c.file, now)}
      /\ ev_issue_ready_inst_' \in BOOLEAN /\ (ev_issue_ready_inst_ => ev_issue_ready_inst_')
      /\ ev_issue_ready_inst_' \/ ready_queue_' = ready_queue_
  BY <1>1, SetReadyFacts
<1>4. StateInv'
  <2>1. w.reg \in 0..Len(program)
    <3>1. w \in [reg : 1..Len(program), due : {0, 1}]
      BY DEF IInv, StateInv
    <3> QED
      BY <3>1
  <2> QED
    BY <1>1, <1>2, <1>3, <2>1 DEF IInv, StateInv
<1>5. LiveInv'
  BY <1>2 DEF IInv, LiveInv, InstType
<1>6. PipeInv'
  <2>1. PipeType' = PipeType
    BY <1>2 DEF PipeType, EventType, InstType
  <2> QED
    BY <1>2, <2>1 DEF IInv, PipeInv
<1>7. PlaceInv'
  <2>1. \A j : Here(j)' <=> Here(j)
    BY <1>2 DEF Here
  <2> QED
    BY <1>2, <1>3, <2>1 DEF IInv, PlaceInv
<1>8. ApartInv'
  BY <1>2 DEF IInv, ApartInv
<1>9. QueueInv'
  <2>1. \A i, f : (Unready(i, f, ready)' <=> Unready(i, f, now))
                  /\ (Unready(i, f, now) => Unready(i, f, ready))
    BY <1>2, <1>3 DEF Unready, Srcs
  <2> HIDE DEF now
  <2>2. \A i : i \in ToSet(ready_queue_') <=>
                   i \in ToSet(issue_queue_') /\ \A f \in Files : ~Unready(i, f, ready)'
    BY <1>3, <2>1, ToSetIsRange DEF ReadyOnes
  <2>3. \A c : c \in ToSet(callbacks') <=>
                   \E i \in ToSet(issue_queue_'), f \in Files :
                       Unready(i, f, ready)' /\ c = [inst |-> i, file |-> f]
    <3>1. ASSUME NEW c \in Range(callbacks')
          PROVE  \E i \in ToSet(issue_queue_'), f \in Files :
                     Unready(i, f, ready)' /\ c = [inst |-> i, file |-> f]
      <4>1. c \in Range(callbacks) /\ Unready(c.inst, c.file, now)
        BY <1>3
      <4>2. /\ c.inst \in Range(issue_queue_) /\ c.file \in Files
            /\ c = [inst |-> c.inst, file |-> c.file]
        BY <4>1, CallbackIs
      <4> QED
        BY <1>3, <2>1, <4>1, <4>2, ToSetIsRange
    <3>2. ASSUME NEW i \in ToSet(issue_queue_'), NEW f \in Files, Unready(i, f, ready)'
          PROVE  [inst |-> i, file |-> f] \in Range(callbacks')
      <4>1. Unready(i, f, now) /\ Unready(i, f, ready) /\ i \in ToSet(issue_queue_)
        BY <1>3, <2>1, <3>2
      <4>2. [inst |-> i, file |-> f] \in Range(callbacks)
        BY <4>1, ToSetIsRange DEF IInv, QueueInv
      <4> QED
        BY <1>3, <4>1, <4>2
    <3> QED
      BY <3>1, <3>2, ToSetIsRange
  <2>4. IsSequence(issue_queue_') /\ Distinct(issue_queue_')
    BY <1>3 DEF IInv, QueueInv
  <2> QED
    BY <1>3, <2>2, <2>3, <2>4 DEF QueueInv
<1>10. WakeInv'
  <2>1. CASE ev_issue_ready_inst_'
    BY <2>1 DEF WakeInv
  <2>2. CASE ready_queue_' = ready_queue_
    BY <1>2, <1>3, <2>2, WakeFrame DEF IInv
  <2> QED
    BY <1>3, <2>1, <2>2
<1>11. CreditsConserved'
  BY <1>2, <1>3 DEF IInv, CreditsConserved
<1> QED
  BY <1>4, <1>5, <1>6, <1>7, <1>8, <1>9, <1>10, <1>11 DEF IInv

\* What the pipes' handlers leave alone.
LEMMA PipeStepFrame ==
    ASSUME IInv, phase = "pipes",
           UNCHANGED <<phase, program, fifo_, issue_queue_, ready_queue_, ready, callbacks,
                       next_pid, next_uid, credits, flushed_by>>,
           ev_issue_ready_inst_' \in BOOLEAN,
           live' \subseteq live, writes' \subseteq [reg : 1..Len(program), due : {0, 1}]
    PROVE  StateInv' /\ LiveInv' /\ QueueInv' /\ CreditsConserved'
<1>1. StateInv'
  BY DEF IInv, StateInv
<1>2. LiveInv'
  BY DEF IInv, LiveInv, InstType
<1>3. QueueInv'
  BY QueueFrame DEF IInv
<1>4. CreditsConserved'
  BY DEF IInv, CreditsConserved
<1> QED
  BY <1>1, <1>2, <1>3, <1>4

\* The invariant of one pipe in the phase of the pipes.
PipeFine(r) ==
    /\ \A e \in r.complete : e.due \in {0, 1}
    /\ \A e, f \in r.execute \cup r.issue : e = f
    /\ r.execute = {} \/ r.issue = {}
    /\ r.unit_busy_ <=> r.execute \cup r.issue # {}

\* One pipe changes and keeps its invariant.
LEMMA PipeStep ==
    ASSUME IInv, phase = "pipes", UNCHANGED <<phase, program>>, NEW p \in Pipes, NEW r \in PipeType,
           pipe' = [pipe EXCEPT ![p] = r], PipeFine(r),
           \A e \in r.complete : e \notin r.execute \cup r.issue
    PROVE  PipeInv' /\ ApartInv'
<1>1. pipe \in [Pipes -> PipeType]
  BY DEF IInv, PipeInv
<1>2. PipeType' = PipeType
  BY DEF PipeType, EventType, InstType
<1>3. pipe'[p] = r /\ \A q \in Pipes : q # p => pipe'[q] = pipe[q]
  BY <1>1
<1>4. pipe' \in [Pipes -> PipeType]
  BY <1>1
<1>5. ASSUME NEW q \in Pipes
      PROVE  PipeFine(pipe'[q]) /\ \A e \in pipe'[q].complete : e \notin pipe'[q].execute \cup pipe'[q].issue
  <2>1. CASE q = p
    BY <1>3, <2>1
  <2>2. CASE q # p
    BY <1>3, <2>2 DEF PipeFine, IInv, PipeInv, ApartInv
  <2> QED
    BY <2>1, <2>2
<1>6. PipeInv'
  BY <1>2, <1>4, <1>5 DEF PipeInv, PipeFine
<1>7. ApartInv'
  BY <1>5 DEF ApartInv
<1> QED
  BY <1>6, <1>7

\* The instruction that a pipe executes is the only one it is busy with.
LEMMA BusyWith ==
    ASSUME IInv, NEW p \in Pipes
    PROVE  /\ pipe[p] \in PipeType
           /\ \A e \in pipe[p].execute : /\ pipe[p].execute = {e} /\ pipe[p].issue = {}
                                         /\ e \notin pipe[p].complete /\ e \in EventType
                                         /\ e \in Events(pipe[p]) /\ pipe[p].unit_busy_ = TRUE
           /\ \A e \in pipe[p].issue : /\ pipe[p].issue = {e} /\ pipe[p].execute = {}
                                       /\ e \notin pipe[p].complete /\ e \in EventType
                                       /\ e \in Events(pipe[p]) /\ pipe[p].unit_busy_ = TRUE
<1>1. pipe[p] \in PipeType
  BY DEF IInv, PipeInv
<1>2. /\ pipe[p].execute \subseteq EventType /\ pipe[p].issue \subseteq EventType
      /\ pipe[p].unit_busy_ \in BOOLEAN
  BY <1>1 DEF PipeType
<1>3. /\ \A e, f \in pipe[p].execute \cup pipe[p].issue : e = f
      /\ pipe[p].execute = {} \/ pipe[p].issue = {}
      /\ pipe[p].unit_busy_ <=> pipe[p].execute \cup pipe[p].issue # {}
  BY DEF IInv, PipeInv
<1>4. \A e \in pipe[p].complete : e \notin pipe[p].execute \cup pipe[p].issue
  BY DEF IInv, ApartInv
<1>5. \A e \in pipe[p].execute : /\ pipe[p].execute = {e} /\ pipe[p].issue = {}
                                 /\ e \notin pipe[p].complete /\ e \in EventType
                                 /\ e \in Events(pipe[p]) /\ pipe[p].unit_busy_ = TRUE
  BY <1>2, <1>3, <1>4 DEF Events
<1>6. \A e \in pipe[p].issue : /\ pipe[p].issue = {e} /\ pipe[p].execute = {}
                               /\ e \notin pipe[p].complete /\ e \in EventType
                               /\ e \in Events(pipe[p]) /\ pipe[p].unit_busy_ = TRUE
  BY <1>2, <1>3, <1>4 DEF Events
<1> QED
  BY <1>1, <1>5, <1>6

\* A pipe has executed an instruction: it goes round again or completes.
LEMMA ExecutesKeepsIInv ==
    ASSUME IInv, PipeExecutes
    PROVE  IInv'
<1>0. PICK p \in Pipes : \E e \in pipe[p].execute :
        /\ pipe' = [pipe EXCEPT ![p] = executeInst(@, e)]
        /\ writes' = IF AnotherPass(pipe[p]) THEN writes
                     ELSE writes \cup {[reg |-> e.inst.pid, due |-> 1]}
  BY DEF PipeExecutes
<1>1. PICK e \in pipe[p].execute :
        /\ pipe' = [pipe EXCEPT ![p] = executeInst(@, e)]
        /\ writes' = IF AnotherPass(pipe[p]) THEN writes
                     ELSE writes \cup {[reg |-> e.inst.pid, due |-> 1]}
  BY <1>0
<1>2. /\ phase = "pipes"
      /\ UNCHANGED <<phase, program, fifo_, issue_queue_, ready_queue_, ready, callbacks,
                     ev_issue_ready_inst_, next_pid, next_uid, credits, live, flushed_by>>
  BY DEF PipeExecutes, iqVars
<1> DEFINE x == pipe[p]
           r == executeInst(x, e)
           d == [inst |-> e.inst, due |-> 1, passes |-> e.passes]
<1>3. pipe' = [pipe EXCEPT ![p] = r]
  BY <1>1
<1>4. /\ x \in PipeType /\ x.execute = {e} /\ x.issue = {} /\ e \notin x.complete
      /\ e \in EventType /\ e \in Events(x) /\ x.unit_busy_ = TRUE
  BY <1>1, BusyWith
<1>5. \A f \in x.complete : f.due \in {0, 1}
  BY DEF IInv, PipeInv
<1> HIDE DEF x
<1>6. /\ r \in PipeType /\ r.execute = x.execute \ {e}
      /\ AnotherPass(x) => /\ r.unit_busy_ = x.unit_busy_
                           /\ r.issue = x.issue \cup {e} /\ r.complete = x.complete
      /\ ~AnotherPass(x) => /\ r.unit_busy_ = FALSE
                            /\ r.issue = x.issue /\ r.complete = x.complete \cup {d}
  <2>1. Executed(r, x, e)
    BY <1>4, ExecuteInstFacts
  <2> HIDE DEF r
  <2> QED
    BY <2>1, Zenon DEF Executed
<1>7. d.inst = e.inst /\ d.due = 1
  OBVIOUS
<1> HIDE DEF r, d
<1>8. /\ PipeFine(r) /\ (\A f \in r.complete : f \notin r.execute \cup r.issue)
      /\ \/ Events(r) = (Events(x) \ {e}) \cup {e}
         \/ Events(r) = (Events(x) \ {e}) \cup {d}
  <2>1. CASE AnotherPass(x)
    BY <1>4, <1>5, <1>6, <2>1 DEF PipeFine, Events
  <2>2. CASE ~AnotherPass(x)
    <3>1. r.execute = {} /\ r.issue = {} /\ r.complete = x.complete \cup {d} /\ ~r.unit_busy_
      BY <1>4, <1>6, <2>2
    <3>2. Events(r) = (Events(x) \ {e}) \cup {d}
      BY <1>4, <3>1 DEF Events
    <3>3. PipeFine(r)
      BY <1>5, <1>7, <3>1 DEF PipeFine
    <3> QED
      BY <3>1, <3>2, <3>3
  <2> QED
    BY <2>1, <2>2
<1>9. PipeInv' /\ ApartInv'
  BY <1>2, <1>3, <1>6, <1>8, PipeStep
<1>10. pipe \in [Pipes -> PipeType] /\ PlaceInv
  BY DEF IInv, PipeInv
<1>11. PlaceInv'
  <2>1. CASE Events(r) = (Events(x) \ {e}) \cup {e}
    BY <1>2, <1>3, <1>4, <1>10, <2>1, SwapEvent DEF x
  <2>2. CASE Events(r) = (Events(x) \ {e}) \cup {d}
    BY <1>2, <1>3, <1>4, <1>7, <1>10, <2>2, SwapEvent DEF x
  <2> QED
    BY <1>8, <2>1, <2>2
<1>12. e.inst.pid \in 1..Len(program)
  BY <1>4 DEF EventType, InstType
<1>13. writes' \subseteq [reg : 1..Len(program), due : {0, 1}]
  <2>1. [reg |-> e.inst.pid, due |-> 1] \in [reg : 1..Len(program), due : {0, 1}]
    BY <1>12
  <2>2. writes \subseteq [reg : 1..Len(program), due : {0, 1}]
    BY DEF IInv, StateInv
  <2> QED
    BY <1>1, <2>1, <2>2
<1>14. ev_issue_ready_inst_' \in BOOLEAN
  BY <1>2 DEF IInv, StateInv
<1>15. StateInv' /\ LiveInv' /\ QueueInv' /\ CreditsConserved'
  BY <1>2, <1>13, <1>14, PipeStepFrame
<1>16. WakeInv'
  <2>1. ASSUME NEW q \in Pipes, Events(pipe[q]) # {} PROVE Events(pipe'[q]) # {}
    <3>1. CASE q = p
      BY <1>3, <1>8, <1>10, <3>1
    <3>2. CASE q # p
      BY <1>3, <1>10, <2>1, <3>2
    <3> QED
      BY <3>1, <3>2
  <2> QED
    BY <1>2, <2>1, WakeFrame DEF IInv
<1> QED
  BY <1>9, <1>11, <1>15, <1>16 DEF IInv

\* A pipe issues a uop to itself again.
LEMMA ReissuesKeepsIInv ==
    ASSUME IInv, PipeReissues
    PROVE  IInv'
<1>0. PICK p \in Pipes : \E e \in pipe[p].issue : pipe' = [pipe EXCEPT ![p] = reissueInst(@, e)]
  BY DEF PipeReissues
<1>1. PICK e \in pipe[p].issue : pipe' = [pipe EXCEPT ![p] = reissueInst(@, e)]
  BY <1>0
<1>2. /\ phase = "pipes"
      /\ UNCHANGED <<phase, program, fifo_, issue_queue_, ready_queue_, ready, callbacks, writes,
                     ev_issue_ready_inst_, next_pid, next_uid, credits, live, flushed_by>>
  BY DEF PipeReissues, iqVars, envVars
<1> DEFINE x == pipe[p]
           y == [x EXCEPT !.issue = @ \ {e}]
           r == insertInst(y, e.inst, e.passes)
           d == Entry(e.inst, e.passes)
<1>3. pipe' = [pipe EXCEPT ![p] = r]
  BY <1>1 DEF reissueInst
<1>4. /\ x \in PipeType /\ x.issue = {e} /\ x.execute = {} /\ e \notin x.complete
      /\ e \in EventType /\ e \in Events(x) /\ x.unit_busy_ = TRUE
  BY <1>1, BusyWith
<1>5. \A f \in x.complete : f.due \in {0, 1}
  BY DEF IInv, PipeInv
<1>5a. \A f \in Events(x) : f.inst = e.inst => f = e
  BY <1>4 DEF IInv, PlaceInv
<1>5b. program \in Programs
  BY DEF IInv, StateInv
<1> HIDE DEF x
<1>6. y \in PipeType /\ y.execute = x.execute /\ y.issue = x.issue \ {e} /\ y.complete = x.complete
  <2>1. Dropped(y, x, x.issue \ {e}, x.complete)
    BY <1>4, DropFacts, Zenon
  <2> HIDE DEF y
  <2> QED
    BY <2>1, Zenon DEF Dropped
<1> HIDE DEF y
<1>7. e.inst \in InstType /\ e.passes \in Nat
  BY <1>4 DEF EventType
<1>8. r \in PipeType
  BY <1>5b, <1>6, <1>7, InsertInstType
<1>9. Inserted(r, y, e.inst, e.passes)
  BY <1>6, InsertInstFacts
<1> HIDE DEF r
<1>10. r.unit_busy_ = TRUE /\ r.execute = {d} /\ r.issue = {} /\ r.complete = x.complete
  BY <1>4, <1>6, <1>9 DEF Inserted
<1>11. d.inst = e.inst
  BY DEF Entry
<1> HIDE DEF d
<1>12. d \notin x.complete
  BY <1>4, <1>5a, <1>11 DEF Events
<1>13. PipeFine(r) /\ (\A f \in r.complete : f \notin r.execute \cup r.issue)
  BY <1>5, <1>10, <1>12 DEF PipeFine
<1>14. Events(r) = (Events(x) \ {e}) \cup {d}
  BY <1>4, <1>10 DEF Events
<1>15. PipeInv' /\ ApartInv'
  BY <1>2, <1>3, <1>8, <1>13, PipeStep
<1>16. pipe \in [Pipes -> PipeType] /\ PlaceInv
  BY DEF IInv, PipeInv
<1>17. PlaceInv'
  BY <1>2, <1>3, <1>4, <1>11, <1>14, <1>16, SwapEvent DEF x
<1>18. ev_issue_ready_inst_' \in BOOLEAN /\ writes' \subseteq [reg : 1..Len(program), due : {0, 1}]
  BY <1>2 DEF IInv, StateInv
<1>19. StateInv' /\ LiveInv' /\ QueueInv' /\ CreditsConserved'
  BY <1>2, <1>18, PipeStepFrame
<1>20. WakeInv'
  <2>1. ASSUME NEW q \in Pipes, Events(pipe[q]) # {} PROVE Events(pipe'[q]) # {}
    <3>1. CASE q = p
      BY <1>3, <1>14, <1>16, <3>1
    <3>2. CASE q # p
      BY <1>3, <1>16, <2>1, <3>2
    <3> QED
      BY <3>1, <3>2
  <2> QED
    BY <1>2, <2>1, WakeFrame DEF IInv
<1> QED
  BY <1>15, <1>17, <1>19, <1>20 DEF IInv

\* An instruction completes, and its pipe wakes the queue.
LEMMA CompletesKeepsIInv ==
    ASSUME IInv, PipeCompletes
    PROVE  IInv'
<1>0. PICK p \in Pipes : \E e \in pipe[p].complete :
        pipe' = [pipe EXCEPT ![p] = completeInst(@, e)] /\ live' = live \ {e.inst}
  BY DEF PipeCompletes
<1>1. PICK e \in pipe[p].complete :
        pipe' = [pipe EXCEPT ![p] = completeInst(@, e)] /\ live' = live \ {e.inst}
  BY <1>0
<1>2. /\ phase = "pipes"
      /\ UNCHANGED <<phase, program, fifo_, issue_queue_, ready_queue_, ready, callbacks, writes,
                     next_pid, next_uid, credits, flushed_by>>
      /\ ev_issue_ready_inst_' = (ev_issue_ready_inst_ \/ ready_queue_ # << >>)
  BY DEF PipeCompletes, readyExeUnit, Wakes
<1> DEFINE x == pipe[p]
           r == completeInst(x, e)
<1>3. pipe' = [pipe EXCEPT ![p] = r]
  BY <1>1
<1>4. pipe \in [Pipes -> PipeType] /\ x \in PipeType /\ PipeFine(x)
  BY DEF IInv, PipeInv, PipeFine
<1>4a. \A f \in x.complete : f \notin x.execute \cup x.issue
  BY DEF IInv, ApartInv
<1>4b. e \in x.complete
  BY <1>1
<1> HIDE DEF x
<1>5. Dropped(r, x, x.issue, x.complete \ {e})
  BY <1>4, DropFacts
<1> HIDE DEF r
<1>6. /\ r \in PipeType /\ r.unit_busy_ = x.unit_busy_ /\ r.execute = x.execute
      /\ r.issue = x.issue /\ r.complete = x.complete \ {e}
  BY <1>5, Zenon DEF Dropped
<1>7. PipeFine(r) /\ \A f \in r.complete : f \notin r.execute \cup r.issue
  BY <1>4, <1>4a, <1>6 DEF PipeFine
<1>8. Events(r) = Events(x) \ {e}
  BY <1>4a, <1>4b, <1>6 DEF Events
<1>9. PipeInv' /\ ApartInv'
  BY <1>2, <1>3, <1>6, <1>7, PipeStep
<1>10. pipe'[p] = r /\ \A q \in Pipes : q # p => pipe'[q] = pipe[q]
  BY <1>3, <1>4
<1>11. e \in Events(pipe[p])
  BY <1>1 DEF Events
<1>12. PlaceInv'
  <2>1. \A i : Here(i)' <=> Here(i)
    BY <1>2 DEF Here
  <2>2. e.inst \notin ToSet(issue_queue_)
    BY <1>11 DEF IInv, PlaceInv
  <2>3. ASSUME NEW q \in Pipes, NEW f \in Events(pipe'[q])
        PROVE  f \in Events(pipe[q]) /\ f.inst # e.inst
    <3>1. f \in Events(pipe[q]) /\ ~(q = p /\ f = e)
      BY <1>8, <1>10, <2>3 DEF x
    <3> QED
      BY <1>11, <3>1 DEF IInv, PlaceInv
  <2>4. \A i \in ToSet(issue_queue_') : i \in live' /\ Here(i)'
    BY <1>1, <1>2, <2>1, <2>2 DEF IInv, PlaceInv
  <2>5. ASSUME NEW q \in Pipes, NEW f \in Events(pipe'[q])
        PROVE  /\ f.inst \in live' /\ Here(f.inst)' /\ f.inst \notin ToSet(issue_queue_')
               /\ \A q1 \in Pipes : \A g \in Events(pipe'[q1]) : g.inst = f.inst => q1 = q /\ g = f
    BY <1>1, <1>2, <2>1, <2>3, <2>5 DEF IInv, PlaceInv
  <2>6. ASSUME NEW i \in live', Here(i)', i \notin ToSet(issue_queue_')
        PROVE  \E q \in Pipes : \E f \in Events(pipe'[q]) : f.inst = i
    <3>1. i \in live /\ Here(i) /\ i # e.inst
      BY <1>1, <2>1, <2>6
    <3>2. PICK q \in Pipes : \E f \in Events(pipe[q]) : f.inst = i
      BY <1>2, <2>6, <3>1 DEF IInv, PlaceInv
    <3>3. PICK f \in Events(pipe[q]) : f.inst = i
      BY <3>2
    <3>4. f \in Events(pipe'[q])
      BY <1>8, <1>10, <3>1, <3>3 DEF x
    <3> QED
      BY <3>3, <3>4
  <2> QED
    BY <2>4, <2>5, <2>6 DEF PlaceInv
<1>13. ev_issue_ready_inst_' \in BOOLEAN /\ writes' \subseteq [reg : 1..Len(program), due : {0, 1}]
  BY <1>2 DEF IInv, StateInv
<1>14. StateInv' /\ LiveInv' /\ QueueInv' /\ CreditsConserved'
  BY <1>1, <1>2, <1>13, PipeStepFrame
<1>15. WakeInv'
  <2>1. ASSUME NEW i \in ToSet(ready_queue_') PROVE ev_issue_ready_inst_'
    <3>1. ready_queue_ # << >>
      BY <1>2, <2>1, EmptyIsSequence, ToSetIsRange
    <3> QED
      BY <1>2, <3>1
  <2> QED
    BY <2>1 DEF WakeInv
<1> QED
  BY <1>9, <1>12, <1>14, <1>15 DEF IInv

\* The sources of an instruction are older than it.
LEMMA SourcesOlder ==
    ASSUME program \in Programs, NEW i, i.pid \in 1..Len(program), NEW f \in Files
    PROVE  Srcs(i, f) \subseteq 0..i.pid - 1
<1>1. i.pid \in DOMAIN program
  BY ProgramAssumption, LenProperties
<1> QED
  BY <1>1, ProgramAssumption, Zenon DEF Srcs

\* A new instruction makes nobody wait: its register is no source of an older one.
LEMMA OlderUnready ==
    ASSUME IInv, NEW i \in live, NEW f \in Files
    PROVE  Unready(i, f, ready \ {next_pid}) <=> Unready(i, f, ready)
<1>1. i.pid \in 1..Len(program) /\ i.pid < next_pid /\ next_pid \in Nat
  BY DEF IInv, LiveInv, InstType, StateInv
<1>2. Srcs(i, f) \subseteq 0..i.pid - 1
  BY <1>1, SourcesOlder DEF IInv, StateInv
<1>3. next_pid \notin Srcs(i, f)
  BY <1>1, <1>2
<1> QED
  BY <1>3 DEF Unready

\* The queue after a new instruction, of which some file may be waited for.
Received(i, now) ==
    /\ IsSequence(ready_queue_') /\ Distinct(ready_queue_')
    /\ IsSequence(callbacks') /\ Distinct(callbacks')
    /\ Range(ready_queue_') = Range(ready_queue_) \cup
                                 {j \in {i} : \A f \in Files : ~Unready(j, f, now)}
    /\ Range(callbacks') = Range(callbacks) \cup
                              {[inst |-> i, file |-> f] : f \in {g \in Files : Unready(i, g, now)}}
    /\ ev_issue_ready_inst_' \in BOOLEAN /\ (ev_issue_ready_inst_ => ev_issue_ready_inst_')
    /\ ev_issue_ready_inst_' \/ ready_queue_' = ready_queue_

\* The check of a new instruction.
LEMMA ReceiveFacts ==
    ASSUME WaitsInOneFile, IInv, NEW i, i.pid \in 1..Len(program), i \notin Range(issue_queue_),
           NEW now, 0 \in now, Checked(operandIssueCheck(CheckState(callbacks), i, now))
    PROVE  Received(i, now)
<1> DEFINE q == ready_queue_
           c == callbacks
           e == ev_issue_ready_inst_
<1>1. IsSequence(q) /\ Distinct(q) /\ IsSequence(c) /\ Distinct(c) /\ e \in BOOLEAN
  BY DEF IInv, QueueInv, StateInv
<1>2. i \notin Range(q) /\ \A d \in Range(c) : d.inst # i
  <2>1. Range(q) \subseteq Range(issue_queue_)
    BY ToSetIsRange DEF IInv, QueueInv
  <2> QED
    BY <2>1, CallbackIs
<1>3. CheckState(c) = Check(q, c, e)
  BY DEF CheckState, Check
<1>4. Checked(operandIssueCheck(Check(q, c, e), i, now))
  BY <1>3
<1>5. CASE \A f \in Files : ~Unready(i, f, now)
  <2>1. operandIssueCheck(Check(q, c, e), i, now) = Check(InsertReady(q, i), c, TRUE)
    BY <1>5, CheckReady
  <2>2. ready_queue_' = InsertReady(q, i) /\ callbacks' = c /\ ev_issue_ready_inst_' = TRUE
    BY <1>4, <2>1 DEF Checked, Check
  <2>3. /\ IsSequence(InsertReady(q, i)) /\ Distinct(InsertReady(q, i))
        /\ Range(InsertReady(q, i)) = Range(q) \cup {i}
    BY <1>1, <1>2, InsertReadyFacts
  <2>4. /\ {j \in {i} : \A f \in Files : ~Unready(j, f, now)} = {i}
        /\ {g \in Files : Unready(i, g, now)} = {}
    BY <1>5
  <2> QED
    BY <1>1, <2>2, <2>3, <2>4 DEF Received
<1>6. CASE \E f \in Files : Unready(i, f, now)
  <2>1. PICK f \in Files : Unready(i, f, now)
    BY <1>6
  <2>2. \A g \in Files : Unready(i, g, now) => g = f
    BY <2>1, OneFileOnly DEF IInv, StateInv
  <2> DEFINE d == [inst |-> i, file |-> f]
             t == <<d>>
  <2>3. operandIssueCheck(Check(q, c, e), i, now) = Check(q, c \o t, e)
    BY <2>1, <2>2, CheckWaits
  <2>4. ready_queue_' = q /\ callbacks' = c \o t /\ ev_issue_ready_inst_' = e
    BY <1>4, <2>3 DEF Checked, Check
  <2>5. d \notin Range(c)
    <3>1. d.inst = i
      OBVIOUS
    <3> HIDE DEF d
    <3> QED
      BY <1>2, <3>1
  <2>6. /\ {j \in {i} : \A g \in Files : ~Unready(j, g, now)} = {}
        /\ {[inst |-> i, file |-> g] : g \in {h \in Files : Unready(i, h, now)}} = {d}
    BY <2>1, <2>2
  <2> HIDE DEF d
  <2>7. IsSequence(t) /\ Range(t) = {d} /\ Distinct(t)
    <3>1. t \in Seq({d}) /\ DOMAIN t = {1} /\ t[1] = d
      OBVIOUS
    <3>2. IsSequence(t)
      BY <3>1, SeqIsSequence
    <3> HIDE DEF t
    <3> QED
      BY <3>1, <3>2 DEF Range, Distinct
  <2> HIDE DEF t
  <2>8. IsSequence(c \o t) /\ Range(c \o t) = Range(c) \cup Range(t) /\ Distinct(c \o t)
    BY <1>1, <2>5, <2>7, DistinctConcat
  <2> QED
    BY <1>1, <2>4, <2>6, <2>7, <2>8 DEF Received
<1> QED
  BY <1>5, <1>6

\* Dispatch sends the next instruction of the trace.
LEMMA DispatchKeepsIInv ==
    ASSUME WaitsInOneFile, IInv, Dispatch
    PROVE  IInv'
<1> DEFINE i == [uid |-> next_uid, pid |-> next_pid]
           now == ready \ {next_pid}
<1>1. /\ phase = "port" /\ next_pid <= Len(program) /\ live' = live \cup {i}
      /\ next_pid' = next_pid + 1 /\ next_uid' = next_uid + 1
      /\ UNCHANGED <<phase, program, pipe, fifo_, writes, flushed_by>>
  BY DEF Dispatch
<1>2. IF Here(i)
      THEN /\ credits > 0 /\ credits' = credits - 1
           /\ issue_queue_' = Append(issue_queue_, i)
           /\ Checked(operandIssueCheck(CheckState(callbacks), i, now)) /\ ready' = now
      ELSE /\ ready' = now
           /\ UNCHANGED <<credits, issue_queue_, ready_queue_, ev_issue_ready_inst_, callbacks>>
  BY DEF Dispatch, receiveInstsFromDispatch
<1>3. i.uid = next_uid /\ i.pid = next_pid
  OBVIOUS
<1>4. /\ next_uid \in Nat \ {0} /\ next_pid \in 1..Len(program) /\ program \in Programs
      /\ Len(program) \in Nat /\ 0 \in now /\ ready \subseteq 0..Len(program)
  <2>1. Len(program) \in Nat
    BY ProgramAssumption, LenProperties DEF IInv, StateInv
  <2> QED
    BY <1>1, <2>1 DEF IInv, StateInv
<1>5. i \in InstType
  BY <1>4 DEF InstType
<1> HIDE DEF i
<1>6. i \notin live
  BY <1>3, <1>4 DEF IInv, LiveInv
<1>7. i \notin Range(issue_queue_)
  BY <1>6, QueuedPid
<1>8. \A j : Here(j)' <=> Here(j)
  BY <1>1 DEF Here
<1>9. ready' = now
  BY <1>2
<1>10. \A j, f : Unready(j, f, ready)' <=> Unready(j, f, now)
  BY <1>1, <1>9 DEF Unready, Srcs
<1>11. LiveInv'
  <2>1. InstType' = InstType
    BY <1>1 DEF InstType
  <2>2. \A j \in live : j.pid \in Nat /\ j.uid \in Nat /\ j.pid < next_pid /\ j.uid < next_uid
    BY DEF IInv, LiveInv, InstType
  <2>3. \A j \in live' : j.pid < next_pid' /\ j.uid < next_uid'
    BY <1>1, <1>3, <1>4, <2>2
  <2> QED
    BY <1>1, <1>5, <2>1, <2>3 DEF IInv, LiveInv
<1>12. PipeInv'
  <2>1. PipeType' = PipeType
    BY <1>1 DEF PipeType, EventType, InstType
  <2> QED
    BY <1>1, <2>1 DEF IInv, PipeInv
<1>13. ApartInv'
  BY <1>1 DEF IInv, ApartInv
<1>14. \A p \in Pipes : \A e \in Events(pipe[p]) : e.inst # i
  BY <1>6 DEF IInv, PlaceInv
<1>15. /\ next_pid' \in 1..Len(program') + 1 /\ next_uid' \in Nat \ {0} /\ ready' \subseteq 0..Len(program')
  BY <1>1, <1>4, <1>9
<1>16. CASE Here(i)
  <2>1. /\ credits > 0 /\ credits' = credits - 1 /\ issue_queue_' = Append(issue_queue_, i)
        /\ Checked(operandIssueCheck(CheckState(callbacks), i, now))
    BY <1>2, <1>16
  <2>2. Received(i, now)
    BY <1>3, <1>4, <1>7, <2>1, ReceiveFacts
  <2>3. /\ IsSequence(issue_queue_) /\ Distinct(issue_queue_)
    BY DEF IInv, QueueInv
  <2>4. /\ IsSequence(issue_queue_') /\ Distinct(issue_queue_')
        /\ Range(issue_queue_') = Range(issue_queue_) \cup {i}
        /\ Len(issue_queue_) \in Nat /\ Len(issue_queue_') = Len(issue_queue_) + 1
    BY <1>7, <2>1, <2>3, AppendIsSequence
  <2>5. StateInv'
    BY <1>1, <1>4, <1>9, <1>15, <2>1, <2>2 DEF IInv, StateInv, Received
  <2>6. PlaceInv'
    <3>1. \A j \in ToSet(issue_queue_') : j \in live' /\ Here(j)'
      BY <1>1, <1>8, <1>16, <2>4, ToSetIsRange DEF IInv, PlaceInv
    <3>2. ASSUME NEW p \in Pipes, NEW e \in Events(pipe'[p])
          PROVE  /\ e.inst \in live' /\ Here(e.inst)' /\ e.inst \notin ToSet(issue_queue_')
                 /\ \A q \in Pipes : \A f \in Events(pipe'[q]) : f.inst = e.inst => q = p /\ f = e
      BY <1>1, <1>8, <1>14, <2>4, ToSetIsRange DEF IInv, PlaceInv
    <3>3. \A j \in live' : Here(j)' => \/ j \in ToSet(issue_queue_')
                                       \/ \E p \in Pipes : \E e \in Events(pipe'[p]) : e.inst = j
      BY <1>1, <1>8, <2>4, ToSetIsRange DEF IInv, PlaceInv
    <3> QED
      BY <3>1, <3>2, <3>3 DEF PlaceInv
  <2>7. QueueInv'
    <3>1. \A j \in Range(issue_queue_), f \in Files : Unready(j, f, now) <=> Unready(j, f, ready)
      BY QueuedPid, OlderUnready
    <3> HIDE DEF now
    <3>2. \A j : j \in ToSet(ready_queue_') <=>
                     j \in ToSet(issue_queue_') /\ \A f \in Files : ~Unready(j, f, ready)'
      <4>1. \A j : j \in Range(ready_queue_) <=>
                     j \in Range(issue_queue_) /\ \A f \in Files : ~Unready(j, f, ready)
        BY ToSetIsRange DEF IInv, QueueInv
      <4>2. Range(ready_queue_') = Range(ready_queue_) \cup
                {j \in {i} : \A f \in Files : ~Unready(j, f, now)}
        BY <2>2 DEF Received
      <4> QED
        BY <1>10, <2>4, <3>1, <4>1, <4>2, ToSetIsRange
    <3>3. \A c : c \in ToSet(callbacks') <=>
                     \E j \in ToSet(issue_queue_'), f \in Files :
                         Unready(j, f, ready)' /\ c = [inst |-> j, file |-> f]
      <4>1. \A c : c \in Range(callbacks) <=>
                     \E j \in Range(issue_queue_), f \in Files :
                         Unready(j, f, ready) /\ c = [inst |-> j, file |-> f]
        BY ToSetIsRange DEF IInv, QueueInv
      <4>2. Range(callbacks') = Range(callbacks) \cup
                {[inst |-> i, file |-> f] : f \in {g \in Files : Unready(i, g, now)}}
        BY <2>2 DEF Received
      <4>3. ASSUME NEW c \in Range(callbacks')
            PROVE  \E j \in Range(issue_queue_'), f \in Files :
                       Unready(j, f, ready)' /\ c = [inst |-> j, file |-> f]
        <5>1. CASE c \in Range(callbacks)
          BY <1>10, <2>4, <3>1, <4>1, <5>1
        <5>2. CASE c \in {[inst |-> i, file |-> f] : f \in {g \in Files : Unready(i, g, now)}}
          BY <1>10, <2>4, <5>2
        <5> QED
          BY <4>2, <4>3, <5>1, <5>2
      <4>4. ASSUME NEW j \in Range(issue_queue_'), NEW f \in Files, Unready(j, f, ready)'
            PROVE  [inst |-> j, file |-> f] \in Range(callbacks')
        <5>1. CASE j = i
          BY <1>10, <4>2, <4>4, <5>1
        <5>2. CASE j \in Range(issue_queue_)
          BY <1>10, <3>1, <4>1, <4>2, <4>4, <5>2
        <5> QED
          BY <2>4, <4>4, <5>1, <5>2
      <4> QED
        BY <4>3, <4>4, ToSetIsRange
    <3> QED
      BY <2>2, <2>4, <3>2, <3>3 DEF QueueInv, Received
  <2>8. WakeInv'
    <3>1. CASE ev_issue_ready_inst_'
      BY <3>1 DEF WakeInv
    <3>2. CASE ready_queue_' = ready_queue_
      BY <1>1, <2>2, <3>2, WakeFrame DEF IInv, Received
    <3> QED
      BY <2>2, <3>1, <3>2 DEF Received
  <2>9. CreditsConserved'
    BY <2>1, <2>4, IssueQueueAssumption DEF IInv, StateInv, CreditsConserved
  <2> QED
    BY <1>11, <1>12, <1>13, <2>5, <2>6, <2>7, <2>8, <2>9 DEF IInv
<1>17. CASE ~Here(i)
  <2>1. UNCHANGED <<credits, issue_queue_, ready_queue_, ev_issue_ready_inst_, callbacks>>
    BY <1>2, <1>17
  <2>2. StateInv'
    BY <1>1, <1>4, <1>9, <1>15, <2>1 DEF IInv, StateInv
  <2>3. PlaceInv'
    BY <1>1, <1>8, <1>17, <2>1 DEF IInv, PlaceInv
  <2>4. QueueInv'
    <3>1. \A j \in Range(issue_queue_), f \in Files : Unready(j, f, ready)' <=> Unready(j, f, ready)
      BY <1>10, QueuedPid, OlderUnready
    <3> HIDE DEF now
    <3> QED
      BY <2>1, <3>1, ToSetIsRange DEF IInv, QueueInv
  <2>5. WakeInv'
    BY <1>1, <2>1, WakeFrame DEF IInv
  <2>6. CreditsConserved'
    BY <2>1 DEF IInv, CreditsConserved
  <2> QED
    BY <1>11, <1>12, <1>13, <2>2, <2>3, <2>4, <2>5, <2>6 DEF IInv
<1> QED
  BY <1>16, <1>17

\* A sequence without elements is empty.
LEMMA NothingLeft ==
    ASSUME NEW s, IsSequence(s), Range(s) = {}
    PROVE  s = << >>
<1>1. s \in Seq({})
  BY DEF IsSequence
<1> QED
  BY <1>1, EmptySeq

\* A flush drops everything: what is flushed is behind the branch, and so is all that is live.
LEMMA FlushEmpties ==
    ASSUME IInv, Flush
    PROVE  /\ issue_queue_' = << >> /\ ready_queue_' = << >> /\ callbacks' = << >> /\ live' = {}
           /\ \A p \in Pipes : /\ pipe'[p] \in PipeType /\ Events(pipe'[p]) = {}
                               /\ pipe'[p].execute = {} /\ pipe'[p].issue = {}
                               /\ pipe'[p].complete = {} /\ pipe'[p].unit_busy_ = FALSE
                               /\ pipe'[p].num_passes_needed_ = pipe[p].num_passes_needed_
                               /\ pipe'[p].curr_num_pass_ = pipe[p].curr_num_pass_
           /\ pipe' \in [Pipes -> PipeType]
           /\ credits' = credits + Len(issue_queue_) /\ Len(issue_queue_) \in Nat
<1>1. PICK b \in flushed_by + 1..next_pid - 1 :
         LET flushed == {i \in live : i.pid > b}
         IN  /\ \A i \in live : i.pid > b
             /\ flushQueue(flushed)
             /\ pipe' = [p \in Pipes |-> flushPipe(pipe[p], flushed)]
             /\ credits' = credits + CreditsToSend(flushed)
             /\ live' = live \ flushed
  BY DEF Flush
<1>2. {i \in live : i.pid > b} = live
  BY <1>1
<1>3. /\ flushQueue(live) /\ pipe' = [p \in Pipes |-> flushPipe(pipe[p], live)]
      /\ credits' = credits + CreditsToSend(live) /\ live' = live \ live
  BY <1>1, <1>2
<1>4. /\ IsSequence(issue_queue_) /\ IsSequence(ready_queue_) /\ IsSequence(callbacks)
      /\ Distinct(issue_queue_) /\ Distinct(ready_queue_) /\ Distinct(callbacks)
      /\ Range(issue_queue_) \subseteq live /\ Range(ready_queue_) \subseteq live
  <2>1. Range(issue_queue_) \subseteq live
    BY QueuedPid
  <2>2. Range(ready_queue_) \subseteq Range(issue_queue_)
    BY ToSetIsRange DEF IInv, QueueInv
  <2> QED
    BY <2>1, <2>2 DEF IInv, QueueInv
<1>5. issue_queue_' = << >> /\ ready_queue_' = << >>
  <2>1. issue_queue_' = Kept(issue_queue_, live) /\ ready_queue_' = Kept(ready_queue_, live)
    BY <1>3 DEF flushQueue
  <2>2. IsSequence(issue_queue_') /\ Range(issue_queue_') = {}
    BY <1>4, <2>1, KeptFacts
  <2>3. IsSequence(ready_queue_') /\ Range(ready_queue_') = {}
    BY <1>4, <2>1, KeptFacts
  <2> QED
    BY <2>2, <2>3, NothingLeft
<1>6. callbacks' = << >>
  <2> DEFINE gone == live \cap ToSet(issue_queue_)
  <2>1. callbacks' = KeptCallbacks(gone)
    BY <1>3 DEF flushQueue
  <2>2. \A c \in Range(callbacks) : c.inst \in gone
    BY <1>4, CallbackIs, ToSetIsRange
  <2> HIDE DEF gone
  <2>3. IsSequence(callbacks') /\ Range(callbacks') = {c \in Range(callbacks) : c.inst \notin gone}
    BY <1>4, <2>1, KeptCallbacksFacts
  <2> QED
    BY <2>2, <2>3, NothingLeft
<1>7. ASSUME NEW p \in Pipes
      PROVE  /\ pipe'[p] \in PipeType /\ Events(pipe'[p]) = {}
             /\ pipe'[p].execute = {} /\ pipe'[p].issue = {}
             /\ pipe'[p].complete = {} /\ pipe'[p].unit_busy_ = FALSE
             /\ pipe'[p].num_passes_needed_ = pipe[p].num_passes_needed_
             /\ pipe'[p].curr_num_pass_ = pipe[p].curr_num_pass_
  <2> DEFINE x == pipe[p]
             r == flushPipe(x, live)
  <2>1. x \in PipeType /\ \A e \in Events(x) : e.inst \in live
    BY DEF IInv, PipeInv, PlaceInv
  <2>2. pipe'[p] = r
    BY <1>3
  <2> HIDE DEF x
  <2>3. Flushed(r, x, live)
    BY <2>1, FlushPipeFacts
  <2> HIDE DEF r
  <2>4. /\ {e \in x.execute : e.inst \notin live} = {}
        /\ {e \in x.complete : e.inst \notin live} = {}
    BY <2>1 DEF Events
  <2>5. /\ r \in PipeType /\ r.execute = {} /\ r.issue = {} /\ r.complete = {}
        /\ r.unit_busy_ = FALSE /\ r.num_passes_needed_ = x.num_passes_needed_
        /\ r.curr_num_pass_ = x.curr_num_pass_
    BY <2>3, <2>4, Zenon DEF Flushed
  <2>6. Events(r) = {}
    BY <2>5 DEF Events
  <2> QED
    BY <2>2, <2>5, <2>6 DEF x
<1>8. pipe' \in [Pipes -> PipeType]
  BY <1>3, <1>7
<1>9. credits' = credits + Len(issue_queue_) /\ Len(issue_queue_) \in Nat
  <2>1. live \cap ToSet(issue_queue_) = Range(issue_queue_)
    BY <1>4, ToSetIsRange
  <2>2. Cardinality(Range(issue_queue_)) = Len(issue_queue_)
    BY <1>4, DistinctSize
  <2>3. Len(issue_queue_) \in Nat
    BY <1>4, SeqIsSequence DEF IsSequence
  <2> QED
    BY <1>3, <2>1, <2>2, <2>3 DEF CreditsToSend
<1> QED
  BY <1>3, <1>5, <1>6, <1>7, <1>8, <1>9

\* A branch that has retired flushes all that is behind it.
LEMMA FlushKeepsIInv ==
    ASSUME IInv, Flush
    PROVE  IInv'
<1>1. /\ issue_queue_' = << >> /\ ready_queue_' = << >> /\ callbacks' = << >> /\ live' = {}
      /\ pipe' \in [Pipes -> PipeType]
      /\ credits' = credits + Len(issue_queue_) /\ Len(issue_queue_) \in Nat
  BY FlushEmpties
<1>2. \A p \in Pipes : /\ Events(pipe'[p]) = {} /\ pipe'[p].execute = {} /\ pipe'[p].issue = {}
                       /\ pipe'[p].complete = {} /\ pipe'[p].unit_busy_ = FALSE
  BY FlushEmpties
<1>3. /\ phase' = "pipes" /\ UNCHANGED <<program, fifo_, next_uid, writes, ev_issue_ready_inst_, ready>>
      /\ \E b \in flushed_by + 1..next_pid - 1 : next_pid' = b + 1 /\ flushed_by' = b
  BY DEF Flush, flushQueue
<1>4. PICK b \in flushed_by + 1..next_pid - 1 : next_pid' = b + 1 /\ flushed_by' = b
  BY <1>3
<1>5. /\ next_pid \in 1..Len(program) + 1 /\ flushed_by \in Nat /\ credits \in Nat
      /\ Len(program) \in Nat
  BY ProgramAssumption, LenProperties DEF IInv, StateInv
<1>6. next_pid' \in 1..Len(program) + 1 /\ flushed_by' \in Nat /\ credits' \in Nat
  BY <1>1, <1>4, <1>5
<1>7. StateInv'
  BY <1>3, <1>6 DEF IInv, StateInv, NextOf
<1>8. LiveInv'
  BY <1>1 DEF LiveInv
<1>9. PipeInv'
  <2>1. PipeType' = PipeType
    BY <1>3 DEF PipeType, EventType, InstType
  <2> QED
    BY <1>1, <1>2, <1>3, <2>1 DEF PipeInv
<1>9a. ToSet(<< >>) = {}
  BY EmptyIsSequence, ToSetIsRange
<1>10. PlaceInv'
  BY <1>1, <1>2, <1>9a DEF PlaceInv
<1>11. ApartInv'
  BY <1>2 DEF ApartInv
<1>12. QueueInv'
  BY <1>1, <1>9a, EmptyIsSequence DEF QueueInv
<1>13. WakeInv'
  BY <1>1, <1>9a DEF WakeInv
<1>14. CreditsConserved'
  <2>1. Len(issue_queue_') = 0
    BY <1>1, EmptyIsSequence
  <2> QED
    BY <1>1, <1>5, <2>1 DEF IInv, CreditsConserved
<1> QED
  BY <1>7, <1>8, <1>9, <1>10, <1>11, <1>12, <1>13, <1>14 DEF IInv

\* The invariant holds when the core starts.
LEMMA InitIInv == Init => IInv
<1> SUFFICES ASSUME Init PROVE IInv
  OBVIOUS
<1>1. IdlePipe \in PipeType /\ Events(IdlePipe) = {} /\ IdlePipe.execute = {} /\ IdlePipe.issue = {}
      /\ IdlePipe.complete = {} /\ IdlePipe.unit_busy_ = FALSE
  BY DEF IdlePipe, PipeType, Events
<1>2. \A p \in Pipes : pipe[p] = IdlePipe
  BY DEF Init
<1>3. ToSet(<< >>) = {}
  BY EmptyIsSequence, ToSetIsRange
<1>4. Len(program) \in Nat
  BY ProgramAssumption, LenProperties DEF Init
<1>5. StateInv
  <2>1. phase \in DOMAIN NextOf
    BY DEF Init, NextOf
  <2>2. ready \subseteq 0..Len(program) /\ next_pid \in 1..Len(program) + 1
    BY <1>4 DEF Init
  <2>3. credits \in Nat /\ flushed_by \in Nat /\ next_uid \in Nat \ {0}
    BY IssueQueueAssumption DEF Init
  <2>4. ev_issue_ready_inst_ \in BOOLEAN /\ fifo_ \in BOOLEAN
    BY DEF Init
  <2> QED
    BY <2>1, <2>2, <2>3, <2>4 DEF Init, StateInv
<1>6. LiveInv
  BY DEF Init, LiveInv
<1>7. PipeInv
  <2>1. pipe \in [Pipes -> PipeType]
    BY <1>1 DEF Init
  <2> QED
    BY <1>1, <1>2, <2>1 DEF PipeInv
<1>8. PlaceInv /\ ApartInv
  BY <1>1, <1>2, <1>3 DEF Init, PlaceInv, ApartInv
<1>9. QueueInv
  BY <1>3, EmptyIsSequence DEF Init, QueueInv
<1>10. WakeInv
  BY <1>3 DEF Init, WakeInv
<1>11. CreditsConserved
  BY EmptyIsSequence, IssueQueueAssumption DEF Init, CreditsConserved
<1> QED
  BY <1>5, <1>6, <1>7, <1>8, <1>9, <1>10, <1>11 DEF IInv

\* A step that changes nothing.
LEMMA StutterKeepsIInv == IInv /\ UNCHANGED vars => IInv'
<1> SUFFICES ASSUME IInv, UNCHANGED vars PROVE IInv'
  OBVIOUS
<1>1. UNCHANGED <<phase, program, pipe, fifo_, issue_queue_, ready_queue_, ev_issue_ready_inst_,
                  ready, callbacks, next_pid, next_uid, credits, live, writes, flushed_by>>
  BY DEF vars, iqVars, envVars
<1>2. StateInv' /\ LiveInv' /\ ApartInv' /\ CreditsConserved'
  BY <1>1 DEF IInv, StateInv, LiveInv, ApartInv, CreditsConserved, InstType
<1>3. PipeInv'
  BY <1>1 DEF IInv, PipeInv, PipeType, EventType, InstType
<1>4. PlaceInv'
  BY <1>1 DEF IInv, PlaceInv, Here
<1>5. QueueInv'
  BY <1>1, QueueFrame DEF IInv
<1>6. WakeInv'
  BY <1>1, WakeFrame DEF IInv
<1> QED
  BY <1>2, <1>3, <1>4, <1>5, <1>6 DEF IInv

\* What sendReadyInsts does: the ready queue is served, and who went to a pipe leaves the
\* issue queue.
LEMMA SendFacts ==
    ASSUME IInv, sendReadyInsts
    PROVE  \E at, s : /\ Served(pipe', at, s, ready_queue_', Range(ready_queue_))
                      /\ issue_queue_' = Kept(issue_queue_, s)
<1> DEFINE q == ready_queue_
           n == Len(q)
           st == [pipe |-> pipe, left |-> << >>, sent |-> {}]
           f == CHOOSE g : Offers(g, st, q, n)
<1>1. pipe' = f[n].pipe /\ ready_queue_' = f[n].left /\ issue_queue_' = Kept(issue_queue_, f[n].sent)
  BY Zenon DEF sendReadyInsts, Offers
<1>2. /\ program \in Programs /\ pipe \in [Pipes -> PipeType] /\ IsSequence(q) /\ Distinct(q)
  BY DEF IInv, StateInv, PipeInv, QueueInv
<1>3. n \in Nat
  BY <1>2, SeqIsSequence DEF IsSequence
<1>4. \A k \in DOMAIN q : q[k] \in InstType /\ Here(q[k])
  <2>1. Range(q) \subseteq Range(issue_queue_)
    BY ToSetIsRange DEF IInv, QueueInv
  <2>2. \A i \in Range(q) : i \in InstType /\ Here(i)
    BY <2>1, QueuedPid
  <2>3. \A k \in DOMAIN q : q[k] \in Range(q)
    BY DEF Range
  <2> QED
    BY <2>2, <2>3
<1>5. Offers(f, st, q, n)
  <2>1. \E g : Offers(g, st, q, n)
    BY <1>3, OffersExists
  <2> QED
    BY <2>1, Zenon
<1>6. st = Offered(pipe, << >>, {})
  BY DEF Offered
<1>7. Offers(f, Offered(pipe, << >>, {}), q, Len(q))
  BY <1>5, <1>6
<1> HIDE DEF f, q
<1>8. ServedState(f[n], Range(q))
  BY <1>2, <1>4, <1>7, OffersFacts
<1>9. PICK pp, at, s, l : f[n] = Offered(pp, l, s) /\ Served(pp, at, s, l, Range(q))
  BY <1>8 DEF ServedState
<1>10. pipe' = pp /\ ready_queue_' = l /\ issue_queue_' = Kept(issue_queue_, s)
  BY <1>1, <1>9 DEF Offered
<1> QED
  BY <1>9, <1>10 DEF q

\* The pipe r is x, which was idle, busy with the instruction i.
Issued(r, x, i) ==
    /\ x \in PipeType /\ Inserted(r, x, i, 0) /\ x.execute = {} /\ x.issue = {}
    /\ r.unit_busy_ = TRUE /\ r.execute = {Entry(i, 0)} /\ r.issue = {}
    /\ r.complete = x.complete /\ Events(r) = Events(x) \cup {Entry(i, 0)}
    /\ Entry(i, 0).inst = i /\ Entry(i, 0).due > 0 /\ Entry(i, 0) \notin x.complete

\* A pipe that took an instruction.
LEMMA IssuedPipe ==
    ASSUME IInv, NEW at, NEW s, NEW pp, Taken(pp, at, s), s \subseteq Range(ready_queue_), NEW i \in s
    PROVE  at[i] \in Pipes /\ Issued(pp[at[i]], pipe[at[i]], i)
<1> DEFINE x == pipe[at[i]]
           r == pp[at[i]]
<1>1. at[i] \in Pipes /\ ~x.unit_busy_ /\ r = insertInst(x, i, 0)
  BY DEF Taken
<1>2. x \in PipeType /\ x.execute \cup x.issue = {}
  BY <1>1 DEF IInv, PipeInv
<1>3. i \in Range(issue_queue_)
  BY ToSetIsRange DEF IInv, QueueInv
<1>4. \A e \in Events(x) : e.inst # i
  BY <1>1, <1>3, ToSetIsRange DEF IInv, PlaceInv
<1> HIDE DEF x
<1>5. Inserted(r, x, i, 0)
  BY <1>1, <1>2, InsertInstFacts
<1> HIDE DEF r
<1>6. r.unit_busy_ = TRUE /\ r.execute = x.execute \cup {Entry(i, 0)} /\ r.issue = x.issue
      /\ r.complete = x.complete
  BY <1>5, Zenon DEF Inserted
<1>7. i.pid \in 1..Len(program) /\ program \in Programs
  BY <1>3, QueuedPid DEF IInv, StateInv
<1>8. program[i.pid].time \in Nat \ {0}
  <2>1. program[i.pid] \in [target : DOMAIN PipeMapping \cup {"other"},
                            srcs : [Files -> SUBSET Nat], branch : BOOLEAN, time : Nat \ {0},
                            vlmax : Nat, lmul : Nat \ {0}, vl : Nat, uop : Nat]
    BY <1>7, ProgramAssumption, ElementOfSeq
  <2> QED
    BY <2>1
<1>9. Entry(i, 0).inst = i /\ Entry(i, 0).due > 0
  BY <1>8 DEF Entry
<1>10. Entry(i, 0) \notin Events(x)
  BY <1>4, <1>9
<1>11. Events(r) = Events(x) \cup {Entry(i, 0)} /\ Entry(i, 0) \notin x.complete
  BY <1>6, <1>10 DEF Events
<1>12. r.execute = {Entry(i, 0)} /\ r.issue = {} /\ x.execute = {} /\ x.issue = {}
  BY <1>2, <1>6
<1> QED
  BY <1>1, <1>2, <1>5, <1>6, <1>9, <1>11, <1>12 DEF x, r, Issued

\* The queue offers its ready instructions to the pipes.
LEMMA IssueKeepsIInv ==
    ASSUME IInv, Issue
    PROVE  IInv'
<1>1. PICK at, s : /\ Served(pipe', at, s, ready_queue_', Range(ready_queue_))
                   /\ issue_queue_' = Kept(issue_queue_, s)
  BY SendFacts DEF Issue
<1>2. /\ phase = "issue" /\ ev_issue_ready_inst_' = FALSE
      /\ UNCHANGED <<phase, program, fifo_, next_pid, next_uid, live, writes, flushed_by,
                     ready, callbacks>>
      /\ credits' = credits + CreditsToSend(ToSet(issue_queue_) \ ToSet(issue_queue_'))
  BY DEF Issue, sendReadyInsts
<1>3. /\ Taken(pipe', at, s) /\ s \subseteq Range(ready_queue_)
      /\ IsSequence(ready_queue_') /\ Distinct(ready_queue_')
      /\ Range(ready_queue_') = Range(ready_queue_) \ s
      /\ \A i \in Range(ready_queue_') : Refused(pipe', i)
  BY <1>1 DEF Served
<1>4. /\ IsSequence(issue_queue_) /\ Distinct(issue_queue_)
      /\ IsSequence(issue_queue_') /\ Distinct(issue_queue_')
      /\ Range(issue_queue_') = Range(issue_queue_) \ s
  <2>1. IsSequence(issue_queue_) /\ Distinct(issue_queue_)
    BY DEF IInv, QueueInv
  <2> QED
    BY <1>1, <2>1, KeptFacts
<1>5. \A i : i \in Range(ready_queue_) <=>
                 i \in Range(issue_queue_) /\ \A f \in Files : ~Unready(i, f, ready)
  BY ToSetIsRange DEF IInv, QueueInv
<1>6. Len(issue_queue_') + Cardinality(ToSet(issue_queue_) \ ToSet(issue_queue_')) = Len(issue_queue_)
      /\ Cardinality(ToSet(issue_queue_) \ ToSet(issue_queue_')) \in Nat
  <2> DEFINE S == Range(issue_queue_)
             T == Range(issue_queue_')
  <2>1. IsFiniteSet(S) /\ Cardinality(S) = Len(issue_queue_)
    BY <1>4, DistinctSize
  <2>2. Cardinality(T) = Len(issue_queue_')
    BY <1>4, DistinctSize
  <2>3. S \cap T = T
    BY <1>4
  <2>4. Len(issue_queue_) \in Nat /\ Len(issue_queue_') \in Nat
    BY <1>4, SeqIsSequence DEF IsSequence
  <2>4a. ToSet(issue_queue_) = S /\ ToSet(issue_queue_') = T
    BY ToSetIsRange
  <2> HIDE DEF S, T
  <2>5. IsFiniteSet(S \ T) /\ Cardinality(S \ T) = Cardinality(S) - Cardinality(S \cap T)
    BY <2>1, FS_Difference
  <2>6. Cardinality(S \ T) \in Nat
    BY <2>5, FS_CardinalityType
  <2> DEFINE c == Cardinality(S \ T)
  <2>7. c = Len(issue_queue_) - Len(issue_queue_') /\ c \in Nat
    BY <2>1, <2>2, <2>3, <2>5, <2>6
  <2> HIDE DEF c
  <2>8. Len(issue_queue_') + c = Len(issue_queue_)
    BY <2>4, <2>7
  <2> QED
    BY <2>4a, <2>7, <2>8 DEF c
<1>7. credits' = credits + Cardinality(ToSet(issue_queue_) \ ToSet(issue_queue_'))
  <2>1. (ToSet(issue_queue_) \ ToSet(issue_queue_')) \cap ToSet(issue_queue_)
            = ToSet(issue_queue_) \ ToSet(issue_queue_')
    OBVIOUS
  <2> QED
    BY <1>2, <2>1 DEF CreditsToSend
<1>8. StateInv' /\ CreditsConserved'
  <2>1. credits \in Nat /\ credits + Len(issue_queue_) = SchedulerSize
    BY DEF IInv, StateInv, CreditsConserved
  <2> DEFINE c == Cardinality(ToSet(issue_queue_) \ ToSet(issue_queue_'))
  <2>2. c \in Nat /\ Len(issue_queue_') + c = Len(issue_queue_) /\ credits' = credits + c
    BY <1>6, <1>7
  <2> HIDE DEF c
  <2>3. Len(issue_queue_') \in Nat
    BY <1>4, SeqIsSequence DEF IsSequence
  <2>4. credits' \in Nat /\ credits' + Len(issue_queue_') = SchedulerSize
    BY <2>1, <2>2, <2>3
  <2>5. StateInv'
    BY <1>2, <2>4 DEF IInv, StateInv
  <2> QED
    BY <2>4, <2>5 DEF CreditsConserved
<1>9. LiveInv'
  BY <1>2 DEF IInv, LiveInv, InstType
<1> DEFINE D(i) == Entry(i, 0)
<1>10. \A i \in s :
          /\ at[i] \in Pipes
          /\ pipe[at[i]].execute = {} /\ pipe[at[i]].issue = {}
          /\ pipe'[at[i]].unit_busy_ = TRUE /\ pipe'[at[i]].execute = {D(i)}
          /\ pipe'[at[i]].issue = {} /\ pipe'[at[i]].complete = pipe[at[i]].complete
          /\ Events(pipe'[at[i]]) = Events(pipe[at[i]]) \cup {D(i)}
          /\ D(i).inst = i /\ D(i).due > 0 /\ D(i) \notin pipe[at[i]].complete
  <2>1. \A i \in s : at[i] \in Pipes /\ Issued(pipe'[at[i]], pipe[at[i]], i)
    BY <1>3, IssuedPipe
  <2> QED
    BY <2>1, Zenon DEF Issued
<1> HIDE DEF D
<1>11. /\ pipe' \in [Pipes -> PipeType]
       /\ \A p \in Pipes : (\A i \in s : at[i] # p) => pipe'[p] = pipe[p]
       /\ \A i, j \in s : at[i] = at[j] => i = j
  BY <1>3 DEF Taken
<1>12. PipeInv' /\ ApartInv'
  <2>1. ASSUME NEW p \in Pipes
        PROVE  /\ pipe'[p].issue = {}
               /\ \A e \in pipe'[p].execute \cup pipe'[p].complete : e.due > 0
               /\ PipeFine(pipe'[p])
               /\ \A e \in pipe'[p].complete : e \notin pipe'[p].execute \cup pipe'[p].issue
    <3>1. /\ pipe[p].issue = {} /\ PipeFine(pipe[p])
          /\ \A e \in pipe[p].execute \cup pipe[p].complete : e.due > 0
          /\ \A e \in pipe[p].complete : e \notin pipe[p].execute \cup pipe[p].issue
      BY <1>2 DEF IInv, PipeInv, ApartInv, PipeFine
    <3>2. CASE \A i \in s : at[i] # p
      BY <1>11, <3>1, <3>2
    <3>3. CASE \E i \in s : at[i] = p
      <4>1. PICK i \in s : at[i] = p
        BY <3>3
      <4> DEFINE r == pipe'[p]
                 x == pipe[p]
      <4>2. /\ r.unit_busy_ = TRUE /\ r.execute = {D(i)} /\ r.issue = {} /\ r.complete = x.complete
            /\ D(i).due > 0 /\ D(i) \notin x.complete
        BY <1>10, <4>1
      <4> HIDE DEF r
      <4>3. PipeFine(r)
        BY <3>1, <4>2 DEF PipeFine
      <4> QED
        BY <3>1, <4>2, <4>3 DEF r
    <3> QED
      BY <3>2, <3>3
  <2>2. PipeType' = PipeType
    BY <1>2 DEF PipeType, EventType, InstType
  <2>3. PipeInv'
    BY <1>2, <1>11, <2>1, <2>2 DEF PipeInv, PipeFine
  <2>4. ApartInv'
    BY <2>1 DEF ApartInv
  <2> QED
    BY <2>3, <2>4
<1>13. \A i : Here(i)' <=> Here(i)
  BY <1>2 DEF Here
<1>14. ASSUME NEW p \in Pipes, NEW e \in Events(pipe'[p])
       PROVE  \/ e \in Events(pipe[p]) /\ e.inst \notin Range(issue_queue_)
              \/ \E i \in s : p = at[i] /\ e = D(i) /\ e.inst = i
  <2>1. CASE e \in Events(pipe[p])
    BY <2>1, ToSetIsRange DEF IInv, PlaceInv
  <2>2. CASE e \notin Events(pipe[p])
    <3>1. PICK i \in s : at[i] = p
      BY <1>11, <1>14, <2>2
    <3>2. e = D(i)
      BY <1>10, <1>14, <2>2, <3>1
    <3> QED
      BY <1>10, <3>1, <3>2
  <2> QED
    BY <2>1, <2>2
<1>15. PlaceInv'
  <2>1. \A i \in ToSet(issue_queue_') : i \in live' /\ Here(i)'
    BY <1>2, <1>4, <1>13, ToSetIsRange DEF IInv, PlaceInv
  <2>2. ASSUME NEW p \in Pipes, NEW e \in Events(pipe'[p])
        PROVE  /\ e.inst \in live' /\ Here(e.inst)' /\ e.inst \notin ToSet(issue_queue_')
               /\ \A q \in Pipes : \A f \in Events(pipe'[q]) : f.inst = e.inst => q = p /\ f = e
    <3>1. CASE e \in Events(pipe[p]) /\ e.inst \notin Range(issue_queue_)
      <4>1. e.inst \in live' /\ Here(e.inst)' /\ e.inst \notin ToSet(issue_queue_')
        BY <1>2, <1>4, <1>13, <3>1, ToSetIsRange DEF IInv, PlaceInv
      <4>2. ASSUME NEW q \in Pipes, NEW f \in Events(pipe'[q]), f.inst = e.inst
            PROVE  q = p /\ f = e
        <5>1. f \in Events(pipe[q])
          BY <1>3, <1>5, <1>14, <3>1, <4>2
        <5> QED
          BY <3>1, <4>2, <5>1 DEF IInv, PlaceInv
      <4> QED
        BY <4>1, <4>2
    <3>2. CASE \E i \in s : p = at[i] /\ e = D(i) /\ e.inst = i
      <4>1. PICK i \in s : p = at[i] /\ e = D(i) /\ e.inst = i
        BY <3>2
      <4>2. i \in Range(issue_queue_) /\ i \notin Range(issue_queue_')
        BY <1>3, <1>4, <1>5
      <4>3. e.inst \in live' /\ Here(e.inst)' /\ e.inst \notin ToSet(issue_queue_')
        BY <1>2, <1>13, <4>1, <4>2, ToSetIsRange DEF IInv, PlaceInv
      <4>4. ASSUME NEW q \in Pipes, NEW f \in Events(pipe'[q]), f.inst = e.inst
            PROVE  q = p /\ f = e
        <5>1. PICK j \in s : q = at[j] /\ f = D(j) /\ f.inst = j
          BY <1>14, <4>1, <4>2, <4>4
        <5> QED
          BY <4>1, <4>4, <5>1
      <4> QED
        BY <4>3, <4>4
    <3> QED
      BY <1>14, <2>2, <3>1, <3>2
  <2>3. ASSUME NEW i \in live', Here(i)', i \notin ToSet(issue_queue_')
        PROVE  \E p \in Pipes : \E e \in Events(pipe'[p]) : e.inst = i
    <3>1. CASE i \in s
      <4>1. at[i] \in Pipes /\ D(i) \in Events(pipe'[at[i]]) /\ D(i).inst = i
        BY <1>10, <3>1
      <4> QED
        BY <4>1
    <3>2. CASE i \notin s
      <4>1. i \in live /\ Here(i) /\ i \notin ToSet(issue_queue_)
        BY <1>2, <1>4, <1>13, <2>3, <3>2, ToSetIsRange
      <4>2. PICK p \in Pipes : \E e \in Events(pipe[p]) : e.inst = i
        BY <4>1 DEF IInv, PlaceInv
      <4>3. PICK e \in Events(pipe[p]) : e.inst = i
        BY <4>2
      <4>4. e \in Events(pipe'[p])
        <5>1. CASE \A j \in s : at[j] # p
          BY <1>11, <5>1
        <5>2. CASE \E j \in s : at[j] = p
          BY <1>10, <5>2
        <5> QED
          BY <5>1, <5>2
      <4> QED
        BY <4>3, <4>4
    <3> QED
      BY <3>1, <3>2
  <2> QED
    BY <2>1, <2>2, <2>3 DEF PlaceInv
<1>16. \A i, f : Unready(i, f, ready)' <=> Unready(i, f, ready)
  BY <1>2 DEF Unready, Srcs
<1>17. QueueInv'
  <2>1. \A i : i \in ToSet(ready_queue_') <=>
                   i \in ToSet(issue_queue_') /\ \A f \in Files : ~Unready(i, f, ready)'
    BY <1>3, <1>4, <1>5, <1>16, ToSetIsRange
  <2>2. \A i \in Range(issue_queue_), f \in Files :
            Unready(i, f, ready) => i \in Range(issue_queue_')
    BY <1>3, <1>4, <1>5
  <2>3. IsSequence(callbacks) /\ Distinct(callbacks)
    BY DEF IInv, QueueInv
  <2>4. \A c : c \in ToSet(callbacks') <=>
                   \E i \in ToSet(issue_queue_'), f \in Files :
                       Unready(i, f, ready)' /\ c = [inst |-> i, file |-> f]
    <3>1. \A c : c \in ToSet(callbacks) <=>
                   \E i \in Range(issue_queue_), f \in Files :
                       Unready(i, f, ready) /\ c = [inst |-> i, file |-> f]
      BY ToSetIsRange DEF IInv, QueueInv
    <3>2. Range(issue_queue_') \subseteq Range(issue_queue_)
      BY <1>4
    <3> QED
      BY <1>2, <1>16, <2>2, <3>1, <3>2, ToSetIsRange
  <2> QED
    BY <1>2, <1>3, <1>4, <2>1, <2>3, <2>4 DEF QueueInv
<1>18. WakeInv'
  <2> SUFFICES ASSUME NEW i \in ToSet(ready_queue_')
               PROVE  \E k \in DOMAIN PipesOf(i) : Events(pipe'[PipesOf(i)[k]]) # {}
    BY <1>2 DEF WakeInv, PipesOf
  <2>1. Refused(pipe', i)
    BY <1>3, ToSetIsRange
  <2>2. i \in Range(issue_queue_)
    BY <1>3, <1>5, ToSetIsRange
  <2>3. i.pid \in 1..Len(program) /\ Here(i)
    BY <2>2, QueuedPid
  <2>4. 1 \in DOMAIN PipesOf(i)
    BY <2>3, PipesOfFacts DEF IInv, StateInv
  <2> DEFINE p == PipesOf(i)[1]
  <2>5. p \in Pipes /\ pipe'[p].unit_busy_
    BY <2>1, <2>4 DEF Refused
  <2> HIDE DEF p
  <2>6. pipe'[p].execute \cup pipe'[p].issue # {}
    BY <1>12, <2>5 DEF PipeInv
  <2>7. Events(pipe'[p]) # {}
    BY <2>6 DEF Events
  <2> QED
    BY <2>4, <2>7 DEF p
<1> QED
  BY <1>8, <1>9, <1>12, <1>15, <1>17, <1>18 DEF IInv

\* Every step keeps the invariant.
LEMMA NextKeepsIInv == WaitsInOneFile /\ IInv /\ [Next]_vars => IInv'
<1> SUFFICES ASSUME WaitsInOneFile, IInv, [Next]_vars PROVE IInv'
  OBVIOUS
<1>1. CASE Handlers
  BY <1>1, ScoreboardKeepsIInv, ExecutesKeepsIInv, ReissuesKeepsIInv, CompletesKeepsIInv,
     IssueKeepsIInv DEF Handlers
<1>2. CASE nextPhase
  BY <1>2, AgeingKeepsIInv, PhaseKeepsIInv
<1> QED
  BY <1>1, <1>2, DispatchKeepsIInv, OtherKeepsIInv, FlushKeepsIInv, StutterKeepsIInv DEF Next

-----------------------------------------------------------------------------
(* What the invariant says.                                                *)

\* In a queue that holds nothing twice an element has one place or none.
LEMMA OnePlace ==
    ASSUME NEW q, IsSequence(q), Distinct(q), NEW x
    PROVE  Cardinality(PlacesOf(x, q)) = IF x \in Range(q) THEN 1 ELSE 0
<1>1. CASE x \in Range(q)
  <2>1. PICK k \in DOMAIN q : q[k] = x
    BY <1>1 DEF Range
  <2>2. PlacesOf(x, q) = {k}
    BY <2>1 DEF PlacesOf, Distinct
  <2>3. Cardinality({k}) = 1
    BY FS_Singleton
  <2> QED
    BY <1>1, <2>2, <2>3
<1>2. CASE x \notin Range(q)
  <2>1. PlacesOf(x, q) = {}
    BY <1>2 DEF PlacesOf, Range
  <2>2. Cardinality({}) = 0
    BY FS_EmptySet
  <2> QED
    BY <1>2, <2>1, <2>2
<1> QED
  BY <1>1, <1>2

\* Every variable has its type.
LEMMA IInvTypes == IInv /\ CutInv => TypeOK
<1> SUFFICES ASSUME IInv, CutInv PROVE TypeOK
  OBVIOUS
<1>1. /\ phase \in DOMAIN NextOf /\ program \in Programs
      /\ {ev_issue_ready_inst_, fifo_} \subseteq BOOLEAN
      /\ ready \subseteq 0..Len(program)
      /\ {next_pid, next_uid, credits, flushed_by} \subseteq Nat
      /\ writes \subseteq [reg : 1..Len(program), due : {0, 1}]
  BY DEF IInv, StateInv
<1>2. live \subseteq InstType
  BY DEF IInv, LiveInv
<1>3. \A i \in Range(issue_queue_) : i \in InstType
  BY QueuedPid
<1>4. issue_queue_ \in Seq(InstType) /\ ready_queue_ \in Seq(InstType)
  <2>1. Range(issue_queue_) \subseteq InstType /\ Range(ready_queue_) \subseteq InstType
    BY <1>3, ToSetIsRange DEF IInv, QueueInv
  <2>2. /\ issue_queue_ \in Seq(Range(issue_queue_)) /\ ready_queue_ \in Seq(Range(ready_queue_))
    BY DEF IInv, QueueInv, IsSequence
  <2> QED
    BY <2>1, <2>2, WiderSeq
<1>5. callbacks \in Seq([inst : InstType, file : Files])
  <2>1. ASSUME NEW c \in Range(callbacks) PROVE c \in [inst : InstType, file : Files]
    <3>1. c.inst \in InstType /\ c.file \in Files /\ c = [inst |-> c.inst, file |-> c.file]
      BY <1>3, CallbackIs
    <3> QED
      BY <3>1
  <2>2. callbacks \in Seq(Range(callbacks))
    BY DEF IInv, QueueInv, IsSequence
  <2>3. Range(callbacks) \subseteq [inst : InstType, file : Files]
    BY <2>1
  <2> QED
    BY <2>2, <2>3, WiderSeq
<1>6. ASSUME NEW p \in Pipes
      PROVE  /\ DOMAIN pipe[p] = DOMAIN IdlePipe
             /\ {pipe[p].num_passes_needed_, pipe[p].curr_num_pass_} \subseteq Nat
             /\ Events(pipe[p]) \subseteq EventType
             /\ \A e \in pipe[p].complete : e.due \in {0, 1}
  <2>1. pipe[p] \in PipeType /\ \A e \in pipe[p].complete : e.due \in {0, 1}
    BY DEF IInv, PipeInv
  <2>2. DOMAIN pipe[p] = DOMAIN IdlePipe
    BY <2>1 DEF PipeType, IdlePipe
  <2>3. /\ {pipe[p].num_passes_needed_, pipe[p].curr_num_pass_} \subseteq Nat
        /\ pipe[p].execute \subseteq EventType /\ pipe[p].issue \subseteq EventType
        /\ pipe[p].complete \subseteq EventType
    BY <2>1 DEF PipeType
  <2>4. Events(pipe[p]) \subseteq EventType
    BY <2>3 DEF Events
  <2> QED
    BY <2>1, <2>2, <2>3, <2>4
<1> QED
  BY <1>1, <1>2, <1>4, <1>5, <1>6 DEF TypeOK, CutInv

\* Every live instruction of this unit is in one place.
LEMMA IInvOnePlace == IInv => InOnePlace
<1> SUFFICES ASSUME IInv PROVE InOnePlace
  OBVIOUS
<1>1. IsSequence(issue_queue_) /\ Distinct(issue_queue_)
  BY DEF IInv, QueueInv
<1>2. ASSUME NEW i \in live, Here(i)
      PROVE  Cardinality(PlacesOf(i, issue_queue_)) + Cardinality(EventsOf(i)) = 1
  <2>1. Cardinality(PlacesOf(i, issue_queue_)) = IF i \in Range(issue_queue_) THEN 1 ELSE 0
    BY <1>1, OnePlace
  <2>2. CASE i \in Range(issue_queue_)
    <3>1. \A p \in Pipes : {x \in Events(pipe[p]) : x.inst = i} = {}
      BY <2>2, ToSetIsRange DEF IInv, PlaceInv
    <3>2. EventsOf(i) = {}
      BY <3>1 DEF EventsOf
    <3>3. Cardinality(EventsOf(i)) = 0
      BY <3>2, FS_EmptySet
    <3> QED
      BY <2>1, <2>2, <3>3
  <2>3. CASE i \notin Range(issue_queue_)
    <3>1. PICK p \in Pipes : \E e \in Events(pipe[p]) : e.inst = i
      BY <1>2, <2>3, ToSetIsRange DEF IInv, PlaceInv
    <3>2. PICK e \in Events(pipe[p]) : e.inst = i
      BY <3>1
    <3>3. \A q \in Pipes : \A f \in Events(pipe[q]) : f.inst = i => q = p /\ f = e
      BY <3>2 DEF IInv, PlaceInv
    <3>4. ASSUME NEW y \in EventsOf(i) PROVE y = <<p, e>>
      <4>1. PICK q \in Pipes : y \in {<<q, f>> : f \in {x \in Events(pipe[q]) : x.inst = i}}
        BY <3>4 DEF EventsOf
      <4>2. PICK f \in Events(pipe[q]) : f.inst = i /\ y = <<q, f>>
        BY <4>1
      <4> QED
        BY <3>3, <4>2
    <3>5. <<p, e>> \in EventsOf(i)
      <4>1. <<p, e>> \in {<<p, f>> : f \in {x \in Events(pipe[p]) : x.inst = i}}
        BY <3>2
      <4> QED
        BY <4>1 DEF EventsOf
    <3>6. EventsOf(i) = {<<p, e>>}
      BY <3>4, <3>5
    <3>7. Cardinality({<<p, e>>}) = 1
      BY FS_Singleton
    <3> QED
      BY <2>1, <2>3, <3>6, <3>7
  <2> QED
    BY <2>2, <2>3
<1>3. \A p \in Pipes : \A e \in Events(pipe[p]) : e.inst \in live
  BY DEF IInv, PlaceInv
<1>4. ToSet(issue_queue_) \subseteq live
  BY DEF IInv, PlaceInv
<1>5. ToSet(ready_queue_) \cup {c.inst : c \in ToSet(callbacks)} \subseteq ToSet(issue_queue_)
  <2>1. ToSet(ready_queue_) \subseteq ToSet(issue_queue_)
    BY DEF IInv, QueueInv
  <2>2. \A c \in ToSet(callbacks) : c.inst \in ToSet(issue_queue_)
    BY CallbackIs, ToSetIsRange
  <2> QED
    BY <2>1, <2>2
<1> QED
  BY <1>2, <1>3, <1>4, <1>5 DEF InOnePlace

\* Who has all its sources is ready, and who waits has its callbacks.
LEMMA IInvOperands == IInv => OperandsExact
<1> SUFFICES ASSUME IInv, NEW i \in ToSet(issue_queue_) PROVE
      LET waits == {f \in Files : ~(Srcs(i, f) \subseteq ready)}
      IN  /\ Cardinality(PlacesOf(i, ready_queue_)) = (IF waits = {} THEN 1 ELSE 0)
          /\ \A f \in Files : Cardinality(PlacesOf([inst |-> i, file |-> f], callbacks))
                                  = (IF f \in waits THEN 1 ELSE 0)
  BY DEF OperandsExact
<1> DEFINE waits == {f \in Files : ~(Srcs(i, f) \subseteq ready)}
<1>1. i \in Range(issue_queue_)
  BY ToSetIsRange
<1>2. \A f \in Files : f \in waits <=> Unready(i, f, ready)
  BY DEF Unready
<1>3. i \in Range(ready_queue_) <=> waits = {}
  <2>1. i \in Range(ready_queue_) <=> \A f \in Files : ~Unready(i, f, ready)
    BY <1>1, ToSetIsRange DEF IInv, QueueInv
  <2> QED
    BY <1>2, <2>1
<1>4. /\ IsSequence(ready_queue_) /\ Distinct(ready_queue_)
      /\ IsSequence(callbacks) /\ Distinct(callbacks)
  BY DEF IInv, QueueInv
<1>5. Cardinality(PlacesOf(i, ready_queue_)) = (IF waits = {} THEN 1 ELSE 0)
  <2>1. Cardinality(PlacesOf(i, ready_queue_)) = IF i \in Range(ready_queue_) THEN 1 ELSE 0
    BY <1>4, OnePlace
  <2> QED
    BY <1>3, <2>1
<1>6. ASSUME NEW f \in Files
      PROVE  Cardinality(PlacesOf([inst |-> i, file |-> f], callbacks))
                 = (IF f \in waits THEN 1 ELSE 0)
  <2> DEFINE c == [inst |-> i, file |-> f]
  <2>1. c \in Range(callbacks) <=> f \in waits
    <3>1. ASSUME c \in Range(callbacks) PROVE Unready(i, f, ready)
      <4>1. c.inst = i /\ c.file = f
        OBVIOUS
      <4> HIDE DEF c
      <4> QED
        BY <3>1, <4>1, CallbackIs
    <3>2. ASSUME Unready(i, f, ready) PROVE c \in Range(callbacks)
      BY <1>1, <3>2, ToSetIsRange DEF IInv, QueueInv
    <3> QED
      BY <1>2, <3>1, <3>2
  <2> HIDE DEF c
  <2>2. Cardinality(PlacesOf(c, callbacks)) = IF c \in Range(callbacks) THEN 1 ELSE 0
    BY <1>4, OnePlace
  <2> QED
    BY <2>1, <2>2 DEF c
<1> QED
  BY <1>5, <1>6

\* Between cycles a pipe of every ready instruction, or the queue's event, is not done.
LEMMA IInvWakes == IInv => IssueWakes
<1> SUFFICES ASSUME IInv, phase = "port", NEW i \in ToSet(ready_queue_), ~ev_issue_ready_inst_
             PROVE  \E p \in ToSet(PipeMapping[program[i.pid].target]) :
                        pipe[p].execute \cup pipe[p].complete # {}
  BY DEF IssueWakes
<1>1. PICK k \in DOMAIN PipesOf(i) : Events(pipe[PipesOf(i)[k]]) # {}
  BY DEF IInv, WakeInv, PipesOf
<1> DEFINE p == PipesOf(i)[k]
<1>2. i \in Range(issue_queue_)
  BY ToSetIsRange DEF IInv, QueueInv
<1>3. i.pid \in 1..Len(program) /\ Here(i)
  BY <1>2, QueuedPid
<1>4. p \in Pipes
  BY <1>3, PipesOfFacts DEF IInv, StateInv
<1>5. p \in ToSet(PipesOf(i))
  BY DEF ToSet
<1>6. Events(pipe[p]) # {}
  BY <1>1
<1> HIDE DEF p
<1>7. pipe[p].issue = {}
  BY <1>4 DEF IInv, PipeInv
<1>8. pipe[p].execute \cup pipe[p].complete # {}
  BY <1>6, <1>7 DEF Events
<1> QED
  BY <1>5, <1>8 DEF PipesOf

\* A pipe is busy with one instruction or idle.
LEMMA IInvBusy == IInv => BusyExact
<1> SUFFICES ASSUME IInv, NEW p \in Pipes
             PROVE  Cardinality(pipe[p].execute \cup pipe[p].issue) =
                        IF pipe[p].unit_busy_ THEN 1 ELSE 0
  BY DEF BusyExact
<1> DEFINE S == pipe[p].execute \cup pipe[p].issue
<1>1. (\A e, f \in S : e = f) /\ (pipe[p].unit_busy_ <=> S # {})
  BY DEF IInv, PipeInv
<1> HIDE DEF S
<1>2. CASE S = {}
  BY <1>1, <1>2, FS_EmptySet DEF S
<1>3. CASE S # {}
  <2>1. PICK e : e \in S
    BY <1>3
  <2>2. S = {e}
    BY <1>1, <2>1
  <2>3. Cardinality({e}) = 1
    BY FS_Singleton
  <2> QED
    BY <1>1, <1>3, <2>2, <2>3 DEF S
<1> QED
  BY <1>2, <1>3

\* No pipe has been cut.
LEMMA InitCutInv == Init => CutInv
  BY DEF Init, CutInv

\* Only a flush cuts, and only pipes.
LEMMA NextKeepsCutInv == CutInv /\ [Next]_vars => CutInv'
<1> SUFFICES ASSUME CutInv, [Next]_vars PROVE CutInv'
  OBVIOUS
<1>1. CASE Flush
  BY <1>1 DEF Flush, CutInv
<1>2. CASE ~Flush
  <2>1. UNCHANGED cut
    BY <1>2 DEF Next, Handlers, Dispatch, OtherUnitCompletes, ScoreboardUpdate, PipeExecutes,
                PipeReissues, PipeCompletes, Issue, nextPhase, vars, envVars
  <2> QED
    BY <2>1 DEF CutInv
<1> QED
  BY <1>1, <1>2

\* Every instruction of the unit is in one place, has an entry or a credit, and everything
\* has its type: for every program whose instructions wait in one register file.
THEOREM QueueIsExact == ASSUME WaitsInOneFile PROVE Spec => []QueueExact
<1>1. IInv /\ CutInv => QueueExact
  BY IInvTypes, IInvOnePlace DEF IInv, QueueExact
<1>2. IInv /\ [Next]_vars => IInv'
  BY NextKeepsIInv
<1> QED
  BY <1>1, <1>2, InitIInv, InitCutInv, NextKeepsCutInv, PTL DEF Spec

\* Readiness is never missed: an instruction is in the ready queue exactly when it has all
\* its sources, and then it is offered or one of its pipes will wake the queue.
THEOREM ReadyIsExact == ASSUME WaitsInOneFile PROVE Spec => []ReadyExact
<1>1. IInv => ReadyExact
  BY IInvOperands, IInvWakes DEF ReadyExact
<1>2. IInv /\ [Next]_vars => IInv'
  BY NextKeepsIInv
<1> QED
  BY <1>1, <1>2, InitIInv, PTL DEF Spec

-----------------------------------------------------------------------------
(* Passes.                                                                 *)

\* Passes are a matter of the program.
LEMMA PassFrame ==
    ASSUME UNCHANGED program
    PROVE  /\ \A i : (isVInt(i)' <=> isVInt(i)) /\ NumPasses(i)' = NumPasses(i)
           /\ PassInv' <=> \A p \in Pipes \ cut' : PassFine(pipe'[p])
<1>1. \A i : isVInt(i)' <=> isVInt(i)
  BY DEF isVInt
<1>2. \A i : NumPasses(i)' = NumPasses(i)
  BY DEF NumPasses
<1>3. PassInv' <=> \A p \in Pipes \ cut' : PassFine(pipe'[p])
  BY <1>1, <1>2 DEF PassInv, PassFine
<1> QED
  BY <1>1, <1>2, <1>3

\* One pipe changes.
LEMMA PassStep ==
    ASSUME PassInv, IInv, UNCHANGED <<program, cut>>, NEW p \in Pipes, NEW r,
           pipe' = [pipe EXCEPT ![p] = r], p \notin cut => PassFine(r)
    PROVE  PassInv'
<1>1. pipe'[p] = r /\ \A q \in Pipes : q # p => pipe'[q] = pipe[q]
  BY DEF IInv, PipeInv
<1>2. \A q \in Pipes \ cut' : PassFine(pipe'[q])
  BY <1>1 DEF PassInv
<1> QED
  BY <1>2, PassFrame

\* An execution: the uop goes round again, or has made its passes.
LEMMA ExecutesKeepsPasses ==
    ASSUME IInv, PassInv, PipeExecutes
    PROVE  PassInv'
<1>0. PICK p \in Pipes : \E e \in pipe[p].execute : pipe' = [pipe EXCEPT ![p] = executeInst(@, e)]
  BY DEF PipeExecutes
<1>1. PICK e \in pipe[p].execute : pipe' = [pipe EXCEPT ![p] = executeInst(@, e)]
  BY <1>0
<1> DEFINE x == pipe[p]
           r == executeInst(x, e)
           d == [inst |-> e.inst, due |-> 1, passes |-> e.passes]
<1>2. pipe' = [pipe EXCEPT ![p] = r] /\ UNCHANGED <<program, cut>>
  BY <1>1 DEF PipeExecutes
<1> SUFFICES ASSUME p \notin cut PROVE PassFine(r)
  BY <1>2, PassStep
<1>3. /\ x \in PipeType /\ x.execute = {e} /\ x.issue = {} /\ e \in EventType
  BY <1>1, BusyWith
<1>4. PassFine(x)
  BY DEF PassInv
<1> HIDE DEF x
<1>5. Executed(r, x, e)
  BY <1>3, ExecuteInstFacts
<1> HIDE DEF r
<1>6. x.num_passes_needed_ \in Nat /\ x.curr_num_pass_ \in Nat
  BY <1>3 DEF PipeType
<1>7. CASE AnotherPass(x)
  <2>1. /\ r.execute = {} /\ r.issue = {e} /\ r.complete = x.complete
        /\ r.num_passes_needed_ = x.num_passes_needed_ /\ r.curr_num_pass_ = x.curr_num_pass_
    <3>1. /\ r.execute = x.execute \ {e} /\ r.issue = x.issue \cup {e} /\ r.complete = x.complete
          /\ r.num_passes_needed_ = x.num_passes_needed_ /\ r.curr_num_pass_ = x.curr_num_pass_
      BY <1>5, <1>7, Zenon DEF Executed
    <3> QED
      BY <1>3, <3>1
  <2>2. PassFine(r)
    BY <1>3, <1>4, <1>6, <1>7, <2>1 DEF PassFine, AnotherPass
  <2> QED
    BY <2>2
<1>8. CASE ~AnotherPass(x)
  <2>1. /\ r.execute = {} /\ r.issue = {} /\ r.complete = x.complete \cup {d}
        /\ r.num_passes_needed_ = 0 /\ r.curr_num_pass_ = 0
    <3>1. /\ r.execute = x.execute \ {e} /\ r.issue = x.issue /\ r.complete = x.complete \cup {d}
          /\ r.num_passes_needed_ = 0 /\ r.curr_num_pass_ = 0
      BY <1>5, <1>8, Zenon DEF Executed
    <3> QED
      BY <1>3, <3>1
  <2>2. d.inst = e.inst /\ d.passes = e.passes
    OBVIOUS
  <2> HIDE DEF d
  <2>3. NumPasses(e.inst) \in Int
    <3>1. e.inst.pid \in 1..Len(program)
      BY <1>3 DEF EventType, InstType
    <3> QED
      BY <3>1, NumPassesInt DEF IInv, StateInv
  <2>4. Max({1, NumPasses(e.inst)}) = IF NumPasses(e.inst) > 1 THEN NumPasses(e.inst) ELSE 1
    BY <2>3, MaxOfTwo
  <2>5. e.passes = IF isVInt(e.inst) THEN Max({1, NumPasses(e.inst)}) ELSE 1
    <3>1. CASE x.num_passes_needed_ = 0
      BY <1>3, <1>4, <2>3, <2>4, <3>1 DEF PassFine
    <3>2. CASE x.num_passes_needed_ # 0
      <4>1. /\ isVInt(e.inst) /\ x.num_passes_needed_ = NumPasses(e.inst) /\ NumPasses(e.inst) > 1
            /\ e.passes = x.curr_num_pass_ /\ x.curr_num_pass_ \in 1..x.num_passes_needed_
        BY <1>3, <1>4, <3>2 DEF PassFine
      <4>2. x.curr_num_pass_ = x.num_passes_needed_
        BY <1>6, <1>8, <3>2, <4>1 DEF AnotherPass
      <4> QED
        BY <2>4, <4>1, <4>2
    <3> QED
      BY <3>1, <3>2
  <2>6. PassFine(r)
    BY <1>4, <2>1, <2>2, <2>5 DEF PassFine
  <2> QED
    BY <2>6
<1> QED
  BY <1>7, <1>8

\* The uop's next pass.
LEMMA ReissuesKeepsPasses ==
    ASSUME IInv, PassInv, PipeReissues
    PROVE  PassInv'
<1>0. PICK p \in Pipes : \E e \in pipe[p].issue : pipe' = [pipe EXCEPT ![p] = reissueInst(@, e)]
  BY DEF PipeReissues
<1>1. PICK e \in pipe[p].issue : pipe' = [pipe EXCEPT ![p] = reissueInst(@, e)]
  BY <1>0
<1> DEFINE x == pipe[p]
           y == [x EXCEPT !.issue = @ \ {e}]
           r == insertInst(y, e.inst, e.passes)
           d == Entry(e.inst, e.passes)
<1>2. pipe' = [pipe EXCEPT ![p] = r] /\ UNCHANGED <<program, cut>>
  BY <1>1 DEF reissueInst, PipeReissues, envVars
<1> SUFFICES ASSUME p \notin cut PROVE PassFine(r)
  BY <1>2, PassStep
<1>3. /\ x \in PipeType /\ x.issue = {e} /\ x.execute = {} /\ e \in EventType
  BY <1>1, BusyWith
<1>4. PassFine(x)
  BY DEF PassInv
<1> HIDE DEF x
<1>5. /\ y \in PipeType /\ y.execute = x.execute /\ y.issue = x.issue \ {e}
      /\ y.complete = x.complete /\ y.num_passes_needed_ = x.num_passes_needed_
      /\ y.curr_num_pass_ = x.curr_num_pass_
  <2>1. Dropped(y, x, x.issue \ {e}, x.complete)
    BY <1>3, DropFacts, Zenon
  <2> HIDE DEF y
  <2> QED
    BY <2>1, Zenon DEF Dropped
<1> HIDE DEF y
<1>6. Inserted(r, y, e.inst, e.passes)
  BY <1>5, InsertInstFacts
<1> HIDE DEF r
<1>7. /\ isVInt(e.inst) /\ x.num_passes_needed_ = NumPasses(e.inst) /\ x.num_passes_needed_ # 0
      /\ NumPasses(e.inst) > 1 /\ e.passes = x.curr_num_pass_
      /\ x.curr_num_pass_ \in 1..x.num_passes_needed_ /\ x.curr_num_pass_ < x.num_passes_needed_
  BY <1>3, <1>4 DEF PassFine
<1>8. ~Multi(y, e.inst) /\ ~FirstPass(y)
  BY <1>5, <1>7 DEF Multi, FirstPass
<1>9. /\ r.execute = {d} /\ r.issue = {} /\ r.complete = x.complete
      /\ r.num_passes_needed_ = x.num_passes_needed_ /\ r.curr_num_pass_ = x.curr_num_pass_ + 1
  BY <1>3, <1>5, <1>6, <1>7, <1>8 DEF Inserted
<1>10. d.inst = e.inst /\ d.passes = x.curr_num_pass_ + 1
  BY <1>7 DEF Entry
<1> HIDE DEF d
<1>11. x.num_passes_needed_ \in Nat /\ x.curr_num_pass_ \in Nat
  BY <1>3 DEF PipeType
<1>12. PassFine(r)
  BY <1>4, <1>7, <1>9, <1>10, <1>11 DEF PassFine
<1> QED
  BY <1>12

\* A completion leaves the counters alone.
LEMMA CompletesKeepsPasses ==
    ASSUME IInv, PassInv, PipeCompletes
    PROVE  PassInv'
<1>0. PICK p \in Pipes : \E e \in pipe[p].complete : pipe' = [pipe EXCEPT ![p] = completeInst(@, e)]
  BY DEF PipeCompletes
<1>1. PICK e \in pipe[p].complete : pipe' = [pipe EXCEPT ![p] = completeInst(@, e)]
  BY <1>0
<1> DEFINE x == pipe[p]
           r == completeInst(x, e)
<1>2. pipe' = [pipe EXCEPT ![p] = r] /\ UNCHANGED <<program, cut>>
  BY <1>1 DEF PipeCompletes
<1> SUFFICES ASSUME p \notin cut PROVE PassFine(r)
  BY <1>2, PassStep
<1>3. x \in PipeType /\ PassFine(x)
  BY BusyWith DEF PassInv
<1> HIDE DEF x
<1>4. Dropped(r, x, x.issue, x.complete \ {e})
  BY <1>3, DropFacts
<1> HIDE DEF r
<1>5. /\ r.execute = x.execute /\ r.issue = x.issue /\ r.complete = x.complete \ {e}
      /\ r.num_passes_needed_ = x.num_passes_needed_ /\ r.curr_num_pass_ = x.curr_num_pass_
  BY <1>4, Zenon DEF Dropped
<1>6. PassFine(r)
  BY <1>3, <1>5 DEF PassFine
<1> QED
  BY <1>6

\* An issued uop starts its first pass, or needs one only: an idle pipe has no counters left.
LEMMA IssueKeepsPasses ==
    ASSUME IInv, PassInv, Issue
    PROVE  PassInv'
<1>1. PICK at, s : Served(pipe', at, s, ready_queue_', Range(ready_queue_))
  BY SendFacts DEF Issue
<1>2. Taken(pipe', at, s) /\ s \subseteq Range(ready_queue_) /\ UNCHANGED <<program, cut>>
  BY <1>1 DEF Served, Issue
<1>3. \A p \in Pipes : (\A i \in s : at[i] # p) => pipe'[p] = pipe[p]
  BY <1>2 DEF Taken
<1>4. ASSUME NEW p \in Pipes \ cut, NEW i \in s, at[i] = p
      PROVE  PassFine(pipe'[p])
  <2> DEFINE x == pipe[p]
             r == pipe'[p]
             d == Entry(i, 0)
  <2>1. Issued(r, x, i)
    BY <1>2, <1>4, IssuedPipe
  <2>2. PassFine(x)
    BY DEF PassInv
  <2>3. i.pid \in 1..Len(program) /\ program \in Programs
    <3>1. i \in Range(issue_queue_)
      BY <1>2, ToSetIsRange DEF IInv, QueueInv
    <3> QED
      BY <3>1, QueuedPid DEF IInv, StateInv
  <2>4. NumPasses(i) \in Int
    BY <2>3, NumPassesInt
  <2> HIDE DEF x, r
  <2>5. /\ x.execute = {} /\ x.issue = {} /\ Inserted(r, x, i, 0)
        /\ r.execute = {d} /\ r.issue = {} /\ r.complete = x.complete
    BY <2>1, Zenon DEF Issued
  <2>6. x.num_passes_needed_ = 0 /\ x.curr_num_pass_ = 0
    BY <2>2, <2>5 DEF PassFine
  <2>7. /\ r.num_passes_needed_ = IF Multi(x, i) THEN NumPasses(i) ELSE 0
        /\ r.curr_num_pass_ = IF Multi(x, i) THEN 1 ELSE 0
    BY <2>5, <2>6 DEF Inserted, FirstPass
  <2>8. Multi(x, i) <=> isVInt(i) /\ NumPasses(i) > 1
    BY <2>6 DEF Multi, FirstPass
  <2>9. d.inst = i /\ d.passes = 1
    BY DEF Entry
  <2> HIDE DEF d
  <2>10. PassFine(r)
    BY <2>2, <2>4, <2>5, <2>7, <2>8, <2>9 DEF PassFine
  <2> QED
    BY <2>10 DEF r
<1>5. \A p \in Pipes \ cut : PassFine(pipe'[p])
  BY <1>3, <1>4 DEF PassInv
<1> QED
  BY <1>2, <1>5, PassFrame

\* The counters are those of the cycle before.
LEMMA AgeingKeepsPasses ==
    ASSUME IInv, PassInv, nextPhase, phase = "issue"
    PROVE  PassInv'
<1>1. pipe' = [p \in Pipes |-> AgedPipe(pipe[p])] /\ UNCHANGED <<program, cut>>
  BY DEF nextPhase
<1>2. ASSUME NEW p \in Pipes \ cut
      PROVE  PassFine(pipe'[p])
  <2> DEFINE x == pipe[p]
             r == pipe'[p]
  <2>1. x \in PipeType /\ x.issue = {} /\ \A e \in x.execute \cup x.complete : e.due > 0
    BY DEF IInv, PipeInv
  <2>2. r = AgedPipe(x)
    BY <1>1
  <2>3. PassFine(x)
    BY DEF PassInv
  <2> HIDE DEF x, r
  <2>4. /\ r.num_passes_needed_ = x.num_passes_needed_ /\ r.curr_num_pass_ = x.curr_num_pass_
        /\ r.execute = {Later(e) : e \in x.execute} /\ r.issue = x.issue
        /\ r.complete = {Later(e) : e \in x.complete}
    BY <2>1, <2>2, AgedPipeFacts
  <2>5. \A e : Later(e).inst = e.inst /\ Later(e).passes = e.passes
    BY DEF Later
  <2>6. /\ \A e \in r.execute : \E f \in x.execute : e.inst = f.inst /\ e.passes = f.passes
        /\ \A e \in r.complete : \E f \in x.complete : e.inst = f.inst /\ e.passes = f.passes
        /\ r.issue = {} /\ (x.execute # {} => r.execute # {})
    BY <2>1, <2>4, <2>5
  <2>6a. r.execute \cup r.issue = r.execute /\ x.execute \cup x.issue = x.execute
    BY <2>1, <2>6
  <2>7. \A e \in r.complete :
           e.passes = IF isVInt(e.inst) THEN Max({1, NumPasses(e.inst)}) ELSE 1
    BY <2>3, <2>6 DEF PassFine
  <2>8. ASSUME x.num_passes_needed_ = 0 PROVE PassFine(r)
    <3>1. /\ x.curr_num_pass_ = 0
          /\ \A f \in x.execute : f.passes = 1 /\ (isVInt(f.inst) => NumPasses(f.inst) <= 1)
      BY <2>3, <2>8 DEF PassFine
    <3>2. \A e \in r.execute : e.passes = 1 /\ (isVInt(e.inst) => NumPasses(e.inst) <= 1)
      BY <2>6, <3>1
    <3> QED
      BY <2>4, <2>6, <2>6a, <2>7, <2>8, <3>1, <3>2 DEF PassFine
  <2>9. ASSUME x.num_passes_needed_ # 0 PROVE PassFine(r)
    <3> DEFINE num == x.num_passes_needed_
               curr == x.curr_num_pass_
    <3>1. /\ x.execute # {}
          /\ \A f \in x.execute : /\ isVInt(f.inst) /\ num = NumPasses(f.inst)
                                  /\ num > 1 /\ f.passes = curr /\ curr \in 1..num
      BY <2>3, <2>6a, <2>9 DEF PassFine
    <3>2. \A e \in r.execute : /\ isVInt(e.inst) /\ num = NumPasses(e.inst)
                               /\ num > 1 /\ e.passes = curr /\ curr \in 1..num
      BY <2>6, <3>1
    <3> QED
      BY <2>4, <2>6, <2>6a, <2>7, <2>9, <3>1, <3>2 DEF PassFine
  <2>10. PassFine(r)
    BY <2>8, <2>9
  <2> QED
    BY <2>10 DEF r
<1> QED
  BY <1>1, <1>2, PassFrame

\* A flush leaves the counters of a pipe: they are zero, or it cuts the pipe.
LEMMA FlushKeepsPasses ==
    ASSUME IInv, PassInv, Flush
    PROVE  PassInv'
<1>1. UNCHANGED program /\ cut' = cut \cup {p \in Pipes : ~FirstPass(pipe[p])}
  BY DEF Flush
<1>2. ASSUME NEW p \in Pipes \ cut'
      PROVE  PassFine(pipe'[p])
  <2>1. PassFine(pipe[p]) /\ pipe[p].num_passes_needed_ = 0
    BY <1>1 DEF PassInv, FirstPass
  <2>2. pipe[p].curr_num_pass_ = 0
    BY <2>1 DEF PassFine
  <2>3. /\ pipe'[p].execute = {} /\ pipe'[p].issue = {} /\ pipe'[p].complete = {}
        /\ pipe'[p].num_passes_needed_ = pipe[p].num_passes_needed_
        /\ pipe'[p].curr_num_pass_ = pipe[p].curr_num_pass_
    BY FlushEmpties
  <2> QED
    BY <2>1, <2>2, <2>3 DEF PassFine
<1> QED
  BY <1>1, <1>2, PassFrame

\* Everything else leaves the pipes as they are.
LEMMA OthersKeepPasses ==
    ASSUME PassInv, UNCHANGED <<program, pipe, cut>>
    PROVE  PassInv'
<1>1. \A p \in Pipes \ cut' : PassFine(pipe'[p])
  BY DEF PassInv
<1> QED
  BY <1>1, PassFrame

\* Every step keeps the counters exact.
LEMMA NextKeepsPasses == IInv /\ PassInv /\ [Next]_vars => PassInv'
<1> SUFFICES ASSUME IInv, PassInv, [Next]_vars PROVE PassInv'
  OBVIOUS
<1>1. CASE Handlers
  <2>1. ScoreboardUpdate => UNCHANGED <<program, pipe, cut>>
    BY DEF ScoreboardUpdate
  <2> QED
    BY <1>1, <2>1, OthersKeepPasses, ExecutesKeepsPasses, ReissuesKeepsPasses,
       CompletesKeepsPasses, IssueKeepsPasses DEF Handlers
<1>2. CASE nextPhase
  <2>1. phase # "issue" => UNCHANGED <<program, pipe, cut>>
    BY <1>2 DEF nextPhase
  <2> QED
    BY <1>2, <2>1, OthersKeepPasses, AgeingKeepsPasses
<1>3. CASE Dispatch \/ OtherUnitCompletes \/ UNCHANGED vars
  <2>1. UNCHANGED <<program, pipe, cut>>
    BY <1>3 DEF Dispatch, OtherUnitCompletes, vars, envVars
  <2> QED
    BY <2>1, OthersKeepPasses
<1> QED
  BY <1>1, <1>2, <1>3, FlushKeepsPasses DEF Next

\* A pipe is busy with one instruction or idle, and an instruction leaves it after enough
\* passes for its elements and no more than a full uop takes, for every program whose
\* instructions wait in one register file: uops behind VL and flushed ones included.
THEOREM PipesAreExact == ASSUME WaitsInOneFile PROVE Spec => []PipesExact
<1>1. Init => PassInv
  <2> SUFFICES ASSUME Init PROVE PassInv
    OBVIOUS
  <2>1. \A p \in Pipes : pipe[p] = IdlePipe
    BY DEF Init
  <2>2. /\ IdlePipe.num_passes_needed_ = 0 /\ IdlePipe.curr_num_pass_ = 0
        /\ IdlePipe.execute = {} /\ IdlePipe.issue = {} /\ IdlePipe.complete = {}
    BY DEF IdlePipe
  <2>3. PassFine(IdlePipe)
    BY <2>2 DEF PassFine
  <2> QED
    BY <2>1, <2>3 DEF PassInv
<1>2. IInv /\ PassInv => PipesExact
  <2>1. ASSUME IInv, PassInv, NEW p \in Pipes \ cut, NEW e \in pipe[p].complete
        PROVE  LET op   == program[e.inst.pid]
                   full == ElementsPerUop(op)
               IN  IF isVInt(e.inst)
                   THEN /\ e.passes <= Max({1, full \div Adders})
                        /\ full % Adders = 0 \/ full < Adders
                           => e.passes * Adders >= BodyElements(op)
                   ELSE e.passes = 1
    <3>1. e.passes = IF isVInt(e.inst) THEN Max({1, NumPasses(e.inst)}) ELSE 1
      BY <2>1 DEF PassInv, PassFine
    <3>2. e.inst.pid \in 1..Len(program) /\ program \in Programs
      BY <2>1 DEF IInv, StateInv, PipeInv, PipeType, EventType, InstType
    <3>3. CASE isVInt(e.inst)
      <4>1. e.passes = Max({1, NumPasses(e.inst)})
        BY <3>1, <3>3
      <4> QED
        BY <3>2, <3>3, <4>1, PassesEnough
    <3> QED
      BY <3>1, <3>3
  <2>2. IInv /\ PassInv => PassesExact
    BY <2>1, Zenon DEF PassesExact
  <2> QED
    BY <2>2, IInvBusy DEF PipesExact
<1>3. IInv /\ PassInv /\ [Next]_vars => IInv' /\ PassInv'
  BY NextKeepsIInv, NextKeepsPasses
<1> QED
  BY <1>1, <1>2, <1>3, InitIInv, PTL DEF Spec
=============================================================================
