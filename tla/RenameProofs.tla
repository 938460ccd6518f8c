---------------------------- MODULE RenameProofs ----------------------------
(***************************************************************************)
(* Proofs about Rename for every register file, queue depth and number of  *)
(* instructions.  IInv is inductive, and GrantInv, ReadInv and DecodedInv  *)
(* beside it; the safety properties and ArchSpec follow from them.         *)
(***************************************************************************)
EXTENDS Rename, SequenceFacts

-----------------------------------------------------------------------------
(* Sequences and the sets of their elements.                               *)

\* What Append does to the elements.
LEMMA RangeAppend ==
    ASSUME NEW S, NEW s \in Seq(S), NEW e \in S
    PROVE  SeqRange(Append(s, e)) = SeqRange(s) \cup {e}
  <1>1. /\ DOMAIN s = 1..Len(s) /\ DOMAIN Append(s, e) = 1..(Len(s) + 1) /\ Len(s) \in Nat
        /\ \A k \in 1..Len(s) : Append(s, e)[k] = s[k]
        /\ Append(s, e)[Len(s) + 1] = e
    BY AppendProperties, LenProperties
  <1>2. ASSUME NEW x \in SeqRange(s) \cup {e} PROVE x \in SeqRange(Append(s, e))
    BY <1>1 DEF SeqRange
  <1>3. ASSUME NEW x \in SeqRange(Append(s, e)) PROVE x \in SeqRange(s) \cup {e}
    <2>1. PICK k \in 1..(Len(s) + 1) : x = Append(s, e)[k]
      BY <1>1 DEF SeqRange
    <2>2. k \in 1..Len(s) \/ k = Len(s) + 1
      BY <1>1
    <2> QED BY <1>1, <2>1, <2>2 DEF SeqRange
  <1> QED BY <1>2, <1>3

\* Dropping the head or the last element of a sequence without duplicates
\* removes exactly that element.
LEMMA RangeTail ==
    ASSUME NEW S, NEW s \in Seq(S), s # << >>, NoDup(s)
    PROVE  SeqRange(Tail(s)) = SeqRange(s) \ {Head(s)} /\ Head(s) \in SeqRange(s) /\ NoDup(Tail(s))
  <1>1. /\ Len(s) \in Nat \ {0} /\ DOMAIN s = 1..Len(s) /\ DOMAIN Tail(s) = 1..(Len(s) - 1)
        /\ \A k \in 1..(Len(s) - 1) : Tail(s)[k] = s[k + 1]
        /\ Head(s) = s[1]
    BY HeadTailProperties, LenProperties, EmptySeq
  <1>2. ASSUME NEW x \in SeqRange(Tail(s)) PROVE x \in SeqRange(s) /\ x # Head(s)
    <2>1. PICK k \in 1..(Len(s) - 1) : x = s[k + 1]
      BY <1>1 DEF SeqRange
    <2>2. k + 1 \in DOMAIN s /\ 1 \in DOMAIN s /\ k + 1 # 1
      BY <1>1
    <2> QED BY <1>1, <2>1, <2>2 DEF SeqRange, NoDup
  <1>3. ASSUME NEW x \in SeqRange(s), x # Head(s) PROVE x \in SeqRange(Tail(s))
    <2>1. PICK k \in 1..Len(s) : x = s[k]
      BY <1>1 DEF SeqRange
    <2>2. k - 1 \in 1..(Len(s) - 1) /\ (k - 1) + 1 = k
      BY <1>1, <1>3, <2>1
    <2>3. x = Tail(s)[k - 1]
      BY <1>1, <2>1, <2>2
    <2> QED BY <1>1, <2>2, <2>3 DEF SeqRange
  <1>4. NoDup(Tail(s))
    BY <1>1 DEF NoDup
  <1>5. Head(s) \in SeqRange(s)
    BY <1>1 DEF SeqRange
  <1> QED BY <1>2, <1>3, <1>4, <1>5

\* A queue without duplicates that loses its last element loses exactly that one.
LEMMA RangeFront ==
    ASSUME NEW S, NEW s \in Seq(S), s # << >>, NoDup(s)
    PROVE  LET t == SubSeq(s, 1, Len(s) - 1)
               l == s[Len(s)]
           IN  /\ t \in Seq(S) /\ Len(t) = Len(s) - 1 /\ \A k \in 1..(Len(s) - 1) : t[k] = s[k]
               /\ SeqRange(t) = SeqRange(s) \ {l} /\ l \in SeqRange(s)
  <1> DEFINE t == SubSeq(s, 1, Len(s) - 1)
             l == s[Len(s)]
  <1>1. Len(s) \in Nat \ {0} /\ DOMAIN s = 1..Len(s) /\ \A k \in 1..Len(s) : s[k] \in S
    BY LenProperties, EmptySeq, ElementOfSeq
  <1>2. t \in Seq(S) /\ Len(t) = Len(s) - 1 /\ \A k \in 1..(Len(s) - 1) : t[k] = s[k]
    <2>1. 1 \in Int /\ Len(s) - 1 \in Int /\ \A k \in 1..(Len(s) - 1) : s[k] \in S
      BY <1>1
    <2>2. /\ t \in Seq(S)
          /\ Len(t) = IF 1 <= Len(s) - 1 THEN Len(s) - 1 - 1 + 1 ELSE 0
          /\ \A k \in 1..(Len(s) - 1 - 1 + 1) : t[k] = s[1 + k - 1]
      BY <2>1, SubSeqProperties
    <2> QED BY <1>1, <2>2
  <1>3. DOMAIN t = 1..(Len(s) - 1)
    BY <1>2, LenProperties, SMTT(30)
  <1> HIDE DEF t
  <1>4. ASSUME NEW x \in SeqRange(t) PROVE x \in SeqRange(s) /\ x # l
    <2>1. PICK k \in 1..(Len(s) - 1) : x = s[k]
      BY <1>2, <1>3 DEF SeqRange
    <2> HIDE DEF l
    <2>2. k \in 1..Len(s) /\ Len(s) \in 1..Len(s) /\ k # Len(s)
      <3>1. Len(s) \in Nat /\ Len(s) # 0
        BY <1>1
      <3> QED BY <3>1
    <2> USE DEF l
    <2> QED BY <1>1, <2>1, <2>2 DEF SeqRange, NoDup
  <1>5. ASSUME NEW x \in SeqRange(s), x # l PROVE x \in SeqRange(t)
    <2>1. PICK k \in 1..Len(s) : x = s[k]
      BY <1>1 DEF SeqRange
    <2>2. k \in 1..(Len(s) - 1)
      BY <1>1, <1>5, <2>1
    <2> QED BY <1>2, <1>3, <2>1, <2>2 DEF SeqRange
  <1>6. l \in SeqRange(s)
    BY <1>1 DEF SeqRange
  <1> QED BY <1>2, <1>4, <1>5, <1>6 DEF t

\* Only finitely many instructions are in a queue.
LEMMA RangeFinite ==
    ASSUME NEW S, NEW s \in Seq(S)
    PROVE  IsFiniteSet(SeqRange(s)) /\ SeqRange(s) \subseteq S
  <1>1. Len(s) \in Nat /\ s \in [1..Len(s) -> S] /\ DOMAIN s = 1..Len(s)
    BY LenProperties
  <1>2. s \in Surjection(1..Len(s), SeqRange(s))
    BY <1>1 DEF SeqRange, Surjection
  <1>3. IsFiniteSet(1..Len(s))
    BY <1>1, FS_Interval
  <1>4. IsFiniteSet(SeqRange(s))
    BY <1>2, <1>3, FS_Surjection
  <1> QED BY <1>1, <1>4 DEF SeqRange

-----------------------------------------------------------------------------
(* Counting references.                                                    *)

\* 1 when the two registers are the same, else 0.
Is(p, q) == IF p = q THEN 1 ELSE 0

\* How many registers a map table maps to p, and how many instructions of a
\* set hold p.
Refs(f, p)  == Cardinality({a \in ARegs : f[a] = p})
Holds(R, p) == Cardinality({i \in R : i.prev = p})

\* Remapping d moves one reference from its old register to the new one.
LEMMA MapCount ==
    ASSUME NEW f \in [ARegs -> PRegs], NEW d \in ARegs, NEW n \in PRegs, NEW p \in PRegs
    PROVE  /\ Refs(f, p) \in Nat
           /\ Refs([f EXCEPT ![d] = n], p) = Refs(f, p) + Is(p, n) - Is(p, f[d])
  <1> DEFINE g == [f EXCEPT ![d] = n]
             F == {a \in ARegs : f[a] = p}
             G == {a \in ARegs : g[a] = p}
  <1>1. IsFiniteSet(F) /\ Cardinality(F) \in Nat
    BY RegisterAssumption, FS_Subset, FS_CardinalityType
  <1>2. /\ p = n /\ p # f[d] => G = F \cup {d} /\ d \notin F
        /\ p # n /\ p = f[d] => G = F \ {d} /\ d \in F
        /\ (p = n <=> p = f[d]) => G = F
    OBVIOUS
  <1> HIDE DEF F, G
  <1>3. Cardinality(G) = Cardinality(F) + Is(p, n) - Is(p, f[d])
    <2>1. CASE p = n /\ p # f[d]
      BY <1>1, <1>2, <2>1, FS_AddElement DEF Is
    <2>2. CASE p # n /\ p = f[d]
      BY <1>1, <1>2, <2>2, FS_RemoveElement DEF Is
    <2>3. CASE p = n /\ p = f[d]
      BY <1>1, <1>2, <2>3 DEF Is
    <2>4. CASE p # n /\ p # f[d]
      BY <1>1, <1>2, <2>4 DEF Is
    <2> QED BY <2>1, <2>2, <2>3, <2>4
  <1> QED BY <1>1, <1>3 DEF F, G, Refs

\* One more instruction in flight is one more holder of what it overwrote.
LEMMA HolderCount ==
    ASSUME NEW R, IsFiniteSet(R), NEW e, e \notin R, NEW p
    PROVE  /\ Holds(R, p) \in Nat
           /\ Holds(R \cup {e}, p) = Holds(R, p) + Is(p, e.prev)
  <1> DEFINE H == {i \in R : i.prev = p}
             K == {i \in R \cup {e} : i.prev = p}
  <1>1. IsFiniteSet(H) /\ Cardinality(H) \in Nat
    BY FS_Subset, FS_CardinalityType
  <1>2. /\ e.prev = p => K = H \cup {e} /\ e \notin H
        /\ e.prev # p => K = H
    OBVIOUS
  <1> HIDE DEF H, K
  <1>3. Cardinality(K) = Cardinality(H) + Is(p, e.prev)
    <2>1. CASE e.prev = p
      BY <1>1, <1>2, <2>1, FS_AddElement DEF Is
    <2>2. CASE e.prev # p
      BY <1>1, <1>2, <2>2 DEF Is
    <2> QED BY <2>1, <2>2
  <1> QED BY <1>1, <1>3 DEF H, K, Holds

-----------------------------------------------------------------------------
(* Typing of the helpers.                                                  *)

\* The cached register counts (updateRegcountData_) are natural numbers.
LEMMA RegCountType ==
    ASSUME NEW q \in Seq(Uop)
    PROVE  RegCountData(q) \in [RegFiles -> Nat]
  <1>1. ASSUME NEW f \in RegFiles PROVE Cardinality(Counted(q, f)) \in Nat
    <2>1. Counted(q, f) \in SUBSET (1..Len(q)) /\ Len(q) \in Nat
      BY LenProperties DEF Counted
    <2>2. IsFiniteSet(1..Len(q))
      BY <2>1, FS_Interval
    <2> QED BY <2>1, <2>2, FS_Subset, FS_CardinalityType
  <1> QED BY <1>1 DEF RegCountData

-----------------------------------------------------------------------------
(* The register bookkeeping.                                               *)

\* Increasing uids: no instruction is twice in inst_queue_.
LEMMA InstQueueNoDup ==
    ASSUME TypeOK, OrderInv
    PROVE  NoDup(inst_queue_)
  <1>1. inst_queue_ \in Seq(Renamed)
    BY DEF TypeOK
  <1>2. DOMAIN inst_queue_ = 1..Len(inst_queue_) /\ Len(inst_queue_) \in Nat
    BY <1>1, LenProperties
  <1>3. \A k \in 1..Len(inst_queue_) : inst_queue_[k] \in Renamed
    BY <1>1, ElementOfSeq
  <1>4. \A k \in 1..Len(inst_queue_) : inst_queue_[k].uid \in Nat
    BY <1>3 DEF Renamed
  <1> QED BY <1>2, <1>4 DEF OrderInv, NoDup

\* Dropping a reference keeps counters and freelists in step.
LEMMA ReclaimKeeps ==
    ASSUME TypeOK, FreelistExact, NEW p \in PRegs, cnt[p] # 0, Reclaim(p, PFile[p])
    PROVE  /\ cnt' \in [PRegs -> Nat] /\ freelist' \in [RegFiles -> Seq(PRegs)]
           /\ \A x \in PRegs : cnt'[x] = cnt[x] - Is(x, p)
           /\ FreelistExact'
  <1>1. cnt' = [cnt EXCEPT ![p] = @ - 1] /\ cnt \in [PRegs -> Nat]
        /\ freelist \in [RegFiles -> Seq(PRegs)] /\ PFile[p] \in RegFiles
    BY RegisterAssumption DEF Reclaim, TypeOK
  <1>2. cnt' \in [PRegs -> Nat] /\ \A x \in PRegs : cnt'[x] = cnt[x] - Is(x, p)
    BY <1>1 DEF Is
  <1>3. CASE cnt[p] # 1
    <2>1. freelist' = freelist
      BY <1>3 DEF Reclaim
    <2>2. \A x \in PRegs : cnt'[x] = 0 <=> cnt[x] = 0
      BY <1>1, <1>2, <1>3 DEF Is
    <2> QED BY <1>1, <1>2, <2>1, <2>2 DEF FreelistExact
  <1>4. CASE cnt[p] = 1
    <2>1. freelist' = [freelist EXCEPT ![PFile[p]] = Append(@, p)]
      BY <1>4 DEF Reclaim
    <2>2. \A x \in PRegs : cnt'[x] = 0 <=> (cnt[x] = 0 \/ x = p)
      BY <1>1, <1>2, <1>4 DEF Is
    <2>3. freelist' \in [RegFiles -> Seq(PRegs)]
      BY <1>1, <2>1, AppendFacts
    <2>4. ASSUME NEW f \in RegFiles
          PROVE  /\ NoDup(freelist'[f])
                 /\ SeqRange(freelist'[f]) = {x \in PRegs : PFile[x] = f /\ cnt'[x] = 0}
      <3>1. CASE f # PFile[p]
        <4>1. freelist'[f] = freelist[f]
          BY <1>1, <2>1, <3>1
        <4> QED BY <2>2, <3>1, <4>1 DEF FreelistExact
      <3>2. CASE f = PFile[p]
        <4> DEFINE s == freelist[f]
        <4>1. freelist'[f] = Append(s, p) /\ s \in Seq(PRegs)
          BY <1>1, <2>1, <3>2
        <4>2. NoDup(s) /\ SeqRange(s) = {x \in PRegs : PFile[x] = f /\ cnt[x] = 0}
          BY DEF FreelistExact
        <4> HIDE DEF s
        <4>3. p \notin SeqRange(s)
          BY <1>4, <4>2
        <4>4. NoDup(Append(s, p))
          BY <4>1, <4>2, <4>3, AppendFacts DEF NoDup, SeqRange
        <4>5. SeqRange(Append(s, p)) = SeqRange(s) \cup {p}
          BY <4>1, RangeAppend
        <4> QED BY <2>2, <3>2, <4>1, <4>2, <4>4, <4>5
      <3> QED BY <3>1, <3>2
    <2> QED BY <1>2, <2>3, <2>4 DEF FreelistExact
  <1> QED BY <1>3, <1>4

\* Allocating the head of a freelist keeps counters and freelists in step.
LEMMA AllocateKeeps ==
    ASSUME TypeOK, FreelistExact, NEW f \in RegFiles, freelist[f] # << >>,
           freelist' = [freelist EXCEPT ![f] = Tail(@)],
           cnt' = [cnt EXCEPT ![Head(freelist[f])] = @ + 1]
    PROVE  /\ Head(freelist[f]) \in PRegs /\ PFile[Head(freelist[f])] = f
           /\ cnt' \in [PRegs -> Nat] /\ freelist' \in [RegFiles -> Seq(PRegs)]
           /\ FreelistExact'
  <1> DEFINE p == Head(freelist[f])
  <1>1. /\ cnt \in [PRegs -> Nat] /\ freelist \in [RegFiles -> Seq(PRegs)]
        /\ freelist[f] \in Seq(PRegs)
    BY DEF TypeOK
  <1>2. /\ SeqRange(Tail(freelist[f])) = SeqRange(freelist[f]) \ {p}
        /\ p \in SeqRange(freelist[f]) /\ NoDup(Tail(freelist[f]))
    BY <1>1, RangeTail DEF FreelistExact
  <1>3. p \in PRegs /\ PFile[p] = f /\ cnt[p] = 0
    BY <1>2 DEF FreelistExact
  <1> HIDE DEF p
  <1>4. cnt' = [cnt EXCEPT ![p] = @ + 1]
    BY DEF p
  <1>5. cnt' \in [PRegs -> Nat] /\ \A x \in PRegs : cnt'[x] = 0 <=> (cnt[x] = 0 /\ x # p)
    BY <1>1, <1>3, <1>4
  <1>6. freelist' \in [RegFiles -> Seq(PRegs)]
    BY <1>1, TailFacts
  <1>7. ASSUME NEW g \in RegFiles
        PROVE  /\ NoDup(freelist'[g])
               /\ SeqRange(freelist'[g]) = {x \in PRegs : PFile[x] = g /\ cnt'[x] = 0}
    <2>1. CASE g # f
      <3>1. freelist'[g] = freelist[g]
        BY <1>1, <2>1
      <3> QED BY <1>3, <1>5, <2>1, <3>1 DEF FreelistExact
    <2>2. CASE g = f
      <3>1. freelist'[g] = Tail(freelist[f])
        BY <1>1, <2>2
      <3> QED BY <1>2, <1>5, <2>2, <3>1 DEF FreelistExact
    <2> QED BY <2>1, <2>2
  <1> QED BY <1>3, <1>5, <1>6, <1>7 DEF FreelistExact, p

-----------------------------------------------------------------------------
(* Retirement: ackInst keeps the invariant.                                *)

\* What TypeOK says of a queued instruction, field by field.
LEMMA QueueTypes ==
    ASSUME TypeOK
    PROVE  /\ inst_queue_ \in Seq(Renamed) /\ Len(inst_queue_) \in Nat
           /\ DOMAIN inst_queue_ = 1..Len(inst_queue_)
           /\ \A k \in 1..Len(inst_queue_) : inst_queue_[k] \in Renamed /\ inst_queue_[k].uid \in Nat
           /\ uop_queue_ \in Seq(Uop) /\ Len(uop_queue_) \in Nat
           /\ DOMAIN uop_queue_ = 1..Len(uop_queue_)
           /\ \A k \in 1..Len(uop_queue_) : uop_queue_[k] \in Uop /\ uop_queue_[k].uid \in Nat
  <1>1. inst_queue_ \in Seq(Renamed) /\ uop_queue_ \in Seq(Uop)
    BY DEF TypeOK
  <1>2. /\ DOMAIN inst_queue_ = 1..Len(inst_queue_) /\ Len(inst_queue_) \in Nat
        /\ DOMAIN uop_queue_ = 1..Len(uop_queue_) /\ Len(uop_queue_) \in Nat
    BY <1>1, LenProperties
  <1>3. /\ \A k \in 1..Len(inst_queue_) : inst_queue_[k] \in Renamed
        /\ \A k \in 1..Len(uop_queue_) : uop_queue_[k] \in Uop
    BY <1>1, ElementOfSeq
  <1>4. /\ \A r \in Renamed : r.uid \in Nat
        /\ \A u \in Uop : u.uid \in Nat
    BY DEF Renamed, Uop
  <1> QED BY <1>1, <1>2, <1>3, <1>4

\* Removing instruction e from the window removes its hold.
LEMMA HolderRemove ==
    ASSUME NEW R, IsFiniteSet(R), NEW e \in R, NEW p
    PROVE  /\ Holds(R \ {e}, p) \in Nat
           /\ Holds(R, p) = Holds(R \ {e}, p) + Is(p, e.prev)
  <1>1. IsFiniteSet(R \ {e}) /\ e \notin R \ {e} /\ R = (R \ {e}) \cup {e}
    BY FS_RemoveElement
  <1>2. Holds((R \ {e}) \cup {e}, p) = Holds(R \ {e}, p) + Is(p, e.prev)
    BY <1>1, HolderCount
  <1>3. Holds(R \ {e}, p) \in Nat
    BY <1>1, HolderCount
  <1> QED BY <1>1, <1>2, <1>3

\* Reclaiming for one retired instruction (getAckFromROB_) keeps IInv.
LEMMA AckKeeps ==
    ASSUME IInv, ackInst
    PROVE  IInv'
  <1> DEFINE q == inst_queue_
             i == Head(inst_queue_)
  <1>0. TypeOK /\ SessionInv /\ AckInv /\ OrderInv /\ FileInv /\ ReplayInv
        /\ RefCountExact /\ FreelistExact /\ CreditsConserved /\ pc = "ack"
    BY DEF IInv, RegInv, ackInst
  <1>1. /\ q \in Seq(Renamed) /\ q # << >> /\ q' = Tail(q)
        /\ ack_group \in Seq(Renamed) /\ ack_group # << >>
    BY <1>0 DEF ackInst, AckInv, TypeOK
  <1>2. /\ Len(q) \in Nat \ {0} /\ DOMAIN q = 1..Len(q) /\ i = q[1] /\ i \in Renamed
        /\ q' \in Seq(Renamed) /\ Len(q') = Len(q) - 1 /\ DOMAIN q' = 1..(Len(q) - 1)
        /\ \A k \in 1..(Len(q) - 1) : q'[k] = q[k + 1]
    BY <1>1, TailFacts
  <1>3. /\ Len(ack_group) \in Nat \ {0} /\ DOMAIN ack_group = 1..Len(ack_group)
        /\ Head(ack_group) = ack_group[1] /\ ack_group' = Tail(ack_group)
        /\ ack_group' \in Seq(Renamed) /\ Len(ack_group') = Len(ack_group) - 1
        /\ DOMAIN ack_group' = 1..(Len(ack_group) - 1)
        /\ \A k \in 1..(Len(ack_group) - 1) : ack_group'[k] = ack_group[k + 1]
    BY <1>1, TailFacts DEF ackInst
  <1>4. Head(ack_group) = i
    BY <1>0, <1>2, <1>3 DEF AckInv
  <1>5. /\ cnt' \in [PRegs -> Nat] /\ freelist' \in [RegFiles -> Seq(PRegs)]
        /\ \A x \in PRegs : cnt'[x] = cnt[x] - Is(x, i.prev)
        /\ FreelistExact'
    <2>1. CASE i.dst = NoReg
      <3>1. cnt' = cnt /\ freelist' = freelist
        BY <1>4, <2>1 DEF ackInst
      <3>2. i.prev = NoReg
        BY <1>0, <1>2, <2>1 DEF FileInv
      <3>3. \A x \in PRegs : Is(x, i.prev) = 0
        BY <3>2, RegisterAssumption DEF Is
      <3>4. cnt \in [PRegs -> Nat] /\ freelist \in [RegFiles -> Seq(PRegs)]
        BY <1>0 DEF TypeOK
      <3>5. FreelistExact'
        BY <1>0, <3>1 DEF FreelistExact
      <3> QED BY <3>1, <3>3, <3>4, <3>5
    <2>2. CASE i.dst # NoReg
      <3>1. i.prev \in PRegs /\ PFile[i.prev] = AFile[i.dst]
        BY <1>0, <1>2, <2>2 DEF FileInv
      <3>2. cnt[i.prev] # 0 /\ Reclaim(i.prev, PFile[i.prev])
        BY <1>4, <2>2, <3>1 DEF ackInst
      <3> QED BY <1>0, <3>1, <3>2, ReclaimKeeps
    <2> QED BY <2>1, <2>2
  <1>6. SeqRange(q') = SeqRange(q) \ {i} /\ i \in SeqRange(q) /\ IsFiniteSet(SeqRange(q))
    BY <1>0, <1>1, InstQueueNoDup, RangeTail, RangeFinite
  <1>7. RefCountExact'
    <2>1. SUFFICES ASSUME NEW p \in PRegs
                   PROVE  cnt'[p] = Refs(map_table_', p) + Holds(SeqRange(q'), p)
      BY DEF RefCountExact, Mapped, Holders, Refs, Holds
    <2>2. cnt[p] = Refs(map_table_, p) + Holds(SeqRange(q), p) /\ map_table_' = map_table_
      BY <1>0 DEF RefCountExact, Mapped, Holders, Refs, Holds, ackInst
    <2>3. Holds(SeqRange(q'), p) \in Nat
          /\ Holds(SeqRange(q), p) = Holds(SeqRange(q'), p) + Is(p, i.prev)
      BY <1>6, HolderRemove
    <2>4. Refs(map_table_, p) \in Nat
      <3>1. IsFiniteSet({a \in ARegs : map_table_[a] = p})
        BY RegisterAssumption, FS_Subset
      <3> QED BY <3>1, FS_CardinalityType DEF Refs
    <2>5. cnt'[p] = cnt[p] - Is(p, i.prev) /\ Is(p, i.prev) \in Nat
      BY <1>5 DEF Is
    <2> QED BY <2>2, <2>3, <2>4, <2>5
  <1>8. \A k \in 1..(Len(q) - 1) : k + 1 \in 1..Len(q)
    BY <1>2
  <1>9. OrderInv'
    <2>1. uop_queue_' = uop_queue_ /\ next_uid' = next_uid
      BY DEF ackInst
    <2>2. ASSUME NEW j \in DOMAIN q', NEW k \in DOMAIN q', j < k PROVE q'[j].uid < q'[k].uid
      <3>1. j + 1 \in DOMAIN q /\ k + 1 \in DOMAIN q /\ j + 1 < k + 1
        BY <1>2, <1>8, <2>2
      <3> QED BY <1>0, <1>2, <3>1 DEF OrderInv
    <2>3. ASSUME NEW j \in DOMAIN q' PROVE /\ q'[j].uid < next_uid
                                           /\ \A k \in DOMAIN uop_queue_ : q'[j].uid < uop_queue_[k].uid
      <3>1. j + 1 \in DOMAIN q
        BY <1>2, <1>8
      <3> QED BY <1>0, <1>2, <3>1 DEF OrderInv
    <2> QED BY <1>0, <2>1, <2>2, <2>3 DEF OrderInv
  <1>10. FileInv'
    BY <1>0, <1>2, <1>8 DEF FileInv, ackInst
  <1>11. ReplayInv'
    <2>1. map_table_' = map_table_
      BY DEF ackInst
    <2>2. ASSUME NEW k \in DOMAIN q', LastWriter(k)'
          PROVE  map_table_'[q'[k].dst] = q'[k].pdst
      <3>1. LastWriter(k + 1)
        <4>1. ASSUME NEW j \in DOMAIN q, j > k + 1 PROVE q[j].dst # q[k + 1].dst
          <5>1. j - 1 \in 1..(Len(q) - 1) /\ j - 1 > k /\ (j - 1) + 1 = j
            BY <1>2, <4>1
          <5>2. q'[j - 1].dst # q'[k].dst
            BY <1>2, <2>2, <5>1 DEF LastWriter
          <5> QED BY <1>2, <5>1, <5>2
        <4> QED BY <1>2, <1>8, <2>2, <4>1 DEF LastWriter
      <3> QED BY <1>0, <1>2, <1>8, <2>1, <3>1 DEF ReplayInv
    <2>3. ASSUME NEW j \in DOMAIN q', NEW k \in DOMAIN q', Consecutive(j, k)'
          PROVE  q'[k].prev = q'[j].pdst
      <3>1. Consecutive(j + 1, k + 1)
        <4>1. ASSUME NEW l \in DOMAIN q, j + 1 < l, l < k + 1 PROVE q[l].dst # q[k + 1].dst
          <5>1. l - 1 \in 1..(Len(q) - 1) /\ j < l - 1 /\ l - 1 < k /\ (l - 1) + 1 = l
            BY <1>2, <4>1
          <5>2. q'[l - 1].dst # q'[k].dst
            BY <1>2, <2>3, <5>1 DEF Consecutive
          <5> QED BY <1>2, <5>1, <5>2
        <4>2. j + 1 < k + 1 /\ q[j + 1].dst # NoReg /\ q[j + 1].dst = q[k + 1].dst
          BY <1>2, <2>3 DEF Consecutive
        <4> QED BY <4>1, <4>2 DEF Consecutive
      <3> QED BY <1>0, <1>2, <1>8, <3>1 DEF ReplayInv
    <2> QED BY <2>2, <2>3 DEF ReplayInv
  <1>12. AckInv'
    <2>1. CASE Len(ack_group) > 1
      <3>0. Len(ack_group') # 0 /\ Len(<< >>) = 0
        BY <1>3, <2>1, SMTT(30)
      <3>1. pc' = "ack" /\ ack_group' # << >>
        BY <1>0, <2>1, <3>0 DEF ackInst
      <3>2. Len(ack_group) <= Len(q) /\ \A k \in DOMAIN ack_group : ack_group[k] = q[k]
        BY <1>0 DEF AckInv
      <3>3. ASSUME NEW k \in DOMAIN ack_group' PROVE ack_group'[k] = q'[k]
        <4>1. k \in 1..(Len(ack_group) - 1) /\ k \in 1..(Len(q) - 1) /\ k + 1 \in 1..Len(ack_group)
          BY <1>2, <1>3, <3>2
        <4> QED BY <1>2, <1>3, <3>2, <4>1
      <3> QED BY <1>2, <1>3, <3>1, <3>2, <3>3 DEF AckInv
    <2>2. CASE ~(Len(ack_group) > 1)
      <3>1. pc' = "idle" /\ Len(ack_group') = 0
        BY <1>3, <2>2 DEF ackInst
      <3>2. ack_group' = << >>
        BY <1>3, <3>1, EmptySeq
      <3> QED BY <3>1, <3>2 DEF AckInv
    <2> QED BY <2>1, <2>2
  <1>13. SessionInv' /\ CreditsConserved'
    BY <1>0 DEF SessionInv, CreditsConserved, ackInst
  <1>14. TypeOK'
    <2>1. ev_schedule_rename_' \subseteq {0, 1} /\ pc' \in {"idle", "ack", "flush", "rename"}
      BY <1>0 DEF TypeOK, ackInst, WakeAfterAck
    <2> QED BY <1>0, <1>2, <1>3, <1>5, <2>1 DEF TypeOK, ackInst
  <1> QED BY <1>5, <1>7, <1>9, <1>10, <1>11, <1>12, <1>13, <1>14 DEF IInv, RegInv

-----------------------------------------------------------------------------
(* Recovery: flushInst keeps the invariant.                                *)

\* Indices of a sequence without its last element.
LEMMA FrontIndex ==
    ASSUME NEW n \in Nat \ {0}, NEW k \in 1..(n - 1)
    PROVE  k \in 1..n /\ k < n /\ k # n
  OBVIOUS

\* Undoing the youngest renamed instruction (handleFlush_) keeps IInv.
LEMMA FlushInstKeeps ==
    ASSUME IInv, flushInst
    PROVE  IInv'
  <1> DEFINE q == inst_queue_
             n == Len(inst_queue_)
             i == inst_queue_[Len(inst_queue_)]
  <1>0. TypeOK /\ SessionInv /\ AckInv /\ OrderInv /\ FileInv /\ ReplayInv
        /\ RefCountExact /\ FreelistExact /\ CreditsConserved /\ pc = "flush" /\ pc' = pc
    BY DEF IInv, RegInv, flushInst
  <1>1. q \in Seq(Renamed) /\ q # << >> /\ q' = SubSeq(q, 1, n - 1)
    BY <1>0 DEF flushInst, TypeOK
  <1>2. n \in Nat \ {0} /\ DOMAIN q = 1..n /\ i \in Renamed /\ n \in 1..n
    <2>1. n \in Nat \ {0} /\ DOMAIN q = 1..n
      BY <1>1, EmptySeq, LenProperties
    <2> QED BY <1>1, <2>1, ElementOfSeq
  <1>3. /\ q' \in Seq(Renamed) /\ Len(q') = n - 1 /\ \A k \in 1..(n - 1) : q'[k] = q[k]
        /\ SeqRange(q') = SeqRange(q) \ {i} /\ i \in SeqRange(q) /\ IsFiniteSet(SeqRange(q))
    BY <1>0, <1>1, InstQueueNoDup, RangeFront, RangeFinite
  <1>4. DOMAIN q' = 1..(n - 1) /\ \A k \in 1..(n - 1) : k \in 1..n /\ k < n /\ k # n
    <2>1. DOMAIN q' = 1..(n - 1)
      BY <1>3, LenProperties
    <2> QED BY <1>2, <2>1, FrontIndex
  <1>5. \* The youngest writer is the last one: its register is the mapped one.
        i.dst # NoReg => /\ i.dst \in ARegs /\ i.pdst \in PRegs /\ i.prev \in PRegs
                         /\ PFile[i.pdst] = AFile[i.dst] /\ PFile[i.prev] = AFile[i.dst]
                         /\ map_table_[i.dst] = i.pdst
                         /\ map_table_' = [map_table_ EXCEPT ![i.dst] = i.prev]
    <2>1. SUFFICES ASSUME i.dst # NoReg
                   PROVE  /\ i.dst \in ARegs /\ i.pdst \in PRegs /\ i.prev \in PRegs
                          /\ PFile[i.pdst] = AFile[i.dst] /\ PFile[i.prev] = AFile[i.dst]
                          /\ map_table_[i.dst] = i.pdst
                          /\ map_table_' = [map_table_ EXCEPT ![i.dst] = i.prev]
      OBVIOUS
    <2>2. i.dst \in ARegs
      BY <1>2, <2>1 DEF Renamed, OptAReg
    <2>3. /\ i.pdst \in PRegs /\ i.prev \in PRegs
          /\ PFile[i.pdst] = AFile[i.dst] /\ PFile[i.prev] = AFile[i.dst]
      BY <1>0, <1>2, <2>1 DEF FileInv
    <2>4. LastWriter(n)
      BY <1>2, <2>1 DEF LastWriter
    <2>5. map_table_[i.dst] = i.pdst
      BY <1>0, <1>2, <2>4 DEF ReplayInv
    <2> QED BY <2>1, <2>2, <2>3, <2>5 DEF flushInst, RestoredMap
  <1>6. i.dst = NoReg => i.prev = NoReg /\ i.pdst = NoReg /\ map_table_' = map_table_
    BY <1>0, <1>2 DEF FileInv, flushInst
  <1>7. /\ cnt' \in [PRegs -> Nat] /\ freelist' \in [RegFiles -> Seq(PRegs)]
        /\ \A x \in PRegs : cnt'[x] = cnt[x] - Is(x, i.pdst)
        /\ FreelistExact'
    <2>1. CASE i.dst = NoReg
      <3>1. cnt' = cnt /\ freelist' = freelist
        BY <2>1 DEF flushInst
      <3>2. \A x \in PRegs : Is(x, i.pdst) = 0
        BY <1>6, <2>1, RegisterAssumption DEF Is
      <3>3. cnt \in [PRegs -> Nat] /\ freelist \in [RegFiles -> Seq(PRegs)]
        BY <1>0 DEF TypeOK
      <3>4. FreelistExact'
        BY <1>0, <3>1 DEF FreelistExact
      <3> QED BY <3>1, <3>2, <3>3, <3>4
    <2>2. CASE i.dst # NoReg
      <3>1. cnt[i.pdst] # 0 /\ Reclaim(i.pdst, PFile[i.pdst])
        BY <1>5, <2>2 DEF flushInst
      <3> QED BY <1>0, <1>5, <2>2, <3>1, ReclaimKeeps
    <2> QED BY <2>1, <2>2
  <1>8. map_table_ \in [ARegs -> PRegs] /\ map_table_' \in [ARegs -> PRegs]
    BY <1>0, <1>5, <1>6 DEF TypeOK
  <1>9. RefCountExact'
    <2>1. SUFFICES ASSUME NEW p \in PRegs
                   PROVE  cnt'[p] = Refs(map_table_', p) + Holds(SeqRange(q'), p)
      BY DEF RefCountExact, Mapped, Holders, Refs, Holds
    <2>2. cnt[p] = Refs(map_table_, p) + Holds(SeqRange(q), p)
      BY <1>0 DEF RefCountExact, Mapped, Holders, Refs, Holds
    <2>3. Holds(SeqRange(q'), p) \in Nat
          /\ Holds(SeqRange(q), p) = Holds(SeqRange(q'), p) + Is(p, i.prev)
      BY <1>3, HolderRemove
    <2>4. Refs(map_table_, p) \in Nat
          /\ Refs(map_table_', p) = Refs(map_table_, p) + Is(p, i.prev) - Is(p, i.pdst)
      <3>1. CASE i.dst = NoReg
        <4>1. Is(p, i.prev) = 0 /\ Is(p, i.pdst) = 0
          BY <1>6, <3>1, RegisterAssumption DEF Is
        <4>2. IsFiniteSet({a \in ARegs : map_table_[a] = p})
          BY RegisterAssumption, FS_Subset
        <4>3. Refs(map_table_, p) \in Nat
          BY <4>2, FS_CardinalityType DEF Refs
        <4> QED BY <1>6, <3>1, <4>1, <4>3
      <3>2. CASE i.dst # NoReg
        <4>0. map_table_ \in [ARegs -> PRegs] /\ i.dst \in ARegs /\ i.prev \in PRegs
          BY <1>5, <1>8, <3>2
        <4> HIDE DEF i
        <4>1. /\ Refs(map_table_, p) \in Nat
              /\ Refs([map_table_ EXCEPT ![i.dst] = i.prev], p) =
                    Refs(map_table_, p) + Is(p, i.prev) - Is(p, map_table_[i.dst])
          BY <4>0, MapCount, Zenon
        <4> QED BY <1>5, <3>2, <4>1
      <3> QED BY <3>1, <3>2
    <2>5. cnt'[p] = cnt[p] - Is(p, i.pdst) /\ Is(p, i.pdst) \in Nat /\ Is(p, i.prev) \in Nat
      BY <1>7 DEF Is
    <2> QED BY <2>2, <2>3, <2>4, <2>5
  <1>10. OrderInv'
    <2>1. uop_queue_' = uop_queue_ /\ next_uid' = next_uid
      BY SMTT(30) DEF flushInst
    <2>2. \A k \in DOMAIN q' : k \in DOMAIN q /\ q'[k] = q[k]
      BY <1>2, <1>3, <1>4, ZenonT(30)
    <2> QED BY <1>0, <2>1, <2>2 DEF OrderInv
  <1>11. FileInv'
    <2>1. \A a \in ARegs : PFile[map_table_'[a]] = AFile[a]
      BY <1>0, <1>5, <1>6, <1>8 DEF FileInv
    <2> QED BY <1>0, <1>2, <1>3, <1>4, <2>1, ZenonT(30) DEF FileInv
  <1>12. ReplayInv'
    <2>1. ASSUME NEW k \in DOMAIN q', LastWriter(k)'
          PROVE  map_table_'[q'[k].dst] = q'[k].pdst
      <3>0. /\ k \in 1..(n - 1) /\ k \in 1..n /\ k < n /\ q'[k] = q[k] /\ q[k] \in Renamed
            /\ q[k].dst # NoReg /\ q[k].dst \in ARegs
        <4>1. k \in 1..(n - 1) /\ k \in 1..n /\ k < n /\ q'[k] = q[k]
          BY <1>3, <1>4
        <4>2. q[k] \in Renamed
          BY <1>1, <4>1, ElementOfSeq
        <4>3. q[k].dst # NoReg
          BY <2>1, <4>1 DEF LastWriter
        <4> QED BY <4>1, <4>2, <4>3 DEF Renamed, OptAReg
      <3>1. \A j \in 1..(n - 1) : j > k => q[j].dst # q[k].dst
        BY <1>3, <1>4, <2>1, <3>0 DEF LastWriter
      <3>2. CASE i.dst = q[k].dst
        <4>1. Consecutive(k, n)
          <5>1. \A l \in DOMAIN q : k < l /\ l < n => q[l].dst # q[n].dst
            BY <1>2, <3>1, <3>2
          <5> QED BY <3>0, <3>2, <5>1 DEF Consecutive
        <4>2. i.prev = q[k].pdst
          BY <1>0, <1>2, <3>0, <4>1 DEF ReplayInv
        <4> QED BY <1>5, <1>8, <3>0, <3>2, <4>2
      <3>3. CASE i.dst # q[k].dst
        <4>1. LastWriter(k)
          <5>1. \A j \in DOMAIN q : j > k => q[j].dst # q[k].dst
            BY <1>2, <3>1, <3>3
          <5> QED BY <3>0, <5>1 DEF LastWriter
        <4>2. map_table_[q[k].dst] = q[k].pdst
          BY <1>0, <1>2, <3>0, <4>1 DEF ReplayInv
        <4>3. map_table_'[q[k].dst] = map_table_[q[k].dst]
          BY <1>5, <1>6, <1>8, <3>0, <3>3
        <4> QED BY <3>0, <4>2, <4>3
      <3> QED BY <3>2, <3>3
    <2>2. ASSUME NEW j \in DOMAIN q', NEW k \in DOMAIN q', Consecutive(j, k)'
          PROVE  q'[k].prev = q'[j].pdst
      <3>1. j \in 1..n /\ k \in 1..n /\ k < n /\ q'[j] = q[j] /\ q'[k] = q[k]
        BY <1>3, <1>4
      <3>2. \A l \in DOMAIN q : j < l /\ l < k => q[l].dst # q[k].dst
        <4>1. ASSUME NEW l \in DOMAIN q, j < l, l < k PROVE l \in 1..(n - 1)
          BY <1>2, <3>1, <4>1
        <4> QED BY <1>3, <1>4, <2>2, <3>1, <4>1 DEF Consecutive
      <3>3. Consecutive(j, k)
        BY <2>2, <3>1, <3>2 DEF Consecutive
      <3> QED BY <1>0, <1>2, <3>1, <3>3 DEF ReplayInv
    <2> QED BY <2>1, <2>2 DEF ReplayInv
  <1>13. AckInv' /\ SessionInv' /\ CreditsConserved'
    BY <1>0 DEF AckInv, SessionInv, CreditsConserved, flushInst, locals
  <1>14. TypeOK'
    BY <1>0, <1>3, <1>7, <1>8 DEF TypeOK, flushInst, events, locals
  <1> QED BY <1>7, <1>9, <1>10, <1>11, <1>12, <1>13, <1>14 DEF IInv, RegInv

-----------------------------------------------------------------------------
(* Renaming: renameInst keeps the invariant.                               *)

\* What renaming u does to the registers: the new instruction i maps its
\* destination to i.pdst and holds the register that was mapped before.
LEMMA RenameRegs ==
    ASSUME TypeOK, FileInv, RefCountExact, FreelistExact, NEW u \in Uop,
           IF u.dst = NoReg THEN UNCHANGED regs ELSE renameDests(u)
    PROVE  LET i == RenamedInst(u)
           IN  /\ i \in Renamed /\ i.uid = u.uid /\ i.dst = u.dst
               /\ map_table_' \in [ARegs -> PRegs] /\ cnt' \in [PRegs -> Nat]
               /\ freelist' \in [RegFiles -> Seq(PRegs)] /\ producer_is_load' \in [PRegs -> BOOLEAN]
               /\ val' \in [PRegs -> ARegs \cup Nat]
               /\ FreelistExact'
               /\ u.dst = NoReg => i.pdst = NoReg /\ i.prev = NoReg /\ UNCHANGED <<map_table_, cnt>>
               /\ u.dst # NoReg => /\ u.dst \in ARegs /\ i.pdst \in PRegs /\ i.prev = map_table_[u.dst]
                                   /\ PFile[i.pdst] = AFile[u.dst]
                                   /\ map_table_' = [map_table_ EXCEPT ![u.dst] = i.pdst]
                                   /\ cnt' = [cnt EXCEPT ![i.pdst] = @ + 1]
  <1> DEFINE i == RenamedInst(u)
             f == AFile[u.dst]
  <1>0. /\ map_table_ \in [ARegs -> PRegs] /\ cnt \in [PRegs -> Nat]
        /\ freelist \in [RegFiles -> Seq(PRegs)] /\ producer_is_load \in [PRegs -> BOOLEAN]
        /\ val \in [PRegs -> ARegs \cup Nat]
    BY DEF TypeOK
  <1>1. u.uid \in Nat /\ u.src \in ARegs \cup {NoReg} /\ u.dst \in ARegs \cup {NoReg} /\ u.kind \in Kinds
    BY DEF Uop, OptAReg
  <1>2. renameSource(u) \in OptPReg /\ (u.src # NoReg => renameSource(u) \in PRegs
                                          /\ renameSource(u) = map_table_[u.src] /\ u.src \in ARegs)
    BY <1>0, <1>1 DEF renameSource, OptPReg
  <1>3. /\ i.uid = u.uid /\ i.dst = u.dst
        /\ i.pdst = (IF u.dst = NoReg THEN NoReg ELSE renameDest(u))
        /\ i.prev = (IF u.dst = NoReg THEN NoReg ELSE map_table_[u.dst])
    BY DEF RenamedInst
  <1>4. ASSUME IF u.dst = NoReg THEN TRUE ELSE renameDest(u) \in PRegs
        PROVE  i \in Renamed
    <2>1. (IF u.dst = NoReg THEN NoReg ELSE renameDest(u)) \in OptPReg
      BY <1>4 DEF OptPReg
    <2>2. (IF u.dst = NoReg THEN NoReg ELSE map_table_[u.dst]) \in OptPReg
      BY <1>0, <1>1 DEF OptPReg
    <2>3. (IF u.kind = "load" /\ u.src # NoReg
           THEN producer_is_load[renameSource(u)] ELSE FALSE) \in BOOLEAN
      BY <1>0, <1>2
    <2> QED BY <1>1, <1>2, <2>1, <2>2, <2>3 DEF RenamedInst, Renamed, OptAReg
  <1>5. CASE u.dst = NoReg
    <2>1. UNCHANGED regs
      BY <1>5
    <2>2. FreelistExact'
      BY <2>1 DEF FreelistExact, regs
    <2>3. /\ map_table_' = map_table_ /\ cnt' = cnt /\ freelist' = freelist
          /\ producer_is_load' = producer_is_load /\ val' = val
      BY <2>1 DEF regs
    <2> HIDE DEF i
    <2> QED BY <1>0, <1>3, <1>4, <1>5, <2>2, <2>3 DEF i
  <1>6. CASE u.dst # NoReg
    <2> DEFINE p == renameDest(u)
    <2>1. /\ u.dst \in ARegs /\ f \in RegFiles /\ freelist[f] # << >>
          /\ map_table_' = [map_table_ EXCEPT ![u.dst] = p]
          /\ cnt' = [cnt EXCEPT ![p] = @ + 1]
          /\ producer_is_load' = [producer_is_load EXCEPT ![p] = (u.kind = "load")]
      BY <1>1, <1>6, RegisterAssumption DEF renameDests, RefsAfterRename
    <2>2. p \in PRegs /\ PFile[p] = f /\ FreelistExact'
          /\ cnt' \in [PRegs -> Nat] /\ freelist' \in [RegFiles -> Seq(PRegs)]
          /\ val' \in [PRegs -> ARegs \cup Nat]
      <3>1. CASE eliminated(u)
        <4>1. /\ p = map_table_[u.src] /\ u.src \in ARegs /\ AFile[u.src] = f
              /\ freelist' = freelist /\ val' = val
          BY <1>2, <1>6, <3>1 DEF eliminated, renameDest, renameDests
        <4>2. p \in PRegs /\ PFile[p] = f
          BY <1>0, <4>1 DEF FileInv
        <4>3. cnt[p] # 0
          <5>1. cnt[p] = Cardinality(Mapped(p)) + Cardinality(Holders(p))
            BY <4>2 DEF RefCountExact
          <5>2. u.src \in Mapped(p) /\ Mapped(p) \in SUBSET ARegs /\ IsFiniteSet(ARegs)
            BY <4>1, RegisterAssumption DEF Mapped
          <5>3. IsFiniteSet(Mapped(p)) /\ Cardinality(Mapped(p)) \in Nat /\ Cardinality(Mapped(p)) # 0
            <6>1. IsFiniteSet(Mapped(p))
              BY <5>2, FS_Subset
            <6> QED BY <5>2, <6>1, FS_CardinalityType, FS_EmptySet
          <5>4. Cardinality(Holders(p)) \in Nat
            <6>1. IsFiniteSet(SeqRange(inst_queue_))
              BY RangeFinite DEF TypeOK
            <6>2. IsFiniteSet(Holders(p))
              BY <6>1, FS_Subset DEF Holders
            <6> QED BY <6>2, FS_CardinalityType
          <5> QED BY <5>1, <5>3, <5>4
        <4>4. cnt' \in [PRegs -> Nat] /\ \A x \in PRegs : cnt'[x] = 0 <=> cnt[x] = 0
          BY <1>0, <2>1, <4>2, <4>3
        <4>5. FreelistExact'
          BY <4>1, <4>4 DEF FreelistExact
        <4> QED BY <1>0, <4>1, <4>2, <4>4, <4>5
      <3>2. CASE ~eliminated(u)
        <4>1. /\ p = Head(freelist[f])
              /\ freelist' = [freelist EXCEPT ![f] = Tail(@)]
              /\ val' = [val EXCEPT ![p] = IF u.kind = "move" /\ u.src # NoReg
                                           THEN val[renameSource(u)] ELSE u.uid]
          BY <1>6, <3>2 DEF renameDest, renameDests
        <4>2. cnt' = [cnt EXCEPT ![Head(freelist[f])] = @ + 1]
          BY <2>1, <4>1
        <4>3. /\ Head(freelist[f]) \in PRegs /\ PFile[Head(freelist[f])] = f
              /\ cnt' \in [PRegs -> Nat] /\ freelist' \in [RegFiles -> Seq(PRegs)]
              /\ FreelistExact'
          BY <2>1, <4>1, <4>2, AllocateKeeps
        <4>4. (IF u.kind = "move" /\ u.src # NoReg THEN val[renameSource(u)] ELSE u.uid)
                \in ARegs \cup Nat
          BY <1>0, <1>1, <1>2
        <4>5. val' \in [PRegs -> ARegs \cup Nat]
          BY <1>0, <4>1, <4>4
        <4> QED BY <4>1, <4>3, <4>5
      <3> QED BY <3>1, <3>2
    <2>3. map_table_' \in [ARegs -> PRegs] /\ producer_is_load' \in [PRegs -> BOOLEAN]
      BY <1>0, <2>1, <2>2
    <2>4. i \in Renamed /\ i.pdst = p /\ i.prev = map_table_[u.dst]
      BY <1>3, <1>4, <1>6, <2>2
    <2> HIDE DEF i, p
    <2> QED BY <1>3, <1>6, <2>1, <2>2, <2>3, <2>4 DEF i
  <1> QED BY <1>5, <1>6

\* Renaming one instruction (renameSources_, renameDests_) keeps IInv.
LEMMA RenameInstKeeps ==
    ASSUME IInv, renameInst
    PROVE  IInv'
  <1> DEFINE q == inst_queue_
             n == Len(inst_queue_)
             w == uop_queue_
             u == Head(uop_queue_)
             i == RenamedInst(Head(uop_queue_))
  <1>0. TypeOK /\ SessionInv /\ AckInv /\ OrderInv /\ FileInv /\ ReplayInv
        /\ RefCountExact /\ FreelistExact /\ CreditsConserved
        /\ pc = "rename" /\ pc' = pc /\ num_to_rename > 0
    BY DEF IInv, RegInv, renameInst
  <1>1. /\ q \in Seq(Renamed) /\ w \in Seq(Uop) /\ w # << >>
        /\ num_to_rename \in Nat /\ num_renamed \in Nat /\ num_to_rename <= Len(w)
        /\ num_renamed <= n /\ num_to_rename + num_renamed <= credits_dispatch_
        /\ credits_dispatch_ \in Nat /\ next_uid \in Nat
    <2>1. num_to_rename <= Len(w) /\ num_to_rename \in Nat /\ num_to_rename > 0
      BY <1>0 DEF SessionInv, TypeOK
    <2>2. w # << >>
      BY <2>1
    <2> QED BY <1>0, <2>1, <2>2 DEF TypeOK, SessionInv
  <1>2. /\ Len(w) \in Nat \ {0} /\ DOMAIN w = 1..Len(w) /\ u = w[1] /\ u \in Uop
        /\ Tail(w) \in Seq(Uop) /\ Len(Tail(w)) = Len(w) - 1 /\ DOMAIN Tail(w) = 1..(Len(w) - 1)
        /\ \A k \in 1..(Len(w) - 1) : Tail(w)[k] = w[k + 1]
    BY <1>1, TailFacts
  <1>3. w' = Tail(w) /\ q' = Append(q, i)
    BY DEF renameInst
  <1>4. /\ i \in Renamed /\ i.uid = u.uid /\ i.dst = u.dst
        /\ map_table_' \in [ARegs -> PRegs] /\ cnt' \in [PRegs -> Nat]
        /\ freelist' \in [RegFiles -> Seq(PRegs)] /\ producer_is_load' \in [PRegs -> BOOLEAN]
        /\ val' \in [PRegs -> ARegs \cup Nat]
        /\ FreelistExact'
        /\ u.dst = NoReg => i.pdst = NoReg /\ i.prev = NoReg /\ UNCHANGED <<map_table_, cnt>>
        /\ u.dst # NoReg => /\ u.dst \in ARegs /\ i.pdst \in PRegs /\ i.prev = map_table_[u.dst]
                            /\ PFile[i.pdst] = AFile[u.dst]
                            /\ map_table_' = [map_table_ EXCEPT ![u.dst] = i.pdst]
                            /\ cnt' = [cnt EXCEPT ![i.pdst] = @ + 1]
    <2>1. IF u.dst = NoReg THEN UNCHANGED regs ELSE renameDests(u)
      BY DEF renameInst
    <2> QED BY <1>0, <1>2, <2>1, RenameRegs
  <1> HIDE DEF u, i
  <1>5. /\ n \in Nat /\ DOMAIN q = 1..n /\ q' \in Seq(Renamed) /\ Len(q') = n + 1
        /\ DOMAIN q' = 1..(n + 1) /\ (\A k \in 1..n : q'[k] = q[k]) /\ q'[n + 1] = i
    BY <1>1, <1>3, <1>4, AppendFacts
  <1>6. ASSUME NEW k \in 1..(n + 1) PROVE k \in 1..n \/ k = n + 1
    BY <1>5
  <1>7. (\A k \in DOMAIN q : q[k].uid < u.uid /\ q[k].uid \in Nat) /\ u.uid \in Nat
    <2>1. 1 \in DOMAIN w
      BY <1>2
    <2> QED BY <1>0, <1>2, <1>5, <2>1, QueueTypes DEF OrderInv
  <1>8. i \notin SeqRange(q) /\ IsFiniteSet(SeqRange(q)) /\ SeqRange(q') = SeqRange(q) \cup {i}
    <2>1. i \notin SeqRange(q)
      BY <1>4, <1>7 DEF SeqRange
    <2> QED BY <1>1, <1>3, <1>4, <2>1, RangeFinite, RangeAppend
  <1>9. RefCountExact'
    <2>1. SUFFICES ASSUME NEW p \in PRegs
                   PROVE  cnt'[p] = Refs(map_table_', p) + Holds(SeqRange(q'), p)
      BY DEF RefCountExact, Mapped, Holders, Refs, Holds
    <2>2. cnt[p] = Refs(map_table_, p) + Holds(SeqRange(q), p)
          /\ map_table_ \in [ARegs -> PRegs] /\ cnt \in [PRegs -> Nat]
      BY <1>0 DEF RefCountExact, Mapped, Holders, Refs, Holds, TypeOK
    <2>3. Holds(SeqRange(q), p) \in Nat
          /\ Holds(SeqRange(q'), p) = Holds(SeqRange(q), p) + Is(p, i.prev)
      BY <1>8, HolderCount
    <2>4. CASE u.dst = NoReg
      <3>1. Is(p, i.prev) = 0
        BY <1>4, <2>4, RegisterAssumption DEF Is
      <3> QED BY <1>4, <2>2, <2>3, <2>4, <3>1
    <2>5. CASE u.dst # NoReg
      <3>1. /\ Refs(map_table_, p) \in Nat
            /\ Refs([map_table_ EXCEPT ![u.dst] = i.pdst], p) =
                    Refs(map_table_, p) + Is(p, i.pdst) - Is(p, map_table_[u.dst])
        <4>1. u.dst \in ARegs /\ i.pdst \in PRegs
          BY <1>4, <2>5
        <4> QED BY <2>2, <4>1, MapCount, Zenon
      <3>2. Refs(map_table_', p) = Refs(map_table_, p) + Is(p, i.pdst) - Is(p, i.prev)
        BY <1>4, <2>5, <3>1
      <3>3. cnt'[p] = cnt[p] + Is(p, i.pdst)
        BY <1>4, <2>2, <2>5 DEF Is
      <3>4. Is(p, i.pdst) \in Nat /\ Is(p, i.prev) \in Nat
        BY DEF Is
      <3> QED BY <2>2, <2>3, <3>1, <3>2, <3>3, <3>4
    <2> QED BY <2>4, <2>5
  <1>10. OrderInv'
    <2>1. \A k \in 1..(Len(w) - 1) : k + 1 \in DOMAIN w /\ w'[k] = w[k + 1] /\ k + 1 > 1
      BY <1>2, <1>3
    <2>2. DOMAIN w' = 1..(Len(w) - 1) /\ next_uid' = next_uid /\ 1 \in DOMAIN w
      BY <1>2, <1>3 DEF renameInst
    <2>3. \A k \in DOMAIN w' : u.uid < w'[k].uid /\ w'[k].uid < next_uid
      BY <1>0, <1>2, <2>1, <2>2 DEF OrderInv
    <2>4. \A j, k \in DOMAIN w' : j < k => w'[j].uid < w'[k].uid
      <3>1. ASSUME NEW j \in DOMAIN w', NEW k \in DOMAIN w', j < k PROVE w'[j].uid < w'[k].uid
        <4>1. j + 1 < k + 1
          BY <2>2, <3>1
        <4> QED BY <1>0, <2>1, <2>2, <4>1 DEF OrderInv
      <3> QED BY <3>1
    <2>5. \A j, k \in DOMAIN q' : j < k => q'[j].uid < q'[k].uid
      <3>1. ASSUME NEW j \in DOMAIN q', NEW k \in DOMAIN q', j < k PROVE q'[j].uid < q'[k].uid
        <4>1. j \in 1..n
          BY <1>5, <3>1
        <4>2. CASE k \in 1..n
          BY <1>0, <1>5, <3>1, <4>1, <4>2 DEF OrderInv
        <4>3. CASE k = n + 1
          BY <1>4, <1>5, <1>7, <4>1, <4>3
        <4> QED BY <1>5, <1>6, <4>2, <4>3
      <3> QED BY <3>1
    <2>6. u.uid < next_uid
      BY <1>0, <1>2, <2>2 DEF OrderInv
    <2>7. \A j \in DOMAIN q' : /\ q'[j].uid < next_uid
                               /\ \A k \in DOMAIN w' : q'[j].uid < w'[k].uid
      <3>1. ASSUME NEW j \in DOMAIN q' PROVE /\ q'[j].uid < next_uid
                                             /\ \A k \in DOMAIN w' : q'[j].uid < w'[k].uid
        <4>1. CASE j \in 1..n
          BY <1>0, <1>5, <2>1, <2>2, <4>1 DEF OrderInv
        <4>2. CASE j = n + 1
          BY <1>4, <1>5, <2>3, <2>6, <4>2
        <4> QED BY <1>5, <1>6, <4>1, <4>2
      <3> QED BY <3>1
    <2> QED BY <2>2, <2>3, <2>4, <2>5, <2>7 DEF OrderInv
  <1>11. FileInv'
    <2>1. map_table_ \in [ARegs -> PRegs]
      BY <1>0 DEF TypeOK
    <2>2. \A a \in ARegs : PFile[map_table_'[a]] = AFile[a]
      BY <1>0, <1>4, <2>1 DEF FileInv
    <2>3. u.dst # NoReg => i.prev \in PRegs /\ PFile[i.prev] = AFile[u.dst]
      BY <1>0, <1>4, <2>1 DEF FileInv
    <2>4. ASSUME NEW k \in DOMAIN q'
          PROVE  IF q'[k].dst = NoReg THEN q'[k].pdst = NoReg /\ q'[k].prev = NoReg
                 ELSE /\ q'[k].pdst \in PRegs /\ PFile[q'[k].pdst] = AFile[q'[k].dst]
                      /\ q'[k].prev \in PRegs /\ PFile[q'[k].prev] = AFile[q'[k].dst]
      <3>1. CASE k \in 1..n
        BY <1>0, <1>5, <3>1 DEF FileInv
      <3>2. CASE k = n + 1
        BY <1>4, <1>5, <2>3, <3>2
      <3> QED BY <1>5, <1>6, <3>1, <3>2
    <2> QED BY <2>2, <2>4 DEF FileInv
  <1>12. ReplayInv'
    <2>0. n + 1 \in DOMAIN q' /\ map_table_ \in [ARegs -> PRegs]
          /\ \A k \in 1..n : k \in DOMAIN q' /\ k < n + 1 /\ n + 1 > k
      BY <1>0, <1>5 DEF TypeOK
    <2>1. ASSUME NEW k \in DOMAIN q', LastWriter(k)'
          PROVE  map_table_'[q'[k].dst] = q'[k].pdst
      <3>1. CASE k \in 1..n
        <4>1. q'[n + 1].dst # q'[k].dst /\ q'[k].dst # NoReg
          BY <2>0, <2>1, <3>1 DEF LastWriter
        <4>2. LastWriter(k)
          BY <1>5, <2>0, <2>1, <3>1 DEF LastWriter
        <4>3. map_table_[q[k].dst] = q[k].pdst
          BY <1>0, <1>5, <3>1, <4>2 DEF ReplayInv
        <4>4. q[k].dst \in ARegs
          <5>1. q[k] \in Renamed
            BY <1>0, <3>1, QueueTypes
          <5> QED BY <1>5, <3>1, <4>1, <5>1 DEF Renamed, OptAReg
        <4> QED BY <1>4, <1>5, <2>0, <3>1, <4>1, <4>3, <4>4
      <3>2. CASE k = n + 1
        <4>1. u.dst # NoReg
          BY <1>4, <1>5, <2>1, <3>2 DEF LastWriter
        <4> QED BY <1>4, <1>5, <2>0, <3>2, <4>1
      <3> QED BY <1>5, <1>6, <3>1, <3>2
    <2>2. ASSUME NEW j \in DOMAIN q', NEW k \in DOMAIN q', Consecutive(j, k)'
          PROVE  q'[k].prev = q'[j].pdst
      <3>0. j < k /\ j \in 1..n
        BY <1>5, <2>2 DEF Consecutive
      <3>1. CASE k \in 1..n
        <4>1. Consecutive(j, k)
          BY <1>5, <2>0, <2>2, <3>0, <3>1 DEF Consecutive
        <4> QED BY <1>0, <1>5, <3>0, <3>1, <4>1 DEF ReplayInv
      <3>2. CASE k = n + 1
        <4>1. q[j].dst # NoReg /\ q[j].dst = u.dst
          BY <1>4, <1>5, <2>2, <3>0, <3>2 DEF Consecutive
        <4>2. ASSUME NEW l \in DOMAIN q, l > j PROVE q[l].dst # q[j].dst
          <5>1. j < l /\ l < k /\ l \in DOMAIN q' /\ q'[l] = q[l]
            BY <1>5, <2>0, <3>2, <4>2
          <5> QED BY <1>4, <1>5, <2>2, <3>0, <3>2, <4>1, <5>1 DEF Consecutive
        <4>3. LastWriter(j)
          BY <4>1, <4>2 DEF LastWriter
        <4>4. map_table_[q[j].dst] = q[j].pdst
          BY <1>0, <1>5, <3>0, <4>3 DEF ReplayInv
        <4> QED BY <1>4, <1>5, <3>0, <3>2, <4>1, <4>4
      <3> QED BY <1>5, <1>6, <3>1, <3>2
    <2> QED BY <2>1, <2>2 DEF ReplayInv
  <1>13. AckInv'
    BY <1>0 DEF AckInv, renameInst
  <1>14. SessionInv' /\ CreditsConserved' /\ num_to_rename' \in Nat /\ num_renamed' \in Nat
    <2>1. /\ num_to_rename' = num_to_rename - 1 /\ num_renamed' = num_renamed + 1
          /\ credits_dispatch_' = credits_dispatch_ /\ uop_queue_credits_' = uop_queue_credits_
          /\ to_dispatch' = to_dispatch /\ Len(w') = Len(w) - 1
      BY <1>2, <1>3 DEF renameInst
    <2>2. SessionInv' /\ num_to_rename' \in Nat /\ num_renamed' \in Nat
      BY <1>0, <1>1, <1>2, <1>5, <2>1 DEF SessionInv
    <2>3. uop_queue_credits_ \in Nat /\ Len(w) \in Nat /\ num_renamed \in Nat
      BY <1>0, <1>2 DEF TypeOK
    <2>4. CreditsConserved'
      BY <1>0, <2>1, <2>3 DEF CreditsConserved
    <2> QED BY <2>2, <2>4
  <1>15. TypeOK'
    <2>1. regcount' \in [RegFiles -> Nat]
      BY <1>0, <1>2, <1>3, RegCountType DEF TypeOK, renameInst, RegCountAfterPop
    <2> QED BY <1>0, <1>2, <1>3, <1>4, <1>5, <1>14, <2>1 DEF TypeOK, renameInst, events
  <1> QED BY <1>4, <1>9, <1>10, <1>11, <1>12, <1>13, <1>14, <1>15 DEF IInv, RegInv

-----------------------------------------------------------------------------
(* The actions that leave the registers and inst_queue_ alone.             *)

\* A step that leaves the registers and both queues alone keeps RegInv.
LEMMA RegFrame ==
    ASSUME IInv, inst_queue_' = inst_queue_, UNCHANGED regs
    PROVE  /\ FileInv' /\ ReplayInv' /\ RefCountExact' /\ FreelistExact'
           /\ inst_queue_' \in Seq(Renamed) /\ map_table_' \in [ARegs -> PRegs]
           /\ cnt' \in [PRegs -> Nat] /\ freelist' \in [RegFiles -> Seq(PRegs)]
           /\ producer_is_load' \in [PRegs -> BOOLEAN]
           /\ val' \in [PRegs -> ARegs \cup Nat]
  <1>1. /\ map_table_' = map_table_ /\ cnt' = cnt /\ freelist' = freelist
        /\ producer_is_load' = producer_is_load /\ val' = val
    BY DEF regs
  <1>2. FileInv'
    BY <1>1 DEF IInv, RegInv, FileInv
  <1>3. ReplayInv'
    BY <1>1 DEF IInv, RegInv, ReplayInv, LastWriter, Consecutive
  <1>4. RefCountExact'
    BY <1>1 DEF IInv, RegInv, RefCountExact, Mapped, Holders
  <1>5. FreelistExact'
    BY <1>1 DEF IInv, RegInv, FreelistExact
  <1> QED BY <1>1, <1>2, <1>3, <1>4, <1>5 DEF IInv, TypeOK

\* A group from Decode (decodedInstructions_) keeps IInv.
LEMMA DecodeKeeps ==
    ASSUME IInv, DecodeSends
    PROVE  IInv'
  <1>0. TypeOK /\ SessionInv /\ AckInv /\ OrderInv /\ CreditsConserved
    BY DEF IInv, RegInv
  <1>a. PICK n \in 0..Min2(uop_queue_credits_, MaxUid + 1 - next_uid) : \E ops \in [1..n -> Ops] :
            /\ decodedInstructions([k \in 1..n |->
                    [uid |-> next_uid + k - 1, src |-> ops[k].src,
                     dst |-> ops[k].dst, kind |-> ops[k].kind]])
            /\ uop_queue_credits_' = uop_queue_credits_ - n
            /\ next_uid' = next_uid + n
    BY DEF DecodeSends
  <1>1. PICK ops \in [1..n -> Ops] :
            /\ decodedInstructions([k \in 1..n |->
                    [uid |-> next_uid + k - 1, src |-> ops[k].src,
                     dst |-> ops[k].dst, kind |-> ops[k].kind]])
            /\ uop_queue_credits_' = uop_queue_credits_ - n
            /\ next_uid' = next_uid + n
    BY <1>a
  <1> DEFINE grp == [k \in 1..n |-> [uid |-> next_uid + k - 1, src |-> ops[k].src,
                                     dst |-> ops[k].dst, kind |-> ops[k].kind]]
             w == uop_queue_
             m == Len(uop_queue_)
  <1>2. next_uid \in Nat /\ uop_queue_credits_ \in Nat /\ num_renamed = 0 /\ pc = "idle"
        /\ num_renamed \in Nat
    BY <1>0, <1>1 DEF TypeOK, SessionInv, decodedInstructions
  <1>3. n \in Nat /\ n <= uop_queue_credits_
    <2>1. Min2(uop_queue_credits_, MaxUid + 1 - next_uid) \in Int
          /\ Min2(uop_queue_credits_, MaxUid + 1 - next_uid) <= uop_queue_credits_
      BY <1>2, ParameterAssumption DEF Min2
    <2> QED BY <1>2, <2>1
  <1>4. grp \in Seq(Uop) /\ Len(grp) = n /\ DOMAIN grp = 1..n
        /\ \A k \in 1..n : grp[k].uid = next_uid + k - 1
    <2>1. ASSUME NEW k \in 1..n
          PROVE  [uid |-> next_uid + k - 1, src |-> ops[k].src,
                  dst |-> ops[k].dst, kind |-> ops[k].kind] \in Uop
      <3>1. ops[k] \in Op
        BY ParameterAssumption
      <3>2. next_uid + k - 1 \in Nat
        BY <1>2, <1>3
      <3> QED BY <3>1, <3>2 DEF Op, Uop
    <2>2. grp \in [1..n -> Uop]
      BY <2>1
    <2>3. \A k \in 1..n : grp[k].uid = next_uid + k - 1
      OBVIOUS
    <2> QED BY <1>3, <2>2, <2>3, FunIsSeq
  <1> HIDE DEF grp
  <1>5. decodedInstructions(grp)
    BY <1>1 DEF grp
  <1>6. w \in Seq(Uop) /\ m \in Nat /\ DOMAIN w = 1..m /\ \A k \in 1..m : w[k].uid \in Nat
    BY <1>0, QueueTypes
  <1>7. w' = w \o grp /\ w' \in Seq(Uop) /\ Len(w') = m + n
        /\ \A k \in 1..(m + n) : w'[k] = IF k <= m THEN w[k] ELSE grp[k - m]
    BY <1>4, <1>5, <1>6, ConcatProperties DEF decodedInstructions
  <1>8. DOMAIN w' = 1..(m + n)
    BY <1>7, LenProperties
  <1>9. \A k \in 1..(m + n) : IF k <= m THEN k \in 1..m /\ w'[k] = w[k]
                              ELSE w'[k].uid = next_uid + (k - m) - 1
    <2>1. ASSUME NEW k \in 1..(m + n), ~(k <= m) PROVE k - m \in 1..n
      BY <1>3, <1>6, <2>1
    <2>2. ASSUME NEW k \in 1..(m + n), k <= m PROVE k \in 1..m
      BY <1>3, <1>6, <2>2
    <2> QED BY <1>4, <1>7, <2>1, <2>2
  <1>10. \A k \in 1..(m + n) : w'[k].uid \in Nat /\ w'[k].uid < next_uid + n
                               /\ (~(k <= m) => next_uid <= w'[k].uid)
    <2>1. \A k \in 1..m : w[k].uid < next_uid
      BY <1>0, <1>6 DEF OrderInv
    <2> SUFFICES ASSUME NEW k \in 1..(m + n)
                 PROVE  w'[k].uid \in Nat /\ w'[k].uid < next_uid + n
                        /\ (~(k <= m) => next_uid <= w'[k].uid)
      OBVIOUS
    <2>2. CASE k <= m
      <3>1. k \in 1..m /\ w'[k] = w[k]
        BY <1>9, <2>2
      <3>2. w[k].uid \in Nat /\ w[k].uid < next_uid
        BY <1>6, <2>1, <3>1
      <3> QED BY <1>2, <1>3, <2>2, <3>1, <3>2
    <2>3. CASE ~(k <= m)
      <3>1. w'[k].uid = next_uid + (k - m) - 1
        BY <1>9, <2>3
      <3>2. k \in Int /\ m < k /\ k <= m + n
        BY <1>3, <1>6, <2>3
      <3> HIDE DEF w, m
      <3> QED BY <1>2, <1>3, <1>6, <2>3, <3>1, <3>2
    <2> QED BY <2>2, <2>3
  <1>11. /\ inst_queue_' = inst_queue_ /\ UNCHANGED regs
         /\ phase' = phase /\ pc' = pc /\ credits_dispatch_' = credits_dispatch_
         /\ ev_rename_insts_' = ev_rename_insts_ /\ UNCHANGED locals /\ to_dispatch' = to_dispatch
         /\ regcount' = RegCountData(w') /\ ev_schedule_rename_' = ev_schedule_rename_ \cup {0}
         /\ next_uid' = next_uid + n /\ uop_queue_credits_' = uop_queue_credits_ - n
    BY <1>1, <1>5 DEF decodedInstructions
  <1>12. OrderInv'
    <2>1. ASSUME NEW j \in DOMAIN w', NEW k \in DOMAIN w', j < k PROVE w'[j].uid < w'[k].uid
      <3>1. CASE k <= m
        BY <1>0, <1>6, <1>8, <1>9, <2>1, <3>1 DEF OrderInv
      <3>2. CASE ~(k <= m) /\ j <= m
        <4>1. w'[j].uid < next_uid /\ next_uid <= w'[k].uid
          BY <1>0, <1>6, <1>8, <1>9, <1>10, <3>2 DEF OrderInv
        <4> QED BY <1>2, <1>8, <1>10, <4>1
      <3>3. CASE ~(k <= m) /\ ~(j <= m)
        BY <1>2, <1>6, <1>8, <1>9, <2>1, <3>3
      <3> QED BY <3>1, <3>2, <3>3
    <2>2. ASSUME NEW j \in DOMAIN inst_queue_, NEW k \in DOMAIN w'
          PROVE  inst_queue_[j].uid < w'[k].uid
      <3>1. inst_queue_[j].uid \in Nat /\ inst_queue_[j].uid < next_uid
        BY <1>0, QueueTypes DEF OrderInv
      <3>2. CASE k <= m
        BY <1>0, <1>2, <1>3, <1>6, <1>8, <1>9, <3>1, <3>2 DEF OrderInv
      <3>3. CASE ~(k <= m)
        BY <1>2, <1>3, <1>8, <1>10, <3>1, <3>3
      <3> QED BY <3>2, <3>3
    <2>3. ASSUME NEW j \in DOMAIN inst_queue_ PROVE inst_queue_[j].uid < next_uid + n
      <3>1. inst_queue_[j].uid \in Nat /\ inst_queue_[j].uid < next_uid
        BY <1>0, QueueTypes DEF OrderInv
      <3> QED BY <1>2, <1>3, <3>1
    <2> QED BY <1>0, <1>8, <1>10, <1>11, <2>1, <2>2, <2>3 DEF OrderInv
  <1>13. CreditsConserved' /\ SessionInv' /\ AckInv'
    <2>1. CreditsConserved'
      BY <1>0, <1>2, <1>3, <1>6, <1>7, <1>11 DEF CreditsConserved, locals
    <2> QED BY <1>0, <1>2, <1>11, <2>1 DEF SessionInv, AckInv, locals
  <1>14. TypeOK'
    <2>1. regcount' \in [RegFiles -> Nat]
      BY <1>7, <1>11, RegCountType
    <2>2. uop_queue_credits_' \in Nat /\ next_uid' \in Nat
      BY <1>2, <1>3, <1>11
    <2>3. ev_schedule_rename_' \subseteq {0, 1}
      BY <1>0, <1>11 DEF TypeOK
    <2> QED BY <1>0, <1>7, <1>11, <2>1, <2>2, <2>3, RegFrame DEF TypeOK, locals
  <1> QED BY <1>11, <1>12, <1>13, <1>14, RegFrame DEF IInv, RegInv

\* A group of retired instructions from ROB (getAckFromROB_ begins) keeps IInv.
LEMMA ROBAcksKeeps ==
    ASSUME IInv, ROBAcks
    PROVE  IInv'
  <1>0. TypeOK /\ SessionInv /\ AckInv /\ OrderInv /\ CreditsConserved
    BY DEF IInv, RegInv
  <1>1. PICK n \in 1..Len(inst_queue_) : getAckFromROB(SubSeq(inst_queue_, 1, n))
    BY DEF ROBAcks
  <1>2. inst_queue_ \in Seq(Renamed) /\ Len(inst_queue_) \in Nat
        /\ \A k \in 1..Len(inst_queue_) : inst_queue_[k] \in Renamed
    BY <1>0, QueueTypes
  <1>3. n \in Int /\ 1 \in Int /\ 1 <= n /\ n <= Len(inst_queue_)
        /\ \A k \in 1..n : inst_queue_[k] \in Renamed
    BY <1>2
  <1> DEFINE g == SubSeq(inst_queue_, 1, n)
  <1>4. /\ g \in Seq(Renamed) /\ Len(g) = n
        /\ \A k \in 1..n : g[k] = inst_queue_[k]
    <2>1. /\ g \in Seq(Renamed)
          /\ Len(g) = IF 1 <= n THEN n - 1 + 1 ELSE 0
          /\ \A k \in 1..(n - 1 + 1) : g[k] = inst_queue_[1 + k - 1]
      BY <1>3, SubSeqProperties
    <2> QED BY <1>3, <2>1
  <1> HIDE DEF g
  <1>5. DOMAIN g = 1..n /\ g # << >>
    BY <1>3, <1>4, LenProperties
  <1>6. getAckFromROB(g)
    BY <1>1 DEF g
  <1>7. /\ inst_queue_' = inst_queue_ /\ UNCHANGED regs /\ ack_group' = g /\ pc' = "ack" /\ pc = "idle"
    BY <1>6 DEF getAckFromROB
  <1>8. AckInv'
    BY <1>3, <1>4, <1>5, <1>7 DEF AckInv
  <1>9. SessionInv' /\ OrderInv' /\ CreditsConserved'
    BY <1>0, <1>6 DEF SessionInv, OrderInv, CreditsConserved, getAckFromROB
  <1>10. TypeOK'
    BY <1>0, <1>4, <1>6, <1>7, RegFrame DEF TypeOK, getAckFromROB, events
  <1> QED BY <1>7, <1>8, <1>9, <1>10, RegFrame DEF IInv, RegInv

\* Credits from Dispatch (creditsDispatchQueue_) keep IInv.
LEMMA DispatchCreditsKeeps ==
    ASSUME IInv, DispatchReturnsCredits
    PROVE  IInv'
  <1>0. TypeOK /\ SessionInv /\ AckInv /\ OrderInv /\ CreditsConserved
    BY DEF IInv, RegInv
  <1>1. PICK n \in 1..Len(to_dispatch) :
            /\ creditsDispatchQueue(n)
            /\ to_dispatch' = SubSeq(to_dispatch, n + 1, Len(to_dispatch))
    BY DEF DispatchReturnsCredits
  <1>2. to_dispatch \in Seq(Renamed) /\ Len(to_dispatch) \in Nat
        /\ \A k \in 1..Len(to_dispatch) : to_dispatch[k] \in Renamed
    BY <1>0, LenProperties, ElementOfSeq DEF TypeOK
  <1>3. n \in Nat /\ n + 1 \in Int /\ Len(to_dispatch) \in Int /\ n <= Len(to_dispatch)
        /\ \A k \in (n + 1)..Len(to_dispatch) : to_dispatch[k] \in Renamed
    BY <1>2
  <1>4. /\ to_dispatch' \in Seq(Renamed)
        /\ Len(to_dispatch') = IF n + 1 <= Len(to_dispatch)
                               THEN Len(to_dispatch) - (n + 1) + 1 ELSE 0
    BY <1>1, <1>3, SubSeqProperties
  <1>5. Len(to_dispatch') = Len(to_dispatch) - n
    BY <1>2, <1>3, <1>4
  <1>6. /\ inst_queue_' = inst_queue_ /\ UNCHANGED regs
        /\ credits_dispatch_' = credits_dispatch_ + n /\ pc' = pc /\ pc = "idle"
        /\ ev_schedule_rename_' \subseteq {0, 1}
    BY <1>0, <1>1 DEF creditsDispatchQueue, WakeOnCredits, TypeOK
  <1>7. CreditsConserved' /\ credits_dispatch_' \in Nat
    <2>1. credits_dispatch_ \in Nat
      BY <1>0 DEF TypeOK
    <2>2. uop_queue_' = uop_queue_ /\ uop_queue_credits_' = uop_queue_credits_
          /\ num_renamed' = num_renamed
      BY <1>1 DEF creditsDispatchQueue, locals
    <2> QED BY <1>0, <1>2, <1>3, <1>5, <1>6, <2>1, <2>2 DEF CreditsConserved
  <1>8. SessionInv' /\ AckInv' /\ OrderInv'
    BY <1>0, <1>1, <1>6 DEF SessionInv, AckInv, OrderInv, creditsDispatchQueue, locals
  <1>9. TypeOK'
    BY <1>0, <1>1, <1>4, <1>6, <1>7, RegFrame DEF TypeOK, creditsDispatchQueue, locals
  <1> QED BY <1>6, <1>7, <1>8, <1>9, RegFrame DEF IInv, RegInv

\* The end of a rename session (renameInstructions_) keeps IInv.
LEMMA SendRenamedKeeps ==
    ASSUME IInv, sendRenamed
    PROVE  IInv'
  <1>0. TypeOK /\ SessionInv /\ AckInv /\ OrderInv /\ CreditsConserved /\ pc = "rename"
    BY DEF IInv, RegInv, sendRenamed
  <1> DEFINE n == Len(inst_queue_)
             r == num_renamed
             g == SubSeq(inst_queue_, Len(inst_queue_) - num_renamed + 1, Len(inst_queue_))
  <1>1. /\ n \in Nat /\ r \in Nat /\ r <= n /\ num_to_rename \in Nat
        /\ num_to_rename + r <= credits_dispatch_ /\ credits_dispatch_ \in Nat
        /\ uop_queue_credits_ \in Nat /\ Len(uop_queue_) \in Nat
        /\ \A k \in 1..n : inst_queue_[k] \in Renamed
    BY <1>0, QueueTypes DEF SessionInv, TypeOK
  <1>2. to_dispatch \in Seq(Renamed) /\ Len(to_dispatch) \in Nat
    BY <1>0, LenProperties DEF TypeOK
  <1>3. g \in Seq(Renamed) /\ Len(g) = r
    <2>1. n - r + 1 \in Int /\ n \in Int /\ \A k \in (n - r + 1)..n : inst_queue_[k] \in Renamed
      BY <1>1
    <2>2. g \in Seq(Renamed) /\ Len(g) = IF n - r + 1 <= n THEN n - (n - r + 1) + 1 ELSE 0
      BY <2>1, SubSeqProperties
    <2> QED BY <1>1, <2>2
  <1>4. /\ to_dispatch' = to_dispatch \o g /\ inst_queue_' = inst_queue_ /\ UNCHANGED regs
        /\ credits_dispatch_' = credits_dispatch_ - r
        /\ uop_queue_credits_' = uop_queue_credits_ + r
        /\ num_to_rename' = 0 /\ num_renamed' = 0 /\ pc' = "idle" /\ uop_queue_' = uop_queue_
    BY DEF sendRenamed
  <1>5. to_dispatch' \in Seq(Renamed) /\ Len(to_dispatch') = Len(to_dispatch) + r
    BY <1>2, <1>3, <1>4, ConcatProperties
  <1> HIDE DEF g
  <1>6. /\ credits_dispatch_' \in Nat /\ uop_queue_credits_' \in Nat /\ CreditsConserved'
    BY <1>0, <1>1, <1>2, <1>4, <1>5 DEF CreditsConserved
  <1>7. SessionInv' /\ AckInv' /\ OrderInv'
    <2>1. ack_group' = ack_group /\ next_uid' = next_uid
      BY DEF sendRenamed
    <2> QED BY <1>0, <1>4, <2>1 DEF SessionInv, AckInv, OrderInv
  <1>8. ev_schedule_rename_' \subseteq {0, 1}
    BY <1>0 DEF sendRenamed, TypeOK
  <1>9. TypeOK'
    BY <1>0, <1>4, <1>5, <1>6, <1>8, RegFrame DEF TypeOK, sendRenamed
  <1> QED BY <1>4, <1>6, <1>7, <1>9, RegFrame DEF IInv, RegInv

\* The end of handleFlush_, which empties the uop queue, keeps IInv.
LEMMA FlushUopQueueKeeps ==
    ASSUME IInv, flushUopQueue
    PROVE  IInv'
  <1>0. TypeOK /\ SessionInv /\ AckInv /\ OrderInv /\ CreditsConserved /\ pc = "flush"
    BY DEF IInv, RegInv, flushUopQueue
  <1>1. /\ inst_queue_' = inst_queue_ /\ UNCHANGED regs /\ pc' = "idle"
        /\ uop_queue_' = << >> /\ uop_queue_credits_' = uop_queue_credits_ + Len(uop_queue_)
        /\ credits_dispatch_' = credits_dispatch_ /\ to_dispatch' = to_dispatch
        /\ num_renamed' = num_renamed /\ ack_group' = ack_group /\ next_uid' = next_uid
    BY DEF flushUopQueue, CreditsAfterFlush
  <1>2. uop_queue_credits_ \in Nat /\ Len(uop_queue_) \in Nat /\ num_renamed = 0
        /\ uop_queue_' \in Seq(Uop) /\ Len(uop_queue_') = 0 /\ DOMAIN uop_queue_' = {}
    <2>1. uop_queue_' \in Seq(Uop) /\ Len(uop_queue_') = 0
      BY <1>1, EmptySeq
    <2>2. DOMAIN uop_queue_' = {}
      BY <1>1
    <2> QED BY <1>0, <2>1, <2>2, QueueTypes DEF TypeOK, SessionInv
  <1>3. CreditsConserved' /\ uop_queue_credits_' \in Nat
    BY <1>0, <1>1, <1>2 DEF CreditsConserved
  <1>4. SessionInv' /\ AckInv' /\ OrderInv'
    BY <1>0, <1>1, <1>2 DEF SessionInv, AckInv, OrderInv
  <1>5. TypeOK'
    BY <1>0, <1>1, <1>2, <1>3, RegFrame DEF TypeOK, flushUopQueue, events, NoCrit
  <1> QED BY <1>1, <1>3, <1>4, <1>5, RegFrame DEF IInv, RegInv

\* The handlers and events that only move the clock, the events and the locals.
LEMMA SchedulingKeeps ==
    ASSUME IInv,
           Flushes \/ scheduleRenaming \/ renameInstructions \/ nextPhase \/ UNCHANGED vars
    PROVE  IInv'
  <1>0. TypeOK /\ SessionInv /\ AckInv /\ OrderInv /\ CreditsConserved
    BY DEF IInv, RegInv
  <1>1. CASE Flushes
    <2>1. PICK u \in {i.uid : i \in SeqRange(inst_queue_)} \cup {0}, incl \in BOOLEAN :
              handleFlush([uid |-> u, inclusive |-> incl])
      BY <1>1 DEF Flushes
    <2>2. u \in Nat
      BY <1>0, QueueTypes DEF SeqRange
    <2>3. inst_queue_' = inst_queue_ /\ UNCHANGED regs /\ pc = "idle"
      BY <2>1 DEF handleFlush
    <2>4. SessionInv' /\ AckInv' /\ OrderInv' /\ CreditsConserved'
      BY <1>0, <2>1 DEF SessionInv, AckInv, OrderInv, CreditsConserved, handleFlush
    <2>5. TypeOK'
      BY <1>0, <2>1, <2>2, <2>3, RegFrame DEF TypeOK, handleFlush, events
    <2> QED BY <2>3, <2>4, <2>5, RegFrame DEF IInv, RegInv
  <1>2. CASE scheduleRenaming
    <2>1. inst_queue_' = inst_queue_ /\ UNCHANGED regs /\ ev_rename_insts_' \in BOOLEAN
          /\ ev_schedule_rename_' \subseteq {0, 1}
      BY <1>0, <1>2 DEF scheduleRenaming, TypeOK
    <2>2. SessionInv' /\ AckInv' /\ OrderInv' /\ CreditsConserved'
      BY <1>0, <1>2 DEF SessionInv, AckInv, OrderInv, CreditsConserved, scheduleRenaming, locals
    <2>3. TypeOK'
      BY <1>0, <1>2, <2>1, RegFrame DEF TypeOK, scheduleRenaming, locals
    <2> QED BY <2>1, <2>2, <2>3, RegFrame DEF IInv, RegInv
  <1>3. CASE renameInstructions
    <2>1. inst_queue_' = inst_queue_ /\ UNCHANGED regs /\ num_to_rename' = SessionSize
          /\ num_renamed' = 0 /\ pc' = "rename" /\ pc = "idle"
      BY <1>3 DEF renameInstructions
    <2>2. SessionSize \in Nat /\ SessionSize <= credits_dispatch_ /\ SessionSize <= Len(uop_queue_)
      <3>1. credits_dispatch_ \in Nat /\ Len(uop_queue_) \in Nat
        BY <1>0, QueueTypes DEF TypeOK
      <3> QED BY <3>1, ParameterAssumption DEF SessionSize, Min2
    <2>3. SessionInv'
      <3>1. credits_dispatch_' = credits_dispatch_ /\ uop_queue_' = uop_queue_
            /\ Len(inst_queue_) \in Nat /\ credits_dispatch_ \in Nat
        BY <1>0, <1>3, QueueTypes DEF renameInstructions, TypeOK
      <3> QED BY <2>1, <2>2, <3>1 DEF SessionInv
    <2>4. AckInv' /\ OrderInv'
      BY <1>0, <1>3 DEF AckInv, OrderInv, renameInstructions
    <2>5. CreditsConserved'
      <3>1. num_renamed' = num_renamed
        BY <1>0, <2>1 DEF SessionInv
      <3> QED BY <1>0, <1>3, <3>1 DEF CreditsConserved, renameInstructions
    <2>6. TypeOK'
      <3>1. num_to_rename' \in Nat /\ num_renamed' \in Nat
        BY <2>1, <2>2
      <3>2. ev_rename_insts_' \in BOOLEAN /\ pc' \in {"idle", "ack", "flush", "rename"}
        BY <1>3 DEF renameInstructions
      <3> QED BY <1>0, <1>3, <2>1, <3>1, <3>2, RegFrame DEF TypeOK, renameInstructions
    <2> QED BY <2>1, <2>3, <2>4, <2>5, <2>6, RegFrame DEF IInv, RegInv
  <1>4. CASE nextPhase
    <2>1. inst_queue_' = inst_queue_ /\ UNCHANGED regs /\ phase' \in {"port", "flush", "tick"}
      BY <1>4 DEF nextPhase
    <2>2. ev_schedule_rename_' \subseteq {0, 1}
      <3>1. CASE ev_schedule_rename_' = ev_schedule_rename_
        BY <1>0, <3>1 DEF TypeOK
      <3>2. CASE TickDone /\ ev_schedule_rename_' = {d - 1 : d \in ev_schedule_rename_}
        <4>1. \A d \in ev_schedule_rename_ : d = 1
          BY <1>0, <3>2 DEF TypeOK, TickDone
        <4> QED BY <3>2, <4>1
      <3> QED BY <1>4, <3>1, <3>2 DEF nextPhase
    <2>3. SessionInv' /\ AckInv' /\ OrderInv' /\ CreditsConserved'
      BY <1>0, <1>4 DEF SessionInv, AckInv, OrderInv, CreditsConserved, nextPhase, locals
    <2>4. TypeOK'
      BY <1>0, <1>4, <2>1, <2>2, RegFrame DEF TypeOK, nextPhase, locals
    <2> QED BY <2>1, <2>3, <2>4, RegFrame DEF IInv, RegInv
  <1>5. CASE UNCHANGED vars
    <2>1. inst_queue_' = inst_queue_ /\ UNCHANGED regs
      BY <1>5 DEF vars
    <2>2. SessionInv' /\ AckInv' /\ OrderInv' /\ CreditsConserved'
      BY <1>0, <1>5 DEF SessionInv, AckInv, OrderInv, CreditsConserved, vars, locals
    <2>3. TypeOK'
      BY <1>0, <1>5, <2>1, RegFrame DEF TypeOK, vars, events, locals
    <2> QED BY <2>1, <2>2, <2>3, RegFrame DEF IInv, RegInv
  <1> QED BY <1>1, <1>2, <1>3, <1>4, <1>5

-----------------------------------------------------------------------------
(* The invariant.                                                          *)

\* The state after construction and startup (setupRename_) satisfies IInv.
LEMMA InitIInv == Init => IInv
  <1> SUFFICES ASSUME Init PROVE IInv
    OBVIOUS
  <1>0. /\ map_table_ = InitMap /\ freelist = InitFree /\ inst_queue_ = << >> /\ uop_queue_ = << >>
        /\ ack_group = << >> /\ to_dispatch = << >> /\ pc = "idle" /\ num_renamed = 0
        /\ cnt = [p \in PRegs |-> IF \E a \in ARegs : InitMap[a] = p THEN 1 ELSE 0]
    BY DEF Init
  <1>1. /\ << >> \in Seq(Renamed) /\ << >> \in Seq(Uop) /\ Len(<< >>) = 0
        /\ DOMAIN inst_queue_ = {} /\ DOMAIN uop_queue_ = {}
    BY <1>0, EmptySeq
  <1>2. val \in [PRegs -> ARegs \cup Nat]
    <2>1. ASSUME NEW p \in PRegs, \E a \in ARegs : InitMap[a] = p
          PROVE  (CHOOSE a \in ARegs : InitMap[a] = p) \in ARegs
      BY <2>1
    <2> QED BY <2>1 DEF Init
  <1>3. TypeOK
    <2>1. cnt \in [PRegs -> Nat] /\ regcount \in [RegFiles -> Nat]
      BY DEF Init
    <2>2. producer_is_load \in [PRegs -> BOOLEAN]
          /\ ev_rename_insts_ \in BOOLEAN /\ flush_crit \in [uid : Nat, inclusive : BOOLEAN]
      BY DEF Init, NoCrit
    <2>3. map_table_ \in [ARegs -> PRegs] /\ freelist \in [RegFiles -> Seq(PRegs)]
      BY <1>0, RegisterAssumption, FreelistAssumption
    <2>4. /\ credits_dispatch_ \in Nat /\ uop_queue_credits_ \in Nat /\ next_uid \in Nat
          /\ num_to_rename \in Nat /\ num_renamed \in Nat /\ ev_schedule_rename_ \subseteq {0, 1}
          /\ phase \in {"port", "flush", "tick"} /\ pc \in {"idle", "ack", "flush", "rename"}
      BY ParameterAssumption DEF Init
    <2> QED BY <1>0, <1>1, <1>2, <2>1, <2>2, <2>3, <2>4 DEF TypeOK
  <1>4. SessionInv /\ AckInv /\ OrderInv /\ ReplayInv
    BY <1>0, <1>1 DEF SessionInv, AckInv, OrderInv, ReplayInv
  <1>5. FileInv
    BY <1>0, <1>1, RegisterAssumption DEF FileInv
  <1>6. RefCountExact
    <2>1. SUFFICES ASSUME NEW p \in PRegs
                   PROVE  cnt[p] = Cardinality(Mapped(p)) + Cardinality(Holders(p))
      BY DEF RefCountExact
    <2>2. Cardinality(Holders(p)) = 0
      <3>1. Holders(p) = {}
        BY <1>1 DEF Holders, SeqRange
      <3> QED BY <3>1, FS_EmptySet
    <2>3. CASE \E a \in ARegs : InitMap[a] = p
      <3>1. PICK a \in ARegs : InitMap[a] = p
        BY <2>3
      <3>2. Mapped(p) = {a}
        BY <1>0, <3>1, RegisterAssumption DEF Mapped
      <3>3. Cardinality(Mapped(p)) = 1
        BY <3>2, FS_Singleton
      <3> QED BY <1>0, <2>2, <2>3, <3>3
    <2>4. CASE ~\E a \in ARegs : InitMap[a] = p
      <3>1. Mapped(p) = {}
        BY <1>0, <2>4 DEF Mapped
      <3>2. Cardinality(Mapped(p)) = 0
        BY <3>1, FS_EmptySet
      <3> QED BY <1>0, <2>2, <2>4, <3>2
    <2> QED BY <2>3, <2>4
  <1>7. FreelistExact
    <2>1. \A p \in PRegs : cnt[p] = 0 <=> \A a \in ARegs : InitMap[a] # p
      BY <1>0
    <2> QED BY <1>0, <2>1, FreelistAssumption DEF FreelistExact
  <1>8. CreditsConserved
    BY <1>0, <1>1, ParameterAssumption DEF CreditsConserved, Init
  <1> QED BY <1>3, <1>4, <1>5, <1>6, <1>7, <1>8 DEF IInv, RegInv

\* Every step of Rename and of its neighbours keeps IInv.
LEMMA NextIInv == IInv /\ [Next]_vars => IInv'
  <1> SUFFICES ASSUME IInv, [Next]_vars PROVE IInv'
    OBVIOUS
  <1>1. CASE DecodeSends            BY <1>1, DecodeKeeps
  <1>2. CASE ROBAcks                BY <1>2, ROBAcksKeeps
  <1>3. CASE DispatchReturnsCredits BY <1>3, DispatchCreditsKeeps
  <1>4. CASE ackInst                BY <1>4, AckKeeps
  <1>5. CASE flushInst              BY <1>5, FlushInstKeeps
  <1>6. CASE flushUopQueue          BY <1>6, FlushUopQueueKeeps
  <1>7. CASE renameInst             BY <1>7, RenameInstKeeps
  <1>8. CASE sendRenamed            BY <1>8, SendRenamedKeeps
  <1>9. CASE Flushes \/ scheduleRenaming \/ renameInstructions \/ nextPhase \/ UNCHANGED vars
    BY <1>9, SchedulingKeeps
  <1> QED BY <1>1, <1>2, <1>3, <1>4, <1>5, <1>6, <1>7, <1>8, <1>9 DEF Next, RenameSteps

\* IInv holds in every reachable state of Rename.
LEMMA Invariance == Spec => []IInv
  BY InitIInv, NextIInv, PTL DEF Spec

\* Every variable of Rename always has its type; in particular the credit
\* counters and reference counters of Rename.cpp never underflow.
THEOREM TypeCorrect == Spec => []TypeOK
  <1>1. IInv => TypeOK
    BY DEF IInv
  <1> QED BY <1>1, Invariance, PTL

\* Reference counters count references, whatever the interleaving of renaming,
\* move elimination, retirement (getAckFromROB_) and flushes (handleFlush_).
THEOREM RefCountsAreExact == Spec => []RefCountExact
  <1>1. IInv => RefCountExact
    BY DEF IInv, RegInv
  <1> QED BY <1>1, Invariance, PTL

\* No physical register is ever leaked, freed twice or handed out while in use.
THEOREM FreelistsAreExact == Spec => []FreelistExact
  <1>1. IInv => FreelistExact
    BY DEF IInv, RegInv
  <1> QED BY <1>1, Invariance, PTL

\* No queue entry of Rename's uop queue or of Dispatch's queue is ever lost.
THEOREM CreditsAreConserved == Spec => []CreditsConserved
  <1>1. IInv => CreditsConserved
    BY DEF IInv
  <1> QED BY <1>1, Invariance, PTL

-----------------------------------------------------------------------------
(* Wakeups and granted sessions.                                           *)

\* No step leaves work without an event for it.
LEMMA StepWakes ==
    ASSUME IInv, IInv', NoLostWakeup, [Next]_vars
    PROVE  NoLostWakeup'
<1>0. TypeOK /\ TypeOK'
  BY DEF IInv
<1>t. /\ credits_dispatch_ \in Nat /\ ev_schedule_rename_ \subseteq {0, 1} /\ ev_rename_insts_ \in BOOLEAN
      /\ Len(uop_queue_) \in Nat /\ (uop_queue_ = << >> <=> Len(uop_queue_) = 0)
      /\ credits_dispatch_' \in Nat /\ Len(uop_queue_)' \in Nat
      /\ (uop_queue_' = << >> <=> Len(uop_queue_') = 0)
  BY <1>0, QueueTypes, SeqFacts DEF TypeOK
<1>c. haveDispatchCredits' /\ uop_queue_' # << >> => credits_dispatch_' > 0
  BY <1>t DEF haveDispatchCredits
<1> SUFFICES ASSUME pc' = "idle", uop_queue_' # << >>, haveDispatchCredits', enoughRenames'
             PROVE  ev_schedule_rename_' # {} \/ ev_rename_insts_'
  BY DEF NoLostWakeup
<1>1. CASE DecodeSends
  BY <1>1 DEF DecodeSends, decodedInstructions
<1>2. CASE ROBAcks
  BY <1>2 DEF ROBAcks, getAckFromROB
<1>3. CASE Flushes
  BY <1>3 DEF Flushes, handleFlush
<1>4. CASE DispatchReturnsCredits
  BY <1>4 DEF DispatchReturnsCredits, creditsDispatchQueue, WakeOnCredits
<1>5. CASE ackInst
  <2>1. uop_queue_' = uop_queue_ /\ credits_dispatch_' = credits_dispatch_ /\ pc = "ack"
        /\ (pc' = pc \/ ev_schedule_rename_' = WakeAfterAck)
    BY <1>5 DEF ackInst
  <2> QED
    BY <1>c, <2>1 DEF WakeAfterAck
<1>6. CASE flushInst
  BY <1>6 DEF flushInst
<1>7. CASE flushUopQueue
  BY <1>7 DEF flushUopQueue
<1>8. CASE scheduleRenaming
  BY <1>8 DEF scheduleRenaming, haveDispatchCredits, enoughRenames, regs
<1>9. CASE renameInstructions
  BY <1>9 DEF renameInstructions
<1>10. CASE renameInst
  BY <1>10 DEF renameInst
<1>11. CASE sendRenamed
  BY <1>11, <1>c DEF sendRenamed
<1>12. CASE nextPhase
  <2>1. UNCHANGED <<pc, uop_queue_, regs, regcount, credits_dispatch_, ev_rename_insts_>>
        /\ (UNCHANGED ev_schedule_rename_ \/ ev_schedule_rename_' = {d - 1 : d \in ev_schedule_rename_})
    BY <1>12 DEF nextPhase
  <2>2. ev_schedule_rename_ # {} \/ ev_rename_insts_
    BY <2>1 DEF NoLostWakeup, haveDispatchCredits, enoughRenames, regs
  <2> QED
    BY <2>1, <2>2
<1>13. CASE UNCHANGED vars
  BY <1>13 DEF vars, regs, events, NoLostWakeup, haveDispatchCredits, enoughRenames
<1> QED
  BY <1>1, <1>2, <1>3, <1>4, <1>5, <1>6, <1>7, <1>8, <1>9, <1>10, <1>11, <1>12, <1>13
     DEF Next, RenameSteps

\* Whenever a rename session could run, an event that starts one is scheduled, in whatever
\* order credits, acknowledgements, flushes and groups arrive.
THEOREM RenameWakesUp == Spec => []NoLostWakeup
<1>1. Init => NoLostWakeup
  BY DEF Init, NoLostWakeup
<1> QED
  BY <1>1, StepWakes, Invariance, PTL DEF Spec

\* Without partial renaming a session uses up its counts as it uses up the queue.
LEMMA CountedTail ==
    ASSUME NEW q \in Seq(Uop), q # << >>, ~PartialRename, NEW f \in RegFiles
    PROVE  LET n == Cardinality(Counted(q, f))
               m == Cardinality(Counted(Tail(q), f))
           IN  /\ n \in Nat /\ m \in Nat
               /\ IF Head(q).dst # NoReg /\ AFile[Head(q).dst] = f THEN n = m + 1 ELSE n = m
<1> DEFINE A == Counted(Tail(q), f)
           B == Counted(q, f)
           g == [k \in A |-> k + 1]
<1>1. /\ Len(q) \in Nat \ {0} /\ DOMAIN q = 1..Len(q) /\ Head(q) = q[1]
      /\ Tail(q) \in Seq(Uop) /\ DOMAIN Tail(q) = 1..(Len(q) - 1)
      /\ \A k \in 1..(Len(q) - 1) : Tail(q)[k] = q[k + 1]
  BY TailFacts
<1>2. /\ \A k : k \in A <=> /\ k \in 1..(Len(q) - 1) /\ q[k + 1].dst # NoReg
                           /\ AFile[q[k + 1].dst] = f
      /\ \A k : k \in B <=> k \in 1..Len(q) /\ q[k].dst # NoReg /\ AFile[q[k].dst] = f
  BY <1>1 DEF Counted
<1>3. IsFiniteSet(A) /\ IsFiniteSet(B)
  <2>1. IsFiniteSet(1..Len(q)) /\ IsFiniteSet(1..(Len(q) - 1))
    BY <1>1, FS_Interval
  <2>2. A \in SUBSET (1..(Len(q) - 1)) /\ B \in SUBSET (1..Len(q))
    BY <1>2
  <2> HIDE DEF A, B
  <2> QED
    BY <2>1, <2>2, FS_Subset
<1> HIDE DEF A, B
<1>4. g \in [A -> B \ {1}]
  BY <1>1, <1>2
<1>5. \A x, y \in A : g[x] = g[y] => x = y
  BY <1>1, <1>2
<1>6. \A b \in B \ {1} : \E a \in A : g[a] = b
  <2> SUFFICES ASSUME NEW b \in B \ {1} PROVE \E a \in A : g[a] = b
    OBVIOUS
  <2>1. b - 1 \in 1..(Len(q) - 1) /\ (b - 1) + 1 = b
    BY <1>1, <1>2
  <2>2. b - 1 \in A
    BY <1>2, <2>1
  <2> QED
    BY <2>1, <2>2
<1> HIDE DEF g
<1>7. Cardinality(B \ {1}) = Cardinality(A)
  BY <1>3, <1>4, <1>5, <1>6, SameSize
<1>8. /\ Cardinality(A) \in Nat /\ Cardinality(B) \in Nat
      /\ Cardinality(B \ {1}) = IF 1 \in B THEN Cardinality(B) - 1 ELSE Cardinality(B)
  BY <1>3, FS_CardinalityType, FS_RemoveElement
<1>9. 1 \in B <=> Head(q).dst # NoReg /\ AFile[Head(q).dst] = f
  BY <1>1, <1>2
<1>10. CASE 1 \in B
  BY <1>7, <1>8, <1>9, <1>10 DEF A, B
<1>11. CASE 1 \notin B
  BY <1>7, <1>8, <1>9, <1>11 DEF A, B
<1> QED
  BY <1>10, <1>11

\* The step of a session that renames one instruction.
LEMMA RenameInstGrant ==
    ASSUME IInv, GrantInv, renameInst
    PROVE  GrantInv'
<1> DEFINE q == uop_queue_
           u == Head(uop_queue_)
<1>0. /\ TypeOK /\ SessionInv /\ pc = "rename" /\ pc' = "rename" /\ num_to_rename > 0
      /\ uop_queue_' = Tail(q) /\ num_to_rename' = num_to_rename - 1
      /\ regcount' = RegCountAfterPop(uop_queue_') /\ ev_rename_insts_' = ev_rename_insts_
      /\ (IF u.dst = NoReg THEN UNCHANGED regs ELSE renameDests(u))
  BY DEF IInv, renameInst, events
<1>1. q \in Seq(Uop) /\ q # << >> /\ num_to_rename \in Nat
  BY <1>0, SeqFacts DEF TypeOK, SessionInv
<1>2. Len(Tail(q)) = Len(q) - 1 /\ u \in Uop /\ Len(q) \in Nat
  BY <1>1, TailFacts
<1>3. ~ev_rename_insts_'
  BY <1>0 DEF GrantInv
<1>4. CASE PartialRename
  BY <1>0, <1>3, <1>4 DEF GrantInv, RegCountAfterPop
<1>5. CASE ~PartialRename
  <2>1. ASSUME NEW f \in RegFiles
        PROVE  Cardinality(Counted(Tail(q), f)) <= Len(freelist'[f])
    <3>1. Cardinality(Counted(q, f)) <= Len(freelist[f]) /\ freelist \in [RegFiles -> Seq(PRegs)]
      BY <1>0, <1>5 DEF GrantInv, TypeOK
    <3>2. /\ Cardinality(Counted(q, f)) \in Nat /\ Cardinality(Counted(Tail(q), f)) \in Nat
          /\ IF u.dst # NoReg /\ AFile[u.dst] = f
             THEN Cardinality(Counted(q, f)) = Cardinality(Counted(Tail(q), f)) + 1
             ELSE Cardinality(Counted(q, f)) = Cardinality(Counted(Tail(q), f))
      BY <1>1, <1>5, CountedTail
    <3>3. Len(freelist[f]) \in Nat
      BY <3>1
    <3>4. \/ freelist' = freelist
          \/ /\ u.dst # NoReg /\ freelist[AFile[u.dst]] # << >>
             /\ freelist' = [freelist EXCEPT ![AFile[u.dst]] = Tail(@)]
      BY <1>0 DEF renameDests, regs
    <3>5. CASE freelist' = freelist
      BY <3>1, <3>2, <3>3, <3>5
    <3>6. CASE /\ u.dst # NoReg /\ freelist[AFile[u.dst]] # << >>
               /\ freelist' = [freelist EXCEPT ![AFile[u.dst]] = Tail(@)]
      <4>1. CASE AFile[u.dst] = f
        <5>1. freelist'[f] = Tail(freelist[f]) /\ freelist[f] # << >> /\ freelist[f] \in Seq(PRegs)
          BY <3>1, <3>6, <4>1
        <5>2. Len(freelist'[f]) = Len(freelist[f]) - 1
          BY <5>1, TailFacts
        <5> QED
          BY <3>1, <3>2, <3>3, <3>6, <4>1, <5>2
      <4>2. CASE AFile[u.dst] # f
        <5>1. freelist'[f] = freelist[f]
          BY <3>1, <3>6, <4>2
        <5> QED
          BY <3>1, <3>2, <3>3, <4>2, <5>1
      <4> QED
        BY <4>1, <4>2
    <3> QED
      BY <3>4, <3>5, <3>6
  <2>2. NumToRename >= RenameQueueDepth => num_to_rename' = Len(uop_queue_')
    BY <1>0, <1>1, <1>2, <1>5 DEF GrantInv
  <2> QED
    BY <1>0, <1>3, <1>5, <2>1, <2>2 DEF GrantInv
<1> QED
  BY <1>4, <1>5

\* The event that starts a session finds what scheduleRenaming_ found.
LEMMA BeginSessionGrant ==
    ASSUME IInv, GrantInv, renameInstructions
    PROVE  GrantInv'
<1>0. /\ TypeOK /\ CreditsConserved /\ ev_rename_insts_ /\ ~ev_rename_insts_'
      /\ pc' = "rename" /\ num_to_rename' = SessionSize /\ pc = "idle"
      /\ UNCHANGED <<uop_queue_, freelist, regcount>>
  BY DEF IInv, renameInstructions, regs
<1>1. /\ uop_queue_ # << >> /\ haveDispatchCredits /\ enoughRenames
      /\ regcount = RegCountData(uop_queue_)
  BY <1>0 DEF GrantInv
<1>2. ASSUME ~PartialRename, NEW f \in RegFiles
      PROVE  Cardinality(Counted(uop_queue_, f)) <= Len(freelist[f])
  BY <1>1 DEF enoughRenames, RegCountData
<1>3. ASSUME ~PartialRename, NumToRename >= RenameQueueDepth
      PROVE  num_to_rename' = Len(uop_queue_)
  <2>1. /\ Len(uop_queue_) \in Nat /\ num_renamed \in Nat /\ uop_queue_credits_ \in Nat
        /\ credits_dispatch_ \in Nat /\ NumToRename \in Nat /\ RenameQueueDepth \in Nat
    BY <1>0, SeqFacts, ParameterAssumption DEF TypeOK
  <2>2. Len(uop_queue_) <= RenameQueueDepth
    BY <1>0, <2>1 DEF CreditsConserved
  <2>3. Len(uop_queue_) <= credits_dispatch_
    BY <1>1, <1>3, <2>1 DEF haveDispatchCredits
  <2> QED
    BY <1>0, <1>3, <2>1, <2>2, <2>3 DEF SessionSize, Min2
<1> QED
  BY <1>0, <1>1, <1>2, <1>3 DEF GrantInv

\* Everything else that happens to a session that is granted, or to the counts.
LEMMA StepGrant ==
    ASSUME IInv, IInv', GrantInv, [Next]_vars
    PROVE  GrantInv'
<1>0. TypeOK /\ ev_rename_insts_ \in BOOLEAN /\ credits_dispatch_ \in Nat /\ Len(uop_queue_) \in Nat
  BY QueueTypes DEF IInv, TypeOK
<1>1. CASE DecodeSends
  <2>1. /\ phase = "port" /\ pc = "idle" /\ pc' = "idle" /\ ev_rename_insts_' = ev_rename_insts_
        /\ regcount' = RegCountData(uop_queue_')
    BY <1>1 DEF DecodeSends, decodedInstructions
  <2> QED
    BY <2>1 DEF GrantInv
<1>2. CASE ROBAcks
  <2>1. /\ phase = "port" /\ pc = "idle" /\ pc' = "ack"
        /\ UNCHANGED <<ev_rename_insts_, regcount, uop_queue_>>
    BY <1>2 DEF ROBAcks, getAckFromROB, events
  <2> QED
    BY <2>1 DEF GrantInv
<1>3. CASE Flushes
  <2>1. /\ phase = "flush" /\ pc = "idle" /\ pc' = "flush"
        /\ UNCHANGED <<ev_rename_insts_, regcount, uop_queue_>>
    BY <1>3 DEF Flushes, handleFlush, events
  <2> QED
    BY <2>1 DEF GrantInv
<1>4. CASE DispatchReturnsCredits
  <2>1. PICK n \in 1..Len(to_dispatch) : creditsDispatchQueue(n)
    BY <1>4 DEF DispatchReturnsCredits
  <2>2. /\ phase' = phase /\ pc' = pc /\ pc = "idle" /\ credits_dispatch_' = credits_dispatch_ + n
        /\ UNCHANGED <<ev_rename_insts_, regcount, uop_queue_, freelist>>
    BY <2>1 DEF creditsDispatchQueue, regs
  <2>3. n \in Nat
    BY <1>0, SeqFacts DEF TypeOK
  <2>4. haveDispatchCredits => haveDispatchCredits'
    BY <1>0, <2>2, <2>3 DEF haveDispatchCredits
  <2>5. enoughRenames => enoughRenames'
    BY <2>2 DEF enoughRenames
  <2> QED
    BY <2>2, <2>4, <2>5 DEF GrantInv
<1>5. CASE ackInst
  <2>1. pc = "ack" /\ pc' \in {"ack", "idle"} /\ UNCHANGED <<ev_rename_insts_, regcount, uop_queue_>>
    BY <1>5 DEF ackInst
  <2> QED
    BY <2>1 DEF GrantInv
<1>6. CASE flushInst
  <2>1. pc = "flush" /\ pc' = "flush" /\ UNCHANGED <<ev_rename_insts_, regcount, uop_queue_>>
    BY <1>6 DEF flushInst, events
  <2> QED
    BY <2>1 DEF GrantInv
<1>7. CASE flushUopQueue
  <2>1. pc = "flush" /\ pc' = "idle" /\ uop_queue_' = << >> /\ UNCHANGED ev_rename_insts_
    BY <1>7 DEF flushUopQueue, events
  <2> QED
    BY <2>1 DEF GrantInv
<1>8. CASE scheduleRenaming
  <2>1. /\ phase = "tick" /\ pc = "idle"
        /\ ev_rename_insts_' = \/ ev_rename_insts_
                               \/ uop_queue_ # << >> /\ haveDispatchCredits /\ enoughRenames
        /\ UNCHANGED <<phase, pc, uop_queue_, freelist, regcount, credits_dispatch_>>
    BY <1>8 DEF scheduleRenaming, regs
  <2>2. haveDispatchCredits' = haveDispatchCredits /\ enoughRenames' = enoughRenames
    BY <2>1 DEF haveDispatchCredits, enoughRenames
  <2> QED
    BY <2>1, <2>2 DEF GrantInv
<1>9. CASE renameInstructions
  BY <1>9, BeginSessionGrant
<1>10. CASE renameInst
  BY <1>10, RenameInstGrant
<1>11. CASE sendRenamed
  <2>1. /\ pc = "rename" /\ pc' = "idle" /\ (~PartialRename => uop_queue_ = << >>)
        /\ UNCHANGED <<uop_queue_, regcount, ev_rename_insts_>>
    BY <1>11 DEF sendRenamed
  <2> QED
    BY <2>1 DEF GrantInv
<1>12. CASE nextPhase
  <2>1. /\ pc = "idle" /\ pc' = "idle" /\ (phase = "tick" => ~ev_rename_insts_)
        /\ UNCHANGED <<uop_queue_, regcount, ev_rename_insts_>>
    BY <1>12 DEF nextPhase, TickDone
  <2> QED
    BY <2>1 DEF GrantInv
<1>13. CASE UNCHANGED vars
  <2>1. UNCHANGED <<phase, pc, uop_queue_, freelist, regcount, credits_dispatch_, ev_rename_insts_,
                    num_to_rename>>
    BY <1>13 DEF vars, regs, events, locals
  <2> QED
    BY <2>1 DEF GrantInv, haveDispatchCredits, enoughRenames
<1> QED
  BY <1>1, <1>2, <1>3, <1>4, <1>5, <1>6, <1>7, <1>8, <1>9, <1>10, <1>11, <1>12, <1>13
     DEF Next, RenameSteps

\* GrantInv is an invariant.
LEMMA GrantInvariance == Spec => []GrantInv
<1>1. Init => GrantInv
  BY DEF Init, GrantInv
<1> QED
  BY <1>1, StepGrant, Invariance, PTL DEF Spec

\* A register that is mapped, or that an instruction in flight overwrote, is counted.
LEMMA ReferencedCounts ==
    ASSUME IInv, NEW p \in PRegs,
           (\E a \in ARegs : map_table_[a] = p) \/ (\E k \in DOMAIN inst_queue_ : inst_queue_[k].prev = p)
    PROVE  cnt[p] # 0 /\ cnt[p] \in Nat
<1>0. TypeOK /\ RefCountExact
  BY DEF IInv, RegInv
<1>1. IsFiniteSet(Mapped(p)) /\ IsFiniteSet(Holders(p))
  <2>1. Mapped(p) \in SUBSET ARegs /\ Holders(p) \in SUBSET SeqRange(inst_queue_)
    BY DEF Mapped, Holders
  <2>2. IsFiniteSet(SeqRange(inst_queue_))
    BY <1>0, RangeFinite DEF TypeOK
  <2> QED
    BY <2>1, <2>2, FS_Subset, RegisterAssumption
<1>2. /\ Cardinality(Mapped(p)) \in Nat /\ Cardinality(Holders(p)) \in Nat
      /\ Cardinality(Mapped(p)) = 0 <=> Mapped(p) = {}
      /\ Cardinality(Holders(p)) = 0 <=> Holders(p) = {}
  BY <1>1, FS_CardinalityType, FS_EmptySet
<1>3. Mapped(p) # {} \/ Holders(p) # {}
  BY DEF Mapped, Holders, SeqRange
<1>4. cnt[p] = Cardinality(Mapped(p)) + Cardinality(Holders(p))
  BY <1>0 DEF RefCountExact
<1> QED
  BY <1>2, <1>3, <1>4

\* A session has what renameDests_ asks for: "enough renames" was answered on the counts
\* of the queue that the session is at.
LEMMA SessionHasRegisters ==
    ASSUME IInv, GrantInv, pc = "rename", num_to_rename > 0, PartialRename => enoughRenames
    PROVE  /\ uop_queue_ # << >>
           /\ Head(uop_queue_).dst # NoReg => freelist[AFile[Head(uop_queue_).dst]] # << >>
<1> DEFINE q == uop_queue_
           u == Head(uop_queue_)
<1>0. TypeOK /\ SessionInv
  BY DEF IInv
<1>1. q \in Seq(Uop) /\ q # << >>
  BY <1>0, SeqFacts DEF TypeOK, SessionInv
<1>2. Len(q) \in Nat \ {0} /\ DOMAIN q = 1..Len(q) /\ u = q[1] /\ u \in Uop
  BY <1>1, TailFacts
<1>3. ASSUME u.dst # NoReg PROVE freelist[AFile[u.dst]] # << >>
  <2> DEFINE f == AFile[u.dst]
  <2>1. f \in RegFiles
    BY <1>2, <1>3, RegisterAssumption DEF Uop, OptAReg
  <2>2. 1 \in Counted(q, f)
    BY <1>2, <1>3 DEF Counted
  <2>3. IsFiniteSet(Counted(q, f))
    <3>1. IsFiniteSet(1..Len(q)) /\ Counted(q, f) \in SUBSET (1..Len(q))
      BY <1>2, FS_Interval DEF Counted
    <3> QED
      BY <3>1, FS_Subset
  <2>4. Cardinality(Counted(q, f)) \in Nat /\ Cardinality(Counted(q, f)) # 0
    BY <2>2, <2>3, FS_CardinalityType, FS_EmptySet
  <2>5. Cardinality(Counted(q, f)) <= Len(freelist[f])
    <3>1. CASE PartialRename
      BY <1>1, <2>1, <3>1 DEF GrantInv, enoughRenames, RegCountData
    <3>2. CASE ~PartialRename
      BY <2>1, <3>2 DEF GrantInv
    <3> QED
      BY <3>1, <3>2
  <2>6. freelist[f] \in Seq(PRegs)
    BY <1>0, <2>1 DEF TypeOK
  <2> QED
    BY <2>4, <2>5, <2>6, SeqFacts
<1> QED
  BY <1>1, <1>3

\* The assertions of Rename.cpp never fail with partial renaming, nor without it as long as
\* a session can take the whole queue.  (With a deeper queue "How is the uop queue not empty?"
\* does fail.)
THEOREM RenameAssertionsHold ==
    ASSUME PartialRename \/ NumToRename >= RenameQueueDepth
    PROVE  Spec => []AssertionsHold
<1>1. ASSUME IInv, GrantInv PROVE AssertionsHold
  <2>0. TypeOK /\ SessionInv /\ AckInv /\ FileInv /\ ReplayInv
    BY <1>1 DEF IInv, RegInv
  <2>1. /\ inst_queue_ \in Seq(Renamed) /\ DOMAIN inst_queue_ = 1..Len(inst_queue_)
        /\ Len(inst_queue_) \in Nat /\ (inst_queue_ = << >> <=> Len(inst_queue_) = 0)
        /\ \A k \in DOMAIN inst_queue_ : inst_queue_[k] \in Renamed
    BY <2>0, QueueTypes, SeqFacts
  <2>2. ASSUME pc = "ack"
        PROVE  /\ inst_queue_ # << >> /\ Head(inst_queue_).uid = Head(ack_group).uid
               /\ Head(ack_group).dst # NoReg => cnt[Head(ack_group).prev] # 0
    <3>1. ack_group \in Seq(Renamed) /\ ack_group # << >> /\ Len(ack_group) <= Len(inst_queue_)
          /\ \A k \in DOMAIN ack_group : ack_group[k] = inst_queue_[k]
      BY <2>0, <2>2 DEF AckInv, TypeOK
    <3>2. Len(ack_group) \in Nat \ {0} /\ Head(ack_group) = ack_group[1] /\ 1 \in DOMAIN ack_group
      BY <3>1, TailFacts
    <3>3. inst_queue_ # << >> /\ Head(inst_queue_) = inst_queue_[1] /\ 1 \in DOMAIN inst_queue_
      BY <2>1, <3>1, <3>2, TailFacts
    <3>4. Head(ack_group) = inst_queue_[1]
      BY <3>1, <3>2
    <3>5. ASSUME inst_queue_[1].dst # NoReg PROVE cnt[inst_queue_[1].prev] # 0
      <4>1. inst_queue_[1].prev \in PRegs
        BY <2>0, <3>3, <3>5 DEF FileInv
      <4> QED
        BY <1>1, <3>3, <4>1, ReferencedCounts
    <3> QED
      BY <3>3, <3>4, <3>5
  <2>3. ASSUME inst_queue_ # << >>, inst_queue_[Len(inst_queue_)].dst # NoReg
        PROVE  cnt[inst_queue_[Len(inst_queue_)].pdst] # 0
    <3> DEFINE n == Len(inst_queue_)
    <3>1. n \in DOMAIN inst_queue_ /\ LastWriter(n)
      BY <2>1, <2>3 DEF LastWriter
    <3>2. map_table_[inst_queue_[n].dst] = inst_queue_[n].pdst
      BY <2>0, <3>1 DEF ReplayInv
    <3>3. inst_queue_[n].dst \in ARegs
      BY <2>1, <2>3, <3>1 DEF Renamed, OptAReg
    <3>4. inst_queue_[n].pdst \in PRegs
      BY <2>0, <2>3, <3>1 DEF FileInv
    <3> QED
      BY <1>1, <3>2, <3>3, <3>4, ReferencedCounts
  <2>4. ASSUME ev_rename_insts_ PROVE SessionSize > 0
    <3>1. uop_queue_ # << >> /\ haveDispatchCredits
      BY <1>1, <2>4 DEF GrantInv
    <3>2. Len(uop_queue_) \in Nat \ {0} /\ credits_dispatch_ \in Nat /\ NumToRename \in Nat \ {0}
      BY <2>0, <3>1, SeqFacts, ParameterAssumption DEF TypeOK
    <3>3. credits_dispatch_ > 0
      BY <3>1, <3>2 DEF haveDispatchCredits
    <3> QED
      BY <3>2, <3>3 DEF SessionSize, Min2
  <2>5. WholeQueueRenamed
    <3> SUFFICES ASSUME pc = "rename", ~PartialRename, num_to_rename = 0 PROVE uop_queue_ = << >>
      BY DEF WholeQueueRenamed
    <3>1. Len(uop_queue_) = 0
      BY <1>1 DEF GrantInv
    <3> QED
      BY <2>0, <3>1, SeqFacts DEF TypeOK
  <2>6. RegCountFresh
    BY <1>1 DEF GrantInv, RegCountFresh
  <2> QED
    BY <1>1, <2>2, <2>3, <2>4, <2>5, <2>6, SessionHasRegisters DEF AssertionsHold
<1> QED
  BY <1>1, Invariance, GrantInvariance, PTL

-----------------------------------------------------------------------------
(* The refinement of ArchRename: what is in flight reads registers that    *)
(* nobody overwrites.                                                      *)

\* What the three steps that change inst_queue_ do to it and to the map table: renaming,
LEMMA RenameInstDoes ==
    ASSUME IInv, renameInst
    PROVE  LET u == Head(uop_queue_)
               i == RenamedInst(u)
           IN  /\ uop_queue_ # << >> /\ u \in Uop /\ i \in Renamed /\ inst_queue_' = Append(inst_queue_, i)
               /\ i.uid = u.uid /\ i.src = u.src /\ i.dst = u.dst
               /\ i.psrc = IF u.src = NoReg THEN NoReg ELSE map_table_[u.src]
               /\ u.dst = NoReg => i.pdst = NoReg /\ i.prev = NoReg /\ UNCHANGED regs
               /\ u.dst # NoReg => /\ u.dst \in ARegs /\ i.pdst \in PRegs /\ i.pdst = renameDest(u)
                                   /\ i.prev = map_table_[u.dst]
                                   /\ map_table_' = [map_table_ EXCEPT ![u.dst] = i.pdst]
                                   /\ renameDests(u)
<1> DEFINE u == Head(uop_queue_)
           i == RenamedInst(u)
<1>0. TypeOK /\ SessionInv /\ FileInv /\ RefCountExact /\ FreelistExact
  BY DEF IInv, RegInv
<1>1. uop_queue_ \in Seq(Uop) /\ uop_queue_ # << >>
  BY <1>0, SeqFacts DEF renameInst, TypeOK, SessionInv
<1>2. u \in Uop
  BY <1>1, TailFacts
<1>3. /\ IF u.dst = NoReg THEN UNCHANGED regs ELSE renameDests(u)
      /\ inst_queue_' = Append(inst_queue_, i)
  BY DEF renameInst
<1>4. /\ i.src = u.src /\ i.psrc = (IF u.src = NoReg THEN NoReg ELSE map_table_[u.src])
      /\ u.dst # NoReg => i.pdst = renameDest(u)
  BY DEF RenamedInst, renameSource
<1>5. /\ i \in Renamed /\ i.uid = u.uid /\ i.dst = u.dst
      /\ u.dst = NoReg => i.pdst = NoReg /\ i.prev = NoReg
      /\ u.dst # NoReg => /\ u.dst \in ARegs /\ i.pdst \in PRegs /\ i.prev = map_table_[u.dst]
                          /\ map_table_' = [map_table_ EXCEPT ![u.dst] = i.pdst]
  BY <1>0, <1>2, <1>3, RenameRegs
<1> HIDE DEF i
<1> QED
  BY <1>1, <1>2, <1>3, <1>4, <1>5 DEF i

\* acknowledging the oldest,
LEMMA AckInstDoes ==
    ASSUME IInv, ackInst
    PROVE  /\ inst_queue_ \in Seq(Renamed) /\ inst_queue_ # << >> /\ inst_queue_' = Tail(inst_queue_)
           /\ UNCHANGED <<map_table_, val>>
  BY DEF IInv, TypeOK, ackInst

\* and undoing the youngest.
LEMMA FlushInstDoes ==
    ASSUME IInv, flushInst
    PROVE  LET n == Len(inst_queue_)
               i == inst_queue_[n]
           IN  /\ inst_queue_ \in Seq(Renamed) /\ n \in Nat \ {0} /\ DOMAIN inst_queue_ = 1..n
               /\ inst_queue_' = SubSeq(inst_queue_, 1, n - 1) /\ i \in Renamed
               /\ inst_queue_' \in Seq(Renamed) /\ Len(inst_queue_') = n - 1
               /\ DOMAIN inst_queue_' = 1..(n - 1)
               /\ \A k \in 1..(n - 1) : inst_queue_'[k] = inst_queue_[k]
               /\ i.dst = NoReg => UNCHANGED map_table_
               /\ i.dst # NoReg => i.dst \in ARegs /\ map_table_' = [map_table_ EXCEPT ![i.dst] = i.prev]
               /\ UNCHANGED val
<1> DEFINE q == inst_queue_
           n == Len(q)
           i == q[n]
<1>0. q \in Seq(Renamed) /\ q # << >> /\ q' = SubSeq(q, 1, n - 1) /\ NoDup(q)
  BY InstQueueNoDup DEF IInv, TypeOK, RegInv, flushInst
<1>1. n \in Nat \ {0} /\ DOMAIN q = 1..n /\ i \in Renamed
  BY <1>0, SeqFacts
<1>2. q' \in Seq(Renamed) /\ Len(q') = n - 1 /\ \A k \in 1..(n - 1) : q'[k] = q[k]
  BY <1>0, RangeFront
<1>3. DOMAIN q' = 1..(n - 1)
  BY <1>2, SeqFacts
<1>4. /\ i.dst = NoReg => UNCHANGED map_table_
      /\ i.dst # NoReg => map_table_' = [map_table_ EXCEPT ![i.dst] = i.prev]
      /\ UNCHANGED val
  BY DEF flushInst, RestoredMap
<1>5. i.dst # NoReg => i.dst \in ARegs
  BY <1>1 DEF Renamed, OptAReg
<1> QED
  BY <1>0, <1>1, <1>2, <1>3, <1>4, <1>5

\* The steps that leave renamed instructions and registers alone.
LEMMA OtherSteps ==
    ASSUME [Next]_vars
    PROVE  renameInst \/ ackInst \/ flushInst \/ UNCHANGED <<inst_queue_, map_table_, val>>
  BY DEF Next, RenameSteps, DecodeSends, decodedInstructions, ROBAcks, getAckFromROB,
     Flushes, handleFlush, DispatchReturnsCredits, creditsDispatchQueue,
     flushUopQueue, scheduleRenaming, renameInstructions, sendRenamed, nextPhase, regs, vars

\* Renaming one more instruction makes it the next writer of its destination.
LEMMA ReadsAppend ==
    ASSUME NEW q \in Seq(Renamed), NEW m \in [ARegs -> PRegs], NEW e \in Renamed, NEW r,
           e.psrc = IF e.src = NoReg THEN NoReg ELSE m[e.src],
           IF e.dst = NoReg THEN r = m
           ELSE e.dst \in ARegs /\ e.prev = m[e.dst] /\ r = [m EXCEPT ![e.dst] = e.pdst],
           \A k \in DOMAIN q : Reads(q, m, k),
           NEW k \in DOMAIN Append(q, e)
    PROVE  Reads(Append(q, e), r, k)
<1> DEFINE t == Append(q, e)
           n == Len(q)
<1>1. /\ n \in Nat /\ DOMAIN q = 1..n /\ DOMAIN t = 1..(n + 1)
      /\ \A l \in 1..n : t[l] = q[l]
      /\ t[n + 1] = e
  BY AppendFacts
<1> HIDE DEF t, n
<1>2. \A x \in ARegs : x # e.dst => r[x] = m[x]
  OBVIOUS
<1>3. CASE k = n + 1
  <2>1. e.src = NoReg \/ e.src \in ARegs
    BY DEF Renamed, OptAReg
  <2>2. CASE e.src = NoReg
    BY <1>1, <1>3, <2>2 DEF Reads, t
  <2>3. CASE e.src # NoReg
    <3>1. e.psrc \in PRegs /\ e.psrc = m[e.src] /\ e.src \in ARegs
      BY <2>1, <2>3
    <3>2. (\A j \in DOMAIN t : k <= j => t[j].dst # e.src) => r[e.src] = e.psrc
      BY <1>1, <1>2, <1>3, <3>1
    <3>3. ASSUME NEW j \in DOMAIN t, k <= j, t[j].dst = e.src PROVE t[j].prev = e.psrc
      <4>1. j = n + 1
        BY <1>1, <1>3, <3>3
      <4> QED
        BY <1>1, <2>3, <3>1, <3>3, <4>1
    <3> QED
      BY <1>1, <1>3, <2>3, <3>1, <3>2, <3>3 DEF Reads, t
  <2> QED
    BY <2>2, <2>3
<1>4. CASE k \in 1..n
  <2> DEFINE a == q[k].src
             p == q[k].psrc
  <2>1. t[k] = q[k] /\ Reads(q, m, k) /\ q[k] \in Renamed
    BY <1>1, <1>4, SeqFacts
  <2>2. CASE a = NoReg
    BY <2>1, <2>2 DEF Reads, t
  <2>3. CASE a # NoReg
    <3>1. /\ p \in PRegs /\ a \in ARegs
          /\ (\A j \in DOMAIN q : k <= j => q[j].dst # a) => m[a] = p
          /\ \A j \in DOMAIN q :
               k <= j /\ q[j].dst = a /\ (\A l \in DOMAIN q : k <= l /\ l < j => q[l].dst # a)
                   => q[j].prev = p
      BY <2>1, <2>3 DEF Reads, Renamed, OptAReg
    <3> HIDE DEF a, p
    <3>2. ASSUME \A j \in DOMAIN t : k <= j => t[j].dst # a PROVE r[a] = p
      <4>1. \A j \in DOMAIN q : k <= j => q[j].dst # a
        BY <1>1, <3>2
      <4>2. e.dst # a
        BY <1>1, <1>4, <3>2
      <4> QED
        BY <1>2, <3>1, <4>1, <4>2
    <3>3. ASSUME NEW j \in DOMAIN t, k <= j, t[j].dst = a,
                 \A l \in DOMAIN t : k <= l /\ l < j => t[l].dst # a
          PROVE  t[j].prev = p
      <4>1. CASE j \in 1..n
        <5>1. \A l \in DOMAIN q : k <= l /\ l < j => q[l].dst # a
          BY <1>1, <3>3
        <5> QED
          BY <1>1, <3>1, <3>3, <4>1, <5>1
      <4>2. CASE j = n + 1
        <5>1. \A l \in DOMAIN q : k <= l => q[l].dst # a
          BY <1>1, <3>3, <4>2
        <5>2. m[a] = p /\ e.dst = a /\ a # NoReg
          BY <1>1, <3>1, <3>3, <4>2, <5>1, <2>3 DEF a
        <5> QED
          BY <1>1, <4>2, <5>2
      <4> QED
        BY <1>1, <4>1, <4>2
    <3>4. t[k].src = a /\ t[k].psrc = p /\ a # NoReg
      BY <2>1, <2>3 DEF a, p
    <3> QED
      BY <3>1, <3>2, <3>3, <3>4 DEF Reads, t
  <2> QED
    BY <2>2, <2>3
<1> QED
  BY <1>1, <1>3, <1>4 DEF t

\* Retirement shifts the queue.
LEMMA ReadsTail ==
    ASSUME NEW q \in Seq(Renamed), q # << >>, NEW m, NEW k \in DOMAIN Tail(q), Reads(q, m, k + 1)
    PROVE  Reads(Tail(q), m, k)
<1> DEFINE t == Tail(q)
           n == Len(q)
<1>1. /\ n \in Nat \ {0} /\ DOMAIN q = 1..n /\ DOMAIN t = 1..(n - 1)
      /\ \A l \in 1..(n - 1) : t[l] = q[l + 1]
  BY TailFacts
<1> HIDE DEF t, n
<1> DEFINE a == q[k + 1].src
           p == q[k + 1].psrc
<1>2. t[k].src = a /\ t[k].psrc = p /\ k \in 1..(n - 1)
  BY <1>1 DEF t
<1>3. CASE a = NoReg
  BY <1>2, <1>3 DEF Reads, t
<1>4. CASE a # NoReg
  <2>1. /\ p \in PRegs
        /\ (\A j \in DOMAIN q : k + 1 <= j => q[j].dst # a) => m[a] = p
        /\ \A j \in DOMAIN q :
             k + 1 <= j /\ q[j].dst = a /\ (\A l \in DOMAIN q : k + 1 <= l /\ l < j => q[l].dst # a)
                 => q[j].prev = p
    BY <1>4 DEF Reads
  <2> HIDE DEF a, p
  <2>0. \A j \in 1..n : k + 1 <= j => j - 1 \in 1..(n - 1) /\ k <= j - 1 /\ t[j - 1] = q[j]
    <3> SUFFICES ASSUME NEW j \in 1..n, k + 1 <= j
                 PROVE  j - 1 \in 1..(n - 1) /\ k <= j - 1 /\ t[j - 1] = q[j]
      OBVIOUS
    <3>1. j - 1 \in 1..(n - 1) /\ k <= j - 1 /\ (j - 1) + 1 = j
      BY <1>1, <1>2
    <3> QED
      BY <1>1, <3>1
  <2>2. ASSUME \A j \in DOMAIN t : k <= j => t[j].dst # a PROVE m[a] = p
    <3>1. \A j \in DOMAIN q : k + 1 <= j => q[j].dst # a
      BY <1>1, <2>0, <2>2
    <3> QED
      BY <2>1, <3>1
  <2>3. ASSUME NEW j \in DOMAIN t, k <= j, t[j].dst = a,
               \A l \in DOMAIN t : k <= l /\ l < j => t[l].dst # a
        PROVE  t[j].prev = p
    <3>1. j + 1 \in DOMAIN q /\ k + 1 <= j + 1 /\ t[j] = q[j + 1]
      BY <1>1, <1>2, <2>3
    <3>2. ASSUME NEW l \in DOMAIN q, k + 1 <= l, l < j + 1 PROVE q[l].dst # a
      <4>1. l - 1 \in DOMAIN t /\ k <= l - 1 /\ t[l - 1] = q[l] /\ l - 1 < j
        BY <1>1, <2>0, <3>2
      <4> QED
        BY <2>3, <4>1
    <3> QED
      BY <2>1, <2>3, <3>1, <3>2
  <2> QED
    BY <1>2, <1>4, <2>1, <2>2, <2>3 DEF Reads, t, a
<1> QED
  BY <1>3, <1>4

\* A flush that drops the youngest writer maps what it held again.
LEMMA ReadsFront ==
    ASSUME NEW q \in Seq(Renamed), NEW m \in [ARegs -> PRegs], NEW n \in Nat \ {0}, DOMAIN q = 1..n,
           NEW t, DOMAIN t = 1..(n - 1), \A k \in 1..(n - 1) : t[k] = q[k],
           NEW r, IF q[n].dst = NoReg THEN r = m
                  ELSE q[n].dst \in ARegs /\ r = [m EXCEPT ![q[n].dst] = q[n].prev],
           NEW k \in DOMAIN t, Reads(q, m, k)
    PROVE  Reads(t, r, k)
<1> DEFINE a == q[k].src
           p == q[k].psrc
<1>1. t[k] = q[k] /\ k \in 1..n /\ q[k] \in Renamed /\ n \in 1..n /\ k <= n /\ k # n
      /\ q[n] \in Renamed
  BY SeqFacts
<1>2. CASE a = NoReg
  BY <1>1, <1>2 DEF Reads
<1>3. CASE a # NoReg
  <2>1. /\ p \in PRegs /\ a \in ARegs
        /\ (\A j \in DOMAIN q : k <= j => q[j].dst # a) => m[a] = p
        /\ \A j \in DOMAIN q :
             k <= j /\ q[j].dst = a /\ (\A l \in DOMAIN q : k <= l /\ l < j => q[l].dst # a)
                 => q[j].prev = p
    BY <1>1, <1>3 DEF Reads, Renamed, OptAReg
  <2>a. t[k].src = a /\ t[k].psrc = p /\ a # NoReg
    BY <1>1, <1>3
  <2> HIDE DEF a, p
  <2>2. ASSUME \A j \in DOMAIN t : k <= j => t[j].dst # a PROVE r[a] = p
    <3>1. \A j \in DOMAIN q : k <= j /\ j < n => q[j].dst # a
      <4> SUFFICES ASSUME NEW j \in DOMAIN q, k <= j, j < n PROVE q[j].dst # a
        OBVIOUS
      <4>1. j \in 1..(n - 1)
        OBVIOUS
      <4> QED
        BY <2>2, <4>1
    <3>2. CASE q[n].dst = a
      <4>1. q[n].prev = p
        BY <1>1, <2>1, <3>1, <3>2
      <4> QED
        BY <2>1, <2>a, <3>2, <4>1
    <3>3. CASE q[n].dst # a
      <4>1. \A j \in DOMAIN q : k <= j => q[j].dst # a
        <5> SUFFICES ASSUME NEW j \in DOMAIN q, k <= j PROVE q[j].dst # a
          OBVIOUS
        <5>1. j < n \/ j = n
          OBVIOUS
        <5> QED
          BY <3>1, <3>3, <5>1
      <4> QED
        BY <2>1, <3>3, <4>1
    <3> QED
      BY <3>2, <3>3
  <2>3. ASSUME NEW j \in DOMAIN t, k <= j, t[j].dst = a,
               \A l \in DOMAIN t : k <= l /\ l < j => t[l].dst # a
        PROVE  t[j].prev = p
    <3>1. j \in DOMAIN q /\ t[j] = q[j] /\ j < n
      OBVIOUS
    <3>2. ASSUME NEW l \in DOMAIN q, k <= l, l < j PROVE q[l].dst # a
      <4>1. l \in 1..(n - 1)
        BY <3>1, <3>2
      <4> QED
        BY <2>3, <3>2, <4>1
    <3> QED
      BY <2>1, <2>3, <3>1, <3>2
  <2> QED
    BY <2>1, <2>2, <2>3, <2>a DEF Reads
<1> QED
  BY <1>2, <1>3

\* Every step keeps the registers that instructions in flight read.
LEMMA StepReads ==
    ASSUME IInv, ReadInv, [Next]_vars
    PROVE  ReadInv'
<1>0. inst_queue_ \in Seq(Renamed) /\ map_table_ \in [ARegs -> PRegs]
  BY DEF IInv, TypeOK
<1>r. \A k \in DOMAIN inst_queue_ : Reads(inst_queue_, map_table_, k)
  BY DEF ReadInv
<1>1. CASE renameInst
  <2> DEFINE e == RenamedInst(Head(uop_queue_))
  <2>1. /\ e \in Renamed /\ inst_queue_' = Append(inst_queue_, e)
        /\ e.psrc = IF e.src = NoReg THEN NoReg ELSE map_table_[e.src]
        /\ IF e.dst = NoReg THEN map_table_' = map_table_
           ELSE /\ e.dst \in ARegs /\ e.prev = map_table_[e.dst]
                /\ map_table_' = [map_table_ EXCEPT ![e.dst] = e.pdst]
    BY <1>1, RenameInstDoes DEF regs
  <2> HIDE DEF e
  <2>2. \A k \in DOMAIN Append(inst_queue_, e) : Reads(Append(inst_queue_, e), map_table_', k)
    BY <1>0, <1>r, <2>1, ReadsAppend
  <2> QED
    BY <2>1, <2>2 DEF ReadInv
<1>2. CASE ackInst
  <2>1. inst_queue_ # << >> /\ inst_queue_' = Tail(inst_queue_) /\ map_table_' = map_table_
    BY <1>2, AckInstDoes
  <2>2. ASSUME NEW k \in DOMAIN Tail(inst_queue_) PROVE k + 1 \in DOMAIN inst_queue_
    BY <1>0, <2>1, TailFacts
  <2>3. \A k \in DOMAIN Tail(inst_queue_) : Reads(Tail(inst_queue_), map_table_, k)
    BY <1>0, <1>r, <2>1, <2>2, ReadsTail
  <2> QED
    BY <2>1, <2>3 DEF ReadInv
<1>3. CASE flushInst
  <2> DEFINE q == inst_queue_
             n == Len(inst_queue_)
             t == SubSeq(inst_queue_, 1, Len(inst_queue_) - 1)
  <2>1. /\ n \in Nat \ {0} /\ DOMAIN q = 1..n
        /\ q' = t /\ DOMAIN t = 1..(n - 1) /\ \A k \in 1..(n - 1) : t[k] = q[k]
        /\ IF q[n].dst = NoReg THEN map_table_' = map_table_
           ELSE q[n].dst \in ARegs /\ map_table_' = [map_table_ EXCEPT ![q[n].dst] = q[n].prev]
    BY <1>3, FlushInstDoes
  <2> HIDE DEF t, n
  <2>2. ASSUME NEW k \in DOMAIN t PROVE Reads(q, map_table_, k)
    <3>1. k \in 1..n
      BY <2>1
    <3> QED
      BY <1>r, <2>1, <3>1
  <2>3. \A k \in DOMAIN t : Reads(t, map_table_', k)
    BY <1>0, <2>1, <2>2, ReadsFront
  <2> QED
    BY <2>1, <2>3 DEF ReadInv
<1>4. CASE UNCHANGED <<inst_queue_, map_table_, val>>
  BY <1>4 DEF ReadInv
<1> QED
  BY <1>1, <1>2, <1>3, <1>4, OtherSteps

\* Every step keeps the operands and unique ids of what is decoded.
LEMMA StepDecoded ==
    ASSUME IInv, DecodedInv, [Next]_vars
    PROVE  DecodedInv'
<1> DEFINE Good(u) == /\ u.uid \in 1..MaxUid
                      /\ \E op \in Ops : u.src = op.src /\ u.dst = op.dst /\ u.kind = op.kind
<1>0. /\ uop_queue_ \in Seq(Uop) /\ next_uid \in Nat /\ uop_queue_credits_ \in Nat /\ MaxUid \in Nat
  BY ParameterAssumption DEF IInv, TypeOK
<1>g. next_uid >= 1 /\ \A k \in DOMAIN uop_queue_ : Good(uop_queue_[k])
  BY DEF DecodedInv
<1>s. next_uid' >= 1 /\ (\A k \in DOMAIN uop_queue_' : Good(uop_queue_'[k])) => DecodedInv'
  BY DEF DecodedInv
<1>1. CASE DecodeSends
  <2>1. PICK n \in 0..Min2(uop_queue_credits_, MaxUid + 1 - next_uid) : \E ops \in [1..n -> Ops] :
            /\ decodedInstructions([k \in 1..n |->
                    [uid |-> next_uid + k - 1, src |-> ops[k].src,
                     dst |-> ops[k].dst, kind |-> ops[k].kind]])
            /\ uop_queue_credits_' = uop_queue_credits_ - n
            /\ next_uid' = next_uid + n
    BY <1>1 DEF DecodeSends
  <2>2. PICK ops \in [1..n -> Ops] :
            /\ decodedInstructions([k \in 1..n |->
                    [uid |-> next_uid + k - 1, src |-> ops[k].src,
                     dst |-> ops[k].dst, kind |-> ops[k].kind]])
            /\ uop_queue_credits_' = uop_queue_credits_ - n
            /\ next_uid' = next_uid + n
    BY <2>1
  <2> DEFINE grp == [k \in 1..n |-> [uid |-> next_uid + k - 1, src |-> ops[k].src,
                                     dst |-> ops[k].dst, kind |-> ops[k].kind]]
  <2>3. uop_queue_' = uop_queue_ \o grp
    BY <2>2 DEF decodedInstructions
  <2>4. n \in Nat /\ (n > 0 => next_uid + n - 1 <= MaxUid)
    BY <1>0 DEF Min2
  <2>5. ASSUME NEW k \in 1..n PROVE grp[k] \in Uop /\ Good(grp[k])
    <3>1. ops[k] \in Op /\ ops[k] \in Ops
      BY ParameterAssumption
    <3>2. next_uid + k - 1 \in 1..MaxUid
      BY <1>0, <1>g, <2>4
    <3>3. grp[k] = [uid |-> next_uid + k - 1, src |-> ops[k].src, dst |-> ops[k].dst,
                    kind |-> ops[k].kind]
      OBVIOUS
    <3> HIDE DEF grp
    <3>4. grp[k] \in Uop
      BY <3>1, <3>2, <3>3 DEF Op, Uop
    <3>5. Good(grp[k])
      BY <3>1, <3>2, <3>3
    <3> QED
      BY <3>4, <3>5
  <2>6. grp \in Seq(Uop) /\ Len(grp) = n /\ DOMAIN grp = 1..n
    <3>1. grp \in [1..n -> Uop]
      BY <2>5
    <3> HIDE DEF grp
    <3> QED
      BY <2>4, <3>1, FunIsSeq
  <2> HIDE DEF grp, Good
  <2> DEFINE t == uop_queue_ \o grp
             m == Len(uop_queue_)
  <2>7. /\ t \in Seq(Uop) /\ Len(t) = m + n /\ m \in Nat
        /\ \A k \in 1..m : t[k] = uop_queue_[k]
        /\ \A k \in 1..n : t[m + k] = grp[k]
        /\ DOMAIN uop_queue_ = 1..m
    <3>1. /\ t \in Seq(Uop) /\ Len(t) = Len(uop_queue_) + Len(grp) /\ Len(uop_queue_) \in Nat
          /\ \A k \in 1..Len(uop_queue_) : t[k] = uop_queue_[k]
          /\ \A k \in 1..Len(grp) : t[Len(uop_queue_) + k] = grp[k]
      BY <1>0, <2>6, ConcatFacts
    <3>2. DOMAIN uop_queue_ = 1..Len(uop_queue_)
      BY <1>0, SeqFacts
    <3> HIDE DEF t
    <3> QED
      BY <2>6, <3>1, <3>2
  <2>8. DOMAIN t = 1..(m + n)
    BY <2>7, SeqFacts
  <2> HIDE DEF t, m
  <2>9. ASSUME NEW k \in DOMAIN t PROVE Good(t[k])
    <3>1. CASE k \in 1..m
      BY <1>g, <2>7, <3>1
    <3>2. CASE k \notin 1..m
      <4>1. k - m \in 1..n /\ m + (k - m) = k
        BY <2>4, <2>7, <2>8, <3>2
      <4>2. t[m + (k - m)] = grp[k - m]
        BY <2>7, <4>1
      <4> QED
        BY <2>5, <4>1, <4>2
    <3> QED
      BY <3>1, <3>2
  <2>10. next_uid' >= 1
    BY <1>0, <1>g, <2>2, <2>4
  <2> QED
    BY <1>s, <2>3, <2>9, <2>10 DEF t
<1>2. CASE renameInst
  <2>1. uop_queue_' = Tail(uop_queue_) /\ next_uid' = next_uid /\ uop_queue_ # << >>
    BY <1>2, RenameInstDoes DEF renameInst
  <2>2. /\ Len(uop_queue_) \in Nat \ {0} /\ DOMAIN uop_queue_ = 1..Len(uop_queue_)
        /\ DOMAIN Tail(uop_queue_) = 1..(Len(uop_queue_) - 1)
        /\ \A k \in 1..(Len(uop_queue_) - 1) : Tail(uop_queue_)[k] = uop_queue_[k + 1]
    BY <1>0, <2>1, TailFacts
  <2> HIDE DEF Good
  <2>3. ASSUME NEW k \in DOMAIN Tail(uop_queue_) PROVE Good(Tail(uop_queue_)[k])
    BY <1>g, <2>2
  <2> QED
    BY <1>g, <1>s, <2>1, <2>3
<1>3. CASE uop_queue_' = << >> /\ next_uid' = next_uid
  BY <1>3 DEF DecodedInv
<1>4. CASE UNCHANGED <<uop_queue_, next_uid>>
  BY <1>4 DEF DecodedInv
<1> QED
  BY <1>1, <1>2, <1>3, <1>4 DEF Next, RenameSteps, ROBAcks, getAckFromROB,
     Flushes, handleFlush, DispatchReturnsCredits, creditsDispatchQueue, ackInst, flushInst,
     flushUopQueue, scheduleRenaming, renameInstructions, sendRenamed, nextPhase, regs, vars

\* Both are invariants.
LEMMA ReadInvariance == Spec => [](ReadInv /\ DecodedInv)
<1>1. Init => ReadInv /\ DecodedInv
  BY DEF Init, ReadInv, DecodedInv
<1>2. IInv /\ ReadInv /\ DecodedInv /\ [Next]_vars => ReadInv' /\ DecodedInv'
  BY StepReads, StepDecoded
<1> QED
  BY <1>1, <1>2, Invariance, PTL DEF Spec

\* The least and the greatest of some places of a queue.
LEMMA Extremes ==
    ASSUME NEW n \in Nat, NEW W \in SUBSET (1..n), W # {}
    PROVE  /\ \E k \in W : \A j \in W : k <= j
           /\ \E k \in W : \A j \in W : j <= k
<1>1. \E k \in W : \A j \in W : k <= j
  <2>1. W \in SUBSET Nat
    OBVIOUS
  <2> QED
    BY <2>1, LeastNumber
<1>2. \E k \in W : \A j \in W : j <= k
  <2> DEFINE D == {n - k : k \in W}
  <2>1. D \in SUBSET Nat /\ D # {}
    <3>1. ASSUME NEW k \in W PROVE n - k \in Nat
      OBVIOUS
    <3> QED
      BY <3>1
  <2>2. PICK m \in D : \A d \in D : m <= d
    BY <2>1, LeastNumber
  <2>3. PICK k \in W : m = n - k
    OBVIOUS
  <2>4. ASSUME NEW j \in W PROVE j <= k
    <3>1. n - j \in D
      OBVIOUS
    <3> QED
      BY <2>2, <2>3, <3>1
  <2> QED
    BY <2>4
<1> QED
  BY <1>1, <1>2

\* The places of q that write a, the register that a had before the first of them, and the
\* values that the instructions of q read and write.
WritersIn(q, a) == {k \in DOMAIN q : q[k].dst = a}

BeforeQueue(q, m, a) ==
    IF WritersIn(q, a) = {} THEN m[a]
    ELSE q[CHOOSE k \in WritersIn(q, a) : \A j \in WritersIn(q, a) : k <= j].prev

Seen(v, p) == IF p = NoReg THEN NoReg ELSE v[p]

WindowOf(q, v) ==
    [k \in DOMAIN q |-> [uid |-> q[k].uid, src |-> q[k].src, dst |-> q[k].dst,
                         sval |-> Seen(v, q[k].psrc), dval |-> Seen(v, q[k].pdst)]]

CommittedOf(q, m, v) == [a \in ARegs |-> v[BeforeQueue(q, m, a)]]

\* The refinement mapping in these terms.
committedBar == [a \in ARegs |-> val[CommittedMap(a)]]
windowBar == [k \in DOMAIN inst_queue_ |->
                 LET i == inst_queue_[k]
                 IN  [uid |-> i.uid, src |-> i.src, dst |-> i.dst,
                      sval |-> ValueOf(i.psrc), dval |-> ValueOf(i.pdst)]]

\* The two agree, now and after a step.
LEMMA Mapping ==
    /\ committedBar = CommittedOf(inst_queue_, map_table_, val)
    /\ windowBar = WindowOf(inst_queue_, val)
    /\ committedBar' = CommittedOf(inst_queue_', map_table_', val')
    /\ windowBar' = WindowOf(inst_queue_', val')
<1>1. committedBar = CommittedOf(inst_queue_, map_table_, val)
  BY DEF committedBar, CommittedOf, CommittedMap, InFlightWriters, BeforeQueue, WritersIn
<1>2. windowBar = WindowOf(inst_queue_, val)
  BY DEF windowBar, WindowOf, ValueOf, Seen
<1>3. committedBar' = CommittedOf(inst_queue_', map_table_', val')
  BY DEF committedBar, CommittedOf, CommittedMap, InFlightWriters, BeforeQueue, WritersIn
<1>4. windowBar' = WindowOf(inst_queue_', val')
  BY DEF windowBar, WindowOf, ValueOf, Seen
<1> QED
  BY <1>1, <1>2, <1>3, <1>4

\* The register that a had before the queue, without CHOOSE.
LEMMA BeforeQueueIs ==
    ASSUME NEW S, NEW q \in Seq(S), NEW m, NEW a
    PROVE  /\ WritersIn(q, a) = {} => BeforeQueue(q, m, a) = m[a]
           /\ \A k \in WritersIn(q, a) :
                 (\A j \in WritersIn(q, a) : k <= j) => BeforeQueue(q, m, a) = q[k].prev
           /\ WritersIn(q, a) # {} => \E k \in WritersIn(q, a) : \A j \in WritersIn(q, a) : k <= j
<1> DEFINE W == WritersIn(q, a)
<1>1. Len(q) \in Nat /\ W \in SUBSET (1..Len(q))
  BY SeqFacts DEF WritersIn
<1>2. ASSUME NEW k \in W, \A j \in W : k <= j
      PROVE  k = CHOOSE x \in W : \A j \in W : x <= j
  <2> HIDE DEF W
  <2> DEFINE c == CHOOSE x \in W : \A j \in W : x <= j
  <2>1. c \in W /\ \A j \in W : c <= j
    BY <1>2
  <2> HIDE DEF c
  <2>2. c <= k /\ k <= c /\ c \in Int /\ k \in Int
    BY <1>1, <1>2, <2>1
  <2> QED
    BY <2>2 DEF c
<1>3. ASSUME NEW k \in W, \A j \in W : k <= j PROVE BeforeQueue(q, m, a) = q[k].prev
  <2>1. W # {} /\ BeforeQueue(q, m, a) = q[CHOOSE x \in W : \A j \in W : x <= j].prev
    BY <1>3 DEF BeforeQueue
  <2> QED
    BY <1>2, <1>3, <2>1
<1>4. W # {} => \E k \in W : \A j \in W : k <= j
  BY <1>1, Extremes
<1>5. W = {} => BeforeQueue(q, m, a) = m[a]
  BY DEF BeforeQueue
<1> QED
  BY <1>3, <1>4, <1>5

\* Nothing that is mapped, read or restored by an instruction in flight is free.
LEMMA LiveRegisters ==
    ASSUME IInv, ReadInv
    PROVE  /\ \A k \in DOMAIN inst_queue_ :
                 LET i == inst_queue_[k]
                 IN  /\ i.psrc # NoReg => i.psrc \in PRegs /\ cnt[i.psrc] # 0
                     /\ i.pdst # NoReg => i.pdst \in PRegs /\ cnt[i.pdst] # 0
           /\ \A a \in ARegs : LET p == BeforeQueue(inst_queue_, map_table_, a)
                               IN  p \in PRegs /\ cnt[p] # 0
<1> DEFINE q == inst_queue_
           n == Len(inst_queue_)
<1>0. TypeOK /\ FileInv /\ ReplayInv
  BY DEF IInv, RegInv
<1>1. /\ q \in Seq(Renamed) /\ n \in Nat /\ DOMAIN q = 1..n /\ map_table_ \in [ARegs -> PRegs]
      /\ \A k \in DOMAIN q : q[k] \in Renamed
  BY <1>0, QueueTypes DEF TypeOK
<1>2. ASSUME NEW k \in DOMAIN q, q[k].psrc # NoReg
      PROVE  q[k].psrc \in PRegs /\ cnt[q[k].psrc] # 0
  <2> DEFINE a == q[k].src
             p == q[k].psrc
             W == {j \in DOMAIN q : k <= j /\ q[j].dst = a}
  <2>1. /\ a \in ARegs /\ p \in PRegs
        /\ (\A j \in DOMAIN q : k <= j => q[j].dst # a) => map_table_[a] = p
        /\ \A j \in DOMAIN q :
             k <= j /\ q[j].dst = a /\ (\A l \in DOMAIN q : k <= l /\ l < j => q[l].dst # a)
                 => q[j].prev = p
    <3>1. Reads(q, map_table_, k)
      BY DEF ReadInv
    <3> QED
      BY <1>1, <1>2, <3>1 DEF Reads, Renamed, OptAReg
  <2> HIDE DEF a, p
  <2>2. CASE W = {}
    <3>1. map_table_[a] = p
      BY <2>1, <2>2
    <3> QED
      BY <2>1, <3>1, ReferencedCounts DEF p
  <2>3. CASE W # {}
    <3>1. PICK j \in W : \A l \in W : j <= l
      <4>1. W \in SUBSET (1..n)
        BY <1>1
      <4> HIDE DEF W
      <4> QED
        BY <1>1, <2>3, <4>1, Extremes
    <3>2. ASSUME NEW l \in DOMAIN q, k <= l, l < j PROVE q[l].dst # a
      <4>1. l \notin W
        <5>1. l \in Int /\ j \in Int
          BY <1>1
        <5> QED
          BY <3>1, <3>2, <5>1
      <4> QED
        BY <3>2, <4>1
    <3>3. q[j].prev = p
      BY <2>1, <3>1, <3>2
    <3> QED
      BY <2>1, <3>3, ReferencedCounts DEF p
  <2> QED
    BY <2>2, <2>3
<1>3. ASSUME NEW k \in DOMAIN q, q[k].pdst # NoReg
      PROVE  q[k].pdst \in PRegs /\ cnt[q[k].pdst] # 0
  <2> DEFINE a == q[k].dst
             p == q[k].pdst
             W == {j \in DOMAIN q : k < j /\ q[j].dst = a}
  <2>1. a \in ARegs /\ a # NoReg /\ p \in PRegs
    BY <1>0, <1>1, <1>3 DEF FileInv, Renamed, OptAReg
  <2>2. CASE W = {}
    <3>1. LastWriter(k)
      <4>1. \A j \in DOMAIN q : j > k => q[j].dst # q[k].dst
        BY <1>1, <2>2
      <4> QED
        BY <2>1, <4>1 DEF LastWriter
    <3>2. map_table_[a] = p
      BY <1>0, <3>1 DEF ReplayInv
    <3> HIDE DEF a, p
    <3> QED
      BY <2>1, <3>2, ReferencedCounts DEF p
  <2>3. CASE W # {}
    <3>1. PICK j \in W : \A l \in W : j <= l
      <4>1. W \in SUBSET (1..n)
        BY <1>1
      <4> HIDE DEF W
      <4> QED
        BY <1>1, <2>3, <4>1, Extremes
    <3>2. ASSUME NEW l \in DOMAIN q, k < l, l < j PROVE q[l].dst # a
      <4>1. l \notin W
        <5>1. l \in Int /\ j \in Int
          BY <1>1
        <5> QED
          BY <3>1, <3>2, <5>1
      <4> QED
        BY <3>2, <4>1
    <3>3. Consecutive(k, j)
      BY <2>1, <3>1, <3>2 DEF Consecutive
    <3>4. q[j].prev = p
      BY <1>0, <3>3 DEF ReplayInv
    <3> HIDE DEF a, p
    <3> QED
      BY <2>1, <3>4, ReferencedCounts DEF p
  <2> QED
    BY <2>2, <2>3
<1>4. ASSUME NEW a \in ARegs
      PROVE  BeforeQueue(q, map_table_, a) \in PRegs /\ cnt[BeforeQueue(q, map_table_, a)] # 0
  <2> DEFINE p == BeforeQueue(q, map_table_, a)
  <2>1. /\ WritersIn(q, a) = {} => p = map_table_[a]
        /\ WritersIn(q, a) # {} => \E k \in WritersIn(q, a) : p = q[k].prev
    BY <1>1, BeforeQueueIs
  <2>2. \A k \in WritersIn(q, a) : k \in DOMAIN q /\ q[k].prev \in PRegs
    <3>1. a # NoReg
      BY RegisterAssumption
    <3> QED
      BY <1>0, <3>1 DEF WritersIn, FileInv
  <2> HIDE DEF p
  <2>3. p \in PRegs
    BY <1>1, <2>1, <2>2
  <2> QED
    BY <2>1, <2>2, <2>3, ReferencedCounts DEF p
<1> QED
  BY <1>2, <1>3, <1>4

\* Renaming gives a value to a free register and to no other.
LEMMA AllocatesFree ==
    ASSUME IInv, renameInst, NEW p \in PRegs, cnt[p] # 0
    PROVE  val'[p] = val[p]
<1> DEFINE u == Head(uop_queue_)
           f == AFile[u.dst]
<1>0. TypeOK /\ FreelistExact
  BY DEF IInv, RegInv
<1>1. /\ u \in Uop /\ (u.dst = NoReg => UNCHANGED regs)
      /\ (u.dst # NoReg => u.dst \in ARegs /\ renameDests(u))
  BY RenameInstDoes
<1>2. CASE val' = val
  BY <1>2
<1>3. CASE val' # val
  <2>1. u.dst # NoReg /\ u.dst \in ARegs /\ renameDests(u) /\ ~eliminated(u)
    BY <1>1, <1>3 DEF regs, renameDests
  <2>2. f \in RegFiles /\ freelist[f] # << >> /\ freelist[f] \in Seq(PRegs)
    BY <1>0, <2>1, RegisterAssumption DEF TypeOK, renameDests
  <2>3. Head(freelist[f]) \in SeqRange(freelist[f])
    BY <2>2, TailFacts DEF SeqRange
  <2>4. cnt[Head(freelist[f])] = 0
    BY <1>0, <2>2, <2>3 DEF FreelistExact
  <2>5. p # Head(freelist[f])
    BY <2>4
  <2>6. PICK x : val' = [val EXCEPT ![Head(freelist[f])] = x]
    BY <2>1 DEF renameDests, renameDest
  <2> QED
    BY <1>0, <2>5, <2>6 DEF TypeOK
<1> QED
  BY <1>2, <1>3

-----------------------------------------------------------------------------
\* The window of a queue, and how it follows the queue.
WindowType == [uid : Nat, src : OptAReg, dst : OptAReg, sval : ARegs \cup Nat \cup {NoReg},
               dval : ARegs \cup Nat \cup {NoReg}]

Entry(i, v) == [uid |-> i.uid, src |-> i.src, dst |-> i.dst,
                sval |-> Seen(v, i.psrc), dval |-> Seen(v, i.pdst)]

\* An instruction in the window has its type.
LEMMA EntryType ==
    ASSUME NEW i \in Renamed, NEW v \in [PRegs -> ARegs \cup Nat]
    PROVE  Entry(i, v) \in WindowType
<1>1. /\ i.uid \in Nat /\ i.src \in OptAReg /\ i.dst \in OptAReg
      /\ i.psrc \in PRegs \cup {NoReg} /\ i.pdst \in PRegs \cup {NoReg}
  BY DEF Renamed, OptPReg
<1>2. Seen(v, i.psrc) \in ARegs \cup Nat \cup {NoReg} /\ Seen(v, i.pdst) \in ARegs \cup Nat \cup {NoReg}
  BY <1>1 DEF Seen
<1> QED
  BY <1>1, <1>2 DEF Entry, WindowType

\* The window has the places of the queue.
LEMMA WindowFacts ==
    ASSUME NEW q \in Seq(Renamed), NEW v \in [PRegs -> ARegs \cup Nat]
    PROVE  /\ WindowOf(q, v) \in Seq(WindowType) /\ Len(WindowOf(q, v)) = Len(q)
           /\ DOMAIN WindowOf(q, v) = DOMAIN q
           /\ \A k \in DOMAIN q : WindowOf(q, v)[k] = Entry(q[k], v)
<1> DEFINE w == WindowOf(q, v)
<1>1. Len(q) \in Nat /\ DOMAIN q = 1..Len(q) /\ \A k \in DOMAIN q : q[k] \in Renamed
  BY SeqFacts
<1>2. w = [k \in DOMAIN q |-> Entry(q[k], v)]
  BY DEF WindowOf, Entry
<1> HIDE DEF w
<1>3. w \in [1..Len(q) -> WindowType]
  BY <1>1, <1>2, EntryType
<1>4. w \in Seq(WindowType) /\ Len(w) = Len(q) /\ DOMAIN w = 1..Len(q)
  BY <1>1, <1>3, FunIsSeq, SMTT(30)
<1> QED
  BY <1>1, <1>2, <1>4 DEF w

\* It loses its oldest with the queue,
LEMMA WindowTail ==
    ASSUME NEW q \in Seq(Renamed), q # << >>, NEW v \in [PRegs -> ARegs \cup Nat]
    PROVE  /\ WindowOf(Tail(q), v) = Tail(WindowOf(q, v)) /\ WindowOf(q, v) # << >>
           /\ Head(WindowOf(q, v)) = Entry(Head(q), v)
<1> DEFINE w == WindowOf(q, v)
           x == WindowOf(Tail(q), v)
<1>1. /\ Len(q) \in Nat \ {0} /\ DOMAIN q = 1..Len(q) /\ Head(q) = q[1]
      /\ Tail(q) \in Seq(Renamed) /\ Len(Tail(q)) = Len(q) - 1 /\ DOMAIN Tail(q) = 1..(Len(q) - 1)
      /\ \A k \in 1..(Len(q) - 1) : Tail(q)[k] = q[k + 1]
  BY TailFacts
<1>2. w \in Seq(WindowType) /\ Len(w) = Len(q) /\ \A k \in 1..Len(q) : w[k] = Entry(q[k], v)
  BY <1>1, WindowFacts
<1>3. x \in Seq(WindowType) /\ Len(x) = Len(q) - 1
      /\ \A k \in 1..(Len(q) - 1) : x[k] = Entry(Tail(q)[k], v)
  BY <1>1, WindowFacts
<1> HIDE DEF w, x
<1>4. w # << >>
  BY <1>1, <1>2, SeqFacts
<1>5. /\ Head(w) = w[1] /\ Tail(w) \in Seq(WindowType) /\ Len(Tail(w)) = Len(w) - 1
      /\ \A k \in 1..(Len(w) - 1) : Tail(w)[k] = w[k + 1]
  BY <1>2, <1>4, TailFacts
<1>6. ASSUME NEW k \in 1..Len(x) PROVE x[k] = Tail(w)[k]
  <2>1. k \in 1..(Len(q) - 1) /\ k + 1 \in 1..Len(q)
    BY <1>1, <1>3
  <2> QED
    BY <1>1, <1>2, <1>3, <1>5, <2>1
<1>7. x = Tail(w)
  BY <1>2, <1>3, <1>5, <1>6, SeqEqual
<1>8. Head(w) = Entry(Head(q), v)
  BY <1>1, <1>2, <1>5
<1> QED
  BY <1>4, <1>7, <1>8 DEF w, x

\* its youngest,
LEMMA WindowFront ==
    ASSUME NEW q \in Seq(Renamed), NEW t \in Seq(Renamed), Len(q) # 0, Len(t) = Len(q) - 1,
           \A k \in 1..Len(t) : t[k] = q[k], NEW v \in [PRegs -> ARegs \cup Nat]
    PROVE  WindowOf(t, v) = SubSeq(WindowOf(q, v), 1, Len(WindowOf(q, v)) - 1)
           /\ WindowOf(q, v) # << >>
<1> DEFINE w == WindowOf(q, v)
           x == WindowOf(t, v)
           y == SubSeq(w, 1, Len(w) - 1)
<1>0. Len(q) \in Nat \ {0} /\ DOMAIN q = 1..Len(q) /\ DOMAIN t = 1..Len(t)
  BY SeqFacts
<1>1. w \in Seq(WindowType) /\ Len(w) = Len(q) /\ \A k \in 1..Len(q) : w[k] = Entry(q[k], v)
  BY <1>0, WindowFacts
<1>2. x \in Seq(WindowType) /\ Len(x) = Len(t) /\ \A k \in 1..Len(t) : x[k] = Entry(t[k], v)
  BY <1>0, WindowFacts
<1> HIDE DEF w, x
<1>3. y \in Seq(WindowType) /\ Len(y) = Len(w) - 1 /\ \A k \in 1..(Len(w) - 1) : y[k] = w[k]
  <2>1. 1 \in 1..(Len(w) + 1) /\ Len(w) - 1 \in 0..Len(w)
    BY <1>0, <1>1
  <2>2. y \in Seq(WindowType) /\ Len(y) = Len(w) - 1
        /\ \A k \in 1..(Len(w) - 1) : y[k] = w[1 + k - 1]
    BY <1>0, <1>1, <2>1, SubSeqProperties
  <2>3. \A k \in 1..(Len(w) - 1) : 1 + k - 1 = k
    BY <1>0, <1>1
  <2> QED
    BY <2>2, <2>3
<1> HIDE DEF y
<1>4. x = y
  <2>1. Len(x) = Len(y)
    BY <1>0, <1>1, <1>2, <1>3
  <2>2. ASSUME NEW k \in 1..Len(x) PROVE x[k] = y[k]
    <3>1. k \in 1..Len(t) /\ k \in 1..(Len(w) - 1) /\ k \in 1..Len(q)
      BY <1>0, <1>1, <1>2
    <3> QED
      BY <1>1, <1>2, <1>3, <3>1
  <2> QED
    BY <1>2, <1>3, <2>1, <2>2, SeqEqual
<1>5. w # << >>
  BY <1>0, <1>1, SeqFacts
<1> QED
  BY <1>4, <1>5 DEF w, x, y

\* and gains one, if nobody else sees another value.
LEMMA WindowAppend ==
    ASSUME NEW q \in Seq(Renamed), NEW e \in Renamed, NEW v \in [PRegs -> ARegs \cup Nat],
           NEW z \in [PRegs -> ARegs \cup Nat], \A k \in DOMAIN q : Entry(q[k], z) = Entry(q[k], v)
    PROVE  WindowOf(Append(q, e), z) = Append(WindowOf(q, v), Entry(e, z))
<1> DEFINE w == WindowOf(q, v)
           t == Append(q, e)
           x == WindowOf(t, z)
           d == Entry(e, z)
           y == Append(w, d)
<1>0. /\ Len(q) \in Nat /\ DOMAIN q = 1..Len(q) /\ t \in Seq(Renamed) /\ Len(t) = Len(q) + 1
      /\ DOMAIN t = 1..(Len(q) + 1)
      /\ \A k \in 1..Len(q) : t[k] = q[k]
      /\ t[Len(q) + 1] = e
  BY AppendFacts
<1>1. w \in Seq(WindowType) /\ Len(w) = Len(q) /\ \A k \in 1..Len(q) : w[k] = Entry(q[k], v)
  BY <1>0, WindowFacts
<1> HIDE DEF t
<1>2. x \in Seq(WindowType) /\ Len(x) = Len(t) /\ \A k \in 1..Len(t) : x[k] = Entry(t[k], z)
  BY <1>0, WindowFacts
<1>3. d \in WindowType
  BY EntryType
<1> HIDE DEF w, x, d
<1>4. /\ y \in Seq(WindowType) /\ Len(y) = Len(w) + 1 /\ y[Len(w) + 1] = d
      /\ \A k \in 1..Len(w) : y[k] = w[k]
  BY <1>1, <1>3, AppendFacts
<1> HIDE DEF y
<1>5. ASSUME NEW k \in 1..Len(x) PROVE x[k] = y[k]
  <2>1. CASE k \in 1..Len(q)
    <3>1. k \in 1..Len(t) /\ k \in 1..Len(w) /\ k \in DOMAIN q
      BY <1>0, <1>1, <2>1
    <3> QED
      BY <1>0, <1>1, <1>2, <1>4, <2>1, <3>1
  <2>2. CASE k \notin 1..Len(q)
    <3>1. k = Len(q) + 1 /\ k \in 1..Len(t) /\ k = Len(w) + 1
      BY <1>0, <1>1, <1>2, <2>2
    <3> QED
      BY <1>0, <1>2, <1>4, <3>1 DEF d
  <2> QED
    BY <2>1, <2>2
<1>6. Len(x) = Len(y)
  BY <1>0, <1>1, <1>2, <1>4
<1>7. x = y
  BY <1>2, <1>4, <1>5, <1>6, SeqEqual
<1> QED
  BY <1>7 DEF w, x, y, d, t

-----------------------------------------------------------------------------
\* The committed registers, and what each step does to them.  Renaming leaves them alone:
\* the first writer of a register holds what was mapped.
LEMMA BeforeAppend ==
    ASSUME NEW q \in Seq(Renamed), NEW m \in [ARegs -> PRegs], NEW e \in Renamed, NEW r,
           IF e.dst = NoReg THEN r = m
           ELSE e.dst \in ARegs /\ e.prev = m[e.dst] /\ r = [m EXCEPT ![e.dst] = e.pdst],
           NEW a \in ARegs
    PROVE  BeforeQueue(Append(q, e), r, a) = BeforeQueue(q, m, a)
<1> DEFINE t == Append(q, e)
           n == Len(q)
           W == WritersIn(q, a)
           X == WritersIn(t, a)
<1>0. /\ n \in Nat /\ DOMAIN q = 1..n /\ t \in Seq(Renamed) /\ DOMAIN t = 1..(n + 1)
      /\ \A k \in 1..n : t[k] = q[k]
      /\ t[n + 1] = e
  BY AppendFacts
<1>1. a # NoReg
  BY RegisterAssumption
<1> HIDE DEF t, n
<1>2. \A k : k \in X <=> k \in W \/ (k = n + 1 /\ e.dst = a)
  <2>1. \A k : k \in 1..(n + 1) <=> k \in 1..n \/ k = n + 1
    BY <1>0
  <2> QED
    BY <1>0, <2>1 DEF WritersIn
<1>3. \A k \in W : k \in 1..n /\ t[k] = q[k]
  BY <1>0 DEF WritersIn
<1> HIDE DEF W, X
<1>4. /\ W = {} => BeforeQueue(q, m, a) = m[a]
      /\ \A k \in W : (\A j \in W : k <= j) => BeforeQueue(q, m, a) = q[k].prev
      /\ W # {} => \E k \in W : \A j \in W : k <= j
  BY BeforeQueueIs DEF W
<1>5. /\ X = {} => BeforeQueue(t, r, a) = r[a]
      /\ \A k \in X : (\A j \in X : k <= j) => BeforeQueue(t, r, a) = t[k].prev
  BY <1>0, BeforeQueueIs DEF X
<1>6. CASE W # {}
  <2>1. PICK k \in W : \A j \in W : k <= j
    BY <1>4, <1>6
  <2>2. k \in X /\ \A j \in X : k <= j
    BY <1>0, <1>2, <1>3, <2>1
  <2>3. BeforeQueue(t, r, a) = t[k].prev /\ BeforeQueue(q, m, a) = q[k].prev /\ t[k] = q[k]
    BY <1>3, <1>4, <1>5, <2>1, <2>2
  <2>4. BeforeQueue(t, r, a) = BeforeQueue(q, m, a)
    BY <2>3
  <2> QED
    BY <2>4 DEF t
<1>7. CASE W = {} /\ e.dst = a
  <2>1. n + 1 \in X /\ \A j \in X : n + 1 <= j
    BY <1>0, <1>2, <1>7
  <2>2. BeforeQueue(t, r, a) = e.prev
    BY <1>0, <1>5, <2>1
  <2> QED
    BY <1>1, <1>4, <1>7, <2>2 DEF t
<1>8. CASE W = {} /\ e.dst # a
  <2>1. X = {}
    BY <1>2, <1>8
  <2> QED
    BY <1>4, <1>5, <1>8, <2>1 DEF t
<1> QED
  BY <1>6, <1>7, <1>8

\* So does undoing the youngest instruction.
LEMMA BeforeFront ==
    ASSUME NEW q \in Seq(Renamed), NEW m \in [ARegs -> PRegs], NEW t \in Seq(Renamed),
           NEW n \in Nat \ {0}, DOMAIN q = 1..n, DOMAIN t = 1..(n - 1),
           \A k \in 1..(n - 1) : t[k] = q[k],
           NEW r, IF q[n].dst = NoReg THEN r = m
                  ELSE q[n].dst \in ARegs /\ r = [m EXCEPT ![q[n].dst] = q[n].prev],
           NEW a \in ARegs
    PROVE  BeforeQueue(t, r, a) = BeforeQueue(q, m, a)
<1> DEFINE W == WritersIn(q, a)
           X == WritersIn(t, a)
<1>1. a # NoReg
  BY RegisterAssumption
<1>2. \A k : k \in W <=> k \in X \/ (k = n /\ q[n].dst = a)
  <2>1. \A k : k \in 1..n <=> k \in 1..(n - 1) \/ k = n
    OBVIOUS
  <2> QED
    BY <2>1 DEF WritersIn
<1>3. \A k \in X : k \in 1..(n - 1) /\ t[k] = q[k]
  BY DEF WritersIn
<1> HIDE DEF W, X
<1>4. /\ W = {} => BeforeQueue(q, m, a) = m[a]
      /\ \A k \in W : (\A j \in W : k <= j) => BeforeQueue(q, m, a) = q[k].prev
  BY BeforeQueueIs DEF W
<1>5. /\ X = {} => BeforeQueue(t, r, a) = r[a]
      /\ \A k \in X : (\A j \in X : k <= j) => BeforeQueue(t, r, a) = t[k].prev
      /\ X # {} => \E k \in X : \A j \in X : k <= j
  BY BeforeQueueIs DEF X
<1>6. CASE X # {}
  <2>1. PICK k \in X : \A j \in X : k <= j
    BY <1>5, <1>6
  <2>2. k \in W /\ \A j \in W : k <= j
    BY <1>2, <1>3, <2>1
  <2> QED
    BY <1>3, <1>4, <1>5, <2>1, <2>2
<1>7. CASE X = {} /\ q[n].dst = a
  <2>1. n \in W /\ \A j \in W : n <= j
    BY <1>2, <1>7
  <2> QED
    BY <1>1, <1>4, <1>5, <1>7, <2>1
<1>8. CASE X = {} /\ q[n].dst # a
  <2>1. W = {}
    BY <1>2, <1>8
  <2> QED
    BY <1>4, <1>5, <1>8, <2>1
<1> QED
  BY <1>6, <1>7, <1>8

\* Retirement commits the register that the oldest instruction writes.
LEMMA BeforeTail ==
    ASSUME IInv, inst_queue_ # << >>, NEW a \in ARegs
    PROVE  BeforeQueue(Tail(inst_queue_), map_table_, a) =
              IF Head(inst_queue_).dst = a THEN Head(inst_queue_).pdst
              ELSE BeforeQueue(inst_queue_, map_table_, a)
<1> DEFINE q == inst_queue_
           m == map_table_
           n == Len(inst_queue_)
           t == Tail(inst_queue_)
           W == WritersIn(q, a)
           X == WritersIn(t, a)
<1>0. /\ q \in Seq(Renamed) /\ ReplayInv
  BY DEF IInv, TypeOK, RegInv
<1>1. /\ n \in Nat \ {0} /\ DOMAIN q = 1..n /\ Head(q) = q[1] /\ t \in Seq(Renamed)
      /\ DOMAIN t = 1..(n - 1)
      /\ \A k \in 1..(n - 1) : t[k] = q[k + 1]
  BY <1>0, TailFacts
<1>2. a # NoReg
  BY RegisterAssumption
<1> HIDE DEF t, n
<1>3. \A k : k \in X <=> k \in 1..(n - 1) /\ k + 1 \in 1..n /\ q[k + 1].dst = a
  BY <1>1 DEF WritersIn
<1>4. \A k : k \in W <=> k \in 1..n /\ q[k].dst = a
  BY <1>1 DEF WritersIn
<1>c. \A k \in 2..n : k - 1 \in 1..(n - 1) /\ (k - 1) + 1 = k
  BY <1>1
<1> HIDE DEF W, X
<1>5. /\ W = {} => BeforeQueue(q, m, a) = m[a]
      /\ \A k \in W : (\A j \in W : k <= j) => BeforeQueue(q, m, a) = q[k].prev
  BY <1>0, BeforeQueueIs DEF W
<1>6. /\ X = {} => BeforeQueue(t, m, a) = m[a]
      /\ \A k \in X : (\A j \in X : k <= j) => BeforeQueue(t, m, a) = t[k].prev
      /\ X # {} => \E k \in X : \A j \in X : k <= j
  <2>1. t \in Seq(Renamed)
    BY <1>1
  <2> QED
    BY <2>1, BeforeQueueIs, ZenonT(30) DEF X
<1>7. CASE X = {}
  <2>1. \A j \in DOMAIN q : j > 1 => q[j].dst # a
    <3> SUFFICES ASSUME NEW j \in DOMAIN q, j > 1 PROVE q[j].dst # a
      OBVIOUS
    <3>1. j \in 2..n /\ j \in 1..n
      BY <1>1
    <3>2. j - 1 \notin X
      BY <1>7
    <3> QED
      BY <1>3, <1>c, <3>1, <3>2
  <2>2. CASE q[1].dst = a
    <3>1. LastWriter(1)
      BY <1>2, <2>1, <2>2 DEF LastWriter
    <3>2. m[a] = q[1].pdst
      BY <1>0, <1>1, <2>2, <3>1 DEF ReplayInv
    <3> QED
      BY <1>1, <1>6, <1>7, <2>2, <3>2 DEF t
  <2>3. CASE q[1].dst # a
    <3>1. W = {}
      <4> SUFFICES ASSUME NEW k \in W PROVE FALSE
        OBVIOUS
      <4>1. k \in 1..n /\ q[k].dst = a
        BY <1>4
      <4>2. k = 1 \/ k > 1
        BY <4>1
      <4> QED
        BY <1>1, <2>1, <2>3, <4>1, <4>2
    <3> QED
      BY <1>1, <1>5, <1>6, <1>7, <2>3, <3>1 DEF t
  <2> QED
    BY <2>2, <2>3
<1>8. CASE X # {}
  <2>1. PICK k \in X : \A j \in X : k <= j
    BY <1>6, <1>8
  <2>2. /\ k \in 1..(n - 1) /\ k + 1 \in 1..n /\ q[k + 1].dst = a /\ t[k] = q[k + 1]
        /\ BeforeQueue(t, m, a) = t[k].prev
    BY <1>1, <1>3, <1>6, <2>1
  <2>3. \A j \in DOMAIN q : 1 < j /\ j < k + 1 => q[j].dst # a
    <3> SUFFICES ASSUME NEW j \in DOMAIN q, 1 < j, j < k + 1, q[j].dst = a PROVE FALSE
      OBVIOUS
    <3>1. j \in 2..n /\ j \in 1..n
      BY <1>1
    <3>2. j - 1 \in X
      BY <1>3, <1>c, <3>1
    <3>3. k <= j - 1
      BY <2>1, <3>2
    <3> QED
      BY <2>2, <3>1, <3>3
  <2>4. CASE q[1].dst = a
    <3>1. Consecutive(1, k + 1)
      BY <1>1, <1>2, <2>2, <2>3, <2>4 DEF Consecutive
    <3>2. q[k + 1].prev = q[1].pdst
      <4>1. 1 \in DOMAIN q /\ k + 1 \in DOMAIN q
        BY <1>1, <2>2
      <4>2. \A j, l \in DOMAIN q : Consecutive(j, l) => q[l].prev = q[j].pdst
        BY <1>0 DEF ReplayInv
      <4> QED
        BY <3>1, <4>1, <4>2
    <3> QED
      BY <1>1, <2>2, <2>4, <3>2 DEF t
  <2>5. CASE q[1].dst # a
    <3>1. k + 1 \in W
      BY <1>4, <2>2
    <3>2. ASSUME NEW j \in W PROVE k + 1 <= j
      <4>1. j \in 1..n /\ q[j].dst = a
        BY <1>4
      <4>2. j # 1 /\ ~(1 < j /\ j < k + 1)
        BY <1>1, <2>3, <2>5, <4>1
      <4> QED
        BY <2>2, <4>1, <4>2
    <3>3. BeforeQueue(q, m, a) = q[k + 1].prev
      BY <1>5, <3>1, <3>2
    <3> QED
      BY <1>1, <2>2, <2>5, <3>3 DEF t
  <2> QED
    BY <2>4, <2>5
<1> QED
  BY <1>7, <1>8

\* The value that the next instruction reads is that of the mapped register.
LEMMA SpecValueIs ==
    ASSUME IInv, NEW a \in ARegs
    PROVE  Arch!SpecValue(a) = val[map_table_[a]]
<1> DEFINE q == inst_queue_
           w == windowBar
           W == {k \in DOMAIN w : w[k].dst = a}
<1>0. /\ q \in Seq(Renamed) /\ val \in [PRegs -> ARegs \cup Nat] /\ ReplayInv /\ FileInv
      /\ map_table_ \in [ARegs -> PRegs]
  BY DEF IInv, TypeOK, RegInv
<1>1. Arch!SpecValue(a) = IF W = {} THEN committedBar[a]
                          ELSE w[CHOOSE k \in W : \A j \in W : j <= k].dval
  BY DEF Arch!SpecValue, Arch!Writers, windowBar, committedBar
<1>2. /\ w = WindowOf(q, val) /\ DOMAIN w = DOMAIN q
      /\ \A k \in DOMAIN q : w[k] = Entry(q[k], val)
      /\ committedBar[a] = val[BeforeQueue(q, map_table_, a)]
  BY <1>0, Mapping, WindowFacts DEF CommittedOf
<1> HIDE DEF w
<1>3. W = WritersIn(q, a)
  BY <1>2 DEF WritersIn, Entry
<1>4. CASE W = {}
  <2>1. BeforeQueue(q, map_table_, a) = map_table_[a]
    BY <1>0, <1>3, <1>4, BeforeQueueIs
  <2> QED
    BY <1>1, <1>2, <1>4, <2>1
<1>5. CASE W # {}
  <2> DEFINE k == CHOOSE x \in W : \A j \in W : j <= x
  <2>1. W \in SUBSET (1..Len(q)) /\ Len(q) \in Nat /\ DOMAIN q = 1..Len(q)
    BY <1>0, <1>2, SeqFacts
  <2>2. \E x \in W : \A j \in W : j <= x
    <3> HIDE DEF W
    <3> QED
      BY <1>5, <2>1, Extremes
  <2>3. k \in W /\ \A j \in W : j <= k
    BY <2>2
  <2> HIDE DEF k
  <2>4. k \in DOMAIN q /\ q[k].dst = a /\ a # NoReg
    BY <1>3, <2>3, RegisterAssumption DEF WritersIn
  <2>5. LastWriter(k)
    <3>1. ASSUME NEW j \in DOMAIN q, j > k PROVE q[j].dst # a
      <4>1. j \notin W
        BY <2>1, <2>3, <3>1, <2>4
      <4> QED
        BY <1>3, <4>1 DEF WritersIn
    <3> QED
      BY <2>4, <3>1 DEF LastWriter
  <2>6. map_table_[a] = q[k].pdst
    BY <1>0, <2>4, <2>5 DEF ReplayInv
  <2>7. w[k].dval = val[q[k].pdst]
    <3>1. q[k].pdst \in PRegs /\ q[k].pdst # NoReg
      BY <1>0, <2>4, RegisterAssumption DEF FileInv
    <3>2. w[k].dval = Seen(val, q[k].pdst)
      BY <1>2, <2>4 DEF Entry
    <3> QED
      BY <3>1, <3>2 DEF Seen
  <2> QED
    BY <1>1, <1>5, <2>6, <2>7 DEF k
<1> QED
  BY <1>4, <1>5

\* Renaming an instruction is its entering the window.
LEMMA RenameEnters ==
    ASSUME IInv, IInv', ReadInv, DecodedInv, renameInst
    PROVE  Arch!Next
<1> DEFINE u == Head(uop_queue_)
           i == RenamedInst(u)
           q == inst_queue_
           m == map_table_
<1>0. /\ q \in Seq(Renamed) /\ m \in [ARegs -> PRegs] /\ uop_queue_ \in Seq(Uop)
      /\ val \in [PRegs -> ARegs \cup Nat] /\ val' \in [PRegs -> ARegs \cup Nat]
  BY DEF IInv, TypeOK
<1>1. /\ uop_queue_ # << >> /\ u \in Uop /\ i \in Renamed /\ q' = Append(q, i)
      /\ i.uid = u.uid /\ i.src = u.src /\ i.dst = u.dst
      /\ i.psrc = IF u.src = NoReg THEN NoReg ELSE m[u.src]
      /\ u.dst = NoReg => i.pdst = NoReg /\ i.prev = NoReg /\ UNCHANGED regs
      /\ u.dst # NoReg => /\ u.dst \in ARegs /\ i.pdst \in PRegs /\ i.pdst = renameDest(u)
                          /\ i.prev = m[u.dst] /\ m' = [m EXCEPT ![u.dst] = i.pdst]
                          /\ renameDests(u)
  BY RenameInstDoes
<1>2. u.uid \in 1..MaxUid /\ \E op \in Ops : u.src = op.src /\ u.dst = op.dst /\ u.kind = op.kind
  <2>1. 1 \in DOMAIN uop_queue_ /\ u = uop_queue_[1]
    BY <1>0, <1>1, TailFacts
  <2> QED
    BY <2>1 DEF DecodedInv
<1>3. PICK op \in Ops : u.src = op.src /\ u.dst = op.dst /\ u.kind = op.kind
  BY <1>2
<1>4. u.src \in ARegs \cup {NoReg} /\ u.dst \in ARegs \cup {NoReg} /\ NoReg \notin ARegs
      /\ NoReg \notin PRegs /\ NoReg \notin Nat
  BY <1>1, RegisterAssumption DEF Uop, OptAReg
<1>5. \A p \in PRegs : cnt[p] # 0 => val'[p] = val[p]
  BY AllocatesFree
<1> DEFINE sval == IF u.src = NoReg THEN NoReg ELSE val[m[u.src]]
           dval == IF u.dst = NoReg THEN NoReg
                   ELSE IF u.kind = "move" /\ sval # NoReg THEN sval ELSE u.uid
<1>s. u.src # NoReg => /\ m[u.src] \in PRegs /\ val'[m[u.src]] = val[m[u.src]]
                       /\ val[m[u.src]] # NoReg
  <2> SUFFICES ASSUME u.src # NoReg
               PROVE  /\ m[u.src] \in PRegs /\ val'[m[u.src]] = val[m[u.src]] /\ val[m[u.src]] # NoReg
    OBVIOUS
  <2>1. u.src \in ARegs /\ m[u.src] \in PRegs
    BY <1>0, <1>4
  <2>2. cnt[m[u.src]] # 0
    BY <2>1, ReferencedCounts
  <2>3. val[m[u.src]] \in ARegs \cup Nat
    BY <1>0, <2>1
  <2> QED
    BY <1>4, <1>5, <2>1, <2>2, <2>3
<1>6. Seen(val', i.psrc) = sval
  BY <1>1, <1>4, <1>s DEF Seen
<1>7. Seen(val', i.pdst) = dval
  <2>1. CASE u.dst = NoReg
    BY <1>1, <2>1 DEF Seen
  <2>2. CASE u.dst # NoReg
    <3>1. i.pdst \in PRegs /\ i.pdst = renameDest(u) /\ renameDests(u)
          /\ Seen(val', i.pdst) = val'[i.pdst]
      BY <1>1, <1>4, <2>2 DEF Seen
    <3>2. CASE eliminated(u)
      <4>1. u.src # NoReg /\ u.kind = "move" /\ renameDest(u) = m[u.src]
        BY <3>2 DEF eliminated, renameDest, renameSource
      <4> QED
        BY <1>s, <2>2, <3>1, <4>1
    <3>3. CASE ~eliminated(u)
      <4>1. val' = [val EXCEPT ![renameDest(u)] = IF u.kind = "move" /\ u.src # NoReg
                                                  THEN val[renameSource(u)] ELSE u.uid]
        BY <3>1, <3>3 DEF renameDests
      <4>2. val'[i.pdst] = IF u.kind = "move" /\ u.src # NoReg THEN val[renameSource(u)] ELSE u.uid
        BY <1>0, <3>1, <4>1
      <4>3. u.src # NoReg => renameSource(u) = m[u.src]
        BY DEF renameSource
      <4> QED
        BY <1>s, <2>2, <3>1, <4>2, <4>3
    <3> QED
      BY <3>2, <3>3
  <2> QED
    BY <2>1, <2>2
<1> HIDE DEF i, u
<1>8. windowBar' = Append(windowBar, [uid |-> u.uid, src |-> op.src, dst |-> op.dst,
                                      sval |-> sval, dval |-> dval])
  <2>1. ASSUME NEW k \in DOMAIN q PROVE Entry(q[k], val') = Entry(q[k], val)
    <3>1. /\ q[k].psrc # NoReg => q[k].psrc \in PRegs /\ cnt[q[k].psrc] # 0
          /\ q[k].pdst # NoReg => q[k].pdst \in PRegs /\ cnt[q[k].pdst] # 0
      BY LiveRegisters
    <3>2. Seen(val', q[k].psrc) = Seen(val, q[k].psrc) /\ Seen(val', q[k].pdst) = Seen(val, q[k].pdst)
      BY <1>5, <3>1 DEF Seen
    <3> QED
      BY <3>2 DEF Entry
  <2>2. WindowOf(Append(q, i), val') = Append(WindowOf(q, val), Entry(i, val'))
    BY <1>0, <1>1, <2>1, WindowAppend
  <2>3. Entry(i, val') = [uid |-> u.uid, src |-> op.src, dst |-> op.dst, sval |-> sval, dval |-> dval]
    BY <1>1, <1>3, <1>6, <1>7 DEF Entry
  <2>4. windowBar = WindowOf(q, val) /\ windowBar' = WindowOf(q', val')
    BY Mapping
  <2> QED
    BY <1>1, <2>2, <2>3, <2>4
<1>9. committedBar' = committedBar
  <2>1. ASSUME NEW a \in ARegs
        PROVE  val'[BeforeQueue(q', m', a)] = val[BeforeQueue(q, m, a)]
    <3>0. PICK r : r = m'
      OBVIOUS
    <3>1. IF i.dst = NoReg THEN r = m
          ELSE i.dst \in ARegs /\ i.prev = m[i.dst] /\ r = [m EXCEPT ![i.dst] = i.pdst]
      BY <1>1, <3>0 DEF regs
    <3>a. q \in Seq(Renamed) /\ m \in [ARegs -> PRegs] /\ i \in Renamed
      BY <1>0, <1>1
    <3>b. BeforeQueue(Append(q, i), r, a) = BeforeQueue(q, m, a)
      BY <3>1, <3>a, BeforeAppend
    <3>2. BeforeQueue(Append(q, i), m', a) = BeforeQueue(q, m, a)
      BY <3>0, <3>b
    <3>3. BeforeQueue(q, m, a) \in PRegs /\ cnt[BeforeQueue(q, m, a)] # 0
      BY LiveRegisters
    <3> QED
      BY <1>1, <1>5, <3>2, <3>3
  <2>2. CommittedOf(q', m', val') = CommittedOf(q, m, val)
    BY <2>1 DEF CommittedOf
  <2> QED
    BY <2>2, Mapping
<1>10. op.src # NoReg => Arch!SpecValue(op.src) = val[m[op.src]]
  BY <1>3, <1>4, SpecValueIs, SMTT(30)
<1>11. Arch!Enter(u.uid, op.src, op.dst, op.kind)
  <2>1. sval = (IF op.src = NoReg THEN NoReg ELSE Arch!SpecValue(op.src))
    BY <1>3, <1>10
  <2>2. dval = (IF op.dst = NoReg THEN NoReg ELSE Arch!Written(u.uid, op.kind, sval))
    BY <1>3 DEF Arch!Written
  <2> HIDE DEF sval, dval
  <2> QED
    BY <1>8, <1>9, <2>1, <2>2, Zenon DEF Arch!Enter, windowBar, committedBar
<1> QED
  BY <1>2, <1>11 DEF Arch!Next

\* The acknowledgement of a retired instruction commits it.
LEMMA AckCommits ==
    ASSUME IInv, ackInst
    PROVE  Arch!Next
<1> DEFINE q == inst_queue_
           m == map_table_
           h == Head(inst_queue_)
<1>0. /\ q \in Seq(Renamed) /\ m \in [ARegs -> PRegs] /\ val \in [PRegs -> ARegs \cup Nat] /\ FileInv
  BY DEF IInv, TypeOK, RegInv
<1>1. q # << >> /\ q' = Tail(q) /\ m' = m /\ val' = val
  BY AckInstDoes
<1>2. windowBar = WindowOf(q, val) /\ windowBar' = WindowOf(q', val')
      /\ committedBar = CommittedOf(q, m, val) /\ committedBar' = CommittedOf(q', m', val')
  BY Mapping
<1>3. windowBar' = Tail(windowBar) /\ windowBar # << >> /\ Head(windowBar) = Entry(h, val)
  BY <1>0, <1>1, <1>2, WindowTail
<1>4. h = q[1] /\ 1 \in DOMAIN q /\ h \in Renamed
  BY <1>0, <1>1, TailFacts
<1>5. h.dst # NoReg => /\ h.dst \in ARegs /\ h.pdst \in PRegs /\ h.pdst # NoReg
  BY <1>0, <1>4, RegisterAssumption DEF FileInv, Renamed, OptAReg
<1>6. committedBar' = IF h.dst = NoReg THEN committedBar
                      ELSE [committedBar EXCEPT ![h.dst] = Seen(val, h.pdst)]
  <2>1. ASSUME NEW a \in ARegs
        PROVE  committedBar'[a] = IF h.dst = a THEN val[h.pdst] ELSE committedBar[a]
    <3>1. BeforeQueue(Tail(q), m, a) = IF h.dst = a THEN h.pdst ELSE BeforeQueue(q, m, a)
      BY <1>1, BeforeTail
    <3>2. committedBar[a] = val[BeforeQueue(q, m, a)]
          /\ committedBar'[a] = val[BeforeQueue(Tail(q), m, a)]
      BY <1>1, <1>2 DEF CommittedOf
    <3> QED
      BY <3>1, <3>2
  <2>2. DOMAIN committedBar = ARegs /\ DOMAIN committedBar' = ARegs
        /\ committedBar = [a \in ARegs |-> committedBar[a]]
        /\ committedBar' = [a \in ARegs |-> committedBar'[a]]
    BY <1>2 DEF CommittedOf
  <2>3. CASE h.dst = NoReg
    <3>1. \A a \in ARegs : committedBar'[a] = committedBar[a]
      BY <2>1, <2>3, RegisterAssumption
    <3>2. committedBar' = committedBar
      BY <2>2, <3>1
    <3> QED
      BY <2>3, <3>2
  <2>4. CASE h.dst # NoReg
    <3>1. Seen(val, h.pdst) = val[h.pdst] /\ h.dst \in ARegs
      BY <1>5, <2>4 DEF Seen
    <3> DEFINE c == [committedBar EXCEPT ![h.dst] = Seen(val, h.pdst)]
    <3>2. \A a \in ARegs : committedBar'[a] = c[a]
      BY <2>1, <2>2, <3>1
    <3>3. c = [a \in ARegs |-> c[a]]
      BY <2>2
    <3> HIDE DEF c
    <3>4. committedBar' = c
      BY <2>2, <3>2, <3>3
    <3> QED
      BY <2>4, <3>4 DEF c
  <2> QED
    BY <2>3, <2>4
<1>7. Head(windowBar).dst = h.dst /\ Head(windowBar).dval = Seen(val, h.pdst)
  BY <1>3 DEF Entry
<1>8. /\ windowBar # << >> /\ windowBar' = Tail(windowBar)
      /\ committedBar' = IF Head(windowBar).dst = NoReg THEN committedBar
                         ELSE [committedBar EXCEPT ![Head(windowBar).dst] = Head(windowBar).dval]
  BY <1>3, <1>6, <1>7
<1>9. Arch!Commit
  BY <1>8 DEF Arch!Commit, windowBar, committedBar
<1> QED
  BY <1>9 DEF Arch!Next

\* Undoing the youngest renamed instruction squashes it.
LEMMA FlushSquashes ==
    ASSUME IInv, flushInst
    PROVE  Arch!Next
<1> DEFINE q == inst_queue_
           m == map_table_
           n == Len(inst_queue_)
           t == SubSeq(inst_queue_, 1, Len(inst_queue_) - 1)
<1>0. q \in Seq(Renamed) /\ m \in [ARegs -> PRegs] /\ val \in [PRegs -> ARegs \cup Nat]
  BY DEF IInv, TypeOK
<1>1. /\ n \in Nat \ {0} /\ DOMAIN q = 1..n /\ q' = t /\ t \in Seq(Renamed) /\ Len(t) = n - 1
      /\ DOMAIN t = 1..(n - 1) /\ val' = val
      /\ \A k \in 1..(n - 1) : t[k] = q[k]
      /\ IF q[n].dst = NoReg THEN m' = m
         ELSE q[n].dst \in ARegs /\ m' = [m EXCEPT ![q[n].dst] = q[n].prev]
  BY FlushInstDoes
<1>2. windowBar = WindowOf(q, val) /\ windowBar' = WindowOf(q', val')
      /\ committedBar = CommittedOf(q, m, val) /\ committedBar' = CommittedOf(q', m', val')
  BY Mapping
<1> HIDE DEF t
<1>3. windowBar' = SubSeq(windowBar, 1, Len(windowBar) - 1) /\ windowBar # << >>
  <2>1. WindowOf(t, val) = SubSeq(WindowOf(q, val), 1, Len(WindowOf(q, val)) - 1)
        /\ WindowOf(q, val) # << >>
    BY <1>0, <1>1, WindowFront
  <2> QED
    BY <1>1, <1>2, <2>1
<1> HIDE DEF n
<1>4. committedBar' = committedBar
  <2>1. \A a \in ARegs : BeforeQueue(t, m', a) = BeforeQueue(q, m, a)
    BY <1>0, <1>1, BeforeFront, SMTT(30)
  <2>2. CommittedOf(t, m', val) = CommittedOf(q, m, val)
    BY <2>1 DEF CommittedOf
  <2> QED
    BY <1>1, <1>2, <2>2
<1>5. Arch!Squash
  BY <1>3, <1>4 DEF Arch!Squash, windowBar, committedBar
<1> QED
  BY <1>5 DEF Arch!Next

\* Renaming is invisible: for every register file, queue depth and bandwidth, with and
\* without move elimination, an instruction reads the value of the latest older writer of
\* its source for as long as it is in flight, and retirement and flushes leave exactly the
\* committed register state.
THEOREM RenamingIsInvisible == Spec => ArchSpec
<1>1. ASSUME Init PROVE Arch!Init
  <2>1. inst_queue_ = << >> /\ map_table_ = InitMap
        /\ val = [p \in PRegs |-> IF \E a \in ARegs : InitMap[a] = p
                                  THEN CHOOSE a \in ARegs : InitMap[a] = p ELSE 0]
    BY <1>1 DEF Init
  <2>2. ASSUME NEW a \in ARegs PROVE val[CommittedMap(a)] = a
    <3>1. CommittedMap(a) = InitMap[a]
      BY <2>1 DEF CommittedMap, InFlightWriters
    <3>2. InitMap[a] \in PRegs /\ \A b \in ARegs : InitMap[b] = InitMap[a] => b = a
      BY RegisterAssumption
    <3>3. (CHOOSE b \in ARegs : InitMap[b] = InitMap[a]) = a
      BY <3>2
    <3>4. val[InitMap[a]] = CHOOSE b \in ARegs : InitMap[b] = InitMap[a]
      BY <2>1, <3>2
    <3> QED
      BY <3>1, <3>3, <3>4
  <2>3. committedBar = [a \in ARegs |-> a]
    BY <2>2 DEF committedBar
  <2>4. windowBar = << >>
    BY <2>1 DEF windowBar
  <2> QED
    BY <2>3, <2>4 DEF Arch!Init, windowBar, committedBar
<1>2. ASSUME IInv, IInv', ReadInv, DecodedInv, [Next]_vars
      PROVE  [Arch!Next]_(Arch!archVars)
  <2>1. CASE UNCHANGED <<inst_queue_, map_table_, val>>
    <3>1. windowBar' = windowBar /\ committedBar' = committedBar
      BY <2>1, Mapping
    <3> QED
      BY <3>1 DEF Arch!archVars, windowBar, committedBar
  <2> QED
    BY <1>2, <2>1, OtherSteps, RenameEnters, AckCommits, FlushSquashes
<1> QED
  BY <1>1, <1>2, Invariance, ReadInvariance, PTL DEF Spec, ArchSpec, Arch!Spec
=============================================================================
