--------------------------- MODULE FrontEndProofs ---------------------------
(***************************************************************************)
(* What the parts of the front end owe each other, for every trace, queue  *)
(* size, latency, number of lines and credits.  IInv is what Fetch and     *)
(* ICache keep between them (OneFillPerLine, ICacheCreditsConserved);      *)
(* OrderInv the order of the program (TraceInOrder, FetchCreditsConserved);*)
(* on top of them are WantInv (FetchedFirst), TypesInv (TypeOK) and        *)
(* VsetInv (VsetBlocks, ConfigExact).                                      *)
(***************************************************************************)
EXTENDS FrontEnd, SequenceFacts

-----------------------------------------------------------------------------
(* The invariant.                                                          *)

LinesOf(s) == {a.line : a \in Range(s)}

\* The queues between Fetch, ICache and the L2 cache are sequences.
SeqInv ==
    /\ IsSequence(to_icache) /\ IsSequence(fetch_req_queue_) /\ IsSequence(replay_buffer_)
    /\ IsSequence(pending_miss_buffer_)
    /\ IsSequence(miss_queue_) /\ IsSequence(at_l2) /\ IsSequence(l2cache_resp_queue_)

\* The sequences a, b and c hold every element of L once, and nothing else.
Partitions(a, b, c, L) ==
    /\ Distinct(a) /\ Distinct(b) /\ Distinct(c)
    /\ Range(a) \cap Range(b) = {} /\ Range(a) \cap Range(c) = {} /\ Range(b) \cap Range(c) = {}
    /\ UNION {Range(a), Range(b), Range(c)} = L

\* A line with a waiting miss is to be requested, requested or filled.
FillInv == Partitions(miss_queue_, at_l2, l2cache_resp_queue_, LinesOf(pending_miss_buffer_))

Answer(e) == /\ e = [access |-> e.access, hit |-> e.hit, due |-> e.due]
             /\ e.hit \in BOOLEAN /\ e.due \in Int /\ e.due <= CacheLatency

\* One arbitration in a cycle, so the answer that it schedules is a new one.
EventInv ==
    /\ IsFiniteSet(ev_respond_) /\ IsFiniteSet(ev_replay_ready_)
    /\ ev_respond_ \cap ev_replay_ready_ = {}
    /\ \A e \in ev_respond_ \cup ev_replay_ready_ :
          /\ Answer(e)
          /\ e.due = CacheLatency => phase \in {"icache", "fetch"} /\ 0 \notin ev_arbitrate_
    /\ \A e \in ev_replay_ready_ : e.hit

\* A request is in Fetch's port between Fetch's event and the next cycle, so a flush
\* finds none there.
PortInv ==
    /\ phase \in DOMAIN NextOf
    /\ to_icache # << >> => phase \in {"fetch", "port"}

CreditInv == credits_icache_ \in Nat /\ ICacheCreditsConserved

IInv == SeqInv /\ FillInv /\ EventInv /\ PortInv /\ CreditInv

-----------------------------------------------------------------------------
(* Sequences of anything.                                                  *)

\* A sequence that loses the element at place i.
LEMMA RemoveIsSequence ==
    ASSUME NEW s, IsSequence(s), NEW i \in DOMAIN s, Distinct(s)
    PROVE  /\ IsSequence(RemoveAt(s, i)) /\ Distinct(RemoveAt(s, i))
           /\ Range(RemoveAt(s, i)) = Range(s) \ {s[i]} /\ s[i] \in Range(s)
<1> DEFINE t == RemoveAt(s, i)
<1>1. s \in Seq(Range(s)) /\ Len(s) \in Nat /\ DOMAIN s = 1..Len(s)
  BY LenProperties DEF IsSequence
<1>2. /\ t \in Seq(Range(s)) /\ Len(t) = Len(s) - 1
      /\ \A k \in 1..Len(s) - 1 : t[k] = IF k < i THEN s[k] ELSE s[k + 1]
  BY <1>1, LeaveOutFacts DEF RemoveAt
<1> HIDE DEF t
<1>3. IsSequence(t) /\ DOMAIN t = 1..Len(s) - 1
  BY <1>1, <1>2, SeqIsSequence
<1> DEFINE at(k) == IF k < i THEN k ELSE k + 1
<1>4. ASSUME NEW k \in DOMAIN t PROVE at(k) \in DOMAIN s /\ at(k) # i /\ t[k] = s[at(k)]
  <2>1. CASE k < i
    BY <1>1, <1>2, <1>3, <2>1
  <2>2. CASE ~(k < i)
    BY <1>1, <1>2, <1>3, <2>2
  <2> QED
    BY <2>1, <2>2
<1>5. \A j, k \in DOMAIN t : at(j) = at(k) => j = k
  BY <1>1, <1>3
<1>6. ASSUME NEW j \in DOMAIN s, j # i PROVE \E k \in DOMAIN t : at(k) = j
  <2>1. CASE j < i
    <3>1. j \in DOMAIN t /\ at(j) = j
      BY <1>1, <1>3, <2>1
    <3> QED
      BY <3>1
  <2>2. CASE ~(j < i)
    <3>1. j - 1 \in DOMAIN t /\ at(j - 1) = j
      BY <1>1, <1>3, <1>6, <2>2
    <3> QED
      BY <3>1
  <2> QED
    BY <2>1, <2>2
<1> HIDE DEF at
<1>7. Distinct(t)
  BY <1>4, <1>5 DEF Distinct
<1>8. Range(t) = Range(s) \ {s[i]}
  <2>1. ASSUME NEW k \in DOMAIN t PROVE t[k] \in Range(s) /\ t[k] # s[i]
    BY <1>4 DEF Distinct, Range
  <2>2. ASSUME NEW j \in DOMAIN s, s[j] # s[i] PROVE s[j] \in Range(t)
    <3>1. PICK k \in DOMAIN t : at(k) = j
      BY <1>6, <2>2
    <3> QED
      BY <1>4, <3>1 DEF Range
  <2> QED
    BY <2>1, <2>2 DEF Range
<1> QED
  BY <1>3, <1>7, <1>8 DEF t, Range

-----------------------------------------------------------------------------
(* The split of the waiting misses when a line has come.                   *)

\* The misses on the line and the others are all of them.
LEMMA SplitByLine ==
    ASSUME NEW s, IsSequence(s), NEW line
    PROVE  /\ IsSequence(SameLine(line, s)) /\ IsSequence(OtherLine(line, s))
           /\ Len(SameLine(line, s)) \in Nat /\ Len(OtherLine(line, s)) \in Nat
           /\ Len(SameLine(line, s)) + Len(OtherLine(line, s)) = Len(s)
           /\ SameLine(line, s) = << >> <=> line \notin LinesOf(s)
           /\ LinesOf(OtherLine(line, s)) = LinesOf(s) \ {line}
<1> DEFINE T == {k \in DOMAIN s : s[k].line = line}
           U == {k \in DOMAIN s : s[k].line # line}
           r == SameLine(line, s)
           o == OtherLine(line, s)
<1>1. Len(s) \in Nat /\ DOMAIN s = 1..Len(s)
  BY LenProperties DEF IsSequence
<1>2. T \in SUBSET (1..Len(s)) /\ U \in SUBSET (1..Len(s))
  BY <1>1
<1>3. IsSequence(r) /\ Len(r) = Cardinality(T) /\ Range(r) = {s[k] : k \in T}
  BY <1>2, ElementsAtFacts DEF SameLine
<1>4. IsSequence(o) /\ Len(o) = Cardinality(U) /\ Range(o) = {s[k] : k \in U}
  BY <1>2, ElementsAtFacts DEF OtherLine
<1>5. T \cup U = 1..Len(s) /\ T \cap U = {}
  BY <1>1
<1>6. IsFiniteSet(T) /\ IsFiniteSet(U) /\ Cardinality(1..Len(s)) = Len(s)
  <2>1. IsFiniteSet(1..Len(s)) /\ Cardinality(1..Len(s)) = Len(s)
    <3> DEFINE n == Len(s)
    <3>1. n \in Int /\ 1 \in Int
      BY <1>1
    <3> HIDE DEF n
    <3>2. IsFiniteSet(1..n) /\ Cardinality(1..n) = IF 1 > n THEN 0 ELSE n - 1 + 1
      BY <3>1, FS_Interval
    <3> QED
      BY <1>1, <3>2 DEF n
  <2> QED
    BY <1>2, <2>1, FS_Subset
<1>7. LinesOf(o) = LinesOf(s) \ {line}
  BY <1>4 DEF LinesOf, Range
<1>8. T = {} <=> line \notin LinesOf(s)
  BY DEF LinesOf, Range
<1> HIDE DEF T, U, r, o
<1>9. Cardinality(T \cup U) = Cardinality(T) + Cardinality(U) - Cardinality(T \cap U)
  BY <1>6, FS_Union
<1>10. Cardinality(T) \in Nat /\ Cardinality(U) \in Nat /\ Cardinality({}) = 0
       /\ (Cardinality(T) = 0 <=> T = {})
  BY <1>6, FS_CardinalityType, FS_EmptySet
<1>11. Cardinality(T) + Cardinality(U) = Len(s)
  <2>1. Cardinality(T \cup U) = Len(s) /\ Cardinality(T \cap U) = 0
    BY <1>5, <1>6, <1>10
  <2> QED
    BY <1>9, <1>10, <2>1
<1>12. r = << >> <=> Len(r) = 0
  BY <1>3, SeqIsSequence DEF IsSequence
<1> QED
  BY <1>3, <1>4, <1>7, <1>8, <1>10, <1>11, <1>12 DEF r, o

-----------------------------------------------------------------------------
(* Lines on their way.                                                     *)

\* A line is sent to the L2 cache.
LEMMA LineSent ==
    ASSUME NEW a, NEW b, NEW c, NEW L, IsSequence(a), IsSequence(b), Partitions(a, b, c, L),
           a # << >>
    PROVE  /\ IsSequence(Tail(a)) /\ IsSequence(Append(b, Head(a)))
           /\ Partitions(Tail(a), Append(b, Head(a)), c, L)
<1> DEFINE x == Head(a)
<1>1. /\ IsSequence(Tail(a)) /\ Distinct(Tail(a)) /\ x \in Range(a)
      /\ Range(Tail(a)) = Range(a) \ {x}
  BY TailIsSequence DEF Partitions
<1>2. x \notin Range(b)
  BY <1>1 DEF Partitions
<1>3. IsSequence(Append(b, x)) /\ Distinct(Append(b, x)) /\ Range(Append(b, x)) = Range(b) \cup {x}
  BY <1>2, AppendIsSequence DEF Partitions
<1> HIDE DEF x
<1> QED
  BY <1>1, <1>2, <1>3 DEF Partitions, x

\* The L2 cache answers for one of the lines.
LEMMA LineComes ==
    ASSUME NEW a, NEW b, NEW c, NEW L, IsSequence(b), IsSequence(c), Partitions(a, b, c, L),
           NEW k \in DOMAIN b
    PROVE  /\ IsSequence(RemoveAt(b, k)) /\ IsSequence(Append(c, b[k]))
           /\ Partitions(a, RemoveAt(b, k), Append(c, b[k]), L)
<1> DEFINE x == b[k]
           r == RemoveAt(b, k)
<1>1. IsSequence(r) /\ Distinct(r) /\ Range(r) = Range(b) \ {x} /\ x \in Range(b)
  BY RemoveIsSequence DEF Partitions
<1>2. x \notin Range(c)
  BY <1>1 DEF Partitions
<1>3. IsSequence(Append(c, x)) /\ Distinct(Append(c, x)) /\ Range(Append(c, x)) = Range(c) \cup {x}
  BY <1>2, AppendIsSequence DEF Partitions
<1> HIDE DEF x, r
<1> QED
  BY <1>1, <1>2, <1>3 DEF Partitions, x, r

\* A line has come and nobody waits for it any more.
LEMMA LineDone ==
    ASSUME NEW a, NEW b, NEW c, NEW L, IsSequence(c), Partitions(a, b, c, L), c # << >>
    PROVE  IsSequence(Tail(c)) /\ Partitions(a, b, Tail(c), L \ {Head(c)})
<1> DEFINE x == Head(c)
           t == Tail(c)
<1>1. IsSequence(t) /\ Distinct(t) /\ x \in Range(c) /\ Range(t) = Range(c) \ {x}
  BY TailIsSequence DEF Partitions
<1> HIDE DEF x, t
<1> QED
  BY <1>1 DEF Partitions, x, t

\* A line is wanted that was not.
LEMMA LineWanted ==
    ASSUME NEW a, NEW b, NEW c, NEW L, IsSequence(a), Partitions(a, b, c, L), NEW x, x \notin L
    PROVE  IsSequence(Append(a, x)) /\ Partitions(Append(a, x), b, c, L \cup {x})
<1> DEFINE t == Append(a, x)
<1>1. x \notin Range(a) /\ x \notin Range(b) /\ x \notin Range(c)
  BY DEF Partitions
<1>2. IsSequence(t) /\ Distinct(t) /\ Range(t) = Range(a) \cup {x}
  BY <1>1, AppendIsSequence DEF Partitions
<1> HIDE DEF t
<1> QED
  BY <1>1, <1>2 DEF Partitions, t

\* makeL2CacheRequest moves a line, or waits for credits.
LEMMA RequestMoves ==
    ASSUME NEW misses, NEW wakes, NEW c, NEW L, IsSequence(misses), IsSequence(at_l2),
           Partitions(misses, at_l2, c, L), makeL2CacheRequest(misses, wakes)
    PROVE  IsSequence(miss_queue_') /\ IsSequence(at_l2') /\ Partitions(miss_queue_', at_l2', c, L)
<1>1. CASE l2cache_credits_ = 0 \/ misses = << >>
  <2>1. miss_queue_' = misses /\ at_l2' = at_l2
    BY <1>1 DEF makeL2CacheRequest
  <2> QED
    BY <2>1
<1>2. CASE ~(l2cache_credits_ = 0 \/ misses = << >>)
  <2>1. miss_queue_' = Tail(misses) /\ at_l2' = Append(at_l2, Head(misses)) /\ misses # << >>
    BY <1>2 DEF makeL2CacheRequest
  <2>2. /\ IsSequence(Tail(misses)) /\ IsSequence(Append(at_l2, Head(misses)))
        /\ Partitions(Tail(misses), Append(at_l2, Head(misses)), c, L)
    BY <2>1, LineSent
  <2> QED
    BY <2>1, <2>2
<1> QED
  BY <1>1, <1>2

\* The invariant states OneFillPerLine.
LEMMA FillsAreExact == SeqInv /\ FillInv => OneFillPerLine
<1> SUFFICES ASSUME SeqInv, FillInv PROVE OneFillPerLine
  OBVIOUS
<1> DEFINE a == miss_queue_
           b == at_l2
           c == l2cache_resp_queue_
           L == LinesOf(pending_miss_buffer_)
<1>1. IsSequence(a) /\ IsSequence(b) /\ IsSequence(c) /\ Partitions(a, b, c, L)
  BY DEF SeqInv, FillInv
<1>2. L = {x.line : x \in ToSet(pending_miss_buffer_)}
  BY DEF LinesOf, Range, ToSet
<1> HIDE DEF a, b, c, L
<1>3. IsSequence(a \o b) /\ Range(a \o b) = Range(a) \cup Range(b) /\ Distinct(a \o b)
  BY <1>1, DistinctConcat DEF Partitions
<1>4. Range(a \o b) \cap Range(c) = {}
  BY <1>1, <1>3 DEF Partitions
<1> DEFINE f == (a \o b) \o c
<1>5. IsSequence(f) /\ Range(f) = Range(a \o b) \cup Range(c) /\ Distinct(f)
  BY <1>1, <1>3, <1>4, DistinctConcat DEF Partitions
<1>6. Range(f) = L
  BY <1>1, <1>3, <1>5 DEF Partitions
<1> HIDE DEF f
<1>7. Cardinality(Range(f)) = Len(f) /\ Range(f) = ToSet(f)
  BY <1>5, DistinctSize DEF Range, ToSet
<1>8. ToSet(f) = L /\ Len(f) = Cardinality(ToSet(f))
  BY <1>6, <1>7
<1> QED
  BY <1>2, <1>8 DEF OneFillPerLine, a, b, c, f

-----------------------------------------------------------------------------
(* Answers on their way.                                                   *)

HitsIn(E) == {e \in E : e.hit}

\* Part of a finite set of answers.
LEMMA HitsFinite ==
    ASSUME NEW E, IsFiniteSet(E)
    PROVE  /\ IsFiniteSet(HitsIn(E)) /\ Cardinality(HitsIn(E)) \in Nat /\ Cardinality(E) \in Nat
<1>1. HitsIn(E) \in SUBSET E
  BY DEF HitsIn
<1>2. IsFiniteSet(HitsIn(E))
  BY <1>1, FS_Subset
<1> QED
  BY <1>2, FS_CardinalityType

\* A new answer is scheduled.
LEMMA AnswerAdded ==
    ASSUME NEW E, IsFiniteSet(E), NEW e, e \notin E, e.hit \in BOOLEAN
    PROVE  /\ IsFiniteSet(E \cup {e}) /\ Cardinality(E \cup {e}) = Cardinality(E) + 1
           /\ Cardinality(HitsIn(E \cup {e})) =
                  Cardinality(HitsIn(E)) + (IF e.hit THEN 1 ELSE 0)
<1>1. IsFiniteSet(E \cup {e}) /\ Cardinality(E \cup {e}) = Cardinality(E) + 1
  BY FS_AddElement
<1>2. IsFiniteSet(HitsIn(E)) /\ Cardinality(HitsIn(E)) \in Nat /\ e \notin HitsIn(E)
  BY HitsFinite DEF HitsIn
<1>3. CASE e.hit
  <2>1. HitsIn(E \cup {e}) = HitsIn(E) \cup {e}
    BY <1>3 DEF HitsIn
  <2>2. Cardinality(HitsIn(E) \cup {e}) = Cardinality(HitsIn(E)) + 1
    BY <1>2, FS_AddElement
  <2> QED
    BY <1>1, <1>3, <2>1, <2>2
<1>4. CASE ~e.hit
  <2>1. HitsIn(E \cup {e}) = HitsIn(E)
    BY <1>4 DEF HitsIn
  <2> QED
    BY <1>1, <1>2, <1>4, <2>1
<1> QED
  BY <1>3, <1>4

\* An answer is sent.
LEMMA AnswerRemoved ==
    ASSUME NEW E, IsFiniteSet(E), NEW e \in E, e.hit \in BOOLEAN
    PROVE  /\ IsFiniteSet(E \ {e}) /\ Cardinality(E) = Cardinality(E \ {e}) + 1
           /\ Cardinality(HitsIn(E)) = Cardinality(HitsIn(E \ {e})) + (IF e.hit THEN 1 ELSE 0)
<1> DEFINE F == E \ {e}
<1>1. IsFiniteSet(F)
  BY FS_RemoveElement
<1>2. e \notin F /\ E = F \cup {e}
  OBVIOUS
<1> HIDE DEF F
<1>3. /\ Cardinality(F \cup {e}) = Cardinality(F) + 1
      /\ Cardinality(HitsIn(F \cup {e})) = Cardinality(HitsIn(F)) + (IF e.hit THEN 1 ELSE 0)
  BY <1>1, <1>2, AnswerAdded
<1> QED
  BY <1>1, <1>2, <1>3 DEF F

\* The answer e one cycle later.
Later(e) == [e EXCEPT !.due = @ - 1]

\* Answers stay different as they age.
LEMMA LaterIsOther ==
    ASSUME NEW e, Answer(e)
    PROVE  /\ Answer(Later(e)) /\ Later(e).hit = e.hit /\ Later(e).due = e.due - 1
           /\ Later(e).due # CacheLatency /\ Later(e).access = e.access
           /\ \A f : Answer(f) /\ Later(f) = Later(e) => f = e
<1>0. CacheLatency \in Nat
  BY ICacheAssumption
<1>1. ASSUME NEW f, Answer(f)
      PROVE  Later(f) = [access |-> f.access, hit |-> f.hit, due |-> f.due - 1]
  <2> DEFINE a == f.access
             h == f.hit
             d == f.due
  <2>1. f = [access |-> a, hit |-> h, due |-> d]
    BY <1>1 DEF Answer
  <2> HIDE DEF a, h, d
  <2>2. Later(f) = [access |-> a, hit |-> h, due |-> d - 1]
    BY <2>1 DEF Later
  <2> QED
    BY <2>2 DEF a, h, d
<1>2. Later(e) = [access |-> e.access, hit |-> e.hit, due |-> e.due - 1]
  BY <1>1
<1>3. Later(e).access = e.access /\ Later(e).hit = e.hit /\ Later(e).due = e.due - 1
  BY <1>2
<1>4. e.hit \in BOOLEAN /\ e.due \in Int /\ e.due <= CacheLatency
  BY DEF Answer
<1>5. e.due - 1 \in Int /\ e.due - 1 <= CacheLatency /\ e.due - 1 # CacheLatency
  BY <1>0, <1>4
<1>6. Answer(Later(e))
  BY <1>2, <1>3, <1>4, <1>5 DEF Answer
<1>7. ASSUME NEW f, Answer(f), Later(f) = Later(e) PROVE f = e
  <2>1. Later(f) = [access |-> f.access, hit |-> f.hit, due |-> f.due - 1]
    BY <1>1, <1>7
  <2>2. Later(f).access = f.access /\ Later(f).hit = f.hit /\ Later(f).due = f.due - 1
    BY <2>1
  <2>3. f.access = e.access /\ f.hit = e.hit /\ f.due - 1 = e.due - 1
    BY <1>3, <1>7, <2>2
  <2>4. f.due \in Int
    BY <1>7 DEF Answer
  <2>5. f.due = e.due
    BY <1>4, <2>3, <2>4
  <2> QED
    BY <1>7, <2>3, <2>5 DEF Answer
<1> QED
  BY <1>3, <1>5, <1>6, <1>7

\* As many answers after the cycle as before it.
LEMMA SameAnswersLater ==
    ASSUME NEW E, IsFiniteSet(E), \A e \in E : Answer(e)
    PROVE  IsFiniteSet(AgedEvents(E)) /\ Cardinality(AgedEvents(E)) = Cardinality(E)
<1> DEFINE f == [e \in E |-> Later(e)]
           F == AgedEvents(E)
<1>1. F = {Later(e) : e \in E}
  BY DEF AgedEvents, Later
<1>2. f \in [E -> F]
  BY <1>1
<1>3. \A x, y \in E : f[x] = f[y] => x = y
  BY LaterIsOther
<1>4. \A b \in F : \E a \in E : f[a] = b
  BY <1>1
<1> HIDE DEF f, F
<1>5. IsFiniteSet(F) /\ Cardinality(F) = Cardinality(E)
  BY <1>2, <1>3, <1>4, SameSize
<1> QED
  BY <1>5 DEF F

\* And as many of them are hits.
LEMMA SameHitsLater ==
    ASSUME NEW E, IsFiniteSet(E), \A e \in E : Answer(e)
    PROVE  Cardinality(HitsIn(AgedEvents(E))) = Cardinality(HitsIn(E))
<1>1. AgedEvents(E) = {Later(e) : e \in E} /\ AgedEvents(HitsIn(E)) = {Later(e) : e \in HitsIn(E)}
  BY DEF AgedEvents, Later
<1>2. \A e \in E : Later(e).hit = e.hit
  BY LaterIsOther
<1>3. HitsIn(AgedEvents(E)) = AgedEvents(HitsIn(E))
  BY <1>1, <1>2 DEF HitsIn
<1>4. IsFiniteSet(HitsIn(E)) /\ \A e \in HitsIn(E) : Answer(e)
  BY HitsFinite DEF HitsIn
<1> DEFINE H == HitsIn(E)
<1> HIDE DEF H
<1>5. Cardinality(AgedEvents(H)) = Cardinality(H)
  BY <1>4, SameAnswersLater DEF H
<1> QED
  BY <1>3, <1>5 DEF H

-----------------------------------------------------------------------------
(* The invariant is kept.                                                  *)

\* The terms of ICacheCreditsConserved are numbers.
LEMMA CreditTerms ==
    ASSUME SeqInv, EventInv
    PROVE  /\ Len(to_icache) \in Nat /\ Len(fetch_req_queue_) \in Nat
           /\ Len(pending_miss_buffer_) \in Nat /\ Len(replay_buffer_) \in Nat
           /\ Cardinality(HitsIn(ev_respond_)) \in Nat /\ Cardinality(ev_replay_ready_) \in Nat
           /\ CacheLatency \in Nat /\ ICacheQueueSize \in Nat
<1>1. /\ Len(to_icache) \in Nat /\ Len(fetch_req_queue_) \in Nat
      /\ Len(pending_miss_buffer_) \in Nat /\ Len(replay_buffer_) \in Nat
  BY LenProperties DEF SeqInv, IsSequence
<1>2. Cardinality(HitsIn(ev_respond_)) \in Nat /\ Cardinality(ev_replay_ready_) \in Nat
  BY HitsFinite DEF EventInv
<1> QED
  BY <1>1, <1>2, ICacheAssumption

\* The credits of ICache in the form that the proofs add up.
LEMMA CreditSum ==
    ICacheCreditsConserved <=>
    credits_icache_ + Len(to_icache) + Len(fetch_req_queue_) + Len(pending_miss_buffer_)
        + Len(replay_buffer_) + Cardinality(HitsIn(ev_respond_)) + Cardinality(ev_replay_ready_)
        = ICacheQueueSize
  BY DEF ICacheCreditsConserved, HitsIn

watchedEvents == <<ev_respond_, ev_replay_ready_, ev_arbitrate_>>
watched == <<to_icache, fetch_req_queue_, replay_buffer_, pending_miss_buffer_, miss_queue_, at_l2,
             l2cache_resp_queue_, credits_icache_, watchedEvents, phase>>

\* Steps of the other components.
LEMMA UnwatchedPreserves == ASSUME IInv, UNCHANGED watched PROVE IInv'
<1> USE DEF watched, watchedEvents
<1>1. SeqInv' /\ FillInv'
  BY DEF IInv, SeqInv, FillInv
<1>2. EventInv'
  BY DEF IInv, EventInv
<1>3. PortInv' /\ CreditInv'
  BY DEF IInv, PortInv, CreditInv, ICacheCreditsConserved
<1> QED
  BY <1>1, <1>2, <1>3 DEF IInv

\* A request arrives at ICache.
LEMMA DeliverToICachePreserves == ASSUME IInv, DeliverToICache PROVE IInv'
<1> DEFINE x == Head(to_icache)
<1>1. /\ phase = "port" /\ to_icache # << >> /\ to_icache' = Tail(to_icache)
      /\ fetch_req_queue_' = Append(fetch_req_queue_, x)
      /\ ev_arbitrate_' = ev_arbitrate_ \cup {0}
      /\ UNCHANGED <<phase, replay_buffer_, pending_miss_buffer_, miss_queue_, at_l2,
                     l2cache_resp_queue_, credits_icache_, ev_respond_, ev_replay_ready_>>
  BY DEF DeliverToICache, getRequestFromFetch, icacheEvents
<1>2. IsSequence(to_icache) /\ IsSequence(fetch_req_queue_)
  BY DEF IInv, SeqInv
<1>3. IsSequence(to_icache') /\ Len(to_icache') \in Nat /\ Len(to_icache) = Len(to_icache') + 1
  BY <1>1, <1>2, TailIsSequence
<1>4. IsSequence(fetch_req_queue_') /\ Len(fetch_req_queue_') = Len(fetch_req_queue_) + 1
  BY <1>1, <1>2, AppendIsSequence
<1>5. SeqInv' /\ FillInv' /\ PortInv'
  BY <1>1, <1>3, <1>4 DEF IInv, SeqInv, FillInv, PortInv
<1>6. EventInv'
  BY <1>1 DEF IInv, EventInv
<1>7. CreditInv'
  <2>1. /\ credits_icache_ + Len(to_icache) + Len(fetch_req_queue_) + Len(pending_miss_buffer_)
           + Len(replay_buffer_) + Cardinality(HitsIn(ev_respond_)) + Cardinality(ev_replay_ready_)
           = ICacheQueueSize
        /\ credits_icache_ \in Nat
    BY CreditSum DEF IInv, CreditInv
  <2>2. /\ Len(fetch_req_queue_) \in Nat
        /\ Len(pending_miss_buffer_) \in Nat /\ Len(replay_buffer_) \in Nat
        /\ Cardinality(HitsIn(ev_respond_)) \in Nat /\ Cardinality(ev_replay_ready_) \in Nat
    BY CreditTerms DEF IInv
  <2>3. credits_icache_ + Len(to_icache') + Len(fetch_req_queue_') + Len(pending_miss_buffer_)
           + Len(replay_buffer_) + Cardinality(HitsIn(ev_respond_)) + Cardinality(ev_replay_ready_)
           = ICacheQueueSize
    BY <1>3, <1>4, <2>1, <2>2
  <2> QED
    BY <1>1, <2>1, <2>3 DEF CreditInv, ICacheCreditsConserved, HitsIn
<1> QED
  BY <1>5, <1>6, <1>7 DEF IInv

\* The L2 cache fills a line.
LEMMA L2FillsPreserves == ASSUME IInv, L2Fills PROVE IInv'
<1>1. PICK k \in DOMAIN at_l2 : getRespFromL2Cache(k)
  BY DEF L2Fills
<1>2. /\ phase = "port" /\ l2cache_resp_queue_' = Append(l2cache_resp_queue_, at_l2[k])
      /\ at_l2' = RemoveAt(at_l2, k) /\ ev_arbitrate_' = ev_arbitrate_ \cup {0}
      /\ UNCHANGED <<phase, fetch_req_queue_, replay_buffer_, pending_miss_buffer_, miss_queue_,
                     ev_respond_, ev_replay_ready_, credits_icache_, to_icache>>
  BY <1>1 DEF L2Fills, getRespFromL2Cache, icacheEvents, fetchVars
<1>3. /\ IsSequence(at_l2) /\ IsSequence(l2cache_resp_queue_)
      /\ Partitions(miss_queue_, at_l2, l2cache_resp_queue_, LinesOf(pending_miss_buffer_))
  BY DEF IInv, SeqInv, FillInv
<1>4. /\ IsSequence(at_l2') /\ IsSequence(l2cache_resp_queue_')
      /\ Partitions(miss_queue_, at_l2', l2cache_resp_queue_', LinesOf(pending_miss_buffer_))
  BY <1>2, <1>3, LineComes
<1>5. SeqInv' /\ FillInv' /\ PortInv'
  BY <1>2, <1>4 DEF IInv, SeqInv, FillInv, PortInv
<1>6. EventInv'
  BY <1>2 DEF IInv, EventInv
<1>7. CreditInv'
  BY <1>2 DEF IInv, CreditInv, ICacheCreditsConserved
<1> QED
  BY <1>5, <1>6, <1>7 DEF IInv

\* A flush finds Fetch's port empty.
LEMMA FlushKeepsRequests == ASSUME IInv, Flush PROVE IInv'
<1>1. /\ phase = "flush" /\ phase' = "rename" /\ to_icache' = << >>
      /\ UNCHANGED <<fetch_req_queue_, replay_buffer_, pending_miss_buffer_, miss_queue_, at_l2,
                     l2cache_resp_queue_, credits_icache_, watchedEvents>>
  BY DEF Flush, flushFetch, icacheVars, icacheQueues, icacheEvents, watchedEvents
<1>2. to_icache = << >>
  BY <1>1 DEF IInv, PortInv
<1>3. SeqInv' /\ FillInv'
  BY <1>1, <1>2 DEF IInv, SeqInv, FillInv
<1>4. EventInv'
  BY <1>1 DEF IInv, EventInv, watchedEvents
<1>5. PortInv'
  BY <1>1 DEF IInv, PortInv, NextOf
<1>6. CreditInv'
  BY <1>1, <1>2 DEF IInv, CreditInv, ICacheCreditsConserved, watchedEvents
<1> QED
  BY <1>3, <1>4, <1>5, <1>6 DEF IInv

\* Rename returns credits.
LEMMA RenameReturnsCreditsPreserves == ASSUME IInv, RenameReturnsCredits PROVE IInv'
<1>1. /\ phase = "rename" /\ phase' = "decode"
      /\ UNCHANGED <<to_icache, fetch_req_queue_, replay_buffer_, pending_miss_buffer_, miss_queue_,
                     at_l2, l2cache_resp_queue_, credits_icache_, watchedEvents>>
  BY DEF RenameReturnsCredits, fetchVars, icacheVars, icacheQueues, icacheEvents, watchedEvents
<1>3. SeqInv' /\ FillInv'
  BY <1>1 DEF IInv, SeqInv, FillInv
<1>4. EventInv'
  BY <1>1 DEF IInv, EventInv, watchedEvents
<1>5. PortInv'
  BY <1>1 DEF IInv, PortInv, NextOf
<1>6. CreditInv'
  BY <1>1 DEF IInv, CreditInv, ICacheCreditsConserved, watchedEvents
<1> QED
  BY <1>3, <1>4, <1>5, <1>6 DEF IInv

\* A waiting line is sent.
LEMMA ICacheRequestsLinePreserves == ASSUME IInv, ICacheRequestsLine PROVE IInv'
<1>1. /\ makeL2CacheRequest(miss_queue_, ev_l2cache_request_ \ {0})
      /\ UNCHANGED <<to_icache, fetch_req_queue_, replay_buffer_, pending_miss_buffer_,
                     l2cache_resp_queue_, credits_icache_, watchedEvents, phase>>
  BY DEF ICacheRequestsLine, requestLine, fetchVars, icacheQueues, icacheEvents, watchedEvents
<1>2. /\ IsSequence(miss_queue_) /\ IsSequence(at_l2)
      /\ Partitions(miss_queue_, at_l2, l2cache_resp_queue_, LinesOf(pending_miss_buffer_))
  BY DEF IInv, SeqInv, FillInv
<1>3. /\ IsSequence(miss_queue_') /\ IsSequence(at_l2')
      /\ Partitions(miss_queue_', at_l2', l2cache_resp_queue_, LinesOf(pending_miss_buffer_))
  BY <1>1, <1>2, RequestMoves
<1>4. SeqInv' /\ FillInv' /\ PortInv'
  BY <1>1, <1>3 DEF IInv, SeqInv, FillInv, PortInv
<1>5. EventInv'
  BY <1>1 DEF IInv, EventInv, watchedEvents
<1>6. CreditInv'
  BY <1>1 DEF IInv, CreditInv, ICacheCreditsConserved, watchedEvents
<1> QED
  BY <1>4, <1>5, <1>6 DEF IInv

\* An answer leaves ICache, and the credit of its request with it.
LEMMA ICacheRespondsPreserves == ASSUME IInv, ICacheResponds PROVE IInv'
<1> DEFINE R == ev_respond_
           P == ev_replay_ready_
<1>1. PICK e \in DueResponses :
         /\ answered(e)
         /\ IF CreditOf(e) > 0 THEN receiveCacheCredit(CreditOf(e)) ELSE UNCHANGED fetchVars
  BY DEF ICacheResponds
<1>2. /\ e \in R \cup P /\ phase = "icache"
      /\ ev_respond_' = R \ {e} /\ ev_replay_ready_' = P \ {e}
      /\ UNCHANGED <<phase, fetch_req_queue_, replay_buffer_, pending_miss_buffer_, miss_queue_,
                     at_l2, l2cache_resp_queue_, ev_arbitrate_>>
  BY <1>1 DEF ICacheResponds, DueResponses, answered, icacheQueues
<1>3. /\ IsFiniteSet(R) /\ IsFiniteSet(P) /\ R \cap P = {} /\ e.hit \in BOOLEAN
      /\ e \in P => e.hit
  BY <1>2 DEF IInv, EventInv, Answer
<1>4. to_icache' = to_icache /\ credits_icache_ \in Nat
      /\ credits_icache_' = credits_icache_ + (IF e.hit THEN 1 ELSE 0)
  <2>1. CASE e.hit
    <3>1. receiveCacheCredit(1)
      BY <1>1, <2>1 DEF CreditOf
    <3> QED
      BY <2>1, <3>1 DEF receiveCacheCredit, IInv, CreditInv
  <2>2. CASE ~e.hit
    <3>1. UNCHANGED fetchVars
      BY <1>1, <2>2 DEF CreditOf
    <3> QED
      BY <2>2, <3>1 DEF fetchVars, IInv, CreditInv
  <2> QED
    BY <2>1, <2>2
<1>5. SeqInv' /\ FillInv' /\ PortInv'
  BY <1>2, <1>4 DEF IInv, SeqInv, FillInv, PortInv
<1>6. IsFiniteSet(R \ {e}) /\ IsFiniteSet(P \ {e})
  BY <1>3, FS_RemoveElement
<1>7. EventInv'
  BY <1>2, <1>3, <1>6 DEF IInv, EventInv
<1>8. Cardinality(HitsIn(R)) + Cardinality(P) =
         Cardinality(HitsIn(R \ {e})) + Cardinality(P \ {e}) + (IF e.hit THEN 1 ELSE 0)
  <2>1. /\ Cardinality(HitsIn(R \ {e})) \in Nat /\ Cardinality(P \ {e}) \in Nat
        /\ Cardinality(HitsIn(R)) \in Nat /\ Cardinality(P) \in Nat
    BY <1>3, <1>6, HitsFinite
  <2>2. CASE e \in R
    <3>1. P \ {e} = P
      BY <1>3, <2>2
    <3>2. Cardinality(HitsIn(R)) = Cardinality(HitsIn(R \ {e})) + (IF e.hit THEN 1 ELSE 0)
      BY <1>3, <2>2, AnswerRemoved
    <3> HIDE DEF R, P
    <3> QED
      BY <2>1, <3>1, <3>2
  <2>3. CASE e \in P
    <3>1. R \ {e} = R /\ e.hit
      BY <1>3, <2>3
    <3>2. Cardinality(P) = Cardinality(P \ {e}) + 1
      BY <1>3, <2>3, AnswerRemoved
    <3> HIDE DEF R, P
    <3> QED
      BY <2>1, <3>1, <3>2
  <2> QED
    BY <1>2, <2>2, <2>3
<1>9. CreditInv'
  <2>1. credits_icache_ + Len(to_icache) + Len(fetch_req_queue_) + Len(pending_miss_buffer_)
           + Len(replay_buffer_) + Cardinality(HitsIn(R)) + Cardinality(P) = ICacheQueueSize
    BY CreditSum DEF IInv, CreditInv
  <2>2. /\ Len(to_icache) \in Nat /\ Len(fetch_req_queue_) \in Nat
        /\ Len(pending_miss_buffer_) \in Nat /\ Len(replay_buffer_) \in Nat
        /\ Cardinality(HitsIn(R)) \in Nat /\ Cardinality(P) \in Nat
        /\ Cardinality(HitsIn(R \ {e})) \in Nat /\ Cardinality(P \ {e}) \in Nat
    BY <1>6, CreditTerms, HitsFinite DEF IInv
  <2> DEFINE b == IF e.hit THEN 1 ELSE 0
  <2>3. b \in Nat
    OBVIOUS
  <2>4. Cardinality(HitsIn(R)) + Cardinality(P) =
           Cardinality(HitsIn(R \ {e})) + Cardinality(P \ {e}) + b
    BY <1>8
  <2>5. credits_icache_' = credits_icache_ + b /\ credits_icache_ \in Nat
    BY <1>4
  <2> HIDE DEF R, P, b
  <2>6. credits_icache_' + Len(to_icache) + Len(fetch_req_queue_) + Len(pending_miss_buffer_)
           + Len(replay_buffer_) + Cardinality(HitsIn(R \ {e})) + Cardinality(P \ {e})
           = ICacheQueueSize
    BY <2>1, <2>2, <2>3, <2>4, <2>5, SMTT(30)
  <2>7. credits_icache_' \in Nat
    BY <1>4, <2>3, <2>5
  <2> QED
    BY <1>2, <1>4, <2>6, <2>7 DEF CreditInv, ICacheCreditsConserved, HitsIn, R, P
<1> QED
  BY <1>5, <1>7, <1>9 DEF IInv

\* Fetch spends a credit on a request.
LEMMA FetchEventPreserves == ASSUME IInv, FetchEvent PROVE IInv'
<1>1. /\ phase = "fetch" /\ (fetchInstruction \/ sendInstructions)
      /\ UNCHANGED <<fetch_req_queue_, replay_buffer_, pending_miss_buffer_, miss_queue_, at_l2,
                     l2cache_resp_queue_, watchedEvents, phase>>
  BY DEF FetchEvent, icacheVars, icacheQueues, icacheEvents, watchedEvents
<1>2. CASE to_icache' = to_icache /\ credits_icache_' = credits_icache_
  BY <1>1, <1>2, UnwatchedPreserves DEF watched
<1>3. CASE /\ \E x : to_icache' = Append(to_icache, x)
           /\ credits_icache_ # 0 /\ credits_icache_' = credits_icache_ - 1
  <2>1. PICK x : to_icache' = Append(to_icache, x)
    BY <1>3
  <2>2. IsSequence(to_icache') /\ Len(to_icache') = Len(to_icache) + 1
    BY <2>1, AppendIsSequence DEF IInv, SeqInv
  <2>3. SeqInv' /\ FillInv' /\ PortInv'
    BY <1>1, <2>2 DEF IInv, SeqInv, FillInv, PortInv
  <2>4. EventInv'
    BY <1>1 DEF IInv, EventInv, watchedEvents
  <2>5. CreditInv'
    <3>1. /\ credits_icache_ + Len(to_icache) + Len(fetch_req_queue_) + Len(pending_miss_buffer_)
             + Len(replay_buffer_) + Cardinality(HitsIn(ev_respond_))
             + Cardinality(ev_replay_ready_) = ICacheQueueSize
          /\ credits_icache_ \in Nat
      BY CreditSum DEF IInv, CreditInv
    <3>2. /\ Len(to_icache) \in Nat /\ Len(fetch_req_queue_) \in Nat
          /\ Len(pending_miss_buffer_) \in Nat /\ Len(replay_buffer_) \in Nat
          /\ Cardinality(HitsIn(ev_respond_)) \in Nat /\ Cardinality(ev_replay_ready_) \in Nat
      BY CreditTerms DEF IInv
    <3>3. /\ credits_icache_' + Len(to_icache') + Len(fetch_req_queue_)
             + Len(pending_miss_buffer_) + Len(replay_buffer_) + Cardinality(HitsIn(ev_respond_))
             + Cardinality(ev_replay_ready_) = ICacheQueueSize
          /\ credits_icache_' \in Nat
      BY <1>3, <2>2, <3>1, <3>2
    <3> QED
      BY <1>1, <3>3 DEF CreditInv, ICacheCreditsConserved, HitsIn, watchedEvents
  <2> QED
    BY <2>3, <2>4, <2>5 DEF IInv
<1>4. CASE fetchInstruction
  BY <1>2, <1>3, <1>4 DEF fetchInstruction
<1>5. CASE sendInstructions
  BY <1>2, <1>5 DEF sendInstructions
<1> QED
  BY <1>1, <1>4, <1>5

\* The clock: answers age, and none is new any more.
LEMMA NextPhasePreserves == ASSUME IInv, nextPhase PROVE IInv'
<1>1. /\ PhaseDone /\ phase' = NextOf[phase] /\ phase \in DOMAIN NextOf
      /\ UNCHANGED <<to_icache, fetch_req_queue_, replay_buffer_, pending_miss_buffer_, miss_queue_,
                     at_l2, l2cache_resp_queue_, credits_icache_>>
  BY DEF nextPhase, icacheQueues, IInv, PortInv
<1>2. SeqInv' /\ FillInv'
  BY <1>1 DEF IInv, SeqInv, FillInv
<1>3. PortInv'
  <2>1. phase' \in DOMAIN NextOf
    BY <1>1 DEF NextOf
  <2>2. ASSUME to_icache' # << >> PROVE phase' \in {"fetch", "port"}
    <3>1. phase = "fetch"
      BY <1>1, <2>2 DEF IInv, PortInv, PhaseDone
    <3> QED
      BY <1>1, <3>1 DEF NextOf
  <2> QED
    BY <2>1, <2>2 DEF PortInv
<1>4. CASE phase # "fetch"
  <2>1. UNCHANGED watchedEvents
    BY <1>4 DEF nextPhase, icacheEvents, watchedEvents
  <2>2. phase = "icache" => phase' \in {"icache", "fetch"}
    BY <1>1 DEF NextOf
  <2>3. EventInv'
    BY <1>4, <2>1, <2>2 DEF IInv, EventInv, watchedEvents
  <2>4. CreditInv'
    BY <1>1, <2>1 DEF IInv, CreditInv, ICacheCreditsConserved, watchedEvents
  <2> QED
    BY <1>2, <1>3, <2>3, <2>4 DEF IInv
<1>5. CASE phase = "fetch"
  <2> DEFINE R == ev_respond_
             P == ev_replay_ready_
  <2>1. ev_respond_' = AgedEvents(R) /\ ev_replay_ready_' = AgedEvents(P)
    BY <1>5 DEF nextPhase
  <2>2. /\ IsFiniteSet(R) /\ IsFiniteSet(P) /\ R \cap P = {}
        /\ \A e \in R \cup P : Answer(e)
        /\ \A e \in P : e.hit
    BY DEF IInv, EventInv
  <2> HIDE DEF R, P
  <2>3. AgedEvents(R) = {Later(e) : e \in R} /\ AgedEvents(P) = {Later(e) : e \in P}
    BY DEF AgedEvents, Later
  <2>4. /\ IsFiniteSet(AgedEvents(R)) /\ Cardinality(HitsIn(AgedEvents(R))) = Cardinality(HitsIn(R))
    BY <2>2, SameAnswersLater, SameHitsLater
  <2>5. /\ IsFiniteSet(AgedEvents(P)) /\ Cardinality(AgedEvents(P)) = Cardinality(P)
    BY <2>2, SameAnswersLater
  <2>6. AgedEvents(R) \cap AgedEvents(P) = {}
    <3> SUFFICES ASSUME NEW e \in R, NEW f \in P, Later(e) = Later(f) PROVE FALSE
      BY <2>3
    <3>1. e = f
      BY <2>2, LaterIsOther
    <3> QED
      BY <2>2, <3>1
  <2>7. \A x \in AgedEvents(R) \cup AgedEvents(P) : Answer(x) /\ x.due # CacheLatency
    BY <2>2, <2>3, LaterIsOther
  <2>8. \A x \in AgedEvents(P) : x.hit
    BY <2>2, <2>3, LaterIsOther
  <2>9. EventInv'
    BY <2>1, <2>4, <2>5, <2>6, <2>7, <2>8 DEF EventInv
  <2>10. CreditInv'
    <3>1. /\ credits_icache_ + Len(to_icache) + Len(fetch_req_queue_) + Len(pending_miss_buffer_)
             + Len(replay_buffer_) + Cardinality(HitsIn(R)) + Cardinality(P) = ICacheQueueSize
          /\ credits_icache_ \in Nat
      BY CreditSum DEF IInv, CreditInv, R, P
    <3> QED
      BY <1>1, <2>1, <2>4, <2>5, <3>1 DEF CreditInv, ICacheCreditsConserved, HitsIn
  <2> QED
    BY <1>2, <1>3, <2>9, <2>10 DEF IInv
<1> QED
  BY <1>4, <1>5

\* The fill of an arbitration: what is left of the responses, what is to be replayed
\* and what still waits.
Resps == IF l2cache_resp_queue_ # << >> THEN Tail(l2cache_resp_queue_) ELSE << >>
Replays == IF l2cache_resp_queue_ # << >>
           THEN replay_buffer_ \o ToReplay(Head(l2cache_resp_queue_)) ELSE replay_buffer_
Pending == IF l2cache_resp_queue_ # << >>
           THEN OtherLine(Head(l2cache_resp_queue_), pending_miss_buffer_)
           ELSE pending_miss_buffer_

\* The fill moves every miss on the line to the replays, and no other.
LEMMA FillMoves ==
    ASSUME SeqInv, FillInv
    PROVE  /\ IsSequence(Resps) /\ IsSequence(Replays) /\ IsSequence(Pending)
           /\ Partitions(miss_queue_, at_l2, Resps, LinesOf(Pending))
           /\ Len(Replays) \in Nat /\ Len(Pending) \in Nat
           /\ Len(Replays) + Len(Pending) = Len(replay_buffer_) + Len(pending_miss_buffer_)
<1>1. /\ IsSequence(l2cache_resp_queue_) /\ IsSequence(replay_buffer_)
      /\ IsSequence(pending_miss_buffer_)
      /\ Partitions(miss_queue_, at_l2, l2cache_resp_queue_, LinesOf(pending_miss_buffer_))
  BY DEF SeqInv, FillInv
<1>2. Len(replay_buffer_) \in Nat /\ Len(pending_miss_buffer_) \in Nat
  BY <1>1, LenProperties DEF IsSequence
<1>3. CASE l2cache_resp_queue_ = << >>
  <2>1. /\ Resps = l2cache_resp_queue_ /\ Replays = replay_buffer_
        /\ Pending = pending_miss_buffer_
    BY <1>3 DEF Resps, Replays, Pending
  <2> QED
    BY <1>1, <1>2, <2>1
<1>4. CASE l2cache_resp_queue_ # << >>
  <2> DEFINE line == Head(l2cache_resp_queue_)
             p == pending_miss_buffer_
  <2>1. /\ Resps = Tail(l2cache_resp_queue_) /\ Replays = replay_buffer_ \o SameLine(line, p)
        /\ Pending = OtherLine(line, p)
    BY <1>4 DEF Resps, Replays, Pending, ToReplay
  <2>2. /\ IsSequence(Tail(l2cache_resp_queue_))
        /\ Partitions(miss_queue_, at_l2, Tail(l2cache_resp_queue_), LinesOf(p) \ {line})
    BY <1>1, <1>4, LineDone
  <2> HIDE DEF line, p
  <2>3. /\ IsSequence(SameLine(line, p)) /\ IsSequence(OtherLine(line, p))
        /\ Len(SameLine(line, p)) \in Nat /\ Len(OtherLine(line, p)) \in Nat
        /\ Len(SameLine(line, p)) + Len(OtherLine(line, p)) = Len(p)
        /\ LinesOf(OtherLine(line, p)) = LinesOf(p) \ {line}
    BY <1>1, SplitByLine DEF p
  <2>4. /\ IsSequence(replay_buffer_ \o SameLine(line, p))
        /\ Len(replay_buffer_ \o SameLine(line, p)) = Len(replay_buffer_) + Len(SameLine(line, p))
    BY <1>1, <2>3, DistinctConcat
  <2>5. /\ Len(Replays) = Len(replay_buffer_) + Len(SameLine(line, p))
        /\ Len(Pending) = Len(OtherLine(line, p))
    BY <2>1, <2>4
  <2>6. /\ Len(Replays) \in Nat /\ Len(Pending) \in Nat
        /\ Len(Replays) + Len(Pending) = Len(replay_buffer_) + Len(p)
    BY <1>2, <2>3, <2>5
  <2> QED
    BY <2>1, <2>2, <2>3, <2>4, <2>6 DEF p
<1> QED
  BY <1>3, <1>4

\* The rest of an arbitration: a replay, a lookup or nothing.
Arbitrated ==
    /\ phase = "icache" /\ 0 \in ev_arbitrate_ /\ 0 \notin ev_arbitrate_'
    /\ l2cache_resp_queue_' = Resps
    /\ UNCHANGED <<phase, to_icache, credits_icache_>>

ArbitratesReplay ==
    /\ Replays # << >>
    /\ ev_replay_ready_' = ev_replay_ready_ \cup
           {[access |-> Head(Replays), hit |-> TRUE, due |-> CacheLatency]}
    /\ replay_buffer_' = Tail(Replays) /\ pending_miss_buffer_' = Pending
    /\ UNCHANGED <<fetch_req_queue_, ev_respond_, miss_queue_, at_l2>>

ArbitratesLookup(hit) ==
    LET access == Head(fetch_req_queue_)
    IN  /\ Replays = << >> /\ fetch_req_queue_ # << >>
        /\ ev_respond_' = ev_respond_ \cup
               {[access |-> access, hit |-> hit, due |-> CacheLatency]}
        /\ fetch_req_queue_' = Tail(fetch_req_queue_)
        /\ pending_miss_buffer_' = IF hit THEN Pending ELSE Append(Pending, access)
        /\ IF ~hit /\ NewMiss(access, Pending)
           THEN makeL2CacheRequest(Append(miss_queue_, access.line), ev_l2cache_request_)
           ELSE UNCHANGED <<miss_queue_, at_l2>>
        /\ replay_buffer_' = << >>
        /\ UNCHANGED ev_replay_ready_

ArbitratesNothing ==
    /\ Replays = << >>
    /\ replay_buffer_' = << >> /\ pending_miss_buffer_' = Pending
    /\ UNCHANGED <<fetch_req_queue_, ev_respond_, ev_replay_ready_, miss_queue_, at_l2>>

\* These are the steps of doArbitration.
LEMMA ArbitrationSteps ==
    ASSUME ICacheArbitrates
    PROVE  /\ Arbitrated
           /\ ArbitratesReplay \/ (\E hit \in BOOLEAN : ArbitratesLookup(hit)) \/ ArbitratesNothing
<1>1. Arbitrated
  BY DEF ICacheArbitrates, doArbitration, Arbitrated, Resps, fetchVars
<1> DEFINE hit == L1AlwaysHit \/ Head(fetch_req_queue_).line \in l1_cache_'
<1>2. hit \in BOOLEAN
  BY ICacheAssumption
<1>3. ArbitratesReplay \/ ArbitratesLookup(hit) \/ ArbitratesNothing
  BY DEF ICacheArbitrates, doArbitration, Replays, Pending, ArbitratesReplay, ArbitratesLookup,
         ArbitratesNothing, icacheEvents
<1> QED
  BY <1>1, <1>2, <1>3

\* What an arbitration schedules is not scheduled yet.
LEMMA AnswerIsNew ==
    ASSUME IInv, Arbitrated, NEW a, NEW h \in BOOLEAN
    PROVE  LET e == [access |-> a, hit |-> h, due |-> CacheLatency]
           IN  /\ e \notin ev_respond_ \cup ev_replay_ready_
               /\ Answer(e) /\ e.hit = h
               /\ phase' = "icache" /\ 0 \notin ev_arbitrate_'
<1> DEFINE e == [access |-> a, hit |-> h, due |-> CacheLatency]
<1>1. e.access = a /\ e.hit = h /\ e.due = CacheLatency /\ CacheLatency \in Nat
  BY ICacheAssumption
<1>2. Answer(e)
  BY <1>1 DEF Answer
<1>3. e \notin ev_respond_ \cup ev_replay_ready_
  BY <1>1 DEF IInv, EventInv, Arbitrated
<1> QED
  BY <1>1, <1>2, <1>3 DEF Arbitrated

\* Sums with equal parts are equal.
LEMMA SameSum ==
    ASSUME NEW c \in Nat, NEW t \in Nat, NEW n,
           NEW q \in Nat, NEW p \in Nat, NEW r \in Nat, NEW h \in Nat, NEW v \in Nat,
           NEW q1 \in Nat, NEW p1 \in Nat, NEW r1 \in Nat, NEW h1 \in Nat, NEW v1 \in Nat,
           c + t + q + p + r + h + v = n, q1 + p1 + r1 + h1 + v1 = q + p + r + h + v
    PROVE  c + t + q1 + p1 + r1 + h1 + v1 = n
  OBVIOUS

\* The sum of the credits after an arbitration, from its terms.
LEMMA SumAfter ==
    ASSUME IInv, Arbitrated,
           Len(fetch_req_queue_') \in Nat, Len(pending_miss_buffer_') \in Nat,
           Len(replay_buffer_') \in Nat, Cardinality(HitsIn(ev_respond_')) \in Nat,
           Cardinality(ev_replay_ready_') \in Nat,
           Len(fetch_req_queue_') + Len(pending_miss_buffer_') + Len(replay_buffer_')
             + Cardinality(HitsIn(ev_respond_')) + Cardinality(ev_replay_ready_') =
           Len(fetch_req_queue_) + Len(pending_miss_buffer_) + Len(replay_buffer_)
             + Cardinality(HitsIn(ev_respond_)) + Cardinality(ev_replay_ready_)
    PROVE  CreditInv'
<1>1. /\ credits_icache_ + Len(to_icache) + Len(fetch_req_queue_) + Len(pending_miss_buffer_)
         + Len(replay_buffer_) + Cardinality(HitsIn(ev_respond_)) + Cardinality(ev_replay_ready_)
         = ICacheQueueSize
      /\ credits_icache_ \in Nat
  BY CreditSum DEF IInv, CreditInv
<1>2. /\ Len(to_icache) \in Nat /\ Len(fetch_req_queue_) \in Nat
      /\ Len(pending_miss_buffer_) \in Nat /\ Len(replay_buffer_) \in Nat
      /\ Cardinality(HitsIn(ev_respond_)) \in Nat /\ Cardinality(ev_replay_ready_) \in Nat
  BY CreditTerms DEF IInv
<1>3. credits_icache_ + Len(to_icache) + Len(fetch_req_queue_') + Len(pending_miss_buffer_')
         + Len(replay_buffer_') + Cardinality(HitsIn(ev_respond_'))
         + Cardinality(ev_replay_ready_') = ICacheQueueSize
  <2> DEFINE q == Len(fetch_req_queue_)
             p == Len(pending_miss_buffer_)
             r == Len(replay_buffer_)
             h == Cardinality(HitsIn(ev_respond_))
             v == Cardinality(ev_replay_ready_)
             q1 == Len(fetch_req_queue_')
             p1 == Len(pending_miss_buffer_')
             r1 == Len(replay_buffer_')
             h1 == Cardinality(HitsIn(ev_respond_'))
             v1 == Cardinality(ev_replay_ready_')
             c == credits_icache_
             t == Len(to_icache)
  <2>1. /\ c \in Nat /\ t \in Nat /\ q \in Nat /\ p \in Nat /\ r \in Nat /\ h \in Nat /\ v \in Nat
        /\ q1 \in Nat /\ p1 \in Nat /\ r1 \in Nat /\ h1 \in Nat /\ v1 \in Nat
        /\ c + t + q + p + r + h + v = ICacheQueueSize
        /\ q1 + p1 + r1 + h1 + v1 = q + p + r + h + v
    BY <1>1, <1>2, Zenon
  <2> HIDE DEF q, p, r, h, v, q1, p1, r1, h1, v1, c, t
  <2>2. c + t + q1 + p1 + r1 + h1 + v1 = ICacheQueueSize
    BY <2>1, SameSum
  <2> QED
    BY <2>2 DEF q1, p1, r1, h1, v1, c, t
<1> QED
  BY <1>1, <1>3 DEF Arbitrated, CreditInv, ICacheCreditsConserved, HitsIn

\* A replay leaves the replay buffer with the credit of its request.
LEMMA ReplayPreserves == ASSUME IInv, Arbitrated, ArbitratesReplay PROVE IInv'
<1> DEFINE e == [access |-> Head(Replays), hit |-> TRUE, due |-> CacheLatency]
<1>1. /\ IsSequence(Resps) /\ IsSequence(Replays) /\ IsSequence(Pending)
      /\ Partitions(miss_queue_, at_l2, Resps, LinesOf(Pending))
      /\ Len(Replays) \in Nat /\ Len(Pending) \in Nat
      /\ Len(Replays) + Len(Pending) = Len(replay_buffer_) + Len(pending_miss_buffer_)
  BY FillMoves DEF IInv
<1>2. /\ Replays # << >> /\ replay_buffer_' = Tail(Replays) /\ pending_miss_buffer_' = Pending
      /\ l2cache_resp_queue_' = Resps
      /\ ev_replay_ready_' = ev_replay_ready_ \cup {e}
      /\ UNCHANGED <<fetch_req_queue_, ev_respond_, miss_queue_, at_l2, to_icache, phase>>
  BY DEF ArbitratesReplay, Arbitrated
<1>3. /\ e \notin ev_respond_ \cup ev_replay_ready_ /\ Answer(e) /\ e.hit = TRUE
      /\ phase' = "icache" /\ 0 \notin ev_arbitrate_'
  BY AnswerIsNew
<1> HIDE DEF e
<1>4. /\ IsSequence(Tail(Replays)) /\ Len(Tail(Replays)) \in Nat
      /\ Len(Replays) = Len(Tail(Replays)) + 1
  BY <1>1, <1>2, TailIsSequence
<1>5. SeqInv' /\ FillInv' /\ PortInv'
  BY <1>1, <1>2, <1>4 DEF IInv, SeqInv, FillInv, PortInv
<1>6. /\ IsFiniteSet(ev_replay_ready_')
      /\ Cardinality(ev_replay_ready_') = Cardinality(ev_replay_ready_) + 1
  BY <1>2, <1>3, AnswerAdded DEF IInv, EventInv
<1>7. EventInv'
  BY <1>2, <1>3, <1>6 DEF IInv, EventInv
<1>8. CreditInv'
  <2>1. /\ Len(fetch_req_queue_) \in Nat
        /\ Len(pending_miss_buffer_) \in Nat /\ Len(replay_buffer_) \in Nat
        /\ Cardinality(HitsIn(ev_respond_)) \in Nat /\ Cardinality(ev_replay_ready_) \in Nat
    BY CreditTerms DEF IInv
  <2>2. /\ Len(fetch_req_queue_') = Len(fetch_req_queue_)
        /\ Len(pending_miss_buffer_') = Len(Pending) /\ Len(replay_buffer_') = Len(Tail(Replays))
        /\ Cardinality(HitsIn(ev_respond_')) = Cardinality(HitsIn(ev_respond_))
    BY <1>2
  <2>3. Len(fetch_req_queue_') + Len(pending_miss_buffer_') + Len(replay_buffer_')
             + Cardinality(HitsIn(ev_respond_')) + Cardinality(ev_replay_ready_') =
           Len(fetch_req_queue_) + Len(pending_miss_buffer_) + Len(replay_buffer_)
             + Cardinality(HitsIn(ev_respond_)) + Cardinality(ev_replay_ready_)
    <3>1. Len(Pending) + Len(Tail(Replays)) + 1 = Len(pending_miss_buffer_) + Len(replay_buffer_)
      BY <1>1, <1>4, <2>1
    <3> DEFINE q == Len(fetch_req_queue_)
               h == Cardinality(HitsIn(ev_respond_))
               v == Cardinality(ev_replay_ready_)
               p == Len(pending_miss_buffer_)
               r == Len(replay_buffer_)
               a == Len(Pending)
               b == Len(Tail(Replays))
    <3>2. /\ q \in Nat /\ h \in Nat /\ v \in Nat /\ p \in Nat /\ r \in Nat /\ a \in Nat /\ b \in Nat
          /\ a + b + 1 = p + r
      BY <1>1, <1>4, <2>1, <3>1
    <3>3. /\ Len(fetch_req_queue_') = q /\ Len(pending_miss_buffer_') = a /\ Len(replay_buffer_') = b
          /\ Cardinality(HitsIn(ev_respond_')) = h /\ Cardinality(ev_replay_ready_') = v + 1
      BY <1>6, <2>2
    <3> HIDE DEF q, h, v, p, r, a, b
    <3>4. q + a + b + h + (v + 1) = q + p + r + h + v
      BY <3>2
    <3> QED
      BY <3>3, <3>4, Zenon DEF q, h, v, p, r
  <2> QED
    BY <1>1, <1>4, <1>6, <2>1, <2>2, <2>3, SumAfter
<1> QED
  BY <1>5, <1>7, <1>8 DEF IInv

\* Only a fill.
LEMMA NothingPreserves == ASSUME IInv, Arbitrated, ArbitratesNothing PROVE IInv'
<1>1. /\ IsSequence(Resps) /\ IsSequence(Replays) /\ IsSequence(Pending)
      /\ Partitions(miss_queue_, at_l2, Resps, LinesOf(Pending))
      /\ Len(Replays) \in Nat /\ Len(Pending) \in Nat
      /\ Len(Replays) + Len(Pending) = Len(replay_buffer_) + Len(pending_miss_buffer_)
  BY FillMoves DEF IInv
<1>2. /\ Replays = << >> /\ replay_buffer_' = << >> /\ pending_miss_buffer_' = Pending
      /\ l2cache_resp_queue_' = Resps /\ phase = "icache" /\ 0 \notin ev_arbitrate_'
      /\ UNCHANGED <<fetch_req_queue_, ev_respond_, ev_replay_ready_, miss_queue_, at_l2,
                     to_icache, phase>>
  BY DEF ArbitratesNothing, Arbitrated
<1>3. SeqInv' /\ FillInv' /\ PortInv'
  BY <1>1, <1>2 DEF IInv, SeqInv, FillInv, PortInv
<1>4. EventInv'
  BY <1>2 DEF IInv, EventInv
<1>5. CreditInv'
  <2>1. /\ Len(fetch_req_queue_) \in Nat
        /\ Len(pending_miss_buffer_) \in Nat /\ Len(replay_buffer_) \in Nat
        /\ Cardinality(HitsIn(ev_respond_)) \in Nat /\ Cardinality(ev_replay_ready_) \in Nat
    BY CreditTerms DEF IInv
  <2>2. /\ Len(fetch_req_queue_') = Len(fetch_req_queue_)
        /\ Len(pending_miss_buffer_') = Len(Pending)
        /\ Len(replay_buffer_') = 0 /\ Len(Replays) = 0
        /\ HitsIn(ev_respond_') = HitsIn(ev_respond_) /\ ev_replay_ready_' = ev_replay_ready_
    BY <1>2, EmptyIsSequence
  <2>3. Len(fetch_req_queue_') + Len(pending_miss_buffer_') + Len(replay_buffer_')
             + Cardinality(HitsIn(ev_respond_')) + Cardinality(ev_replay_ready_') =
           Len(fetch_req_queue_) + Len(pending_miss_buffer_) + Len(replay_buffer_)
             + Cardinality(HitsIn(ev_respond_)) + Cardinality(ev_replay_ready_)
    BY <1>1, <2>1, <2>2
  <2> QED
    BY <1>1, <2>1, <2>2, <2>3, SumAfter
<1> QED
  BY <1>3, <1>4, <1>5 DEF IInv

\* A lookup: a hit is answered with its credit, a miss keeps it and, if it is the first
\* on its line, asks for the line.
LEMMA LookupPreserves ==
    ASSUME IInv, Arbitrated, NEW hit \in BOOLEAN, ArbitratesLookup(hit)
    PROVE  IInv'
<1> DEFINE access == Head(fetch_req_queue_)
           e == [access |-> access, hit |-> hit, due |-> CacheLatency]
<1>1. /\ IsSequence(Resps) /\ IsSequence(Replays) /\ IsSequence(Pending)
      /\ Partitions(miss_queue_, at_l2, Resps, LinesOf(Pending))
      /\ Len(Replays) \in Nat /\ Len(Pending) \in Nat
      /\ Len(Replays) + Len(Pending) = Len(replay_buffer_) + Len(pending_miss_buffer_)
  BY FillMoves DEF IInv
<1>2. /\ Replays = << >> /\ fetch_req_queue_ # << >> /\ replay_buffer_' = << >>
      /\ ev_respond_' = ev_respond_ \cup {e}
      /\ fetch_req_queue_' = Tail(fetch_req_queue_)
      /\ l2cache_resp_queue_' = Resps
      /\ UNCHANGED <<ev_replay_ready_, to_icache, phase>>
  BY DEF ArbitratesLookup, Arbitrated
<1>3. /\ pending_miss_buffer_' = IF hit THEN Pending ELSE Append(Pending, access)
      /\ IF ~hit /\ NewMiss(access, Pending)
         THEN makeL2CacheRequest(Append(miss_queue_, access.line), ev_l2cache_request_)
         ELSE miss_queue_' = miss_queue_ /\ at_l2' = at_l2
  BY DEF ArbitratesLookup
<1>4. /\ e \notin ev_respond_ \cup ev_replay_ready_ /\ Answer(e) /\ e.hit = hit
      /\ phase' = "icache" /\ 0 \notin ev_arbitrate_'
  BY AnswerIsNew
<1> HIDE DEF e
<1>5. /\ IsSequence(fetch_req_queue_') /\ Len(fetch_req_queue_') \in Nat
      /\ Len(fetch_req_queue_) = Len(fetch_req_queue_') + 1
  BY <1>2, TailIsSequence DEF IInv, SeqInv
<1>6. /\ IsSequence(miss_queue_) /\ IsSequence(at_l2)
  BY DEF IInv, SeqInv
<1> HIDE DEF access
<1>7. /\ IsSequence(Append(Pending, access)) /\ Len(Append(Pending, access)) = Len(Pending) + 1
      /\ LinesOf(Append(Pending, access)) = LinesOf(Pending) \cup {access.line}
  <2>1. /\ IsSequence(Append(Pending, access)) /\ Len(Append(Pending, access)) = Len(Pending) + 1
        /\ Range(Append(Pending, access)) = Range(Pending) \cup {access}
    BY <1>1, AppendIsSequence
  <2> QED
    BY <2>1 DEF LinesOf
<1>8. NewMiss(access, Pending) <=> access.line \notin LinesOf(Pending)
  BY <1>1, SplitByLine DEF NewMiss
<1>9. /\ IsSequence(miss_queue_') /\ IsSequence(at_l2') /\ IsSequence(pending_miss_buffer_')
      /\ Partitions(miss_queue_', at_l2', Resps, LinesOf(pending_miss_buffer_'))
      /\ Len(pending_miss_buffer_') = Len(Pending) + (IF hit THEN 0 ELSE 1)
  <2>1. CASE hit
    BY <1>1, <1>3, <1>6, <2>1
  <2>2. CASE ~hit /\ ~NewMiss(access, Pending)
    <3>1. pending_miss_buffer_' = Append(Pending, access) /\ miss_queue_' = miss_queue_
          /\ at_l2' = at_l2
      BY <1>3, <2>2
    <3>2. LinesOf(pending_miss_buffer_') = LinesOf(Pending)
      BY <1>7, <1>8, <2>2, <3>1
    <3> QED
      BY <1>1, <1>6, <1>7, <2>2, <3>1, <3>2
  <2>3. CASE ~hit /\ NewMiss(access, Pending)
    <3>1. /\ pending_miss_buffer_' = Append(Pending, access)
          /\ makeL2CacheRequest(Append(miss_queue_, access.line), ev_l2cache_request_)
      BY <1>3, <2>3
    <3> DEFINE L == LinesOf(Pending) \cup {access.line}
               misses == Append(miss_queue_, access.line)
    <3>2. IsSequence(misses) /\ Partitions(misses, at_l2, Resps, L)
      BY <1>1, <1>6, <1>8, <2>3, LineWanted
    <3>3. makeL2CacheRequest(misses, ev_l2cache_request_)
      BY <3>1
    <3> HIDE DEF L, misses
    <3>4. IsSequence(miss_queue_') /\ IsSequence(at_l2') /\ Partitions(miss_queue_', at_l2', Resps, L)
      BY <1>6, <3>2, <3>3, RequestMoves
    <3>5. LinesOf(pending_miss_buffer_') = L
      BY <1>7, <3>1 DEF L
    <3> QED
      BY <1>7, <2>3, <3>1, <3>4, <3>5
  <2> QED
    BY <2>1, <2>2, <2>3
<1>10. SeqInv' /\ FillInv' /\ PortInv'
  BY <1>1, <1>2, <1>5, <1>9, EmptyIsSequence DEF IInv, SeqInv, FillInv, PortInv
<1>11. /\ IsFiniteSet(ev_respond_')
       /\ Cardinality(HitsIn(ev_respond_')) =
              Cardinality(HitsIn(ev_respond_)) + (IF hit THEN 1 ELSE 0)
  BY <1>2, <1>4, AnswerAdded DEF IInv, EventInv
<1>12. EventInv'
  BY <1>2, <1>4, <1>11 DEF IInv, EventInv
<1>13. CreditInv'
  <2>1. /\ Len(fetch_req_queue_) \in Nat
        /\ Len(pending_miss_buffer_) \in Nat /\ Len(replay_buffer_) \in Nat
        /\ Cardinality(HitsIn(ev_respond_)) \in Nat /\ Cardinality(ev_replay_ready_) \in Nat
    BY CreditTerms DEF IInv
  <2>2. /\ Len(replay_buffer_') = 0 /\ Len(Replays) = 0 /\ ev_replay_ready_' = ev_replay_ready_
    BY <1>2, EmptyIsSequence
  <2>3. Len(fetch_req_queue_') + Len(pending_miss_buffer_') + Len(replay_buffer_')
             + Cardinality(HitsIn(ev_respond_')) + Cardinality(ev_replay_ready_') =
           Len(fetch_req_queue_) + Len(pending_miss_buffer_) + Len(replay_buffer_)
             + Cardinality(HitsIn(ev_respond_)) + Cardinality(ev_replay_ready_)
    <3>1. CASE hit
      BY <1>1, <1>5, <1>9, <1>11, <2>1, <2>2, <3>1, SMTT(30)
    <3>2. CASE ~hit
      BY <1>1, <1>5, <1>9, <1>11, <2>1, <2>2, <3>2, SMTT(30)
    <3> QED
      BY <3>1, <3>2
  <2>4. Len(pending_miss_buffer_') \in Nat /\ Cardinality(HitsIn(ev_respond_')) \in Nat
    BY <1>1, <1>9, <1>11, <2>1
  <2> QED
    BY <1>5, <2>1, <2>2, <2>3, <2>4, SumAfter
<1> QED
  BY <1>10, <1>12, <1>13 DEF IInv

\* ICache arbitrates.
LEMMA ICacheArbitratesPreserves == ASSUME IInv, ICacheArbitrates PROVE IInv'
  BY ArbitrationSteps, ReplayPreserves, LookupPreserves, NothingPreserves

-----------------------------------------------------------------------------
(* The theorems.                                                           *)

\* The invariant holds at the start.
LEMMA InitIInv == Init => IInv
<1> SUFFICES ASSUME Init PROVE IInv
  OBVIOUS
<1>1. /\ phase = "port" /\ to_icache = << >> /\ credits_icache_ = ICacheQueueSize
      /\ fetch_req_queue_ = << >> /\ l2cache_resp_queue_ = << >> /\ replay_buffer_ = << >>
      /\ miss_queue_ = << >> /\ pending_miss_buffer_ = << >> /\ at_l2 = << >>
      /\ ev_respond_ = {} /\ ev_replay_ready_ = {}
  BY DEF Init, FetchInit, ICacheInit
<1>2. SeqInv
  BY <1>1, EmptyIsSequence DEF SeqInv
<1>3. FillInv
  BY <1>1, EmptyIsSequence DEF FillInv, Partitions, LinesOf
<1>4. EventInv
  BY <1>1, FS_EmptySet DEF EventInv
<1>5. PortInv
  BY <1>1 DEF PortInv, NextOf
<1>6. CreditInv
  <2>1. Len(<< >>) = 0 /\ HitsIn({}) = {} /\ Cardinality({}) = 0 /\ ICacheQueueSize \in Nat
    BY FS_EmptySet, EmptyIsSequence, ICacheAssumption DEF HitsIn
  <2>2. ICacheQueueSize + 0 + 0 + 0 + 0 + 0 + 0 = ICacheQueueSize
    BY <2>1
  <2> QED
    BY <1>1, <2>1, <2>2, CreditSum DEF CreditInv
<1> QED
  BY <1>2, <1>3, <1>4, <1>5, <1>6 DEF IInv

\* The steps that neither Fetch's requests nor ICache notice.
LEMMA OthersUnwatched ==
    ASSUME \/ DeliverToDecode \/ L2ReturnsCredit \/ VsetExecuted \/ DecodeSession \/ DecodeGathers
           \/ FetchTakesResponse \/ UNCHANGED vars
    PROVE  UNCHANGED watched
<1> USE DEF watched, watchedEvents, fetchVars, icacheVars, icacheQueues, icacheEvents
<1>1. CASE DeliverToDecode
  BY <1>1 DEF DeliverToDecode
<1>2. CASE L2ReturnsCredit
  BY <1>2 DEF L2ReturnsCredit, getCreditsFromL2Cache
<1>3. CASE VsetExecuted
  BY <1>3 DEF VsetExecuted
<1>4. CASE DecodeSession
  BY <1>4 DEF DecodeSession, receiveFetchQueueCredits
<1>5. CASE DecodeGathers
  BY <1>5 DEF DecodeGathers
<1>6. CASE FetchTakesResponse
  <2>1. /\ \E r \in fetch_resp : receiveCacheResponse(r.access, r.hit)
        /\ UNCHANGED <<phase, icacheVars>>
    BY <1>6 DEF FetchTakesResponse
  <2>2. UNCHANGED <<to_icache, credits_icache_>>
    BY <2>1 DEF receiveCacheResponse
  <2> QED
    BY <2>1, <2>2
<1>7. CASE UNCHANGED vars
  BY <1>7 DEF vars
<1> QED
  BY <1>1, <1>2, <1>3, <1>4, <1>5, <1>6, <1>7

\* Every step keeps the invariant.
LEMMA NextIInv == IInv /\ [Next]_vars => IInv'
<1> SUFFICES ASSUME IInv, [Next]_vars PROVE IInv'
  OBVIOUS
<1>1. CASE \/ DeliverToDecode \/ L2ReturnsCredit \/ VsetExecuted \/ DecodeSession
           \/ DecodeGathers \/ FetchTakesResponse \/ UNCHANGED vars
  BY <1>1, OthersUnwatched, UnwatchedPreserves
<1>2. CASE DeliverToICache
  BY <1>2, DeliverToICachePreserves
<1>3. CASE L2Fills
  BY <1>3, L2FillsPreserves
<1>4. CASE Flush
  BY <1>4, FlushKeepsRequests
<1>5. CASE RenameReturnsCredits
  BY <1>5, RenameReturnsCreditsPreserves
<1>6. CASE ICacheArbitrates
  BY <1>6, ICacheArbitratesPreserves
<1>7. CASE ICacheRequestsLine
  BY <1>7, ICacheRequestsLinePreserves
<1>8. CASE ICacheResponds
  BY <1>8, ICacheRespondsPreserves
<1>9. CASE FetchEvent
  BY <1>9, FetchEventPreserves
<1>10. CASE nextPhase
  BY <1>10, NextPhasePreserves
<1> QED
  BY <1>1, <1>2, <1>3, <1>4, <1>5, <1>6, <1>7, <1>8, <1>9, <1>10 DEF Next, Handlers

\* FrontEnd keeps IInv.
THEOREM FrontEndInvariant == Spec => []IInv
  BY InitIInv, NextIInv, PTL DEF Spec

\* "Don't make requests to cachelines that are already pending" (addToMissQueue_), for
\* every trace and size: a line has one fill under way while a miss waits for it, and
\* none otherwise, so no waiting miss is left without the fill that replays it.
THEOREM FillsAreExactlyOnePerLine == Spec => []OneFillPerLine
<1>1. IInv => OneFillPerLine
  BY FillsAreExact DEF IInv
<1> QED
  BY <1>1, FrontEndInvariant, PTL

\* Every credit of ICache's fetch queue is Fetch's or belongs to one request that
\* ICache holds, misses and replays included, in every phase and whatever is flushed;
\* and Fetch never spends a credit that it does not have.
THEOREM ICacheCreditsHold == Spec => [](ICacheCreditsConserved /\ credits_icache_ \in Nat)
<1>1. IInv => ICacheCreditsConserved /\ credits_icache_ \in Nat
  BY DEF IInv, CreditInv
<1> QED
  BY <1>1, FrontEndInvariant, PTL

-----------------------------------------------------------------------------
(* The order of the program.                                               *)

\* A configuration under which an instruction has elements (the code mishandles
\* VL = 0).
HasElements(cfg) == cfg.vl > 0 /\ VLEN \div cfg.sew > 0

\* All vector instructions have elements, whichever vset was the last one.
Proper == /\ HasElements(InitConfig)
          /\ \A t \in Traces : \A p \in DOMAIN t :
                t[p].kind \in {"vset", "vset_reg"} => HasElements(t[p].cfg)

UsableConfig == {cfg \in VectorConfig : HasElements(cfg)}

SentUop == [uid : Nat, pid : Nat, uop : Nat, cfg : VectorConfig \cup {NoInst}]
Entry == [inst : Inst, last : BOOLEAN, fetched : BOOLEAN]

\* How many uops the sent uop's instruction has in the trace t.
UopsIn(t, i) == IF t[i.pid].kind = "vector" THEN ElementUops(i.cfg) ELSE 1

DoneOf(snt) == IF snt = << >> THEN 0 ELSE snt[Len(snt)].pid

FollowsIn(t, i, j) == IF i.uop + 1 < UopsIn(t, i)
                      THEN j.uid = i.uid /\ j.pid = i.pid /\ j.uop = i.uop + 1
                      ELSE j.uid > i.uid /\ j.pid = i.pid + 1 /\ j.uop = 0

\* The uops snt are the beginning of the program t; ids below nu are in use.
SentRun(t, snt, nu) ==
    /\ snt \in Seq(SentUop)
    /\ snt # << >> => snt[1].pid = 1 /\ snt[1].uop = 0
    /\ \A k \in 1..Len(snt) : snt[k].pid \in 1..Len(t) /\ snt[k].uid < nu
                              /\ UopsIn(t, snt[k]) \in Nat /\ snt[k].uop < UopsIn(t, snt[k])
    /\ \A j, k \in 1..Len(snt) : j < k =>
          /\ snt[j].uid <= snt[k].uid
          /\ snt[j].uid = snt[k].uid => snt[j].pid = snt[k].pid /\ t[snt[j].pid].kind = "vector"
    /\ \A k \in 1..Len(snt) - 1 : FollowsIn(t, snt[k], snt[k + 1])

\* The instructions q follow them without a gap, up to np.
QueueRun(t, snt, q, np, nu) ==
    /\ q \in Seq(Inst)
    /\ \A k \in 1..Len(q) : q[k].pid = DoneOf(snt) + k /\ q[k].uid < nu
    /\ \A j, k \in 1..Len(q) : j < k => q[j].uid < q[k].uid
    /\ \A j \in 1..Len(snt), k \in 1..Len(q) : snt[j].uid < q[k].uid
    /\ np = DoneOf(snt) + Len(q) + 1 /\ np \in 1..Len(t) + 1
    /\ nu \in Nat /\ Len(t) \in Nat

\* The generator g goes on with the last uop's instruction, or that is complete.
GenRun(t, snt, g) ==
    LET last == snt[Len(snt)]
    IN  \/ /\ g = IdleGen
           /\ snt # << >> => last.uop + 1 = UopsIn(t, last)
        \/ /\ snt # << >>
           /\ last.uop + 1 < UopsIn(t, last)
           /\ g = [current_inst_ |-> [uid |-> last.uid, pid |-> last.pid, cfg |-> last.cfg],
                   num_uops_to_generate_ |-> UopsIn(t, last),
                   num_uops_generated_ |-> last.uop + 1]

Ordered(t, snt, q, g, np, nu) ==
    SentRun(t, snt, nu) /\ QueueRun(t, snt, q, np, nu) /\ GenRun(t, snt, g)

\* One more uop behind those sent.
LEMMA SentGrows ==
    ASSUME NEW t, NEW snt, NEW nu \in Nat, SentRun(t, snt, nu), NEW u \in SentUop,
           u.pid \in 1..Len(t), u.uid < nu, UopsIn(t, u) \in Nat, u.uop < UopsIn(t, u),
           snt = << >> => u.pid = 1 /\ u.uop = 0,
           snt # << >> => FollowsIn(t, snt[Len(snt)], u),
           \A k \in 1..Len(snt) :
              /\ snt[k].uid <= u.uid
              /\ snt[k].uid = u.uid => snt[k].pid = u.pid /\ t[u.pid].kind = "vector"
    PROVE  /\ SentRun(t, Append(snt, u), nu)
           /\ Append(snt, u) # << >> /\ DoneOf(Append(snt, u)) = u.pid
           /\ Append(snt, u)[Len(Append(snt, u))] = u
           /\ Len(snt) \in Nat /\ Len(Append(snt, u)) = Len(snt) + 1
           /\ \A k \in 1..Len(snt) : Append(snt, u)[k] = snt[k]
           /\ Append(snt, u)[Len(snt) + 1] = u
<1> DEFINE s == Append(snt, u)
           n == Len(snt)
<1>1. /\ n \in Nat /\ s \in Seq(SentUop) /\ Len(s) = n + 1
      /\ \A k \in 1..n : s[k] = snt[k]
      /\ s[n + 1] = u
      /\ snt = << >> <=> n = 0
  BY AppendFacts, SeqFacts DEF SentRun
<1> HIDE DEF s, n
<1>2. s # << >>
  <2>1. s = << >> <=> Len(s) = 0
    BY <1>1, SeqFacts
  <2> QED
    BY <1>1, <2>1
<1>3. \A k \in 1..Len(s) : k \in 1..n \/ k = n + 1
  BY <1>1
<1>4. s[1].pid = 1 /\ s[1].uop = 0
  <2>1. CASE n = 0
    BY <1>1, <2>1
  <2>2. CASE n > 0
    BY <1>1, <2>2 DEF SentRun
  <2> QED
    BY <1>1, <2>1, <2>2
<1>5. \A k \in 1..Len(s) : s[k].pid \in 1..Len(t) /\ s[k].uid < nu
                             /\ UopsIn(t, s[k]) \in Nat /\ s[k].uop < UopsIn(t, s[k])
  BY <1>1, <1>3 DEF SentRun, n
<1>6. ASSUME NEW j \in 1..Len(s), NEW k \in 1..Len(s), j < k
      PROVE  /\ s[j].uid <= s[k].uid
             /\ s[j].uid = s[k].uid => s[j].pid = s[k].pid /\ t[s[j].pid].kind = "vector"
  <2>1. j \in 1..n
    BY <1>1, <1>6
  <2>2. CASE k \in 1..n
    BY <1>1, <1>6, <2>1, <2>2, SMTT(30) DEF SentRun, n
  <2>3. CASE k = n + 1
    BY <1>1, <2>1, <2>3 DEF n
  <2> QED
    BY <1>3, <2>2, <2>3
<1>7. ASSUME NEW k \in 1..Len(s) - 1 PROVE FollowsIn(t, s[k], s[k + 1])
  <2>1. k \in 1..n
    BY <1>1
  <2>2. CASE k = n
    BY <1>1, <2>1, <2>2 DEF n
  <2>3. CASE k # n
    <3>1. k \in 1..n - 1 /\ k + 1 \in 1..n
      BY <1>1, <2>1, <2>3
    <3> QED
      BY <1>1, <2>1, <3>1 DEF SentRun, n
  <2> QED
    BY <2>2, <2>3
<1>8. SentRun(t, s, nu)
  BY <1>1, <1>2, <1>4, <1>5, <1>6, <1>7 DEF SentRun
<1>9. DoneOf(s) = u.pid /\ s[Len(s)] = u
  BY <1>1, <1>2 DEF DoneOf
<1> QED
  BY <1>1, <1>2, <1>8, <1>9 DEF s, n

\* What the last uop sent has to do with the others.
LEMMA LastSent ==
    ASSUME NEW t, NEW snt, NEW nu, SentRun(t, snt, nu), snt # << >>
    PROVE  /\ Len(snt) \in Nat \ {0} /\ snt[Len(snt)] \in SentUop
           /\ DoneOf(snt) = snt[Len(snt)].pid /\ snt[Len(snt)].pid \in 1..Len(t)
           /\ snt[Len(snt)].uid < nu /\ snt[Len(snt)].uop < UopsIn(t, snt[Len(snt)])
           /\ UopsIn(t, snt[Len(snt)]) \in Nat
           /\ \A k \in 1..Len(snt) :
                /\ snt[k] \in SentUop
                /\ snt[k].uid <= snt[Len(snt)].uid
                /\ snt[k].uid = snt[Len(snt)].uid =>
                      snt[k].pid = snt[Len(snt)].pid /\ (k # Len(snt) => t[snt[k].pid].kind = "vector")
<1> DEFINE n == Len(snt)
<1>1. n \in Nat \ {0} /\ \A k \in 1..n : snt[k] \in SentUop
  BY SeqFacts DEF SentRun
<1>2. n \in 1..n
  BY <1>1
<1>3. ASSUME NEW k \in 1..n
      PROVE  /\ snt[k].uid <= snt[n].uid
             /\ snt[k].uid = snt[n].uid =>
                   snt[k].pid = snt[n].pid /\ (k # n => t[snt[k].pid].kind = "vector")
  <2>1. CASE k = n
    <3>1. snt[n].uid \in Nat
      BY <1>1, <1>2 DEF SentUop
    <3> QED
      BY <2>1, <3>1
  <2>2. CASE k # n
    <3>1. k < n
      BY <1>1, <2>2
    <3> QED
      BY <1>2, <3>1 DEF SentRun
  <2> QED
    BY <2>1, <2>2
<1> QED
  BY <1>1, <1>2, <1>3 DEF SentRun, DoneOf

\* The generator makes the next uop of its instruction.
LEMMA UopStep ==
    ASSUME NEW t, NEW snt, NEW q, NEW g, NEW np, NEW nu, Ordered(t, snt, q, g, np, nu),
           g.num_uops_to_generate_ > 0
    PROVE  Ordered(t, Append(snt, UopOf(g)), q, AfterUop(g), np, nu)
<1> DEFINE last == snt[Len(snt)]
           u == [uid |-> last.uid, pid |-> last.pid, uop |-> last.uop + 1, cfg |-> last.cfg]
           s == Append(snt, u)
<1>1. SentRun(t, snt, nu) /\ QueueRun(t, snt, q, np, nu) /\ GenRun(t, snt, g) /\ nu \in Nat
  BY DEF Ordered, QueueRun
<1>2. /\ snt # << >> /\ last.uop + 1 < UopsIn(t, last)
      /\ g = [current_inst_ |-> [uid |-> last.uid, pid |-> last.pid, cfg |-> last.cfg],
              num_uops_to_generate_ |-> UopsIn(t, last), num_uops_generated_ |-> last.uop + 1]
  <2>1. g # IdleGen
    BY DEF IdleGen
  <2> QED
    BY <1>1, <2>1 DEF GenRun
<1>3. /\ Len(snt) \in Nat \ {0} /\ last \in SentUop /\ last.pid \in 1..Len(t) /\ last.uid < nu
      /\ DoneOf(snt) = last.pid /\ UopsIn(t, last) \in Nat
      /\ \A k \in 1..Len(snt) :
            /\ snt[k] \in SentUop /\ snt[k].uid <= last.uid
            /\ snt[k].uid = last.uid => snt[k].pid = last.pid
  BY <1>1, <1>2, LastSent
<1>4. UopOf(g) = u
  BY <1>2 DEF UopOf
<1> HIDE DEF last
<1>5. last.uop \in Nat /\ last.uid \in Nat /\ u \in SentUop
  BY <1>3 DEF SentUop
<1>6. t[last.pid].kind = "vector"
  BY <1>2, <1>5 DEF UopsIn
<1>7. UopsIn(t, u) = UopsIn(t, last)
  BY DEF UopsIn
<1>8. FollowsIn(t, last, u)
  BY <1>2 DEF FollowsIn
<1>9. /\ SentRun(t, s, nu) /\ s # << >> /\ DoneOf(s) = last.pid /\ s[Len(s)] = u
      /\ Len(s) = Len(snt) + 1
      /\ \A k \in 1..Len(snt) : s[k] = snt[k]
      /\ s[Len(snt) + 1] = u
  <2>1. /\ u.pid = last.pid /\ u.uid = last.uid /\ u.uop = last.uop + 1
    OBVIOUS
  <2>2. FollowsIn(t, snt[Len(snt)], u)
    BY <1>8 DEF last
  <2> HIDE DEF u, s
  <2>3. /\ u.pid \in 1..Len(t) /\ u.uid < nu /\ u.uop < UopsIn(t, u) /\ UopsIn(t, u) \in Nat
    BY <1>2, <1>3, <1>7, <2>1
  <2>4. \A k \in 1..Len(snt) :
              /\ snt[k].uid <= u.uid
              /\ snt[k].uid = u.uid => snt[k].pid = u.pid /\ t[u.pid].kind = "vector"
    BY <1>3, <1>6, <2>1
  <2> QED
    BY <1>1, <1>2, <1>5, <2>1, <2>2, <2>3, <2>4, SentGrows, SMTT(30) DEF s
<1>10. QueueRun(t, s, q, np, nu)
  <2> HIDE DEF s
  <2>1. \A j \in 1..Len(s), k \in 1..Len(q) : s[j].uid < q[k].uid
    <3> TAKE j \in 1..Len(s), k \in 1..Len(q)
    <3>1. j \in 1..Len(snt) \/ j = Len(snt) + 1
      BY <1>3, <1>9
    <3>2. Len(snt) \in 1..Len(snt)
      BY <1>3
    <3>3. \A i \in 1..Len(snt) : snt[i].uid < q[k].uid
      BY <1>1 DEF QueueRun
    <3>4. last.uid < q[k].uid
      BY <3>2, <3>3 DEF last
    <3> QED
      BY <1>9, <3>1, <3>3, <3>4
  <2>2. DoneOf(s) = DoneOf(snt)
    BY <1>3, <1>9
  <2> QED
    BY <1>1, <2>1, <2>2 DEF QueueRun
<1>11. GenRun(t, s, AfterUop(g))
  <2> HIDE DEF s
  <2>1. u.uop = last.uop + 1
    OBVIOUS
  <2>2. CASE last.uop + 1 + 1 = UopsIn(t, last)
    <3>1. AfterUop(g) = IdleGen
      BY <1>2, <2>2 DEF AfterUop
    <3> HIDE DEF u
    <3> QED
      BY <1>7, <1>9, <2>1, <2>2, <3>1 DEF GenRun
  <2>3. CASE last.uop + 1 + 1 # UopsIn(t, last)
    <3>1. AfterUop(g) = [current_inst_ |-> [uid |-> u.uid, pid |-> u.pid, cfg |-> u.cfg],
                         num_uops_to_generate_ |-> UopsIn(t, u), num_uops_generated_ |-> u.uop + 1]
      BY <1>2, <1>7, <2>3 DEF AfterUop
    <3>2. u.uop + 1 < UopsIn(t, u)
      BY <1>2, <1>3, <1>5, <1>7, <2>3
    <3> HIDE DEF u
    <3> QED
      BY <1>9, <3>1, <3>2 DEF GenRun
  <2> QED
    BY <2>2, <2>3
<1> QED
  BY <1>4, <1>9, <1>10, <1>11 DEF Ordered

\* The pid up to which all is sent.
LEMMA DoneFacts ==
    ASSUME NEW t, NEW snt, NEW nu, SentRun(t, snt, nu)
    PROVE  DoneOf(snt) \in Nat /\ (snt = << >> => DoneOf(snt) = 0)
<1>1. CASE snt = << >>
  BY <1>1 DEF DoneOf
<1>2. CASE snt # << >>
  <2>1. DoneOf(snt) = snt[Len(snt)].pid /\ snt[Len(snt)] \in SentUop
    BY <1>2, LastSent
  <2>2. snt[Len(snt)].pid \in Nat
    BY <2>1 DEF SentUop
  <2> QED
    BY <1>2, <2>1, <2>2
<1> QED
  BY <1>1, <1>2

\* The first uop of the next instruction in the queue.
LEMMA InstStep ==
    ASSUME NEW t, NEW snt, NEW q, NEW g, NEW np, NEW nu, Ordered(t, snt, q, g, np, nu),
           g.num_uops_to_generate_ = 0, q # << >>, NEW u \in SentUop,
           u.uid = q[1].uid, u.pid = q[1].pid, u.uop = 0, UopsIn(t, u) \in Nat \ {0}
    PROVE  /\ SentRun(t, Append(snt, u), nu) /\ QueueRun(t, Append(snt, u), Tail(q), np, nu)
           /\ Append(snt, u) # << >> /\ Append(snt, u)[Len(Append(snt, u))] = u
           /\ g = IdleGen
<1> DEFINE last == snt[Len(snt)]
           s == Append(snt, u)
           r == Tail(q)
<1>1. SentRun(t, snt, nu) /\ QueueRun(t, snt, q, np, nu) /\ GenRun(t, snt, g) /\ nu \in Nat
  BY DEF Ordered, QueueRun
<1>2. DoneOf(snt) \in Nat /\ (snt = << >> => DoneOf(snt) = 0)
  BY <1>1, DoneFacts
<1>3. /\ Len(q) \in Nat \ {0} /\ q \in Seq(Inst) /\ r \in Seq(Inst) /\ Len(r) = Len(q) - 1
      /\ \A k \in 1..Len(r) : r[k] = q[k + 1]
      /\ \A k \in 1..Len(q) : q[k] \in Inst
  BY <1>1, TailFacts, SeqFacts DEF QueueRun
<1>4. 1 \in 1..Len(q) /\ u.pid = DoneOf(snt) + 1 /\ u.uid < nu
  BY <1>1, <1>3 DEF QueueRun
<1>5. u.pid \in 1..Len(t)
  <2>1. np = DoneOf(snt) + Len(q) + 1 /\ np \in 1..Len(t) + 1 /\ Len(t) \in Nat
    BY <1>1 DEF QueueRun
  <2>2. DoneOf(snt) + 1 \in 1..Len(t)
    BY <1>2, <1>3, <2>1
  <2> QED
    BY <1>4, <2>2, Zenon
<1>6. ASSUME snt # << >>
      PROVE  /\ Len(snt) \in Nat \ {0} /\ last \in SentUop /\ last.pid = DoneOf(snt)
             /\ UopsIn(t, last) \in Nat
  BY <1>1, <1>6, LastSent
<1>7. g = IdleGen /\ (snt # << >> => last.uop + 1 = UopsIn(t, last))
  <2>1. SUFFICES ASSUME snt # << >>, last.uop + 1 < UopsIn(t, last), g.num_uops_to_generate_ = UopsIn(t, last)
                 PROVE  FALSE
    BY <1>1, <2>1 DEF GenRun
  <2>2. last.uop \in Nat
    BY <1>6, <2>1 DEF SentUop
  <2> QED
    BY <1>6, <2>1, <2>2
<1>8. u.uid \in Nat
  BY DEF SentUop
<1>9. \A k \in 1..Len(snt) : snt[k].uid < u.uid /\ snt[k].uid \in Nat
  <2>1. \A k \in 1..Len(snt) : snt[k] \in SentUop
    BY <1>1, SeqFacts DEF SentRun
  <2> QED
    BY <1>1, <1>4, <2>1 DEF QueueRun, SentUop
<1>10. ASSUME snt # << >> PROVE FollowsIn(t, snt[Len(snt)], u)
  <2>1. Len(snt) \in 1..Len(snt)
    BY <1>6, <1>10
  <2>2. snt[Len(snt)].uid < u.uid /\ snt[Len(snt)].uid \in Nat
    BY <1>9, <2>1
  <2>3. ~(last.uop + 1 < UopsIn(t, last))
    BY <1>6, <1>7, <1>10
  <2>4. u.pid = last.pid + 1
    BY <1>4, <1>6, <1>10
  <2> QED
    BY <1>8, <2>2, <2>3, <2>4 DEF FollowsIn
<1>11. /\ SentRun(t, s, nu) /\ s # << >> /\ DoneOf(s) = u.pid /\ s[Len(s)] = u
       /\ Len(snt) \in Nat /\ Len(s) = Len(snt) + 1
       /\ \A k \in 1..Len(snt) : s[k] = snt[k]
       /\ s[Len(snt) + 1] = u
  <2>1. snt = << >> => u.pid = 1 /\ u.uop = 0
    BY <1>2, <1>4
  <2>2. \A k \in 1..Len(snt) :
              /\ snt[k].uid <= u.uid
              /\ snt[k].uid = u.uid => snt[k].pid = u.pid /\ t[u.pid].kind = "vector"
    BY <1>8, <1>9
  <2>3. u.uop < UopsIn(t, u)
    OBVIOUS
  <2> HIDE DEF s
  <2> QED
    BY <1>1, <1>4, <1>5, <1>10, <2>1, <2>2, <2>3, SentGrows DEF s
<1>12. QueueRun(t, s, r, np, nu)
  <2> HIDE DEF s, r
  <2>1. \A k \in 1..Len(r) : k + 1 \in 1..Len(q)
    BY <1>3
  <2>2. \A k \in 1..Len(r) : r[k].pid = DoneOf(s) + k /\ r[k].uid < nu
    <3> TAKE k \in 1..Len(r)
    <3>1. r[k].pid = DoneOf(snt) + (k + 1) /\ r[k].uid < nu
      BY <1>1, <1>3, <2>1 DEF QueueRun
    <3> QED
      BY <1>2, <1>4, <1>11, <3>1
  <2>3. \A j, k \in 1..Len(r) : j < k => r[j].uid < r[k].uid
    <3> SUFFICES ASSUME NEW j \in 1..Len(r), NEW k \in 1..Len(r), j < k PROVE r[j].uid < r[k].uid
      OBVIOUS
    <3>1. j + 1 \in 1..Len(q) /\ k + 1 \in 1..Len(q) /\ j + 1 < k + 1
      BY <2>1
    <3>2. q[j + 1].uid < q[k + 1].uid
      BY <1>1, <3>1 DEF QueueRun
    <3> QED
      BY <1>3, <3>2
  <2>4. \A j \in 1..Len(s), k \in 1..Len(r) : s[j].uid < r[k].uid
    <3> TAKE j \in 1..Len(s), k \in 1..Len(r)
    <3>1. j \in 1..Len(snt) \/ j = Len(snt) + 1
      BY <1>11
    <3>2. k + 1 \in 1..Len(q) /\ 1 < k + 1
      BY <2>1
    <3>3. CASE j \in 1..Len(snt)
      BY <1>1, <1>3, <1>11, <3>2, <3>3 DEF QueueRun
    <3>4. CASE j = Len(snt) + 1
      <4>1. q[1].uid < q[k + 1].uid
        BY <1>1, <1>4, <3>2 DEF QueueRun
      <4> QED
        BY <1>3, <1>11, <3>4, <4>1
    <3> QED
      BY <3>1, <3>3, <3>4
  <2>5. np = DoneOf(s) + Len(r) + 1 /\ np \in 1..Len(t) + 1
    BY <1>1, <1>2, <1>3, <1>4, <1>11 DEF QueueRun
  <2> QED
    BY <1>1, <1>3, <2>2, <2>3, <2>4, <2>5 DEF QueueRun
<1> QED
  BY <1>7, <1>11, <1>12

\* An instruction that is no vector instruction is one uop.
LEMMA ScalarStep ==
    ASSUME NEW t, NEW snt, NEW q, NEW g, NEW np, NEW nu, Ordered(t, snt, q, g, np, nu),
           g.num_uops_to_generate_ = 0, q # << >>, t[q[1].pid].kind # "vector"
    PROVE  Ordered(t, Append(snt, [uid |-> q[1].uid, pid |-> q[1].pid, uop |-> 0, cfg |-> NoInst]),
                   Tail(q), g, np, nu)
<1> DEFINE u == [uid |-> q[1].uid, pid |-> q[1].pid, uop |-> 0, cfg |-> NoInst]
           s == Append(snt, u)
<1>1. q[1] \in Inst
  BY SeqFacts DEF Ordered, QueueRun
<1>2. u \in SentUop /\ u.uid = q[1].uid /\ u.pid = q[1].pid /\ u.uop = 0
  BY <1>1 DEF SentUop, Inst
<1>3. UopsIn(t, u) = 1
  BY DEF UopsIn
<1> HIDE DEF u, s
<1>4. /\ SentRun(t, s, nu) /\ QueueRun(t, s, Tail(q), np, nu) /\ s # << >> /\ s[Len(s)] = u
      /\ g = IdleGen
  BY <1>2, <1>3, InstStep DEF s
<1>5. GenRun(t, s, g)
  BY <1>2, <1>3, <1>4 DEF GenRun
<1> QED
  BY <1>4, <1>5 DEF Ordered, s, u

\* A vector instruction with elements has uops.
LEMMA UsableHasUops == ASSUME NEW cfg \in UsableConfig PROVE ElementUops(cfg) \in Nat \ {0}
<1> DEFINE p == VLEN \div cfg.sew
<1>1. p \in Int /\ p > 0 /\ cfg.vl \in Nat /\ cfg.vl > 0
  <2>1. cfg.sew \in Nat \ {0} /\ VLEN \in Nat
    BY VectorAssumption DEF UsableConfig, VectorConfig
  <2> QED
    BY <2>1 DEF UsableConfig, VectorConfig, HasElements
<1>2. ElementUops(cfg) = (cfg.vl + p - 1) \div p
  BY DEF ElementUops
<1> HIDE DEF p
<1>3. \A a \in Nat : a >= p => a \div p \in Nat \ {0}
  <2> SUFFICES ASSUME NEW a \in Nat, a >= p PROVE a \div p \in Nat \ {0}
    OBVIOUS
  <2>1. a \div p \in Nat /\ a < p * (a \div p) + p
    BY <1>1
  <2>2. CASE a \div p = 0
    BY <1>1, <2>1, <2>2
  <2> QED
    BY <2>1, <2>2
<1>4. cfg.vl + p - 1 \in Nat /\ cfg.vl + p - 1 >= p
  BY <1>1
<1> QED
  BY <1>2, <1>3, <1>4

\* A vector instruction goes to the generator, which makes its first uop.
LEMMA VectorStep ==
    ASSUME NEW t, NEW snt, NEW q, NEW g, NEW np, NEW nu, Ordered(t, snt, q, g, np, nu),
           g.num_uops_to_generate_ = 0, q # << >>, t[q[1].pid].kind = "vector",
           NEW cfg \in UsableConfig, NEW h,
           h = SetInst([uid |-> q[1].uid, pid |-> q[1].pid, cfg |-> cfg], NumUops("ELEMENTWISE", 0, cfg))
    PROVE  Ordered(t, Append(snt, UopOf(h)), Tail(q), AfterUop(h), np, nu)
<1> DEFINE u == [uid |-> q[1].uid, pid |-> q[1].pid, uop |-> 0, cfg |-> cfg]
           s == Append(snt, u)
           n == ElementUops(cfg)
<1>1. q[1] \in Inst
  BY SeqFacts DEF Ordered, QueueRun
<1>2. /\ u \in SentUop /\ u.uid = q[1].uid /\ u.pid = q[1].pid /\ u.uop = 0 /\ u.cfg = cfg
  BY <1>1 DEF SentUop, Inst, UsableConfig
<1>3. UopsIn(t, u) = n
  BY DEF UopsIn
<1>4. n \in Nat \ {0}
  BY UsableHasUops
<1>5. h = [current_inst_ |-> [uid |-> u.uid, pid |-> u.pid, cfg |-> u.cfg],
           num_uops_to_generate_ |-> n, num_uops_generated_ |-> 0]
  BY DEF SetInst, NumUops, WideTypes
<1>6. UopOf(h) = u
  BY <1>5 DEF UopOf
<1> HIDE DEF u, s, n
<1>7. /\ SentRun(t, s, nu) /\ QueueRun(t, s, Tail(q), np, nu) /\ s # << >> /\ s[Len(s)] = u
  BY <1>2, <1>3, <1>4, InstStep DEF s
<1>8. GenRun(t, s, AfterUop(h))
  <2>1. CASE n = 1
    <3>1. AfterUop(h) = IdleGen
      BY <1>5, <2>1 DEF AfterUop
    <3> QED
      BY <1>2, <1>3, <1>7, <2>1, <3>1 DEF GenRun
  <2>2. CASE n # 1
    <3>1. AfterUop(h) = [current_inst_ |-> [uid |-> u.uid, pid |-> u.pid, cfg |-> u.cfg],
                         num_uops_to_generate_ |-> n, num_uops_generated_ |-> 0 + 1]
      BY <1>5, <2>2 DEF AfterUop
    <3>2. u.uop + 1 < UopsIn(t, u) /\ u.uop + 1 = 0 + 1
      BY <1>2, <1>3, <1>4, <2>2
    <3> QED
      BY <1>3, <1>7, <3>1, <3>2 DEF GenRun
  <2> QED
    BY <2>1, <2>2
<1> QED
  BY <1>6, <1>7, <1>8 DEF Ordered, s

-----------------------------------------------------------------------------
(* A decode session.                                                       *)

\* No trace has a vector instruction.
Scalar == \A t \in Traces : \A p \in DOMAIN t : t[p].kind # "vector"

\* The loop after at most n iterations, with the instructions of rest behind the queue.
Looped(s, n, rest) ==
    /\ s = [queue |-> s.queue, gen |-> s.gen, config |-> s.config, waiting |-> s.waiting,
            insts |-> s.insts]
    /\ s.queue \in Seq(Inst) /\ s.insts \in Seq(SentUop)
    /\ s.config \in UsableConfig /\ s.waiting \in BOOLEAN
    /\ Len(s.insts) <= n
    /\ Ordered(trace, sent \o s.insts, s.queue \o rest, s.gen, next_pid, next_uid)
    /\ Scalar => Len(s.insts) + Len(s.queue) = Len(fetch_queue_)

\* A vset leaves a configuration under which instructions have elements.
LEMMA ConfigUsable ==
    ASSUME Proper, trace \in Traces, NEW i, i.pid \in DOMAIN trace, Kind(i) \in {"vset", "vset_reg"}
    PROVE  ConfigOf(i) \in UsableConfig
<1> DEFINE x == IF Kind(i) = "vset" THEN trace[i.pid].x0 ELSE "none"
           c == trace[i.pid].cfg
           max == vlmax(c)
<1>1. trace \in Seq(TraceInst) /\ trace[i.pid] \in TraceInst
  BY TraceAssumption, SeqFacts
<1>2. c \in VectorConfig /\ x \in {"none", "source", "both"} /\ HasElements(c)
  <2>1. trace[i.pid].x0 \in {"none", "source", "both"}
    BY <1>1 DEF TraceInst
  <2> QED
    BY <1>1, <2>1 DEF TraceInst, Proper, Kind
<1>3. /\ c = [sew |-> c.sew, lmul |-> c.lmul, vl |-> c.vl]
      /\ c.sew \in Nat \ {0} /\ c.lmul \in Nat \ {0} /\ c.vl \in Nat \ {0}
  BY <1>2 DEF VectorConfig, HasElements
<1>4. VLEN \div c.sew \in Nat \ {0}
  <2>1. VLEN \div c.sew \in Int /\ VLEN \div c.sew > 0
    BY <1>2, <1>3, VectorAssumption DEF HasElements
  <2> QED
    BY <2>1
<1>5. max \in Nat \ {0}
  <2> DEFINE p == VLEN \div c.sew
  <2>1. max = p * c.lmul
    BY DEF vlmax
  <2> HIDE DEF p
  <2>2. p \in Nat \ {0}
    BY <1>4 DEF p
  <2>3. p * c.lmul \in Nat /\ p * c.lmul >= c.lmul
    BY <1>3, <2>2
  <2> QED
    BY <1>3, <2>1, <2>3
<1> HIDE DEF max, c
<1>6. \A v \in Nat \ {0} : [c EXCEPT !.vl = v] \in UsableConfig
  <2> TAKE v \in Nat \ {0}
  <2>1. [c EXCEPT !.vl = v] = [sew |-> c.sew, lmul |-> c.lmul, vl |-> v]
    BY <1>3
  <2> QED
    BY <1>3, <1>4, <2>1 DEF UsableConfig, VectorConfig, HasElements
<1>7. CASE x = "none"
  <2>1. ConfigOf(i) = c
    BY <1>7 DEF ConfigOf, c
  <2> QED
    BY <1>2, <2>1 DEF UsableConfig
<1>8. CASE x = "source"
  <2>1. ConfigOf(i) = [c EXCEPT !.vl = max]
    BY <1>8 DEF ConfigOf, c, max
  <2> QED
    BY <1>5, <1>6, <2>1
<1>9. CASE x = "both"
  <2>1. ConfigOf(i) = [c EXCEPT !.vl = IF c.vl <= max THEN c.vl ELSE max]
    BY <1>9 DEF ConfigOf, c, max
  <2> QED
    BY <1>3, <1>5, <1>6, <2>1
<1> QED
  BY <1>2, <1>7, <1>8, <1>9

\* What an iteration makes of s, the record of the others: nothing, one more uop, or the
\* next instruction.
Iterated(r, s, a, b, c, w, d) ==
    \/ r = s
    \/ /\ b.num_uops_to_generate_ > 0
       /\ r = [queue |-> a, gen |-> AfterUop(b), config |-> c, waiting |-> w,
               insts |-> Append(d, UopOf(b))]
    \/ /\ b.num_uops_to_generate_ = 0 /\ a # << >> /\ Kind(Head(a)) = "vector"
       /\ LET h == SetInst([uid |-> Head(a).uid, pid |-> Head(a).pid, cfg |-> c],
                           NumUops("ELEMENTWISE", 0, c))
          IN  r = [queue |-> Tail(a), gen |-> AfterUop(h), config |-> c, waiting |-> w,
                   insts |-> Append(d, UopOf(h))]
    \/ /\ b.num_uops_to_generate_ = 0 /\ a # << >> /\ Kind(Head(a)) # "vector"
       /\ r = [queue |-> Tail(a), gen |-> b,
               config |-> IF Kind(Head(a)) = "vset" THEN ConfigOf(Head(a)) ELSE c,
               waiting |-> Waits(Head(a)),
               insts |-> Append(d, [uid |-> Head(a).uid, pid |-> Head(a).pid, uop |-> 0,
                                    cfg |-> NoInst])]

\* An iteration does one of these.
LEMMA DecodeOneIs ==
    ASSUME NEW a, NEW b, NEW c, NEW w \in BOOLEAN, NEW d, NEW s, b.num_uops_to_generate_ \in Nat,
           s = [queue |-> a, gen |-> b, config |-> c, waiting |-> w, insts |-> d]
    PROVE  Iterated(DecodeOne(s), s, a, b, c, w, d)
<1>0. s.queue = a /\ s.gen = b /\ s.config = c /\ s.waiting = w /\ s.insts = d
  OBVIOUS
<1> DEFINE i == Head(a)
           n == b.num_uops_to_generate_
<1>1. CASE w
  BY <1>0, <1>1 DEF DecodeOne, Iterated
<1>2. CASE ~w /\ n > 0
  <2>1. DecodeOne(s) = [s EXCEPT !.gen = AfterUop(@), !.insts = Append(@, UopOf(s.gen))]
    BY <1>0, <1>2 DEF DecodeOne
  <2>2. DecodeOne(s) = [queue |-> a, gen |-> AfterUop(b), config |-> c, waiting |-> w,
                        insts |-> Append(d, UopOf(b))]
    BY <2>1
  <2> QED
    BY <1>2, <2>2 DEF Iterated
<1>3. CASE ~w /\ n = 0 /\ a # << >>
  <2>1. DecodeOne(s) = [DecodeInst(s, i) EXCEPT !.queue = Tail(@)]
    BY <1>0, <1>3 DEF DecodeOne
  <2>2. CASE Kind(i) = "vector"
    <3> DEFINE h == SetInst([uid |-> i.uid, pid |-> i.pid, cfg |-> c], NumUops("ELEMENTWISE", 0, c))
    <3>1. DecodeInst(s, i) = [s EXCEPT !.gen = AfterUop(h), !.insts = Append(@, UopOf(h))]
      BY <1>0, <2>2 DEF DecodeInst, DecodeVector
    <3>2. DecodeOne(s) = [queue |-> Tail(a), gen |-> AfterUop(h), config |-> c,
                          waiting |-> w, insts |-> Append(d, UopOf(h))]
      <4> HIDE DEF h
      <4> QED
        BY <2>1, <3>1, ZenonT(40)
    <3> QED
      BY <1>3, <2>2, <3>2 DEF Iterated
  <2>3. CASE Kind(i) # "vector"
    <3> DEFINE v == IF Kind(i) = "vset" THEN ConfigOf(i) ELSE c
               u == [uid |-> i.uid, pid |-> i.pid, uop |-> 0, cfg |-> NoInst]
    <3>1. DecodeInst(s, i) = [s EXCEPT !.config = v, !.waiting = Waits(i), !.insts = Append(@, u)]
      BY <1>0, <2>3 DEF DecodeInst
    <3>2. DecodeOne(s) = [queue |-> Tail(a), gen |-> b, config |-> v, waiting |-> Waits(i),
                          insts |-> Append(d, u)]
      <4> HIDE DEF v, u
      <4> QED
        BY <2>1, <3>1, ZenonT(40)
    <3> QED
      BY <1>3, <2>3, <3>2 DEF Iterated
  <2> QED
    BY <2>2, <2>3
<1>4. CASE ~w /\ n = 0 /\ a = << >>
  BY <1>0, <1>4 DEF DecodeOne, Iterated
<1> QED
  BY <1>1, <1>2, <1>3, <1>4

\* An element appended to the second of two sequences.
LEMMA AppendBehind ==
    ASSUME NEW S, NEW s \in Seq(S), NEW d \in Seq(S), NEW u, Append(s \o d, u) \in Seq(S)
    PROVE  u \in S /\ Append(d, u) \in Seq(S) /\ s \o Append(d, u) = Append(s \o d, u)
           /\ Len(d) \in Nat /\ Len(Append(d, u)) = Len(d) + 1
<1> DEFINE T == S \cup {u}
           x == s \o d
           y == Append(x, u)
<1>1. x \in Seq(S)
  BY Closed, Zenon
<1>2. x \in Seq(T) /\ u \in T
  <2>1. Range(x) \subseteq T
    BY <1>1, SeqFacts
  <2> QED
    BY <1>1, <2>1, WiderSeq
<1> HIDE DEF T, x
<1>3. Len(x) \in Nat /\ Len(y) = Len(x) + 1 /\ y[Len(x) + 1] = u
  BY <1>2, AppendFacts
<1>4. y \in Seq(S)
  BY DEF x
<1> HIDE DEF y
<1>5. u \in S
  <2>1. Len(x) + 1 \in 1..Len(y)
    BY <1>3
  <2> QED
    BY <1>3, <1>4, <2>1, SeqFacts
<1>6. Append(d, u) \in Seq(S) /\ Len(d) \in Nat /\ Len(Append(d, u)) = Len(d) + 1
  BY <1>5, AppendFacts
<1>7. s \o Append(d, u) = Append(s \o d, u)
  <2> DEFINE e == <<u>>
  <2>1. e \in Seq(S)
    BY <1>5
  <2>2. Append(d, u) = d \o e /\ Append(x, u) = x \o e
    BY <1>1, <1>5, AppendIsConcat
  <2> HIDE DEF e
  <2>3. Associates(s, d, e)
    BY <2>1, Assoc, Zenon
  <2> QED
    BY <2>2, <2>3 DEF Associates, x
<1> QED
  BY <1>5, <1>6, <1>7

\* How many uops remain, and for scalar programs that none do.
LEMMA GenNumber ==
    ASSUME NEW t \in Traces, NEW snt, NEW q, NEW g, NEW np, NEW nu, Ordered(t, snt, q, g, np, nu)
    PROVE  g.num_uops_to_generate_ \in Nat /\ (Scalar => g.num_uops_to_generate_ = 0)
<1> DEFINE last == snt[Len(snt)]
<1>1. CASE g = IdleGen
  BY <1>1 DEF IdleGen
<1>2. CASE g # IdleGen
  <2>1. snt # << >> /\ last.uop + 1 < UopsIn(t, last) /\ g.num_uops_to_generate_ = UopsIn(t, last)
    BY <1>2 DEF Ordered, GenRun
  <2>2. UopsIn(t, last) \in Nat /\ last \in SentUop /\ last.pid \in 1..Len(t)
    BY <2>1, LastSent DEF Ordered
  <2>3. last.uop \in Nat
    BY <2>2 DEF SentUop
  <2>4. t[last.pid].kind = "vector"
    BY <2>1, <2>3 DEF UopsIn
  <2>5. last.pid \in DOMAIN t
    BY <2>2, TraceAssumption, SeqFacts
  <2> QED
    BY <2>1, <2>2, <2>4, <2>5 DEF Scalar
<1> QED
  BY <1>1, <1>2

\* The head of the queue is an instruction of the trace.
LEMMA HeadInTrace ==
    ASSUME NEW t \in Traces, NEW snt, NEW q, NEW g, NEW np, NEW nu, Ordered(t, snt, q, g, np, nu),
           q # << >>
    PROVE  q[1] \in Inst /\ q[1].pid \in DOMAIN t
<1>1. DoneOf(snt) \in Nat
  BY DoneFacts DEF Ordered
<1>2. Len(q) \in Nat \ {0} /\ \A k \in 1..Len(q) : q[k] \in Inst
  BY SeqFacts DEF Ordered, QueueRun
<1>3. 1 \in 1..Len(q) /\ q[1].pid = DoneOf(snt) + 1
  BY <1>2 DEF Ordered, QueueRun
<1>4. np = DoneOf(snt) + Len(q) + 1 /\ np \in 1..Len(t) + 1 /\ Len(t) \in Nat
  BY DEF Ordered, QueueRun
<1>5. DoneOf(snt) + 1 \in 1..Len(t)
  BY <1>1, <1>2, <1>4
<1>6. DOMAIN t = 1..Len(t)
  BY TraceAssumption, SeqFacts
<1> QED
  BY <1>2, <1>3, <1>5, <1>6, Zenon

\* An iteration keeps the order.
LEMMA LoopStep ==
    ASSUME Proper, trace \in Traces, sent \in Seq(SentUop), NEW rest \in Seq(Inst), NEW n \in Nat,
           NEW s, Looped(s, n, rest)
    PROVE  Looped(DecodeOne(s), n + 1, rest)
<1> DEFINE a == s.queue
           b == s.gen
           c == s.config
           w == s.waiting
           d == s.insts
           x == sent \o d
           q == a \o rest
           r == DecodeOne(s)
<1>1. /\ s = [queue |-> a, gen |-> b, config |-> c, waiting |-> w, insts |-> d]
      /\ a \in Seq(Inst) /\ d \in Seq(SentUop) /\ c \in UsableConfig /\ w \in BOOLEAN /\ Len(d) <= n
      /\ Ordered(trace, x, q, b, next_pid, next_uid)
      /\ Scalar => Len(d) + Len(a) = Len(fetch_queue_)
  BY DEF Looped
<1>2. b.num_uops_to_generate_ \in Nat /\ (Scalar => b.num_uops_to_generate_ = 0)
  BY <1>1, GenNumber
<1>3. Len(d) \in Nat /\ Len(a) \in Nat
  BY <1>1, SeqFacts
<1> HIDE DEF a, b, c, w, d, x, q
<1>4. ASSUME a # << >>
      PROVE  /\ Tail(q) = Tail(a) \o rest /\ q[1] = Head(a) /\ q # << >>
             /\ Tail(a) \in Seq(Inst) /\ Len(Tail(a)) = Len(a) - 1
             /\ Head(a) \in Inst /\ Head(a).pid \in DOMAIN trace
  <2>1. Tail(q) = Tail(a) \o rest /\ Head(q) = Head(a)
    BY <1>1, <1>4, TailConcat DEF q
  <2>2. Tail(a) \in Seq(Inst) /\ Len(Tail(a)) = Len(a) - 1 /\ Len(a) \in Nat \ {0}
    BY <1>1, <1>4, TailFacts, SeqFacts
  <2>3. q \in Seq(Inst) /\ Len(q) = Len(a) + Len(rest) /\ Len(rest) \in Nat
    BY <1>1, ConcatFacts, SeqFacts DEF q
  <2>4. q # << >>
    BY <2>2, <2>3, SeqFacts
  <2>5. q[1] = Head(q)
    BY <2>3, <2>4
  <2>6. q[1] \in Inst /\ q[1].pid \in DOMAIN trace
    BY <1>1, <2>4, HeadInTrace
  <2> QED
    BY <2>1, <2>2, <2>4, <2>5, <2>6
<1>5. ASSUME NEW u, NEW p, NEW g, Ordered(trace, Append(x, u), p, g, next_pid, next_uid)
      PROVE  /\ Append(d, u) \in Seq(SentUop) /\ sent \o Append(d, u) = Append(x, u)
             /\ Len(Append(d, u)) = Len(d) + 1 /\ Len(Append(d, u)) <= n + 1
  <2>1. Append(x, u) \in Seq(SentUop)
    BY <1>5 DEF Ordered, SentRun
  <2>2. Append(d, u) \in Seq(SentUop) /\ sent \o Append(d, u) = Append(x, u)
        /\ Len(Append(d, u)) = Len(d) + 1
    BY <1>1, <2>1, AppendBehind DEF x
  <2> QED
    BY <1>1, <1>3, <2>2
<1>6. CASE r = s
  <2>1. Len(d) <= n + 1
    BY <1>1, <1>3
  <2> QED
    BY <1>6, <2>1 DEF Looped, d
<1>7. CASE /\ b.num_uops_to_generate_ > 0
           /\ r = [queue |-> a, gen |-> AfterUop(b), config |-> c, waiting |-> w,
                   insts |-> Append(d, UopOf(b))]
  <2> DEFINE u == UopOf(b)
  <2>1. Ordered(trace, Append(x, u), q, AfterUop(b), next_pid, next_uid)
    BY <1>1, <1>7, UopStep
  <2> HIDE DEF u, r
  <2>2. /\ Append(d, u) \in Seq(SentUop) /\ sent \o Append(d, u) = Append(x, u)
        /\ Len(Append(d, u)) <= n + 1
    BY <1>5, <2>1
  <2>3. ~Scalar
    BY <1>2, <1>7
  <2>4. /\ r = [queue |-> a, gen |-> AfterUop(b), config |-> c, waiting |-> w, insts |-> Append(d, u)]
    BY <1>7 DEF u
  <2>5. /\ r.queue = a /\ r.gen = AfterUop(b) /\ r.config = c /\ r.waiting = w
        /\ r.insts = Append(d, u)
    BY <2>4
  <2>6. Ordered(trace, sent \o r.insts, r.queue \o rest, r.gen, next_pid, next_uid)
    BY <2>1, <2>2, <2>5 DEF q
  <2>7. Looped(r, n + 1, rest)
    BY <1>1, <2>2, <2>3, <2>4, <2>5, <2>6 DEF Looped
  <2> QED
    BY <2>7 DEF r
<1>8. ASSUME NEW u, NEW g, NEW v \in UsableConfig, NEW z \in BOOLEAN, a # << >>,
             Ordered(trace, Append(x, u), Tail(q), g, next_pid, next_uid),
             r = [queue |-> Tail(a), gen |-> g, config |-> v, waiting |-> z, insts |-> Append(d, u)]
      PROVE  Looped(r, n + 1, rest)
  <2> HIDE DEF r
  <2>1. /\ Append(d, u) \in Seq(SentUop) /\ sent \o Append(d, u) = Append(x, u)
        /\ Len(Append(d, u)) <= n + 1 /\ Len(Append(d, u)) = Len(d) + 1
    BY <1>5, <1>8
  <2>2. Tail(q) = Tail(a) \o rest /\ Tail(a) \in Seq(Inst) /\ Len(Tail(a)) = Len(a) - 1
    BY <1>4, <1>8
  <2>3. /\ r.queue = Tail(a) /\ r.gen = g /\ r.config = v /\ r.waiting = z
        /\ r.insts = Append(d, u)
    BY <1>8
  <2>4. Ordered(trace, sent \o r.insts, r.queue \o rest, r.gen, next_pid, next_uid)
    BY <1>8, <2>1, <2>2, <2>3
  <2>5. Scalar => Len(r.insts) + Len(r.queue) = Len(fetch_queue_)
    <3>1. Len(r.insts) + Len(r.queue) = Len(d) + Len(a)
      BY <1>3, <2>1, <2>2, <2>3
    <3> QED
      BY <1>1, <3>1
  <2>6. r = [queue |-> r.queue, gen |-> r.gen, config |-> r.config, waiting |-> r.waiting,
             insts |-> r.insts]
    BY <1>8
  <2> QED
    BY <2>1, <2>2, <2>3, <2>4, <2>5, <2>6 DEF Looped
<1>9. ASSUME b.num_uops_to_generate_ = 0, a # << >>, Kind(Head(a)) = "vector"
      PROVE  LET h == SetInst([uid |-> Head(a).uid, pid |-> Head(a).pid, cfg |-> c],
                              NumUops("ELEMENTWISE", 0, c))
             IN  r = [queue |-> Tail(a), gen |-> AfterUop(h), config |-> c, waiting |-> w,
                      insts |-> Append(d, UopOf(h))] => Looped(r, n + 1, rest)
  <2> DEFINE h == SetInst([uid |-> Head(a).uid, pid |-> Head(a).pid, cfg |-> c],
                          NumUops("ELEMENTWISE", 0, c))
  <2>1. q[1] = Head(a) /\ q # << >> /\ trace[Head(a).pid].kind = "vector"
    BY <1>4, <1>9 DEF Kind
  <2>2. h = SetInst([uid |-> q[1].uid, pid |-> q[1].pid, cfg |-> c], NumUops("ELEMENTWISE", 0, c))
    BY <2>1
  <2> HIDE DEF h, r
  <2>3. Ordered(trace, Append(x, UopOf(h)), Tail(q), AfterUop(h), next_pid, next_uid)
    BY <1>1, <1>9, <2>1, <2>2, VectorStep
  <2>4. r = [queue |-> Tail(a), gen |-> AfterUop(h), config |-> c, waiting |-> w,
             insts |-> Append(d, UopOf(h))] => Looped(r, n + 1, rest)
    BY <1>1, <1>8, <1>9, <2>3
  <2> QED
    BY <2>4 DEF h
<1>10. ASSUME b.num_uops_to_generate_ = 0, a # << >>, Kind(Head(a)) # "vector",
              r = [queue |-> Tail(a), gen |-> b,
                   config |-> IF Kind(Head(a)) = "vset" THEN ConfigOf(Head(a)) ELSE c,
                   waiting |-> Waits(Head(a)),
                   insts |-> Append(d, [uid |-> Head(a).uid, pid |-> Head(a).pid,
                                        uop |-> 0, cfg |-> NoInst])]
       PROVE  Looped(r, n + 1, rest)
  <2> DEFINE u == [uid |-> Head(a).uid, pid |-> Head(a).pid, uop |-> 0, cfg |-> NoInst]
             v == IF Kind(Head(a)) = "vset" THEN ConfigOf(Head(a)) ELSE c
             z == Waits(Head(a))
  <2>1. q[1] = Head(a) /\ q # << >> /\ trace[q[1].pid].kind # "vector"
    BY <1>4, <1>10 DEF Kind
  <2>2. u = [uid |-> q[1].uid, pid |-> q[1].pid, uop |-> 0, cfg |-> NoInst]
    BY <2>1
  <2>3. v \in UsableConfig
    BY <1>1, <1>4, <1>10, ConfigUsable
  <2>4. z \in BOOLEAN
    BY DEF Waits
  <2>5. r = [queue |-> Tail(a), gen |-> b, config |-> v, waiting |-> z, insts |-> Append(d, u)]
    BY <1>10
  <2> HIDE DEF u, v, z, r
  <2>6. Ordered(trace, Append(x, u), Tail(q), b, next_pid, next_uid)
    BY <1>1, <1>10, <2>1, <2>2, ScalarStep
  <2> QED
    BY <1>8, <1>10, <2>3, <2>4, <2>5, <2>6
<1> QED
  <2> HIDE DEF r
  <2>1. Iterated(r, s, a, b, c, w, d)
    BY <1>1, <1>2, DecodeOneIs, Zenon DEF r
  <2> QED
    BY <1>6, <1>7, <1>9, <1>10, <2>1 DEF r, Iterated

\* f is the loop up to its iteration n.
LoopIs(f, n) == f = [k \in 0..n |-> IF k = 0 THEN Loop0 ELSE DecodeOne(f[k - 1])]

\* The loop at iteration k.
LEMMA LoopAt ==
    ASSUME NEW f, NEW n \in Nat, LoopIs(f, n), NEW k \in 0..n
    PROVE  f[k] = IF k = 0 THEN Loop0 ELSE DecodeOne(f[k - 1])
<1> DEFINE h(j) == IF j = 0 THEN Loop0 ELSE DecodeOne(f[j - 1])
<1>1. f = [j \in 0..n |-> h(j)]
  BY DEF LoopIs
<1> HIDE DEF h
<1>2. f[k] = h(k)
  BY <1>1
<1> QED
  BY <1>2 DEF h

\* The loop's recursion has a solution.
LEMMA LoopExists == ASSUME NEW n \in Nat PROVE \E f : LoopIs(f, n)
<1> DEFINE B == {m \in Nat : ~ \E f : LoopIs(f, m)}
<1> SUFFICES B = {}
  OBVIOUS
<1> SUFFICES ASSUME B # {} PROVE FALSE
  OBVIOUS
<1>1. PICK m \in B : \A k \in B : m <= k
  BY LeastNumber, B \in SUBSET Nat
<1>2. CASE m = 0
  <2> DEFINE f == [k \in 0..0 |-> Loop0]
  <2>1. LoopIs(f, 0)
    BY DEF LoopIs
  <2> QED
    BY <1>2, <2>1
<1>3. CASE m # 0
  <2>1. m - 1 \in Nat /\ m - 1 \notin B
    BY <1>1, <1>3
  <2>2. PICK f : LoopIs(f, m - 1)
    BY <2>1
  <2> DEFINE g == [k \in 0..m |-> IF k = 0 THEN Loop0 ELSE DecodeOne(f[k - 1])]
  <2>3. ASSUME NEW k \in 0..m - 1 PROVE g[k] = f[k]
    <3>1. k \in 0..m
      BY <2>1
    <3>2. f[k] = IF k = 0 THEN Loop0 ELSE DecodeOne(f[k - 1])
      BY <2>1, <2>2, LoopAt
    <3> QED
      BY <3>1, <3>2
  <2>4. ASSUME NEW k \in 0..m, k # 0 PROVE g[k - 1] = f[k - 1]
    <3>1. k - 1 \in 0..m - 1
      BY <2>1, <2>4
    <3> QED
      BY <2>3, <3>1
  <2>5. LoopIs(g, m)
    BY <2>4 DEF LoopIs
  <2> QED
    BY <2>5
<1> QED
  BY <1>2, <1>3

\* A session keeps the order.
LEMMA SessionOrder ==
    ASSUME Proper, trace \in Traces, sent \in Seq(SentUop), NEW rest \in Seq(Inst), NEW n \in Nat,
           Looped(Loop0, 0, rest)
    PROVE  Looped(Session(n), n, rest)
<1> DEFINE f == CHOOSE g : LoopIs(g, n)
           B == {k \in 0..n : ~Looped(f[k], k, rest)}
<1>1. Session(n) = f[n]
  BY DEF Session, LoopIs
<1>2. LoopIs(f, n)
  BY LoopExists
<1> HIDE DEF f
<1>3. ASSUME NEW k \in 0..n PROVE f[k] = IF k = 0 THEN Loop0 ELSE DecodeOne(f[k - 1])
  BY <1>2, LoopAt
<1>4. B = {}
  <2> SUFFICES ASSUME B # {} PROVE FALSE
    OBVIOUS
  <2>1. B \in SUBSET Nat
    OBVIOUS
  <2>2. PICK m \in B : \A k \in B : m <= k
    BY <2>1, LeastNumber
  <2>3. 0 \in 0..n /\ f[0] = Loop0
    BY <1>3
  <2>4. m # 0
    BY <2>2, <2>3
  <2>5. m - 1 \in Nat /\ m - 1 \in 0..n /\ (m - 1) + 1 = m /\ m \in 0..n /\ ~(m <= m - 1)
    BY <2>2, <2>4
  <2>6. Looped(f[m - 1], m - 1, rest)
    BY <2>2, <2>5
  <2>7. Looped(DecodeOne(f[m - 1]), (m - 1) + 1, rest)
    BY <2>5, <2>6, LoopStep
  <2>8. f[m] = DecodeOne(f[m - 1])
    BY <1>3, <2>4, <2>5
  <2>9. Looped(f[m], m, rest)
    BY <2>5, <2>7, <2>8
  <2> QED
    BY <2>2, <2>9
<1>5. n \in 0..n
  OBVIOUS
<1> QED
  BY <1>1, <1>4, <1>5

\* What one group, or none, adds to the queue.
LEMMA FlattenOne ==
    /\ FlattenSeq(<< >>) = << >>
    /\ \A g : FlattenSeq(<<g>>) = g
<1>1. FlattenSeq(<< >>) = << >>
  BY DEF FlattenSeq
<1>2. ASSUME NEW g PROVE FlattenSeq(<<g>>) = g
  <2> DEFINE s == <<g>>
             P(f) == f = [i \in 1..1 |-> IF i = 1 THEN s[i] ELSE f[i - 1] \o s[i]]
             h == CHOOSE f : P(f)
  <2>1. Len(s) = 1 /\ s[1] = g
    OBVIOUS
  <2>2. FlattenSeq(s) = h[1]
    BY <2>1 DEF FlattenSeq
  <2>3. P([i \in 1..1 |-> g])
    OBVIOUS
  <2>4. P(h)
    BY <2>3
  <2>5. h[1] = g
    BY <2>4
  <2> QED
    BY <2>2, <2>5
<1> QED
  BY <1>1, <1>2

-----------------------------------------------------------------------------
(* The invariant behind the order of the program.                          *)

\* A group is in Fetch's port between Fetch's event, which is one in a cycle, and the
\* next cycle.
GroupInv ==
    /\ to_decode \in Seq(Seq(Inst)) /\ Len(to_decode) <= 1
    /\ to_decode # << >> => \/ phase = "port"
                            \/ /\ phase = "fetch" /\ 0 \notin ev_send_insts
                               /\ \A r \in fetch_resp : r.due > 0

\* What the order needs to know of the types; the vsets that are out are some.
PartsInv ==
    /\ trace \in Traces /\ vector_config_ \in UsableConfig /\ waiting_on_vset_ \in BOOLEAN
    /\ fetch_queue_ \in Seq(Inst) /\ ibuf_ \in Seq(Inst) /\ fetch_buffer_ \in Seq(Entry)
    /\ Len(ibuf_) <= IBufCapacity
    /\ uop_queue_credits_ \in Nat /\ uops_held \in Nat /\ credits_inst_queue_ \in Nat
    /\ \A i \in vsets_out : i.pid \in DOMAIN trace /\ Waits(i)

RunInv == Ordered(trace, sent, Queued, gen, next_pid, next_uid)

OrderInv == PartsInv /\ GroupInv /\ RunInv /\ (Scalar => FetchCreditsConserved)

-----------------------------------------------------------------------------
(* The queue of instructions before Decode's session.                      *)

InstsOf(b) == [k \in DOMAIN b |-> b[k].inst]

\* The instructions of a buffer's entries.
LEMMA InstsFacts ==
    ASSUME NEW b \in Seq(Entry)
    PROVE  /\ InstsOf(b) \in Seq(Inst) /\ Len(InstsOf(b)) = Len(b) /\ Len(b) \in Nat
           /\ \A k \in 1..Len(b) : InstsOf(b)[k] = b[k].inst
<1>1. Len(b) \in Nat /\ DOMAIN b = 1..Len(b) /\ \A k \in 1..Len(b) : b[k] \in Entry
  BY SeqFacts
<1>2. InstsOf(b) \in [1..Len(b) -> Inst]
  BY <1>1 DEF InstsOf, Entry
<1>3. \A k \in 1..Len(b) : InstsOf(b)[k] = b[k].inst
  BY <1>1 DEF InstsOf
<1> QED
  BY <1>1, <1>2, <1>3, FunIsSeq

\* There is no group in the port, or one.
LEMMA OneGroup ==
    ASSUME GroupInv
    PROVE  \/ to_decode = << >> /\ FlattenSeq(to_decode) = << >>
           \/ /\ to_decode # << >> /\ Tail(to_decode) = << >> /\ Head(to_decode) \in Seq(Inst)
              /\ FlattenSeq(to_decode) = Head(to_decode)
<1>1. CASE to_decode = << >>
  BY <1>1, FlattenOne
<1>2. CASE to_decode # << >>
  <2>1. /\ Len(to_decode) \in Nat \ {0} /\ Head(to_decode) = to_decode[1]
        /\ Head(to_decode) \in Seq(Inst) /\ Tail(to_decode) \in Seq(Seq(Inst))
        /\ Len(Tail(to_decode)) = Len(to_decode) - 1
    BY <1>2, TailFacts DEF GroupInv
  <2>2. Len(to_decode) = 1
    BY <2>1 DEF GroupInv
  <2>3. Tail(to_decode) = << >>
    BY <2>1, <2>2, SeqFacts
  <2>4. to_decode = <<Head(to_decode)>>
    <3>1. to_decode = <<Head(to_decode)>> \o Tail(to_decode)
      BY <1>2, TailRange DEF GroupInv
    <3>2. <<Head(to_decode)>> \in Seq(Seq(Inst))
      BY <2>1
    <3>3. Neutral(<<Head(to_decode)>>)
      BY <3>2, EmptyNeutral, Zenon
    <3> QED
      BY <2>3, <3>1, <3>3 DEF Neutral
  <2>5. FlattenSeq(<<Head(to_decode)>>) = Head(to_decode)
    BY FlattenOne, Zenon
  <2> QED
    BY <1>2, <2>1, <2>3, <2>4, <2>5
<1> QED
  BY <1>1, <1>2

\* The four parts of the queue, however they are put together.
Grouped(a, b, c, d) == /\ ((a \o b) \o c) \o d = a \o ((b \o c) \o d)
                       /\ ((a \o b) \o c) \o d = (a \o b) \o (c \o d)
                       /\ ((a \o b) \o c) \o d \in Seq(Inst) /\ (b \o c) \o d \in Seq(Inst)
                       /\ a \o b \in Seq(Inst) /\ c \o d \in Seq(Inst)

LEMMA Regroup == \A a, b, c, d \in Seq(Inst) : Grouped(a, b, c, d)
<1> SUFFICES ASSUME NEW a \in Seq(Inst), NEW b \in Seq(Inst), NEW c \in Seq(Inst), NEW d \in Seq(Inst)
             PROVE  Grouped(a, b, c, d)
  BY Zenon
<1>1. a \o b \in Seq(Inst) /\ b \o c \in Seq(Inst) /\ c \o d \in Seq(Inst)
  BY Closed, Zenon
<1>2. (a \o b) \o c \in Seq(Inst) /\ (b \o c) \o d \in Seq(Inst)
  BY <1>1, Closed, Zenon
<1>3. ((a \o b) \o c) \o d \in Seq(Inst)
  BY <1>2, Closed, Zenon
<1>4. Associates(a, b, c) /\ Associates(a, b \o c, d) /\ Associates(a \o b, c, d)
  BY <1>1, Assoc, Zenon
<1> QED
  BY <1>1, <1>2, <1>3, <1>4 DEF Associates, Grouped

\* A group before the buffers.
Between == (FlattenSeq(to_decode) \o InstsOf(fetch_buffer_)) \o ibuf_

\* What is behind the fetch queue.
LEMMA QueuedParts ==
    ASSUME PartsInv, GroupInv
    PROVE  /\ Queued = fetch_queue_ \o Between /\ Between \in Seq(Inst) /\ Queued \in Seq(Inst)
           /\ Queued = (fetch_queue_ \o FlattenSeq(to_decode)) \o (InstsOf(fetch_buffer_) \o ibuf_)
           /\ FlattenSeq(to_decode) \in Seq(Inst) /\ InstsOf(fetch_buffer_) \in Seq(Inst)
<1>1. FlattenSeq(to_decode) \in Seq(Inst)
  <2>1. << >> \in Seq(Inst)
    OBVIOUS
  <2> QED
    BY <2>1, OneGroup
<1>2. InstsOf(fetch_buffer_) \in Seq(Inst)
  BY InstsFacts DEF PartsInv
<1>3. Grouped(fetch_queue_, FlattenSeq(to_decode), InstsOf(fetch_buffer_), ibuf_)
  BY <1>1, <1>2, Regroup, Zenon DEF PartsInv
<1> QED
  BY <1>1, <1>2, <1>3 DEF Grouped, Queued, InstsOf, Between

-----------------------------------------------------------------------------
(* What Fetch does with the order.                                         *)

\* The next instructions of the trace.
LEMMA NextInstsFacts ==
    ASSUME trace \in Traces, NEW n \in Nat, next_pid \in 1..Len(trace) + 1, next_uid \in Nat
    PROVE  /\ Left(n) \in 0..n /\ next_pid + Left(n) \in 1..Len(trace) + 1 /\ Len(trace) \in Nat
           /\ NextInsts(n) \in Seq(Inst) /\ Len(NextInsts(n)) = Left(n)
           /\ \A k \in 1..Left(n) : NextInsts(n)[k] = [uid |-> next_uid + k - 1, pid |-> next_pid + k - 1]
<1>1. Len(trace) \in Nat
  BY TraceAssumption, SeqFacts
<1>2. Left(n) \in 0..n /\ next_pid + Left(n) \in 1..Len(trace) + 1
  BY <1>1 DEF Left
<1>3. Left(n) \in Nat /\ next_pid \in Nat \ {0}
  BY <1>1, <1>2
<1> DEFINE m == Left(n)
           r(k) == [uid |-> next_uid + k - 1, pid |-> next_pid + k - 1]
<1>4. NextInsts(n) = [k \in 1..m |-> r(k)]
  BY DEF NextInsts
<1> HIDE DEF m
<1>5. \A k \in 1..m : r(k) \in Inst
  BY <1>3 DEF Inst, m
<1> HIDE DEF r
<1>6. NextInsts(n) \in [1..m -> Inst] /\ \A k \in 1..m : NextInsts(n)[k] = r(k)
  BY <1>4, <1>5
<1>7. m \in Nat
  BY <1>3 DEF m
<1> QED
  BY <1>1, <1>2, <1>6, <1>7, FunIsSeq DEF m, r

\* They follow what was read before.
LEMMA FetchOrder ==
    ASSUME trace \in Traces, NEW q, NEW n \in Nat,
           Ordered(trace, sent, q, gen, next_pid, next_uid)
    PROVE  Ordered(trace, sent, q \o NextInsts(n), gen, next_pid + Left(n), next_uid + Left(n))
<1> DEFINE m == Left(n)
           x == NextInsts(n)
           d == DoneOf(sent)
           y == q \o x
<1>0. /\ SentRun(trace, sent, next_uid) /\ GenRun(trace, sent, gen)
      /\ QueueRun(trace, sent, q, next_pid, next_uid)
  BY DEF Ordered
<1>1. /\ q \in Seq(Inst) /\ next_uid \in Nat
      /\ \A k \in 1..Len(q) : q[k].pid = d + k /\ q[k].uid < next_uid
      /\ \A j, k \in 1..Len(q) : j < k => q[j].uid < q[k].uid
      /\ \A j \in 1..Len(sent), k \in 1..Len(q) : sent[j].uid < q[k].uid
      /\ next_pid = d + Len(q) + 1 /\ next_pid \in 1..Len(trace) + 1
  BY <1>0 DEF QueueRun
<1>2. /\ m \in Nat /\ next_pid + m \in 1..Len(trace) + 1 /\ Len(trace) \in Nat
      /\ x \in Seq(Inst) /\ Len(x) = m
      /\ \A k \in 1..m : x[k] = [uid |-> next_uid + k - 1, pid |-> next_pid + k - 1]
  <2>1. m \in 0..n
    BY <1>1, NextInstsFacts
  <2>2. m \in Nat
    BY <2>1
  <2> QED
    BY <1>1, <2>2, NextInstsFacts
<1>3. /\ y \in Seq(Inst) /\ Len(y) = Len(q) + Len(x) /\ Len(q) \in Nat
      /\ \A k \in 1..Len(q) : y[k] = q[k]
      /\ \A k \in 1..Len(x) : y[Len(q) + k] = x[k]
  <2>1. q \in Seq(Inst) /\ x \in Seq(Inst)
    BY <1>1, <1>2
  <2> HIDE DEF x
  <2>2. /\ q \o x \in Seq(Inst) /\ Len(q \o x) = Len(q) + Len(x) /\ Len(q) \in Nat
        /\ \A k \in 1..Len(q) : (q \o x)[k] = q[k]
        /\ \A k \in 1..Len(x) : (q \o x)[Len(q) + k] = x[k]
    BY <2>1, ConcatFacts
  <2> QED
    BY <2>2
<1>4. /\ sent \in Seq(SentUop)
      /\ \A k \in 1..Len(sent) : sent[k].uid < next_uid
  BY <1>0 DEF SentRun
<1>5. Len(sent) \in Nat /\ (\A k \in 1..Len(sent) : sent[k] \in SentUop) /\ d \in Nat
  BY <1>0, <1>4, SeqFacts, DoneFacts
<1>6. \A k \in 1..Len(sent) : sent[k].uid \in Nat
  BY <1>5 DEF SentUop
<1>7. \A k \in 1..Len(q) : q[k].uid \in Nat
  <2>1. \A k \in 1..Len(q) : q[k] \in Inst
    BY <1>1, SeqFacts
  <2> QED
    BY <2>1 DEF Inst
<1> HIDE DEF m, x, d, y
<1>8. ASSUME NEW k \in 1..Len(y)
      PROVE  \/ k \in 1..Len(q) /\ y[k] = q[k]
             \/ /\ k > Len(q) /\ k - Len(q) \in 1..m
                /\ y[k].uid = next_uid + (k - Len(q)) - 1 /\ y[k].pid = next_pid + (k - Len(q)) - 1
  <2>1. CASE k \in 1..Len(q)
    BY <1>3, <2>1
  <2>2. CASE k \notin 1..Len(q)
    <3>1. k - Len(q) \in 1..m /\ Len(q) + (k - Len(q)) = k /\ k > Len(q)
      BY <1>2, <1>3, <2>2
    <3>2. y[Len(q) + (k - Len(q))] = x[k - Len(q)]
      BY <1>2, <1>3, <3>1
    <3> QED
      BY <1>2, <3>1, <3>2
  <2> QED
    BY <2>1, <2>2
<1>9. SentRun(trace, sent, next_uid + m)
  <2>1. \A k \in 1..Len(sent) : sent[k].uid < next_uid + m
    BY <1>1, <1>2, <1>4, <1>6
  <2> QED
    BY <1>0, <2>1 DEF SentRun
<1>10. QueueRun(trace, sent, y, next_pid + m, next_uid + m)
  <2>1. ASSUME NEW k \in 1..Len(y) PROVE y[k].pid = d + k /\ y[k].uid < next_uid + m
    <3>1. CASE k \in 1..Len(q) /\ y[k] = q[k]
      BY <1>1, <1>2, <1>7, <3>1, SMTT(30)
    <3>2. CASE /\ k > Len(q) /\ k - Len(q) \in 1..m
               /\ y[k].uid = next_uid + (k - Len(q)) - 1 /\ y[k].pid = next_pid + (k - Len(q)) - 1
      <4>1. y[k].pid = d + k
        BY <1>1, <1>3, <1>5, <3>2, SMTT(30)
      <4>2. y[k].uid < next_uid + m
        BY <1>1, <1>2, <1>3, <3>2
      <4> QED
        BY <4>1, <4>2
    <3> QED
      BY <1>8, <3>1, <3>2
  <2>2. ASSUME NEW j \in 1..Len(y), NEW k \in 1..Len(y), j < k PROVE y[j].uid < y[k].uid
    <3>1. CASE k \in 1..Len(q)
      <4>1. j \in 1..Len(q)
        BY <1>3, <2>2, <3>1
      <4> QED
        BY <1>1, <1>3, <2>2, <3>1, <4>1
    <3>2. CASE k \notin 1..Len(q)
      <4>1. k > Len(q) /\ y[k].uid = next_uid + (k - Len(q)) - 1 /\ k - Len(q) \in 1..m
        BY <1>8, <3>2
      <4>2. \/ j \in 1..Len(q) /\ y[j] = q[j]
            \/ y[j].uid = next_uid + (j - Len(q)) - 1
        BY <1>8
      <4>3. CASE j \in 1..Len(q) /\ y[j] = q[j]
        BY <1>1, <1>3, <1>7, <4>1, <4>3
      <4>4. CASE y[j].uid = next_uid + (j - Len(q)) - 1
        BY <1>1, <1>3, <2>2, <4>1, <4>4
      <4> QED
        BY <4>2, <4>3, <4>4
    <3> QED
      BY <3>1, <3>2
  <2>3. ASSUME NEW j \in 1..Len(sent), NEW k \in 1..Len(y) PROVE sent[j].uid < y[k].uid
    <3>1. CASE k \in 1..Len(q) /\ y[k] = q[k]
      BY <1>1, <3>1
    <3>2. CASE k - Len(q) \in 1..m /\ y[k].uid = next_uid + (k - Len(q)) - 1
      <4>1. sent[j].uid < next_uid /\ sent[j].uid \in Nat
        BY <1>4, <1>6
      <4> QED
        BY <1>1, <1>3, <3>2, <4>1
    <3> QED
      BY <1>8, <3>1, <3>2
  <2>4. next_pid + m = d + Len(y) + 1
    BY <1>1, <1>2, <1>3, <1>5
  <2>5. next_uid + m \in Nat
    BY <1>1, <1>2
  <2> QED
    BY <1>2, <1>3, <2>1, <2>2, <2>3, <2>4, <2>5 DEF QueueRun, d
<1> QED
  BY <1>0, <1>9, <1>10 DEF Ordered, m, x, y

\* The least of some numbers.
LEMMA MinOf ==
    ASSUME NEW S \in SUBSET Nat, S # {}
    PROVE  Min(S) \in S /\ \A k \in S : Min(S) <= k
<1>1. \E m \in S : \A k \in S : m <= k
  BY LeastNumber
<1> QED
  BY <1>1 DEF Min

\* The greatest of some numbers up to n.
LEMMA MaxOf ==
    ASSUME NEW n \in Nat, NEW S \in SUBSET (0..n), S # {}
    PROVE  Max(S) \in S
<1> DEFINE B == {k \in 0..n : n - k \in S}
<1>1. B \in SUBSET Nat
  OBVIOUS
<1>2. B # {}
  <2>1. PICK j \in S : TRUE
    OBVIOUS
  <2>2. n - j \in 0..n /\ n - (n - j) = j
    OBVIOUS
  <2> QED
    BY <2>1, <2>2
<1>3. PICK m \in B : \A k \in B : m <= k
  BY <1>1, <1>2, LeastNumber
<1>4. ASSUME NEW j \in S PROVE n - m >= j
  <2>1. n - j \in 0..n /\ n - (n - j) = j /\ j \in Nat
    OBVIOUS
  <2>2. n - j \in B
    BY <2>1
  <2>3. m <= n - j /\ m \in Nat
    BY <1>3, <2>2
  <2> QED
    BY <2>1, <2>3
<1>5. \E x \in S : \A y \in S : x >= y
  BY <1>3, <1>4
<1> QED
  BY <1>5 DEF Max

\* A sequence cut in two.
LEMMA CutInTwo ==
    ASSUME NEW S, NEW s \in Seq(S), NEW n \in 0..Len(s)
    PROVE  LET a == SubSeq(s, 1, n)
               b == SubSeq(s, n + 1, Len(s))
           IN  /\ a \in Seq(S) /\ b \in Seq(S) /\ a \o b = s
               /\ Len(a) = n /\ Len(b) = Len(s) - n
               /\ \A k \in 1..n : a[k] = s[k]
               /\ \A k \in 1..Len(s) - n : b[k] = s[n + k]
<1>1. Len(s) \in Nat /\ n \in Nat /\ \A k \in 1..Len(s) : s[k] \in S
  BY SeqFacts
<1>2. \A i \in 1..n : s[i] \in S
  BY <1>1
<1>3. \A i \in n + 1..Len(s) : s[i] \in S
  BY <1>1
<1>4. /\ SubSeq(s, 1, n) \in Seq(S) /\ Len(SubSeq(s, 1, n)) = n
      /\ \A k \in 1..n : SubSeq(s, 1, n)[k] = s[k]
  <2>1. /\ SubSeq(s, 1, n) \in Seq(S) /\ Len(SubSeq(s, 1, n)) = IF 1 <= n THEN n - 1 + 1 ELSE 0
        /\ \A i \in 1..n - 1 + 1 : SubSeq(s, 1, n)[i] = s[1 + i - 1]
    BY <1>1, <1>2, SubSeqProperties
  <2> QED
    BY <1>1, <2>1
<1>5. /\ SubSeq(s, n + 1, Len(s)) \in Seq(S) /\ Len(SubSeq(s, n + 1, Len(s))) = Len(s) - n
      /\ \A k \in 1..Len(s) - n : SubSeq(s, n + 1, Len(s))[k] = s[n + k]
  <2>1. /\ SubSeq(s, n + 1, Len(s)) \in Seq(S)
        /\ Len(SubSeq(s, n + 1, Len(s))) = IF n + 1 <= Len(s) THEN Len(s) - (n + 1) + 1 ELSE 0
        /\ \A i \in 1..Len(s) - (n + 1) + 1 : SubSeq(s, n + 1, Len(s))[i] = s[n + 1 + i - 1]
    BY <1>1, <1>3, SubSeqProperties
  <2> QED
    BY <1>1, <2>1
<1>6. SubSeq(s, 1, n) \o SubSeq(s, n + 1, Len(s)) = s
  <2>1. 1 \in 1..Len(s) + 1 /\ n \in 1 - 1..Len(s) /\ Len(s) \in n..Len(s)
    BY <1>1
  <2>2. SubSeq(s, 1, n) \o SubSeq(s, n + 1, Len(s)) = SubSeq(s, 1, Len(s))
    BY <2>1, ConcatAdjacentSubSeq
  <2> QED
    BY <2>2, SubSeqFull
<1> QED
  BY <1>4, <1>5, <1>6

\* The instructions of two buffers.
LEMMA InstsConcat ==
    ASSUME NEW b \in Seq(Entry), NEW e \in Seq(Entry)
    PROVE  InstsOf(b \o e) = InstsOf(b) \o InstsOf(e)
<1> DEFINE x == InstsOf(b \o e)
           y == InstsOf(b) \o InstsOf(e)
<1>1. /\ b \o e \in Seq(Entry) /\ Len(b \o e) = Len(b) + Len(e)
      /\ Len(b) \in Nat /\ Len(e) \in Nat
      /\ \A k \in 1..Len(b) : (b \o e)[k] = b[k]
      /\ \A k \in 1..Len(e) : (b \o e)[Len(b) + k] = e[k]
  BY ConcatFacts
<1>2. /\ InstsOf(b) \in Seq(Inst) /\ Len(InstsOf(b)) = Len(b)
      /\ \A k \in 1..Len(b) : InstsOf(b)[k] = b[k].inst
  BY InstsFacts
<1>3. /\ InstsOf(e) \in Seq(Inst) /\ Len(InstsOf(e)) = Len(e)
      /\ \A k \in 1..Len(e) : InstsOf(e)[k] = e[k].inst
  BY InstsFacts
<1>4. /\ x \in Seq(Inst) /\ Len(x) = Len(b \o e)
      /\ \A k \in 1..Len(b \o e) : x[k] = (b \o e)[k].inst
  BY <1>1, InstsFacts
<1>5. /\ y \in Seq(Inst) /\ Len(y) = Len(InstsOf(b)) + Len(InstsOf(e))
      /\ \A k \in 1..Len(InstsOf(b)) : y[k] = InstsOf(b)[k]
      /\ \A k \in 1..Len(InstsOf(e)) : y[Len(InstsOf(b)) + k] = InstsOf(e)[k]
  <2> DEFINE u == InstsOf(b)
             v == InstsOf(e)
  <2>1. u \in Seq(Inst) /\ v \in Seq(Inst)
    BY <1>2, <1>3
  <2> HIDE DEF u, v
  <2>2. /\ u \o v \in Seq(Inst) /\ Len(u \o v) = Len(u) + Len(v)
        /\ \A k \in 1..Len(u) : (u \o v)[k] = u[k]
        /\ \A k \in 1..Len(v) : (u \o v)[Len(u) + k] = v[k]
    BY <2>1, ConcatFacts
  <2> QED
    BY <2>2 DEF u, v
<1> HIDE DEF x, y
<1>6. ASSUME NEW k \in 1..Len(x) PROVE x[k] = y[k]
  <2>1. CASE k \in 1..Len(b)
    <3>1. k \in 1..Len(b \o e) /\ k \in 1..Len(InstsOf(b))
      BY <1>1, <1>2, <2>1
    <3>2. x[k] = (b \o e)[k].inst /\ (b \o e)[k] = b[k]
      BY <1>1, <1>4, <2>1, <3>1
    <3>3. y[k] = InstsOf(b)[k] /\ InstsOf(b)[k] = b[k].inst
      BY <1>2, <1>5, <2>1, <3>1
    <3> QED
      BY <3>2, <3>3
  <2>2. CASE k \notin 1..Len(b)
    <3>1. k - Len(b) \in 1..Len(e) /\ Len(b) + (k - Len(b)) = k /\ k \in 1..Len(b \o e)
      BY <1>1, <1>4, <2>2
    <3>2. (b \o e)[k] = e[k - Len(b)]
      BY <1>1, <3>1
    <3>3. y[k] = InstsOf(e)[k - Len(b)]
      BY <1>2, <1>3, <1>5, <3>1
    <3> QED
      BY <1>3, <1>4, <3>1, <3>2, <3>3
  <2> QED
    BY <2>1, <2>2
<1>7. Len(x) = Len(y)
  BY <1>1, <1>2, <1>3, <1>4, <1>5
<1> QED
  BY <1>4, <1>5, <1>6, <1>7, SeqEqual DEF x, y

\* A group taken from the front of the buffer.
LEMMA InstsSplit ==
    ASSUME NEW b \in Seq(Entry), NEW n \in 0..Len(b)
    PROVE  LET g == [k \in 1..n |-> b[k].inst]
               r == SubSeq(b, n + 1, Len(b))
           IN  /\ g \in Seq(Inst) /\ Len(g) = n /\ r \in Seq(Entry)
               /\ g \o InstsOf(r) = InstsOf(b)
<1> DEFINE a == SubSeq(b, 1, n)
           r == SubSeq(b, n + 1, Len(b))
           g == [k \in 1..n |-> b[k].inst]
<1>1. /\ a \in Seq(Entry) /\ r \in Seq(Entry) /\ a \o r = b /\ Len(a) = n
      /\ \A k \in 1..n : a[k] = b[k]
  BY CutInTwo
<1>2. DOMAIN a = 1..n
  BY <1>1, SeqFacts
<1> HIDE DEF a, r
<1>3. InstsOf(a) = g
  BY <1>1, <1>2 DEF InstsOf
<1>4. InstsOf(a) \in Seq(Inst) /\ Len(InstsOf(a)) = n
  BY <1>1, InstsFacts
<1>5. InstsOf(a \o r) = InstsOf(a) \o InstsOf(r)
  BY <1>1, InstsConcat
<1> QED
  BY <1>1, <1>3, <1>4, <1>5 DEF r

-----------------------------------------------------------------------------
(* One step of the specification.                                          *)

orderVars == <<instGeneratorVars, decodeState, uop_queue_credits_, ibuf_, fetch_buffer_,
               credits_inst_queue_, to_decode, sent, uops_held, vsets_out>>

\* The invariant is about these variables, and about the time of a group.
LEMMA SameOrder == ASSUME OrderInv, UNCHANGED orderVars, GroupInv' PROVE OrderInv'
<1>0. /\ UNCHANGED <<trace, next_pid, next_uid, fetch_queue_, gen, vector_config_, waiting_on_vset_,
                     uop_queue_credits_, ibuf_, fetch_buffer_, credits_inst_queue_, to_decode>>
      /\ UNCHANGED <<sent, uops_held, vsets_out>>
  BY DEF orderVars, instGeneratorVars, decodeState
<1>1. PartsInv'
  BY <1>0 DEF OrderInv, PartsInv, Waits, Kind
<1>2. Queued' = Queued
  BY <1>0 DEF Queued
<1>3. RunInv'
  BY <1>0, <1>2 DEF OrderInv, RunInv
<1>4. Scalar => FetchCreditsConserved'
  BY <1>0 DEF OrderInv, FetchCreditsConserved
<1> QED
  BY <1>1, <1>3, <1>4 DEF OrderInv

\* A step within a phase that leaves Fetch's events and its responses alone.
LEMMA SameGroup ==
    ASSUME GroupInv, UNCHANGED <<phase, to_decode, ev_send_insts, fetch_resp>>
    PROVE  GroupInv'
  BY DEF GroupInv

\* Most steps have nothing to do with the order.
LEMMA OthersKeepOrder ==
    ASSUME OrderInv,
           DeliverToICache \/ L2Fills \/ L2ReturnsCredit \/ DecodeGathers \/ ICacheArbitrates
             \/ ICacheRequestsLine \/ ICacheResponds \/ UNCHANGED vars
    PROVE  OrderInv'
<1>1. UNCHANGED orderVars
  <2> USE DEF orderVars, instGeneratorVars, decodeState
  <2>1. CASE DeliverToICache
    BY <2>1 DEF DeliverToICache, fetchState, decodeVars, contractVars
  <2>2. CASE L2Fills
    BY <2>2 DEF L2Fills, fetchVars, fetchState, decodeVars, contractVars
  <2>3. CASE L2ReturnsCredit
    BY <2>3 DEF L2ReturnsCredit, fetchVars, fetchState, decodeVars
  <2>4. CASE DecodeGathers
    BY <2>4 DEF DecodeGathers, decodeGathers, fetchVars, fetchState, contractVars
  <2>5. CASE ICacheArbitrates
    BY <2>5 DEF ICacheArbitrates, fetchVars, fetchState, decodeVars
  <2>6. CASE ICacheRequestsLine
    BY <2>6 DEF ICacheRequestsLine, fetchVars, fetchState, decodeVars
  <2>7. CASE ICacheResponds
    <3>1. UNCHANGED <<decodeVars, contractVars>>
      BY <2>7 DEF ICacheResponds
    <3>2. UNCHANGED <<instGeneratorVars, fetchState, credits_inst_queue_, to_decode>>
      BY <2>7 DEF ICacheResponds, receiveCacheCredit, fetchVars
    <3> QED
      BY <3>1, <3>2 DEF fetchState, decodeVars, contractVars
  <2>8. CASE UNCHANGED vars
    BY <2>8 DEF vars, fetchVars, fetchState, decodeVars, contractVars
  <2> QED
    BY <2>1, <2>2, <2>3, <2>4, <2>5, <2>6, <2>7, <2>8
<1>2. GroupInv'
  <2>0. GroupInv
    BY DEF OrderInv
  <2>1. CASE ICacheResponds
    <3>1. phase = "icache" /\ UNCHANGED <<phase, to_decode>>
      BY <1>1, <2>1 DEF ICacheResponds, orderVars
    <3> QED
      BY <2>0, <3>1 DEF GroupInv
  <2>2. CASE ~ICacheResponds
    <3>1. UNCHANGED <<phase, to_decode, ev_send_insts, fetch_resp>>
      BY <2>2 DEF DeliverToICache, L2Fills, L2ReturnsCredit, DecodeGathers, ICacheArbitrates,
                  ICacheRequestsLine, vars, fetchVars
    <3> QED
      BY <2>0, <3>1, SameGroup
  <2> QED
    BY <2>1, <2>2
<1> QED
  BY <1>1, <1>2, SameOrder

\* Rename returns credits.
LEMMA RenameKeepsOrder == ASSUME OrderInv, RenameReturnsCredits PROVE OrderInv'
<1>0. PartsInv /\ GroupInv /\ RunInv /\ (Scalar => FetchCreditsConserved)
  BY DEF OrderInv
<1>1. PICK n \in 1..uops_held : receiveUopQueueCredits(n) /\ uops_held' = uops_held - n
  BY DEF RenameReturnsCredits
<1>2. UNCHANGED <<fetchVars, decodeState, fetch_resp, sent, vsets_out>> /\ phase = "rename"
  BY <1>1 DEF RenameReturnsCredits, receiveUopQueueCredits
<1>3. UNCHANGED <<trace, next_pid, next_uid, fetch_queue_, gen, vector_config_, waiting_on_vset_,
                  ibuf_, fetch_buffer_, credits_inst_queue_, to_decode, sent, vsets_out>>
  BY <1>2 DEF fetchVars, instGeneratorVars, fetchState, decodeState
<1>4. uop_queue_credits_' \in Nat /\ uops_held' \in Nat
  BY <1>0, <1>1 DEF PartsInv, receiveUopQueueCredits
<1>5. PartsInv'
  BY <1>0, <1>3, <1>4 DEF PartsInv, Waits, Kind
<1>6. GroupInv'
  BY <1>0, <1>2, <1>3 DEF GroupInv
<1>7. Queued' = Queued
  BY <1>3 DEF Queued
<1>8. RunInv'
  BY <1>0, <1>3, <1>7 DEF RunInv
<1>9. Scalar => FetchCreditsConserved'
  BY <1>0, <1>3 DEF FetchCreditsConserved
<1> QED
  BY <1>5, <1>6, <1>8, <1>9 DEF OrderInv

\* A vset has been executed.
LEMMA VsetKeepsOrder == ASSUME Proper, OrderInv, VsetExecuted PROVE OrderInv'
<1>0. PartsInv /\ GroupInv /\ RunInv /\ (Scalar => FetchCreditsConserved)
  BY DEF OrderInv
<1>1. PICK i \in vsets_out : processVset(i) /\ vsets_out' = vsets_out \ {i}
  BY DEF VsetExecuted
<1>2. UNCHANGED <<phase, fetchVars, fetch_resp, sent, uops_held>>
  BY DEF VsetExecuted
<1>3. UNCHANGED <<trace, next_pid, next_uid, fetch_queue_, gen, uop_queue_credits_,
                  ibuf_, fetch_buffer_, credits_inst_queue_, to_decode, sent, uops_held>>
  BY <1>1, <1>2 DEF fetchVars, instGeneratorVars, fetchState, processVset
<1>4. vector_config_' \in UsableConfig /\ waiting_on_vset_' \in BOOLEAN
  <2>1. trace \in Traces /\ i.pid \in DOMAIN trace /\ Kind(i) \in {"vset", "vset_reg"}
    BY <1>0, <1>1 DEF PartsInv, Waits
  <2>2. ConfigOf(i) \in UsableConfig
    BY <2>1, ConfigUsable
  <2> QED
    BY <1>1, <2>2 DEF processVset
<1>5. PartsInv'
  BY <1>0, <1>1, <1>3, <1>4 DEF PartsInv, Waits, Kind
<1>6. GroupInv'
  <2>1. UNCHANGED <<phase, to_decode, ev_send_insts, fetch_resp>>
    BY <1>2 DEF fetchVars
  <2> QED
    BY <1>0, <2>1, SameGroup
<1>7. Queued' = Queued
  BY <1>3 DEF Queued
<1>8. RunInv'
  BY <1>0, <1>3, <1>7 DEF RunInv
<1>9. Scalar => FetchCreditsConserved'
  BY <1>0, <1>3 DEF FetchCreditsConserved
<1> QED
  BY <1>5, <1>6, <1>8, <1>9 DEF OrderInv

\* The next phase.
LEMMA ClockKeepsOrder == ASSUME OrderInv, nextPhase PROVE OrderInv'
<1>1. UNCHANGED orderVars
  BY DEF nextPhase, orderVars, fetchState, decodeState, contractVars
<1>2. GroupInv'
  <2>0. GroupInv /\ to_decode' = to_decode
    BY <1>1 DEF OrderInv, orderVars
  <2>1. CASE to_decode = << >>
    BY <2>0, <2>1 DEF GroupInv
  <2>2. CASE to_decode # << >>
    <3>1. phase # "port"
      BY <2>2 DEF nextPhase, PhaseDone
    <3>2. phase = "fetch"
      BY <2>0, <2>2, <3>1 DEF GroupInv
    <3>3. phase' = "port"
      BY <3>2 DEF nextPhase, NextOf
    <3> QED
      BY <2>0, <3>3 DEF GroupInv
  <2> QED
    BY <2>1, <2>2
<1> QED
  BY <1>1, <1>2, SameOrder

\* Decode takes the group.
LEMMA DeliverKeepsOrder == ASSUME OrderInv, DeliverToDecode PROVE OrderInv'
<1>0. PartsInv /\ GroupInv /\ RunInv /\ (Scalar => FetchCreditsConserved)
  BY DEF OrderInv
<1> DEFINE g == Head(to_decode)
<1>1. /\ phase = "port" /\ phase' = phase /\ to_decode # << >>
      /\ to_decode' = Tail(to_decode) /\ fetch_queue_' = fetch_queue_ \o g
  BY DEF DeliverToDecode, fetchBufferAppended
<1>2. UNCHANGED <<trace, next_pid, next_uid, gen, vector_config_, waiting_on_vset_,
                  uop_queue_credits_, ibuf_, fetch_buffer_, credits_inst_queue_, sent, uops_held, vsets_out>>
  BY DEF DeliverToDecode, fetchBufferAppended, instGeneratorVars, fetchState, contractVars
<1>3. to_decode' = << >> /\ g \in Seq(Inst) /\ FlattenSeq(to_decode) = g
  BY <1>0, <1>1, OneGroup
<1>4. FlattenSeq(to_decode') = << >>
  BY <1>3, FlattenOne
<1> DEFINE a == fetch_queue_ \o g
<1>5. a \in Seq(Inst) /\ Len(a) = Len(fetch_queue_) + Len(g)
      /\ Len(fetch_queue_) \in Nat /\ Len(g) \in Nat
  <2>1. fetch_queue_ \in Seq(Inst)
    BY <1>0 DEF PartsInv
  <2> HIDE DEF g
  <2> QED
    BY <1>3, <2>1, ConcatFacts
<1> HIDE DEF a
<1>6. a \o << >> = a
  BY <1>5, EmptyNeutral, Zenon DEF Neutral
<1>7. PartsInv'
  <2>1. fetch_queue_' \in Seq(Inst)
    BY <1>1, <1>5 DEF a
  <2> QED
    BY <1>0, <1>2, <2>1 DEF PartsInv, Waits, Kind
<1>8. GroupInv'
  <2>1. to_decode' = << >>
    BY <1>3
  <2> QED
    BY <2>1 DEF GroupInv
<1>9. Queued' = Queued
  BY <1>1, <1>2, <1>3, <1>4, <1>6 DEF Queued, a
<1>10. RunInv'
  BY <1>0, <1>2, <1>9 DEF RunInv
<1>11. ASSUME Scalar PROVE FetchCreditsConserved'
  <2>1. credits_inst_queue_ + Len(fetch_queue_) + Len(g) = FetchQueueSize
    BY <1>0, <1>3, <1>11 DEF FetchCreditsConserved
  <2>2. /\ Len(fetch_queue_') = Len(fetch_queue_) + Len(g) /\ Len(FlattenSeq(to_decode')) = 0
        /\ credits_inst_queue_' = credits_inst_queue_ /\ credits_inst_queue_ \in Nat
    BY <1>0, <1>1, <1>2, <1>4, <1>5 DEF a, PartsInv
  <2> HIDE DEF g
  <2> QED
    BY <1>5, <2>1, <2>2 DEF FetchCreditsConserved
<1> QED
  BY <1>7, <1>8, <1>10, <1>11 DEF OrderInv

\* ICache has answered for some of the buffer's instructions.
LEMMA ResponseKeepsOrder == ASSUME OrderInv, FetchTakesResponse PROVE OrderInv'
<1>0. PartsInv /\ GroupInv /\ RunInv /\ (Scalar => FetchCreditsConserved)
  BY DEF OrderInv
<1>1. PICK r \in fetch_resp : r.due = 0 /\ receiveCacheResponse(r.access, r.hit)
  BY DEF FetchTakesResponse
<1>2. UNCHANGED <<trace, next_pid, next_uid, fetch_queue_, gen, vector_config_, waiting_on_vset_,
                  uop_queue_credits_, ibuf_, credits_inst_queue_, to_decode, sent, uops_held, vsets_out>>
  BY <1>1 DEF FetchTakesResponse, receiveCacheResponse, instGeneratorVars, decodeVars, decodeState,
              contractVars
<1>3. phase = "fetch" /\ phase' = phase
  BY DEF FetchTakesResponse
<1>4. to_decode = << >>
  BY <1>0, <1>1, <1>3 DEF GroupInv
<1>5. fetch_buffer_' \in Seq(Entry) /\ InstsOf(fetch_buffer_') = InstsOf(fetch_buffer_)
  <2>1. CASE ~r.hit
    BY <1>0, <1>1, <2>1 DEF receiveCacheResponse, PartsInv
  <2>2. CASE r.hit
    <3> DEFINE b == fetch_buffer_
               e(k) == [b[k] EXCEPT !.fetched = @ \/ b[k].inst.uid \in r.access.insts]
    <3>1. fetch_buffer_' = [k \in DOMAIN b |-> e(k)]
      BY <1>1, <2>2 DEF receiveCacheResponse
    <3>2. Len(b) \in Nat /\ DOMAIN b = 1..Len(b) /\ \A k \in 1..Len(b) : b[k] \in Entry
      BY <1>0, SeqFacts DEF PartsInv
    <3>3. \A k \in 1..Len(b) : e(k) \in Entry /\ e(k).inst = b[k].inst
      BY <3>2 DEF Entry
    <3> HIDE DEF b, e
    <3>4. fetch_buffer_' \in [1..Len(b) -> Entry]
      BY <3>1, <3>2, <3>3
    <3>5. fetch_buffer_' \in Seq(Entry) /\ DOMAIN fetch_buffer_' = 1..Len(b)
      BY <3>2, <3>4, FunIsSeq
    <3>6. InstsOf(fetch_buffer_') = InstsOf(b)
      BY <3>1, <3>2, <3>3, <3>5 DEF InstsOf
    <3> QED
      BY <3>5, <3>6 DEF b
  <2> QED
    BY <2>1, <2>2
<1>6. PartsInv'
  BY <1>0, <1>2, <1>5 DEF PartsInv, Waits, Kind
<1>7. GroupInv'
  BY <1>0, <1>2, <1>4 DEF GroupInv
<1>8. Queued' = Queued
  BY <1>2, <1>5 DEF Queued, InstsOf
<1>9. RunInv'
  BY <1>0, <1>2, <1>8 DEF RunInv
<1>10. Scalar => FetchCreditsConserved'
  BY <1>0, <1>2 DEF FetchCreditsConserved
<1> QED
  BY <1>6, <1>7, <1>9, <1>10 DEF OrderInv

\* Fetch sends a group, or has no room for one.
LEMMA SendKeepsOrder ==
    ASSUME OrderInv, phase = "fetch", \A r \in fetch_resp : r.due > 0, sendInstructions,
           UNCHANGED <<phase, decodeVars, fetch_resp, contractVars>>
    PROVE  OrderInv'
<1>0. PartsInv /\ GroupInv /\ RunInv /\ (Scalar => FetchCreditsConserved)
  BY DEF OrderInv
<1>1. UNCHANGED <<trace, next_pid, next_uid, fetch_queue_, gen, vector_config_, waiting_on_vset_,
                  uop_queue_credits_, ibuf_, sent, uops_held, vsets_out>>
  BY DEF sendInstructions, instGeneratorVars, decodeVars, decodeState, contractVars
<1>2. to_decode = << >> /\ FlattenSeq(to_decode) = << >>
  BY <1>0, OneGroup DEF GroupInv, sendInstructions
<1> DEFINE b == fetch_buffer_
           upper == Min({credits_inst_queue_, NumToFetch, Len(b)})
           n == Max({k \in 0..upper : CanSend(k)})
           g == [k \in 1..n |-> b[k].inst]
           r == SubSeq(b, n + 1, Len(b))
<1>3. CASE upper = 0
  <2>1. UNCHANGED <<fetch_buffer_, credits_inst_queue_, to_decode>>
    BY <1>3 DEF sendInstructions
  <2>2. UNCHANGED orderVars
    BY <1>1, <2>1 DEF orderVars, instGeneratorVars, decodeState
  <2>3. GroupInv'
    BY <1>0, <1>2, <2>1 DEF GroupInv
  <2> QED
    BY <2>2, <2>3, SameOrder
<1>4. CASE upper # 0
  <2>1. /\ fetch_buffer_' = r /\ credits_inst_queue_' = credits_inst_queue_ - n
        /\ to_decode' = Append(to_decode, g)
        /\ ev_send_insts' \subseteq (ev_send_insts \ {0}) \cup {1}
    BY <1>4 DEF sendInstructions
  <2>2. b \in Seq(Entry) /\ Len(b) \in Nat /\ credits_inst_queue_ \in Nat /\ NumToFetch \in Nat
    BY <1>0, SeqFacts, FetchAssumption DEF PartsInv
  <2>3. upper \in Nat /\ upper <= credits_inst_queue_ /\ upper <= Len(b)
    <3> DEFINE M == {credits_inst_queue_, NumToFetch, Len(b)}
    <3>1. M \in SUBSET Nat /\ M # {}
      BY <2>2
    <3>2. Min(M) \in M /\ \A k \in M : Min(M) <= k
      BY <3>1, MinOf
    <3> QED
      BY <3>1, <3>2
  <2> HIDE DEF upper
  <2>4. n \in 0..upper
    <3> DEFINE M == {k \in 0..upper : CanSend(k)}
    <3>1. 0 \in 0..upper /\ CanSend(0)
      BY <2>3 DEF CanSend
    <3>2. M \in SUBSET (0..upper) /\ M # {}
      BY <3>1
    <3> HIDE DEF M
    <3>3. Max(M) \in M
      BY <2>3, <3>2, MaxOf
    <3> QED
      BY <3>2, <3>3 DEF M
  <2> HIDE DEF n
  <2>5. n \in Nat /\ n \in 0..Len(b) /\ n <= credits_inst_queue_
    BY <2>2, <2>3, <2>4
  <2>6. g \in Seq(Inst) /\ Len(g) = n /\ r \in Seq(Entry) /\ g \o InstsOf(r) = InstsOf(b)
    BY <2>2, <2>5, InstsSplit
  <2> HIDE DEF g, r, b
  <2>7. to_decode' = <<g>> /\ FlattenSeq(to_decode') = g /\ to_decode' \in Seq(Seq(Inst)) /\ Len(to_decode') = 1
    <3>1. to_decode' = <<g>>
      BY <1>2, <2>1
    <3>2. FlattenSeq(<<g>>) = g
      BY FlattenOne, Zenon
    <3> QED
      BY <2>6, <3>1, <3>2
  <2>8. PartsInv'
    <3>1. credits_inst_queue_' \in Nat /\ fetch_buffer_' \in Seq(Entry)
      BY <2>1, <2>2, <2>5, <2>6
    <3> QED
      BY <1>0, <1>1, <3>1 DEF PartsInv, Waits, Kind
  <2>9. GroupInv'
    <3>1. 0 \notin ev_send_insts'
      BY <2>1
    <3> QED
      BY <2>7, <3>1 DEF GroupInv
  <2>10. Queued' = Queued
    <3> DEFINE f == fetch_queue_
               h == InstsOf(r)
    <3>1. f \in Seq(Inst) /\ h \in Seq(Inst) /\ ibuf_ \in Seq(Inst)
      BY <1>0, <2>6, InstsFacts DEF PartsInv
    <3>2. f \o << >> = f
      BY <3>1, EmptyNeutral, Zenon DEF Neutral
    <3> HIDE DEF f, h
    <3>3. Associates(f, g, h)
      BY <2>6, <3>1, Assoc, Zenon
    <3>4. Queued' = ((f \o g) \o h) \o ibuf_
      BY <1>1, <2>1, <2>7 DEF Queued, f, h, InstsOf
    <3>5. Queued = (f \o InstsOf(b)) \o ibuf_
      BY <1>2, <3>2 DEF Queued, f, InstsOf, b
    <3>6. g \o h = InstsOf(b)
      BY <2>6 DEF h
    <3> QED
      BY <3>3, <3>4, <3>5, <3>6 DEF Associates
  <2>11. RunInv'
    BY <1>0, <1>1, <2>10 DEF RunInv
  <2>12. ASSUME Scalar PROVE FetchCreditsConserved'
    <3>1. credits_inst_queue_ + Len(fetch_queue_) + 0 = FetchQueueSize /\ Len(fetch_queue_) \in Nat
      BY <1>0, <1>2, <2>12, SeqFacts DEF FetchCreditsConserved, PartsInv
    <3>2. /\ Len(fetch_queue_') = Len(fetch_queue_) /\ Len(FlattenSeq(to_decode')) = n
          /\ credits_inst_queue_' = credits_inst_queue_ - n
      BY <1>1, <2>1, <2>6, <2>7
    <3> QED
      BY <2>2, <2>5, <3>1, <3>2 DEF FetchCreditsConserved
  <2> QED
    BY <2>8, <2>9, <2>11, <2>12 DEF OrderInv
<1> QED
  BY <1>3, <1>4

\* A block is some of the instructions at the front.
LEMMA BlockEndFacts ==
    ASSUME NEW buf \in Seq(Inst), buf # << >>
    PROVE  BlockEnd(buf) \in 1..Len(buf)
<1> DEFINE M == {k \in 1..Len(buf) : k < Len(buf) => different_blocks(buf[k], buf[k + 1])}
<1>1. Len(buf) \in Nat /\ Len(buf) # 0
  BY SeqFacts
<1>2. Len(buf) \in M /\ M \in SUBSET Nat
  BY <1>1
<1>3. Min(M) \in M
  BY <1>2, MinOf
<1> QED
  BY <1>3 DEF BlockEnd

\* Fetch reads from the trace and requests a block.
LEMMA FetchKeepsOrder ==
    ASSUME OrderInv, fetchInstruction, UNCHANGED <<phase, decodeVars, fetch_resp, contractVars>>
    PROVE  OrderInv'
<1>0. PartsInv /\ GroupInv /\ RunInv /\ (Scalar => FetchCreditsConserved)
  BY DEF OrderInv
<1>1. UNCHANGED <<trace, fetch_queue_, gen, vector_config_, waiting_on_vset_, uop_queue_credits_,
                  credits_inst_queue_, ev_send_insts, to_decode, sent, uops_held, vsets_out>>
  BY DEF fetchInstruction, getNextInsts, decodeVars, decodeState, contractVars
<1> DEFINE room == IBufCapacity - Len(ibuf_)
           x    == NextInsts(room)
           buf  == ibuf_ \o x
           n    == BlockEnd(buf)
           rest == SubSeq(buf, n + 1, Len(buf))
           new  == [k \in 1..n |-> [inst |-> buf[k], last |-> k = n, fetched |-> FALSE]]
<1>2. /\ ibuf_ \in Seq(Inst) /\ Len(ibuf_) \in Nat /\ Len(ibuf_) <= IBufCapacity
      /\ IBufCapacity \in Nat /\ fetch_buffer_ \in Seq(Entry) /\ trace \in Traces
  BY <1>0, SeqFacts, FetchAssumption DEF PartsInv
<1>3. room \in Nat
  BY <1>2
<1>4. /\ next_pid' = next_pid + Left(room) /\ next_uid' = next_uid + Left(room)
      /\ \/ /\ ibuf_' = buf /\ UNCHANGED fetch_buffer_
         \/ /\ buf # << >> /\ ibuf_' = rest /\ fetch_buffer_' = fetch_buffer_ \o new
  BY DEF fetchInstruction, getNextInsts
<1>5. next_pid \in 1..Len(trace) + 1 /\ next_uid \in Nat
  BY <1>0 DEF RunInv, Ordered, QueueRun
<1> HIDE DEF room
<1>6. x \in Seq(Inst) /\ Len(x) = Left(room) /\ Left(room) \in 0..room
  BY <1>2, <1>3, <1>5, NextInstsFacts
<1>7. Ordered(trace, sent, Queued \o x, gen, next_pid + Left(room), next_uid + Left(room))
  BY <1>0, <1>2, <1>3, FetchOrder DEF RunInv
<1> HIDE DEF x
<1>8. buf \in Seq(Inst) /\ Len(buf) = Len(ibuf_) + Len(x) /\ Len(x) \in Nat
  <2>1. ibuf_ \in Seq(Inst) /\ x \in Seq(Inst)
    BY <1>2, <1>6
  <2>2. ibuf_ \o x \in Seq(Inst) /\ Len(ibuf_ \o x) = Len(ibuf_) + Len(x) /\ Len(x) \in Nat
    BY <2>1, ConcatFacts
  <2> QED
    BY <2>2
<1>9. Len(buf) \in Nat /\ Len(buf) <= IBufCapacity
  BY <1>2, <1>6, <1>8 DEF room
<1> HIDE DEF buf
<1>10. /\ ibuf_' \in Seq(Inst) /\ Len(ibuf_') <= IBufCapacity /\ fetch_buffer_' \in Seq(Entry)
       /\ InstsOf(fetch_buffer_') \o ibuf_' = InstsOf(fetch_buffer_) \o buf
  <2>1. CASE ibuf_' = buf /\ UNCHANGED fetch_buffer_
    BY <1>2, <1>8, <1>9, <2>1
  <2>2. CASE buf # << >> /\ ibuf_' = rest /\ fetch_buffer_' = fetch_buffer_ \o new
    <3> DEFINE c == SubSeq(buf, 1, n)
    <3>1. n \in 1..Len(buf)
      BY <1>8, <2>2, BlockEndFacts
    <3> HIDE DEF n
    <3>2. n \in 0..Len(buf) /\ n \in Nat
      BY <1>9, <3>1
    <3>3. /\ c \in Seq(Inst) /\ rest \in Seq(Inst) /\ c \o rest = buf
          /\ Len(c) = n /\ Len(rest) = Len(buf) - n
          /\ \A k \in 1..n : c[k] = buf[k]
      BY <1>8, <3>2, CutInTwo
    <3> HIDE DEF c, rest
    <3>4. DOMAIN c = 1..n /\ \A k \in 1..n : c[k] \in Inst
      BY <3>3, SeqFacts
    <3>5. new \in [1..n -> Entry]
      BY <3>3, <3>4 DEF Entry
    <3>6. new \in Seq(Entry) /\ DOMAIN new = 1..n
      BY <3>2, <3>5, FunIsSeq
    <3>7. InstsOf(new) = c
      <4>1. \A k \in 1..n : new[k].inst = c[k]
        BY <3>3
      <4>2. c = [k \in 1..n |-> c[k]]
        BY <3>3, <3>4, SeqDef
      <4> HIDE DEF new
      <4> QED
        BY <3>6, <4>1, <4>2 DEF InstsOf
    <3> HIDE DEF new
    <3>8. fetch_buffer_ \o new \in Seq(Entry)
      BY <1>2, <3>6, Closed, Zenon
    <3>9. InstsOf(fetch_buffer_ \o new) = InstsOf(fetch_buffer_) \o c
      BY <1>2, <3>6, <3>7, InstsConcat
    <3>10. InstsOf(fetch_buffer_) \in Seq(Inst)
      BY <1>2, InstsFacts
    <3>11. Associates(InstsOf(fetch_buffer_), c, rest)
      BY <3>3, <3>10, Assoc, Zenon
    <3>12. Len(rest) <= IBufCapacity
      BY <1>2, <1>9, <3>2, <3>3
    <3> QED
      BY <2>2, <3>3, <3>8, <3>9, <3>11, <3>12 DEF Associates
  <2> QED
    BY <1>4, <2>1, <2>2
<1>11. PartsInv'
  BY <1>0, <1>1, <1>10 DEF PartsInv, Waits, Kind
<1>12. GroupInv'
  BY <1>0, <1>1, SameGroup
<1>13. Queued' = Queued \o x
  <2> DEFINE f == fetch_queue_
             d == FlattenSeq(to_decode)
             h == InstsOf(fetch_buffer_)
             i == InstsOf(fetch_buffer_')
             j == ibuf_'
  <2>1. /\ d \in Seq(Inst) /\ h \in Seq(Inst) /\ f \in Seq(Inst)
        /\ Queued = (f \o d) \o (h \o ibuf_) /\ Queued \in Seq(Inst)
    BY <1>0, QueuedParts DEF PartsInv
  <2>2. i \in Seq(Inst) /\ j \in Seq(Inst)
    BY <1>10, InstsFacts
  <2>3. Queued' = ((f \o d) \o i) \o j
    BY <1>1 DEF Queued, InstsOf
  <2> HIDE DEF f, d, h, i, j
  <2>4. Grouped(f, d, i, j)
    BY <2>1, <2>2, Regroup, Zenon
  <2>5. Queued' = (f \o d) \o (i \o j)
    BY <2>3, <2>4 DEF Grouped
  <2>6. i \o j = h \o (ibuf_ \o x)
    BY <1>10 DEF h, i, j, buf
  <2>7. f \o d \in Seq(Inst) /\ h \o ibuf_ \in Seq(Inst)
    BY <1>2, <2>1, Closed, Zenon
  <2>8. Associates(h, ibuf_, x) /\ Associates(f \o d, h \o ibuf_, x)
    BY <1>2, <1>6, <2>1, <2>7, Assoc, Zenon
  <2> QED
    BY <2>1, <2>5, <2>6, <2>8 DEF Associates
<1>14. RunInv'
  BY <1>1, <1>4, <1>7, <1>13 DEF RunInv
<1>15. Scalar => FetchCreditsConserved'
  BY <1>0, <1>1 DEF FetchCreditsConserved
<1> QED
  BY <1>11, <1>12, <1>14, <1>15 DEF OrderInv

\* A session.
LEMMA DecodeKeepsOrder == ASSUME Proper, OrderInv, DecodeSession PROVE OrderInv'
<1>0. PartsInv /\ GroupInv /\ RunInv /\ (Scalar => FetchCreditsConserved)
  BY DEF OrderInv
<1> DEFINE n == NumThisCycle
           s == Session(n)
<1>1. /\ phase = "decode" /\ phase' = phase
      /\ fetch_queue_' = s.queue /\ gen' = s.gen
      /\ vector_config_' = s.config /\ waiting_on_vset_' = s.waiting
      /\ uop_queue_credits_' = uop_queue_credits_ - Len(s.insts)
      /\ credits_inst_queue_' = credits_inst_queue_ + Len(s.insts)
      /\ sent' = sent \o s.insts /\ uops_held' = uops_held + Len(s.insts)
      /\ vsets_out' = vsets_out \cup {s.insts[k] : k \in {m \in DOMAIN s.insts : Waits(s.insts[m])}}
  BY DEF DecodeSession, decodeInsts, receiveFetchQueueCredits
<1>2. UNCHANGED <<trace, next_pid, next_uid, ibuf_, fetch_buffer_, to_decode>>
  BY DEF DecodeSession, receiveFetchQueueCredits, instGeneratorVars, fetchState
<1>3. n \in Nat /\ n <= uop_queue_credits_ /\ uop_queue_credits_ \in Nat
  BY <1>0, DecodeAssumption DEF NumThisCycle, PartsInv
<1>4. Queued = fetch_queue_ \o Between /\ Between \in Seq(Inst)
  BY <1>0, QueuedParts
<1>5. sent \in Seq(SentUop) /\ trace \in Traces
  BY <1>0 DEF RunInv, Ordered, SentRun, PartsInv
<1>6. Looped(Loop0, 0, Between)
  <2>1. /\ Loop0.queue = fetch_queue_ /\ Loop0.gen = gen /\ Loop0.config = vector_config_
        /\ Loop0.waiting = waiting_on_vset_ /\ Loop0.insts = << >>
        /\ Loop0 = [queue |-> fetch_queue_, gen |-> gen, config |-> vector_config_,
                    waiting |-> waiting_on_vset_, insts |-> << >>]
    BY DEF Loop0
  <2>2. sent \o << >> = sent
    BY <1>5, EmptyNeutral, Zenon DEF Neutral
  <2>3. Ordered(trace, sent \o Loop0.insts, Loop0.queue \o Between, Loop0.gen, next_pid, next_uid)
    BY <1>0, <1>4, <2>1, <2>2 DEF RunInv
  <2>4. << >> \in Seq(SentUop) /\ Len(<< >>) = 0
    OBVIOUS
  <2>5. Len(fetch_queue_) \in Nat
    BY <1>0, SeqFacts DEF PartsInv
  <2> QED
    BY <1>0, <2>1, <2>3, <2>4, <2>5 DEF Looped, PartsInv
<1>7. Looped(s, n, Between)
  BY <1>3, <1>4, <1>5, <1>6, SessionOrder
<1> HIDE DEF s, n
<1>8. /\ s.queue \in Seq(Inst) /\ s.insts \in Seq(SentUop)
      /\ s.config \in UsableConfig /\ s.waiting \in BOOLEAN /\ Len(s.insts) <= n
      /\ Ordered(trace, sent \o s.insts, s.queue \o Between, s.gen, next_pid, next_uid)
      /\ Scalar => Len(s.insts) + Len(s.queue) = Len(fetch_queue_)
  BY <1>7 DEF Looped
<1>9. Len(s.insts) \in Nat /\ DOMAIN s.insts = 1..Len(s.insts) /\ Len(s.queue) \in Nat
  BY <1>8, SeqFacts
<1>10. PartsInv'
  <2>1. uop_queue_credits_' \in Nat /\ credits_inst_queue_' \in Nat /\ uops_held' \in Nat
    <3> DEFINE m == Len(s.insts)
    <3>1. m \in Nat /\ m <= n /\ credits_inst_queue_ \in Nat /\ uops_held \in Nat
      BY <1>0, <1>8, <1>9 DEF PartsInv
    <3>2. /\ uop_queue_credits_' = uop_queue_credits_ - m /\ credits_inst_queue_' = credits_inst_queue_ + m
          /\ uops_held' = uops_held + m
      BY <1>1
    <3> HIDE DEF m
    <3> QED
      BY <1>3, <3>1, <3>2
  <2>2. ASSUME NEW i \in vsets_out' PROVE i.pid \in DOMAIN trace' /\ Waits(i)'
    <3>1. CASE i \in vsets_out
      BY <1>0, <1>2, <3>1 DEF PartsInv, Waits, Kind
    <3>2. CASE i \notin vsets_out
      <4>1. PICK k \in 1..Len(s.insts) : i = s.insts[k] /\ Waits(s.insts[k])
        BY <1>1, <1>9, <2>2, <3>2
      <4> DEFINE z == sent \o s.insts
      <4>2. /\ Len(z) = Len(sent) + Len(s.insts) /\ Len(sent) \in Nat
            /\ z[Len(sent) + k] = s.insts[k]
        BY <1>5, <1>8, ConcatFacts
      <4>3. Len(sent) + k \in 1..Len(z)
        BY <1>9, <4>2
      <4>4. z[Len(sent) + k].pid \in 1..Len(trace)
        BY <1>8, <4>3 DEF Ordered, SentRun
      <4>5. DOMAIN trace = 1..Len(trace)
        BY <1>5, TraceAssumption, SeqFacts
      <4> QED
        BY <1>2, <4>1, <4>2, <4>4, <4>5 DEF Waits, Kind
    <3> QED
      BY <3>1, <3>2
  <2> QED
    BY <1>0, <1>1, <1>2, <1>8, <2>1, <2>2 DEF PartsInv
<1>11. GroupInv'
  BY <1>0, <1>1, <1>2 DEF GroupInv
<1>12. Queued' = s.queue \o Between
  <2> DEFINE f == s.queue
             d == FlattenSeq(to_decode)
             h == InstsOf(fetch_buffer_)
  <2>1. d \in Seq(Inst) /\ h \in Seq(Inst) /\ f \in Seq(Inst) /\ ibuf_ \in Seq(Inst)
    BY <1>0, <1>8, QueuedParts DEF PartsInv
  <2>2. Queued' = ((f \o d) \o h) \o ibuf_
    BY <1>1, <1>2 DEF Queued, InstsOf
  <2>3. Between = (d \o h) \o ibuf_
    BY DEF Between
  <2> HIDE DEF f, d, h
  <2>4. Grouped(f, d, h, ibuf_)
    BY <2>1, Regroup, Zenon
  <2> QED
    BY <2>2, <2>3, <2>4 DEF Grouped, f
<1>13. RunInv'
  BY <1>1, <1>2, <1>8, <1>12 DEF RunInv
<1>14. ASSUME Scalar PROVE FetchCreditsConserved'
  <2>1. credits_inst_queue_ + Len(fetch_queue_) + Len(FlattenSeq(to_decode)) = FetchQueueSize
    BY <1>0, <1>14 DEF FetchCreditsConserved
  <2>2. Len(fetch_queue_) = Len(s.insts) + Len(s.queue)
    BY <1>8, <1>14
  <2>3. Len(FlattenSeq(to_decode)) \in Nat /\ credits_inst_queue_ \in Nat
    <3>1. FlattenSeq(to_decode) \in Seq(Inst)
      BY <1>0, QueuedParts
    <3> QED
      BY <1>0, <3>1, SeqFacts DEF PartsInv
  <2> DEFINE m == Len(FlattenSeq(to_decode))
  <2>4. /\ credits_inst_queue_' = credits_inst_queue_ + Len(s.insts)
        /\ Len(fetch_queue_') = Len(s.queue) /\ Len(FlattenSeq(to_decode')) = m
    BY <1>1, <1>2
  <2> HIDE DEF m
  <2>5. credits_inst_queue_' + Len(fetch_queue_') + m = FetchQueueSize
    <3> DEFINE c == credits_inst_queue_
               p == Len(s.insts)
               q == Len(s.queue)
    <3>1. c \in Nat /\ p \in Nat /\ q \in Nat /\ m \in Nat
      BY <1>9, <2>3 DEF m
    <3>2. c + (p + q) + m = FetchQueueSize
      BY <2>1, <2>2 DEF m
    <3> HIDE DEF c, p, q
    <3>3. (c + p) + q + m = FetchQueueSize
      BY <3>1, <3>2
    <3> QED
      BY <2>4, <3>3 DEF c, p, q
  <2> QED
    BY <2>4, <2>5 DEF FetchCreditsConserved
<1> QED
  BY <1>10, <1>11, <1>13, <1>14 DEF OrderInv

\* The elements at the first p places are the front of the sequence.
LEMMA FirstElements ==
    ASSUME NEW S, NEW s \in Seq(S), NEW p \in 0..Len(s)
    PROVE  ElementsAt(s, 1..p) = SubSeq(s, 1, p)
<1> DEFINE n == Len(s)
           T == 1..p
           f == CHOOSE g : Picks(g, s, T, n)
<1>1. n \in Nat /\ p \in Nat /\ p <= n /\ \A k \in 1..n : s[k] \in S
  BY SeqFacts
<1>2. ElementsAt(s, T) = f[n]
  BY DEF ElementsAt, Picks
<1>3. Picks(f, s, T, n)
  BY <1>1, PicksExists
<1> HIDE DEF f
<1>4. \A k \in 0..n : f[k] = IF k = 0 THEN << >> ELSE IF k \in T THEN Append(f[k - 1], s[k]) ELSE f[k - 1]
  BY <1>1, <1>3, PicksAt
<1> DEFINE low(k) == IF k <= p THEN k ELSE p
           Good(k) == f[k] = SubSeq(s, 1, low(k))
           B == {k \in 0..n : ~Good(k)}
<1>5. B = {}
  <2> SUFFICES ASSUME B # {} PROVE FALSE
    OBVIOUS
  <2>1. B \in SUBSET Nat
    BY <1>1
  <2>2. PICK m \in B : \A k \in B : m <= k
    BY <2>1, LeastNumber
  <2>3. Good(0)
    <3>1. 0 \in 0..n /\ low(0) = 0
      BY <1>1
    <3>2. f[0] = << >>
      BY <1>4, <3>1
    <3>3. SubSeq(s, 1, 0) = << >>
      BY SubSeqEmpty
    <3> QED
      BY <3>1, <3>2, <3>3
  <2>4. m # 0 /\ m \in 0..n /\ ~Good(m)
    BY <2>2, <2>3
  <2>5. m - 1 \in 0..n /\ m - 1 \in Nat /\ ~(m <= m - 1)
    BY <1>1, <2>4
  <2>6. Good(m - 1)
    BY <2>2, <2>5
  <2>7. f[m] = IF m \in T THEN Append(f[m - 1], s[m]) ELSE f[m - 1]
    BY <1>4, <2>4
  <2>8. CASE m \in T
    <3>1. low(m - 1) = m - 1 /\ low(m) = m /\ m \in 1..n
      BY <1>1, <2>4, <2>8
    <3> DEFINE a == SubSeq(s, 1, m - 1)
               b == <<s[m]>>
    <3>2. SubSeq(s, 1, m) = a \o b
      BY <1>1, <3>1, SubSeqRecursiveSecond
    <3>3. a \in Seq(S) /\ s[m] \in S
      BY <1>1, <2>5, <3>1, CutInTwo
    <3> HIDE DEF a
    <3>4. Append(a, s[m]) = a \o b
      BY <3>3, AppendIsConcat
    <3>5. f[m - 1] = a
      BY <2>6, <3>1 DEF a
    <3>6. f[m] = SubSeq(s, 1, m)
      BY <2>7, <2>8, <3>2, <3>4, <3>5
    <3> QED
      BY <2>4, <3>1, <3>6
  <2>9. CASE m \notin T
    <3>1. low(m - 1) = p /\ low(m) = p
      BY <1>1, <2>4, <2>9
    <3> QED
      BY <2>4, <2>6, <2>7, <2>9, <3>1
  <2> QED
    BY <2>8, <2>9
<1>6. Good(n) /\ low(n) = p
  BY <1>1, <1>5
<1> QED
  BY <1>2, <1>6

\* A branch is one uop, and no other uop has its id.
LEMMA BranchAlone ==
    ASSUME NEW t, NEW snt, NEW nu, SentRun(t, snt, nu), NEW k \in 1..Len(snt),
           t[snt[k].pid].kind = "branch"
    PROVE  /\ snt[k].uop = 0 /\ UopsIn(t, snt[k]) = 1 /\ snt[k].uid \in Nat /\ Len(snt) \in Nat
           /\ \A m \in 1..Len(snt) : /\ snt[m].uid \in Nat
                                     /\ m < k => snt[m].uid < snt[k].uid
                                     /\ m > k => snt[m].uid > snt[k].uid
<1>1. snt \in Seq(SentUop) /\ Len(snt) \in Nat /\ \A m \in 1..Len(snt) : snt[m] \in SentUop
  BY SeqFacts DEF SentRun
<1>2. \A m \in 1..Len(snt) : snt[m].uid \in Nat /\ snt[m].uop \in Nat
  BY <1>1 DEF SentUop
<1>3. UopsIn(t, snt[k]) = 1 /\ snt[k].uop < UopsIn(t, snt[k])
  BY DEF UopsIn, SentRun
<1>4. \A j, m \in 1..Len(snt) : j < m =>
          /\ snt[j].uid <= snt[m].uid
          /\ snt[j].uid = snt[m].uid => snt[j].pid = snt[m].pid /\ t[snt[j].pid].kind = "vector"
  BY DEF SentRun
<1>5. ASSUME NEW m \in 1..Len(snt), m < k PROVE snt[m].uid < snt[k].uid
  <2>1. snt[m].uid <= snt[k].uid /\ snt[m].uid # snt[k].uid
    BY <1>4, <1>5
  <2> QED
    BY <1>2, <2>1
<1>6. ASSUME NEW m \in 1..Len(snt), m > k PROVE snt[m].uid > snt[k].uid
  <2>1. k < m
    BY <1>1, <1>6
  <2>2. snt[k].uid <= snt[m].uid /\ snt[m].uid # snt[k].uid
    BY <1>4, <2>1
  <2> QED
    BY <1>2, <2>2
<1>7. snt[k].uop = 0
  BY <1>2, <1>3
<1> QED
  BY <1>1, <1>2, <1>3, <1>5, <1>6, <1>7

\* What is left of the uops after a flush by the branch k.
LastLeft(k, inclusive) == IF inclusive THEN k - 1 ELSE k

\* A flush takes everything behind the branch, and the branch if it is inclusive.
LEMMA FlushTakes ==
    ASSUME NEW t, NEW snt, NEW nu, SentRun(t, snt, nu), NEW k \in 1..Len(snt),
           t[snt[k].pid].kind = "branch", NEW inclusive \in BOOLEAN
    PROVE  {m \in DOMAIN snt : ~includedInFlush(snt[k], snt[m], inclusive)} = 1..LastLeft(k, inclusive)
<1>1. /\ snt[k].uid \in Nat /\ Len(snt) \in Nat
      /\ \A m \in 1..Len(snt) : /\ snt[m].uid \in Nat
                                /\ m < k => snt[m].uid < snt[k].uid
                                /\ m > k => snt[m].uid > snt[k].uid
  BY BranchAlone
<1>2. DOMAIN snt = 1..Len(snt)
  BY SeqFacts DEF SentRun
<1>3. ASSUME NEW m \in 1..Len(snt)
      PROVE  ~includedInFlush(snt[k], snt[m], inclusive) <=> m <= LastLeft(k, inclusive)
  <2>1. CASE m < k
    <3>1. snt[m].uid < snt[k].uid /\ snt[m].uid \in Nat
      BY <1>1, <2>1
    <3> QED
      BY <1>1, <2>1, <3>1 DEF includedInFlush, LastLeft
  <2>2. CASE m > k
    <3>1. snt[m].uid > snt[k].uid /\ snt[m].uid \in Nat
      BY <1>1, <2>2
    <3> QED
      BY <1>1, <2>2, <3>1 DEF includedInFlush, LastLeft
  <2>3. CASE m = k
    BY <1>1, <2>3 DEF includedInFlush, LastLeft
  <2> QED
    BY <1>1, <2>1, <2>2, <2>3
<1>4. LastLeft(k, inclusive) \in 0..Len(snt)
  BY <1>1 DEF LastLeft
<1> QED
  BY <1>1, <1>2, <1>3, <1>4

\* What is left is the beginning of the program still, up to where the trace goes on.
LEMMA FlushRun ==
    ASSUME NEW t, NEW snt, NEW nu \in Nat, SentRun(t, snt, nu), Len(t) \in Nat,
           NEW k \in 1..Len(snt), t[snt[k].pid].kind = "branch", NEW inclusive \in BOOLEAN
    PROVE  Ordered(t, SubSeq(snt, 1, LastLeft(k, inclusive)), << >>, IdleGen,
                   ResetTo(snt[k], ~inclusive), nu)
<1> DEFINE p == LastLeft(k, inclusive)
           r == SubSeq(snt, 1, p)
           np == ResetTo(snt[k], ~inclusive)
<1>1. /\ snt \in Seq(SentUop) /\ Len(snt) \in Nat
      /\ snt # << >> => snt[1].pid = 1 /\ snt[1].uop = 0
      /\ \A m \in 1..Len(snt) : snt[m].pid \in 1..Len(t) /\ snt[m].uid < nu
                                /\ UopsIn(t, snt[m]) \in Nat /\ snt[m].uop < UopsIn(t, snt[m])
      /\ \A j, m \in 1..Len(snt) : j < m =>
            /\ snt[j].uid <= snt[m].uid
            /\ snt[j].uid = snt[m].uid => snt[j].pid = snt[m].pid /\ t[snt[j].pid].kind = "vector"
      /\ \A m \in 1..Len(snt) - 1 : FollowsIn(t, snt[m], snt[m + 1])
  BY SeqFacts DEF SentRun
<1>2. p \in 0..Len(snt) /\ p \in Nat
  BY <1>1 DEF LastLeft
<1>3. r \in Seq(SentUop) /\ Len(r) = p /\ \A m \in 1..p : r[m] = snt[m]
  BY <1>1, <1>2, CutInTwo
<1>4. /\ snt[k].uop = 0 /\ UopsIn(t, snt[k]) = 1
      /\ \A m \in 1..Len(snt) : m < k => snt[m].uid < snt[k].uid
      /\ \A m \in 1..Len(snt) : snt[m].uid \in Nat
  BY BranchAlone
<1>5. \A m \in 1..p : m \in 1..Len(snt)
  BY <1>1, <1>2
<1> HIDE DEF p, r, np
<1>6. SentRun(t, r, nu)
  <2>1. r # << >> => r[1].pid = 1 /\ r[1].uop = 0
    <3>1. r # << >> => 1 \in 1..p /\ snt # << >>
      <4>1. r # << >> => p # 0
        BY <1>3, SeqFacts
      <4> QED
        BY <1>1, <1>2, <4>1, SeqFacts
    <3> QED
      BY <1>1, <1>3, <3>1
  <2>2. \A m \in 1..p : r[m].pid \in 1..Len(t) /\ r[m].uid < nu
                        /\ UopsIn(t, r[m]) \in Nat /\ r[m].uop < UopsIn(t, r[m])
    BY <1>1, <1>3, <1>5
  <2>3. \A j, m \in 1..p : j < m =>
            /\ r[j].uid <= r[m].uid
            /\ r[j].uid = r[m].uid => r[j].pid = r[m].pid /\ t[r[j].pid].kind = "vector"
    <3> SUFFICES ASSUME NEW j \in 1..p, NEW m \in 1..p, j < m
                 PROVE  /\ r[j].uid <= r[m].uid
                        /\ r[j].uid = r[m].uid => r[j].pid = r[m].pid /\ t[r[j].pid].kind = "vector"
      BY Zenon
    <3>1. r[j] = snt[j] /\ r[m] = snt[m] /\ j \in 1..Len(snt) /\ m \in 1..Len(snt)
      BY <1>3, <1>5
    <3> QED
      BY <1>1, <3>1
  <2>4. ASSUME NEW m \in 1..p - 1 PROVE FollowsIn(t, r[m], r[m + 1])
    <3>1. m \in 1..p /\ m + 1 \in 1..p /\ m \in 1..Len(snt) - 1
      BY <1>1, <1>2
    <3> QED
      BY <1>1, <1>3, <3>1
  <2> QED
    BY <1>3, <2>1, <2>2, <2>3, <2>4 DEF SentRun
<1>7. DoneOf(r) + 1 = np /\ (r # << >> => r[p].uop + 1 = UopsIn(t, r[p])) /\ np \in 1..Len(t) + 1
  <2>0. snt[k].pid \in 1..Len(t) /\ snt[k].pid \in Nat
    BY <1>1
  <2>1. CASE ~inclusive
    <3>1. p = k /\ np = snt[k].pid + 1
      BY <2>1 DEF p, np, LastLeft, ResetTo
    <3>2. r[p] = snt[k] /\ r # << >> /\ Len(r) = k
      BY <1>1, <1>3, <3>1, SeqFacts
    <3>3. DoneOf(r) = snt[k].pid
      BY <3>1, <3>2 DEF DoneOf
    <3> QED
      BY <1>4, <2>0, <3>1, <3>2, <3>3
  <2>2. CASE inclusive /\ k = 1
    <3>1. p = 0 /\ np = snt[1].pid
      BY <2>2 DEF p, np, LastLeft, ResetTo
    <3>2. r = << >> /\ snt # << >>
      BY <1>1, <1>3, <3>1, SeqFacts
    <3>3. DoneOf(r) = 0 /\ snt[1].pid = 1
      BY <1>1, <3>2 DEF DoneOf
    <3> QED
      BY <2>0, <3>1, <3>2, <3>3
  <2>3. CASE inclusive /\ k # 1
    <3>1. p = k - 1 /\ np = snt[k].pid
      BY <2>3 DEF p, np, LastLeft, ResetTo
    <3>2. p \in 1..Len(snt) - 1 /\ p + 1 = k /\ p < k /\ p \in 1..p /\ p \in 1..Len(snt)
      BY <1>1, <2>3, <3>1
    <3>3. r[p] = snt[p] /\ r # << >> /\ Len(r) = p
      BY <1>3, <3>2, SeqFacts
    <3>4. FollowsIn(t, snt[p], snt[k])
      BY <1>1, <3>2
    <3>5. snt[p].uid < snt[k].uid /\ snt[p].uid \in Nat /\ snt[k].uid \in Nat
      BY <1>4, <3>2
    <3>6. ~(snt[p].uop + 1 < UopsIn(t, snt[p])) /\ snt[k].pid = snt[p].pid + 1
      BY <3>4, <3>5 DEF FollowsIn
    <3>7. snt[p].uop < UopsIn(t, snt[p]) /\ UopsIn(t, snt[p]) \in Nat /\ snt[p].uop \in Nat
      <4>1. snt[p] \in SentUop
        BY <1>1, <3>2, SeqFacts
      <4> QED
        BY <1>1, <3>2, <4>1 DEF SentUop
    <3>8. snt[p].uop + 1 = UopsIn(t, snt[p])
      BY <3>6, <3>7
    <3>9. DoneOf(r) = snt[p].pid
      BY <3>3 DEF DoneOf
    <3> QED
      BY <2>0, <3>1, <3>3, <3>6, <3>8, <3>9
  <2> QED
    BY <2>1, <2>2, <2>3
<1>8. QueueRun(t, r, << >>, np, nu)
  <2>1. << >> \in Seq(Inst) /\ Len(<< >>) = 0
    OBVIOUS
  <2>2. 1..0 = {}
    OBVIOUS
  <2>3. DoneOf(r) \in Nat
    BY <1>6, DoneFacts
  <2> QED
    BY <1>7, <2>1, <2>2, <2>3 DEF QueueRun
<1>9. GenRun(t, r, IdleGen)
  BY <1>3, <1>7 DEF GenRun
<1> QED
  BY <1>6, <1>8, <1>9 DEF Ordered, p, r, np

\* The generator is idle, or what it works on is flushed.
LEMMA FlushFreesGen ==
    ASSUME trace \in Traces, RunInv, NEW k \in 1..Len(sent), Kind(sent[k]) = "branch",
           NEW inclusive \in BOOLEAN
    PROVE  AfterGenFlush({j \in {gen.current_inst_} \ {NoInst} :
                              includedInFlush(sent[k], j, inclusive)}) = IdleGen
<1> DEFINE last == sent[Len(sent)]
           c == [uid |-> last.uid, pid |-> last.pid, cfg |-> last.cfg]
<1>1. SentRun(trace, sent, next_uid) /\ GenRun(trace, sent, gen) /\ trace[sent[k].pid].kind = "branch"
  BY DEF RunInv, Ordered, Kind
<1>2. CASE gen = IdleGen
  BY <1>2 DEF AfterGenFlush
<1>3. CASE gen # IdleGen
  <2>1. last.uop + 1 < UopsIn(trace, last) /\ gen.current_inst_ = c /\ sent # << >>
    BY <1>1, <1>3 DEF GenRun
  <2>2. /\ UopsIn(trace, sent[k]) = 1 /\ sent[k].uop = 0 /\ sent[k].uid \in Nat /\ Len(sent) \in Nat
        /\ \A m \in 1..Len(sent) : sent[m].uid \in Nat /\ (m > k => sent[m].uid > sent[k].uid)
    BY <1>1, BranchAlone
  <2>3. Len(sent) # k
    BY <2>1, <2>2
  <2>4. Len(sent) \in 1..Len(sent) /\ Len(sent) > k
    BY <2>2, <2>3
  <2>5. last.uid > sent[k].uid /\ last.uid \in Nat
    BY <2>2, <2>4
  <2>6. last \in SentUop /\ trace[last.pid].kind = "vector"
    <3>1. last \in SentUop
      BY <1>1, <2>4, SeqFacts DEF SentRun
    <3>2. last.uop \in Nat
      BY <3>1 DEF SentUop
    <3> QED
      BY <2>1, <3>1, <3>2 DEF UopsIn
  <2>7. c # NoInst
    <3>1. c \in [uid : Nat, pid : Nat, cfg : VectorConfig \cup {NoInst}]
      BY <2>6 DEF SentUop
    <3> QED
      BY <3>1, TraceAssumption
  <2>8. includedInFlush(sent[k], c, inclusive)
    BY <2>2, <2>5 DEF includedInFlush
  <2> QED
    BY <2>1, <2>7, <2>8 DEF AfterGenFlush
<1> QED
  BY <1>2, <1>3

\* A flush.
LEMMA FlushKeepsOrder == ASSUME OrderInv, Flush PROVE OrderInv'
<1>0. PartsInv /\ GroupInv /\ RunInv /\ (Scalar => FetchCreditsConserved)
  BY DEF OrderInv
<1>1. PICK k \in DOMAIN sent, inclusive \in BOOLEAN :
         /\ Kind(sent[k]) = "branch"
         /\ flushFetch(sent[k], inclusive, CreditsOfFlush)
         /\ handleFlush({j \in {gen.current_inst_} \ {NoInst} : includedInFlush(sent[k], j, inclusive)})
         /\ sent' = ElementsAt(sent, {m \in DOMAIN sent : ~includedInFlush(sent[k], sent[m], inclusive)})
         /\ vsets_out' = {j \in vsets_out : ~includedInFlush(sent[k], j, inclusive)}
  BY Zenon DEF Flush
<1> DEFINE np == ResetTo(sent[k], ~inclusive)
           p  == LastLeft(k, inclusive)
<1>2. /\ next_pid' = np /\ UNCHANGED <<trace, next_uid>>
      /\ ibuf_' = << >> /\ fetch_buffer_' = << >> /\ to_decode' = << >>
      /\ credits_inst_queue_' = credits_inst_queue_ + Len(fetch_queue_)
  BY <1>1 DEF flushFetch, reset, CreditsOfFlush
<1>3. /\ fetch_queue_' = << >>
      /\ gen' = AfterGenFlush({j \in {gen.current_inst_} \ {NoInst} :
                                   includedInFlush(sent[k], j, inclusive)})
      /\ UNCHANGED <<vector_config_, waiting_on_vset_, uop_queue_credits_>>
  BY <1>1 DEF handleFlush
<1>4. phase = "flush" /\ UNCHANGED uops_held
  BY DEF Flush
<1>5. /\ SentRun(trace, sent, next_uid) /\ next_uid \in Nat /\ Len(trace) \in Nat
      /\ trace \in Traces /\ sent \in Seq(SentUop)
  BY <1>0 DEF RunInv, Ordered, QueueRun, SentRun, PartsInv
<1>6. k \in 1..Len(sent) /\ Len(sent) \in Nat /\ trace[sent[k].pid].kind = "branch"
  BY <1>1, <1>5, SeqFacts DEF Kind
<1>7. gen' = IdleGen
  BY <1>0, <1>1, <1>3, <1>5, <1>6, FlushFreesGen
<1>8. sent' = SubSeq(sent, 1, p)
  <2>1. {m \in DOMAIN sent : ~includedInFlush(sent[k], sent[m], inclusive)} = 1..p
    BY <1>1, <1>5, <1>6, FlushTakes
  <2>2. p \in 0..Len(sent)
    BY <1>6 DEF LastLeft
  <2> HIDE DEF p
  <2>3. ElementsAt(sent, 1..p) = SubSeq(sent, 1, p)
    BY <1>5, <2>2, FirstElements
  <2> QED
    BY <1>1, <2>1, <2>3
<1>9. Ordered(trace, SubSeq(sent, 1, p), << >>, IdleGen, np, next_uid)
  BY <1>1, <1>5, <1>6, FlushRun
<1> HIDE DEF p, np
<1>10. FlattenSeq(to_decode') = << >> /\ to_decode = << >> /\ FlattenSeq(to_decode) = << >>
  BY <1>0, <1>2, <1>4, FlattenOne, OneGroup DEF GroupInv
<1>11. Queued' = << >>
  <2> DEFINE h == [m \in DOMAIN fetch_buffer_' |-> fetch_buffer_'[m].inst]
  <2>1. h = << >>
    <3>1. fetch_buffer_' \in Seq(Entry)
      BY <1>2
    <3>2. InstsOf(fetch_buffer_') \in Seq(Inst) /\ Len(InstsOf(fetch_buffer_')) = Len(fetch_buffer_')
      BY <3>1, InstsFacts
    <3>3. Len(fetch_buffer_') = 0
      BY <1>2
    <3>4. InstsOf(fetch_buffer_') = << >>
      BY <3>2, <3>3, SeqFacts
    <3> QED
      BY <3>4 DEF InstsOf
  <2>2. Queued' = ((<< >> \o << >>) \o << >>) \o << >>
    BY <1>2, <1>3, <1>10, <2>1 DEF Queued
  <2>3. << >> \o << >> = << >>
    <3>1. << >> \in Seq(Inst)
      OBVIOUS
    <3> QED
      BY <3>1, EmptyNeutral, Zenon DEF Neutral
  <2> QED
    BY <2>2, <2>3
<1>12. PartsInv'
  <2>1. Len(fetch_queue_) \in Nat /\ IBufCapacity \in Nat
    BY <1>0, SeqFacts, FetchAssumption DEF PartsInv
  <2>2. credits_inst_queue_' \in Nat
    BY <1>0, <1>2, <2>1 DEF PartsInv
  <2>3. << >> \in Seq(Inst) /\ << >> \in Seq(Entry) /\ Len(<< >>) <= IBufCapacity
    BY <2>1
  <2>4. \A i \in vsets_out' : i.pid \in DOMAIN trace' /\ Waits(i)'
    BY <1>0, <1>1, <1>2 DEF PartsInv, Waits, Kind
  <2> QED
    BY <1>0, <1>2, <1>3, <1>4, <2>2, <2>3, <2>4 DEF PartsInv
<1>13. GroupInv'
  <2>1. << >> \in Seq(Seq(Inst)) /\ Len(<< >>) <= 1
    OBVIOUS
  <2> QED
    BY <1>2, <2>1 DEF GroupInv
<1>14. RunInv'
  BY <1>2, <1>7, <1>8, <1>9, <1>11 DEF RunInv
<1>15. ASSUME Scalar PROVE FetchCreditsConserved'
  <2>1. credits_inst_queue_ + Len(fetch_queue_) + 0 = FetchQueueSize
        /\ credits_inst_queue_ \in Nat /\ Len(fetch_queue_) \in Nat
    BY <1>0, <1>10, <1>15, SeqFacts DEF FetchCreditsConserved, PartsInv
  <2>2. Len(fetch_queue_') = 0 /\ Len(FlattenSeq(to_decode')) = 0
    BY <1>3, <1>10
  <2> QED
    BY <1>2, <2>1, <2>2 DEF FetchCreditsConserved
<1> QED
  BY <1>12, <1>13, <1>14, <1>15 DEF OrderInv

\* Before the first cycle there is nothing anywhere.
LEMMA InitOrder == Proper /\ Init => OrderInv
<1> SUFFICES ASSUME Proper, Init PROVE OrderInv
  OBVIOUS
<1>1. /\ trace \in Traces /\ next_pid = 1 /\ next_uid = 1
      /\ ibuf_ = << >> /\ fetch_buffer_ = << >> /\ to_decode = << >>
      /\ credits_inst_queue_ = FetchQueueSize
  BY DEF Init, FetchInit, InstGeneratorInit
<1>2. /\ fetch_queue_ = << >> /\ gen = IdleGen /\ uop_queue_credits_ = UopQueueSize
      /\ vector_config_ = InitConfig /\ waiting_on_vset_ \in WaitingAtStart
  BY DEF Init, DecodeInit
<1>3. sent = << >> /\ uops_held = 0 /\ vsets_out = {}
  BY DEF Init
<1>4. << >> \in Seq(Inst) /\ << >> \in Seq(Entry) /\ << >> \in Seq(SentUop) /\ << >> \in Seq(Seq(Inst))
      /\ Len(<< >>) = 0 /\ 1..0 = {} /\ 1..0 - 1 = {}
  OBVIOUS
<1>5. PartsInv
  <2>1. IBufCapacity \in Nat /\ FetchQueueSize \in Nat /\ UopQueueSize \in Nat
    BY FetchAssumption, DecodeAssumption, FrontEndAssumption
  <2>2. vector_config_ \in UsableConfig /\ waiting_on_vset_ \in BOOLEAN
    BY <1>2, DecodeAssumption DEF UsableConfig, Proper
  <2> QED
    BY <1>1, <1>2, <1>3, <1>4, <2>1, <2>2 DEF PartsInv
<1>6. GroupInv
  BY <1>1, <1>4 DEF GroupInv
<1>7. FlattenSeq(to_decode) = << >>
  BY <1>1, FlattenOne
<1>8. Queued = << >>
  <2>1. InstsOf(fetch_buffer_) = << >>
    <3>1. InstsOf(fetch_buffer_) \in Seq(Inst) /\ Len(InstsOf(fetch_buffer_)) = 0
      BY <1>1, <1>4, InstsFacts
    <3> QED
      BY <3>1, SeqFacts
  <2>2. Queued = ((<< >> \o << >>) \o << >>) \o << >>
    BY <1>1, <1>2, <1>7, <2>1 DEF Queued, InstsOf
  <2>3. << >> \o << >> = << >>
    BY <1>4, EmptyNeutral, Zenon DEF Neutral
  <2> QED
    BY <2>2, <2>3
<1>9. Len(trace) \in Nat
  BY <1>1, TraceAssumption, SeqFacts
<1>10. SentRun(trace, << >>, 1)
  BY <1>4 DEF SentRun
<1>11. QueueRun(trace, << >>, << >>, 1, 1)
  <2>1. DoneOf(<< >>) = 0
    BY DEF DoneOf
  <2> QED
    BY <1>4, <1>9, <2>1 DEF QueueRun
<1>12. GenRun(trace, << >>, IdleGen)
  BY DEF GenRun
<1>13. RunInv
  BY <1>1, <1>2, <1>3, <1>8, <1>10, <1>11, <1>12 DEF RunInv, Ordered
<1>14. FetchCreditsConserved
  <2>1. Len(fetch_queue_) = 0 /\ Len(FlattenSeq(to_decode)) = 0
    BY <1>2, <1>7
  <2> QED
    BY <1>1, <2>1, DecodeAssumption DEF FetchCreditsConserved
<1> QED
  BY <1>5, <1>6, <1>13, <1>14 DEF OrderInv

\* Every step keeps the order.
LEMMA NextOrder == Proper /\ OrderInv /\ [Next]_vars => OrderInv'
<1> SUFFICES ASSUME Proper, OrderInv, [Next]_vars PROVE OrderInv'
  OBVIOUS
<1>1. CASE FetchEvent
  <2>1. /\ phase = "fetch" /\ (\A r \in fetch_resp : r.due > 0)
        /\ fetchInstruction \/ sendInstructions
        /\ UNCHANGED <<phase, decodeVars, fetch_resp, contractVars>>
    BY <1>1 DEF FetchEvent
  <2> QED
    BY <2>1, FetchKeepsOrder, SendKeepsOrder
<1>2. CASE DeliverToICache \/ L2Fills \/ L2ReturnsCredit \/ DecodeGathers \/ ICacheArbitrates
             \/ ICacheRequestsLine \/ ICacheResponds \/ UNCHANGED vars
  BY <1>2, OthersKeepOrder
<1> QED
  BY <1>1, <1>2, DeliverKeepsOrder, DecodeKeepsOrder, ResponseKeepsOrder, VsetKeepsOrder,
     FlushKeepsOrder, RenameKeepsOrder, ClockKeepsOrder DEF Next, Handlers

\* The invariant says what TraceInOrder says.
LEMMA OrderIsTraceInOrder == OrderInv => TraceInOrder
<1> SUFFICES ASSUME OrderInv PROVE TraceInOrder
  OBVIOUS
<1>0. PartsInv /\ GroupInv /\ RunInv
  BY DEF OrderInv
<1> DEFINE q == Queued
           last == sent[Len(sent)]
           d == DoneOf(sent)
<1>1. SentRun(trace, sent, next_uid) /\ QueueRun(trace, sent, q, next_pid, next_uid)
      /\ GenRun(trace, sent, gen)
  BY <1>0 DEF RunInv, Ordered
<1>2. Last(sent) = last /\ \A i : UopsOf(i) = UopsIn(trace, i)
  BY DEF Last, UopsOf, UopsIn, Kind
<1>3. /\ Len(sent) \in Nat /\ (sent # << >> => Len(sent) \in 1..Len(sent))
      /\ q \in Seq(Inst) /\ DOMAIN q = 1..Len(q) /\ Len(q) \in Nat /\ (q # << >> => 1 \in 1..Len(q))
  <2>1. sent \in Seq(SentUop) /\ q \in Seq(Inst)
    BY <1>1 DEF SentRun, QueueRun
  <2> HIDE DEF q
  <2>2. /\ Len(sent) \in Nat /\ (sent = << >> <=> Len(sent) = 0)
        /\ Len(q) \in Nat /\ (q = << >> <=> Len(q) = 0) /\ DOMAIN q = 1..Len(q)
    BY <2>1, SeqFacts
  <2> QED
    BY <2>1, <2>2
<1> HIDE DEF q
<1>4. d = IF sent = << >> THEN 0 ELSE Last(sent).pid
  BY <1>2 DEF DoneOf
<1>5. /\ sent # << >> => /\ sent[1].pid = 1 /\ sent[1].uop = 0
                         /\ getNumUopsRemaining = 0 => last.uop + 1 = UopsIn(trace, last)
      /\ getNumUopsRemaining > 0 =>
            /\ sent # << >> /\ gen.current_inst_.uid = last.uid
            /\ gen.num_uops_generated_ = last.uop + 1
            /\ gen.num_uops_to_generate_ = UopsIn(trace, last)
  <2>1. sent # << >> => sent[1].pid = 1 /\ sent[1].uop = 0
    BY <1>1 DEF SentRun
  <2>2. CASE gen = IdleGen
    <3>1. getNumUopsRemaining = 0
      BY <2>2 DEF getNumUopsRemaining, IdleGen
    <3>2. sent # << >> => last.uop + 1 = UopsIn(trace, last)
      <4>1. CASE sent # << >> /\ last.uop + 1 < UopsIn(trace, last) /\ gen.num_uops_to_generate_ = UopsIn(trace, last)
        <5>1. last \in SentUop /\ UopsIn(trace, last) \in Nat
          BY <1>1, <1>3, <4>1, SeqFacts DEF SentRun
        <5>2. last.uop \in Nat /\ UopsIn(trace, last) = 0
          BY <3>1, <4>1, <5>1 DEF SentUop, getNumUopsRemaining
        <5> QED
          BY <4>1, <5>2
      <4> QED
        BY <1>1, <4>1 DEF GenRun
    <3> QED
      BY <2>1, <3>1, <3>2
  <2>3. CASE gen # IdleGen
    <3>1. /\ sent # << >> /\ last.uop + 1 < UopsIn(trace, last)
          /\ gen = [current_inst_ |-> [uid |-> last.uid, pid |-> last.pid, cfg |-> last.cfg],
                    num_uops_to_generate_ |-> UopsIn(trace, last),
                    num_uops_generated_ |-> last.uop + 1]
      BY <1>1, <2>3 DEF GenRun
    <3>2. last \in SentUop /\ UopsIn(trace, last) \in Nat
      BY <1>1, <1>3, <3>1, SeqFacts DEF SentRun
    <3>3. last.uop \in Nat
      BY <3>2 DEF SentUop
    <3>4. UopsIn(trace, last) # 0
      BY <3>1, <3>2, <3>3
    <3>5. /\ getNumUopsRemaining = UopsIn(trace, last) /\ gen.current_inst_.uid = last.uid
          /\ gen.num_uops_generated_ = last.uop + 1
          /\ gen.num_uops_to_generate_ = UopsIn(trace, last)
      BY <3>1 DEF getNumUopsRemaining
    <3> QED
      BY <2>1, <3>1, <3>4, <3>5
  <2> QED
    BY <2>2, <2>3
<1>6. sent # << >> /\ q # << >> => last.uid < q[1].uid
  BY <1>1, <1>3 DEF QueueRun
<1>7. \A k \in 1..Len(sent) - 1 : FollowsIn(trace, sent[k], sent[k + 1])
  BY <1>1 DEF SentRun
<1>8. (\A k \in DOMAIN q : q[k].pid = d + k) /\ next_pid = d + Len(q) + 1
  BY <1>1, <1>3 DEF QueueRun
<1>9. ASSUME NEW k \in 1..Len(q) - 1 PROVE q[k].uid < q[k + 1].uid
  <2>1. k \in 1..Len(q) /\ k + 1 \in 1..Len(q) /\ k < k + 1
    BY <1>3
  <2> QED
    BY <1>1, <2>1 DEF QueueRun
<1>10. \A k \in 1..Len(sent) - 1 :
          IF sent[k].uop + 1 < UopsOf(sent[k])
          THEN sent[k + 1].uid = sent[k].uid /\ sent[k + 1].pid = sent[k].pid /\ sent[k + 1].uop = sent[k].uop + 1
          ELSE sent[k + 1].uid > sent[k].uid /\ sent[k + 1].pid = sent[k].pid + 1 /\ sent[k + 1].uop = 0
  BY <1>2, <1>7 DEF FollowsIn
<1> HIDE DEF d, last
<1> QED
  BY <1>2, <1>4, <1>5, <1>6, <1>8, <1>9, <1>10 DEF TraceInOrder, q

\* The invariant holds in every state.
THEOREM OrderInvariant == ASSUME Proper PROVE Spec => []OrderInv
<1>1. Init => OrderInv
  BY InitOrder
<1>2. OrderInv /\ [Next]_vars => OrderInv'
  BY NextOrder
<1> QED
  BY <1>1, <1>2, PTL DEF Spec

\* Whatever ICache misses and whatever is flushed when, with every instruction under a
\* configuration that gives it elements (VL > 0): the uops sent to Rename, the rest of the
\* generator's instruction, the fetch queue, the ports, Fetch's buffers and the rest of the
\* trace are the program, in order, without a gap and without a repetition.
THEOREM ProgramOrderKept == ASSUME Proper PROVE Spec => []TraceInOrder
<1>1. OrderInv => TraceInOrder
  BY OrderIsTraceInOrder
<1>2. Spec => []OrderInv
  BY OrderInvariant
<1> QED
  BY <1>1, <1>2, PTL

\* Without vector instructions no credit of the fetch queue is lost or invented.
THEOREM FetchCreditsHold ==
    ASSUME Proper, Scalar
    PROVE  Spec => [](FetchCreditsConserved /\ credits_inst_queue_ \in Nat)
<1>1. OrderInv => FetchCreditsConserved /\ credits_inst_queue_ \in Nat
  BY DEF OrderInv, PartsInv
<1>2. Spec => []OrderInv
  BY OrderInvariant
<1> QED
  BY <1>1, <1>2, PTL

-----------------------------------------------------------------------------
(* What ICache still owes.                                                 *)

\* Answers that ICache has scheduled and Fetch gets a credit with.
Hits == HitsIn(ev_respond_) \cup ev_replay_ready_

AccessesOf(E) == {e.access : e \in E}

\* The accesses that ICache has not answered.
Open == UNION {Range(to_icache), Range(fetch_req_queue_), Range(pending_miss_buffer_),
               Range(replay_buffer_), AccessesOf(Hits)}

Apart(t, f, p, b, e) ==
    /\ t \cap f = {} /\ t \cap p = {} /\ t \cap b = {} /\ t \cap e = {}
    /\ f \cap p = {} /\ f \cap b = {} /\ f \cap e = {}
    /\ p \cap b = {} /\ p \cap e = {} /\ b \cap e = {}

\* The queues t, f, p, b and the answers E hold every access once.
Once(t, f, p, b, E) ==
    /\ Distinct(t) /\ Distinct(f) /\ Distinct(p) /\ Distinct(b)
    /\ Apart(Range(t), Range(f), Range(p), Range(b), AccessesOf(E))
    /\ \A d, e \in E : d.access = e.access => d = e

\* An access is in one place, so that its answer leaves none behind.
OnceInv == Once(to_icache, fetch_req_queue_, pending_miss_buffer_, replay_buffer_, Hits)

\* No instruction is asked for twice.
SplitInv == \A a, b \in Open : a # b => a.insts \cap b.insts = {}

UidsOf(s) == {s[k].uid : k \in DOMAIN s}

\* What the answers on their way to Fetch are for.
Arriving == UNION {r.access.insts : r \in HitsIn(fetch_resp)}

\* Instructions that ICache has answered for.
Answered == UNION {UidsOf(sent), UidsOf(fetch_queue_), UidsOf(FlattenSeq(to_decode)),
                   {e.inst.uid : e \in {x \in Range(fetch_buffer_) : x.fetched}}, Arriving}

\* They are not wanted any more.
FreshInv == Answered \cap Wanted = {}

\* What has not been asked for is younger than what has.
AskedInv == \A u \in Wanted \cup Arriving :
                u \in Nat /\ u < next_uid /\ \A v \in UidsOf(ibuf_) : u < v

\* The answers on their way are records.
ArrivalInv == \A r \in fetch_resp : Answer(r)

WantInv == OnceInv /\ SplitInv /\ FreshInv /\ AskedInv /\ ArrivalInv

\* What is wanted is what the open accesses are for.
LEMMA WantedIsOpen == SeqInv => Wanted = UNION {a.insts : a \in Open}
<1> SUFFICES ASSUME SeqInv PROVE Wanted = UNION {a.insts : a \in Open}
  OBVIOUS
<1> DEFINE t == to_icache
           f == fetch_req_queue_
           p == pending_miss_buffer_
           b == replay_buffer_
<1>1. IsSequence(t) /\ IsSequence(f) /\ IsSequence(p) /\ IsSequence(b)
  BY DEF SeqInv
<1> HIDE DEF t, f, p, b
<1>2. IsSequence(t \o f) /\ Range(t \o f) = Range(t) \cup Range(f)
  BY <1>1, DistinctConcat
<1>3. IsSequence(t \o f \o p) /\ Range(t \o f \o p) = Range(t \o f) \cup Range(p)
  BY <1>1, <1>2, DistinctConcat
<1>4. Range(t \o f \o p \o b) = Range(t \o f \o p) \cup Range(b)
  BY <1>1, <1>3, DistinctConcat
<1>5. ToSet(t \o f \o p \o b) = UNION {Range(t), Range(f), Range(p), Range(b)}
  <2>1. ToSet(t \o f \o p \o b) = Range(t \o f \o p \o b)
    BY DEF ToSet, Range
  <2> QED
    BY <1>2, <1>3, <1>4, <2>1
<1>6. {e.access : e \in {x \in ev_respond_ : x.hit} \cup ev_replay_ready_} = AccessesOf(Hits)
  BY DEF AccessesOf, Hits, HitsIn
<1>7. Open = ToSet(t \o f \o p \o b) \cup AccessesOf(Hits)
  BY <1>5 DEF Open, t, f, p, b
<1> QED
  BY <1>6, <1>7 DEF Wanted, t, f, p, b

\* The same after a step.
LEMMA WantedIsOpenNext == ASSUME SeqInv' PROVE Wanted' = UNION {a.insts : a \in Open'}
<1>1. (SeqInv => Wanted = UNION {a.insts : a \in Open})'
  BY WantedIsOpen, PTL
<1> QED
  BY <1>1

\* Fewer accesses are open, and what is answered now was wanted before.
LEMMA WantStep ==
    ASSUME SeqInv, SeqInv', WantInv, OnceInv', ArrivalInv', Open' \subseteq Open,
           NEW X, X \subseteq Wanted, X \cap Wanted' = {},
           Answered' \subseteq Answered \cup X, Arriving' \subseteq Arriving \cup X,
           UidsOf(ibuf_)' \subseteq UidsOf(ibuf_), next_uid' = next_uid
    PROVE  WantInv'
<1>1. Wanted = UNION {a.insts : a \in Open}
  BY WantedIsOpen
<1>2. Wanted' = UNION {a.insts : a \in Open'}
  BY WantedIsOpenNext
<1>3. Wanted' \subseteq Wanted
  BY <1>1, <1>2
<1>4. SplitInv'
  BY DEF WantInv, SplitInv
<1>5. FreshInv'
  BY <1>3 DEF WantInv, FreshInv
<1>6. AskedInv'
  BY <1>3 DEF WantInv, AskedInv
<1> QED
  BY <1>4, <1>5, <1>6 DEF WantInv

\* The same accesses are open, and the same instructions are answered.
LEMMA SameWants ==
    ASSUME WantInv, UNCHANGED <<to_icache, fetch_req_queue_, pending_miss_buffer_, replay_buffer_,
                                ev_respond_, ev_replay_ready_, fetch_resp, fetch_queue_>>,
           UNCHANGED <<sent, to_decode, fetch_buffer_, ibuf_, next_uid>>
    PROVE  WantInv'
<1>1. Hits' = Hits /\ Open' = Open /\ Wanted' = Wanted
  BY DEF Hits, Open, Wanted
<1>2. OnceInv' /\ SplitInv'
  BY <1>1 DEF WantInv, OnceInv, SplitInv
<1>3. Arriving' = Arriving /\ Answered' = Answered
  BY DEF Arriving, Answered
<1>4. FreshInv' /\ AskedInv' /\ ArrivalInv'
  BY <1>1, <1>3 DEF WantInv, FreshInv, AskedInv, ArrivalInv
<1> QED
  BY <1>2, <1>4 DEF WantInv

\* Steps that ICache and the path of instructions do not notice.
LEMMA OthersKeepWants ==
    ASSUME WantInv, L2Fills \/ L2ReturnsCredit \/ VsetExecuted \/ DecodeGathers
                      \/ ICacheRequestsLine \/ RenameReturnsCredits \/ UNCHANGED vars
    PROVE  WantInv'
<1>1. UNCHANGED <<to_icache, fetch_req_queue_, pending_miss_buffer_, replay_buffer_,
                  ev_respond_, ev_replay_ready_, fetch_resp, fetch_queue_>>
      /\ UNCHANGED <<sent, to_decode, fetch_buffer_, ibuf_, next_uid>>
  <2> USE DEF fetchVars, fetchState, instGeneratorVars, icacheVars, icacheQueues, icacheEvents,
              contractVars, decodeVars, decodeState
  <2>1. CASE L2Fills
    BY <2>1 DEF L2Fills, getRespFromL2Cache
  <2>2. CASE L2ReturnsCredit
    BY <2>2 DEF L2ReturnsCredit, getCreditsFromL2Cache
  <2>3. CASE VsetExecuted
    BY <2>3 DEF VsetExecuted, processVset
  <2>4. CASE DecodeGathers
    BY <2>4 DEF DecodeGathers, decodeGathers
  <2>5. CASE ICacheRequestsLine
    BY <2>5 DEF ICacheRequestsLine, requestLine
  <2>6. CASE RenameReturnsCredits
    BY <2>6 DEF RenameReturnsCredits, receiveUopQueueCredits
  <2>7. CASE UNCHANGED vars
    BY <2>7 DEF vars
  <2> QED
    BY <2>1, <2>2, <2>3, <2>4, <2>5, <2>6, <2>7
<1> QED
  BY <1>1, SameWants

\* Answers one cycle later are for the same accesses.
LEMMA AgedAccesses ==
    ASSUME NEW E, \A e \in E : Answer(e)
    PROVE  /\ AccessesOf(AgedEvents(E)) = AccessesOf(E)
           /\ AccessesOf(HitsIn(AgedEvents(E))) = AccessesOf(HitsIn(E))
           /\ \A x \in AgedEvents(E) : Answer(x) /\ \E e \in E : x = Later(e) /\ x.access = e.access
                                                                /\ x.hit = e.hit
<1>1. AgedEvents(E) = {Later(e) : e \in E}
  BY DEF AgedEvents, Later
<1>2. \A e \in E : /\ Answer(Later(e)) /\ Later(e).access = e.access /\ Later(e).hit = e.hit
  BY LaterIsOther
<1> QED
  BY <1>1, <1>2 DEF AccessesOf, HitsIn

\* A cycle ends.
LEMMA ClockKeepsWants ==
    ASSUME IInv, IInv', WantInv, nextPhase
    PROVE  WantInv'
<1>1. UNCHANGED <<to_icache, fetch_req_queue_, pending_miss_buffer_, replay_buffer_, fetch_queue_>>
      /\ UNCHANGED <<sent, to_decode, fetch_buffer_, ibuf_, next_uid>>
  BY DEF nextPhase, icacheQueues, contractVars, decodeState, fetchState, instGeneratorVars
<1>2. CASE phase # "fetch"
  <2>1. UNCHANGED <<ev_respond_, ev_replay_ready_, fetch_resp>>
    BY <1>2 DEF nextPhase, icacheEvents
  <2> QED
    BY <1>1, <2>1, SameWants
<1>3. CASE phase = "fetch"
  <2>1. /\ ev_respond_' = AgedEvents(ev_respond_) /\ ev_replay_ready_' = AgedEvents(ev_replay_ready_)
        /\ fetch_resp' = AgedEvents(fetch_resp)
    BY <1>3 DEF nextPhase
  <2>2. /\ \A e \in ev_respond_ : Answer(e)
        /\ \A e \in ev_replay_ready_ : Answer(e)
        /\ \A e \in fetch_resp : Answer(e)
    BY DEF IInv, EventInv, WantInv, ArrivalInv
  <2>3. /\ AccessesOf(HitsIn(ev_respond_')) = AccessesOf(HitsIn(ev_respond_))
        /\ AccessesOf(ev_replay_ready_') = AccessesOf(ev_replay_ready_)
        /\ AccessesOf(HitsIn(fetch_resp')) = AccessesOf(HitsIn(fetch_resp))
    BY <2>1, <2>2, AgedAccesses
  <2>4. AccessesOf(Hits') = AccessesOf(Hits)
    <3> DEFINE A == HitsIn(ev_respond_)
               B == HitsIn(ev_respond_')
               C == ev_replay_ready_
               D == ev_replay_ready_'
    <3>1. Hits = A \cup C /\ Hits' = B \cup D
      BY DEF Hits
    <3>2. AccessesOf(B) = AccessesOf(A) /\ AccessesOf(D) = AccessesOf(C)
      BY <2>3
    <3> HIDE DEF A, B, C, D
    <3>3. AccessesOf(B \cup D) = AccessesOf(A \cup C)
      BY <3>2 DEF AccessesOf
    <3> QED
      BY <3>1, <3>3
  <2>5. Arriving' = Arriving
    BY <2>3 DEF Arriving, AccessesOf
  <2>6. \A x \in Hits' : \E e \in Hits : x = Later(e) /\ x.access = e.access
    <3>1. \A x \in AgedEvents(ev_respond_) : \E e \in ev_respond_ :
             x = Later(e) /\ x.access = e.access /\ x.hit = e.hit
      BY <2>2, AgedAccesses
    <3>2. \A x \in AgedEvents(ev_replay_ready_) : \E e \in ev_replay_ready_ :
             x = Later(e) /\ x.access = e.access
      BY <2>2, AgedAccesses
    <3> QED
      BY <2>1, <3>1, <3>2 DEF Hits, HitsIn
  <2>7. OnceInv'
    <3>1. \A x, y \in Hits' : x.access = y.access => x = y
      BY <2>6 DEF WantInv, OnceInv, Once
    <3> QED
      BY <1>1, <2>4, <3>1 DEF WantInv, OnceInv, Once
  <2>8. ArrivalInv'
    BY <2>1, <2>2, AgedAccesses DEF ArrivalInv
  <2>9. Open' = Open
    BY <1>1, <2>4 DEF Open
  <2>10. Answered' = Answered
    BY <1>1, <2>5 DEF Answered
  <2>11. UidsOf(ibuf_)' = UidsOf(ibuf_) /\ next_uid' = next_uid
    BY <1>1
  <2>12. SeqInv /\ SeqInv'
    BY DEF IInv
  <2> QED
    <3> DEFINE X == {}
    <3>1. X \subseteq Wanted /\ X \cap Wanted' = {} /\ Answered' \subseteq Answered \cup X
          /\ Arriving' \subseteq Arriving \cup X
      BY <2>5, <2>10
    <3> HIDE DEF X
    <3> QED
      BY <2>7, <2>8, <2>9, <2>11, <2>12, <3>1, WantStep
<1> QED
  BY <1>2, <1>3

\* Fewer accesses are open and fewer instructions answered.
LEMMA FewerWants ==
    ASSUME IInv, IInv', WantInv, OnceInv', Open' \subseteq Open, Answered' \subseteq Answered,
           fetch_resp' \subseteq fetch_resp, UidsOf(ibuf_)' \subseteq UidsOf(ibuf_),
           next_uid' = next_uid
    PROVE  WantInv'
<1> DEFINE X == {}
<1>1. X \subseteq Wanted /\ X \cap Wanted' = {} /\ Answered' \subseteq Answered \cup X
  OBVIOUS
<1>2. Arriving' \subseteq Arriving \cup X
  BY DEF Arriving, HitsIn
<1>3. SeqInv /\ SeqInv' /\ ArrivalInv'
  BY DEF IInv, WantInv, ArrivalInv
<1> HIDE DEF X
<1> QED
  BY <1>1, <1>2, <1>3, WantStep

\* A request arrives at ICache.
LEMMA DeliverKeepsWants ==
    ASSUME IInv, IInv', WantInv, DeliverToICache
    PROVE  WantInv'
<1> DEFINE t == to_icache
           f == fetch_req_queue_
           x == Head(t)
<1>1. /\ t # << >> /\ to_icache' = Tail(t) /\ fetch_req_queue_' = Append(f, x)
      /\ UNCHANGED <<pending_miss_buffer_, replay_buffer_, ev_respond_, ev_replay_ready_,
                     fetch_resp, fetch_queue_>>
      /\ UNCHANGED <<sent, to_decode, fetch_buffer_, ibuf_, next_uid>>
  BY DEF DeliverToICache, getRequestFromFetch, icacheEvents, instGeneratorVars, fetchState,
         decodeVars, decodeState, contractVars
<1>2. IsSequence(t) /\ IsSequence(f) /\ Distinct(t) /\ Distinct(f) /\ Range(t) \cap Range(f) = {}
  BY DEF IInv, SeqInv, WantInv, OnceInv, Once, Apart
<1>3. Distinct(to_icache') /\ Range(to_icache') = Range(t) \ {x} /\ x \in Range(t)
  BY <1>1, <1>2, TailIsSequence
<1>4. Distinct(fetch_req_queue_') /\ Range(fetch_req_queue_') = Range(f) \cup {x}
  <2>1. x \notin Range(f)
    BY <1>2, <1>3
  <2> QED
    BY <1>1, <1>2, <2>1, AppendIsSequence
<1>5. Hits' = Hits
  BY <1>1 DEF Hits
<1>6. OnceInv'
  BY <1>1, <1>3, <1>4, <1>5 DEF WantInv, OnceInv, Once, Apart
<1>7. Open' \subseteq Open
  BY <1>1, <1>3, <1>4, <1>5 DEF Open
<1>8. Answered' = Answered /\ UidsOf(ibuf_)' = UidsOf(ibuf_)
  BY <1>1 DEF Answered, Arriving
<1> QED
  BY <1>1, <1>6, <1>7, <1>8, FewerWants

\* The ids of two sequences.
LEMMA UidsConcat ==
    ASSUME NEW s, NEW t, IsSequence(s), IsSequence(t)
    PROVE  UidsOf(s \o t) = UidsOf(s) \cup UidsOf(t)
<1>1. Range(s \o t) = Range(s) \cup Range(t)
  BY DistinctConcat
<1>2. \A x : UidsOf(x) = {i.uid : i \in Range(x)}
  BY DEF UidsOf, Range
<1> QED
  BY <1>1, <1>2

\* Nothing has no ids.
LEMMA NoUids == UidsOf(<< >>) = {}
  BY DEF UidsOf

\* Decode takes the group.
LEMMA GroupKeepsWants ==
    ASSUME IInv, IInv', OrderInv, WantInv, DeliverToDecode
    PROVE  WantInv'
<1> DEFINE g == Head(to_decode)
<1>1. /\ to_decode # << >> /\ to_decode' = Tail(to_decode) /\ fetch_queue_' = fetch_queue_ \o g
      /\ UNCHANGED <<to_icache, fetch_req_queue_, pending_miss_buffer_, replay_buffer_, ev_respond_,
                     ev_replay_ready_, fetch_resp>>
      /\ UNCHANGED <<sent, fetch_buffer_, ibuf_, next_uid>>
  BY DEF DeliverToDecode, fetchBufferAppended, icacheVars, icacheQueues, icacheEvents,
         instGeneratorVars, fetchState, contractVars
<1>2. to_decode' = << >> /\ g \in Seq(Inst) /\ FlattenSeq(to_decode) = g
  BY <1>1, OneGroup DEF OrderInv
<1>3. FlattenSeq(to_decode') = << >>
  BY <1>2, FlattenOne
<1>4. fetch_queue_ \in Seq(Inst)
  BY DEF OrderInv, PartsInv
<1> HIDE DEF g
<1>5. IsSequence(g) /\ IsSequence(fetch_queue_)
  BY <1>2, <1>4, SeqIsSequence
<1>6. UidsOf(fetch_queue_') = UidsOf(fetch_queue_) \cup UidsOf(g)
  BY <1>1, <1>5, UidsConcat
<1>7. UidsOf(FlattenSeq(to_decode')) = {}
  BY <1>3, NoUids
<1>8. Answered' \subseteq Answered
  <2>1. Arriving' = Arriving
    BY <1>1 DEF Arriving
  <2> QED
    BY <1>1, <1>2, <1>6, <1>7, <2>1 DEF Answered
<1>9. Hits' = Hits
  BY <1>1 DEF Hits
<1>10. OnceInv' /\ Open' \subseteq Open
  BY <1>1, <1>9 DEF OnceInv, WantInv, Open
<1> QED
  BY <1>1, <1>8, <1>10, FewerWants

\* The misses on the line and the others, each once.
LEMMA SplitOnce ==
    ASSUME NEW s, IsSequence(s), Distinct(s), NEW line
    PROVE  /\ IsSequence(SameLine(line, s)) /\ Distinct(SameLine(line, s))
           /\ Distinct(OtherLine(line, s))
           /\ Range(SameLine(line, s)) \cap Range(OtherLine(line, s)) = {}
           /\ Range(SameLine(line, s)) \cup Range(OtherLine(line, s)) = Range(s)
<1> DEFINE T == {k \in DOMAIN s : s[k].line = line}
           U == {k \in DOMAIN s : s[k].line # line}
<1>1. Len(s) \in Nat /\ DOMAIN s = 1..Len(s)
  BY LenProperties DEF IsSequence
<1>2. T \in SUBSET (1..Len(s)) /\ U \in SUBSET (1..Len(s))
  BY <1>1
<1>3. IsSequence(SameLine(line, s)) /\ Distinct(SameLine(line, s))
      /\ Range(SameLine(line, s)) = {s[k] : k \in T}
  BY <1>2, ElementsAtFacts DEF SameLine
<1>4. Distinct(OtherLine(line, s)) /\ Range(OtherLine(line, s)) = {s[k] : k \in U}
  BY <1>2, ElementsAtFacts DEF OtherLine
<1>5. {s[k] : k \in T} \cap {s[k] : k \in U} = {}
  OBVIOUS
<1>6. {s[k] : k \in T} \cup {s[k] : k \in U} = Range(s)
  BY DEF Range
<1> QED
  BY <1>3, <1>4, <1>5, <1>6

\* A fill loses no miss and doubles none.
LEMMA FillOnce ==
    ASSUME SeqInv, OnceInv
    PROVE  /\ Distinct(Replays) /\ Distinct(Pending) /\ Range(Replays) \cap Range(Pending) = {}
           /\ Range(Replays) \cup Range(Pending) = Range(replay_buffer_) \cup Range(pending_miss_buffer_)
<1> DEFINE p == pending_miss_buffer_
           b == replay_buffer_
           line == Head(l2cache_resp_queue_)
<1>1. IsSequence(p) /\ IsSequence(b) /\ Distinct(p) /\ Distinct(b) /\ Range(p) \cap Range(b) = {}
  BY DEF SeqInv, OnceInv, Once, Apart
<1>2. CASE l2cache_resp_queue_ = << >>
  BY <1>1, <1>2 DEF Replays, Pending
<1>3. CASE l2cache_resp_queue_ # << >>
  <2>1. Replays = b \o SameLine(line, p) /\ Pending = OtherLine(line, p)
    BY <1>3 DEF Replays, Pending, ToReplay
  <2> HIDE DEF p, b, line
  <2>2. /\ IsSequence(SameLine(line, p)) /\ Distinct(SameLine(line, p))
        /\ Distinct(OtherLine(line, p))
        /\ Range(SameLine(line, p)) \cap Range(OtherLine(line, p)) = {}
        /\ Range(SameLine(line, p)) \cup Range(OtherLine(line, p)) = Range(p)
    BY <1>1, SplitOnce
  <2> DEFINE x == SameLine(line, p)
             o == OtherLine(line, p)
  <2> HIDE DEF x, o
  <2>3. IsSequence(x) /\ Distinct(x) /\ Range(b) \cap Range(x) = {}
    BY <1>1, <2>2 DEF x
  <2>4. Range(b \o x) = Range(b) \cup Range(x) /\ Distinct(b \o x)
    BY <1>1, <2>3, DistinctConcat
  <2>5. Replays = b \o x /\ Pending = o
    BY <2>1 DEF x, o
  <2> QED
    BY <1>1, <2>2, <2>4, <2>5 DEF x, o, p, b
<1> QED
  BY <1>2, <1>3

\* A replay is scheduled.
LEMMA ReplayOnce ==
    ASSUME IInv, OnceInv, Arbitrated, ArbitratesReplay
    PROVE  OnceInv' /\ Open' \subseteq Open
<1> DEFINE e == [access |-> Head(Replays), hit |-> TRUE, due |-> CacheLatency]
           x == Head(Replays)
<1>1. /\ Distinct(Replays) /\ Distinct(Pending) /\ Range(Replays) \cap Range(Pending) = {}
      /\ Range(Replays) \cup Range(Pending) = Range(replay_buffer_) \cup Range(pending_miss_buffer_)
      /\ IsSequence(Replays)
  BY FillOnce, FillMoves DEF IInv
<1>2. /\ Replays # << >> /\ replay_buffer_' = Tail(Replays) /\ pending_miss_buffer_' = Pending
      /\ ev_replay_ready_' = ev_replay_ready_ \cup {e}
      /\ UNCHANGED <<fetch_req_queue_, ev_respond_, to_icache>>
  BY DEF ArbitratesReplay, Arbitrated
<1>3. e.access = x
  OBVIOUS
<1>4. Distinct(replay_buffer_') /\ Range(replay_buffer_') = Range(Replays) \ {x} /\ x \in Range(Replays)
  BY <1>1, <1>2, TailIsSequence
<1>5. Hits' = Hits \cup {e}
  BY <1>2 DEF Hits
<1> HIDE DEF e, x
<1>6. AccessesOf(Hits \cup {e}) = AccessesOf(Hits) \cup {x}
  BY <1>3 DEF AccessesOf
<1> DEFINE T == Range(to_icache)
           F == Range(fetch_req_queue_)
           P == Range(pending_miss_buffer_)
           B == Range(replay_buffer_)
           A == AccessesOf(Hits)
           R == Range(Replays)
           Q == Range(Pending)
<1>7. Apart(T, F, P, B, A) /\ Distinct(to_icache) /\ Distinct(fetch_req_queue_)
      /\ (\A c, d \in Hits : c.access = d.access => c = d)
  BY DEF OnceInv, Once
<1>8. R \cap Q = {} /\ R \cup Q = B \cup P /\ x \in R
  BY <1>1, <1>4
<1>9. \A d \in Hits : d.access \in A
  BY DEF AccessesOf
<1>10. Open = UNION {T, F, P, B, A}
  BY DEF Open
<1>11. /\ Range(to_icache') = T /\ Range(fetch_req_queue_') = F /\ Range(pending_miss_buffer_') = Q
       /\ Range(replay_buffer_') = R \ {x} /\ AccessesOf(Hits') = A \cup {x}
  BY <1>2, <1>4, <1>5, <1>6
<1>12. Open' = UNION {T, F, Q, R \ {x}, A \cup {x}}
  BY <1>11 DEF Open
<1> HIDE DEF T, F, P, B, A, R, Q
<1>13. Apart(T, F, Q, R \ {x}, A \cup {x}) /\ x \notin A
  BY <1>7, <1>8 DEF Apart
<1>14. Open' \subseteq Open
  BY <1>8, <1>10, <1>12
<1>15. \A c, d \in Hits' : c.access = d.access => c = d
  BY <1>3, <1>5, <1>7, <1>9, <1>13
<1>16. OnceInv'
  BY <1>1, <1>2, <1>4, <1>7, <1>11, <1>13, <1>15 DEF OnceInv, Once
<1> QED
  BY <1>14, <1>16

\* A lookup.
LEMMA LookupOnce ==
    ASSUME IInv, OnceInv, Arbitrated, NEW hit \in BOOLEAN, ArbitratesLookup(hit)
    PROVE  OnceInv' /\ Open' \subseteq Open
<1> DEFINE x == Head(fetch_req_queue_)
           e == [access |-> x, hit |-> hit, due |-> CacheLatency]
<1>1. /\ Distinct(Replays) /\ Distinct(Pending) /\ Range(Replays) \cap Range(Pending) = {}
      /\ Range(Replays) \cup Range(Pending) = Range(replay_buffer_) \cup Range(pending_miss_buffer_)
      /\ IsSequence(Pending)
  BY FillOnce, FillMoves DEF IInv
<1>2. /\ Replays = << >> /\ fetch_req_queue_ # << >> /\ replay_buffer_' = << >>
      /\ ev_respond_' = ev_respond_ \cup {e}
      /\ fetch_req_queue_' = Tail(fetch_req_queue_)
      /\ pending_miss_buffer_' = IF hit THEN Pending ELSE Append(Pending, x)
      /\ UNCHANGED <<ev_replay_ready_, to_icache>>
  BY DEF ArbitratesLookup, Arbitrated
<1>3. e.access = x /\ e.hit = hit
  OBVIOUS
<1>4. IsSequence(fetch_req_queue_) /\ Distinct(fetch_req_queue_)
  BY DEF IInv, SeqInv, OnceInv, Once
<1>5. Distinct(fetch_req_queue_') /\ Range(fetch_req_queue_') = Range(fetch_req_queue_) \ {x}
      /\ x \in Range(fetch_req_queue_)
  BY <1>2, <1>4, TailIsSequence
<1> HIDE DEF e, x
<1>6. Hits' = IF hit THEN Hits \cup {e} ELSE Hits
  BY <1>2, <1>3 DEF Hits, HitsIn
<1>7. AccessesOf(Hits \cup {e}) = AccessesOf(Hits) \cup {x}
  BY <1>3 DEF AccessesOf
<1> DEFINE T == Range(to_icache)
           F == Range(fetch_req_queue_)
           P == Range(pending_miss_buffer_)
           B == Range(replay_buffer_)
           A == AccessesOf(Hits)
           Q == Range(Pending)
<1>8. Apart(T, F, P, B, A) /\ Distinct(to_icache)
      /\ (\A c, d \in Hits : c.access = d.access => c = d)
  BY DEF OnceInv, Once
<1>9. Q = B \cup P /\ x \in F
  BY <1>1, <1>2, <1>5, EmptyIsSequence
<1>10. \A d \in Hits : d.access \in A
  BY DEF AccessesOf
<1>11. Open = UNION {T, F, P, B, A}
  BY DEF Open
<1>12. Range(replay_buffer_') = {} /\ Distinct(replay_buffer_')
  BY <1>2, EmptyIsSequence
<1>13. Range(to_icache') = T /\ Range(fetch_req_queue_') = F \ {x}
  BY <1>2, <1>5
<1>14. x \notin Q
  <2> HIDE DEF T, F, P, B, A, Q
  <2> QED
    BY <1>8, <1>9 DEF Apart
<1>15. CASE hit
  <2>1. Range(pending_miss_buffer_') = Q /\ Distinct(pending_miss_buffer_')
    BY <1>1, <1>2, <1>15
  <2>2. AccessesOf(Hits') = A \cup {x} /\ Hits' = Hits \cup {e}
    BY <1>6, <1>7, <1>15
  <2>3. Open' = UNION {T, F \ {x}, Q, {}, A \cup {x}}
    BY <1>12, <1>13, <2>1, <2>2 DEF Open
  <2> HIDE DEF T, F, P, B, A, Q
  <2>4. Apart(T, F \ {x}, Q, {}, A \cup {x}) /\ x \notin A
    BY <1>8, <1>9 DEF Apart
  <2>5. Open' \subseteq Open
    BY <1>9, <1>11, <2>3
  <2>6. \A c, d \in Hits' : c.access = d.access => c = d
    BY <1>3, <1>8, <1>10, <2>2, <2>4
  <2>7. OnceInv'
    BY <1>2, <1>5, <1>8, <1>12, <1>13, <2>1, <2>2, <2>4, <2>6 DEF OnceInv, Once
  <2> QED
    BY <2>5, <2>7
<1>16. CASE ~hit
  <2>1. Range(pending_miss_buffer_') = Q \cup {x} /\ Distinct(pending_miss_buffer_')
    <3>1. pending_miss_buffer_' = Append(Pending, x)
      BY <1>2, <1>16
    <3> QED
      BY <1>1, <1>14, <3>1, AppendIsSequence
  <2>2. AccessesOf(Hits') = A /\ Hits' = Hits
    BY <1>6, <1>16
  <2>3. Open' = UNION {T, F \ {x}, Q \cup {x}, {}, A}
    BY <1>12, <1>13, <2>1, <2>2 DEF Open
  <2> HIDE DEF T, F, P, B, A, Q
  <2>4. Apart(T, F \ {x}, Q \cup {x}, {}, A)
    BY <1>8, <1>9 DEF Apart
  <2>5. Open' \subseteq Open
    BY <1>9, <1>11, <2>3
  <2>7. OnceInv'
    BY <1>2, <1>5, <1>8, <1>12, <1>13, <2>1, <2>2, <2>4 DEF OnceInv, Once
  <2> QED
    BY <2>5, <2>7
<1> QED
  BY <1>15, <1>16

\* Only a fill.
LEMMA NothingOnce ==
    ASSUME IInv, OnceInv, Arbitrated, ArbitratesNothing
    PROVE  OnceInv' /\ Open' \subseteq Open
<1>1. /\ Distinct(Pending)
      /\ Range(Replays) \cup Range(Pending) = Range(replay_buffer_) \cup Range(pending_miss_buffer_)
  BY FillOnce DEF IInv
<1>2. /\ Replays = << >> /\ replay_buffer_' = << >> /\ pending_miss_buffer_' = Pending
      /\ UNCHANGED <<fetch_req_queue_, ev_respond_, ev_replay_ready_, to_icache>>
  BY DEF ArbitratesNothing, Arbitrated
<1>3. Hits' = Hits
  BY <1>2 DEF Hits
<1> DEFINE P == Range(pending_miss_buffer_)
           B == Range(replay_buffer_)
           Q == Range(Pending)
<1>4. Q = B \cup P
  BY <1>1, <1>2, EmptyIsSequence
<1>5. Range(replay_buffer_') = {} /\ Distinct(replay_buffer_') /\ Range(pending_miss_buffer_') = Q
  BY <1>2, EmptyIsSequence
<1>6. Open' \subseteq Open
  BY <1>2, <1>3, <1>4, <1>5 DEF Open
<1>7. OnceInv'
  BY <1>1, <1>2, <1>3, <1>4, <1>5 DEF OnceInv, Once, Apart
<1> QED
  BY <1>6, <1>7

\* ICache arbitrates: what is open stays so.
LEMMA ArbitrationKeepsWants ==
    ASSUME IInv, IInv', WantInv, ICacheArbitrates
    PROVE  WantInv'
<1>1. Arbitrated /\ (ArbitratesReplay \/ (\E hit \in BOOLEAN : ArbitratesLookup(hit)) \/ ArbitratesNothing)
  BY ArbitrationSteps
<1>2. OnceInv' /\ Open' \subseteq Open
  BY <1>1, ReplayOnce, LookupOnce, NothingOnce DEF WantInv
<1>3. UNCHANGED <<fetch_resp, fetch_queue_, sent, to_decode, fetch_buffer_, ibuf_, next_uid>>
  BY DEF ICacheArbitrates, fetchVars, fetchState, instGeneratorVars, decodeVars, decodeState
<1>4. Answered' = Answered
  BY <1>3 DEF Answered, Arriving
<1> QED
  BY <1>2, <1>3, <1>4, FewerWants

\* ICache answers: a hit closes its access, and its instructions are answered.
LEMMA AnswerKeepsWants ==
    ASSUME IInv, IInv', WantInv, ICacheResponds
    PROVE  WantInv'
<1>1. PICK e \in DueResponses :
         /\ ev_respond_' = ev_respond_ \ {e} /\ ev_replay_ready_' = ev_replay_ready_ \ {e}
         /\ fetch_resp' = fetch_resp \cup {[e EXCEPT !.due = 1]}
         /\ UNCHANGED icacheQueues
         /\ receiveCacheCredit(CreditOf(e)) \/ UNCHANGED fetchVars
  BY DEF ICacheResponds, answered
<1>2. UNCHANGED <<to_icache, fetch_req_queue_, pending_miss_buffer_, replay_buffer_, fetch_queue_,
                  sent, to_decode, fetch_buffer_, ibuf_, next_uid>>
  BY <1>1 DEF ICacheResponds, icacheQueues, decodeVars, decodeState, contractVars,
              receiveCacheCredit, fetchVars, fetchState, instGeneratorVars
<1>3. e \in ev_respond_ \cup ev_replay_ready_ /\ Answer(e)
  BY DEF DueResponses, IInv, EventInv
<1> DEFINE r == [e EXCEPT !.due = 1]
<1>4. r = [access |-> e.access, hit |-> e.hit, due |-> 1]
  BY <1>3 DEF Answer
<1>5. Answer(r) /\ r.access = e.access /\ r.hit = e.hit
  <2>1. r.access = e.access /\ r.hit = e.hit /\ r.due = 1
    BY <1>4
  <2> QED
    BY <1>3, <1>4, <2>1, ICacheAssumption DEF Answer
<1>6. fetch_resp' = fetch_resp \cup {r}
  BY <1>1
<1> HIDE DEF r
<1>7. ArrivalInv'
  BY <1>5, <1>6 DEF WantInv, ArrivalInv
<1>8. Hits' = Hits \ {e}
  BY <1>1 DEF Hits, HitsIn
<1>9. OnceInv'
  BY <1>2, <1>8 DEF WantInv, OnceInv, Once, Apart, AccessesOf
<1>10. Open' \subseteq Open
  BY <1>2, <1>8 DEF Open, AccessesOf
<1> DEFINE X == IF e.hit THEN e.access.insts ELSE {}
<1>11. e.hit => e \in Hits
  BY <1>3 DEF Hits, HitsIn
<1>12. SeqInv /\ SeqInv'
  BY DEF IInv
<1>13. Wanted = UNION {a.insts : a \in Open}
  BY <1>12, WantedIsOpen
<1>14. Wanted' = UNION {a.insts : a \in Open'}
  BY <1>12, WantedIsOpenNext
<1>15. X \subseteq Wanted
  BY <1>11, <1>13 DEF Open, AccessesOf
<1>16. X \cap Wanted' = {}
  <2>1. CASE e.hit
    <3>1. e.access \notin Open' /\ e.access \in Open
      <4>1. e.access \in AccessesOf(Hits)
        BY <1>11, <2>1 DEF AccessesOf
      <4>2. e.access \notin AccessesOf(Hits')
        BY <1>8, <1>11, <2>1 DEF AccessesOf, WantInv, OnceInv, Once
      <4> QED
        BY <1>2, <4>1, <4>2 DEF Open, WantInv, OnceInv, Once, Apart
    <3>2. \A a \in Open' : a.insts \cap e.access.insts = {}
      BY <1>10, <3>1 DEF WantInv, SplitInv
    <3> QED
      BY <1>14, <2>1, <3>2
  <2>2. CASE ~e.hit
    BY <2>2
  <2> QED
    BY <2>1, <2>2
<1>17. Arriving' \subseteq Arriving \cup X
  BY <1>5, <1>6 DEF Arriving, HitsIn
<1>18. Answered' \subseteq Answered \cup X
  BY <1>2, <1>17 DEF Answered
<1> HIDE DEF X
<1> QED
  BY <1>2, <1>7, <1>9, <1>10, <1>12, <1>15, <1>16, <1>17, <1>18, WantStep

\* Instructions of the buffer that ICache has answered for.
FetchedUids == {e.inst.uid : e \in {x \in Range(fetch_buffer_) : x.fetched}}

\* Fetch takes an answer.
LEMMA ResponseKeepsWants ==
    ASSUME IInv, IInv', OrderInv, WantInv, FetchTakesResponse
    PROVE  WantInv'
<1>1. PICK r \in fetch_resp : receiveCacheResponse(r.access, r.hit) /\ fetch_resp' = fetch_resp \ {r}
  BY DEF FetchTakesResponse
<1>2. UNCHANGED <<to_icache, fetch_req_queue_, pending_miss_buffer_, replay_buffer_, ev_respond_,
                  ev_replay_ready_, fetch_queue_, sent, to_decode, ibuf_, next_uid>>
  BY <1>1 DEF FetchTakesResponse, receiveCacheResponse, icacheVars, icacheQueues, icacheEvents,
              decodeVars, decodeState, contractVars, instGeneratorVars
<1>3. Hits' = Hits
  BY <1>2 DEF Hits
<1>4. OnceInv' /\ Open' \subseteq Open
  BY <1>2, <1>3 DEF OnceInv, WantInv, Open
<1>5. Arriving' \subseteq Arriving
  BY <1>1 DEF Arriving, HitsIn
<1>6. FetchedUids' \subseteq FetchedUids \cup Arriving
  <2>1. CASE ~r.hit
    BY <1>1, <2>1 DEF receiveCacheResponse, FetchedUids
  <2>2. CASE r.hit
    <3> DEFINE b == fetch_buffer_
               e(k) == [b[k] EXCEPT !.fetched = @ \/ b[k].inst.uid \in r.access.insts]
    <3>1. fetch_buffer_' = [k \in DOMAIN b |-> e(k)]
      BY <1>1, <2>2 DEF receiveCacheResponse
    <3>2. \A k \in DOMAIN b : b[k] \in Entry
      BY SeqFacts DEF OrderInv, PartsInv
    <3>3. \A k \in DOMAIN b : e(k).inst = b[k].inst
                              /\ (e(k).fetched => b[k].fetched \/ b[k].inst.uid \in r.access.insts)
      BY <3>2 DEF Entry
    <3>4. r.access.insts \subseteq Arriving
      BY <2>2 DEF Arriving, HitsIn
    <3> HIDE DEF e
    <3> QED
      BY <3>1, <3>3, <3>4 DEF FetchedUids, Range
  <2> QED
    BY <2>1, <2>2
<1>7. Answered' \subseteq Answered
  BY <1>2, <1>5, <1>6 DEF Answered, FetchedUids
<1>8. fetch_resp' \subseteq fetch_resp /\ UidsOf(ibuf_)' \subseteq UidsOf(ibuf_)
  BY <1>1, <1>2
<1> QED
  BY <1>2, <1>4, <1>7, <1>8, FewerWants

\* Fetch sends a group of what it has got, or has no room for one.
LEMMA SendKeepsWants ==
    ASSUME IInv, IInv', OrderInv, WantInv, phase = "fetch", sendInstructions,
           UNCHANGED <<phase, icacheVars, decodeVars, fetch_resp, contractVars>>
    PROVE  WantInv'
<1>0. PartsInv /\ GroupInv
  BY DEF OrderInv
<1>1. UNCHANGED <<to_icache, fetch_req_queue_, pending_miss_buffer_, replay_buffer_, ev_respond_,
                  ev_replay_ready_, fetch_resp, fetch_queue_, sent, ibuf_, next_uid>>
  BY DEF sendInstructions, icacheVars, icacheQueues, icacheEvents,
         decodeVars, decodeState, contractVars, instGeneratorVars
<1>2. to_decode = << >>
  BY <1>0, OneGroup DEF GroupInv, sendInstructions
<1>3. Hits' = Hits
  BY <1>1 DEF Hits
<1>4. OnceInv' /\ Open' \subseteq Open
  BY <1>1, <1>3 DEF OnceInv, WantInv, Open
<1>5. Arriving' = Arriving
  BY <1>1 DEF Arriving
<1> DEFINE b == fetch_buffer_
           upper == Min({credits_inst_queue_, NumToFetch, Len(b)})
           n == Max({k \in 0..upper : CanSend(k)})
           g == [k \in 1..n |-> b[k].inst]
           r == SubSeq(b, n + 1, Len(b))
<1>6. Answered' \subseteq Answered
  <2>1. CASE upper = 0
    <3>1. UNCHANGED <<fetch_buffer_, to_decode>>
      BY <2>1 DEF sendInstructions
    <3> QED
      BY <1>1, <1>5, <3>1 DEF Answered
  <2>2. CASE upper # 0
    <3>1. fetch_buffer_' = r /\ to_decode' = Append(to_decode, g)
      BY <2>2 DEF sendInstructions
    <3>2. b \in Seq(Entry) /\ Len(b) \in Nat /\ credits_inst_queue_ \in Nat /\ NumToFetch \in Nat
          /\ DOMAIN b = 1..Len(b)
      BY <1>0, SeqFacts, FetchAssumption DEF PartsInv
    <3>3. upper \in Nat /\ upper <= Len(b)
      <4> DEFINE M == {credits_inst_queue_, NumToFetch, Len(b)}
      <4>1. M \in SUBSET Nat /\ M # {}
        BY <3>2
      <4>2. Min(M) \in M /\ \A k \in M : Min(M) <= k
        BY <4>1, MinOf
      <4> QED
        BY <4>1, <4>2
    <3> HIDE DEF upper
    <3>4. n \in 0..upper /\ CanSend(n)
      <4> DEFINE M == {k \in 0..upper : CanSend(k)}
      <4>1. 0 \in 0..upper /\ CanSend(0)
        BY <3>3 DEF CanSend
      <4>2. M \in SUBSET (0..upper) /\ M # {}
        BY <4>1
      <4> HIDE DEF M
      <4>3. Max(M) \in M
        BY <3>3, <4>2, MaxOf
      <4> QED
        BY <4>2, <4>3 DEF M
    <3> HIDE DEF n
    <3>5. n \in Nat /\ n \in 0..Len(b) /\ n <= Len(b)
      BY <3>2, <3>3, <3>4
    <3>6. \A k \in 1..n : b[k].fetched /\ b[k] \in Range(b)
      BY <3>2, <3>4, <3>5 DEF CanSend, Range
    <3>7. UidsOf(g) \subseteq FetchedUids
      <4>1. DOMAIN g = 1..n /\ \A k \in 1..n : g[k] = b[k].inst
        OBVIOUS
      <4> HIDE DEF g
      <4>2. \A k \in 1..n : b[k].inst.uid \in FetchedUids
        BY <3>6 DEF FetchedUids
      <4> QED
        BY <4>1, <4>2 DEF UidsOf
    <3>8. Range(r) \subseteq Range(b)
      <4>1. /\ r \in Seq(Entry) /\ Len(r) = Len(b) - n
            /\ \A k \in 1..Len(b) - n : r[k] = b[n + k]
        BY <3>2, <3>5, CutInTwo
      <4> HIDE DEF r, b
      <4>2. DOMAIN r = 1..Len(b) - n
        BY <4>1, SeqFacts
      <4>3. \A k \in 1..Len(b) - n : n + k \in 1..Len(b)
        BY <3>2, <3>5
      <4> QED
        BY <3>2, <4>1, <4>2, <4>3 DEF Range
    <3>9. FetchedUids' \subseteq FetchedUids
      BY <3>1, <3>8 DEF FetchedUids
    <3>10. FlattenSeq(to_decode') = g
      <4> HIDE DEF g
      <4>1. to_decode' = <<g>>
        BY <1>2, <3>1
      <4> QED
        BY <4>1, FlattenOne, Zenon
    <3> QED
      BY <1>1, <1>5, <3>7, <3>9, <3>10 DEF Answered, FetchedUids
  <2> QED
    BY <2>1, <2>2
<1>7. fetch_resp' \subseteq fetch_resp /\ UidsOf(ibuf_)' \subseteq UidsOf(ibuf_) /\ next_uid' = next_uid
  BY <1>1
<1> QED
  BY <1>4, <1>6, <1>7, FewerWants

\* A flush.
LEMMA FlushKeepsWants ==
    ASSUME IInv, IInv', OrderInv, WantInv, Flush
    PROVE  WantInv'
<1>1. /\ ibuf_' = << >> /\ fetch_buffer_' = << >> /\ to_icache' = << >> /\ to_decode' = << >>
      /\ fetch_queue_' = << >> /\ next_uid' = next_uid
      /\ UNCHANGED <<fetch_req_queue_, pending_miss_buffer_, replay_buffer_, ev_respond_,
                     ev_replay_ready_, fetch_resp>>
  BY DEF Flush, flushFetch, handleFlush, reset, icacheVars, icacheQueues, icacheEvents
<1>2. PICK T \in SUBSET DOMAIN sent : sent' = ElementsAt(sent, T)
  BY DEF Flush
<1>3. UidsOf(sent') \subseteq UidsOf(sent)
  <2>1. sent \in Seq(SentUop)
    BY DEF OrderInv, RunInv, Ordered, SentRun
  <2>2. IsSequence(sent) /\ DOMAIN sent = 1..Len(sent)
    BY <2>1, SeqIsSequence
  <2>3. Range(sent') = {sent[k] : k \in T}
    BY <1>2, <2>2, ElementsAtFacts
  <2>4. \A x : UidsOf(x) = {i.uid : i \in Range(x)}
    BY DEF UidsOf, Range
  <2> QED
    BY <2>3, <2>4 DEF Range
<1>4. /\ FlattenSeq(to_decode') = << >> /\ Range(fetch_buffer_') = {} /\ Range(to_icache') = {}
      /\ Distinct(to_icache')
  BY <1>1, FlattenOne, EmptyIsSequence
<1>5. Hits' = Hits /\ Arriving' = Arriving
  BY <1>1 DEF Hits, Arriving
<1>6. OnceInv' /\ Open' \subseteq Open
  BY <1>1, <1>4, <1>5 DEF WantInv, OnceInv, Once, Apart, Open
<1>7. UidsOf(fetch_queue_') = {} /\ UidsOf(ibuf_') = {} /\ UidsOf(FlattenSeq(to_decode')) = {}
  BY <1>1, <1>4, NoUids
<1>8. Answered' \subseteq Answered
  BY <1>3, <1>4, <1>5, <1>7 DEF Answered
<1> QED
  BY <1>1, <1>6, <1>7, <1>8, FewerWants

\* Instructions that are with Decode or behind it.
KnownUids == UidsOf(sent) \cup UidsOf(fetch_queue_)

\* The loop has no others.
Known(s) ==
    /\ UidsOf(s.queue) \subseteq KnownUids /\ UidsOf(s.insts) \subseteq KnownUids
    /\ s.gen.num_uops_to_generate_ > 0 => s.gen.current_inst_.uid \in KnownUids

\* The ids of a sequence that gains an element.
LEMMA UidsAppend ==
    ASSUME NEW s, IsSequence(s), NEW u
    PROVE  UidsOf(Append(s, u)) = UidsOf(s) \cup {u.uid}
<1>1. Range(Append(s, u)) = Range(s) \cup {u}
  BY AppendIsSequence
<1>2. \A x : UidsOf(x) = {i.uid : i \in Range(x)}
  BY DEF UidsOf, Range
<1> QED
  BY <1>1, <1>2

\* An iteration takes what the queue and the generator have.
LEMMA KnownStep ==
    ASSUME trace \in Traces, NEW rest \in Seq(Inst), NEW n \in Nat, NEW s, Looped(s, n, rest), Known(s)
    PROVE  Known(DecodeOne(s))
<1> DEFINE a == s.queue
           b == s.gen
           c == s.config
           w == s.waiting
           d == s.insts
           r == DecodeOne(s)
           K == KnownUids
<1>1. /\ s = [queue |-> a, gen |-> b, config |-> c, waiting |-> w, insts |-> d]
      /\ a \in Seq(Inst) /\ d \in Seq(SentUop) /\ w \in BOOLEAN
      /\ Ordered(trace, sent \o d, a \o rest, b, next_pid, next_uid)
  BY DEF Looped
<1>2. b.num_uops_to_generate_ \in Nat /\ GenRun(trace, sent \o d, b)
  BY <1>1, GenNumber DEF Ordered
<1>3. UidsOf(a) \subseteq K /\ UidsOf(d) \subseteq K
      /\ (b.num_uops_to_generate_ > 0 => b.current_inst_.uid \in K)
  BY DEF Known
<1>4. Iterated(r, s, a, b, c, w, d)
  BY <1>1, <1>2, DecodeOneIs, Zenon
<1>5. IsSequence(d)
  BY <1>1, SeqIsSequence
<1> HIDE DEF a, b, c, w, d, r, K
<1>6. ASSUME NEW u PROVE UidsOf(Append(d, u)) = UidsOf(d) \cup {u.uid}
  BY <1>5, UidsAppend
<1>7. ASSUME a # << >> PROVE UidsOf(Tail(a)) \subseteq K /\ Head(a).uid \in K
  <2>1. Range(a) = {Head(a)} \cup Range(Tail(a))
    BY <1>1, <1>7, TailRange
  <2>2. \A x : UidsOf(x) = {i.uid : i \in Range(x)}
    BY DEF UidsOf, Range
  <2> QED
    BY <1>3, <2>1, <2>2
<1>8. ASSUME NEW g, g.num_uops_to_generate_ > 0 => g.current_inst_.uid \in K,
             g = [current_inst_ |-> g.current_inst_, num_uops_to_generate_ |-> g.num_uops_to_generate_,
                  num_uops_generated_ |-> g.num_uops_generated_]
      PROVE  AfterUop(g).num_uops_to_generate_ > 0 => AfterUop(g).current_inst_.uid \in K
  <2>1. CASE g.num_uops_generated_ + 1 = g.num_uops_to_generate_
    BY <2>1 DEF AfterUop, IdleGen
  <2>2. CASE g.num_uops_generated_ + 1 # g.num_uops_to_generate_
    <3>1. AfterUop(g) = [g EXCEPT !.num_uops_generated_ = @ + 1]
      BY <2>2 DEF AfterUop
    <3>2. /\ AfterUop(g).num_uops_to_generate_ = g.num_uops_to_generate_
          /\ AfterUop(g).current_inst_ = g.current_inst_
      BY <1>8, <3>1
    <3> QED
      BY <1>8, <3>2
  <2> QED
    BY <2>1, <2>2
<1>9. ASSUME NEW q, NEW g, NEW v, NEW z, NEW u,
              r = [queue |-> q, gen |-> g, config |-> v, waiting |-> z, insts |-> Append(d, u)],
              UidsOf(q) \subseteq K, u.uid \in K,
              g.num_uops_to_generate_ > 0 => g.current_inst_.uid \in K
       PROVE  Known(r)
  <2>1. r.queue = q /\ r.gen = g /\ r.insts = Append(d, u)
    BY <1>9
  <2>2. UidsOf(Append(d, u)) \subseteq K
    BY <1>3, <1>6, <1>9
  <2> QED
    BY <1>9, <2>1, <2>2 DEF Known, K
<1>10. ASSUME b.num_uops_to_generate_ > 0,
              r = [queue |-> a, gen |-> AfterUop(b), config |-> c, waiting |-> w,
                   insts |-> Append(d, UopOf(b))]
       PROVE  Known(r)
  <2>1. UopOf(b).uid \in K
    BY <1>3, <1>10 DEF UopOf
  <2>2. b = [current_inst_ |-> b.current_inst_, num_uops_to_generate_ |-> b.num_uops_to_generate_,
             num_uops_generated_ |-> b.num_uops_generated_]
    BY <1>2 DEF GenRun, IdleGen
  <2>3. AfterUop(b).num_uops_to_generate_ > 0 => AfterUop(b).current_inst_.uid \in K
    BY <1>3, <1>8, <2>2
  <2> QED
    BY <1>3, <1>9, <1>10, <2>1, <2>3
<1>11. ASSUME a # << >>
       PROVE  LET h == SetInst([uid |-> Head(a).uid, pid |-> Head(a).pid, cfg |-> c],
                               NumUops("ELEMENTWISE", 0, c))
              IN  r = [queue |-> Tail(a), gen |-> AfterUop(h), config |-> c, waiting |-> w,
                       insts |-> Append(d, UopOf(h))] => Known(r)
  <2> DEFINE h == SetInst([uid |-> Head(a).uid, pid |-> Head(a).pid, cfg |-> c],
                          NumUops("ELEMENTWISE", 0, c))
  <2>1. h.current_inst_.uid \in K /\ UopOf(h).uid \in K
    BY <1>7, <1>11 DEF SetInst, UopOf
  <2>2. h = [current_inst_ |-> h.current_inst_, num_uops_to_generate_ |-> h.num_uops_to_generate_,
             num_uops_generated_ |-> h.num_uops_generated_]
    BY DEF SetInst
  <2> HIDE DEF h
  <2>3. AfterUop(h).num_uops_to_generate_ > 0 => AfterUop(h).current_inst_.uid \in K
    BY <1>8, <2>1, <2>2
  <2>4. r = [queue |-> Tail(a), gen |-> AfterUop(h), config |-> c, waiting |-> w,
             insts |-> Append(d, UopOf(h))] => Known(r)
    BY <1>7, <1>9, <1>11, <2>1, <2>3
  <2> QED
    BY <2>4 DEF h
<1>12. ASSUME a # << >>,
              r = [queue |-> Tail(a), gen |-> b,
                   config |-> IF Kind(Head(a)) = "vset" THEN ConfigOf(Head(a)) ELSE c,
                   waiting |-> Waits(Head(a)),
                   insts |-> Append(d, [uid |-> Head(a).uid, pid |-> Head(a).pid,
                                        uop |-> 0, cfg |-> NoInst])]
       PROVE  Known(r)
  <2> DEFINE u == [uid |-> Head(a).uid, pid |-> Head(a).pid, uop |-> 0, cfg |-> NoInst]
             v == IF Kind(Head(a)) = "vset" THEN ConfigOf(Head(a)) ELSE c
             z == Waits(Head(a))
  <2>1. u.uid \in K
    BY <1>7, <1>12
  <2>2. r = [queue |-> Tail(a), gen |-> b, config |-> v, waiting |-> z, insts |-> Append(d, u)]
    BY <1>12
  <2> HIDE DEF u, v, z
  <2> QED
    BY <1>3, <1>7, <1>9, <1>12, <2>1, <2>2
<1> QED
  <2>1. Known(r)
    <3>1. r = s => Known(r)
      OBVIOUS
    <3> QED
      BY <1>4, <1>10, <1>11, <1>12, <3>1 DEF Iterated
  <2> QED
    BY <2>1 DEF r

\* A session begins with what Decode has.
LEMMA LoopStarts ==
    ASSUME OrderInv
    PROVE  Looped(Loop0, 0, Between) /\ Known(Loop0)
<1>0. PartsInv /\ GroupInv /\ RunInv
  BY DEF OrderInv
<1>1. Queued = fetch_queue_ \o Between
  BY <1>0, QueuedParts
<1>2. sent \in Seq(SentUop)
  BY <1>0 DEF RunInv, Ordered, SentRun
<1>3. /\ Loop0.queue = fetch_queue_ /\ Loop0.gen = gen /\ Loop0.config = vector_config_
      /\ Loop0.waiting = waiting_on_vset_ /\ Loop0.insts = << >>
      /\ Loop0 = [queue |-> fetch_queue_, gen |-> gen, config |-> vector_config_,
                  waiting |-> waiting_on_vset_, insts |-> << >>]
  BY DEF Loop0
<1>4. Looped(Loop0, 0, Between)
  <2>1. sent \o << >> = sent
    BY <1>2, EmptyNeutral, Zenon DEF Neutral
  <2>2. Ordered(trace, sent \o Loop0.insts, Loop0.queue \o Between, Loop0.gen, next_pid, next_uid)
    BY <1>0, <1>1, <1>3, <2>1 DEF RunInv
  <2>3. << >> \in Seq(SentUop) /\ Len(<< >>) = 0
    OBVIOUS
  <2>4. Len(fetch_queue_) \in Nat
    BY <1>0, SeqFacts DEF PartsInv
  <2> QED
    BY <1>0, <1>3, <2>2, <2>3, <2>4 DEF Looped, PartsInv
<1>5. gen.num_uops_to_generate_ > 0 => gen.current_inst_.uid \in UidsOf(sent)
  <2> SUFFICES ASSUME gen.num_uops_to_generate_ > 0 PROVE gen.current_inst_.uid \in UidsOf(sent)
    OBVIOUS
  <2> DEFINE last == sent[Len(sent)]
  <2>1. GenRun(trace, sent, gen)
    BY <1>0 DEF RunInv, Ordered
  <2>2. gen # IdleGen
    BY DEF IdleGen
  <2>3. sent # << >> /\ gen.current_inst_.uid = last.uid
    BY <2>1, <2>2 DEF GenRun
  <2>4. Len(sent) \in Nat /\ DOMAIN sent = 1..Len(sent) /\ Len(sent) # 0
    BY <1>2, <2>3, SeqFacts
  <2>5. Len(sent) \in DOMAIN sent
    BY <2>4
  <2> QED
    BY <2>3, <2>5 DEF UidsOf
<1>6. Known(Loop0)
  BY <1>3, <1>5, NoUids DEF Known, KnownUids
<1> QED
  BY <1>4, <1>6

\* A session sends nothing that was not with Decode.
LEMMA SessionKnown ==
    ASSUME Proper, OrderInv, NEW n \in Nat
    PROVE  Looped(Session(n), n, Between) /\ Known(Session(n))
<1> DEFINE f == CHOOSE g : LoopIs(g, n)
           Good(k) == Looped(f[k], k, Between) /\ Known(f[k])
           B == {k \in 0..n : ~Good(k)}
<1>0. trace \in Traces /\ sent \in Seq(SentUop) /\ Between \in Seq(Inst)
  BY QueuedParts DEF OrderInv, PartsInv, RunInv, Ordered, SentRun
<1>1. Session(n) = f[n]
  BY DEF Session, LoopIs
<1>2. LoopIs(f, n)
  BY LoopExists
<1> HIDE DEF f
<1>3. ASSUME NEW k \in 0..n PROVE f[k] = IF k = 0 THEN Loop0 ELSE DecodeOne(f[k - 1])
  BY <1>2, LoopAt
<1>4. B = {}
  <2> SUFFICES ASSUME B # {} PROVE FALSE
    OBVIOUS
  <2>1. B \in SUBSET Nat
    OBVIOUS
  <2>2. PICK m \in B : \A k \in B : m <= k
    BY <2>1, LeastNumber
  <2>3. 0 \in 0..n /\ f[0] = Loop0
    BY <1>3
  <2>4. m # 0
    BY <2>2, <2>3, LoopStarts
  <2>5. m - 1 \in Nat /\ m - 1 \in 0..n /\ (m - 1) + 1 = m /\ m \in 0..n /\ ~(m <= m - 1)
    BY <2>2, <2>4
  <2>6. Looped(f[m - 1], m - 1, Between) /\ Known(f[m - 1])
    BY <2>2, <2>5
  <2>7. Looped(DecodeOne(f[m - 1]), (m - 1) + 1, Between)
    BY <1>0, <2>5, <2>6, LoopStep
  <2>8. Known(DecodeOne(f[m - 1]))
    BY <1>0, <2>5, <2>6, KnownStep
  <2>9. f[m] = DecodeOne(f[m - 1])
    BY <1>3, <2>4, <2>5
  <2>10. Good(m)
    BY <2>5, <2>7, <2>8, <2>9
  <2> QED
    BY <2>2, <2>10
<1>5. n \in 0..n
  OBVIOUS
<1> QED
  BY <1>1, <1>4, <1>5

\* A session.
LEMMA DecodeKeepsWants ==
    ASSUME Proper, IInv, IInv', OrderInv, WantInv, DecodeSession
    PROVE  WantInv'
<1> DEFINE n == NumThisCycle
           s == Session(n)
<1>1. /\ fetch_queue_' = s.queue /\ sent' = sent \o s.insts
      /\ UNCHANGED <<to_icache, fetch_req_queue_, pending_miss_buffer_, replay_buffer_, ev_respond_,
                     ev_replay_ready_, fetch_resp>>
      /\ UNCHANGED <<fetch_buffer_, to_decode, ibuf_, next_uid>>
  BY DEF DecodeSession, decodeInsts, receiveFetchQueueCredits, icacheVars, icacheQueues,
         icacheEvents, fetchState, instGeneratorVars
<1>2. n \in Nat
  BY DecodeAssumption DEF NumThisCycle, OrderInv, PartsInv
<1>3. Looped(s, n, Between) /\ Known(s)
  BY <1>2, SessionKnown
<1> HIDE DEF s, n
<1>4. s.insts \in Seq(SentUop) /\ sent \in Seq(SentUop)
  BY <1>3 DEF Looped, OrderInv, RunInv, Ordered, SentRun
<1>5. UidsOf(sent') = UidsOf(sent) \cup UidsOf(s.insts)
  <2>1. IsSequence(sent) /\ IsSequence(s.insts)
    BY <1>4, SeqIsSequence
  <2> QED
    BY <1>1, <2>1, UidsConcat
<1>6. UidsOf(sent') \cup UidsOf(fetch_queue_') \subseteq UidsOf(sent) \cup UidsOf(fetch_queue_)
  BY <1>1, <1>3, <1>5 DEF Known, KnownUids
<1>7. Hits' = Hits /\ Arriving' = Arriving
  BY <1>1 DEF Hits, Arriving
<1>8. OnceInv' /\ Open' \subseteq Open
  BY <1>1, <1>7 DEF OnceInv, WantInv, Open
<1>9. Answered' \subseteq Answered
  BY <1>1, <1>6, <1>7 DEF Answered
<1> QED
  BY <1>1, <1>8, <1>9, FewerWants

\* What Fetch asks for next is younger than all that was asked for and answered.
LEMMA BufferYoungest ==
    ASSUME OrderInv, WantInv, NEW room \in Nat, NEW buf, buf = ibuf_ \o NextInsts(room)
    PROVE  /\ buf \in Seq(Inst) /\ next_uid \in Nat /\ Left(room) \in Nat
           /\ \A k \in 1..Len(buf) : /\ buf[k].uid \in Nat /\ buf[k].uid < next_uid + Left(room)
                                     /\ \A u \in UNION {Answered, Wanted, Arriving} : u < buf[k].uid
           /\ \A j, k \in 1..Len(buf) : j < k => buf[j].uid < buf[k].uid
<1>0. PartsInv /\ GroupInv /\ RunInv
  BY DEF OrderInv
<1>1. /\ trace \in Traces /\ ibuf_ \in Seq(Inst) /\ fetch_queue_ \in Seq(Inst)
      /\ fetch_buffer_ \in Seq(Entry) /\ next_pid \in 1..Len(trace) + 1 /\ next_uid \in Nat
  BY <1>0 DEF PartsInv, RunInv, Ordered, QueueRun
<1> DEFINE x == NextInsts(room)
           m == Left(room)
<1>2. /\ x \in Seq(Inst) /\ Len(x) = m /\ m \in Nat
      /\ \A k \in 1..m : x[k] = [uid |-> next_uid + k - 1, pid |-> next_pid + k - 1]
  <2>1. Left(room) \in 0..room
    BY <1>1, NextInstsFacts
  <2> QED
    BY <1>1, <2>1, NextInstsFacts
<1>3. Ordered(trace, sent, Queued \o x, gen, next_pid + m, next_uid + m)
  BY <1>0, <1>1, FetchOrder DEF RunInv
<1>4. buf = ibuf_ \o x
  OBVIOUS
<1>5. \A k \in 1..m : x[k].uid >= next_uid
  BY <1>1, <1>2
<1> HIDE DEF x, m
<1> DEFINE f == fetch_queue_
           d == FlattenSeq(to_decode)
           h == InstsOf(fetch_buffer_)
           pre == (f \o d) \o h
<1>6. /\ d \in Seq(Inst) /\ h \in Seq(Inst) /\ f \in Seq(Inst)
      /\ Queued = (f \o d) \o (h \o ibuf_)
  BY <1>0, <1>1, QueuedParts
<1> HIDE DEF f, d, h
<1>7. f \o d \in Seq(Inst) /\ h \o ibuf_ \in Seq(Inst) /\ pre \in Seq(Inst) /\ buf \in Seq(Inst)
  <2>1. f \o d \in Seq(Inst) /\ h \o ibuf_ \in Seq(Inst) /\ ibuf_ \o x \in Seq(Inst)
    BY <1>1, <1>2, <1>6, Closed, Zenon
  <2>2. pre \in Seq(Inst)
    BY <1>6, <2>1, Closed, Zenon
  <2> QED
    BY <1>4, <2>1, <2>2
<1>8. Queued \o x = pre \o buf
  <2>1. Associates(f \o d, h, ibuf_) /\ Associates(pre, ibuf_, x)
    BY <1>1, <1>2, <1>6, <1>7, Assoc, Zenon
  <2> QED
    BY <1>4, <1>6, <2>1 DEF Associates
<1>9. UidsOf(pre) = UNION {UidsOf(f), UidsOf(d), UidsOf(h)}
  <2>1. IsSequence(f) /\ IsSequence(d) /\ IsSequence(h) /\ IsSequence(f \o d)
    BY <1>6, <1>7, SeqIsSequence
  <2>2. UidsOf(f \o d) = UidsOf(f) \cup UidsOf(d) /\ UidsOf(pre) = UidsOf(f \o d) \cup UidsOf(h)
    BY <2>1, UidsConcat
  <2> QED
    BY <2>2
<1> HIDE DEF pre
<1> DEFINE q == pre \o buf
<1>10. /\ q \in Seq(Inst) /\ Len(q) = Len(pre) + Len(buf) /\ Len(pre) \in Nat /\ Len(buf) \in Nat
       /\ \A k \in 1..Len(pre) : q[k] = pre[k]
       /\ \A k \in 1..Len(buf) : q[Len(pre) + k] = buf[k]
  <2>1. pre \in Seq(Inst) /\ buf \in Seq(Inst)
    BY <1>7
  <2>2. q \in Seq(Inst) /\ Len(q) = Len(pre) + Len(buf) /\ Len(pre) \in Nat /\ Len(buf) \in Nat
    BY ONLY <2>1, ConcatFacts
  <2>3. \A k \in 1..Len(pre) : q[k] = pre[k]
    BY ONLY <2>1, ConcatFacts
  <2>4. \A k \in 1..Len(buf) : q[Len(pre) + k] = buf[k]
    BY ONLY <2>1, ConcatFacts
  <2> QED
    BY ONLY <2>2, <2>3, <2>4
<1>11. /\ \A k \in 1..Len(q) : q[k].uid < next_uid + m
       /\ \A j, k \in 1..Len(q) : j < k => q[j].uid < q[k].uid
       /\ \A j \in 1..Len(sent), k \in 1..Len(q) : sent[j].uid < q[k].uid
  BY <1>3, <1>8 DEF Ordered, QueueRun
<1> HIDE DEF q
<1>12. ASSUME NEW k \in 1..Len(buf)
       PROVE  Len(pre) + k \in 1..Len(q) /\ q[Len(pre) + k] = buf[k] /\ buf[k].uid \in Nat
  <2>1. buf[k] \in Inst
    BY <1>7, SeqFacts
  <2>2. buf[k].uid \in Nat
    BY <2>1 DEF Inst
  <2>3. Len(pre) + k \in 1..Len(q)
    BY <1>10
  <2> QED
    BY <1>10, <2>2, <2>3
<1>13. ASSUME NEW k \in 1..Len(buf), NEW u \in UidsOf(pre) \cup UidsOf(sent)
       PROVE  u < buf[k].uid
  <2>1. CASE u \in UidsOf(pre)
    <3>1. PICK j \in 1..Len(pre) : u = pre[j].uid
      BY <1>7, <2>1, SeqFacts DEF UidsOf
    <3>2. j \in 1..Len(q) /\ j < Len(pre) + k /\ q[j] = pre[j]
      BY <1>10, <3>1
    <3> QED
      BY <1>11, <1>12, <3>1, <3>2
  <2>2. CASE u \in UidsOf(sent)
    <3>1. sent \in Seq(SentUop)
      BY <1>0 DEF RunInv, Ordered, SentRun
    <3>2. PICK j \in 1..Len(sent) : u = sent[j].uid
      BY <2>2, <3>1, SeqFacts DEF UidsOf
    <3> QED
      BY <1>11, <1>12, <3>2
  <2> QED
    BY <2>1, <2>2
<1>14. ASSUME NEW k \in 1..Len(buf), NEW u \in Wanted \cup Arriving
       PROVE  u < buf[k].uid
  <2>1. u \in Nat /\ u < next_uid /\ \A v \in UidsOf(ibuf_) : u < v
    BY DEF WantInv, AskedInv
  <2>2. /\ Len(buf) = Len(ibuf_) + Len(x) /\ Len(ibuf_) \in Nat /\ Len(x) \in Nat
        /\ \A i \in 1..Len(ibuf_) : buf[i] = ibuf_[i]
        /\ \A i \in 1..Len(x) : buf[Len(ibuf_) + i] = x[i]
    <3>0. ibuf_ \in Seq(Inst) /\ x \in Seq(Inst)
      BY <1>1, <1>2
    <3>1. /\ Len(ibuf_ \o x) = Len(ibuf_) + Len(x) /\ Len(ibuf_) \in Nat /\ Len(x) \in Nat
          /\ \A i \in 1..Len(ibuf_) : (ibuf_ \o x)[i] = ibuf_[i]
          /\ \A i \in 1..Len(x) : (ibuf_ \o x)[Len(ibuf_) + i] = x[i]
      BY <3>0, ConcatFacts
    <3> QED
      BY <1>4, <3>1, Zenon
  <2>3. CASE k \in 1..Len(ibuf_)
    <3>1. buf[k].uid \in UidsOf(ibuf_)
      BY <1>1, <2>2, <2>3, SeqFacts DEF UidsOf
    <3> QED
      BY <2>1, <3>1
  <2>4. CASE k \notin 1..Len(ibuf_)
    <3> DEFINE i == k - Len(ibuf_)
    <3>1. i \in 1..Len(x) /\ k = Len(ibuf_) + i
      BY <2>2, <2>4
    <3>2. buf[k] = x[i] /\ x[i].uid >= next_uid
      BY <1>2, <1>5, <2>2, <3>1
    <3>3. buf[k].uid \in Nat
      BY <1>12
    <3> QED
      BY <1>1, <2>1, <3>2, <3>3
  <2> QED
    BY <2>3, <2>4
<1>15. Answered \subseteq UNION {UidsOf(sent), UidsOf(pre), Arriving}
  <2>1. FetchedUids \subseteq UidsOf(h)
    BY DEF FetchedUids, UidsOf, h, InstsOf, Range
  <2> QED
    BY <1>9, <2>1 DEF Answered, FetchedUids, f, d
<1>16. ASSUME NEW k \in 1..Len(buf), NEW u \in UNION {Answered, Wanted, Arriving}
       PROVE  u < buf[k].uid
  BY <1>13, <1>14, <1>15
<1>17. ASSUME NEW k \in 1..Len(buf)
       PROVE  buf[k].uid \in Nat /\ buf[k].uid < next_uid + m
  BY <1>11, <1>12
<1>18. ASSUME NEW j \in 1..Len(buf), NEW k \in 1..Len(buf), j < k
       PROVE  buf[j].uid < buf[k].uid
  <2>1. Len(pre) + j < Len(pre) + k
    BY <1>10, <1>18
  <2> QED
    BY <1>11, <1>12, <2>1
<1> QED
  BY <1>1, <1>2, <1>7, <1>16, <1>17, <1>18 DEF m

\* Fetch reads from the trace, and asks for a block of what nobody has asked for.
LEMMA FetchKeepsWants ==
    ASSUME IInv, IInv', OrderInv, WantInv, fetchInstruction,
           UNCHANGED <<phase, icacheVars, decodeVars, fetch_resp, contractVars>>
    PROVE  WantInv'
<1> DEFINE room == IBufCapacity - Len(ibuf_)
           buf  == ibuf_ \o NextInsts(room)
           n    == BlockEnd(buf)
           rest == SubSeq(buf, n + 1, Len(buf))
           new  == [k \in 1..n |-> [inst |-> buf[k], last |-> k = n, fetched |-> FALSE]]
           req  == [line  |-> trace[buf[1].pid].line, insts |-> {buf[k].uid : k \in 1..n}]
<1>0. ibuf_ \in Seq(Inst) /\ fetch_buffer_ \in Seq(Entry) /\ Len(ibuf_) <= IBufCapacity
  BY DEF OrderInv, PartsInv
<1>1. UNCHANGED <<fetch_req_queue_, pending_miss_buffer_, replay_buffer_, ev_respond_,
                  ev_replay_ready_, fetch_resp, fetch_queue_, sent, to_decode>>
  BY DEF fetchInstruction, icacheVars, icacheQueues, icacheEvents, decodeVars, decodeState, contractVars
<1>2. room \in Nat
  BY <1>0, SeqFacts, FetchAssumption
<1>3. /\ next_uid' = next_uid + Left(room)
      /\ \/ /\ ibuf_' = buf /\ UNCHANGED <<fetch_buffer_, to_icache>>
         \/ /\ buf # << >> /\ ibuf_' = rest /\ fetch_buffer_' = fetch_buffer_ \o new
            /\ to_icache' = Append(to_icache, req)
  BY DEF fetchInstruction, getNextInsts
<1> HIDE DEF room
<1>4. /\ buf \in Seq(Inst) /\ next_uid \in Nat /\ Left(room) \in Nat
      /\ \A k \in 1..Len(buf) : /\ buf[k].uid \in Nat /\ buf[k].uid < next_uid + Left(room)
                                /\ \A u \in UNION {Answered, Wanted, Arriving} : u < buf[k].uid
      /\ \A j, k \in 1..Len(buf) : j < k => buf[j].uid < buf[k].uid
  BY <1>2, BufferYoungest
<1> HIDE DEF buf
<1>5. Len(buf) \in Nat /\ DOMAIN buf = 1..Len(buf)
  BY <1>4, SeqFacts
<1>6. Hits' = Hits /\ Arriving' = Arriving /\ ArrivalInv'
  BY <1>1 DEF Hits, Arriving, WantInv, ArrivalInv
<1>7. SeqInv /\ SeqInv'
  BY DEF IInv
<1>8. Wanted = UNION {a.insts : a \in Open}
  BY <1>7, WantedIsOpen
<1>9. Wanted' = UNION {a.insts : a \in Open'}
  BY <1>7, WantedIsOpenNext
<1>10. \A u \in Wanted \cup Arriving : u \in Nat /\ u < next_uid'
  <2>1. \A u \in Wanted \cup Arriving : u \in Nat /\ u < next_uid
    BY DEF WantInv, AskedInv
  <2> QED
    BY <1>3, <1>4, <2>1
<1>11. CASE ibuf_' = buf /\ UNCHANGED <<fetch_buffer_, to_icache>>
  <2>1. Open' = Open /\ Answered' = Answered /\ OnceInv'
    BY <1>1, <1>6, <1>11 DEF Open, Answered, WantInv, OnceInv
  <2>2. Wanted' = Wanted
    BY <1>8, <1>9, <2>1
  <2>3. SplitInv' /\ FreshInv'
    BY <2>1, <2>2 DEF WantInv, SplitInv, FreshInv
  <2>4. \A v \in UidsOf(ibuf_') : \A u \in Wanted \cup Arriving : u < v
    BY <1>4, <1>5, <1>11 DEF UidsOf
  <2>5. AskedInv'
    BY <1>6, <1>10, <2>2, <2>4 DEF AskedInv
  <2> QED
    BY <1>6, <2>1, <2>3, <2>5 DEF WantInv
<1>12. CASE /\ buf # << >> /\ ibuf_' = rest /\ fetch_buffer_' = fetch_buffer_ \o new
            /\ to_icache' = Append(to_icache, req)
  <2>1. n \in 1..Len(buf)
    BY <1>4, <1>12, BlockEndFacts
  <2>2. req.insts = {buf[k].uid : k \in 1..n}
    OBVIOUS
  <2> HIDE DEF n, req
  <2>3. n \in 0..Len(buf) /\ n \in Nat /\ 1 \in 1..n /\ \A k \in 1..n : k \in 1..Len(buf)
    BY <1>5, <2>1
  <2>4. req.insts # {} /\ \A u \in req.insts : u \in Nat /\ u < next_uid'
                                          /\ \A v \in UNION {Answered, Wanted, Arriving} : v < u
    <3>1. buf[1].uid \in req.insts
      BY <2>2, <2>3
    <3>2. \A u \in req.insts : \E k \in 1..Len(buf) : u = buf[k].uid
      BY <2>2, <2>3
    <3> QED
      BY <1>3, <1>4, <3>1, <3>2
  <2>5. req.insts \cap UNION {Answered, Wanted, Arriving} = {}
    BY <2>4
  <2>6. req \notin Open
    BY <1>8, <2>4, <2>5
  <2>7. Range(to_icache') = Range(to_icache) \cup {req} /\ Distinct(to_icache')
    <3>1. IsSequence(to_icache) /\ Distinct(to_icache) /\ req \notin Range(to_icache)
      BY <1>7, <2>6 DEF SeqInv, WantInv, OnceInv, Once, Open
    <3> QED
      BY <1>12, <3>1, AppendIsSequence
  <2>8. Open' = Open \cup {req}
    BY <1>1, <1>6, <2>7 DEF Open
  <2>9. OnceInv'
    <3>1. req \notin Range(fetch_req_queue_) /\ req \notin Range(pending_miss_buffer_)
          /\ req \notin Range(replay_buffer_) /\ req \notin AccessesOf(Hits)
      BY <2>6 DEF Open
    <3> QED
      BY <1>1, <1>6, <2>7, <3>1 DEF WantInv, OnceInv, Once, Apart
  <2>10. Wanted' = Wanted \cup req.insts
    BY <1>8, <1>9, <2>8
  <2>11. SplitInv'
    <3>1. \A c \in Open : c.insts \cap req.insts = {}
      BY <1>8, <2>5
    <3> QED
      BY <2>8, <3>1 DEF WantInv, SplitInv
  <2>12. FetchedUids' \subseteq FetchedUids
    <3>1. \A k \in 1..n : new[k].fetched = FALSE
      OBVIOUS
    <3>2. new \in [1..n -> Entry]
      <4>1. \A k \in 1..n : buf[k] \in Inst
        BY <1>4, <2>3, SeqFacts
      <4> QED
        BY <4>1 DEF Entry
    <3>3. new \in Seq(Entry) /\ DOMAIN new = 1..n
      BY <2>3, <3>2, FunIsSeq
    <3> HIDE DEF new
    <3>4. Range(fetch_buffer_ \o new) = Range(fetch_buffer_) \cup Range(new)
      BY <1>0, <3>3, ConcatFacts
    <3>5. \A e \in Range(new) : ~e.fetched
      BY <3>1, <3>3 DEF Range
    <3> QED
      BY <1>12, <3>4, <3>5 DEF FetchedUids
  <2>13. Answered' \subseteq Answered
    BY <1>1, <1>6, <2>12 DEF Answered, FetchedUids
  <2>14. FreshInv'
    BY <2>5, <2>10, <2>13 DEF WantInv, FreshInv
  <2>15. \A v \in UidsOf(ibuf_') : \E i \in 1..Len(buf) : v = buf[i].uid /\ i > n
    <3>1. /\ rest \in Seq(Inst) /\ Len(rest) = Len(buf) - n
          /\ \A k \in 1..Len(buf) - n : rest[k] = buf[n + k]
      BY <1>4, <2>3, CutInTwo
    <3> HIDE DEF rest
    <3>2. DOMAIN rest = 1..Len(buf) - n
      BY <3>1, SeqFacts
    <3>3. \A k \in 1..Len(buf) - n : n + k \in 1..Len(buf) /\ n + k > n
      BY <1>5, <2>3
    <3> QED
      BY <1>12, <3>1, <3>2, <3>3 DEF UidsOf
  <2>16. AskedInv'
    <3>1. ASSUME NEW u \in Wanted \cup Arriving, NEW v \in UidsOf(ibuf_') PROVE u < v
      BY <1>4, <2>15
    <3>2. ASSUME NEW u \in req.insts, NEW v \in UidsOf(ibuf_') PROVE u < v
      <4>1. PICK k \in 1..n : u = buf[k].uid
        BY <2>2
      <4>2. PICK i \in 1..Len(buf) : v = buf[i].uid /\ i > n
        BY <2>15
      <4>3. k \in 1..Len(buf) /\ k < i
        BY <2>3, <4>2
      <4> QED
        BY <1>4, <4>1, <4>2, <4>3
    <3> QED
      BY <1>6, <1>10, <2>4, <2>10, <3>1, <3>2 DEF AskedInv
  <2> QED
    BY <1>6, <2>9, <2>11, <2>14, <2>16 DEF WantInv
<1> QED
  BY <1>3, <1>11, <1>12

\* ICache owes nothing at the start.
LEMMA InitWants == Init => WantInv
<1> SUFFICES ASSUME Init PROVE WantInv
  OBVIOUS
<1>1. /\ to_icache = << >> /\ fetch_req_queue_ = << >> /\ pending_miss_buffer_ = << >>
      /\ replay_buffer_ = << >> /\ ev_respond_ = {} /\ ev_replay_ready_ = {} /\ fetch_resp = {}
      /\ ibuf_ = << >>
  BY DEF Init, FetchInit, ICacheInit
<1>2. Hits = {} /\ AccessesOf(Hits) = {} /\ Arriving = {}
  BY <1>1 DEF Hits, HitsIn, AccessesOf, Arriving
<1>3. Range(<< >>) = {} /\ Distinct(<< >>) /\ IsSequence(<< >>)
  BY EmptyIsSequence
<1>4. OnceInv /\ Open = {}
  BY <1>1, <1>2, <1>3 DEF OnceInv, Once, Apart, Open
<1>5. SeqInv
  BY InitIInv DEF IInv
<1>6. Wanted = {}
  BY <1>4, <1>5, WantedIsOpen
<1> QED
  BY <1>1, <1>2, <1>4, <1>6 DEF WantInv, SplitInv, FreshInv, AskedInv, ArrivalInv

\* Every step keeps it.
LEMMA NextWants == Proper /\ IInv /\ IInv' /\ OrderInv /\ WantInv /\ [Next]_vars => WantInv'
<1> SUFFICES ASSUME Proper, IInv, IInv', OrderInv, WantInv, [Next]_vars PROVE WantInv'
  OBVIOUS
<1>1. CASE L2Fills \/ L2ReturnsCredit \/ VsetExecuted \/ DecodeGathers \/ ICacheRequestsLine
             \/ RenameReturnsCredits \/ UNCHANGED vars
  BY <1>1, OthersKeepWants
<1>2. CASE DeliverToICache
  BY <1>2, DeliverKeepsWants
<1>3. CASE DeliverToDecode
  BY <1>3, GroupKeepsWants
<1>4. CASE DecodeSession
  BY <1>4, DecodeKeepsWants
<1>5. CASE ICacheArbitrates
  BY <1>5, ArbitrationKeepsWants
<1>6. CASE ICacheResponds
  BY <1>6, AnswerKeepsWants
<1>7. CASE FetchTakesResponse
  BY <1>7, ResponseKeepsWants
<1>8. CASE FetchEvent
  <2>1. /\ phase = "fetch" /\ (fetchInstruction \/ sendInstructions)
        /\ UNCHANGED <<phase, icacheVars, decodeVars, fetch_resp, contractVars>>
    BY <1>8 DEF FetchEvent
  <2> QED
    BY <2>1, FetchKeepsWants, SendKeepsWants
<1>9. CASE Flush
  BY <1>9, FlushKeepsWants
<1>10. CASE nextPhase
  BY <1>10, ClockKeepsWants
<1> QED
  BY <1>1, <1>2, <1>3, <1>4, <1>5, <1>6, <1>7, <1>8, <1>9, <1>10 DEF Next, Handlers

\* What is in Decode or behind it is not wanted.
LEMMA WantsAreFetchedFirst == OrderInv /\ WantInv => FetchedFirst
<1> SUFFICES ASSUME OrderInv, WantInv, NEW i \in ToSet(sent \o fetch_queue_ \o FlattenSeq(to_decode))
             PROVE  i.uid \notin Wanted
  BY DEF FetchedFirst
<1> DEFINE s == sent
           f == fetch_queue_
           d == FlattenSeq(to_decode)
<1>1. s \in Seq(SentUop) /\ f \in Seq(Inst) /\ d \in Seq(Inst)
  BY QueuedParts DEF OrderInv, PartsInv, RunInv, Ordered, SentRun
<1>2. i \in ToSet(s \o f \o d)
  OBVIOUS
<1> HIDE DEF s, f, d
<1>3. IsSequence(s) /\ IsSequence(f) /\ IsSequence(d)
  BY <1>1, SeqIsSequence
<1>4. IsSequence(s \o f) /\ UidsOf(s \o f) = UidsOf(s) \cup UidsOf(f)
  BY <1>3, DistinctConcat, UidsConcat
<1>5. UidsOf(s \o f \o d) = UidsOf(s \o f) \cup UidsOf(d)
  BY <1>3, <1>4, UidsConcat
<1>6. i.uid \in UidsOf(s \o f \o d)
  BY <1>2 DEF ToSet, UidsOf
<1>7. i.uid \in Answered
  BY <1>4, <1>5, <1>6 DEF Answered, s, f, d
<1> QED
  BY <1>7 DEF WantInv, FreshInv

\* The invariant is kept, with the ones before.
THEOREM WantInvariant == ASSUME Proper PROVE Spec => []WantInv
<1>1. Init => WantInv
  BY InitWants
<1>2. IInv /\ IInv' /\ OrderInv /\ WantInv /\ [Next]_vars => WantInv'
  BY NextWants
<1>3. Spec => []IInv
  BY FrontEndInvariant
<1>4. Spec => []OrderInv
  BY OrderInvariant
<1> QED
  BY <1>1, <1>2, <1>3, <1>4, PTL DEF Spec

\* No instruction leaves Fetch before ICache has answered for its block, whatever misses,
\* is replayed or is flushed (Fetch.cpp, sendInstructions_).
THEOREM FetchedBeforeSent == ASSUME Proper PROVE Spec => []FetchedFirst
<1>1. Spec => []OrderInv
  BY OrderInvariant
<1>2. Spec => []WantInv
  BY WantInvariant
<1>3. OrderInv /\ WantInv => FetchedFirst
  BY WantsAreFetchedFirst
<1> QED
  BY <1>1, <1>2, <1>3, PTL

-----------------------------------------------------------------------------
(* The types.                                                              *)

\* The places where a block ends.
Lasts(b) == {k \in DOMAIN b : b[k].last}

\* Every block of the buffer is counted, so the count does not go below zero; after a
\* flush, which empties the buffer and leaves the count alone, it is too large.
RoomInv == /\ fetch_buffer_occupancy_ \in Nat
           /\ Cardinality(Lasts(fetch_buffer_)) <= fetch_buffer_occupancy_

\* The blocks that end in the buffer can be counted.
LEMMA LastsFinite ==
    ASSUME NEW b \in Seq(Entry)
    PROVE  IsFiniteSet(Lasts(b)) /\ Cardinality(Lasts(b)) \in Nat /\ Lasts(b) \subseteq 1..Len(b)
           /\ Len(b) \in Nat
<1>1. Len(b) \in Nat /\ DOMAIN b = 1..Len(b)
  BY SeqFacts
<1>2. Lasts(b) \in SUBSET (1..Len(b))
  BY <1>1 DEF Lasts
<1>3. IsFiniteSet(1..Len(b))
  <2> DEFINE n == Len(b)
  <2>1. n \in Int /\ 1 \in Int
    BY <1>1
  <2> HIDE DEF n
  <2>2. IsFiniteSet(1..n)
    BY <2>1, FS_Interval
  <2> QED
    BY <2>2 DEF n
<1>4. IsFiniteSet(Lasts(b))
  BY <1>2, <1>3, FS_Subset
<1> QED
  BY <1>1, <1>2, <1>4, FS_CardinalityType

\* A block more.
LEMMA LastsGrow ==
    ASSUME NEW b \in Seq(Entry), NEW e \in Seq(Entry), Len(e) # 0,
           \A k \in 1..Len(e) : e[k].last <=> k = Len(e)
    PROVE  Cardinality(Lasts(b \o e)) = Cardinality(Lasts(b)) + 1
<1> DEFINE c == b \o e
           m == Len(b) + Len(e)
<1>1. /\ c \in Seq(Entry) /\ Len(c) = m /\ Len(b) \in Nat /\ Len(e) \in Nat
      /\ \A k \in 1..Len(b) : c[k] = b[k]
      /\ \A k \in 1..Len(e) : c[Len(b) + k] = e[k]
  BY ConcatFacts
<1>2. DOMAIN c = 1..m /\ DOMAIN b = 1..Len(b)
  BY <1>1, SeqFacts
<1> HIDE DEF c
<1>3. ASSUME NEW k \in 1..m PROVE c[k].last <=> (k \in Lasts(b) \/ k = m)
  <2>1. CASE k \in 1..Len(b)
    <3>1. k # m
      BY <1>1, <2>1
    <3> QED
      BY <1>1, <1>2, <2>1, <3>1 DEF Lasts
  <2>2. CASE k \notin 1..Len(b)
    <3>1. k - Len(b) \in 1..Len(e) /\ Len(b) + (k - Len(b)) = k
      BY <1>1, <2>2
    <3>2. c[k] = e[k - Len(b)] /\ (e[k - Len(b)].last <=> k - Len(b) = Len(e))
      BY <1>1, <3>1
    <3>3. k - Len(b) = Len(e) <=> k = m
      BY <1>1
    <3>4. k \notin Lasts(b)
      BY <1>2, <2>2 DEF Lasts
    <3> QED
      BY <3>2, <3>3, <3>4
  <2> QED
    BY <2>1, <2>2
<1>4. Lasts(b) \subseteq 1..Len(b) /\ IsFiniteSet(Lasts(b)) /\ Cardinality(Lasts(b)) \in Nat
  BY LastsFinite
<1>5. m \in 1..m /\ (\A k \in 1..Len(b) : k \in 1..m) /\ m \notin 1..Len(b)
  BY <1>1
<1>6. Lasts(c) = Lasts(b) \cup {m} /\ m \notin Lasts(b)
  BY <1>2, <1>3, <1>4, <1>5 DEF Lasts
<1> HIDE DEF m
<1>7. Cardinality(Lasts(b) \cup {m}) = Cardinality(Lasts(b)) + 1
  BY <1>4, <1>6, FS_AddElement
<1> QED
  BY <1>6, <1>7 DEF c

\* Blocks that leave.
LEMMA LastsShrink ==
    ASSUME NEW b \in Seq(Entry), NEW n \in 0..Len(b)
    PROVE  LET g == {k \in 1..n : b[k].last}
               r == Lasts(SubSeq(b, n + 1, Len(b)))
           IN  /\ Cardinality(g) \in Nat /\ Cardinality(r) \in Nat
               /\ Cardinality(Lasts(b)) = Cardinality(g) + Cardinality(r)
<1> DEFINE g == {k \in 1..n : b[k].last}
           s == SubSeq(b, n + 1, Len(b))
           r == Lasts(s)
           o == {k \in Lasts(b) : k > n}
           f == [k \in o |-> k - n]
<1>1. /\ s \in Seq(Entry) /\ Len(s) = Len(b) - n
      /\ \A k \in 1..Len(b) - n : s[k] = b[n + k]
  BY CutInTwo
<1>2. DOMAIN s = 1..Len(b) - n /\ DOMAIN b = 1..Len(b) /\ Len(b) \in Nat
  BY <1>1, SeqFacts
<1> HIDE DEF s
<1>3. /\ IsFiniteSet(Lasts(b)) /\ Cardinality(Lasts(b)) \in Nat
      /\ IsFiniteSet(r) /\ Cardinality(r) \in Nat
  BY <1>1, LastsFinite
<1>4. Lasts(b) = g \cup o /\ g \cap o = {} /\ g \in SUBSET Lasts(b) /\ o \in SUBSET Lasts(b)
  BY <1>2 DEF Lasts
<1>5. IsFiniteSet(g) /\ IsFiniteSet(o) /\ Cardinality(g) \in Nat
  BY <1>3, <1>4, FS_Subset, FS_CardinalityType
<1>6. Cardinality(r) = Cardinality(o)
  <2>1. \A k \in o : k \in Nat /\ k - n \in 1..Len(b) - n /\ n + (k - n) = k /\ b[k].last
    BY <1>2 DEF Lasts
  <2>2. \A k \in o : k - n \in r
    BY <1>1, <1>2, <2>1 DEF Lasts
  <2>3. f \in [o -> r]
    BY <2>2
  <2>4. \A j \in r : n + j \in o /\ (n + j) - n = j
    BY <1>1, <1>2 DEF Lasts
  <2>5. \A j \in r : \E k \in o : f[k] = j
    BY <2>4
  <2>6. \A j, k \in o : f[j] = f[k] => j = k
    BY <2>1
  <2> HIDE DEF f, r, o
  <2> QED
    BY <1>5, <2>3, <2>5, <2>6, SameSize
<1>7. Cardinality(g \cup o) = Cardinality(g) + Cardinality(o)
  <2> HIDE DEF g, o
  <2>1. Cardinality(g \cup o) = Cardinality(g) + Cardinality(o) - Cardinality(g \cap o)
    BY <1>5, FS_Union
  <2>2. Cardinality(g \cap o) = 0
    BY <1>4, FS_EmptySet
  <2>3. Cardinality(o) \in Nat
    BY <1>5, FS_CardinalityType
  <2> QED
    BY <1>5, <2>1, <2>2, <2>3
<1> QED
  BY <1>3, <1>4, <1>5, <1>6, <1>7 DEF s

\* How many entries leave the buffer.
LEMMA SendSize ==
    ASSUME PartsInv
    PROVE  LET upper == Min({credits_inst_queue_, NumToFetch, Len(fetch_buffer_)})
               n     == Max({k \in 0..upper : CanSend(k)})
           IN  n \in 0..Len(fetch_buffer_)
<1> DEFINE b == fetch_buffer_
           upper == Min({credits_inst_queue_, NumToFetch, Len(b)})
           n == Max({k \in 0..upper : CanSend(k)})
<1>1. Len(b) \in Nat /\ credits_inst_queue_ \in Nat /\ NumToFetch \in Nat
  BY SeqFacts, FetchAssumption DEF PartsInv
<1>2. upper \in Nat /\ upper <= Len(b)
  <2> DEFINE M == {credits_inst_queue_, NumToFetch, Len(b)}
  <2>1. M \in SUBSET Nat /\ M # {}
    BY <1>1
  <2>2. Min(M) \in M /\ \A k \in M : Min(M) <= k
    BY <2>1, MinOf
  <2> QED
    BY <2>1, <2>2
<1> HIDE DEF upper
<1>3. n \in 0..upper
  <2> DEFINE M == {k \in 0..upper : CanSend(k)}
  <2>1. 0 \in 0..upper /\ CanSend(0)
    BY <1>2 DEF CanSend
  <2>2. M \in SUBSET (0..upper) /\ M # {}
    BY <2>1
  <2> HIDE DEF M
  <2>3. Max(M) \in M
    BY <1>2, <2>2, MaxOf
  <2> QED
    BY <2>2, <2>3 DEF M
<1> HIDE DEF n
<1>4. n \in 0..Len(b)
  BY <1>1, <1>2, <1>3
<1> QED
  BY <1>4 DEF n, upper

\* A group takes the blocks that end in it.
LEMMA SendKeepsRoom ==
    ASSUME OrderInv, RoomInv, sendInstructions
    PROVE  RoomInv'
<1> DEFINE b == fetch_buffer_
           upper == Min({credits_inst_queue_, NumToFetch, Len(b)})
           n == Max({k \in 0..upper : CanSend(k)})
           g == Cardinality({k \in 1..n : b[k].last})
           r == SubSeq(b, n + 1, Len(b))
<1>1. b \in Seq(Entry) /\ n \in 0..Len(b)
  BY SendSize DEF OrderInv, PartsInv
<1>2. \/ UNCHANGED <<fetch_buffer_, fetch_buffer_occupancy_>>
      \/ fetch_buffer_' = r /\ fetch_buffer_occupancy_' = fetch_buffer_occupancy_ - g
  BY DEF sendInstructions
<1> HIDE DEF n, upper
<1>3. g \in Nat /\ Cardinality(Lasts(r)) \in Nat
      /\ Cardinality(Lasts(b)) = g + Cardinality(Lasts(r))
  BY <1>1, LastsShrink
<1> HIDE DEF g, r, b
<1>4. fetch_buffer_occupancy_ \in Nat /\ Cardinality(Lasts(b)) <= fetch_buffer_occupancy_
  BY DEF RoomInv, b
<1>5. CASE UNCHANGED <<fetch_buffer_, fetch_buffer_occupancy_>>
  BY <1>5 DEF RoomInv
<1>6. CASE fetch_buffer_' = r /\ fetch_buffer_occupancy_' = fetch_buffer_occupancy_ - g
  <2> DEFINE o == fetch_buffer_occupancy_
             c == Cardinality(Lasts(r))
             d == Cardinality(Lasts(b))
  <2>1. o \in Nat /\ c \in Nat /\ d = g + c /\ d <= o /\ g \in Nat
    BY <1>3, <1>4
  <2> HIDE DEF o, c, d
  <2>2. o - g \in Nat /\ c <= o - g
    BY <2>1
  <2> QED
    BY <1>6, <2>2 DEF RoomInv, o, c
<1> QED
  BY <1>2, <1>5, <1>6

\* A request adds a block and counts it.
LEMMA FetchKeepsRoom ==
    ASSUME OrderInv, WantInv, RoomInv, fetchInstruction
    PROVE  RoomInv'
<1> DEFINE room == IBufCapacity - Len(ibuf_)
           buf  == ibuf_ \o NextInsts(room)
           n    == BlockEnd(buf)
           new  == [k \in 1..n |-> [inst |-> buf[k], last |-> k = n, fetched |-> FALSE]]
           b    == fetch_buffer_
<1>0. ibuf_ \in Seq(Inst) /\ b \in Seq(Entry) /\ Len(ibuf_) <= IBufCapacity
  BY DEF OrderInv, PartsInv
<1>1. room \in Nat
  BY <1>0, SeqFacts, FetchAssumption
<1>2. \/ UNCHANGED <<fetch_buffer_, fetch_buffer_occupancy_>>
      \/ /\ buf # << >> /\ fetch_buffer_' = b \o new
         /\ fetch_buffer_occupancy_' = fetch_buffer_occupancy_ + 1
  BY DEF fetchInstruction
<1> HIDE DEF room
<1>3. buf \in Seq(Inst)
  BY <1>1, BufferYoungest
<1> HIDE DEF buf
<1>4. CASE UNCHANGED <<fetch_buffer_, fetch_buffer_occupancy_>>
  BY <1>4 DEF RoomInv
<1>5. CASE /\ buf # << >> /\ fetch_buffer_' = b \o new
           /\ fetch_buffer_occupancy_' = fetch_buffer_occupancy_ + 1
  <2>1. n \in 1..Len(buf)
    BY <1>3, <1>5, BlockEndFacts
  <2> HIDE DEF n
  <2>2. Len(buf) \in Nat /\ \A k \in 1..Len(buf) : buf[k] \in Inst
    BY <1>3, SeqFacts
  <2>3. n \in Nat /\ n # 0 /\ \A k \in 1..n : buf[k] \in Inst
    BY <2>1, <2>2
  <2>4. new \in [1..n -> Entry] /\ \A k \in 1..n : new[k].last <=> k = n
    BY <2>3 DEF Entry
  <2>5. new \in Seq(Entry) /\ Len(new) = n
    BY <2>3, <2>4, FunIsSeq
  <2> HIDE DEF new
  <2>6. Cardinality(Lasts(b \o new)) = Cardinality(Lasts(b)) + 1
    BY <1>0, <2>3, <2>4, <2>5, LastsGrow
  <2>7. Cardinality(Lasts(b)) \in Nat
    BY <1>0, LastsFinite
  <2> DEFINE o == fetch_buffer_occupancy_
             c == Cardinality(Lasts(b))
  <2>8. o \in Nat /\ c \in Nat /\ c <= o
    BY <2>7 DEF RoomInv
  <2> HIDE DEF o, c
  <2>9. o + 1 \in Nat /\ c + 1 <= o + 1
    BY <2>8
  <2> QED
    BY <1>5, <2>6, <2>9 DEF RoomInv, o, c
<1> QED
  BY <1>2, <1>4, <1>5

\* Every step keeps the count above the blocks.
LEMMA NextRoom == OrderInv /\ WantInv /\ RoomInv /\ [Next]_vars => RoomInv'
<1> SUFFICES ASSUME OrderInv, WantInv, RoomInv, [Next]_vars PROVE RoomInv'
  OBVIOUS
<1>1. ASSUME UNCHANGED <<fetch_buffer_, fetch_buffer_occupancy_>> PROVE RoomInv'
  BY <1>1 DEF RoomInv
<1>2. CASE DeliverToICache \/ DeliverToDecode \/ L2Fills \/ L2ReturnsCredit \/ VsetExecuted
             \/ RenameReturnsCredits \/ DecodeGathers
  BY <1>1, <1>2 DEF DeliverToICache, DeliverToDecode, L2Fills, L2ReturnsCredit, VsetExecuted,
                    RenameReturnsCredits, DecodeGathers, fetchVars, fetchState
<1>3. CASE DecodeSession \/ ICacheArbitrates \/ ICacheRequestsLine \/ nextPhase \/ UNCHANGED vars
  BY <1>1, <1>3 DEF DecodeSession, receiveFetchQueueCredits, ICacheArbitrates, ICacheRequestsLine,
                    nextPhase, vars, fetchVars, fetchState
<1>4. CASE ICacheResponds
  BY <1>1, <1>4 DEF ICacheResponds, receiveCacheCredit, fetchVars, fetchState
<1>5. CASE FetchTakesResponse
  <2>1. PICK r \in fetch_resp : receiveCacheResponse(r.access, r.hit)
    BY <1>5 DEF FetchTakesResponse
  <2>2. fetch_buffer_occupancy_' = fetch_buffer_occupancy_
    BY <2>1 DEF receiveCacheResponse
  <2>3. Lasts(fetch_buffer_') = Lasts(fetch_buffer_)
    <3>1. CASE ~r.hit
      BY <2>1, <3>1 DEF receiveCacheResponse
    <3>2. CASE r.hit
      <4> DEFINE b == fetch_buffer_
                 e(k) == [b[k] EXCEPT !.fetched = @ \/ b[k].inst.uid \in r.access.insts]
      <4>1. fetch_buffer_' = [k \in DOMAIN b |-> e(k)]
        BY <2>1, <3>2 DEF receiveCacheResponse
      <4>2. \A k \in DOMAIN b : b[k] \in Entry
        BY SeqFacts DEF OrderInv, PartsInv
      <4>3. \A k \in DOMAIN b : e(k).last = b[k].last
        BY <4>2 DEF Entry
      <4> HIDE DEF e
      <4> QED
        BY <4>1, <4>3 DEF Lasts
    <3> QED
      BY <3>1, <3>2
  <2> QED
    BY <2>2, <2>3 DEF RoomInv
<1>6. CASE FetchEvent
  BY <1>6, SendKeepsRoom, FetchKeepsRoom DEF FetchEvent
<1>7. CASE Flush
  <2>1. fetch_buffer_' = << >> /\ fetch_buffer_occupancy_' = fetch_buffer_occupancy_
    BY <1>7 DEF Flush, flushFetch
  <2>2. Lasts(<< >>) = {} /\ Cardinality({}) = 0
    BY FS_EmptySet DEF Lasts
  <2> QED
    BY <2>1, <2>2 DEF RoomInv
<1> QED
  BY <1>2, <1>3, <1>4, <1>5, <1>6, <1>7 DEF Next, Handlers

\* No event is further away than the next cycle, and one that is due has run by the time
\* Fetch does.
WakeInv ==
    /\ UNION {ev_fetch_insts, ev_send_insts, ev_arbitrate_, ev_l2cache_request_,
              ev_decode_insts_event_} \subseteq {0, 1}
    /\ phase \in {"icache", "fetch"} => 0 \notin ev_decode_insts_event_
    /\ phase = "fetch" => 0 \notin ev_arbitrate_ \cup ev_l2cache_request_

\* The cycle ends when nothing is due.
LEMMA ClockKeepsWakes == ASSUME IInv, WakeInv, nextPhase PROVE WakeInv'
<1> DEFINE EV == UNION {ev_fetch_insts, ev_send_insts, ev_arbitrate_, ev_l2cache_request_,
                        ev_decode_insts_event_}
<1>0. phase \in {"port", "flush", "rename", "decode", "icache", "fetch"} /\ phase' = NextOf[phase]
  BY DEF IInv, PortInv, NextOf, nextPhase
<1>1. CASE phase # "fetch"
  <2>1. UNCHANGED <<ev_fetch_insts, ev_send_insts, ev_arbitrate_, ev_l2cache_request_,
                    ev_decode_insts_event_>>
    BY <1>1 DEF nextPhase
  <2>2. phase' \in {"icache", "fetch"} => phase \in {"decode", "icache"}
    BY <1>0, <1>1 DEF NextOf
  <2>3. phase' = "fetch" => phase = "icache"
    BY <1>0, <1>1 DEF NextOf
  <2>4. phase = "decode" => 0 \notin ev_decode_insts_event_
    BY DEF nextPhase, PhaseDone
  <2>5. phase = "icache" => 0 \notin ev_arbitrate_ \cup ev_l2cache_request_
    BY DEF nextPhase, PhaseDone
  <2> QED
    BY <2>1, <2>2, <2>3, <2>4, <2>5 DEF WakeInv
<1>2. CASE phase = "fetch"
  <2>1. EV \subseteq {1}
    BY <1>2 DEF WakeInv, nextPhase, PhaseDone
  <2>2. \A ev : ev \subseteq {1} => Aged(ev) \subseteq {0}
    BY DEF Aged
  <2>3. /\ ev_fetch_insts' = Aged(ev_fetch_insts) /\ ev_send_insts' = Aged(ev_send_insts)
        /\ ev_arbitrate_' = Aged(ev_arbitrate_)
        /\ ev_l2cache_request_' = Aged(ev_l2cache_request_)
        /\ ev_decode_insts_event_' = Aged(ev_decode_insts_event_)
    BY <1>2 DEF nextPhase
  <2>4. phase' = "port"
    BY <1>0, <1>2 DEF NextOf
  <2>5. /\ ev_fetch_insts' \subseteq {0} /\ ev_send_insts' \subseteq {0} /\ ev_arbitrate_' \subseteq {0}
        /\ ev_l2cache_request_' \subseteq {0} /\ ev_decode_insts_event_' \subseteq {0}
    BY <2>1, <2>2, <2>3
  <2> QED
    BY <2>4, <2>5 DEF WakeInv
<1> QED
  BY <1>1, <1>2

\* Every step keeps it.
LEMMA NextWakes == IInv /\ WakeInv /\ [Next]_vars => WakeInv'
<1> SUFFICES ASSUME IInv, WakeInv, [Next]_vars PROVE WakeInv'
  OBVIOUS
<1>0. 0 \in {0, 1} /\ 1 \in {0, 1}
  OBVIOUS
<1> USE DEF WakeInv
<1>1. CASE DeliverToICache
  BY <1>1 DEF DeliverToICache, getRequestFromFetch, decodeVars
<1>2. CASE DeliverToDecode
  BY <1>2 DEF DeliverToDecode, fetchBufferAppended, icacheVars
<1>3. CASE L2Fills
  BY <1>3 DEF L2Fills, getRespFromL2Cache, fetchVars, decodeVars
<1>4. CASE L2ReturnsCredit
  BY <1>4 DEF L2ReturnsCredit, getCreditsFromL2Cache, WakeOnL2Credits, fetchVars, decodeVars
<1>5. CASE VsetExecuted
  BY <1>5 DEF VsetExecuted, processVset, fetchVars, icacheVars
<1>6. CASE Flush
  BY <1>6 DEF Flush, flushFetch, handleFlush, icacheVars
<1>7. CASE RenameReturnsCredits
  BY <1>7 DEF RenameReturnsCredits, receiveUopQueueCredits, fetchVars, icacheVars
<1>8. CASE DecodeSession
  <2>1. ev_decode_insts_event_' \subseteq ev_decode_insts_event_ \cup {1}
    BY <1>8 DEF DecodeSession, decodeInsts
  <2>2. /\ phase = "decode" /\ phase' = phase /\ ev_send_insts' = ev_send_insts \cup {0}
        /\ UNCHANGED <<ev_fetch_insts, ev_arbitrate_, ev_l2cache_request_>>
    BY <1>8 DEF DecodeSession, receiveFetchQueueCredits, icacheVars
  <2> QED
    BY <2>1, <2>2
<1>9. CASE DecodeGathers
  BY <1>9 DEF DecodeGathers, decodeGathers, fetchVars, icacheVars
<1>10. CASE ICacheArbitrates
  <2>1. ev_arbitrate_' \subseteq ev_arbitrate_ \cup {1}
    BY <1>10 DEF ICacheArbitrates, doArbitration
  <2>2. ev_l2cache_request_' \subseteq ev_l2cache_request_ \cup {1}
    BY <1>10 DEF ICacheArbitrates, doArbitration, makeL2CacheRequest
  <2>3. /\ phase = "icache" /\ phase' = phase
        /\ UNCHANGED <<ev_fetch_insts, ev_send_insts, ev_decode_insts_event_>>
    BY <1>10 DEF ICacheArbitrates, fetchVars, decodeVars
  <2> QED
    BY <2>1, <2>2, <2>3
<1>11. CASE ICacheRequestsLine
  <2>1. ev_l2cache_request_' \subseteq ev_l2cache_request_ \cup {1}
    BY <1>11 DEF ICacheRequestsLine, requestLine, makeL2CacheRequest
  <2>2. /\ phase = "icache" /\ phase' = phase
        /\ UNCHANGED <<ev_fetch_insts, ev_send_insts, ev_decode_insts_event_, ev_arbitrate_>>
    BY <1>11 DEF ICacheRequestsLine, requestLine, fetchVars, decodeVars
  <2> QED
    BY <2>1, <2>2
<1>12. CASE ICacheResponds
  BY <1>12 DEF ICacheResponds, answered, receiveCacheCredit, fetchVars, decodeVars
<1>13. CASE FetchTakesResponse
  BY <1>13 DEF FetchTakesResponse, receiveCacheResponse, icacheVars, decodeVars
<1>14. CASE FetchEvent
  <2>1. ev_fetch_insts' \subseteq ev_fetch_insts \cup {1} /\ ev_send_insts' \subseteq ev_send_insts \cup {1}
    <3>1. CASE fetchInstruction
      BY <3>1 DEF fetchInstruction
    <3>2. CASE sendInstructions
      BY <3>2 DEF sendInstructions
    <3> QED
      BY <1>14, <3>1, <3>2 DEF FetchEvent
  <2>2. UNCHANGED <<phase, ev_arbitrate_, ev_l2cache_request_, ev_decode_insts_event_>>
    BY <1>14 DEF FetchEvent, icacheVars, decodeVars
  <2> QED
    BY <2>1, <2>2
<1>15. CASE nextPhase
  BY <1>15, ClockKeepsWakes
<1>16. CASE UNCHANGED vars
  BY <1>16 DEF vars, fetchVars, icacheVars, decodeVars
<1> QED
  BY <1>1, <1>2, <1>3, <1>4, <1>5, <1>6, <1>7, <1>8, <1>9, <1>10, <1>11, <1>12, <1>13, <1>14,
     <1>15, <1>16 DEF Next, Handlers

\* What is asked for is an access, and every answer has its time; the answers of ICache
\* that are due have left it by the time Fetch runs.
AccessInv ==
    /\ UNION {Range(to_icache), Range(fetch_req_queue_), Range(pending_miss_buffer_),
              Range(replay_buffer_)} \subseteq Access
    /\ UNION {ev_respond_, ev_replay_ready_, fetch_resp} \subseteq Timed
    /\ phase = "fetch" => \A e \in ev_respond_ \cup ev_replay_ready_ : e.due > 0

\* The request is for a line of the trace.
LEMMA RequestIsAccess ==
    ASSUME OrderInv, WantInv, NEW room \in Nat, NEW buf, buf = ibuf_ \o NextInsts(room), buf # << >>,
           NEW n \in 1..Len(buf)
    PROVE  [line |-> trace[buf[1].pid].line, insts |-> {buf[k].uid : k \in 1..n}] \in Access
<1>0. PartsInv /\ GroupInv /\ RunInv
  BY DEF OrderInv
<1>1. /\ buf \in Seq(Inst) /\ \A k \in 1..Len(buf) : buf[k].uid \in Nat
  BY BufferYoungest
<1>2. Len(buf) \in Nat /\ Len(buf) # 0
  BY <1>1, SeqFacts
<1>3. {buf[k].uid : k \in 1..n} \subseteq Nat
  BY <1>1, <1>2
<1>4. buf[1].pid \in DOMAIN trace
  <2> DEFINE x == NextInsts(room)
             q == Queued \o x
             pre == fetch_queue_ \o FlattenSeq(to_decode)
             h == InstsOf(fetch_buffer_)
  <2>1. trace \in Traces /\ next_pid \in 1..Len(trace) + 1 /\ next_uid \in Nat /\ ibuf_ \in Seq(Inst)
    BY <1>0 DEF PartsInv, RunInv, Ordered, QueueRun
  <2>2. x \in Seq(Inst)
    BY <2>1, NextInstsFacts
  <2>3. Ordered(trace, sent, q, gen, next_pid + Left(room), next_uid + Left(room))
    BY <1>0, <2>1, FetchOrder DEF RunInv
  <2>4. /\ h \in Seq(Inst) /\ Queued = pre \o (h \o ibuf_) /\ pre \in Seq(Inst)
    <3>1. FlattenSeq(to_decode) \in Seq(Inst) /\ h \in Seq(Inst) /\ Queued = pre \o (h \o ibuf_)
          /\ fetch_queue_ \in Seq(Inst)
      BY <1>0, QueuedParts DEF PartsInv
    <3>2. pre \in Seq(Inst)
      BY <3>1, Closed, Zenon
    <3> QED
      BY <3>1, <3>2
  <2> HIDE DEF x, pre, h
  <2>5. pre \o h \in Seq(Inst) /\ h \o ibuf_ \in Seq(Inst)
    BY <2>1, <2>4, Closed, Zenon
  <2>6. q = (pre \o h) \o buf
    <3>1. Associates(pre, h, ibuf_) /\ Associates(pre \o h, ibuf_, x)
      BY <2>1, <2>2, <2>4, <2>5, Assoc, Zenon
    <3>2. buf = ibuf_ \o x
      BY DEF x
    <3> QED
      BY <2>4, <3>1, <3>2 DEF Associates
  <2> DEFINE m == Len(pre \o h)
  <2>7. m \in Nat /\ Len(q) = m + Len(buf) /\ q[m + 1] = buf[1]
    <3> DEFINE y == pre \o h
    <3>1. y \in Seq(Inst) /\ q = y \o buf
      BY <2>5, <2>6
    <3> HIDE DEF y, q
    <3>2. Len(y \o buf) = Len(y) + Len(buf) /\ Len(y) \in Nat
          /\ \A k \in 1..Len(buf) : (y \o buf)[Len(y) + k] = buf[k]
      BY <1>1, <3>1, ConcatFacts
    <3>3. 1 \in 1..Len(buf)
      BY <1>2
    <3> QED
      BY <3>1, <3>2, <3>3 DEF y
  <2> HIDE DEF m
  <2>8. m + 1 \in 1..Len(q)
    BY <1>2, <2>7
  <2>9. /\ q[m + 1].pid = DoneOf(sent) + (m + 1)
        /\ next_pid + Left(room) = DoneOf(sent) + Len(q) + 1
        /\ next_pid + Left(room) \in 1..Len(trace) + 1 /\ Len(trace) \in Nat
    BY <2>3, <2>8 DEF Ordered, QueueRun
  <2>10. DoneOf(sent) \in Nat
    BY <2>3, DoneFacts DEF Ordered
  <2>11. q[m + 1].pid \in 1..Len(trace)
    <3> HIDE DEF q
    <3> QED
      BY <1>2, <2>7, <2>9, <2>10
  <2>12. DOMAIN trace = 1..Len(trace)
    BY <2>1, TraceAssumption, SeqFacts
  <2> QED
    BY <2>7, <2>11, <2>12
<1>5. trace[buf[1].pid].line \in Nat
  <2>1. trace \in Seq(TraceInst)
    BY <1>0, TraceAssumption DEF PartsInv
  <2>2. trace[buf[1].pid] \in TraceInst
    BY <1>4, <2>1, SeqFacts
  <2> QED
    BY <2>2 DEF TraceInst
<1> QED
  BY <1>3, <1>5 DEF Access

\* Answers get nearer.
LEMMA AgedTimed ==
    ASSUME NEW E, E \subseteq Timed, \A e \in E : e.due > 0
    PROVE  AgedEvents(E) \subseteq Timed
<1> SUFFICES ASSUME NEW e \in E PROVE [e EXCEPT !.due = @ - 1] \in Timed
  BY DEF AgedEvents
<1>1. e \in Timed /\ e.due > 0 /\ e.due \in Nat /\ e.access \in Access /\ e.hit \in BOOLEAN
      /\ e = [access |-> e.access, hit |-> e.hit, due |-> e.due]
  BY DEF Timed
<1>2. [e EXCEPT !.due = @ - 1] = [access |-> e.access, hit |-> e.hit, due |-> e.due - 1]
  BY <1>1
<1>3. e.due - 1 \in Nat
  BY <1>1
<1> QED
  BY <1>1, <1>2, <1>3 DEF Timed

\* The clock.
LEMMA ClockKeepsAccesses == ASSUME IInv, AccessInv, nextPhase PROVE AccessInv'
<1>0. phase \in {"port", "flush", "rename", "decode", "icache", "fetch"} /\ phase' = NextOf[phase]
  BY DEF IInv, PortInv, NextOf, nextPhase
<1>1. UNCHANGED <<to_icache, fetch_req_queue_, pending_miss_buffer_, replay_buffer_>>
  BY DEF nextPhase, icacheQueues
<1>2. CASE phase # "fetch"
  <2>1. UNCHANGED <<ev_respond_, ev_replay_ready_, fetch_resp>>
    BY <1>2 DEF nextPhase, icacheEvents
  <2>2. phase' = "fetch" => phase = "icache"
    BY <1>0, <1>2 DEF NextOf
  <2>3. phase = "icache" => \A e \in ev_respond_ \cup ev_replay_ready_ : e.due > 0
    <3>1. phase = "icache" => \A e \in ev_respond_ \cup ev_replay_ready_ : e.due # 0
      BY DEF nextPhase, PhaseDone, DueResponses
    <3>2. \A e \in ev_respond_ \cup ev_replay_ready_ : e.due \in Nat
      BY DEF AccessInv, Timed
    <3> QED
      BY <3>1, <3>2
  <2> QED
    BY <1>1, <2>1, <2>2, <2>3 DEF AccessInv
<1>3. CASE phase = "fetch"
  <2>1. /\ ev_respond_' = AgedEvents(ev_respond_) /\ ev_replay_ready_' = AgedEvents(ev_replay_ready_)
        /\ fetch_resp' = AgedEvents(fetch_resp)
    BY <1>3 DEF nextPhase
  <2>2. /\ \A e \in ev_respond_ : e.due > 0
        /\ \A e \in ev_replay_ready_ : e.due > 0
        /\ \A e \in fetch_resp : e.due > 0
    BY <1>3 DEF AccessInv, nextPhase, PhaseDone
  <2>3. ev_respond_ \subseteq Timed /\ ev_replay_ready_ \subseteq Timed /\ fetch_resp \subseteq Timed
    BY DEF AccessInv
  <2>4. ev_respond_' \subseteq Timed /\ ev_replay_ready_' \subseteq Timed /\ fetch_resp' \subseteq Timed
    BY <2>1, <2>2, <2>3, AgedTimed
  <2>5. phase' # "fetch"
    BY <1>0, <1>3 DEF NextOf
  <2> QED
    BY <1>1, <2>4, <2>5 DEF AccessInv
<1> QED
  BY <1>2, <1>3

\* An arbitration.
LEMMA ArbitrationKeepsAccesses == ASSUME IInv, WantInv, AccessInv, ICacheArbitrates PROVE AccessInv'
<1>1. Arbitrated /\ (ArbitratesReplay \/ (\E hit \in BOOLEAN : ArbitratesLookup(hit)) \/ ArbitratesNothing)
  BY ArbitrationSteps
<1>2. /\ IsSequence(Replays) /\ IsSequence(Pending) /\ Distinct(Replays)
      /\ Range(Replays) \cup Range(Pending) = Range(replay_buffer_) \cup Range(pending_miss_buffer_)
  BY FillOnce, FillMoves DEF IInv, WantInv
<1>3. fetch_resp' = fetch_resp /\ phase' = "icache" /\ to_icache' = to_icache
  BY <1>1 DEF ICacheArbitrates, Arbitrated
<1>4. Range(Replays) \cup Range(Pending) \subseteq Access /\ Range(fetch_req_queue_) \subseteq Access
  BY <1>2 DEF AccessInv
<1>5. ASSUME NEW c \in Access, NEW hit \in BOOLEAN
      PROVE  [access |-> c, hit |-> hit, due |-> CacheLatency] \in Timed
  BY ICacheAssumption DEF Timed
<1>6. Range(<< >>) = {}
  BY EmptyIsSequence
<1>7. CASE ArbitratesReplay
  <2>1. Range(Tail(Replays)) \subseteq Range(Replays) /\ Head(Replays) \in Range(Replays)
    BY <1>2, <1>7, TailIsSequence DEF ArbitratesReplay
  <2>2. [access |-> Head(Replays), hit |-> TRUE, due |-> CacheLatency] \in Timed
    BY <1>4, <1>5, <2>1
  <2> QED
    BY <1>3, <1>4, <1>7, <2>1, <2>2 DEF AccessInv, ArbitratesReplay
<1>8. ASSUME NEW hit \in BOOLEAN, ArbitratesLookup(hit) PROVE AccessInv'
  <2> DEFINE x == Head(fetch_req_queue_)
  <2>1. IsSequence(fetch_req_queue_) /\ Distinct(fetch_req_queue_) /\ fetch_req_queue_ # << >>
    BY <1>8 DEF IInv, SeqInv, WantInv, OnceInv, Once, ArbitratesLookup
  <2>2. Range(Tail(fetch_req_queue_)) \subseteq Range(fetch_req_queue_) /\ x \in Range(fetch_req_queue_)
    BY <2>1, TailIsSequence
  <2>3. [access |-> x, hit |-> hit, due |-> CacheLatency] \in Timed /\ x \in Access
    BY <1>4, <1>5, <2>2
  <2>4. Range(Append(Pending, x)) = Range(Pending) \cup {x}
    BY <1>2, AppendIsSequence
  <2>5. /\ ev_respond_' = ev_respond_ \cup {[access |-> x, hit |-> hit, due |-> CacheLatency]}
        /\ fetch_req_queue_' = Tail(fetch_req_queue_) /\ replay_buffer_' = << >>
        /\ pending_miss_buffer_' = IF hit THEN Pending ELSE Append(Pending, x)
        /\ UNCHANGED ev_replay_ready_
    BY <1>8 DEF ArbitratesLookup
  <2> HIDE DEF x
  <2>6. Range(pending_miss_buffer_') \subseteq Access
    BY <1>4, <2>3, <2>4, <2>5
  <2> QED
    BY <1>3, <1>4, <1>6, <2>2, <2>3, <2>5, <2>6 DEF AccessInv
<1>9. CASE ArbitratesNothing
  BY <1>3, <1>4, <1>6, <1>9 DEF AccessInv, ArbitratesNothing
<1> QED
  BY <1>1, <1>7, <1>8, <1>9

\* An answer takes one more cycle.
LEMMA AnswerKeepsAccesses == ASSUME IInv, AccessInv, ICacheResponds PROVE AccessInv'
<1>1. PICK e \in DueResponses :
         /\ ev_respond_' = ev_respond_ \ {e} /\ ev_replay_ready_' = ev_replay_ready_ \ {e}
         /\ fetch_resp' = fetch_resp \cup {[e EXCEPT !.due = 1]}
         /\ UNCHANGED icacheQueues
         /\ receiveCacheCredit(CreditOf(e)) \/ UNCHANGED fetchVars
  BY DEF ICacheResponds, answered
<1>2. UNCHANGED <<to_icache, fetch_req_queue_, pending_miss_buffer_, replay_buffer_>>
  BY <1>1 DEF icacheQueues, receiveCacheCredit, fetchVars
<1>3. e \in Timed
  BY DEF DueResponses, AccessInv
<1>4. [e EXCEPT !.due = 1] \in Timed
  BY <1>3 DEF Timed
<1>5. phase' = "icache"
  BY DEF ICacheResponds
<1> QED
  BY <1>1, <1>2, <1>4, <1>5 DEF AccessInv

\* Fetch asks for a block.
LEMMA FetchKeepsAccesses ==
    ASSUME IInv, OrderInv, WantInv, AccessInv, fetchInstruction,
           UNCHANGED <<phase, icacheVars, decodeVars, fetch_resp, contractVars>>
    PROVE  AccessInv'
<1> DEFINE room == IBufCapacity - Len(ibuf_)
           buf  == ibuf_ \o NextInsts(room)
           n    == BlockEnd(buf)
           req  == [line  |-> trace[buf[1].pid].line, insts |-> {buf[k].uid : k \in 1..n}]
<1>1. ibuf_ \in Seq(Inst) /\ Len(ibuf_) <= IBufCapacity
  BY DEF OrderInv, PartsInv
<1>2. room \in Nat
  BY <1>1, SeqFacts, FetchAssumption
<1>3. UNCHANGED <<phase, fetch_req_queue_, pending_miss_buffer_, replay_buffer_, ev_respond_,
                  ev_replay_ready_, fetch_resp>>
  BY DEF icacheVars, icacheQueues, icacheEvents
<1>4. UNCHANGED to_icache \/ (buf # << >> /\ to_icache' = Append(to_icache, req))
  BY DEF fetchInstruction
<1> HIDE DEF room
<1>5. buf # << >> => req \in Access
  <2>1. SUFFICES ASSUME buf # << >> PROVE req \in Access
    OBVIOUS
  <2>2. buf \in Seq(Inst)
    BY <1>2, BufferYoungest
  <2>3. n \in 1..Len(buf)
    BY <2>1, <2>2, BlockEndFacts
  <2> HIDE DEF buf, n
  <2>4. buf = ibuf_ \o NextInsts(room)
    BY DEF buf
  <2> QED
    BY <1>2, <2>1, <2>3, <2>4, RequestIsAccess
<1>6. Range(Append(to_icache, req)) = Range(to_icache) \cup {req}
  BY AppendIsSequence DEF IInv, SeqInv
<1> HIDE DEF req, buf
<1>7. Range(to_icache') \subseteq Access
  BY <1>4, <1>5, <1>6 DEF AccessInv
<1> QED
  BY <1>3, <1>7 DEF AccessInv

\* Every step keeps it.
LEMMA NextAccesses == IInv /\ OrderInv /\ WantInv /\ AccessInv /\ [Next]_vars => AccessInv'
<1> SUFFICES ASSUME IInv, OrderInv, WantInv, AccessInv, [Next]_vars PROVE AccessInv'
  OBVIOUS
<1>1. ASSUME UNCHANGED <<to_icache, fetch_req_queue_, pending_miss_buffer_, replay_buffer_, ev_respond_,
                         ev_replay_ready_, fetch_resp>>,
             phase' = phase \/ phase' # "fetch"
      PROVE  AccessInv'
  BY <1>1 DEF AccessInv
<1>2. CASE L2Fills \/ L2ReturnsCredit \/ VsetExecuted \/ RenameReturnsCredits
  BY <1>1, <1>2 DEF L2Fills, L2ReturnsCredit, VsetExecuted, RenameReturnsCredits, fetchVars, icacheVars,
                    icacheQueues, icacheEvents, getRespFromL2Cache, getCreditsFromL2Cache
<1>3. CASE DeliverToDecode \/ DecodeSession \/ DecodeGathers \/ ICacheRequestsLine \/ UNCHANGED vars
  BY <1>1, <1>3 DEF DeliverToDecode, DecodeSession, DecodeGathers, ICacheRequestsLine, vars, fetchVars,
                    icacheVars, icacheQueues, icacheEvents, requestLine, receiveFetchQueueCredits
<1>4. CASE DeliverToICache
  <2>1. /\ to_icache # << >> /\ to_icache' = Tail(to_icache)
        /\ fetch_req_queue_' = Append(fetch_req_queue_, Head(to_icache))
        /\ UNCHANGED <<phase, pending_miss_buffer_, replay_buffer_, ev_respond_, ev_replay_ready_, fetch_resp>>
    BY <1>4 DEF DeliverToICache, getRequestFromFetch, icacheEvents
  <2>2. IsSequence(to_icache) /\ IsSequence(fetch_req_queue_) /\ Distinct(to_icache)
    BY DEF IInv, SeqInv, WantInv, OnceInv, Once
  <2>3. Range(Tail(to_icache)) \subseteq Range(to_icache) /\ Head(to_icache) \in Range(to_icache)
    BY <2>1, <2>2, TailIsSequence
  <2>4. Range(Append(fetch_req_queue_, Head(to_icache))) = Range(fetch_req_queue_) \cup {Head(to_icache)}
    BY <2>2, AppendIsSequence
  <2> QED
    BY <2>1, <2>3, <2>4 DEF AccessInv
<1>5. CASE Flush
  <2>1. /\ to_icache' = << >> /\ phase' = "rename"
        /\ UNCHANGED <<fetch_req_queue_, pending_miss_buffer_, replay_buffer_, ev_respond_,
                       ev_replay_ready_, fetch_resp>>
    BY <1>5 DEF Flush, flushFetch, icacheVars, icacheQueues, icacheEvents
  <2>2. Range(<< >>) = {}
    BY EmptyIsSequence
  <2> QED
    BY <2>1, <2>2 DEF AccessInv
<1>6. CASE ICacheArbitrates
  BY <1>6, ArbitrationKeepsAccesses
<1>7. CASE ICacheResponds
  BY <1>7, AnswerKeepsAccesses
<1>8. CASE FetchTakesResponse
  BY <1>8 DEF FetchTakesResponse, receiveCacheResponse, icacheVars, icacheQueues, icacheEvents, AccessInv
<1>9. CASE FetchEvent
  <2>1. /\ (fetchInstruction \/ sendInstructions)
        /\ UNCHANGED <<phase, icacheVars, decodeVars, fetch_resp, contractVars>>
    BY <1>9 DEF FetchEvent
  <2>2. CASE fetchInstruction
    BY <2>1, <2>2, FetchKeepsAccesses
  <2>3. CASE sendInstructions
    <3>1. UNCHANGED to_icache
      BY <2>3 DEF sendInstructions
    <3> QED
      BY <1>1, <2>1, <3>1 DEF icacheVars, icacheQueues, icacheEvents
  <2> QED
    BY <2>1, <2>2, <2>3
<1>10. CASE nextPhase
  BY <1>10, ClockKeepsAccesses
<1> QED
  BY <1>2, <1>3, <1>4, <1>5, <1>6, <1>7, <1>8, <1>9, <1>10 DEF Next, Handlers

\* The counts do not go below zero: the L2 cache owes what it has been sent and has not
\* taken, and the cache holds lines.
CountInv ==
    /\ latency_count_ \in Nat /\ flushes \in Nat /\ l2_owed \in Nat /\ l2cache_credits_ \in Nat
    /\ l1_cache_ \subseteq Nat

\* A request to the L2 cache takes at most one credit, and only if there is one.
LEMMA RequestTakesCredit ==
    ASSUME NEW misses, NEW wakes, makeL2CacheRequest(misses, wakes), CountInv
    PROVE  /\ l2cache_credits_' \in Nat
           /\ l2_owed + (l2cache_credits_ - l2cache_credits_') \in Nat
<1>1. \/ l2cache_credits_' = l2cache_credits_
      \/ l2cache_credits_ # 0 /\ l2cache_credits_' = l2cache_credits_ - 1
  BY DEF makeL2CacheRequest
<1>2. l2cache_credits_ \in Nat /\ l2_owed \in Nat
  BY DEF CountInv
<1> QED
  BY <1>1, <1>2

\* A line that comes back from the L2 cache is one that a miss waits for.
LEMMA FilledIsLine ==
    ASSUME IInv, AccessInv
    PROVE  /\ Range(miss_queue_) \subseteq Nat /\ Range(at_l2) \subseteq Nat
           /\ Range(l2cache_resp_queue_) \subseteq Nat
<1>1. LinesOf(pending_miss_buffer_) \subseteq Nat
  BY DEF LinesOf, AccessInv, Access
<1> QED
  BY <1>1 DEF IInv, FillInv, Partitions

\* Every step keeps the counts.
LEMMA NextCounts == IInv /\ AccessInv /\ CountInv /\ [Next]_vars => CountInv'
<1> SUFFICES ASSUME IInv, AccessInv, CountInv, [Next]_vars PROVE CountInv'
  OBVIOUS
<1>0. latency_count_ \in Nat /\ flushes \in Nat /\ l2_owed \in Nat /\ l2cache_credits_ \in Nat
      /\ l1_cache_ \subseteq Nat
  BY DEF CountInv
<1>1. CASE DeliverToICache \/ DeliverToDecode \/ L2Fills \/ VsetExecuted \/ RenameReturnsCredits
             \/ UNCHANGED vars
  BY <1>0, <1>1 DEF DeliverToICache, DeliverToDecode, L2Fills, VsetExecuted, RenameReturnsCredits, vars,
                    contractVars, decodeVars, icacheVars, icacheQueues, getRequestFromFetch,
                    fetchBufferAppended, getRespFromL2Cache, processVset, receiveUopQueueCredits, CountInv
<1>2. CASE DecodeSession \/ DecodeGathers \/ Flush
  <2>1. latency_count_' \in {0, latency_count_, latency_count_ + 1}
    BY <1>2 DEF DecodeSession, DecodeGathers, Flush, decodeInsts, decodeGathers, handleFlush
  <2>2. flushes' \in {flushes, flushes + 1}
    BY <1>2 DEF DecodeSession, DecodeGathers, Flush, contractVars
  <2>3. UNCHANGED <<l2_owed, l2cache_credits_, l1_cache_>>
    BY <1>2 DEF DecodeSession, DecodeGathers, Flush, contractVars, icacheVars, icacheQueues
  <2> QED
    BY <1>0, <2>1, <2>2, <2>3 DEF CountInv
<1>3. CASE ICacheResponds \/ FetchTakesResponse \/ FetchEvent \/ nextPhase
  BY <1>0, <1>3 DEF ICacheResponds, FetchTakesResponse, FetchEvent, nextPhase, contractVars, decodeVars,
                    icacheVars, icacheQueues, answered, CountInv
<1>4. CASE L2ReturnsCredit
  <2>1. /\ l2_owed > 0 /\ l2_owed' = l2_owed - 1 /\ l2cache_credits_' = l2cache_credits_ + 1
        /\ UNCHANGED <<latency_count_, flushes, l1_cache_>>
    BY <1>4 DEF L2ReturnsCredit, getCreditsFromL2Cache, decodeVars, icacheQueues
  <2> QED
    BY <1>0, <2>1 DEF CountInv
<1>5. CASE ICacheRequestsLine
  <2>1. /\ makeL2CacheRequest(miss_queue_, ev_l2cache_request_ \ {0})
        /\ l2_owed' = l2_owed + (l2cache_credits_ - l2cache_credits_')
        /\ UNCHANGED <<latency_count_, flushes, l1_cache_>>
    BY <1>5 DEF ICacheRequestsLine, requestLine, decodeVars, icacheQueues
  <2>2. l2cache_credits_' \in Nat /\ l2_owed' \in Nat
    BY <2>1, RequestTakesCredit
  <2> QED
    BY <1>0, <2>1, <2>2 DEF CountInv
<1>6. CASE ICacheArbitrates
  <2>1. /\ l2_owed' = l2_owed + (l2cache_credits_ - l2cache_credits_')
        /\ UNCHANGED <<latency_count_, flushes>>
    BY <1>6 DEF ICacheArbitrates, decodeVars
  <2>2. \/ l2cache_credits_' = l2cache_credits_
        \/ \E m, w : makeL2CacheRequest(m, w)
    BY <1>6 DEF ICacheArbitrates, doArbitration
  <2>3. l2cache_credits_' \in Nat /\ l2_owed' \in Nat
    <3>1. CASE l2cache_credits_' = l2cache_credits_
      BY <1>0, <2>1, <3>1
    <3>2. CASE \E m, w : makeL2CacheRequest(m, w)
      BY <2>1, <3>2, RequestTakesCredit
    <3> QED
      BY <2>2, <3>1, <3>2
  <2>4. l1_cache_' \subseteq Nat
    <3> DEFINE line == Head(l2cache_resp_queue_)
    <3>1. l1_cache_' \in (IF l2cache_resp_queue_ # << >> THEN Reloaded(line) ELSE {l1_cache_})
      BY <1>6 DEF ICacheArbitrates, doArbitration
    <3>2. CASE l2cache_resp_queue_ = << >>
      BY <1>0, <3>1, <3>2
    <3>3. CASE l2cache_resp_queue_ # << >>
      <4>1. IsSequence(l2cache_resp_queue_)
        BY DEF IInv, SeqInv
      <4>2. line \in Nat
        BY <3>3, <4>1, TailIsSequence, FilledIsLine
      <4> HIDE DEF line
      <4>3. \A c \in Reloaded(line) : c \subseteq l1_cache_ \cup {line}
        BY DEF Reloaded
      <4> QED
        BY <1>0, <3>1, <3>3, <4>2, <4>3
    <3> QED
      BY <3>2, <3>3
  <2> QED
    BY <2>1, <2>3, <2>4, <1>0 DEF CountInv
<1> QED
  BY <1>1, <1>2, <1>3, <1>4, <1>5, <1>6 DEF Next, Handlers

\* What the flushes have left behind.
UndoInv == vset_dropped \in BOOLEAN /\ stale \subseteq 1..Len(trace)

\* Every step keeps it.
LEMMA NextUndo == OrderInv /\ UndoInv /\ [Next]_vars => UndoInv'
<1> SUFFICES ASSUME OrderInv, UndoInv, [Next]_vars PROVE UndoInv'
  OBVIOUS
<1>1. CASE DeliverToICache \/ DeliverToDecode \/ L2Fills \/ L2ReturnsCredit \/ RenameReturnsCredits
             \/ DecodeGathers \/ VsetExecuted \/ UNCHANGED vars
  <2>1. UNCHANGED <<trace, vset_dropped, stale>>
    BY <1>1 DEF DeliverToICache, DeliverToDecode, L2Fills, L2ReturnsCredit, RenameReturnsCredits,
                DecodeGathers, VsetExecuted, vars, fetchVars, instGeneratorVars, contractVars, undoVars
  <2> QED
    BY <2>1 DEF UndoInv
<1>2. CASE ICacheArbitrates \/ ICacheRequestsLine \/ ICacheResponds \/ nextPhase
  <2>1. UNCHANGED <<trace, vset_dropped, stale>>
    BY <1>2 DEF ICacheArbitrates, ICacheRequestsLine, ICacheResponds, nextPhase, fetchVars,
                instGeneratorVars, receiveCacheCredit, contractVars, undoVars
  <2> QED
    BY <2>1 DEF UndoInv
<1>3. CASE FetchTakesResponse \/ FetchEvent \/ DecodeSession
  <2>1. UNCHANGED <<trace, vset_dropped, stale>>
    BY <1>3 DEF FetchTakesResponse, FetchEvent, receiveCacheResponse, fetchInstruction, getNextInsts,
                sendInstructions, instGeneratorVars, DecodeSession, receiveFetchQueueCredits,
                contractVars, undoVars
  <2> QED
    BY <2>1 DEF UndoInv
<1>4. CASE Flush
  <2>1. PICK k \in DOMAIN sent, inclusive \in BOOLEAN :
           /\ flushFetch(sent[k], inclusive, CreditsOfFlush)
           /\ stale' = StaleAfter(sent[k], {sent[m].pid : m \in {n \in DOMAIN sent :
                   includedInFlush(sent[k], sent[n], inclusive) /\ IsVset(sent[n].pid)}})
    <3>1. PICK k \in DOMAIN sent, inclusive \in BOOLEAN :
             /\ flushFetch(sent[k], inclusive, CreditsOfFlush)
             /\ stale' = StaleAfter(sent[k], {sent[m].pid : m \in {n \in {j \in DOMAIN sent :
                   includedInFlush(sent[k], sent[j], inclusive)} : IsVset(sent[n].pid)}})
      BY <1>4, Zenon DEF Flush
    <3>2. {n \in {j \in DOMAIN sent : includedInFlush(sent[k], sent[j], inclusive)} : IsVset(sent[n].pid)}
            = {n \in DOMAIN sent : includedInFlush(sent[k], sent[n], inclusive) /\ IsVset(sent[n].pid)}
      OBVIOUS
    <3> QED
      BY <3>1, <3>2
  <2>2. UNCHANGED trace
    BY <2>1 DEF flushFetch, reset
  <2>3. vset_dropped' \in BOOLEAN
    BY <1>4 DEF Flush, UndoInv
  <2>4. sent[k].pid \in 1..Len(trace) /\ Len(trace) \in Nat
    BY <2>1, SeqFacts DEF OrderInv, RunInv, Ordered, SentRun, QueueRun
  <2>5. \A V : StaleAfter(sent[k], V) \subseteq stale \cup sent[k].pid..Len(trace)
    BY DEF StaleAfter
  <2>6. stale' \subseteq 1..Len(trace)
    <3>1. stale' \subseteq stale \cup sent[k].pid..Len(trace)
      BY <2>1, <2>5
    <3>2. sent[k].pid..Len(trace) \subseteq 1..Len(trace)
      BY <2>4
    <3> QED
      BY <3>1, <3>2 DEF UndoInv
  <2> QED
    BY <2>2, <2>3, <2>6 DEF UndoInv
<1> QED
  BY <1>1, <1>2, <1>3, <1>4 DEF Next, Handlers

TypesInv == RoomInv /\ WakeInv /\ AccessInv /\ CountInv /\ UndoInv

\* It holds at first.
LEMMA InitTypes == Init => TypesInv
<1> SUFFICES ASSUME Init PROVE TypesInv
  OBVIOUS
<1>1. RoomInv
  <2>1. fetch_buffer_ = << >> /\ fetch_buffer_occupancy_ = 0
    BY DEF Init, FetchInit
  <2>2. Lasts(<< >>) = {} /\ Cardinality({}) = 0
    BY FS_EmptySet DEF Lasts
  <2> QED
    BY <2>1, <2>2 DEF RoomInv
<1>2. WakeInv
  BY DEF Init, FetchInit, ICacheInit, DecodeInit, WakeInv
<1>3. AccessInv
  <2>1. /\ to_icache = << >> /\ fetch_req_queue_ = << >> /\ pending_miss_buffer_ = << >>
        /\ replay_buffer_ = << >> /\ ev_respond_ = {} /\ ev_replay_ready_ = {} /\ fetch_resp = {}
    BY DEF Init, FetchInit, ICacheInit
  <2>2. Range(<< >>) = {}
    BY EmptyIsSequence
  <2> QED
    BY <2>1, <2>2 DEF AccessInv
<1>4. CountInv
  BY ICacheAssumption DEF Init, ICacheInit, DecodeInit, CountInv
<1>5. UndoInv
  BY DEF Init, UndoInv
<1> QED
  BY <1>1, <1>2, <1>3, <1>4, <1>5 DEF TypesInv

\* Every step keeps it.
LEMMA NextTypes == IInv /\ OrderInv /\ WantInv /\ TypesInv /\ [Next]_vars => TypesInv'
  BY NextRoom, NextWakes, NextAccesses, NextCounts, NextUndo DEF TypesInv

\* With the order, these are the types.
LEMMA TypesHold == IInv /\ OrderInv /\ TypesInv => TypeOK
<1> SUFFICES ASSUME IInv, OrderInv, TypesInv PROVE TypeOK
  OBVIOUS
<1>0. RoomInv /\ WakeInv /\ AccessInv /\ CountInv /\ PartsInv /\ GroupInv /\ RunInv
  BY DEF TypesInv, OrderInv
<1>1. \A S : \A s : IsSequence(s) /\ Range(s) \subseteq S => s \in Seq(S)
  BY WiderSeq DEF IsSequence
<1>2. phase \in DOMAIN NextOf /\ trace \in Traces
  BY <1>0 DEF IInv, PortInv, PartsInv
<1>3. next_pid \in Nat /\ next_uid \in Nat
  <2>1. next_pid \in 1..Len(trace) + 1 /\ Len(trace) \in Nat /\ next_uid \in Nat
    BY <1>0 DEF RunInv, Ordered, QueueRun
  <2> QED
    BY <2>1
<1>4. /\ fetch_buffer_occupancy_ \in Nat /\ credits_icache_ \in Nat /\ credits_inst_queue_ \in Nat
      /\ l2cache_credits_ \in Nat /\ uop_queue_credits_ \in Nat /\ latency_count_ \in Nat
      /\ uops_held \in Nat /\ l2_owed \in Nat /\ flushes \in Nat
  BY <1>0 DEF RoomInv, IInv, CreditInv, PartsInv, CountInv
<1>5. ibuf_ \in Seq(Inst) /\ fetch_queue_ \in Seq(Inst) /\ to_decode \in Seq(Seq(Inst))
      /\ fetch_buffer_ \in Seq([inst : Inst, last : BOOLEAN, fetched : BOOLEAN])
  BY <1>0 DEF PartsInv, GroupInv, Entry
<1>6. to_icache \in Seq(Access) /\ fetch_req_queue_ \in Seq(Access) /\ replay_buffer_ \in Seq(Access)
      /\ pending_miss_buffer_ \in Seq(Access)
  BY <1>0, <1>1 DEF AccessInv, IInv, SeqInv
<1>7. l2cache_resp_queue_ \in Seq(Nat) /\ miss_queue_ \in Seq(Nat) /\ at_l2 \in Seq(Nat)
  <2>1. Range(miss_queue_) \subseteq Nat /\ Range(at_l2) \subseteq Nat /\ Range(l2cache_resp_queue_) \subseteq Nat
    BY <1>0, FilledIsLine
  <2> QED
    BY <1>1, <2>1 DEF IInv, SeqInv
<1>8. l1_cache_ \subseteq Nat
  BY <1>0 DEF CountInv
<1>9. UNION {ev_fetch_insts, ev_send_insts, ev_arbitrate_, ev_l2cache_request_,
             ev_decode_insts_event_} \subseteq {0, 1}
  BY <1>0 DEF WakeInv
<1>10. UNION {ev_respond_, ev_replay_ready_, fetch_resp} \subseteq Timed
  BY <1>0 DEF AccessInv
<1>11. vector_config_ \in VectorConfig /\ waiting_on_vset_ \in BOOLEAN
  BY <1>0 DEF PartsInv, UsableConfig
<1>12. vset_dropped \in BOOLEAN /\ stale \subseteq Nat
  BY DEF TypesInv, UndoInv
<1> QED
  BY <1>2, <1>3, <1>4, <1>5, <1>6, <1>7, <1>8, <1>9, <1>10, <1>11, <1>12 DEF TypeOK

\* Every variable of the front end keeps its type: no credit, no count and no delay goes
\* below zero, and no event is more than a cycle away.
THEOREM TypesInvariant == ASSUME Proper PROVE Spec => []TypeOK
<1>1. Init => TypesInv
  BY InitTypes
<1>2. IInv /\ OrderInv /\ WantInv /\ TypesInv /\ [Next]_vars => TypesInv'
  BY NextTypes
<1>3. Spec => []IInv
  BY FrontEndInvariant
<1>4. Spec => []OrderInv
  BY OrderInvariant
<1>5. Spec => []WantInv
  BY WantInvariant
<1>6. IInv /\ OrderInv /\ TypesInv => TypeOK
  BY TypesHold
<1> QED
  BY <1>1, <1>2, <1>3, <1>4, <1>5, <1>6, PTL DEF Spec

\* In a scalar program no credit between Fetch, Decode and ICache is lost or invented,
\* whatever is flushed at whatever time (Fetch.cpp, Decode.cpp, ICache.cpp).
THEOREM CreditsHold == ASSUME Proper, Scalar PROVE Spec => []CreditsConserved
<1>1. Spec => []TypeOK
  BY TypesInvariant
<1>2. Spec => []FetchCreditsConserved
  BY FetchCreditsHold
<1>3. Spec => [](ICacheCreditsConserved /\ credits_icache_ \in Nat)
  BY ICacheCreditsHold
<1>4. TypeOK /\ FetchCreditsConserved /\ ICacheCreditsConserved => CreditsConserved
  BY DEF CreditsConserved
<1> QED
  BY <1>1, <1>2, <1>3, <1>4, PTL

-----------------------------------------------------------------------------
(* The configuration of the program.                                       *)

Vsets == {"vset", "vset_reg"}

\* The configuration before instruction p, if that before its predecessor is c.
StepConfig(p, c) ==
    LET v == trace[p - 1]
        max == vlmax(v.cfg)
    IN  IF v.kind \notin {"vset", "vset_reg"} THEN c
        ELSE [v.cfg EXCEPT !.vl = CASE v.x0 = "none"   -> @
                                    [] v.x0 = "source" -> max
                                    [] v.x0 = "both"   -> Min({c.vl, max})]

\* f is the configuration up to instruction n.
ConfigsAre(f, n) == f = [p \in 1..n |-> IF p = 1 THEN InitConfig ELSE StepConfig(p, f[p - 1])]

\* The configuration at instruction p of them.
LEMMA ConfigsAt ==
    ASSUME NEW f, NEW n \in Nat, ConfigsAre(f, n), NEW p \in 1..n
    PROVE  f[p] = IF p = 1 THEN InitConfig ELSE StepConfig(p, f[p - 1])
<1> DEFINE h(j) == IF j = 1 THEN InitConfig ELSE StepConfig(j, f[j - 1])
<1>1. f = [j \in 1..n |-> h(j)]
  BY DEF ConfigsAre
<1> HIDE DEF h
<1>2. f[p] = h(p)
  BY <1>1
<1> QED
  BY <1>2 DEF h

\* The recursion has a solution.
LEMMA ConfigsExist == ASSUME NEW n \in Nat PROVE \E f : ConfigsAre(f, n)
<1> DEFINE B == {m \in Nat : ~ \E f : ConfigsAre(f, m)}
<1> SUFFICES ASSUME B # {} PROVE FALSE
  OBVIOUS
<1>1. PICK m \in B : \A k \in B : m <= k
  BY LeastNumber, B \in SUBSET Nat
<1>2. CASE m = 0
  <2> DEFINE f == [p \in 1..0 |-> InitConfig]
             g == [p \in 1..0 |-> IF p = 1 THEN InitConfig ELSE StepConfig(p, f[p - 1])]
  <2>1. 1..0 = {}
    OBVIOUS
  <2>2. f = g
    BY <2>1
  <2>3. ConfigsAre(f, 0)
    BY <2>2 DEF ConfigsAre
  <2> QED
    BY <1>2, <2>3
<1>3. CASE m # 0
  <2>1. m - 1 \in Nat /\ m - 1 \notin B
    BY <1>1, <1>3
  <2>2. PICK f : ConfigsAre(f, m - 1)
    BY <2>1
  <2> DEFINE g == [p \in 1..m |-> IF p = 1 THEN InitConfig ELSE StepConfig(p, f[p - 1])]
  <2>3. ASSUME NEW p \in 1..m - 1 PROVE g[p] = f[p]
    <3>1. p \in 1..m
      BY <2>1
    <3>2. f[p] = IF p = 1 THEN InitConfig ELSE StepConfig(p, f[p - 1])
      BY <2>1, <2>2, ConfigsAt
    <3> QED
      BY <3>1, <3>2
  <2>4. ASSUME NEW p \in 1..m, p # 1 PROVE g[p - 1] = f[p - 1]
    <3>1. p - 1 \in 1..m - 1
      BY <2>1, <2>4
    <3> QED
      BY <2>3, <3>1
  <2>5. ConfigsAre(g, m)
    BY <2>4 DEF ConfigsAre
  <2> QED
    BY <2>5
<1> QED
  BY <1>2, <1>3

\* The configuration before instruction p, which may be the end of the program.
ConfigAt(p) == IF p = 1 THEN InitConfig ELSE StepConfig(p, ProgramConfig[p - 1])

\* It is the program's.
LEMMA ConfigIs ==
    ASSUME Len(trace) \in Nat, NEW p \in 1..Len(trace)
    PROVE  ProgramConfig[p] = ConfigAt(p)
<1> DEFINE f == CHOOSE g : ConfigsAre(g, Len(trace))
<1>1. ProgramConfig = f
  BY DEF ProgramConfig, ConfigsAre, StepConfig
<1>2. ConfigsAre(f, Len(trace))
  BY ConfigsExist
<1> HIDE DEF f
<1>3. f[p] = IF p = 1 THEN InitConfig ELSE StepConfig(p, f[p - 1])
  BY <1>2, ConfigsAt
<1> QED
  BY <1>1, <1>3 DEF ConfigAt

\* Where the code takes the length that the trace has for a vset, it is the length that
\* the program gives: a vset that keeps the length of the one before it, and a vsetvl
\* with x0, have no other (Decode.cpp, updateVectorConfig_).
OwnLengths == \A t \in Traces : \A p \in DOMAIN t : t[p].kind \in Vsets =>
    /\ t[p].x0 # "both"
    /\ t[p].kind = "vset_reg" /\ t[p].x0 = "source" => t[p].cfg.vl = vlmax(t[p].cfg)

\* A vset sets the configuration of the instructions behind it, the others none.
LEMMA ConfigStep ==
    ASSUME OwnLengths, trace \in Traces, NEW p \in 1..Len(trace)
    PROVE  /\ trace[p].kind \in Vsets => \A i : i.pid = p => ConfigAt(p + 1) = ConfigOf(i)
           /\ trace[p].kind \notin Vsets => ConfigAt(p + 1) = ConfigAt(p)
<1>1. trace \in Seq(TraceInst) /\ Len(trace) \in Nat /\ DOMAIN trace = 1..Len(trace)
  BY TraceAssumption, SeqFacts
<1>2. trace[p] \in TraceInst
  BY <1>1, SeqFacts
<1>3. p + 1 # 1 /\ (p + 1) - 1 = p
  BY <1>1
<1>4. ConfigAt(p + 1) = StepConfig(p + 1, ConfigAt(p))
  BY <1>1, <1>3, ConfigIs DEF ConfigAt
<1>5. ASSUME trace[p].kind \notin Vsets PROVE ConfigAt(p + 1) = ConfigAt(p)
  BY <1>3, <1>4, <1>5 DEF StepConfig, Vsets
<1>6. ASSUME trace[p].kind \in Vsets, NEW i, i.pid = p PROVE ConfigAt(p + 1) = ConfigOf(i)
  <2> DEFINE v == trace[p]
             c == ConfigAt(p)
             max == vlmax(v.cfg)
  <2>1. v.x0 \in {"none", "source"} /\ v.cfg \in VectorConfig
    BY <1>1, <1>2, <1>6 DEF OwnLengths, TraceInst
  <2>2. v.kind \in {"vset", "vset_reg"}
    BY <1>6 DEF Vsets
  <2>3. ConfigAt(p + 1) = [v.cfg EXCEPT !.vl = CASE v.x0 = "none"   -> @
                                                [] v.x0 = "source" -> max
                                                [] v.x0 = "both"   -> Min({c.vl, max})]
    BY <1>3, <1>4, <2>2 DEF StepConfig
  <2>4. CASE v.x0 = "none"
    <3>1. ConfigOf(i) = v.cfg
      BY <1>6, <2>4 DEF ConfigOf, Kind
    <3>2. ConfigAt(p + 1) = [v.cfg EXCEPT !.vl = v.cfg.vl]
      BY <2>3, <2>4
    <3>3. [v.cfg EXCEPT !.vl = v.cfg.vl] = v.cfg
      BY <2>1 DEF VectorConfig
    <3> QED
      BY <3>1, <3>2, <3>3
  <2>5. CASE v.x0 = "source"
    <3>1. ConfigAt(p + 1) = [v.cfg EXCEPT !.vl = max]
      BY <2>3, <2>5
    <3>2. CASE v.kind = "vset"
      <4>1. ConfigOf(i) = [v.cfg EXCEPT !.vl = max]
        BY <1>6, <2>5, <3>2 DEF ConfigOf, Kind
      <4> QED
        BY <3>1, <4>1
    <3>3. CASE v.kind = "vset_reg"
      <4>1. ConfigOf(i) = v.cfg
        BY <1>6, <3>3 DEF ConfigOf, Kind
      <4>2. v.cfg.vl = max
        BY <1>1, <1>6, <2>5, <3>3 DEF OwnLengths
      <4>3. [v.cfg EXCEPT !.vl = v.cfg.vl] = v.cfg
        BY <2>1 DEF VectorConfig
      <4> QED
        BY <3>1, <4>1, <4>2, <4>3
    <3> QED
      BY <2>2, <3>2, <3>3
  <2> QED
    BY <2>1, <2>4, <2>5
<1> QED
  BY <1>5, <1>6

\* Where there is no vset, the configuration stays.
LEMMA ConfigKept ==
    ASSUME OwnLengths, trace \in Traces, NEW p \in Nat \ {0}, NEW q \in p..Len(trace) + 1,
           \A r \in p..q - 1 : trace[r].kind \notin Vsets
    PROVE  ConfigAt(q) = ConfigAt(p)
<1>0. Len(trace) \in Nat
  BY TraceAssumption, SeqFacts
<1> DEFINE B == {r \in p..q : ConfigAt(r) # ConfigAt(p)}
<1> SUFFICES ASSUME B # {} PROVE FALSE
  BY <1>0
<1>1. B \in SUBSET Nat
  OBVIOUS
<1>2. PICK m \in B : \A r \in B : m <= r
  BY <1>1, LeastNumber
<1>3. m # p
  BY <1>2
<1>4. m - 1 \in p..q - 1 /\ m - 1 \in p..q /\ m - 1 \in 1..Len(trace) /\ (m - 1) + 1 = m /\ ~(m <= m - 1)
  BY <1>0, <1>2, <1>3
<1>5. ConfigAt(m - 1) = ConfigAt(p)
  BY <1>2, <1>4
<1>6. ConfigAt((m - 1) + 1) = ConfigAt(m - 1)
  BY <1>4, ConfigStep
<1> QED
  BY <1>2, <1>4, <1>5, <1>6

\* The constructor leaves waiting_on_vset_ uninitialised; it is taken to be false.
StartsFree == WaitingAtStart \subseteq {FALSE}

\* Decode waits while a vset is out, which is then the last uop it has sent, and for ever
\* once a flush has taken the vset.
Blocks(snt, out, w) ==
    /\ w = (out # {} \/ vset_dropped)
    /\ out # {} => ~vset_dropped /\ snt # << >> /\ out = {snt[Len(snt)]}

\* The configuration is that of instruction p, or p meets one of its future.
Suits(cfg, p) == cfg = ConfigAt(p) \/ p \in stale

\* Vector uops have the program's configuration, and while no vset is out Decode has the
\* configuration of the next instruction.
Configures(snt, out, cfg) ==
    /\ \A k \in 1..Len(snt) : trace[snt[k].pid].kind = "vector" => Suits(snt[k].cfg, snt[k].pid)
    /\ out = {} => Suits(cfg, DoneOf(snt) + 1)

\* Only a vset ends the instructions that meet such a configuration.
StaleRuns == /\ stale \subseteq 1..Len(trace)
             /\ \A p \in stale : trace[p].kind \notin Vsets => p + 1 \in stale

\* An instruction that is no vset leaves the configuration to the next one.
LEMMA SuitsNext ==
    ASSUME OwnLengths, trace \in Traces, StaleRuns, NEW p \in 1..Len(trace), trace[p].kind \notin Vsets,
           NEW cfg, Suits(cfg, p)
    PROVE  Suits(cfg, p + 1)
<1>1. ConfigAt(p + 1) = ConfigAt(p)
  BY ConfigStep
<1> QED
  BY <1>1 DEF Suits, StaleRuns

\* The vsets that are out during a session.
OutWith(d) == vsets_out \cup {i \in Range(d) : Waits(i)}

Settled(s) == /\ Blocks(sent \o s.insts, OutWith(s.insts), s.waiting)
              /\ OwnLengths => Configures(sent \o s.insts, OutWith(s.insts), s.config)

\* One more uop.
LEMMA OneMore ==
    ASSUME NEW x \in Seq(SentUop), NEW u \in SentUop
    PROVE  /\ Append(x, u) # << >> /\ Append(x, u)[Len(Append(x, u))] = u
           /\ DoneOf(Append(x, u)) = u.pid
           /\ \A cfg, out : /\ \A k \in 1..Len(x) : trace[x[k].pid].kind = "vector" =>
                                                        Suits(x[k].cfg, x[k].pid)
                            /\ trace[u.pid].kind = "vector" => Suits(u.cfg, u.pid)
                            /\ out = {} => Suits(cfg, u.pid + 1)
                            => Configures(Append(x, u), out, cfg)
<1> DEFINE y == Append(x, u)
<1>1. /\ Len(x) \in Nat /\ Len(y) = Len(x) + 1 /\ y \in Seq(SentUop) /\ y[Len(x) + 1] = u
      /\ \A k \in 1..Len(x) : y[k] = x[k]
  BY AppendFacts
<1> HIDE DEF y
<1>2. y # << >> /\ y[Len(y)] = u
  BY <1>1, SeqFacts
<1>3. DoneOf(y) = u.pid
  BY <1>2 DEF DoneOf
<1>4. ASSUME NEW cfg, NEW out,
             \A k \in 1..Len(x) : trace[x[k].pid].kind = "vector" => Suits(x[k].cfg, x[k].pid),
             trace[u.pid].kind = "vector" => Suits(u.cfg, u.pid),
             out = {} => Suits(cfg, u.pid + 1)
      PROVE  Configures(y, out, cfg)
  <2>1. ASSUME NEW k \in 1..Len(y), trace[y[k].pid].kind = "vector" PROVE Suits(y[k].cfg, y[k].pid)
    <3>1. k \in 1..Len(x) \/ k = Len(x) + 1
      BY <1>1
    <3>2. CASE k \in 1..Len(x)
      <4>1. y[k] = x[k]
        BY <1>1, <3>2
      <4> QED
        BY <1>4, <2>1, <3>2, <4>1
    <3>3. CASE k = Len(x) + 1
      <4>1. y[k] = u
        BY <1>1, <3>3
      <4> QED
        BY <1>4, <2>1, <4>1
    <3> QED
      BY <3>1, <3>2, <3>3
  <2> QED
    BY <1>3, <1>4, <2>1 DEF Configures
<1> QED
  BY <1>2, <1>3, <1>4 DEF y

\* An iteration of the session keeps it.
LEMMA SettledStep ==
    ASSUME Proper, StaleRuns, trace \in Traces, sent \in Seq(SentUop), NEW rest \in Seq(Inst), NEW n \in Nat,
           NEW s, Looped(s, n, rest), Settled(s)
    PROVE  Settled(DecodeOne(s))
<1> DEFINE a == s.queue
           b == s.gen
           c == s.config
           w == s.waiting
           d == s.insts
           x == sent \o d
           q == a \o rest
           r == DecodeOne(s)
<1>1. /\ s = [queue |-> a, gen |-> b, config |-> c, waiting |-> w, insts |-> d]
      /\ a \in Seq(Inst) /\ d \in Seq(SentUop) /\ w \in BOOLEAN
      /\ Ordered(trace, x, q, b, next_pid, next_uid)
  BY DEF Looped
<1>2. b.num_uops_to_generate_ \in Nat
  BY <1>1, GenNumber
<1>3. CASE w
  <2>1. r = s
    BY <1>3 DEF DecodeOne
  <2> QED
    BY <2>1
<1>4. CASE ~w
  <2>1. Iterated(r, s, a, b, c, w, d)
    BY <1>1, <1>2, DecodeOneIs, Zenon
  <2>2. Looped(r, n + 1, rest)
    BY LoopStep
  <2>3. OutWith(d) = {} /\ ~vset_dropped /\ (OwnLengths => Configures(x, {}, c))
    <3>1. OutWith(d) = {} /\ ~vset_dropped
      BY <1>4 DEF Settled, Blocks
    <3> QED
      BY <3>1 DEF Settled
  <2>4. Len(trace) \in Nat /\ DOMAIN trace = 1..Len(trace)
    BY TraceAssumption, SeqFacts
  <2>5. x \in Seq(SentUop)
    BY <1>1 DEF Ordered, SentRun
  <2>6. r.insts \in Seq(SentUop)
    BY <2>2 DEF Looped
  <2>7. OwnLengths => \A k \in 1..Len(x) : trace[x[k].pid].kind = "vector" =>
                                              Suits(x[k].cfg, x[k].pid)
    BY <2>3 DEF Configures
  <2>8. OwnLengths => Suits(c, DoneOf(x) + 1)
    BY <2>3 DEF Configures
  <2>9. IsSequence(d)
    BY <1>1, SeqIsSequence
  <2> HIDE DEF a, b, c, w, d, x, q, r
  <2>10. ASSUME NEW u, NEW v, NEW z, r.insts = Append(d, u), r.config = v, r.waiting = z,
                z = Waits(u), OwnLengths => (trace[u.pid].kind = "vector" => Suits(u.cfg, u.pid)),
                OwnLengths => (~Waits(u) => Suits(v, u.pid + 1))
         PROVE  Settled(r)
    <3>1. sent \o Append(d, u) = Append(x, u) /\ u \in SentUop
      <4>1. Append(d, u) \in Seq(SentUop)
        BY <2>6, <2>10
      <4>2. u \in SentUop
        <5>1. Range(Append(d, u)) \subseteq SentUop
          BY <4>1, SeqFacts
        <5>2. Range(Append(d, u)) = Range(d) \cup {u}
          BY <2>9, AppendIsSequence
        <5> QED
          BY <5>1, <5>2
      <4>3. Append(x, u) \in Seq(SentUop)
        BY <2>5, <4>2, AppendFacts
      <4> QED
        BY <1>1, <4>2, <4>3, AppendBehind DEF x
    <3>2. OutWith(Append(d, u)) = IF Waits(u) THEN {u} ELSE {}
      <4>1. Range(Append(d, u)) = Range(d) \cup {u}
        BY <2>9, AppendIsSequence
      <4> QED
        BY <2>3, <4>1 DEF OutWith
    <3> DEFINE y == Append(x, u)
               out == OutWith(Append(d, u))
    <3>3. y # << >> /\ y[Len(y)] = u
      BY <2>5, <3>1, OneMore
    <3>4. Blocks(y, out, z)
      <4> HIDE DEF y
      <4>1. CASE Waits(u)
        BY <2>3, <2>10, <3>2, <3>3, <4>1 DEF Blocks
      <4>2. CASE ~Waits(u)
        BY <2>3, <2>10, <3>2, <3>3, <4>2 DEF Blocks, Waits
      <4> QED
        BY <4>1, <4>2
    <3>5. ASSUME OwnLengths PROVE Configures(y, out, v)
      <4>1. out = {} => Suits(v, u.pid + 1)
        BY <2>10, <3>2, <3>5
      <4>2. trace[u.pid].kind = "vector" => Suits(u.cfg, u.pid)
        BY <2>10, <3>5
      <4> HIDE DEF out
      <4> QED
        BY <2>5, <2>7, <3>1, <3>5, <4>1, <4>2, OneMore
    <3> HIDE DEF y, out
    <3>6. sent \o r.insts = y /\ OutWith(r.insts) = out
      BY <2>10, <3>1 DEF y, out
    <3> QED
      BY <2>10, <3>4, <3>5, <3>6 DEF Settled
  <2>11. ASSUME b.num_uops_to_generate_ > 0,
                r = [queue |-> a, gen |-> AfterUop(b), config |-> c, waiting |-> w,
                     insts |-> Append(d, UopOf(b))]
         PROVE  Settled(r)
    <3> DEFINE u == UopOf(b)
               last == x[Len(x)]
    <3>1. /\ x # << >> /\ last.uop + 1 < UopsIn(trace, last)
          /\ b.current_inst_ = [uid |-> last.uid, pid |-> last.pid, cfg |-> last.cfg]
      <4>1. b # IdleGen
        BY <2>11 DEF IdleGen
      <4> QED
        BY <1>1, <4>1 DEF Ordered, GenRun
    <3>2. Len(x) \in Nat \ {0} /\ last \in SentUop /\ last.pid \in 1..Len(trace) /\ DoneOf(x) = last.pid
      BY <1>1, <3>1, LastSent DEF Ordered
    <3>3. trace[last.pid].kind = "vector"
      <4>1. last.uop \in Nat
        BY <3>2 DEF SentUop
      <4> QED
        BY <3>1, <4>1 DEF UopsIn
    <3>4. u.pid = last.pid /\ u.cfg = last.cfg
      BY <3>1 DEF UopOf
    <3>5. Len(x) \in 1..Len(x)
      BY <3>2
    <3> HIDE DEF u, last
    <3>6. ~Waits(u)
      BY <3>3, <3>4 DEF Waits, Kind
    <3>7. ASSUME OwnLengths PROVE Suits(u.cfg, u.pid) /\ Suits(c, u.pid + 1)
      BY <2>7, <2>8, <3>2, <3>3, <3>4, <3>5, <3>7 DEF last
    <3>8. r.insts = Append(d, u) /\ r.config = c /\ r.waiting = w
      BY <2>11 DEF u
    <3>9. w = Waits(u)
      BY <1>1, <1>4, <3>6 DEF Waits
    <3> QED
      BY <2>10, <3>6, <3>7, <3>8, <3>9
  <2>12. ASSUME a # << >>
         PROVE  Head(a).pid = DoneOf(x) + 1 /\ Head(a).pid \in 1..Len(trace)
    <3>1. q # << >> /\ q[1] = Head(a)
      <4>1. Head(q) = Head(a)
        BY <1>1, <2>12, TailConcat DEF q
      <4>2. Len(a) \in Nat \ {0}
        BY <1>1, <2>12, SeqFacts
      <4>3. q \in Seq(Inst) /\ Len(q) = Len(a) + Len(rest) /\ Len(rest) \in Nat
        BY <1>1, ConcatFacts, SeqFacts DEF q
      <4>4. q # << >>
        BY <4>2, <4>3, SeqFacts
      <4> QED
        BY <4>1, <4>3, <4>4
    <3>2. q[1].pid \in DOMAIN trace
      BY <1>1, <3>1, HeadInTrace
    <3>3. Len(q) \in Nat /\ Len(q) # 0 /\ 1 \in 1..Len(q)
      BY <1>1, <3>1, SeqFacts DEF Ordered, QueueRun
    <3>4. q[1].pid = DoneOf(x) + 1
      BY <1>1, <3>3 DEF Ordered, QueueRun
    <3> QED
      BY <2>4, <3>1, <3>2, <3>4
  <2>13. ASSUME a # << >>, Kind(Head(a)) = "vector"
         PROVE  LET h == SetInst([uid |-> Head(a).uid, pid |-> Head(a).pid, cfg |-> c],
                                 NumUops("ELEMENTWISE", 0, c))
                IN  r = [queue |-> Tail(a), gen |-> AfterUop(h), config |-> c, waiting |-> w,
                         insts |-> Append(d, UopOf(h))] => Settled(r)
    <3> DEFINE h == SetInst([uid |-> Head(a).uid, pid |-> Head(a).pid, cfg |-> c],
                            NumUops("ELEMENTWISE", 0, c))
               u == UopOf(h)
    <3>1. u.pid = Head(a).pid /\ u.cfg = c
      BY DEF UopOf, SetInst
    <3> SUFFICES ASSUME r = [queue |-> Tail(a), gen |-> AfterUop(h), config |-> c, waiting |-> w,
                             insts |-> Append(d, UopOf(h))]
                 PROVE  Settled(r)
      OBVIOUS
    <3>2. r.insts = Append(d, u) /\ r.config = c /\ r.waiting = w
      OBVIOUS
    <3> HIDE DEF u, h
    <3>3. u.pid \in 1..Len(trace) /\ u.pid = DoneOf(x) + 1 /\ trace[u.pid].kind = "vector"
      BY <2>12, <2>13, <3>1 DEF Kind
    <3>4. ~Waits(u) /\ w = Waits(u)
      BY <1>1, <1>4, <3>3 DEF Waits, Kind
    <3>5. ASSUME OwnLengths PROVE Suits(u.cfg, u.pid) /\ Suits(c, u.pid + 1)
      <4>1. Suits(u.cfg, u.pid)
        BY <2>8, <3>1, <3>3, <3>5
      <4>2. Suits(c, u.pid + 1)
        BY <3>1, <3>3, <3>5, <4>1, SuitsNext DEF Vsets
      <4> QED
        BY <4>1, <4>2
    <3> QED
      BY <2>10, <3>2, <3>4, <3>5
  <2>14. ASSUME a # << >>, Kind(Head(a)) # "vector",
                r = [queue |-> Tail(a), gen |-> b,
                     config |-> IF Kind(Head(a)) = "vset" THEN ConfigOf(Head(a)) ELSE c,
                     waiting |-> Waits(Head(a)),
                     insts |-> Append(d, [uid |-> Head(a).uid, pid |-> Head(a).pid,
                                          uop |-> 0, cfg |-> NoInst])]
         PROVE  Settled(r)
    <3> DEFINE u == [uid |-> Head(a).uid, pid |-> Head(a).pid, uop |-> 0, cfg |-> NoInst]
               v == IF Kind(Head(a)) = "vset" THEN ConfigOf(Head(a)) ELSE c
    <3>1. u.pid = Head(a).pid /\ r.insts = Append(d, u) /\ r.config = v /\ r.waiting = Waits(Head(a))
      BY <2>14
    <3>2. v = IF Kind(Head(a)) = "vset" THEN ConfigOf(Head(a)) ELSE c
      OBVIOUS
    <3> HIDE DEF u, v
    <3>3. /\ u.pid \in 1..Len(trace) /\ u.pid = DoneOf(x) + 1 /\ trace[u.pid].kind # "vector"
          /\ Waits(u) = Waits(Head(a)) /\ Kind(Head(a)) = trace[u.pid].kind
      BY <2>12, <2>14, <3>1 DEF Kind, Waits
    <3>4. ASSUME OwnLengths, ~Waits(u) PROVE Suits(v, u.pid + 1)
      <4>1. Suits(c, u.pid)
        BY <2>8, <3>3, <3>4
      <4>2. CASE trace[u.pid].kind = "vset"
        <5>1. v = ConfigOf(Head(a))
          BY <3>2, <3>3, <4>2
        <5>2. ConfigAt(u.pid + 1) = ConfigOf(Head(a))
          BY <3>1, <3>3, <3>4, <4>2, ConfigStep DEF Vsets
        <5> QED
          BY <5>1, <5>2 DEF Suits
      <4>3. CASE trace[u.pid].kind # "vset"
        <5>1. v = c /\ trace[u.pid].kind \notin Vsets
          BY <3>2, <3>3, <3>4, <4>3 DEF Vsets, Waits, Kind
        <5> QED
          BY <3>3, <3>4, <4>1, <5>1, SuitsNext
      <4> QED
        BY <4>2, <4>3
    <3> QED
      BY <2>10, <3>1, <3>3, <3>4
  <2> QED
    <3>1. r = s => Settled(r)
      OBVIOUS
    <3>2. Settled(r)
      BY <2>1, <2>11, <2>13, <2>14, <3>1 DEF Iterated
    <3> QED
      BY <3>2 DEF r
<1> QED
  BY <1>1, <1>3, <1>4

\* A session settles if it begins so.
LEMMA SessionSettles ==
    ASSUME Proper, OrderInv, StaleRuns, Settled(Loop0), NEW n \in Nat
    PROVE  Looped(Session(n), n, Between) /\ Settled(Session(n))
<1> DEFINE f == CHOOSE g : LoopIs(g, n)
           Good(k) == Looped(f[k], k, Between) /\ Settled(f[k])
           B == {k \in 0..n : ~Good(k)}
<1>0. trace \in Traces /\ sent \in Seq(SentUop) /\ Between \in Seq(Inst)
  BY QueuedParts DEF OrderInv, PartsInv, RunInv, Ordered, SentRun
<1>1. Session(n) = f[n]
  BY DEF Session, LoopIs
<1>2. LoopIs(f, n)
  BY LoopExists
<1> HIDE DEF f
<1>3. ASSUME NEW k \in 0..n PROVE f[k] = IF k = 0 THEN Loop0 ELSE DecodeOne(f[k - 1])
  BY <1>2, LoopAt
<1>4. B = {}
  <2> SUFFICES ASSUME B # {} PROVE FALSE
    OBVIOUS
  <2>1. B \in SUBSET Nat
    OBVIOUS
  <2>2. PICK m \in B : \A k \in B : m <= k
    BY <2>1, LeastNumber
  <2>3. 0 \in 0..n /\ f[0] = Loop0
    BY <1>3
  <2>4. m # 0
    BY <2>2, <2>3, LoopStarts
  <2>5. m - 1 \in Nat /\ m - 1 \in 0..n /\ (m - 1) + 1 = m /\ m \in 0..n /\ ~(m <= m - 1)
    BY <2>2, <2>4
  <2>6. Looped(f[m - 1], m - 1, Between) /\ Settled(f[m - 1])
    BY <2>2, <2>5
  <2>7. Looped(DecodeOne(f[m - 1]), (m - 1) + 1, Between)
    BY <1>0, <2>5, <2>6, LoopStep
  <2>8. Settled(DecodeOne(f[m - 1]))
    BY <1>0, <2>5, <2>6, SettledStep
  <2>9. f[m] = DecodeOne(f[m - 1])
    BY <1>3, <2>4, <2>5
  <2>10. Good(m)
    BY <2>5, <2>7, <2>8, <2>9
  <2> QED
    BY <2>2, <2>10
<1>5. n \in 0..n
  OBVIOUS
<1> QED
  BY <1>1, <1>4, <1>5

BlockInv == Blocks(sent, vsets_out, waiting_on_vset_)

ConfigInv == Configures(sent, vsets_out, vector_config_)

VsetInv == StaleRuns /\ BlockInv /\ (OwnLengths => ConfigInv)

\* The places in the program do not decrease.
LEMMA PidsGrow ==
    ASSUME NEW t, NEW snt, NEW nu, SentRun(t, snt, nu), NEW j \in 1..Len(snt), NEW k \in j..Len(snt)
    PROVE  snt[j].pid <= snt[k].pid
<1>1. /\ snt \in Seq(SentUop) /\ Len(snt) \in Nat
      /\ \A m \in 1..Len(snt) : snt[m] \in SentUop
      /\ \A m \in 1..Len(snt) - 1 : FollowsIn(t, snt[m], snt[m + 1])
  BY SeqFacts DEF SentRun
<1>2. \A m \in 1..Len(snt) : snt[m].pid \in Nat
  BY <1>1 DEF SentUop
<1> DEFINE B == {m \in j..Len(snt) : ~(snt[j].pid <= snt[m].pid)}
<1> SUFFICES ASSUME B # {} PROVE FALSE
  OBVIOUS
<1>3. B \in SUBSET Nat
  BY <1>1
<1>4. PICK m \in B : \A r \in B : m <= r
  BY <1>3, LeastNumber
<1>5. m # j
  BY <1>2, <1>4
<1>6. m - 1 \in j..Len(snt) /\ m - 1 \in 1..Len(snt) - 1 /\ (m - 1) + 1 = m /\ ~(m <= m - 1)
      /\ m \in 1..Len(snt) /\ m - 1 \in 1..Len(snt)
  BY <1>1, <1>4, <1>5
<1>7. snt[j].pid <= snt[m - 1].pid
  BY <1>4, <1>6
<1>8. FollowsIn(t, snt[m - 1], snt[m])
  BY <1>1, <1>6
<1>9. snt[m].pid = snt[m - 1].pid \/ snt[m].pid = snt[m - 1].pid + 1
  BY <1>8 DEF FollowsIn
<1>10. snt[j].pid \in Nat /\ snt[m].pid \in Nat /\ snt[m - 1].pid \in Nat
  BY <1>2, <1>6
<1>11. ~(snt[j].pid <= snt[m].pid)
  BY <1>4
<1> QED
  BY <1>7, <1>9, <1>10, <1>11

\* The program's configuration is a matter of the trace.
LEMMA SameConfigs == ASSUME UNCHANGED trace PROVE \A p : ConfigAt(p)' = ConfigAt(p)
  BY DEF ConfigAt, ProgramConfig, StepConfig

\* A vset is executed.
LEMMA VsetKeepsSettled == ASSUME OrderInv, VsetInv, VsetExecuted PROVE VsetInv'
<1>1. PICK i \in vsets_out : processVset(i) /\ vsets_out' = vsets_out \ {i}
  BY DEF VsetExecuted
<1>2. vector_config_' = ConfigOf(i) /\ waiting_on_vset_' = FALSE
  BY <1>1 DEF processVset
<1>3. UNCHANGED <<trace, sent, vset_dropped, stale>>
  BY DEF VsetExecuted, fetchVars, instGeneratorVars, undoVars
<1>4. sent # << >> /\ vsets_out = {sent[Len(sent)]} /\ i = sent[Len(sent)] /\ ~vset_dropped
  BY DEF VsetInv, BlockInv, Blocks
<1>5. vsets_out' = {}
  BY <1>1, <1>4
<1>6. BlockInv' /\ StaleRuns'
  BY <1>2, <1>3, <1>4, <1>5 DEF VsetInv, BlockInv, Blocks, StaleRuns
<1>7. ASSUME OwnLengths PROVE ConfigInv'
  <2>1. i.pid \in DOMAIN trace /\ Waits(i) /\ trace \in Traces
    BY DEF OrderInv, PartsInv
  <2>2. DOMAIN trace = 1..Len(trace) /\ trace[i.pid].kind \in Vsets
    BY <2>1, TraceAssumption, SeqFacts DEF Waits, Kind, Vsets
  <2>3. ConfigAt(i.pid + 1) = ConfigOf(i)
    BY <1>7, <2>1, <2>2, ConfigStep
  <2>4. DoneOf(sent) = i.pid
    BY <1>4 DEF DoneOf
  <2>5. \A p : ConfigAt(p)' = ConfigAt(p)
    BY <1>3, SameConfigs
  <2>6. ConfigInv
    BY <1>7 DEF VsetInv
  <2> QED
    BY <1>2, <1>3, <2>3, <2>4, <2>5, <2>6 DEF ConfigInv, Configures, Suits, DoneOf
<1> QED
  BY <1>6, <1>7 DEF VsetInv

\* Steps of the others.
LEMMA OthersKeepSettled ==
    ASSUME VsetInv,
           UNCHANGED <<trace, sent, vsets_out, waiting_on_vset_, vector_config_, vset_dropped, stale>>
    PROVE  VsetInv'
<1>1. BlockInv' /\ StaleRuns'
  BY DEF VsetInv, BlockInv, Blocks, StaleRuns
<1>2. \A p : ConfigAt(p)' = ConfigAt(p)
  BY SameConfigs
<1>3. ConfigInv => ConfigInv'
  BY <1>2 DEF ConfigInv, Configures, Suits, DoneOf
<1> QED
  BY <1>1, <1>3 DEF VsetInv

\* A session.
LEMMA DecodeKeepsSettled == ASSUME Proper, OrderInv, VsetInv, DecodeSession PROVE VsetInv'
<1> DEFINE n == NumThisCycle
           s == Session(n)
<1>1. /\ sent' = sent \o s.insts /\ vector_config_' = s.config /\ waiting_on_vset_' = s.waiting
      /\ vsets_out' = vsets_out \cup {s.insts[k] : k \in {m \in DOMAIN s.insts : Waits(s.insts[m])}}
      /\ UNCHANGED <<trace, vset_dropped, stale>>
  BY DEF DecodeSession, decodeInsts, receiveFetchQueueCredits, instGeneratorVars, undoVars
<1>2. n \in Nat /\ StaleRuns
  BY DecodeAssumption DEF NumThisCycle, OrderInv, PartsInv, VsetInv
<1>3. sent \in Seq(SentUop) /\ sent \o << >> = sent /\ Range(<< >>) = {}
  <2>1. sent \in Seq(SentUop)
    BY DEF OrderInv, RunInv, Ordered, SentRun
  <2>2. sent \o << >> = sent
    BY <2>1, EmptyNeutral, Zenon DEF Neutral
  <2> QED
    BY <2>1, <2>2, EmptyIsSequence
<1> HIDE DEF n
<1>4. Looped(s, n, Between) /\ Settled(s)
  <2>1. Loop0.insts = << >> /\ Loop0.waiting = waiting_on_vset_ /\ Loop0.config = vector_config_
    BY DEF Loop0
  <2>2. OutWith(<< >>) = vsets_out
    BY <1>3 DEF OutWith
  <2>3. Settled(Loop0)
    BY <1>3, <2>1, <2>2 DEF Settled, VsetInv, BlockInv, ConfigInv
  <2> QED
    BY <1>2, <2>3, SessionSettles
<1> HIDE DEF s
<1>5. vsets_out' = OutWith(s.insts)
  BY <1>1 DEF OutWith, Range
<1>6. BlockInv' /\ StaleRuns'
  BY <1>1, <1>2, <1>4, <1>5 DEF BlockInv, Settled, Blocks, StaleRuns
<1>7. ASSUME OwnLengths PROVE ConfigInv'
  <2> DEFINE y == sent \o s.insts
             out == OutWith(s.insts)
  <2>1. Configures(y, out, s.config)
    BY <1>4, <1>7 DEF Settled
  <2>2. \A p : ConfigAt(p)' = ConfigAt(p)
    BY <1>1, SameConfigs
  <2>3. sent' = y /\ vsets_out' = out
    BY <1>1, <1>5
  <2> HIDE DEF y, out
  <2> QED
    BY <1>1, <2>1, <2>2, <2>3 DEF ConfigInv, Configures, Suits, DoneOf
<1> QED
  BY <1>6, <1>7 DEF VsetInv

\* Every place of the program up to the last uop has one.
LEMMA PidsCovered ==
    ASSUME NEW t, NEW snt, NEW nu, SentRun(t, snt, nu), NEW k \in 1..Len(snt),
           NEW q \in Nat, snt[k].pid < q, q <= snt[Len(snt)].pid
    PROVE  \E m \in 1..Len(snt) : k < m /\ snt[m].pid = q
<1>1. /\ snt \in Seq(SentUop) /\ Len(snt) \in Nat
      /\ \A m \in 1..Len(snt) : snt[m] \in SentUop
      /\ \A m \in 1..Len(snt) - 1 : FollowsIn(t, snt[m], snt[m + 1])
  BY SeqFacts DEF SentRun
<1>2. \A m \in 1..Len(snt) : snt[m].pid \in Nat
  BY <1>1 DEF SentUop
<1> DEFINE B == {m \in k..Len(snt) : q <= snt[m].pid}
<1>3. B \in SUBSET Nat /\ Len(snt) \in B
  BY <1>1
<1>4. PICK m \in B : \A r \in B : m <= r
  BY <1>3, LeastNumber
<1>5. m # k
  BY <1>2, <1>4
<1>6. m - 1 \in k..Len(snt) /\ m - 1 \in 1..Len(snt) - 1 /\ (m - 1) + 1 = m /\ ~(m <= m - 1)
      /\ m \in 1..Len(snt) /\ m - 1 \in 1..Len(snt) /\ k < m
  BY <1>1, <1>4, <1>5
<1>7. ~(q <= snt[m - 1].pid)
  BY <1>4, <1>6
<1>8. FollowsIn(t, snt[m - 1], snt[m])
  BY <1>1, <1>6
<1>9. snt[m].pid = snt[m - 1].pid \/ snt[m].pid = snt[m - 1].pid + 1
  BY <1>8 DEF FollowsIn
<1>10. snt[m].pid \in Nat /\ snt[m - 1].pid \in Nat /\ q <= snt[m].pid
  BY <1>2, <1>4, <1>6
<1>11. snt[m].pid = q
  BY <1>7, <1>9, <1>10
<1> QED
  BY <1>6, <1>11

\* A flush at place b that undoes the vsets V leaves a closed set of places.
LEMMA StaleCloses ==
    ASSUME StaleRuns, NEW i, i.pid \in 1..Len(trace), Len(trace) \in Nat, trace[i.pid].kind \notin Vsets,
           NEW V, V \subseteq 1..Len(trace), \A r \in V : trace[r].kind \in Vsets
    PROVE  LET S == StaleAfter(i, V)
           IN  /\ S \subseteq 1..Len(trace)
               /\ \A p \in S : trace[p].kind \notin Vsets => p + 1 \in S
<1> DEFINE b == i.pid
           S == StaleAfter(i, V)
           New == {p \in b..Len(trace) : /\ \E r \in stale \cup V : p <= r
                                         /\ \A q \in b..p - 1 : ~IsVset(q)}
<1>1. S = {p \in stale : p < b} \cup New
  BY DEF StaleAfter
<1>2. stale \subseteq 1..Len(trace) /\ \A p \in stale : trace[p].kind \notin Vsets => p + 1 \in stale
  BY DEF StaleRuns
<1>3. S \subseteq 1..Len(trace)
  <2>1. New \subseteq b..Len(trace)
    OBVIOUS
  <2>2. b..Len(trace) \subseteq 1..Len(trace)
    OBVIOUS
  <2> HIDE DEF New, S, b
  <2> QED
    BY <1>1, <1>2, <2>1, <2>2
<1>4. ASSUME NEW p \in New, trace[p].kind \notin Vsets PROVE p + 1 \in New
  <2>1. PICK r \in stale \cup V : p <= r
    BY <1>4
  <2>2. p \in 1..Len(trace) /\ b <= p /\ r \in 1..Len(trace)
    BY <1>2, <1>4, <2>1
  <2>3. \E x \in stale \cup V : p + 1 <= x
    <3>1. CASE p < r
      BY <2>1, <2>2, <3>1
    <3>2. CASE p = r
      <4>1. r \notin V
        BY <1>4, <3>2
      <4>2. r + 1 \in stale
        BY <1>2, <1>4, <2>1, <3>2, <4>1
      <4> QED
        BY <2>2, <3>2, <4>2
    <3> QED
      BY <2>1, <2>2, <3>1, <3>2
  <2>4. p + 1 <= Len(trace)
    BY <1>2, <2>2, <2>3
  <2>5. ASSUME NEW q \in b..(p + 1) - 1 PROVE ~IsVset(q)
    <3>1. q \in b..p - 1 \/ q = p
      BY <2>2
    <3>2. ~IsVset(p)
      BY <1>4 DEF IsVset, Vsets
    <3> QED
      BY <1>4, <3>1, <3>2
  <2> QED
    BY <2>2, <2>3, <2>4, <2>5
<1>5. ASSUME NEW p \in stale, p < b, trace[p].kind \notin Vsets PROVE p + 1 \in S
  <2>1. p + 1 \in stale /\ p \in 1..Len(trace)
    BY <1>2, <1>5
  <2>2. CASE p + 1 < b
    BY <1>1, <2>1, <2>2
  <2>3. CASE p + 1 = b
    <3>1. b \in New
      BY <2>1, <2>3
    <3> QED
      BY <1>1, <2>3, <3>1
  <2> QED
    BY <1>5, <2>1, <2>2, <2>3
<1> HIDE DEF New
<1>6. \A p \in S : trace[p].kind \notin Vsets => p + 1 \in S
  BY <1>1, <1>4, <1>5
<1> QED
  BY <1>3, <1>6

\* A flush takes the vset that is out, if one is; it leaves a beginning of the program, and
\* Decode goes on under the configuration of the next instruction or at a place that meets
\* one of its future.
LEMMA FlushKeepsSettled == ASSUME OrderInv, VsetInv, Flush PROVE VsetInv'
<1>0. PartsInv /\ RunInv
  BY DEF OrderInv
<1>1. PICK k \in DOMAIN sent, inclusive \in BOOLEAN :
         /\ Kind(sent[k]) = "branch"
         /\ flushFetch(sent[k], inclusive, CreditsOfFlush)
         /\ handleFlush({j \in {gen.current_inst_} \ {NoInst} : includedInFlush(sent[k], j, inclusive)})
         /\ sent' = ElementsAt(sent, {m \in DOMAIN sent : ~includedInFlush(sent[k], sent[m], inclusive)})
         /\ vsets_out' = {j \in vsets_out : ~includedInFlush(sent[k], j, inclusive)}
         /\ stale' = StaleAfter(sent[k], {sent[m].pid : m \in {n \in {j \in DOMAIN sent :
                includedInFlush(sent[k], sent[j], inclusive)} : IsVset(sent[n].pid)}})
  BY Zenon DEF Flush
<1> DEFINE p == LastLeft(k, inclusive)
           np == ResetTo(sent[k], ~inclusive)
           r == SubSeq(sent, 1, p)
           lost == {n \in {j \in DOMAIN sent : includedInFlush(sent[k], sent[j], inclusive)} :
                       IsVset(sent[n].pid)}
           V == {sent[m].pid : m \in lost}
<1>2. UNCHANGED <<trace, vector_config_, waiting_on_vset_>>
  BY <1>1 DEF flushFetch, reset, handleFlush
<1>3. /\ SentRun(trace, sent, next_uid) /\ next_uid \in Nat /\ Len(trace) \in Nat
      /\ trace \in Traces /\ sent \in Seq(SentUop) /\ DOMAIN trace = 1..Len(trace)
  BY <1>0, TraceAssumption, SeqFacts DEF RunInv, Ordered, QueueRun, SentRun, PartsInv
<1>4. /\ k \in 1..Len(sent) /\ Len(sent) \in Nat /\ trace[sent[k].pid].kind = "branch"
      /\ sent # << >> /\ DOMAIN sent = 1..Len(sent)
  BY <1>1, <1>3, SeqFacts DEF Kind
<1>5. p \in 0..Len(sent) /\ p <= k
  BY <1>4 DEF LastLeft
<1>6. {m \in DOMAIN sent : ~includedInFlush(sent[k], sent[m], inclusive)} = 1..p
  BY <1>1, <1>3, <1>4, FlushTakes
<1>7. sent' = r
  <2> HIDE DEF p
  <2>1. ElementsAt(sent, 1..p) = SubSeq(sent, 1, p)
    BY <1>3, <1>5, FirstElements
  <2> QED
    BY <1>1, <1>6, <2>1
<1>8. Ordered(trace, r, << >>, IdleGen, np, next_uid)
  BY <1>1, <1>3, <1>4, FlushRun
<1> DEFINE b == sent[k].pid
           e == sent[Len(sent)].pid
<1>9. /\ b \in 1..Len(trace) /\ e \in 1..Len(trace) /\ b <= e /\ DoneOf(sent) = e
  <2>1. \A m \in 1..Len(sent) : sent[m].pid \in 1..Len(trace)
    BY <1>3 DEF SentRun
  <2>2. Len(sent) \in 1..Len(sent) /\ Len(sent) \in k..Len(sent)
    BY <1>4
  <2>3. sent[k].pid <= sent[Len(sent)].pid
    BY <1>3, <1>4, <2>2, PidsGrow
  <2> QED
    BY <1>4, <2>1, <2>2, <2>3 DEF DoneOf
<1>10. DoneOf(r) + 1 = np /\ (np = b \/ np = b + 1)
  <2>1. np = DoneOf(r) + Len(<< >>) + 1 /\ Len(<< >>) = 0 /\ DoneOf(r) \in Nat
    BY <1>8, DoneFacts DEF Ordered, QueueRun
  <2>2. np = b \/ np = b + 1
    BY DEF ResetTo
  <2> QED
    BY <2>1, <2>2
<1>11. /\ V \subseteq 1..Len(trace) /\ \A q \in V : trace[q].kind \in Vsets
       /\ \A m \in 1..Len(sent) : k < m /\ trace[sent[m].pid].kind \in Vsets => sent[m].pid \in V
  <2>1. \A m \in 1..Len(sent) : sent[m].pid \in 1..Len(trace)
    BY <1>3 DEF SentRun
  <2>2. ASSUME NEW m \in 1..Len(sent), k < m, trace[sent[m].pid].kind \in Vsets PROVE m \in lost
    <3>1. m \notin 1..p
      BY <1>4, <1>5, <2>2
    <3>2. includedInFlush(sent[k], sent[m], inclusive)
      BY <1>4, <1>6, <3>1
    <3> QED
      BY <1>4, <2>2, <3>2 DEF IsVset, Vsets
  <2> QED
    BY <1>4, <2>1, <2>2 DEF IsVset, Vsets
<1>12. trace[b].kind = "branch" /\ trace[b].kind \notin Vsets
  BY <1>4 DEF Vsets
<1>13. stale' = StaleAfter(sent[k], V) /\ StaleRuns
  BY <1>1 DEF VsetInv
<1> HIDE DEF V
<1>14. StaleRuns'
  <2>1. LET S == StaleAfter(sent[k], V)
        IN  /\ S \subseteq 1..Len(trace)
            /\ \A q \in S : trace[q].kind \notin Vsets => q + 1 \in S
    BY <1>3, <1>9, <1>11, <1>12, <1>13, StaleCloses
  <2> QED
    BY <1>2, <1>13, <2>1 DEF StaleRuns
<1>15. vset_dropped' = (vset_dropped \/ vsets_out' # vsets_out)
  BY DEF Flush
<1>16. vsets_out # {} => e \in V /\ b < e /\ vsets_out' = {} /\ ~vset_dropped
  <2> SUFFICES ASSUME vsets_out # {} PROVE e \in V /\ b < e /\ vsets_out' = {} /\ ~vset_dropped
    OBVIOUS
  <2>1. vsets_out = {sent[Len(sent)]} /\ ~vset_dropped
    BY DEF VsetInv, BlockInv, Blocks
  <2>2. trace[e].kind = "vset_reg"
    BY <1>0, <2>1 DEF PartsInv, Waits, Kind
  <2>3. b # e /\ k # Len(sent)
    BY <1>12, <2>2 DEF Vsets
  <2>4. Len(sent) \in 1..Len(sent) /\ k < Len(sent) /\ Len(sent) \notin 1..p
    BY <1>4, <1>5, <2>3
  <2>5. includedInFlush(sent[k], sent[Len(sent)], inclusive)
    BY <1>4, <1>6, <2>4
  <2>6. e \in V
    BY <1>11, <2>2, <2>4 DEF Vsets
  <2>7. b < e
    BY <1>9, <2>3
  <2> QED
    BY <1>1, <2>1, <2>5, <2>6, <2>7
<1>17. BlockInv'
  <2>1. waiting_on_vset_ = (vsets_out # {} \/ vset_dropped)
    BY DEF VsetInv, BlockInv, Blocks
  <2>2. vsets_out' = {}
    BY <1>1, <1>16
  <2>3. vset_dropped' = (vset_dropped \/ vsets_out # {})
    BY <1>15, <2>2
  <2> QED
    BY <1>2, <2>1, <2>2, <2>3 DEF BlockInv, Blocks
<1> HIDE DEF p, np, r, b, e
<1>18. ASSUME OwnLengths PROVE ConfigInv'
  <2>0. ConfigInv
    BY <1>18 DEF VsetInv
  <2>1. \A q : ConfigAt(q)' = ConfigAt(q)
    BY <1>2, SameConfigs
  <2>2. ASSUME np \notin stale' PROVE vector_config_ = ConfigAt(np)
    <3>1. \A x \in stale \cup V : ~(np <= x)
      <4> SUFFICES ASSUME NEW x \in stale \cup V, np <= x PROVE FALSE
        OBVIOUS
      <4>1. x \in 1..Len(trace) /\ np \in b..Len(trace)
        BY <1>3, <1>9, <1>10, <1>11, <1>13 DEF StaleRuns
      <4>2. \A q \in b..np - 1 : ~IsVset(q)
        <5> SUFFICES ASSUME NEW q \in b..np - 1 PROVE ~IsVset(q)
          OBVIOUS
        <5>1. q = b
          BY <1>9, <1>10
        <5> QED
          BY <1>12, <5>1 DEF IsVset, Vsets
      <4>3. np \in StaleAfter(sent[k], V)
        BY <4>1, <4>2 DEF StaleAfter, b
      <4> QED
        BY <1>13, <2>2, <4>3
    <3>2. vsets_out = {}
      BY <1>9, <1>10, <1>16, <3>1
    <3>3. Suits(vector_config_, e + 1)
      BY <1>9, <2>0, <3>2 DEF ConfigInv, Configures
    <3>4. vector_config_ = ConfigAt(e + 1)
      BY <1>9, <1>10, <3>1, <3>3 DEF Suits
    <3>5. np \in Nat \ {0} /\ e + 1 \in np..Len(trace) + 1
      BY <1>3, <1>9, <1>10
    <3>6. ASSUME NEW q \in np..(e + 1) - 1 PROVE trace[q].kind \notin Vsets
      <4>1. q \in Nat /\ (q = b \/ b < q) /\ q <= e /\ np <= q
        BY <1>3, <1>9, <1>10
      <4>2. CASE q = b
        BY <1>12, <4>2
      <4>3. CASE b < q
        <5>1. PICK m \in 1..Len(sent) : k < m /\ sent[m].pid = q
          BY <1>3, <1>4, <4>1, <4>3, PidsCovered DEF b, e
        <5>2. q \notin V
          BY <3>1, <4>1
        <5> QED
          BY <1>11, <5>1, <5>2
      <4> QED
        BY <4>1, <4>2, <4>3
    <3>7. ConfigAt(e + 1) = ConfigAt(np)
      BY <1>3, <1>18, <3>5, <3>6, ConfigKept
    <3> QED
      BY <3>4, <3>7
  <2>3. vector_config_' = ConfigAt(np) \/ np \in stale'
    BY <1>2, <2>2
  <2>4. Len(r) = p /\ \A m \in 1..p : r[m] = sent[m] /\ m \in 1..Len(sent)
    BY <1>3, <1>4, <1>5, CutInTwo DEF r
  <2>5. ASSUME NEW m \in 1..Len(r), trace[r[m].pid].kind = "vector"
        PROVE  r[m].cfg = ConfigAt(r[m].pid) \/ r[m].pid \in stale'
    <3>1. r[m] = sent[m] /\ m \in 1..Len(sent) /\ m <= k
      BY <1>4, <1>5, <2>4
    <3>2. Suits(sent[m].cfg, sent[m].pid)
      BY <2>0, <2>5, <3>1 DEF ConfigInv, Configures
    <3>3. sent[m].pid <= b
      BY <1>3, <1>4, <3>1, PidsGrow DEF b
    <3>4. sent[m].pid # b
      BY <1>12, <2>5, <3>1
    <3>5. sent[m].pid \in 1..Len(trace)
      BY <1>3, <3>1 DEF SentRun
    <3>6. sent[m].pid < b
      BY <1>3, <1>9, <3>3, <3>4, <3>5
    <3>7. sent[m].pid \in stale => sent[m].pid \in stale'
      BY <1>13, <3>6 DEF StaleAfter, b
    <3> QED
      BY <3>1, <3>2, <3>7 DEF Suits
  <2> QED
    BY <1>2, <1>7, <1>10, <2>1, <2>3, <2>5 DEF ConfigInv, Configures, Suits, DoneOf
<1> QED
  BY <1>14, <1>17, <1>18 DEF VsetInv

\* It holds at first.
LEMMA InitSettled == StartsFree /\ Init => VsetInv
<1> SUFFICES ASSUME StartsFree, Init PROVE VsetInv
  OBVIOUS
<1>1. /\ sent = << >> /\ vsets_out = {} /\ waiting_on_vset_ = FALSE /\ vector_config_ = InitConfig
      /\ vset_dropped = FALSE /\ stale = {}
  BY DEF Init, DecodeInit, StartsFree
<1>2. DoneOf(sent) + 1 = 1 /\ 1..Len(sent) = {}
  BY <1>1 DEF DoneOf
<1>3. ConfigAt(1) = InitConfig
  BY DEF ConfigAt
<1> QED
  BY <1>1, <1>2, <1>3 DEF VsetInv, BlockInv, Blocks, ConfigInv, Configures, Suits, StaleRuns

\* Every step keeps it.
LEMMA NextSettled == Proper /\ OrderInv /\ VsetInv /\ [Next]_vars => VsetInv'
<1> SUFFICES ASSUME Proper, OrderInv, VsetInv, [Next]_vars PROVE VsetInv'
  OBVIOUS
<1>1. CASE DeliverToICache \/ DeliverToDecode \/ L2Fills \/ L2ReturnsCredit \/ RenameReturnsCredits
             \/ DecodeGathers \/ UNCHANGED vars
  <2>1. UNCHANGED <<trace, sent, vsets_out, waiting_on_vset_, vector_config_, vset_dropped, stale>>
    BY <1>1 DEF DeliverToICache, DeliverToDecode, L2Fills, L2ReturnsCredit, RenameReturnsCredits,
                DecodeGathers, vars, fetchVars, instGeneratorVars, decodeVars, decodeState, contractVars, undoVars,
                fetchBufferAppended, receiveUopQueueCredits, decodeGathers
  <2> QED
    BY <2>1, OthersKeepSettled
<1>2. CASE ICacheArbitrates \/ ICacheRequestsLine \/ ICacheResponds \/ FetchTakesResponse \/ FetchEvent
             \/ nextPhase
  <2>1. UNCHANGED <<sent, vsets_out, waiting_on_vset_, vector_config_, vset_dropped, stale>>
    BY <1>2 DEF ICacheArbitrates, ICacheRequestsLine, ICacheResponds, FetchTakesResponse, FetchEvent,
                nextPhase, decodeVars, decodeState, contractVars, undoVars
  <2>2. UNCHANGED trace
    <3>1. CASE ICacheArbitrates \/ ICacheRequestsLine \/ ICacheResponds \/ nextPhase
      BY <3>1 DEF ICacheArbitrates, ICacheRequestsLine, ICacheResponds, nextPhase, fetchVars,
                  instGeneratorVars, receiveCacheCredit
    <3>2. CASE FetchTakesResponse \/ FetchEvent
      BY <3>2 DEF FetchTakesResponse, FetchEvent, receiveCacheResponse, fetchInstruction, getNextInsts,
                  sendInstructions, instGeneratorVars
    <3> QED
      BY <1>2, <3>1, <3>2
  <2> QED
    BY <2>1, <2>2, OthersKeepSettled
<1>3. CASE VsetExecuted
  BY <1>3, VsetKeepsSettled
<1>4. CASE DecodeSession
  BY <1>4, DecodeKeepsSettled
<1>5. CASE Flush
  BY <1>5, FlushKeepsSettled
<1> QED
  BY <1>1, <1>2, <1>3, <1>4, <1>5 DEF Next, Handlers

\* The invariant of the vsets.
THEOREM VsetInvariant == ASSUME Proper, StartsFree PROVE Spec => []VsetInv
<1>1. Init => VsetInv
  BY InitSettled
<1>2. OrderInv /\ VsetInv /\ [Next]_vars => VsetInv'
  BY NextSettled
<1>3. Spec => []OrderInv
  BY OrderInvariant
<1> QED
  BY <1>1, <1>2, <1>3, PTL DEF Spec

\* Nothing younger than a vset whose result Decode needs leaves Decode before it is
\* executed, and Decode waits for no other reason than that vset, be it out or taken by a
\* flush, in every program (Decode.cpp, decodeInsts_, processVset_ and handleFlush_).
THEOREM VsetsBlock == ASSUME Proper, StartsFree PROVE Spec => []VsetBlocks
<1>1. Spec => []VsetInv
  BY VsetInvariant
<1>2. VsetInv => VsetBlocks
  BY DEF VsetInv, BlockInv, Blocks, VsetBlocks, Last
<1> QED
  BY <1>1, <1>2, PTL

\* Every vector uop has the configuration of the last vset before it in the program,
\* wherever its vsets and branches are and whatever is flushed, unless a flush has brought
\* it back from behind a vset (Decode.cpp, updateVectorConfig_ and handleFlush_).
THEOREM ConfigsAreExact ==
    ASSUME Proper, OwnLengths, StartsFree
    PROVE  Spec => []ConfigExact
<1>2. Spec => []VsetInv
  BY VsetInvariant
<1>3. Spec => []OrderInv
  BY OrderInvariant
<1>4. OrderInv /\ VsetInv => ConfigExact
  <2> SUFFICES ASSUME OrderInv, VsetInv, NEW k \in DOMAIN sent, Kind(sent[k]) = "vector",
                        sent[k].pid \notin stale
               PROVE  sent[k].cfg = ProgramConfig[sent[k].pid]
    BY DEF ConfigExact
  <2>1. /\ SentRun(trace, sent, next_uid) /\ Len(trace) \in Nat /\ sent \in Seq(SentUop)
    BY DEF OrderInv, RunInv, Ordered, QueueRun, SentRun
  <2>2. k \in 1..Len(sent)
    BY <2>1, SeqFacts
  <2>3. sent[k].pid \in 1..Len(trace)
    BY <2>1, <2>2 DEF SentRun
  <2>4. sent[k].cfg = ConfigAt(sent[k].pid)
    BY <2>2 DEF VsetInv, ConfigInv, Configures, Suits, Kind
  <2> QED
    BY <2>1, <2>3, <2>4, ConfigIs
<1> QED
  BY <1>2, <1>3, <1>4, PTL
=============================================================================
