------------------------- MODULE MemorySystemProofs -------------------------
(***************************************************************************)
(* MemorySystem keeps IInv, for every size of its queues, latency and set  *)
(* of lines: QueuesBounded, RequestsExact and ImplementsService follow.    *)
(***************************************************************************)
EXTENDS MemorySystem, SequenceFacts

-----------------------------------------------------------------------------
(* Counting places.                                                        *)

Bit(p) == IF p THEN 1 ELSE 0

\* The places of a queue are finitely many.
LEMMA CountIsNat ==
    ASSUME NEW S, NEW s \in Seq(S), NEW T
    PROVE  /\ IsFiniteSet({k \in DOMAIN s : s[k] \in T})
           /\ Count(s, T) \in Nat
           /\ Count(s, T) = 0 <=> \A k \in DOMAIN s : s[k] \notin T
<1> DEFINE A == {k \in DOMAIN s : s[k] \in T}
<1>1. DOMAIN s = 1..Len(s) /\ Len(s) \in Nat
  BY LenProperties
<1>2. IsFiniteSet(DOMAIN s)
  BY <1>1, FS_Interval
<1>3. A \in SUBSET DOMAIN s
  OBVIOUS
<1>4. IsFiniteSet(A)
  BY <1>2, <1>3, FS_Subset
<1>5. Cardinality(A) \in Nat
  BY <1>4, FS_CardinalityType
<1>6. Cardinality(A) = 0 <=> A = {}
  BY <1>4, FS_EmptySet
<1> QED
  BY <1>4, <1>5, <1>6 DEF Count

\* An empty queue holds nothing.
LEMMA CountEmpty == \A T : Count(<< >>, T) = 0
<1> SUFFICES ASSUME NEW T PROVE Count(<< >>, T) = 0
  OBVIOUS
<1>1. << >> \in Seq({}) /\ DOMAIN << >> = {}
  OBVIOUS
<1> QED
  BY <1>1, CountIsNat

\* A queue that gains an element.
LEMMA CountAppend ==
    ASSUME NEW S, NEW s \in Seq(S), NEW e \in S, NEW T
    PROVE  Count(Append(s, e), T) = Count(s, T) + Bit(e \in T)
<1> DEFINE A == {k \in DOMAIN s : s[k] \in T}
           t == Append(s, e)
           B == {k \in DOMAIN t : t[k] \in T}
           n == Len(s) + 1
<1>1. /\ Len(s) \in Nat /\ DOMAIN s = 1..Len(s) /\ DOMAIN t = 1..n
      /\ \A k \in 1..Len(s) : t[k] = s[k]
      /\ t[n] = e
  BY AppendFacts
<1>2. IsFiniteSet(A) /\ n \notin A
  <2>1. IsFiniteSet(A)
    BY CountIsNat
  <2>2. n \notin 1..Len(s)
    BY <1>1
  <2> QED
    BY <1>1, <2>1, <2>2
<1>3. B = IF e \in T THEN A \cup {n} ELSE A
  <2> HIDE DEF t
  <2>1. \A k : k \in 1..n <=> k \in 1..Len(s) \/ k = n
    BY <1>1
  <2> HIDE DEF n
  <2> QED
    BY <1>1, <2>1
<1>4. Cardinality(A \cup {n}) = Cardinality(A) + 1
  BY <1>2, FS_AddElement
<1>5. Cardinality(A) \in Nat
  BY <1>2, FS_CardinalityType
<1>6. Count(Append(s, e), T) = Cardinality(B) /\ Count(s, T) = Cardinality(A)
  BY DEF Count
<1> HIDE DEF A, B, n, t
<1>7. CASE e \in T
  <2>1. Cardinality(B) = Cardinality(A \cup {n})
    BY <1>3, <1>7
  <2> QED
    BY <1>4, <1>5, <1>6, <1>7, <2>1 DEF Bit
<1>8. CASE e \notin T
  <2>1. Cardinality(B) = Cardinality(A)
    BY <1>3, <1>8
  <2> QED
    BY <1>5, <1>6, <1>8, <2>1 DEF Bit
<1> QED
  BY <1>7, <1>8

\* A queue that loses the element at place i.
LEMMA CountDrop ==
    ASSUME NEW S, NEW s \in Seq(S), NEW t \in Seq(S), NEW T, NEW i \in 1..Len(s),
           Len(t) = Len(s) - 1,
           \A k \in 1..Len(t) : t[k] = IF k < i THEN s[k] ELSE s[k + 1]
    PROVE  Count(t, T) = Count(s, T) - Bit(s[i] \in T)
<1> DEFINE A == {k \in DOMAIN s : s[k] \in T}
           B == {k \in DOMAIN t : t[k] \in T}
           f == [k \in A \ {i} |-> IF k < i THEN k ELSE k - 1]
<1>1. /\ Len(s) \in Nat /\ DOMAIN s = 1..Len(s) /\ DOMAIN t = 1..Len(s) - 1
  BY LenProperties
<1>2. IsFiniteSet(A) /\ IsFiniteSet(A \ {i}) /\ Cardinality(A) \in Nat
      /\ Cardinality(A \ {i}) = IF i \in A THEN Cardinality(A) - 1 ELSE Cardinality(A)
  <2>1. IsFiniteSet(A)
    BY CountIsNat
  <2> QED
    BY <2>1, FS_RemoveElement, FS_CardinalityType
<1>3. f \in [A \ {i} -> B]
  <2> SUFFICES ASSUME NEW k \in A \ {i}
               PROVE  (IF k < i THEN k ELSE k - 1) \in B
    OBVIOUS
  <2>1. CASE k < i
    <3>1. k \in 1..Len(t) /\ t[k] = s[k]
      BY <1>1, <2>1
    <3> QED
      BY <1>1, <2>1, <3>1
  <2>2. CASE ~(k < i)
    <3>1. k - 1 \in 1..Len(t) /\ ~(k - 1 < i) /\ (k - 1) + 1 = k
      BY <1>1, <2>2
    <3>2. t[k - 1] = s[k]
      BY <3>1
    <3> QED
      BY <1>1, <2>2, <3>1, <3>2
  <2> QED
    BY <2>1, <2>2
<1>4. \A x, y \in A \ {i} : f[x] = f[y] => x = y
  BY <1>1
<1>5. \A b \in B : \E a \in A \ {i} : f[a] = b
  <2> SUFFICES ASSUME NEW b \in B PROVE \E a \in A \ {i} : f[a] = b
    OBVIOUS
  <2>1. b \in 1..Len(t) /\ t[b] \in T /\ b \in 1..Len(s) /\ b + 1 \in 1..Len(s)
    BY <1>1
  <2>2. CASE b < i
    <3>1. b \in A \ {i}
      BY <1>1, <2>1, <2>2
    <3> QED
      BY <2>2, <3>1
  <2>3. CASE ~(b < i)
    <3>1. b + 1 \in A \ {i}
      BY <1>1, <2>1, <2>3
    <3>2. ~(b + 1 < i) /\ (b + 1) - 1 = b
      BY <2>1, <2>3
    <3>3. f[b + 1] = b
      BY <3>1, <3>2
    <3> QED
      BY <3>1, <3>3
  <2> QED
    BY <2>2, <2>3
<1>6. Count(t, T) = Cardinality(B) /\ Count(s, T) = Cardinality(A)
  BY DEF Count
<1>7. i \in A <=> s[i] \in T
  BY <1>1
<1> HIDE DEF A, B, f
<1>8. Cardinality(B) = Cardinality(A \ {i})
  BY <1>2, <1>3, <1>4, <1>5, SameSize, ZenonT(30)
<1>9. CASE s[i] \in T
  BY <1>2, <1>6, <1>7, <1>8, <1>9 DEF Bit
<1>10. CASE s[i] \notin T
  BY <1>2, <1>6, <1>7, <1>8, <1>10 DEF Bit
<1> QED
  BY <1>9, <1>10

\* A queue that loses its head.
LEMMA CountTail ==
    ASSUME NEW S, NEW s \in Seq(S), s # << >>, NEW T
    PROVE  Count(Tail(s), T) = Count(s, T) - Bit(Head(s) \in T)
<1>1. /\ Len(s) \in Nat \ {0} /\ Head(s) = s[1] /\ Tail(s) \in Seq(S)
      /\ Len(Tail(s)) = Len(s) - 1
      /\ \A k \in 1..(Len(s) - 1) : Tail(s)[k] = s[k + 1]
  BY TailFacts
<1> DEFINE t == Tail(s)
<1>2. /\ t \in Seq(S) /\ Len(t) = Len(s) - 1 /\ 1 \in 1..Len(s)
      /\ \A k \in 1..Len(t) : t[k] = IF k < 1 THEN s[k] ELSE s[k + 1]
  BY <1>1
<1> HIDE DEF t
<1>3. Count(t, T) = Count(s, T) - Bit(s[1] \in T)
  BY <1>2, CountDrop
<1> QED
  BY <1>1, <1>3 DEF t

\* The head of a queue counts.
LEMMA CountHead ==
    ASSUME NEW S, NEW s \in Seq(S), s # << >>, NEW T, Head(s) \in T
    PROVE  Count(s, T) \in Nat \ {0}
<1>1. 1 \in DOMAIN s /\ s[1] \in T
  BY TailFacts
<1>2. Count(s, T) \in Nat /\ (Count(s, T) = 0 <=> \A k \in DOMAIN s : s[k] \notin T)
  BY CountIsNat
<1> QED
  BY <1>1, <1>2

\* RemoveAt leaves out one place.
LEMMA RemoveAtFacts ==
    ASSUME NEW S, NEW s \in Seq(S), NEW i \in 1..Len(s)
    PROVE  /\ RemoveAt(s, i) \in Seq(S) /\ Len(RemoveAt(s, i)) = Len(s) - 1
           /\ \A k \in 1..Len(s) - 1 : RemoveAt(s, i)[k] = IF k < i THEN s[k] ELSE s[k + 1]
  BY LeaveOutFacts DEF RemoveAt

\* A queue that loses the element at some place.
LEMMA CountRemoveAt ==
    ASSUME NEW S, NEW s \in Seq(S), NEW i \in 1..Len(s), NEW T
    PROVE  Count(RemoveAt(s, i), T) = Count(s, T) - Bit(s[i] \in T)
<1> DEFINE t == RemoveAt(s, i)
<1>1. /\ t \in Seq(S) /\ Len(t) = Len(s) - 1
      /\ \A k \in 1..Len(t) : t[k] = IF k < i THEN s[k] ELSE s[k + 1]
  BY RemoveAtFacts
<1> HIDE DEF t
<1> QED
  <2>1. Count(t, T) = Count(s, T) - Bit(s[i] \in T)
    BY <1>1, CountDrop
  <2> QED
    BY <2>1 DEF t
-----------------------------------------------------------------------------
(* Counting stages.                                                        *)

\* The stages of p that hold something of T; the last one counts while it is due.
Slots(p, due, T) == {k \in 0..NumStages : p[k] \in T /\ (k = NumStages => due)}

\* The stages are finitely many.
LEMMA SlotsFinite ==
    ASSUME NEW p, NEW due, NEW T
    PROVE  IsFiniteSet(Slots(p, due, T)) /\ Cardinality(Slots(p, due, T)) \in Nat
<1>1. IsFiniteSet(0..NumStages)
  BY L2Assumption, FS_Interval
<1>2. Slots(p, due, T) \in SUBSET (0..NumStages)
  BY DEF Slots
<1>3. IsFiniteSet(Slots(p, due, T))
  BY <1>1, <1>2, FS_Subset
<1> QED
  BY <1>3, FS_CardinalityType

\* Stage 0, which is empty, is filled with r.
LEMMA SlotsIssue ==
    ASSUME NEW p, NEW q, NEW due, NEW T, NEW r, p[0] \notin T, q[0] = r,
           \A k \in 1..NumStages : q[k] = p[k]
    PROVE  Cardinality(Slots(q, due, T)) = Cardinality(Slots(p, due, T)) + Bit(r \in T)
<1> DEFINE A == Slots(p, due, T)
           B == Slots(q, due, T)
<1>1. IsFiniteSet(A) /\ Cardinality(A) \in Nat
  BY SlotsFinite
<1>2. 0 \notin A /\ B = IF r \in T THEN A \cup {0} ELSE A
  <2>1. \A k : k \in 0..NumStages <=> k \in 1..NumStages \/ k = 0
    BY L2Assumption
  <2>2. 0 # NumStages
    BY L2Assumption
  <2> QED
    BY <2>1, <2>2 DEF Slots
<1>3. Cardinality(A \cup {0}) = Cardinality(A) + 1
  BY <1>1, <1>2, FS_AddElement
<1> HIDE DEF A, B
<1>4. CASE r \in T
  <2>1. Cardinality(B) = Cardinality(A \cup {0})
    BY <1>2, <1>4
  <2> QED
    BY <1>1, <1>3, <1>4, <2>1 DEF Bit, A, B
<1>5. CASE r \notin T
  <2>1. Cardinality(B) = Cardinality(A)
    BY <1>2, <1>5
  <2> QED
    BY <1>1, <1>5, <2>1 DEF Bit, A, B
<1> QED
  BY <1>4, <1>5

\* The handlers of the stages have run: the last stage has passed its request on, and
\* the others hold something of T or not as before.
LEMMA SlotsHandled ==
    ASSUME NEW p, NEW q, NEW T,
           \A k \in 0..NumStages - 1 : q[k] \in T <=> p[k] \in T
    PROVE  Cardinality(Slots(q, FALSE, T))
               = Cardinality(Slots(p, TRUE, T)) - Bit(p[NumStages] \in T)
<1> DEFINE A == Slots(p, TRUE, T)
           B == Slots(q, FALSE, T)
<1>1. IsFiniteSet(A) /\ Cardinality(A) \in Nat
  BY SlotsFinite
<1>2. B = A \ {NumStages} /\ (NumStages \in A <=> p[NumStages] \in T)
  <2>1. /\ \A k : k \in 0..NumStages <=> k \in 0..NumStages - 1 \/ k = NumStages
        /\ NumStages \notin 0..NumStages - 1
    BY L2Assumption
  <2> QED
    BY <2>1 DEF Slots
<1>3. Cardinality(A \ {NumStages}) = IF NumStages \in A THEN Cardinality(A) - 1 ELSE Cardinality(A)
  BY <1>1, FS_RemoveElement
<1> HIDE DEF A, B
<1>4. Cardinality(B) = Cardinality(A \ {NumStages})
  BY <1>2
<1>5. Cardinality(B) = Cardinality(A) - Bit(p[NumStages] \in T)
  <2>1. CASE p[NumStages] \in T
    BY <1>1, <1>2, <1>3, <1>4, <2>1 DEF Bit
  <2>2. CASE p[NumStages] \notin T
    BY <1>1, <1>2, <1>3, <1>4, <2>2 DEF Bit
  <2> QED
    BY <2>1, <2>2
<1> QED
  BY <1>5 DEF A, B

\* The pipeline moves on once the last stage has passed its request on.
LEMMA SlotsShifted ==
    ASSUME NEW p, NEW q, NEW T, q[0] \notin T,
           \A k \in 1..NumStages : q[k] = p[k - 1]
    PROVE  Cardinality(Slots(q, TRUE, T)) = Cardinality(Slots(p, FALSE, T))
<1> DEFINE A == Slots(p, FALSE, T)
           B == Slots(q, TRUE, T)
           f == [k \in A |-> k + 1]
<1>1. IsFiniteSet(A)
  BY SlotsFinite
<1>2. A = {k \in 0..NumStages - 1 : p[k] \in T} /\ B = {k \in 1..NumStages : p[k - 1] \in T}
  <2>1. /\ \A k : k \in 0..NumStages <=> k \in 0..NumStages - 1 \/ k = NumStages
        /\ NumStages \notin 0..NumStages - 1
        /\ \A k : k \in 0..NumStages <=> k \in 1..NumStages \/ k = 0
    BY L2Assumption
  <2> QED
    BY <2>1 DEF Slots
<1> HIDE DEF A, B
<1>3. f \in [A -> B]
  <2> SUFFICES ASSUME NEW k \in A PROVE k + 1 \in B
    OBVIOUS
  <2>1. k + 1 \in 1..NumStages /\ (k + 1) - 1 = k
    BY <1>2, L2Assumption
  <2> QED
    BY <1>2, <2>1
<1>4. \A x, y \in A : f[x] = f[y] => x = y
  BY <1>2, L2Assumption
<1>5. \A b \in B : \E a \in A : f[a] = b
  <2> SUFFICES ASSUME NEW b \in B PROVE \E a \in A : f[a] = b
    OBVIOUS
  <2>1. b - 1 \in A /\ (b - 1) + 1 = b
    BY <1>2, L2Assumption
  <2> QED
    BY <2>1
<1> HIDE DEF f
<1>6. Cardinality(B) = Cardinality(A)
  BY <1>1, <1>3, <1>4, <1>5, SameSize
<1> QED
  BY <1>6 DEF A, B
-----------------------------------------------------------------------------
(* What a step leaves alone.                                               *)

\* Where requests are depends on the queues, the pipeline and what is waited for.
LEMMA TrackedKept ==
    ASSUME RequestsTracked,
           UNCHANGED <<req_queue, pipeline_req_queue_, l2cache_pipeline_, stages_due,
                       miss_pending_buffer_, resp_queue, from_l2, waiting>>
    PROVE  RequestsTracked'
  BY DEF RequestsTracked, Held, Count, CountInPipe, InPipeline

\* Where lines are on the bus depends on the queues between the L2 cache and the BIU.
LEMMA OnTheWayKept ==
    ASSUME OneBIURequestPerLine,
           UNCHANGED <<biu_req_queue_, biu_msgs, biu_queue, biu_resps, biu_resp_queue_,
                       miss_pending_buffer_>>
    PROVE  OneBIURequestPerLine'
  BY DEF OneBIURequestPerLine, OnTheWay, Count, FirstOnLine, PendingOn

\* The forms of requests depend on where they are.
LEMMA ReqKept ==
    ASSUME ReqInv,
           UNCHANGED <<pipeline_req_queue_, l2cache_pipeline_, stages_due, miss_pending_buffer_>>
    PROVE  ReqInv'
  BY DEF ReqInv, InPipeline

\* The bounds of the pipeline.
LEMMA BoundsKept ==
    ASSUME PipelineBounded,
           UNCHANGED <<inFlight_reqs_, l2cache_pipeline_, stages_due, miss_pending_buffer_,
                       biu_req_queue_>>
    PROVE  PipelineBounded'
  BY DEF PipelineBounded, InPipeline

\* The state of the BIU and the MSS.
LEMMA BIUKept ==
    ASSUME BIUInv, UNCHANGED <<biuVars, mssVars>>
    PROVE  BIUInv'
  BY DEF BIUInv, biuVars, mssVars

\* The numbers that Held adds.
HeldAdds(u, line) ==
    /\ Count(req_queue[u], {line}) \in Nat
    /\ Count(pipeline_req_queue_, Own[u][line]) \in Nat
    /\ CountInPipe(Own[u][line]) \in Nat
    /\ Count(miss_pending_buffer_, Own[u][line]) \in Nat
    /\ Count(resp_queue[u], {line}) \in Nat
    /\ Count(from_l2, {[unit |-> u, line |-> line]}) \in Nat

\* They are natural numbers.
LEMMA HeldParts ==
    ASSUME TypeOK, NEW u \in Units, NEW line \in Lines
    PROVE  HeldAdds(u, line)
<1>1. /\ req_queue[u] \in Seq(Lines) /\ resp_queue[u] \in Seq(Lines)
      /\ pipeline_req_queue_ \in Seq(ReqType) /\ miss_pending_buffer_ \in Seq(ReqType)
      /\ from_l2 \in Seq([unit : Units, line : Lines])
  BY DEF TypeOK
<1>2. CountInPipe(Own[u][line]) \in Nat
  <2>1. IsFiniteSet(0..NumStages)
    BY L2Assumption, FS_Interval
  <2>2. {k \in InPipeline : l2cache_pipeline_[k] \in Own[u][line]} \in SUBSET (0..NumStages)
    BY DEF InPipeline
  <2>3. IsFiniteSet({k \in InPipeline : l2cache_pipeline_[k] \in Own[u][line]})
    BY <2>1, <2>2, FS_Subset
  <2> QED
    BY <2>3, FS_CardinalityType DEF CountInPipe
<1> QED
  BY <1>1, <1>2, CountIsNat DEF HeldAdds

\* The numbers that OnTheWay adds.
OnTheWayAdds(line) ==
    /\ Count(biu_req_queue_, {line}) \in Nat /\ Count(biu_msgs, {line}) \in Nat
    /\ Count(biu_queue, {line}) \in Nat /\ Count(biu_resp_queue_, {line}) \in Nat
    /\ IsFiniteSet({r \in biu_resps : r.line = line})
    /\ Cardinality({r \in biu_resps : r.line = line}) \in Nat

\* They are natural numbers.
LEMMA OnTheWayParts ==
    ASSUME TypeOK, PhaseInv, NEW line \in Lines
    PROVE  OnTheWayAdds(line)
<1>1. /\ biu_req_queue_ \in Seq(Lines) /\ biu_msgs \in Seq(Lines) /\ biu_queue \in Seq(Lines)
      /\ biu_resp_queue_ \in Seq(Lines)
  BY DEF TypeOK
<1>2. IsFiniteSet({r \in biu_resps : r.line = line})
  <2>1. IsFiniteSet(biu_resps) /\ {r \in biu_resps : r.line = line} \in SUBSET biu_resps
    BY DEF PhaseInv
  <2> QED
    BY <2>1, FS_Subset
<1> QED
  BY <1>1, <1>2, CountIsNat, FS_CardinalityType DEF OnTheWayAdds

\* Credits on their way to ICache can be counted.
LEMMA CreditMsgsFinite ==
    ASSUME EventInv
    PROVE  IsFiniteSet(credit_msgs) /\ Cardinality(credit_msgs) \in Nat
<1>1. credit_msgs \in SUBSET Nat /\ 2 \in Nat /\ \A d \in credit_msgs : d <= 2
  BY DEF EventInv
<1>2. IsFiniteSet(credit_msgs)
  BY <1>1, FS_BoundedSetOfNaturals
<1> QED
  BY <1>2, FS_CardinalityType

-----------------------------------------------------------------------------
(* ICache and DCache.                                                      *)

\* A request of a unit, with what is the same for both.
LEMMA AskKeeps ==
    ASSUME IInv, NEW v \in Units, NEW l \in Lines, l \notin waiting[v],
           getReqFrom(v, l), waiting' = [waiting EXCEPT ![v] = @ \cup {l}],
           UNCHANGED <<phase, stages_due, biuVars, mssVars, from_l2, credit_msgs, linkVars>>,
           icache_credits' \in Nat, CreditsConserved',
           v = "DCACHE" => waiting[v] = {}
    PROVE  IInv'
<1>0. /\ TypeOK /\ PipelineBounded /\ CreditsConserved /\ RequestsTracked
      /\ OneBIURequestPerLine /\ PhaseInv /\ EventInv /\ ReqInv /\ BIUInv
  BY DEF IInv
<1>1. /\ req_queue' = [req_queue EXCEPT ![v] = Append(@, l)]
      /\ ev_handle_req' = ev_handle_req \cup {v}
      /\ UNCHANGED <<resp_queue, biu_req_queue_, biu_resp_queue_, pipeline_req_queue_,
                     l2cache_pipeline_, inFlight_reqs_, miss_pending_buffer_, l2_cache_,
                     l2cache_biu_credits_, channel_select_, ev_handle_resp,
                     ev_handle_l2cache_biu_req_, ev_create_req_, ev_issue_req_,
                     biu_msgs, biu_resps, biu_credits,
                     biu_queue, biu_busy_, ev_handle_biu_req_, ev_handle_mss_ack_,
                     mss_busy_, ev_handle_mss_req_, mss_req, mss_ack>>
  BY DEF getReqFrom, l2Pipe, biuVars, mssVars, linkVars
<1>2. req_queue \in [Units -> Seq(Lines)] /\ waiting \in [Units -> SUBSET Lines]
  BY <1>0 DEF TypeOK
<1>3. /\ Append(req_queue[v], l) \in Seq(Lines)
      /\ Len(Append(req_queue[v], l)) = Len(req_queue[v]) + 1
      /\ Len(req_queue[v]) \in Nat
  BY <1>2
<1>4. TypeOK'
  BY <1>0, <1>1, <1>2, <1>3 DEF TypeOK
<1>5. RequestsTracked'
  <2> SUFFICES ASSUME NEW u \in Units, NEW line \in Lines
               PROVE  Held(u, line)' = IF line \in waiting'[u] THEN 1 ELSE 0
    BY DEF RequestsTracked
  <2>1. Held(u, line) = IF line \in waiting[u] THEN 1 ELSE 0
    BY <1>0 DEF RequestsTracked
  <2>2. line \in waiting'[u] <=> line \in waiting[u] \/ (u = v /\ line = l)
    BY <1>2
  <2>3. Count(req_queue'[u], {line})
          = Count(req_queue[u], {line}) + Bit(u = v /\ line = l)
    <3>1. CASE u = v
      <4>1. req_queue'[u] = Append(req_queue[u], l) /\ req_queue[u] \in Seq(Lines)
        BY <1>1, <1>2, <3>1
      <4>2. Count(Append(req_queue[u], l), {line}) = Count(req_queue[u], {line}) + Bit(l \in {line})
        BY <4>1, CountAppend
      <4> QED
        BY <3>1, <4>1, <4>2 DEF Bit
    <3>2. CASE u # v
      <4>1. req_queue'[u] = req_queue[u]
        BY <1>1, <1>2, <3>2
      <4>2. Count(req_queue[u], {line}) \in Nat
        BY <1>0, HeldParts DEF HeldAdds
      <4> QED
        BY <3>2, <4>1, <4>2 DEF Bit
    <3> QED
      BY <3>1, <3>2
  <2>4. /\ CountInPipe(Own[u][line])' = CountInPipe(Own[u][line])
        /\ UNCHANGED <<pipeline_req_queue_, miss_pending_buffer_, resp_queue, from_l2>>
    BY <1>1 DEF CountInPipe, InPipeline
  <2>5. HeldAdds(u, line)
    BY <1>0, HeldParts
  <2>6. Held(u, line)' = Held(u, line) + Bit(u = v /\ line = l)
    <3>1. Bit(u = v /\ line = l) \in Nat
      BY DEF Bit
    <3> QED
      BY <2>3, <2>4, <2>5, <3>1 DEF Held, HeldAdds
  <2> QED
    BY <2>1, <2>2, <2>6 DEF Bit
<1>6. EventInv'
  <2>1. Len(req_queue'["DCACHE"]) <= 1
    <3>1. CASE v = "ICACHE"
      BY <1>0, <1>1, <1>2, <3>1 DEF EventInv, Units
    <3>2. CASE v = "DCACHE"
      <4>1. waiting["DCACHE"] = {} /\ "DCACHE" \in Units
        BY <3>2 DEF Units
      <4>2. req_queue["DCACHE"] \in Seq(Lines)
        BY <1>2 DEF Units
      <4>3. \A k \in DOMAIN req_queue["DCACHE"] : FALSE
        <5> SUFFICES ASSUME NEW k \in DOMAIN req_queue["DCACHE"] PROVE FALSE
          OBVIOUS
        <5>1. PICK line \in Lines : req_queue["DCACHE"][k] = line
          BY <4>2, SeqFacts
        <5>2. Count(req_queue["DCACHE"], {line}) # 0
          BY <4>2, <5>1, CountIsNat
        <5>3. Held("DCACHE", line) = 0
          BY <1>0, <4>1 DEF RequestsTracked
        <5>4. HeldAdds("DCACHE", line)
          BY <1>0, <4>1, HeldParts
        <5> QED
          BY <5>2, <5>3, <5>4 DEF Held, HeldAdds
      <4>4. Len(req_queue["DCACHE"]) = 0
        BY <4>2, <4>3, SeqFacts
      <4> QED
        BY <1>1, <1>2, <1>3, <3>2, <4>4
    <3> QED
      BY <3>1, <3>2 DEF Units
  <2>2. \A channel \in Units \cup {"BIU"} : QueueOf(channel) # << >> => QueueOf(channel)' # << >>
    <3> SUFFICES ASSUME NEW channel \in Units \cup {"BIU"}, QueueOf(channel) # << >>
                 PROVE  QueueOf(channel)' # << >>
      OBVIOUS
    <3>1. CASE channel = v
      <4>1. QueueOf(channel)' = Append(req_queue[v], l)
        BY <1>1, <1>2, <3>1 DEF QueueOf, Units
      <4> QED
        BY <1>3, <4>1
    <3>2. CASE channel # v
      BY <1>1, <1>2, <3>2 DEF QueueOf, Units
    <3> QED
      BY <3>1, <3>2
  <2>3. /\ (1 \in ev_create_req_' \/ 2 \in credit_msgs' => phase' = "post" /\ 0 \notin ev_create_req_')
        /\ credit_msgs' \subseteq 0..2
        /\ (l2cache_pipeline_'[0] # NoReq => phase' = "post" /\ 0 \notin ev_issue_req_')
        /\ \A u \in Units : Len(resp_queue'[u]) = IF u \in ev_handle_resp' THEN 1 ELSE 0
    BY <1>0, <1>1 DEF EventInv
  <2>4. ev_create_req_' # {} => \E channel \in Units \cup {"BIU"} : QueueOf(channel)' # << >>
    BY <1>0, <1>1, <2>2 DEF EventInv
  <2> QED
    BY <2>1, <2>3, <2>4 DEF EventInv
<1>7. PhaseInv'
  BY <1>0, <1>1 DEF PhaseInv
<1>8. BIUInv'
  BY <1>0, BIUKept
<1>9. OneBIURequestPerLine'
  BY <1>0, <1>1, OnTheWayKept
<1>10. ReqInv' /\ PipelineBounded'
  BY <1>0, <1>1, ReqKept, BoundsKept
<1> QED
  BY <1>4, <1>5, <1>6, <1>7, <1>8, <1>9, <1>10 DEF IInv

\* ICache uses a credit for a request.
LEMMA ICacheAsksKeeps ==
    ASSUME IInv, ICacheAsks
    PROVE  IInv'
<1>1. PICK l \in Lines \ waiting["ICACHE"] :
          getReqFrom("ICACHE", l) /\ waiting' = [waiting EXCEPT !["ICACHE"] = @ \cup {l}]
  BY DEF ICacheAsks
<1>2. /\ icache_credits > 0 /\ icache_credits' = icache_credits - 1
      /\ UNCHANGED <<phase, stages_due, biuVars, mssVars, from_l2, credit_msgs, linkVars>>
  BY DEF ICacheAsks
<1>3. icache_credits \in Nat /\ req_queue["ICACHE"] \in Seq(Lines)
      /\ req_queue \in [Units -> Seq(Lines)] /\ "ICACHE" \in Units
  BY DEF IInv, TypeOK, Units
<1>4. icache_credits' \in Nat
  BY <1>2, <1>3
<1>5. Len(req_queue'["ICACHE"]) = Len(req_queue["ICACHE"]) + 1 /\ Len(req_queue["ICACHE"]) \in Nat
  BY <1>1, <1>3 DEF getReqFrom
<1>6. Cardinality(credit_msgs) \in Nat
  BY CreditMsgsFinite DEF IInv
<1>7. CreditsConserved'
  <2>1. UNCHANGED <<l2cache_biu_credits_, biu_credits, biu_msgs, biu_queue, credit_msgs>>
    BY <1>1, <1>2 DEF getReqFrom, linkVars, biuVars
  <2>2. CreditsConserved
    BY DEF IInv
  <2> QED
    BY <1>2, <1>3, <1>5, <1>6, <2>1, <2>2 DEF CreditsConserved
<1> QED
  BY <1>1, <1>2, <1>3, <1>4, <1>7, AskKeeps

\* DCache has nothing out.
LEMMA DCacheAsksKeeps ==
    ASSUME IInv, DCacheAsks
    PROVE  IInv'
<1>1. PICK l \in Lines : getReqFrom("DCACHE", l) /\ waiting' = [waiting EXCEPT !["DCACHE"] = {l}]
  BY DEF DCacheAsks
<1>2. /\ waiting["DCACHE"] = {} /\ icache_credits' = icache_credits
      /\ UNCHANGED <<phase, stages_due, biuVars, mssVars, from_l2, credit_msgs, linkVars>>
  BY DEF DCacheAsks
<1>3. icache_credits' \in Nat /\ req_queue \in [Units -> Seq(Lines)]
      /\ "ICACHE" \in Units /\ "DCACHE" \in Units /\ waiting \in [Units -> SUBSET Lines]
  BY <1>2 DEF IInv, TypeOK, Units
<1>4. waiting' = [waiting EXCEPT !["DCACHE"] = @ \cup {l}]
  BY <1>1, <1>2, <1>3
<1>5. CreditsConserved'
  <2>1. UNCHANGED <<l2cache_biu_credits_, biu_credits, biu_msgs, biu_queue, credit_msgs>>
    BY <1>1, <1>2 DEF getReqFrom, linkVars, biuVars
  <2>2. CreditsConserved
    BY DEF IInv
  <2>3. req_queue'["ICACHE"] = req_queue["ICACHE"]
    BY <1>1, <1>3 DEF getReqFrom
  <2> QED
    BY <1>2, <2>1, <2>2, <2>3 DEF CreditsConserved
<1> QED
  BY <1>1, <1>2, <1>3, <1>4, <1>5, AskKeeps

\* An answer takes a line from what its unit waits for.
LEMMA UnitAnsweredKeeps ==
    ASSUME IInv, UnitAnswered
    PROVE  IInv'
<1>0. /\ TypeOK /\ PipelineBounded /\ CreditsConserved /\ RequestsTracked
      /\ OneBIURequestPerLine /\ PhaseInv /\ EventInv /\ ReqInv /\ BIUInv
  BY DEF IInv
<1> DEFINE m == Head(from_l2)
<1>1. /\ from_l2 # << >> /\ from_l2' = Tail(from_l2)
      /\ waiting' = [waiting EXCEPT ![m.unit] = @ \ {m.line}]
      /\ UNCHANGED <<phase, stages_due, req_queue, resp_queue, biu_req_queue_, biu_resp_queue_,
                     pipeline_req_queue_, l2cache_pipeline_, inFlight_reqs_,
                     miss_pending_buffer_, l2_cache_, l2cache_biu_credits_, channel_select_,
                     ev_handle_req, ev_handle_resp, ev_handle_l2cache_biu_req_, ev_create_req_,
                     ev_issue_req_, biu_msgs, biu_resps, biu_credits, icache_credits, credit_msgs,
                     biu_queue, biu_busy_, ev_handle_biu_req_, ev_handle_mss_ack_,
                     mss_busy_, ev_handle_mss_req_, mss_req, mss_ack>>
  BY DEF UnitAnswered, l2Vars, l2Queues, l2Pipe, l2Events, biuVars, mssVars, linkVars
<1>2. from_l2 \in Seq([unit : Units, line : Lines]) /\ waiting \in [Units -> SUBSET Lines]
  BY <1>0 DEF TypeOK
<1>3. m \in [unit : Units, line : Lines] /\ Tail(from_l2) \in Seq([unit : Units, line : Lines])
  BY <1>1, <1>2, TailFacts
<1>4. TypeOK'
  BY <1>0, <1>1, <1>2, <1>3 DEF TypeOK
<1>5. RequestsTracked'
  <2> SUFFICES ASSUME NEW u \in Units, NEW line \in Lines
               PROVE  Held(u, line)' = IF line \in waiting'[u] THEN 1 ELSE 0
    BY DEF RequestsTracked
  <2> DEFINE x == [unit |-> u, line |-> line]
  <2>1. Held(u, line) = IF line \in waiting[u] THEN 1 ELSE 0
    BY <1>0 DEF RequestsTracked
  <2>2. (m = x <=> m.unit = u /\ m.line = line)
        /\ (line \in waiting'[u] <=> line \in waiting[u] /\ m # x)
    BY <1>1, <1>2, <1>3
  <2> HIDE DEF m
  <2>3. Count(from_l2', {x}) = Count(from_l2, {x}) - Bit(m = x)
    <3>1. Count(Tail(from_l2), {x}) = Count(from_l2, {x}) - Bit(Head(from_l2) \in {x})
      <4> HIDE DEF x
      <4> QED
        BY <1>1, <1>2, CountTail
    <3> QED
      BY <1>1, <3>1 DEF Bit, m
  <2>4. /\ CountInPipe(Own[u][line])' = CountInPipe(Own[u][line])
        /\ UNCHANGED <<pipeline_req_queue_, miss_pending_buffer_, resp_queue, req_queue>>
    BY <1>1 DEF CountInPipe, InPipeline
  <2>5. HeldAdds(u, line)
    BY <1>0, HeldParts
  <2>6. Held(u, line)' = Held(u, line) - Bit(m = x)
    <3>1. Bit(m = x) \in Nat
      BY DEF Bit
    <3> QED
      BY <2>3, <2>4, <2>5, <3>1 DEF Held, HeldAdds
  <2>7. m = x => Count(from_l2, {x}) # 0
    <3> HIDE DEF x
    <3> QED
      BY <1>1, <1>2, CountHead DEF m
  <2>8. m = x => Held(u, line) # 0
    BY <2>5, <2>7 DEF Held, HeldAdds
  <2> HIDE DEF x
  <2> QED
    BY <2>1, <2>2, <2>6, <2>8 DEF Bit
<1>6. EventInv'
  BY <1>0, <1>1 DEF EventInv, QueueOf
<1>7. PhaseInv'
  BY <1>0, <1>1 DEF PhaseInv
<1>8. BIUInv'
  BY <1>0, <1>1, BIUKept DEF biuVars, mssVars
<1>9. OneBIURequestPerLine'
  BY <1>0, <1>1, OnTheWayKept
<1>10. ReqInv' /\ PipelineBounded'
  BY <1>0, <1>1, ReqKept, BoundsKept
<1>11. CreditsConserved'
  BY <1>0, <1>1 DEF CreditsConserved
<1> QED
  BY <1>4, <1>5, <1>6, <1>7, <1>8, <1>9, <1>10, <1>11 DEF IInv

\* ICache has a credit more.
LEMMA ICacheTakesCreditKeeps ==
    ASSUME IInv, ICacheTakesCredit
    PROVE  IInv'
<1>0. /\ TypeOK /\ PipelineBounded /\ CreditsConserved /\ RequestsTracked
      /\ OneBIURequestPerLine /\ PhaseInv /\ EventInv /\ ReqInv /\ BIUInv
  BY DEF IInv
<1>1. /\ 0 \in credit_msgs /\ credit_msgs' = credit_msgs \ {0}
      /\ icache_credits' = icache_credits + 1
      /\ UNCHANGED <<phase, stages_due, req_queue, resp_queue, biu_req_queue_, biu_resp_queue_,
                     pipeline_req_queue_, l2cache_pipeline_, inFlight_reqs_,
                     miss_pending_buffer_, l2_cache_, l2cache_biu_credits_, channel_select_,
                     ev_handle_req, ev_handle_resp, ev_handle_l2cache_biu_req_, ev_create_req_,
                     ev_issue_req_, biu_msgs, biu_resps, biu_credits, waiting, from_l2,
                     biu_queue, biu_busy_, ev_handle_biu_req_, ev_handle_mss_ack_,
                     mss_busy_, ev_handle_mss_req_, mss_req, mss_ack>>
  BY DEF ICacheTakesCredit, l2Vars, l2Queues, l2Pipe, l2Events, biuVars, mssVars, linkVars
<1>2. TypeOK'
  BY <1>0, <1>1, SMTT(30) DEF TypeOK
<1>3. CreditsConserved'
  <2>1. IsFiniteSet(credit_msgs) /\ Cardinality(credit_msgs) \in Nat
    BY <1>0, CreditMsgsFinite
  <2>2. Cardinality(credit_msgs \ {0}) = Cardinality(credit_msgs) - 1
    BY <1>1, <2>1, FS_RemoveElement
  <2>3. Cardinality(credit_msgs') = Cardinality(credit_msgs) - 1
    BY <1>1, <2>2
  <2>4. icache_credits \in Nat /\ Len(req_queue["ICACHE"]) \in Nat
    BY <1>0 DEF TypeOK, Units
  <2> QED
    BY <1>0, <1>1, <2>1, <2>3, <2>4 DEF CreditsConserved
<1>4. EventInv'
  BY <1>0, <1>1 DEF EventInv, QueueOf
<1>5. PhaseInv'
  BY <1>0, <1>1 DEF PhaseInv
<1>6. BIUInv'
  BY <1>0, <1>1, BIUKept DEF biuVars, mssVars
<1>7. OneBIURequestPerLine' /\ RequestsTracked'
  BY <1>0, <1>1, OnTheWayKept, TrackedKept
<1>8. ReqInv' /\ PipelineBounded'
  BY <1>0, <1>1, ReqKept, BoundsKept
<1> QED
  BY <1>2, <1>3, <1>4, <1>5, <1>6, <1>7, <1>8 DEF IInv
-----------------------------------------------------------------------------
(* Messages of earlier cycles.                                             *)

\* A response of the BIU reaches the L2 cache.
LEMMA DeliverBIURespKeeps ==
    ASSUME IInv, DeliverBIUResp
    PROVE  IInv'
<1>0. /\ TypeOK /\ PipelineBounded /\ CreditsConserved /\ RequestsTracked
      /\ OneBIURequestPerLine /\ PhaseInv /\ EventInv /\ ReqInv /\ BIUInv
  BY DEF IInv
<1>1. /\ phase = "port"
      /\ \E r \in biu_resps : /\ r.due = 0 /\ biu_resp_queue_' = Append(biu_resp_queue_, r.line)
                              /\ biu_resps' = biu_resps \ {r}
      /\ ev_handle_req' \subseteq ev_handle_req \cup {"BIU"}
      /\ UNCHANGED <<phase, stages_due, req_queue, resp_queue, biu_req_queue_,
                     pipeline_req_queue_, l2cache_pipeline_, inFlight_reqs_,
                     miss_pending_buffer_, l2_cache_, l2cache_biu_credits_, channel_select_,
                     ev_handle_resp, ev_handle_l2cache_biu_req_, ev_create_req_,
                     ev_issue_req_, biu_queue, biu_busy_, ev_handle_biu_req_,
                     ev_handle_mss_ack_, mss_busy_, ev_handle_mss_req_, mss_req, mss_ack,
                     waiting, from_l2, icache_credits, credit_msgs, biu_msgs, biu_credits>>
  BY DEF DeliverBIUResp, getRespFromBIU, l2Vars, l2Queues, l2Pipe, l2Events, biuVars,
         mssVars, envVars, linkVars
<1>2. PICK r \in biu_resps : /\ biu_resp_queue_' = Append(biu_resp_queue_, r.line)
                             /\ biu_resps' = biu_resps \ {r}
  BY <1>1
<1>3. /\ r.line \in Lines /\ r \in [line : Lines, due : Nat]
      /\ biu_resp_queue_ \in Seq(Lines) /\ biu_resp_queue_' \in Seq(Lines)
      /\ biu_resp_queue_' # << >>
  <2>1. /\ r \in [line : Lines, due : Nat] /\ biu_resp_queue_ \in Seq(Lines)
    BY <1>0, <1>2 DEF TypeOK
  <2>2. r.line \in Lines
    BY <2>1
  <2>3. Append(biu_resp_queue_, r.line) \in Seq(Lines) /\ Append(biu_resp_queue_, r.line) # << >>
    BY <2>1, <2>2, AppendFacts, SeqFacts
  <2> QED
    BY <1>2, <2>1, <2>2, <2>3
<1>4. TypeOK'
  BY <1>0, <1>1, <1>2, <1>3 DEF TypeOK
<1>5. PipelineBounded'
  BY <1>0, <1>1, BoundsKept
<1>6. CreditsConserved'
  BY <1>0, <1>1 DEF CreditsConserved
<1>7. RequestsTracked'
  BY <1>0, <1>1, TrackedKept
<1>8. OneBIURequestPerLine'
  <2> SUFFICES ASSUME NEW line \in Lines
               PROVE  OnTheWay(line)' = IF FirstOnLine(line)' THEN 0 ELSE 1
    BY DEF OneBIURequestPerLine
  <2>1. /\ OnTheWay(line) = IF FirstOnLine(line) THEN 0 ELSE 1
        /\ FirstOnLine(line)' = FirstOnLine(line)
    BY <1>0, <1>1 DEF OneBIURequestPerLine, FirstOnLine, PendingOn
  <2>2. OnTheWayAdds(line)
    BY <1>0, OnTheWayParts
  <2>3. Count(biu_resp_queue_', {line}) = Count(biu_resp_queue_, {line}) + Bit(r.line = line)
    <3>1. Count(Append(biu_resp_queue_, r.line), {line})
            = Count(biu_resp_queue_, {line}) + Bit(r.line \in {line})
      BY <1>3, CountAppend
    <3> QED
      BY <1>2, <3>1 DEF Bit
  <2> DEFINE A == {x \in biu_resps : x.line = line}
             B == {x \in biu_resps' : x.line = line}
  <2>4. Cardinality(B) = Cardinality(A) - Bit(r.line = line)
    <3>1. B = A \ {r} /\ (r \in A <=> r.line = line)
      BY <1>2
    <3>2. IsFiniteSet(A) /\ Cardinality(A) \in Nat
      BY <2>2 DEF OnTheWayAdds
    <3> HIDE DEF A, B
    <3>3. Cardinality(A \ {r}) = IF r \in A THEN Cardinality(A) - 1 ELSE Cardinality(A)
      BY <3>2, FS_RemoveElement
    <3>4. Cardinality(B) = Cardinality(A \ {r})
      BY <3>1
    <3>5. CASE r.line = line
      BY <3>1, <3>2, <3>3, <3>4, <3>5 DEF Bit
    <3>6. CASE r.line # line
      BY <3>1, <3>2, <3>3, <3>4, <3>6 DEF Bit
    <3> QED
      BY <3>5, <3>6
  <2>5. UNCHANGED <<biu_req_queue_, biu_msgs, biu_queue>> /\ Bit(r.line = line) \in Nat
    BY <1>1 DEF Bit
  <2>6. OnTheWay(line)' = OnTheWay(line)
    BY <2>2, <2>3, <2>4, <2>5 DEF OnTheWay, OnTheWayAdds
  <2> QED
    BY <2>1, <2>6
<1>9. PhaseInv'
  <2>1. IsFiniteSet(biu_resps')
    BY <1>0, <1>2, FS_RemoveElement DEF PhaseInv
  <2> QED
    BY <1>0, <1>1, <1>2, <2>1 DEF PhaseInv
<1>10. EventInv'
  <2>1. QueueOf("BIU")' # << >>
    BY <1>3 DEF QueueOf
  <2> QED
    BY <1>0, <1>1, <2>1 DEF EventInv
<1>11. ReqInv'
  BY <1>0, <1>1, ReqKept
<1>12. BIUInv'
  BY <1>0, <1>1, BIUKept DEF biuVars, mssVars
<1> QED
  BY <1>4, <1>5, <1>6, <1>7, <1>8, <1>9, <1>10, <1>11, <1>12 DEF IInv

\* Credits of the BIU reach the L2 cache.
LEMMA DeliverBIUCreditsKeeps ==
    ASSUME IInv, DeliverBIUCredits
    PROVE  IInv'
<1>0. /\ TypeOK /\ PipelineBounded /\ CreditsConserved /\ RequestsTracked
      /\ OneBIURequestPerLine /\ PhaseInv /\ EventInv /\ ReqInv /\ BIUInv
  BY DEF IInv
<1>1. /\ phase = "port"
      /\ l2cache_biu_credits_' = l2cache_biu_credits_ + biu_credits
      /\ biu_credits' = 0
      /\ ev_issue_req_' = ev_issue_req_ \cup {1}
      /\ UNCHANGED <<phase, stages_due, req_queue, resp_queue, biu_req_queue_,
                     biu_resp_queue_, pipeline_req_queue_, l2cache_pipeline_,
                     inFlight_reqs_, miss_pending_buffer_, l2_cache_, channel_select_,
                     ev_handle_req, ev_handle_resp, ev_handle_l2cache_biu_req_,
                     ev_create_req_, biu_queue, biu_busy_, ev_handle_biu_req_,
                     ev_handle_mss_ack_, mss_busy_, ev_handle_mss_req_, mss_req, mss_ack,
                     waiting, from_l2, icache_credits, credit_msgs, biu_msgs, biu_resps>>
  BY DEF DeliverBIUCredits, getCreditsFromBIU, l2Vars, l2Queues, l2Pipe, l2Events, biuVars,
         mssVars, envVars, linkVars
<1>2. l2cache_biu_credits_ \in Nat /\ biu_credits \in Nat /\ Len(biu_msgs) \in Nat
      /\ Len(biu_queue) \in Nat
  BY <1>0 DEF TypeOK
<1>3. TypeOK'
  <2>1. l2cache_biu_credits_' \in Nat /\ biu_credits' \in Nat
    BY <1>1, <1>2
  <2>2. ev_issue_req_' \subseteq {0, 1}
    BY <1>0, <1>1 DEF TypeOK
  <2> QED
    BY <1>0, <1>1, <2>1, <2>2 DEF TypeOK
<1>4. PipelineBounded'
  BY <1>0, <1>1, BoundsKept
<1>5. CreditsConserved'
  BY <1>0, <1>1, <1>2 DEF CreditsConserved
<1>6. RequestsTracked'
  BY <1>0, <1>1, TrackedKept
<1>7. OneBIURequestPerLine'
  BY <1>0, <1>1, OnTheWayKept
<1>8. PhaseInv'
  BY <1>0, <1>1 DEF PhaseInv
<1>9. EventInv'
  <2>1. l2cache_pipeline_[0] = NoReq
    BY <1>0, <1>1 DEF EventInv
  <2> QED
    BY <1>0, <1>1, <2>1 DEF EventInv, QueueOf
<1>10. ReqInv'
  BY <1>0, <1>1, ReqKept
<1>11. BIUInv'
  BY <1>0, <1>1, BIUKept DEF biuVars, mssVars
<1> QED
  BY <1>3, <1>4, <1>5, <1>6, <1>7, <1>8, <1>9, <1>10, <1>11 DEF IInv

\* A request of the L2 cache reaches the BIU.
LEMMA DeliverToBIUKeeps ==
    ASSUME IInv, DeliverToBIU
    PROVE  IInv'
<1>0. /\ TypeOK /\ PipelineBounded /\ CreditsConserved /\ RequestsTracked
      /\ OneBIURequestPerLine /\ PhaseInv /\ EventInv /\ ReqInv /\ BIUInv
  BY DEF IInv
<1>1. /\ biu_msgs # << >>
      /\ biu_msgs' = Tail(biu_msgs)
      /\ biu_queue' = Append(biu_queue, Head(biu_msgs))
      /\ ev_handle_biu_req_' = (ev_handle_biu_req_ \/ ~biu_busy_)
      /\ UNCHANGED <<phase, stages_due, req_queue, resp_queue, biu_req_queue_,
                     biu_resp_queue_, pipeline_req_queue_, l2cache_pipeline_,
                     inFlight_reqs_, miss_pending_buffer_, l2_cache_, l2cache_biu_credits_,
                     channel_select_, ev_handle_req, ev_handle_resp,
                     ev_handle_l2cache_biu_req_, ev_create_req_, ev_issue_req_, biu_busy_,
                     ev_handle_mss_ack_, mss_busy_, ev_handle_mss_req_, mss_req, mss_ack,
                     waiting, from_l2, icache_credits, credit_msgs, biu_resps, biu_credits>>
  BY DEF DeliverToBIU, receiveReqFromL2Cache, l2Vars, l2Queues, l2Pipe, l2Events, biuVars,
         mssVars, envVars, linkVars
<1>2. /\ biu_msgs \in Seq(Lines) /\ biu_queue \in Seq(Lines) /\ Head(biu_msgs) \in Lines
      /\ Tail(biu_msgs) \in Seq(Lines) /\ Len(Tail(biu_msgs)) = Len(biu_msgs) - 1
  BY <1>0, <1>1, TailFacts DEF TypeOK
<1>3. /\ biu_queue' \in Seq(Lines) /\ Len(biu_queue') = Len(biu_queue) + 1 /\ biu_queue' # << >>
      /\ Len(biu_queue) \in Nat /\ Len(biu_msgs) \in Nat
      /\ l2cache_biu_credits_ \in Nat /\ biu_credits \in Nat
  BY <1>0, <1>1, <1>2 DEF TypeOK
<1>4. TypeOK'
  <2>1. ev_handle_biu_req_' \in BOOLEAN
    BY <1>1, Zenon
  <2> QED
    BY <1>0, <1>1, <1>2, <1>3, <2>1 DEF TypeOK
<1>5. PipelineBounded'
  BY <1>0, <1>1, BoundsKept
<1>6. CreditsConserved'
  BY <1>0, <1>1, <1>2, <1>3 DEF CreditsConserved
<1>7. RequestsTracked'
  BY <1>0, <1>1, TrackedKept
<1>8. OneBIURequestPerLine'
  <2> SUFFICES ASSUME NEW line \in Lines
               PROVE  OnTheWay(line)' = IF FirstOnLine(line)' THEN 0 ELSE 1
    BY DEF OneBIURequestPerLine
  <2>1. /\ OnTheWay(line) = IF FirstOnLine(line) THEN 0 ELSE 1
        /\ FirstOnLine(line)' = FirstOnLine(line)
    BY <1>0, <1>1 DEF OneBIURequestPerLine, FirstOnLine, PendingOn
  <2>2. OnTheWayAdds(line)
    BY <1>0, OnTheWayParts
  <2> DEFINE b == Bit(Head(biu_msgs) \in {line})
  <2>3. Count(biu_queue', {line}) = Count(biu_queue, {line}) + b
    BY <1>1, <1>2, CountAppend
  <2>4. Count(biu_msgs', {line}) = Count(biu_msgs, {line}) - b
    BY <1>1, <1>2, CountTail
  <2>5. UNCHANGED <<biu_req_queue_, biu_resps, biu_resp_queue_>> /\ b \in Nat
    BY <1>1 DEF Bit
  <2> HIDE DEF b
  <2>6. OnTheWay(line)' = OnTheWay(line)
    BY <2>2, <2>3, <2>4, <2>5 DEF OnTheWay, OnTheWayAdds
  <2> QED
    BY <2>1, <2>6
<1>9. PhaseInv'
  BY <1>0, <1>1 DEF PhaseInv
<1>10. EventInv'
  BY <1>0, <1>1 DEF EventInv, QueueOf
<1>11. ReqInv'
  BY <1>0, <1>1, ReqKept
<1>12. BIUInv'
  <2>1. CASE biu_busy_
    BY <1>0, <1>1, <1>3, <2>1 DEF BIUInv
  <2>2. CASE ~biu_busy_
    BY <1>0, <1>1, <1>3, <2>2 DEF BIUInv
  <2> QED
    BY <2>1, <2>2
<1> QED
  BY <1>4, <1>5, <1>6, <1>7, <1>8, <1>9, <1>10, <1>11, <1>12 DEF IInv

\* The answer of the MSS reaches the BIU.
LEMMA AckFromMSSKeeps ==
    ASSUME IInv, phase = "port", getAckFromMSS,
           UNCHANGED <<phase, stages_due, l2Vars, envVars, linkVars>>
    PROVE  IInv'
<1>0. /\ TypeOK /\ PipelineBounded /\ CreditsConserved /\ RequestsTracked
      /\ OneBIURequestPerLine /\ PhaseInv /\ EventInv /\ ReqInv /\ BIUInv
  BY DEF IInv
<1>1. /\ 0 \in mss_ack
      /\ mss_ack' = mss_ack \ {0}
      /\ ev_handle_mss_ack_' = TRUE
      /\ UNCHANGED <<phase, stages_due, req_queue, resp_queue, biu_req_queue_,
                     biu_resp_queue_, pipeline_req_queue_, l2cache_pipeline_,
                     inFlight_reqs_, miss_pending_buffer_, l2_cache_, l2cache_biu_credits_,
                     channel_select_, ev_handle_req, ev_handle_resp,
                     ev_handle_l2cache_biu_req_, ev_create_req_, ev_issue_req_, biu_queue,
                     biu_busy_, ev_handle_biu_req_, mss_busy_, ev_handle_mss_req_, mss_req,
                     waiting, from_l2, icache_credits, credit_msgs, biu_msgs, biu_resps,
                     biu_credits>>
  BY DEF getAckFromMSS, l2Vars, l2Queues, l2Pipe, l2Events, biuVars, mssVars, envVars,
         linkVars
<1>2. TypeOK'
  BY <1>0, <1>1 DEF TypeOK
<1>3. PipelineBounded'
  BY <1>0, <1>1, BoundsKept
<1>4. CreditsConserved'
  BY <1>0, <1>1 DEF CreditsConserved
<1>5. RequestsTracked'
  BY <1>0, <1>1, TrackedKept
<1>6. OneBIURequestPerLine'
  BY <1>0, <1>1, OnTheWayKept
<1>7. PhaseInv'
  BY <1>0, <1>1 DEF PhaseInv
<1>8. EventInv'
  BY <1>0, <1>1 DEF EventInv, QueueOf
<1>9. ReqInv'
  BY <1>0, <1>1, ReqKept
<1>10. BIUInv'
  <2>1. biu_busy_ /\ ~ev_handle_mss_ack_ /\ mss_req = {} /\ mss_ack = {0} /\ ~mss_busy_
        /\ ev_handle_mss_req_ = {}
    BY <1>0, <1>1 DEF BIUInv
  <2>2. mss_ack' = {}
    BY <1>1, <2>1
  <2> QED
    BY <1>0, <1>1, <2>1, <2>2 DEF BIUInv
<1> QED
  BY <1>2, <1>3, <1>4, <1>5, <1>6, <1>7, <1>8, <1>9, <1>10 DEF IInv

\* A request of the BIU reaches the MSS.
LEMMA ReqFromBIUKeeps ==
    ASSUME IInv, phase = "port", getReqFromBIU,
           UNCHANGED <<phase, stages_due, l2Vars, envVars, linkVars>>
    PROVE  IInv'
<1>0. /\ TypeOK /\ PipelineBounded /\ CreditsConserved /\ RequestsTracked
      /\ OneBIURequestPerLine /\ PhaseInv /\ EventInv /\ ReqInv /\ BIUInv
  BY DEF IInv
<1>1. /\ phase = "port"
      /\ 0 \in mss_req
      /\ mss_req' = mss_req \ {0}
      /\ mss_busy_' = TRUE
      /\ ev_handle_mss_req_' = ev_handle_mss_req_ \cup {MSSLatency}
      /\ UNCHANGED <<phase, stages_due, req_queue, resp_queue, biu_req_queue_,
                     biu_resp_queue_, pipeline_req_queue_, l2cache_pipeline_,
                     inFlight_reqs_, miss_pending_buffer_, l2_cache_, l2cache_biu_credits_,
                     channel_select_, ev_handle_req, ev_handle_resp,
                     ev_handle_l2cache_biu_req_, ev_create_req_, ev_issue_req_, biu_queue,
                     biu_busy_, ev_handle_biu_req_, ev_handle_mss_ack_, mss_ack, waiting,
                     from_l2, icache_credits, credit_msgs, biu_msgs, biu_resps, biu_credits>>
  BY DEF getReqFromBIU, l2Vars, l2Queues, l2Pipe, l2Events, biuVars, mssVars, envVars,
         linkVars
<1>2. TypeOK'
  BY <1>0, <1>1, BIUAssumption DEF TypeOK
<1>3. PipelineBounded'
  BY <1>0, <1>1, BoundsKept
<1>4. CreditsConserved'
  BY <1>0, <1>1 DEF CreditsConserved
<1>5. RequestsTracked'
  BY <1>0, <1>1, TrackedKept
<1>6. OneBIURequestPerLine'
  BY <1>0, <1>1, OnTheWayKept
<1>7. PhaseInv'
  BY <1>0, <1>1 DEF PhaseInv
<1>8. EventInv'
  BY <1>0, <1>1 DEF EventInv, QueueOf
<1>9. ReqInv'
  BY <1>0, <1>1, ReqKept
<1>10. BIUInv'
  <2>1. biu_busy_ /\ ~ev_handle_mss_ack_ /\ mss_req = {0} /\ mss_ack = {} /\ ~mss_busy_
        /\ ev_handle_mss_req_ = {}
    BY <1>0, <1>1 DEF BIUInv
  <2>2. mss_req' = {} /\ ev_handle_mss_req_' = {MSSLatency}
    BY <1>1, <2>1
  <2> QED
    BY <1>0, <1>1, <2>1, <2>2 DEF BIUInv
<1> QED
  BY <1>2, <1>3, <1>4, <1>5, <1>6, <1>7, <1>8, <1>9, <1>10 DEF IInv
-----------------------------------------------------------------------------
(* Events of the cycle.                                                    *)

\* A queue with something in it schedules create_Req_.
LEMMA L2HandlesReqKeeps ==
    ASSUME IInv, L2HandlesReq
    PROVE  IInv'
<1>0. /\ TypeOK /\ PipelineBounded /\ CreditsConserved /\ RequestsTracked
      /\ OneBIURequestPerLine /\ PhaseInv /\ EventInv /\ ReqInv /\ BIUInv
  BY DEF IInv
<1>1. /\ phase = "tick"
      /\ \E channel \in Units \cup {"BIU"} :
            /\ ev_handle_req' = ev_handle_req \ {channel}
            /\ ev_create_req_' = ev_create_req_ \cup (IF QueueOf(channel) # << >> THEN {0} ELSE {})
      /\ UNCHANGED <<phase, stages_due, req_queue, resp_queue, biu_req_queue_,
                     biu_resp_queue_, pipeline_req_queue_, l2cache_pipeline_,
                     inFlight_reqs_, miss_pending_buffer_, l2_cache_, l2cache_biu_credits_,
                     channel_select_, ev_handle_resp, ev_handle_l2cache_biu_req_,
                     ev_issue_req_, biu_queue, biu_busy_, ev_handle_biu_req_,
                     ev_handle_mss_ack_, mss_busy_, ev_handle_mss_req_, mss_req, mss_ack,
                     waiting, from_l2, icache_credits, credit_msgs, biu_msgs, biu_resps,
                     biu_credits>>
  BY DEF L2HandlesReq, handleReq, l2Vars, l2Queues, l2Pipe, l2Events, biuVars, mssVars,
         envVars, linkVars
<1>2. PICK channel \in Units \cup {"BIU"} :
          /\ ev_handle_req' = ev_handle_req \ {channel}
          /\ ev_create_req_' = ev_create_req_ \cup (IF QueueOf(channel) # << >> THEN {0} ELSE {})
  BY <1>1
<1>3. ev_create_req_' \subseteq {0, 1} /\ ev_handle_req' \subseteq Units \cup {"BIU"}
  BY <1>0, <1>2 DEF TypeOK
<1>4. TypeOK'
  BY <1>0, <1>1, <1>3 DEF TypeOK
<1>5. PipelineBounded'
  BY <1>0, <1>1, BoundsKept
<1>6. CreditsConserved'
  BY <1>0, <1>1 DEF CreditsConserved
<1>7. RequestsTracked'
  BY <1>0, <1>1, TrackedKept
<1>8. OneBIURequestPerLine'
  BY <1>0, <1>1, OnTheWayKept
<1>9. PhaseInv'
  BY <1>0, <1>1 DEF PhaseInv
<1>10. EventInv'
  <2>1. 1 \notin ev_create_req_ /\ 2 \notin credit_msgs
    BY <1>0, <1>1 DEF EventInv
  <2>2. ev_create_req_' # {} => \E c \in Units \cup {"BIU"} : QueueOf(c) # << >>
    <3>1. CASE QueueOf(channel) # << >>
      BY <3>1
    <3>2. CASE QueueOf(channel) = << >>
      <4>1. ev_create_req_' = ev_create_req_
        BY <1>2, <3>2
      <4> QED
        BY <1>0, <4>1 DEF EventInv
    <3> QED
      BY <3>1, <3>2
  <2>3. \A c \in Units \cup {"BIU"} : QueueOf(c)' = QueueOf(c)
    BY <1>1 DEF QueueOf
  <2>4. 1 \notin ev_create_req_'
    BY <1>2, <2>1
  <2> QED
    BY <1>0, <1>1, <2>1, <2>2, <2>3, <2>4 DEF EventInv
<1>11. ReqInv'
  BY <1>0, <1>1, ReqKept
<1>12. BIUInv'
  BY <1>0, <1>1, BIUKept DEF biuVars, mssVars
<1> QED
  BY <1>4, <1>5, <1>6, <1>7, <1>8, <1>9, <1>10, <1>11, <1>12 DEF IInv

\* A request goes to the BIU, or the event is tried again.
LEMMA L2SendsToBIUKeeps ==
    ASSUME IInv, L2SendsToBIU
    PROVE  IInv'
<1>0. /\ TypeOK /\ PipelineBounded /\ CreditsConserved /\ RequestsTracked
      /\ OneBIURequestPerLine /\ PhaseInv /\ EventInv /\ ReqInv /\ BIUInv
  BY DEF IInv
<1>1. /\ phase = "tick"
      /\ 0 \in ev_handle_l2cache_biu_req_
      /\ IF SendsToBIU
            THEN /\ biu_req_queue_' = Tail(biu_req_queue_)
                 /\ l2cache_biu_credits_' = l2cache_biu_credits_ - 1
                 /\ ev_handle_l2cache_biu_req_' = ev_handle_l2cache_biu_req_ \ {0}
                 /\ biu_msgs' = Append(biu_msgs, Head(biu_req_queue_))
            ELSE /\ ev_handle_l2cache_biu_req_' = (ev_handle_l2cache_biu_req_ \ {0}) \cup {1}
                 /\ UNCHANGED <<biu_req_queue_, l2cache_biu_credits_, biu_msgs>>
      /\ UNCHANGED <<phase, stages_due, req_queue, resp_queue, biu_resp_queue_,
                     pipeline_req_queue_, l2cache_pipeline_, inFlight_reqs_,
                     miss_pending_buffer_, l2_cache_, channel_select_, ev_handle_req,
                     ev_handle_resp, ev_create_req_, ev_issue_req_, biu_queue, biu_busy_,
                     ev_handle_biu_req_, ev_handle_mss_ack_, mss_busy_, ev_handle_mss_req_,
                     mss_req, mss_ack, waiting, from_l2, icache_credits, credit_msgs,
                     biu_resps, biu_credits>>
  BY DEF L2SendsToBIU, handle_L2Cache_BIU_Req, CreditsLeft, RetryBIU, l2Vars, l2Queues,
         l2Pipe, l2Events, biuVars, mssVars, envVars, linkVars
<1>2. /\ biu_req_queue_ \in Seq(Lines) /\ biu_msgs \in Seq(Lines) /\ l2cache_biu_credits_ \in Nat
      /\ Len(biu_req_queue_) \in Nat /\ Len(biu_msgs) \in Nat /\ biu_credits \in Nat
      /\ Len(biu_queue) \in Nat /\ inFlight_reqs_ \in Nat
  BY <1>0 DEF TypeOK
<1>3. ASSUME SendsToBIU
      PROVE  /\ biu_req_queue_ # << >> /\ Head(biu_req_queue_) \in Lines /\ l2cache_biu_credits_' \in Nat
             /\ biu_req_queue_' = Tail(biu_req_queue_)
             /\ biu_msgs' = Append(biu_msgs, Head(biu_req_queue_))
             /\ biu_req_queue_' \in Seq(Lines) /\ Len(biu_req_queue_') = Len(biu_req_queue_) - 1
             /\ biu_msgs' \in Seq(Lines) /\ Len(biu_msgs') = Len(biu_msgs) + 1
             /\ l2cache_biu_credits_' = l2cache_biu_credits_ - 1
  <2>1. biu_req_queue_ # << >> /\ l2cache_biu_credits_ > 0
    BY <1>3 DEF SendsToBIU
  <2>2. /\ Head(biu_req_queue_) \in Lines /\ Tail(biu_req_queue_) \in Seq(Lines)
        /\ Len(Tail(biu_req_queue_)) = Len(biu_req_queue_) - 1
    BY <1>2, <2>1, TailFacts
  <2>3. /\ Append(biu_msgs, Head(biu_req_queue_)) \in Seq(Lines)
        /\ Len(Append(biu_msgs, Head(biu_req_queue_))) = Len(biu_msgs) + 1
    BY <1>2, <2>2, AppendFacts
  <2>4. /\ biu_req_queue_' = Tail(biu_req_queue_)
        /\ l2cache_biu_credits_' = l2cache_biu_credits_ - 1
        /\ biu_msgs' = Append(biu_msgs, Head(biu_req_queue_))
    BY <1>1, <1>3
  <2>5. l2cache_biu_credits_' \in Nat
    BY <1>2, <2>1, <2>4
  <2> QED
    BY <2>1, <2>2, <2>3, <2>4, <2>5
<1>4. ~SendsToBIU => UNCHANGED <<biu_req_queue_, l2cache_biu_credits_, biu_msgs>>
  BY <1>1
<1>5. ev_handle_l2cache_biu_req_' \subseteq {0, 1}
  BY <1>0, <1>1 DEF TypeOK
<1>6. TypeOK'
  <2>1. /\ biu_req_queue_' \in Seq(Lines) /\ biu_msgs' \in Seq(Lines)
        /\ l2cache_biu_credits_' \in Nat
    BY <1>2, <1>3, <1>4
  <2> QED
    BY <1>0, <1>1, <1>5, <2>1 DEF TypeOK
<1>7. PipelineBounded'
  <2>1. Len(biu_req_queue_') <= Len(biu_req_queue_) /\ Len(biu_req_queue_') \in Nat
    <3>1. CASE SendsToBIU
      BY <1>2, <1>3, <3>1
    <3>2. CASE ~SendsToBIU
      BY <1>2, <1>4, <3>2
    <3> QED
      BY <3>1, <3>2
  <2>2. InPipeline' = InPipeline
    BY <1>1 DEF InPipeline
  <2>3. UNCHANGED <<inFlight_reqs_, miss_pending_buffer_>> /\ BIUReqQueueSize \in Nat
    BY <1>1, L2Assumption
  <2> QED
    BY <1>0, <1>2, <2>1, <2>2, <2>3 DEF PipelineBounded
<1>8. CreditsConserved'
  <2>0. UNCHANGED <<biu_credits, biu_queue, icache_credits, credit_msgs, req_queue>>
    BY <1>1
  <2>1. CASE SendsToBIU
    <3>1. /\ l2cache_biu_credits_' = l2cache_biu_credits_ - 1
          /\ Len(biu_msgs') = Len(biu_msgs) + 1
      BY <1>3, <2>1
    <3>2. l2cache_biu_credits_' + biu_credits + Len(biu_msgs') + Len(biu_queue)
            = l2cache_biu_credits_ + biu_credits + Len(biu_msgs) + Len(biu_queue)
      BY <1>2, <3>1
    <3> QED
      BY <1>0, <2>0, <3>2 DEF CreditsConserved
  <2>2. CASE ~SendsToBIU
    BY <1>0, <1>4, <2>0, <2>2 DEF CreditsConserved
  <2> QED
    BY <2>1, <2>2
<1>9. RequestsTracked'
  BY <1>0, <1>1, TrackedKept
<1>10. OneBIURequestPerLine'
  <2>1. CASE SendsToBIU
    <3> SUFFICES ASSUME NEW line \in Lines
                 PROVE  OnTheWay(line)' = IF FirstOnLine(line)' THEN 0 ELSE 1
      BY DEF OneBIURequestPerLine
    <3>1. /\ OnTheWay(line) = IF FirstOnLine(line) THEN 0 ELSE 1
          /\ FirstOnLine(line)' = FirstOnLine(line)
      BY <1>0, <1>1 DEF OneBIURequestPerLine, FirstOnLine, PendingOn
    <3>2. OnTheWayAdds(line)
      BY <1>0, OnTheWayParts
    <3> DEFINE b == Bit(Head(biu_req_queue_) \in {line})
    <3>3. Count(biu_msgs', {line}) = Count(biu_msgs, {line}) + b
      BY <1>2, <1>3, <2>1, CountAppend
    <3>4. Count(biu_req_queue_', {line}) = Count(biu_req_queue_, {line}) - b
      BY <1>2, <1>3, <2>1, CountTail
    <3>5. UNCHANGED <<biu_queue, biu_resps, biu_resp_queue_>> /\ b \in Nat
      BY <1>1 DEF Bit
    <3> HIDE DEF b
    <3>6. OnTheWay(line)' = OnTheWay(line)
      BY <3>2, <3>3, <3>4, <3>5 DEF OnTheWay, OnTheWayAdds
    <3> QED
      BY <3>1, <3>6
  <2>2. CASE ~SendsToBIU
    BY <1>0, <1>1, <1>4, <2>2, OnTheWayKept
  <2> QED
    BY <2>1, <2>2
<1>11. PhaseInv'
  BY <1>0, <1>1 DEF PhaseInv
<1>12. EventInv'
  BY <1>0, <1>1 DEF EventInv, QueueOf
<1>13. ReqInv'
  BY <1>0, <1>1, ReqKept
<1>14. BIUInv'
  BY <1>0, <1>1, BIUKept DEF biuVars, mssVars
<1> QED
  BY <1>6, <1>7, <1>8, <1>9, <1>10, <1>11, <1>12, <1>13, <1>14 DEF IInv

\* An answer leaves for its unit.
LEMMA L2RespondsKeeps ==
    ASSUME IInv, L2Responds
    PROVE  IInv'
<1>0. /\ TypeOK /\ PipelineBounded /\ CreditsConserved /\ RequestsTracked
      /\ OneBIURequestPerLine /\ PhaseInv /\ EventInv /\ ReqInv /\ BIUInv
  BY DEF IInv
<1>1. /\ phase = "tick"
      /\ \E v \in Units :
            /\ v \in ev_handle_resp /\ ev_handle_resp' = ev_handle_resp \ {v}
            /\ resp_queue' = [resp_queue EXCEPT ![v] = Tail(@)]
            /\ from_l2' = Append(from_l2, [unit |-> v, line |-> Head(resp_queue[v])])
      /\ UNCHANGED <<phase, stages_due, req_queue, biu_req_queue_, biu_resp_queue_,
                     pipeline_req_queue_, l2cache_pipeline_, inFlight_reqs_,
                     miss_pending_buffer_, l2_cache_, l2cache_biu_credits_, channel_select_,
                     ev_handle_req, ev_handle_l2cache_biu_req_, ev_create_req_,
                     ev_issue_req_, biu_queue, biu_busy_, ev_handle_biu_req_,
                     ev_handle_mss_ack_, mss_busy_, ev_handle_mss_req_, mss_req, mss_ack,
                     waiting, icache_credits, credit_msgs, biu_msgs, biu_resps, biu_credits>>
  BY DEF L2Responds, handleResp, l2Vars, l2Queues, l2Pipe, l2Events, biuVars, mssVars,
         envVars, linkVars
<1>2. PICK v \in Units :
          /\ v \in ev_handle_resp /\ ev_handle_resp' = ev_handle_resp \ {v}
          /\ resp_queue' = [resp_queue EXCEPT ![v] = Tail(@)]
          /\ from_l2' = Append(from_l2, [unit |-> v, line |-> Head(resp_queue[v])])
  BY <1>1
<1> DEFINE q == resp_queue[v]
           m == [unit |-> v, line |-> Head(q)]
           M == [unit : Units, line : Lines]
<1>3. /\ resp_queue \in [Units -> Seq(Lines)] /\ q \in Seq(Lines) /\ Len(q) = 1
      /\ from_l2 \in Seq(M)
  BY <1>0, <1>2 DEF TypeOK, EventInv
<1>4. /\ q # << >> /\ Head(q) \in Lines /\ Tail(q) \in Seq(Lines) /\ Len(Tail(q)) = 0 /\ m \in M
  <2>1. q # << >>
    <3>1. Len(<< >>) = 0
      OBVIOUS
    <3>2. Len(q) # 0
      BY <1>3
    <3> QED
      BY <3>1, <3>2
  <2>2. Head(q) \in Lines /\ Tail(q) \in Seq(Lines) /\ Len(Tail(q)) = Len(q) - 1
    <3> HIDE DEF q
    <3> QED
      BY <1>3, <2>1, TailFacts
  <2> QED
    BY <1>3, <2>1, <2>2
<1>5. resp_queue' \in [Units -> Seq(Lines)] /\ from_l2' \in Seq(M)
  <2>1. Append(from_l2, m) \in Seq(M)
    <3> HIDE DEF m, M
    <3> QED
      BY <1>3, <1>4, AppendFacts
  <2> QED
    BY <1>2, <1>3, <1>4, <2>1
<1> HIDE DEF q, m, M
<1>6. TypeOK'
  <2>1. ev_handle_resp' \subseteq Units
    BY <1>0, <1>2 DEF TypeOK
  <2> QED
    BY <1>0, <1>1, <1>5, <2>1 DEF TypeOK, M
<1>7. PipelineBounded'
  BY <1>0, <1>1, BoundsKept
<1>8. CreditsConserved'
  BY <1>0, <1>1 DEF CreditsConserved
<1>9. RequestsTracked'
  <2> SUFFICES ASSUME NEW u \in Units, NEW line \in Lines
               PROVE  Held(u, line)' = IF line \in waiting'[u] THEN 1 ELSE 0
    BY DEF RequestsTracked
  <2>1. Held(u, line) = (IF line \in waiting[u] THEN 1 ELSE 0) /\ waiting' = waiting
    BY <1>0, <1>1 DEF RequestsTracked
  <2> DEFINE x == [unit |-> u, line |-> line]
             b == Bit(m = x)
  <2>2. HeldAdds(u, line) /\ b \in Nat
    BY <1>0, HeldParts DEF Bit
  <2>3. Count(from_l2', {x}) = Count(from_l2, {x}) + b
    <3>1. from_l2' = Append(from_l2, m)
      BY <1>2 DEF m, q
    <3>2. Count(Append(from_l2, m), {x}) = Count(from_l2, {x}) + Bit(m \in {x})
      <4> HIDE DEF x
      <4> QED
        BY <1>3, <1>4, CountAppend
    <3> QED
      BY <3>1, <3>2 DEF Bit
  <2>4. Count(resp_queue'[u], {line}) = Count(resp_queue[u], {line}) - b
    <3>1. CASE u = v
      <4>1. resp_queue'[u] = Tail(q) /\ resp_queue[u] = q
        BY <1>2, <1>3, <3>1 DEF q
      <4>2. Count(Tail(q), {line}) = Count(q, {line}) - Bit(Head(q) \in {line})
        BY <1>3, <1>4, CountTail
      <4>3. Bit(Head(q) \in {line}) = b
        BY <3>1 DEF Bit, m
      <4> QED
        BY <4>1, <4>2, <4>3
    <3>2. CASE u # v
      <4>1. resp_queue'[u] = resp_queue[u]
        BY <1>2, <1>3, <3>2
      <4>2. b = 0
        BY <3>2 DEF Bit, m
      <4> QED
        BY <2>2, <4>1, <4>2 DEF HeldAdds
    <3> QED
      BY <3>1, <3>2
  <2>5. /\ CountInPipe(Own[u][line])' = CountInPipe(Own[u][line])
        /\ UNCHANGED <<pipeline_req_queue_, miss_pending_buffer_, req_queue>>
    BY <1>1 DEF CountInPipe, InPipeline
  <2> HIDE DEF b
  <2>6. Held(u, line)' = Held(u, line)
    BY <2>2, <2>3, <2>4, <2>5 DEF Held, HeldAdds
  <2> QED
    BY <2>1, <2>6
<1>10. OneBIURequestPerLine'
  BY <1>0, <1>1, OnTheWayKept
<1>11. PhaseInv'
  <2>1. ~stages_due
    BY <1>0, <1>2 DEF PhaseInv
  <2> QED
    BY <1>0, <1>1, <2>1 DEF PhaseInv
<1>12. EventInv'
  <2>1. \A u \in Units : Len(resp_queue'[u]) = IF u \in ev_handle_resp' THEN 1 ELSE 0
    <3> SUFFICES ASSUME NEW u \in Units
                 PROVE  Len(resp_queue'[u]) = IF u \in ev_handle_resp' THEN 1 ELSE 0
      OBVIOUS
    <3>1. CASE u = v
      BY <1>2, <1>3, <1>4, <3>1 DEF q
    <3>2. CASE u # v
      BY <1>0, <1>2, <1>3, <3>2 DEF EventInv
    <3> QED
      BY <3>1, <3>2
  <2>2. \A c \in Units \cup {"BIU"} : QueueOf(c)' = QueueOf(c)
    BY <1>1 DEF QueueOf
  <2> QED
    BY <1>0, <1>1, <2>1, <2>2 DEF EventInv
<1>13. ReqInv'
  BY <1>0, <1>1, ReqKept
<1>14. BIUInv'
  BY <1>0, <1>1, BIUKept DEF biuVars, mssVars
<1> QED
  BY <1>6, <1>7, <1>8, <1>9, <1>10, <1>11, <1>12, <1>13, <1>14 DEF IInv

\* The BIU hands the head of its queue to the MSS.
LEMMA BIUSendsKeeps ==
    ASSUME IInv, BIUSends
    PROVE  IInv'
<1>0. /\ TypeOK /\ PipelineBounded /\ CreditsConserved /\ RequestsTracked
      /\ OneBIURequestPerLine /\ PhaseInv /\ EventInv /\ ReqInv /\ BIUInv
  BY DEF IInv
<1>1. /\ phase = "tick"
      /\ ev_handle_biu_req_ /\ ~ev_handle_mss_ack_
      /\ ev_handle_biu_req_' = FALSE
      /\ biu_busy_' = TRUE
      /\ mss_req' = mss_req \cup {BIULatency + 1}
      /\ UNCHANGED <<phase, stages_due, req_queue, resp_queue, biu_req_queue_,
                     biu_resp_queue_, pipeline_req_queue_, l2cache_pipeline_,
                     inFlight_reqs_, miss_pending_buffer_, l2_cache_, l2cache_biu_credits_,
                     channel_select_, ev_handle_req, ev_handle_resp,
                     ev_handle_l2cache_biu_req_, ev_create_req_, ev_issue_req_, biu_queue,
                     ev_handle_mss_ack_, mss_busy_, ev_handle_mss_req_, mss_ack, waiting,
                     from_l2, icache_credits, credit_msgs, biu_msgs, biu_resps, biu_credits>>
  BY DEF BIUSends, handleBIUReq, l2Vars, l2Queues, l2Pipe, l2Events, biuVars, mssVars,
         envVars, linkVars
<1>2. BIULatency + 1 \in Nat /\ BIULatency + 1 # 0
  BY BIUAssumption
<1>3. /\ ~biu_busy_ /\ biu_queue # << >> /\ mss_req = {} /\ mss_ack = {} /\ ~mss_busy_
      /\ ev_handle_mss_req_ = {}
  BY <1>0, <1>1 DEF BIUInv
<1>4. mss_req' = {BIULatency + 1}
  BY <1>1, <1>3
<1>5. TypeOK'
  BY <1>0, <1>1, <1>2, <1>4 DEF TypeOK
<1>6. PipelineBounded'
  BY <1>0, <1>1, BoundsKept
<1>7. CreditsConserved'
  BY <1>0, <1>1 DEF CreditsConserved
<1>8. RequestsTracked'
  BY <1>0, <1>1, TrackedKept
<1>9. OneBIURequestPerLine'
  BY <1>0, <1>1, OnTheWayKept
<1>10. PhaseInv'
  BY <1>0, <1>1, <1>2, <1>4 DEF PhaseInv
<1>11. EventInv'
  BY <1>0, <1>1 DEF EventInv, QueueOf
<1>12. ReqInv'
  BY <1>0, <1>1, ReqKept
<1>13. BIUInv'
  BY <1>0, <1>1, <1>3, <1>4 DEF BIUInv
<1> QED
  BY <1>5, <1>6, <1>7, <1>8, <1>9, <1>10, <1>11, <1>12, <1>13 DEF IInv

\* The head of the queue of the BIU is answered and its entry becomes a credit.
LEMMA BIURespondsKeeps ==
    ASSUME IInv, BIUResponds
    PROVE  IInv'
<1>0. /\ TypeOK /\ PipelineBounded /\ CreditsConserved /\ RequestsTracked
      /\ OneBIURequestPerLine /\ PhaseInv /\ EventInv /\ ReqInv /\ BIUInv
  BY DEF IInv
<1>1. /\ phase = "tick"
      /\ ev_handle_mss_ack_
      /\ ev_handle_mss_ack_' = FALSE
      /\ biu_queue' = Tail(biu_queue)
      /\ biu_busy_' = FALSE
      /\ ev_handle_biu_req_' = (ev_handle_biu_req_ \/ biu_queue' # << >>)
      /\ biu_resps' = biu_resps \cup {[line |-> Head(biu_queue), due |-> BIULatency + 1]}
      /\ biu_credits' = biu_credits + 1
      /\ UNCHANGED <<phase, stages_due, req_queue, resp_queue, biu_req_queue_,
                     biu_resp_queue_, pipeline_req_queue_, l2cache_pipeline_,
                     inFlight_reqs_, miss_pending_buffer_, l2_cache_, l2cache_biu_credits_,
                     channel_select_, ev_handle_req, ev_handle_resp,
                     ev_handle_l2cache_biu_req_, ev_create_req_, ev_issue_req_, mss_busy_,
                     ev_handle_mss_req_, mss_req, mss_ack, waiting, from_l2, icache_credits,
                     credit_msgs, biu_msgs>>
  BY DEF BIUResponds, handleMSSAck, Answered, l2Vars, l2Queues, l2Pipe, l2Events, biuVars,
         mssVars, envVars, linkVars
<1> DEFINE l == Head(biu_queue)
           r == [line |-> l, due |-> BIULatency + 1]
<1>2. BIULatency + 1 \in Nat /\ BIULatency + 1 > 0
  BY BIUAssumption
<1>3. biu_queue \in Seq(Lines) /\ biu_queue # << >> /\ biu_busy_ /\ ~ev_handle_biu_req_
      /\ mss_req = {} /\ mss_ack = {} /\ ~mss_busy_ /\ ev_handle_mss_req_ = {}
  BY <1>0, <1>1 DEF TypeOK, BIUInv
<1>4. l \in Lines /\ Tail(biu_queue) \in Seq(Lines) /\ Len(Tail(biu_queue)) = Len(biu_queue) - 1
      /\ Len(biu_queue) \in Nat
  BY <1>3, TailFacts
<1>5. r \in [line : Lines, due : Nat] /\ r.line = l /\ r.due > 0
  BY <1>2, <1>4
<1>6. biu_resps' = biu_resps \cup {r}
  BY <1>1
<1> HIDE DEF r, l
<1>7. TypeOK'
  <2>1. ev_handle_biu_req_' \in BOOLEAN
    BY <1>1, Zenon
  <2>2. biu_credits' \in Nat /\ biu_queue' \in Seq(Lines)
    BY <1>0, <1>1, <1>4 DEF TypeOK
  <2>3. biu_resps' \subseteq [line : Lines, due : Nat]
    BY <1>0, <1>5, <1>6 DEF TypeOK
  <2>4. ev_handle_mss_ack_' \in BOOLEAN /\ biu_busy_' \in BOOLEAN
    BY <1>1
  <2>5. UNCHANGED <<phase, stages_due, req_queue, resp_queue, biu_req_queue_, biu_resp_queue_,
                    pipeline_req_queue_, l2cache_pipeline_, inFlight_reqs_,
                    miss_pending_buffer_, l2_cache_, l2cache_biu_credits_, channel_select_,
                    ev_handle_req, ev_handle_resp, ev_handle_l2cache_biu_req_, ev_create_req_,
                    ev_issue_req_, mss_busy_, ev_handle_mss_req_, mss_req, mss_ack,
                    waiting, from_l2, icache_credits, credit_msgs, biu_msgs>>
    BY <1>1
  <2> QED
    BY <1>0, <2>1, <2>2, <2>3, <2>4, <2>5 DEF TypeOK
<1>8. PipelineBounded'
  BY <1>0, <1>1, BoundsKept
<1>9. CreditsConserved'
  <2>1. l2cache_biu_credits_ \in Nat /\ biu_credits \in Nat /\ Len(biu_msgs) \in Nat
    BY <1>0 DEF TypeOK
  <2> QED
    BY <1>0, <1>1, <1>4, <2>1 DEF CreditsConserved
<1>10. RequestsTracked'
  BY <1>0, <1>1, TrackedKept
<1>11. OneBIURequestPerLine'
  <2> SUFFICES ASSUME NEW line \in Lines
               PROVE  OnTheWay(line)' = IF FirstOnLine(line)' THEN 0 ELSE 1
    BY DEF OneBIURequestPerLine
  <2>1. /\ OnTheWay(line) = IF FirstOnLine(line) THEN 0 ELSE 1
        /\ FirstOnLine(line)' = FirstOnLine(line)
    BY <1>0, <1>1 DEF OneBIURequestPerLine, FirstOnLine, PendingOn
  <2>2. OnTheWayAdds(line)
    BY <1>0, OnTheWayParts
  <2> DEFINE b == Bit(l = line)
  <2>3. Count(biu_queue', {line}) = Count(biu_queue, {line}) - b
    <3>1. Count(Tail(biu_queue), {line}) = Count(biu_queue, {line}) - Bit(Head(biu_queue) \in {line})
      BY <1>3, CountTail
    <3> QED
      BY <1>1, <3>1 DEF Bit, l
  <2> DEFINE A == {x \in biu_resps : x.line = line}
             B == {x \in biu_resps' : x.line = line}
  <2>4. Cardinality(B) = Cardinality(A) + b
    <3>1. IsFiniteSet(A) /\ Cardinality(A) \in Nat
      BY <2>2 DEF OnTheWayAdds
    <3>2. CASE l = line
      <4>1. Count(biu_queue, {line}) \in Nat \ {0}
        BY <1>3, <3>2, CountHead DEF l
      <4>2. Cardinality(A) = 0
        <5>1. OnTheWay(line) <= 1
          BY <2>1
        <5>2. OnTheWay(line) = Count(biu_req_queue_, {line}) + Count(biu_msgs, {line})
                  + Count(biu_queue, {line}) + Cardinality(A) + Count(biu_resp_queue_, {line})
          BY DEF OnTheWay
        <5>3. /\ Count(biu_req_queue_, {line}) \in Nat /\ Count(biu_msgs, {line}) \in Nat
              /\ Count(biu_resp_queue_, {line}) \in Nat
          BY <2>2 DEF OnTheWayAdds
        <5> HIDE DEF A
        <5> QED
          BY <3>1, <4>1, <5>1, <5>2, <5>3
      <4>3. A = {}
        BY <3>1, <4>2, FS_EmptySet
      <4>4. B = {r}
        BY <1>5, <1>6, <3>2, <4>3
      <4>5. Cardinality(B) = 1
        BY <4>4, FS_Singleton
      <4> QED
        BY <3>2, <4>2, <4>5 DEF Bit
    <3>3. CASE l # line
      <4>1. B = A
        BY <1>5, <1>6, <3>3
      <4>2. Cardinality(B) = Cardinality(A)
        BY <4>1
      <4> QED
        BY <3>1, <3>3, <4>2 DEF Bit
    <3> QED
      BY <3>2, <3>3
  <2>5. UNCHANGED <<biu_req_queue_, biu_msgs, biu_resp_queue_>> /\ b \in Nat
    BY <1>1 DEF Bit
  <2> HIDE DEF b
  <2>6. OnTheWay(line)' = OnTheWay(line)
    BY <2>2, <2>3, <2>4, <2>5 DEF OnTheWay, OnTheWayAdds
  <2> QED
    BY <2>1, <2>6
<1>12. PhaseInv'
  <2>1. IsFiniteSet(biu_resps')
    BY <1>0, <1>6, FS_AddElement DEF PhaseInv
  <2>2. phase' # "port" => \A x \in biu_resps' : x.due > 0
    BY <1>0, <1>1, <1>5, <1>6 DEF PhaseInv
  <2>3. UNCHANGED <<phase, stages_due, ev_handle_l2cache_biu_req_, ev_handle_mss_req_, credit_msgs,
                    mss_req, mss_ack, ev_handle_resp, l2_cache_>>
    BY <1>1
  <2> QED
    BY <1>0, <2>1, <2>2, <2>3 DEF PhaseInv
<1>13. EventInv'
  <2>1. UNCHANGED <<ev_create_req_, credit_msgs, phase, l2cache_pipeline_, ev_issue_req_,
                    req_queue, biu_resp_queue_, resp_queue, ev_handle_resp>>
    BY <1>1
  <2> QED
    BY <1>0, <2>1 DEF EventInv, QueueOf
<1>14. ReqInv'
  BY <1>0, <1>1, ReqKept
<1>15. BIUInv'
  <2>1. ev_handle_biu_req_' => biu_queue' # << >>
    BY <1>1, <1>3
  <2>2. UNCHANGED <<mss_busy_, ev_handle_mss_req_, mss_req, mss_ack>> /\ ~ev_handle_mss_ack_'
        /\ ~biu_busy_'
    BY <1>1
  <2> QED
    BY <1>3, <2>1, <2>2 DEF BIUInv
<1> QED
  BY <1>7, <1>8, <1>9, <1>10, <1>11, <1>12, <1>13, <1>14, <1>15 DEF IInv

\* The MSS has handled its request.
LEMMA MSSRespondsKeeps ==
    ASSUME IInv, MSSResponds
    PROVE  IInv'
<1>0. /\ TypeOK /\ PipelineBounded /\ CreditsConserved /\ RequestsTracked
      /\ OneBIURequestPerLine /\ PhaseInv /\ EventInv /\ ReqInv /\ BIUInv
  BY DEF IInv
<1>1. /\ phase = "tick"
      /\ 0 \in ev_handle_mss_req_
      /\ ev_handle_mss_req_' = ev_handle_mss_req_ \ {0}
      /\ mss_busy_' = FALSE
      /\ mss_ack' = mss_ack \cup {1}
      /\ UNCHANGED <<phase, stages_due, req_queue, resp_queue, biu_req_queue_,
                     biu_resp_queue_, pipeline_req_queue_, l2cache_pipeline_,
                     inFlight_reqs_, miss_pending_buffer_, l2_cache_, l2cache_biu_credits_,
                     channel_select_, ev_handle_req, ev_handle_resp,
                     ev_handle_l2cache_biu_req_, ev_create_req_, ev_issue_req_, biu_queue,
                     biu_busy_, ev_handle_biu_req_, ev_handle_mss_ack_, mss_req, waiting,
                     from_l2, icache_credits, credit_msgs, biu_msgs, biu_resps, biu_credits>>
  BY DEF MSSResponds, handle_MSS_req, l2Vars, l2Queues, l2Pipe, l2Events, biuVars, mssVars,
         envVars, linkVars
<1>2. biu_busy_ /\ ~ev_handle_mss_ack_ /\ mss_req = {} /\ mss_ack = {} /\ ev_handle_mss_req_ = {0}
  BY <1>0, <1>1 DEF BIUInv
<1>3. mss_ack' = {1} /\ ev_handle_mss_req_' = {}
  BY <1>1, <1>2
<1>4. TypeOK'
  <2>1. mss_ack' \subseteq Nat /\ ev_handle_mss_req_' \subseteq Nat
    BY <1>3
  <2>2. mss_busy_' \in BOOLEAN
    BY <1>1
  <2> QED
    BY <1>0, <1>1, <2>1, <2>2 DEF TypeOK
<1>5. PipelineBounded'
  BY <1>0, <1>1, BoundsKept
<1>6. CreditsConserved'
  BY <1>0, <1>1 DEF CreditsConserved
<1>7. RequestsTracked'
  BY <1>0, <1>1, TrackedKept
<1>8. OneBIURequestPerLine'
  BY <1>0, <1>1, OnTheWayKept
<1>9. PhaseInv'
  BY <1>0, <1>1, <1>3 DEF PhaseInv
<1>10. EventInv'
  BY <1>0, <1>1 DEF EventInv, QueueOf
<1>11. ReqInv'
  BY <1>0, <1>1, ReqKept
<1>12. BIUInv'
  BY <1>0, <1>1, <1>2, <1>3 DEF BIUInv
<1> QED
  BY <1>4, <1>5, <1>6, <1>7, <1>8, <1>9, <1>10, <1>11, <1>12 DEF IInv
-----------------------------------------------------------------------------
(* Requests in the pipeline.                                               *)

\* The requests of a unit for a line.
LEMMA OwnFacts ==
    ASSUME NEW u \in Units, NEW line \in Lines
    PROVE  /\ Own[u][line] = {r \in ReqType : Owner(r) = u /\ r.line = line}
           /\ NoReq \notin Own[u][line] /\ NoReq \notin ReqType
<1>1. Own[u][line] = {r \in ReqType : Owner(r) = u /\ r.line = line}
  BY DEF Own
<1> QED
  BY <1>1, MemorySystemAssumption

\* The places of InPipeline that hold something of a set of requests.
LEMMA InPipeSlots ==
    ASSUME TypeOK
    PROVE  /\ \A T : NoReq \notin T =>
                 CountInPipe(T) = Cardinality(Slots(l2cache_pipeline_, stages_due, T))
           /\ Cardinality(InPipeline) = Cardinality(Slots(l2cache_pipeline_, stages_due, ReqType))
<1>1. ASSUME NEW T, NoReq \notin T
      PROVE  CountInPipe(T) = Cardinality(Slots(l2cache_pipeline_, stages_due, T))
  <2>1. {k \in InPipeline : l2cache_pipeline_[k] \in T} = Slots(l2cache_pipeline_, stages_due, T)
    BY <1>1 DEF InPipeline, Slots, HIT_MISS_HANDLING
  <2> QED
    BY <2>1 DEF CountInPipe
<1>2. InPipeline = Slots(l2cache_pipeline_, stages_due, ReqType)
  BY MemorySystemAssumption DEF TypeOK, InPipeline, Slots, HIT_MISS_HANDLING
<1> QED
  BY <1>1, <1>2

\* The same in the next state.
LEMMA InPipeSlotsNext ==
    ASSUME TypeOK'
    PROVE  /\ \A T : NoReq \notin T =>
                 CountInPipe(T)' = Cardinality(Slots(l2cache_pipeline_', stages_due', T))
           /\ Cardinality(InPipeline') = Cardinality(Slots(l2cache_pipeline_', stages_due', ReqType))
<1>1. ASSUME NEW CONSTANT T, NoReq \notin T
      PROVE  CountInPipe(T)' = Cardinality(Slots(l2cache_pipeline_', stages_due', T))
  <2>1. {k \in InPipeline' : l2cache_pipeline_'[k] \in T} = Slots(l2cache_pipeline_', stages_due', T)
    BY <1>1 DEF InPipeline, Slots, HIT_MISS_HANDLING
  <2> QED
    BY <2>1 DEF CountInPipe
<1>2. InPipeline' = Slots(l2cache_pipeline_', stages_due', ReqType)
  BY MemorySystemAssumption DEF TypeOK, InPipeline, Slots, HIT_MISS_HANDLING
<1> QED
  BY <1>1, <1>2

\* The number of requests in the pipeline is a natural number, and a request in a stage
\* is a request.
LEMMA PipelineTypes ==
    ASSUME IInv
    PROVE  /\ \A k \in InPipeline : l2cache_pipeline_[k] \in ReqType
           /\ Len(miss_pending_buffer_) \in Nat /\ Len(biu_req_queue_) \in Nat
           /\ inFlight_reqs_ \in Nat
<1>1. TypeOK
  BY DEF IInv
<1>2. /\ l2cache_pipeline_ \in [0..NumStages -> ReqType \cup {NoReq}]
      /\ miss_pending_buffer_ \in Seq(ReqType) /\ biu_req_queue_ \in Seq(Lines)
      /\ inFlight_reqs_ \in Nat
  BY <1>1 DEF TypeOK
<1>3. \A k \in InPipeline : l2cache_pipeline_[k] \in ReqType
  BY <1>2 DEF InPipeline
<1> QED
  BY <1>2, <1>3, SeqFacts

\* A request enters the pipeline when it and all in it could miss.
LEMMA L2IssuesKeeps ==
    ASSUME IInv, L2Issues
    PROVE  IInv'
<1>0. /\ TypeOK /\ PipelineBounded /\ CreditsConserved /\ RequestsTracked
      /\ OneBIURequestPerLine /\ PhaseInv /\ EventInv /\ ReqInv /\ BIUInv
  BY DEF IInv
<1>1. /\ phase = "post"
      /\ 0 \in ev_issue_req_
      /\ IF hasCreditsForPipelineIssue /\ pipeline_req_queue_ # << >>
         THEN /\ l2cache_pipeline_' = [l2cache_pipeline_ EXCEPT ![0] = Head(pipeline_req_queue_)]
              /\ inFlight_reqs_' = inFlight_reqs_ + 1
              /\ pipeline_req_queue_' = Tail(pipeline_req_queue_)
         ELSE UNCHANGED <<l2cache_pipeline_, inFlight_reqs_, pipeline_req_queue_>>
      /\ ev_issue_req_' = (ev_issue_req_ \ {0}) \cup (IF pipeline_req_queue_' # << >> THEN {1} ELSE {})
      /\ UNCHANGED <<phase, stages_due, req_queue, resp_queue, biu_req_queue_,
                     biu_resp_queue_, miss_pending_buffer_, l2_cache_, l2cache_biu_credits_,
                     channel_select_, ev_handle_req, ev_handle_resp,
                     ev_handle_l2cache_biu_req_, ev_create_req_, biu_queue, biu_busy_,
                     ev_handle_biu_req_, ev_handle_mss_ack_, mss_busy_, ev_handle_mss_req_,
                     mss_req, mss_ack, waiting, from_l2, icache_credits, credit_msgs,
                     biu_msgs, biu_resps, biu_credits>>
  BY DEF L2Issues, issue_Req, l2Vars, l2Queues, l2Pipe, l2Events, biuVars, mssVars, envVars,
         linkVars
<1>2. /\ l2cache_pipeline_ \in [0..NumStages -> ReqType \cup {NoReq}] /\ l2cache_pipeline_[0] = NoReq
      /\ pipeline_req_queue_ \in Seq(Fresh) /\ pipeline_req_queue_ \in Seq(ReqType)
      /\ 0 \in 0..NumStages /\ 0 # NumStages /\ 0 # NumStages - 1
      /\ Fresh \subseteq ReqType /\ ~stages_due
  <2>1. l2cache_pipeline_ \in [0..NumStages -> ReqType \cup {NoReq}]
        /\ pipeline_req_queue_ \in Seq(ReqType)
    BY <1>0 DEF TypeOK
  <2>2. l2cache_pipeline_[0] = NoReq
    BY <1>0, <1>1 DEF EventInv
  <2>3. pipeline_req_queue_ \in Seq(Fresh) /\ Fresh \subseteq ReqType
    BY <1>0 DEF ReqInv, Fresh
  <2>4. 0 \in 0..NumStages /\ 0 # NumStages /\ 0 # NumStages - 1
    BY L2Assumption
  <2>5. ~stages_due
    BY <1>0, <1>1 DEF PhaseInv
  <2> QED
    BY <2>1, <2>2, <2>3, <2>4, <2>5
<1>3. /\ Len(miss_pending_buffer_) \in Nat /\ Len(biu_req_queue_) \in Nat /\ inFlight_reqs_ \in Nat
      /\ BIUReqQueueSize \in Nat /\ MissBufferSize \in Nat
  BY PipelineTypes, L2Assumption
<1>4. ev_issue_req_' \subseteq {0, 1} /\ 0 \notin ev_issue_req_'
  BY <1>0, <1>1 DEF TypeOK
<1> DEFINE issues == hasCreditsForPipelineIssue /\ pipeline_req_queue_ # << >>
           r == Head(pipeline_req_queue_)
<1>5. ASSUME issues
      PROVE  /\ pipeline_req_queue_ # << >> /\ r \in Fresh /\ r \in ReqType
             /\ l2cache_pipeline_' = [l2cache_pipeline_ EXCEPT ![0] = r]
             /\ inFlight_reqs_' = inFlight_reqs_ + 1
             /\ pipeline_req_queue_' = Tail(pipeline_req_queue_)
             /\ pipeline_req_queue_' \in Seq(Fresh) /\ pipeline_req_queue_' \in Seq(ReqType)
  <2>1. /\ pipeline_req_queue_ # << >>
        /\ l2cache_pipeline_' = [l2cache_pipeline_ EXCEPT ![0] = r]
        /\ inFlight_reqs_' = inFlight_reqs_ + 1
        /\ pipeline_req_queue_' = Tail(pipeline_req_queue_)
    BY <1>1, <1>5
  <2>2. r \in Fresh /\ Tail(pipeline_req_queue_) \in Seq(Fresh)
    BY <1>2, <2>1, TailFacts
  <2>3. Tail(pipeline_req_queue_) \in Seq(ReqType)
    BY <1>2, <2>1, TailFacts
  <2> QED
    BY <1>2, <2>1, <2>2, <2>3
<1>6. ~issues => UNCHANGED <<l2cache_pipeline_, inFlight_reqs_, pipeline_req_queue_>>
  BY <1>1
<1>7. UNCHANGED <<stages_due, phase, miss_pending_buffer_, biu_req_queue_, resp_queue, req_queue, from_l2,
                  waiting, credit_msgs, ev_create_req_, biu_resp_queue_, ev_handle_resp>>
  BY <1>1
<1> HIDE DEF issues
<1>8. TypeOK'
  <2>1. CASE issues
    <3>1. /\ l2cache_pipeline_' \in [0..NumStages -> ReqType \cup {NoReq}]
          /\ inFlight_reqs_' \in Nat /\ pipeline_req_queue_' \in Seq(ReqType)
      BY <1>2, <1>3, <1>5, <2>1
    <3> QED
      BY <1>0, <1>1, <1>4, <3>1 DEF TypeOK
  <2>2. CASE ~issues
    BY <1>0, <1>1, <1>4, <1>6, <2>2 DEF TypeOK
  <2> QED
    BY <2>1, <2>2
<1>9. ASSUME issues
      PROVE  \A T : NoReq \notin T =>
               Cardinality(Slots(l2cache_pipeline_', stages_due', T))
                 = Cardinality(Slots(l2cache_pipeline_, stages_due, T)) + Bit(r \in T)
  <2> SUFFICES ASSUME NEW T, NoReq \notin T
               PROVE  Cardinality(Slots(l2cache_pipeline_', stages_due, T))
                        = Cardinality(Slots(l2cache_pipeline_, stages_due, T)) + Bit(r \in T)
    BY <1>7
  <2> DEFINE p == l2cache_pipeline_
             q == l2cache_pipeline_'
  <2>1. p[0] \notin T /\ q[0] = r /\ \A k \in 1..NumStages : q[k] = p[k]
    <3>1. \A k \in 1..NumStages : k \in 0..NumStages /\ k # 0
      BY L2Assumption
    <3>2. l2cache_pipeline_' = [l2cache_pipeline_ EXCEPT ![0] = r]
      BY <1>5, <1>9
    <3> HIDE DEF r
    <3> QED
      BY <1>2, <3>1, <3>2
  <2> HIDE DEF p, q, r
  <2>2. Cardinality(Slots(q, stages_due, T)) = Cardinality(Slots(p, stages_due, T)) + Bit(r \in T)
    BY <2>1, SlotsIssue
  <2> QED
    BY <2>2 DEF p, q
<1> HIDE DEF r
<1>10. TypeOK'
  BY <1>8
<1>11. PipelineBounded'
  <2>1. CASE issues
    <3>1. /\ inFlight_reqs_' = inFlight_reqs_ + 1
          /\ inFlight_reqs_ < BIUReqQueueSize - Len(biu_req_queue_)
          /\ inFlight_reqs_ < MissBufferSize - Len(miss_pending_buffer_)
      BY <1>5, <2>1 DEF issues, hasCreditsForPipelineIssue
    <3>2. Cardinality(InPipeline') = Cardinality(InPipeline) + 1
      <4>1. NoReq \notin ReqType /\ r \in ReqType
        BY <1>5, <2>1, MemorySystemAssumption
      <4>2. Cardinality(Slots(l2cache_pipeline_', stages_due', ReqType))
              = Cardinality(Slots(l2cache_pipeline_, stages_due, ReqType)) + Bit(r \in ReqType)
        BY <1>9, <2>1, <4>1
      <4>3. Bit(r \in ReqType) = 1
        BY <4>1 DEF Bit
      <4>4. /\ Cardinality(InPipeline') = Cardinality(Slots(l2cache_pipeline_', stages_due', ReqType))
            /\ Cardinality(InPipeline) = Cardinality(Slots(l2cache_pipeline_, stages_due, ReqType))
        BY <1>0, <1>8, InPipeSlots, InPipeSlotsNext
      <4> QED
        BY <4>2, <4>3, <4>4
    <3> QED
      BY <1>0, <1>3, <1>7, <3>1, <3>2 DEF PipelineBounded
  <2>2. CASE ~issues
    BY <1>0, <1>6, <1>7, <2>2, BoundsKept
  <2> QED
    BY <2>1, <2>2
<1>12. CreditsConserved'
  BY <1>0, <1>1 DEF CreditsConserved
<1>13. RequestsTracked'
  <2>1. CASE issues
    <3> SUFFICES ASSUME NEW u \in Units, NEW line \in Lines
                 PROVE  Held(u, line)' = IF line \in waiting'[u] THEN 1 ELSE 0
      BY DEF RequestsTracked
    <3>1. Held(u, line) = (IF line \in waiting[u] THEN 1 ELSE 0) /\ waiting' = waiting
      BY <1>0, <1>7 DEF RequestsTracked
    <3> DEFINE b == Bit(r \in Own[u][line])
    <3>2. HeldAdds(u, line) /\ b \in Nat
      BY <1>0, HeldParts DEF Bit
    <3>3. Count(pipeline_req_queue_', Own[u][line]) = Count(pipeline_req_queue_, Own[u][line]) - b
      BY <1>2, <1>5, <2>1, CountTail DEF r
    <3>4. CountInPipe(Own[u][line])' = CountInPipe(Own[u][line]) + b
      <4>1. NoReq \notin Own[u][line]
        BY OwnFacts
      <4>2. Cardinality(Slots(l2cache_pipeline_', stages_due', Own[u][line]))
              = Cardinality(Slots(l2cache_pipeline_, stages_due, Own[u][line])) + b
        BY <1>9, <2>1, <4>1
      <4>3. CountInPipe(Own[u][line])
              = Cardinality(Slots(l2cache_pipeline_, stages_due, Own[u][line]))
        BY <1>0, <4>1, InPipeSlots
      <4>4. CountInPipe(Own[u][line])'
              = Cardinality(Slots(l2cache_pipeline_', stages_due', Own[u][line]))
        BY <1>8, <4>1, InPipeSlotsNext
      <4> QED
        BY <4>2, <4>3, <4>4
    <3> HIDE DEF b
    <3>5. Held(u, line)' = Held(u, line)
      BY <1>7, <3>2, <3>3, <3>4 DEF Held, HeldAdds
    <3> QED
      BY <3>1, <3>5
  <2>2. CASE ~issues
    BY <1>0, <1>6, <1>7, <2>2, TrackedKept
  <2> QED
    BY <2>1, <2>2
<1>14. OneBIURequestPerLine'
  BY <1>0, <1>1, OnTheWayKept
<1>15. PhaseInv'
  BY <1>0, <1>1 DEF PhaseInv
<1>16. EventInv'
  <2>1. \A c \in Units \cup {"BIU"} : QueueOf(c)' = QueueOf(c)
    BY <1>7 DEF QueueOf
  <2> QED
    BY <1>0, <1>1, <1>4, <1>7, <2>1 DEF EventInv
<1>17. ReqInv'
  <2>1. CASE issues
    <3>1. ASSUME NEW k \in InPipeline'
          PROVE  l2cache_pipeline_'[k] \in IF k = HIT_MISS_HANDLING \/ (k = CACHE_LOOKUP /\ ~stages_due')
                                           THEN Looked ELSE Fresh
      <4>1. CASE k = 0
        <5>1. l2cache_pipeline_'[k] = r /\ r \in Fresh
          BY <1>2, <1>5, <2>1, <4>1 DEF r
        <5> QED
          BY <1>2, <4>1, <5>1 DEF HIT_MISS_HANDLING, CACHE_LOOKUP
      <4>2. CASE k # 0
        <5>1. k \in 0..NumStages /\ l2cache_pipeline_'[k] = l2cache_pipeline_[k]
          BY <1>2, <1>5, <2>1, <4>2 DEF InPipeline
        <5>2. k \in InPipeline
          BY <1>7, <3>1, <5>1 DEF InPipeline
        <5> QED
          BY <1>0, <1>7, <5>1, <5>2 DEF ReqInv
      <4> QED
        BY <4>1, <4>2
    <3>2. pipeline_req_queue_' \in Seq(Fresh)
      BY <1>5, <2>1
    <3> QED
      BY <1>0, <1>7, <3>1, <3>2 DEF ReqInv
  <2>2. CASE ~issues
    BY <1>0, <1>6, <1>7, <2>2, ReqKept
  <2> QED
    BY <2>1, <2>2
<1>18. BIUInv'
  BY <1>0, <1>1, BIUKept DEF biuVars, mssVars
<1> QED
  BY <1>10, <1>11, <1>12, <1>13, <1>14, <1>15, <1>16, <1>17, <1>18 DEF IInv

\* Requests for a line, whosever they are.
OfLine(line) == {r \in ReqType : r.line = line}

\* The misses on a line are places of miss_pending_buffer_.
LEMMA PendingIsCount ==
    ASSUME TypeOK, NEW line
    PROVE  /\ Cardinality(PendingOn(line)) = Count(miss_pending_buffer_, OfLine(line))
           /\ FirstOnLine(line) <=> Count(miss_pending_buffer_, OfLine(line)) = 0
           /\ Count(miss_pending_buffer_, OfLine(line)) \in Nat
<1>1. miss_pending_buffer_ \in Seq(ReqType)
  BY DEF TypeOK
<1>2. PendingOn(line) = {k \in DOMAIN miss_pending_buffer_ : miss_pending_buffer_[k] \in OfLine(line)}
  BY <1>1, SeqFacts DEF PendingOn, OfLine
<1>3. /\ Count(miss_pending_buffer_, OfLine(line)) \in Nat
      /\ Count(miss_pending_buffer_, OfLine(line)) = 0
           <=> \A k \in DOMAIN miss_pending_buffer_ : miss_pending_buffer_[k] \notin OfLine(line)
  BY <1>1, CountIsNat
<1> QED
  BY <1>2, <1>3 DEF Count, FirstOnLine

\* The same in the next state.
LEMMA PendingIsCountNext ==
    ASSUME TypeOK', NEW CONSTANT line
    PROVE  FirstOnLine(line)' <=> Count(miss_pending_buffer_', OfLine(line)) = 0
<1>1. miss_pending_buffer_' \in Seq(ReqType)
  BY DEF TypeOK
<1>2. PendingOn(line)' = {k \in DOMAIN miss_pending_buffer_' : miss_pending_buffer_'[k] \in OfLine(line)}
  BY <1>1, SeqFacts DEF PendingOn, OfLine
<1>3. Count(miss_pending_buffer_', OfLine(line)) = 0
        <=> \A k \in DOMAIN miss_pending_buffer_' : miss_pending_buffer_'[k] \notin OfLine(line)
  BY <1>1, CountIsNat
<1> QED
  BY <1>2, <1>3 DEF FirstOnLine

\* A reload keeps the cache within its size.
LEMMA ReloadFits ==
    ASSUME IsFiniteSet(l2_cache_), l2_cache_ \subseteq Lines, Cardinality(l2_cache_) <= L2Lines,
           NEW line \in Lines, NEW c \in Reload(line)
    PROVE  IsFiniteSet(c) /\ c \subseteq Lines /\ Cardinality(c) <= L2Lines
<1>1. Cardinality(l2_cache_) \in Nat /\ L2Lines \in Nat
  BY FS_CardinalityType, L2Assumption
<1>2. CASE Cardinality(l2_cache_) < L2Lines
  <2>1. c = l2_cache_ \cup {line}
    BY <1>2 DEF Reload
  <2>2. /\ IsFiniteSet(l2_cache_ \cup {line})
        /\ Cardinality(l2_cache_ \cup {line})
             = IF line \in l2_cache_ THEN Cardinality(l2_cache_) ELSE Cardinality(l2_cache_) + 1
    BY FS_AddElement
  <2>3. Cardinality(l2_cache_ \cup {line}) <= L2Lines
    BY <1>1, <1>2, <2>2
  <2> QED
    BY <2>1, <2>2, <2>3
<1>3. CASE ~(Cardinality(l2_cache_) < L2Lines)
  <2>1. PICK victim \in l2_cache_ : c = (l2_cache_ \ {victim}) \cup {line}
    BY <1>3 DEF Reload
  <2> DEFINE d == l2_cache_ \ {victim}
  <2>2. IsFiniteSet(d) /\ Cardinality(d) = Cardinality(l2_cache_) - 1
    BY FS_RemoveElement
  <2> HIDE DEF d
  <2>3. /\ IsFiniteSet(d \cup {line})
        /\ Cardinality(d \cup {line}) = IF line \in d THEN Cardinality(d) ELSE Cardinality(d) + 1
    BY <2>2, FS_AddElement
  <2>4. Cardinality(d \cup {line}) <= L2Lines
    BY <1>1, <2>2, <2>3
  <2>5. c = d \cup {line}
    BY <2>1 DEF d
  <2>6. c \subseteq Lines
    BY <2>1
  <2> QED
    BY <2>3, <2>4, <2>5, <2>6
<1> QED
  BY <1>2, <1>3

\* A request whose lookup is done keeps its unit and its line.
LEMMA LookedUp ==
    ASSUME NEW r \in Fresh, NEW st \in {"HIT", "MISS"}, r.state = "RELOAD" => st = "HIT"
    PROVE  /\ [r EXCEPT !.state = st] \in Looked
           /\ \A u \in Units, line \in Lines :
                [r EXCEPT !.state = st] \in Own[u][line] <=> r \in Own[u][line]
<1> DEFINE x == [r EXCEPT !.state = st]
<1>1. r \in ReqType /\ r.dest \in Units
      /\ ((r.src = r.dest /\ r.state = "NO_ACCESS") \/ (r.src = "BIU" /\ r.state = "RELOAD"))
  BY DEF Fresh
<1>2. x \in ReqType /\ x.src = r.src /\ x.dest = r.dest /\ x.line = r.line /\ x.state = st
  BY <1>1 DEF ReqType
<1>3. Owner(x) = Owner(r)
  BY <1>2 DEF Owner
<1> HIDE DEF x
<1>4. x \in Looked
  BY <1>1, <1>2 DEF Looked
<1>5. \A u \in Units, line \in Lines : x \in Own[u][line] <=> r \in Own[u][line]
  BY <1>1, <1>2, <1>3, OwnFacts
<1> QED
  BY <1>4, <1>5 DEF x

\* What the lookup of a cycle does to the pipeline and to the cache.
LEMMA LookupFacts ==
    ASSUME IInv, stages_due, handleCacheAccessRequest
    PROVE  /\ l2cache_pipeline_' \in [0..NumStages -> ReqType \cup {NoReq}]
           /\ \A k \in 0..NumStages : k # CACHE_LOOKUP => l2cache_pipeline_'[k] = l2cache_pipeline_[k]
           /\ l2cache_pipeline_'[CACHE_LOOKUP] = NoReq <=> l2cache_pipeline_[CACHE_LOOKUP] = NoReq
           /\ l2cache_pipeline_'[CACHE_LOOKUP] # NoReq => l2cache_pipeline_'[CACHE_LOOKUP] \in Looked
           /\ \A u \in Units, line \in Lines, k \in 0..NumStages :
                l2cache_pipeline_'[k] \in Own[u][line] <=> l2cache_pipeline_[k] \in Own[u][line]
           /\ IsFiniteSet(l2_cache_') /\ l2_cache_' \subseteq Lines
           /\ Cardinality(l2_cache_') <= L2Lines
<1> DEFINE p == l2cache_pipeline_
           r == p[CACHE_LOOKUP]
           hit == cacheLookup(r)
           st == IF hit \/ r.state = "RELOAD" THEN "HIT" ELSE "MISS"
<1>1. /\ p \in [0..NumStages -> ReqType \cup {NoReq}] /\ NoReq \notin ReqType
      /\ CACHE_LOOKUP \in 0..NumStages /\ CACHE_LOOKUP # HIT_MISS_HANDLING
      /\ IsFiniteSet(l2_cache_) /\ l2_cache_ \subseteq Lines /\ Cardinality(l2_cache_) <= L2Lines
  <2>1. CACHE_LOOKUP \in 0..NumStages /\ CACHE_LOOKUP # HIT_MISS_HANDLING
    BY L2Assumption DEF CACHE_LOOKUP, HIT_MISS_HANDLING
  <2> QED
    BY <2>1, MemorySystemAssumption DEF IInv, TypeOK, PhaseInv
<1>2. CASE r = NoReq
  <2>1. l2cache_pipeline_' = p /\ l2_cache_' = l2_cache_
    BY <1>2 DEF handleCacheAccessRequest
  <2> QED
    BY <1>1, <1>2, <2>1
<1>3. CASE r # NoReq
  <2>1. CACHE_LOOKUP \in InPipeline
    BY <1>1, <1>3 DEF InPipeline
  <2>2. r \in Fresh
    BY <1>1, <2>1 DEF IInv, ReqInv
  <2>3. /\ l2cache_pipeline_' = [p EXCEPT ![CACHE_LOOKUP] = [r EXCEPT !.state = st]]
        /\ (l2_cache_' \in Reload(r.line) \/ l2_cache_' = l2_cache_)
    <3>1. l2cache_pipeline_' = [p EXCEPT ![CACHE_LOOKUP].state = st]
      BY <1>3 DEF handleCacheAccessRequest
    <3>2. [p EXCEPT ![CACHE_LOOKUP].state = st] = [p EXCEPT ![CACHE_LOOKUP] = [r EXCEPT !.state = st]]
      OBVIOUS
    <3>3. l2_cache_' \in Reload(r.line) \/ l2_cache_' = l2_cache_
      BY DEF handleCacheAccessRequest
    <3> QED
      BY <3>1, <3>2, <3>3
  <2>4. st \in {"HIT", "MISS"} /\ (r.state = "RELOAD" => st = "HIT")
    OBVIOUS
  <2> DEFINE x == [r EXCEPT !.state = st]
  <2> HIDE DEF st, r, hit
  <2>5. x \in Looked /\ \A u \in Units, line \in Lines : x \in Own[u][line] <=> r \in Own[u][line]
    BY <2>2, <2>4, LookedUp
  <2>6. x \in ReqType /\ r \in ReqType /\ r.line \in Lines
    BY <2>2, <2>5 DEF Looked, Fresh, ReqType
  <2>7. IsFiniteSet(l2_cache_') /\ l2_cache_' \subseteq Lines /\ Cardinality(l2_cache_') <= L2Lines
    <3>1. CASE l2_cache_' \in Reload(r.line)
      BY <1>1, <2>6, <3>1, ReloadFits
    <3>2. CASE l2_cache_' = l2_cache_
      BY <1>1, <3>2
    <3> QED
      BY <2>3, <3>1, <3>2
  <2>8. l2cache_pipeline_' = [p EXCEPT ![CACHE_LOOKUP] = x]
    BY <2>3
  <2> HIDE DEF x
  <2>9. /\ l2cache_pipeline_' \in [0..NumStages -> ReqType \cup {NoReq}]
        /\ l2cache_pipeline_'[CACHE_LOOKUP] = x /\ x # NoReq
        /\ \A k \in 0..NumStages : k # CACHE_LOOKUP => l2cache_pipeline_'[k] = p[k]
    BY <1>1, <2>6, <2>8
  <2>10. ASSUME NEW u \in Units, NEW line \in Lines, NEW k \in 0..NumStages
         PROVE  l2cache_pipeline_'[k] \in Own[u][line] <=> p[k] \in Own[u][line]
    <3>1. CASE k = CACHE_LOOKUP
      BY <2>5, <2>9, <3>1 DEF r
    <3>2. CASE k # CACHE_LOOKUP
      BY <2>9, <3>2
    <3> QED
      BY <3>1, <3>2
  <2>11. /\ l2cache_pipeline_'[CACHE_LOOKUP] # NoReq /\ p[CACHE_LOOKUP] # NoReq
         /\ l2cache_pipeline_'[CACHE_LOOKUP] \in Looked
    BY <1>3, <2>5, <2>9 DEF r
  <2> QED
    BY <2>7, <2>9, <2>10, <2>11
<1> QED
  BY <1>2, <1>3

\* What a cycle of the pipeline's stages does apart from the request at the last stage.
StagesFrame ==
    /\ phase = "tick" /\ stages_due /\ handleCacheAccessRequest /\ stages_due' = FALSE
    /\ UNCHANGED <<phase, req_queue, biu_resp_queue_, pipeline_req_queue_, l2cache_biu_credits_,
                   channel_select_, ev_handle_req, ev_create_req_, ev_issue_req_, biu_queue,
                   biu_busy_, ev_handle_biu_req_, ev_handle_mss_ack_, mss_busy_,
                   ev_handle_mss_req_, mss_req, mss_ack, waiting, from_l2, icache_credits,
                   credit_msgs, biu_msgs, biu_resps, biu_credits>>

\* The request at the last stage.
LastStage == l2cache_pipeline_[HIT_MISS_HANDLING]

\* It is of the unit that it names.
LEMMA LastStageFacts ==
    ASSUME IInv, stages_due, NEW r, r = LastStage, r # NoReq
    PROVE  /\ r \in Looked /\ r \in ReqType /\ r.line \in Lines /\ r.dest \in Units
           /\ r.state \in {"HIT", "MISS"} /\ (r.state = "MISS" => r.src = r.dest)
           /\ \A u \in Units, line \in Lines :
                r \in Own[u][line] <=> u = r.dest /\ line = r.line
<1>1. HIT_MISS_HANDLING \in InPipeline
  BY L2Assumption DEF InPipeline, HIT_MISS_HANDLING, LastStage
<1>2. r \in Looked
  BY <1>1 DEF IInv, ReqInv, LastStage
<1>3. /\ r \in ReqType /\ r.dest \in Units
      /\ ((r.src = r.dest /\ r.state \in {"HIT", "MISS"}) \/ (r.src = "BIU" /\ r.state = "HIT"))
  BY <1>2 DEF Looked
<1>4. r.line \in Lines
  BY <1>3 DEF ReqType
<1>5. Owner(r) = r.dest
  BY <1>3 DEF Owner
<1>6. \A u \in Units, line \in Lines : r \in Own[u][line] <=> u = r.dest /\ line = r.line
  BY <1>3, <1>5, OwnFacts
<1> QED
  BY <1>2, <1>3, <1>4, <1>6

\* It is one of those in flight.
LEMMA LastStageCounts ==
    ASSUME IInv, stages_due, LastStage # NoReq
    PROVE  inFlight_reqs_ = Cardinality(InPipeline) /\ inFlight_reqs_ \in Nat \ {0}
<1>1. HIT_MISS_HANDLING \in InPipeline
  BY L2Assumption DEF InPipeline, HIT_MISS_HANDLING, LastStage
<1>2. IsFiniteSet(InPipeline)
  <2>1. IsFiniteSet(0..NumStages)
    BY L2Assumption, FS_Interval
  <2>2. InPipeline \in SUBSET (0..NumStages)
    BY DEF InPipeline
  <2> QED
    BY <2>1, <2>2, FS_Subset
<1>3. Cardinality(InPipeline) # 0
  BY <1>1, <1>2, FS_EmptySet
<1> QED
  BY <1>3 DEF IInv, PipelineBounded, TypeOK

\* The request at the last stage leaves the pipeline and no other does.
LEMMA StagesCounts ==
    ASSUME IInv, StagesFrame, TypeOK'
    PROVE  /\ Cardinality(InPipeline') = Cardinality(InPipeline) - Bit(LastStage # NoReq)
           /\ \A u \in Units, line \in Lines :
                CountInPipe(Own[u][line])' = CountInPipe(Own[u][line]) - Bit(LastStage \in Own[u][line])
<1> DEFINE p == l2cache_pipeline_
           q == l2cache_pipeline_'
<1>1. /\ stages_due = TRUE /\ stages_due' = FALSE /\ TypeOK /\ LastStage = p[NumStages]
      /\ p \in [0..NumStages -> ReqType \cup {NoReq}] /\ NumStages \in 0..NumStages
  <2>1. stages_due \in BOOLEAN /\ stages_due
    BY DEF IInv, TypeOK, StagesFrame
  <2>2. NumStages \in 0..NumStages
    BY L2Assumption
  <2> QED
    BY <2>1, <2>2 DEF IInv, TypeOK, StagesFrame, LastStage, HIT_MISS_HANDLING
<1>2. /\ q \in [0..NumStages -> ReqType \cup {NoReq}]
      /\ \A k \in 0..NumStages : k # CACHE_LOOKUP => q[k] = p[k]
      /\ q[CACHE_LOOKUP] = NoReq <=> p[CACHE_LOOKUP] = NoReq
      /\ \A u \in Units, line \in Lines, k \in 0..NumStages :
                q[k] \in Own[u][line] <=> p[k] \in Own[u][line]
  BY LookupFacts DEF StagesFrame
<1>3. \A k \in 0..NumStages - 1 : k \in 0..NumStages
  BY L2Assumption
<1>4. \A k \in 0..NumStages - 1 : q[k] \in ReqType <=> p[k] \in ReqType
  <2>1. \A k \in 0..NumStages : (q[k] \in ReqType <=> q[k] # NoReq) /\ (p[k] \in ReqType <=> p[k] # NoReq)
    BY <1>1, <1>2, MemorySystemAssumption
  <2>2. \A k \in 0..NumStages : q[k] = NoReq <=> p[k] = NoReq
    BY <1>2
  <2> QED
    BY <1>3, <2>1, <2>2
<1>5. LastStage # NoReq <=> p[NumStages] \in ReqType
  BY <1>1, MemorySystemAssumption
<1>6. NoReq \notin ReqType
  BY MemorySystemAssumption
<1>7. Cardinality(InPipeline') = Cardinality(InPipeline) - Bit(LastStage # NoReq)
  <2>1. /\ Cardinality(InPipeline') = Cardinality(Slots(l2cache_pipeline_', stages_due', ReqType))
        /\ Cardinality(InPipeline) = Cardinality(Slots(l2cache_pipeline_, stages_due, ReqType))
    BY <1>1, InPipeSlots, InPipeSlotsNext
  <2> HIDE DEF p, q
  <2>2. Cardinality(Slots(q, FALSE, ReqType))
          = Cardinality(Slots(p, TRUE, ReqType)) - Bit(p[NumStages] \in ReqType)
    BY <1>4, SlotsHandled
  <2>3. Bit(p[NumStages] \in ReqType) = Bit(LastStage # NoReq)
    BY <1>5 DEF Bit
  <2> QED
    BY <1>1, <2>1, <2>2, <2>3 DEF p, q
<1>8. ASSUME NEW u \in Units, NEW line \in Lines
      PROVE  CountInPipe(Own[u][line])' = CountInPipe(Own[u][line]) - Bit(LastStage \in Own[u][line])
  <2>1. NoReq \notin Own[u][line]
    BY OwnFacts
  <2>2. CountInPipe(Own[u][line])
          = Cardinality(Slots(l2cache_pipeline_, stages_due, Own[u][line]))
    BY <1>1, <2>1, InPipeSlots
  <2>3. CountInPipe(Own[u][line])'
          = Cardinality(Slots(l2cache_pipeline_', stages_due', Own[u][line]))
    BY <2>1, InPipeSlotsNext
  <2>4. \A k \in 0..NumStages - 1 : q[k] \in Own[u][line] <=> p[k] \in Own[u][line]
    BY <1>2, <1>3
  <2> HIDE DEF p, q
  <2>5. Cardinality(Slots(q, FALSE, Own[u][line]))
          = Cardinality(Slots(p, TRUE, Own[u][line])) - Bit(p[NumStages] \in Own[u][line])
    BY <2>4, SlotsHandled
  <2> QED
    BY <1>1, <2>2, <2>3, <2>5 DEF p, q
<1> QED
  BY <1>7, <1>8

\* The conjuncts of IInv that do not depend on where the request goes.
LEMMA StagesShared ==
    ASSUME IInv, StagesFrame, TypeOK', miss_pending_buffer_' \in Seq(Missed),
           \A u \in Units : Len(resp_queue'[u]) = IF u \in ev_handle_resp' THEN 1 ELSE 0
    PROVE  CreditsConserved' /\ PhaseInv' /\ EventInv' /\ ReqInv' /\ BIUInv'
<1>0. TypeOK /\ CreditsConserved /\ PhaseInv /\ EventInv /\ ReqInv /\ BIUInv
  BY DEF IInv
<1>1. /\ phase = "tick" /\ stages_due /\ stages_due' = FALSE
      /\ UNCHANGED <<phase, req_queue, biu_resp_queue_, pipeline_req_queue_, l2cache_biu_credits_,
                     ev_create_req_, ev_issue_req_, biuVars, mssVars, biu_queue,
                     ev_handle_mss_req_, mss_req, mss_ack, icache_credits, credit_msgs,
                     biu_msgs, biu_resps, biu_credits>>
  BY DEF StagesFrame, biuVars, mssVars
<1>2. /\ \A k \in 0..NumStages : k # CACHE_LOOKUP => l2cache_pipeline_'[k] = l2cache_pipeline_[k]
      /\ l2cache_pipeline_'[CACHE_LOOKUP] # NoReq => l2cache_pipeline_'[CACHE_LOOKUP] \in Looked
      /\ IsFiniteSet(l2_cache_')
  BY LookupFacts DEF StagesFrame
<1>3. /\ 0 \in 0..NumStages /\ 0 # CACHE_LOOKUP /\ HIT_MISS_HANDLING = NumStages
      /\ CACHE_LOOKUP # HIT_MISS_HANDLING
  BY L2Assumption DEF CACHE_LOOKUP, HIT_MISS_HANDLING
<1>4. CreditsConserved'
  BY <1>0, <1>1 DEF CreditsConserved
<1>5. PhaseInv'
  BY <1>0, <1>1, <1>2 DEF PhaseInv
<1>6. EventInv'
  <2>1. \A c \in Units \cup {"BIU"} : QueueOf(c)' = QueueOf(c)
    BY <1>1 DEF QueueOf
  <2>2. l2cache_pipeline_'[0] = l2cache_pipeline_[0]
    BY <1>2, <1>3
  <2> QED
    BY <1>0, <1>1, <2>1, <2>2 DEF EventInv
<1>7. ReqInv'
  <2>1. ASSUME NEW k \in InPipeline'
        PROVE  l2cache_pipeline_'[k] \in IF k = HIT_MISS_HANDLING \/ (k = CACHE_LOOKUP /\ ~stages_due')
                                         THEN Looked ELSE Fresh
    <3>1. k \in 0..NumStages /\ l2cache_pipeline_'[k] # NoReq /\ k # HIT_MISS_HANDLING
      BY <1>1, <2>1 DEF InPipeline
    <3>2. CASE k = CACHE_LOOKUP
      BY <1>1, <1>2, <3>1, <3>2
    <3>3. CASE k # CACHE_LOOKUP
      <4>1. k \in InPipeline /\ l2cache_pipeline_'[k] = l2cache_pipeline_[k]
        BY <1>1, <1>2, <3>1, <3>3 DEF InPipeline
      <4> QED
        BY <1>0, <3>1, <3>3, <4>1 DEF ReqInv
    <3> QED
      BY <3>2, <3>3
  <2> QED
    BY <1>0, <1>1, <2>1 DEF ReqInv
<1>8. BIUInv'
  BY <1>0, <1>1, BIUKept
<1> QED
  BY <1>4, <1>5, <1>6, <1>7, <1>8

\* A hit answers its unit.
LEMMA StagesHitKeeps ==
    ASSUME IInv, StagesFrame, NEW r, r = LastStage, r # NoReq, r.state = "HIT",
           inFlight_reqs_' = inFlight_reqs_ - 1,
           resp_queue' = [resp_queue EXCEPT ![r.dest] = Append(@, r.line)],
           ev_handle_resp' = ev_handle_resp \cup {r.dest},
           UNCHANGED <<miss_pending_buffer_, biu_req_queue_, ev_handle_l2cache_biu_req_>>
    PROVE  IInv'
<1>0. /\ TypeOK /\ PipelineBounded /\ CreditsConserved /\ RequestsTracked
      /\ OneBIURequestPerLine /\ PhaseInv /\ EventInv /\ ReqInv /\ BIUInv
  BY DEF IInv
<1>1. /\ stages_due /\ handleCacheAccessRequest
      /\ stages_due' = FALSE
      /\ UNCHANGED <<phase, req_queue, biu_resp_queue_, pipeline_req_queue_, l2cache_biu_credits_,
                     channel_select_, ev_handle_req, ev_create_req_, ev_issue_req_, biu_queue,
                     biu_busy_, ev_handle_biu_req_, ev_handle_mss_ack_, mss_busy_,
                     ev_handle_mss_req_, mss_req, mss_ack, waiting, from_l2, icache_credits,
                     credit_msgs, biu_msgs, biu_resps, biu_credits>>
  BY DEF StagesFrame
<1>2. /\ r.line \in Lines /\ r.dest \in Units /\ r \in ReqType
      /\ \A u \in Units, line \in Lines : r \in Own[u][line] <=> u = r.dest /\ line = r.line
  BY <1>1, LastStageFacts
<1>3. /\ resp_queue \in [Units -> Seq(Lines)] /\ ev_handle_resp = {}
      /\ \A u \in Units : resp_queue[u] \in Seq(Lines) /\ Len(resp_queue[u]) = 0
  BY <1>0, <1>1 DEF TypeOK, EventInv, PhaseInv
<1>4. inFlight_reqs_ = Cardinality(InPipeline) /\ inFlight_reqs_ \in Nat \ {0}
  BY <1>1, LastStageCounts
<1>5. /\ resp_queue' \in [Units -> Seq(Lines)] /\ ev_handle_resp' = {r.dest}
      /\ \A u \in Units : Len(resp_queue'[u]) = IF u \in ev_handle_resp' THEN 1 ELSE 0
  <2>1. ev_handle_resp' = {r.dest} /\ resp_queue' \in [Units -> Seq(Lines)]
    BY <1>2, <1>3
  <2>2. ASSUME NEW u \in Units
        PROVE  Len(resp_queue'[u]) = IF u = r.dest THEN 1 ELSE 0
    <3>1. CASE u = r.dest
      <4>1. resp_queue'[u] = Append(resp_queue[u], r.line)
        BY <1>2, <1>3, <3>1
      <4>2. Len(Append(resp_queue[u], r.line)) = Len(resp_queue[u]) + 1
        BY <1>2, <1>3, AppendFacts
      <4> QED
        BY <1>3, <3>1, <4>1, <4>2
    <3>2. CASE u # r.dest
      BY <1>2, <1>3, <3>2
    <3> QED
      BY <3>1, <3>2
  <2> QED
    BY <2>1, <2>2
<1>6. /\ l2cache_pipeline_' \in [0..NumStages -> ReqType \cup {NoReq}]
      /\ l2_cache_' \subseteq Lines /\ Cardinality(l2_cache_') <= L2Lines
  BY <1>1, LookupFacts
<1>7. TypeOK'
  <2>1. inFlight_reqs_' \in Nat
    BY <1>4
  <2>2. ev_handle_resp' \subseteq Units
    BY <1>2, <1>5
  <2>3. stages_due' \in BOOLEAN
    BY <1>1
  <2> QED
    BY <1>0, <1>1, <1>5, <1>6, <2>1, <2>2, <2>3 DEF TypeOK
<1>8. /\ Cardinality(InPipeline') = Cardinality(InPipeline) - Bit(LastStage # NoReq)
      /\ \A u \in Units, line \in Lines :
            CountInPipe(Own[u][line])' = CountInPipe(Own[u][line]) - Bit(LastStage \in Own[u][line])
  BY <1>7, StagesCounts
<1>9. PipelineBounded'
  <2>1. Cardinality(InPipeline') = inFlight_reqs_ - 1
    BY <1>4, <1>8 DEF Bit
  <2>2. Len(miss_pending_buffer_) \in Nat /\ Len(biu_req_queue_) \in Nat
        /\ BIUReqQueueSize \in Nat /\ MissBufferSize \in Nat
    BY PipelineTypes, L2Assumption
  <2> QED
    BY <1>0, <1>4, <2>1, <2>2 DEF PipelineBounded
<1>10. RequestsTracked'
  <2> SUFFICES ASSUME NEW u \in Units, NEW line \in Lines
               PROVE  Held(u, line)' = IF line \in waiting'[u] THEN 1 ELSE 0
    BY DEF RequestsTracked
  <2>1. Held(u, line) = (IF line \in waiting[u] THEN 1 ELSE 0) /\ waiting' = waiting
    BY <1>0, <1>1 DEF RequestsTracked
  <2> DEFINE b == Bit(LastStage \in Own[u][line])
  <2>2. HeldAdds(u, line) /\ b \in Nat
    BY <1>0, HeldParts DEF Bit
  <2>3. Count(resp_queue'[u], {line}) = Count(resp_queue[u], {line}) + b
    <3>1. CASE u = r.dest
      <4>1. resp_queue'[u] = Append(resp_queue[u], r.line) /\ resp_queue[u] \in Seq(Lines)
        BY <1>2, <1>3, <3>1
      <4>2. Count(Append(resp_queue[u], r.line), {line})
              = Count(resp_queue[u], {line}) + Bit(r.line \in {line})
        BY <1>2, <4>1, CountAppend
      <4>3. LastStage \in Own[u][line] <=> r.line \in {line}
        BY <1>2, <3>1
      <4> QED
        BY <4>1, <4>2, <4>3 DEF Bit
    <3>2. CASE u # r.dest
      <4>1. resp_queue'[u] = resp_queue[u]
        BY <1>2, <1>3, <3>2
      <4>2. b = 0
        BY <1>2, <3>2 DEF Bit
      <4> QED
        BY <2>2, <4>1, <4>2 DEF HeldAdds
    <3> QED
      BY <3>1, <3>2
  <2>4. CountInPipe(Own[u][line])' = CountInPipe(Own[u][line]) - b
    BY <1>8
  <2>5. UNCHANGED <<req_queue, pipeline_req_queue_, miss_pending_buffer_, from_l2>>
    BY <1>1
  <2> HIDE DEF b
  <2>6. Held(u, line)' = Held(u, line)
    BY <2>2, <2>3, <2>4, <2>5 DEF Held, HeldAdds
  <2> QED
    BY <2>1, <2>6
<1>11. OneBIURequestPerLine'
  BY <1>0, <1>1, OnTheWayKept
<1>12. miss_pending_buffer_' \in Seq(Missed)
  BY <1>0 DEF ReqInv
<1>13. CreditsConserved' /\ PhaseInv' /\ EventInv' /\ ReqInv' /\ BIUInv'
  BY <1>5, <1>7, <1>12, StagesShared
<1> QED
  BY <1>7, <1>9, <1>10, <1>11, <1>13 DEF IInv

\* A miss keeps its unit while it waits for the BIU.
LEMMA MissFacts ==
    ASSUME NEW r \in Looked, r.state = "MISS", NEW x, x = [r EXCEPT !.dest = "BIU"]
    PROVE  /\ x \in Missed /\ x \in ReqType /\ x.line = r.line
           /\ \A u \in Units, line \in Lines : x \in Own[u][line] <=> r \in Own[u][line]
           /\ \A line \in Lines : x \in OfLine(line) <=> line = r.line
<1>1. r \in ReqType /\ r.dest \in Units /\ r.src = r.dest
  BY DEF Looked
<1>2. x \in ReqType /\ x.src = r.src /\ x.dest = "BIU" /\ x.line = r.line
  BY <1>1 DEF ReqType
<1>3. r.src # "BIU"
  BY <1>1 DEF Units
<1>4. Owner(x) = Owner(r)
  BY <1>1, <1>2, <1>3 DEF Owner
<1>5. ASSUME NEW u \in Units, NEW line \in Lines
      PROVE  x \in Own[u][line] <=> r \in Own[u][line]
  <2>1. Own[u][line] = {q \in ReqType : Owner(q) = u /\ q.line = line}
    BY OwnFacts
  <2> QED
    BY <1>1, <1>2, <1>4, <2>1, Zenon
<1> QED
  BY <1>1, <1>2, <1>5 DEF Missed, OfLine

\* A miss waits for its line, and the first on the line asks the BIU.
LEMMA StagesMissKeeps ==
    ASSUME IInv, StagesFrame, NEW r, r = LastStage, r # NoReq, r.state = "MISS",
           inFlight_reqs_' = inFlight_reqs_ - 1,
           miss_pending_buffer_' = Append(miss_pending_buffer_, [r EXCEPT !.dest = "BIU"]),
           IF FirstOnLine(r.line)
           THEN /\ biu_req_queue_' = Append(biu_req_queue_, r.line)
                /\ ev_handle_l2cache_biu_req_' = ev_handle_l2cache_biu_req_ \cup {0}
           ELSE UNCHANGED <<biu_req_queue_, ev_handle_l2cache_biu_req_>>,
           UNCHANGED <<resp_queue, ev_handle_resp>>
    PROVE  IInv'
<1>0. /\ TypeOK /\ PipelineBounded /\ CreditsConserved /\ RequestsTracked
      /\ OneBIURequestPerLine /\ PhaseInv /\ EventInv /\ ReqInv /\ BIUInv
  BY DEF IInv
<1>1. /\ stages_due /\ handleCacheAccessRequest
      /\ stages_due' = FALSE
      /\ UNCHANGED <<phase, req_queue, biu_resp_queue_, pipeline_req_queue_, l2cache_biu_credits_,
                     channel_select_, ev_handle_req, ev_create_req_, ev_issue_req_, biu_queue,
                     biu_busy_, ev_handle_biu_req_, ev_handle_mss_ack_, mss_busy_,
                     ev_handle_mss_req_, mss_req, mss_ack, waiting, from_l2, icache_credits,
                     credit_msgs, biu_msgs, biu_resps, biu_credits>>
  BY DEF StagesFrame
<1>2. /\ r.line \in Lines /\ r.dest \in Units /\ r \in ReqType /\ r \in Looked
  BY <1>1, LastStageFacts
<1> DEFINE x == [r EXCEPT !.dest = "BIU"]
<1>3. /\ x \in Missed /\ x \in ReqType
      /\ \A u \in Units, line \in Lines : x \in Own[u][line] <=> r \in Own[u][line]
      /\ \A line \in Lines : x \in OfLine(line) <=> line = r.line
  BY <1>2, MissFacts
<1>4. miss_pending_buffer_' = Append(miss_pending_buffer_, x)
  OBVIOUS
<1> HIDE DEF x
<1>5. /\ miss_pending_buffer_ \in Seq(ReqType) /\ miss_pending_buffer_ \in Seq(Missed)
      /\ biu_req_queue_ \in Seq(Lines)
  BY <1>0 DEF TypeOK, ReqInv
<1>6. /\ miss_pending_buffer_' \in Seq(ReqType) /\ miss_pending_buffer_' \in Seq(Missed)
      /\ Len(miss_pending_buffer_') = Len(miss_pending_buffer_) + 1
  BY <1>3, <1>4, <1>5, AppendFacts
<1>7. /\ biu_req_queue_' \in Seq(Lines)
      /\ Len(biu_req_queue_') \in {Len(biu_req_queue_), Len(biu_req_queue_) + 1}
  <2>1. CASE FirstOnLine(r.line)
    BY <1>2, <1>5, <2>1, AppendFacts, SMTT(30)
  <2>2. CASE ~FirstOnLine(r.line)
    BY <1>5, <2>2
  <2> QED
    BY <2>1, <2>2
<1>8. inFlight_reqs_ = Cardinality(InPipeline) /\ inFlight_reqs_ \in Nat \ {0}
  BY <1>1, LastStageCounts
<1>9. /\ l2cache_pipeline_' \in [0..NumStages -> ReqType \cup {NoReq}]
      /\ l2_cache_' \subseteq Lines /\ Cardinality(l2_cache_') <= L2Lines
  BY <1>1, LookupFacts
<1>10. TypeOK'
  <2>1. inFlight_reqs_' \in Nat
    BY <1>8
  <2>2. stages_due' \in BOOLEAN
    BY <1>1
  <2>3. ev_handle_l2cache_biu_req_' \subseteq {0, 1}
    <3>1. ev_handle_l2cache_biu_req_ \subseteq {0, 1}
      BY <1>0 DEF TypeOK
    <3>2. CASE FirstOnLine(r.line)
      BY <3>1, <3>2
    <3>3. CASE ~FirstOnLine(r.line)
      BY <3>1, <3>3
    <3> QED
      BY <3>2, <3>3
  <2> QED
    BY <1>0, <1>1, <1>6, <1>7, <1>9, <2>1, <2>2, <2>3 DEF TypeOK
<1>11. /\ Cardinality(InPipeline') = Cardinality(InPipeline) - Bit(LastStage # NoReq)
       /\ \A u \in Units, line \in Lines :
            CountInPipe(Own[u][line])' = CountInPipe(Own[u][line]) - Bit(LastStage \in Own[u][line])
  BY <1>10, StagesCounts
<1>12. PipelineBounded'
  <2>1. Cardinality(InPipeline') = inFlight_reqs_ - 1
    BY <1>8, <1>11 DEF Bit
  <2>2. Len(miss_pending_buffer_) \in Nat /\ Len(biu_req_queue_) \in Nat
        /\ BIUReqQueueSize \in Nat /\ MissBufferSize \in Nat
    BY PipelineTypes, L2Assumption
  <2> QED
    BY <1>0, <1>6, <1>7, <1>8, <2>1, <2>2, SMTT(30) DEF PipelineBounded
<1>13. RequestsTracked'
  <2> SUFFICES ASSUME NEW u \in Units, NEW line \in Lines
               PROVE  Held(u, line)' = IF line \in waiting'[u] THEN 1 ELSE 0
    BY DEF RequestsTracked
  <2>1. Held(u, line) = (IF line \in waiting[u] THEN 1 ELSE 0) /\ waiting' = waiting
    BY <1>0, <1>1 DEF RequestsTracked
  <2> DEFINE b == Bit(LastStage \in Own[u][line])
  <2>2. HeldAdds(u, line) /\ b \in Nat
    BY <1>0, HeldParts DEF Bit
  <2>3. Count(miss_pending_buffer_', Own[u][line]) = Count(miss_pending_buffer_, Own[u][line]) + b
    <3>1. Count(Append(miss_pending_buffer_, x), Own[u][line])
            = Count(miss_pending_buffer_, Own[u][line]) + Bit(x \in Own[u][line])
      BY <1>3, <1>5, CountAppend
    <3>2. x \in Own[u][line] <=> LastStage \in Own[u][line]
      BY <1>3
    <3> QED
      BY <1>4, <3>1, <3>2 DEF Bit
  <2>4. CountInPipe(Own[u][line])' = CountInPipe(Own[u][line]) - b
    BY <1>11
  <2>5. UNCHANGED <<req_queue, pipeline_req_queue_, resp_queue, from_l2>>
    BY <1>1
  <2> HIDE DEF b
  <2>6. Held(u, line)' = Held(u, line)
    BY <2>2, <2>3, <2>4, <2>5 DEF Held, HeldAdds
  <2> QED
    BY <2>1, <2>6
<1>14. OneBIURequestPerLine'
  <2> SUFFICES ASSUME NEW line \in Lines
               PROVE  OnTheWay(line)' = IF FirstOnLine(line)' THEN 0 ELSE 1
    BY DEF OneBIURequestPerLine
  <2>1. OnTheWay(line) = IF FirstOnLine(line) THEN 0 ELSE 1
    BY <1>0 DEF OneBIURequestPerLine
  <2>2. OnTheWayAdds(line)
    BY <1>0, OnTheWayParts
  <2> DEFINE c == Count(miss_pending_buffer_, OfLine(line))
             d == Count(miss_pending_buffer_', OfLine(line))
  <2>3. (FirstOnLine(line) <=> c = 0) /\ c \in Nat /\ (FirstOnLine(line)' <=> d = 0)
    BY <1>0, <1>10, PendingIsCount, PendingIsCountNext
  <2>4. d = c + Bit(line = r.line)
    <3>1. Count(Append(miss_pending_buffer_, x), OfLine(line)) = c + Bit(x \in OfLine(line))
      BY <1>3, <1>5, CountAppend
    <3> QED
      BY <1>3, <1>4, <3>1 DEF Bit
  <2> HIDE DEF c, d
  <2> DEFINE b == Bit(line = r.line /\ FirstOnLine(line))
  <2>5. Count(biu_req_queue_', {line}) = Count(biu_req_queue_, {line}) + b /\ b \in Nat
    <3>0. b \in Nat
      BY DEF Bit
    <3>1. CASE FirstOnLine(r.line)
      <4>1. Count(Append(biu_req_queue_, r.line), {line})
              = Count(biu_req_queue_, {line}) + Bit(r.line \in {line})
        BY <1>2, <1>5, CountAppend
      <4>2. Bit(r.line \in {line}) = b
        BY <3>1 DEF Bit
      <4> QED
        BY <3>0, <3>1, <4>1, <4>2
    <3>2. CASE ~FirstOnLine(r.line)
      <4>1. b = 0 /\ biu_req_queue_' = biu_req_queue_
        BY <3>2 DEF Bit
      <4> QED
        BY <2>2, <4>1 DEF OnTheWayAdds
    <3> QED
      BY <3>1, <3>2
  <2> HIDE DEF b
  <2>6. OnTheWay(line)' = OnTheWay(line) + b
    <3>1. UNCHANGED <<biu_msgs, biu_queue, biu_resps, biu_resp_queue_>>
      BY <1>1
    <3> QED
      BY <2>2, <2>5, <3>1 DEF OnTheWay, OnTheWayAdds
  <2>7. CASE line = r.line
    <3>1. d # 0
      BY <2>3, <2>4, <2>7 DEF Bit
    <3>2. OnTheWay(line) + b = 1
      BY <2>1, <2>7 DEF b, Bit
    <3> QED
      BY <2>3, <2>6, <3>1, <3>2
  <2>8. CASE line # r.line
    <3>1. d = c /\ b = 0
      BY <2>3, <2>4, <2>8 DEF b, Bit
    <3> QED
      BY <2>1, <2>3, <2>6, <3>1
  <2> QED
    BY <2>7, <2>8
<1>15. \A u \in Units : Len(resp_queue'[u]) = IF u \in ev_handle_resp' THEN 1 ELSE 0
  BY <1>0 DEF EventInv
<1>16. CreditsConserved' /\ PhaseInv' /\ EventInv' /\ ReqInv' /\ BIUInv'
  BY <1>6, <1>10, <1>15, StagesShared
<1> QED
  BY <1>10, <1>12, <1>13, <1>14, <1>16 DEF IInv

\* Nothing is at the last stage.
LEMMA StagesIdleKeeps ==
    ASSUME IInv, StagesFrame, LastStage = NoReq,
           UNCHANGED <<inFlight_reqs_, resp_queue, ev_handle_resp, miss_pending_buffer_,
                       biu_req_queue_, ev_handle_l2cache_biu_req_>>
    PROVE  IInv'
<1>0. /\ TypeOK /\ PipelineBounded /\ CreditsConserved /\ RequestsTracked
      /\ OneBIURequestPerLine /\ PhaseInv /\ EventInv /\ ReqInv /\ BIUInv
  BY DEF IInv
<1>1. /\ stages_due /\ handleCacheAccessRequest
      /\ stages_due' = FALSE
      /\ UNCHANGED <<phase, req_queue, biu_resp_queue_, pipeline_req_queue_, l2cache_biu_credits_,
                     channel_select_, ev_handle_req, ev_create_req_, ev_issue_req_, biu_queue,
                     biu_busy_, ev_handle_biu_req_, ev_handle_mss_ack_, mss_busy_,
                     ev_handle_mss_req_, mss_req, mss_ack, waiting, from_l2, icache_credits,
                     credit_msgs, biu_msgs, biu_resps, biu_credits>>
  BY DEF StagesFrame
<1>2. /\ l2cache_pipeline_' \in [0..NumStages -> ReqType \cup {NoReq}]
      /\ l2_cache_' \subseteq Lines /\ Cardinality(l2_cache_') <= L2Lines
  BY <1>1, LookupFacts
<1>3. TypeOK'
  <2>1. stages_due' \in BOOLEAN
    BY <1>1
  <2> QED
    BY <1>0, <1>1, <1>2, <2>1 DEF TypeOK
<1>4. /\ Cardinality(InPipeline') = Cardinality(InPipeline) - Bit(LastStage # NoReq)
      /\ \A u \in Units, line \in Lines :
            CountInPipe(Own[u][line])' = CountInPipe(Own[u][line]) - Bit(LastStage \in Own[u][line])
  BY <1>3, StagesCounts
<1>5. PipelineBounded'
  <2>1. inFlight_reqs_ \in Nat /\ inFlight_reqs_ = Cardinality(InPipeline)
    BY <1>0 DEF TypeOK, PipelineBounded
  <2>2. Cardinality(InPipeline') = inFlight_reqs_
    BY <1>4, <2>1 DEF Bit
  <2> QED
    BY <1>0, <2>2 DEF PipelineBounded
<1>6. RequestsTracked'
  <2> SUFFICES ASSUME NEW u \in Units, NEW line \in Lines
               PROVE  Held(u, line)' = IF line \in waiting'[u] THEN 1 ELSE 0
    BY DEF RequestsTracked
  <2>1. Held(u, line) = (IF line \in waiting[u] THEN 1 ELSE 0) /\ waiting' = waiting
    BY <1>0, <1>1 DEF RequestsTracked
  <2>2. HeldAdds(u, line)
    BY <1>0, HeldParts
  <2>3. CountInPipe(Own[u][line])' = CountInPipe(Own[u][line])
    <3>1. LastStage \notin Own[u][line]
      BY OwnFacts
    <3> QED
      BY <1>4, <2>2, <3>1 DEF Bit, HeldAdds
  <2>4. UNCHANGED <<req_queue, pipeline_req_queue_, resp_queue, from_l2, miss_pending_buffer_>>
    BY <1>1
  <2> QED
    BY <2>1, <2>3, <2>4 DEF Held
<1>7. OneBIURequestPerLine'
  BY <1>0, <1>1, OnTheWayKept
<1>8. /\ \A u \in Units : Len(resp_queue'[u]) = IF u \in ev_handle_resp' THEN 1 ELSE 0
      /\ miss_pending_buffer_' \in Seq(Missed)
  BY <1>0 DEF EventInv, ReqInv
<1>9. CreditsConserved' /\ PhaseInv' /\ EventInv' /\ ReqInv' /\ BIUInv'
  BY <1>3, <1>8, StagesShared
<1> QED
  BY <1>3, <1>5, <1>6, <1>7, <1>9 DEF IInv

\* A cycle of the pipeline's stages.
LEMMA L2StagesKeeps ==
    ASSUME IInv, L2Stages
    PROVE  IInv'
<1> DEFINE r == LastStage
<1>1. StagesFrame
  BY DEF L2Stages, PipelineStages, StagesFrame, biuVars, mssVars, envVars, linkVars
<1>2. handleCacheAccessResult /\ stages_due
  BY DEF L2Stages, PipelineStages
<1>3. CASE r = NoReq
  <2>1. UNCHANGED <<inFlight_reqs_, resp_queue, ev_handle_resp, miss_pending_buffer_,
                    biu_req_queue_, ev_handle_l2cache_biu_req_>>
    BY <1>2, <1>3 DEF handleCacheAccessResult, LastStage
  <2> QED
    BY <1>1, <1>3, <2>1, StagesIdleKeeps
<1>4. CASE r # NoReq /\ r.state = "HIT"
  <2>1. /\ inFlight_reqs_' = inFlight_reqs_ - 1
        /\ resp_queue' = [resp_queue EXCEPT ![r.dest] = Append(@, r.line)]
        /\ ev_handle_resp' = ev_handle_resp \cup {r.dest}
        /\ UNCHANGED <<miss_pending_buffer_, biu_req_queue_, ev_handle_l2cache_biu_req_>>
    BY <1>2, <1>4 DEF handleCacheAccessResult, LastStage
  <2> QED
    BY <1>1, <1>4, <2>1, StagesHitKeeps
<1>5. CASE r # NoReq /\ r.state = "MISS"
  <2>1. /\ inFlight_reqs_' = inFlight_reqs_ - 1
        /\ miss_pending_buffer_' = Append(miss_pending_buffer_, [r EXCEPT !.dest = "BIU"])
        /\ IF FirstOnLine(r.line)
           THEN /\ biu_req_queue_' = Append(biu_req_queue_, r.line)
                /\ ev_handle_l2cache_biu_req_' = ev_handle_l2cache_biu_req_ \cup {0}
           ELSE UNCHANGED <<biu_req_queue_, ev_handle_l2cache_biu_req_>>
        /\ UNCHANGED <<resp_queue, ev_handle_resp>>
    BY <1>2, <1>5 DEF handleCacheAccessResult, LastStage
  <2> QED
    BY <1>1, <1>5, <2>1, StagesMissKeeps
<1> QED
  <2>1. r # NoReq => r.state \in {"HIT", "MISS"}
    BY <1>2, LastStageFacts
  <2> QED
    BY <1>3, <1>4, <1>5, <2>1
-----------------------------------------------------------------------------
(* Into the pipeline's queue.                                              *)

\* What create_Req_ does whoever wins.
CreateFrame ==
    /\ phase = "post" /\ 0 \in ev_create_req_
    /\ \E channel \in Units \cup {"BIU"} : QueueOf(channel) # << >>
    /\ channel_select_' \in Units
    /\ ev_issue_req_' = ev_issue_req_ \cup {1}
    /\ ev_create_req_' \subseteq {1}
    /\ ev_create_req_' # {} => \E channel \in Units \cup {"BIU"} : QueueOf(channel)' # << >>
    /\ credit_msgs' = IF req_queue'["ICACHE"] # req_queue["ICACHE"] THEN credit_msgs \cup {2}
                      ELSE credit_msgs
    /\ UNCHANGED <<phase, stages_due, resp_queue, biu_req_queue_, l2cache_pipeline_,
                   inFlight_reqs_, l2_cache_, l2cache_biu_credits_, ev_handle_req, ev_handle_resp,
                   ev_handle_l2cache_biu_req_, biu_queue, biu_busy_, ev_handle_biu_req_,
                   ev_handle_mss_ack_, mss_busy_, ev_handle_mss_req_, mss_req, mss_ack, waiting,
                   from_l2, icache_credits, biu_msgs, biu_resps, biu_credits>>

\* The conjuncts of IInv that do not depend on who wins.
LEMMA CreateShared ==
    ASSUME IInv, CreateFrame, Len(req_queue'["DCACHE"]) <= 1,
           req_queue' \in [Units -> Seq(Lines)], biu_resp_queue_' \in Seq(Lines),
           pipeline_req_queue_' \in Seq(ReqType), miss_pending_buffer_' \in Seq(ReqType)
    PROVE  TypeOK' /\ PhaseInv' /\ EventInv' /\ BIUInv' /\ 2 \notin credit_msgs
<1>0. TypeOK /\ PhaseInv /\ EventInv /\ BIUInv
  BY DEF IInv
<1>1. /\ phase = "post" /\ 0 \in ev_create_req_ /\ channel_select_' \in Units
      /\ ev_issue_req_' = ev_issue_req_ \cup {1} /\ ev_create_req_' \subseteq {1}
      /\ ev_create_req_' # {} => \E channel \in Units \cup {"BIU"} : QueueOf(channel)' # << >>
      /\ credit_msgs' = IF req_queue'["ICACHE"] # req_queue["ICACHE"] THEN credit_msgs \cup {2}
                        ELSE credit_msgs
      /\ UNCHANGED <<phase, stages_due, resp_queue, biu_req_queue_, l2cache_pipeline_,
                     inFlight_reqs_, l2_cache_, l2cache_biu_credits_, ev_handle_req,
                     ev_handle_resp, ev_handle_l2cache_biu_req_, biu_queue, biu_busy_,
                     ev_handle_biu_req_, ev_handle_mss_ack_, mss_busy_, ev_handle_mss_req_,
                     mss_req, mss_ack, waiting, from_l2, icache_credits, biu_msgs, biu_resps,
                     biu_credits>>
  BY DEF CreateFrame
<1>2. 2 \notin credit_msgs
  BY <1>0, <1>1 DEF EventInv
<1>3. /\ credit_msgs' \subseteq Nat /\ credit_msgs' \subseteq 0..2
      /\ (0 \in credit_msgs' => 0 \in credit_msgs)
  <2>1. credit_msgs \subseteq Nat /\ credit_msgs \subseteq 0..2
    BY <1>0 DEF TypeOK, EventInv
  <2>2. credit_msgs' \subseteq credit_msgs \cup {2}
    BY <1>1
  <2> QED
    BY <2>1, <2>2
<1>4. ev_issue_req_' \subseteq {0, 1} /\ ev_create_req_' \subseteq {0, 1} /\ 0 \notin ev_create_req_'
  <2>1. ev_issue_req_ \subseteq {0, 1}
    BY <1>0 DEF TypeOK
  <2>2. ev_issue_req_' \subseteq {0, 1}
    BY <1>1, <2>1
  <2> QED
    BY <1>1, <2>2
<1>5. TypeOK'
  BY <1>0, <1>1, <1>3, <1>4 DEF TypeOK
<1>6. PhaseInv'
  BY <1>0, <1>1, <1>3 DEF PhaseInv
<1>7. EventInv'
  <2>1. l2cache_pipeline_'[0] # NoReq => phase' = "post" /\ 0 \notin ev_issue_req_'
    BY <1>0, <1>1 DEF EventInv
  <2>2. \A u \in Units : Len(resp_queue'[u]) = IF u \in ev_handle_resp' THEN 1 ELSE 0
    BY <1>0, <1>1 DEF EventInv
  <2> QED
    BY <1>1, <1>3, <1>4, <2>1, <2>2 DEF EventInv
<1>8. BIUInv'
  BY <1>0, <1>1, BIUKept DEF biuVars, mssVars
<1> QED
  BY <1>2, <1>5, <1>6, <1>7, <1>8

\* Nobody wins.
LEMMA CreateIdleKeeps ==
    ASSUME IInv, CreateFrame,
           UNCHANGED <<pipeline_req_queue_, miss_pending_buffer_, biu_resp_queue_, req_queue>>
    PROVE  IInv'
<1>0. /\ TypeOK /\ PipelineBounded /\ CreditsConserved /\ RequestsTracked
      /\ OneBIURequestPerLine /\ PhaseInv /\ EventInv /\ ReqInv /\ BIUInv
  BY DEF IInv
<1>1. TypeOK' /\ PhaseInv' /\ EventInv' /\ BIUInv'
  <2>1. /\ Len(req_queue'["DCACHE"]) <= 1 /\ req_queue' \in [Units -> Seq(Lines)]
        /\ biu_resp_queue_' \in Seq(Lines) /\ pipeline_req_queue_' \in Seq(ReqType)
        /\ miss_pending_buffer_' \in Seq(ReqType)
    BY <1>0 DEF TypeOK, EventInv
  <2> QED
    BY <2>1, CreateShared
<1>2. UNCHANGED <<stages_due, l2cache_pipeline_, inFlight_reqs_, biu_req_queue_, resp_queue,
                  from_l2, waiting, biu_msgs, biu_queue, biu_resps, l2cache_biu_credits_,
                  biu_credits, icache_credits, credit_msgs>>
  BY DEF CreateFrame
<1>3. CreditsConserved'
  BY <1>0, <1>2 DEF CreditsConserved
<1>4. PipelineBounded' /\ RequestsTracked' /\ OneBIURequestPerLine' /\ ReqInv'
  BY <1>0, <1>2, BoundsKept, TrackedKept, OnTheWayKept, ReqKept
<1> QED
  BY <1>1, <1>3, <1>4 DEF IInv

\* The request that is made for a line of a unit's queue is of that unit.
LEMMA RequestFacts ==
    ASSUME NEW v \in Units, NEW l \in Lines
    PROVE  /\ Request(v, l) \in Fresh /\ Request(v, l) \in ReqType
           /\ \A u \in Units, line \in Lines :
                 Request(v, l) \in Own[u][line] <=> u = v /\ line = l
<1> DEFINE x == Request(v, l)
<1>1. /\ x \in ReqType /\ x.src = v /\ x.dest = v /\ x.line = l /\ x.state = "NO_ACCESS"
  BY DEF Request, ReqType
<1>2. Owner(x) = v
  BY <1>1 DEF Owner
<1> HIDE DEF x
<1>3. x \in Fresh
  BY <1>1 DEF Fresh
<1>4. \A u \in Units, line \in Lines : x \in Own[u][line] <=> u = v /\ line = l
  BY <1>1, <1>2, OwnFacts
<1> QED
  BY <1>1, <1>3, <1>4 DEF x

\* A unit wins.
LEMMA CreateForUnitKeeps ==
    ASSUME IInv, CreateFrame, NEW v \in Units, req_queue[v] # << >>,
           pipeline_req_queue_' = Append(pipeline_req_queue_, Request(v, Head(req_queue[v]))),
           req_queue' = [req_queue EXCEPT ![v] = Tail(@)],
           UNCHANGED <<miss_pending_buffer_, biu_resp_queue_>>
    PROVE  IInv'
<1>0. /\ TypeOK /\ PipelineBounded /\ CreditsConserved /\ RequestsTracked
      /\ OneBIURequestPerLine /\ PhaseInv /\ EventInv /\ ReqInv /\ BIUInv
  BY DEF IInv
<1> DEFINE l == Head(req_queue[v])
           x == Request(v, l)
<1>1. /\ req_queue \in [Units -> Seq(Lines)] /\ req_queue[v] \in Seq(Lines)
      /\ pipeline_req_queue_ \in Seq(ReqType) /\ pipeline_req_queue_ \in Seq(Fresh)
  BY <1>0 DEF TypeOK, ReqInv
<1>2. /\ l \in Lines /\ Tail(req_queue[v]) \in Seq(Lines)
      /\ Len(req_queue[v]) \in Nat \ {0} /\ Len(Tail(req_queue[v])) = Len(req_queue[v]) - 1
  BY <1>1, TailFacts
<1>3. /\ x \in Fresh /\ x \in ReqType
      /\ \A u \in Units, line \in Lines : x \in Own[u][line] <=> u = v /\ line = l
  BY <1>2, RequestFacts
<1>4. pipeline_req_queue_' = Append(pipeline_req_queue_, x)
  OBVIOUS
<1> HIDE DEF l, x
<1>5. pipeline_req_queue_' \in Seq(ReqType) /\ pipeline_req_queue_' \in Seq(Fresh)
  BY <1>1, <1>3, <1>4, AppendFacts
<1>6. /\ req_queue' \in [Units -> Seq(Lines)] /\ req_queue'[v] = Tail(req_queue[v])
      /\ Len(req_queue'[v]) = Len(req_queue[v]) - 1
      /\ \A u \in Units : u # v => req_queue'[u] = req_queue[u]
  BY <1>1, <1>2
<1>7. Len(req_queue'["DCACHE"]) <= 1
  <2>1. Len(req_queue["DCACHE"]) <= 1 /\ "DCACHE" \in Units
    BY <1>0 DEF EventInv, Units
  <2>2. CASE v = "DCACHE"
    BY <1>2, <1>6, <2>1, <2>2
  <2>3. CASE v # "DCACHE"
    BY <1>6, <2>1, <2>3
  <2> QED
    BY <2>2, <2>3
<1>8. TypeOK' /\ PhaseInv' /\ EventInv' /\ BIUInv' /\ 2 \notin credit_msgs
  <2>1. biu_resp_queue_' \in Seq(Lines) /\ miss_pending_buffer_' \in Seq(ReqType)
    BY <1>0 DEF TypeOK
  <2> QED
    BY <1>5, <1>6, <1>7, <2>1, CreateShared
<1>9. /\ UNCHANGED <<stages_due, l2cache_pipeline_, inFlight_reqs_, biu_req_queue_, resp_queue,
                     from_l2, waiting, biu_msgs, biu_queue, biu_resps, l2cache_biu_credits_,
                     biu_credits, icache_credits>>
      /\ credit_msgs' = IF req_queue'["ICACHE"] # req_queue["ICACHE"] THEN credit_msgs \cup {2}
                        ELSE credit_msgs
  BY DEF CreateFrame
<1>10. CreditsConserved'
  <2>1. /\ icache_credits \in Nat /\ IsFiniteSet(credit_msgs) /\ Cardinality(credit_msgs) \in Nat
        /\ icache_credits + Cardinality(credit_msgs) + Len(req_queue["ICACHE"]) = ReqQueueSize
    BY <1>0, CreditMsgsFinite DEF TypeOK, CreditsConserved
  <2>2. icache_credits + Cardinality(credit_msgs') + Len(req_queue'["ICACHE"]) = ReqQueueSize
    <3>1. CASE v = "ICACHE"
      <4>1. Len(req_queue'["ICACHE"]) = Len(req_queue["ICACHE"]) - 1
            /\ Len(req_queue["ICACHE"]) \in Nat
        BY <1>2, <1>6, <3>1
      <4> DEFINE m == Len(req_queue'["ICACHE"])
                 n == Len(req_queue["ICACHE"])
                 c == Cardinality(credit_msgs')
      <4>2. req_queue'["ICACHE"] # req_queue["ICACHE"]
        <5>1. req_queue'["ICACHE"] = req_queue["ICACHE"] => m = n
          OBVIOUS
        <5>2. m = n - 1 /\ n \in Nat
          BY <4>1
        <5> HIDE DEF m, n
        <5>3. m # n
          BY <5>2
        <5> QED
          BY <5>1, <5>3
      <4>3. Cardinality(credit_msgs \cup {2}) = Cardinality(credit_msgs) + 1
        BY <1>8, <2>1, FS_AddElement
      <4>4. c = Cardinality(credit_msgs) + 1
        BY <1>9, <4>2, <4>3
      <4>5. m = n - 1 /\ n \in Nat /\ icache_credits + Cardinality(credit_msgs) + n = ReqQueueSize
        BY <2>1, <4>1
      <4> HIDE DEF m, n, c
      <4>6. icache_credits + c + m = ReqQueueSize
        BY <2>1, <4>4, <4>5
      <4> QED
        BY <4>6 DEF m, c
    <3>2. CASE v # "ICACHE"
      <4>1. req_queue'["ICACHE"] = req_queue["ICACHE"]
        BY <1>6, <3>2 DEF Units
      <4> QED
        BY <1>9, <2>1, <4>1
    <3> QED
      BY <3>1, <3>2
  <2> QED
    BY <1>0, <1>9, <2>2 DEF CreditsConserved
<1>11. RequestsTracked'
  <2> SUFFICES ASSUME NEW u \in Units, NEW line \in Lines
               PROVE  Held(u, line)' = IF line \in waiting'[u] THEN 1 ELSE 0
    BY DEF RequestsTracked
  <2>1. Held(u, line) = (IF line \in waiting[u] THEN 1 ELSE 0) /\ waiting' = waiting
    BY <1>0, <1>9 DEF RequestsTracked
  <2> DEFINE b == Bit(u = v /\ line = l)
  <2>2. HeldAdds(u, line) /\ b \in Nat
    BY <1>0, HeldParts DEF Bit
  <2>3. Count(pipeline_req_queue_', Own[u][line]) = Count(pipeline_req_queue_, Own[u][line]) + b
    <3>1. Count(Append(pipeline_req_queue_, x), Own[u][line])
            = Count(pipeline_req_queue_, Own[u][line]) + Bit(x \in Own[u][line])
      BY <1>1, <1>3, CountAppend
    <3> QED
      BY <1>3, <1>4, <3>1 DEF Bit
  <2>4. Count(req_queue'[u], {line}) = Count(req_queue[u], {line}) - b
    <3>1. CASE u = v
      <4>1. Count(Tail(req_queue[v]), {line}) = Count(req_queue[v], {line}) - Bit(Head(req_queue[v]) \in {line})
        BY <1>1, CountTail
      <4>2. Bit(Head(req_queue[v]) \in {line}) = b
        BY <3>1 DEF Bit, l
      <4> QED
        BY <1>6, <3>1, <4>1, <4>2
    <3>2. CASE u # v
      <4>1. b = 0 /\ req_queue'[u] = req_queue[u]
        BY <1>6, <3>2 DEF Bit
      <4> QED
        BY <2>2, <4>1 DEF HeldAdds
    <3> QED
      BY <3>1, <3>2
  <2>5. CountInPipe(Own[u][line])' = CountInPipe(Own[u][line])
    BY <1>9 DEF CountInPipe, InPipeline
  <2>6. UNCHANGED <<resp_queue, from_l2, miss_pending_buffer_>>
    BY <1>9
  <2> HIDE DEF b
  <2>7. Held(u, line)' = Held(u, line)
    BY <2>2, <2>3, <2>4, <2>5, <2>6 DEF Held, HeldAdds
  <2> QED
    BY <2>1, <2>7
<1>12. PipelineBounded' /\ OneBIURequestPerLine'
  BY <1>0, <1>9, BoundsKept, OnTheWayKept
<1>13. ReqInv'
  <2>1. InPipeline' = InPipeline
    BY <1>9 DEF InPipeline
  <2> QED
    BY <1>0, <1>5, <1>9, <2>1 DEF ReqInv
<1> QED
  BY <1>8, <1>10, <1>11, <1>12, <1>13 DEF IInv

\* What the BIU returned goes to the unit that missed.
LEMMA ReturnedFacts ==
    ASSUME NEW r \in Missed
    PROVE  /\ Returned(r) \in Fresh /\ Returned(r) \in ReqType
           /\ \A u \in Units, line \in Lines : Returned(r) \in Own[u][line] <=> r \in Own[u][line]
<1> DEFINE x == Returned(r)
<1>1. r \in ReqType /\ r.src \in Units /\ r.dest = "BIU"
  BY DEF Missed
<1>2. x \in ReqType /\ x.src = "BIU" /\ x.dest = r.src /\ x.line = r.line /\ x.state = "RELOAD"
  BY <1>1 DEF ReqType, Returned
<1>3. Owner(x) = r.src /\ Owner(r) = r.src
  BY <1>1, <1>2 DEF Owner, Units
<1> HIDE DEF x
<1>4. x \in Fresh
  BY <1>1, <1>2 DEF Fresh
<1>5. \A u \in Units, line \in Lines : x \in Own[u][line] <=> r \in Own[u][line]
  BY <1>1, <1>2, <1>3, OwnFacts
<1> QED
  BY <1>2, <1>4, <1>5 DEF x

\* What the BIU returned wins: the oldest miss on the line goes on, and the response goes
\* with the last one.
LEMMA CreateForBIUKeeps ==
    ASSUME IInv, CreateFrame, biu_resp_queue_ # << >>,
           NEW l, l = Head(biu_resp_queue_), NEW i, i = Min(PendingOn(l)), PendingOn(l) # {},
           pipeline_req_queue_' = Append(pipeline_req_queue_, Returned(miss_pending_buffer_[i])),
           miss_pending_buffer_' = RemoveAt(miss_pending_buffer_, i),
           biu_resp_queue_' = IF LastOnLine(PendingOn(l)) THEN Tail(biu_resp_queue_)
                              ELSE biu_resp_queue_,
           UNCHANGED req_queue
    PROVE  IInv'
<1>0. /\ TypeOK /\ PipelineBounded /\ CreditsConserved /\ RequestsTracked
      /\ OneBIURequestPerLine /\ PhaseInv /\ EventInv /\ ReqInv /\ BIUInv
  BY DEF IInv
<1>1. /\ miss_pending_buffer_ \in Seq(ReqType) /\ miss_pending_buffer_ \in Seq(Missed)
      /\ pipeline_req_queue_ \in Seq(ReqType) /\ pipeline_req_queue_ \in Seq(Fresh)
      /\ biu_resp_queue_ \in Seq(Lines)
  BY <1>0 DEF TypeOK, ReqInv
<1>2. l \in Lines /\ Tail(biu_resp_queue_) \in Seq(Lines)
  BY <1>1, TailFacts
<1>3. i \in PendingOn(l)
  <2>1. PendingOn(l) \in SUBSET Nat
    BY <1>1, SeqFacts DEF PendingOn
  <2>2. \E m \in PendingOn(l) : \A k \in PendingOn(l) : m <= k
    BY <2>1, LeastNumber
  <2> QED
    BY <2>2, Zenon DEF Min
<1> DEFINE r == miss_pending_buffer_[i]
           x == Returned(r)
<1>4. /\ i \in 1..Len(miss_pending_buffer_) /\ r \in ReqType /\ r \in Missed /\ r.line = l
  <2>1. i \in DOMAIN miss_pending_buffer_ /\ r.line = l
    BY <1>3 DEF PendingOn
  <2> QED
    BY <1>1, <2>1, SeqFacts
<1>5. /\ x \in Fresh /\ x \in ReqType
      /\ \A u \in Units, line \in Lines : x \in Own[u][line] <=> r \in Own[u][line]
  BY <1>4, ReturnedFacts
<1>6. pipeline_req_queue_' = Append(pipeline_req_queue_, x)
  OBVIOUS
<1> HIDE DEF x
<1>7. pipeline_req_queue_' \in Seq(ReqType) /\ pipeline_req_queue_' \in Seq(Fresh)
  BY <1>1, <1>5, <1>6, AppendFacts
<1>8. /\ miss_pending_buffer_' \in Seq(ReqType) /\ miss_pending_buffer_' \in Seq(Missed)
      /\ Len(miss_pending_buffer_') = Len(miss_pending_buffer_) - 1
  BY <1>1, <1>4, RemoveAtFacts
<1>9. TypeOK' /\ PhaseInv' /\ EventInv' /\ BIUInv'
  <2>1. Len(req_queue'["DCACHE"]) <= 1 /\ req_queue' \in [Units -> Seq(Lines)]
    BY <1>0 DEF TypeOK, EventInv
  <2>2. biu_resp_queue_' \in Seq(Lines)
    BY <1>1, <1>2
  <2> QED
    BY <1>7, <1>8, <2>1, <2>2, CreateShared
<1>10. UNCHANGED <<stages_due, l2cache_pipeline_, inFlight_reqs_, biu_req_queue_, resp_queue,
                   from_l2, waiting, biu_msgs, biu_queue, biu_resps, l2cache_biu_credits_,
                   biu_credits, icache_credits, credit_msgs>>
  BY DEF CreateFrame
<1>11. CreditsConserved'
  BY <1>0, <1>10 DEF CreditsConserved
<1>12. PipelineBounded'
  <2>1. InPipeline' = InPipeline
    BY <1>10 DEF InPipeline
  <2>2. Len(miss_pending_buffer_) \in Nat /\ inFlight_reqs_ \in Nat /\ MissBufferSize \in Nat
    BY PipelineTypes, L2Assumption
  <2> QED
    BY <1>0, <1>8, <1>10, <2>1, <2>2 DEF PipelineBounded
<1>13. RequestsTracked'
  <2> SUFFICES ASSUME NEW u \in Units, NEW line \in Lines
               PROVE  Held(u, line)' = IF line \in waiting'[u] THEN 1 ELSE 0
    BY DEF RequestsTracked
  <2>1. Held(u, line) = (IF line \in waiting[u] THEN 1 ELSE 0) /\ waiting' = waiting
    BY <1>0, <1>10 DEF RequestsTracked
  <2> DEFINE b == Bit(r \in Own[u][line])
  <2>2. HeldAdds(u, line) /\ b \in Nat
    BY <1>0, HeldParts DEF Bit
  <2>3. Count(pipeline_req_queue_', Own[u][line]) = Count(pipeline_req_queue_, Own[u][line]) + b
    <3>1. Count(Append(pipeline_req_queue_, x), Own[u][line])
            = Count(pipeline_req_queue_, Own[u][line]) + Bit(x \in Own[u][line])
      BY <1>1, <1>5, CountAppend
    <3> QED
      BY <1>5, <1>6, <3>1 DEF Bit
  <2>4. Count(miss_pending_buffer_', Own[u][line]) = Count(miss_pending_buffer_, Own[u][line]) - b
    BY <1>1, <1>4, CountRemoveAt
  <2>5. CountInPipe(Own[u][line])' = CountInPipe(Own[u][line])
    BY <1>10 DEF CountInPipe, InPipeline
  <2>6. UNCHANGED <<resp_queue, from_l2, req_queue>>
    BY <1>10
  <2> HIDE DEF b
  <2>7. Held(u, line)' = Held(u, line)
    BY <2>2, <2>3, <2>4, <2>5, <2>6 DEF Held, HeldAdds
  <2> QED
    BY <2>1, <2>7
<1>14. OneBIURequestPerLine'
  <2> SUFFICES ASSUME NEW line \in Lines
               PROVE  OnTheWay(line)' = IF FirstOnLine(line)' THEN 0 ELSE 1
    BY DEF OneBIURequestPerLine
  <2>1. OnTheWay(line) = IF FirstOnLine(line) THEN 0 ELSE 1
    BY <1>0 DEF OneBIURequestPerLine
  <2>2. OnTheWayAdds(line)
    BY <1>0, OnTheWayParts
  <2> DEFINE c == Count(miss_pending_buffer_, OfLine(line))
             d == Count(miss_pending_buffer_', OfLine(line))
  <2>3. /\ (FirstOnLine(line) <=> c = 0) /\ c \in Nat /\ (FirstOnLine(line)' <=> d = 0)
        /\ Cardinality(PendingOn(line)) = c
    BY <1>0, <1>9, PendingIsCount, PendingIsCountNext
  <2>4. d = c - Bit(line = l)
    <3>1. Count(RemoveAt(miss_pending_buffer_, i), OfLine(line)) = c - Bit(r \in OfLine(line))
      BY <1>1, <1>4, CountRemoveAt
    <3>2. r \in OfLine(line) <=> line = l
      BY <1>4 DEF OfLine
    <3> QED
      BY <3>1, <3>2 DEF Bit
  <2> HIDE DEF c, d
  <2> DEFINE b == Bit(line = l /\ c = 1)
  <2>5. Count(biu_resp_queue_', {line}) = Count(biu_resp_queue_, {line}) - b /\ b \in Nat
    <3>0. b \in Nat
      BY DEF Bit
    <3>1. Count(biu_resp_queue_, {line}) \in Nat
      BY <2>2 DEF OnTheWayAdds
    <3>2. CASE LastOnLine(PendingOn(l))
      <4>1. Count(Tail(biu_resp_queue_), {line})
              = Count(biu_resp_queue_, {line}) - Bit(Head(biu_resp_queue_) \in {line})
        BY <1>1, CountTail
      <4>2. line = l => c = 1
        BY <2>3, <3>2 DEF LastOnLine
      <4>3. Bit(Head(biu_resp_queue_) \in {line}) = b
        BY <4>2 DEF Bit
      <4> QED
        BY <3>0, <3>2, <4>1, <4>3
    <3>3. CASE ~LastOnLine(PendingOn(l))
      <4>1. line = l => c # 1
        BY <2>3, <3>3 DEF LastOnLine
      <4>2. b = 0
        BY <4>1 DEF Bit
      <4> QED
        BY <3>0, <3>1, <3>3, <4>2
    <3> QED
      BY <3>2, <3>3
  <2> HIDE DEF b
  <2>6. OnTheWay(line)' = OnTheWay(line) - b
    <3>1. UNCHANGED <<biu_req_queue_, biu_msgs, biu_queue, biu_resps>>
      BY <1>10
    <3> QED
      BY <2>2, <2>5, <3>1 DEF OnTheWay, OnTheWayAdds
  <2>7. CASE line = l
    <3>1. c # 0
      BY <2>3, <2>7 DEF FirstOnLine
    <3>2. OnTheWay(line) = 1 /\ d = c - 1
      BY <2>1, <2>3, <2>4, <2>7, <3>1 DEF Bit
    <3>3. CASE c = 1
      BY <2>3, <2>6, <2>7, <3>2, <3>3 DEF b, Bit
    <3>4. CASE c # 1
      BY <2>3, <2>6, <2>7, <3>1, <3>2, <3>4 DEF b, Bit
    <3> QED
      BY <3>3, <3>4
  <2>8. CASE line # l
    <3>1. d = c /\ b = 0
      BY <2>3, <2>4, <2>8 DEF b, Bit
    <3> QED
      BY <2>1, <2>3, <2>6, <3>1
  <2> QED
    BY <2>7, <2>8
<1>15. ReqInv'
  <2>1. InPipeline' = InPipeline
    BY <1>10 DEF InPipeline
  <2> QED
    BY <1>0, <1>7, <1>8, <1>10, <2>1 DEF ReqInv
<1> QED
  BY <1>9, <1>11, <1>12, <1>13, <1>14, <1>15 DEF IInv

\* create_Req_ takes a request of the winner.
LEMMA L2CreatesKeeps ==
    ASSUME IInv, L2Creates
    PROVE  IInv'
<1> DEFINE winner  == arbitrateL2CacheAccessReqs
           pending == PendingOn(Head(biu_resp_queue_))
           oldest  == Min(pending)
           ForBIU  == /\ pipeline_req_queue_' =
                           Append(pipeline_req_queue_, Returned(miss_pending_buffer_[oldest]))
                      /\ miss_pending_buffer_' = RemoveAt(miss_pending_buffer_, oldest)
                      /\ biu_resp_queue_' = IF LastOnLine(pending) THEN Tail(biu_resp_queue_)
                                            ELSE biu_resp_queue_
                      /\ UNCHANGED req_queue
           ForUnit == /\ pipeline_req_queue_' =
                           Append(pipeline_req_queue_, Request(winner, Head(req_queue[winner])))
                      /\ req_queue' = [req_queue EXCEPT ![winner] = Tail(@)]
                      /\ UNCHANGED <<miss_pending_buffer_, biu_resp_queue_>>
           Idle    == UNCHANGED <<pipeline_req_queue_, miss_pending_buffer_, biu_resp_queue_,
                                  req_queue>>
<1>1. /\ phase = "post" /\ 0 \in ev_create_req_
      /\ \E channel \in Units \cup {"BIU"} : QueueOf(channel) # << >>
      /\ channel_select_' = IF TurnTaken THEN OtherUnit(channel_select_) ELSE channel_select_
      /\ ev_issue_req_' = ev_issue_req_ \cup {1}
      /\ ev_create_req_' = (ev_create_req_ \ {0}) \cup
               (IF winner = "NO_ACCESS" \/ biu_resp_queue_' # << >>
                   \/ \E u \in Units : req_queue'[u] # << >> THEN {1} ELSE {})
      /\ credit_msgs' = IF req_queue'["ICACHE"] # req_queue["ICACHE"] THEN credit_msgs \cup {2}
                        ELSE credit_msgs
      /\ UNCHANGED <<phase, stages_due, resp_queue, biu_req_queue_, l2cache_pipeline_,
                     inFlight_reqs_, l2_cache_, l2cache_biu_credits_, ev_handle_req,
                     ev_handle_resp, ev_handle_l2cache_biu_req_, biu_queue, biu_busy_,
                     ev_handle_biu_req_, ev_handle_mss_ack_, mss_busy_, ev_handle_mss_req_,
                     mss_req, mss_ack, waiting, from_l2, icache_credits, biu_msgs, biu_resps,
                     biu_credits>>
  BY DEF L2Creates, create_Req, biuVars, mssVars, linkVars
<1>2. (CASE winner = "BIU" /\ pending # {} -> ForBIU [] winner \in Units -> ForUnit [] OTHER -> Idle)
  BY DEF L2Creates, create_Req
<1>3. /\ channel_select_ \in Units /\ ev_create_req_ \subseteq {0, 1} /\ 1 \notin ev_create_req_
  BY <1>1 DEF IInv, TypeOK, EventInv
<1>4. /\ winner = "BIU" => biu_resp_queue_ # << >>
      /\ winner \in Units => req_queue[winner] # << >>
      /\ winner \in Units \cup {"BIU", "NO_ACCESS"}
  BY <1>3 DEF arbitrateL2CacheAccessReqs, Units
<1> HIDE DEF winner, pending, oldest, ForBIU, ForUnit, Idle
<1>5. "BIU" \notin Units /\ "NO_ACCESS" \notin Units
  BY DEF Units
<1>6. /\ (winner = "BIU" /\ pending # {} => ForBIU) /\ (winner \in Units => ForUnit)
      /\ (winner \notin Units /\ ~(winner = "BIU" /\ pending # {}) => Idle)
  BY <1>2, <1>5
<1>7. CreateFrame
  <2>1. channel_select_' \in Units
    BY <1>1, <1>3 DEF OtherUnit, Units
  <2>2. ev_create_req_' \subseteq {1}
    <3>1. ev_create_req_ \ {0} = {}
      BY <1>3
    <3> QED
      BY <1>1, <3>1
  <2>3. ASSUME ev_create_req_' # {}
        PROVE  \E channel \in Units \cup {"BIU"} : QueueOf(channel)' # << >>
    <3>1. ev_create_req_ \ {0} = {}
      BY <1>3
    <3>2. winner = "NO_ACCESS" \/ biu_resp_queue_' # << >> \/ \E u \in Units : req_queue'[u] # << >>
      BY <1>1, <2>3, <3>1
    <3>3. CASE winner = "NO_ACCESS"
      <4>1. Idle
        BY <1>5, <1>6, <3>3
      <4>2. \A c \in Units \cup {"BIU"} : QueueOf(c)' = QueueOf(c)
        BY <4>1 DEF QueueOf, Idle
      <4> QED
        BY <1>1, <4>2
    <3>4. CASE biu_resp_queue_' # << >>
      <4>1. QueueOf("BIU")' # << >>
        BY <3>4 DEF QueueOf
      <4> QED
        BY <4>1
    <3>5. CASE \E u \in Units : req_queue'[u] # << >>
      <4>1. PICK u \in Units : req_queue'[u] # << >>
        BY <3>5
      <4>2. QueueOf(u)' # << >>
        BY <1>5, <4>1 DEF QueueOf
      <4> QED
        BY <4>1, <4>2
    <3> QED
      BY <3>2, <3>3, <3>4, <3>5
  <2> QED
    BY <1>1, <2>1, <2>2, <2>3 DEF CreateFrame
<1>8. CASE winner = "BIU" /\ pending # {}
  BY <1>4, <1>6, <1>7, <1>8, CreateForBIUKeeps DEF ForBIU, pending, oldest
<1>9. CASE winner \in Units
  BY <1>4, <1>6, <1>7, <1>9, CreateForUnitKeeps DEF ForUnit
<1>10. CASE winner \notin Units /\ ~(winner = "BIU" /\ pending # {})
  BY <1>6, <1>7, <1>10, CreateIdleKeeps DEF Idle
<1> QED
  BY <1>8, <1>9, <1>10
-----------------------------------------------------------------------------
(* The end of a phase.                                                     *)

\* Delays that shrink stay delays of the same messages.
LEMMA AgedFacts ==
    ASSUME NEW ev \in SUBSET Nat, 0 \notin ev
    PROVE  /\ Aged(ev) \subseteq Nat
           /\ \A n \in Nat : n \in Aged(ev) <=> n + 1 \in ev
           /\ ev = {} <=> Aged(ev) = {}
           /\ \A d \in ev : ev = {d} => Aged(ev) = {d - 1}
<1>1. \A d \in ev : d \in Nat /\ d - 1 \in Nat
  OBVIOUS
<1>2. Aged(ev) \subseteq Nat
  BY <1>1 DEF Aged
<1>3. ASSUME NEW n \in Nat
      PROVE  n \in Aged(ev) <=> n + 1 \in ev
  <2>1. ASSUME n \in Aged(ev) PROVE n + 1 \in ev
    <3>1. PICK d \in ev : n = d - 1
      BY <2>1 DEF Aged
    <3>2. n + 1 = d
      BY <1>1, <3>1
    <3> QED
      BY <3>2
  <2>2. ASSUME n + 1 \in ev PROVE n \in Aged(ev)
    <3>1. n = (n + 1) - 1
      OBVIOUS
    <3> QED
      BY <2>2, <3>1 DEF Aged
  <2> QED
    BY <2>1, <2>2
<1>4. (ev = {} <=> Aged(ev) = {}) /\ \A d \in ev : ev = {d} => Aged(ev) = {d - 1}
  BY DEF Aged
<1> QED
  BY <1>2, <1>3, <1>4

\* There are as many of them.
LEMMA AgedSize ==
    ASSUME NEW ev \in SUBSET Nat, IsFiniteSet(ev)
    PROVE  Cardinality(Aged(ev)) = Cardinality(ev)
<1> DEFINE f == [d \in ev |-> d - 1]
           B == Aged(ev)
<1>1. f \in [ev -> B]
  BY DEF Aged
<1>2. \A x, y \in ev : f[x] = f[y] => x = y
  <2> TAKE x, y \in ev
  <2>1. x \in Nat /\ y \in Nat /\ f[x] = x - 1 /\ f[y] = y - 1
    OBVIOUS
  <2> QED
    BY <2>1
<1>3. \A b \in B : \E a \in ev : f[a] = b
  BY DEF Aged
<1> HIDE DEF f, B
<1>4. Cardinality(B) = Cardinality(ev)
  BY <1>1, <1>2, <1>3, SameSize
<1> QED
  BY <1>4 DEF B

\* A response that is closer is for the same line.
Closer(r) == [r EXCEPT !.due = @ - 1]

\* So are all of them.
LEMMA CloserFacts ==
    ASSUME NEW R \in SUBSET [line : Lines, due : Nat], IsFiniteSet(R), \A r \in R : r.due > 0,
           NEW Q, Q = {Closer(r) : r \in R}
    PROVE  /\ Q \subseteq [line : Lines, due : Nat] /\ IsFiniteSet(Q)
           /\ \A line \in Lines : Cardinality({q \in Q : q.line = line})
                                    = Cardinality({r \in R : r.line = line})
<1>1. ASSUME NEW r \in R
      PROVE  /\ Closer(r) \in [line : Lines, due : Nat] /\ Closer(r).line = r.line
             /\ Closer(r).due = r.due - 1 /\ r.due \in Nat
             /\ r = [line |-> r.line, due |-> r.due]
  <2>1. r \in [line : Lines, due : Nat] /\ r.due > 0
    OBVIOUS
  <2>2. Closer(r) = [line |-> r.line, due |-> r.due - 1]
    BY <2>1 DEF Closer
  <2> QED
    BY <2>1, <2>2
<1>2. Q \subseteq [line : Lines, due : Nat]
  BY <1>1
<1>3. ASSUME NEW x \in R, NEW y \in R, Closer(x) = Closer(y)
      PROVE  x = y
  <2>1. x.line = y.line
    BY <1>1, <1>3
  <2>2. x.due - 1 = y.due - 1 /\ x.due \in Nat /\ y.due \in Nat
    BY <1>1, <1>3
  <2>3. x.due = y.due
    BY <2>2
  <2> QED
    BY <1>1, <2>1, <2>3
<1>4. IsFiniteSet(Q)
  <2> DEFINE f == [r \in R |-> Closer(r)]
  <2>1. f \in [R -> Q] /\ \A b \in Q : \E a \in R : f[a] = b
    OBVIOUS
  <2>2. \A x, y \in R : f[x] = f[y] => x = y
    BY <1>3
  <2> HIDE DEF f
  <2> QED
    BY <2>1, <2>2, SameSize
<1>5. ASSUME NEW line \in Lines
      PROVE  Cardinality({q \in Q : q.line = line}) = Cardinality({r \in R : r.line = line})
  <2> DEFINE A == {r \in R : r.line = line}
             B == {q \in Q : q.line = line}
             f == [r \in A |-> Closer(r)]
  <2>1. IsFiniteSet(A)
    <3>1. A \in SUBSET R
      OBVIOUS
    <3> QED
      BY <3>1, FS_Subset
  <2>2. f \in [A -> B]
    BY <1>1
  <2>3. \A b \in B : \E a \in A : f[a] = b
    <3> SUFFICES ASSUME NEW b \in B PROVE \E a \in A : f[a] = b
      OBVIOUS
    <3>1. PICK a \in R : b = Closer(a)
      OBVIOUS
    <3>2. a \in A
      BY <1>1, <3>1
    <3> QED
      BY <3>1, <3>2
  <2>4. \A x, y \in A : f[x] = f[y] => x = y
    BY <1>3
  <2> HIDE DEF A, B, f
  <2>5. Cardinality(B) = Cardinality(A)
    BY <2>1, <2>2, <2>3, <2>4, SameSize
  <2> QED
    BY <2>5 DEF A, B
<1> QED
  BY <1>2, <1>4, <1>5

\* Within a cycle only the phase changes.
LEMMA PhaseKeeps ==
    ASSUME IInv, nextPhase, phase # "post"
    PROVE  IInv'
<1>0. /\ TypeOK /\ PipelineBounded /\ CreditsConserved /\ RequestsTracked
      /\ OneBIURequestPerLine /\ PhaseInv /\ EventInv /\ ReqInv /\ BIUInv
  BY DEF IInv
<1>1. /\ PhaseDone /\ phase' = NextOf[phase]
      /\ UNCHANGED <<stages_due, req_queue, resp_queue, biu_req_queue_, biu_resp_queue_,
                     pipeline_req_queue_, l2cache_pipeline_, inFlight_reqs_,
                     miss_pending_buffer_, l2_cache_, l2cache_biu_credits_, channel_select_,
                     ev_handle_req, ev_handle_resp, ev_handle_l2cache_biu_req_, ev_create_req_,
                     ev_issue_req_, biu_queue, biu_busy_, ev_handle_biu_req_,
                     ev_handle_mss_ack_, mss_busy_, ev_handle_mss_req_, mss_req, mss_ack,
                     waiting, from_l2, icache_credits, credit_msgs, biu_msgs, biu_resps,
                     biu_credits>>
  BY DEF nextPhase, l2Queues, biuVars
<1>2. phase \in {"port", "tick"}
  BY <1>0 DEF TypeOK
<1>3. (phase = "port" => phase' = "tick") /\ (phase = "tick" => phase' = "post")
  BY <1>1 DEF NextOf
<1>4. phase' \in {"tick", "post"}
  BY <1>2, <1>3
<1>5. TypeOK'
  BY <1>0, <1>1, <1>4 DEF TypeOK
<1>6. PhaseInv'
  <2>1. CASE phase = "port"
    <3>1. /\ phase' = "tick" /\ stages_due /\ ev_handle_resp = {}
          /\ IsFiniteSet(biu_resps) /\ IsFiniteSet(l2_cache_)
      BY <1>0, <1>3, <2>1 DEF PhaseInv
    <3>2. (\A r \in biu_resps : r.due > 0) /\ 0 \notin credit_msgs \cup mss_req \cup mss_ack
      BY <1>1, <2>1 DEF PhaseDone
    <3> QED
      BY <1>1, <3>1, <3>2 DEF PhaseInv
  <2>2. CASE phase = "tick"
    <3>1. /\ phase' = "post" /\ (\A r \in biu_resps : r.due > 0)
          /\ 0 \notin credit_msgs \cup mss_req \cup mss_ack
          /\ IsFiniteSet(biu_resps) /\ IsFiniteSet(l2_cache_)
      BY <1>0, <1>3, <2>2 DEF PhaseInv
    <3>2. /\ ~stages_due /\ ev_handle_resp = {}
          /\ 0 \notin ev_handle_l2cache_biu_req_ \cup ev_handle_mss_req_
      BY <1>1, <2>2 DEF PhaseDone
    <3> QED
      BY <1>1, <3>1, <3>2 DEF PhaseInv
  <2> QED
    BY <1>2, <2>1, <2>2
<1>7. EventInv'
  <2>1. \A c \in Units \cup {"BIU"} : QueueOf(c)' = QueueOf(c)
    BY <1>1 DEF QueueOf
  <2>2. 1 \notin ev_create_req_ /\ 2 \notin credit_msgs /\ l2cache_pipeline_[0] = NoReq
    BY <1>0 DEF EventInv
  <2> QED
    BY <1>0, <1>1, <2>1, <2>2 DEF EventInv
<1>8. BIUInv'
  BY <1>0, <1>1, BIUKept DEF biuVars, mssVars
<1>9. CreditsConserved'
  BY <1>0, <1>1 DEF CreditsConserved
<1>10. PipelineBounded' /\ RequestsTracked' /\ OneBIURequestPerLine' /\ ReqInv'
  BY <1>0, <1>1, BoundsKept, TrackedKept, OnTheWayKept, ReqKept
<1> QED
  BY <1>5, <1>6, <1>7, <1>8, <1>9, <1>10 DEF IInv

\* At the end of a cycle the pipeline moves and every delay shrinks.
LEMMA CycleKeeps ==
    ASSUME IInv, nextPhase, phase = "post"
    PROVE  IInv'
<1>0. /\ TypeOK /\ PipelineBounded /\ CreditsConserved /\ RequestsTracked
      /\ OneBIURequestPerLine /\ PhaseInv /\ EventInv /\ ReqInv /\ BIUInv
  BY DEF IInv
<1>1. /\ PhaseDone /\ phase' = "port" /\ stages_due' = TRUE
      /\ l2cache_pipeline_' = Shifted
      /\ ev_handle_l2cache_biu_req_' = Aged(ev_handle_l2cache_biu_req_)
      /\ ev_create_req_' = Aged(ev_create_req_) /\ ev_issue_req_' = Aged(ev_issue_req_)
      /\ ev_handle_mss_req_' = Aged(ev_handle_mss_req_)
      /\ mss_req' = Aged(mss_req) /\ mss_ack' = Aged(mss_ack)
      /\ biu_resps' = {Closer(r) : r \in biu_resps}
      /\ credit_msgs' = Aged(credit_msgs)
      /\ UNCHANGED <<req_queue, resp_queue, biu_req_queue_, biu_resp_queue_,
                     pipeline_req_queue_, inFlight_reqs_, miss_pending_buffer_, l2_cache_,
                     l2cache_biu_credits_, channel_select_, ev_handle_req, ev_handle_resp,
                     biu_queue, biu_busy_, ev_handle_biu_req_, ev_handle_mss_ack_, mss_busy_,
                     waiting, from_l2, icache_credits, biu_msgs, biu_credits>>
  BY DEF nextPhase, l2Queues, biuVars, NextOf, Closer
<1>2. /\ ev_handle_l2cache_biu_req_ \subseteq {0, 1} /\ ev_create_req_ \subseteq {0, 1}
      /\ ev_issue_req_ \subseteq {0, 1} /\ ev_handle_mss_req_ \subseteq Nat
      /\ mss_req \subseteq Nat /\ mss_ack \subseteq Nat /\ credit_msgs \subseteq Nat
      /\ biu_resps \subseteq [line : Lines, due : Nat]
      /\ l2cache_pipeline_ \in [0..NumStages -> ReqType \cup {NoReq}]
  BY <1>0 DEF TypeOK
<1>3. /\ ~stages_due /\ 0 \notin ev_handle_l2cache_biu_req_ /\ 0 \notin ev_handle_mss_req_
      /\ 0 \notin credit_msgs /\ 0 \notin mss_req /\ 0 \notin mss_ack
      /\ (\A r \in biu_resps : r.due > 0) /\ ev_handle_resp = {} /\ IsFiniteSet(biu_resps)
      /\ IsFiniteSet(l2_cache_)
  BY <1>0 DEF PhaseInv
<1>4. 0 \notin ev_create_req_ /\ 0 \notin ev_issue_req_
  BY <1>1 DEF PhaseDone
<1>5. /\ ev_handle_l2cache_biu_req_' \subseteq {0, 1} /\ ev_create_req_' \subseteq {0}
      /\ ev_issue_req_' \subseteq {0, 1} /\ (ev_create_req_' # {} => ev_create_req_ # {})
  <2>1. \A ev : ev \subseteq {0, 1} /\ 0 \notin ev => ev = {} \/ ev = {1}
    OBVIOUS
  <2>2. Aged({}) = {} /\ Aged({1}) = {0}
    BY DEF Aged
  <2>3. \A ev : ev \subseteq {0, 1} /\ 0 \notin ev => Aged(ev) \subseteq {0} /\ (Aged(ev) # {} => ev # {})
    BY <2>1, <2>2
  <2> QED
    BY <1>1, <1>2, <1>3, <1>4, <2>3
<1>6. /\ ev_handle_mss_req_' \subseteq Nat /\ mss_req' \subseteq Nat /\ mss_ack' \subseteq Nat
      /\ credit_msgs' \subseteq Nat
  BY <1>1, <1>2, <1>3, AgedFacts
<1>7. /\ biu_resps' \subseteq [line : Lines, due : Nat] /\ IsFiniteSet(biu_resps')
      /\ \A line \in Lines : Cardinality({q \in biu_resps' : q.line = line})
                               = Cardinality({r \in biu_resps : r.line = line})
  <2> DEFINE R == biu_resps
             Q == biu_resps'
  <2>1. /\ R \in SUBSET [line : Lines, due : Nat] /\ IsFiniteSet(R) /\ \A r \in R : r.due > 0
        /\ Q = {Closer(r) : r \in R}
    BY <1>1, <1>2, <1>3
  <2> HIDE DEF R, Q
  <2>2. /\ Q \subseteq [line : Lines, due : Nat] /\ IsFiniteSet(Q)
        /\ \A line \in Lines : Cardinality({q \in Q : q.line = line})
                                 = Cardinality({r \in R : r.line = line})
    BY <2>1, CloserFacts
  <2> QED
    BY <2>2 DEF R, Q
<1> DEFINE p == l2cache_pipeline_
           q == l2cache_pipeline_'
<1>8. /\ q \in [0..NumStages -> ReqType \cup {NoReq}] /\ q[0] = NoReq
      /\ \A k \in 1..NumStages : q[k] = p[k - 1] /\ k - 1 \in 0..NumStages
  <2>1. 0 \in 0..NumStages
    BY L2Assumption
  <2>2. ASSUME NEW k \in 1..NumStages
        PROVE  k \in 0..NumStages /\ k # 0 /\ k - 1 \in 0..NumStages
    BY L2Assumption
  <2>3. ASSUME NEW k \in 0..NumStages
        PROVE  (IF k = 0 THEN NoReq ELSE p[k - 1]) \in ReqType \cup {NoReq}
    <3>1. k # 0 => k - 1 \in 0..NumStages
      BY L2Assumption
    <3> QED
      BY <1>2, <3>1
  <2> QED
    BY <1>1, <2>1, <2>2, <2>3 DEF Shifted
<1>9. TypeOK'
  <2>1. stages_due' \in BOOLEAN
    BY <1>1
  <2>2. ev_create_req_' \subseteq {0, 1}
    BY <1>5
  <2> HIDE DEF q
  <2>3. l2cache_pipeline_' \in [0..NumStages -> ReqType \cup {NoReq}]
    BY <1>8 DEF q
  <2> QED
    BY <1>0, <1>1, <1>5, <1>6, <1>7, <2>1, <2>2, <2>3 DEF TypeOK
<1>10. \A T : NoReq \notin T => Cardinality(Slots(q, stages_due', T)) = Cardinality(Slots(p, stages_due, T))
  <2> SUFFICES ASSUME NEW T, NoReq \notin T
               PROVE  Cardinality(Slots(q, stages_due', T)) = Cardinality(Slots(p, stages_due, T))
    OBVIOUS
  <2>1. stages_due' = TRUE /\ stages_due = FALSE
    <3>1. stages_due \in BOOLEAN
      BY <1>0 DEF TypeOK
    <3> QED
      BY <1>1, <1>3, <3>1
  <2>2. q[0] \notin T /\ \A k \in 1..NumStages : q[k] = p[k - 1]
    BY <1>8
  <2> HIDE DEF p, q
  <2>3. Cardinality(Slots(q, TRUE, T)) = Cardinality(Slots(p, FALSE, T))
    BY <2>2, SlotsShifted
  <2> QED
    BY <2>1, <2>3
<1>11. PipelineBounded'
  <2>1. /\ Cardinality(InPipeline') = Cardinality(Slots(l2cache_pipeline_', stages_due', ReqType))
        /\ Cardinality(InPipeline) = Cardinality(Slots(l2cache_pipeline_, stages_due, ReqType))
    BY <1>0, <1>9, InPipeSlots, InPipeSlotsNext
  <2>2. Cardinality(InPipeline') = Cardinality(InPipeline)
    BY <1>10, <2>1, MemorySystemAssumption
  <2> QED
    BY <1>0, <1>1, <2>2 DEF PipelineBounded
<1>12. CreditsConserved'
  <2>1. Cardinality(credit_msgs') = Cardinality(credit_msgs)
    BY <1>0, <1>1, <1>2, CreditMsgsFinite, AgedSize
  <2> QED
    BY <1>0, <1>1, <2>1 DEF CreditsConserved
<1>13. RequestsTracked'
  <2> SUFFICES ASSUME NEW u \in Units, NEW line \in Lines
               PROVE  Held(u, line)' = IF line \in waiting'[u] THEN 1 ELSE 0
    BY DEF RequestsTracked
  <2>1. Held(u, line) = IF line \in waiting[u] THEN 1 ELSE 0
    BY <1>0 DEF RequestsTracked
  <2>2. CountInPipe(Own[u][line])' = CountInPipe(Own[u][line])
    <3>1. NoReq \notin Own[u][line]
      BY OwnFacts
    <3>2. CountInPipe(Own[u][line])
            = Cardinality(Slots(l2cache_pipeline_, stages_due, Own[u][line]))
      BY <1>0, <3>1, InPipeSlots
    <3>3. CountInPipe(Own[u][line])'
            = Cardinality(Slots(l2cache_pipeline_', stages_due', Own[u][line]))
      BY <1>9, <3>1, InPipeSlotsNext
    <3> QED
      BY <1>10, <3>1, <3>2, <3>3
  <2>3. UNCHANGED <<req_queue, pipeline_req_queue_, resp_queue, from_l2, miss_pending_buffer_, waiting>>
    BY <1>1
  <2> QED
    BY <2>1, <2>2, <2>3 DEF Held
<1>14. OneBIURequestPerLine'
  <2> SUFFICES ASSUME NEW line \in Lines
               PROVE  OnTheWay(line)' = IF FirstOnLine(line)' THEN 0 ELSE 1
    BY DEF OneBIURequestPerLine
  <2>1. UNCHANGED <<biu_req_queue_, biu_msgs, biu_queue, biu_resp_queue_, miss_pending_buffer_>>
    BY <1>1
  <2>2. OnTheWay(line)' = OnTheWay(line)
    BY <1>7, <2>1 DEF OnTheWay
  <2>3. FirstOnLine(line)' = FirstOnLine(line)
    BY <2>1 DEF FirstOnLine, PendingOn
  <2> QED
    BY <1>0, <2>2, <2>3 DEF OneBIURequestPerLine
<1>15. PhaseInv'
  BY <1>1, <1>3, <1>7 DEF PhaseInv
<1>16. EventInv'
  <2>1. \A c \in Units \cup {"BIU"} : QueueOf(c)' = QueueOf(c)
    BY <1>1 DEF QueueOf
  <2>2. 1 \notin ev_create_req_'
    BY <1>5
  <2>3. 2 \notin credit_msgs' /\ credit_msgs' \subseteq 0..2
    <3>1. credit_msgs \subseteq 0..2 /\ 3 \notin credit_msgs
      BY <1>0 DEF EventInv
    <3>2. \A n \in Nat : n \in credit_msgs' <=> n + 1 \in credit_msgs
      BY <1>1, <1>2, <1>3, AgedFacts
    <3>3. 2 \notin credit_msgs'
      BY <3>1, <3>2
    <3>4. ASSUME NEW n \in credit_msgs' PROVE n \in 0..2
      <4>1. n \in Nat /\ n + 1 \in 0..2
        BY <1>6, <3>1, <3>2
      <4> QED
        BY <4>1
    <3> QED
      BY <3>3, <3>4
  <2>4. ev_create_req_' # {} => \E channel \in Units \cup {"BIU"} : QueueOf(channel)' # << >>
    BY <1>0, <1>5, <2>1 DEF EventInv
  <2>5. /\ \A u \in Units : Len(resp_queue'[u]) = IF u \in ev_handle_resp' THEN 1 ELSE 0
        /\ Len(req_queue'["DCACHE"]) <= 1
    BY <1>0, <1>1 DEF EventInv
  <2>6. l2cache_pipeline_'[0] = NoReq
    BY <1>8
  <2> QED
    BY <2>2, <2>3, <2>4, <2>5, <2>6 DEF EventInv
<1>17. ReqInv'
  <2>1. ASSUME NEW k \in InPipeline'
        PROVE  l2cache_pipeline_'[k] \in IF k = HIT_MISS_HANDLING \/ (k = CACHE_LOOKUP /\ ~stages_due')
                                         THEN Looked ELSE Fresh
    <3>1. k \in 0..NumStages /\ q[k] # NoReq
      BY <2>1 DEF InPipeline
    <3>2. k # 0
      BY <1>8, <3>1
    <3>3. k \in 1..NumStages /\ NumStages \in Nat
      BY <3>1, <3>2, L2Assumption
    <3>4. q[k] = p[k - 1] /\ k - 1 \in 0..NumStages
      BY <1>8, <3>3
    <3>5. k - 1 # NumStages /\ (k - 1 = NumStages - 1 <=> k = NumStages)
      BY <3>3
    <3>6. k - 1 \in InPipeline
      BY <3>1, <3>4, <3>5 DEF InPipeline, HIT_MISS_HANDLING
    <3>7. p[k - 1] \in IF k - 1 = NumStages - 1 THEN Looked ELSE Fresh
      BY <1>0, <1>3, <3>5, <3>6 DEF ReqInv, HIT_MISS_HANDLING, CACHE_LOOKUP
    <3>8. q[k] \in IF k = NumStages THEN Looked ELSE Fresh
      BY <3>4, <3>5, <3>7
    <3> QED
      BY <1>1, <3>8 DEF HIT_MISS_HANDLING
  <2> QED
    BY <1>0, <1>1, <2>1 DEF ReqInv
<1>18. BIUInv'
  <2>1. /\ (mss_req' = {} <=> mss_req = {}) /\ (mss_ack' = {} <=> mss_ack = {})
        /\ (ev_handle_mss_req_' = {} <=> ev_handle_mss_req_ = {})
    BY <1>1, <1>2, <1>3, AgedFacts
  <2>2. (\E d \in mss_req : mss_req = {d}) => \E d \in mss_req' : mss_req' = {d}
    BY <1>1, <1>2, <1>3, AgedFacts
  <2>3. (\E d \in mss_ack : mss_ack = {d}) => \E d \in mss_ack' : mss_ack' = {d}
    BY <1>1, <1>2, <1>3, AgedFacts
  <2>4. (\E d \in ev_handle_mss_req_ : ev_handle_mss_req_ = {d})
           => \E d \in ev_handle_mss_req_' : ev_handle_mss_req_' = {d}
    BY <1>1, <1>2, <1>3, AgedFacts
  <2>5. UNCHANGED <<biu_queue, biu_busy_, ev_handle_biu_req_, ev_handle_mss_ack_, mss_busy_>>
    BY <1>1
  <2> QED
    BY <1>0, <2>1, <2>2, <2>3, <2>4, <2>5 DEF BIUInv
<1> QED
  BY <1>9, <1>11, <1>12, <1>13, <1>14, <1>15, <1>16, <1>17, <1>18 DEF IInv
-----------------------------------------------------------------------------
(* The theorems.                                                           *)

\* The initial states.
LEMMA InitIInv ==
    ASSUME Init
    PROVE  IInv
<1>1. /\ phase = "port" /\ stages_due = TRUE
      /\ req_queue = [u \in Units |-> << >>] /\ resp_queue = [u \in Units |-> << >>]
      /\ biu_req_queue_ = << >> /\ biu_resp_queue_ = << >>
      /\ pipeline_req_queue_ = << >> /\ miss_pending_buffer_ = << >>
      /\ l2cache_pipeline_ = [k \in 0..NumStages |-> NoReq] /\ inFlight_reqs_ = 0
      /\ l2_cache_ = {} /\ l2cache_biu_credits_ = 0 /\ channel_select_ = "ICACHE"
      /\ ev_handle_req = {} /\ ev_handle_resp = {}
      /\ ev_handle_l2cache_biu_req_ = {} /\ ev_create_req_ = {} /\ ev_issue_req_ = {}
      /\ biu_queue = << >> /\ biu_busy_ = FALSE
      /\ ev_handle_biu_req_ = FALSE /\ ev_handle_mss_ack_ = FALSE
      /\ mss_busy_ = FALSE /\ ev_handle_mss_req_ = {} /\ mss_req = {} /\ mss_ack = {}
      /\ waiting = [u \in Units |-> {}] /\ from_l2 = << >>
      /\ biu_msgs = << >> /\ biu_resps = {} /\ biu_credits = BIUQueueSize
      /\ icache_credits = ReqQueueSize /\ credit_msgs = {}
  BY DEF Init, L2Init, BIUInit
<1>2. /\ ReqQueueSize \in Nat /\ BIUQueueSize \in Nat /\ MissBufferSize \in Nat
      /\ BIUReqQueueSize \in Nat /\ L2Lines \in Nat /\ 0 \in 0..NumStages
  BY L2Assumption, BIUAssumption
<1>3. IsFiniteSet({}) /\ Cardinality({}) = 0
  BY FS_EmptySet
<1>4. TypeOK
  <2>1. Cardinality(l2_cache_) <= L2Lines
    BY <1>1, <1>2, <1>3
  <2>2. stages_due \in BOOLEAN /\ biu_busy_ \in BOOLEAN /\ ev_handle_biu_req_ \in BOOLEAN
        /\ ev_handle_mss_ack_ \in BOOLEAN /\ mss_busy_ \in BOOLEAN
    BY <1>1
  <2>3. /\ req_queue \in [Units -> Seq(Lines)] /\ resp_queue \in [Units -> Seq(Lines)]
        /\ biu_req_queue_ \in Seq(Lines) /\ biu_resp_queue_ \in Seq(Lines)
        /\ pipeline_req_queue_ \in Seq(ReqType) /\ miss_pending_buffer_ \in Seq(ReqType)
        /\ l2cache_pipeline_ \in [0..NumStages -> ReqType \cup {NoReq}]
        /\ biu_queue \in Seq(Lines) /\ biu_msgs \in Seq(Lines)
        /\ waiting \in [Units -> SUBSET Lines] /\ from_l2 \in Seq([unit : Units, line : Lines])
    BY <1>1
  <2>4. channel_select_ \in Units
    BY <1>1 DEF Units
  <2>5. /\ inFlight_reqs_ \in Nat /\ l2cache_biu_credits_ \in Nat /\ biu_credits \in Nat
        /\ icache_credits \in Nat
    BY <1>1, <1>2
  <2>6. /\ phase \in {"port", "tick", "post"} /\ l2_cache_ \subseteq Lines
        /\ ev_handle_req \subseteq Units \cup {"BIU"} /\ ev_handle_resp \subseteq Units
        /\ ev_handle_l2cache_biu_req_ \subseteq {0, 1} /\ ev_create_req_ \subseteq {0, 1}
        /\ ev_issue_req_ \subseteq {0, 1} /\ ev_handle_mss_req_ \subseteq Nat
        /\ mss_req \subseteq Nat /\ mss_ack \subseteq Nat
        /\ biu_resps \subseteq [line : Lines, due : Nat] /\ credit_msgs \subseteq Nat
    BY <1>1
  <2> QED
    BY <2>1, <2>2, <2>3, <2>4, <2>5, <2>6 DEF TypeOK
<1>5. InPipeline = {}
  BY <1>1 DEF InPipeline
<1>6. PipelineBounded
  <2>1. Cardinality(InPipeline) = 0
    BY <1>3, <1>5
  <2>2. Len(miss_pending_buffer_) = 0 /\ Len(biu_req_queue_) = 0
    BY <1>1
  <2> QED
    BY <1>1, <1>2, <2>1, <2>2 DEF PipelineBounded
<1>7. CreditsConserved
  <2>1. Len(biu_msgs) = 0 /\ Len(biu_queue) = 0 /\ Len(req_queue["ICACHE"]) = 0
    BY <1>1 DEF Units
  <2>2. Cardinality(credit_msgs) = 0
    BY <1>1, <1>3
  <2> QED
    BY <1>1, <1>2, <2>1, <2>2 DEF CreditsConserved
<1>8. RequestsTracked
  <2> SUFFICES ASSUME NEW u \in Units, NEW line \in Lines
               PROVE  Held(u, line) = 0 /\ line \notin waiting[u]
    BY DEF RequestsTracked
  <2>1. {k \in InPipeline : l2cache_pipeline_[k] \in Own[u][line]} = {}
    BY <1>5
  <2>2. CountInPipe(Own[u][line]) = 0
    BY <1>3, <2>1 DEF CountInPipe
  <2>3. req_queue[u] = << >> /\ resp_queue[u] = << >> /\ waiting[u] = {}
    BY <1>1
  <2>4. /\ Count(req_queue[u], {line}) = 0 /\ Count(resp_queue[u], {line}) = 0
        /\ Count(pipeline_req_queue_, Own[u][line]) = 0
        /\ Count(miss_pending_buffer_, Own[u][line]) = 0
        /\ Count(from_l2, {[unit |-> u, line |-> line]}) = 0
    BY <1>1, <2>3, CountEmpty
  <2> QED
    BY <2>2, <2>3, <2>4 DEF Held
<1>9. OneBIURequestPerLine
  <2> SUFFICES ASSUME NEW line \in Lines
               PROVE  OnTheWay(line) = 0 /\ FirstOnLine(line)
    BY DEF OneBIURequestPerLine
  <2>1. {r \in biu_resps : r.line = line} = {}
    BY <1>1
  <2>2. Cardinality({r \in biu_resps : r.line = line}) = 0
    BY <1>3, <2>1
  <2>3. /\ Count(biu_req_queue_, {line}) = 0 /\ Count(biu_msgs, {line}) = 0
        /\ Count(biu_queue, {line}) = 0 /\ Count(biu_resp_queue_, {line}) = 0
    BY <1>1, CountEmpty
  <2>4. FirstOnLine(line)
    BY <1>1 DEF FirstOnLine, PendingOn
  <2> QED
    BY <2>2, <2>3, <2>4 DEF OnTheWay
<1>10. PhaseInv
  BY <1>1, <1>3 DEF PhaseInv
<1>11. EventInv
  <2>1. Len(req_queue["DCACHE"]) = 0
    BY <1>1 DEF Units
  <2>2. \A u \in Units : Len(resp_queue[u]) = 0
    BY <1>1
  <2>3. l2cache_pipeline_[0] = NoReq
    BY <1>1, <1>2
  <2> QED
    BY <1>1, <2>1, <2>2, <2>3 DEF EventInv
<1>12. ReqInv
  <2>1. pipeline_req_queue_ \in Seq(Fresh) /\ miss_pending_buffer_ \in Seq(Missed)
    BY <1>1
  <2> QED
    BY <1>5, <2>1 DEF ReqInv
<1>13. BIUInv
  BY <1>1 DEF BIUInv
<1> QED
  BY <1>4, <1>6, <1>7, <1>8, <1>9, <1>10, <1>11, <1>12, <1>13 DEF IInv

\* A step that changes nothing.
LEMMA StutterKeeps ==
    ASSUME IInv, UNCHANGED vars
    PROVE  IInv'
<1>0. /\ TypeOK /\ PipelineBounded /\ CreditsConserved /\ RequestsTracked
      /\ OneBIURequestPerLine /\ PhaseInv /\ EventInv /\ ReqInv /\ BIUInv
  BY DEF IInv
<1>1. UNCHANGED <<phase, stages_due, req_queue, resp_queue, biu_req_queue_, biu_resp_queue_,
                  pipeline_req_queue_, l2cache_pipeline_, inFlight_reqs_,
                  miss_pending_buffer_, l2_cache_, l2cache_biu_credits_, channel_select_,
                  ev_handle_req, ev_handle_resp, ev_handle_l2cache_biu_req_, ev_create_req_,
                  ev_issue_req_, biu_queue, biu_busy_, ev_handle_biu_req_,
                  ev_handle_mss_ack_, mss_busy_, ev_handle_mss_req_, mss_req, mss_ack,
                  waiting, from_l2, icache_credits, credit_msgs, biu_msgs, biu_resps,
                  biu_credits>>
  BY DEF vars, l2Vars, l2Queues, l2Pipe, l2Events, biuVars, mssVars, envVars, linkVars
<1>2. TypeOK'
  BY <1>0, <1>1 DEF TypeOK
<1>3. PhaseInv' /\ CreditsConserved'
  BY <1>0, <1>1 DEF PhaseInv, CreditsConserved
<1>4. EventInv'
  BY <1>0, <1>1 DEF EventInv, QueueOf
<1>5. BIUInv'
  BY <1>0, <1>1, BIUKept DEF biuVars, mssVars
<1>6. PipelineBounded' /\ RequestsTracked' /\ OneBIURequestPerLine' /\ ReqInv'
  BY <1>0, <1>1, BoundsKept, TrackedKept, OnTheWayKept, ReqKept
<1> QED
  BY <1>2, <1>3, <1>4, <1>5, <1>6 DEF IInv

\* Every step.
LEMMA StepIInv ==
    ASSUME IInv, [Next]_vars
    PROVE  IInv'
<1>1. CASE UNCHANGED vars
  BY <1>1, StutterKeeps
<1>2. CASE ICacheAsks
  BY <1>2, ICacheAsksKeeps
<1>3. CASE DCacheAsks
  BY <1>3, DCacheAsksKeeps
<1>4. CASE UnitAnswered
  BY <1>4, UnitAnsweredKeeps
<1>5. CASE ICacheTakesCredit
  BY <1>5, ICacheTakesCreditKeeps
<1>6. CASE DeliverBIUResp
  BY <1>6, DeliverBIURespKeeps
<1>7. CASE DeliverBIUCredits
  BY <1>7, DeliverBIUCreditsKeeps
<1>8. CASE DeliverToBIU
  BY <1>8, DeliverToBIUKeeps
<1>9. CASE DeliverMSS
  BY <1>9, AckFromMSSKeeps, ReqFromBIUKeeps DEF DeliverMSS
<1>10. CASE L2Stages
  BY <1>10, L2StagesKeeps
<1>11. CASE L2HandlesReq
  BY <1>11, L2HandlesReqKeeps
<1>12. CASE L2SendsToBIU
  BY <1>12, L2SendsToBIUKeeps
<1>13. CASE L2Responds
  BY <1>13, L2RespondsKeeps
<1>14. CASE BIUSends
  BY <1>14, BIUSendsKeeps
<1>15. CASE BIUResponds
  BY <1>15, BIURespondsKeeps
<1>16. CASE MSSResponds
  BY <1>16, MSSRespondsKeeps
<1>17. CASE L2Creates
  BY <1>17, L2CreatesKeeps
<1>18. CASE L2Issues
  BY <1>18, L2IssuesKeeps
<1>19. CASE nextPhase
  BY <1>19, PhaseKeeps, CycleKeeps
<1> QED
  BY <1>1, <1>2, <1>3, <1>4, <1>5, <1>6, <1>7, <1>8, <1>9, <1>10, <1>11, <1>12, <1>13, <1>14,
     <1>15, <1>16, <1>17, <1>18, <1>19 DEF Next, Handlers

\* The inductive invariant.
THEOREM MemorySystemInvariant == Spec => []IInv
<1>1. Init => IInv
  BY InitIInv
<1>2. IInv /\ [Next]_vars => IInv'
  BY StepIInv
<1> QED
  BY <1>1, <1>2, PTL DEF Spec

\* For any sizes of the queues: no request is lost, doubled or answered to the other unit,
\* and the misses on a line share one request to the BIU.
THEOREM RequestsAreExact == Spec => []RequestsExact
<1>1. IInv => RequestsExact
  BY DEF IInv, RequestsExact
<1> QED
  BY <1>1, MemorySystemInvariant, PTL

-----------------------------------------------------------------------------
(* L2Service.                                                              *)

\* What counts in a queue is in it.
LEMMA CountMember ==
    ASSUME NEW S, NEW s \in Seq(S), NEW T
    PROVE  Count(s, T) # 0 <=> \E e \in ToSet(s) : e \in T
<1>1. Count(s, T) = 0 <=> \A k \in DOMAIN s : s[k] \notin T
  BY CountIsNat
<1> QED
  BY <1>1 DEF ToSet

\* The lines owed to each unit are those it waits for.
OwedInv == \A u \in Units : OwedTo(u) = waiting[u]

\* They are where Held looks for them.
LEMMA OwedIsWaiting ==
    ASSUME IInv
    PROVE  OwedInv
<1>0. TypeOK /\ RequestsTracked
  BY DEF IInv
<1> SUFFICES ASSUME NEW u \in Units PROVE OwedTo(u) = waiting[u]
  BY DEF OwedInv
<1>1. /\ req_queue[u] \in Seq(Lines) /\ resp_queue[u] \in Seq(Lines)
      /\ pipeline_req_queue_ \in Seq(ReqType) /\ miss_pending_buffer_ \in Seq(ReqType)
      /\ from_l2 \in Seq([unit : Units, line : Lines]) /\ waiting[u] \subseteq Lines
      /\ \A k \in InPipeline : l2cache_pipeline_[k] \in ReqType
  BY <1>0, PipelineTypes DEF TypeOK
<1> DEFINE P == {l2cache_pipeline_[k] : k \in InPipeline}
           reqs == ToSet(pipeline_req_queue_) \cup ToSet(miss_pending_buffer_) \cup P
<1>2. \A S : \A s \in Seq(S) : ToSet(s) \subseteq S
  <2> SUFFICES ASSUME NEW S, NEW s \in Seq(S) PROVE ToSet(s) \subseteq S
    OBVIOUS
  <2> QED
    BY SeqFacts DEF ToSet
<1>3. OwedTo(u) = ToSet(req_queue[u]) \cup ToSet(resp_queue[u])
                  \cup {m.line : m \in {x \in ToSet(from_l2) : x.unit = u}}
                  \cup {r.line : r \in {x \in reqs : Owner(x) = u}}
  BY DEF OwedTo
<1>4. reqs \subseteq ReqType
  BY <1>1, <1>2
<1>5. OwedTo(u) \subseteq Lines
  <2>1. ToSet(req_queue[u]) \subseteq Lines /\ ToSet(resp_queue[u]) \subseteq Lines
    BY <1>1, <1>2
  <2>2. ToSet(from_l2) \subseteq [unit : Units, line : Lines]
    BY <1>1, <1>2
  <2>3. \A r \in ReqType : r.line \in Lines
    BY DEF ReqType
  <2> HIDE DEF reqs
  <2> QED
    BY <1>3, <1>4, <2>1, <2>2, <2>3
<1>6. ASSUME NEW line \in Lines
      PROVE  line \in OwedTo(u) <=> line \in waiting[u]
  <2> DEFINE x == [unit |-> u, line |-> line]
             T == Own[u][line]
  <2>1. HeldAdds(u, line) /\ Held(u, line) = IF line \in waiting[u] THEN 1 ELSE 0
    BY <1>0, HeldParts DEF RequestsTracked
  <2>2. line \in waiting[u] <=>
           \/ Count(req_queue[u], {line}) # 0 \/ Count(pipeline_req_queue_, T) # 0
           \/ CountInPipe(T) # 0 \/ Count(miss_pending_buffer_, T) # 0
           \/ Count(resp_queue[u], {line}) # 0 \/ Count(from_l2, {x}) # 0
    <3> DEFINE a == Count(req_queue[u], {line})
               b == Count(pipeline_req_queue_, T)
               c == CountInPipe(T)
               d == Count(miss_pending_buffer_, T)
               e == Count(resp_queue[u], {line})
               f == Count(from_l2, {x})
    <3>1. a \in Nat /\ b \in Nat /\ c \in Nat /\ d \in Nat /\ e \in Nat /\ f \in Nat
      BY <2>1 DEF HeldAdds
    <3>2. Held(u, line) = a + b + c + d + e + f
      BY <2>1 DEF Held
    <3> HIDE DEF a, b, c, d, e, f
    <3>3. line \in waiting[u] <=> a + b + c + d + e + f # 0
      BY <2>1, <3>2
    <3>4. a + b + c + d + e + f # 0 <=> \/ a # 0 \/ b # 0 \/ c # 0 \/ d # 0 \/ e # 0 \/ f # 0
      BY <3>1
    <3> QED
      BY <3>3, <3>4 DEF a, b, c, d, e, f
  <2>3. (Count(req_queue[u], {line}) # 0 <=> line \in ToSet(req_queue[u]))
        /\ (Count(resp_queue[u], {line}) # 0 <=> line \in ToSet(resp_queue[u]))
    BY <1>1, CountMember
  <2>4. (Count(pipeline_req_queue_, T) # 0 <=> \E r \in ToSet(pipeline_req_queue_) : r \in T)
        /\ (Count(miss_pending_buffer_, T) # 0 <=> \E r \in ToSet(miss_pending_buffer_) : r \in T)
    BY <1>1, CountMember
  <2>5. CountInPipe(T) # 0 <=> \E r \in P : r \in T
    <3> DEFINE A == {k \in InPipeline : l2cache_pipeline_[k] \in T}
    <3>1. IsFiniteSet(A)
      <4>1. IsFiniteSet(0..NumStages)
        BY L2Assumption, FS_Interval
      <4>2. A \in SUBSET (0..NumStages)
        BY DEF InPipeline
      <4> QED
        BY <4>1, <4>2, FS_Subset
    <3>2. Cardinality(A) = 0 <=> A = {}
      BY <3>1, FS_EmptySet
    <3> QED
      BY <3>2 DEF CountInPipe
  <2>6. Count(from_l2, {x}) # 0 <=> line \in {m.line : m \in {z \in ToSet(from_l2) : z.unit = u}}
    <3>1. Count(from_l2, {x}) # 0 <=> x \in ToSet(from_l2)
      <4> HIDE DEF x
      <4> QED
        BY <1>1, CountMember
    <3>2. \A z \in ToSet(from_l2) : z.unit = u /\ z.line = line <=> z = x
      <4>1. ToSet(from_l2) \subseteq [unit : Units, line : Lines]
        BY <1>1, <1>2
      <4> QED
        BY <4>1
    <3> HIDE DEF x
    <3> QED
      BY <3>1, <3>2
  <2>7. (\E r \in reqs : r \in T) <=> line \in {r.line : r \in {z \in reqs : Owner(z) = u}}
    <3>1. T = {r \in ReqType : Owner(r) = u /\ r.line = line}
      BY OwnFacts
    <3> HIDE DEF reqs
    <3> QED
      BY <1>4, <3>1
  <2>8. (\E r \in reqs : r \in T) <=> \/ (\E r \in ToSet(pipeline_req_queue_) : r \in T)
                                     \/ (\E r \in ToSet(miss_pending_buffer_) : r \in T)
                                     \/ (\E r \in P : r \in T)
    OBVIOUS
  <2> HIDE DEF reqs, P, T, x
  <2> QED
    BY <1>3, <2>2, <2>3, <2>4, <2>5, <2>6, <2>7, <2>8
<1> QED
  BY <1>1, <1>5, <1>6

\* Every step asks for one line, answers one or leaves what is owed alone.
LEMMA StepServes ==
    ASSUME TypeOK, [Next]_vars
    PROVE  \/ waiting' = waiting
           \/ \E u \in Units : \E line \in Lines \ waiting[u] :
                 waiting' = [waiting EXCEPT ![u] = @ \cup {line}]
           \/ \E u \in Units : \E line \in waiting[u] :
                 waiting' = [waiting EXCEPT ![u] = @ \ {line}]
<1>0. waiting \in [Units -> SUBSET Lines] /\ "ICACHE" \in Units /\ "DCACHE" \in Units
  BY DEF TypeOK, Units
<1>1. CASE ICacheAsks
  <2>1. PICK line \in Lines \ waiting["ICACHE"] : waiting' = [waiting EXCEPT !["ICACHE"] = @ \cup {line}]
    BY <1>1 DEF ICacheAsks
  <2> QED
    BY <1>0, <2>1
<1>2. CASE DCacheAsks
  <2>1. PICK line \in Lines : waiting["DCACHE"] = {} /\ waiting' = [waiting EXCEPT !["DCACHE"] = {line}]
    BY <1>2 DEF DCacheAsks
  <2>2. waiting' = [waiting EXCEPT !["DCACHE"] = @ \cup {line}] /\ line \in Lines \ waiting["DCACHE"]
    BY <1>0, <2>1
  <2> QED
    BY <1>0, <2>2
<1>3. CASE UnitAnswered
  <2> DEFINE m == Head(from_l2)
  <2>1. m \in [unit : Units, line : Lines]
    BY <1>3, TailFacts DEF UnitAnswered, TypeOK
  <2>2. m.unit \in Units /\ waiting' = [waiting EXCEPT ![m.unit] = @ \ {m.line}]
    BY <1>3, <2>1 DEF UnitAnswered
  <2> HIDE DEF m
  <2>3. CASE m.line \in waiting[m.unit]
    BY <2>2, <2>3
  <2>4. CASE m.line \notin waiting[m.unit]
    <3>1. waiting[m.unit] \ {m.line} = waiting[m.unit]
      BY <2>4
    <3>2. waiting' = waiting
      BY <1>0, <2>2, <3>1
    <3> QED
      BY <3>2
  <2> QED
    BY <2>3, <2>4
<1>4. CASE UNCHANGED vars \/ nextPhase \/ DeliverBIUResp \/ DeliverBIUCredits \/ DeliverToBIU
           \/ DeliverMSS \/ L2Stages \/ L2HandlesReq
  BY <1>4 DEF vars, envVars, nextPhase, DeliverBIUResp, DeliverBIUCredits, DeliverToBIU,
         DeliverMSS, L2Stages, L2HandlesReq
<1>5. CASE ICacheTakesCredit \/ L2SendsToBIU \/ L2Responds \/ BIUSends \/ BIUResponds
           \/ MSSResponds \/ L2Creates \/ L2Issues
  BY <1>5 DEF envVars, ICacheTakesCredit, L2SendsToBIU, L2Responds, BIUSends, BIUResponds,
         MSSResponds, L2Creates, L2Issues
<1> QED
  BY <1>1, <1>2, <1>3, <1>4, <1>5 DEF Next, Handlers

\* The memory system implements L2Service, for any sizes of its queues: what is owed to a unit
\* is read off the queues, the pipeline and the misses, and only a request adds to it and only
\* the answer to that unit takes from it.
THEOREM MemorySystemServes == Spec => ImplementsService
<1> DEFINE owed == [u \in Units |-> OwedTo(u)]
<1>1. ASSUME Init PROVE Service!Init
  <2>1. OwedInv
    BY <1>1, InitIInv, OwedIsWaiting
  <2>2. \A u \in Units : waiting[u] = {}
    BY <1>1 DEF Init
  <2> QED
    BY <2>1, <2>2 DEF OwedInv, Service!Init
<1>2. ASSUME TypeOK, TypeOK', OwedInv, OwedInv', [Next]_vars
      PROVE  [Service!Next]_owed
  <2>1. owed = waiting
    <3>1. waiting \in [Units -> SUBSET Lines]
      BY <1>2 DEF TypeOK
    <3> QED
      BY <1>2, <3>1 DEF OwedInv
  <2>2. owed' = waiting'
    <3>1. waiting' \in [Units -> SUBSET Lines]
      BY <1>2 DEF TypeOK
    <3> QED
      BY <1>2, <3>1 DEF OwedInv
  <2>3. \/ waiting' = waiting
        \/ \E u \in Units : \E line \in Lines \ waiting[u] :
              waiting' = [waiting EXCEPT ![u] = @ \cup {line}]
        \/ \E u \in Units : \E line \in waiting[u] :
              waiting' = [waiting EXCEPT ![u] = @ \ {line}]
    BY <1>2, StepServes
  <2> QED
    BY <2>1, <2>2, <2>3 DEF Service!Next, Service!Ask, Service!Answer
<1>3. IInv => TypeOK /\ OwedInv
  BY OwedIsWaiting DEF IInv
<1> QED
  BY <1>1, <1>2, <1>3, MemorySystemInvariant, PTL DEF Spec, ImplementsService, Service!Spec

-----------------------------------------------------------------------------
(* The queues.  The BIU returns the credit of a request as it answers, so  *)
(* the credits do not bound its responses: the misses they are for do.     *)

\* The line of a response is that of a miss, and comes once.
LEMMA ResponseLines ==
    ASSUME IInv
    PROVE  /\ biu_resp_queue_ \in Seq(Lines)
           /\ \A k \in DOMAIN biu_resp_queue_ : PendingOn(biu_resp_queue_[k]) # {}
           /\ \A j, k \in DOMAIN biu_resp_queue_ : biu_resp_queue_[j] = biu_resp_queue_[k] => j = k
<1>0. TypeOK /\ PhaseInv /\ OneBIURequestPerLine
  BY DEF IInv
<1>1. biu_resp_queue_ \in Seq(Lines)
  BY <1>0 DEF TypeOK
<1>2. ASSUME NEW line \in Lines
      PROVE  /\ Count(biu_resp_queue_, {line}) \in {0, 1}
             /\ Count(biu_resp_queue_, {line}) = 1 => PendingOn(line) # {}
  <2>1. OnTheWayAdds(line)
    BY <1>0, OnTheWayParts
  <2>2. OnTheWay(line) = IF FirstOnLine(line) THEN 0 ELSE 1
    BY <1>0 DEF OneBIURequestPerLine
  <2> QED
    BY <2>1, <2>2 DEF OnTheWayAdds, OnTheWay, FirstOnLine
<1>3. ASSUME NEW k \in DOMAIN biu_resp_queue_
      PROVE  biu_resp_queue_[k] \in Lines /\ Count(biu_resp_queue_, {biu_resp_queue_[k]}) = 1
  <2>1. biu_resp_queue_[k] \in Lines
    BY <1>1, SeqFacts
  <2>2. Count(biu_resp_queue_, {biu_resp_queue_[k]}) # 0
    BY <1>1, CountIsNat
  <2> QED
    BY <1>2, <2>1, <2>2
<1>4. ASSUME NEW j \in DOMAIN biu_resp_queue_, NEW k \in DOMAIN biu_resp_queue_,
             biu_resp_queue_[j] = biu_resp_queue_[k]
      PROVE  j = k
  <2> DEFINE A == {i \in DOMAIN biu_resp_queue_ : biu_resp_queue_[i] \in {biu_resp_queue_[k]}}
  <2>1. IsFiniteSet(A)
    BY <1>1, CountIsNat
  <2>2. Cardinality(A) = 1
    BY <1>3 DEF Count
  <2>3. j \in A /\ k \in A
    BY <1>4
  <2>4. PICK x : A = {x}
    BY <2>1, <2>2, FS_Singleton
  <2> QED
    BY <2>3, <2>4
<1> QED
  BY <1>1, <1>2, <1>3, <1>4

\* There are no more responses than misses.
LEMMA ResponsesPending ==
    ASSUME IInv
    PROVE  Len(biu_resp_queue_) <= Len(miss_pending_buffer_)
<1> DEFINE n == Len(biu_resp_queue_)
           m == Len(miss_pending_buffer_)
           f == [k \in 1..n |-> CHOOSE j \in 1..m : j \in PendingOn(biu_resp_queue_[k])]
<1>1. /\ n \in Nat /\ DOMAIN biu_resp_queue_ = 1..n /\ m \in Nat /\ DOMAIN miss_pending_buffer_ = 1..m
  BY DEF IInv, TypeOK
<1>2. ASSUME NEW k \in 1..n
      PROVE  f[k] \in 1..m /\ miss_pending_buffer_[f[k]].line = biu_resp_queue_[k]
  <2>1. \E j \in 1..m : j \in PendingOn(biu_resp_queue_[k])
    BY <1>1, ResponseLines DEF PendingOn
  <2>2. f[k] \in 1..m /\ f[k] \in PendingOn(biu_resp_queue_[k])
    BY <2>1
  <2> QED
    BY <2>2 DEF PendingOn
<1>3. ASSUME NEW j \in 1..n, NEW k \in 1..n, f[j] = f[k] PROVE j = k
  BY <1>1, <1>2, <1>3, ResponseLines
<1>4. f \in Injection(1..n, 1..m)
  <2>1. f \in [1..n -> 1..m]
    BY <1>2
  <2> HIDE DEF f
  <2> QED
    BY <1>3, <2>1, Zenon DEF Injection, IsInjective
<1>5. IsFiniteSet(1..m) /\ Cardinality(1..m) = m /\ Cardinality(1..n) = n
  <2> HIDE DEF n, m
  <2> QED
    BY <1>1, FS_Interval
<1> HIDE DEF f, n, m
<1>6. Cardinality(1..n) <= Cardinality(1..m)
  BY <1>4, <1>5, FS_Injection
<1> QED
  BY <1>5, <1>6 DEF n, m

\* ICache waits for as many lines as it may, DCache for one.
WaitInv ==
    /\ IsFiniteSet(waiting["ICACHE"]) /\ Cardinality(waiting["ICACHE"]) <= ICacheMisses
    /\ IsFiniteSet(waiting["DCACHE"]) /\ Cardinality(waiting["DCACHE"]) <= 1

\* It holds at the beginning.
LEMMA InitWaitInv == Init => WaitInv
<1> SUFFICES ASSUME Init PROVE WaitInv
  OBVIOUS
<1>1. waiting["ICACHE"] = {} /\ waiting["DCACHE"] = {}
  BY DEF Init, Units
<1> QED
  BY <1>1, FS_EmptySet, MemorySystemAssumption DEF WaitInv

\* Requests are made within the bounds and answers take from them.
LEMMA StepWaitInv ==
    ASSUME IInv, WaitInv, [Next]_vars
    PROVE  WaitInv'
<1> DEFINE I == waiting["ICACHE"]
           D == waiting["DCACHE"]
<1>0. waiting \in [Units -> SUBSET Lines] /\ "ICACHE" \in Units /\ "DCACHE" \in Units
      /\ ICacheMisses \in Nat
  BY MemorySystemAssumption DEF IInv, TypeOK, Units
<1>1. IsFiniteSet(I) /\ Cardinality(I) \in Nat /\ Cardinality(I) <= ICacheMisses
      /\ IsFiniteSet(D) /\ Cardinality(D) \in Nat /\ Cardinality(D) <= 1
  BY FS_CardinalityType DEF WaitInv
<1>2. CASE ICacheAsks
  <2>1. PICK line \in Lines : waiting' = [waiting EXCEPT !["ICACHE"] = @ \cup {line}]
    BY <1>2, Zenon DEF ICacheAsks
  <2>2. waiting'["ICACHE"] = I \cup {line} /\ waiting'["DCACHE"] = D /\ Cardinality(I) < ICacheMisses
    BY <1>0, <1>2, <2>1 DEF ICacheAsks
  <2> HIDE DEF I
  <2>3. IsFiniteSet(I \cup {line}) /\ Cardinality(I \cup {line}) <= Cardinality(I) + 1
        /\ Cardinality(I \cup {line}) \in Nat
    <3>1. IsFiniteSet(I \cup {line})
          /\ Cardinality(I \cup {line}) = IF line \in I THEN Cardinality(I) ELSE Cardinality(I) + 1
      BY <1>1, FS_AddElement
    <3> QED
      BY <1>1, <3>1
  <2> QED
    BY <1>0, <1>1, <2>2, <2>3 DEF WaitInv
<1>3. CASE DCacheAsks
  <2>1. PICK line \in Lines : waiting' = [waiting EXCEPT !["DCACHE"] = {line}]
    BY <1>3, Zenon DEF DCacheAsks
  <2>2. waiting'["DCACHE"] = {line} /\ waiting'["ICACHE"] = I
    BY <1>0, <2>1
  <2>3. IsFiniteSet({line}) /\ Cardinality({line}) = 1
    BY FS_Singleton
  <2> QED
    BY <1>1, <2>2, <2>3 DEF WaitInv
<1>4. CASE UnitAnswered
  <2>1. waiting' = [waiting EXCEPT ![Head(from_l2).unit] = @ \ {Head(from_l2).line}]
    BY <1>4 DEF UnitAnswered
  <2>2. waiting'["ICACHE"] \in SUBSET I /\ waiting'["DCACHE"] \in SUBSET D
    BY <1>0, <2>1
  <2>3. /\ IsFiniteSet(waiting'["ICACHE"]) /\ Cardinality(waiting'["ICACHE"]) <= Cardinality(I)
        /\ IsFiniteSet(waiting'["DCACHE"]) /\ Cardinality(waiting'["DCACHE"]) <= Cardinality(D)
    BY <1>1, <2>2, FS_Subset
  <2>4. Cardinality(waiting'["ICACHE"]) \in Nat /\ Cardinality(waiting'["DCACHE"]) \in Nat
    BY <2>3, FS_CardinalityType
  <2> QED
    BY <1>0, <1>1, <2>3, <2>4 DEF WaitInv
<1>5. CASE UNCHANGED waiting
  BY <1>5 DEF WaitInv
<1> QED
  BY <1>2, <1>3, <1>4, <1>5 DEF Next, Handlers, vars, envVars, nextPhase, ICacheTakesCredit,
     DeliverBIUResp, DeliverBIUCredits, DeliverToBIU, DeliverMSS, L2Stages, L2HandlesReq,
     L2SendsToBIU, L2Responds, BIUSends, BIUResponds, MSSResponds, L2Creates, L2Issues

\* There are no more responses than lines that are waited for.
LEMMA ResponsesWanted ==
    ASSUME IInv, WaitInv
    PROVE  Len(biu_resp_queue_) <= ICacheMisses + 1
<1> DEFINE n == Len(biu_resp_queue_)
           I == waiting["ICACHE"]
           D == waiting["DCACHE"]
<1>1. n \in Nat /\ DOMAIN biu_resp_queue_ = 1..n /\ biu_resp_queue_ \in [1..n -> Lines]
  BY DEF IInv, TypeOK
<1>2. ASSUME NEW k \in 1..n PROVE biu_resp_queue_[k] \in I \cup D
  <2>1. PICK j \in DOMAIN miss_pending_buffer_ : miss_pending_buffer_[j].line = biu_resp_queue_[k]
    BY <1>1, ResponseLines DEF PendingOn
  <2> DEFINE r == miss_pending_buffer_[j]
  <2>2. r \in ToSet(miss_pending_buffer_) /\ r \in Missed
    BY SeqFacts DEF IInv, ReqInv, ToSet
  <2>3. Owner(r) \in Units
    BY <2>2 DEF Missed, Owner, Units
  <2>4. r.line \in OwedTo(Owner(r))
    BY <2>2 DEF OwedTo
  <2>5. OwedTo(Owner(r)) = waiting[Owner(r)]
    BY <2>3, OwedIsWaiting DEF OwedInv
  <2> QED
    BY <2>1, <2>3, <2>4, <2>5 DEF Units
<1>3. biu_resp_queue_ \in Injection(1..n, I \cup D)
  <2>1. biu_resp_queue_ \in [1..n -> I \cup D]
    BY <1>1, <1>2
  <2> HIDE DEF n, I, D
  <2> QED
    BY <1>1, <2>1, ResponseLines, Zenon DEF Injection, IsInjective
<1>4. IsFiniteSet(I \cup D) /\ Cardinality(I \cup D) <= ICacheMisses + 1
  <2>1. IsFiniteSet(I) /\ IsFiniteSet(D) /\ Cardinality(I) <= ICacheMisses /\ Cardinality(D) <= 1
    BY DEF WaitInv
  <2>2. IsFiniteSet(I \cap D)
    BY <2>1, FS_Subset
  <2>3. Cardinality(I) \in Nat /\ Cardinality(D) \in Nat /\ Cardinality(I \cap D) \in Nat
    BY <2>1, <2>2, FS_CardinalityType
  <2>4. IsFiniteSet(I \cup D) /\ Cardinality(I \cup D) = Cardinality(I) + Cardinality(D) - Cardinality(I \cap D)
    BY <2>1, FS_Union
  <2> HIDE DEF I, D
  <2> QED
    BY <2>1, <2>3, <2>4, MemorySystemAssumption
<1>5. Cardinality(1..n) = n
  <2> HIDE DEF n
  <2> QED
    BY <1>1, FS_Interval
<1> HIDE DEF n, I, D
<1>6. Cardinality(1..n) <= Cardinality(I \cup D) /\ Cardinality(I \cup D) \in Nat
  BY <1>3, <1>4, FS_Injection, FS_CardinalityType
<1> QED
  BY <1>1, <1>4, <1>5, <1>6, MemorySystemAssumption DEF n

\* No queue or buffer of the L2 cache, the BIU or the MSS overflows or is read when it is
\* empty, the pipeline never holds more than could miss, and credits are conserved.  The
\* queue of responses must hold one for each miss, or for each line that can be waited for.
THEOREM QueuesAreBounded ==
    ASSUME BIURespQueueSize >= MissBufferSize \/ BIURespQueueSize > ICacheMisses
    PROVE  Spec => []QueuesBounded
<1>1. ASSUME IInv, WaitInv PROVE QueuesBounded
  <2>0. TypeOK /\ PipelineBounded /\ CreditsConserved /\ EventInv /\ BIUInv
    BY <1>1 DEF IInv
  <2>1. \A u \in Units : Len(req_queue[u]) <= ReqQueueSize
    <3>1. ReqQueueSize \in Nat \ {0} /\ icache_credits \in Nat
          /\ req_queue \in [Units -> Seq(Lines)] /\ Cardinality(credit_msgs) \in Nat
      BY <2>0, L2Assumption, CreditMsgsFinite DEF TypeOK
    <3>2. Len(req_queue["ICACHE"]) \in Nat /\ Len(req_queue["DCACHE"]) \in Nat
      BY <3>1 DEF Units
    <3>3. Len(req_queue["ICACHE"]) <= ReqQueueSize
      BY <2>0, <3>1, <3>2 DEF CreditsConserved
    <3>4. Len(req_queue["DCACHE"]) <= ReqQueueSize
      BY <2>0, <3>1, <3>2 DEF EventInv
    <3> QED
      BY <3>3, <3>4 DEF Units
  <2>2. phase = "post" /\ 0 \in ev_create_req_ =>
          \E channel \in Units \cup {"BIU"} : QueueOf(channel) # << >>
    BY <2>0 DEF EventInv
  <2>3. phase = "port" /\ 0 \in mss_req => ~mss_busy_
    BY <2>0 DEF BIUInv
  <2>4. Len(biu_resp_queue_) <= BIURespQueueSize
    <3>1. Len(biu_resp_queue_) \in Nat /\ Len(miss_pending_buffer_) \in Nat /\ inFlight_reqs_ \in Nat
      BY <2>0, PipelineTypes DEF TypeOK
    <3>2. Len(biu_resp_queue_) <= MissBufferSize
      <4>1. Len(biu_resp_queue_) <= Len(miss_pending_buffer_)
        BY <1>1, ResponsesPending
      <4> QED
        BY <2>0, <3>1, <4>1, L2Assumption DEF PipelineBounded
    <3>3. Len(biu_resp_queue_) <= ICacheMisses + 1
      BY <1>1, ResponsesWanted
    <3> QED
      BY <3>1, <3>2, <3>3, L2Assumption, MemorySystemAssumption
  <2>5. \A u \in Units : Len(resp_queue[u]) <= RespQueueSize
    BY <2>0, L2Assumption DEF EventInv
  <2> QED
    BY <2>0, <2>1, <2>2, <2>3, <2>4, <2>5 DEF QueuesBounded, AssertionsHold
<1>2. Init => WaitInv
  BY InitWaitInv
<1>3. IInv /\ WaitInv /\ [Next]_vars => WaitInv'
  BY StepWaitInv
<1> QED
  BY <1>1, <1>2, <1>3, MemorySystemInvariant, PTL DEF Spec
=============================================================================
