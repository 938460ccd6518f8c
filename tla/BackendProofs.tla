--------------------------- MODULE BackendProofs ---------------------------
(***************************************************************************)
(* Proofs about Backend for every trace, every set of units and dispatch   *)
(* mapping, and every queue depth and bandwidth.  IInv is inductive; the   *)
(* safety properties follow from it.                                       *)
(***************************************************************************)
EXTENDS Backend, FlushArbiter, SequenceFacts

-----------------------------------------------------------------------------
(* Queues one behind the other.                                            *)

\* Elems is Range.
LEMMA ElemsIsRange == \A s : Elems(s) = Range(s)
  BY DEF Elems, Range

\* In a queue that is in order the one before is.
Ordered(s) == \A j, k \in DOMAIN s : j < k => Before(s[j], s[k])

\* Order between the elements of two queues.
LEMMA OrderedConcat ==
    ASSUME NEW S, NEW a \in Seq(S), NEW b \in Seq(S), Ordered(a \o b)
    PROVE  Ordered(a) /\ Ordered(b) /\ \A x \in Range(a), y \in Range(b) : Before(x, y)
<1>1. /\ a \o b \in Seq(S) /\ Len(a \o b) = Len(a) + Len(b)
      /\ Len(a) \in Nat /\ Len(b) \in Nat
      /\ \A k \in 1..Len(a) : (a \o b)[k] = a[k]
      /\ \A k \in 1..Len(b) : (a \o b)[Len(a) + k] = b[k]
  BY ConcatFacts
<1>2. DOMAIN a = 1..Len(a) /\ DOMAIN b = 1..Len(b) /\ DOMAIN (a \o b) = 1..(Len(a) + Len(b))
  BY <1>1, LenProperties
<1> DEFINE c == a \o b
<1>3. \A j, k \in 1..(Len(a) + Len(b)) : j < k => Before(c[j], c[k])
  BY <1>2 DEF Ordered
<1> HIDE DEF c
<1>4. \A k \in 1..Len(a) : c[k] = a[k] /\ k \in 1..(Len(a) + Len(b))
  BY <1>1 DEF c
<1>5. \A k \in 1..Len(b) : c[Len(a) + k] = b[k] /\ Len(a) + k \in 1..(Len(a) + Len(b))
  BY <1>1 DEF c
<1>6. Ordered(a)
  BY <1>2, <1>3, <1>4 DEF Ordered
<1>7. Ordered(b)
  <2> SUFFICES ASSUME NEW j \in 1..Len(b), NEW k \in 1..Len(b), j < k PROVE Before(b[j], b[k])
    BY <1>2 DEF Ordered
  <2>1. Len(a) + j < Len(a) + k
    BY <1>1
  <2> QED
    BY <1>3, <1>5, <2>1
<1>8. ASSUME NEW x \in Range(a), NEW y \in Range(b) PROVE Before(x, y)
  <2>1. PICK j \in 1..Len(a) : x = a[j]
    BY <1>2 DEF Range
  <2>2. PICK k \in 1..Len(b) : y = b[k]
    BY <1>2 DEF Range
  <2>3. j < Len(a) + k
    BY <1>1
  <2> QED
    BY <1>3, <1>4, <1>5, <2>1, <2>2, <2>3
<1> QED
  BY <1>6, <1>7, <1>8

\* The five places of an unretired instruction, one behind the other.
Places(a, b, c, d, e) == a \o b \o c \o d \o e

LEMMA PlacesFacts ==
    ASSUME NEW S, NEW a \in Seq(S), NEW b \in Seq(S), NEW c \in Seq(S), NEW d \in Seq(S),
           NEW e \in Seq(S)
    PROVE  /\ Places(a, b, c, d, e) \in Seq(S)
           /\ Elems(Places(a, b, c, d, e)) =
                 Elems(a) \cup Elems(b) \cup Elems(c) \cup Elems(d) \cup Elems(e)
           /\ Places(a, b, c, d, e) = << >> <=>
                 a = << >> /\ b = << >> /\ c = << >> /\ d = << >> /\ e = << >>
           /\ a # << >> => Head(Places(a, b, c, d, e)) = Head(a)
<1> DEFINE ab   == a \o b
           abc  == ab \o c
           abcd == abc \o d
<1>0. abcd \o e = Places(a, b, c, d, e)
  BY DEF Places
<1>1. ab \in Seq(S) /\ Range(ab) = Range(a) \cup Range(b) /\ (ab = << >> <=> a = << >> /\ b = << >>)
  BY ConcatFacts
<1> HIDE DEF ab
<1>2. abc \in Seq(S) /\ Range(abc) = Range(ab) \cup Range(c)
      /\ (abc = << >> <=> ab = << >> /\ c = << >>)
  BY <1>1, ConcatFacts
<1> HIDE DEF abc
<1>3. abcd \in Seq(S) /\ Range(abcd) = Range(abc) \cup Range(d)
      /\ (abcd = << >> <=> abc = << >> /\ d = << >>)
  BY <1>2, ConcatFacts
<1> HIDE DEF abcd
<1>4. abcd \o e \in Seq(S) /\ Range(abcd \o e) = Range(abcd) \cup Range(e)
      /\ (abcd \o e = << >> <=> abcd = << >> /\ e = << >>)
  BY <1>3, ConcatFacts
<1>5. ASSUME a # << >> PROVE Head(abcd \o e) = Head(a)
  <2>1. PICK r \in Seq(S) : abcd \o e = a \o r
    <3>1. b \o (c \o (d \o e)) \in Seq(S)
      BY Flatten, Zenon
    <3>2. Flattens(a, b, c, d, e)
      BY Flatten, Zenon
    <3> QED
      BY <1>0, <3>1, <3>2, Zenon DEF Flattens, Places
  <2>2. /\ a \o r # << >> /\ a \o r \in Seq(S) /\ Len(a) \in Nat
        /\ \A k \in 1..Len(a) : (a \o r)[k] = a[k]
    BY <1>5, ConcatFacts
  <2>3. Head(a) = a[1] /\ Len(a) \in Nat \ {0}
    BY <1>5, TailFacts
  <2>4. Head(a \o r) = (a \o r)[1]
    BY <2>2, TailFacts
  <2> QED
    BY <2>1, <2>2, <2>3, <2>4
<1>6. \A s : Elems(s) = Range(s)
  BY ElemsIsRange
<1> QED
  BY <1>0, <1>1, <1>2, <1>3, <1>4, <1>5, <1>6, Zenon

\* dispatchQueueAppended_
LEMMA PlacesIntoDispatch ==
    ASSUME NEW S, NEW a \in Seq(S), NEW b \in Seq(S), NEW c \in Seq(S), NEW d \in Seq(S),
           NEW e \in Seq(S)
    PROVE  Same(Places(a, b, c, d \o e, << >>), Places(a, b, c, d, e))
<1>1. a \o b \in Seq(S)
  BY Closed, Zenon
<1>2. a \o b \o c \in Seq(S) /\ d \o e \in Seq(S)
  BY <1>1, Closed, Zenon
<1>3. Associates(a \o b \o c, d, e)
  BY <1>2, Assoc, Zenon
<1>4. a \o b \o c \o (d \o e) \in Seq(S)
  BY <1>2, Closed, Zenon
<1>5. Neutral(a \o b \o c \o (d \o e))
  BY <1>4, EmptyNeutral, Zenon
<1> QED
  BY <1>3, <1>5, Zenon DEF Associates, Neutral, Same, Places

\* robAppended_
LEMMA PlacesIntoROB ==
    ASSUME NEW S, NEW a \in Seq(S), NEW b \in Seq(S), NEW c \in Seq(S), NEW d \in Seq(S),
           NEW e \in Seq(S)
    PROVE  Same(Places(a \o b, << >>, c, d, e), Places(a, b, c, d, e))
<1>1. a \o b \in Seq(S)
  BY Closed, Zenon
<1>2. Neutral(a \o b)
  BY <1>1, EmptyNeutral, Zenon
<1> QED
  BY <1>2, Zenon DEF Neutral, Same, Places

\* The end of a dispatch session.
LEMMA PlacesToROB ==
    ASSUME NEW S, NEW a \in Seq(S), NEW c \in Seq(S), NEW d \in Seq(S), NEW e \in Seq(S)
    PROVE  Same(Places(a, c, << >>, d, e), Places(a, << >>, c, d, e))
<1>1. a \o c \in Seq(S)
  BY Closed, Zenon
<1>2. Neutral(a \o c) /\ Neutral(a)
  BY <1>1, EmptyNeutral, Zenon
<1> QED
  BY <1>2, Zenon DEF Neutral, Same, Places

\* An instruction is dispatched.
LEMMA PlacesDispatch ==
    ASSUME NEW S, NEW a \in Seq(S), NEW b \in Seq(S), NEW c \in Seq(S), NEW d \in Seq(S),
           NEW e \in Seq(S), d # << >>
    PROVE  Same(Places(a, b, Append(c, Head(d)), Tail(d), e), Places(a, b, c, d, e))
<1>1. a \o b \in Seq(S)
  BY Closed, Zenon
<1>2. Head(d) \in S /\ Tail(d) \in Seq(S)
  BY TailFacts
<1>3. Append(c, Head(d)) \in Seq(S)
  BY <1>2, AppendFacts
<1>4. Associates(a \o b, Append(c, Head(d)), Tail(d)) /\ Associates(a \o b, c, d)
  BY <1>1, <1>2, <1>3, Assoc, Zenon
<1>5. Append(c, Head(d)) \o Tail(d) = c \o d
  BY Shift
<1> QED
  BY <1>4, <1>5, Zenon DEF Associates, Same, Places

\* Rename sends an instruction.
LEMMA PlacesSend ==
    ASSUME NEW S, NEW a \in Seq(S), NEW b \in Seq(S), NEW c \in Seq(S), NEW d \in Seq(S),
           NEW e \in Seq(S), NEW x \in S
    PROVE  Same(Places(a, b, c, d, Append(e, x)), Append(Places(a, b, c, d, e), x))
<1>1. a \o b \in Seq(S)
  BY Closed, Zenon
<1>2. a \o b \o c \in Seq(S)
  BY <1>1, Closed, Zenon
<1>3. a \o b \o c \o d \in Seq(S)
  BY <1>2, Closed, Zenon
<1>4. <<x>> \in Seq(S) /\ Append(e, x) = e \o <<x>>
  BY AppendIsConcat
<1>5. a \o b \o c \o d \o e \in Seq(S)
  BY <1>3, Closed, Zenon
<1>6. Append(a \o b \o c \o d \o e, x) = a \o b \o c \o d \o e \o <<x>>
  BY <1>5, AppendIsConcat
<1>7. Associates(a \o b \o c \o d, e, <<x>>)
  BY <1>3, <1>4, Assoc, Zenon
<1> QED
  BY <1>4, <1>6, <1>7, Zenon DEF Associates, Same, Places

\* The oldest instruction retires.
LEMMA PlacesRetire ==
    ASSUME NEW S, NEW a \in Seq(S), NEW b \in Seq(S), NEW c \in Seq(S), NEW d \in Seq(S),
           NEW e \in Seq(S), a # << >>
    PROVE  Same(Places(Tail(a), b, c, d, e), Tail(Places(a, b, c, d, e)))
<1>1. Tail(a) \in Seq(S)
  BY TailFacts
<1>2. b \o (c \o (d \o e)) \in Seq(S) /\ Flattens(a, b, c, d, e)
  BY Flatten, Zenon
<1>3. Flattens(Tail(a), b, c, d, e)
  BY <1>1, Flatten, Zenon
<1>4. PICK r \in Seq(S) : r = b \o (c \o (d \o e))
  BY <1>2, Zenon
<1>5. Tail(a \o r) = Tail(a) \o r
  BY TailConcat
<1> QED
  BY <1>2, <1>3, <1>4, <1>5, Zenon DEF Flattens, Same, Places

-----------------------------------------------------------------------------
(* What the invariant says of single variables.                            *)

\* The types, one by one.
TypeParts ==
    /\ phase \in Phases /\ pc \in {"idle", "retire", "dispatch", "stopped"}
    /\ dispatch_queue_ \in Seq(Inst) /\ reorder_buffer_ \in Seq(Inst)
    /\ inst_queue_ \in Seq(Inst) /\ to_dispatch \in Seq(Inst) /\ to_rob \in Seq(Inst)
    /\ to_rename \in Seq(Inst) /\ insts_dispatched \in Seq(Inst) /\ retired_insts \in Seq(Inst)
    /\ credits_rob_ \in Nat /\ credits_dispatch_ \in Nat /\ num_dispatch \in Nat
    /\ num_to_retire \in Nat /\ retired_this_cycle \in Nat
    /\ expected_program_id_ \in Nat /\ num_retired_ \in Nat
    /\ next_pid \in Nat /\ next_uop \in Nat /\ next_uid \in Nat
    /\ unit_credits_ \in [Units -> Nat] /\ num_can_dispatch_ \in [Units -> {0, 1}]
    /\ blocking_dispatcher_ \in {"INT", "LSU", "UNKNOWN"}
    /\ stalled \in BOOLEAN /\ expect_flush_ \in BOOLEAN /\ ev_flush_ \in BOOLEAN
    /\ ev_retire_ \subseteq {0, 1} /\ ev_dispatch_insts_ \subseteq {0, 1}
    /\ pending_flush_ \in FlushingCriteria \cup {NoFlush}
    /\ flush_upper \in FlushingCriteria \cup {NoFlush}
    /\ flush_lower \in FlushingCriteria \cup {NoFlush}
    /\ completed \subseteq Elems(reorder_buffer_) /\ mispredicted \subseteq Elems(reorder_buffer_)
    /\ oldest \subseteq Elems(reorder_buffer_)
    /\ in_unit \in [Units -> SUBSET Inst]
    /\ trace \in Traces

LEMMA Types == TypeOK => TypeParts
  BY DEF TypeOK, TypeParts

\* The same in the next state.
LEMMA TypesNext == TypeParts' => TypeOK'
  BY Zenon DEF TypeOK, TypeParts

\* What is acknowledged or about to be, and what is not retired.
LEMMA InFlight ==
    ASSUME TypeOK
    PROVE  /\ to_rename \o retired_insts \in Seq(Inst) /\ Unretired \in Seq(Inst)
           /\ Elems(to_rename \o retired_insts) = Elems(to_rename) \cup Elems(retired_insts)
           /\ Elems(Unretired) = Elems(reorder_buffer_) \cup Elems(to_rob)
                 \cup Elems(insts_dispatched) \cup Elems(dispatch_queue_) \cup Elems(to_dispatch)
           /\ Unretired = << >> <=>
                 /\ reorder_buffer_ = << >> /\ to_rob = << >> /\ insts_dispatched = << >>
                 /\ dispatch_queue_ = << >> /\ to_dispatch = << >>
           /\ reorder_buffer_ # << >> => Head(Unretired) = Head(reorder_buffer_)
           /\ Elems(dispatch_queue_ \o to_dispatch) = Elems(dispatch_queue_) \cup Elems(to_dispatch)
<1>1. /\ dispatch_queue_ \in Seq(Inst) /\ reorder_buffer_ \in Seq(Inst)
      /\ to_dispatch \in Seq(Inst) /\ to_rob \in Seq(Inst)
      /\ to_rename \in Seq(Inst) /\ insts_dispatched \in Seq(Inst)
      /\ retired_insts \in Seq(Inst)
  BY Types DEF TypeParts
<1>2. Unretired = Places(reorder_buffer_, to_rob, insts_dispatched, dispatch_queue_, to_dispatch)
  BY DEF Unretired, Places
<1>3. /\ to_rename \o retired_insts \in Seq(Inst)
      /\ Range(to_rename \o retired_insts) = Range(to_rename) \cup Range(retired_insts)
  BY <1>1, ConcatFacts
<1>4. Range(dispatch_queue_ \o to_dispatch) = Range(dispatch_queue_) \cup Range(to_dispatch)
  BY <1>1, ConcatFacts
<1>5. \A s : Elems(s) = Range(s)
  BY ElemsIsRange
<1>6. /\ Unretired \in Seq(Inst)
      /\ Elems(Unretired) = Elems(reorder_buffer_) \cup Elems(to_rob)
            \cup Elems(insts_dispatched) \cup Elems(dispatch_queue_) \cup Elems(to_dispatch)
      /\ Unretired = << >> <=>
            /\ reorder_buffer_ = << >> /\ to_rob = << >> /\ insts_dispatched = << >>
            /\ dispatch_queue_ = << >> /\ to_dispatch = << >>
      /\ reorder_buffer_ # << >> => Head(Unretired) = Head(reorder_buffer_)
  BY <1>1, <1>2, PlacesFacts
<1> QED
  BY <1>3, <1>4, <1>5, <1>6, Zenon

\* Every instruction in flight is in Rename's queue, in order: the acknowledged ones
\* before the others.
LEMMA QueueFacts ==
    ASSUME TypeOK, RenameInSync, OrderInv
    PROVE  /\ Elems(inst_queue_) = Elems(to_rename \o retired_insts) \cup Elems(Unretired)
           /\ Ordered(Unretired)
           /\ \A i \in Elems(to_rename \o retired_insts), j \in Elems(Unretired) : Before(i, j)
<1> DEFINE ack == to_rename \o retired_insts
<1>1. ack \in Seq(Inst) /\ Unretired \in Seq(Inst)
  BY InFlight
<1>2. inst_queue_ = ack \o Unretired
  BY DEF RenameInSync
<1>3. Ordered(inst_queue_)
  BY DEF OrderInv, Ordered
<1> HIDE DEF ack
<1>4. Ordered(Unretired) /\ \A x \in Range(ack), y \in Range(Unretired) : Before(x, y)
  BY <1>1, <1>2, <1>3, OrderedConcat
<1>5. Range(inst_queue_) = Range(ack) \cup Range(Unretired)
  BY <1>1, <1>2, ConcatFacts
<1> QED
  BY <1>4, <1>5, ElemsIsRange, Zenon DEF ack

-----------------------------------------------------------------------------
(* Steps that move instructions without a change of what is in flight.     *)

\* What stays when the front end, Rename's queue, the acknowledged and the unretired
\* instructions and what ROB expects stay.
LEMMA Quiet ==
    ASSUME IInv, UNCHANGED <<frontVars, inst_queue_, expect_flush_, expected_program_id_>>,
           Same(Unretired', Unretired),
           Same((to_rename \o retired_insts)', to_rename \o retired_insts)
    PROVE  FrontInv' /\ RenameInSync' /\ InTraceOrder' /\ ExpectedInv'
<1>1. /\ Unretired' = Unretired
      /\ (to_rename \o retired_insts)' = to_rename \o retired_insts
      /\ trace' = trace /\ next_pid' = next_pid /\ next_uop' = next_uop /\ next_uid' = next_uid
      /\ inst_queue_' = inst_queue_ /\ expect_flush_' = expect_flush_
      /\ expected_program_id_' = expected_program_id_
  BY DEF Same, frontVars
<1>2. FrontInv'
  BY <1>1 DEF IInv, FrontInv
<1>3. RenameInSync'
  BY <1>1, Zenon DEF IInv, RenameInSync
<1>4. InTraceOrder'
  BY <1>1 DEF IInv, InTraceOrder, Follows
<1>5. ExpectedInv'
  BY <1>1 DEF IInv, ExpectedInv, Expected
<1> QED
  BY <1>2, <1>3, <1>4, <1>5

\* The same for the flush under way.
LEMMA QuietFlush ==
    ASSUME IInv, UNCHANGED <<next_uid, trace, expect_flush_, expected_program_id_, pending_flush_,
                             ev_flush_, flush_upper>>,
           mispredicted' \subseteq mispredicted,
           Elems(Unretired)' \subseteq Elems(Unretired),
           Elems(to_rename \o retired_insts)' \subseteq Elems(to_rename \o retired_insts)
    PROVE  FlushInv' /\ FlushIsPrecise'
<1>1. FlushInv'
  BY DEF IInv, FlushInv
<1>2. FlushIsPrecise'
  BY DEF IInv, FlushIsPrecise, includedInFlush
<1> QED
  BY <1>1, <1>2

\* The same for the order of what is in flight, when no unit takes an instruction.
LEMMA QuietOrder ==
    ASSUME IInv, UNCHANGED <<frontVars, inst_queue_>>,
           \A u \in Units : in_unit'[u] \subseteq in_unit[u],
           Elems(dispatch_queue_ \o to_dispatch)' \subseteq Elems(dispatch_queue_ \o to_dispatch)
    PROVE  OrderInv'
<1>1. /\ trace' = trace /\ inst_queue_' = inst_queue_ /\ Upcoming' = Upcoming
  BY DEF frontVars, Upcoming
<1>2. \A i \in Elems(inst_queue_)' :
          /\ i.pid \in DOMAIN trace' /\ i.uop < trace'[i.pid].uops
          /\ i.pipe = trace'[i.pid].pipe /\ i.kind = trace'[i.pid].kind
          /\ Before(i, Upcoming')
  BY <1>1 DEF IInv, OrderInv
<1>3. \A j, k \in DOMAIN inst_queue_' : j < k => Before(inst_queue_'[j], inst_queue_'[k])
  BY <1>1 DEF IInv, OrderInv
<1>4. ASSUME NEW u \in Units, NEW i \in in_unit'[u]
      PROVE  Before(i, Upcoming') /\ \A j \in Elems(dispatch_queue_ \o to_dispatch)' : Before(i, j)
  BY <1>1 DEF IInv, OrderInv
<1> QED
  BY <1>2, <1>3, <1>4 DEF OrderInv, Before

\* A handler of Dispatch that ends with scheduleDispatchSession leaves no instruction
\* asleep: if it schedules nothing, ROB or the blocking unit owes a credit.
LEMMA ScheduleWakes ==
    ASSUME IInv, pc # "dispatch",
           scheduleDispatchSession(dispatch_queue_', credits_rob_', unit_credits_'),
           credits_rob_' \in Nat, unit_credits_' \in [Units -> Nat]
    PROVE  /\ DispatchWakes'
           /\ blocking_dispatcher_' \in {"INT", "LSU", "UNKNOWN"}
           /\ ev_dispatch_insts_' \subseteq {0, 1}
           /\ ev_dispatch_insts_' \subseteq ev_dispatch_insts_ \cup {0}
<1> DEFINE wakes == credits_rob_' > 0 /\ dispatch_queue_' # << >> /\ Unblocked(unit_credits_')
<1>1. TypeOK /\ BandwidthInv
  BY DEF IInv, CreditsConserved
<1>2. /\ blocking_dispatcher_ \in {"INT", "LSU", "UNKNOWN"} /\ ev_dispatch_insts_ \subseteq {0, 1}
      /\ num_can_dispatch_ \in [Units -> {0, 1}]
  BY <1>1, Types DEF TypeParts
<1>3. CASE wakes
  BY <1>2, <1>3 DEF scheduleDispatchSession, DispatchWakes
<1>4. CASE ~wakes
  <2>1. blocking_dispatcher_' = blocking_dispatcher_ /\ ev_dispatch_insts_' = ev_dispatch_insts_
    BY <1>4 DEF scheduleDispatchSession
  <2>2. CASE credits_rob_' = 0
    <3>1. credits_rob_' < RetireQueueDepth
      BY <2>2, ROBAssumption
    <3> QED
      BY <1>2, <2>1, <3>1 DEF DispatchWakes
  <2>3. CASE dispatch_queue_' = << >>
    BY <1>2, <2>1, <2>3 DEF DispatchWakes
  <2>4. CASE ~Unblocked(unit_credits_')
    <3>1. /\ blocking_dispatcher_ \in {"INT", "LSU"}
          /\ \A u \in Elems(Dispatchers[blocking_dispatcher_]) : ~canAccept(u, unit_credits_')
      BY <1>2, <2>4 DEF Unblocked
    <3> DEFINE ds == Dispatchers[blocking_dispatcher_]
    <3>2. ds \in Seq(Units) /\ ds # << >>
      BY <3>1, DispatchAssumption
    <3> HIDE DEF ds
    <3>3. 1 \in DOMAIN ds /\ ds[1] \in Units
      BY <3>2, SeqFacts
    <3>4. ~canAccept(ds[1], unit_credits_')
      BY <3>1, <3>3 DEF ds, Elems
    <3>5. num_can_dispatch_[ds[1]] # 0
      BY <1>1, <3>3 DEF BandwidthInv
    <3>6. unit_credits_'[ds[1]] = 0
      BY <3>4, <3>5 DEF canAccept
    <3>7. unit_credits_'[ds[1]] < UnitSize[ds[1]]
      BY <3>3, <3>6, DispatchAssumption
    <3> QED
      BY <1>2, <2>1, <3>3, <3>7 DEF DispatchWakes
  <2> QED
    BY <1>4, <2>2, <2>3, <2>4
<1> QED
  BY <1>3, <1>4

-----------------------------------------------------------------------------
(* One lemma per action, one step per conjunct it can disturb.             *)

\* dispatchQueueAppended_ keeps the invariant.
LEMMA DeliverToDispatchKeeps == ASSUME IInv, DeliverToDispatch PROVE IInv'
<1> USE DEF DeliverToDispatch, dispatchQueueAppended
<1>0. TypeOK /\ SessionInv /\ BandwidthInv
  BY DEF IInv, CreditsConserved
<1>1. /\ phase = "port" /\ pc = "idle" /\ dispatch_queue_' = dispatch_queue_ \o to_dispatch
      /\ to_dispatch' = << >> /\ phase' = phase /\ pc' = pc
      /\ UNCHANGED <<credits_rob_, unit_credits_, num_can_dispatch_, dispatchLocals>>
      /\ UNCHANGED <<robVars, flushVars, frontVars, inst_queue_, credits_dispatch_, to_rob,
                     to_rename, in_unit>>
      /\ scheduleDispatchSession(dispatch_queue_', credits_rob_', unit_credits_')
  BY DEF scheduleDispatchSession
<1> USE DEF dispatchLocals, robVars, flushVars, frontVars
<1>2. /\ DispatchWakes'
      /\ blocking_dispatcher_' \in {"INT", "LSU", "UNKNOWN"}
      /\ ev_dispatch_insts_' \subseteq {0, 1}
  <2>1. credits_rob_' \in Nat /\ unit_credits_' \in [Units -> Nat]
    BY <1>0, <1>1, Types DEF TypeParts
  <2> QED
    BY <1>1, <2>1, ScheduleWakes
<1>3. /\ dispatch_queue_ \in Seq(Inst) /\ to_dispatch \in Seq(Inst)
      /\ reorder_buffer_ \in Seq(Inst) /\ to_rob \in Seq(Inst) /\ insts_dispatched \in Seq(Inst)
  BY <1>0, Types DEF TypeParts
<1>4. /\ dispatch_queue_' \in Seq(Inst)
      /\ Len(dispatch_queue_') = Len(dispatch_queue_) + Len(to_dispatch)
      /\ Range(dispatch_queue_') = Range(dispatch_queue_ \o to_dispatch)
      /\ Len(to_dispatch) \in Nat /\ Len(dispatch_queue_) \in Nat
  BY <1>1, <1>3, ConcatFacts
<1>5. TypeOK'
  <2>1. TypeParts
    BY <1>0, Types
  <2>2. TypeParts'
    BY <1>1, <1>2, <1>4, <2>1 DEF TypeParts
  <2> QED
    BY <2>2, TypesNext
<1>6. CreditsConserved'
  <2>1. ROBCredits => ROBCredits'
    BY <1>1 DEF ROBCredits
  <2>2. DispatchCredits'
    <3>1. credits_dispatch_ \in Nat /\ Len(insts_dispatched) \in Nat
      BY <1>0, <1>3, Types, SeqFacts DEF TypeParts
    <3>2. Len(to_dispatch') = 0
      BY <1>1
    <3>3. credits_dispatch_ + Len(dispatch_queue_) + Len(to_dispatch) + Len(insts_dispatched)
            = DispatchQueueDepth
      BY DEF IInv, CreditsConserved, DispatchCredits
    <3>4. credits_dispatch_' = credits_dispatch_ /\ Len(insts_dispatched') = Len(insts_dispatched)
      BY <1>1
    <3> QED
      BY <1>4, <3>1, <3>2, <3>3, <3>4 DEF DispatchCredits
  <2>3. UnitCredits'
    BY <1>1 DEF IInv, CreditsConserved, UnitCredits
  <2> QED
    BY <1>1, <1>5, <2>1, <2>2, <2>3 DEF IInv, CreditsConserved
<1>7. SessionInv'
  BY <1>0, <1>1 DEF SessionInv
<1>8. Same(Unretired', Unretired)
  <2>1. Same(Places(reorder_buffer_, to_rob, insts_dispatched, dispatch_queue_ \o to_dispatch, << >>),
             Places(reorder_buffer_, to_rob, insts_dispatched, dispatch_queue_, to_dispatch))
    BY <1>3, PlacesIntoDispatch, Zenon
  <2> QED
    BY <1>1, <2>1 DEF Unretired, Places, Same
<1>9. Same((to_rename \o retired_insts)', to_rename \o retired_insts)
  BY <1>1 DEF Same
<1>10. FrontInv' /\ RenameInSync' /\ InTraceOrder' /\ ExpectedInv'
  BY <1>1, <1>8, <1>9, Quiet
<1>11. FlushInv' /\ FlushIsPrecise'
  BY <1>1, <1>8, <1>9, QuietFlush DEF Same
<1>12. OrderInv'
  <2>1. Neutral(dispatch_queue_')
    BY <1>4, EmptyNeutral, Zenon
  <2>2. dispatch_queue_' \o to_dispatch' = dispatch_queue_ \o to_dispatch
    BY <1>1, <2>1 DEF Neutral
  <2> QED
    BY <1>1, <2>2, QuietOrder
<1>13. BandwidthInv'
  BY <1>0, <1>1 DEF BandwidthInv
<1>14. NoLostWakeup'
  BY <1>1, <1>2 DEF IInv, NoLostWakeup, RetireWakes
<1> QED
  BY <1>6, <1>7, <1>10, <1>11, <1>12, <1>13, <1>14 DEF IInv

\* robAppended_ keeps the invariant.
LEMMA DeliverToROBKeeps == ASSUME IInv, DeliverToROB PROVE IInv'
<1>0. TypeOK /\ SessionInv /\ BandwidthInv
  BY DEF IInv, CreditsConserved
<1>1. /\ phase = "port" /\ pc = "idle" /\ reorder_buffer_' = reorder_buffer_ \o to_rob
      /\ to_rob' = << >> /\ phase' = phase /\ pc' = pc /\ ev_retire_' = ev_retire_ \cup {0}
      /\ UNCHANGED <<expect_flush_, expected_program_id_, num_retired_,
                     completed, mispredicted, oldest, retireLocals>>
      /\ UNCHANGED <<dispatchVars, flushVars, frontVars, inst_queue_, credits_dispatch_,
                     to_dispatch, to_rename, in_unit>>
  BY DEF DeliverToROB, robAppended
<1> USE DEF retireLocals, dispatchVars, flushVars, frontVars
<1>3. /\ dispatch_queue_ \in Seq(Inst) /\ to_dispatch \in Seq(Inst)
      /\ reorder_buffer_ \in Seq(Inst) /\ to_rob \in Seq(Inst) /\ insts_dispatched \in Seq(Inst)
  BY <1>0, Types DEF TypeParts
<1>4. /\ reorder_buffer_' \in Seq(Inst)
      /\ Len(reorder_buffer_') = Len(reorder_buffer_) + Len(to_rob)
      /\ Range(reorder_buffer_') = Range(reorder_buffer_) \cup Range(to_rob)
      /\ Len(to_rob) \in Nat /\ Len(reorder_buffer_) \in Nat
  BY <1>1, <1>3, ConcatFacts
<1>5. TypeOK'
  <2>1. Elems(reorder_buffer_) \subseteq Elems(reorder_buffer_')
    BY <1>4, ElemsIsRange
  <2>2. TypeParts
    BY <1>0, Types
  <2>3. TypeParts'
    BY <1>1, <1>4, <2>1, <2>2 DEF TypeParts
  <2> QED
    BY <2>3, TypesNext
<1>6. CreditsConserved'
  <2>1. ROBCredits => ROBCredits'
    <3>1. credits_rob_ \in Nat /\ Len(insts_dispatched) \in Nat /\ retired_this_cycle \in Nat
      BY <1>0, <1>3, Types, SeqFacts DEF TypeParts
    <3>2. Len(to_rob') = 0
      BY <1>1
    <3>3. /\ credits_rob_' = credits_rob_ /\ Len(insts_dispatched') = Len(insts_dispatched)
          /\ retired_this_cycle' = retired_this_cycle
      BY <1>1
    <3> QED
      BY <1>4, <3>1, <3>2, <3>3 DEF ROBCredits
  <2>2. DispatchCredits' /\ UnitCredits'
    BY <1>1 DEF IInv, CreditsConserved, DispatchCredits, UnitCredits
  <2> QED
    BY <1>1, <1>5, <2>1, <2>2 DEF IInv, CreditsConserved
<1>7. SessionInv'
  BY <1>0, <1>1 DEF SessionInv
<1>8. Same(Unretired', Unretired)
  <2>1. Same(Places(reorder_buffer_ \o to_rob, << >>, insts_dispatched, dispatch_queue_, to_dispatch),
             Places(reorder_buffer_, to_rob, insts_dispatched, dispatch_queue_, to_dispatch))
    BY <1>3, PlacesIntoROB, Zenon
  <2> QED
    BY <1>1, <2>1 DEF Unretired, Places, Same
<1>9. Same((to_rename \o retired_insts)', to_rename \o retired_insts)
  BY <1>1 DEF Same
<1>10. FrontInv' /\ RenameInSync' /\ InTraceOrder' /\ ExpectedInv'
  BY <1>1, <1>8, <1>9, Quiet
<1>11. FlushInv' /\ FlushIsPrecise'
  BY <1>1, <1>8, <1>9, QuietFlush DEF Same
<1>12. OrderInv'
  BY <1>1, QuietOrder
<1>13. BandwidthInv'
  BY <1>0, <1>1 DEF BandwidthInv
<1>14. NoLostWakeup'
  BY <1>1 DEF IInv, NoLostWakeup, RetireWakes, DispatchWakes
<1> QED
  BY <1>6, <1>7, <1>10, <1>11, <1>12, <1>13, <1>14 DEF IInv

\* The start of a retirement session keeps the invariant.
LEMMA BeginRetireKeeps == ASSUME IInv, BeginRetire PROVE IInv'
<1>0. TypeOK /\ TypeParts /\ SessionInv /\ BandwidthInv
  BY Types DEF IInv, CreditsConserved
<1>1. /\ phase = "units" /\ pc = "idle" /\ phase' = phase /\ ev_retire_' = ev_retire_ \ {0}
      /\ UNCHANGED <<reorder_buffer_, expect_flush_, expected_program_id_, num_retired_,
                     completed, mispredicted, oldest, retired_insts, retired_this_cycle>>
      /\ UNCHANGED <<dispatchVars, flushVars, contractVars>>
      /\ IF expect_flush_ THEN UNCHANGED <<pc, num_to_retire>>
         ELSE pc' = "retire" /\ num_to_retire' = Least(Len(reorder_buffer_), NumToRetire)
      /\ 0 \in ev_retire_
  BY DEF BeginRetire, retireInstructions
<1> USE DEF dispatchVars, flushVars, contractVars, frontVars
<1>2. Len(reorder_buffer_) \in Nat /\ NumToRetire \in Nat
  BY <1>0, LenProperties, ROBAssumption DEF TypeParts
<1>3. ~expect_flush_ => num_to_retire' \in Nat /\ num_to_retire' <= Len(reorder_buffer_)
  BY <1>1, <1>2 DEF Least
<1>4. TypeOK'
  <2>1. TypeParts'
    BY <1>0, <1>1, <1>3 DEF TypeParts
  <2> QED
    BY <2>1, TypesNext
<1>5. CreditsConserved'
  BY <1>1, <1>4 DEF IInv, CreditsConserved, ROBCredits, DispatchCredits, UnitCredits
<1>6. SessionInv'
  BY <1>0, <1>1, <1>3 DEF SessionInv
<1>7. Same(Unretired', Unretired) /\ Same((to_rename \o retired_insts)', to_rename \o retired_insts)
  BY <1>1 DEF Unretired, Same
<1>8. FrontInv' /\ RenameInSync' /\ InTraceOrder' /\ ExpectedInv'
  BY <1>1, <1>7, Quiet
<1>9. FlushInv' /\ FlushIsPrecise'
  BY <1>1, <1>7, QuietFlush DEF Same
<1>10. OrderInv'
  BY <1>1, QuietOrder
<1>11. BandwidthInv'
  BY <1>0, <1>1 DEF BandwidthInv
<1>12. NoLostWakeup'
  BY <1>1 DEF IInv, NoLostWakeup, RetireWakes, DispatchWakes
<1> QED
  BY <1>5, <1>6, <1>8, <1>9, <1>10, <1>11, <1>12 DEF IInv

\* The end of a retirement session keeps the invariant.
LEMMA EndRetireKeeps == ASSUME IInv, EndRetire PROVE IInv'
<1>0. TypeOK /\ TypeParts /\ SessionInv /\ BandwidthInv
  BY Types DEF IInv, CreditsConserved
<1>1. /\ pc = "retire" /\ phase' = phase /\ pc' \in {"stopped", "idle"}
      /\ to_rename' = retired_insts
      /\ num_to_retire' = 0 /\ retired_insts' = << >> /\ retired_this_cycle' = 0
      /\ UNCHANGED <<reorder_buffer_, expect_flush_, expected_program_id_, num_retired_,
                     completed, mispredicted>>
      /\ UNCHANGED <<flushVars, frontVars, inst_queue_, credits_dispatch_, to_dispatch, to_rob,
                     in_unit>>
  BY DEF EndRetire, retireDone
<1>2. IF reorder_buffer_ = << >> THEN UNCHANGED <<ev_retire_, oldest>>
      ELSE IF Head(reorder_buffer_) \in completed
      THEN ev_retire_' = ev_retire_ \cup {1} /\ UNCHANGED oldest
      ELSE oldest' = oldest \cup {Head(reorder_buffer_)} /\ UNCHANGED ev_retire_
  BY DEF EndRetire, retireDone
<1> USE DEF dispatchVars, flushVars, contractVars, frontVars
<1>3. /\ phase = "units" /\ 0 \notin ev_retire_ /\ to_rename = << >>
      /\ insts_dispatched = << >> /\ ~stalled
  BY <1>0, <1>1 DEF SessionInv
<1>4. /\ UNCHANGED <<dispatch_queue_, unit_credits_, num_can_dispatch_, dispatchLocals>>
      /\ credits_rob_' = credits_rob_ + retired_this_cycle
      /\ \/ scheduleDispatchSession(dispatch_queue_', credits_rob_', unit_credits_')
         \/ UNCHANGED dispatchVars
  <2>1. CASE retired_this_cycle = 0
    BY <1>0, <2>1 DEF EndRetire, dispatchLocals, TypeParts
  <2>2. CASE retired_this_cycle # 0
    <3>1. /\ credits_rob_' = credits_rob_ + retired_this_cycle
          /\ scheduleDispatchSession(dispatch_queue_, credits_rob_', unit_credits_)
          /\ UNCHANGED <<dispatch_queue_, unit_credits_, num_can_dispatch_, dispatchLocals>>
      BY <2>2 DEF EndRetire, robCredits
    <3>2. dispatch_queue_' = dispatch_queue_ /\ unit_credits_' = unit_credits_
      BY <3>1
    <3> QED
      BY <3>1, <3>2
  <2> QED
    BY <2>1, <2>2
<1> USE DEF dispatchLocals
<1>5. /\ DispatchWakes' /\ credits_rob_' \in Nat
      /\ blocking_dispatcher_' \in {"INT", "LSU", "UNKNOWN"}
      /\ ev_dispatch_insts_' \subseteq {0, 1}
  <2>1. credits_rob_' \in Nat /\ unit_credits_' \in [Units -> Nat]
    BY <1>0, <1>4 DEF TypeParts
  <2>2. CASE UNCHANGED dispatchVars
    BY <1>0, <1>1, <2>1, <2>2 DEF IInv, NoLostWakeup, DispatchWakes, TypeParts
  <2>3. CASE scheduleDispatchSession(dispatch_queue_', credits_rob_', unit_credits_')
    BY <1>1, <2>1, <2>3, ScheduleWakes
  <2> QED
    BY <1>4, <2>2, <2>3
<1>6. TypeOK'
  <2>1. reorder_buffer_ # << >> => Head(reorder_buffer_) \in Elems(reorder_buffer_)
    <3>1. ASSUME reorder_buffer_ # << >> PROVE Head(reorder_buffer_) \in Range(reorder_buffer_)
      BY <1>0, <3>1, TailRange DEF TypeParts
    <3> QED
      BY <3>1, ElemsIsRange
  <2>2. ev_retire_' \subseteq {0, 1} /\ oldest' \subseteq Elems(reorder_buffer_')
    BY <1>0, <1>1, <1>2, <2>1 DEF TypeParts
  <2>3. TypeParts'
    BY <1>0, <1>1, <1>3, <1>4, <1>5, <2>2 DEF TypeParts
  <2> QED
    BY <2>3, TypesNext
<1>7. CreditsConserved'
  <2>1. Len(reorder_buffer_) \in Nat /\ Len(to_rob) \in Nat /\ Len(insts_dispatched) \in Nat
    BY <1>0, LenProperties DEF TypeParts
  <2>2. ROBCredits => ROBCredits'
    BY <1>0, <1>1, <1>4, <2>1 DEF ROBCredits, TypeParts
  <2>3. DispatchCredits' /\ UnitCredits'
    BY <1>1, <1>4 DEF IInv, CreditsConserved, DispatchCredits, UnitCredits
  <2> QED
    BY <1>1, <1>6, <2>2, <2>3 DEF IInv, CreditsConserved
<1>8. SessionInv'
  BY <1>0, <1>1, <1>2, <1>3, <1>4 DEF SessionInv
<1>9. Same(Unretired', Unretired)
  BY <1>1, <1>4 DEF Unretired, Same
<1>10. Same((to_rename \o retired_insts)', to_rename \o retired_insts)
  <2>1. Neutral(retired_insts)
    BY <1>0, EmptyNeutral DEF TypeParts
  <2> QED
    BY <1>1, <1>3, <2>1 DEF Same, Neutral
<1>11. FrontInv' /\ RenameInSync' /\ InTraceOrder' /\ ExpectedInv'
  BY <1>1, <1>9, <1>10, Quiet
<1>12. FlushInv' /\ FlushIsPrecise'
  BY <1>1, <1>9, <1>10, QuietFlush DEF Same
<1>13. OrderInv'
  BY <1>1, <1>4, QuietOrder
<1>14. BandwidthInv'
  BY <1>0, <1>1, <1>3, <1>4 DEF BandwidthInv
<1>15. RetireWakes'
  BY <1>1, <1>2 DEF RetireWakes
<1> QED
  BY <1>5, <1>7, <1>8, <1>11, <1>12, <1>13, <1>14, <1>15 DEF IInv, NoLostWakeup

\* forwardFlush_ keeps the invariant.
LEMMA ForwardFlushKeeps == ASSUME IInv, ForwardFlush PROVE IInv'
<1>0. TypeOK /\ TypeParts /\ SessionInv /\ BandwidthInv /\ FlushInv /\ FlushIsPrecise
  BY Types DEF IInv, CreditsConserved
<1>1. /\ phase = "units" /\ pc = "idle" /\ phase' = phase /\ pc' = pc
      /\ UNCHANGED <<dispatchVars, robVars, contractVars>>
      /\ pending_flush_ # NoFlush
      /\ IF isLowerPipeFlush(pending_flush_)
         THEN flush_lower' = pending_flush_ /\ UNCHANGED flush_upper
         ELSE flush_upper' = pending_flush_ /\ UNCHANGED flush_lower
      /\ ev_flush_' = FALSE /\ pending_flush_' = NoFlush
  BY DEF ForwardFlush, forwardFlush
<1> USE DEF dispatchVars, robVars, contractVars, frontVars
<1>2. flush_upper' = pending_flush_ /\ flush_lower' = flush_lower /\ flush_upper = NoFlush
  <2>1. pending_flush_.cause \in {"MISPREDICTION", "POST_SYNC"} /\ flush_upper = NoFlush
    BY <1>0, <1>1 DEF FlushInv
  <2> QED
    BY <1>1, <2>1 DEF isLowerPipeFlush
<1>3. TypeOK'
  <2>1. TypeParts'
    BY <1>0, <1>1, <1>2 DEF TypeParts
  <2> QED
    BY <2>1, TypesNext
<1>4. CreditsConserved'
  BY <1>1, <1>3 DEF IInv, CreditsConserved, ROBCredits, DispatchCredits, UnitCredits
<1>5. SessionInv'
  BY <1>0, <1>1 DEF SessionInv
<1>6. Same(Unretired', Unretired) /\ Same((to_rename \o retired_insts)', to_rename \o retired_insts)
  BY <1>1 DEF Unretired, Same
<1>7. FrontInv' /\ RenameInSync' /\ InTraceOrder' /\ ExpectedInv'
  BY <1>1, <1>6, Quiet
<1>8. FlushInv' /\ FlushIsPrecise'
  <2>1. {pending_flush_', flush_upper'} \ {NoFlush} \subseteq {pending_flush_, flush_upper} \ {NoFlush}
    BY <1>1, <1>2
  <2>2. FlushInv'
    BY <1>0, <1>1, <1>2, <2>1 DEF FlushInv
  <2>3. FlushIsPrecise'
    BY <1>0, <1>1, <1>2, <1>6, <2>1 DEF FlushIsPrecise, includedInFlush, Same
  <2> QED
    BY <2>2, <2>3
<1>9. OrderInv'
  BY <1>1, QuietOrder
<1>10. BandwidthInv'
  BY <1>0, <1>1 DEF BandwidthInv
<1>11. NoLostWakeup'
  BY <1>1 DEF IInv, NoLostWakeup, RetireWakes, DispatchWakes
<1> QED
  BY <1>4, <1>5, <1>7, <1>8, <1>9, <1>10, <1>11 DEF IInv

\* A completion keeps the invariant.
LEMMA CompleteKeeps == ASSUME IInv, Complete PROVE IInv'
<1>0. TypeOK /\ TypeParts /\ SessionInv /\ BandwidthInv /\ FlushInv /\ FlushIsPrecise
  BY Types DEF IInv, CreditsConserved
<1>1a. PICK i \in Elems(reorder_buffer_) :
          \E miss \in (IF i.kind = "branch" THEN BOOLEAN ELSE {FALSE}) : setCompleted(i, miss)
  BY DEF Complete
<1>1. PICK miss \in (IF i.kind = "branch" THEN BOOLEAN ELSE {FALSE}) : setCompleted(i, miss)
  BY <1>1a
<1>2. /\ phase = "units" /\ pc = "idle" /\ phase' = phase /\ pc' = pc
      /\ UNCHANGED <<dispatchVars, flushVars, contractVars>>
  BY DEF Complete
<1>3. /\ completed' = completed \cup {i}
      /\ mispredicted' = IF miss THEN mispredicted \cup {i} ELSE mispredicted
      /\ ev_retire_' = IF i \in oldest THEN ev_retire_ \cup {1} ELSE ev_retire_
      /\ UNCHANGED <<reorder_buffer_, expect_flush_, expected_program_id_, num_retired_,
                     oldest, retireLocals>>
  BY <1>1 DEF setCompleted, WakeOnComplete
<1>4. mispredicted' = mispredicted \/ (mispredicted' = mispredicted \cup {i} /\ i.kind = "branch")
  BY <1>1, <1>3
<1> USE DEF dispatchVars, flushVars, contractVars, frontVars, retireLocals
<1>5. TypeOK'
  <2>1. TypeParts'
    BY <1>0, <1>2, <1>3, <1>4 DEF TypeParts
  <2> QED
    BY <2>1, TypesNext
<1>6. CreditsConserved'
  BY <1>2, <1>3, <1>5 DEF IInv, CreditsConserved, ROBCredits, DispatchCredits, UnitCredits
<1>7. SessionInv'
  BY <1>0, <1>2, <1>3 DEF SessionInv
<1>8. Same(Unretired', Unretired) /\ Same((to_rename \o retired_insts)', to_rename \o retired_insts)
  BY <1>2, <1>3 DEF Unretired, Same
<1>9. FrontInv' /\ RenameInSync' /\ InTraceOrder' /\ ExpectedInv'
  BY <1>2, <1>3, <1>8, Quiet
<1>10. FlushInv' /\ FlushIsPrecise'
  <2>1. FlushInv'
    BY <1>0, <1>2, <1>3, <1>4 DEF FlushInv
  <2>2. FlushIsPrecise'
    BY <1>0, <1>2, <1>3, <1>8 DEF FlushIsPrecise, includedInFlush, Same
  <2> QED
    BY <2>1, <2>2
<1>11. OrderInv'
  BY <1>2, QuietOrder
<1>12. BandwidthInv'
  BY <1>0, <1>2 DEF BandwidthInv
<1>13. NoLostWakeup'
  BY <1>2, <1>3 DEF IInv, NoLostWakeup, RetireWakes, DispatchWakes
<1> QED
  BY <1>6, <1>7, <1>9, <1>10, <1>11, <1>12, <1>13 DEF IInv

\* A credit that a unit returns keeps the invariant.
LEMMA ReturnCreditKeeps == ASSUME IInv, ReturnCredit PROVE IInv'
<1>0. TypeOK /\ TypeParts /\ SessionInv /\ BandwidthInv
  BY Types DEF IInv, CreditsConserved
<1>1a. PICK u \in Units : \E i \in in_unit[u] :
          in_unit' = [in_unit EXCEPT ![u] = @ \ {i}] /\ receiveCredits(u)
  BY DEF ReturnCredit
<1>1. PICK i \in in_unit[u] : in_unit' = [in_unit EXCEPT ![u] = @ \ {i}] /\ receiveCredits(u)
  BY <1>1a
<1>2. /\ phase = "units" /\ pc = "idle" /\ phase' = phase /\ pc' = pc
      /\ UNCHANGED <<robVars, flushVars, frontVars, inst_queue_, credits_dispatch_,
                     to_dispatch, to_rob, to_rename>>
  BY DEF ReturnCredit
<1>3. /\ unit_credits_' = [unit_credits_ EXCEPT ![u] = @ + 1]
      /\ scheduleDispatchSession(dispatch_queue_, credits_rob_, unit_credits_')
      /\ UNCHANGED <<dispatch_queue_, credits_rob_, num_can_dispatch_, dispatchLocals>>
  BY <1>1 DEF receiveCredits
<1> USE DEF dispatchLocals, robVars, flushVars, frontVars
<1>4. /\ DispatchWakes' /\ unit_credits_' \in [Units -> Nat]
      /\ blocking_dispatcher_' \in {"INT", "LSU", "UNKNOWN"}
      /\ ev_dispatch_insts_' \subseteq {0, 1}
  <2>1. credits_rob_' \in Nat /\ unit_credits_' \in [Units -> Nat]
    BY <1>0, <1>3 DEF TypeParts
  <2>2. dispatch_queue_' = dispatch_queue_ /\ credits_rob_' = credits_rob_
    BY <1>3
  <2>3. scheduleDispatchSession(dispatch_queue_', credits_rob_', unit_credits_')
    BY <1>3, <2>2
  <2> QED
    BY <1>2, <2>1, <2>3, ScheduleWakes
<1>5. /\ in_unit \in [Units -> SUBSET Inst] /\ in_unit' \in [Units -> SUBSET Inst]
      /\ \A v \in Units : in_unit'[v] = IF v = u THEN in_unit[u] \ {i} ELSE in_unit[v]
  BY <1>0, <1>1 DEF TypeParts
<1>6. \A v \in Units : IsFiniteSet(in_unit[v]) /\ IsFiniteSet(in_unit'[v])
  BY <1>0, <1>5, FS_RemoveElement DEF BandwidthInv
<1>7. TypeOK'
  <2>1. TypeParts'
    BY <1>0, <1>2, <1>3, <1>4, <1>5 DEF TypeParts
  <2> QED
    BY <2>1, TypesNext
<1>8. UnitCredits'
  <2> SUFFICES ASSUME NEW v \in Units
               PROVE  unit_credits_'[v] + Cardinality(in_unit'[v]) = UnitSize[v]
    BY DEF UnitCredits
  <2>1. /\ unit_credits_[v] + Cardinality(in_unit[v]) = UnitSize[v]
        /\ unit_credits_[v] \in Nat /\ Cardinality(in_unit[v]) \in Nat
    BY <1>0, <1>6, FS_CardinalityType DEF IInv, CreditsConserved, UnitCredits, TypeParts
  <2>2. CASE v # u
    <3>1. unit_credits_'[v] = unit_credits_[v]
      BY <1>0, <1>3, <2>2 DEF TypeParts
    <3>2. in_unit'[v] = in_unit[v]
      BY <1>5, <2>2
    <3> QED
      BY <2>1, <3>1, <3>2, Zenon
  <2>3. CASE v = u
    <3>1. Cardinality(in_unit[u] \ {i}) = Cardinality(in_unit[u]) - 1
      BY <1>1, <1>6, FS_RemoveElement
    <3>2. unit_credits_'[u] = unit_credits_[u] + 1
      BY <1>0, <1>3 DEF TypeParts
    <3>3. in_unit'[v] = in_unit[u] \ {i}
      BY <1>5, <2>3
    <3>4. Cardinality(in_unit'[v]) = Cardinality(in_unit[v]) - 1
      BY <2>3, <3>1, <3>3, Zenon
    <3> QED
      BY <2>1, <2>3, <3>2, <3>4
  <2> QED
    BY <2>2, <2>3
<1>9. CreditsConserved'
  BY <1>2, <1>3, <1>7, <1>8 DEF IInv, CreditsConserved, ROBCredits, DispatchCredits
<1>10. SessionInv'
  BY <1>0, <1>2, <1>3 DEF SessionInv
<1>11. Same(Unretired', Unretired) /\ Same((to_rename \o retired_insts)', to_rename \o retired_insts)
  BY <1>2, <1>3 DEF Unretired, Same
<1>12. FrontInv' /\ RenameInSync' /\ InTraceOrder' /\ ExpectedInv'
  BY <1>2, <1>11, Quiet
<1>13. FlushInv' /\ FlushIsPrecise'
  BY <1>2, <1>11, QuietFlush DEF Same
<1>14. OrderInv'
  BY <1>2, <1>3, <1>5, QuietOrder
<1>15. BandwidthInv'
  <2>1. ~stalled' /\ \A v \in Units : num_can_dispatch_'[v] # 0
    BY <1>0, <1>2, <1>3 DEF BandwidthInv, SessionInv
  <2> QED
    BY <1>6, <2>1 DEF BandwidthInv
<1>16. RetireWakes'
  BY <1>2 DEF IInv, NoLostWakeup, RetireWakes
<1> QED
  BY <1>4, <1>9, <1>10, <1>12, <1>13, <1>14, <1>15, <1>16 DEF IInv, NoLostWakeup

\* The start of a dispatch session keeps the invariant.
LEMMA BeginDispatchKeeps == ASSUME IInv, BeginDispatch PROVE IInv'
<1>0. TypeOK /\ TypeParts /\ SessionInv /\ BandwidthInv
  BY Types DEF IInv, CreditsConserved
<1>1. /\ phase = "dispatch" /\ pc = "idle" /\ 0 \in ev_dispatch_insts_ /\ phase' = phase
      /\ ev_dispatch_insts_' = ev_dispatch_insts_ \ {0}
      /\ num_dispatch' = DispatchSize
      /\ pc' = IF DispatchSize = 0 THEN "idle" ELSE "dispatch"
      /\ stalled' = FALSE
      /\ UNCHANGED <<dispatch_queue_, credits_rob_, unit_credits_, num_can_dispatch_,
                     blocking_dispatcher_, insts_dispatched>>
      /\ UNCHANGED <<robVars, flushVars, contractVars>>
  BY DEF BeginDispatch, dispatchInstructions
<1> USE DEF robVars, flushVars, contractVars, frontVars
<1>2. /\ DispatchSize \in Nat /\ DispatchSize <= credits_rob_
      /\ DispatchSize <= Len(dispatch_queue_)
      /\ DispatchSize = 0 /\ dispatch_queue_ # << >> => credits_rob_ = 0
  <2>1. /\ Len(dispatch_queue_) \in Nat /\ NumToDispatch \in Nat \ {0} /\ credits_rob_ \in Nat
        /\ dispatch_queue_ # << >> => Len(dispatch_queue_) # 0
    BY <1>0, LenProperties, EmptySeq, DispatchAssumption DEF TypeParts
  <2> QED
    BY <2>1 DEF DispatchSize, Least
<1> HIDE DEF DispatchSize
<1>3. TypeOK'
  <2>1. TypeParts'
    BY <1>0, <1>1, <1>2 DEF TypeParts
  <2> QED
    BY <2>1, TypesNext
<1>4. CreditsConserved'
  BY <1>1, <1>3 DEF IInv, CreditsConserved, ROBCredits, DispatchCredits, UnitCredits
<1>5. SessionInv'
  BY <1>0, <1>1, <1>2 DEF SessionInv
<1>6. Same(Unretired', Unretired) /\ Same((to_rename \o retired_insts)', to_rename \o retired_insts)
  BY <1>1 DEF Unretired, Same
<1>7. FrontInv' /\ RenameInSync' /\ InTraceOrder' /\ ExpectedInv'
  BY <1>1, <1>6, Quiet
<1>8. FlushInv' /\ FlushIsPrecise'
  BY <1>1, <1>6, QuietFlush DEF Same
<1>9. OrderInv'
  BY <1>1, QuietOrder
<1>10. BandwidthInv'
  BY <1>0, <1>1 DEF BandwidthInv
<1>11. NoLostWakeup'
  <2>1. RetireWakes'
    BY <1>1 DEF IInv, NoLostWakeup, RetireWakes
  <2>2. DispatchSize = 0 /\ dispatch_queue_ # << >> => credits_rob_ < RetireQueueDepth
    BY <1>2, ROBAssumption
  <2>3. DispatchWakes'
    BY <1>1, <2>2 DEF DispatchWakes
  <2> QED
    BY <2>1, <2>3 DEF NoLostWakeup
<1> QED
  BY <1>4, <1>5, <1>7, <1>8, <1>9, <1>10, <1>11 DEF IInv

\* A session that no unit lets go on keeps the invariant.
LEMMA StallDispatchKeeps == ASSUME IInv, StallDispatch PROVE IInv'
<1>0. TypeOK /\ TypeParts /\ SessionInv /\ BandwidthInv
  BY Types DEF IInv, CreditsConserved
<1>1. /\ pc = "dispatch" /\ num_dispatch > 0 /\ phase' = phase /\ pc' = pc
      /\ Stalls(Head(dispatch_queue_).pipe)
      /\ blocking_dispatcher_' = BlockingAfter(Head(dispatch_queue_).pipe)
      /\ num_dispatch' = 0 /\ stalled' = TRUE
      /\ UNCHANGED <<dispatch_queue_, credits_rob_, unit_credits_, num_can_dispatch_,
                     ev_dispatch_insts_, insts_dispatched>>
      /\ UNCHANGED <<robVars, flushVars, contractVars>>
  BY DEF StallDispatch, dispatchStalls
<1> USE DEF robVars, flushVars, contractVars, frontVars
<1>2. /\ phase = "dispatch" /\ 0 \notin ev_dispatch_insts_
      /\ num_dispatch <= Len(dispatch_queue_) /\ to_rob = << >>
  BY <1>0, <1>1 DEF SessionInv
<1>3. dispatch_queue_ # << >> /\ Head(dispatch_queue_).pipe \in DOMAIN Dispatchers
  <2>1. dispatch_queue_ # << >>
    BY <1>0, <1>1, <1>2, EmptySeq DEF TypeParts
  <2>2. Head(dispatch_queue_) \in Inst
    BY <1>0, <2>1, TailFacts DEF TypeParts
  <2> QED
    BY <2>1, <2>2 DEF Inst
<1>4. \E u \in Units : unit_credits_[u] < UnitSize[u]
  <2> DEFINE ds == Dispatchers[Head(dispatch_queue_).pipe]
  <2>1. ds \in Seq(Units) /\ ds # << >>
    BY <1>3, DispatchAssumption
  <2>2. \A k \in DOMAIN ds : ~canAccept(ds[k], unit_credits_)
    BY <1>1 DEF Stalls, Accepting
  <2> HIDE DEF ds
  <2>3. 1 \in DOMAIN ds /\ ds[1] \in Units
    BY <2>1, SeqFacts
  <2>4. unit_credits_[ds[1]] = 0 \/ num_can_dispatch_[ds[1]] = 0
    BY <2>2, <2>3 DEF canAccept
  <2>5. unit_credits_[ds[1]] < UnitSize[ds[1]]
    BY <1>0, <2>3, <2>4, DispatchAssumption DEF BandwidthInv
  <2> QED
    BY <2>3, <2>5
<1>5. TypeOK'
  <2>1. blocking_dispatcher_' \in {"INT", "LSU", "UNKNOWN"}
    BY <1>0, <1>1 DEF BlockingAfter, TypeParts
  <2>2. TypeParts'
    BY <1>0, <1>1, <2>1 DEF TypeParts
  <2> QED
    BY <2>2, TypesNext
<1>6. CreditsConserved'
  BY <1>1, <1>5 DEF IInv, CreditsConserved, ROBCredits, DispatchCredits, UnitCredits
<1>7. SessionInv'
  <2>1. Len(dispatch_queue_) \in Nat /\ credits_rob_ \in Nat
    BY <1>0, LenProperties DEF TypeParts
  <2> QED
    BY <1>0, <1>1, <1>2, <2>1 DEF SessionInv
<1>8. Same(Unretired', Unretired) /\ Same((to_rename \o retired_insts)', to_rename \o retired_insts)
  BY <1>1 DEF Unretired, Same
<1>9. FrontInv' /\ RenameInSync' /\ InTraceOrder' /\ ExpectedInv'
  BY <1>1, <1>8, Quiet
<1>10. FlushInv' /\ FlushIsPrecise'
  BY <1>1, <1>8, QuietFlush DEF Same
<1>11. OrderInv'
  BY <1>1, QuietOrder
<1>12. BandwidthInv'
  BY <1>0, <1>1, <1>4 DEF BandwidthInv
<1>13. NoLostWakeup'
  BY <1>1 DEF IInv, NoLostWakeup, RetireWakes, DispatchWakes
<1> QED
  BY <1>6, <1>7, <1>9, <1>10, <1>11, <1>12, <1>13 DEF IInv

\* The end of a dispatch session keeps the invariant.
LEMMA EndDispatchKeeps == ASSUME IInv, EndDispatch PROVE IInv'
<1>0. TypeOK /\ TypeParts /\ SessionInv /\ BandwidthInv
  BY Types DEF IInv, CreditsConserved
<1>1. /\ pc = "dispatch" /\ pc' = "idle" /\ phase' = phase
      /\ num_can_dispatch_' = [u \in Units |-> 1]
      /\ ev_dispatch_insts_' = IF credits_rob_ > 0 /\ dispatch_queue_ # << >> /\ ~stalled
                               THEN ev_dispatch_insts_ \cup {1} ELSE ev_dispatch_insts_
      /\ insts_dispatched' = << >> /\ stalled' = FALSE
      /\ UNCHANGED <<dispatch_queue_, credits_rob_, unit_credits_, blocking_dispatcher_,
                     num_dispatch>>
      /\ to_rob' = insts_dispatched
      /\ credits_dispatch_' = credits_dispatch_ + Len(insts_dispatched)
      /\ UNCHANGED <<robVars, flushVars, frontVars, inst_queue_, to_dispatch, to_rename, in_unit>>
  BY DEF EndDispatch, dispatchDone, ResetBandwidth
<1> USE DEF robVars, flushVars, frontVars
<1>2. phase = "dispatch" /\ 0 \notin ev_dispatch_insts_ /\ to_rob = << >>
  BY <1>0, <1>1 DEF SessionInv
<1>3. /\ Len(insts_dispatched) \in Nat /\ Len(reorder_buffer_) \in Nat
      /\ Len(dispatch_queue_) \in Nat /\ Len(to_dispatch) \in Nat
  BY <1>0, LenProperties DEF TypeParts
<1>4. TypeOK'
  <2>1. num_can_dispatch_' \in [Units -> {0, 1}] /\ credits_dispatch_' \in Nat
    BY <1>0, <1>1, <1>3 DEF TypeParts
  <2>2. ev_dispatch_insts_' \subseteq {0, 1} /\ insts_dispatched' \in Seq(Inst)
    BY <1>0, <1>1 DEF TypeParts
  <2>3. TypeParts'
    BY <1>0, <1>1, <2>1, <2>2 DEF TypeParts
  <2> QED
    BY <2>3, TypesNext
<1>5. CreditsConserved'
  <2>1. ROBCredits => ROBCredits'
    BY <1>0, <1>1, <1>2, <1>3 DEF ROBCredits, TypeParts
  <2>2. DispatchCredits'
    BY <1>0, <1>1, <1>3 DEF IInv, CreditsConserved, DispatchCredits, TypeParts
  <2>3. UnitCredits'
    BY <1>1 DEF IInv, CreditsConserved, UnitCredits
  <2> QED
    BY <1>1, <1>4, <2>1, <2>2, <2>3 DEF IInv, CreditsConserved
<1>6. SessionInv'
  BY <1>0, <1>1, <1>2 DEF SessionInv
<1>7. Same(Unretired', Unretired)
  <2>1. Same(Places(reorder_buffer_, insts_dispatched, << >>, dispatch_queue_, to_dispatch),
             Places(reorder_buffer_, << >>, insts_dispatched, dispatch_queue_, to_dispatch))
    BY <1>0, PlacesToROB DEF TypeParts
  <2> QED
    BY <1>1, <1>2, <2>1 DEF Unretired, Places, Same
<1>8. Same((to_rename \o retired_insts)', to_rename \o retired_insts)
  BY <1>1 DEF Same
<1>9. FrontInv' /\ RenameInSync' /\ InTraceOrder' /\ ExpectedInv'
  BY <1>1, <1>7, <1>8, Quiet
<1>10. FlushInv' /\ FlushIsPrecise'
  BY <1>1, <1>7, <1>8, QuietFlush DEF Same
<1>11. OrderInv'
  BY <1>1, QuietOrder
<1>12. BandwidthInv'
  BY <1>0, <1>1 DEF BandwidthInv
<1>13. NoLostWakeup'
  <2>1. RetireWakes'
    BY <1>1 DEF IInv, NoLostWakeup, RetireWakes
  <2>2. credits_rob_ = 0 => credits_rob_ < RetireQueueDepth
    BY ROBAssumption
  <2>3. \/ credits_rob_ = 0 \/ dispatch_queue_ = << >>
        \/ ev_dispatch_insts_' # {}
        \/ \E u \in Units : unit_credits_[u] < UnitSize[u]
    <3>1. CASE stalled
      BY <1>0, <3>1, Zenon DEF BandwidthInv
    <3>2. CASE ~stalled
      <4>1. credits_rob_ = 0 \/ credits_rob_ > 0
        BY <1>0 DEF TypeParts
      <4>2. 1 \in ev_dispatch_insts_ \cup {1}
        OBVIOUS
      <4> QED
        BY <1>1, <3>2, <4>1, <4>2, Zenon
    <3> QED
      BY <3>1, <3>2, Zenon
  <2>4. DispatchWakes'
    BY <1>1, <2>2, <2>3 DEF DispatchWakes
  <2> QED
    BY <2>1, <2>4 DEF NoLostWakeup
<1> QED
  BY <1>5, <1>6, <1>9, <1>10, <1>11, <1>12, <1>13 DEF IInv

\* What Dispatch sends is older than all it keeps or gets.
LEMMA HeadIsOldest ==
    ASSUME TypeOK, RenameInSync, OrderInv, dispatch_queue_ # << >>
    PROVE  /\ Head(dispatch_queue_) \in Elems(inst_queue_)
           /\ \A y \in Elems(Tail(dispatch_queue_)) \cup Elems(to_dispatch) :
                 Before(Head(dispatch_queue_), y)
<1> DEFINE front == reorder_buffer_ \o to_rob \o insts_dispatched
           h == Head(dispatch_queue_)
           t == Tail(dispatch_queue_)
           hs == <<h>>
<1>1. /\ reorder_buffer_ \in Seq(Inst) /\ to_rob \in Seq(Inst) /\ insts_dispatched \in Seq(Inst)
      /\ dispatch_queue_ \in Seq(Inst) /\ to_dispatch \in Seq(Inst)
  BY Types DEF TypeParts
<1>2. reorder_buffer_ \o to_rob \in Seq(Inst)
  BY <1>1, Closed, Zenon
<1>3. front \in Seq(Inst)
  BY <1>1, <1>2, Closed, Zenon
<1>4. Unretired = (front \o dispatch_queue_) \o to_dispatch /\ Ordered(Unretired)
  BY QueueFacts DEF Unretired
<1>5. h \in Inst /\ t \in Seq(Inst)
  BY <1>1, TailFacts
<1>6. Range(dispatch_queue_) = {h} \cup Range(t) /\ dispatch_queue_ = hs \o t
  BY <1>1, TailRange
<1>7. hs \in Seq(Inst) /\ Range(hs) = {h}
  BY <1>5 DEF Range
<1> HIDE DEF front, h, t, hs
<1>8. PICK fd \in Seq(Inst) : fd = front \o dispatch_queue_
  BY <1>1, <1>3, Closed, Zenon
<1>9. Ordered(fd) /\ \A x \in Range(fd), y \in Range(to_dispatch) : Before(x, y)
  BY <1>1, <1>4, <1>8, OrderedConcat
<1>10. Ordered(dispatch_queue_) /\ Range(fd) = Range(front) \cup Range(dispatch_queue_)
  BY <1>1, <1>3, <1>8, <1>9, OrderedConcat, ConcatFacts
<1>11. \A x \in Range(hs), y \in Range(t) : Before(x, y)
  BY <1>5, <1>6, <1>7, <1>10, OrderedConcat
<1>12. h \in Elems(dispatch_queue_)
  BY <1>6, ElemsIsRange
<1>13. Elems(dispatch_queue_) \subseteq Elems(inst_queue_)
  BY InFlight, QueueFacts
<1>14. ASSUME NEW y \in Elems(t) \cup Elems(to_dispatch) PROVE Before(h, y)
  BY <1>6, <1>7, <1>9, <1>10, <1>11, ElemsIsRange, Zenon
<1> QED
  BY <1>12, <1>13, <1>14 DEF h, t

\* An instruction that goes to a unit keeps the invariant.
LEMMA DispatchOneKeeps == ASSUME IInv, DispatchOne PROVE IInv'
<1>0. /\ TypeOK /\ TypeParts /\ SessionInv /\ BandwidthInv /\ OrderInv /\ RenameInSync
      /\ UnitCredits /\ DispatchCredits
  BY Types DEF IInv, CreditsConserved
<1> DEFINE i == Head(dispatch_queue_)
<1>1. PICK u \in Units : dispatchTo(u) /\ in_unit' = [in_unit EXCEPT ![u] = @ \cup {i}]
  BY DEF DispatchOne
<1>2. /\ pc = "dispatch" /\ num_dispatch > 0 /\ phase' = phase /\ pc' = pc
      /\ blocking_dispatcher_' = BlockingAfter(i.pipe)
      /\ insts_dispatched' = Append(insts_dispatched, i)
      /\ unit_credits_' = [unit_credits_ EXCEPT ![u] = @ - 1]
      /\ num_can_dispatch_' = [num_can_dispatch_ EXCEPT ![u] = @ - 1]
      /\ dispatch_queue_' = Tail(dispatch_queue_)
      /\ credits_rob_' = credits_rob_ - 1
      /\ num_dispatch' = num_dispatch - 1
      /\ ev_dispatch_insts_' = ev_dispatch_insts_ /\ stalled' = stalled
      /\ UNCHANGED <<robVars, flushVars, frontVars, inst_queue_, credits_dispatch_, to_dispatch,
                     to_rob, to_rename>>
  BY <1>1 DEF DispatchOne, dispatchTo
<1>3. canAccept(u, unit_credits_)
  BY <1>1 DEF dispatchTo, Chosen, Accepting
<1> USE DEF robVars, flushVars, frontVars
<1>4. /\ phase = "dispatch" /\ 0 \notin ev_dispatch_insts_ /\ to_rob = << >>
      /\ num_dispatch <= Len(dispatch_queue_) /\ num_dispatch <= credits_rob_
  BY <1>0, <1>2 DEF SessionInv
<1>5. dispatch_queue_ # << >>
  BY <1>0, <1>2, <1>4, EmptySeq DEF TypeParts
<1>6. /\ Tail(dispatch_queue_) \in Seq(Inst) /\ i \in Inst
      /\ Len(Tail(dispatch_queue_)) = Len(dispatch_queue_) - 1
      /\ Len(dispatch_queue_) \in Nat \ {0}
  BY <1>0, <1>5, TailFacts DEF TypeParts
<1>7. Elems(dispatch_queue_) = {i} \cup Elems(Tail(dispatch_queue_))
  <2>1. Range(dispatch_queue_) = {i} \cup Range(Tail(dispatch_queue_))
    BY <1>0, <1>5, TailRange DEF TypeParts
  <2> QED
    BY <2>1, ElemsIsRange
<1> HIDE DEF i
<1>8. /\ insts_dispatched' \in Seq(Inst) /\ Len(insts_dispatched') = Len(insts_dispatched) + 1
      /\ Len(insts_dispatched) \in Nat
  BY <1>0, <1>2, <1>6, AppendFacts DEF TypeParts
<1>9. unit_credits_[u] \in Nat \ {0} /\ num_can_dispatch_[u] = 1
  BY <1>0, <1>3 DEF canAccept, TypeParts
<1>10. /\ unit_credits_' \in [Units -> Nat] /\ num_can_dispatch_' \in [Units -> {0, 1}]
       /\ in_unit' \in [Units -> SUBSET Inst]
       /\ \A v \in Units : in_unit'[v] = IF v = u THEN in_unit[u] \cup {i} ELSE in_unit[v]
  <2>1. unit_credits_[u] - 1 \in Nat /\ num_can_dispatch_[u] - 1 \in {0, 1}
    BY <1>9
  <2>2. unit_credits_' \in [Units -> Nat] /\ num_can_dispatch_' \in [Units -> {0, 1}]
    BY <1>0, <1>2, <2>1 DEF TypeParts
  <2>3. /\ in_unit' \in [Units -> SUBSET Inst]
        /\ \A v \in Units : in_unit'[v] = IF v = u THEN in_unit[u] \cup {i} ELSE in_unit[v]
    BY <1>0, <1>1, <1>6 DEF TypeParts
  <2> QED
    BY <2>2, <2>3
<1>11. TypeOK'
  <2>1. blocking_dispatcher_' \in {"INT", "LSU", "UNKNOWN"}
    BY <1>0, <1>2 DEF BlockingAfter, TypeParts
  <2>2. credits_rob_' \in Nat /\ num_dispatch' \in Nat
    BY <1>0, <1>2, <1>4 DEF TypeParts
  <2>3. TypeParts'
    BY <1>0, <1>2, <1>6, <1>8, <1>10, <2>1, <2>2 DEF TypeParts
  <2> QED
    BY <2>3, TypesNext
<1>12. i \notin in_unit[u]
  <2>1. i \in Elems(dispatch_queue_ \o to_dispatch)
    BY <1>0, <1>7, InFlight
  <2>2. ~Before(i, i)
    BY <1>6 DEF Before, Inst
  <2> QED
    BY <1>0, <2>1, <2>2 DEF OrderInv
<1>13. \A v \in Units : IsFiniteSet(in_unit[v]) /\ IsFiniteSet(in_unit'[v])
  <2>1. \A v \in Units : IsFiniteSet(in_unit[v])
    BY <1>0 DEF BandwidthInv
  <2>2. IsFiniteSet(in_unit[u] \cup {i})
    BY <2>1, FS_AddElement
  <2> QED
    BY <1>10, <2>1, <2>2
<1>14. \A v \in Units : unit_credits_[v] <= UnitSize[v]
  <2> SUFFICES ASSUME NEW v \in Units PROVE unit_credits_[v] <= UnitSize[v]
    OBVIOUS
  <2>1. /\ Cardinality(in_unit[v]) \in Nat /\ unit_credits_[v] \in Nat
        /\ unit_credits_[v] + Cardinality(in_unit[v]) = UnitSize[v]
    BY <1>0, <1>13, FS_CardinalityType DEF UnitCredits, TypeParts
  <2> QED
    BY <2>1
<1>15. UnitCredits'
  <2> SUFFICES ASSUME NEW v \in Units
               PROVE  unit_credits_'[v] + Cardinality(in_unit'[v]) = UnitSize[v]
    BY DEF UnitCredits
  <2>1. /\ unit_credits_[v] + Cardinality(in_unit[v]) = UnitSize[v]
        /\ unit_credits_[v] \in Nat /\ Cardinality(in_unit[v]) \in Nat
    BY <1>0, <1>13, FS_CardinalityType DEF UnitCredits, TypeParts
  <2>2. CASE v # u
    <3>1. unit_credits_'[v] = unit_credits_[v]
      BY <1>0, <1>2, <2>2 DEF TypeParts
    <3>2. in_unit'[v] = in_unit[v]
      BY <1>10, <2>2
    <3> QED
      BY <2>1, <3>1, <3>2, Zenon
  <2>3. CASE v = u
    <3>1. Cardinality(in_unit[u] \cup {i}) = Cardinality(in_unit[u]) + 1
      BY <1>12, <1>13, FS_AddElement
    <3>2. unit_credits_'[u] = unit_credits_[u] - 1
      BY <1>0, <1>2 DEF TypeParts
    <3>3. in_unit'[v] = in_unit[u] \cup {i}
      BY <1>10, <2>3
    <3>4. Cardinality(in_unit'[v]) = Cardinality(in_unit[v]) + 1
      BY <2>3, <3>1, <3>3, Zenon
    <3> QED
      BY <2>1, <2>3, <3>2, <3>4
  <2> QED
    BY <2>2, <2>3
<1>16. CreditsConserved'
  <2>1. Len(reorder_buffer_) \in Nat /\ Len(to_rob) \in Nat /\ Len(to_dispatch) \in Nat
    BY <1>0, LenProperties DEF TypeParts
  <2>2. ROBCredits => ROBCredits'
    BY <1>0, <1>2, <1>8, <2>1 DEF ROBCredits, TypeParts
  <2>3. DispatchCredits'
    BY <1>0, <1>2, <1>6, <1>8, <2>1 DEF DispatchCredits, TypeParts
  <2> QED
    BY <1>2, <1>11, <1>15, <2>2, <2>3 DEF IInv, CreditsConserved
<1>17. SessionInv'
  BY <1>0, <1>2, <1>4, <1>6 DEF SessionInv, TypeParts
<1>18. Same(Unretired', Unretired)
  <2>1. Same(Places(reorder_buffer_, to_rob, Append(insts_dispatched, Head(dispatch_queue_)),
                    Tail(dispatch_queue_), to_dispatch),
             Places(reorder_buffer_, to_rob, insts_dispatched, dispatch_queue_, to_dispatch))
    BY <1>0, <1>5, PlacesDispatch DEF TypeParts
  <2> QED
    BY <1>2, <2>1 DEF Unretired, Places, Same, i
<1>19. Same((to_rename \o retired_insts)', to_rename \o retired_insts)
  BY <1>2 DEF Same
<1>20. FrontInv' /\ RenameInSync' /\ InTraceOrder' /\ ExpectedInv'
  BY <1>2, <1>18, <1>19, Quiet
<1>21. FlushInv' /\ FlushIsPrecise'
  BY <1>2, <1>18, <1>19, QuietFlush DEF Same
<1>22. BandwidthInv'
  <2>0. unit_credits_'[u] < UnitSize[u]
    <3>1. unit_credits_'[u] = unit_credits_[u] - 1
      BY <1>0, <1>2 DEF TypeParts
    <3>2. UnitSize[u] \in Nat
      BY DispatchAssumption
    <3> QED
      BY <1>9, <1>14, <3>1, <3>2
  <2>1. ASSUME NEW v \in Units, num_can_dispatch_'[v] = 0
        PROVE  pc' = "dispatch" /\ unit_credits_'[v] < UnitSize[v]
    <3>1. CASE v = u
      BY <1>2, <2>0, <3>1
    <3>2. CASE v # u
      BY <1>0, <1>2, <2>1, <3>2 DEF TypeParts, BandwidthInv
    <3> QED
      BY <3>1, <3>2
  <2> QED
    BY <1>13, <2>0, <2>1 DEF BandwidthInv
<1>23. NoLostWakeup'
  BY <1>2 DEF IInv, NoLostWakeup, RetireWakes, DispatchWakes
<1>24. OrderInv'
  <2>1. trace' = trace /\ inst_queue_' = inst_queue_ /\ Upcoming' = Upcoming
    BY <1>2 DEF Upcoming
  <2>2. Elems(dispatch_queue_ \o to_dispatch) = Elems(dispatch_queue_) \cup Elems(to_dispatch)
    BY <1>0, InFlight
  <2>3. Elems((dispatch_queue_ \o to_dispatch)')
          = Elems(Tail(dispatch_queue_)) \cup Elems(to_dispatch)
    <3>1. dispatch_queue_' \in Seq(Inst) /\ to_dispatch' \in Seq(Inst)
      BY <1>0, <1>2, <1>6 DEF TypeParts
    <3>2. Range(dispatch_queue_' \o to_dispatch') = Range(dispatch_queue_') \cup Range(to_dispatch')
      BY <3>1, ConcatFacts
    <3> QED
      BY <1>2, <3>2, ElemsIsRange
  <2>4. /\ i \in Elems(inst_queue_)
        /\ \A y \in Elems(Tail(dispatch_queue_)) \cup Elems(to_dispatch) : Before(i, y)
    BY <1>0, <1>5, HeadIsOldest DEF i
  <2>5. ASSUME NEW v \in Units, NEW x \in in_unit'[v]
        PROVE  /\ Before(x, Upcoming)
               /\ \A y \in Elems((dispatch_queue_ \o to_dispatch)') : Before(x, y)
    <3>1. CASE x \in in_unit[v]
      BY <1>0, <1>7, <2>2, <2>3, <3>1 DEF OrderInv
    <3>2. CASE x = i
      BY <1>0, <2>3, <2>4, <3>2 DEF OrderInv
    <3> QED
      BY <1>10, <3>1, <3>2
  <2> QED
    BY <1>0, <2>1, <2>5 DEF OrderInv, Before
<1> QED
  BY <1>16, <1>17, <1>20, <1>21, <1>22, <1>23, <1>24 DEF IInv

\* Events that are due later are due one cycle earlier.
LEMMA AgedFacts ==
    ASSUME NEW ev \in SUBSET {0, 1}, 0 \notin ev
    PROVE  Aged(ev) \subseteq {0, 1} /\ (ev # {} => Aged(ev) # {})
<1>1. ASSUME NEW x \in Aged(ev) PROVE x \in {0, 1}
  <2>1. PICK d \in ev : x = d - 1
    BY DEF Aged
  <2>2. d = 1
    OBVIOUS
  <2> QED
    BY <2>1, <2>2
<1>2. ASSUME NEW d \in ev PROVE Aged(ev) # {}
  BY DEF Aged
<1> QED
  BY <1>1, <1>2

\* The clock keeps the invariant.
LEMMA NextPhaseKeeps == ASSUME IInv, nextPhase PROVE IInv'
<1>0. TypeOK /\ TypeParts /\ SessionInv /\ BandwidthInv
  BY Types DEF IInv, CreditsConserved
<1>1. /\ pc = "idle" /\ PhaseDone /\ phase' = NextOf(phase) /\ pc' = pc
      /\ IF phase = "rename"
         THEN /\ ev_retire_' = Aged(ev_retire_)
              /\ ev_dispatch_insts_' = Aged(ev_dispatch_insts_)
         ELSE UNCHANGED <<ev_retire_, ev_dispatch_insts_>>
      /\ UNCHANGED <<dispatch_queue_, credits_rob_, unit_credits_, num_can_dispatch_,
                     blocking_dispatcher_, dispatchLocals, reorder_buffer_, expect_flush_,
                     expected_program_id_, num_retired_, completed, mispredicted, oldest,
                     retireLocals, flushVars, contractVars>>
  BY DEF nextPhase
<1> USE DEF dispatchLocals, retireLocals, flushVars, contractVars, frontVars
<1>2. phase \in {"port", "flush", "units", "dispatch", "rename"}
  BY <1>0 DEF TypeParts, Phases
<1>3. /\ phase' \in Phases
      /\ phase = "port" => phase' = "flush"
      /\ phase = "flush" => phase' = "units"
      /\ phase = "units" => phase' = "dispatch"
      /\ phase = "dispatch" => phase' = "rename"
      /\ phase = "rename" => phase' = "port"
  BY <1>1, <1>2 DEF NextOf, Phases
<1>4. /\ ev_retire_' \subseteq {0, 1} /\ ev_dispatch_insts_' \subseteq {0, 1}
      /\ ev_retire_ # {} => ev_retire_' # {}
      /\ ev_dispatch_insts_ # {} => ev_dispatch_insts_' # {}
  <2>1. CASE phase # "rename"
    BY <1>0, <1>1, <2>1 DEF TypeParts
  <2>2. CASE phase = "rename"
    <3>1. /\ 0 \notin ev_retire_ /\ 0 \notin ev_dispatch_insts_
          /\ ev_retire_ \subseteq {0, 1} /\ ev_dispatch_insts_ \subseteq {0, 1}
      BY <1>0, <2>2 DEF SessionInv, TypeParts
    <3> QED
      BY <1>1, <2>2, <3>1, AgedFacts
  <2> QED
    BY <2>1, <2>2
<1>5. TypeOK'
  <2>1. TypeParts'
    BY <1>0, <1>1, <1>3, <1>4 DEF TypeParts
  <2> QED
    BY <2>1, TypesNext
<1>6. CreditsConserved'
  BY <1>1, <1>5 DEF IInv, CreditsConserved, ROBCredits, DispatchCredits, UnitCredits
<1>7. SessionInv'
  <2>1. CASE phase = "port"
    BY <1>0, <1>1, <1>3, <2>1 DEF SessionInv, PhaseDone
  <2>2. CASE phase = "flush"
    BY <1>0, <1>1, <1>3, <2>2 DEF SessionInv, PhaseDone
  <2>3. CASE phase = "units"
    BY <1>0, <1>1, <1>3, <2>3 DEF SessionInv, PhaseDone
  <2>4. CASE phase = "dispatch"
    BY <1>0, <1>1, <1>3, <2>4 DEF SessionInv, PhaseDone
  <2>5. CASE phase = "rename"
    BY <1>0, <1>1, <1>3, <2>5 DEF SessionInv, PhaseDone
  <2> QED
    BY <1>2, <2>1, <2>2, <2>3, <2>4, <2>5
<1>8. Same(Unretired', Unretired) /\ Same((to_rename \o retired_insts)', to_rename \o retired_insts)
  BY <1>1 DEF Unretired, Same
<1>9. FrontInv' /\ RenameInSync' /\ InTraceOrder' /\ ExpectedInv'
  BY <1>1, <1>8, Quiet
<1>10. FlushInv' /\ FlushIsPrecise'
  BY <1>1, <1>8, QuietFlush DEF Same
<1>11. OrderInv'
  BY <1>1, QuietOrder
<1>12. BandwidthInv'
  BY <1>0, <1>1 DEF BandwidthInv
<1>13. NoLostWakeup'
  BY <1>1, <1>4 DEF IInv, NoLostWakeup, RetireWakes, DispatchWakes
<1> QED
  BY <1>6, <1>7, <1>9, <1>10, <1>11, <1>12, <1>13 DEF IInv

\* The instructions of a trace.
LEMMA TraceFacts ==
    ASSUME NEW t \in Traces
    PROVE  /\ DOMAIN t = 1..Len(t) /\ Len(t) \in Nat
           /\ \A k \in DOMAIN t :
                 /\ t[k].pipe \in DOMAIN Dispatchers /\ t[k].kind \in Kinds
                 /\ t[k].uops \in Nat \ {0}
                 /\ t[k].kind \in {"branch", "csr"} => t[k].uops = 1
<1> DEFINE R == [pipe : DOMAIN Dispatchers, kind : Kinds, uops : Nat \ {0}]
<1>1. t \in Seq(R)
  BY BackendAssumption
<1> HIDE DEF R
<1>2. DOMAIN t = 1..Len(t) /\ Len(t) \in Nat /\ \A k \in DOMAIN t : t[k] \in R
  BY <1>1, SeqFacts
<1>3. \A k \in DOMAIN t : t[k].kind \in {"branch", "csr"} => t[k].uops = 1
  BY BackendAssumption
<1> QED
  BY <1>2, <1>3 DEF R

\* Appending behind a concatenation.
LEMMA AppendConcat ==
    ASSUME NEW S, NEW a \in Seq(S), NEW b \in Seq(S), NEW x \in S
    PROVE  Same(Append(a \o b, x), a \o Append(b, x))
<1>1. a \o b \in Seq(S) /\ <<x>> \in Seq(S)
  BY ConcatProperties
<1>2. Append(a \o b, x) = (a \o b) \o <<x>>
  BY <1>1, AppendIsConcat
<1>3. Append(b, x) = b \o <<x>>
  BY AppendIsConcat
<1>4. Associates(a, b, <<x>>)
  BY <1>1, Assoc, Zenon
<1> QED
  BY <1>2, <1>3, <1>4, Zenon DEF Associates, Same

\* The head after appending.
LEMMA HeadAppend ==
    ASSUME NEW S, NEW s \in Seq(S), NEW x \in S
    PROVE  /\ Append(s, x) # << >> /\ Append(s, x) \in Seq(S)
           /\ Head(Append(s, x)) = IF s = << >> THEN x ELSE Head(s)
<1> DEFINE t == Append(s, x)
<1>1. /\ Len(s) \in Nat /\ t \in Seq(S) /\ Len(t) = Len(s) + 1
      /\ \A k \in 1..Len(s) : t[k] = s[k]
      /\ t[Len(s) + 1] = x
  BY AppendFacts
<1> HIDE DEF t
<1>2. t # << >> /\ (s = << >> <=> Len(s) = 0)
  BY <1>1, EmptySeq
<1>3. Head(t) = t[1]
  BY <1>1, <1>2, TailFacts
<1>4. s # << >> => Head(s) = s[1]
  BY TailFacts
<1> QED
  BY <1>1, <1>2, <1>3, <1>4 DEF t

\* Rename sends the next uop of the trace and keeps the invariant.
LEMMA RenameSendsKeeps == ASSUME IInv, RenameSends PROVE IInv'
<1>0. /\ TypeOK /\ TypeParts /\ SessionInv /\ BandwidthInv /\ OrderInv /\ RenameInSync
      /\ UnitCredits /\ DispatchCredits /\ FrontInv /\ InTraceOrder /\ ExpectedInv
      /\ FlushInv /\ FlushIsPrecise
  BY Types DEF IInv, CreditsConserved
<1> DEFINE e == NextInst
           ack == to_rename \o retired_insts
<1>1. /\ phase = "rename" /\ pc = "idle" /\ next_pid <= Len(trace) /\ credits_dispatch_ > 0
      /\ to_dispatch' = Append(to_dispatch, e)
      /\ inst_queue_' = Append(inst_queue_, e)
      /\ credits_dispatch_' = credits_dispatch_ - 1
      /\ \/ LastUop /\ next_pid' = next_pid + 1 /\ next_uop' = 0 /\ next_uid' = next_uid + 1
         \/ ~LastUop /\ next_uop' = next_uop + 1 /\ next_pid' = next_pid /\ next_uid' = next_uid
      /\ phase' = phase /\ pc' = pc
      /\ UNCHANGED <<dispatchVars, robVars, flushVars, trace, to_rob, to_rename, in_unit>>
  BY DEF RenameSends
<1> USE DEF dispatchVars, robVars, flushVars
<1>2. /\ DOMAIN trace = 1..Len(trace) /\ Len(trace) \in Nat
      /\ next_pid \in DOMAIN trace /\ next_pid \in Nat /\ next_uop \in Nat /\ next_uid \in Nat
      /\ next_uop < trace[next_pid].uops /\ trace[next_pid].uops \in Nat \ {0}
      /\ trace[next_pid].pipe \in DOMAIN Dispatchers /\ trace[next_pid].kind \in Kinds
      /\ \A k \in DOMAIN trace : trace[k].uops \in Nat \ {0}
  <2>1. trace \in Traces /\ next_pid \in Nat /\ next_uop \in Nat /\ next_uid \in Nat
    BY <1>0 DEF TypeParts
  <2>2. next_pid \in 1..Len(trace) + 1
    BY <1>0 DEF FrontInv
  <2>3. /\ DOMAIN trace = 1..Len(trace) /\ Len(trace) \in Nat
        /\ \A k \in DOMAIN trace : /\ trace[k].pipe \in DOMAIN Dispatchers
                                   /\ trace[k].kind \in Kinds /\ trace[k].uops \in Nat \ {0}
    BY <2>1, TraceFacts
  <2>4. next_pid \in DOMAIN trace
    BY <1>1, <2>2, <2>3
  <2> QED
    BY <1>0, <1>1, <2>1, <2>3, <2>4 DEF FrontInv
<1>3. /\ e \in Inst /\ e.uid = next_uid /\ e.pid = next_pid /\ e.uop = next_uop
      /\ e.pipe = trace[next_pid].pipe /\ e.kind = trace[next_pid].kind
  BY <1>2 DEF NextInst, Inst
<1>4. /\ LastUop <=> next_uop + 1 = trace[next_pid].uops
      /\ next_pid' \in Nat /\ next_uop' \in Nat /\ next_uid' \in Nat
  BY <1>1, <1>2 DEF LastUop
<1> HIDE DEF e
<1>5. /\ to_dispatch' \in Seq(Inst) /\ Len(to_dispatch') = Len(to_dispatch) + 1
      /\ Len(to_dispatch) \in Nat
  BY <1>0, <1>1, <1>3, AppendFacts DEF TypeParts
<1>6. /\ inst_queue_' \in Seq(Inst) /\ Len(inst_queue_') = Len(inst_queue_) + 1
      /\ Len(inst_queue_) \in Nat
      /\ DOMAIN inst_queue_ = 1..Len(inst_queue_)
      /\ DOMAIN inst_queue_' = 1..(Len(inst_queue_) + 1)
      /\ \A k \in 1..Len(inst_queue_) : inst_queue_'[k] = inst_queue_[k]
      /\ inst_queue_'[Len(inst_queue_) + 1] = e
  BY <1>0, <1>1, <1>3, AppendFacts DEF TypeParts
<1>7. TypeOK'
  <2>1. credits_dispatch_' \in Nat
    BY <1>0, <1>1 DEF TypeParts
  <2>2. TypeParts'
    BY <1>0, <1>1, <1>4, <1>5, <1>6, <2>1 DEF TypeParts
  <2> QED
    BY <2>2, TypesNext
<1>8. CreditsConserved'
  <2>1. Len(dispatch_queue_) \in Nat /\ Len(insts_dispatched) \in Nat
    BY <1>0, LenProperties DEF TypeParts
  <2>2. DispatchCredits'
    BY <1>0, <1>1, <1>5, <2>1 DEF DispatchCredits, TypeParts
  <2> QED
    BY <1>1, <1>7, <2>2 DEF IInv, CreditsConserved, ROBCredits, UnitCredits
<1>9. FrontInv'
  <2>1. CASE LastUop
    <3>1. next_pid' = next_pid + 1 /\ next_uop' = 0 /\ trace' = trace
      BY <1>1, <2>1
    <3>2. next_pid' \in 1..Len(trace) + 1
      BY <1>2, <3>1
    <3>3. next_pid' <= Len(trace) => trace[next_pid'].uops \in Nat \ {0}
      BY <1>2, <3>1
    <3> QED
      BY <3>1, <3>2, <3>3 DEF FrontInv
  <2>2. CASE ~LastUop
    <3>1. next_pid' = next_pid /\ next_uop' = next_uop + 1 /\ trace' = trace
      BY <1>1, <2>2
    <3>2. next_uop + 1 < trace[next_pid].uops
      BY <1>2, <1>4, <2>2
    <3> QED
      BY <1>1, <1>2, <3>1, <3>2 DEF FrontInv
  <2> QED
    BY <2>1, <2>2
<1>10. SessionInv'
  BY <1>0, <1>1 DEF SessionInv
<1>11. Unretired' = Append(Unretired, e) /\ ack' = ack
  <2>1. Same(Places(reorder_buffer_, to_rob, insts_dispatched, dispatch_queue_, Append(to_dispatch, e)),
             Append(Places(reorder_buffer_, to_rob, insts_dispatched, dispatch_queue_, to_dispatch), e))
    BY <1>0, <1>3, PlacesSend DEF TypeParts
  <2> QED
    BY <1>1, <2>1 DEF Unretired, Places, Same
<1>12. ack \in Seq(Inst) /\ Unretired \in Seq(Inst)
  BY <1>0, InFlight
<1>13. Elems(Unretired') = Elems(Unretired) \cup {e} /\ Elems(inst_queue_') = Elems(inst_queue_) \cup {e}
  <2>1. Range(Append(Unretired, e)) = Range(Unretired) \cup {e}
    BY <1>3, <1>12, AppendRange
  <2>2. Range(Append(inst_queue_, e)) = Range(inst_queue_) \cup {e}
    BY <1>0, <1>3, AppendRange DEF TypeParts
  <2> QED
    BY <1>1, <1>11, <2>1, <2>2, ElemsIsRange
<1>14. RenameInSync'
  <2>1. inst_queue_ = ack \o Unretired
    BY <1>0 DEF RenameInSync
  <2> HIDE DEF ack
  <2>2. Same(Append(ack \o Unretired, e), ack \o Append(Unretired, e))
    BY <1>3, <1>12, AppendConcat
  <2>3. inst_queue_' = ack' \o Unretired'
    BY <1>1, <1>11, <2>1, <2>2 DEF Same
  <2> QED
    BY <2>3 DEF RenameInSync, ack
<1>15. \A x \in Inst : Before(x, Upcoming) => Before(x, e) /\ Before(x, Upcoming')
  <2> SUFFICES ASSUME NEW x \in Inst, Before(x, Upcoming)
               PROVE  Before(x, e) /\ Before(x, Upcoming')
    OBVIOUS
  <2>1. x.uid \in Nat /\ x.pid \in Nat /\ x.uop \in Nat
    BY DEF Inst
  <2>2. \/ x.uid < next_uid
        \/ x.uid = next_uid /\ x.pid = next_pid /\ x.uop < next_uop
    BY DEF Before, Upcoming
  <2> QED
    BY <1>1, <1>2, <1>3, <2>1, <2>2 DEF Before, Upcoming
<1>16. Before(e, Upcoming')
  BY <1>1, <1>2, <1>3 DEF Before, Upcoming
<1>17. \A x \in Elems(inst_queue_) : x \in Inst
  BY <1>0, <1>6 DEF Elems, TypeParts
<1>18. OrderInv'
  <2>1. \A x \in Elems(inst_queue_') :
            /\ x.pid \in DOMAIN trace' /\ x.uop < trace'[x.pid].uops
            /\ x.pipe = trace'[x.pid].pipe /\ x.kind = trace'[x.pid].kind
            /\ Before(x, Upcoming')
    BY <1>0, <1>1, <1>2, <1>3, <1>13, <1>15, <1>16, <1>17 DEF OrderInv
  <2>2. ASSUME NEW j \in DOMAIN inst_queue_', NEW k \in DOMAIN inst_queue_', j < k
        PROVE  Before(inst_queue_'[j], inst_queue_'[k])
    <3>0. j \in 1..Len(inst_queue_) /\ inst_queue_'[j] = inst_queue_[j]
      BY <1>6, <2>2
    <3>1. CASE k \in 1..Len(inst_queue_)
      BY <1>0, <1>6, <2>2, <3>0, <3>1 DEF OrderInv
    <3>2. CASE k = Len(inst_queue_) + 1
      <4>1. inst_queue_[j] \in Elems(inst_queue_)
        BY <1>6, <3>0 DEF Elems
      <4> QED
        BY <1>0, <1>6, <1>15, <1>17, <3>0, <3>2, <4>1 DEF OrderInv
    <3> QED
      BY <1>6, <3>1, <3>2
  <2>3. Elems((dispatch_queue_ \o to_dispatch)') = Elems(dispatch_queue_ \o to_dispatch) \cup {e}
    <3>1. dispatch_queue_' \in Seq(Inst) /\ to_dispatch' \in Seq(Inst)
      BY <1>0, <1>1, <1>5 DEF TypeParts
    <3>2. Range(dispatch_queue_' \o to_dispatch') = Range(dispatch_queue_') \cup Range(to_dispatch')
      BY <3>1, ConcatFacts
    <3>3. Range(to_dispatch') = Range(to_dispatch) \cup {e}
      BY <1>0, <1>1, <1>3, AppendRange DEF TypeParts
    <3>4. Elems(dispatch_queue_ \o to_dispatch) = Elems(dispatch_queue_) \cup Elems(to_dispatch)
      BY <1>0, InFlight
    <3> QED
      BY <1>1, <3>2, <3>3, <3>4, ElemsIsRange
  <2>4. ASSUME NEW u \in Units, NEW x \in in_unit'[u]
        PROVE  /\ Before(x, Upcoming')
               /\ \A y \in Elems((dispatch_queue_ \o to_dispatch)') : Before(x, y)
    <3>1. x \in in_unit[u] /\ x \in Inst
      BY <1>0, <1>1 DEF TypeParts
    <3> QED
      BY <1>0, <1>15, <2>3, <3>1 DEF OrderInv
  <2> QED
    BY <2>1, <2>2, <2>4 DEF OrderInv, Before
<1>19. InTraceOrder'
  <2> DEFINE n == Len(inst_queue_)
  <2>1. ASSUME NEW k \in 1..n
        PROVE  LET i == inst_queue_'[k]
                   j == inst_queue_'[k + 1]
               IN  /\ Follows(i, j.pid, j.uop)
                   /\ i.uid < j.uid \/ (i.uid = j.uid /\ i.pid = j.pid)
    <3>1. inst_queue_'[k] = inst_queue_[k] /\ n \in Nat
      BY <1>6
    <3>2. CASE k # n
      <4>1. k \in 1..n - 1 /\ k + 1 \in 1..n
        BY <3>1, <3>2
      <4>2. inst_queue_'[k + 1] = inst_queue_[k + 1]
        BY <1>6, <4>1
      <4> QED
        BY <1>0, <3>1, <4>1, <4>2 DEF InTraceOrder
    <3>3. CASE k = n
      <4>1. inst_queue_'[k + 1] = e /\ n > 0
        BY <1>6, <3>1, <3>3
      <4>2. Follows(inst_queue_[n], next_pid, next_uop)
        BY <1>0, <4>1 DEF InTraceOrder
      <4>3. inst_queue_[n] \in Elems(inst_queue_)
        BY <1>6, <4>1 DEF Elems
      <4>4. Before(inst_queue_[n], e)
        BY <1>0, <1>15, <1>17, <4>3 DEF OrderInv
      <4> QED
        BY <1>3, <3>1, <3>3, <4>1, <4>2, <4>4 DEF Before
    <3> QED
      BY <3>2, <3>3
  <2>2. Follows(e, next_pid', next_uop')
    BY <1>1, <1>3, <1>4 DEF Follows
  <2>3. Len(inst_queue_') = n + 1 /\ (n + 1) - 1 = n /\ inst_queue_'[n + 1] = e
    BY <1>6
  <2>4. trace' = trace
    BY <1>1
  <2> HIDE DEF n
  <2> QED
    BY <2>1, <2>2, <2>3, <2>4 DEF InTraceOrder, Follows
<1>20. ExpectedInv'
  <2>1. /\ Unretired' # << >>
        /\ Head(Unretired') = IF Unretired = << >> THEN e ELSE Head(Unretired)
    BY <1>3, <1>11, <1>12, HeadAppend
  <2>2. expect_flush_' = expect_flush_ /\ expected_program_id_' = expected_program_id_
    BY <1>1
  <2>3. ~expect_flush_ => Expected(Head(Unretired').pid, Head(Unretired').uop)
    BY <1>0, <1>3, <2>1 DEF ExpectedInv
  <2> QED
    BY <2>1, <2>2, <2>3 DEF ExpectedInv, Expected
<1>21. FlushInv'
  <2>1. \A crit \in {pending_flush_, flush_upper} \ {NoFlush} : crit.uid < next_uid'
    <3> SUFFICES ASSUME NEW crit \in {pending_flush_, flush_upper} \ {NoFlush}
                 PROVE  crit.uid < next_uid'
      OBVIOUS
    <3>1. crit.uid < next_uid /\ crit.uid \in Nat
      BY <1>0 DEF FlushInv, TypeParts, FlushingCriteria
    <3> QED
      BY <1>1, <1>2, <3>1
  <2> QED
    BY <1>0, <1>1, <2>1 DEF FlushInv
<1>22. FlushIsPrecise'
  <2>1. \A crit \in {pending_flush_, flush_upper} \ {NoFlush} : includedInFlush(crit, e.uid)
    BY <1>0, <1>3 DEF FlushInv, includedInFlush, determineInclusive
  <2>2. ack' = ack
    BY <1>11
  <2> QED
    BY <1>0, <1>1, <1>13, <2>1, <2>2 DEF FlushIsPrecise, includedInFlush
<1>23. BandwidthInv'
  BY <1>0, <1>1 DEF BandwidthInv
<1>24. NoLostWakeup'
  BY <1>1 DEF IInv, NoLostWakeup, RetireWakes, DispatchWakes
<1> QED
  BY <1>8, <1>9, <1>10, <1>14, <1>18, <1>19, <1>20, <1>21, <1>22, <1>23, <1>24 DEF IInv

\* What is left of a concatenation without its first part.
LEMMA DropPrefix ==
    ASSUME NEW S, NEW a \in Seq(S), NEW b \in Seq(S)
    PROVE  Same(SubSeq(a \o b, Len(a) + 1, Len(a \o b)), b)
<1>1. /\ a \o b \in Seq(S) /\ Len(a \o b) = Len(a) + Len(b)
      /\ Len(a) \in Nat /\ Len(b) \in Nat
      /\ \A k \in 1..Len(b) : (a \o b)[Len(a) + k] = b[k]
  BY ConcatFacts
<1> DEFINE c == a \o b
           m == Len(a) + 1
           n == Len(a) + Len(b)
           d == SubSeq(c, m, n)
<1>2. \A k \in m..n : c[k] \in S
  BY <1>1, ElementOfSeq
<1>3. m \in Int /\ n \in Int /\ n - m + 1 = Len(b) /\ (m <= n <=> Len(b) # 0)
  BY <1>1
<1> HIDE DEF c
<1>4. /\ d \in Seq(S) /\ Len(d) = (IF m <= n THEN n - m + 1 ELSE 0)
      /\ \A k \in 1..(n - m + 1) : d[k] = c[m + k - 1]
  <2> HIDE DEF m, n
  <2> QED
    BY <1>2, <1>3, SubSeqProperties
<1>5. Len(d) = Len(b) /\ \A k \in 1..Len(b) : d[k] = c[m + k - 1]
  BY <1>1, <1>3, <1>4
<1>6. \A k \in 1..Len(b) : m + k - 1 = Len(a) + k
  BY <1>1
<1> HIDE DEF d, m, n
<1>7. \A k \in 1..Len(b) : d[k] = b[k]
  BY <1>1, <1>5, <1>6 DEF c
<1>8. d = b
  BY <1>4, <1>5, <1>7, SeqEqual
<1> QED
  BY <1>1, <1>8 DEF c, d, m, n, Same

\* Rename drops what is acknowledged, which is the oldest it has, and keeps the
\* invariant.
LEMMA DeliverToRenameKeeps == ASSUME IInv, DeliverToRename PROVE IInv'
<1>0. /\ TypeOK /\ TypeParts /\ SessionInv /\ BandwidthInv /\ OrderInv /\ RenameInSync
      /\ FrontInv /\ InTraceOrder /\ ExpectedInv
  BY Types DEF IInv, CreditsConserved
<1>1. /\ phase = "port" /\ pc = "idle" /\ phase' = phase /\ pc' = pc
      /\ inst_queue_' = SubSeq(inst_queue_, Len(to_rename) + 1, Len(inst_queue_))
      /\ to_rename' = << >>
      /\ UNCHANGED <<dispatchVars, robVars, flushVars, frontVars, credits_dispatch_,
                     to_dispatch, to_rob, in_unit>>
  BY DEF DeliverToRename
<1> USE DEF dispatchVars, robVars, flushVars, frontVars
<1>2. retired_insts = << >> /\ retired_insts' = << >>
  BY <1>0, <1>1 DEF SessionInv
<1>3. Unretired \in Seq(Inst) /\ Unretired' = Unretired /\ to_rename \in Seq(Inst)
  BY <1>0, <1>1, InFlight DEF Unretired, TypeParts
<1>4. to_rename \o retired_insts = to_rename
  <2>1. Neutral(to_rename)
    BY <1>3, EmptyNeutral, Zenon
  <2> QED
    BY <1>2, <2>1, Zenon DEF Neutral
<1>5. inst_queue_ = to_rename \o Unretired
  BY <1>0, <1>4 DEF RenameInSync
<1>6. inst_queue_' = Unretired
  <2>1. Same(SubSeq(to_rename \o Unretired, Len(to_rename) + 1, Len(to_rename \o Unretired)), Unretired)
    BY <1>3, DropPrefix
  <2> QED
    BY <1>1, <1>5, <2>1 DEF Same
<1>7. (to_rename \o retired_insts)' = << >> /\ Elems((to_rename \o retired_insts)') = {}
  <2>1. << >> \in Seq(Inst)
    BY EmptySeq
  <2>2. Neutral(<< >>)
    BY <2>1, EmptyNeutral, Zenon
  <2>3. << >> \o << >> = << >>
    BY <2>2, Zenon DEF Neutral
  <2>4. to_rename' \o retired_insts' = << >>
    BY <1>1, <1>2, <2>3, Zenon
  <2> QED
    BY <2>4 DEF Elems
<1>8. TypeOK'
  <2>1. TypeParts'
    BY <1>0, <1>1, <1>3, <1>6, SMTT(30) DEF TypeParts
  <2> QED
    BY <2>1, TypesNext
<1>9. CreditsConserved'
  BY <1>1, <1>8 DEF IInv, CreditsConserved, ROBCredits, DispatchCredits, UnitCredits
<1>10. FrontInv' /\ ExpectedInv'
  BY <1>0, <1>1, <1>3 DEF FrontInv, ExpectedInv, Expected
<1>11. SessionInv'
  BY <1>0, <1>1 DEF SessionInv
<1>12. RenameInSync'
  <2>1. Neutral(Unretired)
    BY <1>3, EmptyNeutral, Zenon
  <2>2. << >> \o Unretired = Unretired
    BY <2>1, Zenon DEF Neutral
  <2>3. inst_queue_' = (to_rename \o retired_insts)' \o Unretired'
    BY <1>3, <1>6, <1>7, <2>2, Zenon
  <2> QED
    BY <2>3 DEF RenameInSync
<1>13. /\ Len(to_rename) \in Nat /\ Len(Unretired) \in Nat
       /\ Len(inst_queue_) = Len(to_rename) + Len(Unretired)
       /\ DOMAIN Unretired = 1..Len(Unretired)
       /\ \A k \in 1..Len(Unretired) : inst_queue_[Len(to_rename) + k] = Unretired[k]
  BY <1>3, <1>5, ConcatFacts, LenProperties
<1>14. OrderInv'
  <2>1. Elems(Unretired) \subseteq Elems(inst_queue_) /\ Ordered(Unretired)
    BY <1>0, QueueFacts
  <2>2. trace' = trace /\ Upcoming' = Upcoming /\ in_unit' = in_unit
        /\ dispatch_queue_' = dispatch_queue_ /\ to_dispatch' = to_dispatch
    BY <1>1 DEF Upcoming
  <2> QED
    BY <1>0, <1>6, <2>1, <2>2 DEF OrderInv, Ordered, Before
<1>15. InTraceOrder'
  <2> DEFINE m == Len(to_rename)
             n == Len(Unretired)
             q == Unretired
  <2>1. ASSUME NEW k \in 1..n - 1
        PROVE  LET i == q[k]
                   j == q[k + 1]
               IN  /\ Follows(i, j.pid, j.uop)
                   /\ i.uid < j.uid \/ (i.uid = j.uid /\ i.pid = j.pid)
    <3>1. /\ m + k \in 1..Len(inst_queue_) - 1 /\ (m + k) + 1 = m + (k + 1)
          /\ k \in 1..n /\ k + 1 \in 1..n
      BY <1>13, SMTT(30)
    <3>2. q[k] = inst_queue_[m + k] /\ q[k + 1] = inst_queue_[(m + k) + 1]
      BY <1>13, <3>1
    <3> QED
      BY <1>0, <3>1, <3>2 DEF InTraceOrder
  <2>2. n > 0 => Follows(q[n], next_pid, next_uop)
    <3> SUFFICES ASSUME n > 0 PROVE Follows(q[n], next_pid, next_uop)
      OBVIOUS
    <3>1. n \in 1..n /\ Len(inst_queue_) > 0 /\ q[n] = inst_queue_[Len(inst_queue_)]
      BY <1>13
    <3> QED
      BY <1>0, <3>1 DEF InTraceOrder
  <2>3. inst_queue_' = q /\ trace' = trace /\ next_pid' = next_pid /\ next_uop' = next_uop
    BY <1>1, <1>6
  <2> HIDE DEF q
  <2>4. Len(inst_queue_') = n
    BY <2>3 DEF q
  <2> HIDE DEF n
  <2> QED
    BY <2>1, <2>2, <2>3, <2>4 DEF InTraceOrder, Follows
<1>16. FlushInv' /\ FlushIsPrecise'
  BY <1>1, <1>3, <1>7, QuietFlush
<1>17. BandwidthInv'
  BY <1>0, <1>1 DEF BandwidthInv
<1>18. NoLostWakeup'
  BY <1>1 DEF IInv, NoLostWakeup, RetireWakes, DispatchWakes
<1> QED
  BY <1>9, <1>10, <1>11, <1>12, <1>14, <1>15, <1>16, <1>17, <1>18 DEF IInv

\* A flush that includes all of a queue leaves nothing of it.
LEMMA SurvivorsNone ==
    ASSUME NEW s, NEW crit, \A x \in Elems(s) : includedInFlush(crit, x.uid)
    PROVE  Survivors(s, crit) = << >>
<1> DEFINE kept == {k \in DOMAIN s : ~includedInFlush(crit, s[k].uid)}
<1>1. kept = {}
  BY DEF Elems
<1>2. SubSeq(s, 1, 0) = << >>
  BY SubSeqEmpty
<1> QED
  BY <1>1, <1>2 DEF Survivors

\* Nothing, in as many parts.
LEMMA NothingFacts ==
    /\ << >> \in Seq(Inst) /\ Len(<< >>) = 0 /\ Elems(<< >>) = {} /\ << >> \o << >> = << >>
    /\ Places(<< >>, << >>, << >>, << >>, << >>) = << >>
<1>1. << >> \in Seq(Inst) /\ Len(<< >>) = 0 /\ Elems(<< >>) = {}
  BY EmptySeq DEF Elems
<1>2. Neutral(<< >>)
  BY <1>1, EmptyNeutral, Zenon
<1>3. << >> \o << >> = << >>
  BY <1>2, Zenon DEF Neutral
<1> QED
  BY <1>1, <1>3, Zenon DEF Places

\* A flush keeps the invariant.
LEMMA HandleFlushKeeps == ASSUME IInv, handleFlush PROVE IInv'
<1>0. /\ TypeOK /\ TypeParts /\ SessionInv /\ BandwidthInv /\ OrderInv /\ RenameInSync
      /\ UnitCredits /\ DispatchCredits /\ FlushInv /\ FlushIsPrecise
  BY Types DEF IInv, CreditsConserved
<1> DEFINE crit == flush_upper
<1>1. /\ phase = "flush" /\ pc = "idle" /\ phase' = phase /\ pc' = pc /\ flush_upper # NoFlush
      /\ expect_flush_' = FALSE
      /\ reorder_buffer_' = Survivors(reorder_buffer_, crit)
      /\ completed' = completed \cap Elems(reorder_buffer_')
      /\ mispredicted' = mispredicted \cap Elems(reorder_buffer_')
      /\ oldest' = oldest \cap Elems(reorder_buffer_')
      /\ UNCHANGED <<expected_program_id_, num_retired_, ev_retire_, retireLocals>>
      /\ dispatch_queue_' = << >>
      /\ credits_rob_' = credits_rob_ + (Len(reorder_buffer_) - Len(reorder_buffer_'))
      /\ UNCHANGED <<num_can_dispatch_, blocking_dispatcher_, ev_dispatch_insts_, dispatchLocals>>
      /\ in_unit' = [u \in Units |-> in_unit[u] \ FlushedIn(u, crit)]
      /\ inst_queue_' = Survivors(inst_queue_, crit)
      /\ next_pid' = RewindTo(crit) /\ next_uop' = 0
      /\ credits_dispatch_' = credits_dispatch_ + Len(dispatch_queue_)
      /\ to_rob' = << >> /\ flush_upper' = NoFlush
      /\ UNCHANGED <<pending_flush_, ev_flush_, flush_lower, trace, next_uid,
                     to_dispatch, to_rename>>
  BY DEF handleFlush, handleROBFlush, handleDispatchFlush, QueueAfterFlush, CreditsOfDropped
<1>1a. unit_credits_' = [u \in Units |-> unit_credits_[u] + Cardinality(FlushedIn(u, crit))]
  BY DEF handleFlush, handleDispatchFlush
<1> USE DEF retireLocals, dispatchLocals
<1>2. /\ retired_insts = << >> /\ to_rename = << >> /\ to_dispatch = << >> /\ to_rob = << >>
      /\ insts_dispatched = << >> /\ retired_this_cycle = 0 /\ ~stalled
  BY <1>0, <1>1 DEF SessionInv
<1>3. /\ pending_flush_ = NoFlush /\ crit.cause \in {"MISPREDICTION", "POST_SYNC"}
      /\ crit.uid < next_uid /\ crit.pid + 1 = expected_program_id_ /\ crit.pid \in DOMAIN trace
      /\ crit.uid \in Nat /\ crit.pid \in Nat
  BY <1>0, <1>1 DEF FlushInv, TypeParts, FlushingCriteria
<1>4. ~determineInclusive(crit.cause)
  BY <1>3 DEF determineInclusive
<1>5. \A x \in Elems(Unretired) : includedInFlush(crit, x.uid)
  BY <1>0, <1>1 DEF FlushIsPrecise
<1>6. \A x \in Elems(reorder_buffer_) : includedInFlush(crit, x.uid)
  BY <1>0, <1>5, InFlight
<1>7. \A x \in Elems(inst_queue_) : includedInFlush(crit, x.uid)
  <2>1. Elems(inst_queue_) = Elems(to_rename \o retired_insts) \cup Elems(Unretired)
    BY <1>0, QueueFacts
  <2>2. Elems(to_rename \o retired_insts) = {}
    BY <1>2, NothingFacts
  <2> QED
    BY <1>5, <2>1, <2>2
<1>8. reorder_buffer_' = << >> /\ inst_queue_' = << >>
  BY <1>1, <1>6, <1>7, SurvivorsNone
<1>9. next_pid' = crit.pid + 1
  BY <1>1, <1>4 DEF RewindTo
<1>10. /\ Unretired' = << >> /\ (to_rename \o retired_insts)' = << >>
       /\ Elems((dispatch_queue_ \o to_dispatch)') = {}
       /\ Elems(reorder_buffer_') = {} /\ Elems(inst_queue_') = {}
  <2>1. Unretired' = Places(<< >>, << >>, << >>, << >>, << >>)
    BY <1>1, <1>2, <1>8 DEF Unretired, Places
  <2>2. to_rename' \o retired_insts' = << >> \o << >>
        /\ dispatch_queue_' \o to_dispatch' = << >> \o << >>
    BY <1>1, <1>2
  <2> QED
    BY <1>8, <2>1, <2>2, NothingFacts, Zenon
<1>11. /\ Len(reorder_buffer_) \in Nat /\ Len(dispatch_queue_) \in Nat
       /\ Len(reorder_buffer_') = 0 /\ Len(dispatch_queue_') = 0 /\ Len(to_dispatch') = 0
       /\ Len(to_rob') = 0 /\ Len(insts_dispatched') = 0 /\ Len(to_rob) = 0
       /\ Len(to_dispatch) = 0 /\ Len(insts_dispatched) = 0
  BY <1>0, <1>1, <1>2, <1>8, LenProperties, NothingFacts DEF TypeParts
<1>12. ASSUME NEW u \in Units
       PROVE  /\ IsFiniteSet(in_unit[u]) /\ IsFiniteSet(in_unit'[u])
              /\ in_unit'[u] = in_unit[u] \ FlushedIn(u, crit)
              /\ Cardinality(FlushedIn(u, crit)) \in Nat /\ Cardinality(in_unit[u]) \in Nat
              /\ Cardinality(in_unit'[u]) = Cardinality(in_unit[u]) - Cardinality(FlushedIn(u, crit))
  <2>1. IsFiniteSet(in_unit[u])
    BY <1>0 DEF BandwidthInv
  <2> DEFINE F == FlushedIn(u, crit)
             U == in_unit[u]
  <2>2. F \subseteq U /\ U \cap F = F
    BY DEF FlushedIn
  <2>3. in_unit'[u] = U \ F
    BY <1>1
  <2> HIDE DEF F, U
  <2>4. IsFiniteSet(U) /\ IsFiniteSet(F)
    BY <2>1, <2>2, FS_Subset DEF U
  <2>5. IsFiniteSet(U \ F) /\ Cardinality(U \ F) = Cardinality(U) - Cardinality(U \cap F)
    BY <2>4, FS_Difference
  <2>6. Cardinality(U) \in Nat /\ Cardinality(F) \in Nat
    BY <2>4, FS_CardinalityType
  <2> QED
    BY <2>2, <2>3, <2>4, <2>5, <2>6, Zenon DEF U, F
<1>13. unit_credits_' \in [Units -> Nat] /\ in_unit' \in [Units -> SUBSET Inst]
  <2>1. \A u \in Units : unit_credits_[u] + Cardinality(FlushedIn(u, crit)) \in Nat
    BY <1>0, <1>12 DEF TypeParts
  <2> QED
    BY <1>0, <1>1, <1>1a, <2>1 DEF TypeParts
<1>14. TypeOK'
  <2>1. /\ credits_rob_' \in Nat /\ credits_dispatch_' \in Nat /\ next_pid' \in Nat
    BY <1>0, <1>1, <1>3, <1>9, <1>11, SMTT(30) DEF TypeParts
  <2>2. /\ completed' \subseteq Elems(reorder_buffer_') /\ mispredicted' \subseteq Elems(reorder_buffer_')
        /\ oldest' \subseteq Elems(reorder_buffer_')
    BY <1>1
  <2>3. TypeParts'
    BY <1>0, <1>1, <1>8, <1>13, <2>1, <2>2, NothingFacts DEF TypeParts
  <2> QED
    BY <2>3, TypesNext
<1>15. CreditsConserved'
  <2>1. ROBCredits => ROBCredits'
    BY <1>0, <1>1, <1>2, <1>11 DEF ROBCredits, TypeParts
  <2>2. DispatchCredits'
    BY <1>0, <1>1, <1>11 DEF DispatchCredits, TypeParts
  <2>3. UnitCredits'
    <3> SUFFICES ASSUME NEW u \in Units
                 PROVE  unit_credits_'[u] + Cardinality(in_unit'[u]) = UnitSize[u]
      BY DEF UnitCredits
    <3>1. unit_credits_'[u] = unit_credits_[u] + Cardinality(FlushedIn(u, crit))
      BY <1>1a
    <3>2. unit_credits_[u] + Cardinality(in_unit[u]) = UnitSize[u] /\ unit_credits_[u] \in Nat
      BY <1>0 DEF UnitCredits, TypeParts
    <3> QED
      BY <1>12, <3>1, <3>2
  <2> QED
    BY <1>1, <1>14, <2>1, <2>2, <2>3 DEF IInv, CreditsConserved
<1>16. FrontInv'
  <2>1. /\ DOMAIN trace = 1..Len(trace) /\ Len(trace) \in Nat
        /\ \A k \in DOMAIN trace : trace[k].uops \in Nat \ {0}
    BY <1>0, TraceFacts DEF TypeParts
  <2>2. next_pid' \in 1..Len(trace) + 1
    BY <1>3, <1>9, <2>1
  <2>3. next_pid' <= Len(trace) => trace[next_pid'].uops \in Nat \ {0}
    BY <1>3, <1>9, <2>1
  <2>4. trace' = trace /\ next_uop' = 0
    BY <1>1
  <2> QED
    BY <2>2, <2>3, <2>4 DEF FrontInv
<1>17. SessionInv'
  BY <1>0, <1>1, <1>2 DEF SessionInv
<1>18. RenameInSync'
  <2>1. inst_queue_' = (to_rename \o retired_insts)' \o Unretired'
    BY <1>8, <1>10, NothingFacts, Zenon
  <2> QED
    BY <2>1 DEF RenameInSync
<1>19. OrderInv'
  <2>1. DOMAIN inst_queue_' = {}
    BY <1>8
  <2>2. ASSUME NEW u \in Units, NEW x \in in_unit'[u] PROVE Before(x, Upcoming')
    <3>1. x \in Inst /\ ~includedInFlush(crit, x.uid)
      BY <1>0, <1>12 DEF FlushedIn, TypeParts
    <3>2. x.uid <= crit.uid /\ x.uid \in Nat
      BY <1>3, <1>4, <3>1 DEF includedInFlush, Inst
    <3>3. Upcoming'.uid = next_uid /\ next_uid \in Nat
      BY <1>0, <1>1 DEF Upcoming, TypeParts
    <3>4. x.uid < Upcoming'.uid
      BY <1>3, <3>2, <3>3
    <3> QED
      BY <3>4 DEF Before
  <2> QED
    BY <1>10, <2>1, <2>2 DEF OrderInv, Before
<1>20. InTraceOrder'
  <2>1. Len(inst_queue_') = 0
    BY <1>8, NothingFacts
  <2> QED
    BY <2>1 DEF InTraceOrder
<1>21. ExpectedInv'
  BY <1>1, <1>3, <1>9, <1>10 DEF ExpectedInv, Expected
<1>22. FlushInv' /\ FlushIsPrecise'
  <2>1. {pending_flush_', flush_upper'} \ {NoFlush} = {} /\ mispredicted' = {}
    BY <1>1, <1>3, <1>10
  <2>2. FlushInv'
    BY <1>0, <1>1, <1>3, <2>1 DEF FlushInv
  <2>3. FlushIsPrecise'
    BY <1>1, <1>3, <2>1 DEF FlushIsPrecise
  <2> QED
    BY <2>2, <2>3
<1>23. BandwidthInv'
  <2>1. stalled' = stalled /\ \A u \in Units : num_can_dispatch_'[u] # 0
    BY <1>0, <1>1 DEF BandwidthInv
  <2> QED
    BY <1>2, <1>12, <2>1 DEF BandwidthInv
<1>24. NoLostWakeup'
  BY <1>1, <1>8 DEF NoLostWakeup, RetireWakes, DispatchWakes
<1> QED
  BY <1>15, <1>16, <1>17, <1>18, <1>19, <1>20, <1>21, <1>22, <1>23, <1>24 DEF IInv

\* The instruction that retires asks for a flush only if it is a single uop.
LEMMA FlushesAreSingle ==
    ASSUME TypeOK, OrderInv, FlushInv, NEW i \in Elems(inst_queue_), FlushCauseOf(i) # "NONE"
    PROVE  /\ FlushCauseOf(i) \in {"MISPREDICTION", "POST_SYNC"}
           /\ trace[i.pid].uops = 1 /\ i.pid \in DOMAIN trace /\ i.uop < 1
<1>1. trace \in Traces
  BY Types DEF TypeParts
<1>2. i.kind \in {"branch", "csr"} /\ FlushCauseOf(i) \in {"MISPREDICTION", "POST_SYNC"}
  BY DEF FlushCauseOf, FlushInv
<1>3. i.pid \in DOMAIN trace /\ i.uop < trace[i.pid].uops /\ i.kind = trace[i.pid].kind
  BY DEF OrderInv
<1>4. trace[i.pid].uops = 1
  BY <1>1, <1>2, <1>3, TraceFacts
<1> QED
  BY <1>2, <1>3, <1>4

\* An instruction that retires keeps the invariant.
LEMMA RetireOneKeeps == ASSUME IInv, RetireOne PROVE IInv'
<1>0. /\ TypeOK /\ TypeParts /\ SessionInv /\ BandwidthInv /\ OrderInv /\ RenameInSync
      /\ FrontInv /\ InTraceOrder /\ ExpectedInv /\ FlushInv /\ FlushIsPrecise
  BY Types DEF IInv, CreditsConserved
<1> DEFINE i == Head(reorder_buffer_)
           ack == to_rename \o retired_insts
           n == IF i.uop = 0 THEN num_retired_ + 1 ELSE num_retired_
           flushes == FlushCauseOf(i) # "NONE" /\ ~Stops(n)
           new == [cause |-> FlushCauseOf(i), uid |-> i.uid, pid |-> i.pid]
<1>1. /\ pc = "retire" /\ num_to_retire > 0 /\ phase' = phase /\ pc' = pc
      /\ num_retired_' = n
      /\ retired_this_cycle' = IF i.uop = 0 THEN retired_this_cycle + 1 ELSE retired_this_cycle
      /\ expected_program_id_' = ExpectedAfter(i)
      /\ reorder_buffer_' = Tail(reorder_buffer_)
      /\ completed' = completed \ {i} /\ mispredicted' = mispredicted \ {i}
      /\ oldest' = oldest \ {i}
      /\ retired_insts' = Append(retired_insts, i)
      /\ num_to_retire' = (IF BreaksAfter(i, n) THEN 0 ELSE num_to_retire - 1)
      /\ ev_retire_' = ev_retire_
      /\ UNCHANGED <<dispatchVars, contractVars>>
  BY DEF RetireOne, retireOne
<1>2. IF flushes THEN receiveFlush(new) /\ expect_flush_' = TRUE
      ELSE UNCHANGED <<flushVars, expect_flush_>>
  BY DEF RetireOne, retireOne
<1> USE DEF dispatchVars, contractVars, frontVars
<1>3. /\ phase = "units" /\ num_to_retire <= Len(reorder_buffer_) /\ 0 \notin ev_retire_
      /\ ~expect_flush_ /\ insts_dispatched = << >> /\ to_rename = << >>
  BY <1>0, <1>1 DEF SessionInv, TypeParts
<1>4. pending_flush_ = NoFlush /\ flush_upper = NoFlush
  BY <1>0, <1>3 DEF FlushIsPrecise
<1>5. reorder_buffer_ # << >>
  BY <1>0, <1>1, <1>3, EmptySeq DEF TypeParts
<1>6. /\ Tail(reorder_buffer_) \in Seq(Inst) /\ i \in Inst
      /\ Len(Tail(reorder_buffer_)) = Len(reorder_buffer_) - 1
      /\ Len(reorder_buffer_) \in Nat \ {0}
  BY <1>0, <1>5, TailFacts DEF TypeParts
<1>7. Elems(reorder_buffer_) = {i} \cup Elems(Tail(reorder_buffer_))
  <2>1. Range(reorder_buffer_) = {i} \cup Range(Tail(reorder_buffer_))
    BY <1>0, <1>5, TailRange DEF TypeParts
  <2> QED
    BY <2>1, ElemsIsRange
<1>8. /\ ack \in Seq(Inst) /\ Unretired \in Seq(Inst) /\ Unretired # << >> /\ Head(Unretired) = i
      /\ inst_queue_ = ack \o Unretired
      /\ Elems(reorder_buffer_) \subseteq Elems(Unretired)
  BY <1>0, <1>5, InFlight DEF RenameInSync
<1>9. /\ i \in Elems(inst_queue_) /\ i \in Elems(Unretired)
      /\ Ordered(Unretired)
      /\ \A x \in Elems(ack) : Before(x, i)
  BY <1>0, <1>7, <1>8, QueueFacts
<1>10. i.uid \in Nat /\ i.pid \in Nat /\ i.uop \in Nat
  BY <1>6 DEF Inst
<1>11. flushes => /\ FlushCauseOf(i) \in {"MISPREDICTION", "POST_SYNC"}
                  /\ trace[i.pid].uops = 1 /\ i.pid \in DOMAIN trace /\ i.uop = 0
  <2>1. FlushCauseOf(i) # "NONE" => /\ FlushCauseOf(i) \in {"MISPREDICTION", "POST_SYNC"}
                                    /\ trace[i.pid].uops = 1 /\ i.pid \in DOMAIN trace /\ i.uop < 1
    BY <1>0, <1>9, FlushesAreSingle
  <2> QED
    BY <1>10, <2>1
<1>12. Expected(i.pid, i.uop)
  BY <1>0, <1>3, <1>8 DEF ExpectedInv
<1>13. /\ flush_upper' = NoFlush /\ flush_lower' = flush_lower
       /\ flushes => pending_flush_' = new /\ ev_flush_' = TRUE /\ expect_flush_' = TRUE
       /\ ~flushes => /\ pending_flush_' = NoFlush /\ ev_flush_' = ev_flush_
                      /\ expect_flush_' = expect_flush_
  BY <1>2, <1>4 DEF receiveFlush, Arbitrate, flushVars
<1>14. flushes => BreaksAfter(i, n)
  BY DEF BreaksAfter
<1>15. flushes => /\ new.cause \in {"MISPREDICTION", "POST_SYNC"} /\ new.uid = i.uid
                  /\ new.pid = i.pid /\ new \in FlushingCriteria /\ new # NoFlush
  <2>1. new.cause = FlushCauseOf(i) /\ new.uid = i.uid /\ new.pid = i.pid
    OBVIOUS
  <2>2. flushes => new \in FlushingCriteria
    BY <1>10, <1>11 DEF FlushingCriteria, FlushCauses
  <2>3. NoFlush \notin FlushingCriteria
    BY BackendAssumption
  <2> QED
    BY <1>11, <2>1, <2>2, <2>3
<1> HIDE DEF new, n, flushes
<1>16. /\ retired_insts' \in Seq(Inst) /\ num_retired_' \in Nat /\ retired_this_cycle' \in Nat
       /\ expected_program_id_' \in Nat /\ num_to_retire' \in Nat
       /\ num_to_retire' <= num_to_retire - 1
  <2>1. retired_insts' \in Seq(Inst)
    BY <1>0, <1>1, <1>6, AppendFacts DEF TypeParts
  <2> QED
    BY <1>0, <1>1, <2>1 DEF n, ExpectedAfter, TypeParts
<1>17. TypeOK'
  <2>1. /\ pending_flush_' \in FlushingCriteria \cup {NoFlush}
        /\ flush_upper' \in FlushingCriteria \cup {NoFlush}
        /\ flush_lower' \in FlushingCriteria \cup {NoFlush}
    BY <1>0, <1>13, <1>15 DEF TypeParts
  <2>2. ev_flush_' \in BOOLEAN /\ expect_flush_' \in BOOLEAN
    BY <1>0, <1>13 DEF TypeParts
  <2>3. /\ completed' \subseteq Elems(reorder_buffer_') /\ mispredicted' \subseteq Elems(reorder_buffer_')
        /\ oldest' \subseteq Elems(reorder_buffer_')
    BY <1>0, <1>1, <1>7 DEF TypeParts
  <2>4. reorder_buffer_' \in Seq(Inst)
    BY <1>1, <1>6
  <2>5. TypeParts'
    BY <1>0, <1>1, <1>16, <2>1, <2>2, <2>3, <2>4 DEF TypeParts
  <2> QED
    BY <2>5, TypesNext
<1>18. CreditsConserved'
  <2>1. ASSUME \A p \in DOMAIN trace : trace[p].uops = 1 PROVE ROBCredits'
    <3>1. i.uop = 0
      BY <1>0, <1>9, <1>10, <2>1 DEF OrderInv
    <3>2. ROBCredits
      BY <2>1 DEF IInv, CreditsConserved
    <3>3. Len(to_rob) \in Nat /\ Len(insts_dispatched) \in Nat
      BY <1>0, LenProperties DEF TypeParts
    <3>4. /\ retired_this_cycle' = retired_this_cycle + 1
          /\ Len(reorder_buffer_') = Len(reorder_buffer_) - 1
      BY <1>1, <1>6, <3>1
    <3> QED
      BY <1>0, <1>1, <1>6, <3>2, <3>3, <3>4 DEF ROBCredits, TypeParts
  <2>2. DispatchCredits' /\ UnitCredits'
    BY <1>1 DEF IInv, CreditsConserved, DispatchCredits, UnitCredits
  <2> QED
    BY <1>1, <1>17, <2>1, <2>2 DEF CreditsConserved
<1>19. FrontInv' /\ InTraceOrder'
  BY <1>0, <1>1 DEF FrontInv, InTraceOrder, Follows
<1>20. SessionInv'
  <2>1. num_to_retire' <= Len(reorder_buffer_')
    BY <1>0, <1>1, <1>3, <1>6, <1>16 DEF TypeParts
  <2>2. expect_flush_' => num_to_retire' = 0
    BY <1>1, <1>3, <1>13, <1>14
  <2> QED
    BY <1>0, <1>1, <1>3, <2>1, <2>2 DEF SessionInv
<1>21. Unretired' = Tail(Unretired) /\ ack' = Append(ack, i)
  <2>1. Same(Places(Tail(reorder_buffer_), to_rob, insts_dispatched, dispatch_queue_, to_dispatch),
             Tail(Places(reorder_buffer_, to_rob, insts_dispatched, dispatch_queue_, to_dispatch)))
    BY <1>0, <1>5, PlacesRetire DEF TypeParts
  <2>2. Unretired' = Tail(Unretired)
    BY <1>1, <2>1 DEF Unretired, Places, Same
  <2>3. Same(Append(to_rename \o retired_insts, i), to_rename \o Append(retired_insts, i))
    BY <1>0, <1>6, AppendConcat DEF TypeParts
  <2> QED
    BY <1>1, <2>2, <2>3 DEF Same
<1>22. RenameInSync'
  <2> HIDE DEF ack
  <2>1. Append(ack, i) \o Tail(Unretired) = ack \o Unretired
    BY <1>8, Shift
  <2>2. inst_queue_' = ack' \o Unretired'
    BY <1>1, <1>8, <1>21, <2>1
  <2> QED
    BY <2>2 DEF RenameInSync, ack
<1>23. /\ Elems(ack') = Elems(ack) \cup {i}
       /\ Elems(Unretired) = {i} \cup Elems(Unretired')
       /\ \A y \in Elems(Unretired') : Before(i, y)
  <2> HIDE DEF ack, i
  <2>1. Range(Append(ack, i)) = Range(ack) \cup {i}
    BY <1>6, <1>8, AppendRange
  <2>2. Range(Unretired) = {Head(Unretired)} \cup Range(Tail(Unretired))
        /\ Unretired = <<Head(Unretired)>> \o Tail(Unretired)
    BY <1>8, TailRange
  <2> DEFINE h == <<i>>
             t == Tail(Unretired)
  <2>3. h \in Seq(Inst) /\ t \in Seq(Inst) /\ Range(h) = {i}
    BY <1>6, <1>8, TailFacts DEF Range
  <2>4. Ordered(h \o t)
    BY <1>8, <1>9, <2>2
  <2> HIDE DEF h, t
  <2>5. \A x \in Range(h), y \in Range(t) : Before(x, y)
    BY <2>3, <2>4, OrderedConcat
  <2>6. \A y \in Range(t) : Before(i, y)
    BY <2>3, <2>5
  <2> QED
    BY <1>8, <1>21, <2>1, <2>2, <2>6, ElemsIsRange DEF t
<1>24. OrderInv'
  BY <1>1, QuietOrder
<1>25. ExpectedInv'
  <2> SUFFICES ASSUME ~expect_flush_'
               PROVE  IF Unretired' = << >> THEN Expected(next_pid, next_uop)'
                      ELSE Expected(Head(Unretired).pid, Head(Unretired).uop)'
    BY DEF ExpectedInv
  <2>1. PICK pid, uop : /\ Follows(i, pid, uop)
                        /\ Unretired' = << >> => pid = next_pid /\ uop = next_uop
                        /\ Unretired' # << >> => pid = Head(Unretired').pid /\ uop = Head(Unretired').uop
    <3> DEFINE m == Len(ack)
               q == Unretired
    <3>1. /\ Len(inst_queue_) = m + Len(q) /\ m \in Nat /\ Len(q) \in Nat
          /\ \A k \in 1..Len(q) : inst_queue_[m + k] = q[k]
      <4> HIDE DEF ack, q
      <4> QED
        BY <1>8, ConcatFacts DEF q
    <3>2. /\ Len(q) \in Nat \ {0} /\ q[1] = i /\ Tail(q) \in Seq(Inst) /\ Len(Tail(q)) = Len(q) - 1
          /\ \A k \in 1..(Len(q) - 1) : Tail(q)[k] = q[k + 1]
      <4> HIDE DEF i, q
      <4> QED
        BY <1>8, TailFacts DEF q
    <3>3. CASE Len(q) = 1
      <4>1. Unretired' = << >>
        BY <1>21, <3>2, <3>3, EmptySeq
      <4>2. inst_queue_[Len(inst_queue_)] = i /\ Len(inst_queue_) > 0
        BY <3>1, <3>2, <3>3
      <4>3. Follows(i, next_pid, next_uop)
        BY <1>0, <4>2 DEF InTraceOrder
      <4> QED
        BY <4>1, <4>3
    <3>4. CASE Len(q) # 1
      <4>1. /\ 1 \in 1..Len(q) /\ 2 \in 1..Len(q) /\ m + 1 \in 1..Len(inst_queue_) - 1
            /\ (m + 1) + 1 = m + 2 /\ 1 \in 1..(Len(q) - 1)
        BY <3>1, <3>2, <3>4
      <4>2. inst_queue_[m + 1] = i /\ inst_queue_[(m + 1) + 1] = Tail(q)[1]
        BY <3>1, <3>2, <4>1
      <4>3. Unretired' # << >> /\ Head(Unretired') = Tail(q)[1]
        <5>1. Tail(q) # << >>
          BY <3>2, <4>1, EmptySeq
        <5>2. Head(Tail(q)) = Tail(q)[1]
          <6> DEFINE t == Tail(q)
          <6>1. t \in Seq(Inst) /\ t # << >>
            BY <3>2, <5>1
          <6> HIDE DEF t
          <6>2. Head(t) = t[1]
            BY <6>1, TailFacts
          <6> QED
            BY <6>2 DEF t
        <5> QED
          BY <1>21, <5>1, <5>2
      <4>4. Follows(i, Tail(q)[1].pid, Tail(q)[1].uop)
        BY <1>0, <4>1, <4>2 DEF InTraceOrder
      <4> QED
        BY <4>3, <4>4
    <3> QED
      BY <3>3, <3>4
  <2>2. /\ i.pid \in DOMAIN trace /\ i.uop < trace[i.pid].uops /\ trace[i.pid].uops \in Nat \ {0}
    BY <1>0, <1>9, TraceFacts DEF OrderInv, TypeParts
  <2>3. pid = IF uop = 0 THEN expected_program_id_' ELSE expected_program_id_' - 1
    <3>1. expected_program_id_' = IF i.uop = 0 THEN expected_program_id_ + 1 ELSE expected_program_id_
      BY <1>1 DEF ExpectedAfter
    <3>2. i.pid = IF i.uop = 0 THEN expected_program_id_ ELSE expected_program_id_ - 1
      BY <1>12 DEF Expected
    <3>3. IF i.uop + 1 = trace[i.pid].uops THEN pid = i.pid + 1 /\ uop = 0
          ELSE pid = i.pid /\ uop = i.uop + 1
      BY <2>1 DEF Follows
    <3>4. expected_program_id_ \in Nat
      BY <1>0 DEF TypeParts
    <3> QED
      BY <1>10, <3>1, <3>2, <3>3, <3>4
  <2>4. next_pid' = next_pid /\ next_uop' = next_uop
    BY <1>1
  <2> QED
    BY <2>1, <2>3, <2>4 DEF Expected
<1>26. FlushInv'
  <2>1. \A x \in mispredicted' : x.kind = "branch"
    BY <1>0, <1>1 DEF FlushInv
  <2>2. CASE ~flushes
    <3>1. {pending_flush_', flush_upper'} \ {NoFlush} = {}
      BY <1>13, <2>2
    <3> QED
      BY <1>0, <1>4, <1>13, <2>1, <2>2, <3>1 DEF FlushInv
  <2>3. CASE flushes
    <3>1. {pending_flush_', flush_upper'} \ {NoFlush} = {new}
      BY <1>13, <1>15, <2>3
    <3>2. new.uid < next_uid
      <4>1. \/ i.uid < next_uid
            \/ i.uid = next_uid /\ i.pid = next_pid /\ i.uop < next_uop
        BY <1>0, <1>9 DEF OrderInv, Before, Upcoming
      <4>2. next_pid \in DOMAIN trace => next_uop < trace[next_pid].uops
        <5>1. DOMAIN trace = 1..Len(trace) /\ Len(trace) \in Nat
          BY <1>0, TraceFacts DEF TypeParts
        <5> QED
          BY <1>0, <5>1 DEF FrontInv
      <4>3. next_uop \in Nat
        BY <1>0 DEF TypeParts
      <4> QED
        BY <1>11, <1>15, <2>3, <4>1, <4>2, <4>3
    <3>3. new.pid + 1 = expected_program_id_'
      BY <1>1, <1>11, <1>12, <1>15, <2>3 DEF Expected, ExpectedAfter
    <3>4. trace' = trace /\ next_uid' = next_uid
      BY <1>1
    <3> QED
      BY <1>11, <1>13, <1>15, <2>1, <2>3, <3>1, <3>2, <3>3, <3>4 DEF FlushInv
  <2> QED
    BY <2>2, <2>3
<1>27. FlushIsPrecise'
  <2>1. CASE ~flushes
    <3>1. {pending_flush_', flush_upper'} \ {NoFlush} = {}
      BY <1>13, <2>1
    <3> QED
      BY <1>3, <1>13, <2>1, <3>1 DEF FlushIsPrecise
  <2>2. CASE flushes
    <3>1. {pending_flush_', flush_upper'} \ {NoFlush} = {new} /\ ~determineInclusive(new.cause)
      BY <1>13, <1>15, <2>2 DEF determineInclusive
    <3>2. ASSUME NEW y \in Elems(Unretired') PROVE includedInFlush(new, y.uid)
      <4>1. y \in Elems(inst_queue_) /\ Before(i, y)
        BY <1>0, <1>23, QueueFacts
      <4>2. /\ y.pid \in DOMAIN trace /\ y.uop < trace[y.pid].uops /\ y.uop \in Nat
        <5>1. y \in Inst
          BY <1>0, <4>1, SeqFacts, SMTT(30) DEF Elems, TypeParts
        <5> QED
          BY <1>0, <4>1, <5>1 DEF OrderInv, Inst
      <4>3. i.uid < y.uid
        BY <1>10, <1>11, <2>2, <4>1, <4>2 DEF Before
      <4> QED
        BY <1>15, <2>2, <3>1, <4>3 DEF includedInFlush
    <3>3. ASSUME NEW y \in Elems(ack') PROVE ~includedInFlush(new, y.uid)
      <4>1. y \in Inst
        <5>1. y \in Elems(ack) \/ y = i
          BY <1>23
        <5> HIDE DEF ack, i
        <5> QED
          BY <1>6, <1>8, <5>1, SeqFacts DEF Elems
      <4>2. y.uid <= i.uid /\ y.uid \in Nat
        <5>1. y.uid \in Nat
          BY <4>1 DEF Inst
        <5> QED
          BY <1>9, <1>10, <1>23, <5>1 DEF Before
      <4> QED
        BY <1>10, <1>15, <2>2, <3>1, <4>2 DEF includedInFlush
    <3> QED
      BY <1>13, <1>15, <2>2, <3>1, <3>2, <3>3 DEF FlushIsPrecise
  <2> QED
    BY <2>1, <2>2
<1>28. BandwidthInv'
  BY <1>0, <1>1, <1>3 DEF BandwidthInv
<1>29. NoLostWakeup'
  BY <1>1 DEF IInv, NoLostWakeup, RetireWakes, DispatchWakes
<1> QED
  BY <1>18, <1>19, <1>20, <1>22, <1>24, <1>25, <1>26, <1>27, <1>28, <1>29 DEF IInv

-----------------------------------------------------------------------------
(* The invariant of the whole back end, and what follows from it.          *)

\* The back end starts in the invariant.
LEMMA InitIInv == ASSUME Init PROVE IInv
<1> USE DEF Init, DispatchInit, ROBInit, FlushInit
<1>1. trace \in Traces /\ Len(trace) \in Nat /\ DOMAIN trace = 1..Len(trace)
      /\ \A k \in DOMAIN trace : trace[k].uops \in Nat \ {0}
  BY TraceFacts
<1>2. /\ DispatchQueueDepth \in Nat /\ RetireQueueDepth \in Nat /\ UnitSize \in [Units -> Nat]
  BY DispatchAssumption, ROBAssumption
<1>3. TypeParts
  BY <1>1, <1>2, NothingFacts DEF TypeParts, Phases
<1>4. TypeOK
  BY <1>3 DEF TypeParts, TypeOK
<1>5. CreditsConserved
  <2>1. ROBCredits /\ DispatchCredits
    BY <1>2, NothingFacts DEF ROBCredits, DispatchCredits
  <2>2. UnitCredits
    <3> SUFFICES ASSUME NEW u \in Units
                 PROVE  unit_credits_[u] + Cardinality(in_unit[u]) = UnitSize[u]
      BY DEF UnitCredits
    <3>1. Cardinality(in_unit[u]) = 0 /\ UnitSize[u] \in Nat /\ unit_credits_[u] = UnitSize[u]
      BY <1>2, FS_EmptySet
    <3> QED
      BY <3>1
  <2> QED
    BY <1>4, <2>1, <2>2 DEF CreditsConserved
<1>6. FrontInv
  <2>1. 1 \in 1..Len(trace) + 1 /\ (1 <= Len(trace) => 1 \in DOMAIN trace)
    BY <1>1
  <2>2. 1 <= Len(trace) => 0 < trace[1].uops
    BY <1>1, <2>1
  <2> QED
    BY <2>1, <2>2 DEF FrontInv
<1>7. SessionInv
  BY DEF SessionInv
<1>8. Unretired = << >> /\ to_rename \o retired_insts = << >>
      /\ dispatch_queue_ \o to_dispatch = << >>
  <2>1. Unretired = Places(<< >>, << >>, << >>, << >>, << >>)
    BY DEF Unretired, Places
  <2> QED
    BY <2>1, NothingFacts
<1>9. RenameInSync
  BY <1>8, NothingFacts DEF RenameInSync
<1>10. OrderInv
  BY <1>8, NothingFacts DEF OrderInv
<1>11. InTraceOrder
  BY NothingFacts DEF InTraceOrder
<1>12. ExpectedInv
  BY <1>8 DEF ExpectedInv, Expected
<1>13. FlushInv /\ FlushIsPrecise
  BY DEF FlushInv, FlushIsPrecise
<1>14. BandwidthInv
  BY FS_EmptySet DEF BandwidthInv
<1>15. NoLostWakeup
  BY DEF NoLostWakeup, RetireWakes, DispatchWakes
<1> QED
  BY <1>5, <1>6, <1>7, <1>9, <1>10, <1>11, <1>12, <1>13, <1>14, <1>15 DEF IInv

\* A step that changes nothing keeps the invariant.
LEMMA StutterKeeps == ASSUME IInv, UNCHANGED vars PROVE IInv'
<1> USE DEF vars, dispatchVars, robVars, flushVars, contractVars, frontVars
<1>1. CreditsConserved'
  <2>1. TypeOK'
    <3>1. TypeParts
      BY Types DEF IInv, CreditsConserved
    <3>2. TypeParts'
      BY <3>1 DEF TypeParts
    <3> QED
      BY <3>2, TypesNext
  <2> QED
    BY <2>1 DEF IInv, CreditsConserved, ROBCredits, DispatchCredits, UnitCredits
<1>2. SessionInv'
  BY DEF IInv, SessionInv
<1>3. Same(Unretired', Unretired) /\ Same((to_rename \o retired_insts)', to_rename \o retired_insts)
  BY DEF Unretired, Same
<1>4. FrontInv' /\ RenameInSync' /\ InTraceOrder' /\ ExpectedInv'
  BY <1>3, Quiet
<1>5. FlushInv' /\ FlushIsPrecise'
  BY <1>3, QuietFlush DEF Same
<1>6. OrderInv'
  BY QuietOrder
<1>7. BandwidthInv' /\ NoLostWakeup'
  BY DEF IInv, BandwidthInv, NoLostWakeup, RetireWakes, DispatchWakes
<1> QED
  BY <1>1, <1>2, <1>4, <1>5, <1>6, <1>7 DEF IInv

\* Every step keeps the invariant.
LEMMA StepIInv == ASSUME IInv, [Next]_vars PROVE IInv'
<1>1. CASE Handlers
  BY <1>1, DeliverToDispatchKeeps, DeliverToROBKeeps, DeliverToRenameKeeps, HandleFlushKeeps,
     BeginRetireKeeps, RetireOneKeeps, EndRetireKeeps, ForwardFlushKeeps, BeginDispatchKeeps,
     DispatchOneKeeps, StallDispatchKeeps, EndDispatchKeeps DEF Handlers
<1>2. CASE Complete \/ ReturnCredit \/ RenameSends \/ nextPhase
  BY <1>2, CompleteKeeps, ReturnCreditKeeps, RenameSendsKeeps, NextPhaseKeeps
<1>3. CASE Stopped \/ UNCHANGED vars
  BY <1>3, StutterKeeps DEF Stopped
<1> QED
  BY <1>1, <1>2, <1>3 DEF Next

\* IInv is an invariant of the back end.
THEOREM BackendInvariant == Spec => []IInv
<1>1. Init => IInv
  BY InitIInv
<1>2. IInv /\ [Next]_vars => IInv'
  BY StepIInv
<1> QED
  BY <1>1, <1>2, PTL DEF Spec

\* Whatever retires, is dispatched or is flushed, Rename's queue is what the other units
\* hold and what is on its way between them, in order, and a flush drops all that is not
\* retired and nothing that is (getAckFromROB_, ROB::handleFlush_).
THEOREM RenameContractHolds == Spec => []RenameContract
<1>1. IInv => RenameContract
  BY DEF IInv, RenameContract
<1> QED
  BY <1>1, BackendInvariant, PTL

\* What is in flight is a run of the trace that ends where the front end goes on, and
\* what ROB looks at next is the next of the program: "Unexpected program ID when
\* retiring instruction" is never raised (ROB::retireInstructions_).
THEOREM ProgramOrderHolds == Spec => []InProgramOrder
<1>1. IInv => InProgramOrder
  <2> SUFFICES ASSUME IInv, reorder_buffer_ # << >>, ~expect_flush_
               PROVE  Expected(Head(reorder_buffer_).pid, Head(reorder_buffer_).uop)
    BY DEF IInv, InProgramOrder
  <2>1. Unretired # << >> /\ Head(Unretired) = Head(reorder_buffer_)
    BY InFlight DEF IInv, CreditsConserved
  <2> QED
    BY <2>1 DEF IInv, ExpectedInv
<1> QED
  BY <1>1, BackendInvariant, PTL

\* Credits of ROB, of Dispatch's queue and of every unit are neither lost nor invented,
\* so no queue grows beyond its depth (Dispatch, Dispatcher, ROB, Rename).
THEOREM BackendCreditsConserved == Spec => []CreditsConserved
<1>1. IInv => CreditsConserved
  BY DEF IInv
<1> QED
  BY <1>1, BackendInvariant, PTL

\* Neither ROB nor Dispatch sleeps with work to do and nothing to wake it
\* (Inst::setOldest, scheduleDispatchSession).
THEOREM BackendWakesUp == Spec => []NoLostWakeup
<1>1. IInv => NoLostWakeup
  BY DEF IInv
<1> QED
  BY <1>1, BackendInvariant, PTL

-----------------------------------------------------------------------------
(* The forwarded flush covers every request, for any set of instructions   *)
(* and any number of requesters.                                           *)

\* Arbitration (receiveFlush_) keeps a flush that covers both the pending one
\* and the new request, and it is one of the two.
LEMMA ArbitrateCovers ==
    ASSUME pending_flush_ \in FlushingCriteria \cup {NoFlush},
           NEW crit \in FlushingCriteria, NEW v \in Nat
    PROVE  /\ Arbitrate(crit) \in {crit, pending_flush_} \ {NoFlush}
           /\ includedInFlush(crit, v) => includedInFlush(Arbitrate(crit), v)
           /\ pending_flush_ # NoFlush /\ includedInFlush(pending_flush_, v)
                => includedInFlush(Arbitrate(crit), v)
<1>0. crit # NoFlush
  BY UidAssumption
<1>1. crit.uid \in Nat /\ crit.cause \in FlushCauses
  BY DEF FlushingCriteria
<1>2. CASE pending_flush_ = NoFlush
  BY <1>0, <1>2 DEF Arbitrate
<1>3. CASE pending_flush_ # NoFlush
  <2>1. pending_flush_.uid \in Nat
    BY <1>3 DEF FlushingCriteria
  <2>2. CASE includedInFlush(pending_flush_, crit.uid)
    <3>1. Arbitrate(crit) = pending_flush_
      BY <1>3, <2>2 DEF Arbitrate
    <3>2. includedInFlush(crit, v) => includedInFlush(pending_flush_, v)
      BY <1>1, <2>1, <2>2 DEF includedInFlush
    <3>. QED  BY <1>3, <3>1, <3>2
  <2>3. CASE ~includedInFlush(pending_flush_, crit.uid)
    <3>1. Arbitrate(crit) = crit
      BY <2>3 DEF Arbitrate
    <3>2. includedInFlush(pending_flush_, v) => includedInFlush(crit, v)
      BY <1>1, <2>1, <2>3 DEF includedInFlush
    <3>. QED  BY <1>0, <3>1, <3>2
  <2>. QED  BY <2>2, <2>3
<1>. QED  BY <1>2, <1>3

\* The inductive invariant implies the property: a lower flush only stands for
\* requests about instructions that have not left Decode.
LEMMA CoverImpliesForwarded == ArbiterInv => ForwardedCoversAll
<1> SUFFICES ASSUME ArbiterInv,
                    NEW crit \in {flush_upper, flush_lower} \ {NoFlush},
                    NEW r \in requests, NEW v \in Uids, includedInFlush(r, v)
             PROVE  DroppedBy(crit, v)
  BY DEF ForwardedCoversAll
<1>1. includedInFlush(crit, v)
  BY DEF ArbiterInv, CoverInv
<1>2. crit \in requests
  BY DEF ArbiterInv, RequestInv
<1>3. crit \in FlushingCriteria /\ renamed \in Nat /\ v \in Nat
  BY <1>2, UidAssumption DEF ArbiterInv, TypeInv
<1>4. ASSUME isLowerPipeFlush(crit) PROVE v > renamed
  <2>1. crit.uid > renamed
    BY <1>2, <1>4 DEF ArbiterInv, RequestInv
  <2>2. crit.uid <= v
    BY <1>1, <1>4 DEF includedInFlush, isLowerPipeFlush, determineInclusive
  <2>3. crit.uid \in Nat
    BY <1>3 DEF FlushingCriteria
  <2>. QED  BY <1>3, <2>1, <2>2, <2>3
<1>. QED  BY <1>1, <1>4 DEF DroppedBy

\* Every step of the arbiter keeps the inductive invariant.
LEMMA ArbiterKeepsInv == ArbiterInv /\ [ArbiterNext]_arbiterVars => ArbiterInv'
<1> SUFFICES ASSUME ArbiterInv, [ArbiterNext]_arbiterVars PROVE ArbiterInv'
  OBVIOUS
<1> USE DEF ArbiterInv
<1>1. CASE Request
  <2>1. PICK cause \in FlushCauses, uid \in Uids :
          LET crit == [cause |-> cause, uid |-> uid, pid |-> 0]
          IN  /\ isLowerPipeFlush(crit) <=> uid > renamed
              /\ receiveFlush(crit)
              /\ requests' = requests \cup {crit}
    BY <1>1 DEF Request
  <2> DEFINE crit == [cause |-> cause, uid |-> uid, pid |-> 0]
  <2>2. crit \in FlushingCriteria /\ crit.uid = uid
    BY UidAssumption DEF FlushingCriteria
  <2>3. /\ flush_upper = NoFlush /\ flush_lower = NoFlush
        /\ UNCHANGED <<phase, pc, renamed>>
        /\ requests' = requests \cup {crit}
        /\ ev_flush_' = TRUE /\ pending_flush_' = Arbitrate(crit)
        /\ UNCHANGED <<flush_upper, flush_lower>>
        /\ isLowerPipeFlush(crit) <=> crit.uid > renamed
    BY <1>1, <2>1, <2>2 DEF Request, receiveFlush
  <2>4. pending_flush_ \in FlushingCriteria \cup {NoFlush}
    BY DEF TypeInv
  <2> HIDE DEF crit
  <2>5. /\ Arbitrate(crit) \in {crit, pending_flush_} \ {NoFlush}
        /\ \A v \in Uids : includedInFlush(crit, v) => includedInFlush(Arbitrate(crit), v)
        /\ \A v \in Uids : pending_flush_ # NoFlush /\ includedInFlush(pending_flush_, v)
                              => includedInFlush(Arbitrate(crit), v)
    <3>1. 0 \in Nat
      OBVIOUS
    <3>2. Arbitrate(crit) \in {crit, pending_flush_} \ {NoFlush}
      BY <2>2, <2>4, <3>1, ArbitrateCovers
    <3>3. ASSUME NEW v \in Uids
          PROVE  /\ includedInFlush(crit, v) => includedInFlush(Arbitrate(crit), v)
                 /\ pending_flush_ # NoFlush /\ includedInFlush(pending_flush_, v)
                      => includedInFlush(Arbitrate(crit), v)
      <4>1. v \in Nat
        BY UidAssumption
      <4>. QED  BY <2>2, <2>4, <4>1, ArbitrateCovers
    <3>. QED  BY <3>2, <3>3
  <2>6. TypeInv'
    BY <2>2, <2>3, <2>4, <2>5 DEF TypeInv
  <2>7. RequestInv'
    <3>1. ASSUME NEW r \in requests' PROVE isLowerPipeFlush(r) <=> r.uid > renamed
      BY <2>3 DEF RequestInv
    <3>2. pending_flush_' \in requests'
      BY <2>3, <2>5 DEF RequestInv
    <3>. QED  BY <2>3, <3>1, <3>2 DEF RequestInv
  <2>8. CoverInv'
    <3>1. ASSUME NEW r \in requests', NEW v \in Uids, includedInFlush(r, v)
          PROVE  includedInFlush(pending_flush_', v)
      <4>1. CASE r = crit
        BY <2>3, <2>5, <3>1, <4>1
      <4>2. CASE r \in requests
        <5>1. pending_flush_ # NoFlush
          BY <2>3, <4>2 DEF CoverInv
        <5>2. includedInFlush(pending_flush_, v)
          BY <3>1, <4>2, <5>1 DEF CoverInv
        <5>. QED  BY <2>3, <2>5, <5>1, <5>2
      <4>. QED  BY <2>3, <4>1, <4>2
    <3>2. pending_flush_' # NoFlush
      BY <2>3, <2>5
    <3>. QED  BY <2>3, <3>1, <3>2 DEF CoverInv
  <2>. QED  BY <2>6, <2>7, <2>8
<1>2. CASE Forward
  <2>1. /\ pending_flush_ # NoFlush
        /\ \/ flush_lower' = pending_flush_ /\ flush_upper' = flush_upper
           \/ flush_upper' = pending_flush_ /\ flush_lower' = flush_lower
        /\ ev_flush_' = FALSE /\ pending_flush_' = NoFlush
        /\ UNCHANGED <<phase, pc, renamed, requests>>
    BY <1>2 DEF Forward, forwardFlush
  <2>2. flush_upper = NoFlush /\ flush_lower = NoFlush
    BY <2>1 DEF CoverInv
  <2>3. TypeInv'
    BY <2>1 DEF TypeInv
  <2>4. RequestInv'
    BY <2>1, <2>2 DEF RequestInv
  <2>5. CoverInv'
    BY <2>1, <2>2 DEF CoverInv
  <2>. QED  BY <2>3, <2>4, <2>5
<1>3. CASE Deliver
  BY <1>3 DEF Deliver, TypeInv, RequestInv, CoverInv
<1>4. CASE Move
  BY <1>4 DEF Move, flushVars, TypeInv, RequestInv, CoverInv
<1>5. CASE ArbiterPhase
  BY <1>5 DEF ArbiterPhase, NextOf, Phases, flushVars, TypeInv, RequestInv, CoverInv
<1>6. CASE UNCHANGED arbiterVars
  BY <1>6 DEF arbiterVars, flushVars, TypeInv, RequestInv, CoverInv
<1>. QED  BY <1>1, <1>2, <1>3, <1>4, <1>5, <1>6 DEF ArbiterNext

\* In every behaviour, whatever requests arrive in a cycle, the flush that
\* forwardFlush_ sends drops all that any request asked to drop.
THEOREM ForwardedFlushCoversAll == ArbiterSpec => []ForwardedCoversAll
<1>1. ArbiterInit => ArbiterInv
  BY DEF ArbiterInit, FlushInit, ArbiterInv, TypeInv, RequestInv, CoverInv, Phases
<1>. QED  BY <1>1, ArbiterKeepsInv, CoverImpliesForwarded, PTL DEF ArbiterSpec
=============================================================================
