------------------------------- MODULE Decode -------------------------------
(***************************************************************************)
(* Decode (core/decode/Decode.cpp): takes instructions from its fetch      *)
(* queue, turns vector instructions into uops under the configuration of   *)
(* the last vset, stops behind a vset that needs a register, and sends     *)
(* groups to Rename within the credits of Rename's uop queue.              *)
(*                                                                         *)
(* Fusion only marks instructions; of it there is the delay with which it  *)
(* gathers a group.                                                        *)
(***************************************************************************)
EXTENDS InstGenerator, VectorUopGenerator

CONSTANTS NumToDecode,        \* num_to_decode
          FetchQueueSize,     \* fetch_queue_size
          FusionEnable, FusionMaxGroupSize, FusionMaxLatency,
          InitConfig,         \* init_vl, init_sew, init_lmul
          WaitingAtStart      \* values that the constructor may leave in waiting_on_vset_

ASSUME DecodeAssumption ==
    /\ {NumToDecode, FetchQueueSize} \subseteq Nat \ {0}
    /\ {FusionMaxGroupSize, FusionMaxLatency} \subseteq Nat
    /\ FusionEnable \in BOOLEAN /\ WaitingAtStart \subseteq BOOLEAN
    /\ InitConfig \in VectorConfig

VARIABLES fetch_queue_, uop_queue_credits_, vector_config_, waiting_on_vset_, latency_count_,
          ev_decode_insts_event_   \* delays of the scheduled event

decodeState == <<fetch_queue_, gen, vector_config_, waiting_on_vset_>>
decodeVars  == <<decodeState, uop_queue_credits_, latency_count_, ev_decode_insts_event_>>

DecodeInit(credits) ==
    /\ fetch_queue_ = << >> /\ gen = IdleGen
    /\ uop_queue_credits_ = credits
    /\ vector_config_ = InitConfig
    /\ waiting_on_vset_ \in WaitingAtStart
    /\ latency_count_ = 0 /\ ev_decode_insts_event_ = {}

Kind(i) == trace[i.pid].kind

\* Seeded fault: the length is always the instruction's own.
ConfigOf_Own(i) == trace[i.pid].cfg

\* updateVectorConfig_: the configuration of vset i.  With x0 as the source of a
\* vsetvli the vector length is VLMAX, or its own if the destination is x0 as well.
\* A vset that waits is a vsetvl, to which x0 is as any register, or has no x0.
ConfigOf(i) ==
    LET cfg == trace[i.pid].cfg
        x0  == IF Kind(i) = "vset" THEN trace[i.pid].x0 ELSE "none"
    IN  CASE x0 = "none"   -> cfg
          [] x0 = "source" -> [cfg EXCEPT !.vl = vlmax(cfg)]
          [] x0 = "both"   -> [cfg EXCEPT !.vl = IF @ <= vlmax(cfg) THEN @ ELSE vlmax(cfg)]

-----------------------------------------------------------------------------
(* Messages to Decode.                                                     *)

receiveUopQueueCredits(n) ==
    /\ uop_queue_credits_' = uop_queue_credits_ + n
    /\ ev_decode_insts_event_' = ev_decode_insts_event_ \cup
                                     (IF Len(fetch_queue_) > 0 THEN {0} ELSE {})
    /\ UNCHANGED <<decodeState, latency_count_>>

fetchBufferAppended(insts) ==
    /\ fetch_queue_' = fetch_queue_ \o insts
    /\ ev_decode_insts_event_' = ev_decode_insts_event_ \cup
                                     (IF uop_queue_credits_ > 0 THEN {0} ELSE {})
    /\ UNCHANGED <<gen, vector_config_, waiting_on_vset_, uop_queue_credits_, latency_count_>>

\* A vset has been executed.
processVset(i) ==
    /\ vector_config_' = ConfigOf(i)
    /\ waiting_on_vset_' = FALSE
    /\ ev_decode_insts_event_' = ev_decode_insts_event_ \cup (IF waiting_on_vset_ THEN {0} ELSE {})
    /\ UNCHANGED <<fetch_queue_, gen, uop_queue_credits_, latency_count_>>

\* A flush, which includes the instructions flushed.  The fetch queue's
\* entries go back to Fetch as credits.
handleFlush(flushed) ==
    /\ fetch_queue_' = << >>
    /\ gen' = AfterGenFlush(flushed)
    /\ UNCHANGED <<vector_config_, waiting_on_vset_, uop_queue_credits_, latency_count_,
                   ev_decode_insts_event_>>

-----------------------------------------------------------------------------
(* A decode session.  The loop works on [queue, gen, config, waiting,      *)
(* insts]; a uop that it makes is [uid, pid, uop, cfg].                    *)

Loop0 == [queue |-> fetch_queue_, gen |-> gen, config |-> vector_config_,
          waiting |-> waiting_on_vset_, insts |-> << >>]

UopOf(g) == [uid |-> g.current_inst_.uid, pid |-> g.current_inst_.pid,
             uop |-> g.num_uops_generated_, cfg |-> g.current_inst_.cfg]

DecodeVector(s, i) ==
    LET g == SetInst([uid |-> i.uid, pid |-> i.pid, cfg |-> s.config],
                     NumUops("ELEMENTWISE", 0, s.config))
    IN  [s EXCEPT !.gen = AfterUop(g), !.insts = Append(@, UopOf(g))]

\* vsetvl, and vsetvli with a register as its source.
Waits(i) == Kind(i) = "vset_reg"

DecodeInst(s, i) ==
    CASE Kind(i) = "vector" -> DecodeVector(s, i)
      [] OTHER -> [s EXCEPT !.config = IF Kind(i) = "vset" THEN ConfigOf(i) ELSE @,
                            !.waiting = Waits(i),
                            !.insts = Append(@, [uid |-> i.uid, pid |-> i.pid, uop |-> 0,
                                                 cfg |-> NoInst])]

\* Seeded fault: the loop goes on behind a vset that has to be executed.
DecodeOne_NoWait(s) ==
    CASE s.gen.num_uops_to_generate_ > 0 ->
             [s EXCEPT !.gen = AfterUop(@), !.insts = Append(@, UopOf(s.gen))]
      [] s.gen.num_uops_to_generate_ = 0 /\ s.queue # << >> ->
             [DecodeInst(s, Head(s.queue)) EXCEPT !.queue = Tail(@)]
      [] OTHER -> s

\* One iteration, that changes nothing once the loop is over.
DecodeOne(s) ==
    CASE s.waiting -> s
      [] ~s.waiting /\ s.gen.num_uops_to_generate_ > 0 ->
             [s EXCEPT !.gen = AfterUop(@), !.insts = Append(@, UopOf(s.gen))]
      [] ~s.waiting /\ s.gen.num_uops_to_generate_ = 0 /\ s.queue # << >> ->
             [DecodeInst(s, Head(s.queue)) EXCEPT !.queue = Tail(@)]
      [] OTHER -> s

Session(num) == LET loop[n \in 0..num] == IF n = 0 THEN Loop0 ELSE DecodeOne(loop[n - 1])
                IN  loop[num]

NumThisCycle == IF uop_queue_credits_ <= NumToDecode THEN uop_queue_credits_ ELSE NumToDecode

\* Fusion waits for a larger group; only an event from outside ends the wait.
Gathering == FusionEnable /\ NumThisCycle < FusionMaxGroupSize /\ latency_count_ < FusionMaxLatency

decodeGathers ==
    /\ 0 \in ev_decode_insts_event_
    /\ Gathering
    /\ latency_count_' = latency_count_ + 1
    /\ ev_decode_insts_event_' = ev_decode_insts_event_ \ {0}
    /\ UNCHANGED <<decodeState, uop_queue_credits_>>

\* The session; s.insts goes to Rename and as many credits to Fetch.
decodeInsts(s) ==
    /\ 0 \in ev_decode_insts_event_
    /\ ~Gathering
    /\ fetch_queue_' = s.queue /\ gen' = s.gen
    /\ vector_config_' = s.config /\ waiting_on_vset_' = s.waiting
    /\ uop_queue_credits_' = uop_queue_credits_ - Len(s.insts)
    /\ latency_count_' = 0
    /\ ev_decode_insts_event_' = (ev_decode_insts_event_ \ {0}) \cup
           (IF uop_queue_credits_' > 0 /\ Len(s.queue) + s.gen.num_uops_to_generate_ > 0
            THEN {1} ELSE {})
=============================================================================
