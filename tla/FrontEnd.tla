------------------------------ MODULE FrontEnd ------------------------------
(***************************************************************************)
(* The front end as the topology wires it (CPUTopology.cpp): Fetch, ICache *)
(* and Decode with, by their contracts, the L2 cache, which fills lines in *)
(* any order, Rename, which takes uops and returns their credits, the pipe *)
(* that executes a vset, and FlushManager.                                 *)
(*                                                                         *)
(* A cycle is: "port", messages of the last cycle; "flush"; then the Tick  *)
(* phase in the order of the zero-cycle credits, "rename", "decode" and    *)
(* "icache" (independent of each other), "fetch".  Credits are taken in    *)
(* the step that sends them, before their receiver's event.                *)
(***************************************************************************)
EXTENDS Fetch, ICache, Decode

CONSTANTS UopQueueSize,   \* entries of Rename's uop queue
          MaxFlushes      \* bound of the model: flushes in one run

ASSUME FrontEndAssumption == UopQueueSize \in Nat \ {0} /\ MaxFlushes \in Nat

\* What a trace says of an instruction.
TraceInst == [kind : {"alu", "branch", "vector", "vset", "vset_reg"}, block : Nat, line : Nat,
              cof : BOOLEAN, taken : BOOLEAN, cfg : VectorConfig, x0 : {"none", "source", "both"}]

ASSUME TraceAssumption ==
    /\ Traces \subseteq Seq(TraceInst)
    /\ NoInst \notin [uid : Nat, pid : Nat, cfg : VectorConfig \cup {NoInst}]

VARIABLES phase,
          fetch_resp,     \* responses on their way to Fetch: [access, hit, due]
          sent,           \* uops sent to Rename and not flushed, oldest first
          uops_held,      \* uops whose credit Rename has not returned
          vsets_out,      \* vsets that Decode waits for and that are not executed
          l2_owed,        \* credits that the L2 cache has not returned
          flushes,        \* how many there have been
          vset_dropped,   \* history: a flush has taken a vset that Decode waited for
          stale           \* history: where the program goes on under a vset of its future

undoVars == <<vset_dropped, stale>>
contractVars == <<sent, uops_held, vsets_out, l2_owed, flushes, undoVars>>
vars == <<phase, fetchVars, icacheVars, decodeVars, fetch_resp, contractVars>>

-----------------------------------------------------------------------------
(* Messages of the last cycle.                                             *)

DeliverToICache ==
    /\ phase = "port"
    /\ to_icache # << >>
    /\ getRequestFromFetch(Head(to_icache))
    /\ to_icache' = Tail(to_icache)
    /\ UNCHANGED <<phase, instGeneratorVars, fetchState, credits_icache_, credits_inst_queue_,
                   ev_fetch_insts, ev_send_insts, to_decode, decodeVars, fetch_resp, contractVars>>

DeliverToDecode ==
    /\ phase = "port"
    /\ to_decode # << >>
    /\ fetchBufferAppended(Head(to_decode))
    /\ to_decode' = Tail(to_decode)
    /\ UNCHANGED <<phase, instGeneratorVars, fetchState, credits_icache_, credits_inst_queue_,
                   ev_fetch_insts, ev_send_insts, to_icache, icacheVars, fetch_resp, contractVars>>

L2Fills ==
    /\ phase = "port"
    /\ \E k \in DOMAIN at_l2 : getRespFromL2Cache(k)
    /\ UNCHANGED <<phase, fetchVars, decodeVars, fetch_resp, contractVars>>

L2ReturnsCredit ==
    /\ phase = "port" /\ l2_owed > 0
    /\ getCreditsFromL2Cache(1)
    /\ l2_owed' = l2_owed - 1
    /\ UNCHANGED <<phase, fetchVars, decodeVars, fetch_resp, sent, uops_held, vsets_out, flushes, undoVars>>

VsetExecuted ==
    /\ phase = "port"
    /\ \E i \in vsets_out : processVset(i) /\ vsets_out' = vsets_out \ {i}
    /\ UNCHANGED <<phase, fetchVars, icacheVars, fetch_resp, sent, uops_held, l2_owed, flushes, undoVars>>

-----------------------------------------------------------------------------
(* A flush by a branch that is in flight reaches Fetch and Decode.         *)

includedInFlush(i, j, inclusive) == i.uid < j.uid \/ (inclusive /\ i.uid = j.uid)

CreditsOfFlush == Len(fetch_queue_)

IsVset(p) == trace[p].kind \in {"vset", "vset_reg"}

\* Decode keeps the configuration of a vset that is flushed.  Behind a flush by i of
\* the vsets V the program meets it up to the first vset, and so it does where a
\* flush before had left it.
StaleAfter(i, V) ==
    {p \in stale : p < i.pid} \cup
    {p \in i.pid..Len(trace) : /\ \E r \in stale \cup V : p <= r
                              /\ \A q \in i.pid..p - 1 : ~IsVset(q)}

Flush ==
    /\ phase = "flush" /\ flushes < MaxFlushes
    /\ \E k \in DOMAIN sent, inclusive \in BOOLEAN :
         LET i == sent[k]
             lost == {m \in DOMAIN sent : includedInFlush(i, sent[m], inclusive)}
         IN  /\ Kind(i) = "branch"
             /\ flushFetch(i, inclusive, CreditsOfFlush)
             /\ handleFlush({j \in {gen.current_inst_} \ {NoInst} : includedInFlush(i, j, inclusive)})
             /\ sent' = ElementsAt(sent, {m \in DOMAIN sent : ~includedInFlush(i, sent[m], inclusive)})
             /\ vsets_out' = {j \in vsets_out : ~includedInFlush(i, j, inclusive)}
             /\ stale' = StaleAfter(i, {sent[m].pid : m \in {n \in lost : IsVset(sent[n].pid)}})
    /\ vset_dropped' = (vset_dropped \/ vsets_out' # vsets_out)
    /\ flushes' = flushes + 1
    /\ phase' = "rename"
    /\ UNCHANGED <<icacheVars, fetch_resp, uops_held, l2_owed>>

-----------------------------------------------------------------------------
(* The Tick phase.                                                         *)

RenameReturnsCredits ==
    /\ phase = "rename"
    /\ \E n \in 1..uops_held : receiveUopQueueCredits(n) /\ uops_held' = uops_held - n
    /\ phase' = "decode"
    /\ UNCHANGED <<fetchVars, icacheVars, fetch_resp, sent, vsets_out, l2_owed, flushes, undoVars>>

DecodeSession ==
    LET s == Session(NumThisCycle)
    IN  /\ phase = "decode"
        /\ decodeInsts(s)
        /\ receiveFetchQueueCredits(Len(s.insts))
        /\ sent' = sent \o s.insts
        /\ uops_held' = uops_held + Len(s.insts)
        /\ vsets_out' = vsets_out \cup {s.insts[k] : k \in {m \in DOMAIN s.insts : Waits(s.insts[m])}}
        /\ UNCHANGED <<phase, icacheVars, fetch_resp, l2_owed, flushes, undoVars>>

DecodeGathers ==
    /\ phase = "decode"
    /\ decodeGathers
    /\ UNCHANGED <<phase, fetchVars, icacheVars, fetch_resp, contractVars>>

\* Requests to the L2 cache hold a credit until it has taken them.
ICacheArbitrates ==
    /\ phase = "icache"
    /\ doArbitration
    /\ l2_owed' = l2_owed + (l2cache_credits_ - l2cache_credits_')
    /\ UNCHANGED <<phase, fetchVars, decodeVars, fetch_resp, sent, uops_held, vsets_out, flushes, undoVars>>

ICacheRequestsLine ==
    /\ phase = "icache"
    /\ requestLine
    /\ l2_owed' = l2_owed + (l2cache_credits_ - l2cache_credits_')
    /\ UNCHANGED <<phase, fetchVars, decodeVars, fetch_resp, sent, uops_held, vsets_out, flushes, undoVars>>

\* sendResponse_ or sendReplay_.
ICacheResponds ==
    /\ phase = "icache"
    /\ \E e \in DueResponses :
         /\ answered(e)
         /\ fetch_resp' = fetch_resp \cup {[e EXCEPT !.due = 1]}
         /\ IF CreditOf(e) > 0 THEN receiveCacheCredit(CreditOf(e)) ELSE UNCHANGED fetchVars
    /\ UNCHANGED <<phase, decodeVars, contractVars>>

FetchTakesResponse ==
    /\ phase = "fetch"
    /\ \E r \in fetch_resp : /\ r.due = 0
                             /\ receiveCacheResponse(r.access, r.hit)
                             /\ fetch_resp' = fetch_resp \ {r}
    /\ UNCHANGED <<phase, icacheVars, decodeVars, contractVars>>

\* Events follow the messages of the cycle, in any order.
FetchEvent ==
    /\ phase = "fetch"
    /\ \A r \in fetch_resp : r.due > 0
    /\ fetchInstruction \/ sendInstructions
    /\ UNCHANGED <<phase, icacheVars, decodeVars, fetch_resp, contractVars>>

-----------------------------------------------------------------------------
(* The clock.                                                              *)

NextOf == [port |-> "flush", flush |-> "rename", rename |-> "decode", decode |-> "icache",
           icache |-> "fetch", fetch |-> "port"]

PhaseDone ==
    /\ phase = "port" => to_icache = << >> /\ to_decode = << >>
    /\ phase = "decode" => 0 \notin ev_decode_insts_event_
    /\ phase = "icache" => /\ 0 \notin ev_arbitrate_ \cup ev_l2cache_request_
                           /\ DueResponses = {}
    /\ phase = "fetch" => /\ 0 \notin ev_fetch_insts \cup ev_send_insts
                          /\ \A r \in fetch_resp : r.due > 0

Aged(ev) == {d - 1 : d \in ev}

nextPhase ==
    /\ PhaseDone
    /\ phase' = NextOf[phase]
    /\ IF phase = "fetch"
       THEN /\ ev_fetch_insts' = Aged(ev_fetch_insts) /\ ev_send_insts' = Aged(ev_send_insts)
            /\ ev_arbitrate_' = Aged(ev_arbitrate_)
            /\ ev_l2cache_request_' = Aged(ev_l2cache_request_)
            /\ ev_decode_insts_event_' = Aged(ev_decode_insts_event_)
            /\ ev_respond_' = AgedEvents(ev_respond_)
            /\ ev_replay_ready_' = AgedEvents(ev_replay_ready_)
            /\ fetch_resp' = AgedEvents(fetch_resp)
       ELSE UNCHANGED <<ev_fetch_insts, ev_send_insts, ev_arbitrate_, ev_l2cache_request_,
                        ev_decode_insts_event_, icacheEvents, fetch_resp>>
    /\ UNCHANGED <<instGeneratorVars, fetchState, credits_icache_, credits_inst_queue_, to_icache,
                   to_decode, icacheQueues, miss_queue_, l2cache_credits_, at_l2, decodeState,
                   uop_queue_credits_, latency_count_, contractVars>>

Init ==
    /\ phase = "port"
    /\ FetchInit(ICacheQueueSize, FetchQueueSize) /\ ICacheInit /\ DecodeInit(UopQueueSize)
    /\ fetch_resp = {} /\ sent = << >> /\ uops_held = 0 /\ vsets_out = {}
    /\ l2_owed = 0 /\ flushes = 0
    /\ vset_dropped = FALSE /\ stale = {}

Handlers == \/ DeliverToICache \/ DeliverToDecode \/ DecodeSession \/ DecodeGathers
            \/ ICacheArbitrates \/ ICacheRequestsLine \/ ICacheResponds
            \/ FetchTakesResponse \/ FetchEvent

Next == \/ Handlers \/ L2Fills \/ L2ReturnsCredit \/ VsetExecuted \/ Flush
        \/ RenameReturnsCredits \/ nextPhase

Spec == Init /\ [][Next]_vars

\* Sparta runs every handler and the clock never stops; L2 cache, Rename and the
\* execution of a vset answer in the end.
Fairness == /\ WF_vars(Handlers) /\ WF_vars(nextPhase)
            /\ SF_vars(L2Fills) /\ SF_vars(L2ReturnsCredit)
            /\ SF_vars(VsetExecuted) /\ SF_vars(RenameReturnsCredits)

FairSpec == Spec /\ Fairness

-----------------------------------------------------------------------------
(* Properties.                                                             *)

Inst == [uid : Nat, pid : Nat]
Access == [line : Nat, insts : SUBSET Nat]
Timed == [access : Access, hit : BOOLEAN, due : Nat]

\* Every variable has its type.
TypeOK ==
    /\ phase \in DOMAIN NextOf /\ trace \in Traces
    /\ {next_pid, next_uid, fetch_buffer_occupancy_, credits_icache_, credits_inst_queue_,
        l2cache_credits_, uop_queue_credits_, latency_count_, uops_held, l2_owed, flushes}
           \subseteq Nat
    /\ ibuf_ \in Seq(Inst) /\ fetch_queue_ \in Seq(Inst) /\ to_decode \in Seq(Seq(Inst))
    /\ fetch_buffer_ \in Seq([inst : Inst, last : BOOLEAN, fetched : BOOLEAN])
    /\ {to_icache, fetch_req_queue_, replay_buffer_, pending_miss_buffer_} \subseteq Seq(Access)
    /\ {l2cache_resp_queue_, miss_queue_, at_l2} \subseteq Seq(Nat) /\ l1_cache_ \subseteq Nat
    /\ UNION {ev_fetch_insts, ev_send_insts, ev_arbitrate_, ev_l2cache_request_,
              ev_decode_insts_event_} \subseteq {0, 1}
    /\ UNION {ev_respond_, ev_replay_ready_, fetch_resp} \subseteq Timed
    /\ vector_config_ \in VectorConfig /\ waiting_on_vset_ \in BOOLEAN
    /\ vset_dropped \in BOOLEAN /\ stale \subseteq Nat

\* Instructions on their way to Decode's session, oldest first.
Queued == fetch_queue_ \o FlattenSeq(to_decode)
          \o [k \in DOMAIN fetch_buffer_ |-> fetch_buffer_[k].inst] \o ibuf_

UopsOf(i) == IF Kind(i) = "vector" THEN ElementUops(i.cfg) ELSE 1

\* The uops in Rename and behind it, then what Decode and Fetch hold, then the
\* rest of the trace are the program, in order, without a gap and without a
\* repetition, in every phase of every cycle and whatever was flushed: the uops
\* of an instruction follow each other, the generator knows how many are left,
\* and unique ids grow.
TraceInOrder ==
    LET last == Last(sent)
        done == IF sent = << >> THEN 0 ELSE last.pid
        follows(i, j) == IF i.uop + 1 < UopsOf(i)
                         THEN j.uid = i.uid /\ j.pid = i.pid /\ j.uop = i.uop + 1
                         ELSE j.uid > i.uid /\ j.pid = i.pid + 1 /\ j.uop = 0
    IN  /\ sent # << >> => /\ sent[1].pid = 1 /\ sent[1].uop = 0
                           /\ getNumUopsRemaining = 0 => last.uop + 1 = UopsOf(last)
                           /\ Queued # << >> => last.uid < Queued[1].uid
        /\ getNumUopsRemaining > 0 =>
              /\ sent # << >> /\ gen.current_inst_.uid = last.uid
              /\ gen.num_uops_generated_ = last.uop + 1
              /\ gen.num_uops_to_generate_ = UopsOf(last)
        /\ \A k \in 1..Len(sent) - 1 : follows(sent[k], sent[k + 1])
        /\ \A k \in DOMAIN Queued : Queued[k].pid = done + k
        /\ \A k \in 1..Len(Queued) - 1 : Queued[k].uid < Queued[k + 1].uid
        /\ next_pid = done + Len(Queued) + 1

\* No instruction leaves Fetch before ICache has answered for its block: what is
\* still wanted of ICache is not in Decode and not behind it.
Wanted == UNION {a.insts : a \in ToSet(to_icache \o fetch_req_queue_ \o pending_miss_buffer_
                                       \o replay_buffer_)
                             \cup {e.access : e \in {x \in ev_respond_ : x.hit} \cup ev_replay_ready_}}
FetchedFirst == \A i \in ToSet(sent \o fetch_queue_ \o FlattenSeq(to_decode)) : i.uid \notin Wanted

\* Decode's fetch queue is full of instructions or of credits: no flush and no
\* session loses an entry, and Fetch never overfills it (scalar programs).
FetchCreditsConserved ==
    credits_inst_queue_ + Len(fetch_queue_) + Len(FlattenSeq(to_decode)) = FetchQueueSize

\* Every credit of ICache is Fetch's or belongs to one request that will be
\* answered; a flush, which cancels Fetch's port and leaves ICache alone, loses none.
ICacheCreditsConserved ==
    credits_icache_ + Len(to_icache) + Len(fetch_req_queue_) + Len(pending_miss_buffer_)
        + Len(replay_buffer_) + Cardinality({e \in ev_respond_ : e.hit})
        + Cardinality(ev_replay_ready_) = ICacheQueueSize

\* No credit between Fetch, Decode and ICache is lost or invented, and no count goes
\* below zero (TypeOK), whatever is flushed at whatever time.
CreditsConserved == TypeOK /\ FetchCreditsConserved /\ ICacheCreditsConserved

\* "Don't make requests to cachelines that are already pending", and make one for
\* each that is: a line has a fill under way if and only if a miss waits for it.
OneFillPerLine ==
    LET fills == miss_queue_ \o at_l2 \o l2cache_resp_queue_
    IN  /\ ToSet(fills) = {a.line : a \in ToSet(pending_miss_buffer_)}
        /\ Len(fills) = Cardinality(ToSet(fills))

\* "we block on vset and do not allow any other processing of instructions until
\* the vset is resolved": while one is out nothing younger leaves Decode, and Decode
\* waits only while the vset that ends the wait is out, unless a flush has taken that
\* vset away.  Then it waits for ever: handleFlush_ leaves waiting_on_vset_ as it is.
VsetBlocks == /\ waiting_on_vset_ = (vsets_out # {} \/ vset_dropped)
              /\ vsets_out # {} => vsets_out = {Last(sent)}

\* The configuration that the program has before its instruction pid: that of the
\* last vset, where x0 as source and destination leaves the length unchanged.
ProgramConfig ==
    LET before[p \in 1..Len(trace)] ==
          IF p = 1 THEN InitConfig
          ELSE LET v == trace[p - 1]
                   max == vlmax(v.cfg)
               IN  IF v.kind \notin {"vset", "vset_reg"} THEN before[p - 1]
                   ELSE [v.cfg EXCEPT !.vl = CASE v.x0 = "none"   -> @
                                               [] v.x0 = "source" -> max
                                               [] v.x0 = "both"   -> Min({before[p - 1].vl, max})]
    IN  before

\* "set LMUL, VSET, VL, VTA for any other vector instructions": every vector uop
\* has the configuration of the last vset before it in the program, whatever was
\* flushed, but for those between the branch of a flush and the first vset that it
\* undid.
ConfigExact == \A k \in DOMAIN sent :
    Kind(sent[k]) = "vector" /\ sent[k].pid \notin stale =>
        sent[k].cfg = ProgramConfig[sent[k].pid]

\* The whole trace gets through Decode, whatever misses and however often it is
\* flushed: no event that the front end needs is forgotten.  Only the flush of a vset
\* that Decode waits for stops it.
TraceDecoded == <>(vset_dropped \/ [](isDone /\ Queued = << >> /\ getNumUopsRemaining = 0))
=============================================================================
