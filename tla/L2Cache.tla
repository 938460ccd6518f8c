------------------------------ MODULE L2Cache ------------------------------
(***************************************************************************)
(* The L2 cache (mss/L2Cache.cpp).  Requests of ICache and DCache wait in  *)
(* their queues; create_Req arbitrates them, and what the BIU returned,    *)
(* into pipeline_req_queue_; issue_Req feeds the pipeline while every      *)
(* request in it could still miss.  A miss waits in miss_pending_buffer_,  *)
(* and the first on its line goes to the BIU.                              *)
(*                                                                         *)
(* A request is [line, src, dest, state].  What goes to the BIU and comes  *)
(* back is matched by its line alone, so it is its line.  Stage 0 of       *)
(* l2cache_pipeline_ is what was appended in this cycle, stage k + 1 is    *)
(* stage k of the code.  The replacement policy is any choice of a victim. *)
(***************************************************************************)
EXTENDS Integers, SequencesExt

CONSTANTS ReqQueueSize,       \* icache_req_queue_size, dcache_req_queue_size
          BIUReqQueueSize,    \* biu_req_queue_size of the L2 cache
          BIURespQueueSize,   \* biu_resp_queue_size
          RespQueueSize,      \* icache_resp_queue_size, dcache_resp_queue_size
          PipelineQueueSize,  \* pipeline_req_queue_size
          MissBufferSize,     \* miss_pending_buffer_size
          NumStages,          \* l2cache_latency
          L2Lines,            \* number of lines the cache holds
          L2AlwaysHit,        \* l2_always_hit
          NoReq

ASSUME L2Assumption ==
    /\ {ReqQueueSize, BIUReqQueueSize, BIURespQueueSize, RespQueueSize, PipelineQueueSize,
        MissBufferSize, L2Lines} \subseteq Nat \ {0}
    /\ NumStages \in Nat /\ NumStages >= 2
    /\ L2AlwaysHit \in BOOLEAN

VARIABLES req_queue,               \* icache_req_queue_, dcache_req_queue_
          resp_queue,              \* icache_resp_queue_, dcache_resp_queue_
          biu_req_queue_, biu_resp_queue_,
          pipeline_req_queue_, l2cache_pipeline_, inFlight_reqs_, miss_pending_buffer_,
          l2_cache_,               \* the lines it holds
          l2cache_biu_credits_, channel_select_,
          ev_handle_req,           \* channels whose handle_..._L2Cache_Req_/Resp_ is scheduled
          ev_handle_resp,          \* units whose handle_L2Cache_..._Resp_ is scheduled
          ev_handle_l2cache_biu_req_, ev_create_req_, ev_issue_req_ \* delays

l2Queues == <<req_queue, resp_queue, biu_req_queue_, biu_resp_queue_>>
l2Pipe   == <<pipeline_req_queue_, l2cache_pipeline_, inFlight_reqs_, miss_pending_buffer_,
              l2_cache_>>
l2Events == <<ev_handle_req, ev_handle_resp, ev_handle_l2cache_biu_req_, ev_create_req_,
              ev_issue_req_>>
l2Vars   == <<l2Queues, l2Pipe, l2cache_biu_credits_, channel_select_, l2Events>>

Units == {"ICACHE", "DCACHE"}

\* The first credits of the BIU arrive in the first cycle.
L2Init ==
    /\ req_queue = [u \in Units |-> << >>] /\ resp_queue = [u \in Units |-> << >>]
    /\ biu_req_queue_ = << >> /\ biu_resp_queue_ = << >>
    /\ pipeline_req_queue_ = << >> /\ miss_pending_buffer_ = << >>
    /\ l2cache_pipeline_ = [k \in 0..NumStages |-> NoReq] /\ inFlight_reqs_ = 0
    /\ l2_cache_ = {} /\ l2cache_biu_credits_ = 0 /\ channel_select_ = "ICACHE"
    /\ ev_handle_req = {} /\ ev_handle_resp = {}
    /\ ev_handle_l2cache_biu_req_ = {} /\ ev_create_req_ = {} /\ ev_issue_req_ = {}

-----------------------------------------------------------------------------
(* Messages to the L2 cache and the events they schedule.                  *)

\* getReqFromICache_, getReqFromDCache_.
getReqFrom(unit, line) ==
    /\ req_queue' = [req_queue EXCEPT ![unit] = Append(@, line)]
    /\ ev_handle_req' = ev_handle_req \cup {unit}
    /\ UNCHANGED <<resp_queue, biu_req_queue_, biu_resp_queue_, l2Pipe, l2cache_biu_credits_,
                   channel_select_, ev_handle_resp, ev_handle_l2cache_biu_req_, ev_create_req_,
                   ev_issue_req_>>

\* A response too many trips a sparta_assert (AssertionsHold of MemorySystem).
getRespFromBIU(line) ==
    /\ biu_resp_queue_' = Append(biu_resp_queue_, line)
    /\ ev_handle_req' = IF Len(biu_resp_queue_') <= BIURespQueueSize
                        THEN ev_handle_req \cup {"BIU"} ELSE ev_handle_req
    /\ UNCHANGED <<req_queue, resp_queue, biu_req_queue_, l2Pipe, l2cache_biu_credits_,
                   channel_select_, ev_handle_resp, ev_handle_l2cache_biu_req_, ev_create_req_,
                   ev_issue_req_>>

getCreditsFromBIU(n) ==
    /\ l2cache_biu_credits_' = l2cache_biu_credits_ + n
    /\ ev_issue_req_' = ev_issue_req_ \cup {1}
    /\ UNCHANGED <<l2Queues, l2Pipe, channel_select_, ev_handle_req, ev_handle_resp,
                   ev_handle_l2cache_biu_req_, ev_create_req_>>

QueueOf(channel) == IF channel = "BIU" THEN biu_resp_queue_ ELSE req_queue[channel]

\* handle_DCache_L2Cache_Req_, handle_ICache_L2Cache_Req_, handle_BIU_L2Cache_Resp_.
handleReq(channel) ==
    /\ channel \in ev_handle_req
    /\ ev_handle_req' = ev_handle_req \ {channel}
    /\ ev_create_req_' = ev_create_req_ \cup (IF QueueOf(channel) # << >> THEN {0} ELSE {})
    /\ UNCHANGED <<l2Queues, l2Pipe, l2cache_biu_credits_, channel_select_, ev_handle_resp,
                   ev_handle_l2cache_biu_req_, ev_issue_req_>>

-----------------------------------------------------------------------------
(* Messages of the L2 cache.                                               *)

SendsToBIU == l2cache_biu_credits_ > 0 /\ biu_req_queue_ # << >>

CreditsLeft == l2cache_biu_credits_ - 1

RetryBIU == {1}

handle_L2Cache_BIU_Req ==
    /\ 0 \in ev_handle_l2cache_biu_req_
    /\ IF SendsToBIU
       THEN /\ biu_req_queue_' = Tail(biu_req_queue_)
            /\ l2cache_biu_credits_' = CreditsLeft
            /\ ev_handle_l2cache_biu_req_' = ev_handle_l2cache_biu_req_ \ {0}
       ELSE /\ ev_handle_l2cache_biu_req_' = (ev_handle_l2cache_biu_req_ \ {0}) \cup RetryBIU
            /\ UNCHANGED <<biu_req_queue_, l2cache_biu_credits_>>
    /\ UNCHANGED <<req_queue, resp_queue, biu_resp_queue_, l2Pipe, channel_select_, ev_handle_req,
                   ev_handle_resp, ev_create_req_, ev_issue_req_>>

\* handle_L2Cache_DCache_Resp_, handle_L2Cache_ICache_Resp_.
handleResp(unit) ==
    /\ unit \in ev_handle_resp
    /\ ev_handle_resp' = ev_handle_resp \ {unit}
    /\ resp_queue' = [resp_queue EXCEPT ![unit] = Tail(@)]
    /\ UNCHANGED <<req_queue, biu_req_queue_, biu_resp_queue_, l2Pipe, l2cache_biu_credits_,
                   channel_select_, ev_handle_req, ev_handle_l2cache_biu_req_, ev_create_req_,
                   ev_issue_req_>>

-----------------------------------------------------------------------------
(* Into the pipeline.                                                      *)

OtherUnit(unit) == IF unit = "ICACHE" THEN "DCACHE" ELSE "ICACHE"

\* The BIU before the units, which take turns.
arbitrateL2CacheAccessReqs ==
    IF Len(pipeline_req_queue_) = PipelineQueueSize THEN "NO_ACCESS"
    ELSE IF biu_resp_queue_ # << >> THEN "BIU"
    ELSE IF req_queue[channel_select_] # << >> THEN channel_select_
    ELSE "NO_ACCESS"

TurnTaken == Len(pipeline_req_queue_) < PipelineQueueSize /\ biu_resp_queue_ = << >>

Request(unit, line) == [line |-> line, src |-> unit, dest |-> unit, state |-> "NO_ACCESS"]

\* Places of the misses on the line.
PendingOn(line) == {k \in DOMAIN miss_pending_buffer_ : miss_pending_buffer_[k].line = line}

\* Seeded fault: the answer goes to the other unit.
Returned_ToOther(req) ==
    [req EXCEPT !.dest = OtherUnit(req.src), !.src = "BIU", !.state = "RELOAD"]

\* "Set the original SrcUnit as the DestUnit".
Returned(req) == [req EXCEPT !.dest = req.src, !.src = "BIU", !.state = "RELOAD"]

\* Seeded fault: a response is dropped with the first miss on its line.
LastOnLine_First(pending) == TRUE

LastOnLine(pending) == Cardinality(pending) = 1

create_Req ==
    LET winner  == arbitrateL2CacheAccessReqs
        pending == PendingOn(Head(biu_resp_queue_))
        oldest  == Min(pending)
    IN  /\ 0 \in ev_create_req_
        /\ \E channel \in Units \cup {"BIU"} : QueueOf(channel) # << >>
        /\ channel_select_' = IF TurnTaken THEN OtherUnit(channel_select_) ELSE channel_select_
        /\ CASE winner = "BIU" /\ pending # {} ->
                  /\ pipeline_req_queue_' =
                        Append(pipeline_req_queue_, Returned(miss_pending_buffer_[oldest]))
                  /\ miss_pending_buffer_' = RemoveAt(miss_pending_buffer_, oldest)
                  /\ biu_resp_queue_' = IF LastOnLine(pending) THEN Tail(biu_resp_queue_)
                                        ELSE biu_resp_queue_
                  /\ UNCHANGED req_queue
             [] winner \in Units ->
                  /\ pipeline_req_queue_' =
                        Append(pipeline_req_queue_, Request(winner, Head(req_queue[winner])))
                  /\ req_queue' = [req_queue EXCEPT ![winner] = Tail(@)]
                  /\ UNCHANGED <<miss_pending_buffer_, biu_resp_queue_>>
             [] OTHER -> UNCHANGED <<pipeline_req_queue_, miss_pending_buffer_, biu_resp_queue_,
                                     req_queue>>
        /\ ev_issue_req_' = ev_issue_req_ \cup {1}
        /\ ev_create_req_' = (ev_create_req_ \ {0}) \cup
               (IF winner = "NO_ACCESS" \/ biu_resp_queue_' # << >>
                   \/ \E u \in Units : req_queue'[u] # << >> THEN {1} ELSE {})
        /\ UNCHANGED <<resp_queue, biu_req_queue_, l2cache_pipeline_, inFlight_reqs_, l2_cache_,
                       l2cache_biu_credits_, ev_handle_req, ev_handle_resp,
                       ev_handle_l2cache_biu_req_>>

\* Seeded fault: what is in the pipeline is not counted.
hasCreditsForPipelineIssue_NoFlight ==
    /\ Len(biu_req_queue_) < BIUReqQueueSize /\ Len(miss_pending_buffer_) < MissBufferSize

\* Every request in the pipeline and this one could miss.
hasCreditsForPipelineIssue ==
    /\ inFlight_reqs_ < BIUReqQueueSize - Len(biu_req_queue_)
    /\ inFlight_reqs_ < MissBufferSize - Len(miss_pending_buffer_)

issue_Req ==
    LET issues == hasCreditsForPipelineIssue /\ pipeline_req_queue_ # << >>
    IN  /\ 0 \in ev_issue_req_
        /\ IF issues
           THEN /\ l2cache_pipeline_' = [l2cache_pipeline_ EXCEPT ![0] = Head(pipeline_req_queue_)]
                /\ inFlight_reqs_' = inFlight_reqs_ + 1
                /\ pipeline_req_queue_' = Tail(pipeline_req_queue_)
           ELSE UNCHANGED <<l2cache_pipeline_, inFlight_reqs_, pipeline_req_queue_>>
        /\ ev_issue_req_' = (ev_issue_req_ \ {0}) \cup
               (IF pipeline_req_queue_' # << >> THEN {1} ELSE {})
        /\ UNCHANGED <<l2Queues, miss_pending_buffer_, l2_cache_, l2cache_biu_credits_,
                       channel_select_, ev_handle_req, ev_handle_resp, ev_handle_l2cache_biu_req_,
                       ev_create_req_>>

-----------------------------------------------------------------------------
(* Pipeline stages.                                                        *)

CACHE_LOOKUP == NumStages - 1
HIT_MISS_HANDLING == NumStages

cacheLookup(req) == L2AlwaysHit \/ req.line \in l2_cache_

\* reloadCache_: what the cache may hold after a reload of the line.
Reload(line) ==
    IF Cardinality(l2_cache_) < L2Lines THEN {l2_cache_ \cup {line}}
    ELSE {(l2_cache_ \ {victim}) \cup {line} : victim \in l2_cache_}

\* The request that a reload or a lookup leaves, and the lines.
handleCacheAccessRequest ==
    LET req == l2cache_pipeline_[CACHE_LOOKUP]
        hit == cacheLookup(req)
    IN  /\ l2cache_pipeline_' =
              IF req = NoReq THEN l2cache_pipeline_
              ELSE [l2cache_pipeline_ EXCEPT ![CACHE_LOOKUP].state =
                        IF hit \/ req.state = "RELOAD" THEN "HIT" ELSE "MISS"]
        /\ l2_cache_' \in IF req # NoReq /\ req.state = "RELOAD" /\ ~hit
                          THEN Reload(req.line) ELSE {l2_cache_}

\* Seeded fault: every miss goes to the BIU.
FirstOnLine_Always(line) == TRUE

\* "Send out the request to BIU for a cache MISS if it is not sent out already".
FirstOnLine(line) == PendingOn(line) = {}

handleCacheAccessResult ==
    LET req == l2cache_pipeline_[HIT_MISS_HANDLING]
    IN  CASE req # NoReq /\ req.state = "HIT" ->
               /\ inFlight_reqs_' = inFlight_reqs_ - 1
               /\ resp_queue' = [resp_queue EXCEPT ![req.dest] = Append(@, req.line)]
               /\ ev_handle_resp' = ev_handle_resp \cup {req.dest}
               /\ UNCHANGED <<miss_pending_buffer_, biu_req_queue_, ev_handle_l2cache_biu_req_>>
          [] req # NoReq /\ req.state = "MISS" ->
               /\ inFlight_reqs_' = inFlight_reqs_ - 1
               /\ miss_pending_buffer_' = Append(miss_pending_buffer_, [req EXCEPT !.dest = "BIU"])
               /\ IF FirstOnLine(req.line)
                  THEN /\ biu_req_queue_' = Append(biu_req_queue_, req.line)
                       /\ ev_handle_l2cache_biu_req_' = ev_handle_l2cache_biu_req_ \cup {0}
                  ELSE UNCHANGED <<biu_req_queue_, ev_handle_l2cache_biu_req_>>
               /\ UNCHANGED <<resp_queue, ev_handle_resp>>
          [] OTHER -> UNCHANGED <<inFlight_reqs_, resp_queue, ev_handle_resp, miss_pending_buffer_,
                                  biu_req_queue_, ev_handle_l2cache_biu_req_>>

\* Both handlers of a cycle; neither touches what the other reads.
PipelineStages ==
    /\ handleCacheAccessRequest /\ handleCacheAccessResult
    /\ UNCHANGED <<req_queue, biu_resp_queue_, pipeline_req_queue_, l2cache_biu_credits_,
                   channel_select_, ev_handle_req, ev_create_req_, ev_issue_req_>>

\* The pipeline in the next cycle.
Shifted == [k \in 0..NumStages |-> IF k = 0 THEN NoReq ELSE l2cache_pipeline_[k - 1]]
=============================================================================
