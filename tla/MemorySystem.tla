---------------------------- MODULE MemorySystem ----------------------------
(***************************************************************************)
(* L2 cache, BIU and MSS as the topology wires them, with ICache and       *)
(* DCache by what their code does: ICache asks for a line it has not asked *)
(* for and only with a credit of the L2 cache; DCache has one request out  *)
(* and does not look at its credits.                                       *)
(*                                                                         *)
(* A cycle is: "port", messages of earlier cycles; "tick", events and      *)
(* pipeline stages; "post", the PostTick events create_Req_ and            *)
(* issue_Req_, in either order.                                            *)
(***************************************************************************)
EXTENDS L2Cache, BIU

CONSTANTS Lines,          \* the lines that are asked for
          ICacheMisses    \* how many lines ICache waits for at most

\* Requests of the L2 cache.
ReqType == [line : Lines, src : Units \cup {"BIU"}, dest : Units \cup {"BIU"},
            state : {"NO_ACCESS", "HIT", "MISS", "RELOAD"}]

ASSUME MemorySystemAssumption == ICacheMisses \in Nat \ {0} /\ NoReq \notin ReqType

VARIABLES phase,
          waiting,        \* lines each unit waits for
          stages_due,     \* the stage handlers of this cycle have not run
          from_l2,        \* answers on their way: sequence of [unit, line]
          biu_msgs,       \* L2 cache to BIU: sequence of lines
          biu_resps,      \* BIU to L2 cache: set of [line, due]
          biu_credits,    \* credits on their way to the L2 cache
          icache_credits, \* l2cache_credits_ of ICache
          credit_msgs     \* credits on their way to ICache: set of delays

envVars  == <<waiting, from_l2, icache_credits, credit_msgs>>
linkVars == <<biu_msgs, biu_resps, biu_credits>>
vars == <<phase, stages_due, l2Vars, biuVars, mssVars, envVars, linkVars>>

-----------------------------------------------------------------------------
(* ICache and DCache.                                                      *)

\* A request that was sent in the last cycle arrives.
ICacheAsks ==
    /\ phase = "port" /\ icache_credits > 0 /\ Cardinality(waiting["ICACHE"]) < ICacheMisses
    /\ "ICACHE" \notin ev_handle_req
    /\ \E line \in Lines \ waiting["ICACHE"] :
         /\ getReqFrom("ICACHE", line)
         /\ waiting' = [waiting EXCEPT !["ICACHE"] = @ \cup {line}]
    /\ icache_credits' = icache_credits - 1
    /\ UNCHANGED <<phase, stages_due, biuVars, mssVars, from_l2, credit_msgs, linkVars>>

DCacheAsks ==
    /\ phase = "port" /\ waiting["DCACHE"] = {}
    /\ \E line \in Lines :
         /\ getReqFrom("DCACHE", line)
         /\ waiting' = [waiting EXCEPT !["DCACHE"] = {line}]
    /\ UNCHANGED <<phase, stages_due, biuVars, mssVars, from_l2, icache_credits, credit_msgs,
                   linkVars>>

UnitAnswered ==
    /\ phase = "port" /\ from_l2 # << >>
    /\ LET m == Head(from_l2) IN waiting' = [waiting EXCEPT ![m.unit] = @ \ {m.line}]
    /\ from_l2' = Tail(from_l2)
    /\ UNCHANGED <<phase, stages_due, l2Vars, biuVars, mssVars, icache_credits, credit_msgs,
                   linkVars>>

ICacheTakesCredit ==
    /\ phase = "port" /\ 0 \in credit_msgs
    /\ icache_credits' = icache_credits + 1
    /\ credit_msgs' = credit_msgs \ {0}
    /\ UNCHANGED <<phase, stages_due, l2Vars, biuVars, mssVars, waiting, from_l2, linkVars>>

-----------------------------------------------------------------------------
(* Messages of earlier cycles.                                             *)

DeliverBIUResp ==
    /\ phase = "port"
    /\ \E r \in biu_resps : /\ r.due = 0
                            /\ getRespFromBIU(r.line)
                            /\ biu_resps' = biu_resps \ {r}
    /\ UNCHANGED <<phase, stages_due, biuVars, mssVars, envVars, biu_msgs, biu_credits>>

DeliverBIUCredits ==
    /\ phase = "port" /\ biu_credits > 0
    /\ getCreditsFromBIU(biu_credits)
    /\ biu_credits' = 0
    /\ UNCHANGED <<phase, stages_due, biuVars, mssVars, envVars, biu_msgs, biu_resps>>

DeliverToBIU ==
    /\ phase = "port" /\ biu_msgs # << >>
    /\ receiveReqFromL2Cache(Head(biu_msgs))
    /\ biu_msgs' = Tail(biu_msgs)
    /\ UNCHANGED <<phase, stages_due, l2Vars, envVars, biu_resps, biu_credits>>

DeliverMSS ==
    /\ phase = "port"
    /\ getAckFromMSS \/ getReqFromBIU
    /\ UNCHANGED <<phase, stages_due, l2Vars, envVars, linkVars>>

-----------------------------------------------------------------------------
(* Events of the cycle.                                                    *)

L2Stages ==
    /\ phase = "tick" /\ stages_due
    /\ PipelineStages
    /\ stages_due' = FALSE
    /\ UNCHANGED <<phase, biuVars, mssVars, envVars, linkVars>>

L2HandlesReq ==
    /\ phase = "tick"
    /\ \E channel \in Units \cup {"BIU"} : handleReq(channel)
    /\ UNCHANGED <<phase, stages_due, biuVars, mssVars, envVars, linkVars>>

L2SendsToBIU ==
    /\ phase = "tick"
    /\ handle_L2Cache_BIU_Req
    /\ biu_msgs' = IF SendsToBIU THEN Append(biu_msgs, Head(biu_req_queue_)) ELSE biu_msgs
    /\ UNCHANGED <<phase, stages_due, biuVars, mssVars, envVars, biu_resps, biu_credits>>

L2Responds ==
    /\ phase = "tick"
    /\ \E u \in Units :
         /\ handleResp(u)
         /\ from_l2' = Append(from_l2, [unit |-> u, line |-> Head(resp_queue[u])])
    /\ UNCHANGED <<phase, stages_due, biuVars, mssVars, waiting, icache_credits, credit_msgs,
                   linkVars>>

BIUSends ==
    /\ phase = "tick"
    /\ handleBIUReq
    /\ UNCHANGED <<phase, stages_due, l2Vars, envVars, linkVars>>

BIUResponds ==
    /\ phase = "tick"
    /\ handleMSSAck
    /\ biu_resps' = biu_resps \cup {[line |-> Answered, due |-> BIULatency + 1]}
    /\ biu_credits' = biu_credits + 1
    /\ UNCHANGED <<phase, stages_due, l2Vars, envVars, biu_msgs>>

MSSResponds ==
    /\ phase = "tick"
    /\ handle_MSS_req
    /\ UNCHANGED <<phase, stages_due, l2Vars, envVars, linkVars>>

\* A request that leaves ICache's queue returns its credit.
L2Creates ==
    /\ phase = "post"
    /\ create_Req
    /\ credit_msgs' = IF req_queue'["ICACHE"] # req_queue["ICACHE"] THEN credit_msgs \cup {2}
                      ELSE credit_msgs
    /\ UNCHANGED <<phase, stages_due, biuVars, mssVars, waiting, from_l2, icache_credits,
                   linkVars>>

L2Issues ==
    /\ phase = "post"
    /\ issue_Req
    /\ UNCHANGED <<phase, stages_due, biuVars, mssVars, envVars, linkVars>>

-----------------------------------------------------------------------------
NextOf == [port |-> "tick", tick |-> "post", post |-> "port"]

PhaseDone ==
    /\ phase = "port" => /\ from_l2 = << >> /\ biu_msgs = << >>
                         /\ biu_credits = 0 /\ \A r \in biu_resps : r.due > 0
                         /\ 0 \notin UNION {credit_msgs, mss_req, mss_ack}
    /\ phase = "tick" => /\ ~stages_due /\ ev_handle_req = {} /\ ev_handle_resp = {}
                         /\ 0 \notin ev_handle_l2cache_biu_req_ \cup ev_handle_mss_req_
                         /\ ~ev_handle_biu_req_ /\ ~ev_handle_mss_ack_
    /\ phase = "post" => 0 \notin ev_create_req_ \cup ev_issue_req_

Aged(ev) == {d - 1 : d \in ev}

\* At the end of the cycle the pipeline moves and every delay shrinks.
nextPhase ==
    /\ PhaseDone
    /\ phase' = NextOf[phase]
    /\ IF phase = "post"
       THEN /\ l2cache_pipeline_' = Shifted /\ stages_due' = TRUE
            /\ ev_handle_l2cache_biu_req_' = Aged(ev_handle_l2cache_biu_req_)
            /\ ev_create_req_' = Aged(ev_create_req_) /\ ev_issue_req_' = Aged(ev_issue_req_)
            /\ ev_handle_mss_req_' = Aged(ev_handle_mss_req_)
            /\ mss_req' = Aged(mss_req) /\ mss_ack' = Aged(mss_ack)
            /\ biu_resps' = {[r EXCEPT !.due = @ - 1] : r \in biu_resps}
            /\ credit_msgs' = Aged(credit_msgs)
       ELSE UNCHANGED <<l2cache_pipeline_, stages_due, ev_handle_l2cache_biu_req_, ev_create_req_,
                        ev_issue_req_, ev_handle_mss_req_, mss_req, mss_ack, biu_resps, credit_msgs>>
    /\ UNCHANGED <<l2Queues, pipeline_req_queue_, inFlight_reqs_, miss_pending_buffer_, l2_cache_,
                   l2cache_biu_credits_, channel_select_, ev_handle_req, ev_handle_resp, biuVars,
                   mss_busy_, waiting, from_l2, icache_credits, biu_msgs, biu_credits>>

\* sendInitialCredits_ of the L2 cache and the BIU.
Init ==
    /\ phase = "port" /\ stages_due = TRUE
    /\ L2Init /\ BIUInit
    /\ waiting = [u \in Units |-> {}] /\ from_l2 = << >>
    /\ biu_msgs = << >> /\ biu_resps = {} /\ biu_credits = BIUQueueSize
    /\ icache_credits = ReqQueueSize /\ credit_msgs = {}

Handlers == \/ UnitAnswered \/ ICacheTakesCredit \/ DeliverBIUResp
            \/ DeliverBIUCredits \/ DeliverToBIU \/ DeliverMSS \/ L2Stages \/ L2HandlesReq
            \/ L2SendsToBIU \/ L2Responds \/ BIUSends \/ BIUResponds \/ MSSResponds
            \/ L2Creates \/ L2Issues

Next == Handlers \/ ICacheAsks \/ DCacheAsks \/ nextPhase

Spec == Init /\ [][Next]_vars

\* Sparta runs every handler and the clock never stops.
FairSpec == Spec /\ WF_vars(Handlers) /\ WF_vars(nextPhase)

-----------------------------------------------------------------------------
(* Properties.                                                             *)

\* Every variable has its type.
TypeOK ==
    /\ phase \in {"port", "tick", "post"} /\ stages_due \in BOOLEAN
    /\ req_queue \in [Units -> Seq(Lines)] /\ resp_queue \in [Units -> Seq(Lines)]
    /\ biu_req_queue_ \in Seq(Lines) /\ biu_resp_queue_ \in Seq(Lines)
    /\ pipeline_req_queue_ \in Seq(ReqType) /\ miss_pending_buffer_ \in Seq(ReqType)
    /\ l2cache_pipeline_ \in [0..NumStages -> ReqType \cup {NoReq}]
    /\ inFlight_reqs_ \in Nat /\ l2cache_biu_credits_ \in Nat
    /\ l2_cache_ \subseteq Lines /\ Cardinality(l2_cache_) <= L2Lines
    /\ channel_select_ \in Units
    /\ ev_handle_req \subseteq Units \cup {"BIU"} /\ ev_handle_resp \subseteq Units
    /\ ev_handle_l2cache_biu_req_ \subseteq {0, 1} /\ ev_create_req_ \subseteq {0, 1}
    /\ ev_issue_req_ \subseteq {0, 1}
    /\ biu_queue \in Seq(Lines) /\ biu_busy_ \in BOOLEAN
    /\ ev_handle_biu_req_ \in BOOLEAN /\ ev_handle_mss_ack_ \in BOOLEAN
    /\ mss_busy_ \in BOOLEAN /\ ev_handle_mss_req_ \subseteq Nat
    /\ mss_req \subseteq Nat /\ mss_ack \subseteq Nat
    /\ biu_msgs \in Seq(Lines) /\ biu_resps \subseteq [line : Lines, due : Nat]
    /\ biu_credits \in Nat
    /\ waiting \in [Units -> SUBSET Lines] /\ from_l2 \in Seq([unit : Units, line : Lines])
    /\ icache_credits \in Nat /\ credit_msgs \subseteq Nat

\* The unit that the answer to a request is for.
Owner(req) == IF req.src = "BIU" THEN req.dest ELSE req.src

\* The stages that hold a request: the last one has passed its own on when its handler
\* has run.
InPipeline == {k \in 0..NumStages : /\ l2cache_pipeline_[k] # NoReq
                                    /\ k = HIT_MISS_HANDLING => stages_due}

\* The requests of a unit for a line.
Own == [u \in Units |-> [line \in Lines |-> {r \in ReqType : Owner(r) = u /\ r.line = line}]]

\* How many places of a queue, or stages, hold something of a set.
Count(s, T)   == Cardinality({k \in DOMAIN s : s[k] \in T})
CountInPipe(T) == Cardinality({k \in InPipeline : l2cache_pipeline_[k] \in T})

\* How often the request of a unit for a line is somewhere in the system.
Held(u, line) ==
    Count(req_queue[u], {line}) + Count(pipeline_req_queue_, Own[u][line])
    + CountInPipe(Own[u][line]) + Count(miss_pending_buffer_, Own[u][line])
    + Count(resp_queue[u], {line}) + Count(from_l2, {[unit |-> u, line |-> line]})

\* Every line that a unit waits for is in exactly one place between its request
\* and its answer, under that unit's name, and nothing else is anywhere: no queue,
\* rewriting of source and destination or merging of misses loses a request,
\* answers it twice or sends the answer to the other unit.
RequestsTracked ==
    \A u \in Units, line \in Lines : Held(u, line) = IF line \in waiting[u] THEN 1 ELSE 0

\* How often a line is on its way to memory and back.
OnTheWay(line) ==
    Count(biu_req_queue_, {line}) + Count(biu_msgs, {line}) + Count(biu_queue, {line})
    + Cardinality({r \in biu_resps : r.line = line}) + Count(biu_resp_queue_, {line})

\* A line is on its way to memory and back exactly while a miss waits for it, and
\* only once.  (A response that finds no miss would stay at the head of
\* biu_resp_queue_ and block create_Req_ for ever.)
OneBIURequestPerLine ==
    \A line \in Lines : OnTheWay(line) = IF FirstOnLine(line) THEN 0 ELSE 1

\* What was let into the pipeline has its entry in miss_pending_buffer_ and biu_req_queue_.
PipelineBounded ==
    /\ inFlight_reqs_ = Cardinality(InPipeline)
    /\ inFlight_reqs_ + Len(miss_pending_buffer_) <= MissBufferSize
    /\ inFlight_reqs_ + Len(biu_req_queue_) <= BIUReqQueueSize

\* The assertions of the L2 cache that a queue has room or something in it, and of
\* the MSS that it is not busy, hold, and the subtraction of unsigned sizes in
\* hasCreditsForPipelineIssue_ never wraps.
AssertionsHold ==
    /\ PipelineBounded
    /\ \A u \in Units : Len(req_queue[u]) <= ReqQueueSize /\ Len(resp_queue[u]) <= RespQueueSize
    /\ Len(biu_resp_queue_) <= BIURespQueueSize
    /\ phase = "post" /\ 0 \in ev_create_req_ =>
          \E channel \in Units \cup {"BIU"} : QueueOf(channel) # << >>
    /\ phase = "port" /\ 0 \in mss_req => ~mss_busy_

\* Entries of the BIU's queue and of ICache's queue are occupied or a credit, once.
CreditsConserved ==
    /\ l2cache_biu_credits_ + biu_credits + Len(biu_msgs) + Len(biu_queue) = BIUQueueSize
    /\ icache_credits + Cardinality(credit_msgs) + Len(req_queue["ICACHE"]) = ReqQueueSize

\* A request is never lost, doubled or misdirected, on its way through the L2 cache
\* or on the bus.
RequestsExact == RequestsTracked /\ OneBIURequestPerLine

\* No queue or buffer overflows and no count goes below zero: for the queues of
\* requests this follows from the credits, for the responses of the BIU, whose credit
\* comes back before they are taken, from the number of lines that are missed.
QueuesBounded == TypeOK /\ AssertionsHold /\ CreditsConserved

\* "Loop on biu_req_queue_ if the requests are present" (handle_L2Cache_BIU_Req_)
\* loops only when nothing was sent: of two misses in one cycle's events the second
\* may be left in the queue without an event, until another miss schedules one.
Starved == biu_req_queue_ # << >> /\ ev_handle_l2cache_biu_req_ = {}

\* A line that stands for all: lines are only compared for equality.
Watched == CHOOSE line \in Lines : TRUE

\* Every request is answered, whatever else is asked for, or the L2 cache ends up
\* starved: being left without an event in biu_req_queue_ is the only way for a
\* request to wait for ever, and a starved cache that is asked on recovers.
EveryRequestAnswered ==
    <>[]Starved \/ \A u \in Units : Watched \in waiting[u] ~> Watched \notin waiting[u]

OwedTo(u) ==
    LET reqs == ToSet(pipeline_req_queue_) \cup ToSet(miss_pending_buffer_)
                \cup {l2cache_pipeline_[k] : k \in InPipeline}
    IN  ToSet(req_queue[u]) \cup ToSet(resp_queue[u])
        \cup {m.line : m \in {x \in ToSet(from_l2) : x.unit = u}}
        \cup {r.line : r \in {x \in reqs : Owner(x) = u}}

Service == INSTANCE L2Service WITH Requesters <- Units, owed <- [u \in Units |-> OwedTo(u)]

\* The memory system implements the contract by which FrontEnd uses it: a line is
\* owed to a unit from its request to its answer and answers are for lines owed.
ImplementsService == Service!Spec

-----------------------------------------------------------------------------
(* What RequestsExact, QueuesBounded and ImplementsService need to be      *)
(* inductive.                                                              *)

\* A delayed message or event waits for its phase.
PhaseInv ==
    /\ phase = "port" => stages_due
    /\ phase = "post" => ~stages_due /\ 0 \notin ev_handle_l2cache_biu_req_ \cup ev_handle_mss_req_
    /\ phase # "port" => /\ 0 \notin credit_msgs \cup mss_req \cup mss_ack
                         /\ \A r \in biu_resps : r.due > 0
    /\ phase # "tick" \/ stages_due => ev_handle_resp = {}
    /\ IsFiniteSet(biu_resps) /\ IsFiniteSet(l2_cache_)

\* create_Req_ and issue_Req_ run at most once in a cycle, create_Req_ with something to do;
\* a response waits for its event.
EventInv ==
    /\ 1 \in ev_create_req_ \/ 2 \in credit_msgs => phase = "post" /\ 0 \notin ev_create_req_
    /\ credit_msgs \subseteq 0..2
    /\ l2cache_pipeline_[0] # NoReq => phase = "post" /\ 0 \notin ev_issue_req_
    /\ ev_create_req_ # {} => \E channel \in Units \cup {"BIU"} : QueueOf(channel) # << >>
    /\ \A u \in Units : Len(resp_queue[u]) = IF u \in ev_handle_resp THEN 1 ELSE 0
    /\ Len(req_queue["DCACHE"]) <= 1

\* A request on its way to the lookup, behind it, and waiting for the BIU.
Fresh  == {r \in ReqType : /\ r.dest \in Units
                           /\ \/ r.src = r.dest /\ r.state = "NO_ACCESS"
                              \/ r.src = "BIU" /\ r.state = "RELOAD"}
Looked == {r \in ReqType : /\ r.dest \in Units
                           /\ \/ r.src = r.dest /\ r.state \in {"HIT", "MISS"}
                              \/ r.src = "BIU" /\ r.state = "HIT"}
Missed == {r \in ReqType : r.src \in Units /\ r.dest = "BIU"}

ReqInv ==
    /\ pipeline_req_queue_ \in Seq(Fresh) /\ miss_pending_buffer_ \in Seq(Missed)
    /\ \A k \in InPipeline :
          l2cache_pipeline_[k] \in IF k = HIT_MISS_HANDLING \/ (k = CACHE_LOOKUP /\ ~stages_due)
                                   THEN Looked ELSE Fresh

\* The BIU has one request at the MSS or none, the head of its queue: on its way, being
\* handled, on its way back or answered.
BIUInv ==
    LET onWay  == \E d \in mss_req : mss_req = {d}
        inMSS  == mss_busy_ /\ \E d \in ev_handle_mss_req_ : ev_handle_mss_req_ = {d}
        onBack == \E d \in mss_ack : mss_ack = {d}
        none   == mss_req = {} /\ mss_ack = {} /\ ~mss_busy_ /\ ev_handle_mss_req_ = {}
    IN  /\ ev_handle_biu_req_ => ~biu_busy_ /\ biu_queue # << >>
        /\ biu_busy_ => biu_queue # << >>
        /\ ev_handle_mss_ack_ => biu_busy_ /\ none
        /\ ~biu_busy_ => none
        /\ biu_busy_ /\ ~ev_handle_mss_ack_ =>
              \/ onWay /\ mss_ack = {} /\ ~mss_busy_ /\ ev_handle_mss_req_ = {}
              \/ inMSS /\ mss_req = {} /\ mss_ack = {}
              \/ onBack /\ mss_req = {} /\ ~mss_busy_ /\ ev_handle_mss_req_ = {}

IInv == /\ TypeOK /\ PipelineBounded /\ CreditsConserved
        /\ RequestsTracked /\ OneBIURequestPerLine
        /\ PhaseInv /\ EventInv /\ ReqInv /\ BIUInv
=============================================================================
