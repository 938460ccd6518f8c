------------------------------- MODULE ICache -------------------------------
(***************************************************************************)
(* ICache (core/fetch/ICache.cpp): requests of Fetch are looked up in      *)
(* order; a miss waits in pending_miss_buffer_ until the L2 cache has      *)
(* filled its line and is then replayed.  A request for a line that is     *)
(* already wanted does not go to the L2 cache again.  Every request holds  *)
(* a credit of Fetch until its hit or its replay is sent.                  *)
(*                                                                         *)
(* A request is [line, insts].  The replacement policy is any choice of a  *)
(* victim.                                                                 *)
(***************************************************************************)
EXTENDS Places, SequencesExt

CONSTANTS ICacheQueueSize,  \* fetch_queue_size_ of ICache
          CacheLatency,     \* cache_latency
          CacheLines,       \* number of lines the cache holds
          L1AlwaysHit,      \* l1_always_hit
          L2Credits         \* icache_req_queue_size of the L2 cache

ASSUME ICacheAssumption ==
    /\ {ICacheQueueSize, CacheLatency, CacheLines, L2Credits} \subseteq Nat \ {0}
    /\ L1AlwaysHit \in BOOLEAN

VARIABLES fetch_req_queue_, l2cache_resp_queue_, replay_buffer_, miss_queue_,
          pending_miss_buffer_,
          l1_cache_,                    \* the lines it holds
          l2cache_credits_,
          ev_arbitrate_, ev_l2cache_request_, \* delays of the scheduled events
          ev_respond_, ev_replay_ready_,      \* sets of [access, hit, due]
          at_l2                         \* lines requested from the L2 cache and not filled

icacheQueues == <<fetch_req_queue_, l2cache_resp_queue_, replay_buffer_, pending_miss_buffer_,
                  l1_cache_>>
icacheEvents == <<ev_respond_, ev_replay_ready_>>
icacheVars   == <<icacheQueues, miss_queue_, l2cache_credits_, at_l2, ev_arbitrate_,
                  ev_l2cache_request_, icacheEvents>>

ICacheInit ==
    /\ fetch_req_queue_ = << >> /\ l2cache_resp_queue_ = << >> /\ replay_buffer_ = << >>
    /\ miss_queue_ = << >> /\ pending_miss_buffer_ = << >> /\ at_l2 = << >>
    /\ l1_cache_ = {}
    /\ l2cache_credits_ = L2Credits
    /\ ev_arbitrate_ = {} /\ ev_l2cache_request_ = {}
    /\ ev_respond_ = {} /\ ev_replay_ready_ = {}

-----------------------------------------------------------------------------
(* Messages to ICache.                                                     *)

getRequestFromFetch(access) ==
    /\ fetch_req_queue_' = Append(fetch_req_queue_, access)
    /\ ev_arbitrate_' = ev_arbitrate_ \cup {0}
    /\ UNCHANGED <<l2cache_resp_queue_, replay_buffer_, pending_miss_buffer_, l1_cache_,
                   miss_queue_, l2cache_credits_, at_l2, ev_l2cache_request_, icacheEvents>>

\* Responses other than hits are dropped; at_l2 counts the hits to come.
getRespFromL2Cache(k) ==
    /\ l2cache_resp_queue_' = Append(l2cache_resp_queue_, at_l2[k])
    /\ at_l2' = RemoveAt(at_l2, k)
    /\ ev_arbitrate_' = ev_arbitrate_ \cup {0}
    /\ UNCHANGED <<fetch_req_queue_, replay_buffer_, pending_miss_buffer_, l1_cache_, miss_queue_,
                   l2cache_credits_, ev_l2cache_request_, icacheEvents>>

\* Seeded fault: the waiting misses are not looked at.
WakeOnL2Credits_No == {}

WakeOnL2Credits == IF miss_queue_ # << >> THEN {0} ELSE {}

getCreditsFromL2Cache(n) ==
    /\ l2cache_credits_' = l2cache_credits_ + n
    /\ ev_l2cache_request_' = ev_l2cache_request_ \cup WakeOnL2Credits
    /\ UNCHANGED <<icacheQueues, miss_queue_, at_l2, ev_arbitrate_, icacheEvents>>

-----------------------------------------------------------------------------
(* Misses.                                                                 *)

\* Send the front of the queue misses, whose event is one of wakes by now.
makeL2CacheRequest(misses, wakes) ==
    IF l2cache_credits_ = 0 \/ misses = << >>
    THEN /\ miss_queue_' = misses
         /\ ev_l2cache_request_' = wakes
         /\ UNCHANGED <<l2cache_credits_, at_l2>>
    ELSE /\ miss_queue_' = Tail(misses)
         /\ at_l2' = Append(at_l2, Head(misses))
         /\ l2cache_credits_' = l2cache_credits_ - 1
         /\ ev_l2cache_request_' = wakes \cup
                (IF l2cache_credits_' > 0 /\ miss_queue_' # << >> THEN {1} ELSE {})

requestLine ==
    /\ 0 \in ev_l2cache_request_
    /\ makeL2CacheRequest(miss_queue_, ev_l2cache_request_ \ {0})
    /\ UNCHANGED <<icacheQueues, ev_arbitrate_, icacheEvents>>

\* The accesses to the line, and the others.
SameLine(line, s) == ElementsAt(s, {k \in DOMAIN s : s[k].line = line})
OtherLine(line, s) == ElementsAt(s, {k \in DOMAIN s : s[k].line # line})

\* Seeded fault: every miss asks for its line.
NewMiss_Always(access, pending) == TRUE

\* No request to a line that is pending.
NewMiss(access, pending) == SameLine(access.line, pending) = << >>

\* reloadCache_ moves every miss on the line to the replay buffer.
ToReplay(line) == SameLine(line, pending_miss_buffer_)

\* What the cache may hold after a reload of the line.
Reloaded(line) ==
    IF line \in l1_cache_ THEN {l1_cache_}
    ELSE IF Cardinality(l1_cache_) < CacheLines THEN {l1_cache_ \cup {line}}
    ELSE {(l1_cache_ \ {victim}) \cup {line} : victim \in l1_cache_}

-----------------------------------------------------------------------------
\* A line fill, and a replay or else a lookup.
doArbitration ==
    LET fill     == l2cache_resp_queue_ # << >>
        line     == Head(l2cache_resp_queue_)
        resps    == IF fill THEN Tail(l2cache_resp_queue_) ELSE << >>
        replays  == IF fill THEN replay_buffer_ \o ToReplay(line) ELSE replay_buffer_
        pending  == IF fill THEN OtherLine(line, pending_miss_buffer_) ELSE pending_miss_buffer_
        access   == Head(fetch_req_queue_)
        hit      == L1AlwaysHit \/ access.line \in l1_cache_'
    IN  /\ 0 \in ev_arbitrate_
        /\ l1_cache_' \in (IF fill THEN Reloaded(line) ELSE {l1_cache_})
        /\ l2cache_resp_queue_' = resps
        /\ \/ /\ replays # << >>
              /\ ev_replay_ready_' = ev_replay_ready_ \cup
                     {[access |-> Head(replays), hit |-> TRUE, due |-> CacheLatency]}
              /\ replay_buffer_' = Tail(replays)
              /\ pending_miss_buffer_' = pending
              /\ UNCHANGED <<fetch_req_queue_, ev_respond_, miss_queue_, l2cache_credits_, at_l2,
                             ev_l2cache_request_>>
           \/ /\ replays = << >> /\ fetch_req_queue_ # << >>
              /\ ev_respond_' = ev_respond_ \cup
                     {[access |-> access, hit |-> hit, due |-> CacheLatency]}
              /\ fetch_req_queue_' = Tail(fetch_req_queue_)
              /\ pending_miss_buffer_' = IF hit THEN pending ELSE Append(pending, access)
              /\ IF ~hit /\ NewMiss(access, pending)
                 THEN makeL2CacheRequest(Append(miss_queue_, access.line), ev_l2cache_request_)
                 ELSE UNCHANGED <<miss_queue_, l2cache_credits_, at_l2, ev_l2cache_request_>>
              /\ replay_buffer_' = << >>
              /\ UNCHANGED ev_replay_ready_
           \/ /\ replays = << >> /\ fetch_req_queue_ = << >>
              /\ replay_buffer_' = << >> /\ pending_miss_buffer_' = pending
              /\ UNCHANGED <<fetch_req_queue_, icacheEvents, miss_queue_, l2cache_credits_, at_l2,
                             ev_l2cache_request_>>
        /\ ev_arbitrate_' = (ev_arbitrate_ \ {0}) \cup
               (IF fill \/ resps # << >> \/ replay_buffer_' # << >> \/ fetch_req_queue_' # << >>
                THEN {1} ELSE {})

-----------------------------------------------------------------------------
(* Answers: the response and the credit it returns to Fetch.               *)

DueResponses == {e \in ev_respond_ \cup ev_replay_ready_ : e.due = 0}

\* Seeded fault: a miss returns the credit that its replay returns again.
CreditOf_Miss(e) == 1

CreditOf(e) == IF e.hit THEN 1 ELSE 0

answered(e) ==
    /\ ev_respond_' = ev_respond_ \ {e}
    /\ ev_replay_ready_' = ev_replay_ready_ \ {e}
    /\ UNCHANGED <<icacheQueues, miss_queue_, l2cache_credits_, at_l2, ev_arbitrate_,
                   ev_l2cache_request_>>

\* One cycle later.
AgedEvents(evs) == {[e EXCEPT !.due = @ - 1] : e \in evs}
=============================================================================
