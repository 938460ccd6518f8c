------------------------------- MODULE Fetch -------------------------------
(***************************************************************************)
(* Fetch (core/fetch/Fetch.cpp): reads the trace into ibuf_, asks ICache   *)
(* for a block of it at a time, holds the instructions in fetch_buffer_    *)
(* until ICache has answered and sends them to Decode within its credits.  *)
(***************************************************************************)
EXTENDS InstGenerator, FiniteSetsExt

CONSTANTS NumToFetch,      \* num_to_fetch
          IBufCapacity,    \* ibuf_capacity_: half of block_width
          FetchBufferSize  \* fetch_buffer_size, in blocks

ASSUME FetchAssumption ==
    {NumToFetch, IBufCapacity, FetchBufferSize} \subseteq Nat \ {0}

VARIABLES ibuf_,                    \* instructions read from the trace
          fetch_buffer_,            \* entries [inst, last, fetched]
          fetch_buffer_occupancy_,
          credits_icache_, credits_inst_queue_,
          ev_fetch_insts, ev_send_insts,  \* delays of the scheduled events
          to_icache, to_decode      \* out ports: messages of the next cycle

fetchState == <<ibuf_, fetch_buffer_, fetch_buffer_occupancy_>>
fetchVars  == <<instGeneratorVars, fetchState, credits_icache_, credits_inst_queue_,
                ev_fetch_insts, ev_send_insts, to_icache, to_decode>>

FetchInit(icache, queue) ==
    /\ InstGeneratorInit
    /\ ibuf_ = << >> /\ fetch_buffer_ = << >> /\ fetch_buffer_occupancy_ = 0
    /\ credits_icache_ = icache /\ credits_inst_queue_ = queue
    /\ ev_fetch_insts = {0, 1} /\ ev_send_insts = {0}
    /\ to_icache = << >> /\ to_decode = << >>

isCoF(i)         == trace[i.pid].cof
isTakenBranch(i) == trace[i.pid].taken

-----------------------------------------------------------------------------
different_blocks(i, j) ==
    trace[i.pid].block # trace[j.pid].block \/ isTakenBranch(i) \/ isCoF(j)

\* How many instructions at the front of buf go to the same block.
BlockEnd(buf) == Min({k \in 1..Len(buf) : k < Len(buf) => different_blocks(buf[k], buf[k + 1])})

\* Fill ibuf_, then request the block of its front.
fetchInstruction ==
    LET room == IBufCapacity - Len(ibuf_)
        buf  == ibuf_ \o NextInsts(room)
        n    == BlockEnd(buf)
        rest == SubSeq(buf, n + 1, Len(buf))
    IN  /\ 0 \in ev_fetch_insts
        /\ getNextInsts(room)
        /\ IF credits_icache_ = 0 \/ buf = << >> \/ Len(fetch_buffer_) > FetchBufferSize
           THEN /\ ibuf_' = buf
                /\ ev_fetch_insts' = ev_fetch_insts \ {0}
                /\ UNCHANGED <<fetch_buffer_, fetch_buffer_occupancy_, credits_icache_, to_icache>>
           ELSE /\ ibuf_' = rest
                /\ fetch_buffer_' = fetch_buffer_ \o
                       [k \in 1..n |-> [inst |-> buf[k], last |-> k = n, fetched |-> FALSE]]
                /\ to_icache' = Append(to_icache, [line  |-> trace[buf[1].pid].line,
                                                   insts |-> {buf[k].uid : k \in 1..n}])
                /\ credits_icache_' = credits_icache_ - 1
                /\ fetch_buffer_occupancy_' = fetch_buffer_occupancy_ + 1
                /\ ev_fetch_insts' = (ev_fetch_insts \ {0}) \cup
                       (IF rest # << >> /\ credits_icache_' > 0
                              /\ fetch_buffer_occupancy_' < FetchBufferSize
                        THEN {1} ELSE {})
        /\ UNCHANGED <<credits_inst_queue_, ev_send_insts, to_decode>>

-----------------------------------------------------------------------------
\* Seeded fault: what ICache has not delivered is sent as well.
CanSend_NotFetched(k) ==
    \A j \in 2..k : ~isCoF(fetch_buffer_[j].inst) /\ ~isTakenBranch(fetch_buffer_[j - 1].inst)

\* The first k entries can go to Decode as one group.
CanSend(k) ==
    /\ \A j \in 1..k : fetch_buffer_[j].fetched
    /\ \A j \in 2..k : ~isCoF(fetch_buffer_[j].inst) /\ ~isTakenBranch(fetch_buffer_[j - 1].inst)

\* Send a group to Decode, an empty one if the front is not fetched.
sendInstructions ==
    LET upper == Min({credits_inst_queue_, NumToFetch, Len(fetch_buffer_)})
        n     == Max({k \in 0..upper : CanSend(k)})
        group == [k \in 1..n |-> fetch_buffer_[k].inst]
    IN  /\ 0 \in ev_send_insts
        /\ IF upper = 0
           THEN /\ ev_send_insts' = ev_send_insts \ {0}
                /\ UNCHANGED <<fetch_buffer_, fetch_buffer_occupancy_, credits_inst_queue_,
                               ev_fetch_insts, to_decode>>
           ELSE /\ fetch_buffer_' = SubSeq(fetch_buffer_, n + 1, Len(fetch_buffer_))
                /\ fetch_buffer_occupancy_' = fetch_buffer_occupancy_
                                              - Cardinality({k \in 1..n : fetch_buffer_[k].last})
                /\ credits_inst_queue_' = credits_inst_queue_ - n
                /\ to_decode' = Append(to_decode, group)
                /\ ev_send_insts' = (ev_send_insts \ {0}) \cup
                       (IF fetch_buffer_' # << >> /\ credits_inst_queue_' > 0 THEN {1} ELSE {})
                /\ ev_fetch_insts' = ev_fetch_insts \cup {1}
        /\ UNCHANGED <<instGeneratorVars, ibuf_, credits_icache_, to_icache>>

-----------------------------------------------------------------------------
(* Messages to Fetch.                                                      *)

\* ICache answers for the instructions of a request; a miss is only logged.
receiveCacheResponse(access, hit) ==
    /\ IF hit
       THEN /\ fetch_buffer_' = [k \in DOMAIN fetch_buffer_ |->
                   [fetch_buffer_[k] EXCEPT !.fetched = @ \/ fetch_buffer_[k].inst.uid \in access.insts]]
            /\ ev_send_insts' = ev_send_insts \cup {0}
       ELSE UNCHANGED <<fetch_buffer_, ev_send_insts>>
    /\ UNCHANGED <<instGeneratorVars, ibuf_, fetch_buffer_occupancy_, credits_icache_,
                   credits_inst_queue_, ev_fetch_insts, to_icache, to_decode>>

receiveCacheCredit(n) ==
    /\ credits_icache_' = credits_icache_ + n
    /\ ev_fetch_insts' = ev_fetch_insts \cup {0}
    /\ UNCHANGED <<instGeneratorVars, fetchState, credits_inst_queue_, ev_send_insts, to_icache,
                   to_decode>>

receiveFetchQueueCredits(n) ==
    /\ credits_inst_queue_' = credits_inst_queue_ + n
    /\ ev_send_insts' = ev_send_insts \cup {0}
    /\ UNCHANGED <<instGeneratorVars, fetchState, credits_icache_, ev_fetch_insts, to_icache,
                   to_decode>>

\* A flush by instruction i, with the n credits that Decode returns in the same
\* phase.  What was sent in the last cycle has left the ports by now, so their
\* cancel() finds nothing.
flushFetch(i, inclusive, n) ==
    /\ reset(i, ~inclusive)
    /\ ibuf_' = << >> /\ fetch_buffer_' = << >>
    /\ to_icache' = << >> /\ to_decode' = << >>
    /\ ev_fetch_insts' = ev_fetch_insts \cup {1}
    /\ credits_inst_queue_' = credits_inst_queue_ + n
    /\ ev_send_insts' = ev_send_insts \cup {0}
    /\ UNCHANGED <<fetch_buffer_occupancy_, credits_icache_>>
=============================================================================
