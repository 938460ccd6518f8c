-------------------------------- MODULE BIU --------------------------------
(***************************************************************************)
(* The bus interface unit and the memory behind it (mss/BIU.cpp,           *)
(* mss/MSS.cpp).  The BIU queues what the L2 cache misses and lets one     *)
(* request at a time go to the MSS, which accepts none while it is busy.   *)
(* A request is whatever the L2 cache sends; its line is all that matters  *)
(* here.  Every credit of the queue is the L2 cache's or a queued          *)
(* request's.                                                              *)
(***************************************************************************)
EXTENDS Integers, Sequences

CONSTANTS BIUQueueSize,   \* biu_req_queue_size of the BIU
          BIULatency,     \* biu_latency
          MSSLatency      \* mss_latency

ASSUME BIUAssumption == /\ BIUQueueSize \in Nat \ {0}
                        /\ {BIULatency, MSSLatency} \subseteq Nat

VARIABLES biu_queue,            \* biu_req_queue_ of the BIU
          biu_busy_,
          ev_handle_biu_req_, ev_handle_mss_ack_, \* scheduled in this cycle
          mss_busy_,
          ev_handle_mss_req_,   \* delays of the scheduled event
          mss_req, mss_ack      \* delays of the messages on their way

biuVars == <<biu_queue, biu_busy_, ev_handle_biu_req_, ev_handle_mss_ack_>>
mssVars == <<mss_busy_, ev_handle_mss_req_, mss_req, mss_ack>>

BIUInit ==
    /\ biu_queue = << >> /\ biu_busy_ = FALSE
    /\ ev_handle_biu_req_ = FALSE /\ ev_handle_mss_ack_ = FALSE
    /\ mss_busy_ = FALSE /\ ev_handle_mss_req_ = {} /\ mss_req = {} /\ mss_ack = {}

-----------------------------------------------------------------------------
(* The BIU.                                                                *)

receiveReqFromL2Cache(req) ==
    /\ biu_queue' = Append(biu_queue, req)
    /\ ev_handle_biu_req_' = (ev_handle_biu_req_ \/ ~biu_busy_)
    /\ UNCHANGED <<biu_busy_, ev_handle_mss_ack_, mssVars>>

getAckFromMSS ==
    /\ 0 \in mss_ack
    /\ mss_ack' = mss_ack \ {0}
    /\ ev_handle_mss_ack_' = TRUE
    /\ UNCHANGED <<biu_queue, biu_busy_, ev_handle_biu_req_, mss_busy_, ev_handle_mss_req_, mss_req>>

\* ev_handle_mss_ack_ precedes ev_handle_biu_req_.
handleBIUReq ==
    /\ ev_handle_biu_req_ /\ ~ev_handle_mss_ack_
    /\ ev_handle_biu_req_' = FALSE
    /\ biu_busy_' = TRUE
    /\ mss_req' = mss_req \cup {BIULatency + 1}
    /\ UNCHANGED <<biu_queue, ev_handle_mss_ack_, mss_busy_, ev_handle_mss_req_, mss_ack>>

\* The response that handleMSSAck sends.
Answered == Head(biu_queue)

handleMSSAck ==
    /\ ev_handle_mss_ack_
    /\ ev_handle_mss_ack_' = FALSE
    /\ biu_queue' = Tail(biu_queue)
    /\ biu_busy_' = FALSE
    /\ ev_handle_biu_req_' = (ev_handle_biu_req_ \/ biu_queue' # << >>)
    /\ UNCHANGED mssVars

-----------------------------------------------------------------------------
(* The MSS.                                                                *)

\* The assertion that it is not busy is stated as a property.
getReqFromBIU ==
    /\ 0 \in mss_req
    /\ mss_req' = mss_req \ {0}
    /\ mss_busy_' = TRUE
    /\ ev_handle_mss_req_' = ev_handle_mss_req_ \cup {MSSLatency}
    /\ UNCHANGED <<biuVars, mss_ack>>

handle_MSS_req ==
    /\ 0 \in ev_handle_mss_req_
    /\ ev_handle_mss_req_' = ev_handle_mss_req_ \ {0}
    /\ mss_busy_' = FALSE
    /\ mss_ack' = mss_ack \cup {1}
    /\ UNCHANGED <<biuVars, mss_req>>

=============================================================================
