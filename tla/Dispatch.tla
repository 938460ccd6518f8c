------------------------------ MODULE Dispatch ------------------------------
(***************************************************************************)
(* Dispatch (core/dispatch/Dispatch.cpp, Dispatcher.hpp, Dispatcher.cpp):  *)
(* renamed instructions wait in a FIFO; a session sends some of them, in   *)
(* order, to the execution units and to ROB, within the credits of both.   *)
(* A unit (an issue queue or the LSU) has one dispatcher, which takes one  *)
(* instruction per session.  A session is one begin step, a step per       *)
(* instruction and an end step.                                            *)
(***************************************************************************)
EXTENDS Pipeline

CONSTANTS Units,              \* issue queues and the LSU
          Dispatchers,        \* [pipe -> Seq(Units)]: dispatchers_
          UnitSize,           \* [Units -> Nat]: the credits a unit starts with
          DispatchQueueDepth, \* dispatch_queue_depth
          NumToDispatch       \* num_to_dispatch

VARIABLES dispatch_queue_, credits_rob_, unit_credits_, num_can_dispatch_,
          blocking_dispatcher_, ev_dispatch_insts_,
          \* locals of dispatchInstructions_
          num_dispatch, insts_dispatched, stalled

dispatchVars == <<dispatch_queue_, credits_rob_, unit_credits_, num_can_dispatch_,
                  blocking_dispatcher_, ev_dispatch_insts_,
                  num_dispatch, insts_dispatched, stalled>>

dispatchLocals == <<num_dispatch, insts_dispatched, stalled>>

ASSUME DispatchAssumption ==
    /\ \A p \in DOMAIN Dispatchers : Dispatchers[p] \in Seq(Units) /\ Dispatchers[p] # << >>
    /\ {"INT", "LSU"} \subseteq DOMAIN Dispatchers
    /\ UnitSize \in [Units -> Nat \ {0}]
    /\ DispatchQueueDepth \in Nat \ {0} /\ NumToDispatch \in Nat \ {0}

\* The constructors, and the credits ROB and the units send at startup.
DispatchInit(rob_depth) ==
    /\ dispatch_queue_ = << >>
    /\ credits_rob_ = rob_depth
    /\ unit_credits_ = UnitSize
    /\ num_can_dispatch_ = [u \in Units |-> 1]
    /\ blocking_dispatcher_ = "INT"
    /\ ev_dispatch_insts_ = {}
    /\ num_dispatch = 0 /\ insts_dispatched = << >> /\ stalled = FALSE

\* Dispatcher::canAccept, with unit credits uc.
canAccept(u, uc) == uc[u] # 0 /\ num_can_dispatch_[u] # 0

\* No pipe blocked the last session, or the one that did has room now.
Unblocked(uc) == \/ blocking_dispatcher_ = "UNKNOWN"
                 \/ \E u \in Elems(Dispatchers[blocking_dispatcher_]) : canAccept(u, uc)

\* scheduleDispatchSession(): every handler calls it last, with the queue q,
\* the ROB credits rob and the unit credits uc it leaves.
scheduleDispatchSession(q, rob, uc) ==
    IF rob > 0 /\ q # << >> /\ Unblocked(uc)
    THEN /\ blocking_dispatcher_' = "UNKNOWN"
         /\ ev_dispatch_insts_' = ev_dispatch_insts_ \cup {0}
    ELSE UNCHANGED <<blocking_dispatcher_, ev_dispatch_insts_>>

robCredits(n) ==
    /\ credits_rob_' = credits_rob_ + n
    /\ scheduleDispatchSession(dispatch_queue_, credits_rob_', unit_credits_)
    /\ UNCHANGED <<dispatch_queue_, unit_credits_, num_can_dispatch_, dispatchLocals>>

\* Dispatcher::receiveCredits_
receiveCredits(u) ==
    /\ unit_credits_' = [unit_credits_ EXCEPT ![u] = @ + 1]
    /\ scheduleDispatchSession(dispatch_queue_, credits_rob_, unit_credits_')
    /\ UNCHANGED <<dispatch_queue_, credits_rob_, num_can_dispatch_, dispatchLocals>>

\* dispatchQueueAppended_.  sparta_assert: the queue has room.
dispatchQueueAppended(grp) ==
    /\ phase = "port" /\ pc = "idle"
    /\ dispatch_queue_' = dispatch_queue_ \o grp
    /\ scheduleDispatchSession(dispatch_queue_', credits_rob_, unit_credits_)
    /\ UNCHANGED <<phase, pc, credits_rob_, unit_credits_, num_can_dispatch_, dispatchLocals>>

-----------------------------------------------------------------------------
(* dispatchInstructions_.                                                  *)

DispatchSize == Least(credits_rob_, Least(Len(dispatch_queue_), NumToDispatch))

dispatchInstructions ==
    /\ phase = "dispatch" /\ pc = "idle"
    /\ 0 \in ev_dispatch_insts_
    /\ ev_dispatch_insts_' = ev_dispatch_insts_ \ {0}
    /\ num_dispatch' = DispatchSize
    /\ pc' = IF DispatchSize = 0 THEN "idle" ELSE "dispatch"
    /\ stalled' = FALSE
    /\ UNCHANGED <<phase, dispatch_queue_, credits_rob_, unit_credits_, num_can_dispatch_,
                   blocking_dispatcher_, insts_dispatched>>

\* The dispatchers of a pipe, by position, that can accept an instruction.
Accepting(pipe) == {k \in DOMAIN Dispatchers[pipe] : canAccept(Dispatchers[pipe][k], unit_credits_)}

\* The LSU pipe takes the first of them, the others the first of those with the
\* most credits.
Chosen(pipe, k) ==
    LET cred(j) == unit_credits_[Dispatchers[pipe][j]]
    IN  /\ k \in Accepting(pipe)
        /\ \A j \in Accepting(pipe) :
              IF pipe = "LSU" THEN k <= j
              ELSE cred(j) < cred(k) \/ (cred(j) = cred(k) /\ k <= j)

\* A dispatcher of the LSU pipe that cannot accept makes the pipe blocking, even
\* if a later one can.
BlockingAfter(pipe) == IF pipe = "LSU" /\ 1 \notin Accepting(pipe) THEN "LSU"
                       ELSE blocking_dispatcher_

Stalls(pipe) == Accepting(pipe) = {}

\* The oldest instruction goes to unit u (Dispatcher::acceptInst).
dispatchTo(u) ==
    /\ pc = "dispatch"
    /\ num_dispatch > 0
    /\ LET i == Head(dispatch_queue_)
       IN  /\ \E k \in DOMAIN Dispatchers[i.pipe] : Chosen(i.pipe, k) /\ u = Dispatchers[i.pipe][k]
           /\ blocking_dispatcher_' = BlockingAfter(i.pipe)
           /\ insts_dispatched' = Append(insts_dispatched, i)
    /\ unit_credits_' = [unit_credits_ EXCEPT ![u] = @ - 1]
    /\ num_can_dispatch_' = [num_can_dispatch_ EXCEPT ![u] = @ - 1]
    /\ dispatch_queue_' = Tail(dispatch_queue_)
    /\ credits_rob_' = credits_rob_ - 1
    /\ num_dispatch' = num_dispatch - 1
    /\ UNCHANGED <<phase, pc, ev_dispatch_insts_, stalled>>

\* No dispatcher takes the oldest instruction: the session is over.
dispatchStalls ==
    /\ pc = "dispatch"
    /\ num_dispatch > 0
    /\ LET pipe == Head(dispatch_queue_).pipe
       IN  /\ Stalls(pipe)
           /\ blocking_dispatcher_' = BlockingAfter(pipe)
    /\ num_dispatch' = 0
    /\ stalled' = TRUE
    /\ UNCHANGED <<phase, pc, dispatch_queue_, credits_rob_, unit_credits_, num_can_dispatch_,
                   ev_dispatch_insts_, insts_dispatched>>

\* Seeded fault: a dispatcher gets no new bandwidth.
ResetBandwidth_Never == num_can_dispatch_

\* Dispatcher::reset
ResetBandwidth == [u \in Units |-> 1]

\* The end of the session; Backend sends insts_dispatched to ROB and credits
\* for them to Rename.
dispatchDone ==
    /\ pc = "dispatch"
    /\ num_dispatch = 0
    /\ num_can_dispatch_' = ResetBandwidth
    /\ ev_dispatch_insts_' = IF credits_rob_ > 0 /\ dispatch_queue_ # << >> /\ ~stalled
                             THEN ev_dispatch_insts_ \cup {1} ELSE ev_dispatch_insts_
    /\ pc' = "idle"
    /\ insts_dispatched' = << >> /\ stalled' = FALSE
    /\ UNCHANGED <<phase, dispatch_queue_, credits_rob_, unit_credits_, blocking_dispatcher_,
                   num_dispatch>>

\* Seeded fault: the queue is kept.
QueueAfterFlush_Kept == dispatch_queue_

QueueAfterFlush == << >>

\* handleFlush_ empties the queue, whatever the criteria; the zero-cycle credits
\* that ROB (rob) and the units (back) send at the flush find it empty.
handleDispatchFlush(rob, back) ==
    /\ dispatch_queue_' = QueueAfterFlush
    /\ credits_rob_' = credits_rob_ + rob
    /\ unit_credits_' = [u \in Units |-> unit_credits_[u] + back[u]]
    /\ UNCHANGED <<num_can_dispatch_, blocking_dispatcher_, ev_dispatch_insts_, dispatchLocals>>
=============================================================================
