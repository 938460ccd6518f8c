------------------------------ MODULE Backend ------------------------------
(***************************************************************************)
(* The out-of-order back end as the topology wires it (CPUTopology.cpp):   *)
(* Dispatch, ROB and FlushManager with, by their contracts, Rename, the    *)
(* front end that replays a trace, and the execution units.                *)
(*                                                                         *)
(* The trace is a sequence of instructions; the program id of the k-th is  *)
(* k.  Fetching gives an instruction a unique id that never repeats, and a *)
(* flush makes the front end rewind to the instruction after the one that  *)
(* caused it.  A vector instruction becomes several uops with its unique   *)
(* id and its program id.                                                  *)
(***************************************************************************)
EXTENDS Dispatch, ROB

CONSTANTS Traces,        \* traces to run: sequences of [pipe, kind, uops]
          NumToRename    \* num_to_rename of Rename

VARIABLES
    trace,                       \* the trace of this run
    next_pid, next_uop, next_uid,\* the front end: what Rename gets next
    inst_queue_,                 \* Rename: instructions not yet acknowledged
    credits_dispatch_,           \* Rename: free entries of Dispatch's queue
    to_dispatch, to_rob, to_rename,\* messages delivered in the next cycle
    in_unit                      \* [Units -> sets of instructions holding a credit]

contractVars == <<trace, next_pid, next_uop, next_uid, inst_queue_, credits_dispatch_,
                  to_dispatch, to_rob, to_rename, in_unit>>

vars == <<phase, pc, dispatchVars, robVars, flushVars, contractVars>>

frontVars == <<trace, next_pid, next_uop, next_uid>>

Kinds == {"alu", "branch", "store", "csr", "sys"}

\* Only vector instructions become several uops: not what may ask for a flush.
ASSUME BackendAssumption ==
    /\ NumToRename \in Nat \ {0} /\ NoFlush \notin FlushingCriteria
    /\ Traces \subseteq Seq([pipe : DOMAIN Dispatchers, kind : Kinds, uops : Nat \ {0}])
    /\ \A t \in Traces : \A k \in DOMAIN t : t[k].kind \in {"branch", "csr"} => t[k].uops = 1

-----------------------------------------------------------------------------
(* Messages of the last cycle.                                             *)

DeliverToDispatch ==
    /\ to_dispatch # << >>
    /\ dispatchQueueAppended(to_dispatch)
    /\ to_dispatch' = << >>
    /\ UNCHANGED <<robVars, flushVars, frontVars, inst_queue_, credits_dispatch_, to_rob,
                   to_rename, in_unit>>

DeliverToROB ==
    /\ to_rob # << >>
    /\ robAppended(to_rob)
    /\ to_rob' = << >>
    /\ UNCHANGED <<dispatchVars, flushVars, frontVars, inst_queue_, credits_dispatch_,
                   to_dispatch, to_rename, in_unit>>

\* Rename drops what has retired; it asserts that it is its oldest.
DeliverToRename ==
    /\ phase = "port" /\ pc = "idle"
    /\ to_rename # << >>
    /\ to_rename = SubSeq(inst_queue_, 1, Len(to_rename))
    /\ inst_queue_' = SubSeq(inst_queue_, Len(to_rename) + 1, Len(inst_queue_))
    /\ to_rename' = << >>
    /\ UNCHANGED <<phase, pc, dispatchVars, robVars, flushVars, frontVars, credits_dispatch_,
                   to_dispatch, to_rob, in_unit>>

-----------------------------------------------------------------------------
(* A flush reaches every unit in the same phase.                           *)

\* What a unit drops; it returns a credit for each (IssueQueue, LSU).
FlushedIn(u, crit) == {i \in in_unit[u] : includedInFlush(crit, i.uid)}

\* Fetch rewinds the trace to the instruction named, or to the one after it.
RewindTo(crit) == IF determineInclusive(crit.cause) THEN crit.pid ELSE crit.pid + 1

\* Seeded fault: Dispatch does not return the entries it drops.
CreditsOfDropped_None == 0

CreditsOfDropped == Len(dispatch_queue_)

handleFlush ==
    /\ phase = "flush" /\ pc = "idle"
    /\ flush_upper # NoFlush
    /\ LET crit == flush_upper
       IN  /\ handleROBFlush(crit)
           /\ handleDispatchFlush(Len(reorder_buffer_) - Len(reorder_buffer_'),
                                  [u \in Units |-> Cardinality(FlushedIn(u, crit))])
           /\ in_unit' = [u \in Units |-> in_unit[u] \ FlushedIn(u, crit)]
           /\ inst_queue_' = Survivors(inst_queue_, crit)
           /\ next_pid' = RewindTo(crit)
    /\ next_uop' = 0
    /\ credits_dispatch_' = credits_dispatch_ + CreditsOfDropped
    /\ to_rob' = << >>
    /\ flush_upper' = NoFlush
    /\ UNCHANGED <<phase, pc, pending_flush_, ev_flush_, flush_lower, trace, next_uid,
                   to_dispatch, to_rename>>

-----------------------------------------------------------------------------
(* The Tick phase: ROB, FlushManager and the execution units ...           *)

BeginRetire == retireInstructions /\ UNCHANGED <<dispatchVars, flushVars, contractVars>>

RetireOne == retireOne /\ UNCHANGED <<dispatchVars, contractVars>>

\* Credits go to Dispatch only if an instruction retired in this session.
EndRetire ==
    /\ retireDone
    /\ to_rename' = retired_insts
    /\ IF retired_this_cycle # 0 THEN robCredits(retired_this_cycle) ELSE UNCHANGED dispatchVars
    /\ UNCHANGED <<flushVars, frontVars, inst_queue_, credits_dispatch_, to_dispatch, to_rob,
                   in_unit>>

ForwardFlush == forwardFlush /\ UNCHANGED <<phase, pc, dispatchVars, robVars, contractVars>>

\* A unit completes an instruction; only branches are mispredicted.
Complete ==
    /\ phase = "units" /\ pc = "idle"
    /\ \E i \in Elems(reorder_buffer_) :
           \E miss \in (IF i.kind = "branch" THEN BOOLEAN ELSE {FALSE}) : setCompleted(i, miss)
    /\ UNCHANGED <<phase, pc, dispatchVars, flushVars, contractVars>>

\* A unit has room again: an instruction left its queue, a store only once it
\* is retired (out_rob_retire_ack).
ReturnCredit ==
    /\ phase = "units" /\ pc = "idle"
    /\ \E u \in Units : \E i \in in_unit[u] :
         /\ i.kind = "store" => i \notin Elems(reorder_buffer_)
         /\ in_unit' = [in_unit EXCEPT ![u] = @ \ {i}]
         /\ receiveCredits(u)
    /\ UNCHANGED <<phase, pc, robVars, flushVars, frontVars, inst_queue_, credits_dispatch_,
                   to_dispatch, to_rob, to_rename>>

-----------------------------------------------------------------------------
(* ... then Dispatch ...                                                   *)

BeginDispatch == dispatchInstructions /\ UNCHANGED <<robVars, flushVars, contractVars>>

DispatchOne ==
    /\ \E u \in Units :
         /\ dispatchTo(u)
         /\ in_unit' = [in_unit EXCEPT ![u] = @ \cup {Head(dispatch_queue_)}]
    /\ UNCHANGED <<robVars, flushVars, frontVars, inst_queue_, credits_dispatch_, to_dispatch,
                   to_rob, to_rename>>

StallDispatch == dispatchStalls /\ UNCHANGED <<robVars, flushVars, contractVars>>

EndDispatch ==
    /\ dispatchDone
    /\ to_rob' = insts_dispatched
    /\ credits_dispatch_' = credits_dispatch_ + Len(insts_dispatched)
    /\ UNCHANGED <<robVars, flushVars, frontVars, inst_queue_, to_dispatch, to_rename, in_unit>>

-----------------------------------------------------------------------------
(* ... and Rename, which sends the next uop of the trace, any number of    *)
(* them in a cycle within its bandwidth and Dispatch's credits.            *)

NextInst == [uid |-> next_uid, pid |-> next_pid, uop |-> next_uop,
             pipe |-> trace[next_pid].pipe, kind |-> trace[next_pid].kind]

LastUop == next_uop + 1 = trace[next_pid].uops

RenameSends ==
    /\ phase = "rename" /\ pc = "idle"
    /\ next_pid <= Len(trace)
    /\ credits_dispatch_ > 0 /\ Len(to_dispatch) < NumToRename
    /\ to_dispatch' = Append(to_dispatch, NextInst)
    /\ inst_queue_' = Append(inst_queue_, NextInst)
    /\ credits_dispatch_' = credits_dispatch_ - 1
    /\ IF LastUop THEN next_pid' = next_pid + 1 /\ next_uop' = 0 /\ next_uid' = next_uid + 1
       ELSE next_uop' = next_uop + 1 /\ UNCHANGED <<next_pid, next_uid>>
    /\ UNCHANGED <<phase, pc, dispatchVars, robVars, flushVars, trace, to_rob, to_rename, in_unit>>

-----------------------------------------------------------------------------
\* The clock: a phase ends when nothing is left to deliver or to run in it.
PhaseDone ==
    /\ phase = "port" => to_dispatch = << >> /\ to_rob = << >> /\ to_rename = << >>
    /\ phase = "flush" => flush_upper = NoFlush
    /\ phase = "units" => 0 \notin ev_retire_ /\ ~ev_flush_
    /\ phase = "dispatch" => 0 \notin ev_dispatch_insts_

nextPhase ==
    /\ pc = "idle"
    /\ PhaseDone
    /\ phase' = NextOf(phase)
    /\ IF phase = "rename"
       THEN /\ ev_retire_' = Aged(ev_retire_)
            /\ ev_dispatch_insts_' = Aged(ev_dispatch_insts_)
       ELSE UNCHANGED <<ev_retire_, ev_dispatch_insts_>>
    /\ UNCHANGED <<pc, dispatch_queue_, credits_rob_, unit_credits_, num_can_dispatch_,
                   blocking_dispatcher_, dispatchLocals, reorder_buffer_, expect_flush_,
                   expected_program_id_, num_retired_, completed, mispredicted, oldest,
                   retireLocals, flushVars, contractVars>>

\* The simulation is over: num_insts_to_retire reached.
Stopped == pc = "stopped" /\ UNCHANGED vars

Init ==
    /\ phase = "port" /\ pc = "idle"
    /\ DispatchInit(RetireQueueDepth) /\ ROBInit /\ FlushInit
    /\ trace \in Traces
    /\ next_pid = 1 /\ next_uop = 0 /\ next_uid = 1
    /\ inst_queue_ = << >>
    /\ credits_dispatch_ = DispatchQueueDepth
    /\ to_dispatch = << >> /\ to_rob = << >> /\ to_rename = << >>
    /\ in_unit = [u \in Units |-> {}]

Handlers == \/ DeliverToDispatch \/ DeliverToROB \/ DeliverToRename \/ handleFlush
            \/ BeginRetire \/ RetireOne \/ EndRetire \/ ForwardFlush
            \/ BeginDispatch \/ DispatchOne \/ StallDispatch \/ EndDispatch

Next == Handlers \/ Complete \/ ReturnCredit \/ RenameSends \/ nextPhase \/ Stopped

Spec == Init /\ [][Next]_vars

\* Sparta runs every handler and the clock never stops; the front end has the
\* rest of the trace to send, and units finish what they hold.
Fairness == /\ WF_vars(Handlers) /\ WF_vars(nextPhase)
            /\ SF_vars(Complete) /\ SF_vars(ReturnCredit) /\ SF_vars(RenameSends)

FairSpec == Spec /\ Fairness

-----------------------------------------------------------------------------
(* Properties.                                                             *)

Inst == [uid : Nat, pid : Nat, uop : Nat, pipe : DOMAIN Dispatchers, kind : Kinds]

\* Every variable has its type.
TypeOK ==
    /\ phase \in Phases /\ pc \in {"idle", "retire", "dispatch", "stopped"}
    /\ {dispatch_queue_, reorder_buffer_, inst_queue_, to_dispatch, to_rob, to_rename,
        insts_dispatched, retired_insts} \subseteq Seq(Inst)
    /\ {credits_rob_, credits_dispatch_, num_dispatch, num_to_retire, retired_this_cycle,
        expected_program_id_, num_retired_, next_pid, next_uop, next_uid} \subseteq Nat
    /\ unit_credits_ \in [Units -> Nat] /\ num_can_dispatch_ \in [Units -> {0, 1}]
    /\ blocking_dispatcher_ \in {"INT", "LSU", "UNKNOWN"}
    /\ {stalled, expect_flush_, ev_flush_} \subseteq BOOLEAN
    /\ ev_retire_ \subseteq {0, 1} /\ ev_dispatch_insts_ \subseteq {0, 1}
    /\ {pending_flush_, flush_upper, flush_lower} \subseteq FlushingCriteria \cup {NoFlush}
    /\ {completed, mispredicted, oldest} \subseteq SUBSET Elems(reorder_buffer_)
    /\ in_unit \in [Units -> SUBSET Inst]
    /\ trace \in Traces

\* Instructions that are not retired, oldest first, wherever they are.
Unretired == reorder_buffer_ \o to_rob \o insts_dispatched \o dispatch_queue_ \o to_dispatch

\* Rename's view of what is in flight is what the other units hold and what is
\* on its way between them, in the same order: nothing is lost, duplicated or
\* overtaken, in any phase (getAckFromROB_ asserts a part of it).
RenameInSync == inst_queue_ = to_rename \o retired_insts \o Unretired

\* The uop of the trace that follows i.
Follows(i, pid, uop) == IF i.uop + 1 = trace[i.pid].uops THEN pid = i.pid + 1 /\ uop = 0
                        ELSE pid = i.pid /\ uop = i.uop + 1

\* The uop is the next one that ROB expects to retire.
Expected(pid, uop) == pid = IF uop = 0 THEN expected_program_id_ ELSE expected_program_id_ - 1

InTraceOrder ==
    LET n == Len(inst_queue_)
    IN  /\ \A k \in 1..n - 1 : LET i == inst_queue_[k]
                                   j == inst_queue_[k + 1]
                               IN  /\ Follows(i, j.pid, j.uop)
                                   /\ i.uid < j.uid \/ (i.uid = j.uid /\ i.pid = j.pid)
        /\ n > 0 => Follows(inst_queue_[n], next_pid, next_uop)

\* What is in flight is a run of the trace, uop by uop, that ends where the front
\* end goes on, with growing unique ids, and what ROB looks at next is the next of
\* the program ("Unexpected program ID when retiring instruction"), whatever was
\* flushed before.
InProgramOrder ==
    /\ InTraceOrder
    /\ reorder_buffer_ # << >> /\ ~expect_flush_ =>
          Expected(Head(reorder_buffer_).pid, Head(reorder_buffer_).uop)

\* While a flush is on its way it drops every unretired instruction and no
\* retired one: Dispatch may empty its queue without looking at the criteria,
\* and ROB waits for a flush exactly while there is one ("Received a flush, but
\* didn't expect one").
FlushIsPrecise ==
    /\ expect_flush_ <=> pending_flush_ # NoFlush \/ flush_upper # NoFlush
    /\ \A crit \in {pending_flush_, flush_upper} \ {NoFlush} :
          /\ \A i \in Elems(Unretired) : includedInFlush(crit, i.uid)
          /\ \A i \in Elems(to_rename \o retired_insts) : ~includedInFlush(crit, i.uid)

\* What Rename's contract assumes of ROB and of flushes: its queue stays in step with
\* the other units, and a flush drops what is not retired and nothing else.
RenameContract == RenameInSync /\ FlushIsPrecise

ROBCredits == credits_rob_ + Len(reorder_buffer_) + Len(to_rob) + Len(insts_dispatched)
              + retired_this_cycle = RetireQueueDepth

DispatchCredits == credits_dispatch_ + Len(dispatch_queue_) + Len(to_dispatch)
                   + Len(insts_dispatched) = DispatchQueueDepth

UnitCredits == \A u \in Units : unit_credits_[u] + Cardinality(in_unit[u]) = UnitSize[u]

\* Entries of ROB, of Dispatch's queue and of every unit are occupied or are
\* credits of the sender: flushes and retirement lose none and invent none, so no
\* queue overflows, no count goes below zero (TypeOK) and none shrinks.  ROB's entries are in question only in
\* programs without vector uops, of which it returns the first.
CreditsConserved ==
    /\ TypeOK
    /\ (\A p \in DOMAIN trace : trace[p].uops = 1) => ROBCredits
    /\ DispatchCredits
    /\ UnitCredits

\* Retirement never sleeps with work to do: a completed head has a session
\* scheduled, and a head that is not completed will schedule one.
RetireWakes ==
    pc # "retire" /\ reorder_buffer_ # << >> /\ ~expect_flush_ =>
        \/ ev_retire_ # {}
        \/ Head(reorder_buffer_) \in oldest /\ Head(reorder_buffer_) \notin completed

\* Dispatch never sleeps for good: with instructions in its queue a session is
\* scheduled or a credit is still out whose return schedules one.
DispatchWakes ==
    pc # "dispatch" /\ dispatch_queue_ # << >> =>
        \/ ev_dispatch_insts_ # {}
        \/ credits_rob_ < RetireQueueDepth
        \/ \E u \in Units : unit_credits_[u] < UnitSize[u]

\* Neither retirement nor dispatch sleeps with work to do, in whatever order
\* completions, credits, groups and flushes arrive.
NoLostWakeup == RetireWakes /\ DispatchWakes

\* The whole trace retires, or as much of it as the simulation is told to
\* (checkForwardProgress_: "Is the pipe stalled indefinitely?"), however branches
\* and CSR instructions flush it.
TraceRetires == <>(num_retired_ = IF NumInstsToRetire \in 1..Len(trace) THEN NumInstsToRetire
                                  ELSE Len(trace))
-----------------------------------------------------------------------------
(* The inductive invariant behind the safety properties (BackendProofs).   *)

\* The front end is at a uop of the trace, or behind its end.
FrontInv ==
    /\ next_pid \in 1..Len(trace) + 1
    /\ IF next_pid <= Len(trace) THEN next_uop < trace[next_pid].uops ELSE next_uop = 0

\* One handler runs at a time, in its phase, on what the queues hold; a message that
\* a handler writes has been delivered before it runs, and an event of this cycle has
\* run when its phase is over.
SessionInv ==
    /\ pc = "retire" => /\ phase = "units" /\ num_to_retire <= Len(reorder_buffer_)
                        /\ 0 \notin ev_retire_ /\ (expect_flush_ => num_to_retire = 0)
    /\ pc # "retire" => retired_insts = << >> /\ retired_this_cycle = 0
    /\ pc = "dispatch" => /\ phase = "dispatch" /\ 0 \notin ev_dispatch_insts_
                          /\ num_dispatch <= Len(dispatch_queue_) /\ num_dispatch <= credits_rob_
    /\ pc # "dispatch" => insts_dispatched = << >> /\ ~stalled
    /\ to_dispatch # << >> => phase \in {"rename", "port"}
    /\ to_rob # << >> => \/ phase \in {"rename", "port"}
                         \/ phase = "dispatch" /\ pc = "idle" /\ 0 \notin ev_dispatch_insts_
    /\ to_rename # << >> => \/ phase \notin {"flush", "units"}
                            \/ phase = "units" /\ pc # "retire" /\ 0 \notin ev_retire_
    /\ phase \in {"dispatch", "rename"} => 0 \notin ev_retire_
    /\ phase = "rename" => 0 \notin ev_dispatch_insts_

Upcoming == [uid |-> next_uid, pid |-> next_pid, uop |-> next_uop]

Before(i, j) == i.uid < j.uid \/ (i.uid = j.uid /\ i.pid = j.pid /\ i.uop < j.uop)

\* Instructions in flight are uops of the trace, in order; what a unit holds, retired
\* or not, is older than what Dispatch is still to send it.
OrderInv ==
    /\ \A i \in Elems(inst_queue_) :
          /\ i.pid \in DOMAIN trace /\ i.uop < trace[i.pid].uops
          /\ i.pipe = trace[i.pid].pipe /\ i.kind = trace[i.pid].kind
          /\ Before(i, Upcoming)
    /\ \A j, k \in DOMAIN inst_queue_ : j < k => Before(inst_queue_[j], inst_queue_[k])
    /\ \A u \in Units : \A i \in in_unit[u] :
          Before(i, Upcoming) /\ \A j \in Elems(dispatch_queue_ \o to_dispatch) : Before(i, j)

\* The oldest unretired uop, wherever it is, is the one that ROB expects.
ExpectedInv ==
    ~expect_flush_ => IF Unretired = << >> THEN Expected(next_pid, next_uop)
                      ELSE Expected(Head(Unretired).pid, Head(Unretired).uop)

\* The one flush under way is exclusive, of the last instruction that retired; only
\* branches are mispredicted.
FlushInv ==
    /\ ev_flush_ <=> pending_flush_ # NoFlush
    /\ pending_flush_ = NoFlush \/ flush_upper = NoFlush
    /\ \A crit \in {pending_flush_, flush_upper} \ {NoFlush} :
          /\ crit.cause \in {"MISPREDICTION", "POST_SYNC"}
          /\ crit.uid < next_uid /\ crit.pid + 1 = expected_program_id_
          /\ crit.pid \in DOMAIN trace
    /\ \A i \in mispredicted : i.kind = "branch"

\* A dispatcher out of bandwidth has used a credit; a session that stalls has met a
\* unit without credits or bandwidth.
BandwidthInv ==
    /\ \A u \in Units : num_can_dispatch_[u] = 0 =>
          pc = "dispatch" /\ unit_credits_[u] < UnitSize[u]
    /\ stalled => \E u \in Units : unit_credits_[u] < UnitSize[u]
    /\ \A u \in Units : IsFiniteSet(in_unit[u])

IInv == /\ CreditsConserved /\ FrontInv /\ SessionInv /\ RenameInSync /\ OrderInv
        /\ InTraceOrder /\ ExpectedInv /\ FlushInv /\ FlushIsPrecise /\ BandwidthInv
        /\ NoLostWakeup
=============================================================================
