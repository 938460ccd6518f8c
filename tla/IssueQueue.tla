----------------------------- MODULE IssueQueue -----------------------------
(***************************************************************************)
(* An issue queue (core/execute/IssueQueue.cpp).  An instruction waits in  *)
(* issue_queue_ with a callback of the scoreboard for each register file   *)
(* whose sources are not ready, is also in ready_queue_ once they all are, *)
(* and leaves both for the first of its pipes that can accept it.          *)
(*                                                                         *)
(* The scoreboard (Sparta) is external: ready is what this queue sees of   *)
(* it, one cycle after the write (latency_matrix), and callbacks are the   *)
(* registered ones, in order.  The register of an instruction is named by  *)
(* its program id, so an instruction that is fetched again after a flush   *)
(* has the register that it had before.                                    *)
(***************************************************************************)
EXTENDS ExecutePipe, Places, SequencesExt

CONSTANTS SchedulerSize,  \* scheduler_size
          Files,          \* register files
          PipeMapping     \* pipe_exe_pipe_mapping_: the pipes of each target, in order

ASSUME IssueQueueAssumption ==
    /\ SchedulerSize \in Nat \ {0} /\ IsFiniteSet(Files)
    /\ \A target \in DOMAIN PipeMapping : PipeMapping[target] \in Seq(Pipes) \ {<< >>}

VARIABLES issue_queue_, ready_queue_,
          ev_issue_ready_inst_,   \* scheduled in this cycle
          fifo_,                  \* in_order_issue
          ready,                  \* registers that are ready
          callbacks               \* registered callbacks: [inst, file]

iqVars == <<issue_queue_, ready_queue_, ev_issue_ready_inst_, ready, callbacks>>

Srcs(i, file) == program[i.pid].srcs[file]

\* Seeded fault: one ready source is enough.
Unready_Any(i, file, now) == Srcs(i, file) # {} /\ Srcs(i, file) \cap now = {}

Unready(i, file, now) == ~(Srcs(i, file) \subseteq now)

\* Behind all others, or by age.
InsertReady(q, i) ==
    LET older   == {k \in DOMAIN q : q[k].uid <= i.uid}
        younger == DOMAIN q \ older
    IN  IF fifo_ THEN Append(q, i)
        ELSE Append(ElementsAt(q, older), i) \o ElementsAt(q, younger)

\* What one check changes: [queue, calls, event].
operandIssueCheck(st, i, now) ==
    LET waits == {file \in Files : Unready(i, file, now)}
    IN  IF waits = {}
        THEN [st EXCEPT !.queue = InsertReady(@, i), !.event = TRUE]
        ELSE [st EXCEPT !.calls = @ \o SetToSeq({[inst |-> i, file |-> f] : f \in waits})]

Checked(st) == /\ ready_queue_' = st.queue /\ callbacks' = st.calls
               /\ ev_issue_ready_inst_' = st.event

CheckState(calls) == [queue |-> ready_queue_, calls |-> calls, event |-> ev_issue_ready_inst_]

-----------------------------------------------------------------------------
receiveInstsFromDispatch(i, now) ==
    /\ issue_queue_' = Append(issue_queue_, i)
    /\ Checked(operandIssueCheck(CheckState(callbacks), i, now))
    /\ ready' = now

\* External: the scoreboard marks a register ready and calls back everyone whose
\* sources of that register file are now complete.
setReady(reg) ==
    LET now   == ready \cup {reg}
        fires == {k \in DOMAIN callbacks : ~Unready(callbacks[k].inst, callbacks[k].file, now)}
        fired == ElementsAt(callbacks, fires)
        check[n \in 0..Len(fired)] ==
            IF n = 0 THEN CheckState(ElementsAt(callbacks, DOMAIN callbacks \ fires))
            ELSE operandIssueCheck(check[n - 1], fired[n].inst, now)
    IN  /\ ready' = now
        /\ Checked(check[Len(fired)])
        /\ UNCHANGED issue_queue_

\* Seeded fault: a pipe that is done wakes the queue only if something waits behind.
Wakes_Two == Len(ready_queue_) > 1

Wakes == ready_queue_ # << >>

readyExeUnit ==
    /\ ev_issue_ready_inst_' = (ev_issue_ready_inst_ \/ Wakes)
    /\ UNCHANGED <<issue_queue_, ready_queue_, ready, callbacks>>

-----------------------------------------------------------------------------
\* A queue without the instructions gone.
Kept(q, gone) == ElementsAt(q, {k \in DOMAIN q : q[k] \notin gone})

\* One round of the loop for one ready instruction: [pipe, left, sent].
offer(st, i) ==
    LET pipes == PipeMapping[program[i.pid].target]
        free  == {k \in DOMAIN pipes : ~st.pipe[pipes[k]].unit_busy_}
    IN  IF free = {} THEN [st EXCEPT !.left = Append(@, i)]
        ELSE [pipe |-> [st.pipe EXCEPT ![pipes[Min(free)]] = insertInst(@, i, 0)],
              left |-> st.left, sent |-> st.sent \cup {i}]

sendReadyInsts ==
    LET offered[n \in 0..Len(ready_queue_)] ==
            IF n = 0 THEN [pipe |-> pipe, left |-> << >>, sent |-> {}]
            ELSE offer(offered[n - 1], ready_queue_[n])
        st == offered[Len(ready_queue_)]
    IN  /\ ev_issue_ready_inst_
        /\ ev_issue_ready_inst_' = FALSE
        /\ pipe' = st.pipe
        /\ ready_queue_' = st.left
        /\ issue_queue_' = Kept(issue_queue_, st.sent)
        /\ UNCHANGED <<ready, callbacks>>

-----------------------------------------------------------------------------
\* Seeded fault: the callbacks of flushed instructions stay.
KeptCallbacks_All(flushed) == callbacks

KeptCallbacks(flushed) ==
    ElementsAt(callbacks, {k \in DOMAIN callbacks : callbacks[k].inst \notin flushed})

\* Credits sent for the entries of issue_queue_ that an issue or a flush removes.
CreditsToSend(gone) == Cardinality(gone \cap ToSet(issue_queue_))

\* Callbacks are cleared for what is dropped from issue_queue_.
flushQueue(flushed) ==
    /\ issue_queue_' = Kept(issue_queue_, flushed)
    /\ ready_queue_' = Kept(ready_queue_, flushed)
    /\ callbacks' = KeptCallbacks(flushed \cap ToSet(issue_queue_))
    /\ UNCHANGED <<ev_issue_ready_inst_, ready>>
=============================================================================
