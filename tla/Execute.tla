------------------------------ MODULE Execute ------------------------------
(***************************************************************************)
(* An issue queue with its pipes (core/execute/Execute.cpp), and the rest  *)
(* of the core by contract: Dispatch sends the trace in order and with     *)
(* credits; units other than this one execute the "other" instructions;    *)
(* ROB retires in order and flushes behind a mispredicted branch once that *)
(* has retired, so what is flushed is everything younger; then the trace   *)
(* goes on behind the branch with new unique ids.                          *)
(*                                                                         *)
(* A cycle is: "port", instructions of Dispatch; "flush"; "pipes", events  *)
(* of the pipes and updates of the scoreboard, in any order; "issue",      *)
(* sendReadyInsts_, which follows the pipes' zero-cycle messages.          *)
(***************************************************************************)
EXTENDS IssueQueue

CONSTANTS Programs     \* traces: sequences of instructions

\* A source is the register of an older instruction, or register 0.
ASSUME ProgramAssumption ==
    \A pr \in Programs :
        /\ pr \in Seq([target : DOMAIN PipeMapping \cup {"other"}, srcs : [Files -> SUBSET Nat],
                       branch : BOOLEAN, time : Nat \ {0},
                       vlmax : Nat, lmul : Nat \ {0}, vl : Nat, uop : Nat])
        /\ \A k \in DOMAIN pr, f \in Files : pr[k].srcs[f] \subseteq 0..k - 1
        /\ \A k \in DOMAIN pr : pr[k].vl + pr[k].vlmax < UIntSize

VARIABLES phase,
          next_pid, next_uid,  \* of the next instruction to dispatch
          credits,             \* Dispatch's credits of this queue
          live,                \* dispatched instructions that have not completed
          writes,              \* results on their way to the scoreboard: [reg, due]
          flushed_by,          \* program id of the last branch that flushed
          cut                  \* history: pipes that a flush met between two passes

envVars == <<next_pid, next_uid, credits, live, writes, flushed_by, cut>>
vars == <<phase, program, pipe, fifo_, iqVars, envVars>>

Here(i) == program[i.pid].target # "other"

-----------------------------------------------------------------------------
(* The rest of the core.                                                   *)

\* Rename has marked the destination as not ready.
Dispatch ==
    LET i == [uid |-> next_uid, pid |-> next_pid]
    IN  /\ phase = "port" /\ next_pid <= Len(program)
        /\ IF Here(i)
           THEN /\ credits > 0
                /\ credits' = credits - 1
                /\ receiveInstsFromDispatch(i, ready \ {i.pid})
           ELSE /\ ready' = ready \ {i.pid}
                /\ UNCHANGED <<credits, issue_queue_, ready_queue_, ev_issue_ready_inst_, callbacks>>
        /\ live' = live \cup {i}
        /\ next_pid' = next_pid + 1 /\ next_uid' = next_uid + 1
        /\ UNCHANGED <<phase, program, pipe, fifo_, writes, flushed_by, cut>>

OtherUnitCompletes ==
    /\ phase = "pipes"
    /\ \E i \in live : /\ ~Here(i)
                       /\ \A f \in Files : Srcs(i, f) \subseteq ready
                       /\ live' = live \ {i}
                       /\ writes' = writes \cup {[reg |-> i.pid, due |-> 1]}
    /\ UNCHANGED <<phase, program, pipe, fifo_, iqVars, next_pid, next_uid, credits, flushed_by, cut>>

\* A branch that has retired, and with it everything older.
Flush ==
    /\ phase = "flush"
    /\ \E b \in flushed_by + 1..next_pid - 1 :
         LET flushed == {i \in live : i.pid > b}
         IN  /\ program[b].branch /\ \A i \in live : i.pid > b
             /\ flushQueue(flushed)
             /\ pipe' = [p \in Pipes |-> flushPipe(pipe[p], flushed)]
             /\ credits' = credits + CreditsToSend(flushed)
             /\ live' = live \ flushed
             /\ next_pid' = b + 1 /\ flushed_by' = b
    /\ cut' = cut \cup {p \in Pipes : ~FirstPass(pipe[p])}
    /\ phase' = "pipes"
    /\ UNCHANGED <<program, fifo_, next_uid, writes>>

-----------------------------------------------------------------------------
(* Pipes and scoreboard.                                                   *)

ScoreboardUpdate ==
    /\ phase = "pipes"
    /\ \E w \in writes : w.due = 0 /\ setReady(w.reg) /\ writes' = writes \ {w}
    /\ UNCHANGED <<phase, program, pipe, fifo_, next_pid, next_uid, credits, live, flushed_by, cut>>

PipeExecutes ==
    /\ phase = "pipes"
    /\ \E p \in Pipes : \E e \in pipe[p].execute :
         /\ e.due = 0
         /\ pipe' = [pipe EXCEPT ![p] = executeInst(@, e)]
         /\ writes' = IF AnotherPass(pipe[p]) THEN writes
                      ELSE writes \cup {[reg |-> e.inst.pid, due |-> 1]}
    /\ UNCHANGED <<phase, program, fifo_, iqVars, next_pid, next_uid, credits, live, flushed_by, cut>>

PipeReissues ==
    /\ phase = "pipes"
    /\ \E p \in Pipes : \E e \in pipe[p].issue : pipe' = [pipe EXCEPT ![p] = reissueInst(@, e)]
    /\ UNCHANGED <<phase, program, fifo_, iqVars, envVars>>

PipeCompletes ==
    /\ phase = "pipes"
    /\ \E p \in Pipes : \E e \in pipe[p].complete :
         /\ e.due = 0
         /\ pipe' = [pipe EXCEPT ![p] = completeInst(@, e)]
         /\ live' = live \ {e.inst}
    /\ readyExeUnit
    /\ UNCHANGED <<phase, program, fifo_, next_pid, next_uid, credits, writes, flushed_by, cut>>

Issue ==
    /\ phase = "issue"
    /\ sendReadyInsts
    /\ credits' = credits + CreditsToSend(ToSet(issue_queue_) \ ToSet(issue_queue_'))
    /\ UNCHANGED <<phase, program, fifo_, next_pid, next_uid, live, writes, flushed_by, cut>>

-----------------------------------------------------------------------------
NextOf == [port |-> "flush", flush |-> "pipes", pipes |-> "issue", issue |-> "port"]

PhaseDone ==
    /\ phase = "pipes" => /\ \A p \in Pipes : /\ pipe[p].issue = {}
                                              /\ \A e \in pipe[p].execute \cup pipe[p].complete :
                                                    e.due > 0
                          /\ \A w \in writes : w.due > 0
    /\ phase = "issue" => ~ev_issue_ready_inst_

nextPhase ==
    /\ PhaseDone
    /\ phase' = NextOf[phase]
    /\ IF phase = "issue"
       THEN /\ pipe' = [p \in Pipes |-> AgedPipe(pipe[p])]
            /\ writes' = {[w EXCEPT !.due = @ - 1] : w \in writes}
       ELSE UNCHANGED <<pipe, writes>>
    /\ UNCHANGED <<program, fifo_, iqVars, next_pid, next_uid, credits, live, flushed_by, cut>>

Init ==
    /\ phase = "port" /\ program \in Programs /\ fifo_ \in BOOLEAN
    /\ pipe = [p \in Pipes |-> IdlePipe]
    /\ issue_queue_ = << >> /\ ready_queue_ = << >> /\ ev_issue_ready_inst_ = FALSE
    /\ ready = {0} /\ callbacks = << >>
    /\ next_pid = 1 /\ next_uid = 1 /\ credits = SchedulerSize
    /\ live = {} /\ writes = {} /\ flushed_by = 0 /\ cut = {}

Handlers == ScoreboardUpdate \/ PipeExecutes \/ PipeReissues \/ PipeCompletes \/ Issue

Next == Handlers \/ Dispatch \/ OtherUnitCompletes \/ Flush \/ nextPhase

Spec == Init /\ [][Next]_vars

\* Sparta runs every handler and the clock never stops; Dispatch sends what has a
\* credit and other units finish in the end.
FairSpec == Spec /\ WF_vars(Handlers) /\ WF_vars(nextPhase)
                 /\ SF_vars(Dispatch) /\ SF_vars(OtherUnitCompletes)

-----------------------------------------------------------------------------
(* Properties.                                                             *)

InstType == [uid : Nat \ {0}, pid : 1..Len(program)]
EventType == [inst : InstType, due : Nat, passes : Nat]

Events(p) == UNION {p.execute, p.issue, p.complete}

\* Every variable has its type.
TypeOK ==
    /\ phase \in DOMAIN NextOf /\ program \in Programs
    /\ {ev_issue_ready_inst_, fifo_} \subseteq BOOLEAN
    /\ {issue_queue_, ready_queue_} \subseteq Seq(InstType)
    /\ callbacks \in Seq([inst : InstType, file : Files])
    /\ ready \subseteq 0..Len(program)
    /\ \A p \in Pipes : /\ DOMAIN pipe[p] = DOMAIN IdlePipe
                        /\ {pipe[p].num_passes_needed_, pipe[p].curr_num_pass_} \subseteq Nat
                        /\ Events(pipe[p]) \subseteq EventType
                        /\ \A e \in pipe[p].complete : e.due \in {0, 1}
    /\ {next_pid, next_uid, credits, flushed_by} \subseteq Nat
    /\ live \subseteq InstType /\ cut \subseteq Pipes
    /\ writes \subseteq [reg : 1..Len(program), due : {0, 1}]

EventsOf(i) == UNION {{<<p, e>> : e \in {x \in Events(pipe[p]) : x.inst = i}} : p \in Pipes}

PlacesOf(x, q) == {k \in DOMAIN q : q[k] = x}

\* Every instruction of this queue that is neither completed nor flushed is in
\* exactly one place, the issue queue or one event of one pipe, and nothing else
\* is anywhere: not in the ready queue, in a callback or in a pipe.
InOnePlace ==
    /\ \A i \in {x \in live : Here(x)} :
          Cardinality(PlacesOf(i, issue_queue_)) + Cardinality(EventsOf(i)) = 1
    /\ \A p \in Pipes : \A e \in Events(pipe[p]) : e.inst \in live
    /\ ToSet(issue_queue_) \subseteq live
    /\ ToSet(ready_queue_) \cup {c.inst : c \in ToSet(callbacks)} \subseteq ToSet(issue_queue_)

\* Sources that may not be ready are in one register file.
OneFile(i) == \A f, g \in Files : f # g => Srcs(i, f) \subseteq {0} \/ Srcs(i, g) \subseteq {0}

\* An instruction in the queue is either ready, once and with all its sources, or has
\* one callback of the scoreboard, for the register file that it waits for: none
\* issues early or twice, none is forgotten.  This is said of instructions that wait
\* in one register file; in two, the code breaks it (ReadyOnce).
OperandsExact ==
    \A i \in ToSet(issue_queue_) : OneFile(i) =>
      LET waits == {f \in Files : ~(Srcs(i, f) \subseteq ready)}
      IN  /\ Cardinality(PlacesOf(i, ready_queue_)) = (IF waits = {} THEN 1 ELSE 0)
          /\ \A f \in Files : Cardinality(PlacesOf([inst |-> i, file |-> f], callbacks))
                                  = (IF f \in waits THEN 1 ELSE 0)

\* "we wait till the final callback comes back and checks in the case where both RF
\* are ready at the same time": an instruction becomes ready once, also if it waits in
\* two register files.
ReadyOnce == \A i \in ToSet(ready_queue_) : Cardinality(PlacesOf(i, ready_queue_)) = 1

\* A pipe is busy exactly while it has an instruction to execute, and only one; so
\* canAccept never lets a second one in and a flush never leaves it busy for good.
BusyExact ==
    \A p \in Pipes : Cardinality(pipe[p].execute \cup pipe[p].issue) =
                         IF pipe[p].unit_busy_ THEN 1 ELSE 0

\* Between cycles a ready instruction waits for a pipe that will wake the queue.
IssueWakes ==
    phase = "port" => \A i \in ToSet(ready_queue_) : ev_issue_ready_inst_ \/
        \E p \in ToSet(PipeMapping[program[i.pid].target]) :
            pipe[p].execute \cup pipe[p].complete # {}

\* An entry of the queue is occupied or a credit of Dispatch, once.
CreditsConserved == credits + Len(issue_queue_) = SchedulerSize

\* Elements of the uop that are below VL: it has those from UOpID * num_elems_per_uop.
BodyElements(op) == Max({0, Min({ElementsPerUop(op), op.vl - ElementsPerUop(op) * op.uop})})

\* An instruction other than a vector integer uop leaves its pipe after one pass.  A uop
\* leaves it after no more passes than a uop full of elements takes, and after enough
\* for its elements below VL if the adders divide a full uop (the code rounds down).
\* It is so whatever the pipe executed before and whatever was flushed from it, except
\* once a flush has met the pipe between two passes (NoPassTooMany).
PassesExact ==
    \A p \in Pipes \ cut : \A e \in pipe[p].complete :
        LET op   == program[e.inst.pid]
            full == ElementsPerUop(op)
        IN  IF isVInt(e.inst)
            THEN /\ e.passes <= Max({1, full \div Adders})
                 /\ full % Adders = 0 \/ full < Adders => e.passes * Adders >= BodyElements(op)
            ELSE e.passes = 1

\* The queue keeps each instruction in one place and has an entry or a credit for it:
\* a flush leaves no copy, callback or event of what it dropped.
QueueExact == TypeOK /\ InOnePlace /\ CreditsConserved

\* Readiness is never missed: instructions become ready with their last source, once,
\* and are then offered to a pipe until one takes them.
ReadyExact == OperandsExact /\ IssueWakes

\* A pipe holds one instruction at a time, for as many passes as its elements need.
PipesExact == BusyExact /\ PassesExact

\* "Instruction with multiple passes incremented for more than the total number of
\* passes needed for instruction": the assertion of insertInst.
NoPassTooMany == \A p \in Pipes : pipe[p].curr_num_pass_ <= pipe[p].num_passes_needed_

\* The whole trace completes, whatever is flushed, except uops between two passes:
\* counters that stay make the pipe issue a scalar instruction again and again.
TraceCompletes == <>[](next_pid = Len(program) + 1 /\ live = {}) \/ <>(cut # {})
=============================================================================
