---------------------------- MODULE ExecutePipe ----------------------------
(***************************************************************************)
(* The execution pipes of an issue queue (core/execute/ExecutePipe.cpp).   *)
(* A pipe executes one instruction at a time; a vector integer uop with    *)
(* more elements than adders goes through it several times.  The state of  *)
(* a pipe is a record and a handler an operator from record to record, as  *)
(* the issue queue hands out several instructions in one step.             *)
(*                                                                         *)
(* execute and complete are the outstanding events execute_inst_ and       *)
(* complete_inst_, [inst, due, passes]; issue is issue_inst_, which has no *)
(* delay.  passes is a history field: how often the instruction entered.   *)
(***************************************************************************)
EXTENDS Integers, FiniteSetsExt

CONSTANTS Pipes,
          Adders,   \* valu_adder_num
          UIntSize  \* the values of a uint32_t

ASSUME ExecutePipeAssumption == Adders \in Nat \ {0} /\ UIntSize \in Nat \ {0}

VARIABLES program,  \* the instructions that a trace holds, by program id
          pipe      \* the state of each pipe

IdlePipe == [unit_busy_ |-> FALSE, num_passes_needed_ |-> 0, curr_num_pass_ |-> 0,
             execute |-> {}, issue |-> {}, complete |-> {}]

ElementsPerUop(op) == op.vlmax \div op.lmul

\* Elements are counted from the uop before, as UOpID starts at 0: the first uop has
\* VL + num_elems_per_uop remaining.  A uop further behind VL (of a widening
\* instruction or a whole register move) has fewer than none, which wraps: it goes
\* through as often as a full one.  The division is an integer division before its
\* ceiling is taken.
NumPasses(i) ==
    LET op        == program[i.pid]
        remaining == (op.vl - ElementsPerUop(op) * (op.uop - 1)) % UIntSize
    IN  Min({ElementsPerUop(op), remaining}) \div Adders

isVInt(i) == program[i.pid].target = "vint"

FirstPass(p) == p.num_passes_needed_ = 0

\* The assertions that the pipe is not busy on a first pass and that no pass is
\* one too many are stated as properties.
insertInst(p, i, entered) ==
    LET multi == isVInt(i) /\ FirstPass(p) /\ NumPasses(i) > 1
    IN  [p EXCEPT !.num_passes_needed_ = IF multi THEN NumPasses(i) ELSE @,
                  !.curr_num_pass_ = IF multi THEN 1
                                     ELSE IF isVInt(i) /\ ~FirstPass(p) THEN @ + 1 ELSE @,
                  !.unit_busy_ = TRUE,
                  !.execute = @ \cup {[inst |-> i, due |-> program[i.pid].time,
                                       passes |-> entered + 1]}]

AnotherPass(p) == p.num_passes_needed_ # 0 /\ p.curr_num_pass_ < p.num_passes_needed_

CompleteDelay(e) == 1

\* The event e of execute_inst_; the write of the destination is the caller's.
executeInst(p, e) ==
    IF AnotherPass(p)
    THEN [p EXCEPT !.execute = @ \ {e}, !.issue = @ \cup {e}]
    ELSE [p EXCEPT !.execute = @ \ {e}, !.num_passes_needed_ = 0, !.curr_num_pass_ = 0,
                   !.unit_busy_ = FALSE, !.complete = @ \cup {[e EXCEPT !.due = CompleteDelay(e)]}]

\* issue_inst_ calls insertInst.
reissueInst(p, e) == insertInst([p EXCEPT !.issue = @ \ {e}], e.inst, e.passes)

completeInst(p, e) == [p EXCEPT !.complete = @ \ {e}]

\* Seeded fault: a flush leaves the pipe busy.
BusyAfterFlush_Same(p, left) == p.unit_busy_

BusyAfterFlush(p, left) == IF left = {} THEN FALSE ELSE p.unit_busy_

\* The pass counters stay as they are.
flushPipe(p, flushed) ==
    LET left == {e \in p.execute : e.inst \notin flushed}
    IN  [p EXCEPT !.issue = {}, !.complete = {e \in @ : e.inst \notin flushed}, !.execute = left,
                  !.unit_busy_ = BusyAfterFlush(p, left)]

AgedPipe(p) ==
    LET aged(evs) == {[e EXCEPT !.due = @ - 1] : e \in evs}
    IN  [p EXCEPT !.execute = aged(@), !.complete = aged(@)]
=============================================================================
