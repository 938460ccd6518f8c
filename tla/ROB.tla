-------------------------------- MODULE ROB --------------------------------
(***************************************************************************)
(* The reorder buffer (core/ROB.cpp): instructions enter in program order  *)
(* when they are dispatched and retire in that order once they are         *)
(* completed.  There is no retirement poll: a session runs after every     *)
(* append and, through Inst::setOldest and Inst::setStatus, when the       *)
(* instruction it marked as oldest completes.  A retired instruction may   *)
(* ask for a flush, and retirement then waits for the flush to come back.  *)
(* A session is one begin step, a step per instruction and an end step.    *)
(***************************************************************************)
EXTENDS FlushManager

CONSTANTS RetireQueueDepth,   \* retire_queue_depth
          NumToRetire,        \* num_to_retire
          NumInstsToRetire    \* num_insts_to_retire, 0 for no limit

VARIABLES reorder_buffer_, expect_flush_, expected_program_id_, num_retired_, ev_retire_,
          \* the state of instructions in reorder_buffer_
          completed, mispredicted, oldest,
          \* locals of retireInstructions_
          num_to_retire, retired_insts, retired_this_cycle

robVars == <<reorder_buffer_, expect_flush_, expected_program_id_, num_retired_, ev_retire_,
             completed, mispredicted, oldest, num_to_retire, retired_insts, retired_this_cycle>>

retireLocals == <<num_to_retire, retired_insts, retired_this_cycle>>

ASSUME ROBAssumption ==
    RetireQueueDepth \in Nat \ {0} /\ NumToRetire \in Nat \ {0} /\ NumInstsToRetire \in Nat

ROBInit ==
    /\ reorder_buffer_ = << >>
    /\ expect_flush_ = FALSE
    /\ expected_program_id_ = 1 /\ num_retired_ = 0
    /\ ev_retire_ = {}
    /\ completed = {} /\ mispredicted = {} /\ oldest = {}
    /\ num_to_retire = 0 /\ retired_insts = << >> /\ retired_this_cycle = 0

robAppended(grp) ==
    /\ phase = "port" /\ pc = "idle"
    /\ reorder_buffer_' = reorder_buffer_ \o grp
    /\ ev_retire_' = ev_retire_ \cup {0}
    /\ UNCHANGED <<phase, pc, expect_flush_, expected_program_id_, num_retired_,
                   completed, mispredicted, oldest, retireLocals>>

\* Seeded fault: a completed instruction does not wake retirement.
WakeOnComplete_Never(i) == ev_retire_

\* Inst::setStatus: the instruction marked oldest schedules retirement.
WakeOnComplete(i) == IF i \in oldest THEN ev_retire_ \cup {1} ELSE ev_retire_

\* An execution unit completes i; a branch may turn out mispredicted.
setCompleted(i, miss) ==
    /\ i \in Elems(reorder_buffer_) /\ i \notin completed
    /\ completed' = completed \cup {i}
    /\ mispredicted' = IF miss THEN mispredicted \cup {i} ELSE mispredicted
    /\ ev_retire_' = WakeOnComplete(i)
    /\ UNCHANGED <<reorder_buffer_, expect_flush_, expected_program_id_, num_retired_,
                   oldest, retireLocals>>

-----------------------------------------------------------------------------
(* retireInstructions_.                                                    *)

retireInstructions ==
    /\ phase = "units" /\ pc = "idle"
    /\ 0 \in ev_retire_
    /\ ev_retire_' = ev_retire_ \ {0}
    /\ IF expect_flush_ THEN UNCHANGED <<pc, num_to_retire>>
       ELSE /\ pc' = "retire"
            /\ num_to_retire' = Least(Len(reorder_buffer_), NumToRetire)
    /\ UNCHANGED <<phase, reorder_buffer_, expect_flush_, expected_program_id_, num_retired_,
                   completed, mispredicted, oldest, retired_insts, retired_this_cycle>>

\* The session of a user that gave -i ends the simulation.
Stops(n) == NumInstsToRetire # 0 /\ n = NumInstsToRetire

\* The cause of the flush that retiring i asks for: a mispredicted branch, or
\* (retireSysInst_) a CSR instruction.
FlushCauseOf(i) == IF i \in mispredicted THEN "MISPREDICTION"
                   ELSE IF i.pipe = "SYS" /\ i.kind = "csr" THEN "POST_SYNC" ELSE "NONE"

\* The loop ends after i, the n-th instruction to retire.
BreaksAfter(i, n) == Stops(n) \/ FlushCauseOf(i) # "NONE"

\* Seeded fault: every uop advances the expected program id.
ExpectedAfter_EveryUop(i) == expected_program_id_ + 1

ExpectedAfter(i) == IF i.uop = 0 THEN expected_program_id_ + 1 ELSE expected_program_id_

\* The oldest instruction is completed and retires.  sparta_assert: its program
\* id is the expected one.
retireOne ==
    /\ pc = "retire"
    /\ num_to_retire > 0
    /\ LET i == Head(reorder_buffer_)
           first == i.uop = 0
           n == IF first THEN num_retired_ + 1 ELSE num_retired_
       IN  /\ i \in completed
           /\ num_retired_' = n
           /\ retired_this_cycle' = IF first THEN retired_this_cycle + 1 ELSE retired_this_cycle
           /\ expected_program_id_' = ExpectedAfter(i)
           /\ reorder_buffer_' = Tail(reorder_buffer_)
           /\ completed' = completed \ {i} /\ mispredicted' = mispredicted \ {i}
           /\ oldest' = oldest \ {i}
           /\ retired_insts' = Append(retired_insts, i)
           /\ num_to_retire' = IF BreaksAfter(i, n) THEN 0 ELSE num_to_retire - 1
           /\ IF FlushCauseOf(i) # "NONE" /\ ~Stops(n)
              THEN /\ receiveFlush([cause |-> FlushCauseOf(i), uid |-> i.uid, pid |-> i.pid])
                   /\ expect_flush_' = TRUE
              ELSE UNCHANGED <<flushVars, expect_flush_>>
    /\ UNCHANGED <<phase, pc, ev_retire_>>

\* The end of the session: keep retiring next cycle, or wait for the oldest.
\* Backend sends retired_insts to Rename and retired_this_cycle to Dispatch.
retireDone ==
    /\ pc = "retire"
    /\ num_to_retire > 0 => Head(reorder_buffer_) \notin completed
    /\ pc' = IF Stops(num_retired_) THEN "stopped" ELSE "idle"
    /\ IF reorder_buffer_ = << >> THEN UNCHANGED <<ev_retire_, oldest>>
       ELSE IF Head(reorder_buffer_) \in completed
       THEN ev_retire_' = ev_retire_ \cup {1} /\ UNCHANGED oldest
       ELSE oldest' = oldest \cup {Head(reorder_buffer_)} /\ UNCHANGED ev_retire_
    /\ num_to_retire' = 0 /\ retired_insts' = << >> /\ retired_this_cycle' = 0
    /\ UNCHANGED <<phase, reorder_buffer_, expect_flush_, expected_program_id_, num_retired_,
                   completed, mispredicted>>

\* What is left after a flush: the youngest instructions go, up to the first
\* that the criteria do not include.
Survivors(s, crit) ==
    LET kept == {k \in DOMAIN s : ~includedInFlush(crit, s[k].uid)}
    IN  SubSeq(s, 1, IF kept = {} THEN 0 ELSE CHOOSE k \in kept : \A j \in kept : j <= k)

\* handleFlush_.  sparta_assert: ROB expects the flush.
handleROBFlush(crit) ==
    /\ expect_flush_
    /\ expect_flush_' = FALSE
    /\ reorder_buffer_' = Survivors(reorder_buffer_, crit)
    /\ completed' = completed \cap Elems(reorder_buffer_')
    /\ mispredicted' = mispredicted \cap Elems(reorder_buffer_')
    /\ oldest' = oldest \cap Elems(reorder_buffer_')
    /\ UNCHANGED <<expected_program_id_, num_retired_, ev_retire_, retireLocals>>
=============================================================================
