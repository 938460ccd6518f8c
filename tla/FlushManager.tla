---------------------------- MODULE FlushManager ----------------------------
(***************************************************************************)
(* The FlushManager (core/FlushManager.hpp): of the flush requests of a    *)
(* cycle it forwards one to the units, one cycle later, in the flush       *)
(* phase.  A misfetch goes to the lower pipe (Fetch and Decode) only.      *)
(***************************************************************************)
EXTENDS Pipeline

CONSTANT NoFlush

VARIABLES pending_flush_, ev_flush_, flush_upper, flush_lower

flushVars == <<pending_flush_, ev_flush_, flush_upper, flush_lower>>

FlushCauses == {"TRAP", "MISFETCH", "MISPREDICTION", "TARGET_MISPREDICTION", "POST_SYNC"}

determineInclusive(cause) == cause \in {"TRAP", "MISFETCH"}

\* FlushingCriteria: the cause, and the instruction by its unique id and its
\* program id.
FlushingCriteria == [cause : FlushCauses, uid : Nat, pid : Nat]

isLowerPipeFlush(crit) == crit.cause = "MISFETCH"

\* FlushingCriteria::includedInFlush
includedInFlush(crit, uid) ==
    IF determineInclusive(crit.cause) THEN crit.uid <= uid ELSE crit.uid < uid

FlushInit == /\ pending_flush_ = NoFlush /\ ev_flush_ = FALSE
             /\ flush_upper = NoFlush /\ flush_lower = NoFlush

\* Seeded fault: the first request of a cycle is kept.
Arbitrate_First(crit) == IF pending_flush_ # NoFlush THEN pending_flush_ ELSE crit

\* Only the oldest request is captured.
Arbitrate(crit) ==
    IF pending_flush_ # NoFlush /\ includedInFlush(pending_flush_, crit.uid)
    THEN pending_flush_ ELSE crit

receiveFlush(crit) ==
    /\ ev_flush_' = TRUE
    /\ pending_flush_' = Arbitrate(crit)
    /\ UNCHANGED <<flush_upper, flush_lower>>

\* forwardFlush_.  sparta_assert: there is a pending flush.
forwardFlush ==
    /\ phase = "units" /\ pc = "idle"
    /\ ev_flush_
    /\ pending_flush_ # NoFlush
    /\ IF isLowerPipeFlush(pending_flush_)
       THEN flush_lower' = pending_flush_ /\ UNCHANGED flush_upper
       ELSE flush_upper' = pending_flush_ /\ UNCHANGED flush_lower
    /\ ev_flush_' = FALSE
    /\ pending_flush_' = NoFlush
=============================================================================
