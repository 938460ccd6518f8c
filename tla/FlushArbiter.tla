---------------------------- MODULE FlushArbiter ----------------------------
(***************************************************************************)
(* The FlushManager with any number of requesters.  The core binds only    *)
(* ROB to in_flush_request today; the arbitration is written for several.  *)
(*                                                                         *)
(* Instructions up to `renamed` are past Decode.  A misfetch is found by   *)
(* Fetch or Decode, so it names a younger one, and every other cause is    *)
(* found past Decode; no instruction leaves Decode between a request and   *)
(* the flush.                                                              *)
(***************************************************************************)
EXTENDS FlushManager

CONSTANT Uids   \* unique ids of the instructions in flight

ASSUME UidAssumption == Uids \subseteq Nat /\ NoFlush \notin FlushingCriteria

VARIABLES renamed,   \* the youngest instruction past Decode
          requests   \* the requests of the current round

arbiterVars == <<phase, pc, flushVars, renamed, requests>>

ArbiterInit ==
    /\ phase = "port" /\ pc = "idle"
    /\ FlushInit
    /\ renamed \in Uids
    /\ requests = {}

\* A unit asks for a flush.  Sparta delivers all requests of a cycle before
\* the event that forwards one of them.
Request ==
    /\ phase = "units" /\ pc = "idle"
    /\ flush_upper = NoFlush /\ flush_lower = NoFlush
    /\ \E cause \in FlushCauses, uid \in Uids :
         LET crit == [cause |-> cause, uid |-> uid, pid |-> 0]
         IN  /\ isLowerPipeFlush(crit) <=> uid > renamed
             /\ receiveFlush(crit)
             /\ requests' = requests \cup {crit}
    /\ UNCHANGED <<phase, pc, renamed>>

Forward == forwardFlush /\ UNCHANGED <<phase, pc, renamed, requests>>

\* The flush phase of the next cycle: the units have dropped the instructions.
Deliver ==
    /\ phase = "flush"
    /\ flush_upper # NoFlush \/ flush_lower # NoFlush
    /\ flush_upper' = NoFlush /\ flush_lower' = NoFlush
    /\ requests' = {}
    /\ UNCHANGED <<phase, pc, pending_flush_, ev_flush_, renamed>>

\* Instructions are renamed, or dropped by a flush.
Move ==
    /\ phase = "rename" /\ requests = {}
    /\ renamed' \in Uids
    /\ UNCHANGED <<phase, pc, flushVars, requests>>

ArbiterPhase ==
    /\ phase = "units" => ~ev_flush_
    /\ phase = "flush" => flush_upper = NoFlush /\ flush_lower = NoFlush
    /\ phase' = NextOf(phase)
    /\ UNCHANGED <<pc, flushVars, renamed, requests>>

ArbiterNext == Request \/ Forward \/ Deliver \/ Move \/ ArbiterPhase

ArbiterSpec == ArbiterInit /\ [][ArbiterNext]_arbiterVars

-----------------------------------------------------------------------------
\* Instruction v is dropped by flush crit where it is: the lower pipe is only
\* told of misfetches, and a lower flush does not reach past Decode.
DroppedBy(crit, v) == /\ includedInFlush(crit, v)
                      /\ isLowerPipeFlush(crit) => v > renamed

\* However many requests arrive in a cycle and in whatever order, the one flush
\* that is forwarded drops every instruction that any of them asked to drop.
ForwardedCoversAll ==
    \A crit \in {flush_upper, flush_lower} \ {NoFlush} :
        \A r \in requests, v \in Uids : includedInFlush(r, v) => DroppedBy(crit, v)

-----------------------------------------------------------------------------
(* The inductive invariant behind it.                                      *)

TypeInv ==
    /\ phase \in Phases /\ pc = "idle"
    /\ pending_flush_ \in FlushingCriteria \cup {NoFlush}
    /\ flush_upper \in FlushingCriteria \cup {NoFlush}
    /\ flush_lower \in FlushingCriteria \cup {NoFlush}
    /\ ev_flush_ \in BOOLEAN
    /\ renamed \in Uids /\ requests \subseteq FlushingCriteria

\* A request is for the lower pipe exactly when it names what is still there.
RequestInv ==
    /\ \A r \in requests : isLowerPipeFlush(r) <=> r.uid > renamed
    /\ \A crit \in {pending_flush_, flush_upper, flush_lower} \ {NoFlush} : crit \in requests

\* The flush that is pending or forwarded stands for all requests.
CoverInv ==
    /\ \A crit \in {pending_flush_, flush_upper, flush_lower} \ {NoFlush} :
           \A r \in requests, v \in Uids : includedInFlush(r, v) => includedInFlush(crit, v)
    /\ flush_upper = NoFlush \/ flush_lower = NoFlush
    /\ pending_flush_ # NoFlush => flush_upper = NoFlush /\ flush_lower = NoFlush
    /\ requests # {} /\ flush_upper = NoFlush /\ flush_lower = NoFlush
           => pending_flush_ # NoFlush

ArbiterInv == TypeInv /\ RequestInv /\ CoverInv

=============================================================================
