------------------------------ MODULE Pipeline ------------------------------
(***************************************************************************)
(* What the units of the core share: the position in Sparta's cycle and    *)
(* the handler that is running.                                            *)
(*                                                                         *)
(* A cycle is: "port", messages of the last cycle are delivered; "flush",  *)
(* flushes are delivered; then the Tick phase, whose events Sparta orders  *)
(* from the sender of a zero-cycle message to its receiver: "units" (ROB,  *)
(* FlushManager and the execution units), "dispatch" (Dispatch, which      *)
(* takes their credits) and "rename" (Rename, which takes Dispatch's).  A  *)
(* zero-cycle message is therefore handled before its receiver's event,    *)
(* and its delivery is part of the step that sends it.  Handlers run to    *)
(* completion: while one that loops is running (pc # "idle") nothing else  *)
(* does.                                                                   *)
(***************************************************************************)
EXTENDS Integers, Sequences, FiniteSets

VARIABLES phase, pc

Phases == {"port", "flush", "units", "dispatch", "rename"}

NextOf(ph) == CASE ph = "port"     -> "flush"
                [] ph = "flush"    -> "units"
                [] ph = "units"    -> "dispatch"
                [] ph = "dispatch" -> "rename"
                [] ph = "rename"   -> "port"

Elems(s)   == {s[k] : k \in DOMAIN s}
Least(a, b) == IF a <= b THEN a ELSE b

\* Delays of pending events, one cycle later.
Aged(ev) == {d - 1 : d \in ev}

=============================================================================
