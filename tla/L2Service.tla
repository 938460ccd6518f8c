----------------------------- MODULE L2Service -----------------------------
(***************************************************************************)
(* What the memory system promises to ICache and DCache, without a queue,  *)
(* a cache or a bus: a line that a unit asks for is owed to that unit      *)
(* until it is answered, in any order.  FrontEnd uses the L2 cache by this *)
(* contract (L2Fills).                                                     *)
(***************************************************************************)
CONSTANTS Requesters, Lines

VARIABLES owed   \* the lines owed to each unit

Init == owed = [u \in Requesters |-> {}]

\* Several requests and answers may fall into one cycle; each is a step.
Ask(now, next) ==
    \E u \in Requesters : \E line \in Lines \ now[u] : next = [now EXCEPT ![u] = @ \cup {line}]

Answer(now, next) ==
    \E u \in Requesters : \E line \in now[u] : next = [now EXCEPT ![u] = @ \ {line}]

Next == LET now == owed
            next == owed'
        IN  Ask(now, next) \/ Answer(now, next)

Spec == Init /\ [][Next]_owed
=============================================================================
