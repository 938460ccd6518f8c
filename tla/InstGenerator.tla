--------------------------- MODULE InstGenerator ---------------------------
(***************************************************************************)
(* The instruction generators (core/InstGenerator.cpp): a trace, the place *)
(* in it, and unique ids that go on growing when the trace is rewound.     *)
(*                                                                         *)
(* An instruction is its unique id and its program id; what the trace says *)
(* of it is trace[pid]: the ICache line and the fetch block of its PC,     *)
(* whether it changes the flow (cof, taken) and its kind, for a vset with  *)
(* the vector configuration it asks for.                                   *)
(***************************************************************************)
EXTENDS Integers, Sequences, FiniteSets

CONSTANT Traces   \* the traces to run

VARIABLES trace, next_pid, next_uid

instGeneratorVars == <<trace, next_pid, next_uid>>

InstGeneratorInit == trace \in Traces /\ next_pid = 1 /\ next_uid = 1

isDone == next_pid > Len(trace)

\* The next n instructions of the trace, or those that are left.
Left(n) == LET rest == Len(trace) - next_pid + 1 IN IF n <= rest THEN n ELSE rest

NextInsts(n) == [k \in 1..Left(n) |-> [uid |-> next_uid + k - 1, pid |-> next_pid + k - 1]]

getNextInsts(n) ==
    /\ next_pid' = next_pid + Left(n)
    /\ next_uid' = next_uid + Left(n)
    /\ UNCHANGED trace

\* Seeded fault: the instruction is always skipped.
ResetTo_Skip(i, skip) == i.pid + 1

\* Where the trace goes on after a rewind to instruction i.
ResetTo(i, skip) == IF skip THEN i.pid + 1 ELSE i.pid

reset(i, skip) == next_pid' = ResetTo(i, skip) /\ UNCHANGED <<trace, next_uid>>
=============================================================================
