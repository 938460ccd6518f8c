------------------------------- MODULE Rename -------------------------------
(***************************************************************************)
(* The Rename unit (core/rename/Rename.cpp): architectural to physical     *)
(* register mapping with reference-counted physical registers, one FIFO    *)
(* freelist per register file, move elimination, reclaiming at retirement  *)
(* and recovery at a flush.                                                *)
(*                                                                         *)
(* Time.  Sparta runs each cycle in phases: messages of the last cycle are *)
(* delivered ("port"), then a flush ("flush"), then events and zero-cycle  *)
(* credits run ("tick").  Handlers run to completion; one that loops over  *)
(* instructions is a begin step, one step per instruction and an end step, *)
(* and while it runs (pc # "idle") nothing else does.                      *)
(*                                                                         *)
(* Registers.  The registers of all register files form one set; AFile and *)
(* PFile give the file of each.  x0 is the absent register NoReg: the code *)
(* tests is_x0 wherever it tests for a destination, and integer physical   *)
(* register 0 is never mapped nor free.  An instruction has at most one    *)
(* source and one destination that matter: every loop over operands treats *)
(* them independently.                                                     *)
(*                                                                         *)
(* Identity.  uid stands for the identity of the Inst object.  Vector uops *)
(* of one instruction share getUniqueID() but are distinct objects in      *)
(* program order, so distinct increasing uids only add flush points.       *)
(***************************************************************************)
EXTENDS Integers, Sequences, FiniteSets

CONSTANTS
    RegFiles, ARegs, PRegs, NoReg,
    AFile,               \* [ARegs -> RegFiles]
    PFile,               \* [PRegs -> RegFiles]
    InitMap,             \* [ARegs -> PRegs], the map table after the constructor
    InitFree,            \* [RegFiles -> Seq(PRegs)], the freelists after it
    Ops,                 \* the operands and kinds Decode may send
    RenameQueueDepth,    \* rename_queue_depth
    NumToRename,         \* num_to_rename
    DispatchQueueDepth,  \* dispatch_queue_depth of Dispatch
    PartialRename,       \* partial_rename
    MoveElimination,     \* move_elimination
    MaxUid               \* bound: instructions decoded in a behaviour

Kinds   == {"alu", "load", "move"}
OptAReg == ARegs \cup {NoReg}
OptPReg == PRegs \cup {NoReg}
Op      == [src : OptAReg, dst : OptAReg, kind : Kinds]
Uop     == [uid : Nat, src : OptAReg, dst : OptAReg, kind : Kinds]
Renamed == [uid : Nat, src : OptAReg, dst : OptAReg, kind : Kinds,
            psrc : OptPReg, pdst : OptPReg, prev : OptPReg,
            load_producer : BOOLEAN]

SeqRange(s) == {s[k] : k \in DOMAIN s}
NoDup(s)    == \A j, k \in DOMAIN s : s[j] = s[k] => j = k

ASSUME RegisterAssumption ==
    /\ IsFiniteSet(ARegs) /\ IsFiniteSet(PRegs)
    /\ NoReg \notin ARegs /\ NoReg \notin PRegs
    /\ ARegs \cap Nat = {} /\ NoReg \notin Nat
    /\ AFile \in [ARegs -> RegFiles] /\ PFile \in [PRegs -> RegFiles]
    /\ InitMap \in [ARegs -> PRegs]
    /\ \A a \in ARegs : PFile[InitMap[a]] = AFile[a]
    /\ \A a, b \in ARegs : InitMap[a] = InitMap[b] => a = b

ASSUME FreelistAssumption ==
    /\ InitFree \in [RegFiles -> Seq(PRegs)]
    /\ \A f \in RegFiles : NoDup(InitFree[f])
    /\ \A f \in RegFiles : SeqRange(InitFree[f]) =
            {p \in PRegs : PFile[p] = f /\ \A a \in ARegs : InitMap[a] # p}

ASSUME ParameterAssumption ==
    /\ Ops \subseteq Op
    /\ RenameQueueDepth \in Nat \ {0} /\ NumToRename \in Nat \ {0}
    /\ DispatchQueueDepth \in Nat \ {0} /\ MaxUid \in Nat
    /\ PartialRename \in BOOLEAN /\ MoveElimination \in BOOLEAN

VARIABLES
    phase, pc,
    \* Rename's own state
    uop_queue_, inst_queue_, map_table_, cnt, producer_is_load, freelist,
    regcount,                               \* uop_queue_regcount_data_
    credits_dispatch_, ev_schedule_rename_, ev_rename_insts_,
    \* locals of the handler that is running
    num_to_rename, num_renamed, ack_group, flush_crit,
    \* its ports: Decode's credit count, instructions on their way to Dispatch
    uop_queue_credits_, to_dispatch,
    next_uid,                               \* the next instruction of Decode
    val                                     \* history: the value of each physical register

regs    == <<map_table_, cnt, producer_is_load, freelist, val>>
events  == <<ev_schedule_rename_, ev_rename_insts_>>
locals  == <<num_to_rename, num_renamed, ack_group, flush_crit>>
vars    == <<phase, pc, uop_queue_, inst_queue_, regs, regcount,
             credits_dispatch_, events, locals, uop_queue_credits_,
             to_dispatch, next_uid>>

NoCrit     == [uid |-> 0, inclusive |-> FALSE]
Min2(a, b) == IF a <= b THEN a ELSE b

-----------------------------------------------------------------------------
(* Register bookkeeping.                                                   *)

\* Destinations of q that updateRegcountData_ counts: those of the first
\* instruction only with partial renaming, else those of the whole queue.
Counted(q, f) == {k \in DOMAIN q : /\ PartialRename => k = 1
                                   /\ q[k].dst # NoReg
                                   /\ AFile[q[k].dst] = f}

RegCountData(q) == [f \in RegFiles |-> Cardinality(Counted(q, f))]

enoughRenames == \A f \in RegFiles : regcount[f] <= Len(freelist[f])

\* Seeded fault: the destination is renamed before the source.
renameSource_AfterDest(u) ==
    IF u.src = NoReg THEN NoReg
    ELSE IF u.src = u.dst THEN Head(freelist[AFile[u.dst]]) ELSE map_table_[u.src]

\* renameSources_: the physical register of the source.
renameSource(u) == IF u.src = NoReg THEN NoReg ELSE map_table_[u.src]

\* renameDests_ eliminates a move whose source is in the same register file.
eliminated(u) == /\ MoveElimination
                 /\ u.kind = "move"
                 /\ u.src # NoReg
                 /\ AFile[u.src] = AFile[u.dst]

renameDest(u) == IF eliminated(u) THEN renameSource(u) ELSE Head(freelist[AFile[u.dst]])

\* Seeded fault: every dropped reference frees the register.
Reclaim_Every(p, f) ==
    /\ cnt' = [cnt EXCEPT ![p] = @ - 1]
    /\ freelist' = [freelist EXCEPT ![f] = Append(@, p)]

\* A reference to p is dropped; the last one puts p on the freelist of f.
Reclaim(p, f) ==
    /\ cnt' = [cnt EXCEPT ![p] = @ - 1]
    /\ freelist' = IF cnt[p] = 1 THEN [freelist EXCEPT ![f] = Append(@, p)] ELSE freelist

-----------------------------------------------------------------------------
(* Messages that arrive in the port phase.                                 *)

\* decodedInstructions_: queue the group and schedule a rename session.
decodedInstructions(grp) ==
    /\ phase = "port" /\ pc = "idle"
    /\ uop_queue_' = uop_queue_ \o grp
    /\ regcount' = RegCountData(uop_queue_')
    /\ ev_schedule_rename_' = ev_schedule_rename_ \cup {0}
    /\ UNCHANGED <<phase, pc, inst_queue_, regs, credits_dispatch_,
                   ev_rename_insts_, locals, to_dispatch>>

\* getAckFromROB_ receives a group of retired instructions ...
getAckFromROB(grp) ==
    /\ phase = "port" /\ pc = "idle"
    /\ grp # << >>
    /\ pc' = "ack"
    /\ ack_group' = grp
    /\ UNCHANGED <<phase, uop_queue_, inst_queue_, regs, regcount, credits_dispatch_,
                   events, num_to_rename, num_renamed, flush_crit,
                   uop_queue_credits_, to_dispatch, next_uid>>

\* Seeded fault: freed registers do not wake a stalled session.
WakeAfterAck_Never == ev_schedule_rename_

\* The end of getAckFromROB_: registers may have been freed.
WakeAfterAck == IF credits_dispatch_ > 0 /\ uop_queue_ # << >>
                THEN ev_schedule_rename_ \cup {0} ELSE ev_schedule_rename_

\* ... and reclaims what each of them overwrote.  sparta_assert: the counter is
\* not 0 and the instruction is the oldest of inst_queue_.
ackInst ==
    /\ pc = "ack"
    /\ LET i == Head(ack_group)
       IN  /\ inst_queue_ # << >> /\ Head(inst_queue_).uid = i.uid
           /\ IF i.dst = NoReg THEN UNCHANGED <<cnt, freelist>>
              ELSE cnt[i.prev] # 0 /\ Reclaim(i.prev, AFile[i.dst])
    /\ inst_queue_' = Tail(inst_queue_)
    /\ ack_group' = Tail(ack_group)
    /\ IF Len(ack_group) > 1 THEN UNCHANGED <<pc, ev_schedule_rename_>>
       ELSE /\ pc' = "idle"
            /\ ev_schedule_rename_' = WakeAfterAck
    /\ UNCHANGED <<phase, uop_queue_, map_table_, producer_is_load, val, regcount,
                   credits_dispatch_, ev_rename_insts_, num_to_rename, num_renamed,
                   flush_crit, uop_queue_credits_, to_dispatch, next_uid>>

-----------------------------------------------------------------------------
(* The flush phase.                                                        *)

\* FlushingCriteria::includedInFlush
includedInFlush(crit, i) == IF crit.inclusive THEN crit.uid <= i.uid ELSE crit.uid < i.uid

handleFlush(crit) ==
    /\ phase = "flush" /\ pc = "idle"
    /\ pc' = "flush"
    /\ flush_crit' = crit
    /\ UNCHANGED <<phase, uop_queue_, inst_queue_, regs, regcount, credits_dispatch_,
                   events, num_to_rename, num_renamed, ack_group, uop_queue_credits_,
                   to_dispatch, next_uid>>

RestoredMap(i) == [map_table_ EXCEPT ![i.dst] = i.prev]

\* The youngest renamed instruction is undone.
flushInst ==
    /\ pc = "flush"
    /\ inst_queue_ # << >>
    /\ LET i == inst_queue_[Len(inst_queue_)]
       IN  /\ includedInFlush(flush_crit, i)
           /\ IF i.dst = NoReg THEN UNCHANGED <<map_table_, cnt, freelist>>
              ELSE /\ map_table_' = RestoredMap(i)
                   /\ cnt[i.pdst] # 0
                   /\ Reclaim(i.pdst, AFile[i.dst])
    /\ inst_queue_' = SubSeq(inst_queue_, 1, Len(inst_queue_) - 1)
    /\ UNCHANGED <<phase, pc, uop_queue_, producer_is_load, val, regcount,
                   credits_dispatch_, events, locals, uop_queue_credits_,
                   to_dispatch, next_uid>>

\* Seeded fault: the credits of dropped instructions are forgotten.
CreditsAfterFlush_Lost == uop_queue_credits_

CreditsAfterFlush == uop_queue_credits_ + Len(uop_queue_)

\* No renamed instruction is left to undo: drop what is not renamed yet.
flushUopQueue ==
    /\ pc = "flush"
    /\ inst_queue_ # << >> => ~includedInFlush(flush_crit, inst_queue_[Len(inst_queue_)])
    /\ pc' = "idle"
    /\ uop_queue_credits_' = CreditsAfterFlush
    /\ uop_queue_' = << >>
    /\ flush_crit' = NoCrit
    /\ UNCHANGED <<phase, inst_queue_, regs, regcount, credits_dispatch_, events,
                   num_to_rename, num_renamed, ack_group, to_dispatch, next_uid>>

-----------------------------------------------------------------------------
(* The tick phase: credits and events.                                     *)

\* Seeded fault: credits do not wake a session that waits for them.
WakeOnCredits_Never == ev_schedule_rename_

WakeOnCredits == IF uop_queue_ # << >> THEN ev_schedule_rename_ \cup {0}
                 ELSE ev_schedule_rename_

creditsDispatchQueue(n) ==
    /\ phase = "tick" /\ pc = "idle"
    /\ credits_dispatch_' = credits_dispatch_ + n
    /\ ev_schedule_rename_' = WakeOnCredits
    /\ UNCHANGED <<phase, pc, uop_queue_, inst_queue_, regs, regcount, ev_rename_insts_,
                   locals, uop_queue_credits_, next_uid>>

haveDispatchCredits == IF PartialRename THEN credits_dispatch_ > 0
                       ELSE credits_dispatch_ >= Len(uop_queue_)

scheduleRenaming ==
    /\ phase = "tick" /\ pc = "idle"
    /\ 0 \in ev_schedule_rename_
    /\ ev_schedule_rename_' = ev_schedule_rename_ \ {0}
    /\ ev_rename_insts_' = \/ ev_rename_insts_
                           \/ uop_queue_ # << >> /\ haveDispatchCredits /\ enoughRenames
    /\ UNCHANGED <<phase, pc, uop_queue_, inst_queue_, regs, regcount, credits_dispatch_,
                   locals, uop_queue_credits_, to_dispatch, next_uid>>

\* Seeded faults: the session ignores Dispatch's credits; it is one short.
SessionSize_NoCredits == Min2(Len(uop_queue_), NumToRename)
SessionSize_OneShort  == Min2(credits_dispatch_, Min2(Len(uop_queue_), NumToRename - 1))

SessionSize == Min2(credits_dispatch_, Min2(Len(uop_queue_), NumToRename))

\* renameInstructions_.  sparta_assert: there is something to rename.
renameInstructions ==
    /\ phase = "tick" /\ pc = "idle"
    /\ ev_rename_insts_
    /\ SessionSize > 0
    /\ ev_rename_insts_' = FALSE
    /\ pc' = "rename"
    /\ num_to_rename' = SessionSize
    /\ num_renamed' = 0
    /\ UNCHANGED <<phase, uop_queue_, inst_queue_, regs, regcount, credits_dispatch_,
                   ev_schedule_rename_, ack_group, flush_crit, uop_queue_credits_,
                   to_dispatch, next_uid>>

\* Seeded fault: an eliminated move takes no reference.
RefsAfterRename_NotOnMove(u, p) == IF eliminated(u) THEN cnt ELSE [cnt EXCEPT ![p] = @ + 1]

RefsAfterRename(u, p) == [cnt EXCEPT ![p] = @ + 1]

\* renameDests_ of u: allocate or share, remember the overwritten mapping.
renameDests(u) ==
    LET p == renameDest(u)
    IN  /\ freelist[AFile[u.dst]] # << >>
        /\ map_table_' = [map_table_ EXCEPT ![u.dst] = p]
        /\ cnt' = RefsAfterRename(u, p)
        /\ producer_is_load' = [producer_is_load EXCEPT ![p] = (u.kind = "load")]
        /\ IF eliminated(u) THEN UNCHANGED <<freelist, val>>
           ELSE /\ freelist' = [freelist EXCEPT ![AFile[u.dst]] = Tail(@)]
                /\ val' = [val EXCEPT ![p] = IF u.kind = "move" /\ u.src # NoReg
                                             THEN val[renameSource(u)] ELSE u.uid]

\* What the instruction carries from now on (RenameData).  Loads stand for
\* every load/store as consumers of producer_is_load.
RenamedInst(u) ==
    [uid |-> u.uid, src |-> u.src, dst |-> u.dst, kind |-> u.kind,
     psrc |-> renameSource(u),
     pdst |-> IF u.dst = NoReg THEN NoReg ELSE renameDest(u),
     prev |-> IF u.dst = NoReg THEN NoReg ELSE map_table_[u.dst],
     load_producer |-> IF u.kind = "load" /\ u.src # NoReg
                       THEN producer_is_load[renameSource(u)] ELSE FALSE]

\* Seeded fault: the counts still describe the instruction just renamed.
RegCountAfterPop_Stale(q) == regcount

RegCountAfterPop(q) == IF PartialRename /\ q # << >> THEN RegCountData(q) ELSE regcount

renameInst ==
    /\ pc = "rename"
    /\ num_to_rename > 0
    /\ PartialRename => enoughRenames
    /\ LET u == Head(uop_queue_)
       IN  /\ IF u.dst = NoReg THEN UNCHANGED regs ELSE renameDests(u)
           /\ inst_queue_' = Append(inst_queue_, RenamedInst(u))
    /\ uop_queue_' = Tail(uop_queue_)
    /\ regcount' = RegCountAfterPop(uop_queue_')
    /\ num_to_rename' = num_to_rename - 1
    /\ num_renamed' = num_renamed + 1
    /\ UNCHANGED <<phase, pc, credits_dispatch_, events, ack_group, flush_crit,
                   uop_queue_credits_, to_dispatch, next_uid>>

\* The session ends: the renamed group goes to Dispatch.  sparta_assert:
\* without partial renaming the queue is empty now.
sendRenamed ==
    /\ pc = "rename"
    /\ num_to_rename = 0 \/ (PartialRename /\ ~enoughRenames)
    /\ ~PartialRename => uop_queue_ = << >>
    /\ pc' = "idle"
    /\ to_dispatch' = to_dispatch \o SubSeq(inst_queue_, Len(inst_queue_) - num_renamed + 1,
                                            Len(inst_queue_))
    /\ credits_dispatch_' = credits_dispatch_ - num_renamed
    /\ uop_queue_credits_' = uop_queue_credits_ + num_renamed
    /\ ev_schedule_rename_' = IF credits_dispatch_' > 0 /\ uop_queue_ # << >>
                              THEN ev_schedule_rename_ \cup {1} ELSE ev_schedule_rename_
    /\ num_to_rename' = 0 /\ num_renamed' = 0
    /\ UNCHANGED <<phase, uop_queue_, inst_queue_, regs, regcount, ev_rename_insts_,
                   ack_group, flush_crit, next_uid>>

-----------------------------------------------------------------------------
(* The clock (Sparta's scheduler).                                         *)

TickDone == 0 \notin ev_schedule_rename_ /\ ~ev_rename_insts_

nextPhase ==
    /\ pc = "idle"
    /\ \/ phase = "port" /\ phase' = "flush" /\ UNCHANGED ev_schedule_rename_
       \/ phase = "flush" /\ phase' = "tick" /\ UNCHANGED ev_schedule_rename_
       \/ /\ phase = "tick" /\ TickDone
          /\ phase' = "port"
          /\ ev_schedule_rename_' = {d - 1 : d \in ev_schedule_rename_}
    /\ UNCHANGED <<pc, uop_queue_, inst_queue_, regs, regcount, credits_dispatch_,
                   ev_rename_insts_, locals, uop_queue_credits_, to_dispatch, next_uid>>

-----------------------------------------------------------------------------
(* The neighbours, by their contracts.                                     *)

\* Decode sends groups within its credits, in program order; a session that finds
\* nothing to decode sends an empty group.
DecodeSends ==
    \E n \in 0..Min2(uop_queue_credits_, MaxUid + 1 - next_uid) : \E ops \in [1..n -> Ops] :
        /\ decodedInstructions([k \in 1..n |->
                [uid |-> next_uid + k - 1, src |-> ops[k].src,
                 dst |-> ops[k].dst, kind |-> ops[k].kind]])
        /\ uop_queue_credits_' = uop_queue_credits_ - n
        /\ next_uid' = next_uid + n

\* ROB retires instructions in order once Dispatch has passed them on.
AckAllowed(n) == n <= Len(inst_queue_) /\ (to_dispatch # << >> => inst_queue_[n].uid < Head(to_dispatch).uid)

ROBAcks == \E n \in 1..Len(inst_queue_) :
               AckAllowed(n) /\ getAckFromROB(SubSeq(inst_queue_, 1, n))

\* A flush names a renamed instruction, or one that is retired (uid 0 stands for
\* all of these: they are older than all in flight).
Flushes == \E u \in {i.uid : i \in SeqRange(inst_queue_)} \cup {0}, incl \in BOOLEAN :
               handleFlush([uid |-> u, inclusive |-> incl])

\* Dispatch frees queue entries, by dispatching or at a flush.
DispatchReturnsCredits == \E n \in 1..Len(to_dispatch) :
               /\ creditsDispatchQueue(n)
               /\ to_dispatch' = SubSeq(to_dispatch, n + 1, Len(to_dispatch))

-----------------------------------------------------------------------------
\* The constructor and setupRename_, and the credits all units send at startup.
Init ==
    /\ phase = "port" /\ pc = "idle"
    /\ uop_queue_ = << >> /\ inst_queue_ = << >>
    /\ map_table_ = InitMap
    /\ cnt = [p \in PRegs |-> IF \E a \in ARegs : InitMap[a] = p THEN 1 ELSE 0]
    /\ producer_is_load = [p \in PRegs |-> FALSE]
    /\ freelist = InitFree
    /\ regcount = [f \in RegFiles |-> 0]
    /\ credits_dispatch_ = DispatchQueueDepth
    /\ ev_schedule_rename_ = {} /\ ev_rename_insts_ = FALSE
    /\ num_to_rename = 0 /\ num_renamed = 0
    /\ ack_group = << >> /\ flush_crit = NoCrit
    /\ uop_queue_credits_ = RenameQueueDepth
    /\ to_dispatch = << >>
    /\ next_uid = 1
    /\ val = [p \in PRegs |-> IF \E a \in ARegs : InitMap[a] = p
                              THEN CHOOSE a \in ARegs : InitMap[a] = p ELSE 0]

RenameSteps == \/ ackInst \/ flushInst \/ flushUopQueue
               \/ scheduleRenaming \/ renameInstructions \/ renameInst \/ sendRenamed

Next == \/ DecodeSends \/ ROBAcks \/ Flushes \/ DispatchReturnsCredits
        \/ RenameSteps
        \/ nextPhase

Spec == Init /\ [][Next]_vars

\* Sparta runs every handler to its end and the clock never stops; Dispatch
\* and ROB keep draining.  Decode and flushes owe nothing.
Fairness == /\ WF_vars(RenameSteps) /\ WF_vars(nextPhase)
            /\ SF_vars(DispatchReturnsCredits) /\ SF_vars(ROBAcks)

FairSpec == Spec /\ Fairness

-----------------------------------------------------------------------------
(* Properties.                                                             *)

\* Every variable has its type.
TypeOK ==
    /\ phase \in {"port", "flush", "tick"}
    /\ pc \in {"idle", "ack", "flush", "rename"}
    /\ uop_queue_ \in Seq(Uop) /\ inst_queue_ \in Seq(Renamed)
    /\ map_table_ \in [ARegs -> PRegs]
    /\ cnt \in [PRegs -> Nat]
    /\ producer_is_load \in [PRegs -> BOOLEAN]
    /\ freelist \in [RegFiles -> Seq(PRegs)]
    /\ regcount \in [RegFiles -> Nat]
    /\ credits_dispatch_ \in Nat /\ uop_queue_credits_ \in Nat
    /\ ev_schedule_rename_ \subseteq {0, 1} /\ ev_rename_insts_ \in BOOLEAN
    /\ num_to_rename \in Nat /\ num_renamed \in Nat
    /\ ack_group \in Seq(Renamed)
    /\ flush_crit \in [uid : Nat, inclusive : BOOLEAN]
    /\ to_dispatch \in Seq(Renamed)
    /\ next_uid \in Nat
    /\ val \in [PRegs -> ARegs \cup Nat]

Mapped(p)  == {a \in ARegs : map_table_[a] = p}
Holders(p) == {i \in SeqRange(inst_queue_) : i.prev = p}

\* A reference counter counts exactly the architectural registers mapped to
\* the physical register and the in-flight instructions that overwrote such a
\* mapping and may still have to restore it (getAckFromROB_, handleFlush_ and
\* renameDests_ agree on what a reference is).
RefCountExact == \A p \in PRegs : cnt[p] = Cardinality(Mapped(p)) + Cardinality(Holders(p))

\* A register is on the freelist of its file exactly when nothing refers to it,
\* and only once: reclaiming neither leaks a register nor frees it twice.
FreelistExact ==
    \A f \in RegFiles : /\ NoDup(freelist[f])
                        /\ SeqRange(freelist[f]) = {p \in PRegs : PFile[p] = f /\ cnt[p] = 0}

\* "How is the uop queue not empty?" (renameInstructions_): a session without
\* partial renaming takes the whole queue.
WholeQueueRenamed == pc = "rename" /\ ~PartialRename /\ num_to_rename = 0 => uop_queue_ = << >>

\* The cached register counts describe the queue whenever a session looks at
\* them: no push, pop or flush leaves them stale.
RegCountFresh == pc = "idle" /\ uop_queue_ # << >> => regcount = RegCountData(uop_queue_)

\* The sparta_asserts of Rename.cpp hold: an acknowledged group is the head of the
\* queue, no counter goes below zero, a session has something to rename and a free
\* register for it, for the counts it was granted on are fresh, and without partial
\* renaming it leaves nothing behind.
AssertionsHold ==
    /\ pc = "ack" => /\ inst_queue_ # << >>
                     /\ Head(inst_queue_).uid = Head(ack_group).uid
                     /\ Head(ack_group).dst # NoReg => cnt[Head(ack_group).prev] # 0
    /\ pc = "flush" /\ inst_queue_ # << >> =>
            LET i == inst_queue_[Len(inst_queue_)] IN i.dst # NoReg => cnt[i.pdst] # 0
    /\ phase = "tick" /\ pc = "idle" /\ ev_rename_insts_ => SessionSize > 0
    /\ pc = "rename" /\ num_to_rename > 0 /\ (PartialRename => enoughRenames) =>
            /\ uop_queue_ # << >>
            /\ Head(uop_queue_).dst # NoReg => freelist[AFile[Head(uop_queue_).dst]] # << >>
    /\ WholeQueueRenamed
    /\ RegCountFresh

\* Whenever a session could run there is an event that will start one: no order
\* of credits, acknowledgements, flushes and appended groups loses a wakeup.
NoLostWakeup ==
    pc = "idle" /\ uop_queue_ # << >> /\ haveDispatchCredits /\ enoughRenames
        => ev_schedule_rename_ # {} \/ ev_rename_insts_

\* No queue entry is lost or duplicated: every entry of the uop queue, and of
\* Dispatch's queue, is either occupied or a credit of its producer.
CreditsConserved ==
    /\ uop_queue_credits_ + Len(uop_queue_) + num_renamed = RenameQueueDepth
    /\ credits_dispatch_ + Len(to_dispatch) = DispatchQueueDepth

\* Every decoded instruction leaves the uop queue, renamed or flushed.
EveryUopLeaves ==
    \A u \in 1..MaxUid : (\E k \in DOMAIN uop_queue_ : uop_queue_[k].uid = u)
                            ~> (\A k \in DOMAIN uop_queue_ : uop_queue_[k].uid # u)

-----------------------------------------------------------------------------
(* The inductive invariant behind the safety properties (RenameProofs).    *)

\* Instructions are in program order, renamed ones first.
OrderInv ==
    /\ \A j, k \in DOMAIN inst_queue_ : j < k => inst_queue_[j].uid < inst_queue_[k].uid
    /\ \A j, k \in DOMAIN uop_queue_ : j < k => uop_queue_[j].uid < uop_queue_[k].uid
    /\ \A j \in DOMAIN inst_queue_ : \A k \in DOMAIN uop_queue_ :
            inst_queue_[j].uid < uop_queue_[k].uid
    /\ \A j \in DOMAIN inst_queue_ : inst_queue_[j].uid < next_uid
    /\ \A k \in DOMAIN uop_queue_ : uop_queue_[k].uid < next_uid

\* Mappings stay inside a register file.
FileInv ==
    /\ \A a \in ARegs : PFile[map_table_[a]] = AFile[a]
    /\ \A k \in DOMAIN inst_queue_ :
         LET i == inst_queue_[k]
         IN  IF i.dst = NoReg THEN i.pdst = NoReg /\ i.prev = NoReg
             ELSE /\ i.pdst \in PRegs /\ PFile[i.pdst] = AFile[i.dst]
                  /\ i.prev \in PRegs /\ PFile[i.prev] = AFile[i.dst]

\* The map table is what the in-flight instructions made of it: the last writer
\* of a register is mapped, and each writer remembers the one before it.
LastWriter(k) == /\ inst_queue_[k].dst # NoReg
                 /\ \A j \in DOMAIN inst_queue_ : j > k => inst_queue_[j].dst # inst_queue_[k].dst
Consecutive(j, k) == /\ j < k /\ inst_queue_[j].dst # NoReg
                     /\ inst_queue_[j].dst = inst_queue_[k].dst
                     /\ \A l \in DOMAIN inst_queue_ :
                            j < l /\ l < k => inst_queue_[l].dst # inst_queue_[k].dst
ReplayInv ==
    /\ \A k \in DOMAIN inst_queue_ :
            LastWriter(k) => map_table_[inst_queue_[k].dst] = inst_queue_[k].pdst
    /\ \A j, k \in DOMAIN inst_queue_ :
            Consecutive(j, k) => inst_queue_[k].prev = inst_queue_[j].pdst

\* A running session fits the credits and the queue.
SessionInv ==
    /\ pc = "rename" => /\ num_to_rename + num_renamed <= credits_dispatch_
                        /\ num_to_rename <= Len(uop_queue_)
                        /\ num_renamed <= Len(inst_queue_)
    /\ pc # "rename" => num_renamed = 0

\* An acknowledged group is what is oldest in inst_queue_.
AckInv ==
    IF pc = "ack"
    THEN /\ ack_group # << >> /\ Len(ack_group) <= Len(inst_queue_)
         /\ \A k \in DOMAIN ack_group : ack_group[k] = inst_queue_[k]
    ELSE ack_group = << >>

RegInv == OrderInv /\ FileInv /\ ReplayInv /\ RefCountExact /\ FreelistExact

IInv == TypeOK /\ SessionInv /\ AckInv /\ RegInv /\ CreditsConserved

\* A session that was granted finds what it was granted on; its counts are those of
\* the queue, or of what it has left of the queue.
GrantInv ==
    /\ ev_rename_insts_ => /\ phase = "tick" /\ pc = "idle" /\ uop_queue_ # << >>
                           /\ haveDispatchCredits /\ enoughRenames
    /\ uop_queue_ # << >> /\ (pc # "rename" \/ PartialRename) => regcount = RegCountData(uop_queue_)
    /\ pc = "rename" /\ ~PartialRename =>
          /\ \A f \in RegFiles : Cardinality(Counted(uop_queue_, f)) <= Len(freelist[f])
          /\ NumToRename >= RenameQueueDepth => num_to_rename = Len(uop_queue_)

\* The register that q[k] reads is mapped, or held by the next writer of its source.
Reads(q, m, k) ==
    LET a == q[k].src
        p == q[k].psrc
    IN  IF a = NoReg THEN p = NoReg
        ELSE /\ p \in PRegs
             /\ (\A j \in DOMAIN q : k <= j => q[j].dst # a) => m[a] = p
             /\ \A j \in DOMAIN q :
                   k <= j /\ q[j].dst = a /\ (\A l \in DOMAIN q : k <= l /\ l < j => q[l].dst # a)
                       => q[j].prev = p

\* What is in flight reads registers that are not free; what is decoded is one of the
\* instructions there are.
ReadInv == \A k \in DOMAIN inst_queue_ : Reads(inst_queue_, map_table_, k)

DecodedInv ==
    /\ next_uid >= 1
    /\ \A k \in DOMAIN uop_queue_ :
          LET u == uop_queue_[k]
          IN  u.uid \in 1..MaxUid /\ \E op \in Ops : u.src = op.src /\ u.dst = op.dst /\ u.kind = op.kind

-----------------------------------------------------------------------------
(* Refinement: the committed register state is the map table with every    *)
(* in-flight instruction undone, and instructions read through their       *)
(* physical registers as these are now.                                    *)

InFlightWriters(a) == {k \in DOMAIN inst_queue_ : inst_queue_[k].dst = a}

CommittedMap(a) ==
    IF InFlightWriters(a) = {} THEN map_table_[a]
    ELSE inst_queue_[CHOOSE k \in InFlightWriters(a) : \A j \in InFlightWriters(a) : k <= j].prev

ValueOf(p) == IF p = NoReg THEN NoReg ELSE val[p]

Arch == INSTANCE ArchRename WITH
    Uids <- 1..MaxUid,
    committed <- [a \in ARegs |-> val[CommittedMap(a)]],
    window <- [k \in DOMAIN inst_queue_ |->
                 LET i == inst_queue_[k]
                 IN  [uid |-> i.uid, src |-> i.src, dst |-> i.dst,
                      sval |-> ValueOf(i.psrc), dval |-> ValueOf(i.pdst)]]

\* Renaming is invisible: every instruction in flight reads, for as long as it
\* is in flight, the value of the latest older writer of its source, and
\* retirement and flushes leave exactly the committed register state.
ArchSpec == Arch!Spec
=============================================================================
