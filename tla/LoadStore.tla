----------------------------- MODULE LoadStore -----------------------------
(***************************************************************************)
(* LSU, MMU and DCache as the topology wires them, with the rest of the    *)
(* core by contract: Dispatch sends the trace in order and with credits;   *)
(* ROB retires in order and flushes behind a mispredicted branch once      *)
(* everything up to the branch has retired, and then the trace goes on     *)
(* behind the branch with new unique ids; the L2 cache answers every       *)
(* request (L2Service).                                                    *)
(*                                                                         *)
(* A cycle is: "port", messages of the last cycle; "flush"; "tick", stages *)
(* of the pipelines and events; "late", the arbiter of the cache and       *)
(* issueInst_, which follow the handlers that cause them.                  *)
(***************************************************************************)
EXTENDS LSU

CONSTANTS Setups   \* [program, speculative, forwarding]: traces of loads and stores, whose
                   \* addresses come from older loads or from other units

ASSUME SetupAssumption ==
    \A s \in Setups :
        /\ s.program \in Seq([store : BOOLEAN, vaddr : Nat, size : Nat, src : Nat, data : Nat,
                              branch : BOOLEAN])
        /\ \A i \in DOMAIN s.program : \/ s.program[i].src < i
                                      \/ s.program[i].src > Len(s.program)
        /\ {s.speculative, s.forwarding} \subseteq BOOLEAN

VARIABLES phase,
          stages_due, cache_due,  \* stages whose handler has not run in this cycle
          next_pid, flushed_by,   \* of the next instruction; of the last branch that flushed
          credits,                \* Dispatch's credits
          to_lsu,                 \* instructions on their way to LSU
          acks,                   \* retired stores on their way to LSU
          writes,                 \* results on their way to the scoreboard
          released,               \* history: loads made ready behind a store without an address
          spoiled                 \* history: instructions whose lookup missed after one that hit

envVars == <<next_pid, flushed_by, credits, to_lsu, acks, writes>>
dueVars == <<stages_due, cache_due>>
historyVars == <<released, spoiled>>
vars == <<phase, program, params, dueVars, instVars, mmuVars, dcacheVars, lsu, ready, envVars,
          historyVars>>

Insts == DOMAIN pid
Live  == {u \in Insts : status[u] # "FLUSHED"}

MessagesDone == to_lsu = << >> /\ acks = << >> /\ mmu_ready = {} /\ writes = {}

StagesDone == /\ \A st \in stages_due : lsu.pipeline[st] = 0
              /\ cache_due = {} /\ 0 \notin uev_mshr_request_

EventsDone == /\ \A e \in lsu.replays : e.due > 0
              /\ lsu.append = {}
              /\ 0 \notin lsu.issue \cup uev_lookup_inst_
              /\ {l2_mem_access_info_, lsu_mem_access_info_} = {0}

-----------------------------------------------------------------------------
(* The rest of the core.                                                   *)

\* Rename has marked a load's destination, named after the load, as not ready.
DispatchSends ==
    /\ phase = "late" /\ EventsDone /\ next_pid <= Len(program) /\ credits > 0
    /\ pid' = Append(pid, next_pid) /\ status' = Append(status, "DISPATCHED")
    /\ mem' = Append(mem, NoAccess)
    /\ to_lsu' = Append(to_lsu, Len(pid'))
    /\ ready' = ready \ {next_pid}
    /\ next_pid' = next_pid + 1 /\ credits' = credits - 1
    /\ UNCHANGED <<phase, program, params, historyVars, dueVars, mmuVars, dcacheVars, lsu,
                   flushed_by, acks, writes>>

\* A register that another unit writes.
OperandArrives ==
    /\ phase = "port" /\ MessagesDone
    /\ \E i \in DOMAIN program : \E r \in {program[i].src, program[i].data} \ ready :
         r > Len(program) /\ RegisterReady(r)
    /\ UNCHANGED <<phase, program, params, historyVars, dueVars, pid, mem, mmuVars, dcacheVars,
                   envVars>>

\* ROB retires the oldest instruction, unless it waits for a flush.
Retire ==
    /\ phase = "tick"
    /\ \E u \in Live :
         /\ status[u] = "COMPLETED" /\ \A v \in Live : v < u => status[v] = "RETIRED"
         /\ \A b \in flushed_by + 1..pid[u] : ~program[b].branch
         /\ status' = [status EXCEPT ![u] = "RETIRED"]
         /\ acks' = IF isStore(u) THEN Append(acks, u) ELSE acks
    /\ UNCHANGED <<phase, program, params, historyVars, dueVars, pid, mem, mmuVars, dcacheVars,
                   lsu, ready, next_pid, flushed_by, credits, to_lsu, writes>>

Flush ==
    /\ phase = "flush"
    /\ \E b \in flushed_by + 1..next_pid - 1 :
         LET us == {u \in Live : pid[u] >= b}
         IN  /\ program[b].branch /\ \A u \in Live \ us : status[u] = "RETIRED"
             /\ lsu' = handleFlush(lsu, us)
             /\ status' = [u \in Insts |-> IF u \in us THEN "FLUSHED" ELSE status[u]]
             /\ credits' = credits + Cardinality(lsu.queue \ lsu'.queue)
             /\ next_pid' = b /\ flushed_by' = b
    /\ UNCHANGED <<phase, program, params, historyVars, dueVars, pid, mem, mmuVars, dcacheVars,
                   ready, to_lsu, acks, writes>>

L2Responds ==
    /\ phase = "port" /\ MessagesDone /\ l2_mem_access_info_ = 0
    /\ receiveRespFromL2Cache
    /\ UNCHANGED <<phase, program, params, historyVars, dueVars, instVars, mmuVars, lsu, ready,
                   envVars>>

L2CopiesRequest ==
    /\ phase = "tick" /\ createReq
    /\ UNCHANGED <<phase, program, params, historyVars, dueVars, instVars, mmuVars, lsu, ready,
                   envVars>>

-----------------------------------------------------------------------------
(* Messages.                                                               *)

LSUReceives ==
    /\ phase = "port" /\ to_lsu # << >>
    /\ getInstsFromDispatch(Head(to_lsu)) /\ to_lsu' = Tail(to_lsu)
    /\ UNCHANGED <<phase, program, params, historyVars, dueVars, pid, mem, mmuVars, dcacheVars,
                   ready, next_pid, flushed_by, credits, acks, writes>>

LSUGetsAck ==
    /\ phase = "port" /\ to_lsu = << >> /\ acks # << >>
    /\ lsu' = getAckFromROB(lsu, Head(acks)) /\ acks' = Tail(acks)
    /\ UNCHANGED <<phase, program, params, historyVars, dueVars, instVars, mmuVars, dcacheVars,
                   ready, next_pid, flushed_by, credits, to_lsu, writes>>

LSUGetsTranslation ==
    /\ phase = "port" /\ to_lsu = << >> /\ acks = << >>
    /\ \E u \in mmu_ready : lsu' = handleMMUReadyReq(lsu, u) /\ mmu_ready' = mmu_ready \ {u}
    /\ UNCHANGED <<phase, program, params, historyVars, dueVars, instVars, tlb_cache_,
                   mmu_pending_inst_, uev_lookup_inst_, dcacheVars, ready, envVars>>

ScoreboardUpdate ==
    /\ phase = "port" /\ to_lsu = << >> /\ acks = << >> /\ mmu_ready = {}
    /\ \E r \in writes : RegisterReady(r) /\ writes' = writes \ {r}
    /\ UNCHANGED <<phase, program, params, historyVars, dueVars, pid, mem, mmuVars, dcacheVars,
                   next_pid, flushed_by, credits, to_lsu, acks>>

-----------------------------------------------------------------------------
(* Stages and events.                                                      *)

AtStage(st, u) ==
    /\ phase = "tick" /\ st \in stages_due /\ u # 0 /\ u = lsu.pipeline[st]
    /\ stages_due' = stages_due \ {st}
    /\ UNCHANGED <<phase, program, params, cache_due, ready, next_pid, flushed_by, to_lsu,
                   acks>>

CalculatesAddress == \E u \in Insts : /\ AtStage(ADDRESS, u)
                                      /\ handleAddressCalculation(u)
                                      /\ UNCHANGED <<credits, writes, historyVars>>

\* Loads that the lookup of store u makes ready, though they are behind a store without an
\* address.
ReleasedBy(u) ==
    {v \in DependentLoads : /\ isStore(u) /\ ~allow_speculative_load_exec_ /\ ~mem[u].phy
                            /\ \E w \in lsu.queue : isStore(w) /\ w < v /\ ~mem'[w].phy}

LooksUpMMU == \E u \in Insts : /\ AtStage(MMU_LOOKUP, u)
                               /\ handleMMULookupReq(u)
                               /\ released' = released \cup ReleasedBy(u)
                               /\ UNCHANGED <<credits, writes, spoiled>>

LooksUpCache == \E u \in Insts : /\ AtStage(CACHE_LOOKUP, u)
                                 /\ handleCacheLookupReq(u)
                                 /\ UNCHANGED <<credits, writes, historyVars>>

\* The cache's answer to a lookup comes first.
ReadsCache == \E u \in Insts : /\ "LOOKUP" \notin cache_due
                               /\ AtStage(CACHE_READ, u)
                               /\ handleCacheRead(u)
                               /\ UNCHANGED <<credits, writes, historyVars>>

Completes == \E u \in Insts : /\ AtStage(COMPLETE, u)
                              /\ completeInst(u)
                              /\ credits' = IF Finishes(u) THEN credits + 1 ELSE credits
                              /\ writes' = IF mem[u].data /\ ~isStore(u)
                                           THEN writes \cup {pid[u]} ELSE writes
                              /\ UNCHANGED historyVars

AppendsReady ==
    /\ phase = "late" /\ \A e \in lsu.replays : e.due > 0
    /\ \E u \in lsu.append : lsu' = appendReady(lsu, u)
    /\ UNCHANGED <<phase, program, params, historyVars, dueVars, instVars, mmuVars, dcacheVars,
                   ready, envVars>>

ReplaysReady ==
    /\ phase = "late"
    /\ \E e \in lsu.replays : e.due = 0 /\ lsu' = replayReady(lsu, e)
    /\ UNCHANGED <<phase, program, params, historyVars, dueVars, instVars, mmuVars, dcacheVars,
                   ready, envVars>>

MMULoadsEntry ==
    /\ phase = "late" /\ 0 \notin lsu.issue /\ lookupInst
    /\ UNCHANGED <<phase, program, params, historyVars, dueVars, instVars, dcacheVars, lsu,
                   ready, envVars>>

AtCacheStage(st) ==
    /\ phase = "tick" /\ st \in cache_due
    /\ cache_due' = cache_due \ {st}
    /\ UNCHANGED <<phase, program, params, released, stages_due, pid, status, mmuVars, ready,
                   envVars>>

\* A refill passes the lookup stage without effect.
CacheLooksUp ==
    LET e == cache_pipeline_.LOOKUP
    IN  /\ AtCacheStage("LOOKUP")
        /\ IF e.refill THEN UNCHANGED <<mem, lsu, dcacheVars>>
           ELSE handleLookup(e.uid) /\ lsu' = getAckFromCache(lsu, e.uid, mem'[e.uid])
        /\ spoiled' = spoiled \cup {u \in {e.uid} \cap Insts : /\ mem[u].cache = "HIT"
                                                              /\ mem'[u].cache # "HIT"}

CacheReads ==
    LET e == cache_pipeline_.DATA_READ
    IN  /\ AtCacheStage("DATA_READ")
        /\ IF e.refill THEN handleDataReadRefill(e.uid) /\ UNCHANGED lsu
           ELSE handleDataRead(e.uid) /\ lsu' = getAckFromCache(lsu, e.uid, mem'[e.uid])
        /\ UNCHANGED spoiled

CacheAsksL2 ==
    /\ phase = "tick" /\ mshrRequest
    /\ UNCHANGED <<phase, program, params, historyVars, dueVars, instVars, mmuVars, lsu, ready,
                   envVars>>

CacheArbitrates ==
    /\ phase = "late" /\ 0 \notin lsu.issue \cup uev_lookup_inst_ /\ arbitrateL2LsuReq
    /\ UNCHANGED <<phase, program, params, historyVars, dueVars, instVars, mmuVars, lsu, ready,
                   envVars>>

Issues ==
    /\ phase = "late" /\ lsu.append = {} /\ \A e \in lsu.replays : e.due > 0
    /\ issueInst
    /\ UNCHANGED <<phase, program, params, historyVars, dueVars, instVars, mmuVars, dcacheVars,
                   ready, envVars>>

-----------------------------------------------------------------------------
NextOf == [port |-> "flush", flush |-> "tick", tick |-> "late", late |-> "port"]

PhaseDone ==
    /\ phase = "port" => MessagesDone
    /\ phase = "tick" => StagesDone
    /\ phase = "late" => EventsDone /\ (next_pid <= Len(program) => credits = 0)

nextPhase ==
    /\ PhaseDone
    /\ phase' = NextOf[phase]
    /\ stages_due' = IF phase = "flush" THEN {st \in Stages : lsu.pipeline[st] # 0} ELSE {}
    /\ cache_due' = IF phase = "flush"
                    THEN {st \in DOMAIN cache_pipeline_ : cache_pipeline_[st] # Empty} ELSE {}
    /\ lsu' = CASE phase = "tick" -> AdvancePipeline(lsu)
                [] phase = "late" -> AgedLSU(lsu)
                [] OTHER -> lsu
    /\ IF phase = "tick" THEN AdvanceCachePipeline
       ELSE IF phase = "late"
       THEN /\ uev_mshr_request_' = {d - 1 : d \in uev_mshr_request_}
            /\ UNCHANGED <<lsu_mem_access_info_, l2_mem_access_info_, cache_pipeline_,
                           mshr_file_, l2cache_req, l2_copy, l1_cache_>>
       ELSE UNCHANGED dcacheVars
    /\ uev_lookup_inst_' = IF phase = "late" THEN {d - 1 : d \in uev_lookup_inst_}
                           ELSE uev_lookup_inst_
    /\ UNCHANGED <<program, params, instVars, tlb_cache_, mmu_pending_inst_, mmu_ready, ready,
                   envVars, historyVars>>

Init ==
    /\ phase = "port"
    /\ \E s \in Setups : /\ program = s.program
                         /\ allow_speculative_load_exec_ = s.speculative
                         /\ allow_data_forwarding_ = s.forwarding
    /\ stages_due = {} /\ cache_due = {}
    /\ pid = << >> /\ status = << >> /\ mem = << >>
    /\ tlb_cache_ = {} /\ mmu_pending_inst_ = 0 /\ uev_lookup_inst_ = {} /\ mmu_ready = {}
    /\ lsu_mem_access_info_ = 0 /\ l2_mem_access_info_ = 0
    /\ cache_pipeline_ = [LOOKUP |-> Empty, DATA_READ |-> Empty]
    /\ mshr_file_ = << >> /\ uev_mshr_request_ = {} /\ l2cache_req = 0 /\ l2_copy = {}
    /\ l1_cache_ = {}
    /\ lsu = IdleLSU /\ ready = {0}
    /\ next_pid = 1 /\ flushed_by = 0 /\ credits = QueueSize
    /\ to_lsu = << >> /\ acks = << >> /\ writes = {}
    /\ released = {} /\ spoiled = {}

Messages == LSUReceives \/ LSUGetsAck \/ LSUGetsTranslation \/ ScoreboardUpdate
LSUSteps == \/ CalculatesAddress \/ LooksUpMMU \/ LooksUpCache \/ ReadsCache \/ Completes
            \/ AppendsReady \/ ReplaysReady \/ Issues
OtherSteps == MMULoadsEntry \/ CacheLooksUp \/ CacheReads \/ CacheAsksL2 \/ CacheArbitrates

Next == \/ Messages \/ LSUSteps \/ OtherSteps \/ nextPhase
        \/ DispatchSends \/ OperandArrives \/ Retire \/ Flush \/ L2Responds \/ L2CopiesRequest

Spec == Init /\ [][Next]_vars

\* Sparta runs every handler and the clock never stops; other units write their results,
\* ROB retires what has completed and flushes, and the L2 cache answers
\* (EveryRequestAnswered of MemorySystem). One condition for Retire, Flush and
\* OperandArrives will do, for a trace has finitely many of them.
FairSpec == /\ Spec
            /\ WF_vars(Messages \/ LSUSteps \/ OtherSteps \/ DispatchSends \/ nextPhase)
            /\ SF_vars(Retire \/ Flush \/ OperandArrives) /\ SF_vars(L2Responds)

-----------------------------------------------------------------------------
(* Properties.                                                             *)

AccessType == [phy : BOOLEAN, cache : {"NO_ACCESS", "MISS", "HIT"}, data : BOOLEAN]
InstStatus == {"DISPATCHED", "SCHEDULED", "COMPLETED", "RETIRED", "FLUSHED"}

\* Every variable has its type: buffers hold no more than their sizes, the cache has at
\* most one miss register per instruction.
TypeOK ==
    /\ phase \in DOMAIN NextOf /\ program \in {s.program : s \in Setups}
    /\ stages_due \subseteq Stages /\ cache_due \subseteq DOMAIN cache_pipeline_
    /\ Len(status) = Len(pid) /\ Len(mem) = Len(pid)
    /\ \A u \in Insts : /\ pid[u] \in DOMAIN program /\ mem[u] \in AccessType
                        /\ status[u] \in InstStatus
    /\ Cardinality(tlb_cache_) <= TLBEntries /\ uev_lookup_inst_ \subseteq 0..MMULatency
    /\ mmu_pending_inst_ \in {0} \cup Insts /\ (mmu_pending_inst_ = 0) = (uev_lookup_inst_ = {})
    /\ mmu_ready \subseteq Insts
    /\ {lsu_mem_access_info_, l2_mem_access_info_, l2cache_req} \subseteq {0} \cup Insts
    /\ l2_copy \subseteq {l2cache_req} \cap ToSet(mshr_file_)
    /\ cache_pipeline_ \in [{"LOOKUP", "DATA_READ"} -> [uid : {0} \cup Insts, refill : BOOLEAN]]
    /\ IsInjective(mshr_file_) /\ ToSet(mshr_file_) \subseteq Insts
    /\ Len(mshr_file_) <= MSHREntries /\ uev_mshr_request_ \subseteq 0..1
    /\ Cardinality(l1_cache_) <= DCacheLines
    /\ lsu.queue \cup lsu.ready \cup lsu.replay \cup lsu.append \subseteq Insts
    /\ lsu.stores \subseteq {u \in lsu.queue : isStore(u)}
    /\ Cardinality(lsu.queue) <= QueueSize /\ Cardinality(lsu.replay) <= ReplayBufferSize
    /\ lsu.pipeline \in [Stages -> {0} \cup Insts] /\ lsu.issue \subseteq 0..1
    /\ lsu.replays \subseteq [uid : Insts, due : 0..ReplayIssueDelay]
    /\ lsu.callbacks \subseteq [uid : Insts, reg : Nat]
    /\ credits \in 0..QueueSize /\ next_pid \in 1..Len(program) + 1

\* No assertion of LSU fails but one, and buffers keep to their sizes (TypeOK): the ready
\* queue and the replay buffer are never given an instruction they hold, an issue event
\* finds something to issue, stores retire in order and before they leave, a handled TLB
\* miss finds its instruction, and what completes has its address. What completes has hit
\* in the cache, too, unless it passes the pipeline twice and the second lookup missed.
AssertionsHold ==
    []TypeOK /\ [][lsu.ok => lsu'.ok \/ (Completes /\ lsu.pipeline[COMPLETE] \in spoiled)]_vars

\* Dispatch's credits and the instructions in the queue or on their way to it are as many
\* as the queue has entries, though an instruction may pass the pipeline again after it
\* has completed.
CreditsConserved == credits + Cardinality(lsu.queue) + Len(to_lsu) = QueueSize

Held == UNION {lsu.queue, lsu.stores, lsu.ready, lsu.replay, Range(lsu.pipeline) \ {0},
               lsu.append, {e.uid : e \in lsu.replays}, {c.uid : c \in lsu.callbacks}}

\* A flushed instruction is in no structure of LSU: not in the queue, the buffers, a stage
\* of the pipeline, an event that is still to come or a callback at the scoreboard.
FlushedGone == \A u \in Held : status[u] # "FLUSHED"

\* An instruction that completes or is flushed leaves the queue once, with everything
\* that refers to it, and its entry is a credit again.
EntriesExact == CreditsConserved /\ FlushedGone

InCache == {lsu_mem_access_info_} \cup
           {cache_pipeline_[st].uid : st \in {t \in DOMAIN cache_pipeline_ :
                                               ~cache_pipeline_[t].refill}}

\* A store reaches the cache only after ROB has retired it, hence never a store that is
\* flushed later.
StoresWriteRetired == \A u \in InCache \ {0} : isStore(u) => status[u] = "RETIRED"

\* A load has no data before all older stores have their address, unless the unit does
\* not execute loads speculatively and a store's lookup let the load go while another
\* older store, or the one looked up, had none.
LoadsBehindStores ==
    \A u \in lsu.queue : ~isStore(u) /\ mem[u].data =>
        allOlderStoresIssued(u) \/ (~allow_speculative_load_exec_ /\ u \in released)

\* Stores write once they are retired, and loads take data when the addresses of older
\* stores are known, in either mode and but for the loads that readyDependentLoads_ lets
\* go too early. Neither the order in which retired stores write nor which store a load
\* takes its bytes from is part of it.
MemoryOrder == StoresWriteRetired /\ LoadsBehindStores

\* Between cycles every instruction of the queue is where something will bring it on: in
\* the ready queue, a stage, an event or a callback, or it is a store that waits for ROB,
\* or a load that waits for an older store to be translated. One in the replay buffer,
\* which keeps it out of the ready queue, is in a stage.
NobodyForgotten ==
    phase = "port" /\ MessagesDone =>
        \A u \in lsu.queue :
            \/ u \in Range(lsu.pipeline)
            \/ /\ u \notin lsu.replay
               /\ \/ u \in lsu.ready \cup lsu.append \cup {e.uid : e \in lsu.replays}
                  \/ \E c \in lsu.callbacks : c.uid = u
                  \/ isStore(u) /\ status[u] = "COMPLETED"
                  \/ ~isStore(u) /\ status[u] = "DISPATCHED" /\ ~allOlderStoresIssued(u)

Finished == next_pid > Len(program) /\ lsu.queue = {} /\ to_lsu = << >>

\* Every trace gets through: loads that miss in the TLB or the cache, lose the arbitration
\* of the cache to a refill, are aborted by an older store or flushed, and stores that wait
\* for retirement, leave the queue in the end.
TraceCompletes == <>Finished

-----------------------------------------------------------------------------
(* What EntriesExact and MemoryOrder need to be inductive.                 *)

\* Instructions, and the messages about them: dispatched ones arrive in order and behind
\* those in the queue, and no message is under way when a flush arrives.
MessageInv ==
    /\ phase \in {"port", "flush", "tick", "late"}
    /\ pid \in Seq(DOMAIN program) /\ status \in Seq(InstStatus) /\ mem \in Seq(AccessType)
    /\ Len(status) = Len(pid) /\ Len(mem) = Len(pid)
    /\ next_pid \in Nat \ {0} /\ flushed_by \in Nat /\ credits \in Nat
    /\ to_lsu \in Seq(Insts) /\ acks \in Seq(Insts)
    /\ to_lsu # << >> => phase \in {"late", "port"}
    /\ acks # << >> => phase # "flush"
    /\ \A k \in DOMAIN acks : status[acks[k]] = "RETIRED"
    /\ \A k \in DOMAIN to_lsu : /\ status[to_lsu[k]] = "DISPATCHED"
                                /\ \A j \in 1..k - 1 : to_lsu[j] < to_lsu[k]
                                /\ \A v \in lsu.queue : v < to_lsu[k]

\* What LSU works on.
Working(s) == UNION {s.ready, s.replay, Range(s.pipeline) \ {0}, s.append,
                     {e.uid : e \in s.replays}}

\* The record of LSU's state.
Shaped(s) == /\ DOMAIN s = DOMAIN IdleLSU /\ DOMAIN s.pipeline = Stages
             /\ \A e \in s.replays : DOMAIN e = {"uid", "due"}

\* Whatever LSU, MMU and DCache work on has been scheduled; what waits for an operand has
\* not, is in the queue and waits for one that it needs and that is not ready.
HeldInv ==
    /\ Shaped(lsu) /\ DOMAIN cache_pipeline_ = {"LOOKUP", "DATA_READ"}
    /\ \A u \in lsu.queue \cup lsu.stores : u \in Insts /\ status[u] # "FLUSHED"
    /\ \A u \in Working(lsu) : u \in Insts /\ status[u] \notin {"DISPATCHED", "FLUSHED"}
    /\ \A u \in (InCache \cup mmu_ready \cup {mmu_pending_inst_}) \ {0} :
          u \in Insts /\ status[u] # "DISPATCHED"
    /\ \A u \in Insts : status[u] = "SCHEDULED" => u \in lsu.queue
    /\ \A c \in lsu.callbacks :
          /\ c.uid \in lsu.queue /\ status[c.uid] = "DISPATCHED" /\ c.reg \notin ready
          /\ ~isStore(c.uid) => c.reg = Inst(c.uid).src
          /\ \A d \in lsu.callbacks : d.uid = c.uid => d.reg = c.reg

\* What has retired is in front of every branch that is still to flush.
RetiredInv ==
    \A u \in Insts : status[u] = "RETIRED" =>
        \A b \in flushed_by + 1..pid[u] : ~program[b].branch

\* A load that has asked the cache, executed speculatively, had only translated stores
\* before it, and still has.
SpeculationInv ==
    /\ \A u \in Insts : status[u] = "DISPATCHED" => mem[u] = NoAccess
    /\ allow_speculative_load_exec_ =>
          \A u \in lsu.queue :
              ~isStore(u) /\ (mem[u].data \/ mem[u].cache # "NO_ACCESS" \/ u \in InCache)
                  => allOlderStoresIssued(u)

IInv == /\ MessageInv /\ HeldInv /\ CreditsConserved /\ RetiredInv
        /\ StoresWriteRetired /\ SpeculationInv

\* What the history variables record. A load that is executed, though not speculatively,
\* has only translated stores before it, or a store's lookup let it go; an instruction
\* that has data has hit in the cache, or has asked the cache again and missed.
HistoryInv ==
    /\ ~allow_speculative_load_exec_ =>
          \A u \in lsu.queue : ~isStore(u) /\ status[u] # "DISPATCHED" =>
              allOlderStoresIssued(u) \/ u \in released
    /\ \A u \in Insts : mem[u].data => mem[u].cache = "HIT" \/ u \in spoiled
=============================================================================
