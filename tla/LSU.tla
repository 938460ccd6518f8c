-------------------------------- MODULE LSU --------------------------------
(***************************************************************************)
(* The load/store unit (core/lsu/LSU.cpp): issue queue, store buffer,      *)
(* ready queue, replay buffer and pipeline. Its state is the record lsu;   *)
(* the operators on it are the code's subroutines, and each handler        *)
(* composes them.                                                          *)
(*                                                                         *)
(* Buffers are sets, for their order is the one of the unique ids and an   *)
(* iterator is valid as long as its entry is there. The ready queue is     *)
(* sorted by age. IssueState and IssuePriority decide nothing and are left *)
(* out. The scoreboard is external: a callback is called when its register *)
(* becomes ready.                                                          *)
(***************************************************************************)
EXTENDS DCache

CONSTANTS QueueSize, ReplayBufferSize, ReplayIssueDelay

ASSUME LSUAssumption == {QueueSize, ReplayBufferSize, ReplayIssueDelay} \subseteq Nat \ {0}

VARIABLES lsu,    \* [queue, stores, ready, replay, pipeline, issue, append, replays,
                  \*  callbacks, ok]
          ready,  \* registers that are ready
          allow_speculative_load_exec_, allow_data_forwarding_

params == <<allow_speculative_load_exec_, allow_data_forwarding_>>

ADDRESS == 0
MMU_LOOKUP == 1
CACHE_LOOKUP == 2
CACHE_READ == 3
COMPLETE == 4
Stages == ADDRESS..COMPLETE

\* ldst_inst_queue_, store_buffer_, ready_queue_, replay_buffer_, ldst_pipeline_ (0 is an
\* invalid stage); uev_issue_inst_ (cycles until it runs), uev_append_ready_ (of this
\* cycle), uev_replay_ready_; callbacks at the scoreboard; no assertion has failed.
IdleLSU == [queue |-> {}, stores |-> {}, ready |-> {}, replay |-> {},
            pipeline |-> [st \in Stages |-> 0],
            issue |-> {}, append |-> {}, replays |-> {}, callbacks |-> {}, ok |-> TRUE]

Asserted(s, condition) == [s EXCEPT !.ok = @ /\ condition]

-----------------------------------------------------------------------------
(* Subroutines.                                                            *)

ReplayFull(s) == allow_speculative_load_exec_ /\ Cardinality(s.replay) >= ReplayBufferSize

isReadyToIssueInsts(s) == ~ReplayFull(s) /\ s.ready # {}

ScheduleIssue(s) == IF isReadyToIssueInsts(s) THEN [s EXCEPT !.issue = @ \cup {0}] ELSE s

appendToReadyQueue(s, us) ==
    [Asserted(s, us \cap s.ready = {}) EXCEPT !.ready = @ \cup us]

removeInstFromReplayQueue(s, us) == [s EXCEPT !.replay = @ \ us]

invalidateStage(s, st) == [s EXCEPT !.pipeline[st] = 0]

updateInstReplayReady(s, u) ==
    removeInstFromReplayQueue(
        [s EXCEPT !.replays = @ \cup {[uid |-> u, due |-> ReplayIssueDelay]}], {u})

\* Only when loads are executed speculatively.
Speculative(s, replayed) == IF allow_speculative_load_exec_ THEN replayed ELSE s

\* A miss: back to the ready queue at once, and out of the pipeline.
Retry(s, st, u) ==
    LET t == Speculative(s, updateInstReplayReady(s, u))
    IN  invalidateStage(IF u \in t.ready THEN t
                        ELSE ScheduleIssue(appendToReadyQueue(t, {u})), st)

allOlderStoresIssued(u) == \A v \in lsu.queue : isStore(v) /\ v < u => mem[v].phy

\* Every byte of the load is written by a store of the buffer, of whatever age.
tryStoreToLoadForwarding(u) ==
    Inst(u).size > 0 /\ Bytes(u) \subseteq UNION {Bytes(v) : v \in lsu.stores}

\* Registers that the instruction waits for: the address first, then a store's data.
Awaits(u, rdy) == IF Inst(u).src \notin rdy THEN {Inst(u).src}
                  ELSE IF isStore(u) THEN {Inst(u).data} \ rdy ELSE {}

\* The operand check of us, called by getInstsFromDispatch_ and by callbacks. A load that
\* waits for an older store has no callback: readyDependentLoads_ will find it.
Schedulable(us, rdy) ==
    {u \in us : /\ status[u] # "SCHEDULED" /\ Awaits(u, rdy) = {}
                /\ (isStore(u) \/ allow_speculative_load_exec_ \/ allOlderStoresIssued(u))}

handleOperandIssueCheck(s, us, rdy) ==
    LET waits == {[uid |-> u, reg |-> r] : u \in {v \in us : status[v] # "SCHEDULED"},
                                           r \in UNION {Awaits(v, rdy) : v \in us}}
        now == Schedulable(us, rdy)
        t == [Asserted(s, now \subseteq s.queue) EXCEPT
                !.callbacks = @ \cup {c \in waits : c.reg \in Awaits(c.uid, rdy)}]
    IN  IF now = {} THEN t ELSE ScheduleIssue(appendToReadyQueue(t, now))

Scheduled(us) == [u \in DOMAIN status |-> IF u \in us THEN "SCHEDULED" ELSE status[u]]

\* Loads that have their operands, whatever other stores they wait for.
DependentLoads == {u \in lsu.queue : ~isStore(u) /\ status[u] = "DISPATCHED"
                                     /\ Inst(u).src \in ready}

readyDependentLoads(s) ==
    IF DependentLoads = {} THEN s ELSE ScheduleIssue(appendToReadyQueue(s, DependentLoads))

\* The store has its address: the oldest load of that address that has been issued, and
\* the loads issued behind that one, start again.
AbortedLoads(s, u) ==
    LET loads == {v \in s.replay : ~isStore(v)}
        same  == {v \in loads : VAddr(v) = VAddr(u)}
    IN  IF same = {} THEN {} ELSE {v \in loads : v >= Min(same)}

dropInstFromPipeline(pipeline, us) ==
    [st \in Stages |-> IF pipeline[st] \in us /\ \A t \in 0..st - 1 : pipeline[t] # pipeline[st]
                       THEN 0 ELSE pipeline[st]]

abortYoungerLoads(s, u) ==
    LET us == AbortedLoads(s, u)
    IN  removeInstFromReplayQueue(
            [appendToReadyQueue(s, us) EXCEPT !.pipeline = dropInstFromPipeline(@, us)], us)

-----------------------------------------------------------------------------
(* Handlers of ports and events.                                           *)

getInstsFromDispatch(u) ==
    LET s == [Asserted(lsu, Cardinality(lsu.queue) < QueueSize) EXCEPT
                !.queue = @ \cup {u}, !.stores = @ \cup (IF isStore(u) THEN {u} ELSE {})]
    IN  /\ lsu' = handleOperandIssueCheck(s, {u}, ready)
        /\ status' = Scheduled(Schedulable({u}, ready))

\* The scoreboard calls back for a register.
RegisterReady(r) ==
    LET us == {c.uid : c \in {d \in lsu.callbacks : d.reg = r}}
        s  == [lsu EXCEPT !.callbacks = {c \in @ : c.reg # r}]
    IN  /\ ready' = ready \cup {r}
        /\ lsu' = handleOperandIssueCheck(s, us, ready')
        /\ status' = Scheduled(Schedulable(us, ready'))

\* Seeded fault: a retired store is not issued again.
updateIssuePriorityAfterStoreInstRetire_No(s, u) == s

updateIssuePriorityAfterStoreInstRetire(s, u) ==
    [Asserted(s, u \in s.queue) EXCEPT !.append = @ \cup {u}]

getAckFromROB(s, u) ==
    ScheduleIssue(updateIssuePriorityAfterStoreInstRetire(
        [Asserted(s, s.stores # {} /\ u = Min(s.stores)) EXCEPT !.stores = @ \ {u}], u))

issueInst ==
    /\ 0 \in lsu.issue
    /\ LET u == Min(lsu.ready)
           t == [lsu EXCEPT !.issue = @ \ {0}, !.ready = @ \ {u}, !.pipeline[ADDRESS] = u]
           r == [Asserted(t, ~ReplayFull(t) /\ u \notin t.replay) EXCEPT !.replay = @ \cup {u}]
           s == Speculative(t, r)
       IN  lsu' = IF lsu.ready = {} THEN Asserted(lsu, FALSE)
                  ELSE IF isReadyToIssueInsts(s) THEN [s EXCEPT !.issue = @ \cup {1}] ELSE s

updateIssuePriorityAfterTLBReload(s, u) ==
    [Asserted(s, status[u] = "FLUSHED" \/ u \in s.queue) EXCEPT !.append = @ \cup ({u} \cap s.queue)]

handleMMUReadyReq(s, u) ==
    LET t == updateIssuePriorityAfterTLBReload(s, u)
    IN  ScheduleIssue(IF status[u] = "FLUSHED" THEN t ELSE removeInstFromReplayQueue(t, {u}))

\* The answer of the cache, m its new state for the instruction.
getAckFromCache(s, u, m) ==
    IF u \in s.queue /\ m.cache = "HIT" /\ u \notin s.ready
    THEN [s EXCEPT !.append = @ \cup {u}] ELSE s

\* Seeded fault: an instruction in the replay buffer becomes ready as well.
appendReady_Replayed(s, u) ==
    LET t == [s EXCEPT !.append = @ \ {u}]
    IN  ScheduleIssue(IF u \in t.ready THEN t ELSE appendToReadyQueue(t, {u}))

appendReady(s, u) ==
    LET t == [s EXCEPT !.append = @ \ {u}]
    IN  ScheduleIssue(IF u \in t.ready \cup t.replay THEN t ELSE appendToReadyQueue(t, {u}))

replayReady(s, e) ==
    ScheduleIssue([s EXCEPT !.replays = @ \ {e}, !.append = @ \cup {e.uid}])

\* us are the instructions the flush includes. Callbacks are cleared for what is in the
\* queue.
flushQueues(s, us) ==
    [s EXCEPT !.pipeline = [st \in Stages |-> IF @[st] \in us THEN 0 ELSE @[st]],
              !.queue = @ \ us, !.callbacks = {c \in @ : c.uid \notin us \cap s.queue},
              !.replay = @ \ us, !.ready = @ \ us, !.stores = @ \ us]

CancelIssue(s) == IF isReadyToIssueInsts(s) THEN s ELSE [s EXCEPT !.issue = {}]

\* Seeded fault: a replay that is due later survives the flush.
handleFlush_KeepReplays(s, us) == CancelIssue([flushQueues(s, us) EXCEPT !.append = @ \ us])

handleFlush(s, us) ==
    CancelIssue([flushQueues(s, us) EXCEPT !.append = @ \ us,
                                           !.replays = {e \in @ : e.uid \notin us}])

-----------------------------------------------------------------------------
(* Handlers of the pipeline stages, for the instruction u in the stage.    *)

handleAddressCalculation(u) ==
    /\ lsu' = ScheduleIssue(lsu)
    /\ UNCHANGED <<instVars, mmuVars, dcacheVars>>

\* The zero-cycle answer of the MMU.
getAckFromMMU(s, u) ==
    IF isStore(u) /\ memLookup(u) /\ allow_speculative_load_exec_ THEN abortYoungerLoads(s, u) ELSE s

\* An instruction that has its physical address is not looked up again.
handleMMULookupReq(u) ==
    IF mem[u].phy
    THEN UNCHANGED <<lsu, instVars, mmuVars, dcacheVars>>
    ELSE LET wakes == isStore(u) /\ ~allow_speculative_load_exec_
         IN  /\ lsu' = getAckFromMMU(IF wakes THEN readyDependentLoads(lsu) ELSE lsu, u)
             /\ status' = IF wakes THEN Scheduled(DependentLoads) ELSE status
             /\ getInstsFromLSU(u)
             /\ UNCHANGED <<pid, dcacheVars>>

\* Seeded fault: a store that has not retired is not kept from the cache.
CacheBypass_Hit(u) == mem[u].cache = "HIT"

\* The steps of a cache lookup, in the order of the handler.
Untranslated(u)     == ~mem[u].phy
StoreDone(u)        == isStore(u) /\ status[u] = "SCHEDULED"
SpeculationFails(u) == ~isStore(u) /\ allow_speculative_load_exec_ /\ ~allOlderStoresIssued(u)
Forwarded(u)        == ~isStore(u) /\ allow_data_forwarding_ /\ tryStoreToLoadForwarding(u)
CacheBypass(u)      == mem[u].cache = "HIT" \/ (isStore(u) /\ status[u] # "RETIRED")

handleCacheLookupReq(u) ==
    LET replayed == Speculative(invalidateStage(lsu, CACHE_LOOKUP),
                        updateInstReplayReady(invalidateStage(lsu, CACHE_LOOKUP), u))
        stays == ~Untranslated(u) /\ ~StoreDone(u) /\ ~SpeculationFails(u)
    IN  /\ lsu' = IF Untranslated(u) THEN Retry(lsu, CACHE_LOOKUP, u)
                  ELSE IF stays THEN lsu ELSE replayed
        /\ status' = IF ~Untranslated(u) /\ StoreDone(u)
                     THEN [status EXCEPT ![u] = "COMPLETED"] ELSE status
        /\ mem' = IF stays /\ Forwarded(u)
                  THEN [mem EXCEPT ![u].data = TRUE, ![u].cache = "HIT"] ELSE mem
        /\ IF stays /\ ~Forwarded(u) /\ ~CacheBypass(u)
           THEN receiveMemReqFromLSU(u) ELSE UNCHANGED lsu_mem_access_info_
        /\ UNCHANGED <<pid, mmuVars, l2_mem_access_info_, cache_pipeline_, mshr_file_,
                       uev_mshr_request_, l2cache_req, l2_copy, l1_cache_>>

handleCacheRead(u) ==
    /\ lsu' = IF mem[u].cache # "HIT" THEN Retry(lsu, CACHE_READ, u)
              ELSE IF mem[u].data THEN lsu ELSE ScheduleIssue(lsu)
    /\ mem' = [mem EXCEPT ![u].data = @ \/ mem[u].cache = "HIT"]
    /\ UNCHANGED <<pid, status, mmuVars, dcacheVars>>

\* A load that completes, or a retired store that has written, leaves the queue and
\* returns its credit; a second pass of it only leaves the replay buffer.
Finishes(u) == mem[u].data /\ (IF isStore(u) THEN status[u] = "RETIRED" /\ u \in lsu.queue
                               ELSE status[u] \notin {"COMPLETED", "RETIRED"})

PassesAgain(u) == mem[u].data /\ (IF isStore(u) THEN status[u] = "RETIRED" /\ u \notin lsu.queue
                                  ELSE status[u] \in {"COMPLETED", "RETIRED"})

completeInst(u) ==
    LET s == IF mem[u].data
             THEN ScheduleIssue(Asserted(lsu, /\ isStore(u) => mem[u].phy
                                              /\ ~isStore(u) \/ status[u] = "RETIRED"
                                                 => mem[u].cache = "HIT"))
             ELSE lsu
        t == IF Finishes(u) THEN [s EXCEPT !.queue = @ \ {u}] ELSE s
    IN  /\ lsu' = IF Finishes(u) \/ PassesAgain(u)
                  THEN Speculative(t, removeInstFromReplayQueue(t, {u})) ELSE t
        /\ status' = IF Finishes(u) /\ ~isStore(u)
                     THEN [status EXCEPT ![u] = "COMPLETED"] ELSE status
        /\ UNCHANGED <<pid, mem, mmuVars, dcacheVars>>

\* The pipeline moves on.
AdvancePipeline(s) ==
    [s EXCEPT !.pipeline = [st \in Stages |-> IF st = ADDRESS THEN 0 ELSE @[st - 1]]]

\* The end of a cycle.
AgedLSU(s) == [s EXCEPT !.issue = {d - 1 : d \in @},
                        !.replays = {[e EXCEPT !.due = @ - 1] : e \in @}]
=============================================================================
