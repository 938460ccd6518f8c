# Olympia: TLA+ specification

Olympia (`riscv-perf-model`) is a trace-driven, cycle-level performance model of
an out-of-order RISC-V core, written in C++ on the Sparta framework. This
directory specifies the units that decide *which instruction is where, and which
resources it holds*: fetching, decoding into uops, renaming, dispatch, issue and
execution, loads and stores, retirement, flushes, and the memory system behind the
caches. The modules are translations of the C++ handlers; TLC checks them on small machines and TLAPS
proves the central invariants for machines of any size.

Contents: [inventory](#inventory) · [plan](#plan) · [time](#time-in-the-model) ·
[modules](#modules-and-the-code) · [runs](#runs) · [fairness](#fairness) ·
[proofs](#proofs) · [findings](#findings) · [not modelled](#not-modelled)

## Inventory

The core is a pipeline of units connected by ports. A sender keeps *credits*,
one per free entry of the receiver's queue; a message takes one cycle (`PortUpdate`
phase), a credit none. Nothing is polled: a unit that cannot go on schedules
nothing and relies on a later message to wake it. All units share one flush.

| Unit | State | Operations | Talks to |
|---|---|---|---|
| Fetch, ICache | fetch buffer, credits to Decode, position in the trace, outstanding line reads | fetch a group, send, replies, flush (rewinds the trace) | InstGenerator, ICache, L2, Decode |
| Decode | fetch queue, vector configuration, pending uops, credits to Rename | decode and fuse a group, expand vector instructions, wait for `vset`, flush | Fetch, Rename, VectorUopGenerator |
| Rename | uop queue, in-flight queue, map table, reference counters, freelists, cached register counts, credits to Dispatch | append, schedule, rename session, acknowledgement of retired instructions, flush | Decode, Dispatch, ROB |
| Dispatch | dispatch queue, credits to ROB and to each unit, blocking pipe | append, session, credits, flush | Rename, units, ROB |
| ROB | reorder buffer, expected program id, `expect_flush_` | append, retire session, flush | Dispatch, Rename, LSU, FlushManager |
| FlushManager | pending flush | arbitrate requests, forward | everyone |
| IssueQueue, ExecutePipe | issue queue, ready queue, scoreboard callbacks, passes of a vector uop | append, become ready, issue, execute, complete, flush | Dispatch, FlushManager |
| LSU, MMU, DCache | instruction, replay and ready queues, pipeline, MSHRs, TLB | append, issue, translate, look up, replay, complete, retire a store, flush | Dispatch, ROB, L2 |
| L2Cache, BIU, MSS | request and response queues, credits, pipeline, MSHRs | request, lookup, miss, refill, respond | DCache, ICache |

What is hard, and the property that makes each part correct:

* **Resources are shared and recovered along three paths.** A physical register
  is taken when an instruction is renamed, shared by an eliminated move, and given
  back at retirement or at a flush. *A register is free exactly when nothing refers
  to it, and no instruction ever reads anything but the value of the latest older
  writer.* The same holds for every credit: *an entry is either occupied or a
  credit, once.*
* **Wakeups.** Every stall depends on somebody else's message. *Whenever a unit
  could work, an event is scheduled or a message is outstanding that schedules it;
  in the end the whole trace retires.*
* **Flushes are late.** The instruction that causes one has retired a cycle before
  the flush arrives; meanwhile groups are delivered and instructions complete. *A
  flush drops exactly the unretired instructions, in every unit, and the trace goes
  on after the one that caused it.*
* **Order.** Instructions complete out of order, and unique ids grow past the ones
  that were flushed. *Retirement follows the trace, uop by uop.*
* **Several requests in one cycle.** *The one that is forwarded covers all.*
* **Cached and configured values.** Register counts of the queue head,
  `blocking_dispatcher_`, the vector configuration, pass counters: *they describe the
  present whenever they are used.*

`PROJECT.json` lists each of these as a hazard at its line of code, with the
properties that would catch it.

## Plan

Ordered by importance; the first eight are done.

1. `Rename` with its abstract specification `ArchRename`; proofs of its reference
   counters, freelists and credits.
2. `FlushManager` and `FlushArbiter` (any number of requesters); proof that the
   forwarded flush covers every request.
3. `Dispatch` and `ROB`, composed with `FlushManager` in `Backend`, the rest of the
   core by contract: order, precision of flushes, credits, wakeups, liveness.
4. `VectorUopGenerator`: register numbers and number of the uops against the register
   groups of the instruction (`VectorUops`).
5. `InstGenerator`, `Fetch`, `ICache` and `Decode`, composed in `FrontEnd`: order across
   flushes, answers of ICache, credits, `vset` blocking, vector configuration, liveness.
6. `IssueQueue`, `ExecutePipe` and the scoreboard: an instruction issues once, after
   its sources, and a flushed one never; multi-pass vector uops and flushes.
7. `L2Cache`, `BIU` (with MSS), composed in `MemorySystem`: queue bounds, no lost or
   duplicated response, every request answered; abstract specification `L2Service`, the
   contract by which `FrontEnd` and `LoadStore` use the L2 cache.
8. `LSU` with `MMU` and `DCache`, composed in `LoadStore`: replay, TLB and cache answers
   that race a flush, stores that leave only after retirement.
9. Proofs. Done: everything the runs check of `Rename` (with the refinement of
   `ArchRename`), `Backend` and `MemorySystem` (with the refinement of `L2Service`) except
   liveness, of `VectorUops` and, with its one action property, of `LoadStore`; the invariants of
   `FrontEnd` and `Execute`, under the conditions given with them. Left: liveness, which is out of reach.
10. Compositions in place of contracts: `Execute` and `LoadStore` under `Backend`,
    `MemorySystem` under `FrontEnd` and `LoadStore`. The contracts match; the product is out
    of TLC's reach on instances that mean anything.

## Time in the model

Sparta runs each cycle in phases. The ones that matter here are `PortUpdate`
(messages sent in the last cycle arrive), `Flush` (the flush arrives) and `Tick`
(events, and credits, which take no cycle). In `Rename` these are `"port"`,
`"flush"` and `"tick"`. `Backend` also orders the units inside Tick, as Sparta does
from its zero-cycle ports: ROB, FlushManager and units (`"units"`), then `"dispatch"`,
then `"rename"`; within one of these, any order. `FrontEnd` orders Tick as `"rename"`,
`"decode"`, `"icache"`, `"fetch"`, for the same reason. `MemorySystem` has `"tick"` for
the pipeline and the handlers, and `"post"` for the arbitration and the issue into the pipeline that
they schedule; `Execute` has `"pipes"`, where results and completions happen, then
`"issue"`; `LoadStore` has `"tick"` for the stages of both pipelines, in any order, and
`"late"` for what follows from them. A zero-cycle message is delivered in its sender's step.

A handler runs to completion. One that loops over instructions is a begin step, one
step for each instruction and an end step; `pc` names the handler that is
running, and only its steps are enabled until it is `"idle"` again. So the code's
loop order is kept, and invariants can still be stated between handlers. (Decode's
loop touches no other unit before its end and is computed in one step, `Session`.) Events
are sets of delays (`{0}` now, `{1}` in the next cycle): scheduling twice is
scheduling once, as for Sparta's `UniqueEvent` and `SingleCycleUniqueEvent`.

An assertion of the code (`sparta_assert`) is, in `LSU`, recorded by the step that makes it
(`Asserted`, the field `ok`); elsewhere it is a guard of the step it protects, and a
separate invariant (`AssertionsHold`, `RenameInSync`, `FlushIsPrecise`) says that it
never fails; where one could fail, the step would be missing and TLC would report the
invariant or a deadlock. All runs have deadlock checking on.

## Modules and the code

**`ArchRename`**: what renaming promises, with no physical register: a window of
instructions, each bound to the value of the latest older writer, and a committed
state. Steps: `Enter`, `Commit`, `Squash`.

**`Rename`** (`core/rename/Rename.cpp`, `Rename.hpp`, `RenameData.hpp`). Variables
have the names of the members; `cnt`, `producer_is_load` and `freelist` are the
fields of `reference_counter_` and `RegfileComponents`, `regcount` is
`uop_queue_regcount_data_`. One action per handler or loop
iteration: `decodedInstructions`, `getAckFromROB`/`ackInst`, `handleFlush`/`flushInst`/
`flushUopQueue`, `creditsDispatchQueue`, `scheduleRenaming`, `renameInstructions`/
`renameInst`/`sendRenamed`. Decode, ROB, Dispatch and flushes appear by contract
(`DecodeSends`, `ROBAcks`, `DispatchReturnsCredits`, `Flushes`). Data abstractions:

* One source and one destination per instruction. Loops over operands treat them
  independently.
* x0 is `NoReg`. The code tests `is_x0` wherever it tests for a destination.
* `uid` is the identity of the `Inst` object. Vector uops share a unique id in the
  code, so separate ids only add flush points.
* Values are names: an instruction's result is its uid, a move's is its source's.
  `val` is a history variable.
* `Flushes` is more general than today's ROB, which flushes only what is younger
  than a retired instruction: here any renamed instruction may be named, inclusively
  or not.

**`Pipeline`**: phases, `pc`, ageing of events; used by all modules below.

**`FlushManager`** (`core/FlushManager.hpp`): `receiveFlush` keeps the older of two
requests, and for the same instruction the one that includes it; `forwardFlush`.
**`FlushArbiter`** runs it with any number of
requests of any cause per cycle and checks it against what the requesters asked.
Contract: a misfetch names an instruction that has not reached Rename, and none does
between request and flush (nothing raises MISFETCH at present).

**`Dispatch`** (`core/dispatch/`): `dispatchQueueAppended`, `robCredits`,
`receiveCredits`, each ending in `scheduleDispatchSession`; the session
`dispatchInstructions`/`dispatchTo`/`dispatchStalls`/`dispatchDone`; `handleDispatchFlush`.
The topology that maps pipes to dispatchers is the constant `Dispatchers`.

**`ROB`** (`core/ROB.cpp`, and `Inst::setStatus`/`setOldest` in `core/Inst.hpp`):
`robAppended`, `setCompleted`, the session `retireInstructions`/`retireOne`/`retireDone`,
`handleROBFlush`.

**`Backend`** (`core/CPUTopology.cpp`): the three composed. The front end (with
Rename) replays a trace: it sends the next uop within Dispatch's credits, rewinds at
a flush and never reuses a unique id (`InstGenerator`). Units complete what they hold
in any order, mispredict branches at will and return credits; a store gives its entry
back only after it has retired. `RenameInSync` and `FlushIsPrecise` are what `Rename`'s
contract assumes of ROB: acknowledged groups are prefixes of `inst_queue_`, and a flush
never names an instruction that was acknowledged.

**`VectorUopGenerator`** (`core/vector/VectorUopGenerator.cpp`, `VectorConfig.hpp`). Its
variable `gen` is `current_inst_` with the two uop counters. `NumUops`, `Uop`,
`SrcOffset` and `ExtraSources` are the pure part: how many uops an instruction of a generator
type makes, and which registers each reads and writes. `SetInst`, `AfterUop` and
`AfterGenFlush` are `setInst`, the end of `generateUop` and `handleFlush`.
**`VectorUops`** feeds it instructions of every type and configuration and flushes it at
any point. What the uops should be is stated from the register groups of the vector
extension and not from the tables in the constructor's comments, which disagree with the
code and with each other (see [Findings](#findings)). Registers are numbers; the masks, the `Inst` objects that Mavis makes and
PERMUTE, which the code rejects, are left out.

**`InstGenerator`** (`core/InstGenerator.cpp`): a trace, the next program id and the next
unique id; `NextInsts`/`getNextInsts`, `ResetTo`. A flush rewinds the first and not the
second.

**`Fetch`** (`core/fetch/Fetch.cpp`): `fetchInstruction`, `sendInstructions`,
`receiveCacheResponse`, the two credit handlers, `flushFetch`. Instead of an address an
instruction of a trace has the block and the cache line it is in, and whether it is taken
(`isTakenBranch`) or a change of flow (`isCoF`).

**`ICache`** (`core/fetch/ICache.cpp`): `getRequestFromFetch`, `getRespFromL2Cache`,
`getCreditsFromL2Cache`, `doArbitration` (a fill, then a replay or else a lookup),
`requestLine`, and `answered` for `sendResponse_`/`sendReplay_`. The replacement policy is any
victim. A request is `[line, insts]`.

**`Decode`** (`core/decode/Decode.cpp`): `fetchBufferAppended`, `receiveUopQueueCredits`,
`processVset`, `handleFlush`, the session `decodeInsts` with its loop `DecodeOne`, and
`decodeGathers`, the early return with which fusion waits for a larger group. Matching
fusion groups only marks instructions (`FUSED`, `FUSION_GHOST`); nothing in the source
changes a program-id increment, so it is left out. `waiting_on_vset_` has no initial
value in the code: `WaitingAtStart` is the set of values it may begin with, `{FALSE}`
(memory that is zero) in the runs (see [Findings](#findings)).

**`FrontEnd`** (`core/CPUTopology.cpp`): the four composed. By contract: L2 fills lines in any
order and returns each credit once (`L2Fills`, `L2ReturnsCredit`); Rename returns any number
of the credits it holds (`RenameReturnsCredits`); a `vset` is executed some time after it was
sent (`VsetExecuted`); a branch that Decode has sent may be mispredicted in any cycle and
flush, inclusively or not (`Flush`). `sent`, the uops that Rename and what is behind it
hold, is a history variable that flushes cut. Two more record what a flush leaves in Decode:
`vset_dropped`, that it took the `vset` that Decode waits for; `stale`, the places of the
program that will be decoded under the configuration of a `vset` that it took. Nothing
depends on them but the properties.

**`BIU`** (`mss/BIU.cpp`, `MSS.cpp`): `receiveReqFromL2Cache`, `handleBIUReq`, `getAckFromMSS`,
`handleMSSAck`; `getReqFromBIU` and `handle_MSS_req` of MSS. Events and messages between the
two are sets of delays, for at most one of each kind is on its way.

**`L2Cache`** (`mss/L2Cache.cpp`): the receiving handlers `getReqFrom` (ICache and DCache; the
code has one copy for each), `getRespFromBIU`, `getCreditsFromBIU`; the events `handleReq`,
`handle_L2Cache_BIU_Req`, `handleResp`, `create_Req` (with `arbitrateL2CacheAccessReqs`) and
`issue_Req`; the pipeline stages `handleCacheAccessRequest` and `handleCacheAccessResult`. A
request is its line, source, destination and cache state; the code rewrites source and
destination on the way, and so does the model. The replacement policy is any victim. Every
queue has its size, and every assertion on a size is part of `AssertionsHold`; that of the BIU's
responses is the one that no credit enforces, since the BIU returns the credit as it answers.

**`MemorySystem`** composes the two. ICache asks within its credits, DCache one line at a
time, each for lines it does not already wait for, as their code does. `waiting` is what
they wait for. **`L2Service`** is what this promises: a line is owed from its request to its
answer. `ImplementsService` is the refinement.

**`ExecutePipe`** (`core/execute/ExecutePipe.cpp`): a pipe is a record of `unit_busy_`, the
two pass counters and the events with their payloads; `insertInst`, `executeInst`,
`reissueInst`, `completeInst`, `flushPipe`. **`IssueQueue`** (`IssueQueue.cpp`):
`receiveInstsFromDispatch`, `operandIssueCheck` (also as the scoreboard's callback),
`readyExeUnit`, `sendReadyInsts`, `flushQueue`. **`Execute`** composes one queue, its pipes
and the scoreboard. Abstractions and contracts:

* The scoreboard is Sparta's: a result is seen one cycle after it is set, and callbacks run
  at once. A destination is named after the program id of its instruction; re-execution
  clears its bit, as Rename does.
* `in_order_issue` sorts by nothing, so the ready queue is in order of readiness; otherwise
  by age. Both are initial states (`fifo_`).
* Another unit (a load, say) completes in any cycle. A branch flushes only once everything up to it
  has executed, since ROB flushes at its retirement.
* Passes are computed in unsigned arithmetic, modulo `UIntSize` (2^16 in the runs, as TLC's
  integers have 32 bits; a program's lengths are far smaller, as `ProgramAssumption` says).
* An instruction that waits in two register files is in `execute_files` only, and a flush
  that meets a pipe between two passes puts it into the history variable `cut`: the code
  mishandles both (see [Findings](#findings)).

**`MMU`** (`core/MMU.cpp`): `getInstsFromLSU` with `memLookup`, `lookupInst`. It also
holds what an access carries (`MemoryAccessInfo`): `phy` stands for MMU state HIT and a ready
physical address, `cache` is the cache state, `data` stands for data ready. Physical addresses
are virtual ones; a TLB entry is evicted at will.

**`DCache`** (`core/lsu/DCache.cpp`, `DCache.hpp`): `receiveMemReqFromLSU`,
`receiveRespFromL2Cache`, `arbitrateL2LsuReq`, the stages `handleLookup` and `handleDataRead`,
`mshrRequest`. A refill (`reloadCache`) takes any victim, even if its line is in the cache already:
each instruction has a miss register of its own, and the sets of the cache are not modelled. The
L2 cache answers with a copy of the request, made when it takes the request up (`createReq`);
`l2_copy` is the miss register which that copy refers to, and the only one that the answer frees.

**`LSU`** (`core/lsu/LSU.cpp`): its state is the record `lsu` of queue, store buffer, ready queue,
replay buffer, pipeline and events. Handlers: `getInstsFromDispatch`, `handleOperandIssueCheck`,
`getAckFromROB`, `issueInst`, `handleAddressCalculation`, `handleMMULookupReq`, `getAckFromMMU`,
`handleMMUReadyReq`, `handleCacheLookupReq`, `handleCacheRead`, `completeInst`,
`replayReady`, `appendReady`, `handleFlush`, with the helpers under their own names
(`abortYoungerLoads`, `tryStoreToLoadForwarding`, `allOlderStoresIssued`,
`readyDependentLoads`, ...). An iterator into a buffer is valid exactly while the
entry is there. `IssueState` and `IssuePriority` are written and decide nothing (ready instructions
issue by age), and are left out.

**`LoadStore`** composes the three with Dispatch, ROB, L2 and other units' results by
contract. Dispatch sends as soon as it has a credit. ROB retires in order, and at the
retirement of what precedes a mispredicted branch flushes everything behind it; the trace then goes
on with new unique ids. L2 copies the request at some time (`L2CopiesRequest`) and answers any
request it was sent (`L2Service`). `released` and `spoiled` are history variables: the loads
that a store's lookup made ready though an older store had no address, and the instructions that
asked the cache twice and missed the second time. Dispatch is more eager than the code's, whose
dispatcher takes one instruction in a cycle and may stall; a late operand stands for a late
arrival. Inside `"tick"`
the stages of LSU, those of DCache, `mshrRequest_` and retirement come in any order, except
that the cache's answer to a lookup precedes the read stage it is for; ports are read in a
fixed order; events follow in the order replay, append, issue, TLB reload, arbitration of the cache, which
touch different state but for the first three. Modes
(`allow_speculative_load_exec_`, data forwarding) are part of the setup of a trace.

`MCRename`, `MCFlushArbiter`, `MCBackend`, `MCVectorUops`, `MCFrontEnd`, `MCExecute` and
`MCLoadStore` give the constants (`MemorySystem` needs no such module); `RenameProofs`,
`BackendProofs` (with `FlushArbiter`), `MemorySystemProofs`, `LoadStoreProofs`, `FrontEndProofs`,
`ExecuteProofs` and `VectorUopsProofs` hold the theorems, `SequenceFacts` the lemmas on sequences and
finite sets that they share. `Places` filters a sequence by a set of places, for `ICache` and
`IssueQueue`. Operators whose comment begins "Seeded fault"
are wrong variants of the definition below them; each breaks the property it is
listed with in `PROJECT.json`, which shows that the property depends on that code.
Statistics, stall counters and logging are left out everywhere.

## Runs

| Run | Checks | Shows |
|---|---|---|
| `rename_partial` | `TypeOK RefCountExact FreelistExact AssertionsHold NoLostWakeup CreditsConserved`, `ArchSpec EveryUopLeaves` | partial renaming with move elimination is exact in registers and credits, loses no wakeup and implements `ArchRename`; every decoded instruction is renamed or flushed |
| `rename_group` | `AssertionsHold NoLostWakeup` | group renaming in two register files, bandwidth = queue depth |
| `flush_arbiter` | `ForwardedCoversAll` | the forwarded flush covers every request |
| `backend` | `RenameContract InProgramOrder CreditsConserved NoLostWakeup TraceRetires` | order, precise flushes, credits and wakeups with branches, CSR instructions, stores and vector uops, up to the end of the simulation; everything retires |
| `vector_uops` | `UopsExact` | uops write and read exactly the register groups of their instruction (SINGLE_DEST: only the first source registers), cover every element and chain reductions, for every type and length |
| `frontend` | `TraceInOrder FetchedFirst CreditsConserved OneFillPerLine` | scalar programs reach Rename in order and after they were fetched, credits are conserved, and a line is requested once for all the misses on it |
| `frontend_vector` | `TraceInOrder VsetBlocks ConfigExact TraceDecoded` | uops in order, nothing passes a `vset` that is not executed, every vector uop has its program's configuration unless a flush left a later one in Decode; the whole trace gets through Decode, with fusion, unless a flush took the `vset` that Decode waits for |
| `l2cache` | `RequestsExact QueuesBounded EveryRequestAnswered`, `ImplementsService` | a request is in one place until its one answer to the unit that asked; misses on a line share one bus request; no queue overflows, of requests or responses; every request is answered unless the cache is starved for good (`Starved`); the whole implements `L2Service` |
| `execute` | `QueueExact ReadyExact PipesExact TraceCompletes` | nothing issues before its sources, twice or never; a flush leaves no instruction, callback, event or busy pipe behind; uops make enough passes for their elements and no more than a full one, also behind VL; every trace completes, unless a flush met a pipe between two passes |
| `lsu` | `AssertionsHold EntriesExact MemoryOrder NobodyForgotten TraceCompletes` | no assertion of LSU fails but the one on a hit, of an instruction that asked the cache twice; stores write only after retirement; loads get no data before older stores have addresses, unless `readyDependentLoads_` let them go; nothing of a flushed instruction stays; nobody waits for an event that does not come; every trace completes |
| `execute_passes` | `NoPassTooMany`, violated | see [Findings](#findings) |
| `execute_files` | `ReadyOnce`, violated | see [Findings](#findings) |

Several of these are conjunctions of parts with names of their own, which the text below
uses: `AssertionsHold` of `Rename` contains `WholeQueueRenamed` and `RegCountFresh`;
`RenameContract` is `RenameInSync` and `FlushIsPrecise`; `NoLostWakeup` of `Backend` is `RetireWakes`
and `DispatchWakes`; `UopsExact` is `GroupsCovered`, `ReductionChained` and `ElementsCovered`;
`CreditsConserved` of `FrontEnd` is the one of the fetch queue and the one of ICache;
`RequestsExact` is `RequestsTracked` and `OneBIURequestPerLine`; `QueueExact` is
`InOnePlace` and the credits of the issue queue, `ReadyExact` is `OperandsExact` and `IssueWakes`,
`PipesExact` is `BusyExact` and `PassesExact`; `EntriesExact` is `CreditsConserved` and `FlushedGone`;
`MemoryOrder` is `StoresWriteRetired` and `LoadsBehindStores`. The type invariants are parts of the
properties on credits and bounds. To see a part alone, name it in the configuration.

**Bounds.** `MaxUid` bounds the instructions decoded in a behaviour of `Rename`. Four
instructions over two integer registers and four physical ones contain the cases that
matter: two writers of a register in flight, a register shared by a move and
overwritten on both sides, an exhausted freelist, a flush between any two of them, and
a retirement that wakes a stalled session. Queues hold two, so that a full one, a
partly drained one and a flush of each occur.
`Backend`'s traces have four to six instructions; unique ids and program ids are
bounded by the trace (every flush is caused by a retired instruction, so there are at
most as many flushes as instructions). Depths of 2 or 3 make every queue and unit run
full; of a reorder buffer of three, three uops leave one entry (see [Findings](#findings)),
which is enough for the rest of their trace. The simulation stops after five retirements.
No symmetry is used.

`VectorUops` has registers of 32 bits and elements of 8 and 16, all groupings 1 to 8, all
lengths from 0 and all generator types, so a last register is full, partly full or absent. In `FrontEnd` blocks hold
two instructions and lines two blocks; traces of three to five instructions go over up
to three lines, come back to one, and branch inside a block. The cache holds one line, so
it always evicts what is wanted again; queues and credits are one to three, so all of
them run out. `MaxFlushes` is 2 in `frontend`: two flushes at any times and by any branches
in flight, so that requests and answers of before one arrive after it or after the next;
it is 1 in `frontend_vector`, which also checks liveness. There one trace has two `vset`s with a
branch between them, of which the second reads a register: the flush comes before it, takes
it while Decode waits for it, or comes after it; another has a vector instruction between a
branch and a `vset`, which is decoded again under the flushed `vset`'s configuration.
`frontend_vector` has a fetch queue of six, which the surplus credits of its trace cannot
overfill (see [Findings](#findings)).

`l2cache` has three lines and an L2 cache of one, so every line is evicted again while others
are asked for; ICache may wait for two at a time, so both units miss on the same line, and
on different ones, in every order. The queue to the BIU holds two requests and the BIU takes one at
a time, so a second waits, and starves, while the first is on the bus; two requests share the
pipeline, of two stages. The miss buffer holds three, the other queues one, responses included. Behaviours are unbounded, since requests never
stop; the state space is finite. `execute` has five traces of six or seven instructions through two
pipes and a queue of three: chains on a load and on instructions of two cycles, up to two
branches that flush them, and vector uops of one to several passes with four adders, before and behind a
branch, among them a second uop with a tail and one behind VL. In `lsu`
the traces have two instructions each, the pairs that interact: a store and a load of its
bytes, with the store's data or address late; dependent loads; two stores; a store behind a
late load; each with a flush behind one of them and in the modes where it matters. One TLB
entry, one cache line and one miss register make the two evict each other at every turn; the
second lookup of a completed instruction does miss, loads do get past stores in the default
mode, and miss registers are taken after the L2 cache made its copy. The
queue and the replay buffer hold three (a replay buffer that fills up is in
[Findings](#findings)); replays wait two cycles.

## Fairness

`Rename`: weak fairness of Rename's own steps and of the clock, because Sparta runs every
scheduled event and never stops the clock; strong fairness of Dispatch's credits and of
ROB's acknowledgements, because each can happen only in its phase and is enabled again
in every cycle. That these two do drain is what `backend` shows. Decode owes nothing
and flushes are never forced.

`Backend`: weak fairness of handlers and the clock; strong fairness, again because they
belong to one phase, of completions, returned credits and the front end. Execution has
finite latency, an issue queue frees its entry at issue, and a trace has a next
instruction until its end. Which instruction completes, and whether a branch is
mispredicted, is not constrained.

`FrontEnd`: weak fairness of handlers and the clock; strong fairness, again because each
belongs to one phase, of L2's fills and credits, Rename's credits and the execution of a
`vset`. Rename's credits come back because every decoded instruction leaves Rename
(`EveryUopLeaves`), and a `vset` is executed because every trace retires (`backend`). A flush
is never forced.

`MemorySystem`: weak fairness of handlers and the clock, nothing else; nobody has to ask.

`Execute`: the same, and strong fairness of Dispatch and of the other units' completions,
which belong to one phase; both keep going as in `Backend`.

`LoadStore`: weak fairness of handlers, Dispatch's eager sends and the clock; strong fairness
of retirement, the flushes and the operands of other units, together (a trace has
finitely many of each), as `backend` and `execute` show that they happen; and of L2's
answers, which is `EveryRequestAnswered`.

## Proofs

TLAPS proves these for every value of the constants that satisfies the assumptions below:
every set of registers, trace, depth, width, latency and cache size, not only those of
the runs.

| Theorem | Statement |
|---|---|
| `TypeCorrect` | `Rename`: `Spec => []TypeOK` (in particular no counter goes below zero) |
| `RefCountsAreExact` | `Spec => []RefCountExact` |
| `FreelistsAreExact` | `Spec => []FreelistExact` |
| `CreditsAreConserved` | `Spec => []CreditsConserved` |
| `RenameWakesUp` | `Spec => []NoLostWakeup` |
| `RenameAssertionsHold` | `Spec => []AssertionsHold`, with partial renaming or `NumToRename >= RenameQueueDepth` |
| `RenamingIsInvisible` | `Spec => ArchSpec`: `Rename` implements `ArchRename` |
| `ForwardedFlushCoversAll` | `FlushArbiter`: `ArbiterSpec => []ForwardedCoversAll` |
| `RenameContractHolds` | `Backend`: `Spec => []RenameContract` |
| `ProgramOrderHolds` | `Spec => []InProgramOrder` |
| `BackendCreditsConserved` | `Spec => []CreditsConserved` |
| `BackendWakesUp` | `Spec => []NoLostWakeup` |
| `QueuesAreBounded` | `MemorySystem`: `Spec => []QueuesBounded`, with `BIURespQueueSize` at least `MissBufferSize` or more than `ICacheMisses` |
| `RequestsAreExact` | `Spec => []RequestsExact` |
| `MemorySystemServes` | `Spec => ImplementsService`: `MemorySystem` implements `L2Service` |
| `EntriesAreExact` | `LoadStore`: `Spec => []EntriesExact` |
| `MemoryOrderHolds` | `Spec => []MemoryOrder` |
| `NothingForgotten` | `Spec => []NobodyForgotten` |
| `UnitTypesHold` | `Spec => []TypeOK` (buffers, TLB, cache and miss registers keep to their sizes) |
| `AssertionsAreExact` | `Spec => AssertionsHold`: a step that trips an assertion completes an instruction whose second lookup missed |
| `FillsAreExactlyOnePerLine` | `FrontEnd`: `Spec => []OneFillPerLine` |
| `ICacheCreditsHold` | `Spec => [](ICacheCreditsConserved /\ credits_icache_ \in Nat)` |
| `ProgramOrderKept` | `Spec => []TraceInOrder`, if `Proper` |
| `FetchedBeforeSent` | `Spec => []FetchedFirst`, if `Proper` |
| `CreditsHold` | `Spec => []CreditsConserved`, if `Proper` and `Scalar`; its part `TypeOK` if `Proper` |
| `VsetsBlock` | `Spec => []VsetBlocks`, if `Proper` and `StartsFree` |
| `ConfigsAreExact` | `Spec => []ConfigExact`, if `Proper`, `OwnLengths` and `StartsFree` |
| `QueueIsExact` | `Execute`: `Spec => []QueueExact`, if `WaitsInOneFile` |
| `ReadyIsExact` | `Spec => []ReadyExact`, if `WaitsInOneFile` |
| `PipesAreExact` | `Spec => []PipesExact`, if `WaitsInOneFile` |
| `UopsAreExact` | `VectorUops`: `Spec => []UopsExact` |

`Proper` says that
the initial configuration and those of all `vset`s have VL > 0 and elements that fit a register,
`Scalar` that no trace has vector instructions; the traces of both runs are `Proper`, those of
`frontend` are `Scalar`. `OwnLengths` says that no `vset` has x0 as source and destination, and that a
`vsetvl` with x0 as source has VLMAX in its trace entry; `StartsFree` that `waiting_on_vset_` starts as
false; `frontend_vector` satisfies both. `WaitsInOneFile` says that each instruction has sources that may
be unready in one register file at most; the programs of `execute` satisfy it. These conditions are those
under which the code is right: without each of them a counterexample is in [Findings](#findings). The
one of `QueuesAreBounded` is sufficient: responses are of different lines that are missed, so their queue needs
no more entries than the miss buffer has, or than lines can be waited for. The sizes of `l2cache` are below
both, and there TLC finds that one entry is enough. What the code gets wrong for
particular steps, and not for particular programs, is not a condition but part of the property, which
names it by a history variable: `vset_dropped`, `stale`, `cut`, `released`, `spoiled`.

**Assumptions.** `RegisterAssumption`, `FreelistAssumption`: the constructor maps
registers one to one inside their file and puts exactly the others on the freelists.
`ParameterAssumption`, `DispatchAssumption`, `ROBAssumption`, `L2Assumption`, `BIUAssumption`:
depths, widths and sizes are positive, every dispatcher has units, the L2 pipeline has its
three stages. `BackendAssumption`: traces are sequences of instructions whose pipe has
dispatchers, branches and CSR instructions are single uops (only vector instructions are
split), and the value for "no flush" is no flush. `MemorySystemAssumption`: ICache
may wait for some line, and the value of an empty stage is no request. `ProgramAssumption`, `ExecutePipeAssumption`, `IssueQueueAssumption`: programs are sequences of instructions
whose sources are older and whose lengths are below `UIntSize`, a pipe has adders, and a target names its pipes. `LSUAssumption`: queue,
replay buffer and replay delay are positive. `SetupAssumption`: traces are sequences of loads
and stores whose addresses come from an older instruction of the trace or from another unit, and the two modes are on or off. `ICacheAssumption`: ICache's queue,
latency, number of lines and L2 credits are positive. `FetchAssumption`, `DecodeAssumption`,
`FrontEndAssumption`: so are the sizes of Fetch, Decode and the uop queue. `TraceAssumption`: traces
are sequences of instructions, and the value for "no instruction" is none. `VectorAssumption`, `InstAssumption`: a register has bits, VL is at most
VLMAX, each type has its operands, widening instructions leave room for the wider group, and an instruction has at most the uops that
`N_VECTOR_UOPS` allows. The arbiter needs
only that unique ids are naturals. TLC evaluates all of them in the runs.

None of the properties is inductive. For each module `IInv` at its end is the
conjunction that is; TLC checked it on the instances of the runs before it was proved.
A proof has one lemma per action, and a fact that concerns few actions is
proved relative to `IInv` in a second pass, so that the other actions are one frame lemma.

**Rename.** `IInv` adds: `OrderInv` (renamed
instructions are in program order and older than the queue, so uids identify them);
`FileInv` (mappings stay in a register file, so a register returns to the freelist it
came from); `ReplayInv`, the central one: the last in-flight writer of a register is
mapped, and each writer's `prev` is the `pdst` of the writer before it, so that undoing
the youngest restores the mapping that its predecessor's reference stands for;
`SessionInv` (a running session fits the credits and the queue); `AckInv` (a group being
acknowledged is the head of the queue). Then each step changes the set of references of
each register by at most one mapping and one holder: renaming moves the mapping of the
overwritten register to a holder and adds a mapping; retirement drops the oldest
holder; a flush turns the youngest holder back into a mapping and drops the mapping of
`pdst`. Cardinalities follow from lemmas on finite sets, and a register joins the freelist
exactly when its count reaches zero.

On top of `IInv`: `GrantInv` says that what a session was granted on (credits, registers of
each file, a queue) is still there when it runs, because between the grant and the session
only things are added, and that the counts kept of the queue are those of the queue. From
it come the assertions and the wakeups. `ReadInv` says that the register an
instruction reads is mapped or is the one that the next writer of the source will
give back. Such a register has a reference, hence is not free, hence is given to nobody and keeps
its value while the instruction is in flight; this is what makes renaming invisible. The refinement mapping undoes
the instructions in flight (`CommittedMap`), so renaming and flushing leave the committed
state alone and retirement commits the oldest writer.

**FlushArbiter.** Its invariant is `ArbiterInv`. `RequestInv` says what the pending flush is in terms of the requests
seen; `CoverInv` that it covers each; the order on (unique id, inclusive) is total, so
keeping the smaller covers both.

**Backend.** `FrontInv`, `SessionInv`: where the front end is, which handler runs on what, and
in which phases a message can be under way; this is what shows that a flush, in its own
phase, finds nothing between the units. `RenameInSync`: the queue of Rename is the
concatenation of what was retired, the reorder buffer, the messages, Dispatch's queue and so
on, so that each step moves a boundary inside one sequence; most of the lemmas about
sequences serve it. `OrderInv`, `InTraceOrder`: that sequence is a run of the trace with
growing ids. `ExpectedInv`: its oldest unretired element is what ROB expects, also when it is
not in the reorder buffer yet. `FlushInv`, `FlushIsPrecise`: there is at most one flush under
way, of the last instruction that retired, so that it includes all that is unretired. `BandwidthInv`:
a dispatcher that stalls a session has a credit out, whose return wakes Dispatch.

**MemorySystem.** `RequestsTracked` and `OneBIURequestPerLine` are stated by counting places, which is
inductive as it stands: a step moves a request from one place to the next and the
sum stays. `ReqInv` says what the rewriting of source, destination and state has made of a
request by each place, which decides to which unit it belongs. `PhaseInv` and `EventInv` say which
events can be scheduled in which phase, so that a stage is never overwritten; `PipelineBounded`
that whatever is in the pipeline could miss without overflowing; `BIUInv` that the bus has one request
at a time. Under `IInv` the lines owed to a unit in `L2Service` are those it waits for. `OneBIURequestPerLine`
also bounds the responses (`ResponseLines`): they are of different lines, each with a miss in the buffer.

**LoadStore.** LSU's state is one record and its subroutines are operators on it, so the first
lemmas say of each subroutine what it moves (`Moves`): it works on nothing but what was worked on
and the instructions it is given, and leaves queue, store buffer and callbacks alone. A handler
is then a unit step (`UnitStep`): statuses go forward, translations are not forgotten,
instructions leave the queue with a credit each. `HeldInv` makes this inductive: whatever is worked on has
been scheduled, a scheduled instruction is in the queue (so a load that passes the pipeline again
returns no second credit), and a callback belongs to a dispatched instruction of the queue and to the one
register it waits for, which is not ready (so the flush, which clears the callbacks of
the queue's entries only, clears all of them). `MessageInv`: what arrives is younger than what is in the queue,
and no message is under way when a flush arrives. `RetiredInv`: what has retired is in front of every branch that is
still to flush, so a store in the cache is never flushed. `SpeculationInv`: a load that
asked the cache had all older stores translated, and still has, because translations stay
and the stores that come later are younger.

A second invariant, `LInv`, is about LSU's buffers and events. `ReadyInv`: the ready queue and the replay
buffer share nothing, and one instruction issues in a cycle, after the events that make instructions ready. `StageInv`: what
reaches the last stage has its data, and has left the queue when it leaves the stage. `StoreInv`: a store is in the store
buffer, and has asked the cache for nothing, until LSU knows that it has retired. `TranslationInv`: an instruction
that waits for the MMU is not translated, so what leaves the queue is no longer waited for. `PlacedInv` is
`NobodyForgotten` inside a cycle: each subroutine is shown to keep in some place whatever it takes from another
(`Kept`), which is where the order of the two issue events and the events that the flush cancels matter; and a load
that waits for an older store is made ready when the last such store is translated or flushed. All
assertions but one follow from `LInv`. The one of `completeInst_`, that what completes has hit in the cache, follows from
`StageInv` (what reaches the last stage has its data) and `HistoryInv`: what has data has hit, or has asked the cache
again and missed (`spoiled`), the case of the finding at `LSU.cpp:442`. The other part of `HistoryInv` is `MemoryOrder`
in the default mode: a load that was scheduled has only translated stores in front of it, or a store's lookup let it go
(`released`); it is kept because translations stay and what arrives later is younger. For the types, `TypesInv` adds that a miss register is taken only for a line and an instruction
without one.

**FrontEnd.** `FillInv`: the lines in `miss_queue_`, at the L2 cache and in `l2cache_resp_queue_`
are different and together those of the pending misses. A fill moves a line's misses, as one
piece, to the replays; a replay that misses again starts a new fill, since none is under
way. `EventInv`: ICache arbitrates at most once a cycle, so that the answer it schedules is
to a request that no other answer is under way for. `PortInv`: no request of Fetch is on its port when a
flush arrives. `CreditInv` counts ICache's credits over all places; it needs the others, since an
answer frees the entry of the request that it names. `ElementsAt` filters a queue by a
set of places because the provers know nothing of `SelectSeq`.

The order is a second invariant, `OrderInv`. `SentRun`: the uops sent are the beginning of the program, and two
uops with one unique id are of one vector instruction; so a flush by a branch, which compares
unique ids, leaves a prefix that ends with a whole instruction, exactly where the trace is rewound to.
`QueueRun`: what Decode and Fetch hold follows without a gap up to the place in the trace. `GenRun`: the generator is
idle, or goes on with the last uop sent, and is then younger than the branch and flushed with it.
`GroupInv`: at most one group is between Fetch and Decode, and none at the time of a flush, so that
clearing the port loses nothing. A session is an induction over its iterations (`LoopStep`, `SessionOrder`).

Three more rest on the two. `WantInv`, for `FetchedFirst`: an access is in one place (`OnceInv`), no instruction is asked for
by two (`SplitInv`), so that the one answer to an access ends the want of exactly its instructions, and what is
answered is wanted nowhere else (`FreshInv`); new requests are for younger instructions than all earlier ones, also after a
flush, which leaves ICache with requests for uids that never come again (`AskedInv`). `TypesInv`, for the counters: `RoomInv` counts the
blocks that end in the fetch buffer, which a flush makes fewer than the occupancy and never more; `WakeInv` and
`AccessInv` say which events have run by the end of a cycle, so that nothing is overdue; `CountInv` says the L2
cache owes only what it was sent. `VsetInv`: Decode waits exactly while the last uop sent is a `vset` that is out (`BlockInv`), and while
none is out it holds the configuration of the program behind the last uop sent (`ConfigInv`). Inside a session this is an induction over its iterations (`SettledStep`) next to the one for the
order, since the order says which instruction comes next. A flush takes uops behind a branch. If a `vset` that is out is among them, it is `vset_dropped` and Decode
decodes nothing more; if another `vset` is, the instructions up to it are `stale`, and the first `vset` that comes again
restores the configuration (`StaleRuns`); if none is, the configuration stays (`ConfigKept`).

**Execute.** `PlaceInv` puts every live instruction of the unit in the queue or in one event of one pipe;
`QueueInv` says that the ready queue is the set of queued instructions with all their sources, and the
callbacks those of the others, one per file waited for. That is where `WaitsInOneFile` is needed: with it the callback that
runs when a register is written belongs to the last file its instruction waits for, so the check finds it ready
and registers nothing. `operandIssueCheck` over the callbacks of a register and `sendReadyInsts` over the ready queue are
inductions along a sequence (`ChecksFacts`, `OffersFacts`): the latter shows that each pipe takes one
instruction at most and that whoever stays behind found all its pipes busy, which gives
`WakeInv`. `PassInv`, on top of it, ties the two counters of a pipe to the uop it is busy with, and an
idle pipe has zero counters, until a flush meets the pipe between two passes (`cut`). That the passes are enough, and at
most those of a full uop, is arithmetic on `NumPasses` with its wrap.

**VectorUops.** `IInv` says that the uops made so far are the first ones of the current instruction, and that the
generator counts them. The rest is arithmetic: the number of uops is VL divided by the elements of a
register, rounded up (`TotalFacts`), and offsets of j, j / 2, 2j and 2j + 1, or j / ext over all uops fill a group of
registers without a gap (`OneEach`, `OneForSome`, `TwoEach`).

**Only model-checked.** Liveness, and with it that every wakeup is enough, is out of the
prover's reach. Of the invariants, those with a condition in the table are
proved under it only; outside it they can be false, or, for `QueuesBounded` at the sizes of
`l2cache`, are checked by TLC. Where a proof needs induction on a number (the sum over a
sequence, the least index with a property), it takes the least element of a set of
naturals, since the library's induction theorems cannot be instantiated.

## Findings

`execute_passes` shows one: a flush cancels the events of a uop that needs several passes and
frees its pipe, but leaves `num_passes_needed_` and `curr_num_pass_` as they were
(`ExecutePipe.cpp:183`). The next vector integer uop skips the computation of its own passes,
counts on, and trips the assertion of `insertInst` or makes the wrong number of passes; a scalar
instruction is issued again and again, since its pipe never reaches the last pass. `execute` has
such flushes too, and its properties except the pipe (`cut`).

`execute_files` shows another: an instruction that waits in two register files has a callback in
each. The one that comes first checks all sources again and registers another callback for
the other file (`IssueQueue.cpp:130`), so that two are left when that file is ready, and both
put the instruction into the ready queue. "we wait till the final callback comes back"
(`IssueQueue.cpp:155`) does not hold; the second issue would find it gone from the queue.

Other places where the code differs from its comments or goes wrong, met while modelling. The
models have this behaviour. Either a run meets it and its property excepts exactly it, which
is said here, or the runs stay clear of it by their traces and parameters, and the property
that shows it is given with the change to a run that reaches it.

* Rename, group mode. Without partial renaming a session renames at most `num_to_rename`,
  then asserts that the queue is empty. Decode's credits are `rename_queue_depth`; with the
  default parameters (10 against 4) a queue deeper than the bandwidth trips the assertion
  (`WholeQueueRenamed`, `NumToRename = 1` in `rename_group`).
* `ROB.cpp`. ROB counts a retirement, and returns a credit, only for uop 0, while Dispatch
  takes a credit per uop. Each vector instruction of *n* uops loses *n* - 1 credits
  (`TraceRetires` in `backend` with a reorder buffer of two, three uops and one more
  instruction: it stops at once; a larger buffer stops later).
* `Rename.cpp:659`. An eliminated move overwrites `producer_is_load` of the register it
  shares, so a load or store behind it is told that its producer was no load.
  Nothing that is modelled reads the flag; no property is about it.
* `ROB.cpp:292`. The comment says that SYS instructions other than CSR accesses flush; the
  code flushes CSR accesses only.
* `VectorUopGenerator.cpp:316`. No source register of a SINGLE_DEST instruction is ever
  incremented, though "only increment all src register numbers" is meant: all its uops read
  the first registers of the groups (`GroupsCovered` asks no more of this type).
* `VectorUopGenerator.cpp:37-159`. The tables in the constructor are not what the code does,
  nor what the extension asks for: they let WIDENING and WIDENING_MIXED step the shared sources
  by two registers, SINGLE_SRC count up the source and not the destination, and slides keep
  one destination. There the code is right.
* `VectorUopGenerator.cpp:120-131`. A wide reduction reads rs2 with every uop, and so twice as many
  registers as its group has, and shares rs1; its table shares rs2. `ReductionChained` asks only
  that the chain takes in the whole group.
* `VectorUopGenerator.cpp:286`. `generateUop` computes the elements of a uop as VLMAX / SEW,
  `setInst` as VLEN / SEW, and the tail flag is wrong for e8m1, VLEN 32, VL 2.
* `VectorUopGenerator.cpp:290`. VL = 0 plans no uop, makes one and leaves the generator
  occupied: the next vector instruction trips an assertion of `setInst`. (`vector_uops` has
  these instructions; only a flush ends them.) A `vslide1down` reads the register behind its
  source group.
* `Fetch.cpp:259`. A flush clears the fetch buffer and not its occupancy.
* `Decode.hpp:337`. `waiting_on_vset_` is read before it is assigned (`VsetBlocks` with
  `WaitingAtStart` both values).
* `Decode.cpp:172`. A flush that drops the `vset` Decode waits for does not end the wait: Decode
  sends nothing any more. `frontend_vector` meets it; `VsetBlocks` and `TraceDecoded` except it
  (`vset_dropped`).
* `Decode.cpp:172`. A flush does not restore the vector configuration that a flushed `vset`
  changed; older instructions are decoded again under it. `frontend_vector` meets it;
  `ConfigExact` excepts the instructions up to the first `vset` (`stale`).
* `Decode.cpp:145`. A `vset` with x0 as source and destination takes the length that its own
  trace entry has; the comment says that VL is unchanged (`ConfigExact`).
* `Decode.cpp:143`. Only `vsetvli` is given VLMAX for x0 as source; a `vsetvl` keeps the length of
  its trace entry (`ConfigExact`).
* `Decode.cpp:112`. If credits run out inside the last vector instruction of a trace, the
  credits that come back do not wake Decode, which looks only at the fetch queue
  (`TraceDecoded`).
* `Decode.cpp:328`. Decode returns a credit per uop for one entry; Fetch then overfills the
  queue (`FetchCreditsConserved` with vector instructions).
* `Decode.cpp:194`. Gathering for fusion schedules nothing; with `num_to_decode` below
  `fusion_max_group_size`, if nothing else arrives, the last instructions are never decoded
  (`TraceDecoded`).
* `ExecutePipe.cpp:86-89`. The elements left are counted from `UOpID - 1` in unsigned arithmetic,
  so a uop has one uop's elements too many, and one behind VL (of a widening instruction or a
  whole-register move) wraps to a full one; and the division comes before the `ceil`, so a last
  partial pass is not made. `PassesExact` says what is left of it: no more passes than a full uop,
  and enough for its elements if the adders divide a full uop.
* `L2Cache.cpp:233`. "Loop on biu_req_queue_ if the requests are present": a handler that sends
  one request does not loop for the next, and one that finds the queue empty does. The credit
  that comes back schedules `ev_issue_req_` and not the handler, so a second request waits until
  another miss schedules it; when none comes it is never sent. `l2cache` meets it;
  `EveryRequestAnswered` excepts behaviours that end starved (`Starved`).
* `L2Cache.cpp:177`, `490`. No credit bounds the responses of the BIU: their queue has 4 entries by
  default and the miss buffer 64. `QueuesAreBounded` is proved for a queue as long as the buffer,
  or longer than the lines ICache may wait for.
* `LSU.cpp:1251`. Nothing issues while the replay buffer is full, and an instruction that
  completes leaves the buffer without scheduling an issue for those that wait: with
  `ReplayBufferSize = 1` two stores stop (`TraceCompletes`).
* `LSU.cpp:1081`. `abortYoungerLoads_` aborts from the oldest load of the same address on, which may
  be older than the store; and it readies loads without scheduling an issue.
* `LSU.cpp:1045`. The comment says that `readyDependentLoads_` is only called with speculative
  loads; it is only called without. It readies every load with its operands when a store starts
  its translation, whereas a load "is ready is when both address and older stores addresses are
  known" (`LSU.cpp:244`), and `allow_speculative_load_exec`, which lets loads go "before all older
  store addresses are known" (`LSU.hpp:55-57`), is off by default. `lsu` meets it; `MemoryOrder`
  excepts the loads that are let go so (`released`).
* `LSU.cpp:442`. The answer of the MMU takes an instruction out of the replay buffer and makes it ready while
  it may still be in the pipeline, so it is issued again behind itself and asks the cache
  twice. If a refill evicts its line between the two lookups, the second sets its state to a
  miss after the first has read the data, and the assertion that what completes has hit fails.
  `lsu` meets it; `AssertionsHold` excepts it (`spoiled`), and `AssertionsAreExact` proves that
  no other assertion of LSU can fail.
* `LSU.cpp:951`. Forwarding takes the bytes of stores younger than the load too.
* `LSU.cpp:710`. A load that has completed may pass the pipeline again and then sets its
  destination ready once more, possibly after the register has a new owner.
* `LSU.cpp:1420`. The flush of the issue queue clears the callbacks of integer and float
  registers, not of vector registers.
* `docs/design_document_template/LSU.adoc` says "Maintains program order for stores". In
  speculative mode retired stores are issued again as their replays come due, and may write
  in the other order (`TwoStores` in `lsu`). `MemoryOrder` says nothing of that order.
* `DCache.cpp:283`. The answer of L2 frees the miss register by the iterator in L2's copy of the
  request (`L2Cache.cpp:328`): a register that the request took after the copy stays, and is
  requested again (`lsu` meets it).
* `DCache.cpp:62`. A refill takes a line of the set even if its address is in the cache, so the second
  refill of a line can evict another.
* `DCache.cpp:222`. A miss register that is allocated after `mshrRequest_` ran in the same cycle, for a store
  that nothing follows, may never be requested. The store has already left LSU, so
  nothing waits for it.
* `docs/dcache.md` describes a DEALLOCATE stage that frees the miss register; the code frees it when
  the refill arrives (`DCache.cpp:284`).

## Not modelled

* The compositions of `Execute`, `LoadStore` and `MemorySystem` with `Backend` and `FrontEnd`,
  which use them by contract (plan, item 10).
* `LSU::handleCacheReadyReq_`: nothing in the topology sends on its port. The DEALLOCATE stage
  of DCache finds no miss register and does nothing. The L2 credits that DCache counts are never read.
* `is_l2_always_hit`-like shortcuts of the TLB and the caches, except the constant
  `L2AlwaysHit` (`FALSE` in the run).
* The matching of fusion groups, which only marks instructions.
* Scoreboards are part of Sparta; `Execute` and `LoadStore` model them from their use.
* Branch predictors, `Preloader`, the simulator's command line, the CPU factory, JSON and
  STF readers: table lookups, construction of the unit tree, or I/O.
* `deprecated/json.hpp` (a vendored JSON parser), the sources of the traces (`traces/`), and
  the STF and JSON files: not part of the core's logic.
* `Rename::sanityCheck_` (not called), the heartbeat dump, reports and statistics.
