-------------------------------- MODULE MMU --------------------------------
(***************************************************************************)
(* Loads and stores as LSU, MMU and DCache share them (LoadStoreInstInfo,  *)
(* MemoryAccessInfo), and the MMU (core/MMU.cpp): a TLB looked up without  *)
(* delay, and one miss at a time that is handled in the background.        *)
(*                                                                         *)
(* An instruction is named by its unique id, its position in the           *)
(* sequences pid, status and mem. The physical address is the virtual one: *)
(* getRAdr only sets a bit of it.                                          *)
(***************************************************************************)
EXTENDS Integers, Sequences, SequencesExt, FiniteSets, FiniteSetsExt

CONSTANTS PageSize, LineSize,   \* bytes
          TLBEntries, MMULatency

ASSUME MMUAssumption == /\ {PageSize, LineSize, TLBEntries, MMULatency} \subseteq Nat \ {0}
                        /\ PageSize % LineSize = 0

VARIABLES program,            \* the trace
          pid,                \* of each instruction, its position in the trace
          status,             \* Inst::Status of each instruction
          mem,                \* MemoryAccessInfo: [phy, cache, data]
          tlb_cache_,         \* pages with a valid entry
          mmu_pending_inst_,  \* instruction of the miss, 0 when not busy_
          uev_lookup_inst_,   \* cycles until the miss is handled: a set of at most one
          mmu_ready           \* handled miss on its way to LSU: a set of at most one

instVars == <<pid, status, mem>>
mmuVars  == <<tlb_cache_, mmu_pending_inst_, uev_lookup_inst_, mmu_ready>>

Inst(u)    == program[pid[u]]
isStore(u) == Inst(u).store
VAddr(u)   == Inst(u).vaddr
Bytes(u)   == VAddr(u)..VAddr(u) + Inst(u).size - 1
Page(u)    == VAddr(u) \div PageSize
Line(u)    == VAddr(u) \div LineSize

\* A new MemoryAccessInfo: no translation, no cache access, no data.
NoAccess == [phy |-> FALSE, cache |-> "NO_ACCESS", data |-> FALSE]

\* What a cache of n entries may hold once e has been loaded; the replacement policy
\* chooses the victim.
Reloaded(entries, e, n) ==
    IF e \in entries \/ Cardinality(entries) < n THEN {entries \cup {e}}
    ELSE {(entries \ {v}) \cup {e} : v \in entries}

-----------------------------------------------------------------------------
memLookup(u) == Page(u) \in tlb_cache_

\* A lookup of LSU, answered in the same cycle. While a miss is being handled another
\* one only gets its answer.
getInstsFromLSU(u) ==
    /\ mem' = [mem EXCEPT ![u].phy = memLookup(u)]
    /\ IF ~memLookup(u) /\ mmu_pending_inst_ = 0
       THEN mmu_pending_inst_' = u /\ uev_lookup_inst_' = {MMULatency}
       ELSE UNCHANGED <<mmu_pending_inst_, uev_lookup_inst_>>
    /\ UNCHANGED <<tlb_cache_, mmu_ready>>

\* Seeded fault: the MMU stays busy.
lookupInst_Busy ==
    /\ 0 \in uev_lookup_inst_
    /\ tlb_cache_' \in Reloaded(tlb_cache_, Page(mmu_pending_inst_), TLBEntries)
    /\ mmu_ready' = {mmu_pending_inst_}
    /\ uev_lookup_inst_' = {}
    /\ UNCHANGED mmu_pending_inst_

\* The miss has been handled.
lookupInst ==
    /\ 0 \in uev_lookup_inst_
    /\ tlb_cache_' \in Reloaded(tlb_cache_, Page(mmu_pending_inst_), TLBEntries)
    /\ mmu_ready' = {mmu_pending_inst_}
    /\ mmu_pending_inst_' = 0 /\ uev_lookup_inst_' = {}
=============================================================================
