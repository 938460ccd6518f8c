------------------------------- MODULE DCache -------------------------------
(***************************************************************************)
(* The L1 data cache (core/lsu/DCache.cpp, DCache.hpp): an arbiter between *)
(* refills and requests of LSU, a pipeline and a file of miss registers.   *)
(*                                                                         *)
(* The L2 cache works on a copy of a request, so a refill is an entry of   *)
(* its own with the instruction it was asked for. A refill frees the miss  *)
(* register its request had when it was copied, as it arrives; hence the   *)
(* last stage (DEALLOCATE) finds none and does nothing. A register taken   *)
(* after the copy stays, and is requested again. A register holds its      *)
(* request from the moment it is taken. Credits of the L2 cache are only   *)
(* counted.                                                                *)
(***************************************************************************)
EXTENDS MMU, Places

CONSTANTS DCacheLines, MSHREntries

ASSUME DCacheAssumption == {DCacheLines, MSHREntries} \subseteq Nat \ {0}

VARIABLES lsu_mem_access_info_,  \* request of LSU in this cycle, 0 when none
          l2_mem_access_info_,   \* refill of this cycle, 0 when none
          cache_pipeline_,       \* LOOKUP and DATA_READ: [uid, refill], uid 0 when empty
          mshr_file_,            \* instructions with a miss register, in order
          uev_mshr_request_,     \* cycles until mshrRequest_: a subset of 0..1
          l2cache_req,           \* request at the L2 cache (l2cache_busy_), 0 when none
          l2_copy,               \* that request, if the L2 cache's copy of it has a register
          l1_cache_              \* lines that are valid

dcacheVars == <<lsu_mem_access_info_, l2_mem_access_info_, cache_pipeline_, mshr_file_,
                uev_mshr_request_, l2cache_req, l2_copy, l1_cache_>>

Empty == [uid |-> 0, refill |-> FALSE]

receiveMemReqFromLSU(u) == lsu_mem_access_info_' = u

\* A refill wins; the request of LSU is then dropped, with no answer.
arbitrateL2LsuReq ==
    /\ {l2_mem_access_info_, lsu_mem_access_info_} # {0}
    /\ cache_pipeline_' = [cache_pipeline_ EXCEPT !.LOOKUP =
          IF l2_mem_access_info_ # 0 THEN [uid |-> l2_mem_access_info_, refill |-> TRUE]
          ELSE [uid |-> lsu_mem_access_info_, refill |-> FALSE]]
    /\ l2_mem_access_info_' = 0 /\ lsu_mem_access_info_' = 0
    /\ uev_mshr_request_' = uev_mshr_request_ \cup {1}
    /\ UNCHANGED <<mshr_file_, l2cache_req, l2_copy, l1_cache_>>

receiveRespFromL2Cache ==
    /\ l2cache_req # 0
    /\ l2_mem_access_info_' = l2cache_req
    /\ mshr_file_' = ElementsAt(mshr_file_,
                                {k \in DOMAIN mshr_file_ : mshr_file_[k] \notin l2_copy})
    /\ l2cache_req' = 0 /\ l2_copy' = {}
    /\ UNCHANGED <<lsu_mem_access_info_, cache_pipeline_, uev_mshr_request_, l1_cache_>>

\* The L2 cache copies the request as it takes it up: with the register that the request
\* has by then.
createReq ==
    /\ l2cache_req \in ToSet(mshr_file_) \ l2_copy
    /\ l2_copy' = {l2cache_req}
    /\ UNCHANGED <<lsu_mem_access_info_, l2_mem_access_info_, cache_pipeline_, mshr_file_,
                   uev_mshr_request_, l2cache_req, l1_cache_>>

dataLookup(u) == Line(u) \in l1_cache_

\* A lookup that misses takes a miss register if one is free. A store that has one
\* counts as a hit.
NeedsMSHR(u) == ~dataLookup(u) /\ u \notin ToSet(mshr_file_)

NoMSHR(u) == NeedsMSHR(u) /\ Len(mshr_file_) = MSHREntries

handleLookup(u) ==
    /\ mem' = [mem EXCEPT ![u].cache =
                 IF dataLookup(u) \/ (~NoMSHR(u) /\ isStore(u)) THEN "HIT" ELSE "MISS"]
    /\ mshr_file_' = IF NeedsMSHR(u) /\ ~NoMSHR(u) THEN Append(mshr_file_, u) ELSE mshr_file_
    /\ UNCHANGED <<lsu_mem_access_info_, l2_mem_access_info_, cache_pipeline_,
                   uev_mshr_request_, l2cache_req, l2_copy, l1_cache_>>

\* A refill takes a line of the set that its address selects, an invalid one if there is
\* one, even if the address is in the cache already. The sets are not modelled: the victim
\* is any line, or none if the cache is not full.
reloadCache(e) == {c \in {l1_cache_ \cup {e}} \cup {(l1_cache_ \ {v}) \cup {e} : v \in l1_cache_} :
                     Cardinality(c) <= DCacheLines}

handleDataReadRefill(u) ==
    /\ l1_cache_' \in reloadCache(Line(u))
    /\ UNCHANGED <<lsu_mem_access_info_, l2_mem_access_info_, cache_pipeline_, mshr_file_,
                   uev_mshr_request_, l2cache_req, l2_copy, mem>>

handleDataRead(u) ==
    /\ IF mem[u].cache = "HIT"
       THEN /\ mem' = [mem EXCEPT ![u].data = TRUE]
            /\ UNCHANGED <<l2cache_req, l2_copy, uev_mshr_request_>>
       ELSE /\ l2cache_req' = IF l2cache_req = 0 THEN u ELSE l2cache_req
            /\ l2_copy' = IF l2cache_req = 0 THEN {u} \cap ToSet(mshr_file_) ELSE l2_copy
            /\ uev_mshr_request_' = uev_mshr_request_ \cup (IF l2cache_req = 0 THEN {} ELSE {1})
            /\ UNCHANGED mem
    /\ UNCHANGED <<lsu_mem_access_info_, l2_mem_access_info_, cache_pipeline_, mshr_file_,
                   l1_cache_>>

mshrRequest ==
    /\ 0 \in uev_mshr_request_
    /\ uev_mshr_request_' = uev_mshr_request_ \ {0}
    /\ IF l2cache_req = 0 /\ mshr_file_ # << >>
       THEN l2cache_req' = Head(mshr_file_) /\ l2_copy' = {Head(mshr_file_)}
       ELSE UNCHANGED <<l2cache_req, l2_copy>>
    /\ UNCHANGED <<lsu_mem_access_info_, l2_mem_access_info_, cache_pipeline_, mshr_file_,
                   l1_cache_>>

\* The pipeline moves on.
AdvanceCachePipeline ==
    /\ cache_pipeline_' = [LOOKUP |-> Empty, DATA_READ |-> cache_pipeline_.LOOKUP]
    /\ UNCHANGED <<lsu_mem_access_info_, l2_mem_access_info_, mshr_file_, uev_mshr_request_,
                   l2cache_req, l2_copy, l1_cache_>>
=============================================================================
