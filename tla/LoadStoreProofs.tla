-------------------------- MODULE LoadStoreProofs --------------------------
(***************************************************************************)
(* LSU's queue is exact, memory sees nothing speculative, nobody is        *)
(* forgotten and no assertion of LSU fails but one, which a second pass of *)
(* the pipeline can break, for every trace, mode and size.                 *)
(*                                                                         *)
(* A subroutine of LSU takes a state of the unit to another one; Moves     *)
(* says that it holds nothing but what was held and the instructions given *)
(* to it.  A handler is then a unit step: what may become of statuses,     *)
(* memory accesses, queue and cache requests is the same for most of them. *)
(***************************************************************************)
EXTENDS LoadStore, SequenceFacts, FiniteSetTheorems, TLAPS

-----------------------------------------------------------------------------
(* Subroutines of LSU.                                                     *)

\* The fields of LSU's state.
LEMMA Fields ==
    DOMAIN IdleLSU = {"queue", "stores", "ready", "replay", "pipeline", "issue", "append",
                      "replays", "callbacks", "ok"}
  BY DEF IdleLSU

\* From s to t, LSU comes to work on nothing but members of X; its queue, its store buffer
\* and the callbacks stay.
Moves(s, t, X) ==
    /\ Shaped(t)
    /\ t.queue = s.queue /\ t.stores = s.stores /\ t.callbacks = s.callbacks
    /\ Working(t) \subseteq Working(s) \cup X

\* What it means to be worked on.
LEMMA WorkingIs ==
    ASSUME NEW s, Shaped(s), NEW u
    PROVE  u \in Working(s) <=> \/ u \in s.ready \/ u \in s.replay \/ u \in s.append
                                \/ (u # 0 /\ \E st \in Stages : s.pipeline[st] = u)
                                \/ \E e \in s.replays : e.uid = u
<1>1. u \in Range(s.pipeline) <=> \E st \in Stages : s.pipeline[st] = u
  BY DEF Range, Shaped
<1>2. u \in Working(s) <=> \/ u \in s.ready \/ u \in s.replay \/ u \in s.append
                           \/ u \in Range(s.pipeline) \ {0}
                           \/ u \in {e.uid : e \in s.replays}
  BY Zenon DEF Working
<1> QED BY <1>1, <1>2

\* Two moves are a move.
LEMMA MovesTwice ==
    ASSUME NEW s, NEW t, NEW r, NEW X, Moves(s, t, X), Moves(t, r, X)
    PROVE  Moves(s, r, X)
  BY DEF Moves

\* A move that is given less is one that is given more.
LEMMA MovesMore ==
    ASSUME NEW s, NEW t, NEW X, NEW Y, Moves(s, t, X), X \subseteq Y
    PROVE  Moves(s, t, Y)
  BY DEF Moves

\* Standing still is a move.
LEMMA MovesNot ==
    ASSUME NEW s, Shaped(s), NEW X
    PROVE  Moves(s, s, X)
  BY DEF Moves

\* The parts that make no instruction worked on.
LEMMA QuietParts ==
    ASSUME NEW s, Shaped(s), NEW X
    PROVE  /\ \A c : Moves(s, Asserted(s, c), X)
           /\ Moves(s, ScheduleIssue(s), X) /\ Moves(s, CancelIssue(s), X)
           /\ \A us : Moves(s, removeInstFromReplayQueue(s, us), X)
           /\ \A st \in Stages : Moves(s, invalidateStage(s, st), X)
<1> USE Fields
<1>1. ASSUME NEW c PROVE Moves(s, Asserted(s, c), X)
  <2> DEFINE t == Asserted(s, c)
  <2>1. /\ DOMAIN t = DOMAIN s /\ t.queue = s.queue /\ t.stores = s.stores
        /\ t.callbacks = s.callbacks /\ t.ready = s.ready /\ t.replay = s.replay
        /\ t.append = s.append /\ t.pipeline = s.pipeline /\ t.replays = s.replays
    BY DEF Asserted, Shaped
  <2> QED BY <2>1 DEF Moves, Shaped, Working
<1>2. \A x : Moves(s, [s EXCEPT !.issue = x], X)
  <2> TAKE x
  <2> DEFINE t == [s EXCEPT !.issue = x]
  <2>1. /\ DOMAIN t = DOMAIN s /\ t.queue = s.queue /\ t.stores = s.stores
        /\ t.callbacks = s.callbacks /\ t.ready = s.ready /\ t.replay = s.replay
        /\ t.append = s.append /\ t.pipeline = s.pipeline /\ t.replays = s.replays
    BY DEF Shaped
  <2> QED BY <2>1 DEF Moves, Shaped, Working
<1>3. Moves(s, s, X)
  BY MovesNot
<1>4. ScheduleIssue(s) = s \/ ScheduleIssue(s) = [s EXCEPT !.issue = s.issue \cup {0}]
  BY DEF ScheduleIssue
<1>5. CancelIssue(s) = s \/ CancelIssue(s) = [s EXCEPT !.issue = {}]
  BY DEF CancelIssue
<1>6. ASSUME NEW us PROVE Moves(s, removeInstFromReplayQueue(s, us), X)
  <2> DEFINE t == removeInstFromReplayQueue(s, us)
  <2>1. /\ DOMAIN t = DOMAIN s /\ t.queue = s.queue /\ t.stores = s.stores
        /\ t.callbacks = s.callbacks /\ t.ready = s.ready /\ t.replay = s.replay \ us
        /\ t.append = s.append /\ t.pipeline = s.pipeline /\ t.replays = s.replays
    BY DEF removeInstFromReplayQueue, Shaped
  <2> HIDE DEF t
  <2>2. Shaped(t)
    BY <2>1 DEF Shaped
  <2>3. Working(t) \subseteq Working(s)
    BY <2>1, <2>2, WorkingIs
  <2> QED BY <2>1, <2>2, <2>3 DEF Moves, t
<1>7. ASSUME NEW st \in Stages PROVE Moves(s, invalidateStage(s, st), X)
  <2> DEFINE t == invalidateStage(s, st)
  <2>1. /\ DOMAIN t = DOMAIN s /\ t.queue = s.queue /\ t.stores = s.stores
        /\ t.callbacks = s.callbacks /\ t.ready = s.ready /\ t.replay = s.replay
        /\ t.append = s.append /\ t.replays = s.replays
        /\ t.pipeline = [s.pipeline EXCEPT ![st] = 0]
    BY DEF invalidateStage, Shaped
  <2> HIDE DEF t
  <2>2. Shaped(t)
    BY <2>1 DEF Shaped
  <2>3. \A x \in Stages : t.pipeline[x] = s.pipeline[x] \/ t.pipeline[x] = 0
    BY <2>1 DEF Shaped
  <2>4. Working(t) \subseteq Working(s)
    <3> SUFFICES ASSUME NEW u \in Working(t) PROVE u \in Working(s)
      OBVIOUS
    <3>1. CASE u # 0 /\ \E x \in Stages : t.pipeline[x] = u
      BY <2>3, <3>1, WorkingIs
    <3>2. CASE ~(u # 0 /\ \E x \in Stages : t.pipeline[x] = u)
      <4>1. \/ u \in t.ready \/ u \in t.replay \/ u \in t.append
            \/ \E e \in t.replays : e.uid = u
        BY <2>2, <3>2, WorkingIs
      <4> QED BY <2>1, <4>1, WorkingIs
    <3> QED BY <3>1, <3>2
  <2> QED BY <2>1, <2>2, <2>4 DEF Moves, t
<1> QED BY <1>1, <1>2, <1>3, <1>4, <1>5, <1>6, <1>7

\* Instructions join the ready queue.
LEMMA AppendMoves ==
    ASSUME NEW s, Shaped(s), NEW us, NEW X, us \subseteq X
    PROVE  Moves(s, appendToReadyQueue(s, us), X)
<1> USE Fields
<1> DEFINE t == appendToReadyQueue(s, us)
<1>1. /\ DOMAIN t = DOMAIN s /\ t.queue = s.queue /\ t.stores = s.stores
      /\ t.callbacks = s.callbacks /\ t.ready = s.ready \cup us /\ t.replay = s.replay
      /\ t.append = s.append /\ t.pipeline = s.pipeline /\ t.replays = s.replays
  BY DEF appendToReadyQueue, Asserted, Shaped
<1> HIDE DEF t
<1>2. Shaped(t)
  BY <1>1 DEF Shaped
<1>3. Working(t) \subseteq Working(s) \cup X
  BY <1>1, <1>2, WorkingIs
<1> QED BY <1>1, <1>2, <1>3 DEF Moves, t

\* An instruction is to be replayed.
LEMMA ReplayMoves ==
    ASSUME NEW s, Shaped(s), NEW u, NEW X, u \in X
    PROVE  Moves(s, updateInstReplayReady(s, u), X)
<1> USE Fields
<1> DEFINE e == [uid |-> u, due |-> ReplayIssueDelay]
           t == [s EXCEPT !.replays = @ \cup {e}]
<1>1. /\ DOMAIN t = DOMAIN s /\ t.queue = s.queue /\ t.stores = s.stores
      /\ t.callbacks = s.callbacks /\ t.ready = s.ready /\ t.replay = s.replay
      /\ t.append = s.append /\ t.pipeline = s.pipeline /\ t.replays = s.replays \cup {e}
  BY DEF Shaped
<1>2. e.uid = u /\ DOMAIN e = {"uid", "due"}
  OBVIOUS
<1>3. updateInstReplayReady(s, u) = removeInstFromReplayQueue(t, {u})
  BY DEF updateInstReplayReady
<1> HIDE DEF t, e
<1>4. Shaped(t)
  BY <1>1, <1>2 DEF Shaped
<1>5. Working(t) \subseteq Working(s) \cup X
  <2> SUFFICES ASSUME NEW v \in Working(t) PROVE v \in Working(s) \cup X
    OBVIOUS
  <2>1. CASE \E d \in t.replays : d.uid = v
    BY <1>1, <1>2, <2>1, WorkingIs
  <2>2. CASE ~\E d \in t.replays : d.uid = v
    BY <1>1, <1>4, <2>2, WorkingIs
  <2> QED BY <2>1, <2>2
<1>6. Moves(s, t, X)
  BY <1>1, <1>4, <1>5 DEF Moves
<1>7. Moves(t, removeInstFromReplayQueue(t, {u}), X)
  BY <1>4, QuietParts
<1> QED BY <1>3, <1>6, <1>7, MovesTwice

\* A miss starts again.
LEMMA RetryMoves ==
    ASSUME NEW s, Shaped(s), NEW st \in Stages, NEW u, NEW X, u \in X
    PROVE  Moves(s, Retry(s, st, u), X)
<1> DEFINE t == Speculative(s, updateInstReplayReady(s, u))
           r == IF u \in t.ready THEN t ELSE ScheduleIssue(appendToReadyQueue(t, {u}))
<1>1. Moves(s, t, X)
  BY ReplayMoves, MovesNot DEF Speculative
<1>2. Shaped(t)
  BY <1>1 DEF Moves
<1> HIDE DEF t
<1>3. Moves(t, appendToReadyQueue(t, {u}), X) /\ Moves(t, t, X)
  BY <1>2, AppendMoves, MovesNot
<1>4. Moves(appendToReadyQueue(t, {u}), ScheduleIssue(appendToReadyQueue(t, {u})), X)
  BY <1>3, QuietParts DEF Moves
<1>5. Moves(t, ScheduleIssue(appendToReadyQueue(t, {u})), X)
  BY <1>3, <1>4, MovesTwice
<1>6. Moves(t, r, X)
  BY <1>3, <1>5
<1> HIDE DEF r
<1>7. Moves(r, invalidateStage(r, st), X)
  BY <1>6, QuietParts DEF Moves
<1>8. Moves(s, invalidateStage(r, st), X)
  BY <1>1, <1>6, <1>7, MovesTwice
<1> QED BY <1>8 DEF Retry, r, t

\* Loads behind a store become ready.
LEMMA DependentMoves ==
    ASSUME NEW s, Shaped(s), NEW X, DependentLoads \subseteq X
    PROVE  Moves(s, readyDependentLoads(s), X)
<1> DEFINE t == appendToReadyQueue(s, DependentLoads)
<1>1. Moves(s, t, X) /\ Moves(s, s, X)
  BY AppendMoves, MovesNot
<1>2. Moves(t, ScheduleIssue(t), X)
  BY <1>1, QuietParts DEF Moves
<1>3. Moves(s, ScheduleIssue(t), X)
  BY <1>1, <1>2, MovesTwice
<1> QED BY <1>1, <1>3 DEF readyDependentLoads

\* Loads start again behind a store that has its address.
LEMMA AbortMoves ==
    ASSUME NEW s, Shaped(s), NEW u, NEW X
    PROVE  Moves(s, abortYoungerLoads(s, u), X)
<1> USE Fields
<1> DEFINE us == AbortedLoads(s, u)
           a  == appendToReadyQueue(s, us)
           t  == [a EXCEPT !.pipeline = dropInstFromPipeline(@, us)]
<1>1. us \subseteq s.replay
  BY DEF AbortedLoads
<1>2. us \subseteq Working(s) \cup X
  BY <1>1, WorkingIs
<1>3. Moves(s, a, Working(s) \cup X)
  BY <1>2, AppendMoves
<1>4. Moves(s, a, X)
  BY <1>3 DEF Moves
<1> HIDE DEF us, a
<1>5. Shaped(a)
  BY <1>4 DEF Moves
<1>6. /\ DOMAIN t = DOMAIN a /\ t.queue = a.queue /\ t.stores = a.stores
      /\ t.callbacks = a.callbacks /\ t.ready = a.ready /\ t.replay = a.replay
      /\ t.append = a.append /\ t.replays = a.replays
      /\ t.pipeline = dropInstFromPipeline(a.pipeline, us)
  BY <1>5 DEF Shaped
<1>7. /\ DOMAIN t.pipeline = Stages
      /\ \A x \in Stages : t.pipeline[x] = a.pipeline[x] \/ t.pipeline[x] = 0
  BY <1>6 DEF dropInstFromPipeline
<1>8. abortYoungerLoads(s, u) = removeInstFromReplayQueue(t, us)
  BY DEF abortYoungerLoads, us, a
<1> HIDE DEF t
<1>9. Shaped(t)
  BY <1>5, <1>6, <1>7 DEF Shaped
<1>10. Working(t) \subseteq Working(a)
  <2> SUFFICES ASSUME NEW v \in Working(t) PROVE v \in Working(a)
    OBVIOUS
  <2>1. CASE v # 0 /\ \E x \in Stages : t.pipeline[x] = v
    BY <1>5, <1>7, <2>1, WorkingIs
  <2>2. CASE ~(v # 0 /\ \E x \in Stages : t.pipeline[x] = v)
    BY <1>5, <1>6, <1>9, <2>2, WorkingIs
  <2> QED BY <2>1, <2>2
<1>11. Moves(a, t, X)
  BY <1>6, <1>9, <1>10 DEF Moves
<1>12. Moves(t, removeInstFromReplayQueue(t, us), X)
  BY <1>9, QuietParts
<1> QED BY <1>4, <1>8, <1>11, <1>12, MovesTwice

\* An instruction is to join the ready queue; one that does so, or is there already.
LEMMA EventMoves ==
    ASSUME NEW s, Shaped(s), NEW X
    PROVE  /\ \A us : us \subseteq X => Moves(s, [s EXCEPT !.append = @ \cup us], X)
           /\ \A u \in X : Moves(s, appendReady(s, u), X)
           /\ \A e \in s.replays : e.uid \in X => Moves(s, replayReady(s, e), X)
<1> USE Fields
<1>1. ASSUME NEW us, us \subseteq X PROVE Moves(s, [s EXCEPT !.append = @ \cup us], X)
  <2> DEFINE t == [s EXCEPT !.append = @ \cup us]
  <2>1. /\ DOMAIN t = DOMAIN s /\ t.queue = s.queue /\ t.stores = s.stores
        /\ t.callbacks = s.callbacks /\ t.ready = s.ready /\ t.replay = s.replay
        /\ t.append = s.append \cup us /\ t.pipeline = s.pipeline /\ t.replays = s.replays
    BY DEF Shaped
  <2> HIDE DEF t
  <2>2. Shaped(t)
    BY <2>1 DEF Shaped
  <2>3. Working(t) \subseteq Working(s) \cup X
    BY <1>1, <2>1, <2>2, WorkingIs
  <2> QED BY <2>1, <2>2, <2>3 DEF Moves, t
<1>2. ASSUME NEW u \in X PROVE Moves(s, appendReady(s, u), X)
  <2> DEFINE t == [s EXCEPT !.append = @ \ {u}]
             r == IF u \in t.ready \cup t.replay THEN t ELSE appendToReadyQueue(t, {u})
  <2>1. /\ DOMAIN t = DOMAIN s /\ t.queue = s.queue /\ t.stores = s.stores
        /\ t.callbacks = s.callbacks /\ t.ready = s.ready /\ t.replay = s.replay
        /\ t.append = s.append \ {u} /\ t.pipeline = s.pipeline /\ t.replays = s.replays
    BY DEF Shaped
  <2> HIDE DEF t
  <2>2. Shaped(t)
    BY <2>1 DEF Shaped
  <2>3. Working(t) \subseteq Working(s) \cup X
    BY <2>1, <2>2, WorkingIs
  <2>4. Moves(s, t, X)
    BY <2>1, <2>2, <2>3 DEF Moves
  <2>5. Moves(t, r, X)
    BY <2>2, AppendMoves, MovesNot
  <2> HIDE DEF r
  <2>6. Moves(r, ScheduleIssue(r), X)
    BY <2>5, QuietParts DEF Moves
  <2>7. Moves(s, ScheduleIssue(r), X)
    BY <2>4, <2>5, <2>6, MovesTwice
  <2> QED BY <2>7 DEF appendReady, r, t
<1>3. ASSUME NEW e \in s.replays, e.uid \in X PROVE Moves(s, replayReady(s, e), X)
  <2> DEFINE t == [s EXCEPT !.replays = @ \ {e}, !.append = @ \cup {e.uid}]
  <2>1. /\ DOMAIN t = DOMAIN s /\ t.queue = s.queue /\ t.stores = s.stores
        /\ t.callbacks = s.callbacks /\ t.ready = s.ready /\ t.replay = s.replay
        /\ t.append = s.append \cup {e.uid} /\ t.pipeline = s.pipeline
        /\ t.replays = s.replays \ {e}
    BY DEF Shaped
  <2>2. replayReady(s, e) = ScheduleIssue(t)
    BY DEF replayReady
  <2> HIDE DEF t
  <2>3. Shaped(t)
    BY <2>1 DEF Shaped
  <2>4. Working(t) \subseteq Working(s) \cup X
    BY <1>3, <2>1, <2>3, WorkingIs
  <2>5. Moves(s, t, X)
    BY <2>1, <2>3, <2>4 DEF Moves
  <2>6. Moves(t, ScheduleIssue(t), X)
    BY <2>3, QuietParts
  <2> QED BY <2>2, <2>5, <2>6, MovesTwice
<1> QED BY <1>1, <1>2, <1>3

\* Answers of ROB, MMU and DCache.
LEMMA AnswerMoves ==
    ASSUME NEW s, Shaped(s), NEW u, NEW X
    PROVE  /\ u \in X => /\ Shaped(getAckFromROB(s, u))
                         /\ getAckFromROB(s, u).queue = s.queue
                         /\ getAckFromROB(s, u).stores = s.stores \ {u}
                         /\ getAckFromROB(s, u).callbacks = s.callbacks
                         /\ Working(getAckFromROB(s, u)) \subseteq Working(s) \cup X
           /\ {u} \cap s.queue \subseteq X => Moves(s, handleMMUReadyReq(s, u), X)
           /\ \A m : {u} \cap s.queue \subseteq X => Moves(s, getAckFromCache(s, u, m), X)
<1> USE Fields
<1>1. ASSUME u \in X
      PROVE  /\ Shaped(getAckFromROB(s, u))
             /\ getAckFromROB(s, u).queue = s.queue
             /\ getAckFromROB(s, u).stores = s.stores \ {u}
             /\ getAckFromROB(s, u).callbacks = s.callbacks
             /\ Working(getAckFromROB(s, u)) \subseteq Working(s) \cup X
  <2> DEFINE a == Asserted(s, s.stores # {} /\ u = Min(s.stores))
             t == [a EXCEPT !.stores = @ \ {u}]
             r == Asserted(t, u \in t.queue)
             x == [r EXCEPT !.append = @ \cup {u}]
  <2>1. Moves(s, a, X)
    BY QuietParts
  <2> HIDE DEF a
  <2>2. /\ DOMAIN t = DOMAIN a /\ t.queue = a.queue /\ t.stores = a.stores \ {u}
        /\ t.callbacks = a.callbacks /\ t.ready = a.ready /\ t.replay = a.replay
        /\ t.append = a.append /\ t.pipeline = a.pipeline /\ t.replays = a.replays
    BY <2>1 DEF Moves, Shaped
  <2> HIDE DEF t
  <2>3. Shaped(t) /\ Working(t) = Working(a)
    BY <2>1, <2>2 DEF Moves, Shaped, Working
  <2>4. Moves(t, r, X)
    BY <2>3, QuietParts
  <2> HIDE DEF r
  <2>5. Moves(r, x, X)
    <3>1. Shaped(r) /\ {u} \subseteq X
      BY <1>1, <2>4 DEF Moves
    <3> QED BY <3>1, EventMoves
  <2> HIDE DEF x
  <2>6. Moves(x, ScheduleIssue(x), X)
    BY <2>5, QuietParts DEF Moves
  <2>7. Moves(t, ScheduleIssue(x), X)
    BY <2>4, <2>5, <2>6, MovesTwice
  <2>8. getAckFromROB(s, u) = ScheduleIssue(x)
    BY DEF getAckFromROB, updateIssuePriorityAfterStoreInstRetire, x, r, t, a
  <2> QED BY <2>1, <2>2, <2>3, <2>7, <2>8 DEF Moves
<1>2. ASSUME {u} \cap s.queue \subseteq X PROVE Moves(s, handleMMUReadyReq(s, u), X)
  <2> DEFINE a == Asserted(s, status[u] = "FLUSHED" \/ u \in s.queue)
             t == [a EXCEPT !.append = @ \cup ({u} \cap s.queue)]
             r == IF status[u] = "FLUSHED" THEN t ELSE removeInstFromReplayQueue(t, {u})
  <2>1. Moves(s, a, X)
    BY QuietParts
  <2>2. Shaped(a)
    BY <2>1 DEF Moves
  <2> HIDE DEF a
  <2>3. Moves(a, t, X)
    BY <1>2, <2>2, EventMoves
  <2>4. Shaped(t)
    BY <2>3 DEF Moves
  <2> HIDE DEF t
  <2>5. Moves(t, r, X)
    BY <2>4, QuietParts, MovesNot
  <2> HIDE DEF r
  <2>6. Moves(r, ScheduleIssue(r), X)
    BY <2>5, QuietParts DEF Moves
  <2>7. Moves(s, ScheduleIssue(r), X)
    BY <2>1, <2>3, <2>5, <2>6, MovesTwice
  <2>8. handleMMUReadyReq(s, u) = ScheduleIssue(r)
    BY DEF handleMMUReadyReq, updateIssuePriorityAfterTLBReload, r, t, a
  <2> QED BY <2>7, <2>8
<1>3. ASSUME NEW m, {u} \cap s.queue \subseteq X PROVE Moves(s, getAckFromCache(s, u, m), X)
  <2>1. CASE u \in s.queue
    <3>1. {u} \subseteq X
      BY <1>3, <2>1
    <3>2. Moves(s, [s EXCEPT !.append = @ \cup {u}], X)
      BY <3>1, EventMoves
    <3> QED BY <3>2, MovesNot DEF getAckFromCache
  <2>2. CASE u \notin s.queue
    BY <2>2, MovesNot DEF getAckFromCache
  <2> QED BY <2>1, <2>2
<1> QED BY <1>1, <1>2, <1>3

\* The pipeline moves on, the cycle ends.
LEMMA ClockMoves ==
    ASSUME NEW s, Shaped(s)
    PROVE  Moves(s, AdvancePipeline(s), {}) /\ Moves(s, AgedLSU(s), {})
<1> USE Fields
<1>1. Moves(s, AdvancePipeline(s), {})
  <2> DEFINE t == AdvancePipeline(s)
  <2>1. /\ DOMAIN t = DOMAIN s /\ t.queue = s.queue /\ t.stores = s.stores
        /\ t.callbacks = s.callbacks /\ t.ready = s.ready /\ t.replay = s.replay
        /\ t.append = s.append /\ t.replays = s.replays
        /\ t.pipeline = [st \in Stages |-> IF st = ADDRESS THEN 0 ELSE s.pipeline[st - 1]]
    BY DEF AdvancePipeline, Shaped
  <2> HIDE DEF t
  <2>2. Shaped(t)
    BY <2>1 DEF Shaped
  <2>3. \A x \in Stages : t.pipeline[x] = 0 \/ \E y \in Stages : t.pipeline[x] = s.pipeline[y]
    BY <2>1 DEF Stages, ADDRESS, COMPLETE
  <2>4. Working(t) \subseteq Working(s)
    <3> SUFFICES ASSUME NEW u \in Working(t) PROVE u \in Working(s)
      OBVIOUS
    <3>1. CASE u # 0 /\ \E x \in Stages : t.pipeline[x] = u
      BY <2>3, <3>1, WorkingIs
    <3>2. CASE ~(u # 0 /\ \E x \in Stages : t.pipeline[x] = u)
      <4>1. \/ u \in t.ready \/ u \in t.replay \/ u \in t.append
            \/ \E e \in t.replays : e.uid = u
        BY <2>2, <3>2, WorkingIs
      <4> QED BY <2>1, <4>1, WorkingIs
    <3> QED BY <3>1, <3>2
  <2> QED BY <2>1, <2>2, <2>4 DEF Moves, t
<1>2. Moves(s, AgedLSU(s), {})
  <2> DEFINE t == AgedLSU(s)
  <2>1. /\ DOMAIN t = DOMAIN s /\ t.queue = s.queue /\ t.stores = s.stores
        /\ t.callbacks = s.callbacks /\ t.ready = s.ready /\ t.replay = s.replay
        /\ t.append = s.append /\ t.pipeline = s.pipeline
        /\ t.replays = {[e EXCEPT !.due = @ - 1] : e \in s.replays}
    BY DEF AgedLSU, Shaped
  <2> HIDE DEF t
  <2>2. \A e \in s.replays : LET d == [e EXCEPT !.due = @ - 1]
                             IN  DOMAIN d = {"uid", "due"} /\ d.uid = e.uid
    BY DEF Shaped
  <2>3. \A d \in t.replays : DOMAIN d = {"uid", "due"} /\ \E e \in s.replays : d.uid = e.uid
    BY <2>1, <2>2
  <2>4. Shaped(t)
    BY <2>1, <2>3 DEF Shaped
  <2>5. Working(t) \subseteq Working(s)
    <3> SUFFICES ASSUME NEW u \in Working(t) PROVE u \in Working(s)
      OBVIOUS
    <3>1. CASE \E d \in t.replays : d.uid = u
      BY <2>3, <3>1, WorkingIs
    <3>2. CASE ~\E d \in t.replays : d.uid = u
      <4>1. \/ u \in t.ready \/ u \in t.replay \/ u \in t.append
            \/ (u # 0 /\ \E x \in Stages : t.pipeline[x] = u)
        BY <2>4, <3>2, WorkingIs
      <4> QED BY <2>1, <4>1, WorkingIs
    <3> QED BY <3>1, <3>2
  <2> QED BY <2>1, <2>4, <2>5 DEF Moves, t
<1> QED BY <1>1, <1>2

\* An instruction of the ready queue issues.
LEMMA IssueMoves ==
    ASSUME Shaped(lsu), \A u \in lsu.ready : u \in Nat, issueInst
    PROVE  Moves(lsu, lsu', {})
<1> USE Fields
<1>1. CASE lsu.ready = {}
  <2>1. lsu' = Asserted(lsu, FALSE)
    BY <1>1 DEF issueInst
  <2> QED BY <2>1, QuietParts
<1>2. CASE lsu.ready # {}
  <2> DEFINE u == Min(lsu.ready)
             t == [lsu EXCEPT !.issue = @ \ {0}, !.ready = @ \ {u}, !.pipeline[ADDRESS] = u]
             a == Asserted(t, ~ReplayFull(t) /\ u \notin t.replay)
             r == [a EXCEPT !.replay = @ \cup {u}]
             s == Speculative(t, r)
             x == [s EXCEPT !.issue = @ \cup {1}]
  <2>1. u \in lsu.ready
    <3>1. lsu.ready \in SUBSET Nat
      OBVIOUS
    <3>2. \E m \in lsu.ready : \A k \in lsu.ready : m <= k
      BY <1>2, <3>1, LeastNumber, SMTT(30)
    <3> QED BY <3>2 DEF Min
  <2>2. lsu' = s \/ lsu' = x
    BY <1>2 DEF issueInst
  <2> HIDE DEF u
  <2>3. /\ DOMAIN t = DOMAIN lsu /\ t.queue = lsu.queue /\ t.stores = lsu.stores
        /\ t.callbacks = lsu.callbacks /\ t.ready = lsu.ready \ {u} /\ t.replay = lsu.replay
        /\ t.append = lsu.append /\ t.replays = lsu.replays
        /\ t.pipeline = [lsu.pipeline EXCEPT ![ADDRESS] = u]
    BY DEF Shaped
  <2> HIDE DEF t
  <2>4. Shaped(t)
    BY <2>3 DEF Shaped
  <2>5. \A y \in Stages : t.pipeline[y] = lsu.pipeline[y] \/ t.pipeline[y] = u
    BY <2>3 DEF Shaped
  <2>6. Working(t) \subseteq Working(lsu)
    <3> SUFFICES ASSUME NEW v \in Working(t) PROVE v \in Working(lsu)
      OBVIOUS
    <3>1. CASE v # 0 /\ \E y \in Stages : t.pipeline[y] = v
      BY <2>1, <2>5, <3>1, WorkingIs
    <3>2. CASE ~(v # 0 /\ \E y \in Stages : t.pipeline[y] = v)
      <4>1. \/ v \in t.ready \/ v \in t.replay \/ v \in t.append
            \/ \E e \in t.replays : e.uid = v
        BY <2>4, <3>2, WorkingIs
      <4> QED BY <2>3, <4>1, WorkingIs
    <3> QED BY <3>1, <3>2
  <2>7. Moves(t, a, {})
    BY <2>4, QuietParts
  <2> HIDE DEF a
  <2>8. /\ DOMAIN r = DOMAIN a /\ r.queue = a.queue /\ r.stores = a.stores
        /\ r.callbacks = a.callbacks /\ r.ready = a.ready /\ r.replay = a.replay \cup {u}
        /\ r.append = a.append /\ r.replays = a.replays /\ r.pipeline = a.pipeline
    BY <2>7 DEF Moves, Shaped
  <2> HIDE DEF r
  <2>9. Shaped(r) /\ Shaped(a)
    BY <2>7, <2>8 DEF Moves, Shaped
  <2>10. Working(r) \subseteq Working(a) \cup {u}
    BY <2>8, <2>9, WorkingIs
  <2>11. u \in Working(lsu)
    BY <2>1, WorkingIs
  <2>12. Moves(lsu, t, {}) /\ Moves(lsu, r, {})
    BY <2>3, <2>4, <2>6, <2>7, <2>8, <2>9, <2>10, <2>11 DEF Moves
  <2>13. Moves(lsu, s, {})
    BY <2>12 DEF Speculative
  <2> HIDE DEF s
  <2>14. /\ DOMAIN x = DOMAIN s /\ x.queue = s.queue /\ x.stores = s.stores
         /\ x.callbacks = s.callbacks /\ x.ready = s.ready /\ x.replay = s.replay
         /\ x.append = s.append /\ x.replays = s.replays /\ x.pipeline = s.pipeline
    BY <2>13 DEF Moves, Shaped
  <2> HIDE DEF x
  <2>15. Moves(lsu, x, {})
    BY <2>13, <2>14 DEF Moves, Shaped, Working
  <2> QED BY <2>2, <2>13, <2>15
<1> QED BY <1>1, <1>2

\* A flush.
LEMMA FlushDoes ==
    ASSUME NEW s, Shaped(s), NEW us
    PROVE  /\ Shaped(handleFlush(s, us))
           /\ handleFlush(s, us).queue = s.queue \ us /\ handleFlush(s, us).stores = s.stores \ us
           /\ handleFlush(s, us).callbacks = {c \in s.callbacks : c.uid \notin us \cap s.queue}
           /\ Working(handleFlush(s, us)) \subseteq Working(s) \ us
<1> USE Fields
<1> DEFINE f == flushQueues(s, us)
           t == [f EXCEPT !.append = @ \ us, !.replays = {e \in @ : e.uid \notin us}]
<1>1. /\ DOMAIN f = DOMAIN s /\ f.queue = s.queue \ us /\ f.stores = s.stores \ us
      /\ f.callbacks = {c \in s.callbacks : c.uid \notin us \cap s.queue}
      /\ f.ready = s.ready \ us /\ f.replay = s.replay \ us
      /\ f.append = s.append /\ f.replays = s.replays
      /\ f.pipeline = [st \in Stages |-> IF s.pipeline[st] \in us THEN 0 ELSE s.pipeline[st]]
  BY DEF flushQueues, Shaped
<1> HIDE DEF f
<1>2. /\ DOMAIN t = DOMAIN s /\ t.queue = s.queue \ us /\ t.stores = s.stores \ us
      /\ t.callbacks = f.callbacks
      /\ t.ready = s.ready \ us /\ t.replay = s.replay \ us
      /\ t.append = s.append \ us /\ t.replays = {e \in s.replays : e.uid \notin us}
      /\ t.pipeline = f.pipeline
  BY <1>1 DEF Shaped
<1>3. handleFlush(s, us) = CancelIssue(t)
  BY DEF handleFlush, f
<1> HIDE DEF t
<1>4. Shaped(t)
  BY <1>1, <1>2 DEF Shaped
<1>5. \A x \in Stages : t.pipeline[x] = 0 \/ (t.pipeline[x] = s.pipeline[x] /\ s.pipeline[x] \notin us)
  BY <1>1, <1>2
<1>6. Working(t) \subseteq Working(s) \ us
  <2> SUFFICES ASSUME NEW u \in Working(t) PROVE u \in Working(s) \ us
    OBVIOUS
  <2>1. CASE u # 0 /\ \E x \in Stages : t.pipeline[x] = u
    BY <1>5, <2>1, WorkingIs
  <2>2. CASE ~(u # 0 /\ \E x \in Stages : t.pipeline[x] = u)
    <3>1. \/ u \in t.ready \/ u \in t.replay \/ u \in t.append
          \/ \E e \in t.replays : e.uid = u
      BY <1>4, <2>2, WorkingIs
    <3> QED BY <1>2, <3>1, WorkingIs
  <2> QED BY <2>1, <2>2
<1>7. Moves(t, CancelIssue(t), {})
  BY <1>4, QuietParts
<1> QED BY <1>1, <1>2, <1>3, <1>6, <1>7 DEF Moves

\* The operand check: those that have their operands become ready, for the others there
\* are callbacks.
LEMMA OperandCheckDoes ==
    ASSUME NEW s, Shaped(s), NEW us, NEW rdy,
           NEW t, t = handleOperandIssueCheck(s, us, rdy)
    PROVE  /\ Shaped(t) /\ t.queue = s.queue /\ t.stores = s.stores
           /\ Working(t) \subseteq Working(s) \cup Schedulable(us, rdy)
           /\ \A c \in t.callbacks :
                 \/ c \in s.callbacks
                 \/ /\ c.uid \in us /\ status[c.uid] # "SCHEDULED"
                    /\ c.reg \in Awaits(c.uid, rdy)
<1> USE Fields
<1> DEFINE waits == {[uid |-> u, reg |-> r] : u \in {v \in us : status[v] # "SCHEDULED"},
                                              r \in UNION {Awaits(v, rdy) : v \in us}}
           now == Schedulable(us, rdy)
           new == {c \in waits : c.reg \in Awaits(c.uid, rdy)}
           a == Asserted(s, now \subseteq s.queue)
           b == [a EXCEPT !.callbacks = @ \cup new]
<1>1. \A c \in new : /\ c.uid \in us /\ status[c.uid] # "SCHEDULED"
                     /\ c.reg \in Awaits(c.uid, rdy)
  OBVIOUS
<1>2. t = IF now = {} THEN b ELSE ScheduleIssue(appendToReadyQueue(b, now))
  BY DEF handleOperandIssueCheck
<1> HIDE DEF waits, now, new
<1>3. Moves(s, a, {})
  BY QuietParts
<1> HIDE DEF a
<1>4. /\ DOMAIN b = DOMAIN a /\ b.queue = a.queue /\ b.stores = a.stores
      /\ b.callbacks = a.callbacks \cup new /\ b.ready = a.ready /\ b.replay = a.replay
      /\ b.append = a.append /\ b.replays = a.replays /\ b.pipeline = a.pipeline
  BY <1>3 DEF Moves, Shaped
<1> HIDE DEF b
<1>5. Shaped(b) /\ Working(b) = Working(a)
  BY <1>3, <1>4 DEF Moves, Shaped, Working
<1>6. Moves(b, b, now) /\ Moves(b, appendToReadyQueue(b, now), now)
  BY <1>5, AppendMoves, MovesNot
<1>7. Moves(appendToReadyQueue(b, now), ScheduleIssue(appendToReadyQueue(b, now)), now)
  BY <1>6, QuietParts DEF Moves
<1>8. Moves(b, t, now)
  BY <1>2, <1>6, <1>7, MovesTwice
<1> QED BY <1>1, <1>3, <1>4, <1>5, <1>8 DEF Moves, now

-----------------------------------------------------------------------------
(* Steps of the unit.                                                      *)

\* Instructions are scheduled, once they wait for nothing, and complete.
StatusStep ==
    /\ status' \in Seq(InstStatus) /\ Len(status') = Len(status)
    /\ \A u \in Insts : \/ status'[u] = status[u]
                        \/ status[u] = "SCHEDULED" /\ status'[u] = "COMPLETED"
                        \/ /\ status[u] = "DISPATCHED" /\ status'[u] = "SCHEDULED"
                           /\ u \in lsu.queue /\ \A c \in lsu.callbacks : c.uid # u

\* Accesses of scheduled instructions go on; a translation is not forgotten.
MemStep ==
    /\ mem' \in Seq(AccessType) /\ Len(mem') = Len(mem)
    /\ \A u \in Insts : /\ status[u] = "DISPATCHED" => mem'[u] = mem[u]
                        /\ mem[u].phy => mem'[u].phy

\* Only loads with translated stores before them come to the cache.
SpeculationStep ==
    allow_speculative_load_exec_ =>
        \A u \in lsu.queue :
            ~isStore(u) /\ (mem'[u].data \/ mem'[u].cache # "NO_ACCESS" \/ u \in InCache')
                => allOlderStoresIssued(u)

\* MMU and DCache get only scheduled instructions, and stores that have retired.
OutsideStep ==
    /\ DOMAIN cache_pipeline_' = {"LOOKUP", "DATA_READ"}
    /\ \A u \in (InCache' \cup mmu_ready' \cup {mmu_pending_inst_'}) \ {0} :
          u \in Insts /\ status[u] # "DISPATCHED"
    /\ \A u \in InCache' \ {0} : isStore(u) => status[u] = "RETIRED"

\* LSU comes to work on X, scheduled instructions, and those of Q leave the queue.
LSUStep(X, Q) ==
    /\ Shaped(lsu') /\ lsu'.queue = lsu.queue \ Q /\ lsu'.stores \subseteq lsu.stores
    /\ lsu'.callbacks = lsu.callbacks /\ Working(lsu') \subseteq Working(lsu) \cup X
    /\ \A u \in X : u \in Insts /\ status'[u] \notin {"DISPATCHED", "FLUSHED"}
    /\ Q \subseteq lsu.queue /\ \A u \in Q : status'[u] \in {"COMPLETED", "RETIRED"}
    /\ credits' = credits + Cardinality(Q)

\* Instructions are numbered from 1.
LEMMA InstFacts ==
    ASSUME MessageInv
    PROVE  /\ Len(pid) \in Nat /\ Insts = 1..Len(pid) /\ DOMAIN status = Insts /\ DOMAIN mem = Insts
           /\ Insts \subseteq Nat /\ 0 \notin Insts
           /\ \A u \in Insts : status[u] \in InstStatus /\ mem[u] \in AccessType /\ pid[u] \in DOMAIN program
           /\ status = [u \in Insts |-> status[u]]
<1>1. /\ pid \in Seq(DOMAIN program) /\ status \in Seq(InstStatus) /\ mem \in Seq(AccessType)
      /\ Len(status) = Len(pid) /\ Len(mem) = Len(pid)
  BY DEF MessageInv
<1>2. Len(pid) \in Nat /\ DOMAIN pid = 1..Len(pid) /\ \A u \in 1..Len(pid) : pid[u] \in DOMAIN program
  BY <1>1, SeqFacts
<1>3. /\ DOMAIN status = 1..Len(pid) /\ DOMAIN mem = 1..Len(pid)
      /\ \A u \in 1..Len(pid) : status[u] \in InstStatus
      /\ \A u \in 1..Len(pid) : mem[u] \in AccessType
  BY <1>1, SeqFacts
<1>4. status = [u \in 1..Len(pid) |-> status[u]]
  BY <1>1, <1>3
<1> QED BY <1>2, <1>3, <1>4 DEF Insts

\* The queue is finite.
LEMMA QueueFinite ==
    ASSUME MessageInv, NEW S, S \subseteq Insts
    PROVE  IsFiniteSet(S) /\ Cardinality(S) \in Nat
<1>0. Len(pid) \in Nat /\ Insts = 1..Len(pid)
  BY InstFacts
<1>1. IsFiniteSet(Insts)
  BY <1>0, FS_Interval
<1> QED BY <1>1, FS_Subset, FS_CardinalityType

\* A unit step keeps the invariant, given that the messages are in order.
LEMMA UnitStep ==
    ASSUME IInv, MessageInv', NEW X, NEW Q, LSUStep(X, Q), StatusStep, MemStep, SpeculationStep,
           OutsideStep, UNCHANGED <<program, params, pid, ready, to_lsu, flushed_by>>
    PROVE  IInv'
<1>0. /\ MessageInv /\ HeldInv /\ CreditsConserved /\ RetiredInv /\ StoresWriteRetired
      /\ SpeculationInv
  BY DEF IInv
<1>1. /\ Insts' = Insts /\ Len(pid) \in Nat /\ Insts = 1..Len(pid)
      /\ \A u : isStore(u)' = isStore(u) /\ Inst(u)' = Inst(u)
  BY <1>0, InstFacts DEF Insts, isStore, Inst
<1>2. \A u \in Insts : /\ status'[u] = "DISPATCHED" => status[u] = "DISPATCHED"
                       /\ status'[u] = "FLUSHED" => status[u] = "FLUSHED"
                       /\ status'[u] = "RETIRED" <=> status[u] = "RETIRED"
  BY DEF StatusStep
<1>3. HeldInv'
  <2>1. (Shaped(lsu) /\ DOMAIN cache_pipeline_ = {"LOOKUP", "DATA_READ"})'
    BY DEF LSUStep, OutsideStep
  <2>2. \A u \in (lsu.queue \cup lsu.stores)' : (u \in Insts /\ status[u] # "FLUSHED")'
    BY <1>0, <1>1, <1>2 DEF LSUStep, HeldInv
  <2>3. \A u \in Working(lsu)' : (u \in Insts /\ status[u] \notin {"DISPATCHED", "FLUSHED"})'
    <3> SUFFICES ASSUME NEW u \in Working(lsu')
                 PROVE  u \in Insts /\ status'[u] \notin {"DISPATCHED", "FLUSHED"}
      BY <1>1
    <3>1. CASE u \in X
      BY <3>1 DEF LSUStep
    <3>2. CASE u \in Working(lsu)
      BY <1>0, <1>2, <3>2 DEF HeldInv
    <3> QED BY <3>1, <3>2 DEF LSUStep
  <2>4. \A u \in ((InCache \cup mmu_ready \cup {mmu_pending_inst_}) \ {0})' :
            (u \in Insts /\ status[u] # "DISPATCHED")'
    BY <1>1, <1>2 DEF OutsideStep
  <2>5. \A u \in Insts' : (status[u] = "SCHEDULED" => u \in lsu.queue)'
    <3> SUFFICES ASSUME NEW u \in Insts, status'[u] = "SCHEDULED" PROVE u \in lsu'.queue
      BY <1>1
    <3>1. u \in lsu.queue
      BY <1>0 DEF StatusStep, HeldInv
    <3>2. u \notin Q
      BY DEF LSUStep
    <3> QED BY <3>1, <3>2 DEF LSUStep
  <2>6. \A c \in lsu.callbacks' :
          (/\ c.uid \in lsu.queue /\ status[c.uid] = "DISPATCHED" /\ c.reg \notin ready
           /\ ~isStore(c.uid) => c.reg = Inst(c.uid).src
           /\ \A d \in lsu.callbacks : d.uid = c.uid => d.reg = c.reg)'
    <3> SUFFICES ASSUME NEW c \in lsu.callbacks
                 PROVE  /\ c.uid \in lsu'.queue /\ status'[c.uid] = "DISPATCHED" /\ c.reg \notin ready
                        /\ ~isStore(c.uid) => c.reg = Inst(c.uid).src
                        /\ \A d \in lsu.callbacks : d.uid = c.uid => d.reg = c.reg
      BY <1>1 DEF LSUStep
    <3>1. /\ c.uid \in lsu.queue /\ status[c.uid] = "DISPATCHED" /\ c.reg \notin ready
          /\ ~isStore(c.uid) => c.reg = Inst(c.uid).src
          /\ \A d \in lsu.callbacks : d.uid = c.uid => d.reg = c.reg
      BY <1>0 DEF HeldInv
    <3>2. c.uid \in Insts
      BY <1>0, <3>1 DEF HeldInv
    <3>3. status'[c.uid] = "DISPATCHED"
      BY <3>1, <3>2 DEF StatusStep
    <3>4. c.uid \notin Q
      BY <3>3 DEF LSUStep
    <3> QED BY <3>1, <3>3, <3>4 DEF LSUStep
  <2> QED BY <2>1, <2>2, <2>3, <2>4, <2>5, <2>6 DEF HeldInv
<1>4. CreditsConserved'
  <2>1. lsu.queue \subseteq Insts
    BY <1>0 DEF HeldInv
  <2>2. /\ IsFiniteSet(lsu.queue) /\ Cardinality(lsu.queue) \in Nat
    BY <1>0, <2>1, QueueFinite
  <2>3. /\ Q \subseteq lsu.queue /\ lsu'.queue = lsu.queue \ Q /\ credits' = credits + Cardinality(Q)
    BY DEF LSUStep
  <2>4. /\ IsFiniteSet(Q) /\ Cardinality(Q) \in Nat
    BY <1>0, <2>1, <2>3, QueueFinite
  <2>5. Cardinality(lsu.queue \ Q) = Cardinality(lsu.queue) - Cardinality(lsu.queue \cap Q)
    BY <2>2, FS_Difference
  <2>6. lsu.queue \cap Q = Q
    BY <2>3
  <2>7. credits \in Nat /\ Len(to_lsu) \in Nat
    BY <1>0, SeqFacts DEF MessageInv
  <2>8. Cardinality(lsu'.queue) = Cardinality(lsu.queue) - Cardinality(Q)
    BY <2>3, <2>5, <2>6
  <2>9. credits + Cardinality(lsu.queue) + Len(to_lsu) = QueueSize /\ Len(to_lsu') = Len(to_lsu)
    BY <1>0 DEF CreditsConserved
  <2>10. credits' + Cardinality(lsu'.queue) + Len(to_lsu') = QueueSize
    BY <2>2, <2>3, <2>4, <2>7, <2>8, <2>9
  <2> QED BY <2>10 DEF CreditsConserved
<1>5. RetiredInv'
  BY <1>0, <1>1, <1>2 DEF RetiredInv
<1>6. StoresWriteRetired'
  BY <1>1, <1>2 DEF OutsideStep, StoresWriteRetired
<1>7. SpeculationInv'
  <2>1. \A u \in Insts' : (status[u] = "DISPATCHED" => mem[u] = NoAccess)'
    <3> SUFFICES ASSUME NEW u \in Insts, status'[u] = "DISPATCHED" PROVE mem'[u] = NoAccess
      BY <1>1 DEF NoAccess
    <3>1. status[u] = "DISPATCHED"
      BY <1>2
    <3> QED BY <1>0, <3>1 DEF MemStep, SpeculationInv
  <2>2. \A u : allOlderStoresIssued(u) => allOlderStoresIssued(u)'
    <3> SUFFICES ASSUME NEW u, allOlderStoresIssued(u), NEW v \in lsu'.queue, isStore(v) /\ v < u
                 PROVE  mem'[v].phy
      BY <1>1 DEF allOlderStoresIssued
    <3>1. v \in lsu.queue /\ v \in Insts
      BY <1>0 DEF LSUStep, HeldInv
    <3>2. mem[v].phy
      BY <3>1 DEF allOlderStoresIssued
    <3> QED BY <3>1, <3>2 DEF MemStep
  <2>3. ASSUME allow_speculative_load_exec_', NEW u \in lsu'.queue,
               ~isStore(u)', (mem[u].data \/ mem[u].cache # "NO_ACCESS" \/ u \in InCache)'
        PROVE  allOlderStoresIssued(u)'
    <3>1. u \in lsu.queue
      BY DEF LSUStep
    <3>2. allow_speculative_load_exec_ /\ ~isStore(u)
      BY <1>1, <2>3 DEF params
    <3>3. allOlderStoresIssued(u)
      BY <2>3, <3>1, <3>2 DEF SpeculationStep
    <3> QED BY <2>2, <3>3
  <2> QED BY <2>1, <2>3 DEF SpeculationInv
<1> QED BY <1>3, <1>4, <1>5, <1>6, <1>7 DEF IInv

\* The messages stay in order when none comes or goes.
LEMMA SameMessages ==
    ASSUME IInv, NEW X, NEW Q, LSUStep(X, Q), StatusStep, MemStep,
           UNCHANGED <<phase, program, pid, to_lsu, acks, next_pid, flushed_by>>
    PROVE  MessageInv'
<1>0. MessageInv /\ HeldInv
  BY DEF IInv
<1>1. Insts' = Insts /\ DOMAIN program' = DOMAIN program
  BY DEF Insts
<1>2. credits' \in Nat
  <2>1. Q \subseteq Insts
    BY <1>0 DEF LSUStep, HeldInv
  <2>2. Cardinality(Q) \in Nat
    BY <1>0, <2>1, QueueFinite
  <2> QED BY <1>0, <2>2 DEF LSUStep, MessageInv
<1>3. /\ (phase \in {"port", "flush", "tick", "late"})'
      /\ (pid \in Seq(DOMAIN program))' /\ (status \in Seq(InstStatus))' /\ (mem \in Seq(AccessType))'
      /\ (Len(status) = Len(pid))' /\ (Len(mem) = Len(pid))'
  BY <1>0 DEF MessageInv, StatusStep, MemStep
<1>4. (next_pid \in Nat \ {0} /\ flushed_by \in Nat)'
  BY <1>0 DEF MessageInv
<1>5. (to_lsu \in Seq(Insts) /\ acks \in Seq(Insts))'
  BY <1>0, <1>1 DEF MessageInv
<1>6. (to_lsu # << >> => phase \in {"late", "port"})' /\ (acks # << >> => phase # "flush")'
  BY <1>0 DEF MessageInv
<1>7. \A k \in DOMAIN acks : acks[k] \in Insts /\ status[acks[k]] = "RETIRED"
  BY <1>0, SeqFacts DEF MessageInv
<1>8. \A k \in DOMAIN acks' : (status[acks[k]] = "RETIRED")'
  BY <1>7 DEF StatusStep
<1>9. \A k \in DOMAIN to_lsu : /\ to_lsu[k] \in Insts /\ status[to_lsu[k]] = "DISPATCHED"
                               /\ \A j \in 1..k - 1 : to_lsu[j] < to_lsu[k]
                               /\ \A v \in lsu.queue : v < to_lsu[k]
  <2>1. to_lsu \in Seq(Insts)
    BY <1>0 DEF MessageInv
  <2>2. \A k \in DOMAIN to_lsu : to_lsu[k] \in Insts
    BY <2>1, SeqFacts
  <2>3. \A k \in DOMAIN to_lsu : /\ status[to_lsu[k]] = "DISPATCHED"
                                 /\ \A j \in 1..k - 1 : to_lsu[j] < to_lsu[k]
                                 /\ \A v \in lsu.queue : v < to_lsu[k]
    BY <1>0 DEF MessageInv
  <2> QED BY <2>2, <2>3
<1>10. \A k \in DOMAIN to_lsu : status'[to_lsu[k]] = "DISPATCHED"
  <2> SUFFICES ASSUME NEW k \in DOMAIN to_lsu PROVE status'[to_lsu[k]] = "DISPATCHED"
    OBVIOUS
  <2>1. to_lsu[k] \notin lsu.queue
    BY <1>0, <1>9, InstFacts
  <2> QED BY <1>9, <2>1 DEF StatusStep
<1>11. \A k \in DOMAIN to_lsu' : (/\ status[to_lsu[k]] = "DISPATCHED"
                                  /\ \A j \in 1..k - 1 : to_lsu[j] < to_lsu[k]
                                  /\ \A v \in lsu.queue : v < to_lsu[k])'
  BY <1>9, <1>10 DEF LSUStep
<1> QED BY <1>2, <1>3, <1>4, <1>5, <1>6, <1>8, <1>11 DEF MessageInv

\* Nothing becomes of statuses and accesses.
LEMMA SameInsts ==
    ASSUME IInv
    PROVE  /\ UNCHANGED status => StatusStep
           /\ UNCHANGED mem => MemStep
<1>1. MessageInv
  BY DEF IInv
<1> QED BY <1>1 DEF MessageInv, StatusStep, MemStep

\* MMU and DCache get nothing new.
Fewer ==
    /\ DOMAIN cache_pipeline_' = {"LOOKUP", "DATA_READ"} /\ InCache' \subseteq InCache \cup {0}
    /\ mmu_ready' \cup {mmu_pending_inst_'} \subseteq mmu_ready \cup {mmu_pending_inst_, 0}

\* Then no scheduling and no retirement is in question.
LEMMA FewerOutside ==
    ASSUME IInv, Fewer
    PROVE  OutsideStep
<1>1. HeldInv /\ StoresWriteRetired
  BY DEF IInv
<1> QED BY <1>1 DEF HeldInv, StoresWriteRetired, OutsideStep, Fewer

\* Nor is speculation.
LEMMA FewerSpeculation ==
    ASSUME IInv, InCache' \subseteq InCache \cup {0},
           \A u \in lsu.queue : mem'[u].data = mem[u].data /\ mem'[u].cache = mem[u].cache
    PROVE  SpeculationStep
<1>1. HeldInv /\ SpeculationInv /\ MessageInv
  BY DEF IInv
<1>2. 0 \notin lsu.queue
  BY <1>1, InstFacts DEF HeldInv
<1> SUFFICES ASSUME allow_speculative_load_exec_, NEW u \in lsu.queue, ~isStore(u),
                    mem'[u].data \/ mem'[u].cache # "NO_ACCESS" \/ u \in InCache'
             PROVE  allOlderStoresIssued(u)
  BY DEF SpeculationStep
<1>3. mem[u].data \/ mem[u].cache # "NO_ACCESS" \/ u \in InCache
  BY <1>2
<1> QED BY <1>1, <1>3 DEF SpeculationInv

\* MMU and DCache do nothing.
LEMMA NothingOutside ==
    ASSUME IInv, UNCHANGED <<lsu_mem_access_info_, cache_pipeline_, mmu_ready, mmu_pending_inst_>>
    PROVE  Fewer
  BY DEF IInv, HeldInv, Fewer, InCache

\* A step of LSU that changes no instruction.
LEMMA QuietStep ==
    ASSUME IInv, NEW X, Moves(lsu, lsu', X), Fewer,
           \A u \in X : u \in Insts /\ status[u] \notin {"DISPATCHED", "FLUSHED"},
           UNCHANGED <<program, params, instVars, ready, to_lsu, next_pid, flushed_by, credits>>
    PROVE  /\ LSUStep(X, {})
           /\ UNCHANGED <<phase, acks>> => IInv'
           /\ MessageInv' => IInv'
<1>1. StatusStep /\ MemStep
  BY SameInsts DEF instVars
<1>2. OutsideStep
  BY FewerOutside
<1>3. SpeculationStep
  BY FewerSpeculation DEF instVars, Fewer
<1>4. credits' = credits + Cardinality({})
  BY FS_EmptySet DEF IInv, MessageInv
<1>5. LSUStep(X, {})
  BY <1>4 DEF LSUStep, Moves, instVars
<1>6. UNCHANGED <<phase, acks>> => MessageInv'
  BY <1>1, <1>5, SameMessages DEF instVars
<1>7. MessageInv' => IInv'
  BY <1>1, <1>2, <1>3, <1>5, UnitStep DEF instVars
<1> QED BY <1>5, <1>6, <1>7

\* What LSU works on may go on.
LEMMA WorkingMay ==
    ASSUME IInv
    PROVE  \A u \in Working(lsu) : u \in Insts /\ status[u] \notin {"DISPATCHED", "FLUSHED"}
  BY DEF IInv, HeldInv

\* What is at a stage is worked on.
LEMMA StageFacts ==
    ASSUME IInv, NEW st \in Stages, NEW u, AtStage(st, u)
    PROVE  /\ u \in Working(lsu) /\ u \in Insts /\ status[u] \notin {"DISPATCHED", "FLUSHED"}
           /\ UNCHANGED <<phase, program, params, ready, next_pid, flushed_by, to_lsu, acks>>
<1>1. Shaped(lsu)
  BY DEF IInv, HeldInv
<1>2. u # 0 /\ lsu.pipeline[st] = u
  BY DEF AtStage
<1>3. u \in Working(lsu)
  BY <1>1, <1>2, WorkingIs
<1> QED BY <1>3, WorkingMay DEF AtStage

-----------------------------------------------------------------------------
(* Actions that change no instruction.                                     *)

\* An address is calculated.
LEMMA CalculatesAddressPreserves ==
    ASSUME IInv, CalculatesAddress
    PROVE  IInv'
<1>1. PICK u \in Insts : /\ AtStage(ADDRESS, u) /\ handleAddressCalculation(u)
                         /\ UNCHANGED <<credits, writes>>
  BY DEF CalculatesAddress
<1>2. ADDRESS \in Stages
  BY DEF ADDRESS, Stages, COMPLETE
<1>3. UNCHANGED <<phase, program, params, ready, next_pid, flushed_by, to_lsu, acks>>
  BY <1>1, <1>2, StageFacts
<1>4. Moves(lsu, lsu', {})
  BY <1>1, QuietParts DEF handleAddressCalculation, IInv, HeldInv
<1>5. Fewer
  BY <1>1, NothingOutside DEF handleAddressCalculation, mmuVars, dcacheVars
<1> QED BY <1>1, <1>3, <1>4, <1>5, QuietStep DEF handleAddressCalculation

\* An instruction joins the ready queue.
LEMMA AppendsReadyPreserves ==
    ASSUME IInv, AppendsReady
    PROVE  IInv'
<1>1. PICK u \in lsu.append : lsu' = appendReady(lsu, u)
  BY DEF AppendsReady
<1>2. /\ UNCHANGED <<program, params, instVars, ready, to_lsu, next_pid, flushed_by, credits>>
      /\ UNCHANGED <<phase, acks>>
      /\ UNCHANGED <<lsu_mem_access_info_, cache_pipeline_, mmu_ready, mmu_pending_inst_>>
  BY DEF AppendsReady, envVars, mmuVars, dcacheVars
<1>3. Shaped(lsu)
  BY DEF IInv, HeldInv
<1>4. u \in Working(lsu)
  BY <1>3, WorkingIs
<1>5. Moves(lsu, lsu', Working(lsu))
  BY <1>1, <1>3, <1>4, EventMoves
<1> QED BY <1>2, <1>5, NothingOutside, WorkingMay, QuietStep

\* A replay is due.
LEMMA ReplaysReadyPreserves ==
    ASSUME IInv, ReplaysReady
    PROVE  IInv'
<1>1. PICK e \in lsu.replays : lsu' = replayReady(lsu, e)
  BY DEF ReplaysReady
<1>2. /\ UNCHANGED <<program, params, instVars, ready, to_lsu, next_pid, flushed_by, credits>>
      /\ UNCHANGED <<phase, acks>>
      /\ UNCHANGED <<lsu_mem_access_info_, cache_pipeline_, mmu_ready, mmu_pending_inst_>>
  BY DEF ReplaysReady, envVars, mmuVars, dcacheVars
<1>3. Shaped(lsu)
  BY DEF IInv, HeldInv
<1>4. e.uid \in Working(lsu)
  BY <1>3, WorkingIs
<1>5. Moves(lsu, lsu', Working(lsu))
  BY <1>1, <1>3, <1>4, EventMoves
<1> QED BY <1>2, <1>5, NothingOutside, WorkingMay, QuietStep

\* An instruction issues.
LEMMA IssuesPreserves ==
    ASSUME IInv, Issues
    PROVE  IInv'
<1>1. /\ UNCHANGED <<program, params, instVars, ready, to_lsu, next_pid, flushed_by, credits>>
      /\ UNCHANGED <<phase, acks>> /\ issueInst
      /\ UNCHANGED <<lsu_mem_access_info_, cache_pipeline_, mmu_ready, mmu_pending_inst_>>
  BY DEF Issues, envVars, mmuVars, dcacheVars
<1>2. Shaped(lsu) /\ MessageInv
  BY DEF IInv, HeldInv
<1>3. \A u \in lsu.ready : u \in Working(lsu)
  BY <1>2, WorkingIs
<1>4. \A u \in lsu.ready : u \in Nat
  BY <1>2, <1>3, WorkingMay, InstFacts
<1>5. Moves(lsu, lsu', {})
  BY <1>1, <1>2, <1>4, IssueMoves
<1> QED BY <1>1, <1>5, NothingOutside, QuietStep

\* The MMU has handled a miss, and LSU takes it.
LEMMA MMULoadsEntryPreserves ==
    ASSUME IInv, MMULoadsEntry
    PROVE  IInv'
<1>1. /\ UNCHANGED <<program, params, instVars, ready, to_lsu, next_pid, flushed_by, credits>>
      /\ UNCHANGED <<phase, acks>> /\ lookupInst /\ UNCHANGED lsu
      /\ UNCHANGED <<lsu_mem_access_info_, cache_pipeline_>>
  BY DEF MMULoadsEntry, envVars, dcacheVars
<1>2. Shaped(lsu)
  BY DEF IInv, HeldInv
<1>3. Moves(lsu, lsu', {})
  BY <1>1, <1>2, MovesNot
<1>4. Fewer
  BY <1>1 DEF lookupInst, Fewer, InCache, IInv, HeldInv
<1> QED BY <1>1, <1>3, <1>4, QuietStep

\* The same.
LEMMA LSUGetsTranslationPreserves ==
    ASSUME IInv, LSUGetsTranslation
    PROVE  IInv'
<1>1. PICK u \in mmu_ready : lsu' = handleMMUReadyReq(lsu, u) /\ mmu_ready' = mmu_ready \ {u}
  BY DEF LSUGetsTranslation
<1>2. /\ UNCHANGED <<program, params, instVars, ready, to_lsu, next_pid, flushed_by, credits>>
      /\ UNCHANGED <<phase, acks>>
      /\ UNCHANGED <<lsu_mem_access_info_, cache_pipeline_, mmu_pending_inst_>>
  BY DEF LSUGetsTranslation, envVars, dcacheVars
<1>3. Shaped(lsu) /\ HeldInv /\ MessageInv
  BY DEF IInv, HeldInv
<1> DEFINE X == {u} \cap lsu.queue
<1>4. \A v \in X : v \in Insts /\ status[v] \notin {"DISPATCHED", "FLUSHED"}
  <2> SUFFICES ASSUME u \in lsu.queue PROVE u \in Insts /\ status[u] \notin {"DISPATCHED", "FLUSHED"}
    OBVIOUS
  <2>1. u \in Insts /\ status[u] # "FLUSHED" /\ u # 0
    BY <1>3, InstFacts DEF HeldInv
  <2> QED BY <1>3, <2>1 DEF HeldInv
<1>5. Moves(lsu, lsu', X)
  BY <1>1, <1>3, AnswerMoves
<1>6. Fewer
  BY <1>1, <1>2, <1>3 DEF Fewer, InCache, HeldInv
<1> HIDE DEF X
<1> QED BY <1>2, <1>4, <1>5, <1>6, QuietStep

\* The cache asks the L2 cache, or gets its answer.
LEMMA CacheAsksL2Preserves ==
    ASSUME IInv, CacheAsksL2 \/ L2Responds
    PROVE  IInv'
<1>1. /\ UNCHANGED <<program, params, instVars, ready, to_lsu, next_pid, flushed_by, credits>>
      /\ UNCHANGED <<phase, acks, lsu>>
      /\ UNCHANGED <<lsu_mem_access_info_, cache_pipeline_, mmu_ready, mmu_pending_inst_>>
  BY DEF CacheAsksL2, L2Responds, mshrRequest, receiveRespFromL2Cache, envVars, mmuVars
<1>2. Moves(lsu, lsu', {})
  BY <1>1, MovesNot DEF IInv, HeldInv
<1> QED BY <1>1, <1>2, NothingOutside, QuietStep

\* The cache takes a refill or a request of LSU into its pipeline.
LEMMA CacheArbitratesPreserves ==
    ASSUME IInv, CacheArbitrates
    PROVE  IInv'
<1>1. /\ UNCHANGED <<program, params, instVars, ready, to_lsu, next_pid, flushed_by, credits>>
      /\ UNCHANGED <<phase, acks, lsu>> /\ arbitrateL2LsuReq
      /\ UNCHANGED <<mmu_ready, mmu_pending_inst_>>
  BY DEF CacheArbitrates, envVars, mmuVars
<1>2. Moves(lsu, lsu', {})
  BY <1>1, MovesNot DEF IInv, HeldInv
<1>3. DOMAIN cache_pipeline_ = {"LOOKUP", "DATA_READ"}
  BY DEF IInv, HeldInv
<1>4. /\ DOMAIN cache_pipeline_' = {"LOOKUP", "DATA_READ"} /\ lsu_mem_access_info_' = 0
      /\ cache_pipeline_'.DATA_READ = cache_pipeline_.DATA_READ
      /\ cache_pipeline_'.LOOKUP = IF l2_mem_access_info_ # 0
                                   THEN [uid |-> l2_mem_access_info_, refill |-> TRUE]
                                   ELSE [uid |-> lsu_mem_access_info_, refill |-> FALSE]
  BY <1>1, <1>3 DEF arbitrateL2LsuReq
<1>5. InCache' \subseteq InCache \cup {0}
  <2> SUFFICES ASSUME NEW u \in InCache', u # 0 PROVE u \in InCache
    OBVIOUS
  <2>1. PICK st \in {"LOOKUP", "DATA_READ"} : ~cache_pipeline_'[st].refill /\ u = cache_pipeline_'[st].uid
    BY <1>4 DEF InCache
  <2>2. CASE st = "LOOKUP"
    BY <1>4, <2>1, <2>2 DEF InCache
  <2>3. CASE st = "DATA_READ"
    BY <1>3, <1>4, <2>1, <2>3 DEF InCache
  <2> QED BY <2>2, <2>3
<1>6. Fewer
  BY <1>1, <1>4, <1>5 DEF Fewer
<1> QED BY <1>1, <1>2, <1>6, QuietStep

\* LSU learns that a store has retired.
LEMMA LSUGetsAckPreserves ==
    ASSUME IInv, LSUGetsAck
    PROVE  IInv'
<1>0. MessageInv /\ HeldInv /\ Shaped(lsu)
  BY DEF IInv, HeldInv
<1> DEFINE u == Head(acks)
<1>1. /\ UNCHANGED <<program, params, instVars, ready, to_lsu, next_pid, flushed_by, credits>>
      /\ UNCHANGED phase /\ phase = "port" /\ acks # << >>
      /\ lsu' = getAckFromROB(lsu, u) /\ acks' = Tail(acks)
      /\ UNCHANGED <<lsu_mem_access_info_, cache_pipeline_, mmu_ready, mmu_pending_inst_>>
  BY DEF LSUGetsAck, mmuVars, dcacheVars
<1>2. /\ acks \in Seq(Insts) /\ \A k \in DOMAIN acks : status[acks[k]] = "RETIRED"
  BY <1>0 DEF MessageInv
<1>3. /\ Len(acks) \in Nat \ {0} /\ DOMAIN acks = 1..Len(acks) /\ u = acks[1] /\ u \in Insts
      /\ acks' \in Seq(Insts) /\ DOMAIN acks' = 1..(Len(acks) - 1)
      /\ \A k \in 1..(Len(acks) - 1) : acks'[k] = acks[k + 1]
  BY <1>1, <1>2, TailFacts
<1> HIDE DEF u
<1>4. status[u] = "RETIRED" /\ \A k \in DOMAIN acks' : status[acks'[k]] = "RETIRED"
  <2>1. 1 \in DOMAIN acks /\ \A k \in DOMAIN acks' : k + 1 \in DOMAIN acks /\ acks'[k] = acks[k + 1]
    BY <1>3
  <2>2. status[u] = "RETIRED"
    BY <1>2, <1>3, <2>1
  <2>3. \A k \in DOMAIN acks' : status[acks'[k]] = "RETIRED"
    BY <1>2, <2>1
  <2> QED BY <2>2, <2>3
<1> DEFINE X == {u}
<1>5. /\ Shaped(lsu') /\ lsu'.queue = lsu.queue /\ lsu'.stores = lsu.stores \ {u}
      /\ lsu'.callbacks = lsu.callbacks /\ Working(lsu') \subseteq Working(lsu) \cup X
  BY <1>0, <1>1, AnswerMoves
<1>6. StatusStep /\ MemStep
  BY <1>1, SameInsts DEF instVars
<1>7. Fewer
  BY <1>1, NothingOutside
<1>8. OutsideStep /\ SpeculationStep
  BY <1>1, <1>7, FewerOutside, FewerSpeculation DEF instVars, Fewer
<1>9. credits' = credits + Cardinality({})
  BY <1>0, <1>1, FS_EmptySet DEF MessageInv
<1>10. LSUStep(X, {})
  BY <1>1, <1>3, <1>4, <1>5, <1>9 DEF LSUStep, instVars
<1>11. MessageInv'
  <2>1. /\ (phase \in {"port", "flush", "tick", "late"})'
        /\ (pid \in Seq(DOMAIN program))' /\ (status \in Seq(InstStatus))' /\ (mem \in Seq(AccessType))'
        /\ (Len(status) = Len(pid))' /\ (Len(mem) = Len(pid))'
        /\ (next_pid \in Nat \ {0} /\ flushed_by \in Nat /\ credits \in Nat)'
    BY <1>0, <1>1 DEF MessageInv, instVars
  <2>2. Insts' = Insts
    BY <1>1 DEF Insts, instVars
  <2>3. (to_lsu \in Seq(Insts))'
    BY <1>0, <1>1, <2>2 DEF MessageInv
  <2>4. (acks \in Seq(Insts))'
    BY <1>3, <2>2
  <2>5. (to_lsu # << >> => phase \in {"late", "port"})' /\ (acks # << >> => phase # "flush")'
    BY <1>1
  <2>6. \A k \in DOMAIN acks' : (status[acks[k]] = "RETIRED")'
    BY <1>1, <1>4 DEF instVars
  <2>7. \A k \in DOMAIN to_lsu' : (/\ status[to_lsu[k]] = "DISPATCHED"
                                   /\ \A j \in 1..k - 1 : to_lsu[j] < to_lsu[k]
                                   /\ \A v \in lsu.queue : v < to_lsu[k])'
    BY <1>0, <1>1, <1>5 DEF MessageInv, instVars
  <2> QED BY <2>1, <2>3, <2>4, <2>5, <2>6, <2>7 DEF MessageInv
<1> HIDE DEF X
<1> QED BY <1>1, <1>6, <1>8, <1>10, <1>11, UnitStep DEF instVars

\* The next phase begins.
LEMMA NextPhasePreserves ==
    ASSUME IInv, nextPhase
    PROVE  IInv'
<1>0. MessageInv /\ HeldInv /\ Shaped(lsu)
  BY DEF IInv, HeldInv
<1>1. UNCHANGED <<program, params, instVars, ready, to_lsu, next_pid, flushed_by, credits, acks,
                  mmu_ready, mmu_pending_inst_>>
  BY DEF nextPhase, envVars
<1>2. PhaseDone /\ phase' = NextOf[phase] /\ phase \in {"port", "flush", "tick", "late"}
  BY <1>0 DEF nextPhase, MessageInv
<1>3. /\ phase = "port" => phase' = "flush" /\ to_lsu = << >> /\ acks = << >>
      /\ phase = "flush" => phase' = "tick"
      /\ phase = "tick" => phase' = "late"
      /\ phase = "late" => phase' = "port"
  BY <1>2 DEF PhaseDone, NextOf, MessagesDone
<1>4. \/ lsu' = lsu \/ lsu' = AdvancePipeline(lsu) \/ lsu' = AgedLSU(lsu)
  BY <1>2 DEF nextPhase
<1>5. Moves(lsu, lsu', {})
  BY <1>0, <1>4, ClockMoves, MovesNot
<1>6. Fewer
  <2>1. CASE phase = "tick"
    <3>1. /\ cache_pipeline_' = [LOOKUP |-> Empty, DATA_READ |-> cache_pipeline_.LOOKUP]
          /\ UNCHANGED lsu_mem_access_info_
      BY <2>1 DEF nextPhase, AdvanceCachePipeline
    <3>2. /\ DOMAIN cache_pipeline_' = {"LOOKUP", "DATA_READ"} /\ cache_pipeline_'.LOOKUP = Empty
          /\ cache_pipeline_'.DATA_READ = cache_pipeline_.LOOKUP /\ Empty.uid = 0
      BY <3>1 DEF Empty
    <3>3. DOMAIN cache_pipeline_ = {"LOOKUP", "DATA_READ"}
      BY <1>0 DEF HeldInv
    <3>4. InCache' \subseteq InCache \cup {0}
      <4> SUFFICES ASSUME NEW u \in InCache', u # 0, u # lsu_mem_access_info_ PROVE u \in InCache
        BY DEF InCache
      <4>1. PICK st \in {"LOOKUP", "DATA_READ"} : /\ ~cache_pipeline_'[st].refill
                                                  /\ u = cache_pipeline_'[st].uid
        BY <3>1, <3>2 DEF InCache
      <4>2. st = "DATA_READ" /\ u = cache_pipeline_.LOOKUP.uid /\ ~cache_pipeline_.LOOKUP.refill
        BY <3>2, <4>1
      <4> QED BY <3>3, <4>2 DEF InCache
    <3> QED BY <1>1, <3>2, <3>4 DEF Fewer
  <2>2. CASE phase # "tick"
    <3>1. UNCHANGED <<lsu_mem_access_info_, cache_pipeline_>>
      BY <2>2 DEF nextPhase, dcacheVars
    <3> QED BY <1>1, <3>1, NothingOutside
  <2> QED BY <2>1, <2>2
<1>7. MessageInv'
  <2>1. /\ (phase \in {"port", "flush", "tick", "late"})'
        /\ (pid \in Seq(DOMAIN program))' /\ (status \in Seq(InstStatus))' /\ (mem \in Seq(AccessType))'
        /\ (Len(status) = Len(pid))' /\ (Len(mem) = Len(pid))'
        /\ (next_pid \in Nat \ {0} /\ flushed_by \in Nat /\ credits \in Nat)'
    BY <1>0, <1>1, <1>2, <1>3 DEF MessageInv, instVars
  <2>2. Insts' = Insts
    BY <1>1 DEF Insts, instVars
  <2>3. (to_lsu \in Seq(Insts) /\ acks \in Seq(Insts))'
    BY <1>0, <1>1, <2>2 DEF MessageInv
  <2>5. (to_lsu # << >> => phase \in {"late", "port"})' /\ (acks # << >> => phase # "flush")'
    BY <1>0, <1>1, <1>2, <1>3 DEF MessageInv
  <2>6. \A k \in DOMAIN acks' : (status[acks[k]] = "RETIRED")'
    BY <1>0, <1>1 DEF instVars, MessageInv
  <2>7. \A k \in DOMAIN to_lsu' : (/\ status[to_lsu[k]] = "DISPATCHED"
                                   /\ \A j \in 1..k - 1 : to_lsu[j] < to_lsu[k]
                                   /\ \A v \in lsu.queue : v < to_lsu[k])'
    BY <1>0, <1>1, <1>5 DEF MessageInv, instVars, Moves
  <2> QED BY <2>1, <2>3, <2>5, <2>6, <2>7 DEF MessageInv
<1> QED BY <1>1, <1>5, <1>6, <1>7, QuietStep

-----------------------------------------------------------------------------
(* Actions that change instructions.                                       *)

\* A new value of one access.
LEMMA OneAccess ==
    ASSUME IInv, NEW u \in Insts, status[u] # "DISPATCHED", NEW m \in AccessType,
           mem[u].phy => m.phy, mem' = [mem EXCEPT ![u] = m]
    PROVE  MemStep
<1>1. MessageInv
  BY DEF IInv
<1>2. mem \in Seq(AccessType) /\ DOMAIN mem = Insts /\ Len(pid) \in Nat /\ Insts = 1..Len(pid)
  BY <1>1, InstFacts DEF MessageInv
<1>3. /\ mem'[u] = m /\ \A v \in Insts : v # u => mem'[v] = mem[v]
  BY <1>2
<1>4. mem' \in Seq(AccessType) /\ Len(mem') = Len(mem)
  <2>1. mem' \in [1..Len(pid) -> AccessType]
    BY <1>1, <1>2, InstFacts
  <2> QED BY <1>1, <1>2, <2>1, FunIsSeq DEF MessageInv
<1> QED BY <1>3, <1>4 DEF MemStep

\* A read of the cache.
LEMMA ReadsCachePreserves ==
    ASSUME IInv, ReadsCache
    PROVE  IInv'
<1>0. MessageInv /\ HeldInv /\ Shaped(lsu)
  BY DEF IInv, HeldInv
<1>1. PICK u \in Insts : /\ AtStage(CACHE_READ, u) /\ handleCacheRead(u)
                         /\ UNCHANGED <<credits, writes>>
  BY DEF ReadsCache
<1>2. CACHE_READ \in Stages
  BY DEF CACHE_READ, Stages, COMPLETE, ADDRESS
<1>3. /\ UNCHANGED <<phase, program, params, ready, next_pid, flushed_by, to_lsu, acks>>
      /\ u \in Working(lsu) /\ status[u] \notin {"DISPATCHED", "FLUSHED"}
  BY <1>1, <1>2, StageFacts
<1>4. /\ UNCHANGED <<pid, status, credits>>
      /\ UNCHANGED <<lsu_mem_access_info_, cache_pipeline_, mmu_ready, mmu_pending_inst_>>
      /\ mem' = [mem EXCEPT ![u].data = @ \/ mem[u].cache = "HIT"]
      /\ lsu' = IF mem[u].cache # "HIT" THEN Retry(lsu, CACHE_READ, u)
                ELSE IF mem[u].data THEN lsu ELSE ScheduleIssue(lsu)
  BY <1>1 DEF handleCacheRead, mmuVars, dcacheVars
<1>5. Moves(lsu, lsu', Working(lsu))
  BY <1>0, <1>2, <1>3, <1>4, RetryMoves, MovesNot, QuietParts
<1> DEFINE m == [mem[u] EXCEPT !.data = @ \/ mem[u].cache = "HIT"]
<1>6. mem[u] \in AccessType
  BY <1>0, InstFacts
<1>7. /\ mem' = [mem EXCEPT ![u] = m] /\ m \in AccessType /\ (mem[u].phy => m.phy)
      /\ m.cache = mem[u].cache /\ (m.data => mem[u].data \/ mem[u].cache = "HIT")
  BY <1>4, <1>6 DEF AccessType
<1> HIDE DEF m
<1>8. MemStep
  BY <1>3, <1>7, OneAccess
<1>9. StatusStep
  BY <1>4, SameInsts
<1>10. Fewer
  BY <1>4, NothingOutside
<1>11. OutsideStep
  BY <1>10, FewerOutside
<1>12. \A v \in Insts : v # u => mem'[v] = mem[v]
  BY <1>0, <1>7, InstFacts
<1>13. mem'[u] = m
  BY <1>0, <1>7, InstFacts
<1>14. SpeculationStep
  <2> SUFFICES ASSUME allow_speculative_load_exec_, NEW v \in lsu.queue, ~isStore(v),
                      mem'[v].data \/ mem'[v].cache # "NO_ACCESS" \/ v \in InCache'
               PROVE  allOlderStoresIssued(v)
    BY DEF SpeculationStep
  <2>1. v \in Insts /\ v # 0
    BY <1>0, InstFacts DEF HeldInv
  <2>2. mem[v].data \/ mem[v].cache # "NO_ACCESS" \/ v \in InCache
    BY <1>7, <1>10, <1>12, <1>13, <2>1 DEF Fewer
  <2> QED BY <2>2 DEF SpeculationInv, IInv
<1>15. credits' = credits + Cardinality({})
  BY <1>0, <1>4, FS_EmptySet DEF MessageInv
<1>16. LSUStep(Working(lsu), {})
  BY <1>4, <1>5, <1>15, WorkingMay DEF LSUStep, Moves
<1>17. MessageInv'
  BY <1>3, <1>4, <1>8, <1>9, <1>16, SameMessages
<1> QED BY <1>3, <1>4, <1>8, <1>9, <1>11, <1>14, <1>16, <1>17, UnitStep

\* A step of the unit, apart from time and messages.
LEMMA UnitAction ==
    ASSUME IInv, NEW X, NEW Q, LSUStep(X, Q), StatusStep, MemStep, SpeculationStep, OutsideStep,
           UNCHANGED <<phase, program, params, pid, ready, next_pid, flushed_by, to_lsu, acks>>
    PROVE  IInv'
<1>1. MessageInv'
  BY SameMessages
<1> QED BY <1>1, UnitStep

\* Scheduling instructions of the queue that wait for nothing.
LEMMA SchedulingStep ==
    ASSUME IInv, NEW us, status' = Scheduled(us),
           \A u \in us : /\ u \in lsu.queue /\ status[u] = "DISPATCHED"
                         /\ \A c \in lsu.callbacks : c.uid # u
    PROVE  StatusStep /\ \A u \in us : u \in Insts /\ status'[u] = "SCHEDULED"
<1>1. MessageInv /\ HeldInv
  BY DEF IInv
<1>2. /\ Len(pid) \in Nat /\ Insts = 1..Len(pid) /\ DOMAIN status = Insts
      /\ \A u \in Insts : status[u] \in InstStatus
  BY <1>1, InstFacts
<1>3. /\ status' \in [1..Len(pid) -> InstStatus]
      /\ \A u \in Insts : status'[u] = IF u \in us THEN "SCHEDULED" ELSE status[u]
  BY <1>2 DEF Scheduled, InstStatus
<1>4. status' \in Seq(InstStatus) /\ Len(status') = Len(status)
  <2>1. status' \in Seq(InstStatus) /\ Len(status') = Len(pid)
    BY <1>2, <1>3, FunIsSeq
  <2> QED BY <1>1, <2>1 DEF MessageInv
<1>5. us \subseteq Insts
  BY <1>1 DEF HeldInv
<1> QED BY <1>3, <1>4, <1>5 DEF StatusStep

\* A TLB lookup.
LEMMA LooksUpMMUPreserves ==
    ASSUME IInv, LooksUpMMU
    PROVE  IInv'
<1>0. MessageInv /\ HeldInv /\ Shaped(lsu)
  BY DEF IInv, HeldInv
<1>1. PICK u \in Insts : /\ AtStage(MMU_LOOKUP, u) /\ handleMMULookupReq(u)
                         /\ UNCHANGED <<credits, writes>>
  BY DEF LooksUpMMU
<1>2. MMU_LOOKUP \in Stages
  BY DEF MMU_LOOKUP, Stages, COMPLETE, ADDRESS
<1>3. /\ UNCHANGED <<phase, program, params, ready, next_pid, flushed_by, to_lsu, acks>>
      /\ u \in Working(lsu) /\ status[u] \notin {"DISPATCHED", "FLUSHED"}
  BY <1>1, <1>2, StageFacts
<1>4. CASE mem[u].phy
  <2>1. UNCHANGED <<lsu, instVars, mmuVars, dcacheVars>>
    BY <1>1, <1>4 DEF handleMMULookupReq
  <2>2. Moves(lsu, lsu', {})
    BY <1>0, <2>1, MovesNot
  <2>3. Fewer
    BY <2>1, NothingOutside DEF mmuVars, dcacheVars
  <2> QED BY <1>1, <1>3, <2>1, <2>2, <2>3, QuietStep
<1>5. CASE ~mem[u].phy
  <2> DEFINE wakes == isStore(u) /\ ~allow_speculative_load_exec_
             s == IF wakes THEN readyDependentLoads(lsu) ELSE lsu
             X == IF wakes THEN DependentLoads ELSE {}
             m == [mem[u] EXCEPT !.phy = memLookup(u)]
  <2>1. /\ lsu' = getAckFromMMU(s, u)
        /\ status' = IF wakes THEN Scheduled(DependentLoads) ELSE status
        /\ getInstsFromLSU(u)
        /\ UNCHANGED <<pid, lsu_mem_access_info_, cache_pipeline_>>
    BY <1>1, <1>5 DEF handleMMULookupReq, dcacheVars
  <2>2. \A v \in DependentLoads : /\ v \in lsu.queue /\ status[v] = "DISPATCHED"
                                  /\ \A c \in lsu.callbacks : c.uid # v
    BY <1>0 DEF DependentLoads, HeldInv
  <2>3. StatusStep /\ \A v \in X : v \in Insts /\ status'[v] = "SCHEDULED"
    <3>1. CASE wakes
      BY <2>1, <2>2, <3>1, SchedulingStep
    <3>2. CASE ~wakes
      BY <2>1, <3>2, SameInsts
    <3> QED BY <3>1, <3>2
  <2>4. Moves(lsu, s, X)
    BY <1>0, DependentMoves, MovesNot
  <2>5. mem[u] \in AccessType
    BY <1>0, InstFacts
  <2>6. mem' = [mem EXCEPT ![u] = m] /\ m.data = mem[u].data /\ m.cache = mem[u].cache
    BY <2>1, <2>5 DEF getInstsFromLSU, AccessType
  <2>7. m \in AccessType
    <3>1. memLookup(u) \in BOOLEAN
      BY DEF memLookup
    <3>2. \A b \in BOOLEAN : [mem[u] EXCEPT !.phy = b] \in AccessType
      BY <2>5 DEF AccessType
    <3> HIDE DEF m
    <3> QED BY <3>1, <3>2, Zenon DEF m
  <2> HIDE DEF X, s, m, wakes
  <2>8. Moves(s, getAckFromMMU(s, u), X)
    <3>1. Shaped(s)
      BY <2>4 DEF Moves
    <3> QED BY <3>1, AbortMoves, MovesNot DEF getAckFromMMU
  <2>9. Moves(lsu, lsu', X)
    BY <2>1, <2>4, <2>8, MovesTwice
  <2>10. MemStep
    BY <1>3, <1>5, <2>6, <2>7, OneAccess
  <2>11. InCache' = InCache
    BY <2>1 DEF InCache
  <2>12. \A v \in Insts : mem'[v].data = mem[v].data /\ mem'[v].cache = mem[v].cache
    BY <1>0, <2>6, InstFacts
  <2>13. SpeculationStep
    BY <1>0, <2>11, <2>12, FewerSpeculation DEF HeldInv
  <2>14. OutsideStep
    <3>1. mmu_ready' = mmu_ready /\ mmu_pending_inst_' \in {mmu_pending_inst_, u}
      BY <2>1 DEF getInstsFromLSU
    <3>2. DOMAIN cache_pipeline_' = {"LOOKUP", "DATA_READ"}
      BY <1>0, <2>1 DEF HeldInv
    <3>3. \A v \in (InCache' \cup mmu_ready' \cup {mmu_pending_inst_'}) \ {0} :
              v \in Insts /\ status[v] # "DISPATCHED"
      BY <1>0, <1>3, <2>11, <3>1 DEF HeldInv
    <3>4. \A v \in InCache' \ {0} : isStore(v) => status[v] = "RETIRED"
      BY <2>11 DEF IInv, StoresWriteRetired
    <3> QED BY <3>2, <3>3, <3>4 DEF OutsideStep
  <2>15. credits' = credits + Cardinality({})
    BY <1>0, <1>1, FS_EmptySet DEF MessageInv
  <2>16. LSUStep(X, {})
    BY <2>3, <2>9, <2>15 DEF LSUStep, Moves
  <2> QED BY <1>3, <2>1, <2>3, <2>10, <2>13, <2>14, <2>16, UnitAction
<1> QED BY <1>4, <1>5

\* A cache lookup: a miss of the TLB starts again, a store completes, a load is forwarded
\* or asks the cache.
LEMMA LooksUpCachePreserves ==
    ASSUME IInv, LooksUpCache
    PROVE  IInv'
<1>0. MessageInv /\ HeldInv /\ Shaped(lsu)
  BY DEF IInv, HeldInv
<1>1. PICK u \in Insts : /\ AtStage(CACHE_LOOKUP, u) /\ handleCacheLookupReq(u)
                         /\ UNCHANGED <<credits, writes>>
  BY DEF LooksUpCache
<1>2. CACHE_LOOKUP \in Stages
  BY DEF CACHE_LOOKUP, Stages, COMPLETE, ADDRESS
<1>3. /\ UNCHANGED <<phase, program, params, ready, next_pid, flushed_by, to_lsu, acks>>
      /\ u \in Working(lsu) /\ status[u] \notin {"DISPATCHED", "FLUSHED"}
  BY <1>1, <1>2, StageFacts
<1> DEFINE i == invalidateStage(lsu, CACHE_LOOKUP)
           replayed == Speculative(i, updateInstReplayReady(i, u))
           stays == ~Untranslated(u) /\ ~StoreDone(u) /\ ~SpeculationFails(u)
           m == [mem[u] EXCEPT !.data = TRUE, !.cache = "HIT"]
<1>4. /\ lsu' = IF Untranslated(u) THEN Retry(lsu, CACHE_LOOKUP, u)
                ELSE IF stays THEN lsu ELSE replayed
      /\ status' = IF ~Untranslated(u) /\ StoreDone(u)
                   THEN [status EXCEPT ![u] = "COMPLETED"] ELSE status
      /\ mem' = IF stays /\ Forwarded(u)
                THEN [mem EXCEPT ![u].data = TRUE, ![u].cache = "HIT"] ELSE mem
      /\ IF stays /\ ~Forwarded(u) /\ ~CacheBypass(u)
         THEN receiveMemReqFromLSU(u) ELSE UNCHANGED lsu_mem_access_info_
      /\ UNCHANGED <<pid, mmu_ready, mmu_pending_inst_, cache_pipeline_, credits>>
  BY <1>1 DEF handleCacheLookupReq, mmuVars
<1>5. Moves(lsu, replayed, Working(lsu))
  <2>1. Moves(lsu, i, Working(lsu))
    BY <1>0, <1>2, QuietParts
  <2>2. Shaped(i)
    BY <2>1 DEF Moves
  <2> HIDE DEF i
  <2>3. Moves(i, updateInstReplayReady(i, u), Working(lsu)) /\ Moves(i, i, Working(lsu))
    BY <1>3, <2>2, ReplayMoves, MovesNot
  <2>4. Moves(lsu, updateInstReplayReady(i, u), Working(lsu))
    BY <2>1, <2>3, MovesTwice
  <2> QED BY <2>1, <2>4 DEF Speculative
<1> HIDE DEF replayed, i
<1>6. Moves(lsu, lsu', Working(lsu))
  BY <1>0, <1>2, <1>3, <1>4, <1>5, RetryMoves, MovesNot
<1>7. StatusStep
  <2>1. CASE ~Untranslated(u) /\ StoreDone(u)
    <3>1. status' = [status EXCEPT ![u] = "COMPLETED"] /\ status[u] = "SCHEDULED"
      BY <1>4, <2>1 DEF StoreDone
    <3>2. /\ Len(pid) \in Nat /\ Insts = 1..Len(pid) /\ DOMAIN status = Insts
          /\ \A v \in Insts : status[v] \in InstStatus
      BY <1>0, InstFacts
    <3>3. /\ status' \in [1..Len(pid) -> InstStatus]
          /\ \A v \in Insts : status'[v] = IF v = u THEN "COMPLETED" ELSE status[v]
      BY <3>1, <3>2 DEF InstStatus
    <3>4. status' \in Seq(InstStatus) /\ Len(status') = Len(status)
      <4>1. status' \in Seq(InstStatus) /\ Len(status') = Len(pid)
        BY <3>2, <3>3, FunIsSeq
      <4> QED BY <1>0, <4>1 DEF MessageInv
    <3> QED BY <3>1, <3>3, <3>4 DEF StatusStep
  <2>2. CASE ~(~Untranslated(u) /\ StoreDone(u))
    BY <1>4, <2>2, SameInsts
  <2> QED BY <2>1, <2>2
<1>8. mem[u] \in AccessType
  BY <1>0, InstFacts
<1>9. m \in AccessType /\ (mem[u].phy => m.phy)
  BY <1>8 DEF AccessType
<1>10. mem' = mem \/ (stays /\ mem' = [mem EXCEPT ![u] = m])
  BY <1>4, <1>8 DEF AccessType
<1> HIDE DEF m
<1>11. MemStep
  BY <1>3, <1>9, <1>10, SameInsts, OneAccess
<1>12. InCache' \subseteq InCache \cup {u} /\ (u \in InCache' => u \in InCache \/ (stays /\ ~CacheBypass(u)))
  <2>1. \/ lsu_mem_access_info_' = lsu_mem_access_info_
        \/ lsu_mem_access_info_' = u /\ stays /\ ~CacheBypass(u)
    BY <1>4 DEF receiveMemReqFromLSU
  <2> QED BY <1>4, <2>1 DEF InCache
<1>13. stays /\ ~isStore(u) /\ allow_speculative_load_exec_ => allOlderStoresIssued(u)
  BY DEF SpeculationFails
<1> HIDE DEF stays
<1>14. SpeculationStep
  <2> SUFFICES ASSUME allow_speculative_load_exec_, NEW v \in lsu.queue, ~isStore(v),
                      mem'[v].data \/ mem'[v].cache # "NO_ACCESS" \/ v \in InCache'
               PROVE  allOlderStoresIssued(v)
    BY DEF SpeculationStep
  <2>1. v \in Insts /\ v # 0
    BY <1>0, InstFacts DEF HeldInv
  <2>2. CASE v = u /\ stays
    BY <1>13, <2>2
  <2>3. CASE v # u \/ ~stays
    <3>1. mem'[v] = mem[v]
      BY <1>0, <1>10, <2>1, <2>3, InstFacts
    <3>2. v \in InCache' => v \in InCache
      BY <1>12, <2>3
    <3> QED BY <3>1, <3>2 DEF SpeculationInv, IInv
  <2> QED BY <2>2, <2>3
<1>15. OutsideStep
  <2>1. DOMAIN cache_pipeline_' = {"LOOKUP", "DATA_READ"}
    BY <1>0, <1>4 DEF HeldInv
  <2>2. \A v \in (InCache' \cup mmu_ready' \cup {mmu_pending_inst_'}) \ {0} :
            v \in Insts /\ status[v] # "DISPATCHED"
    BY <1>0, <1>3, <1>4, <1>12 DEF HeldInv
  <2>3. ASSUME NEW v \in InCache' \ {0}, isStore(v) PROVE status[v] = "RETIRED"
    <3>1. CASE v \in InCache
      BY <2>3, <3>1 DEF IInv, StoresWriteRetired
    <3>2. CASE v \notin InCache
      BY <1>12, <2>3, <3>2 DEF CacheBypass
    <3> QED BY <3>1, <3>2
  <2> QED BY <2>1, <2>2, <2>3 DEF OutsideStep
<1>16. credits' = credits + Cardinality({})
  BY <1>0, <1>4, FS_EmptySet DEF MessageInv
<1>17. \A v \in Working(lsu) : v \in Insts /\ status'[v] \notin {"DISPATCHED", "FLUSHED"}
  BY <1>7, WorkingMay DEF StatusStep
<1>18. LSUStep(Working(lsu), {})
  BY <1>6, <1>16, <1>17 DEF LSUStep, Moves
<1> QED BY <1>3, <1>4, <1>7, <1>11, <1>14, <1>15, <1>18, UnitAction

\* The status of one instruction changes.
LEMMA OneStatus ==
    ASSUME MessageInv, NEW u \in Insts, NEW x \in InstStatus, status' = [status EXCEPT ![u] = x]
    PROVE  /\ status' \in Seq(InstStatus) /\ Len(status') = Len(status)
           /\ \A v \in Insts : status'[v] = IF v = u THEN x ELSE status[v]
<1>1. /\ Len(pid) \in Nat /\ Insts = 1..Len(pid) /\ DOMAIN status = Insts
      /\ \A v \in Insts : status[v] \in InstStatus
  BY InstFacts
<1>2. /\ status' \in [1..Len(pid) -> InstStatus]
      /\ \A v \in Insts : status'[v] = IF v = u THEN x ELSE status[v]
  BY <1>1
<1>3. status' \in Seq(InstStatus) /\ Len(status') = Len(pid)
  BY <1>1, <1>2, FunIsSeq
<1> QED BY <1>2, <1>3 DEF MessageInv

\* An instruction completes and leaves the queue, or passes again.
LEMMA CompletesPreserves ==
    ASSUME IInv, Completes
    PROVE  IInv'
<1>0. MessageInv /\ HeldInv /\ Shaped(lsu)
  BY DEF IInv, HeldInv
<1>1. PICK u \in Insts : /\ AtStage(COMPLETE, u) /\ completeInst(u)
                         /\ credits' = IF Finishes(u) THEN credits + 1 ELSE credits
  BY Zenon DEF Completes
<1>2. COMPLETE \in Stages
  BY DEF COMPLETE, Stages, ADDRESS
<1>3. /\ UNCHANGED <<phase, program, params, ready, next_pid, flushed_by, to_lsu, acks>>
      /\ u \in Working(lsu) /\ status[u] \notin {"DISPATCHED", "FLUSHED"}
  BY <1>1, <1>2, StageFacts
<1> DEFINE c == /\ isStore(u) => mem[u].phy
                /\ ~isStore(u) \/ status[u] = "RETIRED" => mem[u].cache = "HIT"
           s == IF mem[u].data THEN ScheduleIssue(Asserted(lsu, c)) ELSE lsu
           t == IF Finishes(u) THEN [s EXCEPT !.queue = @ \ {u}] ELSE s
           r == removeInstFromReplayQueue(t, {u})
           Q == IF Finishes(u) THEN {u} ELSE {}
<1>4. /\ lsu' = IF Finishes(u) \/ PassesAgain(u) THEN Speculative(t, r) ELSE t
      /\ status' = IF Finishes(u) /\ ~isStore(u) THEN [status EXCEPT ![u] = "COMPLETED"] ELSE status
      /\ UNCHANGED <<pid, mem, mmu_ready, mmu_pending_inst_, cache_pipeline_, lsu_mem_access_info_>>
  BY <1>1 DEF completeInst, mmuVars, dcacheVars
<1>5. Moves(lsu, s, {})
  <2>1. Moves(lsu, Asserted(lsu, c), {})
    BY <1>0, QuietParts
  <2> HIDE DEF c
  <2>2. Moves(Asserted(lsu, c), ScheduleIssue(Asserted(lsu, c)), {})
    BY <2>1, QuietParts DEF Moves
  <2>3. Moves(lsu, ScheduleIssue(Asserted(lsu, c)), {}) /\ Moves(lsu, lsu, {})
    BY <1>0, <2>1, <2>2, MovesTwice, MovesNot
  <2> QED BY <2>3
<1> HIDE DEF s, c
<1>6. Shaped(t) /\ t.queue = s.queue \ Q /\ t.stores = s.stores /\ t.callbacks = s.callbacks
      /\ Working(t) = Working(s)
  <2>1. CASE Finishes(u)
    <3>1. /\ DOMAIN t = DOMAIN s /\ t.queue = s.queue \ {u} /\ t.stores = s.stores
          /\ t.callbacks = s.callbacks /\ t.ready = s.ready /\ t.replay = s.replay
          /\ t.append = s.append /\ t.replays = s.replays /\ t.pipeline = s.pipeline
      BY <1>5, <2>1, Fields DEF Moves, Shaped
    <3> HIDE DEF t
    <3> QED BY <1>5, <2>1, <3>1 DEF Moves, Shaped, Working
  <2>2. CASE ~Finishes(u)
    BY <1>5, <2>2 DEF Moves
  <2> QED BY <2>1, <2>2
<1> HIDE DEF t
<1>7. Moves(t, t, {}) /\ Moves(t, r, {})
  BY <1>6, QuietParts, MovesNot
<1>8. Moves(t, lsu', {})
  BY <1>4, <1>7 DEF Speculative
<1>9. Shaped(lsu') /\ lsu'.queue = lsu.queue \ Q /\ lsu'.stores = lsu.stores
      /\ lsu'.callbacks = lsu.callbacks /\ Working(lsu') \subseteq Working(lsu)
  BY <1>5, <1>6, <1>8 DEF Moves
<1>10. status[u] \in InstStatus
  BY <1>0, InstFacts
<1>11. Finishes(u) => u \in lsu.queue /\ (~isStore(u) => status[u] = "SCHEDULED")
                      /\ (isStore(u) => status[u] = "RETIRED")
  BY <1>0, <1>3, <1>10 DEF Finishes, InstStatus, HeldInv
<1>12. StatusStep /\ \A v \in Q : status'[v] \in {"COMPLETED", "RETIRED"}
  <2>1. CASE Finishes(u) /\ ~isStore(u)
    <3>1. status' = [status EXCEPT ![u] = "COMPLETED"]
      BY <1>4, <2>1
    <3>2. "COMPLETED" \in InstStatus
      BY DEF InstStatus
    <3>3. /\ status' \in Seq(InstStatus) /\ Len(status') = Len(status)
          /\ \A v \in Insts : status'[v] = IF v = u THEN "COMPLETED" ELSE status[v]
      BY <1>0, <3>1, <3>2, OneStatus
    <3> QED BY <1>11, <2>1, <3>3 DEF StatusStep
  <2>2. CASE ~(Finishes(u) /\ ~isStore(u))
    <3>1. status' = status
      BY <1>4, <2>2
    <3>2. StatusStep
      BY <3>1, SameInsts
    <3> QED BY <1>11, <2>2, <3>1, <3>2
  <2> QED BY <2>1, <2>2
<1>13. MemStep
  BY <1>4, SameInsts
<1>14. Fewer
  BY <1>4, NothingOutside
<1>15. OutsideStep /\ SpeculationStep
  BY <1>4, <1>14, FewerOutside, FewerSpeculation DEF Fewer
<1>16. credits' = credits + Cardinality(Q) /\ Q \subseteq lsu.queue
  <2>1. credits \in Nat /\ Cardinality({}) = 0 /\ Cardinality({u}) = 1
    BY <1>0, FS_EmptySet, FS_Singleton DEF MessageInv
  <2> QED BY <1>1, <1>11, <2>1
<1> HIDE DEF Q
<1>17. LSUStep({}, Q)
  BY <1>9, <1>12, <1>16 DEF LSUStep
<1> QED BY <1>3, <1>4, <1>12, <1>13, <1>15, <1>17, UnitAction

\* A step of the cache for a request of LSU.
LEMMA CacheStep ==
    ASSUME IInv, NEW u \in Insts, u \in InCache, NEW m \in AccessType, mem[u].phy => m.phy,
           mem' = [mem EXCEPT ![u] = m] \/ mem' = mem,
           NEW x, lsu' = getAckFromCache(lsu, u, x),
           UNCHANGED <<phase, program, params, pid, status, ready, next_pid, flushed_by, credits,
                       to_lsu, acks, mmu_ready, mmu_pending_inst_, lsu_mem_access_info_,
                       cache_pipeline_>>
    PROVE  IInv'
<1>0. MessageInv /\ HeldInv /\ Shaped(lsu) /\ SpeculationInv
  BY DEF IInv, HeldInv
<1>1. u # 0 /\ status[u] # "DISPATCHED"
  BY <1>0, InstFacts DEF HeldInv
<1>2. StatusStep /\ MemStep
  BY <1>1, SameInsts, OneAccess
<1>3. Fewer
  BY NothingOutside
<1>4. OutsideStep
  BY <1>3, FewerOutside
<1>5. SpeculationStep
  <2> SUFFICES ASSUME allow_speculative_load_exec_, NEW v \in lsu.queue, ~isStore(v),
                      mem'[v].data \/ mem'[v].cache # "NO_ACCESS" \/ v \in InCache'
               PROVE  allOlderStoresIssued(v)
    BY DEF SpeculationStep
  <2>1. v \in Insts /\ v # 0
    BY <1>0, InstFacts DEF HeldInv
  <2>2. v # u => mem'[v] = mem[v]
    BY <1>0, <2>1, InstFacts
  <2> QED BY <1>0, <1>3, <2>1, <2>2 DEF SpeculationInv, Fewer
<1> DEFINE X == {u} \cap lsu.queue
<1>6. Moves(lsu, lsu', X)
  BY <1>0, AnswerMoves
<1>7. \A v \in X : v \in Insts /\ status[v] \notin {"DISPATCHED", "FLUSHED"}
  BY <1>0, <1>1 DEF HeldInv
<1> HIDE DEF X
<1>8. credits' = credits + Cardinality({})
  BY <1>0, FS_EmptySet DEF MessageInv
<1>9. LSUStep(X, {})
  BY <1>6, <1>7, <1>8 DEF LSUStep, Moves
<1> QED BY <1>2, <1>4, <1>5, <1>9, UnitAction

\* A step of the cache that is none of LSU's.
LEMMA RefillStep ==
    ASSUME IInv, UNCHANGED <<phase, program, params, pid, status, mem, lsu, ready, next_pid,
                             flushed_by, credits, to_lsu, acks, mmu_ready, mmu_pending_inst_,
                             lsu_mem_access_info_, cache_pipeline_>>
    PROVE  IInv'
<1>1. Moves(lsu, lsu', {})
  BY MovesNot DEF IInv, HeldInv
<1> QED BY <1>1, NothingOutside, QuietStep DEF instVars

\* What is in the cache's pipeline for LSU.
LEMMA InPipe ==
    ASSUME IInv, NEW st \in {"LOOKUP", "DATA_READ"}, ~cache_pipeline_[st].refill
    PROVE  LET u == cache_pipeline_[st].uid
           IN  u = 0 \/ (u \in InCache /\ u \in Insts /\ mem[u] \in AccessType)
<1>1. MessageInv /\ HeldInv
  BY DEF IInv
<1>2. cache_pipeline_[st].uid \in InCache
  BY <1>1 DEF InCache, HeldInv
<1> QED BY <1>1, <1>2, InstFacts DEF HeldInv

\* There is no instruction 0.
LEMMA NoInstZero ==
    ASSUME IInv, NEW x
    PROVE  /\ [mem EXCEPT ![0] = x] = mem
           /\ \A m : getAckFromCache(lsu, 0, m) = lsu
<1>1. MessageInv /\ HeldInv
  BY DEF IInv
<1>2. mem \in Seq(AccessType) /\ DOMAIN mem = Insts /\ 0 \notin Insts
  BY <1>1, InstFacts DEF MessageInv
<1>3. mem = [k \in Insts |-> mem[k]]
  BY <1>2
<1>4. [mem EXCEPT ![0] = x] = mem
  BY <1>2, <1>3
<1>5. 0 \notin lsu.queue
  BY <1>1, <1>2 DEF HeldInv
<1> QED BY <1>4, <1>5 DEF getAckFromCache

\* The lookup stage of the cache.
LEMMA CacheLooksUpPreserves ==
    ASSUME IInv, CacheLooksUp
    PROVE  IInv'
<1> DEFINE e == cache_pipeline_.LOOKUP
           u == e.uid
<1>1. /\ UNCHANGED <<phase, program, params, pid, status, ready, next_pid, flushed_by, credits,
                     to_lsu, acks, mmu_ready, mmu_pending_inst_>>
      /\ IF e.refill THEN UNCHANGED <<mem, lsu, dcacheVars>>
         ELSE handleLookup(u) /\ lsu' = getAckFromCache(lsu, u, mem'[u])
  BY DEF CacheLooksUp, AtCacheStage, envVars, mmuVars
<1>2. UNCHANGED <<lsu_mem_access_info_, cache_pipeline_>>
  BY <1>1 DEF handleLookup, dcacheVars
<1>3. CASE e.refill
  BY <1>1, <1>2, <1>3, RefillStep
<1>4. CASE ~e.refill
  <2> DEFINE x == IF dataLookup(u) \/ (~NoMSHR(u) /\ isStore(u)) THEN "HIT" ELSE "MISS"
             m == [mem[u] EXCEPT !.cache = x]
  <2>1. x \in {"HIT", "MISS"} /\ mem' = [mem EXCEPT ![u] = m]
    BY <1>1, <1>4 DEF handleLookup
  <2>2. lsu' = getAckFromCache(lsu, u, mem'[u])
    BY <1>1, <1>4
  <2>3. u = 0 \/ (u \in InCache /\ u \in Insts /\ mem[u] \in AccessType)
    BY <1>4, InPipe
  <2> HIDE DEF x, e, u
  <2>4. CASE u = 0
    BY <1>1, <1>2, <2>1, <2>2, <2>4, NoInstZero, RefillStep
  <2>5. CASE u # 0
    <3>1. m \in AccessType /\ (mem[u].phy => m.phy)
      BY <2>1, <2>3, <2>5 DEF AccessType
    <3> HIDE DEF m
    <3> QED BY <1>1, <1>2, <2>1, <2>2, <2>3, <2>5, <3>1, CacheStep
  <2> QED BY <2>4, <2>5
<1> QED BY <1>3, <1>4

\* The read stage of the cache.
LEMMA CacheReadsPreserves ==
    ASSUME IInv, CacheReads
    PROVE  IInv'
<1> DEFINE e == cache_pipeline_.DATA_READ
           u == e.uid
<1>1. /\ UNCHANGED <<phase, program, params, pid, status, ready, next_pid, flushed_by, credits,
                     to_lsu, acks, mmu_ready, mmu_pending_inst_>>
      /\ IF e.refill THEN handleDataReadRefill(u) /\ UNCHANGED lsu
         ELSE handleDataRead(u) /\ lsu' = getAckFromCache(lsu, u, mem'[u])
  BY DEF CacheReads, AtCacheStage, envVars, mmuVars
<1>2. UNCHANGED <<lsu_mem_access_info_, cache_pipeline_>>
  BY <1>1 DEF handleDataRead, handleDataReadRefill
<1>3. CASE e.refill
  BY <1>1, <1>2, <1>3, RefillStep DEF handleDataReadRefill
<1>4. CASE ~e.refill
  <2> DEFINE m == [mem[u] EXCEPT !.data = TRUE]
  <2>1. mem' = [mem EXCEPT ![u] = m] \/ mem' = mem
    BY <1>1, <1>4 DEF handleDataRead
  <2>2. lsu' = getAckFromCache(lsu, u, mem'[u])
    BY <1>1, <1>4
  <2>3. u = 0 \/ (u \in InCache /\ u \in Insts /\ mem[u] \in AccessType)
    BY <1>4, InPipe
  <2> HIDE DEF e, u
  <2>4. CASE u = 0
    BY <1>1, <1>2, <2>1, <2>2, <2>4, NoInstZero, RefillStep
  <2>5. CASE u # 0
    <3>1. m \in AccessType /\ (mem[u].phy => m.phy)
      BY <2>3, <2>5 DEF AccessType
    <3> HIDE DEF m
    <3> QED BY <1>1, <1>2, <2>1, <2>2, <2>3, <2>5, <3>1, CacheStep
  <2> QED BY <2>4, <2>5
<1> QED BY <1>3, <1>4

-----------------------------------------------------------------------------
(* ROB, Dispatch and the scoreboard.                                       *)

\* ROB retires an instruction.
LEMMA RetirePreserves ==
    ASSUME IInv, Retire
    PROVE  IInv'
<1>0. /\ MessageInv /\ HeldInv /\ CreditsConserved /\ RetiredInv /\ StoresWriteRetired
      /\ SpeculationInv
  BY DEF IInv
<1>1. PICK u \in Live : /\ status[u] = "COMPLETED"
                        /\ \A b \in flushed_by + 1..pid[u] : ~program[b].branch
                        /\ status' = [status EXCEPT ![u] = "RETIRED"]
                        /\ acks' = IF isStore(u) THEN Append(acks, u) ELSE acks
  BY DEF Retire
<1>2. /\ phase = "tick"
      /\ UNCHANGED <<phase, program, params, pid, mem, mmu_ready, mmu_pending_inst_,
                     cache_pipeline_, lsu_mem_access_info_, lsu, ready, next_pid, flushed_by,
                     credits, to_lsu>>
  BY DEF Retire, mmuVars, dcacheVars
<1>3. u \in Insts
  BY DEF Live
<1>4. /\ status' \in Seq(InstStatus) /\ Len(status') = Len(status)
      /\ \A v \in Insts : status'[v] = IF v = u THEN "RETIRED" ELSE status[v]
  <2>1. "RETIRED" \in InstStatus
    BY DEF InstStatus
  <2> QED BY <1>0, <1>1, <1>3, <2>1, OneStatus
<1>5. Insts' = Insts /\ InCache' = InCache
  BY <1>2 DEF Insts, InCache
<1>6. \A v : isStore(v)' = isStore(v) /\ Inst(v)' = Inst(v)
             /\ allOlderStoresIssued(v)' = allOlderStoresIssued(v)
  BY <1>2 DEF isStore, Inst, allOlderStoresIssued
<1>7. /\ acks' \in Seq(Insts)
      /\ \A k \in DOMAIN acks' : status'[acks'[k]] = "RETIRED"
  <2>1. acks \in Seq(Insts) /\ \A k \in DOMAIN acks : status[acks[k]] = "RETIRED"
    BY <1>0 DEF MessageInv
  <2>2. \A k \in DOMAIN acks : acks[k] \in Insts
    BY <2>1, SeqFacts
  <2>3. \A k \in DOMAIN acks : status'[acks[k]] = "RETIRED"
    BY <1>4, <2>1, <2>2
  <2>4. CASE isStore(u)
    <3>1. acks' = Append(acks, u)
      BY <1>1, <2>4
    <3>2. /\ Len(acks) \in Nat /\ DOMAIN acks = 1..Len(acks)
          /\ acks' \in Seq(Insts) /\ DOMAIN acks' = 1..(Len(acks) + 1)
          /\ \A k \in 1..Len(acks) : acks'[k] = acks[k]
          /\ acks'[Len(acks) + 1] = u
      BY <1>3, <2>1, <3>1, AppendFacts
    <3>3. status'[u] = "RETIRED"
      BY <1>3, <1>4
    <3>4. ASSUME NEW k \in DOMAIN acks' PROVE status'[acks'[k]] = "RETIRED"
      <4>1. k \in 1..Len(acks) \/ k = Len(acks) + 1
        BY <3>2
      <4>2. CASE k \in 1..Len(acks)
        BY <2>3, <3>2, <4>2
      <4>3. CASE k = Len(acks) + 1
        BY <3>2, <3>3, <4>3
      <4> QED BY <4>1, <4>2, <4>3
    <3> QED BY <3>2, <3>4
  <2>5. CASE ~isStore(u)
    BY <1>1, <2>1, <2>3, <2>5
  <2> QED BY <2>4, <2>5
<1>8. MessageInv'
  <2>1. /\ (phase \in {"port", "flush", "tick", "late"})'
        /\ (pid \in Seq(DOMAIN program))' /\ (status \in Seq(InstStatus))' /\ (mem \in Seq(AccessType))'
        /\ (Len(status) = Len(pid))' /\ (Len(mem) = Len(pid))'
        /\ (next_pid \in Nat \ {0} /\ flushed_by \in Nat /\ credits \in Nat)'
    BY <1>0, <1>2, <1>4 DEF MessageInv
  <2>2. (to_lsu \in Seq(Insts) /\ acks \in Seq(Insts))'
    BY <1>0, <1>2, <1>5, <1>7 DEF MessageInv
  <2>3. (to_lsu # << >> => phase \in {"late", "port"})' /\ (acks # << >> => phase # "flush")'
    BY <1>0, <1>2 DEF MessageInv
  <2>4. \A k \in DOMAIN acks' : (status[acks[k]] = "RETIRED")'
    BY <1>7
  <2>5. to_lsu = << >>
    BY <1>0, <1>2 DEF MessageInv
  <2>6. DOMAIN to_lsu' = {}
    BY <1>2, <2>5
  <2> QED BY <2>1, <2>2, <2>3, <2>4, <2>6 DEF MessageInv
<1>9. HeldInv'
  <2>1. \A v \in Insts : /\ status'[v] = "FLUSHED" <=> status[v] = "FLUSHED"
                         /\ status'[v] = "DISPATCHED" <=> status[v] = "DISPATCHED"
                         /\ status'[v] = "SCHEDULED" => status[v] = "SCHEDULED"
    BY <1>1, <1>4
  <2>2. Working(lsu)' = Working(lsu) /\ Shaped(lsu)' /\ DOMAIN cache_pipeline_' = {"LOOKUP", "DATA_READ"}
    BY <1>0, <1>2 DEF Working, Shaped, HeldInv
  <2>3. \A v \in (lsu.queue \cup lsu.stores)' : (v \in Insts /\ status[v] # "FLUSHED")'
    BY <1>0, <1>2, <1>5, <2>1 DEF HeldInv
  <2>4. \A v \in Working(lsu)' : (v \in Insts /\ status[v] \notin {"DISPATCHED", "FLUSHED"})'
    BY <1>0, <1>5, <2>1, <2>2 DEF HeldInv
  <2>5. \A v \in ((InCache \cup mmu_ready \cup {mmu_pending_inst_}) \ {0})' :
            (v \in Insts /\ status[v] # "DISPATCHED")'
    BY <1>0, <1>2, <1>5, <2>1 DEF HeldInv
  <2>6. \A v \in Insts' : (status[v] = "SCHEDULED" => v \in lsu.queue)'
    BY <1>0, <1>2, <1>5, <2>1 DEF HeldInv
  <2>7. ASSUME NEW c \in lsu.callbacks'
        PROVE  (/\ c.uid \in lsu.queue /\ status[c.uid] = "DISPATCHED" /\ c.reg \notin ready
                /\ ~isStore(c.uid) => c.reg = Inst(c.uid).src
                /\ \A d \in lsu.callbacks : d.uid = c.uid => d.reg = c.reg)'
    <3>1. /\ c.uid \in lsu.queue /\ status[c.uid] = "DISPATCHED" /\ c.reg \notin ready
          /\ ~isStore(c.uid) => c.reg = Inst(c.uid).src
          /\ \A d \in lsu.callbacks : d.uid = c.uid => d.reg = c.reg
      BY <1>0, <1>2 DEF HeldInv
    <3>2. c.uid \in Insts
      BY <1>0, <3>1 DEF HeldInv
    <3>3. status'[c.uid] = "DISPATCHED"
      BY <2>1, <3>1, <3>2
    <3> QED BY <1>2, <1>6, <3>1, <3>3
  <2> QED BY <2>2, <2>3, <2>4, <2>5, <2>6, <2>7 DEF HeldInv
<1>10. CreditsConserved'
  BY <1>0, <1>2 DEF CreditsConserved
<1>11. RetiredInv'
  BY <1>0, <1>1, <1>2, <1>4, <1>5 DEF RetiredInv
<1>12. StoresWriteRetired'
  <2>1. \A v \in InCache \ {0} : v \in Insts /\ (isStore(v) => status[v] = "RETIRED")
    BY <1>0 DEF StoresWriteRetired, HeldInv
  <2> QED BY <1>4, <1>5, <1>6, <2>1 DEF StoresWriteRetired
<1>13. SpeculationInv'
  <2>1. \A v \in Insts' : (status[v] = "DISPATCHED" => mem[v] = NoAccess)'
    BY <1>0, <1>2, <1>4, <1>5 DEF SpeculationInv, NoAccess
  <2>2. (allow_speculative_load_exec_ =>
          \A v \in lsu.queue :
              ~isStore(v) /\ (mem[v].data \/ mem[v].cache # "NO_ACCESS" \/ v \in InCache)
                  => allOlderStoresIssued(v))'
    BY <1>0, <1>2, <1>5, <1>6 DEF SpeculationInv, params
  <2> QED BY <2>1, <2>2 DEF SpeculationInv
<1> QED BY <1>8, <1>9, <1>10, <1>11, <1>12, <1>13 DEF IInv

\* The operand check of dispatched instructions that have no callback any more, in a state s
\* of LSU whose queue may have got some of them.
LEMMA OperandCheckStep ==
    ASSUME IInv, NEW s, Shaped(s), NEW us,
           lsu' = handleOperandIssueCheck(s, us, ready'), status' = Scheduled(Schedulable(us, ready')),
           us \subseteq Insts /\ us \subseteq s.queue, \A u \in us : status[u] = "DISPATCHED",
           lsu.queue \subseteq s.queue /\ s.queue \subseteq lsu.queue \cup us,
           s.stores \subseteq lsu.stores \cup us, Working(s) = Working(lsu),
           \A u \in s.queue \ lsu.queue : \A v \in lsu.queue : v < u,
           \A c \in s.callbacks :
               /\ c.uid \in s.queue /\ c.uid \notin us /\ status[c.uid] = "DISPATCHED"
               /\ c.reg \notin ready' /\ (~isStore(c.uid) => c.reg = Inst(c.uid).src)
               /\ \A d \in s.callbacks : d.uid = c.uid => d.reg = c.reg,
           UNCHANGED <<program, params, pid, mem, mmu_ready, mmu_pending_inst_, cache_pipeline_,
                       lsu_mem_access_info_, flushed_by>>
    PROVE  /\ HeldInv' /\ RetiredInv' /\ StoresWriteRetired' /\ SpeculationInv'
           /\ lsu'.queue = s.queue
           /\ status' \in Seq(InstStatus) /\ Len(status') = Len(status)
           /\ \A u \in Insts \ us : status'[u] = status[u]
<1> DEFINE now == Schedulable(us, ready')
<1>0. MessageInv /\ HeldInv /\ RetiredInv /\ StoresWriteRetired /\ SpeculationInv
  BY DEF IInv
<1>1. /\ Shaped(lsu') /\ lsu'.queue = s.queue /\ lsu'.stores = s.stores
      /\ Working(lsu') \subseteq Working(s) \cup now
      /\ \A c \in lsu'.callbacks :
            \/ c \in s.callbacks
            \/ c.uid \in us /\ status[c.uid] # "SCHEDULED" /\ c.reg \in Awaits(c.uid, ready')
  BY OperandCheckDoes
<1>2. now \subseteq us /\ \A u \in now : Awaits(u, ready') = {}
  BY DEF Schedulable
<1> HIDE DEF now
<1>3. /\ Len(pid) \in Nat /\ Insts = 1..Len(pid) /\ DOMAIN status = Insts /\ Insts \subseteq Nat
      /\ 0 \notin Insts /\ \A u \in Insts : status[u] \in InstStatus /\ mem[u] \in AccessType
  BY <1>0, InstFacts
<1>4. /\ status' \in [1..Len(pid) -> InstStatus]
      /\ \A u \in Insts : status'[u] = IF u \in now THEN "SCHEDULED" ELSE status[u]
  BY <1>3 DEF Scheduled, InstStatus, now
<1>5. status' \in Seq(InstStatus) /\ Len(status') = Len(status)
  <2>1. status' \in Seq(InstStatus) /\ Len(status') = Len(pid)
    BY <1>3, <1>4, FunIsSeq
  <2> QED BY <1>0, <2>1 DEF MessageInv
<1>6. Insts' = Insts /\ InCache' = InCache
  BY DEF Insts, InCache
<1>7. \A u : isStore(u)' = isStore(u) /\ Inst(u)' = Inst(u)
  BY DEF isStore, Inst
<1>8. \A u \in Insts : /\ status'[u] = "DISPATCHED" => status[u] = "DISPATCHED"
                       /\ status'[u] = "FLUSHED" => status[u] = "FLUSHED"
                       /\ status'[u] = "RETIRED" <=> status[u] = "RETIRED"
  BY <1>2, <1>4
<1>9. HeldInv'
  <2>1. (Shaped(lsu) /\ DOMAIN cache_pipeline_ = {"LOOKUP", "DATA_READ"})'
    BY <1>0, <1>1 DEF HeldInv
  <2>2. \A u \in (lsu.queue \cup lsu.stores)' : (u \in Insts /\ status[u] # "FLUSHED")'
    <3> SUFFICES ASSUME NEW u \in lsu'.queue \cup lsu'.stores
                 PROVE  u \in Insts /\ status'[u] # "FLUSHED"
      BY <1>6
    <3>1. CASE u \in us
      BY <1>8, <3>1
    <3>2. CASE u \in lsu.queue \cup lsu.stores
      BY <1>0, <1>8, <3>2 DEF HeldInv
    <3> QED BY <1>1, <3>1, <3>2
  <2>3. \A u \in Working(lsu)' : (u \in Insts /\ status[u] \notin {"DISPATCHED", "FLUSHED"})'
    <3> SUFFICES ASSUME NEW u \in Working(lsu')
                 PROVE  u \in Insts /\ status'[u] \notin {"DISPATCHED", "FLUSHED"}
      BY <1>6
    <3>1. CASE u \in now
      BY <1>2, <1>4, <3>1
    <3>2. CASE u \in Working(lsu)
      BY <1>0, <1>8, <3>2 DEF HeldInv
    <3> QED BY <1>1, <3>1, <3>2
  <2>4. \A u \in ((InCache \cup mmu_ready \cup {mmu_pending_inst_}) \ {0})' :
            (u \in Insts /\ status[u] # "DISPATCHED")'
    BY <1>0, <1>6, <1>8 DEF HeldInv
  <2>5. \A u \in Insts' : (status[u] = "SCHEDULED" => u \in lsu.queue)'
    BY <1>0, <1>1, <1>2, <1>4, <1>6 DEF HeldInv
  <2>6. ASSUME NEW c \in lsu'.callbacks, c \in s.callbacks
        PROVE  /\ c.uid \notin us
               /\ c.uid \in lsu'.queue /\ status'[c.uid] = "DISPATCHED" /\ c.reg \notin ready'
               /\ ~isStore(c.uid) => c.reg = Inst(c.uid).src
    <3>1. c.uid \in Insts
      BY <1>0, <2>6 DEF HeldInv
    <3> QED BY <1>1, <1>2, <1>4, <2>6, <3>1
  <2>7. ASSUME NEW c \in lsu'.callbacks, c \notin s.callbacks
        PROVE  /\ c.uid \in us /\ c.reg \in Awaits(c.uid, ready')
               /\ c.uid \in lsu'.queue /\ status'[c.uid] = "DISPATCHED" /\ c.reg \notin ready'
               /\ ~isStore(c.uid) => c.reg = Inst(c.uid).src
    <3>1. c.uid \in us /\ c.reg \in Awaits(c.uid, ready')
      BY <1>1, <2>7
    <3>2. c.uid \in Insts /\ c.uid \notin now /\ status[c.uid] = "DISPATCHED"
      BY <1>2, <3>1
    <3>3. c.reg \notin ready' /\ (~isStore(c.uid) => c.reg = Inst(c.uid).src)
      BY <3>1 DEF Awaits
    <3> QED BY <1>1, <1>4, <3>1, <3>2, <3>3
  <2>8. ASSUME NEW c \in lsu'.callbacks, NEW d \in lsu'.callbacks, d.uid = c.uid
        PROVE  d.reg = c.reg
    <3>1. CASE c \in s.callbacks /\ d \in s.callbacks
      BY <2>8, <3>1
    <3>2. CASE c \notin s.callbacks /\ d \notin s.callbacks
      <4>1. c.reg \in Awaits(c.uid, ready') /\ d.reg \in Awaits(c.uid, ready')
        BY <2>7, <2>8, <3>2
      <4> QED BY <4>1 DEF Awaits
    <3> QED BY <2>6, <2>7, <2>8, <3>1, <3>2
  <2>9. \A c \in lsu'.callbacks :
           (/\ c.uid \in lsu.queue /\ status[c.uid] = "DISPATCHED" /\ c.reg \notin ready
            /\ ~isStore(c.uid) => c.reg = Inst(c.uid).src
            /\ \A d \in lsu.callbacks : d.uid = c.uid => d.reg = c.reg)'
    BY <1>7, <2>6, <2>7, <2>8
  <2> QED BY <2>1, <2>2, <2>3, <2>4, <2>5, <2>9 DEF HeldInv
<1>10. RetiredInv'
  BY <1>0, <1>6, <1>8 DEF RetiredInv
<1>11. StoresWriteRetired'
  <2>1. \A v \in InCache \ {0} : v \in Insts /\ (isStore(v) => status[v] = "RETIRED")
    BY <1>0 DEF StoresWriteRetired, HeldInv
  <2> QED BY <1>6, <1>7, <1>8, <2>1 DEF StoresWriteRetired
<1>12. SpeculationInv'
  <2>1. \A u \in Insts' : (status[u] = "DISPATCHED" => mem[u] = NoAccess)'
    BY <1>0, <1>6, <1>8 DEF SpeculationInv, NoAccess
  <2>2. ASSUME allow_speculative_load_exec_', NEW u \in lsu'.queue,
               ~isStore(u)', (mem[u].data \/ mem[u].cache # "NO_ACCESS" \/ u \in InCache)'
        PROVE  allOlderStoresIssued(u)'
    <3>1. allow_speculative_load_exec_ /\ ~isStore(u)
          /\ (mem[u].data \/ mem[u].cache # "NO_ACCESS" \/ u \in InCache)
      BY <1>6, <1>7, <2>2 DEF params
    <3>2. u \notin us
      <4> SUFFICES ASSUME u \in us PROVE FALSE
        OBVIOUS
      <4>1. u \in Insts /\ status[u] = "DISPATCHED" /\ u # 0
        BY <1>3
      <4>2. mem[u] = NoAccess /\ u \notin InCache
        BY <1>0, <4>1 DEF SpeculationInv, HeldInv
      <4> QED BY <3>1, <4>2 DEF NoAccess
    <3>3. u \in lsu.queue /\ u \in Insts
      BY <1>0, <1>1, <3>2 DEF HeldInv
    <3>4. allOlderStoresIssued(u)
      BY <1>0, <3>1, <3>3 DEF SpeculationInv
    <3> SUFFICES ASSUME NEW v \in lsu'.queue, isStore(v), v < u PROVE mem[v].phy
      BY <1>7 DEF allOlderStoresIssued
    <3>5. v \in Insts
      BY <1>0, <1>1 DEF HeldInv
    <3>6. v \in lsu.queue
      BY <1>1, <1>3, <3>3, <3>5
    <3> QED BY <3>4, <3>6 DEF allOlderStoresIssued
  <2> QED BY <2>1, <2>2 DEF SpeculationInv
<1> QED BY <1>1, <1>2, <1>4, <1>5, <1>9, <1>10, <1>11, <1>12

\* A register becomes ready.
LEMMA RegisterReadyPreserves ==
    ASSUME IInv, NEW r, RegisterReady(r), to_lsu = << >>, acks = << >>,
           UNCHANGED <<phase, program, params, pid, mem, mmu_ready, mmu_pending_inst_,
                       cache_pipeline_, lsu_mem_access_info_, next_pid, flushed_by, credits,
                       to_lsu, acks>>
    PROVE  IInv'
<1>0. MessageInv /\ HeldInv /\ Shaped(lsu) /\ CreditsConserved
  BY DEF IInv, HeldInv
<1> DEFINE us == {c.uid : c \in {d \in lsu.callbacks : d.reg = r}}
           s  == [lsu EXCEPT !.callbacks = {c \in @ : c.reg # r}]
<1>1. /\ ready' = ready \cup {r} /\ lsu' = handleOperandIssueCheck(s, us, ready')
      /\ status' = Scheduled(Schedulable(us, ready'))
  BY DEF RegisterReady
<1>2. /\ DOMAIN s = DOMAIN lsu /\ s.queue = lsu.queue /\ s.stores = lsu.stores
      /\ s.callbacks = {c \in lsu.callbacks : c.reg # r} /\ s.ready = lsu.ready
      /\ s.replay = lsu.replay /\ s.append = lsu.append /\ s.pipeline = lsu.pipeline
      /\ s.replays = lsu.replays
  BY <1>0, Fields DEF Shaped
<1> HIDE DEF s
<1>3. Shaped(s) /\ Working(s) = Working(lsu)
  BY <1>0, <1>2 DEF Shaped, Working
<1>4. \A c \in lsu.callbacks :
         /\ c.uid \in lsu.queue /\ status[c.uid] = "DISPATCHED" /\ c.reg \notin ready
         /\ ~isStore(c.uid) => c.reg = Inst(c.uid).src
         /\ \A d \in lsu.callbacks : d.uid = c.uid => d.reg = c.reg
  BY <1>0 DEF HeldInv
<1>5. /\ us \subseteq Insts /\ us \subseteq s.queue /\ \A u \in us : status[u] = "DISPATCHED"
  <2>1. \A u \in us : u \in lsu.queue /\ status[u] = "DISPATCHED"
    BY <1>4
  <2> QED BY <1>0, <1>2, <2>1 DEF HeldInv
<1>6. \A c \in s.callbacks :
         /\ c.uid \in s.queue /\ c.uid \notin us /\ status[c.uid] = "DISPATCHED"
         /\ c.reg \notin ready' /\ (~isStore(c.uid) => c.reg = Inst(c.uid).src)
         /\ \A d \in s.callbacks : d.uid = c.uid => d.reg = c.reg
  <2> SUFFICES ASSUME NEW c \in s.callbacks
               PROVE  /\ c.uid \in s.queue /\ c.uid \notin us /\ status[c.uid] = "DISPATCHED"
                      /\ c.reg \notin ready' /\ (~isStore(c.uid) => c.reg = Inst(c.uid).src)
                      /\ \A d \in s.callbacks : d.uid = c.uid => d.reg = c.reg
    OBVIOUS
  <2>1. c \in lsu.callbacks /\ c.reg # r
    BY <1>2
  <2>2. c.uid \notin us
    <3> SUFFICES ASSUME NEW d \in lsu.callbacks, d.reg = r, d.uid = c.uid PROVE FALSE
      OBVIOUS
    <3> QED BY <1>4, <2>1
  <2> HIDE DEF us
  <2>3. \A d \in s.callbacks : d \in lsu.callbacks
    BY <1>2
  <2> QED BY <1>1, <1>2, <1>4, <2>1, <2>2, <2>3
<1> HIDE DEF us
<1>7. /\ HeldInv' /\ RetiredInv' /\ StoresWriteRetired' /\ SpeculationInv'
      /\ lsu'.queue = s.queue
      /\ status' \in Seq(InstStatus) /\ Len(status') = Len(status)
  BY <1>1, <1>2, <1>3, <1>5, <1>6, OperandCheckStep
<1>8. CreditsConserved'
  BY <1>0, <1>2, <1>7 DEF CreditsConserved
<1>9. MessageInv'
  <2>1. DOMAIN to_lsu' = {} /\ DOMAIN acks' = {} /\ Insts' = Insts
    BY DEF Insts
  <2> QED BY <1>0, <1>7, <2>1 DEF MessageInv
<1> QED BY <1>7, <1>8, <1>9 DEF IInv

\* Another unit writes a register.
LEMMA OperandArrivesPreserves ==
    ASSUME IInv, OperandArrives
    PROVE  IInv'
<1>1. PICK i \in DOMAIN program : \E r \in {program[i].src, program[i].data} \ ready :
          r > Len(program) /\ RegisterReady(r)
  BY DEF OperandArrives
<1>2. PICK r : RegisterReady(r)
  BY <1>1
<1> QED BY <1>2, RegisterReadyPreserves DEF OperandArrives, MessagesDone, mmuVars, dcacheVars, envVars

\* A load has written its register.
LEMMA ScoreboardUpdatePreserves ==
    ASSUME IInv, ScoreboardUpdate
    PROVE  IInv'
<1>1. PICK r \in writes : RegisterReady(r)
  BY DEF ScoreboardUpdate
<1> QED BY <1>1, RegisterReadyPreserves DEF ScoreboardUpdate, mmuVars, dcacheVars

\* LSU gets an instruction.
LEMMA LSUReceivesPreserves ==
    ASSUME IInv, LSUReceives
    PROVE  IInv'
<1>0. MessageInv /\ HeldInv /\ Shaped(lsu) /\ CreditsConserved
  BY DEF IInv, HeldInv
<1> DEFINE u == Head(to_lsu)
           a == Asserted(lsu, Cardinality(lsu.queue) < QueueSize)
           s == [a EXCEPT !.queue = @ \cup {u}, !.stores = @ \cup (IF isStore(u) THEN {u} ELSE {})]
           us == {u}
<1>1. /\ lsu' = handleOperandIssueCheck(s, us, ready) /\ status' = Scheduled(Schedulable(us, ready))
      /\ phase = "port" /\ to_lsu # << >> /\ to_lsu' = Tail(to_lsu)
      /\ UNCHANGED <<phase, program, params, pid, mem, mmu_ready, mmu_pending_inst_,
                     cache_pipeline_, lsu_mem_access_info_, ready, next_pid, flushed_by, credits,
                     acks>>
  BY DEF LSUReceives, getInstsFromDispatch, mmuVars, dcacheVars
<1>2. Moves(lsu, a, {})
  BY <1>0, QuietParts
<1>3. a.callbacks = lsu.callbacks /\ a.queue = lsu.queue /\ a.stores = lsu.stores
  BY <1>2 DEF Moves
<1>4. Working(a) = Working(lsu)
  BY <1>0, Fields DEF Working, Asserted, Shaped
<1> HIDE DEF a
<1>5. /\ DOMAIN s = DOMAIN a /\ s.queue = a.queue \cup {u}
      /\ s.stores = a.stores \cup (IF isStore(u) THEN {u} ELSE {})
      /\ s.callbacks = a.callbacks /\ s.ready = a.ready
      /\ s.replay = a.replay /\ s.append = a.append /\ s.pipeline = a.pipeline
      /\ s.replays = a.replays
  BY <1>2, Fields DEF Moves, Shaped
<1> HIDE DEF s
<1>6. Shaped(s) /\ Working(s) = Working(lsu)
  BY <1>2, <1>4, <1>5 DEF Moves, Shaped, Working
<1>7. /\ to_lsu \in Seq(Insts)
      /\ \A k \in DOMAIN to_lsu : /\ status[to_lsu[k]] = "DISPATCHED"
                                  /\ \A j \in 1..k - 1 : to_lsu[j] < to_lsu[k]
                                  /\ \A v \in lsu.queue : v < to_lsu[k]
  BY <1>0 DEF MessageInv
<1>8. /\ Len(to_lsu) \in Nat \ {0} /\ DOMAIN to_lsu = 1..Len(to_lsu) /\ u = to_lsu[1]
      /\ u \in Insts /\ to_lsu' \in Seq(Insts) /\ Len(to_lsu') = Len(to_lsu) - 1
      /\ DOMAIN to_lsu' = 1..(Len(to_lsu) - 1)
      /\ \A k \in 1..(Len(to_lsu) - 1) : to_lsu'[k] = to_lsu[k + 1]
  BY <1>1, <1>7, TailFacts
<1> HIDE DEF u
<1>9. 1 \in DOMAIN to_lsu /\ status[u] = "DISPATCHED" /\ \A v \in lsu.queue : v < u
  BY <1>7, <1>8
<1>10. Insts \subseteq Nat
  BY <1>0, InstFacts
<1>11. u \notin lsu.queue
  BY <1>8, <1>9, <1>10
<1>12. \A c \in lsu.callbacks :
         /\ c.uid \in lsu.queue /\ status[c.uid] = "DISPATCHED" /\ c.reg \notin ready
         /\ ~isStore(c.uid) => c.reg = Inst(c.uid).src
         /\ \A d \in lsu.callbacks : d.uid = c.uid => d.reg = c.reg
  BY <1>0 DEF HeldInv
<1>13. \A c \in s.callbacks :
         /\ c.uid \in s.queue /\ c.uid \notin us /\ status[c.uid] = "DISPATCHED"
         /\ c.reg \notin ready' /\ (~isStore(c.uid) => c.reg = Inst(c.uid).src)
         /\ \A d \in s.callbacks : d.uid = c.uid => d.reg = c.reg
  BY <1>1, <1>3, <1>5, <1>11, <1>12
<1>14. /\ us \subseteq Insts /\ us \subseteq s.queue /\ \A v \in us : status[v] = "DISPATCHED"
       /\ lsu.queue \subseteq s.queue /\ s.queue \subseteq lsu.queue \cup us
       /\ s.stores \subseteq lsu.stores \cup us
       /\ \A w \in s.queue \ lsu.queue : \A v \in lsu.queue : v < w
  BY <1>3, <1>5, <1>8, <1>9
<1> HIDE DEF us
<1>15. /\ HeldInv' /\ RetiredInv' /\ StoresWriteRetired' /\ SpeculationInv'
       /\ lsu'.queue = s.queue
       /\ status' \in Seq(InstStatus) /\ Len(status') = Len(status)
       /\ \A v \in Insts \ us : status'[v] = status[v]
  BY <1>1, <1>6, <1>13, <1>14, OperandCheckStep
<1>16. CreditsConserved'
  <2>1. lsu.queue \subseteq Insts
    BY <1>0 DEF HeldInv
  <2>2. IsFiniteSet(lsu.queue) /\ Cardinality(lsu.queue) \in Nat
    BY <1>0, <2>1, QueueFinite
  <2>3. lsu'.queue = lsu.queue \cup {u}
    BY <1>3, <1>5, <1>15
  <2>4. Cardinality(lsu'.queue) = Cardinality(lsu.queue) + 1
    BY <1>11, <2>2, <2>3, FS_AddElement
  <2>5. credits + Cardinality(lsu.queue) + Len(to_lsu) = QueueSize /\ credits' = credits
    BY <1>0, <1>1 DEF CreditsConserved
  <2>6. credits \in Nat
    BY <1>0 DEF MessageInv
  <2>7. credits' + Cardinality(lsu'.queue) + Len(to_lsu') = QueueSize
    BY <1>8, <2>2, <2>4, <2>5, <2>6
  <2> QED BY <2>7 DEF CreditsConserved
<1>17. MessageInv'
  <2>0. Insts' = Insts
    BY <1>1 DEF Insts
  <2>1. /\ (phase \in {"port", "flush", "tick", "late"})'
        /\ (pid \in Seq(DOMAIN program))' /\ (status \in Seq(InstStatus))' /\ (mem \in Seq(AccessType))'
        /\ (Len(status) = Len(pid))' /\ (Len(mem) = Len(pid))'
        /\ (next_pid \in Nat \ {0} /\ flushed_by \in Nat /\ credits \in Nat)'
    BY <1>0, <1>1, <1>15 DEF MessageInv
  <2>2. (to_lsu \in Seq(Insts) /\ acks \in Seq(Insts))'
    BY <1>0, <1>1, <1>8, <2>0 DEF MessageInv
  <2>3. (to_lsu # << >> => phase \in {"late", "port"})' /\ (acks # << >> => phase # "flush")'
    BY <1>1
  <2>4. \A k \in DOMAIN acks' : (status[acks[k]] = "RETIRED")'
    <3>1. acks \in Seq(Insts) /\ \A k \in DOMAIN acks : status[acks[k]] = "RETIRED"
      BY <1>0 DEF MessageInv
    <3>2. \A k \in DOMAIN acks : acks[k] \in Insts
      BY <3>1, SeqFacts
    <3>3. \A k \in DOMAIN acks : acks[k] \notin us
      BY <1>14, <3>1
    <3> QED BY <1>1, <1>15, <3>1, <3>2, <3>3
  <2>5. ASSUME NEW k \in DOMAIN to_lsu'
        PROVE  /\ status'[to_lsu'[k]] = "DISPATCHED"
               /\ \A j \in 1..k - 1 : to_lsu'[j] < to_lsu'[k]
               /\ \A v \in lsu'.queue : v < to_lsu'[k]
    <3>1. /\ k \in Nat /\ k >= 1 /\ k + 1 \in DOMAIN to_lsu /\ to_lsu'[k] = to_lsu[k + 1]
          /\ \A j \in 1..k - 1 : j + 1 \in 1..(k + 1) - 1 /\ to_lsu'[j] = to_lsu[j + 1]
          /\ 1 \in 1..(k + 1) - 1
      BY <1>8
    <3>2. /\ status[to_lsu[k + 1]] = "DISPATCHED"
          /\ \A j \in 1..(k + 1) - 1 : to_lsu[j] < to_lsu[k + 1]
          /\ \A v \in lsu.queue : v < to_lsu[k + 1]
      BY <1>7, <3>1
    <3>3. u < to_lsu'[k]
      BY <1>8, <3>1, <3>2
    <3>4. to_lsu'[k] \in Insts
      BY <1>8, SeqFacts
    <3>5. to_lsu'[k] \notin us
      BY <1>8, <1>10, <3>3, <3>4 DEF us
    <3>6. \A v \in lsu'.queue : v < to_lsu'[k]
      BY <1>3, <1>5, <1>15, <3>1, <3>2, <3>3
    <3>7. \A j \in 1..k - 1 : to_lsu'[j] < to_lsu'[k]
      BY <3>1, <3>2
    <3>8. status'[to_lsu'[k]] = "DISPATCHED"
      BY <1>15, <3>1, <3>2, <3>4, <3>5
    <3> QED BY <3>6, <3>7, <3>8
  <2>6. \A k \in DOMAIN to_lsu' : (/\ status[to_lsu[k]] = "DISPATCHED"
                                   /\ \A j \in 1..k - 1 : to_lsu[j] < to_lsu[k]
                                   /\ \A v \in lsu.queue : v < to_lsu[k])'
    BY <2>5
  <2> QED BY <2>1, <2>2, <2>3, <2>4, <2>6 DEF MessageInv
<1> QED BY <1>15, <1>16, <1>17 DEF IInv

\* The trace is one of those that are given.
TraceGiven == program \in {s.program : s \in Setups}

\* Hence it is a sequence.
LEMMA TraceIsSeq ==
    ASSUME TraceGiven
    PROVE  Len(program) \in Nat /\ DOMAIN program = 1..Len(program)
<1>1. PICK S : program \in Seq(S)
  BY SetupAssumption DEF TraceGiven
<1> QED BY <1>1, SeqFacts

\* Dispatch sends an instruction.
LEMMA DispatchSendsPreserves ==
    ASSUME TraceGiven, IInv, DispatchSends
    PROVE  IInv'
<1>0. /\ MessageInv /\ HeldInv /\ CreditsConserved /\ RetiredInv /\ StoresWriteRetired
      /\ SpeculationInv
  BY DEF IInv
<1>1. /\ phase = "late" /\ next_pid <= Len(program) /\ credits > 0
      /\ pid' = Append(pid, next_pid) /\ status' = Append(status, "DISPATCHED")
      /\ mem' = Append(mem, NoAccess) /\ to_lsu' = Append(to_lsu, Len(pid'))
      /\ ready' = ready \ {next_pid} /\ next_pid' = next_pid + 1 /\ credits' = credits - 1
      /\ UNCHANGED <<phase, program, params, mmu_ready, mmu_pending_inst_, cache_pipeline_,
                     lsu_mem_access_info_, lsu, flushed_by, acks>>
  BY DEF DispatchSends, mmuVars, dcacheVars
<1>2. /\ pid \in Seq(DOMAIN program) /\ status \in Seq(InstStatus) /\ mem \in Seq(AccessType)
      /\ Len(status) = Len(pid) /\ Len(mem) = Len(pid)
      /\ next_pid \in Nat \ {0} /\ flushed_by \in Nat /\ credits \in Nat
      /\ to_lsu \in Seq(Insts) /\ acks \in Seq(Insts)
      /\ \A k \in DOMAIN acks : status[acks[k]] = "RETIRED"
      /\ \A k \in DOMAIN to_lsu : /\ status[to_lsu[k]] = "DISPATCHED"
                                  /\ \A j \in 1..k - 1 : to_lsu[j] < to_lsu[k]
                                  /\ \A v \in lsu.queue : v < to_lsu[k]
  BY <1>0 DEF MessageInv
<1>3. next_pid \in DOMAIN program /\ "DISPATCHED" \in InstStatus /\ NoAccess \in AccessType
  <2>1. next_pid \in DOMAIN program
    BY <1>1, <1>2, TraceIsSeq
  <2> QED BY <2>1 DEF InstStatus, NoAccess, AccessType
<1> DEFINE n == Len(pid) + 1
<1>4. /\ Len(pid) \in Nat /\ DOMAIN pid = 1..Len(pid) /\ pid' \in Seq(DOMAIN program)
      /\ Len(pid') = n /\ DOMAIN pid' = 1..n
      /\ \A k \in 1..Len(pid) : pid'[k] = pid[k]
  BY <1>1, <1>2, <1>3, AppendFacts
<1>5. /\ status' \in Seq(InstStatus) /\ Len(status') = n
      /\ \A k \in 1..Len(pid) : status'[k] = status[k]
      /\ status'[n] = "DISPATCHED"
  BY <1>1, <1>2, <1>3, AppendFacts
<1>6. /\ mem' \in Seq(AccessType) /\ Len(mem') = n
      /\ \A k \in 1..Len(pid) : mem'[k] = mem[k]
      /\ mem'[n] = NoAccess
  BY <1>1, <1>2, <1>3, AppendFacts
<1>7. /\ Insts = 1..Len(pid) /\ Insts' = 1..n /\ n \in Nat /\ n \in Insts' /\ Insts \subseteq Insts'
      /\ n \notin Insts /\ \A u \in Insts' : u \in Insts \/ u = n
      /\ \A u \in Insts : u \in Nat /\ u < n
  BY <1>4 DEF Insts
<1>8. \A u \in Insts : /\ pid'[u] = pid[u] /\ status'[u] = status[u] /\ mem'[u] = mem[u]
                       /\ isStore(u)' = isStore(u) /\ Inst(u)' = Inst(u)
  BY <1>1, <1>4, <1>5, <1>6, <1>7 DEF isStore, Inst
<1>9. /\ InCache' = InCache /\ Working(lsu)' = Working(lsu) /\ lsu' = lsu
      /\ lsu.queue \subseteq Insts
  BY <1>0, <1>1 DEF InCache, Working, HeldInv
<1>10. to_lsu' = Append(to_lsu, n)
  BY <1>1, <1>4
<1>11. /\ to_lsu \in Seq(Insts') /\ acks \in Seq(Insts')
       /\ \A k \in DOMAIN to_lsu : to_lsu[k] \in Insts
       /\ \A k \in DOMAIN acks : acks[k] \in Insts
  <2>1. /\ \A k \in DOMAIN to_lsu : to_lsu[k] \in Insts
        /\ \A k \in DOMAIN acks : acks[k] \in Insts
    BY <1>2, SeqFacts
  <2>2. Seq(Insts) \subseteq Seq(Insts')
    BY <1>7
  <2> QED BY <1>2, <2>1, <2>2
<1> HIDE DEF n
<1>12. /\ Len(to_lsu) \in Nat /\ DOMAIN to_lsu = 1..Len(to_lsu)
       /\ to_lsu' \in Seq(Insts') /\ Len(to_lsu') = Len(to_lsu) + 1
       /\ DOMAIN to_lsu' = 1..(Len(to_lsu) + 1)
       /\ \A k \in 1..Len(to_lsu) : to_lsu'[k] = to_lsu[k]
       /\ to_lsu'[Len(to_lsu) + 1] = n
  BY <1>7, <1>10, <1>11, AppendFacts
<1>13. MessageInv'
  <2>1. /\ (phase \in {"port", "flush", "tick", "late"})'
        /\ (pid \in Seq(DOMAIN program))' /\ (status \in Seq(InstStatus))' /\ (mem \in Seq(AccessType))'
        /\ (Len(status) = Len(pid))' /\ (Len(mem) = Len(pid))'
        /\ (next_pid \in Nat \ {0} /\ flushed_by \in Nat /\ credits \in Nat)'
    BY <1>0, <1>1, <1>2, <1>4, <1>5, <1>6
  <2>2. (to_lsu \in Seq(Insts) /\ acks \in Seq(Insts))'
    BY <1>1, <1>11, <1>12
  <2>3. (to_lsu # << >> => phase \in {"late", "port"})' /\ (acks # << >> => phase # "flush")'
    BY <1>1
  <2>4. \A k \in DOMAIN acks' : (status[acks[k]] = "RETIRED")'
    BY <1>1, <1>2, <1>8, <1>11
  <2>5. ASSUME NEW k \in DOMAIN to_lsu'
        PROVE  /\ status'[to_lsu'[k]] = "DISPATCHED"
               /\ \A j \in 1..k - 1 : to_lsu'[j] < to_lsu'[k]
               /\ \A v \in lsu'.queue : v < to_lsu'[k]
    <3>1. k \in Nat /\ (k \in DOMAIN to_lsu \/ k = Len(to_lsu) + 1)
      BY <1>12
    <3>2. CASE k \in DOMAIN to_lsu
      <4>1. \A j \in 1..k - 1 : j \in 1..Len(to_lsu) /\ to_lsu'[j] = to_lsu[j]
        BY <1>12, <3>2
      <4>2. to_lsu'[k] = to_lsu[k] /\ to_lsu[k] \in Insts
        BY <1>11, <1>12, <3>2
      <4>3. status'[to_lsu[k]] = "DISPATCHED"
        BY <1>2, <1>8, <3>2, <4>2
      <4> QED BY <1>2, <1>9, <3>2, <4>1, <4>2, <4>3
    <3>3. CASE k = Len(to_lsu) + 1
      <4>1. \A j \in 1..k - 1 : j \in DOMAIN to_lsu /\ to_lsu'[j] = to_lsu[j]
        BY <1>12, <3>3
      <4>2. to_lsu'[k] = n
        BY <1>12, <3>3
      <4> QED BY <1>5, <1>7, <1>9, <1>11, <4>1, <4>2
    <3> QED BY <3>1, <3>2, <3>3
  <2>6. \A k \in DOMAIN to_lsu' : (/\ status[to_lsu[k]] = "DISPATCHED"
                                   /\ \A j \in 1..k - 1 : to_lsu[j] < to_lsu[k]
                                   /\ \A v \in lsu.queue : v < to_lsu[k])'
    BY <2>5
  <2> QED BY <2>1, <2>2, <2>3, <2>4, <2>6 DEF MessageInv
<1>14. HeldInv'
  <2>1. (Shaped(lsu) /\ DOMAIN cache_pipeline_ = {"LOOKUP", "DATA_READ"})'
    BY <1>0, <1>1 DEF HeldInv, Shaped
  <2>2. \A u \in (lsu.queue \cup lsu.stores)' : (u \in Insts /\ status[u] # "FLUSHED")'
    BY <1>0, <1>7, <1>8, <1>9 DEF HeldInv
  <2>3. \A u \in Working(lsu)' : (u \in Insts /\ status[u] \notin {"DISPATCHED", "FLUSHED"})'
    BY <1>0, <1>7, <1>8, <1>9 DEF HeldInv
  <2>4. \A u \in ((InCache \cup mmu_ready \cup {mmu_pending_inst_}) \ {0})' :
            (u \in Insts /\ status[u] # "DISPATCHED")'
    BY <1>0, <1>1, <1>7, <1>8, <1>9 DEF HeldInv
  <2>5. \A u \in Insts' : (status[u] = "SCHEDULED" => u \in lsu.queue)'
    BY <1>0, <1>5, <1>7, <1>8, <1>9 DEF HeldInv
  <2>6. ASSUME NEW c \in lsu.callbacks'
        PROVE  (/\ c.uid \in lsu.queue /\ status[c.uid] = "DISPATCHED" /\ c.reg \notin ready
                /\ ~isStore(c.uid) => c.reg = Inst(c.uid).src
                /\ \A d \in lsu.callbacks : d.uid = c.uid => d.reg = c.reg)'
    <3>1. /\ c.uid \in lsu.queue /\ status[c.uid] = "DISPATCHED" /\ c.reg \notin ready
          /\ ~isStore(c.uid) => c.reg = Inst(c.uid).src
          /\ \A d \in lsu.callbacks : d.uid = c.uid => d.reg = c.reg
      BY <1>0, <1>9 DEF HeldInv
    <3>2. c.uid \in Insts
      BY <1>9, <3>1
    <3> QED BY <1>1, <1>8, <3>1, <3>2
  <2> QED BY <2>1, <2>2, <2>3, <2>4, <2>5, <2>6 DEF HeldInv
<1>15. CreditsConserved'
  <2>1. Cardinality(lsu.queue) \in Nat
    BY <1>0, <1>9, QueueFinite
  <2>2. credits + Cardinality(lsu.queue) + Len(to_lsu) = QueueSize
    BY <1>0 DEF CreditsConserved
  <2>3. credits' + Cardinality(lsu.queue) + Len(to_lsu') = QueueSize
    BY <1>1, <1>2, <1>12, <2>1, <2>2
  <2> QED BY <1>9, <2>3 DEF CreditsConserved
<1>16. RetiredInv'
  BY <1>0, <1>1, <1>5, <1>7, <1>8 DEF RetiredInv
<1>17. StoresWriteRetired'
  <2>1. \A v \in InCache \ {0} : v \in Insts /\ (isStore(v) => status[v] = "RETIRED")
    BY <1>0 DEF StoresWriteRetired, HeldInv
  <2> QED BY <1>8, <1>9, <2>1 DEF StoresWriteRetired
<1>18. SpeculationInv'
  <2>1. \A u \in Insts' : (status[u] = "DISPATCHED" => mem[u] = NoAccess)'
    <3> SUFFICES ASSUME NEW u \in Insts', status'[u] = "DISPATCHED" PROVE mem'[u] = NoAccess
      BY DEF NoAccess
    <3>1. CASE u \in Insts
      BY <1>0, <1>8, <3>1 DEF SpeculationInv
    <3>2. CASE u = n
      BY <1>6, <3>2
    <3> QED BY <1>7, <3>1, <3>2
  <2>2. ASSUME allow_speculative_load_exec_', NEW u \in lsu'.queue,
               ~isStore(u)', (mem[u].data \/ mem[u].cache # "NO_ACCESS" \/ u \in InCache)'
        PROVE  allOlderStoresIssued(u)'
    <3>1. u \in lsu.queue /\ u \in Insts
      BY <1>9
    <3>2. allow_speculative_load_exec_ /\ ~isStore(u)
          /\ (mem[u].data \/ mem[u].cache # "NO_ACCESS" \/ u \in InCache)
      BY <1>1, <1>8, <1>9, <2>2, <3>1 DEF params
    <3>3. allOlderStoresIssued(u)
      BY <1>0, <3>1, <3>2 DEF SpeculationInv
    <3> QED BY <1>8, <1>9, <3>3 DEF allOlderStoresIssued
  <2> QED BY <2>1, <2>2 DEF SpeculationInv
<1> QED BY <1>13, <1>14, <1>15, <1>16, <1>17, <1>18 DEF IInv

\* A flush.
LEMMA FlushPreserves ==
    ASSUME TraceGiven, IInv, Flush
    PROVE  IInv'
<1>0. /\ MessageInv /\ HeldInv /\ CreditsConserved /\ RetiredInv /\ StoresWriteRetired
      /\ SpeculationInv /\ Shaped(lsu)
  BY DEF IInv, HeldInv
<1>1. PICK b \in flushed_by + 1..next_pid - 1 :
         LET us == {u \in Live : pid[u] >= b}
         IN  /\ program[b].branch
             /\ lsu' = handleFlush(lsu, us)
             /\ status' = [u \in Insts |-> IF u \in us THEN "FLUSHED" ELSE status[u]]
             /\ credits' = credits + Cardinality(lsu.queue \ lsu'.queue)
             /\ next_pid' = b /\ flushed_by' = b
  BY DEF Flush
<1> DEFINE us == {u \in Live : pid[u] >= b}
<1>2. /\ phase = "flush" /\ program[b].branch /\ lsu' = handleFlush(lsu, us)
      /\ status' = [u \in Insts |-> IF u \in us THEN "FLUSHED" ELSE status[u]]
      /\ credits' = credits + Cardinality(lsu.queue \ lsu'.queue)
      /\ next_pid' = b /\ flushed_by' = b
      /\ UNCHANGED <<phase, program, params, pid, mem, mmu_ready, mmu_pending_inst_,
                     cache_pipeline_, lsu_mem_access_info_, ready, to_lsu, acks>>
  BY <1>1 DEF Flush, mmuVars, dcacheVars
<1>3. next_pid \in Nat \ {0} /\ flushed_by \in Nat /\ credits \in Nat
  BY <1>0 DEF MessageInv
<1>4. b \in Nat \ {0} /\ b > flushed_by
  BY <1>3
<1>5. /\ Len(pid) \in Nat /\ Insts = 1..Len(pid) /\ Insts \subseteq Nat
      /\ \A u \in Insts : status[u] \in InstStatus /\ pid[u] \in DOMAIN program
  BY <1>0, InstFacts
<1>6. \A u \in Insts : pid[u] \in Nat
  BY <1>5, TraceIsSeq
<1>7. \A u \in us : u \in Insts /\ pid[u] >= b
  BY DEF Live
<1> HIDE DEF us
<1>8. \A u \in Insts : status'[u] = IF u \in us THEN "FLUSHED" ELSE status[u]
  BY <1>2
<1>9. status' \in Seq(InstStatus) /\ Len(status') = Len(pid)
  <2>1. status' \in [1..Len(pid) -> InstStatus]
    BY <1>2, <1>5 DEF InstStatus
  <2> QED BY <1>5, <2>1, FunIsSeq
<1>10. /\ Shaped(lsu') /\ lsu'.queue = lsu.queue \ us /\ lsu'.stores = lsu.stores \ us
       /\ lsu'.callbacks = {c \in lsu.callbacks : c.uid \notin us \cap lsu.queue}
       /\ Working(lsu') \subseteq Working(lsu) \ us
  BY <1>0, <1>2, FlushDoes
<1>11. /\ Insts' = Insts /\ InCache' = InCache
       /\ \A u : isStore(u)' = isStore(u) /\ Inst(u)' = Inst(u)
  BY <1>2 DEF Insts, InCache, isStore, Inst
<1>12. lsu.queue \cup lsu.stores \cup Working(lsu) \subseteq Insts
  BY <1>0 DEF HeldInv
<1>13. MessageInv'
  <2>1. to_lsu = << >> /\ acks = << >>
    BY <1>0, <1>2 DEF MessageInv
  <2>2. DOMAIN to_lsu' = {} /\ DOMAIN acks' = {}
    BY <1>2, <2>1
  <2>3. lsu.queue \ lsu'.queue \subseteq Insts
    BY <1>12
  <2>4. Cardinality(lsu.queue \ lsu'.queue) \in Nat
    BY <1>0, <2>3, QueueFinite
  <2>5. credits' \in Nat
    BY <1>2, <1>3, <2>4
  <2>6. /\ (phase \in {"port", "flush", "tick", "late"})'
        /\ (pid \in Seq(DOMAIN program))' /\ (status \in Seq(InstStatus))' /\ (mem \in Seq(AccessType))'
        /\ (Len(status) = Len(pid))' /\ (Len(mem) = Len(pid))'
        /\ (next_pid \in Nat \ {0} /\ flushed_by \in Nat)'
        /\ (to_lsu \in Seq(Insts) /\ acks \in Seq(Insts))'
    BY <1>0, <1>2, <1>4, <1>9, <1>11 DEF MessageInv
  <2> QED BY <1>2, <2>1, <2>2, <2>5, <2>6 DEF MessageInv
<1>14. HeldInv'
  <2>1. (Shaped(lsu) /\ DOMAIN cache_pipeline_ = {"LOOKUP", "DATA_READ"})'
    BY <1>0, <1>2, <1>10 DEF HeldInv
  <2>2. \A u \in (lsu.queue \cup lsu.stores)' : (u \in Insts /\ status[u] # "FLUSHED")'
    BY <1>0, <1>8, <1>10, <1>11, <1>12 DEF HeldInv
  <2>3. \A u \in Working(lsu)' : (u \in Insts /\ status[u] \notin {"DISPATCHED", "FLUSHED"})'
    BY <1>0, <1>8, <1>10, <1>11, <1>12 DEF HeldInv
  <2>4. \A u \in ((InCache \cup mmu_ready \cup {mmu_pending_inst_}) \ {0})' :
            (u \in Insts /\ status[u] # "DISPATCHED")'
    BY <1>0, <1>2, <1>8, <1>11 DEF HeldInv
  <2>5. \A u \in Insts' : (status[u] = "SCHEDULED" => u \in lsu.queue)'
    BY <1>0, <1>8, <1>10, <1>11 DEF HeldInv
  <2>6. ASSUME NEW c \in lsu'.callbacks
        PROVE  (/\ c.uid \in lsu.queue /\ status[c.uid] = "DISPATCHED" /\ c.reg \notin ready
                /\ ~isStore(c.uid) => c.reg = Inst(c.uid).src
                /\ \A d \in lsu.callbacks : d.uid = c.uid => d.reg = c.reg)'
    <3>0. c \in lsu.callbacks
      BY <1>10
    <3>1. /\ c.uid \in lsu.queue /\ status[c.uid] = "DISPATCHED" /\ c.reg \notin ready
          /\ ~isStore(c.uid) => c.reg = Inst(c.uid).src
          /\ \A d \in lsu.callbacks : d.uid = c.uid => d.reg = c.reg
      BY <1>0, <3>0 DEF HeldInv
    <3>2. c.uid \in Insts /\ c.uid \notin us
      BY <1>10, <1>12, <3>1
    <3> QED BY <1>2, <1>8, <1>10, <1>11, <3>1, <3>2
  <2> QED BY <2>1, <2>2, <2>3, <2>4, <2>5, <2>6 DEF HeldInv
<1>15. CreditsConserved'
  <2>1. IsFiniteSet(lsu.queue) /\ Cardinality(lsu.queue) \in Nat
    BY <1>0, <1>12, QueueFinite
  <2>2. Cardinality(lsu.queue \ us) = Cardinality(lsu.queue) - Cardinality(lsu.queue \cap us)
    BY <2>1, FS_Difference
  <2>3. lsu.queue \ lsu'.queue = lsu.queue \cap us
    BY <1>10
  <2>4. Cardinality(lsu.queue \ lsu'.queue) = Cardinality(lsu.queue \cap us)
    BY <2>3
  <2>5. Cardinality(lsu'.queue) = Cardinality(lsu.queue) - Cardinality(lsu.queue \cap us)
    BY <1>10, <2>2
  <2>6. lsu.queue \cap us \subseteq Insts
    BY <1>12
  <2>7. Cardinality(lsu.queue \cap us) \in Nat
    BY <1>0, <2>6, QueueFinite
  <2>8. credits + Cardinality(lsu.queue) + Len(to_lsu) = QueueSize /\ Len(to_lsu') = Len(to_lsu)
    BY <1>0, <1>2 DEF CreditsConserved
  <2>9. Len(to_lsu) \in Nat
    BY <1>0, SeqFacts DEF MessageInv
  <2>10. credits' + Cardinality(lsu'.queue) + Len(to_lsu') = QueueSize
    BY <1>2, <1>3, <2>1, <2>4, <2>5, <2>7, <2>8, <2>9
  <2> QED BY <2>10 DEF CreditsConserved
<1>16. \A u \in Insts : status[u] = "RETIRED" => u \notin us
  <2> SUFFICES ASSUME NEW u \in Insts, status[u] = "RETIRED", u \in us PROVE FALSE
    OBVIOUS
  <2>1. \A x \in flushed_by + 1..pid[u] : ~program[x].branch
    BY <1>0 DEF RetiredInv
  <2>2. b \in flushed_by + 1..pid[u]
    BY <1>3, <1>4, <1>6, <1>7
  <2> QED BY <1>2, <2>1, <2>2
<1>17. RetiredInv'
  <2> SUFFICES ASSUME NEW u \in Insts, status'[u] = "RETIRED", NEW x \in b + 1..pid[u]
               PROVE  ~program[x].branch
    BY <1>2, <1>11 DEF RetiredInv
  <2>1. status[u] = "RETIRED"
    BY <1>8
  <2>2. x \in flushed_by + 1..pid[u]
    BY <1>3, <1>4, <1>6
  <2> QED BY <1>0, <2>1, <2>2 DEF RetiredInv
<1>18. StoresWriteRetired'
  <2>1. \A v \in InCache \ {0} : v \in Insts /\ (isStore(v) => status[v] = "RETIRED")
    BY <1>0 DEF StoresWriteRetired, HeldInv
  <2> QED BY <1>8, <1>11, <1>16, <2>1 DEF StoresWriteRetired
<1>19. SpeculationInv'
  <2>1. \A u \in Insts' : (status[u] = "DISPATCHED" => mem[u] = NoAccess)'
    BY <1>0, <1>2, <1>8, <1>11 DEF SpeculationInv, NoAccess
  <2>2. ASSUME allow_speculative_load_exec_', NEW u \in lsu'.queue,
               ~isStore(u)', (mem[u].data \/ mem[u].cache # "NO_ACCESS" \/ u \in InCache)'
        PROVE  allOlderStoresIssued(u)'
    <3>1. u \in lsu.queue
      BY <1>10
    <3>2. allow_speculative_load_exec_ /\ ~isStore(u)
          /\ (mem[u].data \/ mem[u].cache # "NO_ACCESS" \/ u \in InCache)
      BY <1>2, <1>11, <2>2 DEF params
    <3>3. allOlderStoresIssued(u)
      BY <1>0, <3>1, <3>2 DEF SpeculationInv
    <3> QED BY <1>2, <1>10, <1>11, <3>3 DEF allOlderStoresIssued
  <2> QED BY <2>1, <2>2 DEF SpeculationInv
<1> QED BY <1>13, <1>14, <1>15, <1>17, <1>18, <1>19 DEF IInv

-----------------------------------------------------------------------------
(* The theorems.                                                           *)

\* It holds at the beginning.
LEMMA InitIInv ==
    ASSUME Init
    PROVE  TraceGiven /\ IInv
<1> USE DEF Init
<1>0. TraceGiven
  BY DEF TraceGiven
<1>1. Insts = {} /\ DOMAIN status = {} /\ DOMAIN mem = {} /\ DOMAIN to_lsu = {} /\ DOMAIN acks = {}
  BY DEF Insts
<1>2. /\ lsu.queue = {} /\ lsu.stores = {} /\ lsu.ready = {} /\ lsu.replay = {} /\ lsu.append = {}
      /\ lsu.replays = {} /\ lsu.callbacks = {} /\ lsu.pipeline = [st \in Stages |-> 0]
      /\ DOMAIN lsu = DOMAIN IdleLSU
  BY DEF IdleLSU
<1>3. Shaped(lsu)
  BY <1>2 DEF Shaped
<1>4. Working(lsu) = {}
  BY <1>2, <1>3, WorkingIs
<1>5. InCache \subseteq {0}
  BY DEF InCache, Empty
<1>6. QueueSize \in Nat /\ Cardinality({}) = 0
  BY LSUAssumption, FS_EmptySet
<1>7. MessageInv
  <2>1. /\ pid \in Seq(DOMAIN program) /\ status \in Seq(InstStatus) /\ mem \in Seq(AccessType)
        /\ to_lsu \in Seq(Insts) /\ acks \in Seq(Insts)
    OBVIOUS
  <2> QED BY <1>1, <1>6, <2>1 DEF MessageInv
<1>8. HeldInv
  BY <1>1, <1>2, <1>3, <1>4, <1>5 DEF HeldInv
<1>9. CreditsConserved
  <2>1. Len(to_lsu) = 0 /\ Cardinality(lsu.queue) = 0 /\ credits = QueueSize
    BY <1>2, <1>6
  <2> QED BY <1>6, <2>1 DEF CreditsConserved
<1>10. RetiredInv /\ StoresWriteRetired /\ SpeculationInv
  BY <1>1, <1>2, <1>5 DEF RetiredInv, StoresWriteRetired, SpeculationInv
<1> QED BY <1>0, <1>7, <1>8, <1>9, <1>10 DEF IInv

\* The trace does not change.
LEMMA TraceStays ==
    ASSUME [Next]_vars
    PROVE  program' = program
<1>1. CASE Messages
  BY <1>1 DEF Messages, LSUReceives, LSUGetsAck, LSUGetsTranslation, ScoreboardUpdate
<1>2. CASE LSUSteps
  BY <1>2 DEF LSUSteps, CalculatesAddress, LooksUpMMU, LooksUpCache, ReadsCache, Completes,
              AtStage, AppendsReady, ReplaysReady, Issues
<1>3. CASE OtherSteps
  BY <1>3 DEF OtherSteps, MMULoadsEntry, CacheLooksUp, CacheReads, AtCacheStage, CacheAsksL2,
              CacheArbitrates
<1>4. CASE \/ nextPhase \/ DispatchSends \/ OperandArrives \/ Retire \/ Flush \/ L2Responds
           \/ L2CopiesRequest
  BY <1>4 DEF nextPhase, DispatchSends, OperandArrives, Retire, Flush, L2Responds, L2CopiesRequest
<1>5. CASE UNCHANGED vars
  BY <1>5 DEF vars
<1> QED BY <1>1, <1>2, <1>3, <1>4, <1>5 DEF Next

\* Every step keeps it.
LEMMA NextIInv ==
    ASSUME TraceGiven, IInv, [Next]_vars
    PROVE  IInv'
<1>1. CASE Messages
  BY <1>1, LSUReceivesPreserves, LSUGetsAckPreserves, LSUGetsTranslationPreserves,
     ScoreboardUpdatePreserves DEF Messages
<1>2. CASE LSUSteps
  BY <1>2, CalculatesAddressPreserves, LooksUpMMUPreserves, LooksUpCachePreserves,
     ReadsCachePreserves, CompletesPreserves, AppendsReadyPreserves, ReplaysReadyPreserves,
     IssuesPreserves DEF LSUSteps
<1>3. CASE OtherSteps
  BY <1>3, MMULoadsEntryPreserves, CacheLooksUpPreserves, CacheReadsPreserves,
     CacheAsksL2Preserves, CacheArbitratesPreserves DEF OtherSteps
<1>4. CASE nextPhase \/ DispatchSends \/ OperandArrives \/ Retire \/ Flush \/ L2Responds
  BY <1>4, NextPhasePreserves, DispatchSendsPreserves, OperandArrivesPreserves, RetirePreserves,
     FlushPreserves, CacheAsksL2Preserves
<1>5. CASE UNCHANGED vars \/ L2CopiesRequest
  <2>1. Shaped(lsu)
    BY DEF IInv, HeldInv
  <2>2. Moves(lsu, lsu', {})
    BY <1>5, <2>1, MovesNot DEF vars, L2CopiesRequest
  <2>3. /\ UNCHANGED <<program, params, instVars, ready, to_lsu, next_pid, flushed_by, credits>>
        /\ UNCHANGED <<phase, acks>>
        /\ UNCHANGED <<lsu_mem_access_info_, cache_pipeline_, mmu_ready, mmu_pending_inst_>>
    BY <1>5 DEF vars, L2CopiesRequest, createReq, envVars, mmuVars, dcacheVars
  <2>4. Fewer
    BY <2>3, NothingOutside
  <2> QED BY <2>2, <2>3, <2>4, QuietStep
<1> QED BY <1>1, <1>2, <1>3, <1>4, <1>5 DEF Next

\* The inductive invariant of LSU, MMU and DCache, for every trace, mode and size: what is
\* said of messages, of what is held, retired and speculated holds in every state.
THEOREM LoadStoreInvariant == Spec => [](TraceGiven /\ IInv)
<1>1. Init => TraceGiven /\ IInv
  BY InitIInv
<1>2. TraceGiven /\ IInv /\ [Next]_vars => TraceGiven' /\ IInv'
  BY TraceStays, NextIInv DEF TraceGiven
<1> QED BY <1>1, <1>2, PTL DEF Spec

\* Whatever LSU holds has not been flushed.
LEMMA HeldNotFlushed ==
    ASSUME IInv
    PROVE  FlushedGone
<1>0. HeldInv
  BY DEF IInv
<1> SUFFICES ASSUME NEW u \in Held PROVE status[u] # "FLUSHED"
  BY DEF FlushedGone
<1>1. u \in lsu.queue \cup lsu.stores \/ u \in Working(lsu) \/ \E c \in lsu.callbacks : u = c.uid
  BY DEF Held, Working
<1> QED BY <1>0, <1>1 DEF HeldInv

\* LSU's queue is exact (LSU::completeInst_, flushIssueQueue_, sendInitialCredits_): in every
\* state credits, entries and instructions on their way add up to the size of the queue,
\* and nothing that has been flushed is in a buffer, a stage, an event or a callback.
THEOREM EntriesAreExact == Spec => []EntriesExact
<1>1. TraceGiven /\ IInv => EntriesExact
  BY HeldNotFlushed DEF EntriesExact, IInv
<1> QED BY <1>1, LoadStoreInvariant, PTL

-----------------------------------------------------------------------------
(* What AssertionsHold and NobodyForgotten need to be inductive.           *)

\* The ready queue and the replay buffer share nothing, and an issue event finds an
\* instruction and room for it.
Orderly(s) ==
    /\ s.ready \cap s.replay = {}
    /\ ~allow_speculative_load_exec_ => s.replay = {}
    /\ IsFiniteSet(s.replay) /\ Cardinality(s.replay) <= ReplayBufferSize
    /\ s.issue \subseteq {0, 1} /\ (s.issue # {} => isReadyToIssueInsts(s))
    /\ \A e \in s.replays : e.due \in 0..ReplayIssueDelay

InStage(s, u) == \E st \in Stages : s.pipeline[st] = u

\* What brings an instruction on that is in no stage.
Queued(s, u) == \/ u \in s.ready \/ u \in s.append
                \/ (\E e \in s.replays : e.uid = u) \/ (\E c \in s.callbacks : c.uid = u)

Kept(s, u) == InStage(s, u) \/ (u \notin s.replay /\ Queued(s, u))

\* From s to t no assertion fails, nothing issues, and no instruction outside X is lost.
Keeps(s, t, X) ==
    /\ Shaped(t) /\ Orderly(t) /\ (s.ok => t.ok)
    /\ s.ready \subseteq t.ready /\ t.replay \subseteq s.replay
    /\ t.issue \subseteq s.issue \cup {0}
    /\ \A st \in Stages : t.pipeline[st] = s.pipeline[st] \/ t.pipeline[st] = 0
    /\ \A v : Kept(s, v) /\ v \notin X => Kept(t, v)

\* Fewer instructions are in the replay buffer.
LEMMA ReplayShrinks ==
    ASSUME NEW S, NEW T, IsFiniteSet(S), T \subseteq S
    PROVE  IsFiniteSet(T) /\ Cardinality(T) \in Nat /\ Cardinality(S) \in Nat
           /\ Cardinality(T) <= Cardinality(S)
  BY FS_Subset, FS_CardinalityType

\* Keeping twice is keeping.
LEMMA KeepsTwice ==
    ASSUME NEW s, NEW t, NEW r, NEW X, NEW Y, Keeps(s, t, X), Keeps(t, r, Y)
    PROVE  Keeps(s, r, X \cup Y)
<1>1. \A st \in Stages : r.pipeline[st] = s.pipeline[st] \/ r.pipeline[st] = 0
  BY DEF Keeps
<1>2. \A v : Kept(s, v) /\ v \notin X \cup Y => Kept(r, v)
  BY DEF Keeps
<1> QED
  BY <1>1, <1>2 DEF Keeps

\* Keeping without exceptions.
LEMMA KeepsOn ==
    ASSUME NEW s, NEW t, NEW r, Keeps(s, t, {}), Keeps(t, r, {})
    PROVE  Keeps(s, r, {})
  BY KeepsTwice, {} \cup {} = {}

\* Nothing happens.
LEMMA KeepsSame ==
    ASSUME NEW s, Shaped(s), Orderly(s), NEW X
    PROVE  Keeps(s, s, X)
  BY DEF Keeps

\* Everything stays where it is, but for more in the ready queue and the events and less
\* in the replay buffer.
LEMMA KeepsMore ==
    ASSUME NEW s, Shaped(s), Orderly(s), NEW t, DOMAIN t = DOMAIN s,
           s.ready \subseteq t.ready, t.replay \subseteq s.replay, t.ready \cap t.replay = {},
           t.pipeline = s.pipeline, t.issue = s.issue, s.ok => t.ok,
           s.append \subseteq t.append, s.callbacks \subseteq t.callbacks,
           s.replays \subseteq t.replays,
           \A e \in t.replays : DOMAIN e = {"uid", "due"} /\ e.due \in 0..ReplayIssueDelay
    PROVE  Keeps(s, t, {})
<1>1. Shaped(t)
  BY DEF Shaped
<1>2. /\ IsFiniteSet(t.replay) /\ Cardinality(t.replay) \in Nat /\ Cardinality(s.replay) \in Nat
      /\ Cardinality(t.replay) <= Cardinality(s.replay)
  BY ReplayShrinks DEF Orderly
<1>3. ReplayBufferSize \in Nat
  BY LSUAssumption
<1>4. isReadyToIssueInsts(s) => isReadyToIssueInsts(t)
  BY <1>2, <1>3 DEF isReadyToIssueInsts, ReplayFull
<1>5. Orderly(t)
  BY <1>2, <1>3, <1>4 DEF Orderly
<1>6. \A v : Kept(s, v) => Kept(t, v)
  BY DEF Kept, InStage, Queued
<1> QED
  BY <1>1, <1>5, <1>6 DEF Keeps

\* An issue event is scheduled if it will find something.
LEMMA ScheduleKeeps ==
    ASSUME NEW s, Shaped(s), Orderly(s)
    PROVE  Keeps(s, ScheduleIssue(s), {})
<1> USE Fields
<1>1. CASE ~isReadyToIssueInsts(s)
  BY <1>1, KeepsSame DEF ScheduleIssue
<1>2. CASE isReadyToIssueInsts(s)
  <2> DEFINE t == [s EXCEPT !.issue = @ \cup {0}]
  <2>1. /\ DOMAIN t = DOMAIN s /\ t.queue = s.queue /\ t.stores = s.stores
        /\ t.callbacks = s.callbacks /\ t.ready = s.ready /\ t.replay = s.replay
        /\ t.append = s.append /\ t.pipeline = s.pipeline /\ t.replays = s.replays
        /\ t.ok = s.ok /\ t.issue = s.issue \cup {0}
    BY DEF Shaped
  <2>2. ScheduleIssue(s) = t
    BY <1>2 DEF ScheduleIssue
  <2> HIDE DEF t
  <2>3. Shaped(t)
    BY <2>1 DEF Shaped
  <2>4. Orderly(t)
    BY <1>2, <2>1 DEF Orderly, isReadyToIssueInsts, ReplayFull
  <2>5. \A v : Kept(s, v) => Kept(t, v)
    BY <2>1 DEF Kept, InStage, Queued
  <2> QED
    BY <2>1, <2>2, <2>3, <2>4, <2>5 DEF Keeps
<1> QED
  BY <1>1, <1>2

\* Instructions that are in neither queue become ready.
LEMMA AppendKeeps ==
    ASSUME NEW s, Shaped(s), Orderly(s), NEW us, us \cap (s.ready \cup s.replay) = {}
    PROVE  /\ Keeps(s, appendToReadyQueue(s, us), {})
           /\ us \subseteq appendToReadyQueue(s, us).ready
<1> USE Fields
<1> DEFINE t == appendToReadyQueue(s, us)
<1>1. /\ DOMAIN t = DOMAIN s /\ t.callbacks = s.callbacks /\ t.ready = s.ready \cup us
      /\ t.replay = s.replay /\ t.issue = s.issue
      /\ t.append = s.append /\ t.pipeline = s.pipeline /\ t.replays = s.replays
  BY DEF appendToReadyQueue, Asserted, Shaped
<1>2. t.ok = (s.ok /\ us \cap s.ready = {})
  BY DEF appendToReadyQueue, Asserted, Shaped
<1> HIDE DEF t
<1>3. us \cap s.ready = {} /\ t.ready \cap t.replay = {}
  BY <1>1 DEF Orderly
<1>4. s.ok => t.ok
  BY <1>2, <1>3
<1>5. \A e \in t.replays : DOMAIN e = {"uid", "due"} /\ e.due \in 0..ReplayIssueDelay
  BY <1>1 DEF Orderly, Shaped
<1>6. Keeps(s, t, {})
  BY <1>1, <1>3, <1>4, <1>5, KeepsMore
<1> QED
  BY <1>1, <1>6 DEF t

\* Instructions leave the replay buffer; an event is to come; an assertion is true.
LEMMA PartsKeep ==
    ASSUME NEW s, Shaped(s), Orderly(s)
    PROVE  /\ \A us : Keeps(s, removeInstFromReplayQueue(s, us), {})
           /\ \A us : Keeps(s, [s EXCEPT !.append = @ \cup us], {})
           /\ \A c : c => Keeps(s, Asserted(s, c), {})
<1> USE Fields
<1>0. \A e \in s.replays : DOMAIN e = {"uid", "due"} /\ e.due \in 0..ReplayIssueDelay
  BY DEF Orderly, Shaped
<1>1. ASSUME NEW us PROVE Keeps(s, removeInstFromReplayQueue(s, us), {})
  <2> DEFINE t == removeInstFromReplayQueue(s, us)
  <2>1. /\ DOMAIN t = DOMAIN s /\ t.callbacks = s.callbacks /\ t.ready = s.ready
        /\ t.replay = s.replay \ us /\ t.issue = s.issue /\ t.ok = s.ok
        /\ t.append = s.append /\ t.pipeline = s.pipeline /\ t.replays = s.replays
    BY DEF removeInstFromReplayQueue, Shaped
  <2> HIDE DEF t
  <2>2. t.ready \cap t.replay = {}
    BY <2>1 DEF Orderly
  <2>3. Keeps(s, t, {})
    BY <1>0, <2>1, <2>2, KeepsMore
  <2> QED BY <2>3 DEF t
<1>2. ASSUME NEW us PROVE Keeps(s, [s EXCEPT !.append = @ \cup us], {})
  <2> DEFINE t == [s EXCEPT !.append = @ \cup us]
  <2>1. /\ DOMAIN t = DOMAIN s /\ t.callbacks = s.callbacks /\ t.ready = s.ready
        /\ t.replay = s.replay /\ t.issue = s.issue /\ t.ok = s.ok
        /\ t.append = s.append \cup us /\ t.pipeline = s.pipeline /\ t.replays = s.replays
    BY DEF Shaped
  <2> HIDE DEF t
  <2>2. t.ready \cap t.replay = {}
    BY <2>1 DEF Orderly
  <2>3. Keeps(s, t, {})
    BY <1>0, <2>1, <2>2, KeepsMore
  <2> QED BY <2>3 DEF t
<1>3. ASSUME NEW c, c PROVE Keeps(s, Asserted(s, c), {})
  <2> DEFINE t == Asserted(s, c)
  <2>1. /\ DOMAIN t = DOMAIN s /\ t.callbacks = s.callbacks /\ t.ready = s.ready
        /\ t.replay = s.replay /\ t.issue = s.issue /\ t.ok = (s.ok /\ c)
        /\ t.append = s.append /\ t.pipeline = s.pipeline /\ t.replays = s.replays
    BY DEF Shaped, Asserted
  <2> HIDE DEF t
  <2>2. t.ready \cap t.replay = {} /\ (s.ok => t.ok)
    BY <1>3, <2>1 DEF Orderly
  <2>3. Keeps(s, t, {})
    BY <1>0, <2>1, <2>2, KeepsMore
  <2> QED BY <2>3 DEF t
<1> QED
  BY <1>1, <1>2, <1>3

\* An instruction is to be replayed.
LEMMA ReplayKeeps ==
    ASSUME NEW s, Shaped(s), Orderly(s), NEW u
    PROVE  LET t == updateInstReplayReady(s, u)
           IN  Keeps(s, t, {}) /\ u \notin t.replay /\ Queued(t, u) /\ t.ready = s.ready
<1> USE Fields
<1> DEFINE e == [uid |-> u, due |-> ReplayIssueDelay]
           t == updateInstReplayReady(s, u)
<1>1. /\ DOMAIN t = DOMAIN s /\ t.callbacks = s.callbacks /\ t.ready = s.ready
      /\ t.replay = s.replay \ {u} /\ t.issue = s.issue /\ t.ok = s.ok
      /\ t.append = s.append /\ t.pipeline = s.pipeline /\ t.replays = s.replays \cup {e}
  BY DEF updateInstReplayReady, removeInstFromReplayQueue, Shaped
<1>2. e.uid = u /\ DOMAIN e = {"uid", "due"} /\ e.due \in 0..ReplayIssueDelay
  BY LSUAssumption
<1> HIDE DEF t, e
<1>3. \A d \in t.replays : DOMAIN d = {"uid", "due"} /\ d.due \in 0..ReplayIssueDelay
  BY <1>1, <1>2 DEF Orderly, Shaped
<1>4. t.ready \cap t.replay = {}
  BY <1>1 DEF Orderly
<1>5. Keeps(s, t, {})
  BY <1>1, <1>3, <1>4, KeepsMore
<1>6. Queued(t, u)
  BY <1>1, <1>2 DEF Queued
<1> QED
  BY <1>1, <1>5, <1>6 DEF t

\* A stage is invalidated; nobody else is lost.
LEMMA InvalidateKeeps ==
    ASSUME NEW s, Shaped(s), Orderly(s), NEW st \in Stages
    PROVE  LET t == invalidateStage(s, st)
           IN  /\ Keeps(s, t, {s.pipeline[st]}) /\ t.pipeline[st] = 0
               /\ \A v : v \notin s.replay /\ Queued(s, v) => Kept(t, v)
               /\ t.replay = s.replay
<1> USE Fields
<1> DEFINE t == invalidateStage(s, st)
<1>1. /\ DOMAIN t = DOMAIN s /\ t.callbacks = s.callbacks /\ t.ready = s.ready
      /\ t.replay = s.replay /\ t.issue = s.issue /\ t.ok = s.ok
      /\ t.append = s.append /\ t.replays = s.replays
      /\ t.pipeline = [s.pipeline EXCEPT ![st] = 0]
  BY DEF invalidateStage, Shaped
<1> HIDE DEF t
<1>2. /\ Shaped(t) /\ t.pipeline[st] = 0
      /\ \A x \in Stages : x # st => t.pipeline[x] = s.pipeline[x]
  BY <1>1 DEF Shaped
<1>3. Orderly(t)
  BY <1>1 DEF Orderly, isReadyToIssueInsts, ReplayFull
<1>4. \A v : v \notin s.replay /\ Queued(s, v) => Kept(t, v)
  BY <1>1 DEF Queued, Kept
<1>5. \A v : Kept(s, v) /\ v \notin {s.pipeline[st]} => Kept(t, v)
  BY <1>2, <1>4 DEF Kept, InStage
<1> QED
  BY <1>1, <1>2, <1>3, <1>4, <1>5 DEF Keeps, t

\* A miss starts again.
LEMMA RetryKeeps ==
    ASSUME NEW s, Shaped(s), Orderly(s), NEW st \in Stages, NEW u, u = s.pipeline[st]
    PROVE  Keeps(s, Retry(s, st, u), {}) /\ Retry(s, st, u).pipeline[st] = 0
<1> DEFINE t == Speculative(s, updateInstReplayReady(s, u))
           a == appendToReadyQueue(t, {u})
           r == IF u \in t.ready THEN t ELSE ScheduleIssue(a)
           x == invalidateStage(r, st)
<1>1. Keeps(s, t, {}) /\ (u \notin t.replay \/ u \in t.ready)
  <2>1. CASE allow_speculative_load_exec_
    BY <2>1, ReplayKeeps DEF Speculative
  <2>2. CASE ~allow_speculative_load_exec_
    BY <2>2, KeepsSame DEF Speculative, Orderly
  <2> QED BY <2>1, <2>2
<1>2. Shaped(t) /\ Orderly(t)
  BY <1>1 DEF Keeps
<1> HIDE DEF t
<1>3. Keeps(t, r, {}) /\ u \in r.ready /\ u \notin r.replay
  <2>1. CASE u \in t.ready
    BY <1>2, <2>1, KeepsSame DEF Orderly
  <2>2. CASE u \notin t.ready
    <3>1. {u} \cap (t.ready \cup t.replay) = {}
      BY <1>1, <2>2
    <3>2. Keeps(t, a, {}) /\ u \in a.ready
      BY <1>2, <3>1, AppendKeeps
    <3>3. Keeps(a, ScheduleIssue(a), {})
      BY <3>2, ScheduleKeeps DEF Keeps
    <3>4. Keeps(t, ScheduleIssue(a), {})
      BY <3>2, <3>3, KeepsOn
    <3>5. u \in ScheduleIssue(a).ready
      BY <3>2, <3>3 DEF Keeps
    <3>6. u \notin ScheduleIssue(a).replay
      BY <3>4, <3>5 DEF Keeps, Orderly
    <3> QED BY <2>2, <3>4, <3>5, <3>6
  <2> QED BY <2>1, <2>2
<1> HIDE DEF r
<1>4. Shaped(r) /\ Orderly(r)
  BY <1>3 DEF Keeps
<1>5. Keeps(r, x, {r.pipeline[st]}) /\ x.pipeline[st] = 0 /\ \A v : v \notin r.replay /\ Queued(r, v) => Kept(x, v)
  BY <1>4, InvalidateKeeps
<1>6. Kept(x, u)
  BY <1>3, <1>5 DEF Queued
<1>7. Keeps(s, r, {})
  BY <1>1, <1>3, KeepsOn
<1>8. r.pipeline[st] = u \/ r.pipeline[st] = 0
  BY <1>7 DEF Keeps
<1> HIDE DEF x
<1>9. \A v : Kept(r, v) => Kept(x, v) \/ v = 0
  BY <1>5, <1>6, <1>8 DEF Keeps
<1>10. Kept(x, 0)
  BY <1>5 DEF Kept, InStage
<1>11. Keeps(r, x, {})
  BY <1>5, <1>9, <1>10 DEF Keeps
<1> QED
  BY <1>5, <1>7, <1>11, KeepsOn DEF Retry, r, t, x

\* Loads start again behind a store that has its address.
LEMMA AbortKeeps ==
    ASSUME NEW s, Shaped(s), Orderly(s), NEW u
    PROVE  Keeps(s, abortYoungerLoads(s, u), {})
<1> USE Fields
<1> DEFINE us == AbortedLoads(s, u)
           t  == abortYoungerLoads(s, u)
<1>1. us \subseteq s.replay
  BY DEF AbortedLoads
<1> HIDE DEF us
<1>2. /\ DOMAIN t = DOMAIN s /\ t.callbacks = s.callbacks /\ t.ready = s.ready \cup us
      /\ t.replay = s.replay \ us /\ t.issue = s.issue /\ t.ok = (s.ok /\ us \cap s.ready = {})
      /\ t.append = s.append /\ t.replays = s.replays
      /\ t.pipeline = dropInstFromPipeline(s.pipeline, us)
  BY DEF abortYoungerLoads, appendToReadyQueue, Asserted, removeInstFromReplayQueue, Shaped, us
<1> HIDE DEF t
<1>3. /\ DOMAIN t.pipeline = Stages
      /\ \A x \in Stages : \/ t.pipeline[x] = s.pipeline[x]
                           \/ t.pipeline[x] = 0 /\ s.pipeline[x] \in us
  BY <1>2 DEF dropInstFromPipeline
<1>4. Shaped(t)
  BY <1>2, <1>3 DEF Shaped
<1>5. us \cap s.ready = {} /\ t.ready \cap t.replay = {}
  BY <1>1, <1>2 DEF Orderly
<1>6. /\ IsFiniteSet(t.replay) /\ Cardinality(t.replay) \in Nat /\ Cardinality(s.replay) \in Nat
      /\ Cardinality(t.replay) <= Cardinality(s.replay)
  BY <1>2, ReplayShrinks DEF Orderly
<1>7. ReplayBufferSize \in Nat
  BY LSUAssumption
<1>8. isReadyToIssueInsts(s) => isReadyToIssueInsts(t)
  BY <1>2, <1>6, <1>7 DEF isReadyToIssueInsts, ReplayFull
<1>9. Orderly(t)
  BY <1>2, <1>5, <1>6, <1>7, <1>8 DEF Orderly
<1>10. ASSUME NEW v, Kept(s, v) PROVE Kept(t, v)
  <2>1. CASE v \in us
    BY <1>2, <2>1 DEF Kept, Queued
  <2>2. CASE v \notin us /\ InStage(s, v)
    BY <1>3, <2>2 DEF Kept, InStage
  <2>3. CASE v \notin s.replay /\ Queued(s, v)
    BY <1>2, <2>3 DEF Kept, Queued
  <2> QED BY <1>10, <2>1, <2>2, <2>3 DEF Kept
<1>11. s.ok => t.ok
  BY <1>2, <1>5
<1> QED
  BY <1>2, <1>3, <1>4, <1>9, <1>10, <1>11 DEF Keeps, t

\* Loads behind a store become ready.
LEMMA DependentKeeps ==
    ASSUME NEW s, Shaped(s), Orderly(s), DependentLoads \cap (s.ready \cup s.replay) = {}
    PROVE  /\ Keeps(s, readyDependentLoads(s), {})
           /\ DependentLoads \subseteq readyDependentLoads(s).ready
<1> DEFINE a == appendToReadyQueue(s, DependentLoads)
<1>1. CASE DependentLoads = {}
  BY <1>1, KeepsSame DEF readyDependentLoads
<1>2. CASE DependentLoads # {}
  <2>1. Keeps(s, a, {}) /\ DependentLoads \subseteq a.ready
    BY AppendKeeps
  <2>2. Keeps(a, ScheduleIssue(a), {})
    BY <2>1, ScheduleKeeps DEF Keeps
  <2>3. Keeps(s, ScheduleIssue(a), {}) /\ DependentLoads \subseteq ScheduleIssue(a).ready
    BY <2>1, <2>2, KeepsOn DEF Keeps
  <2> QED BY <1>2, <2>3 DEF readyDependentLoads
<1> QED
  BY <1>1, <1>2

\* Events that bring an instruction on.
LEMMA EventKeeps ==
    ASSUME NEW s, Shaped(s), Orderly(s)
    PROVE  /\ \A u : Keeps(s, appendReady(s, u), {})
           /\ \A e \in s.replays : Keeps(s, replayReady(s, e), {})
<1> USE Fields
<1>0. \A e \in s.replays : DOMAIN e = {"uid", "due"} /\ e.due \in 0..ReplayIssueDelay
  BY DEF Orderly, Shaped
<1>1. ASSUME NEW u PROVE Keeps(s, appendReady(s, u), {})
  <2> DEFINE t == [s EXCEPT !.append = @ \ {u}]
             a == appendToReadyQueue(t, {u})
             r == IF u \in t.ready \cup t.replay THEN t ELSE a
  <2>1. /\ DOMAIN t = DOMAIN s /\ t.callbacks = s.callbacks /\ t.ready = s.ready
        /\ t.replay = s.replay /\ t.issue = s.issue /\ t.ok = s.ok
        /\ t.append = s.append \ {u} /\ t.pipeline = s.pipeline /\ t.replays = s.replays
    BY DEF Shaped
  <2> HIDE DEF t
  <2>2. Shaped(t) /\ Orderly(t)
    BY <2>1 DEF Shaped, Orderly, isReadyToIssueInsts, ReplayFull
  <2>3. \A v : Kept(s, v) /\ v \notin {u} => Kept(t, v)
    BY <2>1 DEF Kept, InStage, Queued
  <2>4. Keeps(s, t, {u})
    BY <2>1, <2>2, <2>3 DEF Keeps
  <2>5. Keeps(t, r, {}) /\ (u \in t.ready \cup t.replay \/ u \in r.ready)
    BY <2>2, KeepsSame, AppendKeeps
  <2>6. Keeps(s, r, {u})
    BY <2>4, <2>5, KeepsTwice, {u} \cup {} = {u}
  <2> HIDE DEF r
  <2>7. Kept(s, u) => Kept(r, u)
    <3>1. CASE InStage(s, u)
      <4>1. Kept(t, u)
        BY <2>1, <3>1 DEF Kept, InStage
      <4> QED BY <2>5, <4>1 DEF Keeps
    <3>2. CASE ~InStage(s, u)
      <4> SUFFICES ASSUME Kept(s, u) PROVE Kept(r, u)
        OBVIOUS
      <4>1. u \notin t.replay
        BY <2>1, <3>2 DEF Kept
      <4>2. u \in r.ready
        BY <2>5, <4>1 DEF Keeps
      <4> QED BY <2>5, <4>2 DEF Keeps, Orderly, Kept, Queued
    <3> QED BY <3>1, <3>2
  <2>8. Keeps(s, r, {})
    BY <2>6, <2>7 DEF Keeps
  <2>9. Keeps(r, ScheduleIssue(r), {})
    BY <2>8, ScheduleKeeps DEF Keeps
  <2> QED BY <2>8, <2>9, KeepsOn DEF appendReady, r, t
<1>2. ASSUME NEW e \in s.replays PROVE Keeps(s, replayReady(s, e), {})
  <2> DEFINE t == [s EXCEPT !.replays = @ \ {e}, !.append = @ \cup {e.uid}]
  <2>1. /\ DOMAIN t = DOMAIN s /\ t.callbacks = s.callbacks /\ t.ready = s.ready
        /\ t.replay = s.replay /\ t.issue = s.issue /\ t.ok = s.ok
        /\ t.append = s.append \cup {e.uid} /\ t.pipeline = s.pipeline
        /\ t.replays = s.replays \ {e}
    BY DEF Shaped
  <2>2. replayReady(s, e) = ScheduleIssue(t)
    BY DEF replayReady
  <2> HIDE DEF t
  <2>3. Shaped(t) /\ Orderly(t)
    BY <2>1 DEF Shaped, Orderly, isReadyToIssueInsts, ReplayFull
  <2>4. \A v : Kept(s, v) => Kept(t, v)
    BY <2>1 DEF Kept, InStage, Queued
  <2>5. Keeps(s, t, {})
    BY <2>1, <2>3, <2>4 DEF Keeps
  <2>6. Keeps(t, ScheduleIssue(t), {})
    BY <2>3, ScheduleKeeps
  <2> QED BY <2>2, <2>5, <2>6, KeepsOn
<1> QED
  BY <1>1, <1>2

\* Answers of ROB, MMU and DCache.
LEMMA AnswerKeeps ==
    ASSUME NEW s, Shaped(s), Orderly(s), NEW u
    PROVE  /\ (u \in s.queue /\ s.stores # {} /\ u = Min(s.stores)) =>
                 Keeps(s, getAckFromROB(s, u), {}) /\ u \in getAckFromROB(s, u).append
           /\ (status[u] = "FLUSHED" \/ u \in s.queue) => Keeps(s, handleMMUReadyReq(s, u), {})
           /\ \A m : Keeps(s, getAckFromCache(s, u, m), {})
<1> USE Fields
<1>1. ASSUME u \in s.queue, s.stores # {}, u = Min(s.stores)
      PROVE  Keeps(s, getAckFromROB(s, u), {}) /\ u \in getAckFromROB(s, u).append
  <2> DEFINE c == s.stores # {} /\ u = Min(s.stores)
             a == Asserted(s, c)
             b == [a EXCEPT !.stores = @ \ {u}]
             d == Asserted(b, u \in b.queue)
             t == [d EXCEPT !.append = @ \cup {u}]
  <2>1. c
    BY <1>1
  <2> HIDE DEF c
  <2>2. Keeps(s, a, {})
    BY <2>1, PartsKeep
  <2>3. a.queue = s.queue
    BY DEF Asserted, Shaped
  <2> HIDE DEF a
  <2>4. /\ DOMAIN b = DOMAIN a /\ b.callbacks = a.callbacks /\ b.ready = a.ready
        /\ b.replay = a.replay /\ b.issue = a.issue /\ b.ok = a.ok /\ b.queue = a.queue
        /\ b.append = a.append /\ b.pipeline = a.pipeline /\ b.replays = a.replays
    BY <2>2 DEF Shaped, Keeps
  <2> HIDE DEF b
  <2>5. Keeps(a, b, {})
    BY <2>2, <2>4, KeepsMore DEF Keeps, Orderly, Shaped
  <2>6. Keeps(b, d, {})
    BY <1>1, <2>3, <2>4, <2>5, PartsKeep DEF Keeps
  <2> HIDE DEF d
  <2>7. Keeps(d, t, {}) /\ u \in t.append
    <3>1. Keeps(d, t, {})
      BY <2>6, PartsKeep DEF Keeps
    <3>2. u \in t.append
      BY <2>6 DEF Keeps, Shaped
    <3> QED BY <3>1, <3>2
  <2>8. getAckFromROB(s, u) = ScheduleIssue(t)
    BY DEF getAckFromROB, updateIssuePriorityAfterStoreInstRetire, t, d, b, a, c
  <2> HIDE DEF t
  <2>9. Keeps(t, ScheduleIssue(t), {}) /\ ScheduleIssue(t).append = t.append
    <3>1. Keeps(t, ScheduleIssue(t), {})
      BY <2>7, ScheduleKeeps DEF Keeps
    <3>2. ScheduleIssue(t).append = t.append
      BY <2>7 DEF Keeps, Shaped, ScheduleIssue
    <3> QED BY <3>1, <3>2
  <2> QED BY <2>2, <2>5, <2>6, <2>7, <2>8, <2>9, KeepsOn
<1>2. ASSUME status[u] = "FLUSHED" \/ u \in s.queue PROVE Keeps(s, handleMMUReadyReq(s, u), {})
  <2> DEFINE a == Asserted(s, status[u] = "FLUSHED" \/ u \in s.queue)
             t == [a EXCEPT !.append = @ \cup ({u} \cap s.queue)]
             r == IF status[u] = "FLUSHED" THEN t ELSE removeInstFromReplayQueue(t, {u})
  <2>1. Keeps(s, a, {})
    BY <1>2, PartsKeep
  <2>2. Keeps(a, t, {})
    <3> HIDE DEF a
    <3> QED BY <2>1, PartsKeep DEF Keeps
  <2>3. handleMMUReadyReq(s, u) = ScheduleIssue(r)
    <3>1. a.queue = s.queue
      BY DEF Asserted, Shaped
    <3> QED BY <3>1 DEF handleMMUReadyReq, updateIssuePriorityAfterTLBReload
  <2> HIDE DEF t
  <2>4. Keeps(t, r, {})
    BY <2>2, PartsKeep, KeepsSame DEF Keeps
  <2> HIDE DEF r
  <2>5. Keeps(r, ScheduleIssue(r), {})
    BY <2>4, ScheduleKeeps DEF Keeps
  <2>6. Keeps(s, t, {})
    BY <2>1, <2>2, KeepsOn
  <2> QED BY <2>3, <2>4, <2>5, <2>6, KeepsOn
<1>3. ASSUME NEW m PROVE Keeps(s, getAckFromCache(s, u, m), {})
  BY PartsKeep, KeepsSame DEF getAckFromCache
<1> QED
  BY <1>1, <1>2, <1>3

\* The operand check: whoever has its operands becomes ready, the others get callbacks.
LEMMA OperandCheckKeeps ==
    ASSUME NEW s, Shaped(s), Orderly(s), NEW us, NEW rdy,
           Schedulable(us, rdy) \subseteq s.queue,
           Schedulable(us, rdy) \cap (s.ready \cup s.replay) = {},
           NEW t, t = handleOperandIssueCheck(s, us, rdy)
    PROVE  /\ Keeps(s, t, {}) /\ Schedulable(us, rdy) \subseteq t.ready
           /\ \A u \in us : status[u] # "SCHEDULED" /\ Awaits(u, rdy) # {} =>
                               \E c \in t.callbacks : c.uid = u
<1> USE Fields
<1> DEFINE waits == {[uid |-> u, reg |-> r] : u \in {v \in us : status[v] # "SCHEDULED"},
                                              r \in UNION {Awaits(v, rdy) : v \in us}}
           now == Schedulable(us, rdy)
           new == {c \in waits : c.reg \in Awaits(c.uid, rdy)}
           a == Asserted(s, now \subseteq s.queue)
           b == [a EXCEPT !.callbacks = @ \cup new]
           d == appendToReadyQueue(b, now)
<1>1. ASSUME NEW u \in us, status[u] # "SCHEDULED", Awaits(u, rdy) # {}
      PROVE  \E c \in new : c.uid = u
  <2>1. PICK r : r \in Awaits(u, rdy)
    BY <1>1
  <2> DEFINE c == [uid |-> u, reg |-> r]
  <2>2. c \in waits
    BY <1>1, <2>1
  <2>3. c.uid = u /\ c.reg = r
    OBVIOUS
  <2> HIDE DEF c, waits
  <2> QED BY <2>1, <2>2, <2>3
<1>2. t = IF now = {} THEN b ELSE ScheduleIssue(d)
  BY DEF handleOperandIssueCheck
<1> HIDE DEF waits, now, new
<1>3. Keeps(s, a, {})
  BY PartsKeep DEF now
<1>4. a.queue = s.queue /\ a.ready = s.ready /\ a.replay = s.replay
  BY DEF Asserted, Shaped
<1> HIDE DEF a
<1>5. /\ DOMAIN b = DOMAIN a /\ b.callbacks = a.callbacks \cup new /\ b.ready = a.ready
      /\ b.replay = a.replay /\ b.issue = a.issue /\ b.ok = a.ok
      /\ b.append = a.append /\ b.pipeline = a.pipeline /\ b.replays = a.replays
  BY <1>3 DEF Shaped, Keeps
<1> HIDE DEF b
<1>6. Keeps(a, b, {})
  BY <1>3, <1>5, KeepsMore DEF Keeps, Orderly, Shaped
<1>7. Keeps(s, b, {})
  BY <1>3, <1>6, KeepsOn
<1>8. CASE now = {}
  BY <1>1, <1>2, <1>5, <1>7, <1>8 DEF now
<1>9. CASE now # {}
  <2>1. Keeps(b, d, {}) /\ now \subseteq d.ready
    BY <1>4, <1>5, <1>7, AppendKeeps DEF Keeps, now
  <2>2. d.callbacks = b.callbacks
    BY <1>7 DEF appendToReadyQueue, Asserted, Keeps, Shaped
  <2> HIDE DEF d
  <2>3. Keeps(d, ScheduleIssue(d), {})
    BY <2>1, ScheduleKeeps DEF Keeps
  <2>4. ScheduleIssue(d).callbacks = d.callbacks
    BY <2>1 DEF ScheduleIssue, Keeps, Shaped
  <2>5. Keeps(s, t, {})
    BY <1>2, <1>7, <1>9, <2>1, <2>3, KeepsOn
  <2>6. now \subseteq t.ready /\ t.callbacks = b.callbacks
    BY <1>2, <1>9, <2>1, <2>2, <2>3, <2>4 DEF Keeps
  <2> QED BY <1>1, <1>5, <2>5, <2>6 DEF now
<1> QED
  BY <1>8, <1>9

\* An instruction of the ready queue issues.
LEMMA IssueKeeps ==
    ASSUME Shaped(lsu), Orderly(lsu), \A u \in lsu.ready : u \in Nat, issueInst,
           1 \notin lsu.issue, lsu.pipeline[ADDRESS] = 0
    PROVE  /\ Orderly(lsu') /\ (lsu.ok => lsu'.ok) /\ lsu'.issue \subseteq {1}
           /\ lsu'.append = lsu.append /\ lsu'.replays = lsu.replays
           /\ \A st \in Stages : st # ADDRESS => lsu'.pipeline[st] = lsu.pipeline[st]
           /\ \A v : Kept(lsu, v) /\ v # 0 => Kept(lsu', v)
<1> USE Fields
<1> DEFINE u == Min(lsu.ready)
           t == [lsu EXCEPT !.issue = @ \ {0}, !.ready = @ \ {u}, !.pipeline[ADDRESS] = u]
           a == Asserted(t, ~ReplayFull(t) /\ u \notin t.replay)
           r == [a EXCEPT !.replay = @ \cup {u}]
           s == Speculative(t, r)
           x == [s EXCEPT !.issue = @ \cup {1}]
<1>0. 0 \in lsu.issue /\ isReadyToIssueInsts(lsu)
  BY DEF issueInst, Orderly
<1>1. u \in lsu.ready
  <2>1. lsu.ready \in SUBSET Nat /\ lsu.ready # {}
    BY <1>0 DEF isReadyToIssueInsts
  <2>2. \E m \in lsu.ready : \A k \in lsu.ready : m <= k
    BY <2>1, LeastNumber, SMTT(30)
  <2> QED BY <2>2 DEF Min
<1>2. lsu' = IF isReadyToIssueInsts(s) THEN x ELSE s
  BY <1>1 DEF issueInst
<1> HIDE DEF u
<1>3. /\ DOMAIN t = DOMAIN lsu /\ t.callbacks = lsu.callbacks /\ t.ready = lsu.ready \ {u}
      /\ t.replay = lsu.replay /\ t.append = lsu.append /\ t.replays = lsu.replays
      /\ t.pipeline = [lsu.pipeline EXCEPT ![ADDRESS] = u] /\ t.issue = {} /\ t.ok = lsu.ok
  <2>1. lsu.issue \ {0} = {}
    BY DEF Orderly
  <2> QED BY <2>1 DEF Shaped
<1> HIDE DEF t
<1>4. ~ReplayFull(t) /\ u \notin t.replay
  BY <1>0, <1>1, <1>3 DEF isReadyToIssueInsts, ReplayFull, Orderly
<1>5. /\ DOMAIN r = DOMAIN t /\ r.callbacks = t.callbacks /\ r.ready = t.ready
      /\ r.replay = t.replay \cup {u} /\ r.append = t.append /\ r.replays = t.replays
      /\ r.pipeline = t.pipeline /\ r.issue = t.issue
      /\ r.ok = (t.ok /\ ~ReplayFull(t) /\ u \notin t.replay)
  BY <1>3 DEF Asserted, Shaped
<1> HIDE DEF a, r
<1>6. /\ DOMAIN s = DOMAIN lsu /\ s.callbacks = lsu.callbacks /\ s.ready = lsu.ready \ {u}
      /\ s.append = lsu.append /\ s.replays = lsu.replays
      /\ s.pipeline = [lsu.pipeline EXCEPT ![ADDRESS] = u] /\ s.issue = {}
      /\ (lsu.ok => s.ok)
      /\ s.replay = IF allow_speculative_load_exec_ THEN lsu.replay \cup {u} ELSE lsu.replay
  BY <1>3, <1>4, <1>5 DEF Speculative
<1> HIDE DEF s
<1>7. /\ DOMAIN x = DOMAIN s /\ x.callbacks = s.callbacks /\ x.ready = s.ready
      /\ x.replay = s.replay /\ x.append = s.append /\ x.replays = s.replays
      /\ x.pipeline = s.pipeline /\ x.issue = {1} /\ x.ok = s.ok
  BY <1>6 DEF Shaped
<1> HIDE DEF x
<1>8. /\ lsu'.callbacks = lsu.callbacks /\ lsu'.ready = lsu.ready \ {u}
      /\ lsu'.append = lsu.append /\ lsu'.replays = lsu.replays
      /\ lsu'.pipeline = [lsu.pipeline EXCEPT ![ADDRESS] = u] /\ (lsu.ok => lsu'.ok)
      /\ lsu'.replay = s.replay /\ lsu'.issue \subseteq {1}
      /\ lsu'.issue # {} => isReadyToIssueInsts(s)
  BY <1>2, <1>6, <1>7
<1>9. ADDRESS \in Stages
  BY DEF ADDRESS, Stages, COMPLETE
<1>10. /\ lsu'.pipeline[ADDRESS] = u
       /\ \A st \in Stages : st # ADDRESS => lsu'.pipeline[st] = lsu.pipeline[st]
  BY <1>8, <1>9 DEF Shaped
<1>11. allow_speculative_load_exec_ =>
          /\ IsFiniteSet(lsu.replay \cup {u})
          /\ Cardinality(lsu.replay \cup {u}) <= ReplayBufferSize
  <2>1. /\ IsFiniteSet(lsu.replay) /\ u \notin lsu.replay /\ Cardinality(lsu.replay) \in Nat
        /\ Cardinality(lsu.replay \cup {u}) = Cardinality(lsu.replay) + 1
        /\ IsFiniteSet(lsu.replay \cup {u})
    BY <1>3, <1>4, FS_AddElement, FS_CardinalityType DEF Orderly
  <2>2. allow_speculative_load_exec_ => ~(Cardinality(lsu.replay) >= ReplayBufferSize)
    BY <1>3, <1>4 DEF ReplayFull
  <2> QED BY <2>1, <2>2, LSUAssumption
<1>12. Orderly(lsu')
  <2>1. lsu'.ready \cap lsu'.replay = {}
    BY <1>6, <1>8 DEF Orderly
  <2>2. IsFiniteSet(lsu'.replay) /\ Cardinality(lsu'.replay) <= ReplayBufferSize
    BY <1>6, <1>8, <1>11 DEF Orderly
  <2>3. lsu'.issue # {} => isReadyToIssueInsts(lsu')
    BY <1>6, <1>8 DEF isReadyToIssueInsts, ReplayFull
  <2>4. ~allow_speculative_load_exec_ => lsu'.replay = {}
    BY <1>6, <1>8 DEF Orderly
  <2>5. \A e \in lsu'.replays : e.due \in 0..ReplayIssueDelay
    BY <1>8 DEF Orderly
  <2> QED BY <1>8, <2>1, <2>2, <2>3, <2>4, <2>5 DEF Orderly
<1>13. ASSUME NEW v, Kept(lsu, v), v # 0 PROVE Kept(lsu', v)
  <2>1. CASE v = u
    BY <1>9, <1>10, <2>1 DEF Kept, InStage
  <2>2. CASE v # u /\ InStage(lsu, v)
    BY <1>10, <1>13, <2>2 DEF Kept, InStage
  <2>3. CASE v # u /\ v \notin lsu.replay /\ Queued(lsu, v)
    BY <1>6, <1>8, <2>3 DEF Kept, Queued
  <2> QED BY <1>13, <2>1, <2>2, <2>3 DEF Kept
<1> QED
  BY <1>8, <1>10, <1>12, <1>13

\* A flush loses nobody that it does not include.
LEMMA FlushKeeps ==
    ASSUME NEW s, Shaped(s), Orderly(s), NEW us
    PROVE  LET t == handleFlush(s, us)
           IN  /\ Orderly(t) /\ (s.ok => t.ok) /\ t.issue \subseteq s.issue
               /\ t.replay \subseteq s.replay
               /\ \A st \in Stages : t.pipeline[st] = s.pipeline[st] \/ t.pipeline[st] = 0
               /\ \A v : Kept(s, v) /\ v \notin us => Kept(t, v)
<1> USE Fields
<1> DEFINE f == flushQueues(s, us)
           t == [f EXCEPT !.append = @ \ us, !.replays = {e \in @ : e.uid \notin us}]
           r == [t EXCEPT !.issue = {}]
<1>1. /\ DOMAIN f = DOMAIN s /\ f.callbacks = {c \in s.callbacks : c.uid \notin us \cap s.queue}
      /\ f.ready = s.ready \ us /\ f.replay = s.replay \ us
      /\ f.append = s.append /\ f.replays = s.replays /\ f.issue = s.issue /\ f.ok = s.ok
      /\ f.pipeline = [st \in Stages |-> IF s.pipeline[st] \in us THEN 0 ELSE s.pipeline[st]]
  BY DEF flushQueues, Shaped
<1> HIDE DEF f
<1>2. /\ DOMAIN t = DOMAIN s /\ t.callbacks = f.callbacks
      /\ t.ready = s.ready \ us /\ t.replay = s.replay \ us /\ t.issue = s.issue /\ t.ok = s.ok
      /\ t.append = s.append \ us /\ t.replays = {e \in s.replays : e.uid \notin us}
      /\ t.pipeline = f.pipeline
  BY <1>1 DEF Shaped
<1>3. handleFlush(s, us) = IF isReadyToIssueInsts(t) THEN t ELSE r
  BY DEF handleFlush, f, CancelIssue
<1> HIDE DEF t
<1>4. /\ DOMAIN r = DOMAIN t /\ r.callbacks = t.callbacks /\ r.ready = t.ready /\ r.replay = t.replay
      /\ r.issue = {} /\ r.ok = t.ok /\ r.append = t.append /\ r.replays = t.replays
      /\ r.pipeline = t.pipeline
  BY <1>2 DEF Shaped
<1> HIDE DEF r
<1> DEFINE h == handleFlush(s, us)
<1>5. /\ h.callbacks = {c \in s.callbacks : c.uid \notin us \cap s.queue}
      /\ h.ready = s.ready \ us /\ h.replay = s.replay \ us /\ h.ok = s.ok
      /\ h.append = s.append \ us /\ h.replays = {e \in s.replays : e.uid \notin us}
      /\ h.pipeline = [st \in Stages |-> IF s.pipeline[st] \in us THEN 0 ELSE s.pipeline[st]]
      /\ h.issue \subseteq s.issue
      /\ h.issue # {} => isReadyToIssueInsts(t)
  BY <1>1, <1>2, <1>3, <1>4
<1> HIDE DEF h
<1>6. h.issue # {} => isReadyToIssueInsts(h)
  BY <1>2, <1>5 DEF isReadyToIssueInsts, ReplayFull
<1>7. /\ IsFiniteSet(h.replay) /\ Cardinality(h.replay) \in Nat /\ Cardinality(s.replay) \in Nat
      /\ Cardinality(h.replay) <= Cardinality(s.replay)
  BY <1>5, ReplayShrinks DEF Orderly
<1>8. Orderly(h)
  BY <1>5, <1>6, <1>7, LSUAssumption DEF Orderly
<1>9. ASSUME NEW v, Kept(s, v), v \notin us PROVE Kept(h, v)
  <2>1. CASE InStage(s, v)
    BY <1>5, <1>9, <2>1 DEF Kept, InStage
  <2>2. CASE v \notin s.replay /\ Queued(s, v)
    BY <1>5, <1>9, <2>2 DEF Kept, Queued
  <2> QED BY <1>9, <2>1, <2>2 DEF Kept
<1> QED
  BY <1>5, <1>8, <1>9 DEF h

\* The pipeline moves on, and loses what was in its last stage; the cycle ends.
LEMMA ClockKeeps ==
    ASSUME NEW s, Shaped(s), Orderly(s)
    PROVE  /\ LET t == AdvancePipeline(s)
              IN  /\ Orderly(t) /\ t.ok = s.ok /\ t.issue = s.issue /\ t.replay = s.replay
                  /\ t.append = s.append /\ t.replays = s.replays
                  /\ t.pipeline[ADDRESS] = 0 /\ t.pipeline[COMPLETE] = s.pipeline[CACHE_READ]
                  /\ \A v : Kept(s, v) /\ v # s.pipeline[COMPLETE] => Kept(t, v)
           /\ 0 \notin s.issue /\ (\A e \in s.replays : e.due > 0) =>
              LET t == AgedLSU(s)
              IN  /\ Orderly(t) /\ t.ok = s.ok /\ t.issue \subseteq {0} /\ t.pipeline = s.pipeline
                  /\ t.replay = s.replay
                  /\ \A v : Kept(s, v) => Kept(t, v)
<1> USE Fields
<1>1. LET t == AdvancePipeline(s)
      IN  /\ Orderly(t) /\ t.ok = s.ok /\ t.issue = s.issue /\ t.replay = s.replay
          /\ t.append = s.append /\ t.replays = s.replays
          /\ t.pipeline[ADDRESS] = 0 /\ t.pipeline[COMPLETE] = s.pipeline[CACHE_READ]
          /\ \A v : Kept(s, v) /\ v # s.pipeline[COMPLETE] => Kept(t, v)
  <2> DEFINE t == AdvancePipeline(s)
  <2>1. /\ DOMAIN t = DOMAIN s /\ t.queue = s.queue /\ t.stores = s.stores
        /\ t.callbacks = s.callbacks /\ t.ready = s.ready /\ t.replay = s.replay
        /\ t.append = s.append /\ t.replays = s.replays /\ t.issue = s.issue /\ t.ok = s.ok
        /\ t.pipeline = [st \in Stages |-> IF st = ADDRESS THEN 0 ELSE s.pipeline[st - 1]]
    BY DEF AdvancePipeline, Shaped
  <2> HIDE DEF t
  <2>2. /\ t.pipeline[ADDRESS] = 0 /\ t.pipeline[COMPLETE] = s.pipeline[CACHE_READ]
        /\ \A st \in Stages : st # COMPLETE =>
              st + 1 \in Stages /\ t.pipeline[st + 1] = s.pipeline[st]
    BY <2>1 DEF Stages, ADDRESS, COMPLETE, CACHE_READ
  <2>3. Orderly(t)
    BY <2>1 DEF Orderly, isReadyToIssueInsts, ReplayFull
  <2>4. ASSUME NEW v, Kept(s, v), v # s.pipeline[COMPLETE] PROVE Kept(t, v)
    <3>1. CASE InStage(s, v)
      <4>1. PICK st \in Stages : s.pipeline[st] = v
        BY <3>1 DEF InStage
      <4>2. st + 1 \in Stages /\ t.pipeline[st + 1] = v
        BY <2>2, <2>4, <4>1
      <4> QED BY <4>2 DEF Kept, InStage
    <3>2. CASE v \notin s.replay /\ Queued(s, v)
      BY <2>1, <3>2 DEF Kept, Queued
    <3> QED BY <2>4, <3>1, <3>2 DEF Kept
  <2> QED BY <2>1, <2>2, <2>3, <2>4 DEF t
<1>2. ASSUME 0 \notin s.issue, \A e \in s.replays : e.due > 0
      PROVE  LET t == AgedLSU(s)
             IN  /\ Orderly(t) /\ t.ok = s.ok /\ t.issue \subseteq {0} /\ t.pipeline = s.pipeline
                 /\ t.replay = s.replay
                 /\ \A v : Kept(s, v) => Kept(t, v)
  <2> DEFINE t == AgedLSU(s)
  <2>1. /\ DOMAIN t = DOMAIN s /\ t.queue = s.queue /\ t.stores = s.stores
        /\ t.callbacks = s.callbacks /\ t.ready = s.ready /\ t.replay = s.replay
        /\ t.append = s.append /\ t.pipeline = s.pipeline /\ t.ok = s.ok
        /\ t.issue = {d - 1 : d \in s.issue}
        /\ t.replays = {[e EXCEPT !.due = @ - 1] : e \in s.replays}
    BY DEF AgedLSU, Shaped
  <2> HIDE DEF t
  <2>2. s.issue \subseteq {1}
    BY <1>2 DEF Orderly
  <2>3. t.issue \subseteq {0} /\ (t.issue # {} => s.issue # {})
    BY <2>1, <2>2
  <2>4. \A e \in s.replays : LET d == [e EXCEPT !.due = @ - 1]
                             IN  d.uid = e.uid /\ d.due \in 0..ReplayIssueDelay
    BY <1>2, LSUAssumption DEF Shaped, Orderly
  <2>5. \A d \in t.replays : d.due \in 0..ReplayIssueDelay
    BY <2>1, <2>4
  <2>6. Orderly(t)
    BY <2>1, <2>3, <2>5 DEF Orderly, isReadyToIssueInsts, ReplayFull
  <2>7. \A v : (\E e \in s.replays : e.uid = v) => (\E d \in t.replays : d.uid = v)
    BY <2>1, <2>4
  <2>8. \A v : Kept(s, v) => Kept(t, v)
    BY <2>1, <2>7 DEF Kept, InStage, Queued
  <2> QED BY <2>1, <2>3, <2>6, <2>8 DEF t
<1> QED
  BY <1>1, <1>2

-----------------------------------------------------------------------------
(* The invariants.                                                         *)

\* The instruction has been at the cache.
Used(u) == mem[u].data \/ mem[u].cache # "NO_ACCESS" \/ u \in InCache

\* What has been at the cache is translated and, if it is a store, retired; a load leaves
\* the queue when it completes; instructions retire in order, and the trace goes on behind
\* those that are alive.
InstInv ==
    /\ \A u \in Insts : Used(u) => mem[u].phy /\ (isStore(u) => status[u] = "RETIRED")
    /\ \A u \in lsu.queue : ~isStore(u) => status[u] \in {"DISPATCHED", "SCHEDULED"}
    /\ \A u, v \in Insts : status[u] = "RETIRED" /\ v < u => status[v] \in {"RETIRED", "FLUSHED"}
    /\ \A u \in Live : pid[u] < next_pid

\* One instruction issues in a cycle, after the events that make instructions ready.
ReadyInv ==
    /\ Orderly(lsu)
    /\ 1 \in lsu.issue => phase = "late"
    /\ phase = "late" /\ (1 \in lsu.issue \/ lsu.pipeline[ADDRESS] # 0) =>
          0 \notin lsu.issue /\ lsu.append = {} /\ \A e \in lsu.replays : e.due > 0

\* What comes to the last stage has its data, and has left the queue when it leaves the
\* stage.
StageInv ==
    /\ lsu.pipeline[COMPLETE] # 0 => mem[lsu.pipeline[COMPLETE]].data
    /\ phase = "tick" =>
          /\ CACHE_READ \notin stages_due /\ lsu.pipeline[CACHE_READ] # 0
                => mem[lsu.pipeline[CACHE_READ]].data
          /\ COMPLETE \notin stages_due => lsu.pipeline[COMPLETE] \notin lsu.queue

\* A store is in the store buffer until LSU knows that it has retired, and has not been at
\* the cache before; the messages of ROB come in order.
StoreInv ==
    /\ \A u \in lsu.stores :
          /\ u \in lsu.queue /\ isStore(u) /\ mem[u].cache = "NO_ACCESS" /\ ~mem[u].data
          /\ status[u] = "RETIRED" => u \in Range(acks)
          /\ cache_pipeline_.DATA_READ.uid = u => cache_pipeline_.DATA_READ.refill
          /\ cache_pipeline_.LOOKUP.uid = u /\ ~cache_pipeline_.LOOKUP.refill
                => phase \in {"late", "port"}
    /\ \A u \in Insts : isStore(u) /\ (\/ status[u] \in {"SCHEDULED", "COMPLETED"}
                                       \/ status[u] = "DISPATCHED" /\ u \in lsu.queue)
                           => u \in lsu.stores
    /\ \A k \in DOMAIN acks : acks[k] \in lsu.stores /\ \A j \in 1..k - 1 : acks[j] < acks[k]

\* What leaves the queue is translated, and the instruction whose miss the MMU handles is
\* not.
TranslationInv ==
    /\ \A u \in Insts : mem[u].phy \/ status[u] \in {"FLUSHED", "DISPATCHED"} \/ u \in lsu.queue
    /\ mmu_pending_inst_ # 0 => /\ Page(mmu_pending_inst_) \notin tlb_cache_
                                /\ ~mem[mmu_pending_inst_].phy
    /\ (mmu_pending_inst_ = 0) = (uev_lookup_inst_ = {})
    /\ \A u \in mmu_ready : u # 0 /\ ~mem[u].phy
    /\ mmu_ready # {} => phase \in {"late", "port"}

\* An instruction that waits for ROB, or for an older store to be translated.
Waiting(u) ==
    \/ isStore(u) /\ status[u] = "COMPLETED"
    \/ isStore(u) /\ status[u] = "RETIRED" /\ u \in Range(acks)
    \/ /\ ~allow_speculative_load_exec_ /\ ~isStore(u) /\ status[u] = "DISPATCHED"
       /\ Inst(u).src \in ready /\ ~allOlderStoresIssued(u)

\* Something brings every instruction of the queue on.
PlacedInv == \A u \in lsu.queue : Kept(lsu, u) \/ (u \notin lsu.replay /\ Waiting(u))

-----------------------------------------------------------------------------
(* What the actions do to LSU.                                             *)

\* Keeps, but for the assertion.
Stays(s, t, X) ==
    /\ Shaped(t) /\ Orderly(t)
    /\ s.ready \subseteq t.ready /\ t.replay \subseteq s.replay
    /\ t.issue \subseteq s.issue \cup {0}
    /\ \A st \in Stages : t.pipeline[st] = s.pipeline[st] \/ t.pipeline[st] = 0
    /\ \A v : Kept(s, v) /\ v \notin X => Kept(t, v)

\* Queue, store buffer and callbacks stay.
SameHeld == lsu'.queue = lsu.queue /\ lsu'.stores = lsu.stores /\ lsu'.callbacks = lsu.callbacks

\* A move.
LEMMA MovesHeld ==
    ASSUME NEW X, Moves(lsu, lsu', X)
    PROVE  SameHeld
  BY DEF Moves, SameHeld

\* Keeping is staying.
LEMMA KeepsStays ==
    ASSUME NEW s, NEW t, NEW X, Keeps(s, t, X)
    PROVE  Stays(s, t, X) /\ (s.ok => t.ok)
  BY DEF Keeps, Stays

\* Address calculation and events.
LEMMA EventsKeep ==
    ASSUME IInv, ReadyInv, CalculatesAddress \/ AppendsReady \/ ReplaysReady
    PROVE  Keeps(lsu, lsu', {}) /\ SameHeld
<1>1. Shaped(lsu) /\ Orderly(lsu)
  BY DEF IInv, HeldInv, ReadyInv
<1>2. CASE CalculatesAddress
  <2>1. lsu' = ScheduleIssue(lsu)
    BY <1>2 DEF CalculatesAddress, handleAddressCalculation
  <2>2. Moves(lsu, lsu', {})
    BY <1>1, <2>1, QuietParts
  <2> QED BY <1>1, <2>1, <2>2, ScheduleKeeps, MovesHeld
<1>3. CASE AppendsReady
  <2>1. PICK u \in lsu.append : lsu' = appendReady(lsu, u)
    BY <1>3 DEF AppendsReady
  <2>2. Moves(lsu, lsu', {u})
    BY <1>1, <2>1, EventMoves
  <2> QED BY <1>1, <2>1, <2>2, EventKeeps, MovesHeld
<1>4. CASE ReplaysReady
  <2>1. PICK e \in lsu.replays : lsu' = replayReady(lsu, e)
    BY <1>4 DEF ReplaysReady
  <2>2. Moves(lsu, lsu', {e.uid})
    BY <1>1, <2>1, EventMoves
  <2> QED BY <1>1, <2>1, <2>2, EventKeeps, MovesHeld
<1> QED BY <1>2, <1>3, <1>4

\* The MMU's answer to a miss finds its instruction.
LEMMA TranslationKeeps ==
    ASSUME IInv, ReadyInv, TranslationInv, LSUGetsTranslation
    PROVE  Keeps(lsu, lsu', {}) /\ SameHeld
<1>1. Shaped(lsu) /\ Orderly(lsu)
  BY DEF IInv, HeldInv, ReadyInv
<1>2. PICK u \in mmu_ready : lsu' = handleMMUReadyReq(lsu, u)
  BY DEF LSUGetsTranslation
<1>3. Moves(lsu, lsu', {u})
  BY <1>1, <1>2, AnswerMoves
<1>4. u \in Insts /\ status[u] # "DISPATCHED"
  BY <1>2 DEF IInv, HeldInv, TranslationInv
<1>5. status[u] = "FLUSHED" \/ u \in lsu.queue
  BY <1>2, <1>4 DEF TranslationInv
<1> QED BY <1>1, <1>2, <1>3, <1>5, AnswerKeeps, MovesHeld

\* ROB's message is about the oldest store of the store buffer.
LEMMA OldestStore ==
    ASSUME IInv, InstInv, StoreInv, acks # << >>
    PROVE  LET u == Head(acks)
           IN  u = acks[1] /\ u \in lsu.stores /\ u \in lsu.queue /\ u = Min(lsu.stores)
<1> DEFINE u == acks[1]
<1>1. Head(acks) = u /\ 1 \in DOMAIN acks /\ acks \in Seq(Insts)
  BY DEF IInv, MessageInv
<1>2. u \in lsu.stores /\ u \in lsu.queue /\ u \in Insts /\ status[u] = "RETIRED"
  BY <1>1 DEF StoreInv, IInv, MessageInv
<1>3. Insts \subseteq Nat
  BY InstFacts DEF IInv
<1>4. ASSUME NEW v \in lsu.stores
      PROVE  u <= v
  <2>1. v \in Insts /\ v \in Nat /\ status[v] # "FLUSHED"
    BY <1>3 DEF StoreInv, IInv, HeldInv
  <2>2. CASE v < u
    <3>1. status[v] = "RETIRED"
      BY <1>2, <2>1, <2>2 DEF InstInv
    <3>2. v \in Range(acks)
      BY <3>1 DEF StoreInv
    <3>3. PICK k \in DOMAIN acks : acks[k] = v
      BY <3>2 DEF Range
    <3>4. k \in Nat /\ k > 1
      <4>1. k \in 1..Len(acks) /\ Len(acks) \in Nat
        BY <1>1, <3>3
      <4>2. k # 1
        BY <1>2, <1>3, <2>1, <2>2, <3>3
      <4> QED BY <4>1, <4>2
    <3>5. 1 \in 1..k - 1
      BY <3>4
    <3>6. acks[1] < acks[k]
      BY <3>3, <3>5 DEF StoreInv
    <3>7. u \in Nat /\ u < v
      BY <1>2, <1>3, <3>3, <3>6
    <3> HIDE DEF u
    <3> QED BY <2>1, <2>2, <3>7
  <2>3. u \in Nat
    BY <1>2, <1>3
  <2> HIDE DEF u
  <2> QED BY <2>1, <2>2, <2>3
<1>5. \A v \in lsu.stores : v \in Nat
  BY <1>3 DEF StoreInv, IInv, HeldInv
<1> HIDE DEF u
<1>6. u = Min(lsu.stores)
  <2>1. \A x \in lsu.stores : (\A y \in lsu.stores : x <= y) => x = u
    BY <1>2, <1>4, <1>5, <1>3
  <2>2. \A y \in lsu.stores : u <= y
    BY <1>4
  <2> QED BY <1>2, <2>1, <2>2 DEF Min
<1> QED BY <1>1, <1>2, <1>6 DEF u

\* LSU learns that a store has retired.
LEMMA AckKeeps ==
    ASSUME IInv, ReadyInv, InstInv, StoreInv, LSUGetsAck
    PROVE  /\ Keeps(lsu, lsu', {}) /\ lsu'.queue = lsu.queue /\ lsu'.callbacks = lsu.callbacks
           /\ lsu'.stores = lsu.stores \ {acks[1]} /\ acks[1] \in lsu'.append
<1>1. Shaped(lsu) /\ Orderly(lsu)
  BY DEF IInv, HeldInv, ReadyInv
<1>2. acks # << >> /\ lsu' = getAckFromROB(lsu, Head(acks))
  BY DEF LSUGetsAck
<1>3. /\ Head(acks) = acks[1] /\ acks[1] \in lsu.stores /\ acks[1] \in lsu.queue
      /\ acks[1] = Min(lsu.stores) /\ lsu.stores # {}
  BY <1>2, OldestStore
<1>4. /\ lsu'.queue = lsu.queue /\ lsu'.callbacks = lsu.callbacks
      /\ lsu'.stores = lsu.stores \ {acks[1]}
  <2> DEFINE u == Head(acks)
             t == getAckFromROB(lsu, u)
  <2>1. u \in {u}
    OBVIOUS
  <2> HIDE DEF u
  <2>2. t.queue = lsu.queue /\ t.stores = lsu.stores \ {u} /\ t.callbacks = lsu.callbacks
    BY <1>1, <2>1, AnswerMoves
  <2> QED BY <1>2, <1>3, <2>2 DEF u
<1>5. Keeps(lsu, lsu', {}) /\ acks[1] \in lsu'.append
  BY <1>1, <1>2, <1>3, AnswerKeeps
<1> QED BY <1>4, <1>5

\* Loads that wait for stores are in neither queue.
LEMMA DependentApart ==
    ASSUME IInv
    PROVE  DependentLoads \cap (lsu.ready \cup lsu.replay) = {}
<1>1. \A u : u \in lsu.ready \cup lsu.replay => u \in Working(lsu)
  BY DEF Working
<1> QED BY <1>1, WorkingMay DEF DependentLoads

\* A TLB lookup; a store that gets to it wakes the loads that wait for it.
LEMMA LookupKeeps ==
    ASSUME IInv, ReadyInv, NEW u \in Insts, handleMMULookupReq(u)
    PROVE  /\ Keeps(lsu, lsu', {}) /\ SameHeld
           /\ (isStore(u) /\ ~allow_speculative_load_exec_ /\ ~mem[u].phy
                 => DependentLoads \subseteq lsu'.ready)
<1>1. Shaped(lsu) /\ Orderly(lsu)
  BY DEF IInv, HeldInv, ReadyInv
<1>2. CASE mem[u].phy
  <2>1. lsu' = lsu
    BY <1>2 DEF handleMMULookupReq
  <2> QED BY <1>1, <1>2, <2>1, KeepsSame DEF SameHeld
<1>3. CASE ~mem[u].phy /\ isStore(u) /\ ~allow_speculative_load_exec_
  <2>1. lsu' = readyDependentLoads(lsu)
    BY <1>3 DEF handleMMULookupReq, getAckFromMMU
  <2>2. Moves(lsu, lsu', DependentLoads)
    BY <1>1, <2>1, DependentMoves
  <2> QED BY <1>1, <2>1, <2>2, DependentApart, DependentKeeps, MovesHeld
<1>4. CASE ~mem[u].phy /\ ~(isStore(u) /\ ~allow_speculative_load_exec_)
  <2>1. lsu' = getAckFromMMU(lsu, u)
    BY <1>4 DEF handleMMULookupReq
  <2>2. lsu' = lsu \/ lsu' = abortYoungerLoads(lsu, u)
    BY <2>1 DEF getAckFromMMU
  <2>3. Moves(lsu, lsu', {})
    BY <1>1, <2>2, AbortMoves, MovesNot
  <2>4. Keeps(lsu, lsu', {})
    BY <1>1, <2>2, AbortKeeps, KeepsSame
  <2> QED BY <1>4, <2>3, <2>4, MovesHeld
<1> QED BY <1>2, <1>3, <1>4

\* A cache lookup: what leaves the stage is to be replayed, or is a store that waits for
\* ROB.
LEMMA CacheLookupKeeps ==
    ASSUME IInv, ReadyInv, NEW u \in Insts, AtStage(CACHE_LOOKUP, u), handleCacheLookupReq(u)
    PROVE  /\ Keeps(lsu, lsu', {u}) /\ SameHeld
           /\ ~(mem[u].phy /\ StoreDone(u)) => Keeps(lsu, lsu', {})
           /\ mem[u].phy /\ StoreDone(u) => Kept(lsu', u) \/ u \notin lsu'.replay
<1>1. Shaped(lsu) /\ Orderly(lsu)
  BY DEF IInv, HeldInv, ReadyInv
<1>2. CACHE_LOOKUP \in Stages /\ lsu.pipeline[CACHE_LOOKUP] = u
  BY DEF AtStage, CACHE_LOOKUP, Stages, ADDRESS, COMPLETE
<1>3. CASE Untranslated(u)
  <2>1. lsu' = Retry(lsu, CACHE_LOOKUP, u)
    BY <1>3 DEF handleCacheLookupReq
  <2>2. Keeps(lsu, lsu', {})
    BY <1>1, <1>2, <2>1, RetryKeeps
  <2>3. Moves(lsu, lsu', {u})
    BY <1>1, <1>2, <2>1, RetryMoves
  <2> QED BY <1>3, <2>2, <2>3, MovesHeld DEF Keeps, Untranslated
<1>4. CASE ~Untranslated(u) /\ ~StoreDone(u) /\ ~SpeculationFails(u)
  <2>1. lsu' = lsu
    BY <1>4 DEF handleCacheLookupReq
  <2> QED BY <1>1, <1>4, <2>1, KeepsSame DEF SameHeld
<1>5. CASE ~Untranslated(u) /\ (StoreDone(u) \/ SpeculationFails(u))
  <2> DEFINE s == invalidateStage(lsu, CACHE_LOOKUP)
             t == updateInstReplayReady(s, u)
  <2>1. lsu' = Speculative(s, t)
    BY <1>5 DEF handleCacheLookupReq
  <2>2. Keeps(lsu, s, {u}) /\ s.replay = lsu.replay
    BY <1>1, <1>2, InvalidateKeeps
  <2>3. Moves(lsu, s, {u})
    BY <1>1, <1>2, QuietParts
  <2>4. Shaped(s) /\ Orderly(s)
    BY <2>2 DEF Keeps
  <2> HIDE DEF s
  <2>5. CASE allow_speculative_load_exec_
    <3>1. lsu' = t
      BY <2>1, <2>5 DEF Speculative
    <3>2. Keeps(s, t, {}) /\ u \notin t.replay /\ Queued(t, u)
      BY <2>4, ReplayKeeps
    <3>3. Moves(s, t, {u})
      BY <2>4, ReplayMoves
    <3> HIDE DEF t
    <3>4. Keeps(lsu, t, {u})
      <4>1. Keeps(lsu, t, {u} \cup {})
        BY <2>2, <3>2, KeepsTwice
      <4> QED BY <4>1
    <3>5. Kept(t, u)
      BY <3>2 DEF Kept
    <3>6. Keeps(lsu, t, {})
      BY <3>4, <3>5 DEF Keeps
    <3>7. Moves(lsu, t, {u})
      BY <2>3, <3>3, MovesTwice
    <3> QED BY <3>1, <3>4, <3>5, <3>6, <3>7, MovesHeld
  <2>6. CASE ~allow_speculative_load_exec_
    <3>1. lsu' = s
      BY <2>1, <2>6 DEF Speculative
    <3>2. StoreDone(u)
      BY <1>5, <2>6 DEF SpeculationFails
    <3>3. u \notin s.replay
      BY <1>1, <2>2, <2>6 DEF Orderly
    <3> QED BY <1>5, <2>2, <2>3, <3>1, <3>2, <3>3, MovesHeld DEF Untranslated
  <2> QED BY <2>5, <2>6
<1> QED BY <1>3, <1>4, <1>5

\* A read of the cache: what stays in the stage has its data.
LEMMA CacheReadKeeps ==
    ASSUME IInv, ReadyInv, NEW u \in Insts, AtStage(CACHE_READ, u), handleCacheRead(u)
    PROVE  /\ Keeps(lsu, lsu', {}) /\ SameHeld
           /\ mem[u].cache # "HIT" => lsu'.pipeline[CACHE_READ] = 0
<1>1. Shaped(lsu) /\ Orderly(lsu)
  BY DEF IInv, HeldInv, ReadyInv
<1>2. CACHE_READ \in Stages /\ lsu.pipeline[CACHE_READ] = u
  BY DEF AtStage, CACHE_READ, Stages, ADDRESS, COMPLETE
<1>3. CASE mem[u].cache # "HIT"
  <2>1. lsu' = Retry(lsu, CACHE_READ, u)
    BY <1>3 DEF handleCacheRead
  <2>2. Keeps(lsu, lsu', {}) /\ lsu'.pipeline[CACHE_READ] = 0
    BY <1>1, <1>2, <2>1, RetryKeeps
  <2>3. Moves(lsu, lsu', {u})
    BY <1>1, <1>2, <2>1, RetryMoves
  <2> QED BY <2>2, <2>3, MovesHeld
<1>4. CASE mem[u].cache = "HIT"
  <2>1. lsu' = lsu \/ lsu' = ScheduleIssue(lsu)
    BY <1>4 DEF handleCacheRead
  <2>2. Keeps(lsu, lsu', {})
    BY <1>1, <2>1, ScheduleKeeps, KeepsSame
  <2>3. Moves(lsu, lsu', {})
    BY <1>1, <2>1, QuietParts, MovesNot
  <2> QED BY <1>4, <2>2, <2>3, MovesHeld
<1> QED BY <1>3, <1>4

\* The stages of the cache.
LEMMA CacheKeeps ==
    ASSUME IInv, ReadyInv, CacheLooksUp \/ CacheReads
    PROVE  Keeps(lsu, lsu', {}) /\ SameHeld
<1>1. Shaped(lsu) /\ Orderly(lsu)
  BY DEF IInv, HeldInv, ReadyInv
<1>2. lsu' = lsu \/ \E u, m : lsu' = getAckFromCache(lsu, u, m)
  BY DEF CacheLooksUp, CacheReads
<1>3. CASE lsu' = lsu
  BY <1>1, <1>3, KeepsSame DEF SameHeld
<1>4. CASE \E u, m : lsu' = getAckFromCache(lsu, u, m)
  <2>1. PICK u, m : lsu' = getAckFromCache(lsu, u, m)
    BY <1>4
  <2>2. Moves(lsu, getAckFromCache(lsu, u, m), {u})
    BY <1>1, AnswerMoves
  <2>3. Keeps(lsu, getAckFromCache(lsu, u, m), {})
    BY <1>1, AnswerKeeps
  <2> QED BY <2>1, <2>2, <2>3, MovesHeld
<1> QED BY <1>2, <1>3, <1>4

\* What completeInst_ asserts of an instruction.
MayComplete(u) == /\ isStore(u) => mem[u].phy
                  /\ ~isStore(u) \/ status[u] = "RETIRED" => mem[u].cache = "HIT"

\* An assertion that fails changes nothing else.
LEMMA AssertedStays ==
    ASSUME NEW s, Shaped(s), Orderly(s), NEW c
    PROVE  LET t == Asserted(s, c)
           IN  /\ Stays(s, t, {}) /\ (s.ok /\ c => t.ok)
               /\ t.queue = s.queue /\ t.stores = s.stores /\ t.callbacks = s.callbacks
<1> USE Fields
<1> DEFINE t == Asserted(s, c)
<1>1. /\ DOMAIN t = DOMAIN s /\ t.queue = s.queue /\ t.stores = s.stores /\ t.ready = s.ready
      /\ t.replay = s.replay /\ t.pipeline = s.pipeline /\ t.issue = s.issue
      /\ t.append = s.append /\ t.replays = s.replays /\ t.callbacks = s.callbacks
      /\ (s.ok /\ c => t.ok)
  BY DEF Asserted, Shaped
<1> HIDE DEF t
<1>2. Shaped(t) /\ Orderly(t)
  BY <1>1 DEF Shaped, Orderly, isReadyToIssueInsts, ReplayFull
<1>3. \A v : Kept(s, v) => Kept(t, v)
  BY <1>1 DEF Kept, InStage, Queued
<1> QED BY <1>1, <1>2, <1>3 DEF Stays, t

\* An instruction leaves the queue, and the rest stays.
LEMMA LeavesKeeps ==
    ASSUME NEW s, Shaped(s), Orderly(s), NEW u
    PROVE  LET t == [s EXCEPT !.queue = @ \ {u}]
           IN  /\ Keeps(s, t, {}) /\ t.queue = s.queue \ {u}
               /\ t.stores = s.stores /\ t.callbacks = s.callbacks
<1> USE Fields
<1> DEFINE t == [s EXCEPT !.queue = @ \ {u}]
<1>1. /\ DOMAIN t = DOMAIN s /\ t.queue = s.queue \ {u} /\ t.stores = s.stores
      /\ t.ready = s.ready
      /\ t.replay = s.replay /\ t.pipeline = s.pipeline /\ t.issue = s.issue
      /\ t.append = s.append /\ t.replays = s.replays /\ t.callbacks = s.callbacks
      /\ t.ok = s.ok
  BY DEF Shaped
<1> HIDE DEF t
<1>2. t.ready \cap t.replay = {}
  BY <1>1 DEF Orderly
<1>3. \A e \in t.replays : DOMAIN e = {"uid", "due"} /\ e.due \in 0..ReplayIssueDelay
  BY <1>1 DEF Orderly, Shaped
<1>4. Keeps(s, t, {})
  BY <1>1, <1>2, <1>3, KeepsMore
<1> QED BY <1>1, <1>4 DEF t

\* An instruction completes.
LEMMA CompleteStays ==
    ASSUME IInv, ReadyInv, NEW u \in Insts, completeInst(u), mem[u].data
    PROVE  /\ Stays(lsu, lsu', {}) /\ (lsu.ok /\ MayComplete(u) => lsu'.ok)
           /\ lsu'.queue = IF Finishes(u) THEN lsu.queue \ {u} ELSE lsu.queue
           /\ lsu'.stores = lsu.stores /\ lsu'.callbacks = lsu.callbacks
<1>1. Shaped(lsu) /\ Orderly(lsu)
  BY DEF IInv, HeldInv, ReadyInv
<1> DEFINE a == Asserted(lsu, MayComplete(u))
           b == ScheduleIssue(a)
           d == IF Finishes(u) THEN [b EXCEPT !.queue = @ \ {u}] ELSE b
           e == removeInstFromReplayQueue(d, {u})
<1>2. lsu' = d \/ lsu' = e
  BY DEF completeInst, MayComplete, Speculative
<1>3. /\ Stays(lsu, a, {}) /\ (lsu.ok /\ MayComplete(u) => a.ok)
      /\ a.queue = lsu.queue /\ a.stores = lsu.stores /\ a.callbacks = lsu.callbacks
  BY <1>1, AssertedStays
<1> HIDE DEF a
<1>4. Keeps(a, b, {}) /\ Moves(a, b, {})
  BY <1>3, ScheduleKeeps, QuietParts DEF Stays
<1> HIDE DEF b
<1>5. Shaped(b) /\ Orderly(b)
  BY <1>4 DEF Keeps
<1>6. /\ Keeps(b, d, {}) /\ d.queue = IF Finishes(u) THEN b.queue \ {u} ELSE b.queue
      /\ d.stores = b.stores /\ d.callbacks = b.callbacks
  BY <1>5, LeavesKeeps, KeepsSame
<1> HIDE DEF d
<1>7. Shaped(d) /\ Orderly(d)
  BY <1>6 DEF Keeps
<1>8. Keeps(d, e, {}) /\ Moves(d, e, {}) /\ Keeps(d, d, {})
  BY <1>7, PartsKeep, QuietParts, KeepsSame
<1> HIDE DEF e
<1>9. Keeps(a, lsu', {})
  BY <1>2, <1>4, <1>6, <1>8, KeepsOn
<1>10. /\ lsu'.queue = IF Finishes(u) THEN lsu.queue \ {u} ELSE lsu.queue
       /\ lsu'.stores = lsu.stores /\ lsu'.callbacks = lsu.callbacks
  BY <1>2, <1>3, <1>4, <1>6, <1>8 DEF Moves
<1>11. Stays(lsu, lsu', {}) /\ (lsu.ok /\ MayComplete(u) => lsu'.ok)
  BY <1>3, <1>9 DEF Keeps, Stays
<1> QED BY <1>10, <1>11

\* A load that has its operands but may not pass an older store.
Blocked(u, rdy) == /\ ~allow_speculative_load_exec_ /\ ~isStore(u) /\ Inst(u).src \in rdy
                   /\ ~allOlderStoresIssued(u)

\* The operand check of dispatched instructions loses none of them.
LEMMA CheckKeeps ==
    ASSUME IInv, NEW s, Shaped(s), Orderly(s), s.ready = lsu.ready, s.replay = lsu.replay,
           NEW us, us \subseteq s.queue, us \subseteq Insts, \A u \in us : status[u] = "DISPATCHED",
           NEW rdy, lsu' = handleOperandIssueCheck(s, us, rdy)
    PROVE  /\ Keeps(s, lsu', {})
           /\ \A u \in us : \/ Kept(lsu', u)
                            \/ /\ u \notin lsu'.replay /\ u \notin Schedulable(us, rdy)
                               /\ Blocked(u, rdy)
<1>1. \A u \in lsu.ready \cup lsu.replay : status[u] # "DISPATCHED"
  BY WorkingMay DEF Working
<1>2. Schedulable(us, rdy) \subseteq us
  BY DEF Schedulable
<1>3. Schedulable(us, rdy) \cap (s.ready \cup s.replay) = {}
  BY <1>1, <1>2
<1>4. /\ Keeps(s, lsu', {}) /\ Schedulable(us, rdy) \subseteq lsu'.ready
      /\ \A u \in us : status[u] # "SCHEDULED" /\ Awaits(u, rdy) # {} =>
                          \E c \in lsu'.callbacks : c.uid = u
  BY <1>2, <1>3, OperandCheckKeeps
<1>5. ASSUME NEW u \in us
      PROVE  Kept(lsu', u) \/ (u \notin lsu'.replay /\ u \notin Schedulable(us, rdy) /\ Blocked(u, rdy))
  <2>1. u \notin lsu'.replay
    BY <1>1, <1>4, <1>5 DEF Keeps
  <2>2. CASE u \in Schedulable(us, rdy)
    BY <1>4, <2>1, <2>2 DEF Kept, Queued
  <2>3. CASE Awaits(u, rdy) # {}
    BY <1>4, <1>5, <2>1, <2>3 DEF Kept, Queued
  <2>4. CASE u \notin Schedulable(us, rdy) /\ Awaits(u, rdy) = {}
    <3>1. Inst(u).src \in rdy
      BY <2>4 DEF Awaits
    <3> QED BY <1>5, <2>1, <2>4, <3>1 DEF Schedulable, Blocked
  <2> QED BY <2>2, <2>3, <2>4
<1> QED BY <1>4, <1>5

\* A register becomes ready.
LEMMA RegisterKeeps ==
    ASSUME IInv, ReadyInv, NEW r, RegisterReady(r)
    PROVE  LET us == {c.uid : c \in {d \in lsu.callbacks : d.reg = r}}
           IN  /\ Keeps(lsu, lsu', us) /\ us \subseteq lsu.queue
               /\ lsu'.queue = lsu.queue /\ lsu'.stores = lsu.stores
               /\ status' = Scheduled(Schedulable(us, ready'))
               /\ \A u \in us : status[u] = "DISPATCHED"
               /\ \A u \in us : \/ Kept(lsu', u)
                                \/ /\ u \notin lsu'.replay /\ u \notin Schedulable(us, ready')
                                   /\ Blocked(u, ready')
<1> DEFINE us == {c.uid : c \in {d \in lsu.callbacks : d.reg = r}}
           s == [lsu EXCEPT !.callbacks = {c \in @ : c.reg # r}]
<1>1. Shaped(lsu) /\ Orderly(lsu)
  BY DEF IInv, HeldInv, ReadyInv
<1>2. lsu' = handleOperandIssueCheck(s, us, ready') /\ status' = Scheduled(Schedulable(us, ready'))
  BY DEF RegisterReady
<1>3. us \subseteq lsu.queue /\ us \subseteq Insts /\ \A u \in us : status[u] = "DISPATCHED"
  BY DEF IInv, HeldInv
<1>4. /\ DOMAIN s = DOMAIN lsu /\ s.queue = lsu.queue /\ s.stores = lsu.stores
      /\ s.ready = lsu.ready /\ s.replay = lsu.replay /\ s.pipeline = lsu.pipeline
      /\ s.issue = lsu.issue /\ s.append = lsu.append /\ s.replays = lsu.replays /\ s.ok = lsu.ok
      /\ s.callbacks = {c \in lsu.callbacks : c.reg # r}
  BY <1>1, Fields DEF Shaped
<1>5. \A c \in lsu.callbacks : c.uid \notin us => c \in s.callbacks
  BY <1>4
<1> HIDE DEF us, s
<1>6. Shaped(s) /\ Orderly(s)
  BY <1>1, <1>4 DEF Shaped, Orderly, isReadyToIssueInsts, ReplayFull
<1>7. \A v : Kept(lsu, v) /\ v \notin us => Kept(s, v)
  BY <1>4, <1>5 DEF Kept, InStage, Queued
<1>8. Keeps(lsu, s, us)
  BY <1>4, <1>6, <1>7 DEF Keeps
<1>9. /\ Keeps(s, lsu', {})
      /\ \A u \in us : \/ Kept(lsu', u)
                       \/ /\ u \notin lsu'.replay /\ u \notin Schedulable(us, ready')
                          /\ Blocked(u, ready')
  BY <1>2, <1>3, <1>4, <1>6, CheckKeeps
<1>10. Keeps(lsu, lsu', us)
  <2>1. Keeps(lsu, lsu', us \cup {})
    BY <1>8, <1>9, KeepsTwice
  <2> QED BY <2>1
<1>11. lsu'.queue = lsu.queue /\ lsu'.stores = lsu.stores
  BY <1>2, <1>4, <1>6, OperandCheckDoes
<1> QED BY <1>2, <1>3, <1>9, <1>10, <1>11 DEF us

\* LSU gets an instruction, for which there is room.
LEMMA ReceiveKeeps ==
    ASSUME IInv, ReadyInv, LSUReceives
    PROVE  LET u == Head(to_lsu)
           IN  /\ Keeps(lsu, lsu', {}) /\ u \in Insts /\ status[u] = "DISPATCHED"
               /\ lsu'.queue = lsu.queue \cup {u}
               /\ lsu'.stores = lsu.stores \cup (IF isStore(u) THEN {u} ELSE {})
               /\ status' = Scheduled(Schedulable({u}, ready))
               /\ u \notin lsu.queue /\ \A v \in lsu.queue : v < u
               /\ \/ Kept(lsu', u)
                  \/ /\ u \notin lsu'.replay /\ u \notin Schedulable({u}, ready)
                     /\ Blocked(u, ready)
<1> DEFINE u == Head(to_lsu)
           c == Cardinality(lsu.queue) < QueueSize
           a == Asserted(lsu, c)
           q == lsu.queue \cup {u}
           x == lsu.stores \cup (IF isStore(u) THEN {u} ELSE {})
           s == [a EXCEPT !.queue = @ \cup {u}, !.stores = @ \cup (IF isStore(u) THEN {u} ELSE {})]
<1>1. Shaped(lsu) /\ Orderly(lsu)
  BY DEF IInv, HeldInv, ReadyInv
<1>2. /\ lsu' = handleOperandIssueCheck(s, {u}, ready)
      /\ status' = Scheduled(Schedulable({u}, ready)) /\ to_lsu # << >>
  BY DEF LSUReceives, getInstsFromDispatch
<1>3. u = to_lsu[1] /\ 1 \in DOMAIN to_lsu /\ Len(to_lsu) \in Nat /\ Len(to_lsu) > 0
  BY <1>2 DEF IInv, MessageInv
<1>4. u \in Insts /\ status[u] = "DISPATCHED" /\ \A v \in lsu.queue : v < u
  BY <1>3 DEF IInv, MessageInv
<1>5. u \notin lsu.queue
  <2>1. u \in Nat
    BY <1>4, InstFacts DEF IInv
  <2> HIDE DEF u
  <2> QED BY <1>4, <2>1
<1>6. c
  <2>1. lsu.queue \subseteq Insts /\ credits \in Nat
    BY DEF IInv, HeldInv, MessageInv
  <2>2. Cardinality(lsu.queue) \in Nat
    BY <2>1, QueueFinite DEF IInv
  <2>3. credits + Cardinality(lsu.queue) + Len(to_lsu) = QueueSize
    BY DEF IInv, CreditsConserved
  <2> QED BY <1>3, <2>1, <2>2, <2>3
<1> HIDE DEF c, u
<1>7. Keeps(lsu, a, {}) /\ DOMAIN a = DOMAIN lsu /\ a.ready = lsu.ready /\ a.replay = lsu.replay
      /\ a.queue = lsu.queue /\ a.stores = lsu.stores
  <2>1. Keeps(lsu, a, {})
    BY <1>1, <1>6, PartsKeep
  <2>2. /\ DOMAIN a = DOMAIN lsu /\ a.ready = lsu.ready /\ a.replay = lsu.replay
        /\ a.queue = lsu.queue /\ a.stores = lsu.stores
    BY <1>1, Fields DEF Asserted, Shaped
  <2> QED BY <2>1, <2>2
<1>8. Shaped(a) /\ Orderly(a)
  BY <1>7 DEF Keeps
<1> HIDE DEF a
<1>9. /\ DOMAIN s = DOMAIN a /\ s.queue = q /\ s.stores = x
      /\ s.ready = a.ready /\ s.replay = a.replay /\ s.pipeline = a.pipeline
      /\ s.issue = a.issue /\ s.append = a.append /\ s.replays = a.replays /\ s.ok = a.ok
      /\ s.callbacks = a.callbacks
  BY <1>7, <1>8, Fields DEF Shaped
<1> HIDE DEF s
<1>10. Keeps(a, s, {})
  <2>1. s.ready \cap s.replay = {}
    BY <1>8, <1>9 DEF Orderly
  <2>2. \A e \in s.replays : DOMAIN e = {"uid", "due"} /\ e.due \in 0..ReplayIssueDelay
    BY <1>8, <1>9 DEF Orderly, Shaped
  <2> QED BY <1>8, <1>9, <2>1, <2>2, KeepsMore
<1>11. Keeps(lsu, s, {}) /\ Shaped(s) /\ Orderly(s)
  BY <1>7, <1>10, KeepsOn DEF Keeps
<1>12. /\ Keeps(s, lsu', {})
       /\ \A v \in {u} : \/ Kept(lsu', v)
                         \/ /\ v \notin lsu'.replay /\ v \notin Schedulable({u}, ready)
                            /\ Blocked(v, ready)
  <2>1. {u} \subseteq s.queue /\ {u} \subseteq Insts /\ \A v \in {u} : status[v] = "DISPATCHED"
    BY <1>4, <1>9
  <2>2. s.ready = lsu.ready /\ s.replay = lsu.replay
    BY <1>7, <1>9
  <2> QED BY <1>2, <1>11, <2>1, <2>2, CheckKeeps
<1>13. lsu'.queue = s.queue /\ lsu'.stores = s.stores
  BY <1>2, <1>11, OperandCheckDoes
<1>14. Keeps(lsu, lsu', {})
  BY <1>11, <1>12, KeepsOn
<1> QED BY <1>2, <1>4, <1>5, <1>9, <1>12, <1>13, <1>14 DEF u

-----------------------------------------------------------------------------
(* What the actions do to instructions.                                    *)

\* The requests of LSU that the cache has.
LEMMA InCacheIs ==
    ASSUME IInv, IInv'
    PROVE  /\ \A u : u \in InCache <=>
                 \/ u = lsu_mem_access_info_
                 \/ ~cache_pipeline_.LOOKUP.refill /\ u = cache_pipeline_.LOOKUP.uid
                 \/ ~cache_pipeline_.DATA_READ.refill /\ u = cache_pipeline_.DATA_READ.uid
           /\ \A u : u \in InCache' <=>
                 \/ u = lsu_mem_access_info_'
                 \/ ~cache_pipeline_'.LOOKUP.refill /\ u = cache_pipeline_'.LOOKUP.uid
                 \/ ~cache_pipeline_'.DATA_READ.refill /\ u = cache_pipeline_'.DATA_READ.uid
<1>1. DOMAIN cache_pipeline_ = {"LOOKUP", "DATA_READ"} /\ DOMAIN cache_pipeline_' = {"LOOKUP", "DATA_READ"}
  BY DEF IInv, HeldInv
<1>2. \A u : u \in InCache <=>
                 \/ u = lsu_mem_access_info_
                 \/ \E st \in {"LOOKUP", "DATA_READ"} : ~cache_pipeline_[st].refill /\ u = cache_pipeline_[st].uid
  BY <1>1 DEF InCache
<1>3. \A u : u \in InCache' <=>
                 \/ u = lsu_mem_access_info_'
                 \/ \E st \in {"LOOKUP", "DATA_READ"} : ~cache_pipeline_'[st].refill /\ u = cache_pipeline_'[st].uid
  BY <1>1 DEF InCache
<1> QED BY <1>2, <1>3

\* The cache gets no request of LSU when it takes one into its pipeline, or moves on.
LEMMA InCacheShrinks ==
    ASSUME IInv, IInv', nextPhase \/ CacheArbitrates
    PROVE  InCache' \subseteq InCache \cup {0}
<1>1. CASE CacheArbitrates
  <2>1. /\ lsu_mem_access_info_' = 0
        /\ cache_pipeline_'.DATA_READ = cache_pipeline_.DATA_READ
        /\ cache_pipeline_'.LOOKUP = IF l2_mem_access_info_ # 0
                                     THEN [uid |-> l2_mem_access_info_, refill |-> TRUE]
                                     ELSE [uid |-> lsu_mem_access_info_, refill |-> FALSE]
    BY <1>1 DEF CacheArbitrates, arbitrateL2LsuReq, IInv, HeldInv
  <2> QED BY <2>1, InCacheIs
<1>2. CASE nextPhase /\ phase = "tick"
  <2>1. /\ cache_pipeline_' = [LOOKUP |-> Empty, DATA_READ |-> cache_pipeline_.LOOKUP]
        /\ UNCHANGED lsu_mem_access_info_
    BY <1>2 DEF nextPhase, AdvanceCachePipeline
  <2>2. /\ cache_pipeline_'.LOOKUP.uid = 0 /\ cache_pipeline_'.DATA_READ = cache_pipeline_.LOOKUP
    BY <2>1 DEF Empty
  <2> QED BY <2>1, <2>2, InCacheIs
<1>3. CASE nextPhase /\ phase # "tick"
  <2>1. UNCHANGED <<lsu_mem_access_info_, cache_pipeline_>>
    BY <1>3 DEF nextPhase, dcacheVars
  <2> QED BY <2>1, InCacheIs
<1> QED BY <1>1, <1>2, <1>3

\* One access changes.
LEMMA AccessChanges ==
    ASSUME IInv, NEW u \in Insts, NEW m, mem' = [mem EXCEPT ![u] = m]
    PROVE  \A v \in Insts : mem'[v] = IF v = u THEN m ELSE mem[v]
<1>1. DOMAIN mem = Insts
  BY InstFacts DEF IInv
<1> QED BY <1>1

\* A TLB lookup may translate one instruction.
LEMMA LookupAccess ==
    ASSUME IInv, NEW u \in Insts, handleMMULookupReq(u)
    PROVE  /\ \A v \in Insts : /\ mem'[v].data = mem[v].data /\ mem'[v].cache = mem[v].cache
                               /\ (v # u => mem'[v] = mem[v])
           /\ (mem'[u].phy <=> mem[u].phy \/ memLookup(u))
           /\ UNCHANGED <<dcacheVars, tlb_cache_, mmu_ready>>
<1>1. mem[u] \in AccessType
  BY InstFacts DEF IInv
<1>2. CASE mem[u].phy
  BY <1>2 DEF handleMMULookupReq, instVars, mmuVars
<1>3. CASE ~mem[u].phy
  <2> DEFINE m == [mem[u] EXCEPT !.phy = memLookup(u)]
  <2>1. mem' = [mem EXCEPT ![u] = m] /\ UNCHANGED <<dcacheVars, tlb_cache_, mmu_ready>>
    BY <1>3 DEF handleMMULookupReq, getInstsFromLSU
  <2>2. m.data = mem[u].data /\ m.cache = mem[u].cache /\ (m.phy <=> memLookup(u))
    BY <1>1 DEF AccessType
  <2> HIDE DEF m
  <2>3. \A v \in Insts : mem'[v] = IF v = u THEN m ELSE mem[v]
    BY <2>1, AccessChanges
  <2> QED BY <1>3, <2>1, <2>2, <2>3
<1> QED BY <1>2, <1>3

\* A cache lookup may forward data to a load, or ask the cache.
LEMMA CacheLookupAccess ==
    ASSUME IInv, NEW u \in Insts, handleCacheLookupReq(u)
    PROVE  /\ \A v \in Insts : (mem'[v].phy <=> mem[v].phy) /\ (v # u => mem'[v] = mem[v])
           /\ mem'[u] = mem[u] \/ (/\ mem[u].phy /\ ~isStore(u)
                                   /\ mem'[u].data /\ mem'[u].cache = "HIT")
           /\ \/ lsu_mem_access_info_' = lsu_mem_access_info_
              \/ /\ lsu_mem_access_info_' = u /\ mem[u].phy /\ mem[u].cache # "HIT"
                 /\ (isStore(u) => status[u] = "RETIRED")
                 /\ mem' = mem
           /\ UNCHANGED <<l2_mem_access_info_, cache_pipeline_, mshr_file_, uev_mshr_request_,
                          l2cache_req, l1_cache_, mmuVars>>
<1>1. mem[u] \in AccessType
  BY InstFacts DEF IInv
<1> DEFINE stays == ~Untranslated(u) /\ ~StoreDone(u) /\ ~SpeculationFails(u)
           m == [mem[u] EXCEPT !.data = TRUE, !.cache = "HIT"]
<1>2. /\ mem' = IF stays /\ Forwarded(u) THEN [mem EXCEPT ![u].data = TRUE, ![u].cache = "HIT"] ELSE mem
      /\ IF stays /\ ~Forwarded(u) /\ ~CacheBypass(u)
           THEN lsu_mem_access_info_' = u ELSE UNCHANGED lsu_mem_access_info_
      /\ UNCHANGED <<l2_mem_access_info_, cache_pipeline_, mshr_file_, uev_mshr_request_,
                     l2cache_req, l1_cache_, mmuVars>>
  BY DEF handleCacheLookupReq, receiveMemReqFromLSU
<1>3. CASE stays /\ Forwarded(u)
  <2>1. mem' = [mem EXCEPT ![u] = m] /\ UNCHANGED lsu_mem_access_info_
    <3>1. DOMAIN mem = Insts
      BY InstFacts DEF IInv
    <3> QED BY <1>1, <1>2, <1>3, <3>1 DEF AccessType
  <2>2. m.data /\ m.cache = "HIT" /\ (m.phy <=> mem[u].phy) /\ mem[u].phy /\ ~isStore(u)
    BY <1>1, <1>3 DEF AccessType, Untranslated, Forwarded
  <2> HIDE DEF m
  <2>3. \A v \in Insts : mem'[v] = IF v = u THEN m ELSE mem[v]
    BY <2>1, AccessChanges
  <2> QED BY <1>2, <2>1, <2>2, <2>3
<1>4. CASE ~(stays /\ Forwarded(u))
  BY <1>2, <1>4 DEF CacheBypass, Untranslated
<1> QED BY <1>3, <1>4

\* A read gives data to what has hit.
LEMMA CacheReadAccess ==
    ASSUME IInv, NEW u \in Insts, handleCacheRead(u)
    PROVE  /\ \A v \in Insts : /\ (mem'[v].phy <=> mem[v].phy) /\ mem'[v].cache = mem[v].cache
                               /\ (v # u => mem'[v] = mem[v])
           /\ (mem'[u].data <=> mem[u].data \/ mem[u].cache = "HIT")
           /\ UNCHANGED <<status, dcacheVars, mmuVars>>
<1>1. mem[u] \in AccessType
  BY InstFacts DEF IInv
<1> DEFINE m == [mem[u] EXCEPT !.data = @ \/ mem[u].cache = "HIT"]
<1>2. mem' = [mem EXCEPT ![u] = m] /\ UNCHANGED <<status, dcacheVars, mmuVars>>
  BY DEF handleCacheRead
<1>3. m.cache = mem[u].cache /\ (m.phy <=> mem[u].phy) /\ (m.data <=> mem[u].data \/ mem[u].cache = "HIT")
  BY <1>1 DEF AccessType
<1> HIDE DEF m
<1>4. \A v \in Insts : mem'[v] = IF v = u THEN m ELSE mem[v]
  BY <1>2, AccessChanges
<1> QED BY <1>2, <1>3, <1>4

\* The cache looks up a request of LSU.
LEMMA CacheLooksUpAccess ==
    ASSUME IInv, CacheLooksUp
    PROVE  LET u == cache_pipeline_.LOOKUP.uid
           IN  /\ \A v \in Insts : /\ (mem'[v].phy <=> mem[v].phy) /\ (mem'[v].data <=> mem[v].data)
                                   /\ (v # u \/ cache_pipeline_.LOOKUP.refill => mem'[v] = mem[v])
               /\ (u \in Insts /\ ~cache_pipeline_.LOOKUP.refill =>
                     mem'[u].cache = IF dataLookup(u) \/ (~NoMSHR(u) /\ isStore(u))
                                     THEN "HIT" ELSE "MISS")
               /\ UNCHANGED <<lsu_mem_access_info_, cache_pipeline_, l2_mem_access_info_,
                              uev_mshr_request_, l2cache_req, l1_cache_, program, params, pid, status,
                              ready, mmuVars, phase, stages_due, envVars>>
<1> DEFINE e == cache_pipeline_.LOOKUP
           u == e.uid
<1>1. /\ UNCHANGED <<phase, program, params, pid, status, ready, mmuVars, stages_due, envVars>>
      /\ IF e.refill THEN UNCHANGED <<mem, lsu, dcacheVars>> ELSE handleLookup(u)
  BY DEF CacheLooksUp, AtCacheStage
<1>2. UNCHANGED <<lsu_mem_access_info_, cache_pipeline_, l2_mem_access_info_, uev_mshr_request_,
                  l2cache_req, l1_cache_>>
  BY <1>1 DEF handleLookup, dcacheVars
<1>3. CASE e.refill
  BY <1>1, <1>2, <1>3
<1>4. CASE ~e.refill
  <2> DEFINE x == IF dataLookup(u) \/ (~NoMSHR(u) /\ isStore(u)) THEN "HIT" ELSE "MISS"
             m == [mem[u] EXCEPT !.cache = x]
  <2>1. mem' = [mem EXCEPT ![u] = m]
    BY <1>1, <1>4 DEF handleLookup
  <2>2. u = 0 \/ (u \in Insts /\ mem[u] \in AccessType)
    BY <1>4, InPipe
  <2>3. 0 \notin Insts
    BY InstFacts DEF IInv
  <2> HIDE DEF x, e, u
  <2>4. CASE u = 0
    <3>1. mem' = mem
      BY <2>1, <2>4, NoInstZero
    <3> QED BY <1>1, <1>2, <2>3, <2>4, <3>1 DEF u, e
  <2>5. CASE u # 0
    <3>1. m.cache = x /\ (m.phy <=> mem[u].phy) /\ (m.data <=> mem[u].data)
      BY <2>2, <2>5 DEF AccessType
    <3> HIDE DEF m
    <3>2. \A v \in Insts : mem'[v] = IF v = u THEN m ELSE mem[v]
      BY <2>1, <2>2, <2>5, AccessChanges
    <3> QED BY <1>1, <1>2, <1>4, <3>1, <3>2 DEF u, e, x
  <2> QED BY <2>4, <2>5
<1> QED BY <1>3, <1>4

\* The cache reads for a request of LSU, or loads a line.
LEMMA CacheReadsAccess ==
    ASSUME IInv, CacheReads
    PROVE  LET u == cache_pipeline_.DATA_READ.uid
           IN  /\ \A v \in Insts : /\ (mem'[v].phy <=> mem[v].phy) /\ mem'[v].cache = mem[v].cache
                                   /\ (mem[v].data => mem'[v].data)
                                   /\ (v # u \/ cache_pipeline_.DATA_READ.refill => mem'[v] = mem[v])
               /\ UNCHANGED <<lsu_mem_access_info_, cache_pipeline_, l2_mem_access_info_, mshr_file_,
                              program, params, pid, status,
                              ready, mmuVars, phase, stages_due, envVars>>
<1> DEFINE e == cache_pipeline_.DATA_READ
           u == e.uid
<1>1. /\ UNCHANGED <<phase, program, params, pid, status, ready, mmuVars, stages_due, envVars>>
      /\ IF e.refill THEN handleDataReadRefill(u) ELSE handleDataRead(u)
  BY DEF CacheReads, AtCacheStage
<1>2. UNCHANGED <<lsu_mem_access_info_, cache_pipeline_, l2_mem_access_info_, mshr_file_>>
  BY <1>1 DEF handleDataRead, handleDataReadRefill
<1>3. CASE e.refill
  <2>1. mem' = mem
    BY <1>1, <1>3 DEF handleDataReadRefill
  <2> QED BY <1>1, <1>2, <1>3, <2>1
<1>4. CASE ~e.refill
  <2> DEFINE m == [mem[u] EXCEPT !.data = TRUE]
  <2>1. mem' = [mem EXCEPT ![u] = m] \/ mem' = mem
    BY <1>1, <1>4 DEF handleDataRead
  <2>2. u = 0 \/ (u \in Insts /\ mem[u] \in AccessType)
    BY <1>4, InPipe
  <2> HIDE DEF e, u
  <2>3. CASE u = 0 \/ mem' = mem
    <3>1. mem' = mem
      BY <2>1, <2>3, NoInstZero
    <3> QED BY <1>1, <1>2, <3>1 DEF u, e
  <2>4. CASE u # 0 /\ mem' = [mem EXCEPT ![u] = m]
    <3>1. m.cache = mem[u].cache /\ (m.phy <=> mem[u].phy) /\ m.data
      BY <2>2, <2>4 DEF AccessType
    <3> HIDE DEF m
    <3>2. \A v \in Insts : mem'[v] = IF v = u THEN m ELSE mem[v]
      BY <2>2, <2>4, AccessChanges
    <3> QED BY <1>1, <1>2, <1>4, <3>1, <3>2 DEF u, e
  <2> QED BY <2>1, <2>3, <2>4
<1> QED BY <1>3, <1>4

-----------------------------------------------------------------------------
(* InstInv.                                                                *)

\* A step of the unit.
LEMMA InstStep ==
    ASSUME IInv, InstInv, UNCHANGED <<program, pid, next_pid>>,
           \A u \in Insts : /\ status'[u] = "RETIRED" <=> status[u] = "RETIRED"
                            /\ status'[u] = "FLUSHED" <=> status[u] = "FLUSHED"
                            /\ mem[u].phy => mem'[u].phy
                            /\ mem'[u].data \/ mem'[u].cache # "NO_ACCESS" \/ u \in InCache'
                                 => Used(u) \/ (mem[u].phy /\ (isStore(u) => status[u] = "RETIRED")),
           \A u \in lsu'.queue : ~isStore(u) => status'[u] \in {"DISPATCHED", "SCHEDULED"}
    PROVE  InstInv'
<1>1. Insts' = Insts /\ \A u : isStore(u)' <=> isStore(u)
  BY DEF Insts, isStore, Inst
<1>2. \A u \in Insts : status[u] \in InstStatus
  BY InstFacts DEF IInv
<1>3. \A u \in Insts : Used(u)' => (mem[u].phy)' /\ (isStore(u)' => status'[u] = "RETIRED")
  BY <1>1 DEF InstInv, Used
<1>4. \A u \in lsu'.queue : ~isStore(u)' => status'[u] \in {"DISPATCHED", "SCHEDULED"}
  BY <1>1
<1>5. \A u, v \in Insts : status'[u] = "RETIRED" /\ v < u => status'[v] \in {"RETIRED", "FLUSHED"}
  BY DEF InstInv
<1>6. \A u \in Live' : pid'[u] < next_pid'
  BY <1>1 DEF InstInv, Live
<1> QED BY <1>1, <1>3, <1>4, <1>5, <1>6 DEF InstInv

\* Nothing becomes of instructions.
LEMMA InstQuiet ==
    ASSUME IInv, InstInv, UNCHANGED <<program, instVars, next_pid>>,
           lsu'.queue \subseteq lsu.queue, InCache' \subseteq InCache \cup {0}
    PROVE  InstInv'
<1>1. 0 \notin Insts
  BY InstFacts DEF IInv
<1>2. \A u \in lsu'.queue : ~isStore(u) => status'[u] \in {"DISPATCHED", "SCHEDULED"}
  BY DEF InstInv, instVars
<1> QED BY <1>1, <1>2, InstStep DEF instVars, Used

\* Actions that change no instruction.
LEMMA QuietInstInv ==
    ASSUME IInv, IInv', InstInv, ReadyInv, StoreInv, TranslationInv,
           \/ CalculatesAddress \/ AppendsReady \/ ReplaysReady \/ Issues \/ MMULoadsEntry
           \/ LSUGetsTranslation \/ CacheAsksL2 \/ L2Responds \/ CacheArbitrates \/ LSUGetsAck
           \/ nextPhase
    PROVE  InstInv'
<1>1. UNCHANGED <<program, instVars, next_pid>>
  BY DEF CalculatesAddress, AtStage, handleAddressCalculation, AppendsReady, ReplaysReady, Issues,
         MMULoadsEntry, LSUGetsTranslation, CacheAsksL2, L2Responds, CacheArbitrates, LSUGetsAck,
         nextPhase, envVars
<1>2. lsu'.queue = lsu.queue
  <2>1. CASE CalculatesAddress \/ AppendsReady \/ ReplaysReady
    BY <2>1, EventsKeep DEF SameHeld
  <2>2. CASE Issues
    <3>1. \A u \in lsu.ready : u \in Nat
      BY WorkingMay, InstFacts DEF Working, IInv
    <3>2. issueInst /\ Shaped(lsu)
      BY <2>2 DEF Issues, IInv, HeldInv
    <3> QED BY <3>1, <3>2, IssueMoves DEF Moves
  <2>3. CASE LSUGetsTranslation
    BY <2>3, TranslationKeeps DEF SameHeld
  <2>4. CASE LSUGetsAck
    BY <2>4, AckKeeps
  <2>5. CASE nextPhase
    <3>1. \/ lsu' = lsu \/ lsu' = AdvancePipeline(lsu) \/ lsu' = AgedLSU(lsu)
      BY <2>5 DEF nextPhase, IInv, MessageInv
    <3> QED BY <3>1, ClockMoves DEF Moves, IInv, HeldInv
  <2>6. CASE MMULoadsEntry \/ CacheAsksL2 \/ L2Responds \/ CacheArbitrates
    BY <2>6 DEF MMULoadsEntry, CacheAsksL2, L2Responds, CacheArbitrates
  <2> QED BY <2>1, <2>2, <2>3, <2>4, <2>5, <2>6
<1>3. InCache' \subseteq InCache \cup {0}
  <2>1. CASE CacheArbitrates \/ nextPhase
    BY <2>1, InCacheShrinks
  <2>2. CASE ~(CacheArbitrates \/ nextPhase)
    <3>1. UNCHANGED <<lsu_mem_access_info_, cache_pipeline_>>
      BY <2>2 DEF CalculatesAddress, handleAddressCalculation, AppendsReady, ReplaysReady, Issues,
           MMULoadsEntry, LSUGetsTranslation, CacheAsksL2, L2Responds, LSUGetsAck, dcacheVars,
           mshrRequest, receiveRespFromL2Cache
    <3> QED BY <3>1, InCacheIs
  <2> QED BY <2>1, <2>2
<1> QED BY <1>1, <1>2, <1>3, InstQuiet

\* The TLB lookup.
LEMMA LooksUpMMUInstInv ==
    ASSUME IInv, IInv', InstInv, ReadyInv, LooksUpMMU
    PROVE  InstInv'
<1>1. PICK u \in Insts : AtStage(MMU_LOOKUP, u) /\ handleMMULookupReq(u)
  BY DEF LooksUpMMU
<1>2. UNCHANGED <<program, pid, next_pid>>
  BY <1>1 DEF AtStage, handleMMULookupReq, instVars
<1>3. lsu'.queue = lsu.queue
  BY <1>1, LookupKeeps DEF SameHeld
<1>4. InCache' = InCache
  BY <1>1, LookupAccess DEF dcacheVars, InCache
<1>5. \A v \in Insts : /\ mem'[v].data = mem[v].data /\ mem'[v].cache = mem[v].cache
                       /\ (mem[v].phy => mem'[v].phy)
  BY <1>1, LookupAccess
<1>6. status' = status \/ status' = Scheduled(DependentLoads)
  BY <1>1 DEF handleMMULookupReq, instVars
<1>7. DOMAIN status = Insts
  BY InstFacts DEF IInv
<1>8. \A v \in Insts : status'[v] = status[v] \/ (status[v] = "DISPATCHED" /\ status'[v] = "SCHEDULED")
  BY <1>6, <1>7 DEF Scheduled, DependentLoads
<1>9. lsu.queue \subseteq Insts
  BY DEF IInv, HeldInv
<1> QED BY <1>2, <1>3, <1>4, <1>5, <1>8, <1>9, InstStep DEF InstInv, Used

\* The cache lookup.
LEMMA LooksUpCacheInstInv ==
    ASSUME IInv, IInv', InstInv, ReadyInv, LooksUpCache
    PROVE  InstInv'
<1>1. PICK u \in Insts : AtStage(CACHE_LOOKUP, u) /\ handleCacheLookupReq(u)
  BY DEF LooksUpCache
<1>2. UNCHANGED <<program, pid, next_pid>>
  BY <1>1 DEF AtStage, handleCacheLookupReq
<1>3. lsu'.queue = lsu.queue
  BY <1>1, CacheLookupKeeps DEF SameHeld
<1>4. /\ \A v \in Insts : (mem'[v].phy <=> mem[v].phy) /\ (v # u => mem'[v] = mem[v])
      /\ mem'[u] = mem[u] \/ (mem[u].phy /\ ~isStore(u))
      /\ \/ lsu_mem_access_info_' = lsu_mem_access_info_
         \/ /\ lsu_mem_access_info_' = u /\ mem[u].phy /\ (isStore(u) => status[u] = "RETIRED")
      /\ UNCHANGED cache_pipeline_
  BY <1>1, CacheLookupAccess
<1>5. \A v \in Insts : \/ status'[v] = status[v]
                       \/ status[v] = "SCHEDULED" /\ status'[v] = "COMPLETED" /\ isStore(v)
  <2>1. DOMAIN status = Insts
    BY InstFacts DEF IInv
  <2>2. \/ status' = status
        \/ status[u] = "SCHEDULED" /\ isStore(u) /\ status' = [status EXCEPT ![u] = "COMPLETED"]
    BY <1>1 DEF handleCacheLookupReq, StoreDone
  <2> QED BY <2>1, <2>2
<1>6. \A v \in Insts : v \in InCache' => \/ v \in InCache
                                         \/ (mem[v].phy /\ (isStore(v) => status[v] = "RETIRED"))
  BY <1>4, InCacheIs
<1>7. \A v \in Insts : mem'[v].data \/ mem'[v].cache # "NO_ACCESS" \/ v \in InCache'
                                 => Used(v) \/ (mem[v].phy /\ (isStore(v) => status[v] = "RETIRED"))
  BY <1>4, <1>6 DEF Used
<1>8. lsu.queue \subseteq Insts
  BY DEF IInv, HeldInv
<1> QED BY <1>2, <1>3, <1>4, <1>5, <1>7, <1>8, InstStep DEF InstInv

\* The read.
LEMMA ReadsCacheInstInv ==
    ASSUME IInv, IInv', InstInv, ReadyInv, ReadsCache
    PROVE  InstInv'
<1>1. PICK u \in Insts : AtStage(CACHE_READ, u) /\ handleCacheRead(u)
  BY DEF ReadsCache
<1>2. UNCHANGED <<program, pid, next_pid, status>>
  BY <1>1 DEF AtStage, handleCacheRead
<1>3. lsu'.queue = lsu.queue
  BY <1>1, CacheReadKeeps DEF SameHeld
<1>4. /\ \A v \in Insts : /\ (mem'[v].phy <=> mem[v].phy) /\ mem'[v].cache = mem[v].cache
                          /\ (v # u => mem'[v] = mem[v])
      /\ (mem'[u].data <=> mem[u].data \/ mem[u].cache = "HIT")
      /\ InCache' = InCache
  BY <1>1, CacheReadAccess DEF dcacheVars, InCache
<1> QED BY <1>2, <1>3, <1>4, InstStep DEF InstInv, Used

\* The stages of the cache.
LEMMA CacheInstInv ==
    ASSUME IInv, IInv', InstInv, ReadyInv, CacheLooksUp \/ CacheReads
    PROVE  InstInv'
<1>1. lsu'.queue = lsu.queue
  BY CacheKeeps DEF SameHeld
<1>2. UNCHANGED <<program, pid, next_pid, status, lsu_mem_access_info_, cache_pipeline_>>
  BY CacheLooksUpAccess, CacheReadsAccess DEF envVars
<1>3. InCache' = InCache
  BY <1>2 DEF InCache
<1>4. \A v \in Insts : /\ mem[v].phy => mem'[v].phy
                       /\ mem'[v] = mem[v] \/ v \in InCache
  BY CacheLooksUpAccess, CacheReadsAccess, InCacheIs
<1> QED BY <1>1, <1>2, <1>3, <1>4, InstStep DEF InstInv, Used

\* Completion.
LEMMA CompletesInstInv ==
    ASSUME IInv, IInv', InstInv, ReadyInv, StageInv, Completes
    PROVE  InstInv'
<1>1. PICK u \in Insts : AtStage(COMPLETE, u) /\ completeInst(u)
  BY Zenon DEF Completes
<1>2. UNCHANGED <<program, pid, next_pid, mem>> /\ InCache' = InCache
  BY <1>1 DEF AtStage, completeInst, dcacheVars, InCache
<1>3. mem[u].data
  BY <1>1 DEF AtStage, StageInv
<1>4. lsu'.queue = IF Finishes(u) THEN lsu.queue \ {u} ELSE lsu.queue
  BY <1>1, <1>3, CompleteStays
<1>5. DOMAIN status = Insts /\ status[u] \in InstStatus
  BY InstFacts DEF IInv
<1>6. \/ status' = status
      \/ Finishes(u) /\ ~isStore(u) /\ status' = [status EXCEPT ![u] = "COMPLETED"]
  BY <1>1 DEF completeInst
<1>7. status[u] # "FLUSHED"
  <2>1. COMPLETE \in Stages
    BY DEF Stages, COMPLETE, ADDRESS
  <2> QED BY <1>1, <2>1, StageFacts
<1>8. \A v \in Insts : \/ status'[v] = status[v]
                       \/ /\ v = u /\ Finishes(u) /\ ~isStore(u) /\ status'[v] = "COMPLETED"
                          /\ status[v] \notin {"RETIRED", "FLUSHED"}
  BY <1>5, <1>6, <1>7 DEF Finishes
<1>9. lsu.queue \subseteq Insts
  BY DEF IInv, HeldInv
<1> QED BY <1>2, <1>4, <1>8, <1>9, InstStep DEF InstInv, Used

\* What the operand check does to statuses.
LEMMA ScheduledIs ==
    ASSUME IInv, NEW us, status' = Scheduled(us), \A u \in us : status[u] = "DISPATCHED"
    PROVE  \A v \in Insts : status'[v] = IF v \in us THEN "SCHEDULED" ELSE status[v]
<1>1. DOMAIN status = Insts
  BY InstFacts DEF IInv
<1> QED BY <1>1 DEF Scheduled

\* A register that becomes ready.
LEMMA RegisterStep ==
    ASSUME OperandArrives \/ ScoreboardUpdate
    PROVE  /\ \E r : RegisterReady(r)
           /\ UNCHANGED <<phase, program, params, dueVars, pid, mem, mmuVars, dcacheVars, next_pid,
                          flushed_by, credits, to_lsu, acks>>
           /\ phase = "port" /\ to_lsu = << >> /\ acks = << >> /\ mmu_ready = {}
  BY DEF OperandArrives, ScoreboardUpdate, MessagesDone, envVars

\* A register.
LEMMA RegisterInstInv ==
    ASSUME IInv, IInv', InstInv, ReadyInv, OperandArrives \/ ScoreboardUpdate
    PROVE  InstInv'
<1>1. PICK r : RegisterReady(r)
  BY RegisterStep
<1>2. UNCHANGED <<program, pid, mem, dcacheVars, next_pid>>
  BY RegisterStep
<1> DEFINE us == {c.uid : c \in {d \in lsu.callbacks : d.reg = r}}
<1>3. /\ lsu'.queue = lsu.queue /\ status' = Scheduled(Schedulable(us, ready'))
      /\ \A u \in us : status[u] = "DISPATCHED"
  BY <1>1, RegisterKeeps
<1>4. Schedulable(us, ready') \subseteq us
  BY DEF Schedulable
<1> HIDE DEF us
<1>5. \A v \in Insts : status'[v] = status[v] \/ (status[v] = "DISPATCHED" /\ status'[v] = "SCHEDULED")
  BY <1>3, <1>4, ScheduledIs
<1>6. InCache' = InCache
  BY <1>2 DEF dcacheVars, InCache
<1>7. lsu.queue \subseteq Insts
  BY DEF IInv, HeldInv
<1> QED BY <1>2, <1>3, <1>5, <1>6, <1>7, InstStep DEF InstInv, Used

\* An instruction arrives.
LEMMA ReceivesInstInv ==
    ASSUME IInv, IInv', InstInv, ReadyInv, LSUReceives
    PROVE  InstInv'
<1>1. UNCHANGED <<program, pid, mem, dcacheVars, next_pid>>
  BY DEF LSUReceives
<1> DEFINE u == Head(to_lsu)
<1>2. /\ lsu'.queue = lsu.queue \cup {u} /\ status' = Scheduled(Schedulable({u}, ready))
      /\ u \in Insts /\ status[u] = "DISPATCHED"
  BY ReceiveKeeps
<1>3. Schedulable({u}, ready) \subseteq {u}
  BY DEF Schedulable
<1> HIDE DEF u
<1>4. \A v \in Insts : status'[v] = status[v] \/ (status[v] = "DISPATCHED" /\ status'[v] = "SCHEDULED")
  BY <1>2, <1>3, ScheduledIs
<1>5. InCache' = InCache
  BY <1>1 DEF dcacheVars, InCache
<1>6. lsu.queue \subseteq Insts
  BY DEF IInv, HeldInv
<1>7. \A v \in lsu'.queue : ~isStore(v) => status'[v] \in {"DISPATCHED", "SCHEDULED"}
  BY <1>2, <1>4, <1>6 DEF InstInv
<1> QED BY <1>1, <1>4, <1>5, <1>7, InstStep DEF Used

\* Dispatch sends an instruction: there is one more.
LEMMA DispatchIs ==
    ASSUME TraceGiven, IInv, DispatchSends
    PROVE  LET n == Len(pid) + 1
           IN  /\ n \notin Insts /\ n \in Nat \ {0} /\ Insts' = Insts \cup {n} /\ \A v \in Insts : v < n
               /\ pid'[n] = next_pid /\ status'[n] = "DISPATCHED" /\ mem'[n] = NoAccess
               /\ \A v \in Insts : pid'[v] = pid[v] /\ status'[v] = status[v] /\ mem'[v] = mem[v]
               /\ \A v \in Insts : Inst(v)' = Inst(v) /\ (isStore(v)' <=> isStore(v))
               /\ ready' = ready \ {next_pid} /\ next_pid' = next_pid + 1 /\ next_pid \in 1..Len(program)
               /\ to_lsu' = Append(to_lsu, n) /\ credits' = credits - 1
               /\ phase = "late"
               /\ UNCHANGED <<phase, program, params, dueVars, mmuVars, dcacheVars, lsu, flushed_by,
                              acks, writes>>
<1> DEFINE n == Len(pid) + 1
<1>1. /\ pid \in Seq(DOMAIN program) /\ status \in Seq(InstStatus) /\ mem \in Seq(AccessType)
      /\ Len(status) = Len(pid) /\ Len(mem) = Len(pid) /\ Len(pid) \in Nat
  BY DEF IInv, MessageInv
<1>2. next_pid \in 1..Len(program)
  <2>1. Len(program) \in Nat /\ next_pid \in Nat \ {0}
    BY TraceIsSeq DEF IInv, MessageInv
  <2> QED BY <2>1 DEF DispatchSends
<1>3. /\ pid' = Append(pid, next_pid) /\ status' = Append(status, "DISPATCHED")
      /\ mem' = Append(mem, NoAccess) /\ to_lsu' = Append(to_lsu, Len(pid'))
      /\ ready' = ready \ {next_pid} /\ next_pid' = next_pid + 1 /\ credits' = credits - 1
      /\ phase = "late"
      /\ UNCHANGED <<phase, program, params, dueVars, mmuVars, dcacheVars, lsu, flushed_by, acks, writes>>
  BY DEF DispatchSends
<1>4. Insts = 1..Len(pid) /\ Insts' = 1..n /\ Len(pid') = n
  BY <1>1, <1>3 DEF Insts
<1>5. n \notin Insts /\ n \in Nat \ {0} /\ Insts' = Insts \cup {n} /\ \A v \in Insts : v < n
  BY <1>1, <1>4
<1>6. /\ pid'[n] = next_pid /\ status'[n] = "DISPATCHED" /\ mem'[n] = NoAccess
  BY <1>1, <1>3
<1>7. \A v \in Insts : pid'[v] = pid[v] /\ status'[v] = status[v] /\ mem'[v] = mem[v]
  BY <1>1, <1>3, <1>4
<1>8. \A v \in Insts : Inst(v)' = Inst(v) /\ (isStore(v)' <=> isStore(v))
  BY <1>3, <1>7 DEF Inst, isStore
<1> QED BY <1>2, <1>3, <1>4, <1>5, <1>6, <1>7, <1>8

\* The new instruction has done nothing.
LEMMA DispatchInstInv ==
    ASSUME TraceGiven, IInv, IInv', InstInv, DispatchSends
    PROVE  InstInv'
<1> DEFINE n == Len(pid) + 1
<1>1. /\ n \notin Insts /\ n \in Nat \ {0} /\ Insts' = Insts \cup {n} /\ \A v \in Insts : v < n
      /\ pid'[n] = next_pid /\ status'[n] = "DISPATCHED" /\ mem'[n] = NoAccess
      /\ \A v \in Insts : pid'[v] = pid[v] /\ status'[v] = status[v] /\ mem'[v] = mem[v]
      /\ \A v \in Insts : isStore(v)' <=> isStore(v)
      /\ next_pid' = next_pid + 1 /\ next_pid \in 1..Len(program)
      /\ UNCHANGED <<program, dcacheVars, lsu>>
  BY DispatchIs
<1>2. Insts \subseteq Nat /\ 0 \notin Insts /\ lsu.queue \subseteq Insts
  BY InstFacts DEF IInv, HeldInv
<1>3. InCache' = InCache /\ InCache \subseteq Insts \cup {0}
  BY <1>1 DEF dcacheVars, InCache, IInv, HeldInv
<1>4. next_pid \in Nat /\ \A v \in Insts : pid[v] \in Nat
  <2>1. DOMAIN program \subseteq Nat
    BY TraceIsSeq
  <2>2. \A v \in Insts : pid[v] \in DOMAIN program
    BY InstFacts DEF IInv
  <2> QED BY <2>1, <2>2 DEF IInv, MessageInv
<1> HIDE DEF n
<1>5. \A u \in Insts' : Used(u)' => (mem[u].phy)' /\ (isStore(u)' => status'[u] = "RETIRED")
  BY <1>1, <1>2, <1>3 DEF InstInv, Used, NoAccess
<1>6. \A u \in lsu'.queue : ~isStore(u)' => status'[u] \in {"DISPATCHED", "SCHEDULED"}
  BY <1>1, <1>2 DEF InstInv
<1>7. \A u, v \in Insts' : status'[u] = "RETIRED" /\ v < u => status'[v] \in {"RETIRED", "FLUSHED"}
  BY <1>1, <1>2 DEF InstInv
<1>8. \A u \in Live' : pid'[u] < next_pid'
  BY <1>1, <1>4 DEF InstInv, Live
<1> QED BY <1>5, <1>6, <1>7, <1>8 DEF InstInv

\* ROB retires in order.
LEMMA RetireInstInv ==
    ASSUME IInv, IInv', InstInv, Retire
    PROVE  InstInv'
<1>1. PICK u \in Live : /\ status[u] = "COMPLETED" /\ \A v \in Live : v < u => status[v] = "RETIRED"
                        /\ status' = [status EXCEPT ![u] = "RETIRED"]
  BY DEF Retire
<1>2. UNCHANGED <<program, pid, mem, dcacheVars, lsu, next_pid>>
  BY DEF Retire
<1>3. Insts' = Insts /\ InCache' = InCache /\ \A v : isStore(v)' <=> isStore(v)
  BY <1>2 DEF Insts, InCache, dcacheVars, isStore, Inst
<1>4. \A v \in Insts : status'[v] = IF v = u THEN "RETIRED" ELSE status[v]
  <2>1. DOMAIN status = Insts
    BY InstFacts DEF IInv
  <2> QED BY <1>1, <2>1 DEF Live
<1>5. Insts \subseteq Nat /\ lsu.queue \subseteq Insts /\ u \in Insts
  BY <1>1, InstFacts DEF IInv, HeldInv, Live
<1>6. \A v \in Insts : Used(v)' => (mem[v].phy)' /\ (isStore(v)' => status'[v] = "RETIRED")
  BY <1>2, <1>3, <1>4 DEF InstInv, Used
<1>7. \A v \in lsu'.queue : ~isStore(v)' => status'[v] \in {"DISPATCHED", "SCHEDULED"}
  BY <1>1, <1>2, <1>3, <1>4, <1>5 DEF InstInv
<1>8. \A w, v \in Insts : status'[w] = "RETIRED" /\ v < w => status'[v] \in {"RETIRED", "FLUSHED"}
  BY <1>1, <1>4, <1>5 DEF InstInv, Live
<1>9. \A v \in Live' : pid'[v] < next_pid'
  BY <1>1, <1>2, <1>3, <1>4 DEF InstInv, Live
<1> QED BY <1>3, <1>6, <1>7, <1>8, <1>9 DEF InstInv

\* A flush includes nothing that has retired, and everything that has not.
LEMMA FlushIs ==
    ASSUME TraceGiven, IInv, Flush
    PROVE  \E b \in Nat :
             LET us == {u \in Live : pid[u] >= b}
             IN  /\ lsu' = handleFlush(lsu, us) /\ next_pid' = b /\ b < next_pid /\ b >= 1
                 /\ \A u \in Insts : status'[u] = IF u \in us THEN "FLUSHED" ELSE status[u]
                 /\ \A u \in us : status[u] # "RETIRED"
                 /\ \A u \in Live \ us : status[u] = "RETIRED"
                 /\ Insts' = Insts /\ acks = << >> /\ phase = "flush"
                 /\ UNCHANGED <<phase, program, params, dueVars, pid, mem, mmuVars, dcacheVars, ready,
                                to_lsu, acks, writes>>
<1>1. PICK b \in flushed_by + 1..next_pid - 1 :
         LET us == {u \in Live : pid[u] >= b}
         IN  /\ program[b].branch /\ \A u \in Live \ us : status[u] = "RETIRED"
             /\ lsu' = handleFlush(lsu, us)
             /\ status' = [u \in Insts |-> IF u \in us THEN "FLUSHED" ELSE status[u]]
             /\ next_pid' = b
  BY DEF Flush
<1> DEFINE us == {u \in Live : pid[u] >= b}
<1>2. next_pid \in Nat /\ flushed_by \in Nat
  BY DEF IInv, MessageInv
<1>3. b \in Nat /\ b < next_pid /\ b >= flushed_by + 1 /\ b >= 1
  BY <1>1, <1>2
<1>4. phase = "flush" /\ acks = << >>
  BY DEF Flush, IInv, MessageInv
<1>5. UNCHANGED <<phase, program, params, dueVars, pid, mem, mmuVars, dcacheVars, ready, to_lsu, acks, writes>>
  BY DEF Flush
<1>6. Insts' = Insts
  BY <1>5 DEF Insts
<1>7. ASSUME NEW u \in us
      PROVE  status[u] # "RETIRED"
  <2>1. u \in Insts /\ pid[u] >= b
    BY DEF Live
  <2>2. pid[u] \in Nat
    BY <2>1, InstFacts, TraceIsSeq DEF IInv
  <2>3. b \in flushed_by + 1..pid[u]
    BY <1>2, <1>3, <2>1, <2>2
  <2> QED BY <1>1, <2>1, <2>3 DEF IInv, RetiredInv
<1>8. \A u \in Insts : status'[u] = IF u \in us THEN "FLUSHED" ELSE status[u]
  BY <1>1
<1> QED BY <1>1, <1>3, <1>4, <1>5, <1>6, <1>7, <1>8

\* A flush.
LEMMA FlushInstInv ==
    ASSUME TraceGiven, IInv, IInv', InstInv, Flush
    PROVE  InstInv'
<1>1. PICK b \in Nat :
             LET us == {u \in Live : pid[u] >= b}
             IN  /\ lsu' = handleFlush(lsu, us) /\ next_pid' = b
                 /\ \A u \in Insts : status'[u] = IF u \in us THEN "FLUSHED" ELSE status[u]
                 /\ \A u \in us : status[u] # "RETIRED"
                 /\ Insts' = Insts
                 /\ UNCHANGED <<program, pid, mem, dcacheVars>>
  BY FlushIs
<1> DEFINE us == {u \in Live : pid[u] >= b}
<1>2. lsu'.queue = lsu.queue \ us
  BY <1>1, FlushDoes DEF IInv, HeldInv
<1>3. InCache' = InCache /\ \A v : isStore(v)' <=> isStore(v)
  BY <1>1 DEF InCache, dcacheVars, isStore, Inst
<1>4. lsu.queue \subseteq Insts /\ \A u \in Insts : pid[u] \in Nat
  <2>1. DOMAIN program \subseteq Nat
    BY TraceIsSeq
  <2>2. \A v \in Insts : pid[v] \in DOMAIN program
    BY InstFacts DEF IInv
  <2> QED BY <2>1, <2>2 DEF IInv, HeldInv
<1>5. \A u \in Live' : pid'[u] < next_pid'
  <2> SUFFICES ASSUME NEW u \in Live' PROVE pid[u] < b
    BY <1>1
  <2>1. u \in Insts /\ status'[u] # "FLUSHED"
    BY <1>1 DEF Live
  <2>2. u \notin us /\ status[u] # "FLUSHED"
    BY <1>1, <2>1
  <2>3. ~(pid[u] >= b)
    BY <2>1, <2>2 DEF Live
  <2> QED BY <1>4, <2>1, <2>3
<1>6. \A u \in Insts : /\ status'[u] = IF u \in us THEN "FLUSHED" ELSE status[u]
                       /\ u \in us => status[u] # "RETIRED"
  BY <1>1
<1>7. Insts' = Insts /\ UNCHANGED mem
  BY <1>1
<1> HIDE DEF us
<1>8. \A v \in Insts : Used(v)' => (mem[v].phy)' /\ (isStore(v)' => status'[v] = "RETIRED")
  BY <1>3, <1>6, <1>7 DEF InstInv, Used
<1>9. \A v \in lsu'.queue : ~isStore(v)' => status'[v] \in {"DISPATCHED", "SCHEDULED"}
  BY <1>2, <1>3, <1>4, <1>6 DEF InstInv
<1>10. \A w, v \in Insts : status'[w] = "RETIRED" /\ v < w => status'[v] \in {"RETIRED", "FLUSHED"}
  BY <1>6 DEF InstInv
<1> QED BY <1>5, <1>7, <1>8, <1>9, <1>10 DEF InstInv

-----------------------------------------------------------------------------
(* ReadyInv and StageInv.                                                  *)

\* The mode does not change.
LEMMA OrderlyNext ==
    ASSUME UNCHANGED params, Orderly(lsu')
    PROVE  Orderly(lsu)'
  BY DEF Orderly, isReadyToIssueInsts, ReplayFull, params

\* Staying where one is.
LEMMA StaysSame ==
    ASSUME NEW s, Shaped(s), Orderly(s), NEW X
    PROVE  Stays(s, s, X)
  BY DEF Stays

\* Before the late phase, LSU issues nothing.
EarlyStep ==
    /\ Shaped(lsu') /\ Orderly(lsu') /\ lsu'.issue \subseteq lsu.issue \cup {0}
    /\ \A st \in Stages : lsu'.pipeline[st] = lsu.pipeline[st] \/ lsu'.pipeline[st] = 0
    /\ UNCHANGED <<phase, program, params>> /\ phase # "late"

\* Messages, stages, registers and the flush are such steps.
LEMMA EarlySteps ==
    ASSUME TraceGiven, IInv, IInv', ReadyInv, InstInv, StageInv, StoreInv, TranslationInv,
           \/ CalculatesAddress \/ LooksUpMMU \/ LooksUpCache \/ ReadsCache \/ Completes
           \/ CacheLooksUp \/ CacheReads \/ LSUReceives \/ LSUGetsAck \/ LSUGetsTranslation
           \/ OperandArrives \/ ScoreboardUpdate \/ CacheAsksL2 \/ L2Responds \/ Retire \/ Flush
    PROVE  EarlyStep
<1>1. UNCHANGED <<phase, program, params>> /\ phase # "late"
  BY DEF CalculatesAddress, LooksUpMMU, LooksUpCache, ReadsCache, Completes, AtStage, CacheLooksUp,
         CacheReads, AtCacheStage, LSUReceives, LSUGetsAck, LSUGetsTranslation, OperandArrives,
         ScoreboardUpdate, CacheAsksL2, L2Responds, Retire, Flush
<1>2. Shaped(lsu) /\ Orderly(lsu)
  BY DEF IInv, HeldInv, ReadyInv
<1>3. ASSUME NEW X, Keeps(lsu, lsu', X)
      PROVE  EarlyStep
  BY <1>1, <1>3 DEF Keeps, EarlyStep
<1>4. ASSUME lsu' = lsu
      PROVE  EarlyStep
  BY <1>1, <1>2, <1>4 DEF EarlyStep
<1>5. CASE CalculatesAddress
  BY <1>3, <1>5, EventsKeep
<1>6. CASE LooksUpMMU
  BY <1>3, <1>6, LookupKeeps DEF LooksUpMMU
<1>7. CASE LooksUpCache
  BY <1>3, <1>7, CacheLookupKeeps DEF LooksUpCache
<1>8. CASE ReadsCache
  BY <1>3, <1>8, CacheReadKeeps DEF ReadsCache
<1>9. CASE Completes
  <2>1. PICK u \in Insts : AtStage(COMPLETE, u) /\ completeInst(u)
    BY <1>9, Zenon DEF Completes
  <2>2. mem[u].data
    BY <2>1 DEF AtStage, StageInv
  <2>3. Stays(lsu, lsu', {})
    BY <2>1, <2>2, CompleteStays
  <2> QED BY <1>1, <2>3 DEF Stays, EarlyStep
<1>10. CASE CacheLooksUp \/ CacheReads
  BY <1>3, <1>10, CacheKeeps
<1>11. CASE LSUReceives
  <2>1. Keeps(lsu, lsu', {})
    BY <1>11, ReceiveKeeps
  <2> QED BY <1>3, <2>1
<1>12. CASE LSUGetsAck
  BY <1>3, <1>12, AckKeeps
<1>13. CASE LSUGetsTranslation
  BY <1>3, <1>13, TranslationKeeps
<1>14. CASE OperandArrives \/ ScoreboardUpdate
  <2>1. PICK r : RegisterReady(r)
    BY <1>14, RegisterStep
  <2>2. Keeps(lsu, lsu', {c.uid : c \in {d \in lsu.callbacks : d.reg = r}})
    BY <2>1, RegisterKeeps
  <2> QED BY <1>3, <2>2
<1>15. CASE CacheAsksL2 \/ L2Responds \/ Retire
  BY <1>4, <1>15 DEF CacheAsksL2, L2Responds, Retire
<1>16. CASE Flush
  <2>1. PICK b \in Nat : lsu' = handleFlush(lsu, {u \in Live : pid[u] >= b})
    BY <1>16, FlushIs
  <2> DEFINE us == {u \in Live : pid[u] >= b}
             t == handleFlush(lsu, us)
  <2>2. /\ Orderly(t) /\ t.issue \subseteq lsu.issue
        /\ \A st \in Stages : t.pipeline[st] = lsu.pipeline[st] \/ t.pipeline[st] = 0
    BY <1>2, FlushKeeps
  <2>3. Shaped(t)
    BY <1>2, FlushDoes
  <2> HIDE DEF t
  <2> QED BY <1>1, <2>1, <2>2, <2>3 DEF EarlyStep, t
<1> QED BY <1>5, <1>6, <1>7, <1>8, <1>9, <1>10, <1>11, <1>12, <1>13, <1>14, <1>15, <1>16

\* They keep the ready queue in order.
LEMMA EarlyReadyInv ==
    ASSUME ReadyInv, EarlyStep
    PROVE  ReadyInv'
<1>1. Orderly(lsu)'
  BY OrderlyNext DEF EarlyStep
<1>2. 1 \notin lsu'.issue
  BY DEF EarlyStep, ReadyInv
<1> QED BY <1>1, <1>2 DEF ReadyInv, EarlyStep

\* The steps of the late phase, up to the issue.
LEMMA LateReadyInv ==
    ASSUME TraceGiven, IInv, ReadyInv,
           \/ AppendsReady \/ ReplaysReady \/ MMULoadsEntry \/ CacheArbitrates \/ DispatchSends
    PROVE  ReadyInv' /\ Stays(lsu, lsu', {}) /\ UNCHANGED <<phase, params, program>> /\ phase = "late"
<1>1. UNCHANGED <<phase, params, program>> /\ phase = "late"
  BY DEF AppendsReady, ReplaysReady, MMULoadsEntry, CacheArbitrates, DispatchSends
<1>2. Shaped(lsu) /\ Orderly(lsu)
  BY DEF IInv, HeldInv, ReadyInv
<1>3. CASE AppendsReady \/ ReplaysReady
  <2>1. Keeps(lsu, lsu', {})
    BY <1>3, EventsKeep
  <2>2. lsu.append # {} \/ ~(\A e \in lsu.replays : e.due > 0)
    <3>1. CASE AppendsReady
      BY <3>1 DEF AppendsReady
    <3>2. CASE ReplaysReady
      <4>1. PICK e \in lsu.replays : e.due = 0
        BY <3>2 DEF ReplaysReady
      <4> QED BY <4>1
    <3> QED BY <1>3, <3>1, <3>2
  <2>3. 1 \notin lsu.issue /\ lsu.pipeline[ADDRESS] = 0
    BY <1>1, <2>2 DEF ReadyInv
  <2>4. ADDRESS \in Stages
    BY DEF ADDRESS, Stages, COMPLETE
  <2>5. 1 \notin lsu'.issue /\ lsu'.pipeline[ADDRESS] = 0
    BY <2>1, <2>3, <2>4 DEF Keeps
  <2>6. Orderly(lsu)'
    BY <1>1, <2>1, OrderlyNext DEF Keeps
  <2> QED BY <1>1, <2>1, <2>5, <2>6, KeepsStays DEF ReadyInv
<1>4. CASE MMULoadsEntry \/ CacheArbitrates \/ DispatchSends
  <2>1. lsu' = lsu
    BY <1>4 DEF MMULoadsEntry, CacheArbitrates, DispatchSends
  <2>2. Orderly(lsu)'
    BY <1>1, <1>2, <2>1, OrderlyNext
  <2> QED BY <1>1, <1>2, <2>1, <2>2, StaysSame DEF ReadyInv
<1> QED BY <1>3, <1>4

\* What an issue does.
LEMMA IssuesIs ==
    ASSUME IInv, ReadyInv, Issues
    PROVE  /\ ReadyInv' /\ Shaped(lsu') /\ (lsu.ok => lsu'.ok) /\ SameHeld
           /\ \A st \in Stages : st # ADDRESS => lsu'.pipeline[st] = lsu.pipeline[st]
           /\ \A v : Kept(lsu, v) /\ v # 0 => Kept(lsu', v)
           /\ phase = "late"
           /\ UNCHANGED <<phase, program, params, dueVars, instVars, mmuVars, dcacheVars, ready, envVars>>
<1>1. /\ phase = "late" /\ lsu.append = {} /\ (\A e \in lsu.replays : e.due > 0) /\ issueInst
      /\ UNCHANGED <<phase, program, params, dueVars, instVars, mmuVars, dcacheVars, ready, envVars>>
  BY DEF Issues
<1>2. Shaped(lsu) /\ Orderly(lsu)
  BY DEF IInv, HeldInv, ReadyInv
<1>3. \A u \in lsu.ready : u \in Nat
  BY WorkingMay, InstFacts DEF Working, IInv
<1>4. 1 \notin lsu.issue /\ lsu.pipeline[ADDRESS] = 0
  BY <1>1 DEF ReadyInv, issueInst
<1>5. /\ Orderly(lsu') /\ (lsu.ok => lsu'.ok) /\ lsu'.issue \subseteq {1}
      /\ lsu'.append = lsu.append /\ lsu'.replays = lsu.replays
      /\ \A st \in Stages : st # ADDRESS => lsu'.pipeline[st] = lsu.pipeline[st]
      /\ \A v : Kept(lsu, v) /\ v # 0 => Kept(lsu', v)
  BY <1>1, <1>2, <1>3, <1>4, IssueKeeps
<1>6. Moves(lsu, lsu', {})
  BY <1>1, <1>2, <1>3, IssueMoves
<1>7. Orderly(lsu)'
  BY <1>1, <1>5, OrderlyNext
<1>8. ReadyInv'
  BY <1>1, <1>5, <1>7 DEF ReadyInv
<1> QED BY <1>1, <1>5, <1>6, <1>8, MovesHeld DEF Moves

\* What the clock does.
LEMMA ClockIs ==
    ASSUME IInv, ReadyInv, nextPhase
    PROVE  /\ ReadyInv' /\ Shaped(lsu') /\ (lsu.ok => lsu'.ok) /\ SameHeld /\ lsu'.replay = lsu.replay
           /\ phase = "tick" => /\ lsu'.pipeline[COMPLETE] = lsu.pipeline[CACHE_READ]
                                /\ \A v : Kept(lsu, v) /\ v # lsu.pipeline[COMPLETE] => Kept(lsu', v)
           /\ phase # "tick" => /\ lsu'.pipeline = lsu.pipeline
                                /\ \A v : Kept(lsu, v) => Kept(lsu', v)
           /\ phase' = NextOf[phase] /\ phase \in {"port", "flush", "tick", "late"}
           /\ UNCHANGED <<program, params, instVars, tlb_cache_, mmu_pending_inst_, mmu_ready, ready,
                          envVars>>
<1>1. /\ phase' = NextOf[phase] /\ phase \in {"port", "flush", "tick", "late"} /\ PhaseDone
      /\ UNCHANGED <<program, params, instVars, tlb_cache_, mmu_pending_inst_, mmu_ready, ready, envVars>>
  BY DEF nextPhase, IInv, MessageInv
<1>2. Shaped(lsu) /\ Orderly(lsu)
  BY DEF IInv, HeldInv, ReadyInv
<1>3. CASE phase = "tick"
  <2>1. lsu' = AdvancePipeline(lsu) /\ phase' = "late"
    BY <1>1, <1>3 DEF nextPhase, NextOf
  <2> DEFINE t == AdvancePipeline(lsu)
  <2>2. /\ Orderly(t) /\ t.ok = lsu.ok /\ t.issue = lsu.issue /\ t.replay = lsu.replay
        /\ t.pipeline[ADDRESS] = 0 /\ t.pipeline[COMPLETE] = lsu.pipeline[CACHE_READ]
        /\ \A v : Kept(lsu, v) /\ v # lsu.pipeline[COMPLETE] => Kept(t, v)
    BY <1>2, ClockKeeps
  <2>3. Moves(lsu, t, {})
    BY <1>2, ClockMoves
  <2> HIDE DEF t
  <2>4. lsu' = t
    BY <2>1 DEF t
  <2>5. Orderly(lsu)' /\ 1 \notin lsu'.issue /\ lsu'.pipeline[ADDRESS] = 0
    BY <1>1, <1>3, <2>2, <2>4, OrderlyNext DEF ReadyInv
  <2>6. ReadyInv'
    BY <2>5 DEF ReadyInv
  <2>7. SameHeld /\ Shaped(lsu')
    BY <2>3, <2>4, MovesHeld DEF Moves
  <2> QED BY <1>1, <1>3, <2>2, <2>4, <2>6, <2>7
<1>4. CASE phase = "late"
  <2>1. lsu' = AgedLSU(lsu) /\ phase' = "port"
    BY <1>1, <1>4 DEF nextPhase, NextOf
  <2> DEFINE t == AgedLSU(lsu)
  <2>2. 0 \notin lsu.issue /\ (\A e \in lsu.replays : e.due > 0)
    BY <1>1, <1>4 DEF PhaseDone, EventsDone
  <2>3. /\ Orderly(t) /\ t.ok = lsu.ok /\ t.issue \subseteq {0} /\ t.pipeline = lsu.pipeline
        /\ t.replay = lsu.replay
        /\ \A v : Kept(lsu, v) => Kept(t, v)
    BY <1>2, <2>2, ClockKeeps
  <2>4. Moves(lsu, t, {})
    BY <1>2, ClockMoves
  <2> HIDE DEF t
  <2>5. lsu' = t
    BY <2>1 DEF t
  <2>6. Orderly(lsu)' /\ 1 \notin lsu'.issue
    BY <1>1, <2>3, <2>5, OrderlyNext
  <2>7. ReadyInv'
    BY <2>1, <2>6 DEF ReadyInv
  <2>8. SameHeld /\ Shaped(lsu')
    BY <2>4, <2>5, MovesHeld DEF Moves
  <2> QED BY <1>1, <1>4, <2>3, <2>5, <2>7, <2>8
<1>5. CASE phase \in {"port", "flush"}
  <2>1. lsu' = lsu /\ phase' \in {"flush", "tick"}
    BY <1>1, <1>5 DEF nextPhase, NextOf
  <2>2. Orderly(lsu)'
    BY <1>1, <1>2, <2>1, OrderlyNext
  <2>3. 1 \notin lsu.issue
    BY <1>5 DEF ReadyInv
  <2>4. ReadyInv'
    BY <2>1, <2>2, <2>3 DEF ReadyInv
  <2> QED BY <1>1, <1>2, <1>5, <2>1, <2>4 DEF SameHeld
<1> QED BY <1>1, <1>3, <1>4, <1>5

\* The stages of the pipeline.
LEMMA StageNumbers ==
    /\ {ADDRESS, MMU_LOOKUP, CACHE_LOOKUP, CACHE_READ, COMPLETE} \subseteq Stages
    /\ Stages = {ADDRESS, MMU_LOOKUP, CACHE_LOOKUP, CACHE_READ, COMPLETE}
    /\ CACHE_READ # COMPLETE /\ ADDRESS # CACHE_READ /\ ADDRESS # COMPLETE
    /\ MMU_LOOKUP # CACHE_READ /\ MMU_LOOKUP # COMPLETE
    /\ CACHE_LOOKUP # CACHE_READ /\ CACHE_LOOKUP # COMPLETE
  BY DEF Stages, ADDRESS, MMU_LOOKUP, CACHE_LOOKUP, CACHE_READ, COMPLETE

\* What is in a stage is an instruction.
LEMMA StagedInst ==
    ASSUME IInv, NEW st \in Stages
    PROVE  lsu.pipeline[st] = 0 \/ lsu.pipeline[st] \in Insts
<1>1. Shaped(lsu)
  BY DEF IInv, HeldInv
<1>2. lsu.pipeline[st] # 0 => lsu.pipeline[st] \in Working(lsu)
  BY <1>1, WorkingIs
<1> QED BY <1>2, WorkingMay

\* Within a phase: what passes the read has data, what passes the last stage leaves the
\* queue.
LEMMA StageStep ==
    ASSUME IInv, IInv', StageInv, UNCHANGED phase,
           \A st \in {CACHE_READ, COMPLETE} :
               lsu'.pipeline[st] = lsu.pipeline[st] \/ lsu'.pipeline[st] = 0,
           \A u \in Insts : mem[u].data => mem'[u].data,
           phase = "tick" =>
               /\ lsu'.queue \subseteq lsu.queue
               /\ \/ CACHE_READ \notin stages_due' => CACHE_READ \notin stages_due
                  \/ lsu'.pipeline[CACHE_READ] # 0 => mem'[lsu.pipeline[CACHE_READ]].data
               /\ \/ COMPLETE \notin stages_due' => COMPLETE \notin stages_due
                  \/ lsu.pipeline[COMPLETE] \notin lsu'.queue
    PROVE  StageInv'
<1>1. /\ lsu.pipeline[COMPLETE] = 0 \/ lsu.pipeline[COMPLETE] \in Insts
      /\ lsu.pipeline[CACHE_READ] = 0 \/ lsu.pipeline[CACHE_READ] \in Insts
  BY StageNumbers, StagedInst
<1>2. 0 \notin lsu'.queue
  BY InstFacts DEF IInv, HeldInv, MessageInv, Insts
<1>3. lsu'.pipeline[COMPLETE] # 0 => mem'[lsu'.pipeline[COMPLETE]].data
  BY <1>1 DEF StageInv
<1>4. phase = "tick" => (CACHE_READ \notin stages_due' /\ lsu'.pipeline[CACHE_READ] # 0
                           => mem'[lsu'.pipeline[CACHE_READ]].data)
  BY <1>1 DEF StageInv
<1>5. phase = "tick" => (COMPLETE \notin stages_due' => lsu'.pipeline[COMPLETE] \notin lsu'.queue)
  BY <1>2 DEF StageInv
<1> QED BY <1>3, <1>4, <1>5 DEF StageInv

\* The steps of LSU.
LEMMA UnitStageInv ==
    ASSUME IInv, IInv', InstInv, ReadyInv, StageInv,
           CalculatesAddress \/ LooksUpMMU \/ LooksUpCache \/ ReadsCache \/ Completes, EarlyStep
    PROVE  StageInv'
<1>1. UNCHANGED phase /\ phase = "tick"
  BY DEF EarlyStep, CalculatesAddress, LooksUpMMU, LooksUpCache, ReadsCache, Completes, AtStage
<1>2. \A st \in {CACHE_READ, COMPLETE} :
               lsu'.pipeline[st] = lsu.pipeline[st] \/ lsu'.pipeline[st] = 0
  BY StageNumbers DEF EarlyStep
<1>3. CASE CalculatesAddress
  <2>1. stages_due' = stages_due \ {ADDRESS} /\ mem' = mem
    BY <1>3 DEF CalculatesAddress, AtStage, handleAddressCalculation, instVars
  <2>2. lsu'.queue = lsu.queue
    BY <1>3, EventsKeep DEF SameHeld
  <2> QED BY <1>1, <1>2, <2>1, <2>2, StageStep, StageNumbers
<1>4. CASE LooksUpMMU
  <2>1. PICK u \in Insts : AtStage(MMU_LOOKUP, u) /\ handleMMULookupReq(u)
    BY <1>4 DEF LooksUpMMU
  <2>2. stages_due' = stages_due \ {MMU_LOOKUP}
    BY <2>1 DEF AtStage
  <2>3. lsu'.queue = lsu.queue /\ \A v \in Insts : mem[v].data => mem'[v].data
    BY <2>1, LookupKeeps, LookupAccess DEF SameHeld
  <2> QED BY <1>1, <1>2, <2>2, <2>3, StageStep, StageNumbers
<1>5. CASE LooksUpCache
  <2>1. PICK u \in Insts : AtStage(CACHE_LOOKUP, u) /\ handleCacheLookupReq(u)
    BY <1>5 DEF LooksUpCache
  <2>2. stages_due' = stages_due \ {CACHE_LOOKUP}
    BY <2>1 DEF AtStage
  <2>3. lsu'.queue = lsu.queue /\ \A v \in Insts : mem[v].data => mem'[v].data
    BY <2>1, CacheLookupKeeps, CacheLookupAccess DEF SameHeld
  <2> QED BY <1>1, <1>2, <2>2, <2>3, StageStep, StageNumbers
<1>6. CASE ReadsCache
  <2>1. PICK u \in Insts : AtStage(CACHE_READ, u) /\ handleCacheRead(u)
    BY <1>6 DEF ReadsCache
  <2>2. stages_due' = stages_due \ {CACHE_READ} /\ u = lsu.pipeline[CACHE_READ]
    BY <2>1 DEF AtStage
  <2>3. lsu'.queue = lsu.queue /\ \A v \in Insts : mem[v].data => mem'[v].data
    BY <2>1, CacheReadKeeps, CacheReadAccess DEF SameHeld
  <2>4. lsu'.pipeline[CACHE_READ] # 0 => mem'[lsu.pipeline[CACHE_READ]].data
    BY <2>1, <2>2, CacheReadKeeps, CacheReadAccess
  <2> QED BY <1>1, <1>2, <2>2, <2>3, <2>4, StageStep, StageNumbers
<1>7. CASE Completes
  <2>1. PICK u \in Insts : AtStage(COMPLETE, u) /\ completeInst(u)
    BY <1>7, Zenon DEF Completes
  <2>2. stages_due' = stages_due \ {COMPLETE} /\ u = lsu.pipeline[COMPLETE] /\ u # 0
    BY <2>1 DEF AtStage
  <2>3. mem[u].data /\ mem' = mem
    BY <2>1, <2>2 DEF StageInv, completeInst
  <2>4. lsu'.queue = IF Finishes(u) THEN lsu.queue \ {u} ELSE lsu.queue
    BY <2>1, <2>3, CompleteStays
  <2>5. u \notin lsu'.queue
    BY <2>3, <2>4 DEF Finishes, InstInv, Used
  <2> QED BY <1>1, <1>2, <2>2, <2>3, <2>4, <2>5, StageStep, StageNumbers
<1> QED BY <1>3, <1>4, <1>5, <1>6, <1>7

\* The steps of the cache.
LEMMA CacheStageInv ==
    ASSUME IInv, IInv', ReadyInv, StageInv, CacheLooksUp \/ CacheReads
    PROVE  StageInv'
<1>1. Keeps(lsu, lsu', {}) /\ lsu'.queue = lsu.queue
  BY CacheKeeps DEF SameHeld
<1>2. UNCHANGED <<phase, stages_due>>
  BY CacheLooksUpAccess, CacheReadsAccess
<1>3. \A v \in Insts : mem[v].data => mem'[v].data
  BY CacheLooksUpAccess, CacheReadsAccess
<1>4. \A st \in {CACHE_READ, COMPLETE} :
               lsu'.pipeline[st] = lsu.pipeline[st] \/ lsu'.pipeline[st] = 0
  BY <1>1, StageNumbers DEF Keeps
<1> QED BY <1>1, <1>2, <1>3, <1>4, StageStep

\* Messages, registers, ROB and the flush.
LEMMA MessageStageInv ==
    ASSUME IInv, IInv', StageInv, EarlyStep,
           \/ LSUReceives \/ LSUGetsAck \/ LSUGetsTranslation
           \/ OperandArrives \/ ScoreboardUpdate \/ CacheAsksL2 \/ L2Responds \/ Retire \/ Flush
    PROVE  StageInv'
<1>1. UNCHANGED <<phase, stages_due, mem>> /\ (phase = "tick" => lsu' = lsu)
  BY DEF LSUReceives, LSUGetsAck, LSUGetsTranslation, OperandArrives, ScoreboardUpdate, CacheAsksL2,
         L2Responds, Retire, Flush, dueVars, instVars
<1>2. \A st \in {CACHE_READ, COMPLETE} :
               lsu'.pipeline[st] = lsu.pipeline[st] \/ lsu'.pipeline[st] = 0
  BY StageNumbers DEF EarlyStep
<1> QED BY <1>1, <1>2, StageStep

\* The late phase.
LEMMA LateStageInv ==
    ASSUME TraceGiven, IInv, IInv', ReadyInv, StageInv,
           \/ AppendsReady \/ ReplaysReady \/ MMULoadsEntry \/ CacheArbitrates \/ DispatchSends \/ Issues
    PROVE  StageInv'
<1>1. UNCHANGED phase /\ phase = "late" /\ \A v \in Insts : mem[v].data => mem'[v].data
  <2>1. CASE DispatchSends
    BY <2>1, DispatchIs
  <2>2. CASE ~DispatchSends
    BY <2>2 DEF AppendsReady, ReplaysReady, MMULoadsEntry, CacheArbitrates, Issues, instVars
  <2> QED BY <2>1, <2>2
<1>2. \A st \in {CACHE_READ, COMPLETE} :
               lsu'.pipeline[st] = lsu.pipeline[st] \/ lsu'.pipeline[st] = 0
  <2>1. CASE Issues
    BY <2>1, IssuesIs, StageNumbers
  <2>2. CASE ~Issues
    BY <2>2, LateReadyInv, StageNumbers DEF Stays
  <2> QED BY <2>1, <2>2
<1> QED BY <1>1, <1>2, StageStep

\* The clock: what comes to the last stage has passed the read.
LEMMA ClockStageInv ==
    ASSUME IInv, IInv', ReadyInv, StageInv, nextPhase
    PROVE  StageInv'
<1>1. /\ phase = "tick" => lsu'.pipeline[COMPLETE] = lsu.pipeline[CACHE_READ]
      /\ phase # "tick" => lsu'.pipeline = lsu.pipeline
      /\ phase' = NextOf[phase] /\ phase \in {"port", "flush", "tick", "late"}
      /\ UNCHANGED mem
  BY ClockIs DEF instVars
<1>2. /\ phase = "port" => phase' = "flush"
      /\ phase = "flush" => phase' = "tick" /\ stages_due' = {st \in Stages : lsu.pipeline[st] # 0}
      /\ phase = "tick" => phase' = "late"
      /\ phase = "late" => phase' = "port"
  BY <1>1 DEF NextOf, nextPhase
<1>3. phase = "tick" => (lsu.pipeline[CACHE_READ] # 0 => CACHE_READ \notin stages_due)
  BY DEF nextPhase, PhaseDone, StagesDone
<1>4. lsu'.pipeline[COMPLETE] # 0 => mem'[lsu'.pipeline[COMPLETE]].data
  BY <1>1, <1>3 DEF StageInv
<1>5. 0 \notin lsu'.queue
  <2>1. HeldInv /\ MessageInv
    BY DEF IInv
  <2>2. 0 \notin lsu.queue
    BY <2>1, InstFacts DEF HeldInv
  <2>3. lsu'.queue = lsu.queue
    BY ClockIs DEF SameHeld
  <2> QED BY <2>2, <2>3
<1>6. ASSUME phase' = "tick"
      PROVE  /\ CACHE_READ \notin stages_due' => lsu'.pipeline[CACHE_READ] = 0
             /\ COMPLETE \notin stages_due' => lsu'.pipeline[COMPLETE] = 0
  BY <1>1, <1>2, <1>6, StageNumbers
<1> QED BY <1>1, <1>4, <1>5, <1>6 DEF StageInv

-----------------------------------------------------------------------------
(* StoreInv.                                                               *)

\* A step that leaves the store buffer, the messages of ROB and the pipeline of the cache
\* alone.
LEMMA StoreStep ==
    ASSUME IInv, StoreInv, UNCHANGED <<program, pid, acks, cache_pipeline_>>,
           phase \in {"late", "port"} => phase' \in {"late", "port"},
           lsu'.stores = lsu.stores, lsu'.queue \subseteq lsu.queue,
           \A u \in lsu.stores : /\ u \in lsu'.queue
                                 /\ mem'[u].cache = "NO_ACCESS" /\ ~mem'[u].data
                                 /\ status'[u] = "RETIRED" => status[u] = "RETIRED",
           \A u \in Insts : /\ status'[u] \in {"SCHEDULED", "COMPLETED"} =>
                                  \/ status[u] \in {"SCHEDULED", "COMPLETED"}
                                  \/ status[u] = "DISPATCHED" /\ u \in lsu.queue
                            /\ status'[u] = "DISPATCHED" => status[u] = "DISPATCHED"
    PROVE  StoreInv'
<1>1. Insts' = Insts /\ \A u : isStore(u)' <=> isStore(u)
  BY DEF Insts, isStore, Inst
<1>2. \A u \in lsu'.stores :
          /\ u \in lsu'.queue /\ isStore(u)' /\ mem'[u].cache = "NO_ACCESS" /\ ~mem'[u].data
          /\ status'[u] = "RETIRED" => u \in Range(acks')
          /\ cache_pipeline_'.DATA_READ.uid = u => cache_pipeline_'.DATA_READ.refill
          /\ cache_pipeline_'.LOOKUP.uid = u /\ ~cache_pipeline_'.LOOKUP.refill
                => phase' \in {"late", "port"}
  BY <1>1 DEF StoreInv
<1>3. \A u \in Insts : isStore(u)' /\ (\/ status'[u] \in {"SCHEDULED", "COMPLETED"}
                                       \/ status'[u] = "DISPATCHED" /\ u \in lsu'.queue)
                           => u \in lsu'.stores
  BY <1>1 DEF StoreInv
<1>4. \A k \in DOMAIN acks' : acks'[k] \in lsu'.stores /\ \A j \in 1..k - 1 : acks'[j] < acks'[k]
  BY DEF StoreInv
<1> QED BY <1>1, <1>2, <1>3, <1>4 DEF StoreInv

\* No instruction changes.
LEMMA StoreQuiet ==
    ASSUME IInv, StoreInv, UNCHANGED <<program, instVars, acks, cache_pipeline_, phase>>, SameHeld
    PROVE  StoreInv'
<1>1. \A u \in lsu.stores : u \in lsu.queue /\ mem[u].cache = "NO_ACCESS" /\ ~mem[u].data
  BY DEF StoreInv
<1> QED BY <1>1, StoreStep DEF instVars, SameHeld

\* Events and the MMU.
LEMMA QuietStoreInv ==
    ASSUME IInv, IInv', ReadyInv, StoreInv, TranslationInv,
           \/ CalculatesAddress \/ AppendsReady \/ ReplaysReady \/ Issues \/ MMULoadsEntry
           \/ LSUGetsTranslation \/ CacheAsksL2 \/ L2Responds
    PROVE  StoreInv'
<1>1. UNCHANGED <<program, instVars, acks, phase, cache_pipeline_>>
  BY DEF CalculatesAddress, AtStage, handleAddressCalculation, AppendsReady, ReplaysReady, Issues,
         MMULoadsEntry, LSUGetsTranslation, CacheAsksL2, L2Responds, envVars, dcacheVars,
         mshrRequest, receiveRespFromL2Cache
<1>2. SameHeld
  <2>1. CASE CalculatesAddress \/ AppendsReady \/ ReplaysReady
    BY <2>1, EventsKeep
  <2>2. CASE Issues
    BY <2>2, IssuesIs
  <2>3. CASE LSUGetsTranslation
    BY <2>3, TranslationKeeps
  <2>4. CASE MMULoadsEntry \/ CacheAsksL2 \/ L2Responds
    BY <2>4 DEF MMULoadsEntry, CacheAsksL2, L2Responds, SameHeld
  <2> QED BY <2>1, <2>2, <2>3, <2>4
<1> QED BY <1>1, <1>2, StoreQuiet

\* The stages of LSU.
LEMMA UnitStoreInv ==
    ASSUME IInv, IInv', ReadyInv, StageInv, InstInv, StoreInv,
           LooksUpMMU \/ LooksUpCache \/ ReadsCache \/ Completes
    PROVE  StoreInv'
<1>1. UNCHANGED <<program, pid, acks, phase>>
  BY DEF LooksUpMMU, LooksUpCache, ReadsCache, Completes, AtStage, handleMMULookupReq,
         handleCacheLookupReq, handleCacheRead, completeInst, instVars
<1>2. DOMAIN status = Insts /\ lsu.stores \subseteq Insts /\ \A u \in Insts : status[u] \in InstStatus
  BY InstFacts DEF IInv, HeldInv
<1>3. CASE LooksUpMMU
  <2>1. PICK u \in Insts : AtStage(MMU_LOOKUP, u) /\ handleMMULookupReq(u)
    BY <1>3 DEF LooksUpMMU
  <2>2. SameHeld
    BY <2>1, LookupKeeps
  <2>3. \A v \in Insts : mem'[v].data = mem[v].data /\ mem'[v].cache = mem[v].cache
    BY <2>1, LookupAccess
  <2>4. UNCHANGED cache_pipeline_
    BY <2>1, LookupAccess DEF dcacheVars
  <2>5. status' = status \/ status' = Scheduled(DependentLoads)
    BY <2>1 DEF handleMMULookupReq, instVars
  <2>6. \A v \in Insts : \/ status'[v] = status[v]
                         \/ status[v] = "DISPATCHED" /\ status'[v] = "SCHEDULED" /\ v \in lsu.queue
    BY <1>2, <2>5 DEF Scheduled, DependentLoads
  <2>7. \A v \in lsu.stores : v \in lsu.queue /\ mem'[v].cache = "NO_ACCESS" /\ ~mem'[v].data
    BY <1>2, <2>3 DEF StoreInv
  <2> QED BY <1>1, <1>2, <2>2, <2>4, <2>6, <2>7, StoreStep DEF SameHeld
<1>4. CASE LooksUpCache
  <2>1. PICK u \in Insts : AtStage(CACHE_LOOKUP, u) /\ handleCacheLookupReq(u)
    BY <1>4 DEF LooksUpCache
  <2>2. SameHeld
    BY <2>1, CacheLookupKeeps
  <2>3. \A v \in Insts : isStore(v) => mem'[v] = mem[v]
    BY <2>1, CacheLookupAccess
  <2>4. UNCHANGED cache_pipeline_
    BY <2>1, CacheLookupAccess
  <2>5. status' = status \/ (status[u] = "SCHEDULED" /\ status' = [status EXCEPT ![u] = "COMPLETED"])
    BY <2>1 DEF handleCacheLookupReq, StoreDone
  <2>6. \A v \in Insts : \/ status'[v] = status[v]
                         \/ status[v] = "SCHEDULED" /\ status'[v] = "COMPLETED"
    BY <1>2, <2>5
  <2>7. \A v \in lsu.stores : v \in lsu.queue /\ mem'[v].cache = "NO_ACCESS" /\ ~mem'[v].data
    BY <1>2, <2>3 DEF StoreInv
  <2> QED BY <1>1, <1>2, <2>2, <2>4, <2>6, <2>7, StoreStep DEF SameHeld
<1>5. CASE ReadsCache
  <2>1. PICK u \in Insts : AtStage(CACHE_READ, u) /\ handleCacheRead(u)
    BY <1>5 DEF ReadsCache
  <2>2. SameHeld
    BY <2>1, CacheReadKeeps
  <2>3. /\ \A v \in Insts : mem'[v].cache = mem[v].cache /\ (v # u => mem'[v] = mem[v])
        /\ (mem'[u].data <=> mem[u].data \/ mem[u].cache = "HIT")
        /\ UNCHANGED <<status, cache_pipeline_>>
    BY <2>1, CacheReadAccess DEF dcacheVars
  <2>4. \A v \in lsu.stores : v \in lsu.queue /\ mem'[v].cache = "NO_ACCESS" /\ ~mem'[v].data
    BY <1>2, <2>3 DEF StoreInv
  <2> QED BY <1>1, <1>2, <2>2, <2>3, <2>4, StoreStep DEF SameHeld
<1>6. CASE Completes
  <2>1. PICK u \in Insts : AtStage(COMPLETE, u) /\ completeInst(u)
    BY <1>6, Zenon DEF Completes
  <2>2. mem[u].data
    BY <2>1 DEF AtStage, StageInv
  <2>3. /\ lsu'.queue = IF Finishes(u) THEN lsu.queue \ {u} ELSE lsu.queue
        /\ lsu'.stores = lsu.stores
    BY <2>1, <2>2, CompleteStays
  <2>4. UNCHANGED <<mem, cache_pipeline_>>
    BY <2>1 DEF completeInst, dcacheVars
  <2>5. u \notin lsu.stores
    BY <2>2 DEF StoreInv
  <2>6. status' = status \/ (Finishes(u) /\ ~isStore(u) /\ status' = [status EXCEPT ![u] = "COMPLETED"])
    BY <2>1 DEF completeInst
  <2>7. u \in lsu.queue \/ ~Finishes(u) \/ status[u] = "SCHEDULED"
    <3>1. status[u] \notin {"DISPATCHED", "FLUSHED"}
      BY <2>1, StageFacts, StageNumbers
    <3> QED BY <1>2, <3>1 DEF Finishes, InstStatus
  <2>8. \A v \in Insts : \/ status'[v] = status[v]
                         \/ status[v] = "SCHEDULED" /\ status'[v] = "COMPLETED"
    <3>1. status[u] \notin {"DISPATCHED", "FLUSHED"}
      BY <2>1, StageFacts, StageNumbers
    <3>2. Finishes(u) /\ ~isStore(u) => status[u] = "SCHEDULED"
      BY <1>2, <3>1 DEF Finishes, InstStatus
    <3> QED BY <1>2, <2>6, <3>2
  <2>9. \A v \in lsu.stores : v \in lsu'.queue /\ mem'[v].cache = "NO_ACCESS" /\ ~mem'[v].data
    BY <2>3, <2>4, <2>5 DEF StoreInv
  <2> QED BY <1>1, <1>2, <2>3, <2>4, <2>8, <2>9, StoreStep
<1> QED BY <1>3, <1>4, <1>5, <1>6

\* The stages of the cache: no store of the store buffer is there.
LEMMA CacheStoreInv ==
    ASSUME IInv, IInv', ReadyInv, StoreInv, CacheLooksUp \/ CacheReads
    PROVE  StoreInv'
<1>1. SameHeld
  BY CacheKeeps
<1>2. UNCHANGED <<program, pid, acks, phase, status, cache_pipeline_>> /\ phase = "tick"
  <2>1. phase = "tick"
    BY DEF CacheLooksUp, CacheReads, AtCacheStage
  <2> QED BY <2>1, CacheLooksUpAccess, CacheReadsAccess DEF envVars
<1>3. \A v \in Insts :
        \/ mem'[v] = mem[v]
        \/ v = cache_pipeline_.LOOKUP.uid /\ ~cache_pipeline_.LOOKUP.refill
        \/ v = cache_pipeline_.DATA_READ.uid /\ ~cache_pipeline_.DATA_READ.refill
  BY CacheLooksUpAccess, CacheReadsAccess
<1>4. lsu.stores \subseteq Insts
  BY DEF IInv, HeldInv
<1>5. \A v \in lsu.stores : v \in lsu.queue /\ mem'[v].cache = "NO_ACCESS" /\ ~mem'[v].data
  BY <1>2, <1>3, <1>4 DEF StoreInv
<1> QED BY <1>1, <1>2, <1>5, StoreStep DEF SameHeld

\* Registers.
LEMMA RegisterStoreInv ==
    ASSUME IInv, IInv', ReadyInv, StoreInv, OperandArrives \/ ScoreboardUpdate
    PROVE  StoreInv'
<1>1. PICK r : RegisterReady(r)
  BY RegisterStep
<1>2. UNCHANGED <<program, pid, mem, cache_pipeline_, acks, phase>>
  BY RegisterStep DEF dcacheVars
<1> DEFINE us == {c.uid : c \in {d \in lsu.callbacks : d.reg = r}}
<1>3. /\ lsu'.queue = lsu.queue /\ lsu'.stores = lsu.stores
      /\ status' = Scheduled(Schedulable(us, ready')) /\ us \subseteq lsu.queue
      /\ \A u \in us : status[u] = "DISPATCHED"
  BY <1>1, RegisterKeeps
<1>4. Schedulable(us, ready') \subseteq us
  BY DEF Schedulable
<1> HIDE DEF us
<1>5. \A v \in Insts : \/ status'[v] = status[v]
                       \/ status[v] = "DISPATCHED" /\ status'[v] = "SCHEDULED" /\ v \in lsu.queue
  BY <1>3, <1>4, ScheduledIs
<1>6. lsu.stores \subseteq Insts
  BY DEF IInv, HeldInv
<1>7. \A v \in lsu.stores : v \in lsu.queue /\ mem[v].cache = "NO_ACCESS" /\ ~mem[v].data
  BY DEF StoreInv
<1> QED BY <1>2, <1>3, <1>5, <1>6, <1>7, StoreStep

\* The cache takes a request; the clock. A store that has been asked for is acknowledged
\* before the cache looks it up.
LEMMA ClockStoreInv ==
    ASSUME IInv, IInv', ReadyInv, StoreInv, nextPhase \/ CacheArbitrates
    PROVE  StoreInv'
<1>1. UNCHANGED <<program, instVars, acks>> /\ SameHeld
  <2>1. CASE nextPhase
    BY <2>1, ClockIs DEF envVars
  <2>2. CASE CacheArbitrates
    BY <2>2 DEF CacheArbitrates, envVars, SameHeld
  <2> QED BY <2>1, <2>2
<1>2. Insts' = Insts /\ \A u : isStore(u)' <=> isStore(u)
  BY <1>1 DEF Insts, isStore, Inst, instVars
<1>3. \A u \in lsu.stores :
          /\ cache_pipeline_'.DATA_READ.uid = u => cache_pipeline_'.DATA_READ.refill
          /\ cache_pipeline_'.LOOKUP.uid = u /\ ~cache_pipeline_'.LOOKUP.refill
                => phase' \in {"late", "port"}
  <2> SUFFICES ASSUME NEW u \in lsu.stores
               PROVE  /\ cache_pipeline_'.DATA_READ.uid = u => cache_pipeline_'.DATA_READ.refill
                      /\ cache_pipeline_'.LOOKUP.uid = u /\ ~cache_pipeline_'.LOOKUP.refill
                            => phase' \in {"late", "port"}
    OBVIOUS
  <2>1. u \in Insts /\ u # 0 /\ isStore(u)
    BY InstFacts DEF IInv, HeldInv, StoreInv
  <2>2. CASE CacheArbitrates
    <3>1. cache_pipeline_'.DATA_READ = cache_pipeline_.DATA_READ /\ phase' = "late"
      BY <2>2 DEF CacheArbitrates, arbitrateL2LsuReq, IInv, HeldInv
    <3> QED BY <3>1 DEF StoreInv
  <2>3. CASE nextPhase /\ phase = "tick"
    <3>1. /\ cache_pipeline_' = [LOOKUP |-> Empty, DATA_READ |-> cache_pipeline_.LOOKUP]
      BY <2>3 DEF nextPhase, AdvanceCachePipeline
    <3>2. /\ cache_pipeline_'.LOOKUP.uid = 0 /\ cache_pipeline_'.DATA_READ = cache_pipeline_.LOOKUP
      BY <3>1 DEF Empty
    <3>3. cache_pipeline_.LOOKUP.uid = u => cache_pipeline_.LOOKUP.refill
      BY <2>3 DEF StoreInv
    <3> QED BY <2>1, <3>2, <3>3
  <2>4. CASE nextPhase /\ phase # "tick"
    <3>1. UNCHANGED cache_pipeline_
      BY <2>4 DEF nextPhase, dcacheVars
    <3>2. /\ phase = "late" => phase' = "port"
          /\ phase = "port" => acks = << >>
          /\ phase \in {"port", "flush", "late"}
      BY <2>4 DEF nextPhase, NextOf, PhaseDone, MessagesDone, IInv, MessageInv
    <3>3. ASSUME cache_pipeline_.LOOKUP.uid = u, ~cache_pipeline_.LOOKUP.refill
          PROVE  phase' \in {"late", "port"}
      <4>1. phase \in {"late", "port"}
        BY <3>3 DEF StoreInv
      <4>2. u \in InCache
        BY <3>3, InCacheIs
      <4>3. status[u] = "RETIRED"
        BY <2>1, <4>2 DEF IInv, StoresWriteRetired
      <4>4. u \in Range(acks)
        BY <4>3 DEF StoreInv
      <4>5. acks # << >>
        BY <4>4 DEF Range
      <4> QED BY <3>2, <4>1, <4>5
    <3> QED BY <3>1, <3>3 DEF StoreInv
  <2> QED BY <2>2, <2>3, <2>4
<1>4. \A u \in lsu'.stores :
          /\ u \in lsu'.queue /\ isStore(u)' /\ mem'[u].cache = "NO_ACCESS" /\ ~mem'[u].data
          /\ status'[u] = "RETIRED" => u \in Range(acks')
  BY <1>1, <1>2 DEF StoreInv, SameHeld, instVars
<1>5. \A u \in Insts : isStore(u)' /\ (\/ status'[u] \in {"SCHEDULED", "COMPLETED"}
                                       \/ status'[u] = "DISPATCHED" /\ u \in lsu'.queue)
                           => u \in lsu'.stores
  BY <1>1, <1>2 DEF StoreInv, SameHeld, instVars
<1>6. \A k \in DOMAIN acks' : acks'[k] \in lsu'.stores /\ \A j \in 1..k - 1 : acks'[j] < acks'[k]
  BY <1>1 DEF StoreInv, SameHeld
<1>7. lsu'.stores = lsu.stores
  BY <1>1 DEF SameHeld
<1> QED BY <1>2, <1>3, <1>4, <1>5, <1>6, <1>7 DEF StoreInv

\* A store leaves the store buffer.
LEMMA AckStoreInv ==
    ASSUME IInv, IInv', ReadyInv, InstInv, StoreInv, LSUGetsAck
    PROVE  StoreInv'
<1> DEFINE a == acks[1]
<1>1. /\ UNCHANGED <<program, instVars, cache_pipeline_, phase>> /\ acks # << >> /\ acks' = Tail(acks)
      /\ phase = "port"
  BY DEF LSUGetsAck, dcacheVars
<1>2. lsu'.queue = lsu.queue /\ lsu'.stores = lsu.stores \ {a}
  BY AckKeeps
<1>3. Insts' = Insts /\ \A u : isStore(u)' <=> isStore(u)
  BY <1>1 DEF Insts, isStore, Inst, instVars
<1>4. /\ acks \in Seq(Insts) /\ Insts \subseteq Nat
      /\ \A k \in DOMAIN acks : acks[k] \in Insts /\ status[acks[k]] = "RETIRED"
  <2>1. MessageInv
    BY DEF IInv
  <2>2. acks \in Seq(Insts) /\ \A k \in DOMAIN acks : status[acks[k]] = "RETIRED"
    BY <2>1 DEF MessageInv
  <2> QED BY <2>1, <2>2, InstFacts
<1>5. /\ Len(acks) \in Nat \ {0} /\ DOMAIN acks = 1..Len(acks) /\ DOMAIN acks' = 1..Len(acks) - 1
      /\ \A k \in 1..Len(acks) - 1 : acks'[k] = acks[k + 1]
  BY <1>1, <1>4
<1>6. \A k \in 2..Len(acks) : acks[k] \in Range(acks')
  <2> SUFFICES ASSUME NEW k \in 2..Len(acks) PROVE acks[k] \in Range(acks')
    OBVIOUS
  <2>1. k - 1 \in 1..Len(acks) - 1 /\ k - 1 \in Nat /\ (k - 1) + 1 = k
    BY <1>5
  <2>2. k - 1 \in DOMAIN acks' /\ acks'[k - 1] = acks[k]
    BY <1>5, <2>1
  <2> QED BY <2>2 DEF Range
<1>7. \A u \in lsu'.stores :
          /\ u \in lsu'.queue /\ isStore(u)' /\ mem'[u].cache = "NO_ACCESS" /\ ~mem'[u].data
          /\ status'[u] = "RETIRED" => u \in Range(acks')
          /\ cache_pipeline_'.DATA_READ.uid = u => cache_pipeline_'.DATA_READ.refill
          /\ phase' \in {"late", "port"}
  <2> SUFFICES ASSUME NEW u \in lsu'.stores, status'[u] = "RETIRED"
               PROVE  u \in Range(acks')
    BY <1>1, <1>2, <1>3 DEF StoreInv, instVars
  <2>1. u \in lsu.stores /\ u # a /\ status[u] = "RETIRED"
    BY <1>1, <1>2 DEF instVars
  <2>2. PICK k \in DOMAIN acks : acks[k] = u
    BY <2>1 DEF StoreInv, Range
  <2>3. k \in 2..Len(acks)
    BY <1>5, <2>1, <2>2
  <2> QED BY <1>6, <2>2, <2>3
<1>8. \A u \in Insts : isStore(u)' /\ (\/ status'[u] \in {"SCHEDULED", "COMPLETED"}
                                       \/ status'[u] = "DISPATCHED" /\ u \in lsu'.queue)
                           => u \in lsu'.stores
  <2>1. status[a] = "RETIRED"
    BY <1>4, <1>5
  <2> QED BY <1>1, <1>2, <1>3, <2>1 DEF StoreInv, instVars
<1>9. \A k \in DOMAIN acks' : acks'[k] \in lsu'.stores /\ \A j \in 1..k - 1 : acks'[j] < acks'[k]
  <2> SUFFICES ASSUME NEW k \in 1..Len(acks) - 1
               PROVE  acks'[k] \in lsu'.stores /\ \A j \in 1..k - 1 : acks'[j] < acks'[k]
    BY <1>5
  <2>1. k + 1 \in DOMAIN acks /\ 1 \in 1..(k + 1) - 1 /\ acks'[k] = acks[k + 1] /\ 1 \in DOMAIN acks
    BY <1>5
  <2>2. acks[k + 1] \in lsu.stores /\ acks[1] < acks[k + 1]
    BY <2>1 DEF StoreInv
  <2>3. acks[k + 1] # a
    <3>1. acks[1] \in Nat
      BY <1>4, <2>1
    <3> QED BY <2>2, <3>1
  <2>4. ASSUME NEW j \in 1..k - 1
        PROVE  acks'[j] < acks'[k]
    <3>1. j \in 1..Len(acks) - 1 /\ j + 1 \in 1..(k + 1) - 1
      BY <1>5
    <3>2. acks[j + 1] < acks[k + 1]
      BY <2>1, <3>1 DEF StoreInv
    <3> QED BY <1>5, <2>1, <3>1, <3>2
  <2> QED BY <1>2, <2>1, <2>2, <2>3, <2>4
<1> QED BY <1>3, <1>7, <1>8, <1>9 DEF StoreInv

\* A store joins the store buffer.
LEMMA ReceivesStoreInv ==
    ASSUME IInv, IInv', ReadyInv, StoreInv, LSUReceives
    PROVE  StoreInv'
<1>1. UNCHANGED <<program, pid, mem, cache_pipeline_, acks, phase>> /\ phase = "port"
  BY DEF LSUReceives, dcacheVars
<1> DEFINE u == Head(to_lsu)
<1>2. /\ lsu'.queue = lsu.queue \cup {u} /\ status' = Scheduled(Schedulable({u}, ready))
      /\ u \in Insts /\ status[u] = "DISPATCHED"
      /\ lsu'.stores = lsu.stores \cup (IF isStore(u) THEN {u} ELSE {})
  BY ReceiveKeeps
<1>3. Schedulable({u}, ready) \subseteq {u}
  BY DEF Schedulable
<1> HIDE DEF u
<1>4. \A v \in Insts : \/ status'[v] = status[v]
                       \/ v = u /\ status[v] = "DISPATCHED" /\ status'[v] = "SCHEDULED"
  BY <1>2, <1>3, ScheduledIs
<1>5. Insts' = Insts /\ \A v : isStore(v)' <=> isStore(v)
  BY <1>1 DEF Insts, isStore, Inst
<1>6. lsu.stores \subseteq Insts /\ u # 0
  BY <1>2, InstFacts DEF IInv, HeldInv
<1>7. mem[u] = NoAccess /\ u \notin InCache
  BY <1>2, <1>6 DEF IInv, SpeculationInv, HeldInv
<1>8. cache_pipeline_.DATA_READ.uid = u => cache_pipeline_.DATA_READ.refill
  BY <1>7, InCacheIs
<1>9. \A v \in lsu'.stores :
          /\ v \in lsu'.queue /\ isStore(v)' /\ mem'[v].cache = "NO_ACCESS" /\ ~mem'[v].data
          /\ status'[v] = "RETIRED" => v \in Range(acks')
          /\ cache_pipeline_'.DATA_READ.uid = v => cache_pipeline_'.DATA_READ.refill
          /\ phase' \in {"late", "port"}
  <2> SUFFICES ASSUME NEW v \in lsu'.stores
               PROVE  /\ v \in lsu'.queue /\ isStore(v) /\ mem[v].cache = "NO_ACCESS" /\ ~mem[v].data
                      /\ status'[v] = "RETIRED" => v \in Range(acks)
                      /\ cache_pipeline_.DATA_READ.uid = v => cache_pipeline_.DATA_READ.refill
    BY <1>1, <1>5
  <2>1. CASE v \in lsu.stores
    BY <1>2, <1>4, <1>6, <2>1 DEF StoreInv
  <2>2. CASE v = u
    BY <1>2, <1>4, <1>7, <1>8, <2>1, <2>2 DEF NoAccess
  <2> QED BY <1>2, <2>1, <2>2
<1>10. \A v \in Insts : isStore(v)' /\ (\/ status'[v] \in {"SCHEDULED", "COMPLETED"}
                                        \/ status'[v] = "DISPATCHED" /\ v \in lsu'.queue)
                           => v \in lsu'.stores
  BY <1>2, <1>4, <1>5 DEF StoreInv
<1>11. \A k \in DOMAIN acks' : acks'[k] \in lsu'.stores /\ \A j \in 1..k - 1 : acks'[j] < acks'[k]
  BY <1>1, <1>2 DEF StoreInv
<1> QED BY <1>5, <1>9, <1>10, <1>11 DEF StoreInv

\* ROB tells LSU of a store that has retired.
LEMMA RetireStoreInv ==
    ASSUME IInv, IInv', InstInv, StoreInv, Retire
    PROVE  StoreInv'
<1>1. PICK u \in Live : /\ status[u] = "COMPLETED"
                        /\ status' = [status EXCEPT ![u] = "RETIRED"]
                        /\ acks' = IF isStore(u) THEN Append(acks, u) ELSE acks
  BY DEF Retire
<1>2. UNCHANGED <<program, pid, mem, cache_pipeline_, lsu, phase>>
  BY DEF Retire, dcacheVars
<1>3. Insts' = Insts /\ \A v : isStore(v)' <=> isStore(v)
  BY <1>2 DEF Insts, isStore, Inst
<1>4. \A v \in Insts : status'[v] = IF v = u THEN "RETIRED" ELSE status[v]
  <2>1. DOMAIN status = Insts
    BY InstFacts DEF IInv
  <2> QED BY <1>1, <2>1 DEF Live
<1>5. Insts \subseteq Nat /\ lsu.stores \subseteq Insts /\ u \in Insts
  BY <1>1, InstFacts DEF IInv, HeldInv, Live
<1>6. /\ acks \in Seq(Insts) /\ Len(acks) \in Nat /\ DOMAIN acks = 1..Len(acks)
      /\ \A k \in DOMAIN acks : acks[k] \in Insts /\ status[acks[k]] = "RETIRED"
  BY DEF IInv, MessageInv
<1>7. \A k \in DOMAIN acks : acks[k] < u
  <2> SUFFICES ASSUME NEW k \in DOMAIN acks PROVE acks[k] < u
    OBVIOUS
  <2>1. acks[k] \in Insts /\ status[acks[k]] = "RETIRED"
    BY <1>6
  <2>2. ~(u < acks[k]) /\ acks[k] # u
    BY <1>1, <1>5, <2>1 DEF InstInv
  <2>3. acks[k] \in Nat /\ u \in Nat
    BY <1>5, <2>1
  <2> QED BY <2>2, <2>3
<1>8. isStore(u) => /\ DOMAIN acks' = 1..Len(acks) + 1 /\ acks'[Len(acks) + 1] = u
                    /\ \A k \in 1..Len(acks) : acks'[k] = acks[k]
  BY <1>1, <1>6
<1>9. \A v : (v \in Range(acks) \/ (v = u /\ isStore(u))) => v \in Range(acks')
  <2>1. CASE ~isStore(u)
    BY <1>1, <2>1
  <2>2. CASE isStore(u)
    BY <1>6, <1>8, <2>2 DEF Range
  <2> QED BY <2>1, <2>2
<1>10. \A v \in lsu'.stores :
          /\ v \in lsu'.queue /\ isStore(v)' /\ mem'[v].cache = "NO_ACCESS" /\ ~mem'[v].data
          /\ status'[v] = "RETIRED" => v \in Range(acks')
          /\ cache_pipeline_'.DATA_READ.uid = v => cache_pipeline_'.DATA_READ.refill
          /\ cache_pipeline_'.LOOKUP.uid = v /\ ~cache_pipeline_'.LOOKUP.refill
                => phase' \in {"late", "port"}
  <2> HIDE <1>1
  <2> QED BY <1>2, <1>3, <1>4, <1>5, <1>9 DEF StoreInv
<1>11. \A v \in Insts : isStore(v)' /\ (\/ status'[v] \in {"SCHEDULED", "COMPLETED"}
                                        \/ status'[v] = "DISPATCHED" /\ v \in lsu'.queue)
                           => v \in lsu'.stores
  BY <1>2, <1>3, <1>4 DEF StoreInv
<1>12. \A k \in DOMAIN acks' : acks'[k] \in lsu'.stores /\ \A j \in 1..k - 1 : acks'[j] < acks'[k]
  <2>1. CASE ~isStore(u)
    BY <1>1, <1>2, <2>1 DEF StoreInv
  <2>2. CASE isStore(u)
    <3>1. u \in lsu.stores
      BY <1>1, <1>5, <2>2 DEF StoreInv
    <3> SUFFICES ASSUME NEW k \in 1..Len(acks) + 1
                 PROVE  acks'[k] \in lsu.stores /\ \A j \in 1..k - 1 : acks'[j] < acks'[k]
      BY <1>2, <1>8, <2>2
    <3>2. CASE k = Len(acks) + 1
      <4>1. \A j \in 1..k - 1 : j \in 1..Len(acks)
        BY <1>6, <3>2
      <4> QED BY <1>6, <1>7, <1>8, <2>2, <3>1, <3>2, <4>1
    <3>3. CASE k # Len(acks) + 1
      <4>1. k \in 1..Len(acks) /\ \A j \in 1..k - 1 : j \in 1..Len(acks)
        BY <1>6, <3>3
      <4>2. acks[k] \in lsu.stores /\ \A j \in 1..k - 1 : acks[j] < acks[k]
        BY <1>6, <4>1 DEF StoreInv
      <4> QED BY <1>8, <2>2, <4>1, <4>2
    <3> QED BY <3>2, <3>3
  <2> QED BY <2>1, <2>2
<1> QED BY <1>3, <1>10, <1>11, <1>12 DEF StoreInv

\* Dispatch sends a store.
LEMMA DispatchStoreInv ==
    ASSUME TraceGiven, IInv, IInv', StoreInv, DispatchSends
    PROVE  StoreInv'
<1> DEFINE n == Len(pid) + 1
<1>1. /\ n \notin Insts /\ Insts' = Insts \cup {n} /\ status'[n] = "DISPATCHED"
      /\ \A v \in Insts : status'[v] = status[v] /\ mem'[v] = mem[v]
      /\ \A v \in Insts : isStore(v)' <=> isStore(v)
      /\ UNCHANGED <<lsu, acks, cache_pipeline_, phase>>
  BY DispatchIs DEF dcacheVars
<1>2. lsu.stores \subseteq Insts /\ lsu.queue \subseteq Insts
  BY DEF IInv, HeldInv
<1> HIDE DEF n
<1>3. \A u \in lsu'.stores :
          /\ u \in lsu'.queue /\ isStore(u)' /\ mem'[u].cache = "NO_ACCESS" /\ ~mem'[u].data
          /\ status'[u] = "RETIRED" => u \in Range(acks')
          /\ cache_pipeline_'.DATA_READ.uid = u => cache_pipeline_'.DATA_READ.refill
          /\ cache_pipeline_'.LOOKUP.uid = u /\ ~cache_pipeline_'.LOOKUP.refill
                => phase' \in {"late", "port"}
  BY <1>1, <1>2 DEF StoreInv
<1>4. \A u \in Insts' : isStore(u)' /\ (\/ status'[u] \in {"SCHEDULED", "COMPLETED"}
                                        \/ status'[u] = "DISPATCHED" /\ u \in lsu'.queue)
                           => u \in lsu'.stores
  BY <1>1, <1>2 DEF StoreInv
<1>5. \A k \in DOMAIN acks' : acks'[k] \in lsu'.stores /\ \A j \in 1..k - 1 : acks'[j] < acks'[k]
  BY <1>1 DEF StoreInv
<1> QED BY <1>3, <1>4, <1>5 DEF StoreInv

\* A flush.
LEMMA FlushStoreInv ==
    ASSUME TraceGiven, IInv, IInv', StoreInv, Flush
    PROVE  StoreInv'
<1>1. PICK b \in Nat :
             LET us == {u \in Live : pid[u] >= b}
             IN  /\ lsu' = handleFlush(lsu, us)
                 /\ \A u \in Insts : status'[u] = IF u \in us THEN "FLUSHED" ELSE status[u]
                 /\ Insts' = Insts /\ acks = << >>
                 /\ UNCHANGED <<phase, program, pid, mem, dcacheVars, acks>>
  BY FlushIs
<1> DEFINE us == {u \in Live : pid[u] >= b}
<1>2. lsu'.queue = lsu.queue \ us /\ lsu'.stores = lsu.stores \ us
  BY <1>1, FlushDoes DEF IInv, HeldInv
<1>3. \A u \in Insts : status'[u] = IF u \in us THEN "FLUSHED" ELSE status[u]
  BY <1>1
<1>4. Insts' = Insts /\ acks' = << >> /\ UNCHANGED <<phase, mem, cache_pipeline_, acks>>
  BY <1>1 DEF dcacheVars
<1>5. \A v : isStore(v)' <=> isStore(v)
  BY <1>1 DEF isStore, Inst
<1>6. lsu.stores \subseteq Insts
  BY DEF IInv, HeldInv
<1> HIDE DEF us
<1>7. \A u \in lsu'.stores :
          /\ u \in lsu'.queue /\ isStore(u)' /\ mem'[u].cache = "NO_ACCESS" /\ ~mem'[u].data
          /\ status'[u] = "RETIRED" => u \in Range(acks')
          /\ cache_pipeline_'.DATA_READ.uid = u => cache_pipeline_'.DATA_READ.refill
          /\ cache_pipeline_'.LOOKUP.uid = u /\ ~cache_pipeline_'.LOOKUP.refill
                => phase' \in {"late", "port"}
  BY <1>2, <1>3, <1>4, <1>5, <1>6 DEF StoreInv
<1>8. \A u \in Insts : isStore(u)' /\ (\/ status'[u] \in {"SCHEDULED", "COMPLETED"}
                                       \/ status'[u] = "DISPATCHED" /\ u \in lsu'.queue)
                           => u \in lsu'.stores
  BY <1>2, <1>3, <1>5 DEF StoreInv
<1> QED BY <1>4, <1>7, <1>8 DEF StoreInv

-----------------------------------------------------------------------------
(* TranslationInv.                                                         *)

\* Whoever leaves the queue is translated.
LeavesTranslated ==
    \A u \in Insts : ~mem'[u].phy => /\ ~mem[u].phy /\ (u \in lsu.queue => u \in lsu'.queue \/ status'[u] = "FLUSHED")
                                     /\ (status[u] \in {"FLUSHED", "DISPATCHED"}
                                           => status'[u] \in {"FLUSHED", "DISPATCHED"} \/ u \in lsu'.queue)

\* A step that leaves the MMU alone.
LEMMA TranslationStep ==
    ASSUME IInv, TranslationInv, UNCHANGED <<program, pid, tlb_cache_, mmu_pending_inst_>>,
           (uev_lookup_inst_' = {}) = (uev_lookup_inst_ = {}), mmu_ready' \subseteq mmu_ready,
           mmu_ready' # {} => phase' \in {"late", "port"},
           \A u \in Insts : mem'[u].phy <=> mem[u].phy, LeavesTranslated
    PROVE  TranslationInv'
<1>1. Insts' = Insts /\ \A u : Page(u)' = Page(u)
  BY DEF Insts, Page, VAddr, Inst
<1>2. \A u \in mmu_ready : u \in Insts
  BY DEF IInv, HeldInv, TranslationInv
<1>3. mmu_pending_inst_ # 0 => mmu_pending_inst_ \in Insts
  BY DEF IInv, HeldInv
<1>4. \A u \in Insts : mem'[u].phy \/ status'[u] \in {"FLUSHED", "DISPATCHED"} \/ u \in lsu'.queue
  BY DEF LeavesTranslated, TranslationInv
<1>5. mmu_pending_inst_' # 0 => /\ Page(mmu_pending_inst_)' \notin tlb_cache_'
                                /\ ~mem'[mmu_pending_inst_'].phy
  <2>1. Page(mmu_pending_inst_)' = Page(mmu_pending_inst_)
    BY DEF Page, VAddr, Inst
  <2> QED BY <1>3, <2>1 DEF TranslationInv
<1>6. (mmu_pending_inst_' = 0) = (uev_lookup_inst_' = {})
  BY DEF TranslationInv
<1>7. \A u \in mmu_ready' : u # 0 /\ ~mem'[u].phy
  BY <1>2 DEF TranslationInv
<1> QED BY <1>1, <1>4, <1>5, <1>6, <1>7 DEF TranslationInv

\* Actions that change no instruction, and the clock.
LEMMA QuietTranslationInv ==
    ASSUME IInv, IInv', ReadyInv, InstInv, StoreInv, TranslationInv,
           \/ CalculatesAddress \/ AppendsReady \/ ReplaysReady \/ Issues
           \/ LSUGetsTranslation \/ CacheAsksL2 \/ L2Responds \/ CacheArbitrates \/ LSUGetsAck
           \/ nextPhase
    PROVE  TranslationInv'
<1>1. UNCHANGED <<program, instVars, tlb_cache_, mmu_pending_inst_>> /\ mmu_ready' \subseteq mmu_ready
  BY DEF CalculatesAddress, AtStage, handleAddressCalculation, AppendsReady, ReplaysReady, Issues,
         LSUGetsTranslation, CacheAsksL2, L2Responds, CacheArbitrates, LSUGetsAck,
         nextPhase, mmuVars
<1>2. lsu'.queue = lsu.queue
  <2>1. CASE CalculatesAddress \/ AppendsReady \/ ReplaysReady
    BY <2>1, EventsKeep DEF SameHeld
  <2>2. CASE Issues
    BY <2>2, IssuesIs DEF SameHeld
  <2>3. CASE LSUGetsTranslation
    BY <2>3, TranslationKeeps DEF SameHeld
  <2>4. CASE LSUGetsAck
    BY <2>4, AckKeeps
  <2>5. CASE nextPhase
    BY <2>5, ClockIs DEF SameHeld
  <2>6. CASE CacheAsksL2 \/ L2Responds \/ CacheArbitrates
    BY <2>6 DEF CacheAsksL2, L2Responds, CacheArbitrates
  <2> QED BY <2>1, <2>2, <2>3, <2>4, <2>5, <2>6
<1>3. (uev_lookup_inst_' = {}) = (uev_lookup_inst_ = {})
  <2>1. CASE nextPhase
    <3>1. uev_lookup_inst_' = uev_lookup_inst_ \/ uev_lookup_inst_' = {d - 1 : d \in uev_lookup_inst_}
      BY <2>1 DEF nextPhase
    <3> QED BY <3>1
  <2>2. CASE ~nextPhase
    BY <2>2 DEF CalculatesAddress, AtStage, handleAddressCalculation, AppendsReady, ReplaysReady, Issues,
         LSUGetsTranslation, CacheAsksL2, L2Responds, CacheArbitrates, LSUGetsAck, mmuVars
  <2> QED BY <2>1, <2>2
<1>4. mmu_ready' # {} => phase' \in {"late", "port"}
  <2>1. CASE nextPhase
    <3>1. /\ phase = "port" => mmu_ready = {}
          /\ phase = "late" => phase' = "port"
          /\ mmu_ready' = mmu_ready
      BY <2>1, ClockIs DEF nextPhase, PhaseDone, MessagesDone, NextOf
    <3> QED BY <3>1 DEF TranslationInv
  <2>2. CASE ~nextPhase
    <3>1. phase' = phase
      BY <2>2 DEF CalculatesAddress, AtStage, AppendsReady, ReplaysReady, Issues,
         LSUGetsTranslation, CacheAsksL2, L2Responds, CacheArbitrates, LSUGetsAck
    <3> QED BY <1>1, <3>1 DEF TranslationInv
  <2> QED BY <2>1, <2>2
<1>5. LeavesTranslated /\ UNCHANGED pid /\ \A u \in Insts : mem'[u].phy <=> mem[u].phy
  BY <1>1, <1>2 DEF LeavesTranslated, instVars
<1> QED BY <1>1, <1>2, <1>3, <1>4, <1>5, TranslationStep

\* The MMU has handled a miss.
LEMMA EntryTranslationInv ==
    ASSUME IInv, IInv', TranslationInv, MMULoadsEntry
    PROVE  TranslationInv'
<1>1. /\ UNCHANGED <<phase, program, instVars, lsu>> /\ phase = "late" /\ 0 \in uev_lookup_inst_
      /\ mmu_ready' = {mmu_pending_inst_} /\ mmu_pending_inst_' = 0 /\ uev_lookup_inst_' = {}
  BY DEF MMULoadsEntry, lookupInst
<1>2. mmu_pending_inst_ # 0 /\ ~mem[mmu_pending_inst_].phy
  BY <1>1 DEF TranslationInv
<1>3. Insts' = Insts
  BY <1>1 DEF Insts, instVars
<1> QED BY <1>1, <1>2, <1>3 DEF TranslationInv, instVars

\* The TLB lookup.
LEMMA LookupTranslationInv ==
    ASSUME IInv, IInv', ReadyInv, TranslationInv, LooksUpMMU
    PROVE  TranslationInv'
<1>1. PICK u \in Insts : AtStage(MMU_LOOKUP, u) /\ handleMMULookupReq(u)
  BY DEF LooksUpMMU
<1>2. UNCHANGED <<program, pid, phase>> /\ phase = "tick"
  BY <1>1 DEF AtStage, handleMMULookupReq, instVars
<1>3. lsu'.queue = lsu.queue
  BY <1>1, LookupKeeps DEF SameHeld
<1>4. /\ \A v \in Insts : v # u => mem'[v] = mem[v]
      /\ mem'[u].phy <=> mem[u].phy \/ memLookup(u)
      /\ UNCHANGED <<tlb_cache_, mmu_ready>>
  BY <1>1, LookupAccess
<1>5. mmu_ready = {} /\ mmu_ready' = {}
  BY <1>2, <1>4 DEF TranslationInv
<1>6. Insts' = Insts /\ \A v : Page(v)' = Page(v)
  BY <1>2 DEF Insts, Page, VAddr, Inst
<1>7. DOMAIN status = Insts
  BY InstFacts DEF IInv
<1>8. \A v \in Insts : status'[v] = status[v] \/ v \in lsu.queue
  <2>1. status' = status \/ status' = Scheduled(DependentLoads)
    BY <1>1 DEF handleMMULookupReq, instVars
  <2> QED BY <1>7, <2>1 DEF Scheduled, DependentLoads
<1>9. \A v \in Insts : mem'[v].phy \/ status'[v] \in {"FLUSHED", "DISPATCHED"} \/ v \in lsu'.queue
  BY <1>3, <1>4, <1>8 DEF TranslationInv
<1>10. \/ /\ ~memLookup(u) /\ mmu_pending_inst_ = 0 /\ mmu_pending_inst_' = u
          /\ uev_lookup_inst_' = {MMULatency} /\ ~mem[u].phy
       \/ UNCHANGED <<mmu_pending_inst_, uev_lookup_inst_>>
  BY <1>1 DEF handleMMULookupReq, getInstsFromLSU, mmuVars
<1>11. u # 0 /\ (mmu_pending_inst_ # 0 => mmu_pending_inst_ \in Insts)
  BY <1>1, InstFacts DEF IInv, HeldInv
<1>12. (mmu_pending_inst_' = 0) = (uev_lookup_inst_' = {})
  BY <1>10, <1>11 DEF TranslationInv
<1>13. mmu_pending_inst_' # 0 => /\ Page(mmu_pending_inst_') \notin tlb_cache_
                                 /\ ~mem'[mmu_pending_inst_'].phy
  <2>1. CASE ~memLookup(u) /\ mmu_pending_inst_ = 0 /\ mmu_pending_inst_' = u /\ ~mem[u].phy
    BY <1>4, <2>1 DEF memLookup
  <2>2. CASE mmu_pending_inst_' = mmu_pending_inst_
    BY <1>4, <1>11, <2>2 DEF TranslationInv, memLookup
  <2> QED BY <1>10, <2>1, <2>2
<1>14. mmu_pending_inst_' # 0 => Page(mmu_pending_inst_)' \notin tlb_cache_'
  BY <1>2, <1>4, <1>13 DEF Page, VAddr, Inst
<1> QED BY <1>5, <1>6, <1>9, <1>12, <1>13, <1>14 DEF TranslationInv

\* The other stages.
LEMMA UnitTranslationInv ==
    ASSUME IInv, IInv', ReadyInv, InstInv, StageInv, TranslationInv,
           LooksUpCache \/ ReadsCache \/ Completes \/ CacheLooksUp \/ CacheReads
    PROVE  TranslationInv'
<1>1. UNCHANGED <<program, pid, phase, mmuVars>>
  BY DEF LooksUpCache, ReadsCache, Completes, AtStage, handleCacheLookupReq, handleCacheRead,
         completeInst, CacheLooksUp, CacheReads, AtCacheStage
<1>2. UNCHANGED <<tlb_cache_, mmu_pending_inst_, uev_lookup_inst_, mmu_ready>>
  BY <1>1 DEF mmuVars
<1>3. mmu_ready' # {} => phase' \in {"late", "port"}
  BY <1>1, <1>2 DEF TranslationInv
<1>4. DOMAIN status = Insts
  BY InstFacts DEF IInv
<1>5. LeavesTranslated /\ \A u \in Insts : mem'[u].phy <=> mem[u].phy
  <2>1. CASE LooksUpCache
    <3>1. PICK u \in Insts : AtStage(CACHE_LOOKUP, u) /\ handleCacheLookupReq(u)
      BY <2>1 DEF LooksUpCache
    <3>2. lsu'.queue = lsu.queue /\ \A v \in Insts : mem'[v].phy <=> mem[v].phy
      BY <3>1, CacheLookupKeeps, CacheLookupAccess DEF SameHeld
    <3>3. \A v \in Insts : status'[v] = status[v] \/ status[v] = "SCHEDULED"
      BY <1>4, <3>1 DEF handleCacheLookupReq, StoreDone
    <3> QED BY <3>2, <3>3 DEF LeavesTranslated
  <2>2. CASE ReadsCache
    <3>1. PICK u \in Insts : AtStage(CACHE_READ, u) /\ handleCacheRead(u)
      BY <2>2 DEF ReadsCache
    <3>2. /\ lsu'.queue = lsu.queue /\ \A v \in Insts : mem'[v].phy <=> mem[v].phy
          /\ UNCHANGED status
      BY <3>1, CacheReadKeeps, CacheReadAccess DEF SameHeld
    <3> QED BY <3>2 DEF LeavesTranslated
  <2>3. CASE Completes
    <3>1. PICK u \in Insts : AtStage(COMPLETE, u) /\ completeInst(u)
      BY <2>3, Zenon DEF Completes
    <3>2. mem[u].data
      BY <3>1 DEF AtStage, StageInv
    <3>3. lsu'.queue = IF Finishes(u) THEN lsu.queue \ {u} ELSE lsu.queue
      BY <3>1, <3>2, CompleteStays
    <3>4. mem' = mem /\ mem[u].phy
      BY <3>1, <3>2 DEF completeInst, InstInv, Used
    <3>5. \A v \in Insts : status'[v] = status[v] \/ v = u
      BY <1>4, <3>1 DEF completeInst
    <3> QED BY <3>3, <3>4, <3>5 DEF LeavesTranslated
  <2>4. CASE CacheLooksUp \/ CacheReads
    <3>1. lsu'.queue = lsu.queue
      BY <2>4, CacheKeeps DEF SameHeld
    <3>2. UNCHANGED status /\ \A v \in Insts : mem'[v].phy <=> mem[v].phy
      BY <2>4, CacheLooksUpAccess, CacheReadsAccess
    <3> QED BY <3>1, <3>2 DEF LeavesTranslated
  <2> QED BY <2>1, <2>2, <2>3, <2>4
<1> QED BY <1>1, <1>2, <1>3, <1>5, TranslationStep

\* ROB, registers, a new instruction in the queue, and the flush.
LEMMA OtherTranslationInv ==
    ASSUME TraceGiven, IInv, IInv', ReadyInv, TranslationInv,
           OperandArrives \/ ScoreboardUpdate \/ LSUReceives \/ Retire \/ Flush
    PROVE  TranslationInv'
<1>1. UNCHANGED <<program, pid, phase, mmuVars, mem>>
  BY DEF OperandArrives, ScoreboardUpdate, LSUReceives, Retire, Flush
<1>2. UNCHANGED <<tlb_cache_, mmu_pending_inst_, uev_lookup_inst_, mmu_ready>>
  BY <1>1 DEF mmuVars
<1>3. mmu_ready' # {} => phase' \in {"late", "port"}
  BY <1>1, <1>2 DEF TranslationInv
<1>4. DOMAIN status = Insts
  BY InstFacts DEF IInv
<1>5. LeavesTranslated
  <2>1. CASE OperandArrives \/ ScoreboardUpdate
    <3>1. PICK r : RegisterReady(r)
      BY <2>1, RegisterStep
    <3> DEFINE us == {c.uid : c \in {d \in lsu.callbacks : d.reg = r}}
    <3>2. /\ lsu'.queue = lsu.queue /\ status' = Scheduled(Schedulable(us, ready')) /\ us \subseteq lsu.queue
      BY <3>1, RegisterKeeps
    <3>3. Schedulable(us, ready') \subseteq us
      BY DEF Schedulable
    <3> HIDE DEF us
    <3>4. \A v \in Insts : status'[v] = status[v] \/ v \in lsu.queue
      BY <1>4, <3>2, <3>3 DEF Scheduled
    <3> QED BY <1>1, <3>2, <3>4 DEF LeavesTranslated
  <2>2. CASE LSUReceives
    <3> DEFINE u == Head(to_lsu)
    <3>1. lsu'.queue = lsu.queue \cup {u} /\ status' = Scheduled(Schedulable({u}, ready))
      BY <2>2, ReceiveKeeps
    <3>2. Schedulable({u}, ready) \subseteq {u}
      BY DEF Schedulable
    <3> HIDE DEF u
    <3>3. \A v \in Insts : status'[v] = status[v] \/ v \in lsu'.queue
      BY <1>4, <3>1, <3>2 DEF Scheduled
    <3> QED BY <1>1, <3>1, <3>3 DEF LeavesTranslated
  <2>3. CASE Retire
    <3>1. PICK u \in Live : status[u] = "COMPLETED" /\ status' = [status EXCEPT ![u] = "RETIRED"]
      BY <2>3 DEF Retire
    <3>2. lsu' = lsu /\ \A v \in Insts : status'[v] = status[v] \/ status[v] = "COMPLETED"
      BY <1>4, <2>3, <3>1 DEF Retire
    <3> QED BY <1>1, <3>2 DEF LeavesTranslated
  <2>4. CASE Flush
    <3>1. PICK b \in Nat :
             LET us == {u \in Live : pid[u] >= b}
             IN  /\ lsu' = handleFlush(lsu, us)
                 /\ \A u \in Insts : status'[u] = IF u \in us THEN "FLUSHED" ELSE status[u]
      BY <2>4, FlushIs
    <3> DEFINE us == {u \in Live : pid[u] >= b}
    <3>2. lsu'.queue = lsu.queue \ us
      BY <3>1, FlushDoes DEF IInv, HeldInv
    <3>3. \A u \in Insts : status'[u] = IF u \in us THEN "FLUSHED" ELSE status[u]
      BY <3>1
    <3> HIDE DEF us
    <3> QED BY <1>1, <3>2, <3>3 DEF LeavesTranslated
  <2> QED BY <2>1, <2>2, <2>3, <2>4
<1> QED BY <1>1, <1>2, <1>3, <1>5, TranslationStep

\* Dispatch.
LEMMA DispatchTranslationInv ==
    ASSUME TraceGiven, IInv, IInv', TranslationInv, DispatchSends
    PROVE  TranslationInv'
<1> DEFINE n == Len(pid) + 1
<1>1. /\ Insts' = Insts \cup {n} /\ status'[n] = "DISPATCHED"
      /\ \A v \in Insts : status'[v] = status[v] /\ mem'[v] = mem[v] /\ Inst(v)' = Inst(v)
      /\ UNCHANGED <<lsu, mmuVars, phase>>
  BY DispatchIs
<1>2. UNCHANGED <<tlb_cache_, mmu_pending_inst_, uev_lookup_inst_, mmu_ready>>
  BY <1>1 DEF mmuVars
<1>3. \A u \in mmu_ready : u \in Insts
  BY DEF IInv, HeldInv, TranslationInv
<1>4. mmu_pending_inst_ # 0 => mmu_pending_inst_ \in Insts
  BY DEF IInv, HeldInv
<1> HIDE DEF n
<1>5. mmu_pending_inst_ # 0 => Page(mmu_pending_inst_)' = Page(mmu_pending_inst_)
  <2>1. mmu_pending_inst_ # 0 => program'[pid'[mmu_pending_inst_]] = program[pid[mmu_pending_inst_]]
    BY <1>1, <1>4 DEF Inst
  <2> QED BY <1>2, <2>1 DEF Page, VAddr, Inst
<1>6. \A u \in Insts' : mem'[u].phy \/ status'[u] \in {"FLUSHED", "DISPATCHED"} \/ u \in lsu'.queue
  BY <1>1 DEF TranslationInv
<1>7. mmu_pending_inst_' # 0 => /\ Page(mmu_pending_inst_)' \notin tlb_cache_'
                                /\ ~mem'[mmu_pending_inst_'].phy
  BY <1>1, <1>2, <1>4, <1>5 DEF TranslationInv
<1>8. \A u \in mmu_ready' : u # 0 /\ ~mem'[u].phy
  BY <1>1, <1>2, <1>3 DEF TranslationInv
<1> QED BY <1>1, <1>2, <1>6, <1>7, <1>8 DEF TranslationInv

-----------------------------------------------------------------------------
(* PlacedInv.                                                              *)

\* Who waits goes on waiting, as long as its status is the same, ROB's message is on its
\* way, and the stores that are not translated stay.
LEMMA WaitingStays ==
    ASSUME UNCHANGED <<program, params>>, NEW u, Waiting(u), status'[u] = status[u], pid'[u] = pid[u],
           u \in Range(acks) => u \in Range(acks'),
           Inst(u).src \in ready => Inst(u).src \in ready',
           ~isStore(u) => \A v \in lsu.queue : isStore(v) /\ v < u /\ ~mem[v].phy =>
                               v \in lsu'.queue /\ ~mem'[v].phy /\ pid'[v] = pid[v]
    PROVE  Waiting(u)'
<1>1. Inst(u)' = Inst(u) /\ (isStore(u)' <=> isStore(u))
  BY DEF Inst, isStore
<1>2. CASE isStore(u)
  BY <1>1, <1>2 DEF Waiting
<1>3. CASE ~isStore(u)
  <2>1. /\ ~allow_speculative_load_exec_ /\ status[u] = "DISPATCHED"
        /\ Inst(u).src \in ready /\ ~allOlderStoresIssued(u)
    BY <1>3 DEF Waiting
  <2>2. PICK v \in lsu.queue : isStore(v) /\ v < u /\ ~mem[v].phy
    BY <2>1 DEF allOlderStoresIssued
  <2>3. v \in lsu'.queue /\ ~mem'[v].phy /\ (isStore(v)' <=> isStore(v))
    BY <1>3, <2>2 DEF isStore, Inst
  <2>4. ~allOlderStoresIssued(u)'
    BY <2>2, <2>3 DEF allOlderStoresIssued
  <2> QED BY <1>1, <1>3, <2>1, <2>4 DEF Waiting, params
<1> QED BY <1>2, <1>3

\* A step that loses nobody and changes no waiting instruction.
LEMMA PlacedStep ==
    ASSUME IInv, PlacedInv, UNCHANGED <<program, pid, params>>, lsu'.queue \subseteq lsu.queue,
           Stays(lsu, lsu', {}), ready \subseteq ready', acks' = acks,
           \A v \in lsu'.queue : Waiting(v) => status'[v] = status[v],
           \A v \in lsu.queue : isStore(v) /\ ~mem[v].phy => v \in lsu'.queue /\ ~mem'[v].phy
    PROVE  PlacedInv'
<1> SUFFICES ASSUME NEW u \in lsu'.queue
             PROVE  Kept(lsu', u) \/ (u \notin lsu'.replay /\ Waiting(u)')
  BY DEF PlacedInv, Kept, InStage, Queued
<1>1. CASE Kept(lsu, u)
  BY <1>1 DEF Stays
<1>2. CASE u \notin lsu.replay /\ Waiting(u)
  <2>1. u \notin lsu'.replay
    BY <1>2 DEF Stays
  <2>2. Waiting(u)'
    BY <1>2, WaitingStays
  <2> QED BY <2>1, <2>2
<1> QED BY <1>1, <1>2 DEF PlacedInv

\* Actions that change no instruction.
LEMMA QuietPlacedInv ==
    ASSUME TraceGiven, IInv, IInv', ReadyInv, TranslationInv, PlacedInv,
           \/ CalculatesAddress \/ AppendsReady \/ ReplaysReady \/ MMULoadsEntry
           \/ LSUGetsTranslation \/ CacheAsksL2 \/ L2Responds \/ CacheArbitrates
    PROVE  PlacedInv'
<1>1. UNCHANGED <<program, params, instVars, ready, acks>>
  BY DEF CalculatesAddress, AtStage, handleAddressCalculation, AppendsReady, ReplaysReady,
         MMULoadsEntry, LSUGetsTranslation, CacheAsksL2, L2Responds, CacheArbitrates, envVars
<1>2. Shaped(lsu) /\ Orderly(lsu)
  BY DEF IInv, HeldInv, ReadyInv
<1>3. Stays(lsu, lsu', {}) /\ lsu'.queue = lsu.queue
  <2>1. CASE CalculatesAddress \/ AppendsReady \/ ReplaysReady
    BY <2>1, EventsKeep, KeepsStays DEF SameHeld
  <2>2. CASE LSUGetsTranslation
    BY <2>2, TranslationKeeps, KeepsStays DEF SameHeld
  <2>3. CASE MMULoadsEntry \/ CacheAsksL2 \/ L2Responds \/ CacheArbitrates
    <3>1. lsu' = lsu
      BY <2>3 DEF MMULoadsEntry, CacheAsksL2, L2Responds, CacheArbitrates
    <3> QED BY <1>2, <3>1, StaysSame
  <2> QED BY <2>1, <2>2, <2>3
<1> QED BY <1>1, <1>3, PlacedStep DEF instVars

\* The issue: what issues is in the pipeline.
LEMMA IssuesPlacedInv ==
    ASSUME IInv, IInv', ReadyInv, PlacedInv, Issues
    PROVE  PlacedInv'
<1>1. /\ \A v : Kept(lsu, v) /\ v # 0 => Kept(lsu', v)
      /\ UNCHANGED <<program, params, instVars, ready, acks>> /\ lsu'.queue = lsu.queue
      /\ Shaped(lsu')
  BY IssuesIs DEF envVars, SameHeld
<1>2. Moves(lsu, lsu', {})
  <2>1. \A u \in lsu.ready : u \in Nat
    BY WorkingMay, InstFacts DEF Working, IInv
  <2> QED BY <2>1, IssueMoves DEF Issues, IInv, HeldInv
<1> SUFFICES ASSUME NEW u \in lsu'.queue
             PROVE  Kept(lsu', u) \/ (u \notin lsu'.replay /\ Waiting(u)')
  BY DEF PlacedInv, Kept, InStage, Queued
<1>3. u # 0 /\ u \in lsu.queue
  BY <1>1, InstFacts DEF IInv, HeldInv
<1>4. CASE Kept(lsu, u)
  BY <1>1, <1>3, <1>4
<1>5. CASE ~Kept(lsu, u) /\ u \notin lsu.replay /\ Waiting(u)
  <2>1. u \notin Working(lsu)
    BY <1>5, WorkingIs DEF Kept, InStage, Queued, IInv, HeldInv
  <2>2. u \notin lsu'.replay
    BY <1>1, <1>2, <2>1, WorkingIs DEF Moves
  <2>3. Waiting(u)'
    BY <1>1, <1>5, WaitingStays DEF instVars
  <2> QED BY <2>2, <2>3
<1> QED BY <1>3, <1>4, <1>5 DEF PlacedInv

\* The clock: what leaves the last stage has left the queue.
LEMMA ClockPlacedInv ==
    ASSUME IInv, IInv', ReadyInv, StageInv, PlacedInv, nextPhase
    PROVE  PlacedInv'
<1>1. /\ phase = "tick" => \A v : Kept(lsu, v) /\ v # lsu.pipeline[COMPLETE] => Kept(lsu', v)
      /\ phase # "tick" => \A v : Kept(lsu, v) => Kept(lsu', v)
      /\ UNCHANGED <<program, params, instVars, ready, acks>> /\ lsu'.queue = lsu.queue
      /\ lsu'.replay = lsu.replay
  BY ClockIs DEF envVars, SameHeld
<1>2. phase = "tick" => (lsu.pipeline[COMPLETE] # 0 => COMPLETE \notin stages_due)
  BY DEF nextPhase, PhaseDone, StagesDone
<1> SUFFICES ASSUME NEW u \in lsu'.queue
             PROVE  Kept(lsu', u) \/ (u \notin lsu'.replay /\ Waiting(u)')
  BY DEF PlacedInv, Kept, InStage, Queued
<1>3. u # 0 /\ u \in lsu.queue
  BY <1>1, InstFacts DEF IInv, HeldInv
<1>4. phase = "tick" => u # lsu.pipeline[COMPLETE]
  BY <1>2, <1>3 DEF StageInv
<1>5. CASE Kept(lsu, u)
  BY <1>1, <1>4, <1>5
<1>6. CASE u \notin lsu.replay /\ Waiting(u)
  <2>1. Waiting(u)'
    BY <1>1, <1>6, WaitingStays DEF instVars
  <2> QED BY <1>1, <1>6, <2>1
<1> QED BY <1>3, <1>5, <1>6 DEF PlacedInv

\* ROB's message: the store is to join the ready queue.
LEMMA AckPlacedInv ==
    ASSUME IInv, IInv', ReadyInv, InstInv, StoreInv, PlacedInv, LSUGetsAck
    PROVE  PlacedInv'
<1>1. /\ Keeps(lsu, lsu', {}) /\ lsu'.queue = lsu.queue /\ acks[1] \in lsu'.append
  BY AckKeeps
<1>2. UNCHANGED <<program, params, instVars, ready>> /\ acks # << >> /\ acks' = Tail(acks)
  BY DEF LSUGetsAck
<1>3. acks \in Seq(Insts)
  BY DEF IInv, MessageInv
<1>4. \A v \in Range(acks) : v = acks[1] \/ v \in Range(acks')
  <2> SUFFICES ASSUME NEW k \in DOMAIN acks, k # 1 PROVE acks[k] \in Range(acks')
    BY DEF Range
  <2>1. k \in 2..Len(acks) /\ Len(acks) \in Nat
    BY <1>3
  <2>2. k - 1 \in DOMAIN acks' /\ acks'[k - 1] = acks[k]
    BY <1>2, <1>3, <2>1
  <2> QED BY <2>2 DEF Range
<1> SUFFICES ASSUME NEW u \in lsu'.queue
             PROVE  Kept(lsu', u) \/ (u \notin lsu'.replay /\ Waiting(u)')
  BY DEF PlacedInv, Kept, InStage, Queued
<1>5. CASE Kept(lsu, u)
  BY <1>1, <1>5 DEF Keeps
<1>6. CASE u \notin lsu.replay /\ Waiting(u)
  <2>1. u \notin lsu'.replay
    BY <1>1, <1>6 DEF Keeps
  <2>2. CASE u = acks[1]
    BY <1>1, <2>1, <2>2 DEF Kept, Queued
  <2>3. CASE u # acks[1]
    BY <1>1, <1>2, <1>4, <1>6, <2>1, <2>3, WaitingStays DEF instVars
  <2> QED BY <2>2, <2>3
<1> QED BY <1>1, <1>5, <1>6 DEF PlacedInv

\* The TLB lookup: a store that is translated wakes the loads that wait for it.
LEMMA LookupPlacedInv ==
    ASSUME IInv, IInv', ReadyInv, PlacedInv, LooksUpMMU
    PROVE  PlacedInv'
<1>1. PICK w \in Insts : AtStage(MMU_LOOKUP, w) /\ handleMMULookupReq(w)
  BY DEF LooksUpMMU
<1>2. /\ Keeps(lsu, lsu', {}) /\ lsu'.queue = lsu.queue
      /\ (isStore(w) /\ ~allow_speculative_load_exec_ /\ ~mem[w].phy
                 => DependentLoads \subseteq lsu'.ready)
  BY <1>1, LookupKeeps DEF SameHeld
<1>3. UNCHANGED <<program, params, pid, ready, acks>>
  BY <1>1 DEF AtStage, handleMMULookupReq, instVars
<1>4. /\ \A v \in Insts : v # w => mem'[v] = mem[v]
      /\ mem[w].phy => mem'[w].phy
  BY <1>1, LookupAccess
<1>5. DOMAIN status = Insts /\ lsu.queue \subseteq Insts
  BY InstFacts DEF IInv, HeldInv
<1>6. /\ mem[w].phy => status' = status /\ UNCHANGED mem
      /\ ~(isStore(w) /\ ~allow_speculative_load_exec_) => status' = status
      /\ status' = status \/ status' = Scheduled(DependentLoads)
  BY <1>1 DEF handleMMULookupReq, instVars
<1> SUFFICES ASSUME NEW u \in lsu'.queue
             PROVE  Kept(lsu', u) \/ (u \notin lsu'.replay /\ Waiting(u)')
  BY DEF PlacedInv, Kept, InStage, Queued
<1>7. CASE Kept(lsu, u)
  BY <1>2, <1>7 DEF Keeps
<1>8. CASE u \notin lsu.replay /\ Waiting(u)
  <2>1. u \notin lsu'.replay
    BY <1>2, <1>8 DEF Keeps
  <2>2. CASE isStore(u)
    <3>1. status'[u] = status[u]
      BY <1>2, <1>5, <1>6, <2>2 DEF Scheduled, DependentLoads
    <3> QED BY <1>3, <1>8, <2>1, <2>2, <3>1, WaitingStays
  <2>3. CASE ~isStore(u) /\ isStore(w) /\ ~mem[w].phy
    <3>1. u \in DependentLoads /\ ~allow_speculative_load_exec_
      BY <1>2, <1>8, <2>3 DEF Waiting, DependentLoads
    <3> QED BY <1>2, <2>1, <2>3, <3>1 DEF Kept, Queued
  <2>4. CASE ~isStore(u) /\ (~isStore(w) \/ mem[w].phy)
    <3>1. status' = status
      BY <1>6, <2>4
    <3>2. \A v \in lsu.queue : isStore(v) /\ v < u /\ ~mem[v].phy =>
                               v \in lsu'.queue /\ ~mem'[v].phy /\ pid'[v] = pid[v]
      BY <1>2, <1>3, <1>4, <1>5, <1>6, <2>4
    <3> QED BY <1>3, <1>8, <2>1, <3>1, <3>2, WaitingStays
  <2> QED BY <2>2, <2>3, <2>4
<1> QED BY <1>2, <1>7, <1>8 DEF PlacedInv

\* The cache lookup: a store that has done so far waits for ROB.
LEMMA CacheLookupPlacedInv ==
    ASSUME IInv, IInv', ReadyInv, PlacedInv, LooksUpCache
    PROVE  PlacedInv'
<1>1. PICK w \in Insts : AtStage(CACHE_LOOKUP, w) /\ handleCacheLookupReq(w)
  BY DEF LooksUpCache
<1>2. /\ Keeps(lsu, lsu', {w}) /\ lsu'.queue = lsu.queue
      /\ ~(mem[w].phy /\ StoreDone(w)) => Keeps(lsu, lsu', {})
      /\ mem[w].phy /\ StoreDone(w) => Kept(lsu', w) \/ w \notin lsu'.replay
  BY <1>1, CacheLookupKeeps DEF SameHeld
<1>3. UNCHANGED <<program, params, pid, ready, acks>>
  BY <1>1 DEF AtStage, handleCacheLookupReq
<1>4. \A v \in Insts : mem'[v].phy <=> mem[v].phy
  BY <1>1, CacheLookupAccess
<1>5. DOMAIN status = Insts /\ lsu.queue \subseteq Insts
  BY InstFacts DEF IInv, HeldInv
<1>6. status' = IF mem[w].phy /\ StoreDone(w) THEN [status EXCEPT ![w] = "COMPLETED"] ELSE status
  BY <1>1 DEF handleCacheLookupReq, Untranslated
<1>7. CASE ~(mem[w].phy /\ StoreDone(w))
  <2>1. Stays(lsu, lsu', {}) /\ status' = status
    BY <1>2, <1>6, <1>7, KeepsStays
  <2> QED BY <1>2, <1>3, <1>4, <1>5, <2>1, PlacedStep
<1>8. CASE mem[w].phy /\ StoreDone(w)
  <2> SUFFICES ASSUME NEW u \in lsu'.queue
               PROVE  Kept(lsu', u) \/ (u \notin lsu'.replay /\ Waiting(u)')
    BY DEF PlacedInv, Kept, InStage, Queued
  <2>1. CASE u = w
    <3>1. status'[w] = "COMPLETED" /\ (isStore(w)' <=> isStore(w)) /\ isStore(w)
      BY <1>3, <1>5, <1>6, <1>8 DEF isStore, Inst, StoreDone
    <3>2. Waiting(w)'
      BY <3>1 DEF Waiting
    <3> QED BY <1>2, <1>8, <2>1, <3>2
  <2>2. CASE u # w /\ Kept(lsu, u)
    BY <1>2, <2>2 DEF Keeps
  <2>3. CASE u # w /\ u \notin lsu.replay /\ Waiting(u)
    <3>1. status'[u] = status[u] /\ u \notin lsu'.replay
      BY <1>2, <1>5, <1>6, <2>3 DEF Keeps
    <3> QED BY <1>2, <1>3, <1>4, <1>5, <2>3, <3>1, WaitingStays
  <2> QED BY <1>2, <2>1, <2>2, <2>3 DEF PlacedInv
<1> QED BY <1>7, <1>8

\* Reads and the stages of the cache.
LEMMA ReadPlacedInv ==
    ASSUME IInv, IInv', ReadyInv, PlacedInv, ReadsCache \/ CacheLooksUp \/ CacheReads
    PROVE  PlacedInv'
<1>1. UNCHANGED <<program, params, pid, ready, acks, status>>
  BY DEF ReadsCache, AtStage, handleCacheRead, CacheLooksUp, CacheReads, AtCacheStage, envVars
<1>2. Stays(lsu, lsu', {}) /\ lsu'.queue = lsu.queue /\ \A v \in Insts : mem'[v].phy <=> mem[v].phy
  <2>1. CASE ReadsCache
    <3>1. PICK u \in Insts : AtStage(CACHE_READ, u) /\ handleCacheRead(u)
      BY <2>1 DEF ReadsCache
    <3> QED BY <3>1, CacheReadKeeps, KeepsStays, CacheReadAccess DEF SameHeld
  <2>2. CASE CacheLooksUp \/ CacheReads
    <3>1. Stays(lsu, lsu', {}) /\ lsu'.queue = lsu.queue
      BY <2>2, CacheKeeps, KeepsStays DEF SameHeld
    <3>2. \A v \in Insts : mem'[v].phy <=> mem[v].phy
      BY <2>2, CacheLooksUpAccess, CacheReadsAccess
    <3> QED BY <3>1, <3>2
  <2> QED BY <2>1, <2>2
<1>3. lsu.queue \subseteq Insts
  BY DEF IInv, HeldInv
<1> QED BY <1>1, <1>2, <1>3, PlacedStep

\* Completion: what leaves the queue is translated, so nobody waits for it.
LEMMA CompletesPlacedInv ==
    ASSUME IInv, IInv', ReadyInv, InstInv, StageInv, PlacedInv, Completes
    PROVE  PlacedInv'
<1>1. PICK u \in Insts : AtStage(COMPLETE, u) /\ completeInst(u)
  BY Zenon DEF Completes
<1>2. mem[u].data
  BY <1>1 DEF AtStage, StageInv
<1>3. Stays(lsu, lsu', {}) /\ lsu'.queue = IF Finishes(u) THEN lsu.queue \ {u} ELSE lsu.queue
  BY <1>1, <1>2, CompleteStays
<1>4. UNCHANGED <<program, params, pid, ready, acks, mem>> /\ mem[u].phy
  BY <1>1, <1>2 DEF AtStage, completeInst, InstInv, Used
<1>5. DOMAIN status = Insts /\ lsu.queue \subseteq Insts
  BY InstFacts DEF IInv, HeldInv
<1>6. status' = status \/ (Finishes(u) /\ status' = [status EXCEPT ![u] = "COMPLETED"])
  BY <1>1 DEF completeInst
<1>7. \A v \in lsu'.queue : status'[v] = status[v]
  BY <1>3, <1>5, <1>6
<1>8. \A v \in lsu.queue : isStore(v) /\ ~mem[v].phy => v \in lsu'.queue /\ ~mem'[v].phy
  BY <1>3, <1>4
<1> QED BY <1>3, <1>4, <1>7, <1>8, PlacedStep

\* Registers: a load that is blocked waits for a store.
LEMMA RegisterPlacedInv ==
    ASSUME IInv, IInv', ReadyInv, PlacedInv, OperandArrives \/ ScoreboardUpdate
    PROVE  PlacedInv'
<1>1. PICK r : RegisterReady(r)
  BY RegisterStep
<1>2. UNCHANGED <<program, params, pid, mem, acks>> /\ ready' = ready \cup {r}
  BY <1>1, RegisterStep DEF RegisterReady
<1> DEFINE us == {c.uid : c \in {d \in lsu.callbacks : d.reg = r}}
<1>3. /\ Keeps(lsu, lsu', us) /\ us \subseteq lsu.queue /\ lsu'.queue = lsu.queue
      /\ status' = Scheduled(Schedulable(us, ready'))
      /\ \A u \in us : status[u] = "DISPATCHED"
      /\ \A u \in us : \/ Kept(lsu', u)
                       \/ /\ u \notin lsu'.replay /\ u \notin Schedulable(us, ready')
                          /\ Blocked(u, ready')
  BY <1>1, RegisterKeeps
<1>4. Schedulable(us, ready') \subseteq us
  BY DEF Schedulable
<1> HIDE DEF us
<1>5. \A v \in Insts : v \notin Schedulable(us, ready') => status'[v] = status[v]
  BY <1>3, <1>4, ScheduledIs
<1>6. lsu.queue \subseteq Insts
  BY DEF IInv, HeldInv
<1> SUFFICES ASSUME NEW u \in lsu'.queue
             PROVE  Kept(lsu', u) \/ (u \notin lsu'.replay /\ Waiting(u)')
  BY DEF PlacedInv, Kept, InStage, Queued
<1>7. CASE u \in us /\ ~Kept(lsu', u)
  <2>1. u \notin lsu'.replay /\ Blocked(u, ready') /\ status'[u] = "DISPATCHED"
    BY <1>3, <1>5, <1>6, <1>7
  <2>2. Inst(u)' = Inst(u) /\ (isStore(u)' <=> isStore(u)) /\ (allOlderStoresIssued(u)' <=> allOlderStoresIssued(u))
    BY <1>2, <1>3 DEF Inst, isStore, allOlderStoresIssued
  <2> QED BY <1>2, <2>1, <2>2 DEF Blocked, Waiting, params
<1>8. CASE u \notin us /\ Kept(lsu, u)
  BY <1>3, <1>8 DEF Keeps
<1>9. CASE u \notin us /\ u \notin lsu.replay /\ Waiting(u)
  <2>1. u \notin lsu'.replay /\ status'[u] = status[u]
    BY <1>3, <1>4, <1>5, <1>6, <1>9 DEF Keeps
  <2> QED BY <1>2, <1>3, <1>9, <2>1, WaitingStays
<1> QED BY <1>3, <1>7, <1>8, <1>9 DEF PlacedInv

\* An instruction arrives.
LEMMA ReceivesPlacedInv ==
    ASSUME IInv, IInv', ReadyInv, PlacedInv, LSUReceives
    PROVE  PlacedInv'
<1>1. UNCHANGED <<program, params, pid, mem, acks, ready>>
  BY DEF LSUReceives
<1> DEFINE w == Head(to_lsu)
<1>2. /\ Keeps(lsu, lsu', {}) /\ lsu'.queue = lsu.queue \cup {w} /\ w \in Insts
      /\ status' = Scheduled(Schedulable({w}, ready)) /\ status[w] = "DISPATCHED"
      /\ w \notin lsu.queue
      /\ \/ Kept(lsu', w)
         \/ w \notin lsu'.replay /\ w \notin Schedulable({w}, ready) /\ Blocked(w, ready)
  BY ReceiveKeeps
<1>3. Schedulable({w}, ready) \subseteq {w}
  BY DEF Schedulable
<1> HIDE DEF w
<1>4. \A v \in Insts : v \notin Schedulable({w}, ready) => status'[v] = status[v]
  BY <1>2, <1>3, ScheduledIs
<1>5. lsu.queue \subseteq Insts
  BY DEF IInv, HeldInv
<1> SUFFICES ASSUME NEW u \in lsu'.queue
             PROVE  Kept(lsu', u) \/ (u \notin lsu'.replay /\ Waiting(u)')
  BY DEF PlacedInv, Kept, InStage, Queued
<1>6. CASE u = w /\ ~Kept(lsu', u)
  <2>1. u \notin lsu'.replay /\ Blocked(u, ready) /\ status'[u] = "DISPATCHED"
    BY <1>2, <1>4, <1>6
  <2>2. PICK v \in lsu.queue : isStore(v) /\ v < u /\ ~mem[v].phy
    BY <2>1 DEF Blocked, allOlderStoresIssued
  <2>3. v \in lsu'.queue /\ ~mem'[v].phy /\ isStore(v)'
    BY <1>1, <1>2, <2>2 DEF isStore, Inst
  <2>4. ~allOlderStoresIssued(u)'
    BY <2>2, <2>3 DEF allOlderStoresIssued
  <2>5. Inst(u)' = Inst(u) /\ (isStore(u)' <=> isStore(u))
    BY <1>1 DEF Inst, isStore
  <2> QED BY <1>1, <2>1, <2>4, <2>5 DEF Blocked, Waiting, params
<1>7. CASE u # w /\ Kept(lsu, u)
  BY <1>2, <1>7 DEF Keeps
<1>8. CASE u # w /\ u \notin lsu.replay /\ Waiting(u)
  <2>1. u \notin lsu'.replay /\ status'[u] = status[u]
    BY <1>2, <1>3, <1>4, <1>5, <1>8 DEF Keeps
  <2> QED BY <1>1, <1>2, <1>8, <2>1, WaitingStays
<1> QED BY <1>2, <1>6, <1>7, <1>8 DEF PlacedInv

\* ROB retires a store: its message is on its way.
LEMMA RetirePlacedInv ==
    ASSUME IInv, IInv', InstInv, PlacedInv, Retire
    PROVE  PlacedInv'
<1>1. PICK w \in Live : /\ status[w] = "COMPLETED"
                        /\ status' = [status EXCEPT ![w] = "RETIRED"]
                        /\ acks' = IF isStore(w) THEN Append(acks, w) ELSE acks
  BY DEF Retire
<1>2. UNCHANGED <<program, params, pid, mem, lsu, ready>>
  BY DEF Retire
<1>3. DOMAIN status = Insts /\ lsu.queue \subseteq Insts /\ w \in Insts
  BY <1>1, InstFacts DEF IInv, HeldInv, Live
<1>4. acks \in Seq(Insts)
  BY DEF IInv, MessageInv
<1>5. /\ \A v \in Range(acks) : v \in Range(acks')
      /\ isStore(w) => w \in Range(acks')
  <2>1. CASE ~isStore(w)
    BY <1>1, <2>1
  <2>2. CASE isStore(w)
    <3>1. /\ DOMAIN acks = 1..Len(acks) /\ DOMAIN acks' = 1..Len(acks) + 1 /\ Len(acks) \in Nat
          /\ acks'[Len(acks) + 1] = w /\ \A k \in 1..Len(acks) : acks'[k] = acks[k]
      BY <1>1, <1>3, <1>4, <2>2
    <3> QED BY <3>1 DEF Range
  <2> QED BY <2>1, <2>2
<1> SUFFICES ASSUME NEW u \in lsu'.queue
             PROVE  Kept(lsu', u) \/ (u \notin lsu'.replay /\ Waiting(u)')
  BY DEF PlacedInv, Kept, InStage, Queued
<1>6. CASE Kept(lsu, u)
  BY <1>2, <1>6
<1>7. CASE u = w /\ u \notin lsu.replay
  <2>1. isStore(w) /\ isStore(w)' /\ status'[w] = "RETIRED"
    BY <1>1, <1>2, <1>3, <1>7 DEF InstInv, isStore, Inst
  <2> QED BY <1>2, <1>5, <1>7, <2>1 DEF Waiting
<1>8. CASE u # w /\ u \notin lsu.replay /\ Waiting(u)
  <2>1. status'[u] = status[u]
    BY <1>1, <1>2, <1>3, <1>8
  <2> QED BY <1>2, <1>5, <1>8, <2>1, WaitingStays
<1> QED BY <1>2, <1>6, <1>7, <1>8 DEF PlacedInv

\* Dispatch sends a load, whose register is no operand of what is under way.
LEMMA DispatchPlacedInv ==
    ASSUME TraceGiven, IInv, IInv', InstInv, PlacedInv, DispatchSends
    PROVE  PlacedInv'
<1>1. /\ \A v \in Insts : pid'[v] = pid[v] /\ status'[v] = status[v] /\ mem'[v] = mem[v]
      /\ ready' = ready \ {next_pid} /\ next_pid \in 1..Len(program)
      /\ UNCHANGED <<program, params, lsu, acks>>
  BY DispatchIs
<1>2. lsu.queue \subseteq Insts /\ \A u \in lsu.queue : u \in Live
  BY DEF IInv, HeldInv, Live
<1>3. ASSUME NEW u \in lsu.queue
      PROVE  Inst(u).src # next_pid
  <2>1. pid[u] \in DOMAIN program /\ pid[u] < next_pid
    BY <1>2, <1>3, InstFacts DEF IInv, InstInv
  <2>2. PICK s \in Setups : program = s.program
    BY DEF TraceGiven
  <2>3. /\ program \in Seq([store : BOOLEAN, vaddr : Nat, size : Nat, src : Nat, data : Nat,
                            branch : BOOLEAN])
        /\ \A i \in DOMAIN program : program[i].src < i \/ program[i].src > Len(program)
    BY <2>2, SetupAssumption
  <2>4. pid[u] \in Nat /\ Len(program) \in Nat /\ DOMAIN program = 1..Len(program)
    BY <2>1, TraceIsSeq
  <2>5. program[pid[u]].src \in Nat
    <3> DEFINE R == [store : BOOLEAN, vaddr : Nat, size : Nat, src : Nat, data : Nat,
                     branch : BOOLEAN]
    <3>1. \A r \in R : r.src \in Nat
      OBVIOUS
    <3>2. program \in Seq(R)
      BY <2>3
    <3> HIDE DEF R
    <3>3. program[pid[u]] \in R
      BY <2>1, <3>2
    <3> QED BY <3>1, <3>3
  <2>6. program[pid[u]].src < pid[u] \/ program[pid[u]].src > Len(program)
    BY <2>1, <2>3
  <2> QED BY <1>1, <2>1, <2>4, <2>5, <2>6 DEF Inst
<1> SUFFICES ASSUME NEW u \in lsu'.queue
             PROVE  Kept(lsu', u) \/ (u \notin lsu'.replay /\ Waiting(u)')
  BY DEF PlacedInv, Kept, InStage, Queued
<1>4. CASE Kept(lsu, u)
  BY <1>1, <1>4
<1>5. CASE u \notin lsu.replay /\ Waiting(u)
  <2>1. u \in lsu.queue /\ Inst(u).src # next_pid
    BY <1>1, <1>3
  <2> QED BY <1>1, <1>2, <1>5, <2>1, WaitingStays
<1> QED BY <1>1, <1>4, <1>5 DEF PlacedInv

\* A flush: who is left has retired, and waits for no message.
LEMMA FlushPlacedInv ==
    ASSUME TraceGiven, IInv, IInv', ReadyInv, PlacedInv, Flush
    PROVE  PlacedInv'
<1>1. PICK b \in Nat :
             LET us == {u \in Live : pid[u] >= b}
             IN  /\ lsu' = handleFlush(lsu, us)
                 /\ \A u \in Live \ us : status[u] = "RETIRED"
                 /\ acks = << >>
  BY FlushIs
<1> DEFINE us == {u \in Live : pid[u] >= b}
<1>2. Shaped(lsu) /\ Orderly(lsu)
  BY DEF IInv, HeldInv, ReadyInv
<1>3. lsu'.queue = lsu.queue \ us /\ \A v : Kept(lsu, v) /\ v \notin us => Kept(lsu', v)
  BY <1>1, <1>2, FlushDoes, FlushKeeps
<1>4. \A u \in Live \ us : status[u] = "RETIRED"
  BY <1>1
<1> HIDE DEF us
<1> SUFFICES ASSUME NEW u \in lsu'.queue
             PROVE  Kept(lsu', u)
  BY DEF PlacedInv, Kept, InStage, Queued
<1>5. u \in lsu.queue /\ u \notin us /\ u \in Live
  BY <1>3 DEF IInv, HeldInv, Live
<1>6. ~Waiting(u)
  BY <1>1, <1>4, <1>5 DEF Waiting, Range
<1> QED BY <1>3, <1>5, <1>6 DEF PlacedInv

-----------------------------------------------------------------------------
(* The invariant holds in every state.                                     *)

LInv == InstInv /\ ReadyInv /\ StageInv /\ StoreInv /\ TranslationInv /\ PlacedInv

\* It holds at the beginning.
LEMMA InitLInv ==
    ASSUME Init
    PROVE  LInv
<1>1. Insts = {} /\ phase = "port" /\ DOMAIN acks = {} /\ mmu_pending_inst_ = 0
      /\ uev_lookup_inst_ = {} /\ mmu_ready = {}
  BY DEF Init, Insts
<1>2. /\ lsu.queue = {} /\ lsu.stores = {} /\ lsu.ready = {} /\ lsu.replay = {}
      /\ lsu.replays = {} /\ lsu.issue = {} /\ lsu.pipeline = [st \in Stages |-> 0]
  BY DEF Init, IdleLSU
<1>3. IsFiniteSet({}) /\ Cardinality({}) = 0 /\ ReplayBufferSize \in Nat
  BY LSUAssumption, FS_EmptySet
<1>4. InstInv /\ StoreInv /\ PlacedInv
  BY <1>1, <1>2 DEF InstInv, StoreInv, PlacedInv, Live
<1>5. ReadyInv
  BY <1>1, <1>2, <1>3 DEF ReadyInv, Orderly
<1>6. StageInv
  BY <1>1, <1>2, StageNumbers DEF StageInv
<1>7. TranslationInv
  BY <1>1 DEF TranslationInv
<1> QED BY <1>4, <1>5, <1>6, <1>7 DEF LInv

\* Nothing happens.
LEMMA StutterLInv ==
    ASSUME LInv, UNCHANGED vars \/ L2CopiesRequest
    PROVE  LInv'
<1>1. UNCHANGED <<phase, program, params, stages_due, pid, status, mem, tlb_cache_,
                  mmu_pending_inst_, uev_lookup_inst_, mmu_ready, lsu_mem_access_info_,
                  cache_pipeline_, lsu, ready, next_pid, acks>>
      /\ UNCHANGED allow_speculative_load_exec_
  BY DEF vars, L2CopiesRequest, createReq, dueVars, instVars, mmuVars, dcacheVars, envVars, params
<1>2. InstInv'
  BY <1>1 DEF LInv, InstInv, Insts, Live, Used, InCache, isStore, Inst
<1>3. Orderly(lsu)'
  <2>1. Orderly(lsu')
    BY <1>1 DEF LInv, ReadyInv
  <2> QED BY <1>1, <2>1, OrderlyNext
<1>4. ReadyInv'
  BY <1>1, <1>3 DEF LInv, ReadyInv
<1>5. StageInv'
  BY <1>1 DEF LInv, StageInv
<1>6. StoreInv'
  BY <1>1 DEF LInv, StoreInv, Insts, isStore, Inst
<1>7. TranslationInv'
  BY <1>1 DEF LInv, TranslationInv, Insts, Page, VAddr, Inst
<1>8. PlacedInv'
  <2> SUFFICES ASSUME NEW u \in lsu.queue
               PROVE  Kept(lsu', u) \/ (u \notin lsu'.replay /\ Waiting(u)')
    BY <1>1 DEF PlacedInv, Kept, InStage, Queued
  <2>1. Kept(lsu, u) \/ (u \notin lsu.replay /\ Waiting(u))
    BY DEF LInv, PlacedInv
  <2>2. Waiting(u)' <=> Waiting(u)
    BY <1>1 DEF Waiting, isStore, Inst, allOlderStoresIssued
  <2> QED BY <1>1, <2>1, <2>2
<1> QED BY <1>2, <1>4, <1>5, <1>6, <1>7, <1>8 DEF LInv

\* Every step keeps it.
LEMMA NextLInv ==
    ASSUME TraceGiven, IInv, IInv', LInv, [Next]_vars
    PROVE  LInv'
<1> USE DEF LInv
<1>1. CASE CalculatesAddress \/ AppendsReady \/ ReplaysReady \/ LSUGetsTranslation
           \/ CacheAsksL2 \/ L2Responds \/ CacheArbitrates
  <2>1. InstInv' /\ TranslationInv' /\ PlacedInv'
    BY <1>1, QuietInstInv, QuietTranslationInv, QuietPlacedInv
  <2>2. StoreInv'
    BY <1>1, QuietStoreInv, ClockStoreInv
  <2>3. CASE AppendsReady \/ ReplaysReady \/ CacheArbitrates
    BY <2>1, <2>2, <2>3, LateReadyInv, LateStageInv
  <2>4. CASE CalculatesAddress \/ LSUGetsTranslation \/ CacheAsksL2 \/ L2Responds
    <3>1. EarlyStep
      BY <2>4, EarlySteps
    <3>2. ReadyInv' /\ StageInv'
      BY <2>4, <3>1, EarlyReadyInv, UnitStageInv, MessageStageInv
    <3> QED BY <2>1, <2>2, <3>2
  <2> QED BY <1>1, <2>3, <2>4
<1>2. CASE MMULoadsEntry
  <2>1. InstInv' /\ TranslationInv' /\ PlacedInv' /\ StoreInv'
    BY <1>2, QuietInstInv, EntryTranslationInv, QuietPlacedInv, QuietStoreInv
  <2>2. ReadyInv' /\ StageInv'
    BY <1>2, LateReadyInv, LateStageInv
  <2> QED BY <2>1, <2>2
<1>3. CASE Issues
  <2>1. InstInv' /\ TranslationInv' /\ PlacedInv' /\ StoreInv'
    BY <1>3, QuietInstInv, QuietTranslationInv, IssuesPlacedInv, QuietStoreInv
  <2>2. ReadyInv' /\ StageInv'
    BY <1>3, IssuesIs, LateStageInv
  <2> QED BY <2>1, <2>2
<1>4. CASE nextPhase
  <2>1. InstInv' /\ TranslationInv' /\ PlacedInv' /\ StoreInv'
    BY <1>4, QuietInstInv, QuietTranslationInv, ClockPlacedInv, ClockStoreInv
  <2>2. ReadyInv' /\ StageInv'
    BY <1>4, ClockIs, ClockStageInv
  <2> QED BY <2>1, <2>2
<1>5. CASE LooksUpMMU \/ LooksUpCache \/ ReadsCache \/ Completes
  <2>1. EarlyStep
    BY <1>5, EarlySteps
  <2>2. InstInv'
    BY <1>5, LooksUpMMUInstInv, LooksUpCacheInstInv, ReadsCacheInstInv, CompletesInstInv
  <2>3. ReadyInv' /\ StageInv'
    BY <1>5, <2>1, EarlyReadyInv, UnitStageInv
  <2>4. StoreInv'
    BY <1>5, UnitStoreInv
  <2>5. TranslationInv'
    BY <1>5, LookupTranslationInv, UnitTranslationInv
  <2>6. PlacedInv'
    BY <1>5, LookupPlacedInv, CacheLookupPlacedInv, ReadPlacedInv, CompletesPlacedInv
  <2> QED BY <2>2, <2>3, <2>4, <2>5, <2>6
<1>6. CASE CacheLooksUp \/ CacheReads
  <2>1. EarlyStep
    BY <1>6, EarlySteps
  <2>2. InstInv' /\ StoreInv' /\ TranslationInv' /\ PlacedInv'
    BY <1>6, CacheInstInv, CacheStoreInv, UnitTranslationInv, ReadPlacedInv
  <2>3. ReadyInv' /\ StageInv'
    BY <1>6, <2>1, EarlyReadyInv, CacheStageInv
  <2> QED BY <2>2, <2>3
<1>7. CASE LSUReceives \/ LSUGetsAck \/ OperandArrives \/ ScoreboardUpdate \/ Retire \/ Flush
  <2>1. EarlyStep
    BY <1>7, EarlySteps
  <2>2. ReadyInv' /\ StageInv'
    BY <1>7, <2>1, EarlyReadyInv, MessageStageInv
  <2>3. InstInv'
    BY <1>7, ReceivesInstInv, QuietInstInv, RegisterInstInv, RetireInstInv, FlushInstInv
  <2>4. StoreInv'
    BY <1>7, ReceivesStoreInv, AckStoreInv, RegisterStoreInv, RetireStoreInv, FlushStoreInv
  <2>5. TranslationInv'
    BY <1>7, QuietTranslationInv, OtherTranslationInv
  <2>6. PlacedInv'
    BY <1>7, ReceivesPlacedInv, AckPlacedInv, RegisterPlacedInv, RetirePlacedInv, FlushPlacedInv
  <2> QED BY <2>2, <2>3, <2>4, <2>5, <2>6
<1>8. CASE DispatchSends
  <2>1. InstInv' /\ StoreInv' /\ TranslationInv' /\ PlacedInv'
    BY <1>8, DispatchInstInv, DispatchStoreInv, DispatchTranslationInv, DispatchPlacedInv
  <2>2. ReadyInv' /\ StageInv'
    BY <1>8, LateReadyInv, LateStageInv
  <2> QED BY <2>1, <2>2
<1>9. CASE UNCHANGED vars \/ L2CopiesRequest
  BY <1>9, StutterLInv
<1> HIDE DEF LInv
<1> QED
  BY <1>1, <1>2, <1>3, <1>4, <1>5, <1>6, <1>7, <1>8, <1>9 DEF Next, Messages, LSUSteps, OtherSteps

\* The inductive invariant of LSU's buffers, events and pipeline, for every trace, mode and
\* size: the ready queue and the replay buffer share nothing, stores wait in the store
\* buffer until they retire, and something brings every instruction of the queue on.
THEOREM UnitInvariant == Spec => [](TraceGiven /\ IInv /\ LInv)
<1>1. Init => TraceGiven /\ IInv /\ LInv
  BY InitIInv, InitLInv
<1>2. TraceGiven /\ IInv /\ LInv /\ [Next]_vars => (TraceGiven /\ IInv /\ LInv)'
  <2> SUFFICES ASSUME TraceGiven, IInv, LInv, [Next]_vars
               PROVE  (TraceGiven /\ IInv /\ LInv)'
    OBVIOUS
  <2>1. TraceGiven' /\ IInv'
    BY TraceStays, NextIInv DEF TraceGiven
  <2> QED BY <2>1, NextLInv
<1> QED BY <1>1, <1>2, PTL DEF Spec

\* No instruction of LSU's queue is forgotten (LSU::handleOperandIssueCheck_,
\* readyDependentLoads_, appendReady_, replayReady_, handleMMUReadyReq_): between cycles each
\* one is in a stage, or it is not in the replay buffer and is ready, in an event or a
\* callback, or is a store that waits for ROB or a load that waits for an older store.
THEOREM NothingForgotten == Spec => []NobodyForgotten
<1>1. TraceGiven /\ IInv /\ LInv => NobodyForgotten
  <2> SUFFICES ASSUME IInv, LInv, phase = "port", MessagesDone, NEW u \in lsu.queue
               PROVE  \/ u \in Range(lsu.pipeline)
                      \/ /\ u \notin lsu.replay
                         /\ \/ u \in lsu.ready \cup lsu.append \cup {e.uid : e \in lsu.replays}
                            \/ \E c \in lsu.callbacks : c.uid = u
                            \/ isStore(u) /\ status[u] = "COMPLETED"
                            \/ ~isStore(u) /\ status[u] = "DISPATCHED" /\ ~allOlderStoresIssued(u)
    BY DEF NobodyForgotten
  <2>1. Kept(lsu, u) \/ (u \notin lsu.replay /\ Waiting(u))
    BY DEF LInv, PlacedInv
  <2>2. Range(acks) = {} /\ DOMAIN lsu.pipeline = Stages
    BY DEF MessagesDone, Range, IInv, HeldInv, Shaped
  <2>3. CASE Kept(lsu, u)
    BY <2>2, <2>3 DEF Kept, InStage, Queued, Range
  <2>4. CASE u \notin lsu.replay /\ Waiting(u)
    BY <2>2, <2>4 DEF Waiting
  <2> QED BY <2>1, <2>3, <2>4
<1> QED BY <1>1, UnitInvariant, PTL

-----------------------------------------------------------------------------
(* HistoryInv: what lets a load go, and what spoils an instruction.        *)

\* Loads that leave their place have translated stores before them, or were let go.
LEMMA ReleaseKept ==
    ASSUME IInv, HistoryInv, UNCHANGED params, lsu'.queue \subseteq lsu.queue,
           released \subseteq released',
           \A v \in Insts : (isStore(v)' <=> isStore(v)) /\ (mem[v].phy => mem'[v].phy),
           \A v \in lsu'.queue :
               ~isStore(v) /\ status'[v] # "DISPATCHED" =>
                   \/ status[v] # "DISPATCHED" \/ v \in released' \/ allow_speculative_load_exec_
                   \/ \A w \in lsu.queue : isStore(w) /\ w < v => mem'[w].phy
    PROVE  (~allow_speculative_load_exec_ =>
              \A v \in lsu.queue : ~isStore(v) /\ status[v] # "DISPATCHED" =>
                  allOlderStoresIssued(v) \/ v \in released)'
<1>1. lsu.queue \subseteq Insts /\ UNCHANGED allow_speculative_load_exec_
  BY DEF IInv, HeldInv, params
<1> SUFFICES ASSUME ~allow_speculative_load_exec_, NEW v \in lsu'.queue, ~isStore(v)',
                    status'[v] # "DISPATCHED", v \notin released'
             PROVE  allOlderStoresIssued(v)'
  BY <1>1
<1>2. ~isStore(v)
  BY <1>1
<1>3. \A w \in lsu.queue : isStore(w) /\ w < v => mem'[w].phy
  BY <1>1, <1>2 DEF HistoryInv, allOlderStoresIssued
<1> QED BY <1>1, <1>3 DEF allOlderStoresIssued

\* What has data has hit, but for what is spoiled.
LEMMA SpoiledKept ==
    ASSUME HistoryInv, Insts' = Insts, spoiled \subseteq spoiled',
           \A v \in Insts : \/ mem'[v].cache = "HIT" \/ ~mem'[v].data \/ v \in spoiled'
                            \/ (mem[v].data /\ mem'[v].cache = mem[v].cache)
    PROVE  (\A v \in Insts : mem[v].data => mem[v].cache = "HIT" \/ v \in spoiled)'
  BY DEF HistoryInv

\* Instructions stay as they are, or leave the queue.
LEMMA QuietHistory ==
    ASSUME IInv, HistoryInv, UNCHANGED <<program, params, pid, mem, historyVars>>,
           lsu'.queue \subseteq lsu.queue,
           \A v \in lsu'.queue : status'[v] # "DISPATCHED" => status[v] # "DISPATCHED"
    PROVE  HistoryInv'
<1>1. Insts' = Insts /\ \A v : isStore(v)' <=> isStore(v)
  BY DEF Insts, isStore, Inst
<1>2. released' = released /\ spoiled' = spoiled
  BY DEF historyVars
<1> QED BY <1>1, <1>2, ReleaseKept, SpoiledKept DEF HistoryInv

\* The actions of QuietInstInv, and those that change statuses or drop what is flushed.
LEMMA QuietHistoryInv ==
    ASSUME TraceGiven, IInv, LInv, HistoryInv,
           \/ CalculatesAddress \/ AppendsReady \/ ReplaysReady \/ Issues \/ MMULoadsEntry
           \/ LSUGetsTranslation \/ CacheAsksL2 \/ L2Responds \/ CacheArbitrates \/ LSUGetsAck
           \/ nextPhase \/ L2CopiesRequest \/ UNCHANGED vars
    PROVE  HistoryInv'
<1>1. UNCHANGED <<program, params, instVars, historyVars>>
  BY DEF CalculatesAddress, AtStage, handleAddressCalculation, AppendsReady, ReplaysReady, Issues,
         MMULoadsEntry, LSUGetsTranslation, CacheAsksL2, L2Responds, CacheArbitrates, LSUGetsAck,
         nextPhase, L2CopiesRequest, vars
<1>2. lsu'.queue = lsu.queue
  <2> USE DEF LInv
  <2>1. CASE CalculatesAddress \/ AppendsReady \/ ReplaysReady
    BY <2>1, EventsKeep DEF SameHeld
  <2>2. CASE Issues \/ nextPhase
    BY <2>2, IssuesIs, ClockIs DEF SameHeld
  <2>3. CASE LSUGetsTranslation
    BY <2>3, TranslationKeeps DEF SameHeld
  <2>4. CASE LSUGetsAck
    BY <2>4, AckKeeps
  <2>5. CASE MMULoadsEntry \/ CacheAsksL2 \/ L2Responds \/ CacheArbitrates \/ L2CopiesRequest
             \/ UNCHANGED vars
    BY <2>5 DEF MMULoadsEntry, CacheAsksL2, L2Responds, CacheArbitrates, L2CopiesRequest, vars
  <2> QED BY <2>1, <2>2, <2>3, <2>4, <2>5
<1> QED BY <1>1, <1>2, QuietHistory DEF instVars

\* ROB retires, or flushes.
LEMMA RobHistoryInv ==
    ASSUME TraceGiven, IInv, HistoryInv, Retire \/ Flush
    PROVE  HistoryInv'
<1>1. CASE Retire
  <2>1. PICK u \in Live : status[u] = "COMPLETED" /\ status' = [status EXCEPT ![u] = "RETIRED"]
    BY <1>1 DEF Retire
  <2>2. UNCHANGED <<program, params, pid, mem, historyVars, lsu>>
    BY <1>1 DEF Retire
  <2>3. DOMAIN status = Insts /\ lsu.queue \subseteq Insts
    BY InstFacts DEF IInv, HeldInv
  <2> QED BY <2>1, <2>2, <2>3, QuietHistory
<1>2. CASE Flush
  <2>1. PICK b \in Nat :
               LET us == {u \in Live : pid[u] >= b}
               IN  /\ lsu' = handleFlush(lsu, us)
                   /\ \A u \in Insts : status'[u] = IF u \in us THEN "FLUSHED" ELSE status[u]
    BY <1>2, FlushIs
  <2> DEFINE us == {u \in Live : pid[u] >= b}
  <2>2. lsu'.queue = lsu.queue \ us /\ lsu.queue \subseteq Insts
    BY <2>1, FlushDoes DEF IInv, HeldInv
  <2>3. \A u \in Insts : u \notin us => status'[u] = status[u]
    BY <2>1
  <2>4. UNCHANGED <<program, params, pid, mem, historyVars>>
    BY <1>2 DEF Flush
  <2> HIDE DEF us
  <2> QED BY <2>2, <2>3, <2>4, QuietHistory
<1> QED BY <1>1, <1>2

\* A lookup of the TLB, which lets loads go.
LEMMA LookupHistoryInv ==
    ASSUME IInv, LInv, HistoryInv, LooksUpMMU
    PROVE  HistoryInv'
<1>1. PICK u \in Insts : /\ AtStage(MMU_LOOKUP, u) /\ handleMMULookupReq(u)
                         /\ released' = released \cup ReleasedBy(u) /\ spoiled' = spoiled
  BY DEF LooksUpMMU
<1>2. UNCHANGED <<program, params, pid>>
  BY <1>1 DEF AtStage, handleMMULookupReq, instVars
<1>3. Insts' = Insts /\ \A v : isStore(v)' <=> isStore(v)
  BY <1>2 DEF Insts, isStore, Inst
<1>4. lsu'.queue = lsu.queue
  BY <1>1, LookupKeeps DEF SameHeld, LInv
<1>5. \A v \in Insts : /\ mem'[v].data = mem[v].data /\ mem'[v].cache = mem[v].cache
                       /\ (mem[v].phy => mem'[v].phy)
  BY <1>1, LookupAccess
<1>6. \/ status' = status
      \/ isStore(u) /\ ~allow_speculative_load_exec_ /\ ~mem[u].phy /\ status' = Scheduled(DependentLoads)
  BY <1>1 DEF handleMMULookupReq, instVars
<1>7. DOMAIN status = Insts /\ lsu.queue \subseteq Insts
  BY InstFacts DEF IInv, HeldInv
<1>8. ASSUME NEW v \in lsu'.queue, status'[v] # "DISPATCHED", status[v] = "DISPATCHED", v \notin released'
      PROVE  \A w \in lsu.queue : isStore(w) /\ w < v => mem'[w].phy
  <2>1. v \in Insts
    BY <1>4, <1>7
  <2>2. v \in DependentLoads /\ isStore(u) /\ ~allow_speculative_load_exec_ /\ ~mem[u].phy
    BY <1>6, <1>7, <1>8, <2>1 DEF Scheduled
  <2>3. v \notin ReleasedBy(u)
    BY <1>1, <1>8
  <2> QED BY <2>2, <2>3 DEF ReleasedBy
<1>9. (~allow_speculative_load_exec_ =>
              \A v \in lsu.queue : ~isStore(v) /\ status[v] # "DISPATCHED" =>
                  allOlderStoresIssued(v) \/ v \in released)'
  BY <1>1, <1>2, <1>3, <1>4, <1>5, <1>8, ReleaseKept
<1>10. (\A v \in Insts : mem[v].data => mem[v].cache = "HIT" \/ v \in spoiled)'
  BY <1>1, <1>3, <1>5, SpoiledKept
<1> QED BY <1>9, <1>10 DEF HistoryInv

\* Stages that schedule nothing: loads take data where they hit.
LEMMA StageHistoryInv ==
    ASSUME IInv, LInv, HistoryInv,
           LooksUpCache \/ ReadsCache \/ Completes \/ CacheLooksUp \/ CacheReads
    PROVE  HistoryInv'
<1> USE DEF LInv
<1>1. UNCHANGED <<program, params, pid, released>>
  BY Zenon DEF LooksUpCache, ReadsCache, Completes, CacheLooksUp, CacheReads, AtStage, AtCacheStage,
         handleCacheLookupReq, handleCacheRead, completeInst, historyVars
<1>2. Insts' = Insts /\ \A v : isStore(v)' <=> isStore(v)
  BY <1>1 DEF Insts, isStore, Inst
<1>3. DOMAIN status = Insts /\ lsu.queue \subseteq Insts
  BY InstFacts DEF IInv, HeldInv
<1>4. /\ lsu'.queue \subseteq lsu.queue
      /\ \A v \in lsu'.queue : status'[v] # "DISPATCHED" => status[v] # "DISPATCHED"
      /\ \A v \in Insts : mem[v].phy => mem'[v].phy
      /\ spoiled \subseteq spoiled'
      /\ \A v \in Insts : \/ mem'[v].cache = "HIT" \/ ~mem'[v].data \/ v \in spoiled'
                          \/ (mem[v].data /\ mem'[v].cache = mem[v].cache)
  <2>1. CASE LooksUpCache
    <3>1. PICK u \in Insts : AtStage(CACHE_LOOKUP, u) /\ handleCacheLookupReq(u) /\ spoiled' = spoiled
      BY <2>1 DEF LooksUpCache, historyVars
    <3>2. lsu'.queue = lsu.queue
      BY <3>1, CacheLookupKeeps DEF SameHeld
    <3>3. \/ status' = status
          \/ status[u] = "SCHEDULED" /\ status' = [status EXCEPT ![u] = "COMPLETED"]
      BY <3>1 DEF handleCacheLookupReq, StoreDone
    <3>4. /\ \A v \in Insts : (mem'[v].phy <=> mem[v].phy) /\ (v # u => mem'[v] = mem[v])
          /\ mem'[u] = mem[u] \/ mem'[u].cache = "HIT"
      BY <3>1, CacheLookupAccess
    <3> QED BY <1>3, <3>1, <3>2, <3>3, <3>4
  <2>2. CASE ReadsCache
    <3>1. PICK u \in Insts : AtStage(CACHE_READ, u) /\ handleCacheRead(u) /\ spoiled' = spoiled
      BY <2>2 DEF ReadsCache, historyVars
    <3>2. lsu'.queue = lsu.queue
      BY <3>1, CacheReadKeeps DEF SameHeld
    <3>3. /\ \A v \in Insts : /\ (mem'[v].phy <=> mem[v].phy) /\ mem'[v].cache = mem[v].cache
                              /\ (v # u => mem'[v] = mem[v])
          /\ (mem'[u].data <=> mem[u].data \/ mem[u].cache = "HIT")
          /\ status' = status
      BY <3>1, CacheReadAccess
    <3> QED BY <1>3, <3>1, <3>2, <3>3
  <2>3. CASE Completes
    <3>1. PICK u \in Insts : AtStage(COMPLETE, u) /\ completeInst(u) /\ UNCHANGED historyVars
      BY <2>3, Zenon DEF Completes
    <3>2. mem[u].data
      BY <3>1 DEF AtStage, StageInv
    <3>3. lsu'.queue = IF Finishes(u) THEN lsu.queue \ {u} ELSE lsu.queue
      BY <3>1, <3>2, CompleteStays
    <3>4. \/ status' = status
          \/ Finishes(u) /\ status' = [status EXCEPT ![u] = "COMPLETED"]
      BY <3>1 DEF completeInst
    <3>5. mem' = mem /\ spoiled' = spoiled
      BY <3>1 DEF completeInst, historyVars
    <3> QED BY <1>3, <3>3, <3>4, <3>5
  <2>4. CASE CacheLooksUp
    <3> DEFINE u == cache_pipeline_.LOOKUP.uid
    <3>1. lsu'.queue = lsu.queue
      BY <2>4, CacheKeeps DEF SameHeld
    <3>2. /\ \A v \in Insts : /\ (mem'[v].phy <=> mem[v].phy) /\ (mem'[v].data <=> mem[v].data)
                              /\ (v # u => mem'[v] = mem[v])
          /\ status' = status
      BY <2>4, CacheLooksUpAccess
    <3>3. /\ spoiled \subseteq spoiled'
          /\ u \in Insts /\ mem[u].cache = "HIT" /\ mem'[u].cache # "HIT" => u \in spoiled'
      BY <2>4 DEF CacheLooksUp
    <3> HIDE DEF u
    <3> QED BY <3>1, <3>2, <3>3 DEF HistoryInv
  <2>5. CASE CacheReads
    <3> DEFINE u == cache_pipeline_.DATA_READ.uid
    <3>1. lsu'.queue = lsu.queue
      BY <2>5, CacheKeeps DEF SameHeld
    <3>2. /\ \A v \in Insts : /\ (mem'[v].phy <=> mem[v].phy) /\ mem'[v].cache = mem[v].cache
                              /\ (v # u => mem'[v] = mem[v])
          /\ status' = status
      BY <2>5, CacheReadsAccess
    <3>3. spoiled' = spoiled /\ (mem' = mem \/ mem[u].cache = "HIT")
      BY <2>5 DEF CacheReads, handleDataRead, handleDataReadRefill
    <3> HIDE DEF u
    <3> QED BY <3>1, <3>2, <3>3
  <2> QED BY <2>1, <2>2, <2>3, <2>4, <2>5
<1>5. (~allow_speculative_load_exec_ =>
              \A v \in lsu.queue : ~isStore(v) /\ status[v] # "DISPATCHED" =>
                  allOlderStoresIssued(v) \/ v \in released)'
  BY <1>1, <1>2, <1>4, ReleaseKept
<1>6. (\A v \in Insts : mem[v].data => mem[v].cache = "HIT" \/ v \in spoiled)'
  BY <1>2, <1>4, SpoiledKept
<1> QED BY <1>5, <1>6 DEF HistoryInv

\* The operand check schedules loads behind translated stores only.
LEMMA CheckHistoryInv ==
    ASSUME IInv, LInv, HistoryInv, OperandArrives \/ ScoreboardUpdate \/ LSUReceives
    PROVE  HistoryInv'
<1>1. UNCHANGED <<program, params, pid, mem, historyVars>>
  BY DEF OperandArrives, ScoreboardUpdate, LSUReceives
<1>2. Insts' = Insts /\ (\A v : isStore(v)' <=> isStore(v)) /\ released' = released /\ spoiled' = spoiled
  BY <1>1 DEF Insts, isStore, Inst, historyVars
<1>3. lsu.queue \subseteq Insts /\ UNCHANGED allow_speculative_load_exec_
  BY <1>1 DEF IInv, HeldInv, params
<1>4. (\A v \in Insts : mem[v].data => mem[v].cache = "HIT" \/ v \in spoiled)'
  BY <1>1, <1>2, SpoiledKept
<1>5. CASE OperandArrives \/ ScoreboardUpdate
  <2>1. PICK r : RegisterReady(r)
    BY <1>5, RegisterStep
  <2> DEFINE us == {c.uid : c \in {d \in lsu.callbacks : d.reg = r}}
             now == Schedulable(us, ready')
  <2>2. /\ lsu'.queue = lsu.queue /\ status' = Scheduled(now)
        /\ \A u \in us : status[u] = "DISPATCHED"
    BY <2>1, RegisterKeeps DEF LInv
  <2>3. \A v \in now : v \in us /\ (isStore(v) \/ allow_speculative_load_exec_ \/ allOlderStoresIssued(v))
    BY DEF Schedulable
  <2> HIDE DEF us, now
  <2>4. \A v \in Insts : status'[v] = IF v \in now THEN "SCHEDULED" ELSE status[v]
    BY <2>2, <2>3, ScheduledIs
  <2>5. \A v \in lsu'.queue :
               ~isStore(v) /\ status'[v] # "DISPATCHED" =>
                   \/ status[v] # "DISPATCHED" \/ allow_speculative_load_exec_
                   \/ \A w \in lsu.queue : isStore(w) /\ w < v => mem'[w].phy
    BY <1>1, <1>3, <2>2, <2>3, <2>4 DEF allOlderStoresIssued
  <2>6. (~allow_speculative_load_exec_ =>
              \A v \in lsu.queue : ~isStore(v) /\ status[v] # "DISPATCHED" =>
                  allOlderStoresIssued(v) \/ v \in released)'
    BY <1>1, <1>2, <2>2, <2>5, ReleaseKept
  <2> QED BY <1>4, <2>6 DEF HistoryInv
<1>6. CASE LSUReceives
  <2> DEFINE u == Head(to_lsu)
             now == Schedulable({u}, ready)
  <2>1. /\ lsu'.queue = lsu.queue \cup {u} /\ status' = Scheduled(now)
        /\ u \in Insts /\ status[u] = "DISPATCHED" /\ \A v \in lsu.queue : v < u
    BY <1>6, ReceiveKeeps DEF LInv
  <2>2. \A v \in now : v = u /\ (isStore(v) \/ allow_speculative_load_exec_ \/ allOlderStoresIssued(v))
    BY DEF Schedulable
  <2> HIDE DEF u, now
  <2>3. \A v \in Insts : status'[v] = IF v \in now THEN "SCHEDULED" ELSE status[v]
    BY <2>1, <2>2, ScheduledIs
  <2>4. Insts \subseteq Nat
    BY InstFacts DEF IInv
  <2>5. \A v \in lsu'.queue : ~(u < v)
    <3> SUFFICES ASSUME NEW v \in lsu'.queue PROVE ~(u < v)
      OBVIOUS
    <3>1. u \in Nat /\ v \in Nat /\ (v = u \/ v < u)
      BY <1>3, <2>1, <2>4
    <3> QED BY <3>1
  <2>6. ASSUME ~allow_speculative_load_exec_, NEW v \in lsu'.queue, ~isStore(v),
               status'[v] # "DISPATCHED", v \notin released
        PROVE  \A w \in lsu.queue : isStore(w) /\ w < v => mem[w].phy
    <3>1. CASE v \in now
      BY <2>2, <2>6, <3>1 DEF allOlderStoresIssued
    <3>2. CASE v \notin now
      <4>1. v \in lsu.queue /\ status[v] # "DISPATCHED"
        BY <1>3, <2>1, <2>3, <2>6, <3>2
      <4> QED BY <2>6, <4>1 DEF HistoryInv, allOlderStoresIssued
    <3> QED BY <3>1, <3>2
  <2>7. ASSUME ~allow_speculative_load_exec_, NEW v \in lsu'.queue, ~isStore(v),
               status'[v] # "DISPATCHED", v \notin released
        PROVE  allOlderStoresIssued(v)'
    <3>1. \A w \in lsu'.queue : w < v => w \in lsu.queue
      BY <2>1, <2>5
    <3> QED BY <1>1, <1>2, <2>6, <2>7, <3>1 DEF allOlderStoresIssued
  <2> QED BY <1>2, <1>3, <1>4, <2>7 DEF HistoryInv
<1> QED BY <1>5, <1>6

\* The new instruction has done nothing.
LEMMA DispatchHistoryInv ==
    ASSUME TraceGiven, IInv, HistoryInv, DispatchSends
    PROVE  HistoryInv'
<1> DEFINE n == Len(pid) + 1
<1>1. /\ n \notin Insts /\ Insts' = Insts \cup {n} /\ mem'[n] = NoAccess
      /\ \A v \in Insts : status'[v] = status[v] /\ mem'[v] = mem[v] /\ (isStore(v)' <=> isStore(v))
      /\ UNCHANGED <<params, lsu>>
  BY DispatchIs
<1>2. released' = released /\ spoiled' = spoiled
  BY DEF DispatchSends, historyVars
<1>3. lsu.queue \subseteq Insts
  BY DEF IInv, HeldInv
<1> HIDE DEF n
<1>4. \A v \in lsu'.queue : status'[v] = status[v]
  BY <1>1, <1>3
<1>5. (~allow_speculative_load_exec_ =>
              \A v \in lsu.queue : ~isStore(v) /\ status[v] # "DISPATCHED" =>
                  allOlderStoresIssued(v) \/ v \in released)'
  BY <1>1, <1>2, <1>4, ReleaseKept
<1>6. ~mem'[n].data
  BY <1>1 DEF NoAccess
<1>7. (\A v \in Insts : mem[v].data => mem[v].cache = "HIT" \/ v \in spoiled)'
  BY <1>1, <1>2, <1>6 DEF HistoryInv
<1> QED BY <1>5, <1>7 DEF HistoryInv

\* Every step keeps it.
LEMMA NextHistoryInv ==
    ASSUME TraceGiven, IInv, LInv, HistoryInv, [Next]_vars
    PROVE  HistoryInv'
  BY QuietHistoryInv, RobHistoryInv, LookupHistoryInv, StageHistoryInv, CheckHistoryInv,
     DispatchHistoryInv
  DEF Next, Messages, LSUSteps, OtherSteps

\* What the history variables say of loads that are executed and of what has data, for
\* every trace, mode and size.
THEOREM HistoryHolds == Spec => []HistoryInv
<1>1. Init => HistoryInv
  BY DEF Init, HistoryInv, IdleLSU, Insts
<1>2. HistoryInv /\ (TraceGiven /\ IInv /\ LInv) /\ [Next]_vars => HistoryInv'
  BY NextHistoryInv
<1> QED BY <1>1, <1>2, UnitInvariant, PTL DEF Spec

\* Memory sees nothing speculative (LSU::handleCacheLookupReq_, handleOperandIssueCheck_): in
\* every state stores in the cache have retired, and a load that has data has only
\* translated stores before it, in either mode, unless readyDependentLoads_ let it go.
THEOREM MemoryOrderHolds == Spec => []MemoryOrder
<1>1. TraceGiven /\ IInv /\ LInv /\ HistoryInv => MemoryOrder
  <2> SUFFICES ASSUME IInv, HistoryInv, NEW u \in lsu.queue, ~isStore(u), mem[u].data
               PROVE  allOlderStoresIssued(u) \/ (~allow_speculative_load_exec_ /\ u \in released)
    BY DEF MemoryOrder, LoadsBehindStores, IInv
  <2>1. u \in Insts
    BY DEF IInv, HeldInv
  <2>2. status[u] # "DISPATCHED"
    <3>1. ~NoAccess.data
      BY DEF NoAccess
    <3> QED BY <2>1, <3>1 DEF IInv, SpeculationInv
  <2> QED BY <2>2 DEF IInv, SpeculationInv, HistoryInv
<1> QED BY <1>1, UnitInvariant, HistoryHolds, PTL

-----------------------------------------------------------------------------
(* Types. LSU's record has the pipeline, the replays and the callbacks it  *)
(* should have.                                                            *)

\* Stages, replays and callbacks are what they are made of.
Formed(s) ==
    /\ Shaped(s) /\ s.pipeline = [st \in Stages |-> s.pipeline[st]]
    /\ \A e \in s.replays : e = [uid |-> e.uid, due |-> e.due]
    /\ \A c \in s.callbacks : c = [uid |-> c.uid, reg |-> c.reg] /\ c.reg \in Nat

\* The other fields do not matter.
LEMMA FormedSame ==
    ASSUME NEW s, Formed(s), NEW t, DOMAIN t = DOMAIN s, t.pipeline = s.pipeline,
           t.replays \subseteq s.replays, t.callbacks \subseteq s.callbacks
    PROVE  Formed(t)
<1>1. Shaped(t)
  BY DEF Formed, Shaped
<1>2. t.pipeline = [st \in Stages |-> t.pipeline[st]]
  BY DEF Formed
<1> QED BY <1>1, <1>2 DEF Formed

\* Subroutines that leave stages, replays and callbacks alone, or clear a stage.
LEMMA FormedParts ==
    ASSUME NEW s, Formed(s)
    PROVE  /\ \A c : Formed(Asserted(s, c))
           /\ Formed(ScheduleIssue(s)) /\ Formed(CancelIssue(s))
           /\ \A us : Formed(removeInstFromReplayQueue(s, us))
           /\ \A us : Formed(appendToReadyQueue(s, us))
           /\ \A us : Formed([s EXCEPT !.append = us])
           /\ \A us : Formed([s EXCEPT !.queue = us])
           /\ \A us, vs : Formed([s EXCEPT !.queue = us, !.stores = vs])
           /\ \A us : Formed([s EXCEPT !.stores = us])
           /\ \A st \in Stages : Formed(invalidateStage(s, st))
<1> USE Fields DEF Shaped
<1>0. Shaped(s)
  BY DEF Formed
<1>1. ASSUME NEW c PROVE Formed(Asserted(s, c))
  <2> DEFINE t == Asserted(s, c)
  <2>1. DOMAIN t = DOMAIN s /\ t.pipeline = s.pipeline /\ t.replays = s.replays
        /\ t.callbacks = s.callbacks
    BY <1>0 DEF Asserted
  <2> QED BY <2>1, FormedSame
<1>2. ASSUME NEW x PROVE Formed([s EXCEPT !.issue = x])
  <2> DEFINE t == [s EXCEPT !.issue = x]
  <2>1. DOMAIN t = DOMAIN s /\ t.pipeline = s.pipeline /\ t.replays = s.replays
        /\ t.callbacks = s.callbacks
    BY <1>0
  <2> QED BY <2>1, FormedSame
<1>3. ScheduleIssue(s) = s \/ ScheduleIssue(s) = [s EXCEPT !.issue = s.issue \cup {0}]
  BY DEF ScheduleIssue
<1>4. CancelIssue(s) = s \/ CancelIssue(s) = [s EXCEPT !.issue = {}]
  BY DEF CancelIssue
<1>5. ASSUME NEW us PROVE Formed(removeInstFromReplayQueue(s, us))
  <2> DEFINE t == removeInstFromReplayQueue(s, us)
  <2>1. DOMAIN t = DOMAIN s /\ t.pipeline = s.pipeline /\ t.replays = s.replays
        /\ t.callbacks = s.callbacks
    BY <1>0 DEF removeInstFromReplayQueue
  <2> QED BY <2>1, FormedSame
<1>6. ASSUME NEW us PROVE Formed(appendToReadyQueue(s, us))
  <2> DEFINE t == appendToReadyQueue(s, us)
  <2>1. DOMAIN t = DOMAIN s /\ t.pipeline = s.pipeline /\ t.replays = s.replays
        /\ t.callbacks = s.callbacks
    BY <1>0 DEF appendToReadyQueue, Asserted
  <2> QED BY <2>1, FormedSame
<1>7. ASSUME NEW us PROVE Formed([s EXCEPT !.append = us])
  <2> DEFINE t == [s EXCEPT !.append = us]
  <2>1. DOMAIN t = DOMAIN s /\ t.pipeline = s.pipeline /\ t.replays = s.replays
        /\ t.callbacks = s.callbacks
    BY <1>0
  <2> QED BY <2>1, FormedSame
<1>8. ASSUME NEW us PROVE Formed([s EXCEPT !.queue = us]) /\ Formed([s EXCEPT !.stores = us])
  <2> DEFINE t == [s EXCEPT !.queue = us]
             r == [s EXCEPT !.stores = us]
  <2>1. DOMAIN t = DOMAIN s /\ t.pipeline = s.pipeline /\ t.replays = s.replays
        /\ t.callbacks = s.callbacks
    BY <1>0
  <2>2. DOMAIN r = DOMAIN s /\ r.pipeline = s.pipeline /\ r.replays = s.replays
        /\ r.callbacks = s.callbacks
    BY <1>0
  <2>3. Formed(t)
    BY <2>1, FormedSame
  <2>4. Formed(r)
    BY <2>2, FormedSame
  <2> QED BY <2>3, <2>4
<1>9. ASSUME NEW us, NEW vs PROVE Formed([s EXCEPT !.queue = us, !.stores = vs])
  <2> DEFINE t == [s EXCEPT !.queue = us, !.stores = vs]
  <2>1. DOMAIN t = DOMAIN s /\ t.pipeline = s.pipeline /\ t.replays = s.replays
        /\ t.callbacks = s.callbacks
    BY <1>0
  <2> QED BY <2>1, FormedSame
<1>10. ASSUME NEW st \in Stages PROVE Formed(invalidateStage(s, st))
  <2> DEFINE t == invalidateStage(s, st)
  <2>1. DOMAIN t = DOMAIN s /\ t.replays = s.replays /\ t.callbacks = s.callbacks
        /\ t.pipeline = [s.pipeline EXCEPT ![st] = 0]
    BY <1>0 DEF invalidateStage
  <2> HIDE DEF t
  <2>2. t.pipeline = [x \in Stages |-> t.pipeline[x]]
    BY <2>1 DEF Formed
  <2> QED BY <2>1, <2>2 DEF Formed, t
<1> QED BY <1>1, <1>2, <1>3, <1>4, <1>5, <1>6, <1>7, <1>8, <1>9, <1>10

\* An instruction is to be replayed, or starts again.
LEMMA FormedReplay ==
    ASSUME NEW s, Formed(s), NEW u
    PROVE  /\ Formed(updateInstReplayReady(s, u))
           /\ Formed(Speculative(s, updateInstReplayReady(s, u)))
           /\ \A st \in Stages : Formed(Retry(s, st, u))
<1> DEFINE e == [uid |-> u, due |-> ReplayIssueDelay]
           t == [s EXCEPT !.replays = @ \cup {e}]
<1>1. DOMAIN t = DOMAIN s /\ t.pipeline = s.pipeline /\ t.replays = s.replays \cup {e}
      /\ t.callbacks = s.callbacks
  BY Fields DEF Formed, Shaped
<1>2. e = [uid |-> e.uid, due |-> e.due] /\ DOMAIN e = {"uid", "due"}
  OBVIOUS
<1>3. updateInstReplayReady(s, u) = removeInstFromReplayQueue(t, {u})
  BY DEF updateInstReplayReady
<1> HIDE DEF t, e
<1>4. Formed(t)
  <2>1. Shaped(t)
    BY <1>1, <1>2 DEF Formed, Shaped
  <2>2. t.pipeline = [st \in Stages |-> t.pipeline[st]]
    BY <1>1 DEF Formed
  <2> QED BY <1>1, <1>2, <2>1, <2>2 DEF Formed
<1>5. Formed(updateInstReplayReady(s, u))
  BY <1>3, <1>4, FormedParts
<1> DEFINE r == Speculative(s, updateInstReplayReady(s, u))
<1>6. Formed(r)
  BY <1>5 DEF Speculative
<1>7. ASSUME NEW st \in Stages PROVE Formed(Retry(s, st, u))
  <2> DEFINE x == IF u \in r.ready THEN r ELSE ScheduleIssue(appendToReadyQueue(r, {u}))
  <2>1. Retry(s, st, u) = invalidateStage(x, st)
    BY DEF Retry
  <2> HIDE DEF r
  <2>2. Formed(appendToReadyQueue(r, {u}))
    BY <1>6, FormedParts
  <2>3. Formed(x)
    BY <1>6, <2>2, FormedParts
  <2> HIDE DEF x
  <2> QED BY <2>1, <2>3, FormedParts
<1> QED BY <1>5, <1>6, <1>7

\* Loads become ready or start again.
LEMMA FormedLoads ==
    ASSUME NEW s, Formed(s), NEW u
    PROVE  Formed(readyDependentLoads(s)) /\ Formed(getAckFromMMU(s, u))
<1>1. Formed(readyDependentLoads(s))
  <2>1. Formed(appendToReadyQueue(s, DependentLoads))
    BY FormedParts
  <2>2. Formed(ScheduleIssue(appendToReadyQueue(s, DependentLoads)))
    BY <2>1, FormedParts
  <2> QED BY <2>2 DEF readyDependentLoads
<1>2. Formed(abortYoungerLoads(s, u))
  <2> DEFINE us == AbortedLoads(s, u)
             a  == appendToReadyQueue(s, us)
             t  == [a EXCEPT !.pipeline = dropInstFromPipeline(@, us)]
  <2>1. Formed(a)
    BY FormedParts
  <2>2. abortYoungerLoads(s, u) = removeInstFromReplayQueue(t, us)
    BY DEF abortYoungerLoads
  <2> HIDE DEF us, a
  <2>3. DOMAIN t = DOMAIN a /\ t.replays = a.replays /\ t.callbacks = a.callbacks
        /\ t.pipeline = dropInstFromPipeline(a.pipeline, us)
    BY <2>1, Fields DEF Formed, Shaped
  <2> HIDE DEF t
  <2>4. t.pipeline = [st \in Stages |-> t.pipeline[st]] /\ DOMAIN t.pipeline = Stages
    BY <2>3 DEF dropInstFromPipeline
  <2>5. Shaped(t)
    BY <2>1, <2>3, <2>4 DEF Formed, Shaped
  <2>6. Formed(t)
    BY <2>1, <2>3, <2>4, <2>5 DEF Formed
  <2> QED BY <2>2, <2>6, FormedParts
<1> QED BY <1>1, <1>2 DEF getAckFromMMU

\* Events and answers.
LEMMA FormedEvents ==
    ASSUME NEW s, Formed(s), NEW u
    PROVE  /\ Formed(appendReady(s, u)) /\ Formed(replayReady(s, u))
           /\ Formed(handleMMUReadyReq(s, u)) /\ Formed(getAckFromROB(s, u))
           /\ \A m : Formed(getAckFromCache(s, u, m))
<1>1. Formed(appendReady(s, u))
  <2> DEFINE t == [s EXCEPT !.append = @ \ {u}]
             x == IF u \in t.ready \cup t.replay THEN t ELSE appendToReadyQueue(t, {u})
  <2>1. t = [s EXCEPT !.append = s.append \ {u}]
    OBVIOUS
  <2>2. Formed(t)
    BY <2>1, FormedParts
  <2>3. appendReady(s, u) = ScheduleIssue(x)
    BY DEF appendReady
  <2> HIDE DEF t
  <2>4. Formed(x)
    BY <2>2, FormedParts
  <2> HIDE DEF x
  <2> QED BY <2>3, <2>4, FormedParts
<1>2. Formed(replayReady(s, u))
  <2> DEFINE t == [s EXCEPT !.replays = @ \ {u}, !.append = @ \cup {u.uid}]
  <2>1. DOMAIN t = DOMAIN s /\ t.pipeline = s.pipeline /\ t.replays = s.replays \ {u}
        /\ t.callbacks = s.callbacks
    BY Fields DEF Formed, Shaped
  <2>2. replayReady(s, u) = ScheduleIssue(t)
    BY DEF replayReady
  <2> HIDE DEF t
  <2>3. Formed(t)
    BY <2>1, FormedSame
  <2> QED BY <2>2, <2>3, FormedParts
<1>3. Formed(handleMMUReadyReq(s, u))
  <2> DEFINE a == Asserted(s, status[u] = "FLUSHED" \/ u \in s.queue)
             t == [a EXCEPT !.append = a.append \cup ({u} \cap s.queue)]
             x == IF status[u] = "FLUSHED" THEN t ELSE removeInstFromReplayQueue(t, {u})
  <2>1. Formed(a)
    BY FormedParts
  <2>2. updateIssuePriorityAfterTLBReload(s, u) = t
    BY DEF updateIssuePriorityAfterTLBReload
  <2>3. handleMMUReadyReq(s, u) = ScheduleIssue(x)
    BY <2>2 DEF handleMMUReadyReq
  <2> HIDE DEF a
  <2>4. Formed(t)
    BY <2>1, FormedParts
  <2> HIDE DEF t
  <2>5. Formed(x)
    BY <2>4, FormedParts
  <2> HIDE DEF x
  <2> QED BY <2>3, <2>5, FormedParts
<1>4. Formed(getAckFromROB(s, u))
  <2> DEFINE a == Asserted(s, s.stores # {} /\ u = Min(s.stores))
             t == [a EXCEPT !.stores = a.stores \ {u}]
             b == Asserted(t, u \in t.queue)
             x == [b EXCEPT !.append = b.append \cup {u}]
  <2>1. Formed(a)
    BY FormedParts
  <2>2. getAckFromROB(s, u) = ScheduleIssue(x)
    BY DEF getAckFromROB, updateIssuePriorityAfterStoreInstRetire
  <2> HIDE DEF a
  <2>3. Formed(t)
    BY <2>1, FormedParts
  <2> HIDE DEF t
  <2>4. Formed(b)
    BY <2>3, FormedParts
  <2> HIDE DEF b
  <2>5. Formed(x)
    BY <2>4, FormedParts
  <2> HIDE DEF x
  <2> QED BY <2>2, <2>5, FormedParts
<1>5. ASSUME NEW m PROVE Formed(getAckFromCache(s, u, m))
  <2>1. getAckFromCache(s, u, m) = s \/ getAckFromCache(s, u, m) = [s EXCEPT !.append = s.append \cup {u}]
    BY DEF getAckFromCache
  <2>2. Formed([s EXCEPT !.append = s.append \cup {u}])
    BY FormedParts
  <2> QED BY <2>1, <2>2
<1> QED BY <1>1, <1>2, <1>3, <1>4, <1>5

\* The operands of an instruction are registers.
LEMMA OperandsAre ==
    ASSUME TraceGiven, IInv, NEW u \in Insts
    PROVE  Inst(u).src \in Nat /\ Inst(u).data \in Nat /\ VAddr(u) \in Nat
<1> DEFINE R == [store : BOOLEAN, vaddr : Nat, size : Nat, src : Nat, data : Nat, branch : BOOLEAN]
<1>1. \A r \in R : r.src \in Nat /\ r.data \in Nat /\ r.vaddr \in Nat
  OBVIOUS
<1>2. PICK s \in Setups : program = s.program
  BY DEF TraceGiven
<1>3. program \in Seq(R)
  BY <1>2, SetupAssumption
<1> HIDE DEF R
<1>4. pid[u] \in DOMAIN program
  BY InstFacts DEF IInv
<1>5. program[pid[u]] \in R
  BY <1>3, <1>4
<1> QED BY <1>1, <1>5 DEF Inst, VAddr

\* The operand check.
LEMMA FormedCheck ==
    ASSUME NEW s, Formed(s), NEW us, \A u \in us : Inst(u).src \in Nat /\ Inst(u).data \in Nat,
           NEW rdy
    PROVE  Formed(handleOperandIssueCheck(s, us, rdy))
<1> DEFINE waits == {[uid |-> u, reg |-> r] : u \in {v \in us : status[v] # "SCHEDULED"},
                                              r \in UNION {Awaits(v, rdy) : v \in us}}
           now == Schedulable(us, rdy)
           new == {c \in waits : c.reg \in Awaits(c.uid, rdy)}
           a == Asserted(s, now \subseteq s.queue)
           b == [a EXCEPT !.callbacks = @ \cup new]
           t == handleOperandIssueCheck(s, us, rdy)
<1>1. \A v \in us : Awaits(v, rdy) \subseteq Nat
  BY DEF Awaits
<1>2. \A c \in new : c = [uid |-> c.uid, reg |-> c.reg] /\ c.reg \in Nat
  <2> SUFFICES ASSUME NEW u \in us, NEW r \in UNION {Awaits(v, rdy) : v \in us}
               PROVE  LET c == [uid |-> u, reg |-> r]
                      IN  c = [uid |-> c.uid, reg |-> c.reg] /\ c.reg \in Nat
    OBVIOUS
  <2> QED BY <1>1
<1>3. t = IF now = {} THEN b ELSE ScheduleIssue(appendToReadyQueue(b, now))
  BY DEF handleOperandIssueCheck
<1> HIDE DEF waits, now, new, t
<1>4. Formed(a)
  BY FormedParts
<1> HIDE DEF a
<1>5. DOMAIN b = DOMAIN a /\ b.pipeline = a.pipeline /\ b.replays = a.replays
      /\ b.callbacks = a.callbacks \cup new
  BY <1>4, Fields DEF Formed, Shaped
<1> HIDE DEF b
<1>6. Formed(b)
  <2>1. Shaped(b)
    BY <1>4, <1>5 DEF Formed, Shaped
  <2>2. b.pipeline = [st \in Stages |-> b.pipeline[st]]
    BY <1>4, <1>5 DEF Formed
  <2> QED BY <1>2, <1>4, <1>5, <2>1, <2>2 DEF Formed
<1>7. Formed(appendToReadyQueue(b, now))
  BY <1>6, FormedParts
<1>8. Formed(ScheduleIssue(appendToReadyQueue(b, now)))
  BY <1>7, FormedParts
<1> QED BY <1>3, <1>6, <1>8 DEF t

\* A flush, the pipeline moves on, the cycle ends.
LEMMA FormedClock ==
    ASSUME NEW s, Formed(s)
    PROVE  /\ Formed(AdvancePipeline(s)) /\ Formed(AgedLSU(s))
           /\ \A us : Formed(handleFlush(s, us))
<1> USE Fields
<1>1. Formed(AdvancePipeline(s))
  <2> DEFINE t == AdvancePipeline(s)
  <2>1. DOMAIN t = DOMAIN s /\ t.replays = s.replays /\ t.callbacks = s.callbacks
        /\ t.pipeline = [st \in Stages |-> IF st = ADDRESS THEN 0 ELSE s.pipeline[st - 1]]
    BY DEF AdvancePipeline, Formed, Shaped
  <2> HIDE DEF t
  <2>2. t.pipeline = [x \in Stages |-> t.pipeline[x]] /\ DOMAIN t.pipeline = Stages
    BY <2>1
  <2>3. Shaped(t)
    BY <2>1, <2>2 DEF Formed, Shaped
  <2> QED BY <2>1, <2>2, <2>3 DEF Formed, t
<1>2. Formed(AgedLSU(s))
  <2> DEFINE t == AgedLSU(s)
  <2>1. DOMAIN t = DOMAIN s /\ t.pipeline = s.pipeline /\ t.callbacks = s.callbacks
        /\ t.replays = {[e EXCEPT !.due = @ - 1] : e \in s.replays}
    BY DEF AgedLSU, Formed, Shaped
  <2>2. Shaped(t)
    BY ClockMoves DEF Formed, Moves
  <2> HIDE DEF t
  <2>3. ASSUME NEW d \in t.replays
        PROVE  d = [uid |-> d.uid, due |-> d.due]
    <3>1. PICK e \in s.replays : d = [e EXCEPT !.due = @ - 1]
      BY <2>1
    <3>2. e = [uid |-> e.uid, due |-> e.due]
      BY DEF Formed
    <3>3. d = [uid |-> e.uid, due |-> e.due - 1]
      BY <3>1, <3>2
    <3> QED BY <3>3
  <2>4. \A d \in t.replays : d = [uid |-> d.uid, due |-> d.due]
    BY <2>3
  <2>5. t.pipeline = [x \in Stages |-> t.pipeline[x]]
    BY <2>1 DEF Formed
  <2> QED BY <2>1, <2>2, <2>4, <2>5 DEF Formed, t
<1>3. ASSUME NEW us PROVE Formed(handleFlush(s, us))
  <2> DEFINE f == flushQueues(s, us)
             t == [f EXCEPT !.append = @ \ us, !.replays = {e \in @ : e.uid \notin us}]
  <2>1. /\ DOMAIN f = DOMAIN s /\ f.replays = s.replays
        /\ f.callbacks = {c \in s.callbacks : c.uid \notin us \cap s.queue}
        /\ f.pipeline = [st \in Stages |-> IF s.pipeline[st] \in us THEN 0 ELSE s.pipeline[st]]
    BY DEF flushQueues, Formed, Shaped
  <2>2. handleFlush(s, us) = CancelIssue(t)
    BY DEF handleFlush
  <2> HIDE DEF f
  <2>3. /\ DOMAIN t = DOMAIN f /\ t.replays = {e \in f.replays : e.uid \notin us}
        /\ t.callbacks = f.callbacks /\ t.pipeline = f.pipeline
    BY <2>1 DEF Formed, Shaped
  <2> HIDE DEF t
  <2>4. t.pipeline = [x \in Stages |-> t.pipeline[x]] /\ DOMAIN t.pipeline = Stages
    BY <2>1, <2>3
  <2>5. Shaped(t)
    BY <2>1, <2>3, <2>4 DEF Formed, Shaped
  <2>6. Formed(t)
    BY <2>1, <2>3, <2>4, <2>5 DEF Formed
  <2> QED BY <2>2, <2>6, FormedParts
<1> QED BY <1>1, <1>2, <1>3

\* An instruction issues.
LEMMA FormedIssue ==
    ASSUME Formed(lsu), issueInst
    PROVE  Formed(lsu')
<1> USE Fields
<1>1. CASE lsu.ready = {}
  <2>1. lsu' = Asserted(lsu, FALSE)
    BY <1>1 DEF issueInst
  <2> QED BY <2>1, FormedParts
<1>2. CASE lsu.ready # {}
  <2> DEFINE u == Min(lsu.ready)
             t == [lsu EXCEPT !.issue = @ \ {0}, !.ready = @ \ {u}, !.pipeline[ADDRESS] = u]
             a == Asserted(t, ~ReplayFull(t) /\ u \notin t.replay)
             r == [a EXCEPT !.replay = @ \cup {u}]
             s == Speculative(t, r)
             x == [s EXCEPT !.issue = @ \cup {1}]
  <2>1. lsu' = s \/ lsu' = x
    BY <1>2 DEF issueInst
  <2> HIDE DEF u
  <2>2. DOMAIN t = DOMAIN lsu /\ t.replays = lsu.replays /\ t.callbacks = lsu.callbacks
        /\ t.pipeline = [lsu.pipeline EXCEPT ![ADDRESS] = u]
    BY DEF Formed, Shaped
  <2> HIDE DEF t
  <2>3. t.pipeline = [y \in Stages |-> t.pipeline[y]] /\ DOMAIN t.pipeline = Stages
    BY <2>2 DEF Formed, Shaped
  <2>4. Shaped(t)
    BY <2>2, <2>3 DEF Formed, Shaped
  <2>5. Formed(t)
    BY <2>2, <2>3, <2>4 DEF Formed
  <2>6. Formed(a)
    BY <2>5, FormedParts
  <2> HIDE DEF a
  <2>7. DOMAIN r = DOMAIN a /\ r.replays = a.replays /\ r.callbacks = a.callbacks
        /\ r.pipeline = a.pipeline
    BY <2>6 DEF Formed, Shaped
  <2> HIDE DEF r
  <2>8. Formed(r)
    BY <2>6, <2>7, FormedSame
  <2>9. Formed(s)
    BY <2>5, <2>8 DEF Speculative
  <2> HIDE DEF s
  <2>10. DOMAIN x = DOMAIN s /\ x.replays = s.replays /\ x.callbacks = s.callbacks
         /\ x.pipeline = s.pipeline
    BY <2>9 DEF Formed, Shaped
  <2> HIDE DEF x
  <2>11. Formed(x)
    BY <2>9, <2>10, FormedSame
  <2> QED BY <2>1, <2>9, <2>11
<1> QED BY <1>1, <1>2

\* An instruction completes.
LEMMA FormedComplete ==
    ASSUME Formed(lsu), NEW u, completeInst(u)
    PROVE  Formed(lsu')
<1> DEFINE c == /\ isStore(u) => mem[u].phy
                /\ ~isStore(u) \/ status[u] = "RETIRED" => mem[u].cache = "HIT"
           a == Asserted(lsu, c)
           s == IF mem[u].data THEN ScheduleIssue(a) ELSE lsu
           t == IF Finishes(u) THEN [s EXCEPT !.queue = s.queue \ {u}] ELSE s
           r == removeInstFromReplayQueue(t, {u})
<1>1. lsu' = t \/ lsu' = r
  BY DEF completeInst, Speculative
<1> HIDE DEF c
<1>2. Formed(a)
  BY FormedParts
<1> HIDE DEF a
<1>3. Formed(s)
  BY <1>2, FormedParts
<1> HIDE DEF s
<1>4. Formed(t)
  BY <1>3, FormedParts
<1> HIDE DEF t
<1>5. Formed(r)
  BY <1>4, FormedParts
<1> QED BY <1>1, <1>4, <1>5

\* Every step leaves LSU's record formed.
LEMMA FormedNext ==
    ASSUME TraceGiven, IInv, Formed(lsu), [Next]_vars
    PROVE  Formed(lsu')
<1>1. CASE LSUReceives
  <2> DEFINE u == Head(to_lsu)
             a == Asserted(lsu, Cardinality(lsu.queue) < QueueSize)
             s == [a EXCEPT !.queue = a.queue \cup {u},
                            !.stores = a.stores \cup (IF isStore(u) THEN {u} ELSE {})]
  <2>1. lsu' = handleOperandIssueCheck(s, {u}, ready)
    BY <1>1 DEF LSUReceives, getInstsFromDispatch
  <2>2. u \in Insts
    BY <1>1, TailFacts DEF LSUReceives, IInv, MessageInv
  <2>3. \A v \in {u} : Inst(v).src \in Nat /\ Inst(v).data \in Nat
    BY <2>2, OperandsAre
  <2> HIDE DEF u
  <2>4. Formed(a)
    BY FormedParts
  <2> HIDE DEF a
  <2>5. Formed(s)
    BY <2>4, FormedParts
  <2> HIDE DEF s
  <2> QED BY <2>1, <2>3, <2>5, FormedCheck
<1>2. CASE OperandArrives \/ ScoreboardUpdate
  <2>1. PICK r : RegisterReady(r)
    BY <1>2, RegisterStep
  <2> DEFINE us == {c.uid : c \in {d \in lsu.callbacks : d.reg = r}}
             s  == [lsu EXCEPT !.callbacks = {c \in @ : c.reg # r}]
  <2>2. lsu' = handleOperandIssueCheck(s, us, ready')
    BY <2>1 DEF RegisterReady
  <2>3. us \subseteq Insts
    BY DEF IInv, HeldInv
  <2>4. \A v \in us : Inst(v).src \in Nat /\ Inst(v).data \in Nat
    BY <2>3, OperandsAre
  <2>5. DOMAIN s = DOMAIN lsu /\ s.pipeline = lsu.pipeline /\ s.replays = lsu.replays
        /\ s.callbacks \subseteq lsu.callbacks
    BY Fields DEF Formed, Shaped
  <2> HIDE DEF us, s
  <2>6. Formed(s)
    BY <2>5, FormedSame
  <2> QED BY <2>2, <2>4, <2>6, FormedCheck
<1>3. CASE LSUGetsAck \/ LSUGetsTranslation \/ AppendsReady \/ ReplaysReady
  BY <1>3, FormedEvents DEF LSUGetsAck, LSUGetsTranslation, AppendsReady, ReplaysReady
<1>4. CASE CalculatesAddress
  BY <1>4, FormedParts DEF CalculatesAddress, handleAddressCalculation
<1>5. CASE LooksUpMMU
  <2>1. PICK u \in Insts : handleMMULookupReq(u)
    BY <1>5 DEF LooksUpMMU
  <2> DEFINE s == IF isStore(u) /\ ~allow_speculative_load_exec_ THEN readyDependentLoads(lsu) ELSE lsu
  <2>2. lsu' = lsu \/ lsu' = getAckFromMMU(s, u)
    BY <2>1 DEF handleMMULookupReq
  <2>3. Formed(s)
    BY FormedLoads
  <2> HIDE DEF s
  <2> QED BY <2>2, <2>3, FormedLoads
<1>6. CASE LooksUpCache
  <2>1. PICK u \in Insts : handleCacheLookupReq(u)
    BY <1>6 DEF LooksUpCache
  <2> DEFINE s == invalidateStage(lsu, CACHE_LOOKUP)
  <2>2. lsu' \in {lsu, Retry(lsu, CACHE_LOOKUP, u), Speculative(s, updateInstReplayReady(s, u))}
    BY <2>1 DEF handleCacheLookupReq
  <2>3. Formed(s)
    BY FormedParts, StageNumbers
  <2> HIDE DEF s
  <2> QED BY <2>2, <2>3, FormedReplay, StageNumbers
<1>7. CASE ReadsCache
  <2>1. PICK u \in Insts : handleCacheRead(u)
    BY <1>7 DEF ReadsCache
  <2>2. lsu' \in {lsu, Retry(lsu, CACHE_READ, u), ScheduleIssue(lsu)}
    BY <2>1 DEF handleCacheRead
  <2> QED BY <2>2, FormedReplay, FormedParts, StageNumbers
<1>8. CASE Completes
  BY <1>8, FormedComplete DEF Completes
<1>9. CASE Issues
  BY <1>9, FormedIssue DEF Issues
<1>10. CASE CacheLooksUp \/ CacheReads
  <2>1. lsu' = lsu \/ \E u, m : lsu' = getAckFromCache(lsu, u, m)
    BY <1>10 DEF CacheLooksUp, CacheReads
  <2>2. ASSUME NEW u, NEW m, lsu' = getAckFromCache(lsu, u, m)
        PROVE  Formed(lsu')
    <3>1. Formed(getAckFromCache(lsu, u, m))
      BY FormedEvents
    <3> QED BY <2>2, <3>1
  <2>3. CASE lsu' = lsu
    BY <2>3
  <2> QED BY <2>1, <2>2, <2>3
<1>11. CASE nextPhase
  BY <1>11, FormedClock DEF nextPhase
<1>12. CASE Flush
  <2>1. PICK us : lsu' = handleFlush(lsu, us)
    BY <1>12 DEF Flush
  <2> QED BY <2>1, FormedClock
<1>13. CASE MMULoadsEntry \/ CacheAsksL2 \/ CacheArbitrates \/ DispatchSends \/ Retire \/ L2Responds
            \/ L2CopiesRequest \/ UNCHANGED vars
  BY <1>13 DEF MMULoadsEntry, CacheAsksL2, CacheArbitrates, DispatchSends, Retire, L2Responds,
               L2CopiesRequest, vars
<1> QED
  BY <1>1, <1>2, <1>3, <1>4, <1>5, <1>6, <1>7, <1>8, <1>9, <1>10, <1>11, <1>12, <1>13
  DEF Next, Messages, LSUSteps, OtherSteps

\* A cache that loads an entry keeps to its size.
LEMMA ReloadedFacts ==
    ASSUME NEW A, IsFiniteSet(A), NEW e, NEW n \in Nat \ {0}, Cardinality(A) <= n,
           NEW B \in Reloaded(A, e, n)
    PROVE  IsFiniteSet(B) /\ Cardinality(B) <= n /\ B \subseteq A \cup {e} /\ e \in B
<1>1. Cardinality(A) \in Nat
  BY FS_CardinalityType
<1>2. CASE e \in A
  <2>1. B = A
    BY <1>2 DEF Reloaded
  <2> QED BY <1>2, <2>1
<1>3. CASE e \notin A /\ Cardinality(A) < n
  <2>1. B = A \cup {e}
    BY <1>3 DEF Reloaded
  <2>2. IsFiniteSet(A \cup {e}) /\ Cardinality(A \cup {e}) = Cardinality(A) + 1
    BY <1>3, FS_AddElement
  <2> QED BY <1>1, <1>3, <2>1, <2>2
<1>4. CASE e \notin A /\ ~(Cardinality(A) < n)
  <2>1. PICK v \in A : B = (A \ {v}) \cup {e}
    BY <1>4 DEF Reloaded
  <2>2. IsFiniteSet(A \ {v}) /\ Cardinality(A \ {v}) = Cardinality(A) - 1
    BY FS_RemoveElement
  <2>3. IsFiniteSet(B) /\ Cardinality(B) = Cardinality(A \ {v}) + 1
    BY <1>4, <2>1, <2>2, FS_AddElement
  <2> QED BY <1>1, <2>1, <2>2, <2>3
<1> QED BY <1>2, <1>3, <1>4

\* The TLB keeps to its size, the event of a miss to its delay.
MMUTypes == /\ IsFiniteSet(tlb_cache_) /\ Cardinality(tlb_cache_) <= TLBEntries
            /\ uev_lookup_inst_ \subseteq 0..MMULatency

\* No step breaks them.
LEMMA MMUTypesNext ==
    ASSUME MMUTypes, [Next]_vars
    PROVE  MMUTypes'
<1>0. TLBEntries \in Nat \ {0} /\ MMULatency \in Nat \ {0}
  BY MMUAssumption
<1>1. CASE LooksUpMMU
  <2>1. PICK u \in Insts : handleMMULookupReq(u)
    BY <1>1 DEF LooksUpMMU
  <2>2. tlb_cache_' = tlb_cache_ /\ (uev_lookup_inst_' = uev_lookup_inst_ \/ uev_lookup_inst_' = {MMULatency})
    BY <2>1 DEF handleMMULookupReq, getInstsFromLSU, mmuVars
  <2>3. {MMULatency} \subseteq 0..MMULatency
    BY <1>0
  <2> QED BY <2>2, <2>3 DEF MMUTypes
<1>2. CASE MMULoadsEntry
  <2>1. tlb_cache_' \in Reloaded(tlb_cache_, Page(mmu_pending_inst_), TLBEntries)
        /\ uev_lookup_inst_' = {}
    BY <1>2 DEF MMULoadsEntry, lookupInst
  <2>2. IsFiniteSet(tlb_cache_') /\ Cardinality(tlb_cache_') <= TLBEntries
    BY <1>0, <2>1, ReloadedFacts DEF MMUTypes
  <2> QED BY <2>1, <2>2 DEF MMUTypes
<1>3. CASE nextPhase
  <2>1. tlb_cache_' = tlb_cache_
    BY <1>3 DEF nextPhase
  <2>2. CASE phase = "late"
    <3>1. uev_lookup_inst_' = {d - 1 : d \in uev_lookup_inst_} /\ 0 \notin uev_lookup_inst_
      BY <1>3, <2>2 DEF nextPhase, PhaseDone, EventsDone
    <3>2. ASSUME NEW d \in uev_lookup_inst_ PROVE d - 1 \in 0..MMULatency
      BY <1>0, <3>1 DEF MMUTypes
    <3> QED BY <2>1, <3>1, <3>2 DEF MMUTypes
  <2>3. CASE phase # "late"
    BY <1>3, <2>1, <2>3 DEF nextPhase, MMUTypes
  <2> QED BY <2>2, <2>3
<1>4. CASE \/ LSUReceives \/ LSUGetsAck \/ LSUGetsTranslation \/ ScoreboardUpdate \/ OperandArrives
           \/ DispatchSends \/ Retire \/ Flush \/ L2Responds \/ L2CopiesRequest \/ UNCHANGED vars
  BY <1>4 DEF MMUTypes, LSUReceives, LSUGetsAck, LSUGetsTranslation, ScoreboardUpdate, OperandArrives,
              DispatchSends, Retire, Flush, L2Responds, L2CopiesRequest, vars, mmuVars
<1>5. CASE \/ CalculatesAddress \/ LooksUpCache \/ ReadsCache \/ Completes \/ AppendsReady
           \/ ReplaysReady \/ Issues
  BY <1>5 DEF MMUTypes, CalculatesAddress, LooksUpCache, ReadsCache, Completes, AppendsReady,
              ReplaysReady, Issues, handleAddressCalculation, handleCacheLookupReq, handleCacheRead,
              completeInst, mmuVars
<1>6. CASE CacheLooksUp \/ CacheReads \/ CacheAsksL2 \/ CacheArbitrates
  BY <1>6 DEF MMUTypes, CacheLooksUp, CacheReads, CacheAsksL2, CacheArbitrates, AtCacheStage, mmuVars
<1> QED
  BY <1>1, <1>2, <1>3, <1>4, <1>5, <1>6 DEF Next, Messages, LSUSteps, OtherSteps

\* The cache's pipeline holds nothing or an instruction; its handlers run for what is there.
PipelineTypes ==
    /\ cache_pipeline_ \in [{"LOOKUP", "DATA_READ"} -> {Empty} \cup [uid : Insts, refill : BOOLEAN]]
    /\ \A st \in cache_due : /\ phase = "tick" /\ st \in {"LOOKUP", "DATA_READ"}
                             /\ cache_pipeline_[st] # Empty
    /\ l2_mem_access_info_ \in {0} \cup Insts /\ l2cache_req \in {0} \cup Insts

\* An instruction has at most one miss register, and there are as many as there are; the
\* event that asks the L2 cache runs in this cycle or in the next.
MissTypes ==
    /\ IsSequence(mshr_file_) /\ Distinct(mshr_file_) /\ Range(mshr_file_) \subseteq Insts
    /\ Len(mshr_file_) <= MSHREntries
    /\ uev_mshr_request_ \subseteq 0..1 /\ (phase = "late" => 0 \notin uev_mshr_request_)

\* The cache keeps to its size.
LineTypes == IsFiniteSet(l1_cache_) /\ Cardinality(l1_cache_) <= DCacheLines

CacheTypes == PipelineTypes /\ MissTypes /\ LineTypes

\* Actions that do not concern the cache, but for requests of LSU.
CacheIdle == \/ LSUReceives \/ LSUGetsAck \/ LSUGetsTranslation \/ ScoreboardUpdate \/ OperandArrives
             \/ Retire \/ Flush \/ CalculatesAddress \/ LooksUpMMU \/ LooksUpCache \/ ReadsCache
             \/ Completes \/ AppendsReady \/ ReplaysReady \/ Issues \/ MMULoadsEntry

\* It leaves the state of the cache alone.
LEMMA CacheIdleIs ==
    ASSUME CacheIdle \/ UNCHANGED vars
    PROVE  UNCHANGED <<phase, program, pid, cache_due, cache_pipeline_, l2_mem_access_info_,
                       l2cache_req, l2_copy, mshr_file_, uev_mshr_request_, l1_cache_>>
<1>1. CASE LSUReceives \/ LSUGetsAck \/ LSUGetsTranslation \/ ScoreboardUpdate \/ OperandArrives
           \/ Retire \/ Flush \/ UNCHANGED vars
  BY <1>1 DEF LSUReceives, LSUGetsAck, LSUGetsTranslation, ScoreboardUpdate, OperandArrives, Retire,
              Flush, vars, instVars, dueVars, dcacheVars
<1>2. CASE LooksUpMMU
  <2>1. PICK u \in Insts : AtStage(MMU_LOOKUP, u) /\ handleMMULookupReq(u)
    BY <1>2 DEF LooksUpMMU
  <2>2. UNCHANGED <<pid, dcacheVars>>
    BY <2>1 DEF handleMMULookupReq, instVars
  <2> QED BY <2>1, <2>2 DEF AtStage, dcacheVars
<1>3. CASE CalculatesAddress \/ LooksUpCache \/ ReadsCache \/ Completes
  BY <1>3 DEF CalculatesAddress, LooksUpCache, ReadsCache, Completes, AtStage,
              handleAddressCalculation, handleCacheLookupReq, handleCacheRead, completeInst,
              instVars, dcacheVars
<1>4. CASE AppendsReady \/ ReplaysReady \/ Issues \/ MMULoadsEntry
  BY <1>4 DEF AppendsReady, ReplaysReady, Issues, MMULoadsEntry, instVars, dueVars, dcacheVars
<1> QED BY <1>1, <1>2, <1>3, <1>4 DEF CacheIdle

\* So its types stay.
LEMMA CacheTypesIdle ==
    ASSUME CacheTypes, CacheIdle \/ UNCHANGED vars
    PROVE  CacheTypes'
<1>1. UNCHANGED <<phase, program, pid, cache_due, cache_pipeline_, l2_mem_access_info_,
                  l2cache_req, mshr_file_, uev_mshr_request_, l1_cache_>>
  BY CacheIdleIs
<1>2. PipelineTypes'
  BY <1>1 DEF CacheTypes, PipelineTypes, Insts
<1>3. MissTypes'
  BY <1>1 DEF CacheTypes, MissTypes, Insts
<1>4. LineTypes'
  BY <1>1 DEF CacheTypes, LineTypes
<1> QED BY <1>2, <1>3, <1>4 DEF CacheTypes

\* A new instruction.
LEMMA CacheTypesDispatch ==
    ASSUME TraceGiven, IInv, CacheTypes, DispatchSends
    PROVE  CacheTypes'
<1>1. Insts \subseteq Insts' /\ UNCHANGED <<phase, dueVars, dcacheVars>>
  BY DispatchIs
<1> QED
  BY <1>1 DEF CacheTypes, PipelineTypes, MissTypes, LineTypes, dueVars, dcacheVars

\* What is in the pipeline of the cache.
LEMMA PipelineFacts ==
    ASSUME PipelineTypes, NEW st \in {"LOOKUP", "DATA_READ"}
    PROVE  /\ cache_pipeline_[st] = Empty \/ cache_pipeline_[st].uid \in Insts
           /\ cache_pipeline_[st] \in [uid : {0} \cup Insts, refill : BOOLEAN]
           /\ st \in cache_due => cache_pipeline_[st].uid \in Insts
<1>1. cache_pipeline_[st] \in {Empty} \cup [uid : Insts, refill : BOOLEAN]
  BY DEF PipelineTypes
<1>2. CASE cache_pipeline_[st] = Empty
  BY <1>2 DEF PipelineTypes, Empty
<1>3. CASE cache_pipeline_[st] \in [uid : Insts, refill : BOOLEAN]
  BY <1>3
<1> QED BY <1>1, <1>2, <1>3

\* A lookup of the cache.
LEMMA CacheTypesLookup ==
    ASSUME IInv, CacheTypes, CacheLooksUp
    PROVE  CacheTypes'
<1> DEFINE u == cache_pipeline_.LOOKUP.uid
<1>1. /\ cache_due' = cache_due \ {"LOOKUP"} /\ "LOOKUP" \in cache_due
      /\ UNCHANGED <<phase, pid, cache_pipeline_, l2_mem_access_info_, l2cache_req,
                     uev_mshr_request_, l1_cache_>>
      /\ \/ mshr_file_' = mshr_file_
         \/ NeedsMSHR(u) /\ ~NoMSHR(u) /\ mshr_file_' = Append(mshr_file_, u)
  BY DEF CacheLooksUp, AtCacheStage, handleLookup, dcacheVars
<1>2. u \in Insts
  BY <1>1, PipelineFacts DEF CacheTypes
<1>3. PipelineTypes'
  BY <1>1 DEF CacheTypes, PipelineTypes, Insts
<1>4. LineTypes'
  BY <1>1 DEF CacheTypes, LineTypes
<1>5. MissTypes'
  <2>1. CASE mshr_file_' = mshr_file_
    BY <1>1, <2>1 DEF CacheTypes, MissTypes, Insts
  <2>2. CASE NeedsMSHR(u) /\ ~NoMSHR(u) /\ mshr_file_' = Append(mshr_file_, u)
    <3>1. IsSequence(mshr_file_) /\ Distinct(mshr_file_) /\ Range(mshr_file_) \subseteq Insts
          /\ Len(mshr_file_) <= MSHREntries
      BY DEF CacheTypes, MissTypes
    <3>2. u \notin Range(mshr_file_)
      BY <2>2 DEF NeedsMSHR, ToSet, Range
    <3>3. Len(mshr_file_) # MSHREntries
      BY <2>2 DEF NoMSHR
    <3> HIDE DEF u
    <3>4. /\ IsSequence(mshr_file_') /\ Len(mshr_file_) \in Nat
          /\ Len(mshr_file_') = Len(mshr_file_) + 1
          /\ Range(mshr_file_') = Range(mshr_file_) \cup {u} /\ Distinct(mshr_file_')
      BY <2>2, <3>1, <3>2, AppendIsSequence
    <3>5. Len(mshr_file_') <= MSHREntries
      BY <3>1, <3>3, <3>4, DCacheAssumption
    <3> QED BY <1>1, <1>2, <3>1, <3>4, <3>5 DEF CacheTypes, MissTypes, Insts
  <2> QED BY <1>1, <2>1, <2>2
<1> QED BY <1>3, <1>4, <1>5 DEF CacheTypes

\* A read of the cache, or a refill.
LEMMA CacheTypesRead ==
    ASSUME IInv, CacheTypes, CacheReads
    PROVE  CacheTypes'
<1> DEFINE u == cache_pipeline_.DATA_READ.uid
<1>1. /\ cache_due' = cache_due \ {"DATA_READ"} /\ "DATA_READ" \in cache_due /\ phase = "tick"
      /\ UNCHANGED <<phase, pid, cache_pipeline_, l2_mem_access_info_, mshr_file_>>
      /\ l2cache_req' = l2cache_req \/ l2cache_req' = u
      /\ uev_mshr_request_' = uev_mshr_request_ \/ uev_mshr_request_' = uev_mshr_request_ \cup {1}
                                                \/ uev_mshr_request_' = uev_mshr_request_ \cup {}
      /\ l1_cache_' = l1_cache_ \/ l1_cache_' \in reloadCache(Line(u))
  BY DEF CacheReads, AtCacheStage, handleDataRead, handleDataReadRefill, dcacheVars
<1>2. u \in Insts
  BY <1>1, PipelineFacts DEF CacheTypes
<1>3. PipelineTypes'
  BY <1>1, <1>2 DEF CacheTypes, PipelineTypes, Insts
<1>4. LineTypes'
  <2>1. DCacheLines \in Nat \ {0}
    BY DCacheAssumption
  <2>2. CASE l1_cache_' = l1_cache_
    BY <2>2 DEF CacheTypes, LineTypes
  <2>3. CASE l1_cache_' \in reloadCache(Line(u))
    <3>1. PICK A : A \subseteq l1_cache_ /\ l1_cache_' = A \cup {Line(u)}
      BY <2>3, Zenon DEF reloadCache
    <3>2. IsFiniteSet(A)
      BY <3>1, FS_Subset DEF CacheTypes, LineTypes
    <3>3. IsFiniteSet(l1_cache_')
      BY <3>1, <3>2, FS_AddElement
    <3> QED BY <2>3, <3>3 DEF LineTypes, reloadCache
  <2> QED BY <1>1, <2>2, <2>3
<1>5. uev_mshr_request_' \subseteq 0..1
  <2>1. uev_mshr_request_' \subseteq uev_mshr_request_ \cup {1}
    BY <1>1
  <2> QED BY <2>1 DEF CacheTypes, MissTypes
<1>6. MissTypes'
  BY <1>1, <1>5 DEF CacheTypes, MissTypes, Insts
<1> QED BY <1>3, <1>4, <1>6 DEF CacheTypes

\* Requests to the L2 cache, and its answers.
LEMMA CacheTypesL2 ==
    ASSUME IInv, CacheTypes, CacheAsksL2 \/ L2Responds
    PROVE  CacheTypes'
<1>0. /\ IsSequence(mshr_file_) /\ Distinct(mshr_file_) /\ Range(mshr_file_) \subseteq Insts
      /\ Len(mshr_file_) <= MSHREntries /\ Len(mshr_file_) \in Nat
      /\ DOMAIN mshr_file_ = 1..Len(mshr_file_)
  BY SeqFacts DEF CacheTypes, MissTypes, IsSequence
<1>1. CASE CacheAsksL2
  <2>1. /\ UNCHANGED <<phase, pid, cache_due, cache_pipeline_, l2_mem_access_info_, mshr_file_, l1_cache_>>
        /\ uev_mshr_request_' = uev_mshr_request_ \ {0}
        /\ l2cache_req' = l2cache_req \/ (mshr_file_ # << >> /\ l2cache_req' = Head(mshr_file_))
    BY <1>1 DEF CacheAsksL2, mshrRequest, instVars, dueVars
  <2>2. mshr_file_ # << >> => Head(mshr_file_) \in Insts
    BY <1>0, TailFacts DEF IsSequence
  <2> QED BY <2>1, <2>2 DEF CacheTypes, PipelineTypes, MissTypes, LineTypes, Insts
<1>2. CASE L2Responds
  <2> DEFINE T == {k \in DOMAIN mshr_file_ : mshr_file_[k] \notin l2_copy}
  <2>1. /\ UNCHANGED <<phase, pid, cache_due, cache_pipeline_, uev_mshr_request_, l1_cache_>>
        /\ l2_mem_access_info_' = l2cache_req /\ l2cache_req' = 0
        /\ mshr_file_' = ElementsAt(mshr_file_, T)
    BY <1>2 DEF L2Responds, receiveRespFromL2Cache, instVars, dueVars
  <2>2. T \in SUBSET (1..Len(mshr_file_))
    BY <1>0
  <2>3. Range(mshr_file_) = {mshr_file_[k] : k \in DOMAIN mshr_file_}
    BY DEF Range
  <2>4. {mshr_file_[k] : k \in T} \subseteq Insts
    BY <1>0, <2>3
  <2> HIDE DEF T
  <2>5. /\ IsSequence(mshr_file_') /\ Distinct(mshr_file_') /\ Len(mshr_file_') = Cardinality(T)
        /\ Range(mshr_file_') = {mshr_file_[k] : k \in T}
    BY <1>0, <2>1, <2>2, ElementsAtFacts
  <2>6. Cardinality(T) <= Len(mshr_file_) /\ Cardinality(T) \in Nat
    <3>1. IsFiniteSet(1..Len(mshr_file_)) /\ Cardinality(1..Len(mshr_file_)) = Len(mshr_file_)
      <4> DEFINE n == Len(mshr_file_)
      <4>1. n \in Nat
        BY <1>0
      <4> HIDE DEF n
      <4>2. IsFiniteSet(1..n) /\ Cardinality(1..n) = IF 1 > n THEN 0 ELSE n - 1 + 1
        BY <4>1, FS_Interval
      <4>3. Cardinality(1..n) = n
        BY <4>1, <4>2
      <4> QED BY <4>2, <4>3 DEF n
    <3> QED BY <2>2, <3>1, ReplayShrinks
  <2>7. Len(mshr_file_') <= MSHREntries
    BY <1>0, <2>5, <2>6, DCacheAssumption
  <2>8. MissTypes'
    BY <2>1, <2>4, <2>5, <2>7 DEF CacheTypes, MissTypes, Insts
  <2> QED BY <2>1, <2>8 DEF CacheTypes, PipelineTypes, LineTypes, Insts
<1> QED BY <1>1, <1>2

\* The arbiter and the clock.
LEMMA CacheTypesClock ==
    ASSUME IInv, CacheTypes, CacheArbitrates \/ nextPhase
    PROVE  CacheTypes'
<1>0. {Empty} \subseteq {Empty} \cup [uid : Insts, refill : BOOLEAN]
  OBVIOUS
<1>1. CASE CacheArbitrates
  <2> DEFINE e == IF l2_mem_access_info_ # 0 THEN [uid |-> l2_mem_access_info_, refill |-> TRUE]
                  ELSE [uid |-> lsu_mem_access_info_, refill |-> FALSE]
  <2>1. /\ UNCHANGED <<phase, pid, cache_due, mshr_file_, l2cache_req, l1_cache_>>
        /\ phase = "late" /\ cache_pipeline_' = [cache_pipeline_ EXCEPT !.LOOKUP = e]
        /\ l2_mem_access_info_' = 0 /\ uev_mshr_request_' = uev_mshr_request_ \cup {1}
    BY <1>1 DEF CacheArbitrates, arbitrateL2LsuReq, instVars, dueVars
  <2>2. lsu_mem_access_info_ \in {0} \cup Insts /\ l2_mem_access_info_ \in {0} \cup Insts
    BY DEF IInv, HeldInv, InCache, CacheTypes, PipelineTypes
  <2>3. e \in {Empty} \cup [uid : Insts, refill : BOOLEAN]
    BY <2>2 DEF Empty
  <2> HIDE DEF e
  <2>4. cache_due = {}
    BY <2>1 DEF CacheTypes, PipelineTypes
  <2>5. PipelineTypes'
    BY <2>1, <2>2, <2>3, <2>4 DEF CacheTypes, PipelineTypes, Insts
  <2> QED BY <2>1, <2>5 DEF CacheTypes, MissTypes, LineTypes, Insts
<1>2. CASE nextPhase
  <2>0. UNCHANGED <<pid, l2_mem_access_info_, l2cache_req, mshr_file_, l1_cache_>>
    BY <1>2 DEF nextPhase, AdvanceCachePipeline, dcacheVars, instVars
  <2>1. LineTypes' /\ DOMAIN cache_pipeline_ = {"LOOKUP", "DATA_READ"}
    BY <2>0 DEF CacheTypes, LineTypes, PipelineTypes
  <2>2. phase \in {"port", "flush", "tick", "late"} /\ phase' = NextOf[phase] /\ PhaseDone
    BY <1>2 DEF nextPhase, IInv, MessageInv
  <2>3. CASE phase = "tick"
    <3>1. /\ cache_pipeline_' = [LOOKUP |-> Empty, DATA_READ |-> cache_pipeline_.LOOKUP]
          /\ cache_due' = {} /\ phase' = "late" /\ uev_mshr_request_' = uev_mshr_request_
          /\ 0 \notin uev_mshr_request_
      BY <1>2, <2>2, <2>3 DEF nextPhase, AdvanceCachePipeline, PhaseDone, StagesDone, NextOf
    <3>2. cache_pipeline_.LOOKUP \in {Empty} \cup [uid : Insts, refill : BOOLEAN]
      BY DEF CacheTypes, PipelineTypes
    <3>3. cache_pipeline_' \in [{"LOOKUP", "DATA_READ"} -> {Empty} \cup [uid : Insts, refill : BOOLEAN]]
      BY <3>1, <3>2
    <3>4. PipelineTypes'
      BY <2>0, <3>1, <3>3 DEF CacheTypes, PipelineTypes, Insts
    <3> QED BY <2>0, <2>1, <3>1, <3>4 DEF CacheTypes, MissTypes, Insts
  <2>4. CASE phase = "late"
    <3>1. /\ cache_pipeline_' = cache_pipeline_ /\ cache_due' = {} /\ phase' = "port"
          /\ uev_mshr_request_' = {d - 1 : d \in uev_mshr_request_} /\ 0 \notin uev_mshr_request_
      BY <1>2, <2>2, <2>4 DEF nextPhase, NextOf, CacheTypes, MissTypes
    <3>2. uev_mshr_request_ \subseteq {1}
      BY <3>1 DEF CacheTypes, MissTypes
    <3>3. uev_mshr_request_' \subseteq 0..1
      BY <3>1, <3>2
    <3> QED BY <2>0, <2>1, <3>1, <3>3 DEF CacheTypes, PipelineTypes, MissTypes, Insts
  <2>5. CASE phase \in {"port", "flush"}
    <3>1. /\ UNCHANGED <<cache_pipeline_, uev_mshr_request_>> /\ phase' # "late"
          /\ cache_due' = IF phase = "flush" THEN {st \in {"LOOKUP", "DATA_READ"} : cache_pipeline_[st] # Empty}
                          ELSE {}
          /\ phase = "flush" => phase' = "tick"
      BY <1>2, <2>1, <2>2, <2>5 DEF nextPhase, NextOf, dcacheVars
    <3>2. PipelineTypes'
      BY <2>0, <3>1 DEF CacheTypes, PipelineTypes, Insts
    <3> QED BY <2>0, <2>1, <3>1, <3>2 DEF CacheTypes, MissTypes, Insts
  <2> QED BY <2>2, <2>3, <2>4, <2>5
<1> QED BY <1>1, <1>2

\* The copy of a request has a register that is in the file.
CopyTypes == l2_copy \subseteq {l2cache_req} /\ l2_copy \subseteq Range(mshr_file_)

\* The L2 cache copies a request, and only the copy changes.
LEMMA CopyIs ==
    ASSUME L2CopiesRequest
    PROVE  /\ UNCHANGED <<phase, program, pid, cache_due, cache_pipeline_, l2_mem_access_info_,
                          l2cache_req, mshr_file_, uev_mshr_request_, l1_cache_>>
           /\ l2_copy' = {l2cache_req} /\ l2cache_req \in Range(mshr_file_)
  BY DEF L2CopiesRequest, createReq, instVars, dueVars, ToSet, Range

\* Every step keeps the copy.
LEMMA CopyTypesNext ==
    ASSUME TraceGiven, IInv, CacheTypes, CopyTypes, [Next]_vars
    PROVE  CopyTypes'
<1>0. l2_copy \subseteq {l2cache_req} /\ l2_copy \subseteq Range(mshr_file_)
  BY DEF CopyTypes
<1>1. CASE CacheIdle \/ UNCHANGED vars
  BY <1>0, <1>1, CacheIdleIs DEF CopyTypes
<1>2. CASE DispatchSends \/ CacheArbitrates \/ nextPhase
  <2>1. UNCHANGED <<l2cache_req, l2_copy, mshr_file_>>
    BY <1>2 DEF DispatchSends, CacheArbitrates, arbitrateL2LsuReq, nextPhase, AdvanceCachePipeline,
                dcacheVars
  <2> QED BY <1>0, <2>1 DEF CopyTypes
<1>3. CASE CacheLooksUp
  <2> DEFINE u == cache_pipeline_.LOOKUP.uid
  <2>1. /\ UNCHANGED <<l2cache_req, l2_copy>>
        /\ mshr_file_' = mshr_file_ \/ mshr_file_' = Append(mshr_file_, u)
    BY <1>3 DEF CacheLooksUp, handleLookup, dcacheVars
  <2>2. IsSequence(mshr_file_)
    BY DEF CacheTypes, MissTypes
  <2> HIDE DEF u
  <2>3. Range(Append(mshr_file_, u)) = Range(mshr_file_) \cup {u}
    BY <2>2, AppendIsSequence
  <2> QED BY <1>0, <2>1, <2>3 DEF CopyTypes
<1>4. CASE CacheReads
  <2> DEFINE u == cache_pipeline_.DATA_READ.uid
  <2>1. /\ mshr_file_' = mshr_file_
        /\ \/ UNCHANGED <<l2cache_req, l2_copy>>
           \/ l2cache_req' = u /\ l2_copy' = {u} \cap ToSet(mshr_file_)
    BY <1>4 DEF CacheReads, handleDataRead, handleDataReadRefill, dcacheVars
  <2>2. ToSet(mshr_file_) = Range(mshr_file_)
    BY DEF ToSet, Range
  <2> QED BY <1>0, <2>1, <2>2 DEF CopyTypes
<1>5. CASE CacheAsksL2
  <2>1. /\ mshr_file_' = mshr_file_
        /\ \/ UNCHANGED <<l2cache_req, l2_copy>>
           \/ /\ mshr_file_ # << >> /\ l2cache_req' = Head(mshr_file_)
              /\ l2_copy' = {Head(mshr_file_)}
    BY <1>5 DEF CacheAsksL2, mshrRequest
  <2>2. mshr_file_ # << >> => Head(mshr_file_) \in Range(mshr_file_)
    BY TailFacts DEF CacheTypes, MissTypes, IsSequence
  <2> QED BY <1>0, <2>1, <2>2 DEF CopyTypes
<1>6. CASE L2Responds
  BY <1>6 DEF L2Responds, receiveRespFromL2Cache, CopyTypes
<1>7. CASE L2CopiesRequest
  BY <1>7, CopyIs DEF CopyTypes
<1> QED
  BY <1>1, <1>2, <1>3, <1>4, <1>5, <1>6, <1>7 DEF CacheIdle, Next, Messages, LSUSteps, OtherSteps

\* Stages, replays and callbacks are formed, handlers run for stages, and the trace goes on
\* up to its end.
UnitTypes == /\ Formed(lsu) /\ stages_due \subseteq Stages
             /\ next_pid <= Len(program) + 1

TypesInv == UnitTypes /\ MMUTypes /\ CacheTypes /\ CopyTypes

\* The types of LSU stay in every step.
LEMMA UnitTypesNext ==
    ASSUME TraceGiven, IInv, UnitTypes, [Next]_vars
    PROVE  UnitTypes'
<1>1. Formed(lsu)'
  <2>1. Formed(lsu')
    BY FormedNext DEF UnitTypes
  <2> QED BY <2>1 DEF Formed, Shaped
<1>2. program' = program
  BY TraceStays
<1>3. next_pid \in Nat /\ Len(program) \in Nat
  BY TraceIsSeq DEF IInv, MessageInv
<1>4. stages_due' \subseteq Stages /\ next_pid' <= Len(program) + 1
  <2>0. stages_due \subseteq Stages /\ next_pid <= Len(program) + 1
    BY DEF UnitTypes
  <2>1. CASE \/ Messages \/ OperandArrives \/ Retire \/ L2Responds \/ L2CopiesRequest
             \/ UNCHANGED vars
    BY <2>0, <2>1 DEF Messages, LSUReceives, LSUGetsAck, LSUGetsTranslation, ScoreboardUpdate,
       OperandArrives, Retire, L2Responds, L2CopiesRequest, vars, dueVars, envVars
  <2>2. CASE CalculatesAddress \/ LooksUpMMU \/ LooksUpCache \/ ReadsCache \/ Completes
    <3>1. \E st, u : AtStage(st, u)
      BY <2>2 DEF CalculatesAddress, LooksUpMMU, LooksUpCache, ReadsCache, Completes
    <3> QED BY <2>0, <3>1 DEF AtStage
  <2>3. CASE AppendsReady \/ ReplaysReady \/ Issues \/ OtherSteps
    BY <2>0, <2>3 DEF AppendsReady, ReplaysReady, Issues, OtherSteps, MMULoadsEntry, CacheLooksUp,
       CacheReads, AtCacheStage, CacheAsksL2, CacheArbitrates, dueVars, envVars
  <2>4. CASE nextPhase
    BY <2>0, <2>4 DEF nextPhase, envVars
  <2>5. CASE DispatchSends
    <3>1. next_pid' = next_pid + 1 /\ next_pid <= Len(program) /\ stages_due' = stages_due
      BY <2>5 DEF DispatchSends, dueVars
    <3> QED BY <1>3, <2>0, <3>1
  <2>6. CASE Flush
    <3>1. PICK b \in Nat : next_pid' = b /\ b < next_pid /\ UNCHANGED dueVars
      BY <2>6, FlushIs
    <3> QED BY <1>3, <2>0, <3>1 DEF dueVars
  <2> QED BY <2>1, <2>2, <2>3, <2>4, <2>5, <2>6 DEF Next, LSUSteps
<1> QED BY <1>1, <1>2, <1>4 DEF UnitTypes

\* Types at the beginning.
LEMMA InitTypesInv ==
    ASSUME Init
    PROVE  TypesInv
<1>1. Insts = {} /\ phase = "port" /\ TraceGiven
  BY DEF Init, Insts, TraceGiven
<1>2. lsu = IdleLSU
  BY DEF Init
<1>3. lsu.replays = {} /\ lsu.callbacks = {} /\ lsu.pipeline = [st \in Stages |-> 0]
  BY <1>2 DEF IdleLSU
<1>4. Formed(lsu)
  <2>1. Shaped(lsu)
    BY <1>2, <1>3 DEF Shaped
  <2>2. lsu.pipeline = [st \in Stages |-> lsu.pipeline[st]]
    BY <1>3
  <2> QED BY <1>3, <2>1, <2>2 DEF Formed
<1>5. UnitTypes
  <2>1. Len(program) \in Nat
    BY <1>1, TraceIsSeq
  <2> QED BY <1>4, <2>1 DEF Init, UnitTypes
<1>6. IsFiniteSet({}) /\ Cardinality({}) = 0
  BY FS_EmptySet
<1>7. MMUTypes
  BY <1>6, MMUAssumption DEF Init, MMUTypes
<1>8. PipelineTypes
  BY DEF Init, PipelineTypes
<1>9. MissTypes
  BY EmptyIsSequence, DCacheAssumption DEF Init, MissTypes
<1>10. LineTypes
  BY <1>6, DCacheAssumption DEF Init, LineTypes
<1>11. CopyTypes
  BY DEF Init, CopyTypes
<1> QED BY <1>5, <1>7, <1>8, <1>9, <1>10, <1>11 DEF TypesInv, CacheTypes

\* Every step keeps them.
LEMMA NextTypesInv ==
    ASSUME TraceGiven, IInv, TypesInv, [Next]_vars
    PROVE  TypesInv'
<1>1. UnitTypes' /\ MMUTypes'
  BY UnitTypesNext, MMUTypesNext DEF TypesInv
<1>2. L2CopiesRequest => CacheTypes'
  BY CopyIs DEF TypesInv, CacheTypes, PipelineTypes, MissTypes, LineTypes, Insts
<1>3. ~L2CopiesRequest => CacheTypes'
  BY CacheTypesIdle, CacheTypesDispatch, CacheTypesLookup, CacheTypesRead, CacheTypesL2,
     CacheTypesClock DEF TypesInv, CacheIdle, Next, Messages, LSUSteps, OtherSteps
<1>4. CopyTypes'
  BY CopyTypesNext DEF TypesInv
<1> QED BY <1>1, <1>2, <1>3, <1>4 DEF TypesInv

\* What the invariants say is what TypeOK says.
LEMMA TypesFollow ==
    ASSUME TraceGiven, IInv, LInv, TypesInv
    PROVE  TypeOK
<1> USE DEF IInv, TypesInv
<1>1. phase \in DOMAIN NextOf /\ program \in {s.program : s \in Setups}
  BY DEF MessageInv, NextOf, TraceGiven
<1>2. stages_due \subseteq Stages /\ cache_due \subseteq DOMAIN cache_pipeline_
  BY DEF UnitTypes, CacheTypes, PipelineTypes
<1>3. Len(status) = Len(pid) /\ Len(mem) = Len(pid)
  BY DEF MessageInv
<1>4. \A u \in Insts : /\ pid[u] \in DOMAIN program /\ mem[u] \in AccessType
                       /\ status[u] \in InstStatus
  BY InstFacts
<1>5. Cardinality(tlb_cache_) <= TLBEntries /\ uev_lookup_inst_ \subseteq 0..MMULatency
  BY DEF MMUTypes
<1>6. mmu_pending_inst_ \in {0} \cup Insts /\ (mmu_pending_inst_ = 0) = (uev_lookup_inst_ = {})
  BY DEF HeldInv, LInv, TranslationInv
<1>7. mmu_ready \subseteq Insts
  BY DEF HeldInv, LInv, TranslationInv
<1>8. {lsu_mem_access_info_, l2_mem_access_info_, l2cache_req} \subseteq {0} \cup Insts
  BY DEF HeldInv, InCache, CacheTypes, PipelineTypes
<1>9. cache_pipeline_ \in [{"LOOKUP", "DATA_READ"} -> [uid : {0} \cup Insts, refill : BOOLEAN]]
  <2>1. \A st \in {"LOOKUP", "DATA_READ"} :
           cache_pipeline_[st] \in [uid : {0} \cup Insts, refill : BOOLEAN]
    BY PipelineFacts DEF CacheTypes
  <2> QED BY <2>1 DEF CacheTypes, PipelineTypes
<1>10. /\ IsInjective(mshr_file_) /\ ToSet(mshr_file_) \subseteq Insts
       /\ Len(mshr_file_) <= MSHREntries /\ uev_mshr_request_ \subseteq 0..1
       /\ Cardinality(l1_cache_) <= DCacheLines
  BY DEF CacheTypes, MissTypes, LineTypes, Distinct, IsInjective, ToSet, Range
<1>11. lsu.queue \cup lsu.ready \cup lsu.replay \cup lsu.append \subseteq Insts
  <2>1. Shaped(lsu)
    BY DEF HeldInv
  <2>2. lsu.ready \cup lsu.replay \cup lsu.append \subseteq Working(lsu)
    BY <2>1, WorkingIs
  <2> QED BY <2>2 DEF HeldInv
<1>12. lsu.stores \subseteq {u \in lsu.queue : isStore(u)}
  BY DEF LInv, StoreInv
<1>13. Cardinality(lsu.queue) <= QueueSize /\ credits \in 0..QueueSize
  <2>1. Cardinality(lsu.queue) \in Nat
    BY <1>11, QueueFinite
  <2>2. Len(to_lsu) \in Nat
    BY SeqFacts DEF MessageInv
  <2>3. credits \in Nat /\ QueueSize \in Nat
    BY LSUAssumption DEF MessageInv
  <2> QED BY <2>1, <2>2, <2>3 DEF CreditsConserved
<1>14. Cardinality(lsu.replay) <= ReplayBufferSize /\ lsu.issue \subseteq 0..1
  BY DEF LInv, ReadyInv, Orderly
<1>15. lsu.pipeline \in [Stages -> {0} \cup Insts]
  <2>1. \A st \in Stages : lsu.pipeline[st] \in {0} \cup Insts
    BY StagedInst
  <2>2. lsu.pipeline = [st \in Stages |-> lsu.pipeline[st]]
    BY DEF UnitTypes, Formed
  <2> QED BY <2>1, <2>2
<1>16. lsu.replays \subseteq [uid : Insts, due : 0..ReplayIssueDelay]
  <2> SUFFICES ASSUME NEW e \in lsu.replays PROVE e \in [uid : Insts, due : 0..ReplayIssueDelay]
    OBVIOUS
  <2>1. e = [uid |-> e.uid, due |-> e.due]
    BY DEF UnitTypes, Formed
  <2>2. e.due \in 0..ReplayIssueDelay
    BY DEF LInv, ReadyInv, Orderly
  <2>3. Shaped(lsu)
    BY DEF HeldInv
  <2>4. e.uid \in Working(lsu)
    BY <2>3, WorkingIs
  <2>5. e.uid \in Insts
    BY <2>4 DEF HeldInv
  <2> QED BY <2>1, <2>2, <2>5
<1>17. lsu.callbacks \subseteq [uid : Insts, reg : Nat]
  <2> SUFFICES ASSUME NEW c \in lsu.callbacks PROVE c \in [uid : Insts, reg : Nat]
    OBVIOUS
  <2>1. c = [uid |-> c.uid, reg |-> c.reg] /\ c.reg \in Nat
    BY DEF UnitTypes, Formed
  <2>2. c.uid \in Insts
    BY DEF HeldInv
  <2> QED BY <2>1, <2>2
<1>18. next_pid \in 1..Len(program) + 1
  <2>1. Len(program) \in Nat
    BY TraceIsSeq
  <2> QED BY <2>1 DEF MessageInv, UnitTypes
<1>19. l2_copy \subseteq {l2cache_req} \cap ToSet(mshr_file_)
  BY DEF CopyTypes, ToSet, Range
<1> HIDE DEF IInv, TypesInv
<1> QED
  BY <1>1, <1>2, <1>3, <1>4, <1>5, <1>6, <1>7, <1>8, <1>9, <1>10, <1>11, <1>12, <1>13, <1>14,
     <1>15, <1>16, <1>17, <1>18, <1>19 DEF TypeOK

\* Types and sizes of LSU, MMU and DCache, for every trace, mode and size: no buffer, TLB,
\* cache or file of miss registers holds more than it has room for (the capacities that
\* ldst_inst_queue_, replay_buffer_ and mshr_file_ are made with), and no instruction has two
\* miss registers.
THEOREM UnitTypesHold == Spec => []TypeOK
<1>1. Init => TypesInv
  BY InitTypesInv
<1>2. TypesInv /\ (TraceGiven /\ IInv /\ LInv) /\ [Next]_vars => TypesInv'
  BY NextTypesInv
<1>3. TraceGiven /\ IInv /\ LInv /\ TypesInv => TypeOK
  BY TypesFollow
<1> QED BY <1>1, <1>2, <1>3, UnitInvariant, PTL DEF Spec

-----------------------------------------------------------------------------
(* The assertions of LSU.  The one of completeInst_, that what completes   *)
(* has hit in the cache, depends on the cache: an instruction may ask it   *)
(* twice (see the README), and its second lookup may miss.                 *)

\* What completes may complete if it has hit in the cache.
LEMMA MayCompleteIf ==
    ASSUME IInv, LInv, NEW u \in Insts, AtStage(COMPLETE, u)
    PROVE  mem[u].data /\ (mem[u].cache = "HIT" => MayComplete(u))
<1>1. u # 0 /\ u = lsu.pipeline[COMPLETE]
  BY DEF AtStage
<1>2. mem[u].data
  BY <1>1 DEF LInv, StageInv
<1>3. mem[u].phy
  BY <1>2 DEF LInv, InstInv, Used
<1> QED BY <1>2, <1>3 DEF MayComplete

\* No step breaks an assertion, unless something completes that has not hit in the cache.
LEMMA AssertionStep ==
    ASSUME TraceGiven, IInv, LInv, lsu.ok, [Next]_vars
    PROVE  lsu'.ok \/ (Completes /\ \E u \in Insts : AtStage(COMPLETE, u) /\ mem[u].cache # "HIT")
<1>0. ReadyInv /\ InstInv /\ StoreInv /\ TranslationInv /\ Shaped(lsu) /\ Orderly(lsu)
  BY DEF LInv, ReadyInv, IInv, HeldInv
<1>1. CASE CalculatesAddress \/ AppendsReady \/ ReplaysReady
  BY <1>0, <1>1, EventsKeep DEF Keeps
<1>2. CASE LSUGetsTranslation \/ LSUGetsAck \/ LSUReceives
  BY <1>0, <1>2, TranslationKeeps, AckKeeps, ReceiveKeeps DEF Keeps
<1>3. CASE OperandArrives \/ ScoreboardUpdate
  <2>1. PICK r : RegisterReady(r)
    BY <1>3, RegisterStep
  <2> DEFINE us == {c.uid : c \in {d \in lsu.callbacks : d.reg = r}}
  <2>2. Keeps(lsu, lsu', us)
    BY <1>0, <2>1, RegisterKeeps
  <2> QED BY <2>2 DEF Keeps
<1>4. CASE LooksUpMMU \/ LooksUpCache \/ ReadsCache
  BY <1>0, <1>4, LookupKeeps, CacheLookupKeeps, CacheReadKeeps DEF Keeps, LooksUpMMU, LooksUpCache, ReadsCache
<1>5. CASE CacheLooksUp \/ CacheReads
  BY <1>0, <1>5, CacheKeeps DEF Keeps
<1>6. CASE Issues
  BY <1>0, <1>6, IssuesIs
<1>7. CASE nextPhase
  BY <1>0, <1>7, ClockIs
<1>8. CASE Flush
  <2>1. PICK us : lsu' = handleFlush(lsu, us)
    BY <1>8 DEF Flush
  <2> QED BY <1>0, <2>1, FlushKeeps
<1>9. CASE Completes
  <2>1. PICK u \in Insts : AtStage(COMPLETE, u) /\ completeInst(u)
    BY <1>9, Zenon DEF Completes
  <2>2. mem[u].data /\ (mem[u].cache = "HIT" => MayComplete(u))
    BY <2>1, MayCompleteIf
  <2>3. MayComplete(u) => lsu'.ok
    BY <1>0, <2>1, <2>2, CompleteStays
  <2> QED BY <1>9, <2>1, <2>2, <2>3
<1>10. CASE MMULoadsEntry \/ CacheAsksL2 \/ CacheArbitrates \/ DispatchSends \/ Retire \/ L2Responds
            \/ L2CopiesRequest \/ UNCHANGED vars
  BY <1>10 DEF MMULoadsEntry, CacheAsksL2, CacheArbitrates, DispatchSends, Retire, L2Responds,
               L2CopiesRequest, vars
<1> QED
  BY <1>1, <1>2, <1>3, <1>4, <1>5, <1>6, <1>7, <1>8, <1>9, <1>10
  DEF Next, Messages, LSUSteps, OtherSteps

\* No assertion of LSU fails but one (LSU::appendToReadyQueue_, issueInst_,
\* updateIssuePriorityAfterStoreInstRetire_, completeInst_), for every trace, mode, size and
\* cache: what completes has hit in the cache unless it passes the pipeline again and its
\* second lookup missed.
THEOREM AssertionsAreExact == Spec => AssertionsHold
<1>1. TraceGiven /\ IInv /\ LInv /\ HistoryInv /\ [Next]_vars
         => [lsu.ok => lsu'.ok \/ (Completes /\ lsu.pipeline[COMPLETE] \in spoiled)]_vars
  <2> SUFFICES ASSUME TraceGiven, IInv, LInv, HistoryInv, [Next]_vars, lsu.ok, ~lsu'.ok
               PROVE  Completes /\ lsu.pipeline[COMPLETE] \in spoiled
    OBVIOUS
  <2>1. Completes /\ \E u \in Insts : AtStage(COMPLETE, u) /\ mem[u].cache # "HIT"
    BY AssertionStep
  <2>2. PICK u \in Insts : AtStage(COMPLETE, u) /\ mem[u].cache # "HIT"
    BY <2>1
  <2>3. mem[u].data /\ u = lsu.pipeline[COMPLETE]
    BY <2>2, MayCompleteIf DEF AtStage
  <2> QED BY <2>1, <2>2, <2>3 DEF HistoryInv
<1> QED BY <1>1, UnitInvariant, HistoryHolds, UnitTypesHold, PTL DEF Spec, AssertionsHold

=============================================================================
