---------------------------- MODULE ScriptsProofs ----------------------------
(* What the scripts gather and what they make of it, for any sources, pages,  *)
(* packages and faults.  No two of them share state: each has an inductive   *)
(* invariant of its own.                                                      *)
EXTENDS ApiScripts, FiniteSetTheorems, SequenceTheorems, WellFoundedInduction, TLAPS

\* A set of natural numbers that is not empty has a least one.
LEMMA LeastNatural ==
    ASSUME NEW T \in SUBSET Nat, T # {}
    PROVE  \E n \in T : \A m \in T : n <= m
<1> DEFINE R == OpToRel(<, Nat)
<1>1. IsWellFoundedOn(R, Nat)
  BY NatLessThanWellFounded
<1>2. PICK n \in T : \A m \in T : ~(<<m, n>> \in R)
  BY <1>1, WFMin
<1>3. \A m \in T : m \in Nat /\ ~(m < n)
  BY <1>2 DEF OpToRel
<1>4. n \in Nat
  OBVIOUS
<1> QED  BY <1>3, <1>4

\* A finite one has a greatest: the least bound above which there is nothing.
LEMMA GreatestNatural ==
    ASSUME NEW T \in SUBSET Nat, T # {}, IsFiniteSet(T)
    PROVE  \E n \in T : \A m \in T : m <= n
<1> DEFINE above(n) == {m \in T : m > n}
           sizes == {Cardinality(above(n)) : n \in T}
<1>1. \A n \in T : IsFiniteSet(above(n)) /\ Cardinality(above(n)) \in Nat
  BY FS_Subset, FS_CardinalityType
<1>2. sizes \in SUBSET Nat /\ sizes # {}
  BY <1>1
<1>3. PICK k \in sizes : \A l \in sizes : k <= l
  BY <1>2, LeastNatural
<1>4. PICK n \in T : k = Cardinality(above(n))
  OBVIOUS
<1>5. ASSUME NEW m \in T, m > n PROVE FALSE
  <2>1. m \in Nat /\ n \in Nat /\ \A x \in T : x \in Nat
    OBVIOUS
  <2>2. above(m) \subseteq above(n) /\ m \in above(n) /\ m \notin above(m)
    <3>1. (\A x \in T : x > m => x > n) /\ ~(m > m)
      BY <1>5, <2>1
    <3> QED  BY <1>5, <3>1
  <2>3. Cardinality(above(m)) \in sizes /\ Cardinality(above(n)) \in Nat /\ Cardinality(above(m)) \in Nat
    BY <1>1
  <2>4. IsFiniteSet(above(n))
    BY <1>1
  <2> HIDE DEF above, sizes
  <2>5. Cardinality(above(m)) < Cardinality(above(n))
    BY <2>2, <2>3, <2>4, FS_Subset
  <2> QED  BY <1>3, <1>4, <2>3, <2>5
<1> QED  BY <1>5

-----------------------------------------------------------------------------
(* IndexNow.  As long as the state is that of the last run, it knows what  *)
(* the engines were told, and a pass in progress has sent all that was      *)
(* there since it began up to its cursor.                                   *)
Followed ==
    lost = "no" =>
        /\ indexState = {} => indexed = {}
        /\ \A st \in indexState : indexed \subseteq st.known

Passed ==
    /\ pass.there \subseteq sitemap
    /\ lost = "no" => \A st \in indexState : st.cycle # NoCycle =>
          \A u \in pass.there : u <= st.cycle.cursor => u \in pass.sent

OneState ==
    /\ \A a, b \in indexState : a = b
    /\ \A a, b \in saved : a = b

IndexInv == IndexTypeOK /\ KnownIsTrue /\ Followed /\ Passed /\ OneState

\* What is sent of a pass is its beginning: what comes before something that is sent
\* is sent too.
LEMMA TakenFirst ==
    ASSUME NEW S \in SUBSET IndexPages, NEW k \in Int
    PROVE  /\ Take(S, k) \subseteq S
           /\ \A u \in Take(S, k) : \A v \in S : v < u => v \in Take(S, k)
<1> DEFINE below(u) == {v \in S : v < u}
<1>1. IsFiniteSet(S) /\ S \subseteq Nat
  BY IndexNowAssumption, FS_Subset
<1>2. ASSUME NEW u \in Take(S, k), NEW v \in S, v < u PROVE v \in Take(S, k)
  <2>1. u \in Nat /\ v \in Nat /\ \A x \in S : x \in Nat
    <3>1. u \in S
      BY DEF Take
    <3> QED  BY <1>1, <3>1
  <2>2. below(v) \subseteq below(u) /\ IsFiniteSet(below(u)) /\ IsFiniteSet(below(v))
    <3>1. \A x \in S : x < v => x < u
      BY <1>2, <2>1
    <3>2. below(v) \subseteq below(u) /\ below(u) \subseteq S
      BY <3>1
    <3> QED  BY <1>1, <3>2, FS_Subset
  <2>3. Cardinality(below(v)) <= Cardinality(below(u))
    BY <2>2, FS_Subset
  <2>4. Cardinality(below(v)) \in Nat /\ Cardinality(below(u)) \in Nat
    BY <2>2, FS_CardinalityType
  <2>5. Cardinality(below(u)) < k
    BY DEF Take
  <2>6. Cardinality(below(v)) < k
    <3> HIDE DEF below
    <3> QED  BY <2>3, <2>4, <2>5
  <2> QED  BY <2>6 DEF Take
<1> QED  BY <1>2 DEF Take

\* The last page of a set that is sent.
LEMMA LastIsLast ==
    ASSUME NEW S \in SUBSET IndexPages, S # {}
    PROVE  LastPage(S) \in S /\ \A u \in S : u <= LastPage(S)
<1>1. S \in SUBSET Nat /\ IsFiniteSet(S)
  BY IndexNowAssumption, FS_Subset
<1>2. \E u \in S : \A v \in S : v <= u
  BY <1>1, GreatestNatural
<1> QED  BY <1>2 DEF LastPage

\* What a run reads of its state.
LEMMA RunIsTyped ==
    ASSUME NEW st \in State, sitemap \subseteq IndexPages,
           NEW mode \in {"daily", "flush"}, NEW limit \in Limits \union {MaxPerRun}
    PROVE  /\ CycleOf(st, mode) \in [kind : {"release", "rotation"}, cursor : {0} \union IndexPages]
           /\ mode = "flush" => CycleOf(st, mode).cursor = 0
           /\ st.cycle = NoCycle => CycleOf(st, mode).cursor = 0
           /\ mode # "flush" /\ st.cycle # NoCycle => CycleOf(st, mode) = st.cycle
           /\ RemovedSent(st, limit) \subseteq st.known \ sitemap
           /\ FreshSent(st, mode, limit) \subseteq sitemap \ st.known
           /\ Room(st, mode, limit) \in Nat
<1>1. /\ limit \in Nat /\ MaxPerRun \in Nat /\ ReleaseBudget \in Nat /\ RotationBudget \in Nat
      /\ IsFiniteSet(IndexPages)
  BY IndexNowAssumption
<1>2. st.cycle \in Cycle /\ st.known \in SUBSET IndexPages
  BY DEF State
<1>3. CycleOf(st, mode) \in [kind : {"release", "rotation"}, cursor : {0} \union IndexPages]
  BY <1>2 DEF CycleOf, Cycle, NoCycle
<1>4. RemovedPages(st) \in SUBSET IndexPages /\ NewPages(st) \in SUBSET IndexPages
  BY <1>2 DEF RemovedPages, NewPages
<1>5. RemovedSent(st, limit) \subseteq st.known \ sitemap
  BY DEF RemovedSent, Take, RemovedPages
<1>6. FreshSent(st, mode, limit) \subseteq sitemap \ st.known
  BY DEF FreshSent, Take, NewPages
<1>7. IsFiniteSet(RemovedSent(st, limit)) /\ IsFiniteSet(FreshSent(st, mode, limit))
  BY <1>1, <1>2, <1>5, <1>6, FS_Subset
<1>8. Cardinality(RemovedSent(st, limit)) \in Nat /\ Cardinality(FreshSent(st, mode, limit)) \in Nat
  BY <1>7, FS_CardinalityType
<1>9. Budget(CycleOf(st, mode), limit) \in Nat
  BY <1>1 DEF Budget, LowerThan
<1>10. Room(st, mode, limit) \in Nat
  BY <1>8, <1>9 DEF Room
<1> QED  BY <1>3, <1>5, <1>6, <1>10 DEF CycleOf

\* The window is what comes next: after the cursor, before what is left.
LEMMA WindowIsNext ==
    ASSUME NEW st \in State, sitemap \subseteq IndexPages,
           NEW mode \in {"daily", "flush"}, NEW limit \in Limits \union {MaxPerRun}
    PROVE  LET W == Window(st, mode, limit)
               cursor == CycleOf(st, mode).cursor
           IN /\ W \subseteq sitemap
              /\ \A u \in W : u > cursor
              /\ W # {} => LastPage(W) \in W
              /\ \A u \in sitemap : u > cursor /\ u \notin W =>
                    \A v \in W : u > v
<1> DEFINE W == Window(st, mode, limit)
           cursor == CycleOf(st, mode).cursor
           S == Above(sitemap, cursor)
           k == Room(st, mode, limit)
<1>1. S \in SUBSET IndexPages /\ S \subseteq sitemap /\ k \in Int /\ W = Take(S, k)
  BY RunIsTyped DEF Above, Window
<1>2. W \subseteq S /\ \A u \in W : \A v \in S : v < u => v \in W
  <2> HIDE DEF S, k
  <2> QED  BY <1>1, TakenFirst
<1>3. \A u \in W : u > cursor
  BY <1>2 DEF Above
<1>4. W # {} => LastPage(W) \in W
  BY <1>1, <1>2, LastIsLast
<1>5. ASSUME NEW u \in sitemap, u > cursor, u \notin W, NEW v \in W PROVE u > v
  <2>1. u \in S /\ u \in Nat /\ v \in Nat
    BY <1>1, <1>2, <1>5, IndexNowAssumption DEF Above
  <2>2. ~(u < v) /\ u # v
    BY <1>2, <1>5, <2>1
  <2> QED  BY <2>1, <2>2
<1> QED  BY <1>1, <1>2, <1>3, <1>4, <1>5

\* A run leaves what it promises: the state it saves is of pages, what it counts as
\* known was sent or is still ahead of the pass, and the pass has sent what it went by.
LEMMA RunKeeps ==
    ASSUME IndexInv, NEW mode \in {"daily", "flush"}, NEW limit \in Limits \union {MaxPerRun},
           NEW shrink \in BOOLEAN, NEW ok \in BOOLEAN, IndexRun(mode, limit, shrink, ok)
    PROVE  IndexInv'
<1> DEFINE st == Loaded
           W == Window(st, mode, limit)
           removed == RemovedSent(st, limit)
           fresh == FreshSent(st, mode, limit)
           sent == IF ok THEN removed \union fresh \union W ELSE {}
           cycle == CycleOf(st, mode)
           first == cycle.cursor = 0
           saves == ok \/ indexState = {} \/ mode = "flush"
           next == [cycle |-> CycleAfter(st, mode, limit, ok), known |-> KnownAfter(st, mode, sent)]
<1>1. /\ sitemap \subseteq IndexPages /\ indexed \subseteq IndexPages
      /\ indexState \subseteq State /\ saved \subseteq State /\ lost \in {"no", "gone", "old"}
      /\ pass.sent \subseteq IndexPages /\ pass.there \subseteq IndexPages
  BY DEF IndexInv, IndexTypeOK
<1>2. KnownIsTrue /\ Followed /\ Passed /\ OneState
  BY DEF IndexInv
<1>3. /\ indexed' = IF ok THEN (indexed \ removed) \union fresh \union W ELSE indexed
      /\ returned' = returned \ sent
      /\ pass' = [sent |-> (IF first THEN {} ELSE pass.sent) \union (IF ok THEN W ELSE {}),
                  there |-> IF first THEN sitemap ELSE pass.there]
      /\ IF saves THEN indexState' = {next} /\ saved' = indexState
         ELSE indexState' = indexState /\ saved' = saved
      /\ sitemap' = sitemap /\ lost' = lost
  BY DEF IndexRun
<1>4. st \in State /\ (indexState = {} => st = Seed) /\ (indexState # {} => st \in indexState)
  <2>1. CASE indexState = {}
    BY <1>1, <2>1 DEF Loaded, Seed, State, Cycle, NoCycle
  <2>2. CASE indexState # {}
    BY <1>1, <2>2 DEF Loaded
  <2> QED  BY <2>1, <2>2
<1>5. /\ cycle \in [kind : {"release", "rotation"}, cursor : {0} \union IndexPages]
      /\ mode = "flush" => cycle.cursor = 0
      /\ st.cycle = NoCycle => cycle.cursor = 0
      /\ mode # "flush" /\ st.cycle # NoCycle => cycle = st.cycle
      /\ removed \subseteq st.known \ sitemap
      /\ fresh \subseteq sitemap \ st.known
  <2> HIDE DEF st
  <2> QED  BY <1>1, <1>4, RunIsTyped
<1>6. /\ W \subseteq sitemap
      /\ \A u \in W : u > cycle.cursor
      /\ W # {} => LastPage(W) \in W
      /\ \A u \in sitemap : u > cycle.cursor /\ u \notin W => \A v \in W : u > v
  <2> HIDE DEF st
  <2> QED  BY <1>1, <1>4, WindowIsNext
<1>7. \A u \in sitemap : u \in Nat /\ u > 0
  BY <1>1, IndexNowAssumption
<1>8. st.known \subseteq IndexPages
  BY <1>4 DEF State
<1> HIDE DEF st, W, removed, fresh, cycle
\* the cycle that is remembered
<1>9. /\ ok /\ Above(sitemap, cycle.cursor) = W => next.cycle = NoCycle
      /\ ~(ok /\ Above(sitemap, cycle.cursor) = W) =>
            /\ next.cycle = [kind |-> cycle.kind,
                             cursor |-> IF ok /\ W # {} THEN LastPage(W) ELSE cycle.cursor]
            /\ next.cycle # NoCycle
  BY <1>5 DEF CycleAfter, W, cycle, NoCycle
<1>10. next.known = (sitemap \ (IF mode = "flush" THEN {} ELSE (sitemap \ st.known) \ sent))
                    \union ((st.known \ sitemap) \ sent)
  BY DEF KnownAfter, NewPages, RemovedPages
<1> HIDE DEF next
<1>11. next \in State
  <2>1. next.known \subseteq IndexPages
    BY <1>1, <1>8, <1>10
  <2>2. next.cycle \in Cycle
    BY <1>1, <1>5, <1>6, <1>9 DEF Cycle
  <2>3. next = [cycle |-> next.cycle, known |-> next.known]
    BY DEF next
  <2> QED  BY <2>1, <2>2, <2>3 DEF State
<1>12. IndexTypeOK'
  <2>1. indexState' \subseteq State /\ saved' \subseteq State
    BY <1>1, <1>3, <1>11
  <2>2. indexed' \subseteq IndexPages /\ pass'.sent \subseteq IndexPages /\ pass'.there \subseteq IndexPages
    BY <1>1, <1>3, <1>5, <1>6
  <2> QED  BY <1>1, <1>3, <2>1, <2>2 DEF IndexTypeOK
\* what is sent of the sitemap was told
<1>13. \A u \in sitemap : u \in sent => u \in indexed'
  BY <1>3, <1>5
<1>14. \A u \in sitemap : u \in indexed => u \in indexed'
  BY <1>3, <1>5
\* what is still ahead of the pass
<1>15. ASSUME NEW u \in sitemap, u \notin sent, u > cycle.cursor
       PROVE  next.cycle # NoCycle /\ u > next.cycle.cursor
  <2>1. CASE ok
    <3>1. u \notin W
      BY <1>15, <2>1
    <3>2. u \in Above(sitemap, cycle.cursor)
      BY <1>15 DEF Above
    <3>3. \A v \in W : u > v
      BY <1>6, <1>15, <3>1
    <3> QED  BY <1>6, <1>9, <1>15, <3>1, <3>2, <3>3
  <2>2. CASE ~ok
    BY <1>9, <1>15, <2>2
  <2> QED  BY <2>1, <2>2
<1>16. ASSUME saves, lost # "old", NEW u \in next.known \intersect sitemap
       PROVE  u \in indexed' \/ u \in returned' \/ (next.cycle # NoCycle /\ u > next.cycle.cursor)
  <2>1. SUFFICES ASSUME u \notin sent PROVE u \in indexed' \/ u \in returned' \/ u > cycle.cursor
    BY <1>13, <1>15
  <2>2. CASE mode = "flush" \/ indexState = {}
    <3>1. cycle.cursor = 0
      BY <1>4, <1>5, <2>2 DEF Seed
    <3> QED  BY <1>7, <3>1
  <2>3. CASE mode # "flush" /\ indexState # {}
    <3>1. st \in indexState /\ u \in st.known
      BY <1>4, <1>10, <2>1, <2>3
    <3>2. u \in indexed \/ u \in returned \/ (st.cycle # NoCycle /\ u > st.cycle.cursor)
      BY <1>2, <1>16, <3>1 DEF KnownIsTrue
    <3> QED  BY <1>3, <1>5, <1>14, <2>1, <2>3, <3>2
  <2> QED  BY <2>2, <2>3
<1>17. KnownIsTrue'
  <2>1. CASE saves
    BY <1>3, <1>16, <2>1 DEF KnownIsTrue
  <2>2. CASE ~saves
    BY <1>2, <1>3, <2>2 DEF KnownIsTrue
  <2> QED  BY <2>1, <2>2
<1>18. Followed'
  <2> SUFFICES ASSUME lost = "no"
               PROVE  /\ indexState' # {}
                      /\ \A s \in indexState' : indexed' \subseteq s.known
    BY <1>3 DEF Followed
  <2>1. CASE saves
    <3>1. indexed \subseteq st.known
      BY <1>2, <1>4 DEF Followed
    <3>2. ok => sent = removed \union fresh \union W
      OBVIOUS
    <3>3. indexed' \subseteq next.known
      BY <1>3, <1>5, <1>6, <1>10, <3>1, <3>2
    <3> QED  BY <1>3, <2>1, <3>3
  <2>2. CASE ~saves
    BY <1>2, <1>3, <2>2 DEF Followed
  <2> QED  BY <2>1, <2>2
<1>19. Passed'
  <2>1. pass'.there \subseteq sitemap'
    BY <1>2, <1>3 DEF Passed
  <2>2. ASSUME lost = "no", saves, next.cycle # NoCycle, NEW u \in pass'.there, u <= next.cycle.cursor
        PROVE  u \in pass'.sent
    <3>1. u \in sitemap /\ u \in Nat /\ u > 0
      BY <1>3, <1>7, <2>1, <2>2
    <3>2. next.cycle.cursor = IF ok /\ W # {} THEN LastPage(W) ELSE cycle.cursor
      BY <1>9, <2>2
    <3>3. CASE u <= cycle.cursor
      <4>1. ~first /\ mode # "flush" /\ st.cycle # NoCycle /\ cycle = st.cycle /\ u \in pass.there
        BY <1>3, <1>5, <2>2, <3>1, <3>3
      <4>2. indexState # {} /\ st \in indexState
        BY <1>4, <4>1 DEF Seed
      <4>3. u \in pass.sent
        BY <1>2, <2>2, <3>3, <4>1, <4>2 DEF Passed
      <4> QED  BY <1>3, <4>1, <4>3
    <3>4. CASE ~(u <= cycle.cursor)
      <4>1. cycle.cursor \in Nat
        <5>1. cycle.cursor \in {0} \union IndexPages
          BY <1>5
        <5>2. \A x \in {0} \union IndexPages : x \in Nat
          BY IndexNowAssumption
        <5> QED  BY Zenon, <5>1, <5>2
      <4>2. u > cycle.cursor /\ ok /\ W # {} /\ u <= LastPage(W)
        BY <2>2, <3>1, <3>2, <3>4, <4>1
      <4>3. LastPage(W) \in W /\ LastPage(W) \in Nat
        BY <1>6, <1>7, <4>2
      <4>4. u \in W
        BY <1>6, <3>1, <4>2, <4>3
      <4> QED  BY <1>3, <4>2, <4>4
    <3> QED  BY <3>3, <3>4
  <2>3. ASSUME lost = "no", ~saves, NEW s \in indexState', s.cycle # NoCycle,
               NEW u \in pass'.there, u <= s.cycle.cursor
        PROVE  u \in pass'.sent
    <3>1. s \in indexState
      BY <1>3, <2>3
    <3>2. CASE first
      <4>1. u \in sitemap /\ u \in Nat /\ u > 0
        BY <1>3, <1>7, <2>1, <2>3
      <4>2. s = st /\ mode # "flush" /\ ~ok
        BY <1>2, <1>4, <2>3, <3>1 DEF OneState
      <4>3. s.cycle.cursor = 0
        BY <1>5, <2>3, <3>2, <4>2
      <4> QED  BY <2>3, <4>1, <4>3
    <3>3. CASE ~first
      BY <1>2, <1>3, <2>3, <3>1, <3>3 DEF Passed
    <3> QED  BY <3>2, <3>3
  <2> QED  BY <1>3, <2>1, <2>2, <2>3 DEF Passed
<1>20. OneState'
  BY <1>2, <1>3 DEF OneState
<1> QED  BY <1>12, <1>17, <1>18, <1>19, <1>20 DEF IndexInv

\* The invariant holds at first and in every step.
LEMMA IndexInvariant == IndexSafeSpec => []IndexInv
<1>1. IndexInit => IndexInv
  <2> SUFFICES ASSUME IndexInit PROVE IndexInv
    OBVIOUS
  <2> QED  BY DEF IndexInit, IndexInv, IndexTypeOK, KnownIsTrue, Followed, Passed, OneState
<1>2. IndexInv /\ [IndexNext]_indexVars => IndexInv'
  <2> SUFFICES ASSUME IndexInv, [IndexNext]_indexVars PROVE IndexInv'
    OBVIOUS
  <2>1. ASSUME NEW mode \in {"daily", "flush"}, NEW limit \in Limits \union {MaxPerRun},
               NEW shrink \in BOOLEAN, NEW ok \in BOOLEAN, IndexRun(mode, limit, shrink, ok)
        PROVE  IndexInv'
    BY <2>1, RunKeeps
  <2>2. ASSUME LoseState PROVE IndexInv'
    <3>1. indexState' \in {{}, saved} /\ saved' = {} /\ lost' \in {"gone", "old"}
      BY <2>2 DEF LoseState
    <3>2. indexState' = {} \/ lost' = "old"
      BY <2>2 DEF LoseState
    <3>3. sitemap' = sitemap /\ indexed' = indexed /\ pass' = pass
      BY <2>2 DEF LoseState
    <3> QED  BY <3>1, <3>2, <3>3 DEF IndexInv, IndexTypeOK, KnownIsTrue, Followed, Passed, OneState
  <2>3. ASSUME NEW u \in IndexPages, IndexPublish(u) PROVE IndexInv'
    <3>1. /\ u \notin sitemap /\ sitemap' = sitemap \union {u}
          /\ returned' = IF u \notin indexed /\ \E st \in indexState : u \in st.known
                         THEN returned \union {u} ELSE returned
          /\ indexState' = indexState /\ saved' = saved /\ indexed' = indexed /\ lost' = lost /\ pass' = pass
      BY <2>3 DEF IndexPublish
    <3>2. IndexTypeOK' /\ Followed' /\ Passed' /\ OneState'
      BY <3>1 DEF IndexInv, IndexTypeOK, Followed, Passed, OneState
    <3>3. KnownIsTrue'
      BY <3>1 DEF IndexInv, KnownIsTrue
    <3> QED  BY <3>2, <3>3 DEF IndexInv
  <2>4. ASSUME NEW u \in IndexPages, Unpublish(u) PROVE IndexInv'
    <3>1. /\ sitemap' = sitemap \ {u} /\ returned' = returned
          /\ pass' = [pass EXCEPT !.there = @ \ {u}]
          /\ indexState' = indexState /\ saved' = saved /\ indexed' = indexed /\ lost' = lost
      BY <2>4 DEF Unpublish
    <3>2. pass'.there \subseteq pass.there \ {u} /\ (pass'.sent = pass.sent \/ pass'.there = pass.there)
      BY <3>1
    <3> QED  BY <3>1 DEF IndexInv, IndexTypeOK, KnownIsTrue, Followed, Passed, OneState
  <2>5. ASSUME UNCHANGED indexVars PROVE IndexInv'
    BY <2>5 DEF indexVars, IndexInv, IndexTypeOK, KnownIsTrue, Followed, Passed, OneState
  <2> QED  BY <2>1, <2>2, <2>3, <2>4, <2>5 DEF IndexNext
<1> QED  BY <1>1, <1>2, PTL DEF IndexSafeSpec

(* Whatever requests fail, passes restart and states are lost: what counts *)
(* as known was told or is still ahead of the pass, and what was told and   *)
(* has left is remembered (planRun, finalizeRun).                           *)
THEOREM KnownPagesWereTold == IndexSafeSpec => [](IndexTypeOK /\ KnownIsTrue /\ RemovedRemembered)
<1>1. IndexInv => IndexTypeOK /\ KnownIsTrue /\ RemovedRemembered
  BY DEF IndexInv, Followed, RemovedRemembered
<1> QED  BY IndexInvariant, <1>1, PTL

(* A pass that is over has sent every page that was there all along, in    *)
(* however many windows, while pages came and went around its cursor.       *)
THEOREM PassesCover == IndexSafeSpec => [][PassCovers]_indexVars
<1>1. IndexInv /\ [IndexNext]_indexVars => [PassCovers]_indexVars
  <2> SUFFICES ASSUME IndexInv, IndexNext,
                      NEW s \in indexState, NEW next \in indexState',
                      s.cycle # NoCycle, next.cycle = NoCycle, lost' = lost, lost = "no"
               PROVE  pass'.there \subseteq pass'.sent
    BY DEF PassCovers
  <2>1. PICK mode \in {"daily", "flush"}, limit \in Limits \union {MaxPerRun},
             shrink \in BOOLEAN, ok \in BOOLEAN : IndexRun(mode, limit, shrink, ok)
    <3>1. ~LoseState
      BY DEF LoseState
    <3>2. \A u \in IndexPages : ~IndexPublish(u) /\ ~Unpublish(u)
      BY DEF IndexPublish, Unpublish, IndexInv, OneState
    <3> QED  BY <3>1, <3>2 DEF IndexNext
  <2> DEFINE W == Window(s, mode, limit)
             cycle == CycleOf(s, mode)
             first == cycle.cursor = 0
  <2>2. Loaded = s
    BY DEF Loaded, IndexInv, OneState
  <2>3. s \in State /\ sitemap \subseteq IndexPages
    BY DEF IndexInv, IndexTypeOK
  <2>4. /\ pass' = [sent |-> (IF first THEN {} ELSE pass.sent) \union (IF ok THEN W ELSE {}),
                    there |-> IF first THEN sitemap ELSE pass.there]
        /\ indexState' = indexState \/ next.cycle = CycleAfter(s, mode, limit, ok)
    BY <2>1, <2>2 DEF IndexRun
  <2>5. next.cycle = CycleAfter(s, mode, limit, ok)
    BY <2>4 DEF IndexInv, OneState
  <2>6. /\ cycle \in [kind : {"release", "rotation"}, cursor : {0} \union IndexPages]
        /\ mode = "flush" => cycle.cursor = 0
        /\ mode # "flush" => cycle = s.cycle
    BY <2>3, RunIsTyped
  <2>7. ok /\ Above(sitemap, cycle.cursor) = W
    BY <2>5, <2>6 DEF CycleAfter, NoCycle
  <2>8. \A u \in sitemap : u > cycle.cursor => u \in W
    BY <2>7 DEF Above
  <2>9. \A u \in sitemap : u \in Nat /\ u > 0
    BY <2>3, IndexNowAssumption
  <2>10. cycle.cursor \in Nat
    <3>1. cycle.cursor \in {0} \union IndexPages
      BY <2>6
    <3>2. \A n \in {0} \union IndexPages : n \in Nat
      BY IndexNowAssumption
    <3> HIDE DEF cycle
    <3> QED  BY <3>1, <3>2
  <2>11. CASE first
    BY <2>4, <2>7, <2>8, <2>9, <2>11
  <2>12. CASE ~first
    <3>1. cycle = s.cycle /\ pass.there \subseteq sitemap
      BY <2>6, <2>12 DEF IndexInv, Passed
    <3>2. \A u \in pass.there : u <= cycle.cursor => u \in pass.sent
      BY <3>1 DEF IndexInv, Passed
    <3>3. \A u \in pass.there : u <= cycle.cursor \/ u > cycle.cursor
      BY <2>9, <2>10, <3>1
    <3> HIDE DEF W, cycle
    <3> QED  BY <2>4, <2>7, <2>8, <2>12, <3>1, <3>2, <3>3
  <2> QED  BY <2>11, <2>12
<1> QED  BY IndexInvariant, <1>1, PTL DEF IndexSafeSpec

-----------------------------------------------------------------------------
(* The regeneration job.  What a stage has made of the data of main, while  *)
(* the job is in it: C# are the packages its first generator failed for,    *)
(* none those without an API, ts those its second generator failed for.     *)
RegenerationPhases ==
    {"idle", "csharp", "typescript", "restore", "validate", "push", "rejected", "report"}

JobShape ==
    job = [phase |-> job.phase, data |-> job.data, last |-> job.last, checked |-> job.checked,
           passed |-> job.passed, skipped |-> job.skipped]

\* Data that may be published, and data that takes nothing away from what was.
Sound(d) ==
    /\ d.modules = OfNames(d.packages, Exporting)
    /\ d.bundle = d.modules
    /\ \A p, q \in d.packages : p.name = q.name => p.version = q.version
    /\ \A n \in RegenerationNames :
          \/ d.catalog[n] = 0 /\ \A p \in d.packages : p.name # n
          \/ /\ d.catalog[n] # 0
             /\ [name |-> n, version |-> d.catalog[n]] \in d.packages
             /\ \A p \in d.packages : p.name = n => p.version = d.catalog[n]
          \/ \E f \in d.failures : f.name = n /\ f.version = d.catalog[n]

Keeps(old, d) ==
    \A n \in RegenerationNames : d.catalog[n] > 0 /\ (\E p \in old.packages : p.name = n) => \E p \in d.packages : p.name = n

AfterCSharp(d, old, cs, none, skipped) ==
    /\ cs \subseteq RegenerationListed(d.catalog) /\ none \subseteq RegenerationListed(d.catalog) /\ cs \intersect none = {}
    /\ d.packages = Current(d.catalog, RegenerationListed(d.catalog) \ (cs \union none)) \union OfNames(old.packages, cs)
    /\ skipped = (none # {})

AfterTypeScript(d, old, ts) ==
    /\ ts \subseteq NamesOf(OfNames(d.packages, Exporting))
    /\ d.modules = (OfNames(d.packages, Exporting) \ OfNames(OfNames(d.packages, Exporting), ts))
                   \union OfNames(old.modules, ts)
    /\ d.bundle = d.modules

Staged ==
    LET d == job.data IN
    /\ job.phase = "csharp" => d.packages = main.packages /\ d.modules = main.modules
    /\ job.phase = "typescript" =>
          /\ d.modules = main.modules
          /\ \E cs, none \in SUBSET RegenerationNames :
                AfterCSharp(d, main, cs, none, job.skipped) /\ d.failures = FailuresOf(d.catalog, cs, "C#")
    /\ job.phase = "restore" =>
          \E cs, none, ts \in SUBSET RegenerationNames :
              /\ AfterCSharp(d, main, cs, none, job.skipped) /\ AfterTypeScript(d, main, ts)
              /\ d.failures = FailuresOf(d.catalog, cs, "C#") \union FailuresOf(d.catalog, ts, "TypeScript")
    /\ job.phase = "validate" =>
          IF job.skipped THEN ~validateGeneratedApiData(d)
          ELSE validateGeneratedApiData(d) /\ Sound(d) /\ Keeps(main, d)
    /\ job.phase = "push" => Sound(d) /\ Keeps(main, d)

Tracked == IF job.last = {} THEN issue.state # "open" ELSE issue.state = "open" /\ issue.body = job.last

RegenerationInv ==
    /\ RegenerationTypeOK
    /\ job.phase \in RegenerationPhases /\ JobShape /\ {job.checked, job.passed, job.skipped} \subseteq BOOLEAN
    /\ issue = [state |-> issue.state, body |-> issue.body]
    /\ Sound(main) /\ \A d \in pull : Sound(d) /\ Keeps(main, d)
    /\ Staged /\ Tracked /\ FailuresNeverReject
    /\ job.checked /\ job.data.failures = {} => job.passed

\* The packages of a catalog are identities, its failures failures.
LEMMA CatalogIsTyped ==
    ASSUME NEW catalog \in [RegenerationNames -> 0..MaxVersion], NEW names \in SUBSET RegenerationListed(catalog),
           NEW stage \in Stages
    PROVE  Current(catalog, names) \subseteq Identity /\ FailuresOf(catalog, names, stage) \subseteq Failure
<1>1. \A n \in names : n \in RegenerationNames /\ catalog[n] \in 1..MaxVersion
  BY ApiAssumption DEF RegenerationListed
<1> QED  BY <1>1 DEF Current, FailuresOf, Identity, Failure

\* What the job has before it is validated passes, unless a package has no API and is
\* not recorded so; and it may be published.
LEMMA RestoredIsSound ==
    ASSUME NEW old \in Data, Sound(old), NEW d \in Data, NEW listed, listed = RegenerationListed(d.catalog),
           NEW cs \in SUBSET listed, NEW none \in SUBSET listed, cs \intersect none = {},
           NEW ts \in SUBSET (listed \ none), ts \subseteq Exporting,
           d.packages = Current(d.catalog, listed \ (cs \union none \union ts)) \union OfNames(old.packages, cs \union ts),
           d.modules = OfNames(d.packages, Exporting), d.bundle = d.modules,
           d.failures = FailuresOf(d.catalog, cs, "C#") \union FailuresOf(d.catalog, ts, "TypeScript")
    PROVE  /\ none = {} => validateGeneratedApiData(d) /\ Sound(d) /\ Keeps(old, d)
           /\ none # {} => ~validateGeneratedApiData(d)
<1>1. \A n \in listed : n \in RegenerationNames /\ d.catalog[n] > 0 /\ d.catalog[n] # 0
  BY ApiAssumption DEF RegenerationListed, Data
<1>2. \A n \in RegenerationNames : n \notin listed => d.catalog[n] = 0
  BY ApiAssumption DEF RegenerationListed, Data
<1>3. /\ \A f \in d.failures : f.name \in cs \union ts /\ f.version = d.catalog[f.name]
      /\ \A n \in cs \union ts : \E f \in d.failures : f.name = n /\ f.version = d.catalog[n]
  <2>1. \A f \in d.failures : f.name \in cs \union ts /\ f.version = d.catalog[f.name]
    BY DEF FailuresOf
  <2>2. \A n \in cs : [name |-> n, version |-> d.catalog[n], stage |-> "C#"] \in d.failures
    BY DEF FailuresOf
  <2>3. \A n \in ts : [name |-> n, version |-> d.catalog[n], stage |-> "TypeScript"] \in d.failures
    BY DEF FailuresOf
  <2>4. \A n, s : [name |-> n, version |-> d.catalog[n], stage |-> s].name = n
                   /\ [name |-> n, version |-> d.catalog[n], stage |-> s].version = d.catalog[n]
    OBVIOUS
  <2> QED  BY <2>1, <2>2, <2>3, <2>4
<1>4. FailedPackages(d) = cs \union ts /\ OutdatedFailures(d) = {}
  BY <1>3 DEF FailedPackages, OutdatedFailures
<1>5. \A p : p \in d.packages <=>
          \/ \E n \in listed \ (cs \union none \union ts) : p = [name |-> n, version |-> d.catalog[n]]
          \/ p \in old.packages /\ p.name \in cs \union ts
  BY DEF Current, OfNames
<1>6. \A p \in d.packages : p.name \in listed \ none /\ (p.version = d.catalog[p.name] \/ p.name \in cs \union ts)
  BY <1>5
<1>7. d.modules \subseteq d.packages
  BY DEF OfNames
<1>8. StaleOutput(d) = {}
  <2>1. \A p \in d.packages : d.catalog[p.name] # 0 /\ (p.version = d.catalog[p.name] \/ p.name \in FailedPackages(d))
    BY <1>1, <1>4, <1>6
  <2> QED  BY <1>7, <2>1 DEF StaleOutput
<1>9. UnpairedModules(d) = {} /\ UnexportedPackages(d) = {} /\ UndeclaredModules(d) = {}
  BY DEF UnpairedModules, UnexportedPackages, UndeclaredModules, OfNames
<1>10. CASE none = {}
  <2>1. MissingPackages(d) = {}
    BY <1>4, <1>5, <1>10 DEF MissingPackages
  <2>2. validateGeneratedApiData(d)
    BY <1>4, <1>8, <1>9, <2>1 DEF validateGeneratedApiData
  <2>3. \A p, q \in d.packages : p.name = q.name => p.version = q.version
    <3>1. \A p, q \in old.packages : p.name = q.name => p.version = q.version
      BY DEF Sound
    <3> QED  BY <1>5, <3>1
  <2>4. ASSUME NEW n \in RegenerationNames
        PROVE  \/ d.catalog[n] = 0 /\ \A p \in d.packages : p.name # n
               \/ /\ d.catalog[n] # 0
                  /\ [name |-> n, version |-> d.catalog[n]] \in d.packages
                  /\ \A p \in d.packages : p.name = n => p.version = d.catalog[n]
               \/ \E f \in d.failures : f.name = n /\ f.version = d.catalog[n]
    <3>1. CASE n \in cs \union ts
      BY <1>3, <3>1
    <3>2. CASE n \notin listed
      BY <1>2, <1>6, <3>2
    <3>3. CASE n \in listed \ (cs \union ts)
      <4>1. d.catalog[n] # 0
        BY <1>1, <3>3
      <4>2. [name |-> n, version |-> d.catalog[n]] \in d.packages
        BY <1>5, <1>10, <3>3
      <4> QED  BY <1>6, <3>3, <4>1, <4>2
    <3> QED  BY <3>1, <3>2, <3>3
  <2>5. Sound(d)
    BY <2>3, <2>4 DEF Sound
  <2>6. ASSUME NEW n \in RegenerationNames, d.catalog[n] > 0, NEW p \in old.packages, p.name = n
        PROVE  \E q \in d.packages : q.name = n
    <3>1. n \in listed
      BY <2>6 DEF RegenerationListed
    <3>2. CASE n \in cs \union ts
      BY <1>5, <2>6, <3>2
    <3>3. CASE n \notin cs \union ts
      <4>1. [name |-> n, version |-> d.catalog[n]] \in d.packages
        BY <1>5, <1>10, <3>1, <3>3
      <4> QED  BY <4>1
    <3> QED  BY <3>2, <3>3
  <2>7. Keeps(old, d)
    BY <2>6 DEF Keeps
  <2> QED  BY <1>10, <2>2, <2>5, <2>7
<1>11. CASE none # {}
  <2>1. PICK n : n \in none
    BY <1>11
  <2>2. n \in listed \ FailedPackages(d)
    BY <1>4, <2>1
  <2>3. [name |-> n, version |-> d.catalog[n]] \notin d.packages
    BY <1>6, <2>1
  <2>4. n \in MissingPackages(d)
    BY <2>2, <2>3 DEF MissingPackages
  <2> QED  BY <1>11, <2>4 DEF validateGeneratedApiData
<1> QED  BY <1>10, <1>11

\* The stages of the job, each from the data of the one before.
LEMMA CSharpKeeps == ASSUME RegenerationInv, GenerateCSharp PROVE RegenerationInv'
<1> DEFINE d == job.data
           L == RegenerationListed(d.catalog)
           none == Failing("unsupported", L)
           cs == Failing("C#", L \ none)
           e == job'.data
<1>1. /\ d \in Data /\ main \in Data /\ d.packages = main.packages /\ d.modules = main.modules
      /\ job \in [phase : {"csharp"}, data : {d}, last : SUBSET Failure, checked : BOOLEAN, passed : BOOLEAN, skipped : BOOLEAN]
  BY DEF RegenerationInv, RegenerationTypeOK, Staged, GenerateCSharp, JobShape
<1>2. none \subseteq L /\ cs \subseteq L /\ cs \intersect none = {} /\ L \subseteq RegenerationNames
  BY DEF Failing, RegenerationListed
<1>3. /\ e = [d EXCEPT !.packages = Current(d.catalog, L \ (cs \union none)) \union OfNames(main.packages, cs),
                       !.failures = FailuresOf(d.catalog, cs, "C#")]
      /\ job'.phase = "typescript" /\ job'.last = job.last /\ job'.passed = job.passed
      /\ job'.skipped = (none # {}) /\ job'.checked = (cs # {})
      /\ job' = [phase |-> job'.phase, data |-> e, last |-> job'.last, checked |-> job'.checked,
                 passed |-> job'.passed, skipped |-> job'.skipped]
  BY <1>1 DEF GenerateCSharp, Reconciled
<1> HIDE DEF none, cs
<1>4. /\ e \in Data /\ e.catalog = d.catalog /\ e.modules = main.modules
      /\ e.packages = Current(d.catalog, L \ (cs \union none)) \union OfNames(main.packages, cs)
      /\ e.failures = FailuresOf(d.catalog, cs, "C#")
  <2>1. d.catalog \in [RegenerationNames -> 0..MaxVersion] /\ "C#" \in Stages
    BY <1>1 DEF Data, Stages
  <2>2. Current(d.catalog, L \ (cs \union none)) \subseteq Identity
    BY <1>2, <2>1, CatalogIsTyped
  <2>3. FailuresOf(d.catalog, cs, "C#") \subseteq Failure
    BY <1>2, <2>1, CatalogIsTyped
  <2>4. OfNames(main.packages, cs) \subseteq Identity
    BY <1>1 DEF OfNames, Data
  <2> QED  BY <1>1, <1>3, <2>2, <2>3, <2>4 DEF Data
<1>5. UNCHANGED <<regenerationWorld, broken, breaks, aborts, main, pull, issue>>
  BY DEF GenerateCSharp
<1> HIDE DEF d, L
<1>6. RegenerationTypeOK'
  BY <1>1, <1>3, <1>4, <1>5 DEF RegenerationInv, RegenerationTypeOK
<1>7. Staged'
  <2>1. AfterCSharp(e, main, cs, none, job'.skipped)
    BY <1>2, <1>3, <1>4, <1>5 DEF AfterCSharp, L
  <2>2. cs \in SUBSET RegenerationNames /\ none \in SUBSET RegenerationNames
    BY <1>2
  <2>3. \E c, o \in SUBSET RegenerationNames :
            AfterCSharp(e, main', c, o, job'.skipped) /\ e.failures = FailuresOf(e.catalog, c, "C#")
    <3>1. main' = main /\ e.failures = FailuresOf(e.catalog, cs, "C#")
      BY <1>4, <1>5
    <3> HIDE DEF e
    <3> QED  BY <2>1, <2>2, <3>1
  <2>4. e.modules = main'.modules /\ job'.phase = "typescript"
    BY <1>3, <1>4, <1>5
  <2> QED  BY <2>3, <2>4 DEF Staged
<1>8. job'.checked /\ e.failures = {} => job'.passed
  <2>1. cs # {} => FailuresOf(d.catalog, cs, "C#") # {}
    BY DEF FailuresOf
  <2> QED  BY <1>3, <1>4, <2>1
<1>9. JobShape' /\ Tracked' /\ FailuresNeverReject' /\ {job'.checked, job'.passed, job'.skipped} \subseteq BOOLEAN
      /\ job'.phase \in RegenerationPhases
  BY <1>1, <1>3, <1>5 DEF RegenerationInv, JobShape, Tracked, FailuresNeverReject, RegenerationPhases
<1> QED  BY <1>5, <1>6, <1>7, <1>8, <1>9 DEF RegenerationInv

LEMMA TypeScriptKeeps == ASSUME RegenerationInv, GenerateTypeScript PROVE RegenerationInv'
<1> DEFINE d == job.data
           exporting == OfNames(d.packages, Exporting)
           ts == Failing("TypeScript", NamesOf(exporting))
           made == (exporting \ OfNames(exporting, ts)) \union OfNames(main.modules, ts)
           e == job'.data
<1>1. /\ d \in Data /\ main \in Data /\ d.modules = main.modules
      /\ job \in [phase : {"typescript"}, data : {d}, last : SUBSET Failure, checked : BOOLEAN, passed : BOOLEAN, skipped : BOOLEAN]
  BY DEF RegenerationInv, RegenerationTypeOK, Staged, GenerateTypeScript, JobShape
<1>2. PICK cs \in SUBSET RegenerationNames, none \in SUBSET RegenerationNames :
          AfterCSharp(d, main, cs, none, job.skipped) /\ d.failures = FailuresOf(d.catalog, cs, "C#")
  BY <1>1 DEF RegenerationInv, Staged
<1>3. ts \subseteq NamesOf(exporting)
  BY DEF Failing
<1>4. /\ e = [d EXCEPT !.modules = made, !.bundle = made,
                       !.failures = d.failures \union FailuresOf(d.catalog, ts, "TypeScript")]
      /\ job'.phase = "restore" /\ job'.last = job.last /\ job'.passed = job.passed
      /\ job'.skipped = job.skipped /\ job'.checked = (job.checked \/ ts # {})
      /\ job' = [phase |-> job'.phase, data |-> e, last |-> job'.last, checked |-> job'.checked,
                 passed |-> job'.passed, skipped |-> job'.skipped]
  BY <1>1 DEF GenerateTypeScript, Reconciled
<1>5. ts \subseteq RegenerationListed(d.catalog)
  <2>1. \A p \in d.packages : p.name \in RegenerationListed(d.catalog)
    BY <1>2 DEF AfterCSharp, Current, OfNames
  <2> QED  BY <1>3, <2>1 DEF NamesOf, OfNames
<1> HIDE DEF ts
<1>6. /\ e \in Data /\ e.catalog = d.catalog /\ e.packages = d.packages /\ e.modules = made /\ e.bundle = made
      /\ e.failures = d.failures \union FailuresOf(d.catalog, ts, "TypeScript")
  <2>1. d.catalog \in [RegenerationNames -> 0..MaxVersion] /\ "TypeScript" \in Stages
    BY <1>1 DEF Data, Stages
  <2>2. FailuresOf(d.catalog, ts, "TypeScript") \subseteq Failure
    BY <1>5, <2>1, CatalogIsTyped
  <2>3. made \subseteq Identity
    BY <1>1 DEF OfNames, Data
  <2> HIDE DEF made
  <2> QED  BY <1>1, <1>4, <2>2, <2>3 DEF Data
<1>7. UNCHANGED <<regenerationWorld, broken, breaks, aborts, main, pull, issue>>
  BY DEF GenerateTypeScript
<1>8. Staged'
  <2>1. AfterCSharp(e, main, cs, none, job'.skipped)
    BY <1>2, <1>4, <1>6, <1>7 DEF AfterCSharp
  <2>2. AfterTypeScript(e, main, ts)
    BY <1>3, <1>6, <1>7 DEF AfterTypeScript
  <2>3. ts \in SUBSET RegenerationNames
    BY <1>5 DEF RegenerationListed
  <2>4. e.failures = FailuresOf(e.catalog, cs, "C#") \union FailuresOf(e.catalog, ts, "TypeScript")
    BY <1>2, <1>6
  <2>5. \E c, o, s \in SUBSET RegenerationNames :
            /\ AfterCSharp(e, main', c, o, job'.skipped) /\ AfterTypeScript(e, main', s)
            /\ e.failures = FailuresOf(e.catalog, c, "C#") \union FailuresOf(e.catalog, s, "TypeScript")
    <3>1. main' = main
      BY <1>7
    <3> HIDE DEF d, e
    <3> QED  BY <2>1, <2>2, <2>3, <2>4, <3>1
  <2>6. job'.phase = "restore"
    BY <1>4
  <2> QED  BY <2>5, <2>6 DEF Staged
<1> HIDE DEF d, made
<1>9. RegenerationTypeOK'
  BY <1>1, <1>4, <1>6, <1>7 DEF RegenerationInv, RegenerationTypeOK
<1>10. job'.checked /\ e.failures = {} => job'.passed
  <2>1. d.failures = {} /\ ts # {} => FailuresOf(d.catalog, ts, "TypeScript") # {}
    BY DEF FailuresOf
  <2> QED  BY <1>4, <1>6, <2>1 DEF RegenerationInv, d
<1>11. JobShape' /\ Tracked' /\ FailuresNeverReject' /\ {job'.checked, job'.passed, job'.skipped} \subseteq BOOLEAN
       /\ job'.phase \in RegenerationPhases
  BY <1>1, <1>4, <1>7 DEF RegenerationInv, JobShape, Tracked, FailuresNeverReject, RegenerationPhases
<1> QED  BY <1>7, <1>8, <1>9, <1>10, <1>11 DEF RegenerationInv

LEMMA RestoreKeeps == ASSUME RegenerationInv, RestoreFailed PROVE RegenerationInv'
<1> DEFINE d == job.data
           L == RegenerationListed(d.catalog)
           failed == {f.name : f \in {g \in d.failures : g.stage = "TypeScript"}}
           made == PutBack(d.modules, main.modules, failed)
           e == job'.data
<1>1. /\ d \in Data /\ main \in Data
      /\ job \in [phase : {"restore"}, data : {d}, last : SUBSET Failure, checked : BOOLEAN, passed : BOOLEAN, skipped : BOOLEAN]
  BY DEF RegenerationInv, RegenerationTypeOK, RestoreFailed, JobShape
<1>2. PICK cs \in SUBSET RegenerationNames, none \in SUBSET RegenerationNames, ts \in SUBSET RegenerationNames :
          /\ AfterCSharp(d, main, cs, none, job.skipped) /\ AfterTypeScript(d, main, ts)
          /\ d.failures = FailuresOf(d.catalog, cs, "C#") \union FailuresOf(d.catalog, ts, "TypeScript")
  BY <1>1 DEF RegenerationInv, Staged
<1>3. failed = ts
  <2>1. \A f \in FailuresOf(d.catalog, cs, "C#") : f.stage # "TypeScript"
    BY DEF FailuresOf
  <2>2. \A f \in FailuresOf(d.catalog, ts, "TypeScript") : f.stage = "TypeScript" /\ f.name \in ts
    BY DEF FailuresOf
  <2>3. \A n \in ts : \E f \in FailuresOf(d.catalog, ts, "TypeScript") : f.name = n
    <3> SUFFICES ASSUME NEW n \in ts PROVE \E f \in FailuresOf(d.catalog, ts, "TypeScript") : f.name = n
      OBVIOUS
    <3>1. [name |-> n, version |-> d.catalog[n], stage |-> "TypeScript"] \in FailuresOf(d.catalog, ts, "TypeScript")
      BY DEF FailuresOf
    <3> QED  BY <3>1
  <2> QED  BY <1>2, <2>1, <2>2, <2>3
<1>4. /\ e = [d EXCEPT !.packages = PutBack(d.packages, main.packages, failed), !.modules = made,
                       !.bundle = IF failed = {} THEN d.bundle ELSE made]
      /\ job'.phase = "validate" /\ job'.last = job.last /\ job'.passed = (d.failures = {})
      /\ job'.skipped = job.skipped /\ job'.checked = TRUE
      /\ job' = [phase |-> job'.phase, data |-> e, last |-> job'.last, checked |-> job'.checked,
                 passed |-> job'.passed, skipped |-> job'.skipped]
  BY <1>1 DEF RestoreFailed
<1> HIDE DEF failed
<1>5. /\ e \in Data /\ e.catalog = d.catalog /\ e.packages = PutBack(d.packages, main.packages, ts)
      /\ e.modules = PutBack(d.modules, main.modules, ts)
      /\ e.bundle = IF ts = {} THEN d.bundle ELSE e.modules
      /\ e.failures = d.failures
  <2>1. PutBack(d.packages, main.packages, ts) \subseteq Identity /\ made \subseteq Identity
    BY <1>1, <1>3 DEF PutBack, OfNames, Data
  <2> HIDE DEF made
  <2>2. e.modules = made
    BY <1>1, <1>4 DEF Data
  <2>3. /\ e.catalog = d.catalog /\ e.packages = PutBack(d.packages, main.packages, failed) /\ e.failures = d.failures
        /\ e.bundle = IF failed = {} THEN d.bundle ELSE made
    BY <1>1, <1>4 DEF Data
  <2>4. e = [catalog |-> d.catalog, packages |-> PutBack(d.packages, main.packages, failed), modules |-> made,
             bundle |-> IF failed = {} THEN d.bundle ELSE made, failures |-> d.failures]
    BY <1>1, <1>4 DEF Data
  <2>5. e \in Data
    BY <1>1, <1>3, <2>1, <2>4 DEF Data
  <2> QED  BY <1>3, <2>2, <2>3, <2>5 DEF made
<1>6. UNCHANGED <<regenerationWorld, broken, breaks, aborts, main, pull, issue>>
  BY DEF RestoreFailed
<1>7. /\ cs \subseteq L /\ none \subseteq L /\ cs \intersect none = {}
      /\ d.packages = Current(d.catalog, L \ (cs \union none)) \union OfNames(main.packages, cs)
      /\ job.skipped = (none # {})
      /\ ts \subseteq NamesOf(OfNames(d.packages, Exporting))
      /\ d.modules = (OfNames(d.packages, Exporting) \ OfNames(OfNames(d.packages, Exporting), ts)) \union OfNames(main.modules, ts)
      /\ d.bundle = d.modules
  BY <1>2 DEF AfterCSharp, AfterTypeScript
<1>8. main.modules = OfNames(main.packages, Exporting)
  BY DEF RegenerationInv, Sound
<1>9. \A p \in d.packages : p.name \in L \ none
  BY <1>7 DEF Current, OfNames
<1>10. ts \subseteq L \ none /\ ts \subseteq Exporting
  BY <1>7, <1>9 DEF NamesOf, OfNames
<1> HIDE DEF d, L, e
<1>11. e.packages = Current(d.catalog, L \ (cs \union none \union ts)) \union OfNames(main.packages, cs \union ts)
  <2>1. \A p : p \in d.packages <=>
            \/ \E n \in L \ (cs \union none) : p = [name |-> n, version |-> d.catalog[n]]
            \/ p \in main.packages /\ p.name \in cs
    BY <1>7 DEF Current, OfNames
  <2>2. \A p : p \in e.packages <=> (p \in d.packages /\ p.name \notin ts) \/ (p \in main.packages /\ p.name \in ts)
    BY <1>5 DEF PutBack, OfNames
  <2>3. \A p : p \in Current(d.catalog, L \ (cs \union none \union ts)) <=>
            \E n \in L \ (cs \union none \union ts) : p = [name |-> n, version |-> d.catalog[n]]
    BY DEF Current
  <2>4. \A p : p \in OfNames(main.packages, cs \union ts) <=> p \in main.packages /\ p.name \in cs \union ts
    BY DEF OfNames
  <2>5. ASSUME NEW p PROVE p \in e.packages <=>
            p \in Current(d.catalog, L \ (cs \union none \union ts)) \union OfNames(main.packages, cs \union ts)
    BY <2>1, <2>2, <2>3, <2>4
  <2> QED  BY <2>5
<1>12. e.modules = OfNames(e.packages, Exporting)
  <2>1. \A p : p \in e.packages <=> (p \in d.packages /\ p.name \notin ts) \/ (p \in main.packages /\ p.name \in ts)
    BY <1>5 DEF PutBack, OfNames
  <2>2. \A p : p \in main.modules <=> p \in main.packages /\ p.name \in Exporting
    BY <1>8 DEF OfNames
  <2>3. \A p : p \in d.modules <=> \/ p \in d.packages /\ p.name \in Exporting /\ p.name \notin ts
                                   \/ p \in main.modules /\ p.name \in ts
    BY <1>7 DEF OfNames
  <2>4. \A p : p \in e.modules <=> (p \in d.modules /\ p.name \notin ts) \/ (p \in main.modules /\ p.name \in ts)
    BY <1>5 DEF PutBack, OfNames
  <2>5. \A p : p \in OfNames(e.packages, Exporting) <=> p \in e.packages /\ p.name \in Exporting
    BY DEF OfNames
  <2>6. ASSUME NEW p PROVE p \in e.modules <=> p \in OfNames(e.packages, Exporting)
    BY <1>10, <2>1, <2>2, <2>3, <2>4, <2>5
  <2> QED  BY <2>6
<1>13. e.bundle = e.modules
  <2>1. ts = {} => e.modules = d.modules
    BY <1>5 DEF PutBack, OfNames
  <2> QED  BY <1>5, <1>7, <2>1
<1>14. /\ none = {} => validateGeneratedApiData(e) /\ Sound(e) /\ Keeps(main, e)
       /\ none # {} => ~validateGeneratedApiData(e)
  <2>1. Sound(main)
    BY DEF RegenerationInv
  <2>2. L = RegenerationListed(e.catalog)
    BY <1>5 DEF L
  <2>3. e.failures = FailuresOf(e.catalog, cs, "C#") \union FailuresOf(e.catalog, ts, "TypeScript")
    BY <1>2, <1>5
  <2>4. e.packages = Current(e.catalog, L \ (cs \union none \union ts)) \union OfNames(main.packages, cs \union ts)
    BY <1>5, <1>11
  <2>5. main \in Data /\ e \in Data /\ cs \in SUBSET L /\ none \in SUBSET L /\ cs \intersect none = {}
        /\ ts \in SUBSET (L \ none) /\ ts \subseteq Exporting
    BY <1>1, <1>5, <1>7, <1>10
  <2> QED  BY <1>12, <1>13, <2>1, <2>2, <2>3, <2>4, <2>5, RestoredIsSound
<1>15. Staged'
  BY <1>4, <1>6, <1>7, <1>14 DEF Staged, e
<1>16. RegenerationTypeOK'
  BY <1>1, <1>4, <1>5, <1>6 DEF RegenerationInv, RegenerationTypeOK, e
<1>17. JobShape' /\ Tracked' /\ FailuresNeverReject' /\ {job'.checked, job'.passed, job'.skipped} \subseteq BOOLEAN
       /\ job'.phase \in RegenerationPhases
  BY <1>1, <1>4, <1>6 DEF RegenerationInv, JobShape, Tracked, FailuresNeverReject, RegenerationPhases, e
<1>18. job'.checked /\ job'.data.failures = {} => job'.passed
  BY <1>4, <1>5 DEF e
<1> QED  BY <1>6, <1>15, <1>16, <1>17, <1>18 DEF RegenerationInv

\* Between its stages the job only moves on, reports, or is merged.
LEMMA JobKeeps ==
    ASSUME RegenerationInv,
           \/ RegenerationStart \/ Validate \/ Push \/ Stop \/ Abort \/ Report \/ ReportFails \/ Merge \/ CloseByHand
    PROVE  RegenerationInv'
<1>1. /\ main \in Data /\ job.data \in Data /\ Sound(main)
      /\ job \in [phase : RegenerationPhases, data : Data, last : SUBSET Failure,
                  checked : BOOLEAN, passed : BOOLEAN, skipped : BOOLEAN]
  BY DEF RegenerationInv, RegenerationTypeOK, JobShape
<1>2. NoJob({}) = [phase |-> "idle", data |-> main, last |-> {}, checked |-> FALSE, passed |-> FALSE, skipped |-> FALSE]
      /\ \A last : NoJob(last) = [phase |-> "idle", data |-> main, last |-> last, checked |-> FALSE, passed |-> FALSE,
                                  skipped |-> FALSE]
  BY DEF NoJob
<1>3. CASE RegenerationStart
  <2> DEFINE data == [main EXCEPT !.catalog = regenerationWorld]
  <2>1. /\ data \in Data /\ data.packages = main.packages /\ data.modules = main.modules
    BY <1>1 DEF Data, RegenerationInv, RegenerationTypeOK
  <2>2. job' = [phase |-> "csharp", data |-> data, last |-> job.last, checked |-> FALSE, passed |-> FALSE, skipped |-> FALSE]
    BY <1>2, <1>3 DEF RegenerationStart
  <2>3. UNCHANGED <<regenerationWorld, broken, breaks, aborts, main, pull, issue>>
    BY <1>3 DEF RegenerationStart
  <2> HIDE DEF data
  <2>4. Staged'
    BY <2>1, <2>2, <2>3 DEF Staged
  <2> QED  BY <1>1, <2>1, <2>2, <2>3, <2>4
           DEF RegenerationInv, RegenerationTypeOK, RegenerationPhases, JobShape, Tracked, FailuresNeverReject
<1>4. CASE Validate
  <2>1. /\ job'.data = job.data /\ job'.last = job.last /\ job'.checked = job.checked /\ job'.passed = job.passed
        /\ job'.skipped = job.skipped
        /\ job'.phase = IF validateGeneratedApiData(job.data) THEN "push" ELSE "rejected"
        /\ JobShape'
    BY <1>1, <1>4 DEF Validate, JobShape
  <2>2. UNCHANGED <<regenerationWorld, broken, breaks, aborts, main, pull, issue>>
    BY <1>4 DEF Validate
  <2>3. job.phase = "validate"
    BY <1>4 DEF Validate
  <2>4. Staged' /\ FailuresNeverReject'
    BY <2>1, <2>2, <2>3 DEF RegenerationInv, Staged, FailuresNeverReject
  <2> QED  BY <1>1, <2>1, <2>2, <2>4 DEF RegenerationInv, RegenerationTypeOK, RegenerationPhases, Tracked
<1>5. CASE Push \/ Stop \/ Abort
  <2>1. /\ job'.data = job.data /\ job'.last = job.last /\ job'.checked = job.checked /\ job'.passed = job.passed
        /\ job'.skipped = job.skipped /\ job'.phase = "report" /\ JobShape'
    BY <1>1, <1>5 DEF Push, Stop, Abort, JobShape
  <2>2. UNCHANGED <<regenerationWorld, broken, breaks, main, issue>> /\ (pull' = pull \/ (job.phase = "push" /\ pull' = {job.data}))
    BY <1>5 DEF Push, Stop, Abort
  <2>3. \A d \in pull' : d \in Data /\ Sound(d) /\ Keeps(main, d)
    BY <1>1, <2>2 DEF RegenerationInv, RegenerationTypeOK, Staged
  <2>4. Staged' /\ FailuresNeverReject'
    BY <2>1 DEF Staged, FailuresNeverReject
  <2> QED  BY <1>1, <2>1, <2>2, <2>3, <2>4 DEF RegenerationInv, RegenerationTypeOK, RegenerationPhases, Tracked
<1>6. CASE Report
  <2>1. UNCHANGED <<regenerationWorld, broken, breaks, aborts, main, pull>>
    BY <1>6 DEF Report
  <2>2. job.data.failures \subseteq Failure /\ issue.state \in {"none", "open", "closed"} /\ issue.body \subseteq Failure
        /\ issue = [state |-> issue.state, body |-> issue.body]
    BY <1>1 DEF Data, RegenerationInv, RegenerationTypeOK
  <2>3. PICK last \in SUBSET Failure :
            /\ job' = NoJob(last)
            /\ \/ last = job.data.failures /\ issue' = Reported(issue, last)
               \/ last = job.last /\ issue' = issue
    BY <1>1, <1>6, <2>2 DEF Report
  <2>4. /\ job'.phase = "idle" /\ job'.data = main /\ job'.last = last /\ job'.checked = FALSE /\ JobShape'
        /\ {job'.checked, job'.passed, job'.skipped} \subseteq BOOLEAN
    BY <1>2, <2>3 DEF JobShape
  <2>5. Tracked' /\ issue' = [state |-> issue'.state, body |-> issue'.body]
        /\ issue'.state \in {"none", "open", "closed"} /\ issue'.body \subseteq Failure
    BY <2>2, <2>3, <2>4 DEF Reported, Tracked, RegenerationInv
  <2>6. Staged' /\ FailuresNeverReject'
    BY <2>4 DEF Staged, FailuresNeverReject
  <2> QED  BY <1>1, <2>1, <2>4, <2>5, <2>6 DEF RegenerationInv, RegenerationTypeOK, RegenerationPhases
<1>7. CASE ReportFails
  <2>1. UNCHANGED <<regenerationWorld, broken, breaks, main, pull, issue>>
    BY <1>7 DEF ReportFails
  <2>2. job' = [phase |-> "idle", data |-> main, last |-> (IF issue.state = "open" THEN issue.body ELSE {}),
                checked |-> FALSE, passed |-> FALSE, skipped |-> FALSE]
    BY <1>2, <1>7 DEF ReportFails
  <2>3. Tracked' /\ JobShape' /\ Staged' /\ FailuresNeverReject'
    BY <2>1, <2>2 DEF RegenerationInv, Tracked, JobShape, Staged, FailuresNeverReject
  <2> QED  BY <1>1, <2>1, <2>2, <2>3 DEF RegenerationInv, RegenerationTypeOK, RegenerationPhases
<1>8. CASE Merge
  <2>1. UNCHANGED <<regenerationWorld, broken, breaks, aborts, job, issue>> /\ pull' = {} /\ job.phase = "idle"
    BY <1>8 DEF Merge
  <2>2. main' \in Data /\ Sound(main')
    BY <1>8 DEF Merge, RegenerationInv, RegenerationTypeOK
  <2>3. Tracked' /\ JobShape' /\ Staged' /\ FailuresNeverReject'
    BY <2>1 DEF RegenerationInv, Tracked, JobShape, Staged, FailuresNeverReject
  <2> QED  BY <1>1, <2>1, <2>2, <2>3 DEF RegenerationInv, RegenerationTypeOK, RegenerationPhases
<1>9. CASE CloseByHand
  <2>1. UNCHANGED <<regenerationWorld, broken, breaks, main, pull>> /\ job.phase = "idle"
    BY <1>9 DEF CloseByHand
  <2>2. /\ job'.data = job.data /\ job'.last = {} /\ job'.checked = job.checked /\ job'.passed = job.passed
        /\ job'.skipped = job.skipped /\ job'.phase = "idle" /\ JobShape'
    BY <1>1, <1>9 DEF CloseByHand, JobShape
  <2>3. issue' = [state |-> "closed", body |-> issue.body]
    BY <1>9 DEF CloseByHand, RegenerationInv
  <2>4. Tracked' /\ Staged' /\ FailuresNeverReject'
    BY <2>2, <2>3 DEF Tracked, Staged, FailuresNeverReject
  <2> QED  BY <1>1, <2>1, <2>2, <2>3, <2>4 DEF RegenerationInv, RegenerationTypeOK, RegenerationPhases
<1> QED  BY <1>3, <1>4, <1>5, <1>6, <1>7, <1>8, <1>9

\* Versions, and whether they generate, change as they like.
LEMMA WorldKeeps ==
    ASSUME RegenerationInv,
           \/ \E n \in RegenerationNames : Release(n) \/ RegenerationWithdraw(n)
           \/ \E stage \in Faults, n \in RegenerationNames : Break(stage, n)
           \/ Repair \/ UNCHANGED regenerationVars
    PROVE  RegenerationInv'
<1>1. UNCHANGED <<main, pull, job, issue>>
  BY DEF Release, RegenerationWithdraw, Break, Repair, regenerationVars
<1>2. regenerationWorld \in [RegenerationNames -> 0..MaxVersion] /\ broken \subseteq Faults \X RegenerationNames
  BY DEF RegenerationInv, RegenerationTypeOK
<1>3. regenerationWorld' \in [RegenerationNames -> 0..MaxVersion]
  <2>1. ASSUME NEW n \in RegenerationNames, Release(n) PROVE regenerationWorld' \in [RegenerationNames -> 0..MaxVersion]
    <3>1. regenerationWorld[n] + 1 \in 0..MaxVersion
      BY <1>2, <2>1, ApiAssumption DEF Release
    <3> QED  BY <1>2, <2>1, <3>1 DEF Release
  <2>2. ASSUME NEW n \in RegenerationNames, RegenerationWithdraw(n)
        PROVE  regenerationWorld' \in [RegenerationNames -> 0..MaxVersion]
    <3>1. 0 \in 0..MaxVersion
      BY ApiAssumption
    <3> QED  BY <1>2, <2>2, <3>1 DEF RegenerationWithdraw
  <2> QED  BY <1>2, <2>1, <2>2 DEF Break, Repair, regenerationVars
<1>4. broken' \subseteq Faults \X RegenerationNames
  <2>1. ASSUME NEW stage \in Faults, NEW n \in RegenerationNames, Break(stage, n)
        PROVE  broken' \subseteq Faults \X RegenerationNames
    <3>1. <<stage, n>> \in Faults \X RegenerationNames
      OBVIOUS
    <3> QED  BY <1>2, <2>1, <3>1 DEF Break
  <2> QED  BY <1>2, <2>1 DEF Release, RegenerationWithdraw, Repair, regenerationVars
<1>5. Staged' /\ Tracked' /\ FailuresNeverReject' /\ JobShape'
  <2>1. Staged'
    BY <1>1 DEF RegenerationInv, Staged
  <2> QED  BY <1>1, <2>1 DEF RegenerationInv, Tracked, FailuresNeverReject, JobShape
<1> QED  BY <1>1, <1>3, <1>4, <1>5 DEF RegenerationInv, RegenerationTypeOK

LEMMA RegenerationInvariant == SafeSpec => []RegenerationInv
<1>1. RegenerationInit => RegenerationInv
  <2> SUFFICES ASSUME RegenerationInit PROVE RegenerationInv
    OBVIOUS
  <2>1. /\ main = [catalog |-> [n \in RegenerationNames |-> 0], packages |-> {}, modules |-> {}, bundle |-> {}, failures |-> {}]
        /\ pull = {} /\ issue = [state |-> "none", body |-> {}] /\ broken = {}
        /\ job = [phase |-> "idle", data |-> main, last |-> {}, checked |-> FALSE, passed |-> FALSE, skipped |-> FALSE]
    BY DEF RegenerationInit, NoJob
  <2>2. 0..1 \subseteq 0..MaxVersion /\ 0 \in 0..MaxVersion
    BY ApiAssumption
  <2>3. regenerationWorld \in [RegenerationNames -> 0..MaxVersion]
    BY <2>2 DEF RegenerationInit
  <2>4. main \in Data
    BY <2>1, <2>2 DEF Data
  <2>5. Sound(main)
    BY <2>1 DEF Sound, OfNames
  <2>6. RegenerationTypeOK
    BY <2>1, <2>3, <2>4 DEF RegenerationTypeOK
  <2>7. Staged /\ Tracked /\ FailuresNeverReject /\ JobShape
    BY <2>1 DEF Staged, Tracked, FailuresNeverReject, JobShape
  <2> QED  BY <2>1, <2>5, <2>6, <2>7 DEF RegenerationInv, RegenerationPhases
<1>2. RegenerationInv /\ [RegenerationNext]_regenerationVars => RegenerationInv'
  BY CSharpKeeps, TypeScriptKeeps, RestoreKeeps, JobKeeps, WorldKeeps DEF RegenerationNext, JobStep, Environment
<1> QED  BY <1>1, <1>2, PTL DEF SafeSpec

\* What is sound is consistent: at most one version of a package.
LEMMA SoundIsConsistent == ASSUME Sound(main) PROVE MainConsistent
<1> SUFFICES ASSUME NEW n \in RegenerationNames
             PROVE  LET versions == {p.version : p \in OfNames(main.packages, {n})}
                    IN \/ versions = IF main.catalog[n] = 0 THEN {} ELSE {main.catalog[n]}
                       \/ /\ Cardinality(versions) <= 1
                          /\ \E f \in main.failures : f.name = n /\ f.version = main.catalog[n]
  BY DEF MainConsistent, Sound
<1> DEFINE versions == {p.version : p \in OfNames(main.packages, {n})}
<1>1. \A p \in OfNames(main.packages, {n}) : p \in main.packages /\ p.name = n
  BY DEF OfNames
<1>2. CASE main.catalog[n] = 0 /\ \A p \in main.packages : p.name # n
  BY <1>1, <1>2
<1>3. CASE /\ main.catalog[n] # 0
           /\ [name |-> n, version |-> main.catalog[n]] \in main.packages
           /\ \A p \in main.packages : p.name = n => p.version = main.catalog[n]
  <2>1. [name |-> n, version |-> main.catalog[n]] \in OfNames(main.packages, {n})
    BY <1>3 DEF OfNames
  <2>2. main.catalog[n] \in versions
    BY <2>1
  <2>3. versions = {main.catalog[n]}
    BY <1>1, <1>3, <2>2
  <2> QED  BY <1>3, <2>3
<1>4. CASE \E f \in main.failures : f.name = n /\ f.version = main.catalog[n]
  <2>1. ASSUME NEW v \in versions, NEW w \in versions PROVE v = w
    <3>1. PICK p \in OfNames(main.packages, {n}), q \in OfNames(main.packages, {n}) : v = p.version /\ w = q.version
      OBVIOUS
    <3>2. \A a, b \in main.packages : a.name = b.name => a.version = b.version
      BY DEF Sound
    <3>3. p \in main.packages /\ q \in main.packages /\ p.name = q.name
      BY <1>1
    <3> QED  BY <3>1, <3>2, <3>3
  <2> HIDE DEF versions
  <2>2. versions = {} \/ \E v : versions = {v}
    BY <2>1
  <2>3. Cardinality(versions) = 0 \/ Cardinality(versions) = 1
    BY <2>2, FS_EmptySet, FS_Singleton
  <2>4. Cardinality(versions) <= 1
    BY <2>3
  <2> QED  BY <1>4, <2>4 DEF versions
<1> QED  BY <1>2, <1>3, <1>4 DEF Sound

(* Whatever fails to generate, is withdrawn, dies or is closed by hand:     *)
(* what reaches main is consistent, failing packages never keep the others  *)
(* from being published, and the issue tells what failed last               *)
(* (update-integration-data.yml and its scripts).                           *)
THEOREM RegenerationIsSafe ==
    SafeSpec => [](RegenerationTypeOK /\ MainConsistent /\ FailuresNeverReject /\ IssueTracks)
<1>1. RegenerationInv => RegenerationTypeOK /\ MainConsistent /\ FailuresNeverReject /\ IssueTracks
  BY SoundIsConsistent DEF RegenerationInv, Tracked, IssueTracks
<1> QED  BY RegenerationInvariant, <1>1, PTL

(* A merge never takes the reference of a package off the site that stays   *)
(* in the catalog, and the issue is closed by a whole pass or by hand only. *)
THEOREM LastGoodIsKept == SafeSpec => [][LastGoodKept /\ ClosedByPassOnly]_regenerationVars
<1>1. RegenerationInv /\ [RegenerationNext]_regenerationVars => [LastGoodKept /\ ClosedByPassOnly]_regenerationVars
  <2> SUFFICES ASSUME RegenerationInv, RegenerationNext PROVE LastGoodKept /\ ClosedByPassOnly
    OBVIOUS
  <2>1. LastGoodKept
    <3> SUFFICES ASSUME NEW n \in RegenerationNames, main.catalog[n] > 0, main'.catalog[n] > 0,
                        OfNames(main.packages, {n}) # {}
                 PROVE  OfNames(main'.packages, {n}) # {}
      BY DEF LastGoodKept
    <3>1. main' = main \/ main' \in pull
      BY DEF RegenerationNext, JobStep, Environment, RegenerationStart, GenerateCSharp, GenerateTypeScript, RestoreFailed,
             Validate, Push, Stop, Report, Abort, ReportFails, CloseByHand, Release, RegenerationWithdraw, Break,
             Merge, Repair
    <3>2. main' \in pull => Keeps(main, main')
      BY DEF RegenerationInv
    <3>3. \E p \in main.packages : p.name = n
      BY DEF OfNames
    <3>4. \E p \in main'.packages : p.name = n
      BY <3>1, <3>2, <3>3 DEF Keeps
    <3> QED  BY <3>4 DEF OfNames
  <2>2. ClosedByPassOnly
    <3> SUFFICES ASSUME issue.state = "open", issue'.state = "closed", job.phase # "idle" PROVE job.passed
      BY DEF ClosedByPassOnly
    <3>1. Report
      BY DEF RegenerationNext, JobStep, Environment, RegenerationStart, GenerateCSharp, GenerateTypeScript, RestoreFailed,
             Validate, Push, Stop, Abort, ReportFails, CloseByHand, Release, RegenerationWithdraw, Break,
             Merge, Repair
    <3>2. job.checked /\ issue' = Reported(issue, job.data.failures)
      BY <3>1 DEF Report, Checked
    <3>3. job.data.failures = {}
      BY <3>2 DEF Reported
    <3> QED  BY <3>2, <3>3 DEF RegenerationInv
  <2> QED  BY <2>1, <2>2
<1> QED  BY RegenerationInvariant, <1>1, PTL DEF SafeSpec

-----------------------------------------------------------------------------
(* The integration catalog.  What is about to be written is what the update *)
(* made of the world and of the previous catalog, and the icons of the      *)
(* toolkit agree wherever they are.                                         *)
Made == IF OnRelease(world) THEN reconcileReleaseBranchCatalog(world, Fresh(world)) ELSE Fresh(world)

IconsAgreeIn(entries) ==
    \A p \in Toolkit \cap DOMAIN entries : entries[p].icon = PublishedIcon(entries[p].version)

CatalogInv ==
    /\ phase \in {"idle", "generated", "saved", "done"}
    /\ phase = "generated" => output = Made
    /\ phase \in {"generated", "saved"} => IconsAgreeIn(output)
    /\ phase \in {"saved", "done"} => listing = output
    /\ phase = "done" => docs \cap Packages \subseteq DOMAIN listing
    /\ IconsAgreeIn(listing) /\ Others \subseteq docs

\* The entries an update makes, and those it keeps.
LEMMA MadeOfFresh ==
    ASSUME NEW w
    PROVE  LET fresh == Fresh(w)
               made == reconcileReleaseBranchCatalog(w, fresh)
           IN /\ DOMAIN fresh = Accepted(w)
              /\ \A p \in Accepted(w) : fresh[p].version = Selected(w, p) /\ fresh[p].icon = IconOf(w, p)
              /\ DOMAIN made = Accepted(w) \union CarriedForward(w, fresh)
              /\ \A p \in CarriedForward(w, fresh) : p \in DOMAIN listing /\ p \notin Accepted(w) /\ made[p] = listing[p]
              /\ \A p \in Accepted(w) :
                    /\ made[p].version = Selected(w, p)
                    /\ made[p].icon = IF p \in DOMAIN listing THEN KeptIcon(p, fresh[p], listing[p]) ELSE IconOf(w, p)
<1> DEFINE fresh == Fresh(w)
           made == reconcileReleaseBranchCatalog(w, fresh)
<1>1. /\ DOMAIN fresh = Accepted(w)
      /\ \A p \in Accepted(w) : fresh[p] = [version |-> Selected(w, p), icon |-> IconOf(w, p)]
  BY DEF Fresh
<1> HIDE DEF fresh
<1>2. \A p \in CarriedForward(w, fresh) : p \in DOMAIN listing /\ p \notin DOMAIN fresh
  BY DEF CarriedForward
<1>3. /\ DOMAIN made = DOMAIN fresh \union CarriedForward(w, fresh)
      /\ \A p \in CarriedForward(w, fresh) : made[p] = listing[p]
      /\ \A p \in DOMAIN fresh : made[p] = IF p \notin DOMAIN listing THEN fresh[p]
                                           ELSE [fresh[p] EXCEPT !.icon = KeptIcon(p, fresh[p], listing[p])]
  BY <1>2 DEF reconcileReleaseBranchCatalog
<1> HIDE DEF made
<1>4. ASSUME NEW p \in Accepted(w)
      PROVE  /\ made[p].version = Selected(w, p)
             /\ made[p].icon = IF p \in DOMAIN listing THEN KeptIcon(p, fresh[p], listing[p]) ELSE IconOf(w, p)
  BY <1>1, <1>3
<1> QED  BY <1>1, <1>2, <1>3, <1>4 DEF fresh, made

\* Packages accepted have a version, and those of the toolkit its icon.
LEMMA AcceptedIsSelected ==
    ASSUME NEW w, NEW p \in Accepted(w)
    PROVE  /\ p \in Fetched(w) /\ p \in Packages /\ Selected(w, p) # NoVersion
           /\ Pinned(w, p) \/ ~w.offers[p].deprecated
           /\ p \in Toolkit => p \notin Official /\ IconOf(w, p) = PublishedIcon(Selected(w, p))
<1>1. p \in Candidates(w) /\ Selected(w, p) # NoVersion
  BY DEF Accepted
<1>2. p \in Fetched(w) /\ (Pinned(w, p) \/ ~w.offers[p].deprecated)
  BY <1>1 DEF Candidates
<1>3. p \in Packages
  BY <1>2 DEF Fetched
<1>4. p \in Toolkit => p \notin Official
  BY OffersAssumption
<1> QED  BY <1>1, <1>2, <1>3, <1>4 DEF IconOf

LEMMA MadeIconsAgree == ASSUME CatalogInv, NEW w, NEW made,
                               made = IF OnRelease(w) THEN reconcileReleaseBranchCatalog(w, Fresh(w)) ELSE Fresh(w)
                        PROVE  IconsAgreeIn(made)
<1> SUFFICES ASSUME NEW p \in Toolkit, p \in DOMAIN made PROVE made[p].icon = PublishedIcon(made[p].version)
  BY DEF IconsAgreeIn
<1>1. CASE ~OnRelease(w)
  <2>1. p \in Accepted(w) /\ made[p].version = Selected(w, p) /\ made[p].icon = IconOf(w, p)
    BY <1>1, MadeOfFresh
  <2> QED  BY <2>1, AcceptedIsSelected
<1>2. CASE OnRelease(w)
  <2>1. CASE p \in Accepted(w)
    <3>1. /\ made[p].version = Selected(w, p)
          /\ made[p].icon = IF p \in DOMAIN listing THEN KeptIcon(p, Fresh(w)[p], listing[p]) ELSE IconOf(w, p)
      BY <1>2, <2>1, MadeOfFresh
    <3>2. p \notin Official /\ IconOf(w, p) = PublishedIcon(Selected(w, p))
      BY <2>1, AcceptedIsSelected
    <3>3. Fresh(w)[p].icon = IconOf(w, p)
      BY <2>1, MadeOfFresh
    <3>4. p \in DOMAIN listing => KeptIcon(p, Fresh(w)[p], listing[p]) = IconOf(w, p)
      BY <3>2, <3>3 DEF KeptIcon
    <3> QED  BY <3>1, <3>2, <3>4
  <2>2. CASE p \notin Accepted(w)
    <3>1. p \in DOMAIN listing /\ made[p] = listing[p]
      BY <1>2, <2>2, MadeOfFresh
    <3> QED  BY <3>1 DEF CatalogInv, IconsAgreeIn
  <2> QED  BY <2>1, <2>2
<1> QED  BY <1>1, <1>2

LEMMA CatalogInvariant == Spec => []CatalogInv
<1>1. Init => CatalogInv
  BY DEF Init, CatalogInv, IconsAgreeIn
<1>2. CatalogInv /\ [Next]_vars => CatalogInv'
  <2> SUFFICES ASSUME CatalogInv, [Next]_vars PROVE CatalogInv'
    OBVIOUS
  <2>1. ASSUME NEW w \in Worlds, Generate(w) PROVE CatalogInv'
    <3>1. UNCHANGED <<listing, docs>>
      BY <2>1 DEF Generate
    <3>2. CASE Throws(w)
      BY <2>1, <3>1, <3>2 DEF Generate, CatalogInv, IconsAgreeIn
    <3>3. CASE ~Throws(w)
      <4>1. /\ phase' = "generated" /\ world' = w
            /\ output' = IF OnRelease(w) THEN reconcileReleaseBranchCatalog(w, Fresh(w)) ELSE Fresh(w)
        BY <2>1, <3>3 DEF Generate
      <4>2. IconsAgreeIn(output')
        BY <4>1, MadeIconsAgree
      <4>3. output' = Made'
        BY <3>1, <4>1 DEF Made, OnRelease, reconcileReleaseBranchCatalog, CarriedForward
      <4>4. IconsAgreeIn(output)' /\ IconsAgreeIn(listing)'
        BY <3>1, <4>2 DEF CatalogInv, IconsAgreeIn
      <4> QED  BY <3>1, <4>1, <4>3, <4>4 DEF CatalogInv
    <3> QED  BY <3>2, <3>3
  <2>2. ASSUME SaveCatalog PROVE CatalogInv'
    BY <2>2 DEF SaveCatalog, CatalogInv, IconsAgreeIn
  <2>3. ASSUME SaveDocs PROVE CatalogInv'
    <3>2. /\ phase = "saved" /\ phase' = "done" /\ UNCHANGED <<world, output, listing, updates>>
          /\ docs' = {p \in docs : p \in Others \/ p \in DOMAIN output}
      BY <2>3 DEF SaveDocs, reconcileIntegrationDocs
    <3>3. docs' \cap Packages \subseteq DOMAIN listing' /\ Others \subseteq docs'
      BY <3>2, OffersAssumption DEF CatalogInv
    <3> QED  BY <3>2, <3>3 DEF CatalogInv, IconsAgreeIn
  <2>4. ASSUME Cancel PROVE CatalogInv'
    BY <2>4 DEF Cancel, CatalogInv, IconsAgreeIn
  <2>5. ASSUME UNCHANGED vars PROVE CatalogInv'
    <3>1. Made' = Made
      BY <2>5 DEF vars, Made, OnRelease, Fresh, Accepted, Candidates, Fetched, Pinned, Selected, IconOf,
                  reconcileReleaseBranchCatalog, CarriedForward, Unavailable
    <3> QED  BY <2>5, <3>1 DEF vars, CatalogInv, IconsAgreeIn
  <2> QED  BY <2>1, <2>2, <2>3, <2>4, <2>5 DEF Next
<1> QED  BY <1>1, <1>2, PTL DEF Spec

(* Whatever the sources answer and wherever an update is cancelled: a       *)
(* release branch drops no package that was not refused, nothing refused    *)
(* comes back, a pinned version keeps every other one out, icons go with    *)
(* versions and links with packages (update-integrations.ts).               *)
THEOREM CatalogIsSafe ==
    Spec => [](/\ ReleaseKeeps /\ RefusedStaysOut /\ OnlyPinEnters
               /\ ToolkitIconsAgree /\ IconsSurviveRelease /\ DocsFollow)
<1> SUFFICES CatalogInv => /\ ReleaseKeeps /\ RefusedStaysOut /\ OnlyPinEnters
                           /\ ToolkitIconsAgree /\ IconsSurviveRelease /\ DocsFollow
  BY CatalogInvariant, PTL
<1> SUFFICES ASSUME CatalogInv
             PROVE  /\ ReleaseKeeps /\ RefusedStaysOut /\ OnlyPinEnters
                    /\ ToolkitIconsAgree /\ IconsSurviveRelease /\ DocsFollow
  OBVIOUS
<1> DEFINE fresh == Fresh(world)
<1>1. phase = "generated" => output = Made
  BY DEF CatalogInv
<1>2. ReleaseKeeps
  <2> SUFFICES ASSUME phase = "generated", OnRelease(world), NEW p \in DOMAIN listing, p \notin DOMAIN output
               PROVE  p \in Fetched(world) /\ ~Pinned(world, p) /\ (Refused(p) \/ p \notin world.registers)
    BY DEF ReleaseKeeps
  <2>1. p \notin Accepted(world) /\ p \notin CarriedForward(world, fresh)
    BY <1>1, MadeOfFresh DEF Made
  <2>2. p \in Fetched(world) /\ p \notin Unavailable(world)
    BY <2>1, MadeOfFresh DEF CarriedForward
  <2>3. ~Pinned(world, p)
    BY <2>1, <2>2 DEF Candidates, Unavailable, Accepted, Pinned, OnRelease
  <2> SUFFICES ASSUME ~world.offers[p].deprecated, world.offers[p].verified \/ p \in Official, p \in world.registers
               PROVE  SelectPreferred(world.offers[p].leaves, FALSE) = NoVersion
    BY <2>2, <2>3 DEF Refused
  <2>4. p \in Candidates(world)
    BY <2>2 DEF Candidates
  <2>5. Selected(world, p) = NoVersion
    BY <2>1, <2>4 DEF Accepted
  <2> QED  BY <2>3, <2>5 DEF Selected
<1>3. RefusedStaysOut
  <2> SUFFICES ASSUME phase = "generated", NEW p \in DOMAIN output, p \in Fetched(world), ~Pinned(world, p)
               PROVE  ~world.offers[p].deprecated /\ Selected(world, p) # NoVersion
    BY DEF RefusedStaysOut
  <2>1. p \in Accepted(world) \/ p \in CarriedForward(world, fresh)
    BY <1>1, MadeOfFresh DEF Made
  <2>2. p \notin CarriedForward(world, fresh)
    BY DEF CarriedForward, Unavailable
  <2> QED  BY <2>1, <2>2, AcceptedIsSelected
<1>4. OnlyPinEnters
  <2> SUFFICES ASSUME phase = "generated", world.mode = "pinned", NEW p \in Official, p \in DOMAIN output
               PROVE  output[p].version = Pin \/ (p \in DOMAIN listing /\ output[p] = listing[p])
    BY DEF OnlyPinEnters
  <2>1. output = reconcileReleaseBranchCatalog(world, fresh)
    BY <1>1 DEF Made, OnRelease
  <2>2. CASE p \in Accepted(world)
    <3>1. output[p].version = Selected(world, p) /\ Selected(world, p) # NoVersion
      BY <2>1, <2>2, MadeOfFresh, AcceptedIsSelected
    <3>2. Selected(world, p) \in {NoVersion, Pin}
      BY DEF Selected, Pinned, SelectPinned
    <3> QED  BY <3>1, <3>2
  <2>3. CASE p \notin Accepted(world)
    BY <2>1, <2>3, MadeOfFresh
  <2> QED  BY <2>2, <2>3
<1>5. IconsSurviveRelease
  <2> SUFFICES ASSUME phase = "generated", OnRelease(world), NEW p \in DOMAIN output, p \in DOMAIN listing,
                      output[p].version # listing[p].version, listing[p].icon # ReleaseIcon
               PROVE  output[p].icon # ReleaseIcon
    BY DEF IconsSurviveRelease
  <2>1. output = reconcileReleaseBranchCatalog(world, fresh)
    BY <1>1 DEF Made
  <2>2. p \in Accepted(world)
    BY <2>1, MadeOfFresh
  <2>3. /\ output[p].version = Selected(world, p) /\ output[p].icon = KeptIcon(p, fresh[p], listing[p])
        /\ fresh[p].version = Selected(world, p) /\ fresh[p].icon = IconOf(world, p)
    BY <2>1, <2>2, MadeOfFresh
  <2>4. CASE p \in Official
    BY <2>3, <2>4 DEF KeptIcon
  <2>5. CASE p \notin Official
    <3>1. Selected(world, p) # NoVersion /\ IconOf(world, p) = PublishedIcon(Selected(world, p))
      BY <2>2, <2>5, AcceptedIsSelected DEF Packages
    <3>2. PublishedIcon(Selected(world, p)) # ReleaseIcon
      <4>1. PublishedIcon(Selected(world, p)).of = Selected(world, p) /\ ReleaseIcon.of = NoVersion
        BY DEF PublishedIcon, ReleaseIcon
      <4> QED  BY <3>1, <4>1
    <3> QED  BY <2>3, <2>5, <3>1, <3>2 DEF KeptIcon
  <2> QED  BY <2>4, <2>5
<1>6. ToolkitIconsAgree /\ DocsFollow
  BY DEF CatalogInv, ToolkitIconsAgree, IconsAgreeIn, DocsFollow
<1> QED  BY <1>2, <1>3, <1>4, <1>5, <1>6

-----------------------------------------------------------------------------
(* The copies of the schema.  While a run lists the releases, those that are *)
(* due have been found or are further down the list, wherever new ones       *)
(* were put on top of it; what it has synchronised has a copy.               *)
Below(n) == {published[i] : i \in {j \in DOMAIN published : j > (n - 1) * PageSize}}

CliInv ==
    /\ published \in Seq(Versions) /\ DOMAIN copies \subseteq Versions
    /\ index.versions \subseteq DOMAIN copies
    /\ index.versions # {} => index.latest = Max(index.versions)
    /\ \/ run \in [phase : {"none"}, number : 0 .. MaxRuns]
       \/ /\ run \in [phase : {"listing"}, number : 0 .. MaxRuns, page : Nat \ {0}, versions : SUBSET Versions,
                      due : SUBSET Versions]
          /\ \A version \in run.due : Shipped(version)
          /\ run.due \subseteq run.versions \union Below(run.page)
       \/ /\ run \in [phase : {"syncing", "indexing"}, number : 0 .. MaxRuns, left : SUBSET Versions,
                      versions : SUBSET Versions, due : SUBSET Versions]
          /\ run.due \subseteq run.versions /\ run.left \subseteq run.versions
          /\ run.phase = "syncing" => run.left # {}
          /\ run.phase = "indexing" => run.left = {}
          /\ run.versions \ run.left \subseteq DOMAIN copies

\* A page has the releases from its first place on, all of them if it is not full.
LEMMA PageIsRead ==
    ASSUME published \in Seq(Versions), NEW n \in Nat \ {0}, NEW i \in DOMAIN published, i > (n - 1) * PageSize
    PROVE  \/ \E j \in DOMAIN Page(n) : Page(n)[j] = published[i]
           \/ Len(Page(n)) = PageSize /\ i > n * PageSize
<1> DEFINE lo == (n - 1) * PageSize
           hi == IF n * PageSize < Len(published) THEN n * PageSize ELSE Len(published)
<1>1. PageSize \in Nat /\ PageSize > 0 /\ n \in Nat /\ Len(published) \in Nat /\ i \in 1 .. Len(published)
  BY CliAssumption
<1>2. lo \in Nat /\ n * PageSize \in Nat /\ n * PageSize = lo + PageSize
  <2>1. n - 1 \in Nat
    OBVIOUS
  <2>2. \A a, b \in Nat : a * b \in Nat
    OBVIOUS
  <2>3. n * PageSize = (n - 1) * PageSize + PageSize
    BY <1>1
  <2> QED  BY <1>1, <2>1, <2>2, <2>3
<1>3. Page(n) = SubSeq(published, lo + 1, hi)
  BY DEF Page
<1> HIDE DEF lo
<1>4. hi \in 0 .. Len(published) /\ lo + 1 \in 1 .. Len(published) /\ lo + 1 <= hi
  BY <1>1, <1>2 DEF lo
<1>5. /\ Len(SubSeq(published, lo + 1, hi)) = hi - lo
      /\ DOMAIN SubSeq(published, lo + 1, hi) = 1 .. (hi - lo)
      /\ \A j \in 1 .. (hi - lo) : SubSeq(published, lo + 1, hi)[j] = published[lo + j]
  <2> HIDE DEF hi
  <2> QED  BY <1>1, <1>2, <1>4
<1>6. CASE i <= hi
  <2>1. i - lo \in 1 .. (hi - lo) /\ lo + (i - lo) = i
    <3>1. i > lo
      BY DEF lo
    <3> HIDE DEF hi
    <3> QED  BY <1>1, <1>2, <1>4, <1>6, <3>1
  <2>2. i - lo \in DOMAIN Page(n) /\ Page(n)[i - lo] = published[i]
    <3> HIDE DEF hi
    <3> QED  BY <1>3, <1>5, <2>1
  <2> QED  BY <2>2
<1>7. CASE i > hi
  <2>1. hi = n * PageSize
    BY <1>1, <1>2, <1>7
  <2>2. Len(Page(n)) = PageSize
    <3> HIDE DEF hi
    <3> QED  BY <1>1, <1>2, <1>3, <1>5, <2>1
  <2> QED  BY <1>7, <2>1, <2>2
<1> QED  BY <1>1, <1>4, <1>6, <1>7

LEMMA PageIsPublished ==
    ASSUME published \in Seq(Versions), NEW n \in Nat \ {0}, NEW j \in DOMAIN Page(n)
    PROVE  Page(n)[j] \in Versions
<1> DEFINE lo == (n - 1) * PageSize + 1
           hi == IF n * PageSize < Len(published) THEN n * PageSize ELSE Len(published)
<1>1. PageSize \in Nat /\ Len(published) \in Nat
  BY CliAssumption
<1>2. n - 1 \in Nat /\ n \in Nat /\ \A a, b \in Nat : a * b \in Nat
  OBVIOUS
<1>3. lo \in Nat /\ lo >= 1 /\ hi \in 0 .. Len(published)
  BY <1>1, <1>2
<1>4. Page(n) = SubSeq(published, lo, hi)
  BY DEF Page
<1> HIDE DEF lo, hi
<1>5. SubSeq(published, lo, hi) \in Seq(Versions)
  <2>1. lo \in Int /\ hi \in Int /\ \A i \in lo .. hi : published[i] \in Versions
    BY <1>1, <1>3
  <2> QED  BY <2>1, SubSeqProperties, Zenon
<1>6. Page(n) \in Seq(Versions)
  BY <1>4, <1>5
<1>7. DOMAIN Page(n) = 1 .. Len(Page(n))
  BY <1>6
<1> QED  BY <1>6, <1>7, ElementOfSeq

LEMMA CliStepKeeps == ASSUME CliInv, [CliNext]_cliVars PROVE CliInv'
<1>1. published \in Seq(Versions) /\ DOMAIN copies \subseteq Versions
  BY DEF CliInv
<1>2. ASSUME NEW version \in Versions, Publish(version) PROVE CliInv'
  <2>1. UNCHANGED <<copies, index, run>> /\ published' = <<version>> \o published
    BY <1>2 DEF Publish
  <2>2. published' \in Seq(Versions) /\ Len(published') = Len(published) + 1
    BY <1>1, <2>1
  <2>3. \A i \in DOMAIN published : i + 1 \in DOMAIN published' /\ published'[i + 1] = published[i]
    BY <1>1, <2>1, <2>2
  <2>4. ASSUME run.phase = "listing" PROVE Below(run.page) \subseteq Below(run.page)'
    <3>1. run.page \in Nat \ {0} /\ run' = run /\ PageSize \in Nat
      BY <2>1, <2>4, CliAssumption DEF CliInv
    <3>2. (run.page - 1) * PageSize \in Nat
      <4>1. run.page - 1 \in Nat /\ \A a, b \in Nat : a * b \in Nat
        BY <3>1
      <4> QED  BY <3>1, <4>1
    <3> SUFFICES ASSUME NEW i \in DOMAIN published, i > (run.page - 1) * PageSize
                 PROVE  published[i] \in Below(run.page)'
      BY DEF Below
    <3>3. i \in Nat /\ i + 1 > (run.page - 1) * PageSize
      BY <1>1, <3>2
    <3> QED  BY <2>3, <3>1, <3>3 DEF Below
  <2> QED  BY <2>1, <2>2, <2>4 DEF CliInv
<1>3. ASSUME Start PROVE CliInv'
  <2>1. /\ UNCHANGED <<published, copies, index>> /\ run.number + 1 \in 0 .. MaxRuns
        /\ run' = [phase |-> "listing", number |-> run.number + 1, page |-> 1, versions |-> {},
                   due |-> {version \in CliPublished : Shipped(version)}]
    BY <1>3, CliAssumption DEF Start, CliInv
  <2>2. CliPublished \subseteq Versions
    BY <1>1 DEF CliPublished
  <2>3. CliPublished \subseteq Below(1)
    <3>1. (1 - 1) * PageSize = 0 /\ \A i \in DOMAIN published : i > 0
      BY <1>1, CliAssumption
    <3> QED  BY <3>1 DEF CliPublished, Below
  <2>4. Below(run.page)' = Below(1)
    BY <2>1 DEF Below
  <2> QED  BY <2>1, <2>2, <2>3, <2>4 DEF CliInv, Shipped
<1>4. ASSUME NEW version \in Versions, StartPinned(version) PROVE CliInv'
  <2>1. /\ UNCHANGED <<published, copies, index>> /\ run.number + 1 \in 0 .. MaxRuns
        /\ run' = [phase |-> "syncing", number |-> run.number + 1, left |-> {version}, versions |-> {version}, due |-> {}]
    BY <1>4, CliAssumption DEF StartPinned, CliInv
  <2> QED  BY <2>1 DEF CliInv
<1>5. ASSUME FetchPage PROVE CliInv'
  <2> DEFINE page == Page(run.page)
             found == run.versions \union {page[i] : i \in {j \in DOMAIN page : Shipped(page[j])}}
  <2>1. /\ run \in [phase : {"listing"}, number : 0 .. MaxRuns, page : Nat \ {0}, versions : SUBSET Versions,
                    due : SUBSET Versions]
        /\ \A version \in run.due : Shipped(version)
        /\ run.due \subseteq run.versions \union Below(run.page)
    BY <1>5 DEF FetchPage, CliInv
  <2>2. UNCHANGED <<published, copies, index>>
    BY <1>5 DEF FetchPage
  <2>3. found \subseteq Versions
    BY <1>1, <2>1, PageIsPublished
  <2>4. ASSUME NEW version \in run.due
        PROVE  version \in found \/ (Len(page) = PageSize /\ \E i \in DOMAIN published :
                                         published[i] = version /\ i > run.page * PageSize)
    <3>1. CASE version \in run.versions
      BY <3>1
    <3>2. CASE version \notin run.versions
      <4>1. PICK i \in DOMAIN published : version = published[i] /\ i > (run.page - 1) * PageSize
        BY <2>1, <3>2 DEF Below
      <4>2. \/ \E j \in DOMAIN page : page[j] = version
            \/ Len(page) = PageSize /\ i > run.page * PageSize
        BY <1>1, <2>1, <4>1, PageIsRead
      <4>3. Shipped(version)
        BY <2>1
      <4> HIDE DEF page
      <4> QED  BY <4>1, <4>2, <4>3
    <3> QED  BY <3>1, <3>2
  <2>5. run' = IF Len(page) = PageSize THEN [run EXCEPT !.page = @ + 1, !.versions = found]
               ELSE IF found = {} THEN [phase |-> "none", number |-> run.number]
               ELSE [phase |-> "syncing", number |-> run.number, left |-> found, versions |-> found, due |-> run.due]
    BY <1>5 DEF FetchPage
  <2> HIDE DEF page, found
  <2>6. CASE Len(page) = PageSize
    <3>1. /\ run' \in [phase : {"listing"}, number : 0 .. MaxRuns, page : Nat \ {0}, versions : SUBSET Versions,
                       due : SUBSET Versions]
          /\ run'.page = run.page + 1 /\ run'.versions = found /\ run'.due = run.due
      <4>1. run.page + 1 \in Nat \ {0}
        BY <2>1
      <4> QED  BY <2>1, <2>3, <2>5, <2>6, <4>1
    <3>2. (run.page + 1) - 1 = run.page
      BY <2>1
    <3>3. Below(run.page)' = {published[i] : i \in {j \in DOMAIN published : j > run.page * PageSize}}
      BY <2>2, <3>1, <3>2 DEF Below
    <3>4. run'.due \subseteq run'.versions \union Below(run.page)'
      BY <2>4, <3>1, <3>3
    <3> QED  BY <1>1, <2>1, <2>2, <3>1, <3>4 DEF CliInv, Shipped
  <2>7. CASE Len(page) # PageSize /\ found = {}
    BY <2>1, <2>2, <2>5, <2>7 DEF CliInv
  <2>8. CASE Len(page) # PageSize /\ found # {}
    <3>1. run.due \subseteq found
      BY <2>4, <2>8
    <3> QED  BY <2>1, <2>2, <2>3, <2>5, <2>8, <3>1 DEF CliInv
  <2> QED  BY <2>6, <2>7, <2>8
<1>6. ASSUME NEW version \in Versions, SyncSchema(version) PROVE CliInv'
  <2>1. /\ run \in [phase : {"syncing", "indexing"}, number : 0 .. MaxRuns, left : SUBSET Versions,
                    versions : SUBSET Versions, due : SUBSET Versions]
        /\ run.phase = "syncing" /\ run.left # {}
        /\ run.due \subseteq run.versions /\ run.left \subseteq run.versions
        /\ run.versions \ run.left \subseteq DOMAIN copies
    BY <1>6 DEF SyncSchema, CliInv
  <2>2. DOMAIN copies' = DOMAIN copies \union {version} /\ UNCHANGED <<published, index>>
    BY <1>6 DEF SyncSchema
  <2>3. /\ run' \in [phase : {"syncing", "indexing"}, number : 0 .. MaxRuns, left : SUBSET Versions,
                     versions : SUBSET Versions, due : SUBSET Versions]
        /\ run'.left = run.left \ {version} /\ run'.versions = run.versions /\ run'.due = run.due
        /\ run'.phase = IF run.left = {version} THEN "indexing" ELSE "syncing"
    BY <1>6, <2>1 DEF SyncSchema
  <2> QED  BY <1>1, <2>1, <2>2, <2>3 DEF CliInv
<1>7. ASSUME WriteIndex PROVE CliInv'
  <2>1. run.versions \subseteq DOMAIN copies /\ run.number \in 0 .. MaxRuns
    BY <1>7 DEF WriteIndex, CliInv
  <2>2. /\ index' = [versions |-> index.versions \union run.versions, latest |-> Max(index.versions \union run.versions)]
        /\ run' = [phase |-> "none", number |-> run.number] /\ UNCHANGED <<published, copies>>
    BY <1>7 DEF WriteIndex, Indexed
  <2> QED  BY <2>1, <2>2 DEF CliInv
<1>8. ASSUME Fail PROVE CliInv'
  BY <1>8 DEF Fail, CliInv
<1>9. ASSUME NEW version \in Versions, Tear(version) PROVE CliInv'
  <2>1. DOMAIN copies' = DOMAIN copies \union {version} /\ UNCHANGED <<published, index>>
        /\ run' = [phase |-> "none", number |-> run.number] /\ run.number \in 0 .. MaxRuns
    BY <1>9 DEF Tear, CliInv
  <2> QED  BY <1>1, <2>1 DEF CliInv
<1>10. ASSUME UNCHANGED cliVars PROVE CliInv'
  BY <1>10 DEF cliVars, CliInv, Below, Shipped
<1> QED  BY <1>2, <1>3, <1>4, <1>5, <1>6, <1>7, <1>8, <1>9, <1>10 DEF CliNext

LEMMA CliInvariant == CliSpec => []CliInv
<1>1. CliInit => CliInv
  BY CliAssumption DEF CliInit, CliInv
<1> QED  BY <1>1, CliStepKeeps, PTL DEF CliSpec

(* The index names versions that are there and the highest as the latest,   *)
(* and a run that has listed the releases misses none that was out when it  *)
(* began, whatever is published between two pages (update-schemas.ts).      *)
THEOREM CopiesAreServed == CliSpec => [](TypeOK /\ IndexServes /\ RunSyncsReleases)
<1>1. CliInv => TypeOK /\ IndexServes /\ RunSyncsReleases
  <2> SUFFICES ASSUME CliInv PROVE TypeOK /\ IndexServes /\ RunSyncsReleases
    OBVIOUS
  <2>1. CliPublished \subseteq Versions
    BY DEF CliInv, CliPublished
  <2>2. TypeOK
    BY <2>1 DEF CliInv, TypeOK
  <2> QED  BY <2>2 DEF CliInv, IndexServes, RunSyncsReleases
<1> QED  BY CliInvariant, <1>1, PTL

(* A copy is never written again nor taken away, and no version leaves the  *)
(* index (syncSchema, writeIndex).                                          *)
THEOREM CopiesStayFrozen == CliSpec => [][CopiesAreFrozen]_cliVars
<1>1. [CliNext]_cliVars => [CopiesAreFrozen]_cliVars
  <2> SUFFICES ASSUME CliNext PROVE CopiesAreFrozen
    OBVIOUS
  <2>1. ASSUME NEW version \in Versions, SyncSchema(version) \/ Tear(version) PROVE CopiesAreFrozen
    <3>1. index' = index
      BY <2>1 DEF SyncSchema, Tear
    <3>2. \A v \in DOMAIN copies : v \in DOMAIN copies' /\ copies'[v] = copies[v]
      BY <2>1 DEF SyncSchema, Tear
    <3> QED  BY <3>1, <3>2 DEF CopiesAreFrozen
  <2>2. ASSUME WriteIndex PROVE CopiesAreFrozen
    BY <2>2 DEF WriteIndex, Indexed, CopiesAreFrozen
  <2> QED  BY <2>1, <2>2 DEF CliNext, Publish, Start, StartPinned, FetchPage, Fail, CopiesAreFrozen
<1> QED  BY <1>1, PTL DEF CliSpec

-----------------------------------------------------------------------------
(* The samples.  What a sample has saved is on disk, under the names its    *)
(* README gave, whatever the samples beside it do.                           *)
Ref == [dir : STRING, base : STRING, theme : Themes]

SamplePath == [dir : STRING, file : STRING]

Work ==
    [stage : {"waiting", "images", "done", "out", "dropped"}, refs : Seq(Ref), at : Nat \ {0}, saved : SUBSET STRING,
     local : SUBSET Ref, tree : Seq(SamplePath), code : BOOLEAN]

OnDisk(s, refs, base) == \E k \in DOMAIN refs : refs[k].base = base /\ File(s, refs[k]) \in disk

Gathered(s) ==
    LET w == work[s] IN
    /\ w.stage \in {"waiting", "images", "done"} => w.tree \in Trees(s)
    /\ w.stage = "waiting" => w.saved = {} /\ w.local = {}
    /\ w.stage \in {"images", "done"} =>
          /\ w.local \subseteq Range(w.refs)
          /\ \A ref \in w.local : ref.base \in w.saved
          /\ \A base \in w.saved : OnDisk(s, w.refs, base)

ListedWell(s) ==
    LET sample == samplesJson[s] IN
    /\ s \in SampleNames /\ sample.refs \in Seq(Ref) /\ sample.thumbnail = Thumbnail(sample.refs)
    /\ sample.local \subseteq Range(sample.refs)
    /\ \E tree \in Trees(s) : sample.appHost = DetectAppHost(tree)

SampleInv ==
    /\ work \in [SampleNames -> Work] /\ sampleFailed \in BOOLEAN /\ runs \in 0..SampleMaxRuns
    /\ \A f \in disk : f.sample \in SampleNames
    /\ \A s \in SampleNames : Gathered(s)
    /\ \A s \in DOMAIN samplesJson : ListedWell(s)
    /\ LocalImagesExist

\* The image that is taken for a thumbnail, or the two.
LEMMA ThumbnailFits ==
    ASSUME NEW refs \in Seq(Ref)
    PROVE  LET t == Thumbnail(refs) IN
           /\ (t.light = 0) = (refs = <<>>)
           /\ t.light # 0 /\ t.light = t.dark /\ refs[t.light].theme # "none" =>
                \A i \in DOMAIN refs : refs[i].theme # "none" /\ (i < Len(refs) => refs[i + 1].theme = refs[i].theme)
           /\ t.light # t.dark => refs[t.light].theme = "light" /\ refs[t.dark].theme = "dark"
<1> DEFINE good == {i \in DOMAIN refs : refs[i].theme = "none" \/ Paired(refs, i)}
           i == IF good = {} THEN IF refs = <<>> THEN 0 ELSE 1 ELSE CHOOSE k \in good : \A l \in good : k <= l
           t == Thumbnail(refs)
<1>1. t = IF i = 0 \/ ~Paired(refs, i) THEN [light |-> i, dark |-> i]
          ELSE IF refs[i].theme = "light" THEN [light |-> i, dark |-> i + 1] ELSE [light |-> i + 1, dark |-> i]
  BY DEF Thumbnail
<1>2. /\ DOMAIN refs = 1 .. Len(refs) /\ Len(refs) \in Nat
      /\ \A j \in DOMAIN refs : refs[j].theme \in Themes
  <2>1. DOMAIN refs = 1 .. Len(refs) /\ Len(refs) \in Nat /\ \A j \in DOMAIN refs : refs[j] \in Ref
    OBVIOUS
  <2> QED  BY <2>1 DEF Ref
<1>3. \A j : Paired(refs, j) <=> j < Len(refs) /\ refs[j].theme # "none" /\ refs[j + 1].theme # "none"
                                /\ refs[j].theme # refs[j + 1].theme
  BY DEF Paired
<1>4. CASE good = {} /\ refs = <<>>
  BY <1>1, <1>4
<1>5. CASE good = {} /\ refs # <<>>
  <2>1. i = 1 /\ 1 \in DOMAIN refs
    BY <1>2, <1>5
  <2>2. \A j \in DOMAIN refs : refs[j].theme # "none" /\ ~Paired(refs, j)
    BY <1>5
  <2>3. t = [light |-> 1, dark |-> 1]
    BY <1>1, <2>1, <2>2
  <2>4. ASSUME NEW j \in DOMAIN refs, j < Len(refs) PROVE refs[j + 1].theme = refs[j].theme
    <3>1. j + 1 \in DOMAIN refs
      BY <1>2, <2>4
    <3> QED  BY <1>3, <2>2, <2>4, <3>1
  <2> QED  BY <1>5, <2>2, <2>3, <2>4
<1>6. CASE good # {}
  <2>1. good \in SUBSET Nat
    BY <1>2
  <2>2. \E k \in good : \A l \in good : k <= l
    <3> HIDE DEF good
    <3> QED  BY <1>6, <2>1, LeastNatural
  <2>3. i \in good
    <3> HIDE DEF good
    <3> QED  BY <1>6, <2>2
  <2> HIDE DEF i
  <2>4. i \in DOMAIN refs /\ (refs[i].theme = "none" \/ Paired(refs, i)) /\ i # 0 /\ refs # <<>>
    BY <1>2, <2>3
  <2>5. CASE Paired(refs, i)
    <3>1. i + 1 \in DOMAIN refs /\ i + 1 # 0 /\ i + 1 # i
      BY <1>2, <1>3, <2>4, <2>5
    <3>2. refs[i].theme \in {"light", "dark"} /\ refs[i + 1].theme \in {"light", "dark"}
          /\ refs[i].theme # refs[i + 1].theme
      BY <1>2, <1>3, <2>4, <2>5, <3>1 DEF Themes
    <3>3. CASE refs[i].theme = "light"
      <4>1. t = [light |-> i, dark |-> i + 1]
        BY <1>1, <2>4, <2>5, <3>3
      <4> HIDE DEF t
      <4>2. t.light = i /\ t.dark = i + 1
        BY <4>1
      <4> QED  BY <2>4, <3>1, <3>2, <3>3, <4>2 DEF t
    <3>4. CASE refs[i].theme # "light"
      <4>1. t = [light |-> i + 1, dark |-> i]
        BY <1>1, <2>4, <2>5, <3>4
      <4> HIDE DEF t
      <4>2. t.light = i + 1 /\ t.dark = i
        BY <4>1
      <4> QED  BY <2>4, <3>1, <3>2, <3>4, <4>2 DEF t
    <3> QED  BY <3>3, <3>4
  <2>6. CASE ~Paired(refs, i)
    <3>1. t = [light |-> i, dark |-> i]
      BY <1>1, <2>6
    <3> HIDE DEF t
    <3>2. t.light = i /\ t.dark = i
      BY <3>1
    <3> QED  BY <2>4, <2>6, <3>2 DEF t
  <2> QED  BY <2>5, <2>6
<1> QED  BY <1>4, <1>5, <1>6

\* The first of a list that is of a kind.
LEMMA FirstOfMany ==
    ASSUME NEW n \in Nat, NEW T \in SUBSET (1 .. n), T # {}
    PROVE  \E i \in T : \A j \in 1 .. (i - 1) : j \notin T
<1>1. T \in SUBSET Nat
  OBVIOUS
<1>2. PICK i \in T : \A m \in T : i <= m
  BY <1>1, LeastNatural
<1>3. \A j \in 1 .. (i - 1) : ~(i <= j)
  BY <1>1
<1> QED  BY <1>2, <1>3

\* A project is detected from a file of the listing, and its code beside it.
LEMMA HostIsListed ==
    ASSUME NEW paths \in Seq(SamplePath), DetectAppHost(paths).kind = "csproj"
    PROVE  \E p \in Range(paths) : p.file = "AppHost.csproj" /\ p.dir = DetectAppHost(paths).dir
<1> DEFINE T == {i \in DOMAIN paths : paths[i].file = "AppHost.csproj"}
           project == paths[CHOOSE i \in DOMAIN paths : paths[i].file = "AppHost.csproj"
                                /\ \A j \in 1..(i - 1) : ~(paths[j].file = "AppHost.csproj")]
           beside(name) == {i \in DOMAIN paths : paths[i].dir = project.dir /\ paths[i].file = name}
           first(name) == paths[CHOOSE i \in DOMAIN paths : (paths[i].dir = project.dir /\ paths[i].file = name)
                                /\ \A j \in 1..(i - 1) : ~(paths[j].dir = project.dir /\ paths[j].file = name)]
<1>1. DOMAIN paths = 1 .. Len(paths) /\ Len(paths) \in Nat
  OBVIOUS
<1>2. T # {} /\ DetectAppHost(paths) = AppHost("csproj", Csproj(paths))
  BY DEF DetectAppHost, AppHost, Found, SampleNone
<1>3. project \in Range(paths) /\ project.file = "AppHost.csproj"
  <2>1. \E i \in T : \A j \in 1 .. (i - 1) : j \notin T
    <3>1. T \in SUBSET (1 .. Len(paths))
      BY <1>1
    <3> HIDE DEF T
    <3> QED  BY <1>1, <1>2, <3>1, FirstOfMany
  <2>2. \E i \in DOMAIN paths : paths[i].file = "AppHost.csproj" /\ \A j \in 1..(i - 1) : ~(paths[j].file = "AppHost.csproj")
    <3>1. PICK i \in T : \A j \in 1 .. (i - 1) : j \notin T
      BY <2>1
    <3>2. \A j \in 1 .. (i - 1) : j \in DOMAIN paths
      BY <1>1
    <3> QED  BY <3>1, <3>2
  <2> QED  BY <2>2 DEF Range
<1> HIDE DEF project
<1>4. ASSUME NEW name, beside(name) # {} PROVE first(name).dir = project.dir
  <2>1. \E i \in beside(name) : \A j \in 1 .. (i - 1) : j \notin beside(name)
    <3>1. beside(name) \in SUBSET (1 .. Len(paths))
      BY <1>1
    <3> HIDE DEF beside
    <3> QED  BY <1>1, <1>4, <3>1, FirstOfMany
  <2>2. \E i \in DOMAIN paths : (paths[i].dir = project.dir /\ paths[i].file = name)
                                /\ \A j \in 1..(i - 1) : ~(paths[j].dir = project.dir /\ paths[j].file = name)
    <3>1. PICK i \in beside(name) : \A j \in 1 .. (i - 1) : j \notin beside(name)
      BY <2>1
    <3>2. \A j \in 1 .. (i - 1) : j \in DOMAIN paths
      BY <1>1
    <3> QED  BY <3>1, <3>2
  <2> QED  BY <2>2
<1>5. Csproj(paths) = IF beside("AppHost.cs") # {} THEN first("AppHost.cs")
                      ELSE IF beside("Program.cs") # {} THEN first("Program.cs") ELSE project
  <2>1. Csproj(paths) = IF \E i \in DOMAIN paths : paths[i].dir = project.dir /\ paths[i].file = "AppHost.cs"
                        THEN first("AppHost.cs")
                        ELSE IF \E i \in DOMAIN paths : paths[i].dir = project.dir /\ paths[i].file = "Program.cs"
                        THEN first("Program.cs") ELSE project
    BY Zenon DEF Csproj, First, Found, project
  <2>2. \A name : (\E i \in DOMAIN paths : paths[i].dir = project.dir /\ paths[i].file = name) <=> beside(name) # {}
    OBVIOUS
  <2> HIDE DEF beside, first
  <2> QED  BY <2>1, <2>2
<1> HIDE DEF beside, first
<1>6. Csproj(paths).dir = project.dir
  BY <1>4, <1>5
<1>7. DetectAppHost(paths).dir = project.dir
  BY <1>2, <1>6 DEF AppHost
<1> QED  BY <1>3, <1>7

\* A step of one sample leaves the others their images.
LEMMA OneSampleKeeps ==
    ASSUME SampleInv, NEW s \in SampleNames, NEW w \in Work, Set(s, w),
           UNCHANGED <<runs, samplesJson>>, sampleFailed' \in BOOLEAN, spoiled \subseteq spoiled',
           NEW base,
           \/ disk' = disk
           \/ disk' = Without(s, base) /\ <<s, base>> \in spoiled'
           \/ \E ref \in Ref : ref.base = base /\ disk' = Without(s, base) \union {File(s, ref)},
           Gathered(s)'
    PROVE  SampleInv'
<1>1. work' \in [SampleNames -> Work] /\ \A t \in SampleNames : t # s => work'[t] = work[t]
  BY DEF SampleInv, Set
<1>2. \A f \in disk' : f \in disk \/ f.sample = s
  BY DEF Without, File
<1>3. \A f \in disk : f.sample # s \/ f.base # base => f \in disk'
  BY DEF Without
<1>4. ASSUME NEW t \in SampleNames, t # s PROVE Gathered(t)'
  <2>1. \A refs, b : OnDisk(t, refs, b) => OnDisk(t, refs, b)'
    <3> SUFFICES ASSUME NEW refs, NEW b, NEW k \in DOMAIN refs, refs[k].base = b, File(t, refs[k]) \in disk
                 PROVE  OnDisk(t, refs, b)'
      BY DEF OnDisk
    <3>1. File(t, refs[k]).sample = t
      BY DEF File
    <3> QED  BY <1>3, <1>4, <3>1 DEF OnDisk
  <2>2. Gathered(t)
    BY DEF SampleInv
  <2>3. work'[t] = work[t]
    BY <1>1, <1>4
  <2> QED  BY <2>1, <2>2, <2>3 DEF Gathered
<1>5. \A f \in disk' : f.sample \in SampleNames
  BY <1>2 DEF SampleInv
<1>6. \A t \in DOMAIN samplesJson : ListedWell(t)'
  BY DEF SampleInv, ListedWell
<1>7. LocalImagesExist'
  <2> SUFFICES ASSUME NEW t \in DOMAIN samplesJson, NEW ref \in samplesJson[t].local
               PROVE  (\E f \in disk' : f.sample = t /\ f.base = ref.base) \/ <<t, ref.base>> \in spoiled'
    BY DEF LocalImagesExist
  <2>1. CASE <<t, ref.base>> \in spoiled
    BY <2>1
  <2>2. CASE \E f \in disk : f.sample = t /\ f.base = ref.base
    <3>1. PICK f \in disk : f.sample = t /\ f.base = ref.base
      BY <2>2
    <3>2. CASE f \in disk'
      BY <3>1, <3>2
    <3>3. CASE f \notin disk'
      <4>1. t = s /\ ref.base = base
        BY <1>3, <3>1, <3>3
      <4>2. CASE <<s, base>> \in spoiled'
        BY <4>1, <4>2
      <4>3. CASE \E r \in Ref : r.base = base /\ disk' = Without(s, base) \union {File(s, r)}
        <5>1. PICK r \in Ref : r.base = base /\ disk' = Without(s, base) \union {File(s, r)}
          BY <4>3
        <5>2. File(s, r) \in disk' /\ File(s, r).sample = s /\ File(s, r).base = base
          BY <5>1 DEF File
        <5> QED  BY <4>1, <5>2
      <4> QED  BY <3>1, <3>3, <4>2, <4>3
    <3> QED  BY <3>2, <3>3
  <2> QED  BY <2>1, <2>2 DEF SampleInv, LocalImagesExist
<1>8. \A t \in SampleNames : Gathered(t)'
  BY <1>4
<1> QED  BY <1>1, <1>5, <1>6, <1>7, <1>8 DEF SampleInv

\* The next image of a sample: known, saved, not found, or broken off.
LEMMA ImageKeeps == ASSUME SampleInv, NEW s \in SampleNames, Image(s) PROVE SampleInv'
<1> DEFINE w == work[s]
           ref == w.refs[w.at]
<1>1. w \in Work /\ w.stage = "images" /\ w.at <= Len(w.refs) /\ Gathered(s)
  BY DEF Image, SampleInv
<1>2. /\ UNCHANGED <<sampleFailed, runs, samplesJson>>
      /\ \/ ref.base \in w.saved /\ Set(s, Saved(w, ref, TRUE)) /\ UNCHANGED <<disk, spoiled>>
         \/ /\ ref.base \notin w.saved /\ Set(s, Saved(w, ref, TRUE))
            /\ disk' = Without(s, ref.base) \union {File(s, ref)} /\ UNCHANGED spoiled
         \/ Set(s, Saved(w, ref, FALSE)) /\ UNCHANGED <<disk, spoiled>>
         \/ /\ ref.base \notin w.saved /\ Set(s, Saved(w, ref, FALSE))
            /\ disk' = Without(s, ref.base) /\ spoiled' = spoiled \union {<<s, ref.base>>}
  BY DEF Image, Known
<1>3. w.at \in DOMAIN w.refs /\ ref \in Ref /\ ref \in Range(w.refs) /\ ref.base \in STRING
  <2>1. w.refs \in Seq(Ref) /\ w.at \in Nat \ {0}
    BY <1>1 DEF Work
  <2>2. w.at \in 1 .. Len(w.refs) /\ DOMAIN w.refs = 1 .. Len(w.refs)
    BY <1>1, <2>1
  <2>3. ref \in Ref
    BY <2>1, <2>2
  <2> QED  BY <2>2, <2>3 DEF Range, Ref
<1>4. work' = [work EXCEPT ![s] = work'[s]] /\ work'[s] \in {Saved(w, ref, TRUE), Saved(w, ref, FALSE)}
  BY <1>2 DEF Set, SampleInv
<1>5. ASSUME NEW ok \in BOOLEAN
      PROVE  /\ Saved(w, ref, ok) \in Work
             /\ Saved(w, ref, ok).stage = "images" /\ Saved(w, ref, ok).refs = w.refs /\ Saved(w, ref, ok).tree = w.tree
             /\ Saved(w, ref, ok).local = IF ok THEN w.local \union {ref} ELSE w.local
             /\ Saved(w, ref, ok).saved = IF ok THEN w.saved \union {ref.base} ELSE w.saved
  <2>1. \A v \in Work, x \in Nat \ {0} :
            /\ [v EXCEPT !.at = x] \in Work
            /\ [v EXCEPT !.at = x].stage = v.stage /\ [v EXCEPT !.at = x].refs = v.refs
            /\ [v EXCEPT !.at = x].tree = v.tree /\ [v EXCEPT !.at = x].local = v.local
            /\ [v EXCEPT !.at = x].saved = v.saved
    BY DEF Work
  <2>2. \A v \in Work, x \in SUBSET Ref :
            /\ [v EXCEPT !.local = x] \in Work /\ [v EXCEPT !.local = x].local = x
            /\ [v EXCEPT !.local = x].stage = v.stage /\ [v EXCEPT !.local = x].refs = v.refs
            /\ [v EXCEPT !.local = x].tree = v.tree /\ [v EXCEPT !.local = x].saved = v.saved
    BY DEF Work
  <2>3. \A v \in Work, x \in SUBSET STRING :
            /\ [v EXCEPT !.saved = x] \in Work /\ [v EXCEPT !.saved = x].saved = x
            /\ [v EXCEPT !.saved = x].stage = v.stage /\ [v EXCEPT !.saved = x].refs = v.refs
            /\ [v EXCEPT !.saved = x].tree = v.tree /\ [v EXCEPT !.saved = x].local = v.local
    BY DEF Work
  <2>4. w.at + 1 \in Nat \ {0} /\ w.saved \subseteq STRING /\ w.local \subseteq Ref
    BY <1>1 DEF Work
  <2> DEFINE v1 == [w EXCEPT !.at = w.at + 1]
             l == IF ok THEN w.local \union {ref} ELSE w.local
             v2 == [v1 EXCEPT !.local = l]
             b == IF ok THEN w.saved \union {ref.base} ELSE w.saved
             v3 == [v2 EXCEPT !.saved = b]
  <2>5. Saved(w, ref, ok) = v3
    BY DEF Saved
  <2>6. l \in SUBSET Ref /\ b \in SUBSET STRING
    BY <1>3, <2>4
  <2> HIDE DEF w, ref, l, b
  <2>7. v1 \in Work /\ v1.stage = w.stage /\ v1.refs = w.refs /\ v1.tree = w.tree
    BY <1>1, <2>1, <2>4
  <2> HIDE DEF v1
  <2>8. v2 \in Work /\ v2.stage = w.stage /\ v2.refs = w.refs /\ v2.tree = w.tree /\ v2.local = l
    BY <2>2, <2>6, <2>7
  <2> HIDE DEF v2
  <2>9. v3 \in Work /\ v3.stage = w.stage /\ v3.refs = w.refs /\ v3.tree = w.tree /\ v3.local = l /\ v3.saved = b
    BY <2>3, <2>6, <2>8
  <2> HIDE DEF v3
  <2> QED  BY <1>1, <2>5, <2>9 DEF l, b
<1>6. \A b \in w.saved : OnDisk(s, w.refs, b)
  BY <1>1 DEF Gathered
<1>7. w.tree \in Trees(s) /\ w.local \subseteq Range(w.refs) /\ \A r \in w.local : r.base \in w.saved
  BY <1>1 DEF Gathered
\* the images it has saved stay, unless one of the same name is read again
<1>8. ASSUME NEW refs, refs = w.refs, \A f \in disk : f.sample # s \/ f.base # ref.base => f \in disk',
             ref.base \notin w.saved, NEW b \in w.saved
      PROVE  \E k \in DOMAIN refs : refs[k].base = b /\ File(s, refs[k]) \in disk'
  <2>1. PICK k \in DOMAIN refs : refs[k].base = b /\ File(s, refs[k]) \in disk
    BY <1>6, <1>8 DEF OnDisk
  <2>2. File(s, refs[k]).base = b /\ b # ref.base
    BY <1>8, <2>1 DEF File
  <2>3. File(s, refs[k]) \in disk'
    BY <1>8, <2>1, <2>2
  <2> QED  BY <2>1, <2>3
<1>9. Set(s, work'[s]) /\ work'[s] \in Work /\ sampleFailed' \in BOOLEAN /\ spoiled \subseteq spoiled'
  BY <1>2, <1>4, <1>5 DEF Set, SampleInv
<1>10. \A f \in disk : f.sample # s \/ f.base # ref.base => f \in disk'
  BY <1>2 DEF Without
<1>11. Gathered(s)'
  <2> DEFINE v == work'[s]
             refs == w.refs
  <2>1. PICK ok \in BOOLEAN : v = Saved(w, ref, ok) /\ (ok \/ disk' = disk \/ ref.base \notin w.saved)
                              /\ (ok => \/ ref.base \in w.saved /\ disk' = disk
                                        \/ ref.base \notin w.saved /\ File(s, ref) \in disk')
    <3>1. \A x : Set(s, x) => work'[s] = x
      BY DEF Set, SampleInv
    <3> HIDE DEF w, ref
    <3> QED  BY <1>2, <3>1
  <2>2. /\ v.stage = "images" /\ v.refs = refs /\ v.tree = w.tree
        /\ v.local = IF ok THEN w.local \union {ref} ELSE w.local
        /\ v.saved = IF ok THEN w.saved \union {ref.base} ELSE w.saved
    BY <1>5, <2>1
  <2>3. \A b \in w.saved : \E k \in DOMAIN refs : refs[k].base = b /\ File(s, refs[k]) \in disk'
    <3>1. CASE disk' = disk
      BY <1>6, <3>1 DEF OnDisk
    <3>2. CASE ref.base \notin w.saved
      BY <1>8, <1>10, <3>2
    <3> QED  BY <2>1, <3>1, <3>2
  <2>4. ok /\ ref.base \notin w.saved => \E k \in DOMAIN refs : refs[k].base = ref.base /\ File(s, refs[k]) \in disk'
    BY <1>3, <2>1
  <2>5. \A b \in v.saved : \E k \in DOMAIN refs : refs[k].base = b /\ File(s, refs[k]) \in disk'
    BY <2>2, <2>3, <2>4
  <2>6. v.local \subseteq Range(refs) /\ \A r \in v.local : r.base \in v.saved
    BY <1>3, <1>7, <2>2
  <2>7. v.tree \in Trees(s)
    BY <1>7, <2>2
  <2> HIDE DEF w, ref
  <2> QED  BY <2>2, <2>5, <2>6, <2>7 DEF Gathered, OnDisk
<1>12. \/ disk' = disk
       \/ disk' = Without(s, ref.base) /\ <<s, ref.base>> \in spoiled'
       \/ \E r \in Ref : r.base = ref.base /\ disk' = Without(s, ref.base) \union {File(s, r)}
  BY <1>2, <1>3
<1> HIDE DEF w, ref
<1> QED  BY <1>2, <1>9, <1>11, <1>12, OneSampleKeeps

\* A sample is read, done, dropped or broken off: its images stay where they are.
LEMMA ReadmeKeeps == ASSUME SampleInv, NEW s \in SampleNames, Readme(s) \/ Code(s) \/ Broken(s) PROVE SampleInv'
<1> DEFINE w == work[s]
<1>1. w \in Work /\ Gathered(s)
  BY DEF SampleInv
<1>2. \A v \in Work, x \in {"waiting", "images", "done", "out", "dropped"} :
        /\ [v EXCEPT !.stage = x] \in Work /\ [v EXCEPT !.stage = x].stage = x
        /\ [v EXCEPT !.stage = x].refs = v.refs /\ [v EXCEPT !.stage = x].saved = v.saved
        /\ [v EXCEPT !.stage = x].local = v.local /\ [v EXCEPT !.stage = x].tree = v.tree
  BY DEF Work
<1>3. \A v \in Work, x \in Seq(Ref) :
        /\ [v EXCEPT !.refs = x] \in Work /\ [v EXCEPT !.refs = x].refs = x
        /\ [v EXCEPT !.refs = x].stage = v.stage /\ [v EXCEPT !.refs = x].saved = v.saved
        /\ [v EXCEPT !.refs = x].local = v.local /\ [v EXCEPT !.refs = x].tree = v.tree
  BY DEF Work
<1>4. \A v \in Work, x \in BOOLEAN :
        /\ [v EXCEPT !.code = x] \in Work
        /\ [v EXCEPT !.code = x].stage = v.stage /\ [v EXCEPT !.code = x].saved = v.saved /\ [v EXCEPT !.code = x].refs = v.refs
        /\ [v EXCEPT !.code = x].local = v.local /\ [v EXCEPT !.code = x].tree = v.tree
  BY DEF Work
<1>5. UNCHANGED <<runs, disk, samplesJson, spoiled>> /\ sampleFailed' \in BOOLEAN
  BY DEF Readme, Code, Broken, SampleInv
<1>6. \E v \in Work :
        /\ Set(s, v)
        /\ \/ v.stage = "images" /\ w.stage = "waiting" /\ v.saved = w.saved /\ v.local = w.local /\ v.tree = w.tree
           \/ v.stage = "dropped"
           \/ /\ v.stage = "done" /\ w.stage = "images" /\ v.saved = w.saved /\ v.local = w.local /\ v.tree = w.tree
              /\ v.refs = w.refs
  <2>1. CASE \E refs \in Readmes(s) : Set(s, [w EXCEPT !.stage = "images", !.refs = refs]) /\ w.stage = "waiting"
    <3>1. PICK refs \in Readmes(s) : Set(s, [w EXCEPT !.stage = "images", !.refs = refs]) /\ w.stage = "waiting"
      BY <2>1
    <3>2. refs \in Seq(Ref)
      BY <3>1, SampleAssumption DEF SampleNames, Ref
    <3> DEFINE v1 == [w EXCEPT !.stage = "images"]
               v2 == [v1 EXCEPT !.refs = refs]
    <3>3. Set(s, v2)
      BY <3>1
    <3> HIDE DEF w
    <3>4. v1 \in Work /\ v1.stage = "images" /\ v1.saved = w.saved /\ v1.local = w.local /\ v1.tree = w.tree
      BY <1>1, <1>2
    <3> HIDE DEF v1
    <3>5. v2 \in Work /\ v2.stage = "images" /\ v2.saved = w.saved /\ v2.local = w.local /\ v2.tree = w.tree
      BY <1>3, <3>2, <3>4
    <3> QED  BY <3>1, <3>3, <3>5
  <2>2. CASE Set(s, [w EXCEPT !.stage = "dropped"])
    <3> HIDE DEF w
    <3> QED  BY <1>1, <1>2, <2>2
  <2>3. CASE \E code \in BOOLEAN : Set(s, [w EXCEPT !.stage = "done", !.code = code]) /\ w.stage = "images"
    <3>1. PICK code \in BOOLEAN : Set(s, [w EXCEPT !.stage = "done", !.code = code]) /\ w.stage = "images"
      BY <2>3
    <3> DEFINE v1 == [w EXCEPT !.stage = "done"]
               v2 == [v1 EXCEPT !.code = code]
    <3>3. Set(s, v2)
      BY <3>1
    <3> HIDE DEF w
    <3>4. v1 \in Work /\ v1.stage = "done" /\ v1.saved = w.saved /\ v1.local = w.local /\ v1.tree = w.tree /\ v1.refs = w.refs
      BY <1>1, <1>2
    <3> HIDE DEF v1
    <3>5. v2 \in Work /\ v2.stage = "done" /\ v2.saved = w.saved /\ v2.local = w.local /\ v2.tree = w.tree /\ v2.refs = w.refs
      BY <1>4, <3>4
    <3> QED  BY <3>1, <3>3, <3>5
  <2>4. Code(s) => \E code \in BOOLEAN : Set(s, [w EXCEPT !.stage = "done", !.code = code]) /\ w.stage = "images"
    BY DEF Code
  <2> QED  BY <2>1, <2>2, <2>3, <2>4 DEF Readme, Broken
<1>7. PICK v \in Work :
        /\ Set(s, v)
        /\ \/ v.stage = "images" /\ w.stage = "waiting" /\ v.saved = w.saved /\ v.local = w.local /\ v.tree = w.tree
           \/ v.stage = "dropped"
           \/ /\ v.stage = "done" /\ w.stage = "images" /\ v.saved = w.saved /\ v.local = w.local /\ v.tree = w.tree
              /\ v.refs = w.refs
  BY <1>6
<1>8. work'[s] = v
  BY <1>7 DEF Set, SampleInv
<1>9. \A refs, base : OnDisk(s, refs, base)' <=> OnDisk(s, refs, base)
  BY <1>5 DEF OnDisk
<1>10. Gathered(s)'
  <2>1. CASE v.stage = "images" /\ w.stage = "waiting" /\ v.saved = w.saved /\ v.local = w.local /\ v.tree = w.tree
    BY <1>1, <1>8, <2>1 DEF Gathered
  <2>2. CASE v.stage = "dropped"
    BY <1>8, <2>2 DEF Gathered
  <2>3. CASE /\ v.stage = "done" /\ w.stage = "images" /\ v.saved = w.saved /\ v.local = w.local /\ v.tree = w.tree
             /\ v.refs = w.refs
    BY <1>1, <1>5, <1>8, <2>3 DEF Gathered, OnDisk
  <2> QED  BY <1>7, <2>1, <2>2, <2>3
<1> QED  BY <1>5, <1>7, <1>10, OneSampleKeeps

\* A sample that waits, and one that is not in the run.
LEMMA WaitingIsWork ==
    /\ [Waiting EXCEPT !.stage = "out"] \in Work /\ [Waiting EXCEPT !.stage = "out"].stage = "out"
    /\ \A t \in Seq(SamplePath) : /\ [Waiting EXCEPT !.tree = t] \in Work
                                 /\ [Waiting EXCEPT !.tree = t].stage = "waiting"
                                 /\ [Waiting EXCEPT !.tree = t].saved = {} /\ [Waiting EXCEPT !.tree = t].local = {}
                                 /\ [Waiting EXCEPT !.tree = t].tree = t
<1>1. <<>> \in Seq(Ref) /\ <<>> \in Seq(SamplePath)
  OBVIOUS
<1>2. /\ Waiting.stage = "waiting" /\ Waiting.saved = {} /\ Waiting.local = {}
      /\ Waiting \in Work
  BY <1>1 DEF Waiting, Work
<1>3. ASSUME NEW v \in Work
      PROVE  /\ [v EXCEPT !.stage = "out"] \in Work /\ [v EXCEPT !.stage = "out"].stage = "out"
             /\ \A t \in Seq(SamplePath) : /\ [v EXCEPT !.tree = t] \in Work
                                          /\ [v EXCEPT !.tree = t].stage = v.stage
                                          /\ [v EXCEPT !.tree = t].saved = v.saved /\ [v EXCEPT !.tree = t].local = v.local
                                          /\ [v EXCEPT !.tree = t].tree = t
  BY DEF Work
<1> QED  BY <1>2, <1>3

\* What all samples of the run do at once: they start, are published, or are given up.
LEMMA RunOfSamplesKeeps == ASSUME SampleInv, StartRun \/ SamplePublish \/ End PROVE SampleInv'
<1> DEFINE absent == [Waiting EXCEPT !.stage = "out"]
<1>1. /\ absent \in Work /\ absent.stage = "out"
      /\ \A t \in Seq(SamplePath) : /\ [Waiting EXCEPT !.tree = t] \in Work
                                   /\ [Waiting EXCEPT !.tree = t].stage = "waiting"
                                   /\ [Waiting EXCEPT !.tree = t].saved = {} /\ [Waiting EXCEPT !.tree = t].local = {}
                                   /\ [Waiting EXCEPT !.tree = t].tree = t
  BY WaitingIsWork
<1> HIDE DEF absent
<1>2. CASE SamplePublish \/ End
  <2>1. work' = [s \in SampleNames |-> absent] /\ UNCHANGED <<sampleFailed, runs, disk>>
    BY <1>2 DEF SamplePublish, End, absent
  <2>2. work' \in [SampleNames -> Work] /\ \A s \in SampleNames : work'[s].stage = "out"
    BY <1>1, <2>1
  <2>3. \A s \in SampleNames : Gathered(s)'
    BY <2>2 DEF Gathered
  <2>4. (\A s \in DOMAIN samplesJson' : ListedWell(s)') /\ LocalImagesExist'
    <3>1. CASE End
      BY <3>1 DEF End, SampleInv, ListedWell, LocalImagesExist
    <3>2. CASE SamplePublish
      <4> DEFINE kept == {s \in SampleNames : work[s].stage = "done"}
      <4>1. samplesJson' = [s \in kept |-> Result(s)] /\ spoiled' = {}
        BY <3>2 DEF SamplePublish
      <4>2. ASSUME NEW s \in kept
            PROVE  /\ samplesJson'[s].refs = work[s].refs /\ samplesJson'[s].local = work[s].local
                   /\ samplesJson'[s].appHost = DetectAppHost(work[s].tree)
                   /\ samplesJson'[s].thumbnail = Thumbnail(work[s].refs)
                   /\ work[s] \in Work /\ Gathered(s) /\ work[s].stage = "done" /\ s \in SampleNames
        BY <4>1 DEF Result, SampleInv
      <4>3. ASSUME NEW s \in kept PROVE ListedWell(s)'
        BY <4>2 DEF ListedWell, Gathered, Work
      <4>4. ASSUME NEW s \in kept, NEW ref \in samplesJson'[s].local
            PROVE  \E f \in disk' : f.sample = s /\ f.base = ref.base
        <5>1. OnDisk(s, work[s].refs, ref.base)
          BY <4>2, <4>4 DEF Gathered
        <5>2. PICK k \in DOMAIN work[s].refs : work[s].refs[k].base = ref.base /\ File(s, work[s].refs[k]) \in disk
          BY <5>1 DEF OnDisk
        <5> QED  BY <2>1, <5>2 DEF File
      <4> QED  BY <4>1, <4>3, <4>4 DEF LocalImagesExist
    <3> QED  BY <1>2, <3>1, <3>2
  <2> QED  BY <2>1, <2>2, <2>3, <2>4 DEF SampleInv
<1>3. CASE StartRun
  <2>1. /\ sampleFailed' = FALSE /\ runs' \in 0..SampleMaxRuns /\ UNCHANGED <<disk, samplesJson, spoiled>>
    BY <1>3, SampleAssumption DEF StartRun, SampleInv
  <2>2. PICK present, tree :
          /\ present \in SUBSET SampleNames
          /\ \A s \in SampleNames : tree[s] \in Trees(s)
          /\ work' = [s \in SampleNames |-> IF s \in present THEN [Waiting EXCEPT !.tree = tree[s]] ELSE absent]
    BY <1>3, ZenonT(60) DEF StartRun, absent
  <2>3. \A s \in SampleNames : Trees(s) \subseteq Seq(SamplePath)
    BY SampleAssumption DEF SampleNames, SamplePath
  <2>4. ASSUME NEW s \in SampleNames PROVE work'[s] \in Work /\ Gathered(s)'
    BY <1>1, <2>2, <2>3 DEF Gathered
  <2>5. work' \in [SampleNames -> Work]
    <3>1. work' = [s \in SampleNames |-> work'[s]]
      BY <2>2
    <3> QED  BY <2>4, <3>1
  <2>6. (\A s \in DOMAIN samplesJson' : ListedWell(s)') /\ LocalImagesExist'
    BY <2>1 DEF SampleInv, ListedWell, LocalImagesExist
  <2> QED  BY <2>1, <2>4, <2>5, <2>6 DEF SampleInv
<1> QED  BY <1>2, <1>3

LEMMA SampleInvariant == SampleSpec => []SampleInv
<1>1. SampleInit => SampleInv
  <2> SUFFICES ASSUME SampleInit PROVE SampleInv
    OBVIOUS
  <2>3. work \in [SampleNames -> Work] /\ \A s \in SampleNames : work[s].stage = "out"
    BY WaitingIsWork DEF SampleInit
  <2>4. \A s \in SampleNames : Gathered(s)
    BY <2>3 DEF Gathered
  <2>5. DOMAIN samplesJson = {} /\ disk = {} /\ sampleFailed = FALSE /\ runs = 0
    BY DEF SampleInit
  <2>6. runs \in 0..SampleMaxRuns
    BY <2>5, SampleAssumption
  <2> QED  BY <2>3, <2>4, <2>5, <2>6 DEF SampleInv, LocalImagesExist
<1>2. SampleInv /\ [SampleNext]_sampleVars => SampleInv'
  <2> SUFFICES ASSUME SampleInv, [SampleNext]_sampleVars PROVE SampleInv'
    OBVIOUS
  <2>1. CASE SampleNext
    BY <2>1, RunOfSamplesKeeps, ReadmeKeeps, ImageKeeps DEF SampleNext
  <2>2. CASE UNCHANGED sampleVars
    BY <2>2 DEF sampleVars, SampleInv, Gathered, OnDisk, ListedWell, LocalImagesExist
  <2> QED  BY <2>1, <2>2
<1> QED  BY <1>1, <1>2, PTL DEF SampleSpec

\* Every image that samples.json calls local is there, the thumbnail is the best the README has,
\* and the code shown for a project is of that project, for any samples and any failures
\* (downloadAndRewriteImages, extractThumbnail, detectAppHost in update-samples.ts).
THEOREM SamplesAreSafe == SampleSpec => [](SampleTypeOK /\ LocalImagesExist /\ ThumbnailsFit /\ CodeOfAppHost)
<1>1. SampleInv => SampleTypeOK
  BY DEF SampleInv, SampleTypeOK, Work, ListedWell, Ended
<1>2. SampleInv => ThumbnailsFit
  <2> SUFFICES ASSUME SampleInv PROVE ThumbnailsFit
    OBVIOUS
  <2>1. \A s \in DOMAIN samplesJson : samplesJson[s].refs \in Seq(Ref) /\ samplesJson[s].thumbnail = Thumbnail(samplesJson[s].refs)
    BY DEF SampleInv, ListedWell
  <2> QED  BY <2>1, ThumbnailFits, ZenonT(60) DEF ThumbnailsFit
<1>3. SampleInv => CodeOfAppHost
  <2> SUFFICES ASSUME SampleInv, NEW s \in DOMAIN samplesJson, samplesJson[s].appHost.kind = "csproj"
               PROVE  \E tree \in Trees(s) : \E p \in Range(tree) :
                         p.file = "AppHost.csproj" /\ p.dir = samplesJson[s].appHost.dir
    BY DEF CodeOfAppHost
  <2>1. PICK tree \in Trees(s) : samplesJson[s].appHost = DetectAppHost(tree)
    BY DEF SampleInv, ListedWell
  <2>2. tree \in Seq(SamplePath)
    BY <2>1, SampleAssumption DEF SampleInv, ListedWell, SampleNames, SamplePath
  <2> QED  BY <2>1, <2>2, HostIsListed
<1>4. SampleInv => LocalImagesExist
  BY DEF SampleInv
<1> QED  BY <1>1, <1>2, <1>3, <1>4, SampleInvariant, PTL

\* The run that publishes has the image its README shows under that name, unless the README shows
\* another of the same name (downloadAndRewriteImages in update-samples.ts).
THEOREM ImagesAreRight == SampleSpec => [][RightImages]_sampleVars
<1>1. SampleInv /\ [SampleNext]_sampleVars => [RightImages]_sampleVars
  <2> SUFFICES ASSUME SampleInv, SampleNext, samplesJson' # samplesJson PROVE RightImages
    BY DEF RightImages
  <2>1. SamplePublish
    BY DEF SampleNext, StartRun, End, Readme, Image, Code, Broken
  <2> DEFINE kept == {s \in SampleNames : work[s].stage = "done"}
  <2>2. samplesJson' = [s \in kept |-> Result(s)] /\ disk' = disk
    BY <2>1 DEF SamplePublish
  <2>3. ASSUME NEW s \in kept, NEW i \in DOMAIN work[s].refs, work[s].refs[i] \in work[s].local,
               File(s, work[s].refs[i]) \notin disk
        PROVE  \E j \in DOMAIN work[s].refs : /\ work[s].refs[j].base = work[s].refs[i].base
                                              /\ work[s].refs[j].dir # work[s].refs[i].dir
    <3>1. OnDisk(s, work[s].refs, work[s].refs[i].base)
      BY <2>3 DEF SampleInv, Gathered
    <3>2. PICK j \in DOMAIN work[s].refs : work[s].refs[j].base = work[s].refs[i].base /\ File(s, work[s].refs[j]) \in disk
      BY <3>1 DEF OnDisk
    <3>3. work[s].refs[j].dir # work[s].refs[i].dir
      BY <2>3, <3>2 DEF File
    <3> QED  BY <3>2, <3>3
  <2>4. \A s \in kept : samplesJson'[s].refs = work[s].refs /\ samplesJson'[s].local = work[s].local
    BY <2>2 DEF Result
  <2> QED  BY <2>2, <2>3, <2>4 DEF RightImages
<1> QED  BY <1>1, SampleInvariant, PTL DEF SampleSpec
-----------------------------------------------------------------------------
(* The blog.  What is written is as long as the first page announced; the   *)
(* file that takes the snapshot's place was written whole.                  *)
BlogInv ==
    /\ archive \subseteq DOMAIN Written
    /\ expected # NoFile => expected.total \in Nat
    /\ blogStage \in {"collected", "write", "rename"} => expected.total \in Nat
    /\ blogStage = "write" => Len(posts) = expected.total
    /\ blogStage = "rename" => Len(staging) = expected.total

\* Sorting keeps the number of posts.
LEMMA ListedIsAsLong == ASSUME Len(posts) \in Nat PROVE Len(Listed) = Len(posts)
<1>1. DOMAIN Listed = 1 .. Len(posts)
  BY Zenon DEF Listed
<1> DEFINE S == {Listed[i] : i \in 1 .. Len(posts)}
<1>2. Listed \in [1 .. Len(posts) -> S]
  <2> DEFINE list == [i \in 1 .. Len(posts) |-> Post(posts[i])]
             order == CHOOSE p \in Permutations(1 .. Len(posts)) :
                          \A i, j \in 1 .. Len(posts) : i < j => NewestFirst(list[p[i]], list[p[j]])
  <2>1. Listed = [i \in 1 .. Len(posts) |-> list[order[i]]]
    BY Zenon DEF Listed
  <2> HIDE DEF list, order
  <2> QED  BY <2>1
<1> HIDE DEF S
<1>3. \A T, f : f \in [1 .. Len(posts) -> T] => f \in Seq(T)
  OBVIOUS
<1>4. Listed \in Seq(S)
  BY <1>2, <1>3
<1>5. DOMAIN Listed = 1 .. Len(Listed) /\ Len(Listed) \in Nat
  BY <1>4, LenProperties
<1> QED  BY <1>1, <1>5

LEMMA BlogInvariant == BlogSpec => []BlogInv
<1>1. BlogInit => BlogInv
  BY DEF BlogInit, BlogInv
<1>2. BlogInv /\ [BlogNext]_blogVars => BlogInv'
  <2> SUFFICES ASSUME BlogInv, [BlogNext]_blogVars PROVE BlogInv'
    OBVIOUS
  <2>1. ASSUME GiveUp PROVE BlogInv'
    BY <2>1 DEF GiveUp, BlogInv
  <2>2. ASSUME NEW id \in BlogPublished, BlogPublish(id) PROVE BlogInv'
    BY <2>2, WrittenAssumption DEF BlogPublish, BlogInv
  <2>3. ASSUME NEW id \in Withdrawn, Withdraw(id) PROVE BlogInv'
    BY <2>3 DEF Withdraw, BlogInv
  <2>4. CASE Refresh \/ RemoveStaging \/ Stopped
    BY <2>4 DEF Refresh, RemoveStaging, Stopped, BlogInv
  <2>5. CASE ReadPage
    <3>1. Totals.total \in Nat
      BY WrittenAssumption, FS_Subset, FS_CardinalityType DEF Totals, BlogInv
    <3>2. \/ GiveUp
          \/ /\ expected' = IF expected = NoFile THEN Totals ELSE expected
             /\ blogStage' \in {"read", "collected"} /\ archive' = archive
      BY <2>5 DEF ReadPage
    <3>3. CASE expected' = (IF expected = NoFile THEN Totals ELSE expected)
               /\ blogStage' \in {"read", "collected"} /\ archive' = archive
      BY <3>1, <3>3 DEF BlogInv
    <3> QED  BY <2>1, <3>2, <3>3
  <2>6. CASE PageFails
    BY <2>1, <2>6 DEF PageFails
  <2>7. CASE Collected
    <3>1. CASE Len(posts) # expected.total
      BY <2>1, <2>7, <3>1 DEF Collected
    <3>2. CASE Len(posts) = expected.total
      BY <2>7, <3>2 DEF Collected, BlogInv
    <3> QED  BY <3>1, <3>2
  <2>8. CASE Write
    <3>1. Len(Listed) = expected.total /\ expected.total \in Nat
      BY <2>8, ListedIsAsLong DEF Write, BlogInv
    <3>2. /\ blogStage' = "remove" \/ (blogStage' = "rename" /\ staging' = Listed)
          /\ UNCHANGED <<archive, expected, posts>>
      BY <2>8 DEF Write
    <3> QED  BY <3>1, <3>2 DEF BlogInv
  <2>9. CASE Rename
    BY <2>9 DEF Rename, BlogInv
  <2>10. CASE UNCHANGED blogVars
    BY <2>10 DEF blogVars, BlogInv
  <2> QED  BY <2>2, <2>3, <2>4, <2>5, <2>6, <2>7, <2>8, <2>9, <2>10 DEF BlogNext
<1> QED  BY <1>1, <1>2, PTL DEF BlogSpec

\* The snapshot of the blog is never torn: what takes its place has as many posts as the archive
\* announced, wherever the refresh fails or is stopped (update-blogs.ts).
THEOREM SnapshotStaysWhole == BlogSpec => [][SnapshotIsWhole]_blogVars
<1>1. BlogInv /\ [BlogNext]_blogVars => [SnapshotIsWhole]_blogVars
  <2> SUFFICES ASSUME BlogInv, BlogNext, snapshot' # snapshot PROVE Len(snapshot') = expected.total
    BY DEF SnapshotIsWhole
  <2>1. Rename
    BY DEF BlogNext, BlogPublish, Withdraw, Refresh, ReadPage, PageFails, GiveUp, Collected, Write, RemoveStaging, Stopped
  <2> QED  BY <2>1 DEF Rename, BlogInv
<1> QED  BY <1>1, BlogInvariant, PTL DEF BlogSpec
-----------------------------------------------------------------------------
(* The resource directory.  Where an entry leads, its identity and what has *)
(* been added agree; a page leads to a document that is listed.             *)
Shaped(e) == e = Resource(e.id, e.title, e.type, e.href, e.tags)

Stored ==
    /\ \A d \in DOMAIN byDestination :
          /\ Shaped(byDestination[d]) /\ CanonicalDestination(byDestination[d].href) = d
          /\ byDestination[d].id \in DOMAIN byId /\ byId[byDestination[d].id] = d
    /\ \A id \in DOMAIN byId : byId[id] \in DOMAIN byDestination
    /\ \A r \in given : /\ r.destination \in DOMAIN byDestination
                        /\ r.title \in {byDestination[r.destination].title} \union byDestination[r.destination].tags

ListedDoc(documents, route) == \E doc \in documents : Eligible(doc) /\ doc.route = route

Leading(documents, e) ==
    /\ e.href.site = "page" /\ e.type # "blog" => ListedDoc(documents, e.href.leads)
    /\ \A route : e.id = <<"doc", route>> => ListedDoc(documents, route)

Pathed ==
    /\ \A k \in DOMAIN docsByPath : \E doc \in resourceDocs :
          /\ Eligible(doc) /\ docsByPath[k] = ResourcePage(doc.route)
          /\ k \in {ResourcePage(doc.route), ResourcePage(doc.file)}
    /\ resourcePhase # 0 => \A doc \in resourceDocs : Eligible(doc) =>
          {ResourcePage(doc.route), ResourcePage(doc.file)} \subseteq DOMAIN docsByPath

Meant(package) == {doc \in resourceDocs : Eligible(doc) /\ mappings[package].leads \in {doc.route, doc.file}}

Mapped ==
    /\ resourcePhase = 1 => DOMAIN mappings = {}
    /\ resourcePhase \in {1, 2} => \A package : <<"integration", package>> \notin DOMAIN byId
    /\ \A package \in DOMAIN mappings : mappings[package] \in MappingUrls
    /\ \A route : <<"doc", route>> \in DOMAIN byId => byId[<<"doc", route>>] = ResourcePage(route)

ResourceInv ==
    /\ resourcePhase \in 0 .. 7
    /\ Stored /\ Pathed /\ Mapped /\ MappedIsMerged
    /\ \A d \in DOMAIN byDestination : Leading(resourceDocs, byDestination[d])

\* What an entry that is stored or merged changes, and what stands.
StandsBut(entry, d) ==
    /\ \A x \in DOMAIN byDestination' : \/ byDestination'[x] = entry
                                        \/ /\ x \in DOMAIN byDestination
                                           /\ byDestination'[x].id = byDestination[x].id
                                           /\ byDestination'[x].type = byDestination[x].type
                                           /\ byDestination'[x].href = byDestination[x].href
    /\ \A id \in DOMAIN byId : id \in DOMAIN byId' /\ byId'[id] = byId[id]
    /\ DOMAIN byId' = DOMAIN byId \union {entry.id} /\ byId'[entry.id] = d

LEMMA EntryIsStored ==
    ASSUME Stored, NEW entry, Shaped(entry), NEW d, d = CanonicalDestination(entry.href),
           entry.id \in DOMAIN byId => byId[entry.id] = d,
           byDestination' = Put(byDestination, d,
                                IF d \in DOMAIN byDestination
                                THEN [byDestination[d] EXCEPT !.tags = @ \union entry.tags \union {entry.title}]
                                ELSE entry),
           byId' = Put(byId, entry.id, d), given' = given \union {[title |-> entry.title, destination |-> d]}
    PROVE  Stored' /\ FirstStands /\ StandsBut(entry, d)
<1> DEFINE merged == [byDestination[d] EXCEPT !.tags = @ \union entry.tags \union {entry.title}]
<1>1. ASSUME NEW e, Shaped(e), NEW more
      PROVE  LET m == [e EXCEPT !.tags = @ \union more] IN
             /\ Shaped(m) /\ m.id = e.id /\ m.title = e.title /\ m.type = e.type /\ m.href = e.href
             /\ m.tags = e.tags \union more /\ [m EXCEPT !.tags = {}] = [e EXCEPT !.tags = {}]
  <2> DEFINE m == [e EXCEPT !.tags = @ \union more]
             r == [id |-> e.id, title |-> e.title, type |-> e.type, href |-> e.href, tags |-> e.tags]
             c == [id |-> e.id, title |-> e.title, type |-> e.type, href |-> e.href, tags |-> {}]
  <2>1. e = r
    BY <1>1 DEF Shaped, Resource
  <2>2. m = [id |-> e.id, title |-> e.title, type |-> e.type, href |-> e.href, tags |-> e.tags \union more]
    <3>1. \A i, t, k, h, g : [[id |-> i, title |-> t, type |-> k, href |-> h, tags |-> g] EXCEPT !.tags = @ \union more]
            = [id |-> i, title |-> t, type |-> k, href |-> h, tags |-> g \union more]
      OBVIOUS
    <3>2. m = [r EXCEPT !.tags = @ \union more]
      BY <2>1
    <3> HIDE DEF m
    <3> QED  BY <3>1, <3>2
  <2>3. \A i, t, k, h, g : [[id |-> i, title |-> t, type |-> k, href |-> h, tags |-> g] EXCEPT !.tags = {}]
          = [id |-> i, title |-> t, type |-> k, href |-> h, tags |-> {}]
    OBVIOUS
  <2>4. [m EXCEPT !.tags = {}] = c /\ [e EXCEPT !.tags = {}] = c
    <3> HIDE DEF m
    <3>1. [m EXCEPT !.tags = {}] = c
      BY <2>2, <2>3
    <3>2. [e EXCEPT !.tags = {}] = [r EXCEPT !.tags = {}]
      BY <2>1
    <3> QED  BY <2>3, <3>1, <3>2
  <2> QED  BY <2>2, <2>4 DEF Shaped, Resource
<1>2. ASSUME d \in DOMAIN byDestination
      PROVE  /\ Shaped(merged) /\ merged.id = byDestination[d].id /\ merged.title = byDestination[d].title
             /\ merged.type = byDestination[d].type /\ merged.href = byDestination[d].href
             /\ merged.tags = byDestination[d].tags \union entry.tags \union {entry.title}
             /\ [merged EXCEPT !.tags = {}] = [byDestination[d] EXCEPT !.tags = {}]
  <2>1. Shaped(byDestination[d])
    BY <1>2 DEF Stored
  <2>2. merged = [byDestination[d] EXCEPT !.tags = @ \union (entry.tags \union {entry.title})]
    <3>1. byDestination[d].tags \union entry.tags \union {entry.title} = byDestination[d].tags \union (entry.tags \union {entry.title})
      OBVIOUS
    <3> QED  BY <3>1
  <2> HIDE DEF merged
  <2>3. byDestination[d].tags \union (entry.tags \union {entry.title}) = byDestination[d].tags \union entry.tags \union {entry.title}
    OBVIOUS
  <2> QED  BY <1>1, <2>1, <2>2, <2>3, ZenonT(60)
<1> DEFINE now == IF d \in DOMAIN byDestination THEN merged ELSE entry
<1>3. /\ DOMAIN byDestination' = DOMAIN byDestination \union {d} /\ byDestination'[d] = now
      /\ \A x \in DOMAIN byDestination : x # d => byDestination'[x] = byDestination[x]
      /\ DOMAIN byId' = DOMAIN byId \union {entry.id} /\ byId'[entry.id] = d
      /\ \A id \in DOMAIN byId : id # entry.id => byId'[id] = byId[id]
  BY DEF Put
<1> HIDE DEF merged
<1>4. Shaped(now) /\ CanonicalDestination(now.href) = d /\ now.id \in DOMAIN byId' /\ byId'[now.id] = d
      /\ entry.title \in {now.title} \union now.tags
  <2>1. CASE d \in DOMAIN byDestination
    <3>1. /\ byDestination[d].id \in DOMAIN byId /\ byId[byDestination[d].id] = d
          /\ CanonicalDestination(byDestination[d].href) = d
      BY <2>1 DEF Stored
    <3>2. byDestination[d].id \in DOMAIN byId' /\ byId'[byDestination[d].id] = d
      BY <1>3, <3>1
    <3> QED  BY <1>2, <2>1, <3>1, <3>2
  <2>2. CASE d \notin DOMAIN byDestination
    BY <1>3, <2>2
  <2> QED  BY <2>1, <2>2
<1>5. \A id \in DOMAIN byId : id \in DOMAIN byId' /\ byId'[id] = byId[id]
  BY <1>3
<1>6. ASSUME NEW x \in DOMAIN byDestination, x # d
      PROVE  byDestination'[x] = byDestination[x]
  BY <1>3, <1>6
<1>7. FirstStands
  <2> SUFFICES ASSUME NEW x \in DOMAIN byDestination
               PROVE  /\ x \in DOMAIN byDestination'
                      /\ [byDestination'[x] EXCEPT !.tags = {}] = [byDestination[x] EXCEPT !.tags = {}]
                      /\ byDestination[x].tags \subseteq byDestination'[x].tags
    BY DEF FirstStands
  <2>1. CASE x = d
    <3>1. byDestination'[x] = merged
      BY <1>3, <2>1
    <3> QED  BY <1>2, <1>3, <2>1, <3>1
  <2>2. CASE x # d
    BY <1>3, <1>6, <2>2
  <2> QED  BY <2>1, <2>2
<1>8. StandsBut(entry, d)
  <2>1. \A x \in DOMAIN byDestination' : \/ byDestination'[x] = entry
                                         \/ /\ x \in DOMAIN byDestination
                                            /\ byDestination'[x].id = byDestination[x].id
                                            /\ byDestination'[x].type = byDestination[x].type
                                            /\ byDestination'[x].href = byDestination[x].href
    BY <1>2, <1>3
  <2> QED  BY <1>3, <1>5, <2>1 DEF StandsBut
<1>9. Stored'
  <2>1. ASSUME NEW x \in DOMAIN byDestination'
        PROVE  /\ Shaped(byDestination'[x]) /\ CanonicalDestination(byDestination'[x].href) = x
               /\ byDestination'[x].id \in DOMAIN byId' /\ byId'[byDestination'[x].id] = x
    <3>1. CASE x = d
      BY <1>3, <1>4, <3>1
    <3>2. CASE x # d
      <4>1. x \in DOMAIN byDestination /\ byDestination'[x] = byDestination[x]
        BY <1>3, <3>2
      <4> QED  BY <1>5, <4>1 DEF Stored
    <3> QED  BY <3>1, <3>2
  <2>2. \A id \in DOMAIN byId' : byId'[id] \in DOMAIN byDestination'
    BY <1>3 DEF Stored
  <2>3. ASSUME NEW r \in given'
        PROVE  /\ r.destination \in DOMAIN byDestination'
               /\ r.title \in {byDestination'[r.destination].title} \union byDestination'[r.destination].tags
    <3>1. CASE r = [title |-> entry.title, destination |-> d]
      BY <1>3, <1>4, <3>1
    <3>2. CASE r \in given /\ r.destination = d
      BY <1>2, <1>3, <3>2 DEF Stored
    <3>3. CASE r \in given /\ r.destination # d
      BY <1>3, <3>3 DEF Stored
    <3> QED  BY <3>1, <3>2, <3>3
  <2> QED  BY <2>1, <2>2, <2>3 DEF Stored
<1> QED  BY <1>7, <1>8, <1>9

\* The sources in the order they are read.
LEMMA SourceIsNumbered ==
    ASSUME resourcePhase \in 0 .. 7
    PROVE  /\ In("docs") => resourcePhase = 1
           /\ In("mappings") => resourcePhase = 2
           /\ In("packages") => resourcePhase = 3
           /\ In("videos") => resourcePhase = 4
           /\ In("channels") => resourcePhase = 5
           /\ In("blogs") => resourcePhase = 6
<1>1. /\ Phases[1] = "docs" /\ Phases[2] = "mappings" /\ Phases[3] = "packages" /\ Phases[4] = "videos"
      /\ Phases[5] = "channels" /\ Phases[6] = "blogs" /\ Phases[7] = "done"
  BY DEF Phases
<1>2. resourcePhase \in {0, 1, 2, 3, 4, 5, 6, 7}
  OBVIOUS
<1> QED  BY <1>1, <1>2 DEF In

\* An error ends the build, and changes nothing that was stored.
LEMMA ThrowKeeps ==
    ASSUME ResourceInv, Throw, resourceDocs \subseteq resourceDocs', UNCHANGED mappings,
           resourceDocs' = resourceDocs \/ resourcePhase = 1
    PROVE  ResourceInv' /\ FirstStands
<1>1. resourcePhase' = 0 /\ UNCHANGED <<byDestination, byId, docsByPath, given, mappings>>
  BY DEF Throw
<1>2. Stored' /\ Mapped' /\ resourcePhase' \in 0 .. 7
  BY <1>1 DEF ResourceInv, Stored, Shaped, Mapped
<1>3. Pathed'
  BY <1>1 DEF ResourceInv, Pathed
<1>4. \A d \in DOMAIN byDestination' : Leading(resourceDocs', byDestination'[d])
  BY <1>1 DEF ResourceInv, Leading, ListedDoc
<1>5. MappedIsMerged'
  <2>1. CASE resourceDocs' = resourceDocs
    BY <1>1, <2>1 DEF ResourceInv, MappedIsMerged
  <2>2. CASE resourcePhase = 1
    BY <1>1, <2>2 DEF ResourceInv, Mapped, MappedIsMerged
  <2> QED  BY <2>1, <2>2
<1> QED  BY <1>1, <1>2, <1>3, <1>4, <1>5 DEF ResourceInv, FirstStands

\* The next document.
LEMMA DocKeeps ==
    ASSUME ResourceInv, NEW doc, AddDoc(doc)
    PROVE  ResourceInv' /\ FirstStands
<1> DEFINE title == <<"doc", doc.route>>
           entry == Resource(title, title, ClassifyDoc(doc), ResourcePage(doc.route), {})
           d == CanonicalDestination(entry.href)
<1>1. resourcePhase = 1 /\ resourceDocs' = resourceDocs \union {doc} /\ UNCHANGED mappings
  BY SourceIsNumbered DEF AddDoc, ResourceInv
<1>2. DOMAIN mappings = {} /\ \A package : <<"integration", package>> \notin DOMAIN byId
  BY <1>1 DEF ResourceInv, Mapped
<1>3. CASE UNCHANGED <<resourcePhase, byDestination, byId, docsByPath, given>> /\ ~Eligible(doc)
  <2>1. Stored' /\ Mapped' /\ resourcePhase' \in 0 .. 7
    BY <1>1, <1>3 DEF ResourceInv, Stored, Shaped, Mapped
  <2>2. Pathed'
    BY <1>1, <1>3 DEF ResourceInv, Pathed, Eligible
  <2>3. \A x \in DOMAIN byDestination' : Leading(resourceDocs', byDestination'[x])
    BY <1>1, <1>3 DEF ResourceInv, Leading, ListedDoc
  <2>4. MappedIsMerged'
    BY <1>1, <1>2 DEF MappedIsMerged
  <2> QED  BY <1>3, <2>1, <2>2, <2>3, <2>4 DEF ResourceInv, FirstStands
<1>4. CASE Throw
  BY <1>1, <1>4, ThrowKeeps
<1>5. CASE /\ Eligible(doc) /\ d \notin DOMAIN byDestination
           /\ byDestination' = Put(byDestination, d, entry)
           /\ byId' = Put(byId, entry.id, d)
           /\ given' = given \union {[title |-> title, destination |-> d]}
           /\ docsByPath' = DocPaths(doc)
           /\ UNCHANGED resourcePhase
  <2>1. /\ entry.id = title /\ entry.title = title /\ entry.href = ResourcePage(doc.route) /\ Shaped(entry)
        /\ d = ResourcePage(doc.route)
    BY DEF Resource, Shaped, CanonicalDestination, ResourcePage, Url
  <2>2. title \in DOMAIN byId => byId[title] = d
    BY <2>1 DEF ResourceInv, Mapped
  <2> HIDE DEF d
  <2>3. entry.id \in DOMAIN byId => byId[entry.id] = d
    BY <2>1, <2>2
  <2>4. byDestination' = Put(byDestination, d,
                             IF d \in DOMAIN byDestination
                             THEN [byDestination[d] EXCEPT !.tags = @ \union entry.tags \union {entry.title}]
                             ELSE entry)
    BY <1>5
  <2>5. given' = given \union {[title |-> entry.title, destination |-> d]}
    BY <1>5, <2>1
  <2>6. d = CanonicalDestination(entry.href)
    BY DEF d
  <2>7. Stored' /\ FirstStands /\ StandsBut(entry, d)
    <3> HIDE DEF entry
    <3> QED  BY <1>5, <2>1, <2>3, <2>4, <2>5, <2>6, EntryIsStored DEF ResourceInv
  <2>8. Pathed'
    <3>1. \A r : docsByPath' = DocPaths(doc) =>
              /\ DOMAIN docsByPath' = DOMAIN docsByPath \union {ResourcePage(doc.route), ResourcePage(doc.file)}
              /\ \A k \in DOMAIN docsByPath' :
                    IF k \in {ResourcePage(doc.route), ResourcePage(doc.file)} THEN docsByPath'[k] = ResourcePage(doc.route)
                    ELSE docsByPath'[k] = docsByPath[k]
      BY DEF DocPaths, Put
    <3>2. doc \in resourceDocs'
      BY <1>1
    <3>3. Eligible(doc)' <=> Eligible(doc)
      BY DEF Eligible
    <3>4. \A k \in DOMAIN docsByPath' : \E x \in resourceDocs' :
             /\ Eligible(x) /\ docsByPath'[k] = ResourcePage(x.route)
             /\ k \in {ResourcePage(x.route), ResourcePage(x.file)}
      BY <1>1, <1>5, <3>1, <3>2 DEF ResourceInv, Pathed
    <3>5. \A x \in resourceDocs' : Eligible(x) => {ResourcePage(x.route), ResourcePage(x.file)} \subseteq DOMAIN docsByPath'
      BY <1>1, <1>5, <3>1 DEF ResourceInv, Pathed
    <3> QED  BY <3>4, <3>5 DEF Pathed
  <2>9. Mapped'
    <3>1. DOMAIN byId' = DOMAIN byId \union {title} /\ byId'[title] = d /\ \A id \in DOMAIN byId : byId'[id] = byId[id]
      BY <2>1, <2>7 DEF StandsBut
    <3>2. \A package : <<"integration", package>> # title
      OBVIOUS
    <3>3. \A route : <<"doc", route>> = title => route = doc.route
      OBVIOUS
    <3> HIDE DEF title, entry
    <3> QED  BY <1>1, <1>2, <1>5, <2>1, <3>1, <3>2, <3>3 DEF ResourceInv, Mapped
  <2>10. ASSUME NEW x \in DOMAIN byDestination' PROVE Leading(resourceDocs', byDestination'[x])
    <3>1. CASE byDestination'[x] = entry
      <4>1. ListedDoc(resourceDocs', doc.route)
        BY <1>1, <1>5 DEF ListedDoc
      <4>2. entry.href.leads = doc.route
        <5>1. \A p : ResourcePage(p).leads = p
          BY DEF ResourcePage, Url
        <5> HIDE DEF entry
        <5> QED  BY <2>1, <5>1
      <4>3. \A route : title = <<"doc", route>> => route = doc.route
        OBVIOUS
      <4> HIDE DEF entry, title
      <4> QED  BY <2>1, <3>1, <4>1, <4>2, <4>3 DEF Leading
    <3>2. CASE /\ x \in DOMAIN byDestination
               /\ byDestination'[x].id = byDestination[x].id
               /\ byDestination'[x].type = byDestination[x].type
               /\ byDestination'[x].href = byDestination[x].href
      BY <1>1, <3>2 DEF ResourceInv, Leading, ListedDoc
    <3> HIDE DEF entry
    <3> QED  BY <2>7, <3>1, <3>2 DEF StandsBut
  <2>11. MappedIsMerged'
    BY <1>1, <1>2 DEF MappedIsMerged
  <2> QED  BY <1>1, <1>5, <2>7, <2>8, <2>9, <2>10, <2>11 DEF ResourceInv
<1>6. \/ UNCHANGED <<resourcePhase, byDestination, byId, docsByPath, given>> /\ ~Eligible(doc)
      \/ Throw
      \/ /\ Eligible(doc) /\ d \notin DOMAIN byDestination
         /\ byDestination' = Put(byDestination, d, entry)
         /\ byId' = Put(byId, entry.id, d)
         /\ given' = given \union {[title |-> title, destination |-> d]}
         /\ docsByPath' = DocPaths(doc)
         /\ UNCHANGED resourcePhase
  BY Zenon DEF AddDoc
<1> HIDE DEF d, entry, title
<1> QED  BY <1>3, <1>4, <1>5, <1>6

\* An entry of one of the other sources: a package leads where it is mapped to.
LEMMA AddKeeps ==
    ASSUME ResourceInv, NEW entry, Shaped(entry), NEW merge, Add(entry, merge), UNCHANGED <<resourceDocs, mappings>>,
           Leading(resourceDocs, entry), \A route : entry.id # <<"doc", route>>, resourcePhase \notin {0, 1, 2},
           \A package : entry.id = <<"integration", package>> =>
              (package \in DOMAIN mappings /\ mappings[package].site = "page" /\ Meant(package) # {} =>
                 CanonicalDestination(entry.href) \in {ResourcePage(doc.route) : doc \in Meant(package)})
    PROVE  ResourceInv' /\ FirstStands
<1> DEFINE d == CanonicalDestination(entry.href)
<1>1. CASE Throw
  BY <1>1, ThrowKeeps
<1>2. CASE /\ entry.id \in DOMAIN byId => byId[entry.id] = d
           /\ byDestination' = Put(byDestination, d,
                                   IF d \in DOMAIN byDestination
                                   THEN [byDestination[d] EXCEPT !.tags = @ \union entry.tags \union {entry.title}]
                                   ELSE entry)
           /\ byId' = Put(byId, entry.id, d)
           /\ given' = given \union {[title |-> entry.title, destination |-> d]}
           /\ UNCHANGED <<resourcePhase, docsByPath>>
  <2>1. d = CanonicalDestination(entry.href)
    OBVIOUS
  <2>2. CanonicalDestination(entry.href) \in {ResourcePage(doc.route) : doc \in resourceDocs} => d \in {ResourcePage(doc.route) : doc \in resourceDocs}
    OBVIOUS
  <2> HIDE DEF d
  <2>3. Stored' /\ FirstStands /\ StandsBut(entry, d)
    BY <1>2, <2>1, EntryIsStored DEF ResourceInv
  <2>4. /\ DOMAIN byId' = DOMAIN byId \union {entry.id} /\ byId'[entry.id] = d
        /\ \A id \in DOMAIN byId : byId'[id] = byId[id]
    BY <2>3 DEF StandsBut
  <2>5. Pathed'
    BY <1>2 DEF ResourceInv, Pathed
  <2>6. Mapped'
    BY <1>2, <2>4 DEF ResourceInv, Mapped
  <2>7. \A x \in DOMAIN byDestination' : Leading(resourceDocs', byDestination'[x])
    BY <2>3 DEF StandsBut, ResourceInv, Leading
  <2>8. MappedIsMerged'
    <3> SUFFICES ASSUME NEW package \in DOMAIN mappings, <<"integration", package>> \in DOMAIN byId',
                        mappings[package].site = "page", Meant(package) # {}
                 PROVE  byId'[<<"integration", package>>] \in {ResourcePage(doc.route) : doc \in Meant(package)}
      BY DEF MappedIsMerged, Meant
    <3>1. CASE <<"integration", package>> \in DOMAIN byId
      BY <2>4, <3>1 DEF ResourceInv, MappedIsMerged, Meant
    <3>2. CASE entry.id = <<"integration", package>>
      BY <2>1, <2>4, <3>2
    <3> QED  BY <2>4, <3>1, <3>2
  <2> QED  BY <1>2, <2>3, <2>5, <2>6, <2>7, <2>8 DEF ResourceInv
<1> HIDE DEF d
<1>3. d = CanonicalDestination(entry.href)
  BY DEF d
<1> QED  BY <1>1, <1>2, <1>3 DEF Add

\* A package leads to a document only if one is meant, and to one that is meant if there is one.
LEMMA PackageIsLed ==
    ASSUME ResourceInv, resourcePhase # 0, NEW package
    PROVE  /\ PackageHref(package).site = "page" =>
                ListedDoc(resourceDocs, PackageHref(package).leads)
           /\ package \in DOMAIN mappings /\ mappings[package].site = "page" /\ Meant(package) # {} =>
                CanonicalDestination(PackageHref(package)) \in {ResourcePage(doc.route) : doc \in Meant(package)}
<1> DEFINE mapped == mappings[package]
           at == CanonicalDestination(mapped)
<1>1. \A p : /\ ResourcePage(p).site = "page" /\ ResourcePage(p).leads = p
             /\ CanonicalDestination(ResourcePage(p)) = ResourcePage(p)
  BY DEF ResourcePage, Url, CanonicalDestination
<1>2. OnNuGet(package).site = "web"
  BY DEF OnNuGet, Url
<1>3. ASSUME package \in DOMAIN mappings
      PROVE  at.site = mapped.site /\ (mapped.site = "page" => at = ResourcePage(mapped.leads))
  <2>1. mapped \in MappingUrls
    BY <1>3 DEF ResourceInv, Mapped
  <2>2. PICK site, leads, extra : mapped = Url(site, leads, extra)
    BY <2>1 DEF MappingUrls
  <2>3. mapped = [site |-> site, leads |-> leads, extra |-> extra]
    BY <2>2 DEF Url
  <2>4. \A s, l, x : /\ [[site |-> s, leads |-> l, extra |-> x] EXCEPT !.extra = ""] = [site |-> s, leads |-> l, extra |-> ""]
                     /\ [site |-> s, leads |-> l, extra |-> x].site = s /\ [site |-> s, leads |-> l, extra |-> x].leads = l
    <3>1. \A s, l, x, y : /\ [[site |-> s, leads |-> l, extra |-> x] EXCEPT !.extra = y] = [site |-> s, leads |-> l, extra |-> y]
                          /\ [site |-> s, leads |-> l, extra |-> x].site = s /\ [site |-> s, leads |-> l, extra |-> x].leads = l
      OBVIOUS
    <3> QED  BY Zenon, <3>1
  <2>5. at = mapped \/ at = [mapped EXCEPT !.extra = ""]
    BY DEF CanonicalDestination
  <2>6. mapped.site = "page" => at = [mapped EXCEPT !.extra = ""]
    BY DEF CanonicalDestination
  <2> HIDE DEF mapped, at
  <2>7. [mapped EXCEPT !.extra = ""] = [site |-> site, leads |-> leads, extra |-> ""]
    BY <2>3, <2>4
  <2>8. mapped.site = site /\ mapped.leads = leads
    BY <2>3, <2>4
  <2> QED  BY <2>4, <2>5, <2>6, <2>7, <2>8 DEF ResourcePage, Url
<1>4. PackageHref(package) = IF package \notin DOMAIN mappings THEN OnNuGet(package)
                             ELSE IF at.site # "page" THEN mapped
                             ELSE IF at \in DOMAIN docsByPath THEN docsByPath[at] ELSE OnNuGet(package)
  BY DEF PackageHref
<1>5. mapped.leads = mappings[package].leads /\ mapped.site = mappings[package].site
  OBVIOUS
<1> HIDE DEF at, mapped
<1>6. ASSUME at \in DOMAIN docsByPath, package \in DOMAIN mappings, at.site = "page"
      PROVE  \E doc \in Meant(package) : docsByPath[at] = ResourcePage(doc.route)
  <2>1. PICK doc \in resourceDocs : /\ Eligible(doc) /\ docsByPath[at] = ResourcePage(doc.route)
                                    /\ at \in {ResourcePage(doc.route), ResourcePage(doc.file)}
    BY <1>6 DEF ResourceInv, Pathed
  <2>2. at = ResourcePage(mapped.leads)
    BY <1>3, <1>6
  <2>3. mapped.leads \in {doc.route, doc.file}
    BY <1>1, <2>1, <2>2
  <2> QED  BY <1>5, <2>1, <2>3 DEF Meant
<1>7. PackageHref(package).site = "page" => ListedDoc(resourceDocs, PackageHref(package).leads)
  <2> SUFFICES ASSUME PackageHref(package).site = "page" PROVE ListedDoc(resourceDocs, PackageHref(package).leads)
    OBVIOUS
  <2>1. package \in DOMAIN mappings /\ at.site = "page" /\ at \in DOMAIN docsByPath
        /\ PackageHref(package) = docsByPath[at]
    BY <1>2, <1>3, <1>4
  <2>2. PICK doc \in Meant(package) : docsByPath[at] = ResourcePage(doc.route)
    BY <1>6, <2>1
  <2> QED  BY <1>1, <2>1, <2>2 DEF ListedDoc, Meant
<1>8. ASSUME package \in DOMAIN mappings, mapped.site = "page", Meant(package) # {}
      PROVE  CanonicalDestination(PackageHref(package)) \in {ResourcePage(doc.route) : doc \in Meant(package)}
  <2>1. at = ResourcePage(mapped.leads) /\ at.site = "page"
    BY <1>3, <1>8
  <2>2. PICK doc \in resourceDocs : Eligible(doc) /\ mapped.leads \in {doc.route, doc.file}
    BY <1>5, <1>8 DEF Meant
  <2>3. at \in DOMAIN docsByPath
    BY <2>1, <2>2 DEF ResourceInv, Pathed
  <2>4. PICK other \in Meant(package) : docsByPath[at] = ResourcePage(other.route)
    BY <1>6, <1>8, <2>1, <2>3
  <2>5. PackageHref(package) = docsByPath[at]
    BY <1>4, <1>8, <2>1, <2>3
  <2> QED  BY <1>1, <2>4, <2>5
<1> QED  BY <1>5, <1>7, <1>8

LEMMA ResourceStepKeeps == ASSUME ResourceInv, ResourceNext PROVE ResourceInv' /\ FirstStands
<1>1. ASSUME NEW doc, AddDoc(doc) PROVE ResourceInv' /\ FirstStands
  BY <1>1, DocKeeps
<1>2. ASSUME NEW package, NEW url \in MappingUrls, AddMapping(package, url) PROVE ResourceInv' /\ FirstStands
  <2>1. resourcePhase = 2 /\ UNCHANGED resourceDocs
    BY <1>2, SourceIsNumbered DEF AddMapping, ResourceInv
  <2>2. CASE Throw /\ UNCHANGED mappings
    BY <2>1, <2>2, ThrowKeeps
  <2>3. CASE /\ mappings' = Put(mappings, package, url)
             /\ UNCHANGED <<resourcePhase, byDestination, byId, docsByPath, given>>
    <3>1. Stored' /\ Pathed' /\ \A x \in DOMAIN byDestination' : Leading(resourceDocs', byDestination'[x])
      BY <2>1, <2>3 DEF ResourceInv, Stored, Shaped, Pathed
    <3>2. Mapped'
      BY <1>2, <2>1, <2>3 DEF ResourceInv, Mapped, Put, MappingUrls
    <3>3. MappedIsMerged'
      BY <2>1, <2>3 DEF ResourceInv, Mapped, MappedIsMerged
    <3> QED  BY <2>3, <3>1, <3>2, <3>3 DEF ResourceInv, FirstStands
  <2> QED  BY <1>2, <2>2, <2>3 DEF AddMapping
<1>3. \A i, t, k, h, g : /\ Shaped(Resource(i, t, k, h, g)) /\ Resource(i, t, k, h, g).id = i
                         /\ Resource(i, t, k, h, g).href = h /\ Resource(i, t, k, h, g).type = k
  BY DEF Resource, Shaped
<1>4. \A a, b, c, x, y : /\ <<"integration", x>> # <<"doc", y>> /\ <<"video", x>> # <<"doc", y>> /\ <<"channel", x>> # <<"doc", y>>
                         /\ <<"blog", x>> # <<"doc", y>> /\ <<"video", x>> # <<"integration", y>>
                         /\ <<"channel", x>> # <<"integration", y>> /\ <<"blog", x>> # <<"integration", y>>
                         /\ (<<"integration", x>> = <<"integration", y>> => x = y)
  OBVIOUS
<1>5. ASSUME NEW package, AddPackage(package) PROVE ResourceInv' /\ FirstStands
  <2>1. resourcePhase = 3 /\ UNCHANGED <<resourceDocs, mappings>>
    BY <1>5, SourceIsNumbered DEF AddPackage, ResourceInv
  <2>2. CASE Throw
    BY <2>1, <2>2, ThrowKeeps
  <2> DEFINE entry == Resource(<<"integration", package>>, <<"package", package>>, "integration",
                               PackageHref(package), {<<"package", package>>})
  <2>3. CASE Add(entry, "package")
    <3>1. /\ Shaped(entry) /\ entry.id = <<"integration", package>> /\ entry.href = PackageHref(package)
      BY <1>3
    <3> HIDE DEF entry
    <3>2. Leading(resourceDocs, entry)
      BY <1>4, <2>1, <3>1, PackageIsLed DEF Leading
    <3>3. \A p : entry.id = <<"integration", p>> =>
             (p \in DOMAIN mappings /\ mappings[p].site = "page" /\ Meant(p) # {} =>
                CanonicalDestination(entry.href) \in {ResourcePage(doc.route) : doc \in Meant(p)})
      BY <1>4, <2>1, <3>1, PackageIsLed
    <3> QED  BY <1>4, <2>1, <2>3, <3>1, <3>2, <3>3, AddKeeps
  <2> QED  BY <1>5, <2>2, <2>3 DEF AddPackage
<1>6. ASSUME NEW video, NEW extra, NEW title, AddVideo(video, extra, title) PROVE ResourceInv' /\ FirstStands
  <2>1. resourcePhase = 4 /\ UNCHANGED <<resourceDocs, mappings>>
    BY <1>6, SourceIsNumbered DEF AddVideo, ResourceInv
  <2> DEFINE entry == Resource(<<"video", video>>, <<"video", title>>, "video", Url("video", video, extra), {})
  <2>2. Add(entry, "video")
    BY <1>6 DEF AddVideo
  <2>3. Shaped(entry) /\ entry.id = <<"video", video>> /\ entry.href.site = "video"
    BY <1>3 DEF Url
  <2> HIDE DEF entry
  <2>4. Leading(resourceDocs, entry)
    BY <1>4, <2>3 DEF Leading
  <2> QED  BY <1>4, <2>1, <2>2, <2>3, <2>4, AddKeeps
<1>7. ASSUME NEW platform, NEW channel, AddChannel(platform, channel) PROVE ResourceInv' /\ FirstStands
  <2>1. resourcePhase = 5 /\ UNCHANGED <<resourceDocs, mappings>>
    BY <1>7, SourceIsNumbered DEF AddChannel, ResourceInv
  <2> DEFINE entry == Resource(<<"channel", platform>>, <<"channel", platform>>, "video",
                               Url("web", <<"channel", channel>>, ""), {platform})
  <2>2. Add(entry, "")
    BY <1>7 DEF AddChannel
  <2>3. Shaped(entry) /\ entry.id = <<"channel", platform>> /\ entry.href.site = "web"
    <3> DEFINE url == Url("web", <<"channel", channel>>, "")
    <3>1. Shaped(entry) /\ entry.id = <<"channel", platform>> /\ entry.href = url
      <4>1. entry = Resource(<<"channel", platform>>, <<"channel", platform>>, "video", url, {platform})
        OBVIOUS
      <4> HIDE DEF entry, url
      <4> QED  BY <1>3, <4>1
    <3> HIDE DEF entry
    <3>2. \A l : Url("web", l, "").site = "web"
      BY DEF Url
    <3> QED  BY <3>1, <3>2
  <2> HIDE DEF entry
  <2>4. Leading(resourceDocs, entry)
    BY <1>4, <2>3 DEF Leading
  <2>5. (\A route : entry.id # <<"doc", route>>) /\ (\A package : entry.id # <<"integration", package>>)
    BY <1>4, <2>3
  <2>6. resourcePhase \notin {0, 1, 2}
    BY <2>1
  <2> QED  BY <2>1, <2>2, <2>3, <2>4, <2>5, <2>6, AddKeeps
<1>8. ASSUME NEW url, NEW title, AddBlog(url, title) PROVE ResourceInv' /\ FirstStands
  <2>1. resourcePhase = 6 /\ UNCHANGED <<resourceDocs, mappings>>
    BY <1>8, SourceIsNumbered DEF AddBlog, ResourceInv
  <2> DEFINE entry == Resource(<<"blog", CanonicalDestination(url)>>, <<"blog", title>>, "blog", url, {})
  <2>2. Add(entry, "blog")
    BY <1>8 DEF AddBlog
  <2>3. Shaped(entry) /\ entry.id = <<"blog", CanonicalDestination(url)>> /\ entry.type = "blog"
    BY <1>3
  <2> HIDE DEF entry
  <2>4. Leading(resourceDocs, entry)
    BY <1>4, <2>3 DEF Leading
  <2>5. (\A route : entry.id # <<"doc", route>>) /\ (\A package : entry.id # <<"integration", package>>)
    BY <1>4, <2>3
  <2>6. resourcePhase \notin {0, 1, 2}
    BY <2>1
  <2> QED  BY <2>1, <2>2, <2>3, <2>4, <2>5, <2>6, AddKeeps
<1>9. ASSUME NextSource PROVE ResourceInv' /\ FirstStands
  <2>1. DOMAIN Phases = 1 .. 7 /\ Cardinality(1 .. 7) = 7
    <3>1. DOMAIN Phases = 1 .. 7
      BY DEF Phases
    <3>2. Cardinality(1 .. 7) = IF 1 > 7 THEN 0 ELSE 7 - 1 + 1
      <4>1. 1 \in Int /\ 7 \in Int
        OBVIOUS
      <4> QED  BY Zenon, <4>1, FS_Interval
    <3> QED  BY <3>1, <3>2
  <2>2. resourcePhase' = resourcePhase + 1 /\ resourcePhase # 0 /\ resourcePhase < 7
    BY <1>9, <2>1 DEF NextSource
  <2>3. UNCHANGED <<byDestination, byId, resourceDocs, docsByPath, mappings, given>>
    BY <1>9 DEF NextSource
  <2>4. resourcePhase' \in 0 .. 7 /\ resourcePhase' # 1 /\ (resourcePhase' = 2 => resourcePhase = 1)
    BY <2>2 DEF ResourceInv
  <2>5. Mapped' /\ MappedIsMerged'
    BY <2>3, <2>4 DEF ResourceInv, Mapped, MappedIsMerged
  <2>6. Stored' /\ Pathed' /\ \A x \in DOMAIN byDestination' : Leading(resourceDocs', byDestination'[x])
    BY <2>2, <2>3 DEF ResourceInv, Stored, Shaped, Pathed
  <2> QED  BY <2>3, <2>4, <2>5, <2>6 DEF ResourceInv, FirstStands
<1> QED  BY <1>1, <1>2, <1>5, <1>6, <1>7, <1>8, <1>9 DEF ResourceNext

LEMMA ResourceInvariant == ResourceSpec => []ResourceInv
<1>1. ResourceInit => ResourceInv
  BY DEF ResourceInit, ResourceInv, Stored, Pathed, Mapped, MappedIsMerged
<1>2. ResourceInv /\ [ResourceNext]_resourceVars => ResourceInv'
  <2>1. ASSUME ResourceInv, UNCHANGED resourceVars PROVE ResourceInv'
    <3>1. UNCHANGED <<resourcePhase, byDestination, byId, resourceDocs, docsByPath, mappings, given>>
      BY <2>1 DEF resourceVars
    <3> QED  BY <2>1, <3>1 DEF ResourceInv, Stored, Shaped, Pathed, Mapped, MappedIsMerged
  <2> QED  BY <2>1, ResourceStepKeeps
<1> QED  BY <1>1, <1>2, PTL DEF ResourceSpec

\* The directory leads only to what is listed and finds everything that was added, whatever the
\* documents, packages, videos and posts say and in whatever order (catalog-normalization.ts).
THEOREM DirectoryIsSafe ==
    ResourceSpec => [](/\ ResourceTypeOK /\ LinksLead /\ HiddenStayHidden /\ EverythingIsFound
                       /\ IdentitiesOnce /\ MappedIsMerged)
<1>1. ResourceInv => ResourceTypeOK
  BY DEF ResourceInv, Stored, ResourceTypeOK
<1>2. ResourceInv => LinksLead
  BY DEF ResourceInv, Leading, ListedDoc, LinksLead, Entries
<1>3. ResourceInv => HiddenStayHidden
  <2> SUFFICES ASSUME ResourceInv, NEW doc \in resourceDocs, ~doc.listed,
                      \A other \in resourceDocs \ {doc} : other.route # doc.route,
                      NEW d \in DOMAIN byDestination, <<"doc", doc.route>> = byDestination[d].id
               PROVE  FALSE
    BY DEF HiddenStayHidden, Entries
  <2>1. ListedDoc(resourceDocs, doc.route)
    BY DEF ResourceInv, Leading
  <2> QED  BY <2>1 DEF ListedDoc, Eligible
<1>4. ResourceInv => EverythingIsFound
  BY DEF ResourceInv, Stored, EverythingIsFound
<1>5. ResourceInv => IdentitiesOnce
  BY DEF ResourceInv, Stored, IdentitiesOnce, Entries
<1>6. ResourceInv => MappedIsMerged
  BY DEF ResourceInv
<1> QED  BY <1>1, <1>2, <1>3, <1>4, <1>5, <1>6, ResourceInvariant, PTL

\* A merge replaces nothing that a source said before (add in catalog-normalization.ts).
THEOREM FirstStaysFirst == ResourceSpec => [][FirstStands]_resourceVars
<1>1. ResourceInv /\ [ResourceNext]_resourceVars => [FirstStands]_resourceVars
  BY ResourceStepKeeps
<1> QED  BY <1>1, ResourceInvariant, PTL DEF ResourceSpec
-----------------------------------------------------------------------------
(* The social cards.  The two computations of where a card is agree, and    *)
(* what is remembered of a card is what it was drawn with.                   *)
IsCardOf(id, card) == card.title = cardDocs[id].title /\ card.topic = cardDocs[id].topic /\ card.assets = assets

CardInv ==
    /\ emoji \in {"none", "fetching", "svg", "empty"} /\ fetches = (IF emoji = "none" THEN 0 ELSE 1)
    /\ DOMAIN cardDocs \subseteq Ids /\ \A id \in DOMAIN cardDocs : cardDocs[id] \in Frontmatter
    /\ jobs # CardNone => DOMAIN jobs = StaticPaths
    /\ DOMAIN out = {id \in DOMAIN jobs : jobs[id] = "done"}
    /\ drawn \subseteq DOMAIN out
    /\ \A id \in DOMAIN out : IsCardOf(id, out[id])
    /\ \A id \in drawn : HasEmoji(cardDocs[id]) => emoji \in {"svg", "empty"} /\ out[id].emoji = emoji
    /\ \A id \in DOMAIN cache : cache[id].key = <<cache[id].card.title, cache[id].card.topic, cache[id].card.assets>>

\* A card goes into the output, from the cache or drawn.
LEMMA CardIsPlaced ==
    ASSUME CardInv, NEW id, jobs # CardNone, id \in DOMAIN jobs, jobs[id] # "done", NEW card, IsCardOf(id, card),
           out' = CardPut(out, id, card), jobs' = [jobs EXCEPT ![id] = "done"],
           UNCHANGED <<cardDocs, assets, emoji, fetches>>,
           \/ cache' = cache
           \/ cache' = CardPut(cache, id, [key |-> CacheKey(cardDocs[id]), card |-> card]),
           \/ drawn' = drawn
           \/ /\ drawn' = drawn \union {id}
              /\ HasEmoji(cardDocs[id]) => emoji \in {"svg", "empty"} /\ card.emoji = emoji
    PROVE  CardInv'
<1>1. /\ DOMAIN out' = DOMAIN out \union {id} /\ out'[id] = card
      /\ \A x \in DOMAIN out : x # id => out'[x] = out[x]
  BY DEF CardPut
<1>2. /\ DOMAIN jobs' = DOMAIN jobs /\ jobs'[id] = "done"
      /\ \A x \in DOMAIN jobs : x # id => jobs'[x] = jobs[x]
  OBVIOUS
<1>3. id \notin DOMAIN out /\ id \notin drawn
  BY DEF CardInv
<1>4. StaticPaths' = StaticPaths
  BY DEF StaticPaths, EndpointRoute
<1>5. DOMAIN out' = {x \in DOMAIN jobs' : jobs'[x] = "done"}
  BY <1>1, <1>2 DEF CardInv
<1>6. jobs' # CardNone => DOMAIN jobs' = StaticPaths'
  BY <1>2, <1>4 DEF CardInv
<1>7. \A x \in DOMAIN out' : out'[x].title = cardDocs'[x].title /\ out'[x].topic = cardDocs'[x].topic /\ out'[x].assets = assets'
  BY <1>1, <1>3 DEF CardInv, IsCardOf
<1>8. drawn' \subseteq DOMAIN out'
  BY <1>1 DEF CardInv
<1>9. \A x \in drawn' : HasEmoji(cardDocs'[x]) => emoji' \in {"svg", "empty"} /\ out'[x].emoji = emoji'
  <2> SUFFICES ASSUME NEW x \in drawn', HasEmoji(cardDocs[x])
               PROVE  emoji \in {"svg", "empty"} /\ out'[x].emoji = emoji
    BY DEF HasEmoji
  <2>1. CASE x \in drawn
    BY <1>1, <1>3, <2>1 DEF CardInv
  <2>2. CASE x \notin drawn
    BY <1>1, <2>2
  <2> QED  BY <2>1, <2>2
<1>10. \A x \in DOMAIN cache' : cache'[x].key = <<cache'[x].card.title, cache'[x].card.topic, cache'[x].card.assets>>
  <2>1. CASE cache' = cache
    BY <2>1 DEF CardInv
  <2>2. CASE cache' = CardPut(cache, id, [key |-> CacheKey(cardDocs[id]), card |-> card])
    <3> DEFINE kept == [key |-> CacheKey(cardDocs[id]), card |-> card]
    <3>1. kept.key = <<kept.card.title, kept.card.topic, kept.card.assets>>
      BY DEF CacheKey, IsCardOf
    <3>2. cache' = CardPut(cache, id, kept)
      BY <2>2
    <3> HIDE DEF kept
    <3>3. \A x \in DOMAIN cache' : cache'[x] = kept \/ (x \in DOMAIN cache /\ cache'[x] = cache[x])
      BY <3>2 DEF CardPut
    <3> QED  BY <3>1, <3>3 DEF CardInv
  <2> QED  BY <2>1, <2>2
<1> QED  BY <1>5, <1>6, <1>7, <1>8, <1>9, <1>10 DEF CardInv, IsCardOf

LEMMA CardStepKeeps == ASSUME CardInv, [CardNext]_cardVars PROVE CardInv'
<1>1. CASE StartBuild
  <2>1. DOMAIN CardNone = {}
    BY DEF CardNone
  <2>2. /\ jobs' = [id \in StaticPaths |-> "todo"] /\ drawn' = {} /\ out' = CardNone /\ emoji' = "none" /\ fetches' = 0
        /\ UNCHANGED <<cardDocs, assets, cache>>
    BY <1>1 DEF StartBuild
  <2>3. StaticPaths' = StaticPaths
    BY <2>2 DEF StaticPaths, EndpointRoute
  <2>4. DOMAIN out' = {} /\ {id \in DOMAIN jobs' : jobs'[id] = "done"} = {} /\ DOMAIN jobs' = StaticPaths'
    BY <2>1, <2>2, <2>3
  <2> QED  BY <2>2, <2>4 DEF CardInv
<1>2. CASE Answer
  <2>1. /\ emoji = "fetching" /\ emoji' \in {"svg", "empty"}
        /\ UNCHANGED <<cardDocs, assets, cache, fetches, jobs, drawn, out>>
    BY <1>2 DEF Answer
  <2>2. StaticPaths' = StaticPaths
    BY <2>1 DEF StaticPaths, EndpointRoute
  <2>3. \A id \in drawn : ~HasEmoji(cardDocs[id])
    BY <2>1 DEF CardInv
  <2> QED  BY <2>1, <2>2, <2>3 DEF CardInv, IsCardOf, HasEmoji
<1>3. CASE Network \/ UNCHANGED cardVars
  <2>1. UNCHANGED <<cardDocs, assets, cache, emoji, fetches, jobs, drawn, out>>
    BY <1>3 DEF Network, cardVars
  <2>2. StaticPaths' = StaticPaths
    BY <2>1 DEF StaticPaths, EndpointRoute
  <2> QED  BY <2>1, <2>2 DEF CardInv, IsCardOf, HasEmoji
<1>4. CASE Edit
  <2>1. DOMAIN CardNone = {}
    BY DEF CardNone
  <2>2. /\ jobs' = CardNone /\ out' = CardNone /\ drawn' = {} /\ UNCHANGED <<cache, emoji, fetches>>
        /\ \/ UNCHANGED cardDocs
           \/ \E id \in DOMAIN cardDocs :
                 \E data \in {[cardDocs[id] EXCEPT !.topic = 3 - @], [cardDocs[id] EXCEPT !.og = ~@]} :
                    cardDocs' = [cardDocs EXCEPT ![id] = data]
    BY <1>4 DEF Edit
  <2>3. \A data \in Frontmatter : [data EXCEPT !.topic = 3 - @] \in Frontmatter /\ [data EXCEPT !.og = ~@] \in Frontmatter
    <3> SUFFICES ASSUME NEW data \in Frontmatter
                 PROVE  [data EXCEPT !.topic = 3 - @] \in Frontmatter /\ [data EXCEPT !.og = ~@] \in Frontmatter
      OBVIOUS
    <3>1. \A t \in {1, 2} : [data EXCEPT !.topic = t] \in Frontmatter
      BY DEF Frontmatter
    <3>2. \A b \in BOOLEAN : [data EXCEPT !.og = b] \in Frontmatter
      BY DEF Frontmatter
    <3>3. data.topic \in {1, 2} /\ data.og \in BOOLEAN
      BY DEF Frontmatter
    <3>4. 3 - data.topic \in {1, 2} /\ (~data.og) \in BOOLEAN
      BY <3>3
    <3> QED  BY <3>1, <3>2, <3>4
  <2>4. DOMAIN cardDocs' \subseteq Ids /\ \A id \in DOMAIN cardDocs' : cardDocs'[id] \in Frontmatter
    <3>1. CASE UNCHANGED cardDocs
      BY <3>1 DEF CardInv
    <3>2. CASE \E id \in DOMAIN cardDocs :
                 \E data \in {[cardDocs[id] EXCEPT !.topic = 3 - @], [cardDocs[id] EXCEPT !.og = ~@]} :
                    cardDocs' = [cardDocs EXCEPT ![id] = data]
      <4>1. PICK id \in DOMAIN cardDocs, data \in Frontmatter : cardDocs' = [cardDocs EXCEPT ![id] = data]
        <5>1. PICK id \in DOMAIN cardDocs : \E data \in {[cardDocs[id] EXCEPT !.topic = 3 - @], [cardDocs[id] EXCEPT !.og = ~@]} :
                                               cardDocs' = [cardDocs EXCEPT ![id] = data]
          BY <3>2
        <5>2. cardDocs[id] \in Frontmatter
          BY DEF CardInv
        <5>3. {[cardDocs[id] EXCEPT !.topic = 3 - @], [cardDocs[id] EXCEPT !.og = ~@]} \subseteq Frontmatter
          BY <2>3, <5>2
        <5> QED  BY <5>1, <5>3
      <4> QED  BY <4>1 DEF CardInv
    <3> QED  BY <2>2, <3>1, <3>2
  <2>5. DOMAIN out' = {} /\ {id \in DOMAIN jobs' : jobs'[id] = "done"} = {}
    BY <2>1, <2>2
  <2> QED  BY <2>2, <2>4, <2>5 DEF CardInv
<1>5. ASSUME NEW id \in Ids, Reuse(id) PROVE CardInv'
  <2>1. IsCardOf(id, cache[id].card)
    <3>1. cache[id].key = <<cache[id].card.title, cache[id].card.topic, cache[id].card.assets>>
      BY <1>5 DEF Reuse, Cached, CardInv
    <3>2. cache[id].key = <<cardDocs[id].title, cardDocs[id].topic, assets>>
      BY <1>5 DEF Reuse, Cached, CacheKey
    <3> QED  BY <3>1, <3>2 DEF IsCardOf
  <2>2. /\ jobs # CardNone /\ id \in DOMAIN jobs /\ jobs[id] # "done" /\ out' = CardPut(out, id, cache[id].card)
        /\ jobs' = [jobs EXCEPT ![id] = "done"]
        /\ UNCHANGED <<cardDocs, assets, emoji, fetches>> /\ cache' = cache /\ drawn' = drawn
    BY <1>5 DEF Reuse
  <2> QED  BY <2>1, <2>2, CardIsPlaced
<1>6. ASSUME NEW id \in Ids, DrawPlain(id) \/ DrawEmoji(id) PROVE CardInv'
  <2>1. PICK mark : Finish(id, mark) /\ (HasEmoji(cardDocs[id]) => mark = emoji /\ emoji \in {"svg", "empty"})
    BY <1>6 DEF DrawPlain, DrawEmoji
  <2> DEFINE card == [title |-> cardDocs[id].title, topic |-> cardDocs[id].topic, assets |-> assets, emoji |-> mark]
  <2>2. IsCardOf(id, card) /\ card.emoji = mark
    BY DEF IsCardOf
  <2>3. /\ out' = CardPut(out, id, card) /\ cache' = CardPut(cache, id, [key |-> CacheKey(cardDocs[id]), card |-> card])
        /\ drawn' = drawn \union {id} /\ jobs' = [jobs EXCEPT ![id] = "done"]
    BY <2>1 DEF Finish
  <2>4. jobs # CardNone /\ id \in DOMAIN jobs /\ jobs[id] # "done" /\ UNCHANGED <<cardDocs, assets, emoji, fetches>>
    BY <1>6 DEF DrawPlain, DrawEmoji
  <2> HIDE DEF card
  <2> QED  BY <2>1, <2>2, <2>3, <2>4, CardIsPlaced
<1>7. ASSUME NEW id \in Ids, AskEmoji(id) PROVE CardInv'
  <2>1. /\ id \in DOMAIN jobs /\ jobs[id] = "todo" /\ jobs # CardNone /\ jobs' = [jobs EXCEPT ![id] = "emoji"]
        /\ UNCHANGED <<cardDocs, assets, cache, drawn, out>>
        /\ \/ UNCHANGED <<emoji, fetches>>
           \/ emoji = "none" /\ emoji' = "fetching" /\ fetches' = fetches + 1
    BY <1>7 DEF AskEmoji, Remembered
  <2>2. StaticPaths' = StaticPaths
    BY <2>1 DEF StaticPaths, EndpointRoute
  <2>3. DOMAIN jobs' = DOMAIN jobs /\ {x \in DOMAIN jobs' : jobs'[x] = "done"} = {x \in DOMAIN jobs : jobs[x] = "done"}
    BY <2>1
  <2>4. emoji' \in {"none", "fetching", "svg", "empty"} /\ fetches' = (IF emoji' = "none" THEN 0 ELSE 1)
    BY <2>1 DEF CardInv
  <2>5. \A x \in drawn' : HasEmoji(cardDocs'[x]) => emoji' \in {"svg", "empty"} /\ out'[x].emoji = emoji'
    BY <2>1 DEF CardInv, HasEmoji
  <2>6. \A x \in DOMAIN out' : out'[x].title = cardDocs'[x].title /\ out'[x].topic = cardDocs'[x].topic /\ out'[x].assets = assets'
    BY <2>1 DEF CardInv, IsCardOf
  <2> QED  BY <2>1, <2>2, <2>3, <2>4, <2>5, <2>6 DEF CardInv, IsCardOf
<1> QED  BY <1>1, <1>2, <1>3, <1>4, <1>5, <1>6, <1>7 DEF CardNext

\* Where a page looks for its card is where the build puts it.
LEMMA ImagesAreNamed ==
    ASSUME CardInv
    PROVE  /\ \A r \in Routes : ResolveOgImage(r) \in {DefaultImage, OwnImage}
                                  \union {<<"og">> \o p : p \in StaticPaths \union {SampleCard(s) : s \in CardSamples}}
           /\ \A id \in StaticPaths : cardDocs[id].ogImage # Unset \/ <<"og">> \o id \in {ResolveOgImage(r) : r \in Routes}
<1>1. \A id, l : /\ PageRoute(id, l).id = id /\ PageRoute(id, l).locale = l /\ PageRoute(id, l).pages = FALSE
                 /\ PageRoute(id, l).data = cardDocs[id]
  BY DEF PageRoute
<1>2. \A id : EndpointRoute(id) = PageRoute(id, "root")
  BY DEF EndpointRoute, PageRoute
<1>3. \A id : GetContentBasePath(PageRoute(id, "root")) = id
  BY <1>1 DEF GetContentBasePath
<1>4. \A id \in DOMAIN cardDocs : cardDocs[id].ogImage \in {Unset, OwnImage} /\ cardDocs[id].og \in BOOLEAN
  BY DEF CardInv, Frontmatter
<1>5. ASSUME NEW id \in DOMAIN cardDocs, IsDefaultLocaleEntry(id)
      PROVE  ResolveOgImage(PageRoute(id, "root"))
               = IF cardDocs[id].ogImage # Unset THEN OwnImage
                 ELSE IF id \in StaticPaths THEN <<"og">> \o id ELSE DefaultImage
  <2>1. id \in StaticPaths <=> ~ShouldSkipDynamicOgImage(PageRoute(id, "root"), id)
    BY <1>2, <1>5 DEF StaticPaths
  <2>2. ~cardDocs[id].og => ShouldSkipDynamicOgImage(PageRoute(id, "root"), id)
    BY <1>1 DEF ShouldSkipDynamicOgImage
  <2> QED  BY <1>1, <1>3, <1>4, <1>5, <2>1, <2>2 DEF ResolveOgImage
<1>6. ASSUME NEW id \in DOMAIN cardDocs PROVE ResolveOgImage(PageRoute(id, Locale)) \in {DefaultImage, OwnImage}
  BY <1>1, <1>4, CardAssumption DEF ResolveOgImage
<1>7. ASSUME NEW s \in CardSamples
      PROVE  ResolveOgImage(SampleRoute(s)) \in {DefaultImage, <<"og">> \o SampleCard(s)}
  <2>1. SampleRoute(s).pages /\ SampleRoute(s).data.ogImage = <<"og">> \o SampleCard(s)
    BY DEF SampleRoute
  <2> QED  BY <2>1 DEF ResolveOgImage, ShouldSkipDynamicOgImage
<1>8. ASSUME NEW r \in Routes
      PROVE  ResolveOgImage(r) \in {DefaultImage, OwnImage}
                \union {<<"og">> \o p : p \in StaticPaths \union {SampleCard(s) : s \in CardSamples}}
  <2>1. CASE \E id \in DOMAIN cardDocs : IsDefaultLocaleEntry(id) /\ r = PageRoute(id, "root")
    BY <1>5, <2>1
  <2>2. CASE \E id \in DOMAIN cardDocs : r = PageRoute(id, Locale)
    BY <1>6, <2>2
  <2>3. CASE \E s \in CardSamples : r = SampleRoute(s)
    BY <1>7, <2>3
  <2> QED  BY <2>1, <2>2, <2>3 DEF Routes
<1>9. ASSUME NEW id \in StaticPaths, cardDocs[id].ogImage = Unset
      PROVE  <<"og">> \o id \in {ResolveOgImage(r) : r \in Routes}
  <2>1. id \in DOMAIN cardDocs /\ IsDefaultLocaleEntry(id)
    BY DEF StaticPaths
  <2>2. PageRoute(id, "root") \in Routes
    BY <2>1 DEF Routes
  <2>3. ResolveOgImage(PageRoute(id, "root")) = <<"og">> \o id
    BY <1>5, <1>9, <2>1
  <2> QED  BY <2>2, <2>3
<1> QED  BY <1>8, <1>9

\* Every page names an image that the build has put there, cards are of the entry, the assets and
\* the title of today, and those of one build agree on the emoji, whatever the network does
\* (page-metadata.ts, pages/og, og-image-renderer.ts, og-cache-key.ts).
THEOREM CardsAreSafe ==
    CardInit /\ [][CardNext]_cardVars => [](CardTypeOK /\ ImageExists /\ CardIsCurrent /\ EmojiOnce)
<1>1. CardInit => CardInv
  <2> SUFFICES ASSUME CardInit PROVE CardInv
    OBVIOUS
  <2>1. DOMAIN cardDocs \subseteq Ids /\ \A id \in DOMAIN cardDocs : cardDocs[id] \in Frontmatter
    BY DEF CardInit
  <2>2. DOMAIN out = {} /\ DOMAIN cache = {} /\ DOMAIN jobs = {} /\ drawn = {} /\ emoji = "none" /\ fetches = 0 /\ jobs = CardNone
    BY DEF CardInit, CardNone
  <2> QED  BY <2>1, <2>2 DEF CardInv
<1>2. CardInv /\ [CardNext]_cardVars => CardInv'
  BY CardStepKeeps
<1>3. ASSUME CardInv, jobs # CardNone PROVE DOMAIN jobs \subseteq DOMAIN cardDocs
  BY <1>3 DEF CardInv, StaticPaths
<1>4. CardInv => DOMAIN out \subseteq Ids
  <2> SUFFICES ASSUME CardInv PROVE DOMAIN out \subseteq Ids
    OBVIOUS
  <2>1. CASE jobs = CardNone
    BY <2>1 DEF CardInv, CardNone
  <2>2. CASE jobs # CardNone
    BY <1>3, <2>2 DEF CardInv
  <2> QED  BY <2>1, <2>2
<1>5. CardInv => CardTypeOK
  BY <1>3, <1>4 DEF CardInv, CardTypeOK
<1>6. CardInv /\ Built => DOMAIN out = StaticPaths
  BY DEF CardInv, Built, Building
<1>7. CardInv => ImageExists
  BY <1>6, ImagesAreNamed DEF ImageExists
<1>8. CardInv => CardIsCurrent
  BY DEF CardInv, IsCardOf, CardIsCurrent
<1>9. CardInv => EmojiOnce
  BY DEF CardInv, EmojiOnce
<1> QED  BY <1>1, <1>2, <1>5, <1>7, <1>8, <1>9, PTL
-----------------------------------------------------------------------------
(* The declarations of the SDK.  The bundle is what the modules say it is,  *)
(* from the moment it is generated.                                          *)
Drawn(state) ==
    [state |-> state, dto |-> DtoIn(GeneratorOrder), enum |-> EnumUnion,
     handles |-> [h \in HandlesIn(Modules) |-> EmittedParents(h)],
     methods |-> [t \in {u \in DOMAIN MethodsByTarget : Emits(u)} |-> MethodsByTarget[t]],
     stubs |-> Stubs \union {IResource}]

ModuleShape ==
    [handles : UNION {[S -> SUBSET Parents] : S \in SUBSET HandleNames}, dto : SUBSET BundleTypes,
     enum : SUBSET Members, functions : SUBSET [targets : SUBSET BundleTypes, type : BundleTypes]]

BundleInv ==
    /\ bundleModules \in [Modules -> ModuleShape] /\ parts \in 0..MaxParts
    /\ bundle \in {NoBundle, Drawn("generated"), Drawn("validated")}
    /\ (bundle = NoBundle => errors = {}) /\ RejectsOnlyDisputed

\* In an order that lists all modules, the first that describes a type is one that does.
LEMMA FirstOf ==
    ASSUME NEW order \in Seq(Modules), NEW S, \E m \in Range(order) : m \in S
    PROVE  LET i == CHOOSE n \in DOMAIN order : order[n] \in S /\ \A j \in 1..(n - 1) : ~(order[j] \in S)
           IN  i \in DOMAIN order /\ order[i] \in S /\ order[i] \in Modules
<1> DEFINE T == {i \in DOMAIN order : order[i] \in S}
<1>1. DOMAIN order = 1..Len(order) /\ Len(order) \in Nat /\ \A i \in DOMAIN order : order[i] \in Modules
  BY ElementOfSeq, LenProperties
<1>2. T # {} /\ T \in SUBSET Nat
  BY <1>1 DEF Range
<1>3. PICK i \in T : \A k \in T : i <= k
  BY <1>2, LeastNatural
<1>4. \A j \in 1..(i - 1) : ~(order[j] \in S)
  <2> SUFFICES ASSUME NEW j \in 1..(i - 1), order[j] \in S PROVE FALSE
    OBVIOUS
  <2>1. i \in 1..Len(order) /\ i \in Nat /\ j \in Nat /\ j < i
    BY <1>1, <1>3
  <2>2. j \in T
    BY <1>1, <2>1
  <2> QED  BY <1>3, <2>1, <2>2
<1> QED  BY <1>1, <1>3, <1>4

\* What either order makes of a type is what one of the modules says of it.
LEMMA DtoOfSome ==
    ASSUME NEW order \in {GeneratorOrder, ValidatorOrder}
    PROVE  /\ (\A m \in Modules : bundleModules[m].dto = {}) => DtoIn(order) = {}
           /\ (\E m \in Modules : bundleModules[m].dto # {}) =>
                 \E m \in Modules : bundleModules[m].dto # {} /\ DtoIn(order) = bundleModules[m].dto
<1>1. order \in Seq(Modules) /\ Range(order) = Modules
  BY BundleAssumption DEF Modules
<1> DEFINE S == {m \in Modules : bundleModules[m].dto # {}}
           i == CHOOSE n \in DOMAIN order : order[n] \in S /\ \A j \in 1..(n - 1) : ~(order[j] \in S)
           k == CHOOSE n \in DOMAIN order : bundleModules[order[n]].dto # {}
                    /\ \A j \in 1..(n - 1) : ~(bundleModules[order[j]].dto # {})
<1>2. ASSUME \E m \in Modules : bundleModules[m].dto # {}
      PROVE  \E m \in Modules : bundleModules[m].dto # {} /\ DtoIn(order) = bundleModules[m].dto
  <2>1. i \in DOMAIN order /\ order[i] \in S
    BY <1>1, <1>2, FirstOf
  <2>2. k = i
    <3>1. \A n \in DOMAIN order :
            /\ (order[n] \in S) <=> (bundleModules[order[n]].dto # {})
            /\ \A j \in 1..(n - 1) : (order[j] \in S) <=> (bundleModules[order[j]].dto # {})
      BY <1>1, ElementOfSeq, LenProperties
    <3> HIDE DEF S
    <3> QED  BY <3>1
  <2>3. DtoIn(order) = bundleModules[order[k]].dto
    BY <1>1, <1>2 DEF DtoIn, FirstWith
  <2> HIDE DEF i, k
  <2> QED  BY <2>1, <2>2, <2>3
<1>3. (\A m \in Modules : bundleModules[m].dto = {}) => DtoIn(order) = {}
  BY <1>1 DEF DtoIn
<1> QED  BY <1>2, <1>3

LEMMA ParentsOfSome ==
    ASSUME NEW order \in {GeneratorOrder, ValidatorOrder}, NEW h \in HandlesIn(Modules)
    PROVE  \E m \in Modules : h \in DOMAIN bundleModules[m].handles /\ ParentsIn(order, h) = bundleModules[m].handles[h]
<1>1. order \in Seq(Modules) /\ Range(order) = Modules
  BY BundleAssumption DEF Modules
<1> DEFINE S == {m \in Modules : h \in DOMAIN bundleModules[m].handles}
           i == CHOOSE n \in DOMAIN order : order[n] \in S /\ \A j \in 1..(n - 1) : ~(order[j] \in S)
           k == CHOOSE n \in DOMAIN order : h \in DOMAIN bundleModules[order[n]].handles
                    /\ \A j \in 1..(n - 1) : ~(h \in DOMAIN bundleModules[order[j]].handles)
<1>2. \E m \in Modules : m \in S
  BY DEF HandlesIn
<1>3. i \in DOMAIN order /\ order[i] \in S
  BY <1>1, <1>2, FirstOf
<1>4. k = i
  <2>1. \A n \in DOMAIN order :
          /\ (order[n] \in S) <=> (h \in DOMAIN bundleModules[order[n]].handles)
          /\ \A j \in 1..(n - 1) : (order[j] \in S) <=> (h \in DOMAIN bundleModules[order[j]].handles)
    BY <1>1, ElementOfSeq, LenProperties
  <2> HIDE DEF S
  <2> QED  BY <2>1
<1>5. ParentsIn(order, h) = bundleModules[order[k]].handles[h]
  BY DEF ParentsIn, FirstWith
<1> HIDE DEF i, k
<1> QED  BY <1>3, <1>4, <1>5

\* What is computed from the modules stands while they do.
LEMMA DrawnStands == ASSUME UNCHANGED bundleModules, NEW CONSTANT state PROVE Drawn(state)' = Drawn(state)
<1>1. DtoIn(GeneratorOrder)' = DtoIn(GeneratorOrder)
  BY DEF DtoIn, FirstWith
<1>2. \A h : ParentsIn(GeneratorOrder, h)' = ParentsIn(GeneratorOrder, h)
  BY DEF ParentsIn, FirstWith
<1>3. HandlesIn(Modules)' = HandlesIn(Modules) /\ EnumUnion' = EnumUnion /\ Functions' = Functions
  BY DEF HandlesIn, EnumUnion, Functions, Modules
<1>4. \A h : EmittedParents(h)' = EmittedParents(h)
  BY <1>2, <1>3 DEF EmittedParents
<1>5. MethodsByTarget' = MethodsByTarget
  BY <1>3 DEF MethodsByTarget
<1>6. \A t : Emits(t)' <=> Emits(t)
  BY <1>1, <1>3 DEF Emits
<1>7. Stubs' = Stubs
  BY <1>1, <1>3, <1>4, <1>5 DEF Stubs, Referenced, DeclaredTypes, DescribedTypes
<1> QED  BY <1>1, <1>3, <1>4, <1>5, <1>6, <1>7 DEF Drawn

\* Each name that the bundle mentions is declared, once.
LEMMA DrawnIsWhole == ASSUME bundle \in {Drawn("generated"), Drawn("validated")} PROVE NothingUndeclared /\ OneKind
<1>1. /\ bundle.dto = DtoIn(GeneratorOrder) /\ bundle.enum = EnumUnion
      /\ DOMAIN bundle.handles = HandlesIn(Modules) /\ \A h \in HandlesIn(Modules) : bundle.handles[h] = EmittedParents(h)
      /\ DOMAIN bundle.methods = {u \in DOMAIN MethodsByTarget : Emits(u)}
      /\ \A t \in {u \in DOMAIN MethodsByTarget : Emits(u)} : bundle.methods[t] = MethodsByTarget[t]
      /\ bundle.stubs = Stubs \union {IResource}
  BY DEF Drawn
<1>2. \A t \in DOMAIN MethodsByTarget : MethodsByTarget[t] \subseteq Functions
  BY DEF MethodsByTarget
<1>3. Mentioned \subseteq Referenced
  <2> SUFFICES ASSUME NEW x \in Mentioned PROVE x \in Referenced
    OBVIOUS
  <2>1. \/ \E t \in DOMAIN bundle.methods : \E f \in bundle.methods[t] : x = f.type
        \/ x \in bundle.dto
        \/ \E h \in DOMAIN bundle.handles : x \in bundle.handles[h]
    <3> DEFINE ofMethods == UNION {{f.type : f \in bundle.methods[t]} : t \in DOMAIN bundle.methods}
               ofHandles == UNION {bundle.handles[h] : h \in DOMAIN bundle.handles}
    <3>1. x \in ofMethods => \E t \in DOMAIN bundle.methods : \E f \in bundle.methods[t] : x = f.type
      OBVIOUS
    <3>2. x \in ofHandles => \E h \in DOMAIN bundle.handles : x \in bundle.handles[h]
      OBVIOUS
    <3>3. x \in ofMethods \union bundle.dto \union ofHandles
      BY DEF Mentioned
    <3> HIDE DEF ofMethods, ofHandles
    <3> QED  BY <3>1, <3>2, <3>3
  <2>2. \/ \E f \in Functions : x = f.type
        \/ x \in DtoIn(GeneratorOrder)
        \/ \E h \in HandlesIn(Modules) : x \in EmittedParents(h)
    BY <1>1, <1>2, <2>1
  <2> QED  BY <2>2 DEF Referenced
<1>4. DeclaredTypes \subseteq Declared
  BY <1>1 DEF DeclaredTypes, DescribedTypes, Declared, Emits
<1>5. NothingUndeclared
  BY <1>1, <1>3, <1>4 DEF NothingUndeclared, Declared, Stubs
<1>6. OneKind
  BY <1>1 DEF OneKind, Stubs, DeclaredTypes, DescribedTypes, Emits
<1> QED  BY <1>5, <1>6

LEMMA BundleInvariant == BundleSpec => []BundleInv
<1>1. BundleInit => BundleInv
  <2> SUFFICES ASSUME BundleInit PROVE BundleInv
    OBVIOUS
  <2>1. EmptyModule \in ModuleShape
    <3>1. [h \in {} |-> {}] \in [{} -> SUBSET Parents]
      OBVIOUS
    <3>2. [h \in {} |-> {}] \in UNION {[S -> SUBSET Parents] : S \in SUBSET HandleNames}
      BY <3>1
    <3> QED  BY <3>2 DEF EmptyModule, ModuleShape
  <2> QED  BY <2>1, BundleAssumption DEF BundleInit, BundleInv, RejectsOnlyDisputed
<1>2. BundleInv /\ [BundleNext]_bundleVars => BundleInv'
  <2> SUFFICES ASSUME BundleInv, [BundleNext]_bundleVars PROVE BundleInv'
    OBVIOUS
  <2>1. ASSUME NEW m \in Modules, NEW content \in ModuleShape, BundlePut(m, content) PROVE BundleInv'
    <3>1. /\ bundleModules' = [bundleModules EXCEPT ![m] = content] /\ parts' = parts + 1 /\ parts < MaxParts
          /\ bundle' = NoBundle /\ errors' = {}
      BY <2>1 DEF BundlePut, BundleInv
    <3>2. bundleModules' \in [Modules -> ModuleShape]
      BY <3>1 DEF BundleInv
    <3>3. parts' \in 0..MaxParts
      BY <3>1, BundleAssumption DEF BundleInv
    <3>4. NoBundle' = NoBundle /\ Modules' = Modules /\ ModuleShape' = ModuleShape
      BY DEF NoBundle, Modules, ModuleShape, BundleTypes, Parents
    <3> QED  BY <3>1, <3>2, <3>3, <3>4 DEF BundleInv, RejectsOnlyDisputed
  <2>2. \A c \in ModuleShape, t \in BundleTypes : [c EXCEPT !.dto = {t}] \in ModuleShape
    BY DEF ModuleShape
  <2>3. \A c \in ModuleShape, x \in SUBSET Members : [c EXCEPT !.enum = x] \in ModuleShape
    BY DEF ModuleShape
  <2>4. \A c \in ModuleShape, x \in SUBSET [targets : SUBSET BundleTypes, type : BundleTypes] :
            [c EXCEPT !.functions = x] \in ModuleShape
    BY DEF ModuleShape
  <2>5. \A c \in ModuleShape, x \in UNION {[S -> SUBSET Parents] : S \in SUBSET HandleNames} :
            [c EXCEPT !.handles = x] \in ModuleShape
    BY DEF ModuleShape
  <2>6. \A m \in Modules : bundleModules[m] \in ModuleShape
    BY DEF BundleInv
  <2>7. ASSUME NEW m \in Modules, NEW h \in HandleNames, NEW parents \in SUBSET (Parents \ {IResource}),
               PutHandle(m, h, parents)
        PROVE  BundleInv'
    <3> DEFINE old == bundleModules[m].handles
               new == [g \in DOMAIN old \union {h} |-> IF g = h THEN parents ELSE old[g]]
    <3>1. PICK S \in SUBSET HandleNames : old \in [S -> SUBSET Parents]
      BY <2>6 DEF ModuleShape
    <3>2. new \in [S \union {h} -> SUBSET Parents]
      BY <3>1
    <3>3. new \in UNION {[T -> SUBSET Parents] : T \in SUBSET HandleNames}
      BY <3>2
    <3>4. BundlePut(m, [bundleModules[m] EXCEPT !.handles = new])
      BY <2>7 DEF PutHandle
    <3> HIDE DEF new
    <3> QED  BY <2>1, <2>5, <2>6, <3>3, <3>4
  <2>8. ASSUME NEW m \in Modules, NEW type \in {Other} \union HandleNames, PutDto(m, type) PROVE BundleInv'
    BY <2>1, <2>2, <2>6, <2>8 DEF PutDto, BundleTypes, Parents
  <2>9. ASSUME NEW m \in Modules, NEW member \in Members, PutEnum(m, member) PROVE BundleInv'
    <3>1. bundleModules[m].enum \union {member} \in SUBSET Members
      BY <2>6 DEF ModuleShape
    <3> QED  BY <2>1, <2>3, <2>6, <2>9, <3>1 DEF PutEnum
  <2>10. ASSUME NEW m \in Modules, NEW targets \in SUBSET BundleTypes, NEW type \in BundleTypes, PutFunction(m, targets, type)
         PROVE  BundleInv'
    <3>1. bundleModules[m].functions \union {[targets |-> targets, type |-> type]}
             \in SUBSET [targets : SUBSET BundleTypes, type : BundleTypes]
      BY <2>6 DEF ModuleShape
    <3> QED  BY <2>1, <2>4, <2>6, <2>10, <3>1 DEF PutFunction
  <2>11. CASE GenerateBundle
    <3>1. UNCHANGED <<bundleModules, parts, errors>> /\ bundle' = Drawn("generated")
      BY <2>11 DEF GenerateBundle, Drawn
    <3>2. Drawn("generated")' = Drawn("generated")
      BY <3>1, DrawnStands
    <3>3. RejectsOnlyDisputed' /\ bundle' # NoBundle'
      BY <3>1 DEF BundleInv, RejectsOnlyDisputed, Disputed, Modules, Drawn, NoBundle
    <3> QED  BY <3>1, <3>2, <3>3 DEF BundleInv
  <2>12. CASE ValidateBundle
    <3>1. bundle # NoBundle /\ UNCHANGED <<bundleModules, parts>> /\ bundle' = [bundle EXCEPT !.state = "validated"]
      BY <2>12 DEF ValidateBundle
    <3>2. bundle \in {Drawn("generated"), Drawn("validated")}
      BY <3>1 DEF BundleInv
    <3>3. bundle' = Drawn("validated")
      <4>1. \A s, a, b, c, d, e :
              [[state |-> s, dto |-> a, enum |-> b, handles |-> c, methods |-> d, stubs |-> e] EXCEPT !.state = "validated"]
              = [state |-> "validated", dto |-> a, enum |-> b, handles |-> c, methods |-> d, stubs |-> e]
        OBVIOUS
      <4>2. PICK s, a, b, c, d, e :
              /\ bundle = [state |-> s, dto |-> a, enum |-> b, handles |-> c, methods |-> d, stubs |-> e]
              /\ Drawn("validated") = [state |-> "validated", dto |-> a, enum |-> b, handles |-> c, methods |-> d, stubs |-> e]
        BY <3>2 DEF Drawn
      <4> QED  BY <3>1, <4>1, <4>2
    <3>4. Drawn("validated")' = Drawn("validated")
      BY <3>1, DrawnStands
    <3>5. \A e \in errors' : Disputed(e)
      <4>1. /\ bundle.dto = DtoIn(GeneratorOrder) /\ bundle.enum = EnumUnion
            /\ DOMAIN bundle.handles = HandlesIn(Modules)
            /\ \A h \in HandlesIn(Modules) : bundle.handles[h] = EmittedParents(h)
        BY <3>2 DEF Drawn
      <4>2. EnumErrors = {}
        BY <4>1 DEF EnumErrors, EnumUnion
      <4>3. ASSUME NEW t \in DtoErrors PROVE Disputed(<<"dto", t>>)
        <5>1. t \in DtoIn(ValidatorOrder) /\ t \notin DtoIn(GeneratorOrder)
          BY <4>1 DEF DtoErrors
        <5>2. \E m \in Modules : bundleModules[m].dto # {}
          BY <5>1, DtoOfSome
        <5>3. PICK m \in Modules : bundleModules[m].dto # {} /\ DtoIn(ValidatorOrder) = bundleModules[m].dto
          BY <5>2, DtoOfSome
        <5>4. PICK n \in Modules : bundleModules[n].dto # {} /\ DtoIn(GeneratorOrder) = bundleModules[n].dto
          BY <5>2, DtoOfSome
        <5> QED  BY <5>1, <5>3, <5>4 DEF Disputed
      <4>4. ASSUME NEW h \in HandleErrors PROVE Disputed(<<"handle", h>>)
        <5>1. h \in HandlesIn(Modules) /\ ExpectedParents(h) # EmittedParents(h)
          BY <4>1 DEF HandleErrors
        <5>2. ParentsIn(ValidatorOrder, h) # ParentsIn(GeneratorOrder, h)
          BY <5>1 DEF ExpectedParents, EmittedParents
        <5>3. PICK m \in Modules : h \in DOMAIN bundleModules[m].handles /\ ParentsIn(ValidatorOrder, h) = bundleModules[m].handles[h]
          BY <5>1, ParentsOfSome
        <5>4. PICK n \in Modules : h \in DOMAIN bundleModules[n].handles /\ ParentsIn(GeneratorOrder, h) = bundleModules[n].handles[h]
          BY <5>1, ParentsOfSome
        <5> QED  BY <5>2, <5>3, <5>4 DEF Disputed
      <4>5. errors' = {<<"dto", t>> : t \in DtoErrors} \union {<<"handle", h>> : h \in HandleErrors}
        BY <2>12, <4>2 DEF ValidateBundle
      <4> QED  BY <4>3, <4>4, <4>5
    <3>6. RejectsOnlyDisputed' /\ bundle' # NoBundle'
      BY <3>1, <3>3, <3>5 DEF RejectsOnlyDisputed, Disputed, Modules, Drawn, NoBundle
    <3> QED  BY <3>1, <3>3, <3>4, <3>6 DEF BundleInv
  <2>13. CASE UNCHANGED bundleVars
    <3>1. UNCHANGED <<bundleModules, parts, bundle, errors>>
      BY <2>13 DEF bundleVars
    <3>2. Drawn("generated")' = Drawn("generated") /\ Drawn("validated")' = Drawn("validated")
      BY <3>1, DrawnStands
    <3>3. RejectsOnlyDisputed'
      BY <3>1 DEF BundleInv, RejectsOnlyDisputed, Disputed, Modules
    <3> QED  BY <3>1, <3>2, <3>3 DEF BundleInv, NoBundle
  <2>14. ASSUME NEW m \in Modules, NEW target \in BundleTypes, NEW type \in {Other, Enum},
                NEW expanded \in {{}} \union {{h} : h \in HandleNames}, PutFunction(m, {target} \union expanded, type)
         PROVE  BundleInv'
    <3>1. {target} \union expanded \in SUBSET BundleTypes /\ type \in BundleTypes
      BY DEF BundleTypes, Parents
    <3> QED  BY <2>10, <2>14, <3>1
  <2> QED  BY <2>7, <2>8, <2>9, <2>11, <2>12, <2>13, <2>14 DEF BundleNext
<1> QED  BY <1>1, <1>2, PTL DEF BundleSpec

\* The bundle declares all it mentions and each name once, and the validator rejects it
\* only for a type that two modules describe differently, whatever the orders in which the two
\* scripts read the modules (generate-twoslash-types.ts, validate-generated-api-data.ts).
THEOREM BundleIsSafe ==
    BundleSpec => [](BundleTypeOK /\ NothingUndeclared /\ OneKind /\ RejectsOnlyDisputed)
<1>1. BundleInv => BundleTypeOK
  <2>1. \A c \in ModuleShape : DOMAIN c.handles \subseteq HandleNames /\ c.dto \subseteq BundleTypes /\ c.enum \subseteq Members
    BY DEF ModuleShape
  <2> QED  BY <2>1 DEF BundleInv, BundleTypeOK
<1>2. BundleInv => NothingUndeclared /\ OneKind
  BY DrawnIsWhole DEF BundleInv, NothingUndeclared, OneKind, Generated
<1>3. BundleInv => RejectsOnlyDisputed
  BY DEF BundleInv
<1> QED  BY <1>1, <1>2, <1>3, BundleInvariant, PTL
-----------------------------------------------------------------------------
\* All scripts together: what the site lists agrees with its sources, and what is generated from
\* it agrees with what it lists.
THEOREM ScriptsAreSafe == ScriptsSpec => []ScriptsSafe
<1>1. /\ ReleaseKeeps /\ RefusedStaysOut /\ OnlyPinEnters /\ ToolkitIconsAgree /\ IconsSurviveRelease /\ DocsFollow
      /\ TypeOK /\ IndexServes /\ RunSyncsReleases
      /\ SampleTypeOK /\ LocalImagesExist /\ ThumbnailsFit /\ CodeOfAppHost
      /\ ResourceTypeOK /\ LinksLead /\ HiddenStayHidden /\ EverythingIsFound /\ IdentitiesOnce /\ MappedIsMerged
      => ContentSafe
  BY DEF ContentSafe
<1>2. /\ CardTypeOK /\ ImageExists /\ CardIsCurrent /\ EmojiOnce
      /\ RegenerationTypeOK /\ MainConsistent /\ FailuresNeverReject /\ IssueTracks
      /\ BundleTypeOK /\ RejectsOnlyDisputed /\ NothingUndeclared /\ OneKind
      /\ IndexTypeOK /\ KnownIsTrue /\ RemovedRemembered
      => GeneratedSafe
  BY DEF GeneratedSafe
<1>3. ContentSafe /\ GeneratedSafe => ScriptsSafe
  BY DEF ScriptsSafe
<1>4. ScriptsSpec => []ContentSafe
  BY <1>1, CatalogIsSafe, CopiesAreServed, SamplesAreSafe, DirectoryIsSafe, PTL DEF ScriptsSpec
<1>5. ScriptsSpec => []GeneratedSafe
  BY <1>2, CardsAreSafe, RegenerationIsSafe, BundleIsSafe, KnownPagesWereTold, PTL DEF ScriptsSpec
<1> QED  BY <1>3, <1>4, <1>5, PTL

\* And no step of a script loses what was there, for any sources, pages, packages and faults.
THEOREM ScriptsAreKept == ScriptsSpec => ScriptsKeep
<1> QED
  BY CopiesStayFrozen, ImagesAreRight, SnapshotStaysWhole, FirstStaysFirst, LastGoodIsKept, PassesCover, PTL
  DEF ScriptsSpec, ScriptsKeep
=============================================================================
