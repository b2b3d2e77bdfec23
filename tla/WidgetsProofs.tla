---------------------------- MODULE WidgetsProofs ----------------------------
(***************************************************************************)
(* The safety of the widgets of a page, for every page, size and setting,  *)
(* one section for each, and of all of them together at the end.           *)
(***************************************************************************)
EXTENDS Widgets, FiniteSetTheorems, SequenceTheorems, WellFoundedInduction, TLAPS

-----------------------------------------------------------------------------
(* The tour.  Its index and list stay within the steps, its label is what  *)
(* the page it last saw asks for, and the tooltips that are put aside are  *)
(* those of the step shown.                                                *)

\* A set of numbers that is not empty has a least one.
LEMMA LeastNatural ==
    ASSUME NEW T \in SUBSET Nat, T # {}
    PROVE  \E x \in T : \A y \in T : x <= y
<1> DEFINE R == OpToRel(<, Nat)
<1>1. IsWellFoundedOn(R, Nat)
  BY NatLessThanWellFounded
<1>2. \A y, x \in Nat : y < x => <<y, x>> \in R
  BY DEF OpToRel
<1> HIDE DEF R
<1>3. PICK x \in T : \A y \in T : ~ (<<y, x>> \in R)
  BY <1>1, WFMin
<1>4. ASSUME NEW y \in T PROVE x <= y
  <2>1. x \in Nat /\ y \in Nat /\ ~(<<y, x>> \in R)
    BY <1>3
  <2>2. ~(y < x)
    BY <1>2, <2>1
  <2> QED  BY <2>1, <2>2
<1> QED  BY <1>4

\* There are steps: Help is one of them.
LEMMA SomeSteps == StepCount \in Nat /\ StepCount >= 1
BY StepsAssumption DEF Steps

\* Lists of steps are finite, and no longer than the tour.
LEMMA StepSets ==
    ASSUME NEW S \in SUBSET Steps
    PROVE  /\ IsFiniteSet(S) /\ Cardinality(S) \in 0 .. StepCount
           /\ S # {} <=> Cardinality(S) >= 1
<1>1. StepCount \in Nat /\ IsFiniteSet(Steps) /\ Cardinality(Steps) = StepCount
  BY StepsAssumption, FS_Interval DEF Steps
<1>2. IsFiniteSet(S) /\ Cardinality(S) <= StepCount
  BY <1>1, FS_Subset
<1> QED  BY <1>1, <1>2, FS_CardinalityType, FS_EmptySet

\* A step of a list is found by its position.
LEMMA AtIsThere ==
    ASSUME NEW S \in SUBSET Steps, NEW i \in 1 .. Cardinality(S)
    PROVE  At(S, i) \in S
<1> DEFINE upto(n) == {t \in S : t <= n}
           T == {n \in Nat : Cardinality(upto(n)) >= i}
<1>1. \A n \in Nat : upto(n) \in SUBSET Steps
  OBVIOUS
<1>2. StepCount \in Nat /\ upto(StepCount) = S /\ upto(0) = {} /\ S \subseteq Nat
  <2>1. StepCount \in Nat /\ \A t \in S : t \in Nat /\ t <= StepCount /\ ~(t <= 0)
    BY StepsAssumption DEF Steps
  <2>2. upto(StepCount) = S
    BY <2>1
  <2>3. upto(0) = {}
    BY <2>1
  <2> QED  BY <2>1, <2>2, <2>3
<1>3. Cardinality(S) \in Nat /\ i \in Nat /\ i >= 1 /\ i <= Cardinality(S)
  BY StepSets
<1>4. T \in SUBSET Nat /\ StepCount \in T
  BY <1>2, <1>3
<1>5. PICK n \in T : \A m \in T : n <= m
  BY <1>4, LeastNatural
<1>6. n # 0
  BY <1>2, <1>3, FS_EmptySet
<1>7. n \in Nat /\ n - 1 \in Nat /\ n - 1 \notin T
  BY <1>5, <1>6
<1>8. /\ Cardinality(upto(n)) \in Nat /\ Cardinality(upto(n - 1)) \in Nat
      /\ IsFiniteSet(upto(n - 1))
      /\ Cardinality(upto(n)) >= i /\ Cardinality(upto(n - 1)) < i
  BY <1>1, <1>3, <1>5, <1>7, StepSets
<1>9. n \in S
  <2>1. SUFFICES ASSUME n \notin S PROVE FALSE
    OBVIOUS
  <2>2. \A t \in S : t <= n <=> t <= n - 1
    BY <1>2, <1>7, <2>1
  <2>3. upto(n) = upto(n - 1)
    BY <2>2
  <2>4. Cardinality(upto(n)) = Cardinality(upto(n - 1))
    BY <2>3
  <2> HIDE DEF upto
  <2> QED  BY <1>3, <1>8, <2>4
<1>10. upto(n) = upto(n - 1) \cup {n} /\ n \notin upto(n - 1)
  <2>1. \A t \in S : t <= n <=> t <= n - 1 \/ t = n
    BY <1>2, <1>7
  <2>2. ~(n <= n - 1)
    BY <1>7
  <2> QED  BY <1>9, <2>1, <2>2
<1>11. Cardinality(upto(n)) = Cardinality(upto(n - 1)) + 1
  BY <1>8, <1>10, FS_AddElement
<1>12. Cardinality(upto(n)) = i
  BY <1>3, <1>8, <1>11
<1> QED  BY <1>9, <1>12 DEF At

\* The position of a step of a list is one of the list.
LEMMA PositionIsThere ==
    ASSUME NEW S \in SUBSET Steps, NEW s \in S
    PROVE  PositionOf(S, s) \in 1 .. Cardinality(S)
<1> DEFINE before == {t \in S : t <= s}
<1>1. before \subseteq S /\ s \in before /\ IsFiniteSet(S)
  <2>1. s \in Int
    BY StepsAssumption DEF Steps
  <2> QED  BY <2>1, StepSets
<1>2. Cardinality(before) <= Cardinality(S) /\ Cardinality(before) >= 1
  <2> HIDE DEF before
  <2> QED  BY <1>1, FS_Subset, StepSets
<1> QED  BY <1>1, <1>2, StepSets DEF PositionOf

\* What a stored step is resolved to is a position of the list, if it has any.
LEMMA ResolvedIsThere ==
    ASSUME NEW S \in SUBSET Steps, NEW s \in Steps
    PROVE  /\ ResolveStored(S, s) \in 1 .. StepCount
           /\ S # {} => ResolveStored(S, s) <= Cardinality(S)
<1>1. CASE S = {}
  BY <1>1, SomeSteps DEF ResolveStored
<1>2. CASE S # {} /\ \E t \in S : t >= s
  <2> DEFINE later == {t \in S : t >= s}
  <2>1. later \in SUBSET Nat /\ later # {}
    <3>1. S \subseteq Nat
      BY SomeSteps DEF Steps
    <3> QED  BY <1>2, <3>1
  <2>2. PICK m \in later : \A t \in later : m <= t
    BY <2>1, LeastNatural
  <2>3. Min(later) \in later
    BY <2>2 DEF Min
  <2>4. PositionOf(S, Min(later)) \in 1 .. Cardinality(S)
    BY <2>3, PositionIsThere
  <2>5. ResolveStored(S, s) = PositionOf(S, Min(later))
    BY <1>2 DEF ResolveStored
  <2> HIDE DEF later
  <2> QED  BY <2>4, <2>5, StepSets, SomeSteps
<1>3. CASE S # {} /\ ~(\E t \in S : t >= s)
  BY <1>3, StepSets, SomeSteps DEF ResolveStored
<1> QED  BY <1>1, <1>2, <1>3

\* A clamped index is a position of the list.
LEMMA ClampIsThere ==
    ASSUME NEW S \in SUBSET Steps, S # {}, NEW i \in Nat \ {0}
    PROVE  Clamp(i, S) \in 1 .. StepCount /\ Clamp(i, S) <= Cardinality(S)
BY StepSets, SomeSteps DEF Clamp

TourStates ==
    [open : BOOLEAN, steps : SUBSET Steps, index : 1 .. StepCount,
     active : SUBSET Steps, mode : {"all", "new"},
     started : BOOLEAN, completed : BOOLEAN, once : BOOLEAN,
     current : Steps, seen : SUBSET Steps,
     label : {"new", "resume", "start", "off"},
     shown : Steps \cup {0}, hushed : Steps \cup {0},
     frame : BOOLEAN, timer : BOOLEAN, retry : BOOLEAN, retries : 0 .. MaxRetries]

Positioned(T) == T.steps # {} => T.index <= Cardinality(T.steps)

\* What the label depends on.
SameProgress(T, U) ==
    U.seen = T.seen /\ U.once = T.once /\ U.started = T.started /\ U.completed = T.completed

\* U is put away; the label and the progress are those of T.
PutAway(T, U) ==
    /\ U \in TourStates /\ ~U.open /\ U.hushed = 0
    /\ U.label = T.label /\ SameProgress(T, U)

\* U is rendered.
OnScreen(T, U, p) ==
    /\ U \in TourStates /\ U.open = T.open /\ U.active = T.active /\ U.steps # {} /\ Positioned(U)
    /\ U.label = Label(U, p) /\ U.shown = CurrentStep(U) /\ U.hushed = U.shown
    /\ SameProgress(T, U) /\ (U.active # {} => U.steps \subseteq U.active)

\* The current step is one of the list, and a list with an index in it has one.
LEMMA CurrentKinds ==
    ASSUME NEW T \in TourStates
    PROVE  /\ CurrentStep(T) \in Steps \cup {0} /\ CurrentOrStored(T) \in Steps
           /\ T.steps # {} /\ Positioned(T) => CurrentStep(T) \in Steps
<1>1. /\ T.steps \in SUBSET Steps /\ T.index \in 1 .. StepCount /\ T.current \in Steps
      /\ \A s \in Steps : s # 0
  BY SomeSteps DEF TourStates, Steps
<1>2. T.index <= Cardinality(T.steps) => T.index \in 1 .. Cardinality(T.steps)
  BY <1>1, StepSets, SomeSteps
<1>3. T.index <= Cardinality(T.steps) => CurrentStep(T) \in Steps
  BY <1>1, <1>2, AtIsThere DEF CurrentStep
<1>4. ~(T.index <= Cardinality(T.steps)) => CurrentStep(T) = 0
  BY DEF CurrentStep
<1> QED  BY <1>1, <1>3, <1>4 DEF CurrentOrStored, Positioned

\* The label depends on the progress of the tour only.
LEMMA LabelKinds ==
    ASSUME NEW T, NEW p
    PROVE  /\ Label(T, p) \in {"new", "resume", "start", "off"}
           /\ \A U : SameProgress(T, U) => Label(U, p) = Label(T, p)
BY DEF Label, NewSteps, SameProgress

\* syncHelpButtons writes the label and nothing else.
LEMMA SyncDoes ==
    ASSUME NEW T \in TourStates, NEW p
    PROVE  LET U == SyncHelpButtons(T, p) IN
           /\ U \in TourStates /\ U.label = Label(U, p) /\ SameProgress(T, U)
           /\ U.open = T.open /\ U.steps = T.steps /\ U.index = T.index /\ U.active = T.active
           /\ U.shown = T.shown /\ U.hushed = T.hushed /\ U.current = T.current
           /\ U.retry = T.retry /\ U.retries = T.retries
<1> DEFINE l == Label(T, p)
           U == SyncHelpButtons(T, p)
<1>1. l \in {"new", "resume", "start", "off"}
  BY LabelKinds
<1>2. U = [T EXCEPT !.label = l]
  BY DEF SyncHelpButtons
<1> HIDE DEF l, U
<1>3. /\ U \in TourStates /\ U.label = l /\ SameProgress(T, U)
      /\ U.open = T.open /\ U.steps = T.steps /\ U.index = T.index /\ U.active = T.active
      /\ U.shown = T.shown /\ U.hushed = T.hushed /\ U.current = T.current
      /\ U.retry = T.retry /\ U.retries = T.retries
  BY <1>1, <1>2 DEF TourStates, SameProgress
<1>4. Label(U, p) = l
  BY <1>3, LabelKinds DEF l
<1> QED  BY <1>3, <1>4 DEF U

\* A closed tour is put away.
LEMMA CloseDoes ==
    ASSUME NEW T \in TourStates, NEW keep \in BOOLEAN
    PROVE  PutAway(T, Close(T, keep)) /\ Close(T, keep).steps = T.steps
<1> DEFINE c == IF keep THEN CurrentOrStored(T) ELSE T.current
<1>1. c \in Steps
  BY CurrentKinds DEF TourStates
<1> DEFINE X == [T EXCEPT !.open = FALSE, !.timer = FALSE, !.mode = "all", !.active = {}, !.shown = 0,
                          !.current = c]
           U == Close(T, keep)
<1>2. U = [X EXCEPT !.hushed = 0]
  BY DEF Close, RestoreSuppressedTooltips, TourNone
<1> HIDE DEF c, U
<1>3. X \in TourStates /\ ~X.open /\ X.label = T.label /\ X.steps = T.steps /\ SameProgress(T, X)
  BY <1>1 DEF TourStates, SameProgress
<1> HIDE DEF X
<1>4. PutAway(T, U) /\ U.steps = T.steps
  BY <1>2, <1>3 DEF TourStates, PutAway, SameProgress
<1> QED  BY <1>4 DEF U

\* What a page offers are steps.
LEMMA StepsOfPage ==
    ASSUME NEW T \in TourStates, NEW p \in TourPages
    PROVE  Available(p) \in SUBSET Steps /\ NewSteps(T, p) \in SUBSET Steps /\ BuildSteps(T, p) \in SUBSET Steps
BY DEF Available, NewSteps, BuildSteps, TourPages

\* refreshActiveSteps takes the steps of the page, with an index into them.
LEMMA RefreshStepsDoes ==
    ASSUME NEW T \in TourStates, NEW p \in TourPages, NEW s \in Steps
    PROVE  LET U == RefreshActiveSteps(T, p, s) IN
           /\ U \in TourStates /\ Positioned(U) /\ SameProgress(T, U)
           /\ U.steps = IF T.active # {} THEN Available(p) \cap T.active ELSE BuildSteps(T, p)
           /\ U.open = T.open /\ U.active = T.active /\ U.label = T.label
           /\ U.shown = T.shown /\ U.hushed = T.hushed
           /\ U.steps = {} => U.index = 1
<1> DEFINE next == IF T.active # TourNone THEN Available(p) \cap T.active ELSE BuildSteps(T, p)
           i == IF s \in next THEN PositionOf(next, s) ELSE ResolveStored(next, T.current)
           U == RefreshActiveSteps(T, p, s)
<1>1. next \in SUBSET Steps
  BY StepsOfPage DEF TourStates
<1>2. i \in 1 .. StepCount /\ (next # {} => i <= Cardinality(next)) /\ (next = {} => i = 1)
  <2> HIDE DEF next
  <2>1. CASE s \in next
    BY <1>1, <2>1, PositionIsThere, StepSets, SomeSteps
  <2>2. CASE s \notin next
    <3>1. T.current \in Steps
      BY DEF TourStates
    <3> QED  BY <1>1, <2>2, <3>1, ResolvedIsThere DEF ResolveStored
  <2> QED  BY <2>1, <2>2
<1>3. U = [T EXCEPT !.steps = next, !.index = i]
  BY DEF RefreshActiveSteps
<1> HIDE DEF i, U
<1>4. next = IF T.active # {} THEN Available(p) \cap T.active ELSE BuildSteps(T, p)
  BY DEF TourNone
<1> HIDE DEF next
<1>5. /\ U \in TourStates /\ SameProgress(T, U) /\ U.steps = next /\ U.index = i
      /\ U.open = T.open /\ U.active = T.active /\ U.label = T.label
      /\ U.shown = T.shown /\ U.hushed = T.hushed
  BY <1>1, <1>2, <1>3 DEF TourStates, SameProgress
<1> QED  BY <1>2, <1>4, <1>5 DEF Positioned, U

\* Rendering: a list that became empty closes the tour, any other one is shown.
LEMMA RenderDoes ==
    ASSUME NEW T \in TourStates, NEW p \in TourPages, NEW scroll \in BOOLEAN
    PROVE  LET U == TourRender(T, p, scroll)
               next == IF T.active # {} THEN Available(p) \cap T.active ELSE BuildSteps(T, p)
           IN  /\ U.steps = next
               /\ next = {} => PutAway(T, U)
               /\ next # {} => OnScreen(T, U, p)
<1> DEFINE s == CurrentOrStored(T)
           R == RefreshActiveSteps(T, p, s)
           V == [R EXCEPT !.shown = CurrentStep(R), !.timer = @ \/ scroll]
           W == SyncHelpButtons(V, p)
           U == TourRender(T, p, scroll)
           next == IF T.active # {} THEN Available(p) \cap T.active ELSE BuildSteps(T, p)
<1>1. s \in Steps
  BY CurrentKinds
<1>2. /\ R \in TourStates /\ Positioned(R) /\ SameProgress(T, R) /\ R.steps = next
      /\ R.open = T.open /\ R.active = T.active /\ R.label = T.label
  BY <1>1, RefreshStepsDoes
<1>3. CASE next = {}
  <2>1. U = Close(R, FALSE)
    BY <1>2, <1>3 DEF TourRender
  <2>2. PutAway(R, U) /\ U.steps = R.steps
    BY <1>2, <2>1, CloseDoes
  <2> HIDE DEF U, R, next
  <2> QED  BY <1>2, <1>3, <2>2 DEF PutAway, SameProgress, U, next
<1>4. CASE next # {}
  <2>1. U = [W EXCEPT !.hushed = CurrentStep(R)]
    BY <1>2, <1>4 DEF TourRender, UpdateSuppressedTooltips
  <2> HIDE DEF U, R, W, V, next, s
  <2>2. CurrentStep(R) \in Steps
    BY <1>2, <1>4, CurrentKinds
  <2>3. /\ V \in TourStates /\ V.steps = R.steps /\ V.index = R.index /\ SameProgress(R, V)
        /\ V.open = R.open /\ V.active = R.active /\ V.shown = CurrentStep(R)
    BY <1>2, <2>2 DEF V, TourStates, SameProgress
  <2>4. /\ W \in TourStates /\ W.label = Label(W, p) /\ SameProgress(V, W)
        /\ W.open = V.open /\ W.steps = V.steps /\ W.index = V.index /\ W.active = V.active
        /\ W.shown = V.shown
    BY <2>3, SyncDoes DEF W
  <2>5. /\ U \in TourStates /\ U.label = W.label /\ SameProgress(W, U)
        /\ U.open = W.open /\ U.steps = W.steps /\ U.index = W.index /\ U.active = W.active
        /\ U.shown = W.shown /\ U.hushed = CurrentStep(R)
    BY <2>1, <2>2, <2>4 DEF TourStates, SameProgress
  <2>6. Label(U, p) = Label(W, p)
    BY <2>5, LabelKinds
  <2>7. CurrentStep(U) = CurrentStep(R)
    BY <2>3, <2>4, <2>5 DEF CurrentStep
  <2>8. U.active = T.active /\ U.steps = next /\ (U.active # {} => U.steps \subseteq U.active)
    <3>1. U.active = T.active /\ U.steps = next
      BY <1>2, <2>3, <2>4, <2>5
    <3>2. T.active # {} => next \subseteq T.active
      BY DEF next
    <3> QED  BY <3>1, <3>2
  <2>9. OnScreen(T, U, p)
    BY <1>2, <1>4, <2>3, <2>4, <2>5, <2>6, <2>7, <2>8 DEF OnScreen, SameProgress, Positioned
  <2> QED  BY <1>4, <2>8, <2>9 DEF U, next
<1> QED  BY <1>3, <1>4

\* Going to a step of a list the page still has.
LEMMA GoToDoes ==
    ASSUME NEW T \in TourStates, NEW p \in TourPages, NEW i \in Nat \ {0},
           T.steps # {}, T.active # {}, Available(p) \cap T.active # {}
    PROVE  OnScreen(T, GoToIndex(T, p, i), p)
<1> DEFINE M == [T EXCEPT !.index = Clamp(i, T.steps)]
           N == [M EXCEPT !.current = CurrentStep(M)]
           U == GoToIndex(T, p, i)
<1>1. T.steps \in SUBSET Steps
  BY DEF TourStates
<1>2. Clamp(i, T.steps) \in 1 .. StepCount /\ Clamp(i, T.steps) <= Cardinality(T.steps)
  BY <1>1, ClampIsThere
<1>3. /\ M \in TourStates /\ M.steps = T.steps /\ M.open = T.open /\ M.active = T.active
      /\ Positioned(M) /\ SameProgress(T, M)
  BY <1>2 DEF TourStates, Positioned, SameProgress
<1>4. U = TourRender(N, p, TRUE)
  BY DEF GoToIndex
<1> HIDE DEF M, U
<1>5. CurrentStep(M) \in Steps
  BY <1>3, CurrentKinds
<1>6. N \in TourStates /\ N.open = T.open /\ N.active = T.active /\ SameProgress(T, N)
  BY <1>3, <1>5 DEF TourStates, SameProgress
<1> HIDE DEF N
<1>7. OnScreen(N, U, p)
  BY <1>4, <1>6, RenderDoes
<1>8. OnScreen(T, U, p)
  BY <1>6, <1>7 DEF OnScreen, SameProgress
<1> QED  BY <1>8 DEF U

\* Opening a tour of what there is, or none.
LEMMA OpenAtDoes ==
    ASSUME NEW T \in TourStates, NEW p \in TourPages, NEW i \in Nat \ {0}
    PROVE  LET U == OpenAt(T, p, i) IN
           /\ BuildSteps(T, p) # {} =>
                /\ U \in TourStates /\ U.open /\ U.active # {} /\ U.steps # {} /\ Positioned(U)
                /\ U.steps \subseteq U.active
                /\ U.label = Label(U, p) /\ U.shown = CurrentStep(U) /\ U.hushed = U.shown
                /\ SameProgress(T, U)
           /\ BuildSteps(T, p) = {} =>
                /\ U \in TourStates /\ U.steps = {} /\ SameProgress(T, U) /\ U.label = T.label
                /\ U.open = T.open /\ U.active = T.active /\ U.shown = T.shown /\ U.hushed = T.hushed
<1> DEFINE S == BuildSteps(T, p)
           B == [T EXCEPT !.steps = S]
           O == [B EXCEPT !.active = B.steps, !.open = TRUE, !.index = Clamp(i, B.steps)]
           N == [O EXCEPT !.current = CurrentStep(O)]
           U == OpenAt(T, p, i)
<1>1. S \in SUBSET Steps /\ S \subseteq Available(p)
  BY StepsOfPage DEF BuildSteps, NewSteps
<1>2. U = IF B.steps = {} THEN [B EXCEPT !.index = 1] ELSE TourRender(N, p, TRUE)
  BY DEF OpenAt
<1> HIDE DEF S, U
<1>3. /\ B \in TourStates /\ B.steps = S /\ SameProgress(T, B) /\ B.label = T.label
      /\ B.open = T.open /\ B.active = T.active /\ B.shown = T.shown /\ B.hushed = T.hushed
  BY <1>1 DEF TourStates, SameProgress
<1> HIDE DEF B
<1>4. CASE S = {}
  <2>1. U = [B EXCEPT !.index = 1] /\ 1 \in 1 .. StepCount
    BY <1>2, <1>3, <1>4, SomeSteps
  <2> QED  BY <1>3, <1>4, <2>1 DEF TourStates, SameProgress, S, U
<1>5. CASE S # {}
  <2>1. Clamp(i, S) \in 1 .. StepCount /\ Clamp(i, S) <= Cardinality(S)
    BY <1>1, <1>5, ClampIsThere
  <2>2. /\ O \in TourStates /\ O.steps = S /\ O.active = S /\ O.open /\ Positioned(O) /\ SameProgress(T, O)
    BY <1>1, <1>3, <2>1 DEF TourStates, Positioned, SameProgress
  <2> HIDE DEF O
  <2>3. CurrentStep(O) \in Steps
    BY <1>5, <2>2, CurrentKinds
  <2>4. N \in TourStates /\ N.open /\ N.active = S /\ SameProgress(T, N)
    BY <2>2, <2>3 DEF TourStates, SameProgress
  <2> HIDE DEF N
  <2>5. U = TourRender(N, p, TRUE) /\ Available(p) \cap S = S
    BY <1>1, <1>2, <1>3, <1>5
  <2>6. OnScreen(N, U, p)
    BY <1>5, <2>4, <2>5, RenderDoes
  <2> QED  BY <1>5, <2>4, <2>6 DEF OnScreen, SameProgress, S, U
<1> QED  BY <1>4, <1>5

Told(U, p) == U.label = Label(U, p)

TourSound(U) ==
    /\ U \in TourStates
    /\ U.open => U.active # {} /\ U.started /\ Positioned(U) /\ U.steps \subseteq U.active
    /\ U.completed => U.once

\* An open tour shows its step, a closed one has given the tooltips back.
Kept(U) == ~Apart(U) /\ (U.open => U.hushed = U.shown)

\* A tour that was put away is sound, and its label is as true as it was.
LEMMA PutAwayIsKept ==
    ASSUME NEW T, NEW U, PutAway(T, U), T.completed => T.once
    PROVE  TourSound(U) /\ Kept(U) /\ (\A p : Told(T, p) => Told(U, p))
BY LabelKinds DEF PutAway, TourSound, Kept, Apart, SameProgress, Told

\* A tour on the screen is sound, and its label is true.
LEMMA OnScreenIsKept ==
    ASSUME NEW T, NEW U, NEW p, OnScreen(T, U, p), T.open, T.active # {}, T.started, T.completed => T.once
    PROVE  TourSound(U) /\ Kept(U) /\ Told(U, p) /\ U.open
BY DEF OnScreen, TourSound, Kept, Apart, SameProgress, Told

\* markCurrentStepSeen leaves the place of the tour alone.
LEMMA MarkSeenDoes ==
    ASSUME NEW T \in TourStates, T.steps # {}, Positioned(T)
    PROVE  LET U == MarkSeen(T) IN
           /\ U \in TourStates /\ U.steps = T.steps /\ U.index = T.index /\ U.active = T.active
           /\ U.open = T.open /\ U.started = T.started /\ U.completed = T.completed /\ U.once = T.once
<1>1. CurrentStep(T) \in Steps
  BY CurrentKinds
<1> QED  BY <1>1 DEF MarkSeen, TourStates

\* The list of an open tour, as the page has it now.
LEMMA OpenListDoes ==
    ASSUME NEW T, TourSound(T), T.open, NEW p \in TourPages
    PROVE  LET R == RefreshActiveSteps(T, p, CurrentOrStored(T)) IN
           /\ R \in TourStates /\ TourSound(R) /\ R.open /\ Positioned(R) /\ SameProgress(T, R) /\ R.label = T.label
           /\ R.shown = T.shown /\ R.hushed = T.hushed
           /\ R.steps = Available(p) \cap R.active /\ R.active # {}
           /\ R.steps = {} => R.index = 1
<1> DEFINE R == RefreshActiveSteps(T, p, CurrentOrStored(T))
<1>1. T \in TourStates /\ CurrentOrStored(T) \in Steps
  BY CurrentKinds DEF TourSound
<1>2. /\ R \in TourStates /\ Positioned(R) /\ SameProgress(T, R)
      /\ R.steps = IF T.active # {} THEN Available(p) \cap T.active ELSE BuildSteps(T, p)
      /\ R.open = T.open /\ R.active = T.active /\ R.label = T.label
      /\ R.shown = T.shown /\ R.hushed = T.hushed
      /\ R.steps = {} => R.index = 1
  BY <1>1, RefreshStepsDoes
<1> HIDE DEF R
<1>3. TourSound(R) /\ R.open /\ R.active # {} /\ R.steps = Available(p) \cap R.active
  BY <1>2 DEF TourSound, SameProgress
<1> QED  BY <1>2, <1>3 DEF R

\* From a list that is not empty to another of its steps, with the one left seen.
LEMMA MoveOn ==
    ASSUME NEW R, TourSound(R), R.open, Positioned(R), NEW p \in TourPages,
           R.steps = Available(p) \cap R.active, R.steps # {}, NEW i \in Nat \ {0}
    PROVE  LET U == GoToIndex(MarkSeen(R), p, i) IN
           TourSound(U) /\ Kept(U) /\ Told(U, p) /\ U.open /\ U.steps # {}
<1> DEFINE M == MarkSeen(R)
           U == GoToIndex(M, p, i)
<1>1. /\ M \in TourStates /\ M.steps = R.steps /\ M.active = R.active /\ M.open /\ M.started
      /\ M.completed => M.once
  BY MarkSeenDoes DEF TourSound
<1> HIDE DEF M
<1>2. OnScreen(M, U, p)
  BY <1>1, GoToDoes
<1> HIDE DEF U
<1>3. M.active # {} /\ U.steps # {}
  BY <1>1, <1>2 DEF OnScreen
<1>4. TourSound(U) /\ Kept(U) /\ Told(U, p) /\ U.open /\ U.steps # {}
  BY <1>1, <1>2, <1>3, OnScreenIsKept
<1> QED  BY <1>4 DEF U, M

\* Next keeps the tour sound; without steps it does nothing to the progress.
LEMMA AdvanceDoes ==
    ASSUME NEW T, TourSound(T), T.open, NEW p \in TourPages
    PROVE  LET U == Advance(T, p) IN
           /\ TourSound(U) /\ Kept(U)
           /\ U.steps # {} => Told(U, p)
           /\ U.steps = {} => SameProgress(T, U) /\ U.label = T.label
<1> DEFINE R == RefreshActiveSteps(T, p, CurrentOrStored(T))
           M == MarkSeen(R)
           C == [M EXCEPT !.once = TRUE, !.completed = TRUE, !.current = TourFirst]
           D == Close(C, FALSE)
           U == Advance(T, p)
<1>1. /\ R \in TourStates /\ TourSound(R) /\ R.open /\ Positioned(R) /\ SameProgress(T, R) /\ R.label = T.label
      /\ R.steps = Available(p) \cap R.active
  BY OpenListDoes
<1>2. U = IF R.steps = {} THEN Close(R, FALSE)
          ELSE IF R.index >= Cardinality(R.steps) THEN SyncHelpButtons(D, p)
          ELSE GoToIndex(M, p, R.index + 1)
  BY DEF Advance, Complete
<1> HIDE DEF U, R
<1>3. CASE R.steps = {}
  <2>1. PutAway(R, U) /\ U.steps = {}
    BY <1>1, <1>2, <1>3, CloseDoes
  <2>2. TourSound(U) /\ Kept(U)
    BY <1>1, <2>1, PutAwayIsKept DEF TourSound
  <2> QED  BY <1>1, <2>1, <2>2 DEF PutAway, SameProgress, U
<1>4. CASE R.steps # {} /\ R.index >= Cardinality(R.steps)
  <2>1. M \in TourStates /\ M.steps = R.steps /\ TourFirst \in Steps
    BY <1>1, <1>4, MarkSeenDoes, SomeSteps DEF TourFirst, Steps
  <2> HIDE DEF M
  <2>2. C \in TourStates /\ C.steps = R.steps /\ C.once
    BY <2>1 DEF TourStates
  <2> HIDE DEF C
  <2>3. PutAway(C, D) /\ D.steps = R.steps
    BY <2>2, CloseDoes
  <2> HIDE DEF D
  <2>4. U = SyncHelpButtons(D, p)
    BY <1>2, <1>4
  <2>5. /\ U \in TourStates /\ Told(U, p) /\ U.once /\ ~U.open /\ U.hushed = 0 /\ U.steps = R.steps
    BY <2>2, <2>3, <2>4, SyncDoes DEF PutAway, SameProgress, Told
  <2> QED  BY <1>4, <2>5 DEF TourSound, Kept, Apart, U
<1>5. CASE R.steps # {} /\ ~(R.index >= Cardinality(R.steps))
  <2>1. R.index + 1 \in Nat \ {0}
    BY <1>1, SomeSteps DEF TourStates
  <2>2. U = GoToIndex(MarkSeen(R), p, R.index + 1)
    BY <1>2, <1>5
  <2> QED  BY <1>1, <1>5, <2>1, <2>2, MoveOn DEF U
<1> QED  BY <1>3, <1>4, <1>5

\* Back too; at the first step it changes nothing that the label tells.
LEMMA GoBackDoes ==
    ASSUME NEW T, TourSound(T), T.open, NEW p \in TourPages
    PROVE  LET U == GoBack(T, p)
               moves == RefreshActiveSteps(T, p, CurrentOrStored(T)).index > 1
           IN  /\ TourSound(U) /\ (T.hushed = T.shown /\ U.open => U.hushed = U.shown)
               /\ moves => Told(U, p) /\ Kept(U)
               /\ ~moves => SameProgress(T, U) /\ U.label = T.label
<1> DEFINE R == RefreshActiveSteps(T, p, CurrentOrStored(T))
           U == GoBack(T, p)
           moves == R.index > 1
<1>1. /\ R \in TourStates /\ TourSound(R) /\ R.open /\ Positioned(R) /\ SameProgress(T, R) /\ R.label = T.label
      /\ R.shown = T.shown /\ R.hushed = T.hushed
      /\ R.steps = Available(p) \cap R.active /\ (R.steps = {} => R.index = 1)
  BY OpenListDoes
<1>2. U = IF R.steps = {} THEN Close(R, FALSE) ELSE IF R.index <= 1 THEN R
          ELSE GoToIndex(MarkSeen(R), p, R.index - 1)
  BY DEF GoBack
<1> HIDE DEF U, R
<1>3. R.index \in Nat \ {0}
  BY <1>1, SomeSteps DEF TourStates
<1>4. CASE R.steps = {}
  <2>1. PutAway(R, U)
    BY <1>1, <1>2, <1>4, CloseDoes
  <2>2. TourSound(U) /\ Kept(U)
    BY <1>1, <2>1, PutAwayIsKept DEF TourSound
  <2>3. ~moves
    BY <1>1, <1>4
  <2> HIDE DEF moves
  <2>4. SameProgress(T, U) /\ U.label = T.label /\ (U.open => U.hushed = U.shown)
    BY <1>1, <2>1 DEF PutAway, SameProgress
  <2> QED  BY <2>2, <2>3, <2>4 DEF U, R, moves
<1>5. CASE R.steps # {} /\ R.index <= 1
  <2>1. U = R
    BY <1>2, <1>5
  <2>2. ~moves
    BY <1>3, <1>5
  <2> HIDE DEF moves
  <2> QED  BY <1>1, <2>1, <2>2 DEF U, R, moves
<1>6. CASE R.steps # {} /\ ~(R.index <= 1)
  <2>1. R.index - 1 \in Nat \ {0} /\ R.index > 1
    BY <1>3, <1>6
  <2>2. U = GoToIndex(MarkSeen(R), p, R.index - 1)
    BY <1>2, <1>6
  <2>3. TourSound(U) /\ Kept(U) /\ Told(U, p)
    BY <1>1, <1>6, <2>1, <2>2, MoveOn
  <2> QED  BY <2>1, <2>3 DEF Kept, U, R
<1> QED  BY <1>4, <1>5, <1>6

\* A jump too; where it cannot go it closes the tour.
LEMMA JumpToDoes ==
    ASSUME NEW T, TourSound(T), T.open, NEW p \in TourPages, NEW i \in Nat \ {0}
    PROVE  LET U == JumpTo(T, p, i) IN
           /\ TourSound(U) /\ Kept(U)
           /\ U.open => Told(U, p)
           /\ ~U.open => SameProgress(T, U) /\ U.label = T.label
<1> DEFINE R == RefreshActiveSteps(T, p, CurrentOrStored(T))
           U == JumpTo(T, p, i)
<1>1. /\ R \in TourStates /\ TourSound(R) /\ R.open /\ Positioned(R) /\ SameProgress(T, R) /\ R.label = T.label
      /\ R.steps = Available(p) \cap R.active /\ R.active # {}
  BY OpenListDoes
<1>2. U = IF R.steps = {} THEN Close(R, FALSE)
          ELSE IF Clamp(i, R.steps) = R.index THEN TourRender(R, p, FALSE)
          ELSE GoToIndex(MarkSeen(R), p, i)
  BY DEF JumpTo
<1> HIDE DEF U, R
<1>3. CASE R.steps = {}
  <2>1. PutAway(R, U)
    BY <1>1, <1>2, <1>3, CloseDoes
  <2>2. TourSound(U) /\ Kept(U)
    BY <1>1, <2>1, PutAwayIsKept DEF TourSound
  <2> QED  BY <1>1, <2>1, <2>2 DEF PutAway, SameProgress, U
<1>4. CASE R.steps # {} /\ Clamp(i, R.steps) = R.index
  <2>1. U = TourRender(R, p, FALSE)
    BY <1>2, <1>4
  <2>2. OnScreen(R, U, p)
    BY <1>1, <1>4, <2>1, RenderDoes
  <2>3. TourSound(U) /\ Kept(U) /\ Told(U, p) /\ U.open
    BY <1>1, <2>2, OnScreenIsKept DEF TourSound
  <2> QED  BY <2>3 DEF U
<1>5. CASE R.steps # {} /\ Clamp(i, R.steps) # R.index
  <2>1. U = GoToIndex(MarkSeen(R), p, i)
    BY <1>2, <1>5
  <2>2. TourSound(U) /\ Kept(U) /\ Told(U, p) /\ U.open
    BY <1>1, <1>5, <2>1, MoveOn
  <2> QED  BY <2>2 DEF U
<1> QED  BY <1>3, <1>4, <1>5

\* Opening a tour from any state, with the progress of X.
LEMMA OpensWell ==
    ASSUME NEW X \in TourStates, X.started, X.completed => X.once, NEW p \in TourPages, NEW i \in Nat \ {0},
           BuildSteps(X, p) # {}
    PROVE  LET U == OpenAt(X, p, i) IN TourSound(U) /\ Kept(U) /\ Told(U, p) /\ U.open /\ U.steps # {}
<1> DEFINE U == OpenAt(X, p, i)
<1>1. /\ U \in TourStates /\ U.open /\ U.active # {} /\ U.steps # {} /\ Positioned(U)
      /\ U.steps \subseteq U.active
      /\ U.label = Label(U, p) /\ U.shown = CurrentStep(U) /\ U.hushed = U.shown
      /\ SameProgress(X, U)
  BY OpenAtDoes
<1> HIDE DEF U
<1>2. TourSound(U) /\ Kept(U) /\ Told(U, p) /\ U.open /\ U.steps # {}
  BY <1>1 DEF TourSound, Kept, Apart, Told, SameProgress
<1> QED  BY <1>2 DEF U

\* Starting over from an open tour: it opens, or the list is empty and the rest
\* is as it was.
LEMMA RestartDoes ==
    ASSUME NEW T \in TourStates, T.completed => T.once, NEW p \in TourPages
    PROVE  LET U == Restart(T, p) IN
           /\ Available(p) # {} => TourSound(U) /\ Kept(U) /\ Told(U, p) /\ U.open /\ U.steps # {}
           /\ Available(p) = {} =>
                /\ U \in TourStates /\ U.steps = {} /\ U.started /\ ~U.completed
                /\ U.once = T.once /\ U.seen = T.seen /\ U.label = T.label
                /\ U.open = T.open /\ U.active = T.active /\ U.shown = T.shown /\ U.hushed = T.hushed
<1> DEFINE X == [T EXCEPT !.mode = "all", !.started = TRUE, !.completed = FALSE, !.current = TourFirst]
           U == Restart(T, p)
<1>1. TourFirst \in Steps
  BY SomeSteps DEF TourFirst, Steps
<1>2. /\ X \in TourStates /\ X.mode = "all" /\ X.started /\ ~X.completed
      /\ X.once = T.once /\ X.seen = T.seen /\ X.label = T.label
      /\ X.open = T.open /\ X.active = T.active /\ X.shown = T.shown /\ X.hushed = T.hushed
  BY <1>1 DEF TourStates
<1>3. U = OpenAt(X, p, 1) /\ 1 \in Nat \ {0}
  BY DEF Restart
<1> HIDE DEF X, U
<1>4. BuildSteps(X, p) = Available(p)
  BY <1>2 DEF BuildSteps
<1>5. CASE Available(p) # {}
  <2>1. TourSound(U) /\ Kept(U) /\ Told(U, p) /\ U.open /\ U.steps # {}
    BY <1>2, <1>3, <1>4, <1>5, OpensWell
  <2> QED  BY <1>5, <2>1 DEF U
<1>6. CASE Available(p) = {}
  <2>1. /\ U \in TourStates /\ U.steps = {} /\ SameProgress(X, U) /\ U.label = X.label
        /\ U.open = X.open /\ U.active = X.active /\ U.shown = X.shown /\ U.hushed = X.hushed
    BY <1>2, <1>3, <1>4, <1>6, OpenAtDoes
  <2> QED  BY <1>2, <1>6, <2>1 DEF SameProgress, U
<1> QED  BY <1>5, <1>6

\* So does the help button.
LEMMA TriggerDoes ==
    ASSUME NEW T \in TourStates, T.completed => T.once, NEW p \in TourPages, p.wide, Help \in p.targets
    PROVE  LET U == Trigger(T, p) IN TourSound(U) /\ Kept(U) /\ Told(U, p)
<1> DEFINE U == Trigger(T, p)
<1>1. Available(p) # {}
  BY DEF Available
<1>2. CASE NewSteps(T, p) # {}
  <2> DEFINE X == [T EXCEPT !.mode = "new", !.started = TRUE]
  <2>1. /\ X \in TourStates /\ X.mode = "new" /\ X.started /\ X.seen = T.seen
        /\ X.completed = T.completed /\ X.once = T.once
    BY DEF TourStates
  <2>2. Trigger(T, p) = OpenAt(X, p, 1) /\ 1 \in Nat \ {0}
    BY <1>2 DEF Trigger, OpenNew
  <2> HIDE DEF X
  <2>3. BuildSteps(X, p) = NewSteps(T, p)
    BY <2>1 DEF BuildSteps, NewSteps
  <2> QED  BY <1>2, <2>1, <2>2, <2>3, OpensWell
<1>3. CASE NewSteps(T, p) = {} /\ ~T.once /\ T.started /\ ~T.completed
  <2> DEFINE X == [T EXCEPT !.mode = "all"]
             i == ResolveStored(T.steps, T.current)
  <2>1. /\ X \in TourStates /\ X.mode = "all" /\ X.started
        /\ X.completed = T.completed /\ X.once = T.once
    BY <1>3 DEF TourStates
  <2>2. Trigger(T, p) = OpenAt(X, p, i)
    BY <1>3 DEF Trigger, Resume
  <2>3. i \in Nat \ {0}
    <3>1. T.steps \in SUBSET Steps /\ T.current \in Steps
      BY DEF TourStates
    <3>2. i \in 1 .. StepCount
      BY <3>1, ResolvedIsThere
    <3> HIDE DEF i
    <3> QED  BY <3>2, SomeSteps
  <2> HIDE DEF X, i
  <2>4. BuildSteps(X, p) = Available(p)
    BY <2>1 DEF BuildSteps
  <2> QED  BY <1>1, <2>1, <2>2, <2>3, <2>4, OpensWell
<1>4. CASE NewSteps(T, p) = {} /\ ~(~T.once /\ T.started /\ ~T.completed)
  <2>1. Trigger(T, p) = Restart(T, p)
    BY <1>4 DEF Trigger
  <2> QED  BY <1>1, <2>1, RestartDoes
<1> QED  BY <1>2, <1>3, <1>4

\* The timers and the frame are asked for without touching the tour.
LEMMA RetryKinds ==
    ASSUME NEW S \in TourStates, NEW U \in {ClearRetry(S), ScheduleRetry(S), ScheduleRender(S)}
    PROVE  /\ U \in TourStates /\ SameProgress(S, U) /\ U.label = S.label
           /\ U.open = S.open /\ U.steps = S.steps /\ U.active = S.active /\ U.index = S.index
           /\ U.shown = S.shown /\ U.hushed = S.hushed /\ U.current = S.current
<1>1. CASE U = ClearRetry(S)
  <2>1. 0 \in 0 .. MaxRetries
    BY StepsAssumption
  <2> QED  BY <1>1, <2>1 DEF ClearRetry, TourStates, SameProgress
<1>2. CASE U = ScheduleRetry(S)
  <2>1. CASE S.retry \/ S.retries >= MaxRetries
    BY <1>2, <2>1 DEF ScheduleRetry, SameProgress
  <2>2. CASE ~(S.retry \/ S.retries >= MaxRetries)
    <3>1. S.retries + 1 \in 0 .. MaxRetries
      BY <2>2, StepsAssumption DEF TourStates
    <3>2. U = [S EXCEPT !.retry = TRUE, !.retries = S.retries + 1]
      BY <1>2, <2>2 DEF ScheduleRetry
    <3> QED  BY <3>1, <3>2 DEF TourStates, SameProgress
  <2> QED  BY <2>1, <2>2
<1>3. CASE U = ScheduleRender(S)
  BY <1>3 DEF ScheduleRender, TourStates, SameProgress
<1> QED  BY <1>1, <1>2, <1>3

\* After a refresh the button is told; an open tour is rendered or closed, and a
\* closed one is left as it was.
LEMMA RefreshDoes ==
    ASSUME NEW T, TourSound(T), NEW p \in TourPages, NEW navigated \in BOOLEAN
    PROVE  LET U == Refresh(T, p, navigated) IN
           /\ TourSound(U) /\ Told(U, p)
           /\ Kept(U) \/ (~T.open /\ ~U.open /\ U.hushed = T.hushed)
<1> DEFINE C == IF navigated /\ T.open THEN Close(T, TRUE) ELSE T
           B == [C EXCEPT !.steps = BuildSteps(C, p)]
           S == SyncHelpButtons(B, p)
           R == [ClearRetry(S) EXCEPT !.index = ResolveStored(S.steps, S.current)]
           U == Refresh(T, p, navigated)
<1>1. U = IF ~p.wide \/ p.landing THEN Close(ClearRetry(S), FALSE)
          ELSE IF S.steps = {} THEN Close(ScheduleRetry(S), FALSE)
          ELSE IF S.open THEN TourRender(R, p, TRUE) ELSE ClearRetry(S)
  BY DEF Refresh
<1> HIDE DEF U
<1>2. /\ C \in TourStates /\ (C.completed => C.once)
      /\ C.open => T.open /\ C.active # {} /\ C.started
      /\ ~C.open => C.hushed = IF T.open THEN 0 ELSE T.hushed
  <2>1. CASE navigated /\ T.open
    <3>1. C = Close(T, TRUE)
      BY <2>1
    <3>2. PutAway(T, C)
      BY <3>1, CloseDoes DEF TourSound
    <3> HIDE DEF C
    <3> QED  BY <2>1, <3>2 DEF PutAway, SameProgress, TourSound
  <2>2. CASE ~(navigated /\ T.open)
    BY <2>2 DEF TourSound
  <2> QED  BY <2>1, <2>2
<1> HIDE DEF C
<1>3. /\ B \in TourStates /\ SameProgress(C, B) /\ B.open = C.open /\ B.active = C.active
      /\ B.hushed = C.hushed
  BY <1>2, StepsOfPage DEF TourStates, SameProgress
<1> HIDE DEF B
<1>4. /\ S \in TourStates /\ S.label = Label(S, p) /\ SameProgress(B, S)
      /\ S.open = B.open /\ S.active = B.active /\ S.hushed = B.hushed
  BY <1>3, SyncDoes
<1> HIDE DEF S
<1>5. /\ S.completed => S.once
      /\ S.open => T.open /\ S.active # {} /\ S.started
      /\ ~S.open => S.hushed = IF T.open THEN 0 ELSE T.hushed
  BY <1>2, <1>3, <1>4 DEF SameProgress
<1>6. ASSUME NEW X \in {ClearRetry(S), ScheduleRetry(S)}, U = Close(X, FALSE)
      PROVE  TourSound(U) /\ Told(U, p) /\ Kept(U)
  <2>1. X \in TourStates /\ SameProgress(S, X) /\ X.label = S.label
    BY <1>4, <1>6, RetryKinds
  <2>2. Told(X, p) /\ (X.completed => X.once)
    BY <1>4, <1>5, <2>1, LabelKinds DEF Told, SameProgress
  <2>3. PutAway(X, U)
    BY <1>6, <2>1, CloseDoes
  <2> QED  BY <2>2, <2>3, PutAwayIsKept
<1>7. ASSUME S.open, U = TourRender(R, p, TRUE)
      PROVE  TourSound(U) /\ Told(U, p) /\ Kept(U)
  <2> DEFINE X == ClearRetry(S)
             i == ResolveStored(S.steps, S.current)
  <2>1. /\ X \in TourStates /\ SameProgress(S, X) /\ X.label = S.label
        /\ X.open = S.open /\ X.active = S.active
    BY <1>4, RetryKinds
  <2>2. i \in 1 .. StepCount
    <3>1. S.steps \in SUBSET Steps /\ S.current \in Steps
      BY <1>4 DEF TourStates
    <3> QED  BY <3>1, ResolvedIsThere
  <2>3. R = [X EXCEPT !.index = i]
    OBVIOUS
  <2> HIDE DEF X, i, R
  <2>4. R \in TourStates /\ SameProgress(S, R) /\ R.label = S.label /\ R.open /\ R.active # {}
    BY <1>5, <1>7, <2>1, <2>2, <2>3 DEF TourStates, SameProgress
  <2>5. Told(R, p) /\ R.started /\ (R.completed => R.once)
    BY <1>4, <1>5, <1>7, <2>4, LabelKinds DEF Told, SameProgress
  <2>6. CASE Available(p) \cap R.active = {}
    <3>1. PutAway(R, U)
      BY <1>7, <2>4, <2>6, RenderDoes
    <3> QED  BY <2>5, <3>1, PutAwayIsKept
  <2>7. CASE Available(p) \cap R.active # {}
    <3>1. OnScreen(R, U, p)
      BY <1>7, <2>4, <2>7, RenderDoes
    <3> QED  BY <2>4, <2>5, <3>1, OnScreenIsKept
  <2> QED  BY <2>6, <2>7
<1>8. ASSUME ~S.open, U = ClearRetry(S)
      PROVE  TourSound(U) /\ Told(U, p) /\ (Kept(U) \/ (~T.open /\ ~U.open /\ U.hushed = T.hushed))
  <2>1. /\ U \in TourStates /\ SameProgress(S, U) /\ U.label = S.label
        /\ U.open = S.open /\ U.hushed = S.hushed
    BY <1>4, <1>8, RetryKinds
  <2>2. Told(U, p) /\ TourSound(U)
    BY <1>4, <1>5, <1>8, <2>1, LabelKinds DEF Told, SameProgress, TourSound
  <2> QED  BY <1>5, <1>8, <2>1, <2>2 DEF Kept, Apart
<1> QED  BY <1>1, <1>6, <1>7, <1>8 DEF U

TourIInv ==
    /\ tourPage \in TourPages /\ told \in TourPages /\ stray \in BOOLEAN
    /\ TourSound(tour) /\ Told(tour, told)
    /\ tour.open => tour.hushed = tour.shown
    /\ Apart(tour) => stray

\* What every action of the tour has to show.
LEMMA DoKeeps ==
    ASSUME TourIInv, NEW U, NEW tells \in BOOLEAN, NEW strays \in BOOLEAN, DoStraying(U, tells, strays),
           tourPage' \in TourPages, TourSound(U), tells => Told(U, tourPage'), ~tells => Told(U, told),
           U.open => U.hushed = U.shown, Apart(U) => stray \/ strays
    PROVE  TourIInv'
<1>1. /\ tour' = U /\ told' = IF tells THEN tourPage' ELSE told
      /\ stray' = ((stray \/ strays) /\ Apart(tour'))
  BY DEF DoStraying
<1>2. Told(U, told')
  BY <1>1
<1>3. TourSound(tour)' /\ Told(tour, told)'
  BY <1>1, <1>2 DEF TourSound, Told, Label, NewSteps, Available, Positioned
<1>4. (Apart(tour) <=> Apart(U))' /\ (Apart(U)' <=> Apart(U))
  BY <1>1 DEF Apart, CurrentStep, At
<1> QED  BY <1>1, <1>3, <1>4 DEF TourIInv

\* Nothing the label or the screen depends on changed.
LEMMA QuietKeeps ==
    ASSUME TourIInv, NEW U \in TourStates, DoStraying(U, FALSE, FALSE), UNCHANGED tourPage,
           SameProgress(tour, U), U.label = tour.label, U.open = tour.open, U.active = tour.active,
           U.steps = tour.steps, U.index = tour.index, U.shown = tour.shown, U.hushed = tour.hushed
    PROVE  TourIInv'
<1>1. TourSound(U) /\ Told(U, told)
  BY LabelKinds DEF TourIInv, TourSound, SameProgress, Told, Positioned
<1>2. Apart(U) <=> Apart(tour)
  BY DEF Apart, CurrentStep
<1> QED  BY <1>1, <1>2, DoKeeps DEF TourIInv

\* The clicks and keys of the visitor keep the invariant.
LEMMA VisitorKeeps ==
    ASSUME TourIInv, ClickTrigger \/ ClickAway \/ Dismiss \/ ClickNext
    PROVE  TourIInv'
<1> USE DEF TourIInv
<1>1. CASE ClickTrigger
  <2> DEFINE U == Trigger(tour, tourPage)
  <2>1. DoStraying(U, TRUE, FALSE) /\ UNCHANGED tourPage
    BY <1>1 DEF ClickTrigger, Do, Stay
  <2>2. TourSound(U) /\ Kept(U) /\ Told(U, tourPage)
    BY <1>1, TriggerDoes DEF ClickTrigger, TourSound
  <2> HIDE DEF U
  <2> QED  BY <2>1, <2>2, DoKeeps DEF Kept
<1>2. CASE ClickAway
  <2> DEFINE C == Close(tour, TRUE)
             U == SyncHelpButtons(C, tourPage)
  <2>1. DoStraying(U, TRUE, FALSE) /\ UNCHANGED tourPage
    BY <1>2 DEF ClickAway, Do, Stay
  <2>2. PutAway(tour, C)
    BY CloseDoes DEF TourSound
  <2> HIDE DEF C
  <2>3. /\ U \in TourStates /\ U.label = Label(U, tourPage) /\ SameProgress(C, U)
        /\ U.open = C.open /\ U.hushed = C.hushed
    BY <2>2, SyncDoes DEF PutAway
  <2> HIDE DEF U
  <2>4. TourSound(U) /\ Kept(U) /\ Told(U, tourPage)
    BY <2>2, <2>3 DEF TourSound, Kept, Apart, Told, PutAway, SameProgress
  <2> QED  BY <2>1, <2>4, DoKeeps DEF Kept
<1>3. CASE Dismiss
  <2> DEFINE U == Close(tour, TRUE)
  <2>1. DoStraying(U, FALSE, FALSE) /\ UNCHANGED tourPage
    BY <1>3 DEF Dismiss, Do, Stay
  <2>2. PutAway(tour, U)
    BY CloseDoes DEF TourSound
  <2>3. TourSound(U) /\ Kept(U) /\ Told(U, told)
    BY <2>2, PutAwayIsKept DEF TourSound
  <2> HIDE DEF U
  <2> QED  BY <2>1, <2>3, DoKeeps DEF Kept
<1>4. CASE ClickNext
  <2> DEFINE U == Advance(tour, tourPage)
             tells == tour'.steps # {}
  <2>1. DoStraying(U, tells, FALSE) /\ UNCHANGED tourPage /\ tour.open /\ tour' = U
    BY <1>4 DEF ClickNext, Do, DoStraying, Stay
  <2>2. /\ TourSound(U) /\ Kept(U)
        /\ U.steps # {} => Told(U, tourPage)
        /\ U.steps = {} => SameProgress(tour, U) /\ U.label = tour.label
    BY <2>1, AdvanceDoes
  <2> HIDE DEF U
  <2>3. tells \in BOOLEAN /\ (tells => Told(U, tourPage')) /\ (~tells => Told(U, told))
    BY <2>1, <2>2, LabelKinds DEF Told
  <2> HIDE DEF tells
  <2> QED  BY <2>1, <2>2, <2>3, DoKeeps DEF Kept
<1> QED  BY <1>1, <1>2, <1>3, <1>4

\* Starting over, the way back and a jump do.
LEMMA DetourKeeps ==
    ASSUME TourIInv, Detour
    PROVE  TourIInv'
<1> USE DEF TourIInv
<1>1. tour.open /\ UNCHANGED tourPage
  BY DEF Detour, Stay
<1>2. CASE DoStraying(Restart(tour, tourPage), tour'.steps # {}, tour'.steps = {})
  <2> DEFINE U == Restart(tour, tourPage)
             tells == tour'.steps # {}
             strays == tour'.steps = {}
  <2>1. DoStraying(U, tells, strays) /\ tour' = U
    BY <1>2 DEF DoStraying
  <2>2. /\ Available(tourPage) # {} => TourSound(U) /\ Kept(U) /\ Told(U, tourPage) /\ U.open /\ U.steps # {}
        /\ Available(tourPage) = {} =>
                /\ U \in TourStates /\ U.steps = {} /\ U.started /\ ~U.completed
                /\ U.once = tour.once /\ U.seen = tour.seen /\ U.label = tour.label
                /\ U.open = tour.open /\ U.active = tour.active /\ U.shown = tour.shown /\ U.hushed = tour.hushed
    BY RestartDoes DEF TourSound
  <2> HIDE DEF U
  <2>3. TourSound(U) /\ (U.open => U.hushed = U.shown)
    BY <1>1, <2>2 DEF TourSound, Positioned, Kept
  <2>4. ~tells => Told(U, told)
    BY <1>1, <2>1, <2>2 DEF Told, TourSound, Label, NewSteps
  <2>5. /\ tells \in BOOLEAN /\ strays \in BOOLEAN
        /\ tells => Told(U, tourPage') /\ Kept(U)
        /\ ~tells => strays
    BY <1>1, <2>1, <2>2
  <2> HIDE DEF tells, strays
  <2> QED  BY <1>1, <2>1, <2>3, <2>4, <2>5, DoKeeps DEF Kept
<1>3. CASE LET moves == RefreshActiveSteps(tour, tourPage, CurrentOrStored(tour)).index > 1
           IN  DoStraying(GoBack(tour, tourPage), moves, ~moves)
  <2> DEFINE U == GoBack(tour, tourPage)
             moves == RefreshActiveSteps(tour, tourPage, CurrentOrStored(tour)).index > 1
  <2>1. moves \in BOOLEAN /\ (~moves) \in BOOLEAN
    OBVIOUS
  <2>2. /\ TourSound(U) /\ (tour.hushed = tour.shown /\ U.open => U.hushed = U.shown)
        /\ moves => Told(U, tourPage) /\ Kept(U)
        /\ ~moves => SameProgress(tour, U) /\ U.label = tour.label
    BY <1>1, GoBackDoes
  <2> HIDE DEF U, moves
  <2>3. ~moves => Told(U, told)
    BY <2>2, LabelKinds DEF Told
  <2>4. DoStraying(U, moves, ~moves)
    BY <1>3 DEF U, moves
  <2> QED  BY <1>1, <2>1, <2>2, <2>3, <2>4, DoKeeps DEF Kept
<1>4. ASSUME NEW i \in 1 .. Cardinality(tour.steps), Do(JumpTo(tour, tourPage, i), tour'.open)
      PROVE  TourIInv'
  <2> DEFINE U == JumpTo(tour, tourPage, i)
             tells == tour'.open
  <2>1. DoStraying(U, tells, FALSE) /\ tour' = U
    BY <1>4 DEF Do, DoStraying
  <2>2. i \in Nat \ {0}
    <3>1. tour.steps \in SUBSET Steps
      BY DEF TourSound, TourStates
    <3> QED  BY <3>1, StepSets
  <2>3. /\ TourSound(U) /\ Kept(U)
        /\ U.open => Told(U, tourPage)
        /\ ~U.open => SameProgress(tour, U) /\ U.label = tour.label
    BY <1>1, <2>2, JumpToDoes
  <2> HIDE DEF U
  <2>4. U.open \in BOOLEAN /\ (~U.open => Told(U, told))
    BY <2>3, LabelKinds DEF Told, TourSound, TourStates
  <2>5. tells \in BOOLEAN /\ (tells => Told(U, tourPage')) /\ (~tells => Told(U, told))
    <3>1. tour'.open = U.open
      BY <2>1
    <3>2. tells \in BOOLEAN /\ tells = U.open
      BY <2>4, <3>1
    <3> HIDE DEF tells
    <3>3. (tells => U.open) /\ (~tells => ~U.open)
      BY <2>4, <3>2
    <3> QED  BY <1>1, <2>3, <2>4, <3>2, <3>3
  <2> HIDE DEF tells
  <2> QED  BY <1>1, <2>1, <2>3, <2>5, DoKeeps DEF Kept
<1> QED  BY <1>2, <1>3, <1>4 DEF Detour

\* A refresh of a tour whose visible state is the present one.
LEMMA RefreshKeeps ==
    ASSUME TourIInv, NEW T, TourSound(T), T.open => tour.open, T.hushed = tour.hushed,
           NEW p \in TourPages, tourPage' = p, NEW navigated \in BOOLEAN,
           NEW U, U \in {Refresh(T, p, navigated), ScheduleRender(Refresh(T, p, navigated))},
           DoStraying(U, TRUE, FALSE), T.open = tour.open
    PROVE  TourIInv'
<1> DEFINE R == Refresh(T, p, navigated)
<1>1. /\ TourSound(R) /\ Told(R, p)
      /\ Kept(R) \/ (~T.open /\ ~R.open /\ R.hushed = T.hushed)
  BY RefreshDoes
<1>2. U \in {R, ScheduleRender(R)}
  OBVIOUS
<1> HIDE DEF R
<1>3. /\ U \in TourStates /\ SameProgress(R, U) /\ U.label = R.label
      /\ U.open = R.open /\ U.steps = R.steps /\ U.active = R.active /\ U.index = R.index
      /\ U.shown = R.shown /\ U.hushed = R.hushed
  BY <1>1, <1>2, RetryKinds DEF TourSound, SameProgress
<1>4. TourSound(U) /\ Told(U, p)
  BY <1>1, <1>3, LabelKinds DEF TourSound, SameProgress, Told, Positioned
<1>5. (Kept(R) => Kept(U)) /\ (~U.open => (Apart(U) <=> U.hushed # 0))
  BY <1>3 DEF Kept, Apart, CurrentStep
<1>6. (U.open => U.hushed = U.shown) /\ (Apart(U) => stray)
  BY <1>1, <1>3, <1>5 DEF Kept, TourIInv, Apart
<1> QED  BY <1>4, <1>6, DoKeeps

\* What changes the page does.
LEMMA PageKeeps ==
    ASSUME TourIInv, TourChangePage \/ Resize \/ TourNavigate \/ Reload \/ RetryTimer
    PROVE  TourIInv'
<1> USE DEF TourIInv
<1>1. CASE TourChangePage
  <2>1. tourPage' \in TourPages /\ UNCHANGED <<tour, told, stray>>
    BY <1>1 DEF TourChangePage, TourPages
  <2>2. TourSound(tour)' /\ Told(tour, told)' /\ (Apart(tour)' <=> Apart(tour))
    BY <2>1 DEF TourSound, Told, Label, NewSteps, Available, Positioned, Apart, CurrentStep, At
  <2> QED  BY <2>1, <2>2
<1>2. CASE Resize
  <2>1. tourPage' \in TourPages /\ DoStraying(ScheduleRender(Refresh(tour, tourPage', FALSE)), TRUE, FALSE)
    BY <1>2 DEF Resize, TourPages, Do
  <2> QED  BY <2>1, RefreshKeeps
<1>3. CASE TourNavigate
  <2>1. tourPage' \in TourPages /\ DoStraying(Refresh(tour, tourPage', TRUE), TRUE, FALSE)
    BY <1>3 DEF TourNavigate, Do
  <2> QED  BY <2>1, RefreshKeeps
<1>4. CASE Reload
  <2> DEFINE T == [NewTour EXCEPT !.started = tour.started, !.completed = tour.completed,
                                  !.once = tour.once, !.current = tour.current, !.seen = tour.seen]
             U == Refresh(T, tourPage, FALSE)
  <2>1. UNCHANGED tourPage /\ DoStraying(U, TRUE, FALSE)
    BY <1>4 DEF Reload, Do
  <2>2. NewTour \in TourStates /\ ~NewTour.open /\ NewTour.hushed = 0
    BY SomeSteps, StepsAssumption DEF NewTour, TourStates, TourNone, TourFirst, Steps
  <2>3. TourSound(T) /\ ~T.open /\ T.hushed = 0
    BY <2>2 DEF TourSound, TourStates
  <2> HIDE DEF T
  <2>4. TourSound(U) /\ Told(U, tourPage) /\ (Kept(U) \/ (~U.open /\ U.hushed = 0))
    BY <2>3, RefreshDoes
  <2>5. (U.open => U.hushed = U.shown) /\ ~Apart(U)
    BY <2>4 DEF Kept, Apart
  <2> HIDE DEF U
  <2> QED  BY <2>1, <2>4, <2>5, DoKeeps
<1>5. CASE RetryTimer
  <2> DEFINE T == [tour EXCEPT !.retry = FALSE]
  <2>1. UNCHANGED tourPage /\ DoStraying(Refresh(T, tourPage, FALSE), TRUE, FALSE)
    BY <1>5 DEF RetryTimer, Do, Stay
  <2>2. TourSound(T) /\ T.open = tour.open /\ T.hushed = tour.hushed
    BY DEF TourSound, TourStates, Positioned
  <2> HIDE DEF T
  <2> QED  BY <2>1, <2>2, RefreshKeeps
<1> QED  BY <1>1, <1>2, <1>3, <1>4, <1>5

\* The frames and the timer of the tooltip do.
LEMMA FrameKeeps ==
    ASSUME TourIInv, Scroll \/ Timer \/ Frame
    PROVE  TourIInv'
<1> USE DEF TourIInv
<1>1. CASE Scroll
  <2>1. UNCHANGED tourPage /\ DoStraying(ScheduleRender(tour), FALSE, FALSE)
    BY <1>1 DEF Scroll, Do, Stay
  <2> QED  BY <2>1, RetryKinds, QuietKeeps DEF TourSound
<1>2. CASE Timer
  <2> DEFINE T == [tour EXCEPT !.timer = FALSE]
             U == ScheduleRender(T)
  <2>1. UNCHANGED tourPage /\ DoStraying(U, FALSE, FALSE)
    BY <1>2 DEF Timer, Do, Stay
  <2>2. /\ T \in TourStates /\ SameProgress(tour, T) /\ T.label = tour.label /\ T.open = tour.open
        /\ T.active = tour.active /\ T.steps = tour.steps /\ T.index = tour.index
        /\ T.shown = tour.shown /\ T.hushed = tour.hushed
    BY DEF TourSound, TourStates, SameProgress
  <2> HIDE DEF T
  <2>3. /\ U \in TourStates /\ SameProgress(T, U) /\ U.label = T.label
        /\ U.open = T.open /\ U.steps = T.steps /\ U.active = T.active /\ U.index = T.index
        /\ U.shown = T.shown /\ U.hushed = T.hushed
    BY <2>2, RetryKinds
  <2> HIDE DEF U
  <2>4. SameProgress(tour, U)
    BY <2>2, <2>3 DEF SameProgress
  <2> QED  BY <2>1, <2>2, <2>3, <2>4, QuietKeeps
<1>3. CASE Frame
  <2> DEFINE T == [tour EXCEPT !.frame = FALSE]
             U == TourRender(T, tourPage, FALSE)
             tells == tour'.steps # {}
             strays == ~tour.open
             next == IF T.active # {} THEN Available(tourPage) \cap T.active ELSE BuildSteps(T, tourPage)
  <2>1. UNCHANGED tourPage /\ DoStraying(U, tells, strays) /\ tour' = U
    BY <1>3 DEF Frame, DoStraying, Stay
  <2>2. TourSound(T) /\ T \in TourStates /\ SameProgress(tour, T) /\ T.label = tour.label /\ T.open = tour.open
    BY DEF TourSound, TourStates, SameProgress, Positioned
  <2> HIDE DEF T
  <2>3. /\ U.steps = next
        /\ next = {} => PutAway(T, U)
        /\ next # {} => OnScreen(T, U, tourPage)
    BY <2>2, RenderDoes
  <2> HIDE DEF U, next
  <2>4. tells \in BOOLEAN /\ strays \in BOOLEAN /\ (tells <=> next # {})
    BY <2>1, <2>3 DEF TourSound, TourStates
  <2> HIDE DEF tells
  <2>5. CASE next = {}
    <3>1. Told(T, told)
      BY <2>2, LabelKinds DEF Told
    <3>2. TourSound(U) /\ Kept(U) /\ Told(U, told)
      BY <2>2, <2>3, <2>5, <3>1, PutAwayIsKept DEF TourSound
    <3> QED  BY <2>1, <2>4, <2>5, <3>2, DoKeeps DEF Kept
  <2>6. CASE next # {}
    <3>1. OnScreen(T, U, tourPage)
      BY <2>3, <2>6
    <3>2. TourSound(U) /\ Told(U, tourPage) /\ (U.open => U.hushed = U.shown)
      BY <2>2, <3>1 DEF OnScreen, TourSound, Told, SameProgress
    <3>3. Apart(U) => strays
      BY <2>2, <3>1 DEF OnScreen, Apart
    <3> HIDE DEF strays
    <3> QED  BY <2>1, <2>4, <2>6, <3>2, <3>3, DoKeeps
  <2> QED  BY <2>5, <2>6
<1> QED  BY <1>1, <1>2, <1>3

\* The invariant holds in every behaviour.
LEMMA TourInvariant == TourSafeSpec => []TourIInv
<1>1. TourInit => TourIInv
  <2> SUFFICES ASSUME TourInit PROVE TourIInv
    OBVIOUS
  <2>1. NewTour \in TourStates /\ ~NewTour.open /\ NewTour.hushed = 0 /\ ~NewTour.completed
    BY SomeSteps, StepsAssumption DEF NewTour, TourStates, TourNone, TourFirst, Steps
  <2>2. TourSound(NewTour) /\ tourPage \in TourPages /\ tour = Refresh(NewTour, tourPage, FALSE)
    BY <2>1 DEF TourSound, TourInit
  <2>3. TourSound(tour) /\ Told(tour, tourPage) /\ (Kept(tour) \/ (~tour.open /\ tour.hushed = 0))
    BY <2>1, <2>2, RefreshDoes
  <2> QED  BY <2>2, <2>3 DEF TourIInv, TourInit, Kept, Apart
<1>2. TourIInv /\ [TourNext]_tourVars => TourIInv'
  <2> SUFFICES ASSUME TourIInv, [TourNext]_tourVars PROVE TourIInv'
    OBVIOUS
  <2>1. CASE UNCHANGED tourVars
    BY <2>1 DEF tourVars, TourIInv, TourSound, Told, Label, NewSteps, Available, Positioned, Apart, CurrentStep, At
  <2> QED  BY <2>1, VisitorKeeps, DetourKeeps, PageKeeps, FrameKeeps DEF TourNext
<1> QED  BY <1>1, <1>2, PTL DEF TourSafeSpec

\* The label of the help button says what a click would do on the page the tour
\* last saw, and while the tour is open the tooltips of the step it shows are put
\* aside, and of no other, whatever is clicked, resized, left and revisited; a closed
\* tour puts none aside, but for the few ways to stray that the model names.
THEOREM TourIsSafe == TourSafeSpec => [](TourTypeOK /\ LabelTruthful /\ ShownAndHushed)
<1>1. TourIInv => TourTypeOK /\ LabelTruthful /\ ShownAndHushed
  <2> SUFFICES ASSUME TourIInv PROVE TourTypeOK /\ LabelTruthful /\ ShownAndHushed
    OBVIOUS
  <2>1. TourTypeOK
    BY DEF TourIInv, TourSound, TourStates, TourTypeOK, TourPages, TourNone, Positioned
  <2>2. LabelTruthful /\ ShownAndHushed
    BY DEF TourIInv, Told, LabelTruthful, ShownAndHushed
  <2> QED  BY <2>1, <2>2
<1> QED  BY <1>1, TourInvariant, PTL

\* A step is where its position says, and resolved to itself while it is there.
LEMMA PositionFinds ==
    ASSUME NEW S \in SUBSET Steps, NEW s \in S
    PROVE  At(S, PositionOf(S, s)) = s /\ ResolveStored(S, s) = PositionOf(S, s)
<1> DEFINE before(t) == {u \in S : u <= t}
           i == PositionOf(S, s)
<1>1. S \subseteq Int /\ \A t \in S : t \in Int /\ before(t) \in SUBSET Steps
  <2>1. Steps \subseteq Int
    BY SomeSteps DEF Steps
  <2> QED  BY <2>1
<1>2. \A t \in S : IsFiniteSet(before(t))
  BY <1>1, StepSets
<1>3. PICK t \in S : t = At(S, i) /\ Cardinality(before(t)) = Cardinality(before(s))
  <2>1. \E t \in S : Cardinality(before(t)) = Cardinality(before(s))
    OBVIOUS
  <2>2. At(S, i) = CHOOSE t \in S : Cardinality(before(t)) = Cardinality(before(s))
    BY DEF At, PositionOf
  <2> HIDE DEF before, i
  <2> QED  BY <2>1, <2>2
<1>4. ASSUME NEW t1 \in S, NEW t2 \in S, t1 < t2 PROVE Cardinality(before(t1)) # Cardinality(before(t2))
  <2>1. before(t1) \subseteq before(t2) /\ t2 \in before(t2) /\ t2 \notin before(t1)
    <3>1. t1 \in Int /\ t2 \in Int /\ \A u \in S : u \in Int
      BY <1>1
    <3>2. t2 <= t2 /\ ~(t2 <= t1) /\ \A u \in S : u <= t1 => u <= t2
      BY <1>4, <3>1
    <3> QED  BY <3>2
  <2> HIDE DEF before
  <2> QED  BY <1>2, <2>1, FS_Subset
<1>5. t = s
  <2>1. ~(t < s) /\ ~(s < t)
    BY <1>3, <1>4
  <2> QED  BY <1>1, <2>1
<1>6. ResolveStored(S, s) = i
  <2> DEFINE later == {u \in S : u >= s}
  <2>1. s \in later /\ \A u \in later : s <= u
    BY <1>1
  <2>2. \A u \in later : u \in Int
    BY <1>1
  <2> HIDE DEF later
  <2>3. Min(later) = s
    BY <2>1, <2>2 DEF Min
  <2> QED  BY <2>1, <2>3 DEF ResolveStored, later
<1> QED  BY <1>3, <1>5, <1>6

\* Rendering stays at a step that the page and the tour still have.
LEMMA RenderStays ==
    ASSUME NEW T \in TourStates, NEW p \in TourPages, NEW scroll \in BOOLEAN,
           T.active # {}, CurrentStep(T) \in T.active \cap Available(p)
    PROVE  CurrentStep(TourRender(T, p, scroll)) = CurrentStep(T)
<1> DEFINE s == CurrentStep(T)
           next == Available(p) \cap T.active
           R == RefreshActiveSteps(T, p, s)
           V == [R EXCEPT !.shown = CurrentStep(R), !.timer = @ \/ scroll]
           W == SyncHelpButtons(V, p)
           U == TourRender(T, p, scroll)
<1>1. s \in next /\ next \in SUBSET Steps /\ s # 0
  BY StepsOfPage, SomeSteps DEF Steps
<1>2. CurrentOrStored(T) = s
  BY <1>1 DEF CurrentOrStored
<1>3. R = [T EXCEPT !.steps = next, !.index = PositionOf(next, s)]
  BY <1>1 DEF RefreshActiveSteps, TourNone
<1>4. U = [W EXCEPT !.hushed = CurrentStep(R)]
  <2>1. R.steps = next
    BY <1>3 DEF TourStates
  <2> QED  BY <1>1, <1>2, <2>1 DEF TourRender, UpdateSuppressedTooltips
<1> HIDE DEF next, R, U, W, V, s
<1>5. R.steps = next /\ R.index = PositionOf(next, s)
  BY <1>3 DEF TourStates
<1>6. CurrentStep(R) = s
  BY <1>1, <1>5, PositionFinds, PositionIsThere, StepSets DEF CurrentStep
<1>7. R \in TourStates
  BY <1>1, RefreshStepsDoes DEF R
<1>8. V.steps = R.steps /\ V.index = R.index /\ V \in TourStates
  <2>1. V \in TourStates
    BY <1>1, <1>6, <1>7 DEF V, TourStates
  <2> QED  BY <1>7, <2>1 DEF V, TourStates
<1>9. W.steps = V.steps /\ W.index = V.index /\ W \in TourStates
  BY <1>8, SyncDoes DEF W
<1>10. U.steps = W.steps /\ U.index = W.index
  BY <1>4, <1>9 DEF TourStates
<1>11. CurrentStep(U) = CurrentStep(R)
  BY <1>8, <1>9, <1>10 DEF CurrentStep
<1> QED  BY <1>6, <1>11 DEF U, s

\* So does a refresh of a tour of all steps.
LEMMA RefreshStays ==
    ASSUME NEW T, TourSound(T), T.open, T.mode = "all", NEW p \in TourPages,
           T.current = CurrentStep(T), T.current \in p.targets, Refresh(T, p, FALSE).open
    PROVE  CurrentStep(Refresh(T, p, FALSE)) = T.current
<1> DEFINE s == T.current
           B == [T EXCEPT !.steps = BuildSteps(T, p)]
           S == SyncHelpButtons(B, p)
           X == ClearRetry(S)
           R == [X EXCEPT !.index = ResolveStored(S.steps, S.current)]
           U == Refresh(T, p, FALSE)
<1>1. U = IF ~p.wide \/ p.landing THEN Close(X, FALSE)
          ELSE IF S.steps = {} THEN Close(ScheduleRetry(S), FALSE)
          ELSE IF S.open THEN TourRender(R, p, TRUE) ELSE X
  BY DEF Refresh
<1> HIDE DEF U
<1>2. T \in TourStates /\ s \in Steps /\ s # 0 /\ s \in T.active
  <2>1. T \in TourStates /\ s \in Steps /\ s # 0 /\ s = CurrentStep(T) /\ T.steps \subseteq T.active
    BY SomeSteps DEF TourSound, TourStates, Steps
  <2>2. T.index \in 1 .. Cardinality(T.steps) /\ s = At(T.steps, T.index)
    BY <2>1, StepSets, SomeSteps DEF CurrentStep, TourStates
  <2>3. s \in T.steps
    BY <2>1, <2>2, AtIsThere DEF TourStates
  <2> QED  BY <2>1, <2>3
<1>3. B \in TourStates /\ B.steps = BuildSteps(T, p) /\ B.current = s /\ B.active = T.active /\ B.open
  BY <1>2, StepsOfPage DEF TourStates
<1> HIDE DEF B
<1>4. S \in TourStates /\ S.steps = BuildSteps(T, p) /\ S.current = s /\ S.active = T.active /\ S.open
  BY <1>3, SyncDoes
<1> HIDE DEF S
<1>5. X \in TourStates /\ ScheduleRetry(S) \in TourStates
  BY <1>4, RetryKinds
<1>6. p.wide /\ U = TourRender(R, p, TRUE)
  <2>1. ~Close(X, FALSE).open /\ ~Close(ScheduleRetry(S), FALSE).open
    BY <1>5, CloseDoes DEF PutAway
  <2>2. U.open
    BY DEF U
  <2> QED  BY <1>1, <1>4, <2>1, <2>2
<1>7. BuildSteps(T, p) = Available(p) /\ s \in Available(p) /\ Available(p) \in SUBSET Steps
  BY <1>2, <1>6, StepsOfPage DEF BuildSteps, Available
<1>8. X.steps = S.steps /\ X.active = S.active
  BY <1>4 DEF ClearRetry, TourStates
<1> HIDE DEF X
<1> DEFINE i == PositionOf(Available(p), s)
<1>9. R = [X EXCEPT !.index = i] /\ i \in 1 .. Cardinality(Available(p)) /\ i \in 1 .. StepCount
  BY <1>4, <1>7, PositionFinds, PositionIsThere, StepSets, SomeSteps
<1> HIDE DEF i, R
<1>10. R \in TourStates /\ R.steps = Available(p) /\ R.index = i /\ R.active = T.active
  BY <1>4, <1>5, <1>7, <1>8, <1>9 DEF TourStates
<1>11. CurrentStep(R) = s
  BY <1>7, <1>9, <1>10, PositionFinds, StepSets DEF CurrentStep, i
<1>12. CurrentStep(R) \in R.active \cap Available(p) /\ R.active # {}
  BY <1>2, <1>7, <1>10, <1>11
<1>13. CurrentStep(TourRender(R, p, TRUE)) = s
  BY <1>10, <1>11, <1>12, RenderStays
<1> QED  BY <1>6, <1>13 DEF U

\* A tour of all steps stays at its step when a frame, a resize or a retry finds
\* the page changed, as long as the page still has the target of that step.
THEOREM TourKeepsItsPlace == TourSafeSpec => PlaceKept
<1> DEFINE Keeps ==
      (Frame \/ Resize \/ RetryTimer) /\ tour.open /\ tour'.open /\ tour.mode = "all"
         /\ tour.current = CurrentStep(tour) /\ tour.current \in tourPage'.targets
       => CurrentStep(tour') = tour.current
<1>1. TourIInv /\ [TourNext]_tourVars => [Keeps]_tourVars
  <2> SUFFICES ASSUME TourIInv, Frame \/ Resize \/ RetryTimer, tour.open, tour'.open, tour.mode = "all",
                      tour.current = CurrentStep(tour), tour.current \in tourPage'.targets
               PROVE  CurrentStep(tour') = tour.current
    OBVIOUS
  <2> USE DEF TourIInv
  <2>1. CASE Frame
    <3> DEFINE T == [tour EXCEPT !.frame = FALSE]
               U == TourRender(T, tourPage, FALSE)
    <3>1. tour' = U /\ tourPage' = tourPage
      BY <2>1 DEF Frame, DoStraying, Stay
    <3>2. /\ T \in TourStates /\ T.active = tour.active /\ T.active # {} /\ T.steps = tour.steps
          /\ T.index = tour.index
      BY DEF TourSound, TourStates
    <3>3. CurrentStep(T) = tour.current
      BY <3>2 DEF CurrentStep
    <3> HIDE DEF T, U
    <3>4. Available(tourPage) \cap T.active # {}
      <4>1. Available(tourPage) \cap T.active = {} => PutAway(T, U)
        BY <3>2, RenderDoes DEF U
      <4> QED  BY <3>1, <4>1 DEF PutAway
    <3>5. tour.current \in Available(tourPage)
      BY <3>1, <3>4 DEF Available
    <3>6. tour.current \in tour.active
      <4>1. tour.current \in Steps /\ tour.current # 0
        BY SomeSteps DEF TourSound, TourStates, Steps
      <4>2. tour.index \in 1 .. Cardinality(tour.steps) /\ tour.current = At(tour.steps, tour.index)
        BY <4>1, StepSets, SomeSteps DEF CurrentStep, TourSound, TourStates
      <4>3. tour.current \in tour.steps
        BY <4>2, AtIsThere DEF TourSound, TourStates
      <4> QED  BY <4>3 DEF TourSound
    <3>7. CurrentStep(T) \in T.active \cap Available(tourPage)
      BY <3>2, <3>3, <3>5, <3>6
    <3>8. CurrentStep(TourRender(T, tourPage, FALSE)) = CurrentStep(T)
      BY <3>2, <3>7, RenderStays
    <3> QED  BY <3>1, <3>3, <3>8 DEF U
  <2>2. CASE Resize
    <3> DEFINE R == Refresh(tour, tourPage', FALSE)
    <3>1. tour' = ScheduleRender(R) /\ tourPage' \in TourPages
      BY <2>2 DEF Resize, Do, DoStraying, TourPages
    <3>2. TourSound(R)
      BY <3>1, RefreshDoes
    <3> HIDE DEF R
    <3>3. tour'.open = R.open /\ tour'.steps = R.steps /\ tour'.index = R.index
      BY <3>1, <3>2 DEF ScheduleRender, TourSound, TourStates
    <3>4. CurrentStep(tour') = CurrentStep(R)
      BY <3>3 DEF CurrentStep
    <3> QED  BY <3>1, <3>3, <3>4, RefreshStays DEF R
  <2>3. CASE RetryTimer
    <3> DEFINE T == [tour EXCEPT !.retry = FALSE]
    <3>1. tour' = Refresh(T, tourPage, FALSE) /\ tourPage' = tourPage
      BY <2>3 DEF RetryTimer, Do, DoStraying, Stay
    <3>2. /\ TourSound(T) /\ T.open /\ T.mode = "all" /\ T.current = tour.current
          /\ T.steps = tour.steps /\ T.index = tour.index
      BY DEF TourSound, TourStates, Positioned
    <3> HIDE DEF T
    <3>3. CurrentStep(T) = tour.current
      BY <3>2 DEF CurrentStep
    <3> QED  BY <3>1, <3>2, <3>3, RefreshStays
  <2> QED  BY <2>1, <2>2, <2>3
<1> QED  BY <1>1, TourInvariant, PTL DEF TourSafeSpec, PlaceKept

-----------------------------------------------------------------------------
(* The geometry of the spotlight: the hole, the four parts of the backdrop *)
(* around it and the card, in the arithmetic of site-tour.ts.              *)

Rects == [left : Int, top : Int, right : Int, bottom : Int]

\* The fields of a rectangle.
LEMMA RectKinds ==
    ASSUME NEW l \in Int, NEW t \in Int, NEW r \in Int, NEW b \in Int
    PROVE  /\ Rect(l, t, r, b) \in Rects
           /\ Rect(l, t, r, b).left = l /\ Rect(l, t, r, b).top = t
           /\ Rect(l, t, r, b).right = r /\ Rect(l, t, r, b).bottom = b
BY DEF Rect, Rects

\* clamp stays between its bounds, and does nothing to what is between them.
LEMMA ClampKinds ==
    ASSUME NEW value \in Int, NEW min \in Int, NEW max \in Int
    PROVE  /\ clamp(value, min, max) \in Int /\ clamp(value, min, max) <= max
           /\ min <= max => clamp(value, min, max) >= min
           /\ value <= min /\ min <= max => clamp(value, min, max) = min
           /\ value >= max => clamp(value, min, max) = max
           /\ min <= value /\ value <= max => clamp(value, min, max) = value
BY DEF clamp, MinOf, MaxOf

\* One direction of the spotlight: it is within the n pixels there are, and every
\* pixel of the target that is one of them is in it.
LEMMA SpanDoes ==
    ASSUME NEW n \in Nat, NEW a \in Int, NEW b \in Int, a <= b, NEW p \in Nat,
           NEW l, l = clamp(a - p, 0, n), NEW w, w = clamp(b - a + p * 2, 0, n),
           NEW r, r = clamp(l + w, 0, n)
    PROVE  /\ l \in Int /\ r \in Int /\ 0 <= l /\ l <= r /\ r <= n
           /\ \A x \in Int : a <= x /\ x < b /\ 0 <= x /\ x < n => l <= x /\ x < r
<1>1. a - p \in Int /\ b - a + p * 2 \in Int /\ 0 <= b - a + p * 2
  OBVIOUS
<1>2. l \in Int /\ 0 <= l /\ l <= n /\ w \in Int /\ 0 <= w /\ w <= n
  BY <1>1 DEF clamp, MinOf, MaxOf
<1>3. r \in Int /\ 0 <= r /\ r <= n /\ (l + w <= n => r = l + w) /\ (l + w >= n => r = n)
  BY <1>2 DEF clamp, MinOf, MaxOf
<1>4. /\ a - p <= 0 => l = 0
      /\ 0 <= a - p /\ a - p <= n => l = a - p
      /\ a - p >= n => l = n
      /\ b - a + p * 2 <= n => w = b - a + p * 2
      /\ b - a + p * 2 >= n => w = n
  BY <1>1 DEF clamp, MinOf, MaxOf
<1>5. l <= r
  BY <1>2, <1>3
<1>6. ASSUME NEW x \in Int, a <= x, x < b, 0 <= x, x < n PROVE l <= x /\ x < r
  BY <1>2, <1>3, <1>4, <1>6
<1> QED  BY <1>2, <1>3, <1>5, <1>6

HoleOK(v, h) ==
    /\ h \in Rects
    /\ 0 <= h.left /\ h.left <= h.right /\ h.right <= v.w
    /\ 0 <= h.top /\ h.top <= h.bottom /\ h.bottom <= v.h

\* The spotlight is a rectangle of the viewport, with all of the target that the
\* viewport shows.
LEMMA HoleDoes ==
    ASSUME NEW v \in [w : Nat, h : Nat], NEW t \in Rects, NEW p \in Nat,
           t.left <= t.right, t.top <= t.bottom, NEW h, h = Hole(v, t, p)
    PROVE  /\ HoleOK(v, h)
           /\ \A x, y \in Int :
                Within(x, y, t) /\ Within(x, y, Rect(0, 0, v.w, v.h)) => Within(x, y, h)
<1> DEFINE top == clamp(t.top - p, 0, v.h)
           left == clamp(t.left - p, 0, v.w)
           width == clamp(t.right - t.left + p * 2, 0, v.w)
           height == clamp(t.bottom - t.top + p * 2, 0, v.h)
           right == clamp(left + width, 0, v.w)
           bottom == clamp(top + height, 0, v.h)
<1>1. /\ v.w \in Nat /\ v.h \in Nat
      /\ t.left \in Int /\ t.top \in Int /\ t.right \in Int /\ t.bottom \in Int
  BY DEF Rects
<1>2. h = Rect(left, top, right, bottom)
  BY DEF Hole
<1> HIDE DEF top, left, width, height, right, bottom
<1>3. /\ left \in Int /\ right \in Int /\ 0 <= left /\ left <= right /\ right <= v.w
      /\ \A x \in Int : t.left <= x /\ x < t.right /\ 0 <= x /\ x < v.w => left <= x /\ x < right
  BY <1>1, SpanDoes DEF left, width, right
<1>4. /\ top \in Int /\ bottom \in Int /\ 0 <= top /\ top <= bottom /\ bottom <= v.h
      /\ \A x \in Int : t.top <= x /\ x < t.bottom /\ 0 <= x /\ x < v.h => top <= x /\ x < bottom
  BY <1>1, SpanDoes, SMTT(30) DEF top, height, bottom
<1>5. /\ h \in Rects /\ h.left = left /\ h.top = top /\ h.right = right /\ h.bottom = bottom
  BY <1>2, <1>3, <1>4 DEF Rect, Rects
<1>6. Rect(0, 0, v.w, v.h).left = 0 /\ Rect(0, 0, v.w, v.h).top = 0
      /\ Rect(0, 0, v.w, v.h).right = v.w /\ Rect(0, 0, v.w, v.h).bottom = v.h
  BY DEF Rect
<1> QED  BY <1>3, <1>4, <1>5, <1>6 DEF HoleOK, Within

\* The four segments around a spotlight, and which points are in each.
LEMMA SegmentsTile ==
    ASSUME NEW v \in [w : Nat, h : Nat], NEW h, HoleOK(v, h), NEW x \in Int, NEW y \in Int,
           Within(x, y, Rect(0, 0, v.w, v.h))
    PROVE  LET over == {R \in Segments(v, h) \cup {h} : Within(x, y, R)}
           IN  over # {} /\ \A R, S \in over : R = S
<1> DEFINE A == Rect(0, 0, v.w, h.top)
           B == Rect(0, h.top, h.left, h.bottom)
           C == Rect(h.right, h.top, h.right + MaxOf(v.w - h.right, 0), h.bottom)
           D == Rect(0, h.bottom, v.w, h.bottom + MaxOf(v.h - h.bottom, 0))
<1>1. /\ v.w \in Nat /\ v.h \in Nat
      /\ h.left \in Int /\ h.top \in Int /\ h.right \in Int /\ h.bottom \in Int
      /\ 0 <= h.left /\ h.left <= h.right /\ h.right <= v.w
      /\ 0 <= h.top /\ h.top <= h.bottom /\ h.bottom <= v.h
  BY DEF HoleOK, Rects
<1>2. h.right + MaxOf(v.w - h.right, 0) = v.w /\ h.bottom + MaxOf(v.h - h.bottom, 0) = v.h
  BY <1>1 DEF MaxOf
<1>3. 0 <= x /\ x < v.w /\ 0 <= y /\ y < v.h
  BY <1>1 DEF Within, Rect
<1>4. Within(x, y, A) <=> y < h.top
  BY <1>1, <1>3 DEF Within, Rect
<1>5. Within(x, y, B) <=> h.top <= y /\ y < h.bottom /\ x < h.left
  BY <1>1, <1>3 DEF Within, Rect
<1>6. Within(x, y, C) <=> (h.top <= y /\ y < h.bottom /\ h.right <= x)
  <2>1. C = Rect(h.right, h.top, v.w, h.bottom)
    BY <1>2
  <2> QED  BY <1>1, <1>3, <2>1 DEF Within, Rect
<1>7. Within(x, y, D) <=> h.bottom <= y
  <2>1. D = Rect(0, h.bottom, v.w, v.h)
    BY <1>2
  <2> QED  BY <1>1, <1>3, <2>1 DEF Within, Rect
<1>8. Within(x, y, h) <=> (h.left <= x /\ x < h.right /\ h.top <= y /\ y < h.bottom)
  BY DEF Within
<1>9. Segments(v, h) = {A, B, C, D}
  BY DEF Segments
<1> HIDE DEF A, B, C, D
<1>10. /\ Within(x, y, A) \/ Within(x, y, B) \/ Within(x, y, C) \/ Within(x, y, D) \/ Within(x, y, h)
       /\ Within(x, y, A) => ~Within(x, y, B) /\ ~Within(x, y, C) /\ ~Within(x, y, D) /\ ~Within(x, y, h)
       /\ Within(x, y, B) => ~Within(x, y, C) /\ ~Within(x, y, D) /\ ~Within(x, y, h)
       /\ Within(x, y, C) => ~Within(x, y, D) /\ ~Within(x, y, h)
       /\ Within(x, y, D) => ~Within(x, y, h)
  BY <1>1, <1>3, <1>4, <1>5, <1>6, <1>7, <1>8
<1>11. \A R \in Segments(v, h) \cup {h} : R = A \/ R = B \/ R = C \/ R = D \/ R = h
  BY <1>9
<1>12. ASSUME NEW R \in Segments(v, h) \cup {h}, NEW S \in Segments(v, h) \cup {h},
              Within(x, y, R), Within(x, y, S)
       PROVE  R = S
  BY <1>10, <1>11, <1>12, Zenon
<1>13. \E R \in Segments(v, h) \cup {h} : Within(x, y, R)
  BY <1>9, <1>10
<1> QED  BY <1>12, <1>13

CardWellPlaced(v, h, c, d) ==
    /\ d \in Rects /\ d.right - d.left = c.w /\ d.bottom - d.top = c.h
    /\ c.w + 2 * Margin <= v.w /\ c.h + 2 * Margin <= v.h =>
         d.left >= 0 /\ d.top >= 0 /\ d.right <= v.w /\ d.bottom <= v.h
    /\ v.w > 768 /\ (FitsRight(v, h, c) \/ FitsLeft(v, h, c) \/ FitsBottom(v, h, c))
         => GeometryApart(d, h)

\* Half of a whole number, rounded down, is a whole number.
LEMMA HalfOf ==
    ASSUME NEW n \in Int PROVE n \div 2 \in Int
OBVIOUS

\* The card is on the screen, and beside the hole where there is room.
LEMMA CardDoes ==
    ASSUME NEW v \in [w : Nat, h : Nat], NEW h, HoleOK(v, h), NEW c \in [w : Nat, h : Nat],
           NEW d, d = CardAt(v, h, c)
    PROVE  CardWellPlaced(v, h, c, d)
<1> DEFINE left ==
             IF v.w <= 768 THEN clamp((v.w - c.w) \div 2, 8, v.w - c.w - 8)
             ELSE IF FitsRight(v, h, c) THEN h.right + Margin
             ELSE IF FitsLeft(v, h, c) THEN h.left - c.w - Margin
             ELSE Below(v, h, c)
           top ==
             IF v.w <= 768 THEN clamp(v.h - c.h - 8, 8, v.h - c.h - 8)
             ELSE IF FitsRight(v, h, c) \/ FitsLeft(v, h, c) THEN Beside(v, h, c)
             ELSE IF FitsBottom(v, h, c) THEN h.bottom + Margin
             ELSE clamp(h.top - c.h - Margin, Margin, v.h - c.h - Margin)
<1>1. /\ v.w \in Nat /\ v.h \in Nat /\ c.w \in Nat /\ c.h \in Nat
      /\ h.left \in Int /\ h.top \in Int /\ h.right \in Int /\ h.bottom \in Int
      /\ 0 <= h.left /\ h.left <= h.right /\ h.right <= v.w
      /\ 0 <= h.top /\ h.top <= h.bottom /\ h.bottom <= v.h
  BY DEF HoleOK, Rects
<1>2. d = Rect(left, top, left + c.w, top + c.h)
  BY DEF CardAt
<1>3. /\ left \in Int
      /\ c.w + 32 <= v.w => left >= 0 /\ left + c.w <= v.w
  <2>1. CASE v.w <= 768
    <3>1. (v.w - c.w) \div 2 \in Int
      BY <1>1, HalfOf
    <3>2. left = clamp((v.w - c.w) \div 2, 8, v.w - c.w - 8)
      BY <2>1
    <3> HIDE DEF left
    <3>3. left \in Int /\ left <= v.w - c.w - 8 /\ (8 <= v.w - c.w - 8 => left >= 8)
      BY <1>1, <3>1, <3>2 DEF clamp, MinOf, MaxOf
    <3> QED  BY <1>1, <3>3
  <2>2. CASE v.w > 768 /\ FitsRight(v, h, c)
    <3>1. left = h.right + 16
      BY <1>1, <2>2 DEF Margin
    <3>2. v.w - h.right >= c.w + 16
      BY <2>2 DEF FitsRight, Margin
    <3> HIDE DEF left
    <3> QED  BY <1>1, <3>1, <3>2
  <2>3. CASE v.w > 768 /\ ~FitsRight(v, h, c) /\ FitsLeft(v, h, c)
    <3>1. left = h.left - c.w - 16
      BY <1>1, <2>3 DEF Margin
    <3>2. h.left >= c.w + 16
      BY <2>3 DEF FitsLeft, Margin
    <3> HIDE DEF left
    <3> QED  BY <1>1, <3>1, <3>2
  <2>4. CASE v.w > 768 /\ ~FitsRight(v, h, c) /\ ~FitsLeft(v, h, c)
    <3>1. left = clamp(h.left, 16, v.w - c.w - 16)
      BY <1>1, <2>4 DEF Below, Margin
    <3> HIDE DEF left
    <3>2. left \in Int /\ left <= v.w - c.w - 16 /\ (16 <= v.w - c.w - 16 => left >= 16)
      BY <1>1, <3>1 DEF clamp, MinOf, MaxOf
    <3> QED  BY <1>1, <3>2
  <2> QED  BY <1>1, <2>1, <2>2, <2>3, <2>4
<1>4. /\ top \in Int
      /\ c.h + 32 <= v.h => top >= 0 /\ top + c.h <= v.h
  <2>1. CASE v.w <= 768
    <3>1. top = clamp(v.h - c.h - 8, 8, v.h - c.h - 8)
      BY <2>1
    <3> HIDE DEF top
    <3>2. top \in Int /\ top <= v.h - c.h - 8 /\ (8 <= v.h - c.h - 8 => top >= 8)
      BY <1>1, <3>1 DEF clamp, MinOf, MaxOf
    <3> QED  BY <1>1, <3>2
  <2>2. CASE v.w > 768 /\ (FitsRight(v, h, c) \/ FitsLeft(v, h, c))
    <3>1. top = clamp(h.top, 16, v.h - c.h - 16)
      BY <1>1, <2>2 DEF Beside, Margin
    <3> HIDE DEF top
    <3>2. top \in Int /\ top <= v.h - c.h - 16 /\ (16 <= v.h - c.h - 16 => top >= 16)
      BY <1>1, <3>1 DEF clamp, MinOf, MaxOf
    <3> QED  BY <1>1, <3>2
  <2>3. CASE v.w > 768 /\ ~FitsRight(v, h, c) /\ ~FitsLeft(v, h, c) /\ FitsBottom(v, h, c)
    <3>1. top = h.bottom + 16
      BY <1>1, <2>3 DEF Margin
    <3>2. v.h - h.bottom >= c.h + 16
      BY <2>3 DEF FitsBottom, Margin
    <3> HIDE DEF top
    <3> QED  BY <1>1, <3>1, <3>2
  <2>4. CASE v.w > 768 /\ ~FitsRight(v, h, c) /\ ~FitsLeft(v, h, c) /\ ~FitsBottom(v, h, c)
    <3>1. top = clamp(h.top - c.h - 16, 16, v.h - c.h - 16)
      BY <1>1, <2>4 DEF Margin
    <3> HIDE DEF top
    <3>2. top \in Int /\ top <= v.h - c.h - 16 /\ (16 <= v.h - c.h - 16 => top >= 16)
      BY <1>1, <3>1 DEF clamp, MinOf, MaxOf
    <3> QED  BY <1>1, <3>2
  <2> QED  BY <1>1, <2>1, <2>2, <2>3, <2>4
<1>5. ASSUME v.w > 768, FitsRight(v, h, c) \/ FitsLeft(v, h, c) \/ FitsBottom(v, h, c)
      PROVE  left >= h.right \/ left + c.w <= h.left \/ top >= h.bottom
  <2>1. CASE FitsRight(v, h, c)
    BY <1>1, <1>5, <2>1 DEF Margin
  <2>2. CASE ~FitsRight(v, h, c) /\ FitsLeft(v, h, c)
    <3>1. left = h.left - c.w - 16
      BY <1>1, <1>5, <2>2 DEF Margin
    <3> HIDE DEF left
    <3> QED  BY <1>1, <3>1
  <2>3. CASE ~FitsRight(v, h, c) /\ ~FitsLeft(v, h, c) /\ FitsBottom(v, h, c)
    BY <1>1, <1>5, <2>3 DEF Margin
  <2> HIDE DEF left, top
  <2> QED  BY <1>5, <2>1, <2>2, <2>3
<1> HIDE DEF left, top
<1>6. d \in Rects /\ d.left = left /\ d.top = top /\ d.right = left + c.w /\ d.bottom = top + c.h
  BY <1>1, <1>2, <1>3, <1>4 DEF Rect, Rects
<1>7. d.right - d.left = c.w /\ d.bottom - d.top = c.h
  BY <1>1, <1>3, <1>4, <1>6
<1> QED  BY <1>1, <1>3, <1>4, <1>5, <1>6, <1>7 DEF CardWellPlaced, GeometryApart, Margin

GeometryOK ==
    /\ geometryView \in Viewports /\ geometryTarget \in Rects
    /\ geometryTarget.left <= geometryTarget.right /\ geometryTarget.top <= geometryTarget.bottom

\* What is on the screen once the step was rendered: the spotlight of some padding
\* and a card placed beside it.
Placed ==
    /\ HoleOK(geometryView, hole)
    /\ \A x, y \in Int : Within(x, y, geometryTarget) /\ Within(x, y, Rect(0, 0, geometryView.w, geometryView.h))
                           => Within(x, y, hole)
    /\ \E c \in GeometryCards : CardWellPlaced(geometryView, hole, c, geometryCard)

GeometryInv == GeometryOK /\ (Rendered => Placed)

\* The invariant of the geometry holds in every behaviour.
LEMMA GeometryInvariant == GeometrySpec => []GeometryInv
<1>1. ASSUME GeometryInit PROVE GeometryInv
  <2>1. PICK x \in Edges, y \in Edges, w \in Sizes, h \in Sizes : geometryTarget = Rect(x, y, x + w, y + h)
    BY <1>1 DEF GeometryInit
  <2>2. x \in Int /\ y \in Int /\ w \in Nat /\ h \in Nat
    BY GeometryAssumption
  <2>3. /\ geometryTarget \in Rects /\ geometryTarget.left = x /\ geometryTarget.top = y
        /\ geometryTarget.right = x + w /\ geometryTarget.bottom = y + h
    BY <2>1, <2>2 DEF Rect, Rects
  <2> QED  BY <1>1, <2>2, <2>3 DEF GeometryInit, GeometryInv, GeometryOK, Rendered
<1>2. ASSUME GeometryInv, [GeometryNext]_geometryVars PROVE GeometryInv'
  <2>1. CASE GeometryRender
    <3>1. PICK p \in Paddings : hole' = Hole(geometryView, geometryTarget, p)
      BY <2>1 DEF GeometryRender
    <3>2. PICK c \in GeometryCards : geometryCard' = CardAt(geometryView, hole', c)
      BY <2>1 DEF GeometryRender
    <3>3. GeometryOK /\ UNCHANGED <<geometryView, geometryTarget>>
      BY <1>2, <2>1 DEF GeometryInv, GeometryRender
    <3>4. geometryView \in [w : Nat, h : Nat] /\ p \in Nat /\ c \in [w : Nat, h : Nat]
      BY <3>3, GeometryAssumption DEF GeometryOK
    <3>5. /\ HoleOK(geometryView, hole')
          /\ \A x, y \in Int :
               Within(x, y, geometryTarget) /\ Within(x, y, Rect(0, 0, geometryView.w, geometryView.h))
                 => Within(x, y, hole')
      BY <3>1, <3>3, <3>4, HoleDoes DEF GeometryOK
    <3>6. CardWellPlaced(geometryView, hole', c, geometryCard')
      BY <3>2, <3>4, <3>5, CardDoes
    <3> QED  BY <3>3, <3>5, <3>6 DEF GeometryInv, GeometryOK, Placed
  <2>2. CASE UNCHANGED geometryVars
    BY <1>2, <2>2 DEF geometryVars, GeometryInv, GeometryOK, Placed, Rendered
  <2> QED  BY <1>2, <2>1, <2>2 DEF GeometryNext
<1> QED  BY <1>1, <1>2, PTL DEF GeometrySpec

\* For every viewport, card, target and padding the hole shows the target, the four
\* parts of the backdrop tile the rest, and the card is on the screen and beside
\* the hole where there is room.
THEOREM GeometryIsSafe ==
    GeometrySpec => [](HoleShowsTarget /\ BackdropTiles /\ CardOnScreen /\ CardBesideHole)
<1>1. ASSUME GeometryInv PROVE HoleShowsTarget /\ BackdropTiles /\ CardOnScreen /\ CardBesideHole
  <2>1. CASE ~Rendered
    BY <2>1 DEF HoleShowsTarget, BackdropTiles, CardOnScreen, CardBesideHole
  <2>2. CASE Rendered
    <3>1. GeometryOK /\ Placed
      BY <1>1, <2>2 DEF GeometryInv
    <3>2. /\ geometryView \in [w : Nat, h : Nat]
          /\ geometryView.w \in Nat /\ geometryView.h \in Nat
      BY <3>1, GeometryAssumption DEF GeometryOK
    <3>3. HoleShowsTarget
      <4> DEFINE seen == Rect(MaxOf(geometryTarget.left, 0), MaxOf(geometryTarget.top, 0),
                              MinOf(geometryTarget.right, geometryView.w),
                              MinOf(geometryTarget.bottom, geometryView.h))
      <4>1. /\ MaxOf(geometryTarget.left, 0) \in Int /\ MaxOf(geometryTarget.top, 0) \in Int
            /\ MinOf(geometryTarget.right, geometryView.w) \in Int
            /\ MinOf(geometryTarget.bottom, geometryView.h) \in Int
        BY <3>1, <3>2 DEF MaxOf, MinOf, GeometryOK, Rects
      <4>2. seen \in Rects
        BY <4>1, RectKinds
      <4> HIDE DEF seen
      <4>3. \A p \in Corners(seen) : p[1] \in Int /\ p[2] \in Int
        BY <4>2 DEF Corners, Rects
      <4>4. \A p \in Corners(seen) :
              Within(p[1], p[2], geometryTarget) /\ Within(p[1], p[2], Rect(0, 0, geometryView.w, geometryView.h))
                => Within(p[1], p[2], hole)
        BY <3>1, <4>3 DEF Placed
      <4> QED  BY <4>4 DEF HoleShowsTarget, seen
    <3>4. HoleOK(geometryView, hole)
      BY <3>1 DEF Placed
    <3>5. BackdropTiles
      <4>1. /\ hole.left \in Int /\ hole.right \in Int /\ hole.top \in Int /\ hole.bottom \in Int
        BY <3>4 DEF HoleOK, Rects
      <4>2. /\ {0, hole.left - 1, hole.left, hole.right - 1, hole.right, geometryView.w - 1} \subseteq Int
            /\ {0, hole.top - 1, hole.top, hole.bottom - 1, hole.bottom, geometryView.h - 1} \subseteq Int
        BY <3>2, <4>1
      <4> QED  BY <3>2, <3>4, <4>2, SegmentsTile DEF BackdropTiles
    <3>6. PICK c \in GeometryCards : CardWellPlaced(geometryView, hole, c, geometryCard)
      BY <3>1 DEF Placed
    <3> DEFINE size == [w |-> geometryCard.right - geometryCard.left, h |-> geometryCard.bottom - geometryCard.top]
    <3>7. c = size
      BY <3>6, GeometryAssumption DEF CardWellPlaced
    <3>8. CardOnScreen
      <4>1. c.w = size.w /\ c.h = size.h
        BY <3>7
      <4> QED  BY <3>6, <4>1 DEF CardOnScreen, CardWellPlaced
    <3>9. CardBesideHole
      BY <3>6, <3>7 DEF CardBesideHole, CardWellPlaced
    <3> QED  BY <3>3, <3>5, <3>8, <3>9
  <2> QED  BY <2>1, <2>2
<1> QED  BY <1>1, GeometryInvariant, PTL

-----------------------------------------------------------------------------
(* The selector that floats.                                               *)

FloatingState ==
    /\ past \in BOOLEAN /\ floating \in BOOLEAN /\ collapsed \in BOOLEAN
    /\ userExpanded \in BOOLEAN /\ enableScrollCollapse \in BOOLEAN
    /\ frame \in BOOLEAN /\ resizeTimer \in BOOLEAN
    /\ autoTimer \in BOOLEAN /\ scrollTimer \in BOOLEAN
    /\ alive \in BOOLEAN
    /\ rested \in {"no", "five seconds", "scrolled"}

\* Each timer and each flag is about an expansion that still stands: the five
\* seconds run or are over while the visitor's expansion is open, and only after
\* that a scroll may be about to end it.
Standing ==
    /\ collapsed => floating
    /\ userExpanded => floating /\ ~collapsed
    /\ autoTimer => userExpanded
    /\ enableScrollCollapse => userExpanded /\ rested # "no" /\ ~autoTimer
    /\ scrollTimer => rested = "scrolled" /\ userExpanded /\ ~autoTimer

FloatingIInv == FloatingState /\ Standing /\ FloatsPastItsPlace /\ NothingRunsOn

\* Every step keeps the invariant of the floating selector.
LEMMA FloatingStep ==
    FloatingIInv /\ [FloatingNext]_floatingVars => FloatingIInv'
<1> SUFFICES ASSUME FloatingIInv, [FloatingNext]_floatingVars PROVE FloatingIInv'
  OBVIOUS
<1> USE DEF FloatingIInv, FloatingState, Standing, FloatsPastItsPlace, NothingRunsOn, Timers
<1>1. ASSUME NEW to \in BOOLEAN, NEW far \in BOOLEAN, FloatingScroll(to, far) PROVE FloatingIInv'
  BY <1>1 DEF FloatingScroll, FloatingAct
<1>2. ASSUME NEW to \in BOOLEAN, FloatingResize(to) PROVE FloatingIInv'
  BY <1>2 DEF FloatingResize, FloatingAct
<1>3. CASE UpdateFloatingState
  BY <1>3 DEF UpdateFloatingState, SetCollapsed
<1>4. CASE ResizeTimer
  BY <1>4 DEF ResizeTimer
<1>5. CASE AutoTimer
  BY <1>5 DEF AutoTimer
<1>6. CASE ScrollTimer
  BY <1>6 DEF ScrollTimer, SetCollapsed
<1>7. CASE Collapse
  BY <1>7 DEF Collapse, SetCollapsed, FloatingAct
<1>8. CASE Expand
  BY <1>8 DEF Expand, SetCollapsed, FloatingAct
<1>9. CASE Dispose
  BY <1>9 DEF Dispose
<1>10. CASE UNCHANGED floatingVars
  BY <1>10 DEF floatingVars
<1> HIDE DEF FloatingIInv
<1> QED  BY <1>1, <1>2, <1>3, <1>4, <1>5, <1>6, <1>7, <1>8, <1>9, <1>10 DEF FloatingNext

\* It holds in every behaviour.
LEMMA FloatingInvariant == FloatingSpec => []FloatingIInv
<1>1. FloatingInit => FloatingIInv
  BY DEF FloatingInit, FloatingIInv, FloatingState, Standing, FloatsPastItsPlace, NothingRunsOn, Timers
<1> QED  BY <1>1, FloatingStep, PTL DEF FloatingSpec

\* The visitor acts no more often than the bound allows.
LEMMA FloatingCount == FloatingSpec => [](floatingActs \in 0 .. FloatingMaxActs)
<1>1. FloatingInit => floatingActs \in 0 .. FloatingMaxActs
  BY FloatingAssumption DEF FloatingInit
<1>2. [FloatingNext]_floatingVars
        => UNCHANGED floatingActs \/ (floatingActs < FloatingMaxActs /\ floatingActs' = floatingActs + 1)
  BY DEF FloatingNext, floatingVars, FloatingScroll, FloatingResize, UpdateFloatingState, ResizeTimer,
         AutoTimer, ScrollTimer, Collapse, Expand, Dispose, FloatingAct
<1>3. floatingActs \in 0 .. FloatingMaxActs /\ [FloatingNext]_floatingVars
        => (floatingActs \in 0 .. FloatingMaxActs)'
  BY <1>2, FloatingAssumption
<1> QED  BY <1>1, <1>3, PTL DEF FloatingSpec

\* When no update is due the selector floats exactly when the page is scrolled past
\* it, what the visitor expanded stays so until its time is over and he scrolls, and
\* no timer of it runs on when it is gone.
THEOREM FloatingIsSafe ==
    FloatingSpec => [](FloatingTypeOK /\ FloatsPastItsPlace /\ ExpansionRemainsOpen /\ NothingRunsOn)
<1>1. FloatingIInv /\ floatingActs \in 0 .. FloatingMaxActs
        => FloatingTypeOK /\ FloatsPastItsPlace /\ ExpansionRemainsOpen /\ NothingRunsOn
  BY DEF FloatingIInv, FloatingState, Standing, FloatingTypeOK, ExpansionRemainsOpen, Timers
<1> QED  BY <1>1, FloatingInvariant, FloatingCount, PTL

-----------------------------------------------------------------------------
(* The pivot selectors.                                                    *)

\* The first valid option of a selector is one it offers.
LEMMA FirstIsValid ==
    ASSUME NEW s \in Selectors
    PROVE  FirstValid(s) \in ValidOptions(s)
<1> DEFINE o == PivotOptions[s]
           T == {i \in DOMAIN o : o[i] \in ValidOptions(s)}
<1>1. DOMAIN o = 1 .. Len(o) /\ Len(o) \in Nat /\ ToSet(o) = {o[i] : i \in DOMAIN o}
  BY PivotAssumption DEF ToSet
<1>2. T \in SUBSET Nat
  BY <1>1
<1>3. T # {}
  BY <1>1, PivotAssumption DEF ValidOptions, AllOptions
<1>4. PICK x \in T : \A y \in T : x <= y
  BY <1>2, <1>3, LeastNatural
<1>5. /\ x \in DOMAIN o /\ o[x] \in ValidOptions(s)
      /\ \A j \in 1 .. x - 1 : o[j] \notin ValidOptions(s)
  BY <1>1, <1>4
<1> QED  BY <1>5 DEF FirstValid

PivotNames == STRING \union {PivotNone, "gone"}

PivotState ==
    /\ pivotPage \in DOMAIN PivotPages
    /\ phase \in [Selectors -> {"idle", "connected", "ready"}]
    /\ \A s \in Selectors : phase[s] = "ready" => s \in PivotHere
    /\ pivotParams \in [Keys -> PivotNames] /\ stored \in [Keys -> PivotNames] /\ wish \in [Keys -> PivotNames]
    /\ pivotActive \in [Selectors -> PivotNames]
    /\ \A s \in Selectors : pivotActive[s] \in AllOptions(s) \union {PivotNone}

\* A selector that is initialised shows one of its options, everywhere.
InStep(s) ==
    /\ pivotActive[s] \in ValidOptions(s)
    /\ pivotParams[Key[s]] = pivotActive[s]
    /\ stored[Key[s]] = pivotActive[s]
    /\ \A block \in Blocks[pivotPage] :
         block \intersect AllOptions(s) # {} => (block \in hidden <=> pivotActive[s] \notin block)
    /\ Key[s] = AspireLang => tabs = pivotActive[s] /\ apphostLang = pivotActive[s]
    /\ wish[Key[s]] # PivotNone => wish[Key[s]] = pivotActive[s]

\* What is wished for on the pages to come is what is stored.
WishStored == \A key \in Keys : wish[key] # PivotNone => stored[key] = wish[key]

HiddenByOne == \A block \in hidden : \E s \in PivotHere : block \intersect AllOptions(s) # {}

PivotIInv ==
    /\ PivotState /\ WishStored /\ HiddenByOne
    /\ \A s \in Selectors : phase[s] = "ready" => InStep(s)

\* What the selectors and blocks of a page have in common.
LEMMA PageKinds ==
    ASSUME PivotState
    PROVE  /\ PivotHere \subseteq Selectors
           /\ \A s \in Selectors : Key[s] \in Keys /\ PivotNone \notin AllOptions(s)
                /\ ValidOptions(s) \subseteq AllOptions(s) /\ AllOptions(s) \subseteq PivotNames
           /\ \A i \in DOMAIN PivotPages[pivotPage] : PivotPages[pivotPage][i] \in PivotHere
           /\ \A s, t \in PivotHere :
                /\ Key[s] = Key[t] => AllOptions(s) = AllOptions(t) /\ ValidOptions(s) = ValidOptions(t)
                /\ Key[s] # Key[t] =>
                     \A block \in Blocks[pivotPage] :
                       block \intersect AllOptions(s) = {} \/ block \intersect AllOptions(t) = {}
<1>1. PivotPages[pivotPage] \in Seq(Selectors)
  BY PivotAssumption DEF PivotState
<1>2. /\ PivotHere \subseteq Selectors
      /\ \A i \in DOMAIN PivotPages[pivotPage] : PivotPages[pivotPage][i] \in PivotHere
  BY <1>1 DEF PivotHere, ToSet
<1>3. ASSUME NEW s \in Selectors
      PROVE  Key[s] \in Keys /\ PivotNone \notin AllOptions(s)
             /\ ValidOptions(s) \subseteq AllOptions(s) /\ AllOptions(s) \subseteq PivotNames
  BY <1>3, PivotAssumption DEF PivotNames, Keys, Selectors, ValidOptions, AllOptions, ToSet
<1>4. ASSUME NEW s \in PivotHere, NEW t \in PivotHere
      PROVE  /\ Key[s] = Key[t] => AllOptions(s) = AllOptions(t) /\ ValidOptions(s) = ValidOptions(t)
             /\ Key[s] # Key[t] =>
                  \A block \in Blocks[pivotPage] :
                    block \intersect AllOptions(s) = {} \/ block \intersect AllOptions(t) = {}
  BY <1>2, <1>4, PivotAssumption DEF PivotState, PivotHere, AllOptions, ValidOptions
<1> QED  BY <1>2, <1>3, <1>4

\* Applying an option puts every selector of its key in step, and leaves the
\* others as they are.
LEMMA ApplyDoes ==
    ASSUME PivotState, HiddenByOne, NEW s \in PivotHere, NEW id \in ValidOptions(s),
           PivotBecome(PivotApply(View, s, id)), UNCHANGED pivotPage
    PROVE  /\ pivotParams' = [pivotParams EXCEPT ![Key[s]] = id]
           /\ stored' = [stored EXCEPT ![Key[s]] = id]
           /\ pivotActive' \in [Selectors -> PivotNames]
           /\ \A t \in Selectors : pivotActive'[t] \in AllOptions(t) \union {PivotNone}
           /\ HiddenByOne'
           /\ \A t \in PivotHere : Key[t] # Key[s] /\ InStep(t) /\ UNCHANGED wish[Key[t]] => InStep(t)'
           /\ \A t \in PivotHere :
                Key[t] = Key[s] /\ wish'[Key[s]] \in {id, PivotNone} => pivotActive'[t] = id /\ InStep(t)'
<1> USE PageKinds
<1>1. /\ pivotParams' = [pivotParams EXCEPT ![Key[s]] = id]
      /\ stored' = [stored EXCEPT ![Key[s]] = id]
      /\ pivotActive' = [other \in Selectors |->
                           IF other \in PivotHere /\ Key[other] = Key[s]
                           THEN IF id \in AllOptions(other) THEN id ELSE PivotNone
                           ELSE pivotActive[other]]
      /\ hidden' = {block \in Blocks[pivotPage] :
                      IF block \intersect AllOptions(s) # {} THEN id \notin block ELSE block \in hidden}
  BY DEF PivotBecome, PivotApply, View, HiddenBlocks
<1>2. /\ Key[s] = AspireLang => tabs' = id /\ apphostLang' = id
      /\ Key[s] # AspireLang => UNCHANGED <<tabs, apphostLang>>
  BY PivotAssumption DEF PivotBecome, PivotApply, View
<1>3. /\ pivotActive' \in [Selectors -> PivotNames]
      /\ \A t \in Selectors : pivotActive'[t] \in AllOptions(t) \union {PivotNone}
  BY <1>1 DEF PivotState, PivotNames
<1>4. HiddenByOne'
  BY <1>1 DEF HiddenByOne, PivotHere
<1>5. ASSUME NEW t \in PivotHere, Key[t] # Key[s], InStep(t), UNCHANGED wish[Key[t]]
      PROVE  InStep(t)'
  BY <1>1, <1>2, <1>5 DEF InStep, PivotState
<1>6. ASSUME NEW t \in PivotHere, Key[t] = Key[s], wish'[Key[s]] \in {id, PivotNone}
      PROVE  pivotActive'[t] = id /\ InStep(t)'
  BY <1>1, <1>2, <1>6 DEF InStep, PivotState
<1> QED  BY <1>1, <1>3, <1>4, <1>5, <1>6

\* A click on an option keeps the invariant of the pivots.
LEMMA ClickKeeps ==
    ASSUME PivotIInv, NEW s \in Selectors, NEW id \in AllOptions(s), PivotClick(s, id)
    PROVE  PivotIInv'
<1> USE PageKinds DEF PivotIInv
<1>1. s \in PivotHere /\ id \in ValidOptions(s) /\ UNCHANGED <<pivotPage, phase>>
      /\ PivotBecome(PivotApply(View, s, id)) /\ PivotOffered(id, Key[s])
      /\ wish' = [wish EXCEPT ![Key[s]] = id]
  BY DEF PivotClick, PivotOffered
<1>2. PivotState' /\ WishStored' /\ HiddenByOne'
  BY <1>1, ApplyDoes DEF PivotState, PivotHere, WishStored
<1>3. ASSUME NEW t \in Selectors, phase'[t] = "ready" PROVE InStep(t)'
  <2>1. t \in PivotHere /\ InStep(t)
    BY <1>1, <1>3 DEF PivotState
  <2> QED  BY <1>1, <2>1, ApplyDoes DEF PivotState
<1> QED  BY <1>2, <1>3

\* A selector is set to an option it offers.
LEMMA CurrentIsValid ==
    ASSUME NEW s \in Selectors
    PROVE  PivotCurrent(View, s) \in ValidOptions(s)
BY FirstIsValid, PivotAssumption DEF PivotCurrent

\* Loading a selector finds what is wished for of its key, or what another
\* selector of the key shows.
LEMMA CurrentIsWished ==
    ASSUME PivotIInv, NEW s \in PivotHere, NEW id, id = PivotCurrent(View, s)
    PROVE  /\ Wished(Key[s]) \in {id, PivotNone}
           /\ \A t \in PivotHere : phase[t] = "ready" /\ Key[t] = Key[s] =>
                /\ pivotActive[t] = id /\ wish[Key[s]] \in {id, PivotNone}
<1> USE PageKinds DEF PivotIInv
<1>1. \A o : PivotOffered(o, Key[s]) <=> o \in ValidOptions(s)
  BY DEF PivotOffered
<1>2. Wished(Key[s]) \in {id, PivotNone}
  BY <1>1 DEF Wished, PivotCurrent, View, WishStored, PivotState
<1>3. ASSUME NEW t \in PivotHere, phase[t] = "ready", Key[t] = Key[s]
      PROVE  pivotActive[t] = id /\ wish[Key[s]] \in {id, PivotNone}
  BY <1>3 DEF InStep, PivotCurrent, View, PivotState
<1> QED  BY <1>2, <1>3

\* The loading of a selector keeps the invariant.
LEMMA LoadKeeps ==
    ASSUME PivotIInv, NEW i \in DOMAIN PivotPages[pivotPage], Load(i)
    PROVE  PivotIInv'
<1> DEFINE s == PivotPages[pivotPage][i]
           id == PivotCurrent(View, s)
           first == \A other \in PivotHere : phase[other] = "ready" => Key[other] # Key[s]
<1> USE PageKinds DEF PivotIInv
<1>1. s \in PivotHere /\ s \in Selectors /\ id \in ValidOptions(s) /\ id # PivotNone
  BY CurrentIsValid
<1>2. /\ PivotBecome(PivotApply(View, s, id)) /\ UNCHANGED <<pivotPage, visits>>
      /\ phase' = [phase EXCEPT ![s] = "ready"]
      /\ wish' = IF first THEN [wish EXCEPT ![Key[s]] = Wished(Key[s])] ELSE wish
  BY <1>1 DEF Load, Initialize
<1>3. /\ Wished(Key[s]) \in {id, PivotNone}
      /\ ~first => wish[Key[s]] \in {id, PivotNone}
  BY <1>1, CurrentIsWished
<1> HIDE DEF s, id, first
<1>4. /\ wish'[Key[s]] \in {id, PivotNone} /\ wish' \in [Keys -> PivotNames]
      /\ \A key \in Keys : key # Key[s] => wish'[key] = wish[key]
  <2>1. Key[s] \in Keys /\ id \in PivotNames /\ PivotNone \in PivotNames /\ wish \in [Keys -> PivotNames]
    BY <1>1 DEF PivotState, PivotNames
  <2>2. CASE first
    BY <1>2, <1>3, <2>1, <2>2
  <2>3. CASE ~first
    BY <1>2, <1>3, <2>1, <2>3
  <2> QED  BY <2>2, <2>3
<1>5. PivotState' /\ WishStored' /\ HiddenByOne'
  BY <1>1, <1>2, <1>4, ApplyDoes DEF PivotState, PivotHere, WishStored
<1>6. ASSUME NEW t \in Selectors, phase'[t] = "ready" PROVE InStep(t)'
  <2>1. t \in PivotHere /\ (t = s \/ InStep(t))
    BY <1>1, <1>2, <1>6 DEF PivotState
  <2>2. CASE Key[t] = Key[s]
    BY <1>1, <1>2, <1>4, <2>1, <2>2, ApplyDoes
  <2>3. CASE Key[t] # Key[s]
    <3>1. UNCHANGED wish[Key[t]]
      BY <1>4, <2>1, <2>3
    <3> QED  BY <1>1, <1>2, <2>1, <2>3, <3>1, ApplyDoes
  <2> QED  BY <2>2, <2>3
<1> QED  BY <1>5, <1>6

\* So does a visit of a page.
LEMMA VisitKeeps ==
    ASSUME PivotIInv, NEW p \in DOMAIN PivotPages, NEW query \in Links, Visit(p, query)
    PROVE  PivotIInv'
<1>1. PivotState'
  <2>1. pivotParams' \in [Keys -> PivotNames] /\ pivotActive' \in [Selectors -> PivotNames]
        /\ phase' \in [Selectors -> {"idle", "connected", "ready"}]
    BY PivotAssumption DEF Visit, Empty, PivotNames
  <2>2. \A s \in Selectors : phase'[s] # "ready" /\ pivotActive'[s] = PivotNone
    BY DEF Visit, Empty
  <2> QED  BY <2>1, <2>2 DEF PivotIInv, Visit, PivotState
<1>2. \A s \in Selectors : phase'[s] # "ready"
  BY DEF Visit, Empty
<1> QED  BY <1>1, <1>2 DEF PivotIInv, Visit, WishStored, HiddenByOne

\* The selectors of one key, the blocks, the storage, the tabs and the language of the
\* document agree, and what the reader chose is what he finds on the next page.
THEOREM PivotsAreSafe == PivotSpec => [](PivotTypeOK /\ EverythingAgrees /\ LanguageFollows /\ ChoiceFollows)
<1>1. PivotInit => PivotIInv
  <2> SUFFICES ASSUME PivotInit PROVE PivotIInv
    OBVIOUS
  <2>1. pivotParams \in [Keys -> PivotNames] /\ pivotActive \in [Selectors -> PivotNames]
        /\ phase \in [Selectors -> {"idle", "connected", "ready"}]
    BY PivotAssumption DEF PivotInit, Empty, PivotNames
  <2>2. \A s \in Selectors : phase[s] # "ready" /\ pivotActive[s] = PivotNone
    BY DEF PivotInit, Empty
  <2>3. stored \in [Keys -> PivotNames] /\ wish \in [Keys -> PivotNames] /\ \A key \in Keys : wish[key] = PivotNone
    BY DEF PivotInit, PivotNames
  <2> QED  BY <2>1, <2>2, <2>3 DEF PivotInit, PivotIInv, PivotState, WishStored, HiddenByOne
<1>2. PivotIInv /\ [PivotNext]_pivotVars => PivotIInv'
  <2> SUFFICES ASSUME PivotIInv, [PivotNext]_pivotVars PROVE PivotIInv'
    OBVIOUS
  <2>1. CASE UNCHANGED pivotVars
    BY <2>1 DEF pivotVars, PivotIInv, PivotState, WishStored, HiddenByOne, InStep, PivotHere
  <2> QED  BY <2>1, LoadKeeps, ClickKeeps, VisitKeeps DEF PivotNext
<1>3. PivotInit => visits \in 1 .. MaxVisits
  BY PivotAssumption DEF PivotInit
<1>4. visits \in 1 .. MaxVisits /\ [PivotNext]_pivotVars => (visits \in 1 .. MaxVisits)'
  <2>1. [PivotNext]_pivotVars => UNCHANGED visits \/ (visits < MaxVisits /\ visits' = visits + 1)
    BY DEF PivotNext, pivotVars, Load, PivotClick, Visit
  <2> QED  BY <2>1, PivotAssumption
<1>5. ASSUME PivotIInv, visits \in 1 .. MaxVisits
      PROVE  PivotTypeOK /\ EverythingAgrees /\ LanguageFollows /\ ChoiceFollows
  <2> USE <1>5, PageKinds DEF PivotIInv, PivotState
  <2>1. PivotTypeOK
    BY DEF PivotTypeOK
  <2>2. EverythingAgrees
    BY DEF EverythingAgrees, Ready, InStep, HiddenByOne
  <2>3. LanguageFollows
    BY DEF LanguageFollows, InStep
  <2>4. ChoiceFollows
    BY DEF ChoiceFollows, Ready, InStep
  <2> QED  BY <2>1, <2>2, <2>3, <2>4
<1> QED  BY <1>1, <1>2, <1>3, <1>4, <1>5, PTL DEF PivotSpec

-----------------------------------------------------------------------------
(* What is activated by the viewport.                                      *)

TargetStates == [activated : BOOLEAN, active : BOOLEAN, ready : BOOLEAN, timer : BOOLEAN]

\* clearFailSafe stops the delay and nothing else.
LEMMA ClearedKinds ==
    ASSUME NEW state \in TargetStates
    PROVE  /\ ClearFailSafe(state) \in TargetStates
           /\ ClearFailSafe(state).activated = state.activated
           /\ ClearFailSafe(state).active = state.active
           /\ ~ClearFailSafe(state).ready /\ ~ClearFailSafe(state).timer
BY DEF ClearFailSafe, TargetStates

\* What one look at a target makes of it.
LEMMA EvaluatedDoes ==
    ASSUME NEW t \in Observed, states[t] \in TargetStates
    PROVE  /\ Evaluated(t) \in TargetStates
           /\ Evaluated(t).active <=> Evaluated(t).activated /\ (ObserverOf[t] \in Once \/ Intersects(t))
           /\ states[t].activated => Evaluated(t).activated
           /\ Evaluated(t).activated /\ ~states[t].activated => PresentationReady(t)
           /\ \/ Evaluated(t).ready = states[t].ready /\ Evaluated(t).timer = states[t].timer
                 /\ states[t].activated
              \/ ~Evaluated(t).ready /\ ~Evaluated(t).timer
              \/ /\ FailSafeEligible(t) /\ ~Evaluated(t).activated
                 /\ Evaluated(t).ready = states[t].ready
                 /\ Evaluated(t).timer <=> states[t].timer \/ ~states[t].ready
<1> DEFINE state == states[t]
           looked == IF state.activated THEN state
                  ELSE IF PresentationReady(t) /\ ThresholdReached(t)
                  THEN [ClearFailSafe(state) EXCEPT !.activated = TRUE]
                  ELSE IF ObserverOf[t] \in RequireComplete /\ FailSafeEligible(t)
                  THEN [state EXCEPT !.timer = @ \/ ~state.ready]
                  ELSE ClearFailSafe(state)
           active == looked.activated /\ (ObserverOf[t] \in Once \/ Intersects(t))
<1>1. Evaluated(t) = [looked EXCEPT !.active = active]
  BY DEF Evaluated
<1>2. /\ looked \in TargetStates
      /\ looked.activated => state.activated \/ PresentationReady(t)
      /\ state.activated => looked = state
      /\ \/ looked = state /\ state.activated
         \/ ~looked.ready /\ ~looked.timer
         \/ /\ FailSafeEligible(t) /\ ~looked.activated
            /\ looked.ready = state.ready /\ (looked.timer <=> state.timer \/ ~state.ready)
  <2> HIDE DEF state
  <2>1. CASE state.activated
    BY <2>1 DEF state
  <2>2. CASE ~state.activated /\ PresentationReady(t) /\ ThresholdReached(t)
    BY <2>2, ClearedKinds DEF state, TargetStates
  <2>3. CASE /\ ~state.activated /\ ~(PresentationReady(t) /\ ThresholdReached(t))
             /\ ObserverOf[t] \in RequireComplete /\ FailSafeEligible(t)
    BY <2>3 DEF state, TargetStates
  <2>4. CASE /\ ~state.activated /\ ~(PresentationReady(t) /\ ThresholdReached(t))
             /\ ~(ObserverOf[t] \in RequireComplete /\ FailSafeEligible(t))
    BY <2>4, ClearedKinds DEF state, TargetStates
  <2> QED  BY <2>1, <2>2, <2>3, <2>4
<1> HIDE DEF looked
<1>3. active \in BOOLEAN
  BY <1>2
<1>4. /\ Evaluated(t) \in TargetStates /\ (Evaluated(t).active <=> active)
      /\ Evaluated(t).activated = looked.activated /\ Evaluated(t).ready = looked.ready
      /\ Evaluated(t).timer = looked.timer
  <2> HIDE DEF active
  <2> QED  BY <1>1, <1>2, <1>3 DEF TargetStates
<1>5. Evaluated(t).active <=> Evaluated(t).activated /\ (ObserverOf[t] \in Once \/ Intersects(t))
  BY <1>4
<1> HIDE DEF active
<1> QED  BY <1>2, <1>4, <1>5

ViewportState ==
    /\ Observed \subseteq Targets
    /\ \A t \in Observed : states[t] \in TargetStates /\ ObserverOf[t] \notin disconnected
    /\ viewportTold \in [Targets -> BOOLEAN]
    /\ viewportFrame \intersect disconnected = {}

\* What is known of an observed target: its caller heard how it stands; it is up
\* to date, or about to be looked at; its delay is about the present view; and
\* what was to happen once has not happened yet.
TargetOK(t) ==
    /\ viewportTold[t] <=> states[t].active
    /\ ObserverOf[t] \notin viewportFrame => (states[t].active <=> states[t].activated /\ Intersects(t))
    /\ states[t].timer \/ states[t].ready => /\ FailSafeEligible(t) /\ ~states[t].activated
                                            /\ ~(states[t].timer /\ states[t].ready)
    /\ states[t].activated /\ ObserverOf[t] \in WaitForReveal => t \in settled
    /\ ObserverOf[t] \in Once => ~states[t].activated /\ ~states[t].active

ViewportIInv == ViewportState /\ RevealedFirst /\ \A t \in Observed : TargetOK(t)

\* A target that is observed anew keeps the invariant of the viewport.
LEMMA ObserveKeeps ==
    ASSUME ViewportIInv, NEW t \in Targets, Observe(t)
    PROVE  ViewportIInv'
<1> USE DEF ViewportIInv
<1>1. /\ t \notin Observed /\ Observed' = Observed \union {t}
      /\ \A u \in Observed' : states'[u] = IF u = t THEN [activated |-> FALSE, active |-> FALSE,
                                                         ready |-> FALSE, timer |-> FALSE]
                                         ELSE states[u]
      /\ viewportFrame' = viewportFrame \union ({ObserverOf[t]} \ disconnected)
      /\ viewportTold' = [viewportTold EXCEPT ![t] = FALSE]
      /\ ObserverOf[t] \notin disconnected
      /\ UNCHANGED <<viewportView, settled, disconnected>>
  BY DEF Observe, Observed, Refreshed
<1>2. ViewportState' /\ RevealedFirst'
  <2>1. states'[t] \in TargetStates /\ \A u \in Observed : states'[u] \in TargetStates
    <3>1. [activated |-> FALSE, active |-> FALSE, ready |-> FALSE, timer |-> FALSE] \in TargetStates
      BY DEF TargetStates
    <3>2. states'[t] \in TargetStates
      BY <1>1, <3>1
    <3>3. \A u \in Observed : states'[u] = states[u]
      BY <1>1
    <3> QED  BY <3>2, <3>3 DEF ViewportState
  <2>2. viewportTold' \in [Targets -> BOOLEAN]
    BY <1>1 DEF ViewportState
  <2>3. ViewportState'
    BY <1>1, <2>1, <2>2 DEF ViewportState
  <2>4. \A u \in Targets : viewportTold'[u] => viewportTold[u]
    BY <1>1 DEF ViewportState
  <2> QED  BY <1>1, <2>3, <2>4 DEF RevealedFirst
<1>3. ASSUME NEW u \in Observed' PROVE TargetOK(u)'
  <2>1. CASE u = t
    BY <1>1, <2>1 DEF TargetOK, ViewportState, Intersects
  <2>2. CASE u # t
    BY <1>1, <2>2 DEF TargetOK, ViewportState, Intersects, FailSafeEligible
  <2> QED  BY <2>1, <2>2
<1> QED  BY <1>2, <1>3

\* Targets that are no longer observed do.
LEMMA LeavingKeeps ==
    ASSUME ViewportIInv, NEW leaving,
           states' = Without(leaving), viewportFrame' \subseteq viewportFrame,
           disconnected' = disconnected \/ (\E o : disconnected' = disconnected \union {o} /\ Of(o) \subseteq leaving),
           viewportFrame' \intersect disconnected' = {},
           \A t \in Observed \ leaving : ObserverOf[t] \in viewportFrame => ObserverOf[t] \in viewportFrame',
           UNCHANGED <<viewportView, settled, viewportTold>>
    PROVE  ViewportIInv'
<1> USE DEF ViewportIInv
<1>1. Observed' = Observed \ leaving /\ \A u \in Observed' : states'[u] = states[u]
  BY DEF Without, Observed
<1>2. ViewportState' /\ RevealedFirst'
  BY <1>1 DEF ViewportState, RevealedFirst, Of
<1>3. ASSUME NEW u \in Observed' PROVE TargetOK(u)'
  BY <1>1 DEF TargetOK, Intersects, FailSafeEligible
<1> QED  BY <1>2, <1>3

\* A scroll does,
LEMMA ScrollKeeps ==
    ASSUME ViewportIInv, NEW t \in Targets, NEW level \in Levels, ViewportScroll(t, level)
    PROVE  ViewportIInv'
<1> USE DEF ViewportIInv
<1>1. /\ Observed' = Observed
      /\ \A u \in Observed : states'[u] = IF states[u].activated THEN states[u] ELSE ClearFailSafe(states[u])
      /\ viewportFrame' = viewportFrame \union (Observers \ disconnected)
      /\ UNCHANGED <<settled, disconnected, viewportTold>>
  BY DEF ViewportScroll, Observed, Refreshed
<1>2. ASSUME NEW u \in Observed
      PROVE  /\ states'[u] \in TargetStates /\ ~states'[u].ready /\ ~states'[u].timer
             /\ states'[u].activated = states[u].activated /\ states'[u].active = states[u].active
  BY <1>1, ClearedKinds DEF ViewportState, TargetOK, TargetStates
<1>3. ViewportState' /\ RevealedFirst'
  BY <1>1, <1>2 DEF ViewportState, RevealedFirst
<1>4. ASSUME NEW u \in Observed' PROVE TargetOK(u)'
  <2>1. ObserverOf[u] \in viewportFrame'
    BY <1>1, ObserversAssumption DEF ViewportState
  <2> QED  BY <1>1, <1>2, <2>1 DEF TargetOK
<1> QED  BY <1>3, <1>4

\* a reveal that settles,
LEMMA SettleKeeps ==
    ASSUME ViewportIInv, NEW t \in Targets, ViewportSettle(t)
    PROVE  ViewportIInv'
BY DEF ViewportIInv, ViewportSettle, ViewportState, RevealedFirst, TargetOK, Refreshed, Observed,
       Intersects, FailSafeEligible

\* the look at the targets of an observer,
LEMMA EvaluateKeeps ==
    ASSUME ViewportIInv, NEW o \in Observers, Evaluate(o)
    PROVE  ViewportIInv'
<1> USE DEF ViewportIInv
<1> DEFINE changed == {t \in Of(o) : Evaluated(t).active # states[t].active}
           completed == {t \in Of(o) : o \in Once /\ Evaluated(t).activated}
           revealed == UNION {Reveals[t] : t \in changed}
<1>1. /\ Observed' = Observed \ completed
      /\ \A u \in Observed' : states'[u] = IF u \in Of(o) THEN Evaluated(u) ELSE states[u]
      /\ viewportTold' = [t \in Targets |-> IF t \in changed THEN Evaluated(t).active ELSE viewportTold[t]]
      /\ settled' = settled \union revealed
      /\ viewportFrame \ {o} \subseteq viewportFrame' /\ viewportFrame' \intersect disconnected = {}
      /\ UNCHANGED <<viewportView, disconnected>>
  BY DEF Evaluate, Observed, ViewportState
<1>2. \A u \in Of(o) : u \in Observed /\ u \in Targets /\ ObserverOf[u] = o /\ states[u] \in TargetStates
  BY DEF Of, ViewportState
<1>3. ASSUME NEW u \in Of(o)
      PROVE  /\ Evaluated(u).active \in BOOLEAN /\ viewportTold'[u] \in BOOLEAN
             /\ viewportTold'[u] <=> Evaluated(u).active
             /\ viewportTold'[u] /\ o \in WaitForReveal => u \in settled
  <2>1. Evaluated(u).active \in BOOLEAN /\ (viewportTold'[u] <=> Evaluated(u).active)
    BY <1>1, <1>2, EvaluatedDoes DEF TargetOK, TargetStates, ViewportState
  <2>2. Evaluated(u).active /\ o \in WaitForReveal => u \in settled
    BY <1>2, EvaluatedDoes DEF TargetOK, PresentationReady
  <2>3. viewportTold'[u] \in BOOLEAN
    BY <1>1, <1>2, <2>1 DEF ViewportState
  <2> QED  BY <2>1, <2>2, <2>3
<1>4. \A t \in Targets : t \notin Of(o) => viewportTold'[t] = viewportTold[t]
  BY <1>1
<1> HIDE DEF changed, completed, revealed
<1>5. viewportTold' \in [Targets -> BOOLEAN]
  <2>1. \A t \in Targets : viewportTold'[t] \in BOOLEAN
    BY <1>3, <1>4 DEF ViewportState
  <2> QED  BY <1>1, <2>1
<1>6. ViewportState'
  BY <1>1, <1>2, <1>5, EvaluatedDoes DEF ViewportState, completed
<1>7. RevealedFirst'
  BY <1>1, <1>2, <1>3, <1>4 DEF RevealedFirst
<1>8. ASSUME NEW u \in Observed' PROVE TargetOK(u)'
  <2>1. CASE u \notin Of(o)
    <3>1. ObserverOf[u] # o /\ u \in Observed /\ u \in Targets
      BY <1>1, <2>1 DEF Of, ViewportState
    <3> QED  BY <1>1, <1>4, <2>1, <3>1 DEF TargetOK, Intersects, FailSafeEligible
  <2>2. CASE u \in Of(o)
    <3>1. /\ states'[u] = Evaluated(u) /\ u \in Observed /\ ObserverOf[u] = o
          /\ o \in Once => ~Evaluated(u).activated
      BY <1>1, <1>2, <2>2 DEF completed
    <3>2. \/ Evaluated(u).ready = states[u].ready /\ Evaluated(u).timer = states[u].timer
             /\ states[u].activated
          \/ ~Evaluated(u).ready /\ ~Evaluated(u).timer
          \/ /\ FailSafeEligible(u) /\ ~Evaluated(u).activated
             /\ Evaluated(u).ready = states[u].ready
             /\ Evaluated(u).timer <=> states[u].timer \/ ~states[u].ready
      BY <1>2, <2>2, EvaluatedDoes
    <3>3. /\ Evaluated(u).active <=> Evaluated(u).activated /\ (o \in Once \/ Intersects(u))
          /\ Evaluated(u).activated /\ ~states[u].activated => PresentationReady(u)
      BY <1>2, <2>2, <3>1, EvaluatedDoes
    <3>4. Evaluated(u).timer \/ Evaluated(u).ready =>
            FailSafeEligible(u) /\ ~Evaluated(u).activated /\ ~(Evaluated(u).timer /\ Evaluated(u).ready)
      BY <3>1, <3>2 DEF TargetOK
    <3>5. Evaluated(u).activated /\ o \in WaitForReveal => u \in settled'
      BY <1>1, <3>1, <3>3 DEF TargetOK, PresentationReady
    <3> QED  BY <1>1, <1>3, <2>2, <3>1, <3>3, <3>4, <3>5 DEF TargetOK, Intersects, FailSafeEligible
  <2> QED  BY <2>1, <2>2
<1> QED  BY <1>6, <1>7, <1>8

\* and a delay that is over.
LEMMA FailSafeKeeps ==
    ASSUME ViewportIInv, NEW t \in Targets, FailSafe(t)
    PROVE  ViewportIInv'
<1> USE DEF ViewportIInv
<1>1. /\ t \in Observed /\ Observed' = Observed
      /\ \A u \in Observed \ {t} : states'[u] = states[u]
      /\ states'[t] \in TargetStates /\ states'[t].activated = states[t].activated
      /\ states'[t].active = states[t].active /\ states[t].timer
      /\ ~states'[t].timer /\ states'[t].ready
  BY DEF FailSafe, Observed, ViewportState, TargetStates
<1>2. /\ viewportFrame \subseteq viewportFrame' /\ viewportFrame' \intersect disconnected = {}
      /\ ObserverOf[t] \in viewportFrame'
      /\ UNCHANGED <<viewportView, settled, disconnected, viewportTold>>
  BY <1>1 DEF FailSafe, Refreshed, ViewportState
<1>3. ViewportState' /\ RevealedFirst'
  BY <1>1, <1>2 DEF ViewportState, RevealedFirst
<1>4. ASSUME NEW u \in Observed' PROVE TargetOK(u)'
  BY <1>1, <1>2 DEF TargetOK, Intersects, FailSafeEligible
<1> QED  BY <1>3, <1>4

\* So does every step.
LEMMA ViewportStep ==
    ViewportIInv /\ [ViewportNext]_viewportVars => ViewportIInv'
<1> SUFFICES ASSUME ViewportIInv, [ViewportNext]_viewportVars PROVE ViewportIInv'
  OBVIOUS
<1>1. ASSUME NEW t \in Targets, Unobserve(t) PROVE ViewportIInv'
  BY <1>1, LeavingKeeps DEF Unobserve, ViewportIInv, ViewportState
<1>2. ASSUME NEW o \in Observers, ViewportDisconnect(o) PROVE ViewportIInv'
  <2>1. \A t \in Observed \ Of(o) : ObserverOf[t] # o
    BY DEF Of
  <2>2. viewportFrame' \intersect disconnected' = {}
    BY <1>2 DEF ViewportDisconnect, ViewportIInv, ViewportState
  <2> QED  BY <1>2, <2>1, <2>2, LeavingKeeps DEF ViewportDisconnect
<1>3. CASE UNCHANGED viewportVars
  BY <1>3 DEF viewportVars, ViewportIInv, ViewportState, RevealedFirst, TargetOK, Observed,
              Intersects, FailSafeEligible
<1> QED
  BY <1>1, <1>2, <1>3, ObserveKeeps, ScrollKeeps, SettleKeeps, EvaluateKeeps, FailSafeKeeps
     DEF ViewportNext

\* Callers are told what is so, a delay is about the present view, and nothing that
\* waits for a reveal is activated before it.
THEOREM ViewportIsSafe ==
    ViewportSpec => [](ViewportTypeOK /\ ToldIsTrue /\ DelayIsCurrent /\ RevealedFirst)
<1>1. ViewportInit => ViewportIInv
  BY DEF ViewportInit, ViewportIInv, ViewportState, RevealedFirst, Observed
<1>2. ViewportIInv => ViewportTypeOK /\ ToldIsTrue /\ DelayIsCurrent /\ RevealedFirst
  BY DEF ViewportIInv, ViewportState, ViewportTypeOK, ToldIsTrue, DelayIsCurrent, TargetOK, TargetStates
<1> QED  BY <1>1, <1>2, ViewportStep, PTL DEF ViewportSpec

\* What is activated once stays so for its caller, unless it is observed anew.
THEOREM OnceIsOnce == ViewportSpec => OnceStays
<1>1. ViewportInit => ViewportIInv
  BY DEF ViewportInit, ViewportIInv, ViewportState, RevealedFirst, Observed
<1>2. ViewportIInv /\ [ViewportNext]_viewportVars =>
        [\A t \in Targets : ObserverOf[t] \in Once /\ viewportTold[t] /\ ~viewportTold'[t] =>
            t \notin Observed /\ t \in Observed']_viewportVars
  <2> SUFFICES ASSUME ViewportIInv, ViewportNext, NEW t \in Targets,
                      ObserverOf[t] \in Once, viewportTold[t], ~viewportTold'[t]
               PROVE  t \notin Observed /\ t \in Observed'
    OBVIOUS
  <2>1. t \notin Observed
    BY DEF ViewportIInv, TargetOK
  <2>2. ASSUME NEW u \in Targets, Observe(u) PROVE t \in Observed'
    BY <2>2 DEF Observe, Observed, ViewportIInv, ViewportState
  <2>3. ASSUME NEW o \in Observers, Evaluate(o) PROVE FALSE
    BY <2>1, <2>3 DEF Evaluate, Of
  <2> QED  BY <2>1, <2>2, <2>3 DEF ViewportNext, Unobserve, ViewportSettle, FailSafe, ViewportScroll, ViewportDisconnect
<1> QED  BY <1>1, <1>2, ViewportStep, PTL DEF ViewportSpec, OnceStays

-----------------------------------------------------------------------------
(* The banner.                                                             *)

(* Nothing that is stored as the first view is a time unless the banner    *)
(* was shown, and unless the clock was set back it is the first of these   *)
(* times.                                                                  *)
FirstViewKept ==
    /\ shownAt \in 1 .. MaxTime \cup {BannerNone}
    /\ firstSeen \in 1 .. MaxTime => shownAt # BannerNone
    /\ corrections = 0 /\ shownAt # BannerNone => shownAt <= now
    /\ corrections = 0 /\ shownAt # BannerNone /\ storage = "works" /\ DismissAfter # BannerNone
         => firstSeen = shownAt

(* What is stored of the dismissal is so, and where it can be stored it is.*)
DismissalKept ==
    /\ storage \in {"works", "full", "blocked"} /\ dismissed \in BOOLEAN /\ gone \in BOOLEAN
    /\ dismissed => gone
    /\ gone /\ storage = "works" => dismissed

BannerInv ==
    /\ corrections \in Nat
    /\ BannerTypeOK /\ FirstViewKept /\ DismissalKept /\ DismissedStays

\* What is read as the first view is a time that is not in the future.
LEMMA ViewIsTime ==
    ASSUME BannerInv
    PROVE  /\ SeenRead # BannerNone <=> storage # "blocked" /\ firstSeen \in 1 .. MaxTime /\ firstSeen <= now
           /\ SeenRead # BannerNone => SeenRead = firstSeen
           /\ now \in 1 .. MaxTime
<1>1. now \in 1 .. MaxTime /\ firstSeen \in Strange \cup {BannerNone} \cup 1 .. MaxTime /\ MaxTime \in Nat
  BY BannerAssumption DEF BannerInv, BannerTypeOK
<1>2. firstSeen \in Int /\ firstSeen > 0 <=> firstSeen \in 1 .. MaxTime
  <2>1. CASE firstSeen \in Strange
    <3>1. firstSeen \in Int => firstSeen <= 0
      BY <2>1, BannerAssumption
    <3> QED  BY <3>1, <1>1
  <2>2. CASE firstSeen = BannerNone
    BY <2>2, <1>1, BannerAssumption
  <2>3. CASE firstSeen \in 1 .. MaxTime
    BY <1>1, <2>3
  <2> QED  BY <1>1, <2>1, <2>2, <2>3
<1>3. firstSeen \in 1 .. MaxTime => firstSeen # BannerNone
  BY <1>1, BannerAssumption
<1>4. SeenRead = IF storage # "blocked" /\ firstSeen \in 1 .. MaxTime /\ firstSeen <= now
                 THEN firstSeen ELSE BannerNone
  BY <1>1, <1>2 DEF SeenRead, ParseFirstSeen
<1> QED  BY <1>1, <1>3, <1>4

\* The script before the paint and the controller decide alike.
LEMMA DecisionsMeet == BannerInv => DecisionsAgree
<1> SUFFICES ASSUME BannerInv PROVE DecisionsAgree
  OBVIOUS
<1>1. firstSeen \in Int /\ firstSeen > 0 /\ firstSeen <= now => firstSeen # BannerNone
  BY BannerAssumption
<1>2. AutoDismissed(SeenRead) <=>
        storage # "blocked" /\ DismissAfter # BannerNone /\ firstSeen \in Int
        /\ firstSeen > 0 /\ firstSeen <= now /\ now >= firstSeen + DismissAfter
  BY <1>1 DEF AutoDismissed, SeenRead, ParseFirstSeen
<1> QED  BY <1>2 DEF DecisionsAgree, PrepaintHides, ControllerShows, BannerVisible, DismissedRead

\* Every step keeps the invariant of the banner.
LEMMA BannerStep == BannerInv /\ [BannerNext]_bannerVars => BannerInv'
<1> SUFFICES ASSUME BannerInv, [BannerNext]_bannerVars PROVE BannerInv'
  OBVIOUS
<1>1. /\ corrections \in Nat /\ MaxTime \in Nat /\ now \in 1 .. MaxTime /\ BannerNone \notin Int
      /\ dismissed => gone
      /\ dismissed \in BOOLEAN /\ gone \in BOOLEAN
  BY BannerAssumption DEF BannerInv, BannerTypeOK, DismissalKept
<1>2. dismissed /\ storage # "blocked" => ~ControllerShows /\ PrepaintHides
  BY DEF ControllerShows, BannerVisible, DismissedRead, PrepaintHides
<1>3. CASE BannerVisit
  <2>1. UNCHANGED <<now, storage, corrections, firstSeen, dismissed, shownAt, gone>>
        /\ banner' \in {"open", "closed"} /\ ~collapsing'
    BY <1>3 DEF BannerVisit, reader
  <2>2. DismissedStays'
    BY <1>1, <1>2, <1>3, <2>1 DEF DismissedStays, BannerVisit, BannerInv, DismissalKept
  <2> QED  BY <2>1, <2>2 DEF BannerInv, BannerTypeOK, FirstViewKept, DismissalKept
<1>4. CASE InitializeBanner
  <2>1. UNCHANGED <<now, storage, corrections, dismissed, gone, collapsing>>
        /\ banner' \in {"open", "closed"} /\ wired'
    BY <1>4 DEF InitializeBanner, reader
  <2>2. DismissedStays'
    BY <1>1, <1>2, <1>4, <2>1 DEF DismissedStays, InitializeBanner, BannerInv, DismissalKept
  <2>3. firstSeen' \in {firstSeen, now} /\ shownAt' \in {shownAt, now}
        /\ (shownAt # BannerNone => shownAt' = shownAt)
        /\ (shownAt' # BannerNone => ControllerShows \/ shownAt # BannerNone)
    BY <1>4 DEF InitializeBanner
  <2>4. Persists(SeenRead, DismissedRead) <=>
          ControllerShows /\ DismissAfter # BannerNone /\ SeenRead = BannerNone
    BY DEF Persists, ControllerShows
  <2>5. FirstViewKept'
    <3>1. shownAt' \in 1 .. MaxTime \cup {BannerNone}
      BY <1>1, <2>3 DEF BannerInv, FirstViewKept
    <3>2. firstSeen' \in 1 .. MaxTime => shownAt' # BannerNone
      <4>1. CASE firstSeen' = firstSeen
        BY <2>3, <4>1 DEF BannerInv, FirstViewKept
      <4>2. CASE firstSeen' # firstSeen
        BY <1>1, <1>4, <2>4, <4>2 DEF InitializeBanner
      <4> QED  BY <4>1, <4>2
    <3>3. corrections' = 0 /\ shownAt' # BannerNone => shownAt' <= now'
      BY <1>1, <2>1, <2>3 DEF BannerInv, FirstViewKept
    <3>4. ASSUME corrections' = 0, shownAt' # BannerNone, storage' = "works", DismissAfter # BannerNone
          PROVE  firstSeen' = shownAt'
      <4>1. CASE shownAt # BannerNone
        <5>1. firstSeen = shownAt /\ shownAt <= now /\ shownAt \in 1 .. MaxTime
          BY <2>1, <3>4, <4>1 DEF BannerInv, FirstViewKept
        <5>2. SeenRead # BannerNone
          BY <2>1, <3>4, <5>1, ViewIsTime
        <5> QED  BY <1>4, <2>3, <2>4, <4>1, <5>1, <5>2 DEF InitializeBanner
      <4>2. CASE shownAt = BannerNone
        <5>1. firstSeen \notin 1 .. MaxTime
          BY <4>2 DEF BannerInv, FirstViewKept
        <5>2. SeenRead = BannerNone
          BY <5>1, ViewIsTime
        <5> QED  BY <1>4, <2>1, <2>3, <2>4, <3>4, <4>2, <5>2 DEF InitializeBanner
      <4> QED  BY <4>1, <4>2
    <3> QED  BY <3>1, <3>2, <3>3, <3>4 DEF FirstViewKept
  <2> QED  BY <1>1, <2>1, <2>2, <2>3, <2>5 DEF BannerInv, BannerTypeOK, DismissalKept
<1>5. CASE BannerDismiss
  BY <1>1, <1>5 DEF BannerDismiss, reader, BannerInv, BannerTypeOK, FirstViewKept, DismissalKept, DismissedStays
<1>6. CASE FinishCollapse
  BY <1>1, <1>6 DEF FinishCollapse, reader, BannerInv, BannerTypeOK, FirstViewKept, DismissalKept, DismissedStays
<1>7. CASE Tick
  <2>1. now' \in 1 .. MaxTime /\ now <= now'
    BY <1>1, <1>7 DEF Tick
  <2>2. UNCHANGED <<storage, corrections, firstSeen, dismissed, banner, wired, collapsing, decided, shownAt, gone>>
    BY <1>7 DEF Tick
  <2>3. shownAt \in Nat /\ shownAt <= now => shownAt <= now'
    BY <1>1, <2>1
  <2>4. FirstViewKept'
    BY <1>1, <2>2, <2>3 DEF BannerInv, FirstViewKept
  <2> QED  BY <2>1, <2>2, <2>4 DEF BannerInv, BannerTypeOK, DismissalKept, DismissedStays
<1>8. CASE CorrectClock
  <2>1. now' \in 1 .. MaxTime /\ corrections' \in Nat /\ corrections' # 0
    BY <1>1, <1>8 DEF CorrectClock
  <2>2. UNCHANGED <<storage, firstSeen, dismissed, banner, wired, collapsing, decided, shownAt, gone>>
    BY <1>8 DEF CorrectClock
  <2> QED  BY <2>1, <2>2 DEF BannerInv, BannerTypeOK, FirstViewKept, DismissalKept, DismissedStays
<1>9. CASE UNCHANGED bannerVars
  BY <1>9 DEF bannerVars, BannerInv, BannerTypeOK, FirstViewKept, DismissalKept, DismissedStays
<1> QED  BY <1>3, <1>4, <1>5, <1>6, <1>7, <1>8, <1>9 DEF BannerNext

\* So do the beginnings.
LEMMA BannerInitInv == BannerInit => BannerInv
<1> SUFFICES ASSUME BannerInit PROVE BannerInv
  OBVIOUS
<1>1. now = 1 /\ 1 \in 1 .. MaxTime /\ firstSeen \in Strange \cup {BannerNone}
  BY BannerAssumption DEF BannerInit
<1>2. firstSeen \notin 1 .. MaxTime
  <2>1. \A raw \in 1 .. MaxTime : raw \in Int /\ ~(raw <= 0)
    BY BannerAssumption
  <2> QED  BY <1>1, <2>1, BannerAssumption
<1>3. BannerTypeOK
  BY <1>1 DEF BannerInit, BannerTypeOK
<1>4. FirstViewKept
  BY <1>2 DEF BannerInit, FirstViewKept
<1> QED  BY <1>3, <1>4 DEF BannerInit, BannerInv, DismissalKept, DismissedStays

\* It holds in every behaviour.
LEMMA BannerInvariant == BannerSpec => []BannerInv
BY BannerInitInv, BannerStep, PTL DEF BannerSpec

\* Nothing is painted that is then removed, no reader misses the banner, and a
\* dismissed one stays away where the storage works, for every date, delay and clock.
THEOREM BannerIsSafe == BannerSpec => [](BannerTypeOK /\ DecisionsAgree /\ NotMissed /\ DismissedStays)
<1>1. ASSUME BannerInv PROVE NotMissed
  <2> SUFFICES ASSUME ~gone, ~DateExpired, shownAt = BannerNone PROVE ControllerShows
    BY DEF NotMissed
  <2>1. SeenRead = BannerNone
    BY <1>1, ViewIsTime DEF BannerInv, FirstViewKept
  <2>2. ~DismissedRead
    BY <1>1 DEF BannerInv, DismissalKept, DismissedRead
  <2> QED  BY <2>1, <2>2 DEF ControllerShows, BannerVisible, AutoDismissed
<1>2. BannerInv => BannerTypeOK /\ DecisionsAgree /\ NotMissed /\ DismissedStays
  BY <1>1, DecisionsMeet DEF BannerInv
<1> QED  BY <1>2, BannerInvariant, PTL

\* No page shows the banner after its date, nor after its window where the storage
\* works and the clock is not set back.
THEOREM BannerIsKept == BannerSpec => [][WindowIsKept /\ SunsetHides]_bannerVars
<1>1. ASSUME BannerInv, BannerNext PROVE WindowIsKept /\ SunsetHides
  <2>1. SunsetHides
    <3>1. DateExpired => ~ControllerShows
      BY DEF ControllerShows, BannerVisible
    <3> QED  BY <1>1, <3>1 DEF SunsetHides, BannerNext, BannerVisit, InitializeBanner, BannerDismiss,
                              FinishCollapse, Tick, CorrectClock
  <2>2. ASSUME banner' = "open", shownAt # BannerNone, corrections = 0, storage = "works",
               DismissAfter # BannerNone, banner # "open" \/ (decided' /\ ~decided)
        PROVE  now < shownAt + DismissAfter
    <3>1. ControllerShows
      <4>1. BannerVisit \/ InitializeBanner
        BY <1>1, <2>2 DEF BannerNext, BannerDismiss, FinishCollapse, Tick, CorrectClock
      <4>2. BannerVisit => ~PrepaintHides
        BY <2>2 DEF BannerVisit
      <4>3. InitializeBanner => ControllerShows
        BY <2>2 DEF InitializeBanner
      <4> QED  BY <1>1, <4>1, <4>2, <4>3, DecisionsMeet DEF DecisionsAgree
    <3>2. firstSeen = shownAt /\ shownAt <= now /\ shownAt \in 1 .. MaxTime
      BY <1>1, <2>2 DEF BannerInv, FirstViewKept
    <3>3. SeenRead = shownAt /\ now \in 1 .. MaxTime
      BY <1>1, <2>2, <3>2, ViewIsTime
    <3>4. ~(now >= shownAt + DismissAfter)
      BY <2>2, <3>1, <3>3 DEF ControllerShows, BannerVisible, AutoDismissed
    <3>5. now \in Int /\ shownAt \in Int /\ DismissAfter \in Int
      BY <2>2, <3>2, <3>3, BannerAssumption
    <3> QED  BY <3>4, <3>5
  <2> QED  BY <2>1, <2>2 DEF WindowIsKept
<1>2. BannerInv /\ [BannerNext]_bannerVars => [WindowIsKept /\ SunsetHides]_bannerVars
  BY <1>1
<1> QED  BY <1>2, BannerInvariant, PTL DEF BannerSpec

-----------------------------------------------------------------------------
(* The preview of the builder.  A request notes what is wanted and what is *)
(* to be announced together; whatever the loop was doing, it ends with     *)
(* both, and without motion it ends at the next wait.                      *)

EditorFields == {"wanted", "current", "target", "stale", "shown", "lines", "pc", "loaded", "edits",
                 "typed", "ins", "del", "status", "pending", "announced"}

\* The announcement that waits is that of the last click.
Asked(s) == DOMAIN s = EditorFields /\ s.pending = s.wanted

\* A state at rest shows the last click, or says that the examples are missing.
RestsRight(s) ==
    s.pc = "idle" => \/ s.status = "error"
                     \/ s.current = s.wanted /\ (s.status = "updated" => s.announced = s.wanted)

\* What the helpers return, however far they get.
Leads(s) == Asked(s) /\ RestsRight(s) /\ (~motion => s.pc = "idle")

\* An attempt that is given up shows what is wanted.
LEMMA GiveUpDoes ==
    ASSUME NEW s, Asked(s)
    PROVE  Leads(GiveUp(s))
<1> DEFINE r == GiveUp(s)
<1>1. DOMAIN s = EditorFields /\ s.pending = s.wanted
  BY DEF Asked
<1>2. /\ DOMAIN r = EditorFields /\ r.pc = "idle" /\ r.status = "updated" /\ r.announced = s.pending
      /\ r.current = s.wanted /\ r.wanted = s.wanted /\ r.pending = s.pending
  BY <1>1 DEF EditorFields, GiveUp, Finish, Mounted
<1> QED  BY <1>1, <1>2 DEF Leads, Asked, RestsRight

\* Mounting a frame changes what is shown only.
LEMMA MountedDoes ==
    ASSUME NEW s, Asked(s), NEW c
    PROVE  Asked(Mounted(s, c)) /\ Mounted(s, c).pc = s.pc
<1>1. DOMAIN s = EditorFields /\ s.pending = s.wanted
  BY DEF Asked
<1> QED  BY <1>1 DEF EditorFields, Mounted, Asked

\* The loop ends with the last click, or goes on to an attempt.
LEMMA LoopDoes ==
    ASSUME NEW s, Asked(s)
    PROVE  Leads(Loop(s))
<1> DEFINE r == Loop(s)
<1>1. DOMAIN s = EditorFields /\ s.pending = s.wanted
  BY DEF Asked
<1>2. CASE s.current = s.wanted
  <2>1. r = Finish(s)
    BY <1>2 DEF Loop
  <2>2. /\ DOMAIN r = EditorFields /\ r.pc = "idle" /\ r.status = "updated" /\ r.announced = s.pending
        /\ r.current = s.current /\ r.wanted = s.wanted /\ r.pending = s.pending
    BY <1>1, <2>1 DEF EditorFields, Finish
  <2> QED  BY <1>1, <1>2, <2>2 DEF Leads, Asked, RestsRight
<1>3. CASE s.current # s.wanted /\ ~motion
  <2>1. r = GiveUp(s)
    BY <1>3 DEF Loop, GiveUp
  <2> QED  BY <2>1, GiveUpDoes
<1>4. CASE s.current # s.wanted /\ motion
  <2>1. PICK hunks : r = [s EXCEPT !.target = s.wanted, !.stale = FALSE,
          !.pc = IF s.current.lang # s.wanted.lang THEN "fadeOut" ELSE "edit",
          !.edits = hunks, !.typed = 0, !.ins = 0, !.del = 0]
    BY <1>4 DEF Loop
  <2>2. DOMAIN r = EditorFields /\ r.pc # "idle" /\ r.wanted = s.wanted /\ r.pending = s.pending
    BY <1>1, <2>1 DEF EditorFields
  <2> QED  BY <1>1, <1>4, <2>2 DEF Leads, Asked, RestsRight
<1> QED  BY <1>2, <1>3, <1>4

\* After an attempt the loop goes on.
LEMMA CompletedDoes ==
    ASSUME NEW s, Asked(s)
    PROVE  Leads(Completed(s))
<1>1. Asked([s EXCEPT !.current = s.target])
  BY DEF Asked, EditorFields
<1> QED  BY <1>1, LoopDoes DEF Completed

\* A line is inserted.
LEMMA InsertLineDoes ==
    ASSUME NEW s, Asked(s)
    PROVE  Asked(InsertLine(s)) /\ InsertLine(s).pc = "typing"
<1>1. PICK lines : InsertLine(s) = [s EXCEPT !.pc = "typing", !.typed = @ + 1, !.lines = lines]
  BY DEF InsertLine
<1> QED  BY <1>1 DEF Asked, EditorFields

\* The next edit, or the end of the attempt.
LEMMA NextEditDoes ==
    ASSUME NEW s, Asked(s)
    PROVE  Leads(NextEdit(s))
<1>1. CASE s.edits = <<>>
  <2>1. Asked([s EXCEPT !.shown = s.target]) /\ Asked(Mounted(s, s.target))
    BY MountedDoes DEF Asked, EditorFields
  <2>2. PICK t : Asked(t) /\ NextEdit(s) = Completed(t)
    BY <1>1, <2>1 DEF NextEdit
  <2> QED  BY <2>2, CompletedDoes
<1>2. CASE s.edits # <<>> /\ ~motion
  BY <1>2, GiveUpDoes DEF NextEdit
<1>3. CASE s.edits # <<>> /\ motion /\ Hunk(s).del > 0
  <2>1. NextEdit(s) = [s EXCEPT !.pc = "navigate"]
    BY <1>3 DEF NextEdit
  <2>2. Asked([s EXCEPT !.pc = "navigate"]) /\ [s EXCEPT !.pc = "navigate"].pc = "navigate"
    BY DEF Asked, EditorFields
  <2> QED  BY <1>3, <2>1, <2>2 DEF Leads, RestsRight
<1>4. CASE s.edits # <<>> /\ motion /\ ~(Hunk(s).del > 0)
  <2>1. NextEdit(s) = InsertLine(s)
    BY <1>4 DEF NextEdit
  <2> QED  BY <1>4, <2>1, InsertLineDoes DEF Leads, RestsRight
<1> QED  BY <1>1, <1>2, <1>3, <1>4

\* A hunk is through.
LEMMA HunkDoneDoes ==
    ASSUME NEW s, Asked(s)
    PROVE  Leads(HunkDone(s))
<1>1. PICK edits, ins, del : HunkDone(s) = NextEdit([s EXCEPT !.edits = edits, !.typed = 0, !.ins = ins, !.del = del])
  BY DEF HunkDone
<1>2. Asked([s EXCEPT !.edits = edits, !.typed = 0, !.ins = ins, !.del = del])
  BY DEF Asked, EditorFields
<1> QED  BY <1>1, <1>2, NextEditDoes

\* The examples are there: the loop, and its first edit.
LEMMA BeginDoes ==
    ASSUME NEW s, Asked(s)
    PROVE  Leads(Begin(Loop(s)))
<1>1. Leads(Loop(s)) /\ Asked(Loop(s))
  BY LoopDoes DEF Leads
<1> QED  BY <1>1, NextEditDoes DEF Begin

\* A request is taken up, or left to the loop that runs.
LEMMA ProcessDoes ==
    ASSUME NEW s, Asked(s)
    PROVE  /\ Asked(Process(s)) /\ RestsRight(Process(s))
           /\ ~motion => Process(s).pc \in {"idle", "fetching", s.pc}
<1>1. CASE s.pc # "idle"
  BY <1>1 DEF Process, RestsRight
<1>2. CASE s.pc = "idle" /\ ~s.loaded
  <2>1. Process(s) = [s EXCEPT !.pc = "fetching"]
    BY <1>2 DEF Process
  <2>2. Asked([s EXCEPT !.pc = "fetching"]) /\ [s EXCEPT !.pc = "fetching"].pc = "fetching"
    BY DEF Asked, EditorFields
  <2> QED  BY <2>1, <2>2 DEF RestsRight
<1>3. CASE s.pc = "idle" /\ s.loaded
  <2>1. Process(s) = Begin(Loop(s))
    BY <1>3 DEF Process
  <2> QED  BY <2>1, BeginDoes DEF Leads
<1> QED  BY <1>1, <1>2, <1>3

EditorOK == Asked(e) /\ RestsRight(e)

\* What a step makes of the editor, and of one whose motion is off.
StepsTo(next) == Asked(next) /\ RestsRight(next) /\ (~motion => next.pc \in {"idle", "fetching", "rest", e.pc})

\* A click.
LEMMA RequestDoes ==
    ASSUME Asked(e), NEW c
    PROVE  StepsTo(EditorRequest(e, c))
<1> DEFINE s == [e EXCEPT !.wanted = c, !.stale = TRUE, !.pending = c]
<1>1. Asked(s) /\ s.pc = e.pc
  BY DEF Asked, EditorFields
<1>2. EditorRequest(e, c) = Process(s)
  BY DEF EditorRequest
<1> HIDE DEF s
<1> QED  BY <1>1, <1>2, ProcessDoes DEF StepsTo

\* What every step makes of the editor.
LEMMA EditorMoves ==
    ASSUME EditorOK, EditorNext
    PROVE  StepsTo(e') \/ e' = e \/ (e.pc = "fetching" /\ Asked(e') /\ RestsRight(e'))
<1>0. Asked(e) /\ RestsRight(e)
  BY DEF EditorOK
<1>a. \A s : Leads(s) => StepsTo(s)
  BY DEF Leads, StepsTo
<1>b. StepsTo(GiveUp(e))
  BY <1>0, <1>a, GiveUpDoes
<1>c. StepsTo(HunkDone(e))
  BY <1>0, <1>a, HunkDoneDoes
<1>d. StepsTo(Completed(e))
  BY <1>0, <1>a, CompletedDoes
<1>1. ASSUME NEW o \in EditorOptions, ClickOption(o) PROVE StepsTo(e')
  BY <1>0, <1>1, RequestDoes DEF ClickOption
<1>2. ASSUME NEW l \in Languages, ClickLanguage(l) PROVE StepsTo(e') \/ e' = e
  <2>1. StepsTo(Process(e))
    BY <1>0, ProcessDoes DEF StepsTo
  <2>2. PICK c : e' = EditorRequest(e, c) \/ e' = Process(e) \/ e' = e
    BY <1>2 DEF ClickLanguage
  <2>3. StepsTo(EditorRequest(e, c))
    BY <1>0, RequestDoes
  <2> QED  BY <2>1, <2>2, <2>3
<1>3. CASE SwitchMotion
  BY <1>3 DEF SwitchMotion
<1>4. CASE Fetched
  <2>1. Asked([e EXCEPT !.loaded = TRUE])
    BY <1>0 DEF Asked, EditorFields
  <2>2. Leads(Begin(Loop([e EXCEPT !.loaded = TRUE])))
    BY <2>1, BeginDoes
  <2>3. e' = Begin(Loop([e EXCEPT !.loaded = TRUE]))
    BY <1>4 DEF Fetched
  <2> QED  BY <1>4, <2>2, <2>3 DEF Fetched, Leads
<1>5. CASE FetchFailed
  <2>1. e' = [e EXCEPT !.pc = "idle", !.status = "error"]
    BY <1>5 DEF FetchFailed
  <2>2. Asked(e') /\ e'.pc = "idle" /\ e'.status = "error"
    BY <1>0, <2>1 DEF Asked, EditorFields
  <2> QED  BY <2>2 DEF StepsTo, RestsRight
<1>6. CASE TypeLine
  <2> DEFINE at == EditIndex(e) + e.typed - 1
             typed == [e EXCEPT !.pc = "rest", !.lines[at].full = TRUE]
  <2>1. e' = GiveUp(e) \/ e' = typed
    BY <1>6 DEF TypeLine
  <2>2. Asked(typed) /\ typed.pc = "rest"
    <3> HIDE DEF at
    <3> QED  BY <1>0 DEF Asked, EditorFields
  <2> HIDE DEF typed
  <2>3. StepsTo(typed)
    BY <2>2 DEF StepsTo, RestsRight
  <2> QED  BY <1>b, <2>1, <2>3
<1>7. CASE Rested
  <2>1. e' = GiveUp(e) \/ e' = HunkDone(e) \/ (motion /\ e' = InsertLine(e))
    BY <1>7 DEF Rested
  <2>2. motion => StepsTo(InsertLine(e))
    BY <1>0, InsertLineDoes DEF StepsTo, RestsRight
  <2> QED  BY <1>b, <1>c, <2>1, <2>2
<1>8. CASE FadedOut
  <2> DEFINE mounted == Mounted(e, e.target)
             faded == [mounted EXCEPT !.pc = "fadeIn"]
  <2>1. e' = Completed(mounted) \/ e' = GiveUp(e) \/ (motion /\ e' = faded)
    BY <1>8 DEF FadedOut
  <2>2. Asked(mounted)
    BY <1>0, MountedDoes
  <2> HIDE DEF mounted
  <2>3. StepsTo(Completed(mounted))
    BY <1>a, <2>2, CompletedDoes
  <2>4. Asked(faded) /\ faded.pc = "fadeIn"
    BY <2>2 DEF Asked, EditorFields
  <2> HIDE DEF faded
  <2>5. motion => StepsTo(faded)
    BY <2>4 DEF StepsTo, RestsRight
  <2> QED  BY <1>b, <2>1, <2>3, <2>5
<1>9. CASE FadedIn
  <2>1. e' = GiveUp(e) \/ e' = Completed(e)
    BY <1>9 DEF FadedIn
  <2> QED  BY <1>b, <1>d, <2>1
<1>10. CASE AnimationFails
  BY <1>10, <1>b DEF AnimationFails
<1>11. ASSUME NEW pc, NEW next, pc # "idle", next # "idle", Delete(pc, next) PROVE StepsTo(e')
  <2> DEFINE cut == [e EXCEPT !.lines = Replace(@, EditIndex(e), Hunk(e).del, <<>>)]
             on == [e EXCEPT !.pc = next]
             moved == [cut EXCEPT !.pc = "caret"]
  <2>1. e' = GiveUp(e) \/ (motion /\ e' = on) \/ (motion /\ e' = InsertLine(cut)) \/ (motion /\ e' = moved)
    BY <1>11 DEF Delete
  <2>2. Asked(cut)
    BY <1>0 DEF Asked, EditorFields
  <2> HIDE DEF cut
  <2>3. motion => StepsTo(InsertLine(cut))
    BY <2>2, InsertLineDoes DEF StepsTo, RestsRight
  <2>4. Asked(moved) /\ moved.pc = "caret"
    BY <2>2 DEF Asked, EditorFields
  <2>5. Asked(on) /\ on.pc = next
    BY <1>0 DEF Asked, EditorFields
  <2> HIDE DEF on, moved
  <2>6. motion => StepsTo(on) /\ StepsTo(moved)
    BY <1>11, <2>4, <2>5 DEF StepsTo, RestsRight
  <2> QED  BY <1>b, <2>1, <2>3, <2>6
<1>12. /\ Delete("navigate", "selecting") => StepsTo(e')
       /\ Delete("selecting", "removing") => StepsTo(e')
       /\ Delete("removing", "deleted") => StepsTo(e')
  <2>1. "navigate" # "idle" /\ "selecting" # "idle" /\ "removing" # "idle" /\ "deleted" # "idle"
    OBVIOUS
  <2> QED  BY <1>11, <2>1, Zenon
<1> QED  BY <1>1, <1>2, <1>3, <1>4, <1>5, <1>6, <1>7, <1>8, <1>9, <1>10, <1>12 DEF EditorNext, Step

\* The invariant of the preview holds.
LEMMA EditorInvariant == EditorSpec => []EditorOK
<1>1. EditorInit => EditorOK
  <2> SUFFICES ASSUME EditorInit PROVE EditorOK
    OBVIOUS
  <2>1. /\ DOMAIN e = EditorFields /\ e.pending = Start /\ e.wanted = Start /\ e.current = Start
        /\ e.status = "none"
    BY DEF EditorInit, EditorFields
  <2> QED  BY <2>1 DEF EditorOK, Asked, RestsRight
<1>2. EditorOK /\ [EditorNext]_editorVars => EditorOK'
  <2> SUFFICES ASSUME EditorOK, [EditorNext]_editorVars PROVE EditorOK'
    OBVIOUS
  <2>1. CASE e' = e
    BY <2>1 DEF EditorOK, Asked, RestsRight
  <2>2. CASE EditorNext /\ e' # e
    <3>1. Asked(e') /\ RestsRight(e')
      BY <2>2, EditorMoves DEF StepsTo
    <3> QED  BY <3>1 DEF EditorOK, Asked, RestsRight
  <2> QED  BY <2>1, <2>2 DEF editorVars
<1> QED  BY <1>1, <1>2, PTL DEF EditorSpec

THEOREM LastClickIsShown == EditorSpec => []LastClickWins
<1>1. EditorOK => LastClickWins
  BY DEF EditorOK, RestsRight, LastClickWins
<1> QED  BY <1>1, EditorInvariant, PTL

THEOREM MotionIsStopped == EditorSpec => MotionStops
<1>1. EditorOK /\ [EditorNext]_editorVars =>
        [e.pc # "fetching" /\ ~motion /\ e' # e => e'.pc \in {"idle", "fetching", "rest", e.pc}]_editorVars
  BY EditorMoves DEF StepsTo
<1> QED  BY <1>1, EditorInvariant, PTL DEF EditorSpec, MotionStops

-----------------------------------------------------------------------------
(* The languages of a document.  The visits are a path of includes; each   *)
(* has found what the nodes before its place give, and what is remembered  *)
(* of a document is all that it reaches.                                   *)

\* A place that is not behind the end.
LEMMA InRange ==
    ASSUME NEW a \in Nat \ {0}, NEW n \in Nat, a <= n
    PROVE  a \in 1 .. n
OBVIOUS

LNodes == [language : LanguagesLanguages \cup {""}, include : Fragments]

Frames == [id : Docs, at : Nat \ {0}, languages : SUBSET LanguagesLanguages]

LanguagesTypes ==
    /\ bodies \in [Docs -> Seq(LNodes)]
    /\ DOMAIN cache \subseteq Docs
    /\ \A doc \in DOMAIN cache : cache[doc] \in SUBSET LanguagesLanguages
    /\ stack \in Seq(Frames)
    /\ outcome \in {"", "failed"}

\* What the nodes of a document before one of them give.
GivenBefore(doc, at, texts, known) ==
    {texts[doc][k].language : k \in {j \in 1 .. at - 1 : texts[doc][j].language # ""}}
        \cup UNION {known[texts[doc][k].include] : k \in {j \in 1 .. at - 1 : texts[doc][j].language = ""}}

\* A visit has read the nodes before the one it is at.
Visited(visit, texts, known) ==
    /\ visit.id \notin DOMAIN known
    /\ visit.at <= Len(texts[visit.id]) + 1
    /\ \A k \in 1 .. visit.at - 1 :
          texts[visit.id][k].language = "" => texts[visit.id][k].include \in DOMAIN known
    /\ visit.languages = GivenBefore(visit.id, visit.at, texts, known)

\* It waits for a document that it includes.
WaitsFor(visit, doc, texts) ==
    /\ visit.at <= Len(texts[visit.id]) /\ texts[visit.id][visit.at].language = ""
    /\ texts[visit.id][visit.at].include = doc

AllVisited(frames, texts, known) ==
    /\ \A i \in 1 .. Len(frames) : Visited(frames[i], texts, known)
    /\ \A i \in 1 .. Len(frames) - 1 : WaitsFor(frames[i], frames[i + 1].id, texts)
    /\ \A i, j \in 1 .. Len(frames) : frames[i].id = frames[j].id => i = j

CacheComplete ==
    \A doc \in DOMAIN cache :
        /\ Sound(doc) /\ cache[doc] = UNION {Own(d) : d \in Reached(doc)}
        /\ Includes(doc) \subseteq DOMAIN cache

FailedAt ==
    outcome = "failed" =>
        /\ stack # <<>> /\ Top.at <= Len(bodies[Top.id]) /\ Node.language = ""
        /\ Node.include \notin Docs \/ Node.include \in Visiting

LanguagesInv ==
    /\ LanguagesTypes
    /\ CacheComplete
    /\ AllVisited(stack, bodies, cache)
    /\ FailedAt

\* The kinds of the documents and of the visits.
LEMMA StackTypes ==
    ASSUME LanguagesTypes
    PROVE  /\ DOMAIN stack = 1 .. Len(stack) /\ Len(stack) \in Nat
           /\ \A k \in DOMAIN stack :
                /\ stack[k] \in Frames /\ stack[k].id \in Docs /\ stack[k].at \in Nat \ {0}
                /\ stack[k].languages \in SUBSET LanguagesLanguages
           /\ \A doc \in Docs :
                /\ Len(bodies[doc]) \in Nat /\ DOMAIN bodies[doc] = 1 .. Len(bodies[doc])
                /\ \A k \in DOMAIN bodies[doc] : /\ bodies[doc][k].language \in LanguagesLanguages \cup {""}
                                                 /\ bodies[doc][k].include \in Fragments
<1>1. stack \in Seq(Frames)
  BY DEF LanguagesTypes
<1>2. DOMAIN stack = 1 .. Len(stack) /\ Len(stack) \in Nat
  BY <1>1, LenProperties
<1>3. \A k \in DOMAIN stack : stack[k] \in Frames
  BY <1>1, <1>2, ElementOfSeq
<1>4. ASSUME NEW doc \in Docs
      PROVE  /\ Len(bodies[doc]) \in Nat /\ DOMAIN bodies[doc] = 1 .. Len(bodies[doc])
             /\ \A k \in DOMAIN bodies[doc] : bodies[doc][k] \in LNodes
  <2>1. bodies[doc] \in Seq(LNodes)
    BY DEF LanguagesTypes
  <2>2. Len(bodies[doc]) \in Nat /\ DOMAIN bodies[doc] = 1 .. Len(bodies[doc])
    BY <2>1, LenProperties
  <2> QED  BY <2>1, <2>2, ElementOfSeq
<1> QED  BY <1>2, <1>3, <1>4 DEF Frames, LNodes

\* What is reached from a document, as the least set with it and all includes.
LEMMA ReachedIs ==
    ASSUME LanguagesTypes, NEW doc \in Docs
    PROVE  /\ Reached(doc) \subseteq Fragments /\ doc \in Reached(doc)
           /\ \A d \in Reached(doc) \cap Docs : Includes(d) \subseteq Reached(doc)
           /\ \A S \in SUBSET Fragments :
                doc \in S /\ (\A member \in S \cap Docs : Includes(member) \subseteq S) => Reached(doc) \subseteq S
<1>1. \A d \in Docs : Includes(d) \subseteq Fragments
  <2> SUFFICES ASSUME NEW d \in Docs, NEW j \in DOMAIN bodies[d] PROVE bodies[d][j].include \in Fragments
    BY DEF Includes
  <2>1. bodies[d] \in Seq(LNodes)
    BY DEF LanguagesTypes
  <2>2. j \in 1 .. Len(bodies[d])
    BY <2>1, LenProperties
  <2>3. bodies[d][j] \in LNodes
    BY <2>1, <2>2, ElementOfSeq
  <2> QED  BY <2>3 DEF LNodes
<1>2. doc \in Reached(doc)
  BY DEF Reached, Fragments
<1>3. ASSUME NEW d \in Reached(doc) \cap Docs, NEW x \in Includes(d) PROVE x \in Reached(doc)
  BY <1>1, <1>3 DEF Reached
<1>4. ASSUME NEW S \in SUBSET Fragments, doc \in S, \A member \in S \cap Docs : Includes(member) \subseteq S
      PROVE  Reached(doc) \subseteq S
  BY <1>4 DEF Reached
<1>5. Reached(doc) \subseteq Fragments
  BY DEF Reached
<1> QED  BY <1>2, <1>3, <1>4, <1>5

\* What is reached from what is reached.
LEMMA ReachedGrows ==
    ASSUME LanguagesTypes, NEW a \in Docs, NEW b \in Docs, b \in Reached(a)
    PROVE  Reached(b) \subseteq Reached(a)
<1>1. /\ Reached(a) \in SUBSET Fragments
      /\ \A d \in Reached(a) \cap Docs : Includes(d) \subseteq Reached(a)
  BY ReachedIs
<1> QED  BY <1>1, ReachedIs

\* Everything a remembered document reaches is remembered.
LEMMA CacheIsClosed ==
    ASSUME LanguagesTypes, CacheComplete, NEW doc \in DOMAIN cache
    PROVE  Reached(doc) \subseteq DOMAIN cache
<1>1. doc \in Docs /\ DOMAIN cache \in SUBSET Fragments
  BY DEF LanguagesTypes, Fragments
<1>2. \A d \in DOMAIN cache \cap Docs : Includes(d) \subseteq DOMAIN cache
  BY DEF CacheComplete
<1> QED  BY <1>1, <1>2, ReachedIs

\* A document whose includes are all remembered.
LEMMA AllIncluded ==
    ASSUME LanguagesTypes, CacheComplete, NEW t \in Docs, t \notin DOMAIN cache, Includes(t) \subseteq DOMAIN cache
    PROVE  /\ Reached(t) = {t} \cup UNION {Reached(f) : f \in Includes(t)}
           /\ Reached(t) \subseteq DOMAIN cache \cup {t}
           /\ Sound(t)
<1> DEFINE U == UNION {Reached(f) : f \in Includes(t)}
<1>1. Includes(t) \subseteq Docs /\ DOMAIN cache \subseteq Docs
  BY DEF LanguagesTypes
<1>2. U \subseteq DOMAIN cache
  BY CacheIsClosed
<1>3. {t} \cup U \in SUBSET Fragments
  BY <1>1, <1>2 DEF Fragments
<1>4. \A d \in ({t} \cup U) \cap Docs : Includes(d) \subseteq {t} \cup U
  <2>1. ASSUME NEW f \in Includes(t) PROVE f \in U
    BY <1>1, ReachedIs
  <2>2. ASSUME NEW f \in Includes(t), NEW d \in Reached(f) \cap Docs PROVE Includes(d) \subseteq U
    <3>1. Includes(d) \subseteq Reached(f)
      BY <1>1, ReachedIs
    <3> QED  BY <3>1
  <2> QED  BY <2>1, <2>2
<1>5. Reached(t) \subseteq {t} \cup U
  <2> HIDE DEF U
  <2> QED  BY <1>3, <1>4, ReachedIs
<1>6. {t} \cup U \subseteq Reached(t)
  <2>1. t \in Reached(t) /\ Includes(t) \subseteq Reached(t)
    BY ReachedIs
  <2>2. \A f \in Includes(t) : Reached(f) \subseteq Reached(t)
    BY <1>1, <2>1, ReachedGrows
  <2> QED  BY <2>1, <2>2
<1>7. Reached(t) = {t} \cup U
  BY <1>5, <1>6
<1>8. Sound(t)
  <2>1. Reached(t) \subseteq Docs
    BY <1>1, <1>2, <1>7
  <2>2. ASSUME NEW fragment \in Includes(t) PROVE t \notin Reached(fragment)
    BY CacheIsClosed
  <2>3. ASSUME NEW f \in Includes(t), NEW d \in Reached(f), NEW fragment \in Includes(d) PROVE d \notin Reached(fragment)
    BY DEF CacheComplete, Sound
  <2> QED  BY <1>7, <2>1, <2>2, <2>3 DEF Sound
<1> QED  BY <1>2, <1>7, <1>8

\* The documents that are being visited reach those above them.
LEMMA StackReaches ==
    ASSUME LanguagesTypes, AllVisited(stack, bodies, cache), NEW i \in DOMAIN stack, NEW j \in DOMAIN stack, i <= j
    PROVE  stack[j].id \in Reached(stack[i].id)
<1> DEFINE bad == {k \in Nat : k \in DOMAIN stack /\ i <= k /\ stack[k].id \notin Reached(stack[i].id)}
<1>0. DOMAIN stack = 1 .. Len(stack) /\ Len(stack) \in Nat /\ \A k \in 1 .. Len(stack) : stack[k].id \in Docs
  BY StackTypes
<1> SUFFICES ASSUME bad # {} PROVE FALSE
  BY <1>0
<1>1. PICK k \in bad : \A m \in bad : k <= m
  <2>1. bad \in SUBSET Nat
    OBVIOUS
  <2> HIDE DEF bad
  <2> QED  BY <2>1, LeastNatural
<1>2. k \in 1 .. Len(stack) /\ i <= k /\ stack[k].id \notin Reached(stack[i].id)
  BY <1>0, <1>1
<1>3. k # i
  BY <1>0, <1>2, ReachedIs
<1>4. k - 1 \in 1 .. Len(stack) /\ i <= k - 1 /\ k - 1 \in Nat /\ ~(k <= k - 1)
  BY <1>0, <1>2, <1>3
<1>5. stack[k - 1].id \in Reached(stack[i].id)
  BY <1>0, <1>1, <1>4
<1>6. stack[k].id \in Includes(stack[k - 1].id)
  <2>1. k - 1 \in 1 .. Len(stack) - 1 /\ (k - 1) + 1 = k
    BY <1>0, <1>2, <1>4
  <2> DEFINE visit == stack[k - 1]
             body == bodies[visit.id]
  <2>2. visit.at <= Len(body) /\ body[visit.at].language = "" /\ body[visit.at].include = stack[k].id
    BY <2>1 DEF AllVisited, WaitsFor
  <2>3. /\ visit.id \in Docs /\ visit.at \in Nat \ {0} /\ Len(body) \in Nat /\ DOMAIN body = 1 .. Len(body)
    BY <1>0, <1>4, StackTypes
  <2>4. visit.at \in DOMAIN body
    <3> DEFINE at == visit.at
               len == Len(body)
    <3>1. at \in Nat \ {0} /\ len \in Nat /\ at <= len
      BY <2>2, <2>3
    <3>2. at \in 1 .. len
      <4> HIDE DEF at, len
      <4> QED  BY <3>1, InRange
    <3> QED  BY <2>3, <3>2
  <2> QED  BY <2>2, <2>4 DEF Includes
<1> QED  BY <1>0, <1>2, <1>4, <1>5, <1>6, ReachedIs

\* The empty sequence has no place.
LEMMA NoneInEmpty == DOMAIN <<>> = {}
<1>1. <<>> \in Seq({}) /\ Len(<<>>) = 0
  BY EmptySeq
<1>2. DOMAIN <<>> = 1 .. 0
  BY <1>1, LenProperties
<1> QED  BY <1>2

\* A sequence that is not empty has a first and a last place.
LEMMA HasEnds ==
    ASSUME NEW S, NEW s \in Seq(S), s # <<>>
    PROVE  Len(s) \in Nat \ {0} /\ DOMAIN s = 1 .. Len(s) /\ Len(s) \in DOMAIN s /\ 1 \in DOMAIN s /\ 1 <= Len(s)
<1>1. Len(s) \in Nat /\ Len(s) # 0 /\ DOMAIN s = 1 .. Len(s)
  BY EmptySeq, LenProperties
<1>2. Len(s) \in 1 .. Len(s) /\ 1 \in 1 .. Len(s) /\ 1 <= Len(s)
  BY <1>1
<1> QED  BY <1>1, <1>2

\* The visit that is under way.
LEMMA TopIs ==
    ASSUME LanguagesInv, stack # <<>>
    PROVE  /\ stack \in Seq(Frames) /\ DOMAIN stack = 1 .. Len(stack) /\ Len(stack) \in Nat \ {0}
           /\ Len(stack) \in DOMAIN stack /\ 1 \in DOMAIN stack /\ 1 <= Len(stack)
           /\ Top = stack[Len(stack)] /\ Top \in Frames /\ Visited(Top, bodies, cache)
           /\ Top.id \in Docs /\ Top.at \in Nat \ {0} /\ Top.id \notin DOMAIN cache
           /\ Top.languages = GivenBefore(Top.id, Top.at, bodies, cache) /\ Top.at <= Len(bodies[Top.id]) + 1
           /\ Len(bodies[Top.id]) \in Nat /\ DOMAIN bodies[Top.id] = 1 .. Len(bodies[Top.id])
<1>1. LanguagesTypes /\ AllVisited(stack, bodies, cache)
  BY DEF LanguagesInv
<1>2. stack \in Seq(Frames)
  BY <1>1 DEF LanguagesTypes
<1>3. /\ DOMAIN stack = 1 .. Len(stack) /\ Len(stack) \in Nat \ {0}
      /\ Len(stack) \in DOMAIN stack /\ 1 \in DOMAIN stack /\ 1 <= Len(stack)
  BY <1>2, HasEnds
<1>4. Visited(stack[Len(stack)], bodies, cache)
  BY <1>1, <1>3 DEF AllVisited
<1>5. Top = stack[Len(stack)]
  BY DEF Top
<1>6. Top \in Frames /\ Top.id \in Docs /\ Top.at \in Nat \ {0}
  BY <1>1, <1>3, <1>5, StackTypes
<1>7. Len(bodies[Top.id]) \in Nat /\ DOMAIN bodies[Top.id] = 1 .. Len(bodies[Top.id])
  BY <1>1, <1>6, StackTypes
<1>8. /\ Top.id \notin DOMAIN cache /\ Top.languages = GivenBefore(Top.id, Top.at, bodies, cache) /\ Top.at <= Len(bodies[Top.id]) + 1
  BY <1>4, <1>5 DEF Visited
<1> QED  BY <1>2, <1>3, <1>4, <1>5, <1>6, <1>7, <1>8

\* An include the resolver has come to is one of the document it visits.
LEMMA NodeIs ==
    ASSUME LanguagesInv, stack # <<>>, Top.at <= Len(bodies[Top.id])
    PROVE  /\ Top.at \in DOMAIN bodies[Top.id] /\ Node \in LNodes
           /\ Node.language \in LanguagesLanguages \cup {""} /\ Node.include \in Fragments
           /\ Node.language = "" => Node.include \in Includes(Top.id)
<1> DEFINE at == Top.at
           body == bodies[Top.id]
           len == Len(body)
<1>1. /\ at \in Nat \ {0} /\ len \in Nat /\ at <= len /\ DOMAIN body = 1 .. len /\ Top.id \in Docs
  BY TopIs
<1>2. at \in DOMAIN body
  <2> HIDE DEF at, body, len
  <2> QED  BY <1>1, InRange
<1>3. LanguagesTypes /\ body \in Seq(LNodes)
  BY <1>1 DEF LanguagesInv, LanguagesTypes
<1>4. body[at] \in LNodes
  <2> HIDE DEF at, body, len
  <2>1. at \in 1 .. Len(body)
    BY <1>2, <1>3, LenProperties
  <2> QED  BY <1>3, <2>1, ElementOfSeq
<1>5. Node = body[at]
  BY DEF Node
<1> QED  BY <1>2, <1>4, <1>5 DEF Includes, LNodes

\* A build ends only for a document that cannot be resolved.
LEMMA FailureHasReason == LanguagesInv => FailsForAReason
<1> SUFFICES ASSUME LanguagesInv, outcome = "failed" PROVE ~Sound(stack[1].id)
  BY DEF FailsForAReason
<1>1. /\ LanguagesTypes /\ AllVisited(stack, bodies, cache)
      /\ stack # <<>> /\ Top.at <= Len(bodies[Top.id]) /\ Node.language = ""
      /\ (Node.include \notin Docs \/ Node.include \in Visiting)
  BY DEF LanguagesInv, FailedAt
<1> DEFINE n == Len(stack)
           inc == Node.include
<1>2. /\ DOMAIN stack = 1 .. n /\ n \in Nat /\ n \in DOMAIN stack /\ 1 \in DOMAIN stack /\ 1 <= n
      /\ Top = stack[n] /\ Top.id \in Docs
  BY <1>1, TopIs
<1>3. \A k \in DOMAIN stack : stack[k].id \in Docs
  BY <1>1, StackTypes
<1> HIDE DEF n
<1>4. Top.id \in Reached(stack[1].id)
  BY <1>1, <1>2, StackReaches
<1>5. inc \in Includes(Top.id)
  BY <1>1, NodeIs
<1>6. inc \in Reached(stack[1].id)
  <2>1. stack[1].id \in Docs
    BY <1>2, <1>3
  <2>2. \A d \in Reached(stack[1].id) \cap Docs : Includes(d) \subseteq Reached(stack[1].id)
    BY <1>1, <2>1, ReachedIs
  <2> HIDE DEF inc
  <2> QED  BY <1>2, <1>4, <1>5, <2>2
<1>7. CASE inc \notin Docs
  <2> HIDE DEF inc
  <2> QED  BY <1>6, <1>7 DEF Sound
<1>8. CASE inc \in Visiting
  <2> HIDE DEF inc
  <2>1. PICK i \in DOMAIN stack : stack[i].id = inc
    BY <1>8 DEF Visiting
  <2>2. i <= n
    BY <1>2
  <2>3. Top.id \in Reached(inc)
    BY <1>1, <1>2, <2>1, <2>2, StackReaches
  <2> QED  BY <1>4, <1>5, <2>3 DEF Sound
<1> QED  BY <1>1, <1>7, <1>8

\* Nothing is remembered at first, or visited.
LEMMA LanguagesStart == LanguagesInit => LanguagesInv
<1> SUFFICES ASSUME LanguagesInit PROVE LanguagesInv
  OBVIOUS
<1>1. bodies = [doc \in Docs |-> <<>>] /\ cache = <<>> /\ stack = <<>> /\ outcome = ""
  BY DEF LanguagesInit
<1>2. DOMAIN cache = {} /\ DOMAIN stack = {}
  BY <1>1, NoneInEmpty
<1>3. <<>> \in Seq(LNodes) /\ <<>> \in Seq(Frames)
  BY EmptySeq
<1>4. bodies \in [Docs -> Seq(LNodes)] /\ stack \in Seq(Frames)
  BY <1>1, <1>3
<1>5. LanguagesTypes
  BY <1>1, <1>2, <1>4 DEF LanguagesTypes
<1>6. CacheComplete /\ FailedAt
  BY <1>1, <1>2 DEF CacheComplete, FailedAt
<1>7. AllVisited(stack, bodies, cache)
  <2>1. Len(stack) = 0
    BY <1>1, EmptySeq
  <2> QED  BY <2>1 DEF AllVisited
<1> QED  BY <1>5, <1>6, <1>7 DEF LanguagesInv

\* Before anything is remembered or visited, anything may be written.
LEMMA WriteKeeps ==
    ASSUME LanguagesInv, NEW doc \in Docs, NEW node \in LNodes, LanguagesWrite(doc, node)
    PROVE  LanguagesInv'
<1>1. /\ stack = <<>> /\ outcome = "" /\ cache = <<>>
      /\ bodies' = [bodies EXCEPT ![doc] = Append(@, node)] /\ cache' = cache /\ stack' = stack /\ outcome' = outcome
  BY DEF LanguagesWrite, LanguagesIdle
<1>2. DOMAIN cache' = {} /\ DOMAIN stack' = {} /\ outcome' = ""
  BY <1>1, NoneInEmpty
<1>3. bodies' \in [Docs -> Seq(LNodes)] /\ stack' \in Seq(Frames)
  <2>1. bodies \in [Docs -> Seq(LNodes)]
    BY DEF LanguagesInv, LanguagesTypes
  <2>2. Append(bodies[doc], node) \in Seq(LNodes)
    BY <2>1, AppendProperties
  <2> QED  BY <1>1, <2>1, <2>2, EmptySeq
<1>4. LanguagesTypes'
  BY <1>2, <1>3 DEF LanguagesTypes
<1>5. CacheComplete' /\ FailedAt'
  BY <1>2 DEF CacheComplete, FailedAt
<1>6. AllVisited(stack, bodies, cache)'
  <2>1. Len(stack') = 0
    BY <1>1, EmptySeq
  <2> QED  BY <2>1 DEF AllVisited
<1> QED  BY <1>4, <1>5, <1>6 DEF LanguagesInv

\* The visit of a document that is visited anew.
LEMMA NewFrame ==
    ASSUME NEW doc \in Docs, NEW texts \in [Docs -> Seq(LNodes)], NEW known, doc \notin DOMAIN known,
           NEW visit, visit = [id |-> doc, at |-> 1, languages |-> {}]
    PROVE  visit \in Frames /\ visit.id = doc /\ Visited(visit, texts, known)
<1>1. visit.id = doc /\ visit.at = 1 /\ visit.languages = {}
  OBVIOUS
<1>2. visit \in Frames
  <2>1. 1 \in Nat \ {0}
    OBVIOUS
  <2> QED  BY <2>1 DEF Frames
<1>3. 1 <= Len(texts[doc]) + 1
  <2>1. texts[doc] \in Seq(LNodes)
    OBVIOUS
  <2>2. Len(texts[doc]) \in Nat
    BY <2>1, LenProperties
  <2> QED  BY <2>2
<1>4. 1 .. 1 - 1 = {}
  OBVIOUS
<1>5. GivenBefore(doc, 1, texts, known) = {}
  BY <1>4 DEF GivenBefore
<1> QED  BY <1>1, <1>2, <1>3, <1>4, <1>5 DEF Visited

\* A visit more.
LEMMA PushedIs ==
    ASSUME NEW frames \in Seq(Frames), NEW texts, NEW known, NEW visit \in Frames,
           AllVisited(frames, texts, known), Visited(visit, texts, known),
           \A i \in DOMAIN frames : frames[i].id # visit.id,
           frames # <<>> => WaitsFor(frames[Len(frames)], visit.id, texts)
    PROVE  /\ Append(frames, visit) \in Seq(Frames) /\ AllVisited(Append(frames, visit), texts, known)
<1> DEFINE new == Append(frames, visit)
           n == Len(frames)
<1>1. /\ new \in Seq(Frames) /\ Len(new) = n + 1
      /\ \A i \in 1 .. n : new[i] = frames[i]
      /\ new[n + 1] = visit
  BY AppendProperties
<1>2. n \in Nat /\ DOMAIN frames = 1 .. n
  BY LenProperties
<1>3. n # 0 => WaitsFor(frames[n], visit.id, texts)
  BY EmptySeq
<1>4. /\ \A i \in 1 .. n : Visited(frames[i], texts, known)
      /\ \A i \in 1 .. n - 1 : WaitsFor(frames[i], frames[i + 1].id, texts)
      /\ \A i, j \in 1 .. n : frames[i].id = frames[j].id => i = j
  BY DEF AllVisited
<1>5. \A i \in 1 .. n : frames[i].id # visit.id
  BY <1>2
<1> HIDE DEF new, n
<1>6. \A i \in 1 .. n + 1 : i \in 1 .. n \/ i = n + 1
  BY <1>2
<1>7. \A i \in 1 .. n + 1 : Visited(new[i], texts, known)
  BY <1>1, <1>4, <1>6
<1>8. ASSUME NEW i \in 1 .. (n + 1) - 1 PROVE WaitsFor(new[i], new[i + 1].id, texts)
  <2>1. i \in 1 .. n /\ n # 0 /\ (i = n \/ (i \in 1 .. n - 1 /\ i + 1 \in 1 .. n))
    BY <1>2
  <2>2. CASE i = n
    BY <1>1, <1>3, <2>1, <2>2
  <2>3. CASE i \in 1 .. n - 1 /\ i + 1 \in 1 .. n
    <3>1. new[i] = frames[i] /\ new[i + 1] = frames[i + 1]
      BY <1>1, <2>1, <2>3
    <3> QED  BY <1>4, <2>3, <3>1
  <2> QED  BY <2>1, <2>2, <2>3
<1>9. \A i, j \in 1 .. n + 1 : new[i].id = new[j].id => i = j
  BY <1>1, <1>4, <1>5, <1>6
<1>10. AllVisited(new, texts, known)
  BY <1>1, <1>7, <1>8, <1>9 DEF AllVisited
<1> QED  BY <1>1, <1>10 DEF new

\* A visit less: the one below it waited for it.
LEMMA PoppedIs ==
    ASSUME NEW frames \in Seq(Frames), NEW texts, NEW known, AllVisited(frames, texts, known), frames # <<>>,
           NEW rest, rest = SubSeq(frames, 1, Len(frames) - 1)
    PROVE  /\ rest \in Seq(Frames) /\ AllVisited(rest, texts, known)
           /\ \A i \in DOMAIN rest : rest[i].id # frames[Len(frames)].id
           /\ rest # <<>> => WaitsFor(rest[Len(rest)], frames[Len(frames)].id, texts)
<1> DEFINE n == Len(frames)
<1>1. n \in Nat \ {0} /\ DOMAIN frames = 1 .. n
  BY HasEnds
<1>2. \A i \in 1 .. n : frames[i] \in Frames
  BY ElementOfSeq
<1>3. /\ \A i \in 1 .. n : Visited(frames[i], texts, known)
      /\ \A i \in 1 .. n - 1 : WaitsFor(frames[i], frames[i + 1].id, texts)
      /\ \A i, j \in 1 .. n : frames[i].id = frames[j].id => i = j
  BY DEF AllVisited
<1>4. rest = SubSeq(frames, 1, n - 1)
  OBVIOUS
<1> HIDE DEF n
<1>5. /\ n - 1 \in Int /\ 1 \in Int /\ n \in 1 .. n /\ n - 1 \in Nat
      /\ \A i \in 1 .. n - 1 : i \in 1 .. n /\ i # n
      /\ (IF 1 <= n - 1 THEN (n - 1) - 1 + 1 ELSE 0) = n - 1 /\ (n - 1) - 1 + 1 = n - 1
      /\ (n - 1) + 1 = n
      /\ \A i \in Int : 1 + i - 1 = i
  BY <1>1
<1>6. /\ rest \in Seq(Frames) /\ Len(rest) = n - 1 /\ \A i \in 1 .. n - 1 : rest[i] = frames[i]
  <2>1. \A i \in 1 .. n - 1 : frames[i] \in Frames
    BY <1>2, <1>5
  <2>2. /\ SubSeq(frames, 1, n - 1) \in Seq(Frames)
        /\ Len(SubSeq(frames, 1, n - 1)) = IF 1 <= n - 1 THEN (n - 1) - 1 + 1 ELSE 0
        /\ \A i \in 1 .. (n - 1) - 1 + 1 : SubSeq(frames, 1, n - 1)[i] = frames[1 + i - 1]
    BY <1>5, <2>1, SubSeqProperties
  <2>3. \A i \in 1 .. n - 1 : 1 + i - 1 = i
    BY <1>5
  <2> QED  BY <1>4, <1>5, <2>2, <2>3
<1>7. DOMAIN rest = 1 .. n - 1
  BY <1>6, LenProperties
<1>8. \A i \in 1 .. n - 1 : Visited(rest[i], texts, known) /\ rest[i].id # frames[n].id
  BY <1>3, <1>5, <1>6
<1>9. ASSUME NEW i \in 1 .. (n - 1) - 1 PROVE WaitsFor(rest[i], rest[i + 1].id, texts)
  <2>1. i \in 1 .. n - 1 /\ i + 1 \in 1 .. n - 1
    BY <1>1
  <2> QED  BY <1>3, <1>6, <2>1
<1>10. \A i, j \in 1 .. n - 1 : rest[i].id = rest[j].id => i = j
  BY <1>3, <1>5, <1>6
<1>11. AllVisited(rest, texts, known)
  BY <1>6, <1>8, <1>9, <1>10 DEF AllVisited
<1>12. ASSUME rest # <<>> PROVE WaitsFor(rest[n - 1], frames[n].id, texts)
  <2>1. n - 1 \in 1 .. n - 1
    BY <1>6, <1>7, <1>12, HasEnds
  <2>2. WaitsFor(frames[n - 1], frames[(n - 1) + 1].id, texts)
    BY <1>3, <2>1
  <2> QED  BY <1>5, <1>6, <2>1, <2>2
<1> QED  BY <1>6, <1>7, <1>8, <1>11, <1>12 DEF n

\* The visit of a visit that has gone on to its next node.
NextFrame(visit, languages) == [visit EXCEPT !.at = @ + 1, !.languages = @ \union languages]

\* What the visit of a visit is afterwards.
LEMMA NextFrameIs ==
    ASSUME NEW visit \in Frames, NEW languages \in SUBSET LanguagesLanguages
    PROVE  /\ NextFrame(visit, languages) \in Frames
           /\ NextFrame(visit, languages).id = visit.id /\ NextFrame(visit, languages).at = visit.at + 1
           /\ NextFrame(visit, languages).languages = visit.languages \cup languages
<1>1. visit.at \in Nat \ {0} /\ visit.languages \in SUBSET LanguagesLanguages
  BY DEF Frames
<1>2. visit.at + 1 \in Nat \ {0} /\ visit.languages \cup languages \in SUBSET LanguagesLanguages
  BY <1>1
<1> QED  BY <1>2 DEF Frames, NextFrame

\* The visit that is under way goes on.
LEMMA AdvancedIs ==
    ASSUME NEW frames \in Seq(Frames), NEW texts, NEW known, AllVisited(frames, texts, known), frames # <<>>,
           NEW languages \in SUBSET LanguagesLanguages,
           Visited(NextFrame(frames[Len(frames)], languages), texts, known)
    PROVE  Advanced(frames, languages) \in Seq(Frames) /\ AllVisited(Advanced(frames, languages), texts, known)
<1> DEFINE n == Len(frames)
           last == frames[n]
           moved == [last EXCEPT !.at = @ + 1]
           next == NextFrame(last, languages)
           step == [frames EXCEPT ![n] = moved]
           new == [step EXCEPT ![n] = next]
<1>1. n \in Nat \ {0} /\ n \in 1 .. n /\ last \in Frames
  BY HasEnds, ElementOfSeq
<1>2. /\ next \in Frames /\ next.id = last.id
  BY <1>1, NextFrameIs
<1>3. moved \in Frames
  <2>1. last.at \in Nat \ {0}
    BY <1>1 DEF Frames
  <2>2. last.at + 1 \in Nat \ {0}
    BY <2>1
  <2> QED  BY <1>1, <2>2 DEF Frames
<1>4. Advanced(frames, languages) = new
  BY <1>1, LenProperties DEF Advanced, NextFrame
<1>5. Visited(next, texts, known)
  OBVIOUS
<1>6. /\ \A i \in 1 .. n : Visited(frames[i], texts, known)
      /\ \A i \in 1 .. n - 1 : WaitsFor(frames[i], frames[i + 1].id, texts)
      /\ \A i, j \in 1 .. n : frames[i].id = frames[j].id => i = j
  BY DEF AllVisited
<1> HIDE DEF next, moved
<1>7. /\ step \in Seq(Frames) /\ Len(step) = n
      /\ \A i \in 1 .. n : step[i] = IF i = n THEN moved ELSE frames[i]
  BY <1>1, <1>3, ExceptSeq
<1> HIDE DEF step
<1>8. /\ new \in Seq(Frames) /\ Len(new) = n
      /\ \A i \in 1 .. n : new[i] = IF i = n THEN next ELSE step[i]
  BY <1>1, <1>2, <1>7, ExceptSeq
<1> HIDE DEF new
<1>9. \A i \in 1 .. n : new[i] = (IF i = n THEN next ELSE frames[i]) /\ new[i].id = frames[i].id
  BY <1>2, <1>7, <1>8
<1> HIDE DEF n, last
<1>10. \A i \in 1 .. n : Visited(new[i], texts, known)
  BY <1>5, <1>6, <1>9
<1>11. ASSUME NEW i \in 1 .. n - 1 PROVE WaitsFor(new[i], new[i + 1].id, texts)
  <2>1. i \in 1 .. n /\ i # n /\ i + 1 \in 1 .. n
    BY <1>1
  <2>2. new[i] = frames[i] /\ new[i + 1].id = frames[i + 1].id
    BY <1>9, <2>1
  <2> QED  BY <1>6, <2>2
<1>12. \A i, j \in 1 .. n : new[i].id = new[j].id => i = j
  BY <1>6, <1>9
<1>13. AllVisited(new, texts, known)
  BY <1>8, <1>10, <1>11, <1>12 DEF AllVisited
<1> QED  BY <1>4, <1>8, <1>13

\* The numbers of one node more.
LEMMA OneFurther ==
    ASSUME NEW a \in Nat \ {0}, NEW b \in Nat, a <= b
    PROVE  /\ a + 1 <= b + 1 /\ a + 1 \in Nat
           /\ \A k \in 1 .. (a + 1) - 1 : k \in 1 .. a - 1 \/ k = a
OBVIOUS

\* One node more.
LEMMA OneMore ==
    ASSUME NEW doc, NEW at \in Nat \ {0}, NEW texts, NEW known
    PROVE  GivenBefore(doc, at + 1, texts, known) = GivenBefore(doc, at, texts, known)
               \cup (IF texts[doc][at].language # "" THEN {texts[doc][at].language} ELSE known[texts[doc][at].include])
<1> DEFINE body == texts[doc]
<1>1. 1 .. (at + 1) - 1 = (1 .. at - 1) \cup {at}
  OBVIOUS
<1>2. {j \in 1 .. (at + 1) - 1 : body[j].language # ""} =
          {j \in 1 .. at - 1 : body[j].language # ""} \cup (IF body[at].language # "" THEN {at} ELSE {})
  <2> HIDE DEF body
  <2> QED  BY <1>1
<1>3. {j \in 1 .. (at + 1) - 1 : body[j].language = ""} =
          {j \in 1 .. at - 1 : body[j].language = ""} \cup (IF body[at].language # "" THEN {} ELSE {at})
  <2> HIDE DEF body
  <2> QED  BY <1>1
<1> QED  BY <1>2, <1>3, ZenonT(60) DEF GivenBefore

\* A visit goes on with the languages of its node.
LEMMA GoesOn ==
    ASSUME NEW texts \in [Docs -> Seq(LNodes)], NEW known, NEW visit \in Frames, Visited(visit, texts, known),
           NEW languages \in SUBSET LanguagesLanguages, visit.at <= Len(texts[visit.id]),
           languages = (IF texts[visit.id][visit.at].language # "" THEN {texts[visit.id][visit.at].language}
                        ELSE known[texts[visit.id][visit.at].include]),
           texts[visit.id][visit.at].language = "" => texts[visit.id][visit.at].include \in DOMAIN known
    PROVE  Visited(NextFrame(visit, languages), texts, known)
<1> DEFINE new == NextFrame(visit, languages)
           at == visit.at
           id == visit.id
           len == Len(texts[id])
<1>1. /\ new.id = id /\ new.at = at + 1 /\ new.languages = visit.languages \cup languages
  BY NextFrameIs
<1>2. /\ id \notin DOMAIN known /\ at <= len + 1
      /\ \A k \in 1 .. at - 1 : texts[id][k].language = "" => texts[id][k].include \in DOMAIN known
      /\ visit.languages = GivenBefore(id, at, texts, known)
  BY DEF Visited
<1>3. id \in Docs /\ at \in Nat \ {0}
  BY DEF Frames
<1>4. len \in Nat /\ at <= len
  <2>1. texts[id] \in Seq(LNodes)
    BY <1>3
  <2> QED  BY <2>1, LenProperties
<1>5. /\ languages = (IF texts[id][at].language # "" THEN {texts[id][at].language} ELSE known[texts[id][at].include])
      /\ texts[id][at].language = "" => texts[id][at].include \in DOMAIN known
  OBVIOUS
<1> HIDE DEF new, at, id
<1>6. at + 1 <= Len(texts[id]) + 1
  <2> HIDE DEF len
  <2>1. at + 1 <= len + 1
    BY <1>3, <1>4, OneFurther
  <2> QED  BY <2>1 DEF len
<1>7. \A k \in 1 .. (at + 1) - 1 : k \in 1 .. at - 1 \/ k = at
  BY <1>3, <1>4, OneFurther
<1> HIDE DEF len
<1>8. \A k \in 1 .. (at + 1) - 1 : texts[id][k].language = "" => texts[id][k].include \in DOMAIN known
  BY <1>2, <1>5, <1>7
<1>9. new.languages = GivenBefore(id, at + 1, texts, known)
  <2>1. GivenBefore(id, at + 1, texts, known) = GivenBefore(id, at, texts, known)
               \cup (IF texts[id][at].language # "" THEN {texts[id][at].language} ELSE known[texts[id][at].include])
    BY <1>3, OneMore
  <2> QED  BY <1>1, <1>2, <1>5, <2>1
<1>10. Visited(new, texts, known)
  BY <1>1, <1>2, <1>6, <1>8, <1>9 DEF Visited
<1> QED  BY <1>10 DEF new

\* What is remembered besides changes nothing for the visits of other documents.
LEMMA KnowingMore ==
    ASSUME NEW texts, NEW known, NEW more, NEW doc, NEW visit, Visited(visit, texts, known), visit.id # doc,
           DOMAIN more = DOMAIN known \cup {doc}, \A d \in DOMAIN known : more[d] = known[d]
    PROVE  Visited(visit, texts, more)
<1>1. /\ visit.id \notin DOMAIN known /\ visit.at <= Len(texts[visit.id]) + 1
      /\ \A k \in 1 .. visit.at - 1 :
            texts[visit.id][k].language = "" => texts[visit.id][k].include \in DOMAIN known
      /\ visit.languages = GivenBefore(visit.id, visit.at, texts, known)
  BY DEF Visited
<1>2. \A k \in {j \in 1 .. visit.at - 1 : texts[visit.id][j].language = ""} :
          more[texts[visit.id][k].include] = known[texts[visit.id][k].include]
  <2> SUFFICES ASSUME NEW k \in 1 .. visit.at - 1, texts[visit.id][k].language = ""
               PROVE  more[texts[visit.id][k].include] = known[texts[visit.id][k].include]
    OBVIOUS
  <2>1. texts[visit.id][k].include \in DOMAIN known
    BY <1>1
  <2> QED  BY <2>1
<1>3. GivenBefore(visit.id, visit.at, texts, more) = GivenBefore(visit.id, visit.at, texts, known)
  <2> DEFINE own == {texts[visit.id][k].language : k \in {j \in 1 .. visit.at - 1 : texts[visit.id][j].language # ""}}
             places == {j \in 1 .. visit.at - 1 : texts[visit.id][j].language = ""}
             included(k) == texts[visit.id][k].include
  <2>1. \A k \in places : more[included(k)] = known[included(k)]
    BY <1>2
  <2>2. /\ GivenBefore(visit.id, visit.at, texts, more) = own \cup UNION {more[included(k)] : k \in places}
        /\ GivenBefore(visit.id, visit.at, texts, known) = own \cup UNION {known[included(k)] : k \in places}
    BY DEF GivenBefore
  <2> HIDE DEF own, places, included
  <2>3. {more[included(k)] : k \in places} = {known[included(k)] : k \in places}
    BY <2>1
  <2> QED  BY <2>2, <2>3
<1> QED  BY <1>1, <1>3 DEF Visited

\* What has been remembered stays right as long as the documents do.
LEMMA TextsStay ==
    ASSUME bodies' = bodies
    PROVE  /\ \A d : Includes(d)' = Includes(d) /\ Own(d)' = Own(d) /\ Reached(d)' = Reached(d)
           /\ \A d : Sound(d)' <=> Sound(d)
<1>1. \A d : Includes(d)' = Includes(d) /\ Own(d)' = Own(d)
  BY DEF Includes, Own
<1>2. \A d : Reached(d)' = Reached(d)
  BY <1>1 DEF Reached
<1>3. \A d : Sound(d)' <=> Sound(d)
  BY <1>1, <1>2 DEF Sound
<1> QED  BY <1>1, <1>2, <1>3

\* What was remembered well stays so.
LEMMA RememberedStays ==
    ASSUME CacheComplete, bodies' = bodies, cache' = cache
    PROVE  CacheComplete'
<1>1. \A doc \in DOMAIN cache : /\ Sound(doc) /\ cache[doc] = UNION {Own(d) : d \in Reached(doc)}
                                /\ Includes(doc) \subseteq DOMAIN cache
  BY DEF CacheComplete
<1>2. /\ \A d : Includes(d)' = Includes(d) /\ Own(d)' = Own(d) /\ Reached(d)' = Reached(d)
      /\ \A d : Sound(d)' <=> Sound(d)
  BY TextsStay
<1>3. ASSUME NEW doc \in DOMAIN cache
      PROVE  /\ Sound(doc)' /\ cache'[doc] = UNION {Own(d)' : d \in Reached(doc)'}
             /\ Includes(doc)' \subseteq DOMAIN cache'
  <2>1. UNION {Own(d)' : d \in Reached(doc)'} = UNION {Own(d) : d \in Reached(doc)}
    BY <1>2
  <2> QED  BY <1>1, <1>2, <2>1
<1>4. DOMAIN cache' = DOMAIN cache
  OBVIOUS
<1> QED  BY <1>3, <1>4 DEF CacheComplete

\* A visit more or a visit further: the rest of the invariant.
LEMMA StackMoves ==
    ASSUME LanguagesInv, bodies' = bodies, cache' = cache, outcome' = outcome, outcome = "",
           stack' \in Seq(Frames), AllVisited(stack', bodies, cache)
    PROVE  LanguagesInv'
<1>1. LanguagesTypes /\ CacheComplete
  BY DEF LanguagesInv
<1>2. LanguagesTypes'
  BY <1>1 DEF LanguagesTypes
<1>3. CacheComplete'
  BY <1>1, RememberedStays
<1>4. AllVisited(stack, bodies, cache)' /\ FailedAt'
  BY DEF FailedAt
<1> QED  BY <1>2, <1>3, <1>4 DEF LanguagesInv

\* A document is visited that is not visited yet.
LEMMA PushKeeps ==
    ASSUME LanguagesInv, NEW doc \in Docs, doc \notin DOMAIN cache, doc \notin Visiting, stack' = Pushed(doc),
           outcome = "", bodies' = bodies, cache' = cache, outcome' = outcome,
           stack # <<>> => WaitsFor(Top, doc, bodies)
    PROVE  LanguagesInv'
<1>1. bodies \in [Docs -> Seq(LNodes)] /\ stack \in Seq(Frames) /\ AllVisited(stack, bodies, cache)
  BY DEF LanguagesInv, LanguagesTypes
<1>2. PICK visit : visit = [id |-> doc, at |-> 1, languages |-> {}]
  OBVIOUS
<1>3. visit \in Frames /\ visit.id = doc /\ Visited(visit, bodies, cache)
  BY <1>1, <1>2, NewFrame
<1>4. stack' = Append(stack, visit)
  BY <1>2 DEF Pushed
<1>5. \A i \in DOMAIN stack : stack[i].id # visit.id
  BY <1>3 DEF Visiting
<1>6. stack # <<>> => WaitsFor(stack[Len(stack)], visit.id, bodies)
  BY <1>3 DEF Top
<1>7. Append(stack, visit) \in Seq(Frames) /\ AllVisited(Append(stack, visit), bodies, cache)
  BY <1>1, <1>3, <1>5, <1>6, PushedIs
<1> QED  BY <1>4, <1>7, StackMoves

\* The catalog asks for a document.
LEMMA ResolveKeeps ==
    ASSUME LanguagesInv, NEW doc \in Docs, Resolve(doc)
    PROVE  LanguagesInv'
<1>1. /\ stack = <<>> /\ outcome = "" /\ doc \notin DOMAIN cache /\ stack' = Pushed(doc)
      /\ bodies' = bodies /\ cache' = cache /\ outcome' = outcome
  BY DEF Resolve, LanguagesIdle
<1>2. doc \notin Visiting
  BY <1>1, NoneInEmpty DEF Visiting
<1> QED  BY <1>1, <1>2, PushKeeps

\* A block of code.
LEMMA VisitCodeKeeps ==
    ASSUME LanguagesInv, VisitCode
    PROVE  LanguagesInv'
<1>1. /\ outcome = "" /\ stack # <<>> /\ Top.at <= Len(bodies[Top.id]) /\ Node.language # ""
      /\ stack' = Advanced(stack, {Node.language})
      /\ bodies' = bodies /\ cache' = cache /\ outcome' = outcome
  BY DEF VisitCode
<1>2. bodies \in [Docs -> Seq(LNodes)] /\ stack \in Seq(Frames) /\ AllVisited(stack, bodies, cache)
  BY DEF LanguagesInv, LanguagesTypes
<1>3. Top = stack[Len(stack)] /\ Top \in Frames /\ Visited(Top, bodies, cache)
  BY <1>1, TopIs
<1>4. {Node.language} \in SUBSET LanguagesLanguages
  BY <1>1, NodeIs
<1>5. Node = bodies[Top.id][Top.at]
  BY DEF Node
<1>6. Visited(NextFrame(Top, {Node.language}), bodies, cache)
  BY <1>1, <1>2, <1>3, <1>4, <1>5, GoesOn
<1>7. /\ Advanced(stack, {Node.language}) \in Seq(Frames)
      /\ AllVisited(Advanced(stack, {Node.language}), bodies, cache)
  BY <1>1, <1>2, <1>3, <1>4, <1>6, AdvancedIs
<1> QED  BY <1>1, <1>7, StackMoves

\* An include, whatever becomes of it.
LEMMA EnterIncludeKeeps ==
    ASSUME LanguagesInv, EnterInclude
    PROVE  LanguagesInv'
<1>1. /\ outcome = "" /\ stack # <<>> /\ Top.at <= Len(bodies[Top.id]) /\ Node.language = ""
      /\ bodies' = bodies /\ cache' = cache
  BY DEF EnterInclude
<1>2. /\ LanguagesTypes /\ CacheComplete
      /\ bodies \in [Docs -> Seq(LNodes)] /\ stack \in Seq(Frames) /\ AllVisited(stack, bodies, cache)
  BY DEF LanguagesInv, LanguagesTypes
<1>3. Top = stack[Len(stack)] /\ Top \in Frames /\ Visited(Top, bodies, cache)
  BY <1>1, TopIs
<1>4. Node = bodies[Top.id][Top.at]
  BY DEF Node
<1>5. CASE Node.include \in DOMAIN cache
  <2>1. stack' = Advanced(stack, cache[Node.include]) /\ outcome' = outcome
    BY <1>5 DEF EnterInclude
  <2>2. cache[Node.include] \in SUBSET LanguagesLanguages
    BY <1>2, <1>5 DEF LanguagesTypes
  <2>3. Visited(NextFrame(Top, cache[Node.include]), bodies, cache)
    BY <1>1, <1>2, <1>3, <1>4, <1>5, <2>2, GoesOn
  <2>4. /\ Advanced(stack, cache[Node.include]) \in Seq(Frames)
        /\ AllVisited(Advanced(stack, cache[Node.include]), bodies, cache)
    BY <1>1, <1>2, <1>3, <2>2, <2>3, AdvancedIs
  <2> QED  BY <1>1, <2>1, <2>4, StackMoves
<1>6. CASE Node.include \notin DOMAIN cache /\ (Node.include \notin Docs \/ Node.include \in Visiting)
  <2>1. outcome' = "failed" /\ stack' = stack
    BY <1>6 DEF EnterInclude
  <2>2. LanguagesTypes'
    BY <1>1, <1>2, <2>1 DEF LanguagesTypes
  <2>3. CacheComplete'
    BY <1>1, <1>2, RememberedStays
  <2>4. FailedAt'
    BY <1>1, <1>6, <2>1 DEF FailedAt, Top, Node, Visiting
  <2>5. AllVisited(stack, bodies, cache)'
    BY <1>1, <1>2, <2>1
  <2> QED  BY <2>2, <2>3, <2>4, <2>5 DEF LanguagesInv
<1>7. CASE Node.include \notin DOMAIN cache /\ Node.include \in Docs /\ Node.include \notin Visiting
  <2>1. stack' = Pushed(Node.include) /\ outcome' = outcome
    BY <1>7 DEF EnterInclude
  <2>2. WaitsFor(Top, Node.include, bodies)
    BY <1>1, <1>4 DEF WaitsFor
  <2> QED  BY <1>1, <1>7, <2>1, <2>2, PushKeeps
<1> QED  BY <1>5, <1>6, <1>7

\* A document that is through has found all that it reaches.
LEMMA AllFound ==
    ASSUME LanguagesInv, stack # <<>>, Top.at > Len(bodies[Top.id])
    PROVE  /\ Includes(Top.id) \subseteq DOMAIN cache
           /\ Top.languages = Own(Top.id) \cup UNION {cache[f] : f \in Includes(Top.id)}
<1> DEFINE at == Top.at
           id == Top.id
           body == bodies[id]
           len == Len(body)
<1>1. /\ at \in Nat \ {0} /\ len \in Nat /\ at <= len + 1 /\ at > len /\ DOMAIN body = 1 .. len
      /\ Visited(Top, bodies, cache)
  BY TopIs
<1>2. 1 .. at - 1 = DOMAIN body
  <2> HIDE DEF at, body, len
  <2>1. at = len + 1
    BY <1>1
  <2> QED  BY <1>1, <2>1
<1>3. /\ \A k \in 1 .. at - 1 : body[k].language = "" => body[k].include \in DOMAIN cache
      /\ Top.languages = GivenBefore(id, at, bodies, cache)
  BY <1>1 DEF Visited
<1>4. Top.languages = {body[k].language : k \in {j \in 1 .. at - 1 : body[j].language # ""}}
            \cup UNION {cache[body[k].include] : k \in {j \in 1 .. at - 1 : body[j].language = ""}}
  BY <1>3 DEF GivenBefore
<1>5. Own(id) = {body[k].language : k \in DOMAIN body} \ {""}
  BY DEF Own
<1>6. Includes(id) = {body[k].include : k \in {j \in DOMAIN body : body[j].language = ""}}
  BY DEF Includes
<1> HIDE DEF at, id, body, len
<1>7. Includes(id) \subseteq DOMAIN cache
  BY <1>2, <1>3, <1>6
<1>8. {body[k].language : k \in {j \in 1 .. at - 1 : body[j].language # ""}} = Own(id)
  BY <1>2, <1>5
<1>9. UNION {cache[body[k].include] : k \in {j \in 1 .. at - 1 : body[j].language = ""}}
          = UNION {cache[f] : f \in Includes(id)}
  BY <1>2, <1>6
<1> QED  BY <1>4, <1>7, <1>8, <1>9 DEF id

\* A document that is through is remembered as it should be.
LEMMA FinishRemembers ==
    ASSUME LanguagesInv, LanguagesFinish
    PROVE  /\ CacheComplete' /\ DOMAIN cache' = DOMAIN cache \cup {Top.id} /\ cache'[Top.id] = Top.languages
           /\ \A d \in DOMAIN cache : cache'[d] = cache[d]
<1> DEFINE id == Top.id
           found == Top.languages
<1>1. /\ stack # <<>> /\ Top.at > Len(bodies[id]) /\ bodies' = bodies
      /\ cache' = [doc \in DOMAIN cache \cup {id} |-> IF doc = id THEN found ELSE cache[doc]]
  BY DEF LanguagesFinish
<1>2. id \in Docs /\ id \notin DOMAIN cache /\ LanguagesTypes /\ CacheComplete
  BY <1>1, TopIs DEF LanguagesInv
<1>3. Includes(id) \subseteq DOMAIN cache /\ found = Own(id) \cup UNION {cache[f] : f \in Includes(id)}
  BY <1>1, AllFound
<1> HIDE DEF id, found
<1>4. /\ Reached(id) = {id} \cup UNION {Reached(f) : f \in Includes(id)}
      /\ Sound(id)
  BY <1>2, <1>3, AllIncluded
<1>5. \A doc \in DOMAIN cache : /\ Sound(doc) /\ cache[doc] = UNION {Own(d) : d \in Reached(doc)}
                                /\ Includes(doc) \subseteq DOMAIN cache
  BY <1>2 DEF CacheComplete
<1>6. found = UNION {Own(d) : d \in Reached(id)}
  <2>1. UNION {Own(d) : d \in Reached(id)} = Own(id) \cup UNION {UNION {Own(d) : d \in Reached(f)} : f \in Includes(id)}
    BY <1>4
  <2>2. {UNION {Own(d) : d \in Reached(f)} : f \in Includes(id)} = {cache[f] : f \in Includes(id)}
    BY <1>3, <1>5
  <2> QED  BY <1>3, <2>1, <2>2
<1>7. /\ DOMAIN cache' = DOMAIN cache \cup {id} /\ cache'[id] = found
      /\ \A d \in DOMAIN cache : cache'[d] = cache[d]
  BY <1>1, <1>2
<1>8. /\ \A d : Includes(d)' = Includes(d) /\ Own(d)' = Own(d) /\ Reached(d)' = Reached(d)
      /\ \A d : Sound(d)' <=> Sound(d)
  BY <1>1, TextsStay
<1>9. \A doc \in DOMAIN cache' : /\ Sound(doc) /\ cache'[doc] = UNION {Own(d) : d \in Reached(doc)}
                                 /\ Includes(doc) \subseteq DOMAIN cache'
  BY <1>3, <1>4, <1>5, <1>6, <1>7
<1>10. ASSUME NEW doc \in DOMAIN cache'
       PROVE  /\ Sound(doc)' /\ cache'[doc] = UNION {Own(d)' : d \in Reached(doc)'}
              /\ Includes(doc)' \subseteq DOMAIN cache'
  <2>1. UNION {Own(d)' : d \in Reached(doc)'} = UNION {Own(d) : d \in Reached(doc)}
    BY <1>8
  <2> QED  BY <1>8, <1>9, <2>1
<1>11. CacheComplete'
  BY <1>10 DEF CacheComplete
<1> QED  BY <1>7, <1>11 DEF id, found

\* A document is through, and the one that includes it goes on.
LEMMA FinishKeeps ==
    ASSUME LanguagesInv, LanguagesFinish
    PROVE  LanguagesInv'
<1> DEFINE n == Len(stack)
           id == Top.id
           found == Top.languages
<1>1. /\ outcome = "" /\ stack # <<>> /\ bodies' = bodies /\ outcome' = outcome
  BY DEF LanguagesFinish
<1>2. /\ LanguagesTypes /\ bodies \in [Docs -> Seq(LNodes)] /\ stack \in Seq(Frames)
      /\ AllVisited(stack, bodies, cache)
  BY DEF LanguagesInv, LanguagesTypes
<1>3. /\ Top = stack[n] /\ Top \in Frames /\ id \in Docs
  BY <1>1, TopIs
<1>4. found \in SUBSET LanguagesLanguages
  BY <1>3 DEF Frames
<1>5. /\ CacheComplete' /\ DOMAIN cache' = DOMAIN cache \cup {id} /\ cache'[id] = found
      /\ \A d \in DOMAIN cache : cache'[d] = cache[d]
  BY FinishRemembers
<1>6. PICK rest : rest = SubSeq(stack, 1, n - 1)
  OBVIOUS
<1>7. stack' = IF rest = <<>> THEN <<>> ELSE Advanced(rest, found)
  BY <1>6 DEF LanguagesFinish
<1>8. /\ rest \in Seq(Frames) /\ AllVisited(rest, bodies, cache)
      /\ \A i \in DOMAIN rest : rest[i].id # id
      /\ rest # <<>> => WaitsFor(rest[Len(rest)], id, bodies)
  BY <1>1, <1>2, <1>3, <1>6, PoppedIs
<1> HIDE DEF n, id, found
<1>9. AllVisited(rest, bodies, cache')
  <2>1. DOMAIN rest = 1 .. Len(rest)
    BY <1>8, LenProperties
  <2>2. \A i \in 1 .. Len(rest) : Visited(rest[i], bodies, cache) /\ rest[i].id # id
    BY <1>8, <2>1 DEF AllVisited
  <2>3. \A i \in 1 .. Len(rest) : Visited(rest[i], bodies, cache')
    BY <1>5, <2>2, KnowingMore
  <2> QED  BY <1>8, <2>3 DEF AllVisited
<1>10. stack' \in Seq(Frames) /\ AllVisited(stack', bodies, cache')
  <2>1. CASE rest = <<>>
    BY <1>7, <1>8, <1>9, <2>1
  <2>2. CASE rest # <<>>
    <3>1. PICK last : last = rest[Len(rest)]
      OBVIOUS
    <3>2. /\ Len(rest) \in DOMAIN rest /\ Len(rest) \in 1 .. Len(rest)
      BY <1>8, <2>2, HasEnds
    <3>3. last \in Frames /\ Visited(last, bodies, cache')
      BY <1>8, <1>9, <3>1, <3>2, ElementOfSeq DEF AllVisited
    <3>4. /\ last.at <= Len(bodies[last.id]) /\ bodies[last.id][last.at].language = ""
          /\ bodies[last.id][last.at].include = id
      BY <1>8, <2>2, <3>1 DEF WaitsFor
    <3>5. id \in DOMAIN cache' /\ cache'[id] = found
      BY <1>5
    <3>6. Visited(NextFrame(last, found), bodies, cache')
      BY <1>2, <1>4, <3>3, <3>4, <3>5, GoesOn
    <3>7. Advanced(rest, found) \in Seq(Frames) /\ AllVisited(Advanced(rest, found), bodies, cache')
      BY <1>4, <1>8, <1>9, <2>2, <3>1, <3>6, AdvancedIs
    <3> QED  BY <1>7, <2>2, <3>7
  <2> QED  BY <2>1, <2>2
<1>11. LanguagesTypes'
  <2>1. DOMAIN cache' \subseteq Docs
    BY <1>2, <1>3, <1>5 DEF LanguagesTypes
  <2>2. \A doc \in DOMAIN cache' : cache'[doc] \in SUBSET LanguagesLanguages
    BY <1>2, <1>4, <1>5 DEF LanguagesTypes
  <2> QED  BY <1>1, <1>2, <1>10, <2>1, <2>2 DEF LanguagesTypes
<1>12. AllVisited(stack, bodies, cache)'
  BY <1>1, <1>10
<1>13. FailedAt'
  BY <1>1 DEF FailedAt
<1> QED  BY <1>5, <1>11, <1>12, <1>13 DEF LanguagesInv

\* The visits keep to their documents, and what they have found is all that there is.
THEOREM LanguagesAreSafe == LanguagesSpec => [](RememberedIsComplete /\ FailsForAReason)
<1>1. LanguagesInit => LanguagesInv
  BY LanguagesStart
<1>2. LanguagesInv /\ [LanguagesNext]_languagesVars => LanguagesInv'
  <2> SUFFICES ASSUME LanguagesInv, [LanguagesNext]_languagesVars
               PROVE  LanguagesInv'
    OBVIOUS
  <2>1. ASSUME NEW doc \in Docs, NEW language \in LanguagesLanguages, LanguagesWrite(doc, Code(language))
        PROVE  LanguagesInv'
    <3>1. Code(language) \in LNodes
      BY DEF Code, LNodes, Fragments
    <3> QED  BY <2>1, <3>1, WriteKeeps
  <2>2. ASSUME NEW doc \in Docs, NEW fragment \in Docs \union {LanguagesMissing},
               LanguagesWrite(doc, Include(fragment))
        PROVE  LanguagesInv'
    <3>1. Include(fragment) \in LNodes
      BY DEF Include, LNodes, Fragments
    <3> QED  BY <2>2, <3>1, WriteKeeps
  <2>3. ASSUME NEW doc \in Docs, Resolve(doc) PROVE LanguagesInv'
    BY <2>3, ResolveKeeps
  <2>4. CASE VisitCode
    BY <2>4, VisitCodeKeeps
  <2>5. CASE EnterInclude
    BY <2>5, EnterIncludeKeeps
  <2>6. CASE LanguagesFinish
    BY <2>6, FinishKeeps
  <2>7. CASE UNCHANGED languagesVars
    <3>1. bodies' = bodies /\ cache' = cache /\ stack' = stack /\ outcome' = outcome
      BY <2>7 DEF languagesVars
    <3>2. CacheComplete'
      BY <3>1, RememberedStays DEF LanguagesInv
    <3>3. LanguagesTypes' /\ AllVisited(stack, bodies, cache)' /\ FailedAt'
      BY <3>1 DEF LanguagesInv, LanguagesTypes, FailedAt, Top, Node, Visiting
    <3> QED  BY <3>2, <3>3 DEF LanguagesInv
  <2> QED  BY <2>1, <2>2, <2>3, <2>4, <2>5, <2>6, <2>7 DEF LanguagesNext, LanguagesStep
<1>3. LanguagesInv => RememberedIsComplete /\ FailsForAReason
  BY FailureHasReason DEF LanguagesInv, CacheComplete, RememberedIsComplete
<1> QED  BY <1>1, <1>2, <1>3, PTL DEF LanguagesSpec

-----------------------------------------------------------------------------
(* All of them.                                                            *)

\* Every widget shows what its state, the address and the visitor's choices ask
\* for, in every behaviour of the page.
THEOREM WidgetsAreSafe == WidgetsSpec => []WidgetsSafe
BY TourIsSafe, GeometryIsSafe, PivotsAreSafe, FloatingIsSafe, ViewportIsSafe, BannerIsSafe,
   LastClickIsShown, LanguagesAreSafe, PTL
   DEF WidgetsSpec, WidgetsSafe

\* No step of a widget undoes what the visitor did or saw.
THEOREM WidgetsAreKept == WidgetsSpec => WidgetsKept
BY TourKeepsItsPlace, OnceIsOnce, BannerIsKept, MotionIsStopped, PTL DEF WidgetsSpec, WidgetsKept
=============================================================================
