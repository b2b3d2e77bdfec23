---------------------------- MODULE ViewerProofs ----------------------------
(* The panel of the OG Viewer and what it reads off a page, for any URLs,    *)
(* pages, files and bounds.  The parts share no state: each has an inductive *)
(* invariant of its own.                                                     *)
EXTENDS ViewerPages, FiniteSetTheorems, SequenceTheorems, WellFoundedInduction, TLAPS

-----------------------------------------------------------------------------
(* The title.  Waiting for one load before the next, one thing at most is  *)
(* under way, and an answer that opens the panel was paid for by a visit.   *)
Alone ==
    /\ \A u \in Urls : fetching[u] <= 1 /\ (fetching[u] = 1 => opening = {})
    /\ \A u, v \in Urls : fetching[u] = 1 /\ fetching[v] = 1 => u = v
    /\ \A u, v \in opening : u = v

Paid ==
    /\ opened <= titleLoads + (IF entry.titleKey = None THEN 0 ELSE 1)
    /\ \A u \in opening : entry.titleKey = u /\ Final[u] = u
    /\ \A u \in Urls : fetching[u] = 1 /\ Final[u] # entry.titleKey => opened <= titleLoads

TitleInv ==
    /\ TitleTypeOK
    /\ entry.titleKey = entry.currentUrl
    /\ ~Overlap => Alone /\ Paid

\* The panel opens in the invariant.
LEMMA TitleStarts == TitleInit => TitleInv
<1> SUFFICES ASSUME TitleInit PROVE TitleInv
  OBVIOUS
<1>1. PICK u \in Urls \cup {None} :
         /\ entry = [currentUrl |-> u, titleKey |-> u]
         /\ fetching = [v \in Urls |-> IF v = u THEN 1 ELSE 0]
  BY DEF TitleInit
<1>2. opening = {} /\ titleLoads = 0 /\ opened = 0
  BY DEF TitleInit
<1>3. \A v \in Urls : fetching[v] = IF v = u THEN 1 ELSE 0
  BY <1>1
<1>4. TitleTypeOK
  BY <1>1, <1>2, FinalAssumption DEF TitleTypeOK
<1>5. Alone
  BY <1>2, <1>3 DEF Alone
<1>6. Paid
  BY <1>2, <1>1 DEF Paid
<1> QED  BY <1>1, <1>4, <1>5, <1>6 DEF TitleInv

\* Every step keeps it.
LEMMA TitleMoves == TitleInv /\ [TitleNext]_titleVars => TitleInv'
<1> SUFFICES ASSUME TitleInv, [TitleNext]_titleVars PROVE TitleInv'
  OBVIOUS
<1> USE FinalAssumption
<1>1. TitleTypeOK /\ entry.titleKey = entry.currentUrl /\ (~Overlap => Alone /\ Paid)
  BY DEF TitleInv
<1>2. ASSUME NEW u \in Urls, Visit(u) PROVE TitleInv'
  <2>1. fetching' = [fetching EXCEPT ![u] = IF @ < MaxSame THEN @ + 1 ELSE @] /\ titleLoads' = titleLoads + 1
    BY <1>2 DEF Visit, Request
  <2>2. entry' = entry /\ opening' = opening /\ opened' = opened /\ titleLoads < MaxLoads
    BY <1>2 DEF Visit
  <2>3. TitleTypeOK'
    BY <1>1, <2>1, <2>2 DEF TitleTypeOK
  <2>4. ASSUME ~Overlap PROVE Alone' /\ Paid'
    <3>1. opening = {} /\ \A v \in Urls : fetching[v] = 0
      BY <1>2, <2>4 DEF Visit, NothingLoads
    <3>2. \A v \in Urls : fetching'[v] = 1 => v = u
      BY <1>1, <2>1, <3>1 DEF TitleTypeOK
    <3>3. \A v \in Urls : fetching'[v] <= 1
      BY <1>1, <2>1, <3>1 DEF TitleTypeOK
    <3>4. Alone'
      BY <2>2, <3>1, <3>2, <3>3 DEF Alone
    <3>5. opened <= titleLoads + 1 /\ opened' <= titleLoads'
      BY <1>1, <2>1, <2>2, <2>4 DEF Paid, TitleTypeOK
    <3>6. opened' <= titleLoads' + (IF entry'.titleKey = None THEN 0 ELSE 1)
      BY <1>1, <3>5, <2>1, <2>2 DEF TitleTypeOK
    <3> QED  BY <2>2, <3>1, <3>4, <3>5, <3>6 DEF Paid
  <2> QED  BY <1>1, <2>2, <2>3, <2>4 DEF TitleInv
<1>3. ASSUME NEW u \in Urls, Fetched(u) PROVE TitleInv'
  <2>1. fetching[u] > 0 /\ fetching' = [fetching EXCEPT ![u] = @ - 1] /\ titleLoads' = titleLoads
    BY <1>3 DEF Fetched
  <2> DEFINE f == Final[u]
  <2>2. f \in Urls /\ Final[f] = f /\ f # None
    OBVIOUS
  <2>3. entry' = [currentUrl |-> f, titleKey |-> f]
    <3>1. CASE f = entry.titleKey
      <4>1. entry' = [entry EXCEPT !.currentUrl = f]
        BY <1>3, <3>1 DEF Fetched, SyncTitle, TitleTypeOK
      <4> QED  BY <1>1, <3>1, <4>1 DEF TitleTypeOK
    <3>2. CASE f # entry.titleKey
      BY <1>1, <1>3, <3>2 DEF Fetched, SyncTitle, TitleTypeOK
    <3> QED  BY <3>1, <3>2
  <2>4. IF f = entry.titleKey THEN opening' = opening /\ opened' = opened
        ELSE opening' = opening \cup {f} /\ opened' = IF opened < MaxLoads + 2 THEN opened + 1 ELSE opened
    BY <1>1, <1>3 DEF Fetched, SyncTitle, Count, TitleTypeOK
  <2>5. TitleTypeOK'
    <3>1. fetching' \in [Urls -> 0 .. MaxSame]
      BY <1>1, <2>1 DEF TitleTypeOK
    <3>2. opening' \subseteq Urls
      BY <1>1, <2>2, <2>4 DEF TitleTypeOK
    <3>3. opened' \in 0 .. MaxLoads + 2
      BY <1>1, <2>4 DEF TitleTypeOK
    <3> QED  BY <1>1, <2>1, <2>2, <2>3, <3>1, <3>2, <3>3 DEF TitleTypeOK
  <2>6. ASSUME ~Overlap PROVE Alone' /\ Paid'
    <3>1. fetching[u] = 1 /\ opening = {}
      BY <1>1, <2>1, <2>6 DEF Alone, TitleTypeOK
    <3>2. \A v \in Urls : fetching'[v] = 0
      BY <1>1, <2>1, <2>6, <3>1 DEF Alone, TitleTypeOK
    <3>3. opening' \subseteq {f}
      BY <2>4, <3>1
    <3>4. Alone'
      BY <3>2, <3>3 DEF Alone
    <3>5. opened' <= titleLoads' + 1
      BY <1>1, <2>1, <2>4, <2>6, <3>1 DEF Paid, TitleTypeOK
    <3> QED  BY <2>2, <2>3, <3>2, <3>3, <3>4, <3>5 DEF Paid
  <2> QED  BY <2>3, <2>5, <2>6 DEF TitleInv
<1>4. ASSUME NEW u \in Urls, FetchFails(u) PROVE TitleInv'
  <2>1. fetching[u] > 0 /\ fetching' = [fetching EXCEPT ![u] = @ - 1]
    BY <1>4 DEF FetchFails
  <2>2. entry' = entry /\ opening' = opening /\ titleLoads' = titleLoads /\ opened' = opened
    BY <1>4 DEF FetchFails
  <2>3. TitleTypeOK'
    BY <1>1, <2>1, <2>2 DEF TitleTypeOK
  <2>4. ASSUME ~Overlap PROVE Alone' /\ Paid'
    <3>1. \A v \in Urls : fetching'[v] = 0
      BY <1>1, <2>1, <2>4 DEF Alone, TitleTypeOK
    <3> QED  BY <1>1, <2>2, <2>4, <3>1 DEF Alone, Paid
  <2> QED  BY <1>1, <2>2, <2>3, <2>4 DEF TitleInv
<1>5. ASSUME NEW u \in Urls, Opened(u) PROVE TitleInv'
  <2>1. fetching' = [fetching EXCEPT ![u] = IF @ < MaxSame THEN @ + 1 ELSE @] /\ u \in opening
    BY <1>5 DEF Opened, Request
  <2>2. entry' = [currentUrl |-> u, titleKey |-> u] /\ opening' = opening \ {u}
          /\ titleLoads' = titleLoads /\ opened' = opened
    BY <1>5 DEF Opened
  <2>3. TitleTypeOK'
    BY <1>1, <2>1, <2>2 DEF TitleTypeOK
  <2>4. ASSUME ~Overlap PROVE Alone' /\ Paid'
    <3>1. opening' = {} /\ \A v \in Urls : fetching[v] = 0
      BY <1>1, <2>1, <2>2, <2>4 DEF Alone, TitleTypeOK
    <3>2. \A v \in Urls : fetching'[v] <= 1 /\ (fetching'[v] = 1 => v = u)
      BY <1>1, <2>1, <3>1 DEF TitleTypeOK
    <3>3. Alone'
      BY <3>1, <3>2 DEF Alone
    <3>4. Final[u] = u /\ opened <= titleLoads + 1
      BY <1>1, <2>1, <2>4 DEF Paid, TitleTypeOK
    <3> QED  BY <2>2, <3>1, <3>2, <3>3, <3>4 DEF Paid
  <2> QED  BY <2>2, <2>3, <2>4 DEF TitleInv
<1>6. CASE UNCHANGED titleVars
  BY <1>1, <1>6 DEF titleVars, TitleInv, TitleTypeOK, Alone, Paid
<1> QED  BY <1>2, <1>3, <1>4, <1>5, <1>6 DEF TitleNext

\* The title is that of the URL the panel would be opened with, and the panel is opened
\* again at most once for a load that waited for the last (extension.mjs, syncTitle).
THEOREM TitleIsSafe == TitleSafeSpec => [](TitleTypeOK /\ OnePerLoad /\ TitleOfCurrent)
<1>1. TitleInv => TitleTypeOK /\ OnePerLoad /\ TitleOfCurrent
  BY DEF TitleInv, Paid, OnePerLoad, TitleOfCurrent
<1> QED  BY <1>1, TitleStarts, TitleMoves, PTL DEF TitleSafeSpec

-----------------------------------------------------------------------------
(* The frame and the bar.  The state of the panel is a record U and the    *)
(* messages of the page in the frame a sequence m.                         *)
Some == BrowseUrls \cup {BrowseNone}

Navigation == [url : BrowseUrls, latest : BOOLEAN]

Letter == [url : BrowseUrls, mode : {"init", "hard", "soft"}]

Panels ==
    [input : Some, shown : Some, pending : Some, failed : BOOLEAN, loads : SUBSET Load,
     active : BOOLEAN, hasBrowse : BOOLEAN, frameUrl : Some, frame : Some \cup {Error},
     navs : SUBSET Navigation, debounce : Some]

Typed(U) ==
    /\ U \in Panels /\ IsFiniteSet(U.loads)
    /\ \A n1, n2 \in U.navs : n1.latest /\ n2.latest => n1 = n2

Navigating(U) == \E n \in U.navs : n.latest

\* A message that will make the frame navigate: it tells of a URL the last did not.
Effective(U, m, i) == m[i].mode # "soft" /\ m[i].url # (IF i = 1 THEN U.frameUrl ELSE m[i - 1].url)

\* What the frame is believed to show is right, or will be when the messages are read.
Believed(U, m) ==
    \/ Navigating(U)
    \/ U.frame = Error
    \/ \E i \in 1 .. Len(m) : Effective(U, m, i)
    \/ U.frameUrl = BrowseNone /\ m = <<>>
    \/ U.frame = IF m = <<>> THEN U.frameUrl ELSE m[Len(m)].url

BarHolds(U) == U.shown # BrowseNone => U.debounce # BrowseNone \/ (U.input = U.shown /\ U.pending = U.shown)

\* While loads wait for one another: one is under way, a link was followed, or all that
\* is under way leads to one page t.
Reaching(U, m) ==
    /\ \E l \in U.loads : U.loads = {l} /\ ~l.skip
    /\ U.navs = {} /\ m = <<>> /\ U.debounce = BrowseNone /\ U.shown = BrowseNone

Followed(U, m) ==
    /\ U.loads = {} /\ U.navs = {} /\ U.debounce = BrowseNone
    /\ \E x \in Letter : m = <<x>> /\ x.url # U.frameUrl /\ (x.mode = "soft" => U.frame = x.url)

Shows(U, t) ==
    \/ Navigating(U) \/ U.frame = Error
    \/ U.frame \in BrowseUrls /\ BrowseFinal[U.frame] = t
    \/ ~U.active /\ ~U.hasBrowse

Settling(U, m, t) ==
    /\ BrowseFinal[t] = t
    /\ \A l \in U.loads : l.skip /\ BrowseFinal[l.url] = t
    /\ \A n \in U.navs : n.latest => BrowseFinal[n.url] = t
    /\ \A i \in 1 .. Len(m) : m[i].url = t /\ m[i].mode # "soft"
    /\ U.debounce # BrowseNone => BrowseFinal[U.debounce] = t
    /\ U.shown # BrowseNone => U.shown = t \/ U.debounce # BrowseNone
    /\ U.shown # BrowseNone \/ U.loads # {} \/ U.debounce # BrowseNone => Shows(U, t)

Phase(U, m) == Reaching(U, m) \/ Followed(U, m) \/ \E t \in BrowseUrls : Settling(U, m, t)

PanelInv(U, m) ==
    /\ Typed(U) /\ m \in Seq(Letter)
    /\ Believed(U, m) /\ BarHolds(U)
    /\ ~BrowseOverlap => Phase(U, m)

-----------------------------------------------------------------------------
(* What the functions of the script make of the panel.                     *)
Navigated(U, V, u) ==
    /\ Navigating(V) /\ (\A n \in V.navs : n.latest => n.url = u)
    /\ V.frameUrl = u /\ V.hasBrowse /\ V.frame = U.frame /\ V.active = U.active

SameFrame(U, V) ==
    /\ V.navs = U.navs /\ V.frameUrl = U.frameUrl /\ V.hasBrowse = U.hasBrowse
    /\ V.frame = U.frame /\ V.active = U.active

SameBar(U, V) == V.input = U.input /\ V.shown = U.shown /\ V.pending = U.pending /\ V.debounce = U.debounce

LEMMA NavFacts ==
    ASSUME NEW U, Typed(U), NEW u \in BrowseUrls
    PROVE  /\ Typed(navBrowseFrame(U, u)) /\ Navigated(U, navBrowseFrame(U, u), u)
           /\ SameBar(U, navBrowseFrame(U, u)) /\ navBrowseFrame(U, u).loads = U.loads
<1> DEFINE N == navBrowseFrame(U, u)
           new == [url |-> u, latest |-> TRUE]
           old == Superseded(U.navs)
<1>1. U \in Panels
  BY DEF Typed
<1>2. old \subseteq Navigation /\ \A n \in old : ~n.latest
  <2> SUFFICES ASSUME NEW n \in U.navs PROVE [n EXCEPT !.latest = FALSE] \in Navigation /\ ~[n EXCEPT !.latest = FALSE].latest
    BY DEF Superseded
  <2>1. n \in Navigation
    BY <1>1 DEF Panels
  <2> QED  BY <2>1 DEF Navigation
<1>3. new \in Navigation
  BY DEF Navigation
<1>4. N = [U EXCEPT !.frameUrl = u, !.hasBrowse = TRUE, !.navs = old \cup {new}]
  BY DEF navBrowseFrame
<1>5. N.navs = old \cup {new} /\ N.frameUrl = u /\ N.hasBrowse /\ N.frame = U.frame /\ N.active = U.active
        /\ N.input = U.input /\ N.shown = U.shown /\ N.pending = U.pending /\ N.debounce = U.debounce /\ N.loads = U.loads
  BY <1>1, <1>4 DEF Panels
<1>6. N \in Panels
  <2>1. old \cup {new} \in SUBSET Navigation /\ u \in Some
    BY <1>2, <1>3 DEF Some
  <2> HIDE DEF old, new, N
  <2> QED  BY <1>1, <1>4, <2>1 DEF Panels
<1>7. \A n \in N.navs : n.latest => n = new
  BY <1>2, <1>5
<1>8. new \in N.navs /\ new.latest /\ new.url = u
  BY <1>5
<1> HIDE DEF N, new, old
<1>9. Typed(N)
  BY <1>5, <1>6, <1>7 DEF Typed
<1>10. Navigated(U, N, u)
  BY <1>5, <1>7, <1>8 DEF Navigated, Navigating
<1> QED  BY <1>5, <1>9, <1>10 DEF SameBar, N

\* A set of numbers that is not empty has a least one.
LEMMA LeastNatural ==
    ASSUME NEW T \in SUBSET Nat, T # {}
    PROVE  \E x \in T : \A y \in T : x <= y
<1> DEFINE R == OpToRel(<, Nat)
<1>1. IsWellFoundedOn(R, Nat)
  BY NatLessThanWellFounded
<1>2. \A y, x \in Nat : y < x => <<y, x>> \in R
  BY DEF OpToRel
<1> HIDE DEF R
<1>3. PICK x \in T : \A y \in T : ~ (<<y, x>> \in R)
  BY <1>1, WFMin
<1>4. ASSUME NEW y \in T PROVE x <= y
  <2>1. x \in Nat /\ y \in Nat /\ ~(<<y, x>> \in R)
    BY <1>3
  <2>2. ~(y < x)
    BY <1>2, <2>1
  <2> QED  BY <2>1, <2>2
<1> QED  BY <1>4

\* Some number is free for a load that has room.
LEMMA UnusedIsFree ==
    ASSUME NEW loads \in SUBSET Load, IsFiniteSet(loads), Cardinality(loads) < BrowseMaxLoads
    PROVE  Unused(loads) \in 1 .. BrowseMaxLoads
<1> DEFINE ids == {l.id : l \in loads}
           free == (1 .. BrowseMaxLoads) \ ids
<1>1. IsFiniteSet(ids) /\ Cardinality(ids) <= Cardinality(loads)
  <2> DEFINE number == [l \in loads |-> l.id]
  <2>1. number \in Surjection(loads, ids)
    BY DEF Surjection
  <2> HIDE DEF number
  <2> QED  BY <2>1, FS_Surjection
<1>2. IsFiniteSet(1 .. BrowseMaxLoads) /\ Cardinality(1 .. BrowseMaxLoads) = BrowseMaxLoads
  BY BrowseFinalAssumption, FS_Interval
<1>3. free # {}
  <2>1. SUFFICES ASSUME free = {} PROVE FALSE
    OBVIOUS
  <2>2. 1 .. BrowseMaxLoads \subseteq ids
    BY <2>1
  <2>3. Cardinality(1 .. BrowseMaxLoads) <= Cardinality(ids)
    BY <1>1, <2>2, FS_Subset
  <2>4. Cardinality(ids) \in Nat /\ Cardinality(loads) \in Nat
    BY <1>1, FS_CardinalityType
  <2> HIDE DEF ids, free
  <2> QED  BY <1>1, <1>2, <2>3, <2>4, BrowseFinalAssumption
<1> HIDE DEF free
<1>4. \E x \in free : \A y \in free : x <= y
  <2>1. free \in SUBSET Nat
    BY DEF free
  <2> QED  BY <1>3, <2>1, LeastNatural
<1>5. Min(free) \in free
  BY <1>4 DEF Min
<1> QED  BY <1>5 DEF Unused, free

LEMMA LoadFacts ==
    ASSUME NEW U, Typed(U), Cardinality(U.loads) < BrowseMaxLoads,
           NEW u \in BrowseUrls, NEW select \in BOOLEAN, NEW skip \in BOOLEAN
    PROVE  /\ Typed(load(U, u, select, skip)) /\ SameFrame(U, load(U, u, select, skip))
           /\ load(U, u, select, skip).shown = BrowseNone
           /\ load(U, u, select, skip).debounce = U.debounce
           /\ \E l \in Load : /\ l.url = u /\ l.skip = skip
                              /\ load(U, u, select, skip).loads = U.loads \cup {l}
<1> DEFINE L == load(U, u, select, skip)
           l == [url |-> u, select |-> select, skip |-> skip, id |-> Unused(U.loads)]
<1>1. U \in Panels /\ U.loads \in SUBSET Load /\ IsFiniteSet(U.loads)
  BY DEF Typed, Panels
<1>2. u # BrowseNone
  BY BrowseFinalAssumption
<1>3. Unused(U.loads) \in 1 .. BrowseMaxLoads
  BY <1>1, UnusedIsFree
<1>4. l \in Load /\ l.url = u /\ l.skip = skip
  BY <1>3 DEF Load
<1>5. L = [U EXCEPT !.input = u, !.shown = BrowseNone, !.loads = U.loads \cup {l}]
  BY <1>2 DEF load
<1> HIDE DEF l
<1>6. L.shown = BrowseNone /\ L.debounce = U.debounce /\ L.loads = U.loads \cup {l}
        /\ L.navs = U.navs /\ L.frameUrl = U.frameUrl /\ L.hasBrowse = U.hasBrowse
        /\ L.frame = U.frame /\ L.active = U.active
  BY <1>1, <1>5 DEF Panels
<1>7. L \in Panels
  <2>1. U.loads \cup {l} \in SUBSET Load /\ u \in Some /\ BrowseNone \in Some
    BY <1>1, <1>4 DEF Some
  <2> HIDE DEF L
  <2> QED  BY <1>1, <1>5, <2>1 DEF Panels
<1>8. IsFiniteSet(L.loads)
  BY <1>1, <1>6, FS_AddElement
<1> HIDE DEF L
<1>9. Typed(L)
  BY <1>6, <1>7, <1>8 DEF Typed
<1> QED  BY <1>4, <1>6, <1>9 DEF SameFrame, L

\* What the frame is to show after syncBrowseFrame.
Wanted(U, u) == IF u = BrowseNone THEN U.pending ELSE u

LEMMA SyncFacts ==
    ASSUME NEW U, Typed(U), NEW u \in Some
    PROVE  /\ Typed(syncBrowseFrame(U, u))
           /\ syncBrowseFrame(U, u).pending = Wanted(U, u) /\ syncBrowseFrame(U, u).loads = U.loads
           /\ syncBrowseFrame(U, u).input = U.input /\ syncBrowseFrame(U, u).shown = U.shown
           /\ syncBrowseFrame(U, u).debounce = U.debounce
           /\ \/ /\ SameFrame(U, syncBrowseFrame(U, u))
                 /\ Wanted(U, u) = BrowseNone \/ (~U.active /\ ~U.hasBrowse) \/ Wanted(U, u) = U.frameUrl
              \/ Wanted(U, u) \in BrowseUrls /\ Navigated(U, syncBrowseFrame(U, u), Wanted(U, u))
<1> DEFINE S == syncBrowseFrame(U, u)
           P == IF u = BrowseNone THEN U ELSE [U EXCEPT !.pending = u]
           p == Wanted(U, u)
<1>1. U \in Panels /\ p \in Some
  BY DEF Typed, Panels, Wanted
<1>2. P \in Panels /\ P.pending = p /\ P.loads = U.loads /\ P.input = U.input /\ P.shown = U.shown
        /\ P.debounce = U.debounce /\ SameFrame(U, P)
  BY <1>1 DEF Panels, Wanted, SameFrame
<1>3. S = IF P.pending = BrowseNone \/ (~P.active /\ ~P.hasBrowse) \/ P.pending = P.frameUrl
          THEN P ELSE navBrowseFrame(P, P.pending)
  BY DEF syncBrowseFrame
<1> HIDE DEF P, p, S
<1>4. Typed(P)
  BY <1>2 DEF Typed, SameFrame
<1>5. CASE P.pending = BrowseNone \/ (~P.active /\ ~P.hasBrowse) \/ P.pending = P.frameUrl
  <2>1. S = P
    BY <1>3, <1>5
  <2>2. p = BrowseNone \/ (~U.active /\ ~U.hasBrowse) \/ p = U.frameUrl
    BY <1>2, <1>5 DEF SameFrame
  <2> QED  BY <1>2, <1>4, <2>1, <2>2 DEF S, p
<1>6. CASE ~(P.pending = BrowseNone \/ (~P.active /\ ~P.hasBrowse) \/ P.pending = P.frameUrl)
  <2>1. S = navBrowseFrame(P, p) /\ p \in BrowseUrls
    BY <1>1, <1>2, <1>3, <1>6 DEF Some
  <2>2. Typed(S) /\ Navigated(P, S, p) /\ SameBar(P, S) /\ S.loads = P.loads
    BY <1>4, <2>1, NavFacts
  <2>3. Navigated(U, S, p)
    BY <1>2, <2>2 DEF Navigated, SameFrame
  <2> QED  BY <1>2, <2>1, <2>2, <2>3 DEF SameBar, S, p
<1> QED  BY <1>5, <1>6

LEMMA LoadedFacts ==
    ASSUME NEW U, Typed(U), NEW l \in U.loads
    PROVE  /\ Typed(Loaded(U, l)) /\ Loaded(U, l).loads = U.loads \ {l}
           /\ Loaded(U, l).shown = BrowseFinal[l.url] /\ Loaded(U, l).input = BrowseFinal[l.url]
           /\ Loaded(U, l).pending = BrowseFinal[l.url] /\ Loaded(U, l).debounce = U.debounce
           /\ \/ /\ Loaded(U, l).navs = U.navs /\ Loaded(U, l).hasBrowse = U.hasBrowse
                 /\ Loaded(U, l).frame = U.frame /\ Loaded(U, l).active = U.active
                 /\ Loaded(U, l).frameUrl \in {U.frameUrl, BrowseNone}
                 /\ l.skip \/ (~U.active /\ ~U.hasBrowse) \/ Loaded(U, l).frameUrl = BrowseFinal[l.url]
              \/ Navigated(U, Loaded(U, l), BrowseFinal[l.url])
<1> DEFINE u == BrowseFinal[l.url]
           D == [U EXCEPT !.loads = @ \ {l}, !.shown = u, !.input = u, !.pending = u, !.failed = FALSE,
                          !.frameUrl = IF l.select THEN BrowseNone ELSE @]
           V == Loaded(U, l)
<1>1. U \in Panels /\ U.loads \in SUBSET Load /\ IsFiniteSet(U.loads)
  BY DEF Typed, Panels
<1>2. u \in BrowseUrls /\ u \in Some /\ u # BrowseNone
  BY <1>1, BrowseFinalAssumption DEF Load, Some
<1>3. D \in Panels
  BY <1>1, <1>2 DEF Panels, Some
<1>4. D.loads = U.loads \ {l} /\ D.shown = u /\ D.input = u /\ D.pending = u /\ D.debounce = U.debounce
        /\ D.navs = U.navs /\ D.hasBrowse = U.hasBrowse /\ D.frame = U.frame /\ D.active = U.active
        /\ D.frameUrl \in {U.frameUrl, BrowseNone}
  BY <1>1 DEF Panels
<1>5. V = IF l.skip THEN D ELSE syncBrowseFrame(D, u)
  BY DEF Loaded
<1> HIDE DEF D, u, V
<1>6. Typed(D)
  <2>1. IsFiniteSet(D.loads)
    BY <1>1, <1>4, FS_Subset
  <2> QED  BY <1>3, <1>4, <2>1 DEF Typed
<1>7. CASE l.skip
  <2>1. V = D
    BY <1>5, <1>7
  <2> QED  BY <1>4, <1>6, <1>7, <2>1 DEF V, u
<1>8. CASE ~l.skip
  <2>1. V = syncBrowseFrame(D, u) /\ Wanted(D, u) = u
    BY <1>2, <1>5, <1>8 DEF Wanted
  <2>2. /\ Typed(V) /\ V.pending = u /\ V.loads = D.loads /\ V.input = D.input /\ V.shown = D.shown
        /\ V.debounce = D.debounce
        /\ \/ SameFrame(D, V) /\ (u = BrowseNone \/ (~D.active /\ ~D.hasBrowse) \/ u = D.frameUrl)
           \/ Navigated(D, V, u)
    BY <1>2, <1>6, <2>1, SyncFacts
  <2>3. CASE SameFrame(D, V) /\ (u = BrowseNone \/ (~D.active /\ ~D.hasBrowse) \/ u = D.frameUrl)
    <3>1. V.navs = U.navs /\ V.hasBrowse = U.hasBrowse /\ V.frame = U.frame /\ V.active = U.active
            /\ V.frameUrl \in {U.frameUrl, BrowseNone} /\ ((~U.active /\ ~U.hasBrowse) \/ V.frameUrl = u)
      BY <1>2, <1>4, <2>3 DEF SameFrame
    <3> QED  BY <1>4, <2>2, <3>1 DEF V, u
  <2>4. CASE Navigated(D, V, u)
    <3>1. Navigated(U, V, u)
      BY <1>4, <2>4 DEF Navigated
    <3> QED  BY <1>4, <2>2, <3>1 DEF V, u
  <2> QED  BY <2>2, <2>3, <2>4
<1> QED  BY <1>7, <1>8

LEMMA MessageFacts ==
    ASSUME NEW U, Typed(U), NEW x \in Letter, x.url # U.frameUrl
    PROVE  /\ Typed(OnMessage(U, x)) /\ OnMessage(U, x).loads = U.loads
           /\ OnMessage(U, x).shown = U.shown /\ OnMessage(U, x).debounce = x.url
           /\ OnMessage(U, x).frameUrl = x.url
           /\ IF x.mode = "soft"
              THEN /\ OnMessage(U, x).navs = U.navs /\ OnMessage(U, x).hasBrowse = U.hasBrowse
                   /\ OnMessage(U, x).frame = U.frame /\ OnMessage(U, x).active = U.active
              ELSE Navigated(U, OnMessage(U, x), x.url)
<1> DEFINE B == [U EXCEPT !.frameUrl = x.url, !.input = x.url, !.debounce = x.url]
           V == OnMessage(U, x)
<1>1. U \in Panels /\ IsFiniteSet(U.loads) /\ x.url \in BrowseUrls
  BY DEF Typed, Letter
<1>2. B \in Panels
  BY <1>1 DEF Panels, Some
<1>3. B.frameUrl = x.url /\ B.debounce = x.url /\ B.loads = U.loads /\ B.shown = U.shown
        /\ B.navs = U.navs /\ B.hasBrowse = U.hasBrowse /\ B.frame = U.frame /\ B.active = U.active
  BY <1>1 DEF Panels
<1>4. V = IF x.mode = "soft" THEN B ELSE navBrowseFrame(B, x.url)
  BY DEF OnMessage
<1> HIDE DEF B, V
<1>5. Typed(B)
  BY <1>2, <1>3 DEF Typed
<1>6. CASE x.mode = "soft"
  <2>1. V = B
    BY <1>4, <1>6
  <2> QED  BY <1>3, <1>5, <1>6, <2>1 DEF V
<1>7. CASE x.mode # "soft"
  <2>1. V = navBrowseFrame(B, x.url)
    BY <1>4, <1>7
  <2>2. Typed(V) /\ Navigated(B, V, x.url) /\ SameBar(B, V) /\ V.loads = B.loads
    BY <1>1, <1>5, <2>1, NavFacts
  <2>3. Navigated(U, V, x.url) /\ V.frameUrl = x.url
    BY <1>3, <2>2 DEF Navigated
  <2> QED  BY <1>3, <1>7, <2>2, <2>3 DEF SameBar, V
<1> QED  BY <1>6, <1>7

-----------------------------------------------------------------------------
(* The invariant is kept: what a change of the panel means for the belief. *)
LEMMA FrameKeepsBelief ==
    ASSUME NEW U, NEW V, NEW m \in Seq(Letter), Believed(U, m),
           V.navs = U.navs, V.frame = U.frame, V.frameUrl \in {U.frameUrl, BrowseNone}
    PROVE  Believed(V, m)
<1>1. \A i \in 1 .. Len(m) : m[i].url # BrowseNone
  <2> SUFFICES ASSUME NEW i \in 1 .. Len(m) PROVE m[i].url # BrowseNone
    OBVIOUS
  <2>1. m[i] \in Letter
    OBVIOUS
  <2> QED  BY <2>1, BrowseFinalAssumption DEF Letter
<1>2. ASSUME NEW i \in 1 .. Len(m), Effective(U, m, i) PROVE Effective(V, m, i)
  BY <1>1, <1>2 DEF Effective
<1>3. CASE V.frameUrl = U.frameUrl
  BY <1>2, <1>3 DEF Believed, Navigating
<1>4. CASE V.frameUrl = BrowseNone
  BY <1>2, <1>4 DEF Believed, Navigating
<1> QED  BY <1>3, <1>4

LEMMA NavigatedIsBelieved ==
    ASSUME NEW U, NEW V, NEW u, Navigated(U, V, u), NEW m PROVE Believed(V, m)
  BY DEF Navigated, Believed

\* What the messages mean once the first is read.
LEMMA ReadingKeepsBelief ==
    ASSUME NEW U, NEW V, NEW m \in Seq(Letter), m # <<>>, Believed(U, m),
           IF m[1].url = U.frameUrl THEN V = U
           ELSE /\ V.frameUrl = m[1].url
                /\ IF m[1].mode = "soft" THEN V.navs = U.navs /\ V.frame = U.frame
                   ELSE Navigating(V)
    PROVE  Believed(V, Tail(m))
<1> DEFINE t == Tail(m)
<1> SUFFICES Believed(V, t)
  OBVIOUS
<1>1. Len(m) \in Nat /\ Len(m) >= 1 /\ Len(t) = Len(m) - 1 /\ t \in Seq(Letter)
        /\ \A i \in 1 .. Len(t) : t[i] = m[i + 1]
  OBVIOUS
<1>2. t = <<>> <=> Len(m) = 1
  <2> HIDE DEF t
  <2>1. t = <<>> <=> Len(t) = 0
    BY <1>1
  <2> QED  BY <1>1, <2>1
<1>3. CASE Navigating(V)
  BY <1>3 DEF Believed
<1>4. CASE ~Navigating(V)
  <2>1. V.navs = U.navs /\ V.frame = U.frame /\ V.frameUrl = m[1].url
    BY <1>4
  <2>2. ~Navigating(U)
    BY <1>4, <2>1 DEF Navigating
  <2>3. CASE U.frame = Error
    BY <2>1, <2>3 DEF Believed
  <2>4. ASSUME NEW i \in 1 .. Len(m), Effective(U, m, i) PROVE Believed(V, t)
    <3>1. i # 1
      <4> SUFFICES ASSUME i = 1 PROVE FALSE
        OBVIOUS
      <4>1. m[1].mode # "soft" /\ m[1].url # U.frameUrl
        BY <2>4 DEF Effective
      <4> QED  BY <1>4, <4>1
    <3> DEFINE j == i - 1
    <3>2. j \in 1 .. Len(t) /\ t[j] = m[i] /\ (j # 1 => t[j - 1] = m[i - 1])
      BY <1>1, <3>1
    <3>3. m[i].mode # "soft" /\ m[i].url # m[i - 1].url
      BY <2>4, <3>1 DEF Effective
    <3>4. j = 1 => i - 1 = 1
      OBVIOUS
    <3> HIDE DEF j, t
    <3>5. Effective(V, t, j)
      BY <2>1, <3>2, <3>3, <3>4 DEF Effective
    <3> QED  BY <3>2, <3>5 DEF Believed
  <2>5. CASE U.frame = m[Len(m)].url
    <3>1. CASE t = <<>>
      BY <1>2, <2>1, <2>5, <3>1 DEF Believed
    <3>2. CASE t # <<>>
      <4>1. Len(t) \in 1 .. Len(t) /\ t[Len(t)] = m[Len(m)]
        BY <1>1, <1>2, <3>2
      <4> HIDE DEF t
      <4> QED  BY <2>1, <2>5, <3>2, <4>1 DEF Believed
    <3> QED  BY <3>1, <3>2
  <2> QED  BY <2>2, <2>3, <2>4, <2>5 DEF Believed
<1> QED  BY <1>3, <1>4

\* A message of the page that the frame now shows.
LEMMA LastLetter ==
    ASSUME NEW m \in Seq(Letter), NEW x \in Letter
    PROVE  /\ Append(m, x) \in Seq(Letter) /\ Append(m, x) # <<>>
           /\ Len(Append(m, x)) = Len(m) + 1 /\ Append(m, x)[Len(Append(m, x))] = x
           /\ \A i \in 1 .. Len(m) : Append(m, x)[i] = m[i]
           /\ Len(m) \in Nat
  OBVIOUS

\* A link that is followed: the page that comes tells of it, or the same page shows it.
LEMMA FollowingKeepsBelief ==
    ASSUME NEW U, NEW V, NEW m \in Seq(Letter), Believed(U, m), NEW x \in Letter,
           \/ V = U /\ x.mode = "hard" /\ U.frame \in BrowseUrls /\ x.url # U.frame
           \/ V.navs = U.navs /\ V.frameUrl = U.frameUrl /\ V.frame = x.url
    PROVE  Believed(V, Append(m, x))
<1> DEFINE e == Append(m, x)
           n == Len(m) + 1
<1> SUFFICES Believed(V, e)
  OBVIOUS
<1>1. e # <<>> /\ Len(e) = n /\ e[n] = x /\ (\A i \in 1 .. Len(m) : e[i] = m[i]) /\ Len(m) \in Nat
  BY LastLetter
<1>2. CASE V.frame = x.url
  BY <1>1, <1>2 DEF Believed
<1>3. CASE V = U /\ x.mode = "hard" /\ U.frame \in BrowseUrls /\ x.url # U.frame
  <2>1. U.frame # Error /\ x.url # BrowseNone
    BY <1>3, BrowseFinalAssumption DEF Letter
  <2>2. CASE Navigating(U)
    BY <1>3, <2>2 DEF Believed
  <2>3. ASSUME NEW i \in 1 .. Len(m), Effective(U, m, i) PROVE Believed(V, e)
    <3>1. i \in 1 .. Len(e) /\ e[i] = m[i] /\ (i # 1 => e[i - 1] = m[i - 1])
      BY <1>1
    <3> HIDE DEF e
    <3>2. Effective(U, e, i)
      BY <2>3, <3>1 DEF Effective
    <3> QED  BY <1>3, <3>1, <3>2 DEF Believed
  <2>4. CASE m = <<>>
    <3>1. n = 1 /\ e[1] = x /\ 1 \in 1 .. Len(e)
      BY <1>1, <2>4
    <3>2. U.frameUrl # x.url \/ Navigating(U)
      BY <1>3, <2>1, <2>4 DEF Believed
    <3> HIDE DEF e, n
    <3>3. CASE U.frameUrl # x.url
      <4>1. Effective(V, e, 1)
        BY <1>3, <3>1, <3>3 DEF Effective
      <4> QED  BY <3>1, <4>1 DEF Believed
    <3> QED  BY <2>2, <3>2, <3>3 DEF e
  <2>5. CASE m # <<>> /\ U.frame = m[Len(m)].url
    <3>1. Len(m) >= 1 /\ n # 1 /\ n - 1 = Len(m) /\ e[n - 1] = m[Len(m)] /\ n \in 1 .. Len(e)
      BY <1>1, <2>5
    <3> HIDE DEF e, n
    <3>2. Effective(V, e, n)
      BY <1>1, <1>3, <2>5, <3>1 DEF Effective
    <3> QED  BY <3>1, <3>2 DEF Believed
  <2> QED  BY <2>1, <2>2, <2>3, <2>4, <2>5 DEF Believed
<1> QED  BY <1>2, <1>3

-----------------------------------------------------------------------------
(* What the answers, the messages and the timer do.                        *)
LEMMA PhaseOfLoaded ==
    ASSUME NEW U, NEW m \in Seq(Letter), Typed(U), Believed(U, m), Phase(U, m), NEW l \in U.loads
    PROVE  Phase(Loaded(U, l), m)
<1> DEFINE V == Loaded(U, l)
           t == BrowseFinal[l.url]
<1> SUFFICES Phase(V, m)
  OBVIOUS
<1>1. U \in Panels /\ l \in Load
  BY DEF Typed, Panels
<1>2. t \in BrowseUrls /\ BrowseFinal[t] = t /\ t # BrowseNone
  BY <1>1, BrowseFinalAssumption DEF Load
<1>3. /\ V.loads = U.loads \ {l} /\ V.shown = t /\ V.debounce = U.debounce
      /\ \/ /\ V.navs = U.navs /\ V.hasBrowse = U.hasBrowse
            /\ V.frame = U.frame /\ V.active = U.active /\ V.frameUrl \in {U.frameUrl, BrowseNone}
            /\ l.skip \/ (~U.active /\ ~U.hasBrowse) \/ V.frameUrl = t
         \/ Navigated(U, V, t)
  BY LoadedFacts
<1> HIDE DEF V, t
<1>4. ~Followed(U, m)
  BY DEF Followed
<1>5. CASE Reaching(U, m)
  <2>1. V.loads = {} /\ U.navs = {} /\ m = <<>> /\ V.debounce = BrowseNone /\ ~l.skip
    BY <1>3, <1>5 DEF Reaching
  <2>0. ASSUME Shows(V, t), \A n \in V.navs : n.latest => BrowseFinal[n.url] = t PROVE Phase(V, m)
    <3>1. \A i \in 1 .. Len(m) : FALSE
      BY <2>1
    <3>2. Settling(V, m, t)
      BY <1>2, <1>3, <2>0, <2>1, <3>1 DEF Settling
    <3> QED  BY <1>2, <3>2 DEF Phase
  <2>2. CASE Navigated(U, V, t)
    <3>1. Shows(V, t)
      BY <2>2 DEF Navigated, Shows
    <3>2. \A n \in V.navs : n.latest => BrowseFinal[n.url] = t
      BY <1>2, <2>2 DEF Navigated
    <3> QED  BY <2>0, <3>1, <3>2
  <2>3. CASE V.navs = U.navs /\ ~U.active /\ ~U.hasBrowse /\ V.active = U.active /\ V.hasBrowse = U.hasBrowse
    <3>1. Shows(V, t)
      BY <2>3 DEF Shows
    <3>2. \A n \in V.navs : n.latest => BrowseFinal[n.url] = t
      BY <2>1, <2>3
    <3> QED  BY <2>0, <3>1, <3>2
  <2>4. CASE V.navs = U.navs /\ V.frame = U.frame /\ U.frameUrl = t
    <3>1. U.frame = Error \/ U.frame = t
      BY <1>2, <2>1, <2>4 DEF Believed, Navigating
    <3>2. Shows(V, t)
      BY <1>2, <2>4, <3>1 DEF Shows
    <3>3. \A n \in V.navs : n.latest => BrowseFinal[n.url] = t
      BY <2>1, <2>4
    <3> QED  BY <2>0, <3>2, <3>3
  <2> QED  BY <1>2, <1>3, <2>1, <2>2, <2>3, <2>4
<1>6. ASSUME NEW goal \in BrowseUrls, Settling(U, m, goal) PROVE Phase(V, m)
  <2>1. goal = t /\ l.skip /\ Shows(U, t)
    BY <1>6 DEF Settling, t
  <2>2. CASE Navigated(U, V, t)
    <3>1. Shows(V, t)
      BY <2>2 DEF Navigated, Shows
    <3>2. \A n \in V.navs : n.latest => BrowseFinal[n.url] = t
      BY <1>2, <2>2 DEF Navigated
    <3> QED  BY <1>2, <1>3, <1>6, <2>1, <3>1, <3>2 DEF Settling, Phase
  <2>3. CASE V.navs = U.navs /\ V.hasBrowse = U.hasBrowse /\ V.frame = U.frame /\ V.active = U.active
    <3>1. Shows(V, t)
      BY <2>1, <2>3 DEF Shows, Navigating
    <3> QED  BY <1>2, <1>3, <1>6, <2>1, <2>3, <3>1 DEF Settling, Phase
  <2> QED  BY <1>3, <2>2, <2>3
<1> QED  BY <1>4, <1>5, <1>6 DEF Phase

LEMMA LoadedKeeps ==
    ASSUME NEW U, NEW m, PanelInv(U, m), NEW l \in U.loads PROVE PanelInv(Loaded(U, l), m)
<1> DEFINE V == Loaded(U, l)
           t == BrowseFinal[l.url]
<1>1. Typed(U) /\ m \in Seq(Letter) /\ Believed(U, m) /\ BarHolds(U) /\ (~BrowseOverlap => Phase(U, m))
  BY DEF PanelInv
<1>2. /\ Typed(V) /\ V.shown = t /\ V.input = t /\ V.pending = t
      /\ \/ V.navs = U.navs /\ V.frame = U.frame /\ V.frameUrl \in {U.frameUrl, BrowseNone}
         \/ Navigated(U, V, t)
  BY <1>1, LoadedFacts
<1>3. ~BrowseOverlap => Phase(V, m)
  BY <1>1, PhaseOfLoaded
<1> HIDE DEF V, t
<1>4. Believed(V, m)
  BY <1>1, <1>2, FrameKeepsBelief, NavigatedIsBelieved
<1>5. BarHolds(V)
  BY <1>2 DEF BarHolds
<1> QED  BY <1>1, <1>2, <1>3, <1>4, <1>5 DEF PanelInv, V

LEMMA LoadFailsKeeps ==
    ASSUME NEW U, NEW m, PanelInv(U, m), NEW l \in U.loads
    PROVE  PanelInv([U EXCEPT !.loads = @ \ {l}, !.failed = TRUE], m)
<1> DEFINE V == [U EXCEPT !.loads = @ \ {l}, !.failed = TRUE]
<1>1. Typed(U) /\ m \in Seq(Letter) /\ Believed(U, m) /\ BarHolds(U) /\ (~BrowseOverlap => Phase(U, m))
        /\ U \in Panels /\ l \in Load
  BY DEF PanelInv, Typed, Panels
<1>2. V \in Panels /\ V.loads = U.loads \ {l} /\ SameBar(U, V) /\ SameFrame(U, V)
  BY <1>1 DEF Panels, SameBar, SameFrame
<1> HIDE DEF V
<1>3. Typed(V)
  <2>1. IsFiniteSet(V.loads)
    BY <1>1, <1>2, FS_Subset DEF Typed
  <2> QED  BY <1>1, <1>2, <2>1 DEF Typed, SameFrame
<1>4. Believed(V, m) /\ BarHolds(V)
  BY <1>1, <1>2, FrameKeepsBelief DEF SameFrame, SameBar, BarHolds
<1>5. ASSUME ~BrowseOverlap PROVE Phase(V, m)
  <2>1. ~Followed(U, m)
    BY DEF Followed
  <2>2. CASE Reaching(U, m)
    <3>1. BrowseFinal[l.url] \in BrowseUrls /\ BrowseFinal[BrowseFinal[l.url]] = BrowseFinal[l.url]
      BY <1>1, BrowseFinalAssumption DEF Load
    <3>2. V.loads = {} /\ V.navs = {} /\ m = <<>> /\ V.debounce = BrowseNone /\ V.shown = BrowseNone
      BY <1>2, <2>2 DEF Reaching, SameFrame, SameBar
    <3>3. Settling(V, m, BrowseFinal[l.url])
      BY <3>1, <3>2 DEF Settling
    <3> QED  BY <3>1, <3>3 DEF Phase
  <2>3. ASSUME NEW t \in BrowseUrls, Settling(U, m, t) PROVE Phase(V, m)
    <3>1. Shows(U, t) => Shows(V, t)
      BY <1>2 DEF Shows, SameFrame, Navigating
    <3>2. Settling(V, m, t)
      BY <1>2, <2>3, <3>1 DEF Settling, SameFrame, SameBar
    <3> QED  BY <3>2 DEF Phase
  <2> QED  BY <1>1, <1>5, <2>1, <2>2, <2>3 DEF Phase
<1> QED  BY <1>1, <1>3, <1>4, <1>5 DEF PanelInv, V

LEMMA MessageKeeps ==
    ASSUME NEW U, NEW m, PanelInv(U, m), m # <<>> PROVE PanelInv(OnMessage(U, Head(m)), Tail(m))
<1> DEFINE x == Head(m)
           V == OnMessage(U, x)
           rest == Tail(m)
<1> SUFFICES PanelInv(V, rest)
  OBVIOUS
<1>1. Typed(U) /\ m \in Seq(Letter) /\ Believed(U, m) /\ BarHolds(U) /\ (~BrowseOverlap => Phase(U, m))
  BY DEF PanelInv
<1>2. x \in Letter /\ x = m[1] /\ rest \in Seq(Letter)
        /\ Len(m) \in Nat /\ Len(m) >= 1 /\ Len(rest) = Len(m) - 1 /\ \A i \in 1 .. Len(rest) : rest[i] = m[i + 1]
  BY <1>1
<1>3. CASE x.url = U.frameUrl
  <2>1. V = U
    BY <1>3 DEF OnMessage
  <2>2. Believed(V, rest)
    BY <1>1, <1>2, <1>3, <2>1, ReadingKeepsBelief
  <2> HIDE DEF V, x, rest
  <2>3. ASSUME ~BrowseOverlap PROVE Phase(V, rest)
    <3>1. ~Reaching(U, m)
      BY DEF Reaching
    <3>2. ~Followed(U, m)
      <4> SUFFICES ASSUME NEW y \in Letter, m = <<y>>, y.url # U.frameUrl PROVE FALSE
        BY DEF Followed
      <4>1. m[1] = y
        OBVIOUS
      <4> QED  BY <1>2, <1>3, <4>1
    <3>3. ASSUME NEW t \in BrowseUrls, Settling(U, m, t) PROVE Phase(V, rest)
      <4>1. \A i \in 1 .. Len(rest) : rest[i].url = t /\ rest[i].mode # "soft"
        <5> SUFFICES ASSUME NEW i \in 1 .. Len(rest) PROVE rest[i].url = t /\ rest[i].mode # "soft"
          OBVIOUS
        <5>1. i + 1 \in 1 .. Len(m) /\ rest[i] = m[i + 1]
          BY <1>2
        <5> QED  BY <3>3, <5>1 DEF Settling
      <4>2. Settling(V, rest, t)
        BY <2>1, <3>3, <4>1 DEF Settling
      <4> QED  BY <4>2 DEF Phase
    <3> QED  BY <1>1, <2>3, <3>1, <3>2, <3>3 DEF Phase
  <2> QED  BY <1>1, <1>2, <2>1, <2>2, <2>3 DEF PanelInv
<1>4. CASE x.url # U.frameUrl
  <2>1. /\ Typed(V) /\ V.loads = U.loads /\ V.shown = U.shown /\ V.debounce = x.url /\ V.frameUrl = x.url
        /\ IF x.mode = "soft"
           THEN V.navs = U.navs /\ V.hasBrowse = U.hasBrowse /\ V.frame = U.frame /\ V.active = U.active
           ELSE Navigated(U, V, x.url)
    BY <1>1, <1>2, <1>4, MessageFacts
  <2>2. x.url \in BrowseUrls /\ x.url # BrowseNone
    BY <1>2, BrowseFinalAssumption DEF Letter
  <2> HIDE DEF V
  <2>3. Believed(V, rest)
    <3>1. x.mode # "soft" => Navigating(V)
      BY <2>1 DEF Navigated
    <3> QED  BY <1>1, <1>2, <1>4, <2>1, <3>1, ReadingKeepsBelief
  <2> HIDE DEF x, rest
  <2>4. BarHolds(V)
    BY <2>1, <2>2 DEF BarHolds
  <2>5. ASSUME ~BrowseOverlap PROVE Phase(V, rest)
    <3>1. ~Reaching(U, m)
      BY DEF Reaching
    <3>2. CASE Followed(U, m)
      <4>1. PICK y \in Letter : m = <<y>> /\ (y.mode = "soft" => U.frame = y.url)
        BY <3>2 DEF Followed
      <4>2. y = x /\ Len(m) = 1
        BY <1>2, <4>1
      <4>3. Len(rest) = 0
        BY <1>2, <4>2
      <4> DEFINE t == BrowseFinal[x.url]
      <4>4. t \in BrowseUrls /\ BrowseFinal[t] = t
        BY <2>2, BrowseFinalAssumption
      <4>5. Shows(V, t)
        BY <2>1, <2>2, <4>1, <4>2 DEF Shows, Navigated
      <4>6. \A n \in V.navs : n.latest => BrowseFinal[n.url] = t
        BY <2>1, <3>2 DEF Navigated, Followed
      <4>7. V.loads = {} /\ V.debounce = x.url
        BY <2>1, <3>2 DEF Followed
      <4>8. \A i \in 1 .. Len(rest) : FALSE
        BY <4>3
      <4>9. Settling(V, rest, t)
        BY <2>2, <4>4, <4>5, <4>6, <4>7, <4>8 DEF Settling
      <4> QED  BY <4>4, <4>9 DEF Phase
    <3>3. ASSUME NEW t \in BrowseUrls, Settling(U, m, t) PROVE Phase(V, rest)
      <4>1. \A i \in 1 .. Len(rest) : rest[i].url = t /\ rest[i].mode # "soft"
        <5> SUFFICES ASSUME NEW i \in 1 .. Len(rest) PROVE rest[i].url = t /\ rest[i].mode # "soft"
          OBVIOUS
        <5>1. i + 1 \in 1 .. Len(m) /\ rest[i] = m[i + 1]
          BY <1>2
        <5> QED  BY <3>3, <5>1 DEF Settling
      <4>2. x.url = t /\ x.mode # "soft" /\ BrowseFinal[t] = t
        <5>1. 1 \in 1 .. Len(m)
          BY <1>2
        <5> QED  BY <1>2, <3>3, <5>1 DEF Settling
      <4>3. Navigated(U, V, t)
        BY <2>1, <4>2
      <4>4. Shows(V, t) /\ \A n \in V.navs : n.latest => BrowseFinal[n.url] = t
        BY <4>2, <4>3 DEF Shows, Navigated
      <4>5. Settling(V, rest, t)
        BY <2>1, <2>2, <3>3, <4>1, <4>2, <4>4 DEF Settling
      <4> QED  BY <4>5 DEF Phase
    <3> QED  BY <1>1, <2>5, <3>1, <3>2, <3>3 DEF Phase
  <2> QED  BY <1>2, <2>1, <2>3, <2>4, <2>5 DEF PanelInv
<1> QED  BY <1>3, <1>4

LEMMA NavFailsKeeps ==
    ASSUME NEW U, NEW m, PanelInv(U, m), NEW n \in U.navs
    PROVE  PanelInv([U EXCEPT !.navs = @ \ {n}, !.frame = IF n.latest THEN Error ELSE @], m)
<1> DEFINE V == [U EXCEPT !.navs = @ \ {n}, !.frame = IF n.latest THEN Error ELSE @]
<1>1. Typed(U) /\ m \in Seq(Letter) /\ Believed(U, m) /\ BarHolds(U) /\ (~BrowseOverlap => Phase(U, m))
        /\ U \in Panels
  BY DEF PanelInv, Typed
<1>2. V \in Panels /\ V.navs = U.navs \ {n} /\ V.frame = (IF n.latest THEN Error ELSE U.frame)
        /\ V.frameUrl = U.frameUrl /\ V.loads = U.loads /\ V.active = U.active /\ V.hasBrowse = U.hasBrowse
        /\ V.input = U.input /\ V.shown = U.shown /\ V.pending = U.pending /\ V.debounce = U.debounce
  BY <1>1 DEF Panels
<1> HIDE DEF V
<1>3. Typed(V) /\ BarHolds(V)
  BY <1>1, <1>2 DEF Typed, BarHolds
<1>4. n.latest => V.frame = Error
  BY <1>2
<1>5. ~n.latest => V.frame = U.frame /\ (Navigating(U) => Navigating(V))
  BY <1>2 DEF Navigating
<1>6. Believed(V, m)
  <2>1. CASE n.latest
    BY <1>4, <2>1 DEF Believed
  <2>2. CASE ~n.latest
    <3>1. ASSUME NEW i \in 1 .. Len(m), Effective(U, m, i) PROVE Effective(V, m, i)
      BY <1>2, <3>1 DEF Effective
    <3> QED  BY <1>1, <1>2, <1>5, <2>2, <3>1 DEF Believed
  <2> QED  BY <2>1, <2>2
<1>7. ASSUME ~BrowseOverlap PROVE Phase(V, m)
  <2>1. ~Reaching(U, m) /\ ~Followed(U, m)
    BY DEF Reaching, Followed
  <2>2. ASSUME NEW t \in BrowseUrls, Settling(U, m, t) PROVE Phase(V, m)
    <3>1. Shows(U, t) => Shows(V, t)
      BY <1>2, <1>4, <1>5 DEF Shows
    <3>2. Settling(V, m, t)
      BY <1>2, <2>2, <3>1 DEF Settling
    <3> QED  BY <3>2 DEF Phase
  <2> QED  BY <1>1, <1>7, <2>1, <2>2 DEF Phase
<1> QED  BY <1>1, <1>3, <1>6, <1>7 DEF PanelInv, V

\* The page that came reports itself.
Reported(n) == [url |-> BrowseFinal[n.url], mode |-> "init"]

LEMMA NavFillsKeeps ==
    ASSUME NEW U, NEW m, PanelInv(U, m), NEW n \in U.navs, n.latest
    PROVE  PanelInv([U EXCEPT !.navs = @ \ {n}, !.frame = BrowseFinal[n.url]], Append(m, Reported(n)))
<1> DEFINE V == [U EXCEPT !.navs = @ \ {n}, !.frame = BrowseFinal[n.url]]
           x == Reported(n)
           e == Append(m, x)
<1> SUFFICES PanelInv(V, e)
  OBVIOUS
<1>1. Typed(U) /\ m \in Seq(Letter) /\ Believed(U, m) /\ BarHolds(U) /\ (~BrowseOverlap => Phase(U, m))
        /\ U \in Panels /\ n \in Navigation
  BY DEF PanelInv, Typed, Panels
<1>2. BrowseFinal[n.url] \in BrowseUrls /\ BrowseFinal[BrowseFinal[n.url]] = BrowseFinal[n.url]
  BY <1>1, BrowseFinalAssumption DEF Navigation
<1>3. V \in Panels /\ V.navs = U.navs \ {n} /\ V.frame = BrowseFinal[n.url]
        /\ V.frameUrl = U.frameUrl /\ V.loads = U.loads /\ V.active = U.active /\ V.hasBrowse = U.hasBrowse
        /\ V.input = U.input /\ V.shown = U.shown /\ V.pending = U.pending /\ V.debounce = U.debounce
  BY <1>1, <1>2 DEF Panels, Some
<1>4. x \in Letter /\ x.url = V.frame /\ x.mode # "soft"
  BY <1>2, <1>3 DEF Letter, Reported
<1> HIDE DEF V, x
<1>5. e \in Seq(Letter) /\ e # <<>> /\ Len(e) = Len(m) + 1 /\ e[Len(e)] = x /\ Len(m) \in Nat
        /\ \A i \in 1 .. Len(m) : e[i] = m[i]
  BY <1>1, <1>4, LastLetter
<1> HIDE DEF e
<1>6. Typed(V) /\ BarHolds(V)
  BY <1>1, <1>3 DEF Typed, BarHolds
<1>7. Believed(V, e)
  BY <1>4, <1>5 DEF Believed
<1>8. ASSUME ~BrowseOverlap PROVE Phase(V, e)
  <2>1. ~Reaching(U, m) /\ ~Followed(U, m)
    BY DEF Reaching, Followed
  <2>2. ASSUME NEW t \in BrowseUrls, Settling(U, m, t) PROVE Phase(V, e)
    <3>1. V.frame = t
      BY <1>3, <2>2 DEF Settling
    <3>2. Shows(V, t)
      BY <1>2, <1>3, <3>1 DEF Shows
    <3>3. ASSUME NEW i \in 1 .. Len(e) PROVE e[i].url = t /\ e[i].mode # "soft"
      <4>1. CASE i = Len(e)
        BY <1>4, <1>5, <3>1, <4>1
      <4>2. CASE i # Len(e)
        <5>1. i \in 1 .. Len(m) /\ e[i] = m[i]
          BY <1>5, <4>2
        <5> QED  BY <2>2, <5>1 DEF Settling
      <4> QED  BY <4>1, <4>2
    <3>4. Settling(V, e, t)
      BY <1>3, <2>2, <3>2, <3>3 DEF Settling
    <3> QED  BY <3>4 DEF Phase
  <2> QED  BY <1>1, <1>8, <2>1, <2>2 DEF Phase
<1> QED  BY <1>5, <1>6, <1>7, <1>8 DEF PanelInv

\* The load a followed link causes, a moment later.
LEMMA DebouncedKeeps ==
    ASSUME NEW U, NEW m, PanelInv(U, m), U.debounce # BrowseNone, Cardinality(U.loads) < BrowseMaxLoads
    PROVE  PanelInv(load([U EXCEPT !.debounce = BrowseNone], U.debounce, FALSE, TRUE), m)
<1> DEFINE W == [U EXCEPT !.debounce = BrowseNone]
           V == load(W, U.debounce, FALSE, TRUE)
<1>1. Typed(U) /\ m \in Seq(Letter) /\ Believed(U, m) /\ (~BrowseOverlap => Phase(U, m))
        /\ U \in Panels /\ U.debounce \in BrowseUrls
  BY DEF PanelInv, Typed, Panels, Some
<1>2. W \in Panels /\ W.debounce = BrowseNone /\ W.loads = U.loads /\ SameFrame(U, W)
  BY <1>1 DEF Panels, Some, SameFrame
<1> HIDE DEF W, V
<1>3. Typed(W)
  BY <1>1, <1>2 DEF Typed, SameFrame
<1>4. /\ Typed(V) /\ SameFrame(W, V) /\ V.shown = BrowseNone /\ V.debounce = BrowseNone
      /\ \E l \in Load : l.url = U.debounce /\ l.skip = TRUE /\ V.loads = W.loads \cup {l}
  BY <1>1, <1>2, <1>3, LoadFacts DEF V
<1>5. SameFrame(U, V)
  BY <1>2, <1>4 DEF SameFrame
<1>6. Believed(V, m) /\ BarHolds(V)
  BY <1>1, <1>4, <1>5, FrameKeepsBelief DEF SameFrame, BarHolds
<1>7. ASSUME ~BrowseOverlap PROVE Phase(V, m)
  <2>1. ~Reaching(U, m) /\ ~Followed(U, m)
    BY DEF Reaching, Followed
  <2>2. ASSUME NEW t \in BrowseUrls, Settling(U, m, t) PROVE Phase(V, m)
    <3>1. Shows(V, t)
      BY <1>5, <2>2 DEF Shows, SameFrame, Settling, Navigating
    <3>2. \A l \in V.loads : l.skip /\ BrowseFinal[l.url] = t
      BY <1>2, <1>4, <2>2 DEF Settling
    <3>3. Settling(V, m, t)
      BY <1>4, <1>5, <2>2, <3>1, <3>2 DEF Settling, SameFrame
    <3> QED  BY <3>3 DEF Phase
  <2> QED  BY <1>1, <1>7, <2>1, <2>2 DEF Phase
<1> QED  BY <1>1, <1>4, <1>6, <1>7 DEF PanelInv, V, W

-----------------------------------------------------------------------------
(* What the visitor and the agent do, one thing after the other unless     *)
(* loads overlap.                                                          *)
Resting(U, m) == U.loads = {} /\ U.navs = {} /\ U.debounce = BrowseNone /\ m = <<>>

\* Nothing under way, whatever the panel shows is of one page.
LEMMA RestIsSettled ==
    ASSUME NEW U, NEW m, PanelInv(U, m), ~BrowseOverlap, Resting(U, m)
    PROVE  /\ \E t \in BrowseUrls : Settling(U, m, t)
           /\ U.frameUrl = BrowseNone \/ U.frame = Error \/ U.frame = U.frameUrl
<1>1. Phase(U, m) /\ Believed(U, m)
  BY DEF PanelInv
<1>2. ~Reaching(U, m)
  BY DEF Reaching, Resting
<1>3. ~Followed(U, m)
  <2> SUFFICES ASSUME NEW x \in Letter, m = <<x>> PROVE FALSE
    BY DEF Followed
  <2> QED  BY DEF Resting
<1>4. \A i \in 1 .. Len(m) : FALSE
  BY DEF Resting
<1>5. U.frameUrl = BrowseNone \/ U.frame = Error \/ U.frame = U.frameUrl
  BY <1>1, <1>4 DEF Resting, Believed, Navigating
<1> QED  BY <1>1, <1>2, <1>3, <1>5 DEF Phase

LEMMA LoadKeeps ==
    ASSUME NEW U, NEW m, PanelInv(U, m), BrowseOverlap \/ Resting(U, m),
           Cardinality(U.loads) < BrowseMaxLoads, NEW u \in BrowseUrls, NEW select \in BOOLEAN
    PROVE  PanelInv(load(U, u, select, FALSE), m)
<1> DEFINE V == load(U, u, select, FALSE)
<1> HIDE DEF V
<1>1. Typed(U) /\ m \in Seq(Letter) /\ Believed(U, m)
  BY DEF PanelInv
<1>2. /\ Typed(V) /\ SameFrame(U, V) /\ V.shown = BrowseNone /\ V.debounce = U.debounce
      /\ \E l \in Load : l.url = u /\ ~l.skip /\ V.loads = U.loads \cup {l}
  <2>1. \A skip \in BOOLEAN :
          /\ Typed(load(U, u, select, skip)) /\ SameFrame(U, load(U, u, select, skip))
          /\ load(U, u, select, skip).shown = BrowseNone
          /\ load(U, u, select, skip).debounce = U.debounce
          /\ \E l \in Load : l.url = u /\ l.skip = skip /\ load(U, u, select, skip).loads = U.loads \cup {l}
    BY <1>1, LoadFacts
  <2>2. FALSE \in BOOLEAN
    OBVIOUS
  <2>3. /\ Typed(V) /\ SameFrame(U, V) /\ V.shown = BrowseNone /\ V.debounce = U.debounce
        /\ \E l \in Load : l.url = u /\ l.skip = FALSE /\ V.loads = U.loads \cup {l}
    BY <2>1, <2>2, Zenon DEF V
  <2> QED  BY <2>3
<1>3. Believed(V, m) /\ BarHolds(V)
  BY <1>1, <1>2, FrameKeepsBelief DEF SameFrame, BarHolds
<1>4. ASSUME Resting(U, m) PROVE Reaching(V, m)
  BY <1>2, <1>4 DEF Resting, Reaching, SameFrame
<1> QED  BY <1>1, <1>2, <1>3, <1>4 DEF PanelInv, Phase, V

\* The URL of the frame is forgotten before the agent's page is loaded.
LEMMA ForgetKeeps ==
    ASSUME NEW U, NEW m, PanelInv(U, m), BrowseOverlap \/ Resting(U, m)
    PROVE  /\ PanelInv([U EXCEPT !.frameUrl = BrowseNone], m)
           /\ [U EXCEPT !.frameUrl = BrowseNone].loads = U.loads
           /\ Resting(U, m) => Resting([U EXCEPT !.frameUrl = BrowseNone], m)
<1> DEFINE V == [U EXCEPT !.frameUrl = BrowseNone]
<1>1. Typed(U) /\ U \in Panels /\ m \in Seq(Letter) /\ Believed(U, m) /\ BarHolds(U)
  BY DEF PanelInv, Typed
<1>2. V \in Panels /\ V.frameUrl = BrowseNone /\ SameBar(U, V) /\ V.loads = U.loads /\ V.navs = U.navs
        /\ V.frame = U.frame /\ V.active = U.active /\ V.hasBrowse = U.hasBrowse
  BY <1>1 DEF Panels, Some, SameBar
<1> HIDE DEF V
<1>3. Typed(V) /\ BarHolds(V)
  BY <1>1, <1>2 DEF Typed, BarHolds, SameBar
<1>4. Believed(V, m)
  BY <1>1, <1>2, FrameKeepsBelief
<1>5. ASSUME ~BrowseOverlap PROVE Phase(V, m)
  <2>1. PICK t \in BrowseUrls : Settling(U, m, t)
    BY <1>5, RestIsSettled
  <2>2. Shows(U, t) => Shows(V, t)
    BY <1>2 DEF Shows, Navigating
  <2>3. Settling(V, m, t)
    BY <1>2, <2>1, <2>2 DEF Settling, SameBar
  <2> QED  BY <2>3 DEF Phase
<1>6. Resting(U, m) => Resting(V, m)
  BY <1>2 DEF Resting, SameBar
<1> QED  BY <1>1, <1>2, <1>3, <1>4, <1>5, <1>6 DEF PanelInv, V

\* Refresh of a frame that is shown: the page is asked for again and loaded.
LEMMA RefreshKeeps ==
    ASSUME NEW U, NEW m, PanelInv(U, m), BrowseOverlap \/ Resting(U, m),
           Cardinality(U.loads) < BrowseMaxLoads, NEW u \in BrowseUrls,
           u = IF U.input # BrowseNone THEN U.input ELSE U.pending
    PROVE  PanelInv(load(navBrowseFrame(U, u), U.input, FALSE, TRUE), m)
<1> DEFINE N == navBrowseFrame(U, u)
           V == load(N, U.input, FALSE, TRUE)
           t == BrowseFinal[u]
<1> SUFFICES PanelInv(V, m)
  OBVIOUS
<1>1. Typed(U) /\ U \in Panels /\ m \in Seq(Letter) /\ BarHolds(U)
  BY DEF PanelInv, Typed
<1>2. t \in BrowseUrls /\ BrowseFinal[t] = t /\ u # BrowseNone
  BY BrowseFinalAssumption
<1>3. Typed(N) /\ Navigated(U, N, u) /\ SameBar(U, N) /\ N.loads = U.loads
  BY <1>1, NavFacts
<1>4. CASE U.input = BrowseNone
  <2>1. V = N
    BY <1>4 DEF load
  <2> HIDE DEF V, N, t
  <2>2. Believed(V, m) /\ BarHolds(V)
    BY <1>1, <1>3, <2>1, NavigatedIsBelieved DEF BarHolds, SameBar
  <2>3. ASSUME Resting(U, m) PROVE Settling(V, m, t)
    <3>1. V.shown = BrowseNone
      BY <1>1, <1>3, <1>4, <2>1, <2>3 DEF SameBar, BarHolds, Resting
    <3>2. V.loads = {} /\ V.debounce = BrowseNone /\ \A i \in 1 .. Len(m) : FALSE
      BY <1>3, <2>1, <2>3 DEF Resting, SameBar
    <3>3. \A n \in V.navs : n.latest => BrowseFinal[n.url] = t
      BY <1>3, <2>1 DEF Navigated, t
    <3> QED  BY <1>2, <3>1, <3>2, <3>3 DEF Settling
  <2>4. ~BrowseOverlap => Phase(V, m)
    BY <1>2, <2>3 DEF Phase, t
  <2> QED  BY <1>1, <1>3, <2>1, <2>2, <2>4 DEF PanelInv
<1>5. CASE U.input # BrowseNone
  <2>1. U.input = u
    BY <1>5
  <2>0. V = load(N, u, FALSE, TRUE) /\ Cardinality(N.loads) < BrowseMaxLoads
    BY <1>3, <2>1
  <2> HIDE DEF V, N, t
  <2>2. /\ Typed(V) /\ SameFrame(N, V) /\ V.shown = BrowseNone /\ V.debounce = N.debounce
        /\ \E l \in Load : l.url = u /\ l.skip = TRUE /\ V.loads = N.loads \cup {l}
    <3>1. \A skip \in BOOLEAN, select \in BOOLEAN :
            /\ Typed(load(N, u, select, skip)) /\ SameFrame(N, load(N, u, select, skip))
            /\ load(N, u, select, skip).shown = BrowseNone
            /\ load(N, u, select, skip).debounce = N.debounce
            /\ \E l \in Load : l.url = u /\ l.skip = skip /\ load(N, u, select, skip).loads = N.loads \cup {l}
      BY <1>3, <2>0, LoadFacts
    <3>2. FALSE \in BOOLEAN /\ TRUE \in BOOLEAN
      OBVIOUS
    <3> QED  BY <2>0, <3>1, <3>2, Zenon
  <2>3. Navigated(U, V, u)
    BY <1>3, <2>2 DEF Navigated, SameFrame, Navigating
  <2>4. Believed(V, m) /\ BarHolds(V)
    BY <2>2, <2>3, NavigatedIsBelieved DEF BarHolds
  <2>5. ASSUME Resting(U, m) PROVE Settling(V, m, t)
    <3>1. V.debounce = BrowseNone /\ \A i \in 1 .. Len(m) : FALSE
      BY <1>3, <2>2, <2>5 DEF Resting, SameBar
    <3>2. \A l \in V.loads : l.skip /\ BrowseFinal[l.url] = t
      BY <1>3, <2>2, <2>5 DEF Resting, t
    <3>3. Shows(V, t) /\ \A n \in V.navs : n.latest => BrowseFinal[n.url] = t
      BY <2>3 DEF Navigated, Shows, t
    <3> QED  BY <1>2, <2>2, <3>1, <3>2, <3>3 DEF Settling
  <2>6. ~BrowseOverlap => Phase(V, m)
    BY <1>2, <2>5 DEF Phase, t
  <2> QED  BY <1>1, <2>2, <2>4, <2>6 DEF PanelInv
<1> QED  BY <1>4, <1>5

LEMMA LeaveTabKeeps ==
    ASSUME NEW U, NEW m, PanelInv(U, m), BrowseOverlap \/ Resting(U, m)
    PROVE  PanelInv([U EXCEPT !.active = FALSE], m)
<1> DEFINE V == [U EXCEPT !.active = FALSE]
<1>1. Typed(U) /\ U \in Panels /\ m \in Seq(Letter) /\ Believed(U, m) /\ BarHolds(U)
  BY DEF PanelInv, Typed
<1>2. V \in Panels /\ ~V.active /\ SameBar(U, V) /\ V.loads = U.loads /\ V.navs = U.navs
        /\ V.frame = U.frame /\ V.frameUrl = U.frameUrl /\ V.hasBrowse = U.hasBrowse
  BY <1>1 DEF Panels, SameBar
<1> HIDE DEF V
<1>3. Typed(V) /\ BarHolds(V)
  BY <1>1, <1>2 DEF Typed, BarHolds, SameBar
<1>4. Believed(V, m)
  BY <1>1, <1>2, FrameKeepsBelief
<1>5. ASSUME ~BrowseOverlap PROVE Phase(V, m)
  <2>1. PICK t \in BrowseUrls : Settling(U, m, t)
    BY <1>5, RestIsSettled
  <2>2. Shows(U, t) => Shows(V, t)
    BY <1>2 DEF Shows, Navigating
  <2>3. Settling(V, m, t)
    BY <1>2, <2>1, <2>2 DEF Settling, SameBar
  <2> QED  BY <2>3 DEF Phase
<1> QED  BY <1>1, <1>3, <1>4, <1>5 DEF PanelInv, V

\* The tab of the frame: the page that is wanted is shown, or was already.
LEMMA EnterTabKeeps ==
    ASSUME NEW U, NEW m, PanelInv(U, m), BrowseOverlap \/ Resting(U, m)
    PROVE  PanelInv(syncBrowseFrame([U EXCEPT !.active = TRUE],
                                    IF U.pending # BrowseNone THEN U.pending ELSE U.input), m)
<1> DEFINE A == [U EXCEPT !.active = TRUE]
           u == IF U.pending # BrowseNone THEN U.pending ELSE U.input
           V == syncBrowseFrame(A, u)
           p == Wanted(A, u)
<1>1. Typed(U) /\ U \in Panels /\ m \in Seq(Letter) /\ Believed(U, m) /\ BarHolds(U)
  BY DEF PanelInv, Typed
<1>2. A \in Panels /\ A.active /\ SameBar(U, A) /\ A.loads = U.loads /\ A.navs = U.navs
        /\ A.frame = U.frame /\ A.frameUrl = U.frameUrl /\ A.hasBrowse = U.hasBrowse
  BY <1>1 DEF Panels, SameBar
<1>3. u \in Some
  BY <1>1 DEF Panels
<1>4. p \in Some /\ (U.pending # BrowseNone => p = U.pending)
  <2> HIDE DEF A
  <2> QED  BY <1>1, <1>2, <1>3 DEF Wanted, Panels, SameBar
<1> HIDE DEF A, u, V, p
<1>5. Typed(A)
  BY <1>1, <1>2 DEF Typed
<1>6. /\ Typed(V) /\ V.pending = p /\ V.loads = A.loads /\ V.input = A.input /\ V.shown = A.shown
      /\ V.debounce = A.debounce
      /\ \/ SameFrame(A, V) /\ (p = BrowseNone \/ (~A.active /\ ~A.hasBrowse) \/ p = A.frameUrl)
         \/ p \in BrowseUrls /\ Navigated(A, V, p)
  BY <1>3, <1>5, SyncFacts DEF V, p
<1>7. Believed(V, m)
  <2>1. CASE SameFrame(A, V)
    BY <1>1, <1>2, <2>1, FrameKeepsBelief DEF SameFrame
  <2>2. CASE Navigated(A, V, p)
    BY <2>2, NavigatedIsBelieved
  <2> QED  BY <1>6, <2>1, <2>2
<1>8. BarHolds(V)
  <2> SUFFICES ASSUME V.shown # BrowseNone, V.debounce = BrowseNone PROVE V.input = V.shown /\ V.pending = V.shown
    BY DEF BarHolds
  <2>1. U.input = U.shown /\ U.pending = U.shown /\ U.shown # BrowseNone
    BY <1>1, <1>2, <1>6 DEF BarHolds, SameBar
  <2> QED  BY <1>2, <1>4, <1>6, <2>1 DEF SameBar
<1>9. ASSUME ~BrowseOverlap PROVE Phase(V, m)
  <2>1. Resting(U, m) /\ (U.frameUrl = BrowseNone \/ U.frame = Error \/ U.frame = U.frameUrl)
    BY <1>9, RestIsSettled
  <2>2. PICK t \in BrowseUrls : Settling(U, m, t)
    BY <1>9, RestIsSettled
  <2>3. V.loads = {} /\ V.debounce = BrowseNone /\ V.shown = U.shown /\ \A i \in 1 .. Len(m) : FALSE
    BY <1>2, <1>6, <2>1 DEF Resting, SameBar
  <2>4. U.shown # BrowseNone => U.shown = t /\ p = t /\ t # BrowseNone
    BY <1>1, <1>4, <2>1, <2>2 DEF Settling, BarHolds, Resting
  <2>5. CASE Navigated(A, V, p) /\ p \in BrowseUrls
    <3> DEFINE goal == BrowseFinal[p]
    <3>1. goal \in BrowseUrls /\ BrowseFinal[goal] = goal
      BY <2>5, BrowseFinalAssumption
    <3>2. Shows(V, goal) /\ \A n \in V.navs : n.latest => BrowseFinal[n.url] = goal
      BY <2>5 DEF Navigated, Shows
    <3>3. V.shown # BrowseNone => V.shown = goal
      BY <2>2, <2>3, <2>4 DEF Settling
    <3>4. Settling(V, m, goal)
      BY <2>3, <3>1, <3>2, <3>3 DEF Settling
    <3> QED  BY <3>1, <3>4 DEF Phase
  <2>6. CASE SameFrame(A, V) /\ (p = BrowseNone \/ (~A.active /\ ~A.hasBrowse) \/ p = A.frameUrl)
    <3>1. V.navs = {} /\ V.frame = U.frame
      BY <1>2, <2>1, <2>6 DEF SameFrame, Resting
    <3>2. V.shown # BrowseNone => V.shown = t /\ Shows(V, t)
      <4> SUFFICES ASSUME V.shown # BrowseNone PROVE V.shown = t /\ Shows(V, t)
        OBVIOUS
      <4>1. p = t /\ t # BrowseNone /\ V.shown = t
        BY <2>3, <2>4
      <4>2. U.frameUrl = t
        BY <1>2, <2>6, <4>1
      <4>3. V.frame = Error \/ V.frame = t
        BY <2>1, <3>1, <4>1, <4>2
      <4> QED  BY <2>2, <4>1, <4>3 DEF Shows, Settling
    <3>3. BrowseFinal[t] = t
      BY <2>2 DEF Settling
    <3>4. Settling(V, m, t)
      BY <2>3, <3>1, <3>2, <3>3 DEF Settling
    <3> QED  BY <3>4 DEF Phase
  <2> QED  BY <1>6, <2>5, <2>6
<1> QED  BY <1>1, <1>6, <1>7, <1>8, <1>9 DEF PanelInv, V, A, u

\* A link of the page in the frame is followed: to another page, or within the page.
LEMMA FollowKeeps ==
    ASSUME NEW U, NEW m, PanelInv(U, m), BrowseOverlap \/ Resting(U, m), NEW u \in BrowseUrls,
           U.frame \in BrowseUrls, u # U.frame
    PROVE  /\ PanelInv(U, Append(m, [url |-> u, mode |-> "hard"]))
           /\ PanelInv([U EXCEPT !.frame = u], Append(m, [url |-> u, mode |-> "soft"]))
<1> DEFINE hard == [url |-> u, mode |-> "hard"]
           soft == [url |-> u, mode |-> "soft"]
           V == [U EXCEPT !.frame = u]
<1>1. Typed(U) /\ U \in Panels /\ m \in Seq(Letter) /\ Believed(U, m) /\ BarHolds(U)
  BY DEF PanelInv, Typed
<1>2. hard \in Letter /\ hard.url = u /\ hard.mode = "hard" /\ soft \in Letter /\ soft.url = u /\ soft.mode = "soft"
  BY DEF Letter
<1>3. V \in Panels /\ V.frame = u /\ SameBar(U, V) /\ V.loads = U.loads /\ V.navs = U.navs
        /\ V.frameUrl = U.frameUrl
  BY <1>1 DEF Panels, Some, SameBar
<1> HIDE DEF hard, soft, V
<1>4. Append(m, hard) \in Seq(Letter) /\ Append(m, soft) \in Seq(Letter)
  BY <1>1, <1>2, LastLetter
<1>5. Typed(V) /\ BarHolds(V)
  BY <1>1, <1>3 DEF Typed, BarHolds, SameBar
<1>6. Believed(U, Append(m, hard))
  BY <1>1, <1>2, FollowingKeepsBelief
<1>7. Believed(V, Append(m, soft))
  BY <1>1, <1>2, <1>3, FollowingKeepsBelief
<1>8. ASSUME ~BrowseOverlap PROVE Phase(U, Append(m, hard)) /\ Phase(V, Append(m, soft))
  <2>1. Resting(U, m) /\ (U.frameUrl = BrowseNone \/ U.frame = Error \/ U.frame = U.frameUrl)
    BY <1>8, RestIsSettled
  <2>2. Append(m, hard) = <<hard>> /\ Append(m, soft) = <<soft>>
    BY <2>1 DEF Resting
  <2>3. u # U.frameUrl
    BY <2>1, BrowseFinalAssumption
  <2>4. Followed(U, <<hard>>)
    BY <1>2, <2>1, <2>3 DEF Followed, Resting
  <2>5. Followed(V, <<soft>>)
    BY <1>2, <1>3, <2>1, <2>3 DEF Followed, Resting, SameBar
  <2> QED  BY <2>2, <2>4, <2>5 DEF Phase
<1> QED  BY <1>1, <1>4, <1>5, <1>6, <1>7, <1>8 DEF PanelInv, hard, soft, V

-----------------------------------------------------------------------------
(* The panel starts in the invariant, and each step keeps it.              *)
BrowseInv == PanelInv(ui, mail) /\ acts \in 0 .. MaxActs

LEMMA BrowseStarts == BrowseInit => BrowseInv
<1> SUFFICES ASSUME NEW u \in Some, ui = load(FreshPanel, u, FALSE, FALSE), mail = <<>>, acts = 0 PROVE BrowseInv
  BY DEF BrowseInit, Some
<1> DEFINE none == <<>>
<1>1. FreshPanel \in Panels /\ FreshPanel.loads = {} /\ FreshPanel.navs = {} /\ FreshPanel.debounce = BrowseNone
        /\ FreshPanel.shown = BrowseNone /\ FreshPanel.frameUrl = BrowseNone
  BY DEF FreshPanel, Panels, Some
<1>2. Typed(FreshPanel)
  BY <1>1, FS_EmptySet DEF Typed
<1>3. acts \in 0 .. MaxActs
  BY BrowseFinalAssumption
<1>4. none \in Seq(Letter) /\ Resting(FreshPanel, none) /\ \A i \in 1 .. Len(none) : FALSE
  BY <1>1 DEF Resting
<1>5. Believed(FreshPanel, none) /\ BarHolds(FreshPanel)
  BY <1>1 DEF Believed, BarHolds
<1>6. Cardinality(FreshPanel.loads) < BrowseMaxLoads
  BY <1>1, FS_EmptySet, BrowseFinalAssumption
<1>7. Phase(FreshPanel, none)
  <2>1. PICK any \in BrowseUrls : TRUE
    BY BrowseFinalAssumption
  <2> DEFINE t == BrowseFinal[any]
  <2>2. t \in BrowseUrls /\ BrowseFinal[t] = t
    BY BrowseFinalAssumption
  <2> HIDE DEF t, none
  <2>3. Settling(FreshPanel, none, t)
    BY <1>1, <1>4, <2>2 DEF Settling
  <2> QED  BY <2>2, <2>3 DEF Phase
<1>8. PanelInv(FreshPanel, none)
  BY <1>2, <1>4, <1>5, <1>7 DEF PanelInv
<1>9. CASE u = BrowseNone
  <2>1. ui = FreshPanel
    BY <1>9 DEF load
  <2> QED  BY <1>3, <1>8, <2>1 DEF BrowseInv
<1>10. CASE u \in BrowseUrls
  <2>1. PanelInv(load(FreshPanel, u, FALSE, FALSE), none)
    BY <1>4, <1>6, <1>8, <1>10, LoadKeeps
  <2> QED  BY <1>3, <2>1 DEF BrowseInv
<1> QED  BY <1>9, <1>10 DEF Some

LEMMA BrowseMoves == BrowseInv /\ [BrowseNext]_browseVars => BrowseInv'
<1> SUFFICES ASSUME BrowseInv, [BrowseNext]_browseVars PROVE BrowseInv'
  OBVIOUS
<1>0. PanelInv(ui, mail) /\ acts \in 0 .. MaxActs /\ MaxActs \in Nat
  BY BrowseFinalAssumption DEF BrowseInv
<1>1. Quiet => Resting(ui, mail)
  BY DEF Quiet, Resting
<1>2. ASSUME Act PROVE acts' \in 0 .. MaxActs /\ mail' = mail /\ (BrowseOverlap \/ Resting(ui, mail))
                         /\ Cardinality(ui.loads) < BrowseMaxLoads
  BY <1>0, <1>1, <1>2 DEF Act, Room
<1>3. ui \in Panels /\ mail \in Seq(Letter)
  BY <1>0 DEF PanelInv, Typed
<1>4. ASSUME NEW u \in BrowseUrls, Submit(u) PROVE BrowseInv'
  <2>1. Act /\ ui' = load(ui, u, TRUE, FALSE)
    BY <1>4 DEF Submit
  <2>2. PanelInv(load(ui, u, TRUE, FALSE), mail)
    BY <1>0, <1>2, <2>1, LoadKeeps
  <2> QED  BY <1>2, <2>1, <2>2 DEF BrowseInv
<1>5. ASSUME NEW u \in BrowseUrls, Pushed(u) PROVE BrowseInv'
  <2> DEFINE W == [ui EXCEPT !.frameUrl = BrowseNone]
  <2>1. Act /\ ui' = load(W, u, FALSE, FALSE)
    BY <1>5 DEF Pushed
  <2>2. PanelInv(W, mail) /\ W.loads = ui.loads /\ (Resting(ui, mail) => Resting(W, mail))
    BY <1>0, <1>2, <2>1, ForgetKeeps
  <2> HIDE DEF W
  <2>3. PanelInv(load(W, u, FALSE, FALSE), mail)
    BY <1>2, <2>1, <2>2, LoadKeeps
  <2> QED  BY <1>2, <2>1, <2>3 DEF BrowseInv
<1>6. ASSUME NEW u \in BrowseUrls, Follow(u) PROVE BrowseInv'
  <2>1. acts' \in 0 .. MaxActs /\ (BrowseOverlap \/ Resting(ui, mail)) /\ ui.frame \in BrowseUrls /\ u # ui.frame
          /\ \/ mail' = Append(mail, [url |-> u, mode |-> "hard"]) /\ ui' = ui
             \/ mail' = Append(mail, [url |-> u, mode |-> "soft"]) /\ ui' = [ui EXCEPT !.frame = u]
    BY <1>0, <1>1, <1>6 DEF Follow
  <2>2. /\ PanelInv(ui, Append(mail, [url |-> u, mode |-> "hard"]))
        /\ PanelInv([ui EXCEPT !.frame = u], Append(mail, [url |-> u, mode |-> "soft"]))
    BY <1>0, <2>1, FollowKeeps
  <2> QED  BY <2>1, <2>2 DEF BrowseInv
<1>7. CASE Refresh
  <2> DEFINE u == IF ui.input # BrowseNone THEN ui.input ELSE ui.pending
  <2>1. Act /\ ui' = IF ui.active /\ u # BrowseNone
                     THEN load(navBrowseFrame(ui, u), ui.input, FALSE, TRUE)
                     ELSE load(ui, ui.input, FALSE, FALSE)
    BY <1>7 DEF Refresh
  <2>2. u \in Some /\ ui.input \in Some
    BY <1>3 DEF Panels
  <2>3. CASE ui.active /\ u # BrowseNone
    <3>1. PanelInv(load(navBrowseFrame(ui, u), ui.input, FALSE, TRUE), mail)
      BY <1>0, <1>2, <2>1, <2>2, <2>3, RefreshKeeps DEF Some
    <3> QED  BY <1>2, <2>1, <2>3, <3>1 DEF BrowseInv
  <2>4. CASE ~(ui.active /\ u # BrowseNone)
    <3>1. PanelInv(load(ui, ui.input, FALSE, FALSE), mail)
      <4>1. CASE ui.input = BrowseNone
        BY <1>0, <4>1 DEF load
      <4>2. CASE ui.input \in BrowseUrls
        BY <1>0, <1>2, <2>1, <4>2, LoadKeeps
      <4> QED  BY <2>2, <4>1, <4>2 DEF Some
    <3> QED  BY <1>2, <2>1, <2>4, <3>1 DEF BrowseInv
  <2> QED  BY <2>3, <2>4
<1>8. CASE activateTab
  <2>1. Act /\ \/ ui' = [ui EXCEPT !.active = FALSE]
               \/ ui' = syncBrowseFrame([ui EXCEPT !.active = TRUE],
                                        IF ui.pending # BrowseNone THEN ui.pending ELSE ui.input)
    BY <1>8 DEF activateTab
  <2>2. PanelInv([ui EXCEPT !.active = FALSE], mail)
    BY <1>0, <1>2, <2>1, LeaveTabKeeps
  <2>3. PanelInv(syncBrowseFrame([ui EXCEPT !.active = TRUE],
                                 IF ui.pending # BrowseNone THEN ui.pending ELSE ui.input), mail)
    BY <1>0, <1>2, <2>1, EnterTabKeeps
  <2> QED  BY <1>2, <2>1, <2>2, <2>3 DEF BrowseInv
<1>9. CASE Message
  <2>1. PanelInv(OnMessage(ui, Head(mail)), Tail(mail))
    BY <1>0, <1>9, MessageKeeps DEF Message
  <2> QED  BY <1>0, <1>9, <2>1 DEF Message, BrowseInv
<1>10. CASE Debounced
  <2>1. PanelInv(load([ui EXCEPT !.debounce = BrowseNone], ui.debounce, FALSE, TRUE), mail)
    BY <1>0, <1>10, DebouncedKeeps DEF Debounced, Room
  <2> QED  BY <1>0, <1>10, <2>1 DEF Debounced, BrowseInv
<1>11. ASSUME NEW l \in ui.loads, LoadAnswered(l) PROVE BrowseInv'
  <2>1. PanelInv(Loaded(ui, l), mail) /\ PanelInv([ui EXCEPT !.loads = @ \ {l}, !.failed = TRUE], mail)
    BY <1>0, LoadedKeeps, LoadFailsKeeps
  <2> QED  BY <1>0, <1>11, <2>1 DEF LoadAnswered, BrowseInv
<1>12. ASSUME NEW n \in ui.navs, NavAnswered(n) PROVE BrowseInv'
  <2> DEFINE failed == [ui EXCEPT !.navs = @ \ {n}, !.frame = IF n.latest THEN Error ELSE @]
             gone == [ui EXCEPT !.navs = @ \ {n}]
             filled == [ui EXCEPT !.navs = @ \ {n}, !.frame = BrowseFinal[n.url]]
  <2>1. PanelInv(failed, mail)
    BY <1>0, NavFailsKeeps
  <2>2. ~n.latest => failed = gone
    BY <1>3 DEF Panels
  <2>3. n.latest => PanelInv(filled, Append(mail, Reported(n)))
    BY <1>0, NavFillsKeeps
  <2>4. acts' = acts /\ \/ ui' = (IF n.latest THEN filled ELSE gone) /\ mail' = (IF n.latest THEN Append(mail, Reported(n)) ELSE mail)
                        \/ ui' = failed /\ mail' = mail
    BY <1>12 DEF NavAnswered, FillIfLatest, Reported
  <2> HIDE DEF failed, gone, filled
  <2> QED  BY <1>0, <2>1, <2>2, <2>3, <2>4 DEF BrowseInv
<1>13. CASE UNCHANGED browseVars
  BY <1>0, <1>13 DEF browseVars, BrowseInv
<1> QED  BY <1>4, <1>5, <1>6, <1>7, <1>8, <1>9, <1>10, <1>11, <1>12, <1>13 DEF BrowseNext

\* In spite of redirects, late answers and links followed meanwhile, the frame shows the
\* page it is believed to show, the bar names it, and with loads one at a time the
\* previews and the frame are of one page (app.js, load, syncBrowseFrame, the messages).
THEOREM BrowsingIsSafe == BrowseSafeSpec => [](BrowseTypeOK /\ FrameAsBelieved /\ BarAgrees /\ FrameAgrees)
<1>1. BrowseInv => BrowseTypeOK /\ FrameAsBelieved /\ BarAgrees /\ FrameAgrees
  <2> SUFFICES ASSUME BrowseInv PROVE BrowseTypeOK /\ FrameAsBelieved /\ BarAgrees /\ FrameAgrees
    OBVIOUS
  <2>0. PanelInv(ui, mail) /\ Typed(ui) /\ ui \in Panels /\ mail \in Seq(Letter) /\ acts \in 0 .. MaxActs
    BY DEF BrowseInv, PanelInv, Typed
  <2>1. BrowseTypeOK
    <3>1. ui.input \in Some /\ ui.shown \in Some /\ ui.pending \in Some /\ ui.frameUrl \in Some
            /\ ui.frame \in Some \cup {Error} /\ ui.debounce \in Some /\ ui.active \in BOOLEAN
            /\ ui.hasBrowse \in BOOLEAN /\ ui.failed \in BOOLEAN /\ ui.loads \subseteq Load /\ ui.navs \subseteq Navigation
      BY <2>0 DEF Panels
    <3>2. \A n1, n2 \in ui.navs : n1.latest /\ n2.latest => n1 = n2
      BY <2>0 DEF Typed
    <3> QED  BY <2>0, <3>1, <3>2 DEF BrowseTypeOK, Some, Navigation, Letter
  <2>2. FrameAsBelieved
    <3> SUFFICES ASSUME Quiet, ui.frameUrl # BrowseNone PROVE ui.frame \in {ui.frameUrl, Error}
      BY DEF FrameAsBelieved
    <3>1. Believed(ui, mail) /\ ui.navs = {} /\ mail = <<>> /\ \A i \in 1 .. Len(mail) : FALSE
      BY <2>0 DEF PanelInv, Quiet
    <3> QED  BY <3>1 DEF Believed, Navigating
  <2>3. BarAgrees
    BY <2>0 DEF PanelInv, BarHolds, BarAgrees, Quiet
  <2>4. FrameAgrees
    <3> SUFFICES ASSUME Quiet, ~BrowseOverlap, ui.shown # BrowseNone, ui.active
                 PROVE  ui.frame = Error \/ (ui.frame \in BrowseUrls /\ BrowseFinal[ui.frame] = ui.shown)
      BY DEF FrameAgrees
    <3>1. Resting(ui, mail)
      BY DEF Quiet, Resting
    <3>2. PICK t \in BrowseUrls : Settling(ui, mail, t)
      BY <2>0, <3>1, RestIsSettled
    <3>3. ui.shown = t /\ Shows(ui, t)
      BY <3>1, <3>2 DEF Settling, Resting
    <3> QED  BY <3>1, <3>3 DEF Shows, Navigating, Resting
  <2> QED  BY <2>1, <2>2, <2>3, <2>4
<1> QED  BY <1>1, BrowseStarts, BrowseMoves, PTL DEF BrowseSafeSpec

-----------------------------------------------------------------------------
(* The diagnostics.  Every load that began is still under way, waits for   *)
(* its transition, was drawn or failed; a probe that would still be shown  *)
(* was begun for the page that is.                                         *)
Begun ==
    /\ started \in 0 .. DiagnosticsMaxLoads /\ IsFiniteSet(diagnosticsLoads)
    /\ diagnosticsLoads \subseteq [page : Pages, no : 1 .. DiagnosticsMaxLoads]
    /\ later \in Seq(Pages) /\ arSeq \in Nat
    /\ arSeq + Len(later) + Cardinality(diagnosticsLoads) <= started

Probing ==
    /\ drawn \in Pages \cup {Skeleton, Nothing} /\ readiness \in Pages \cup {"loading", Nothing}
    /\ probes \subseteq [page : Pages, seq : 1 .. DiagnosticsMaxLoads]
    /\ \A p \in probes : p.seq <= arSeq /\ (p.seq = arSeq /\ drawn \in Pages => p.page = drawn)
    /\ ReadinessOfShown

Explained == NoSkeletonLeft /\ status \in BOOLEAN

Barred ==
    /\ bar \in [busy : BOOLEAN, filling : BOOLEAN, emptying : BOOLEAN, width : {"empty", "part", "full"}]
    /\ BarFills

Labels == {"own", "none", "busy", "done", "error"}

\* A button that is disabled has one outcome to come, or one to take away.
ButtonOK(b) ==
    /\ b \in [disabled : BOOLEAN, class : Labels, label : Labels, posts : Seq(Labels), resets : Seq(Labels)]
    /\ IF b.disabled
       THEN \/ b.posts = <<"own">> /\ b.resets = <<>>
            \/ b.posts = <<>> /\ b.resets = <<"own">>
       ELSE b.posts = <<>> /\ b.resets = <<>> /\ b.label = "own" /\ b.class = "none"

DrawingInv == Begun /\ Probing /\ Explained /\ Barred /\ ButtonOK(button)

\* What a click, an answer and the timer of the outcome make of a button.
LEMMA FreshIsOK == ButtonOK(FreshButton)
  BY DEF ButtonOK, FreshButton, Labels

LEMMA ClickedIsOK == ASSUME NEW b, ButtonOK(b), ~b.disabled PROVE ButtonOK(Clicked(b))
<1>1. b.posts = <<>> /\ b.resets = <<>> /\ b.label = "own"
  BY DEF ButtonOK
<1>2. Append(b.posts, b.label) = <<"own">>
  BY <1>1
<1>3. Clicked(b).disabled /\ Clicked(b).posts = <<"own">> /\ Clicked(b).resets = <<>>
  BY <1>1, <1>2 DEF ButtonOK, Clicked
<1>4. Clicked(b) \in [disabled : BOOLEAN, class : Labels, label : Labels, posts : Seq(Labels), resets : Seq(Labels)]
  <2>1. <<"own">> \in Seq(Labels)
    BY DEF Labels
  <2>2. Clicked(b) = [b EXCEPT !.disabled = TRUE, !.class = "busy", !.label = "busy", !.posts = <<"own">>]
    BY <1>2 DEF ButtonOK, Clicked
  <2> QED  BY <2>1, <2>2 DEF ButtonOK, Labels
<1> QED  BY <1>3, <1>4 DEF ButtonOK

LEMMA OutcomeIsOK ==
    ASSUME NEW b, ButtonOK(b), b.posts # <<>>, NEW outcome \in {"done", "error"}
    PROVE  ButtonOK(Outcome(b, outcome))
<1>1. b.posts = <<"own">> /\ b.resets = <<>> /\ b.disabled
  BY DEF ButtonOK
<1>2. Tail(b.posts) = <<>> /\ Head(b.posts) = "own" /\ Append(b.resets, Head(b.posts)) = <<"own">>
  BY <1>1
<1> DEFINE o == Outcome(b, outcome)
<1>3. o.disabled /\ o.posts = <<>> /\ o.resets = <<"own">>
  BY <1>1, <1>2 DEF ButtonOK, Outcome
<1>4. o \in [disabled : BOOLEAN, class : Labels, label : Labels, posts : Seq(Labels), resets : Seq(Labels)]
  BY <1>2 DEF ButtonOK, Outcome, Labels
<1> QED  BY <1>3, <1>4 DEF ButtonOK

LEMMA ResetIsOK == ASSUME NEW b, ButtonOK(b), b.resets # <<>> PROVE ButtonOK(Reset(b))
<1>1. b.posts = <<>> /\ b.resets = <<"own">>
  BY DEF ButtonOK
<1>2. Tail(b.resets) = <<>> /\ Head(b.resets) = "own"
  BY <1>1
<1> DEFINE r == Reset(b)
<1>3. ~r.disabled /\ r.posts = <<>> /\ r.resets = <<>> /\ r.label = "own" /\ r.class = "none"
  BY <1>1, <1>2 DEF ButtonOK, Reset
<1>4. r \in [disabled : BOOLEAN, class : Labels, label : Labels, posts : Seq(Labels), resets : Seq(Labels)]
  BY <1>2 DEF ButtonOK, Reset, Labels
<1> QED  BY <1>3, <1>4 DEF ButtonOK

\* A load that ends leaves one fewer.
LEMMA OneFewer ==
    ASSUME NEW S, IsFiniteSet(S), NEW x \in S
    PROVE  IsFiniteSet(S \ {x}) /\ Cardinality(S \ {x}) = Cardinality(S) - 1 /\ Cardinality(S) \in Nat
  BY FS_RemoveElement, FS_CardinalityType

LEMMA OneMore ==
    ASSUME NEW S, IsFiniteSet(S), NEW x
    PROVE  IsFiniteSet(S \cup {x}) /\ Cardinality(S \cup {x}) <= Cardinality(S) + 1
             /\ Cardinality(S \cup {x}) \in Nat /\ Cardinality(S) \in Nat
  BY FS_AddElement, FS_CardinalityType

\* Nothing is drawn at first.
LEMMA DrawingStarts == DiagnosticsInit => DrawingInv
<1> SUFFICES ASSUME DiagnosticsInit PROVE DrawingInv
  OBVIOUS
<1> USE DiagnosticsBoundsAssumption DEF DiagnosticsInit
<1>1. Begun
  BY FS_EmptySet DEF Begun
<1>2. Probing
  BY DEF Probing, ReadinessOfShown, Nothing
<1>3. Explained
  BY DEF Explained, NoSkeletonLeft, Nothing, Skeleton
<1>4. Barred
  BY DEF Barred, BarFills
<1> QED  BY <1>1, <1>2, <1>3, <1>4, FreshIsOK DEF DrawingInv

\* Drawing a page, which is the next load's turn of arSeq.
LEMMA RenderKeeps ==
    ASSUME Probing, arSeq \in Nat, arSeq + 1 <= DiagnosticsMaxLoads, NEW p \in Pages, Render(p)
    PROVE  Probing' /\ NoSkeletonLeft' /\ ButtonOK(button')
<1> USE DiagnosticsBoundsAssumption
<1>1. drawn' = p /\ readiness' = "loading" /\ button' = FreshButton /\ arSeq' = arSeq + 1
        /\ probes' = probes \cup {[page |-> p, seq |-> arSeq + 1]}
  BY DEF Render
<1>2. arSeq + 1 \in 1 .. DiagnosticsMaxLoads
  OBVIOUS
<1>3. probes' \subseteq [page : Pages, seq : 1 .. DiagnosticsMaxLoads]
  BY <1>1, <1>2 DEF Probing
<1>4. \A q \in probes : q.seq <= arSeq' /\ q.seq # arSeq'
  BY <1>1 DEF Probing
<1>5. \A q \in probes' : q.seq <= arSeq' /\ (q.seq = arSeq' => q.page = drawn')
  BY <1>1, <1>4
<1>6. Probing'
  BY <1>1, <1>3, <1>5 DEF Probing, ReadinessOfShown
<1>7. NoSkeletonLeft'
  BY <1>1 DEF NoSkeletonLeft, Skeleton
<1> QED  BY <1>1, <1>6, <1>7, FreshIsOK

\* Each step keeps the invariant.
LEMMA DrawingMoves == DrawingInv /\ [DiagnosticsNext]_diagnosticsVars => DrawingInv'
<1> SUFFICES ASSUME DrawingInv, [DiagnosticsNext]_diagnosticsVars PROVE DrawingInv'
  OBVIOUS
<1> USE DiagnosticsBoundsAssumption
<1>0. Begun /\ Probing /\ Explained /\ Barred /\ ButtonOK(button)
  BY DEF DrawingInv
<1>1. ASSUME NEW p \in Pages, diagnosticsLoad(p) PROVE DrawingInv'
  <2>1. started < DiagnosticsMaxLoads /\ started' = started + 1
          /\ diagnosticsLoads' = diagnosticsLoads \cup {[page |-> p, no |-> started + 1]}
          /\ drawn' = Skeleton /\ readiness' = Nothing /\ button' = FreshButton
          /\ bar' = [startProgress(bar) EXCEPT !.busy = TRUE]
          /\ UNCHANGED <<later, arSeq, probes, status>>
    BY <1>1 DEF diagnosticsLoad
  <2>2. diagnosticsLoads' \subseteq [page : Pages, no : 1 .. DiagnosticsMaxLoads]
    BY <1>0, <2>1 DEF Begun
  <2>3. IsFiniteSet(diagnosticsLoads') /\ Cardinality(diagnosticsLoads') <= Cardinality(diagnosticsLoads) + 1
          /\ Cardinality(diagnosticsLoads') \in Nat /\ Cardinality(diagnosticsLoads) \in Nat
    BY <1>0, <2>1, OneMore DEF Begun
  <2>4. Begun'
    BY <1>0, <2>1, <2>2, <2>3 DEF Begun
  <2>5. Probing'
    BY <1>0, <2>1 DEF Probing, ReadinessOfShown, Skeleton
  <2>6. Explained'
    BY <1>0, <2>1 DEF Explained, NoSkeletonLeft
  <2>7. Barred'
    BY <1>0, <2>1 DEF Barred, BarFills, startProgress
  <2> QED  BY <2>1, <2>4, <2>5, <2>6, <2>7, FreshIsOK DEF DrawingInv
<1>2. ASSUME NEW l \in diagnosticsLoads, DiagnosticsLoadAnswered(l) PROVE DrawingInv'
  <2>1. started' = started /\ diagnosticsLoads' = diagnosticsLoads \ {l} /\ status' = FALSE
          /\ bar' = [finishProgress(bar) EXCEPT !.busy = FALSE]
    BY <1>2 DEF DiagnosticsLoadAnswered, Ended
  <2>2. l.page \in Pages /\ withTransition(l.page)
    BY <1>0, <1>2 DEF DiagnosticsLoadAnswered, Begun
  <2>3. IsFiniteSet(diagnosticsLoads') /\ Cardinality(diagnosticsLoads') = Cardinality(diagnosticsLoads) - 1
          /\ Cardinality(diagnosticsLoads') \in Nat /\ Cardinality(diagnosticsLoads) \in Nat
    BY <1>0, <2>1, OneFewer, FS_CardinalityType DEF Begun
  <2>4. Barred'
    BY <1>0, <2>1 DEF Barred, BarFills, finishProgress
  <2>5. CASE Transitions
    <3>1. later' = Append(later, l.page) /\ UNCHANGED <<drawn, readiness, button, arSeq, probes>>
      BY <2>2, <2>5 DEF withTransition
    <3>2. later' \in Seq(Pages) /\ Len(later') = Len(later) + 1 /\ later' # <<>>
      BY <1>0, <2>2, <3>1 DEF Begun
    <3>3. Begun'
      BY <1>0, <2>1, <2>3, <3>1, <3>2 DEF Begun
    <3>4. Probing'
      BY <1>0, <3>1 DEF Probing, ReadinessOfShown
    <3>5. Explained'
      BY <2>1, <3>2 DEF Explained, NoSkeletonLeft
    <3> QED  BY <1>0, <2>4, <3>1, <3>3, <3>4, <3>5 DEF DrawingInv
  <2>6. CASE ~Transitions
    <3>1. Render(l.page) /\ later' = later
      BY <2>2, <2>6 DEF withTransition
    <3>2. Len(later) \in Nat
      BY <1>0 DEF Begun
    <3>3. arSeq \in Nat /\ arSeq + 1 <= DiagnosticsMaxLoads
      BY <1>0, <2>3, <3>2 DEF Begun
    <3>4. Probing' /\ NoSkeletonLeft' /\ ButtonOK(button')
      BY <1>0, <2>2, <3>1, <3>3, RenderKeeps
    <3>5. arSeq' = arSeq + 1
      BY <3>1 DEF Render
    <3>6. Begun'
      BY <1>0, <2>1, <2>3, <3>1, <3>2, <3>5 DEF Begun
    <3> QED  BY <2>1, <2>4, <3>4, <3>6 DEF DrawingInv, Explained
  <2> QED  BY <2>5, <2>6
<1>3. ASSUME NEW l \in diagnosticsLoads, LoadFailed(l) PROVE DrawingInv'
  <2>1. started' = started /\ diagnosticsLoads' = diagnosticsLoads \ {l} /\ status' = TRUE
          /\ bar' = [finishProgress(bar) EXCEPT !.busy = FALSE]
          /\ UNCHANGED <<later, drawn, readiness, button, arSeq, probes>>
    BY <1>3 DEF LoadFailed, Ended
  <2>2. IsFiniteSet(diagnosticsLoads') /\ Cardinality(diagnosticsLoads') = Cardinality(diagnosticsLoads) - 1
          /\ Cardinality(diagnosticsLoads') \in Nat /\ Cardinality(diagnosticsLoads) \in Nat
    BY <1>0, <2>1, OneFewer, FS_CardinalityType DEF Begun
  <2>3. Len(later) \in Nat
    BY <1>0 DEF Begun
  <2>4. Begun'
    BY <1>0, <2>1, <2>2, <2>3 DEF Begun
  <2>5. Probing'
    BY <1>0, <2>1 DEF Probing, ReadinessOfShown
  <2>6. Barred'
    BY <1>0, <2>1 DEF Barred, BarFills, finishProgress
  <2>7. Explained'
    BY <2>1 DEF Explained, NoSkeletonLeft
  <2> QED  BY <1>0, <2>1, <2>4, <2>5, <2>6, <2>7 DEF DrawingInv
<1>4. CASE TransitionDraws
  <2>1. later # <<>> /\ later' = Tail(later) /\ Render(Head(later))
          /\ UNCHANGED <<started, diagnosticsLoads, status, bar>>
    BY <1>4 DEF TransitionDraws
  <2>2. Head(later) \in Pages /\ later' \in Seq(Pages) /\ Len(later') = Len(later) - 1 /\ Len(later) \in Nat /\ Len(later) >= 1
    BY <1>0, <2>1 DEF Begun
  <2>3. Cardinality(diagnosticsLoads) \in Nat
    BY <1>0, FS_CardinalityType DEF Begun
  <2>4. arSeq \in Nat /\ arSeq + 1 <= DiagnosticsMaxLoads
    BY <1>0, <2>2, <2>3 DEF Begun
  <2>5. Probing' /\ NoSkeletonLeft' /\ ButtonOK(button')
    BY <1>0, <2>1, <2>2, <2>4, RenderKeeps
  <2>6. arSeq' = arSeq + 1
    BY <2>1 DEF Render
  <2>7. Begun'
    BY <1>0, <2>1, <2>2, <2>3, <2>6 DEF Begun
  <2>8. Barred' /\ Explained'
    BY <1>0, <2>1, <2>5 DEF Barred, BarFills, Explained
  <2> QED  BY <2>5, <2>7, <2>8 DEF DrawingInv
<1>5. CASE BarEmpties
  <2>1. bar' = [bar EXCEPT !.emptying = FALSE, !.width = "empty"]
          /\ UNCHANGED <<started, diagnosticsLoads, later, drawn, readiness, arSeq, probes, status, button>>
    BY <1>5 DEF BarEmpties
  <2>2. Barred'
    BY <1>0, <2>1 DEF Barred, BarFills
  <2> QED  BY <1>0, <2>1, <2>2 DEF DrawingInv, Begun, Probing, ReadinessOfShown, Explained, NoSkeletonLeft
<1>6. ASSUME NEW p \in probes, ProbeAnswered(p) \/ ProbeFailed(p) PROVE DrawingInv'
  <2>1. probes' = probes \ {p} /\ readiness' = (IF Fills(p) THEN p.page ELSE readiness)
          /\ UNCHANGED <<started, diagnosticsLoads, later, drawn, arSeq, status, bar, button>>
    BY <1>6 DEF ProbeAnswered, ProbeFailed, ProbeEnds, Failure
  <2>2. p.page \in Pages /\ (Fills(p) => p.page = drawn)
    BY <1>0 DEF Probing, Fills
  <2>3. readiness' \in Pages \cup {"loading", Nothing} /\ ReadinessOfShown'
    BY <1>0, <2>1, <2>2 DEF Probing, ReadinessOfShown
  <2>4. Probing'
    BY <1>0, <2>1, <2>3 DEF Probing
  <2> QED  BY <1>0, <2>1, <2>4 DEF DrawingInv, Begun, Barred, BarFills, Explained, NoSkeletonLeft
<1>7. CASE Click \/ PostEnds \/ ResetFires
  <2>1. ButtonOK(button')
    <3>1. CASE Click
      BY <1>0, <3>1, ClickedIsOK DEF Click
    <3>2. CASE PostEnds
      BY <1>0, <3>2, OutcomeIsOK DEF PostEnds
    <3>3. CASE ResetFires
      BY <1>0, <3>3, ResetIsOK DEF ResetFires
    <3> QED  BY <1>7, <3>1, <3>2, <3>3
  <2>2. UNCHANGED <<started, diagnosticsLoads, later, drawn, readiness, arSeq, probes, status, bar>>
    BY <1>7 DEF Click, PostEnds, ResetFires, OnScreen
  <2> QED  BY <1>0, <2>1, <2>2 DEF DrawingInv, Begun, Probing, ReadinessOfShown, Barred, BarFills, Explained, NoSkeletonLeft
<1>8. CASE UNCHANGED diagnosticsVars
  BY <1>0, <1>8 DEF diagnosticsVars, DrawingInv, Begun, Probing, ReadinessOfShown, Barred, BarFills, Explained, NoSkeletonLeft
<1> QED  BY <1>1, <1>2, <1>3, <1>4, <1>5, <1>6, <1>7, <1>8 DEF DiagnosticsNext, DiagnosticsAnswers, DiagnosticsTimers

\* The diagnostics are of the page that is shown, whatever is loaded while its probes are
\* under way; a skeleton is explained; a button asks once (app.js, load, renderDiagnostics).
THEOREM DiagnosticsAreSafe ==
    DiagnosticsSafeSpec =>
        [](DiagnosticsTypeOK /\ ReadinessOfShown /\ NoSkeletonLeft /\ EnabledIsFresh /\ BarFills /\ GuidanceForAll)
<1>1. DrawingInv =>
        DiagnosticsTypeOK /\ ReadinessOfShown /\ NoSkeletonLeft /\ EnabledIsFresh /\ BarFills /\ GuidanceForAll
  <2> SUFFICES ASSUME DrawingInv
               PROVE  DiagnosticsTypeOK /\ ReadinessOfShown /\ NoSkeletonLeft /\ EnabledIsFresh /\ BarFills /\ GuidanceForAll
    OBVIOUS
  <2> USE DEF DrawingInv
  <2>1. Len(later) \in Nat /\ Cardinality(diagnosticsLoads) \in Nat
    BY FS_CardinalityType DEF Begun
  <2>2. arSeq \in 0 .. DiagnosticsMaxLoads
    BY <2>1, DiagnosticsBoundsAssumption DEF Begun
  <2>3. Len(button.posts) + Len(button.resets) <= 1
    <3>1. Len(<<>>) = 0 /\ Len(<<"own">>) = 1
      OBVIOUS
    <3>2. CASE button.posts = <<"own">> /\ button.resets = <<>>
      BY <3>1, <3>2
    <3>3. CASE button.posts = <<>> /\ button.resets = <<"own">>
      BY <3>1, <3>3
    <3>4. CASE button.posts = <<>> /\ button.resets = <<>>
      BY <3>1, <3>4
    <3> QED  BY <3>2, <3>3, <3>4 DEF ButtonOK
  <2>4. DiagnosticsTypeOK
    BY <2>2, <2>3 DEF DiagnosticsTypeOK, Begun, Probing, Barred
  <2>5. ReadinessOfShown /\ NoSkeletonLeft /\ BarFills
    BY DEF Probing, Explained, Barred
  <2>6. EnabledIsFresh
    BY DEF EnabledIsFresh, ButtonOK
  <2>7. GuidanceForAll
    BY DEF GuidanceForAll, DiagnosticIds, ImageIds, LengthIds, ReadinessIds, DiagHelp, AgentHelp
  <2> QED  BY <2>4, <2>5, <2>6, <2>7
<1> QED  BY <1>1, DrawingStarts, DrawingMoves, PTL DEF DiagnosticsSafeSpec

-----------------------------------------------------------------------------
(* The tabs, the layout and the footer.  The tab a key chose is active, or *)
(* the last that a transition will activate; the storage follows.          *)
OneTab == \E t \in Tabs : tabs = {t} /\ panels = {t}

LastAsked ==
    keyed => /\ focus \in Tabs
             /\ IF chromeLater = <<>> THEN tabs = {focus} ELSE chromeLater[Len(chromeLater)] = focus

Restorable ==
    Storage => /\ stored = [tab |-> stored.tab, layout |-> layout, footer |-> stored.footer]
               /\ tabs = {stored.tab} /\ footer = (stored.footer = "1")

ChromeInv ==
    /\ OneTab /\ LastAsked /\ Restorable
    /\ focus \in Tabs \cup {ChromeNone} /\ chromeLater \in Seq(Tabs)
    /\ layout \in {"list", "grid"} /\ footer \in BOOLEAN

\* The four tabs and the places of the arrow keys.
LEMMA FourTabs == Tabs = {"browse", "previews", "raw", "diagnostics"} /\ ChromeNone \notin Tabs
<1>1. Tabs = {TabOrder[i] : i \in 1 .. 4}
  BY DEF Tabs, ToSet, TabOrder
<1>2. Tabs = {TabOrder[1], TabOrder[2], TabOrder[3], TabOrder[4]}
  BY <1>1
<1> QED  BY <1>2 DEF TabOrder, ChromeNone

LEMMA FourPlaces ==
    /\ IndexOf("browse") = 1 /\ IndexOf("previews") = 2 /\ IndexOf("raw") = 3 /\ IndexOf("diagnostics") = 4
<1>1. DOMAIN TabOrder = 1 .. 4
  BY DEF TabOrder
<1>2. TabOrder[1] = "browse" /\ TabOrder[2] = "previews" /\ TabOrder[3] = "raw" /\ TabOrder[4] = "diagnostics"
  BY DEF TabOrder
<1>3. ASSUME NEW i \in 1 .. 4, NEW t, TabOrder[i] = t PROVE IndexOf(t) = i
  <2>1. \A j \in DOMAIN TabOrder : TabOrder[j] = t => j = i
    BY <1>1, <1>2, <1>3
  <2> QED  BY <1>1, <1>3, <2>1 DEF IndexOf
<1> QED  BY <1>2, <1>3

LEMMA Arrows ==
    /\ Neighbour("browse", "ArrowRight") = "previews" /\ Neighbour("previews", "ArrowRight") = "raw"
    /\ Neighbour("raw", "ArrowRight") = "diagnostics" /\ Neighbour("diagnostics", "ArrowRight") = "browse"
    /\ Neighbour("browse", "ArrowLeft") = "diagnostics" /\ Neighbour("previews", "ArrowLeft") = "browse"
    /\ Neighbour("raw", "ArrowLeft") = "previews" /\ Neighbour("diagnostics", "ArrowLeft") = "raw"
<1>1. Len(TabOrder) = 4 /\ TabOrder[1] = "browse" /\ TabOrder[2] = "previews" /\ TabOrder[3] = "raw" /\ TabOrder[4] = "diagnostics"
  BY DEF TabOrder
<1>2. 1 % 4 = 1 /\ 2 % 4 = 2 /\ 3 % 4 = 3 /\ 4 % 4 = 0 /\ 5 % 4 = 1 /\ 6 % 4 = 2
  BY SMT
<1>3. \A t : Neighbour(t, "ArrowRight") = TabOrder[(IndexOf(t) % 4) + 1]
  BY <1>1 DEF Neighbour
<1>4. \A t : Neighbour(t, "ArrowLeft") = TabOrder[((IndexOf(t) + 4 - 2) % 4) + 1]
  BY <1>1 DEF Neighbour
<1> QED  BY <1>1, <1>2, <1>3, <1>4, FourPlaces

LEMMA NeighboursAreTabs ==
    ASSUME NEW t \in Tabs, NEW key \in {"ArrowRight", "ArrowLeft", "Home", "End"} PROVE Neighbour(t, key) \in Tabs
<1>1. CASE key \in {"ArrowRight", "ArrowLeft"}
  BY <1>1, Arrows, FourTabs
<1>2. CASE key = "Home"
  <2>1. Neighbour(t, key) = TabOrder[1]
    BY <1>2 DEF Neighbour
  <2> QED  BY <2>1, FourTabs DEF TabOrder
<1>3. CASE key = "End"
  <2>1. Neighbour(t, key) = TabOrder[4]
    BY <1>3 DEF Neighbour, TabOrder
  <2> QED  BY <2>1, FourTabs DEF TabOrder
<1> QED  BY <1>1, <1>2, <1>3

\* The panel starts at its first tab.
LEMMA ChromeStarts == ChromeInit => ChromeInv
<1> SUFFICES ASSUME ChromeInit PROVE ChromeInv
  OBVIOUS
<1> USE FourTabs DEF ChromeInit
<1>1. OneTab
  BY DEF OneTab
<1>2. LastAsked
  BY DEF LastAsked
<1>3. Restorable
  BY DEF Restorable, ChromeNone
<1>4. focus \in Tabs \cup {ChromeNone} /\ layout \in {"list", "grid"} /\ footer \in BOOLEAN
  OBVIOUS
<1>5. chromeLater \in Seq(Tabs)
  OBVIOUS
<1> QED  BY <1>1, <1>2, <1>3, <1>4, <1>5 DEF ChromeInv

\* A tab that is asked for is the last that a transition will activate.
LEMMA AskKeeps ==
    ASSUME ChromeInv, NEW t \in Tabs, Ask(t), focus' = t, keyed' \in BOOLEAN
    PROVE  ChromeInv'
<1>1. chromeLater \in Seq(Tabs) /\ chromeLater' = Append(chromeLater, t)
        /\ UNCHANGED <<tabs, panels, layout, footer, stored>>
  BY DEF Ask, ChromeInv
<1>2. chromeLater' \in Seq(Tabs) /\ chromeLater' # <<>> /\ chromeLater'[Len(chromeLater')] = t
  BY <1>1
<1>3. LastAsked'
  BY <1>2 DEF LastAsked
<1> QED  BY <1>1, <1>2, <1>3 DEF ChromeInv, OneTab, Restorable

\* Each step of the frame of the panel keeps the invariant.
LEMMA ChromeMoves == ChromeInv /\ [ChromeNext]_chromeVars => ChromeInv'
<1> SUFFICES ASSUME ChromeInv, [ChromeNext]_chromeVars PROVE ChromeInv'
  OBVIOUS
<1>0. OneTab /\ LastAsked /\ Restorable /\ focus \in Tabs \cup {ChromeNone} /\ chromeLater \in Seq(Tabs)
        /\ layout \in {"list", "grid"} /\ footer \in BOOLEAN
  BY DEF ChromeInv
<1>1. ASSUME NEW t \in Tabs, ClickTab(t) PROVE ChromeInv'
  <2>1. CASE t \in tabs
    <3>1. focus' = t /\ keyed' = FALSE /\ UNCHANGED <<tabs, panels, chromeLater, layout, footer, stored>>
      BY <1>1, <2>1 DEF ClickTab, Ignore
    <3> QED  BY <1>0, <3>1 DEF ChromeInv, OneTab, LastAsked, Restorable
  <2>2. CASE t \notin tabs
    BY <1>1, <2>2, AskKeeps DEF ClickTab
  <2> QED  BY <2>1, <2>2
<1>2. ASSUME NEW key \in {"ArrowRight", "ArrowLeft", "Home", "End"}, KeyTab(key) PROVE ChromeInv'
  BY <1>2, AskKeeps, NeighboursAreTabs DEF KeyTab
<1>3. CASE TransitionRuns
  <2> DEFINE t == Head(chromeLater)
  <2>1. chromeLater # <<>> /\ chromeLater' = Tail(chromeLater) /\ tabs' = {t} /\ panels' = {t}
          /\ stored' = (IF Storage THEN [stored EXCEPT !.tab = t] ELSE stored)
          /\ UNCHANGED <<focus, keyed, layout, footer>>
    BY <1>3 DEF TransitionRuns, chromeActivateTab
  <2>2. t \in Tabs /\ chromeLater' \in Seq(Tabs) /\ t = chromeLater[1]
    BY <1>0, <2>1
  <2>3. LastAsked'
    <3>1. Len(chromeLater) \in Nat /\ Len(chromeLater) >= 1 /\ Len(chromeLater') = Len(chromeLater) - 1
      BY <1>0, <2>1
    <3>2. CASE chromeLater' = <<>>
      <4>1. Len(chromeLater) = 1
        BY <3>1, <3>2
      <4> QED  BY <1>0, <2>1, <2>2, <3>2, <4>1 DEF LastAsked
    <3>3. CASE chromeLater' # <<>>
      <4>1. Len(chromeLater') >= 1
        BY <2>2, <3>3
      <4>2. chromeLater'[Len(chromeLater')] = chromeLater[Len(chromeLater)]
        BY <1>0, <2>1, <3>1, <4>1
      <4> QED  BY <1>0, <2>1, <3>3, <4>2 DEF LastAsked
    <3> QED  BY <3>2, <3>3
  <2>4. OneTab'
    BY <2>1, <2>2 DEF OneTab
  <2>5. Restorable'
    <3> SUFFICES ASSUME Storage PROVE Restorable'
      BY DEF Restorable
    <3>1. stored = [tab |-> stored.tab, layout |-> layout, footer |-> stored.footer] /\ footer = (stored.footer = "1")
      BY <1>0 DEF Restorable
    <3>2. stored' = [tab |-> t, layout |-> layout, footer |-> stored.footer]
      BY <2>1, <3>1
    <3> QED  BY <2>1, <3>1, <3>2 DEF Restorable
  <2> QED  BY <1>0, <2>1, <2>2, <2>3, <2>4, <2>5 DEF ChromeInv
<1>4. ASSUME NEW mode \in {"list", "grid"}, ClickLayout(mode) PROVE ChromeInv'
  <2>1. layout' \in {"list", "grid"} /\ stored' = (IF Storage THEN [stored EXCEPT !.layout = layout'] ELSE stored)
          /\ UNCHANGED <<tabs, panels, focus, keyed, chromeLater, footer>>
    BY <1>4 DEF ClickLayout, setPreviewsLayout, Frame
  <2>2. Restorable'
    <3> SUFFICES ASSUME Storage PROVE Restorable'
      BY DEF Restorable
    <3>1. stored = [tab |-> stored.tab, layout |-> layout, footer |-> stored.footer] /\ footer = (stored.footer = "1")
            /\ tabs = {stored.tab}
      BY <1>0 DEF Restorable
    <3>2. stored' = [tab |-> stored.tab, layout |-> layout', footer |-> stored.footer]
      BY <2>1, <3>1
    <3> QED  BY <2>1, <3>1, <3>2 DEF Restorable
  <2> QED  BY <1>0, <2>1, <2>2 DEF ChromeInv, OneTab, LastAsked
<1>5. CASE ToggleFooter
  <2>1. footer' = ~footer /\ stored' = (IF Storage THEN [stored EXCEPT !.footer = IF ~footer THEN "1" ELSE "0"] ELSE stored)
          /\ UNCHANGED <<tabs, panels, focus, keyed, chromeLater, layout>>
    BY <1>5 DEF ToggleFooter, setFooterOpen, Frame
  <2>2. Restorable'
    <3> SUFFICES ASSUME Storage PROVE Restorable'
      BY DEF Restorable
    <3>1. stored = [tab |-> stored.tab, layout |-> layout, footer |-> stored.footer] /\ tabs = {stored.tab}
      BY <1>0 DEF Restorable
    <3>2. stored' = [tab |-> stored.tab, layout |-> layout, footer |-> IF ~footer THEN "1" ELSE "0"]
      BY <2>1, <3>1
    <3>3. footer' = (stored'.footer = "1")
      BY <1>0, <2>1, <3>2
    <3> QED  BY <2>1, <3>1, <3>2, <3>3 DEF Restorable
  <2> QED  BY <1>0, <2>1, <2>2 DEF ChromeInv, OneTab, LastAsked
<1>6. CASE Reload
  <2> DEFINE l == ChromeLoad(stored)
  <2>1. layout' = l.layout /\ footer' = l.footer /\ tabs' = {l.tab} /\ panels' = {l.tab}
          /\ stored' = (IF Storage THEN [stored EXCEPT !.layout = l.layout, !.tab = l.tab] ELSE stored)
          /\ focus' = ChromeNone /\ keyed' = FALSE /\ chromeLater' = <<>>
    BY <1>6 DEF Reload
  <2>2. l.tab \in Tabs /\ l.layout \in {"list", "grid"} /\ l.footer = (Saved(stored, "footer") = "1")
    BY FourTabs DEF ChromeLoad, StartTab
  <2>3. Restorable'
    <3> SUFFICES ASSUME Storage PROVE Restorable'
      BY DEF Restorable
    <3>1. stored = [tab |-> stored.tab, layout |-> layout, footer |-> stored.footer]
      BY <1>0 DEF Restorable
    <3>2. stored' = [tab |-> l.tab, layout |-> l.layout, footer |-> stored.footer]
      BY <2>1, <3>1
    <3>3. Saved(stored, "footer") = stored.footer
      BY DEF Saved
    <3> QED  BY <2>1, <2>2, <3>2, <3>3 DEF Restorable
  <2> QED  BY <2>1, <2>2, <2>3 DEF ChromeInv, OneTab, LastAsked
<1>7. CASE ClickCopy \/ CopyTimer \/ UNCHANGED chromeVars
  <2>1. UNCHANGED <<tabs, panels, focus, keyed, chromeLater, layout, footer, stored>>
    BY <1>7 DEF ClickCopy, CopyTimer, chromeVars
  <2> QED  BY <1>0, <2>1 DEF ChromeInv, OneTab, LastAsked, Restorable
<1> QED  BY <1>1, <1>2, <1>3, <1>4, <1>5, <1>6, <1>7 DEF ChromeNext

\* One tab is active with its panel; the tab a key chose becomes the active one, whatever
\* transitions run meanwhile; the arrows go round (app.js, activateTab).
THEOREM ChromeIsSafe == ChromeSpec => [](ChromeTypeOK /\ ArrowsGoRound /\ FocusedIsActive)
<1>1. ChromeInv => ChromeTypeOK /\ ArrowsGoRound /\ FocusedIsActive
  <2> SUFFICES ASSUME ChromeInv PROVE ChromeTypeOK /\ ArrowsGoRound /\ FocusedIsActive
    OBVIOUS
  <2> USE DEF ChromeInv
  <2>1. ChromeTypeOK
    BY FS_Singleton DEF ChromeTypeOK, OneTab
  <2>2. ArrowsGoRound
    BY FourTabs, Arrows DEF ArrowsGoRound
  <2>3. FocusedIsActive
    BY DEF FocusedIsActive, LastAsked
  <2> QED  BY <2>1, <2>2, <2>3
<1> QED  BY <1>1, ChromeStarts, ChromeMoves, PTL DEF ChromeSpec

\* Where the browser stores it, a reload shows what the visitor left (app.js, the script
\* from its start).
THEOREM ChromeIsRemembered == ChromeSpec => [][Remembered]_chromeVars
<1>1. ChromeInv => Remembered
  <2> SUFFICES ASSUME ChromeInv, Storage, Reload PROVE tabs' = tabs /\ layout' = layout /\ footer' = footer
    BY DEF Remembered
  <2>1. stored = [tab |-> stored.tab, layout |-> layout, footer |-> stored.footer]
          /\ tabs = {stored.tab} /\ footer = (stored.footer = "1")
          /\ OneTab /\ layout \in {"list", "grid"}
    BY DEF ChromeInv, Restorable
  <2>2. stored.tab \in Tabs /\ stored.layout = layout
    BY <2>1 DEF OneTab
  <2>3. Saved(stored, "layout") = layout /\ Saved(stored, "tab") = stored.tab /\ Saved(stored, "footer") = stored.footer
    BY <2>1, <2>2 DEF Saved
  <2>4. ChromeLoad(stored).layout = layout /\ ChromeLoad(stored).tab = stored.tab
          /\ ChromeLoad(stored).footer = (stored.footer = "1")
    BY <2>1, <2>2, <2>3 DEF ChromeLoad, StartTab
  <2> QED  BY <2>1, <2>4 DEF Reload
<1> QED  BY <1>1, ChromeStarts, ChromeMoves, PTL DEF ChromeSpec

-----------------------------------------------------------------------------
(* The card of a link.  Only the answer to the last request may fill a     *)
(* card that is seen; a timer to hide it, or the pointer, is there for it.  *)
CardTypes ==
    /\ over \in Files \cup {HovercardNone, Card}
    /\ codeShowTimer \in Files \cup {HovercardNone} /\ codeHideTimer \in BOOLEAN
    /\ card \in [hidden : BOOLEAN, head : Files \cup {HovercardNone}, body : Files \cup {HovercardNone, Loading, Failed}]
    /\ fetches \subseteq [file : Files, token : Nat \ {0}] /\ \A q \in fetches : q.token <= codeReqId
    /\ codeCache \subseteq Files \X BOOLEAN
    /\ \A p, q \in codeCache : p[1] = q[1] => p = q
    /\ codeReqId \in Nat /\ entered \in BOOLEAN /\ hovered \in Files \cup {HovercardNone}

\* What the timers and the pointer can still add to the counter.
Bounded ==
    /\ codeReqId + (IF codeShowTimer = HovercardNone THEN 0 ELSE 1)
                 + (IF codeHideTimer \/ over # HovercardNone THEN 1 ELSE 0) <= MaxReq + 2
    /\ codeHideTimer => over = HovercardNone

FilledByLast ==
    ~card.hidden =>
        /\ card.head = hovered /\ hovered \in Files /\ card.body \in {hovered, Loading, Failed}
        /\ \A q \in fetches : q.token = codeReqId => q.file = hovered
        /\ card.body = Loading => \E q \in fetches : q.token = codeReqId

PointerHolds ==
    ~MayReload =>
        /\ codeShowTimer # HovercardNone => over = codeShowTimer
        /\ ~card.hidden /\ over = HovercardNone => codeHideTimer

CardInv == CardTypes /\ Bounded /\ FilledByLast /\ PointerHolds

\* There is no card at first.
LEMMA CardStarts == HovercardInit => CardInv
<1> SUFFICES ASSUME HovercardInit PROVE CardInv
  OBVIOUS
<1> USE NamesAssumption DEF HovercardInit
<1>1. CardTypes
  BY DEF CardTypes
<1>2. Bounded
  BY DEF Bounded
<1>3. FilledByLast /\ PointerHolds
  BY DEF FilledByLast, PointerHolds
<1> QED  BY <1>1, <1>2, <1>3 DEF CardInv

\* Each step of the card keeps its invariant.
LEMMA CardMoves == CardInv /\ [HovercardNext]_hovercardVars => CardInv'
<1> SUFFICES ASSUME CardInv, [HovercardNext]_hovercardVars PROVE CardInv'
  OBVIOUS
<1> USE NamesAssumption
<1>0. CardTypes /\ Bounded /\ FilledByLast /\ PointerHolds
  BY DEF CardInv
<1>1. ASSUME NEW f \in Files, Enter(f) PROVE CardInv'
  <2>1. CardTypes'
    BY <1>0, <1>1 DEF Enter, CardTypes
  <2>2. Bounded'
    BY <1>0, <1>1 DEF Enter, CardTypes, Bounded
  <2>3. FilledByLast'
    BY <1>0, <1>1 DEF Enter, CardTypes, FilledByLast
  <2>4. PointerHolds'
    BY <1>0, <1>1 DEF Enter, CardTypes, PointerHolds
  <2> QED  BY <2>1, <2>2, <2>3, <2>4 DEF CardInv
<1>2. CASE Leave
  BY <1>0, <1>2 DEF Leave, CardInv, CardTypes, Bounded, FilledByLast, PointerHolds
<1>3. CASE EnterCard
  <2>1. CardTypes'
    BY <1>0, <1>3 DEF EnterCard, CardTypes
  <2>2. Bounded'
    BY <1>0, <1>3 DEF EnterCard, CardTypes, Bounded
  <2>3. FilledByLast'
    BY <1>0, <1>3 DEF EnterCard, CardTypes, FilledByLast
  <2>4. PointerHolds'
    BY <1>0, <1>3 DEF EnterCard, CardTypes, PointerHolds
  <2> QED  BY <2>1, <2>2, <2>3, <2>4 DEF CardInv
<1>4. CASE LeaveCard
  BY <1>0, <1>4 DEF LeaveCard, CardInv, CardTypes, Bounded, FilledByLast, PointerHolds
<1>5. CASE ShowTimer
  <2> DEFINE f == codeShowTimer
             kept == {p \in codeCache : p[1] = f}
             chosen == CHOOSE p \in kept : TRUE
  <2>1. f \in Files /\ hovered' = f /\ codeReqId' = codeReqId + 1 /\ codeShowTimer' = HovercardNone
          /\ UNCHANGED <<over, codeHideTimer, codeCache, entered>>
    BY <1>0, <1>5 DEF ShowTimer, CardTypes
  <2>2. CASE kept = {}
    <3>1. card' = [hidden |-> FALSE, head |-> f, body |-> Loading]
            /\ fetches' = fetches \cup {[file |-> f, token |-> codeReqId + 1]}
      BY <1>5, <2>2 DEF ShowTimer, HovercardRequest
    <3>2. CardTypes'
      <4>1. card' \in [hidden : BOOLEAN, head : Files \cup {HovercardNone}, body : Files \cup {HovercardNone, Loading, Failed}]
        BY <2>1, <3>1
      <4>2. codeReqId + 1 \in Nat \ {0}
        BY <1>0 DEF CardTypes
      <4>3. fetches' \subseteq [file : Files, token : Nat \ {0}] /\ \A q \in fetches' : q.token <= codeReqId'
        BY <1>0, <2>1, <3>1, <4>2 DEF CardTypes
      <4> QED  BY <1>0, <2>1, <4>1, <4>2, <4>3 DEF CardTypes
    <3>3. FilledByLast'
      <4>1. \A q \in fetches : q.token # codeReqId'
        BY <1>0, <2>1 DEF CardTypes
      <4>2. \A q \in fetches' : q.token = codeReqId' => q.file = f
        BY <3>1, <4>1
      <4>3. \E q \in fetches' : q.token = codeReqId'
        <5>1. [file |-> f, token |-> codeReqId + 1] \in fetches'
          BY <3>1
        <5> QED  BY <2>1, <5>1
      <4>4. card'.head = f /\ card'.body = Loading
        BY <3>1
      <4> QED  BY <2>1, <4>2, <4>3, <4>4 DEF FilledByLast
    <3> QED  BY <1>0, <2>1, <3>1, <3>2, <3>3 DEF CardInv, CardTypes, Bounded, PointerHolds
  <2>3. CASE kept # {}
    <3>1. chosen \in codeCache /\ chosen[1] = f
      BY <2>3
    <3>2. BodyOf(chosen) \in {f, Failed}
      BY <3>1 DEF BodyOf
    <3>3. card' = [hidden |-> FALSE, head |-> f, body |-> BodyOf(chosen)] /\ fetches' = fetches
      BY <1>5, <2>3 DEF ShowTimer
    <3>4. CardTypes'
      BY <1>0, <2>1, <3>2, <3>3 DEF CardTypes
    <3>5. FilledByLast'
      BY <1>0, <2>1, <3>2, <3>3 DEF CardTypes, FilledByLast
    <3> QED  BY <1>0, <2>1, <3>3, <3>4, <3>5 DEF CardInv, CardTypes, Bounded, PointerHolds
  <2> QED  BY <2>2, <2>3
<1>6. CASE HideTimer
  <2>1. card' = [card EXCEPT !.hidden = TRUE] /\ codeReqId' = codeReqId + 1
          /\ over' \in {over, HovercardNone} /\ (over' # over => over = Card) /\ UNCHANGED <<codeShowTimer, fetches, codeCache, entered, hovered>>
    BY <1>6 DEF HideTimer, hideCodeCard
  <2>2. card'.hidden /\ card' \in [hidden : BOOLEAN, head : Files \cup {HovercardNone}, body : Files \cup {HovercardNone, Loading, Failed}]
    BY <1>0, <2>1 DEF CardTypes
  <2>3. \A q \in fetches' : q.token <= codeReqId'
    BY <1>0, <2>1 DEF CardTypes
  <2>4. codeHideTimer' \in BOOLEAN /\ entered' \in BOOLEAN
    BY <1>0, <1>6 DEF CardTypes, HideTimer
  <2>5. CardTypes'
    BY <1>0, <2>1, <2>2, <2>3, <2>4 DEF CardTypes
  <2>6. Bounded'
    BY <1>0, <2>1, <1>6 DEF CardTypes, Bounded, HideTimer
  <2>7. FilledByLast'
    BY <2>2 DEF FilledByLast
  <2>8. PointerHolds'
    BY <1>0, <2>1, <2>2, <1>6 DEF CardTypes, PointerHolds, HideTimer
  <2> QED  BY <2>5, <2>6, <2>7, <2>8 DEF CardInv
<1>7. CASE Dismiss
  <2>1. card' = [card EXCEPT !.hidden = TRUE] /\ codeReqId' = codeReqId + 1
          /\ over' \in {over, HovercardNone} /\ (over' # over => over = Card) /\ UNCHANGED <<codeShowTimer, fetches, codeCache, hovered>>
    BY <1>7 DEF Dismiss, hideCodeCard
  <2>2. card'.hidden /\ card' \in [hidden : BOOLEAN, head : Files \cup {HovercardNone}, body : Files \cup {HovercardNone, Loading, Failed}]
    BY <1>0, <2>1 DEF CardTypes
  <2>3. \A q \in fetches' : q.token <= codeReqId'
    BY <1>0, <2>1 DEF CardTypes
  <2>4. codeHideTimer' \in BOOLEAN /\ entered' \in BOOLEAN
    BY <1>0, <1>7 DEF CardTypes, Dismiss
  <2>5. CardTypes'
    BY <1>0, <2>1, <2>2, <2>3, <2>4 DEF CardTypes
  <2>6. Bounded'
    BY <1>0, <2>1, <1>7 DEF CardTypes, Bounded, Dismiss
  <2>7. FilledByLast'
    BY <2>2 DEF FilledByLast
  <2>8. PointerHolds'
    BY <1>0, <2>1, <2>2, <1>7 DEF CardTypes, PointerHolds, Dismiss
  <2> QED  BY <2>5, <2>6, <2>7, <2>8 DEF CardInv
<1>8. CASE HovercardReload
  <2>1. card' = [card EXCEPT !.hidden = TRUE] /\ codeReqId' = codeReqId + 1 /\ codeReqId < MaxReq /\ MayReload
          /\ over' = HovercardNone /\ UNCHANGED <<codeShowTimer, codeHideTimer, fetches, codeCache, entered, hovered>>
    BY <1>8 DEF HovercardReload
  <2>2. card'.hidden /\ card' \in [hidden : BOOLEAN, head : Files \cup {HovercardNone}, body : Files \cup {HovercardNone, Loading, Failed}]
    BY <1>0, <2>1 DEF CardTypes
  <2>3. \A q \in fetches' : q.token <= codeReqId'
    BY <1>0, <2>1 DEF CardTypes
  <2>4. CardTypes'
    BY <1>0, <2>1, <2>2, <2>3 DEF CardTypes
  <2>5. Bounded'
    BY <1>0, <2>1 DEF CardTypes, Bounded
  <2>6. FilledByLast' /\ PointerHolds'
    BY <2>1, <2>2 DEF FilledByLast, PointerHolds
  <2> QED  BY <2>4, <2>5, <2>6 DEF CardInv
<1>9. ASSUME NEW q \in fetches, NEW ok \in BOOLEAN, CardAnswered(q, ok) PROVE CardInv'
  <2>1. fetches' = fetches \ {q} /\ codeCache' = Cached(q.file, ok)
          /\ UNCHANGED <<over, codeShowTimer, codeHideTimer, codeReqId, entered, hovered>>
    BY <1>9 DEF CardAnswered
  <2>2. q.file \in Files /\ q.token \in Nat
    BY <1>0 DEF CardTypes
  <2>3. codeCache' \subseteq Files \X BOOLEAN /\ \A p, other \in codeCache' : p[1] = other[1] => p = other
    BY <1>0, <2>1, <2>2 DEF CardTypes, Cached
  <2>4. CASE q.token # codeReqId \/ card.hidden
    <3>1. card' = card
      BY <1>9, <2>4 DEF CardAnswered, Fill
    <3>2. CardTypes'
      BY <1>0, <2>1, <2>3, <3>1 DEF CardTypes
    <3>3. FilledByLast'
      BY <1>0, <2>1, <2>4, <3>1 DEF CardTypes, FilledByLast
    <3> QED  BY <1>0, <2>1, <3>1, <3>2, <3>3 DEF CardInv, Bounded, PointerHolds
  <2>5. CASE q.token = codeReqId /\ ~card.hidden
    <3>1. card' = [card EXCEPT !.head = q.file, !.body = BodyOf(<<q.file, ok>>)]
      BY <1>9, <2>5 DEF CardAnswered, Fill
    <3>2. q.file = hovered /\ BodyOf(<<q.file, ok>>) \in {hovered, Failed}
      BY <1>0, <2>5 DEF FilledByLast, BodyOf
    <3>3. CardTypes'
      BY <1>0, <2>1, <2>2, <2>3, <3>1, <3>2 DEF CardTypes
    <3>4. FilledByLast'
      BY <1>0, <2>1, <2>2, <2>5, <3>1, <3>2 DEF CardTypes, FilledByLast
    <3> QED  BY <1>0, <2>1, <3>1, <3>3, <3>4 DEF CardInv, CardTypes, Bounded, PointerHolds
  <2> QED  BY <2>4, <2>5
<1>10. CASE UNCHANGED hovercardVars
  BY <1>0, <1>10 DEF hovercardVars, CardInv, CardTypes, Bounded, FilledByLast, PointerHolds
<1> QED  BY <1>1, <1>2, <1>3, <1>4, <1>5, <1>6, <1>7, <1>8, <1>9, <1>10 DEF HovercardNext

\* The invariant bounds the counter and the cache as the type invariant says.
LEMMA CardFollows == CardInv => HovercardTypeOK /\ ShowsHovered /\ LoadingIsFilled /\ LeftIsHidden
<1> SUFFICES ASSUME CardInv PROVE HovercardTypeOK /\ ShowsHovered /\ LoadingIsFilled /\ LeftIsHidden
  OBVIOUS
<1> USE NamesAssumption DEF CardInv
<1>1. codeReqId \in 0 .. MaxReq + 3
  BY DEF CardTypes, Bounded
<1>2. fetches \subseteq [file : Files, token : 1 .. MaxReq + 3]
  <2> SUFFICES ASSUME NEW q \in fetches PROVE q \in [file : Files, token : 1 .. MaxReq + 3]
    OBVIOUS
  <2>1. q \in [file : Files, token : Nat \ {0}] /\ q.token <= codeReqId
    BY DEF CardTypes
  <2>2. q.token \in 1 .. MaxReq + 3
    BY <1>1, <2>1
  <2> QED  BY <2>1, <2>2
<1>3. ASSUME NEW f \in Files PROVE Cardinality({p \in codeCache : p[1] = f}) <= 1
  <2> DEFINE kept == {p \in codeCache : p[1] = f}
  <2>1. CASE kept = {}
    BY <2>1, FS_EmptySet
  <2>2. CASE kept # {}
    <3>1. PICK p \in kept : TRUE
      BY <2>2
    <3>2. kept = {p}
      BY <3>1 DEF CardTypes
    <3> QED  BY <3>2, FS_Singleton
  <2> QED  BY <2>1, <2>2
<1>4. HovercardTypeOK
  BY <1>1, <1>2, <1>3 DEF CardTypes, HovercardTypeOK
<1>5. ShowsHovered /\ LoadingIsFilled /\ LeftIsHidden
  BY DEF FilledByLast, PointerHolds, ShowsHovered, LoadingIsFilled, LeftIsHidden
<1> QED  BY <1>4, <1>5

\* A card that is seen shows the file it was opened for, waits for an answer that will
\* fill it, and goes when the pointer does (app.js, showCodeCard).
THEOREM CardIsSafe == HovercardSafeSpec => [](HovercardTypeOK /\ ShowsHovered /\ LoadingIsFilled /\ LeftIsHidden)
  BY CardStarts, CardMoves, CardFollows, PTL DEF HovercardSafeSpec

-----------------------------------------------------------------------------
(* The fetch of a page.  While the origin the visitor selected is kept, no *)
(* other was contacted; a hop that was fulfilled is over.                  *)
Selected ==
    /\ localOrigin \in {Authorized, FetchNone}
    /\ localOrigin # FetchNone => \A c \in contacted : c[1] = localOrigin
    /\ LocalUnlessLeft

Fulfilled == fetchOutcome.state = "fulfilled"

Capped ==
    /\ total > 0 => resolved
    /\ total > MaxChunks => redirects \notin fetchOpen
    /\ \A h \in fetchOpen : h < redirects \/ (h = redirects /\ resolved)
    /\ Fulfilled => resolved /\ redirects \notin fetchOpen /\ FetchAnswered

FetchInv == FetchTypeOK /\ Selected /\ Capped

LEMMA FetchStarts == FetchInit => FetchInv
<1> SUFFICES ASSUME FetchInit PROVE FetchInv
  OBVIOUS
<1> USE OptionsAssumption DEF FetchInit
<1>1. FetchTypeOK
  <2>1. localOrigin \in Origins \cup {FetchNone} /\ redirects \in 0 .. maxRedirects /\ at \in Origins
    OBVIOUS
  <2>2. resolved \in BOOLEAN /\ fetchOpen \subseteq 0 .. maxRedirects /\ contacted \subseteq Origins \X BOOLEAN
    OBVIOUS
  <2>3. total \in 0 .. MaxChunks + 1 /\ 0 \in 0 .. maxRedirects
    OBVIOUS
  <2>4. fetchOutcome \in [state : {"pending", "fulfilled", "rejected"}, hop : 0 .. maxRedirects]
    BY <2>3
  <2> QED  BY <2>1, <2>2, <2>3, <2>4 DEF FetchTypeOK
<1>2. Selected
  BY DEF Selected, LocalUnlessLeft
<1>3. Capped
  BY DEF Capped, Fulfilled, FetchAnswered
<1> QED  BY <1>1, <1>2, <1>3 DEF FetchInv

\* Only the first call settles the promise.
LEMMA SettleFacts ==
    ASSUME FetchTypeOK, NEW state \in {"fulfilled", "rejected"}, NEW hop \in 0 .. maxRedirects, SettleFetch(state, hop)
    PROVE  /\ fetchOutcome' \in [state : {"pending", "fulfilled", "rejected"}, hop : 0 .. maxRedirects]
           /\ fetchOutcome' = fetchOutcome \/ (FetchPending /\ fetchOutcome'.state = state /\ fetchOutcome'.hop = hop)
  BY DEF SettleFetch, FetchTypeOK

LEMMA RejectFacts ==
    ASSUME FetchTypeOK, NEW hop \in 0 .. maxRedirects, Reject(hop)
    PROVE  /\ fetchOutcome' \in [state : {"pending", "fulfilled", "rejected"}, hop : 0 .. maxRedirects]
           /\ Fulfilled' => Fulfilled /\ fetchOutcome' = fetchOutcome
<1>1. /\ fetchOutcome' \in [state : {"pending", "fulfilled", "rejected"}, hop : 0 .. maxRedirects]
      /\ fetchOutcome' = fetchOutcome \/ fetchOutcome'.state = "rejected"
  BY SettleFacts DEF Reject
<1> QED  BY <1>1 DEF Fulfilled

LEMMA FetchMoves == FetchInv /\ [FetchNext]_fetchVars => FetchInv'
<1> SUFFICES ASSUME FetchInv, [FetchNext]_fetchVars PROVE FetchInv'
  OBVIOUS
<1> USE OptionsAssumption
<1>0. FetchTypeOK /\ Selected /\ Capped
  BY DEF FetchInv
<1>1. redirects \in 0 .. maxRedirects /\ at \in Origins /\ resolved \in BOOLEAN /\ total \in 0 .. MaxChunks + 1
        /\ fetchOpen \subseteq 0 .. maxRedirects /\ contacted \subseteq Origins \X BOOLEAN
        /\ localOrigin \in Origins \cup {FetchNone}
  BY <1>0 DEF FetchTypeOK
<1>2. CASE Resolve
  <2>1. ~resolved /\ total = 0 /\ UNCHANGED <<redirects, at, total>> /\ localOrigin' = LocalOriginAt(at) /\ ~Fulfilled
    BY <1>0, <1>1, <1>2 DEF Resolve, Capped
  <2>2. localOrigin' \in {localOrigin, FetchNone} /\ (localOrigin' # FetchNone => localOrigin' = at)
    BY <2>1 DEF LocalOriginAt
  <2>3. CASE Allowed(at, localOrigin') /\ resolved' = TRUE /\ fetchOpen' = fetchOpen \cup {redirects}
               /\ contacted' = contacted \cup {<<at, \E c \in contacted : c[1] # at>>} /\ fetchOutcome' = fetchOutcome
    <3> DEFINE other == \E c \in contacted : c[1] # at
    <3>1. other \in BOOLEAN /\ contacted' = contacted \cup {<<at, other>>}
      BY <2>3
    <3>2. localOrigin' # FetchNone => at = Authorized /\ ~other
      BY <1>0, <2>2 DEF Selected
    <3>3. Scope[at] = "public" \/ localOrigin' # FetchNone
      BY <1>1, <2>2, <2>3 DEF Allowed
    <3> HIDE DEF other
    <3>4. contacted' \subseteq Origins \X BOOLEAN
      BY <1>1, <3>1
    <3>5. FetchTypeOK'
      BY <1>0, <1>1, <2>1, <2>2, <2>3, <3>4 DEF FetchTypeOK
    <3>6. Scope[at] = "public" \/ <<at, other>> = <<Authorized, FALSE>>
      BY <3>1, <3>2, <3>3
    <3>7. LocalUnlessLeft'
      <4> SUFFICES ASSUME NEW c \in contacted' PROVE Scope[c[1]] = "public" \/ c = <<Authorized, FALSE>>
        BY DEF LocalUnlessLeft
      <4>1. CASE c \in contacted
        BY <1>0, <4>1 DEF Selected, LocalUnlessLeft
      <4>2. CASE c = <<at, other>>
        <5>1. c[1] = at
          BY <4>2
        <5> QED  BY <3>6, <4>2, <5>1
      <4> QED  BY <3>1, <4>1, <4>2
    <3>8. localOrigin' # FetchNone => \A c \in contacted' : c[1] = localOrigin'
      BY <1>0, <2>2, <3>1 DEF Selected
    <3>9. Selected'
      BY <1>0, <2>2, <3>7, <3>8 DEF Selected
    <3>10. Capped'
      BY <1>0, <1>1, <2>1, <2>3 DEF Capped, Fulfilled, FetchAnswered
    <3> QED  BY <3>5, <3>9, <3>10 DEF FetchInv
  <2>4. CASE Reject(redirects) /\ UNCHANGED <<resolved, fetchOpen, contacted>>
    <3>1. fetchOutcome' \in [state : {"pending", "fulfilled", "rejected"}, hop : 0 .. maxRedirects] /\ ~Fulfilled'
      BY <1>0, <1>1, <2>1, <2>4, RejectFacts
    <3>2. FetchTypeOK'
      BY <1>0, <1>1, <2>1, <2>2, <2>4, <3>1 DEF FetchTypeOK
    <3>3. Selected'
      BY <1>0, <2>2, <2>4 DEF Selected, LocalUnlessLeft
    <3>4. Capped'
      BY <1>0, <2>1, <2>4, <3>1 DEF Capped
    <3> QED  BY <3>2, <3>3, <3>4 DEF FetchInv
  <2> QED  BY <1>2, <2>3, <2>4 DEF Resolve
<1>3. ASSUME NEW o \in Origins, Redirect(o) PROVE FetchInv'
  <2>1. resolved /\ redirects \in fetchOpen /\ total = 0 /\ UNCHANGED <<localOrigin, fetchOpen, total, contacted>> /\ ~Fulfilled
    BY <1>0, <1>3 DEF Redirect, Answering, Capped
  <2>2. Selected'
    BY <1>0, <2>1 DEF Selected, LocalUnlessLeft
  <2>3. CASE Spent
    <3>1. Reject(redirects) /\ UNCHANGED <<redirects, at, resolved>>
      BY <1>3, <2>3 DEF Redirect
    <3>2. fetchOutcome' \in [state : {"pending", "fulfilled", "rejected"}, hop : 0 .. maxRedirects] /\ ~Fulfilled'
      BY <1>0, <1>1, <2>1, <3>1, RejectFacts
    <3>3. FetchTypeOK'
      BY <1>0, <1>1, <2>1, <3>1, <3>2 DEF FetchTypeOK
    <3>4. Capped'
      BY <1>0, <2>1, <3>1, <3>2 DEF Capped
    <3> QED  BY <2>2, <3>3, <3>4 DEF FetchInv
  <2>4. CASE ~Spent
    <3>1. redirects' = redirects + 1 /\ at' = o /\ resolved' = FALSE /\ fetchOutcome' = fetchOutcome
      BY <1>3, <2>4 DEF Redirect
    <3>2. redirects' \in 0 .. maxRedirects
      BY <1>1, <2>4, <3>1 DEF Spent
    <3>3. FetchTypeOK'
      BY <1>0, <2>1, <3>1, <3>2 DEF FetchTypeOK
    <3>4. \A h \in fetchOpen' : h < redirects'
      BY <1>0, <1>1, <2>1, <3>1 DEF Capped
    <3>5. Capped'
      BY <2>1, <3>1, <3>4 DEF Capped, Fulfilled
    <3> QED  BY <2>2, <3>3, <3>5 DEF FetchInv
  <2> QED  BY <2>3, <2>4
<1>4. CASE Data
  <2>1. resolved /\ redirects \in fetchOpen /\ total <= MaxChunks /\ total' = total + 1
          /\ UNCHANGED <<localOrigin, redirects, at, resolved, contacted>> /\ ~Fulfilled
    BY <1>0, <1>4 DEF Data, Chunk, Answering, Capped
  <2>2. Selected'
    BY <1>0, <2>1 DEF Selected, LocalUnlessLeft
  <2>3. CASE total' > MaxChunks
    <3>1. fetchOpen' = fetchOpen \ {redirects} /\ Reject(redirects)
      BY <1>4, <2>3 DEF Data, Chunk
    <3>2. fetchOutcome' \in [state : {"pending", "fulfilled", "rejected"}, hop : 0 .. maxRedirects] /\ ~Fulfilled'
      BY <1>0, <1>1, <2>1, <3>1, RejectFacts
    <3>3. FetchTypeOK'
      BY <1>0, <1>1, <2>1, <3>1, <3>2 DEF FetchTypeOK
    <3>4. Capped'
      BY <1>0, <2>1, <3>1, <3>2 DEF Capped
    <3> QED  BY <2>2, <3>3, <3>4 DEF FetchInv
  <2>4. CASE ~(total' > MaxChunks)
    <3>1. UNCHANGED <<fetchOpen, fetchOutcome>>
      BY <1>4, <2>4 DEF Data, Chunk
    <3>2. FetchTypeOK'
      BY <1>0, <1>1, <2>1, <3>1 DEF FetchTypeOK
    <3>3. Capped'
      BY <1>0, <2>1, <2>4, <3>1 DEF Capped, Fulfilled
    <3> QED  BY <2>2, <3>2, <3>3 DEF FetchInv
  <2> QED  BY <2>3, <2>4
<1>5. CASE End
  <2>1. resolved /\ redirects \in fetchOpen /\ fetchOpen' = fetchOpen \ {redirects} /\ SettleFetch("fulfilled", redirects)
          /\ UNCHANGED <<localOrigin, redirects, at, resolved, total, contacted>> /\ ~Fulfilled /\ total <= MaxChunks
    BY <1>0, <1>1, <1>5 DEF End, Answering, Capped
  <2>2. /\ fetchOutcome' \in [state : {"pending", "fulfilled", "rejected"}, hop : 0 .. maxRedirects]
        /\ fetchOutcome' = fetchOutcome \/ fetchOutcome'.hop = redirects
    BY <1>0, <1>1, <2>1, SettleFacts
  <2>3. FetchTypeOK'
    BY <1>0, <1>1, <2>1, <2>2 DEF FetchTypeOK
  <2>4. Fulfilled' => fetchOutcome'.hop = redirects
    BY <2>1, <2>2 DEF Fulfilled
  <2>5. Capped'
    BY <1>0, <2>1, <2>4 DEF Capped, FetchAnswered
  <2>6. Selected'
    BY <1>0, <2>1 DEF Selected, LocalUnlessLeft
  <2> QED  BY <2>3, <2>5, <2>6 DEF FetchInv
<1>6. ASSUME NEW h \in fetchOpen, Drained(h) \/ Fails(h) PROVE FetchInv'
  <2>1. fetchOpen' = fetchOpen \ {h} /\ (fetchOutcome' = fetchOutcome \/ Reject(h)) /\ h \in 0 .. maxRedirects
          /\ UNCHANGED <<localOrigin, redirects, at, resolved, total, contacted>>
    BY <1>1, <1>6 DEF Drained, Fails, FetchError
  <2>2. /\ fetchOutcome' \in [state : {"pending", "fulfilled", "rejected"}, hop : 0 .. maxRedirects]
        /\ Fulfilled' => Fulfilled /\ fetchOutcome' = fetchOutcome
    <3>1. CASE fetchOutcome' = fetchOutcome
      BY <1>0, <3>1 DEF FetchTypeOK, Fulfilled
    <3>2. CASE Reject(h)
      BY <1>0, <2>1, <3>2, RejectFacts
    <3> QED  BY <2>1, <3>1, <3>2
  <2>3. FetchTypeOK'
    BY <1>0, <1>1, <2>1, <2>2 DEF FetchTypeOK
  <2>4. Capped'
    BY <1>0, <2>1, <2>2 DEF Capped, FetchAnswered
  <2>5. Selected'
    BY <1>0, <2>1 DEF Selected, LocalUnlessLeft
  <2> QED  BY <2>3, <2>4, <2>5 DEF FetchInv
<1>7. CASE UNCHANGED fetchVars
  BY <1>0, <1>7 DEF fetchVars, FetchInv, FetchTypeOK, Selected, LocalUnlessLeft, Capped, Fulfilled, FetchAnswered
<1> QED  BY <1>2, <1>3, <1>4, <1>5, <1>6, <1>7 DEF FetchNext

\* A destination that is not public is contacted only when it was selected and before any
\* other; what is fulfilled is the answer of the last hop, within the cap (http-fetch.mjs).
THEOREM FetchIsSafe == FetchSafeSpec => [](FetchTypeOK /\ LocalUnlessLeft /\ FetchAnswered)
<1>1. FetchInv => FetchTypeOK /\ LocalUnlessLeft /\ FetchAnswered
  BY DEF FetchInv, Selected, Capped, Fulfilled, FetchAnswered
<1> QED  BY <1>1, FetchStarts, FetchMoves, PTL DEF FetchSafeSpec

-----------------------------------------------------------------------------
\* The panel shows what is of the page that is loaded, in all its parts (app.js,
\* extension.mjs).
THEOREM PanelIsSafe == PanelSpec => []PanelSafe
<1>1. TitleTypeOK /\ OnePerLoad /\ TitleOfCurrent
        /\ BrowseTypeOK /\ FrameAsBelieved /\ BarAgrees /\ FrameAgrees
        /\ DiagnosticsTypeOK /\ ReadinessOfShown /\ NoSkeletonLeft /\ EnabledIsFresh /\ BarFills /\ GuidanceForAll
        /\ ChromeTypeOK /\ ArrowsGoRound /\ FocusedIsActive
        /\ HovercardTypeOK /\ ShowsHovered /\ LoadingIsFilled /\ LeftIsHidden
        => PanelSafe
  BY DEF PanelSafe
<1> QED
  BY <1>1, TitleIsSafe, BrowsingIsSafe, DiagnosticsAreSafe, ChromeIsSafe, CardIsSafe, PTL DEF PanelSpec

-----------------------------------------------------------------------------
\* What is chosen among the sequences up to a length is a sequence.
LEMMA BoundedIsSeq == ASSUME NEW S, NEW n, NEW s \in BoundedSeq(S, n) PROVE s \in Seq(S)
<1>1. PICK m \in 0 .. n : s \in [1 .. m -> S]
  BY DEF BoundedSeq, SeqOf
<1> QED  BY <1>1

-----------------------------------------------------------------------------
(* The imports of a module.  Its words are names, hosts and the prefix.    *)
Words == Names \cup Hosts \cup {"api", "proxy", "https"}

ProxyInv ==
    /\ asked \in Url /\ proxyFound \in Url /\ spec \in Specifier
    /\ target = << >> \/ target = <<proxyDecodePath(Asks(spec).path)>>

\* The prefix of a URL of the proxy: four words.
LEMMA PrefixFacts ==
  ASSUME NEW h \in Words
  PROVE  /\ Prefix \o <<"https", h>> \in Seq(Words) /\ Len(Prefix \o <<"https", h>>) = 4
         /\ (Prefix \o <<"https", h>>)[1] = "api" /\ (Prefix \o <<"https", h>>)[2] = "proxy"
         /\ (Prefix \o <<"https", h>>)[3] = "https" /\ (Prefix \o <<"https", h>>)[4] = h
<1>1. Prefix \in Seq(Words) /\ Len(Prefix) = 2 /\ Prefix[1] = "api" /\ Prefix[2] = "proxy"
  BY DEF Prefix, Words
<1>2. <<"https", h>> \in Seq(Words) /\ Len(<<"https", h>>) = 2 /\ <<"https", h>>[1] = "https" /\ <<"https", h>>[2] = h
  BY DEF Words
<1> DEFINE a == Prefix
           b == <<"https", h>>
<1> HIDE DEF a, b
<1> SUFFICES /\ a \o b \in Seq(Words) /\ Len(a \o b) = 4 /\ (a \o b)[1] = "api" /\ (a \o b)[2] = "proxy"
             /\ (a \o b)[3] = "https" /\ (a \o b)[4] = h
  BY DEF a, b
<1>3. a \in Seq(Words) /\ Len(a) = 2 /\ a[1] = "api" /\ a[2] = "proxy"
      /\ b \in Seq(Words) /\ Len(b) = 2 /\ b[1] = "https" /\ b[2] = h
  BY <1>1, <1>2 DEF a, b
<1>4. /\ a \o b \in Seq(Words) /\ Len(a \o b) = Len(a) + Len(b)
      /\ \A i \in 1 .. Len(a) + Len(b) : (a \o b)[i] = IF i <= Len(a) THEN a[i] ELSE b[i - Len(a)]
  BY <1>3, ConcatProperties, Zenon
<1> DEFINE c == a \o b
<1> HIDE DEF c
<1>5. c \in Seq(Words) /\ Len(c) = 4 /\ \A i \in 1 .. 4 : c[i] = IF i <= 2 THEN a[i] ELSE b[i - 2]
  BY <1>3, <1>4 DEF c
<1> QED  BY <1>3, <1>5 DEF c

\* What the server reads off a URL of the proxy is what was written into it.
LEMMA Decoded ==
  ASSUME NEW h \in Words, NEW p \in Seq(Words)
  PROVE  proxyDecodePath((Prefix \o <<"https", h>>) \o p) = <<[host |-> h, path |-> p]>>
<1> DEFINE a == Prefix \o <<"https", h>>
           q == a \o p
           rest == SubSeq(q, 3, Len(q))
           pre == SubSeq(q, 1, 2)
           tl == SubSeq(rest, 3, Len(rest))
<1>1. a \in Seq(Words) /\ Len(a) = 4 /\ a[1] = "api" /\ a[2] = "proxy" /\ a[3] = "https" /\ a[4] = h
  BY PrefixFacts
<1> SUFFICES proxyDecodePath(q) = <<[host |-> h, path |-> p]>>
  BY DEF q, a
<1>0. Len(Prefix) = 2 /\ Prefix \in Seq(Words) /\ Prefix[1] = "api" /\ Prefix[2] = "proxy"
  BY DEF Prefix, Words
<1>k. proxyDecodePath(q) =
        IF Len(rest) < 2 \/ pre # Prefix \/ Head(rest) # "https" THEN << >> ELSE <<[host |-> rest[2], path |-> tl]>>
  BY <1>0 DEF proxyDecodePath
<1> HIDE DEF a
<1>2. q \in Seq(Words) /\ Len(q) = 4 + Len(p) /\ Len(p) \in Nat
      /\ q[1] = "api" /\ q[2] = "proxy" /\ q[3] = "https" /\ q[4] = h
      /\ \A i \in 1 .. Len(p) : q[i + 4] = p[i]
  <2>1. Len(p) \in Nat
    OBVIOUS
  <2>2. q \in Seq(Words) /\ Len(q) = Len(a) + Len(p)
        /\ \A i \in 1 .. Len(a) + Len(p) : q[i] = IF i <= Len(a) THEN a[i] ELSE p[i - Len(a)]
    BY <1>1, ConcatProperties, Zenon
  <2> HIDE DEF q
  <2>3. \A i \in 1 .. 4 + Len(p) : q[i] = IF i <= 4 THEN a[i] ELSE p[i - 4]
    BY <1>1, <2>2
  <2> QED  BY <1>1, <2>1, <2>2, <2>3
<1> HIDE DEF q
<1>3. \A i \in 1 .. Len(q) : q[i] \in Words
  BY <1>2, ElementOfSeq
<1>4. /\ rest \in Seq(Words) /\ Len(rest) = Len(p) + 2
      /\ rest[1] = "https" /\ rest[2] = h /\ \A i \in 1 .. Len(p) : rest[i + 2] = p[i]
  <2>1. rest \in Seq(Words) /\ Len(rest) = Len(p) + 2 /\ \A i \in 1 .. Len(p) + 2 : rest[i] = q[i + 2]
    BY <1>2, <1>3, SubSeqProperties
  <2> HIDE DEF rest
  <2>2. rest[1] = q[3] /\ rest[2] = q[4]
    BY <1>2, <2>1
  <2>3. ASSUME NEW i \in 1 .. Len(p) PROVE rest[i + 2] = p[i]
    <3>1. i + 2 \in 1 .. Len(p) + 2 /\ (i + 2) + 2 = i + 4
      BY <1>2
    <3> QED  BY <1>2, <2>1, <3>1
  <2> QED  BY <1>2, <2>1, <2>2, <2>3
<1>5. pre = Prefix
  <2>1. pre \in Seq(Words) /\ Len(pre) = 2 /\ pre[1] = q[1] /\ pre[2] = q[2]
    BY <1>2, <1>3, SubSeqProperties
  <2> HIDE DEF pre
  <2>2. \A i \in 1 .. Len(pre) : pre[i] = Prefix[i]
    BY <1>0, <1>2, <2>1
  <2> QED  BY <1>0, <2>1, <2>2, SeqEqual
<1> HIDE DEF rest, pre
<1>6. tl = p
  <2>1. \A i \in 1 .. Len(rest) : rest[i] \in Words
    BY <1>4, ElementOfSeq
  <2>2. tl \in Seq(Words) /\ Len(tl) = Len(p) /\ \A i \in 1 .. Len(p) : tl[i] = rest[i + 2]
    BY <1>2, <1>4, <2>1, SubSeqProperties
  <2> HIDE DEF tl
  <2>3. \A i \in 1 .. Len(tl) : tl[i] = p[i]
    BY <1>4, <2>2
  <2> QED  BY <2>2, <2>3, SeqEqual
<1> HIDE DEF tl
<1>7. Head(rest) = rest[1]
  BY <1>2, <1>4
<1> QED  BY <1>2, <1>4, <1>5, <1>6, <1>7, <1>k

\* n steps up in a URL of the proxy are n steps up in the URL it stands for.
LEMMA AbovePrefix ==
  ASSUME NEW a \in Seq(Words), NEW p \in Seq(Words), NEW n \in Nat, n < Len(p)
  PROVE  Above(a \o p, n) = a \o Above(p, n) /\ Above(p, n) \in Seq(Words)
<1> DEFINE q == a \o p
           k == Len(p) - 1 - n
           l == Len(a) + k
           lhs == SubSeq(q, 1, l)
           up == SubSeq(p, 1, k)
           rhs == a \o up
<1>1. /\ Len(a) \in Nat /\ Len(p) \in Nat /\ k \in Nat /\ k <= Len(p) /\ l \in Nat
      /\ q \in Seq(Words) /\ Len(q) = Len(a) + Len(p)
      /\ \A i \in 1 .. Len(a) + Len(p) : q[i] = IF i <= Len(a) THEN a[i] ELSE p[i - Len(a)]
  BY ConcatProperties
<1>2. Above(q, n) = lhs /\ Above(p, n) = up
  <2>1. n < Len(q) /\ Len(q) - 1 - n = l
    BY <1>1
  <2> QED  BY <2>1 DEF Above
<1> HIDE DEF q
<1>3. lhs \in Seq(Words) /\ Len(lhs) = l /\ \A i \in 1 .. l : lhs[i] = q[i]
  <2>1. \A i \in 1 .. l : q[i] \in Words
    BY <1>1, ElementOfSeq
  <2> QED  BY <1>1, <2>1, SubSeqProperties
<1>4. up \in Seq(Words) /\ Len(up) = k /\ \A i \in 1 .. k : up[i] = p[i]
  <2>1. \A i \in 1 .. k : p[i] \in Words
    BY <1>1, ElementOfSeq
  <2> QED  BY <1>1, <2>1, SubSeqProperties
<1> HIDE DEF lhs, up
<1>5. rhs \in Seq(Words) /\ Len(rhs) = l /\ \A i \in 1 .. l : rhs[i] = IF i <= Len(a) THEN a[i] ELSE up[i - Len(a)]
  <2>1. rhs \in Seq(Words) /\ Len(rhs) = Len(a) + Len(up)
        /\ \A i \in 1 .. Len(a) + Len(up) : rhs[i] = IF i <= Len(a) THEN a[i] ELSE up[i - Len(a)]
    BY <1>4, ConcatProperties, Zenon
  <2>2. Len(a) + Len(up) = l
    BY <1>4
  <2> QED  BY <2>1, <2>2
<1> HIDE DEF rhs
<1>6. \A i \in 1 .. l : lhs[i] = rhs[i]
  <2> SUFFICES ASSUME NEW i \in 1 .. l PROVE lhs[i] = rhs[i]
    OBVIOUS
  <2>1. i \in Nat /\ i \in 1 .. Len(a) + Len(p) /\ lhs[i] = q[i]
    BY <1>1, <1>3
  <2>2. CASE i <= Len(a)
    BY <1>1, <1>5, <2>1, <2>2
  <2>3. CASE ~(i <= Len(a))
    <3>1. i - Len(a) \in 1 .. k
      BY <1>1, <2>1, <2>3
    <3>2. rhs[i] = up[i - Len(a)] /\ q[i] = p[i - Len(a)]
      BY <1>1, <1>5, <2>1, <2>3
    <3> QED  BY <1>4, <2>1, <3>1, <3>2
  <2> QED  BY <2>2, <2>3
<1>7. lhs = rhs
  BY <1>3, <1>5, <1>6, SeqEqual
<1> QED  BY <1>2, <1>4, <1>7 DEF rhs, q

LEMMA UrlFacts ==
  ASSUME NEW u \in Url
  PROVE  u.host \in Words /\ u.path \in Seq(Words) /\ u = [host |-> u.host, path |-> u.path]
<1>1. u.path \in Seq(Names) /\ u.host \in Hosts
  BY BoundedIsSeq DEF Url, Paths
<1> QED  BY <1>1, SeqMonotonic DEF Words, Url

LEMMA SpecifierFacts ==
  ASSUME NEW s \in Specifier
  PROVE  /\ s.kind \in {"relative", "root", "absolute"} /\ s.path \in Seq(Words)
         /\ s.kind = "relative" => s.up \in Nat
         /\ s.kind = "absolute" => s.host \in Words
<1>1. s.path \in Paths /\ s.kind \in {"relative", "root", "absolute"} /\ (s.kind = "absolute" => s.host \in Hosts)
      /\ (s.kind = "relative" => s.up \in 0 .. MaxUp)
  BY DEF Specifier
<1>2. s.path \in Seq(Names)
  BY <1>1, BoundedIsSeq DEF Paths
<1> QED  BY <1>1, <1>2, SeqMonotonic DEF Words

LEMMA ResolveFacts ==
  ASSUME NEW s, NEW b
  PROVE  /\ s.kind = "absolute" => ProxyResolve(s, b) = [host |-> s.host, path |-> s.path]
         /\ s.kind = "root" => ProxyResolve(s, b) = [b EXCEPT !.path = s.path]
         /\ s.kind = "relative" => ProxyResolve(s, b) = [b EXCEPT !.path = Above(b.path, s.up) \o s.path]
<1>1. s.kind = "absolute" => ProxyResolve(s, b) = [host |-> s.host, path |-> s.path]
  BY DEF ProxyResolve
<1>2. s.kind = "root" => ProxyResolve(s, b) = [b EXCEPT !.path = s.path]
  BY DEF ProxyResolve
<1>3. s.kind = "relative" => ProxyResolve(s, b) = [b EXCEPT !.path = Above(b.path, s.up) \o s.path]
  BY DEF ProxyResolve
<1> QED  BY <1>1, <1>2, <1>3

\* A module is asked for at the place where the browser would look for it.
LEMMA FoundInPlace ==
  ASSUME NEW u \in Url, NEW s \in Specifier, asked \in Url, proxyFound = u,
         s.kind = "relative" => asked = u /\ s.up < Len(u.path)
  PROVE  proxyDecodePath(Asks(s).path) = <<ProxyResolve(s, u)>>
<1>1. u.host \in Words /\ u.path \in Seq(Words) /\ u = [host |-> u.host, path |-> u.path]
  BY UrlFacts
<1>2. /\ s.kind \in {"relative", "root", "absolute"} /\ s.path \in Seq(Words)
      /\ s.kind = "relative" => s.up \in Nat
      /\ s.kind = "absolute" => s.host \in Words
  BY SpecifierFacts
<1>3. ASSUME NEW h \in Words, NEW p \in Seq(Words), ProxyResolve(s, u) = [host |-> h, path |-> p], s.kind # "relative"
      PROVE  proxyDecodePath(Asks(s).path) = <<ProxyResolve(s, u)>>
  <2>1. Asks(s) = proxyEncode([host |-> h, path |-> p])
    BY <1>3 DEF Asks
  <2>2. Asks(s).path = (Prefix \o <<"https", h>>) \o p
    BY <2>1 DEF proxyEncode
  <2> QED  BY <1>3, <2>2, Decoded
<1>4. CASE s.kind = "absolute"
  <2>1. ProxyResolve(s, u) = [host |-> s.host, path |-> s.path]
    BY <1>4, ResolveFacts
  <2> QED  BY <1>2, <1>3, <1>4, <2>1
<1>5. CASE s.kind = "root"
  <2>1. ProxyResolve(s, u) = [u EXCEPT !.path = s.path]
    BY <1>5, ResolveFacts
  <2>2. ProxyResolve(s, u) = [host |-> u.host, path |-> s.path]
    BY <1>1, <2>1
  <2> QED  BY <1>1, <1>2, <1>3, <1>5, <2>2
<1>6. CASE s.kind = "relative"
  <2> DEFINE a == Prefix \o <<"https", u.host>>
             up == Above(u.path, s.up)
  <2>1. a \in Seq(Words)
    BY <1>1, PrefixFacts
  <2>2. Asks(s) = ProxyResolve(s, proxyEncode(u))
    BY <1>6 DEF Asks
  <2>3. proxyEncode(u) = [host |-> "proxy", path |-> a \o u.path]
    BY DEF proxyEncode
  <2> HIDE DEF a
  <2>4. Asks(s).path = Above(a \o u.path, s.up) \o s.path
    <3>1. ProxyResolve(s, proxyEncode(u)) = [proxyEncode(u) EXCEPT !.path = Above(proxyEncode(u).path, s.up) \o s.path]
      BY <1>6, ResolveFacts
    <3> DEFINE e == proxyEncode(u)
               y == Above(e.path, s.up) \o s.path
    <3>2. e.path = a \o u.path /\ e = [host |-> "proxy", path |-> e.path]
      BY <2>3
    <3>3. Asks(s) = [e EXCEPT !.path = y]
      BY <2>2, <3>1
    <3>4. y = Above(a \o u.path, s.up) \o s.path
      BY <3>2, Zenon
    <3> HIDE DEF e, y
    <3>5. Asks(s).path = y
      BY <3>2, <3>3
    <3> QED  BY <3>4, <3>5
  <2>5. Above(a \o u.path, s.up) = a \o up /\ up \in Seq(Words)
    BY <1>1, <1>2, <1>6, <2>1, AbovePrefix
  <2> HIDE DEF up
  <2>6. Asks(s).path = a \o (up \o s.path) /\ up \o s.path \in Seq(Words)
    <3>0. a \in Seq(Words) /\ up \in Seq(Words) /\ s.path \in Seq(Words)
      BY <1>2, <2>1, <2>5
    <3>1. (a \o up) \o s.path = a \o (up \o s.path)
      <4> DEFINE w == s.path
      <4>1. w \in Seq(Words)
        BY <3>0
      <4> HIDE DEF w
      <4>2. \A x, y, z \in Seq(Words) : (x \o y) \o z = x \o (y \o z)
        BY ConcatAssociative, SMTT(60)
      <4>3. (a \o up) \o w = a \o (up \o w)
        BY <3>0, <4>1, <4>2, Zenon
      <4> QED  BY <4>3 DEF w
    <3>2. up \o s.path \in Seq(Words)
      BY <1>2, <2>5, ConcatProperties, Zenon
    <3> QED  BY <2>4, <2>5, <3>1, <3>2
  <2>7. proxyDecodePath(a \o (up \o s.path)) = <<[host |-> u.host, path |-> up \o s.path]>>
    BY <1>1, <2>6, Decoded DEF a
  <2>8. ProxyResolve(s, u) = [u EXCEPT !.path = up \o s.path]
    BY <1>6, ResolveFacts DEF up
  <2>9. ProxyResolve(s, u) = [host |-> u.host, path |-> up \o s.path]
    BY <1>1, <2>8
  <2> QED  BY <2>6, <2>7, <2>9
<1> QED  BY <1>2, <1>4, <1>5, <1>6

\* Through the proxy a module finds what it would without it (extension.mjs).
THEOREM ImportsAreInPlace == ProxySpec => []ImportsInPlace
<1>1. ProxyInit => ProxyInv
  BY DEF ProxyInit, ProxyInv
<1>2. ProxyInv /\ [Import]_proxyVars => ProxyInv'
  <2> SUFFICES ASSUME ProxyInv, [Import]_proxyVars PROVE ProxyInv'
    OBVIOUS
  <2>1. asked' = asked /\ proxyFound' = proxyFound /\ spec' = spec
    BY DEF Import, proxyVars
  <2>2. target' = target \/ target' = <<proxyDecodePath(Asks(spec).path)>>
    BY DEF Import, proxyVars
  <2>3. proxyDecodePath(Asks(spec).path)' = proxyDecodePath(Asks(spec).path)
    BY <2>1 DEF Asks, ProxyResolve, proxyEncode, proxyDecodePath
  <2> QED  BY <2>1, <2>2, <2>3 DEF ProxyInv
<1>3. ProxyInv => ImportsInPlace
  <2> SUFFICES ASSUME ProxyInv, target # << >>, spec.kind = "relative" => asked = proxyFound /\ spec.up < Len(proxyFound.path)
               PROVE  target[1] = <<ProxyResolve(spec, proxyFound)>>
    BY DEF ImportsInPlace
  <2>1. target[1] = proxyDecodePath(Asks(spec).path)
    BY DEF ProxyInv
  <2>2. asked \in Url /\ proxyFound \in Url /\ spec \in Specifier
    BY DEF ProxyInv
  <2> QED  BY <2>1, <2>2, FoundInPlace
<1> QED  BY <1>1, <1>2, <1>3, PTL DEF ProxySpec

-----------------------------------------------------------------------------
(* The metadata of a page: a report is made once, of the tags it has.      *)
MetadataInv ==
    /\ report = << >> \/ (all \in Seq(Tags) /\ report = <<Resolved, Diagnostics(Resolved)>>)
    /\ report = << >> => all \in Seq(Tags)

LEMMA PlacesAreNumbers == ASSUME NEW S, NEW s \in Seq(S) PROVE DOMAIN s \subseteq Nat
BY LenProperties

\* What is found for a key is the value of a tag.
LEMMA FirstIsThere ==
  ASSUME all \in Seq(Tags), NEW k, first(k) # ""
  PROVE  Has(k, first(k))
<1> DEFINE of == {i \in DOMAIN all : all[i].key = k}
<1>1. of # {} /\ first(k) = all[Min(of)].value
  BY DEF first
<1>0. DOMAIN all = 1 .. Len(all) /\ Len(all) \in Nat /\ \A i \in 1 .. Len(all) : all[i] \in Tags
  BY LenProperties, ElementOfSeq
<1>2. of \subseteq Nat /\ of \subseteq DOMAIN all /\ \A i \in of : all[i].key = k
  <2>1. of \subseteq DOMAIN all /\ \A i \in of : all[i].key = k
    BY Zenon
  <2>2. DOMAIN all \subseteq Nat
    BY PlacesAreNumbers
  <2> HIDE DEF of
  <2> QED  BY <2>1, <2>2, Zenon
<1> HIDE DEF of
<1>3. \E i \in of : \A j \in of : i <= j
  BY <1>1, <1>2, LeastNatural
<1>4. Min(of) \in of
  BY <1>3 DEF Min
<1>5. all[Min(of)] \in Tags /\ all[Min(of)].key = k
  BY <1>0, <1>2, <1>4
<1> DEFINE t == all[Min(of)]
<1>6. t = [key |-> k, value |-> first(k)]
  <2>1. t \in Tags /\ t.key = k /\ t.value = first(k)
    BY <1>1, <1>5
  <2> HIDE DEF t
  <2>2. t = [key |-> t.key, value |-> t.value]
    BY <2>1 DEF Tags
  <2> QED  BY <2>1, <2>2
<1> QED  BY <1>2, <1>4, <1>6 DEF Has, Range

LEMMA RawIsFirst ==
  /\ ogImageRaw # "" => \E k \in ImageKeys \ {"twitter:image"} : first(k) = ogImageRaw
  /\ ogImageRaw = "" => \A k \in ImageKeys \ {"twitter:image"} : first(k) = ""
BY DEF ogImageRaw, Or, ImageKeys

\* Which check a diagnostic belongs to, and how it went.
LEMMA ChecksAre ==
  ASSUME NEW r, NEW ok \in BOOLEAN
  PROVE  /\ [id |-> "og:title", ok |-> ok] \in Diagnostics(r) <=> ok = (first("og:title") # "")
         /\ [id |-> "og:image", ok |-> ok] \in Diagnostics(r) <=> ok = (ogImageRaw # "")
         /\ ogImageRaw = "" => [id |-> "og:image:alt", ok |-> ok] \notin Diagnostics(r)
         /\ ogImageRaw = "" => [id |-> "og:image:secure_url", ok |-> ok] \notin Diagnostics(r)
<1> DEFINE title == first("og:title") # ""
           image == ogImageRaw # ""
           url == r.image # ""
           alt == first("og:image:alt") # ""
           sec == r.image = "https" \/ first("og:image:secure_url") # ""
<1>1. /\ title \in BOOLEAN /\ image \in BOOLEAN /\ url \in BOOLEAN /\ alt \in BOOLEAN /\ sec \in BOOLEAN
      /\ title = (first("og:title") # "") /\ image = (ogImageRaw # "")
  OBVIOUS
<1>2. Diagnostics(r) = {[id |-> "og:title", ok |-> title], [id |-> "og:image", ok |-> image],
                        [id |-> "Absolute og:image URL", ok |-> url]}
                         \cup (IF ~image THEN {} ELSE {[id |-> "og:image:alt", ok |-> alt], [id |-> "og:image:secure_url", ok |-> sec]})
  BY DEF Diagnostics, Structured
<1> HIDE DEF title, image, url, alt, sec
<1>3. ASSUME NEW i, NEW j, NEW p \in BOOLEAN, NEW q \in BOOLEAN
      PROVE  [id |-> i, ok |-> p] = [id |-> j, ok |-> q] <=> i = j /\ p = q
  <2>1. [id |-> i, ok |-> p].id = i /\ [id |-> i, ok |-> p].ok = p /\ [id |-> j, ok |-> q].id = j /\ [id |-> j, ok |-> q].ok = q
    OBVIOUS
  <2> QED  BY <2>1, Zenon
<1>4. /\ [id |-> "og:title", ok |-> ok] \in Diagnostics(r) <=> ok = title
      /\ [id |-> "og:image", ok |-> ok] \in Diagnostics(r) <=> ok = image
  <2>1. CASE image
    BY <1>1, <1>2, <1>3, <2>1
  <2>2. CASE ~image
    BY <1>1, <1>2, <1>3, <2>2
  <2> QED  BY <2>1, <2>2
<1>5. ~image => /\ [id |-> "og:image:alt", ok |-> ok] \notin Diagnostics(r)
                /\ [id |-> "og:image:secure_url", ok |-> ok] \notin Diagnostics(r)
  BY <1>1, <1>2, <1>3
<1> QED  BY <1>1, <1>4, <1>5

\* A required tag passes only if it is what the previews show, and a missing image is one
\* complaint (parse-og.mjs).
THEOREM MetadataIsSafe == MetadataSpec => [](RequiredIsShown /\ NoComplaintTwice)
<1>1. MetadataInit => MetadataInv
  BY BoundedIsSeq DEF MetadataInit, MetadataInv
<1>2. MetadataInv /\ [parseMetadata]_metadataVars => MetadataInv'
  <2> SUFFICES ASSUME MetadataInv, [parseMetadata]_metadataVars PROVE MetadataInv'
    OBVIOUS
  <2>1. all' = all /\ htmlTitle' = htmlTitle /\ metadataBase' = metadataBase
    BY DEF parseMetadata, metadataVars
  <2>2. Resolved' = Resolved /\ \A r : Diagnostics(r)' = Diagnostics(r)
    BY <2>1 DEF Resolved, Diagnostics, Structured, ogImageRaw, Or, first, resolveUrl
  <2> QED  BY <2>1, <2>2 DEF MetadataInv, parseMetadata, metadataVars
<1>3. MetadataInv => RequiredIsShown /\ NoComplaintTwice
  <2> SUFFICES ASSUME MetadataInv, Parsed PROVE RequiredIsShown /\ NoComplaintTwice
    BY DEF RequiredIsShown, NoComplaintTwice
  <2>1. all \in Seq(Tags) /\ report[1] = Resolved /\ report[2] = Diagnostics(Resolved)
    BY DEF MetadataInv, Parsed
  <2>2. /\ Passes("og:title") <=> first("og:title") # ""
        /\ Passes("og:image") <=> ogImageRaw # ""
        /\ MetadataFails("og:image") => ogImageRaw = ""
        /\ ogImageRaw = "" => ~MetadataFails("og:image:alt") /\ ~MetadataFails("og:image:secure_url")
    BY <2>1, ChecksAre DEF Passes, MetadataFails
  <2>3. NoComplaintTwice
    BY <2>2 DEF NoComplaintTwice
  <2>4. Passes("og:title") => Has("og:title", metadataResolved.title)
    <3> SUFFICES ASSUME first("og:title") # "" PROVE Has("og:title", metadataResolved.title)
      BY <2>2
    <3>1. metadataResolved.title = Or(first("og:title"), Or(first("twitter:title"), htmlTitle))
      <4>1. Resolved.title = Or(first("og:title"), Or(first("twitter:title"), htmlTitle))
        BY DEF Resolved
      <4> QED  BY <2>1, <4>1 DEF metadataResolved
    <3>2. metadataResolved.title = first("og:title")
      BY <3>1 DEF Or
    <3> QED  BY <2>1, <3>2, FirstIsThere
  <2>5. metadataResolved.image = resolveUrl(Or(ogImageRaw, first("twitter:image")))
    BY <2>1 DEF metadataResolved, Resolved
  <2>6. Passes("og:image") <=> \E k \in ImageKeys \ {"twitter:image"} :
               first(k) # "" /\ resolveUrl(first(k)) = metadataResolved.image
    <3>1. CASE ogImageRaw = ""
      BY <2>2, <3>1, RawIsFirst
    <3>2. CASE ogImageRaw # ""
      BY <2>2, <2>5, <3>2, RawIsFirst DEF Or
    <3> QED  BY <3>1, <3>2
  <2> QED  BY <2>3, <2>4, <2>6 DEF RequiredIsShown
<1> QED  BY <1>1, <1>2, <1>3, PTL DEF MetadataSpec

-----------------------------------------------------------------------------
(* The readiness of a site: a report is made once, of what was answered.   *)
ReadinessInv == readinessReport = << >> \/ readinessReport = <<Report>>

\* The report of a site that answers every path with a page, and of one that does not answer.
LEMMA HtmlIsNoFile ==
  ASSUME AllAnswer("html"), says = {}
  PROVE  Report.found \subseteq OfThePage \cup {"robots"}
<1>1. \A p \in Probes : answers[p] = "html"
  BY DEF AllAnswer
<1>2. ~HasLlms /\ ~HasMcp /\ (\A w \in {"sitemap", "bot", "signal"} : ~RobotsSay(w))
  BY <1>1 DEF Probes, HasLlms, HasMcp, RobotsSay, IsJsonish, LooksLikeHtml
<1>3. \A c \in Found : c \in OfThePage \cup {"robots"}
  BY <1>1, <1>2 DEF Found, Checks, OfThePage, Probes, IsJsonish
<1> QED  BY <1>3 DEF Report

LEMMA SilentFindsNothing ==
  ASSUME AllAnswer("none") \/ AllAnswer("missing")
  PROVE  Report.found \subseteq {"dns-aid"} /\ Report.warned = Recommended
<1>1. \A p \in Probes : ~Ok(p) /\ ~IsJsonish(p) /\ answers[p] \notin {"text", "markdown"}
  BY DEF AllAnswer, Ok, IsJsonish
<1>2. ~HasLlms /\ ~HasMcp /\ (\A w \in {"sitemap", "bot", "signal"} : ~RobotsSay(w)) /\ ~HasBody("robots")
  BY <1>1 DEF Probes, HasLlms, HasMcp, RobotsSay, HasBody
<1>3. \A c \in Found : c = "dns-aid"
  BY <1>1, <1>2 DEF Found, Checks, Probes
<1>4. "dns-aid" \notin Recommended
  BY DEF Recommended
<1> QED  BY <1>3, <1>4 DEF Report

\* A site that answers everything with one page has nothing found that a file would show;
\* a silent site has all the recommendations to follow (agent-readiness.mjs).
THEOREM ReadinessIsSafe == ReadinessSpec => [](PageIsNoFile /\ SilentSiteWarned)
<1>1. ReadinessInit => ReadinessInv
  BY DEF ReadinessInit, ReadinessInv
<1>2. ReadinessInv /\ [checkAgentReadiness]_readinessVars => ReadinessInv'
  <2> SUFFICES ASSUME ReadinessInv, [checkAgentReadiness]_readinessVars PROVE ReadinessInv'
    OBVIOUS
  <2>1. answers' = answers /\ says' = says /\ links' = links /\ aid' = aid
    BY DEF checkAgentReadiness, readinessVars
  <2>2. Report' = Report
    BY <2>1 DEF Report, Found, Checks, HasBody, RobotsSay, HasLlms, HasMcp, IsJsonish, Ok, LooksLikeHtml
  <2> QED  BY <2>2 DEF ReadinessInv, checkAgentReadiness, readinessVars
<1>3. ReadinessInv => PageIsNoFile /\ SilentSiteWarned
  <2> SUFFICES ASSUME ReadinessInv PROVE PageIsNoFile /\ SilentSiteWarned
    OBVIOUS
  <2>1. ReadinessDone => readinessReport[1] = Report
    BY DEF ReadinessInv, ReadinessDone
  <2> QED  BY <2>1, HtmlIsNoFile, SilentFindsNothing DEF PageIsNoFile, SilentSiteWarned
<1> QED  BY <1>1, <1>2, <1>3, PTL DEF ReadinessSpec

-----------------------------------------------------------------------------
(* The tokenizer for markup.  The loop is at a place of the text, and what *)
(* was put out is the text before it.                                      *)
MarkupInv ==
    /\ markupText \in Seq(MarkupChars) /\ markupI \in 1 .. Len(markupText) + 1
    /\ KeptIfMatched

LEMMA LeastIs ==
  ASSUME NEW T \in SUBSET Nat, T # {}
  PROVE  Min(T) \in T /\ \A y \in T : Min(T) <= y
BY LeastNatural DEF Min

\* The first of some places from k on, or the end.
LEMMA FirstPlace ==
  ASSUME NEW T, NEW k \in Nat, NEW n \in Nat, k <= n + 1, T \subseteq k .. n
  PROVE  Min(T \cup {n + 1}) \in k .. n + 1
<1>1. T \cup {n + 1} \in SUBSET Nat /\ T \cup {n + 1} # {} /\ T \cup {n + 1} \subseteq k .. n + 1
  OBVIOUS
<1> QED  BY <1>1, LeastIs

\* Characters that are counted one by one.
LEMMA CountFacts ==
  ASSUME NEW c, NEW i \in Nat, NEW j \in Nat, i <= j
  PROVE  /\ MarkupCount(c, i, j) \in Nat
         /\ MarkupCount(c, i, i) = IF markupText[i] = c THEN 1 ELSE 0
         /\ markupText[j + 1] = c => MarkupCount(c, i, j + 1) = MarkupCount(c, i, j) + 1
         /\ markupText[j + 1] # c => MarkupCount(c, i, j + 1) = MarkupCount(c, i, j)
<1> DEFINE At1(n) == {x \in i .. n : markupText[x] = c}
<1>1. IsFiniteSet(At1(j)) /\ Cardinality(At1(j)) \in Nat
  <2>1. IsFiniteSet(i .. j)
    BY FS_Interval
  <2>2. At1(j) \subseteq i .. j
    BY Zenon
  <2> HIDE DEF At1
  <2> QED  BY <2>1, <2>2, FS_Subset, FS_CardinalityType
<1>2. Cardinality(At1(i)) = IF markupText[i] = c THEN 1 ELSE 0
  <2>1. i .. i = {i}
    OBVIOUS
  <2>2. CASE markupText[i] = c
    <3>1. At1(i) = {i}
      BY <2>1, <2>2, Zenon
    <3> HIDE DEF At1
    <3> QED  BY <2>2, <3>1, FS_Singleton
  <2>3. CASE markupText[i] # c
    <3>1. At1(i) = {}
      BY <2>1, <2>3, Zenon
    <3> HIDE DEF At1
    <3> QED  BY <2>3, <3>1, FS_EmptySet
  <2> QED  BY <2>2, <2>3
<1>3. Cardinality(At1(j + 1)) = Cardinality(At1(j)) + (IF markupText[j + 1] = c THEN 1 ELSE 0)
  <2>1. i .. j + 1 = (i .. j) \cup {j + 1} /\ j + 1 \notin i .. j
    OBVIOUS
  <2>2. CASE markupText[j + 1] = c
    <3>1. At1(j + 1) = At1(j) \cup {j + 1} /\ j + 1 \notin At1(j)
      BY <2>1, <2>2, Zenon
    <3> HIDE DEF At1
    <3> QED  BY <1>1, <2>2, <3>1, FS_AddElement
  <2>3. CASE markupText[j + 1] # c
    <3>1. At1(j + 1) = At1(j)
      BY <2>1, <2>3, Zenon
    <3> HIDE DEF At1
    <3> QED  BY <1>1, <2>3, <3>1
  <2> QED  BY <2>2, <2>3
<1> QED  BY <1>1, <1>2, <1>3 DEF MarkupCount

Grows(g, at1, j) == g[j + 1] = IF j + 1 \in at1 THEN g[j] + 1 ELSE g[j]

\* Two counts from place i on, of which the first starts ahead by one.
Race(op, cl, up, down, i, n) ==
    /\ op \in [i .. n -> Nat] /\ cl \in [i .. n -> Nat]
    /\ \A j : ~(j \in up /\ j \in down)
    /\ op[i] = 1 /\ cl[i] = 0
    /\ \A j \in i .. n : j + 1 <= n => Grows(op, up, j) /\ Grows(cl, down, j)

\* Where two counts that differ by one first agree, the smaller one has grown.
LEMMA Crossing ==
  ASSUME NEW i \in Nat, NEW n \in Nat, i <= n,
         NEW op, NEW cl, NEW up, NEW down, Race(op, cl, up, down, i, n),
         NEW k \in i .. n, op[k] = cl[k], \A j \in i .. n : op[j] = cl[j] => k <= j
  PROVE  k # i /\ k \in down
<1>r. /\ op \in [i .. n -> Nat] /\ cl \in [i .. n -> Nat]
      /\ \A j : ~(j \in up /\ j \in down)
      /\ op[i] = 1 /\ cl[i] = 0
      /\ \A j \in i .. n : j + 1 <= n => Grows(op, up, j) /\ Grows(cl, down, j)
  BY DEF Race
<1> DEFINE least == {j \in i .. n : op[j] <= cl[j]}
<1>1. least \in SUBSET Nat /\ least # {}
  <2>1. op[k] <= cl[k]
    BY <1>r
  <2>2. \A j \in i .. n : j \in Nat
    OBVIOUS
  <2> QED  BY <2>1, <2>2, Zenon
<1>2. PICK f \in least : \A y \in least : f <= y
  <2> HIDE DEF least
  <2> QED  BY <1>1, LeastNatural
<1>3. f \in i .. n /\ op[f] <= cl[f] /\ f # i
  BY <1>r
<1>4. f - 1 \in i .. n /\ (f - 1) + 1 = f /\ op[f - 1] > cl[f - 1]
  <2>1. f - 1 \in i .. n /\ (f - 1) + 1 = f /\ ~(f <= f - 1)
    BY <1>3
  <2>2. f - 1 \notin least
    BY <1>2, <2>1
  <2> QED  BY <1>r, <2>1, <2>2
<1>5. f \in down /\ op[f] = cl[f]
  <2>1. /\ op[f] = IF f \in up THEN op[f - 1] + 1 ELSE op[f - 1]
        /\ cl[f] = IF f \in down THEN cl[f - 1] + 1 ELSE cl[f - 1]
    BY <1>r, <1>3, <1>4 DEF Grows
  <2> QED  BY <1>r, <1>3, <1>4, <2>1
<1>6. k <= f /\ k \in least
  BY <1>r, <1>3, <1>5
<1>7. k = f
  BY <1>2, <1>3, <1>6
<1> QED  BY <1>3, <1>5, <1>7

\* The brace that closes an expression is one, and comes after the one that opens it.
LEMMA ClosingBrace ==
  ASSUME NEW n \in Nat, n = Len(markupText), NEW i \in 1 .. n, markupText[i] = "open", ClosedAt(i) <= n
  PROVE  ClosedAt(i) \in i + 1 .. n /\ markupText[ClosedAt(i)] = "close"
<1> DEFINE op == [j \in i .. n |-> MarkupCount("open", i, j)]
           cl == [j \in i .. n |-> MarkupCount("close", i, j)]
           even == {j \in i .. n : MarkupCount("open", i, j) = MarkupCount("close", i, j)}
           up == {j \in Nat : markupText[j] = "open"}
           down == {j \in Nat : markupText[j] = "close"}
           k == ClosedAt(i)
<1>1. k = Min(even \cup {n + 1})
  BY DEF ClosedAt, MarkupFirst
<1>n. i \in Nat /\ i <= n
  OBVIOUS
<1>2. op \in [i .. n -> Nat] /\ cl \in [i .. n -> Nat]
  <2>1. \A j \in i .. n : j \in Nat /\ i <= j
    BY <1>n
  <2>2. \A c : \A j \in i .. n : MarkupCount(c, i, j) \in Nat
    BY <1>n, <2>1, CountFacts
  <2> QED  BY <2>2
<1>3. op[i] = 1 /\ cl[i] = 0
  BY CountFacts
<1>4. ASSUME NEW j \in i .. n, j + 1 <= n PROVE Grows(op, up, j) /\ Grows(cl, down, j)
  <2>1. j \in Nat /\ i \in Nat /\ i <= j /\ j + 1 \in i .. n
    BY <1>4
  <2>2. /\ op[j + 1] = MarkupCount("open", i, j + 1) /\ op[j] = MarkupCount("open", i, j)
        /\ cl[j + 1] = MarkupCount("close", i, j + 1) /\ cl[j] = MarkupCount("close", i, j)
    BY <2>1
  <2>3. /\ j + 1 \in up <=> markupText[j + 1] = "open"
        /\ j + 1 \in down <=> markupText[j + 1] = "close"
    BY <2>1
  <2> HIDE DEF op, cl, up, down
  <2>4. /\ markupText[j + 1] = "open" => MarkupCount("open", i, j + 1) = MarkupCount("open", i, j) + 1
        /\ markupText[j + 1] # "open" => MarkupCount("open", i, j + 1) = MarkupCount("open", i, j)
    BY <2>1, CountFacts, Zenon
  <2>5. /\ markupText[j + 1] = "close" => MarkupCount("close", i, j + 1) = MarkupCount("close", i, j) + 1
        /\ markupText[j + 1] # "close" => MarkupCount("close", i, j + 1) = MarkupCount("close", i, j)
    BY <2>1, CountFacts, Zenon
  <2> QED  BY <2>2, <2>3, <2>4, <2>5 DEF Grows
<1>5. \A j : ~(j \in up /\ j \in down)
  OBVIOUS
<1>6. k \in even /\ \A j \in even : k <= j
  <2>1. even \subseteq i .. n
    OBVIOUS
  <2> HIDE DEF even, k
  <2>2. even \cup {n + 1} \in SUBSET Nat /\ even \cup {n + 1} # {}
    <3>1. n + 1 \in Nat /\ \A j \in i .. n : j \in Nat
      BY <1>n
    <3> QED  BY <2>1, <3>1, Zenon
  <2>3. k \in even \cup {n + 1} /\ \A y \in even \cup {n + 1} : k <= y
    BY <1>1, <2>2, LeastIs
  <2>4. k <= n
    BY DEF k
  <2> QED  BY <2>3, <2>4
<1>7. k \in i .. n /\ op[k] = cl[k] /\ \A j \in i .. n : op[j] = cl[j] => k <= j
  <2> HIDE DEF k
  <2> QED  BY <1>6
<1> HIDE DEF op, cl, k, even, up, down
<1>r. Race(op, cl, up, down, i, n)
  BY <1>2, <1>3, <1>4, <1>5, Zenon DEF Race
<1>8. k # i /\ k \in down
  BY <1>n, <1>r, <1>7, Crossing
<1> QED  BY <1>7, <1>8 DEF k, down

\* The text before e, when what was put out is the text so far.
LEMMA PushKeeps ==
  ASSUME MarkupInv, NEW e \in markupI .. Len(markupText) + 1, NEW tag, MarkupPush(e, tag), UNCHANGED markupText
  PROVE  MarkupInv'
<1> DEFINE n == Len(markupText)
           i == markupI
<1>1. markupText \in Seq(MarkupChars) /\ n \in Nat /\ i \in 1 .. n + 1 /\ e \in i .. n + 1
  BY DEF MarkupInv
<1>2. markupI' = e /\ markupText' = markupText /\ out' = out \o SubSeq(markupText, i, e - 1)
  BY DEF MarkupPush
<1>3. ASSUME Matched PROVE out' = SubSeq(markupText, 1, e - 1)
  <2>1. out = SubSeq(markupText, 1, i - 1)
    BY <1>3 DEF MarkupInv, KeptIfMatched
  <2>2. 1 \in 1 .. n + 1 /\ i - 1 \in 1 - 1 .. n /\ e - 1 \in i - 1 .. n /\ (i - 1) + 1 = i
    BY <1>1
  <2> HIDE DEF i, n
  <2>3. SubSeq(markupText, 1, i - 1) \o SubSeq(markupText, (i - 1) + 1, e - 1) = SubSeq(markupText, 1, e - 1)
    BY <1>1, <2>2, ConcatAdjacentSubSeq DEF n
  <2> QED  BY <1>2, <2>1, <2>2, <2>3
<1>4. Matched' = Matched
  BY <1>2 DEF Matched, ClosedAt, MarkupFirst, MarkupCount
<1>5. KeptIfMatched'
  BY <1>2, <1>3, <1>4 DEF KeptIfMatched
<1>6. markupI' \in 1 .. n + 1
  BY <1>1, <1>2
<1> QED  BY <1>1, <1>2, <1>5, <1>6 DEF MarkupInv

\* What every step starts from.
LEMMA PlaceFacts ==
  ASSUME MarkupInv, ~Done
  PROVE  /\ markupText \in Seq(MarkupChars) /\ Len(markupText) \in Nat
         /\ markupI \in 1 .. Len(markupText) /\ markupI \in Nat
         /\ DOMAIN markupText = 1 .. Len(markupText)
BY DEF MarkupInv, Done

LEMMA CommentKeeps == ASSUME MarkupInv, ~Done, Comment, UNCHANGED markupText PROVE MarkupInv'
<1> DEFINE n == Len(markupText)
           T == {j \in markupI .. n : markupText[j] = "finish"}
           k == Min(T \cup {n + 1})
           e == IF k > n THEN k ELSE k + 1
<1>1. MarkupPush(e, FALSE)
  BY Zenon DEF Comment, MarkupFirst
<1>2. k \in markupI .. n + 1
  <2>1. T \subseteq markupI .. n /\ markupI \in Nat /\ n \in Nat /\ markupI <= n + 1
    BY PlaceFacts
  <2> HIDE DEF T, n
  <2> QED  BY <2>1, FirstPlace
<1> HIDE DEF k
<1>3. e \in markupI .. n + 1
  BY <1>2, PlaceFacts
<1> HIDE DEF e
<1> QED  BY <1>1, <1>3, PushKeeps

LEMMA TagStartKeeps == ASSUME MarkupInv, ~Done, TagStart, UNCHANGED markupText PROVE MarkupInv'
<1> DEFINE n == Len(markupText)
           T == {j \in markupI + 1 .. n : markupText[j] # "w"}
           k == Min(T \cup {n + 1})
<1>1. MarkupPush(k, TRUE)
  BY Zenon DEF TagStart, MarkupFirst
<1>2. k \in markupI + 1 .. n + 1
  <2>1. T \subseteq markupI + 1 .. n /\ markupI + 1 \in Nat /\ n \in Nat /\ markupI + 1 <= n + 1
    BY PlaceFacts
  <2> HIDE DEF T, n
  <2> QED  BY <2>1, FirstPlace
<1> HIDE DEF k
<1>3. k \in markupI .. n + 1
  BY <1>2, PlaceFacts
<1> QED  BY <1>1, <1>3, PushKeeps

LEMMA TextKeeps == ASSUME MarkupInv, ~Done, Text, UNCHANGED markupText PROVE MarkupInv'
<1> DEFINE n == Len(markupText)
           T == {j \in markupI .. n : markupText[j] \in {"lt", "n", "begin"}}
           k == Min(T \cup {n + 1})
<1>1. MarkupPush(markupI + 1, FALSE) \/ MarkupPush(k, FALSE)
  BY Zenon DEF Text, MarkupFirst
<1>2. k \in markupI .. n + 1
  <2>1. T \subseteq markupI .. n /\ markupI \in Nat /\ n \in Nat /\ markupI <= n + 1
    BY PlaceFacts
  <2> HIDE DEF T, n
  <2> QED  BY <2>1, FirstPlace
<1> HIDE DEF k
<1>3. markupI + 1 \in markupI .. n + 1
  BY PlaceFacts
<1> QED  BY <1>1, <1>2, <1>3, PushKeeps

LEMMA AttributeStringKeeps == ASSUME MarkupInv, ~Done, AttributeString, UNCHANGED markupText PROVE MarkupInv'
<1> DEFINE n == Len(markupText)
           T == {j \in markupI + 1 .. n : markupText[j] \in {"q", "n"}}
           k == Min(T \cup {n + 1})
           e == IF MarkupAt(k) = "q" THEN k + 1 ELSE k
<1>1. MarkupPush(e, TRUE)
  BY Zenon DEF AttributeString, MarkupFirst
<1>2. k \in markupI + 1 .. n + 1
  <2>1. T \subseteq markupI + 1 .. n /\ markupI + 1 \in Nat /\ n \in Nat /\ markupI + 1 <= n + 1
    BY PlaceFacts
  <2> HIDE DEF T, n
  <2> QED  BY <2>1, FirstPlace
<1> HIDE DEF k
<1>3. MarkupAt(k) = "q" => k \in 1 .. n
  BY PlaceFacts DEF MarkupAt
<1>4. e \in markupI .. n + 1
  BY <1>2, <1>3, PlaceFacts
<1> HIDE DEF e
<1> QED  BY <1>1, <1>4, PushKeeps

LEMMA AttributeKeeps == ASSUME MarkupInv, ~Done, Attribute, UNCHANGED markupText PROVE MarkupInv'
<1> DEFINE n == Len(markupText)
           T == {j \in markupI .. n : markupText[j] # "w"}
           k == Min(T \cup {n + 1})
           e == IF MarkupAt(markupI) = "w" THEN k ELSE markupI + 1
<1>1. MarkupPush(e, TRUE)
  BY Zenon DEF Attribute, MarkupFirst
<1>2. k \in markupI .. n + 1
  <2>1. T \subseteq markupI .. n /\ markupI \in Nat /\ n \in Nat /\ markupI <= n + 1
    BY PlaceFacts
  <2> HIDE DEF T, n
  <2> QED  BY <2>1, FirstPlace
<1> HIDE DEF k
<1>3. e \in markupI .. n + 1
  BY <1>2, PlaceFacts
<1> HIDE DEF e
<1> QED  BY <1>1, <1>3, PushKeeps

\* The braces and what is between them are the characters of the text.
LEMMA BracesKept ==
  ASSUME NEW S, NEW s \in Seq(S), NEW i \in 1 .. Len(s), NEW k \in i + 1 .. Len(s)
  PROVE  SubSeq(s, i, k) = <<s[i]>> \o SubSeq(s, i + 1, k - 1) \o <<s[k]>>
<1>1. SubSeq(s, i, k) = <<s[i]>> \o SubSeq(s, i + 1, k)
  BY SubSeqRecursiveFirst
<1>2. SubSeq(s, i + 1, k) = SubSeq(s, i + 1, k - 1) \o <<s[k]>>
  <2>1. i + 1 \in 1 .. Len(s) /\ k \in i + 1 .. Len(s)
    OBVIOUS
  <2> QED  BY <2>1, SubSeqRecursiveSecond
<1>3. <<s[i]>> \in Seq(S) /\ SubSeq(s, i + 1, k - 1) \in Seq(S) /\ <<s[k]>> \in Seq(S)
  <2>1. \A j \in i + 1 .. k - 1 : s[j] \in S
    OBVIOUS
  <2> QED  BY <2>1, SubSeqProperties
<1>4. <<s[i]>> \o (SubSeq(s, i + 1, k - 1) \o <<s[k]>>) = <<s[i]>> \o SubSeq(s, i + 1, k - 1) \o <<s[k]>>
  <2> DEFINE leftBrace == <<s[i]>>
             middle == SubSeq(s, i + 1, k - 1)
             rightBrace == <<s[k]>>
  <2>1. leftBrace \in Seq(S) /\ middle \in Seq(S) /\ rightBrace \in Seq(S)
    BY <1>3
  <2> HIDE DEF leftBrace, middle, rightBrace
  <2>2. \A x, y, z \in Seq(S) : (x \o y) \o z = x \o (y \o z)
    BY ConcatAssociative, SMTT(60)
  <2>3. (leftBrace \o middle) \o rightBrace = leftBrace \o (middle \o rightBrace)
    BY <2>1, <2>2, Zenon
  <2> QED  BY <2>3 DEF leftBrace, middle, rightBrace
<1> QED  BY <1>1, <1>2, <1>4

LEMMA ExpressionKeeps ==
  ASSUME MarkupInv, ~Done, MarkupAt(markupI) = "open", Expression, UNCHANGED markupText
  PROVE  MarkupInv'
<1> DEFINE n == Len(markupText)
           i == markupI
           k == ClosedAt(markupI)
           e == IF k > n THEN k ELSE k + 1
           T == {j \in i .. n : MarkupCount("open", i, j) = MarkupCount("close", i, j)}
<1>1. /\ out' = out \o <<"open">> \o SubSeq(markupText, i + 1, e - 2) \o <<"close">>
      /\ markupI' = e /\ markupText' = markupText
  BY Zenon DEF Expression
<1>2. markupText[i] = "open"
  BY PlaceFacts DEF MarkupAt
<1>3. k \in i .. n + 1
  <2>1. T \subseteq i .. n /\ i \in Nat /\ n \in Nat /\ i <= n + 1
    BY PlaceFacts
  <2>2. k = Min(T \cup {n + 1})
    BY DEF ClosedAt, MarkupFirst
  <2> HIDE DEF T, k, n, i
  <2> QED  BY <2>1, <2>2, FirstPlace
<1>4. e \in 1 .. n + 1
  <2> HIDE DEF k
  <2> QED  BY <1>3, PlaceFacts
<1>5. Matched' = Matched
  BY <1>1 DEF Matched, ClosedAt, MarkupFirst, MarkupCount
<1>6. ASSUME Matched PROVE out' = SubSeq(markupText, 1, e - 1)
  <2>1. k <= n
    BY <1>2, <1>6, PlaceFacts DEF Matched
  <2>2. k \in i + 1 .. n /\ markupText[k] = "close"
    BY <1>2, <2>1, PlaceFacts, ClosingBrace
  <2>3. e = k + 1 /\ e - 2 = k - 1 /\ e - 1 = k
    <3> HIDE DEF k
    <3> QED  BY <2>1, <2>2, PlaceFacts
  <2> HIDE DEF k, e
  <2>4. SubSeq(markupText, i, k) = <<"open">> \o SubSeq(markupText, i + 1, k - 1) \o <<"close">>
    BY <1>2, <2>2, PlaceFacts, BracesKept
  <2>5. out = SubSeq(markupText, 1, i - 1)
    BY <1>6 DEF MarkupInv, KeptIfMatched
  <2>6. SubSeq(markupText, 1, i - 1) \o SubSeq(markupText, (i - 1) + 1, k) = SubSeq(markupText, 1, k)
    <3>1. 1 \in 1 .. n + 1 /\ i - 1 \in 1 - 1 .. n /\ k \in i - 1 .. n
      BY <2>2, PlaceFacts
    <3> QED  BY <3>1, PlaceFacts, ConcatAdjacentSubSeq
  <2>7. out \in Seq(MarkupChars) /\ SubSeq(markupText, i + 1, k - 1) \in Seq(MarkupChars)
    <3>1. \A j \in 1 .. i - 1 : markupText[j] \in MarkupChars
      BY PlaceFacts
    <3>2. \A j \in i + 1 .. k - 1 : markupText[j] \in MarkupChars
      BY <2>2, PlaceFacts
    <3>3. 1 \in Int /\ i - 1 \in Int /\ i + 1 \in Int /\ k - 1 \in Int
      BY <2>2, PlaceFacts
    <3>4. SubSeq(markupText, 1, i - 1) \in Seq(MarkupChars)
      BY <3>1, <3>3, SubSeqProperties
    <3>5. SubSeq(markupText, i + 1, k - 1) \in Seq(MarkupChars)
      BY <3>2, <3>3, SubSeqProperties
    <3> QED  BY <2>5, <3>4, <3>5
  <2>8. out \o <<"open">> \o SubSeq(markupText, i + 1, k - 1) \o <<"close">>
          = out \o (<<"open">> \o SubSeq(markupText, i + 1, k - 1) \o <<"close">>)
    <3> DEFINE leftBrace == <<"open">>
               middle == SubSeq(markupText, i + 1, k - 1)
               rightBrace == <<"close">>
    <3>1. out \in Seq(MarkupChars) /\ leftBrace \in Seq(MarkupChars) /\ middle \in Seq(MarkupChars)
          /\ rightBrace \in Seq(MarkupChars)
      BY <2>7 DEF MarkupChars
    <3> HIDE DEF leftBrace, middle, rightBrace
    <3>2. leftBrace \o middle \in Seq(MarkupChars)
      BY <3>1, ConcatProperties, Zenon
    <3>a. \A x, y, z \in Seq(MarkupChars) : (x \o y) \o z = x \o (y \o z)
      BY ConcatAssociative, SMTT(60)
    <3>3. (out \o (leftBrace \o middle)) \o rightBrace = out \o ((leftBrace \o middle) \o rightBrace)
      BY <3>1, <3>2, <3>a, ZenonT(60)
    <3>4. (out \o leftBrace) \o middle = out \o (leftBrace \o middle)
      BY <3>1, <3>a, Zenon
    <3> QED  BY <3>3, <3>4 DEF leftBrace, middle, rightBrace
  <2>9. (i - 1) + 1 = i
    BY PlaceFacts
  <2> QED  BY <1>1, <2>3, <2>4, <2>5, <2>6, <2>8, <2>9
<1> HIDE DEF k, e
<1>7. KeptIfMatched'
  BY <1>1, <1>5, <1>6 DEF KeptIfMatched
<1> QED  BY <1>1, <1>4, <1>7, PlaceFacts DEF MarkupInv

\* What is shown of markup is its text, character by character, when every brace
\* is closed (app.js: hlMarkup).
THEOREM MarkupIsKept == MarkupSpec => []KeptIfMatched
<1>1. MarkupInit => MarkupInv
  <2> SUFFICES ASSUME MarkupInit PROVE MarkupInv
    OBVIOUS
  <2>1. markupText \in Seq(MarkupChars)
    BY BoundedIsSeq DEF MarkupInit
  <2>2. markupI = 1 /\ out = << >>
    BY DEF MarkupInit
  <2>3. SubSeq(markupText, 1, markupI - 1) = << >>
    BY <2>2, SubSeqEmpty
  <2> QED  BY <2>1, <2>2, <2>3 DEF MarkupInv, KeptIfMatched
<1>2. MarkupInv /\ [Step]_markupVars => MarkupInv'
  <2> SUFFICES ASSUME MarkupInv, [Step]_markupVars PROVE MarkupInv'
    OBVIOUS
  <2>1. CASE UNCHANGED markupVars
    <3>1. markupText' = markupText /\ markupI' = markupI /\ out' = out
      BY <2>1 DEF markupVars
    <3>2. Matched' = Matched
      BY <3>1 DEF Matched, ClosedAt, MarkupFirst, MarkupCount
    <3> QED  BY <3>1, <3>2 DEF MarkupInv, KeptIfMatched
  <2>2. CASE Step
    <3>1. ~Done /\ UNCHANGED markupText
      BY <2>2 DEF Step
    <3>2. CASE Comment
      BY <3>1, <3>2, CommentKeeps
    <3>3. CASE TagStart
      BY <3>1, <3>3, TagStartKeeps
    <3>4. CASE Text
      BY <3>1, <3>4, TextKeeps
    <3>5. CASE InTag
      <4>1. CASE MarkupPush(markupI + 1, FALSE)
        <5>1. markupI + 1 \in markupI .. Len(markupText) + 1
          BY <3>1, PlaceFacts
        <5> QED  BY <3>1, <4>1, <5>1, PushKeeps
      <4>2. CASE MarkupAt(markupI) = "open" /\ Expression
        BY <3>1, <4>2, ExpressionKeeps
      <4>3. CASE AttributeString
        BY <3>1, <4>3, AttributeStringKeeps
      <4>4. CASE Attribute
        BY <3>1, <4>4, AttributeKeeps
      <4> QED  BY <3>5, <4>1, <4>2, <4>3, <4>4 DEF InTag
    <3> QED  BY <2>2, <3>2, <3>3, <3>4, <3>5 DEF Step
  <2> QED  BY <2>1, <2>2
<1>3. MarkupInv => KeptIfMatched
  BY DEF MarkupInv
<1> QED  BY <1>1, <1>2, <1>3, PTL DEF MarkupSpec

-----------------------------------------------------------------------------
\* The panel is safe, and what the viewer reads off a page agrees with it: the text of
\* a file, the origins it contacts, the modules of a page, its metadata and its
\* readiness (og-preview: extension.mjs, ui/app.js, lib).
THEOREM ViewerIsSafe == ViewerSpec => []ViewerSafe
<1>1. PanelSafe /\ KeptIfMatched /\ FetchTypeOK /\ LocalUnlessLeft /\ FetchAnswered /\ ImportsInPlace
        /\ RequiredIsShown /\ NoComplaintTwice /\ PageIsNoFile /\ SilentSiteWarned
        => ViewerSafe
  BY DEF ViewerSafe
<1> QED
  BY <1>1, PanelIsSafe, MarkupIsKept, FetchIsSafe, ImportsAreInPlace, MetadataIsSafe, ReadinessIsSafe, PTL
  DEF ViewerSpec
=============================================================================
