----------------------------- MODULE SiteProofs -----------------------------
(***************************************************************************)
(* The safety of client code of the site, for every page, list, text and   *)
(* address: the drawing of diagrams, the glossary, the search of the API   *)
(* reference, and the filters with their history, one section for each.    *)
(***************************************************************************)
EXTENDS MermaidDiagrams, SitePages, SiteSearch, FiniteSetTheorems, SequenceTheorems, WellFoundedInduction, TLAPS

-----------------------------------------------------------------------------
(* MermaidDiagrams: one worker at a time, nothing outdated shown, and      *)
(* nothing left undrawn when all is done.  The last needs the invariant:   *)
(* whatever of the page is not drawn in the theme asked for is asked for   *)
(* (pending), is in the hands of a worker whose request is current (Kept), *)
(* or a change of the theme is still to be reported (Noted).               *)


Busy(w) == worker[w].pc \in {"load", "next", "draw"}

(* What the page has asked for.                                            *)
Noted ==
    /\ body # 0 => theme \in Themes
    /\ body # 0 /\ ~mutated => theme = dataTheme
    /\ mutated => body # 0 /\ dataTheme # theme
    /\ pending => body # 0

(* A worker has diagrams of its page only, and the library set to its      *)
(* theme.                                                                  *)
Own(w) ==
    /\ Busy(w) => worker[w].left \subseteq DiagramsOf(worker[w].page)
    /\ worker[w].pc \in {"next", "draw"} => config = worker[w].theme
    /\ worker[w].pc = "draw" => /\ worker[w].diagram \in DiagramsOf(worker[w].page)
                                /\ worker[w].with = worker[w].theme

(* What counts as drawn is shown, unless it failed.                        *)
DrawnIsShown == \A d \in All : rendered[d] # "" => shown[d] \in {rendered[d], Error}

WillShow(w, d) ==
    /\ Busy(w)
    /\ worker[w].page = body /\ worker[w].revision = generation /\ worker[w].theme = theme
    /\ d \in worker[w].left \/ (worker[w].pc = "draw" /\ worker[w].diagram = d)

Kept ==
    body # 0 /\ ~pending /\ ~mutated =>
        \A d \in DiagramsOf(body) : shown[d] \in {theme, Error} \/ \E w \in Workers : WillShow(w, d)

Alone == \A v, w \in Workers : v # w => Idle \in {worker[v], worker[w]}

IInv == TypeOK /\ Noted /\ Alone /\ (\A w \in Workers : Own(w)) /\ DrawnIsShown /\ Kept

States == {Idle, [pc |-> "loop"]} \cup Request \cup Drawing

-----------------------------------------------------------------------------

LEMMA StateKinds ==
    ASSUME NEW s \in States
    PROVE  /\ s.pc \in {"idle", "loop", "load", "next", "draw"}
           /\ s.pc = "idle" => s = Idle
           /\ s.pc = "loop" => s = [pc |-> "loop"]
           /\ s.pc \in {"load", "next"} => s \in Request
           /\ s.pc = "draw" => s \in Drawing
<1>1. CASE s = Idle
  BY <1>1 DEF Idle
<1>2. CASE s = [pc |-> "loop"]
  BY <1>2
<1>3. CASE s \in Request
  <2>1. s.pc \in {"load", "next"}
    BY <1>3 DEF Request
  <2> QED  BY <1>3, <2>1
<1>4. CASE s \in Drawing
  <2>1. s.pc = "draw"
    BY <1>4 DEF Drawing
  <2> QED  BY <1>4, <2>1
<1> QED  BY <1>1, <1>2, <1>3, <1>4 DEF States

LEMMA WorkerTypes == TypeOK => worker \in [Workers -> States]
BY DEF TypeOK, States

LEMMA InitInv == Init => IInv
<1> SUFFICES ASSUME Init PROVE IInv
  OBVIOUS
<1>1. TypeOK
  BY PagesAssumption DEF Init, TypeOK, Idle, Workers, Source
<1>2. Noted /\ DrawnIsShown /\ Kept
  BY DEF Init, Noted, DrawnIsShown, Kept
<1>3. Alone /\ \A w \in Workers : Own(w)
  BY DEF Init, Alone, Own, Busy, Idle
<1> QED  BY <1>1, <1>2, <1>3 DEF IInv

(* A worker that acts is alone, and stays alone.                           *)
LEMMA OthersIdle ==
    ASSUME IInv, NEW w \in Workers, worker[w].pc # "idle", NEW s \in States, Become(w, s)
    PROVE  /\ worker' \in [Workers -> States] /\ worker'[w] = s
           /\ \A v \in Workers \ {w} : worker[v] = Idle /\ worker'[v] = Idle
           /\ Alone'
<1>1. worker \in [Workers -> States]
  BY WorkerTypes DEF IInv
<1>2. worker[w] # Idle
  BY DEF Idle
<1>3. \A v \in Workers \ {w} : worker[v] = Idle
  BY <1>2 DEF IInv, Alone
<1>4. worker' \in [Workers -> States] /\ worker'[w] = s
      /\ \A v \in Workers \ {w} : worker'[v] = worker[v]
  BY <1>1 DEF Become
<1> QED  BY <1>3, <1>4 DEF Alone

(* Nothing is running: everyone is idle.                                   *)
LEMMA AllIdle == IInv /\ ~running => \A w \in Workers : worker[w] = Idle
BY StateKinds, WorkerTypes DEF IInv, TypeOK

-----------------------------------------------------------------------------
(* Asking for a drawing.                                                   *)

(* schedule: the worker there is goes on, or one is started; either way it *)
(* has nothing of the new request yet.                                     *)
LEMMA Scheduling ==
    ASSUME IInv, NEW page \in Pages, NEW g \in Nat, Schedule(page, g),
           document' = page, dataTheme' = dataTheme, mutated' = FALSE,
           rendered' = rendered, shown' = shown, config' = config
    PROVE  IInv'
<1>t. TypeOK /\ worker \in [Workers -> States]
  BY WorkerTypes DEF IInv
<1>1. /\ body' = page /\ theme' = dataTheme /\ generation' \in Nat /\ pending' /\ running'
      /\ pending' \in BOOLEAN /\ running' \in BOOLEAN
  BY DEF Schedule
<1>2. /\ worker' \in [Workers -> States] /\ Alone'
      /\ \E w \in Workers : worker'[w].pc # "idle"
      /\ \A w \in Workers : worker'[w] \in {worker[w], [pc |-> "loop"]}
  <2>1. CASE running
    BY <1>t, <2>1 DEF Schedule, IInv, TypeOK, Alone
  <2>2. CASE ~running
    <3>1. \A w \in Workers : worker[w] = Idle
      BY <2>2, AllIdle
    <3>2. 1 \in Workers /\ worker[1].pc = "idle"
      BY <3>1 DEF Workers, Idle
    <3>3. PICK w \in Workers : worker' = [worker EXCEPT ![w] = [pc |-> "loop"]]
      <4> DEFINE w == CHOOSE w \in Workers : worker[w].pc = "idle"
      <4>1. w \in Workers
        BY <3>2
      <4>2. worker' = [worker EXCEPT ![w] = [pc |-> "loop"]]
        BY <2>2 DEF Schedule
      <4> HIDE DEF w
      <4> QED  BY <4>1, <4>2
    <3>4. worker'[w] = [pc |-> "loop"] /\ \A v \in Workers \ {w} : worker'[v] = Idle
      BY <1>t, <3>1, <3>3
    <3>5. worker' \in [Workers -> States]
      BY <1>t, <3>3 DEF States
    <3> QED  BY <3>1, <3>4, <3>5 DEF Alone
  <2> QED  BY <2>1, <2>2
<1>3. TypeOK'
  BY <1>t, <1>1, <1>2 DEF TypeOK, States
<1>4. Noted'
  BY <1>t, <1>1, PagesAssumption DEF Noted, TypeOK
<1>5. \A w \in Workers : Own(w)'
  BY <1>2 DEF Own, Busy, IInv
<1>6. DrawnIsShown' /\ Kept'
  BY <1>1 DEF IInv, DrawnIsShown, Kept
<1> QED  BY <1>2, <1>3, <1>4, <1>5, <1>6 DEF IInv

LEMMA PageLoadStep == IInv /\ PageLoad => IInv'
<1> SUFFICES ASSUME IInv, PageLoad PROVE IInv'
  OBVIOUS
<1>t. document \in Pages /\ body \in {0, document} /\ generation \in Nat
  BY DEF IInv, TypeOK
<1>1. document \in Pages /\ generation + 1 \in Nat /\ body = 0
  BY <1>t DEF PageLoad
<1>2. ~mutated /\ mutated \in BOOLEAN
  BY <1>1 DEF IInv, Noted, TypeOK
<1>3. mutated' = FALSE
  BY <1>2 DEF PageLoad
<1> QED  BY <1>1, <1>3, Scheduling DEF PageLoad

LEMMA ThemeObservedStep == IInv /\ ThemeObserved => IInv'
<1> SUFFICES ASSUME IInv, ThemeObserved PROVE IInv'
  OBVIOUS
<1>1. dataTheme # theme /\ body = document /\ body \in Pages /\ generation \in Nat
  BY DEF IInv, Noted, TypeOK, ThemeObserved
<1>2. Schedule(body, generation)
  BY <1>1 DEF ThemeObserved
<1> QED  BY <1>1, <1>2, Scheduling DEF ThemeObserved

LEMMA LeavePageStep == IInv /\ LeavePage => IInv'
<1> SUFFICES ASSUME IInv, LeavePage PROVE IInv'
  OBVIOUS
<1>t. generation \in Nat /\ mutated \in BOOLEAN
  BY DEF IInv, TypeOK
<1>1. body' = 0 /\ pending' = FALSE /\ mutated' = FALSE /\ dataTheme' \in Themes
      /\ document' \in Pages /\ generation' \in Nat
      /\ UNCHANGED <<theme, running, rendered, shown, worker, config>>
  BY <1>t DEF LeavePage
<1>2. TypeOK'
  BY <1>1 DEF IInv, TypeOK
<1>3. Noted' /\ Kept' /\ DrawnIsShown' /\ Alone'
  BY <1>1 DEF Noted, Kept, IInv, DrawnIsShown, Alone
<1>4. \A w \in Workers : Own(w)'
  BY <1>1 DEF IInv, Own, Busy
<1> QED  BY <1>2, <1>3, <1>4 DEF IInv

LEMMA ToggleStep == IInv /\ Toggle => IInv'
<1> SUFFICES ASSUME IInv, Toggle PROVE IInv'
  OBVIOUS
<1>1. /\ dataTheme' \in Themes \ {dataTheme} /\ mutated' = (body # 0) /\ ~mutated
      /\ UNCHANGED <<document, body, theme, generation, pending, running, rendered, shown,
                     worker, config>>
  BY DEF Toggle, requests
<1>2. TypeOK'
  BY <1>1 DEF IInv, TypeOK
<1>3. Noted' /\ Kept' /\ DrawnIsShown' /\ Alone'
  BY <1>1 DEF Noted, Kept, IInv, DrawnIsShown, Alone
<1>4. \A w \in Workers : Own(w)'
  BY <1>1 DEF IInv, Own, Busy
<1> QED  BY <1>2, <1>3, <1>4 DEF IInv

-----------------------------------------------------------------------------
(* A worker's steps.                                                       *)

(* What a worker is given and what it makes of a diagram.                  *)
LEMMA WorkerFields ==
    ASSUME TypeOK, NEW w \in Workers
    PROVE  /\ worker[w].pc \in {"load", "next"} => worker[w] \in Request
           /\ worker[w].pc = "draw" => worker[w] \in Drawing
           /\ Busy(w) => /\ worker[w].page \in Pages /\ worker[w].theme \in Themes
                         /\ worker[w].revision \in Nat /\ worker[w].left \subseteq All
<1>1. worker[w] \in States
  BY WorkerTypes
<1>2. worker[w].pc \in {"load", "next"} => worker[w] \in Request
  BY <1>1, StateKinds
<1>3. worker[w].pc = "draw" => worker[w] \in Drawing
  BY <1>1, StateKinds
<1> QED  BY <1>2, <1>3 DEF Busy, Request, Drawing

(* The request of a worker is current as soon as it is the page's own.     *)
LEMMA OwnIsCurrent ==
    ASSUME IInv, NEW w \in Workers, body # 0, ~mutated,
           worker[w].page = body, worker[w].revision = generation, worker[w].theme = theme
    PROVE  Current(w)
BY DEF IInv, TypeOK, Noted, Current

(* A step of worker w to state s that leaves the requests alone.           *)
LEMMA WorkerStep ==
    ASSUME IInv, NEW w \in Workers, worker[w].pc # "idle", NEW s \in States, s.pc # "idle",
           Become(w, s), UNCHANGED <<document, dataTheme, mutated, body, theme, generation, running>>,
           pending' \in BOOLEAN, pending' => pending, config' \in Themes \cup {""},
           rendered' \in [All -> Themes \cup {""}], shown' \in [All -> Themes \cup {"", Source, Error}]
    PROVE  TypeOK' /\ Noted' /\ Alone'
<1>1. worker' \in [Workers -> States] /\ worker'[w] = s /\ Alone'
  BY OthersIdle
<1>2. \E v \in Workers : worker'[v].pc # "idle"
  BY <1>1
<1>3. running
  BY DEF IInv, TypeOK
<1>4. TypeOK'
  BY <1>1, <1>2, <1>3 DEF IInv, TypeOK, States
<1>5. Noted'
  BY DEF IInv, Noted
<1> QED  BY <1>1, <1>4, <1>5

LEMMA OwnOthers ==
    ASSUME NEW v \in Workers, worker'[v] = Idle
    PROVE  Own(v)'
BY DEF Own, Busy, Idle

LEMMA LoopType == [pc |-> "loop"] \in States /\ [pc |-> "loop"].pc = "loop"
BY DEF States

LEMMA TakeStep ==
    ASSUME IInv, NEW w \in Workers, Take(w)
    PROVE  IInv'
<1>u. UNCHANGED <<document, dataTheme, mutated, body, theme, generation, rendered, shown, config>>
  BY DEF Take
<1>d. DrawnIsShown'
  BY <1>u DEF IInv, DrawnIsShown
<1>t. TypeOK /\ pending \in BOOLEAN /\ worker \in [Workers -> States]
  BY WorkerTypes DEF IInv, TypeOK
<1>1. CASE pending /\ body # 0
  <2> DEFINE left == {d \in DiagramsOf(body) : rendered[d] # theme}
             s == [pc |-> "load", page |-> body, theme |-> theme, revision |-> generation,
                   left |-> left]
  <2>1. pending' = FALSE /\ running' = running
        /\ IF left = {} THEN worker' = worker ELSE Become(w, s)
    BY <1>1 DEF Take
  <2>2. \A d \in DiagramsOf(body) : d \notin left => shown[d] \in {theme, Error}
    <3>1. DiagramsOf(body) \subseteq All /\ theme \in Themes
      BY <1>1 DEF IInv, TypeOK, Noted, All
    <3> QED  BY <3>1, ThemesAssumption DEF IInv, DrawnIsShown
  <2>3. CASE left = {}
    <3>1. UNCHANGED <<worker, running>>
      BY <2>1, <2>3
    <3>2. TypeOK' /\ Noted' /\ Alone'
      <4>1. TypeOK'
        <5>1. pending' \in BOOLEAN /\ ~pending'
          BY <2>1
        <5> HIDE DEF left
        <5> QED  BY <1>u, <3>1, <5>1 DEF IInv, TypeOK
      <4>2. Noted' /\ Alone'
        BY <1>u, <2>1, <3>1 DEF IInv, Noted, Alone
      <4> QED  BY <4>1, <4>2
    <3>3. Kept'
      <4>1. \A d \in DiagramsOf(body) : shown[d] \in {theme, Error}
        BY <2>2, <2>3
      <4>2. \A d \in DiagramsOf(body') : shown'[d] \in {theme', Error}
        BY <1>u, <4>1
      <4> QED  BY <4>2 DEF Kept
    <3>4. \A v \in Workers : Own(v)'
      BY <1>u, <3>1 DEF IInv, Own, Busy
    <3> QED  BY <1>d, <3>2, <3>3, <3>4 DEF IInv
  <2>4. CASE left # {}
    <3>1. s \in States /\ s.pc = "load" /\ left \subseteq DiagramsOf(body)
      <4>1. body \in Pages /\ generation \in Nat /\ theme \in Themes
        BY <1>1 DEF IInv, TypeOK, Noted
      <4>2. left \in SUBSET All
        BY <4>1 DEF All
      <4> HIDE DEF left
      <4>3. s \in Request
        BY <4>1, <4>2 DEF Request
      <4>4. s.pc = "load"
        OBVIOUS
      <4> QED  BY <4>3, <4>4 DEF States, left
    <3>s. s.page = body /\ s.revision = generation /\ s.theme = theme /\ s.left = left
      OBVIOUS
    <3>2. Become(w, s) /\ worker[w].pc = "loop"
      BY <2>1, <2>4 DEF Take
    <3> HIDE DEF s
    <3>3. worker'[w] = s /\ \A v \in Workers \ {w} : worker'[v] = Idle
      BY <3>1, <3>2, OthersIdle
    <3>4. TypeOK' /\ Noted' /\ Alone'
      <4>1. /\ config' \in Themes \cup {""} /\ rendered' \in [All -> Themes \cup {""}]
            /\ shown' \in [All -> Themes \cup {"", Source, Error}]
        BY <1>u DEF IInv, TypeOK
      <4> QED  BY <1>u, <2>1, <3>1, <3>2, <4>1, WorkerStep
    <3>5. \A v \in Workers : Own(v)'
      <4>1. Own(w)'
        BY <3>1, <3>s, <3>3 DEF Own, Busy
      <4> QED  BY <3>3, <4>1, OwnOthers
    <3>6. Kept'
      <4>1. \A d \in left : WillShow(w, d)'
        BY <1>u, <3>1, <3>s, <3>3 DEF WillShow, Busy
      <4>2. \A d \in DiagramsOf(body) : shown[d] \in {theme, Error} \/ WillShow(w, d)'
        BY <2>2, <4>1
      <4>3. \A d \in DiagramsOf(body') : shown'[d] \in {theme', Error} \/ WillShow(w, d)'
        BY <1>u, <4>2
      <4> QED  BY <4>3 DEF Kept
    <3> QED  BY <1>d, <3>4, <3>5, <3>6 DEF IInv
  <2> QED  BY <2>3, <2>4
<1>2. CASE ~(pending /\ body # 0)
  <2>1. Become(w, Idle) /\ running' = FALSE /\ pending' = pending /\ worker[w].pc = "loop"
    BY <1>2 DEF Take
  <2>2. ~pending
    BY <1>2 DEF IInv, Noted
  <2>3. Idle \in States
    BY DEF States
  <2>4. worker' \in [Workers -> States] /\ Alone' /\ \A v \in Workers : worker'[v] = Idle
    BY <2>1, <2>3, OthersIdle
  <2>5. TypeOK'
    <3>1. \A v \in Workers : worker'[v].pc = "idle"
      BY <2>4 DEF Idle
    <3> QED  BY <1>u, <2>1, <2>2, <2>4, <3>1 DEF IInv, TypeOK, States
  <2>6. Noted'
    BY <1>u, <2>1 DEF IInv, Noted
  <2>7. \A v \in Workers : Own(v)'
    BY <2>4, OwnOthers
  <2>8. Kept'
    <3>1. \A v \in Workers : ~Busy(v)
      <4>1. worker[w].pc = "loop" /\ \A v \in Workers \ {w} : worker[v] = Idle
        BY <2>1, <2>3, OthersIdle
      <4> QED  BY <4>1 DEF Busy, Idle
    <3>2. body # 0 /\ ~mutated => \A d \in DiagramsOf(body) : shown[d] \in {theme, Error}
      BY <2>2, <3>1 DEF IInv, Kept, WillShow
    <3> QED  BY <1>u, <3>2 DEF Kept
  <2> QED  BY <1>d, <2>4, <2>5, <2>6, <2>7, <2>8 DEF IInv
<1> QED  BY <1>1, <1>2

(* A worker that keeps its request, and whose diagrams are only fewer by   *)
(* those that are shown.                                                   *)
LEMMA KeptStep ==
    ASSUME IInv, NEW w \in Workers, worker[w].pc # "idle", NEW s \in States, Become(w, s),
           UNCHANGED <<document, dataTheme, mutated, body, theme, generation>>, pending' = pending,
           \A d \in All : body # 0 /\ ~mutated /\ shown[d] \in {theme, Error} =>
                              shown'[d] \in {theme, Error},
           \A d \in All : body # 0 /\ ~pending /\ ~mutated /\ WillShow(w, d) =>
                              shown'[d] \in {theme, Error} \/ WillShow(w, d)'
    PROVE  Kept'
<1>1. \A v \in Workers \ {w} : worker[v] = Idle
  BY OthersIdle
<1>2. \A v \in Workers, d \in All : WillShow(v, d) => v = w
  BY <1>1 DEF WillShow, Busy, Idle
<1>3. SUFFICES ASSUME body # 0, ~pending, ~mutated, NEW d \in DiagramsOf(body)
               PROVE  shown'[d] \in {theme, Error} \/ WillShow(w, d)'
  BY DEF Kept
<1>4. d \in All
  BY <1>3 DEF IInv, TypeOK, All
<1>5. shown[d] \in {theme, Error} \/ WillShow(w, d)
  BY <1>2, <1>3, <1>4 DEF IInv, Kept
<1> QED  BY <1>3, <1>4, <1>5

LEMMA LoadedStep ==
    ASSUME IInv, NEW w \in Workers, Loaded(w)
    PROVE  IInv'
<1>u. UNCHANGED <<document, dataTheme, mutated, body, theme, generation, pending, running,
                  rendered, shown>>
  BY DEF Loaded, requests
<1>t. /\ TypeOK /\ worker[w] \in Request /\ Busy(w) /\ worker[w].pc = "load"
      /\ worker[w].theme \in Themes /\ worker[w].left \subseteq DiagramsOf(worker[w].page)
  BY WorkerFields DEF IInv, Loaded, Busy, Own
<1>d. DrawnIsShown'
  BY <1>u DEF IInv, DrawnIsShown
<1>r. /\ rendered' \in [All -> Themes \cup {""}]
      /\ shown' \in [All -> Themes \cup {"", Source, Error}] /\ pending' \in BOOLEAN
  BY <1>u DEF IInv, TypeOK
<1>1. CASE Current(w)
  <2> DEFINE s == [worker[w] EXCEPT !.pc = "next"]
  <2>1. config' = worker[w].theme /\ Become(w, s)
    BY <1>1 DEF Loaded
  <2>2. /\ s \in Request /\ s.pc = "next" /\ s.page = worker[w].page /\ s.theme = worker[w].theme
        /\ s.revision = worker[w].revision /\ s.left = worker[w].left
    BY <1>t DEF Request
  <2>3. s \in States
    BY <2>2 DEF States
  <2> HIDE DEF s
  <2>4. worker'[w] = s /\ \A v \in Workers \ {w} : worker'[v] = Idle
    BY <1>t, <2>1, <2>3, OthersIdle
  <2>5. TypeOK' /\ Noted' /\ Alone'
    BY <1>u, <1>r, <1>t, <2>1, <2>2, <2>3, WorkerStep
  <2>6. \A v \in Workers : Own(v)'
    <3>1. Own(w)'
      BY <1>t, <2>1, <2>2, <2>4 DEF Own, Busy
    <3> QED  BY <2>4, <3>1, OwnOthers
  <2>7. \A d \in All : WillShow(w, d) => WillShow(w, d)'
    BY <1>t, <1>u, <2>2, <2>4 DEF WillShow, Busy
  <2>8. Kept'
    BY <1>t, <1>u, <2>1, <2>3, <2>7, KeptStep
  <2> QED  BY <1>d, <2>5, <2>6, <2>8 DEF IInv
<1>2. CASE ~Current(w)
  <2>1. config' = config /\ Become(w, [pc |-> "loop"])
    BY <1>2 DEF Loaded
  <2>2. config' \in Themes \cup {""}
    BY <2>1 DEF IInv, TypeOK
  <2>3. TypeOK' /\ Noted' /\ Alone'
    BY <1>u, <1>r, <1>t, <2>1, <2>2, LoopType, WorkerStep
  <2>4. worker'[w] = [pc |-> "loop"] /\ \A v \in Workers \ {w} : worker'[v] = Idle
    BY <1>t, <2>1, LoopType, OthersIdle
  <2>5. \A v \in Workers : Own(v)'
    <3>1. Own(w)'
      BY <2>4, LoopType DEF Own, Busy
    <3> QED  BY <2>4, <3>1, OwnOthers
  <2>6. \A d \in All : body # 0 /\ ~mutated => ~WillShow(w, d)
    BY <1>2, OwnIsCurrent DEF WillShow
  <2>7. Kept'
    BY <1>t, <1>u, <2>1, <2>6, LoopType, KeptStep
  <2> QED  BY <1>d, <2>3, <2>5, <2>7 DEF IInv
<1> QED  BY <1>1, <1>2

LEMMA LoadFailedStep ==
    ASSUME IInv, NEW w \in Workers, LoadFailed(w)
    PROVE  IInv'
<1>u. UNCHANGED <<document, dataTheme, mutated, body, theme, generation, pending, running,
                  rendered, config>>
  BY DEF LoadFailed, requests
<1>t. TypeOK /\ worker[w].pc = "load" /\ Become(w, [pc |-> "loop"])
  BY DEF IInv, LoadFailed
<1>s. \A d \in All : shown'[d] = IF Current(w) /\ d \in worker[w].left THEN Error ELSE shown[d]
  BY DEF LoadFailed
<1>r. /\ rendered' \in [All -> Themes \cup {""}] /\ config' \in Themes \cup {""}
      /\ shown' \in [All -> Themes \cup {"", Source, Error}] /\ pending' \in BOOLEAN
  BY <1>t, <1>u DEF TypeOK, LoadFailed
<1>d. DrawnIsShown'
  BY <1>u, <1>s DEF IInv, DrawnIsShown
<1>3. TypeOK' /\ Noted' /\ Alone'
  BY <1>u, <1>r, <1>t, LoopType, WorkerStep
<1>4. worker'[w] = [pc |-> "loop"] /\ \A v \in Workers \ {w} : worker'[v] = Idle
  BY <1>t, LoopType, OthersIdle
<1>5. \A v \in Workers : Own(v)'
  <2>1. Own(w)'
    BY <1>4, LoopType DEF Own, Busy
  <2> QED  BY <1>4, <2>1, OwnOthers
<1>6. \A d \in All : body # 0 /\ ~pending /\ ~mutated /\ WillShow(w, d) => shown'[d] = Error
  <2> SUFFICES ASSUME NEW d \in All, body # 0, ~mutated, WillShow(w, d) PROVE shown'[d] = Error
    OBVIOUS
  <2>1. Current(w) /\ d \in worker[w].left
    BY <1>t, OwnIsCurrent DEF WillShow
  <2> QED  BY <1>s, <2>1
<1>7. Kept'
  BY <1>t, <1>u, <1>s, <1>6, LoopType, KeptStep
<1> QED  BY <1>d, <1>3, <1>5, <1>7 DEF IInv

LEMMA RenderStep ==
    ASSUME IInv, NEW w \in Workers, Render(w)
    PROVE  IInv'
<1>u. UNCHANGED <<document, dataTheme, mutated, body, theme, generation, pending, running,
                  rendered, shown, config>>
  BY DEF Render, requests
<1>t. /\ TypeOK /\ worker[w].pc = "next" /\ Busy(w)
      /\ worker[w].page \in Pages /\ worker[w].theme \in Themes /\ worker[w].revision \in Nat
      /\ worker[w].left \subseteq All /\ worker[w].left \subseteq DiagramsOf(worker[w].page)
      /\ config = worker[w].theme
  BY WorkerFields DEF IInv, Render, Busy, Own
<1>d. DrawnIsShown'
  BY <1>u DEF IInv, DrawnIsShown
<1>r. /\ rendered' \in [All -> Themes \cup {""}] /\ config' \in Themes \cup {""}
      /\ shown' \in [All -> Themes \cup {"", Source, Error}] /\ pending' \in BOOLEAN
  BY <1>u DEF IInv, TypeOK
<1>1. CASE worker[w].left = {} \/ ~Current(w)
  <2>1. Become(w, [pc |-> "loop"])
    BY <1>1 DEF Render
  <2>2. TypeOK' /\ Noted' /\ Alone'
    BY <1>u, <1>r, <1>t, <2>1, LoopType, WorkerStep
  <2>3. worker'[w] = [pc |-> "loop"] /\ \A v \in Workers \ {w} : worker'[v] = Idle
    BY <1>t, <2>1, LoopType, OthersIdle
  <2>4. \A v \in Workers : Own(v)'
    <3>1. Own(w)'
      BY <2>3, LoopType DEF Own, Busy
    <3> QED  BY <2>3, <3>1, OwnOthers
  <2>5. \A d \in All : body # 0 /\ ~mutated => ~WillShow(w, d)
    BY <1>1, <1>t, OwnIsCurrent DEF WillShow
  <2>6. Kept'
    BY <1>t, <1>u, <2>1, <2>5, LoopType, KeptStep
  <2> QED  BY <1>d, <2>2, <2>4, <2>6 DEF IInv
<1>2. CASE ~(worker[w].left = {} \/ ~Current(w))
  <2>1. PICK d \in worker[w].left :
          Become(w, [pc |-> "draw", page |-> worker[w].page, theme |-> worker[w].theme,
                     revision |-> worker[w].revision, left |-> worker[w].left \ {d},
                     diagram |-> d, with |-> config])
    BY <1>2 DEF Render
  <2> DEFINE s == [pc |-> "draw", page |-> worker[w].page, theme |-> worker[w].theme,
                   revision |-> worker[w].revision, left |-> worker[w].left \ {d},
                   diagram |-> d, with |-> config]
  <2>2. /\ s.pc = "draw" /\ s.page = worker[w].page /\ s.theme = worker[w].theme
        /\ s.revision = worker[w].revision /\ s.left = worker[w].left \ {d}
        /\ s.diagram = d /\ s.with = config
    OBVIOUS
  <2>3. s \in States
    <3>1. d \in All /\ worker[w].left \ {d} \in SUBSET All /\ config \in Themes
      BY <1>t, <2>1
    <3>2. s \in Drawing
      BY <1>t, <3>1 DEF Drawing
    <3> HIDE DEF s
    <3> QED  BY <3>2 DEF States
  <2>4. Become(w, s)
    BY <2>1
  <2> HIDE DEF s
  <2>5. worker'[w] = s /\ \A v \in Workers \ {w} : worker'[v] = Idle
    BY <1>t, <2>3, <2>4, OthersIdle
  <2>6. TypeOK' /\ Noted' /\ Alone'
    BY <1>u, <1>r, <1>t, <2>2, <2>3, <2>4, WorkerStep
  <2>7. \A v \in Workers : Own(v)'
    <3>1. Own(w)'
      <4>1. config' = worker'[w].theme /\ worker'[w].with = worker'[w].theme
        BY <1>t, <1>u, <2>2, <2>5
      <4>2. /\ worker'[w].left \subseteq DiagramsOf(worker'[w].page)
            /\ worker'[w].diagram \in DiagramsOf(worker'[w].page)
        BY <1>t, <2>1, <2>2, <2>5
      <4> QED  BY <2>2, <2>5, <4>1, <4>2 DEF Own, Busy
    <3> QED  BY <2>5, <3>1, OwnOthers
  <2>8. \A e \in All : WillShow(w, e) => WillShow(w, e)'
    BY <1>t, <1>u, <2>2, <2>5 DEF WillShow, Busy
  <2>9. Kept'
    BY <1>t, <1>u, <2>3, <2>4, <2>8, KeptStep
  <2> QED  BY <1>d, <2>6, <2>7, <2>9 DEF IInv
<1> QED  BY <1>1, <1>2

LEMMA DrawnStep ==
    ASSUME IInv, NEW w \in Workers, Drawn(w)
    PROVE  IInv'
<1>u. UNCHANGED <<document, dataTheme, mutated, body, theme, generation, pending, running, config>>
  BY DEF Drawn, requests
<1>t. /\ TypeOK /\ worker[w].pc = "draw" /\ Busy(w)
      /\ worker[w].page \in Pages /\ worker[w].theme \in Themes /\ worker[w].revision \in Nat
      /\ worker[w].left \subseteq All /\ worker[w].left \subseteq DiagramsOf(worker[w].page)
      /\ worker[w].with = worker[w].theme
  BY WorkerFields DEF IInv, Drawn, Busy, Own
<1> DEFINE s == [pc |-> "next", page |-> worker[w].page, theme |-> worker[w].theme,
                 revision |-> worker[w].revision, left |-> worker[w].left]
           e == worker[w].diagram
<1>1. /\ s.pc = "next" /\ s.page = worker[w].page /\ s.theme = worker[w].theme
      /\ s.revision = worker[w].revision /\ s.left = worker[w].left
  OBVIOUS
<1>2. s \in States
  <2>1. s \in Request
    BY <1>t DEF Request
  <2> HIDE DEF s
  <2> QED  BY <2>1 DEF States
<1>3. Become(w, s)
  BY DEF Drawn, After
<1>4. e \in All
  BY <1>t, WorkerFields DEF Drawing
<1>5. IF Current(w)
      THEN \E result \in {worker[w].theme, Error} :
              /\ shown' = [shown EXCEPT ![e] = result]
              /\ rendered' = [rendered EXCEPT ![e] = worker[w].theme]
      ELSE UNCHANGED <<shown, rendered>>
  BY <1>t DEF Drawn
<1>r. /\ rendered \in [All -> Themes \cup {""}] /\ config \in Themes \cup {""}
      /\ shown \in [All -> Themes \cup {"", Source, Error}] /\ pending \in BOOLEAN
  BY DEF IInv, TypeOK
<1> HIDE DEF s, e
<1>6. /\ rendered' \in [All -> Themes \cup {""}] /\ config' \in Themes \cup {""}
      /\ shown' \in [All -> Themes \cup {"", Source, Error}] /\ pending' \in BOOLEAN
  BY <1>t, <1>u, <1>r, <1>4, <1>5
<1>7. worker'[w] = s /\ \A v \in Workers \ {w} : worker'[v] = Idle
  BY <1>t, <1>2, <1>3, OthersIdle
<1>8. TypeOK' /\ Noted' /\ Alone'
  BY <1>u, <1>t, <1>1, <1>2, <1>3, <1>6, WorkerStep
<1>9. \A v \in Workers : Own(v)'
  <2>1. config = worker[w].theme
    BY <1>t DEF IInv, Own
  <2>2. Own(w)'
    BY <1>t, <1>u, <1>1, <1>7, <2>1 DEF Own, Busy
  <2> QED  BY <1>7, <2>2, OwnOthers
<1>10. DrawnIsShown'
  BY <1>t, <1>r, <1>4, <1>5 DEF IInv, DrawnIsShown
<1>11. Kept'
  <2>1. Current(w) => shown'[e] \in {worker[w].theme, Error} /\ \A d \in All \ {e} : shown'[d] = shown[d]
    BY <1>r, <1>4, <1>5
  <2>2. ~Current(w) => shown' = shown
    BY <1>5
  <2>3. \A d \in All : body # 0 /\ ~pending /\ ~mutated /\ WillShow(w, d) =>
                           shown'[d] \in {theme, Error} \/ WillShow(w, d)'
    <3> SUFFICES ASSUME NEW d \in All, body # 0, ~mutated, WillShow(w, d)
                 PROVE  shown'[d] \in {theme, Error} \/ WillShow(w, d)'
      OBVIOUS
    <3>1. Current(w) /\ worker[w].theme = theme
      BY OwnIsCurrent DEF WillShow
    <3>2. CASE d = e
      BY <2>1, <3>1, <3>2
    <3>3. CASE d # e
      <4>1. d \in worker[w].left
        BY <3>3 DEF WillShow, e
      <4> QED  BY <1>u, <1>1, <1>7, <4>1 DEF WillShow, Busy
    <3> QED  BY <3>2, <3>3
  <2>4. \A d \in All : body # 0 /\ ~mutated /\ shown[d] \in {theme, Error} => shown'[d] \in {theme, Error}
    <3>1. body # 0 /\ ~mutated /\ Current(w) => worker[w].theme = theme
      BY DEF IInv, Noted, Current
    <3> QED  BY <2>1, <2>2, <3>1
  <2> QED  BY <1>t, <1>u, <1>2, <1>3, <2>3, <2>4, KeptStep
<1> QED  BY <1>8, <1>9, <1>10, <1>11 DEF IInv

LEMMA Invariant == Spec => []IInv
<1>1. Init => IInv
  BY InitInv
<1>2. IInv /\ [Next]_vars => IInv'
  <2> SUFFICES ASSUME IInv, [Next]_vars PROVE IInv'
    OBVIOUS
  <2>1. ASSUME NEW w \in Workers, Work(w) PROVE IInv'
    BY <2>1, TakeStep, LoadedStep, LoadFailedStep, RenderStep, DrawnStep DEF Work
  <2>2. CASE UNCHANGED vars
    <3>1. UNCHANGED <<document, dataTheme, mutated, body, theme, generation, pending, running,
                      rendered, shown, worker, config>>
      BY <2>2 DEF vars, requests
    <3>2. TypeOK' /\ Noted' /\ Alone' /\ DrawnIsShown'
      BY <3>1 DEF IInv, TypeOK, Noted, Alone, DrawnIsShown
    <3>3. Kept' /\ \A w \in Workers : Own(w)'
      BY <3>1 DEF IInv, Kept, WillShow, Busy, Own
    <3> QED  BY <3>2, <3>3 DEF IInv
  <2> QED
    BY <2>1, <2>2, PageLoadStep, LeavePageStep, ToggleStep, ThemeObservedStep DEF Next
<1> QED  BY <1>1, <1>2, PTL DEF Spec

-----------------------------------------------------------------------------

(* Every value keeps its type; running says whether a worker is under way. *)
THEOREM DiagramTypes == Spec => []TypeOK
BY Invariant, PTL DEF IInv

(* The one configuration of the library is never shared by two drawings,   *)
(* and each is made with the theme it was asked for in.                    *)
THEOREM OneAtATime == Spec => []Serialized
<1>1. IInv => Serialized
  BY DEF IInv, Alone, Own, Serialized
<1> QED  BY <1>1, Invariant, PTL

(* A page at rest shows all its diagrams in its theme, or that they        *)
(* failed, however often theme and page changed before.                    *)
THEOREM NothingLeftUndrawn == Spec => []AllDrawnAtRest
<1>1. IInv => AllDrawnAtRest
  <2> SUFFICES ASSUME IInv, ~running, ~mutated, body # 0, NEW d \in DiagramsOf(body)
               PROVE  shown[d] \in {dataTheme, Error}
    BY DEF AllDrawnAtRest
  <2>1. \A w \in Workers : ~Busy(w)
    BY AllIdle DEF Busy, Idle
  <2>2. ~pending /\ theme = dataTheme
    BY DEF IInv, TypeOK, Noted
  <2> QED  BY <2>1, <2>2 DEF IInv, Kept, WillShow
<1> QED  BY <1>1, Invariant, PTL

(* The three together.                                                     *)
THEOREM DiagramsStayCurrent == Spec => []DiagramsCurrent
BY DiagramTypes, OneAtATime, NothingLeftUndrawn, PTL DEF DiagramsCurrent

(* No drawing an older request still delivers is shown: what changes is on *)
(* the page that is shown and in the theme it has.                         *)
THEOREM OnlyCurrentShown == Spec => NothingStaleShown
<1> DEFINE A == \A d \in All : shown'[d] # shown[d] =>
                    d \in DiagramsOf(document) /\ shown'[d] \in {dataTheme, Error}
<1>1. IInv /\ [Next]_vars => [A]_vars
  <2> SUFFICES ASSUME IInv, Next, NEW d \in All, shown'[d] # shown[d]
               PROVE  d \in DiagramsOf(document) /\ shown'[d] \in {dataTheme, Error}
    OBVIOUS
  <2>1. PICK w \in Workers : LoadFailed(w) \/ Drawn(w)
    BY DEF Next, PageLoad, LeavePage, Toggle, ThemeObserved, Work, Take, Loaded, Render
  <2>2. CASE LoadFailed(w)
    <3>1. Current(w) /\ d \in worker[w].left /\ shown'[d] = Error
      BY <2>2 DEF LoadFailed
    <3>2. worker[w].left \subseteq DiagramsOf(worker[w].page)
      BY <2>2 DEF IInv, Own, Busy, LoadFailed
    <3> QED  BY <3>1, <3>2 DEF Current
  <2>3. CASE Drawn(w)
    <3>1. Current(w)
      BY <2>3 DEF Drawn
    <3>2. worker[w].with = dataTheme /\ worker[w].diagram \in DiagramsOf(document)
      BY <2>3, <3>1 DEF IInv, Own, Drawn, Current
    <3>3. \E result \in {dataTheme, Error} : shown' = [shown EXCEPT ![worker[w].diagram] = result]
      BY <2>3, <3>1, <3>2 DEF Drawn
    <3>4. shown \in [All -> Themes \cup {"", Source, Error}]
      BY DEF IInv, TypeOK
    <3> QED  BY <3>2, <3>3, <3>4
  <2> QED  BY <2>1, <2>2, <2>3
<1> QED  BY <1>1, Invariant, PTL DEF Spec, NothingStaleShown

-----------------------------------------------------------------------------
(* SiteSearch, the glossary.  At most one card is open; it is one the      *)
(* filters let through, and it is pinned or under the pointer or has the   *)
(* focus.  Whatever opens a card closes the others, whatever changes the   *)
(* filters closes all of them, and a timer runs only under the pointer.    *)

CardState == [preview : BOOLEAN, pinned : BOOLEAN, timer : BOOLEAN]

(* The cards, with the pointer at p and the focus at f: one is open, it is *)
(* visible and has a reason to be, and timers run under the pointer only.  *)
CardsOK(cards, p, f, visible) ==
    /\ cards \in [Cards -> CardState]
    /\ \A c \in Cards : cards[c].pinned => cards[c].preview
    /\ \A c, d \in Cards : cards[c].preview /\ cards[d].preview => c = d
    /\ \A c \in Cards : cards[c].preview => c \in visible /\ (cards[c].pinned \/ p = c \/ f.card = c)
    /\ \A c \in Cards : cards[c].timer => p = c /\ c \in visible

Filter == [query : SUBSET GlossaryWords, topics : SUBSET TopicIds, letter : Letters \cup {NoLetter}]

(* The pointer and the focus are on cards that are shown.                  *)
PointerOK ==
    /\ pointer \in Cards \cup {Nowhere} /\ focus \in Places
    /\ pointer # Nowhere => pointer \in Matching(filters)
    /\ focus # Outside => focus.card \in Matching(filters)

(* What is hidden, the links and the button follow the filters.            *)
FiltersOK ==
    /\ filters \in Filter
    /\ glossaryView.hidden = Cards \ Matching(filters)
    /\ ReadFilters(glossaryView.from) = filters
    /\ Matching(filters) = {} => glossaryView.recovery = RecoveryAction(filters)

(* The inductive invariant of the glossary.                                *)
GlossaryInv ==
    /\ CardsOK(card, pointer, focus, Matching(filters))
    /\ \A c \in Cards : card[c].timer => connected
    /\ PointerOK
    /\ FiltersOK

USE GlossaryAssumption

-----------------------------------------------------------------------------
(* close() keeps the cards it does not close as they are.                  *)
LEMMA CloseCardsIs ==
  ASSUME NEW cards \in [Cards -> CardState], NEW closed
  PROVE  /\ CloseCards(cards, closed) \in [Cards -> CardState]
         /\ \A c \in Cards : CloseCards(cards, closed)[c] = IF c \in closed THEN Closed ELSE cards[c]
<1>1. Closed \in CardState
  BY DEF Closed, CardState
<1> QED
  BY <1>1 DEF CloseCards

(* A preview opens a card and closes the others.                           *)
LEMMA PreviewIs ==
  ASSUME NEW cards \in [Cards -> CardState], NEW c \in Cards
  PROVE  /\ Preview(cards, c) \in [Cards -> CardState]
         /\ Preview(cards, c)[c] = [cards[c] EXCEPT !.preview = TRUE]
         /\ \A d \in Cards \ {c} : Preview(cards, c)[d] = Closed
<1> DEFINE rest == CloseCards(cards, Cards \ {c})
<1>1. rest \in [Cards -> CardState] /\ rest[c] = cards[c] /\ \A d \in Cards \ {c} : rest[d] = Closed
  BY CloseCardsIs
<1>2. Preview(cards, c) = [rest EXCEPT ![c].preview = TRUE]
  BY DEF Preview
<1> HIDE DEF rest
<1>3. Preview(cards, c)[c] = [cards[c] EXCEPT !.preview = TRUE]
  BY <1>1, <1>2
<1>4. [cards[c] EXCEPT !.preview = TRUE] \in CardState
  BY DEF CardState
<1>5. \A d \in Cards \ {c} : Preview(cards, c)[d] = Closed
  BY <1>1, <1>2
<1>6. Preview(cards, c) \in [Cards -> CardState]
  BY <1>1, <1>2, <1>4
<1> QED
  BY <1>3, <1>5, <1>6

(* A timer that is stopped changes nothing else.                           *)
LEMMA StoppedIs ==
  ASSUME NEW cards \in [Cards -> CardState], NEW c \in Cards
  PROVE  LET stopped == [cards EXCEPT ![c].timer = FALSE] IN
         /\ stopped \in [Cards -> CardState]
         /\ stopped[c].preview = cards[c].preview /\ stopped[c].pinned = cards[c].pinned
         /\ stopped[c].timer = FALSE
         /\ \A d \in Cards \ {c} : stopped[d] = cards[d]
  BY DEF CardState

(* All cards closed, wherever the pointer and the focus are.               *)
LEMMA AllClosed ==
  ASSUME NEW cards \in [Cards -> CardState], NEW p, NEW f, NEW visible
  PROVE  CardsOK(CloseCards(cards, Cards), p, f, visible)
  BY CloseCardsIs DEF CardsOK, Closed

(* One card opens, for the pointer, the focus or as it is pinned.          *)
LEMMA PreviewOK ==
  ASSUME NEW cards \in [Cards -> CardState], NEW c \in Cards, NEW p, NEW f, NEW visible,
         c \in visible, cards[c].pinned \/ p = c \/ f.card = c, cards[c].timer => p = c
  PROVE  CardsOK(Preview(cards, c), p, f, visible)
<1>1. /\ Preview(cards, c) \in [Cards -> CardState]
      /\ Preview(cards, c)[c] = [cards[c] EXCEPT !.preview = TRUE]
      /\ \A d \in Cards \ {c} : Preview(cards, c)[d] = Closed
  BY PreviewIs
<1>2. \A d \in Cards \ {c} : ~Preview(cards, c)[d].preview /\ ~Preview(cards, c)[d].pinned /\ ~Preview(cards, c)[d].timer
  BY <1>1 DEF Closed
<1>3. /\ Preview(cards, c)[c].preview
      /\ Preview(cards, c)[c].pinned = cards[c].pinned
      /\ Preview(cards, c)[c].timer = cards[c].timer
  BY <1>1 DEF CardState
<1> QED
  BY <1>1, <1>2, <1>3 DEF CardsOK

(* Cards are closed.                                                       *)
LEMMA CloseOK ==
  ASSUME NEW cards, NEW closed, NEW p, NEW f, NEW visible, CardsOK(cards, p, f, visible)
  PROVE  CardsOK(CloseCards(cards, closed), p, f, visible)
<1>1. cards \in [Cards -> CardState]
  BY DEF CardsOK
<1>2. \A c \in Cards : \/ CloseCards(cards, closed)[c] = cards[c]
                       \/ /\ ~CloseCards(cards, closed)[c].preview
                          /\ ~CloseCards(cards, closed)[c].pinned
                          /\ ~CloseCards(cards, closed)[c].timer
  BY <1>1, CloseCardsIs DEF Closed
<1>3. CloseCards(cards, closed) \in [Cards -> CardState]
  BY <1>1, CloseCardsIs
<1> QED
  BY <1>2, <1>3 DEF CardsOK

(* The click listener leaves the card closed or pinned.                    *)
LEMMA ClickOK ==
  ASSUME NEW cards, NEW c \in Cards, NEW p, NEW f, NEW visible, c \in visible,
         CardsOK(cards, p, f, visible)
  PROVE  CardsOK(ClickButton(cards, c), p, f, visible)
<1>1. cards \in [Cards -> CardState]
  BY DEF CardsOK
<1>2. CASE cards[c].pinned
  BY <1>2, CloseOK DEF ClickButton
<1>3. CASE ~cards[c].pinned
  <2> DEFINE stopped == [cards EXCEPT ![c].timer = FALSE]
             opened == Preview(stopped, c)
  <2>1. stopped \in [Cards -> CardState] /\ stopped[c].timer = FALSE
    BY <1>1, StoppedIs
  <2>2. /\ opened \in [Cards -> CardState] /\ opened[c].preview = TRUE /\ opened[c].timer = FALSE
        /\ \A d \in Cards \ {c} : opened[d] = Closed
    <3> HIDE DEF stopped
    <3>1. /\ opened \in [Cards -> CardState] /\ opened[c] = [stopped[c] EXCEPT !.preview = TRUE]
          /\ \A d \in Cards \ {c} : opened[d] = Closed
      BY <2>1, PreviewIs
    <3> QED BY <2>1, <3>1 DEF CardState
  <2>3. ClickButton(cards, c) = [opened EXCEPT ![c].pinned = TRUE]
    BY <1>3 DEF ClickButton
  <2> HIDE DEF opened, stopped
  <2>4. /\ ClickButton(cards, c) \in [Cards -> CardState]
        /\ ClickButton(cards, c)[c].preview = TRUE /\ ClickButton(cards, c)[c].pinned = TRUE
        /\ ClickButton(cards, c)[c].timer = FALSE
        /\ \A d \in Cards \ {c} : ClickButton(cards, c)[d] = Closed
    BY <2>2, <2>3 DEF CardState
  <2>5. \A d \in Cards \ {c} : /\ ~ClickButton(cards, c)[d].preview /\ ~ClickButton(cards, c)[d].pinned
                               /\ ~ClickButton(cards, c)[d].timer
    BY <2>4 DEF Closed
  <2> QED
    BY <2>4, <2>5 DEF CardsOK
<1> QED
  BY <1>2, <1>3

(* The focus moves to a place: the card it leaves closes, if it was not    *)
(* pinned, and the card whose button it reaches opens.                     *)
LEMMA FocusedOK ==
  ASSUME NEW cards, NEW p, NEW place \in Places, NEW visible, CardsOK(cards, p, focus, visible),
         place # Outside => place.card \in visible
  PROVE  CardsOK(Focused(cards, place), p, place, visible)
<1> DEFINE left == {c \in Cards : GlossaryContains(c, focus) /\ ~GlossaryContains(c, place) /\ ~cards[c].pinned}
           blurred == CloseCards(cards, left)
<1>1. cards \in [Cards -> CardState]
  BY DEF CardsOK
<1>2. /\ blurred \in [Cards -> CardState]
      /\ \A c \in Cards : IF c \in left THEN blurred[c] = Closed ELSE blurred[c] = cards[c]
  <2> HIDE DEF left
  <2> QED BY <1>1, CloseCardsIs
<1>3. \A c \in Cards : \/ blurred[c] = cards[c] /\ (cards[c].pinned \/ focus.card # c \/ place.card = c)
                       \/ ~blurred[c].preview /\ ~blurred[c].pinned /\ ~blurred[c].timer
  <2> HIDE DEF blurred
  <2> QED BY <1>2 DEF Closed, GlossaryContains
<1> HIDE DEF left, blurred
<1>4. CardsOK(blurred, p, place, visible)
  BY <1>2, <1>3 DEF CardsOK
<1>5. Focused(cards, place) = IF place.button /\ Fine THEN Preview(blurred, place.card) ELSE blurred
  BY DEF Focused, left, blurred
<1>6. CASE place.button /\ Fine
  <2>1. place # Outside /\ place.card \in Cards
    BY <1>6 DEF Places, Outside
  <2>2. blurred[place.card].timer => p = place.card
    BY <1>4, <2>1 DEF CardsOK
  <2> QED BY <1>2, <1>5, <1>6, <2>1, <2>2, PreviewOK
<1> QED
  BY <1>4, <1>5, <1>6

-----------------------------------------------------------------------------
(* The steps.  A step of the visitor takes place while connected.          *)
LEMMA EnterStep ==
  ASSUME GlossaryInv, NEW c \in Cards, Enter(c)
  PROVE  GlossaryInv'
<1>1. /\ card \in [Cards -> CardState] /\ pointer = Nowhere /\ connected /\ c \in Matching(filters)
      /\ \A d \in Cards : ~card[d].timer
  BY DEF GlossaryInv, CardsOK, Enter, GlossaryAct, Visible, FiltersOK, Matching
<1>2. card' \in [Cards -> CardState]
  BY <1>1 DEF Enter, CardState
<1>3. \A d \in Cards : /\ card'[d].preview = card[d].preview /\ card'[d].pinned = card[d].pinned
                       /\ card'[d].timer => d = c
  BY <1>1 DEF Enter, CardState
<1>4. CardsOK(card', c, focus, Matching(filters))
  BY <1>1, <1>2, <1>3 DEF GlossaryInv, CardsOK
<1> QED
  BY <1>1, <1>4 DEF GlossaryInv, Enter, PointerOK, FiltersOK

(* The pointer leaves: its card keeps a reason, or closes.                 *)
LEMMA LeaveStep ==
  ASSUME GlossaryInv, NEW c \in Cards, Leave(c)
  PROVE  GlossaryInv'
<1> DEFINE stopped == [card EXCEPT ![c].timer = FALSE]
<1>1. card \in [Cards -> CardState] /\ pointer = c /\ connected
  BY DEF GlossaryInv, CardsOK, Leave, GlossaryAct
<1>2. /\ stopped \in [Cards -> CardState]
      /\ stopped[c].preview = card[c].preview /\ stopped[c].pinned = card[c].pinned
      /\ ~stopped[c].timer
      /\ \A d \in Cards \ {c} : stopped[d] = card[d]
  BY <1>1, StoppedIs
<1>3. CASE ~card[c].pinned /\ focus.card # c
  <2>1. card' = CloseCards(stopped, {c})
    BY <1>3 DEF Leave, GlossaryContains
  <2> HIDE DEF stopped
  <2>2. card' \in [Cards -> CardState] /\ card'[c] = Closed /\ \A d \in Cards \ {c} : card'[d] = stopped[d]
    BY <1>2, <2>1, CloseCardsIs
  <2>3. ~card'[c].preview /\ ~card'[c].pinned /\ ~card'[c].timer /\ \A d \in Cards \ {c} : card'[d] = card[d]
    BY <1>2, <2>2 DEF Closed
  <2>4. CardsOK(card', Nowhere, focus, Matching(filters))
    BY <1>1, <2>2, <2>3 DEF GlossaryInv, CardsOK
  <2> QED BY <1>1, <2>4 DEF GlossaryInv, Leave, PointerOK, FiltersOK, CardsOK
<1>4. CASE card[c].pinned \/ focus.card = c
  <2>1. card' = stopped
    BY <1>4 DEF Leave, GlossaryContains
  <2> HIDE DEF stopped
  <2>4. CardsOK(card', Nowhere, focus, Matching(filters))
    BY <1>1, <1>2, <1>4, <2>1 DEF GlossaryInv, CardsOK
  <2> QED BY <1>1, <2>4 DEF GlossaryInv, Leave, PointerOK, FiltersOK, CardsOK
<1> QED
  BY <1>3, <1>4

(* A timer runs out for the card under the pointer only.                   *)
LEMMA RestStep ==
  ASSUME GlossaryInv, NEW c \in Cards, Rest(c)
  PROVE  GlossaryInv'
<1> DEFINE stopped == [card EXCEPT ![c].timer = FALSE]
<1>1. card \in [Cards -> CardState] /\ pointer = c /\ connected /\ c \in Matching(filters)
  BY DEF GlossaryInv, CardsOK, Rest
<1>2. stopped \in [Cards -> CardState] /\ ~stopped[c].timer
  BY <1>1, StoppedIs
<1>3. card' = Preview(stopped, c)
  BY DEF Rest
<1> HIDE DEF stopped
<1>4. CardsOK(card', pointer, focus, Matching(filters))
  BY <1>1, <1>2, <1>3, PreviewOK
<1> QED
  BY <1>1, <1>4 DEF GlossaryInv, Rest, PointerOK, FiltersOK

(* The focus moves to a visible card or away.                              *)
LEMMA FocusStep ==
  ASSUME GlossaryInv, NEW place \in Places, Focus(place)
  PROVE  GlossaryInv'
<1>1. place # Outside => place.card \in Matching(filters)
  BY DEF Focus, Visible, GlossaryInv, FiltersOK, Matching, Places
<1>2. CardsOK(card', pointer, place, Matching(filters))
  BY <1>1, FocusedOK DEF Focus, GlossaryInv
<1> QED
  BY <1>1, <1>2 DEF GlossaryInv, Focus, GlossaryAct, PointerOK, FiltersOK

(* A click closes the others, takes the focus and pins or closes.          *)
LEMMA ClickStep ==
  ASSUME GlossaryInv, NEW c \in Cards, Click(c)
  PROVE  GlossaryInv'
<1> DEFINE down == CloseCards(card, Cards \ {c})
           place == [card |-> c, button |-> TRUE]
           focused == IF focus = place THEN down ELSE Focused(down, place)
<1>1. c \in Matching(filters) /\ connected
  BY DEF Click, GlossaryAct, Visible, GlossaryInv, FiltersOK, Matching
<1>2. place \in Places /\ place.card = c /\ place # Outside
  BY DEF Places, Outside
<1>3. CardsOK(down, pointer, focus, Matching(filters))
  BY CloseOK DEF GlossaryInv
<1> HIDE DEF down
<1>4. CardsOK(focused, pointer, place, Matching(filters))
  <2> HIDE DEF place
  <2> QED BY <1>1, <1>2, <1>3, FocusedOK
<1>5. card' = ClickButton(focused, c) /\ focus' = place
  BY DEF Click, down
<1> HIDE DEF place, focused
<1>6. CardsOK(card', pointer, place, Matching(filters))
  BY <1>1, <1>4, <1>5, ClickOK
<1>7. UNCHANGED <<pointer, filters, glossaryView, connected>>
  BY DEF Click
<1> QED
  BY <1>1, <1>2, <1>5, <1>6, <1>7 DEF GlossaryInv, PointerOK, FiltersOK

(* A press of the button that has the focus.                               *)
LEMMA PressStep ==
  ASSUME GlossaryInv, Press
  PROVE  GlossaryInv'
<1>1. connected /\ focus.card \in Cards /\ focus.card \in Matching(filters)
  BY DEF Press, GlossaryAct, GlossaryInv, PointerOK, Places, Outside
<1>2. CardsOK(card', pointer, focus, Matching(filters))
  BY <1>1, ClickOK DEF Press, GlossaryInv
<1> QED
  BY <1>1, <1>2 DEF GlossaryInv, Press, PointerOK, FiltersOK

(* Everything closes, or the element is gone with its timers.              *)
LEMMA CloseStep ==
  ASSUME GlossaryInv, PointerDown \/ Escape \/ Disconnect
  PROVE  GlossaryInv'
<1>1. card \in [Cards -> CardState]
  BY DEF GlossaryInv, CardsOK
<1>2. CASE PointerDown
  <2>1. CardsOK(card', pointer, Outside, Matching(filters))
    BY <1>1, <1>2, AllClosed DEF PointerDown
  <2> QED BY <1>2, <2>1 DEF GlossaryInv, PointerDown, GlossaryAct, PointerOK, FiltersOK, Places
<1>3. CASE Escape
  <2>1. CardsOK(card', pointer, focus, Matching(filters))
    BY <1>1, <1>3, AllClosed DEF Escape
  <2> QED BY <1>3, <2>1 DEF GlossaryInv, Escape, GlossaryAct, PointerOK, FiltersOK
<1>4. CASE Disconnect
  <2>1. card' \in [Cards -> CardState]
    BY <1>1, <1>4 DEF Disconnect, CardState
  <2>2. \A c \in Cards : /\ card'[c].preview = card[c].preview /\ card'[c].pinned = card[c].pinned
                         /\ ~card'[c].timer
    BY <1>1, <1>4 DEF Disconnect, CardState
  <2>3. CardsOK(card', pointer, focus, Matching(filters))
    BY <2>1, <2>2 DEF GlossaryInv, CardsOK
  <2> QED BY <1>4, <2>2, <2>3 DEF GlossaryInv, Disconnect, PointerOK, FiltersOK
<1> QED
  BY <1>2, <1>3, <1>4

(* An address that is written from filters is read as the same filters.    *)
LEMMA ReadBack ==
  ASSUME NEW f \in Filter PROVE ReadFilters(f) = f
  BY DEF Filter, ReadFilters

(* New filters close all cards, and hidden ones lose pointer and focus.    *)
LEMMA UpdateStep ==
  ASSUME GlossaryInv, NEW from, NEW f \in Filter, ReadFilters(from) = f,
         GlossaryAct, Update(f, from), Displace(f), UNCHANGED connected
  PROVE  GlossaryInv'
<1>1. card \in [Cards -> CardState] /\ card' = CloseCards(card, Cards) /\ filters' = f
  BY DEF GlossaryInv, CardsOK, Update
<1>2. CardsOK(card', pointer', focus', Matching(f))
  BY <1>1, AllClosed
<1>3. PointerOK'
  BY <1>1 DEF GlossaryInv, PointerOK, Displace, Places
<1>4. FiltersOK'
  BY <1>1 DEF Update, FiltersOK
<1> QED
  BY <1>1, <1>2, <1>3, <1>4 DEF GlossaryInv, GlossaryAct

(* Controls write the address they are read from.                          *)
LEMMA ChooseStep ==
  ASSUME GlossaryInv, NEW f \in Filter, GlossaryChoose(f)
  PROVE  GlossaryInv'
  BY ReadBack, UpdateStep DEF GlossaryChoose

(* An address is shown as it was read, and not rewritten.                  *)
LEMMA ArriveStep ==
  ASSUME GlossaryInv, NEW address \in GlossaryArrivals, GlossaryArrive(address)
  PROVE  GlossaryInv'
<1>1. ReadFilters(address) \in Filter
  BY DEF ReadFilters, Filter
<1> QED
  BY <1>1, UpdateStep DEF GlossaryArrive

(* What the controls lead to are filters.                                  *)
LEMMA ControlsAreFilters ==
  ASSUME NEW f \in Filter
  PROVE  /\ \A words \in SUBSET GlossaryWords : [f EXCEPT !.query = words] \in Filter
         /\ \A topic \in TopicIds : [f EXCEPT !.topics = (@ \ {topic}) \union ({topic} \ @)] \in Filter
         /\ \A letter \in Letters \union {NoLetter} : [f EXCEPT !.letter = letter] \in Filter
         /\ \A b \in BOOLEAN : Cleared(f, b) \in Filter
         /\ \A action : Recovered(f, action) \in Filter
<1>1. \A words \in SUBSET GlossaryWords : [f EXCEPT !.query = words] \in Filter
  BY DEF Filter
<1>2. \A topic \in TopicIds : [f EXCEPT !.topics = (@ \ {topic}) \union ({topic} \ @)] \in Filter
  BY DEF Filter
<1>3. \A letter \in Letters \union {NoLetter} : [f EXCEPT !.letter = letter] \in Filter
  BY DEF Filter
<1>4. \A b : Cleared(f, b) \in Filter
  BY DEF Cleared, NoFilters, Filter
<1>5. \A action : Recovered(f, action) \in Filter
  BY <1>1, <1>4 DEF Recovered
<1> QED
  BY <1>1, <1>2, <1>3, <1>4, <1>5

(* The glossary opens with everything closed.                              *)
LEMMA GlossaryInitInv == GlossaryInit => GlossaryInv
<1> SUFFICES ASSUME NEW address \in GlossaryArrivals,
                    card = [c \in Cards |-> Closed],
                    pointer = Nowhere /\ focus = Outside,
                    filters = ReadFilters(address),
                    glossaryView = [hidden |-> Cards \ Matching(filters), from |-> address,
                                    recovery |-> IF Matching(filters) = {} THEN RecoveryAction(filters) ELSE "Clear search"],
                    connected = TRUE
             PROVE  GlossaryInv
  BY DEF GlossaryInit
<1>1. CardsOK(card, pointer, focus, Matching(filters))
  BY DEF CardsOK, Closed, CardState
<1>2. PointerOK
  BY DEF PointerOK, Places
<1>3. FiltersOK
  BY DEF FiltersOK, ReadFilters, Filter
<1> QED
  BY <1>1, <1>2, <1>3 DEF GlossaryInv

(* Every step keeps the inductive invariant.                               *)
LEMMA GlossaryInvStep == GlossaryInv /\ [GlossaryNext]_glossaryVars => GlossaryInv'
<1> SUFFICES ASSUME GlossaryInv, [GlossaryNext]_glossaryVars PROVE GlossaryInv'
  OBVIOUS
<1>0. filters \in Filter
  BY DEF GlossaryInv, FiltersOK
<1>1. CASE \E c \in Cards : Enter(c) \/ Leave(c) \/ Rest(c) \/ Click(c)
  BY <1>1, EnterStep, LeaveStep, RestStep, ClickStep
<1>2. CASE \E place \in Places : Focus(place)
  BY <1>2, FocusStep
<1>3. CASE Press \/ PointerDown \/ Escape \/ Disconnect
  BY <1>3, PressStep, CloseStep
<1>4. CASE \E words \in SUBSET GlossaryWords : GlossaryChoose([filters EXCEPT !.query = words])
  BY <1>0, <1>4, ControlsAreFilters, ChooseStep
<1>5. CASE \E topic \in TopicIds :
             GlossaryChoose([filters EXCEPT !.topics = (@ \ {topic}) \union ({topic} \ @)])
  BY <1>0, <1>5, ControlsAreFilters, ChooseStep
<1>6. CASE \E letter \in Letters \union {NoLetter} : GlossaryChoose([filters EXCEPT !.letter = letter])
  BY <1>0, <1>6, ControlsAreFilters, ChooseStep
<1>7. CASE Clear
  <2>1. (filters.query = {}) \in BOOLEAN
    OBVIOUS
  <2>2. Cleared(filters, filters.query = {}) \in Filter
    BY <1>0, <2>1, ControlsAreFilters
  <2> QED BY <1>7, <2>2, ChooseStep DEF Clear
<1>8. CASE GlossaryRecover
  BY <1>0, <1>8, ControlsAreFilters, ChooseStep DEF GlossaryRecover
<1>9. CASE \E address \in GlossaryArrivals : GlossaryArrive(address)
  BY <1>9, ArriveStep
<1>10. CASE UNCHANGED glossaryVars
  BY <1>10 DEF glossaryVars, GlossaryInv, PointerOK, FiltersOK
<1> QED
  BY <1>1, <1>2, <1>3, <1>4, <1>5, <1>6, <1>7, <1>8, <1>9, <1>10 DEF GlossaryNext

(* For each way of finding nothing, what the button does finds terms.      *)
LEMMA RecoveryFinds ==
  ASSUME NEW f \in Filter
  PROVE  Matching(Recovered(f, RecoveryAction(f))) # {}
<1>1. CASE f.query # {} /\ GlossaryHasFilters(f) /\ \E c \in Cards : MatchesQuery(c, f.query)
  BY <1>1 DEF RecoveryAction, Recovered, Cleared, NoFilters, Matching, MatchesFilters, Filter
<1>2. CASE f.query # {} /\ GlossaryHasFilters(f) /\ ~(\E c \in Cards : MatchesQuery(c, f.query))
           /\ \E c \in Cards : MatchesFilters(c, f)
  BY <1>2 DEF RecoveryAction, Recovered, Matching, MatchesQuery, MatchesFilters, Filter
<1>3. CASE f.query # {} /\ GlossaryHasFilters(f) /\ ~(\E c \in Cards : MatchesQuery(c, f.query))
           /\ ~(\E c \in Cards : MatchesFilters(c, f))
  <2>1. Recovered(f, RecoveryAction(f)) = NoFilters
    BY <1>3 DEF RecoveryAction, Recovered, Cleared, NoFilters
  <2> QED BY <2>1 DEF NoFilters, Matching, MatchesQuery, MatchesFilters
<1>4. CASE f.query = {} /\ GlossaryHasFilters(f)
  <2>1. Recovered(f, RecoveryAction(f)) = NoFilters
    BY <1>4 DEF RecoveryAction, Recovered, Cleared, NoFilters
  <2> QED BY <2>1 DEF NoFilters, Matching, MatchesQuery, MatchesFilters
<1>5. CASE ~GlossaryHasFilters(f)
  <2>1. Recovered(f, RecoveryAction(f)) = [f EXCEPT !.query = {}]
    BY <1>5 DEF RecoveryAction, Recovered
  <2> QED BY <1>5, <2>1 DEF GlossaryHasFilters, Matching, MatchesQuery, MatchesFilters, Filter
<1> QED
  BY <1>1, <1>2, <1>3, <1>4, <1>5

(* At most one card is open, for a reason and where the filters let it,     *)
(* the links lead back to what is shown, and the button of an empty result  *)
(* leads to terms, for every glossary and whatever the visitor does.        *)
THEOREM GlossaryIsSafe == GlossarySpec => []GlossarySafe
<1>1. ASSUME GlossaryInv PROVE GlossarySafe
  <2>1. GlossaryTypeOK
    BY <1>1 DEF GlossaryInv, CardsOK, PointerOK, FiltersOK, GlossaryTypeOK, CardState, Filter
  <2>2. OneOpenCard
    <3> DEFINE open == {c \in Cards : card[c].preview}
    <3>1. open \intersect glossaryView.hidden = {}
      BY <1>1 DEF GlossaryInv, CardsOK, FiltersOK
    <3>2. \A c, d \in open : c = d
      BY <1>1 DEF GlossaryInv, CardsOK
    <3>3. OneOpenCard <=> Cardinality(open) <= 1 /\ open \intersect glossaryView.hidden = {}
      BY DEF OneOpenCard
    <3> HIDE DEF open
    <3>4. Cardinality(open) <= 1
      <4>1. CASE open = {}
        BY <4>1, FS_EmptySet
      <4>2. ASSUME NEW c \in open PROVE Cardinality(open) <= 1
        <5>1. open = {c}
          BY <3>2
        <5>2. Cardinality(open) = 1
          BY <5>1, FS_Singleton
        <5> QED BY <5>2
      <4> QED BY <4>1, <4>2
    <3> QED BY <3>1, <3>3, <3>4
  <2>3. OpenForAReason
    BY <1>1 DEF GlossaryInv, CardsOK, FiltersOK, OpenForAReason, Visible, GlossaryContains
  <2>4. ReturnShowsSame
    <3>1. ReadFilters(glossaryView.from) = filters /\ glossaryView.hidden = Cards \ Matching(filters)
      BY <1>1 DEF GlossaryInv, FiltersOK
    <3>2. \A c \in Cards : c \notin Matching(filters) <=>
             \/ \E word \in filters.query : word \notin Search[c]
             \/ filters.letter # NoLetter /\ Letter[c] # filters.letter
             \/ filters.topics # {} /\ \A topic \in filters.topics : topic \notin Topics[c]
      BY DEF Matching, MatchesQuery, MatchesFilters
    <3> QED BY <3>1, <3>2 DEF ReturnShowsSame
  <2>5. GlossaryRecoveryHelps
    <3>1. glossaryView.hidden = Cards => Matching(filters) = {}
      BY <1>1 DEF GlossaryInv, FiltersOK, Matching
    <3> QED BY <1>1, <3>1, RecoveryFinds DEF GlossaryInv, FiltersOK, GlossaryRecoveryHelps
  <2> QED BY <2>1, <2>2, <2>3, <2>4, <2>5 DEF GlossarySafe
<1> QED
  BY <1>1, GlossaryInitInv, GlossaryInvStep, PTL DEF GlossarySpec

\* A preview leaves the card as pinned as it is.
LEMMA PreviewPins ==
  ASSUME NEW cards \in [Cards -> CardState], NEW c \in Cards, NEW d \in Cards
  PROVE  /\ d = c => Preview(cards, d)[c].pinned = cards[c].pinned
         /\ Preview(cards, d)[d].preview
<1>1. Preview(cards, d)[d] = [cards[d] EXCEPT !.preview = TRUE]
  BY PreviewIs
<1> QED  BY <1>1 DEF CardState

LEMMA FocusedPins ==
  ASSUME NEW cards \in [Cards -> CardState], NEW c \in Cards, NEW place \in Places, cards[c].pinned
  PROVE  /\ Focused(cards, place)[c].pinned \/ \E d \in Cards \ {c} : Focused(cards, place)[d].preview
         /\ place.card = c => Focused(cards, place)[c].pinned
         /\ Focused(cards, place) \in [Cards -> CardState]
<1> DEFINE left == {d \in Cards : GlossaryContains(d, focus) /\ ~GlossaryContains(d, place) /\ ~cards[d].pinned}
           blurred == CloseCards(cards, left)
<1>1. blurred \in [Cards -> CardState] /\ blurred[c] = cards[c]
  <2>1. c \notin left
    OBVIOUS
  <2> HIDE DEF left
  <2> QED  BY <2>1, CloseCardsIs
<1>2. Focused(cards, place) = IF place.button /\ Fine THEN Preview(blurred, place.card) ELSE blurred
  BY DEF Focused
<1> HIDE DEF left, blurred
<1>3. CASE place.button /\ Fine
  <2>1. place.card \in Cards
    BY <1>3 DEF Places, Outside
  <2>2. Preview(blurred, place.card) \in [Cards -> CardState]
    BY <1>1, <2>1, PreviewIs
  <2>3. /\ c = place.card => Preview(blurred, place.card)[c].pinned = blurred[c].pinned
        /\ Preview(blurred, place.card)[place.card].preview
    BY <1>1, <2>1, PreviewPins
  <2>4. Focused(cards, place) = Preview(blurred, place.card)
    BY <1>2, <1>3
  <2> QED  BY <1>1, <2>1, <2>2, <2>3, <2>4
<1>4. CASE ~(place.button /\ Fine)
  BY <1>1, <1>2, <1>4
<1> QED  BY <1>3, <1>4

\* The button of a pinned card closes it; that of another opens the other.
LEMMA ClickPins ==
  ASSUME NEW cards \in [Cards -> CardState], NEW c \in Cards
  PROVE  /\ cards[c].pinned => ~ClickButton(cards, c)[c].preview
         /\ ~cards[c].pinned => ClickButton(cards, c)[c].preview
<1>1. CASE cards[c].pinned
  <2>1. ClickButton(cards, c) = CloseCards(cards, {c})
    BY <1>1 DEF ClickButton
  <2> QED  BY <1>1, <2>1, CloseCardsIs DEF Closed
<1>2. CASE ~cards[c].pinned
  <2> DEFINE stopped == [cards EXCEPT ![c].timer = FALSE]
             opened == Preview(stopped, c)
  <2>1. stopped \in [Cards -> CardState]
    BY StoppedIs
  <2>2. opened \in [Cards -> CardState] /\ opened[c].preview
    <3> HIDE DEF stopped
    <3> QED  BY <2>1, PreviewIs, PreviewPins
  <2>3. ClickButton(cards, c) = [opened EXCEPT ![c].pinned = TRUE]
    BY <1>2 DEF ClickButton
  <2> HIDE DEF opened
  <2> QED  BY <1>2, <2>2, <2>3 DEF CardState
<1> QED  BY <1>1, <1>2

\* The card after a click or a press on its own button.
LEMMA OwnButton ==
  ASSUME GlossaryInv, NEW c \in Cards, card[c].pinned, Press \/ Click(c), focus'.card = c
  PROVE  ~card'[c].preview
<1>1. card \in [Cards -> CardState]
  BY DEF GlossaryInv, CardsOK
<1>2. CASE Press
  <2>1. card' = ClickButton(card, c)
    BY <1>2 DEF Press
  <2> QED  BY <1>1, <2>1, ClickPins
<1>3. CASE Click(c)
  <2> DEFINE down == CloseCards(card, Cards \ {c})
             place == [card |-> c, button |-> TRUE]
             focused == IF focus = place THEN down ELSE Focused(down, place)
  <2>1. down \in [Cards -> CardState] /\ down[c] = card[c]
    BY <1>1, CloseCardsIs
  <2>2. place \in Places /\ place.card = c
    BY DEF Places
  <2> HIDE DEF down, place
  <2>3. focused \in [Cards -> CardState] /\ focused[c].pinned
    BY <2>1, <2>2, FocusedPins
  <2>4. card' = ClickButton(focused, c)
    BY <1>3 DEF Click, down, place
  <2> HIDE DEF focused
  <2> QED  BY <2>3, <2>4, ClickPins
<1> QED  BY <1>2, <1>3

\* What can close a pinned card.
LEMMA StepPins ==
  ASSUME GlossaryInv, GlossaryNext, NEW c \in Cards, card[c].pinned, ~card'[c].pinned
  PROVE  \/ \E d \in Cards \ {c} : card'[d].preview
         \/ Press \/ Click(c) \/ PointerDown \/ Escape
         \/ filters' # filters \/ \E address \in GlossaryArrivals : GlossaryArrive(address)
<1>1. card \in [Cards -> CardState]
  BY DEF GlossaryInv, CardsOK
<1>2. \A d \in Cards \ {c} : ~card[d].pinned
  BY DEF GlossaryInv, CardsOK
<1>3. ASSUME NEW d \in Cards, Enter(d) PROVE FALSE
  BY <1>1, <1>3 DEF Enter, CardState
<1>4. ASSUME NEW d \in Cards, Leave(d) PROVE FALSE
  <2> DEFINE stopped == [card EXCEPT ![d].timer = FALSE]
  <2>1. /\ stopped \in [Cards -> CardState] /\ stopped[d].pinned = card[d].pinned
        /\ \A x \in Cards \ {d} : stopped[x] = card[x]
    BY <1>1, StoppedIs
  <2>2. card' = stopped \/ (card' = CloseCards(stopped, {d}) /\ d # c)
    BY <1>4 DEF Leave
  <2> HIDE DEF stopped
  <2>3. stopped[c].pinned
    BY <2>1
  <2> QED  BY <2>1, <2>2, <2>3, CloseCardsIs
<1>5. ASSUME NEW d \in Cards, Rest(d) PROVE d # c /\ card'[d].preview
  <2> DEFINE stopped == [card EXCEPT ![d].timer = FALSE]
  <2>1. /\ stopped \in [Cards -> CardState] /\ stopped[d].pinned = card[d].pinned
        /\ \A x \in Cards \ {d} : stopped[x] = card[x]
    BY <1>1, StoppedIs
  <2>2. card' = Preview(stopped, d)
    BY <1>5 DEF Rest
  <2> HIDE DEF stopped
  <2>3. stopped[c].pinned
    BY <2>1
  <2> QED  BY <2>1, <2>2, <2>3, PreviewPins
<1>6. ASSUME NEW d \in Cards \ {c}, Click(d) PROVE card'[d].preview
  <2> DEFINE down == CloseCards(card, Cards \ {d})
             place == [card |-> d, button |-> TRUE]
             focused == IF focus = place THEN down ELSE Focused(down, place)
  <2>1. down \in [Cards -> CardState] /\ down[d] = card[d]
    BY <1>1, CloseCardsIs
  <2>2. place \in Places /\ place.card = d
    BY DEF Places
  <2>3. CardsOK(down, pointer, focus, Matching(filters))
    BY CloseOK DEF GlossaryInv
  <2>4. d \in Matching(filters)
    BY <1>6 DEF Click, Visible, GlossaryInv, FiltersOK, Matching
  <2>5. ~down[d].pinned
    BY <1>2, <2>1
  <2> HIDE DEF down
  <2>6. focused \in [Cards -> CardState]
    <3> HIDE DEF place
    <3>1. CardsOK(Focused(down, place), pointer, place, Matching(filters))
      BY <2>2, <2>3, <2>4, FocusedOK
    <3> QED  BY <2>1, <3>1 DEF CardsOK
  <2>7. ~focused[d].pinned
    <3> DEFINE left == {x \in Cards : GlossaryContains(x, focus) /\ ~GlossaryContains(x, place) /\ ~down[x].pinned}
               blurred == CloseCards(down, left)
    <3>1. blurred \in [Cards -> CardState] /\ ~blurred[d].pinned
      <4> HIDE DEF left
      <4> QED  BY <2>1, <2>5, CloseCardsIs DEF Closed
    <3>2. Focused(down, place) = IF place.button /\ Fine THEN Preview(blurred, place.card) ELSE blurred
      BY DEF Focused
    <3> HIDE DEF blurred, left
    <3>3. ~Preview(blurred, d)[d].pinned
      BY <3>1, PreviewPins
    <3> HIDE DEF place
    <3> QED  BY <2>2, <2>5, <3>1, <3>2, <3>3
  <2>8. card' = ClickButton(focused, d)
    BY <1>6 DEF Click, down, place
  <2> HIDE DEF focused
  <2> QED  BY <2>6, <2>7, <2>8, ClickPins
<1>7. ASSUME NEW place \in Places, Focus(place) PROVE \E d \in Cards \ {c} : card'[d].preview
  BY <1>1, <1>7, FocusedPins DEF Focus
<1>8. ASSUME NEW f, GlossaryChoose(f) PROVE filters' # filters
  BY <1>8 DEF GlossaryChoose, Update
<1>9. CASE Disconnect
  BY <1>1, <1>9 DEF Disconnect, CardState
<1>10. CASE Clear \/ GlossaryRecover
  BY <1>8, <1>10 DEF Clear, GlossaryRecover
<1>11. CASE \E d \in Cards : Enter(d) \/ Leave(d) \/ Rest(d) \/ Click(d)
  BY <1>3, <1>4, <1>5, <1>6, <1>11
<1> QED  BY <1>7, <1>8, <1>9, <1>10, <1>11 DEF GlossaryNext

\* A pinned card is closed by the visitor only: neither the pointer nor the focus
\* that leaves it does, nor a timer or the end of the page (close, focusout,
\* pointerleave and the click listener of the glossary).
THEOREM PinsAreKept == GlossarySpec => [][PinnedUntilClosed]_glossaryVars
<1>1. GlossaryInv /\ [GlossaryNext]_glossaryVars => [PinnedUntilClosed]_glossaryVars
  BY StepPins, OwnButton DEF PinnedUntilClosed
<1>2. GlossaryInit => GlossaryInv
  BY GlossaryInitInv
<1>3. GlossaryInv /\ [GlossaryNext]_glossaryVars => GlossaryInv'
  BY GlossaryInvStep
<1> QED  BY <1>1, <1>2, <1>3, PTL DEF GlossarySpec

-----------------------------------------------------------------------------
(* What a navigation that fetches is.                                      *)
Navigation == [kind : {"link", "traverse"}, to : Addresses, moved : BOOLEAN]

(* The search.  Where the tab is, and that what fetches leads somewhere.   *)
TabOK ==
    /\ location = [page |-> location.page, q |-> location.q, kinds |-> location.kinds]
    /\ location.page \in ApiPages /\ location.q \in Texts
    /\ root.page \in ApiPages /\ root.visit \in Nat
    /\ apiActs \in Nat
    /\ going \in Navigation \cup {ApiNone}

\* A controller is on the present root, mounted once; a timer runs for it only.
ControllerOK ==
    /\ apiCurrent \in {ApiNone, root.visit}
    /\ apiCurrent # ApiNone => HasRoot
    /\ mounts = IF apiCurrent = ApiNone THEN 0 ELSE 1
    /\ armed \in BOOLEAN
    /\ armed => Attached
    /\ Attached => Entries # Missing

\* What is shown follows the field and the filters once the timer is out.
FieldOK ==
    /\ field \in Texts /\ active \subseteq Kinds /\ offers \subseteq {"filters", "all"}
    /\ Attached => clearShown = (field # "")
    /\ Settled => /\ apiShown = Shown(ApiTrim(field), active)
                  /\ offers = Offered(ApiTrim(field), active)

\* Before it is mounted nothing was entered, unless it was entered early.
AddressOK ==
    /\ apiCurrent = ApiNone /\ ~early => field = ""
    /\ AddressTells

(* The inductive invariant of the search.                                  *)
ApiInv == TabOK /\ ControllerOK /\ FieldOK /\ AddressOK

HIDE GlossaryAssumption

(* What is shown for a text depends on the page and on nothing else.       *)
LEMMA ShownStays ==
  ASSUME root' = root, NEW text, NEW kinds
  PROVE  Shown(text, kinds)' = Shown(text, kinds) /\ Offered(text, kinds)' = Offered(text, kinds)
<1>1. Shown(text, kinds)' = Shown(text, kinds)
  BY DEF Shown, Matches, Action, Entries
<1> QED BY <1>1 DEF Offered

LEMMA OfferedTypes ==
  ASSUME NEW text, NEW kinds PROVE Offered(text, kinds) \subseteq {"filters", "all"}
<1>1. CASE Shown(text, kinds).state = "none" \/ kinds = {}
  BY <1>1 DEF Offered
<1>2. CASE Shown(text, kinds).state # "none" /\ kinds # {}
  BY <1>2 DEF Offered
<1> QED BY <1>1, <1>2

(* A search shows what is asked, and leaves no timer.                      *)
LEMMA SearchApplied ==
  ASSUME root' = root, ApplySearch(field', active')
  PROVE  /\ apiShown' = Shown(ApiTrim(field), active)' /\ offers' = Offered(ApiTrim(field), active)'
         /\ offers' \subseteq {"filters", "all"} /\ armed' = FALSE
<1>1. apiShown' = Shown(ApiTrim(field'), active') /\ offers' = Offered(ApiTrim(field'), active') /\ armed' = FALSE
  BY DEF ApplySearch
<1> QED BY <1>1, ShownStays, OfferedTypes

(* Whether by the script or by a page-load, a mount reads the address.     *)
LEMMA MountStep ==
  ASSUME ApiInv, HasRoot, apiCurrent = ApiNone, apiCurrent' = root.visit, mounts' = mounts + 1,
         Mount \/ MountFails, UNCHANGED <<location, root, early, going, apiActs>>
  PROVE  ApiInv'
<1>1. TabOK'
  BY DEF ApiInv, TabOK
<1>a. root.visit # ApiNone
  BY SearchAssumption DEF ApiInv, TabOK
<1>b. mounts' = 1
  BY DEF ApiInv, ControllerOK
<1>2. root.visit # ApiNone /\ ~armed /\ root' = root /\ mounts' = 1
  BY <1>a, <1>b DEF ApiInv, ControllerOK, Attached
<1>3. CASE Mount
  <2>1. field' \in Texts /\ active' = RestoredKinds(location) /\ active' \subseteq Kinds /\ Entries # Missing
    BY <1>3 DEF Mount, ApiInv, TabOK, FieldOK, RestoredKinds
  <2>2. /\ apiShown' = Shown(ApiTrim(field), active)' /\ offers' = Offered(ApiTrim(field), active)'
        /\ offers' \subseteq {"filters", "all"} /\ armed' = FALSE
    BY <1>2, <1>3, SearchApplied DEF Mount
  <2>3. ControllerOK'
    BY <1>2, <2>1, <2>2 DEF ControllerOK, HasRoot, Entries
  <2>4. FieldOK'
    BY <1>3, <2>1, <2>2 DEF FieldOK, Mount
  <2>5. ~early => ApiTrim(location.q) = ApiTrim(field')
    BY <1>3 DEF Mount, ApiInv, AddressOK
  <2>6. AddressOK'
    BY <1>2, <2>1, <2>5 DEF AddressOK, AddressTells, RestoredKinds
  <2> QED BY <1>1, <2>3, <2>4, <2>6 DEF ApiInv
<1>4. CASE MountFails
  <2>1. ~Attached' /\ ~Settled' /\ armed' = FALSE
    BY <1>4 DEF MountFails, Attached, Settled
  <2>2. ControllerOK'
    BY <1>2, <2>1 DEF ControllerOK, HasRoot, Entries
  <2>3. FieldOK'
    BY <1>4, <2>1 DEF FieldOK, MountFails, ApiInv
  <2>4. AddressOK'
    BY <1>2, <2>1 DEF AddressOK, AddressTells
  <2> QED BY <1>1, <2>2, <2>3, <2>4 DEF ApiInv
<1> QED
  BY <1>3, <1>4

(* A page-load mounts once, and does nothing the second time.              *)
LEMMA ApiPageLoadStep ==
  ASSUME ApiInv, Script \/ ApiPageLoad
  PROVE  ApiInv'
<1>1. CASE Script
  <2>1. apiCurrent' = root.visit
    BY <1>1 DEF Script
  <2> QED BY <1>1, <2>1, MountStep DEF Script
<1>2. CASE ApiPageLoad /\ HasRoot /\ apiCurrent # root.visit
  <2>1. apiCurrent = ApiNone
    BY <1>2 DEF ApiInv, ControllerOK
  <2> QED BY <1>2, <2>1, MountStep DEF ApiPageLoad
<1>3. CASE ApiPageLoad /\ ~(HasRoot /\ apiCurrent # root.visit)
  <2>1. apiCurrent' = apiCurrent /\ UNCHANGED <<mounts, apiPage, location, root, early, going, apiActs>>
    BY <1>3 DEF ApiPageLoad, ApiInv, ControllerOK
  <2> QED BY <2>1, ShownStays DEF ApiInv, apiPage, TabOK, ControllerOK, FieldOK, AddressOK, AddressTells,
                         Attached, Settled, Moved, RestoredKinds, HasRoot, Entries
<1> QED
  BY <1>1, <1>2, <1>3

(* A navigation begins: going back moves the address at once.              *)
LEMMA GoStep ==
  ASSUME ApiInv, NEW kind \in {"link", "traverse"}, NEW address \in Addresses, Go(kind, address)
  PROVE  ApiInv'
<1>1. UNCHANGED <<root, apiCurrent, mounts, apiPage, early>> /\ apiActs' = apiActs + 1
  BY DEF Go, ApiAct
<1>2. going' = [kind |-> kind, to |-> address, moved |-> kind = "traverse" \/ Moved] /\ Moved \in BOOLEAN
  BY DEF Go, Moved, ApiInv, TabOK, Navigation
<1>b. going' \in Navigation /\ (going'.moved <=> kind = "traverse" \/ Moved)
  BY <1>2 DEF Navigation
<1>3. location' = address \/ location' = location
  BY DEF Go
<1>a. /\ address = [page |-> address.page, q |-> address.q, kinds |-> address.kinds]
      /\ address.page \in ApiPages /\ address.q \in Texts
  BY SearchAssumption
<1>c. /\ location' = [page |-> location'.page, q |-> location'.q, kinds |-> location'.kinds]
      /\ location'.page \in ApiPages /\ location'.q \in Texts
  BY <1>3, <1>a, Zenon DEF ApiInv, TabOK
<1>4. TabOK'
  BY <1>1, <1>b, <1>c DEF ApiInv, TabOK
<1>5. ControllerOK'
  BY <1>1 DEF ApiInv, ControllerOK, apiPage, Attached, HasRoot, Entries
<1>6. FieldOK'
  BY <1>1, ShownStays DEF ApiInv, FieldOK, apiPage, Attached, Settled
<1>7. ~Moved' => ~Moved /\ location' = location
  <2>1. going' # ApiNone
    BY <1>b, SearchAssumption DEF Navigation
  <2>2. Moved' <=> (kind = "traverse" \/ Moved)
    BY <1>b, <2>1 DEF Moved
  <2> QED BY <2>2 DEF Go
<1>8. AddressOK'
  BY <1>1, <1>7 DEF ApiInv, AddressOK, AddressTells, Settled, Attached, apiPage, RestoredKinds
<1> QED
  BY <1>4, <1>5, <1>6, <1>8 DEF ApiInv

(* The document is replaced, and nothing of the old one remains.           *)
LEMMA SwapStep ==
  ASSUME ApiInv, Swap
  PROVE  ApiInv'
<1>1. /\ root'.page = going.to.page /\ root'.visit = apiActs /\ apiActs' = apiActs /\ apiCurrent' = ApiNone
      /\ going' = ApiNone /\ going.to \in Addresses /\ location' \in {going.to, location}
  BY DEF Swap, Root, ApiInv, TabOK, Navigation
<1>2. ~Attached' /\ ~Settled'
  BY <1>1, SearchAssumption DEF ApiInv, TabOK, Attached, Settled
<1>3. TabOK'
  BY <1>1, SearchAssumption DEF ApiInv, TabOK
<1>4. ControllerOK'
  BY <1>1, <1>2 DEF ControllerOK, Swap, Fresh
<1>5. FieldOK'
  BY <1>2, SearchAssumption DEF FieldOK, Swap, Fresh
<1>6. AddressOK'
  BY <1>2 DEF AddressOK, AddressTells, Swap, Fresh
<1> QED
  BY <1>3, <1>4, <1>5, <1>6 DEF ApiInv

(* Typed text waits for the timer, or for the controller.                  *)
LEMMA TypeStep ==
  ASSUME ApiInv, NEW text \in Texts, Type(text)
  PROVE  ApiInv'
<1>1. /\ UNCHANGED <<location, active, apiShown, offers, root, apiCurrent, mounts, going>>
      /\ field' = text /\ apiActs' = apiActs + 1 /\ HasRoot /\ apiShown # Unavailable
  BY DEF Type, ApiRest, ApiAct, Enabled
<1>2. TabOK'
  BY <1>1 DEF ApiInv, TabOK
<1>3. CASE Attached
  <2>1. clearShown' = (text # "") /\ armed' = TRUE /\ early' = early
    BY <1>3 DEF Type
  <2>2. Attached' /\ ~Settled' /\ apiCurrent # ApiNone
    BY <1>1, SearchAssumption, <1>3, <2>1 DEF Attached, Settled, ApiInv, TabOK
  <2>3. ControllerOK'
    BY <1>1, <1>3, <2>1, <2>2 DEF ApiInv, ControllerOK, HasRoot, Entries
  <2>4. FieldOK'
    BY <1>1, <2>1, <2>2 DEF ApiInv, FieldOK
  <2>5. AddressOK'
    BY <1>1, <2>2 DEF AddressOK, AddressTells
  <2> QED BY <1>2, <2>3, <2>4, <2>5 DEF ApiInv
<1>4. CASE ~Attached
  <2>1. early' = TRUE /\ UNCHANGED <<clearShown, armed>>
    BY <1>4 DEF Type
  <2>2. ~Attached' /\ ~Settled'
    BY <1>1, <1>4 DEF Attached, Settled
  <2>3. ControllerOK'
    BY <1>1, <1>4, <2>1, <2>2 DEF ApiInv, ControllerOK, HasRoot, Entries
  <2>4. FieldOK'
    BY <1>1, <2>1, <2>2 DEF ApiInv, FieldOK
  <2>5. AddressOK'
    BY <2>1, <2>2 DEF AddressOK, AddressTells
  <2> QED BY <1>2, <2>3, <2>4, <2>5 DEF ApiInv
<1> QED
  BY <1>3, <1>4

(* The address is written with what is in the field, and searched.         *)
LEMMA WriteStep ==
  ASSUME ApiInv, Attached, NEW text \in Texts, NEW kinds \in SUBSET Kinds,
         field' = text, active' = kinds, clearShown' = (text # ""),
         WriteUrl(text, kinds), ApplySearch(text, kinds), apiActs' \in Nat, ApiRest
  PROVE  ApiInv'
<1>1. UNCHANGED <<root, apiCurrent, mounts, going>>
  BY DEF ApiRest
<1>2. location' = [page |-> location.page, q |-> ApiTrim(text), kinds |-> kinds]
  BY DEF WriteUrl, ApiInv, TabOK
<1>3. ApiTrim(text) \in Texts /\ ApiTrim(ApiTrim(text)) = ApiTrim(text)
  BY SearchAssumption
<1>4. TabOK'
  BY <1>1, <1>2, <1>3 DEF ApiInv, TabOK
<1>5. /\ apiShown' = Shown(ApiTrim(field), active)' /\ offers' = Offered(ApiTrim(field), active)'
      /\ offers' \subseteq {"filters", "all"} /\ armed' = FALSE
  BY <1>1, SearchApplied
<1>6. apiCurrent # ApiNone /\ Entries # Missing
  BY SearchAssumption DEF ApiInv, TabOK, ControllerOK, Attached
<1>7. ControllerOK'
  BY <1>1, <1>5, <1>6 DEF ApiInv, ControllerOK, HasRoot, Entries
<1>8. FieldOK'
  BY <1>5 DEF FieldOK
<1>9. ApiTrim(location'.q) = ApiTrim(field') /\ RestoredKinds(location)' = active'
  BY <1>2, <1>3 DEF RestoredKinds
<1>10. AddressOK'
  BY <1>1, <1>6, <1>9 DEF AddressOK, AddressTells
<1> QED
  BY <1>4, <1>7, <1>8, <1>10 DEF ApiInv

(* The timer runs out for the controller that set it.                      *)
LEMMA DebouncedStep ==
  ASSUME ApiInv, Debounced
  PROVE  ApiInv'
<1>1. Attached /\ apiCurrent = root.visit /\ field \in Texts /\ active \in SUBSET Kinds /\ clearShown = (field # "")
  BY DEF Debounced, ApiInv, ControllerOK, FieldOK, Attached
<1> QED
  BY <1>1, WriteStep DEF Debounced, ApiInv, TabOK

(* A change made at once.                                                  *)
LEMMA ChangeStep ==
  ASSUME ApiInv, Attached, ApiAct, NEW text \in Texts, NEW kinds \in SUBSET Kinds, Change(text, kinds)
  PROVE  ApiInv'
<1>1. /\ field' = text /\ active' = kinds /\ clearShown' = (text # "")
      /\ WriteUrl(text, kinds) /\ ApplySearch(text, kinds) /\ ApiRest
  BY DEF Change
<1>2. apiActs' \in Nat
  BY DEF ApiAct, ApiInv, TabOK
<1> QED
  BY <1>1, <1>2, WriteStep

(* Initially nothing is mounted.                                           *)
LEMMA ApiInitInv == ApiInit => ApiInv
<1> SUFFICES ASSUME ApiInit PROVE ApiInv
  OBVIOUS
<1>1. PICK address \in Addresses : location = address /\ root = Root(address.page, 0)
  BY DEF ApiInit
<1>2. TabOK
  BY <1>1, SearchAssumption DEF ApiInit, TabOK, Root
<1>3. ~Attached /\ ~Settled
  BY <1>2, SearchAssumption DEF ApiInit, Attached, Settled, TabOK
<1>4. ControllerOK /\ FieldOK /\ AddressOK
  BY <1>3, SearchAssumption DEF ApiInit, ControllerOK, FieldOK, AddressOK, AddressTells
<1> QED
  BY <1>2, <1>4 DEF ApiInv

(* Every step keeps the inductive invariant.                               *)
LEMMA ApiInvStep == ApiInv /\ [ApiNext]_apiVars => ApiInv'
<1> SUFFICES ASSUME ApiInv, [ApiNext]_apiVars PROVE ApiInv'
  OBVIOUS
<1>0. field \in Texts /\ active \in SUBSET Kinds /\ {} \in SUBSET Kinds /\ "" \in Texts
  BY SearchAssumption DEF ApiInv, FieldOK
<1>1. CASE Script \/ ApiPageLoad
  BY <1>1, ApiPageLoadStep
<1>2. CASE Swap
  BY <1>2, SwapStep
<1>3. CASE Debounced
  BY <1>3, DebouncedStep
<1>4. CASE \E address \in Addresses : Go("link", address) \/ Go("traverse", address)
  BY <1>4, GoStep
<1>5. CASE \E text \in Texts : Type(text)
  BY <1>5, TypeStep
<1>6. ASSUME NEW kind \in Kinds, Chip(kind) PROVE ApiInv'
  <2> DEFINE kinds == IF kind \in active THEN active \ {kind} ELSE active \cup {kind}
  <2>1. kinds \in SUBSET Kinds
    BY <1>0
  <2>2. ApiAct /\ Attached /\ Change(field, kinds)
    BY <1>6 DEF Chip
  <2> HIDE DEF kinds
  <2> QED BY <1>0, <2>1, <2>2, ChangeStep
<1>7. CASE ApiClear \/ ApiClearFilters \/ ApiResetAll
  BY <1>0, <1>7, ChangeStep DEF ApiClear, ApiClearFilters, ApiResetAll
<1>8. CASE ApiRecover
  <2> DEFINE text == IF apiShown.action = "Clear filters" THEN field ELSE ""
             kinds == IF apiShown.action = "Clear search" THEN active ELSE {}
  <2>1. text \in Texts /\ kinds \in SUBSET Kinds
    BY <1>0
  <2>2. ApiAct /\ Attached /\ Change(text, kinds)
    BY <1>8 DEF ApiRecover
  <2> HIDE DEF text, kinds
  <2> QED BY <2>1, <2>2, ChangeStep
<1>9. CASE UNCHANGED apiVars
  BY <1>9, ShownStays DEF apiVars, ApiInv, TabOK, ControllerOK, FieldOK, AddressOK, AddressTells,
                          Attached, Settled, Moved, RestoredKinds, HasRoot, Entries
<1> QED
  BY <1>1, <1>2, <1>3, <1>4, <1>5, <1>6, <1>7, <1>8, <1>9 DEF ApiNext

(* It holds in every behaviour.                                            *)
LEMMA ApiInvariant == ApiSpec => []ApiInv
BY ApiInitInv, ApiInvStep, PTL DEF ApiSpec

(* One controller per root, no timer without one; the field, the results,   *)
(* the address and the way back agree once the timer is out.                *)
THEOREM ApiSearchIsSafe == ApiSpec => []ApiSearchSafe
<1>1. ASSUME ApiInv PROVE ApiSearchSafe
  <2>1. ApiTypeOK
    BY <1>1 DEF ApiInv, TabOK, ControllerOK, FieldOK, ApiTypeOK
  <2>2. MountedOnce
    BY <1>1 DEF ApiInv, ControllerOK, MountedOnce
  <2>3. ShownIsAsked
    BY <1>1 DEF ApiInv, FieldOK, ShownIsAsked, Settled
  <2>4. OneWayBack
    <3> SUFFICES ASSUME Settled, active # {}
                 PROVE  Cardinality(offers) + (IF apiShown.state = "none" THEN 1 ELSE 0) = 1
      BY DEF OneWayBack
    <3>1. apiShown = Shown(ApiTrim(field), active) /\ offers = Offered(ApiTrim(field), active)
      BY <1>1 DEF ApiInv, FieldOK
    <3>2. CASE apiShown.state = "none"
      <4>1. offers = {}
        BY <3>1, <3>2 DEF Offered
      <4>2. Cardinality(offers) = 0
        BY <4>1, FS_EmptySet
      <4> QED BY <3>2, <4>2
    <3>3. CASE apiShown.state # "none"
      <4>1. offers = {"filters"} \/ offers = {"all"}
        BY <3>1, <3>3 DEF Offered
      <4>2. Cardinality(offers) = 1
        BY <4>1, FS_Singleton
      <4> QED BY <3>3, <4>2
    <3> QED BY <3>2, <3>3
  <2> QED BY <1>1, <2>1, <2>2, <2>3, <2>4 DEF ApiSearchSafe, ApiInv, AddressOK
<1> QED
  BY <1>1, ApiInvariant, PTL

(* What helps, for each way in which nothing was found.                    *)
LEMMA ActionIs ==
  ASSUME NEW text, NEW kinds, text # "" \/ kinds # {}
  PROVE  /\ Action(text, kinds) \in {"Clear filters", "Clear search", "Reset all"}
         /\ Action(text, kinds) = "Clear filters" => kinds # {} /\ (text = "" \/ Matches(text, {}) # {})
         /\ Action(text, kinds) = "Clear search" =>
              text # "" /\ (kinds = {} \/ (Matches(text, {}) = {} /\ Matches("", kinds) # {}))
         /\ Action(text, kinds) = "Reset all" => Matches(text, {}) = {} /\ Matches("", kinds) = {}
<1>1. CASE kinds = {} /\ text # ""
  <2>1. Action(text, kinds) = "Clear search"
    BY <1>1 DEF Action
  <2> QED BY <1>1, <2>1
<1>2. CASE kinds # {} /\ text = ""
  BY <1>2 DEF Action
<1>3. CASE kinds # {} /\ text # "" /\ Matches(text, {}) # {}
  BY <1>3 DEF Action
<1>4. CASE kinds # {} /\ text # "" /\ Matches(text, {}) = {} /\ Matches("", kinds) # {}
  BY <1>4 DEF Action
<1>5. CASE kinds # {} /\ text # "" /\ Matches(text, {}) = {} /\ Matches("", kinds) = {}
  BY <1>5 DEF Action
<1> QED
  BY <1>1, <1>2, <1>3, <1>4, <1>5

(* What is shown, for an index that can be searched.                       *)
LEMMA ShownIs ==
  ASSUME HasRoot, Entries # Missing, root.page \in ApiPages, NEW text, NEW kinds
  PROVE  /\ text = "" /\ kinds = {} /\ Entries # {} => Shown(text, kinds).state # "none"
         /\ (text # "" \/ kinds # {}) /\ Matches(text, kinds) # {} => Shown(text, kinds).state # "none"
         /\ Shown(text, kinds).state = "none" /\ Shown(text, kinds).action # ApiNone =>
              /\ Entries # {} /\ (text # "" \/ kinds # {})
              /\ Shown(text, kinds).action = Action(text, kinds)
<1>1. \A entry \in Entries : Finds("", entry)
  BY SearchAssumption DEF HasRoot, Entries
<1>2. Matches(text, kinds) \subseteq Entries /\ Matches("", {}) = Entries
  BY <1>1 DEF Matches
<1>3. CASE text = "" /\ kinds = {} /\ Entries # {}
  BY <1>2, <1>3 DEF Shown, Content
<1>4. CASE (text # "" \/ kinds # {}) /\ Matches(text, kinds) # {}
  BY <1>2, <1>4 DEF Shown, Results
<1>5. CASE Entries = {}
  BY <1>2, <1>5 DEF Shown, NoResults
<1>6. CASE Entries # {} /\ (text # "" \/ kinds # {}) /\ Matches(text, kinds) = {}
  BY <1>2, <1>6 DEF Shown, NoResults
<1> QED
  BY <1>3, <1>4, <1>5, <1>6

(* The way back leads to results, and takes away no more than it must.     *)
THEOREM RecoveryLeadsBack == ApiSpec => WaysBackHelp
<1>1. ASSUME ApiInv, [ApiNext]_apiVars PROVE ApiRecoveryHelps
  <2> SUFFICES ASSUME ApiRecover, ~armed PROVE apiShown'.state # "none"
    BY DEF ApiRecoveryHelps
  <2> DEFINE text == ApiTrim(field)
             t == IF apiShown.action = "Clear filters" THEN field ELSE ""
             k == IF apiShown.action = "Clear search" THEN active ELSE {}
  <2>1. /\ HasRoot /\ Entries # Missing /\ root.page \in ApiPages /\ ApiTrim("") = ""
        /\ apiShown = Shown(text, active) /\ apiShown.state = "none" /\ apiShown.action # ApiNone
    <3>1. Attached /\ apiCurrent # ApiNone
      BY <1>1, SearchAssumption DEF ApiRecover, Attached, ApiInv, TabOK
    <3> QED BY <1>1, <3>1, SearchAssumption DEF ApiRecover, Settled, ApiInv, TabOK, ControllerOK, FieldOK
  <2>2. apiShown' = Shown(ApiTrim(t), k)
    BY DEF ApiRecover, Change, ApplySearch
  <2> HIDE DEF text
  <2>3. Entries # {} /\ (text # "" \/ active # {}) /\ apiShown.action = Action(text, active)
    BY <2>1, ShownIs
  <2>4. CASE apiShown.action = "Clear filters"
    <3>1. text = "" \/ Matches(text, {}) # {}
      BY <2>3, <2>4, ActionIs
    <3>a. t = field /\ k = {}
      BY <2>4
    <3> HIDE DEF t, k
    <3>2. apiShown' = Shown(text, {})
      BY <2>2, <3>a DEF text
    <3> QED BY <2>1, <2>3, <3>1, <3>2, ShownIs
  <2>5. CASE apiShown.action = "Clear search"
    <3> HIDE DEF t, k
    <3>1. active = {} \/ Matches("", active) # {}
      <4>1. Action(text, active) = "Clear search"
        BY <2>3, <2>5
      <4> QED BY <2>3, <4>1, ActionIs
    <3>a. t = "" /\ k = active
      BY <2>5 DEF t, k
    <3>2. apiShown' = Shown("", active)
      BY <2>1, <2>2, <3>a
    <3> QED BY <2>1, <2>3, <3>1, <3>2, ShownIs
  <2>6. CASE apiShown.action = "Reset all"
    <3>1. t = "" /\ k = {}
      BY <2>6
    <3> HIDE DEF t, k
    <3>2. apiShown' = Shown("", {})
      BY <2>1, <2>2, <3>1
    <3> QED BY <2>1, <2>3, <3>2, ShownIs
  <2>7. apiShown.action \in {"Clear filters", "Clear search", "Reset all"}
    BY <2>3, ActionIs
  <2> QED BY <2>4, <2>5, <2>6, <2>7
<1>2. ASSUME ApiInv, [ApiNext]_apiVars PROVE RecoveryKeeps
  <2> SUFFICES ASSUME apiShown.state = "none", ~armed, apiActs' # apiActs, field' # field, active' # active
               PROVE  Matches(ApiTrim(field), {}) = {} /\ Matches("", active) = {}
    BY DEF RecoveryKeeps
  <2>1. ApiResetAll \/ ApiRecover
    BY <1>2 DEF ApiNext, Script, ApiPageLoad, Swap, Debounced, Go, apiPage, Type, Chip, ApiClear,
                ApiClearFilters, Change, apiVars
  <2>2. Attached /\ apiCurrent # ApiNone
    BY <1>2, <2>1, SearchAssumption DEF ApiResetAll, ApiRecover, Attached, ApiInv, TabOK
  <2>3. /\ HasRoot /\ Entries # Missing /\ root.page \in ApiPages
        /\ apiShown = Shown(ApiTrim(field), active) /\ offers = Offered(ApiTrim(field), active)
    BY <1>2, <2>2 DEF Settled, ApiInv, TabOK, ControllerOK, FieldOK
  <2>4. offers = {}
    BY <2>3 DEF Offered
  <2>5. ApiRecover
    BY <2>1, <2>4 DEF ApiResetAll
  <2>6. apiShown.action # ApiNone /\ apiShown.action \notin {"Clear filters", "Clear search"}
    BY <2>5 DEF ApiRecover, Change
  <2>7. (ApiTrim(field) # "" \/ active # {}) /\ apiShown.action = Action(ApiTrim(field), active)
    BY <2>3, <2>6, ShownIs
  <2> QED BY <2>6, <2>7, ActionIs
<1>3. ApiInv /\ [ApiNext]_apiVars => [ApiRecoveryHelps /\ RecoveryKeeps]_apiVars
  BY <1>1, <1>2
<1> QED
  BY <1>3, ApiInvariant, PTL DEF ApiSpec, WaysBackHelp

-----------------------------------------------------------------------------
(* SitePages: the filters, their address and the router.  Everything an    *)
(* action does goes through a few operators on the history, the element    *)
(* and the navigation under way; each has a lemma.  The invariant says     *)
(* what a navigation will bring when it lands (Coming): one of the filters *)
(* brings what they show and what was asked for, a traversal the page the  *)
(* browser has moved to already.                                           *)

Elements ==
    {el \in [live : BOOLEAN, view : Queries, pending : BOOLEAN, revision : Nat,
            waiting : SUBSET Nat, restored : BOOLEAN] : el.waiting \subseteq 1 .. el.revision}

Navigations ==
    {NoNavigation}
        \cup [kind : {"push", "replace", "traverse"}, to : FilterUrls, info : BOOLEAN,
              revision : Nat]

FilterStates == [history : FilterHistories, element : Elements, fetching : Navigations]

Documents == [page : {"browse", "other"}, extra : Extras]

OthersUnowned(h) == \A i \in DOMAIN h.entries : h.entries[i].url.page = "other" => ~h.entries[i].owned

Place(url) == [page |-> url.page, extra |-> url.extra]

(* Only the current entry differs, and its page does not.                  *)
KeepsPlace(g, h) ==
    /\ h.index = g.index /\ Len(h.entries) = Len(g.entries)
    /\ \A i \in DOMAIN g.entries \ {g.index} : h.entries[i] = g.entries[i]
    /\ Place(Location(h)) = Place(Location(g))
    /\ OthersUnowned(g) => OthersUnowned(h)

(* What the filters send the router to.                                    *)
OwnNavigation(s, n, ask) ==
    /\ n.kind \in {"push", "replace"} /\ n.info
    /\ s.element.live /\ s.element.pending /\ n.revision = s.element.revision
    /\ Location(s.history).page = "browse" /\ n.to.page = "browse"
    /\ n.to.query = s.element.view /\ s.element.view = ask

Coming(s, doc, ask) ==
    LET n == s.fetching
        here == Location(s.history)
    IN \/ /\ n = NoNavigation
          /\ doc = Place(here) /\ Read(here.query) = ask
          /\ s.element.live => Read(here.query) = s.element.view /\ Here(s.history).owned
       \/ /\ n # NoNavigation /\ n.kind = "traverse" /\ ~n.info
          /\ Place(n.to) = Place(here) /\ Read(here.query) = ask
       \/ n # NoNavigation /\ n.kind = "push" /\ ~n.info
       \/ n # NoNavigation /\ OwnNavigation(s, n, ask)

Connected(el, doc, loading) ==
    /\ el.live => doc.page = "browse"
    /\ el.pending => el.live
    /\ el.restored => el.live /\ loading
    /\ loading /\ ~el.restored => ~el.live
    /\ ~loading => (el.live <=> doc.page = "browse")

FilterIInv ==
    /\ State \in FilterStates /\ filterDocument \in Documents
    /\ router = [fetching |-> router.fetching, loading |-> router.loading]
    /\ router.loading \in BOOLEAN
    /\ acts \in 0 .. MaxActs
    /\ OthersUnowned(history)
    /\ Connected(element, filterDocument, router.loading)
    /\ Coming(State, filterDocument, wanted)

LEMMA FilterUrlKinds ==
    ASSUME NEW url \in FilterUrls
    PROVE  /\ url = [page |-> url.page, extra |-> url.extra, query |-> url.query]
           /\ url.page \in {"browse", "other"} /\ url.extra \in Extras
           /\ url.page = "browse" => /\ Read(url.query) \in Queries
                                     /\ Read(Read(url.query)) = Read(url.query)
           /\ url.page = "other" => url = Other(url.extra)
           /\ Place(url) \in Documents
           /\ url.page = "browse" =>
                \A view \in Queries : /\ Read(view) = view
                                      /\ [url EXCEPT !.query = view] \in FilterUrls
BY FilterAssumption DEF FilterUrls, Browse, Other, Address, Read, Place, Documents

LEMMA HistoryFacts ==
    ASSUME NEW h \in FilterHistories
    PROVE  /\ h = [entries |-> h.entries, index |-> h.index]
           /\ h.index \in 1 .. Len(h.entries) /\ DOMAIN h.entries = 1 .. Len(h.entries)
           /\ Len(h.entries) \in Nat
           /\ \A i \in DOMAIN h.entries : h.entries[i] \in FilterEntries
           /\ Location(h) \in FilterUrls /\ Here(h).owned \in BOOLEAN
<1>1. h.entries \in Seq(FilterEntries) /\ h.index \in 1 .. Len(h.entries)
  BY DEF FilterHistories
<1>2. h.entries[h.index] \in FilterEntries
  BY <1>1
<1>3. h = [entries |-> h.entries, index |-> h.index] /\ Len(h.entries) \in Nat
      /\ DOMAIN h.entries = 1 .. Len(h.entries)
      /\ \A i \in DOMAIN h.entries : h.entries[i] \in FilterEntries
  BY <1>1 DEF FilterHistories
<1>4. Location(h) \in FilterUrls /\ Here(h).owned \in BOOLEAN
  BY <1>2 DEF FilterEntries, Location, Here
<1> QED  BY <1>1, <1>3, <1>4

LEMMA EntryFields ==
    ASSUME NEW entry \in FilterEntries
    PROVE  /\ LET marked == [entry EXCEPT !.owned = TRUE]
              IN marked \in FilterEntries /\ marked.url = entry.url /\ marked.owned
           /\ \A url \in FilterUrls :
                LET moved == [entry EXCEPT !.url = url]
                IN moved \in FilterEntries /\ moved.url = url /\ moved.owned = entry.owned
BY DEF FilterEntries

\* An entry of the history takes another address or owner.
LEMMA EntryReplaced ==
    ASSUME NEW h \in FilterHistories, NEW entry \in FilterEntries,
           Place(entry.url) = Place(Location(h)),
           entry.url.page = "browse"
    PROVE  LET g == [h EXCEPT !.entries[h.index] = entry] IN
           /\ g \in FilterHistories /\ KeepsPlace(h, g) /\ Here(g) = entry
           /\ Location(g) = entry.url
<1> DEFINE g == [h EXCEPT !.entries[h.index] = entry]
           changed == [h.entries EXCEPT ![h.index] = entry]
<1>0. /\ h.entries \in Seq(FilterEntries) /\ h.index \in 1 .. Len(h.entries) /\ h.index \in Nat
      /\ h = [entries |-> h.entries, index |-> h.index]
  BY DEF FilterHistories
<1>1. g = [entries |-> changed, index |-> h.index]
  BY <1>0
<1>2. changed \in Seq(FilterEntries) /\ Len(changed) = Len(h.entries) /\ changed[h.index] = entry
      /\ \A i \in 1 .. Len(h.entries) : i # h.index => changed[i] = h.entries[i]
  BY <1>0
<1>3. g \in FilterHistories /\ Here(g) = entry /\ Location(g) = entry.url
  BY <1>0, <1>1, <1>2 DEF FilterHistories, Here, Location
<1>4. KeepsPlace(h, g)
  BY <1>0, <1>1, <1>2, <1>3 DEF KeepsPlace, OthersUnowned
<1> QED  BY <1>3, <1>4

LEMMA KeepsPlaceComposes ==
    ASSUME NEW f \in FilterHistories, NEW g \in FilterHistories, NEW h \in FilterHistories,
           KeepsPlace(f, g), KeepsPlace(g, h)
    PROVE  KeepsPlace(f, h)
BY HistoryFacts DEF KeepsPlace

LEMMA StateFields ==
    ASSUME NEW s \in FilterStates
    PROVE  /\ s.history \in FilterHistories /\ s.element \in Elements /\ s.fetching \in Navigations
           /\ s = [history |-> s.history, element |-> s.element, fetching |-> s.fetching]
BY DEF FilterStates

LEMMA MarkEntryDoes ==
    ASSUME NEW s \in FilterStates, Location(s.history).page = "browse"
    PROVE  LET t == MarkEntry(s) IN
           /\ t \in FilterStates /\ t.element = s.element /\ t.fetching = s.fetching
           /\ KeepsPlace(s.history, t.history)
           /\ Location(t.history) = Location(s.history) /\ Here(t.history).owned
<1> DEFINE h == s.history
           entry == [Here(h) EXCEPT !.owned = TRUE]
           t == MarkEntry(s)
<1>b. Location(h).page = "browse"
  OBVIOUS
<1>0. h \in FilterHistories /\ Location(h) \in FilterUrls /\ h.index \in DOMAIN h.entries
      /\ h.entries[h.index] \in FilterEntries /\ h = [entries |-> h.entries, index |-> h.index]
  BY StateFields, HistoryFacts
<1>1. entry \in FilterEntries /\ entry.url = Location(h) /\ entry.owned
  BY <1>0, EntryFields DEF Location, Here
<1>3. t = [s EXCEPT !.history = [h EXCEPT !.entries[h.index] = entry]]
  BY <1>0, StateFields DEF MarkEntry, Here
<1> HIDE DEF entry
<1>4. t.history = [h EXCEPT !.entries[h.index] = entry] /\ t.element = s.element
      /\ t.fetching = s.fetching /\ t = [history |-> t.history, element |-> s.element, fetching |-> s.fetching]
  BY <1>3, StateFields
<1> HIDE DEF t, h
<1>5. Place(entry.url) = Place(Location(h)) /\ entry.url.page = "browse"
  BY <1>1, <1>b DEF Place
<1>6. /\ t.history \in FilterHistories /\ KeepsPlace(h, t.history) /\ Here(t.history) = entry
      /\ Location(t.history) = entry.url
  BY <1>0, <1>1, <1>4, <1>5, EntryReplaced
<1> USE DEF h, t
<1>7. t \in FilterStates
  BY <1>4, <1>6, StateFields DEF FilterStates
<1> QED  BY <1>1, <1>4, <1>6, <1>7

LEMMA ReplaceStateDoes ==
    ASSUME NEW s \in FilterStates, NEW url \in FilterUrls,
           Place(url) = Place(Location(s.history)), url.page = "browse"
    PROVE  LET t == ReplaceState(s, url) IN
           /\ t \in FilterStates /\ t.element = s.element /\ t.fetching = s.fetching
           /\ KeepsPlace(s.history, t.history)
           /\ Location(t.history) = url /\ Here(t.history).owned = Here(s.history).owned
<1> DEFINE h == s.history
           entry == [Here(h) EXCEPT !.url = url]
           t == ReplaceState(s, url)
<1>b. Place(url) = Place(Location(h)) /\ url.page = "browse"
  OBVIOUS
<1>0. h \in FilterHistories /\ Here(h).owned \in BOOLEAN /\ h.index \in DOMAIN h.entries
      /\ h.entries[h.index] \in FilterEntries /\ h = [entries |-> h.entries, index |-> h.index]
  BY StateFields, HistoryFacts
<1>1. entry \in FilterEntries /\ entry.url = url /\ entry.owned = Here(h).owned
  BY <1>0, EntryFields DEF Here
<1>3. t = [s EXCEPT !.history = [h EXCEPT !.entries[h.index] = entry]]
  BY <1>0, StateFields DEF ReplaceState, Here
<1> HIDE DEF entry
<1>4. t.history = [h EXCEPT !.entries[h.index] = entry] /\ t.element = s.element
      /\ t.fetching = s.fetching /\ t = [history |-> t.history, element |-> s.element, fetching |-> s.fetching]
  BY <1>3, StateFields
<1> HIDE DEF t, h
<1>5. Place(entry.url) = Place(Location(h)) /\ entry.url.page = "browse"
  BY <1>1, <1>b DEF Place
<1>6. /\ t.history \in FilterHistories /\ KeepsPlace(h, t.history) /\ Here(t.history) = entry
      /\ Location(t.history) = entry.url
  BY <1>0, <1>1, <1>4, <1>5, EntryReplaced
<1> USE DEF h, t
<1>7. t \in FilterStates
  BY <1>4, <1>6, StateFields DEF FilterStates
<1> QED  BY <1>1, <1>4, <1>6, <1>7

\* The element asks the router: it waits for what it asked last.
Asked(s, t, replace) ==
    /\ t.fetching = [kind |-> IF replace THEN "replace" ELSE "push",
                     to |-> [Location(s.history) EXCEPT !.query = s.element.view],
                     info |-> TRUE, revision |-> s.element.revision + 1]
    /\ t.element.live = s.element.live /\ t.element.view = s.element.view
    /\ t.element.restored = s.element.restored
    /\ t.element.pending /\ t.element.revision = s.element.revision + 1

LEMMA FilterRequestDoes ==
    ASSUME NEW s \in FilterStates, Location(s.history).page = "browse", NEW replace \in BOOLEAN
    PROVE  LET url == [Location(s.history) EXCEPT !.query = s.element.view]
               t == FilterRequest(s, url, replace)
           IN t \in FilterStates /\ t.history = s.history /\ Asked(s, t, replace)
<1> DEFINE url == [Location(s.history) EXCEPT !.query = s.element.view]
           current == s.element.revision + 1
           n == [kind |-> IF replace THEN "replace" ELSE "push", to |-> url,
                 info |-> TRUE, revision |-> current]
           t == FilterRequest(s, url, replace)
<1>1. /\ t.element = [s.element EXCEPT !.pending = TRUE, !.revision = current,
                                       !.waiting = @ \cup {current}]
      /\ t.history = s.history /\ t.fetching = n
  BY DEF FilterRequest, Navigate, FilterStates
<1>2. /\ current \in Nat /\ s.element.waiting \in SUBSET Nat
      /\ s.element.waiting \cup {current} \subseteq 1 .. current
  BY DEF Elements, FilterStates
<1>3. url \in FilterUrls
  BY StateFields, HistoryFacts, FilterUrlKinds DEF Elements
<1>4. n \in Navigations
  BY <1>2, <1>3 DEF Navigations
<1> HIDE DEF t, current
<1>5. /\ t.element \in Elements
      /\ t.element.live = s.element.live /\ t.element.view = s.element.view
      /\ t.element.restored = s.element.restored
      /\ t.element.pending /\ t.element.revision = current
  <2> DEFINE el == s.element
             waits == [el EXCEPT !.pending = TRUE, !.revision = current,
                                 !.waiting = @ \cup {current}]
             EveryElement == [live : BOOLEAN, view : Queries, pending : BOOLEAN,
                              revision : Nat, waiting : SUBSET Nat, restored : BOOLEAN]
  <2>1. el \in EveryElement /\ el.waiting \cup {current} \in SUBSET Nat
    BY <1>2, StateFields DEF Elements
  <2> HIDE DEF el
  <2>2. /\ waits \in EveryElement /\ waits.waiting = el.waiting \cup {current}
        /\ waits.live = el.live /\ waits.view = el.view /\ waits.restored = el.restored
        /\ waits.pending = TRUE /\ waits.revision = current
    BY <1>2, <2>1
  <2>3. t.element = waits /\ waits.waiting \subseteq 1 .. current
    BY <1>1, <1>2, <2>2 DEF el
  <2> HIDE DEF waits
  <2> QED  BY <2>2, <2>3 DEF Elements, el
<1> USE DEF t, current
<1>6. t \in FilterStates
  <2>1. t = [s EXCEPT !.element = t.element, !.fetching = n]
    BY <1>1 DEF FilterRequest, Navigate, FilterStates
  <2> HIDE DEF t, n
  <2> QED  BY <1>4, <1>5, <2>1 DEF FilterStates
<1> QED  BY <1>1, <1>5, <1>6 DEF Asked

\* The filters write: in place, when nothing is pending, or through the router.
Written(s, t, replace) ==
    \/ /\ ~s.element.pending
       /\ t.element = s.element /\ t.fetching = s.fetching
       /\ Location(t.history).query = s.element.view
    \/ /\ s.element.pending \/ ~replace
       /\ Asked(s, t, replace) /\ Location(t.history) = Location(s.history)

LEMMA WriteDoes ==
    ASSUME NEW s \in FilterStates, NEW replace \in BOOLEAN,
           s.element.live, Location(s.history).page = "browse"
    PROVE  LET t == Write(s, replace) IN
           /\ t \in FilterStates /\ KeepsPlace(s.history, t.history)
           /\ Here(t.history).owned /\ Written(s, t, replace)
<1> DEFINE url == [Location(s.history) EXCEPT !.query = s.element.view]
           m == MarkEntry(s)
           t == Write(s, replace)
<1>1. /\ m \in FilterStates /\ m.element = s.element /\ m.fetching = s.fetching
      /\ KeepsPlace(s.history, m.history)
      /\ Location(m.history) = Location(s.history) /\ Here(m.history).owned
  BY MarkEntryDoes
<1>2. /\ s.element.view \in Queries /\ s.element.pending \in BOOLEAN
      /\ Location(s.history) \in FilterUrls /\ url \in FilterUrls
      /\ url.page = "browse" /\ Place(url) = Place(Location(s.history))
      /\ url.query = s.element.view
  BY StateFields, HistoryFacts, FilterUrlKinds DEF Elements, Place
<1>3. CASE url = Location(s.history) /\ ~s.element.pending
  <2>1. t = m
    BY <1>3 DEF Write
  <2> QED  BY <1>1, <1>2, <1>3, <2>1 DEF Written
<1>4. CASE url # Location(s.history) /\ replace /\ ~s.element.pending
  <2>1. t = ReplaceState(m, url)
    BY <1>4 DEF Write
  <2>0. Place(url) = Place(Location(m.history))
    BY <1>1, <1>2
  <2> HIDE DEF m, url, t
  <2>2. /\ t \in FilterStates /\ t.element = m.element /\ t.fetching = m.fetching
        /\ KeepsPlace(m.history, t.history)
        /\ Location(t.history) = url /\ Here(t.history).owned = Here(m.history).owned
    BY <1>1, <1>2, <2>0, <2>1, ReplaceStateDoes
  <2> USE DEF m, url, t
  <2>3. KeepsPlace(s.history, t.history)
    BY <1>1, <2>2, StateFields, KeepsPlaceComposes
  <2> QED  BY <1>1, <1>2, <1>4, <2>2, <2>3 DEF Written
<1>5. CASE ~(url = Location(s.history) /\ ~s.element.pending) /\ ~(replace /\ ~s.element.pending)
  <2>1. t = FilterRequest(m, url, replace)
    BY <1>5 DEF Write
  <2>2. /\ t \in FilterStates /\ t.history = m.history /\ Asked(m, t, replace)
    BY <1>1, <2>1, FilterRequestDoes
  <2>3. Asked(s, t, replace)
    BY <1>1, <2>2 DEF Asked
  <2> QED  BY <1>1, <1>5, <2>2, <2>3 DEF Written
<1> QED  BY <1>3, <1>4, <1>5

\* The filters show what the address of their page says, and may write it back.
ShowsAddress(s, t) ==
    /\ t.element.live /\ t.element.view = Read(Location(s.history).query)
    /\ t.element.restored = s.element.restored
    /\ Here(t.history).owned /\ KeepsPlace(s.history, t.history)
    /\ Read(Location(t.history).query) = Read(Location(s.history).query)
    /\ \/ t.fetching = s.fetching /\ t.element.pending = s.element.pending
          /\ t.element.revision = s.element.revision
       \/ /\ s.element.pending /\ t.element.pending
          /\ t.fetching = [kind |-> "replace",
                           to |-> [Location(t.history) EXCEPT !.query = t.element.view],
                           info |-> TRUE, revision |-> t.element.revision]

LEMMA RestoreCurrentDoes ==
    ASSUME NEW s \in FilterStates
    PROVE  LET t == RestoreCurrent(s) IN
           /\ t \in FilterStates
           /\ s.element.live /\ Location(s.history).page = "browse" => ShowsAddress(s, t)
           /\ ~s.element.live \/ Location(s.history).page # "browse" => t = s
<1>1. CASE ~s.element.live \/ Location(s.history).page # "browse"
  BY <1>1 DEF RestoreCurrent
<1>2. CASE s.element.live /\ Location(s.history).page = "browse"
  <2> DEFINE m == MarkEntry(s)
             view == Read(Location(s.history).query)
             viewing == [m EXCEPT !.element.view = view]
             t == RestoreCurrent(s)
  <2>1. /\ m \in FilterStates /\ m.element = s.element /\ m.fetching = s.fetching
        /\ KeepsPlace(s.history, m.history)
        /\ Location(m.history) = Location(s.history) /\ Here(m.history).owned
    BY <1>2, MarkEntryDoes
  <2>2. view \in Queries /\ Read(view) = view /\ Read(Location(s.history).query) = view
    BY <1>2, StateFields, HistoryFacts, FilterUrlKinds
  <2>3. /\ viewing = [history |-> m.history, element |-> [s.element EXCEPT !.view = view],
                    fetching |-> s.fetching]
        /\ [s.element EXCEPT !.view = view] \in Elements
    BY <2>1, <2>2, StateFields DEF Elements
  <2>4. /\ viewing \in FilterStates /\ viewing.element.view = view
        /\ viewing.element.live = s.element.live /\ viewing.element.pending = s.element.pending
        /\ viewing.element.restored = s.element.restored
        /\ viewing.element.revision = s.element.revision
        /\ viewing.history = m.history /\ viewing.fetching = s.fetching
    BY <2>1, <2>2, <2>3, StateFields DEF FilterStates, Elements
  <2>5. CASE ~RestoreSaves
    <3>1. t = viewing
      BY <1>2, <2>1, <2>5 DEF RestoreCurrent, Restore
    <3> QED  BY <1>2, <2>1, <2>2, <2>4, <3>1 DEF ShowsAddress
  <2>6. CASE RestoreSaves
    <3>1. t = Write(viewing, TRUE)
      BY <1>2, <2>1, <2>6 DEF RestoreCurrent, Restore
    <3>2. /\ t \in FilterStates /\ KeepsPlace(m.history, t.history)
          /\ Here(t.history).owned /\ Written(viewing, t, TRUE)
      BY <1>2, <2>1, <2>4, <3>1, WriteDoes
    <3>3. KeepsPlace(s.history, t.history)
      BY <2>1, <3>2, StateFields, KeepsPlaceComposes
    <3>4. CASE /\ ~viewing.element.pending
               /\ t.element = viewing.element /\ t.fetching = viewing.fetching
               /\ Location(t.history).query = viewing.element.view
      BY <1>2, <2>2, <2>4, <3>2, <3>3, <3>4 DEF ShowsAddress
    <3>5. CASE /\ viewing.element.pending
               /\ Asked(viewing, t, TRUE) /\ Location(t.history) = Location(viewing.history)
      BY <1>2, <2>1, <2>2, <2>4, <3>2, <3>3, <3>5 DEF ShowsAddress, Asked
    <3> QED  BY <3>2, <3>4, <3>5 DEF Written
  <2> QED  BY <2>5, <2>6, <1>2
<1> QED  BY <1>1, <1>2

LEMMA NewElementDoes ==
    ASSUME NEW live \in BOOLEAN
    PROVE  /\ NewElement(live) \in Elements /\ NewElement(live).live = live
           /\ ~NewElement(live).pending
BY FilterAssumption DEF NewElement, Elements

LEMMA NavigationKinds ==
    ASSUME NEW n \in Navigations, n # NoNavigation
    PROVE  /\ n.kind \in {"push", "replace", "traverse"} /\ n.to \in FilterUrls
           /\ n.info \in BOOLEAN /\ n.revision \in Nat
BY DEF Navigations

LEMMA MoveToLocationDoes ==
    ASSUME NEW s \in FilterStates, NEW n \in Navigations, n # NoNavigation,
           n.kind = "traverse" => Place(n.to) = Place(Location(s.history)),
           n.info => n.to.page = "browse", n.kind = "replace" => n.info,
           OthersUnowned(s.history)
    PROVE  LET t == MoveToLocation(s, n) IN
           /\ t \in FilterStates /\ t.element = s.element /\ t.fetching = s.fetching
           /\ OthersUnowned(t.history) /\ Place(Location(t.history)) = Place(n.to)
           /\ n.kind = "traverse" => t = s
           /\ n.kind # "traverse" => Location(t.history) = n.to
<1> DEFINE h == s.history
           entry == [url |-> n.to, owned |-> n.info]
           t == MoveToLocation(s, n)
<1>0. /\ h \in FilterHistories /\ h.entries \in Seq(FilterEntries)
      /\ h.index \in 1 .. Len(h.entries) /\ h.index \in Nat
      /\ Len(h.entries) \in Nat /\ DOMAIN h.entries = 1 .. Len(h.entries)
  BY StateFields, HistoryFacts DEF FilterHistories
<1>1. entry \in FilterEntries /\ entry.url = n.to /\ (entry.url.page = "other" => ~entry.owned)
  BY NavigationKinds, FilterUrlKinds DEF FilterEntries
<1>k. n.kind \in {"push", "replace", "traverse"}
  BY NavigationKinds
<1> HIDE DEF entry
<1>2. CASE n.kind = "traverse" \/ n.to = Location(h)
  <2>1. t = s
    BY <1>2 DEF MoveToLocation
  <2> QED  BY <1>2, <2>1
<1>3. CASE n.kind = "replace" /\ n.to # Location(h)
  <2> DEFINE changed == [h.entries EXCEPT ![h.index] = entry]
             g == [h EXCEPT !.entries[h.index] = entry]
  <2>1. t = [s EXCEPT !.history = g]
    BY <1>0, <1>3 DEF MoveToLocation, FilterStates, entry
  <2>2. g.entries = changed /\ g.index = h.index
    BY <1>0 DEF FilterHistories
  <2>3. /\ changed \in Seq(FilterEntries) /\ Len(changed) = Len(h.entries)
        /\ changed[h.index] = entry
        /\ \A i \in DOMAIN h.entries : i # h.index => changed[i] = h.entries[i]
    BY <1>0, <1>1
  <2>4. g = [h EXCEPT !.entries = changed]
    BY <1>0 DEF FilterHistories
  <2> HIDE DEF changed, g
  <2>5. g \in FilterHistories
    BY <1>0, <2>2, <2>3, <2>4 DEF FilterHistories
  <2>6. Location(g) = n.to
    BY <1>1, <2>2, <2>3 DEF Location, Here
  <2>7. OthersUnowned(g)
    BY <1>0, <1>1, <2>2, <2>3, <2>5, HistoryFacts DEF OthersUnowned
  <2>8. t \in FilterStates /\ t.history = g /\ t.element = s.element /\ t.fetching = s.fetching
    BY <2>1, <2>5 DEF FilterStates
  <2> QED  BY <1>3, <2>6, <2>7, <2>8
<1>4. CASE n.kind = "push" /\ n.to # Location(h)
  <2> DEFINE front == SubSeq(h.entries, 1, h.index)
             grown == Append(front, entry)
             g == [entries |-> grown, index |-> h.index + 1]
  <2>1. t = [s EXCEPT !.history = g]
    BY <1>4 DEF MoveToLocation, entry
  <2>2. /\ front \in Seq(FilterEntries) /\ Len(front) = h.index
        /\ \A i \in 1 .. h.index : front[i] = h.entries[i]
    BY <1>0
  <2> HIDE DEF front
  <2>3. /\ grown \in Seq(FilterEntries) /\ Len(grown) = h.index + 1
        /\ grown[h.index + 1] = entry
        /\ \A i \in 1 .. h.index : grown[i] = h.entries[i]
    BY <1>0, <1>1, <2>2
  <2> HIDE DEF grown
  <2>4. g \in FilterHistories
    BY <1>0, <2>3 DEF FilterHistories
  <2>5. Location(g) = n.to
    BY <1>1, <2>3 DEF Location, Here
  <2>6. OthersUnowned(g)
    <3>1. DOMAIN g.entries = 1 .. h.index + 1
      BY <1>0, <2>3
    <3>2. \A i \in 1 .. h.index + 1 : i = h.index + 1 \/ (i \in 1 .. h.index /\ i \in DOMAIN h.entries)
      BY <1>0
    <3> QED  BY <1>1, <2>3, <3>1, <3>2 DEF OthersUnowned
  <2> HIDE DEF g
  <2>8. t \in FilterStates /\ t.history = g /\ t.element = s.element /\ t.fetching = s.fetching
    BY <2>1, <2>4 DEF FilterStates
  <2> QED  BY <1>4, <2>5, <2>6, <2>8
<1> QED  BY <1>2, <1>3, <1>4, <1>k

LEMMA FilterBecomeDoes ==
    ASSUME NEW t \in FilterStates, NEW loading \in BOOLEAN, FilterBecome(t, loading)
    PROVE  /\ State' = t /\ history' = t.history /\ element' = t.element
           /\ router'.loading = loading /\ router'.fetching = t.fetching
           /\ router' = [fetching |-> router'.fetching, loading |-> router'.loading]
BY StateFields DEF FilterBecome, State

-----------------------------------------------------------------------------

LEMMA FilterInitOK == FilterInit => FilterIInv
<1> SUFFICES ASSUME FilterInit PROVE FilterIInv
  OBVIOUS
<1>1. PICK first \in First :
        LET live == Location(first).page = "browse"
            s == [history |-> first, fetching |-> NoNavigation, element |-> NewElement(live)]
            t == RestoreCurrent(s)
        IN /\ history = t.history
           /\ filterDocument = [page |-> Location(first).page, extra |-> Location(first).extra]
           /\ element = t.element
           /\ router = [fetching |-> NoNavigation, loading |-> FALSE]
           /\ acts = 0 /\ wanted = Read(Location(first).query)
  BY DEF FilterInit
<1> DEFINE live == Location(first).page = "browse"
           s == [history |-> first, fetching |-> NoNavigation, element |-> NewElement(live)]
           t == RestoreCurrent(s)
<1>2. first \in FilterHistories /\ OthersUnowned(first) /\ live \in BOOLEAN
  BY FilterAssumption DEF OthersUnowned
<1>3. /\ s \in FilterStates /\ s.history = first /\ s.fetching = NoNavigation
      /\ s.element = NewElement(live)
  BY <1>2, NewElementDoes DEF FilterStates, Navigations
<1>n. /\ NewElement(live).live = live /\ ~NewElement(live).pending
      /\ ~NewElement(live).restored
  BY <1>2, NewElementDoes DEF NewElement
<1>l. Location(first) \in FilterUrls
  BY <1>2, HistoryFacts
<1>4. /\ t \in FilterStates
      /\ s.element.live /\ Location(s.history).page = "browse" => ShowsAddress(s, t)
      /\ ~s.element.live \/ Location(s.history).page # "browse" => t = s
  BY <1>3, RestoreCurrentDoes
<1>5. /\ t.fetching = NoNavigation /\ (t.element.live <=> live) /\ ~t.element.restored /\ ~t.element.pending
      /\ OthersUnowned(t.history) /\ Place(Location(t.history)) = Place(Location(first))
      /\ Read(Location(t.history).query) = Read(Location(first).query)
      /\ live => Read(Location(t.history).query) = t.element.view /\ Here(t.history).owned
  <2> HIDE DEF s, t
  <2>1. CASE live
    <3>1. ShowsAddress(s, t)
      BY <1>3, <1>4, <1>n, <2>1
    <3>2. t.fetching = NoNavigation /\ ~t.element.pending
      BY <1>3, <1>n, <3>1 DEF ShowsAddress
    <3> QED  BY <1>2, <1>3, <1>n, <2>1, <3>1, <3>2 DEF ShowsAddress, KeepsPlace
  <2>2. CASE ~live
    BY <1>2, <1>3, <1>4, <1>n, <2>2
  <2> QED  BY <2>1, <2>2
<1>a. history = t.history /\ element = t.element /\ router.fetching = NoNavigation
  BY <1>1
<1> HIDE DEF s, t
<1>6. State = t /\ history = t.history /\ element = t.element
  BY <1>a, <1>4, <1>5, StateFields DEF State
<1>7. filterDocument = Place(Location(first)) /\ filterDocument \in Documents
  BY <1>1, <1>l, FilterUrlKinds DEF Place
<1>8. router.loading = FALSE /\ router.fetching = NoNavigation
      /\ router = [fetching |-> router.fetching, loading |-> router.loading]
  BY <1>1
<1>9. acts \in 0 .. MaxActs
  BY <1>1, FilterAssumption
<1>10. element.live <=> filterDocument.page = "browse"
  BY <1>5, <1>6, <1>7 DEF Place
<1>b. Read(Location(t.history).query) = wanted /\ Place(Location(t.history)) = filterDocument
      /\ (t.element.live <=> filterDocument.page = "browse")
  BY <1>1, <1>5, <1>7
<1> HIDE DEF live
<1>11. Connected(element, filterDocument, router.loading)
  BY <1>5, <1>6, <1>8, <1>10 DEF Connected
<1>12. Coming(State, filterDocument, wanted)
  BY <1>5, <1>6, <1>b DEF Coming
<1> QED  BY <1>4, <1>5, <1>6, <1>7, <1>8, <1>9, <1>11, <1>12 DEF FilterIInv

\* What the invariant gives of the state an action starts from.
LEMMA StateOK ==
    ASSUME FilterIInv
    PROVE  /\ State \in FilterStates /\ State.history = history /\ State.element = element
           /\ State.fetching = router.fetching
           /\ history \in FilterHistories /\ element \in Elements /\ router.fetching \in Navigations
           /\ Location(history) \in FilterUrls /\ OthersUnowned(history)
           /\ element.view \in Queries /\ element.live \in BOOLEAN /\ element.pending \in BOOLEAN
           /\ element.restored \in BOOLEAN /\ router.loading \in BOOLEAN
<1>1. /\ State \in FilterStates /\ State.history = history /\ State.element = element
      /\ State.fetching = router.fetching
  BY DEF FilterIInv, State
<1>2. history \in FilterHistories /\ element \in Elements /\ router.fetching \in Navigations
  BY <1>1, StateFields
<1>3. Location(history) \in FilterUrls
  BY <1>2, HistoryFacts
<1> QED  BY <1>1, <1>2, <1>3 DEF FilterIInv, Elements

\* The address of an element that is connected is the one of its page, unless the
\* page is being left.
LEMMA ComingOwn ==
    ASSUME NEW s, NEW n, NEW doc, NEW ask, Coming(s, doc, ask), n = s.fetching
    PROVE  /\ n # NoNavigation /\ n.info => OwnNavigation(s, n, ask)
           /\ n # NoNavigation => n.kind \in {"push", "replace", "traverse"}
           /\ n # NoNavigation /\ n.kind = "traverse" =>
                /\ ~n.info /\ Place(n.to) = Place(Location(s.history))
                /\ Read(Location(s.history).query) = ask
           /\ n # NoNavigation /\ n.kind = "replace" => n.info
           /\ n # NoNavigation /\ n.info => n.to.page = "browse"
BY DEF Coming, OwnNavigation

LEMMA ChooseKeeps ==
    ASSUME FilterIInv, NEW view \in Queries, NEW replace \in BOOLEAN, Choose(view, replace)
    PROVE  FilterIInv'
<1> DEFINE s == [State EXCEPT !.element.view = view]
           t == Write(s, replace)
<1>0. /\ element.live /\ filterDocument' = filterDocument
      /\ FilterBecome(t, router.loading)
      /\ wanted' = IF Location(history).page = "browse" THEN view ELSE wanted
      /\ acts < MaxActs /\ acts' = acts + 1
  BY DEF Choose, Act
<1>1. /\ s \in FilterStates /\ s.history = history /\ s.fetching = router.fetching
      /\ s.element = [element EXCEPT !.view = view]
  BY StateOK DEF FilterStates, Elements
<1>2. /\ s.element.view = view /\ s.element.live = element.live
      /\ s.element.pending = element.pending /\ s.element.restored = element.restored
      /\ s.element.revision = element.revision
  BY <1>1, StateOK DEF Elements
<1>3. acts' \in 0 .. MaxActs
  BY <1>0, FilterAssumption DEF FilterIInv
<1>4. filterDocument.page = "browse" /\ (element.restored => router.loading)
      /\ (router.loading => element.restored)
  BY <1>0 DEF FilterIInv, Connected
<1> HIDE DEF s
<1>5. CASE Location(history).page # "browse"
  <2>1. t = s
    BY <1>1, <1>5 DEF Write
  <2>2. State' = s /\ history' = history /\ element' = s.element
        /\ router'.loading = router.loading /\ router'.fetching = router.fetching
        /\ router' = [fetching |-> router'.fetching, loading |-> router'.loading]
    BY <1>0, <1>1, <2>1, StateOK, FilterBecomeDoes
  <2>3. Connected(element', filterDocument', router'.loading)
    BY <1>0, <1>2, <2>2 DEF Connected, FilterIInv
  <2>4. Coming(State', filterDocument', wanted')
    <3>1. router.fetching # NoNavigation /\ ~router.fetching.info
      <4>1. Coming(State, filterDocument, wanted)
        BY DEF FilterIInv
      <4>2. Place(Location(history)) # filterDocument
        BY <1>4, <1>5 DEF Place
      <4> QED  BY <1>5, <4>1, <4>2, StateOK DEF Coming, OwnNavigation
    <3> QED  BY <1>0, <1>1, <1>5, <2>2, <3>1, StateOK DEF Coming, FilterIInv, OwnNavigation
  <2> QED  BY <1>0, <1>1, <1>3, <2>2, <2>3, <2>4, StateOK DEF FilterIInv
<1>6. CASE Location(history).page = "browse"
  <2>1. /\ t \in FilterStates /\ KeepsPlace(history, t.history)
        /\ Here(t.history).owned /\ Written(s, t, replace)
    BY <1>0, <1>1, <1>2, <1>6, WriteDoes
  <2> HIDE DEF t
  <2>2. /\ State' = t /\ history' = t.history /\ element' = t.element
        /\ router'.loading = router.loading /\ router'.fetching = t.fetching
        /\ router' = [fetching |-> router'.fetching, loading |-> router'.loading]
    BY <1>0, <2>1, StateOK, FilterBecomeDoes
  <2>3. OthersUnowned(t.history) /\ Place(Location(t.history)) = Place(Location(history))
    BY <2>1, StateOK DEF KeepsPlace
  <2>4. Read(view) = view
    BY FilterAssumption DEF Read
  <2>5. CASE /\ ~s.element.pending
             /\ t.element = s.element /\ t.fetching = s.fetching
             /\ Location(t.history).query = s.element.view
    <3>1. Connected(element', filterDocument', router'.loading)
      BY <1>0, <1>2, <2>2, <2>5 DEF Connected, FilterIInv
    <3>2. router.fetching = NoNavigation \/ ~router.fetching.info
      BY <1>2, <2>5, StateOK, ComingOwn DEF FilterIInv, OwnNavigation
    <3>3. Coming(State', filterDocument', wanted')
      <4>1. Coming(State, filterDocument, wanted)
        BY DEF FilterIInv
      <4> QED  BY <4>1, <1>0, <1>1, <1>2, <1>6, <2>1, <2>2, <2>3, <2>4, <2>5, <3>2, StateOK
               DEF Coming, OwnNavigation
    <3> QED  BY <1>0, <1>3, <2>1, <2>2, <2>3, <3>1, <3>3, StateOK DEF FilterIInv
  <2>6. CASE Asked(s, t, replace) /\ Location(t.history) = Location(s.history)
    <3>1. Connected(element', filterDocument', router'.loading)
      BY <1>0, <1>2, <1>4, <2>2, <2>6 DEF Connected, Asked
    <3>2. [Location(history) EXCEPT !.query = view].page = "browse"
          /\ [Location(history) EXCEPT !.query = view].query = view
      BY <1>6, StateOK, FilterUrlKinds
    <3>3. Coming(State', filterDocument', wanted')
      <4> DEFINE n == t.fetching
      <4>1. /\ n.kind \in {"push", "replace"} /\ n.info /\ n.revision = t.element.revision
            /\ n.to.page = "browse" /\ n.to.query = view /\ n # NoNavigation
        <5>1. n = [kind |-> IF replace THEN "replace" ELSE "push",
                   to |-> [Location(history) EXCEPT !.query = view],
                   info |-> TRUE, revision |-> s.element.revision + 1]
              /\ t.element.revision = s.element.revision + 1
          BY <1>1, <1>2, <2>6 DEF Asked
        <5>2. /\ n.kind \in {"push", "replace"} /\ n.info /\ n.revision = t.element.revision
              /\ n.to = [Location(history) EXCEPT !.query = view]
          BY <5>1
        <5> QED  BY <3>2, <5>2 DEF NoNavigation
      <4>2. t.element.live /\ t.element.pending /\ t.element.view = view
        BY <1>0, <1>2, <2>6 DEF Asked
      <4> QED  BY <1>0, <1>1, <1>6, <2>2, <2>6, <4>1, <4>2 DEF Coming, OwnNavigation
    <3> QED  BY <1>0, <1>3, <2>1, <2>2, <2>3, <3>1, <3>3, StateOK DEF FilterIInv
  <2> QED  BY <2>1, <2>5, <2>6 DEF Written
<1> QED  BY <1>5, <1>6

LEMMA TraverseKeeps ==
    ASSUME FilterIInv, NEW index \in DOMAIN history.entries, Traverse(index)
    PROVE  FilterIInv'
<1> DEFINE n == [kind |-> "traverse", to |-> history.entries[index].url,
                 info |-> FALSE, revision |-> 0]
<1>0. /\ history' = [history EXCEPT !.index = index]
      /\ router' = [router EXCEPT !.fetching = n]
      /\ wanted' = Read(history.entries[index].url.query)
      /\ filterDocument' = filterDocument /\ element' = element
      /\ acts < MaxActs /\ acts' = acts + 1
  BY DEF Traverse, Act
<1>1. /\ history.entries \in Seq(FilterEntries) /\ index \in 1 .. Len(history.entries)
      /\ history.entries[index] \in FilterEntries
      /\ history' \in FilterHistories /\ history'.entries = history.entries /\ history'.index = index
  BY <1>0, StateOK DEF FilterHistories
<1>2. n \in Navigations /\ n # NoNavigation
  BY <1>1 DEF Navigations, FilterEntries, NoNavigation
<1>3. router'.fetching = n /\ router'.loading = router.loading
      /\ router' = [fetching |-> router'.fetching, loading |-> router'.loading]
  BY <1>0 DEF FilterIInv
<1>4. Location(history') = n.to
  BY <1>1 DEF Location, Here
<1>5. State' = [history |-> history', element |-> element, fetching |-> n]
  BY <1>0, <1>3 DEF State
<1>6. State' \in FilterStates
  BY <1>1, <1>2, <1>5, StateOK DEF FilterStates
<1>7. Coming(State', filterDocument', wanted')
  BY <1>0, <1>2, <1>4, <1>5 DEF Coming
<1>8. OthersUnowned(history')
  BY <1>1, StateOK DEF OthersUnowned
<1>9. acts' \in 0 .. MaxActs
  BY <1>0, FilterAssumption DEF FilterIInv
<1> QED  BY <1>0, <1>3, <1>6, <1>7, <1>8, <1>9 DEF FilterIInv

LEMMA FollowKeeps ==
    ASSUME FilterIInv, NEW url \in FilterUrls, Follow(url)
    PROVE  FilterIInv'
<1> DEFINE n == [kind |-> "push", to |-> url, info |-> FALSE, revision |-> 0]
<1>0. /\ history' = history /\ router' = [router EXCEPT !.fetching = n]
      /\ wanted' = wanted /\ filterDocument' = filterDocument /\ element' = element
      /\ acts < MaxActs /\ acts' = acts + 1
  BY DEF Follow, Act
<1>2. n \in Navigations /\ n # NoNavigation
  BY DEF Navigations, NoNavigation
<1>3. router'.fetching = n /\ router'.loading = router.loading
      /\ router' = [fetching |-> router'.fetching, loading |-> router'.loading]
  BY <1>0 DEF FilterIInv
<1>5. State' = [history |-> history, element |-> element, fetching |-> n]
  BY <1>0, <1>3 DEF State
<1>6. State' \in FilterStates
  BY <1>2, <1>5, StateOK DEF FilterStates
<1>7. Coming(State', filterDocument', wanted')
  BY <1>2, <1>5 DEF Coming
<1>9. acts' \in 0 .. MaxActs
  BY <1>0, FilterAssumption DEF FilterIInv
<1> QED  BY <1>0, <1>3, <1>6, <1>7, <1>9 DEF FilterIInv

LEMMA SettleKeeps ==
    ASSUME FilterIInv, NEW revision \in element.waiting, Settle(revision)
    PROVE  FilterIInv'
<1>0. /\ router.fetching # NoNavigation => router.fetching.revision # revision
      /\ element' = [element EXCEPT !.waiting = @ \ {revision},
                                    !.pending = @ /\ revision # element.revision]
      /\ history' = history /\ filterDocument' = filterDocument /\ router' = router
      /\ acts' = acts /\ wanted' = wanted
  BY DEF Settle
<1>1. /\ element' \in Elements /\ element'.live = element.live /\ element'.view = element.view
      /\ element'.revision = element.revision /\ element'.restored = element.restored
      /\ element'.pending <=> element.pending /\ revision # element.revision
  <2> DEFINE still == element.pending /\ revision # element.revision
  <2>1. still \in BOOLEAN /\ element' = [element EXCEPT !.waiting = @ \ {revision}, !.pending = still]
    BY <1>0
  <2> HIDE DEF still
  <2>2. element'.pending = still /\ element' \in Elements
        /\ element'.live = element.live /\ element'.view = element.view
        /\ element'.revision = element.revision /\ element'.restored = element.restored
    BY <2>1, StateOK DEF Elements
  <2> QED  BY <2>2 DEF still
<1>2. State' = [history |-> history, element |-> element', fetching |-> router.fetching]
  BY <1>0 DEF State
<1>3. State' \in FilterStates
  BY <1>1, <1>2, StateOK DEF FilterStates
<1>4. Coming(State', filterDocument', wanted')
  <2>1. Coming(State, filterDocument, wanted)
    BY DEF FilterIInv
  <2> QED  BY <1>0, <1>1, <1>2, <2>1, StateOK DEF Coming, OwnNavigation
<1>5. Connected(element', filterDocument', router'.loading)
  BY <1>0, <1>1 DEF FilterIInv, Connected
<1> QED  BY <1>0, <1>3, <1>4, <1>5 DEF FilterIInv

LEMMA LandKeeps ==
    ASSUME FilterIInv, Land
    PROVE  /\ FilterIInv'
           /\ router.fetching.kind = "traverse" => KeepsPlace(history, history')
           /\ router'.fetching = NoNavigation \/ router'.fetching.kind = "replace"
<1> DEFINE n == router.fetching
           from == [page |-> filterDocument.page, extra |-> filterDocument.extra]
           s == [State EXCEPT !.fetching = NoNavigation]
           m == MoveToLocation(s, n)
           local == IsLocalSwap(s, from, n)
<1>0. /\ n # NoNavigation
      /\ wanted' = IF n.kind = "push" /\ ~n.info THEN Read(n.to.query) ELSE wanted
      /\ acts' = acts
      /\ \/ local /\ FilterBecome(AfterSwap(m, TRUE, n), TRUE) /\ filterDocument' = filterDocument
         \/ /\ ~local
            /\ \E live \in IF n.to.page = "browse" THEN BOOLEAN ELSE {FALSE} :
                 /\ FilterBecome(AfterSwap([m EXCEPT !.element = NewElement(live)], FALSE, n), TRUE)
                 /\ filterDocument' = [page |-> n.to.page, extra |-> n.to.extra]
  BY DEF Land
<1>1. /\ s \in FilterStates /\ s.history = history /\ s.element = element
      /\ s.fetching = NoNavigation
  BY StateOK DEF FilterStates, Navigations
<1>2. /\ n.kind \in {"push", "replace", "traverse"} /\ n.to \in FilterUrls
      /\ n.info \in BOOLEAN
  BY <1>0, StateOK, NavigationKinds
<1>3. /\ n.info => OwnNavigation(State, n, wanted)
      /\ n.kind = "traverse" => /\ ~n.info /\ Place(n.to) = Place(Location(history))
                                /\ Read(Location(history).query) = wanted
      /\ n.kind = "replace" => n.info
      /\ n.info => n.to.page = "browse"
  BY <1>0, StateOK, ComingOwn DEF FilterIInv
<1>4. /\ m \in FilterStates /\ m.element = element /\ m.fetching = NoNavigation
      /\ OthersUnowned(m.history) /\ Place(Location(m.history)) = Place(n.to)
      /\ n.kind = "traverse" => m = s
      /\ n.kind # "traverse" => Location(m.history) = n.to
  <2> HIDE DEF s, n
  <2>1. /\ n \in Navigations /\ OthersUnowned(s.history)
        /\ n.kind = "traverse" => Place(n.to) = Place(Location(s.history))
    BY <1>1, <1>3, StateOK DEF n
  <2> QED  BY <1>0, <1>1, <1>3, <2>1, MoveToLocationDoes
<1>5. /\ n.info => n.to.query = element.view /\ element.view = wanted
      /\ Read(element.view) = element.view
  BY <1>3, StateOK, FilterAssumption DEF OwnNavigation, Read
<1>6. Read(Location(m.history).query) = wanted'
  BY <1>0, <1>1, <1>2, <1>3, <1>4, <1>5
<1>7. acts' \in 0 .. MaxActs
  BY <1>0 DEF FilterIInv
<1>8. CASE local
  <2> DEFINE noted == [m EXCEPT !.element.restored = m.element.live]
             t == AfterSwap(m, TRUE, n)
  <2>1. /\ element.live /\ n.to.page = "browse" /\ filterDocument.page = n.to.page
        /\ filterDocument.extra = n.to.extra /\ (n.info \/ n.kind = "traverse")
    BY <1>1, <1>8 DEF IsLocalSwap, IsFilterNavigation
  <2>2. FilterBecome(t, TRUE) /\ filterDocument' = filterDocument
    BY <1>0, <1>8
  <2>3. /\ noted \in FilterStates /\ noted.history = m.history /\ noted.fetching = NoNavigation
        /\ noted.element = [element EXCEPT !.restored = element.live]
    BY <1>4, StateOK DEF FilterStates, Elements
  <2>4. /\ noted.element.view = element.view /\ noted.element.live /\ noted.element.restored
        /\ noted.element.pending = element.pending
        /\ noted.element.revision = element.revision
    BY <2>1, <2>3, StateOK DEF Elements
  <2>5. filterDocument = Place(Location(m.history)) /\ Location(m.history).page = "browse"
    <3>1. filterDocument = [page |-> filterDocument.page, extra |-> filterDocument.extra]
      BY DEF FilterIInv, Documents
    <3>2. Place(Location(m.history)) = [page |-> n.to.page, extra |-> n.to.extra]
      BY <1>4 DEF Place
    <3>3. Location(m.history).page = n.to.page
      BY <1>4 DEF Place
    <3> QED  BY <2>1, <3>1, <3>2, <3>3
  <2> HIDE DEF noted, m
  <2>6. CASE n.kind # "traverse"
    <3>1. t = MarkEntry(noted)
      BY <2>6 DEF AfterSwap, noted
    <3>2. /\ t \in FilterStates /\ t.element = noted.element /\ t.fetching = NoNavigation
          /\ KeepsPlace(m.history, t.history)
          /\ Location(t.history) = Location(m.history) /\ Here(t.history).owned
      BY <2>3, <2>5, <3>1, MarkEntryDoes
    <3> HIDE DEF t
    <3>3. /\ State' = t /\ history' = t.history /\ element' = t.element
          /\ router'.loading = TRUE /\ router'.fetching = t.fetching
          /\ router' = [fetching |-> router'.fetching, loading |-> router'.loading]
      BY <2>2, <3>2, FilterBecomeDoes
    <3>4. Connected(element', filterDocument', router'.loading)
      BY <2>1, <2>2, <2>4, <3>2, <3>3 DEF Connected
    <3>5. Read(Location(t.history).query) = t.element.view
      BY <1>0, <1>4, <1>5, <1>6, <2>1, <2>4, <2>6, <3>2
    <3>6. Coming(State', filterDocument', wanted')
      BY <1>6, <2>2, <2>5, <3>2, <3>3, <3>5 DEF Coming
    <3>7. OthersUnowned(history')
      BY <1>4, <3>2, <3>3 DEF KeepsPlace
    <3> QED  BY <1>7, <2>2, <2>6, <3>2, <3>3, <3>4, <3>6, <3>7 DEF FilterIInv
  <2>7. CASE n.kind = "traverse"
    <3>1. t = RestoreCurrent(noted)
      BY <2>7 DEF AfterSwap, noted
    <3>2. t \in FilterStates /\ ShowsAddress(noted, t)
      BY <2>3, <2>4, <2>5, <3>1, RestoreCurrentDoes
    <3> HIDE DEF t
    <3>3. /\ State' = t /\ history' = t.history /\ element' = t.element
          /\ router'.loading = TRUE /\ router'.fetching = t.fetching
          /\ router' = [fetching |-> router'.fetching, loading |-> router'.loading]
      BY <2>2, <3>2, FilterBecomeDoes
    <3>4. Connected(element', filterDocument', router'.loading)
      BY <2>1, <2>2, <2>4, <3>2, <3>3 DEF Connected, ShowsAddress
    <3>5. /\ Read(Location(t.history).query) = wanted' /\ t.element.view = wanted'
          /\ Place(Location(t.history)) = filterDocument' /\ Here(t.history).owned
      BY <1>6, <2>2, <2>3, <2>5, <3>2 DEF ShowsAddress, KeepsPlace
    <3>6. Location(t.history).page = "browse" /\ t.element.view \in Queries
          /\ Location(t.history) \in FilterUrls
      BY <2>1, <2>2, <3>2, <3>5, StateFields, HistoryFacts DEF Place, Elements
    <3>7. Coming(State', filterDocument', wanted')
      <4>1. CASE t.fetching = NoNavigation
        BY <3>3, <3>5, <4>1 DEF Coming
      <4>2. CASE /\ t.element.pending
                 /\ t.fetching = [kind |-> "replace",
                                  to |-> [Location(t.history) EXCEPT !.query = t.element.view],
                                  info |-> TRUE, revision |-> t.element.revision]
        <5>1. /\ t.fetching.kind = "replace" /\ t.fetching.info
              /\ t.fetching.revision = t.element.revision
              /\ t.fetching.to = [Location(t.history) EXCEPT !.query = t.element.view]
          BY <4>2
        <5>2. t.fetching.to.page = "browse" /\ t.fetching.to.query = t.element.view
          BY <3>6, <5>1, FilterUrlKinds
        <5>3. t.fetching # NoNavigation /\ t.element.live
          BY <3>2, <5>1 DEF NoNavigation, ShowsAddress
        <5>4. OwnNavigation(t, t.fetching, wanted')
          BY <3>5, <3>6, <4>2, <5>1, <5>2, <5>3 DEF OwnNavigation
        <5> QED  BY <3>3, <5>3, <5>4 DEF Coming
      <4> QED  BY <2>3, <3>2, <4>1, <4>2 DEF ShowsAddress
    <3>8. OthersUnowned(history')
      BY <1>4, <2>3, <3>2, <3>3 DEF KeepsPlace, ShowsAddress
    <3>9. KeepsPlace(history, history')
      BY <1>1, <1>4, <2>3, <2>7, <3>2, <3>3 DEF ShowsAddress
    <3>10. router'.fetching = NoNavigation \/ router'.fetching.kind = "replace"
      BY <2>3, <3>2, <3>3 DEF ShowsAddress
    <3> QED  BY <1>7, <2>2, <3>2, <3>3, <3>4, <3>7, <3>8, <3>9, <3>10 DEF FilterIInv
  <2> QED  BY <2>6, <2>7
<1>9. CASE ~local
  <2>1. PICK live \in IF n.to.page = "browse" THEN BOOLEAN ELSE {FALSE} :
          /\ FilterBecome(AfterSwap([m EXCEPT !.element = NewElement(live)], FALSE, n), TRUE)
          /\ filterDocument' = [page |-> n.to.page, extra |-> n.to.extra]
    BY <1>0, <1>9
  <2> DEFINE fresh == [m EXCEPT !.element = NewElement(live)]
             noted == [fresh EXCEPT !.element.restored = fresh.element.live]
             t == AfterSwap(fresh, FALSE, n)
  <2>2. live \in BOOLEAN /\ (live => n.to.page = "browse")
    BY <2>1
  <2>3. t = RestoreCurrent(noted)
    BY DEF AfterSwap
  <2>4. /\ fresh \in FilterStates /\ fresh.history = m.history /\ fresh.fetching = NoNavigation
        /\ fresh.element = NewElement(live)
    BY <1>4, <2>2, NewElementDoes DEF FilterStates
  <2> HIDE DEF fresh
  <2>5. /\ noted \in FilterStates /\ noted.history = m.history /\ noted.fetching = NoNavigation
        /\ noted.element = [fresh.element EXCEPT !.restored = fresh.element.live]
    BY <2>4 DEF FilterStates, Elements
  <2>6. /\ noted.element.live <=> live
        /\ noted.element.restored <=> live
        /\ ~noted.element.pending
    BY <2>2, <2>4, <2>5, NewElementDoes DEF Elements
  <2>7. /\ filterDocument' = Place(n.to) /\ filterDocument' = Place(Location(m.history))
        /\ filterDocument' \in Documents /\ filterDocument'.page = n.to.page
        /\ Location(m.history).page = n.to.page
    <3>1. filterDocument' = Place(n.to) /\ filterDocument'.page = n.to.page
      BY <2>1 DEF Place
    <3>2. Location(m.history).page = n.to.page
      BY <1>4 DEF Place
    <3> QED  BY <1>2, <1>4, <3>1, <3>2, FilterUrlKinds
  <2> HIDE DEF noted, m
  <2>8. t \in FilterStates
    BY <2>3, <2>5, RestoreCurrentDoes
  <2>9. live => ShowsAddress(noted, t)
    BY <2>2, <2>3, <2>5, <2>6, <2>7, RestoreCurrentDoes
  <2>10. ~live => t = noted
    BY <2>3, <2>5, <2>6, RestoreCurrentDoes
  <2>11. FilterBecome(t, TRUE)
    BY <2>1 DEF fresh
  <2> HIDE DEF t
  <2>12. /\ State' = t /\ history' = t.history /\ element' = t.element
         /\ router'.loading = TRUE /\ router'.fetching = t.fetching
         /\ router' = [fetching |-> router'.fetching, loading |-> router'.loading]
    BY <2>8, <2>11, FilterBecomeDoes
  <2>13. /\ t.fetching = NoNavigation /\ ~t.element.pending
         /\ t.element.live <=> live
         /\ t.element.restored <=> live
    BY <2>5, <2>6, <2>9, <2>10 DEF ShowsAddress
  <2>14. /\ Read(Location(t.history).query) = wanted'
         /\ Place(Location(t.history)) = filterDocument' /\ OthersUnowned(t.history)
         /\ live => t.element.view = wanted' /\ Here(t.history).owned
    BY <1>4, <1>6, <2>5, <2>7, <2>9, <2>10 DEF ShowsAddress, KeepsPlace
  <2>15. Connected(element', filterDocument', router'.loading)
    BY <2>2, <2>7, <2>12, <2>13 DEF Connected
  <2>16. Coming(State', filterDocument', wanted')
    BY <2>12, <2>13, <2>14 DEF Coming
  <2>17. n.kind = "traverse" => KeepsPlace(history, history')
    <3>1. n.kind = "traverse" => m.history = history
      BY <1>1, <1>4
    <3>2. KeepsPlace(m.history, m.history)
      BY DEF KeepsPlace
    <3> QED  BY <2>5, <2>9, <2>10, <2>12, <3>1, <3>2 DEF ShowsAddress
  <2> QED  BY <1>7, <2>7, <2>8, <2>12, <2>13, <2>14, <2>15, <2>16, <2>17 DEF FilterIInv
<1> QED  BY <1>8, <1>9

LEMMA FilterPageLoadKeeps ==
    ASSUME FilterIInv, FilterPageLoad
    PROVE  FilterIInv' /\ KeepsPlace(history, history') /\ router'.fetching = router.fetching
<1> DEFINE live == filterDocument.page = "browse"
           s == [State EXCEPT !.element.live = live]
           r == IF s.element.restored THEN s ELSE RestoreCurrent(s)
           t == [r EXCEPT !.element.restored = FALSE]
<1>0. /\ router.loading /\ FilterBecome(t, FALSE)
      /\ filterDocument' = filterDocument /\ acts' = acts /\ wanted' = wanted
  BY DEF FilterPageLoad
<1>1. /\ s \in FilterStates /\ s.history = history /\ s.fetching = router.fetching
      /\ s.element = [element EXCEPT !.live = live]
  <2>1. live \in BOOLEAN
    OBVIOUS
  <2> HIDE DEF live
  <2> QED  BY <2>1, StateOK DEF FilterStates, Elements
<1>2. /\ s.element.live <=> live
      /\ s.element.view = element.view
      /\ s.element.pending <=> element.pending
      /\ s.element.restored <=> element.restored
      /\ s.element.revision = element.revision
  BY <1>1, StateOK, ZenonT(60) DEF Elements
<1>3. /\ element.live => live
      /\ element.pending => element.live
      /\ element.restored => element.live
      /\ ~element.restored => ~element.live
  BY <1>0 DEF FilterIInv, Connected
<1> HIDE DEF s
<1>4. /\ r \in FilterStates /\ r.element.live = s.element.live
      /\ r.element.pending = s.element.pending /\ r.element.revision = s.element.revision
      /\ r.fetching = router.fetching /\ OthersUnowned(r.history) /\ KeepsPlace(history, r.history)
      /\ Place(Location(r.history)) = Place(Location(history))
      /\ Read(Location(r.history).query) = Read(Location(history).query)
      /\ element.restored => r = s
      /\ ~element.restored /\ live /\ Location(history).page = "browse" =>
           r.element.view = Read(Location(history).query) /\ Here(r.history).owned
  <2>1. CASE element.restored
    BY <1>1, <1>2, <2>1, StateOK DEF KeepsPlace
  <2>2. CASE ~element.restored
    <3>1. r = RestoreCurrent(s)
      BY <1>2, <2>2
    <3>2. CASE live /\ Location(history).page = "browse"
      <4>1. r \in FilterStates /\ ShowsAddress(s, r)
        BY <1>1, <1>2, <3>1, <3>2, RestoreCurrentDoes
      <4>2. /\ r.fetching = s.fetching /\ r.element.pending = s.element.pending
            /\ r.element.revision = s.element.revision
        BY <1>2, <1>3, <2>2, <4>1 DEF ShowsAddress
      <4> HIDE DEF r
      <4>3. r.element.live = s.element.live
        <5>1. s.element.live \in BOOLEAN /\ r.element.live \in BOOLEAN
          BY <1>1, <4>1, StateFields DEF Elements
        <5>2. s.element.live /\ r.element.live
          BY <1>2, <3>2, <4>1 DEF ShowsAddress
        <5> QED  BY <5>1, <5>2
      <4> QED  BY <1>1, <2>2, <4>1, <4>2, <4>3, StateOK DEF ShowsAddress, KeepsPlace
    <3>3. CASE ~(live /\ Location(history).page = "browse")
      <4>1. r = s
        BY <1>1, <1>2, <3>1, <3>3, RestoreCurrentDoes
      <4> QED  BY <1>1, <2>2, <3>3, <4>1, StateOK DEF KeepsPlace
    <3> QED  BY <3>2, <3>3
  <2> QED  BY <2>1, <2>2
<1> HIDE DEF r
<1>5. /\ t \in FilterStates /\ t.history = r.history /\ t.fetching = router.fetching
      /\ t.element.live = r.element.live /\ t.element.view = r.element.view
      /\ t.element.pending = r.element.pending /\ t.element.revision = r.element.revision
      /\ ~t.element.restored
  BY <1>4 DEF FilterStates, Elements
<1> HIDE DEF t
<1>6. /\ State' = t /\ history' = t.history /\ element' = t.element
      /\ router'.loading = FALSE /\ router'.fetching = t.fetching
      /\ router' = [fetching |-> router'.fetching, loading |-> router'.loading]
  BY <1>0, <1>5, FilterBecomeDoes
<1>7. Connected(element', filterDocument', router'.loading)
  BY <1>0, <1>2, <1>3, <1>4, <1>5, <1>6 DEF Connected
<1>8. Coming(State', filterDocument', wanted')
  <2>1. Coming(State, filterDocument, wanted)
    BY DEF FilterIInv
  <2>2. CASE element.restored
    <3>1. t.history = history /\ t.element.view = element.view
      BY <1>1, <1>2, <1>4, <1>5, <2>2
    <3>2. t.element.live /\ element.live /\ (t.element.pending <=> element.pending)
      BY <1>2, <1>3, <1>4, <1>5, <2>2
    <3>3. t.element.revision = element.revision
      BY <1>2, <1>4, <1>5
    <3> QED  BY <1>0, <1>5, <1>6, <2>1, <3>1, <3>2, <3>3, StateOK DEF Coming, OwnNavigation
  <2>3. CASE ~element.restored
    <3>1. router.fetching # NoNavigation => ~OwnNavigation(State, router.fetching, wanted)
      BY <1>3, <2>3, StateOK DEF OwnNavigation
    <3>2. CASE router.fetching = NoNavigation
      <4>1. filterDocument = Place(Location(history)) /\ Read(Location(history).query) = wanted
        BY <2>1, <3>2, StateOK DEF Coming, OwnNavigation
      <4>2. live => Location(history).page = "browse"
        BY <4>1 DEF Place
      <4>3. t.element.live => live
        BY <1>2, <1>4, <1>5
      <4> QED  BY <1>0, <1>4, <1>5, <1>6, <2>3, <3>2, <4>1, <4>2, <4>3 DEF Coming
    <3>3. CASE router.fetching # NoNavigation
      BY <1>0, <1>4, <1>5, <1>6, <2>1, <3>1, <3>3, StateOK DEF Coming
    <3> QED  BY <3>2, <3>3
  <2> QED  BY <2>2, <2>3
<1> QED  BY <1>0, <1>4, <1>5, <1>6, <1>7, <1>8 DEF FilterIInv

LEMMA FilterStepKeeps == FilterIInv /\ [FilterNext]_filterVars => FilterIInv'
<1> SUFFICES ASSUME FilterIInv, [FilterNext]_filterVars PROVE FilterIInv'
  OBVIOUS
<1>1. ASSUME NEW view \in Queries, NEW replace \in BOOLEAN, Choose(view, replace)
      PROVE  FilterIInv'
  BY <1>1, ChooseKeeps
<1>2. ASSUME NEW index \in DOMAIN history.entries, Traverse(index) PROVE FilterIInv'
  BY <1>2, TraverseKeeps
<1>3. ASSUME NEW extra \in Extras, NEW query \in Queries \union Stale, Follow(Browse(extra, query))
      PROVE  FilterIInv'
  BY <1>3, FollowKeeps DEF FilterUrls
<1>4. ASSUME NEW extra \in Extras, Follow(Other(extra)) PROVE FilterIInv'
  BY <1>4, FollowKeeps DEF FilterUrls
<1>5. CASE Land
  BY <1>5, LandKeeps
<1>6. CASE FilterPageLoad
  BY <1>6, FilterPageLoadKeeps
<1>7. ASSUME NEW revision \in element.waiting, Settle(revision) PROVE FilterIInv'
  BY <1>7, SettleKeeps
<1>8. CASE UNCHANGED filterVars
  BY <1>8 DEF filterVars, FilterIInv, State, Coming, OwnNavigation, Connected, OthersUnowned,
              Location, Here, Place
<1> QED  BY <1>1, <1>2, <1>3, <1>4, <1>5, <1>6, <1>7, <1>8 DEF FilterNext

LEMMA FilterIInvSafe == FilterIInv => FilterSafe
<1> SUFFICES ASSUME FilterIInv PROVE FilterSafe
  OBVIOUS
<1>1. Coming(State, filterDocument, wanted) /\ Connected(element, filterDocument, router.loading)
  BY DEF FilterIInv
<1>2. Quiet => router.fetching = NoNavigation /\ router.loading = FALSE
  BY DEF Quiet
<1>3. FilterTypeOK
  BY <1>1, StateOK DEF FilterTypeOK, FilterIInv, Connected, Elements
<1>4. Quiet => /\ filterDocument = Place(Location(history)) /\ Read(Location(history).query) = wanted
               /\ element.live =>
                    Read(Location(history).query) = element.view /\ Here(history).owned
  BY <1>1, <1>2, StateOK DEF Coming
<1>5. OtherPagesUntouched
  <2> SUFFICES ASSUME NEW i \in DOMAIN history.entries, history.entries[i].url.page = "other"
               PROVE  history.entries[i] = [url |-> Other(history.entries[i].url.extra),
                                            owned |-> FALSE]
    BY DEF OtherPagesUntouched
  <2>1. history.entries[i] \in FilterEntries /\ ~history.entries[i].owned
    BY StateOK, HistoryFacts DEF OthersUnowned
  <2>2. history.entries[i].url = Other(history.entries[i].url.extra)
    BY <2>1, FilterUrlKinds DEF FilterEntries
  <2> QED  BY <2>1, <2>2 DEF FilterEntries
<1> QED  BY <1>3, <1>4, <1>5 DEF FilterSafe, AddressShowsFilters, DocumentOfAddress, LastWishShown, Place

(* Whatever the visitor does while pages are fetched, and whatever of it   *)
(* is overtaken: in the end filters, address and document agree, on what   *)
(* was asked for last, and no other page is written to                     *)
(* (filter-history.ts).                                                    *)
THEOREM FiltersAreSafe == SafeSpec => []FilterSafe
<1>1. FilterInit => FilterIInv
  BY FilterInitOK
<1> QED  BY <1>1, FilterStepKeeps, FilterIInvSafe, PTL DEF SafeSpec

(* Going back, or forward, loses no entry and touches none but the one it  *)
(* leads to, and a page that restores its filters adds none of its own     *)
(* accord (restore: "without adding a history entry").                     *)
THEOREM ReturningKeepsHistory == SafeSpec => TraversalKeepsHistory
<1> DEFINE Keeps ==
      acts' = acts =>
         /\ router.fetching # NoNavigation /\ router.fetching.kind = "traverse" =>
              /\ Len(history'.entries) = Len(history.entries)
              /\ \A i \in DOMAIN history.entries \ {history.index} :
                   history'.entries[i] = history.entries[i]
         /\ router'.fetching \notin {router.fetching, NoNavigation} =>
              router'.fetching.kind = "replace"
<1>1. FilterInit => FilterIInv
  BY FilterInitOK
<1>2. FilterIInv /\ [FilterNext]_filterVars => [Keeps]_filterVars
  <2> SUFFICES ASSUME FilterIInv, FilterNext, acts' = acts PROVE Keeps
    OBVIOUS
  <2>1. acts \in Nat
    BY FilterAssumption DEF FilterIInv
  <2>2. CASE Land
    BY <2>2, LandKeeps DEF KeepsPlace
  <2>3. CASE FilterPageLoad
    BY <2>3, FilterPageLoadKeeps DEF KeepsPlace
  <2>4. ASSUME NEW revision \in element.waiting, Settle(revision) PROVE Keeps
    BY <2>4 DEF Settle
  <2>5. ~Act
    BY <2>1 DEF Act
  <2>6. ASSUME NEW view \in Queries, NEW replace \in BOOLEAN, Choose(view, replace) PROVE FALSE
    BY <2>5, <2>6 DEF Choose
  <2>7. ASSUME NEW index \in DOMAIN history.entries, Traverse(index) PROVE FALSE
    BY <2>5, <2>7 DEF Traverse
  <2>8. ASSUME NEW url, Follow(url) PROVE FALSE
    BY <2>5, <2>8 DEF Follow
  <2> QED  BY <2>2, <2>3, <2>4, <2>6, <2>7, <2>8 DEF FilterNext
<1>3. [][Keeps]_filterVars => TraversalKeepsHistory
  BY PTL DEF TraversalKeepsHistory
<1> QED  BY <1>1, <1>2, <1>3, FilterStepKeeps, PTL DEF SafeSpec

-----------------------------------------------------------------------------
(* SitePages, the search of the resources.  A state of the search and an   *)
(* address are written into each other; what is found has an order, and    *)
(* the pages cut it into pieces; what is shown follows from the state.     *)

AllValues == UNION {ResourceFacets[name] : name \in FacetNames}

BrowseStates ==
    [q : ResourceQueries, facets : [FacetNames -> SUBSET AllValues], sort : {"newest", "oldest"},
     titleSort : {"asc", "desc"}, page : Nat \ {0}]

BrowseOK(s) == s \in BrowseStates /\ \A name \in FacetNames : s.facets[name] \subseteq ResourceFacets[name]

UrlStates ==
    [q : ResourceQueries, facets : [FacetNames -> SUBSET (STRING \cup AllValues)],
     sort : STRING \cup {Absent, "oldest"}, title : STRING \cup {Absent, "desc"}, page : Nat,
     provider : STRING \cup {Absent}, extra : STRING]

\* States of the search with the same parts are the same.
LEMMA SameState ==
    ASSUME NEW s \in BrowseStates, NEW t \in BrowseStates, s.q = t.q, s.facets = t.facets, s.sort = t.sort,
           s.titleSort = t.titleSort, s.page = t.page
    PROVE  s = t
BY DEF BrowseStates

\* Addresses with the same parts are the same.
LEMMA SameUrl ==
    ASSUME NEW s \in UrlStates, NEW t \in UrlStates, s.q = t.q, s.facets = t.facets, s.sort = t.sort,
           s.title = t.title, s.page = t.page, s.provider = t.provider, s.extra = t.extra
    PROVE  s = t
BY DEF UrlStates

\* Whatever an address asks for is read as a state of the search (readBrowseState).
LEMMA ReadDoes ==
    ASSUME NEW params \in UrlStates
    PROVE  BrowseOK(ReadBrowseState(params))
<1>1. [name \in FacetNames |-> params.facets[name] \intersect ResourceFacets[name]] \in [FacetNames -> SUBSET AllValues]
  BY DEF AllValues
<1>2. params.q \in ResourceQueries /\ params.page \in Nat
  BY DEF UrlStates
<1> QED  BY <1>1, <1>2 DEF BrowseOK, BrowseStates, ReadBrowseState

\* What is written into an address (writeBrowseState).
LEMMA WriteBrowseDoes ==
    ASSUME NEW params \in UrlStates, NEW s, BrowseOK(s)
    PROVE  LET url == WriteBrowseState(params, s) IN
           /\ url \in UrlStates
           /\ url.q = Trim(s.q) /\ url.facets = s.facets
           /\ url.sort = (IF s.sort # "newest" THEN s.sort ELSE Absent)
           /\ url.title = (IF s.titleSort # "asc" THEN s.titleSort ELSE Absent)
           /\ url.page = (IF s.page > 1 THEN s.page ELSE 0)
           /\ url.provider = Absent /\ url.extra = params.extra
<1>1. Trim(s.q) \in ResourceQueries /\ s.facets \in [FacetNames -> SUBSET (STRING \cup AllValues)]
  BY DEF BrowseOK, BrowseStates, ResourceQueries, Trim
<1> QED  BY <1>1 DEF BrowseOK, BrowseStates, UrlStates, WriteBrowseState

\* What is written is read again, without the spaces around the words, and written alike.
LEMMA ReadWritten ==
    ASSUME NEW params \in UrlStates, NEW s, BrowseOK(s)
    PROVE  LET url == WriteBrowseState(params, s)
               again == ReadBrowseState(url)
           IN  /\ again = [s EXCEPT !.q = Trim(@)]
               /\ WriteBrowseState(url, again) = url
<1> DEFINE url == WriteBrowseState(params, s)
           again == ReadBrowseState(url)
           trimmed == [s EXCEPT !.q = Trim(@)]
           twice == WriteBrowseState(url, again)
<1>1. BrowseOK(trimmed) /\ trimmed.q = Trim(s.q) /\ trimmed.facets = s.facets /\ trimmed.sort = s.sort
      /\ trimmed.titleSort = s.titleSort /\ trimmed.page = s.page
  BY DEF BrowseOK, BrowseStates, ResourceQueries, Trim
<1>2. url \in UrlStates /\ url.q = Trim(s.q) /\ url.facets = s.facets
      /\ url.sort = (IF s.sort # "newest" THEN s.sort ELSE Absent)
      /\ url.title = (IF s.titleSort # "asc" THEN s.titleSort ELSE Absent)
      /\ url.page = (IF s.page > 1 THEN s.page ELSE 0)
      /\ url.provider = Absent
  BY WriteBrowseDoes
<1> HIDE DEF url, trimmed
<1>3. BrowseOK(again)
  BY <1>2, ReadDoes
<1>4. again.q = Trim(s.q) /\ again.sort = s.sort /\ again.titleSort = s.titleSort /\ again.page = s.page
  BY <1>2 DEF ReadBrowseState, BrowseOK, BrowseStates, Absent
<1>5. again.facets = s.facets
  <2>1. again.facets = [name \in FacetNames |-> url.facets[name] \intersect ResourceFacets[name]]
    BY DEF ReadBrowseState
  <2>2. s.facets \in [FacetNames -> SUBSET AllValues] /\ \A name \in FacetNames : s.facets[name] \subseteq ResourceFacets[name]
    BY DEF BrowseOK, BrowseStates
  <2> QED  BY <1>2, <2>1, <2>2
<1> HIDE DEF again
<1>6. again = trimmed
  BY <1>1, <1>3, <1>4, <1>5, SameState DEF BrowseOK
<1>7. Trim(Trim(s.q)) = Trim(s.q)
  BY DEF Trim, BrowseOK, BrowseStates, ResourceQueries
<1>8. twice = url
  <2>1. /\ twice \in UrlStates /\ twice.q = Trim(again.q) /\ twice.facets = again.facets
        /\ twice.sort = (IF again.sort # "newest" THEN again.sort ELSE Absent)
        /\ twice.title = (IF again.titleSort # "asc" THEN again.titleSort ELSE Absent)
        /\ twice.page = (IF again.page > 1 THEN again.page ELSE 0)
        /\ twice.provider = Absent /\ twice.extra = url.extra
    BY <1>2, <1>3, WriteBrowseDoes
  <2> HIDE DEF twice
  <2> QED  BY <1>2, <1>4, <1>5, <1>7, <2>1, SameUrl
<1> QED  BY <1>6, <1>8 DEF again, trimmed, url

Preceding(s, e) == {other \in Found(s) : Before(s, other, e)}

RankIn(s, e) == 1 + Cardinality(Preceding(s, e))

\* The order of the results is a strict and total one.
LEMMA BeforeOrders ==
    ASSUME NEW s, NEW a \in Resources, NEW b \in Resources
    PROVE  /\ ~Before(s, a, a)
           /\ a # b => Before(s, a, b) \/ Before(s, b, a)
           /\ \A c \in Resources : Before(s, a, b) /\ Before(s, b, c) => Before(s, a, c)
<1>1. \A r \in Resources : r.date \in Nat /\ r.title \in Int /\ r.id \in Int
  BY ResourcesAssumption
<1>2. \A p, q \in Resources : p.id = q.id => p = q
  BY ResourcesAssumption
<1>3. ~Before(s, a, a)
  BY <1>1 DEF Before
<1>4. a # b => Before(s, a, b) \/ Before(s, b, a)
  BY <1>1, <1>2 DEF Before
<1>5. ASSUME NEW c \in Resources, Before(s, a, b), Before(s, b, c) PROVE Before(s, a, c)
  BY <1>1, <1>2, <1>5 DEF Before
<1> QED  BY <1>3, <1>4, <1>5

\* What is found is counted.
LEMMA FoundIsFinite ==
    ASSUME NEW s
    PROVE  /\ IsFiniteSet(Found(s)) /\ Cardinality(Found(s)) \in Nat
           /\ Found(s) \subseteq Resources
<1>1. Found(s) \in SUBSET Resources
  BY DEF Found
<1>2. IsFiniteSet(Found(s))
  BY <1>1, FS_Subset, ResourcesAssumption
<1> QED  BY <1>1, <1>2, FS_CardinalityType

\* What is found has the places from the first to the last, each for one.
LEMMA RanksAre ==
    ASSUME NEW s
    PROVE  /\ \A e \in Found(s) : RankIn(s, e) \in 1 .. Cardinality(Found(s))
           /\ \A a, b \in Found(s) : RankIn(s, a) < RankIn(s, b) <=> Before(s, a, b)
           /\ \A i \in 1 .. Cardinality(Found(s)) : \E e \in Found(s) : RankIn(s, e) = i
<1> DEFINE N == Cardinality(Found(s))
           P == [e \in Found(s) |-> RankIn(s, e)]
<1>1. /\ IsFiniteSet(Found(s)) /\ N \in Nat /\ Found(s) \subseteq Resources
  BY FoundIsFinite
<1>2. ASSUME NEW e \in Found(s)
      PROVE  /\ IsFiniteSet(Preceding(s, e)) /\ Cardinality(Preceding(s, e)) \in Nat
             /\ RankIn(s, e) \in 1 .. N
  <2>1. e \notin Preceding(s, e)
    BY <1>1, BeforeOrders DEF Preceding
  <2>2. Preceding(s, e) \in SUBSET Found(s)
    BY DEF Preceding
  <2>3. IsFiniteSet(Preceding(s, e)) /\ Cardinality(Preceding(s, e)) <= N
        /\ (N = Cardinality(Preceding(s, e)) => Found(s) = Preceding(s, e))
    BY <1>1, <2>2, FS_Subset
  <2>4. Cardinality(Preceding(s, e)) \in Nat
    BY <2>3, FS_CardinalityType
  <2>5. N # Cardinality(Preceding(s, e))
    BY <2>1, <2>3
  <2> HIDE DEF N
  <2> QED  BY <1>1, <2>3, <2>4, <2>5 DEF RankIn
<1>3. ASSUME NEW a \in Found(s), NEW b \in Found(s), Before(s, a, b)
      PROVE  RankIn(s, a) < RankIn(s, b)
  <2>1. Preceding(s, a) \cup {a} \in SUBSET Preceding(s, b)
    BY <1>1, <1>3, BeforeOrders DEF Preceding
  <2>2. a \notin Preceding(s, a)
    BY <1>1, BeforeOrders DEF Preceding
  <2>3. Cardinality(Preceding(s, a) \cup {a}) = Cardinality(Preceding(s, a)) + 1
    BY <1>2, <2>2, FS_AddElement
  <2>4. Cardinality(Preceding(s, a) \cup {a}) <= Cardinality(Preceding(s, b))
    BY <1>2, <2>1, FS_Subset
  <2> QED  BY <1>2, <2>3, <2>4 DEF RankIn
<1>4. ASSUME NEW a \in Found(s), NEW b \in Found(s)
      PROVE  RankIn(s, a) < RankIn(s, b) <=> Before(s, a, b)
  <2>1. CASE Before(s, a, b)
    BY <1>3, <2>1
  <2>2. CASE a = b
    BY <1>1, <1>2, <2>2, BeforeOrders
  <2>3. CASE Before(s, b, a)
    <3>1. ~Before(s, a, b)
      BY <1>1, <2>3, BeforeOrders
    <3>2. RankIn(s, b) < RankIn(s, a)
      BY <1>3, <2>3
    <3> QED  BY <1>2, <3>1, <3>2
  <2> QED  BY <1>1, <2>1, <2>2, <2>3, BeforeOrders
<1>5. P \in Injection(Found(s), 1 .. N)
  <2>1. P \in [Found(s) -> 1 .. N]
    BY <1>2
  <2>2. ASSUME NEW a \in Found(s), NEW b \in Found(s), P[a] = P[b] PROVE a = b
    <3>1. RankIn(s, a) = RankIn(s, b) /\ RankIn(s, a) \in Int
      BY <1>2, <2>2
    <3>2. ~Before(s, a, b) /\ ~Before(s, b, a)
      BY <1>4, <3>1
    <3> QED  BY <1>1, <3>2, BeforeOrders
  <2>3. DOMAIN P = Found(s)
    OBVIOUS
  <2> HIDE DEF P, N
  <2> QED  BY <2>1, <2>2, <2>3 DEF Injection, IsInjective
<1>6. IsFiniteSet(1 .. N) /\ Cardinality(1 .. N) = N
  BY <1>1, FS_Interval
<1>7. P \in Surjection(Found(s), 1 .. N)
  BY <1>5, <1>6, FS_Injection
<1>8. \A i \in 1 .. N : \E e \in Found(s) : P[e] = i
  BY <1>7 DEF Surjection
<1> QED  BY <1>2, <1>4, <1>8

\* The results are what is found, in their order.
LEMMA FilterDoes ==
    ASSUME NEW s
    PROVE  LET F == FilterResources(s)
               N == Cardinality(Found(s))
           IN  /\ N \in Nat
               /\ F \in [1 .. N -> Found(s)] /\ F \in Seq(Resources) /\ Len(F) = N
               /\ \A i \in 1 .. N : RankIn(s, F[i]) = i
               /\ \A e \in Found(s) : \E i \in 1 .. N : F[i] = e
               /\ \A i, j \in 1 .. N : i < j => Before(s, F[i], F[j])
<1> DEFINE F == FilterResources(s)
           N == Cardinality(Found(s))
           At(i) == CHOOSE e \in Found(s) : RankIn(s, e) = i
<1>1. N \in Nat /\ Found(s) \subseteq Resources
  BY FoundIsFinite
<1>2. F = [i \in 1 .. N |-> At(i)]
  BY DEF FilterResources, RankIn, Preceding, Found
<1>3. \A i \in 1 .. N : At(i) \in Found(s) /\ RankIn(s, At(i)) = i
  BY RanksAre
<1> HIDE DEF F, N, At
<1>4. F \in [1 .. N -> Found(s)] /\ \A i \in 1 .. N : RankIn(s, F[i]) = i
  BY <1>2, <1>3
<1>5. F \in Seq(Resources)
  BY <1>1, <1>4, SeqDef
<1>6. Len(F) = N
  BY <1>1, <1>4, <1>5, LenProperties
<1>7. \A e \in Found(s) : \E i \in 1 .. N : F[i] = e
  <2>1. ASSUME NEW e \in Found(s) PROVE \E i \in 1 .. N : F[i] = e
    <3>1. RankIn(s, e) \in 1 .. N
      BY RanksAre DEF N
    <3> DEFINE i == RankIn(s, e)
    <3>2. F[i] \in Found(s) /\ RankIn(s, F[i]) = RankIn(s, e)
      BY <1>4, <3>1
    <3>3. ~Before(s, F[i], e) /\ ~Before(s, e, F[i])
      BY <3>1, <3>2, RanksAre
    <3>4. F[i] = e
      BY <1>1, <3>2, <3>3, BeforeOrders
    <3> QED  BY <3>1, <3>4
  <2> QED  BY <2>1
<1>8. \A i, j \in 1 .. N : i < j => Before(s, F[i], F[j])
  BY <1>1, <1>4, RanksAre
<1> QED  BY <1>1, <1>4, <1>5, <1>6, <1>7, <1>8 DEF F, N

\* A set of numbers that is not empty has a least one.
LEMMA LeastNumber ==
    ASSUME NEW T \in SUBSET Nat, T # {}
    PROVE  \E x \in T : \A y \in T : x <= y
<1> DEFINE R == OpToRel(<, Nat)
<1>1. IsWellFoundedOn(R, Nat)
  BY NatLessThanWellFounded
<1>2. \A y, x \in Nat : y < x => <<y, x>> \in R
  BY DEF OpToRel
<1> HIDE DEF R
<1>3. PICK x \in T : \A y \in T : ~ (<<y, x>> \in R)
  BY <1>1, WFMin
<1>4. ASSUME NEW y \in T PROVE x <= y
  <2>1. x \in Nat /\ y \in Nat /\ ~(<<y, x>> \in R)
    BY <1>3
  <2>2. ~(y < x)
    BY <1>2, <2>1
  <2> QED  BY <2>1, <2>2
<1> QED  BY <1>4

\* A sequence cut in consecutive parts is what the parts make together.
LEMMA PartsMakeAll ==
    ASSUME NEW S, NEW F \in Seq(S), NEW K \in Nat \ {0}, NEW cut \in [0 .. K -> 0 .. Len(F)],
           cut[0] = 0, cut[K] = Len(F), \A k \in 1 .. K : cut[k - 1] <= cut[k],
           NEW T, NEW parts \in [1 .. K -> T],
           \A k \in 1 .. K : parts[k] = SubSeq(F, cut[k - 1] + 1, cut[k])
    PROVE  FlattenSeq(parts) = F
<1> DEFINE Grown(f) == [i \in 1 .. K |-> IF i = 1 THEN parts[i] ELSE f[i - 1] \o parts[i]]
           G == [i \in 1 .. K |-> SubSeq(F, 1, cut[i])]
<1>0. Len(F) \in Nat /\ \A i \in 1 .. Len(F) : F[i] \in S
  BY LenProperties
<1>1. Len(parts) = K
  <2>1. parts \in Seq(T)
    BY SeqDef
  <2> QED  BY <2>1, LenProperties
<1>2. \A i \in 1 .. K : parts[i] = SubSeq(F, cut[i - 1] + 1, cut[i]) /\ G[i] = SubSeq(F, 1, cut[i])
  OBVIOUS
<1>3. \A i \in 1 .. K : G[i] = IF i = 1 THEN parts[i] ELSE G[i - 1] \o parts[i]
  <2>1. ASSUME NEW i \in 1 .. K, i # 1 PROVE G[i] = G[i - 1] \o parts[i]
    <3>1. i - 1 \in 1 .. K /\ i - 1 \in 0 .. K /\ i \in 0 .. K
      BY <2>1
    <3>2. cut[i - 1] \in 0 .. Len(F) /\ cut[i] \in cut[i - 1] .. Len(F)
      BY <1>0, <3>1, SMTT(30)
    <3>3. 1 \in 1 .. Len(F) + 1 /\ cut[i - 1] \in 1 - 1 .. Len(F)
      BY <1>0, <3>2
    <3>4. SubSeq(F, 1, cut[i - 1]) \o SubSeq(F, cut[i - 1] + 1, cut[i]) = SubSeq(F, 1, cut[i])
      BY <3>2, <3>3, ConcatAdjacentSubSeq
    <3> HIDE DEF G
    <3> QED  BY <1>2, <3>1, <3>4
  <2>2. G[1] = parts[1]
    <3>1. 1 \in 1 .. K
      OBVIOUS
    <3>2. parts[1] = SubSeq(F, cut[1 - 1] + 1, cut[1]) /\ G[1] = SubSeq(F, 1, cut[1])
      BY <1>2, <3>1
    <3>3. cut[1 - 1] + 1 = 1
      OBVIOUS
    <3> HIDE DEF G
    <3> QED  BY <3>2, <3>3
  <2> HIDE DEF G
  <2> QED  BY <2>1, <2>2
<1>8. G = Grown(G)
  <2> DEFINE H == Grown(G)
  <2>3. \A i \in 1 .. K : H[i] = IF i = 1 THEN parts[i] ELSE G[i - 1] \o parts[i]
    OBVIOUS
  <2>4. DOMAIN G = 1 .. K /\ DOMAIN H = 1 .. K /\ G = [i \in 1 .. K |-> G[i]] /\ H = [i \in 1 .. K |-> H[i]]
    OBVIOUS
  <2> HIDE DEF G, H
  <2>5. \A i \in 1 .. K : G[i] = H[i]
    BY <1>3, <2>3
  <2>6. G = H
    BY <2>4, <2>5
  <2> QED  BY <2>6 DEF H
<1> DEFINE flatten == CHOOSE f : f = Grown(f)
<1>4. FlattenSeq(parts) = flatten[K]
  BY <1>1 DEF FlattenSeq
<1>5. flatten = Grown(flatten)
  BY <1>8
<1>6. \A i \in 1 .. K : flatten[i] = G[i]
  <2> DEFINE bad == {i \in 1 .. K : flatten[i] # G[i]}
  <2> SUFFICES ASSUME bad # {} PROVE FALSE
    OBVIOUS
  <2>1. PICK i \in bad : \A j \in bad : i <= j
    <3>1. bad \in SUBSET Nat
      OBVIOUS
    <3> HIDE DEF bad
    <3> QED  BY <3>1, LeastNumber
  <2>2. i \in 1 .. K /\ flatten[i] # G[i]
    BY <2>1
  <2>3. \A f, j : j \in 1 .. K /\ f = Grown(f) => f[j] = IF j = 1 THEN parts[j] ELSE f[j - 1] \o parts[j]
    OBVIOUS
  <2>4. flatten[i] = IF i = 1 THEN parts[i] ELSE flatten[i - 1] \o parts[i]
    <3> HIDE DEF flatten, Grown
    <3> QED  BY <1>5, <2>2, <2>3
  <2>5. G[i] = IF i = 1 THEN parts[i] ELSE G[i - 1] \o parts[i]
    <3> HIDE DEF G
    <3> QED  BY <1>3, <2>2
  <2>6. i # 1
    <3> HIDE DEF flatten, G
    <3> QED  BY <2>2, <2>4, <2>5
  <2>7. i - 1 \in 1 .. K /\ ~(i <= i - 1)
    <3> HIDE DEF flatten, G, bad
    <3> QED  BY <2>2, <2>6
  <2>8. flatten[i - 1] = G[i - 1]
    <3> HIDE DEF flatten, G
    <3> QED  BY <2>1, <2>7
  <2> HIDE DEF flatten, G
  <2> QED  BY <2>2, <2>4, <2>5, <2>6, <2>8
<1>7. flatten[K] = SubSeq(F, 1, Len(F))
  <2>1. K \in 1 .. K
    OBVIOUS
  <2> HIDE DEF flatten, G
  <2> QED  BY <1>2, <1>6, <2>1
<1> HIDE DEF flatten
<1> QED  BY <1>4, <1>7, SubSeqFull

\* A division with its rest.
LEMMA Divided ==
    ASSUME NEW a \in Nat, NEW p \in Nat \ {0}
    PROVE  LET q == a \div p IN q \in Nat /\ q * p <= a /\ a < q * p + p
OBVIOUS

PageCount(s) == ResourcePages(FilterResources(s))

CutAt(s, k) ==
    IF k * RESOURCE_PAGE_SIZE < Cardinality(Found(s)) THEN k * RESOURCE_PAGE_SIZE ELSE Cardinality(Found(s))

\* The pages are as many as the results need, and there is always one.
LEMMA PagesSuffice ==
    ASSUME NEW s
    PROVE  LET N == Cardinality(Found(s))
               P == RESOURCE_PAGE_SIZE
               K == PageCount(s)
           IN  /\ N \in Nat /\ P \in Nat \ {0} /\ K \in Nat \ {0}
               /\ (FilterResources(s) = <<>> <=> N = 0) /\ (FilterResources(s) = <<>> <=> Found(s) = {})
               /\ K * P >= N
               /\ N = 0 => K = 1
               /\ N # 0 => (K - 1) * P < N
<1> DEFINE F == FilterResources(s)
           N == Cardinality(Found(s))
           P == RESOURCE_PAGE_SIZE
<1>1. N \in Nat /\ P \in Nat \ {0} /\ Len(F) = N /\ F \in Seq(Resources)
  BY FilterDoes, ResourcesAssumption
<1>2. F = <<>> <=> N = 0
  BY <1>1, EmptySeq
<1>3. N = 0 <=> Found(s) = {}
  BY FoundIsFinite, FS_EmptySet
<1>4. PageCount(s) = IF F = <<>> THEN 1 ELSE (N + P - 1) \div P
  BY <1>1 DEF PageCount, ResourcePages
<1> HIDE DEF F, N, P
<1>5. CASE N = 0
  BY <1>1, <1>2, <1>3, <1>4, <1>5 DEF F, N, P
<1>6. CASE N # 0
  <2> DEFINE q == (N + P - 1) \div P
  <2>1. N + P - 1 \in Nat
    BY <1>1, <1>6
  <2>2. q \in Nat /\ q * P <= N + P - 1 /\ N + P - 1 < q * P + P
    BY <1>1, <2>1, Divided
  <2>3. PageCount(s) = q
    BY <1>2, <1>4, <1>6
  <2> HIDE DEF q
  <2>4. q # 0 /\ q * P >= N
    BY <1>1, <1>6, <2>2
  <2>5. (q - 1) * P = q * P - P
    BY <1>1, <2>2
  <2>6. (q - 1) * P < N
    BY <1>1, <1>6, <2>2, <2>5
  <2> QED  BY <1>1, <1>2, <1>3, <1>6, <2>2, <2>3, <2>4, <2>6 DEF F, N, P
<1> QED  BY <1>5, <1>6

\* More pages hold no fewer results.
LEMMA ProductGrows ==
    ASSUME NEW a \in Nat, NEW b \in Nat, NEW p \in Nat, a <= b
    PROVE  a * p <= b * p /\ a * p \in Nat
OBVIOUS

\* Where the pages of the results are cut.
LEMMA Cuts ==
    ASSUME NEW s
    PROVE  LET N == Cardinality(Found(s))
               P == RESOURCE_PAGE_SIZE
               K == PageCount(s)
           IN  /\ \A k \in 0 .. K : CutAt(s, k) \in 0 .. N
               /\ CutAt(s, 0) = 0 /\ CutAt(s, K) = N
               /\ \A k \in 1 .. K : /\ CutAt(s, k - 1) = (k - 1) * P /\ CutAt(s, k - 1) <= CutAt(s, k)
                                    /\ CutAt(s, k) = IF (k - 1) * P + P < N THEN (k - 1) * P + P ELSE N
                                    /\ N # 0 => CutAt(s, k - 1) < CutAt(s, k)
<1> DEFINE N == Cardinality(Found(s))
           P == RESOURCE_PAGE_SIZE
           K == PageCount(s)
<1>1. /\ N \in Nat /\ P \in Nat \ {0} /\ K \in Nat \ {0}
      /\ K * P >= N
      /\ N = 0 => K = 1
      /\ N # 0 => (K - 1) * P < N
  BY PagesSuffice
<1>2. \A k : CutAt(s, k) = IF k * P < N THEN k * P ELSE N
  BY DEF CutAt
<1> HIDE DEF N, P, K
<1>3. \A k \in Nat : k * P \in Nat
  BY <1>1, ProductGrows
<1>4. \A k \in 0 .. K : CutAt(s, k) \in 0 .. N
  BY <1>1, <1>2, <1>3
<1>5. CutAt(s, 0) = 0
  <2>1. 0 * P = 0
    BY <1>1
  <2> QED  BY <1>1, <1>2, <2>1
<1>6. CutAt(s, K) = N
  BY <1>1, <1>2, <1>3
<1>7. ASSUME NEW k \in 1 .. K
      PROVE  /\ CutAt(s, k - 1) = (k - 1) * P /\ CutAt(s, k - 1) <= CutAt(s, k)
             /\ CutAt(s, k) = IF (k - 1) * P + P < N THEN (k - 1) * P + P ELSE N
             /\ N # 0 => CutAt(s, k - 1) < CutAt(s, k)
  <2>1. k - 1 \in Nat /\ K - 1 \in Nat /\ k - 1 <= K - 1 /\ k \in Nat
    BY <1>1
  <2>2. (k - 1) * P <= (K - 1) * P /\ (k - 1) * P \in Nat /\ (K - 1) * P \in Nat
    BY <1>1, <2>1, ProductGrows
  <2>3. k * P = (k - 1) * P + P
    BY <1>1, <2>1
  <2>4. N = 0 => (k - 1) * P = 0
    <3>1. N = 0 => k - 1 = 0
      BY <1>1, <2>1
    <3>2. 0 * P = 0
      BY <1>1
    <3> QED  BY <3>1, <3>2
  <2>5. CutAt(s, k - 1) = IF (k - 1) * P < N THEN (k - 1) * P ELSE N
    BY <1>2
  <2>6. CutAt(s, k) = IF (k - 1) * P + P < N THEN (k - 1) * P + P ELSE N
    BY <1>2, <2>3
  <2> DEFINE start == (k - 1) * P
  <2> HIDE DEF start
  <2>7. CutAt(s, k - 1) = IF start < N THEN start ELSE N
    BY <2>5 DEF start
  <2>8. CutAt(s, k) = IF start + P < N THEN start + P ELSE N
    BY <2>6 DEF start
  <2>9. start \in Nat /\ (N = 0 => start = 0) /\ (N # 0 => start < N)
    BY <1>1, <2>2, <2>4 DEF start
  <2>10. CutAt(s, k - 1) = start /\ CutAt(s, k - 1) <= CutAt(s, k) /\ (N # 0 => CutAt(s, k - 1) < CutAt(s, k))
    BY <1>1, <2>7, <2>8, <2>9
  <2> QED  BY <2>6, <2>10 DEF start
<1> QED  BY <1>4, <1>5, <1>6, <1>7 DEF N, P, K

\* Only the words, the facets and the orders of a search matter to what it finds.
LEMMA SameResults ==
    ASSUME NEW s, NEW t, t.q.words = s.q.words, t.facets = s.facets, t.sort = s.sort,
           t.titleSort = s.titleSort
    PROVE  /\ Found(t) = Found(s) /\ FilterResources(t) = FilterResources(s)
           /\ PageCount(t) = PageCount(s) /\ \A k : CutAt(t, k) = CutAt(s, k)
           /\ Options(t) = Options(s) /\ HasFilters(t) = HasFilters(s) /\ HasQuery(t) = HasQuery(s)
<1>1. \A e, omit : MatchesResource(e, t, omit) <=> MatchesResource(e, s, omit)
  BY DEF MatchesResource
<1>2. \A a, b : Before(t, a, b) <=> Before(s, a, b)
  BY DEF Before
<1>3. Found(t) = Found(s)
  BY <1>1 DEF Found
<1>4. FilterResources(t) = FilterResources(s)
  <2>1. \A e : Preceding(t, e) = Preceding(s, e)
    BY <1>2, <1>3 DEF Preceding
  <2>2. \A e : RankIn(t, e) = RankIn(s, e)
    BY <2>1 DEF RankIn
  <2>3. FilterResources(t) = [i \in 1 .. Cardinality(Found(t)) |-> CHOOSE e \in Found(t) : RankIn(t, e) = i]
    BY DEF FilterResources, RankIn, Preceding, Found
  <2>4. FilterResources(s) = [i \in 1 .. Cardinality(Found(s)) |-> CHOOSE e \in Found(s) : RankIn(s, e) = i]
    BY DEF FilterResources, RankIn, Preceding, Found
  <2> QED  BY <1>3, <2>2, <2>3, <2>4
<1>5. \A name, value : FacetCount(t, name, value) = FacetCount(s, name, value)
  BY <1>1 DEF FacetCount
<1>6. Options(t) = Options(s)
  BY <1>5 DEF Options
<1> QED  BY <1>3, <1>4, <1>6 DEF PageCount, CutAt, HasFilters, HasQuery

Recoveries == {"Clear search", "Clear filters", "Reset all"}

\* What is display alike in every part is the same.
LEMMA ShownSame ==
    ASSUME NEW A, NEW B, NEW C, NEW D, NEW E, NEW F, NEW G,
           NEW a \in [visible : A, summary : B, pages : C, paged : BOOLEAN, items : D, previous : BOOLEAN,
                      next : BOOLEAN, empty : BOOLEAN, recovery : E, clearFilters : BOOLEAN, resetAll : BOOLEAN,
                      options : F],
           NEW b \in [visible : A, summary : B, pages : C, paged : BOOLEAN, items : D, previous : BOOLEAN,
                      next : BOOLEAN, empty : BOOLEAN, recovery : E, clearFilters : BOOLEAN, resetAll : BOOLEAN,
                      options : F],
           a.visible = b.visible, a.summary = b.summary, a.pages = b.pages, a.paged = b.paged,
           a.items = b.items, a.previous = b.previous, a.next = b.next, a.empty = b.empty,
           a.recovery = b.recovery, a.clearFilters = b.clearFilters, a.resetAll = b.resetAll, a.options = b.options
    PROVE  a = b
OBVIOUS

\* What is display, by the kinds of its parts.
ShownLike(display) ==
    [visible : {display.visible}, summary : {display.summary}, pages : {display.pages}, paged : BOOLEAN,
     items : {display.items}, previous : BOOLEAN, next : BOOLEAN, empty : BOOLEAN, recovery : Recoveries,
     clearFilters : BOOLEAN, resetAll : BOOLEAN, options : {display.options}]

PageOf(s) == IF s.page < PageCount(s) THEN s.page ELSE PageCount(s)

\* What render() shows.
LEMMA RenderDoes ==
    ASSUME NEW s, s \in BrowseStates, NEW r \in Recoveries
    PROVE  LET display == ResourceRender(s, r)
               N == Cardinality(Found(s))
               start == (PageOf(s) - 1) * RESOURCE_PAGE_SIZE
           IN  /\ PageOf(s) \in 1 .. PageCount(s)
               /\ Clamped(s, PageCount(s)) \in BrowseStates
               /\ Clamped(s, PageCount(s)) = [s EXCEPT !.page = PageOf(s)]
               /\ display.visible = SubSeq(FilterResources(s), CutAt(s, PageOf(s) - 1) + 1, CutAt(s, PageOf(s)))
               /\ display.summary = <<start + 1, start + Len(display.visible), N>>
               /\ display.pages = PageCount(s)
               /\ display.paged <=> N > RESOURCE_PAGE_SIZE
               /\ display.items = BrowsePageItems(PageOf(s), PageCount(s))
               /\ display.previous <=> PageOf(s) # 1
               /\ display.next <=> PageOf(s) # PageCount(s)
               /\ display.empty <=> Found(s) = {}
               /\ display.recovery = IF Found(s) = {} /\ Resources # {} THEN SearchRecoveryAction(s) ELSE r
               /\ display.clearFilters <=> HasFilters(s) /\ ~HasQuery(s) /\ Found(s) # {}
               /\ display.resetAll <=> HasFilters(s) /\ HasQuery(s) /\ Found(s) # {}
               /\ display.options = Options(s)
               /\ display \in ShownLike(display)
<1> DEFINE F == FilterResources(s)
           N == Cardinality(Found(s))
           P == RESOURCE_PAGE_SIZE
           K == PageCount(s)
           start == (PageOf(s) - 1) * P
<1>1. /\ N \in Nat /\ P \in Nat \ {0} /\ K \in Nat \ {0} /\ (F = <<>> <=> Found(s) = {})
  BY PagesSuffice
<1>2. Len(F) = N
  BY FilterDoes
<1>3. s.page \in Nat \ {0}
  BY DEF BrowseStates
<1> HIDE DEF N, K
<1>4. PageOf(s) \in 1 .. K
  BY <1>1, <1>3 DEF PageOf, K
<1>5. Clamped(s, K) = [s EXCEPT !.page = PageOf(s)] /\ Clamped(s, K).page = PageOf(s)
  BY DEF Clamped, PageOf, BrowseStates, K
<1>6. [s EXCEPT !.page = PageOf(s)] \in BrowseStates
  BY <1>1, <1>4 DEF BrowseStates
<1>7. CutAt(s, PageOf(s) - 1) = start
      /\ CutAt(s, PageOf(s)) = IF start + P < N THEN start + P ELSE N
  BY <1>4, Cuts DEF K, N
<1> DEFINE display == ResourceRender(s, r)
           visible == SubSeq(F, start + 1, IF start + P < N THEN start + P ELSE N)
<1>8. display = [visible |-> visible,
        summary |-> <<start + 1, start + Len(visible), N>>,
        pages |-> K,
        paged |-> N > P,
        items |-> BrowsePageItems(PageOf(s), K),
        previous |-> PageOf(s) # 1,
        next |-> PageOf(s) # K,
        empty |-> F = <<>>,
        recovery |-> IF F = <<>> /\ Resources # {} THEN SearchRecoveryAction(s) ELSE r,
        clearFilters |-> HasFilters(s) /\ ~HasQuery(s) /\ F # <<>>,
        resetAll |-> HasFilters(s) /\ HasQuery(s) /\ F # <<>>,
        options |-> Options(s)]
  <2>1. K = ResourcePages(F)
    BY DEF K, PageCount
  <2> HIDE DEF F
  <2> QED  BY <1>2, <1>5, <2>1 DEF ResourceRender, F
<1>9. /\ display.visible = visible
      /\ display.summary = <<start + 1, start + Len(visible), N>>
      /\ display.pages = K
      /\ display.paged <=> N > P
      /\ display.items = BrowsePageItems(PageOf(s), K)
      /\ display.previous <=> PageOf(s) # 1
      /\ display.next <=> PageOf(s) # K
      /\ display.empty <=> F = <<>>
      /\ display.recovery = IF F = <<>> /\ Resources # {} THEN SearchRecoveryAction(s) ELSE r
      /\ display.clearFilters <=> HasFilters(s) /\ ~HasQuery(s) /\ F # <<>>
      /\ display.resetAll <=> HasFilters(s) /\ HasQuery(s) /\ F # <<>>
      /\ display.options = Options(s)
  <2> HIDE DEF display, visible, F, start
  <2> QED  BY <1>8
<1>11. display \in ShownLike(display)
  <2>1. SearchRecoveryAction(s) \in Recoveries
    BY DEF SearchRecoveryAction, Recoveries
  <2> HIDE DEF display, visible, F, start
  <2> QED  BY <1>8, <2>1 DEF ShownLike
<1>10. visible = SubSeq(F, CutAt(s, PageOf(s) - 1) + 1, CutAt(s, PageOf(s)))
  BY <1>7
<1> HIDE DEF display, visible, F, start
<1> QED  BY <1>1, <1>4, <1>5, <1>6, <1>9, <1>10, <1>11 DEF display, F, start, K, N

\* Two searches that differ in the spaces of the query alone are display alike.
LEMMA RenderedAlike ==
    ASSUME NEW s \in BrowseStates, NEW t \in BrowseStates, NEW r \in Recoveries, NEW q \in Recoveries,
           t.q.words = s.q.words, t.facets = s.facets, t.sort = s.sort, t.titleSort = s.titleSort,
           PageOf(t) = PageOf(s)
    PROVE  LET display == ResourceRender(s, r)
           IN  [ResourceRender(t, q) EXCEPT !.recovery = display.recovery] = display
<1> DEFINE a == ResourceRender(t, q)
           b == ResourceRender(s, r)
           c == [a EXCEPT !.recovery = b.recovery]
<1>1. a \in ShownLike(a) /\ b \in ShownLike(b)
  BY RenderDoes
<1>2. /\ a.visible = b.visible /\ a.pages = b.pages /\ a.items = b.items /\ a.options = b.options
      /\ (a.paged <=> b.paged) /\ (a.previous <=> b.previous) /\ (a.next <=> b.next) /\ (a.empty <=> b.empty)
      /\ (a.clearFilters <=> b.clearFilters) /\ (a.resetAll <=> b.resetAll)
  <2>1. /\ Found(t) = Found(s) /\ FilterResources(t) = FilterResources(s)
        /\ PageCount(t) = PageCount(s) /\ \A k : CutAt(t, k) = CutAt(s, k)
        /\ Options(t) = Options(s) /\ HasFilters(t) = HasFilters(s) /\ HasQuery(t) = HasQuery(s)
    BY SameResults
  <2>2. /\ a.visible = SubSeq(FilterResources(t), CutAt(t, PageOf(t) - 1) + 1, CutAt(t, PageOf(t)))
        /\ a.pages = PageCount(t) /\ a.items = BrowsePageItems(PageOf(t), PageCount(t)) /\ a.options = Options(t)
        /\ (a.paged <=> Cardinality(Found(t)) > RESOURCE_PAGE_SIZE) /\ (a.previous <=> PageOf(t) # 1)
        /\ (a.next <=> PageOf(t) # PageCount(t)) /\ (a.empty <=> Found(t) = {})
        /\ (a.clearFilters <=> HasFilters(t) /\ ~HasQuery(t) /\ Found(t) # {})
        /\ (a.resetAll <=> HasFilters(t) /\ HasQuery(t) /\ Found(t) # {})
    BY RenderDoes
  <2>3. /\ b.visible = SubSeq(FilterResources(s), CutAt(s, PageOf(s) - 1) + 1, CutAt(s, PageOf(s)))
        /\ b.pages = PageCount(s) /\ b.items = BrowsePageItems(PageOf(s), PageCount(s)) /\ b.options = Options(s)
        /\ (b.paged <=> Cardinality(Found(s)) > RESOURCE_PAGE_SIZE) /\ (b.previous <=> PageOf(s) # 1)
        /\ (b.next <=> PageOf(s) # PageCount(s)) /\ (b.empty <=> Found(s) = {})
        /\ (b.clearFilters <=> HasFilters(s) /\ ~HasQuery(s) /\ Found(s) # {})
        /\ (b.resetAll <=> HasFilters(s) /\ HasQuery(s) /\ Found(s) # {})
    BY RenderDoes
  <2> HIDE DEF a, b
  <2> QED  BY <2>1, <2>2, <2>3
<1>3. a.summary = b.summary
  <2>1. Found(t) = Found(s)
    BY SameResults
  <2>2. LET start == (PageOf(t) - 1) * RESOURCE_PAGE_SIZE
        IN  a.summary = <<start + 1, start + Len(a.visible), Cardinality(Found(t))>>
    BY RenderDoes
  <2>3. LET start == (PageOf(s) - 1) * RESOURCE_PAGE_SIZE
        IN  b.summary = <<start + 1, start + Len(b.visible), Cardinality(Found(s))>>
    BY RenderDoes
  <2> HIDE DEF a, b
  <2> QED  BY <1>2, <2>1, <2>2, <2>3
<1> HIDE DEF a, b
<1>4. /\ a.paged = b.paged /\ a.previous = b.previous /\ a.next = b.next /\ a.empty = b.empty
      /\ a.clearFilters = b.clearFilters /\ a.resetAll = b.resetAll
  BY <1>1, <1>2 DEF ShownLike
<1>5. c \in ShownLike(b) /\ c.recovery = b.recovery
  BY <1>1, <1>2, <1>3 DEF ShownLike
<1>6. /\ c.visible = a.visible /\ c.summary = a.summary /\ c.pages = a.pages /\ c.paged = a.paged /\ c.items = a.items
      /\ c.previous = a.previous /\ c.next = a.next /\ c.empty = a.empty /\ c.clearFilters = a.clearFilters
      /\ c.resetAll = a.resetAll /\ c.options = a.options
  BY <1>1 DEF ShownLike
<1> HIDE DEF c
<1>7. c = b
  BY <1>1, <1>2, <1>3, <1>4, <1>5, <1>6, ShownSame DEF ShownLike
<1> QED  BY <1>7 DEF a, b, c

\* What the page shows is the rendering of a search, whose page is then clamped and
\* written to the address.
BrowserInv ==
    /\ resourceActs \in 0 .. ResourceMaxActs
    /\ \E s, params, r :
         /\ BrowseOK(s) /\ params \in UrlStates /\ r \in Recoveries
         /\ resourceShown = ResourceRender(s, r)
         /\ resourceState = Clamped(s, resourceShown.pages)
         /\ resourceUrl = WriteBrowseState(params, resourceState)

\* The first page is one.
LEMMA OneIsAPage == 1 \in Nat \ {0}
OBVIOUS

\* The page is one that there is (render).
LEMMA ClampedIsOK ==
    ASSUME NEW s, BrowseOK(s), NEW r \in Recoveries
    PROVE  LET display == ResourceRender(s, r)
               c == Clamped(s, display.pages)
           IN  /\ BrowseOK(c) /\ display.pages = PageCount(s) /\ display.recovery \in Recoveries
               /\ c.q = s.q /\ c.facets = s.facets /\ c.sort = s.sort /\ c.titleSort = s.titleSort
               /\ c.page = PageOf(s) /\ PageOf(s) \in 1 .. display.pages
<1> DEFINE display == ResourceRender(s, r)
<1>0. s \in BrowseStates
  BY DEF BrowseOK
<1>1. /\ display.pages = PageCount(s) /\ PageOf(s) \in 1 .. PageCount(s)
      /\ display.recovery = IF Found(s) = {} /\ Resources # {} THEN SearchRecoveryAction(s) ELSE r
  BY <1>0, RenderDoes
<1>3. Clamped(s, PageCount(s)) \in BrowseStates /\ Clamped(s, PageCount(s)) = [s EXCEPT !.page = PageOf(s)]
  BY <1>0, RenderDoes
<1>2. display.recovery \in Recoveries
  <2>1. SearchRecoveryAction(s) \in Recoveries
    BY DEF SearchRecoveryAction, Recoveries
  <2> HIDE DEF display
  <2> QED  BY <1>1, <2>1
<1> HIDE DEF display
<1> DEFINE c == Clamped(s, display.pages)
<1>4. /\ c \in BrowseStates
      /\ c.q = s.q /\ c.facets = s.facets /\ c.sort = s.sort /\ c.titleSort = s.titleSort /\ c.page = PageOf(s)
  BY <1>0, <1>1, <1>3 DEF BrowseStates
<1> HIDE DEF c
<1>5. BrowseOK(c)
  BY <1>4 DEF BrowseOK
<1> QED  BY <1>1, <1>2, <1>4, <1>5 DEF display, c

\* What is display is written into the address (show and save).
LEMMA ShowSaves ==
    ASSUME NEW s, NEW params, BrowseOK(s), params \in UrlStates, resourceShown.recovery \in Recoveries,
           ShowAndSave(s, params), resourceActs' \in 0 .. ResourceMaxActs
    PROVE  /\ BrowserInv'
           /\ resourceState'.q = s.q /\ resourceState'.facets = s.facets /\ resourceState'.sort = s.sort
           /\ resourceState'.titleSort = s.titleSort /\ (s.page = 1 => resourceState'.page = 1)
<1> DEFINE r == resourceShown.recovery
<1>1. resourceShown' = ResourceRender(s, r) /\ resourceState' = Clamped(s, resourceShown'.pages)
      /\ resourceUrl' = WriteBrowseState(params, resourceState')
  BY DEF ShowAndSave
<1>2. BrowserInv'
  <2>1. \E s1, params1, r1 :
         /\ BrowseOK(s1) /\ params1 \in UrlStates /\ r1 \in Recoveries
         /\ resourceShown' = ResourceRender(s1, r1)
         /\ resourceState' = Clamped(s1, resourceShown'.pages)
         /\ resourceUrl' = WriteBrowseState(params1, resourceState')
    BY <1>1
  <2> QED  BY <2>1 DEF BrowserInv
<1> HIDE DEF r
<1>3. /\ resourceState'.q = s.q /\ resourceState'.facets = s.facets /\ resourceState'.sort = s.sort
      /\ resourceState'.titleSort = s.titleSort /\ resourceState'.page = PageOf(s) /\ PageOf(s) \in 1 .. PageCount(s)
  BY <1>1, ClampedIsOK DEF r
<1>4. s.page = 1 => PageOf(s) = 1
  BY <1>3 DEF PageOf
<1> QED  BY <1>2, <1>3, <1>4

\* The search is reached by addresses.
LEMMA ArrivalsAreUrls == Arrivals \subseteq UrlStates
<1>1. ASSUME NEW p \in Arrivals PROVE p \in UrlStates
  <2>1. p \in [q : ResourceQueries, facets : [FacetNames -> SUBSET STRING], sort : STRING,
                          title : STRING, page : Nat, provider : STRING, extra : STRING]
    BY ResourcesAssumption
  <2>2. p.facets \in [FacetNames -> SUBSET (STRING \cup AllValues)]
    BY <2>1
  <2> QED  BY <2>1, <2>2 DEF UrlStates
<1> QED  BY <1>1

\* Every state of the browser is a search that can be display, and its address.
LEMMA InvMeans ==
    ASSUME BrowserInv
    PROVE  /\ BrowseOK(resourceState) /\ resourceUrl \in UrlStates /\ resourceShown.recovery \in Recoveries
           /\ resourceActs \in 0 .. ResourceMaxActs /\ resourceState.page \in 1 .. resourceShown.pages
           /\ resourceShown.pages \in Nat
<1>1. PICK s, params, r :
         /\ BrowseOK(s) /\ params \in UrlStates /\ r \in Recoveries
         /\ resourceShown = ResourceRender(s, r)
         /\ resourceState = Clamped(s, resourceShown.pages)
         /\ resourceUrl = WriteBrowseState(params, resourceState)
  BY DEF BrowserInv
<1>2. BrowseOK(resourceState) /\ resourceShown.recovery \in Recoveries
      /\ resourceState.page \in 1 .. resourceShown.pages /\ resourceShown.pages = PageCount(s)
  BY <1>1, ClampedIsOK
<1>3. PageCount(s) \in Nat
  BY PagesSuffice
<1> QED  BY <1>1, <1>2, <1>3, WriteBrowseDoes DEF BrowserInv

\* What is left of a search that is reset.
LEMMA ResetDoes ==
    ASSUME NEW s, BrowseOK(s), NEW filtersOnly \in BOOLEAN
    PROVE  LET t == ResetState(s, filtersOnly)
           IN  /\ BrowseOK(t) /\ t.q = (IF filtersOnly THEN s.q ELSE NoQuery)
               /\ t.facets = [name \in FacetNames |-> {}] /\ t.sort = s.sort /\ t.titleSort = s.titleSort
               /\ t.page = 1
<1>1. NoQuery \in ResourceQueries
  BY DEF NoQuery, ResourceQueries
<1> DEFINE none == ReadBrowseState(NoParameters)
<1>2. none = [q |-> NoQuery, facets |-> [name \in FacetNames |-> {}], sort |-> none.sort,
              titleSort |-> none.titleSort, page |-> 1]
  BY DEF ReadBrowseState, NoParameters
<1>3. none.q = NoQuery /\ none.facets = [name \in FacetNames |-> {}] /\ none.page = 1
      /\ none.sort \in {"newest", "oldest"} /\ none.titleSort \in {"asc", "desc"}
  BY DEF ReadBrowseState, NoParameters
<1>4. none \in BrowseStates
  BY <1>1, <1>2, <1>3 DEF BrowseStates
<1> HIDE DEF none
<1>5. ResetState(s, filtersOnly) = [none EXCEPT !.q = IF filtersOnly THEN s.q ELSE NoQuery,
                                                !.sort = s.sort, !.titleSort = s.titleSort]
  BY DEF ResetState, none
<1> QED  BY <1>1, <1>3, <1>4, <1>5 DEF BrowseOK, BrowseStates

\* What the button of an empty page leads to.
LEMMA RecoveredIsOK ==
    ASSUME NEW s, BrowseOK(s), NEW action
    PROVE  LET t == RecoveredState(s, action)
           IN  /\ BrowseOK(t) /\ t.sort = s.sort /\ t.titleSort = s.titleSort /\ t.page = 1
               /\ t.q = (IF action = "Clear filters" THEN s.q ELSE NoQuery)
               /\ t.facets = (IF action = "Clear search" THEN s.facets ELSE [name \in FacetNames |-> {}])
<1>1. NoQuery \in ResourceQueries
  BY DEF NoQuery, ResourceQueries
<1>2. CASE action = "Clear search"
  <2> DEFINE t == [s EXCEPT !.q = NoQuery, !.page = 1]
  <2>1. s \in BrowseStates
    BY DEF BrowseOK
  <2>2. /\ t \in BrowseStates /\ t.q = NoQuery /\ t.facets = s.facets /\ t.sort = s.sort
        /\ t.titleSort = s.titleSort /\ t.page = 1
    BY <1>1, <2>1, OneIsAPage DEF BrowseStates
  <2>3. RecoveredState(s, action) = t
    BY <1>2 DEF RecoveredState
  <2> HIDE DEF t
  <2>4. BrowseOK(t)
    BY <2>2 DEF BrowseOK
  <2> QED  BY <1>2, <2>2, <2>3, <2>4
<1>3. CASE action # "Clear search"
  <2> DEFINE filtersOnly == action = "Clear filters"
  <2>1. filtersOnly \in BOOLEAN
    OBVIOUS
  <2>2. RecoveredState(s, action) = ResetState(s, filtersOnly)
    BY <1>3 DEF RecoveredState
  <2>3. LET t == ResetState(s, filtersOnly)
        IN  /\ BrowseOK(t) /\ t.q = (IF filtersOnly THEN s.q ELSE NoQuery)
            /\ t.facets = [name \in FacetNames |-> {}] /\ t.sort = s.sort /\ t.titleSort = s.titleSort
            /\ t.page = 1
    BY <2>1, ResetDoes
  <2> QED  BY <1>3, <2>2, <2>3
<1> QED  BY <1>2, <1>3

\* The search begins in its invariant, for every address.
LEMMA InitBrowser == ResourceInit => BrowserInv
<1> SUFFICES ASSUME ResourceInit PROVE BrowserInv
  OBVIOUS
<1>1. PICK params \in Arrivals :
        /\ resourceShown = ResourceRender(ReadBrowseState(params), "Clear search")
        /\ resourceState = Clamped(ReadBrowseState(params), resourceShown.pages)
        /\ resourceUrl = WriteBrowseState(params, resourceState)
        /\ resourceActs = 0
  BY DEF ResourceInit, Restored
<1>2. params \in UrlStates /\ BrowseOK(ReadBrowseState(params)) /\ "Clear search" \in Recoveries
  BY ArrivalsAreUrls, ReadDoes DEF Recoveries
<1>3. resourceActs \in 0 .. ResourceMaxActs
  <2>1. resourceActs = 0
    BY DEF ResourceInit
  <2>2. ResourceMaxActs \in Nat
    BY ResourcesAssumption
  <2> QED  BY <2>1, <2>2
<1>4. \E s, p, r :
         /\ BrowseOK(s) /\ p \in UrlStates /\ r \in Recoveries
         /\ resourceShown = ResourceRender(s, r)
         /\ resourceState = Clamped(s, resourceShown.pages)
         /\ resourceUrl = WriteBrowseState(p, resourceState)
  <2>1. /\ resourceShown = ResourceRender(ReadBrowseState(params), "Clear search")
        /\ resourceState = Clamped(ReadBrowseState(params), resourceShown.pages)
        /\ resourceUrl = WriteBrowseState(params, resourceState)
    BY <1>1
  <2> QED  BY <1>2, <2>1
<1> QED  BY <1>3, <1>4 DEF BrowserInv

\* Every step keeps the invariant, and a reset the order.
LEMMA NextBrowser ==
    ASSUME BrowserInv, [ResourceNext]_resourceVars
    PROVE  BrowserInv' /\ (OrderSurvivesReset \/ UNCHANGED resourceVars)
<1> DEFINE s == resourceState
<1>1. /\ BrowseOK(s) /\ resourceUrl \in UrlStates /\ resourceShown.recovery \in Recoveries
      /\ resourceActs \in 0 .. ResourceMaxActs
  BY InvMeans
<1>2. ResourceAct => resourceActs' \in 0 .. ResourceMaxActs
  BY <1>1, ResourcesAssumption DEF ResourceAct
<1>3. /\ s.q \in ResourceQueries /\ s.facets \in [FacetNames -> SUBSET AllValues]
      /\ \A name \in FacetNames : s.facets[name] \subseteq ResourceFacets[name]
      /\ s.sort \in {"newest", "oldest"} /\ s.titleSort \in {"asc", "desc"} /\ s.page \in Nat \ {0}
      /\ s \in BrowseStates
  BY <1>1 DEF BrowseOK, BrowseStates
<1> HIDE DEF s
<1>4. ASSUME NEW params \in Arrivals, Arrive(params) PROVE BrowserInv' /\ OrderSurvivesReset
  <2>1. params \in UrlStates /\ BrowseOK(ReadBrowseState(params))
    BY ArrivalsAreUrls, ReadDoes
  <2>2. BrowserInv'
    BY <1>1, <1>2, <1>4, <2>1, ShowSaves DEF Arrive, Restored
  <2> QED  BY <1>4, <2>2 DEF OrderSurvivesReset
\* The others keep the parameters of the address that they do not own.
<1>5. ASSUME NEW t, BrowseOK(t), ResourceAct, ShowAndSave(t, resourceUrl), t.sort = s.sort, t.titleSort = s.titleSort, t.page = 1
      PROVE  BrowserInv' /\ OrderSurvivesReset
  <2>1. BrowserInv' /\ resourceState'.sort = t.sort /\ resourceState'.titleSort = t.titleSort /\ resourceState'.page = 1
    BY <1>1, <1>2, <1>5, ShowSaves
  <2> QED  BY <1>5, <2>1 DEF OrderSurvivesReset, s
<1>6. ASSUME NEW t, BrowseOK(t), ResourceAct, ShowAndSave(t, resourceUrl), t.q = s.q, t.facets = s.facets
      PROVE  BrowserInv' /\ OrderSurvivesReset
  <2>1. BrowserInv' /\ resourceState'.q = t.q /\ resourceState'.facets = t.facets
    BY <1>1, <1>2, <1>6, ShowSaves
  <2> QED  BY <1>6, <2>1 DEF OrderSurvivesReset, s
<1>7. ASSUME NEW q \in ResourceQueries, SetQuery(q) PROVE BrowserInv' /\ OrderSurvivesReset
  <2> DEFINE t == [s EXCEPT !.q = q, !.page = 1]
  <2>1. t \in BrowseStates /\ t.facets = s.facets /\ t.sort = s.sort /\ t.titleSort = s.titleSort /\ t.page = 1
    BY <1>3, OneIsAPage DEF BrowseStates
  <2>2. ResourceAct /\ ShowAndSave(t, resourceUrl)
    BY <1>7 DEF SetQuery, s
  <2> HIDE DEF t
  <2>3. BrowseOK(t)
    BY <1>3, <2>1 DEF BrowseOK
  <2> QED  BY <1>5, <2>1, <2>2, <2>3
<1>8. ASSUME NEW name \in FacetNames, NEW value \in ResourceFacets[name], ResourceToggle(name, value)
      PROVE BrowserInv' /\ OrderSurvivesReset
  <2> DEFINE F == IF value \in s.facets[name] THEN s.facets[name] \ {value} ELSE s.facets[name] \union {value}
             t == [s EXCEPT !.facets[name] = F, !.page = 1]
  <2>1. F \subseteq ResourceFacets[name] /\ F \in SUBSET AllValues
    BY <1>3 DEF AllValues
  <2> DEFINE G == [s.facets EXCEPT ![name] = F]
  <2>2. G \in [FacetNames -> SUBSET AllValues] /\ \A n \in FacetNames : G[n] \subseteq ResourceFacets[n]
    <3> HIDE DEF F
    <3> QED  BY <1>3, <2>1
  <2>3. t = [s EXCEPT !.facets = G, !.page = 1]
    BY <1>3 DEF BrowseStates
  <2>4. ResourceAct /\ ShowAndSave(t, resourceUrl)
    BY <1>8 DEF ResourceToggle, s
  <2> HIDE DEF F, G, t
  <2>5. t \in BrowseStates /\ t.facets = G /\ t.sort = s.sort /\ t.titleSort = s.titleSort /\ t.page = 1
    BY <1>3, <2>2, <2>3, OneIsAPage DEF BrowseStates
  <2>6. BrowseOK(t)
    BY <2>2, <2>5 DEF BrowseOK
  <2> QED  BY <1>5, <2>4, <2>5, <2>6
<1>9. ASSUME NEW sort \in {"newest", "oldest"}, SortDate(sort) PROVE BrowserInv' /\ OrderSurvivesReset
  <2> DEFINE t == [s EXCEPT !.sort = sort, !.page = 1]
  <2>1. t \in BrowseStates /\ t.facets = s.facets /\ t.q = s.q /\ t.facets = s.facets
    BY <1>3, OneIsAPage DEF BrowseStates
  <2>2. ResourceAct /\ ShowAndSave(t, resourceUrl)
    BY <1>9 DEF SortDate, s
  <2> HIDE DEF t
  <2>3. BrowseOK(t)
    BY <1>3, <2>1 DEF BrowseOK
  <2> QED  BY <1>6, <2>1, <2>2, <2>3
<1>10. ASSUME NEW order \in {"asc", "desc"}, SortTitle(order) PROVE BrowserInv' /\ OrderSurvivesReset
  <2> DEFINE t == [s EXCEPT !.titleSort = order, !.page = 1]
  <2>1. t \in BrowseStates /\ t.facets = s.facets /\ t.q = s.q /\ t.facets = s.facets
    BY <1>3, OneIsAPage DEF BrowseStates
  <2>2. ResourceAct /\ ShowAndSave(t, resourceUrl)
    BY <1>10 DEF SortTitle, s
  <2> HIDE DEF t
  <2>3. BrowseOK(t)
    BY <1>3, <2>1 DEF BrowseOK
  <2> QED  BY <1>6, <2>1, <2>2, <2>3
<1>11. ASSUME NEW page \in 1 .. resourceShown.pages, ChangePage(page) PROVE BrowserInv' /\ OrderSurvivesReset
  <2> DEFINE t == [s EXCEPT !.page = page]
  <2>0. resourceShown.pages \in Nat
    BY InvMeans
  <2>1. t \in BrowseStates /\ t.q = s.q /\ t.facets = s.facets
    <3>1. page \in Nat \ {0}
      BY <2>0
    <3> QED  BY <1>3, <3>1 DEF BrowseStates
  <2>2. ResourceAct /\ ShowAndSave(t, resourceUrl)
    BY <1>11 DEF ChangePage, s
  <2> HIDE DEF t
  <2>3. BrowseOK(t)
    BY <1>3, <2>1 DEF BrowseOK
  <2> QED  BY <1>6, <2>1, <2>2, <2>3
<1>12. ASSUME NEW filtersOnly \in BOOLEAN, ResourceAct, ShowAndSave(ResetState(resourceState, filtersOnly), resourceUrl)
       PROVE  BrowserInv' /\ OrderSurvivesReset
  <2> DEFINE t == ResetState(resourceState, filtersOnly)
  <2>1. BrowseOK(t) /\ t.sort = s.sort /\ t.titleSort = s.titleSort /\ t.page = 1
    BY <1>1, ResetDoes DEF s
  <2> HIDE DEF t
  <2> QED  BY <1>5, <1>12, <2>1 DEF t
<1>13. CASE ClearFilters
  BY <1>12, <1>13 DEF ClearFilters
<1>14. CASE ResetAll
  BY <1>12, <1>14 DEF ResetAll
<1>15. CASE Recover
  <2> DEFINE t == RecoveredState(resourceState, resourceShown.recovery)
  <2>1. BrowseOK(t) /\ t.sort = s.sort /\ t.titleSort = s.titleSort /\ t.page = 1
    BY <1>1, RecoveredIsOK, ZenonT(60) DEF s
  <2>2. ResourceAct /\ ShowAndSave(t, resourceUrl)
    BY <1>15 DEF Recover
  <2> HIDE DEF t
  <2> QED  BY <1>5, <2>1, <2>2
<1>16. CASE UNCHANGED resourceVars
  BY <1>16 DEF resourceVars, BrowserInv
<1> QED  BY <1>4, <1>7, <1>8, <1>9, <1>10, <1>11, <1>13, <1>14, <1>15, <1>16 DEF ResourceNext

\* The state, by the search it was rendered from.
LEMMA Rendered ==
    ASSUME BrowserInv
    PROVE  \E s, params, r :
             /\ BrowseOK(s) /\ s \in BrowseStates /\ params \in UrlStates /\ r \in Recoveries
             /\ resourceShown = ResourceRender(s, r)
             /\ resourceUrl = WriteBrowseState(params, resourceState)
             /\ BrowseOK(resourceState) /\ resourceState \in BrowseStates
             /\ resourceState.q = s.q /\ resourceState.facets = s.facets /\ resourceState.sort = s.sort
             /\ resourceState.titleSort = s.titleSort /\ resourceState.page = PageOf(s)
             /\ PageOf(s) \in 1 .. PageCount(s) /\ PageCount(s) \in Nat \ {0}
             /\ Found(resourceState) = Found(s) /\ FilterResources(resourceState) = FilterResources(s)
             /\ PageCount(resourceState) = PageCount(s)
<1>1. PICK s, params, r :
         /\ BrowseOK(s) /\ params \in UrlStates /\ r \in Recoveries
         /\ resourceShown = ResourceRender(s, r)
         /\ resourceState = Clamped(s, resourceShown.pages)
         /\ resourceUrl = WriteBrowseState(params, resourceState)
  BY DEF BrowserInv
<1>2. /\ BrowseOK(resourceState)
      /\ resourceState.q = s.q /\ resourceState.facets = s.facets /\ resourceState.sort = s.sort
      /\ resourceState.titleSort = s.titleSort /\ resourceState.page = PageOf(s)
      /\ PageOf(s) \in 1 .. resourceShown.pages /\ resourceShown.pages = PageCount(s)
  BY <1>1, ClampedIsOK
<1>3. PageCount(s) \in Nat \ {0}
  BY PagesSuffice
<1>4. /\ Found(resourceState) = Found(s) /\ FilterResources(resourceState) = FilterResources(s)
      /\ PageCount(resourceState) = PageCount(s)
  BY <1>2, SameResults
<1>5. s \in BrowseStates /\ resourceState \in BrowseStates
  BY <1>1, <1>2 DEF BrowseOK
<1> QED  BY <1>1, <1>2, <1>3, <1>4, <1>5

\* The parts of the property follow from the invariant, one by one.
LEMMA TypesFollow == BrowserInv => ResourceTypeOK
<1> SUFFICES ASSUME BrowserInv PROVE ResourceTypeOK
  OBVIOUS
<1>1. /\ BrowseOK(resourceState) /\ resourceActs \in 0 .. ResourceMaxActs
      /\ resourceState.page \in 1 .. resourceShown.pages
  BY InvMeans
<1> QED  BY <1>1 DEF ResourceTypeOK, BrowseOK, BrowseStates

\* The address shows the search.
LEMMA AddressFollows == BrowserInv => AddressShowsSearch
<1> SUFFICES ASSUME BrowserInv PROVE AddressShowsSearch
  OBVIOUS
<1>1. PICK s, params, r :
             /\ BrowseOK(s) /\ s \in BrowseStates /\ params \in UrlStates /\ r \in Recoveries
             /\ resourceShown = ResourceRender(s, r)
             /\ resourceUrl = WriteBrowseState(params, resourceState)
             /\ BrowseOK(resourceState) /\ resourceState \in BrowseStates
             /\ resourceState.q = s.q /\ resourceState.facets = s.facets /\ resourceState.sort = s.sort
             /\ resourceState.titleSort = s.titleSort /\ resourceState.page = PageOf(s)
             /\ PageOf(s) \in 1 .. PageCount(s) /\ PageCount(s) \in Nat \ {0}
  BY Rendered
<1> DEFINE again == ReadBrowseState(resourceUrl)
<1>2. again = [resourceState EXCEPT !.q = Trim(resourceState.q)] /\ WriteBrowseState(resourceUrl, again) = resourceUrl
  BY <1>1, ReadWritten
<1>3. resourceUrl \in UrlStates /\ resourceShown.recovery \in Recoveries
  BY InvMeans
<1>4. BrowseOK(again)
  BY <1>3, ReadDoes
<1> HIDE DEF again
<1>5. /\ again.q = Trim(s.q) /\ again.facets = s.facets /\ again.sort = s.sort /\ again.titleSort = s.titleSort
      /\ again.page = PageOf(s)
  BY <1>1, <1>2 DEF BrowseStates
<1>6. again.q.words = s.q.words
  BY <1>1, <1>5 DEF BrowseStates, ResourceQueries, Trim
<1>7. PageCount(again) = PageCount(s)
  BY <1>5, <1>6, SameResults
<1>8. PageOf(again) = PageOf(s)
  BY <1>1, <1>5, <1>7 DEF PageOf
<1>9. again \in BrowseStates
  BY <1>4 DEF BrowseOK
<1>10. [ResourceRender(again, resourceShown.recovery) EXCEPT !.recovery = resourceShown.recovery] = resourceShown
  BY <1>1, <1>3, <1>5, <1>6, <1>8, <1>9, RenderedAlike
<1> QED  BY <1>2, <1>10 DEF AddressShowsSearch, again

\* An option that is offered finds something.
LEMMA OptionsFollow == BrowserInv => OptionsFindSomething
<1> SUFFICES ASSUME BrowserInv, NEW name \in FacetNames, NEW value \in ResourceFacets[name]
             PROVE  LET option == resourceShown.options[name][value]
                        chosen == [resourceState EXCEPT !.facets[name] = @ \union {value}]
                    IN /\ Cardinality(Found([resourceState EXCEPT !.facets[name] = {value}])) = option.count
                       /\ ~option.checked /\ ~option.disabled => Found(chosen) # {}
                       /\ option.disabled => Found(chosen) \subseteq Found(resourceState) \/ resourceState.facets[name] = {}
  BY DEF OptionsFindSomething
<1> DEFINE s == resourceState
           option == resourceShown.options[name][value]
           chosen == [s EXCEPT !.facets[name] = @ \union {value}]
           only == [s EXCEPT !.facets[name] = {value}]
           others == {entry \in Resources : MatchesResource(entry, s, {name}) /\ value \in Values(entry, name)}
<1>1. s \in BrowseStates /\ resourceShown.options = Options(s)
  <2>1. PICK t, r : /\ t \in BrowseStates /\ r \in Recoveries /\ resourceShown = ResourceRender(t, r) /\ s \in BrowseStates
                    /\ s.q = t.q /\ s.facets = t.facets /\ s.sort = t.sort /\ s.titleSort = t.titleSort
    BY Rendered
  <2>2. resourceShown.options = Options(t)
    BY <2>1, RenderDoes
  <2>3. Options(s) = Options(t)
    BY <2>1, SameResults
  <2> QED  BY <2>1, <2>2, <2>3
<1>2. /\ s.facets \in [FacetNames -> SUBSET AllValues]
      /\ chosen.facets = [s.facets EXCEPT ![name] = @ \union {value}] /\ chosen.q = s.q
      /\ only.facets = [s.facets EXCEPT ![name] = {value}] /\ only.q = s.q
  BY <1>1 DEF BrowseStates
<1> HIDE DEF s, chosen, only
<1>3. /\ option.checked <=> value \in s.facets[name]
      /\ option.count = Cardinality(others)
      /\ option.disabled <=> Cardinality(others) = 0 /\ ~(value \in s.facets[name])
  <2> DEFINE checked == value \in s.facets[name]
             count == FacetCount(s, name, value)
  <2>1. option = [checked |-> checked, count |-> count, disabled |-> count = 0 /\ ~checked]
    BY <1>1 DEF Options
  <2>2. count = Cardinality(others)
    BY DEF FacetCount
  <2> HIDE DEF count, option, others
  <2>3. option.count = count /\ (option.checked <=> checked) /\ (option.disabled <=> count = 0 /\ ~checked)
    <3> HIDE DEF checked
    <3> QED  BY <2>1
  <2> QED  BY <2>2, <2>3
<1>4. Cardinality(others) = 0 => others = {}
  <2>1. others \in SUBSET Resources
    OBVIOUS
  <2> HIDE DEF others
  <2> QED  BY <2>1, ResourcesAssumption, FS_Subset, FS_EmptySet
<1>5. Found(only) = others
  <2>1. \A n \in FacetNames : only.facets[n] = IF n = name THEN {value} ELSE s.facets[n]
    BY <1>2
  <2>2. ASSUME NEW e PROVE MatchesResource(e, only, {}) <=> MatchesResource(e, s, {name}) /\ value \in Values(e, name)
    BY <1>2, <2>1 DEF MatchesResource
  <2> QED  BY <2>2 DEF Found
<1>6. \A n \in FacetNames : chosen.facets[n] = IF n = name THEN s.facets[n] \union {value} ELSE s.facets[n]
  BY <1>2
<1>7. ASSUME NEW e \in others PROVE e \in Found(chosen)
  BY <1>2, <1>6 DEF MatchesResource, Found
<1>8. ASSUME others = {}, NEW e \in Found(chosen), s.facets[name] # {} PROVE e \in Found(s)
  <2>1. e \in Resources /\ chosen.q.words \subseteq e.text
        /\ \A n \in FacetNames : chosen.facets[n] # {} => chosen.facets[n] \intersect Values(e, n) # {}
    BY DEF Found, MatchesResource
  <2>2. MatchesResource(e, s, {name})
    BY <1>2, <1>6, <2>1 DEF MatchesResource
  <2>3. value \notin Values(e, name)
    BY <1>8, <2>1, <2>2
  <2>4. s.facets[name] \intersect Values(e, name) # {}
    BY <1>6, <2>1, <2>3
  <2> QED  BY <2>1, <2>2, <2>4 DEF MatchesResource, Found
<1> HIDE DEF others, option
<1>9. option.disabled => others = {}
  BY <1>3, <1>4
<1>10. ~option.checked /\ ~option.disabled => Found(chosen) # {}
  <2>1. ASSUME ~option.checked, ~option.disabled PROVE others # {}
    BY <1>3, <2>1, FS_EmptySet
  <2> QED  BY <1>7, <2>1
<1> QED  BY <1>3, <1>5, <1>8, <1>9, <1>10 DEF option, chosen, only, s

\* The button of an empty page leads to resources.
LEMMA RecoveryFollows == BrowserInv => RecoveryHelps
<1> SUFFICES ASSUME BrowserInv, resourceShown.empty, Resources # {}
             PROVE  /\ Found(RecoveredState(resourceState, resourceShown.recovery)) # {}
                    /\ resourceShown.recovery = "Reset all" =>
                         Found(WithoutQuery(resourceState)) = {} /\ Found(WithoutFilters(resourceState)) = {}
  BY DEF RecoveryHelps
<1> DEFINE s == resourceState
           action == resourceShown.recovery
           t == RecoveredState(s, action)
<1>1. BrowseOK(s) /\ s \in BrowseStates /\ action = SearchRecoveryAction(s)
  <2>1. PICK u, r : /\ u \in BrowseStates /\ r \in Recoveries /\ resourceShown = ResourceRender(u, r)
                    /\ BrowseOK(s) /\ s \in BrowseStates
                    /\ s.q = u.q /\ s.facets = u.facets /\ s.sort = u.sort /\ s.titleSort = u.titleSort
    BY Rendered
  <2>2. Found(u) = {} /\ action = SearchRecoveryAction(u)
    BY <2>1, RenderDoes
  <2>3. /\ Found(WithoutFilters(s)) = Found(WithoutFilters(u)) /\ Found(WithoutQuery(s)) = Found(WithoutQuery(u))
        /\ HasQuery(s) = HasQuery(u) /\ HasFilters(s) = HasFilters(u)
    <3>1. WithoutFilters(s).q = WithoutFilters(u).q /\ WithoutFilters(s).facets = WithoutFilters(u).facets
          /\ WithoutQuery(s).q = WithoutQuery(u).q /\ WithoutQuery(s).facets = WithoutQuery(u).facets
      BY <2>1 DEF WithoutFilters, WithoutQuery, BrowseStates
    <3>2. \A e : /\ MatchesResource(e, WithoutFilters(s), {}) <=> MatchesResource(e, WithoutFilters(u), {})
                 /\ MatchesResource(e, WithoutQuery(s), {}) <=> MatchesResource(e, WithoutQuery(u), {})
      BY <3>1 DEF MatchesResource
    <3> QED  BY <2>1, <3>2 DEF Found, HasQuery, HasFilters
  <2> QED  BY <2>1, <2>2, <2>3 DEF SearchRecoveryAction
<1>2. t.q = (IF action = "Clear filters" THEN s.q ELSE NoQuery)
      /\ t.facets = (IF action = "Clear search" THEN s.facets ELSE [name \in FacetNames |-> {}])
  <2> HIDE DEF s, action
  <2>1. \A u, a : BrowseOK(u) =>
          /\ RecoveredState(u, a).q = (IF a = "Clear filters" THEN u.q ELSE NoQuery)
          /\ RecoveredState(u, a).facets = (IF a = "Clear search" THEN u.facets ELSE [name \in FacetNames |-> {}])
    BY RecoveredIsOK
  <2> QED  BY <1>1, <2>1
<1>3. WithoutFilters(s).q = s.q /\ WithoutFilters(s).facets = [name \in FacetNames |-> {}]
      /\ WithoutQuery(s).q = NoQuery /\ WithoutQuery(s).facets = s.facets
  BY <1>1 DEF WithoutFilters, WithoutQuery, BrowseStates
<1> HIDE DEF s, action, t
\* What the words and the facets find is all that matters.
<1>4. \A u, v : u.q.words = v.q.words /\ u.facets = v.facets => Found(u) = Found(v)
  BY DEF Found, MatchesResource
<1>5. \A u : u.q.words = {} /\ u.facets = [name \in FacetNames |-> {}] => Found(u) = Resources
  BY DEF Found, MatchesResource
<1>6. NoQuery.words = {}
  BY DEF NoQuery
<1>7. ~HasFilters(s) => s.facets = [name \in FacetNames |-> {}]
  <2>1. s.facets \in [FacetNames -> SUBSET AllValues]
    BY <1>1 DEF BrowseStates
  <2> QED  BY <2>1 DEF HasFilters
<1>8. ~HasQuery(s) => s.q.words = {}
  BY DEF HasQuery
<1>9. CASE HasQuery(s) /\ HasFilters(s) /\ Found(WithoutFilters(s)) # {}
  <2>1. action = "Clear filters"
    BY <1>1, <1>9 DEF SearchRecoveryAction
  <2>2. Found(t) = Found(WithoutFilters(s))
    BY <1>2, <1>3, <1>4, <2>1
  <2> QED  BY <1>9, <2>1, <2>2 DEF s, action, t
<1>10. CASE HasQuery(s) /\ HasFilters(s) /\ Found(WithoutFilters(s)) = {} /\ Found(WithoutQuery(s)) # {}
  <2>1. action = "Clear search"
    BY <1>1, <1>10 DEF SearchRecoveryAction
  <2>2. Found(t) = Found(WithoutQuery(s))
    BY <1>2, <1>3, <1>4, <2>1
  <2> QED  BY <1>10, <2>1, <2>2 DEF s, action, t
<1>11. CASE HasQuery(s) /\ HasFilters(s) /\ Found(WithoutFilters(s)) = {} /\ Found(WithoutQuery(s)) = {}
  <2>1. action = "Reset all"
    BY <1>1, <1>11 DEF SearchRecoveryAction
  <2>2. Found(t) = Resources
    BY <1>2, <1>5, <1>6, <2>1
  <2> QED  BY <1>11, <2>2 DEF s, action, t
<1>12. CASE ~HasQuery(s) /\ HasFilters(s)
  <2>1. action = "Clear filters"
    BY <1>1, <1>12 DEF SearchRecoveryAction
  <2>2. Found(t) = Resources
    BY <1>2, <1>5, <1>8, <1>12, <2>1
  <2> QED  BY <2>1, <2>2 DEF s, action, t
<1>13. CASE ~HasFilters(s)
  <2>1. action = "Clear search"
    BY <1>1, <1>13 DEF SearchRecoveryAction
  <2>2. Found(t) = Resources
    BY <1>2, <1>5, <1>6, <1>7, <1>13, <2>1
  <2> QED  BY <2>1, <2>2 DEF s, action, t
<1> QED  BY <1>9, <1>10, <1>11, <1>12, <1>13

\* The pages together show all that is found, in order.
LEMMA PagesFollow == BrowserInv => PagesShowAll
<1> SUFFICES ASSUME BrowserInv PROVE PagesShowAll
  OBVIOUS
<1> DEFINE s == resourceState
           rec == resourceShown.recovery
           F == FilterResources(s)
           N == Cardinality(Found(s))
           K == PageCount(s)
           visible(page) == ResourceRender([s EXCEPT !.page = page], rec).visible
           all == FlattenSeq([page \in 1 .. resourceShown.pages |-> visible(page)])
           cut == [k \in 0 .. K |-> CutAt(s, k)]
<1>1. /\ s \in BrowseStates /\ resourceShown.pages = K /\ K \in Nat \ {0} /\ rec \in Recoveries
      /\ s.page \in 1 .. K
      /\ resourceShown.visible = SubSeq(F, CutAt(s, s.page - 1) + 1, CutAt(s, s.page))
      /\ (resourceShown.empty <=> Found(s) = {})
  <2>1. PICK u, r : /\ u \in BrowseStates /\ r \in Recoveries /\ resourceShown = ResourceRender(u, r)
                    /\ s \in BrowseStates /\ s.page = PageOf(u) /\ Found(s) = Found(u)
                    /\ F = FilterResources(u) /\ K = PageCount(u) /\ K \in Nat \ {0}
                    /\ PageOf(u) \in 1 .. K
                    /\ s.q = u.q /\ s.facets = u.facets /\ s.sort = u.sort /\ s.titleSort = u.titleSort
    BY Rendered
  <2>2. \A k : CutAt(s, k) = CutAt(u, k)
    BY <2>1, SameResults
  <2>3. /\ resourceShown.visible = SubSeq(FilterResources(u), CutAt(u, PageOf(u) - 1) + 1, CutAt(u, PageOf(u)))
        /\ resourceShown.pages = PageCount(u) /\ (resourceShown.empty <=> Found(u) = {})
    BY <2>1, RenderDoes
  <2>4. rec \in Recoveries
    BY InvMeans
  <2> HIDE DEF s, rec, F, K
  <2>5. resourceShown.visible = SubSeq(F, CutAt(s, s.page - 1) + 1, CutAt(s, s.page))
    BY <2>1, <2>2, <2>3
  <2>6. /\ s \in BrowseStates /\ resourceShown.pages = K /\ K \in Nat \ {0} /\ s.page \in 1 .. K
        /\ (resourceShown.empty <=> Found(s) = {})
    BY <2>1, <2>3
  <2> QED  BY <2>4, <2>5, <2>6
<1>2. /\ N \in Nat /\ F \in [1 .. N -> Found(s)] /\ F \in Seq(Resources) /\ Len(F) = N
      /\ \A i \in 1 .. N : RankIn(s, F[i]) = i
      /\ \A e \in Found(s) : \E i \in 1 .. N : F[i] = e
      /\ \A i, j \in 1 .. N : i < j => Before(s, F[i], F[j])
  BY FilterDoes
<1>3. /\ \A k \in 0 .. K : CutAt(s, k) \in 0 .. N
      /\ CutAt(s, 0) = 0 /\ CutAt(s, K) = N
      /\ \A k \in 1 .. K : CutAt(s, k - 1) <= CutAt(s, k) /\ (N # 0 => CutAt(s, k - 1) < CutAt(s, k))
  BY Cuts
<1> HIDE DEF s, rec, F, N, K
<1>4. \A page \in 1 .. K : visible(page) = SubSeq(F, CutAt(s, page - 1) + 1, CutAt(s, page))
  <2> SUFFICES ASSUME NEW page \in 1 .. K PROVE visible(page) = SubSeq(F, CutAt(s, page - 1) + 1, CutAt(s, page))
    OBVIOUS
  <2> DEFINE t == [s EXCEPT !.page = page]
  <2>1. page \in Nat \ {0}
    BY <1>1
  <2>2. /\ t \in BrowseStates /\ t.q = s.q /\ t.facets = s.facets /\ t.sort = s.sort /\ t.titleSort = s.titleSort
        /\ t.page = page
    BY <1>1, <2>1 DEF BrowseStates
  <2> HIDE DEF t
  <2>3. FilterResources(t) = F /\ PageCount(t) = K /\ \A k : CutAt(t, k) = CutAt(s, k)
    BY <2>2, SameResults DEF F, K
  <2>4. PageOf(t) = page
    BY <1>1, <2>1, <2>2, <2>3 DEF PageOf
  <2>5. ResourceRender(t, rec).visible = SubSeq(FilterResources(t), CutAt(t, PageOf(t) - 1) + 1, CutAt(t, PageOf(t)))
    BY <1>1, <2>2, RenderDoes
  <2> QED  BY <2>3, <2>4, <2>5 DEF t
<1>5. all = F
  <2>1. /\ cut \in [0 .. K -> 0 .. Len(F)] /\ cut[0] = 0 /\ cut[K] = Len(F)
        /\ \A k \in 1 .. K : cut[k - 1] <= cut[k]
    BY <1>1, <1>2, <1>3
  <2>2. \A k \in 1 .. K : cut[k - 1] = CutAt(s, k - 1) /\ cut[k] = CutAt(s, k)
    BY <1>1
  <2> DEFINE parts == [page \in 1 .. resourceShown.pages |-> visible(page)]
  <2> HIDE DEF cut, visible
  <2> DEFINE T == {visible(page) : page \in 1 .. K}
  <2>3. /\ parts \in [1 .. K -> T]
        /\ \A k \in 1 .. K : parts[k] = SubSeq(F, cut[k - 1] + 1, cut[k])
    BY <1>1, <1>4, <2>2
  <2> HIDE DEF T
  <2> HIDE DEF parts
  <2>4. FlattenSeq(parts) = F
    <3>1. F \in Seq(Resources) /\ K \in Nat \ {0}
      BY <1>1, <1>2
    <3> QED  BY <2>1, <2>3, <3>1, PartsMakeAll
  <2> QED  BY <2>4 DEF parts
<1>6. ToSet(F) = Found(s)
  BY <1>2 DEF ToSet
<1>7. IsInjective(F)
  BY <1>2 DEF IsInjective
<1>8. ASSUME NEW i \in DOMAIN F, NEW j \in DOMAIN F, i < j
      PROVE  /\ F[i].date = 0 => F[j].date = 0
             /\ F[j].date # 0 /\ s.sort = "newest" => F[i].date >= F[j].date
             /\ F[j].date # 0 /\ s.sort = "oldest" => F[i].date <= F[j].date
             /\ F[i].date = F[j].date =>
                  IF s.titleSort = "asc" THEN F[i].title <= F[j].title ELSE F[i].title >= F[j].title
  <2> DEFINE a == F[i]
             b == F[j]
  <2>1. Before(s, a, b) /\ a \in Resources /\ b \in Resources
    <3>1. i \in 1 .. N /\ j \in 1 .. N
      BY <1>2
    <3>2. Found(s) \subseteq Resources
      BY DEF Found
    <3> QED  BY <1>2, <1>8, <3>1, <3>2
  <2>2. a.date \in Nat /\ b.date \in Nat /\ a.title \in Int /\ b.title \in Int /\ a.id \in Int /\ b.id \in Int
    BY <2>1, ResourcesAssumption
  <2>3. s.sort \in {"newest", "oldest"} /\ s.titleSort \in {"asc", "desc"}
    BY <1>1 DEF BrowseStates
  <2> HIDE DEF a, b
  <2>4. /\ a.date = 0 => b.date = 0
        /\ b.date # 0 /\ s.sort = "newest" => a.date >= b.date
        /\ b.date # 0 /\ s.sort = "oldest" => a.date <= b.date
        /\ a.date = b.date => IF s.titleSort = "asc" THEN a.title <= b.title ELSE a.title >= b.title
    BY <2>1, <2>2, <2>3 DEF Before
  <2> QED  BY <2>4 DEF a, b
<1>9. Found(s) = {entry \in Resources : /\ s.q.words \subseteq entry.text
                                        /\ \A name \in FacetNames :
                                             s.facets[name] = {} \/
                                             \E value \in s.facets[name] : value \in Values(entry, name)}
  BY DEF Found, MatchesResource
<1>10. resourceShown.visible = <<>> => resourceShown.empty
  <2> SUFFICES ASSUME resourceShown.visible = <<>>, Found(s) # {} PROVE FALSE
    BY <1>1
  <2> DEFINE m == CutAt(s, s.page - 1)
             n == CutAt(s, s.page)
  <2>1. N # 0
    BY FoundIsFinite, FS_EmptySet DEF N
  <2>2. m < n /\ m \in 0 .. N /\ n \in 0 .. N
    BY <1>1, <1>3, <2>1
  <2> HIDE DEF m, n
  <2>3. \A i \in m + 1 .. n : F[i] \in Resources
    <3>1. \A i \in m + 1 .. n : i \in 1 .. N
      BY <1>2, <2>2
    <3>2. Found(s) \subseteq Resources
      BY DEF Found
    <3> QED  BY <1>2, <3>1, <3>2
  <2>4. m + 1 \in Int /\ n \in Int /\ m + 1 <= n
    BY <1>2, <2>2
  <2>5. Len(SubSeq(F, m + 1, n)) = n - (m + 1) + 1
    BY <2>3, <2>4, SubSeqProperties
  <2>6. Len(SubSeq(F, m + 1, n)) = 0
    BY <1>1, EmptySeq DEF m, n
  <2> QED  BY <2>4, <2>5, <2>6
<1> HIDE DEF visible
<1>11. /\ ToSet(all) = {entry \in Resources : /\ s.q.words \subseteq entry.text
                                              /\ \A name \in FacetNames :
                                                   s.facets[name] = {} \/
                                                   \E value \in s.facets[name] : value \in Values(entry, name)}
       /\ IsInjective(all)
       /\ \A i, j \in DOMAIN all : i < j =>
            /\ all[i].date = 0 => all[j].date = 0
            /\ all[j].date # 0 /\ s.sort = "newest" => all[i].date >= all[j].date
            /\ all[j].date # 0 /\ s.sort = "oldest" => all[i].date <= all[j].date
            /\ all[i].date = all[j].date =>
                 IF s.titleSort = "asc" THEN all[i].title <= all[j].title ELSE all[i].title >= all[j].title
       /\ resourceShown.visible = <<>> => resourceShown.empty
  <2> HIDE DEF all
  <2> QED  BY <1>5, <1>6, <1>7, <1>8, <1>9, <1>10
<1> QED  BY <1>11 DEF PagesShowAll, visible, s, rec

\* A pager shows what PagerShowsNeighbours says.
HasNeighbours(items, page, pages) ==
    LET numbers == ToSet(items) \ {Gap}
    IN  /\ {1, pages, page} \subseteq numbers
        /\ \A p \in {page - 1, page + 1} \intersect (1 .. pages) : p \in numbers
        /\ numbers \subseteq 1 .. pages
        /\ \A i \in 1 .. Len(items) - 1 :
             IF items[i + 1] = Gap THEN items[i + 2] - items[i] >= 3
             ELSE items[i] # Gap => items[i + 1] = items[i] + 1

\* A pager that has its pages and gaps where they belong.
LEMMA PagerHas ==
    ASSUME NEW pages \in Nat \ {0}, NEW page \in 1 .. pages, NEW items,
           Len(items) = 7, DOMAIN items = 1 .. 7,
           \E i \in 1 .. 7 : items[i] = 1, \E i \in 1 .. 7 : items[i] = pages, \E i \in 1 .. 7 : items[i] = page,
           page = 1 \/ \E i \in 1 .. 7 : items[i] = page - 1, page = pages \/ \E i \in 1 .. 7 : items[i] = page + 1,
           \A i \in 1 .. 7 : items[i] = Gap \/ items[i] \in 1 .. pages,
           \A i \in 1 .. 6 : IF items[i + 1] = Gap THEN items[i + 2] - items[i] >= 3
                                 ELSE items[i] # Gap => items[i + 1] = items[i] + 1
    PROVE  HasNeighbours(items, page, pages)
<1> DEFINE numbers == ToSet(items) \ {Gap}
<1>1. \A p : p \in numbers <=> p # 0 /\ \E i \in 1 .. 7 : items[i] = p
  BY DEF ToSet, Gap
<1> HIDE DEF numbers
<1>2. pages # 0 /\ page # 0 /\ 1 # 0
  OBVIOUS
<1>3. {1, pages, page} \subseteq numbers
  BY <1>1, <1>2
<1>4. ASSUME NEW p \in {page - 1, page + 1}, p \in 1 .. pages PROVE p \in numbers
  <2>1. p # 0
    BY <1>4
  <2>2. CASE p = page - 1
    <3>1. page # 1
      BY <2>1, <2>2
    <3> QED  BY <1>1, <2>1, <2>2, <3>1
  <2>3. CASE p = page + 1
    <3>1. page # pages
      BY <1>4, <2>3
    <3> QED  BY <1>1, <2>1, <2>3, <3>1
  <2> QED  BY <2>2, <2>3
<1>5. numbers \subseteq 1 .. pages
  BY <1>1 DEF Gap
<1> QED  BY <1>3, <1>4, <1>5 DEF numbers, HasNeighbours

\* The numbers of the pager.
LEMMA PagerDoes ==
    ASSUME NEW pages \in Nat \ {0}, NEW page \in 1 .. pages
    PROVE  HasNeighbours(BrowsePageItems(page, pages), page, pages)
<1>1. CASE pages <= 7
  <2> DEFINE items == [i \in 1 .. pages |-> i]
  <2>1. BrowsePageItems(page, pages) = items
    BY <1>1 DEF BrowsePageItems
  <2>2. items \in [1 .. pages -> 1 .. pages] /\ \A i \in 1 .. pages : items[i] = i
    OBVIOUS
  <2>3. items \in Seq(1 .. pages)
    BY <2>2, SeqDef
  <2> HIDE DEF items
  <2>4. Len(items) = pages /\ DOMAIN items = 1 .. pages
    BY <2>2, <2>3, LenProperties
  <2>5. ToSet(items) = 1 .. pages
    BY <2>2, <2>4 DEF ToSet
  <2>6. ToSet(items) \ {Gap} = 1 .. pages
    BY <2>5 DEF Gap
  <2>7. \A i \in 1 .. Len(items) - 1 : items[i + 1] = items[i] + 1 /\ items[i + 1] # Gap
    BY <2>2, <2>4 DEF Gap
  <2>8. {1, pages, page} \subseteq 1 .. pages
    OBVIOUS
  <2>9. HasNeighbours(items, page, pages)
    BY <2>6, <2>7, <2>8 DEF HasNeighbours
  <2> QED  BY <2>1, <2>9
<1>3. CASE pages > 7 /\ page <= 4
  <2> DEFINE items == <<1, 2, 3, 4, 5, Gap, pages>>
  <2>1. BrowsePageItems(page, pages) = items
    BY <1>3 DEF BrowsePageItems
  <2>2. /\ Len(items) = 7 /\ DOMAIN items = 1 .. 7
        /\ items[1] = 1 /\ items[2] = 2 /\ items[3] = 3 /\ items[4] = 4 /\ items[5] = 5 /\ items[6] = Gap /\ items[7] = pages
    OBVIOUS
  <2> HIDE DEF items
  <2>3. \A i \in 1 .. 7 : i = 1 \/ i = 2 \/ i = 3 \/ i = 4 \/ i = 5 \/ i = 6 \/ i = 7
    OBVIOUS
  <2>4. /\ 1 \in 1 .. 7 /\ 2 \in 1 .. 7 /\ 3 \in 1 .. 7 /\ 4 \in 1 .. 7 /\ 5 \in 1 .. 7 /\ 6 \in 1 .. 7 /\ 7 \in 1 .. 7
    OBVIOUS
  <2>5. /\ \E i \in 1 .. 7 : items[i] = 1
        /\ \E i \in 1 .. 7 : items[i] = pages
    BY <2>2, <2>4
  <2>6. /\ \E i \in 1 .. 7 : items[i] = page
        /\ page = 1 \/ \E i \in 1 .. 7 : items[i] = page - 1
        /\ page = pages \/ \E i \in 1 .. 7 : items[i] = page + 1
    BY <1>3, <2>2, <2>4
  <2>7. \A i \in 1 .. 7 : items[i] = Gap \/ items[i] \in 1 .. pages
    BY <1>3, <2>2, <2>3
  <2>8. \A i \in 1 .. 6 : IF items[i + 1] = Gap THEN items[i + 2] - items[i] >= 3
                        ELSE items[i] # Gap => items[i + 1] = items[i] + 1
    BY <1>3, <2>2, <2>3 DEF Gap
  <2> QED  BY <2>1, <2>2, <2>5, <2>6, <2>7, <2>8, PagerHas
<1>4. CASE pages > 7 /\ page > 4 /\ page >= pages - 3
  <2> DEFINE items == <<1, Gap, pages - 4, pages - 3, pages - 2, pages - 1, pages>>
  <2>1. BrowsePageItems(page, pages) = items
    BY <1>4 DEF BrowsePageItems
  <2>2. /\ Len(items) = 7 /\ DOMAIN items = 1 .. 7
        /\ items[1] = 1 /\ items[2] = Gap /\ items[3] = pages - 4 /\ items[4] = pages - 3 /\ items[5] = pages - 2
        /\ items[6] = pages - 1 /\ items[7] = pages
    OBVIOUS
  <2> HIDE DEF items
  <2>3. \A i \in 1 .. 7 : i = 1 \/ i = 2 \/ i = 3 \/ i = 4 \/ i = 5 \/ i = 6 \/ i = 7
    OBVIOUS
  <2>4. /\ 1 \in 1 .. 7 /\ 2 \in 1 .. 7 /\ 3 \in 1 .. 7 /\ 4 \in 1 .. 7 /\ 5 \in 1 .. 7 /\ 6 \in 1 .. 7 /\ 7 \in 1 .. 7
    OBVIOUS
  <2>5. /\ \E i \in 1 .. 7 : items[i] = 1
        /\ \E i \in 1 .. 7 : items[i] = pages
    BY <2>2, <2>4
  <2>6. /\ \E i \in 1 .. 7 : items[i] = page
        /\ page = 1 \/ \E i \in 1 .. 7 : items[i] = page - 1
        /\ page = pages \/ \E i \in 1 .. 7 : items[i] = page + 1
    BY <1>4, <2>2, <2>4
  <2>7. \A i \in 1 .. 7 : items[i] = Gap \/ items[i] \in 1 .. pages
    BY <1>4, <2>2, <2>3
  <2>8. \A i \in 1 .. 6 : IF items[i + 1] = Gap THEN items[i + 2] - items[i] >= 3
                        ELSE items[i] # Gap => items[i + 1] = items[i] + 1
    BY <1>4, <2>2, <2>3 DEF Gap
  <2> QED  BY <2>1, <2>2, <2>5, <2>6, <2>7, <2>8, PagerHas
<1>5. CASE pages > 7 /\ page > 4 /\ page < pages - 3
  <2> DEFINE items == <<1, Gap, page - 1, page, page + 1, Gap, pages>>
  <2>1. BrowsePageItems(page, pages) = items
    BY <1>5 DEF BrowsePageItems
  <2>2. /\ Len(items) = 7 /\ DOMAIN items = 1 .. 7
        /\ items[1] = 1 /\ items[2] = Gap /\ items[3] = page - 1 /\ items[4] = page /\ items[5] = page + 1
        /\ items[6] = Gap /\ items[7] = pages
    OBVIOUS
  <2> HIDE DEF items
  <2>3. \A i \in 1 .. 7 : i = 1 \/ i = 2 \/ i = 3 \/ i = 4 \/ i = 5 \/ i = 6 \/ i = 7
    OBVIOUS
  <2>4. /\ 1 \in 1 .. 7 /\ 2 \in 1 .. 7 /\ 3 \in 1 .. 7 /\ 4 \in 1 .. 7 /\ 5 \in 1 .. 7 /\ 6 \in 1 .. 7 /\ 7 \in 1 .. 7
    OBVIOUS
  <2>5. /\ \E i \in 1 .. 7 : items[i] = 1
        /\ \E i \in 1 .. 7 : items[i] = pages
    BY <2>2, <2>4
  <2>6. /\ \E i \in 1 .. 7 : items[i] = page
        /\ page = 1 \/ \E i \in 1 .. 7 : items[i] = page - 1
        /\ page = pages \/ \E i \in 1 .. 7 : items[i] = page + 1
    BY <1>5, <2>2, <2>4
  <2>7. \A i \in 1 .. 7 : items[i] = Gap \/ items[i] \in 1 .. pages
    BY <1>5, <2>2, <2>3
  <2>8. \A i \in 1 .. 6 : IF items[i + 1] = Gap THEN items[i + 2] - items[i] >= 3
                        ELSE items[i] # Gap => items[i + 1] = items[i] + 1
    BY <1>5, <2>2, <2>3 DEF Gap
  <2> QED  BY <2>1, <2>2, <2>5, <2>6, <2>7, <2>8, PagerHas
<1> QED  BY <1>1, <1>3, <1>4, <1>5

\* The pager shows the ends and the neighbours of its page.
LEMMA PagerFollows == BrowserInv => PagerShowsNeighbours
<1> SUFFICES ASSUME BrowserInv PROVE PagerShowsNeighbours
  OBVIOUS
<1>1. PICK u, r : /\ u \in BrowseStates /\ r \in Recoveries /\ resourceShown = ResourceRender(u, r)
                  /\ resourceState.page = PageOf(u) /\ PageOf(u) \in 1 .. PageCount(u) /\ PageCount(u) \in Nat \ {0}
  BY Rendered
<1>2. resourceShown.pages = PageCount(u) /\ resourceShown.items = BrowsePageItems(PageOf(u), PageCount(u))
  BY <1>1, RenderDoes
<1>3. /\ resourceShown.pages \in Nat \ {0} /\ resourceState.page \in 1 .. resourceShown.pages
      /\ resourceShown.items = BrowsePageItems(resourceState.page, resourceShown.pages)
  BY <1>1, <1>2
<1> DEFINE pages == resourceShown.pages
           page == resourceState.page
           items == resourceShown.items
<1> HIDE DEF pages, page, items
<1>4. /\ pages \in Nat \ {0} /\ page \in 1 .. pages /\ items = BrowsePageItems(page, pages)
  BY <1>3 DEF pages, page, items
<1>5. HasNeighbours(items, page, pages)
  BY <1>4, PagerDoes
<1> QED  BY <1>5 DEF HasNeighbours, PagerShowsNeighbours, pages, page, items

\* Whatever the visitor types, chooses, orders, pages through and goes back to, the
\* list, its pager, its options and the address show what the search finds, and an
\* empty page offers a way to results (resource-search.ts, ResourceBrowser.ts).
THEOREM ResourcesAreSafe == ResourceSpec => []ResourcesSafe
<1>1. ResourceInit => BrowserInv
  BY InitBrowser
<1>2. BrowserInv /\ [ResourceNext]_resourceVars => BrowserInv'
  BY NextBrowser
<1>3. BrowserInv => ResourcesSafe
  BY TypesFollow, AddressFollows, PagesFollow, OptionsFollow, RecoveryFollows, PagerFollows DEF ResourcesSafe
<1> QED  BY <1>1, <1>2, <1>3, PTL DEF ResourceSpec

\* Resetting a search keeps its orders, and a narrowed or reordered list starts at its
\* first page (reset and the handlers of ResourceBrowser.ts).
THEOREM OrderIsKept == ResourceSpec => [][OrderSurvivesReset]_resourceVars
<1>1. ResourceInit => BrowserInv
  BY InitBrowser
<1>2. BrowserInv /\ [ResourceNext]_resourceVars => BrowserInv'
  BY NextBrowser
<1>3. BrowserInv /\ [ResourceNext]_resourceVars => [OrderSurvivesReset]_resourceVars
  BY NextBrowser
<1> QED  BY <1>1, <1>2, <1>3, PTL DEF ResourceSpec

-----------------------------------------------------------------------------
(* Filters and resources: the two ways a page of SitePages has to write    *)
(* its state into the address.                                             *)

\* Address, history, filters and results agree, for any addresses, resources and
\* numbers of results on a page, whatever overtook what.
THEOREM AddressIsSafe == SafeSpec /\ ResourceSpec => []AddressSafe
BY FiltersAreSafe, ResourcesAreSafe, PTL DEF AddressSafe
=============================================================================
