--------------------------- MODULE MermaidDiagrams --------------------------
(***************************************************************************)
(* The diagrams of a page (mermaid.ts).  The library is loaded when a page *)
(* with diagrams is shown; it has one configuration, with the theme, so    *)
(* that one worker draws one diagram after the other.  Meanwhile the       *)
(* visitor changes the theme or goes to another page: what was asked for   *)
(* is noted (pending), and what an older request still delivers is not     *)
(* shown.                                                                  *)
(***************************************************************************)
EXTENDS Integers, FiniteSets

CONSTANTS
    Pages,          \* 1 .. n, shown in this order
    Diagrams,       \* page -> the numbers of its diagrams
    Themes,
    MaxToggles      \* bound: changes of the theme

ASSUME PagesAssumption == 1 \in Pages /\ Pages \subseteq Nat \ {0}

ASSUME ThemesAssumption == "" \notin Themes

Workers == 1 .. 2   \* what running keeps to one

VARIABLES
    document,   \* the page shown, document.body
    dataTheme,  \* the theme of the document
    mutated,    \* a change of the theme the observer has yet to report
    body, theme, generation, pending, running, rendered,
    shown,      \* diagram -> what it shows: its source, the drawing in a theme, or an error
    worker,     \* worker -> its state
    config,     \* the theme the library is set to
    toggles

requests == <<body, theme, generation, pending, running>>

vars == <<document, dataTheme, mutated, requests, rendered, shown, worker, config, toggles>>

DiagramsOf(page) == {<<page, i>> : i \in Diagrams[page]}

All == UNION {DiagramsOf(page) : page \in Pages}

Source == "source"

Error == "error"

Idle == [pc |-> "idle"]

Init ==
    /\ document = 1 /\ dataTheme \in Themes /\ mutated = FALSE
    /\ body = 0 /\ theme = "default" /\ generation = 0
    /\ pending = FALSE /\ running = FALSE
    /\ rendered = [d \in All |-> ""]
    /\ shown = [d \in All |-> Source]
    /\ worker = [w \in Workers |-> Idle]
    /\ config = ""
    /\ toggles = 0

(* schedule, for a page and the generation it has by then: the request is  *)
(* noted, and a worker started (by a microtask) if none is running.        *)
Schedule(nextBody, nextGeneration) ==
    /\ body' = nextBody
    /\ theme' = dataTheme
    /\ generation' = IF dataTheme # theme THEN nextGeneration + 1 ELSE nextGeneration
    /\ pending' = TRUE
    /\ running' = TRUE
    /\ IF running THEN UNCHANGED worker
       ELSE worker' = [worker EXCEPT ![CHOOSE w \in Workers : worker[w].pc = "idle"] = [pc |-> "loop"]]

(* astro:page-load.                                                        *)
PageLoad ==
    /\ body # document
    /\ Schedule(document, generation + 1)
    /\ UNCHANGED <<document, dataTheme, mutated, rendered, shown, config, toggles>>

(* astro:before-swap and the swap that follows it: the next page's root    *)
(* attributes may bring another theme until the visitor's is restored.     *)
LeavePage ==
    /\ document + 1 \in Pages /\ ~mutated
    /\ document' = document + 1
    /\ dataTheme' \in Themes
    /\ generation' = generation + 1
    /\ body' = 0 /\ pending' = FALSE
    /\ UNCHANGED <<mutated, theme, running, rendered, shown, worker, config, toggles>>

(* The visitor, or a script, changes the theme; the observer is connected  *)
(* while a page is shown.                                                  *)
Toggle ==
    /\ toggles < MaxToggles /\ ~mutated
    /\ toggles' = toggles + 1
    /\ \E next \in Themes \ {dataTheme} : dataTheme' = next
    /\ mutated' = (body # 0)
    /\ UNCHANGED <<document, requests, rendered, shown, worker, config>>

(* The observer of the document, before any later event.                   *)
ThemeObserved ==
    /\ mutated
    /\ mutated' = FALSE
    /\ IF dataTheme # theme THEN Schedule(body, generation)
       ELSE UNCHANGED <<requests, worker>>
    /\ UNCHANGED <<document, dataTheme, rendered, shown, config, toggles>>

(* What was asked for is still what is wanted.                             *)
Current(w) ==
    /\ body = worker[w].page /\ document = worker[w].page
    /\ generation = worker[w].revision
    /\ dataTheme = worker[w].theme

Become(w, state) == worker' = [worker EXCEPT ![w] = state]

\* Broken: a request is served again and again.
TakeKept(w) ==
    /\ worker[w].pc = "loop"
    /\ IF pending /\ body # 0
       THEN /\ Become(w, [pc |-> "load", page |-> body, theme |-> theme, revision |-> generation,
                          left |-> {d \in DiagramsOf(body) : rendered[d] # theme}])
            /\ UNCHANGED <<pending, running>>
       ELSE /\ Become(w, Idle)
            /\ running' = FALSE
            /\ UNCHANGED pending
    /\ UNCHANGED <<document, dataTheme, mutated, body, theme, generation, rendered, shown,
                   config, toggles>>

(* The loop of the worker: the next request, if there is one; the diagrams *)
(* that are not drawn in the theme.                                        *)
Take(w) ==
    /\ worker[w].pc = "loop"
    /\ IF pending /\ body # 0
       THEN LET left == {d \in DiagramsOf(body) : rendered[d] # theme}
            IN /\ pending' = FALSE
               /\ UNCHANGED running
               /\ IF left = {} THEN UNCHANGED worker
                  ELSE Become(w, [pc |-> "load", page |-> body, theme |-> theme,
                                  revision |-> generation, left |-> left])
       ELSE /\ Become(w, Idle)
            /\ running' = FALSE
            /\ UNCHANGED pending
    /\ UNCHANGED <<document, dataTheme, mutated, body, theme, generation, rendered, shown,
                   config, toggles>>

(* The library is there, now or from before, and is set to the theme.      *)
Loaded(w) ==
    /\ worker[w].pc = "load"
    /\ IF Current(w)
       THEN /\ config' = worker[w].theme
            /\ Become(w, [worker[w] EXCEPT !.pc = "next"])
       ELSE UNCHANGED config /\ Become(w, [pc |-> "loop"])
    /\ UNCHANGED <<document, dataTheme, mutated, requests, rendered, shown, toggles>>

(* It cannot be loaded: the next request tries again.                      *)
LoadFailed(w) ==
    /\ worker[w].pc = "load"
    /\ shown' = [d \in All |-> IF Current(w) /\ d \in worker[w].left THEN Error ELSE shown[d]]
    /\ Become(w, [pc |-> "loop"])
    /\ UNCHANGED <<document, dataTheme, mutated, requests, rendered, config, toggles>>

(* The next diagram, in their order on the page.                           *)
Render(w) ==
    /\ worker[w].pc = "next"
    /\ IF worker[w].left = {} \/ ~Current(w) THEN Become(w, [pc |-> "loop"])
       ELSE \E d \in worker[w].left :
               /\ \A other \in worker[w].left : d[2] <= other[2]
               /\ Become(w, [pc |-> "draw", page |-> worker[w].page, theme |-> worker[w].theme,
                             revision |-> worker[w].revision, left |-> worker[w].left \ {d},
                             diagram |-> d, with |-> config])
    /\ UNCHANGED <<document, dataTheme, mutated, requests, rendered, shown, config, toggles>>

After(w) == Become(w, [pc |-> "next", page |-> worker[w].page, theme |-> worker[w].theme,
                       revision |-> worker[w].revision, left |-> worker[w].left])

\* Broken: what is not shown counts as drawn.
DrawnUnseen(w) ==
    /\ worker[w].pc = "draw"
    /\ LET d == worker[w].diagram
       IN /\ rendered' = [rendered EXCEPT ![d] = worker[w].theme]
          /\ IF Current(w) THEN \E result \in {worker[w].with, Error} :
                                   shown' = [shown EXCEPT ![d] = result]
             ELSE UNCHANGED shown
    /\ After(w)
    /\ UNCHANGED <<document, dataTheme, mutated, requests, config, toggles>>

(* The drawing is delivered, or fails.                                     *)
Drawn(w) ==
    /\ worker[w].pc = "draw"
    /\ LET d == worker[w].diagram
       IN IF Current(w)
          THEN \E result \in {worker[w].with, Error} :
                  /\ shown' = [shown EXCEPT ![d] = result]
                  /\ rendered' = [rendered EXCEPT ![d] = worker[w].theme]
          ELSE UNCHANGED <<shown, rendered>>
    /\ After(w)
    /\ UNCHANGED <<document, dataTheme, mutated, requests, config, toggles>>

Work(w) == Take(w) \/ Loaded(w) \/ LoadFailed(w) \/ Render(w) \/ Drawn(w)

Next ==
    \/ PageLoad \/ LeavePage \/ Toggle \/ ThemeObserved
    \/ \E w \in Workers : Work(w)

(* The router ends a navigation, observers and promises are answered.      *)
Fairness ==
    /\ WF_vars(PageLoad) /\ WF_vars(ThemeObserved)
    /\ \A w \in Workers : WF_vars(Work(w))

Spec == Init /\ [][Next]_vars /\ Fairness

Request == [pc : {"load", "next"}, page : Pages, theme : Themes, revision : Nat, left : SUBSET All]

Drawing == [pc : {"draw"}, page : Pages, theme : Themes, revision : Nat, left : SUBSET All,
            diagram : All, with : Themes \cup {""}]

TypeOK ==
    /\ document \in Pages /\ body \in {0, document}
    /\ dataTheme \in Themes /\ theme \in Themes \cup {"default"} /\ config \in Themes \cup {""}
    /\ mutated \in BOOLEAN /\ pending \in BOOLEAN /\ running \in BOOLEAN
    /\ generation \in Nat
    /\ rendered \in [All -> Themes \cup {""}]
    /\ shown \in [All -> Themes \cup {"", Source, Error}]
    /\ worker \in [Workers -> {Idle, [pc |-> "loop"]} \cup Request \cup Drawing]
    /\ running <=> \E w \in Workers : worker[w].pc # "idle"
    /\ pending => running

(* "Serialize Mermaid's global configuration and rendering, including      *)
(* theme changes": no two workers, and a drawing is made with the theme    *)
(* that was asked for.                                                     *)
Serialized ==
    /\ \A v, w \in Workers : v # w => Idle \in {worker[v], worker[w]}
    /\ \A w \in Workers : worker[w].pc = "draw" => worker[w].with = worker[w].theme

(* A drawing appears only on the page that is shown, in the theme it has   *)
(* at that moment: nothing an older request delivers is shown.             *)
NothingStaleShown ==
    [][\A d \in All : shown'[d] # shown[d] =>
          d \in DiagramsOf(document) /\ shown'[d] \in {dataTheme, Error}]_vars

(* When nothing is under way, no diagram of the page is left in another    *)
(* theme or without a drawing, whatever changed while they were drawn.     *)
AllDrawnAtRest ==
    ~running /\ ~mutated /\ body # 0 =>
        \A d \in DiagramsOf(body) : shown[d] \in {dataTheme, Error}

(* However themes, pages and drawings overlap, no two drawings share the   *)
(* library's configuration and the page ends up drawn in its theme         *)
(* (mermaid.ts).                                                           *)
DiagramsCurrent == TypeOK /\ Serialized /\ AllDrawnAtRest

(* Changes of the theme and of the page come to an end, and so do the      *)
(* drawings.                                                               *)
ComesToRest == <>[](~running /\ body = document)
=============================================================================
