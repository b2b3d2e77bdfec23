------------------------------ MODULE Widgets ------------------------------
(***************************************************************************)
(* The announcement banner, the AppHost that is built on the home page, and*)
(* the languages a document is offered for; and, at the end, the widgets of*)
(* a page side by side: these, the guided tour and the geometry of its     *)
(* spotlight, the pivot selectors and the one that floats, and what is     *)
(* activated by the viewport.  They share no state.                        *)
(***************************************************************************)
EXTENDS SiteTour, SiteWidgets, Integers, Naturals, Sequences, SequencesExt, FiniteSets

-----------------------------------------------------------------------------

(***************************************************************************)
(* When the announcement banner is shown (utils/banner-expiry.ts), decided *)
(* twice on every page: by the script in the page before the first paint   *)
(* and by the controller of starlight/Banner.astro, which also remembers   *)
(* the first view and the dismissal in the browser's storage.              *)
(***************************************************************************)

CONSTANTS
    ExpiresOn,    \* when the banner is over for everyone, or None
    DismissAfter, \* time after the first view it is over for a reader, or None
    Strange,      \* what may be stored as the first view: no time at all, or not a positive one
    MaxTime, MaxCorrections, BannerNone

ASSUME BannerAssumption ==
    /\ BannerNone \notin Int /\ MaxTime \in Nat \ {0} /\ MaxCorrections \in Nat
    /\ DismissAfter \in Nat \cup {BannerNone} /\ ExpiresOn \in Int \cup {BannerNone}
    /\ \A raw \in Strange : raw \in Int => raw <= 0

VARIABLES
    now,        \* the reader's clock
    storage,    \* "works", "full": nothing can be written, "blocked"
    firstSeen,  \* the first view as it is stored, or None
    dismissed,  \* the dismissal as it is stored
    banner,     \* the element: "open", "closing", "closed", or "none" before a visit
    wired,      \* the element's dismiss button has its handler
    collapsing, \* whether a collapse of this element is to be finished
    decided,    \* history: whether the controller has seen the page
    shownAt,    \* history: the clock when the banner was first shown, or None
    gone,       \* history: the reader has dismissed the banner
    corrections \* history: times the clock has been set back

bannerVars == <<now, storage, firstSeen, dismissed, banner, wired, collapsing, decided, shownAt, gone, corrections>>

reader == <<now, storage, corrections>>

ParseFirstSeen(raw) == IF raw \in Int /\ raw > 0 /\ raw <= now THEN raw ELSE BannerNone

DateExpired == ExpiresOn # BannerNone /\ now >= ExpiresOn

AutoDismissed(seen) == DismissAfter # BannerNone /\ seen # BannerNone /\ now >= seen + DismissAfter

BannerVisible(seen, isDismissed) == ~isDismissed /\ ~DateExpired /\ ~AutoDismissed(seen)

\* Broken: the first view is stored again with every page.
PersistsAnew(seen, isDismissed) == BannerVisible(seen, isDismissed) /\ DismissAfter # BannerNone

Persists(seen, isDismissed) == BannerVisible(seen, isDismissed) /\ DismissAfter # BannerNone /\ seen = BannerNone

(* The script before the first paint, which reads the storage by itself.   *)
PrepaintHides ==
    \/ DateExpired
    \/ /\ storage # "blocked"
       /\ \/ dismissed
          \/ /\ DismissAfter # BannerNone /\ firstSeen \in Int
             /\ firstSeen > 0 /\ firstSeen <= now /\ now >= firstSeen + DismissAfter

SeenRead == IF storage = "blocked" THEN BannerNone ELSE ParseFirstSeen(firstSeen)

DismissedRead == storage # "blocked" /\ dismissed

ControllerShows == BannerVisible(SeenRead, DismissedRead)

BannerInit ==
    /\ now = 1 /\ storage \in {"works", "full", "blocked"}
    /\ firstSeen \in Strange \cup {BannerNone} /\ dismissed = FALSE
    /\ banner = "none" /\ wired = FALSE /\ collapsing = FALSE /\ decided = FALSE
    /\ shownAt = BannerNone /\ gone = FALSE /\ corrections = 0

BannerVisit ==
    /\ banner' = (IF PrepaintHides THEN "closed" ELSE "open")
    /\ wired' = FALSE /\ collapsing' = FALSE /\ decided' = FALSE
    /\ UNCHANGED <<reader, firstSeen, dismissed, shownAt, gone>>

(* initializeBanner: run by the script of the first page and at every      *)
(* page-load, so twice on the first page.  It knows nothing of a collapse  *)
(* an earlier run has begun.                                               *)
InitializeBanner ==
    /\ banner # "none"
    /\ decided' = TRUE /\ wired' = TRUE
    /\ firstSeen' = (IF Persists(SeenRead, DismissedRead) /\ storage = "works" THEN now ELSE firstSeen)
    /\ banner' = (IF ControllerShows THEN "open" ELSE "closed")
    /\ shownAt' = (IF ControllerShows /\ shownAt = BannerNone THEN now ELSE shownAt)
    /\ UNCHANGED <<reader, dismissed, collapsing, gone>>

BannerDismiss ==
    /\ banner = "open" /\ wired
    /\ banner' = "closing" /\ collapsing' = TRUE /\ gone' = TRUE
    /\ dismissed' = (dismissed \/ storage = "works")
    /\ UNCHANGED <<reader, firstSeen, wired, decided, shownAt>>

(* The transition ends, or the time for it is over.                        *)
FinishCollapse ==
    /\ collapsing /\ collapsing' = FALSE /\ banner' = "closed"
    /\ UNCHANGED <<reader, firstSeen, dismissed, wired, decided, shownAt, gone>>

Tick ==
    /\ now < MaxTime /\ now' = now + 1
    /\ UNCHANGED <<storage, corrections, firstSeen, dismissed, banner, wired, collapsing, decided, shownAt, gone>>

CorrectClock ==
    /\ corrections < MaxCorrections /\ corrections' = corrections + 1
    /\ now' \in 1..(now - 1)
    /\ UNCHANGED <<storage, firstSeen, dismissed, banner, wired, collapsing, decided, shownAt, gone>>

BannerNext ==
    \/ BannerVisit \/ InitializeBanner \/ BannerDismiss \/ FinishCollapse
    \/ Tick \/ CorrectClock

BannerSpec == BannerInit /\ [][BannerNext]_bannerVars

(* A collapse is under way only for a banner the reader has dismissed.     *)
BannerTypeOK ==
    /\ now \in 1..MaxTime /\ banner \in {"none", "open", "closing", "closed"}
    /\ firstSeen \in Strange \cup {BannerNone} \cup 1..MaxTime
    /\ banner = "closing" => collapsing
    /\ collapsing => gone /\ wired

(* The two decisions agree: whatever is stored, nothing is painted that    *)
(* the controller then removes, and nothing is added to the page after it  *)
(* was painted, unless time has passed between the two.                    *)
DecisionsAgree == PrepaintHides <=> ~ControllerShows

(* No reader misses the banner: it is hidden by its window only from a     *)
(* reader it has been shown to, whatever was found in the storage and      *)
(* however the clock was corrected.                                        *)
NotMissed == ~gone /\ ~DateExpired /\ shownAt = BannerNone /\ banner # "none" => ControllerShows

(* ...and no longer than its window: with a storage that works and a clock *)
(* that only goes on, a page shows the banner only within DismissAfter of  *)
(* the first time it was shown.                                            *)
WindowIsKept ==
    (banner' = "open" /\ shownAt # BannerNone /\ corrections = 0 /\ storage = "works" /\ DismissAfter # BannerNone
     /\ (banner # "open" \/ (decided' /\ ~decided)))
       => now < shownAt + DismissAfter

(* Dismissed is dismissed: where the storage works the banner is never     *)
(* opened again, on this page or another.                                  *)
DismissedStays == gone /\ storage = "works" => banner # "open"

(* After the date no page that is opened shows the banner.                 *)
SunsetHides ==
    DateExpired /\ decided' /\ ~decided => banner' # "open"

-----------------------------------------------------------------------------

(***************************************************************************)
(* The code preview of "Build your AppHost".  A visitor picks resources    *)
(* and a language; the preview is edited line by line, like in an editor,  *)
(* until it shows the example of that choice.  More clicks, a failing      *)
(* download of the examples, a failing animation or motion switched off    *)
(* may come at every wait.  Between two waits the code runs alone.         *)
(*                                                                         *)
(* A choice is [lang, variant]; a variant is the set of resources in it.   *)
(* Nothing on the site removes the builder: root.isConnected is TRUE.      *)
(***************************************************************************)

CONSTANTS
  Languages, EditorResources,
  Deployment,    \* the option that is no resource
  Example(_, _), \* the lines of the example of a language and a variant
  Blank,         \* a line with no characters to type
  Start          \* the choice of the page

VARIABLES
  e,             \* the editor
  editorToggles, \* the pressed buttons
  motion         \* isEditorMotionAllowed()

editorVars == <<e, editorToggles, motion>>

EditorOptions == EditorResources \union {Deployment}

(* getVariantKey: a deployment of nothing is the empty variant *)
VariantKey(selected) == IF selected \intersect EditorResources = {} THEN {} ELSE selected

AllChoices == [lang : Languages, variant : {VariantKey(s) : s \in SUBSET EditorOptions}]

CodeOf(c) == Example(c.lang, c.variant)

Full(texts) == [i \in DOMAIN texts |-> [text |-> texts[i], full |-> TRUE]]

EditorTexts(lines) == [i \in DOMAIN lines |-> lines[i].text]

(* createDiffHunks: at line "old" delete "del" lines, insert "ins" lines from "new" on.
   The table holds the length of the longest common rest of both texts. *)
Common(old, new) ==
  LET t[i \in 1..(Len(old) + 1), j \in 1..(Len(new) + 1)] ==
        IF i > Len(old) \/ j > Len(new) THEN 0
        ELSE IF old[i] = new[j] THEN t[i + 1, j + 1] + 1
        ELSE IF t[i + 1, j] > t[i, j + 1] THEN t[i + 1, j] ELSE t[i, j + 1]
  IN t

Join(h, rest) ==
  IF rest # <<>> /\ Head(rest).old = h.old + h.del /\ Head(rest).new = h.new + h.ins
  THEN <<[h EXCEPT !.del = @ + Head(rest).del, !.ins = @ + Head(rest).ins]>> \o Tail(rest)
  ELSE <<h>> \o rest

Hunks(old, new) ==
  LET t == Common(old, new)
      Inserts(i, j) == j <= Len(new) /\ (i > Len(old) \/ t[i, j + 1] >= t[i + 1, j])
      h[i \in 1..(Len(old) + 1), j \in 1..(Len(new) + 1)] ==
        IF i > Len(old) /\ j > Len(new) THEN <<>>
        ELSE IF i <= Len(old) /\ j <= Len(new) /\ old[i] = new[j] THEN h[i + 1, j + 1]
        ELSE IF Inserts(i, j) THEN Join([old |-> i, new |-> j, del |-> 0, ins |-> 1], h[i, j + 1])
        ELSE Join([old |-> i, new |-> j, del |-> 1, ins |-> 0], h[i + 1, j])
  IN h[1, 1]

Replace(lines, at, del, new) ==
  SubSeq(lines, 1, at - 1) \o new \o SubSeq(lines, at + del, Len(lines))

(* mountFrame *)
Mounted(s, c) == [s EXCEPT !.shown = c, !.lines = Full(CodeOf(c))]

Finish(s) == [s EXCEPT !.pc = "idle", !.status = "updated", !.announced = s.pending, !.edits = <<>>]

GiveUp(s) == Finish([Mounted(s, s.wanted) EXCEPT !.current = s.wanted])

Hunk(s) == Head(s.edits)

EditIndex(s) == Hunk(s).old + s.ins - s.del

(* insertLines: an empty line first *)
InsertLine(s) ==
  LET text == CodeOf(s.target)[Hunk(s).new + s.typed]
  IN [s EXCEPT !.pc = "typing", !.typed = @ + 1,
        !.lines = Replace(@, EditIndex(s) + s.typed, 0, <<[text |-> text, full |-> FALSE]>>)]

(* The loop of processRequestedState, up to the next wait *)
Loop(s) ==
  IF s.current = s.wanted THEN Finish(s)
  ELSE IF ~motion THEN Finish([Mounted(s, s.wanted) EXCEPT !.current = s.wanted])
  ELSE [s EXCEPT !.target = s.wanted, !.stale = FALSE,
          !.pc = IF s.current.lang # s.wanted.lang THEN "fadeOut" ELSE "edit",
          !.edits = IF s.current.lang # s.wanted.lang THEN <<>>
                    ELSE Hunks(EditorTexts(s.lines), CodeOf(s.wanted)),
          !.typed = 0, !.ins = 0, !.del = 0]

Completed(s) == Loop([s EXCEPT !.current = s.target])

NextEdit(s) ==
  IF s.edits = <<>>
  THEN Completed(IF EditorTexts(s.lines) = CodeOf(s.target) THEN [s EXCEPT !.shown = s.target]
                 ELSE Mounted(s, s.target))
  ELSE IF ~motion THEN GiveUp(s)
  ELSE IF Hunk(s).del > 0 THEN [s EXCEPT !.pc = "navigate"] ELSE InsertLine(s)

\* Broken: the place in the file is not moved past the lines of the hunk that is done.
HunkDoneInPlace(s) == NextEdit([s EXCEPT !.edits = Tail(@), !.typed = 0])

HunkDone(s) ==
  NextEdit([s EXCEPT !.edits = Tail(@), !.typed = 0, !.ins = @ + Hunk(s).ins, !.del = @ + Hunk(s).del])

Begin(s) == IF s.pc = "edit" THEN NextEdit(s) ELSE s

(* processRequestedState; it is under way already unless the editor is idle *)
Process(s) ==
  IF s.pc # "idle" THEN s ELSE IF ~s.loaded THEN [s EXCEPT !.pc = "fetching"] ELSE Begin(Loop(s))

EditorRequest(s, c) == Process([s EXCEPT !.wanted = c, !.stale = TRUE, !.pending = c])

EditorInit ==
  /\ editorToggles = Start.variant /\ motion \in BOOLEAN
  /\ e = [wanted |-> Start, current |-> Start, target |-> Start, stale |-> FALSE,
          shown |-> Start, lines |-> Full(CodeOf(Start)), pc |-> "idle", loaded |-> FALSE,
          edits |-> <<>>, typed |-> 0, ins |-> 0, del |-> 0,
          status |-> "none", pending |-> Start, announced |-> Start]

ClickOption(o) ==
  /\ editorToggles' = IF o \in editorToggles THEN editorToggles \ {o} ELSE editorToggles \union {o}
  /\ e' = EditorRequest(e, [lang |-> e.wanted.lang, variant |-> VariantKey(editorToggles')])
  /\ UNCHANGED motion

(* The pressed language again: only to try again what failed *)
ClickLanguage(l) ==
  /\ e' = IF l # e.wanted.lang THEN EditorRequest(e, [lang |-> l, variant |-> VariantKey(editorToggles)])
          ELSE IF e.current # e.wanted THEN Process(e) ELSE e
  /\ UNCHANGED <<editorToggles, motion>>

SwitchMotion == motion' = ~motion /\ UNCHANGED <<e, editorToggles>>

(* The examples arrive, or not *)
Fetched ==
  /\ e.pc = "fetching" /\ e' = Begin(Loop([e EXCEPT !.loaded = TRUE])) /\ UNCHANGED <<editorToggles, motion>>

FetchFailed ==
  /\ e.pc = "fetching" /\ e' = [e EXCEPT !.pc = "idle", !.status = "error"]
  /\ UNCHANGED <<editorToggles, motion>>

(* selectAndDeleteLines: the caret moves, the lines are selected, they fade *)
Delete(pc, next) ==
  /\ e.pc = pc
  /\ e' = IF ~motion \/ e.stale THEN GiveUp(e)
          ELSE IF next # "deleted" THEN [e EXCEPT !.pc = next]
          ELSE LET s == [e EXCEPT !.lines = Replace(@, EditIndex(e), Hunk(e).del, <<>>)]
               IN IF Hunk(e).ins > 0 THEN InsertLine(s) ELSE [s EXCEPT !.pc = "caret"]
  /\ UNCHANGED <<editorToggles, motion>>

(* typeLine: up to the end of the line *)
TypeLine ==
  /\ e.pc = "typing"
  /\ LET at == EditIndex(e) + e.typed - 1
     IN e' = IF e.lines[at].text # Blank /\ (~motion \/ e.stale) THEN GiveUp(e)
             ELSE [e EXCEPT !.pc = "rest", !.lines[at].full = TRUE]
  /\ UNCHANGED <<editorToggles, motion>>

(* The pause after a line; and after the caret has moved behind a deletion *)
Rested ==
  /\ e.pc \in {"rest", "caret"}
  /\ e' = IF e.stale THEN GiveUp(e)
          ELSE IF e.pc = "rest" /\ e.typed < Hunk(e).ins
          THEN (IF motion THEN InsertLine(e) ELSE GiveUp(e))
          ELSE HunkDone(e)
  /\ UNCHANGED <<editorToggles, motion>>

(* switchLanguage *)
FadedOut ==
  /\ e.pc = "fadeOut"
  /\ e' = IF ~motion THEN Completed(Mounted(e, e.target))
          ELSE IF e.stale THEN GiveUp(e) ELSE [Mounted(e, e.target) EXCEPT !.pc = "fadeIn"]
  /\ UNCHANGED <<editorToggles, motion>>

FadedIn ==
  /\ e.pc = "fadeIn" /\ e' = (IF e.stale THEN GiveUp(e) ELSE Completed(e)) /\ UNCHANGED <<editorToggles, motion>>

(* An animation that is cancelled: the catch *)
AnimationFails ==
  /\ e.pc \in {"removing", "fadeOut", "fadeIn"} /\ e' = GiveUp(e) /\ UNCHANGED <<editorToggles, motion>>

Step ==
  \/ Fetched \/ FetchFailed \/ TypeLine \/ Rested \/ FadedOut \/ FadedIn \/ AnimationFails
  \/ Delete("navigate", "selecting") \/ Delete("selecting", "removing") \/ Delete("removing", "deleted")

EditorNext ==
  \/ Step \/ SwitchMotion
  \/ \E o \in EditorOptions : ClickOption(o)
  \/ \E l \in Languages : ClickLanguage(l)

(* Timers, animations and downloads end *)
EditorSpec == EditorInit /\ [][EditorNext]_editorVars /\ WF_editorVars(Step)

Editing == {"navigate", "selecting", "removing", "caret", "typing", "rest"}

Line == [text : Nat, full : BOOLEAN]

EditorTypeOK ==
  /\ {e.wanted, e.current, e.target, e.shown, e.pending, e.announced} \subseteq AllChoices
  /\ e.lines \in Seq(Line) /\ e.pc \in Editing \union {"idle", "fetching", "fadeOut", "fadeIn"}
  /\ e.status \in {"none", "updated", "error"} /\ (e.pc \in Editing) = (e.edits # <<>>)
  /\ editorToggles \subseteq EditorOptions /\ motion \in BOOLEAN

(* An editor at rest shows one whole example, the one it takes for the current: no attempt
   that was given up half way leaves its lines behind, although the next attempt compares the
   lines of the stage with those of its target. *)
ShowsWholeExample ==
  e.pc = "idle" => e.shown = e.current /\ e.lines = Full(CodeOf(e.current))

(* At rest the preview and the announcement are those of the last click, also of a click that
   came while an older one was shown, unless the visitor is told that the examples are missing. *)
LastClickWins ==
  e.pc = "idle" => \/ e.status = "error"
                   \/ e.current = e.wanted /\ (e.status = "updated" => e.announced = e.wanted)

(* The edits that are left always lead from the lines of the stage to the target: the hunks are
   applied in place, each at its line of the old text moved by the lines of the earlier ones. *)
Left(s) ==
  IF s.edits = <<>> THEN s.lines
  ELSE LET h == Hunk(s)
           kept == IF s.pc \in {"navigate", "selecting", "removing"} THEN h.del ELSE 0
           Apply(acc, g) ==
             [lines |-> Replace(acc.lines, g.old + acc.by, g.del, Full(SubSeq(CodeOf(s.target), g.new, g.new + g.ins - 1))),
              by |-> acc.by + g.ins - g.del]
           first == [lines |-> Replace(s.lines, EditIndex(s) + s.typed, kept,
                                       Full(SubSeq(CodeOf(s.target), h.new + s.typed, h.new + h.ins - 1))),
                     by |-> s.ins - s.del + h.ins - h.del]
       IN FoldLeft(Apply, first, Tail(s.edits)).lines

EditsLeadToTarget == e.pc \in Editing => EditorTexts(Left(e)) = CodeOf(e.target)

(* Whatever was clicked while it was typing, the preview shows whole examples at rest, and on
   the way to one nothing but its lines. *)
EditorSafe == EditorTypeOK /\ ShowsWholeExample /\ EditsLeadToTarget

(* Once motion is switched off, or the system asks for less of it, the next wait is the last:
   nothing is selected or typed any more (a blank line needs no typing). *)
MotionStops ==
  [][e.pc # "fetching" /\ ~motion /\ e' # e => e'.pc \in {"idle", "fetching", "rest", e.pc}]_editorVars

-----------------------------------------------------------------------------

(***************************************************************************)
(* The languages of a document (resource-languages.ts): those of its code, *)
(* and of the fragments it includes, which include others.  The resolver   *)
(* goes down the includes and remembers what it has found for every        *)
(* document asked for later; a fragment that includes itself, directly or  *)
(* through others, or that is not there, ends the build.                   *)
(***************************************************************************)

CONSTANTS
    Docs,             \* documents and fragments
    LanguagesMissing, \* a fragment that is not there
    LanguagesLanguages,
    MaxNodes          \* bound: blocks of code and includes, of all documents

VARIABLES
    bodies, \* doc -> its code and includes, in order
    cache,  \* doc -> languages
    stack,  \* the documents being visited: [id, at, languages]
    outcome \* "" or "failed"

languagesVars == <<bodies, cache, stack, outcome>>

Code(language) == [language |-> language, include |-> LanguagesMissing]

Include(doc) == [language |-> "", include |-> doc]

LanguagesInit ==
    /\ bodies = [doc \in Docs |-> <<>>]
    /\ cache = <<>> /\ stack = <<>> /\ outcome = ""

LanguagesIdle == stack = <<>> /\ outcome = ""

Nodes == {place \in Docs \X (1 .. MaxNodes) : place[2] <= Len(bodies[place[1]])}

(* The documents are written before any is resolved.                       *)
LanguagesWrite(doc, node) ==
    /\ LanguagesIdle /\ cache = <<>> /\ Cardinality(Nodes) < MaxNodes
    /\ bodies' = [bodies EXCEPT ![doc] = Append(@, node)]
    /\ UNCHANGED <<cache, stack, outcome>>

Visiting == {stack[i].id : i \in DOMAIN stack}

Top == stack[Len(stack)]

Pushed(doc) == Append(stack, [id |-> doc, at |-> 1, languages |-> {}])

(* The languages a visit has found, and the node after this one.           *)
Advanced(frames, languages) ==
    [frames EXCEPT ![Len(frames)].at = @ + 1, ![Len(frames)].languages = @ \union languages]

(* resolve, asked for by the catalog.                                      *)
Resolve(doc) ==
    /\ LanguagesIdle /\ doc \notin DOMAIN cache
    /\ stack' = Pushed(doc)
    /\ UNCHANGED <<bodies, cache, outcome>>

Node == bodies[Top.id][Top.at]

VisitCode ==
    /\ outcome = "" /\ stack # <<>> /\ Top.at <= Len(bodies[Top.id])
    /\ Node.language # ""
    /\ stack' = Advanced(stack, {Node.language})
    /\ UNCHANGED <<bodies, cache, outcome>>

(* An include: known, not there, circular, or visited first.               *)
EnterInclude ==
    /\ outcome = "" /\ stack # <<>> /\ Top.at <= Len(bodies[Top.id])
    /\ Node.language = ""
    /\ IF Node.include \in DOMAIN cache
       THEN stack' = Advanced(stack, cache[Node.include]) /\ UNCHANGED outcome
       ELSE IF Node.include \notin Docs \/ Node.include \in Visiting
       THEN outcome' = "failed" /\ UNCHANGED stack
       ELSE stack' = Pushed(Node.include) /\ UNCHANGED outcome
    /\ UNCHANGED <<bodies, cache>>

(* A document is through: remembered, and its languages go to the one that *)
(* includes it.                                                            *)
LanguagesFinish ==
    /\ outcome = "" /\ stack # <<>> /\ Top.at > Len(bodies[Top.id])
    /\ cache' = [doc \in DOMAIN cache \union {Top.id} |->
                    IF doc = Top.id THEN Top.languages ELSE cache[doc]]
    /\ stack' = LET rest == SubSeq(stack, 1, Len(stack) - 1)
                IN IF rest = <<>> THEN <<>> ELSE Advanced(rest, Top.languages)
    /\ UNCHANGED <<bodies, outcome>>

LanguagesStep == VisitCode \/ EnterInclude \/ LanguagesFinish

LanguagesNext ==
    \/ \E doc \in Docs, language \in LanguagesLanguages : LanguagesWrite(doc, Code(language))
    \/ \E doc \in Docs, fragment \in Docs \union {LanguagesMissing} : LanguagesWrite(doc, Include(fragment))
    \/ \E doc \in Docs : Resolve(doc)
    \/ LanguagesStep

LanguagesSpec == LanguagesInit /\ [][LanguagesNext]_languagesVars /\ WF_languagesVars(LanguagesStep)

Includes(doc) == {bodies[doc][i].include : i \in {j \in DOMAIN bodies[doc] :
                                                     bodies[doc][j].language = ""}}

Own(doc) == {bodies[doc][i].language : i \in DOMAIN bodies[doc]} \ {""}

Fragments == Docs \union {LanguagesMissing}

(* What a document includes, directly or through others, itself included:  *)
(* all that a set must have that has it and the includes of what it has.   *)
Reached(doc) ==
    {d \in Fragments : \A S \in SUBSET Fragments :
        doc \in S /\ (\A member \in S \intersect Docs : Includes(member) \subseteq S) => d \in S}

(* A document that can be resolved: nothing below it is missing or         *)
(* includes itself.                                                        *)
Sound(doc) ==
    /\ Reached(doc) \subseteq Docs
    /\ \A d \in Reached(doc) : \A fragment \in Includes(d) : d \notin Reached(fragment)

(* What is remembered of a document is complete: its own languages and     *)
(* those of all that it reaches, in whatever order and however deep in     *)
(* other documents they were met; and none is remembered of a document     *)
(* that cannot be resolved.                                                *)
RememberedIsComplete ==
    \A doc \in DOMAIN cache :
        Sound(doc) /\ cache[doc] = UNION {Own(d) : d \in Reached(doc)}

(* A shared fragment is no circle: the build ends only for a document that *)
(* cannot be resolved.                                                     *)
FailsForAReason == outcome = "failed" => ~Sound(stack[1].id)

-----------------------------------------------------------------------------
\* Each widget takes its steps, when another does or when none does.
WidgetsSpec ==
    /\ TourSafeSpec /\ GeometrySpec /\ PivotSpec /\ FloatingSpec /\ ViewportSpec
    /\ BannerSpec /\ EditorSpec /\ LanguagesSpec

\* What a widget shows agrees with its state, with the address, with the other
\* widgets and with what the reader chose, whatever the order of clicks, returns,
\* timers, frames and scrolls (site-tour.ts, pivot-selector.ts,
\* viewport-activation.ts, banner-expiry.ts, AppHostBuilder.client.ts), and the
\* languages of a document are those of all that it includes (resource-languages.ts).
WidgetsSafe ==
    /\ TourTypeOK /\ LabelTruthful /\ ShownAndHushed
    /\ HoleShowsTarget /\ BackdropTiles /\ CardOnScreen /\ CardBesideHole
    /\ PivotTypeOK /\ EverythingAgrees /\ LanguageFollows /\ ChoiceFollows
    /\ FloatingTypeOK /\ FloatsPastItsPlace /\ ExpansionRemainsOpen /\ NothingRunsOn
    /\ ViewportTypeOK /\ ToldIsTrue /\ DelayIsCurrent /\ RevealedFirst
    /\ BannerTypeOK /\ DecisionsAgree /\ NotMissed /\ DismissedStays
    /\ LastClickWins
    /\ RememberedIsComplete /\ FailsForAReason

\* No step undoes what the visitor did or saw: a tour keeps its place when the page
\* moves under it (site-tour.ts), what is activated once is not activated again
\* (viewport-activation.ts), a banner that is over does not come back
\* (banner-expiry.ts), and nothing is typed any more once motion is unwanted
\* (AppHostBuilder.client.ts).
WidgetsKept ==
    /\ PlaceKept
    /\ OnceStays
    /\ [][WindowIsKept /\ SunsetHides]_bannerVars
    /\ MotionStops
=============================================================================
