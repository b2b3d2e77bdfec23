------------------------- MODULE TypeScriptReference ------------------------
(* The TypeScript side of the API reference: its routes, its pages and the   *)
(* signatures on them.                                                       *)
EXTENDS Naturals, Sequences, FiniteSets, SequencesExt, FiniteSetsExt, TLC, Integers

-----------------------------------------------------------------------------

(***************************************************************************)
(* The addresses of the TypeScript API reference (ts-api-routes.ts, with   *)
(* its callers ts-modules.ts, ts-api-search.ts and the two Markdown        *)
(* endpoints below pages/reference/api/typescript).                        *)
(*                                                                         *)
(* A module document lists handles, data types and functions; a handle     *)
(* has methods.  Every one gets a slug: its name alone when no sibling     *)
(* spells the same slug, else the name with a disambiguator, else that     *)
(* with a number.  Production freezes the document and caches every        *)
(* collection and index; development caches nothing, because the document  *)
(* may still change.  A page is published under its slug and carries only  *)
(* the position of the item it renders.                                    *)
(*                                                                         *)
(* A slug is the sequence of its words.  A name is a number, so that names *)
(* are ordered; Words gives the slug it spells, <<"">> when it spells      *)
(* nothing.  The disambiguator of an item (its full name, or its target    *)
(* and its parameter types) is an attribute of the item.                   *)
(***************************************************************************)

CONSTANTS Names, Words, Disambiguators, Keys, MaxItems, MaxMethods

ASSUME NamesAreOrdered == Names \subseteq Nat /\ IsFiniteSet(Names)

RouteKinds == <<"handle", "dto", "function">>

RouteNone == <<>>

Nowhere == <<"">>

VARIABLES
  routeDoc,    \* kind -> the items of that kind, in catalog order
  stable,      \* prepareTsApiRoutes has frozen and registered the document
  routeItems,  \* topLevelItems: the cached collection, or None
  itemIndex,   \* itemIndexes: identity -> slug, or None
  methods,     \* methodCollections: <<handle, sorted>> -> methods, or None
  methodIndex,\* methodIndexes: <<handle, sorted>> -> slugs, or None
  routeAnswer, \* what the last caller was told
  published    \* the static paths of the last build, or None

routeVars == <<routeDoc, stable, routeItems, itemIndex, methods, methodIndex, routeAnswer, published>>

caches == <<routeItems, itemIndex, methods, methodIndex>>

(***************************************************************************)
(* Slugs.  A sibling is a record with a name and a disambiguator; a        *)
(* collection is a sequence of them and an identity a position in it.      *)
(***************************************************************************)
Base(s) == Words[s.name]

AppendDisambiguator(base, dis) == base \o dis

Group(siblings, base) == SelectSeq([i \in DOMAIN siblings |-> i], LAMBDA i : Base(siblings[i]) = base)

Numbered(slug, n) == IF n > 1 THEN Append(slug, ToString(n)) ELSE slug

GroupSlugs(siblings, group) ==
  LET Slug(k) == AppendDisambiguator(Base(siblings[group[k]]), siblings[group[k]].dis)
  IN IF Len(group) = 1 THEN [k \in {1} |-> Base(siblings[group[1]])]
     ELSE [k \in DOMAIN group |-> Numbered(Slug(k), Cardinality({j \in 1..k : Slug(j) = Slug(k)}))]

CreateSlugIndex(siblings) ==
  [i \in DOMAIN siblings |->
     LET group == Group(siblings, Base(siblings[i]))
     IN GroupSlugs(siblings, group)[CHOOSE k \in DOMAIN group : group[k] = i]]

(***************************************************************************)
(* Collections.  Dotted functions belong to another function's container   *)
(* and have no page of their own.                                          *)
(***************************************************************************)
GetTsStandaloneFunctions(d) == SelectSeq(d["function"], LAMBDA f : ~f.dotted)

OfKind(d, kind) == IF kind = "function" THEN GetTsStandaloneFunctions(d) ELSE d[kind]

TopLevel(d) == d["handle"] \o d["dto"] \o GetTsStandaloneFunctions(d)

(* Where the item of a kind and position is in the collection.             *)
PlaceOf(d, kind, i) ==
  CASE kind = "handle" -> i
    [] kind = "dto" -> Len(d["handle"]) + i
    [] kind = "function" -> Len(d["handle"]) + Len(d["dto"]) + i

GetTsTopLevelRouteItems(d) == IF routeItems # RouteNone THEN routeItems ELSE TopLevel(d)

MethodOrder(caps, sorted) ==
  LET own == {i \in DOMAIN caps : caps[i].method}
      Before(a, b) == IF ~sorted THEN a < b
                      ELSE caps[a].name < caps[b].name \/ (caps[a].name = caps[b].name /\ a < b)
  IN SetToSortSeq(own, Before)

Methods(handle, sorted) ==
  [k \in DOMAIN MethodOrder(handle.caps, sorted) |-> handle.caps[MethodOrder(handle.caps, sorted)[k]]]

GetTsMethods(h, sorted) ==
  IF <<h, sorted>> \in DOMAIN methods THEN methods[<<h, sorted>>] ELSE Methods(routeDoc["handle"][h], sorted)

ItemSlug(d, kind, i) ==
  (IF itemIndex # RouteNone THEN itemIndex ELSE CreateSlugIndex(GetTsTopLevelRouteItems(d)))[PlaceOf(d, kind, i)]

Canonical(d) ==
  {[slug |-> ItemSlug(d, kind, i), kind |-> kind, index |-> i, legacy |-> FALSE] :
     <<kind, i>> \in {<<k, j>> \in ToSet(RouteKinds) \X (1..MaxItems) :
                        j <= Len(OfKind(d, k)) /\ ItemSlug(d, k, j) # Nowhere}}

PathOrder(d, p) == PlaceOf(d, p.kind, p.index)

Legacy(d, canonical) ==
  LET Name(p) == Base(OfKind(d, p.kind)[p.index])
      Taken(name) == \E p \in canonical : p.slug = name
      Latest(p) == \A q \in canonical : Name(q) = Name(p) => PathOrder(d, q) <= PathOrder(d, p)
  IN {[p EXCEPT !.slug = Name(p), !.legacy = TRUE] :
        p \in {q \in canonical : Name(q) # Nowhere /\ ~Taken(Name(q)) /\ Latest(q)}}

MethodSlugs(h, sorted) ==
  IF <<h, sorted>> \in DOMAIN methodIndex THEN methodIndex[<<h, sorted>>]
  ELSE CreateSlugIndex(GetTsMethods(h, sorted))

MemberPaths(d) ==
  {[handle |-> h, index |-> k, item |-> ItemSlug(d, "handle", h), slug |-> MethodSlugs(h, FALSE)[k]] :
     <<h, k>> \in {<<g, j>> \in (1..MaxItems) \X (1..MaxMethods) :
                     /\ g <= Len(d["handle"]) /\ ItemSlug(d, "handle", g) # Nowhere
                     /\ j <= Len(GetTsMethods(g, FALSE)) /\ MethodSlugs(g, FALSE)[j] # Nowhere}}

(***************************************************************************)
(* The search index links every page, but not a method that a standalone   *)
(* function with the same identity already stands for.                     *)
(***************************************************************************)
FoundItems(d) == {p.slug : p \in Canonical(d)}

\* Broken: a method with a standalone twin loses its twin's page as well.
StandaloneKeysOfAll(d) == {d["function"][i].key : i \in DOMAIN d["function"]}

StandaloneKeys(d) == {f.key : f \in ToSet(GetTsStandaloneFunctions(d))}

SearchMembers(d) ==
  {<<p.item, p.slug>> : p \in {q \in MemberPaths(d) :
      GetTsMethods(q.handle, FALSE)[q.index].key \notin StandaloneKeys(d)}}

RouteInit ==
  /\ routeDoc = [k \in ToSet(RouteKinds) |-> <<>>] /\ stable = FALSE
  /\ routeItems = RouteNone /\ itemIndex = RouteNone /\ methods = <<>> /\ methodIndex = <<>>
  /\ routeAnswer = RouteNone /\ published = RouteNone

RouteCount(d) == Len(d["handle"]) + Len(d["dto"]) + Len(d["function"])

Caps(d) == FoldSeq(LAMBDA h, n : n + Len(h.caps), 0, d["handle"])

RouteItem(name, dis, dotted, key) == [name |-> name, dis |-> dis, dotted |-> dotted, key |-> key, caps |-> <<>>]

Change(d) == routeDoc' = d /\ routeAnswer' = RouteNone /\ published' = RouteNone /\ UNCHANGED <<stable, caches>>

(* A document that is not frozen may change at any time. *)
AddItem(kind, name, dis, dotted, key) ==
  /\ ~stable /\ RouteCount(routeDoc) < MaxItems
  /\ dotted => kind = "function"
  /\ Change([routeDoc EXCEPT ![kind] = Append(@, RouteItem(name, dis, dotted, key))])

RouteAddMember(h, name, dis, method, key) ==
  /\ ~stable /\ Caps(routeDoc) < MaxMethods
  /\ Change([routeDoc EXCEPT !["handle"][h].caps =
               Append(@, [name |-> name, dis |-> dis, method |-> method, key |-> key])])

Rename(kind, i, name) ==
  /\ ~stable /\ name # routeDoc[kind][i].name
  /\ Change([routeDoc EXCEPT ![kind][i].name = name])

(* prepareTsApiRoutes: freeze first, then fill the collection. *)
Prepare ==
  /\ ~stable
  /\ stable' = TRUE /\ routeItems' = TopLevel(routeDoc)
  /\ UNCHANGED <<routeDoc, itemIndex, methods, methodIndex, routeAnswer, published>>

Keep(index) == itemIndex' = IF stable THEN index ELSE itemIndex

AskItem(kind, i) ==
  /\ routeAnswer' = [to |-> "item", kind |-> kind, index |-> i, sorted |-> FALSE, slug |-> ItemSlug(routeDoc, kind, i)]
  /\ Keep(IF itemIndex # RouteNone THEN itemIndex ELSE CreateSlugIndex(GetTsTopLevelRouteItems(routeDoc)))
  /\ UNCHANGED <<routeDoc, stable, routeItems, methods, methodIndex, published>>

AskMethod(h, k, sorted) ==
  LET own == GetTsMethods(h, sorted)
  IN /\ k \in DOMAIN own
     /\ routeAnswer' = [to |-> "method", kind |-> "handle", index |-> <<h, k>>, sorted |-> sorted,
                        slug |-> MethodSlugs(h, sorted)[k]]
     /\ methods' = IF stable THEN (<<h, sorted>> :> own) @@ methods ELSE methods
     /\ methodIndex' = IF stable THEN (<<h, sorted>> :> MethodSlugs(h, sorted)) @@ methodIndex ELSE methodIndex
     /\ UNCHANGED <<routeDoc, stable, routeItems, itemIndex, published>>

Publish ==
  LET canonical == Canonical(routeDoc)
  IN /\ published' = [html |-> canonical, markdown |-> canonical \union Legacy(routeDoc, canonical),
                      members |-> MemberPaths(routeDoc),
                      found |-> FoundItems(routeDoc), foundMembers |-> SearchMembers(routeDoc)]
     /\ Keep(IF itemIndex # RouteNone THEN itemIndex ELSE CreateSlugIndex(GetTsTopLevelRouteItems(routeDoc)))
     /\ UNCHANGED <<routeDoc, stable, routeItems, methods, methodIndex, routeAnswer>>

RouteNext ==
  \/ \E kind \in ToSet(RouteKinds), name \in Names, dis \in Disambiguators, dotted \in BOOLEAN, key \in Keys :
       AddItem(kind, name, dis, dotted, key)
  \/ \E h \in DOMAIN routeDoc["handle"], name \in Names, dis \in Disambiguators, method \in BOOLEAN, key \in Keys :
       RouteAddMember(h, name, dis, method, key)
  \/ \E kind \in ToSet(RouteKinds) : \E i \in DOMAIN routeDoc[kind], name \in Names : Rename(kind, i, name)
  \/ Prepare
  \/ \E kind \in ToSet(RouteKinds) : \E i \in DOMAIN OfKind(routeDoc, kind) : AskItem(kind, i)
  \/ \E h \in DOMAIN routeDoc["handle"], k \in 1..MaxMethods, sorted \in BOOLEAN : AskMethod(h, k, sorted)
  \/ Publish

RouteSpec == RouteInit /\ [][RouteNext]_routeVars

(* The document stays within its bounds and caches exist only when frozen. *)
RouteTypeOK ==
  /\ RouteCount(routeDoc) <= MaxItems /\ Caps(routeDoc) <= MaxMethods
  /\ ~stable => routeItems = RouteNone /\ itemIndex = RouteNone /\ methods = <<>> /\ methodIndex = <<>>
  /\ stable => routeItems = TopLevel(routeDoc)

(* What the slug of one sibling is, told without an index: by its          *)
(* conflicts, then by the conflicts that share its disambiguator.          *)
ReferenceSlug(siblings, i) ==
  LET conflicts == {j \in DOMAIN siblings : Base(siblings[j]) = Base(siblings[i])}
      same == {j \in conflicts : siblings[j].dis = siblings[i].dis}
      earlier == Cardinality({j \in same : j < i})
  IN CASE Cardinality(conflicts) = 1 -> Base(siblings[i])
       [] OTHER -> Base(siblings[i]) \o siblings[i].dis
                   \o (IF earlier = 0 THEN <<>> ELSE <<ToString(earlier + 1)>>)

ReferenceItem(kind, i) == ReferenceSlug(TopLevel(routeDoc), PlaceOf(routeDoc, kind, i))

(* An answer is right for the document as it is now, whatever was cached   *)
(* for an earlier answer or an earlier name.                               *)
AnswersAreCurrent ==
  routeAnswer # RouteNone =>
    routeAnswer.slug = IF routeAnswer.to = "item" THEN ReferenceItem(routeAnswer.kind, routeAnswer.index)
                       ELSE ReferenceSlug(Methods(routeDoc["handle"][routeAnswer.index[1]], routeAnswer.sorted), routeAnswer.index[2])

(* A page renders, from its position alone, the item whose slug it has;    *)
(* no two pages have one address unless the name of one item spells the    *)
(* disambiguated name of another.                                          *)
PagesRoundTrip ==
  published # RouteNone =>
    \A p \in published.html :
      /\ p.slug = ReferenceItem(p.kind, p.index)
      /\ \A q \in published.html \ {p} :
           p.slug = q.slug => Base(OfKind(routeDoc, p.kind)[p.index]) # Base(OfKind(routeDoc, q.kind)[q.index])

(* Every name that spells something still has a Markdown page at its plain *)
(* address, one page only, and never in the place of a canonical one.      *)
LegacyNamesResolve ==
  published # RouteNone =>
    \A kind \in ToSet(RouteKinds) : \A i \in DOMAIN OfKind(routeDoc, kind) :
      LET name == Base(OfKind(routeDoc, kind)[i])
          pages == {p \in published.markdown : p.slug = name}
      IN name # Nowhere => /\ pages # {}
                           /\ \A p \in pages : p.legacy => Cardinality(pages) = 1

(* The search leads to a published page, and to every function and method  *)
(* by its identity.                                                        *)
SearchLeadsToPages ==
  published # RouteNone =>
    /\ published.found = {p.slug : p \in published.html}
    /\ published.foundMembers \subseteq {<<p.item, p.slug>> : p \in published.members}
    /\ \A p \in published.members :
         LET key == Methods(routeDoc["handle"][p.handle], FALSE)[p.index].key
         IN \/ <<p.item, p.slug>> \in published.foundMembers
            \/ \E q \in published.html : q.kind = "function" /\ OfKind(routeDoc, "function")[q.index].key = key
            \/ \E f \in ToSet(GetTsStandaloneFunctions(routeDoc)) : Base(f) = Nowhere

(* The item page lists methods sorted by name and links each with the slug *)
(* of that order: it is the slug of the method's own page as long as no    *)
(* two methods with different names spell the same slug.                   *)
SortedLinksAgree ==
  \A h \in DOMAIN routeDoc["handle"] :
    LET caps == routeDoc["handle"][h].caps
        own == MethodOrder(caps, FALSE)
        shown == MethodOrder(caps, TRUE)
        OneSpelling == \A a, b \in ToSet(own) : Base(caps[a]) = Base(caps[b]) => caps[a].name = caps[b].name
    IN OneSpelling => \A k \in DOMAIN own, j \in DOMAIN shown :
                        own[k] = shown[j] => MethodSlugs(h, FALSE)[k] = MethodSlugs(h, TRUE)[j]

-----------------------------------------------------------------------------

(***************************************************************************)
(* The Markdown pages of the TypeScript API reference                      *)
(* (typescript-api-markdown.ts), the paths they are published under, and   *)
(* the sidebar of their HTML peers (ts-api-sidebar.ts).                    *)
(*                                                                         *)
(* A document lists handles, data types, enums and functions.  A name is a *)
(* number, so that names are ordered; within a document every item has a   *)
(* name of its own, so a name is also the item's slug (names that collide  *)
(* are in the first part).  The name of a capability is a sequence of      *)
(* words, "set" in front of what a setter sets.  A reference names a type, *)
(* which may belong to another document.  A page is a set of lines.        *)
(***************************************************************************)

CONSTANTS Types,        \* names of types, of this document or of others
          Functions,    \* names of functions
          Capabilities, \* names of capabilities
          TsMaxItems, MaxCapabilities

ASSUME ItemNames == Types \cap Functions = {}

VARIABLES
  tsKind,    \* item -> "handle", "dto", "enum" or "function", for items of the document
  tsCaps,    \* handle -> its capabilities: name -> [kind, type]
  tsRefs,    \* dto or standalone function -> the types its fields or parameters name
  tsTargets, \* function -> expandedTargetTypes
  tsDotted,  \* functions whose qualified name has a container
  tsPage,    \* the page that was rendered last, or None
  tsLines    \* its lines

tsDoc == <<tsKind, tsCaps, tsRefs, tsTargets, tsDotted>>

tsVars == <<tsDoc, tsPage, tsLines>>

TsNone == [page |-> "none"]

Index == [page |-> "index"]

Module == [page |-> "module"]

ItemPage(i) == [page |-> "item", item |-> i]

MemberPage(i, m) == [page |-> "member", item |-> i, member |-> m]

NoLink == TsNone

Items == DOMAIN tsKind

TsOfKind(k) == {i \in Items : tsKind[i] = k}

StandaloneFunctions == TsOfKind("function") \ tsDotted

TsTopLevel == (Items \ TsOfKind("function")) \cup StandaloneFunctions

MethodKinds == {"Method", "InstanceMethod"}

Having(h, kinds) == {c \in DOMAIN tsCaps[h] : tsCaps[h][c].kind \in kinds}

Getters(h) == Having(h, {"PropertyGetter"})

Setters(h) == Having(h, {"PropertySetter"})

TsMethods(h) == Having(h, MethodKinds)

NormalizeSetterName(name) == IF Head(name) = "set" THEN Tail(name) ELSE name

TypeReference(t) == IF t \in Items \ TsOfKind("function") THEN ItemPage(t) ELSE NoLink

(* One line of a page: the section, what it names, where that leads, where *)
(* the type it mentions leads, and a note.                                 *)
Line(section, names, to, type, note) ==
  [section |-> section, names |-> names, to |-> to, type |-> type, note |-> note]

Source(i) == Line("Source", <<i>>, NoLink, NoLink, "")

ModuleLine == Line("Module", <<>>, Module, NoLink, "")

ModuleMarkdown == {ModuleLine} \cup {Line(tsKind[i], <<i>>, ItemPage(i), NoLink, "") : i \in TsTopLevel}

(***************************************************************************)
(* The page of a handle.  A setter is noted at its getter; it has a line   *)
(* of its own when it has none.                                            *)
(***************************************************************************)
HasSetter(h, getter) == \E s \in Setters(h) : NormalizeSetterName(s) = getter

SettersAlone(h) == {s \in Setters(h) : NormalizeSetterName(s) \notin Getters(h)}

HandleProperties(h) ==
  {Line("Properties", g, NoLink, TypeReference(tsCaps[h][g].type), IF HasSetter(h, g) THEN "get set" ELSE "get") :
     g \in Getters(h)}
  \cup {Line("Properties", s, NoLink, TypeReference(tsCaps[h][s].type), "set") : s \in SettersAlone(h)}

HandleMethods(h) == {Line("Methods", m, MemberPage(h, m), NoLink, "") : m \in TsMethods(h)}

HandleTypeDeclaration(h) ==
  {Line("Definition", g, NoLink, NoLink, IF HasSetter(h, g) THEN "" ELSE "readonly") : g \in Getters(h)}
  \cup {Line("Definition", c, NoLink, NoLink, "call") : c \in SettersAlone(h) \cup TsMethods(h)}

(***************************************************************************)
(* The pages of the other kinds.                                           *)
(***************************************************************************)
Mentioned(section, i) == {Line(section, <<t>>, NoLink, TypeReference(t), "") : t \in tsRefs[i]}

(* A target that the document does not have is linked by its name.         *)
AppliesTo(f) == {Line("Applies to", <<t>>, ItemPage(t), NoLink, "") : t \in tsTargets[f]}

ItemMarkdown(i) ==
  {ModuleLine, Source(i)}
  \cup (CASE tsKind[i] = "handle" -> HandleTypeDeclaration(i) \cup HandleProperties(i) \cup HandleMethods(i)
          [] tsKind[i] = "dto" -> Mentioned("Fields", i)
          [] tsKind[i] = "enum" -> {}
          [] tsKind[i] = "function" -> Mentioned("Parameters", i) \cup AppliesTo(i))

MemberMarkdown(h, m) ==
  { ModuleLine,
    Line("Defined on", <<h>>, ItemPage(h), NoLink, ""),
    Line("Returns", m, NoLink, TypeReference(tsCaps[h][m].type), "") }

StaticPaths ==
  {Index, Module} \cup {ItemPage(i) : i \in TsTopLevel}
  \cup UNION {{MemberPage(h, m) : m \in TsMethods(h)} : h \in TsOfKind("handle")}

Markdown(p) ==
  CASE p.page = "index" -> {ModuleLine}
    [] p.page = "module" -> ModuleMarkdown
    [] p.page = "item" -> ItemMarkdown(p.item)
    [] p.page = "member" -> MemberMarkdown(p.item, p.member)

Sidebar(p) ==
  CASE p.page = "index" -> <<Index, Module>>
    [] p.page = "module" -> <<Index, Module>>
    [] p.page = "item" -> <<Index, Module, ItemPage(p.item)>>
    [] p.page = "member" -> <<Index, Module, ItemPage(p.item), MemberPage(p.item, p.member)>>

EmptyFun == [x \in {} |-> x]

TsInit ==
  /\ tsKind = EmptyFun /\ tsCaps = EmptyFun /\ tsRefs = EmptyFun /\ tsTargets = EmptyFun
  /\ tsDotted = {} /\ tsPage = TsNone /\ tsLines = {}

(* The generator writes one more item.                                     *)
TsAddType ==
  \E t \in Types \ Items, k \in {"handle", "dto", "enum"}, named \in SUBSET Types :
    /\ Cardinality(Items) < TsMaxItems
    /\ k # "dto" => named = {}
    /\ tsKind' = tsKind @@ (t :> k)
    /\ tsCaps' = IF k = "handle" THEN tsCaps @@ (t :> EmptyFun) ELSE tsCaps
    /\ tsRefs' = IF k = "dto" THEN tsRefs @@ (t :> named) ELSE tsRefs
    /\ UNCHANGED <<tsTargets, tsDotted, tsPage, tsLines>>

AddFunction ==
  \E f \in Functions \ Items, named, on \in SUBSET Types, inContainer \in BOOLEAN :
    /\ Cardinality(Items) < TsMaxItems
    /\ Cardinality(named \cup on) <= 1
    /\ tsKind' = tsKind @@ (f :> "function")
    /\ tsRefs' = tsRefs @@ (f :> named)
    /\ tsTargets' = tsTargets @@ (f :> on)
    /\ tsDotted' = IF inContainer THEN tsDotted \cup {f} ELSE tsDotted
    /\ UNCHANGED <<tsCaps, tsPage, tsLines>>

AddCapability ==
  \E h \in TsOfKind("handle"), t \in Types, k \in MethodKinds \cup {"PropertyGetter", "PropertySetter"} :
    \E c \in Capabilities \ DOMAIN tsCaps[h] :
      /\ Cardinality(DOMAIN tsCaps[h]) < MaxCapabilities
      /\ tsCaps' = [tsCaps EXCEPT ![h] = @ @@ (c :> [kind |-> k, type |-> t])]
      /\ UNCHANGED <<tsKind, tsRefs, tsTargets, tsDotted, tsPage, tsLines>>

(* GET of one page of the finished document.                               *)
TsRender ==
  \E p \in StaticPaths :
    /\ tsPage' = p
    /\ tsLines' = Markdown(p)
    /\ UNCHANGED tsDoc

TsNext == \/ tsPage = TsNone /\ (TsAddType \/ AddFunction \/ AddCapability)
          \/ TsRender

TsSpec == TsInit /\ [][TsNext]_tsVars

Links(ls) == ({l.to : l \in ls} \cup {l.type : l \in ls}) \ {NoLink}

(* The parts of a document are about items it has.                         *)
TsTypeOK ==
  /\ Items \subseteq Types \cup Functions
  /\ DOMAIN tsCaps = TsOfKind("handle")
  /\ DOMAIN tsTargets = TsOfKind("function") /\ tsDotted \subseteq TsOfKind("function")
  /\ DOMAIN tsRefs = TsOfKind("function") \cup TsOfKind("dto")
  /\ tsPage \in StaticPaths \cup {TsNone}

(* A link of a page leads to a published page, except where a function     *)
(* says which types it applies to.                                         *)
LinksLand == Links({l \in tsLines : l.section # "Applies to"}) \subseteq StaticPaths

(* Every published item can be reached from the module page, every method  *)
(* from the page of its handle, and each of them leads back.               *)
ThereAndBack ==
  /\ tsPage = Module => \A i \in TsTopLevel : ItemPage(i) \in Links(tsLines)
  /\ tsPage.page = "item" =>
       /\ Module \in Links(tsLines)
       /\ \A p \in StaticPaths : (p.page = "member" /\ p.item = tsPage.item) => p \in Links(tsLines)
  /\ tsPage.page = "member" => ItemPage(tsPage.item) \in Links(tsLines)

(* The page of a handle shows every capability once: a method, a property, *)
(* a setter on its own, or a setter as the note of its property.           *)
Shows(h, c) ==
  {l \in tsLines : l.section \in {"Properties", "Methods"} /\
                   (l.names = c \/ (l.note = "get set" /\ c \in Setters(h) /\ Head(c) = "set" /\ l.names = Tail(c)))}

CapabilitiesShownOnce ==
  (tsPage.page = "item" /\ tsKind[tsPage.item] = "handle") =>
    \A c \in DOMAIN tsCaps[tsPage.item] : Cardinality(Shows(tsPage.item, c)) = 1

(* The declaration of a handle says what its lists say: one line for each, *)
(* read-only where the list has no setter.                                 *)
DeclarationAgrees ==
  (tsPage.page = "item" /\ tsKind[tsPage.item] = "handle") =>
    LET declared == {l \in tsLines : l.section = "Definition"}
        listed == {l \in tsLines : l.section \in {"Properties", "Methods"}}
    IN /\ {l.names : l \in declared} = {l.names : l \in listed}
       /\ {l.names : l \in {d \in declared : d.note = "readonly"}} = {l.names : l \in {d \in listed : d.note = "get"}}

(* The sidebar of a page leads down to the page: each entry is published   *)
(* and is linked from the page before it or leads on to one that is.       *)
SidebarLeadsHere ==
  tsPage # TsNone =>
    LET path == Sidebar(tsPage)
    IN /\ \A k \in DOMAIN path : path[k] \in StaticPaths
       /\ tsPage # Index => path[Len(path)] = tsPage
       /\ \A k \in 2..Len(path) : path[k] \in Links(Markdown(path[k - 1]))

-----------------------------------------------------------------------------

(***************************************************************************)
(* How a TypeScript signature and a type name are laid out                 *)
(* (formatTsSignature and simplifyType of ts-modules.ts, with the          *)
(* declarations typescript-api-markdown.ts feeds them).                    *)
(*                                                                         *)
(* A text is a sequence of tokens: the brackets, the comma, the arrow, the *)
(* marks of a qualified name, and "x" for any other word.  Blanks are left *)
(* out: the code trims every parameter.  A parameter is put together by    *)
(* the declaration from its name and its type.                             *)
(***************************************************************************)

CONSTANTS LineParameterTypes,  \* the types of parameters, as token sequences
          ReturnTypes,
          LineMaxParameters,
          TypeRefs \* references: [assembly, path, suffix]

VARIABLES
  lineParameters, \* the types of the parameters of the callable
  returns,        \* its return type
  typeRef,        \* a reference of the same page
  lineShown,      \* the lines formatTsSignature returned, or None
  simple          \* what simplifyType returned, or None

lineVars == <<lineParameters, returns, typeRef, lineShown, simple>>

LineNone == <<>>

(***************************************************************************)
(* The declaration: name(p: T, ...): R.                                    *)
(***************************************************************************)
FormatParameterDeclaration(type) == <<"x", ":">> \o type

FormatParameterList(types) ==
  FoldLeft(LAMBDA text, i : text \o (IF i > 1 THEN <<",">> ELSE <<>>) \o FormatParameterDeclaration(types[i]),
           <<>>, [i \in DOMAIN types |-> i])

MemberSignature(types, ret) == <<"x", "(">> \o FormatParameterList(types) \o <<")", ":">> \o ret

(***************************************************************************)
(* The scan.  The arrow of a callback ends with the sign that closes a     *)
(* list of type arguments.                                                 *)
(***************************************************************************)
Opens == {"(", "<"}

Closes == {")", ">", "=>"}

Depth(text, from, to) ==
  FoldLeft(LAMBDA d, i : IF i < from \/ i > to THEN d
                         ELSE IF text[i] \in Opens THEN d + 1
                         ELSE IF text[i] \in Closes THEN d - 1 ELSE d,
           0, [i \in DOMAIN text |-> i])

OpenIdx(sig) == Min({i \in DOMAIN sig : sig[i] = "("})

CloseIdx(sig) ==
  LET found == {i \in DOMAIN sig : i >= OpenIdx(sig) /\ sig[i] = ")" /\ Depth(sig, OpenIdx(sig), i) = 0}
  IN IF found = {} THEN 0 ELSE Min(found)

Separators(text) == {i \in DOMAIN text : text[i] = "," /\ Depth(text, 1, i) = 0}

LineSplitParams(text) ==
  LET ends == SetToSortSeq(Separators(text) \cup {Len(text) + 1}, <)
      pieces == [k \in DOMAIN ends |-> SubSeq(text, IF k = 1 THEN 1 ELSE ends[k - 1] + 1, ends[k] - 1)]
  IN IF Last(pieces) = <<>> THEN Front(pieces) ELSE pieces

Lines(sig) ==
  LET open == OpenIdx(sig)
      close == CloseIdx(sig)
      params == LineSplitParams(SubSeq(sig, open + 1, close - 1))
  IN IF close <= open \/ Len(params) <= 1 THEN <<sig>>
     ELSE <<SubSeq(sig, 1, open)>>
          \o [i \in DOMAIN params |-> IF i < Len(params) THEN Append(params[i], ",")
                                       ELSE params[i] \o SubSeq(sig, close, Len(sig))]

(***************************************************************************)
(* simplifyType: the assembly goes, then the assembly name of a bracketed  *)
(* argument, then all but the last segment of the name; angle brackets     *)
(* keep what follows them.                                                 *)
(***************************************************************************)
Text(ref) == (IF ref.assembly THEN <<"A", "/">> ELSE <<>>) \o ref.path \o ref.suffix

After(text, mark) ==
  LET at == {i \in DOMAIN text : text[i] = mark}
  IN IF at = {} THEN text ELSE SubSeq(text, Min(at) + 1, Len(text))

LastSegment(text) ==
  LET at == {i \in DOMAIN text : text[i] = "."}
  IN IF at = {} THEN text ELSE SubSeq(text, Max(at) + 1, Len(text))

CleanMetadata(text) ==
  LET commas == {i \in DOMAIN text : text[i] = "," /\ \E j \in 1..i : text[j] = "[["}
  IN IF commas = {} THEN text ELSE SubSeq(text, 1, Min(commas) - 1) \o <<"]]">>

SimplifyType(text) ==
  LET stripped == CleanMetadata(After(text, "/"))
      angles == {i \in DOMAIN stripped : stripped[i] = "<"}
  IN IF angles = {} THEN LastSegment(stripped)
     ELSE LastSegment(SubSeq(stripped, 1, Min(angles) - 1)) \o SubSeq(stripped, Min(angles), Len(stripped))

(***************************************************************************)
(* A page asks for both.                                                   *)
(***************************************************************************)
LineInit ==
  /\ lineParameters \in BoundedSeq(LineParameterTypes, LineMaxParameters)
  /\ returns \in ReturnTypes
  /\ typeRef \in TypeRefs
  /\ lineShown = LineNone /\ simple = LineNone

Format ==
  /\ lineShown = LineNone
  /\ lineShown' = Lines(MemberSignature(lineParameters, returns))
  /\ UNCHANGED <<lineParameters, returns, typeRef, simple>>

Simplify ==
  /\ simple = LineNone
  /\ simple' = SimplifyType(Text(typeRef))
  /\ UNCHANGED <<lineParameters, returns, typeRef, lineShown>>

LineNext == Format \/ Simplify

LineSpec == LineInit /\ [][LineNext]_lineVars

Tokens == {"x", "A", ":", "(", ")", "<", ">", "=>", ",", ".", "/", "[[", "]]"}

(* The layout is a sequence of lines of tokens.                            *)
LineTypeOK ==
  /\ \A k \in DOMAIN lineShown : lineShown[k] \in Seq(Tokens)
  /\ simple \in Seq(Tokens)

(* Wrapping adds line ends and indentation and nothing else: read without  *)
(* them, the lines are the signature, whatever brackets it has.            *)
NothingIsLost ==
  lineShown # LineNone => FlattenSeq(lineShown) = MemberSignature(lineParameters, returns)

Callback(type) == \E i \in DOMAIN type : type[i] = "=>"

Wrapped == Len(lineParameters) >= 2

OnTheirOwn ==
  /\ Len(lineShown) = Len(lineParameters) + 1
  /\ \A i \in 1..(Len(lineParameters) - 1) :
       lineShown[i + 1] = Append(FormatParameterDeclaration(lineParameters[i]), ",")

(* Of a signature without callbacks that has two parameters or more, every *)
(* parameter stands on a line of its own, also when its type has commas.   *)
ParametersWrap ==
  (lineShown # LineNone /\ Wrapped /\ \A i \in DOMAIN lineParameters : ~Callback(lineParameters[i])) => OnTheirOwn

(* A shown name carries neither the assembly of the type nor its namespace *)
(* when the type has no bracketed arguments.                               *)
NamesAreSimple ==
  (simple # LineNone /\ \A i \in DOMAIN typeRef.suffix : typeRef.suffix[i] # "[[")
    => simple = <<Last(typeRef.path)>> \o typeRef.suffix

(* The metadata of a bracketed argument is not shown.                      *)
NoAssemblyNames ==
  simple # LineNone => \A i \in DOMAIN simple :
    simple[i] \notin {"A", "/"} /\ (simple[i] = "," => \E j \in 1..i : simple[j] = "<")
=============================================================================
