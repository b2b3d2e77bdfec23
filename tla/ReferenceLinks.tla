--------------------------- MODULE ReferenceLinks ---------------------------
(* What links into the API reference mean, and how their usage is checked.   *)
EXTENDS Naturals, Sequences, FiniteSets, SequencesExt, FiniteSetsExt

-----------------------------------------------------------------------------

(***************************************************************************)
(* How a written API name becomes links (api-reference-core.ts and         *)
(* api-reference/registry.ts, csharp-provider.ts, typescript-provider.ts). *)
(*                                                                         *)
(* A page names a C# member, perhaps with its package or its parameter     *)
(* types.  The registry finds the one C# candidate that is meant, or       *)
(* reports that there is none or several, and then the TypeScript API it   *)
(* is exported as: by the capability identifier of its export attribute,   *)
(* else by name and target type within the module of its package.          *)
(*                                                                         *)
(* Names are compared without case, so a name is its lower-case form.  A   *)
(* type that is generic in two arities has one name and two full names.    *)
(***************************************************************************)

CONSTANTS
  Catalogs,  \* the sequences of C# members to index
  Modules,   \* the sequences of TypeScript routes to index
  Queries,   \* what pages ask for
  SimpleName \* full type name -> its last part

ReferenceNone == "none"

NoPath == 0

VARIABLES referenceMembers, routes, query, referenceAnswer

referenceVars == <<referenceMembers, routes, query, referenceAnswer>>

(***************************************************************************)
(* The C# index.  A candidate is the set of positions of the members that  *)
(* one type of one package declares under one name.                        *)
(***************************************************************************)
Fqn(m) == <<m.type, m.name>>

GroupOf(cat, i) ==
  {j \in DOMAIN cat : /\ Fqn(cat[j]) = Fqn(cat[i]) /\ cat[j].pkg = cat[i].pkg
                      /\ cat[j].arity = cat[i].arity}

Lookup(cat, fqn, pkg) ==
  {GroupOf(cat, i) : i \in {j \in DOMAIN cat : Fqn(cat[j]) = fqn /\ pkg \in {ReferenceNone, cat[j].pkg}}}

IsCallable(m) == m.kind = "method"

MatchOverload(cat, groups, params) ==
  {{i} : i \in {j \in UNION groups : IsCallable(cat[j]) /\ cat[j].params = params}}

First(group) == Min(group)

(***************************************************************************)
(* Export mappings.  A member is exported by its own attributes, else      *)
(* ignored in favour of another export, else exposed by its type.          *)
(***************************************************************************)
DeclaringTypes(m) == IF m.receiver # ReferenceNone THEN {m.receiver} ELSE {m.type}

Mapping(m, id, name, required, untargeted) ==
  [id |-> id, name |-> name, required |-> required, untargeted |-> untargeted, types |-> DeclaringTypes(m)]

CapabilityId(m, export) ==
  CASE export.id # ReferenceNone -> <<m.pkg, export.id>>
    [] export.id = ReferenceNone /\ (m.static \/ m.receiver # ReferenceNone) -> <<m.pkg, m.name>>
    [] OTHER -> <<>>

MappingsOf(m) ==
  CASE m.exports # {} ->
         {Mapping(m, CapabilityId(m, x), IF x.method = ReferenceNone THEN m.name ELSE x.method, TRUE, FALSE) : x \in m.exports}
    [] m.exports = {} /\ m.ignored # ReferenceNone -> {Mapping(m, <<>>, m.name, FALSE, m.ignored = "dispatcher")}
    [] m.exports = {} /\ m.ignored = ReferenceNone /\ m.exposed -> {Mapping(m, <<>>, m.name, FALSE, FALSE)}
    [] OTHER -> {}

ExportMappings(cat, group) == UNION {MappingsOf(cat[i]) : i \in group}

(***************************************************************************)
(* TypeScript routes.  A standalone function has a page of its own, a      *)
(* method a page below its handle, a property an anchor.                   *)
(***************************************************************************)
Priority(route) ==
  CASE route.kind = "function" -> 0
    [] route.kind \in {"Method", "InstanceMethod", "PropertyGetter"} -> 1
    [] route.kind = "PropertySetter" -> 2

CandidateMatchesMapping(route, mapping) ==
  \/ route.targets \intersect mapping.types # {}
  \/ route.container \in {SimpleName[t] : t \in mapping.types}

Preferred(mod, found) ==
  {r \in found : \A q \in found : Priority(mod[r]) <= Priority(mod[q])}

FindTsCandidates(mod, mapping, pkg) ==
  LET byId == {r \in DOMAIN mod : mapping.id # <<>> /\ mod[r].cap = mapping.id}
      everywhere == {r \in DOMAIN mod : mod[r].name = mapping.name}
      named == {r \in everywhere : mod[r].module = pkg}
      Targeted(found) == {r \in found : CandidateMatchesMapping(mod[r], mapping)}
  IN Preferred(mod, CASE byId # {} -> byId
                      [] byId = {} /\ Targeted(named) # {} -> Targeted(named)
                      [] byId = {} /\ Targeted(named) = {} /\ mapping.untargeted ->
                           IF Targeted(everywhere) # {} THEN Targeted(everywhere) ELSE named
                      [] OTHER -> {})

Linked(path) == [path |-> path, code |-> ReferenceNone]

Unlinked(code) == [path |-> NoPath, code |-> code]

ResolveTarget(mod, mappings, pkg, canonical) ==
  LET found == UNION {FindTsCandidates(mod, x, pkg) : x \in mappings}
      named == {r \in found : mod[r].name = canonical}
      best == Preferred(mod, IF named # {} THEN named ELSE found)
      unresolved == \E x \in mappings : x.required /\ FindTsCandidates(mod, x, pkg) = {}
  IN CASE unresolved -> Unlinked("unresolved-typescript-export")
       [] ~unresolved /\ best = {} -> Unlinked("missing-typescript")
       [] ~unresolved /\ Cardinality(best) > 1 -> Unlinked("ambiguous-typescript")
       [] OTHER -> Linked(CHOOSE r \in best : TRUE)

Fallback(status, code) ==
  [status |-> status, group |-> {}, code |-> code, ts |-> Unlinked(ReferenceNone)]

Resolved(cat, mod, group) ==
  LET m == cat[First(group)]
  IN [status |-> "resolved", group |-> group, code |-> ReferenceNone,
      ts |-> ResolveTarget(mod, ExportMappings(cat, group), m.pkg, m.name)]

Resolve(cat, mod, groups, missing, ambiguous) ==
  CASE groups = {} -> Fallback("missing", missing)
    [] Cardinality(groups) > 1 -> Fallback("ambiguous", ambiguous)
    [] OTHER -> Resolved(cat, mod, CHOOSE g \in groups : TRUE)

Answer(cat, mod, q) ==
  IF q.overload THEN Resolve(cat, mod, MatchOverload(cat, Lookup(cat, q.fqn, q.pkg), q.params),
                             "missing-overload", "ambiguous-overload")
  ELSE Resolve(cat, mod, Lookup(cat, q.fqn, q.pkg), "missing-csharp", "ambiguous-csharp")

ReferenceInit ==
  /\ referenceMembers \in Catalogs /\ routes \in Modules
  /\ query = <<>> /\ referenceAnswer = <<>>

Ask ==
  /\ query = <<>>
  /\ \E q \in Queries : query' = q /\ referenceAnswer' = Answer(referenceMembers, routes, q)
  /\ UNCHANGED <<referenceMembers, routes>>

ReferenceNext == Ask

ReferenceSpec == ReferenceInit /\ [][ReferenceNext]_referenceVars

Asked == query # <<>>

(* An answer is one candidate with at most one link, or a reported error.  *)
ReferenceTypeOK ==
  Asked =>
    /\ referenceAnswer.status \in {"resolved", "missing", "ambiguous"}
    /\ (referenceAnswer.status = "resolved") = (referenceAnswer.group # {})
    /\ (referenceAnswer.status = "resolved") = (referenceAnswer.code = ReferenceNone)
    /\ referenceAnswer.group \subseteq DOMAIN referenceMembers
    /\ referenceAnswer.ts.path \in {NoPath} \union DOMAIN routes

(* Naming the package only narrows: what resolves without it resolves to   *)
(* the same thing with its package, and what is ambiguous without it is    *)
(* ambiguous in some package, or resolves in two or more.                  *)
QualifyingNarrows ==
  Asked /\ query.pkg = ReferenceNone =>
    LET In(p) == Answer(referenceMembers, routes, [query EXCEPT !.pkg = p])
        packages == {referenceMembers[i].pkg : i \in DOMAIN referenceMembers}
        resolving == {p \in packages : In(p).status = "resolved"}
        unclear == {p \in packages : In(p).status = "ambiguous"}
    IN CASE referenceAnswer.status = "resolved" -> unclear = {} /\ \A p \in packages : p \in resolving => In(p) = referenceAnswer
         [] referenceAnswer.status = "ambiguous" -> unclear # {} \/ Cardinality(resolving) > 1
         [] referenceAnswer.status = "missing" -> resolving = {} /\ unclear = {}

(* A resolved overload is a callable member with these parameter types, in *)
(* this package, and no other member could be meant.                       *)
OverloadIsMeant ==
  Asked /\ query.overload =>
    LET meant == {i \in DOMAIN referenceMembers :
                    /\ Fqn(referenceMembers[i]) = query.fqn /\ referenceMembers[i].kind = "method"
                    /\ referenceMembers[i].params = query.params
                    /\ (query.pkg = ReferenceNone \/ referenceMembers[i].pkg = query.pkg)}
    IN (referenceAnswer.status = "resolved") = (Cardinality(meant) = 1)
       /\ (referenceAnswer.status = "resolved" => referenceAnswer.group = meant)

(* Whether a TypeScript page can be the export of a member at all.         *)
Corresponds(m, r) ==
  \/ \E x \in m.exports : r.cap \in {<<m.pkg, x.id>>, <<m.pkg, m.name>>} /\ r.cap # <<>>
  \/ /\ r.module = m.pkg \/ m.ignored = "dispatcher"
     /\ r.name \in {m.name} \union {x.method : x \in m.exports}
     /\ \/ r.targets \intersect DeclaringTypes(m) # {}
        \/ r.container \in {SimpleName[t] : t \in DeclaringTypes(m)}
        \/ m.ignored = "dispatcher" /\ r.module = m.pkg

(* A TypeScript link leads to a page that some member meant by the answer  *)
(* is exported as; a member that is neither exported, ignored nor exposed  *)
(* contributes none.                                                       *)
LinksCorrespond ==
  Asked /\ referenceAnswer.status = "resolved" /\ referenceAnswer.ts.path # NoPath =>
    \E i \in referenceAnswer.group :
      /\ Corresponds(referenceMembers[i], routes[referenceAnswer.ts.path])
      /\ referenceMembers[i].exports # {} \/ referenceMembers[i].ignored # ReferenceNone \/ referenceMembers[i].exposed

(* No link hides an explicit export that has no page.                      *)
NoExportIsForgotten ==
  Asked /\ referenceAnswer.status = "resolved" /\ referenceAnswer.ts.path # NoPath =>
    \A i \in referenceAnswer.group : referenceMembers[i].exports # {} =>
      \E r \in DOMAIN routes : Corresponds(referenceMembers[i], routes[r])

(* The answer is the same whatever the order in which packages, members    *)
(* and modules were indexed: it never takes the first of several.          *)
Flip(set, n) == {n + 1 - i : i \in set}

OrderDoesNotMatter ==
  Asked =>
    LET n == Len(referenceMembers)
        k == Len(routes)
        other == Answer(Reverse(referenceMembers), Reverse(routes), query)
    IN /\ other.status = referenceAnswer.status
       /\ Flip(other.group, n) = referenceAnswer.group
       /\ other.ts.code = referenceAnswer.ts.code
       /\ (other.ts.path = NoPath) = (referenceAnswer.ts.path = NoPath)
       /\ other.ts.path # NoPath => k + 1 - other.ts.path = referenceAnswer.ts.path

-----------------------------------------------------------------------------

(***************************************************************************)
(* The check of every <ApiReference> written in the content                *)
(* (api-reference-validator.ts): what its props are is read from the       *)
(* source, before the page is built, and looked up in the API index.       *)
(*                                                                         *)
(* A value is a record: a string, a list of strings, another value, or     *)
(* absent.  An expression is a record with a type; Expressions has the     *)
(* parts of its members too.  Reading a prop takes the last attribute      *)
(* that can set it; a spread can set any.                                  *)
(***************************************************************************)

CONSTANTS Expressions, \* the expressions attributes may be given
          Known,      \* the <<name, package, parameterTypes>> the index resolves
          Unverified, \* names whose TypeScript page the index cannot vouch for
          Props,      \* what a spread may hold: prop -> value, for some props
          Paths, MaxUsages, MaxAttributes, MaxLine

PropNames == {"name", "package", "parameterTypes"}

Str(s) == [string |-> s]

UsageList(ss) == [list |-> ss]

Other == [other |-> TRUE]   \* a number, an object, undefined, ...

Absent == [absent |-> TRUE]

IsString(v) == "string" \in DOMAIN v

IsList(v) == "list" \in DOMAIN v

VARIABLES
  files,      \* path -> its usages, in the order the syntax tree is walked
  diagnostics \* what the check returned, or None

usageVars == <<files, diagnostics>>

UsageNone == [done |-> FALSE]

(***************************************************************************)
(* Reading.  Undefined (Other) is what cannot be read.                     *)
(***************************************************************************)
ReadStatic[e \in Expressions] ==
  CASE e.type = "Literal" -> IF IsString(e.value) THEN e.value ELSE Other
    [] e.type = "ParenthesizedExpression" -> ReadStatic[e.expression]
    [] e.type = "ArrayExpression" ->
         LET elements == [i \in DOMAIN e.elements |-> ReadStatic[e.elements[i]]]
         IN IF \A i \in DOMAIN elements : IsString(elements[i])
            THEN UsageList([i \in DOMAIN elements |-> elements[i].string]) ELSE Other
    [] e.type = "TemplateLiteral" -> IF e.expressions = 0 THEN e.value ELSE Other
    [] OTHER -> Other

ReadStaticExpression(e) == ReadStatic[e]

ReadAttribute(a) ==
  IF a.spread THEN a ELSE [spread |-> FALSE, name |-> a.name, value |-> ReadStaticExpression(a.expression)]

ResolveAttribute(attributes, name) ==
  LET sets == {i \in DOMAIN attributes : attributes[i].spread \/ attributes[i].name = name}
  IN IF sets = {} THEN [source |-> "absent", value |-> Absent]
     ELSE IF attributes[Max(sets)].spread THEN [source |-> "spread", value |-> Absent]
     ELSE [source |-> "explicit", value |-> attributes[Max(sets)].value]

Diagnostic(path, usage, code, severity) ==
  [filePath |-> path, line |-> usage.line, code |-> code, severity |-> severity]

(* The index answers with an error, or with a warning about the TypeScript *)
(* side of a name it knows, or with nothing.                               *)
Resolution(name, package, parameterTypes) ==
  IF <<name, package, parameterTypes>> \notin Known THEN {"error"}
  ELSE IF name \in Unverified THEN {"warning"} ELSE {}

Blank(s) == s \in {"", " "}

ValidateUsage(path, usage) ==
  LET attributes == [i \in DOMAIN usage.attributes |-> ReadAttribute(usage.attributes[i])]
      name == ResolveAttribute(attributes, "name")
      package == ResolveAttribute(attributes, "package")
      types == ResolveAttribute(attributes, "parameterTypes")
      IfString(v) == IF IsString(v) THEN v ELSE Absent
      IfList(v) == IF IsList(v) THEN v ELSE Absent
      Report(code) == {Diagnostic(path, usage, code, "error")}
  IN IF \E a \in {name, package, types} : a.source = "spread" THEN Report("unsupported-spread")
     ELSE IF ~IsString(name.value) \/ name.value = Str("") THEN Report("invalid-fqn")
     ELSE IF package.source = "explicit" /\ (~IsString(package.value) \/ package.value = Str(""))
       THEN Report("invalid-fqn")
     ELSE IF types.source = "explicit" /\ (~IsList(types.value) \/ \E i \in DOMAIN types.value.list : Blank(types.value.list[i]))
       THEN Report("invalid-overload")
     ELSE {Diagnostic(path, usage, "resolution", s) :
             s \in Resolution(name.value, IfString(package.value), IfList(types.value))}

(* All files, one report after the other, sorted by file, line, severity.  *)
Reports(fs) ==
  UNION {{[report |-> d, path |-> p, usage |-> i] : d \in ValidateUsage(p, fs[p][i])} :
           <<p, i>> \in {<<q, j>> \in Paths \X (1..MaxUsages) : j <= Len(fs[q])}}

Rank(severity) == IF severity = "error" THEN 1 ELSE 2

UsageBefore(a, b) ==
  \/ a.path < b.path
  \/ a.path = b.path /\ a.report.line < b.report.line
  \/ a.path = b.path /\ a.report.line = b.report.line /\ Rank(a.report.severity) < Rank(b.report.severity)
  \/ a.path = b.path /\ a.report.line = b.report.line /\ a.report.severity = b.report.severity /\ a.usage < b.usage

ValidateApiReferenceFiles(fs) == SetToSortSeq(Reports(fs), UsageBefore)

UsageInit == files = [p \in Paths |-> <<>>] /\ diagnostics = UsageNone

(* An author writes one more usage, or one more attribute of the last one. *)
AddUsage ==
  \E p \in Paths, line \in 1..MaxLine :
    /\ diagnostics = UsageNone /\ FoldLeft(LAMBDA n, q : n + Len(files[q]), 0, SetToSeq(Paths)) < MaxUsages
    /\ files' = [files EXCEPT ![p] = Append(@, [line |-> line, attributes |-> <<>>])]
    /\ UNCHANGED diagnostics

Attributes ==
  {[spread |-> TRUE]} \cup
  [spread : {FALSE}, name : PropNames, expression : Expressions]

AddAttribute ==
  \E p \in Paths, a \in Attributes :
    /\ diagnostics = UsageNone /\ files[p] # <<>>
    /\ Len(Last(files[p]).attributes) < MaxAttributes
    /\ files' = [files EXCEPT ![p][Len(files[p])].attributes = Append(@, a)]
    /\ UNCHANGED diagnostics

Check ==
  /\ diagnostics = UsageNone
  /\ diagnostics' = [done |-> TRUE, reports |-> ValidateApiReferenceFiles(files)]
  /\ UNCHANGED files

UsageNext == AddUsage \/ AddAttribute \/ Check

UsageSpec == UsageInit /\ [][UsageNext]_usageVars

(* What the component is given when the page is built: an expression that  *)
(* is not static, and a spread, may hold anything.                         *)
Eval[e \in Expressions] ==
  CASE e.type = "Literal" -> {e.value}
    [] e.type = "ParenthesizedExpression" -> Eval[e.expression]
    [] e.type = "ArrayExpression" ->
         LET choices == [i \in DOMAIN e.elements |-> Eval[e.elements[i]]]
         IN IF \A i \in DOMAIN choices : \A v \in choices[i] : IsString(v)
            THEN {UsageList([i \in DOMAIN f |-> f[i].string]) :
                    f \in {g \in [DOMAIN choices -> UNION ToSet(choices)] : \A i \in DOMAIN g : g[i] \in choices[i]}}
            ELSE {Other}
    [] e.type = "TemplateLiteral" -> IF e.expressions = 0 THEN {e.value} ELSE {e.value, Str("Z")}
    [] OTHER -> {Str("A"), Str("Z"), Other}

Given(attributes, prop) ==
  FoldLeft(LAMBDA values, a :
             IF a.spread THEN values \cup {s[prop] : s \in {t \in Props : prop \in DOMAIN t}}
             ELSE IF a.name = prop THEN Eval[a.expression] ELSE values,
           {Absent}, attributes)

Usages == {<<p, i>> \in Paths \X (1..MaxUsages) : i <= Len(files[p])}

Reported(u) == {r \in ToSet(diagnostics.reports) : r.path = u[1] /\ r.usage = u[2]}

Errors(u) == {r \in Reported(u) : r.report.severity = "error"}

(* A usage has at most one report.                                         *)
UsageTypeOK ==
  diagnostics.done => \A u \in Usages :
    /\ Cardinality(Reported(u)) <= 1
    /\ \A r \in Reported(u) : r.report.line = files[u[1]][u[2]].line

(* A usage the check accepts resolves when its page is built, whatever its *)
(* spreads and variables turn out to hold.                                 *)
AcceptedResolve ==
  diagnostics.done => \A u \in Usages :
    Errors(u) = {} =>
      LET attributes == files[u[1]][u[2]].attributes
      IN (Given(attributes, "name") \X Given(attributes, "package") \X Given(attributes, "parameterTypes"))
           \subseteq Known

(* A usage written with constants that resolves is not reported.           *)
Constant(attributes) == \A i \in DOMAIN attributes : ~attributes[i].spread

ResolvedAccepted ==
  diagnostics.done => \A u \in Usages :
    LET attributes == files[u[1]][u[2]].attributes
    IN (/\ Constant(attributes)
        /\ (Given(attributes, "name") \X Given(attributes, "package") \X Given(attributes, "parameterTypes")) \subseteq Known)
         => Errors(u) = {}

(* The reports can be read from top to bottom: by file, then by line, an   *)
(* error before a warning about the same line.                             *)
InReadingOrder ==
  diagnostics.done =>
    \A i, j \in DOMAIN diagnostics.reports : i < j =>
      LET a == diagnostics.reports[i].report  b == diagnostics.reports[j].report
      IN /\ a.filePath <= b.filePath
         /\ a.filePath = b.filePath => a.line <= b.line
         /\ (a.filePath = b.filePath /\ a.line = b.line) => ~(a.severity = "warning" /\ b.severity = "error")
=============================================================================
