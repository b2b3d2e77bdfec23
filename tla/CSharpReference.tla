--------------------------- MODULE CSharpReference --------------------------
(* The C# side of the API reference: its pages, the comments on them, the    *)
(* signatures of members and the anchors that lead to them.                  *)
EXTENDS Naturals, Sequences, FiniteSets, SequencesExt, FiniteSetsExt

-----------------------------------------------------------------------------

(***************************************************************************)
(* The Markdown pages of one C# package (csharp-api-markdown.ts, packages. *)
(* ts and the endpoints below pages/reference/api/csharp) as a graph: the  *)
(* pages that are published, the anchors each of them has and the links    *)
(* each of them makes.                                                     *)
(*                                                                         *)
(* A type has its own page and one page for each kind of member it has; an *)
(* enum value is not a member.  Documentation refers to types and members  *)
(* by their compiler identifiers, and a type may refer to others as its    *)
(* base, its interfaces, its nested types or the types of its signatures.  *)
(* The exact anchor of a member is its position: the part on anchors below *)
(* shows that exact anchors are distinct.                                  *)
(***************************************************************************)

CONSTANTS Namespaces, TypeNames, Arities, MemberNames, Kinds, Parameters,
          MaxTypes, MaxMembers, MaxRefs

NoAnchor == 0

CSharpNone == {}

MemberKindOrder == <<"constructor", "property", "method", "field", "event", "indexer">>

VARIABLES packageTypes, site

vars == <<packageTypes, site>>

FullName(t) == <<t.ns, t.name, t.arity>>

Slugify(t) == <<t.name, t.arity>>

(***************************************************************************)
(* Addresses and links.  A link is a page and an anchor on it.             *)
(***************************************************************************)
IndexPage == <<"index">>

PackagePage == <<"package">>

TypePage(t) == <<"type", Slugify(t)>>

KindPage(t, kind) == <<"kind", Slugify(t), kind>>

To(page, anchor) == [page |-> page, anchor |-> anchor]

GroupTypesByNamespace(ts) ==
  [ns \in {t.ns : t \in ToSet(ts)} |-> SelectSeq(ts, LAMBDA t : t.ns = ns)]

GroupMembersByKind(t) ==
  [kind \in {m.kind : m \in ToSet(t.members)} \intersect ToSet(MemberKindOrder) |->
     {i \in DOMAIN t.members : t.members[i].kind = kind}]

Find(ts, full) == {t \in ToSet(ts) : FullName(t) = full}

(* A type named in a signature, as base, interface, exception or nested    *)
(* type is a link when the package has it and plain code otherwise.        *)
TypeLinks(ts, full) == {To(TypePage(t), NoAnchor) : t \in Find(ts, full)}

(***************************************************************************)
(* resolveCrefMarkdown.                                                    *)
(***************************************************************************)
KindOfPrefix(ref) ==
  CASE ref.prefix = "P" -> "property"
    [] ref.prefix = "F" -> "field"
    [] ref.prefix = "E" -> "event"
    [] ref.prefix = "M" /\ ref.name = ".ctor" -> "constructor"
    [] OTHER -> "method"

Matched(t, ref) ==
  LET named == {i \in DOMAIN t.members : t.members[i].name = ref.name}
      exact == {i \in named : t.members[i].params = ref.params}
  IN CASE exact # {} -> Min(exact)
       [] exact = {} /\ named # {} -> Min(named)
       [] OTHER -> NoAnchor

(* Only a cref that finds its member has an anchor; one that finds only    *)
(* the owner goes to the page of the kind its prefix tells.                *)
ResolveCref(ts, ref) ==
  IF ref.prefix = "T" THEN TypeLinks(ts, ref.to)
  ELSE {To(KindPage(t, IF Matched(t, ref) # NoAnchor THEN t.members[Matched(t, ref)].kind ELSE KindOfPrefix(ref)),
           Matched(t, ref)) : t \in Find(ts, ref.to)}

RefLinks(ts, refs) ==
  UNION {IF r.prefix = "type" THEN TypeLinks(ts, r.to) ELSE ResolveCref(ts, r) : r \in refs}

(***************************************************************************)
(* The pages.                                                              *)
(***************************************************************************)
Page(page, anchors, links) == [page |-> page, anchors |-> anchors, links |-> links]

RenderIndex == Page(IndexPage, {}, {To(PackagePage, NoAnchor)})

RenderPackage(ts) ==
  LET groups == GroupTypesByNamespace(ts)
  IN Page(PackagePage, {},
          {To(TypePage(t), NoAnchor) : t \in UNION {ToSet(groups[ns]) : ns \in DOMAIN groups}})

RenderTypeMemberOverview(ts, t) ==
  LET groups == GroupMembersByKind(t)
  IN (UNION {{To(KindPage(t, kind), i) : i \in groups[kind]} : kind \in DOMAIN groups})
     \union UNION {TypeLinks(ts, full) : full \in t.nested}

RenderType(ts, t) ==
  Page(TypePage(t), {},
       {To(PackagePage, NoAnchor)} \union RefLinks(ts, t.refs) \union RenderTypeMemberOverview(ts, t))

RenderMemberKind(ts, t, kind) ==
  Page(KindPage(t, kind), {i \in DOMAIN t.members : t.members[i].kind = kind},
       {To(PackagePage, NoAnchor), To(TypePage(t), NoAnchor)} \union RefLinks(ts, t.refs))

Published(ts) ==
  {RenderIndex, RenderPackage(ts)} \union {RenderType(ts, t) : t \in ToSet(ts)}
  \union UNION {{RenderMemberKind(ts, t, kind) : kind \in DOMAIN GroupMembersByKind(t)} : t \in ToSet(ts)}

Init == packageTypes = <<>> /\ site = CSharpNone

Open == site = CSharpNone /\ UNCHANGED site

SumOver(Of(_)) == FoldSeq(LAMBDA t, n : n + Of(t), 0, packageTypes)

(* The types of a package have distinct names at each arity.               *)
AddType(ns, name, arity, values) ==
  /\ Open /\ Len(packageTypes) < MaxTypes
  /\ \A t \in ToSet(packageTypes) : Slugify(t) # <<name, arity>>
  /\ packageTypes' = Append(packageTypes, [ns |-> ns, name |-> name, arity |-> arity, values |-> values,
                                           members |-> <<>>, nested |-> {}, refs |-> {}])

AddMember(i, kind, name, params) ==
  /\ Open /\ SumOver(LAMBDA t : Len(t.members)) < MaxMembers /\ packageTypes[i].values = {}
  /\ (kind = "constructor") = (name = ".ctor")
  /\ kind \notin {"method", "constructor"} => params = <<>>
  /\ packageTypes' = [packageTypes EXCEPT ![i].members = Append(@, [kind |-> kind, name |-> name, params |-> params])]

AddNested(i, j) ==
  /\ Open /\ SumOver(LAMBDA t : Cardinality(t.nested)) < MaxRefs
  /\ packageTypes' = [packageTypes EXCEPT ![i].nested = {FullName(packageTypes[j])}]

(* Documentation may name a member that the generated data leaves out, and *)
(* a type of another package.                                              *)
AddRef(i, ref) ==
  /\ Open /\ SumOver(LAMBDA t : Cardinality(t.refs)) < MaxRefs
  /\ packageTypes' = [packageTypes EXCEPT ![i].refs = @ \union {ref}]

Render ==
  /\ site = CSharpNone /\ packageTypes # <<>>
  /\ site' = Published(packageTypes) /\ UNCHANGED packageTypes

Refs ==
  [prefix : {"T", "type"}, to : Namespaces \X TypeNames \X Arities, name : {""}, params : {<<>>}]
  \union {ref \in [prefix : {"M", "P", "F"}, to : Namespaces \X TypeNames \X Arities, name : MemberNames, params : Parameters] :
            ref.prefix # "M" => ref.name # ".ctor" /\ ref.params = <<>>}

Next ==
  \/ \E ns \in Namespaces, name \in TypeNames, arity \in Arities, values \in {{}, MemberNames \ {".ctor"}} :
       AddType(ns, name, arity, values)
  \/ \E i \in DOMAIN packageTypes, kind \in Kinds, name \in MemberNames, params \in Parameters :
       AddMember(i, kind, name, params)
  \/ \E i, j \in DOMAIN packageTypes : AddNested(i, j)
  \/ \E i \in DOMAIN packageTypes, ref \in Refs : AddRef(i, ref)
  \/ Render

Spec == Init /\ [][Next]_vars

Rendered == site # CSharpNone

PageAt(address) == CHOOSE p \in site : p.page = address

Exists(link) == \E p \in site : p.page = link.page /\ link.anchor \in p.anchors \union {NoAnchor}

(* Every address is published once.                                        *)
TypeOK ==
  /\ Len(packageTypes) <= MaxTypes
  /\ Rendered => \A p, q \in site : p.page = q.page => p = q

(* A reference whose member the owner declares, or whose owner is unknown. *)
Declared(ref) ==
  ref.prefix \in {"T", "type"}
  \/ \A t \in Find(packageTypes, ref.to) : \E m \in ToSet(t.members) : m.name = ref.name

(* Every link leads to a published page and to an anchor on it, as long as *)
(* the documentation names members that the generated data has.            *)
DeclaredLinksLand ==
  Rendered /\ (\A t \in ToSet(packageTypes) : \A ref \in t.refs : Declared(ref)) =>
    \A p \in site : \A link \in p.links : Exists(link)

(* Every page and every member of the package is found from the index.     *)
Reached(k) ==
  LET step[n \in 0..k] == IF n = 0 THEN {IndexPage}
                          ELSE step[n - 1] \union {l.page : l \in UNION {p.links : p \in {q \in site : q.page \in step[n - 1]}}}
  IN step[k]

AllIsReached ==
  Rendered =>
    /\ {p.page : p \in site} \subseteq Reached(3)
    /\ \A t \in ToSet(packageTypes) : \A i \in DOMAIN t.members :
         To(KindPage(t, t.members[i].kind), i) \in PageAt(TypePage(t)).links

(* A reference to an overload that exists leads to it, not to another one  *)
(* of its name, whatever the kind that the prefix tells.                   *)
OverloadIsFound ==
  Rendered =>
    \A t \in ToSet(packageTypes) : \A ref \in t.refs : \A owner \in Find(packageTypes, ref.to) :
      \A i \in DOMAIN owner.members :
        ref.prefix \notin {"T", "type"} /\ owner.members[i].name = ref.name /\ owner.members[i].params = ref.params =>
          \E link \in PageAt(TypePage(t)).links :
            link.anchor # NoAnchor /\ link.page[2] = Slugify(owner)
            /\ owner.members[link.anchor].name = ref.name /\ owner.members[link.anchor].params = ref.params

-----------------------------------------------------------------------------

(***************************************************************************)
(* Documentation comments as Markdown (csharp-api-markdown.ts with the     *)
(* helpers of api-markdown-shared.ts): a tree of text, code, paragraphs,   *)
(* notes, lists and code blocks becomes blocks below a heading.            *)
(*                                                                         *)
(* A text node is a word, a piece of punctuation or a blank; every other   *)
(* inline node (code, cref, href, langword, paramref) is "code".  A        *)
(* rendered run is the sequence of its tokens, "_" between two of them     *)
(* for a space.                                                            *)
(***************************************************************************)

CONSTANTS Docs  \* the trees to render: sequences of nodes

Texts == {"word", ",", " "}

Inline == Texts \union {"code"}

DocsNone == "none"

VARIABLES doc, docsPage

docsVars == <<doc, docsPage>>

IsBlockNode(node) == node.kind \in {"para", "note", "list", "codeblock"}

NeedsSpaceBefore(run, i) ==
  /\ i > 1
  /\ run[i].of \notin {",", " "}
  /\ run[i - 1].of # " "

RenderInlineNodes(run) ==
  LET Piece(i) == (IF NeedsSpaceBefore(run, i) THEN <<"_">> ELSE <<>>)
                  \o (IF run[i].of = " " THEN <<"_">> ELSE <<run[i].of>>)
      all == FlattenSeq([i \in DOMAIN run |-> Piece(i)])
      Kept(i) == \/ all[i] # "_"
                 \/ /\ i < Len(all) /\ all[i + 1] # "_"
                    /\ \E j \in 1..(i - 1) : all[j] # "_"
      kept == SelectSeq([i \in DOMAIN all |-> i], Kept)
  IN [k \in DOMAIN kept |-> all[kept[k]]]

(***************************************************************************)
(* Blocks.  Inline nodes gather until a block node or the end flushes them *)
(* into a block of their own; what renders to nothing makes no block.      *)
(***************************************************************************)
NonEmpty(blocks) == SelectSeq(blocks, LAMBDA b : b # <<>>)

FinalizeMarkdown(blocks) == FlattenSeq(NonEmpty(blocks))

RECURSIVE RenderDoc(_), RenderList(_)

Pieces(nodes) ==
  LET Starts(i) == i = 1 \/ IsBlockNode(nodes[i]) \/ IsBlockNode(nodes[i - 1])
      starts == SelectSeq([i \in DOMAIN nodes |-> i], Starts)
      End(k) == IF k = Len(starts) THEN Len(nodes) ELSE starts[k + 1] - 1
  IN [k \in DOMAIN starts |-> SubSeq(nodes, starts[k], End(k))]

RenderBlock(node) ==
  CASE node.kind \in {"para", "note"} -> RenderDoc(node.children)
    [] node.kind = "list" -> RenderList(node)
    [] node.kind = "codeblock" -> <<"block">>

RenderDoc(nodes) ==
  LET pieces == Pieces(nodes)
  IN FinalizeMarkdown([k \in DOMAIN pieces |->
       IF IsBlockNode(pieces[k][1]) THEN RenderBlock(pieces[k][1]) ELSE RenderInlineNodes(pieces[k])])

RenderList(node) ==
  LET Item(i) == RenderInlineNodes(node.items[i].term) \o RenderDoc(node.items[i].description)
      items == FinalizeMarkdown([i \in DOMAIN node.items |-> Item(i)])
  IN IF node.style = "table" /\ node.items # <<>> THEN <<"header">> \o items ELSE items

Section(title, content) == IF content = <<>> THEN <<>> ELSE <<title>> \o content

RenderMember(nodes) == FinalizeMarkdown(<<RenderDoc(nodes), Section("Remarks", RenderDoc(nodes))>>)

DocsInit == doc \in Docs /\ docsPage = <<DocsNone>>

DocsRender == docsPage = <<DocsNone>> /\ docsPage' = RenderMember(doc) /\ UNCHANGED doc

DocsNext == DocsRender

DocsSpec == DocsInit /\ [][DocsNext]_docsVars

RECURSIVE Visible(_)

(* The tokens a reader should see, in the order of the comment.            *)
Visible(nodes) ==
  FlattenSeq([i \in DOMAIN nodes |->
    LET n == nodes[i]
    IN CASE n.kind = "inline" -> IF n.of = " " THEN <<>> ELSE <<n.of>>
         [] n.kind = "codeblock" -> <<"block">>
         [] n.kind \in {"para", "note"} -> Visible(n.children)
         [] n.kind = "list" ->
              (IF n.style = "table" /\ n.items # <<>> THEN <<"header">> ELSE <<>>)
              \o FlattenSeq([k \in DOMAIN n.items |-> Visible(n.items[k].term) \o Visible(n.items[k].description)])])

DocsRendered == docsPage # <<DocsNone>>

Seen(tokens) == SelectSeq(tokens, LAMBDA t : t \notin {"_", "Remarks"})

(* A page is text, and no block of it starts or ends with a blank.         *)
DocsTypeOK ==
  DocsRendered => /\ ToSet(docsPage) \subseteq (Inline \ {" "}) \union {"_", "block", "header", "Remarks"}
                  /\ docsPage # <<>> => docsPage[1] # "_" /\ docsPage[Len(docsPage)] # "_"

(* Everything that was written is shown, once in each section and in the   *)
(* order in which it was written, however text and blocks are nested.      *)
InDocumentOrder == DocsRendered => Seen(docsPage) = Visible(doc) \o Visible(doc)

(* The heading is there exactly when there is something below it.          *)
NoEmptyHeading == DocsRendered => ("Remarks" \in ToSet(docsPage)) = (Visible(doc) # <<>>)

(* Two inline nodes of one run never run into each other, and punctuation  *)
(* stays with the word it follows unless the comment set it apart.         *)
WordsStayApart ==
  DocsRendered /\ (\A i \in DOMAIN doc : doc[i].kind = "inline") =>
    LET run == RenderDoc(doc)
    IN \A i \in 2..Len(run) :
         /\ run[i] \in {"word", "code"} => run[i - 1] = "_"
         /\ run[i] = "," /\ run[i - 1] = "_" => \E j \in DOMAIN doc : doc[j].of = " "

-----------------------------------------------------------------------------

(***************************************************************************)
(* The signatures of the C# API reference: text that is scanned again for  *)
(* its declaring type, its parameter list, the parameters and the names in *)
(* generic arguments.  A text is a sequence of tokens; a word is one token.*)
(* What a member really is (its declaring type, its parameters) is known   *)
(* here, so that the scan can be compared with it.                         *)
(***************************************************************************)

CONSTANTS
  Owners, Returns, \* types, as trees [ns, name, args]
  ParameterTypes,  \* the types of parameters, as trees
  MaxParameters,   \* bound: parameters of a member
  SignatureKinds   \* "method", "constructor" and "property"

VARIABLES member, signatureShown

signatureVars == <<member, signatureShown>>

(* The text of a type, with and without its namespaces *)
Joined(texts, sep) == FlattenSeq([i \in DOMAIN texts |-> IF i = 1 THEN texts[i] ELSE sep \o texts[i]])

Leaf(t) == t.ns \o <<t.name>>

Angled(inner) == <<"<">> \o Joined(inner, <<",", " ">>) \o <<">">>

TextOf(t) ==
  IF t.args = <<>> THEN Leaf(t)
  ELSE Leaf(t) \o Angled([i \in DOMAIN t.args |->
         IF t.args[i].args = <<>> THEN Leaf(t.args[i])
         ELSE Leaf(t.args[i]) \o Angled([j \in DOMAIN t.args[i].args |-> Leaf(t.args[i].args[j])])])

Bare(t) == [t EXCEPT !.ns = <<>>, !.args = [i \in DOMAIN t.args |->
              [t.args[i] EXCEPT !.ns = <<>>, !.args = [j \in DOMAIN t.args[i].args |-> [t.args[i].args[j] EXCEPT !.ns = <<>>]]]]]

(* The signature of a member: modifiers, return type, declaring type, name, parameters *)
ParametersOf(m) == [i \in DOMAIN m.parameters |-> TextOf(m.parameters[i]) \o <<" ", "x">>]

Head2(m) == <<"public", " ">> \o (IF m.kind = "constructor" THEN <<>> ELSE TextOf(m.returns) \o <<" ">>)

SignatureList(m) == IF m.kind = "property" THEN <<>> ELSE <<"(">> \o Joined(ParametersOf(m), <<",", " ">>) \o <<")">>

Signature(m) == Head2(m) \o TextOf(m.owner) \o <<".", "M">> \o SignatureList(m)

Count(s, x) == Len(SelectSeq(s, LAMBDA y : y = x))

Outside(s, i) == Count(SubSeq(s, 1, i - 1), "<") = Count(SubSeq(s, 1, i - 1), ">")

Least(S) == CHOOSE i \in S : \A j \in S : i <= j

Greatest(S) == CHOOSE i \in S : \A j \in S : i >= j

FirstOr0(S) == IF S = {} THEN 0 ELSE Least(S)

LastOr0(S) == IF S = {} THEN 0 ELSE Greatest(S)

FindParamListOpen(s) == FirstOr0({i \in DOMAIN s : s[i] = "(" /\ Outside(s, i)})

(* cleanMemberSignature: the last dot before the parameters, and the word before it *)
LastDot(prefix) == LastOr0({i \in DOMAIN prefix : prefix[i] = "." /\ Outside(prefix, i)})

CleanMemberSignature(s) ==
  LET open == FindParamListOpen(s)
      prefix == IF open = 0 THEN s ELSE SubSeq(s, 1, open - 1)
      dot == LastDot(prefix)
      typeStart == LastOr0({i \in 1..(dot - 1) : prefix[i] = " "}) + 1
  IN IF dot = 0 \/ typeStart >= dot THEN s
     ELSE SubSeq(s, 1, typeStart - 1) \o SubSeq(s, dot + 1, Len(s))

SplitParams(s) ==
  LET Take(acc, ch) ==
        LET depth == IF ch \in {"<", "("} THEN acc.depth + 1 ELSE IF ch \in {">", ")"} THEN acc.depth - 1 ELSE acc.depth
        IN IF ch = "," /\ depth = 0 THEN [parts |-> Append(acc.parts, acc.text), text |-> <<>>, depth |-> 0]
           ELSE [acc EXCEPT !.text = Append(@, ch), !.depth = depth]
      end == FoldLeft(Take, [parts |-> <<>>, text |-> <<>>, depth |-> 0], s)
  IN IF SelectSeq(end.text, LAMBDA ch : ch # " ") = <<>> THEN end.parts ELSE Append(end.parts, end.text)

Trim(s) ==
  LET black == {i \in DOMAIN s : s[i] # " "}
  IN IF black = {} THEN <<>> ELSE SubSeq(s, Least(black), Greatest(black))

FormatSignature(s) ==
  LET open == FindParamListOpen(s)
      close == LastOr0({i \in DOMAIN s : s[i] = ")"})
      params == SplitParams(SubSeq(s, open + 1, close - 1))
  IN IF open = 0 \/ close <= open \/ params = <<>> THEN <<s>>
     ELSE <<SubSeq(s, 1, open)>>
          \o [i \in DOMAIN params |-> Trim(params[i]) \o
                IF i < Len(params) THEN <<",">> ELSE SubSeq(s, close, Len(s))]

(* buildClassBodySignature: the same inside the declaration of the type; nothing but methods
   and constructors is wrapped, everything else is shown flat *)
BuildClassBodySignature(m) ==
  IF m.kind \notin {"method", "constructor"} THEN <<>>
  ELSE <<<<"class", " ", m.owner.name>> \o
         (IF m.owner.args = <<>> THEN <<>> ELSE Angled([i \in DOMAIN m.owner.args |-> Leaf(m.owner.args[i])])), <<"{">>>>
       \o FormatSignature(CleanMemberSignature(Signature(m))) \o <<<<"{">>, <<"}">>, <<"}">>>>

Shown(m) ==
  IF BuildClassBodySignature(m) # <<>> THEN BuildClassBodySignature(m)
  ELSE FormatSignature(CleanMemberSignature(Signature(m)))

(* shortTypeName: the namespaces go, also those of the arguments *)
AfterDot(s) == SubSeq(s, LastOr0({i \in DOMAIN s : s[i] = "."}) + 1, Len(s))

Arguments(s) ==
  LET Take(acc, ch) ==
        LET depth == IF ch = "<" THEN acc.depth + 1 ELSE IF ch = ">" THEN acc.depth - 1 ELSE acc.depth
        IN IF ch = "," /\ depth = 0 THEN [parts |-> Append(acc.parts, Trim(acc.text)), text |-> <<>>, depth |-> 0]
           ELSE [acc EXCEPT !.text = Append(@, ch), !.depth = depth]
      end == FoldLeft(Take, [parts |-> <<>>, text |-> <<>>, depth |-> 0], s)
  IN IF Trim(end.text) = <<>> THEN end.parts ELSE Append(end.parts, Trim(end.text))

ShortTypeName(s) ==
  LET short[k \in 0..3, t \in {SubSeq(s, i, j) : i \in 1..(Len(s) + 1), j \in 0..Len(s)}] ==
        LET angle == FirstOr0({i \in DOMAIN t : t[i] = "<"})
            last == LastOr0({i \in DOMAIN t : t[i] = ">"})
            args == Arguments(SubSeq(t, angle + 1, last - 1))
        IN IF angle = 0 \/ k = 0 THEN AfterDot(t)
           ELSE AfterDot(SubSeq(t, 1, angle - 1)) \o Angled([i \in DOMAIN args |-> short[k - 1, args[i]]])
  IN short[3, s]

(* memberDisplayName *)
MemberDisplayName(m) ==
  IF m.kind = "property" THEN <<"M">>
  ELSE <<"M", "(">> \o Joined([i \in DOMAIN m.parameters |-> ShortTypeName(TextOf(m.parameters[i]))], <<",", " ">>) \o <<")">>

SignatureInit ==
  /\ member \in [kind : SignatureKinds, owner : Owners, returns : Returns, parameters : {<<>>}]
  /\ signatureShown = [signature |-> <<>>, name |-> <<>>, done |-> FALSE]

AddParameter ==
  /\ ~signatureShown.done /\ member.kind # "property" /\ Len(member.parameters) < MaxParameters
  /\ \E t \in ParameterTypes : member' = [member EXCEPT !.parameters = Append(@, t)]
  /\ UNCHANGED signatureShown

SignatureRender ==
  /\ ~signatureShown.done
  /\ signatureShown' = [signature |-> Shown(member), name |-> MemberDisplayName(member), done |-> TRUE]
  /\ UNCHANGED member

SignatureNext == AddParameter \/ SignatureRender

SignatureSpec == SignatureInit /\ [][SignatureNext]_signatureVars

SignatureTypeOK ==
  /\ member.kind \in SignatureKinds /\ Len(member.parameters) <= MaxParameters
  /\ signatureShown.done => Len(signatureShown.signature) > 0 /\ Len(signatureShown.name) > 0
  /\ signatureShown.signature # <<>> => signatureShown.done

(* "Strip the declaring-type prefix from a member signature so it reads like source code inside
   the class body": the line of the member shows its modifiers, its return type and its name, and
   nothing of the declaring type, however the types around it are nested. *)
MemberLine == signatureShown.signature[IF member.kind = "property" THEN 1 ELSE 3]

ReadsLikeSource ==
  signatureShown.done =>
    MemberLine = Head2(member) \o <<"M">> \o
      (IF member.kind = "property" THEN <<>> ELSE IF member.parameters = <<>> THEN <<"(", ")">> ELSE <<"(">>)

(* Every parameter has a line of its own, whole: commas inside generic arguments do not
   end one, and none is lost. *)
LinePerParameter ==
  signatureShown.done /\ member.kind # "property" /\ member.parameters # <<>> =>
    LET n == Len(member.parameters)
    IN /\ Len(signatureShown.signature) = n + 6
       /\ \A i \in 1..n : signatureShown.signature[3 + i] =
            ParametersOf(member)[i] \o <<IF i < n THEN "," ELSE ")">>

(* The heading of a member names its parameters' types without any namespace, at every level of
   their arguments. *)
HeadingIsShort ==
  signatureShown.done /\ member.kind # "property" =>
    signatureShown.name = <<"M", "(">> \o Joined([i \in DOMAIN member.parameters |-> TextOf(Bare(member.parameters[i]))], <<",", " ">>) \o <<")">>

-----------------------------------------------------------------------------

(***************************************************************************)
(* The anchors of the members of a C# type.  Every member has one anchor of*)
(* its own (with its parameters, and a hash of its signature where members *)
(* collide), and the name alone stays a link for as long as it is free.    *)
(* The pages of a type show the members of one kind each, with the anchors *)
(* of the whole type.                                                      *)
(*                                                                         *)
(* A slug is a sequence of words; members are put together one by one.     *)
(***************************************************************************)

CONSTANTS
  Members,         \* members [name, kind, parameters, hash], names and parameters as words
  AnchorMaxMembers \* bound: members of a type

VARIABLES members, resolvedAnchors

anchorVars == <<members, resolvedAnchors>>

MemberNameSlug(m) == m.name

MemberSlug(m) == IF m.kind \in {"method", "constructor"} THEN m.name \o m.parameters ELSE m.name

Number(n) == <<"-", n>>

BaseCount(ms, slug) == Len(SelectSeq(ms, LAMBDA m : MemberSlug(m) = slug))

Initial(ms, i) ==
  IF BaseCount(ms, MemberSlug(ms[i])) > 1 THEN MemberSlug(ms[i]) \o <<ms[i].hash>> ELSE MemberSlug(ms[i])

Free(initial, used) ==
  IF initial \notin used THEN initial
  ELSE LET free == {n \in 2..(AnchorMaxMembers + 1) : initial \o Number(n) \notin used}
       IN initial \o Number(CHOOSE n \in free : \A k \in free : n <= k)

ExactAnchors(ms) ==
  LET Add(acc, i) == Append(acc, Free(Initial(ms, i), Range(acc)))
  IN FoldLeft(Add, <<>>, [i \in DOMAIN ms |-> i])

Aliases(ms, exact) ==
  LET Claim(acc, i) ==
        LET wanted == <<MemberNameSlug(ms[i])>> \o
                      (IF BaseCount(ms, MemberSlug(ms[i])) > 1 THEN <<MemberSlug(ms[i])>> ELSE <<>>)
            Try(a, c) == IF c \in Range(exact) \union a.claimed THEN a
                         ELSE [claimed |-> a.claimed \union {c}, own |-> Append(a.own, c)]
            r == FoldLeft(Try, [claimed |-> acc.claimed, own |-> <<>>], wanted)
        IN [claimed |-> r.claimed, all |-> Append(acc.all, r.own)]
  IN FoldLeft(Claim, [claimed |-> {}, all |-> <<>>], [i \in DOMAIN ms |-> i]).all

ResolveMemberAnchors(ms) ==
  LET exact == ExactAnchors(ms)
      aliases == Aliases(ms, exact)
  IN [i \in DOMAIN ms |-> [exact |-> exact[i], aliases |-> aliases[i]]]

AnchorInit == members = <<>> /\ resolvedAnchors = <<>>

Declare ==
  /\ Len(members) < AnchorMaxMembers
  /\ \E m \in Members : members' = Append(members, m)
  /\ resolvedAnchors' = ResolveMemberAnchors(members')

AnchorSpec == AnchorInit /\ [][Declare]_anchorVars

AnchorTypeOK ==
  /\ members \in Seq(Members) /\ Len(members) <= AnchorMaxMembers
  /\ DOMAIN resolvedAnchors = DOMAIN members
  /\ \A i \in DOMAIN resolvedAnchors : resolvedAnchors[i].exact # <<>> /\ Len(resolvedAnchors[i].aliases) <= 2

IdsOf(i) == {resolvedAnchors[i].exact} \union Range(resolvedAnchors[i].aliases)

(* An id stands once on a page, also where a type shows all its members: no anchor and no alias
   of a member is one of another member, whatever names, parameters and hashes look alike, with
   numbers that look like part of a name. *)
IdsAreUnique ==
  /\ \A i, j \in DOMAIN resolvedAnchors : i # j => IdsOf(i) \intersect IdsOf(j) = {}
  /\ \A i \in DOMAIN resolvedAnchors : resolvedAnchors[i].exact \notin Range(resolvedAnchors[i].aliases)

(* A link with the name alone, which is what a reference to a method group uses, always lands on
   a member: on one of that name, unless the name is that of another overload's own anchor. *)
NamesResolve ==
  \A i \in DOMAIN members : \E j \in DOMAIN members :
    /\ MemberNameSlug(members[i]) \in IdsOf(j)
    /\ \/ MemberNameSlug(members[j]) = MemberNameSlug(members[i])
       \/ resolvedAnchors[j].exact = MemberNameSlug(members[i])
       \/ MemberSlug(members[j]) = MemberNameSlug(members[i])

(* A link to the name lands on the page of its kind, when every member whose name or slug is
   spelled like it is of that kind: no other kind takes it away. *)
KindKeepsItsName ==
  \A i \in DOMAIN members :
    LET name == MemberNameSlug(members[i])
        like == {j \in DOMAIN members : name \in {MemberNameSlug(members[j]), MemberSlug(members[j]), resolvedAnchors[j].exact}}
    IN (\A j \in like : members[j].kind = members[i].kind) =>
         \E j \in DOMAIN members : members[j].kind = members[i].kind /\ name \in IdsOf(j)
=============================================================================
