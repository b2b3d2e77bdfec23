----------------------------- MODULE ViewerPages ----------------------------
(* What the OG Viewer does with the pages and the code it is pointed at.   *)
EXTENDS ViewerPanel

-----------------------------------------------------------------------------

(***************************************************************************)
(* The tokenizers of the code hovercard (og-preview, app.js): the file is   *)
(* cut into tokens, and these are shown line by line with numbers.          *)
(* A character is one of the kinds that the tokenizer for C-like languages  *)
(* tells apart: "n" ends a line, "q" quotes, "t" quotes a template, "e"     *)
(* escapes, "/" and "*" make comments, "w" is of a word, "o" is another.    *)
(* A line of Markdown is a fence, a fence with the name of a language, or   *)
(* text.                                                                    *)
(***************************************************************************)

CONSTANTS MaxChars, MaxLines   \* bounds: the inputs

ASSUME HighlightBoundsAssumption == MaxChars \in Nat /\ MaxLines \in Nat

Chars == {"n", "q", "t", "e", "/", "*", "w", "o"}

Lines == {"fence", "named", "text"}

VARIABLES text, tokens, lines, shown

highlightVars == <<text, tokens, lines, shown>>

At(t, i) == IF i \in DOMAIN t THEN t[i] ELSE "end"

Pair(t, i, a, b) == At(t, i) = a /\ At(t, i + 1) = b

\* The first position from i on where P holds, or one past the end.
First(t, i, P(_)) == Min({k \in i .. Len(t) : P(k)} \cup {Len(t) + 1})

StringEnd(t, i, quote) ==
    LET end[j \in 1 .. Len(t) + 2] ==
            IF j > Len(t) THEN Len(t) + 1
            ELSE IF t[j] = "e" THEN end[j + 2]
            ELSE IF t[j] = "n" /\ quote = "q" THEN j
            ELSE IF t[j] = quote THEN j + 1 ELSE end[j + 1]
    IN  end[i + 1]

\* Broken: the star that opens a comment may close it.
CommentEndEarly(t, i) ==
    LET k == First(t, i + 1, LAMBDA j : Pair(t, j, "*", "/"))
    IN  IF k > Len(t) THEN k ELSE k + 2

CommentEnd(t, i) ==
    LET k == First(t, i + 2, LAMBDA j : Pair(t, j, "*", "/"))
    IN  IF k > Len(t) THEN k ELSE k + 2

\* A run of characters with no class of their own.
RunEnd(t, i) == First(t, i + 1, LAMBDA j : t[j] \in {"n", "w", "/", "*", "q", "t"})

\* The token at i, and where the next one begins.
NextToken(t, i) ==
    CASE Pair(t, i, "/", "*") -> [c |-> "com", next |-> CommentEnd(t, i)]
      [] Pair(t, i, "/", "/") -> [c |-> "com", next |-> First(t, i, LAMBDA j : t[j] = "n")]
      [] t[i] \in {"q", "t"}  -> [c |-> "str", next |-> StringEnd(t, i, t[i])]
      [] t[i] = "w"           -> [c |-> "word", next |-> First(t, i, LAMBDA j : t[j] # "w")]
      [] t[i] = "o" \/ t[i] = "e" -> [c |-> "none", next |-> RunEnd(t, i)]
      [] OTHER                -> [c |-> "none", next |-> i + 1]

\* The class of every character.
hlGeneric(t) ==
    LET from[i \in 1 .. Len(t) + 1] ==
            IF i > Len(t) THEN << >>
            ELSE LET k == NextToken(t, i)
                 IN  [j \in 1 .. k.next - i |-> k.c] \o from[k.next]
    IN  from[1]

hlMarkdown(ls) ==
    LET upTo[i \in 0 .. Len(ls)] ==
            IF i = 0 THEN [out |-> << >>, inFence |-> FALSE, buf |-> << >>]
            ELSE LET p == upTo[i - 1]
                     held == IF p.buf = << >> THEN <<0>> ELSE p.buf
                 IN  IF ls[i] = "text"
                     THEN IF p.inFence THEN [p EXCEPT !.buf = Append(@, i)]
                          ELSE [p EXCEPT !.out = Append(@, i)]
                     ELSE IF p.inFence
                     THEN [out |-> Append(p.out \o held, i), inFence |-> FALSE, buf |-> << >>]
                     ELSE [out |-> Append(p.out, i), inFence |-> TRUE, buf |-> << >>]
        last == upTo[Len(ls)]
    IN  IF last.inFence THEN last.out \o last.buf ELSE last.out

HighlightInit ==
    /\ \/ text \in BoundedSeq(Chars, MaxChars) /\ lines = << >>
       \/ lines \in BoundedSeq(Lines, MaxLines) /\ text = << >>
    /\ tokens = << >> /\ shown = << >>

HighlightRender ==
    /\ tokens = << >> /\ shown = << >>
    /\ tokens' = hlGeneric(text) /\ shown' = hlMarkdown(lines)
    /\ UNCHANGED <<text, lines>>

HighlightSpec == HighlightInit /\ [][HighlightRender]_highlightVars

\* A reader of the language: what he is in the middle of after character i.
Reading(t) ==
    LET in[i \in 0 .. Len(t)] ==
            IF i = 0 THEN "code"
            ELSE LET was == in[i - 1]
                     after == At(t, i + 1)
                 IN  CASE was = "line"     -> IF t[i] = "n" THEN "code" ELSE "line"
                       [] was = "open"     -> "block"
                       [] was = "block"    -> IF Pair(t, i, "*", "/") THEN "ending" ELSE "block"
                       [] was = "ending"   -> "close"
                       [] was = "qEscaped" -> "q"
                       [] was = "tEscaped" -> "t"
                       [] was \in {"q", "t"} /\ t[i] = "e"   -> was \o "Escaped"
                       [] was = "q" /\ t[i] = "n"           -> "code"
                       [] was \in {"q", "t"} /\ t[i] = was   -> "closed"
                       [] was \in {"q", "t"} /\ t[i] # "e"   -> was
                       [] t[i] \in {"q", "t"} -> t[i]
                       [] t[i] = "/" /\ after = "*" -> "open"
                       [] t[i] = "/" /\ after = "/" -> "line"
                       [] OTHER -> "code"
    IN  [i \in 1 .. Len(t) |->
            IF in[i] \in {"line", "open", "block", "ending", "close"} THEN "com"
            ELSE IF in[i] = "code" THEN "none" ELSE "str"]

Shown == tokens # << >> \/ shown # << >>

(* Comments and strings are coloured from where they begin to where they    *)
(* end, over lines and in spite of escapes and of the marks of one inside   *)
(* the other.                                                               *)
ClassesAgree ==
    Shown => [i \in 1 .. Len(text) |-> IF tokens[i] = "word" THEN "none" ELSE tokens[i]] = Reading(text)

(* Every line of a Markdown file is shown once, in its place.               *)
LinesInOrder ==
    Shown => SelectSeq(shown, LAMBDA k : k > 0) = [k \in 1 .. Len(lines) |-> k]

-----------------------------------------------------------------------------

(***************************************************************************)
(* The tokenizer for markup of the code hovercard (og-preview, app.js): tags*)
(* with attributes, strings and expressions in braces.  A character is of   *)
(* one of the kinds it tells apart: "lt" and "gt" begin and end a tag,      *)
(* "open" and "close" are braces, "q" quotes, "w" is of a name, "n" ends a  *)
(* line, and "begin" and "finish" are the two marks around a comment.       *)
(***************************************************************************)

CONSTANT MarkupMaxChars   \* bound: the inputs

ASSUME BoundAssumption == MarkupMaxChars \in Nat

MarkupChars == {"lt", "gt", "open", "close", "q", "w", "n", "begin", "finish"}

VARIABLES
    markupText,
    markupI, \* the position the loop is at
    inTag,   \* it is the loop over what a tag holds
    out      \* the characters of the tokens so far

markupVars == <<markupText, markupI, inTag, out>>

Done == markupI > Len(markupText)

MarkupAt(k) == IF k \in DOMAIN markupText THEN markupText[k] ELSE "end"

MarkupFirst(k, P(_)) == Min({j \in k .. Len(markupText) : P(j)} \cup {Len(markupText) + 1})

MarkupCount(c, from, to) == Cardinality({j \in from .. to : markupText[j] = c})

\* Where the brace at k is closed.
ClosedAt(k) == MarkupFirst(k, LAMBDA j : MarkupCount("open", k, j) = MarkupCount("close", k, j))

MarkupInit ==
    /\ markupText \in BoundedSeq(MarkupChars, MarkupMaxChars)
    /\ markupI = 1 /\ inTag = FALSE /\ out = << >>

\* A token up to, not including, position e.
MarkupPush(e, tag) == out' = out \o SubSeq(markupText, markupI, e - 1) /\ markupI' = e /\ inTag' = tag

Comment ==
    /\ ~inTag /\ MarkupAt(markupI) = "begin"
    /\ LET k == MarkupFirst(markupI, LAMBDA j : markupText[j] = "finish")
       IN  MarkupPush(IF k > Len(markupText) THEN k ELSE k + 1, FALSE)

TagStart ==
    /\ ~inTag /\ MarkupAt(markupI) = "lt" /\ MarkupAt(markupI + 1) = "w"
    /\ MarkupPush(MarkupFirst(markupI + 1, LAMBDA j : markupText[j] # "w"), TRUE)

Text ==
    /\ ~inTag /\ MarkupAt(markupI) # "begin" /\ ~(MarkupAt(markupI) = "lt" /\ MarkupAt(markupI + 1) = "w")
    /\ IF MarkupAt(markupI) = "n" THEN MarkupPush(markupI + 1, FALSE)
       ELSE MarkupPush(MarkupFirst(markupI, LAMBDA j : markupText[j] \in {"lt", "n", "begin"}), FALSE)

Expression ==
    LET k == ClosedAt(markupI)
        e == IF k > Len(markupText) THEN k ELSE k + 1
    IN  /\ out' = out \o <<"open">> \o SubSeq(markupText, markupI + 1, e - 2) \o <<"close">>
        /\ markupI' = e /\ inTag' = TRUE

AttributeString ==
    LET k == MarkupFirst(markupI + 1, LAMBDA j : markupText[j] \in {"q", "n"})
    IN  MarkupPush(IF MarkupAt(k) = "q" THEN k + 1 ELSE k, TRUE)

\* Broken: what is neither a name nor a string is left where it is.
AttributeName == MarkupPush(MarkupFirst(markupI, LAMBDA j : markupText[j] # "w"), TRUE)

Attribute == MarkupPush(IF MarkupAt(markupI) = "w" THEN MarkupFirst(markupI, LAMBDA j : markupText[j] # "w") ELSE markupI + 1, TRUE)

InTag ==
    /\ inTag
    /\ \/ MarkupAt(markupI) = "gt" /\ MarkupPush(markupI + 1, FALSE)
       \/ MarkupAt(markupI) = "open" /\ Expression
       \/ MarkupAt(markupI) = "q" /\ AttributeString
       \/ MarkupAt(markupI) \notin {"gt", "open", "q"} /\ Attribute

Step == ~Done /\ (Comment \/ TagStart \/ Text \/ InTag) /\ UNCHANGED markupText

MarkupSpec == MarkupInit /\ [][Step]_markupVars /\ WF_markupVars(Step)

Matched == \A k \in DOMAIN markupText : markupText[k] = "open" => ClosedAt(k) <= Len(markupText)

(* What is shown is the text so far, character by character, when every     *)
(* brace is closed.                                                         *)
KeptIfMatched == Matched => out = SubSeq(markupText, 1, markupI - 1)

(* The loop is at a "<" that opens no tag: the text before it is empty, and *)
(* putting that out is no progress.                                         *)
AtStray == ~inTag /\ MarkupAt(markupI) = "lt" /\ MarkupAt(markupI + 1) # "w"

(* The tokenizer comes to the end of a text unless it meets such a "<".     *)
EndsUnlessStray == <>(Done \/ AtStray)

-----------------------------------------------------------------------------

(***************************************************************************)
(* The fetch of a page by the OG Viewer (og-preview, lib/http-fetch.mjs):   *)
(* redirects are followed by hand, every hop is resolved and judged before  *)
(* it is contacted, the body is capped and a silent connection timed out.   *)
(***************************************************************************)

CONSTANTS
    Origins,
    Scope,      \* of the addresses of an origin: public, loopback or private
    FetchNone,
    Authorized, \* the origin the visitor selected, if it is not public
    allowPrivateNetwork,
    maxRedirects,
    MaxChunks   \* maxBytes, in chunks

ASSUME OptionsAssumption ==
    /\ Scope \in [Origins -> {"public", "loopback", "private"}]
    /\ FetchNone \notin Origins /\ Authorized \in Origins \cup {FetchNone}
    /\ allowPrivateNetwork \in BOOLEAN /\ maxRedirects \in Nat /\ MaxChunks \in Nat

VARIABLES
    localOrigin, redirects,
    at,           \* the origin of the hop, resolved or not
    resolved,
    fetchOpen,    \* hops whose connection is open: the answer of a redirect may go on
    total,        \* chunks of the answer
    fetchOutcome, \* how the promise is settled, and by which hop
    contacted     \* history: origins contacted, and whether another one was before

fetchVars == <<localOrigin, redirects, at, resolved, fetchOpen, total, fetchOutcome, contacted>>

FetchTypeOK ==
    /\ localOrigin \in Origins \cup {FetchNone} /\ redirects \in 0 .. maxRedirects
    /\ at \in Origins /\ resolved \in BOOLEAN /\ fetchOpen \subseteq 0 .. maxRedirects
    /\ total \in 0 .. MaxChunks + 1
    /\ fetchOutcome \in [state : {"pending", "fulfilled", "rejected"}, hop : 0 .. maxRedirects]
    /\ contacted \subseteq Origins \X BOOLEAN

FetchPending == fetchOutcome.state = "pending"

FetchInit ==
    /\ at \in Origins
    /\ localOrigin = Authorized /\ redirects = 0 /\ resolved = FALSE
    /\ fetchOpen = {} /\ total = 0 /\ contacted = {}
    /\ fetchOutcome = [state |-> "pending", hop |-> 0]

\* Only the first call settles a promise.
SettleFetch(state, hop) == fetchOutcome' = IF FetchPending THEN [state |-> state, hop |-> hop] ELSE fetchOutcome

Reject(hop) == SettleFetch("rejected", hop)

LocalOriginAt(o) == IF o = localOrigin THEN localOrigin ELSE FetchNone

Allowed(o, local) ==
    Scope[o] = "public" \/ (o = local /\ (Scope[o] = "private" => allowPrivateNetwork))

\* visit(), up to the request.
Resolve ==
    /\ ~resolved
    /\ localOrigin' = LocalOriginAt(at)
    /\ \/ /\ Allowed(at, localOrigin')
          /\ resolved' = TRUE /\ fetchOpen' = fetchOpen \cup {redirects}
          /\ contacted' = contacted \cup {<<at, \E c \in contacted : c[1] # at>>}
          /\ UNCHANGED fetchOutcome
       \/ /\ Reject(redirects)     \* not allowed, or not found
          /\ UNCHANGED <<resolved, fetchOpen, contacted>>
    /\ UNCHANGED <<redirects, at, total>>

\* The connection of the last hop, before its answer has ended.
Answering == resolved /\ redirects \in fetchOpen

Spent == redirects >= maxRedirects

Redirect(o) ==
    /\ Answering /\ total = 0
    /\ IF Spent THEN Reject(redirects) /\ UNCHANGED <<redirects, at, resolved>>
       ELSE redirects' = redirects + 1 /\ at' = o /\ resolved' = FALSE /\ UNCHANGED fetchOutcome
    /\ UNCHANGED <<localOrigin, fetchOpen, total, contacted>>

Chunk ==
    /\ Answering /\ total <= MaxChunks /\ total' = total + 1
    /\ IF total' > MaxChunks THEN fetchOpen' = fetchOpen \ {redirects} /\ Reject(redirects)
       ELSE UNCHANGED <<fetchOpen, fetchOutcome>>

Data == Chunk /\ UNCHANGED <<localOrigin, redirects, at, resolved, contacted>>

End ==
    /\ Answering
    /\ fetchOpen' = fetchOpen \ {redirects}
    /\ SettleFetch("fulfilled", redirects)
    /\ UNCHANGED <<localOrigin, redirects, at, resolved, total, contacted>>

\* The redirect's own connection comes to its end.
Drained(h) ==
    /\ h \in fetchOpen /\ (h < redirects \/ ~FetchPending)
    /\ fetchOpen' = fetchOpen \ {h}
    /\ UNCHANGED <<localOrigin, redirects, at, resolved, total, fetchOutcome, contacted>>

FetchError(h) == fetchOpen' = fetchOpen \ {h} /\ Reject(h)

Fails(h) ==
    /\ h \in fetchOpen /\ FetchError(h)
    /\ UNCHANGED <<localOrigin, redirects, at, resolved, total, contacted>>

FetchNext ==
    \/ Resolve \/ Data \/ End
    \/ \E o \in Origins : Redirect(o)
    \/ \E h \in fetchOpen : Drained(h) \/ Fails(h)

FetchFairness ==
    /\ WF_fetchVars(Resolve)
    /\ \A h \in 0 .. maxRedirects : WF_fetchVars(Drained(h) \/ Fails(h))

FetchSafeSpec == FetchInit /\ [][FetchNext]_fetchVars

FetchSpec == FetchSafeSpec /\ FetchFairness

(* A destination that is not public is contacted only if it was selected,   *)
(* and never after another one: redirects cannot come back to it.           *)
LocalUnlessLeft == \A c \in contacted : Scope[c[1]] = "public" \/ c = <<Authorized, FALSE>>

(* What is fulfilled is an answer within the cap, of the last hop.          *)
FetchAnswered == fetchOutcome.state = "fulfilled" => total <= MaxChunks /\ fetchOutcome.hop = redirects

(* Every fetch is settled.                                                  *)
Settles == <>~FetchPending

-----------------------------------------------------------------------------

(***************************************************************************)
(* How the modules of a page in the Browse frame find what they import      *)
(* (og-preview, extension.mjs): URLs that begin at the root or with a host  *)
(* are rewritten to the proxy's, relative ones are left to the browser,     *)
(* which resolves them against the proxied URL of the module.               *)
(***************************************************************************)

CONSTANTS Hosts, Names, MaxDepth, MaxUp   \* bounds: paths and steps up

ASSUME ProxyBoundsAssumption == MaxDepth \in Nat \ {0} /\ MaxUp \in Nat

Paths == BoundedSeq(Names, MaxDepth) \ {<< >>}

Url == [host : Hosts, path : Paths]

\* up steps up from the module, from the root of its host, or absolute.
Specifier ==
    [kind : {"relative"}, up : 0 .. MaxUp, path : Paths]
        \cup [kind : {"root"}, path : Paths] \cup [kind : {"absolute"}, host : Hosts, path : Paths]

VARIABLES
    asked,      \* the URL a page or a module asked for
    proxyFound, \* where its redirects end
    spec,       \* what the module imports
    target      \* what the server is asked to fetch for it

proxyVars == <<asked, proxyFound, spec, target>>

\* The directory of a path, n steps up, as far as there are any.
Above(path, n) == SubSeq(path, 1, IF n < Len(path) THEN Len(path) - 1 - n ELSE 0)

\* new URL(specifier, base)
ProxyResolve(s, base) ==
    CASE s.kind = "absolute" -> [host |-> s.host, path |-> s.path]
      [] s.kind = "root"     -> [base EXCEPT !.path = s.path]
      [] s.kind = "relative" -> [base EXCEPT !.path = Above(@, s.up) \o s.path]

Prefix == <<"api", "proxy">>

proxyEncode(u) == [host |-> "proxy", path |-> Prefix \o <<"https", u.host>> \o u.path]

\* The URL that a path of the proxy stands for, or nothing.
proxyDecodePath(path) ==
    LET rest == SubSeq(path, Len(Prefix) + 1, Len(path))
    IN  IF Len(rest) < 2 \/ SubSeq(path, 1, Len(Prefix)) # Prefix \/ Head(rest) # "https" THEN << >>
        ELSE <<[host |-> rest[2], path |-> SubSeq(rest, 3, Len(rest))]>>

Asks(s) ==
    IF s.kind = "relative" THEN ProxyResolve(s, proxyEncode(asked)) ELSE proxyEncode(ProxyResolve(s, proxyFound))

ProxyInit ==
    /\ asked \in Url /\ proxyFound \in Url /\ spec \in Specifier /\ target = << >>
    /\ proxyFound.path = asked.path \/ proxyFound.host = asked.host

Import ==
    /\ target = << >>
    /\ target' = <<proxyDecodePath(Asks(spec).path)>>
    /\ UNCHANGED <<asked, proxyFound, spec>>

ProxySpec == ProxyInit /\ [][Import]_proxyVars

(* A module gets what it would get without the proxy, unless it was         *)
(* redirected or steps up past the root of its host.                        *)
ImportsInPlace ==
    target # << >> /\ (spec.kind = "relative" => asked = proxyFound /\ spec.up < Len(proxyFound.path))
        => target[1] = <<ProxyResolve(spec, proxyFound)>>

-----------------------------------------------------------------------------

(***************************************************************************)
(* What the OG Viewer makes of the <meta> tags of a page (og-preview,       *)
(* lib/parse-og.mjs): the fields of the previews and the checks about them. *)
(* A tag is [key, value]; the values that matter are none, a text, and for  *)
(* images an absolute https, an absolute http or a relative URL.            *)
(***************************************************************************)

CONSTANT MaxTags   \* bound: the tags of a page

ASSUME MetadataBoundAssumption == MaxTags \in Nat

ImageKeys == {"og:image:secure_url", "og:image:url", "og:image", "twitter:image"}

Tags ==
    [key : ImageKeys, value : {"", "https", "http", "relative"}]
        \cup [key : {"og:title", "twitter:title", "og:image:alt"}, value : {"", "og", "twitter"}]

VARIABLES all, htmlTitle, metadataBase, report

metadataVars == <<all, htmlTitle, metadataBase, report>>

first(k) ==
    LET of == {i \in DOMAIN all : all[i].key = k}
    IN  IF of = {} THEN "" ELSE all[Min(of)].value

\* a || b
Or(v, w) == IF v # "" THEN v ELSE w

ogImageRaw == Or(first("og:image:secure_url"), Or(first("og:image:url"), first("og:image")))

\* A relative URL becomes absolute, with the scheme of the page.
resolveUrl(v) == IF v = "relative" THEN metadataBase ELSE v

Resolved ==
    [title |-> Or(first("og:title"), Or(first("twitter:title"), htmlTitle)),
     image |-> resolveUrl(Or(ogImageRaw, first("twitter:image"))),
     imageAlt |-> first("og:image:alt")]

Structured(r) ==
    IF ogImageRaw = "" THEN {}
    ELSE {[id |-> "og:image:alt", ok |-> first("og:image:alt") # ""],
          [id |-> "og:image:secure_url", ok |-> r.image = "https" \/ first("og:image:secure_url") # ""]}

Diagnostics(r) ==
    {[id |-> "og:title", ok |-> first("og:title") # ""],
     [id |-> "og:image", ok |-> ogImageRaw # ""],
     [id |-> "Absolute og:image URL", ok |-> r.image # ""]}
        \cup Structured(r)

MetadataInit ==
    /\ all \in BoundedSeq(Tags, MaxTags)
    /\ htmlTitle \in {"", "html"} /\ metadataBase \in {"https", "http"}
    /\ report = << >>

parseMetadata ==
    /\ report = << >>
    /\ report' = <<Resolved, Diagnostics(Resolved)>>
    /\ UNCHANGED <<all, htmlTitle, metadataBase>>

MetadataSpec == MetadataInit /\ [][parseMetadata]_metadataVars

Parsed == report # << >>

metadataResolved == report[1]

Passes(id) == [id |-> id, ok |-> TRUE] \in report[2]

MetadataFails(id) == [id |-> id, ok |-> FALSE] \in report[2]

Has(k, v) == [key |-> k, value |-> v] \in Range(all)

(* A page passes the check of a required tag only if that tag is what the   *)
(* previews show: a fallback never hides that it is missing.                *)
RequiredIsShown ==
    Parsed =>
        /\ Passes("og:title") => Has("og:title", metadataResolved.title)
        /\ Passes("og:image") <=> \E k \in ImageKeys \ {"twitter:image"} :
               first(k) # "" /\ resolveUrl(first(k)) = metadataResolved.image

(* The checks of what goes with an og:image are made only when there is     *)
(* one, and its absence is then the only complaint about the image.         *)
NoComplaintTwice ==
    Parsed => ~(MetadataFails("og:image") /\ (MetadataFails("og:image:alt") \/ MetadataFails("og:image:secure_url")))

-----------------------------------------------------------------------------

(***************************************************************************)
(* The probe of a site for what agents look for (og-preview,                *)
(* lib/agent-readiness.mjs): paths are fetched in parallel, what they       *)
(* answer is judged, and the judgements are counted.  An answer is one of   *)
(* "none" (the probe failed), "missing" (an error status), "html", "json",  *)
(* "text", "markdown" and "empty" (status 200, no body).                    *)
(***************************************************************************)

CONSTANTS Odd   \* bound: probes that answer unlike the others

ASSUME OddAssumption == Odd \in Nat

Probes == {"robots", "sitemap", "llms", "mdNeg", "page", "mcp1", "mcp2", "a2a1", "a2a2",
           "aiPlugin", "skills1", "skills2", "oauthPr", "oauthAs", "apiCatalog"}

ReadinessAnswers == {"none", "missing", "html", "json", "text", "markdown", "empty"}

VARIABLES
    answers, \* by probe
    says,    \* what robots.txt holds: a sitemap, an agent, a content signal
    links,   \* relations of the Link header of the page
    aid,     \* a TXT record was found
    readinessReport

readinessVars == <<answers, says, links, aid, readinessReport>>

Ok(p) == answers[p] \notin {"none", "missing"}

LooksLikeHtml(p) == answers[p] = "html"

IsJsonish(p) == answers[p] = "json"

HasBody(p) == Ok(p) /\ answers[p] # "empty"

RobotsSay(w) == HasBody("robots") /\ w \in says

HasMcp == IsJsonish("mcp1") \/ IsJsonish("mcp2") \/ (Ok("mcp1") /\ ~LooksLikeHtml("mcp1"))

HasLlms == HasBody("llms") /\ ~LooksLikeHtml("llms")

Checks ==
    {"robots", "sitemap", "link-headers", "llms", "markdown", "ai-bots", "content-signals", "mcp", "a2a",
     "agent-skills", "ai-plugin", "dns-aid", "oauth-pr", "oauth-as", "api-catalog"}

\* The checks that find what they look for.
Found ==
    {c \in Checks :
        \/ c = "robots" /\ HasBody("robots")
        \/ c = "sitemap" /\ (RobotsSay("sitemap") \/ answers["sitemap"] = "text")
        \/ c = "link-headers" /\ Ok("page") /\ links # {}
        \/ c = "llms" /\ HasLlms
        \/ c = "markdown" /\ answers["mdNeg"] = "markdown"
        \/ c = "ai-bots" /\ RobotsSay("bot")
        \/ c = "content-signals" /\ RobotsSay("signal")
        \/ c = "mcp" /\ HasMcp
        \/ c = "a2a" /\ (IsJsonish("a2a1") \/ IsJsonish("a2a2"))
        \/ c = "agent-skills" /\ (IsJsonish("skills1") \/ IsJsonish("skills2"))
        \/ c = "ai-plugin" /\ IsJsonish("aiPlugin")
        \/ c = "dns-aid" /\ aid
        \/ c = "oauth-pr" /\ IsJsonish("oauthPr")
        \/ c = "oauth-as" /\ IsJsonish("oauthAs")
        \/ c = "api-catalog" /\ Ok("apiCatalog")
               /\ (IsJsonish("apiCatalog") \/ (Ok("page") /\ "api-catalog" \in links))}

\* Checks whose absence is a warning; the others are emerging.
Recommended == {"robots", "sitemap", "llms", "markdown", "ai-bots"}

Report == [found |-> Found, warned |-> Recommended \ Found, total |-> Cardinality(Checks)]

ReadinessInit ==
    /\ \E usual \in ReadinessAnswers, odd \in SUBSET Probes :
        /\ Cardinality(odd) <= Odd
        /\ \E o \in ReadinessAnswers : answers = [p \in Probes |-> IF p \in odd THEN o ELSE usual]
    /\ says \in {{}, {"sitemap"}, {"bot", "signal"}}
    /\ links \in {{}, {"api-catalog"}}
    /\ aid \in BOOLEAN
    /\ readinessReport = << >>

\* Promise.all: the report is made when every probe is through, whatever
\* became of it.
checkAgentReadiness ==
    /\ readinessReport = << >>
    /\ readinessReport' = <<Report>>
    /\ UNCHANGED <<answers, says, links, aid>>

ReadinessSpec == ReadinessInit /\ [][checkAgentReadiness]_readinessVars

ReadinessDone == readinessReport # << >>

AllAnswer(a) == \A p \in Probes : answers[p] = a

OfThePage == {"link-headers", "api-catalog", "dns-aid"}

(* On a site that answers every path with the same HTML page, only what does*)
(* not depend on a file is found; robots.txt aside, and with it.            *)
PageIsNoFile == ReadinessDone /\ AllAnswer("html") /\ says = {} => readinessReport[1].found \subseteq OfThePage \cup {"robots"}

(* A site none of whose probes succeeds has all that is recommended to do.  *)
SilentSiteWarned ==
    ReadinessDone /\ (AllAnswer("none") \/ AllAnswer("missing")) =>
        readinessReport[1].found \subseteq {"dns-aid"} /\ readinessReport[1].warned = Recommended

-----------------------------------------------------------------------------

\* The parts of the viewer share no state.
ViewerSpec ==
    PanelSpec /\ MarkupSpec /\ FetchSafeSpec /\ ProxySpec /\ MetadataSpec /\ ReadinessSpec

(* The panel is safe, and what the viewer reads off a page agrees with it:  *)
(* the text of a highlighted file, the origins it contacts and the answer   *)
(* it takes, the modules of a page, its metadata and its readiness.         *)
ViewerSafe ==
    /\ PanelSafe
    /\ KeptIfMatched
    /\ FetchTypeOK /\ LocalUnlessLeft /\ FetchAnswered
    /\ ImportsInPlace
    /\ RequiredIsShown /\ NoComplaintTwice
    /\ PageIsNoFile /\ SilentSiteWarned
=============================================================================
