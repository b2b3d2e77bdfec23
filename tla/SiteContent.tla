----------------------------- MODULE SiteContent ----------------------------
(* What is gathered for the site before it is built: the samples, the blog,  *)
(* the catalog of resources, and the cards that pages are shared with.       *)
EXTENDS Naturals, Sequences, SequencesExt, Integers, FiniteSets, TLC

-----------------------------------------------------------------------------

(***************************************************************************)
(* update-samples.ts: the samples of another repository become samples.json*)
(* and the images beside it.  The samples of a batch are read at the same  *)
(* time; every request may fail, an image may break off while it is        *)
(* written, and one lost connection ends the run, with the other samples   *)
(* of its batch still at work.  Runs follow each other.                    *)
(*                                                                         *)
(* An image is [dir, base, theme]: the place it is read from, the name it  *)
(* is saved under, and the fragment that ties it to a colour theme.        *)
(***************************************************************************)

CONSTANTS
  Samples,      \* a sequence: the names, in order
  Readmes(_),   \* the sequences of images the README of a sample may show
  Trees(_),     \* the listings of a sample, sequences of [dir, file]
  Concurrency,  \* CONCURRENCY
  SampleMaxRuns \* bound: runs

Themes == {"none", "light", "dark"}

ASSUME SampleAssumption ==
  /\ Concurrency \in Nat \ {0} /\ SampleMaxRuns \in Nat
  /\ \A s \in Range(Samples) : Readmes(s) \subseteq Seq([dir : STRING, base : STRING, theme : Themes])
  /\ \A s \in Range(Samples) : Trees(s) \subseteq Seq([dir : STRING, file : STRING])

VARIABLES
  work,         \* the samples of the run
  sampleFailed, \* the run has been given up
  runs,         \* runs so far
  disk,         \* the images, [sample, base, of]
  samplesJson,  \* the file: a function on the samples in it
  spoiled       \* history: images of samples.json that a run which was given up has removed

sampleVars == <<work, sampleFailed, runs, disk, samplesJson, spoiled>>

SampleNames == Range(Samples)

SampleNone == [kind |-> "none", dir |-> "", file |-> ""]

(* detectAppHost: TypeScript, then a project and the code beside it, then a single file *)
IsHost(p) == p.file \in {"apphost.ts", "apphost.mts"}

First(paths, Is(_)) == paths[CHOOSE i \in DOMAIN paths : Is(paths[i]) /\ \A j \in 1..(i - 1) : ~Is(paths[j])]

Found(paths, Is(_)) == \E i \in DOMAIN paths : Is(paths[i])

AppHost(kind, p) == [kind |-> kind, dir |-> p.dir, file |-> p.file]

Csproj(paths) ==
  LET project == First(paths, LAMBDA p : p.file = "AppHost.csproj")
      Beside(name, p) == p.dir = project.dir /\ p.file = name
  IN IF Found(paths, LAMBDA p : Beside("AppHost.cs", p)) THEN First(paths, LAMBDA p : Beside("AppHost.cs", p))
     ELSE IF Found(paths, LAMBDA p : Beside("Program.cs", p)) THEN First(paths, LAMBDA p : Beside("Program.cs", p))
     ELSE project

DetectAppHost(paths) ==
  IF Found(paths, IsHost) THEN AppHost("typescript", First(paths, IsHost))
  ELSE IF Found(paths, LAMBDA p : p.file = "AppHost.csproj") THEN AppHost("csproj", Csproj(paths))
  ELSE IF Found(paths, LAMBDA p : p.file = "AppHost.cs")
  THEN AppHost("file-based", First(paths, LAMBDA p : p.file = "AppHost.cs"))
  ELSE SampleNone

(* extractThumbnail: the first image without a theme, or the first two neighbours of both *)
Paired(refs, i) ==
  /\ i < Len(refs) /\ refs[i].theme # "none" /\ refs[i + 1].theme # "none"
  /\ refs[i].theme # refs[i + 1].theme

Thumbnail(refs) ==
  LET Fits(i) == refs[i].theme = "none" \/ Paired(refs, i)
      good == {i \in DOMAIN refs : Fits(i)}
      i == IF good = {} THEN IF refs = <<>> THEN 0 ELSE 1 ELSE CHOOSE k \in good : \A l \in good : k <= l
  IN IF i = 0 \/ ~Paired(refs, i) THEN [light |-> i, dark |-> i]
     ELSE IF refs[i].theme = "light" THEN [light |-> i, dark |-> i + 1] ELSE [light |-> i + 1, dark |-> i]

Waiting == [stage |-> "waiting", refs |-> <<>>, at |-> 1, saved |-> {}, local |-> {}, tree |-> <<>>, code |-> FALSE]

SampleInit ==
  /\ work = [s \in SampleNames |-> [Waiting EXCEPT !.stage = "out"]] /\ sampleFailed = FALSE /\ runs = 0
  /\ disk = {} /\ samplesJson = <<>> /\ spoiled = {}

Running == \E s \in SampleNames : work[s].stage # "out"

(* listSampleDirs and fetchSamplePaths; the listing may be cut short *)
StartRun ==
  /\ ~Running /\ runs < SampleMaxRuns /\ runs' = runs + 1 /\ sampleFailed' = FALSE
  /\ \E present \in (SUBSET SampleNames) \ {{}}, tree \in [SampleNames -> UNION {Trees(s) : s \in SampleNames}] :
       /\ \A s \in SampleNames : tree[s] \in Trees(s)
       /\ work' = [s \in SampleNames |-> IF s \in present THEN [Waiting EXCEPT !.tree = tree[s]]
                                         ELSE [Waiting EXCEPT !.stage = "out"]]
  /\ UNCHANGED <<disk, samplesJson, spoiled>>

Ended == {"done", "out"}

(* A batch starts when the batch before it is complete *)
InRun == SelectSeq(Samples, LAMBDA s : work[s].stage # "out")

BatchOf(s) == ((CHOOSE i \in DOMAIN InRun : InRun[i] = s) - 1) \div Concurrency

Set(s, w) == work' = [work EXCEPT ![s] = w]

(* fetchReadme: an answer that is no README drops the sample *)
Readme(s) ==
  /\ work[s].stage = "waiting" /\ ~sampleFailed
  /\ \A t \in Range(InRun) : BatchOf(t) < BatchOf(s) => work[t].stage \in {"done", "dropped"}
  /\ \/ \E refs \in Readmes(s) : Set(s, [work[s] EXCEPT !.stage = "images", !.refs = refs])
     \/ Set(s, [work[s] EXCEPT !.stage = "dropped"])
  /\ UNCHANGED <<sampleFailed, runs, disk, samplesJson, spoiled>>

(* downloadAndRewriteImages: an image that was saved under this name is not read again *)
File(s, ref) == [sample |-> s, base |-> ref.base, of |-> <<ref.dir, ref.base>>]

Without(s, base) == {f \in disk : f.sample # s \/ f.base # base}

Saved(w, ref, ok) ==
  [w EXCEPT !.at = @ + 1, !.local = IF ok THEN @ \union {ref} ELSE @, !.saved = IF ok THEN @ \union {ref.base} ELSE @]

Known(s, ref) == ref.base \in work[s].saved

Image(s) ==
  /\ work[s].stage = "images" /\ work[s].at <= Len(work[s].refs)
  /\ LET w == work[s]
         ref == w.refs[w.at]
     IN \/ Known(s, ref) /\ Set(s, Saved(w, ref, TRUE)) /\ UNCHANGED <<disk, spoiled>>
        \/ /\ ~Known(s, ref)
           /\ \/ /\ Set(s, Saved(w, ref, TRUE))
                 /\ disk' = Without(s, ref.base) \union {File(s, ref)} /\ UNCHANGED spoiled
              \/ Set(s, Saved(w, ref, FALSE)) /\ UNCHANGED <<disk, spoiled>>
              \* the partial file is removed, and what was there before with it
              \/ /\ Set(s, Saved(w, ref, FALSE)) /\ disk' = Without(s, ref.base)
                 /\ spoiled' = spoiled \union {<<s, ref.base>>}
  /\ UNCHANGED <<sampleFailed, runs, samplesJson>>

(* fetchAppHostCode *)
Code(s) ==
  /\ work[s].stage = "images" /\ work[s].at > Len(work[s].refs)
  /\ \E code \in IF DetectAppHost(work[s].tree) = SampleNone THEN {FALSE} ELSE BOOLEAN :
       Set(s, [work[s] EXCEPT !.stage = "done", !.code = code])
  /\ UNCHANGED <<sampleFailed, runs, disk, samplesJson, spoiled>>

(* A request that throws: the other samples of the batch go on *)
Broken(s) ==
  /\ work[s].stage \in {"waiting", "images"} /\ ~sampleFailed
  /\ work[s].stage = "waiting" => \A t \in Range(InRun) : BatchOf(t) < BatchOf(s) => work[t].stage \in {"done", "dropped"}
  /\ sampleFailed' = TRUE /\ Set(s, [work[s] EXCEPT !.stage = "dropped"])
  /\ UNCHANGED <<runs, disk, samplesJson, spoiled>>

Result(s) ==
  LET w == work[s]
  IN [refs |-> w.refs, local |-> w.local, appHost |-> DetectAppHost(w.tree), code |-> w.code,
      thumbnail |-> Thumbnail(w.refs)]

SamplePublish ==
  /\ Running /\ ~sampleFailed /\ \A s \in SampleNames : work[s].stage \in {"done", "dropped", "out"}
  /\ LET kept == {s \in SampleNames : work[s].stage = "done"}
     IN samplesJson' = [s \in kept |-> Result(s)]
  /\ work' = [s \in SampleNames |-> [Waiting EXCEPT !.stage = "out"]] /\ spoiled' = {}
  /\ UNCHANGED <<sampleFailed, runs, disk>>

(* A run that was given up ends when nothing is under way any more *)
End ==
  /\ Running /\ sampleFailed /\ \A s \in SampleNames : work[s].stage # "images"
  /\ work' = [s \in SampleNames |-> [Waiting EXCEPT !.stage = "out"]]
  /\ UNCHANGED <<sampleFailed, runs, disk, samplesJson, spoiled>>

SampleNext == \/ StartRun \/ SamplePublish \/ End
              \/ \E s \in SampleNames : Readme(s) \/ Image(s) \/ Code(s) \/ Broken(s)

SampleSpec == SampleInit /\ [][SampleNext]_sampleVars

SampleTypeOK ==
  /\ DOMAIN work = SampleNames /\ \A s \in SampleNames : work[s].stage \in {"waiting", "images"} \union Ended \union {"dropped"}
  /\ sampleFailed \in BOOLEAN /\ runs \in 0..SampleMaxRuns
  /\ \A f \in disk : f.sample \in SampleNames
  /\ DOMAIN samplesJson \subseteq SampleNames
  /\ \A s \in DOMAIN samplesJson : samplesJson[s].local \subseteq Range(samplesJson[s].refs)

(* The site imports every image that samples.json calls local, so it has to be there, whatever
   failed in the run that wrote the file and in the runs after it.  (Only a run that broke an
   image off and was given up later takes away what an earlier run had saved.) *)
LocalImagesExist ==
  \A s \in DOMAIN samplesJson : \A ref \in samplesJson[s].local :
    (\E f \in disk : f.sample = s /\ f.base = ref.base) \/ <<s, ref.base>> \in spoiled

(* The image is the one the README of that run shows, unless the README shows another one of
   the same name first.  It holds when the run that publishes ends. *)
RightImages ==
    \A s \in DOMAIN samplesJson' : samplesJson' # samplesJson =>
    \A i \in DOMAIN samplesJson'[s].refs :
      LET ref == samplesJson'[s].refs[i]
      IN ref \in samplesJson'[s].local =>
           \/ File(s, ref) \in disk'
           \/ \E j \in DOMAIN samplesJson'[s].refs :
                samplesJson'[s].refs[j].base = ref.base /\ samplesJson'[s].refs[j].dir # ref.dir

(* A themed image stands alone as the thumbnail only if the README has nothing better: no image
   without a theme and no light one beside a dark one; and each half of a pair is of its theme. *)
ThumbnailsFit ==
  \A s \in DOMAIN samplesJson :
    LET r == samplesJson[s].refs
        t == samplesJson[s].thumbnail
    IN /\ (t.light = 0) = (r = <<>>)
       /\ t.light # 0 /\ t.light = t.dark /\ r[t.light].theme # "none" =>
            \A i \in DOMAIN r : r[i].theme # "none" /\ (i < Len(r) => r[i + 1].theme = r[i].theme)
       /\ t.light # t.dark => r[t.light].theme = "light" /\ r[t.dark].theme = "dark"

(* The code that is shown for an AppHost project is code of that project, not of another
   project of the sample. *)
CodeOfAppHost ==
  \A s \in DOMAIN samplesJson :
    samplesJson[s].appHost.kind = "csproj" =>
      \E tree \in Trees(s) : \E p \in Range(tree) :
        p.file = "AppHost.csproj" /\ p.dir = samplesJson[s].appHost.dir

-----------------------------------------------------------------------------

(***************************************************************************)
(* The refresh of the blog posts the site lists (scripts/update-blogs.ts): *)
(* the archive is read page by page from a server that goes on publishing, *)
(* and replaces the previous snapshot only once it has been read whole.    *)
(***************************************************************************)

CONSTANTS
    Written,       \* what has been written for the blog, by id: fields of a post
    PerPage,       \* posts on a page of the archive
    BlogPublished, \* what may be published while a refresh reads
    Withdrawn,     \* what may be withdrawn then
    MaxRefreshes, NoFile

ASSUME PageAssumption == PerPage \in 1..100

ASSUME WrittenAssumption ==
    /\ DOMAIN Written \subseteq Nat \ {0} /\ IsFiniteSet(DOMAIN Written)
    /\ BlogPublished \cup Withdrawn \subseteq DOMAIN Written

VARIABLES
    archive,    \* ids of the posts the server has published
    blogStage,  \* what the refresh does: "idle", "read", "collected",
                 \* "write", "rename" or "remove"
    expected,   \* total and pages the first page announced, NoFile before it
    blogPage,   \* page to be read next
    posts,      \* posts read so far
    staging,    \* the file beside the snapshot
    snapshot,   \* the file the site is built from
    refreshes,  \* refreshes begun
    throughout, \* history: posts published from the first page to the last
    appeared,   \* history: posts published between two pages
    vanished    \* history: posts withdrawn between two pages

pageHistory == <<throughout, appeared, vanished>>

blogVars == <<archive, blogStage, expected, blogPage, posts, staging, snapshot, refreshes, pageHistory>>

HasTitle(id) == Written[id].title

\* The archive is ordered by id, whenever a post was published.
Archived == SetToSortSeq(archive, <)

Pages(n) == (n + PerPage - 1) \div PerPage

OnPage(n) ==
    LET last == IF n * PerPage < Len(Archived) THEN n * PerPage ELSE Len(Archived)
    IN SubSeq(Archived, (n - 1) * PerPage + 1, last)

\* Broken: the first of the media.
PictureFirst(id) ==
    IF Written[id].media # <<>> /\ Head(Written[id].media).image THEN Head(Written[id].media).id ELSE NoFile

Picture(id) ==
    LET Own == SelectSeq(Written[id].media, LAMBDA item : item.id = Written[id].featured)
    IN IF Own # <<>> /\ Head(Own).image THEN Head(Own).id ELSE NoFile

Post(id) == [href |-> Written[id].link, date |-> Written[id].date, image |-> Picture(id)]

NewestFirst(a, b) == a.date > b.date \/ (a.date = b.date /\ a.href <= b.href)

BlogInit ==
    /\ archive \in SUBSET DOMAIN Written
    /\ archive # {}
    /\ blogStage = "idle" /\ expected = NoFile /\ blogPage = 1 /\ posts = <<>>
    /\ staging = NoFile /\ snapshot = NoFile /\ refreshes = 0
    /\ throughout = {} /\ appeared = {} /\ vanished = {}

BetweenPages == blogStage = "read" /\ expected # NoFile

(* The server goes on while the refresh waits for a page. *)
BlogPublish(id) ==
    /\ id \in BlogPublished \ archive
    /\ archive' = archive \cup {id}
    /\ appeared' = IF BetweenPages THEN appeared \cup {id} ELSE appeared
    /\ UNCHANGED <<blogStage, expected, blogPage, posts, staging, snapshot, refreshes, throughout, vanished>>

Withdraw(id) ==
    /\ id \in Withdrawn \cap archive
    /\ archive' = archive \ {id}
    /\ vanished' = IF BetweenPages THEN vanished \cup {id} ELSE vanished
    /\ throughout' = IF BetweenPages THEN throughout \ {id} ELSE throughout
    /\ UNCHANGED <<blogStage, expected, blogPage, posts, staging, snapshot, refreshes, appeared>>

Refresh ==
    /\ blogStage = "idle" /\ refreshes < MaxRefreshes
    /\ blogStage' = "read" /\ refreshes' = refreshes + 1
    /\ expected' = NoFile /\ blogPage' = 1 /\ posts' = <<>>
    /\ UNCHANGED <<archive, staging, snapshot, pageHistory>>

(* A page that says the totals of an archive that has posts: the first     *)
(* page's totals are kept, and a later page's must be the same.            *)
Totals == [total |-> Cardinality(archive), pages |-> Pages(Cardinality(archive))]

Agrees(totals) == expected \in {NoFile, totals}

Due(total) == IF PerPage < total - (blogPage - 1) * PerPage THEN PerPage ELSE total - (blogPage - 1) * PerPage

IsNew(read, id) == \A i \in 1..Len(read) : read[i] # id /\ Written[read[i]].link # Written[id].link

GiveUp ==
    /\ blogStage' = "idle" /\ expected' = NoFile /\ blogPage' = 1 /\ posts' = <<>>
    /\ throughout' = {} /\ appeared' = {} /\ vanished' = {}
    /\ UNCHANGED <<archive, staging, snapshot, refreshes>>

Acceptable(answer) ==
    /\ archive # {}
    /\ Agrees(Totals)
    /\ Len(answer) = Due(Totals.total)
    /\ \A i \in 1..Len(answer) :
           HasTitle(answer[i]) /\ IsNew(posts \o SubSeq(answer, 1, i - 1), answer[i])

(* A page: an answer that fails, is cut short or holds a post that is not  *)
(* well-formed ends the refresh.                                           *)
ReadPage ==
    /\ blogStage = "read"
    /\ \E answer \in {OnPage(blogPage), SubSeq(OnPage(blogPage), 1, Len(OnPage(blogPage)) - 1)} :
          IF ~Acceptable(answer) THEN GiveUp
          ELSE /\ posts' = posts \o answer
               /\ expected' = IF expected = NoFile THEN Totals ELSE expected
               /\ blogPage' = blogPage + 1
               /\ blogStage' = IF blogPage' <= expected'.pages THEN "read" ELSE "collected"
               /\ throughout' = IF expected = NoFile THEN archive ELSE throughout
               /\ UNCHANGED <<archive, staging, snapshot, refreshes, appeared, vanished>>

PageFails == blogStage = "read" /\ GiveUp

Collected ==
    /\ blogStage = "collected"
    /\ IF Len(posts) # expected.total THEN GiveUp
       ELSE /\ blogStage' = "write"
            /\ UNCHANGED <<archive, expected, blogPage, posts, staging, snapshot, refreshes, pageHistory>>

Listed ==
    LET list == [i \in 1..Len(posts) |-> Post(posts[i])]
        order == CHOOSE p \in Permutations(1..Len(posts)) :
                     \A i, j \in 1..Len(posts) : i < j => NewestFirst(list[p[i]], list[p[j]])
    IN [i \in 1..Len(posts) |-> list[order[i]]]

(* The staging file is written in place; a write may stop half way.        *)
\* Broken: the snapshot itself is written.
WriteInPlace ==
    /\ blogStage = "write"
    /\ \E whole \in BOOLEAN :
          /\ snapshot' = IF whole THEN Listed ELSE Front(Listed)
          /\ blogStage' = IF whole THEN "rename" ELSE "remove"
    /\ staging' = Listed
    /\ UNCHANGED <<archive, expected, blogPage, posts, refreshes, pageHistory>>

Write ==
    /\ blogStage = "write"
    /\ \E whole \in BOOLEAN :
          /\ staging' = IF whole THEN Listed ELSE Front(Listed)
          /\ blogStage' = IF whole THEN "rename" ELSE "remove"
    /\ UNCHANGED <<archive, expected, blogPage, posts, snapshot, refreshes, pageHistory>>

Rename ==
    /\ blogStage = "rename"
    /\ \E done \in BOOLEAN :
          /\ snapshot' = IF done THEN staging ELSE snapshot
          /\ staging' = IF done THEN NoFile ELSE staging
    /\ blogStage' = "remove"
    /\ UNCHANGED <<archive, expected, blogPage, posts, refreshes, pageHistory>>

RemoveStaging ==
    /\ blogStage = "remove"
    /\ staging' = NoFile
    /\ blogStage' = "idle" /\ posts' = <<>> /\ expected' = NoFile /\ blogPage' = 1
    /\ throughout' = {} /\ appeared' = {} /\ vanished' = {}
    /\ UNCHANGED <<archive, snapshot, refreshes>>

(* The process is stopped.  Its staging file stays; the next process has   *)
(* another number and so another file, and never looks at this one.        *)
Stopped ==
    /\ blogStage # "idle"
    /\ blogStage' = "idle" /\ posts' = <<>> /\ expected' = NoFile /\ blogPage' = 1 /\ staging' = NoFile
    /\ throughout' = {} /\ appeared' = {} /\ vanished' = {}
    /\ UNCHANGED <<archive, snapshot, refreshes>>

BlogNext ==
    \/ \E id \in BlogPublished : BlogPublish(id)
    \/ \E id \in Withdrawn : Withdraw(id)
    \/ Refresh \/ ReadPage \/ PageFails \/ Collected \/ Write \/ Rename \/ RemoveStaging \/ Stopped

BlogSpec == BlogInit /\ [][BlogNext]_blogVars

(* What is staged and saved are lists of posts, and a refresh that is not  *)
(* running has left no staging file behind.                                *)
BlogTypeOK ==
    /\ archive \subseteq DOMAIN Written
    /\ blogStage \in {"idle", "read", "collected", "write", "rename", "remove"}
    /\ expected = NoFile \/ expected.pages \in Nat \ {0}
    /\ Len(posts) <= Cardinality(DOMAIN Written)
    /\ blogStage \in {"idle", "read", "collected", "write"} => staging = NoFile

Links(list) == {list[i].href : i \in 1..Len(list)}

LinksOf(ids) == {Written[id].link : id \in ids}

(* A post that is published from the first page to the last is missed in   *)
(* one case only: between two pages a post before it was withdrawn, so that *)
(* it moved to a page that had been read, and another one was published, so *)
(* that the totals did not show it.  (Then the archive that replaces the    *)
(* snapshot is not complete, as updateAspireBlogPosts says it is.)          *)
NoneMissed ==
    snapshot' # snapshot =>
        \A id \in throughout : Written[id].link \notin Links(snapshot') =>
            appeared # {} /\ \E other \in vanished : other < id

(* None is invented or listed twice: the snapshot lists posts that were    *)
(* published while it was read, each once.                                 *)
NoneTwice ==
    snapshot' # snapshot =>
 /\ Links(snapshot') \subseteq LinksOf(throughout \cup appeared \cup vanished)
 /\ Cardinality(Links(snapshot')) = Len(snapshot')

(* The snapshot is never torn: while a refresh runs, fails or is stopped,  *)
(* it is the previous one or as many posts as the archive announced.       *)
SnapshotIsWhole ==
    snapshot' # snapshot => Len(snapshot') = expected.total

(* Newest first, by address on one day, however the pages brought them: so *)
(* that two refreshes of one archive save the same file.                   *)
Sorted == snapshot # NoFile => \A i, j \in 1..Len(snapshot) : i < j =>
    \/ snapshot[i].date > snapshot[j].date
    \/ (snapshot[i].date = snapshot[j].date /\ snapshot[i].href < snapshot[j].href)

(* A post is shown with its own picture, never with one of the other media *)
(* that came embedded with it.                                             *)
OwnPicture == snapshot # NoFile => \A i \in 1..Len(snapshot) :
    snapshot[i].image # NoFile => \E id \in DOMAIN Written :
        Written[id].link = snapshot[i].href /\ Written[id].featured = snapshot[i].image

-----------------------------------------------------------------------------

(***************************************************************************)
(* The resource directory (catalog-normalization.ts): the documents, the   *)
(* packages, the videos and channels and the blog posts of many sources    *)
(* become one list in which a destination has one entry.  A document that  *)
(* is not to be listed is left out, and a package is merged into the       *)
(* document it is mapped to, when that one is listed.                      *)
(*                                                                         *)
(* A URL is a page of the site, a video or some other address, with what   *)
(* may be added to it without changing where it leads.                     *)
(***************************************************************************)

CONSTANTS
    Paths,                                                 \* the routes of documents, and the paths of their files
    Localized, Fragments,                                  \* the paths of translations and of included fragments
    NotResources,                                          \* nonResourcePaths, aspireconf, reference/api, _...
    Redirected,                                            \* redirectPaths
    BlogPaths,                                             \* blog/..., of the documents that are posts
    ResourcePackages, Videos, Posts, Platforms, Channels,
    MaxDocs, MaxMappings, MaxVideos, MaxBlogs, MaxChannels \* bounds

VARIABLES
    resourcePhase, \* the source that is read
    byDestination, \* the entries: destination -> [id, title, type, href, tags]
    byId,          \* id -> destination
    resourceDocs,  \* the documents read so far
    docsByPath,    \* destination of a document or of its file -> its page
    mappings,      \* integrationDocs: package -> URL
    given          \* every resource that was added: [title, destination]

resourceVars == <<resourcePhase, byDestination, byId, resourceDocs, docsByPath, mappings, given>>

Phases == <<"docs", "mappings", "packages", "videos", "channels", "blogs", "done">>

Url(site, leads, extra) == [site |-> site, leads |-> leads, extra |-> extra]

ResourcePage(path) == Url("page", path, "")

(* canonicalDestination: where a URL leads, without a hash, the query of a *)
(* page, the moment of a video or tracking; another query is kept.         *)
CanonicalDestination(url) ==
    IF url.site = "web" /\ url.extra = "query" THEN url ELSE [url EXCEPT !.extra = ""]

ResourceInit ==
    /\ resourcePhase = 1
    /\ byDestination = <<>> /\ byId = <<>>
    /\ resourceDocs = {} /\ docsByPath = <<>> /\ mappings = <<>> /\ given = {}

Put(map, key, value) == [k \in DOMAIN map \union {key} |-> IF k = key THEN value ELSE map[k]]

In(name) == resourcePhase # 0 /\ Phases[resourcePhase] = name

(* Any error ends the build.                                               *)
Throw ==
    /\ resourcePhase' = 0
    /\ UNCHANGED <<byDestination, byId, docsByPath, given>>

(* add, with the kind of merge the source allows: packages may be merged   *)
(* into anything, a video or a post only into one of its kind.             *)
Add(entry, merge) ==
    LET destination == CanonicalDestination(entry.href)
        known == destination \in DOMAIN byDestination
        existing == byDestination[destination]
    IN IF \/ entry.id \in DOMAIN byId /\ byId[entry.id] # destination
          \/ known /\ (merge = "" \/ (merge \in {"video", "blog"} /\ existing.type # merge))
       THEN Throw
       ELSE /\ byDestination' =
                  Put(byDestination, destination,
                      IF known THEN [existing EXCEPT !.tags = @ \union entry.tags \union {entry.title}]
                      ELSE entry)
            /\ byId' = Put(byId, entry.id, destination)
            /\ given' = given \union {[title |-> entry.title, destination |-> destination]}
            /\ UNCHANGED <<resourcePhase, docsByPath>>

Resource(id, title, type, href, tags) ==
    [id |-> id, title |-> title, type |-> type, href |-> href, tags |-> tags]

(* eligibleDocs: what is no translation, fragment or utility page, is not  *)
(* redirected, and is listed: no draft, hidden, unlisted or noindex page.  *)
Eligible(doc) ==
    /\ {doc.route, doc.file} \intersect (Localized \union Fragments) = {}
    /\ doc.route \notin NotResources \union Redirected
    /\ doc.listed

(* A document is known by its route and by the path of its file, which     *)
(* differ when it has a slug of its own; the later of two documents that   *)
(* claim one path has it.                                                  *)
DocPaths(doc) ==
    Put(Put(docsByPath, ResourcePage(doc.route), ResourcePage(doc.route)), ResourcePage(doc.file), ResourcePage(doc.route))

(* Only posts matter here: a post of the feed may be merged into them.     *)
ClassifyDoc(doc) == IF doc.route \in BlogPaths THEN "blog" ELSE "guide"

(* The next document; its identity is its route.                           *)
AddDoc(doc) ==
    /\ In("docs") /\ Cardinality(resourceDocs) < MaxDocs
    /\ doc.file \notin {d.file : d \in resourceDocs}
    /\ resourceDocs' = resourceDocs \union {doc}
    /\ IF ~Eligible(doc) THEN UNCHANGED <<resourcePhase, byDestination, byId, docsByPath, given>>
       ELSE LET title == <<"doc", doc.route>>
                entry == Resource(title, title, ClassifyDoc(doc), ResourcePage(doc.route), {})
                destination == CanonicalDestination(entry.href)
            IN IF destination \in DOMAIN byDestination THEN Throw
               ELSE /\ byDestination' = Put(byDestination, destination, entry)
                    /\ byId' = Put(byId, entry.id, destination)
                    /\ given' = given \union {[title |-> title, destination |-> destination]}
                    /\ docsByPath' = DocPaths(doc)
                    /\ UNCHANGED resourcePhase
    /\ UNCHANGED mappings

AddMapping(package, url) ==
    /\ In("mappings") /\ Cardinality(DOMAIN mappings) < MaxMappings
    /\ IF package \in DOMAIN mappings THEN Throw /\ UNCHANGED mappings
       ELSE /\ mappings' = Put(mappings, package, url)
            /\ UNCHANGED <<resourcePhase, byDestination, byId, docsByPath, given>>
    /\ UNCHANGED resourceDocs

OnNuGet(package) == Url("web", <<"package", package>>, "")

(* A package leads to the document it is mapped to, if there is one to     *)
(* lead to, to the other address it is mapped to, or to its own.           *)
PackageHref(package) ==
    IF package \notin DOMAIN mappings THEN OnNuGet(package)
    ELSE LET mapped == mappings[package]
             destination == CanonicalDestination(mapped)
         IN IF destination.site # "page" THEN mapped
            ELSE IF destination \in DOMAIN docsByPath THEN docsByPath[destination]
            ELSE OnNuGet(package)

AddPackage(package) ==
    /\ In("packages")
    /\ IF <<"integration", package>> \in DOMAIN byId THEN Throw
       ELSE Add(Resource(<<"integration", package>>, <<"package", package>>, "integration",
                         PackageHref(package), {<<"package", package>>}), "package")
    /\ UNCHANGED <<resourceDocs, mappings>>

Count(kind) == Cardinality({t \in {g.title : g \in given} : t[1] = kind})

AddVideo(video, extra, title) ==
    /\ In("videos") /\ Count("video") < MaxVideos
    /\ Add(Resource(<<"video", video>>, <<"video", title>>, "video",
                    Url("video", video, extra), {}), "video")
    /\ UNCHANGED <<resourceDocs, mappings>>

AddChannel(platform, channel) ==
    /\ In("channels") /\ Count("channel") < MaxChannels
    /\ Add(Resource(<<"channel", platform>>, <<"channel", platform>>, "video",
                    Url("web", <<"channel", channel>>, ""), {platform}), "")
    /\ UNCHANGED <<resourceDocs, mappings>>

(* A post may be a page of the site; its identity is where it leads.       *)
AddBlog(url, title) ==
    /\ In("blogs") /\ Count("blog") < MaxBlogs
    /\ Add(Resource(<<"blog", CanonicalDestination(url)>>, <<"blog", title>>, "blog", url, {}), "blog")
    /\ UNCHANGED <<resourceDocs, mappings>>

(* The sources are read one after the other.                               *)
NextSource ==
    /\ resourcePhase # 0 /\ resourcePhase < Cardinality(DOMAIN Phases)
    /\ resourcePhase' = resourcePhase + 1
    /\ UNCHANGED <<byDestination, byId, resourceDocs, docsByPath, mappings, given>>

MappingUrls ==
    {Url("page", path, extra) : path \in Paths, extra \in {"hash"}}
    \union {Url("web", <<"manual", 1>>, "tracking")}

PostUrls ==
    {Url("web", <<"post", post>>, extra) : post \in Posts, extra \in {"", "tracking", "query"}}
    \union {ResourcePage(path) : path \in Paths}

ResourceNext ==
    \/ \E route, file \in Paths, listed \in BOOLEAN :
          AddDoc([route |-> route, file |-> file, listed |-> listed])
    \/ \E package \in ResourcePackages, url \in MappingUrls : AddMapping(package, url)
    \/ \E package \in ResourcePackages : AddPackage(package)
    \/ \E video \in Videos, extra \in {"", "moment"}, title \in 1 .. MaxVideos :
          AddVideo(video, extra, title)
    \/ \E platform \in Platforms, channel \in Channels : AddChannel(platform, channel)
    \/ \E url \in PostUrls, title \in 1 .. MaxBlogs : AddBlog(url, title)
    \/ NextSource

ResourceSpec == ResourceInit /\ [][ResourceNext]_resourceVars

Entries == {byDestination[destination] : destination \in DOMAIN byDestination}

ResourceTypeOK ==
    /\ resourcePhase \in 0 .. 7
    /\ \A destination \in DOMAIN byDestination :
          CanonicalDestination(byDestination[destination].href) = destination
    /\ \A id \in DOMAIN byId : byId[id] \in DOMAIN byDestination

(* "A missing/unlisted local doc must never turn an otherwise valid        *)
(* package into a broken link": what is mapped or posted leads to a page   *)
(* only if the page is that of a listed document - or is said to be a post *)
(* of the site itself.                                                     *)
LinksLead ==
    \A entry \in Entries : entry.href.site = "page" /\ entry.type # "blog" =>
        \E doc \in resourceDocs : Eligible(doc) /\ doc.route = entry.href.leads

(* No document that is hidden, redirected, translated or a fragment has an *)
(* entry of its own.                                                       *)
HiddenStayHidden ==
    \A doc \in resourceDocs : ~doc.listed /\ (\A other \in resourceDocs \ {doc} : other.route # doc.route) =>
        <<"doc", doc.route>> \notin {entry.id : entry \in Entries}

(* Every resource is found where it leads, by its title or as a tag of     *)
(* what it was merged into.                                                *)
EverythingIsFound ==
    \A resource \in given :
        LET entry == byDestination[resource.destination]
        IN resource.title \in {entry.title} \union entry.tags

(* An identity names one entry, and two entries do not lead to one place.  *)
IdentitiesOnce ==
    \A one, other \in Entries :
        one # other => one.id # other.id /\ one.href # other.href

(* A package that is mapped to a listed document, by its route or by the   *)
(* path of its file, is in that document's entry and not one beside it.    *)
MappedIsMerged ==
    \A package \in DOMAIN mappings : <<"integration", package>> \in DOMAIN byId =>
        LET mapped == mappings[package]
            meant == {doc \in resourceDocs : Eligible(doc) /\ mapped.leads \in {doc.route, doc.file}}
        IN mapped.site = "page" /\ meant # {} =>
              byId[<<"integration", package>>] \in {ResourcePage(doc.route) : doc \in meant}

(* What a source said first stands: a merge adds tags and replaces neither *)
(* the identity, the title, the kind nor the link of an entry.             *)
FirstStands ==
    \A destination \in DOMAIN byDestination :
       /\ destination \in DOMAIN byDestination'
       /\ [byDestination'[destination] EXCEPT !.tags = {}] =
          [byDestination[destination] EXCEPT !.tags = {}]
       /\ byDestination[destination].tags \subseteq byDestination'[destination].tags

-----------------------------------------------------------------------------

(***************************************************************************)
(* The social cards of the site: the build draws one PNG per default       *)
(* locale documentation page and one per sample, and every page names the  *)
(* image it expects in og:image.  The two are computed apart, by           *)
(* pages/og/[...slug].ts and by utils/page-metadata.ts, in separate        *)
(* passes of one build; the build is incremental, so a card is drawn again *)
(* only when its cache key changed, and the cards of one build are drawn   *)
(* at the same time, sharing the emoji each process has fetched.           *)
(*                                                                         *)
(* An entry id is the sequence of its segments.  A card is the record of   *)
(* what is drawn on it.                                                    *)
(***************************************************************************)

CONSTANTS
    Ids,         \* the ids an entry may have
    Locale,      \* a locale other than the default one
    CardSamples, \* the slugs of the samples
    MaxEdits,    \* bound: edits between builds
    MaxBuilds    \* bound: builds

ASSUME CardAssumption == Locale # "root" /\ MaxEdits \in Nat /\ MaxBuilds \in Nat

VARIABLES
    cardDocs, \* per entry of the docs collection, its frontmatter
    assets,   \* version of the fonts and the background
    online,   \* whether the emoji can be fetched
    cache,    \* the incremental cache: per entry, a key and the card drawn for it
    emoji,    \* of the running process: "none", "fetching", "svg" or "empty"
    fetches,  \* of the running process: requests for the emoji
    jobs,     \* per card of the running build: "todo", "emoji" or "done"
    drawn,    \* the cards this build drew itself
    out,      \* per path under /og/, the card in the output
    edits, builds

cardVars == <<cardDocs, assets, online, cache, emoji, fetches, jobs, drawn, out, edits, builds>>

Unset == <<>>

OwnImage == <<"assets", "own">>

Frontmatter == [title : {"plain", "smile"}, template : {"doc", "splash"},
                og : BOOLEAN, ogImage : {Unset, OwnImage}, topic : {1, 2}]

HasEmoji(data) == data.title = "smile"

(* utils/page-metadata.ts *)
IsDefaultLocaleEntry(id) == ~(id # <<>> /\ id[1] = Locale)

GetContentBasePath(route) ==
    IF route.locale # "root" /\ Len(route.id) >= 2 /\ route.id[1] = route.locale
    THEN Tail(route.id) ELSE route.id

IsHomePagePath(p) == p \in {<<"index">>, <<>>}

IsApiReferencePath(p) == Len(p) >= 2 /\ p[1] = "reference" /\ p[2] = "api"

ShouldSkipDynamicOgImage(route, p) ==
    \/ ~route.data.og
    \/ route.data.template = "splash"
    \/ route.pages
    \/ IsApiReferencePath(p)
    \/ IsHomePagePath(p)
    \/ p = <<"404">>

DefaultImage == <<"og-image">>

\* The path og:image names.
ResolveOgImage(route) ==
    LET p == GetContentBasePath(route) IN
    IF route.data.ogImage # Unset THEN route.data.ogImage
    ELSE IF ~route.data.og \/ route.locale # "root" THEN DefaultImage
    ELSE IF ShouldSkipDynamicOgImage(route, p) THEN DefaultImage
    ELSE <<"og">> \o p

(* pages/og/ *)
\* The entry as the endpoint sees it: no locale, and no file path either.
EndpointRoute(id) == [id |-> id, locale |-> "root", pages |-> FALSE, data |-> cardDocs[id]]

StaticPaths == {id \in DOMAIN cardDocs :
    IsDefaultLocaleEntry(id) /\ ~ShouldSkipDynamicOgImage(EndpointRoute(id), id)}

\* The card of a sample is always in the output, under a stable path, and
\* its page names it as an image of its own.
SampleCard(s) == <<"reference", "samples", s>>

SampleRoute(s) ==
    [id |-> SampleCard(s), locale |-> "root", pages |-> TRUE,
     data |-> [title |-> "plain", template |-> "doc", og |-> TRUE,
               ogImage |-> <<"og">> \o SampleCard(s), topic |-> 1]]

\* What the card shows of an entry, and the assets it is drawn with.
CacheKey(data) == <<data.title, data.topic, assets>>

\* The promise of an emoji is remembered before it is awaited.
Remembered(state) == state # "none"

CardNone == <<>>

CardInit ==
    /\ \E ids \in {S \in SUBSET Ids : Cardinality(S) \in 1..2} :
        cardDocs \in [ids -> {data \in Frontmatter : data.topic = 1}]
    /\ assets = 1
    /\ online \in BOOLEAN
    /\ cache = <<>>
    /\ emoji = "none" /\ fetches = 0
    /\ jobs = CardNone /\ drawn = {} /\ out = CardNone
    /\ edits = 0 /\ builds = 0

Building == jobs # CardNone /\ \E c \in DOMAIN jobs : jobs[c] # "done"

\* A new process: nothing is memoised, every card is to be looked up.
StartBuild ==
    /\ ~Building
    /\ builds < MaxBuilds
    /\ StaticPaths # {}
    /\ builds' = builds + 1
    /\ emoji' = "none" /\ fetches' = 0
    /\ jobs' = [id \in StaticPaths |-> "todo"]
    /\ drawn' = {} /\ out' = CardNone
    /\ UNCHANGED <<cardDocs, assets, online, cache, edits>>

CardPut(f, k, v) == [x \in DOMAIN f \cup {k} |-> IF x = k THEN v ELSE f[x]]

Cached(id) == id \in DOMAIN cache /\ cache[id].key = CacheKey(cardDocs[id])

\* Astro reuses the card drawn for this key by an earlier build.
Reuse(id) ==
    /\ jobs # CardNone /\ id \in DOMAIN jobs /\ jobs[id] = "todo"
    /\ Cached(id)
    /\ out' = CardPut(out, id, cache[id].card)
    /\ jobs' = [jobs EXCEPT ![id] = "done"]
    /\ UNCHANGED <<cardDocs, assets, online, cache, emoji, fetches, drawn, edits, builds>>

Finish(id, mark) ==
    LET card == [title |-> cardDocs[id].title, topic |-> cardDocs[id].topic, assets |-> assets, emoji |-> mark] IN
    /\ out' = CardPut(out, id, card)
    /\ cache' = CardPut(cache, id, [key |-> CacheKey(cardDocs[id]), card |-> card])
    /\ drawn' = drawn \cup {id}
    /\ jobs' = [jobs EXCEPT ![id] = "done"]

\* renderOgImagePng: the card needs no emoji.
DrawPlain(id) ==
    /\ jobs # CardNone /\ id \in DOMAIN jobs /\ jobs[id] = "todo"
    /\ ~Cached(id)
    /\ ~HasEmoji(cardDocs[id])
    /\ Finish(id, "none")
    /\ UNCHANGED <<cardDocs, assets, online, emoji, fetches, edits, builds>>

\* loadEmojiSvgDataUri: await the emoji, fetching it unless remembered.
AskEmoji(id) ==
    /\ jobs # CardNone /\ id \in DOMAIN jobs /\ jobs[id] = "todo"
    /\ ~Cached(id)
    /\ HasEmoji(cardDocs[id])
    /\ jobs' = [jobs EXCEPT ![id] = "emoji"]
    /\ IF Remembered(emoji) THEN UNCHANGED <<emoji, fetches>>
       ELSE emoji' = "fetching" /\ fetches' = fetches + 1
    /\ UNCHANGED <<cardDocs, assets, online, cache, drawn, out, edits, builds>>

\* The answer, or the swallowed failure, arrives.
Answer ==
    /\ emoji = "fetching"
    /\ emoji' = IF online THEN "svg" ELSE "empty"
    /\ UNCHANGED <<cardDocs, assets, online, cache, fetches, jobs, drawn, out, edits, builds>>

DrawEmoji(id) ==
    /\ jobs # CardNone /\ id \in DOMAIN jobs /\ jobs[id] = "emoji"
    /\ emoji \in {"svg", "empty"}
    /\ Finish(id, emoji)
    /\ UNCHANGED <<cardDocs, assets, online, emoji, fetches, edits, builds>>

\* The network comes or goes while the build runs.
Network ==
    /\ Building /\ edits < MaxEdits
    /\ edits' = edits + 1
    /\ online' = ~online
    /\ UNCHANGED <<cardDocs, assets, cache, emoji, fetches, jobs, drawn, out, builds>>

\* The repository changes between two builds.
Edit ==
    /\ ~Building /\ builds > 0 /\ edits < MaxEdits
    /\ edits' = edits + 1
    /\ jobs' = CardNone /\ out' = CardNone /\ drawn' = {}
    /\ \/ assets' = assets + 1 /\ UNCHANGED cardDocs
       \/ /\ \E id \in DOMAIN cardDocs : \E data \in {[cardDocs[id] EXCEPT !.topic = 3 - @], [cardDocs[id] EXCEPT !.og = ~@]} :
                cardDocs' = [cardDocs EXCEPT ![id] = data]
          /\ UNCHANGED assets
    /\ UNCHANGED <<online, cache, emoji, fetches, builds>>

CardNext ==
    \/ StartBuild \/ Answer \/ Network \/ Edit
    \/ \E id \in Ids : Reuse(id) \/ DrawPlain(id) \/ AskEmoji(id) \/ DrawEmoji(id)

CardSpec == CardInit /\ [][CardNext]_cardVars /\ WF_cardVars(Answer)
                     /\ \A id \in Ids : WF_cardVars(Reuse(id)) /\ WF_cardVars(DrawPlain(id))
                                        /\ WF_cardVars(AskEmoji(id)) /\ WF_cardVars(DrawEmoji(id))

(* Cards are drawn of entries of the collection, once per build.           *)
CardTypeOK ==
    /\ emoji \in {"none", "fetching", "svg", "empty"}
    /\ jobs # CardNone => DOMAIN jobs \subseteq DOMAIN cardDocs
    /\ DOMAIN out \subseteq Ids
    /\ drawn \subseteq DOMAIN out
    /\ \A id \in DOMAIN cardDocs : cardDocs[id] \in Frontmatter

Built == jobs # CardNone /\ ~Building

\* The pages of the site: each entry in its locale, an English one also as
\* the fallback of the other, and the pages that are routes of src/pages.
PageRoute(id, locale) == [id |-> id, locale |-> locale, pages |-> FALSE, data |-> cardDocs[id]]

Routes ==
    {PageRoute(id, "root") : id \in {i \in DOMAIN cardDocs : IsDefaultLocaleEntry(i)}}
    \cup {PageRoute(id, Locale) : id \in DOMAIN cardDocs}
    \cup {SampleRoute(s) : s \in CardSamples}

(* "The URL written into og:image matches the file actually produced at    *)
(* build time": after a build every page, translated, fallen back or       *)
(* generated, names the site-wide image, its own, or a card of the output; *)
(* and no card is drawn that no page names unless the page has an image of *)
(* its own (shouldSkipDynamicOgImage is consulted by both sides, with      *)
(* different routes).                                                      *)
ImageExists ==
    Built => LET named == {ResolveOgImage(r) : r \in Routes} IN
        /\ named \subseteq {DefaultImage, OwnImage} \cup {<<"og">> \o p : p \in DOMAIN out \cup {SampleCard(s) : s \in CardSamples}}
        /\ \A id \in DOMAIN out : cardDocs[id].ogImage # Unset \/ <<"og">> \o id \in named

(* A card taken from the cache shows what would be drawn today: the title  *)
(* and topic of its entry and the current fonts and background, which      *)
(* "are not part of Astro's module graph, so their content has to be part  *)
(* of the incremental-build cache key" (ogCardCacheKey).                   *)
CardIsCurrent ==
    Built => \A id \in DOMAIN out :
        /\ out[id].title = cardDocs[id].title
        /\ out[id].topic = cardDocs[id].topic
        /\ out[id].assets = assets

(* "Repeated builds within the same astro build only fetch each emoji      *)
(* once": cards drawn at the same time share one request, so those a build *)
(* draws agree on whether they show the emoji, even if the network comes   *)
(* or goes meanwhile (loadEmojiSvgDataUri).                                *)
EmojiOnce ==
    /\ fetches <= 1
    /\ \A a, b \in drawn : HasEmoji(cardDocs[a]) /\ HasEmoji(cardDocs[b]) => out[a].emoji = out[b].emoji

=============================================================================
