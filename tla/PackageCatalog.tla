--------------------------- MODULE PackageCatalog ---------------------------
(* The packages the site lists: which version of each, what becomes of them *)
(* when the catalog is updated, and the schemas of the CLI.                  *)
EXTENDS Integers, Sequences, SequencesExt, FiniteSets, FiniteSetsExt

-----------------------------------------------------------------------------

(***************************************************************************)
(* Which version of a NuGet package the integration catalog shows           *)
(* (scripts/update-integrations.ts): the order of versions and the choice   *)
(* among what the registration of a package lists.  A version is its core   *)
(* number, the identifiers of its prerelease part and a rest that the       *)
(* parser drops: build metadata, and what follows a second dash.            *)
(***************************************************************************)

Number(v) == [numeric |-> TRUE, v |-> v]

Word(v) == [numeric |-> FALSE, v |-> v]

\* No version.
NoVersion == [core |-> 0, pre |-> << >>, rest |-> 0]

isPrerelease(version) == version.pre # << >>

Sign(a, b) == IF a < b THEN -1 ELSE IF a > b THEN 1 ELSE 0

IdentifierSign(a, b) ==
    IF a.numeric = b.numeric THEN Sign(a.v, b.v) ELSE IF a.numeric THEN -1 ELSE 1

\* The prerelease parts decide at the first place where they differ; where
\* one of them ends there, it is the older one.
PreSign(a, b) ==
    LET Both == 1 .. (IF Len(a) < Len(b) THEN Len(a) ELSE Len(b))
        differ == {i \in Both : IdentifierSign(a[i], b[i]) # 0}
    IN  IF differ = {} THEN Sign(Len(a), Len(b))
        ELSE LET i == CHOOSE j \in differ : \A k \in differ : j <= k IN IdentifierSign(a[i], b[i])

cmpSemVer(a, b) ==
    IF a.core # b.core THEN Sign(a.core, b.core)
    ELSE IF a.pre = << >> \/ b.pre = << >> THEN Sign(Len(b.pre), Len(a.pre))
    ELSE PreSign(a.pre, b.pre)

\* The last of a list after sorting it, which keeps the order of equal ones.
Newest(leaves) ==
    LET top == {i \in DOMAIN leaves : \A j \in DOMAIN leaves :
                    cmpSemVer(leaves[j].version, leaves[i].version) <= 0}
    IN  IF leaves = << >> THEN NoVersion
        ELSE leaves[CHOOSE i \in top : \A j \in top : j <= i].version

\* With a pinned version: throws when it is unlisted or deprecated.
PinRefused(leaves, pin) ==
    LET of == SelectSeq(leaves, LAMBDA l : l.version = pin)
    IN  of # << >> /\ (~Head(of).listed \/ Head(of).deprecated)

SelectPinned(leaves, pin) ==
    IF \E i \in DOMAIN leaves : leaves[i].version = pin THEN pin ELSE NoVersion

Pool(leaves) ==
    LET listed == SelectSeq(leaves, LAMBDA l : l.listed) IN IF listed = << >> THEN leaves ELSE listed

SelectPreferred(leaves, prefersPrerelease) ==
    LET pool == Pool(leaves)
        alive == SelectSeq(pool, LAMBDA l : ~l.deprecated)
        stable == SelectSeq(alive, LAMBDA l : ~isPrerelease(l.version))
    IN  IF (\E i \in DOMAIN pool : ~isPrerelease(pool[i].version)) /\ stable = << >> THEN NoVersion
        ELSE Newest(IF stable # << >> /\ ~prefersPrerelease THEN stable ELSE alive)

-----------------------------------------------------------------------------

(***************************************************************************)
(* The daily update of the integration catalog and of its documentation    *)
(* links (scripts/update-integrations.ts, scripts/aspire-package-source.ts):*)
(* packages are looked up in the official source (nuget.org, or the feed of *)
(* a release branch) and in the optional ones, a version is selected for    *)
(* each from its registration, the result is reconciled with the previous   *)
(* catalog on a release branch, and two files are written.  Between two     *)
(* updates the sources change as they like.                                 *)
(***************************************************************************)

CONSTANTS
    Official,  \* packages whose names begin with Aspire.
    Toolkit,   \* packages of the Community Toolkit
    Others,    \* packages of other publishers, with documentation links
    Offers,    \* what a source says of a package
    Modes,     \* subset of {"main", "release", "pinned"}
    Pin,       \* ASPIRE_RELEASE_VERSION
    Published, \* the version nuget.org has of an official package
    NotFound,  \* a package that no source offers
    MaxUpdates \* bound: updates

Packages == Official \cup Toolkit

ASSUME OffersAssumption ==
    /\ Official \cap Toolkit = {} /\ Packages \cap Others = {}
    /\ NotFound \notin Offers /\ Modes \subseteq {"main", "release", "pinned"}

\* The icon of a version on nuget.org, or the icon of the site.
PublishedIcon(version) == [of |-> version]

ReleaseIcon == PublishedIcon(NoVersion)

VARIABLES
    phase,   \* "idle", "generated", "saved" (the first file), "done"
    world,   \* what the sources answer during this update
    output,  \* the catalog to write
    listing, \* aspire-integrations.json: [version, icon] by package
    docs,    \* integration-docs.json: packages with a documentation link
    updates

vars == <<phase, world, output, listing, docs, updates>>

Nothing == [p \in {} |-> NotFound]

NoWorld ==
    [mode |-> "main", offers |-> [p \in Packages |-> NotFound], toolkitUp |-> FALSE,
     backfill |-> {}, registers |-> {}]

\* isReleaseBranch
OnRelease(w) == w.mode # "main"

Pinned(w, p) == w.mode = "pinned" /\ p \in Official

\* The packages found: the search for the optional source may fail.
Fetched(w) == {p \in Packages : w.offers[p] # NotFound /\ (p \in Official \/ w.toolkitUp)}

Selected(w, p) ==
    IF p \notin w.registers THEN NoVersion
    ELSE IF Pinned(w, p) THEN SelectPinned(w.offers[p].leaves, Pin)
    ELSE SelectPreferred(w.offers[p].leaves, FALSE)

\* filterOutDeprecatedWithRegistration
Candidates(w) == {p \in Fetched(w) : Pinned(w, p) \/ ~w.offers[p].deprecated}

Unavailable(w) == {p \in Candidates(w) : Pinned(w, p) /\ Selected(w, p) = NoVersion}

\* filterAndTransform: a source that is trusted needs no verification.
Accepted(w) ==
    {p \in Candidates(w) : Selected(w, p) # NoVersion /\ (w.offers[p].verified \/ (OnRelease(w) /\ p \in Official))}

\* resolveIconUrl, after mergeFallbackPackageMetadata.
IconOf(w, p) ==
    IF OnRelease(w) /\ p \in Official
    THEN IF p \in w.backfill THEN PublishedIcon(Published) ELSE ReleaseIcon
    ELSE PublishedIcon(Selected(w, p))

Fresh(w) == [p \in Accepted(w) |-> [version |-> Selected(w, p), icon |-> IconOf(w, p)]]

Throws(w) ==
    \/ \E p \in Candidates(w) : Pinned(w, p) /\
           (p \notin w.registers \/ PinRefused(w.offers[p].leaves, Pin))
    \/ w.mode = "pinned" /\ Accepted(w) \cap Official = {}

KeptIcon(p, entry, prior) ==
    IF p \in Official /\ prior.version # entry.version /\ prior.icon # ReleaseIcon THEN prior.icon ELSE entry.icon

\* Broken: nothing is.
CarriedNone(w, fresh) == {}

CarriedForward(w, fresh) ==
    {p \in DOMAIN listing : p \notin DOMAIN fresh /\ p \notin Fetched(w) \ Unavailable(w)}

reconcileReleaseBranchCatalog(w, fresh) ==
    [p \in DOMAIN fresh \cup CarriedForward(w, fresh) |->
        IF p \notin DOMAIN fresh THEN listing[p]
        ELSE IF p \notin DOMAIN listing THEN fresh[p]
        ELSE [fresh[p] EXCEPT !.icon = KeptIcon(p, fresh[p], listing[p])]]

reconcileIntegrationDocs(integrations) == {p \in docs : p \in Others \/ p \in DOMAIN integrations}

Init ==
    /\ phase = "idle" /\ world = NoWorld /\ output = Nothing
    /\ listing = [p \in Packages |-> [version |-> Published, icon |-> PublishedIcon(Published)]]
    /\ docs = Others \cup Packages
    /\ updates = 0

\* The update up to its first write; an error ends it without one.
Generate(w) ==
    /\ phase \in {"idle", "done"}
    /\ updates < MaxUpdates
    /\ updates' = updates + 1
    /\ UNCHANGED <<listing, docs>>
    /\ IF Throws(w)
       THEN phase' = "idle" /\ world' = NoWorld /\ output' = Nothing
       ELSE /\ phase' = "generated" /\ world' = w
            /\ output' = IF OnRelease(w) THEN reconcileReleaseBranchCatalog(w, Fresh(w)) ELSE Fresh(w)

SaveCatalog ==
    /\ phase = "generated" /\ phase' = "saved"
    /\ listing' = output
    /\ UNCHANGED <<world, output, docs, updates>>

SaveDocs ==
    /\ phase = "saved" /\ phase' = "done"
    /\ docs' = reconcileIntegrationDocs(output)
    /\ UNCHANGED <<world, output, listing, updates>>

\* The job is cancelled.
Cancel ==
    /\ phase \in {"generated", "saved"} /\ phase' = "idle"
    /\ world' = NoWorld /\ output' = Nothing
    /\ UNCHANGED <<listing, docs, updates>>

Worlds ==
    [mode : Modes, offers : [Packages -> Offers \cup {NotFound}], toolkitUp : BOOLEAN,
     backfill : {{}, Official}, registers : SUBSET Packages]

Next == SaveCatalog \/ SaveDocs \/ Cancel \/ \E w \in Worlds : Generate(w)

Spec == Init /\ [][Next]_vars

Refused(p) ==
    /\ p \in Fetched(world)
    /\ \/ world.offers[p].deprecated
       \/ ~world.offers[p].verified /\ p \notin Official
       \/ SelectPreferred(world.offers[p].leaves, FALSE) = NoVersion

(* An update of a release branch drops an integration of the previous       *)
(* catalog only when it was found and refused, or was found and its         *)
(* registration could not be read; and none that is pinned.                 *)
ReleaseKeeps ==
    phase = "generated" /\ OnRelease(world) =>
        \A p \in DOMAIN listing \ DOMAIN output :
            p \in Fetched(world) /\ ~Pinned(world, p) /\ (Refused(p) \/ p \notin world.registers)

(* "A release-branch refresh only advances versions and never drops ...     *)
(* previously published integrations", but those "intentionally dropped by  *)
(* a later filter".  A registration that could not be read is no such       *)
(* filter, and the package is gone all the same.                            *)
NeverDrops ==
    phase = "generated" /\ OnRelease(world) => \A p \in DOMAIN listing \ DOMAIN output : Refused(p)

(* A package that was found and refused is not brought back from the        *)
(* previous catalog.                                                        *)
RefusedStaysOut ==
    phase = "generated" => \A p \in DOMAIN output :
        p \in Fetched(world) /\ ~Pinned(world, p) => ~world.offers[p].deprecated /\ Selected(world, p) # NoVersion

(* With a pinned version, no other one of an official package enters the    *)
(* catalog.                                                                 *)
OnlyPinEnters ==
    phase = "generated" /\ world.mode = "pinned" => \A p \in Official \cap DOMAIN output :
        output[p].version = Pin \/ (p \in DOMAIN listing /\ output[p] = listing[p])

(* The icon of a toolkit package is that of the version shown, through all  *)
(* branches and carried forward or not.                                     *)
ToolkitIconsAgree == \A p \in Toolkit \cap DOMAIN listing : listing[p].icon = PublishedIcon(listing[p].version)

(* A published icon of an official package is not replaced by the icon of   *)
(* the site when a release branch moves it to another version.              *)
IconsSurviveRelease ==
    phase = "generated" /\ OnRelease(world) => \A p \in DOMAIN output \cap DOMAIN listing :
        output[p].version # listing[p].version /\ listing[p].icon # ReleaseIcon => output[p].icon # ReleaseIcon

(* After an update that was not cancelled, every link that is left belongs  *)
(* to the catalog or to another publisher, whose links are all left.        *)
DocsFollow == phase = "done" => docs \cap Packages \subseteq DOMAIN listing /\ Others \subseteq docs

-----------------------------------------------------------------------------

(***************************************************************************)
(* The copies of the aspire-config schema, one per release of the CLI      *)
(* (update-schemas.ts).  A run of the script lists the stable releases,    *)
(* page by page and newest first, generates the copies that are missing    *)
(* from each release's own CLI, and then rewrites the index.  Releases     *)
(* are published meanwhile, installing a CLI may fail, and the process may *)
(* be stopped between two writes; what is on disk stays.                   *)
(*                                                                         *)
(* A version is its place in the order of versions.  A release is listed   *)
(* in the order it was published, which is not that of the versions: a     *)
(* patch of an older minor version comes after a newer one.                *)
(***************************************************************************)

CONSTANTS
    Versions, \* positive numbers
    MIN_SCHEMA_VERSION,
    Unstable, \* versions that are published as prereleases
    PageSize, \* RELEASES_PAGE_SIZE
    MaxRuns   \* bound: runs of the script

ASSUME CliAssumption == Versions \subseteq Nat \ {0} /\ PageSize \in Nat \ {0} /\ MaxRuns \in Nat

VARIABLES
    published, \* the releases of the repository, newest first
    copies,    \* the schemas on disk: version -> the run that made it
    index,     \* [latest, versions], 0 for no latest
    run        \* the run of the script: [phase, ...]

cliVars == <<published, copies, index, run>>

(* What a release's CLI says of itself never changes: a copy is told apart *)
(* by the run that wrote it; 0 for one whose writing was stopped halfway.  *)
Shipped(version) == version \notin Unstable /\ version >= MIN_SCHEMA_VERSION

CliPublished == {published[i] : i \in DOMAIN published}

CliInit ==
    /\ published = <<>>
    /\ copies = <<>>
    /\ index = [latest |-> 0, versions |-> {}]
    /\ run = [phase |-> "none", number |-> 0]

(* External: Microsoft publishes a release.                                *)
Publish(version) ==
    /\ version \notin CliPublished
    /\ published' = <<version>> \o published
    /\ UNCHANGED <<copies, index, run>>

(* bun run update:schemas, of everything or of one version.                *)
Start ==
    /\ run.phase = "none" /\ run.number < MaxRuns
    /\ run' = [phase |-> "listing", number |-> run.number + 1, page |-> 1, versions |-> {},
               due |-> {version \in CliPublished : Shipped(version)}]
    /\ UNCHANGED <<published, copies, index>>

(* parsePinnedVersion: only a version that may have a schema is accepted.  *)
StartPinned(version) ==
    /\ run.phase = "none" /\ run.number < MaxRuns
    /\ version >= MIN_SCHEMA_VERSION
    /\ run' = [phase |-> "syncing", number |-> run.number + 1,
               left |-> {version}, versions |-> {version}, due |-> {}]
    /\ UNCHANGED <<published, copies, index>>

Page(n) == SubSeq(published, (n - 1) * PageSize + 1,
                  IF n * PageSize < Len(published) THEN n * PageSize ELSE Len(published))

(* fetchStableSchemaVersions, a page at a time.                            *)
FetchPage ==
    /\ run.phase = "listing"
    /\ LET page == Page(run.page)
           found == run.versions \union
                    {page[i] : i \in {j \in DOMAIN page : Shipped(page[j])}}
       IN run' = IF Len(page) = PageSize
                 THEN [run EXCEPT !.page = @ + 1, !.versions = found]
                 ELSE IF found = {}
                 THEN [phase |-> "none", number |-> run.number]
                 ELSE [phase |-> "syncing", number |-> run.number,
                       left |-> found, versions |-> found, due |-> run.due]
    /\ UNCHANGED <<published, copies, index>>

(* syncSchema, oldest first: a copy that exists is left alone; a missing   *)
(* one is generated by the CLI, which has to be published.                 *)
SyncSchema(version) ==
    /\ run.phase = "syncing" /\ version = Min(run.left)
    /\ \/ version \in DOMAIN copies /\ copies' = copies
       \/ /\ version \notin DOMAIN copies /\ version \in CliPublished
          /\ copies' = [v \in DOMAIN copies \union {version} |->
                           IF v = version THEN run.number ELSE copies[v]]
    /\ run' = [run EXCEPT !.left = @ \ {version},
                          !.phase = IF run.left = {version} THEN "indexing" ELSE @]
    /\ UNCHANGED <<published, index>>

(* The union of what was known and what was found.                         *)
Indexed(versions) == [versions |-> versions, latest |-> Max(versions)]

(* writeIndex, by a rename.                                                *)
WriteIndex ==
    /\ run.phase = "indexing"
    /\ index' = Indexed(index.versions \union run.versions)
    /\ run' = [phase |-> "none", number |-> run.number]
    /\ UNCHANGED <<published, copies>>

(* The list cannot be fetched, a CLI cannot be installed or run, or the    *)
(* process is stopped: nothing more is written.                            *)
Fail ==
    /\ run.phase # "none"
    /\ run' = [phase |-> "none", number |-> run.number]
    /\ UNCHANGED <<published, copies, index>>

(* syncSchema writes its copy in place: a process stopped in the middle    *)
(* leaves part of it, which every later run takes for a copy.              *)
Tear(version) ==
    /\ run.phase = "syncing" /\ version = Min(run.left)
    /\ version \in CliPublished \ DOMAIN copies
    /\ copies' = [v \in DOMAIN copies \union {version} |-> IF v = version THEN 0 ELSE copies[v]]
    /\ run' = [phase |-> "none", number |-> run.number]
    /\ UNCHANGED <<published, index>>

CliNext ==
    \/ \E version \in Versions : Publish(version)
    \/ Start
    \/ \E version \in Versions : StartPinned(version)
    \/ FetchPage
    \/ \E version \in Versions : SyncSchema(version)
    \/ WriteIndex
    \/ Fail
    \/ \E version \in Versions : Tear(version)

CliSpec == CliInit /\ [][CliNext]_cliVars

TypeOK ==
    /\ CliPublished \subseteq Versions
    /\ DOMAIN copies \subseteq Versions
    /\ index.versions \subseteq Versions
    /\ run.phase \in {"none", "listing", "syncing", "indexing"}
    /\ run.phase = "syncing" => run.left # {} /\ run.left \subseteq run.versions
    /\ run.number \in 0 .. MaxRuns

(* A version is listed in the index only when a file of it is there,       *)
(* whatever failed before; and the latest is the highest of them, so that a patch   *)
(* of an older version "never replaces a newer latest version".            *)
IndexServes ==
    /\ index.versions \subseteq DOMAIN copies
    /\ index.versions # {} => index.latest = Max(index.versions)

(* "Existing copies are never regenerated or overwritten" - nor is part of *)
(* one, left by a process that was stopped - and the index never loses one *)
(* of its versions, so pinned addresses go on resolving.             *)
CopiesAreFrozen ==
    /\ \A version \in DOMAIN copies :
         version \in DOMAIN copies' /\ copies'[version] = copies[version]
    /\ index.versions \subseteq index'.versions

(* A run that has listed the releases synchronises every one that ships    *)
(* the schema and was published when it started, also when others were     *)
(* published between two pages (fetchStableSchemaVersions).                *)
RunSyncsReleases ==
    run.phase \in {"syncing", "indexing"} => run.due \subseteq run.versions
=============================================================================
