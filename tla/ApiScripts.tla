----------------------------- MODULE ApiScripts -----------------------------
(* The scripts around the API reference: the job that regenerates it, the     *)
(* types of the samples, and IndexNow; and, at the end, these and the other  *)
(* scripts of the site side by side.                                         *)
EXTENDS PackageCatalog, SiteContent, Naturals, FiniteSets, SequencesExt, Integers, Sequences

-----------------------------------------------------------------------------

(***************************************************************************)
(* The daily job that regenerates the API reference: the catalog is        *)
(* updated, the C# and then the TypeScript generator write into a stage,   *)
(* packages that failed keep the data of the last good run, the stage is   *)
(* validated, published and proposed as a pull request, and one issue      *)
(* tracks the packages that fail.                                          *)
(*                                                                         *)
(* A package's data is its identity, name and version.  The provenance     *)
(* (repository and commit) is that of the version, so it is not kept       *)
(* apart.  The three moves that publish the stage are one step: if one     *)
(* fails they are undone and nothing is committed.                         *)
(***************************************************************************)

CONSTANTS
  RegenerationNames, \* the packages of the catalog
  Exporting,         \* those with exports, hence with a TypeScript module
  MaxVersion,        \* bound: versions of a package
  MaxBreaks,         \* bound: times a package stops generating
  MaxAborts          \* bound: jobs that die, and reports that fail

ASSUME ApiAssumption ==
  /\ Exporting \subseteq RegenerationNames
  /\ MaxVersion \in Nat \ {0} /\ MaxBreaks \in Nat /\ MaxAborts \in Nat

VARIABLES
  regenerationWorld, \* the version of each package at nuget.org, 0 before its first
  broken,            \* the packages a generator fails for, or does not support
  breaks, aborts,
  main,              \* the data on the main branch
  pull,              \* the data of the open pull request
  job,               \* the running job
  issue              \* the issue that tracks the failures

regenerationVars == <<regenerationWorld, broken, breaks, aborts, main, pull, job, issue>>

Stages == {"C#", "TypeScript"}

Faults == Stages \union {"unsupported"}

Identity == [name : RegenerationNames, version : 1..MaxVersion]

Failure == [name : RegenerationNames, version : 1..MaxVersion, stage : Stages]

(* bundle: the modules the Twoslash declarations were generated from *)
Data == [catalog : [RegenerationNames -> 0..MaxVersion], packages : SUBSET Identity,
         modules : SUBSET Identity, bundle : SUBSET Identity, failures : SUBSET Failure]

NoJob(last) == [phase |-> "idle", data |-> main, last |-> last, checked |-> FALSE, passed |-> FALSE,
                skipped |-> FALSE]

RegenerationListed(catalog) == {n \in RegenerationNames : catalog[n] > 0}

Current(catalog, names) == {[name |-> n, version |-> catalog[n]] : n \in names}

OfNames(data, names) == {p \in data : p.name \in names}

NamesOf(data) == {p.name : p \in data}

FailuresOf(catalog, names, stage) ==
  {[name |-> n, version |-> catalog[n], stage |-> stage] : n \in names}

(* What validateGeneratedApiData reports, by kind of error *)
FailedPackages(d) == {f.name : f \in {g \in d.failures : d.catalog[g.name] = g.version}}

OutdatedFailures(d) == {f \in d.failures : d.catalog[f.name] # f.version}

MissingPackages(d) ==
  {n \in RegenerationListed(d.catalog) \ FailedPackages(d) : [name |-> n, version |-> d.catalog[n]] \notin d.packages}

StaleOutput(d) ==
  {p \in d.packages \union d.modules : /\ p.version # d.catalog[p.name]
                                       /\ d.catalog[p.name] = 0 \/ p.name \notin FailedPackages(d)}

UnpairedModules(d) == d.modules \ d.packages

UnexportedPackages(d) == {p \in d.packages : p.name \in Exporting} \ d.modules

UndeclaredModules(d) == d.modules \ d.bundle

validateGeneratedApiData(d) ==
  /\ OutdatedFailures(d) = {} /\ MissingPackages(d) = {} /\ StaleOutput(d) = {}
  /\ UnpairedModules(d) = {} /\ UnexportedPackages(d) = {} /\ UndeclaredModules(d) = {}

RegenerationInit ==
  /\ regenerationWorld \in [RegenerationNames -> 0..1]
  /\ broken = {} /\ breaks = 0 /\ aborts = 0
  /\ main = [catalog |-> [n \in RegenerationNames |-> 0], packages |-> {}, modules |-> {}, bundle |-> {}, failures |-> {}]
  /\ pull = {}
  /\ job = NoJob({})
  /\ issue = [state |-> "none", body |-> {}]

Needed(data) == data.catalog # main.catalog \/ data.failures # {}

RegenerationStart ==
  /\ job.phase = "idle"
  /\ LET data == [main EXCEPT !.catalog = regenerationWorld] IN
     /\ Needed(data)
     /\ job' = [NoJob(job.last) EXCEPT !.phase = "csharp", !.data = data]
  /\ UNCHANGED <<regenerationWorld, broken, breaks, aborts, main, pull, issue>>

Failing(stage, names) == {n \in names : <<stage, n>> \in broken}

Reconciled(old, generated, failed) == generated \union OfNames(old, failed)

GenerateCSharp ==
  /\ job.phase = "csharp"
  /\ LET d == job.data
         skipped == Failing("unsupported", RegenerationListed(d.catalog))
         failed == Failing("C#", RegenerationListed(d.catalog) \ skipped)
     IN job' = [job EXCEPT !.phase = "typescript", !.skipped = skipped # {},
                 !.data.packages = Reconciled(@, Current(d.catalog, RegenerationListed(d.catalog) \ (failed \union skipped)), failed),
                 !.data.failures = FailuresOf(d.catalog, failed, "C#"),
                 !.checked = failed # {}]
  /\ UNCHANGED <<regenerationWorld, broken, breaks, aborts, main, pull, issue>>

(* The modules are generated from the packages in the stage, at their versions; the bundle
   is generated from the modules. *)
GenerateTypeScript ==
  /\ job.phase = "typescript"
  /\ LET d == job.data
         exporting == OfNames(d.packages, Exporting)
         failed == Failing("TypeScript", NamesOf(exporting))
         modules == Reconciled(d.modules, exporting \ OfNames(exporting, failed), failed)
     IN job' = [job EXCEPT !.phase = "restore",
                 !.data.modules = modules, !.data.bundle = modules,
                 !.data.failures = @ \union FailuresOf(d.catalog, failed, "TypeScript"),
                 !.checked = @ \/ failed # {}]
  /\ UNCHANGED <<regenerationWorld, broken, breaks, aborts, main, pull, issue>>

PutBack(new, old, failed) == (new \ OfNames(new, failed)) \union OfNames(old, failed)

RestoreFailed ==
  /\ job.phase = "restore"
  /\ LET d == job.data
         failed == {f.name : f \in {g \in d.failures : g.stage = "TypeScript"}}
         modules == PutBack(d.modules, main.modules, failed)
     IN job' = [job EXCEPT !.phase = "validate",
                 !.data.packages = PutBack(@, main.packages, failed),
                 !.data.modules = modules,
                 !.data.bundle = IF failed = {} THEN @ ELSE modules,
                 !.checked = TRUE, !.passed = d.failures = {}]
  /\ UNCHANGED <<regenerationWorld, broken, breaks, aborts, main, pull, issue>>

Validate ==
  /\ job.phase = "validate"
  /\ job' = [job EXCEPT !.phase = IF validateGeneratedApiData(job.data) THEN "push" ELSE "rejected"]
  /\ UNCHANGED <<regenerationWorld, broken, breaks, aborts, main, pull, issue>>

(* One branch, one pull request: it is replaced by each job *)
Push ==
  /\ job.phase = "push"
  /\ pull' = {job.data}
  /\ job' = [job EXCEPT !.phase = "report"]
  /\ UNCHANGED <<regenerationWorld, broken, breaks, aborts, main, issue>>

Stop ==
  /\ job.phase = "rejected"
  /\ job' = [job EXCEPT !.phase = "report"]
  /\ UNCHANGED <<regenerationWorld, broken, breaks, aborts, main, pull, issue>>

(* The job dies, but its last steps, which always run, report *)
Abort ==
  /\ job.phase \in {"csharp", "typescript", "restore", "validate", "push"} /\ aborts < MaxAborts
  /\ aborts' = aborts + 1
  /\ job' = [job EXCEPT !.phase = "report"]
  /\ UNCHANGED <<regenerationWorld, broken, breaks, main, pull, issue>>

Reported(i, failures) ==
  IF failures = {} THEN [i EXCEPT !.state = IF @ = "open" THEN "closed" ELSE @]
  ELSE [state |-> "open", body |-> failures]

Checked(j) == j.checked

Report ==
  /\ job.phase = "report"
  /\ IF Checked(job)
     THEN /\ issue' = Reported(issue, job.data.failures)
          /\ job' = NoJob(job.data.failures)
     ELSE /\ job' = NoJob(job.last)
          /\ UNCHANGED issue
  /\ UNCHANGED <<regenerationWorld, broken, breaks, aborts, main, pull>>

ReportFails ==
  /\ job.phase = "report" /\ aborts < MaxAborts
  /\ aborts' = aborts + 1
  /\ job' = [NoJob(issue.body) EXCEPT !.last = IF issue.state = "open" THEN issue.body ELSE {}]
  /\ UNCHANGED <<regenerationWorld, broken, breaks, main, pull, issue>>

(* The pull request is merged, between two jobs or while one runs *)
Merge ==
  /\ pull # {} /\ job.phase = "idle"
  /\ \E data \in pull : main' = data
  /\ pull' = {}
  /\ UNCHANGED <<regenerationWorld, broken, breaks, aborts, job, issue>>

Release(n) ==
  /\ regenerationWorld[n] < MaxVersion
  /\ regenerationWorld' = [regenerationWorld EXCEPT ![n] = @ + 1]
  /\ UNCHANGED <<broken, breaks, aborts, main, pull, job, issue>>

RegenerationWithdraw(n) ==
  /\ regenerationWorld[n] > 0 /\ breaks < MaxBreaks
  /\ breaks' = breaks + 1
  /\ regenerationWorld' = [regenerationWorld EXCEPT ![n] = 0]
  /\ UNCHANGED <<broken, aborts, main, pull, job, issue>>

Break(stage, n) ==
  /\ <<stage, n>> \notin broken /\ breaks < MaxBreaks
  /\ breaks' = breaks + 1
  /\ broken' = broken \union {<<stage, n>>}
  /\ UNCHANGED <<regenerationWorld, aborts, main, pull, job, issue>>

Repair ==
  /\ broken # {}
  /\ broken' = {}
  /\ UNCHANGED <<regenerationWorld, breaks, aborts, main, pull, job, issue>>

(* Someone closes the issue by hand *)
CloseByHand ==
  /\ job.phase = "idle" /\ issue.state = "open" /\ aborts < MaxAborts
  /\ aborts' = aborts + 1
  /\ issue' = [issue EXCEPT !.state = "closed"]
  /\ job' = [job EXCEPT !.last = {}]
  /\ UNCHANGED <<regenerationWorld, broken, breaks, main, pull>>

JobStep ==
  \/ RegenerationStart \/ GenerateCSharp \/ GenerateTypeScript \/ RestoreFailed
  \/ Validate \/ Push \/ Stop \/ Report

Environment ==
  \/ Abort \/ ReportFails \/ CloseByHand
  \/ \E n \in RegenerationNames : Release(n) \/ RegenerationWithdraw(n)
  \/ \E stage \in Faults, n \in RegenerationNames : Break(stage, n)

RegenerationNext == JobStep \/ Merge \/ Repair \/ Environment

SafeSpec == RegenerationInit /\ [][RegenerationNext]_regenerationVars

(* The job runs every day, its pull request merges by itself in the hours between
   two jobs, and a package that cannot
   be generated is repaired some day. *)
Fairness == WF_regenerationVars(JobStep) /\ SF_regenerationVars(Merge) /\ WF_regenerationVars(Repair)

RegenerationSpec == SafeSpec /\ Fairness

RegenerationTypeOK ==
  /\ regenerationWorld \in [RegenerationNames -> 0..MaxVersion]
  /\ broken \subseteq Faults \X RegenerationNames
  /\ main \in Data /\ \A d \in pull : d \in Data
  /\ job.data \in Data /\ job.last \subseteq Failure
  /\ issue.state \in {"none", "open", "closed"} /\ issue.body \subseteq Failure

(* What reaches main is consistent: every module has the C# output of its version, every
   exporting package its module, the declarations are those of the modules, and a package
   that is not at the version of the catalog is recorded as failed for that version. *)
MainConsistent ==
  /\ main.modules = OfNames(main.packages, Exporting)
  /\ main.bundle = main.modules
  /\ \A n \in RegenerationNames :
       LET versions == {p.version : p \in OfNames(main.packages, {n})}
       IN \/ versions = IF main.catalog[n] = 0 THEN {} ELSE {main.catalog[n]}
          \/ /\ Cardinality(versions) <= 1
             /\ \E f \in main.failures : f.name = n /\ f.version = main.catalog[n]

(* However the generators fail, what the job makes of it passes its own validation: a
   package that cannot be generated never keeps the others from being published.  Only a
   package that has no API, and is not marked so in the catalog, is rejected. *)
FailuresNeverReject == job.phase = "rejected" => job.skipped

(* A package that stays in the catalog keeps its reference: a generator that fails never
   takes published data off the site. *)
LastGoodKept ==
    \A n \in RegenerationNames :
    main.catalog[n] > 0 /\ main'.catalog[n] > 0 /\ OfNames(main.packages, {n}) # {}
      => OfNames(main'.packages, {n}) # {}

(* The issue is open with the failures of the last job that reported, and closed when
   that job had none, whoever closed it before. *)
IssueTracks ==
  job.phase = "idle" =>
    IF job.last = {} THEN issue.state # "open"
    ELSE issue.state = "open" /\ issue.body = job.last

(* "closes only after a complete generation pass succeeds": not for a job that died before
   its generators were through. *)
ClosedByPassOnly ==
    issue.state = "open" /\ issue'.state = "closed" => job.phase = "idle" \/ job.passed

-----------------------------------------------------------------------------

(***************************************************************************)
(* The declarations of the SDK for the code samples of the documentation:  *)
(* generate-twoslash-types merges the modules of all packages, whose types *)
(* may share a short name, into one bundle, and the validator reads the    *)
(* modules and the bundle again and compares them.                         *)
(*                                                                         *)
(* A type is its short name, a signature is the type it mentions.  The     *)
(* modules are put together part by part, then the bundle is generated     *)
(* and validated.                                                          *)
(***************************************************************************)

CONSTANTS
  GeneratorOrder, \* the modules in the order of readdirSync().sort()
  ValidatorOrder, \* the modules in the order of localeCompare
  HandleNames,    \* short names of handles
  Interfaces,     \* interfaces that handles implement
  Dto, Enum,      \* the short name of a data type, and of an enumeration
  Members,        \* members of the enumeration
  Other,          \* a type that no module describes
  IResource,      \* the interface that the augmentations of the script declare
  MaxParts        \* bound: parts of the modules

ASSUME BundleAssumption ==
  /\ GeneratorOrder \in Seq(Range(GeneratorOrder)) /\ ValidatorOrder \in Seq(Range(GeneratorOrder))
  /\ Range(GeneratorOrder) = Range(ValidatorOrder)
  /\ IResource \in Interfaces /\ MaxParts \in Nat

VARIABLES bundleModules, parts, bundle, errors

bundleVars == <<bundleModules, parts, bundle, errors>>

Modules == Range(GeneratorOrder)

Parents == HandleNames \union Interfaces

BundleTypes == Parents \union {Dto, Enum, Other}

NoBundle == [state |-> "none"]

(* A module: its handles with their interfaces and base classes, its DTO with the type of
   its field, the members of its enumeration, its functions with target and signature. *)
EmptyModule == [handles |-> [h \in {} |-> {}], dto |-> {}, enum |-> {}, functions |-> {}]

BundleInit ==
  /\ bundleModules = [m \in Modules |-> EmptyModule]
  /\ parts = 0 /\ bundle = NoBundle /\ errors = {}

BundlePut(m, content) ==
  /\ bundle = NoBundle /\ parts < MaxParts
  /\ bundleModules' = [bundleModules EXCEPT ![m] = content] /\ parts' = parts + 1
  /\ UNCHANGED <<bundle, errors>>

PutHandle(m, h, parents) ==
  /\ h \notin DOMAIN bundleModules[m].handles
  /\ BundlePut(m, [bundleModules[m] EXCEPT !.handles = [g \in DOMAIN @ \union {h} |-> IF g = h THEN parents ELSE @[g]]])

PutDto(m, type) == bundleModules[m].dto = {} /\ BundlePut(m, [bundleModules[m] EXCEPT !.dto = {type}])

PutEnum(m, member) == member \notin bundleModules[m].enum /\ BundlePut(m, [bundleModules[m] EXCEPT !.enum = @ \union {member}])

PutFunction(m, targets, type) ==
  LET f == [targets |-> targets, type |-> type]
  IN f \notin bundleModules[m].functions /\ BundlePut(m, [bundleModules[m] EXCEPT !.functions = @ \union {f}])

(* The first module, in an order, that describes a type *)
FirstWith(order, Describes(_)) == order[CHOOSE i \in DOMAIN order :
  Describes(order[i]) /\ \A j \in 1..(i - 1) : ~Describes(order[j])]

HandlesIn(ms) == UNION {DOMAIN bundleModules[m].handles : m \in ms}

DtoIn(order) == IF \E m \in Range(order) : bundleModules[m].dto # {}
                THEN bundleModules[FirstWith(order, LAMBDA m : bundleModules[m].dto # {})].dto ELSE {}

ParentsIn(order, h) == bundleModules[FirstWith(order, LAMBDA m : h \in DOMAIN bundleModules[m].handles)].handles[h]

EnumUnion == UNION {bundleModules[m].enum : m \in Modules}

(* A function is a method of its target and of every type the target expands to *)
Functions == UNION {bundleModules[m].functions : m \in Modules}

MethodsByTarget == [t \in UNION {f.targets : f \in Functions} |-> {f \in Functions : t \in f.targets}]

(* Interfaces are taken as they are, base classes only if they are handles *)
EmittedParents(h) ==
  {p \in ParentsIn(GeneratorOrder, h) \ {h} : p \in Interfaces \/ p \in HandlesIn(Modules)}

Referenced ==
  {f.type : f \in Functions} \union DtoIn(GeneratorOrder)
  \union UNION {EmittedParents(h) : h \in HandlesIn(Modules)}

Emits(t) == t # IResource /\ ~(t = Dto /\ DtoIn(GeneratorOrder) # {}) /\ ~(t = Enum /\ EnumUnion # {})

DescribedTypes ==
  HandlesIn(Modules) \union (IF DtoIn(GeneratorOrder) = {} THEN {} ELSE {Dto})
  \union (IF EnumUnion = {} THEN {} ELSE {Enum})

DeclaredTypes == DescribedTypes \union DOMAIN MethodsByTarget

(* Whatever is mentioned and not declared gets an empty interface *)
\* Broken: only what a module describes is mentioned in a signature.
StubsOfSignatures == {f.type : f \in Functions} \ DeclaredTypes

Stubs == Referenced \ DeclaredTypes

GenerateBundle ==
  /\ bundle = NoBundle
  /\ bundle' = [state |-> "generated",
       dto |-> DtoIn(GeneratorOrder), enum |-> EnumUnion,
       handles |-> [h \in HandlesIn(Modules) |-> EmittedParents(h)],
       methods |-> [t \in {u \in DOMAIN MethodsByTarget : Emits(u)} |-> MethodsByTarget[t]],
       stubs |-> Stubs \union {IResource}]
  /\ UNCHANGED <<bundleModules, parts, errors>>

(* The second half of validateGeneratedApiData *)
EnumErrors == {m \in Modules : ~(bundleModules[m].enum \subseteq bundle.enum)}

DtoErrors == DtoIn(ValidatorOrder) \ bundle.dto

ExpectedParents(h) ==
  {p \in ParentsIn(ValidatorOrder, h) \ {h} : p \in Interfaces \/ p \in HandlesIn(Modules)}

HandleErrors ==
  {h \in HandlesIn(Modules) : h \notin DOMAIN bundle.handles \/ ExpectedParents(h) # bundle.handles[h]}

ValidateBundle ==
  /\ bundle # NoBundle /\ bundle.state = "generated"
  /\ bundle' = [bundle EXCEPT !.state = "validated"]
  /\ errors' = {<<"enum", m>> : m \in EnumErrors} \union {<<"dto", t>> : t \in DtoErrors}
               \union {<<"handle", h>> : h \in HandleErrors}
  /\ UNCHANGED <<bundleModules, parts>>

BundleNext ==
  \/ \E m \in Modules :
       \/ \E h \in HandleNames, parents \in SUBSET (Parents \ {IResource}) :
            Cardinality(parents) <= 1 /\ PutHandle(m, h, parents)
       \/ \E type \in {Other} \union HandleNames : PutDto(m, type)
       \/ \E member \in Members : PutEnum(m, member)
       \/ \E target \in BundleTypes, type \in {Other, Enum} : \E expanded \in {{}} \union {{h} : h \in HandleNames} :
            PutFunction(m, {target} \union expanded, type)
  \/ GenerateBundle \/ ValidateBundle

BundleSpec == BundleInit /\ [][BundleNext]_bundleVars

BundleTypeOK ==
  /\ \A m \in Modules : /\ DOMAIN bundleModules[m].handles \subseteq HandleNames
                        /\ bundleModules[m].dto \subseteq BundleTypes /\ bundleModules[m].enum \subseteq Members
  /\ parts \in 0..MaxParts

Generated == bundle # NoBundle

(* The generator and the validator read the modules in orders of their own, by code units and
   by localeCompare, and take the first that describes a type.  So the validator rejects what
   was generated of a DTO or of a handle that two packages describe differently, and it does
   so for nothing else: never for an enumeration, whose members are merged, never because of
   what a third package says of another type. *)
Disputed(e) ==
  \E m, n \in Modules :
    \/ /\ e[1] = "dto"
       /\ bundleModules[m].dto # {} /\ bundleModules[n].dto # {} /\ bundleModules[m].dto # bundleModules[n].dto
    \/ /\ e[1] = "handle"
       /\ e[2] \in DOMAIN bundleModules[m].handles \intersect DOMAIN bundleModules[n].handles
       /\ bundleModules[m].handles[e[2]] # bundleModules[n].handles[e[2]]

RejectsOnlyDisputed == \A e \in errors : Disputed(e)

(* The bundle compiles: every type that a signature, a field or an extends clause mentions is
   declared by it. *)
Mentioned ==
  (UNION {{f.type : f \in bundle.methods[t]} : t \in DOMAIN bundle.methods}) \union bundle.dto
  \union UNION {bundle.handles[h] : h \in DOMAIN bundle.handles}

Declared ==
  DOMAIN bundle.handles \union DOMAIN bundle.methods \union bundle.stubs
  \union (IF bundle.dto = {} THEN {} ELSE {Dto}) \union (IF bundle.enum = {} THEN {} ELSE {Enum})

NothingUndeclared == Generated => Mentioned \subseteq Declared

(* A name is one kind of declaration: an interface may be merged with that of a handle, and
   never with a data type, an enumeration or a stub. *)
OneKind ==
  Generated =>
    /\ bundle.dto # {} => Dto \notin DOMAIN bundle.methods
    /\ bundle.enum # {} => Enum \notin DOMAIN bundle.methods
    /\ (bundle.stubs \ {IResource}) \intersect (DOMAIN bundle.handles \union DOMAIN bundle.methods) = {}

-----------------------------------------------------------------------------

(***************************************************************************)
(* Telling search engines about the pages of the site.  Every run compares *)
(* the sitemap with the list known from the previous run, sends what left, *)
(* what is new, and the next window of a pass over the whole sitemap, in   *)
(* one request, and saves the state for the next run.  The state may be    *)
(* lost, or be that of an earlier run.                                     *)
(*                                                                         *)
(* Pages are numbered in the order of the pass: English pages, the API     *)
(* reference, localized pages.  The runs of the workflow do not overlap.   *)
(***************************************************************************)

CONSTANTS
  IndexPages, \* the pages, in the order of compareUrls
  MaxPerRun,  \* MAX_URLS_PER_RUN
  ReleaseBudget, RotationBudget,
  Limits,     \* the limits a run by hand may be given
  MaxChanges, \* bound: changes of the sitemap
  MaxFaults   \* bound: states lost or not saved

ASSUME IndexNowAssumption ==
  /\ IndexPages \subseteq Nat \ {0} /\ IsFiniteSet(IndexPages)
  /\ MaxPerRun \in Nat \ {0} /\ ReleaseBudget \in Nat \ {0} /\ RotationBudget \in Nat \ {0}
  /\ Limits \subseteq 1..MaxPerRun
  /\ MaxChanges \in Nat /\ MaxFaults \in Nat

VARIABLES
  sitemap,    \* the pages of the site
  indexState, \* state.json, a set of at most one
  saved,      \* the state of the run before, a set of at most one
  indexed,    \* history: pages the engines were told about last as present
  lost,       \* history: "gone" or "old" once the state was not that of the last run
  returned,   \* history: known pages that came back before the engines heard of them
  pass,       \* history: the pages sent in the pass, and those there all along
  changes, faults

indexVars == <<sitemap, indexState, saved, indexed, lost, returned, pass, changes, faults>>

(* No pass in progress; and the cursor before the first page *)
NoCycle == [kind |-> "none", cursor |-> 0]

Cycle == [kind : {"release", "rotation"}, cursor : {0} \union IndexPages] \union {NoCycle}

State == [cycle : Cycle, known : SUBSET IndexPages]

LowerThan(a, b) == IF a < b THEN a ELSE b

Above(S, cursor) == {u \in S : u > cursor}

(* The first pages of a set, in the order of the pass *)
Take(S, k) == {u \in S : Cardinality({v \in S : v < u}) < k}

LastPage(W) == CHOOSE u \in W : \A v \in W : v <= u

(* planRun *)
Shrunk(known) == 5 * Cardinality(sitemap) < 4 * Cardinality(known)

NewPages(st) == sitemap \ st.known

RemovedPages(st) == st.known \ sitemap

CycleOf(st, mode) ==
  IF mode = "flush" THEN [kind |-> "release", cursor |-> 0]
  ELSE IF st.cycle = NoCycle THEN [kind |-> "rotation", cursor |-> 0] ELSE st.cycle

Budget(cycle, limit) ==
  IF limit < MaxPerRun THEN limit
  ELSE LowerThan(IF cycle.kind = "release" THEN ReleaseBudget ELSE RotationBudget, MaxPerRun)

RemovedSent(st, limit) == Take(RemovedPages(st), limit)

FreshSent(st, mode, limit) ==
  IF mode = "flush" THEN {} ELSE Take(NewPages(st), limit - Cardinality(RemovedSent(st, limit)))

Room(st, mode, limit) ==
  LET used == Cardinality(RemovedSent(st, limit)) + Cardinality(FreshSent(st, mode, limit))
      budget == Budget(CycleOf(st, mode), limit)
  IN IF used < budget THEN budget - used ELSE 0

Window(st, mode, limit) == Take(Above(sitemap, CycleOf(st, mode).cursor), Room(st, mode, limit))

KnownAfter(st, mode, sent) ==
  (sitemap \ (IF mode = "flush" THEN {} ELSE NewPages(st) \ sent)) \union (RemovedPages(st) \ sent)

CycleAfter(st, mode, limit, ok) ==
  LET W == Window(st, mode, limit)
      cycle == CycleOf(st, mode)
  IN IF ok /\ Above(sitemap, cycle.cursor) = W THEN NoCycle
     ELSE [cycle EXCEPT !.cursor = IF ok /\ W # {} THEN LastPage(W) ELSE @]

(* A cold start knows the whole sitemap and starts a rotation *)
Seed == [cycle |-> NoCycle, known |-> sitemap]

Loaded == IF indexState = {} THEN Seed ELSE CHOOSE st \in indexState : TRUE

IndexInit ==
  /\ sitemap \in (SUBSET IndexPages) \ {{}}
  /\ indexState = {} /\ saved = {} /\ indexed = {} /\ lost = "no" /\ returned = {}
  /\ pass = [sent |-> {}, there |-> {}]
  /\ changes = 0 /\ faults = 0

IndexRun(mode, limit, allowShrink, ok) ==
  LET st == Loaded
      window == Window(st, mode, limit)
      removed == RemovedSent(st, limit)
      fresh == FreshSent(st, mode, limit)
      sent == IF ok THEN removed \union fresh \union window ELSE {}
      first == CycleOf(st, mode).cursor = 0
  IN /\ sitemap # {} /\ (Shrunk(st.known) => allowShrink)
     /\ indexed' = IF ok THEN (indexed \ removed) \union fresh \union window ELSE indexed
     /\ returned' = returned \ sent
     /\ pass' = [sent |-> (IF first THEN {} ELSE pass.sent) \union (IF ok THEN window ELSE {}),
                 there |-> IF first THEN sitemap ELSE pass.there]
     /\ IF ok \/ indexState = {} \/ mode = "flush"
        THEN /\ indexState' = {[cycle |-> CycleAfter(st, mode, limit, ok), known |-> KnownAfter(st, mode, sent)]}
             /\ saved' = indexState
        ELSE UNCHANGED <<indexState, saved>>
     /\ UNCHANGED <<sitemap, lost, changes, faults>>

Daily(ok) == IndexRun("daily", MaxPerRun, FALSE, ok)

(* The artifact is gone, or the one of the last run was not uploaded *)
LoseState ==
  /\ faults < MaxFaults /\ indexState # {}
  /\ faults' = faults + 1
  /\ indexState' \in {{}, saved}
  /\ lost' = IF indexState' = {} /\ lost # "old" THEN "gone" ELSE "old"
  /\ saved' = {}
  /\ UNCHANGED <<sitemap, indexed, returned, pass, changes>>

IndexPublish(u) ==
  /\ u \notin sitemap /\ changes < MaxChanges
  /\ sitemap' = sitemap \union {u} /\ changes' = changes + 1
  /\ returned' = IF u \notin indexed /\ \E st \in indexState : u \in st.known THEN returned \union {u} ELSE returned
  /\ UNCHANGED <<indexState, saved, indexed, lost, pass, faults>>

Unpublish(u) ==
  /\ u \in sitemap /\ changes < MaxChanges
  /\ sitemap' = sitemap \ {u} /\ changes' = changes + 1
  /\ pass' = [pass EXCEPT !.there = @ \ {u}]
  /\ UNCHANGED <<indexState, saved, indexed, lost, returned, faults>>

IndexNext ==
  \/ \E mode \in {"daily", "flush"}, limit \in Limits \union {MaxPerRun},
        shrink \in BOOLEAN, ok \in BOOLEAN : IndexRun(mode, limit, shrink, ok)
  \/ LoseState
  \/ \E u \in IndexPages : IndexPublish(u) \/ Unpublish(u)

IndexSafeSpec == IndexInit /\ [][IndexNext]_indexVars

(* The daily run takes place every day, and is not refused for ever *)
Scheduled == Daily(TRUE) \/ Daily(FALSE) \/ LoseState \/ \E u \in IndexPages : IndexPublish(u) \/ Unpublish(u)

IndexSpec == IndexInit /\ [][Scheduled]_indexVars /\ WF_indexVars(Daily(TRUE))

IndexTypeOK ==
  /\ sitemap \subseteq IndexPages /\ indexed \subseteq IndexPages
  /\ indexState \subseteq State /\ saved \subseteq State /\ lost \in {"no", "gone", "old"}
  /\ pass.sent \subseteq IndexPages /\ pass.there \subseteq IndexPages

(* "The sitemap URLs that were submitted or are left to the pass in progress": a page the
   engines do not have is never counted as known, unless the pass still gets to it.  Whatever
   requests fail, passes restart and states are lost, no page is left out for ever.  (With
   the state of an earlier run, a page that came back meanwhile waits for the next pass.  So
   does a page that was not sent yet, left the sitemap while the pass went by and came back
   before its removal was sent, which takes more removed pages than a run may send.) *)
KnownIsTrue ==
  lost = "old" \/ \A st \in indexState : \A u \in st.known \intersect sitemap :
    u \in indexed \/ u \in returned \/ (st.cycle # NoCycle /\ u > st.cycle.cursor)

(* A page the engines were told about and that left the sitemap stays known until they have
   been told: as long as the state is that of the last run. *)
RemovedRemembered ==
  lost # "no" \/ \A st \in indexState : indexed \ sitemap \subseteq st.known

(* A pass that finishes has sent every page that was in the sitemap all along, although pages
   came and went before and after its cursor and requests failed in between. *)
PassCovers ==
    \A st \in indexState, next \in indexState' :
    st.cycle # NoCycle /\ next.cycle = NoCycle /\ lost' = lost
      => lost # "no" \/ pass'.there \subseteq pass'.sent

-----------------------------------------------------------------------------

(***************************************************************************)
(* The scripts side by side: they share nothing but the files one writes   *)
(* and another reads long afterwards.                                      *)
(***************************************************************************)

\* Each takes its steps, when another does or when none does.
ScriptsSpec ==
    /\ Spec /\ CliSpec /\ SampleSpec /\ BlogSpec /\ ResourceSpec
    /\ CardInit /\ [][CardNext]_cardVars
    /\ SafeSpec /\ BundleSpec /\ IndexSafeSpec

\* What the site lists is what its sources say, neither lost nor mixed up, whatever
\* they say and whatever changes while they are read (update-integrations.ts,
\* update-schemas.ts, update-samples.ts, catalog-normalization.ts).
ContentSafe ==
    /\ ReleaseKeeps /\ RefusedStaysOut /\ OnlyPinEnters
    /\ ToolkitIconsAgree /\ IconsSurviveRelease /\ DocsFollow
    /\ TypeOK /\ IndexServes /\ RunSyncsReleases
    /\ SampleTypeOK /\ LocalImagesExist /\ ThumbnailsFit /\ CodeOfAppHost
    /\ ResourceTypeOK /\ LinksLead /\ HiddenStayHidden /\ MappedIsMerged
    /\ EverythingIsFound /\ IdentitiesOnce

\* What a job makes of it agrees with it when the job is over: the pages of the API
\* and their types, the cards, and what the search engines were told
\* (update-integration-data.yml, generate-twoslash-types.ts, og-image.ts, indexnow.mjs).
GeneratedSafe ==
    /\ CardTypeOK /\ ImageExists /\ CardIsCurrent /\ EmojiOnce
    /\ RegenerationTypeOK /\ MainConsistent /\ FailuresNeverReject /\ IssueTracks
    /\ BundleTypeOK /\ RejectsOnlyDisputed /\ NothingUndeclared /\ OneKind
    /\ IndexTypeOK /\ KnownIsTrue /\ RemovedRemembered

\* Both: what the site lists agrees with its sources, and what is generated from it
\* agrees with what it lists.
ScriptsSafe == ContentSafe /\ GeneratedSafe

\* No step of a script loses what was there: a copy of a schema is frozen, the image
\* of a sample is its own, a snapshot of the blog is whole, a resource keeps its name,
\* a package its last good pages, and a pass over the sitemap covers it
\* (update-schemas.ts, update-samples.ts, update-blogs.ts, catalog-normalization.ts,
\* update-integration-data.yml, indexnow.mjs).
ScriptsKeep ==
    /\ [][CopiesAreFrozen]_cliVars
    /\ [][RightImages]_sampleVars
    /\ [][SnapshotIsWhole]_blogVars
    /\ [][FirstStands]_resourceVars
    /\ [][LastGoodKept /\ ClosedByPassOnly]_regenerationVars
    /\ [][PassCovers]_indexVars
=============================================================================
