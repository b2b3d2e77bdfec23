# aspire.dev: models, checks and proofs

The repository holds the aspire.dev site: its content, the Astro frontend that
renders it, the scripts that fetch and generate its data, the static host that
serves it, and the OG Viewer, a developer tool that previews pages. Three kinds of
program in it are hard to get right:

* the **live status** system of the static host and of the browser: several
  workers learn from Twitch and YouTube whether Aspire is live, keep one canonical
  state in Redis, and push it to browsers over WebSockets;
* **event-driven client code**, on a site whose pages are swapped under running
  scripts: diagrams, filters, searches, the tour, pivots, the OG Viewer's panel;
* **data scripts and renderers**: batch programs that run against a moving world
  and may be stopped halfway, and pure functions with many corners that turn API
  data into pages, links and anchors.

This directory models all three. `Live/` below is
`src/src/statichost/StaticHost/Live/`, `fe/` is `src/src/frontend/`, `og/` is
`src/.github/extensions/og-preview/`.

## Inventory

| Component | State | Operations | Interacts with | Hard because |
|---|---|---|---|---|
| Reducer (`Live/LiveStatusStore.cs`, `LiveStatus.cs`) | none | `Apply` an update to a state | store | sticky primary, session ids, offline confirmation |
| Store (`Live/LiveStatusStore.cs`, `LiveStatusRedis.cs`) | one Redis key | `GetAsync`, `UpdateAsync` (read, reduce, compare-and-set, publish; 8 attempts) | every request and tick of every worker | lost races, late answers, a lost key, a lost reply |
| Broadcaster (`Live/LiveStatusBroadcaster.cs`) | replica, pending state, timer, channels of capacity 8 | `ApplyState`, `Flush`, `Subscribe`, `RefreshAsync` | store, synchronizer, sockets | timer against flush, overflow, stale refreshes |
| Synchronizer (`Live/LiveStatusSynchronizer.cs`) | inbox, 30 s timer | subscribe, apply, refresh | pub/sub, store, broadcaster | messages lost, late, overtaken |
| WebSocket endpoint (`Live/LiveEndpoints.cs`) | a loop and a receive per browser, three tokens | send, heartbeat, drain, close | broadcaster, browser | the ends race; a cancelled call aborts the socket |
| Provider leadership (`Live/LiveStatusCoordination.cs`) | an expiring key, the loop of the leader | acquire, renew, lose, release | provider loops | leases against late steps |
| Twitch webhook (`Live/Twitch/TwitchWebhookHandler.cs`, coordination) | an expiring key per message | acquire, complete, release | redeliveries, store | expiry of a lease or marker against late work |
| EventSub reconcile (`Live/Twitch/TwitchEventSubService.cs`) | subscriptions at Twitch | read stream, list, create, delete | Twitch, other deployments | requests fail or lose their answer midway |
| App token (`Live/Twitch/TwitchAppTokenProvider.cs`) | cached token, a semaphore | get, invalidate, retry | every Helix call | many refused at once, late refusals |
| Confirmation (`Live/YouTube/YouTubeLiveConfirmationQueue.cs`) | a 30 s gate, a one-slot signal | queue, drain, poll | notifications, store | a notification during a poll |
| WebSub (`Live/YouTube/*WebSub*.cs`) | one Redis record | begin, sent, failed, confirm | hub, leader | verification before, after or without its request |
| Browser client (`fe/src/components/live-status.ts`, `LivePip.astro`) | snapshot, socket, four timers, requests, PiP window | connect, message, poll, visibility, 404, dismiss, open | endpoint | timers and callbacks of things that are gone |
| Diagrams (`fe/src/scripts/mermaid.ts`) | one request, one worker | request, draw, deliver | theme, navigation | a drawing that is late, a request made while busy |
| Filters and searches (`fe/src/components/dev-center/`, `api-reference/`) | filters, address, history entry | type, choose, go back, recover | Astro's router | aborted navigations, timers of a page that left |
| Tour, pivots, viewport, banner, builder (`fe/src/components/`, `utils/`) | see the modules | see the modules | DOM, storage, timers | lists rebuilt under a running tour, stale choices |
| OG Viewer (`og/`) | loads, frame, diagnostics, tabs; server: fetch, probes | load, browse, probe, render | session, other sites | answers of a page that is no longer shown |
| Data scripts (`fe/scripts/`) | generated files, caches | see the modules | NuGet, GitHub, blogs, search engines | sources change during a run; a run stops halfway |
| API reference (`fe/src/utils/`) | caches only | anchors, slugs, pages, references | pages | collisions, overloads, relative links |
| Site structure (`route-data-middleware.ts`, `structured-data.ts`) | none | pagination, breadcrumbs, JSON-LD | Starlight | shared sidebar entries, groups |

`PROJECT.json` has the full list, with the parts that are not modelled, and under
`hazards` what is hard to test, at its line.

## Modules

Each module is a part of the system; a module may hold several components of one
area, each with variables, initial states, actions and specification of its own
(`TokenInit`, `TokenNext`, `TokenSpec`, ...). `Init`, `Next`, `Spec` belong to the
module's first component.

```
LiveStatusReducer                      values and the reducer
  LiveStatusRegister                   abstract: the state as one register
  LiveStatusStore                      the compare-and-set loop; implements LiveStatusRegister
LiveStatusReplica                      broadcaster, synchronizer and sockets of one worker
ProviderLeadership                     the expiring lease and the leader's loop
TwitchDelivery  EventSubReconcile  AppToken  WebSubSubscription  ConfirmationQueue
  Providers                            composes the five
LiveClient  LiveNotice                 the browser: connection; header and player
LiveSocket                             the server's side of one socket
MermaidDiagrams  SitePages  SiteSearch
SiteTour  SiteWidgets
  Widgets                              banner, builder preview, languages; composes
                                       the widgets of a page
ViewerPanel  ViewerPages               the OG Viewer: panel; tokenizers and server
PackageCatalog  SiteContent  GeneratedShapes                        data scripts
  ApiScripts                           API data, IndexNow; composes the scripts that
                                       keep state
CSharpReference  TypeScriptReference  ReferenceLinks  SiteStructure  renderers
MCLiveStatusStore, MCLiveStatusReplica, MCCoordination,
MCProviders, MCBrowser, MCSite, MCScripts, MCApi       instances for TLC
                                       (two runs are of a module itself)
*Proofs                                             theorems and their proofs
```

### The live status system

* **LiveStatusReducer** translates the pure reducer: `ApplySnapshot` with the
  sticky primary source and the session id, and the guarded YouTube half with the
  revision and the offline count. Channel and title of Twitch are one label; the id
  `live-<ms>` is the millisecond it was made from, 0 is null.
* **LiveStatusStore**: `pc[c]` is the place of a caller in `GetAsync` or
  `UpdateAsync`. A Redis command is one step; what happens between two commands
  belongs to the step of the second. `Observe`, `Create`, `Answer` are a YouTube poll
  up to its guarded update, `Submit` starts an unguarded one, `Exchange`,
  `Conflict`, `Exhaust`, `ReturnCurrent`, `Publish`, `Return` are the loop. `Fail` ends
  a call anywhere, also after an exchange whose reply was lost. `Lose` is the loss of
  the key. Three history variables record what no code can see. **LiveStatusRegister**
  says what a caller may rely on: a request takes effect in one step on the current
  value, or not at all.
* **LiveStatusReplica**: every body under `_gate` is one step, every `await` a
  boundary, so that a refresh is a read and, later, an application of what was
  read. Messages are a set, read in any order and lost by `LoseMessage`. The
  coalescing timer may fire whenever it is armed.
* **ProviderLeadership**: `RunAsLeaderAsync` under a clock. A step that is due grows
  late by at most `MaxLate`. Failed commands, lost replies, shutdowns, crashes and a
  lost key are counted faults.
* **TwitchDelivery**: redelivered messages, their processing lease and completed
  marker, failures and crashes; and the reconcile, which reads the stream and writes
  what it read later. A request takes any time: its lease may run out under it, as
  nothing in the code renews it. `Ahead` is how far Twitch's clock is ahead of ours,
  `Tolerance` how far a message may be dated in the future. **EventSubReconcile**: one leader after another lists, creates
  and deletes subscriptions while Twitch verifies and revokes them. A request under
  way when a leader stops is handled or not, and never later. **AppToken**: cache,
  semaphore, second look, refusal, retry. **ConfirmationQueue**: the gate all workers
  share and the one-slot signal of each. **WebSubSubscription**: the record of one
  channel under a clock, with requests, verifications and expiries.
* **LiveClient** is the connection of one tab: socket, poller, the timers (reconnect,
  poll, stale, hidden close), visibility, online, the 404 that disables it, and
  which of two answers is newer. Delays of the backoff are left out. **LiveNotice** is
  what the page makes of it: the header, the dismissal of a session and the PiP
  player, whose window opens after an `await` and whose `pagehide` may come late.
  **LiveSocket** is the handler: sends, heartbeats, the pending receive, client gone,
  lifetime over, host stopping, and the close handshake. The framework aborts a socket
  whose send or receive is cancelled; a silent client does not answer in 5 s.

### The client code of the site

* **MermaidDiagrams**: one slot for a request and one worker (`requestRender`,
  `drainRenderQueue`); a drawing is delivered only if nothing newer was asked. `before-swap`
  and the swap are one step.
* **SitePages**: `filter-history.ts` with Astro's router as environment (navigations
  that are aborted, histories, traversals; no full page loads, no failing
  fetches), and the resource browser.
* **SiteSearch**: the glossary (hover timers, pins, return links) and the API search
  (mounting, disposal, the field's timer, the address, recovery). **SiteTour**: the life of
  the tour and the geometry of a step. **SiteWidgets**: pivots that share a choice
  across pages and storage, the floating pivot, viewport activation (layout changes
  come with a scroll or resize). **Widgets**: the banner's two decisions, the AppHost
  builder's animation, and the languages of documents with included fragments.

### The OG Viewer

* **ViewerPanel**: the title and its loads, the Browse frame that reports where it
  is, the diagnostics and their buttons, tabs and keyboard focus, and the code
  hovercard. `PanelSpec` joins the five. **ViewerPages**: the hovercard's tokenizers,
  and on the server the fetch with its redirects, the proxied URLs, the metadata and
  the readiness probes; `ViewerSpec` joins the panel and these, the general tokenizer
  excepted.

### Data scripts and renderers

* **PackageCatalog**: versions of a package, the integration catalog with its release
  branches, the CLI schemas (a partial copy of a file counts as a copy). **SiteContent**:
  sample catalog, blog ingestion, resource directory, social cards. **GeneratedShapes**:
  the schema made of the CLI's configuration file and the supplement of enums, both
  recursive over types. **ApiScripts**: the regeneration job, the twoslash
  declarations, IndexNow; `ScriptsSpec` joins all but the two recursive ones.
* **CSharpReference**: anchors, pages and links, documentation comments, signatures.
  **TypeScriptReference**: slugs, caches, search, pages, sidebar, signatures (no
  disambiguator ends in the word of a number; names of a document's items are
  distinct where pages are concerned). **ReferenceLinks**: resolution of names, links
  between the languages, and the checker of usages (what a syntax tree contains is
  given). **SiteStructure**: structured data, pagination and sidebars of depth two.

A pure algorithm is an operator or a recursive function; its run chooses an input,
computes, and compares the result with a reference definition. Modules with
`RECURSIVE` operators (`CSharpReference`, `GeneratedShapes`) have no theorems.

## Runs

`MCCoordination`, `MCProviders`, `MCBrowser`, `MCSite`, `MCScripts` and `MCApi` instantiate
several components that share no state. A variable `part`, chosen at the start,
says which of them moves; the others are off or stay in an initial state, so one run
explores the *sum* of their state spaces, not the product. Some parts are second
instances of a component with other parameters (`Proxied`, `Calm`, `Overloaded`, ...). A
property of such a run, like `ProvidersSafe`, is the conjunction of the properties of
its components, each explained at its definition.

| Run | Question | Bounds |
|---|---|---|
| `store` | accepted in order? offline confirmed? one session, one primary? a register to callers? | 2 callers, 2 attempts, and three mixes: polls (5 versions, threshold 2), submissions of both providers with clocks in any order, a key that is lost |
| `replica_safety` | stuck subscribers, forgotten pending states, steps backwards? | 1 writer, 1 browser, 2 epochs of 3 and 0 further versions, channel of 1, 2 stamps |
| `coordination` | does a replica converge after losses and a new epoch? one leader, the replacement's lease untouched, someone takes over? | 1 browser, 2 epochs of 2 further versions; 2 workers, lease 9, renewal 3, retry 1 (unit 5 s), lateness 1, 3 faults |
| `replica_seed` | is a subscriber seeded with the reloaded state? (no) | 1 browser, 2 versions |
| `leader_late` | one leader, if a step may be as late as the lease is long? (no) | lateness 9, 1 fault |
| `providers` | applied once, tokens and subscriptions replaced safely, all caught up with? | 2 deliveries of 2 messages, a lease of 2, freshness 1, memory 3 and a clock 1 ahead (unit 30 s), 2 calls and 3 tokens, 3 leaders of 2 deployments, 3 requests to the hub, 2 workers at the gate |
| `delivery_late` | does one request alone process a message? (no) | 2 deliveries, as in `providers` |
| `browser` | never stranded, disabled for good, true header, graceful end? is what the OG Viewer shows of its page? | 3 versions, 2 requests, 2 faults; 2 player windows; 5 frames through a channel of 2; 3 URLs with a redirect, 2 to 6 loads, 2 clicks, lines of 4 characters |
| `site` | does what is shown agree with address, storage, wish and page? | 3 pages, 2 toggles, 4 history entries, 7 resources on as many pages, 3 cards, 3 tour steps, ... |
| `scripts` | does a run that meets releases, failures and stops keep what it must? | 3 packages, 4 versions, 2 runs of a script, 5 posts in pages of 2 |
| `catalog_drops` | does a release branch drop only what it refused? (no) | 3 packages, 2 updates |
| `api` | does every anchor, slug, link and signature lead to what it names? | every package of 2 types and 2 members, every module of 3 items, 3 parameters, ... |

*Why the bounds are enough.* Two callers are what a lost race needs: one that read
and one that wrote in between. Two attempts show one re-application and one
exhaustion. Five versions and two changes of the channel let YouTube come up, be seen,
go down, be seen twice, and come up while a stale poll is under way. A channel of
capacity 1 overflows with the second frame as one of 8 does with the ninth. The lease
runs use the proportions of the code (45 s, 15 s, 5 s); deliveries keep the lease of a minute,
the tolerance of a minute and the memory that lasts a minute longer than the freshness,
which is cut to half a minute: what matters is by how much one outlasts the other. Two requests under way in a
browser are what overtaking needs; seven pages of results, opened at the fourth, have
gaps on both sides of the pager; three pages are a page, the one it is left for
and the one that overtakes it. Collisions of names need two items, and a third that is
already called what the second would become. Every bound is a CONSTANT named in the
guard that uses it (`Max...`), apart from the parameters of the code (`Lease`,
`QueueCapacity`, `Capacity`, `MaxAttempts`, ...).

Each property is listed with one mutant of the code's translation that breaks it. The
conjuncts of a composed property each had a mutant of their own while they were
written; the operators that remain with names like `TryConfirmOnce` or `DrawnUnseen`
are those of the listed mutants.

The type invariants of the composed components are checked with their other
properties; those of the store, the replica and the leadership are theorems
(`StoreTypes`, `ReplicaTypes`, `LeadershipTypes`), and no run repeats them.

### Fairness

Bounds on faults and writes end the behaviours liveness is about, and that is meant:
these properties say what happens once faults or writes are over.

* `LiveStatusReplica`: the synchronizer's loop goes on, its timer and the
  coalescing timer fire, an open socket sends what is in its channel (`WF`), and reads
  of the resync do not fail for ever (`SF`: failures may interrupt them again and
  again). Messages, writers and browsers are not assumed to do anything.
* `ProviderLeadership`: time passes and a worker takes the steps that are due.
* Providers: the reconcile of the leader goes on, and the queue's worker polls.
* `LiveClient`: timers fire, an open socket delivers, requests are answered or time
  out (`AbortSignal.timeout`); nothing is assumed of the network otherwise.
  `LiveSocket`: the handler, its receive and its timers go on and the silence of a
  client is noticed after 5 s.
* `MermaidDiagrams`: the worker and the observers run. `SiteTour`: a visitor who goes
  on clicking Next; nothing is assumed about others. `ViewerPanel`: a load is answered
  (`SF`, as a newer load may supersede it); `ViewerPages`: a body that is read arrives,
  and the loop of the tokenizer goes on.

The store has no liveness property: its loops are bounded by their attempts. Of the
social cards, IndexNow, the regeneration job and the Browse frame only safety is
checked.

### What the runs show of the code's documentation

* `replica_seed`. `Live/README.md:371` says a worker reloads canonical state before
  seeding a new subscriber. When what `RefreshAsync` reads is already pending, the
  duplicate check of `ApplyState` (`LiveStatusBroadcaster.cs:163-166`) returns before
  the immediate flush it was asked for, and `Subscribe` seeds the older `_current`.
  The newer state follows when the coalescing window ends; `SubscribersCurrent` and
  `WorkersConverge` hold all the same.
* `leader_late`. `Live/README.md:504-507` says that only one worker polls. A leader
  notices the loss of its lease at its next renewal, and nothing bounds how late that
  is. With steps at most 1 unit late `Exclusive` holds; with a pause as long as the
  lease it does not. `LeadersExclude` gives the exact condition.
* `delivery_late`. `Live/README.md:510-511` says that concurrent deliveries get a retryable
  response while the owner is still processing. The lease of a minute is not renewed, and
  nothing bounds the update under it; `CompleteAsync` learns of its end afterwards and
  throws (`LiveStatusCoordination.cs:279-289`). Until then the redelivery and the first request
  process one message at once. What remains true, and is checked and proved, is
  `OneProcessor` (one *lease* at a time; who outlived his can neither complete nor
  release) and `NotAppliedAgain`.
* `catalog_drops`. The comment at `update-integrations.ts:718-721` says that an update of a
  release branch "never drops" a published integration. A registration that cannot be read
  becomes `null` (550-558), like a package without versions, and the package is neither in the new
  list nor carried forward. `ReleaseKeeps` names this exception, and no other: a dropped
  package was found, is not pinned, and was refused or could not be read.

Behaviours met while modelling that shaped the properties, and that no run is spent
on any more: after the key was recreated a refresh read before and applied after
takes a replica back to the dead epoch until the next resync, so `NeverBackwards` is
about one epoch; a worker whose `SET NX` took effect without a reply is locked out by
its own lease; overlapping loads of the OG Viewer can keep rewriting its title; a
hovercard whose timer runs when it is dismissed opens all the same; `parseMetadata`
leaves some relative URLs as they are; a body that stalls is bounded only by the
timeout of the whole fetch; a blog post published and one withdrawn between two pages
of the archive cancel out in the totals that are compared, and then the archive that is
saved is not "complete" (`update-blogs.ts:212`): `NoneMissed` says that a post of the whole reading is
missed in this case only, with the withdrawn post before it; the validator of the
declarations may reject what the generator made of a DTO or a handle that two packages
describe differently, because it reads the modules by `localeCompare`
(`validate-generated-api-data.ts:502-504`) and the generator by code units
(`RejectsOnlyDisputed`); an IndexNow pass with a
limit forgets what it has not reached, and may count a page as known that left and came
back meanwhile (`returned`); the tokenizer for markup does not get on at a
"<" that opens no tag, as in a comparison of an inline script, where `hlMarkup`
(`og-preview/ui/app.js:567-569`) takes an empty text again and again (`EndsUnlessStray`
says that nothing else stops it); crefs and overloads that differ only in what a
signature drops share a page anchor. The properties say what holds all the same.

## Proofs

All proofs are checked by TLAPS for every value of the constants under the named
assumptions of the modules, which TLC evaluates on the instances above. The
assumptions are types, non-emptiness, capacities and intervals that are positive, and
those that say more of what the code is given: `SnapshotsAssumption` (a provider can report
that it is not live, and a live snapshot names its sources), `WebSubTimesAssumption` (the
backoff is a non-empty sequence of delays), `SearchAssumption` (trimming once is enough,
an empty text finds everything), `FilterAssumption` (reading a canonical address gives it
back, and the run starts from a history of the site's pages nothing has marked yet),
`ResourcesAssumption` (resources have ids of their own and dates that are numbers),
`PivotAssumption` (the selectors of one key on a page offer the same options, those of
different keys have no block in common, and `aspire-lang` offers the two languages of
the AppHost), `RevealersDoNotWait` (what reveals others waits for no reveal itself),
`BannerAssumption` (what was stored as the first view by others is no positive time),
`FinalAssumption` and `BrowseFinalAssumption` (where a URL is redirected to, nothing is
redirected from; there is a page to browse), `OffersAssumption` (no package is of both
origins), `BundleAssumption` (the generator and the validator of the declarations order
the same modules, each in its own way), `SampleAssumption`, `WrittenAssumption`, `CliAssumption` and `IndexNowAssumption`
(what is read has the form of READMEs, trees, posts and releases; pages and limits are positive numbers). `Proofs` modules extend the modules they are
about:

```
LiveStatusStoreProofs     LiveStatusReducer, LiveStatusStore, LiveStatusRegister
CoordinationProofs        LiveStatusReplica, ProviderLeadership
ProvidersProofs           Providers (the five provider components together)
BrowserProofs             LiveClient, LiveNotice, LiveSocket
SiteProofs                MermaidDiagrams, SitePages, SiteSearch
WidgetsProofs             Widgets, SiteTour, SiteWidgets
ViewerProofs              ViewerPanel, ViewerPages
ScriptsProofs             ApiScripts, PackageCatalog, SiteContent
```

* **Reducer lemmas** (first part of `LiveStatusStoreProofs`): `Apply` returns a state,
  keeps `Consistent`, keeps a running session, and advances the version by one unless
  it returns its argument. The store's proofs use these and not the reducer's text.
* **Store** (`LiveStatusStoreProofs`). `StoreTypes` needs that a caller which
  exchanges holds an update (`CallerHolds`). All other proofs argue over what a step can
  do to the stored state: keep it, lose it, open an epoch, or advance it (`Advanced`).
  `SnapshotsConsistent` and `SessionsStable` follow from the reducer lemmas.
  `VersionsIdentifyStates` needs `CopiesBehind`: every copy is of a past epoch, or of the
  current one, at most at the stored version and equal to the stored state at that
  version. `AcceptanceInOrder` needs `OrderInv`: a caller holds no revision newer than the
  stored one, and an answer of the current revision was given after everything
  accepted so far. `OfflineIsConfirmed` needs that the stored count never exceeds the run
  of accepted observations. `StoreImplementsRegister` maps each step to a step of the
  register or a stutter.
* **Replica** (`CoordinationProofs`): `ReplicaTypes`; `SubscribersFollow` for any
  capacity, sockets and writers, with or without coalescing; `CoalescedNotForgotten`,
  which needs `Epochs`: nothing in the system is of an epoch that was not opened yet, and
  what is of the current one is at most at the canonical version. `OnlyForward`: while the key is not lost,
  no replica and no browser goes back to an older state. It needs
  `Frames`: along the way from a browser through its channel to the replica and the
  pending state, states of one epoch only grow. The lemmas before it say what each
  helper (`TryWrite`, `Flush`, `ApplyState`) does to that order.
* **Leadership** (`CoordinationProofs`). `LeadersExclude` assumes
  `RenewalInterval + 5 * MaxLate < Lease` and that Redis loses no key: with the code's
  constants, every step less than 6 s late. `LeaseInv` counts how much of its lease a
  worker with a running loop can have used up at each location. From the last extension
  to the end of the loop five steps can be late: the reply, the timer, the renewal, its
  reply, the cancelled loop. `ReplacementsSafe` assumes nothing about time.
* **Providers** (`ProvidersProofs`), each component by itself and then together:
  * deliveries: a 200 is only answered for what was applied (`AcknowledgedOnlyIfApplied`).
    `OneAtATime` and `CompletedOnce` assume nothing about how long a request takes, nor about
    how the times of the code compare. They need that a request whose lease lasts has the
    key (`InTimeHolds`), and that a completed message is remembered for `Replay`, counted from
    when it was completed. `Waited` is the exact price of that: a copy that passed the age check
    and then waited for its lease as long as the memory outlasts the freshness is applied
    again;
  * tokens: `CallsShareTokens` for any number of calls. It needs that the semaphore is
    held exactly by the call that looks or fetches (`Fetching`), that refused tokens are
    behind what is cached (`Refusals`) and that the tokens of others were issued before
    (`OthersSpent`). `ReplacementStays`: a late refusal discards nothing newer;
  * EventSub: `NoneDroppedUnreplaced` for any number of leaders and subscriptions. Its
    invariant `Replaced`: what a leader need not create is there, and it will not delete it;
  * WebSub: `VerificationsAnswered`, `LeasesInOrder`, `VerifiedIsSettled` and
    `BackoffIsKept` for any delays and lease. Their common invariant `WebSubInv` says that only a request that is under way asks
    (`WorkersAsk`), that what is pending is what was asked last (`PendingIsLast`), that
    failures are charged to the request they belong to (`FailuresCharged`) and that a
    verified record waits for nothing (`Settled`);
  * confirmation: `PollsArePaidFor`, for any number of workers: each passage of the gate
    pays for one poll that was made, signalled, drained or is about to be (`PaidFor`);
  * `ProvidersAreSafe` and `SubscriptionsAreKept` are the properties the run checks, for
    `ProvidersSpec`, the conjunction of the five specifications.
* **Browser connection** (`BrowserProofs`): `ClientNeverStranded` needs `Watched`, which
  names for each state of the socket what lies ahead: a timer, a request or the socket
  itself; it rests on the types alone. `ClientDisabledForGood` needs that a request that
  saw the 404 is the only one that still may act.
* **Browser notice** (`BrowserProofs`): `NoticeIsSafe` (the header and the player
  tell the state last received, in every order of the window's `await`, its late
  `pagehide` and page swaps) and the action property `DismissalIsKept`.
* **Socket** (`BrowserProofs`): `StreamEndsWell` for any capacity and number of frames.
  `SocketInv` has four parts: what the channel still holds follows what was sent (`Channel`),
  the kinds of tokens that ended the loop (`Kinds`), what the client was told
  (`ClientTold`), and for each place in the handler the states the socket may be in there
  (`SocketAt`).
* **Diagrams** (`SiteProofs`): `DiagramsStayCurrent`. Its invariant relates the
  pending request, the worker's request and the page: what was asked is noted
  (`Noted`), a worker delivers only what is its own (`Own`), it is alone (`Alone`), and what
  it has drawn is shown or asked for again (`DrawnIsShown`, `Kept`).
* **Glossary** (`SiteProofs`): `GlossaryIsSafe` for any cards, filters and addresses. The
  invariant `CardsOK` is about cards, pointer, focus and what is visible as they are in
  the middle of a handler, so that each helper (`CloseCards`, `Preview`, `Focused`,
  `ClickButton`) has a lemma of its own, and a click is three of them in a row. The last
  conjunct of the property is a fact about filters only (`RecoveryFinds`).
  `PinsAreKept`: a pinned card stays pinned until another one opens, something is pressed
  or clicked, Escape, or new filters. The property once said that a pinned card stays or
  all are closed, which closing the pinned one always satisfies; the attempt to prove it
  showed that, and it now names the causes.
* **API search** (`SiteProofs`): `ApiSearchIsSafe`, from `TabOK`, `ControllerOK` (a
  controller is on the present root, mounted once; a timer runs for it only), `FieldOK`
  and `AddressOK` (before a mount nothing was entered, unless early). With it,
  `RecoveryLeadsBack`: what an empty state offers leads to results and keeps what it can.

* **Filters** (`SiteProofs`): `FiltersAreSafe` for any addresses and histories, and the
  action property `ReturningKeepsHistory`. The invariant `Coming` says what the navigation
  under way will bring when it lands, `Connected` what the element and its requests agree
  on, `OthersUnowned` that entries of other pages are never marked. A handler is a
  composition (`MarkEntry`, `ReplaceState`, `FilterRequest`, `Write`, `RestoreCurrent`,
  `MoveToLocation`), so each part has a lemma that says what it returns.
* **Resources** (`SiteProofs`): `ResourcesAreSafe` for any resources, words, arrivals and
  page size. `BrowserInv` says where what is shown comes from: a search was rendered, its
  page clamped and the result written to the address. The six properties are facts about
  such a page: a state and an address are written into each other (`ReadWritten`), the
  ranks of what is found are one to its number (`RanksAre`, by cardinality, as sorting is
  by rank), the pages cut it without loss (`CutAt`, `PagesSuffice`, `Cuts`), and the pager
  has the neighbours of a page (`PagerDoes`). `PartsMakeAll` says what a flattened list of
  pages holds. One case the proof found: with no resources at all no button can
  help, so `RecoveryHelps` asks for one. `OrderIsKept` is the action property;
  `AddressIsSafe` joins filters and resources as the run does.
* **Tour** (`WidgetsProofs`): `TourIsSafe` for a tour of any length. Its invariant
  `TourIInv` says that the tour is sound (`TourSound`: index, list and mode fit each other,
  the steps shown are of the running list), that its label was true for the page it was
  told of (`Told`), and that what is on the screen is apart from the tour's place only
  after one of the few ways to stray the code has. The lemmas say what each function
  of `site-tour.ts` does to a tour; a handler is a composition of them. A list of steps is
  a set, and a position in it a count, so the lemmas about lists (`AtIsThere`,
  `PositionFinds`) argue by cardinality, and by the least number with a property
  (`LeastNatural`, from the library's well-founded minima) where induction would be used.
  `TourKeepsItsPlace` is the action property.
* **Geometry** (`WidgetsProofs`): `GeometryIsSafe`, by arithmetic over all integers: the
  hole is clamped into the viewport (`HoleDoes`), four segments tile the rest
  (`SegmentsTile`), and the card fits where it is put (`CardDoes`).
* **Pivots** (`WidgetsProofs`): `PivotsAreSafe` for any pages, selectors and links. Two facts
  carry it: a selector that was initialised is in step with address, storage and tabs
  (`InStep`), and a wish is stored (`WishStored`), which is what the next page reads.
  `FloatingIsSafe` needs `Standing`: each timer and flag is about an expansion that stands.
* **Viewport activation** (`WidgetsProofs`): `ViewportIsSafe` and `OnceIsOnce`; `TargetOK`
  says of each observed target that its caller knows how it stands, that it is up to
  date or about to be looked at, and that its delay is about the present view.
* **Banner** (`WidgetsProofs`): `BannerIsSafe` and `BannerIsKept`. `FirstViewKept`: what is
  stored as the first view is a time only if the banner was shown, and the first one
  unless the clock was set back; `DismissalKept`: what can be stored of a dismissal is.
* **Builder preview** (`WidgetsProofs`): `LastClickIsShown` and `MotionIsStopped` for any
  examples and clicks. `EditorOK` (`Asked`, `RestsRight`): a request sets what is wanted and what is to
  be announced together, and every way the loop can come to rest ends with both. Each
  function of the loop has a lemma (`LoopDoes`, `NextEditDoes`, `ProcessDoes`).
* **Languages of a document** (`WidgetsProofs`): `LanguagesAreSafe` for any documents and
  includes, with cycles. `LanguagesInv`: the visits are a path of includes without
  repetition, each has found what the nodes before its place give (`Visited`), and what is
  remembered of a document is closed under includes and all that it reaches
  (`CacheComplete`). `Reached` is the least closed set, so that no induction is needed.
* **All widgets** (`WidgetsProofs`): `WidgetsAreSafe` and `WidgetsAreKept` are the properties the run checks, for
  `WidgetsSpec`, the conjunction of the widgets' specifications.
* **OG Viewer panel** (`ViewerProofs`): `PanelIsSafe` for
  `PanelSpec`, any URLs, pages, files and bounds. Each part has an invariant of its own:
  * title (`TitleIsSafe`): when loads wait for one another, one thing at most is under way
    (`Alone`), and a load that will open the panel again was paid for by a visit (`Paid`);
  * Browse frame (`BrowsingIsSafe`). `Believed`: what the frame is believed to show it
    shows, or a navigation or a message that will make one is under way. When loads do not
    overlap, `Phase` names what can be under way at once: one load (`Reaching`), one
    followed link (`Followed`), or echoes that all lead to one page t (`Settling`), which is
    why rendering a page that reports itself ends;
  * diagnostics (`DiagnosticsAreSafe`). `Begun`: every load that began is under way, waits
    for its transition, was drawn or failed. `Probing`: an answer that would still be shown
    was asked for the page that is. `ButtonOK`: a disabled button has one outcome to come,
    or one to take away;
  * tabs, layout, footer (`ChromeIsSafe`, and the action property `ChromeIsRemembered`).
    `LastAsked`: the tab a key chose is active or the last that a transition will activate.
    `Restorable`: the storage follows what is shown;
  * code card (`CardIsSafe`). `FilledByLast`: only the answer to the last request may fill a
    card that is seen, and one that says it loads has such a request. `PointerHolds`: a
    timer or the pointer is there for it.
* **OG Viewer fetch** (`ViewerProofs`): `FetchIsSafe` for any origins, scopes and limits.
  `Selected`: as long as the selected origin is kept, no other was contacted. `Capped`: a
  hop that was fulfilled is over, and what it received is within the cap.
* **What the OG Viewer reads** (`ViewerProofs`), for any tags, hosts, answers and texts:
  * markup of the code card (`MarkupIsKept`). `MarkupInv`: the loop is in the text or at its
    end, and what was put out is the text before it. Of the branches only the one for
    expressions puts out characters of its own, two braces; `ClosingBrace` says that the
    text has them there: where the closing braces first catch up with the opening ones,
    the last character counted closes (`Crossing`);
  * imports of a proxied page (`ImportsAreInPlace`): what the proxy makes of a URL is taken
    apart again (`Decoded`), and going up from a file of the proxy stays behind its prefix
    (`AbovePrefix`);
  * metadata and readiness (`MetadataIsSafe`, `ReadinessIsSafe`): a report is made once, of
    what was read;
  * `ViewerIsSafe` joins them with the panel: it is the property the run checks.

* **Data scripts** (`ScriptsProofs`). The scripts share no state while they run, so each has
  an invariant of its own:
  * integration catalog (`CatalogIsSafe`, with `ReleaseKeeps` and its one exception): what is generated is `Made` of the world as it
    was read, and stays that until it is saved, whatever is released meanwhile
    (`CatalogInv`);
  * CLI schemas (`CopiesAreServed`, and `CopiesStayFrozen`). While the releases are listed
    page by page, those that are due have been found or are further down (`Below`),
    wherever new ones were put on top; `PageIsRead` takes this over one page;
  * samples (`SamplesAreSafe`, and `ImagesAreRight`) for any samples, READMEs and degree of
    concurrency: `Gathered` says of each worker what of its sample it has read and saved,
    `ListedWell` of each sample of the file that thumbnail, images and AppHost are of one
    README and tree, and a listed local image is on disk whichever download failed;
  * blog (`SnapshotStaysWhole`): `BlogInv` carries the total of the first page to the
    rename, so that what replaces the snapshot is as long as was announced;
  * resource directory (`DirectoryIsSafe`, and `FirstStaysFirst`) for any documents,
    integrations and feeds. `Stored`: an entry is found under its id and its destination;
    `Leading`: what holds a destination came first of those that lead there; `Pathed` and
    `Mapped`: what the tables of pages and of mappings can hold in each phase; `MappedIsMerged`: an
    integration that a page documents is in its entry. `AddKeeps` is the lemma about the one
    function that stores or merges;
  * social cards (`CardsAreSafe`): a card in the output, taken from the cache or drawn, is of the
    entry and the assets of today (`IsCardOf`, `CardInv`), and the two computations of where a card is
    agree (`ImagesAreNamed`);
  * regeneration (`RegenerationIsSafe`, and `LastGoodIsKept`) for any packages, breaks and
    aborts. `Staged` says for each phase of the job what its working copy is of: what is
    pushed is `Sound` and `Keeps` the last good pages of what failed; `Tracked`: the issue
    is open exactly while the last job that finished had failures;
  * twoslash declarations (`BundleIsSafe`): the bundle is `Drawn` from the modules, and what
    either script takes for a type is what some module says of it (`DtoOfSome`,
    `ParentsOfSome`, by the least position in its order). So the validator, which sorts file
    names by locale where the generator sorts them by code units, rejects a type only if two
    modules describe it differently, and never an enumeration. The run has two modules of the
    repository which the two sort differently, `Kind` and `k6`, where this does happen;
  * IndexNow (`KnownPagesWereTold`, `PassesCover`) for any pages, budgets and limits.
    `Followed`: the state of the last run knows what the engines were told; `Passed`: a pass
    has sent everything up to its cursor that was there since it began; `OneState`.
    `TakenFirst` says that what is sent of a pass is its beginning. The proof found that
    `KnownIsTrue` was false beyond the bounds of the run: a page that was not sent yet, leaves the
    sitemap while the pass goes by and comes back before its removal was sent counts as
    known and waits for the next pass (it takes more removed pages than a run may send;
    `indexnow.ts:70` says the known pages "were submitted or are left to the pass in
    progress"). The history variable `returned` names this corner;
  * `ScriptsAreSafe` and `ScriptsAreKept` are the properties the run checks, for
    `ScriptsSpec`, the conjunction of the scripts' specifications.

Only model-checked, because the prover cannot reach them: liveness under fairness
(`WorkersConverge`, `LeadersProceed` and all `...Converge`, `...Converges` and `...Proceeds` properties;
what `SiteProceeds` says of single steps is proved: `OnlyCurrentShown`,
`ReturningKeepsHistory`, `OrderIsKept`, `PinsAreKept`, and of `ViewerProceeds`
`ChromeIsRemembered`); everything about modules with `RECURSIVE` operators; and what a
recursive function or a sort computes for every input: `PagesSafe` (the renderers),
`DerivedFaithfully` (the two recursive shapes, and the order of versions and posts), and
`EditorSafe`: that the edits of the builder preview lead from one example to the other
is what a table of longest common subsequences, recursive in two places, computes. Of
`CalmSafe` the two further instances of the panel (`Calm`, `Steady`) are instances of
`BrowsingIsSafe` and `CardIsSafe`; only model-checked is that the general tokenizer and
the one for Markdown read a file as its language would, which is about what recursive
functions compute. The sorts that proofs do argue about are written so that the prover
can see them: a list is a permutation that is in order, or a rank.

A note for whoever extends the modules: the parser takes `UNION A \union B` for
`(UNION A) \union B`, the prover for `UNION (A \union B)` (`SUBSET` likewise). Both
are given parentheses throughout.

## Not modelled

Serialization, hashing and signature checks, logging, HTTP status mapping, sizes and
delays of the jittered backoff, counters overflowing (`long` versions). Redis is one
linearizable server that loses at most a whole key. The end of the host is modelled for
leadership and sockets: everything a broadcaster holds dies with its process, and a new
one starts in `Init`. Configuration, middleware order of a request, Markdown
negotiation, telemetry, the AppHost, the .NET generators, sidebars and other tables, the
contributor scripts, remark plug-ins and the small renderers are listed in
`PROJECT.json` with the reason.

## Plan

1. A composition of `LiveStatusStore` with several replicas through pub/sub.
2. The cards and the raw view of the OG Viewer's panel, and the signatures of the
   twoslash generator.
3. Proofs about the order of what is sorted (`NoneNewer`, `Sorted`), by rank as for the
   resource browser.
