# A verification project for the HubSpot–OXID contact sync

TLA+ models of the integration service in this repository, the TLC runs that
check them on small instances, and theorems about them checked by TLAPS. All
source paths are relative to the repository root; the service itself lives in
`src/`.

## 1. The system

The service couples one HubSpot portal with one OXID shop per tenant
(`Integration`). Events from either side are written to a durable job table and
acknowledged at once; polling workers take jobs, read the record, compare its
content with what was last synced, write the other side and remember the
result. A sweep every 15 minutes lists recently modified records and enqueues
what the webhooks may have missed.

| Component | State it keeps | Operations | Talks to |
|---|---|---|---|
| Job queue `src/db/repositories/syncJobs.ts` | table `sync_jobs`: status, attempts, runAfter, lockedAt, lockedBy, payload | enqueue, claimNext, markDone, markFailed, reclaimStale | database |
| Sync worker `src/sync/worker.ts` | `ticking`, `stopped`, the job in hand | start, stop, tick, process | queue, contact sync, closed orders |
| Webhook receivers `src/hubspot/webhookRoutes.ts`, `src/oxid/webhookRoutes.ts` | none | verify, parse, enqueue, answer | queue |
| Contact sync `src/sync/syncContact.ts` | none of its own | hydrate, find or create the mapping, loop guard, write, link, record | both clients, entity mappings, company sync |
| Entity mappings `src/db/repositories/entityMappings.ts` | table `entity_mappings` with three unique keys, last hash | create, linkCounterpart, mergeMappings, recordSync | database |
| Company sync `src/sync/syncCompany.ts` | table `company_mappings` | upsert by name, associate | HubSpot client |
| Closed orders `src/sync/processClosedOrder.ts` | none | ensure contact, create deal and line items | HubSpot client |
| Reconciliation `src/jobs/reconcile.ts` | `lastReconciledAt`, the overlap guard `running` | runReconcileOnce, reconcileIntegration, enqueueIfChanged | both clients, queue |
| Token services `src/hubspot/tokenService.ts`, `src/oxid/tokenService.ts` | token columns of `integrations` | get a fresh token, refresh | OAuth endpoints |
| Pairing `src/oxid/oauthRoutes.ts`, `src/hubspot/oauthRoutes.ts` | `integrations` row, signed state, session | install, connect, callback | OAuth endpoints |
| Field maps `src/sync/fieldMap.ts`, `src/sync/tenantFieldMap.ts` | `fieldMappingJson` | normalise, map both ways, hash, suggest and repair a map | – |
| Settings pages `src/oxid/mappingRoutes.ts`, `src/hubspot/settingsRoutes.ts`, `src/oxid/connectRoutes.ts` | none of their own | save a map, restore the default, start the shop's OAuth | `integrations` row |
| Clients `src/hubspot/client.ts`, `src/oxid/adapters/oxapiClient.ts` | none | calls on the two systems | token services |

Two kinds of process run this code: the web process (`src/server.ts`: routes,
one worker, the sweep) and any number of standalone workers (`src/worker.ts`:
one worker, the sweep). They share the database and nothing else, so everything
between two `await`s is atomic and everything between two statements is not.

What is hard here:

* **Interleaving.** enqueue is a read and then a write, claimNext a transaction
  on a snapshot, markFailed a read and then a write, and all of them run in
  several processes at once.
* **Failure.** A worker may die between any two statements; any statement may
  be refused; a request may fail after it has enqueued; senders repeat what was
  not acknowledged.
* **Time.** A lock is given up five minutes after it was taken, whatever its
  holder is doing; no outside call has a timeout of its own below that.
* **Echoes.** Every write to one system comes back as an event of the other.
* **No transaction spans two systems.** A job can fail after its first outside
  write, and a retry repeats it.
* **Tokens that are used up.** A shop may replace a refresh token when it is
  used; the row then holds a dead one until the new pair is stored, and the map
  of refreshes in flight that is to prevent a second use is one per process.

What makes each component correct:

* queue and worker: an event that was acknowledged is synced or is found on a
  failed job; a row is processed by one worker; retries end; settled jobs stay
  settled;
* entity mappings and contact sync: one mapping per contact; a skipped echo
  means that both sides agree; edits that stop lead to agreement;
* company sync and closed orders: one company per name; an order gets its deal
  with all items, once, and no failure of its company stands in the way;
* reconciliation: no change falls between two windows;
* token services: a tenant is not locked out by two refreshes, and who waits for
  a refresh gets a newer token than the one it found expired;
* pairing: one shop per portal and one portal per shop, and URL, client and
  tokens of a row belong together;
* field maps: a contact survives a round trip, so that an echo hashes alike, and
  what was read from a shop's record can be written back to it.

## 2. The modules

| Module | Role |
|---|---|
| `ChangeDelivery` | abstract specification: what the queue promises to the systems that send it events |
| `SyncQueue` | the job table, the senders and the workers, one action per statement |
| `SyncQueueProperties` | the properties, the refinement mapping to `ChangeDelivery`, the inductive invariants |
| `MCSyncQueue` | model values and symmetry for TLC |
| `SyncQueueProofs` | TLAPS: types, ownership of rows, the retry budget, settled jobs; a done job has seen all that was acknowledged onto it; the safety half of the refinement |
| `EntityMappings` | the table `entity_mappings`: its keys and its statements, as operators |
| `ContactSync` | `syncContact` in both directions, with both systems and the echoes of its writes |
| `ContactSyncProperties` | agreement, the loop guard, the mapping rows, termination |
| `MCContactSync` | symmetry for TLC |
| `ContactSyncProofs` | TLAPS: types, and that synced rows are linked on both sides |
| `ContactPersonProofs` | TLAPS: while no email changes and nothing is deleted, one complete row per person, of one person, that keeps its contact |
| `ContactSerialProofs` | TLAPS: one job at a time without failure, agreement, the loop guard, and that the last edit prevails |
| `Reconcile` | the sweep: window, watermark, pages, comparison with the last hash, failures |
| `ReconcileProperties` | what the sweep finds, and the invariant behind it |
| `MCReconcile` | the instances for TLC |
| `ReconcileProofs` | TLAPS: types, and that nothing falls between two windows |
| `ClosedOrders` | companies, deals and line items: what jobs do besides the contact |
| `ClosedOrdersProperties` | what an order leaves behind, and the invariant behind it |
| `MCClosedOrders` | the instance for TLC |
| `ClosedOrdersProofs` | TLAPS: types, deals, and what a company's failure may cost |
| `TokenService` | the two token services, with their in-flight maps and the sites they ask |
| `Pairing` | installation, the start and the callback of the shop's OAuth, on the same rows |
| `PairingProperties` | tokens that work, rows of one shop, and the invariants behind them |
| `MCPairing` | the instance and symmetry for TLC |
| `PairingProofs` | TLAPS: all of these properties |
| `FieldMap` | a field map and what is read, written and hashed through it, as operators |
| `FieldSync` | one person, field by field: edits, maps and the syncs of both directions |
| `FieldProperties` | echoes, agreement of fields, the end of echoes |
| `MCFields` | words, maps and edits for TLC |
| `FieldProofs` | TLAPS: types, that HubSpot's echo is skipped, that the fields agree, and how few echoes there are |

### SyncQueue

Each column of `sync_jobs` is a function from row ids, `1 .. created`, in the
order of `createdAt`; `key` stands for `integrationId` and `dedupeKey`. The
content of a source record is reduced to its *version*, the number of edits so
far: enough to say whether a sync has seen a change. A payload is a version
(an OXID user, an order, a record listed by the sweep) or `0` for an id alone
(HubSpot contacts), which `Hydrate` resolves to the version the source holds at
that moment.

Time appears as two facts, `due[j]` (runAfter has passed) and `stale[j]`
(lockedAt is older than `STALE_LOCK_MS`). `BecomeStale` may strike a row nobody
holds at any time; a row in hand only if `SlowWorkers` is set, which is how the
assumption "no live worker outlasts its lock" is made visible and can be
dropped.

| Action | Code |
|---|---|
| `EnqueueFind`, then `EnqueueFold` or `EnqueueCreate` | `enqueue`, its findFirst and its update or create |
| `EnqueueError` | the request fails at either statement; the event stays with its sender |
| `ReclaimStale` | the start of `tick` |
| `ClaimBegin` | the snapshot of `claimNext`: due candidates and keys being processed |
| `ClaimSkip`, `Claim` | one candidate: `blocked` or `count !== 1`, or the successful updateMany |
| `TickEnd` | no job, the batch is used up, or the catch of `tick` |
| `Hydrate`, `Sync`, `SyncThrows` | the work of `process` |
| `MarkDone`, `MarkDoneThrows` | `markDone`, and its failure, which the same catch treats as a failed sync |
| `MarkFailedRead`, `MarkFailedWrite`, `MarkFailedThrows` | the two statements of `markFailed`, and its failure |
| `Crash`, `Stop`, `Restart` | process death, SIGTERM, deployment |
| `Edit`, `Sweep` | the outside: an edit with its event; a record listed by the sweep |

`covers` and `synced` are ghosts: the newest version acknowledged onto a row,
and the newest version a finished sync has worked with. `faults` counts crashes,
stops, refused statements and overdue locks, so that properties can say what a
fault may cost.

### EntityMappings and ContactSync

`ContactSync` is one tenant: its HubSpot portal (`hub`), its shop (`shop`), its
mapping rows (`rows`, a function from row ids, `None` where there is no row),
and the contact jobs. The queue appears as `SyncQueue` leaves it: a set of
pending jobs in which a new event replaces the payload of a pending job of its
key, no key in work twice (the exclusion `KeyExclusion` of the queue, which
can fail, is taken as given here, so that what is found here does not rest on it), and a
failed job pending again, behind any other. Giving up after `maxAttempts` is
`SyncQueue`'s; a job given up because its error is not retryable is kept in
`failed`.

A contact has an email, a *name*, which stands for all fields mapped both ways,
a *firm*, which stands for `company` (read from the shop, hashed, but not
written to HubSpot contacts), and the shop's object id (`ox_user_id`, `oxid`).
The hash is taken to be free of collisions, so the content itself is stored in
its place. `null`, `undefined` and `''` are one value, as they are for the hash.
`Gone` is a deleted record, `None` one that does not exist yet.

A worker's local variables are variables of the model, and each `await` is a
step of its own:

| Action | Code |
|---|---|
| `Claim` | `claimNext`, as shown in `SyncQueue` |
| `HydrateNothing`, `Hydrate` | `hydrate`; deleted, not found, without email |
| `FindFirst`, `FindSecond`, `MergeFound` | the queries of `findOrCreateMapping`, and its merge |
| `Insert`, `InsertClash`, `Raced` | `createMapping` and its answer to P2002 |
| `LinkRow`, `Collide`, `Absorb`, `Relink`, `Linked`, `Reread` | `linkCounterpart`: updateMany, the rows that own a key, their merges, the second updateMany, findById; it is called to adopt a row found by email (`dest` is `None`) and to complete the mapping after a write |
| `MappingThrows` | what these statements throw when a row is gone or a key is taken again |
| `Skip`, `Proceed` | the loop guard |
| `LookHub`, `SearchHub`, `CreateHub`, `CreateHubConflict`, `UpdateHub`, `UpdateHubRefused` | `writeToHubspot` and the calls of the HubSpot client |
| `UpdateShop`, `UserNotFound`, `InsertShop`, `InsertShopRefused` | `writeToOxid` and `upsertCustomerByEmail` |
| `RecordSync`, `Finish` | `recordSync`; the audit entry and `markDone` |
| `Fail` | any call or statement fails, before or after it took effect, or the process dies; the job is put back or, if the error is final (a 4xx, an integration that is not active), given up |
| `HubCreate` … `ShopAgain` | people: `Kinds` says which edits an instance allows |

Every write to a system, ours or a person's, sends that system's event
(`SaveHub`, `SaveShop`): HubSpot reports creations and changes of mapped
properties; for the shop `PushAlways` chooses between a push on each save and a
push on changes, both of which `docs/oxid-module-contract.md` allows, and
`CarriesId` says whether the payload holds `oxid`. A transaction
(`mergeMappings`) is one step. The shop's answer to an update or an insert names the
user's `oxid`, also where `syncContact` would cope with one that does not
(`src/src/sync/syncContact.ts:326`).

`touched` and `last` are ghosts that follow one person, the constant `Followed`
(an email, or `None` where no property of the run needs them): the systems that
person was edited in since all was quiet, and the name set last. `touched` also
notes an "echo" of a write to the shop whose event carries other values than the
hash that recordSync stores (`Distorts`): the shop has just assigned an id, the
user has a company that the HubSpot contact does not hold, or an empty value was
not sent.

### Reconcile

`Reconcile` is one tenant as a pass of `runReconcileOnce` meets it. Each record
has what it holds (`content`), its modification time by the clock of its own
system (`stamp`, up to `Skew` off), the payload of its pending job (`queue`) and
the hash of its last sync (`hash`, again the content itself). Time is a counter
that `Tick` advances; `Overlap` and `Lookback` are the two constants of the
code. A sync is one step, since the inside of a sync is `ContactSync`'s; the
echoes it causes are not repeated here. An edit may lose its event, which is
what the sweep is for.

| Action | Code |
|---|---|
| `Begin` | `runReconcileOnce`: the overlap guard `running`, `now` |
| `ListActive` | `listActive`, which reads the watermark, and `windowStart` |
| `Page` | one request of the search in `listModifiedSince`: oldest first, behind the cursor, up to `MaxPages` |
| `Consider`, `Enqueue` | `enqueueIfChanged` for one record, with the fields read by the scan: the mapping and its hash; and, an await later, `enqueue`, whatever was synced in between |
| `ContactsDone`, `ListCustomers`, `CustomersDone` | the other half of `reconcileIntegration` |
| `ScanFails` | the catch of either side |
| `SetMark` | `errors === 0` and `setLastReconciledAt` |
| `PassFails` | a statement outside these throws, or the process dies |
| `Edit`, `Sync`, `Tick` | people, the worker, time |

The search cursor is taken to be stable: a contact modified during the scan
moves to the end and moves nothing else. The ghost `cut` records that a scan
stopped at `MaxPages` with contacts left.

### ClosedOrders

The jobs of orders (`processClosedOrder`) and the tail of customers' jobs
(`syncCompanyFromContact` after the contact is written) meet on the companies of
one portal, so that one module holds both. Of the queue there is each job's
status and attempts, a claim, and the verdicts of `process`; an event is a job of
its own, and `firm` is the company its payload names, or none. A company's name stands for its `companyKey`, a *detail* for its other
fields, and the hash is again the content itself. A deal is the company it names
and the number of its line items.

| Action | Code |
|---|---|
| `Event`, `Claim` | the routes' `enqueue`; `claimNext` and the branch of `process` |
| `FindContact`, `CreateContact` | `ensureContactFromOrder` |
| `NoCompany` | `skipped_no_company`: the payload has no company |
| `FindRow`, `CreateRow`, `RereadRow` | `findByCompanyKey`; `create`; and, after P2002, the row that is there by then, which is read once |
| `GetCompany`, `SearchCompany`, `UpdateCompany`, `CreateCompany` | `writeCompanyToHubspot` and the calls of the client |
| `LinkCompany`, `RecordCompany` | `upsertByCompanyKey`, `recordSync` |
| `Associate` | `associateContactWithCompany`, whether or not it throws |
| `CompanyFails` | anything that throws in the upsert, and the catch around it |
| `CreateDeal`, `CreateLineItem`, `Finish` | the rest of `processClosedOrder`; `markDone` |
| `JobFails`, `DealRefused` | what throws outside that catch, and `markFailed` |
| `Die` | a worker dies; `reclaimStale`, as shown in `SyncQueue` |
| `Rename`, `Delete` | people |

`lost` is a ghost: the attempts of a job that failed outside the company's
upsert, or whose worker died. A call has one effect or none; that its answer is
lost after the effect is a failure of the next step, which leaves the same state.
Whether the HubSpot SDK (`numberOfApiCallRetries`) repeats such requests by
itself is not to be seen in this repository and not modelled, and neither is the
delay of HubSpot's search index.

### TokenService and Pairing

An account is a tenant with a side, HubSpot or OXID: the two services are one
algorithm over different columns. A pair of access and refresh token is the
number of its issue; it is always issued, read and stored as a pair. `at` is the
shop whose base URL and client credentials a row holds. `Rotating` are the sites
that accept a refresh token once (in the instance the shops do and HubSpot does
not; the theorems hold for any choice). `call` is someone who needs a token, `flight` the `inFlight` maps, one
per process.

| Action | Code |
|---|---|
| `FindRow`, `GiveCached`, `Refresh` | `getValidAccessTokenForIntegration` and `…ForPortal`, `getValidOxidToken`: the row, the margin, and the look into `inFlight` with the entry made there, between which there is no `await` |
| `Exchanged`, `Refused`, `ExchangeFails` | `refreshAccessToken`, `refreshOxidAccessToken`: the new pair; a refusal; no answer, whether or not the site has replaced the token |
| `Store`, `StoreFails` | `updateHubspotTokens`, `updateOxidTokens`: by id, whatever the row holds by then |
| `Settle` | the promise is settled, and `finally` clears the entry |
| `Die`, `Expire` | the process with all it has in memory; an access token passes the margin |
| `Install` | `GET /oauth/callback` and `upsertFromHubspotInstall` |
| `StartOxidOAuth` | `startOxidOAuth` from the connect page or the settings: state signed, URL and client saved |
| `Callback`, `ExchangeCode`, `CheckConflict`, `AttachOxid`, `CallbackFails` | `GET /oxid/oauth/callback`, statement by statement; the unique key on `oxidShopId` is a guard of `AttachOxid` |

Expiry has one premise (`Expire`): the pair that someone is about to be given,
and what is newer, does not expire before it is given. A pair lives for the
`expires_in` of its site, less a margin of minutes; storing it takes seconds. `wasted` (pairs exchanged for one that a fault lost),
`crossed` (accounts where a refresh stored over another pair than it had read)
and `restarted` (tenants with a connection started and not completed) are ghosts:
they name what the properties except.

### FieldMap and FieldSync

`ContactSync` has one name for all that is mapped. Here a contact has the fields,
and both halves of a tenant's map matter: where a field is read in the shop's
record, and which property it has in HubSpot. A text is a sequence of words;
`Plain` is the spelling `normalizeValue` gives a word. Joining texts
(`formatOxidStreet`) is concatenation, so that a house number that is added twice
can be seen. A place is a row of the shop's record (the user, its first delivery
address, a nested object) and a column.

`Ensured`, `Scrub`, `Default` and `Suggested` are how maps come to be; `Offered`
are those people save, perhaps without some fields. `ReadBinding` follows
`readOxidBinding` branch by branch: a transform reads the columns it was made
for, whatever the row of the place that is bound. `Writable` is
`isWritableOxidUserPath`: a dotted path can be read but not written.

| Action | Code |
|---|---|
| `EditHub`, `EditShop` | people; HubSpot reports changes of watched properties only, the shop pushes the record |
| `SaveMap`, `UseDefaults` | `PUT /mapping` of the wizard and of the settings |
| `SyncToHub` | `hydrate` with `canonicalFromOxidUser`, the guard, `toHubspotPropertiesWithMap`, `recordSync` |
| `SyncToShop` | `canonicalFromHubspot`, the guard, `buildOxidUserRecord` and `updateUsers` by id, `recordSync` |

A sync is one step, since what can happen within one is `ContactSync`'s. So is a
person with another email: here the shop's user keeps email and id
(`FieldAssumption`), as the webhook refuses a record without an email
(`src/src/oxid/webhookPayload.ts:81-86`) and looks up another row for another one.
In HubSpot the email may be emptied. The leaves `oxtitle` and `oxtitle_1`, other
names for the country, and delivery addresses after the first are left out. The
ghosts are `writes` and `wrote`, the number of writes and where the last one
went, and `remapped`, whether a map was saved since.

## 3. What is checked

| Run | Question | Result |
|---|---|---|
| `queue_safety` | two workers, two senders, two rows of one record, one fault: ownership, completeness, budget, settled jobs | holds, 2.06 million states |
| `queue_liveness` | does every job settle, and is `ChangeDelivery` implemented? | holds, 194 thousand states |
| `queue_overlap` | slow workers, the sweep, up to two faults: what is left? | budget and termination hold |
| `lost_event` | is every event answered 202 synced, also those that carry fields? | violated |
| `contact_serial` | one job at a time: do echoes die out, do both systems agree then, does the last edit prevail, and is every skip a no-op? | holds, 130 thousand states |
| `contact_parallel` | two people, two jobs at once and a failure: one complete row each, of one person? | holds, 2.21 million states |
| `contact_wide` | two people, all kinds of edits, a failure: types, and are synced rows linked? | holds, 304 thousand states |
| `sweep` | edits, lost events, clocks, a failure: is every change in the next window, and found in the end? | holds, 1.05 million states |
| `orders` | an order with or without a company and two customers of two companies, two workers, people and a failure: deals, line items, what a company may cost, and does every job end? | holds, 949 thousand states |
| `pairing` | two portals, two shops, two processes: do stored tokens work, is what a caller gets newer, is a row of one shop and a shop of one portal? | holds, 1.64 million states |
| `fields` | edits of both sides under seven maps that change: is HubSpot's echo skipped, do fields agree, do echoes end? | holds, 203 thousand states |
| `house_number` | do echoes end also for an address with a number of its own? | violated |

The properties of the queue:

* **RowLock** – whoever processes a job owns its row. `markDone` and
  `markFailed` address the row by id alone; this invariant is what makes that
  right.
* **DoneCoversEveryEvent** – the fold of an event may hit a row that was
  claimed, or even finished, after the sender found it. For jobs that name the
  record only, the row is nevertheless never done before a sync has seen the
  event: the event is older than the fold's findFirst, which is older than the
  claim, which is older than the lookup.
* **RetryBudget** – attempts beyond the maximum are paid for by faults, one
  each. This is what remains of "gives up once maxAttempts is reached", and it
  survives slow workers.
* **SettledStays** – no late verdict reaches a row someone else has settled.
* **EveryJobSettles** – through retries, crashes and reclaims.
* **ImplementsDelivery** – refinement of `ChangeDelivery`: no acknowledged
  change is forgotten; each is covered or given up in the open.

The properties of the contact sync:

* **Agreement** – when all jobs are done, the two records of a person hold the
  same values in the fields mapped both ways. With one worker and no failure it
  holds even for edits on both sides; who wins is left open, since the code
  compares no timestamps.
* **LastEditPrevails** – if only one side was edited, the last edit wins. This
  is what the loop guard is for: without it the echo of an earlier write undoes
  a later edit (the mutant `AlwaysChanged`). It excepts the echoes that no hash
  could recognise (`Distorts`, see the limits below). It speaks of the followed
  person; with one email per person it says so of any.
* **SkipMeansNoOp** – relates the stored hash, the source and the destination
  at the moment of the guard.
* **OneRowEach**, **NoHalfMappedRows**, **HubLinkStays** – two jobs of one
  person, one per direction, have different keys and run at once; each may
  create a row, each then finds that the other holds a unique key, merges, and
  may find its own row merged away. However that goes, and wherever one
  statement fails, one complete row is left, which names the same contact.
* **RowsJoinOnePerson** – a row is assembled over many statements, each from what
  was read before: by HubSpot id, by email, from the answer of the shop, from a row
  that is merged in. Two people at once never get into one row. A search that
  finds a user without the email of the job (the mutant `AnyUser`) is enough to
  join them.
* **SyncedRowsAreLinked** – a hash is only ever stored on, or merged into, a
  row that names both records.
* **EchoesDieOut** – liveness: with nobody editing, the queue runs dry.

The properties of the sweep:

* **NothingFallsBetween** – relates the queue, the hashes, the modification
  times and the watermark: what is neither synced nor queued up to date is in
  the window of the next pass. A pass reads a record, is overtaken by an edit,
  and may put the older fields over the newer event; the edit is then only in
  the next window because the watermark is the *start* of the pass, less the
  overlap. With the end of the pass (the mutant `EndOfPass`) it is lost.
* **LostEventsAreFound** – liveness: if nobody edits any more, all is synced in
  the end, also what the webhooks missed and what one failing scan left out.

The properties of companies and orders:

* **DealsArePaidFor** – a deal has no key by which HubSpot could tell a retry, so
  "one deal per order" is not what the code gives. What it gives: a job makes one
  deal, and one more for each attempt that was lost, never more. It relates the
  deals to what happened to the queue, and rests on one worker having a row.
* **DoneOrderHasDeal** – an order whose job is done has a deal with all of its
  items, however many incomplete ones earlier attempts have left.
* **CompanyCostsNothing** – the promise of the log message "closed order: company
  upsert/association failed; continuing with deal": wherever the upsert fails,
  and whoever it meets on the row, the job neither fails nor loses an attempt –
  unless a company was deleted, see below.
* **EveryJobEnds** – liveness: also for workers that race for one company's row.
  Who loses asks for the winner's row once; if `create` answered the conflict by
  asking for a row of its own again (the mutant `CreateAgain`), it would be refused
  for ever, as rows are never deleted.

The properties of tokens and pairing:

* **TypeOK** – besides the columns' types, `IssueInv`: whoever works with a token
  has one, which was issued. A connection that has only been started has a URL and
  a client and no tokens yet: to take the client for credentials, where the code
  asks for the refresh token, sends nothing to the shop (the mutant `HasClient`).
* **StoredTokensWork** – relates the row, what the site has replaced, and the
  refreshes of all processes. `inFlight` holds within one process only, and a
  caller may have read the row long before it looks there; so a token is sent
  twice, and the second refresh is refused. That it does not lock the tenant out
  rests on the first one storing *both* tokens, and on nobody putting an older
  pair back.
* **RefreshedIsNewer** – also for a caller that joins a refresh begun before it
  came, or one that has stored its pair and not yet left the map.
* **RowIsOneShop** – the callback writes URL, client, id and tokens in one
  statement, from the signed state and not from the row, which another start may
  have changed since (the mutant `AsStarted`).
* **OneShopOnePortal** – the conflict check and the update of a callback are two
  statements; two portals may both pass the check. The unique key on
  `oxidShopId` stops the second, if shops report their id.

The properties of the field maps:

* **HubEchoIsSkipped** – a write to HubSpot is made from the shop's half of the
  map, its echo is read through HubSpot's. The two hash alike, provided that
  each field has a property of its own and that nothing was hashed which has no
  property (`NothingLeftBehind`).
* **FieldsAgree** – when all jobs are done, each field that has a property of its
  own, which HubSpot reports, holds the same on both sides, an emptied one
  included – after edits of both, folded events, and maps changed between a write
  and its echo. It excepts people without an email on either side, whom both
  directions pass over (`BothSyncable`), a map that was saved and not yet used
  (`remapped`), and a shop's id that HubSpot has lost, which is read elsewhere.
* **EchoesAreFew** – where the two hashes do differ (a company, a shared
  property, another spelling), the answers of both sides end all the same: four
  writes an edit, in whatever order the two sides are synced. It takes a map under
  which what is written of a field is read again (`SingleColumns`): no field
  is written to a column that another one is read from, and no house number stands
  apart from the street. Without the latter there is no end (`house_number`);
  without the former TLC finds more than four: a map that binds the first name to
  `oxcountry` and lets it share the property of the salutation costs 41
  writes for ten edits.

### Disagreements between code and documentation

1. `lost_event`: `src/docs/oxid-module-contract.md:155` tells the shop to
   consider an event answered 202 delivered. If the event is folded into a row
   between its claim and its completion, its fields are stored on a row that is
   then marked done.
2. `house_number`: `src/README.md:122-126` says that an echo hashes like the write
   that caused it, and `src/src/sync/hash.ts:8-11` that both systems give one hash for
   one person. The address is read as street and number
   (`src/src/oxid/fromOxidUserWebhook.ts:222`) and written back whole into
   `oxstreet`, while `oxstreetnr` stays: the next push reads the number twice.
   When the contact has a company, which is in the shop's hash and not in
   HubSpot's, no guard stops that, and each echo makes the address longer.

Both are defects. In (1) the change stays lost until the sweep finds it, and for
OXID the sweep finds nothing, because the adapter cannot list modified customers
(`ShopLists` FALSE). In (2) nobody need edit anything after the first two saves.

The preconditions of the passing runs mark further limits, which other
instances of the same modules show:

* with `SlowWorkers`, a worker that outlasts `STALE_LOCK_MS` shares its row, as
  the age of the lock is all that `reclaimStale` looks at; that is why
  `RowLock` and the theorems assume its absence;
* a job whose worker dies on the last attempt is claimed once more
  (`reclaimStale` does not count), hence the allowance of `RetryBudget`;
* with one failure, `Agreement` and `SkipMeansNoOp` are lost: a job that fails
  waits for its backoff with the payload it had, and a newer job of its customer,
  done in between, is overwritten by the retry;
* with a second worker and three edits both are lost as well: each job hashes what
  it read, while the other has already written something else;
* with `hubClear` and a shop that pushes changes only (`PushAlways` FALSE) both are
  lost with one worker too: an emptied field is part of the hash but not of what
  `buildOxidUserRecord` sends, and the shop sees no change to answer. With a
  shop that pushes every save, its answer brings the old value back;
* with `hubDelete`, `SkipMeansNoOp` is lost,
  since the guard does not look whether the mapped contact exists;
* with two workers and edits on both sides, `EchoesDieOut` is lost: two crossing
  writes swap the values, each echo finds the other's hash on the row, and they
  swap again;
* with a company deleted, `CompanyNeverCostsTheOrder`
  (`CompanyCostsNothing` without its premise) is lost: `companyId` comes
  from our own row (a company that was synced like this before is not looked
  up), the association with it fails and is caught, but the id is kept, and
  `createDeal` is refused for it (`src/src/sync/processClosedOrder.ts:84-110`). The
  deal does not "continue": the job fails, and each later order of that company;
* two workers, or a worker and a person, can leave two companies of one name;
* an order that is reported again after its job is done makes a second deal;
* two jobs of one key can be processed at once (`KeyExclusion`;
  `src/src/sync/queue.ts:5` says never): `claimNext` checks on the snapshot of
  its transaction, and two transactions that overlap pass the check for two
  rows;
* with `Backlog`, a job that waits longer than a sweep interval defeats
  `NothingFallsBetween`: the record matches its last hash, so the sweep passes it
  over, and then the waiting job syncs older fields. The watermark has moved on;
* two processes that sweep at once (the web process and a worker process do)
  defeat it as well: the fields read by the slower one are folded over newer
  ones, and the faster one has set the watermark;
* without `FirstPassInTime` the look-back of a tenant that has no watermark yet
  moves on with the clock while its passes fail;
* a changed email is not sent to the shop: `withUpdateIdentity` drops
  `oxusername` when the user's id is known;
* the user that `insertUsers` creates has an id the HubSpot contact did not have,
  so its echo hashes differently and is written back, over an edit made
  meanwhile; the same happens when a fault falls between the creation and the
  link, when the user has a company, and when an emptied value was left out of
  the write. `LastEditPrevails` excepts such echoes; with `"echo"` never noted it
  fails without any fault or second worker;
* a map that writes one field into a column that another field is read from makes
  echoes cost more than four writes an edit (see `EchoesAreFew`); the pages accept it;
* a scan that stops at its page limit (20 pages of 100 contacts) counts as clean,
  the watermark moves on (`src/src/jobs/reconcile.ts:129`), and the contacts behind
  the cut are not listed again unless they are modified; `NothingFallsBetween`
  excepts them (`cut`);
* `src/src/hubspot/tokenService.ts:14-18` and `src/docs/testing-checklist.md:13` speak
  of one refresh. Between two processes, or when a caller read its row before
  another's refresh was stored, the same refresh token is sent twice. A site that
  rotates refuses the second with a 4xx, which is not retryable: that caller's job
  fails, although the row has a good pair by then;
* with `ReportsId` FALSE, `OneShopOnePortal` is lost: the id is generated, the
  check is left out and the key compares nothing;
* a connection that is started and not completed leaves the new shop's URL and
  client beside the old shop's tokens in a row that is still active; until the
  person returns, every refresh goes to the wrong shop (`restarted`);
* a refresh of the old shop that ends after a callback has attached the new one
  puts the old tokens back (`crossed`);
* a map that is saved is not applied to what was synced: the hash holds values,
  not the map, so a record that does not change is skipped (`remapped`);
* a property that only a tenant's own map names is not watched, so its edits
  arrive with the next change of another property, or with the sweep;
* a value cleared in HubSpot is not cleared in the shop, and the next save there
  brings it back;
* a nested salutation (`salutation.title`) wins over the column that is written,
  and dotted places are not written at all, so such fields go one way.

### Bounds

One key suffices: keys meet only in a worker's batch, and no property relates
two of them. Two rows are needed for exclusion and for the race of two creates;
two versions for a change that arrives while an older one is processed; two
workers and two senders for every race here, since each involves one pair.
`MaxFaults` 1 or 2 allows each fault, and a fault during the recovery of
another. `MaxAttempts` 2 gives both verdicts of `markFailed`; `BatchSize` 1
ends a tick after one job. Every bound is a constant named in the guard it
limits.

For `ContactSync` one person (one id and one email on each side) is enough for
agreement and the guard; two names tell an old value from a new one. Two people
with two emails appear in `contact_parallel`, where their rows must stay apart,
and in `contact_wide`, where rows are looked up by keys that may have changed
hands; there a name tells nothing apart. Two edits
(`MaxEdits`) make a conflict, four let an edit fall into each phase of an
earlier one's echo, and a fifth sends an event again or empties a name. `MaxRows` bounds the rows ever
created; a job that found no id left would wait in `Insert` for ever. In
`contact_serial` and `contact_parallel` that never happens: with
a larger `MaxRows` they reach the same states. In `contact_wide` rows are merged
away and created again, so its fifth row is a cut; it checks only what holds
state by state, and the theorems below do without it. Deadlock is not
checked here: when the bounded edits are used up and all jobs are done the
system is at rest.

For `Reconcile` two contacts, at one a page, are needed for a scan that is
overtaken by an edit; one customer stands for the other side, which is a single
call. Two edits give a change whose event was lost and one that comes in during
the pass; two steps of the clock give a pass its duration and leave room for the
next. One fault fails a call, a side or a pass. All records begin with the
same value, since each is compared with itself only. TLC has also checked the
invariants from every initial state, and with them `SweepInv` (3.9 million states up to symmetry).

For `ClosedOrders` one order is enough, since orders share nothing but
companies; two customers make two upserts of one company meet (with the order's)
and one of another, into whose name people may rename it. The order may come
without a company (`MCFirms`). Two items tell the last
one from the others. Two attempts give both verdicts. Four companies
(`MaxCompanies`) are never used up by three jobs, one fault and one edit: each
job creates one at most per attempt. Customers' jobs begin where their contact is
written.

For `Pairing` two tenants and two shops make a conflict and a swap; three
accounts are the two shops' and one of HubSpot, whose tokens do not rotate; the
second HubSpot account would meet nothing that these do not. Two processes and
two callers make two refreshes of one account at once, or one that is joined; two
callbacks race for a shop or for a row. Three pairs (`MaxTokens`) are two
connections and a refresh, or one and two refreshes; beyond that a site stays
silent, which is a case of `ExchangeFails`. A state may be used again and again
(`Callback`), as it may in the code for ten minutes. The theorems do without all
of these bounds.

For `FieldSync` two words tell values apart and two more a spelling from its
normal form. Four edits (`MaxEdits`, maps included) put an edit of each side and a
new map between a write and its echoes. The seven maps are one of each kind: a
delivery address, a company as text, a field kept in the shop with another left
out, a shared property, no shop id, no email (refused), and the suggestion for a
shop that sends addresses apart. `house_number` is three edits under the default
map. The number is left to it: `fields` has no edit of `oxstreetnr`.

### Fairness

Workers: `setInterval` keeps ticking, and each call of a tick returns or
throws, so `WorkerStep` is weakly fair, including the restart of a stopped
process by its supervisor. Senders: a request runs to its end, and a sender
repeats what was not acknowledged. Clocks: `BecomeDue` and `BecomeStale` are
weakly fair. Nothing is assumed of edits, sweeps and faults, nor of whether a
sync succeeds: a job that fails every time ends as `failed`.

In `Reconcile` the passes of a process are weakly fair: `setInterval` comes
round, and each call returns or throws. So are syncs. Edits, faults and the
clock are not; faults are bounded, so that a clean pass comes in the end.

In `ClosedOrders` each worker is weakly fair (`WF_vars(Process(w))`); events,
people and faults are not.

In `ContactSync` each worker is weakly fair (`WF_vars(SyncContact(w))`): it
claims what is pending and every call returns. People and faults are not.

`Pairing` and `FieldSync` are checked for safety only and assume no fairness.

## 4. What is proved

### The queue

For every set of keys, workers and senders and every value of the bounds, from
`SyncQueueAssumption` and `NoneIsNoEvent` (types of the constants):

| Theorem | States |
|---|---|
| `TypeCorrect` | `Spec => []TypeOK` |
| `RowLockHolds` | `Spec => []RowLock` |
| `OneHandHolds` | `Spec => []JobInOneHand` |
| `RetryBudgetHolds` | `Spec => []RetryBudget` |
| `SettledStaysHolds` | `Spec => SettledStays` |
| `DoneCoversEveryEventHolds` | `Spec => []DoneCoversEveryEvent` |
| `QueueInvHolds` | `Spec => []QueueInv`, the inductive invariant |
| `QueueDelivers` | `Spec => Delivery!DeliverySafety`, the refinement without its liveness |

`TypeCorrect` and `RetryBudgetHolds` hold for slow workers too; the others assume
`~SlowWorkers`, because with slow workers a reclaimed row has two owners.

The argument. `RowLock` is not inductive: a reclaim could take a row in hand.
`LockInv` adds that the lock of a row in hand is young. `RetryBudget` needs
`BudgetInv`, which counts what is still to come. A row can be claimed again when
it is pending, or processing and reclaimable sooner or later (its lock is old, or
its worker is gone): that is one claim to come, and each worker that has decided
to put the row back (`Requeuers`) may bring one more. `ClaimsPaid` says that
attempts and claims to come together stay within the maximum plus the faults. It
is not inductive alone: a worker may decide to retry although others hold the row
too. `HandsPaid` says that hands on the row beyond the first were paid for, by the
fault that made the lock of a live worker old; a decision to retry, made on a count
below the maximum, is then within the budget whatever the other hands decide. The
step lemmas `PaidClaim`, `PaidVerdict`, `PaidSettle`, `PaidStale` and `PaidForget`
do the counting; the number of workers need not be finite. `DoneCoversEveryEvent` needs three
more facts, in `VersionInv` and `CoverInv`: events, rows and workers never hold
a version the source has not held; jobs of live keys carry no version of their
own; and what is true of a row's `covers` is true of the event of every sender
that has *found* the row and not yet written. The last is the point: a sender
that found the row pending may write at any later time, and the worker that
claimed the row in between is already bound to see the sender's event. The
step lemma `SeenEnoughStays` carries it through every action.

`QueueDelivers` maps each step of the queue to one action of `ChangeDelivery`: an
edit makes, a fold or a new row acknowledges, a sync that returns covers, a final
`markFailed` gives up, and the rest is not seen. It needs `VersionInv` (a promise
was made: `PromisesAreMade`; a sync has not seen the future) and `RowLock` (a
verdict is written on a row in hand, so that no failed row is taken back).

### The contact sync

For every set of records, emails, values and workers and every value of the
bounds, from `MappingsAssumption`, `SyncAssumption`, `RecordAssumption` and
`NoneIsNoRow` (types of the constants; `null` is no value):

| Theorem | States |
|---|---|
| `ContactTypeCorrect` | `Spec => []TypeOK` |
| `SyncedRowsAreLinkedHolds` | `Spec => []SyncedRowsAreLinked` |
| `KeysStay` | no step takes the HubSpot id or the email from a row that stays |
| `SyncInvHolds` | `Spec => []SyncInv`, the inductive invariant |

The argument. `recordSync` writes a hash by row id and looks at nothing else, so
`SyncedRowsAreLinked` is not inductive: it has to be known that the row has both
keys *by then*, although between `linkCounterpart` and `recordSync` any other
worker may have merged, linked or absorbed it. `SyncInv` says what a worker in
each phase may rely on:

* a row found or created by a worker has the key of the job's own side
  (`RowKeys`, `KnowsOwnKey`), and what `linkCounterpart` is about to write adds
  the other (`LinkCompletes`), so after it the row has both (`KnowsBothKeys`);
* each of these says "if the row is still there". A merged row's id must then
  never come back as another row, or a late `recordSync` would reach a stranger:
  `RowsAreMade`, with `row[w] <= made`, is the fact that ids are not reused;
* one lemma per statement on the table (`UpdateFacts`, `MergeFacts`,
  `InsertFacts`, `RecordFacts`) shows that it keeps the keys of every row that
  stays (`KeepsKeys`), and `WorkerStays` turns that into: what one worker does
  leaves the facts of every other intact.

`WorkerStepInv` combines them; each action then needs one lemma about its own
worker only. TLC checked `SyncInv` as an invariant of the instances of
`contact_parallel` and `contact_wide` before it was proved.

### One row per person

From the same assumptions, for the constants that satisfy `Steady`: nobody
changes an email or deletes a record, everything else may happen:

| Theorem | States |
|---|---|
| `RowsJoinOnePersonHolds` | `Steady => (Spec => []RowsJoinOnePerson)` |
| `HubLinkStaysHolds` | `Steady => (Spec => HubLinkStays)` |
| `NoHalfMappedRowsHolds` | `Steady => (Spec => []NoHalfMappedRows)` |
| `OneRowEachHolds` | `Steady => (Spec => []OneRowEach)` |
| `PersonInvHolds` | `Steady => (Spec => []PersonInv)`, the inductive invariant |

`Steady` is not a convenience: when an email changes hands, a job of the shop
finds the row of the person who had it, and when a contact is deleted, its row
waits for an event that HubSpot does not send. The run `contact_parallel` is an
instance that satisfies it.

The argument. Without such edits a person *is* an email, and a record belongs to
one person from its creation on. `PersonInv` has two halves:

* *Belonging.* `KeysOf` says of anything with keys – a row, the copy of it that a
  worker read, the columns a worker is about to write – that they are keys of one
  person. `PersonRows` says so of each row and `PersonHand` of what each worker
  holds, including the second row that it found and is about to merge. A merge
  then joins rows of one person, as both have a key of the job; and as HubSpot
  has one contact per email (`OneEach`), two rows of one person that both name a
  contact name the same one, so that a merge or a link takes it from none. This
  is `RowsJoinOnePerson` and `HubLinkStays`.
* *Somebody sees to it.* `ContactsOpen` and `RowsOpen` say that a contact without
  a row, a row without an email and a row without a contact each have a job that
  waits, is in work or was given up. A job leaves that set only when it returns,
  and it returns only after a hash: read with the row by the guard, or just
  recorded. For that, `PersonHand` carries `Complete`: who has seen a hash, or has
  linked, knows that this person has a row with both keys, and no step takes it away
  (`Grow`, proved of every step: no row changes its person, a person with a complete
  row keeps one, a contact with a row keeps one). With all jobs done nothing is open, which is
  `NoHalfMappedRows`, and then `UniqueKeys` makes the row the only one, which is
  `OneRowEach`.

There is one lemma per action, which proves `PersonInv'` and `Grow` of it. TLC
checked `PersonInv` on the instance of `contact_parallel`, and on one that pushes
on every save (3.3 million states), before it was proved.

### One job at a time

From the same assumptions, for the constants that satisfy `Steady` and `Serial`
(one worker, no failure, and a shop that pushes every save):

| Theorem | States |
|---|---|
| `AgreementHolds` | `Spec => []Agreement` |
| `SkipMeansNoOpHolds` | `Spec => [](failed = {} => SkipMeansNoOp)` |
| `LastEditPrevailsHolds` | `Spec => []LastEditPrevails` |
| `SerialInvHolds` | `Spec => []SerialInv`, the inductive invariant |
| `LastEditInvHolds` | `Spec => []LastEditInv`, the inductive invariant of the ghosts |

Each part of `Serial` is needed: TLC finds `Agreement` and `SkipMeansNoOp` violated with a second
worker, with one failure, and with cleared fields that the shop does not answer (see
the limits above). People remain free: contacts without an email, edits and
clearings on both sides between any two steps of the job, events sent again,
any number of persons. With a shop that pushes changes only and no cleared field
TLC finds no violation on the instance of `contact_serial`; that is not
proved. A job that is given up leaves its change behind (`InsertShopRefused`: the shop's
user was created between the search and the insert), so `failed = {}` is part
of the statements; in `Agreement` it is part of `AllSynced`.

The argument. The loop guard compares a record with the hash of its row only, so
what a hash says of *both* systems has to be an invariant. `HubHashed` and
`ShopHashed` say it: each record of a person has the value that was hashed, or
a job of its own waits or is in work. They are not inductive: recordSync makes a new
hash long after it read the one record and wrote the other.
`SourceTells` and `SentTells` bridge that: from the read on, and from the write on,
the record is still what the worker holds, or its job waits, since every edit in
between queued one. For the source of a shop job, which is the payload and not
what the shop holds when the job starts, `NewestWaits` does the same: an event
replaces the payload of the job that waits. For a write to the shop that
leaves out an empty value, the push that answers it is the job that waits;
this is where `PushAlways` is used. `RowInHand` keeps the row apart: it is the
person's only one, as it was read, so that nothing clashes, is merged, adopted or
raced for, and what is recorded is the hash of that person. With all jobs done, both records
have the value of one hash, and by `UniqueKeys` (from `PersonInv`) there is
only one: `Agreement`. A worker that skips holds the hash itself, and the other
side has it too or waits: `SkipMeansNoOp`.

`LastEditPrevails` needs to know why the side that was *not* edited does not have
its way, although it may still have a job, and although its record is the older
one. `LastEditInv` says it of whichever person the ghosts follow:

* `HubLeads`: after edits in HubSpot only, HubSpot's contact has the last name,
  and every job of the shop for this person carries a record that is already the one
  of the row's hash, or of the hash that the worker is about to store (`Told`). The
  loop guard will skip it, so it is never past the guard. An edit made
  while a write is under way does not break this: the answer to the write says what
  the write said, and that is what recordSync stores.
* `ShopLeads` is the same with the sides exchanged, with one way out (`HasFirm`): a
  contact of HubSpot never equals a hash with a company, so the job is not skipped
  but writes; then its answer is distorted, and the exception of the property holds.
* `FirmStays` says where such a difference can come from: the company of a hash is
  that of the user or none, and nothing changes the company of a user.

With all jobs done, the side that leads has the last name, `AgreementHolds` gives
the other the same one, and `RowsWhole` and `BothAreThere` say that there is
another one. When people edit both systems, or a distorted echo was noted, nothing is
claimed, and an edit after rest starts anew. `LeadSyncContact` and `LeadHubUser`,
`LeadShopUser` deal with the worker and with people, on lemmas per step.

TLC checked `SerialInv` and `LastEditInv` before they were proved: for one person with
five edits of all these kinds and for two people with four, with and without ids
in the payload (1.4 million states). To repeat that, let the module that a
configuration runs extend `ContactSerialProofs`, and name the invariant there.

### The sweep

For every set of records, any page size and every value of the bounds, from
`ReconcileAssumption`:

| Theorem | States |
|---|---|
| `SweepTypeCorrect` | `Spec => []TypeOK` |
| `NothingFallsBetweenHolds` | `Punctual => (Spec => []NothingFallsBetween)` |
| `SweepInvHolds` | `Punctual => (Spec => []SweepInv)`, the inductive invariant |

`Punctual` names what it takes: one process sweeps, jobs are done before the
next pass, clocks differ by no more than the overlap, a first clean pass comes
within the look-back, the shop can list its customers. The constants of the run `sweep`
satisfy it, and each part is needed (see above; without `Skew <= Overlap` the
boundary is strict again).

The argument. Call a record *settled* in a pass if it was modified before the
start of the pass less the overlap. Everything else is in the next window by
the choice of the watermark, provided that clocks differ by less than the
overlap. For a settled record, `NothingOld` says that neither the queue nor the
scan holds anything out of date, so queueing it cannot do harm; `ListedInHand`
and `SidesDone` follow it through the pass: behind the cursor or listed, then in
hand or accounted for, then accounted for when its side has been queued. A sync
between the comparison and the enqueue (`EnqueueInv`) makes the enqueue
superfluous and no more. That
the scan lists it at all is `WindowReaches`, which needs `ClockInv`: no other
pass has moved the watermark since this one read it.

### Companies and orders

For every set of workers, jobs and companies and every value of the bounds,
whatever people do and whatever fails, from `OrdersAssumption`:

| Theorem | States |
|---|---|
| `OrdersTypeCorrect` | `Spec => []TypeOK` |
| `DealsArePaidForHolds` | `Spec => []DealsArePaidFor` |
| `DoneOrderHasDealHolds` | `Spec => []DoneOrderHasDeal` |
| `CompanyCostsNothingHolds` | `Spec => []CompanyCostsNothing` |
| `OrderInvariant` | `Spec => [](TypeOK /\ OrderInv)`, inductive |

The argument. An attempt moves from a place at which it has made no deal
(`BeforeDeal`) to the items to the end. `DealBudget` says that a job waiting for
an attempt, and a worker before its deal, are still owed one: they have no more
deals than lost attempts; `AttemptBudget` says the same of attempts, with a
deleted company as the one other way to fail. Neither is inductive without
`OneHand`: a second worker on the row would make a deal that nothing pays for.
`DealProgress` follows the last deal: it lacks items while its worker is at them
(this is also what keeps the item count in its type), and it is complete when the
worker leaves them. The twelve steps of the company's upsert change none of what
these talk about, nor the job, the status and the deals (`QuietFacts`), so they
are dealt with at once; `Ended` does the same for the four ways to end an
attempt. TLC checked `OrderInv` as an invariant of the instance of `orders` first.

### Tokens and pairing

For every set of tenants, accounts, shops, processes, callers and requests,
whichever sites rotate their tokens and whether or not shops report their id,
from `TokenAssumption` and `PairingAssumption` (types of the constants):

| Theorem | States |
|---|---|
| `PairingTypeCorrect` | `Spec => []TypeOK` |
| `StoredTokensWorkHolds` | `Spec => []StoredTokensWork` |
| `RefreshedIsNewerHolds` | `Spec => []RefreshedIsNewer` |
| `RowIsOneShopHolds` | `Spec => []RowIsOneShop` |
| `OneShopOnePortalHolds` | `Spec => []OneShopOnePortal` |
| `PairingInvHolds` | `Spec => []PairingInv`, the inductive invariant |

The argument. That a stored pair works when it is stored is not to be seen from
the row: between the answer of the site and the update, another process might
have used the new refresh token up. `PairInv` rules that out. A pair can be sent
to a site only by one who has read it from a row (`Knows`), and a pair on its way
into a row, by a refresh or by a callback, is known to nobody and on no second
way (`StoringUnread`, `AnswerUnread`); so it is still live when it arrives. Nor
does any pair serve two accounts (`KnownOnce`), or a refresh of one could use up
the other's. `WaitInv` is about the memory of a process: an entry in flight has a
waiter, who keeps its new pair from expiring before it is given. `ShopInv` follows
where pairs come from (`StoringFrom`, `AnswerFrom`), and that a row has the id of
the shop that issued its pair (`IdOfGrantor`), from which the unique key gives
one portal per shop. `IssueInv`, the second half of `TypeOK`, says that what is held has been issued, which
makes a new pair new to everybody.

TLC checked `PairingInv` on the instance of `pairing` before it was proved.

### Field maps

For every set of words, every idempotent spelling, every set of edits and every
set of maps, complete or not, from `WordAssumption`, `FieldAssumption`,
`NoneIsNoSystem` and `NoneIsNoUser` (`null` is neither):

| Theorem | States |
|---|---|
| `FieldTypeCorrect` | `Spec => []TypeOK` |
| `HubEchoIsSkippedHolds` | `Spec => []HubEchoIsSkipped` |
| `FieldsAgreeHolds` | `Spec => []FieldsAgree` |
| `EchoesAreFewHolds` | `SingleColumns => (Spec => []EchoesAreFew)` |
| `FieldInvHolds` | `Spec => [](TypeOK /\ EchoInv)`, inductive |

The argument. The write and its echo go through different halves of the map, so
what links them must be said of the state between: `EchoInv` says that after a
write to HubSpot each property which one field alone goes to holds what the hash
has for that field, and that the hash is blank for fields that are not read. It
rests on the lemmas about the operators: normal forms are their own normal forms
(`NormalFacts`), reading gives texts by every branch of `readOxidBinding`
(`ReadIsText`), a map is complete after `ensureAllCanonicalFields`
(`EnsuredIsMap`), and of the fields that bid for a property one is last
(`LastFacts`). `EchoHashesAlike` then computes the echo's hash field by field; the
shop's id, which is read from `ox_user_id` when the map has no place for it, is a
case of its own and the reason for the last part of `NothingLeftBehind`.

`FieldsAgree` compares two records that may never have met: the last sync may
have gone either way, or have been skipped. Its invariant `AgreeInv` compares each
with the hash instead. A side from which no job waits is the one that was hashed,
if its map is the one that was used: for the shop as a whole (`ShopHashed`), for
HubSpot field by field, since only fields with a property of their own come back
from a write as they were sent (`HubHashed`). A sync to HubSpot makes the shop's
record the one hashed and, by `EchoInv`, leaves HubSpot with the values of that
hash; a sync to the shop makes HubSpot's contact the one hashed, and the shop
answers with its record; an edit that neither queues is one of a property that is
not watched, which `Told` leaves out. What waits for the shop is the record of now (`body \in {None,
user}`): older payloads are replaced, never reordered.

`EchoesAreFew` is a matter of what is still to come. `FewInv` adds to the writes
made so far those that may follow without another edit (`ToCome`, four at most),
and keeps the sum within four an edit. What ends an exchange is `Met`: HubSpot holds
what the shop's record says. A write to HubSpot brings it about; then a write to
HubSpot changes no property, so that HubSpot has nothing to report, and the loop
guard is not even needed. That a write to the *shop* keeps it is the heart of the
proof (`ReadAgain`): `ReadsBack` goes through the branches of `readOxidBinding` and
shows that a value that was read, normalised and written back is read again,
unless a house number is appended to it; `ReadsOnlyThere` and `WrittenAlone` show that
no other field interferes, which is `OwnColumns`; and of fields that share a property
only the last one bids (`MetMeans`). `SingleColumns` is an assumption on the maps and on
what is entered, which `MCFields` asserts of the run `fields`; the run `house_number`
and the map described above show that both halves are needed. TLC checked `FewInv` on
the instance of `fields` first.

### Not proved

Every safety invariant and every action property that a passing run checks is
proved, under the hypotheses given above. Only model-checked are liveness and the
liveness half of the refinement (`EveryJobSettles`, `ImplementsDelivery`,
`LostEventsAreFound`, `EveryJobEnds`, `EchoesDieOut`): they need fairness and
`ENABLED`, which are out of the prover's reach. `Agreement` and `SkipMeansNoOp` for a
shop that pushes changes only are neither proved nor refuted.

## 5. Plan

All modules of the plan are there, in this order: `SyncQueue` with its refinement,
`ContactSync`, `Reconcile`, `ClosedOrders`, `TokenService` with `Pairing`,
`FieldMap` with `FieldSync`; each with its runs and theorems. What could follow:

1. `ContactSync`: `Agreement` for a shop that pushes changes only as long as no
   field is cleared, fields carried by jobs of the sweep, and the in-memory
   stub adapter.
2. `ClosedOrders`: a weaker form of "one company per name" that holds, and
   orders that are reported twice.
3. `Reconcile`: what holds when two processes sweep.
4. `SyncQueue`: the order of claims, with what it means for a record that is edited
   without pause.
5. `Pairing`: uninstallation and revoked grants, once the code handles them.

## 6. Not modelled

HTML pages, request parsing details, cryptography, logging and configuration
have no state worth exploring. Of pairing, the session cookie, the time to live of
a state (one that expires is a callback that never comes), the webhook secret and
the checks that only reject a request are left out; uninstallation and revoked
grants are not handled by the code. Of the field maps, the normalised webhook
format (`canonicalFromOxidCustomer`), samples and previews of the wizard, and
fields that are bound and read like one that is modelled. The SDK of HubSpot may
repeat a request by itself; nothing here says whether it does. `fetch` ends a
call that gets no answer in the end, so that every token request returns or
throws. The audit trail is appended to and never read.
`deleteCompletedBefore` is not called. The order in which candidates are
visited (`ORDER BY runAfter`) and the limit of 25 are abstracted: a candidate is
chosen nondeterministically, which allows every order the code can produce.
