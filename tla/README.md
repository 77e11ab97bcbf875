# CloudFleet in TLA+

CloudFleet is a delivery dispatch service: an Express API over one DynamoDB
table, a React application for dispatchers, drivers and customers, Lambdas
behind streams and sockets, and an analytics batch. These modules model the
parts of it that keep state other people change at the same time, on both sides
of the network: the rows of the table and the requests that write them, and the
pages, devices and caches that show them.

All paths below are relative to the repository's root.

    tlc -workers 2 -config FleetConcurrent.cfg FleetMC.tla     # check a run
    tlapm FleetProofs.tla                                      # check proofs

## 1. Inventory

| component | state it keeps | operations | talks to |
|---|---|---|---|
| order lifecycle (`src/domain/order-lifecycle.ts`, `src/use-cases/orders`, `src/repositories/order.repository.ts`) | `ORDER#` items with status, driver, route and stop; `EVENT#` items | create, assign, update status | drivers, routes and the timeline, in one transaction; capacity policy; tracking tokens; push |
| vehicle capacity (`src/domain/policies/vehicle-capacity.policy.ts`) | none | `assertFits` | reads a listing of the driver's orders |
| routes (`src/use-cases/routes`, `src/services/route.service.ts`, `src/repositories/route.repository.ts`) | `ROUTE#` metadata with status and plan revision; `STOP#` items | create, reorder, re-optimize, read; advanced by status updates | planner; orders and drivers |
| planner and comparison (`src/domain/route-optimizer.ts`, `src/services/routing.service.ts`, `src/services/route-comparison.service.ts`) | none | order stops, schedule them, judge them late | matrix service; routes and orders |
| drivers (`src/services/driver.service.ts`) | status, `activeOrderId` (a lock), `completedToday`, location | create, set status, update location | realtime broadcast |
| delivery proof (`src/services/delivery-proof.service.ts`) | `PROOF#POD` item, S3 object | upload URL, register, view | orders (reads the status) |
| timeline (`src/services/order-event.service.ts`) | `EVENT#` items | list | written by the transactions above |
| operations (`src/services/operations.service.ts`) | none | list issues | reads the newest orders |
| idempotency (`src/middlewares/idempotency.ts`, `src/services/idempotency.service.ts`) | one record per identity and key | begin, complete, abandon, expiry | every mutating request |
| customer tracking (`src/services/tracking*.ts`, `TrackingPage.tsx`) | token items and lookups with expiry; feedback and requests on the order | ensure, read, feedback, reschedule request | orders |
| delivery notification (`src/lambdas/delivery-notification`) | notification events; a cached secret | process a batch of stream records | tokens; Twilio |
| realtime (`src/services/realtime-*.ts`, `src/lambdas/realtime-connections`, the stream hook) | tickets, connections, sockets | issue, connect, disconnect, broadcast | driver locations |
| push (`src/services/push.service.ts`, `DriverProfilePage.tsx`) | subscriptions | subscribe, notify, drop the gone | assignments |
| geocoding (`src/services/geocoding.service.ts`, `frontend/src/features/orders/components/OrdersDialogs.tsx`) | a cache and a next-request time, in memory | validate | Nominatim |
| analytics (`src/services/analytics*.ts`, `src/lambdas/analytics-workflow`, `AnalyticsOverview.tsx`) | Step Functions executions; the latest snapshot | start, export, run the job, read progress, read figures | Spark job on EMR or Glue |
| CSV (`src/utils/order-csv.ts`, `src/services/order-csv.service.ts`) | none | export, parse | order desk |
| dispatcher pages (`OrdersPage`, `DispatchPage`, `OrderDetailPage`, `RouteDetailPage`, `FleetPage`) | the rows each page last heard of, its selection and dialogs | load, poll, command, late answers | the API |
| offline driver application (`frontend/src/features/offline-sync`, `features/orders`, `DriverPage.tsx`) | outbox, cached orders and draft proofs in IndexedDB; the form of a visit | tap a status, queue, flush, take and upload a proof | the API through the idempotency middleware |
| accounts on a device (`frontend/src/auth`, the API's guards) | a token, an outbox that belongs to nobody | sign in, out, expire, admit | Cognito; the outbox |
| application shell (`frontend/public/sw.js`, the hosting) | one cache per device; bucket and edges | install, serve, deploy, prune | browser |

What is hard in it:

* **Handlers read, await and write.** Every use case loads what it needs, decides,
  and sends one DynamoDB transaction later. Between the two any other request
  may commit; what protects the table is exactly what the condition expressions
  repeat, and nothing else.
* **One transaction, five items.** A status update writes the order, its event, the
  driver, the stop and the route, each under a condition of its own, and each
  keyed by something read earlier.
* **Calls are retried.** The client retries what had no answer, passes over the
  queue overlap, batches of the stream are handed over again, processes die
  between two writes, and an answer may be lost after the effect.
* **Pages poll without waiting.** Intervals ask again before the last answer came,
  commands write into what is shown, sockets post beside it, and answers
  overtake each other.
* **Pages and indexes.** A decision is taken on one page of a sorted index, or on
  an index that follows the table.

What makes each component correct: an order moves only along its lifecycle, with
the driver and proof the step needs; a driver works on one order and is found
locked by it; route, stop, driver and timeline agree with the order; a vehicle
is not overloaded; plans are sound and are not changed under a driver on the
way; an operation takes effect once per key and its replay is its answer; what
was done offline reaches the server, in order, once, and in the right hands; a
link that was handed out works until it expires; what a customer should hear is
told or visibly given up; a page comes back to what is stored.

## 2. Modules

    OrderLifecycle --> OrderJourney <== refined by == Fleet --> FleetMC, FleetProofs
          |
          +--> OfflineSync --> OfflineMC, OfflineProofs
          |         |
    Idempotency <===+ refined by   (Server == INSTANCE Idempotency)
          |     +--> IdempotencyMC, IdempotencyProofs
          |
          +--> DriverVisit --> VisitProofs
          +--> OrderPage, RouteProgress, OrderCache
    TrackingTokens --> TrackedOrders --> CustomerTracking ------+
                             +--> DeliveryNotification (N ==) --+--> CustomerMC --> CustomerProofs
    LiveLocation, AppShell (A ==), FleetRoster (F ==), OrderCache (C ==) --> LiveMC --> LiveProofs
    RoutePlanning (P ==), RouteProgress (R ==), RouteSheet (H ==), OrderDesk (L ==),
        OrderCsv (F ==), DispatchBoard (B ==), DriverPush (N ==) --> DeskMC --> DeskProofs
    AnalyticsRuns, AnalyticsFigures (F ==), OrderPage (O ==), Session (S ==) --> PagesMC --> PagesProofs
    Geocoding (G ==) --> GeocodingMC

The table and its requests:

* **OrderLifecycle**: the transition table, which statuses release a driver, need a
  driver or count for capacity. Tables and predicates without state.
* **OrderJourney**: the abstract specification. Orders have a status, a driver and
  maybe a proof; each change is one atomic legal step. It knows no requests,
  snapshots, locks or routes.
* **Fleet**: the table and the requests in flight. A handler is two actions. `Read...`
  takes the guards of the use case and records a snapshot in `requests[q]`;
  `Commit...` takes the condition expressions of the transaction, evaluated on
  the table of that moment, and performs all of its writes. `Drop` is a cancelled
  transaction, a failed check or a dead process.

  | variable | item | actions that write it |
  |---|---|---|
  | `orders` | `ORDER#id METADATA` | `CommitCreate`, `CommitAssign`, `CommitStatus`, `CommitRoute`, `CommitReplan` |
  | `drivers` | `DRIVER#id PROFILE` | all of these but `CommitReplan`; `SetDriverStatus` |
  | `routes`, `stops` | `ROUTE#id METADATA`, `STOP#...` | `CommitRoute`, `CommitReplan`, `CommitStatus` |
  | `proofs` | `PROOF#POD` | `CommitProof` |
  | `timeline` | latest `EVENT#` | every commit that appends one |
  | `requests` | variables of handlers | all |

  `stops[r][o]` keeps the sequence number of the sort key (`key`) apart from the
  attribute a new plan changes (`sequence`): the code writes one and looks up by
  the other.
* **Idempotency**: the middleware around any handler. `Claim` is the conditional put of
  `begin`; `Collide` then `LookUp` the refused put and the consistent read after
  it; `Run`, `Refuse`, `Fail`, `FailLate` and `RunBodiless` the outcomes of a
  handler; `Complete` and `Abandon` the wrapped `response.json`. Each write may
  fail with or without its effect, and a process may die in between.
* **RoutePlanning**: `RoutingService.plan` as a pipeline (matrix, order, schedule,
  geometry), with nearest neighbour and two-opt as operators, a manual order,
  missing roads, closed windows, and providers that are down. `WorldOK` says what may
  be asked for: at most 25 stops, windows and roads far below the last date.
* **RouteProgress**: what a route stored of its orders against where they are now
  (comparison) and the list of issues (operations), which looks at the orders alone.

The driver:

* **OfflineSync**: one order and the driver application against `Idempotency` as its
  server. `TapStatus`, `TapAnswered` and `TapUnanswered` are `updateOrderStatus` of
  the orders client, `StartFlush` to `EndFlush` a pass of `OfflineSyncEngine.flush`,
  `Refresh` the listing that is loaded again, `Dispatch` everybody else.
* **OrderCache**: the orders a device keeps. A listing replaces them; a queued tap reads
  them (`ReadCached`) and writes them back in another transaction
  (`UpdateCachedOrder`).
* **DriverVisit**: `DriverPage`, `useDeliveryWorkflow` and `useProofOfDelivery` for one
  order: taps, upload in three awaited steps (`LookUp`, `Put`, `Register`), drafts,
  polls that land on what was changed at once, a reload at any moment.
* **Session**: the accounts of a device. What is queued belongs to nobody; a flush
  sends it under whatever token the tab has by then, and the API admits it by
  that token and the order's driver.
* **DriverPush**: the switch on each device, the subscription of its browser and the rows of
  the table, which a request can change after the page gave it up; notices sent to every
  row they have read.

The customer:

* **TrackingTokens**: `ensure` as a read and a save, the two items of a token, expiry
  and the table's TTL. **TrackedOrders** adds the moves of an order a customer sees.
* **CustomerTracking**: the payload, put together from reads of different moments, the
  page that polls it, and the two forms.
* **DeliveryNotification**: stream, batches, retries, and the function one await at a
  time: read the link, send, record.

The dispatcher:

* **OrderDesk**: `OrdersPage` with its list, selection and dialogs. A request outlives its
  dialog: `TakeRow` and `CreateRoute` are the server, which goes on whether or not the
  page waits, `OrderCreated`, `OrdersImported` and `RouteCreated` the answers, whatever
  the page has become. `Found` is what a listing finds: each status is a query of an
  index that lags. **OrderCsv**: what an export writes and an import reads, one character
  after the other. `BatchOK` says what may be exported.
* **DispatchBoard**, **RouteSheet**, **OrderPage**, **FleetRoster**: the pages that show
  rows, change them and hear late answers, each with the requests it has in flight.
* **LiveLocation**: a fix from the device to the table, to the listed connections and to
  a page that listens and polls; tickets and handshakes.
* **Geocoding**: dialogs, the cache, the limiter and the provider.
* **AnalyticsRuns**: start, export, job with its attempts, the snapshot it writes over the
  last one, and the page that polls them.
  **AnalyticsFigures**: the sums over a range and the drawer of a region.
* **AppShell**: the service worker and its cache in front of a bucket that is deployed to.

The **...MC** modules hold symmetry sets, the inputs and the named bounds of the runs.
Those that bring several components into one run do it in one way: a variable
`part` is chosen at the start, the actions of that component run, and the others
stand still. Nothing is lost by this, because the components of one such module
share no state; what one of them sees of the rest of the system (another
dispatcher, a job, the table) is among its own actions.

Definitions whose comment begins with "Fault:" are deliberate errors; no
specification uses them. Each is the definition below it with a plausible bug,
and each property listed in a passing run is violated under one of them.

### What the models leave out

* Fleet: authorization (a stateless filter), driver registration (drivers exist from
  the start), addresses, distances and arrival times. A parcel weighs one unit,
  and weight and volume are one dimension. A listing is a current page of the
  index: its lag behind the table is not modelled. The reads of a request are one
  step, because each but the last could only make it fail earlier. A creation
  with a driver writes two events with one timestamp; the later one counts. The
  tracking token `ensure` writes before a status transaction is TrackedOrders'.
* Idempotency: a record expires only when no call of its key is in flight: a day is
  longer than any call. `runs` and `late`, the history of effects, start again with
  the record. That a handler can fail after its transaction is no invention:
  a status update reads the order again after it, and answers 500 if that fails.
  A key is the identity together with the header.
* OfflineSync: queueing a mutation and updating the cached order are one step here;
  OrderCache takes them apart. A lost request is a call that dies before `begin`.
  The workflow stops short of DELIVERED, which the application refuses to confirm
  offline. Queued positions share the outbox and behave in it as statuses do.
* DriverVisit: who else may move the order is Fleet's matter; a dispatcher may only
  give a failed order to the same driver again. `UploadIsReviewed` excepts two cases,
  which the history variable `disturbed` marks: a photo removed while it is uploaded
  (the button stays enabled) and a draft that is found late.
* Session: one tab. Token signatures are Cognito's.
* CustomerTracking: the driver's position is left out. A payload may mix two moments.
* LiveLocation: one driver. Posts to a connection and polls are reordered freely.
* FleetRoster: a listing that fails is heard of after its reads.
* OrderPage: two loads that overlap are marked by `overlapped`, and `PageAgrees`
  claims nothing then: the page takes the details of whichever answer comes last. The
  timeline is read by a query that is not consistent (`order-event.service.ts:21-30`), so a
  load may find any first part of the events, none included; the service adds those it
  infers from the order, which it does read consistently. That is why a timeline of a page
  at rest can lack an event but not the one that brought the order where it is; and why
  it can show an inferred one in its place. Times and the event of the proof are left out.
* OrderDesk: an order is pending, assigned (which stands for all later statuses) or
  rescheduled. The bound of a hundred listed orders is left out: with more, the older
  ones leave the list. A row of a form or file is created, refused, or created and
  reported as failed; a file that cannot be parsed is refused as a whole, which is a
  request that fails. Which driver a route is for is Fleet's matter. Nothing keeps a
  dispatcher from sending a form or file again, so an order may be created twice; no
  property speaks of that.
* DriverPush: one driver with the page open once on each device. An endpoint that
  ended is not handed out again.
* RouteSheet: all stops of a plan are read at one moment.
* RouteProgress: all orders are on routes; one assigned from the board has no stop that
  could show it. Of the comparison, statuses are modelled, not durations and counts.
* RoutePlanning: polylines are there or not; times and distances are small numbers.
* OrderCsv: three columns of which the last is plain; numbers and validation of cells
  are left out. A letter stands for any character without a meaning to the format.
* Geocoding: one instance of the API, since limiter and cache are in memory; with
  several there is a limiter each. Manual coordinates are left out.
* AnalyticsRuns: a job fails or succeeds, before or after it wrote the snapshot; on EMR it
  has two attempts (`emr.adapter.ts:34`), on Glue one. `crossed` marks two starts that passed
  each other, or a job left behind by an execution that ended, after which
  `SnapshotIsNewest` claims nothing.
* AnalyticsFigures: the Spark job is the rows it counts. Delivered
  orders and minutes are sums over the same rows as the orders counted. The drawer
  of a region is modelled without a property: its answers may overlap.
* AppShell: scripts are uploaded before the page that names them (the order inside one
  bucket deployment is the tool's), and the bytes of `sw.js` stay the same.

## 3. Runs

Passing runs:

| run | instance | shows |
|---|---|---|
| `FleetSequential` | 2 orders, 2 drivers with vehicles of 1 and 2, 1 route, 1 request | the five items agree after every transaction (`LockAgreement`, `StopMirrorsOrder`, `TimelineAgrees`), and no vehicle is overloaded while listings are complete (`CapacityRespected`) |
| `FleetConcurrent` | 2 orders, 2 requests, and 2 drivers or a route of one | `JourneySpec`: the orders implement OrderJourney whatever overlaps; an order in the field keeps a lock; statuses match drivers; no late plan reaches a route that has started (`PlanFrozenOnceStarted`) |
| `IdempotencyKeys` | 3 calls, 1 key, 3 operations, one bodiless | one handler per key; no effect more than the failures after a transaction account for; successes agree, and are replayed if they have a body |
| `OfflineFlush` | 2 taps, 2 passes, 3 faults | what a pass reports as completed has been applied; the queue is flushed in order by overlapping passes too |
| `OfflineDrains` | 1 tap, 1 pass, 2 faults, fairness | what is queued leaves the queue |
| `DriverVisit` | 2 photos, 2 faults, 1 upload at a time, fairness | what is uploaded was on the screen (`UploadIsReviewed`); no failure, lost answer, reload or stale list leaves a driver without the next button (`VisitEnds`) |
| `Customer` | page: 1 order, 1 tab, 2 overlapping loads, a link that expires; messages: 2 tokens, 2 callers, 2 changes, batches of 2 with 1 retry; fairness | feedback is stored once and only after delivery, and ends up on the page; a link works until it expires although two callers replace the token; no stream record is lost silently, and the stream drains |
| `Live` | position, roster, shell and cache, see Bounds; fairness | only stored positions are shown (`ShownIsStored`); the pages of one and of all drivers settle on what is stored; a device comes to run what is deployed; its copy of the orders comes back to the table |
| `Pages` | analytics, page of an order, accounts, see Bounds; fairness | the latest snapshot is of the newest export published, unless starts passed each other or a job outlived its execution (`SnapshotIsNewest`); progress shown was made; the figures settle on the range applied; a settled page shows its order's driver and what brought the order there, though the events lag (`PageAgrees`); a logout or another account does not let a queued status in |
| `Desk` | seven parts, see Bounds; fairness | a plan visits every stop once, in time with windows and roads; what a route shows late is in the list of issues; a route's status and the plan a page shows never fall back; an exported file is read back; the board and the list of orders settle (`BoardSettles`, `ListSettles`); a switch left on has its row (`SwitchedOnIsStored`) |

Runs whose counterexample is the point:

| run | property | what happens |
|---|---|---|
| `FleetLockRace` | `OneActiveOrderPerDriver` | a start read before a reschedule and reassignment commits after them: the transaction compares the status and not the driver, so it locks the old driver, and the new one starts a second order |
| `GeocodingLimiter` | `OneRequestPerInterval` | the wait is computed before the sleep and the next time set after it: two validations wait for the same moment and reach the provider together |

Each is quoted against the README line it contradicts under `findings` in
`PROJECT.json`. Four more configurations are kept for the counterexample they
give and are not in the list of runs:

| configuration | property | what happens |
|---|---|---|
| `FleetListing.cfg` (FleetMC) | `CapacityRespected` | finished orders fill the page behind the capacity check, without any concurrency |
| `FleetReorder.cfg` (FleetMC) | `StopIsAddressed` | after a reorder the stop's key cannot be built from `stopSequence`, and the stop cannot be started |
| `OfflineDiscard.cfg` (OfflineMC) | `DiscardedIsSettled` | "in progress" is a 409, so a conflict: the mutation is dropped while the call that holds the key may still fail |
| `OfflineRekey.cfg` (OfflineMC) | `TapAppliedOnce` | the queued copy of an unanswered tap has a fresh key (README.md:280 says it keeps its own), and is applied again after the order came back |

### Consequences of the code met on the way

These follow from the models as they stand; properties are worded around them.

* Capacity is read before the transaction and no condition repeats it: two creations
  that each fit are both stored. `CapacityRespected` is claimed for one request at a
  time.
* A cancellation releases the driver like a delivery does, so a queued order cannot be
  cancelled while its driver holds the lock for another one.
* A 204 goes past the wrapped `response.json`: its record stays in progress and its
  replay is refused (`BodyIsReplayed` is about answers with a body).
* An OSRM answer with a missing road makes an automatic plan fail, while a provider
  that is down does not: the fallback of README.md:258-260 covers the latter only. It
  may fail although an order of the stops exists that has all its roads: from the
  nearest stop on, no reversal of a segment leads back to it (`Trap` in DeskMC, four
  stops). `PlanIsSound` says what holds: the greedy order misses a road already.
* An assignment removes `customerRescheduleRequest`, so a request just before it is
  gone without a trace. The list of issues sees the newest hundred orders.
* An order that is rescheduled takes its stop along as a ghost: the old route goes on
  showing it, and shows it delivered by another one.
* A token that has a second left is reused by `ensure`; stored positions are
  overwritten by whichever request comes last.
* An expired session turns a flush into 401s, which discard the queue for good;
  a logout clears it without a warning; an administrator who signs in on the device
  flushes a driver's queue with an administrator's rights.
* A reorder from `RouteDetailPage` reads the revision inside the request and so
  overwrites another dispatcher's plan without a conflict.
* The rows a page prepends when a driver is created may show the driver twice until the
  next listing, and so may the row of a created order; a form or a file may be sent again
  after the ten-second timeout, under a new key, and the import's report counts rows
  without naming them.
* The service worker stores `/driver` at installation only, stores error pages, and keeps
  for ever a page that the hosting answered in place of a pruned script; it caches
  `runtime-config.js` and never serves it. `ShellCatchesUp` holds all the same,
  because a launch with a network asks for the page first.
* Analytics: a page stops following its run after one failed poll; two starts can both
  find none running, and the older export may be published last, as it may when an
  execution gives up a job that still runs; Glue has no client token, so a retried task
  finds its first job running, is refused and fails the execution, which that job outlives.
* An address that is edited after a candidate was picked keeps its coordinates.
* A text whose last cell ends in a carriage return loses it when read back.

### Bounds

*Fleet.* Two overlapping requests are enough for every race between a snapshot and a
transaction, because a transaction is atomic and a request holds one snapshot.
Two orders and two drivers are the fewest in which a lock can be taken from the
wrong order or driver; `MaxLoad` gives one of the drivers a vehicle that two parcels
overload (`OneLightVehicle`), and the other one that takes a route of two.
`ListLimit` stands for the hundred orders of a page: 3 makes it complete in the
passing runs, 1 incomplete in `FleetListing`. `MaxRevision` = 2 lets two plans
compute from one revision. `FleetConcurrent` is bounded by `DriversOrRoute`: requests
compete for two drivers without a route, or around one route of one driver, where
orders are followed to the outcome of their first attempt (`FirstAttempt`); nobody
goes offline (`NobodyOffline`), which only ever refuses transactions.

*Idempotency.* Three calls of a key are a holder, a collider and one that comes after
the first has gone; keys do not interact, so one is enough. `MaxRuns` lets an
effect repeat.

*Offline.* `MaxFaults` bounds what goes wrong in one behaviour: it also makes failures
end, which `QueueDrains` needs. With two taps, `OfflineFlush` starts with both
requests lost (`DriverOffline`), lets only the driver move the order
(`OrderLeftToDriver`) and lets no record expire (`NothingExpires`); the order of the
queue depends on none of these, and `OfflineDrains` runs with one tap and without
them. `DriverVisit` is followed to the start of the second visit (`FirstVisit`);
two faults are a failure and one more during its repair.

*Customer.* Two loads in flight can overtake each other. `Lifetime` = `MaxTime` = 1 lets a
link be good, then over. `Legacy` starts with an order that was written before events
and tokens were. Two changes in a batch of two, one retry and three messages let a
batch fail in its first or second record and be repeated; two tokens and two callers
let one `ensure` replace what the other handed out. The clock stands in that part.

*Live.* One page, one connection that reconnects, two fixes and one poll in flight: the
older fix can arrive last by every way. Two bundles are one deployment in place of
another, with two faults on the way. One driver at the start and one to be
registered, with two changes and one listing. Two orders, one of them assigned while
the device is away, two taps, one listing, one loss.

*Pages.* A refresh on either engine is followed with one of three faces (`face`): two
executions that two callers start while no page follows them (one that is overtaken by
the other is enough for an order of exports to be wrong); one execution started and
polled by the page, or started by two others; or the figures, two loads around one
change of the range over two days and regions. One order that takes five steps among
two drivers, with any first part of its events. Two drivers and an administrator on one device, one tap, two sign-ins, two
faults.

*Desk.* Three stops are the fewest in which nearest neighbour is not best and two-opt has
something to reverse; roads of 1 and 3, of which some are missing or a stop is cut
off, and windows open, closing or still closed. Four are the fewest in which the greedy
order may be past repair (`Trap`). `LastDate` and `NoRoad` stand in the proportion the
code gives them, 8.64e12 seconds and `MAX_SAFE_INTEGER`. Two orders and two routes, one order
late at once and one without a window, lists of one issue and of two. Two stops planned up to four times. For
the list one order, which appears in it apart from all others, two loads in flight that
can overtake each other, two requests and files of two rows, of which the second finds no
identifier and stands for one that is refused. Texts of up to two characters, one
order or two in a file. One order, two drivers and two loads of the board. Two
devices, two endpoints, one notice, which may have read any of them.

*Geocoding.* Three dialogs at once: the first sets the next time, the others wait for it.

Symmetry is used in safety runs only. Deadlock is checked for Fleet and Idempotency.
The other runs stop where a bound is used up or nobody has anything left to do
(taps, changes, files are finite), which is no error.

### Fairness

Nothing is assumed of Fleet or Idempotency, whose handlers may die at any point, nor
anywhere that a person does something, with one exception named below. Of what a person
does not do, two things are assumed: a driver has the profile page open once on a device,
and looks at what it shows before touching the switch (in the code the page reads the
browser when it opens; a tap before that, or a second tab, could let a deletion that
was given up remove the row of a switch that is on). What
is assumed, and why the code justifies it:

| module | assumption | in the code |
|---|---|---|
| OfflineSync | WF: passes start again, passes and calls that have begun go on | `main.tsx` starts a pass at each load and each `online` event; the event loop; the ten-second timeout ends a wait. Faults are finite |
| DriverVisit | WF: the driver goes on (`Works`), the server serves, answers come, the queue is flushed, the page polls | the exception: `VisitEnds` is a promise to a driver who goes on. Faults are finite |
| CustomerTracking, LiveLocation, AnalyticsFigures, DispatchBoard, OrderDesk, FleetRoster | the poll recurs (WF; SF on the board and the list, whose loads are blocked at times), and one that is repeated is answered in the end (SF) | `setInterval` fires again and again whatever became of the last request; a request that is lost each time would be a network that is down for good |
| FleetRoster | WF: the index follows the table, queries end | DynamoDB's eventual consistency |
| DeliveryNotification | WF: the event source invokes, gives up, and a handler goes on or dies | Lambda's event source mapping retries up to `retryAttempts` and goes on |
| AppShell | WF: a deployment that has begun goes on, the network returns, the user opens the application again, the worker works | the deployment is one resource; nothing is promised to a device that is never opened |
| OrderCache | WF: listings are served and kept, queued statuses are entered, the network returns; SF: a listing lands, the queue is flushed | the driver page polls; the flush is OfflineSync's, whose `QueueDrains` this stands for |

In a run of several parts each assumption is conjoined with the guard of its part, so
that it says nothing of the others.

## 4. Proofs

A theorem is about the specification of its component: `Spec` of Fleet, Idempotency,
OfflineSync, CustomerTracking, LiveLocation, AnalyticsRuns and DriverVisit, and
`P!Spec`, `F!Spec`, `N!Spec`, `O!Spec`, `S!Spec`, `H!Spec`, `L!Spec`, `R!Spec` of a
component that the MC module they extend instantiates. These components are
instantiated with constants and variables, so that the theorems hold for all values
too, but for messages, where customers rate nothing and ask for no window, which no
notice is about, and snapshots (`AnalyticsFigures`), about which nothing is proved.
`DeskIsSafe`, `PagesAreSafe`, `LiveIsSafe` and `CustomersAreServed` say the same of the
specifications of several parts that the runs check. Some of these specifications
include fairness, which no proof uses. Every safety property of a passing run, invariant
or action property, has a theorem.

| theorem | module | for all constants |
|---|---|---|
| `TypeCorrect`, `FleetIsSafe` | FleetProofs | types, and the inductive invariant |
| `OrderInTheFieldIsLocked`, `DriverFollowsStatus` | FleetProofs | `HoldingOrderIsLocked`, `DriverMatchesStatus`, whatever requests overlap |
| `FleetImplementsJourney` | FleetProofs | `Spec => JourneySpec` |
| `RoutesAreFresh`, `StartedPlanIsFrozen`, `RevisionsAdvance` | FleetProofs | the invariant of routes, `PlanFrozenOnceStarted` and `PlanRevisionAdvances`, whatever requests overlap |
| `LocksAgreeOneAtATime`, `OneActiveOrderOneAtATime` | FleetProofs | the lock properties, assuming at most one request |
| `TimelineAgreesOneAtATime`, `StopsMirrorOneAtATime`, `StartedOrderAdvancesOneAtATime` | FleetProofs | `TimelineAgrees`, `StopMirrorsOrder`, `StartedOrderAdvances`, assuming at most one request |
| `CapacityOneAtATime` | FleetProofs | `CapacityRespected`, assuming at most one request and complete listings |
| `TypeCorrect`, `HandlersExclude`, `AnswersAgree`, `SuccessStands` | IdempotencyProofs | types, `OneHandlerPerKey`, `SameAnswer`, `SuccessIsFinal` |
| `ReplayIsAnswered`, `EffectAtMostOnce` | IdempotencyProofs | `BodyIsReplayed`, `AtMostOnce` |
| `OfflineInvariantHolds`, `CompletedMutationsAreApplied`, `QueueIsFlushedInOrder` | OfflineProofs | the inductive invariant, `CompletedIsApplied`, `FlushedInOrder` |
| `OfflineImplementsIdempotency` | OfflineProofs | `Spec => Server!Spec`: what is proved of Idempotency holds of the driver's calls |
| `CustomerTypes`, `GivenLinksResolve`, `FeedbackIsStoredOnce` | CustomerProofs | types, `LinksResolveUntilTheyExpire`, `FeedbackOnceAfterDelivery` |
| `MessagesAreSettled` | CustomerProofs | `NothingSilentlyLost` |
| `PositionsAreStored`, `ShownPositionsAreStored` | LiveProofs | the inductive invariant, `ShownIsStored` |
| `RefreshInvariantHolds`, `SnapshotStaysNewest`, `ShownProgressIsTrue` | PagesProofs | the inductive invariant, `SnapshotIsNewest`, `ProgressIsTrue`, for any executions, callers and jobs |
| `SettledPageAgrees` | PagesProofs | `PageAgrees`, for any lag of the events |
| `AdmissionsAreInPlace` | PagesProofs | `AdmittedInItsPlace` |
| `SwitchedOnStaysStored` | DeskProofs | `SwitchedOnIsStored`, for any devices, late requests and notices |
| `PlansAreShownInOrder` | DeskProofs | `ShownPlanAdvances` |
| `LateOrdersAreListed`, `RoutesNeverFallBack` | DeskProofs | `LateIsListed`, `RouteNeverFallsBack` |
| `ReviewedPhotosAreUploaded` | VisitProofs | `UploadIsReviewed` |
| `PlansAreSound` | DeskProofs | `PlanIsSound`, for up to 25 stops, any windows, roads and last date |
| `FilesRoundTrip` | DeskProofs | `CsvRoundTrips`, for any number of orders and texts of any length |
| `DriversUpdatesAreServed` | OfflineProofs | `OneHandlerPerKey`, `AtMostOnce`, `SameAnswer` and `SuccessIsFinal` of the server the driver application talks to |
| `DeskRunsItsParts`, `DeskIsSafe` | DeskProofs | the desk's specification behaves as its parts; all of its safety properties |
| `PagesAreSafe`, `LiveIsSafe`, `CustomersAreServed` | PagesProofs, LiveProofs, CustomerProofs | all safety properties of the specifications the runs `Pages`, `Live` and `Customer` check |

**Fleet.** `HoldingOrderIsLocked` and `DriverMatchesStatus` are not inductive alone: a
commit relies on what its snapshot said. `RequestsLegal` states the part of a
snapshot that stays true while the table moves: the transition it intends is
legal from the status it read, a driver was there if one is needed, an order to
be created is still absent. Since the transaction compares the status, the
transition is legal from the current status as well, and a status determines
whether there is a driver. That the driver is the *same* one does not follow,
and `FleetLockRace` shows that it is not; what does follow, and is proved, is
that some driver holds the order, because taking a lock demands that it be free
or one's own, and giving it back that it be free or one's own.
The refinement uses the same invariant: each commit is one abstract step, each
read, drop or plan a stutter. With `OneAtATime` a lone request's snapshot is the
row it will write, which is what the theorems with that name add.

**Plans.** `RoutesFresh` is what the route transactions rely on without saying so: a
route that no transaction has written has revision 0 and no stops, one creation at
most is under way for it, orders point at routes that exist, and none that is
unassigned points at one. With it, a stop changes its position only in
`CommitReplan`, whose condition demands that the route is still planned and that
its revision is the one read; that gives `StartedPlanIsFrozen` and `RevisionsAdvance`
for any number of requests. One at a time, `StartedStopIsAddressed` adds that an
order in the field has a stop whose key is its `stopSequence`: from the start on no
plan can move it, so each later status transaction finds the stop it writes, which
is what `StopMirrorsOrder` and `StartedOrderAdvances` need. Before the start that is
not so, and `FleetReorder.cfg` shows it.

**Capacity.** `FitsStill` says that the request in flight fits the table as it is,
which is so while it is the only one (`OneAtATime`) and the table therefore stands
still between its read and its commit. `ListingsAreComplete` (finitely many orders,
and `ListLimit` no less than their number) makes the page behind the check all of the
driver's orders; the rest is the cardinality of a union. Neither hypothesis can go:
`FleetListing.cfg` shows a page that is cut off, and two creations that read the same
listing are both stored.

**Idempotency.** While a call is between its put and its last write, the record is
`IN_PROGRESS` with its fingerprint, and only that call may change it
(`OneHandlerPerKey`). `AnswersStored` says that a success that was answered is
the record, `BodilessNotStored` and `BodilessHeld` that one without a body never
gets there but keeps its record in progress. `CountedOnce` adds that before a
handler of the key runs, every effect so far is one whose handler failed after
it: what went in under a handler that did not fail has a record, which no later
call can put again. Together with `BodyIsReplayed` this settles replays: the only
success that is not replayed is one without a body.

**Offline.** `ServerInvariant`: a call carries the key of its own mutation, and a success,
answered, closing or stored with a record, is of a key that was applied.
`QueueInvariant`: a mutation is in the outbox once, a pass works on what was queued,
and what it has left is in the order of the queue. The last is said without indexes
that move: where a pass and the queue have a mutation in common, all that stands
before it in the queue stands before it in the pass (`Ordered`), which removals by
another pass and additions at the end both keep. A mutation therefore leaves the queue
when the pass that removes it has no earlier one left, so no earlier one is queued.
The refinement maps each action of the application to one of Idempotency's or to a
stutter, with the variables of the same names. So the theorems of IdempotencyProofs,
instantiated as the refinement is, hold of the application: `DriversUpdatesAreServed`.

**Customer.** `TokenInvariant`: what an order's item says, what a caller of `ensure` is about
to answer and what was handed out *stands*, that is, has a lookup of the same order
and date, or is over. A save writes the lookup of a token nobody has, so it cannot
take one away, and the TTL only takes what is over. `Thanked` and `FeedbackReady` carry
the status a feedback was checked against to the transaction that stores it: a
delivered order stays delivered (`RowsAdvance`). For messages, `WithinTheBatch` and
`ToldInThisAttempt` say where in its batch a handler is and that it has sent what
lies behind it in this attempt; the batch only moves on when its end was reached or
the event source has given up and recorded it.

**Live.** Whatever is on its way to a page, by socket, answer or table, was stored before:
`OnTheirWay` says it of each leg separately.

**Pages.** `PipelineInvariant`: a milestone of an execution's history was reached (the
export is over, a job was started, a snapshot published). For the snapshot, `Serial` says
what holds until something crosses: one execution runs or is about to be started, its export
is the last one begun (`LastExports`), only its job writes, and what was written last is
the newest of all (`NewestIsLatest`); the steps that would end this are those that set
`crossed`. `PollIsTrue` says the same of answers that are still on their way, and
`Advances` that no step takes any of it back. `PageInvariant` of OrderPage: a load that has
read the order has read details that belong to the row it will show, unless two
overlapped: the driver is the one of that row, and the timeline of any part of the events
has the event of the row it was read for, because a row's own event is inferred from it
(a failure, a cancellation and what follows them keep the reason that this needs). `SessionInvariant`: nothing that was cleared is in the outbox (`OutboxIsKept`),
what a pass still holds of it was cleared in this very session and not before
(`QueueEnds`), a tap is not in the outbox before its request has failed (`TapsAreNew`),
and whoever holds an order is on record as having held it (`HoldersHeld`).

**Desk.** A row goes with a deletion, on time or late, or with a notice that finds its
endpoint gone. An endpoint is in the hands of one device at most (`HeldByOne`), and while a
deletion of a browser's own endpoint is late, the switch is still shown on and is not the
one kept (`LateDeletions`): to turn it on again it must be turned off first, which leaves
the browser unsubscribed and the endpoint gone. The page of a route never has an answer
that is earlier than what it shows (`AnswersAreLater`), because one save at most is in
flight and none while the page loads. For the comparison, a stop has the
planned time of its order while that is on the route (`StopsOfOrders`), the orders of a
route that waits are all still on it (`WaitingTrips`), and terminal statuses stay
(`Onward`).

**Induction over data.** What the planner and the parser compute is written as recursive
functions over `0 .. n`. Two lemmas at the head of DeskProofs make them provable without
an operator as parameter. `Along` is induction with the property as a *set* of numbers: a
set that has 0, and k with k - 1, has all of them, because the least number that is
missing would have a predecessor in it (`Least`, from the least element of a well-founded
order). `Recursion` builds, by that induction, a function that obeys a recurrence, from
steps given as functions between sets; so the CHOOSE behind a recursive function has
something to choose, and what it chooses stays in those sets.

**Planning.** `DriveIsDriven` says of any sequence of stops what driving it comes to: who
was served when, not before its window and the road allow, and a score that tells
whether a road was missing. It does, because a missing road alone costs `NoRoad`, while 25
stops with all their roads cost less than a thousand times `LastDate`, and end before
it. The greedy order keeps a set of remaining stops that shrinks by one
(`GreedyVisitsAll`, by cardinality); a reversal keeps the stops (`FlipKeepsOrders`), and
2-opt only takes what is cheaper (`ImproveIsNoWorse`). A request that fails has a time past
`LastDate`, hence misses a road (`OrderWithRoads`), hence cost `NoRoad` and, as it is no
dearer than the greedy order, so did that one. An earlier wording, that a plan fails only
if *no* order has all its roads, did not survive the attempt to prove it: see `Trap`.

**Files.** The parser is followed through what was written: over a cell, quoted or not, it
collects the text and stops at the separator behind it (`CellIsRead`, by induction over
the characters, with a pair of quotes read as one); over a row it collects the cells
(`RowIsRead`), over the file the rows (`LinesAreRead`). Only the last cell of a row loses
a carriage return, and trimming takes that one anyway. A row is kept because one of its
cells has a character, which is the id in the code and an assumption on batches here.

**Several parts in one run.** A behaviour of such a specification follows one part and
leaves the variables of the others alone. A step of it is therefore a step of each part or
a stutter, and what was proved of the parts holds. For the planner and the files, whose
variables have no value of their own while another part is followed, the invariant is
guarded by the part, as the property is.

**Visit.** While no photo was removed under an upload and no draft came late, the form that
waits for an upload is busy with it or has its proof (`UploadsAreShown`), one upload at
most belongs to the form that is open (`OneUploadIsHere`), and an object that is kept
for a retry is of the photo shown (`ObjectIsShown`).

The assumptions are those named in the modules, and TLC evaluates each:

* `NoneAssumption` (Fleet, TrackingTokens, LiveLocation, DriverVisit), `RowsAssumption`
  (TrackedOrders) and parts of `RunAssumption` and `ProgressAssumption`: `None`, a missing
  attribute, is no identifier, number or row.
* `BoundAssumption`, `LifetimeAssumption`, `MaxRunsAssumption`, `MaxFaultsAssumption`: capacities,
  lifetimes and bounds are natural numbers, `MaxJobs` is not 0; dates are integers.
* `WorldsAssumption`, `BatchesAssumption` (DeskMC): each world is `WorldOK` and each batch
  `BatchOK`. The 25 stops are those of `route.schema.ts:6`. A leg with its service takes
  at most a fiftieth of `LastDate` (some 5,000 years), a window opens before half of it,
  and `NoRoad > 1001 * LastDate` is so for the code's numbers
  (9.007e15 and 8.64e12 seconds).
* `BodilessAssumption`, `WorkflowStepsAssumption`, `LegacyAssumption`: sets of operations and
  statuses are that. `FlushesAssumption`: the calls of a tap and of a pass have different
  names.

Hypotheses of single theorems are `OneAtATime` (at most one request) and, for capacity,
`ListingsAreComplete`; `FleetSequential` is an instance of both.

Only model-checked:

* Every liveness property (`QueueDrains`, `VisitEnds`, `PageSettlesOnFeedback`, `StreamDrains`,
  `FleetPagesSettle`, `ShellCatchesUp`, `CacheSettles`, `RangeSettles`, `BoardSettles`, `ListSettles`):
  fairness and ENABLED are out of the prover's reach.
* What the examples of `findings` and of the extra configurations show: a counterexample
  needs no proof.

## 5. Plan

Done, in this order: OrderLifecycle, OrderJourney, Fleet, Idempotency, OfflineSync over
both; then what is seen from outside (tokens, tracking, notification), the realtime
path, the dispatcher's pages, the planner, the driver's visit and cache, the accounts,
the shell, analytics; the proofs about the table, plans and idempotency; then a theorem
for each safety property of the other components, the refinement of Idempotency by
the driver application, and capacity; induction over data, and with it the planner and
the files; and the specifications of several parts as the runs check them.

Next, by importance:

1. An abstract specification shared by the pages that poll (a copy of a row that may
   lag), refined by DispatchBoard, FleetRoster and LiveLocation.
2. What a started route keeps when requests overlap: which of `StopMirrorsOrder` and
   `TimelineAgrees` is left without `OneAtATime`.
3. An index that lags behind the table, in Fleet's listings.

## Not modelled

* HTTP parsing, validation, schemas, configuration, metrics, logs: no state of the
  domain. What matters of them to a property, the ten-second timeout and the wrapped
  response, is in the modules of their callers.
* Authorization inside Fleet: a stateless filter; where it meets state, the outbox of
  a device, it is Session's.
* Profile edits of drivers, the history of positions, summary counts and the pages of
  exceptions, routes and settings, which list what they are given.
* Rendering, markup, icons, maps, local filters and search, and the mock data of
  development: no state another actor changes.
* Infrastructure descriptions, load tests and scripts, the learner-lab target, the Spark
  job's own computation. The parts with behaviour (hosting, the stream's retries,
  the table's TTL, the workflow) are mapped where their readers are modelled.
* Cognito, Nominatim, OSRM, Twilio, S3 and DynamoDB are modelled from how the code uses
  them: they answer, fail, or answer without being heard.
