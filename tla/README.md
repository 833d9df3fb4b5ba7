# TLA+ models of astroplant-api

AstroPlant kits grow plants, measure them, and talk to a server over MQTT. This
directory holds TLA+ models of the server side: what its tasks, channels,
transactions and processes do together, the TLC runs that check them, and
theorems TLAPS proves about them. Paths below are relative to the repository.

    tlc -workers 2 -config KitRpc.cfg MCKitRpc.tla     # one run
    tlapm KitRpcProofs.tla                                 # one proof module

`PROJECT.json` lists components, runs, hazards, findings and theorems, says for
every definition which lines it models, and gives for every checked property a
mutant: a plausible bug of the code under which TLC finds the property violated.

## 1. Inventory

Two processes and a library of shared crates:

- `astroplant-api`, the HTTP server. Tokio tasks: one per HTTP request, the task
  that consumes the MQTT stream, the kit RPC driver, one per server RPC request,
  one per WebSocket connection and per subscription, the publisher of raw
  measurements, the cleaner of their cache.
- `astroplant-mqtt-ingest`, which stores measurements. One thread: the task that
  consumes its own MQTT stream, and eight runners.

They share PostgreSQL; the server also has an object store (S3 or local files).

| component | state | operations | interacts with |
|---|---|---|---|
| kit RPC (`astroplant-mqtt/src/kit_rpc.rs`) | request and response channels (8 each), table of waiters, `next_id` | call, publish, insert waiter, take response, cleanup, stop | HTTP handlers call it; it publishes through the MQTT client's queue; the stream hands it responses |
| MQTT client and server RPC (`astroplant-mqtt/src/lib.rs`, `server_rpc.rs`) | connection, buffered events, queue of 32 requests, rate limiter | poll, subscribe, dispatch by topic, answer a kit's request | the broker; kit RPC; the consumer of the stream |
| raw measurements (`astroplant-websocket`) | broadcast channel per kit, cache of last values | subscribe, forward, tick, leave; publish; clean the cache | the MQTT consumer through a channel; WebSocket clients |
| configurations (`controllers/kit_configuration`) | `kit_configurations`, `peripherals` | create, clone, patch and activate, delete; add, change, delete peripherals | kits read the active configuration by server RPC; ingest reads peripherals |
| media (`mqtt/mod.rs`, `controllers/media`, `astroplant-object`) | objects, `media`, `queue_media_pending_deletion` | upload; delete a medium, configuration or kit | the MQTT consumer; configurations; kits |
| memberships (`controllers/kit`, `helpers.rs`, `authorization`) | `kits`, `kit_memberships` | create and delete a kit; add, patch, delete a membership | every handler asks it for permission |
| ingest (`astroplant-mqtt-ingest`) | task pool, cache of peripherals, measurements, `kit_last_seen` | enqueue, run, look up, insert, mark seen | its MQTT stream; peripherals of the server |
| listings (`controllers/media`, `controllers/measurement`, `cursors.rs`) | none; a cursor in the next link | read a page | `media`, measurements; the pool |
| archive (`controllers/kit/archive.rs`) | a task per download, a pipe per entry | authorize, start, write and zip two entries | the pool; measurements; the client |
| pool (`database.rs`) | 8 connections | get, give back | every handler |
| tokens and hashes, users, read-only routes, admin CLI, HTTP types | see `PROJECT.json` | | not modelled but for the archive's token, section 8 |

What is hard about them, and what makes them correct:

- **Kit RPC.** Publishing and inserting the waiter are two steps with an await
  between them, so an answer may be back first; answers are late, duplicated,
  malformed, of the wrong variant or for somebody else; callers hang up; the
  driver stops with calls in three different places. Correct: a caller gets the
  answer to its own request or a time-out, always one of them, and leaves
  nothing behind.
- **MQTT client.** One task both fills and empties the queue. Correct: it goes
  on polling, is subscribed again after each reconnection, and answers what it
  read.
- **Raw measurements.** A table under a lock, channels in it, and tasks that
  look the table up several times on their way in and out. Correct: no channel
  stays without a receiver, nobody sees time run backwards, gaps are those that
  lag explains, or else the race on the table that is finding 2.
- **Configurations.** Every handler reads in one transaction and writes in
  another. Correct: one active configuration per kit; what a kit has run is not
  changed afterwards.
- **Media.** Three stores, no transaction over them; deletions that go through
  their rows one by one at read committed, wait for each other half way, and may
  wait in a circle. Correct: rows lead to objects, objects without rows are
  queued for deletion, deletions end.
- **Memberships.** Invariants across rows that no constraint backs. Correct: a
  member with super access remains, one membership per user.
- **Pool, listings, archive.** Some handlers hold a connection while they wait
  for a second one; a download goes on after its handler, and after its client;
  a listing is many requests with changes between them. Correct: pages repeat
  and skip nothing, a finalized archive has all that was there while it was made,
  requests end.
- **Ingest.** A queue of idle runners and a `Notify`; a cache that is filled
  across awaits and never emptied; two statements without a transaction.
  Correct: nothing filed under the wrong kit, no message stuck.

## 2. Modules

| module | models | abstract specification | instance for TLC | proofs |
|---|---|---|---|---|
| `KitRpc` | driver, callers, channels, any network | `RpcPromise` | `MCKitRpc` | `KitRpcProofs` |
| `MqttClient` | the stream, the event loop, server RPC; extends `KitRpc` | `KitRpc` itself | `MCMqttClient` | `MqttClientProofs` |
| `RawMeasurements` | subscriptions, channels, cache, publisher | | `MCRawMeasurements` | `RawMeasurementsProofs` |
| `Configurations` | requests on configurations and peripherals | `ActiveSlots` | `MCConfigurations` | `ConfigurationsProofs` |
| `MediaStore` | upload and deletions | | `MCMediaStore` | `MediaStoreProofs` |
| `Memberships` | requests on memberships | | `MCMemberships` | `MembershipsProofs` |
| `Ingest` | pool, cache, database | | `MCIngest` | `IngestProofs` |
| `Paging` | order and cursors of pages | | (in `MCHandlers`) | (in `HandlersProofs`) |
| `Handlers` | pool, listing, double connections, archive; extends `Paging` | | `MCHandlers` | `HandlersProofs` |

No module declares a RECURSIVE operator. An operator whose comment says
"Mutant" is not part of a specification.

**KitRpc.** A call is a member of `Calls`; `pc[c]` is where `KitsRpc::version`
and its siblings stand (before `send`, in `send`, waiting on the oneshot, done,
or gone: the HTTP handler's future was dropped). `requests` and `responses` are
the mpsc channels, `outbox` the client's queue, `driver.at` the await of
`Driver::drive` the task is at, `waiters` the hash map. `TakeRequest`, `Publish`
and `InsertWaiter` are `handle_request` cut at its await; `TakeResponse`,
`Cleanup` and `Stop` the other branches of `select!` and what follows the loop,
including what dropping the driver does to the calls still in its channel and
table. `Receive` decodes a response: a body that does not decode but has an id
still reaches its waiter. The kit, the broker and the clock are external: a kit
may answer what reached it at any time, again, or never, and with `StrayIds`
what nobody asked of any kit. `answerer` records on whose topic the answer a
caller was given came, whether or not a call had asked for it. Time is `age`,
ticks since a waiter was inserted. A caller is atomic up to `send`; the four
kinds of call differ only in which answer is the right variant, which `Bodies`
and `Verdict` keep.

**MqttClient** replaces the `Transmit`, `Receive` and `CloseStream` of that
network by the one task that polls. `poller.at` is the await it is at:
`poll` (the event loop), `subscribe`, `deliver` (handing a response to the
driver), `consume` (the consumer has the message: `send` to the publisher's
channel, or `upload_media`). rumqttc is external: a poll returns a buffered
event, or connects, or sends one packet, or reads a batch; after an error it
connects again with a clean session. The QoS 1 acknowledgements and rumqttc's
in-flight window are left out.

**RawMeasurements.** `pc[s]` names the statement of `RpcServerImpl::sub` that
the task of subscription `s` runs next. Every lock of the table or cache is one
step, every gap between two locks a place for the others. A channel is named by
the subscription that created it; `queue` is a receiver's backlog, of which
`SendTo` overwrites the oldest as tokio's broadcast does. `lagged` and `muted`
follow the `Ok(..) = receiver.recv()` branch that is disabled when the receiver
lags, until the interval ticks. `raced` records that another task of the kit had
looked at the table and not yet changed it when `s` subscribed (`Changing`).
Measurements of a kit are numbered, a value standing for the latest of one
quantity.

**Configurations.** `Read...` is the query before (with its permission check
and early returns), `Commit...` the transaction after, which uses what
`request[r]` held on to. `Index` is the partial unique index, `Stamp` the
trigger that sets `first_activated_at`, `DeleteParts` a cascade. Ids are never
handed out twice (`made`).

**MediaStore.** `deletion[r]` is a transaction: the statement it is at (`queue`,
`remove`, `drop`, then `finish`, the foreign keys and the commit), the row that
statement has come to (`on`), those it has still to come to (`todo`), and what it
has queued, removed and dropped so far, which nobody else sees before `Commit`.
A statement works on the rows that were committed when it began (read
committed), one at a time in any order (`Coming`), and waits at a row for the
transaction that holds it: `DeletionWaitsFor` has the UNIQUE key of the queue,
the rows of media, the row of the kit, the configurations, and the rows a foreign
key has to look at. After the wait a medium that is in the queue by now violates
the key and the transaction fails, although its row is gone too: statement 1
does not look at it again; a row that is gone by now is passed over by
statements 2 and 3. Circles of waits are possible, and PostgreSQL's deadlock
detector fails one transaction of a circle (`Deadlocked`, external). `Restrict`
is the foreign keys when the configuration goes. The peripherals of all
configurations concerned go in one step, before the foreign keys of media are
looked at. `upload` is the consumer of the MQTT stream: one upload at a time,
whose row holds the peripheral while its insertion lasts (`check`); the locks it
takes on kit and configuration are taken and given back within `CommitRow`. That
the medium, the configuration or the kit was found and the user allowed to
delete it is some time before `Begin`: another deletion may have come first.
Ghosts remember refused puts (`refused`), media that had a row (`inserted`), and
those that fell into the window of the finding (`missed`).

**Memberships.** A request opens a transaction with a snapshot (`start`), its
reads and one write; `log` holds what has committed since the oldest open one
began. PostgreSQL is external: it lets a serializable transaction commit only
if some order of those in the log gives each what it read (`Serializable`), not
necessarily that of the commits, and may abort any. `create_kit`
and `delete_kit` run at read committed in one step.

**Ingest.** `runner[r].at` is the await of a runner or its task; `idle` the
queue of oneshot senders, `permit` the permit of `Notify`. `Lookup` and `Query`
are `config_and_kit` cut at its await, `Insert` and `Seen` the two statements.
`Restart` is the `?` of `main`, which ends the process with its tasks.

**Paging** has what `models/media.rs`, `models/measurement.rs` and `cursors.rs`
compute: the order of rows, the page below a cursor, and the cursor of the next.
`ORDER BY` and `LIMIT` are stated by rank: the i-th row of a page is the one with
i - 1 rows listed before it (`Before`), which no recursion is needed for.

**Handlers.** A client makes one request, or lists pages. `at[c]` is the await
its handler stands at; `After` says what a request that gets a connection goes
on with, `HeldAt` how many connections are in scope there, `Out` those that are
out: the permission check (`fut_kit_permission_or_forbidden`) has given its own
back before a page is read, but `delete_media`, `download_media` and
`upload_media` keep the first while they ask for the second. `Spawn` starts the
archive's task, of which `job[c]` is the entry being made (`stage`), the
writer's side of `join!` (`writer`, `todo`), the pipe, and the zip's side.
Between the query for the columns and that for the rows measurements are stored
(`Ingest`) and deleted by cascade with their configuration
(`DeleteConfiguration`, also a kit or peripheral of it); `early` is what was
there at the first query and has not been deleted before the second. `Cut` is
every error the code drops with `let _ =` or `while let Some(Ok(..))`;
`file[c].cut` records the entry it happened in. When the client has left,
`ZipFails` ends the zip's side, but `reader` is only borrowed by `append` and
stays in scope: nobody reads, and a writer with more to write than the pipe has
room for waits for ever, as does `write_zip`. The SQLx pool of the measurements
is not counted: waiting for it ends by its time-out, which `Cut` covers.

## 3. Runs

Sizes are distinct states found by TLC.

| run | states | shows |
|---|---|---|
| `KitRpc` | 2.4 M | calls to one kit and to two, a restart, stray responses: right answer to the right caller, always sent by its own kit, none lost or dropped, none early, refinement of `RpcPromise` |
| `MqttClient` | 18 k | room in the queue: the stream polls on, resubscribes, answers queries, and is a network in the sense of `KitRpc`; over it every call ends and the table is reclaimed |
| `MqttOutage` | | violation of `StreamKeepsPolling`: queue full at a reconnection |
| `RawMeasurements` | 117 k | channels, order, gaps of receivers that met no race, end of subscriptions |
| `RawMeasurementsPanic` | | violation of `ListenersInvariant` |
| `Configurations` | 2.1 M | one active configuration; refinement of `ActiveSlots`; what is used settles |
| `ConfigurationsRace` | | violation of `SetupFrozen` |
| `MediaStore` | 457 k | objects, rows, queue, overlapping deletions that wait row by row |
| `MediaLost` | | violation of `NeverLost` |
| `Memberships` | 624 k | super member, single membership |
| `Ingest` | 346 k | filing, last seen, no stuck message |
| `Handlers` | 84 k | pages, archives, and that requests end unless the pool is jammed |

The four violations are findings, with the comment or assertion they
contradict, in `PROJECT.json`:

1. **A consumed stream may stop for good.** `into_stream` says that consuming
   the stream is what progress takes. On `ConnAck` its task awaits
   `subscribe`, which needs room in a queue only this task empties. Two kit RPC
   requests (32 in the code) that are in the queue by then, from an outage or from
   the moment before the subscription, are enough in the run.
2. **The table loses the channel of a live receiver, and `expect("invariant")`
   fails.** Drop, count and remove are three steps. A task that has counted no
   receivers removes the channel although another has subscribed to it since;
   that one hears nothing more, without lag and for as long as its socket is
   open, and panics when it leaves unless somebody has registered another
   channel. Two tasks that end together fail the same way (one removes, the
   other looks up), and of two first subscriptions that both find no channel the
   one that registers last leaves the other deaf. `NoSilentGap` says that these
   are the only silent gaps: it holds of every subscription that met no other
   task between its look at the table and its change to it (`raced`).
3. **Rules change after activation.** `never_used` is read before the
   transaction that relies on it.
4. **Media are lost.** A row committed between the two statements of a
   deletion is deleted by the second without having been queued by the first.

`SettledStays` is what is left of `SetupFrozen`: a request that read a
configuration before it was activated may change it after, but once those are
over it stays as it is. It is what the readers rely on that take rules and
peripherals by separate statements (the clone, `getActiveConfiguration`, the
archive).

`EveryRequestEnds` has two exceptions, which the model does reach and no comment
of the code speaks of, so that they are stated in the property and not as
findings: `Jammed`, every connection held by a handler that waits for a second
one or by an abandoned download, and `Stuck`, the writer of an abandoned
download. From `Jammed` nothing recovers while clients stay, since
`PgPool::get` has no time-out; the upload waits in the task that consumes the
MQTT stream, which then stops too.

## 4. Bounds

Model values stand for calls, kits, subscriptions and so on. Why the sizes are
enough to meet the cases that matter:

- `KitRpc`: two calls (`MaxCalls`) out of three, two of which are to the same
  kit: answers could cross, or kits could; channels of 1 or 2, so they are full;
  an answer can be pending before its waiter is there. `Timeout` 2 lets the
  cleanup see a waiter that is too young and one that is old enough.
  `MaxCrashes` is 1: after it, numbers are used a second time. `StrayIds` has
  the number both calls may get.
  `MaxForeign` bounds other packets in the queue.
- `MqttClient`: one call, one query, one lost connection, a queue of 4 that has
  room for all of it together (request, subscription per connection, reply),
  which is the run's assumption. `MaxForeign` is not below the queue's capacity,
  so that it bounds nothing here (`BoundAssumption`). `Batch` 2 makes events
  wait behind each other. `MqttOutage` has two calls and a queue of 2.
- `RawMeasurements*`: two subscriptions of one kit, which is what shares a
  channel; backlog of 1 and two measurements, so receivers lag. Subscriptions
  of different kits share nothing but locks held for one step.
- `Configurations`: three configurations of two kits, two requests, two
  peripherals, `MaxEdits` 2: edits that give distinguishable contents.
  `ConfigurationsRace` needs one configuration.
- `MediaStore`, `MediaLost`: two media of two configurations of one kit, two
  requests. A deletion of the first medium, of its configuration or of the kit
  (`Targets`) overlap in part. Two deletions of the kit come to the two media in
  different orders, so they wait in a circle, as do a deletion and an upload.
  The first medium is delivered twice, and the store may refuse the second
  (`Refusable`; `MediaLost` leaves refusals out, which it does not need).
  Crashes are not bounded.
- `Memberships`: two users, three ids, three requests, `MaxLog` 2: three
  overlapping transactions are what a dangerous structure of serializable
  snapshot isolation needs.
- `Handlers`: two connections, for two handlers that want two each; either a
  listing, a deletion and an upload, or a download and a deletion (`Mixes`),
  since a third actor adds nothing to what they share. Three rows of which two
  have the same time, pages of two: a full page, a short one and an empty one,
  with the cursor's row deleted in between. Two measurements with different
  values, configurations in two pieces and a pipe of one: the writer waits.
  `Belongings`: one configuration, with two of the rows and one measurement, may
  be deleted, and what of it is stored later again.
- `Ingest`: two runners and three messages, so the intake waits; one message
  names another kit's peripheral; each taken at most twice; one restart.

Deadlock is not checked (`CHECK_DEADLOCK FALSE`): the bounded work gets done and
the system stops, as it may. (In `MediaStore` and `MediaLost`, where the process
may always crash, nothing needs to be said.) What waiting could go wrong is
stated as liveness. Symmetry is used in the two largest runs, which check no
liveness.

## 5. Fairness

- `KitRpc`: `tokio::select!` picks at random among ready branches, so a branch
  ready again and again is taken: strong fairness of `TakeRequest`,
  `TakeResponse`, `Cleanup`, `Stop`. Tokio's semaphores are first come first
  served: strong fairness of `Enqueue` and `Publish`. Weak fairness of the
  clock and of the client's transmission. Kits owe nothing: `Answer` has no
  fairness.
- `MqttClient`: the same, with the task that polls weakly fair and sending
  strongly fair (the event loop's `select` is random); the broker can be reached
  again; the consumer comes back. It is the consumer and the broker that these
  assume something of, and the doc comment of `into_stream` asks the same.
- `RawMeasurements`: tasks run; the authorization check returns; measurements or
  the interval's tick come. Clients owe nothing.
- `MediaStore`: the upload runs on, and strong fairness of each deletion: one that
  waits for a lock is woken when it is let go, and is not overtaken again and
  again by requests that came later, since PostgreSQL queues those who wait for a
  row. The deadlock detector looks at every wait that lasts. Nobody owes a
  request, and the process may die at any time.
- `Ingest`: tasks run and the database answers or fails.
- `Handlers`: strong fairness of a handler's and of a download's steps: they run
  when they can, a connection that comes back again and again comes to everyone
  who waits, since deadpool serves its waiters first come first served, and a
  client that stays reads what it is sent. Clients owe no request.

## 6. Proofs

Eight modules, for every value of the constants their assumptions allow. Every
safety property of every passing run, invariant or action property, type
invariants and the refinement included, is a theorem. TLC evaluates the
assumptions in every run. They are typing of the constant functions; markers
(`None`, `NoCall`, `ConnAck`...) that are no data values; capacities at least 1;
finitely many rows, clients, concurrent requests and subscriptions, where
something is counted (`Paging`, `Handlers`, `Memberships`, `RawMeasurements`);
ids that tell rows apart (a primary key); and that `MaxForeign` is no tighter
than the queue itself (`MqttClient`). Nothing is assumed of the sizes.

- `KitRpcProofs`: `Typing` is split into the conjuncts each part of the system
  disturbs. Then *origin lemmas* say, for each place a request or answer can be
  (queue, delivered, response channel, waiter, outcome), where what is there
  after a step was before it. With them `OwnKitAnswers` (`AnsweredByOwnKit`)
  carries "the kit in the envelope is the kit of the call" along the way, with
  restarts and stray answers allowed: `answerer` is taken from the envelope, so
  that of a stray, too, it says which kit sent it. `AnswersMatch`
  (`AnswerMatchesRequest`) carries, as long as there was no restart, "a number
  names one call, and numbers in flight are below `nextId`"; `NotRestarted` says
  that before a restart there was none. The condition is needed: numbers start
  again at 0 after a restart (`kit_rpc.rs:254`). `NobodyIsLost` (`NoLostCall`)
  follows a call from the channel to the driver to the table: each of
  `QueueKept`, `BusyKept` and `WaiterKept` says that a step hands it on or wakes
  its caller. `AnswerFindsCaller` (`ResponseFindsWaiter`) adds that nothing
  outside knows a call before the driver publishes it (`Found`), for which a
  call may be in one of these places only (`Ahead`). `TimeOutsAreDue`
  (`NoPrematureTimeout`) needs that the number the driver is about to insert is
  in the table of nobody (`NumberFree`): a waiter that was overwritten would be
  told too early. `DriverKeepsPromise` (`KeepsPromise`) is the refinement of
  `RpcPromise`: the mapping reads a call's status off `pc` and `outcome`, and
  one lemma per kind of step says that it is a step of the promise or a stutter.
  That a call is answered only after its request has reached the kit is
  `Accounted`: so is what is in the response channel.
- `MqttClientProofs`: `NetworkOfKitRpc` (`IsKitRpcNetwork`) shows that every
  step of the stream, the event loop and the server RPC is one of the network
  `KitRpc` supposes, or leaves it alone. The invariant, `MqttInv`, says of the
  responses in the buffer and in the task's hands that they answer requests that
  have reached their kits (`Carried`). `PromisesOverConnection` draws the
  conclusion: all of the safety properties of `KitRpc` hold over the real
  client, however often the connection is lost. `MqttTyping` (`MqttTypeOK`);
  `SubscriptionNeverLost` (`SubscriptionPending`) rests on two lemmas, that what
  is queued stays queued until it is sent, and that a connection begins with the
  acknowledgement the subscription follows.
- `RawMeasurementsProofs`: `Typing` (`TypeOK`) with `TypeInv`, which adds what a
  step needs of `pc` and channels. `ChannelsRemoved` (`NoChannelLeak`): the
  property is not inductive, since a task looks its own kit up and must find a
  channel of that kit; `OwnKit` says that table and receivers agree on kits.
  `InTime` (`NeverGoesBack`) rests on `Order`: what a task has dumped, what the
  client got and what is queued come in order and are not newer than the cache
  or what is being sent; `Fresh` says that a subscription that has not been
  given a receiver has nothing yet. `NothingMissed` (`NoSilentGap`) is in two
  halves. A receiver in touch with the registered channel has got or has queued
  all that was sent (`RegisteredHears`, `GapStep`). And one that met no other
  task about to change the table stays in touch with it (`Undisturbed`,
  `Heard`): whoever removes or replaces a channel has looked at the table before
  and found no receiver, so that it was about to change it when this one
  subscribed.
- `ConfigurationsProofs`: `AtMostOneActive` (`OneActive`) and `SlotsKept`
  (`KeepsSlots`, the refinement of `ActiveSlots`) from an invariant that says
  nothing of what requests hold on to: stale reads do no harm here because the
  transaction deactivates before it activates and the index checks the result.
  `UsedSettles` (`SettledStays`) needs in addition that a peripheral a request
  holds on to has not changed hands (`Owned`), which is so because ids are not
  used again. `TablesKeepShape` (`TypeOK`) adds that what a clone has
  read of the rules is within their bound (`Numbers`).
- `MediaStoreProofs`: `Kept` (`KeptOrQueued`), `RowsHaveObjects`
  (`RowHasObject`), `QueuedAreRemoved` (`QueuedIsRemoved`). Every step of a
  deletion is first put in one form, what the transaction held before and holds
  after (`Turns`, one lemma per step), which the four proofs share. `Kept` and
  `RowsHaveObjects` follow what an open transaction has queued and removed
  through to its commit (`Accounted`); the third says that a medium which was
  queued was there, so that a row after it is of a second delivery.
  `LocksKeepApart` (`TypeOK`) is about overlap: no two deletions hold the same
  entry of the queue, the same deleted row or the same configuration, and what
  they hold is still what the tables show to others (`Apart`); from this the
  foreign keys hold after every commit (`Tables`).
- `IngestProofs`: `FiledRight` (`FiledUnderItsKit`). The cache is right whenever
  it is filled, and no step empties an entry under a task that has checked it
  (`CheckedRight`); a restart ends both. `Typing` (`TypeOK`) needs that the
  queue of idle runners names each that offered itself once (`Queue`);
  `SeenAfterStored` (`KitSeen`) needs that too: the runner a message is given to
  is not at the second statement of another one. `NoOfferMissed`
  (`OfferIsNoticed`) is the safety half of `EveryMessageHandled`: who waits for a
  runner has not overlooked one.
- `MembershipsProofs`: `SuperStays` (`SuperRemains`) and `MembersAreUnique`
  (`OneMembership`). Two transactions that each read and write the same and did
  not see each other have no serial order (`Cycle`), so that one of them does
  not commit (`RivalFails`). The invariant says of a pending transaction that
  what it read still holds, or that a rival has committed (`AddOK`, `ChangeOK`):
  it read that the user has no row, or that somebody else has super access. No
  more of serializability is used than that. `SchemaKept` (`TypeOK`) bounds the
  log by `MaxLog` and the transactions that are open: each of them adds one entry
  at most, and is counted as open until it does (`LogInv`).
- `HandlersProofs`: `FinalizedIsWhole` (`ArchiveWhole`). `Owed` is what has to
  be with the writer, in the pipe or with the client by now, less the entries
  that an ignored error cut; `Faithful` says that it is (`There`), for a client
  that is there, that an entry which was cut is the last that was made
  (`CutLast`), and that nothing comes before its header or from an entry that
  was cut before it wrote (`InPlace`). When both sides of the join are done only
  the client has pieces. `DeleteKeeps` is the step that deletes measurements:
  before the second query it takes them out of what is owed, after it they are
  with the writer already. `PagesAreComplete` (`PagesCover`) is in two halves.
  Of a page: rows have different ranks and every rank is taken (`PlacesDiffer`,
  `PlacesTaken`), so that a page lists its rows in order and, unless it is full,
  all that is below the cursor (`PageHolds`). Of the listing (`Listing`): what
  was shown is in order down to the cursor's row, whether that row is still
  there or not, and what stayed and was not shown is below it. `PoolIsBounded`
  (`TypeOK`) counts the connections that are out: a step takes one more only if
  one is free, whoever holds the others.

Only model-checked: the liveness properties (`EveryCallEnds`,
`WaitersReclaimed`, `StreamKeepsPolling`, `QueryAnswered`, `ClosedEnds`,
`DeletionEnds`, `EveryMessageHandled`, `EveryRequestEnds`), which need fairness
and ENABLED and are beyond the prover; and the four violations of section 3,
which are behaviours TLC exhibits.

## 7. Plan

Done, in this order: kit RPC and its promise; raw measurements; configurations;
the MQTT client over kit RPC; media; memberships; ingest; kit RPC with restarts
and stray answers in one instance and in the promise; the pool, the listings and
the archive; what readers of configurations may rely on; and proofs of all
safety properties of all of them.

Next, extensions:

1. a second kit in `MediaStore` (kit of the topic against kit of the
   peripheral);
2. `access_configure` and the other actions of `authorization` in `Memberships`;
3. the limit of eight subscriptions per connection in `RawMeasurements`.

Next, proofs: the safety halves of further liveness properties, as
`OfferIsNoticed` is that of `EveryMessageHandled`: that a deletion which is not
in a circle of waits leads to one that does not wait (`DeletionEnds`), and that
the subscription finds room in a queue large enough for all that is sent
(`StreamKeepsPolling`).

## 8. Not modelled

- `astroplant-auth`, `random-string`, `controllers/me/auth.rs`: pure functions
  over opaque tokens and hashes; of tokens, that the archive's may expire is in
  `Handlers`.
- Users, kit details, password reset: a check and a write of one row. (Addresses
  are compared without regard to case but indexed with it, see the hazards.)
- The listing of kits: it pages by id, and its next link loses `lastSeenSince`
  (`controllers/kit/mod.rs:67`) in every behaviour.
- Permissions, quantity types, definitions: single reads.
- The zip format, the filters of listings and archives, the SQLx pool.
- `problem.rs`, `response.rs`, `views.rs`, `extract.rs`: formatting and parsing.
- `astroplant-admin` and the import of definitions: run once, alone.
- In the modelled parts: rate limiting of server RPC (whether a query is
  answered does not depend on it), the limit of eight subscriptions per
  connection, keep-alive pings, JSON-schema validation (a request may fail
  where it would).
