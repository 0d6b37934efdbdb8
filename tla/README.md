# A TLA+ model of fastprophetx

`fastprophetx` is a synchronous Python client of the ProphetX exchange: it asks
for markets over HTTP, keeps a live copy of their depth from a WebSocket feed,
and sends orders.  The hard part of it is concurrent: a feed thread, any number
of threads that refresh, and callbacks share one in-memory book, and the feed
comes and goes.  These modules model that part, check it with TLC on small
instances, and prove what matters most with TLAPS for every instance.

## The system

| component | state | operations | what makes it correct |
|---|---|---|---|
| `MarketCache` (`cache.py`) | depth per selection, a journal of feed writes, selection layouts, sequences, the snapshot fence (revisions, epochs), validity, versions, seeds | `apply_update`, `begin_reconcile`, `apply_authoritative_snapshot_result`, `seed`, `reconcile`, `invalidate_events`, `clear_event`, readers | a late REST answer never undoes the feed; an invalid book is revalidated only by an answer requested since; equal versions mean equal snapshots |
| payload decoding (`cache.py`, `odds.py`) | none | `_extract_groups`, `_extract_selection_layout`, `_prepare_group` | an empty position empties the selection that was there, and no other |
| `ProphetXWebSocket` (`websocket.py`) | subscription and generation, worker token and cancel event, socket and its owner, ready | `start`, `set_subscriptions`, `close`, the worker (`_run`, `_connect_once`, `_establish`, `_handle_update`) | ready means subscribed to what is wanted now; a lost feed is noticed; replaced workers do no harm; a started stream gets ready |
| `MarketStore` (`market_store.py`) | structures, blueprints, materialized markets, one lock per set of ids | `markets`, `refresh`, `clear_event` | what it returns is the structure and depth of one accepted answer and a valid book |
| `RequestScheduler` (`rate_limit.py`) | last request, last per path, cooldowns | `acquire`, `cooldown` | spacing and cooldowns hold for concurrent callers |
| `ProphetXClient` (`client.py`) | tokens, refresh deadline, price ladder | `_request`, token refresh, orders, cancellations, history | a mutation is sent at most once; an error says truly whether the outcome is known; one refresh per rejected token; every order of a batch gets a true outcome, and a search says "not there" only of what is not |
| odds, protocol, errors, models, endpoint presence, scripts | none | pure functions | not modelled: see below |

How they interact.  The WebSocket worker calls the cache while it holds the
stream's lock; `MarketStore.refresh` calls it while it holds the store's lock;
callbacks of the cache run after the cache's lock was given back, but under the
caller's.  The stream invalidates books when it loses the feed, the store (or
`MarketCache.reconcile`) validates them with REST answers, and the cache's fence
decides whose word is newer.  The worker and the store share the client, its
tokens and its scheduler.

What is hard, with the lines where it bites, is the list `hazards` of
`PROJECT.json`.

## Modules

### `MarketCache` — one cache and its threads

Every block under the cache's lock is one action.  What a thread does outside
the lock is a step of its own: reading the clock and copying the layout
(`Receive`, `ReadLayout`), and waiting for a REST answer (`Respond`).  So
`apply_update` is `Receive`, then `DropStale` or `ApplyUpdate`; a reconciliation
is `BeginReconcile`, `Respond`, and per event `ReadLayout`, then
`RefuseSnapshot` or `ApplyAuthoritative`; `seed` puts `Seed` in front of it and
`Finish` or `Fail` after it.  `InstallLayouts`, `Rebased` and `Kept` are the
three decisions `apply_authoritative_snapshot_result` makes: which layouts stay,
what the depth of a selection is, and which selections the event has.

A payload is what decoding makes of it: for each selection a group that merges
into the depth or replaces it, and the positional `selections` containers, whose
empty positions are resolved against the layout *copied before the lock* — the
reason the copy is a field of the thread and not the variable.

The clock moves with each update received, because the code compares only
times of updates and of request starts.  Two history variables, `overtaken` and
`wroteAt`, remember what properties are about and the code does not.

| run | what it shows | bounds |
|---|---|---|
| `cache_journal` | `FeedWritesSurvive`, `RestIsBase`, `VersionsTellSnapshots`, `LiveKeysKnown` | 1 event, 2 selections of a market, 2 prices, 1 thread, 3 updates out of 4 kinds (merge, delete, positional container with an empty position, replacement of the event), 2 reconciliations, 1 invalidation or clear |
| `cache_fence` | `FenceExact`, `RevalidationIsCurrent`, `KeepsPromise` | 2 events, 2 threads, 2 reconciliations or seeds of any subsets, 1 epoch per event, no updates |
| `cache_seed_clear` | a violation: see Findings | as `cache_fence` |

Three updates are enough for a write before a request, one between the request
and its answer, and one between the layout copy and the commit.  Two
reconciliations are enough for one to overtake another; the theorems below
cover any number.

`FenceExact` is stated over `Current`, the operator the guard of the commit
(`Accepted`) is made of, so a change of the fence changes what it speaks of.

### `Books` — what the cache promises

The abstract specification of a cache: per event what the book holds, its
version and whether it was declared invalid, and per thread the events for which
its request still counts (`fresh`).  A request takes its events away from every
other request; an answer counts once, only while nothing overtook it, and makes
the book valid; an update writes books and validates nothing; every change gets a
version never given before.  There is no journal, no layout, no revision and no
epoch in it.  `KeepsPromise` in `MarketCache` says that the cache implements it:
`content` is what `event_snapshot` shows, and `fresh` are the events of a request
whose revision and epoch are still the cache's.  TLC checks it in `cache_fence`;
`MarketCacheProofs` proves it.

### `LiveFeed` — the cache and the exchange

Extends `MarketCache` with an exchange that has the true depth, the channel that
carries what it publishes, and a link that breaks, is noticed broken, and is
subscribed again.  The exchange and the network are external: they are modelled
from the payloads the tests feed the client.  `Converged` is what the cache is
for: with the stream up and everything applied, a valid book is the exchange's.

| run | what it shows | bounds |
|---|---|---|
| `feed` (`MCConverged`) | `Converged`, `RestIsBase` when prices are published one by one, in order, or whole lines that may overtake each other, while two threads refresh | 2 selections, 1 price, 2 changes, 2 reconciliations, 2 epochs |
| `feed_gap`, `feed_shared_market` | violations: see Findings | 2 changes |

How the exchange publishes is chosen once, in `mode`: lines or prices, in order or
not, and whether the layout is known from an earlier answer.  The passing run
leaves out exactly what the violations are about: clients refresh only while the
link is up or its loss is not noticed (`RefreshWhen`), and a market has one line.
It also starts the line modes with a known layout: with `layoutKnown` false TLC
finds the second finding below.

### `Stream` — the life of a ProphetXWebSocket

The calls `start`, `set_subscriptions` and `close` are sequences of steps, one
per block under the lock, with the hang-up on the old socket and the wait for
the old thread in between; a call is made from a thread of its own or from a
callback, on the worker's thread (`on`).  A worker is a sequence of steps too:
`Loop`, `Snapshot`, `Connect`, `Install`, `Greet`, `Register`, `SignIn`,
`Acknowledge`, `BecomeReady`, and then it serves until it finds that it is not
current (`Leave`) or something raises (`Raise`), runs its `finally` clause
(`Finally`) and its exception handler (`HandleFailure`, `GiveUp`).  The network
may fail at each of them, at most `MaxFailure` times, and any number of times on
a socket that a caller closed.  `unfed` is history: books valid since their feed was lost.
The identity of a socket is used again once nobody holds it.  A call that would
change the subscription begins only while a generation is left for it
(`MaxGeneration`); a call that changes nothing may always begin.

| run | what it shows | bounds |
|---|---|---|
| `stream_calls` | `ReadyMeansSubscribed`, `LossIsNoticed`, `CurrentSocketStaysOpen`, `StoppedIsDisconnected`, `ReplacedIsHarmless` | 2 events, 2 calls at a time, 3 generations, 2 workers, failures only of sockets that a caller closed; events and calls are interchangeable |
| `stream_progress` | `LossIsNoticed`, `EventuallyReady`, `CancelledEnds` | 2 events, 1 call at a time, 2 generations, 2 workers, 1 failure |

Two workers and three generations are start, close, start, with a change of the
subscription at any point of it; two calls are what it takes for one to overtake
the other between its blocks.

Fairness (`FairSpec`).  Calls are weakly fair: nothing in them waits except for
the locks and for a join with a timeout.  Workers are strongly fair: a callback
that itself calls the stream suspends its worker, but each callback belongs to
one frame and the worker goes on to the next when it returns.  The server
answers or a deadline passes; failures are finitely many, since a stream whose
network always fails cannot get ready.

### `RequestScheduler` — threads that wait to be let go

One try of `acquire` under the lock is `Grant` or `Postpone`; the sleep lies
between `Postpone` and `Wake`, and after it the thread tries again.  `Cooldown`
is `cooldown` with any delay, also one that is past, for one path or for all.
Time is an integer that `Tick` moves; `Never` stands for minus infinity.  The
grants and the cooldowns asked for are history variables, in the order they
happened, so that `RequestsSpaced` and `CooldownsKept` can compare any two.

| run | what it shows | bounds |
|---|---|---|
| `scheduler` | `RequestsSpaced`, `CooldownsKept`, `NobodyOversleeps` | 2 threads, a market path and a plain one, interval 1, spacing 2, delays -1 and 2, 2 cooldowns, time up to 3 |

Time 3 is room for a market query, its spacing, a cooldown that ends inside it,
and the next grant; two cooldowns are a long one and a short one after it.  The
theorems cover every policy.

### `ClientRequests` — the calls of threads that share a client

Each thread makes one call: a read, `get_price_ladder(refresh=True)`, an order,
a cancellation, `authenticate` or `refresh_session`.  A call is a sequence of
steps: `BeginRequest`, `Ensure` (the look at the token without the lock),
`EnsureLocked`, `Send`, and an answer.  An answer 401 leads through
`RenewRejected` back to `BeginRequest`, once; an answer 429 back to `Send`.
A renewal is a request of its own, made while the lock is held (`SendRenewal`,
`Renewed`, `RenewalRejected`, ...), as is the request for the price ladder that
an order begins with.  The lock is reentrant: `Free(c)` is also true of its
holder, and `Release` gives back only what the block took.

A token is the number of its issue, and `due` says that the clock passed
`_refresh_at`; retry delays are those of `RequestScheduler` and do not appear.
The server is external: it accepts the tokens it has not revoked, and carries a
request out when it answers 200, does not when it answers another 4xx, and does
or does not when nobody knows (transport failure, 408, 5xx).  A batch of orders
counts as one order; what its answer says of each is in `Orders`.
A 200 whose body says that nothing was done ends like a transport failure after
which nothing was done.  `close` sets its flag and closes the connections in one
step.  `done` is history: what was sent, carried out and rejected for each call.

| run | what it shows | bounds |
|---|---|---|
| `client_calls` | `CarriedOnce`, `OutcomeTruthful`, `SendsBounded`, `RetryCarriesAnotherToken`, `RenewedWhenNeeded`, `EveryCallEnds` | 2 threads that read, order, cancel or refresh, 1 retry after a 429, 3 tokens |

An order begins with `get_price_ladder` and a refresh without a token is
`authenticate`, so the run leaves those two calls out; the theorems speak of all six.
Two threads are enough for one to renew the token that the other carries; three
tokens are one to be rejected, one renewed by each.

Fairness (`FairSpec`): the steps of each thread are weakly fair.  Every wait in
them ends: the scheduler's sleeps are finite, a request ends with an answer or
with the timeout of the HTTP client, and each thread makes one call, so that
nobody takes the lock for ever.

### `MarketStore` — structures over books

Extends `Books`: the store is written against what the cache promises, and the
proofs about it hold for any cache that keeps the promise.  Threads call
`markets` and `refresh`, forced or not; a call is a sequence of steps, one per
hold of the store's lock or per look at the cache inside of it, because the feed
writes books without the store's lock.  `markets` is `Look` (structures there and
young enough, versions read) and one `Fill` per event; otherwise it waits for its
turn (`TakeTurn`: one refresh at a time for the same set of ids), looks again
unless forced, and then `Begin`, `Fetched`, per event `Apply` (the book takes the
answer or refuses it) and `Note` (the structure follows), per event `Build`, and
`Return`.  `Raise` stands for a failed request, a malformed answer, or a callback
of the cache that raises in the middle of `Apply`.

An event's structure is the set of selections it lists, its markets the depth of
each; nested strikes, display fields and the reuse of unchanged parts of markets
(`_market_parts`, decided by identity of snapshots) do not appear.  The clock is
abstracted: any structure may be too old.  The answer to more than 50 ids is
one answer.  `basis` and `torn` are history: what the answer the book came from
implies, and the events whose refresh raised between book and structure.

| run | what it shows | bounds |
|---|---|---|
| `store` | `ResultsCurrent`, `StructureFollowsBook`, `EveryCallEnds` | 2 events with a selection each, 2 threads, 2 calls out of `markets` of one event, `markets` of both and a forced refresh of one, 1 write, invalidation or clear |

Two calls of overlapping, different sets are what runs side by side; one of them
may be answered after the other began.  An answer lists the selection, lists
nothing, or does not mention the event, so that the two answers may disagree.

Fairness (`FairStoreSpec`): the steps of each thread are weakly fair.  A request is
answered or times out, and the store's lock is held for finitely many steps, none
of which waits while it is held; callbacks that call the store themselves are not modelled (see
the hazards at market_store.py:85 and websocket.py:716).

### `Orders` — what a caller is told of its orders

A caller follows README.md:144-158: it submits an order only if it knows that it
is not placed, and searches for it by its external id if it does not know.
`Submit` sends a valid batch or a single order; the server places orders one by
one (`Place`), while others place theirs (`PlaceOther`); the call ends with an
answer (`Reply`) or an error (`Fails`).  `Tells` is `_parse_order_results`: an
answer is refused as a whole if any item lacks an order id, is about an order
that was not sent, names an order by an index and an external id that disagree,
or is about an order of another item; since any such item makes the call raise
the same error, the order of the checks does not appear.  `Outcome` includes what
`submit_multiple_orders` adds for omitted orders.  `Find` and one `Page` per
request are `find_order_by_external_id` and `iter_order_history`, in the order of
the code: the orders of a page are looked at before its cursor is.

The server is external.  Assumed of it: an answer that says something false of an
order says what is true of it as well (`Honest`), so that a contradiction can be
seen; a rejection is identified by external id or by index or not at all
(`Meant`); the pages tell the orders in a fixed order, end only when all were told
and never skip; and nothing of a request is placed after the request failed.  The
last one is the caller's to ensure, by waiting before it searches: the code has no
notion of it.  Time windows of a search contain the orders it is about.

| run | what it shows | bounds |
|---|---|---|
| `orders` | `KnowledgeTruthful`, `PlacedOnce` | 2 orders and 2 of others, batches of 1 or 2 and one that repeats an id, up to 2 items in each list of an answer, pages of 1, 4 pages |

Two items in each list are an order told twice, or accepted and rejected, beside
another; four pages over a history of up to four orders, with empty pages and
repeated cursors, are enough to reach the limit before the order.

## Proofs

### `MarketCacheProofs`

It proves, for every choice of events, selections, markets,
threads, updates, answers and bounds:

| theorem | property |
|---|---|
| `TypeCorrect` | `TypeOK` |
| `KnownKeys` | `LiveKeysKnown` |
| `FenceCorrect` | `FenceExact` |
| `RevalidationCorrect` | `RevalidationIsCurrent` |
| `VersionsCorrect` | `VersionsTellSnapshots` |
| `PromiseKept` | `KeepsPromise` |

Assumptions: those of `MarketCache` on its constants (event ids are positive and
finitely many, quantities are positive, every selection, market, scope and line
belongs to something, and of the containers of one payload one is last) and that
updates and answers are payloads.  TLC evaluates them in each run.

`LiveKeysKnown` is inductive by itself.  `FenceExact` is not: `FenceInv` adds
that no event has a revision that was not given out (so that a new request
overtakes all others), that a request's epochs are not ahead of the cache's (so
that an invalidation makes them differ), and that a thread applies only events of
its own request (`FenceHolds`).  `RevalidationIsCurrent` follows from it: the one
action that revalidates passed the fence, so its request was not overtaken.
`VersionsTellSnapshots` needs `VersionInv`, that no version is above the counter,
and one lemma per action that every event whose snapshot changes is bumped.

`PromiseKept`: the cache implements `Books` for all constants.  Initial states map
to initial states, and each action to a step of `Books` or to a stutter.  The
mapping needs `FenceInv`, so that the events of a request that still count are
those that `fresh` says and a new request overtakes all others, and `VersionInv`.
An action that changes versions maps to `NewVersions` by counting the events
bumped (`Bump`), one that changes books to `OnlyOf` by the events of the
selections it touched.

### `MarketCacheReplay`

| theorem | property | of payloads with |
|---|---|---|
| `FeedWritesCorrect` | `FeedWritesSurvive` | `OwnPayloads` |
| `RestBaseCorrect` | `RestIsBase` | `SteadyPositions` |

Both are about what the exchange sends as much as about the code: an answer for an
event that named selections of another would overwrite them without a journal
(`OwnPayloads`), and an answer whose positions belong to several lines of a market
empties what it offers (`SteadyPositions`; the run `feed_shared_market` shows it).
`MCMarketCache` assumes both of the payloads of its runs, so TLC evaluates them.

The journal is pruned, keeps only the last change of a price and is wiped by
clears and by installed answers, so the invariant has to say which entries are
still enough.  `ToldInv` says it for each request that still counts: the depth of a
price written since the request began is its last change, or 0 if a reset or a
replacement came later; and if the depth is not 0, the journal brings the selection
back after it left (`Restores`).  It is inductive with `ReplayInv`: the update in
hand is newer than every entry (`TimesInv`), an entry is never newer than the last
write (`Covered`), changes of an unknown selection are gone (`Forgotten`, without
which a replacement could leave a change behind), layouts come from payloads
(`PayloadsInv`), and of two requests for one event one was overtaken (`OneFresh`),
so that the answer that wipes the journal is the last one that needs it.
`CommitCases` sums up an update for one selection: it writes some prices, resets
it, or takes it out of its event.

### `LiveFeedProofs`

| theorem | property | assuming |
|---|---|---|
| `LiveInvHolds` | | `SteadyExchange` |
| `LiveRestBase` | `RestIsBase` | `SteadyExchange` |
| `ConvergeInvHolds` | | and `"down" \notin RefreshWhen` |
| `ConvergedCorrect` | `Converged` | and `"down" \notin RefreshWhen` |

`ConvergedCorrect` is what the cache is for, of any number of events, lines,
selections, prices, quantities and refreshing threads, and for every bound: with
the stream up and everything applied, a valid book is the exchange's.  Its
hypotheses leave out what the findings are about.  `SteadyExchange` says that a
market has one line (`feed_shared_market`), a selection one position, on a line of
its own event; that a client which is sent whole lines knows their layout (second
finding); and that messages overtake one another only as whole lines with a
sequence each — changes of single prices have to arrive in order, because the cache
drops the older of two messages of a sequence, whatever price it names.  A client
that refreshes while it knows it is disconnected is `feed_gap`; one that has not
noticed yet is covered.  `MCConverged` assumes both of the instance of
the run `feed`, so TLC evaluates them; the payloads of the cache are the
exchange's (`ExchangeAssumption`).

The proof uses of the cache only `CacheInv`, the invariants of `MarketCacheProofs`
and `MarketCacheReplay`: every step of the whole is a step of the cache or leaves it
alone (`LiveIsCache`).  `Converged` speaks of a quiet channel; the inductive
invariant says what holds on the way there.

* `LayoutInv`: with whole lines, every layout the cache or a thread holds has every
  selection in its place, although an empty position is sent as no selection.
  Without it an empty list would not empty the right selection.
* `SeqInv`: what is published and not yet applied has distinct sequence numbers, in
  the order of the changes, and none that was applied, so that a message is
  dropped only if a newer one of its sequence was applied (`ComingAfterCommit`).
* `DownInv`: while the client knows it is disconnected nothing is under way, every
  book is invalid, and no request under way counts any more.  This is where a
  refresh in that state would break the argument.
* `NewsInv`: of the messages still to come for a price (`Coming`: published, and
  not to be dropped) the latest says the exchange's depth.
* `BooksInv`: a price of a valid book is the exchange's, or there is more to come.
* `RequestsInv`: of a request that still counts, for each price (`Sound`): the
  latest message came after the request began, and will be applied or replayed;
  or the feed wrote the price since, and it stays (`FeedWriteStays`); or it did
  not, and the answer says the exchange's depth (`AnswerIsBase`).

Every step does one of three things to a price (`PriceStep`): it leaves it as good
as it was (`Calm`), puts the latest message for it in the channel (`News`), or
applies that message (`Settles`).  `BooksInv` and `RequestsInv` follow from that
alone, except where an answer is installed (`InstallPrice`) or given (`AnsweredNow`).

### `RequestSchedulerProofs`

| theorem | property |
|---|---|
| `SchedulerTypeCorrect` | `TypeOK` |
| `SpacingCorrect` | `RequestsSpaced` |
| `CooldownCorrect` | `CooldownsKept` |
| `SleepCorrect` | `NobodyOversleeps` |

for any threads, paths, policy and delays, assuming that the interval is positive
and the spacing is not negative (`PolicyAssumption`).  The properties speak of all
earlier grants and cooldowns, the code keeps only the last ones; the invariant
needs that the last ones cover all (`Remembered`): no grant is later than
`last_request` and `last_market_path`, no promised deadline is later than the
larger of the two cooldowns.  A grant then comes after every deadline
(`ReadyCovers`), and deadlines only move forward (`ReadyMonotone`), which is also
why nobody oversleeps.

### `ClientRequestsProofs`

| theorem | property |
|---|---|
| `TypeCorrect` | `TypeOK` |
| `CarriedOnceCorrect` | `CarriedOnce` |
| `OutcomeCorrect` | `OutcomeTruthful` |
| `RetryCorrect` | `RetryCarriesAnotherToken` |
| `RenewalCorrect` | `RenewedWhenNeeded` |
| `SendsCorrect` | `SendsBounded` |

for any number of threads, any mix of calls, any `max_429_retries` and any number
of tokens (`CallAssumption`).  The invariant says of each thread (`Good`) that it
holds the lock wherever the code is inside a block of it, that a renewal under way
still has its reason (`ReasonHolds`: nobody else can have renewed the token while
the lock is held), that the tokens rejected are older than the one a request is
made again with (`RejectedOlder`, with `access = issued`: the client has the newest
token it was given), and that nothing is carried out before the answer that ends
the call (`CarriedByEnd`).  A step of one thread keeps the others good
(`OthersStayGood`), because it changes the token only under the lock; so each
action needs a proof for its own thread only (`MoveKeeps`, `EndKeeps`).
`SendsBounded` counts what a call has sent on each side of a 401: once, and once
more for each retry after a 429.

### `MarketStoreProofs`

| theorem | property |
|---|---|
| `StoreTypeCorrect` | `StoreTypeOK` |
| `StructureCorrect` | `StructureFollowsBook` |
| `ResultsCorrect` | `ResultsCurrent` |

for any threads, events, answers and bounds (`StoreAssumption`: contents are
functions of the selections, nothing is known of a blank book).
`StoreTypeOK` also says that a materialized market shows prices the cache gave and
never the level its blueprint holds for a selection the cache does not know yet.
`StructureFollowsBook` speaks of states in which the lock is free; `StructureInv`
says what holds while it is not: whoever notes or builds holds the lock, and
only the one event being noted may be ahead of its structure.  `MarketsInv` says of
markets built or about to be returned that they are good (`Good`: of the current
version only if they are the structure over the current book), and that versions
only grow (`Newest`); a step that gives an event a new version makes all older
markets of it good (`BumpGood`), and a step that changes a structure drops the
markets built from it, under the lock, when no result is being collected.

### `OrdersProofs`

| theorem | property |
|---|---|
| `OrdersTypeCorrect` | `TypeOK` |
| `TellsTruth` | `KnowledgeTruthful` |
| `NeverTwice` | `PlacedOnce` |

for any batches, answers of any length, any pages and any number of other orders
(`OrdersAssumption`).  Two lemmas carry them: what the client takes a rejection
for is what the server means by it (`ToldMeant`), and so an answer that is not
refused tells the truth of every order (`AnswerTrue`); and a search has told every
order before its cursor, none of them the wanted (`Searching`), so that it may
end with "not there" only at the end of the history (`PageKeeps`).

### `StreamProofs`

| theorem | property |
|---|---|
| `StreamTypeCorrect` | `TypeOK` |
| `ReadyCorrect` | `ReadyMeansSubscribed` |
| `LossCorrect` | `LossIsNoticed` |
| `HangUpCorrect` | `CurrentSocketStaysOpen` |
| `StoppedCorrect` | `StoppedIsDisconnected` |
| `ReplacedCorrect` | `ReplacedIsHarmless` |

for any number of connections, subscriptions and failures, with finitely many
callers (so that a number for a new socket is left).  The invariant says of each
worker (`WorkerKnown`) that it works for the current subscription or for an
earlier one, and that the current one's socket is open; of a caller between two
locked blocks (`CallKnown`) that it holds only sockets of earlier generations,
which is why closing them cannot hurt the current one; that every closed socket
belonged to a worker; and that the cache takes the feed for connected only while
the stream's own worker lives (`FlagsHeld`).

### What is only model-checked

Liveness (`EventuallyReady`, `CancelledEnds`, `EveryCallEnds`) is out of the
prover's reach and stays with TLC.  Every safety property that a passing run
checks is a theorem.

## Findings

* `feed_gap` — README.md:169 says that reconnects invalidate the affected books.
  The loss of the connection does; the new connection does not.  A refresh made
  in between validates a book, and what is published before the subscription is
  complete is missing from it for good.  The example in the README refreshes
  after the stream is ready and is not affected.
* `LiveFeed` with a mode of `layoutKnown` false — an empty position is journaled
  only if the layout is known (cache.py:1008-1011), so an older REST answer can
  bring back an offer that was withdrawn, although cache.py:381 says that exact
  changes after the request are replayed.  There is no run of its own for it.
* `feed_shared_market` — the layout is keyed by event and market, but a market
  may have several lines; a REST answer can empty a selection that it offers.
* `cache_seed_clear` — `clear_event` forgets the seed state, and a seed in
  progress puts it back.

## Not modelled

Formulas over one number (odds, retry delays), shape checks of dictionaries,
JSON and base64, redaction of secrets and the scripts: they have no state and no
interleaving.  In `MarketCache`: wall clocks, exchange timestamps and other data
carried along; a payload that raises before the lock is taken changes nothing
and is left out.  A container gives all the positions of its line.  In `Stream`:
the length of the backoff (and with it `attempt` and `_ready_count`), health
timers (a timeout is a failure that may happen at any time), order callbacks and
`_invalidate_generation_books`, which nothing calls.  In `RequestScheduler`: the
counters of `diagnostics`.  In `ClientRequests`: the checks of arguments before
anything is sent, and `warmup`, which is made of other calls.

## Plan

1. `MarketCache`, `Books`, their runs, theorems and the refinement — done.
2. `LiveFeed` — done.  An abstract replica (a book is valid and equal to the
   exchange, or lagging by what is in flight, or invalid) that it refines.
3. `Stream` — done, with its theorems.
4. `RequestScheduler`, `ClientRequests`, `MarketStore`, `Orders` — done, with
   their theorems.
5. `LockOrder` and `UpdateWaiters` — stream, store and cache locks with
   callbacks; `wait_for_update` and the times it reads.
6. Proofs of `MarketCacheReplay` and `LiveFeed` — done.
