# Verification of the OpenTelemetry Demo and its MB3R stack

This directory holds TLA+ models of the parts of this repository where the order of events matters, the
TLC configurations that check them on small instances, and TLAPS proofs of what matters most. Paths below
are relative to the directory that holds this one, so the repository's `src/checkout/main.go` is
`src/src/checkout/main.go`, as in `PROJECT.json`.

## 1. The system and its parts

A web shop made of some twenty services in as many languages, instrumented with OpenTelemetry, and the
MB3R bridge, which turns the traces of the running shop into an availability model of it.

| Part | State it keeps | Operations | Talks to |
|---|---|---|---|
| checkout (Go) | none of its own between calls; a Kafka producer shared by all calls | `PlaceOrder` | cart, product-catalog, currency, shipping, payment, email, Kafka, flagd |
| money (Go package of checkout) | none | `Sum`, `MultiplySlow`, `Must`, predicates | - |
| cart (C#) | carts in Valkey, one hash field per user, expiring after an hour; one shared connection | `AddItem`, `GetCart`, `EmptyCart`, `Ping` | Valkey, flagd |
| accounting (C#) | consumer position; rows of orders, items and shipments in PostgreSQL | consume a message | Kafka, PostgreSQL |
| fraud-detection (Kotlin) | consumer position, a count | consume a message | Kafka, flagd |
| currency (C++) | the table of rates, shared by the gRPC threads | `Convert`, `GetSupportedCurrencies` | - |
| payment (JS), shipping (Rust), quote (PHP), email (Ruby) | none that lasts | `Charge`; `GetQuote`, `ShipOrder`; `getquote`; `send_order_confirmation` | flagd; shipping calls quote |
| product-catalog (Go), product-reviews and llm (Python), recommendation (Python), ad (Java), image-provider | the catalogue and the reviews in PostgreSQL; recommendation's cached product list; ad's CPU load and garbage-collection triggers | reads; failures on feature flags | PostgreSQL, flagd, each other |
| flagd and flagd-ui (Elixir) | the flag file; flagd-ui's copy of it in a GenServer, and one copy per open editor page | read, replace, write one flag | each other, through the file |
| frontend (Next.js) | a user id in the browser's store, and copies of it in modules; per currency, a copy of the cart; the assistant's last question; none in the API routes | API routes over the gRPC services, whose messages a generated module encodes and decodes | all of the above |
| react-native-app, frontend-proxy, load-generator | the app: a user id in its store, a copy of the cart | the same API routes | frontend |
| MB3R (Python): probe, sanitizer, exporter | the exporter's snapshot of the last good cycle; the files the sanitizer writes | poll, merge, publish metrics | Prometheus, Sheaft, Bering, the collector |
| telemetry back ends (collector, Jaeger, Prometheus, Grafana, OpenSearch) | third party | configured, not written, here | - |

How an order flows: the page adds products to the user's cart (frontend API, cart, Valkey); `PlaceOrder`
reads the cart, prices it with product-catalog, currency and shipping/quote, adds the prices up with
money, charges the card, ships, empties the cart, has the confirmation mailed, and hands the order to a
Kafka producer; accounting and fraud-detection consume the topic.

What is hard in it:

* `PlaceOrder` is five remote effects in a row without a transaction, a retry or an undo, and several
  calls of one user may run at once over one cart.
* All calls share one producer whose answers are not addressed to the call that waits for them.
* cart reads, changes and writes a user's whole cart in two Valkey commands.
* accounting commits its position on a timer, before or after its rows are written, and drops what it
  cannot store.
* The flag file has two kinds of writers: a serialised one per flag, and editor pages that write back the
  whole file they read when they were opened.
* The cart on the screen is a copy per currency, read again after each of the tab's calls by queries whose
  answers may come in another order; the user id is read and written by every tab of a browser; an answer
  of the assistant may come after another product was opened.
* Request bodies reach the protocol's encoder unchecked, and what arrives was written by another language.
* Currency conversion goes through floating point and back, and shares a table that reads can insert into.
* The MB3R exporter merges files of different cycles and must not show a stale or unavailable service as
  available.

What makes each part correct:

| Part | Correct if |
|---|---|
| checkout | a call charges, ships, empties and confirms at most once and for one basket; the status tells what happened; no line vanishes or is ordered twice but for a known reason; every call ends |
| money | sums are exact; no order panics; the amount charged is valid |
| producer | every message is answered to somebody; nobody waits for ever; the pipeline wedges only for a known reason |
| cart | a cart is what its calls made of it; nothing is invented; it expires; the connection is reopened once, and comes back |
| accounting, fraud-detection | every message published is processed or its loss has a known cause; what is lost is bounded |
| flags | flagd serves what was last asked of each flag |
| frontend, react-native-app | a shopper reads their own writes, and is one shopper; an answer belongs to what is on the screen; percentages add up; a message means the same on both sides |
| currency | a conversion is off by a rounding only; the set of currencies does not change |
| MB3R | what is shown belongs to one cycle, is not shown as current when it is not, and a journey with a missing service is unavailable |
| stateless services | the answer is the function of the request the code states; a flag changes it only as the flag says |

## 2. Modules

Each component module is the program alone: constants with named assumptions, `Init`, one action per
operation or step, `Next`, `Spec`, a fair `FairSpec` where liveness is claimed, the type invariant and the
properties. An `MC...` module gives TLC its symmetry or its set of inputs, and a `...Proofs` module holds
the theorems. Definitions whose comment begins with "Mutant of" are not part of the model: each is a bug
the named property would catch if it replaced the definition that follows.

| Module | Models | Code |
|---|---|---|
| `Money` | amounts, `IsValid`, `Sum` as operators | `checkout/money/money.go` |
| `OrderTotal` (extends `Money`) | the pricing loop of `PlaceOrder`, with `MultiplySlow` and `Must` | `checkout/main.go` 324-331, `money.go` |
| `OrderPages` (extends `OrderTotal`) | the totals the cart page and the order page show | `CartItems.tsx` 37-52, `pages/cart/checkout/[orderId]/index.tsx` 23-81 |
| `OrderLifecycle` | the abstract promise about one order | what `Checkout` implements |
| `Checkout` | concurrent `PlaceOrder` calls, the network, the services as they see them, the cart service's commands, crashes and restarts | `checkout/main.go`, `ValkeyCartStore.cs` |
| `Producer` | the Kafka producer shared by the calls, its error goroutine and the overload goroutines | `checkout/main.go` 630-694, `checkout/kafka/producer.go` |
| `Cart` | `AddItem` and `EmptyCart`, one Valkey command at a time | `ValkeyCartStore.cs` 132-201 |
| `CartConnection` | `EnsureRedisConnected`, its lock and its event handlers | `ValkeyCartStore.cs` 74-130 |
| `Accounting` | the consume loop, commits, `SaveChanges`, replicas, crashes | `accounting/Consumer.cs` |
| `FraudDetection` | the poll loop, batches, eviction, close, restarts | `fraud-detection/.../main.kt` |
| `FlagStore` | flagd-ui's `Storage`, its clients, and the flag file | `flagd-ui/lib/...` |
| `Verdict` | profiles, thresholds and the decision as operators | `mb3r/exporter/exporter.py` 457-582 |
| `Exporter` (extends `Verdict`) | the poll loop, the windows it compares, mirror files, the state shown, what the metrics make of it | `exporter.py` 261-454, 478-484, 623-647, 803-816 |
| `Storefront` | the copies of the cart a tab keeps, its calls, the queries after them, and the API routes between | `frontend/providers/Cart.provider.tsx`, `pages/api/cart.ts`, `checkout.ts` |
| `Session` | the store of the user id, with its tabs or with the phone's requests | both `gateways/Session.gateway.ts`, `Api.gateway.ts`, `CartDetail.tsx` 14 |
| `ProductPage` | questions to the assistant and what is shown of their answers | `ProductAIAssistant.provider.tsx`, `ProductReviews.tsx` 55-127 |
| `ReviewScores` | the distribution of review scores and its percentages | `ProductReviews.tsx` 26-53 |
| `DemoProto` | every message and method of the protocol, as the list of its fields | `frontend/protos/demo.ts` |
| `Codec` | `encode`, `decode`, `fromJSON`, `toJSON`, `fromPartial`, once for all messages | `demo.ts`, `gateways/rpc/*.ts` |
| `OrderTotalProofs` | theorems about `Money`, `OrderTotal`, `OrderPages` | |
| `CheckoutProofs`, `FlagStoreProofs`, `ExporterProofs`, `CodecProofs` | theorems about the module of that name | |
| `CartProofs` | theorems about `Cart` and `CartConnection` | |
| `OrdersTopicProofs` | theorems about `Producer`, `Accounting`, `FraudDetection` | |
| `FrontendProofs` | theorems about the client modules, as `MCFrontend` puts them side by side | |
| `MCMoney`, `MCOrderTotal`, `MCCheckout`, `MCProducer`, `MCCart`, `MCCartConnection`, `MCAccounting`, `MCFraudDetection`, `MCFlagStore`, `MCExporter`, `MCFrontend` | instances for TLC | |

`CartProofs` and `OrdersTopicProofs` extend several components at once. Where two of these need a name each
for the same thing, the names carry the component: `ProducerInit`, `ProducerNext`, `ProducerSpec` and
`ProducerTypeOK`, likewise with `Conn` in `CartConnection` and with `Fraud` in `FraudDetection`.

Boundaries between modules. `Checkout` treats pricing as one step that may end the process (`Crash`), and
`OrderTotal` says when it does. `Checkout` hands copies of its message to a producer that may not take
them, and `Producer` says when a call waits there; `Checkout`'s liveness therefore exempts a call that
waits for the producer. Of the cart service it has the commands that each operation gives to Valkey, over
sets of lines and with carts that may expire at any time; `Cart` has their quantities, their failures and what
sets a cart's time to live. `Accounting` and `FraudDetection` take a topic that may hold an order several
times, which `Checkout`'s `outbox` shows to happen. `Storefront` takes the services behind the API routes
as calls that are executed, perhaps late, or not at all, which is what `Checkout` and `Cart` show of them;
the user id its requests carry is the one `Session` is about, and `Codec` is the way each of them takes.
`MCFrontend` brings the six client modules together.

## 3. State, actions and properties

### checkout: `Checkout`, `OrderLifecycle`

`pc[c]` is the place of a call in `PlaceOrder`, named for the remote call whose answer it awaits; `basket`,
`owner` and `reply` are its locals and its result. A remote call is split: `Send` puts it on the `wire`,
`Serve` executes it (appending to the history `served`) at any later time or never. (`Lose`, of an
`EmptyCart`, only makes a difference to the two calls it would tell apart.) The call's next step needs an
answer if the code needs one (`CardCharged`, `OrderShipped`), and does not where the code ignores the error
(`EmptyReturns`, `EmailReturns`). `FailBeforeShipping` and `ShippingFails` are always possible, because a
deadline or a cancelled context gives an error for a request that was, or will be, executed. `Crash` ends all
calls and leaves the wire as it is.

The carts change by commands. An `AddItem` is `ReadCart`, which keeps what it has read in `adding`, and
`WriteCart`, which writes that back with a line more, or `DropAdd`, if that is never executed; in between
others may write, and may be undone. `EmptyCart` is one write. `Expire` empties a cart, since each has an
hour. The histories `late`, `overlap` and `crossed` name what may go wrong: `late` has the lines written while
somebody else had read the cart and was going to write it, and those that expired; `overlap` has the pairs of
calls that read before either had emptied; `crossed` the calls whose `EmptyCart` came between the read and the
write of an `AddItem`.

* `OneBasketOnce`, `StatusTellsTheOrder`: the calls have no idempotency key, so "at most once" rests on
  the code never sending a request twice and never going on after an error that counts.
* `OnlyLateLinesVanish`, `NoDoubleOrder`: the code does lose lines and order twice. The two properties say
  exactly when. A line vanishes if it was written between `getUserCart` and the execution of `EmptyCart`,
  between the read and the write of another `AddItem`, or if its cart expired. A line is ordered twice if two
  calls read before either has emptied, if an `EmptyCart` never took effect, or if one came between the two
  commands of an `AddItem`, which may restore what it had read.
* `ImplementsLifecycle`: with the history of executed requests as refinement mapping, every step is a step
  of `OrderLifecycle` or leaves it alone.
* `EveryCallReturns`: under the fairness below a call ends, or waits for the producer.

### checkout's arithmetic and the pages': `Money`, `OrderTotal`, `OrderPages`

`Sum` is modelled with Go's truncating division. Its borrow branch is also taken when the units add up to
zero, so that 0.1 + 0 is (1, -0.9), which the next `Sum` refuses and `Must` turns into a panic (finding 1).
`WellPriced` is the condition under which no order gets there: prices of half a unit or more and a
shipping cost of one or more, which the catalogue, `quote`'s 8.99 per item and the rates of the currency
service give. `ExactTotal` needs no such condition.

The order that `PlaceOrder` returns has no total. The cart page adds one up before the order and the order
page does after it, each with one carry for all. `ShownIsCharged` says that the order page's total is the
amount charged, field by field, and that each of its lines is what `MultiplySlow` came to. Of the cart page it
says the same in every currency but dollars. In dollars the cart page shows the catalogue's prices as they are
(`ProductCatalog.service.ts:12-14`), and checkout has them converted from dollars to dollars (`main.go:523`),
which may change them (section 7): an item has both prices, its `catalogue` price and its `cost`, and the cart
page is off by exactly what the conversion has made of the items (`Drift`), neither more, from adding up in
another way, nor less.

### checkout's producer: `Producer`

A sender is a call or one of the goroutines that `kafkaQueueProblems` leaves behind. An answer is addressed to
nobody. `OwnAnswer` says when a call can rely on the answer it takes to be its own; `WedgedOnlyByCancelled`
says what fills the pipeline for good; `WaitEnds` is conditional on the error goroutine taking no error,
because a call whose error it takes does wait until its context ends: that condition is the code's behaviour,
not an abstraction, and so is what `shared` exempts from `OwnAnswer`. The type invariant has that the pipeline
never holds more than its capacity.

### cart: `Cart`, `CartConnection`

`Cart` keeps the commands apart: `HashGet`, `HashSet`, `KeyExpire`, each of which may fail, and a `HashSet` or
a `KeyExpire` that times out may run later (`pc` is `late` or `overdue`). `ideal` is the cart atomic
operations would have made; `ExactUnlessRaced` compares the two, and lets go of a user only when a call that
read before somebody else's write has written (`raced`), until the cart is emptied. `NothingInvented` and
`CartsExpire` hold through races as well.

`CartConnection` has the double-checked flag, the lock, and each multiplexer's handlers, which outlive it.
`OpeningsArePaidFor` bounds reconnections by failures; `WaitersReturn` and `ServiceRecovers` say that the lock
is given back on every path and that the flag ends up raised over a live connection. `Connect` may make a
multiplexer with a link, one without, or throw and make none. A multiplexer that was replaced may lower the
flag of its healthy successor, which costs one more opening.

### order consumers: `Accounting`, `FraudDetection`

Both commit positions that do not follow their processing. In `Accounting` the position is stored when
`Consume` returns and committed on a timer, so `CommittedIsAccountedFor` must name two causes of loss:
`failed` (an exception of `SaveChanges`, including one thrown after the transaction was committed) and
`killed` (a crash with a committed message in hand). `db` counts the sets of rows an order has, and the same
property says that a message that comes again gives none a second one, which only the primary key sees to
(`KeyIsFree`). `LossIsBounded` counts the crashes and failures, over two replicas that
may both have the same message in hand after a rebalance. In `FraudDetection` poll commits what the polls
before it returned; `close`, called when a record does not parse, commits past the rest of the batch
(`GarbageCostsItsBatch`); a batch that sleeps too long gets the consumer evicted, so that
`EveryRecordIsPassed` needs the flag to be off in the end: without that condition TLC finds the batch
read again for ever.

### flags: `FlagStore`

Storage is one process with a mailbox: `HandleRead`, `HandleWrite`, `HandleReplace` take the head of it. A
document may lack a flag (`Absent`), and a write for a flag it lacks changes nothing, though the dashboard
said that it was saved. Of other JSON, a write makes a list without flags (`NoFlags`) or ends the process. The
pages' copies, the file edited by hand and a failing `File.write!` are what the serialisation does not cover.
`wish` is what was last asked of each flag, `behind` and `unseen` say which copies are out of date for which
flag, and `WishesHold` that nothing else ever undoes a wish. A `wish` is made when the message is carried out:
what an exit of Storage takes from its mailbox is no wish, and no property forbids that it goes. Finding 2 is
that an editor page does.

### MB3R's exporter: `Verdict`, `Exporter`

One cycle of `poll_loop` is a sequence of steps, each of which another process may come before: Sheaft may
have another report between `GetStatus` and `GetReport`, Bering another window before `ReadWindow`. `got` is
what the cycle holds, `page` the `State` that `Update` replaces at once under the lock, so that a page is a
function of `page` and `error` (`ShownDecision`). `Fail` is an exception the loop expects, `Die` and `ReadOdd`
are those it does not: the thread is dead then, and nothing but a restart starts it again. A window file is
`fine`, `unnamed` (it has no `snapshot_id`), `unreadable` (then the context is empty), or `odd` (JSON of
another shape, or no UTF-8). Journeys are the configured ones. A service is relevant if the dependency file
has it under an endpoint that is expected by default (`Default`, a table in the code), whether or not that
endpoint is a journey; the second list of missing services, of those that are only observed, is made as the
first and left out. Availabilities are whole numbers and means are compared multiplied out, so the rounding of
floats is not modelled.

* `VerdictIsBacked`: the verdict joins three sources that were read at different moments. Anything but fail
  means that every journey is in each profile of the report, in the window read last, and has its services
  there. Its conditions are the code's: no profiles, no verdict of its own; no readable window, no missing
  journeys; and a missing service counts only if an endpoint that is expected by default needs it. That the
  report and the window are of one moment is not among what it says: they need not be.
* `MirrorsAgree`: the three mirror files are written one by one; a cycle that stops half way leaves files
  of two cycles behind, but never without an error shown.
* `RemovalIsReported`: removals are found by comparison with the window shown last, which failing cycles must
  leave alone. A cycle that could not read its window, or read one without an id, leaves nothing to compare
  with.
* `OutageShows`: an outage that lasts is shown in the end, unless the thread has died. That it may die is
  the code's behaviour.

### the cart on the screen: `Storefront`

TanStack Query is external; its rules are modelled as the provider uses them. A query of a currency is
`idle`, `asked` (the route has not read the cart) or `answered` (it has, and is pricing it): the answer it
will bring is fixed at `Read`, and everything that happens before `Arrive` is missing in it. `Invalidate`
is `invalidateQueries`: every copy is stale, and the query on the screen starts again, cancelling one
that runs unless it is the currency's first. A call is `sent`, `served` by the service and `acked` or
`failed` for the tab, and these may disagree: a call that failed for the tab may have been, or may yet be,
served. A cart's only contents here are which calls it has been through and whether it has items.

* `ReadYourWrites`: what a reader of `Cart.provider.tsx` takes for granted, with the two exceptions the code
  has. `joined` names the first: `invalidateQueries` did not restart a query that had read the cart by
  then. Without that exception TLC finds the shopper who adds an item while the page loads and is then
  shown a cart without it, or who selects another currency and back.
* `ScreenCatchesUp`: the same as a promise about the end, for a shopper who stays with a currency.

### who the shopper is: `Session`

Reading the store and writing to it are two actions. A tab's modules ask once each and keep the answer
(`known`), the phone's requests ask each time and wait in between. `disturbed` says that the store was
cleared, or that two processes found it empty before either had written: then the code may use two ids, and
each tab keeps its own until it is loaded again. On the server, where there is no window, the modules are
loaded with an id of their own, which is stored and sent nowhere. `OneShopper` says that there is no other
way: tabs closed at any point, a currency written back with an id read before, the phone's concurrent
requests.

### the product page: `ProductPage`, `ReviewScores`

A mutation observer follows one question at a time and `mutate` and `reset` make it leave the one before.
Another product is first rendered (`Open`), and only the effects after that give the observer a new question
function and reset it (`Effects`); `subject` is the product a question would be about. `AnswerFits` says that
this is enough although quick prompts do not wait and a page outlives its product: what is shown belongs to
the last question and to `subject`, which is another product than the one on the screen between a render and
its effects only. `PercentsAddUp` is about whole numbers standing for doubles: a share of a whole percent may
come out a bit lower, and `low` is any set of such shares; which of two equal fractions sorts first is left
open as well. The loop of `ProductReviews.tsx:49` must find as many scores to raise as are missing, and raise
none that has no review.

### messages: `DemoProto`, `Codec`

`demo.ts` unrolls the same functions over each message. `DemoProto` has what differs from message to message:
the fields with their numbers, names, types and repetition, read off `encode`, `decode` and the rest; `Codec`
has the functions, once. A body that is to be sent is chosen field by field as `encode` comes to it: it may
lack fields, have `null` for them, or something of another type (`odd`), as a parsed JSON body may. What a
peer writes is any sequence of entries of the message's fields, of the same numbers with another wire type, of
an unknown number, and of tags that end a message or that cannot be skipped.

* `DecodeIsExact`: up to the first tag that ends the message, the last value, all of them in order, or the
  default; and no int64 beyond what a number holds. `IsAllValues` states it without the fold it is computed
  by.
* `RequestArrives`: a body arrives with the defaults of what it lacks and with whatever the writer makes of
  what it has of another type, or is refused before anything is sent. It is the asymmetry of `encode` that
  makes this worth stating: a list or a number that is undefined makes the writer throw, a string or a flag
  does not; and null is not undefined, so that a string that is null arrives as the word.
* `JsonKeeps`: `fromJSON` undoes `toJSON`. It is proved and not run, as the frontend calls neither. `toJSON`
  leaves out what is the default and rounds numbers; `fromJSON` takes a field under either spelling of its
  name, converts what is of another kind, and takes a list only from an array. The property is that no field
  of a message that was read is left out, converted, rounded to something else, or found under another field's
  name.

### Findings

1. `money_valid`: `money.go:95` says of the branch that borrows that nanos are guaranteed not to go over
   the limit, which the next `Sum` relies on; with units that add up to zero the result is invalid.
2. `flags_undone`: `storage.ex:6` promises to prevent last-writer-wins; saving an editor page sets back
   every flag that was set since the page was opened.

## 4. Runs and their bounds

| Run | Question | Bounds, and why they are enough |
|---|---|---|
| `money_valid` (violation) | is a sum of valid amounts valid? | a unit of 4 nanos and 3 units of either sign: every combination of signs, carries and borrows occurs |
| `order_total` | is the total exact, valid, reached without a panic, and what the pages show? | a unit of 4 nanos, up to two items, quantity 3, prices below, at and above half a unit, and for each item one of two prices in the catalogue, with nanos and without; dollars and another currency; the theorems cover the rest |
| `checkout` | safety, refinement and termination of `PlaceOrder` | two calls of one user (every property is about one call or a pair of one user); two lines, whose `AddItem` calls may race with each other and with the calls, or one line where there is a producer, which comes after a call's part in the carts; one overload copy; crashes, losses and expiries unbounded; calls and lines taken in ascending order, which leaves out renamings only and is sound for liveness |
| `producer` | answers and waiting | two calls with two overload goroutines each and a pipeline of two, so that it fills up and a call meets another's answers |
| `cart` | carts, races, expiry | four calls on one user's key (two that race, one that empties, one that comes later), two products; keys of different users share nothing |
| `cart_connection` | lock, flag, recovery | three threads (inside, at the lock, at the flag), two lost links and two attempts that throw: a replaced multiplexer, its successor and one more |
| `accounting` | loss and progress | two messages of orders that can be stored, the same or two (a duplicate, or an order that a crash may take besides the one it may), and one that cannot, anywhere between them; two replicas as in a rollout, one crash, which so could cost two orders if the code let it |
| `fraud` | loss and progress | batches of two, of which one slow record fits the poll interval (`Patience` 1), so a full batch is evicted; four records are two batches; two crashes |
| `flags` | does a flag keep what was asked? | two flags (the one asked for and the one dragged along), each with two variants or absent, two pages, four messages (both pages opened and saved, or one opened and saved around two settings), one hand edit, one failed write |
| `flags_undone` (violation) | is a setting undone by somebody else? | one page, four messages |
| `exporter` | does the verdict stand on what was read, and does an outage show? | two journeys (one needs a service the other does not), windows with all of it, without the service, and without an id, the endpoint and a service of no journey; two windows, as a comparison is of two; reports with both journeys, and with one and no profiles; failures and restarts unbounded |
| `frontend` | do the clients show and send what they should? | one call that may add and one that may empty or order (an acknowledgement and a query of one against the other), two currencies (on the screen and not), one retry; two tabs, or the phone with two requests, and three starts (two that race and one after); two products and four questions (one followed, one overtaken, one left behind and one more); seven reviews of scores at, between and beyond the stars (the largest remainder takes from one to four scores, with ties); for each message of the methods the gateways call, any body with lists of up to two, or three entries of a peer (one, its repetition or another, and one between) |

Deadlock is checked in `cart_connection`, `accounting`, `fraud` and `exporter`, whose systems always have a
next step (a stuck lock or a replica that stops taking messages would be found there), and turned off in the
runs whose calls, messages or changes run out. Symmetry is used in safety runs only.

`frontend` puts six parts that share no variable into one run. `moving` is chosen in the initial state and
says which of them takes steps while the others rest: an interleaving of parts without a common variable
reaches no state of a part that the part alone does not, and every property is about one part.

The type invariants of `Producer`, `CartConnection` and `FlagStore` are run and proved; those of
`OrderTotal`, `Checkout`, `Cart`, `Accounting`, `FraudDetection`, `Exporter` and `Storefront` are proved
only.

## 5. Fairness

* `Checkout`: each call's own step is weakly fair, since a goroutine runs and each gRPC or HTTP call
  returns or fails; not its wait for the producer, which has no deadline of its own. Requests on the wire
  need not be executed. A nil producer's panic is fair: it is the next instruction.
* `Producer`: sarama answers what it accepts and a ready channel is served. Contexts need not end.
* `CartConnection`: strong fairness for entering the lock (a lock that passes over one thread for ever is
  not excluded by weak fairness), weak for everything else; links come back because StackExchange.Redis
  keeps reconnecting. Lost links and exceptions are finite (`MaxDrops`, `MaxErrors`), as recovery can only
  be claimed once they stop.
* `Accounting`, `FraudDetection`: the loop runs, the database call returns, the group has an owner in the
  end. Consuming and the timer's commit are strongly fair: rebalances interrupt them but not for ever.
  Nothing is assumed of the flag, of publishers or of crashes.
* `Exporter`: each step of a cycle is strongly fair: a request or a file does not fail every time, and
  the process is not always restarted before the same step. Neither Bering nor Sheaft has to do anything.
* `Storefront`: a query that was sent is read by the route, and its answer arrives, or it fails: the
  connection ends it otherwise. That a call is ever served or answered is not assumed, nor that a retry
  ever succeeds. In `MCFrontend` the same fairness is stated of the composed step.
* `Cart`, `FlagStore`, `Session`, `ProductPage`, `ReviewScores` and `Codec` claim no liveness.

## 6. Proofs

All theorems hold for every value of the constants that satisfies the modules' assumptions. Each follows
the same line: `Init => IInv`, `IInv /\ [Next]_vars => IInv'`, `IInv` implies the property, and the
temporal rule. Every safety invariant and action property that a passing run checks is proved.

* `OrderTotalProofs`. `SumExact`: `Sum` preserves worth, for any `NanosMod`; the carry branch needs the
  quotient of truncated division (`CarryFacts`). `IInv` adds to the types `WorthInv`, that the accumulators
  are worth what was added so far (in `MultiplySlow`, the turns that are done), and `PricedInv`, that for
  well-priced orders every operand on the way is a valid amount that is not negative, and after the first Sum
  large enough never to add up to zero units. Hence `TotalIsExact`, `PricingNeverPanics`, `TotalIsChargeable`.
  `PagesAgree` adds, of the order page, `SumsInv`: while checkout adds, its total is worth what the pages' two
  sums have come to at that item. An amount with nanos below a unit is determined by its worth
  (`CarriedIsPrice`), so equal worth is equal fields. The cart page's sum is that over its own prices, and
  `DriftIsTheDifference` compares the two item by item. The pages' sums are recursive functions over a list of
  any length; that they are defined, and are integers, needs an induction, which `SetInduction` makes over a
  set instead of an operator: a set of numbers that lacked one would have the numbers up to that one mapped
  into themselves one to one and not onto.
* `CheckoutProofs`. The properties are not inductive: that a call shipped only what was paid for depends on
  where it is. `ProgressInv` states for each `pc` what may be on the wire, what was executed and what was
  returned; `OnceInv` counts a request on the wire or executed as one; `CartInv`: a call that has emptied its
  cart, and did not cross an `AddItem`, left none of its lines in the cart or in what an `AddItem` has read.
  `LateInv`: a line that has no excuse to be missing (`Due`) is in the cart, in everything that may yet be
  written back to it, and in the basket of every call that may yet empty it; so whoever writes keeps or ships
  it. `PairInv`: two calls whose baskets meet have a reason (`Explained`) as soon as they have read, which is
  before they ship. Theorems: types, `OneBasketOnce`, `StatusTellsTheOrder`, `OnlyLateLinesVanish`,
  `NoDoubleOrder`, and `Implements`, that every step under `IInv` is a step of `OrderLifecycle` or stutters.
* `CartProofs`. `FreshInv`: a call that is going to write and is not stale has read what is stored. With
  it `ExactUnlessRaced` is inductive, and so is `CartsExpire`. `NothingInvented` bounds a cart by what was
  asked for, which a call that has begun and not written yet counts into: `DueInv` says that a cart, and each
  copy of it that will be written back, leaves room for all that is due. What is due is a sum over
  calls, and stated as the number of units (`Due`), so that it follows from facts about cardinalities.
  For the connection, an opening is paid for by a failure although the flag goes up and down
  without one: `NeededInv` says that one more opening may be due only where nobody has made it
  yet, which is when a thread holds the lock and is about to, or when the flag is down and nobody is past
  that.
* `OrdersTopicProofs`. Accounting: `OwnerIsAccountedFor` extends `CommittedIsAccountedFor` from the committed
  messages to those before the owner's position, where the one in the owner's own hand may be open: it is what
  a commit turns into committed. `RowsOnce`, that the key lets no order have its rows twice, makes "once"
  inductive. `CrashesCount` pairs the messages a crash took with the crashes, from which `LossIsBounded`
  follows. FraudDetection: `DoneInv`: what lies before the record in hand was passed; `BatchInv`: a batch is
  at most `MaxPoll` records. What `close` skipped then lies less than a batch behind a record that does not
  parse. Hence `CommittedIsPassed` and `GarbageCostsItsBatch`. Producer: `SoloInv`: while a sender waits that
  has been alone so far, nobody else's message is in the pipeline, so that the answer taken is its own
  (`OwnAnswer`). `Flow`: what the pipeline holds is waited for by somebody or is left over from a call that
  was cancelled, so that it can be full for good only after such a call (`WedgedOnlyByCancelled`); it needs
  `Turns`, that the goroutines a call leaves behind do not start before the call is over. `PipelineStep`:
  `Input()` is taken only where there is room, and no later step adds to what the pipeline holds, so it is
  never overfull (`ProducerTypeCorrect`).
* `FlagStoreProofs`. That the file keeps the wishes is not inductive, as Storage and the pages put their
  copies into it. `StateInv` says it of Storage's copy, but for the flags changed by hand since, and `BaseInv`
  of what a page was opened with, but for the flags set since. What a page's user makes of it is in neither:
  when it is put back, it differs from its base in what is asked for. Both speak of the value of a flag
  (`Agrees`, `Value`), which is absent from a document without flags, and not of documents.
* `ExporterProofs`. `ReadInv`: the page and the cycle under way each go with the window they read (`Lists`),
  which, if it has an id, is the present one or an earlier one (`Follows`), and the cycle has compared its
  window with the page's if that had an id. `VerdictIsBacked` follows with `AboveThreshold`, which needs an
  endpoint threshold above zero (`PolicyAssumption`; the shipped policy has 0.35); `RemovalIsReported` is a
  step of the invariant; `MirrorsAgree` needs `WrittenInv`, which files a cycle has written where.
* `CodecProofs`. `Decoding` is for every protocol in which the fields of a message differ in number and name
  (`SchemaOK`, which the run `frontend` evaluates for `DemoProto`): the number decides the tag, so an entry
  belongs to one field at most (`TagsDiffer`), and reading it turns what the entries before amount to into
  what they amount to with it (`LastNext`, `AllNext`, `OthersUnmoved`). `RequestsArrive` rests on `Decoding`
  and on `RequestInv`: the entries of a field lie in one stretch of the wire, which has what the body has for
  it (`BlockIn`), and what is written later leaves it where it is (`OthersKeep`). `JsonIsLossless` needs that
  each name in an object is that of one field (`FieldOfName`), that what was read has the kind its field's
  JSON has, so that nothing is converted (`ElementReturns`), and, for a single value, that what is left out is
  exactly what is the default (`FieldReturns`).
* `FrontendProofs`. `FrontendInv` is one invariant for each part, and a step of one part leaves those of the
  others alone. For the cart on the screen, `CartInv`: a call that was served went through the cart; and
  `AnswerInv`: an answer under way that is not among `joined` was read after every call that was acknowledged,
  because acknowledging one restarts the query or puts it there. `ReadYourWrites` is inductive with the two.
  For the session, `SessionInv` is about any clients on either kind of device, and both instances are cases of
  it; `WritersInv` says that, unless two processes have found none or the store was cleared (`disturbed`), one
  client at most is about to write an id, and no other id is stored. For the product page, `ObserverInv`: the
  question followed is the last one and about `subject`. For the messages, the theorems of `CodecProofs` at
  `DemoProto`. For the scores, `SharesAddUp`: what is cut off the five shares is worth exactly the percents
  that are missing, so these are at most five (`MissingIsFew`), there are that many largest ones
  (`LargestScores`), and neither can one be raised that had nothing cut off nor one be left that had a whole
  percent cut off (`RaisedRightly`).

Only model-checked: the liveness properties (`EveryCallReturns`, `WaitEnds`, `WaitersReturn`,
`ServiceRecovers`, `EveryMessageIsSettled`, `EveryRecordIsPassed`, `OutageShows`, `ScreenCatchesUp`), as these
provers do not reason about `ENABLED`, which fairness is defined with; and, of course, the two properties that
the code violates.

## 7. What is left out, and what comes next

Abstracted on purpose: telemetry, logs, text and layout; the contents of products, addresses and cards; the
int64 of units, which no price comes near (what `decode` does with one is in `Codec`); `GetCart` of the cart
page and `Ping`, which change nothing; accounting without a database string, which only logs. In the clients:
what other tabs do to the cart, which no code of a tab asks for; the two queries for reviews; scores that are
no numbers; a nested message whose bytes end before its length says, the rest of which would be taken for
entries of the message around it; and of a value of another type, what exactly it is converted to.

`DemoProto` maps each message to the whole of its generated block although its entry there is the list of the
message's fields only: the block is that list, run through the six functions that `Codec` has once. The list
alone determines every line of the block, and a wrong number, name, type or repetition in any of the six
functions would be a difference between the two. The services are mapped to the definitions of their methods,
with path, request and response.

Not modelled: the parts `PROJECT.json` lists so, with their reasons. Known to be delicate there, and worth a
module: `currency/src/server.cpp:152` drops the leading zeros of nanos, so that 57 units and 80000000 nanos
(`init.sql:153`), shown as 57.08, are charged as 57.80; line 195 of it inserts unknown codes into a table
other threads read; `mb3r/sanitizer/sanitizer.py:104` updates its output and the hashes it remembers in
several steps; `CPULoad.java:49` tests `running` outside the lock. `react-native-app` shows its toasts of
success without waiting for the call (`app/(tabs)/cart.tsx`), and its unused `setSessionValue` spreads a
promise. Planned, in this order:

1. `Checkout` with `Accounting`, from the charge to the rows.
2. MB3R's sanitizer (its filter and its change detection), and the way from Bering's topology through the
   sanitizer and Sheaft to the exporter's page.
3. `Currency`: `Convert`'s arithmetic against exact rational conversion, and the table that lookups insert
   into while others iterate.
4. The stateless services as operators: card checks, quotes, reviews and the language model's tool
   calls, recommendation's growing list, ad's load workers.
5. Proofs: of each new module's invariants as it is written; and the safety half of the liveness
   properties, which is that a step that is waited for stays possible until it is taken.
