# A TLA+ model of sat.watch

sat.watch watches Bitcoin addresses for its users. It reads every transaction that `bitcoind`
publishes, matches it against the addresses, and notifies the owners by webhook and by mail.
This directory holds TLA+ modules of its core, TLC configurations that check them on small
instances, and TLAPS proofs, for every size of instance, of all safety properties that TLC
checks. Paths below are relative to the root of the repository.

## The system

    bitcoind --ZMQ--> TxMonitor --channels--> webhook notifier --HTTP--> users' servers
                        |    |            \-> email notifier --> MailClient --SMTP--> users
          GetTransaction|    | reads                                  |
                        v    v                                        v
    Electrum <--- Electrum client    api.addresses (mutex)       table email_log
                        ^    ^ updater     ^
             ListUnspent|    |             | create, delete
                        scanner  <-channel- HTTP handlers --> tables users, xpubs, addresses,
                                              ^    \           emails, webhooks, config
                                     browsers |     \-> Bitcoin Core (descriptors)

| Component | State | Operations | What is hard |
|---|---|---|---|
| Unspent-output cache (`internal/api/api.go`, `address.go`, `internal/monitor/utxo.go`) | `api.addresses` with their unspent outputs, a mutex, a channel of 1000 script hashes, an unbuffered channel of results | load at start, create, delete, scan, store a result | four kinds of goroutine, sends under the mutex, results that arrive early or late |
| Transaction monitor (`internal/monitor/monitor.go`) | subscribers, a mutex | receive, match outputs, match inputs, ask for confirmation, fan out, subscribe | the list changes under the loops; blocking sends under a mutex; dropped transactions |
| Notifiers (`internal/actions/webhook.go`, `email.go`) | none but the current notification | subscribe, receive, query endpoints, call them | a failing query or call, an endpoint that never answers |
| Electrum client (`internal/clients/electrum.go`, vendored `go-electrum`) | answer channels by request id, `quit`, `transport` | request, listen, read, shut down | answers that overtake the registration, two shutdowns at once, no reconnect |
| Account store (`internal/api/xpub.go`, `user.go`, `address.go`, the HTTP handlers) | tables `users`, `xpubs`, `addresses`, contacts, and `api.addresses` | add addresses, an xpub, a contact; delete an address, an xpub, an account | no transactions: each statement may fail or be the last before a crash; unique and foreign keys meet soft deletion |
| Email verification (`internal/api/email.go`, `handlers_notification.go`) | table `emails`: address, code, expiry, verified | create, mail, reset, verify, delete | reads, then writes that do not check what was read |
| Alert limit (`internal/clients/mail.go`, `internal/api/email.go`) | table `email_log` | count, send, log | three steps, shared by two notifiers in development; off-by-one; failures that are hidden |
| ZMQ subscriber (vendored `go-bitcoin/zmq.go`, `internal/server/zmq/mock.go`) | socket, map of subscriptions, queue of requests to subscribe | dial, repeat subscriptions, select, receive, hand over, dial again | a select whose default blocks, outages at any moment, a start that waits for the subscription |
| Login and sessions, webhook settings (`http/auth.go`, `handlers_auth.go`, `handlers_settings.go`, `handlers_notification.go`, `cmd/user/create`) | a signed user id in each browser, tables `users`, `webhooks` | login, logout, authorise, delete the account, create, edit and delete a webhook, create a user | cookies outlive accounts, names are used again, a handler goes on after a deletion |
| SMTP configuration (`internal/configs/configs.go`, `handlers_smtp.go`) | fields of `Config` under a read-write mutex, table `config`, the environment | load, test, save, read | fields assigned one by one, the sender read without the mutex, a database that does not answer |
| Address form (`handlers_address.go`, `internal/lib/xpub.go`, `internal/clients/bitcoin.go`) | none | a key, a descriptor or an address becomes a batch of rows | index and position computed from each other, a range that counts differently, two calls that may fail |
| Pages, routing, MIME, migrations, start | | | in part or not modelled, see "Not modelled" |

What makes each correct, in words: the cache forgets no scan and shows nothing older than it
has shown; the monitor matches what it should and every subscriber gets everything; the client
gives each caller its own answer and leaks nothing; the tables and the list in memory agree and
what is deleted stays deleted; a mail address is verified only by its owner; the daily limit
holds; transactions flow again after an outage; nobody acts for an account whose password was
not typed; no mail mixes two configurations; a form yields every address it stands for.

## Modules

### `UtxoPipeline`, `ScanService`, `Listings`

`UtxoPipeline` has one action per step of each goroutine. `main` runs `SelectAddresses`,
`InitEnqueue`, `StartUpdater`, `PublishAddresses` (`api.Init`); the scanner `ScanTake`,
`ListUnspent`, `HandOver` (`monitorUtxos`); the updater `UpdateAddressUTXOs`; each handler
`CreateInsert`, `CreateAppend`, `CreateEnqueue`, `CreateReturn` (`CreateAddress`) and
`DeleteRow`, `DeleteRemove` (`DeleteAddress`). `mu` is `API.mu`. It is a variable because
`CreateAddress` keeps it across blocking sends; code that takes and releases it without
blocking is one step. An unspent set is a version number: how often it has changed on the
server. `NoUtxos` is Go's nil list. `CrashAndRestart` keeps the table and nothing else.

`ScanService` is what the cache promises: a registry, and one first-in-first-out queue of scans,
each delivered once, to everyone registered under the script hash at that moment. `UtxoPipeline`
implements it with `pending <- Pipeline`, the concatenation of what the updater holds, what the
scanner holds, the channel, and what the sender has yet to send.

### `TxMonitor`

The watcher takes a transaction, matches one output or input per step, asks whether it is
confirmed, and fans out: `FanOutLock`, one `FanOutSend` per subscriber (a rendezvous: the
subscriber has to be at its receive), `FanOutUnlock`. Notifiers run `Subscribe`, `NextAddress`,
`Call`, `Notified`; `CallHangs` is an endpoint that never answers. The address list is the
environment: a row is watched, its address is queued for one scan, and it may be deleted at any
step. Several users may watch one Bitcoin address, each with a row of its own, and a match
appends one entry for each row. A scan is `ListUnspent`, which may fail and answers what is
unspent at that moment, and `ScanDelivered`, which may come later. ZMQ is a bounded queue that
drops what does not fit. Time spent between `isConfirmed` and the lock is a step of its own, so a
block may come in between.

### `ElectrumClient`

`request` is `Begin`, `Send` (or `SendFails`, `SendPanics`), `Register`, `Return`;
`Client.listen` is `ListenTop`, `ListenOperands`, `TakeResponse`, `Dispatch`, `TakeError`,
`ListenStops`; the transport's reader is `ReadLine`, `ReadFails`. `Begin` draws the request id
from the shared counter (`DrawId`), `handlers` says whose channel is registered for each id, and
an answer carries the id it is dispatched by (`Addressee`); whose request it answers is kept
beside it for the properties. `Shutdown` is one step for each test and assignment of
`network.go:336-344` (`CloseQuit`, `TestTransport`, `CloseTransport`, `ClearTransport`,
`ClearHandlers`), and any caller and the listener may be in it at once. The server may answer
with a result or an error, which the client treats alike; with something that cannot be read,
whose id is 0; or with an error code that is no number, on which `UnmarshalJSON` panics
(`ParsePanics`). A panic is a state, `panicked`, after which nothing runs.

### `AccountStore`

Each request is a little program: `Authorize`, then one statement per step, each of which may
fail and end it (`StatementFails`). The INSERT and the UPDATE of addresses, which a change of the
list follows, may also commit and lose their answer: the request ends between the two
(`AnswerLost`), and `split` remembers for which addresses. The constraints of the tables are guards of the statements:
`KeyTaken` is `UNIQUE (user_id, pubkey)`, where a deleted row has the key `''`; `Referenced` is
`fk_addresses_xpub`, to which deleted rows count too. Ids are drawn for one user; a key may fail
to parse. `mem` is `api.addresses`.

### `EmailVerification`, `AlertLimit`

In `EmailVerification` the read and the write of `ResetVerificationCode` and `VerifyEmail` are
two steps, and `CreateEmail` is the insert, the lookup by address and the mail. `MailboxOf`
says which rows are for one address. In `AlertLimit` the count, the mail and the log entry are
three steps; `Age` moves the oldest entry out of the 24 hours. A mail is delivered or not and
reported as sent or as failed, in all four combinations: an unencrypted mail hides its failure
(`mail.go:182-188`), an encrypted one returns the error of QUIT after the server took it
(`mail.go:254-262`). A PGP key is none, good, or poor:
`isPubkeyValid` parses it (`Parses`), and `encryptWithPGP` may still fail with it (`Encrypts`).

### `ZmqSubscriber`

Three parties. `main` runs `InitDependencies` and `Subscribe`, which waits for `AddSubscription`.
The goroutine of `zmq.go` runs `Dial` or `DialFails` and `Wake`, `Resubscribe`, then the select:
`AddSubscription` if a request is queued, else `Default`, which enters `Recv` and stays there;
`RecvFails` starts again after ten seconds, `ResubscribeFails` returns and ends it. `Processed`
is the monitor, which `TxMonitor` models in detail. The publisher is bitcoind or the mock, fed by
`Create`. `topic` is what the publisher knows of the subscription (`none`, `asked`, `set`), so a
socket that is connected and silent is a state. Transactions have numbers: the type invariant
says that whatever is on the wire, in hand or delivered is in order and there once (with
quantifiers, since the provers cannot use the recursive `SelectSeq`). In
`TxMonitor` all of this is one bounded queue that drops.

### `Sessions`, `SmtpConfig`, `AddressForm`, `WebServer`

`WebServer` composes the three others. A slot is a goroutine of the server: a request or a mail.
`job[s]` says where it is, for which browser and session it runs, and what it works on.

- `Sessions`: `Login`, `SaveSession`, `Logout`, `Authorize` (`authMiddleware`), the deletion of an
  account as `SoftDeleteUser`, `DeleteWebhooks`, `DropSession` (its other statements are in
  `AccountStore`), the webhook handlers, `CreateUser` (the command). With a cookie is kept, as
  history, the account whose password was typed for it.
- `SmtpConfig`: `TestConnection`, `Lock`, `Save` (or `SaveFails`, `SaveUnanswered`),
  `AssignServer`, `AssignLogin`, `AssignFrom`; a mail is `ReadSender` without the mutex, then
  `GetSMTPConfig` with it. A configuration is a number, and each field says which one it is from.
  `Restart` loads environment and table (`InitConifg`).
- `AddressForm` is a function from what was typed to the rows handed to `CreateAddress`. An
  address is what determines it under one key: chain and index. (The three functions of
  `xpub.go` differ in the script only, which no property is about.) Bitcoin Core's two calls are
  external and either may fail.

### Proof modules

`<Module>Proofs` extends `<Module>` for `UtxoPipeline`, `TxMonitor`, `ElectrumClient`,
`AccountStore`, `EmailVerification`, `AlertLimit`, `ZmqSubscriber` and `WebServer`. It adds the
inductive invariants, the lemmas and the theorems, and no behaviour.

### Variants

Next to some small operators stand variants of the same parameters (`AnswersCached` before
`Answers`, `UnlockForgotten` before `Unlock`). No specification uses them. They are plausible
bugs: putting one in the place of the operator must break the property listed with it in
`PROJECT.json`, which shows that the property depends on that line of the code.

## Runs

All bounds are constants of the configurations. Properties are stated next to the actions of
each module, each with a comment.

| Run | Instance | Shows |
|---|---|---|
| `utxo_requests` | 4 addresses on 2 script hashes, two stored, 2 handlers, channel of 1 | no accepted scan is lost; every request returns unless the goroutines jam over the full channel |
| `utxo_service` | 3 addresses on 2 script hashes, one stored, 1 handler, channel of 1, 1 change of each unspent set, 1 crash | the cache implements `ScanService`, no older answer is stored, scans complete unless the goroutines jam, the start ends if and only if the stored rows fit |
| `tx_safety` | a payment and its spend, mempool and block, 2 rows with one address, 2 notifiers, failing scans, queries and calls, calls that hang, 1 message held by ZMQ | every subscriber has every notification, in order, once; a row that stays in the list is matched while another with its address comes and goes; only a hung call keeps a fan-out or a subscription from ending |
| `electrum_safety` | 2 callers, 4 calls, answers that cannot be read, the connection breaks at any step | an answer reaches the call whose id it has, no channel leaks, no shutdown and no panic while connected but for an answer that cannot be parsed, a call returns unless its answer was dropped |
| `account_safety` | 2 users, one with 2 xpubs (one does not parse) and 2 addresses, 2 requests, failures, lost answers, 1 crash | table and list agree but for lost answers and a deleted account, and these until the next start; deleted addresses stay deleted, a deleted xpub takes its addresses along, no request touches another user's rows |
| `email_safety` | 2 mailboxes, 3 rows, 2 requests, 3 codes, keys that encrypt and keys that do not | only the owner's code verifies, and only with a key that encrypts; the current code is delivered, about to be mailed, or was in a mail that failed |
| `alert_limit` | limit 1, 4 alerts, 2 notifiers, failing statements, mails with every outcome | by how much the limit is exceeded |
| `zmq_feed` | 4 transactions, 3 outages, 2 restarts, 2 unread transactions per connection, bitcoind or the mock | no connection without its subscription; the feed resumes; what reached the socket is handed over; the start ends, or hangs in one way only |
| `web` | 2 accounts of one name, one of them an admin, 2 browsers, 2 slots, 2 saves, the first of which may lack a sender, gap 2, 8 inputs of the form | everything is done for the account whose password was typed; a mail uses one configuration; memory and table agree; a form yields the addresses it stands for |

Why the bounds are enough to be interesting: in `utxo_requests` the channel has room for one
scan, so it fills at the start and in every request of two addresses; the goroutines do jam, and
each script hash is shared by a stored and a created row. In `utxo_service`
a restart loads up to three rows where two fit (`BufCap + 1`), so both kinds of start occur, and
each unspent set changes between a scan and its storing. In `tx_safety` a row with the paid
address is added and deleted between any two outputs, and the queue of ZMQ overflows. In
`electrum_safety` both callers call twice, or one four times, so ids are drawn out of step, and
all three goroutines may be in `Shutdown`. A failure, a lost answer or a crash may hit every
statement; two requests meet in every pair of steps; and the limit of mails is reached with room
to go over it. `account_safety` uses one kind of contact and the symmetry of the two requests,
which is sound because all its properties are about states and steps. In `zmq_feed` an outage may hit every step of two reconnections and of the
start after a restart, and the queue overflows. In `web` two accounts of one name are what a
deletion and a re-use of the name need; two slots make every pair of steps meet, a save that
waits for another among them, and a third would only repeat a pair, since the mutex is all that
slots share besides single statements; the gap of 2 tells position, chain and index apart. The
inputs of the form are a key, one that does not parse, an address and, for descriptors, each
single reason not to watch one. `CHECK_DEADLOCK FALSE` stands in every
configuration because the instances come to rest: users, blocks and crashes are bounded, ids
are used up, and a system with nothing to do waits. That something gets stuck is what the
liveness properties look for.

## Where the code does something else than the repository says

Three runs find a property violated; `PROJECT.json` quotes the line that states it.

| Run | What the code does |
|---|---|
| `utxo_startup_race` | a result that arrives before the list is published is lost for good (`api.go:76`) |
| `tx_spend_missed` | an output received after the one scan of its address is not recognised when it is spent (`monitor.go:174`) |
| `account_not_erased` | an account with an xpub is not erased and can no longer log in (`handlers_settings.go:54`) |

The modules reach more such behaviour. The passing properties name it as an exception or a
condition, so it can be read off there:

- `StartupCompletes` says that the start ends if and only if the stored rows fit the channel and
  the scanner's hand. With more than `BufCap + 1` of them `Init` blocks for ever, because the
  updater starts after the loop that fills the channel (`api.go:73`).
- `RequestReturns` and `ScanCompletes` except `Jammed`, and `RequestReturns` says that nothing but
  a restart ends it: a large batch blocks `CreateAddress` on the full channel, with the mutex
  locked that the updater needs (`address.go:55`).
- `StoredAreWatched` and `WatchedAreStored` except `split`. A batch that commits and loses its
  answer makes `CreateAddress` return before the append (`address.go:45-48`): the rows are stored
  and not watched until the next start. An UPDATE that does so makes `DeleteAddress` return before
  the removal (`address.go:177-180`): the address stays watched until its deletion is tried again
  or the process starts again. `DeleteAddresses` never touches the list (`address.go:159`): what
  a deleted account had is watched until the next start, against `page.settings.templ:104`.
- `XpubTakesItsAddresses` excepts xpubs whose deletion began when some of their addresses were
  stored and not in the list (`early`), because the request that creates them was still running
  or the answer of its INSERT was lost: the deletion walks the list only (`xpub.go:45`), so these
  addresses stay, and are watched in the end.
- `BlankXpub` is refused for a user who has deleted an xpub before: both rows would have the key
  `''` (`xpub.go:55`).
- `DeliveredBounded` allows one mail more than the maximum for each notifier: the comparison is
  `>` and the count does not include the mail about to be sent (`mail.go:104`). A count that fails
  reads as zero. And mails that were delivered and then reported as failed (`mail.go:254-262`) or
  whose log entry failed are never counted: `unseen` of them come on top.
- `CodeGetsOut` counts a mail that failed as lost. When it was not encrypted nobody learns of it:
  `sendEmailUnencrypted` logs the error and returns nil (`mail.go:182-188`), and the
  request answers as if the mail had been sent.
- `VerifyWrite` between `ResetRead` and `ResetWrite` is undone: the reset checks the row it has
  read and not the row it writes (`email.go:60`).
- `IsConfirmedFails` drops the transaction, and with it the confirmation the first mail promised
  (`monitor.go:214`).
- `FanOutEnds` and `EveryNotifierSubscribes` except a call that hangs. It stops every
  notification: `http.Post` has no timeout (`webhook.go:62`), and the fan-out waits for the
  notifier with the mutex that `Subscribe` needs.
- `AnswersAwaited` and `AnsweredCallsReturn` except callers whose answer was dropped (`lost`): one
  that overtakes the registration of its channel (`network.go:304`) or cannot be read has no
  addressee, and the caller waits for ever, the ping loop too. So does a caller that waits when
  the connection breaks: `Shutdown` forgets its channel.
- `NoPanicWhileConnected` excepts an error of the server whose code is not a number: the
  conversion in `UnmarshalJSON` panics in a goroutine without a recover (`network.go:185`). After
  the connection broke, two goroutines may both close `quit`, or use `transport` or `handlers`
  when they are nil (`network.go:296`, `:305`, `:336-340`).
- `StartsOrHangs` names a start that does not end: the goroutine is in `Recv` before the
  subscription is queued, and waits on a connection without a topic (`zmq.go:159`).
- `FeedResumes` excepts `dead`: when a connection breaks again while the subscriptions are
  repeated, the goroutine returns (`zmq.go:121-124`) instead of dialling once more.
- `PublishTo` loses what is published during an outage. The sequence number of each message is
  read (`zmq.go:171`) and only handed on, so nobody notices the gap.
- `MailServerAtomic` allows a sender older than the server, read before the mutex (`mail.go:88`,
  `:140`); and `InUseIsStored` allows `InitConfig`, which fills what the environment leaves open
  from the table: with the four variables of the README set and a sender saved by an admin, a
  restart combines both.
- `UpdateEmailPubkey` cannot remove a key, since an empty field leaves the column as it is; and
  a replaced key that parses but does not encrypt makes `encryptWithPGP` dereference nil
  (`mail.go:278-285` overwrites each error), which ends the process when the email notifier, a
  goroutine without a recover, sends a mail. `VerifiedByOwner` excepts rows whose key was edited.
- `DescriptorRows` has one row more than the gap, since Core counts the end of a range
  (`bitcoin.go:212`); its rows carry neither chain nor index.
- The webhook and settings pages show what `GetWebhook` finds; the page of one address, which no
  module has, uses the result of `GetAddressById` without a test for nil
  (`handlers_address.go:36-42`), so an id that is deleted meanwhile answers 500.
- The amount of a notification is the last matching output, not the total the comment announces
  (`monitor.go:129`, `:149`).

## Fairness

`FairSpec` gives weak fairness to every goroutine that has begun something: the Go scheduler
runs what can run, and channel sends and receives are served in order. Nothing makes a user
begin a request, a transaction appear, a connection break or a process crash. Specifically:

- `UtxoPipeline`: the Electrum server answers or fails each call (what happens when it does not
  is in `ElectrumClient`).
- `TxMonitor`: `Subscribe` gets strong fairness, since Go's mutex hands itself to a waiter that
  has starved for a millisecond. That a call is answered is not assumed: `CallHangs` may happen
  to any call, and the properties name it.
- `ElectrumClient`: the server answers a request that reached it, in one of the forms above.
- `ZmqSubscriber`: `main`, the goroutine and the monitor go on; a publisher that stopped is
  started again and learns of a subscription that was sent to it. Outages and restarts are
  bounded, so in the end a connection lasts; nothing is assumed about when.

`AlertLimit`, `AccountStore`, `EmailVerification` and `WebServer` state safety only and assume
no fairness.

`FanOutEnds` says that the fan-out unlocks. Together with `FanOutComplete`, which holds whenever
it is unlocked, every notification reaches every subscriber.

## Proofs

Every invariant and action property of the passing runs is a theorem, and so is the refinement
of `ScanService`: they hold for all sets, functions, capacities and bounds that the `ASSUME`s of
the modules admit. These say that

- constants have their types, and limits are numbers (`BufCap` and `FeedCap` positive);
- what is counted or listed as a whole is finite: `Addr`, `Row`, `Notifier`, `Caller`;
- the names for "nothing" (`Free`, `NoUser`, `NoId`, `NoCaller`, ...) are not names of something;
- in `TxMonitor` there is some transaction, since the variable `tx` holds one from the start.

Every inductive invariant below was checked with TLC on the instance of the run of its module
before it was proved. Each module has a theorem `TypeCorrect` for its `TypeOK`; the others:

| Module | Theorem | Property |
|---|---|---|
| `UtxoPipelineProofs` | `LockDisciplineHolds` | `LockDiscipline` |
| | `CreatedScanNeverLost` | `CreatedScanNotLost` |
| | `ResultsStayInOrder` | `ResultsInOrder` |
| | `UtxosNeverGetOlder` | `UtxosNeverOlder`, an action property |
| | `ServiceImplemented` | `ImplementsScanService`, the refinement |
| | `OverfullStartIsStuck` | `~Fits` always means `Stuck`, the safety half of `StartupCompletes` |
| | `JamsLast` | `JamLasts`, the safety half of `RequestReturns` |
| `TxMonitorProofs` | `EverySubscriberGetsAll` | `FanOutComplete` |
| | `SteadyAddressesMatched` | `SteadyMatched` |
| `ElectrumClientProofs` | `NoChannelLeaks` | `HandlersMatchWaiters` |
| | `AnswersFindTheirCallers` | `AnswersAwaited` |
| | `NoPanicBeforeDisconnect` | `NoPanicWhileConnected` |
| `AccountStoreProofs` | `StoredStayWatched`, `WatchedStayStored` | `StoredAreWatched`, `WatchedAreStored` |
| | `XpubsTakeTheirAddresses` | `XpubTakesItsAddresses` |
| | `DeletedAddressesStayDeleted` | `DeletedStayDeleted`, an action property |
| | `OthersStayUntouched` | `OthersUntouched`, an action property |
| `EmailVerificationProofs` | `OnlyOwnersVerify` | `VerifiedByOwner` |
| | `EveryCodeGetsOut` | `CodeGetsOut` |
| `AlertLimitProofs` | `DeliveredBoundedAlways` | `DeliveredBounded` |
| `ZmqSubscriberProofs` | `ListensSubscribedAlways` | `ListensSubscribed` |
| `WebServerProofs` | `ActsForOwnerAlways` | `ActsForOwner` |
| | `MailServerAtomicAlways` | `MailServerAtomic` |
| | `InUseIsStoredAlways` | `InUseIsStored` |
| | `RowsCoverInputAlways` | `RowsCoverInput`, for every gap and input |

### Why the properties are not inductive, and what makes them so

**Cache.** When a handler ends `CreateAddress` its batch must be on the way, which follows if
nothing is left to send; and no other handler may be sending without the mutex, nor may requests
run before the list is published, or loaded and created addresses could not be told apart.
`LockDiscipline` says this, so the induction for `CreatedScanNotLost` goes over it and `TypeOK`.
`UtxosNeverOlder` speaks of one step, the store, and needs to know that what the updater holds is
not older than what is stored. `ResultsInOrder` carries it along the path: server, scanner,
updater, list. One scanner and one updater make it true; of `LockDiscipline` it uses only that
nothing is watched before `PublishAddresses`.

That a start with too many rows is stuck needs the balance `StartFills`: while `Init` queues,
every row is still to be sent, in the channel or in the scanner's hand, because the updater does
not run. So `Init` can end only if the channel and one hand hold them all. `Jammed` needs
`LockDiscipline` alone: the handler at the full channel holds the mutex, so no request can take
it, and every goroutine waits for another.

The refinement maps each step to one of `ScanService` or to a move within `Pipeline`, which is a
concatenation of four lists: what is taken from the head of one part is appended to the end of
the one before it (`OldestFirst`, `TakenFromChannel`, `PassOn`). It needs two more facts. The
pipeline is empty, and stays empty, until `main` fills it (`Quiet`). And a batch about to be
appended, a row about to be removed are what the service expects (`Claims`): the batch is a list
of rows that are not watched, no other handler appends one of them, and a deletion removes one
row.

**Monitor.** While a notification is fanned out, `FanOutComplete` is false for those who have not
had it. `FanOutProgress` says who: the subscribers from `next` on lack exactly the last
notification. It needs that nobody is in the list twice (`SubscribersDistinct`). For
`SteadyMatched` the loop invariant is `MatchingCovers`: what the outputs pay is matched, or among
the outputs still to come; a match appends every row with the address, in some order
(`OrderingHoldsAll`).

**Client.** No two calls have the same id, since all draw from one counter (`IdsDistinct`): so the
channel registered for an id is the one of its caller. A request moves from the server over the
wire, the reader and the listener to the channel of its caller, and is never in two of these
places (`OneAtATime`); its caller has sent it and has not returned, and the answer has its id or
none (`SentByWaiting`). While the connection is up nothing of this is lost but what the listener
drops (`NoneForgotten`). `NoPanicWhileConnected` needs that whoever shuts down was told so by a
connection that broke (`BrokenFirst`), and that the fields are cleared after `quit` was closed
(`ClosedFirst`).

**Accounts.** A request works on its own user's rows (`LocalsOwned`), and an address belongs to
the user of its xpub (`RowsOwned`). What is about to be appended is nowhere else, and live unless
its account was deleted meanwhile (`AppendsApart`): without this a deletion could run between the
insert and the append, and the append would bring the address back. A deletion of an xpub has
before it every address that is not gone yet (`DeletionCovers`), if they were all in the list
when it began; this survives lost answers, since one of them ends the deletion before the xpub's
own statement.

**Verification.** A code is drawn for one row only, wherever it is: in the row, in a mail about
to be sent, in a mailbox (`CodesUnique`, over `DrawnFor`). So a code that is accepted was mailed
for the row it verifies (`CodesMailed`), and mail goes out for keys that encrypt (`KeysEncrypt`).

**Limit.** `Budget` is about the mails that counts see: those in the log of the day, those sent
and not yet logged, and the notifiers past the check, of which each adds at most one to the limit
and each failed count one more. The mails that no count sees are kept apart: each was charged to
`unseen` when its outcome or its log entry hid it (`Charged`).

**Subscriber.** That a dialled connection is asked for its topic before the select depends on
`subscribed`, which must be set whenever the web server runs (`WebSubscribed`), and a connection
open past `Resubscribe` must have been asked already if there is a subscription (`Asked`). The
order of transactions is a chain: received, in hand, unread, each newer than the one before
(`Taken`, `Held`, `Queued`).

**Web server.** Every session, in a cookie or in a job on its way to one, is for the account
whose password was typed (`Honest`), no step changes whom a job acts for, and a job past the
admin check still runs for an admin (`Proper`); `WInv` has these. The middleware looks users up by
the id in the cookie and not by name; that is where re-use of names would break it, and the
mutant `GetUserNamed` does. `OneMoves` and the lemmas after it say once what moving one job does
to the others, and every action cites one of them. For the configuration, `SInv` says between
which assignments of a save the fields in memory may differ (`Paired`), what each save has
written so far (`UnderWay`), and that nothing of a save shows before it is committed
(`Settled`). `RowsCoverInput` follows from `KeyRowsCover` and `DescriptorRowsCover`, arithmetic
about position, chain and index for every gap.

### Only model-checked

Liveness, which TLAPS cannot prove: `ScanCompletes`, `RequestReturns`, `StartupCompletes`,
`FanOutEnds`, `EveryNotifierSubscribes`, `AnsweredCallsReturn`, `StartsOrHangs`, `FeedResumes`,
`QueuedIsDelivered`. Two of them have a safety half that is proved for every capacity: a start
with too many rows is stuck (`OverfullStartIsStuck`), and a jam lasts until a restart (`JamsLast`).
The refinement theorem is about safety: `ScanService!Spec` states no
fairness. The properties of the three runs that expect a violation are false, so there is
nothing to prove.

## Not modelled, and why

- Templates, MIME, curve arithmetic, logging: functions of their input, without state. Generated
  `_templ.go` files are two fifths of the code and only write HTML.
- Pages that only read. They answer with what one statement returned; `Answer` stands for them,
  and `ShowWebhook` for one that shows what belongs to somebody.
- The lifetime of a cookie (`rememberMe`): a cookie may be used for ever in the model, which
  allows more than the code does.
- `goose` and the upgrade of the tables; their constraints are guards of the statements.
- Code without a caller: `actions/xpub.go`, `lib/nonce.go`, the setters `UpdateSMTPHost` to
  `UpdateSMTPPassword`, `removeSubscription` of the subscriber.
- The settings pages read fields of `Config` without the mutex (a data race in Go): what they
  show is not in a property.
- In `TxMonitor` the amount of a notification; the properties are about who is told what.
- Two pages of the same user deleting one address twice: the second finds no entry and its
  statement blanks a blank row.

## Plan

1. `TxMatch`: `findMatchingOutputs` and `checkSentFunds` as functions over small transactions,
   against a definition of matched addresses and amounts.
2. Cache, monitor and client composed, with the start in the order of `main.go`.
