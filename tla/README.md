# Direct: specifications of the transfer protocol, its relay and its pages

Direct sends a batch of files from one device to another over WebRTC. A small Go
service introduces the two peers; the file bytes never pass through it. This
directory specifies the parts of that program whose correctness depends on
ordering, failure and interleaving, checks them with TLC, and proves the most
important results with TLAPS.

## 1. Inventory

| Component | Source | State it keeps | Operations | Talks to |
|---|---|---|---|---|
| Sender engine | `apps/web/src/lib/transfer/sender.ts` | `state`, `current`, offset, `remotePaused`, `userPaused`, `cancelled`, statuses | `start`, `onSignal`, `negotiate`, `onControl`, `sendBatch`, `pause`/`resume`/`cancel`, `fail` | channels, hashing worker, signaling client |
| Receiver engine | `.../receiver.ts` | `state`, `aborted`, `verified`, `index`, `cursor`, `received`, `writes`, `digests`, sink, hasher, backlog | `start`, `onSignal`, `answer`, `onControl`, `accept`/`decline`/`cancel`, `onChunk`, `consume`, `closeCurrent`, `finish`, `fail` | channels, sink, hashing worker |
| Channels | `.../connection.ts` | two ordered streams, `bufferedAmount`, `readyState` | `createPeerConnection`, `createChannels`, `sendControl` | browser |
| Backlog, cursor | `.../backlog.ts`, `.../cursor.ts` | bytes, paused; file, position | `arrived`, `written`; `split` | receiver |
| Sinks | `.../sink.ts` | destination, open stream, names taken, memory budget | `assessCapability`, `openDestination`, `uniqueName`, `open`, `write`, `close`, `abort` | file system |
| Hasher | `.../hasher.ts`, `hash.worker.ts` | worker, queue of promises | `init`, `update`, `final`, `destroy` | worker |
| Signaling client | `.../signaling.ts` | socket, `attempt`, timer, `reconnect`, `closed` | `connect`, `send`, `retireReconnect`, `close`, ICE prefetch | relay |
| Relay | `services/signaling/main.go` | a goroutine pair per connection, a queue and `done` per peer | `handleWS`, `readPump`, `writePump`, `deliver` | store, clients |
| Session store | `services/signaling/store.go` | sessions, their peers and lease | `Create`, `Authenticate`, `attach`, `detach`, `touch`, `peerFor`, `Reap` | relay |
| Rate limiter, ICE provider | `main.go`, `ice.go` | windows per address; cached credentials | `allow`; `turn` | HTTP handlers |
| Mobile engines | `apps/mobile/lib/transfer/*.dart` | as the web engines, plus `.part` files and timeouts | the same | the same |
| Manifest and names | `.../protocol.ts` | none | `sanitizeFilename`, `sanitizePath`, `describeFiles`, `manifestToMessage`, `manifestFromMessage` | both engines, send page |
| Progress meter | `.../progress.ts` | trailing samples, rates | `start`, `set`, `snapshot` | engines, readout |
| Send page | `apps/web/src/app/page.tsx`, `lib/ui/dropped.ts` | staged batch, snapshot, the engine `senderRef` | pick, drop, remove, send, pause, reset | sender engine, guards |
| Receive page | `apps/web/src/app/t/[session]/page.tsx` | snapshot, the engine | accept, decline, leave | receiver engine, guards |
| Guards of a page | `lib/useTransferGuards.ts`, `lib/ui/history.ts`, `lib/ui/notify.ts` | wake lock; history; permission | effects of a render, visibility | browser |
| Mobile interface, Android shell | `apps/mobile/lib`, `MainActivity.kt` | what is on screen | clicks | engines |

What is hard here:

* **Two streams race.** Control and data are separate SCTP streams, so
  `TRANSFER_COMPLETE` and `FILE_DONE` overtake chunks, and `PAUSE`/`RESUME` cross
  the data they are about.
* **Every handler awaits.** The receiver has three asynchronous activities
  (accepting, the write queue, `finish`) that interleave at each `await`, and
  `fail()` can land in any of them.
* **Failures are noticed by several parties, in any order**: a closed channel, a
  failed connection, an exception in the loop, a message from the other side.
* **Two pages meet through a third party.** Candidates arrive before there is a
  connection to add them to, the ICE configuration may still be on its way, a
  socket drops and its successor takes over, and `cancel()` lands in any of it.
* **The disk belongs to others too.** Names of a batch collide after cleaning, with
  files of the user and with what other programs create meanwhile.
* **The page outlives its engines.** Snapshots, effects, a wake lock the browser
  takes away, and an engine that was cancelled too early to notice.
* **Goroutines share a session.** A client that reconnects runs a second handler
  beside the first one's cleanup; the lock is released between steps.

What makes each part correct: the receiver writes exactly the bytes that were
sent, calls nothing verified or complete that is not, and gives no peer's chunking
a way into the wrong file; the sender believes only the receiver; neither is left
waiting; the relay gives a role only to a holder of its token, to one live
connection at a time, and tells both peers of each other. Two pages that are both there come to one
connection, and whoever leaves is gone for good, without a socket or a timer left
behind. A sink replaces nobody's file, and a ticked row is a file on the disk. A
page shows, logs and announces each outcome once.

## 2. Modules

| Module | Models | Extended or used by |
|---|---|---|
| `Channels` | the batch, the two streams, closing, damage, loss of the path | `Sender`, `Receiver` |
| `Sender` | `FileSender` from the offered manifest on | `Transfer` |
| `Backlog`, `Cursor` | `backlog.ts`, `cursor.ts`, as operators | `Receiver` |
| `Receiver` | `FileReceiver` from the offered manifest on | `Transfer`, `AnySender` |
| `Transfer` | both engines over the channels; properties of the pair | `MCTransfer`, `Transfer_proofs` |
| `Delivery` | abstract: what a transfer promises | `Transfer` (refinement) |
| `Overlap` | the same pair with the batch accepted twice: a second `accept()`, a second read loop | `MCOverlap`, `Transfer_proofs` |
| `AnySender` | the receiver against any protocol-v2 peer | `MCAnySender`, `AnySender_proofs` |
| `Relay` | `handleWS`, its pumps and the store, for one session | `MCRelay`, `Relay_proofs` |
| `SignalingChannel` | the class of `signaling.ts`, one object as a record | `Negotiation` |
| `Negotiation` | both engines from `start()` to the offered manifest, over what `Relay` shows a client | `Session` |
| `Rendezvous` | abstract: two people meet, or one of them leaves | `Session` (refinement) |
| `Session` | properties of a negotiation | `MCSession`, `Negotiation_proofs`, `Rendezvous_proofs` |
| `Names`, `Manifest`, `Meter` | `protocol.ts`' names and limits, `progress.ts`, as operators | `Staging`, `Saving` |
| `Shell` | what both pages share: the view, wake lock, history, notification | `Staging`, `Saving` |
| `Staging` | the send page, its staged batch and its engines' snapshots | `Device` |
| `Saving` | the receive page and its engine, with the sinks in detail, on a disk others use | `Device` |
| `Device` | one tab, at either page; its properties | `MCDevice`, `Device_proofs` |
| `IceProvider` | `turn()` of `ice.go` and the pages that keep its answer | `MCIceProvider`, `Ice_proofs` |
| `Receiver_proofs` | lemmas about the receiver alone, whoever sends: what `Split` returns, the queue, its outcome, the bytes counted | `Transfer_proofs`, `AnySender_proofs` |
| `Transfer_proofs`, `AnySender_proofs`, `Relay_proofs`, `Ice_proofs` | theorems of the component | |
| `Device_proofs` | theorems of a tab: its screen, other people's files and its own, budget and readout, its history, what it offers | |
| `Negotiation_proofs`, `Rendezvous_proofs` | theorems of a session: its sockets and the invariant of both engines; its steps, and the refinement | the second extends the first |

**How the engines map.** One action is one task of a page's event loop: everything
the code does from a message, a click, a browser event or a settled promise to its
next `await`. The program counter of each asynchronous activity (`loop`,
`accepting`, `task`, `finishing`) names the promise it waits for. Two
continuations (`ConsumeStart`, `Finish`) are microtasks: they run before any other
task of that page, so the other receiver actions are guarded by `AtRest`.
`cleanup()` destroys the hashing worker, and a promise of a destroyed worker never
settles; this is why the actions that answer such a promise need `sHasher` or
`rHasher`. A byte is the pair of its file and position, so a byte written in the
wrong place is visible, and the digest of a file is the sequence of bytes fed to
its hasher.

**A batch accepted twice.** Neither `accept()` nor the sender's `MANIFEST_ACCEPT`
looks at what is under way, and the Accept button stays until the first call has its
file and its hasher open. `Transfer` has one call at a time: its guards `accepting = "no"`
and `loop = "idle"` are where `Overlap` goes on. There `again` is the second call, `place` and
`mine` say whose sink and hasher `this.sink` and `this.hasher` are, `holds` what a task of the
write queue was already holding when they were replaced, and `loops` has the two read loops. Until the
second click `Overlap` is `Transfer`, step for step.

**How the relay maps.** One action is one critical section of `sess.mu` or
`store.mu`, or one channel operation of a goroutine: `Authenticate` is three (the
lookup, the lease, `Delete`), `Reap` two, since it holds `store.mu` while it looks at the
lease under `sess.mu`, and a message read is three (`touch`, `peerFor`, `deliver`).
`deliver`'s `select` picks any case that is ready. `ttl` is the remaining lease in ticks.

**How the rest of the service maps.** A request in `IceProvider` waits for `p.mu`, or
holds it across its call, or is over; a page that gave up may leave one behind.
Credentials are known by when they lapse, and were made at any moment of the call
that brought them.

**How the negotiation maps.** `eng[p]` is one engine as a record, and each method
(`cleanup`, `fail`, `negotiate`, `answer`, `onClose`, ...) is an operator from a
record to a record, so an action is one call of them as the code makes it:
`Configured` is what follows the `await` of `createPeerConnection`, `Described`
what follows `setLocalDescription`. `conns` keeps every connection an engine ever
made, because the code may lose its reference (`cur`, `cand`) to one that lives
on. A description or a candidate is the number of its connection. Of the relay
there is only who is registered, whom it still has to greet, and what is on its
way to a socket; `Relay` is where the handlers race.

**How a tab maps.** A step contains the render its `setState` leads to and the
effects of that render (`Shell!Renders`): the guard of `useTransferGuards`, the
history entry, the notification. `Staging` takes of an engine only its snapshots,
in any order `Negotiation` and `Sender` allow. `Saving` takes the receiver's
handling of a chunk as one step (`Receiver` has its awaits) and gives the awaits of
the sinks instead: `phase` names the browser call that is pending, from the dialog
through `uniqueName`, `getFileHandle` and `createWritable` to `close`. A writable
stream replaces its file when it is closed, as the browser does it. Time passes with or
without bytes (`TimePasses`), and the connection may be lost before the offer as well as after.

Failures and user choices are kinds in `Events`; `MaxEvents` bounds how many of
them one behaviour contains. Silence of ten seconds is such an event while bytes
may still come, and is certain (free) once they cannot.

Many modules also hold a few operators marked *Mutant*: one plausible mistake in
the definition after it, which the property named in `PROJECT.json` catches.

## 3. Runs

| Run | Question | Instance and bounds |
|---|---|---|
| `transfer_safety` | Is what either screen says true of the disk? Does the pair implement `Delivery`? | files of 3 and 1 bytes, chunk 2, watermarks 2/1 and 1/0, any two of 13 kinds of events |
| `transfer_progress` | Can backpressure, a pause and a dismissed dialog wedge a batch? | files of 3 and 2, chunk 1, low-water marks 0, two events |
| `transfer_settles` | After any single failure, do both screens settle? | files of 1 and 3 bytes, otherwise as `transfer_safety`, one event of 14 kinds |
| `any_sender` | Does the receiver place bytes correctly for every chunking, overrun or early end? | files of 2, 1, 2, chunks of 1 to 4 bytes, two in flight, one event |
| `relay` | Which peers may hold a role, and are both told? | two connections of a sender and one of a receiver, one unreliable, queue of 2, one message, leases 0 and 1 |
| `session` | Do two pages with a link meet, and does whoever fails or leaves do so cleanly? Does the pair implement `Rendezvous`? | one retry, any two of 7 kinds of events: a socket lost or refused, the session expired or not created, a failed ICE fetch, a failed connection, a cancel |
| `device` | Is what a tab shows, logs and saves true? Is any file replaced? | a batch of up to two of three files, one empty; an offer of one file, or of two with one name, or an inconsistent one; four kinds of browser; two transfers; one file of another program |
| `ice` | How good are the credentials a page gets, how often is the provider asked, is everyone answered? | three pages, lifetime of 8 ticks, calls of up to one, 8 ticks |
| `false_departure` | violation of main.go:317-321 | three unreliable connections, no messages |
| `ghost_peer` | violation of store.go:256 | the same |
| `accepted_twice` | violation of security/page.tsx:60-61 | one file of one chunk, a second click and nothing else |
| `drain_hangs` | violation of sender.ts:562-563 | loss of the path only, fair |

Why the bounds are enough: the file of 3 bytes takes two chunks, so there is a
chunk inside a file and one at its end, a second file to switch to, and a last
file to finish with; the receiver's high-water mark is one chunk, so `PAUSE` and
`RESUME` happen repeatedly; the send buffer blocks the loop after one chunk. With
`any_sender` a chunk of 4 covers three files. In `transfer_settles` the small file comes first:
a digest that fails on it leaves two chunks, more than the high-water mark, to a queue that is lost. Two events give every pair of a
failure and its consequence. Claims that need more are the proved ones. In the relay a role changes hands once and the evicted handler
cleans up in every order; a queue of 2 is filled by the two greetings and the one relayed message.

In `session` one retry is enough to exhaust, and the proved `NobodyIsOrphaned` has
no bound; two events give every failure and one during its handling. A page makes
a second connection (`sender.ts:293`) only in a behaviour without other events:
that pair of connections multiplies the state, and the properties name the
exception. In `device` the limits are as small as they can be with a batch at
each limit and one above it: `MaxBytes` 3, `MemoryLimit` 2, names of 2 characters,
2 segments, a history of 2. `MaxCopies` 2 runs `uniqueName` to its last resort;
a step of `Pace` lies inside the meter's window and two of them beyond it, and time
passes at most once between two readings.

In `ice` the credentials can be renewed once and nearly lapse, and the second
and third page wait for the first one's call; the proved claims have no bound, and
the proof includes the type invariant.

`CHECK_DEADLOCK FALSE` is set everywhere because a transfer, and a session, end, and
because the clock of `ice` does.

**Violations.** Four statements of the repository do not hold of the code; each run
checks one, and `PROJECT.json` (`findings`) quotes it. In short: a departure
can be announced of a peer who has just reconnected; a failed upgrade leaves a
ghost registered; a batch accepted twice can be called complete with an empty file;
`drain()` does not notice a channel that closes later. In `accepted_twice` the second
call has its file while the only chunk is being written to the first: the chunk stays there,
in a file nobody closes, and the second call's hasher, which is fed it, finds the digest right.

The passing run `transfer_safety` leaves out the event `digest`, which
`transfer_settles` includes: a `final()` that rejects on the last file rejects the
write queue too, `finish()` swallows that (receiver.ts:560), and the batch is then
reported as verified although its last file was never checked or closed.

**Fairness** (`Transfer!FairSpec`) is weak fairness of what no user decides: the two
event loops run the tasks that are due, the browser transmits while the path is up
and reports a connection that is gone, and a user who paused resumes. Accepting,
declining, cancelling and failing have none. `Negotiation!FairSpec` is weak
fairness of the same kind: a dial is answered, a timer fires, a message on an open
socket is read, the ICE fetch settles (it has a timeout), promises of a live
connection settle, the relay greets and cleans up, and two connections that know
each other connect. Nobody has to begin, open the link, cancel or fail.
`IceProvider!FairSpec` has a call end (it has a timeout) and, strongly, a waiter get
the mutex: others take it again and again, and a Go mutex is handed to who has waited
for a millisecond. `Relay` and `Device` need no fairness: their properties are safety
properties.

**What the properties except.** Where the code does not do what a property says, the
property names the case, and says nothing else may break it. Some of these
contradict a text of the repository and are not runs of their own:

* A receiver that is linked but has not read the `MANIFEST` is still "waiting", and
  `onClose` fails it as expired (`receiver.ts:159`) when its retired socket drops, though
  `signaling.ts:130-131` and `receiver.ts:183-185` say that a linked page no longer cares
  (`LinkSurvivesRelay`, `ExpiredWaiting`).
* A transfer that ends before an offer was read, expired, failed or left by its sender, is in no
  history entry, though `t/[session]/page.tsx:120` has one for each
  (`OutcomeLogged`).
* The rate stands still in a stall, because only `set()` samples, though
  `progress.ts:28-31` chose the window so that a stall would show, and `protocol.test.ts:4-6` says
  so too; its test (224-251) samples all through the stall (`ReadoutIsTrue`).
* `peer-joined` twice before the first connection exists makes two offers and two
  connections, past the guard that `sender.ts:293` says is there (`NegotiatedTwice`).
* A file that appears between `uniqueName`'s look and the creation (`sink.ts:329`)
  is replaced, though `sink.ts:239` and `312-315` say that none is (`TheirsKept`).

The others contradict no text we know of:

* `cancel()` while the session is being created (`sender.ts:221`) stops nothing: the
  engine comes back on screen, and its outcome may stand for the next one's
  (`CancelledIsQuiet`, `OutcomeLogged`).
* A batch with an empty file in it is offered (`sender.ts:207`) and refused
  (`protocol.ts:153`); `sanitizeFilename` strips dots before it trims and cuts last,
  so a name can change when the other end cleans it again (`OfferParses`).
* A file that is being closed when the batch fails can be ticked and removed
  (`BatchOnDisk`, `torn`).
* A digest that cannot be computed before the last file loses the write queue, and both
  screens go on for ever (`SenderSettles`, `ReceiverSettles`: `QueueLost`). `accept()` does not look
  at `aborted` after its awaits, so a failed transfer can show "receiving" again (`Revived`), and
  a page that was left shows what it showed (`Left`).

The models also show behaviour no property is about: a failed `close` or `createWritable`
leaves an empty file; an
offer sent into a socket that just died is lost, and both sides wait; a session found expired
can be deleted with a peer attached to it (store.go:137); a wake lock granted
after its effect was cleaned up is never released (`useTransferGuards.ts:39`); and a page keeps its one
answer of `prefetchIce` for as long as it is open (signaling.ts:67), so what
`AliveWhenServed` promises of the relay credentials holds when they are served, not
when the page connects with them hours later (ice.go:181-182 has only the former in
hand).

## 4. Theorems

| Theorem | Says | Rests on |
|---|---|---|
| `RelayTypeOK` | `TypeOK` of `Relay`, any set of connections, capacity and leases | one step per action |
| `RolesProven` | a role is only held by a connection with its token | `RolesInv`: past `Authenticate` a connection's token is that of its role |
| `StaleDetach` | only the departing holder vacates a role | `TypeOK` |
| `Evicted` | a connection that lost its role is closed, or is being closed | `EvictedInv`: also while `evict` is pending, and `done` never resets |
| `BothTold` | two registered peers that are being served know of each other, or will from their queue, for any connections and any order of their handlers | `ToldInv` |
| `NoSuccess` | a failed batch never ends as complete, for every batch, chunk size, watermark and failure | `Inv1` |
| `SenderBelievesReceiver` | the sender says complete only after the receiver verified an unaborted batch | `Inv1` |
| `VerifiedFilesAreExact` | a file called verified is on disk as it was sent, for every batch, chunk size, damage and failure | `SenderInv`, `QueueInv`, `ExactInv` |
| `PauseFollowsBacklog` | what the sender will believe once it has read its queue is what the backlog says, for every pair of watermarks | `PauseInv`: the last `PAUSE` or `RESUME` in the queue decides |
| `BacklogCounts` | the backlog is the bytes of the write queue, for any chunks and failures | `BytesInv`, and what `FlattenSeq` of a grown or shortened queue comes to |
| `CountsStayInStep` | `InStep`: while nothing failed, `received` is the files before `index` and what is hashed of that one, for any batch, chunk size and interleaving | `SyncInv` |
| `CompleteIsSaved` | a sender that shows complete has every file saved whole at the receiver, unless the hasher failed to give a digest | `SyncInv`, `ExactInv`, `CompleteInv` |
| `DigestedIsSaved` | `CompleteMeansSaved`, where no digest fails: as `transfer_safety` checks it | `CompleteIsSaved` |
| `SenderOutcomeStays` | `OutcomeFinalButForLoops` of `Overlap`: what the sender's screen shows at the end stays, whichever message, exception or closing connection comes later and however often the batch was accepted, until a second read loop has started | `LoopsInv`: until then `OneLoopInv`, a loop that announced the end is over, what the receiver says last is that the batch is complete, a sender that gave up closed its side |
| `EnginesDeliver` | the two engines refine `Delivery`, initial states and steps, where no digest fails | `SyncInv`: the verified files are those before `index`; `CompleteInv`, `EndInv` |
| `TransferTyped` | `TypeOK` of `Transfer`: a piece lies in the chunk it was cut from, also in a failed batch, and neither the backlog nor `bufferedAmount` goes below zero | `TypeInv`: `bufferedAmount` is the bytes of the send buffer |
| `NothingOutOfPlace` | `BytesInPlace`: no byte lands in the wrong file, at the wrong place or past the end, for every batch, whatever a peer of the protocol sends and whatever fails | `Flow`, `LandInv` |
| `CompleteHasEveryByte` | whatever the peer sends, a complete batch has every byte on disk and every digest compared, where no digest fails | `LandInv`, `SyncInv` |
| `HonestNeverFails` | `NeverOutOfStep`: an honest batch that nobody stops is never called failed, however it is cut into chunks | `HonestInv`, `Flow` |
| `NobodyIsOrphaned` | an engine without its channel has left no socket and no timer, for any number of retries, failures and connections | `SocketsInv`: every engine is `Sound` |
| `SessionTyped` | `TypeOK` of `Negotiation`: every reference of an engine is to a connection it made | `NegotiationInv` |
| `ConfigIsAwaited` | a connection past its configuration has what its page's one fetch came to | `NegotiationInv`: `Fetched` |
| `CandidatesAreKept` | no candidate heard by a page that negotiates once is lost, wherever it falls among the awaits | `NegotiationInv`: `Keeping` |
| `LinkedOutlivesRelay` | a linked engine fails only by `cancel()` or an unreachable peer, but for a receiver that has not read the offer, which an expiry fails | `NegotiationInv`: `Reached` |
| `CancelledStaysQuiet` | a cancelled engine whose promises have settled never changes its state | each step of an engine, and what is pending in it |
| `SessionImplementsRendezvous` | the session refines `Rendezvous`, initial states and steps | `NegotiationInv`, and a step mapping |
| `ScreenStaysAwake` | a moving transfer on a shown page holds the wake lock, is asking, or was refused, for any files, limits, browsers and disk | `AwakeInv`: the guard is a record of its fields |
| `NothingIsReplaced` | no file of somebody else is replaced but one the user chose or one that appeared in between, for any names, collisions and disk | `TheirsInv` |
| `TickedIsSaved` | a ticked file is on the disk as sent or in the downloads, and a complete batch is ticked to its last file, for any batch, limits, names and disk | `BatchInv`: the names being opened or written hold no file of the batch yet, rows below the index are verified, only a failure during a close leaves a torn row |
| `BatchFits` | a batch accepted into memory takes no more than the budget, for any offer and limit | `CountInv` |
| `ReadoutTrue` | the readout counts what was written and rates it over the window that trails the last reading, however long ago that was; nothing remains of a complete batch | `CountInv`, `ReadingsInv` |
| `OutcomesAreLogged` | the end a page shows heads the history, once and with an outcome that fits, for any order of renders, failures before and after the offer, resets and Clears; an end before the offer is in no entry | `LogInv` |
| `OffersAreRead` | an offer the send page let through is read at the other end, but one with an empty file, and a settled name as it was sent, for any files, names, folders and limits | `LogInv`: an engine that offers has a batch within the limits; what cleaning a clean name does |
| `TabTyped` | `TypeOK` of `Device`: lists keep their limits, files on the disk are those of the batch | `BatchInv`, `CountInv`, `AwakeInv`, `LogInv`, `SaveOK` |
| `ServedAlive` | relay credentials reach a page with a quarter of their lifetime left, less one timeout, for any pages, lifetimes and timeouts | `IceInv`: what is cached outlasts its refresh by that much, and no call is older than the timeout |
| `AskedOnce` | the provider is asked only when the credentials in hand are due | `IceInv`: one call at a time, begun when they were |

The only assumptions are those on the constants, named in the modules that declare
them. `SavingAssumption` says what an offer and a disk can be: no name is empty, the
disk has every name the batch may be given and no file of the batch before it
arrives, the name of last resort, which has the time in it, is nobody's, sizes
are natural numbers, as `parseByteCount` makes them, and there is a browser.
`StagingAssumption` says that the files somebody may pick are finitely many, each with
a size and a name and folders of characters, and `ShellAssumption` that what the history
holds from earlier visits is of no transfer of this tab.

**A transfer.** `NoSuccessAfterFailure` is not inductive: it needs that `rState` is complete
exactly when `verified` holds, that a verified batch was accepted and finished,
and that the write queue has a file to work on. `Inv1` adds these, and that a
`TRANSFER_VERIFIED` on its way implies `verified`; what it says of the receiver alone is
`ReceiverInv`, which holds with any peer that sends nothing before the batch is accepted
(`QuietBefore`). It rests in turn on `SenderInv`:
the sender hashes each file from its first byte to its last, `FILE_DONE` carries
the digest of the whole file, and nothing is sent before the batch is accepted.

`VerifiedIsExact` needs to know what the hasher has been fed at every await of the
write queue. `ExactInv` says that the files before `index` are whole and those after
it empty, that a parked digest is that of a whole file, and that while the hasher lives it
has been fed what is on disk, but for the piece it is being fed. A failure between a
write and its hash leaves the two apart; then the batch is aborted, and `QueueInv` says
that `finish()`, which also destroys the hasher, never lands deeper in a chunk than its
first write. So the digest that is compared is the digest of what is on disk, and it was
only announced for the whole file.

`InStep` and `CompleteMeansSaved` rest on where each await leaves the bytes. `SyncInv` says
of every batch that the verified files are those before `index`, and of a batch that was not
aborted, closed or not, that `received` is `FirstBytes[index - 1]` and the bytes fed to the
hasher, that what is left of the chunk leads from there to the cursor piece by piece
(`Cuts`), and, until the connection is closed, that every file before `index` is saved.
`fail()` does nothing once the batch is complete or declined: `Closing` says that there is
then nothing left to fail. The cursor moves a whole chunk at once,
so this needs what `Split` computes: `SplitOK` shows by an induction over its rounds that
the pieces follow one another from the old cursor to the new one, that each but the
last ends its file, and that a chunk beyond the end is reported. When the count is then the whole
of the batch, the index is past the last file (`CountedIsWhole`), and stays there
(`WholeStays`). A rejected digest breaks the queue and `finish()` goes by the count alone: that is
the `broken` of `CompleteIsSaved`, and the hypothesis of `DigestedIsSaved` and `EnginesDeliver`,
whose run leaves that event out. The lemmas about `SyncInv` are about the receiver by itself,
and hold whoever sends.

`EnginesDeliver` follows each step of the pair with the one `Delivery` makes of it: `FileCloses`
saves a file, `Finish` and `fail()` end the receiver, a message, an exception or `cancel()` the
sender, and nothing else is seen. That the sender ends once needs `EndInv`: `OnAccept` and `OnReject`
do not look at `sState` before they change it, and are harmless because a batch accepted once is never
also rejected, and who has given up reads no more messages.

**A batch accepted twice.** The code has no guard against a second `MANIFEST_ACCEPT`, and what a complete
batch promises does not hold of `Overlap`: `accepted_twice` refutes it. What is left is `SenderOutcomeStays`. As long as there is one
read loop (`LoopsInv`), whatever the receiver does, with one call of `accept()` or two, is `Tidy`: it
leaves the sender alone, it starts to finish only when told, and it says `TRANSFER_VERIFIED` as
it closes, so nothing comes after it. The loop that told it is over by then, and a sender that shows
an outcome has read all there was to read, or closed. A second loop starts from the first file
whatever the screen shows, and its "transferring" and "verifying" stand over an outcome: the theorem promises nothing
from then on.

**Any sender.** The web sender starts a chunk at every file, so what is proved of the pair says
little of `BatchCursor`. Here the peer cuts the batch where it likes. `Flow` says that while
the batch goes on, the chunks that wait in the queue and those in flight follow one another
(`Lies`) from the byte where the cursor is up to the one where the peer is, and that each holds
what the batch holds there (`InPlace`), as far as the batch goes; `StreamIs` says
where each byte of each file is in the batch. When `consume()` takes a chunk, `SplitFits` puts
each of its pieces where its file is, and `LandInv` follows the bytes of a piece through the awaits:
the files before `index` are whole, that one is a prefix, and what is hashed is what is written,
but for the piece between its write and its hash. None of this needs an honest peer, since what
comes beyond the batch is in no piece: `split` reports it. `CompleteHasEveryByte` adds that a
complete batch has its index past the last file (`Closing`). `HonestInv` says that without an event
nothing is aborted or closed: the cursor never overflows because the peer is never past the end, each
piece meets the open sink (`Held`), each digest is that of what was hashed, and `finish()`, which waits
for the last byte, finds every byte counted.

**Both told.** Two handlers that register at the same time each look for the other with
`peerFor` under the lock. Whichever looked last has found the other, and is greeting
both, until both were told: that is `ToldInv`. What a connection was told lasts
until its handler returns, because its pump is started once, after its greetings, and
only a closed or slow connection drops messages.

**A session.** `NoOrphanSocket` is not inductive: the late error of a
socket that was closed while dialing must not schedule a retry, so `Sound` adds that
such a channel is closed, and that engine and channel are records of their fields.
It is shown of each method (`Cleanup`, `Fail`, `Rechannel`, `OnSignal`, ...) before
the actions, which only compose them. `NegotiationInv` is built the same way. Of one engine it says
(`Good`) that its connections wait for the fetch of its page exactly while that is
pending, that its references are to a connection that has its configuration, how far each
connection is, that an engine without its channel has said so and closed what the other
side may know of, and where each candidate heard of is. Of the pair (`Pair`) it says that every offer and
answer, in a connection or on its way, is of a connection that exists and is closed
if its engine let go; that a sender of one connection makes one offer and is answered
once; and that a linked sender and a receiver with the manifest are past
every await that could fail them.

The refinement follows each action with the step `Rendezvous` makes of it: `Begin` and
`Open` look, `Connect` forms the pair, `SenderOpens` and `ReceiverOpens` link, whatever
fails or cancels an engine leaves, and the second connection of one sender spoils what
`Rendezvous` promises from then on. Everything else is a step it does not see, which each
method shows of itself (`Moves`, `Keeps`).

**A tab.** `TheirsKept` needs to know which name the engine is about to
touch: `TheirsInv` says that the name being opened is held by nobody else's file
unless it was chosen or raced, that the open sink is that name, and that no sink
is open while the next name is looked for. `BatchOnDisk` needs that a name about to be
written holds no file of the batch: `BatchInv` says it of every pending call, so that
closing a file never replaces an earlier one.

`HonestBatchFits` and `ReadoutIsTrue` count bytes. `CountInv` has a function `g`, the sums
of the first sizes of the manifest: what the meter was told, and in memory what
was taken from the budget, is `g[index - 1]` and the bytes written of that file, and the
last sum is what `assessCapability` compared with the limit. `ReadingsInv` ties the
meter's samples, from which it drops what the window no longer needs, to the whole series of
readings: they are exactly its end, from the latest reading older than the window.

`OutcomeLogged` relates the screen, the history and every engine the page ever made. `SendInv`
says of the send page that, unless a transfer was cancelled while its session was being created,
the screen shows the last engine or nothing, the engines before are quiet (`Following`), and the
end on the screen heads the history, which has no other entry of that engine. The engine of the
receive page may show "receiving" again after an end, as `accept()` does not look at `aborted`
after its awaits: `Showing` says that the history has the first end the page showed, and what can
follow it. `OffersAreRead` needs that an engine that was neither cancelled nor has failed has a
batch within the limits (`HasBatch`), that describing a batch does not change its total
(`TotalsAgree`), and that `Filename` and `Pathname` leave alone what is settled (`FilenameAgain`,
`PathnameAgain`). `Without` is a fold for that proof: nothing can be proved of `SelectSeq`, which
takes an operator.

What `TotalOf` and `FlattenSeq` compute is shown for sequences of any length. Both are
recursive functions, so the proofs show that such a function exists (`SumExists`,
`JoinedExists`) and what it is, by an induction over the natural numbers that is itself
proved from the least counterexample (`Induction`, `LeastNatural`).

Every invariant, action property and refinement of a passing run is a theorem, the refinements
for their initial states and steps; three of them (`DigestedIsSaved`, `EnginesDeliver`,
`CompleteHasEveryByte`) where no digest fails, as in the runs. Only model-checked: liveness
(`BatchCompletes`, `SenderSettles`, `ReceiverSettles`, `LostContactIsReported`,
`MeetingIsOffered`, `EveryoneAnswered`), as fairness and ENABLED are out of the prover's reach.

## 5. Not modelled, and the plan

Not modelled: the rate limiter (a counter under one mutex, apart from everything
else); the mobile engines and screens and the Android shell; HTTP routing, the environment, CORS and origin checks of the relay; diagnostics;
drawing, wording and formatting (`formatDuration` among it); `sanitizeNote`, MIME
types and the range of `chunkSize`; other tabs, whose history `history.ts` does not
see after its first read.

Simplifications inside the modelled part: in `Transfer` a file that is removed keeps
its bytes in `disk` and is marked in `fate` (`Saving` has the disk as it is); there
one `accept()` runs at a time. `Overlap` has the second; a third click is left out, a read loop that
drains goes on when the buffer is at the low-water mark, whichever loop set the threshold, the labels beside
the sender's files are those of its first loop, and `copies` and `kept` stand for `disk` and
`fate`. `Saving` has of a second `accept()` the refused or dismissed dialog only. `AnySender` has
one call. In `Negotiation` one
candidate stands for all of a connection, and a retry has no length. In `Staging`
one entry is dropped, before the first transfer, and its folders are read before the
second. In `Saving` the user picks no file twice in a save dialog. The byte layout of
messages is left out.

In order:

1. `MobileSender` and `MobileReceiver`: the Dart engines, their timeouts and
   `.part` files, against the same channels and the same `Delivery`; mixed pairs.
2. `RateLimiter`.
3. Leases in `Relay`: a stale `detach` and the idle lease, as a run of its own; the
   refinement of `Relay` to a two-slot rendezvous, and its proof.
