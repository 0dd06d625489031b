# Verification of the WAHA WhatsApp integration

This directory holds TLA+ models of `home-assistant-whatsapp`, the TLC
configurations that check them and TLAPS proofs about them. The reference is
the code under `src/`; paths below are relative to
`src/custom_components/waha_whatsapp/` unless they say otherwise.

## 1. The system

The integration connects Home Assistant to a WAHA server (an HTTP API in front
of WhatsApp). It is one asyncio event loop: between two `await`s a task is
atomic, and everything below is about what happens *at* the awaits: disk
writes in an executor, HTTP requests, locks, timers, cancellation, a reload of
the config entry that leaves the old objects reachable, and the death of the
process.

| component | state it keeps | operations | hard behaviour |
|---|---|---|---|
| correlated sends (`correlated.py`) | ledger file, `_records`, `_active`, `_stopping`, writer slot | start, stop, execute (claim, send, finish), alias of a restaged upload, media lookup | crash between send and record; reload while a send is in flight; failed write that replaced the file; cancellation at every await |
| polls (`poll_manager.py`, `polls.py`) | poll file (pending polls, receipts), timers, recovery table, writer slot | start, stop, register, vote, commit, recover, query receipts | stale timer against newer vote; crash between consume and publish; retry budget; reload |
| channel registry (`channel_registry.py`) | message and event tokens, file, writer slot | remember message, claim event, resolve | claim durable before publication; roll back in memory of what is on disk; eviction |
| inbound (`inbound.py`, `guest_inbound.py`, `general_group_inbound.py`) | none of its own | webhook to event on the bus | claims before publishing; awaits between authorization and publication |
| activity (`activity.py`) | leases on typing indicators, locks | mark read, set typing, expire, stop | expiry against refresh against stop |
| media (`media.py`, `media_*.py`) | files, index, budget, leases, send slot | observe, fetch, stage, open, expire, remove, send | budget accounting over failures, shared downloads, expiry of files in use |
| guests (`guest_registry.py`, `guest_manager.py`, ...) | group record, stays of guests, two locks | provision, adopt, reconcile, webhook change, suspend, private send | reconcile against suspend and send; create at most once |
| commands (`commands.py`) | one table of declarations and its file | register, remove, match | a save that fails |
| outbound observation (`outbound.py`) | bounded set of tracking tasks | observe, track, stop | a send must not wait for its observation |
| general groups (`general_groups.py`) | none (a view of the configuration) | resolve, send | staleness of a checked route |
| entry lifecycle (`__init__.py`) | runtime data, callbacks | setup, failure paths, unload, remove | the order of the stops; a failing setup leaves objects behind |
| HTTP client (`api.py`) | none | requests, webhook registration with retries | classification of an uncertain outcome |
| HAOS app (`src/waha/*.mjs`) | child processes, discovery record | supervise, discover, shut down | exit once, kill deadline |
| configuration flow, diagnostics, notify entities, migration, helpers | none or the configuration | forms and views | none that concerns concurrency |

How they interact. A send action of a consumer goes through `correlated.py`,
which calls back into the transport (`api.py`, `media_send.py`,
`poll_send.py`); an accepted message is then remembered by the channel
registry, and a poll is registered with the poll manager, inside the same
admitted call. The unload of the entry therefore stops activity first, then
drains the sends, then the polls, then the media, and the channel registry last
(`__init__.py:673-690`). Webhooks enter through `__init__.py` and go to the
poll manager, the inbound managers and the guest manager. Three components
(sends, polls, channel registry) own a file each and use the same scheme for
it: a `DurableStore`, a lock held across every write, and a process-wide
*writer slot* through which a new runtime fences and drains the old one before
it reads the file.

## 2. Plan

The order is that of the harm a wrong step does: a message sent twice, a poll
answered twice, an event lost or delivered twice, a second group, and only then
convenience.

1. `CorrelatedSends` with its abstract `KeyedSend` and its proofs.
2. `PollSettlement`: votes, settlement, receipts.
3. `EventDelivery`: the channel registry and the inbound managers that claim an
   event before they publish it.
4. `ActivityLeases`: typing indicators, their timers and the fence at a stop.
5. `MediaStore`: files, index, budget, leases and shared downloads.
6. `GuestGroup`: provisioning, reconciliation and suspension of the managed
   group, with the proof that it is created once.

All six are written. No module composes them: what they share is an admitted
call (sections 3 and 4: the transport callback of a send is one step of
`CorrelatedSends`, the registration of its poll one of `PollSettlement`) and the
order of the stops, in which each of them sees only its own. What is worth
doing next: an abstract *slot file* (one writer at a time, a file that changes
by whole snapshots) that sends, polls and channel registry would each be shown
to implement.

What each of these has to get right:

| component | wanted |
|---|---|
| sends | at most one transmission per key and retention; a definite answer is kept |
| polls | one announcement per poll, of the newest saved choice, after its window; nothing that was accepted is forgotten by a running manager |
| channel registry, inbound | an event is published at most once in its lifetime; a token handed to an automation resolves until it expires; a claim is never lost silently |
| activity | an indicator that was switched on is switched off; never on after the stop |
| media | the budget is never exceeded; no file is removed under a lease; what was called ready can be had until it expires; what expires is removed |
| guests | one group is created; the file is one a start accepts; a send stays within one stay; a suspension is never undone by a stale reconciliation |

Modules that are proved about declare no RECURSIVE operator; sums are
`SumFunction` of the community modules, and `Sums.tla` has what the proofs need
of them. Liveness stays with TLC.
Each run asks several questions of one instance, as its state space is what
costs.

## 3. Correlated sends

`KeyedSend.tla` is the promise for one idempotency key, as a caller reads it in
`docs/CHANNEL_API.md`: a claim is durable before it is transmitted, is
transmitted at most once, is never forgotten while its outcome is unknown, and
in any other case only when its retention is over. It knows nothing of
managers, locks or crashes. (It does not say that a *pending* entry is never
forgotten, because that holds only of sends shorter than the retention: when one
takes longer, `media_binding` can prune its settled record (`correlated.py:308`)
while `_finish` still writes it; if that write fails with the old file, the
next write of another key drops the pending entry. The retention is seven days,
so the promise loses nothing in practice.)

`CorrelatedSends.tla` is `CorrelatedSendManager` with its `DurableStore`.

| in the model | in the code |
|---|---|
| runtime | one `CorrelatedSendManager`; every setup of the entry makes one |
| call | one `async_execute` task |
| `disk`, `mem`, `snap` | the ledger file, `_records`, the snapshot in `DurableStore.async_save` |
| `lock`, `slotLock`, `owner` | `_lock`, `_WriterSlot.lock`, `_WriterSlot.owner` |
| `available`, `stopping`, `active` | `persistence_available`, `_stopping`, `_active` and `_drained` |
| `phase`, `pc` | where `async_start` and `async_execute` stand between two awaits |
| `sends`, `told` | history: what was handed to WAHA, what callers were told |

Actions follow the awaits: `Arrive` (up to the lock), `Replay`, `Refuse`,
`BeginAlias`, `BeginClaim` (from the lock to the disk write), `AliasSaved`,
`ClaimSaved` (the write ends), `Preflight`, `Transmit`, `Respond` (the
transport callback), `BeginRecord`, `RecordSaved`, `CancelFinish` (`_finish`),
`EnterSlot` to `StartSaved` and `CancelStart` (`async_start`), `Stop`
(`async_stop`), `LookUp` (the pruning that `media_binding` does without the
lock). A write ends in four ways: acknowledged, acknowledged to a cancelled
caller, failed with the old file, failed with the new file. A crash keeps the
file, with a write under way done or not.

What the properties say:

* `AtMostOnce`: two transmissions of one key were claimed at least a retention
  apart, over any mix of reloads, crashes, cancellations and failing writes.
* `IntentFirst`: a message is handed to WAHA only while the *file* holds its
  intent as pending.
* `OneWriter`: only the owner of the slot has a snapshot on its way to the
  file, and while a runtime loads nothing of another one is running.
* `AnswersStand`: who was told accepted or failed finds it in the file and in
  the serving runtime for a retention, and nowhere the opposite.
* `ReceiptsDurable`: a receipt for a staged upload is given only when the file
  lists that upload. Excepted is an outcome that a replaced or degraded runtime
  repeats for longer than the file has to keep it (`Outlived`): such a runtime
  answers from its memory and prunes nothing. With a clock that passes the
  retention, model checking found the property false without this exception.
* `SnapshotsFit`: what is written never exceeds the limits, because `_fits`
  reserves room for outstanding results.
* `KeepsPromise`: refinement; for every key the file and the transmissions
  behave as `KeyedSend`.
* `ReplacementServes`: a runtime that waits for its predecessor comes up, or is
  given up: no call keeps the old one undrained.
* `PendingIsConcurrent` (violated): `CHANNEL_API.md:204` says that a subsequent
  identical call returns the settled result. `_finish` (`correlated.py:551`)
  waits for the lock outside any handler for cancellation; a task cancelled
  there leaves its record pending with no call in flight, and every later
  call is told `pending` until a restart.

| run | instance | why this instance |
|---|---|---|
| `sends_reload` | 1 key, 2 calls, 2 digests, 2 uploads, 3 setups, 1 crash, clock to 1, retention 1 | two calls race on a key or conflict, over restaged uploads, one may come from before a reload; three runtimes are one old, one serving, one starting; a record can expire and be claimed again; refinement is checked here |
| `sends_media` | 2 keys, 2 uploads, 2 calls, 2 setups, 5 units of storage | the ledger is full with one restaged record and one pending one; no symmetry and no crash (a crash ends every obligation), for progress |
| `sends_pending` | 2 keys, 3 calls, 1 runtime | the lock must be contended, so two keys |

Symmetry over calls, runtimes, keys and uploads is used in `sends_reload` only.
`CHECK_DEADLOCK FALSE` is given because the number of calls, of setups and of
ticks is bounded and an idle system has nothing to do.

Fairness (`Fairness`): a task that can run runs, an executor job ends, an HTTP
request ends (every request of `api.py` has a time out). Arrivals, stops,
cancellations, crashes and the clock are under no obligation. The locks are
fair in asyncio; weak fairness is enough because a lock is never taken again
by the same call.

### Proofs (`CorrelatedSendsProofs.tla`, `CorrelatedSendsRefinement.tla`)

For any sets of keys, runtimes, calls and uploads, any retention and any
number of crashes, from the assumptions in `CorrelatedSends` only (the
retention is a positive number, the bounds are numbers, `None` is none of the
other values):

* `TypesHold`, `SentAtMostOnce`, `OneWriterHolds`, `IntentsFirst`: `TypeOK`,
  `AtMostOnce`, `OneWriter` and `IntentFirst` hold of `Spec`;
* `AnswersStandHolds`, `ReceiptsDurableHolds`: so do `AnswersStand` and
  `ReceiptsDurable`;
* `SnapshotsFitHolds`, `LedgerLoads`: `SnapshotsFit` holds, and the file is one
  that a start accepts, whatever the limits;
* `KeepsPromiseHolds`: `CorrelatedSends` implements `KeyedSend` for every key.

`AtMostOnce` alone is not inductive: that a second transmission is impossible
depends on what is in the file, in the memory of the runtime that admits, and
in a snapshot between the two. `IInv` says so: `SlotInv` (what a starting or
fenced runtime is like), `LockInv` (a snapshot is in flight only under the
lock), `OwnerInv` (admitted calls belong to the owner of the slot, and are what
it drains), `IntentInv` (the intent of an admitted call is pending in memory
and in the file until its outcome is written; two calls never share a key),
`FenceInv` (every transmission is covered by a record at least as young, or its
retention is over, in the file, in every snapshot and in the memory of every
runtime that serves), `WrittenInv` and `SpacingInv` (a claim that is not
transmitted yet is a retention away from every transmission of its key). The
preservation proof has a lemma per action, after lemmas on the operators
(`Prune`, `Restored`, `WithStatus`) and on what a step does to locks, calls and
ledgers.

The refinement needs more. `KeyedSend` sees the file and the transmissions, so
only the end of a write, a crash, `Transmit` and the clock are steps of it; but
whether the file that a write leaves is a legal successor of the one before was
decided when the snapshot was taken, or in the several changes of memory before
that. `RefInv` therefore says that the memory of a serving runtime and every
snapshot in flight `Follows` the file: each record is that of the file, settles
it, is a new claim a retention away from all transmissions, or forgets one that
may be forgotten (`LeadInv`). It also says that a memory loses nothing but
expired records while its snapshot is written (`MemInv`: the lookup of
`media_binding` prunes without the lock), that an outcome is recorded as
accepted only with its transmission in the history (`SentInv`) and that what is
recorded is final (`FinalInv`). `ReplacementKeeps` and `TransmitKeeps` then map
each visible step to `Claim`, `Resolve`, `Forget`, `Transmit` or a stutter.

`AnswersStand` needs to know where an answer can be found. `StandInv` says that
what a caller can see (told already, or in the memory of any runtime and not just
being recorded there) is everywhere while its retention lasts: in the file,
in every snapshot and in the memory of every runtime that serves. `AgreeInv`
says that a claim has one outcome at most, anywhere, and none while its call
is under way, so a write can only add what nobody contradicts. `MirrorInv` (the
memory of the admitting runtime is the file but for expired records) and
`IntentStays` (until the outcome is saved the file has the intent) say what an
interrupted write leaves. `ReceiptsInv` is the same argument about uploads:
`ShownInv` (an upload that a caller could be told about is recorded everywhere),
`UploadInv` (the upload of a call goes with its intent), `AliasInv` and
`RecordInv` (what the two kinds of write add).

`SnapshotsFit` is about sums. `RoomInv` says that the memory of a runtime with a
call under way fits with every outstanding result charged at its largest, and
that while an outcome is saved it fits with `unknown` in the place of that
outcome, which is what a failing write puts there. `Sums.tla` proves the facts
about `SumFunction` that this takes (a sum is monotone; changing one value
changes it by the difference), by an induction over the subsets of a finite set
that needs no operator as a parameter. For that, `FiniteAssumption` says that
keys and uploads are finitely many: in the code they are SHA-256 digests
(`correlated.py:290-291`).

Only model-checked: `ReplacementServes`, which needs fairness, and
`PendingIsConcurrent`, which does not hold.

Not modelled: error codes beyond the statuses, message identifiers, the
diagnostics of `_capacity_exhausted`, and the read-only `owns_request`.

## 4. Polls

`PollSettlement.tla` is `WahaPollManager` (`poll_manager.py`) with its
`PollRegistry` (`polls.py`).

| in the model | in the code |
|---|---|
| runtime | one `WahaPollManager`; every setup of the entry makes one |
| task | `async_register_poll`, `async_handle_payload`, `_async_commit` or `_async_recover` under way |
| `disk`, `mem`, `snap` | the poll file, `_registry`, what `_write_registry` is writing |
| `lock`, `slotLock`, `owner` | `_lock`, `_PollWriterSlot.lock`, `_PollWriterSlot.owner` |
| `timer`, `recovery`, `spent` | `_timers`, `_recovery`, the polls counted in `retry_exhausted` |
| `journal`, `acked`, `accepted`, `settled`, `announced` | history: the receipts that could be read, the votes known to be saved, the votes accepted, the announcements |

Actions follow the awaits again: `EnterSlot`, `FencePrevious`, `TakeOver`,
`Load`, `LoadFails`, `CancelStart` (`async_start`), `Stop` (`stop`),
`Register`, `BeginRegister`, `Registered` (`async_register_poll`), `Vote`,
`BeginVote`, `VoteSaved` (`async_handle_payload`), `Rejected`, `Abandoned`,
`Fire` (a timer), `BeginRewrite`, `Rewritten`, `RetryCommit` (`_async_recover`),
`Moot`, `CommitLater`, `CommitUnbuilt`, `BeginCommit`, `CommitSaved`, `Publish`
(`_async_commit`, `_async_publish`).

What the properties say:

* `SettledOnce`: a poll is announced at most once and has at most one receipt.
* `NewestChoice`: what is announced is not older than any vote that the same
  runtime accepted or that any runtime saved.
* `CorrectionWindow`: it was accepted a settle time before it is announced,
  even if timers were lost at a reload or fire early.
* `ReceiptsDurable`: what a query for receipts has shown is in the file, at its
  place.
* `SavedVotesKept`: a saved vote of an application poll leaves the file only
  for a newer one or for its receipt.
* `NothingStranded`: in a serving runtime a poll that is to be settled, or that
  differs from the file, has a timer or a task, or was counted as exhausted.
* `OneWriter`: as for the sends, and publication included.

| run | instance | why this instance |
|---|---|---|
| `polls` | 2 tasks, recovery table of 1, 1 retry, in two scopes: 1 application poll, 2 votes, settle time 1, clock to 2, timers up to 1 early, 2 setups, 1 crash; and 1 application and 1 automation poll, 1 vote each, clock to 1, in 1 runtime | a vote in the window and a correction, a stale timer that meets a newer vote, a timer rebuilt at a reload, a failed write that replaced the file before a reload or a crash; the recovery table is contended and retries run out |

The two scopes are the CONSTRAINT `InScope` of `MCPollSettlement`: the histories
of both polls over a reload and a crash would be out of reach. Tasks and runtimes
are symmetric.

What is abstracted. The delays between retries (1, 5 and 30 seconds) are not
told apart: a retry comes at any time after the vote may be settled. A vote is
its timestamp and whether it selects an option; it is chosen when the vote has
the lock, since nothing is decided on it before. The contact of an application's
conversation can be removed and added at any time, so a lookup of it may find it
or not wherever the code has one. A timer may fire early by `Skew` because a loop timer runs on the monotonic clock and
`settle_at` is wall time. A settlement task is cancelled only when the process
ends, because nothing in the integration cancels it; a registration and a vote
can be cancelled at any await. Receipts are never trimmed (7 days, 2048 in the
code), and the stored file is never corrupt. The rejection counters are left
out.

No fairness is assumed and no liveness checked: that every selected choice is
settled, corrected or given up is stated by its safety counterpart,
`NothingStranded`, which says that such a poll always has a timer or a task that
is good for it. That timers fire and tasks run is the event loop's part.
`CHECK_DEADLOCK FALSE` is given because polls, setups and the clock are bounded,
and an idle manager has nothing to do.

### Proofs (`PollSettlementProofs.tla`)

For any sets of polls, applications, runtimes and tasks, any settle time, timer
skew and number of retries and crashes, from the assumptions in `PollSettlement`
only:

* `SettledOnceHolds`, `NewestChoiceHolds`, `CorrectionWindowHolds`,
  `ReceiptsDurableHolds`, `SavedVotesKeptHolds`, `OneWriterHolds`,
  `NothingStrandedHolds`, `TypeOKHolds`: these properties hold of `Spec`.
* `InvariantHolds`: so does the inductive invariant `IInv`.

None of the properties is inductive: whether a poll can be settled twice depends
on every place from which it could come back. `InUse` names them: the file, the
memory of a runtime that can still admit a write, and the write under way.
`DataInv` says of each such registry that it has every receipt a reader could
have seen, one for each poll at most (`ReceiptsOK`); that a poll which waits in
it was not settled, has its newest saved vote, and that this vote was accepted a
settle time before it is due (`PendingOK`); and that a saved vote of an
application is in it or has its receipt there (`SavedOK`). The memory of a
fenced or dead runtime may hold settled polls again, so there is nothing to say
about it: `SlotInv` and `LockInv` (one owner, whose write is what it has in
memory, with or without the poll it settles) show that it is never read into
use. The lemmas `QuietRegistries`, `LoadedRegistries`, `BegunRegistries`,
`AcknowledgedRegistries` and `FailedRegistries` say which registries a step
brings into use, and `DataKept` that they are as they should be; `ConsumedOK` is
the settlement and `WithOK` the vote.

`UntouchedInv` excludes the registration that comes after its poll was settled:
a poll is handed to a registry once, so nothing happened to it before.
`AcceptedInv` ties the votes a runtime accepted to the vote it has in memory.
`SettledInv` collects what has been, or is about to be, announced: it is `Final`
(the newest choice, in time, with its receipt), and `FinalKept` shows that it
remains so, because a poll that is over accepts no vote and acknowledges none.

`NothingStranded` holds by a second invariant, `StrandInv`, on top of `IInv`:
that a poll has a timer or a task says nothing unless the two are still good for
it when they come to it. No timer and no task is for a newer vote than the one in
memory; one that is for exactly this vote and settles rather than retries finds
it selected (`Late`); a task that writes is for the vote that is in memory, and
one that registers or rewrites is for a vote that selects nothing, so that it
leaves nothing open when it succeeds (`JobOK`). So a settlement that finds itself
superseded, or that has nothing to settle, may end without a trace (`Moot`): it
was not what the newest vote relied on. `Locally` reduces each step of a task to
that task and its poll (what it writes is what the other polls have in memory,
and no other task is in the middle of a write); a load and a crash are looked at
as a whole. TLC has checked `StrandInv` on small instances.

Every property of the run is proved.

## 5. Events and tokens

`EventDelivery.tla` is `ChannelRegistry` (`channel_registry.py`) with the
managers that feed it: `inbound.py`, `general_group_inbound.py`,
`guest_inbound.py` and the tracking part of `outbound.py`.

| in the model | in the code |
|---|---|
| runtime | one `ChannelRegistry` and the managers of its setup |
| task | one webhook handler, or one tracking of a sent message |
| `disk`, `mem`, `undo`, `snap` | the channel file, `_messages` and `_events`, the copies `_save` rolls back to, the snapshot that is written |
| `lock`, `slotLock`, `owner` | `_lock`, `_ChannelWriterSlot.lock`, `_ChannelWriterSlot.owner` |
| `volatile` | runtimes on `_VolatileStore` (`use_volatile_storage`) |
| `routed` | whether the conversation of an id is configured and confirmed |
| `published`, `evicted`, `handed`, `dropped`, `lost` | history: publications with the time of their claim, claims that made room, tokens given out, tokens left out by a load, claims whose handler was ended |

Actions: `EnterSlot`, `FencePrevious`, `TakeOver`, `Load`, `LoadFails`,
`CancelStart`, `Stop` (`async_start`, `stop`); `Deliver` (a webhook up to its
first wait), `Track` (a sent message), `Verified` (the proof of a group or
guest), `BeginRemember`/`Remembered` (`async_remember_message`),
`BeginClaim`/`Claimed`/`Duplicate` (`async_claim_event`), `Publish`, `Revoked`
(the second check of a general group), `Interrupted`, `Refused`, `Abandoned`
(the ways out), `Reroute`, `Tick`, `Crash`.

What the properties say:

* `PublishedOnce`: however often WAHA delivers an event, over reloads, crashes
  and failing writes, it is published once. The lifetime of claims (24 h) and
  the age limit of the managers (1 h, and 5 min into the future) do this
  *together*; neither does it alone. Excepted: events whose claim was evicted
  by a full table, and runtimes whose file could not be read.
* `ClaimedFirst`: when a handler stands before its publication, the file holds
  the claim.
* `NoSilentLoss`: a claim that suppresses retries belongs to an event that was
  or is about to be published, or whose handler was ended after the claim; a
  claim that was merely not saved does not suppress anything.
* `ClaimsKept`, `TokensKept`: a serving runtime knows every claim and every
  token that was given out and is not over, unless the table is full of
  younger ones.
* `UsableIsDurable`: what `resolve_message` resolves is in the file.
* `OneWriter`: as for the sends.

A clock that is set back is outside these promises. `_restore`
(`channel_registry.py:246`) drops claims that lie in the future; if the wall
clock is behind after a restart, the claim of a recent event is dropped, and a
webhook that comes again, and passes the age check (5 minutes into the future are
allowed), is published a second time. The clock of the model never goes back.

| run | instance | why this instance |
|---|---|---|
| `events` | 2 handlers, 2 setups, room for 1 claim and 1 token, claim lifetime 2, age limit 0, in two scopes: 2 reactions, 1 crash, clock to 2; and 1 message of a general group with 1 sent message, clock to 1, while routes come and go | a claim expires, is evicted, or is rolled back by a failing write while its event is delivered again; either runtime can be volatile; tokens displace each other and are dropped for lack of a route; every way a claim can fail or be interrupted |

The two scopes are the CONSTRAINT `InScope` of `MCEventDelivery`: ids of one kind
at a time, because all of them at once are out of reach. Handlers, runtimes and
reactions are symmetric.

`WindowAssumption` is what makes `PublishedOnce` true: age limit, future skew
and the time between the age check and the claim add up to less than the
lifetime of a claim. In the code these are 3600, 300 and 86400 seconds; a
handler would have to hang for 22 hours. The instances keep the inequality
with numbers as small as it allows.

What is abstracted. An event is its id, timestamp and kind; parsing, mentions,
media descriptors, membership metadata and commands are not told apart. One
conversation belongs to each id. An entry of a table is the time it counts by.
When a table is full, any of several entries of the same age may go. The
histories grow by at most one publication per claim, so the state space is
finite. A volatile runtime keeps its tables in memory only.

`CHECK_DEADLOCK FALSE` is given because setups and the clock are bounded.

### Proofs (`EventDeliveryProofs.tla`)

For any sets of events, messages, runtimes and handlers, any table sizes and
any number of crashes, from the assumptions in `EventDelivery` only:

* `PublishedOnceHolds`, `ClaimedFirstHolds`, `OneWriterHolds`: the three
  properties hold of `Spec`. The first two use `WindowAssumption`.
* `TypeOKHolds`, `ClaimsKeptHolds`, `TokensKeptHolds`, `UsableIsDurableHolds`,
  `NoSilentLossHolds`: and so do the others that the runs check.
* `InvariantHolds`, `TablesHold`: so do the inductive invariants, `IInv` and,
  on top of it, `TablesInv`.

That no event is published twice depends on where its first claim can still be
found. `CoverInv` says it: a claim `c` of `e` that was acknowledged to runtime `q`
is *covered* (a claim of `e` at least as young as `c`, or the lifetime of `c` is
over) in the file, in the memory of every runtime that can still admit a write,
and in what that runtime falls back to if its write fails. Runtimes without
storage neither have the file nor are in it, so pairs of which one is volatile
are left out (`Apart`), and events whose claim made room are. `SoundKept` is the
core: every step keeps an old claim covered. A load cannot drop it as future,
since no table has a claim of the future (`PastInv`); a stale runtime cannot
overwrite it, since only the owner has a write under way, and writes what it has
in memory (`SlotInv`, `LockInv`); forgetting what is over uncovers nothing
(`FreshCovers`). `NewClaims` and `CoverKept` show that a new claim is covered at
once: it was acknowledged, and no other runtime can admit anything. Then
`ClaimsApart` does the arithmetic: a second claim of a covered event is not a
duplicate only if the lifetime of the first is over, which the age limit excludes
(`TimeInv`, `WindowAssumption`).

What is kept in a table of limited size is the subject of `TablesInv`. An entry is
*kept* (`Kept`) in a table that has it, or that is full of entries at least as
young. Trimming drops the oldest, and the entry that was just written is the
youngest (`FitInv`: every table is within its limits and has no token for longer
than one written now; `HandedInv`, `WritesInv`), so whatever a step brings into a
table, what was kept is kept: `TrimmedKeeps` and the lemmas about loads, rollbacks
and pruning. `KnownInv` and `TokenInv` say that every acknowledged claim and every
token that was handed out is kept in the file, in the memory of every runtime that
can still admit, and in what a failing write falls back to; the first gives
`ClaimsKept`, the second `TokensKept`. `DurableInv` says that the file backs the
memory of a serving runtime but for the one entry that is being written
(`UsableIsDurable`). `LossInv` accounts for every claim in memory: its event is
out, or its claim is being written, or its loss is noted; the table a failing write
falls back to is accounted for without that claim, which is why a failure
suppresses nothing (`NoSilentLoss`).

All properties of the runs are proved.

## 6. Activity

`ActivityLeases.tla` is `ActivityManager` (`activity.py`). All operations hold
one lock from their first check to the end of their last request, so the state
is one operation (`op`) and what can happen beside it: timers that fire, routes
that move, an unload, the flag of a stop.

| in the model | in the code |
|---|---|
| `current`, `history` | `_current`, `_history` (and `_conversations`, which are its conversations) |
| `armed`, `fired` | timers from `async_call_later`; `_expire` tasks that await the lock |
| serial of a lease | identity of the `_Lease` object (`is lease`) |
| `op` | who holds `_lock`, and the request it awaits |
| `todo` | what is left of the loop in `async_stop` |
| `stop`, `loaded` | `_stopping` and how far `async_stop` is; the state of the entry |
| `route` | what `_route` answers |
| `owed`, `lifetimes` | history: conversations shown typing without a cleanup that was tried or excused; how often an activity became current |

Actions: `BeginTyping`, `BeginPause`, `BeginRead`, `BeginProbe` (an operation
takes the lock and starts its checks), `Fire`, `BeginExpire`, `CallStop`,
`BeginStop`, `NextCleanup`, `EndStop`; the end of the checks: `Unverified`,
`Gone` (`disconnected()` out of `_backend`), `Refused` (by the fence) or
`StartTyping`, `RefuseTyping`, `PauseNow`, `RefusePause`, `ClearNow`,
`ReadNow`; the end of a request: `Submitted`, `Paused`, `PauseCancelled`,
`VerifiedOffline`, `EndVerify`, `OfflineSent`; `Disconnected`, `Unload`,
`Reroute`.

What the properties say:

* `NoRevival`: an activity that was displaced, paused, expired or disconnected
  never becomes current again, however late a refresh of it arrives.
* `ExpiryOwnLease`: the timer of a displaced lease, which may have fired and
  wait for the lock already, does not clear its successor.
* `LeasesEnd`: every lease ends, also after cancelled pauses and uncertain
  starts.
* `EffectsOnOwnRoute`: a request goes to what was verified, and that is still
  the route when it is submitted.
* `QuietAfterStop`: after a stop there are no leases, timers or operations.
* `CleanedAtStop` (violated): `docs/ACTIVITY_API.md:158-161` promises the same
  cleanup for an expiry, an unload and a shutdown. An `_expire` that has or
  awaits the lock when `_stopping` is set, or whose timer fires while the entry
  unloads, is refused by `_require_current` (it does not pass `cleanup=True`),
  pops its lease without a request, and leaves `async_stop` nothing to clean.

| run | instance | why this instance |
|---|---|---|
| `activity_leases` | 2 conversations, room for 1, 1 activity, 2 bindings, 2 starts | a lease is refreshed, displaced and refused by a full table; routes move and come back; no symmetry, for progress |
| `activity_cleaned` | 2 conversations, 2 activities, 2 starts | the disagreement above |

What is abstracted. Time: an armed timer can fire at any moment, which includes
every TTL a caller may choose. The checks (server, session, roster, principal)
are one that may fail in any way, or find another session. An account that is
unknown at setup and bound by the first verification is left out. Outcomes of
requests are not told apart, because nothing in the code depends on them.
`starts` bounds the typing requests; a caller at the bound can still be
refused.

Fairness: requests and checks end (time outs of `api.py`), an armed timer
fires, and an `_expire` or a stop that finds the lock free again and again gets
it (asyncio locks are first come, first served). Callers, the environment and
the stop itself are under no obligation. Deadlock is checked: routes can always
move.

### Proofs (`ActivityLeasesProofs.tla`)

For any conversations, activities, bindings and bounds, from the assumptions in
`ActivityLeases` only: `TypesHold`, `NoRevivalHolds`, `QuietAfterStopHolds`,
`ExpiryOwnLeaseHolds` and `EffectsOnOwnRouteHolds`, which is all that
`activity_leases` checks but for `LeasesEnd`.

The invariant has six parts. `LifeInv`: what was current once is in the history,
which only grows, and a start needs room in the history or the lease itself.
`TimerInv`: every armed timer is that of a current lease, a lease is never both
armed and fired (a new one has a new serial), and an expiry that holds the lock
is about a lease without a timer, so nobody else's. `StopInv`: during a stop a
lease that is left is still in the loop or is the one being cleared, and the
fence keeps new ones out. `SizeInv` (the tables are finite and within their
bounds), `KindInv` (what each kind of operation has established where it waits)
and `ShapeInv` (types) support these. The steps are grouped by what they do to
the leases (`Moves`, `Clears`, `Drops`, `Begins`, `Others`), with a lemma per
group and one for each step that starts a lease, fires or takes the lock.

## 7. Media

`MediaStore.tla` is the `_Store` of `media.py`, which all entries share, and the
`MediaManager` of one entry.

| in the model | in the code |
|---|---|
| `files`, `index` | the files on disk with their bytes; `index.json` |
| `recs`, `leases`, `reservations`, `lock`, `timer` | `records`, `leases`, `reservations`, `lock`, `timer` |
| `due` | a cleanup that the timer started and that waits for the lock |
| `op` | the observation, download or upload of an id, and the await where it stands |
| `reader` | a file that is open for HTTP or for a send |
| `sweep` | the loop of a cleanup or of the removal of an entry |
| `phase`, `enabled` | how far `async_initialize_storage` is; between start and stop |
| `told` | history: until when a caller was promised a reference or a file, once its save was acknowledged |
| `early`, `withdrawn` | history: until when a file was called ready before that; readers whose file a failed save took back |

Actions: `Observe`, `Remember`, `Recognize`, `Remembered` (`async_observe`);
`Get`, `Answer`, `FetchBegins`, `Refused`, `Reserve`, `GiveUp`, `Create`, `Streamed`,
`Broken`, `Checked`, `Rejected`, `Commit`, `Saved`, `NotSaved`, `Discard`,
`Leave` (`async_get_media` with `_fetch` and `_store_stream`); `Stage`,
`StageBegins`, `Undo`, `Unlinked`, `Undone` (`async_stage`); `Open`, `Verified`,
`Close` (`_open`); `BeginSweep`, `VisitFile`, `UnlinkFile`, `VisitRest`,
`EndSweep` (`_cleanup` and `_remove_entry_state`); `Stop`, `Start`, `Remove`,
`Load`, `Loaded`, `Crash`, `Tick`.

What the properties say:

* `BudgetKept`: files and bytes on disk stay within the budget over concurrent
  transfers; a reservation is neither lost nor given back twice; the index is
  one that the next start accepts.
* `ReadersKeepFiles`: a file that is open stays whole until it is closed, over its
  expiry and the cleanup that comes with it. Only the save of its own download
  takes it back, when it fails under a reader that was let in before it ended.
* `ToldIsDurable`: what was called retrievable or ready once its save was
  acknowledged, by whoever saved it or by a later answer (`Answer`), is in the
  index and on disk until it expires, whatever fails or crashes.
* `ReadyUntilExpiry` (violated): `docs/MEDIA_API.md:448` says that references and
  cached bytes expire an hour after observation, and `:216` that a repeated
  request in that time reuses the bytes. `_fetch` puts the file into the record
  (`media.py:1010`) before `persist` (1012) is acknowledged, and
  `async_get_media` skips the download as soon as a record has a file (1055). A
  second caller is therefore answered ready while the index is being written; if
  that write fails or is cancelled, the file leaves the record and is unlinked
  (1013-1026), also under a reader. (The answer is a step at the check of line
  1055. The code verifies the route after it, so the caller may even hear it after
  the file has gone.)
* `RemovedAtExpiry` (violated): `docs/MEDIA_API.md:449` says that bytes are removed
  at expiry. `schedule` sets its one timer only to deadlines that are to come
  (`media.py:578`): when the expiry of one file passes while the cleanup for
  another writes the index, that cleanup has visited the file before, and the
  timer it sets skips it.
* `RemovedWithTombstone`: what remains of that claim. Unless somebody uses it, a
  stored file has a timer no later than its expiry or, once that was passed over,
  the end of its tombstone, or a cleanup is running or about to.

| run | instance | why this instance |
|---|---|---|
| `media_store` | 1 attachment, 1 upload, 1 reader, files of 1 byte and room for 1 of them, lifetime 2, clock to 4, uploads until 1 (`LastUpload`; they may wait for their slot until any time), 1 failing write, 1 crash | a download and an upload compete for the last place; an id goes through its expiry and its whole tombstone and is observed again; a reader holds a file over both |
| `media_early` | the same | a second caller during the save |
| `media_removed` | the same, without failures and crashes; no save outlasts its file (`SavedInTime`) | an attachment and an upload whose expiries lie one cleanup apart |

`media_store` leaves the history `early` out (CONSTRAINT `WithoutEarly`): no action
reads it, and none of its properties does, so no other state is lost. Two ids never
reach the limit of items. Deadlock is checked.

A write that fails inside a cleanup leaves the store without a timer until the
next write, so `RemovedWithTombstone` and `RemovedAtExpiry` speak of no failure;
expired bytes are never served.

What is abstracted: what makes a file valid (types, Ogg pages) is a check that
may fail; a cleanup takes less than a lifetime (`SweepTime`), and a transfer or a
start ends within a lifetime of its deadlines (`Brief`: the code gives a transfer
sixty seconds and a lifetime is an hour); the timer fires when the clock reaches
it. Left out: the limits of the waiting queues, failing unlinks, corrupt rows of
the index. Until its record has the file, a second caller of a download joins the
task of the first and its size limit, by design; from then on it is answered at
once. No fairness is assumed: `RemovedWithTombstone` is the safety form of "what
expires is removed".

### Proofs (`MediaStoreProofs.tla`)

For any finite sets of ids and readers and any limits, from the assumptions in
`MediaStore` only (attachments, uploads and readers are different things, and
`None` is none of the values; ids are finitely many, because in the code they are
digests and tokens of 32 hexadecimal digits, `media.py:749-753` and `1138`):

* `ToldIsDurableHolds`, `ReadersKeepFilesHolds`, `BudgetKeptHolds`,
  `RemovedWithTombstoneHolds`: the four properties of `media_store` hold of `Spec`.
* `InvariantHolds`: so does the inductive invariant `IInv /\ BareInv /\ FiledInv`.

`IInv` says of each id what the code relies on across its awaits. `JobOK` is about
the job at its await: while a download has a lease, or its deadline is to come, the
record is the one it was asked for; an upload has no record before it commits; what
was written is on disk; the stages that save have the lock. `LeaseOK` counts: the
leases of an id are its open readers and its download, which is why a cleanup that
finds no lease takes nothing from anybody (`SweptFree`). `SavedOK` says that the
reference of an attachment was saved unless it is being saved, so it may be called
retrievable without a write. `PromiseOK` has the promise in memory and in the index,
so that a crash during a write keeps it whichever of the two the file has.

A later answer promises what somebody else saved, so it needs to know that a record
with a file is saved unless its own job is saving it. `FiledInv` says so: the record
of an id whose job is not at its save is in the index as it is in memory, and its
file is on disk. It needs `BareInv`: which jobs have no file and no record yet. An
answer during the save promises nothing that lasts, and there is nothing to prove
of it. `KeepInv` says of an open file that it is `Intact`; a reader's lease keeps it
from every cleanup (`ReadsUnswept`), a removal waits until no reader is left, and
the jobs of its id leave it alone, but for the save that fails (`KeepJob`).

A step of a job touches one id, and no record unless it has the lock (`Local`);
`LocalKeeps` does the rest of the ids and the loops once, so each action is proved
for its own id only. `LoopKeeps` is the same for the steps of a cleanup or removal,
and `QuietKeeps` for crash, load and its save.

`BudgetKept` rests on `BudgetInv`. Its core, `ClaimsInv`, gives each id a claim to
bytes: the largest file for a transfer that has its reservation, the size of the
file for a record that has one, what is on disk for a file that a loop unlinks.
No file is larger than its claim, and the claims together are within the budget,
in number and in bytes. Only `Reserve` adds a claim, and it checks the sum of
what is stored and reserved first, so what remains is that every other step
raises none, and that `reservations` counts the claims of transfers exactly
(`ReservedInv`: none is lost, none is given back twice). `BareInv` says which
jobs have no file and no record yet, and `ItemsInv` that the index is within the
number of records that a start accepts. The sums are those of `Sums.tla`.

`RemovedWithTombstone` rests on `FileInv`. Its core is `TimerInv`: unless a cleanup runs
or is about to (`Coming`), every stored file whose time is to come is covered by
a timer no later than that. A deadline that passes while a cleanup runs is the
difficulty: `LoopInv` says that a loop still has to visit every file that had
expired when it began, except those of a reader or of a failed upload, and
whoever has those cleans up again at its end. What expires after the loop began
is covered by the timer that its end sets, because a loop takes less than a
lifetime (`SweepTime`), and a transfer is brief enough that its record is not over
when it is committed (`RecentInv`, `Brief`).

All properties of `media_store` are proved.

## 8. Guest group

`GuestGroup.tla` is `GuestGroupManager` with its `GuestRegistry`. The manager's
lock is held from the first request of a setup, reconciliation or adoption to
its end (`op`); the registry's lock is held across each save, and by a private
send from the lookup of its route to its end (`send`). Suspension takes no
lock.

| in the model | in the code |
|---|---|
| `file`, `data` | the file of the Store of the registry, `_data` |
| `stopping`, `deferred` | Home Assistant stops; the save that its Store has deferred to the end |
| `healthy`, `confirmed`, `createdHere` | `storage_healthy`, `confirmed`, `_create_started_here` |
| `op.at`, `op.next` | the await where the operation stands; the snapshot its save writes |
| `op.hint`, `op.when` | `event_hints`, `observed_at` |
| `active`, `closed`, `seen` | `memberships` with status active or left, `observed_at` |
| `creates`, `roster`, `intruder` | the groups at WAHA, the members, an admin nobody reviewed |
| `stale` | a save of the runtime before a reload that is not over |
| `alarmed` | history: an intruder was seen and no roster read since was confirmed |
| `unrecorded` | history: attempts to create a group whose record the Store swallowed or deferred |
| `astray` | history: the last save was swallowed, or one from before a reload came after it |

Actions: `Initialize` (the options flow), `Setup`, `Checked`, `Create`,
`Answered`, `Unanswered`, `Read`, `Unverified` (`async_setup`,
`_finish_provisioning`); `Reconcile` with a hint or without one; `Adopt`;
`BeginSave`, `Refused`, `Saved`, `Swallowed`, `Deferred`, `NotSaved`, `Cancelled`
(each save of the registry); `Suspend`; `Route`, `Verify`, `Alarm`, `Sent` (a private send);
`Reload`, `StaleSave`, `Shutdown`, `Exit`, `Crash`; `World` and `Tick`.

The Store. The sends, the polls and the channel registry save through a
`DurableStore`, because, as its comment says (`correlated.py:97-98`), the
`async_save` of Home Assistant's `Store` logs some write failures and defers
writes while Home Assistant is stopping. The guest registry has the plain `Store`
(`guest_registry.py:68-76`; `__init__.py:485` gives it no other). So its `_save`
can return, memory and status go on, and the file is as it was: `Swallowed` (the
failure was logged) and `Deferred` (the Store keeps the save for the very end,
`Exit` writes it, a crash before loses it).

What the properties say:

* `CreatedOnce`: over lost answers, failing saves, crashes, adoptions and
  reloads at most one group is created, and from the request on the file says
  that it may exist; each further group takes a record of its own that the Store
  swallowed or deferred. "Create once" is therefore not a promise of the code
  without that exception. A second group is reached by: Home Assistant stops, the
  save of `creating` is deferred, WAHA is asked, the process dies before the end,
  and the next start finds no record and asks again.
* `FileValidates`: the file is always one that the next start accepts. It would
  refuse one with a stay that ends before it began, so this is about the hints:
  delayed ones, and ones of a clock that is ahead.
* `SendsToMembers`: a private send is about one stay of its guest from its
  lookup to its end; no reconciliation comes in between.
* `ConfirmedIsSaved`: what routes are trusted from is what the next start finds:
  the file, or what is deferred for the end; also after a reload. Excepted are
  what no caller can see: the Store swallowed the last save, or, as there is no
  writer slot here, a reconciliation of the runtime before a reload wrote its
  roster over the newer file. The same exceptions hold for
  `docs/GUEST_GROUP_API.md:427` ("Membership transitions are persisted before
  being published").
* `SuspendedUntilReverified` (violated): `docs/GUEST_GROUP_API.md:365-369` says
  that an unexpected admin suspends routing until the roster is reverified.
  `_verify_live` suspends while a reconciliation with an earlier roster waits
  for the lock of the registry, and that then sets `confirmed`. Inbound routing
  is trusted again until the next reconciliation (at most five minutes); sends
  are not affected, since each verifies afresh.

| run | instance | why this instance |
|---|---|---|
| `guests` | 1 guest, room for 1 closed stay, clock to 2, 3 changes at WAHA, 1 save that fails, is swallowed or is cancelled, 1 reload, 1 end of the process, orderly or not | the guest can leave twice, so that closed stays are pruned; a hint can be older than the last observation, of its time, or ahead of it; a second group is reached by a swallowed or a deferred record |
| `guests_alarm` | the same with 4 changes | the disagreement above |

What is abstracted. The checks of server, session, account, reviewed admins and
security settings are requests that may fail. A guest is one identity: aliases,
roles and kinds, identifiers of routes, and the age at which closed stays are
dropped are left out, as are the publication of changes (best effort, in the
step of the acknowledged save), group sends, and the switched-off feature. What
a stale runtime saves is computed when it is fenced. Assumed: once Home Assistant
stops nothing is set up or reloaded, and a save that began before the stop ends
before it. A save of the options flow that is swallowed changes nothing, so it is
the flow not having been run. Deadlock is checked: there is always a reconciliation
to ask for.

### Proofs (`GuestGroupProofs.tla`)

For any sets of guests, any bounds on closed stays, clock, changes, failures,
reloads and crashes, from the assumptions in `GuestGroup` only:

* `CreatedOnceHolds`, `ConfirmedIsSavedHolds`, `SendsToMembersHolds`,
  `FileValidatesHolds`: these properties hold of `Spec`.
* `IInvHolds`: so does the inductive invariant `IInv` that the first three follow from.

`CreatedOnce` is not inductive: that no second request is made depends on the
record of the first one being in the file, and in everything that may still
replace the file, unless it was swallowed or deferred. `IInv` says so in five
parts. `RecordInv`: wherever no record is, in the file, in what is deferred or in
the memory of a healthy registry, every request so far was one whose record the
Store had lost, and what an old runtime still saves has the record. `LockInv`: a save writes what it would be
made from now, because nothing it was made from changes while it holds the lock,
no send and no save are under way at once, and only a stopping Store defers. `KindInv`: where each kind of
operation can stand, and which status it has reached there. `TrustInv`: trusted
routes come from what the Store was given last, and no operation that may leave
that behind has begun. `ShapeInv`: the fields that records have. The preservation
proof has a lemma per action that changes the record, over lemmas on what a save
writes (`UpdatedFacts`), where an operation goes after it (`AfterSaveMoves`) and
what an old runtime can leave behind (`UnfinishedFacts`). `SendsToMembers` needs
one more conjunct (`SendInv`) on top of `IInv`.

`FileValidates` follows from `FileInv`, which has the types too. `GoodInv`: the
memory, the file and what an old runtime may still save are `Good`, that is, a
start accepts them, they were observed by now, and the stays in them that go on
began no later than they were observed. `OpInv`: the operation has a roster and a
hint from the past, and has reached the status that what it saves builds on. The
heart is `ReconciledGood`: a stay that a roster or a hint ends does not end before
it began, whatever the clock of the hint says, because a hint from before the last
observation is not followed and one from the future waits for a roster. Pruning
drops the stays that ended first; it picks them with CHOOSE, so `LatestExist`
shows, by induction over the finite set of stays, that such a choice exists. That
rosters and stays are finite is part of the invariant, not an assumption on
`Guests`. TLC has checked `FileInv` on the instance of the run.

## 9. What is proved, checked and left out

Proved for all values of the constants: every safety property and action property
of the passing runs, by the theorems of sections 3 to 8. What is left is
model-checked only, on the instances above: liveness under fairness
(`ReplacementServes`, `LeasesEnd`), which is out of the prover's
reach. Sums and cardinalities are proved about by `Sums.tla`, whose induction is
over the subsets of a finite set; what would need a RECURSIVE operator, or an
induction over an operator, is avoided in the models.

Not modelled, and why:

* Entry lifecycle (`__init__.py`). Setup and unload are sequences of the starts
  and stops of the parts; each module has the reload of its part, with old
  handlers that outlive it. A module that composes them would need all of their
  state at once, which is out of TLC's reach.
* Media sending. One request behind a global slot with at most four waiters; it
  keeps no state. The alias of its upload is in `CorrelatedSends`, the file it
  reads in `MediaStore`.
* Poll sending and general groups. They keep no state: one sends and then
  registers the poll (`PollSettlement`), the other reads the roster afresh
  before every send.
* Commands. One table under one lock, replaced after each acknowledged save.
* HTTP client. Its outcomes are inputs of all modules.
* HAOS app (`src/waha`). A supervisor of processes that shares no state with the
  integration.
* Forms, entities, views, diagnostics and constants have no protocol between
  steps.
* Outbound observation is modelled as far as it saves a token; the event it
  reports and its drain at a stop are left out.
