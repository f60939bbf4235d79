# Verification of the PiPhi Sense runtime

TLA+ models, model-checking runs and machine-checked proofs for the runtime
integration that connects PiPhi Core to a Sense Energy Monitor. The reference
is the source: every definition that models code has the lines it models in
`PROJECT.json` ("map").

Paths below are relative to the repository; `pkg/` stands for
`src/piphi_network_sense/`.

## 1. The system

One Python process (FastAPI on an asyncio event loop) and two dashboard cards.

| Component | State | Operations | Talks to |
| --- | --- | --- | --- |
| **Sense service** `pkg/service.py` | `_active` (config, client, entry, credentials, last trend poll), `_poll_task`, `_lock` | `configure`, `refresh`, `remove`, `close`, the poll loop | awaits the client; writes `registry.update_state`; schedules telemetry |
| **Sense client** `pkg/sense_client.py` | the aiohttp session, the library object, the monitor id | `authenticate` (password, MFA), `read`, `close` | the Sense cloud through the external `sense-energy` |
| **Extended API** `pkg/extended_api.py` | the snapshot of four undocumented endpoints | `refresh` (best effort), `get_appliance_details` (no caller) | the client's authenticated session |
| **Runtime state** `pkg/state.py` | the kit's registry (entries, states, events) | `apply_config` (with rollback), `remove_config`, `refresh_automation`, the state provider | the service; called by the routes |
| **Routes** `pkg/routes/` | none | `/config`, `/config/sync`, `/deconfigure`, `/state`, `/command`, `/telemetry/...`, read-only routes | `state.py` and the service |
| **Lifespan** `pkg/lifecycle.py` | none | closes the service at shutdown | the service |
| **Schema** `pkg/schemas.py` | none | bounds of the intervals, credentials | |
| **Cards** `widgets/`, `experiences/` | last value per capability, stream status | reduce snapshots, points, errors to what is shown | Core's widget host |
| **Release job** `.github/workflows/release.yml`, `scripts/check_release.py` | a pushed image, a GitHub release | validate, build, push, release | the registry, GitHub |

The kit (`piphi_runtime_kit_python`: registry, config sync, automations,
telemetry delivery), `sense-energy`, Core with its widget host, and GitHub
Actions are not in the repository. They are modelled from how the code uses
them, and marked external.

How the parts interact: a configuration request registers its entry, then
calls the service, which takes its lock, stops what it holds, authenticates a
new client, reads once and starts the poll task. Refreshes of any route and the
polls take the same lock around one read of the client and publish the result.
A rejected request puts the registry back.

### What is hard here

* Tasks interleave at every `await`, and the lock is held across network calls:
  a stop waits, with the lock, for a poll task that may be waiting for the lock.
* The poll task sleeps holding a reference to its session, and publishes an
  error after it has left the lock.
* Authentication and the first read can fail half-way, in the client (which
  closes itself for some failures) or in the service (which closes it for all).
* `apply_config` changes the registry before it waits for the lock.
* Trends have an interval of their own, moved only by a successful read.
* Undocumented endpoints fail, or answer something else, inside a read.
* Sense may revoke a session's tokens at any step. The library renews an access
  token that only expires; a session whose tokens are revoked stays without.
  Reads of it may be answered from the library's memory for a while, and are
  then published as connected.
* A route decides for which configuration it is asked, then waits for the lock,
  and answers with the reading of the session that is there by then.
* A sync removes and applies configurations one after another, with polls and
  refreshes between them.
* The cards' stream breaks, loses points, and comes back with a snapshot.
* A publication may take effect although its step fails, and is run again.

### What makes each part correct

| Part | Properties |
| --- | --- |
| Service, safety | `AtMostOneOpenClient`, `NoLeakedClient`, `OnePollerPerSession`, `ReadsOpenSession`, `ShutdownIsClean`, `SlotIsPinned`, `OnlyHolderReports` |
| Service, liveness | `CallsReturn`, `PollingContinues` |
| Service as a whole | `KeepsSlot` and `ImplementsSlot`: it implements `SingleSession`, step by step and with its fairness |
| Polling and trends | `PollTaskIsLive`, `PollsAreSpaced`, `TrendsAreFresh`, `FailedTrendsAreRetried` |
| Client and extended API | `NothingLeftOpen`, `ExtensionNeverFails`, `ReadingIsCurrent`, `PowerIsKept` |
| Runtime state | `SessionIsRegistered`, `EventsMatchRegistry`, `ImplementsContract`: it implements `ConfigContract` |
| Tokens | `TokenLossIsSeen`, `LossStaysSeen` |
| Config sync | `SyncConverges`, `SyncedSessionIsWanted`, `SyncReturns` |
| Reading routes | `AnswersAreTheirs` |
| Power parser | `ParserFindsFirst` |
| Cards | `CardsShowCore`, `NothingInvented`, `LossIsAnnounced` |
| Release job | `ImageIsChecked`, `ReleaseRecordsImage` |
| Documented, but not so | `OneConfiguration`, `FailuresAreObservable`, `TelemetryShowsConnection`, `LastGoodIsKept`, and `SessionIsRegistered` with concurrent requests |

## 2. The modules

```
SingleSession     what the service promises          (abstract)
ConfigContract    what the configuration routes promise (abstract)
SenseService      the service: lock, calls, poll task; INSTANCE SingleSession
  MCSenseService       for TLC
  SenseServiceProofs   theorems: lock, calls and clients
    SensePollerProofs    theorems: poll tasks, queue, shutdown, SingleSession
  SenseRuntime    EXTENDS SenseService: registry and events; INSTANCE ConfigContract
    MCSenseRuntime     for TLC
    SenseRoutes      EXTENDS SenseRuntime: all routes, POST /config/sync and the kit
      MCSenseRoutes      for TLC
      SenseRoutesProofs    theorems about both (EXTENDS SensePollerProofs)
  SenseTokens     EXTENDS SenseService: tokens that Sense revokes
    MCSenseTokens      for TLC
    SenseTokensProofs    theorems (EXTENDS SensePollerProofs)
PollCadence       the service's clock: sleeps and intervals
  MCPollCadence        for TLC
  PollCadenceProofs    theorems
SenseClient       one client: authenticate, read, extended snapshot, close
  SensePower      EXTENDS SenseClient: the parser of the power endpoints
    MCSensePower       for TLC
    SenseClientProofs  theorems about both
SenseCards        the two widgets and the overview card
  SenseCardsProofs     theorems
ReleaseJob        the release workflow and check_release.py
  MCReleaseJob         for TLC
  ReleaseJobProofs     theorems
```

**SenseService.** A step is a stretch of code between two suspension points;
`pc[p]` names the `await` a caller is suspended in, `poll[t]` that of a poll
task. A poll task has the name of the client it was created for, so `pollTask`,
`poll` and `watch` (its local `active`) tell sessions apart as `is not active`
does. Whoever reads takes the session first and reports for that one afterwards:
`subject[p]` (of a caller's `_refresh_locked`) and `watched[t]` (of a poll task)
are the configuration of the session taken, and the steps that publish write to
that entry, whatever is held by then. That it is the one held is a property
(`OnlyHolderReports`), and `ReportInv` the reason. The lock is `asyncio.Lock`: first come, first served, handed to its first
waiter by the release, and a free lock is taken without suspending; this is why
a call that finds it free begins its critical section in the step that makes
the call. `client[c]` is the account a client object has a cloud session for:
opened when `authenticate` starts, closed when an awaited `close` ends. Each
network call ends well or raises. Python's `except Exception` does not catch a
cancellation: only poll tasks are cancelled here, by `_stop_locked`. What is
published is reduced to its `connected` flag, in the registry's state
(`published`) and as delivered to Core (`telemetered`). A released client object
is reused as a new one, which `client_factory()` would return.

**SenseRuntime** adds to each of these steps what `state.py` does before and
after it in the same stretch of code: registering the entry, putting the
previous one back, the event. `Writers` bounds who may send configuration
requests: one at a time for what Core does, two for requests that overlap.

**PollCadence** keeps only the tasks' timing: who reads when, with which
`include_trends`, and what that does to `last_trend_poll`. Time is discrete, a
unit stands for a minute, a read takes at most `MaxRead`. A configuration with
the same credentials changes the intervals in between. `MinPoll`, `MaxPoll` and
`MaxTrend` are the bounds of the schema (`schemas.py:12`, `:13`), in that unit
and scaled down for TLC; the theorems are about any bounds.

**SenseClient** is one client object. `todo` is the set of the awaits left in a
read, taken in the order of `Turn`; a value fetched is the number of the read
that fetched it. An endpoint answers one of four ways: something the parser
finds; nothing; something it accepts but recognises nothing in; an error or
something it refuses. The last await is followed by the conversion of everything
into the reading: the device of a bucket, if the library lists one (`buckets`),
stands in for a power no endpoint ever answered (`standIns`), and a value that is
no number raises (`ConversionFails`). `Cancelled` is more than the service does:
it reads, and cancels its poll task, with the lock held, so it cancels no read;
the client allows for it all the same. The library limits its
realtime calls to one a minute (docs/sense-library-research.md:17): a call within
the minute may return without fetching (`RateLimited`), whether or not the call
before it succeeded, so a refresh soon after a failed poll can return the data of
an earlier read as a fresh reading (`ReadingIsCurrent` exempts it; what it means
for a lost session is in SenseTokens). The polls themselves are further apart.

**SensePower** is the client with the responses of one power endpoint. A response
is the set of the paths to its numbers, so that a number is told by its path;
`ParsePower` is `_parse_power_w`, and what it finds decides which of the answers
of SenseClient the response is. Its recursion is that of the function
`ParseMapping` over the mappings of bounded depth, each level of it a `Search`:
the power keys of the mapping first, then the mappings nested in it.
`ParserFindsFirst` compares the result with the least path in the order of the
keys.

**SenseTokens** adds `revoked`, the open clients whose tokens Sense neither accepts
nor renews (an access token that only expires is renewed by the library,
docs/sense-library-research.md:15, and nothing is seen of it). Such a client does
not fail at once: a read within a minute of the last attempt is answered from
the library's memory, and is published as connected. Only a read that asks for
the trends must call Sense. Those that fail do not move `last_trend_poll`
(`service.py:135-137`), so in the end the trends are older than the longest
interval of the schema, a day: that is `overdue`. From then on every read asks for
them, and fails; so does the first read after authentication, which forces the
trends and has nothing in memory (`BoundToFail`). `doomed` says of the read in
flight that it was begun so, and only then may it not succeed. The model allows
more than the code: whether a minute has passed since the last attempt is left
open, and a refresh that forces the trends may succeed before they are overdue.
A client that is closed takes its tokens with it.

**SenseRoutes** is all routes together. `sync` holds what is left of a
`/config/sync`: Core sends a snapshot, and the kit removes the registered ids
that are not in it and applies those that are. The ids are read once, when the
call begins; the kit calls `remove_config` and `apply_config` one at a time in
any order, and after a failure goes on or gives up. Polls and reading routes go
on meanwhile; configuration requests and syncs follow one another
(`concurrent_configs` is about requests that overlap). `asked` is the
configuration each reading route in flight was asked for. A command that is
refused is answered before anything happens, so `Command` is an accepted one; it
does not look at its target. `kept` remembers
whether there ever were two configurations registered at a time, which Core
promises to avoid (docs/core-single-instance-contract.md): without that promise
`AnswersAreTheirs` fails, since a route may be asked for a configuration that has
lost its session while another one is being accepted. With it, it holds because
the lock is first come, first served: a reading that waits is served before the
configuration that replaces the removed one (`AskedInv`).

**SenseCards** is the callback of the three cards. `core` is what Core knows,
`queue` the events on their way, in order: the host calls back with a status
and a snapshot when the stream opens, a point for each report, and errors. A
break may lose the end of the queue, and the stream may fail while it connects.
`troubled` remembers whether the host sent an error after the last reading, on an
open stream. `values` is the reducer's state, from
which the texts of the appliance card are computed; the flow card and the
overview keep what they wrote (`flow`, `slots`). JavaScript's `null`, the
empty string, a missing key and a state without a value are four different
things, as they are for `??`, `Number` and `in`. The appliance card takes an empty
string for a missing number (view.js:23), but shows "Off" for one as its state
(view.js:6-9); the flow card and the overview write it as 0 (`AsNumber`:
`Number('')`). `NothingInvented` says so: a 0 of the flow card and an "Off" may
stand for an empty string, nothing else is invented. While the stream connects the
widgets hide their notice (state.js:37), although it is not open;
`LossIsAnnounced` is about a stream that is down, given up, or open.

**ReleaseJob** is a number of runs of the workflow. `Steps` are its steps in
order; a run passes, or fails at, each of them, and the two publications may
take effect although their step fails (a lost answer, the job's timeout). The
concurrency group lets one run work and one wait, and a new one takes the place
of the one that waits. A run builds its own image, so the run stands for the
digest.

## 3. The runs

| Run | Bounds | Shows |
| --- | --- | --- |
| `service_safety` | 3 requests in flight, 2 clients, 2 configurations with 4 entries over 2 accounts | the service's safety properties, the inductive invariant, and every step a step of `SingleSession` (`KeepsSlot`) |
| `service_liveness` | 2 requests in flight, otherwise the same, no symmetry; tokens revoked at any step | `CallsReturn`, `PollingContinues`, `ImplementsSlot`; `TokenLossIsSeen` and `LossStaysSeen`: a session without tokens is in the end shown as disconnected, and from then on does not come to look repaired |
| `runtime` | 1 writer, 1 reader, the 8 snapshots of 2 configurations, 4 entries | registry, session and events agree; `ImplementsContract`; a sync without a failure leaves its snapshot and its session, and every sync is answered; a route answers with the reading it was asked for |
| `poll_cadence` | 2 requests, intervals 1/5 and 2/6 minutes, 16 minutes | spacing of polls, freshness and retry of trends |
| `client` | 3 reads; 2 power keys, 2 nested keys, an unknown one, 3 levels, up to 2 numbers | no open session left, best effort, kept values and the bucket's device, the parser's search |
| `cards` | numbers 0 and 1, `null` and the empty string, 2 capabilities, 2 events on their way | what the cards show, for the orders of the host's callbacks in which at most two are on their way |
| `release_job` | 3 runs, 2 tags | only checked images are published; a release names the published one |
| `second_config`, `failed_reauth`, `connected_telemetry` | SenseRuntime with 1 writer and 1 reader | three statements of the documentation the code does not keep |
| `concurrent_configs` | SenseRuntime with 2 writers | overlapping requests break `SessionIsRegistered` |
| `client_last_good` | SenseClient, 3 reads | a changed list endpoint empties the last good list |

Why the bounds are enough. Two client objects suffice because a client is
created only when no other is open (proved for any number as `OneClient`); a
third could only be one that nothing refers to. Three requests put one in the
critical section and two in the queue, so that a poll task can be waiting
before, between and behind them. The four entries are every relation
`configure` tells apart: the same, another revision, other credentials, another
id. In `poll_cadence` the longest legal wait for trends is 12 minutes, so 16
leave room for a violation. Three reads give a value, its refresh and one
reading in between. In `runtime` the snapshots include the empty one, each
configuration in each of its forms, and two at once, which is over the limit; a
reading, polls and a configuration request or sync contend for the lock in any
order. Two of the five power keys and of the three nested ones give every
relation of two keys; three levels are a number in a mapping nested in a nested
one. In `cards` the two events are what an opening sends, a status and a
snapshot, or a reading or an error with whatever precedes or follows it; 0 and 1
are the numbers the cards treat differently. A stream that opens again before the
status of the break was taken, or an error behind an opening, is beyond the two
and left to the theorems, which are about every number of events (with three the
run has 24 million states). Three runs put one at work, one waiting and one that
takes its place; two tags tell a run's own tag from another's.

`MaxTime`, `MaxReads` and `MaxEvents` are the only cut-offs: the clock stops (so
that run does not check deadlock), a client that has made its reads can only be
closed, and a full queue waits for the cards to take an event. `MaxDepth` and
`MaxNumbers` bound the responses of an endpoint, which are data. `cards` does not
check deadlock either, because a stream may be closed for good. Elsewhere deadlock
is checked; the process that has shut down, and the client that was dropped,
stutter.

### Fairness

`Spec` of SenseService assumes, and the liveness run uses, that

* a call that is suspended goes on (`WF(Continue)`): the event loop runs every
  ready task, and a call to Sense ends, since aiohttp gives every request a
  total timeout;
* a call that waits for the lock enters when it is its turn
  (`WF(queued /\ Enter)`): `asyncio.Lock` is FIFO;
* a poll task goes on (`WF(PollStep)`): sleeps end and it is scheduled.

`SenseRoutes` assumes the same, and that the kit goes on with a sync it has
begun (`WF(SyncWork)`): the loop over the snapshot has no other await than the
calls of the service. `SenseTokens` assumes what the service does, and that time
passes (`WF(Overdue)`): trends that cannot be fetched any more grow older than a
day.

Nothing makes a client send a request, no outcome of a network call is fair (a
cloud that always fails is allowed), and shutdown need not happen.

### What the violations say

* `second_config`, `failed_reauth`: `configure` stops the working session before
  it knows that the new credentials are good. When they are not, `apply_config`
  restores the registry but nothing restores the session: the configuration
  stays registered, its last state still says connected, nothing polls, and the
  slot is free for a second configuration.
* `connected_telemetry`: a failed poll is written to the registry only.
* `concurrent_configs`: `previous` is read, and the entry registered, before the
  lock is waited for.
* `client_last_good`: only `None` and exceptions select the last good value.

Lines and quotations are in `PROJECT.json` ("findings").

## 4. The proofs

The theorems hold for every value of the constants that meets the assumptions
of the modules. Each of them goes the same way: a safety property is seldom
inductive, so an invariant that implies it is proved to hold initially and to be
kept by every step, with one lemma per kind of step and part of the invariant;
action properties and refinements follow from it by a case analysis of the steps.
`InductiveInv` of the service is an invariant of `service_safety`. Those of the
other modules (`RuntimeInv`, `SyncInv`, `AskedInv`, `CardsInv`, `CadenceInv`,
and the `InductiveInv` of SenseClient and ReleaseJob) were checked with TLC on
the configurations of their runs before they were proved; the runs list the
properties themselves.

### The service

`SenseServiceProofs`, `SensePollerProofs` and `SenseTokensProofs`, for every set of
handlers, clients, configurations, credentials and requests, under `EntriesAssumption` (entries are
records of an id, credentials and a revision; `None` is none of them),
`ProcessesAssumption` (lifespan, handlers and poll tasks are different) and
`RequestsAssumption` (`None` is no request):

| Theorem | Property |
| --- | --- |
| `ServiceInvariant` | `InductiveInv` |
| `TypeCorrect` | `TypeOK`, a part of `InductiveInv` |
| `OneClient` | `AtMostOneOpenClient` |
| `NoLeak` | `NoLeakedClient` |
| `NoReadAfterClose` | `ReadsOpenSession` |
| `PinnedSlot` | `SlotIsPinned` |
| `HolderReports` | `OnlyHolderReports` |
| `OnePoller` | `OnePollerPerSession` |
| `CleanShutdown` | `ShutdownIsClean` |
| `SlotImplemented` | `KeepsSlot` |
| `LossIsLasting` | `LossStaysSeen`, of `TokenSpec` |

That no two clients are open depends on who may open one. `Core` adds four
things to the types and is inductive alone; the properties proved in
`SenseServiceProofs`, `TypeOK` to `OnlyHolderReports`, need no more.
`LockInv`: whoever is suspended in a critical section, and a poll task that
reads, owns the lock; hence there is at most one. `CallInv`: what the suspended
call knows: its request, the client it is opening, that there is no session
while it opens one and that there is one while it reads. `SessionInv`: the
session's client is open with the entry's credentials; an open client is the
session's or the one a call is opening; a poll task that reads does so for the
session held. `ReportInv`: the configuration a caller has taken to read, and that
of the session of a poll task that is the one held, are the holder's; this is what
`HolderReports` rests on, since the code writes for the session it took and looks
at no other. It is kept because the reader has the lock, because another revision of
the entry keeps its id, and because a client being opened was never one a poll task
had taken.

The other three properties are about the whole life of poll tasks and of calls.
`TaskInv`: the poll task of the session is alive, one that is being stopped stays
until it has ended, and there is no other. `QueueInv` and `LineInv`: nobody is in
the lock's queue twice or while it owns the lock, and a call that waits is in it or has
just been handed the lock. `RequestInv`: what a call was made for, and for what
it began to stop the session. `ShutdownIsClean` is part of the invariant: after
the shutdown no step may undo it.

`SlotImplemented` is the refinement of `SingleSession`, without its fairness: the
account is that of the open client, the holder `ActiveConfigId`, and what is
reported is `published`. The steps that open a client, make it the session, drop
it or publish are steps of the abstract service; every other one stutters.
With fairness (`ImplementsSlot`) it stays with TLC.

With tokens that Sense revokes the service takes the same steps, only fewer of
them (`TokenStep`), so `Core` holds then too (`TokensCore`). `LossIsLasting` is
about a session that is shown as disconnected, with its trends overdue and no read
under way that could still be answered from memory (`LostForGood`): it stays so
until its client is given up. A session that ends has its client closed in the
same step (`EndedIsClosed`), one that goes on keeps client and configuration
(`SessionSteps`), and without a successful read nothing but a failed poll
publishes (`Unreported`). So submitting the same credentials again, which
`configure` answers with the client it has, does not make it look repaired. Before
its trends are overdue it may: a refresh answered from memory publishes connected.
That it comes to `LostForGood` at all (`TokenLossIsSeen`) is liveness.

### Registry, routes and sync

`SenseRoutesProofs`, under the same assumptions, `WritersAssumption` (writers are handlers) and `SnapshotsAssumption` (a snapshot
has one entry per id):

| Theorem | Property | Needs |
| --- | --- | --- |
| `RuntimeIsService` | `SafetySpec` | |
| `RuntimeInvariant` | `RuntimeInv` | `OneWriter` |
| `RuntimeTypeCorrect` | `RuntimeTypeOK` | `OneWriter` |
| `SessionRegistered` | `SessionIsRegistered` | `OneWriter` |
| `EventsMatch` | `EventsMatchRegistry` | `OneWriter` |
| `ContractImplemented` | `ImplementsContract` | `OneWriter` |
| `RoutesAreRuntime` | `RuntimeSpec` | |
| `SyncMakesRegistry` | `SyncConverges` | `OneWriter` |
| `SyncMakesSession` | `SyncedSessionIsWanted` | `OneWriter` |
| `AnswersMatch` | `AnswersAreTheirs` | `OneWriter` |

A behaviour of all routes is one of the runtime (`RoutesAreRuntime`), and that one
of the service (`RuntimeIsService`), so each level uses the invariants below it.
`OneWriter` says that configuration requests follow one another, which is what
Core does; the run `concurrent_configs` shows that without it `SessionIsRegistered`
fails, so the hypothesis cannot be dropped.

`RegistryInv` says that the entry of a request in flight is registered, that a
session is held for what counts as registered (`Standing`: the entry that would
be left if the request in flight failed), and that the events say the same.
`SyncInv` follows a sync: what is left of it, what is in flight as part of that,
and that without a failure what it has applied is the session held.

For `AnswersMatch` neither the registry nor the session is enough: it holds
because the lock is a queue. `AskedInv` says of a route that waits that its
configuration is the only one registered; or that there is no session and whoever will
open the next one waits behind the route (`ServedFor`, `Ahead`). It is kept
because callers enter at the end of the queue and leave at its head.

### The intervals

`PollCadenceProofs`, for every bound of the intervals, of a read and of the
clock, any finite set of requests (`CadenceAssumption`: intervals lie in their
bounds, polls are at least a unit apart), and `NoneAssumption`:

| Theorem | Property |
| --- | --- |
| `CadenceInvariant` | `CadenceInv` |
| `CadenceTypeCorrect` | `TypeOK` |
| `PollTaskLives` | `PollTaskIsLive` |
| `PollsKeepApart` | `PollsAreSpaced` |
| `TrendsStayFresh` | `TrendsAreFresh` |
| `TrendsAreRetried` | `FailedTrendsAreRetried` |

The two bounds on trends are about what is still to come, so the invariant
carries a deadline: `NextPollBy(t)` says that the poll task begins its next read
within `MaxWait` of `t`, from where it is now: asleep, at its place in the queue,
or reading. `FreshInv` and `RetryInv` state it for the two properties. A place
in the queue is worth at most `MaxRead`, and the queue is no longer than the
requests there are, because nobody waits twice (`CallersOnce`). `SpacedInv` is
the lower bound, for the spacing; `ClockInv` says that what a read has decided
about trends still holds while it is in flight.

### The cards

`SenseCardsProofs`, for every set of capabilities that has the primary one, every
set of numbers that has 0 and 1, and every queue of at least two events
(`EventsAssumption`: a stream opens with a status and a snapshot):

| Theorem | Property |
| --- | --- |
| `CardsInvariant` | `CardsInv` |
| `CardsTypeCorrect` | `TypeOK` |
| `CardsCatchUp` | `CardsShowCore` |
| `CardsInventNothing` | `NothingInvented` |
| `CardsAnnounceLoss` | `LossIsAnnounced` |

What the cards show once the queue is empty depends on what was in it.
`SeenInv`: every number and empty string on the way or held has been Core's, and
the flow card's texts are what `Number` makes of such. `NoticeInv`: a stream that
is down or given up has been announced, or is by the last event on its way; and on an
open stream the last event, or what the cards show if there is none, is the error
or the reading the host sent last. `CurrentInv`: the last event that sets a capability sets it to what Core has, and
without such an event the cards show it.

### The release job

`ReleaseJobProofs`, for every set of runs and of versions, under
`RunsAssumption` (`None` is neither):

| Theorem | Property |
| --- | --- |
| `JobInvariant` | its `InductiveInv` |
| `JobTypes` | `TypeOK` |
| `CheckedBeforePublication` | `ImageIsChecked` |
| `ReleaseOfItsImage` | `ReleaseRecordsImage` |

That a release names the published image depends on what happened two steps
before. `GroupInv` says that no two runs work and no two wait; `RunInv` that a
run that has not started has passed nothing and that one past the metadata check
has a tag its commit agrees with; `ImageInv` that an image comes from a run past
every check, and that a run between its push and its release still owns the
name. The last part is kept because no other run can push meanwhile.

### The client

`SenseClientProofs`, for every bound of the reads (`ReadsAssumption`: it is a
number), and, of the parser, for every depth of the responses, every number of
values in them (`BoundsAssumption`) and all sequences of power keys and of
nested keys without repetitions that do not hold the unknown key
(`KeysAssumption`; `NothingAssumption`: None is not a path):

| Theorem | Property |
| --- | --- |
| `ClientInvariant` | its `InductiveInv` |
| `ClientTypes` | `TypeOK` |
| `ClientCloses` | `NothingLeftOpen` |
| `BestEffortNeverRaises` | `ExtensionNeverFails` |
| `CurrentReading` | `ReadingIsCurrent` |
| `KeptPower` | `PowerIsKept` |
| `PowerIsClient` | `Spec`, of `PowerSpec` |
| `PowerFindsFirst` | `ParserFindsFirst`, of `PowerSpec` |

The reading is assembled at the last await, from values fetched at earlier ones,
so the properties need what is known in between. `LifeInv` relates the point
reached to the session and the library object. `DataInv` bounds the snapshot by
the trends held, and says what made a read raise. `ReadInv` says what a read in flight has: an await that is no
longer in `todo` has given its value, and endpoints are asked after every
required call. `PowerInv` follows the two power values from the snapshot to the
locals of `refresh` and back, one endpoint at a time. A read that is cancelled
leaves `PowerInv` only for a client that is about to be closed, hence the points
it is stated for.

What the parser finds is proved in two steps. `SearchFindsFirst` is one level of
it: if the search is right about every mapping nested in a response, it is right
about the response, because the candidates of a response are those at the top
and those of its nested mappings with the key put before (`NestedCandidates`),
and the order is decided by the first key in which two paths differ
(`HereIsFirst`, `NextIsFirst`). `MappingFindsFirst` is the recursion: were the
search wrong about some mapping, there would be a least depth at which it is
(`LeastNumber`), and the mappings nested in that one are less deep
(`NestedIsMapping`). That the recursive definition has a solution at all
(`RecursionHasSolution`, `ParseMappingEquation`) is proved in the same way.

### Only model-checked

* Liveness and fairness are out of the proof system's reach: `CallsReturn`,
  `PollingContinues`, `TokenLossIsSeen`, `SyncReturns`, and the fairness of
  `ImplementsSlot`.

## 5. What is not modelled

* The external kit beyond what the routes pass to it: telemetry delivery is
  scheduled and never fails here; the automation ledger and the length of the
  event list; how the entries of a sync are validated.
* The container authentication the configuration and telemetry routes hand to
  the kit (`runtime.auth`): when deliveries read it is not in the repository.
* The bodies of the answers. A refused command, for one, is answered with
  FastAPI's `{"detail": ...}` and not with the body docs/contract.md:38 shows;
  that is seen without a model.
* The contract tables, the settings, the manifest, `behaviors.json`, and
  `validate.py`, which compares them once: constants. `ci.yml` runs the commands
  of the release job without publishing.
* What a release says of its image after the tag is run again: the image is
  pushed before `gh release create` can refuse the tag (README.md:108 leaves this
  to the operator).
* Of the read-only routes, everything but which monitors and appliances
  `/entities` lists: they format what the registry holds.
* Wording, units and the normalisation of a reading's fields; the fields of
  appliances and timeline events; titles, heights, the background total and a
  refused subscription of the cards.
* `refresh_automation` answers with the configuration id it was asked for
  without comparing it with the session's: the kit chooses the target, and only
  a wrong target would make the two differ.
* `get_appliance_details`: it has no caller in the runtime and changes nothing.
* `client.close()` raising, and cancellation of a request by the server: neither
  happens in normal operation of aiohttp and uvicorn.

## 6. Plan

Every module of the plan is written, and every safety property and action
property a passing run checks is proved. What is left is out of the provers' reach:
liveness, and with it the fairness of `ImplementsSlot`. A change of the code that
would call for more is a second configuration held at a time (`Configs` with one
session each), a new login when tokens are revoked, or a repair of one of the documented
statements the violations are about.
