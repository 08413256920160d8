# TLA+ models of DE4SDV

DE4SDV is a model-based engineering repository for a software-defined vehicle:
a SysML v2 model, Python tooling that evaluates, publishes and explains it, and
*benches* that implement parts of the model as running programs. Most of its
82 000 lines are sequential: evaluators of a model export, scripts, and checks
of text. These specifications model the programs that have state, threads,
sockets, clocks and failures, and the one pure algorithm whose result other
artefacts rely on, the decision of a product configuration:

* the **IVI frame relay**, a daemon that takes frames from a vehicle gateway
  library and serves them to the HMI application;
* the **S-CORE adapter**, which reads the vehicle speed and forwards the frames;
* the **AEBS coordinator**, the node that warns, brakes and releases;
* the **AEBS presentation**, the way of that state to the display in the car;
* the **public deployment** of the model, its **viewer server** and the
  **Ask runtime** in it;
* the **feature configuration** of the product line.

All paths below are relative to `src/`. `relay/` stands for
`implementation/score-reference-interop-bench/ivi-frame-relay/` and `adapter/`
for `implementation/score-reference-interop-bench/adapter/`.

1. [Inventory](#inventory)
2. [The IVI frame relay](#the-ivi-frame-relay)
3. [The S-CORE adapter](#the-s-core-adapter)
4. [The AEBS coordinator and its display](#the-aebs-coordinator-and-its-display)
5. [Deployment, viewer and Ask](#deployment-viewer-and-ask)
6. [Feature configuration](#feature-configuration)
7. [Modules](#modules)
8. [Runs and bounds](#runs-and-bounds)
9. [Fairness](#fairness)
10. [Proofs](#proofs)
11. [Disagreements between text and code](#disagreements-between-text-and-code)
12. [What is not modelled](#what-is-not-modelled)
13. [Plan](#plan)

## Inventory

| component | state it keeps | operations | interacts with | what is hard | what makes it correct | here |
|---|---|---|---|---|---|---|
| **relay core** `relay/src/core/relay_core.cpp`, `discard_policy.cpp` | the two conditions (subscribed, client connected), the phase, the copy memory, the ingress trigger, counters | one handler per worker event, socket event, tick, stop | called by the shell only | six handlers change one of two conditions; a failed write changes four parts of the state at once; a realtime clock that is stepped; a ring that wraps | phase = both conditions; one outcome per slot; no frame older than the phase, no recent copy; bounded triggers | `RelayCore`, `SubscriptionPhase` |
| **relay gateway worker** `relay/src/core/gateway_worker.cpp` | inbox, client and subscription, generations, silence | `Step`, `Notify`, `Finish` | calls the gateway library, hears its notifications from other threads, feeds the shell | notifications late, dropped or in the middle of a call; calls that half succeed; a stop at any place | one client per process; no call after a loss; break before make; clean stop; the feed in order | `GatewayWorker` |
| **relay retry schedule** `relay/src/core/retry_schedule.cpp` | last end, silent subscriptions in a row, start | the time of the next attempt | asked by the worker | rules that meet at a boundary of time | every wait bounded, the right rule for the last end | `RetrySchedule` |
| **relay call monitor** `relay/src/core/gateway_worker.cpp:49-92` | the call in progress, one returned stall | `Begin`, `End`, `TakeNewStall`, `TakeReturnedStall` | worker writes, main thread reads | one slot for a returned stall | a stall reported once, its return once and only after it ended | `GatewayCallMonitor` |
| **relay shell and process** `relay/src/shell/relay_shell.cpp`, `relay/src/aosp/relay_main.cpp` | mailbox, sockets, the stop, the exit code | `Run`, `Turn`, `Accept`, `ReadClient`, `Forward`, mailbox `Post`/`TakeAll`/`Close` | owns the core, starts the worker's thread | a bounded mailbox between two threads, stale `poll` results, a worker that cannot be joined | no lost wake-up, no lost event, an end for every stop and every loss | `EventMailbox`, `IviFrameRelay` |
| relay parsing, options, event log, peer look-up | none | pure functions, reads of `/proc` | used by core and shell | | | not modelled |
| **S-CORE adapter, speed** `adapter/src/speed_path_controller.cpp` | proxy, epochs, read buffer | subscribe, read a round, unsubscribe, destroy | the LoLa binding and its handler thread, main thread | epochs read without a lock around samples; leaving and entering again in the middle of a read; `Unsubscribe` that does not take effect | a sample published once and never twice over two subscriptions; a proxy never destroyed while subscribed; the stop ends the process | `SpeedPath` |
| **S-CORE adapter, frames** `adapter/src/frame_stream_client.cpp`, `frame_splitter.cpp`, `frame_path_controller.cpp` | connection, splitter buffer, skeleton | connect, receive, split, send, stop | frame assembler over TCP, skeleton | a stream that ends inside a prefix or a frame, an oversized frame, a stop in a send | frames whole, as sent, in order, while offered | `FramePath` |
| **AEBS coordinator** `implementation/aebs-autoware-nominal-vehicle-target-bench/` | intervention latch, warning, stamps of the inputs | one callback per topic, timer | ROS topics of Autoware | topics in any order, stale inputs, clock samples out of order, a latch that must not release early | one intervention, warned of, released at standstill only, commanded while it lasts | `AebsCoordinator`, `AebsLifecycle` |
| **AEBS visualization** `implementation/aebs-aaos-sdv-visualization-bench/` | last states, sequence, HMI reducer, UI queue | assemble, serve, validate, reduce, tick | ROS topics, TCP, Android application | loss and restart of the bridge, two threads on one reducer, a queue of results | a release shown is real; silence is shown; a release is shown in the end | `AebsPresentation` |
| **deployment** `deployment/scripts/deploy.py`, `.github/workflows/` | checkouts, projects of the API, binding, status, containers, proxy | fetch, import, bind, publish, recreate, verify, roll back | GitHub, Docker, SysML API, viewer | a crash or failure between any two steps, two workflows on one host, containers that compose keeps | closed until published; green serves its revision; a rollback restores; a redeploy recovers | `Deployment` |
| **model viewer server** `tools/sysml_html_viewer/serve.py`, `repo_guide.py` | sites, parsed trees, guide index, locks, slots | page, question, guide | a git checkout, a language-model service | check before lock, builds that fail, ages read off the newest time only, stamps taken after reading, slots not given back | one builder per site, and nobody builds once more what he waited for; no slot lost; what TRUE and a grounding mean; every request ends | `ViewerServer` |
| **Ask runtime** `tools/sysml_html_viewer/ask_model_semantic.py`, `de4sdv/semantic/deployment_runtime.py` | service, warm state, snapshot files | build, warm up, load, write the snapshot, answer | API, deployment binding, viewer threads | a lazy build without a lock, a crash between two files, an API that changes or does not answer | only the bound export answers; every question is answered; a restart recovers | `AskRuntime` |
| **product line configuration** `de4sdv/semantic/pleml_configuration.py` | a tree, one selection | check the tree, select, check, derive, admit | model export, admission scope | one pass in document order; pairs covered by none or two rules; admission over several groups | the selection is the least one; each variation resolves once; what is admitted is one alternative | `FeatureConfiguration` |
| vehicle speed and broker benches | little | drivers, converters, evidence | components above | | | not modelled |
| semantic evaluation, SysML API client `de4sdv/` | none that outlives a call | evaluation of a model export | files, HTTP | | | not modelled |
| scripts, model text, documentation, tests | | | | | | not modelled |

The components meet in three chains. *Vehicle*: the coordinator's topics are read
by the bridge of the presentation; the frames that the assembler serves reach the
display either directly (`AebsPresentation`) or through the S-CORE adapter
(`FramePath`), the gateway and the relay (`GatewayWorker`, `IviFrameRelay`,
`RelayCore`). *Publication*: a deployment writes the binding and starts the
viewer container; the container's entry point admits it; inside it the server's
threads ask the runtime. *Model*: the configuration evaluator reads the same
export that the deployment imports.

The hazards of the modelled parts (what can go wrong in the code and a test
would hardly reach, each at its line, with the properties that cover it) are in
`PROJECT.json`, under `hazards`.

## The IVI frame relay

Two threads and a library:

```
 gateway library ---notifications---> inbox (64, drops)
      ^   |                              |
      |   +-- slots, results             v
      +------------------------- gateway worker thread
                                         | events
                                         v
                                 mailbox (1024, waits)
                                         |
   SIGTERM -----> main thread: poll, drain, accept, read, tick
                        |            \
                        v             +-- start property of the ingress
                  relay core ---frames---> loopback client (HMI ingress)
```

* The **worker** makes every call of the library. It creates the one client of
  the process, subscribes, reads slots, unsubscribes, and at the stop deletes
  the client. Threads of the library notify it (`Disconnected`,
  `PublicationDestroyed`) at any time. What it learns it posts to the mailbox.
* The **main thread** runs the shell. It polls the mailbox and the sockets,
  hands each event to the core, writes admitted frames to the client, and at a
  stop waits for the worker for at most 150 ms.
* The **core** decides: the *subscription phase* holds while there are both a
  gateway subscription and a connected client. Only in it are frames served,
  and of these none that is older than the phase or a copy of a recent one.
* A **lost gateway client** ends the process: the library allows one client per
  process, so init starts a new one.

**`RelayCore`.** The variables carry the names of the members (`subscribed_` is
`subscribed`). Each public handler of the core is an action; one handler with
several outcomes (`OnMessage`) is a disjunction of named ones (`DropSlot`,
`ServeSlot`, `WriteFailed`, `WriteStopped`). A handler first fixes the primed
conditions and then conjoins `UpdatePhase`, as the code assigns a member and
calls `UpdatePhase`. `DiscardPolicy`'s own `in_phase_` and
`phase_start_realtime_ns_` are assigned in the same two places as the core's,
so one variable stands for both. Time is a reading of `CLOCK_REALTIME` from a
set, in any order: the clock can be stepped. The retrigger period is a free
choice (`elapsed`). The checks of wrapper, prefix and fields of a slot are one
verdict, `Malformed`. `phase_log` is a history variable.

**`GatewayWorker`.** The worker runs `Step` in a loop. The model cuts its code at
the points another thread can see: taking the inbox under its lock, the begin
and the return of each library call, each post. So `worker_pc` names the call
in progress, and the library can disconnect, destroy a publication or notify
between any two of these. A call takes effect in the library before it returns
(`ClientExists`, `SubscriptionExists`), so a notification of a client can come
before `Client_new` returns. Notifications can be late: they stay in flight
after the subscription or client they speak of is gone, and carry its
generation. Whether an attempt or a read is due, and whether 3 s were silent, is
a free choice, so the safety properties hold for every retry schedule. The
library is external code, modelled from its use; it is assumed that
`Unsubscribe` succeeds (the worker ignores its result) and that each client
hears of its disconnection once.

**`EventMailbox`.** `Post`, `TakeAll`, `Wake` and `Close` hold one mutex, so each
is one action. `ready` is the byte in the wake pipe. A post to a full mailbox
waits in slices of 20 ms and looks again, so it is an action that is enabled when
it can end: there is room, or the mailbox is closed (and the event is dropped
and counted).

**`IviFrameRelay`.** `main` is the place of the main thread in `Run` and `Turn`.
`Poll` records what was ready (`revents`); the events are handled one at a time
before the sockets are looked at, so a polled client may be gone by then and
another have its descriptor. The core's handlers are those of `RelayCore`, taken
through `INSTANCE`; the worker's actions are those of `GatewayWorker`, except that
its `Post` goes to the mailbox. The stop follows `Run` from line 420: the core
stops, the worker is asked, the wait with its drains, the exit code, the join
and last drain or the close, the exit. A worker that is left behind runs on
until the process exits.

**`GatewayCallMonitor`.** Every operation holds the mutex, so each is one action;
a tick of the core is two of them, `TakeNewStall` and then `TakeReturnedStall`,
and the worker can come in between. A call is its number. Whether a call has run
for the threshold is a free choice: the main thread can be late for its tick.

**`RetrySchedule`.** The same worker as `GatewayWorker`, seen from its clock: each
attempt begins and returns at a reading of `now`, and `now` may advance at any
place, so a call, a post or a turn is late by any time. What a notification or a
post does to the order of things is left to `GatewayWorker`; the loss of the
client ends the schedule and is not an action. The two history variables say
which subscriptions brought messages and whether the last attempt failed, so
that the back-off is stated without the counter it is computed from.


**Between the parts.** `IviFrameRelay` has the core meet only what `RelayCore`
assumes (`ImplementsRelayCore`, a refinement, proved in `IviFrameRelayProofs`), so
what is proved of `RelayCore` holds in the process. `RelayCore` in turn implements `SubscriptionPhase`, what the
ingress may rely on.

## The S-CORE adapter

One process with two paths that share only the stop flag and the exit: the main
thread reads the vehicle speed from a provider and publishes it; a second thread
reads frames from the assembler's stream and sends them on a skeleton.

**`SpeedPath`** (`adapter/src/speed_path_controller.cpp` and the loop of
`adapter_main.cpp`). A sample is its place in the order in which the provider sent
them. `main` is the place of the main thread: between `load epoch`, `check
state`, `read`, `check again` and `load again` the binding may move, because the
code takes no lock. The binding is external: `Enter`, `Leave` and `Withdraw` change
the state the proxy reports, and the handler runs a moment later
(`OnSubscriptionStateChanged`). Two things are assumed of it because the code's
own comments rest on them: the transitions are serialised, with the handler of
one run before the next transition, and nothing is entered again after
`Unsubscribe`. A read returns the newest or the oldest samples that wait; the
properties hold for both. After `Unsubscribe` the wait is either ended by the
state or given up, and then the proxy is kept and the exit code says so.

**`FramePath`** (`frame_splitter.cpp`, `frame_stream_client.cpp`,
`frame_path_controller.cpp`). A byte is the frame it belongs to and its place in
it, so that a sample pieced together from two frames would be told apart from
each. The stream may end after any byte; the splitter is reset at each
connection. When what it takes for a prefix is none, `Said` returns any length.

## The AEBS coordinator and its display

**`AebsCoordinator`** (`aebs_coordinator.py`, `aebs_coordination_core.py` of the
nominal vehicle target bench; the node of the stationary bench is its
predecessor). The executor runs one callback at a time, in any order the topics
bring them: `OnNominal`, `OnOverride`, `OnRss`, `OnCloud`, `OnIntervention`,
`OnMovingOdometry`, `OnStoppedOdometry`, and the timer's `Publish`. Stamps are
kept, ages are compared as the code compares them, a diagnostic may be stamped
at any time, past or future, a sample of the odometry may repeat the last stamp.
Values that are no number are `None`. Nothing is published before the first
nominal command, and after it the last one is repeated for as long as the node
lives. **`AebsLifecycle`** is what it promises: armed, then latched, then
released, with a warning that only the release ends.

**`AebsPresentation`** takes that promise as its source. `Observe` is the
assembler's callbacks, each reading a topic on its own, so that a frame can mix
an old warning with a new lifecycle. `PublishFrame` is one tick of the frame
server with the ingress behind it: a frame may be lost anywhere on the way,
and one that the validator refuses never arrives. The display has two threads
and one reducer without a lock, so each read and each write of the reducer is a
step of its own. The UI thread takes its queue in order: `TakeFrame` notes the
time, then the reducer's `onFrame` counts (`BeginOnFrame`), refuses a replay
(`RefuseReplay`), or reads the disposition (`Judge`, `JudgeInvalid`), writes it
(`ShowLive`, `Restore`), writes the hold (`BeginHold`) and reads the disposition
again to return it (`ReturnFromFrame`). The ticker reads how long the stream was
silent (`TickBegin`), writes `STALE` (`OnStale`), reads the disposition and the hold
(`OnTick`), and in a later step writes `MONITORING` (`Expire`) or reads the
disposition again (`ReturnFromTick`); what it comes to reaches the screen through the
UI thread's queue (`PostStale`, `PostTick`, `RenderPosted`). So a frame can come
between any two accesses of the ticker, and the other way round. Two reads are
one step where no write of the other thread can tell them apart (said at `Judge`).
The fields are not `volatile`; the model lets both threads see one order of all
accesses, which is less than the Java memory model allows. Sequence numbers are
kept as the distance that a restarted bridge is behind.

What that interleaving allows is told apart by three properties.
`ReleaseIsNotForgotten` is what holds: after a release the display shows neither
warning nor intervention, and monitoring only by `Expire`. `ReleaseIsNotUndone`,
that the reducer leaves a release for a degraded state only, is the state machine
the reducer says it mirrors; the run `aebs_undone` shows it violated, with no
fault of the bridge.

## Deployment, viewer and Ask

**`Deployment`**. One host, two workflows: the API workflow (`deploy-public-sysml-api.yml`
with `deploy.py` and the import) and the Ask workflow
(`deploy-public-ask-viewer.yml`, with its rollback). Only one run is in progress at
a time: both workflows name the same concurrency group. A step that changes the
host is an action; each may fail (`StepFails`: the API run ends, the Ask run goes
to its rollback), and a run may be cut off (`CutOff`), which leaves all as it is.
The viewer's container starts, reads the binding and the checkout at its entry
point, reads both again when its runtime is built, and adopts the corpus when it
is the bound export; Docker restarts it at any time. The API verifier waits for the
viewer; the Ask verifier looks once, and fails when it does not serve the run's
revision (`AskServesTheRun`). `Up` is what compose does
without `--force-recreate`: it may keep the container that runs.

**`ViewerServer`** (`serve.py`, `repo_guide.py`). One thread per request. A text is
named by how often its tree had moved when it was read, and so is a time. The
server does not see the moves: it sees the newest time of the `.sysml` files that
exist. So `TreeMoves` moves the checkout and leaves `newest` at any value up to the
move: at the move when a file was written now, below it after a deletion, a rename
or a file that keeps its time. `Stale` and `Parsed` compare `newest` only, as
`serve.py:286-309` and `356-361` do; `hidden` remembers, for the properties, the last
move that does not show. HEAD moves with the checkout or does not; that HEAD goes
back to an earlier revision is a move to a new one here. The check before the lock, the check inside it, the
build with its pages written after its index, the parse with the time taken
after it, the guide's index with the HEAD recorded after it: each is a step of
its own, and the checkout or the branch may move between any two. Any build may
fail. A restart keeps files and loses parsed trees, locks and requests.

**`AskRuntime`** (`ask_model_semantic.py`, with the startup check and the snapshot of
`deployment_runtime.py`). The lazy runtime is built by whoever comes first, and by
whoever comes while it is built. The warm-up thread loads the snapshot or the
API's export and writes the snapshot, digest first. Questions never wait for it:
they are answered from the corpus (`UseCorpus`) or, labelled so, from regular
expressions; for the label the status is read in a step of its own, after the
cache (`AnswerCold`). The check that an answer's revision is the bound one
(583-590) is left out: it can only refuse more than the model does.

## Feature configuration

**`FeatureConfiguration`** (`de4sdv/semantic/pleml_configuration.py`). One behaviour
decides one configuration of one tree, in the steps of `evaluate`: the tree is
checked (`ReadTree`), the entries are read (`ReadConfiguration`), the features are
decided one after the other in document order (`DecideFeature`), groups, bindings
and constraints are checked, variants are derived, and the governed scope
admits the result or not. A feature is its position; owner, group, multiplicity
and binding time are functions on positions. Reasons are kept with the check that
gave them, because the properties tell them apart, and their wording is left out.
`Intact` is the integrity that the code asks of a tree before it decides
anything; what is proved of the decision rests on it.

## Modules

| module | models | code |
|---|---|---|
| `SubscriptionPhase` | the promise to the HMI ingress, as an abstract specification: begin a phase, serve a frame, end it | the rule in `discard_policy.hpp` |
| `RelayCore` | `RelayCore` and `DiscardPolicy` in an open environment | `relay_core.cpp`, `discard_policy.cpp` |
| `RelayCoreProofs` | theorems about it | |
| `GatewayWorker` | `GatewayWorker` and the library it calls | `gateway_worker.cpp`, `gateway_worker.hpp`, as used through `gateway_client.hpp` |
| `GatewayWorkerProofs` | theorems about it | |
| `EventMailbox` | the mailbox of the shell | `relay_shell.cpp`, `EventMailbox` |
| `IviFrameRelay` | the process: composes the three with the sockets, the stop and the exit | `relay_shell.cpp`, `relay_main.cpp` |
| `GatewayCallMonitor` | the call in progress, between the worker and the tick | `gateway_worker.cpp:49-92`, `relay_core.cpp:235-255` |
| `RetrySchedule` | the schedule and the worker's attempts and ends that ask it, on a clock | `retry_schedule.cpp`, parts of `gateway_worker.cpp` |
| `IviFrameRelayProofs` | theorems about the process, and about the two modules above | |
| `SpeedPath` | the speed path of the adapter and the binding it reads from | `speed_path_controller.cpp`, `adapter_main.cpp` |
| `FramePath` | the frame path of the adapter and the stream it reads | `frame_splitter.cpp`, `frame_stream_client.cpp`, `frame_path_controller.cpp` |
| `AebsLifecycle` | what the coordinator promises, as an abstract specification | the states of `InterventionLatch` |
| `AebsCoordinator` | every callback of the coordinator | `aebs_coordinator.py`, `aebs_coordination_core.py` |
| `AebsPresentation` | bridge, ingress and display, on `AebsLifecycle` | `frame_assembler.py`, `ros_node.py`, the ingress, the HMI reducer and activity |
| `VehicleNodesProofs` | theorems about the coordinator, the display and the two paths of the adapter | |
| `Deployment` | the two workflows, the host and the viewer's container | `deploy.py`, the import, the workflows, the entry point, the verifiers |
| `DeploymentProofs` | theorems about it | |
| `ViewerServer` | threads, locks, caches and slots of the server | `serve.py`, `repo_guide.py` |
| `ViewerServerProofs` | theorems about it | |
| `AskRuntime` | lazy runtime, warm-up, snapshot, questions | `ask_model_semantic.py` |
| `AskRuntimeProofs` | theorems about it | |
| `FeatureConfiguration` | the decision of one configuration | `pleml_configuration.py` |
| `FeatureConfigurationProofs` | theorems about it | |
| `MC...` | values, trees and constraints for the runs | |

`PROJECT.json` maps every definition to its lines. Some definitions under a
comment that begins with *Mutant* are wrong on purpose: each is the form a
plausible bug would give the definition after it, and shows which property would
find it.

## Runs and bounds

Each run asks one question. Constants marked *bound:* in the modules limit
counters; a run's small instance is meant to hold every case once or twice.

| run | question | properties | bounds | why enough |
|---|---|---|---|---|
| `core` | is the served stream what the abstract phase allows, and is the ingress triggered only when the relay lacks it, under every order of events? Is the return of a stall lost only to a later stall, and does a silent subscription back off? | `ImplementsSubscriptionPhase`, `TriggersOnlyForAnIngressTheRelayLacks`, `ReturnsAreLostOnlyToLaterStalls`, `SilentSubscriptionsBackOff` | core: 2 sequence numbers, times {0, 1, 3}, margin 1, memory 2, 1 repeat of the trigger, 2 subscriptions, 4 slots, 2 clients, 2 phases; one phase of many frames or two of few (`MCShortOrSimple`). Monitor: 5 calls. Schedule: periods 1, 2, 4, 5, windows 3 and 4, time to 12, 4 subscriptions, 3 silent ones | the ring wraps twice; frames at, before and after the start of a phase; a second phase, a second client, a trigger repeated, given up and rearmed; two calls in the slot's way and one after them; each rule of the schedule meets each other at its boundary. The three share nothing: a behaviour is one of one of them (`part`). 2.67 million states |
| `worker` | does the worker keep the library's rules and feed in order, does a stop end it, is a `Disconnected` it holds acted on? | `LibraryRules`, `EndsForItsOwnPublication`, `FeedInOrder`, `StopEndsTheWorker`, `DisconnectedIsActedOn` | inbox 2, 2 attempts to create the client, 2 subscriptions, 2 slots, 1 other notification | notifications of subscription 1 can arrive in 2; the inbox overflows; a failed creation is tried again. 207 000 states |
| `relay_safety` | is any event lost between the threads, is a joined exit clean, is what is served of the current subscription, and does the core meet only what it assumes? | `NoLostWakeup`, `JoinedExitIsClean`, `CoreFollowsTheWorker`, `ServedFromTheCurrentSubscription`, `ImplementsRelayCore` | mailbox 1, inbox 1, 2 subscriptions, 1 slot, 2 clients, 6 phases (more than can begin, see `RelayAssumption`); the second subscription, and the second client in the first subscription, only in a relay that runs on (`MCSecondRunsOn`, `MCSecondClientRunsOn`) | a mailbox of 1 is full after every post, so the waiting, the wake-up and the close all happen; the end of one subscription, the start of the next and a message wait together; a client that was polled is closed and another accepted before the read. 1.48 million states |
| `relay_live` | does a stop, or a loss, end the process? | `StopOrLossEndsTheProcess` | mailbox 1, inbox 1, 1 subscription, no slots | slots only lengthen a drain; the subscription itself still fills the mailbox. 310 000 states |
| `vehicle_nodes` | do the coordinator and the two paths of the adapter keep their promises? | `ImplementsLifecycle`, `WarningIsNotLost`, `ReleasedAtStandstill`, `NewSamplesOnce`, `SubscribedProxyIsKept`, `AdapterEnds`, `ForwardedAsSent` | coordinator: ages 1, hold 2, margin 1, RSS distance 1, points at 1 and 4, time to 3; speed: 2 samples a read, 2 reads a round, 3 samples sent, one of them withheld, left once; frames: prefix of 2 bytes, samples of 4, lengths 0, 2, 3, 3 frames, 3 connections | each input fresh and stale, a point inside and outside of the limit, a hold with and without a gap; a full and a short read, a leave in any place of a read; a frame that is empty, fits exactly, and is too large by one, torn at each byte. The three share nothing: a behaviour is one of one of them (`part`). 347 000 states |
| `aebs_presentation` | is a shown release real and not forgotten, and are silence and release shown in the end? | `ReleasedIsReal`, `ReleaseIsNotForgotten`, `SilenceIsShown`, `ReleaseIsShown` | 2 frames restore, stale after 0, hold 1, 1 behind, queue 1, 1 fault, once the coordinator brakes and with the lifecycle alone (`MCFaultsOfTheLifecycle`); the other topics one at a time, at a display that is live while the ticker rests (`MCOneOtherTopic`) | each access of one thread falls between any two of the other; a streak that is broken and one that is not; a result posted by the ticker between two frames; braking that is still requested after the release, and braking seen without a lifecycle. 730 000 states |
| `aebs_undone` | is a release that is shown left for a degraded state only? It is not, see below | `ReleaseIsNotUndone` | 1 frame restores, no fault | one restored indication and one release are enough |
| `host` | what is public, whatever fails? Are slots and sites guarded, what do TRUE and a grounding mean, does every request end? | `OpenMeansPublished`, `GreenDeployServesItsRevision`, `RolledBackIsRestored`, `RedeployRecovers`, `SlotsAndSitesAreGuarded`, `TrueMeansWrittenSince`, `AnswersAreGrounded`, `EveryRequestEnds` | deployment: 3 revisions, the last of which changes the model, 4 runs of a workflow, the first of them of the first revision (`MCFirstCommitFirst`), 1 fault; server: 2 threads, 1 slot, 2 requests, 1 move of each tree, that shows or not, 1 restart | a run that fails, an Ask run over what it left, a rollback, and a redeploy; revisions with the same and with another model, in either order; the two requests meet in every lock and at the one slot; one move is before, in and after every read. The two share nothing: a behaviour is one of one of them (`part`). 319 000 states |
| `viewer_current` | is a site that was called current so? It is not, see below | `TrueMeansCurrent` | 1 thread, 1 request, 1 move | one move that does not show is enough |
| `ask_runtime` | does only the bound export answer, is every question answered, does a restart recover? | `OnlyTheExportAnswers`, `EveryAskIsAnswered`, `RestartRecovers` | 2 threads that ask, 3 questions, 1 change of API and mounts, 1 restart | three threads build at once; a thread asks again, after its answer and after a restart; a crash between the two files of the snapshot. 587 000 states |
| `ask_once` | is the service that was warmed up the one that answers? It is not, see below | `WarmedServiceIsTheOneServed` | 1 question | the warm-up and one question are enough |
| `feature_configuration` | is the selection the least one, does each variation resolve, is what is admitted one alternative? | `SelectionIsLeast`, `EveryVariationResolves`, `AdmittedIsOneAlternative` | 14 trees of 6 or 7 features, every configuration with entries [0], [1] and [1..2] | a sound platform, one below an optional feature, nested and late and mandatory features, a requirement, an implication, and a tree for each check of the integrity that is violated. 848 000 states |

`CHECK_DEADLOCK FALSE` is said in every run but `aebs_presentation` and `aebs_undone`: the process may
stop, a decision ends, or the bounds stop an environment that could go on.

What the properties say:

* `ImplementsSubscriptionPhase`: what reaches the client begins with a phase that
  holds both conditions, is not older than it and repeats nothing of late.
  `TriggersOnlyForAnIngressTheRelayLacks`: the start trigger of the ingress is
  never given to one that is connected.
* `LibraryRules`: one client per process, no call after the loss, break before
  make, and a stop that leaves nothing behind in the library. `EndsForItsOwnPublication`,
  `FeedInOrder`: late notifications change nothing, and the feed is a
  well-formed history.
* `NoLostWakeup`, `CoreFollowsTheWorker`, `ServedFromTheCurrentSubscription`,
  `JoinedExitIsClean`: the two threads of the relay.
* `ReturnsAreLostOnlyToLaterStalls`, `SilentSubscriptionsBackOff`: stalls are
  reported, and the relay does not hammer the broker.
* `ImplementsLifecycle`, `WarningIsNotLost`, `ReleasedAtStandstill`: one
  intervention, warned of if there is a fresh risk, and released only after a hold in which every sample was a stop and
  none came late after another.
* `NewSamplesOnce`: a sample sent before the subscription is never published,
  and none twice or out of order. `SubscribedProxyIsKept`: a subscribed proxy is
  never destroyed, and the exit code tells. `ForwardedAsSent`: frames whole, once,
  in order.
* `ReleasedIsReal`, `ReleaseIsNotForgotten`, `SilenceIsShown`, `ReleaseIsShown`: the
  display neither invents a verified stop nor goes back from it to a warning or
  an intervention, and does not show an old picture as live.
* `OpenMeansPublished`: while the proxy is open as `deploy.py` opened it, status,
  binding and viewer speak of one project, which is a whole import.
  `GreenDeployServesItsRevision`, `RolledBackIsRestored`, `RedeployRecovers`: what a
  run's end says of the host.
* `SlotsAndSitesAreGuarded`, `EveryRequestEnds`: the shared state of the request
  threads. `TrueMeansWrittenSince`: when `ensure_worktree_current` says TRUE, the index
  page was written since the last move before the request, unless a move did not
  show; and so were the pages, of a site that is whole. `AnswersAreGrounded`: what a
  question is answered from was parsed to its end since the last move before the
  question, unless a move did not show; that the text is no older is said only if
  the tree stood still for the parse. The cases that these premises leave out are
  those in which the code does not keep its word: `TrueMeansCurrent` is violated,
  and the others are listed below.
* `OnlyTheExportAnswers`: an answer labelled as the API's rests on the export that
  the binding records, and ready means loaded.
* `SelectionIsLeast`: the single pass finds the least selection consistent with the
  entries, and rejects exactly the configurations that have none.
  `EveryVariationResolves`, `AdmittedIsOneAlternative`: what a valid and what an
  admitted configuration is.

Some invariants of the modules are proved for every instance and take no run:
`PhaseHoldsBothConditions`, `EverySlotOneOutcome`, `CountersMatchState`,
`LayerEndsAttributed`, `TriggerBudget`, `NoRecentCopy`, `WaitsAreBounded`,
`DestroyedIsRetriedFast`, `MarkIsOfTheCall`, `ReturnsAreOfStalls`,
`ReturnReportedOnce`, `SuppressedOnlyByTheDriver`, `WarningNeedsRisk` (see [Proofs](#proofs)).

## Fairness

* `GatewayWorker!FairSpec`: the worker thread is scheduled (`WF` of `Turn`), posts
  find room (`WF` of `Post`), notifications arrive (`WF` of `Arrival`), and calls
  return (`WF` of `CallReturns`). The last one is an assumption on the library
  that the process does not make: it is used for the worker alone.
* `IviFrameRelay!FairSpec`: the main thread is scheduled (`WF` of `MainStep`); the
  worker gets on with a post it can make (`WF` of `WorkerPosts`). A library call
  need not return. The wait for the worker ends after 150 ms whatever the
  worker posts meanwhile; in the model the wait can always be taken again
  before it ends, so it has `SF` of `WaitEnds`.
* `vehicle_nodes`: none for the coordinator; the adapter's main thread is
  scheduled (`WF` of `MainGoesOn`) once a provider was found or a stop was given:
  nobody promises a provider. The binding runs the handler of a transition it
  has made (`WF`).
* `AebsPresentation!FairDisplaySpec`: the topic of the lifecycle is delivered, the UI
  thread runs (`WF`), and the ticker runs, `SF` because the full queue of the UI
  thread can keep it waiting again and again. Frames are not assumed to flow;
  `ReleaseIsShown` says so itself (`FramesFlow`).
* `Deployment!FairSpec`: a run goes on or fails, the viewer's start goes on or is
  refused (`WF`). Nobody is assumed to start a run.
* `ViewerServer!FairViewerSpec`, and the server in `host`: `SF` for each thread's next step: threads are scheduled,
  and a lock or the slot that others take again and again is given to a thread
  that waits in the end. A builder and the language model come back: both have
  time-outs.
* `AskRuntime!FairSpec`: the threads run (`WF`); the API may keep the warm-up
  waiting for ever. Only `RestartRecovers` assumes that it answers, and says so.
* `RelayCore`, `GatewayCallMonitor`, `RetrySchedule`, `FeatureConfiguration`: none, their
  properties are safety.

## Proofs

The theorems hold for every value of the constants under the named assumption of
the module. Their proofs are checked with SMT, Zenon and, for the temporal steps,
LS4. Every invariant that a run checks is stated by a theorem. Each inductive
invariant was checked by TLC on the instance of its run before it was proved.

| module | theorem | states |
|---|---|---|
| `RelayCoreProofs` | `TypeCorrect` | `[]TypeOK` |
| | `PhaseCorrect` | `[]PhaseHoldsBothConditions` |
| | `OutcomesCorrect` | `[]EverySlotOneOutcome` |
| | `CountersCorrect` | `[]CountersMatchState` |
| | `TriggersBounded` | `[]TriggerBudget` |
| | `MemoryCorrect` | the ring is the end of the log of served frames |
| | `CopiesCorrect` | `[]NoRecentCopy` |
| | `LayerEndsCorrect` | `LayerEndsAttributed` |
| | `TriggersCorrect` | `TriggersOnlyForAnIngressTheRelayLacks` |
| | `CoreImplementsPhase` | `RelayCore` implements `SubscriptionPhase` |
| `GatewayWorkerProofs` | `WorkerTypeCorrect` | `[]TypeOK` |
| | `LibraryRulesCorrect` | `[]LibraryRules` |
| | `FeedIsInOrder` | `FeedInOrder` |
| | `EndsForItsOwn` | `EndsForItsOwnPublication` |
| `IviFrameRelayProofs` | `ProcessTypeCorrect` | `[]TypeOK` of the process |
| | `ProcessRunsTheWorker` | the process implements `GatewayWorker` |
| | `ProcessRunsTheCore` | the process implements `RelayCore` |
| | `WakeupsCorrect` | `[]NoLostWakeup` |
| | `FollowingCorrect` | `[]CoreFollowsTheWorker` |
| | `JoinedExitCorrect` | `[]JoinedExitIsClean` |
| | `ServedCorrect` | `ServedFromTheCurrentSubscription` |
| | `MonitorTypeCorrect`, `MarkCorrect`, `ReturnsCorrect`, `LossesCorrect`, `ReturnedOnce` | types, and the four properties of the reports of stalls |
| | `ScheduleTypeCorrect`, `WaitsCorrect`, `DestroyedCorrect`, `BackOffCorrect` | types, and the three rules of the schedule |
| `VehicleNodesProofs` | `CoordinatorImplementsLifecycle` | the coordinator implements `AebsLifecycle` |
| | `WarningsAreNotLost`, `WarningsNeedRisk` | a warning is there when, and begins only if, fresh geometry shows a risk |
| | `SuppressionCorrect` | only a fresh override suppresses |
| | `ReleaseCorrect` | `ReleasedAtStandstill` |
| | `PresentationTypeCorrect` | `[]DisplayTypeOK` |
| | `ReleasedIsRealCorrect` | `[]ReleasedIsReal` |
| | `ReleaseIsNotForgottenCorrect` | `ReleaseIsNotForgotten` |
| | `SpeedTypeCorrect`, `FrameTypeCorrect` | the types of the two paths |
| | `NewSamplesArePublishedOnce` | `[]NewSamplesOnce` |
| | `ProxyIsKeptWhileSubscribed` | `[]SubscribedProxyIsKept` |
| | `ForwardedAsSentCorrect` | `[]ForwardedAsSent` |
| `DeploymentProofs` | `DeploymentTypeCorrect` | `[]TypeOK` |
| | `OpenMeansPublishedCorrect` | `[]OpenMeansPublished` |
| | `GreenDeployCorrect` | `GreenDeployServesItsRevision` |
| | `RollbackCorrect` | `RolledBackIsRestored` |
| `ViewerServerProofs` | `ServerTypeCorrect` | `[]ViewerTypeOK` |
| | `SlotsAndSitesAreGuardedCorrect` | `[]SlotsAndSitesAreGuarded` |
| | `TrueMeansWrittenSinceCorrect` | `[]TrueMeansWrittenSince` |
| | `AnswersAreGroundedCorrect` | `[]AnswersAreGrounded` |
| `AskRuntimeProofs` | `AskRuntimeTypeCorrect` | `[]TypeOK` |
| | `OnlyTheExportAnswersCorrect` | `[]OnlyTheExportAnswers` |
| `FeatureConfigurationProofs` | `SelectionCorrect` | `[]SelectionIsLeast` |
| | `VariationsResolve` | `[]EveryVariationResolves` |
| | `AdmissionCorrect` | `[]AdmittedIsOneAlternative` |

**`RelayCoreProofs`** (assumption `CoreAssumption`: numbers are natural, the copy
memory is not empty, `Malformed` is no frame). `TypeOK` is inductive, shown in three
parts (flags, numbers, frames). `PhaseHoldsBothConditions` is inductive with the
flags: `PhaseSteps` classifies every step by what `UpdatePhase` does, and each later
proof cites the class instead of the twenty disjuncts of `Next`; `OutcomeSteps` does
the same for the slot counters. Three invariants are not inductive as they stand:

* `TriggerBudget` needs `BudgetInv`: the triggers so far *plus the repeats still
  left* stay within the budget. A repeat moves one from left to done; a failed
  write grants one trigger and `RetriggerLimit` repeats.
* `NoRecentCopy` needs `MemoryIsEndOfLog`: the memory holds the last frames of the
  log, as many as it can. It is then also what `Serve` of the abstract
  phase asks for (`NotServedLately`).
* the refinement needs `SinceKnown`: the two times from which a phase's start is
  taken are readings of the clock. A step of the core maps to `Begin`, `Serve`,
  `End` or a stutter of the abstract phase by its class.

**`GatewayWorkerProofs`** (`WorkerAssumption`), for any capacity of the inbox and any
number of attempts, subscriptions and messages. For the rules of the library,
`CallInv`: the library has a client only after the one call that creates it
(`ClientInv`), and a subscription lives in it only while the worker is subscribed,
is about to be, or is in the call that ends it, unless the client is lost
(`SubscriptionInv`). For the feed, `FeedInv`: what was posted, continued by what is
left to post, is where the worker is; this is needed because a call posts several
events in several steps. For the reason of an end, `NotificationInv`: no
notification, in flight, waiting or taken, tells of a publication that has not
gone (`Told`).

At the place between two calls, the worker owes nobody anything: `QuietInv` says what
a thread that takes the posts can count on there (`QuietCorrect`), and is what the
process rests on.

**`IviFrameRelayProofs`**, the process (`RelayAssumption`: the assumptions of core and
worker, a mailbox that is not empty, and a bound on phases that never binds, being
at least that on clients and subscriptions together). First, every step of the
process is a step of `GatewayWorker`: a post to the mailbox is its `Post`. So all that
is proved of the worker holds here, and is cited, not proved again
(`ProcessRunsTheWorker`). The core is different: it *asserts* something of its
environment, that a subscription is opened before it ends, that a client is
accepted once, that after `Stop` nothing is served; whether the process gives it
only such events depends on everything between the threads. `PipelineInv` is the
answer: the events that were taken and those that still wait in the mailbox
*replay* from what the core has been told (`CoreMatches`) to what the worker has
posted (`WorkerMatches`), each fitting the state it finds. Handling an event takes the first
view of the replay away, a post appends one, and taking all moves the border
between the two sequences and not their whole. Around it stand the place of the main
thread (`PlaceInv`), the end (`EndInv`: the mailbox closes only when the worker
is left behind, and a joined worker has no more to say), the socket (`SocketInv`:
a client is open exactly while the core has one) and the events themselves
(`EventsInv`: nothing ends for a stop before there is one). The invariant of core and
process together is inductive (`ProcessCorrect`); `ProcessRunsTheCore` then follows
step by step, `CoreFollowsTheWorker` is the replay of no event,
`ServedFromTheCurrentSubscription` is its first event, and `JoinedExitIsClean` is
`EndInv` with it. The theorems of the two parts are used through instances of
their proof modules (`CoreProofs`, `WorkerProofs`), and `SameCore`, `SameWorker` say
that those speak of the same definitions.

*The call monitor*, for any number of calls. The invariant behind the theorems
(`CallsInv`) adds to them that a call in the slot has ended and was not reported yet
(`SlotIsFresh`), and that the call in progress is the last one begun.

*The schedule* (`ScheduleAssumption` only orders the periods as their values are
ordered). `WaitsAreBounded` needs `ModeInv`: where the worker is in its calls says
whether it has subscribed before. `SilentSubscriptionsBackOff` needs that the counter
is at least the number of silent subscriptions at the end of the history
(`CountInv`, `BackOffInv`).

**`VehicleNodesProofs`**, *the coordinator* (`CoordinatorAssumption`: limits are
natural and positive where the code checks it). The refinement needs `LifecycleOK`:
a latch that is released holds no warning. Suppression and warning need `StampsOK`: no
stamp is ahead of the clock. The release needs `StandstillInv`: since the hold began,
each sample used was of a stop and none came too late after another (`HoldOK`,
over the history of samples, `SamplesOK`); the release then takes the sample at
which the hold began as its witness.

*The display* (`PresentationAssumption`). A release has several places on its way: in
the bridge, in a frame or a result of the queue, in the frame at hand, in the
reducer, in the ticker's result, on the screen. `NoInventedRelease`: it is in none
of them before the coordinator released. `ReleaseIsNotForgotten` needs an order:
as long as the bridge has not been restarted, every frame behind one that shows a
release shows a release too, the one at hand included (`ReleaseStays`); with a
restart it does not hold, which is why the property speaks of a bridge that
lives. Each access of the reducer is then a case of its own: only `ShowLive` writes a
live view, and `Expire` is the one other way to monitoring. Nothing is assumed of
how the accesses of the two threads interleave.

*The speed path* (`SpeedAssumption`). A subscription is entered only after the handler
of the leave before it has run and so the epoch has moved; a read whose epoch is
the same before and after therefore stayed in one subscription (`PhaseInv`). The
discard that a new epoch demands ends only with a read that was not full, and has
then taken everything that was sent before the entry; so each later read of that
epoch returns samples newer than the entry and newer than all published
(`BufferInv`). `EndInv` ties the exit code to the proxy.

*The frame path* (`FrameAssumption`: a sample holds at least the prefix).
`SplitterFollows` gives the splitter's state as a function of how far the frame
under way has come: nothing between frames, the bytes of the prefix, the bytes
of the frame, or the number left to skip. What it hands on is then the frame as it
was sent, and each frame at most once, because a frame under way was not received
before (`UnderWay`).

**`DeploymentProofs`** (`DeploymentAssumption`: revisions are positive), for any
commits and models, any number of runs and of faults. One workflow runs at a
time, so what a step finds is what the steps before it left: `ApiInv` says for each
step of `deploy.py` what is done by then (the checkout is its own, the proxy is
closed, the project is whole, the binding is that of the status), `RollbackInv` for
each step of the rollback which checkout stands where. Only the viewer goes on by
itself; it reads the binding and the checkout and nothing else, so that what it
adopts while a run waits is that run's (`ViewerReads`). `BoundWhole`: what was ever
bound or published was read back whole.

**`ViewerServerProofs`** (`ServerAssumption`), for any number of threads, slots, moves,
requests and restarts. `SlotInv` counts: free slots and requests that hold one are
all slots. `LockInv`: a lock is held by the one thread whose step is inside it.
The rest compares times. `TreesInv`: either the newest time is that of the last
move, or that move is remembered as hidden. `StampInv`, `GroundInv`: no index page and
no parse is from the future. `RequestsInv` carries what a request has found (`Found`):
at each of its steps, how old the stamp, the parse or the guide's text may be, or
which hidden move or which move of HEAD excuses it. `LoadInv`: who builds has found
the site in need of it with the lock held, and nobody else writes it.
`GuideInv`: nobody rebuilds the guide's index under a thread that searches it while
HEAD stands still.

**`AskRuntimeProofs`** (`AskAssumption`), for any number of questions, changes and
restarts. `ServicesInv`: services and the threads that are building one are together
no more than the threads, so a service is named only when it was built. `CachesInv`:
a service that holds a corpus holds the export it passed the check of. `WarmupInv` and
`LabelsInv` then carry this to "ready" and to the label of an answer.

**`FeatureConfigurationProofs`**, for every tree that `IsTree` admits and every
configuration. `LoopInv`: after each feature, what is selected is consistent up to
it and contained in every consistent selection, unless a reason was given, and
then there is none. `CheckInv`: from the integrity of the tree and the absence of
reasons, each exactly-one group below something selected has one choice, so that
exactly one rule of each derivation has its premises selected. `AdmissionInv`:
the alternatives realised by the selection, the displaced common choices and
the groups an alternative takes part in leave one alternative.

What attempts at these proofs said of the models, which were then corrected:

* `AnswersAreGrounded` compared a question's time with the grounding that was in
  place *at the answer*. With three requests and two moves another question's
  parse replaces that grounding in between, and the comparison is of the wrong
  text. The time is now kept with the question.
* That a release is left for a degraded state only, and that a site called
  current is current, could be proved as long as the ticker's check and write
  were one step and every move raised the newest time. Neither is so in the code,
  and neither holds (`aebs_undone`, `viewer_current`).
* A thread of `AskRuntime` kept the label of its last answer while it asked again
  after a restart, when no service existed. The label now goes with the
  question, and the run asks three times with two threads.
* `TypeOK` of several modules was not inductive: counters had to be related to
  what they count, and `FeedInv` had to say what a call still owes.
* `ImplementsRelayCore` needs the bound on phases to be no smaller than clients and
  subscriptions together. A smaller one would stop the core where the code has no
  limit.

Only model-checked:

* liveness under fairness (`StopEndsTheWorker`, `DisconnectedIsActedOn`,
  `StopOrLossEndsTheProcess`, `AdapterEnds`,
  `SilenceIsShown`, `ReleaseIsShown`, `RedeployRecovers`, `EveryRequestEnds`,
  `EveryAskIsAnswered`, `RestartRecovers`), which, with `ENABLED`, is out of the
  prover's reach;
* induction over data: what a recursive definition computes for every input cannot
  be proved with the provers used; no module here declares one;
* the absence of deadlock, where a run checks it.

`EventMailbox` has no theorems of its own: its mailbox is the one of `IviFrameRelay`, and
is proved there. That `WarmedServiceIsTheOneServed`, `ReleaseIsNotUndone` and
`TrueMeansCurrent` fail is shown by their runs.

## Disagreements between text and code

With a run that TLC ends with a counterexample:

* **A warmed runtime that is not the one in use** (`ask_once`). `_runtime` tests
  `_SEMANTIC_RUNTIME` and builds it without a lock (`tools/sysml_html_viewer/ask_model_semantic.py:124-159`).
  A question that comes while the warm-up builds, builds too, and the later
  assignment wins. The warm-up then loads a service that nobody asks: the state
  says `ready`, and each question is answered with `regex:warmup-failed` until the
  process ends. Line 114 says "Build the semantic runtime once per process
  (fail-closed contract)."; line 54 "one cold load per process, ever".
* **A release that the ticker overwrites** (`aebs_undone`). `onTick` reads `RESTORED` on
  the ticker's thread and writes `MONITORING` a moment later
  (`VisualizationStateReducer.java:125-128`); a frame reduced on the UI thread in
  between shows `RELEASED`, which is then gone until the next frame. It can also
  read `RESTORED` before the hold is written, so that it takes an old hold for
  the new one. The reducer "mirrors the SysML VisualizationPresentationMachine
  exactly" (line 10), which leaves released for stale and invalid only
  (`aebs_visualization_functional_architecture.sysml:245-249`).
* **A site that is called current and is not** (`viewer_current`). The newest time of
  the files that exist (`tools/sysml_html_viewer/serve.py:286-309`) does not rise when
  a file is deleted, renamed or written with its old time.
  `ensure_worktree_current` then returns True for the old pages; line 317 says
  "Returns True when the served site is current (after any rebuild)." Questions
  about elements have the same end (360).

Found by reading and by counterexamples to stronger forms of the properties,
described here without a run of their own:

*Relay.*
* `Run` reads `core_.exit_code()` (`relay/src/shell/relay_shell.cpp:436`) before the last
  drain of the mailbox (:439). A loss posted between the last drain of the wait
  and its end is handled only there: the relay is joined and exits with 0.
  `relay_main.cpp:11-15` says a lost client ends the relay with code 4.
* The main thread goes on handling events after `core_.Stop`, and a `kSubscribed`
  that was posted before starts a phase again, with the old client.
  `relay_shell.hpp:17` says the main thread ends the phase at the stop.
* A full inbox drops `Disconnected` too (`gateway_worker.cpp:103-107`). The client is
  then never lost; `gateway_worker.hpp:34` says it is. The inbox holds 64, so it
  takes a library call that does not return and many notifications.
* `End` overwrites the one slot (`gateway_worker.cpp:63-65`), so a return can be lost
  to a later stall; `gateway_worker.hpp:141` promises each. It costs one log line.
* `relay_core.cpp:309` says that no trigger of the ingress follows the first client
  in this process; `RearmIngressTrigger` (:318-326) gives one after a failed write.

*Deployment.*
* `deployment/README.md:114-130` says that Caddy is started only after the new status was
  published. The Ask workflow (line 230) and its rollback (line 312) start it
  whatever was published; so `OpenMeansPublished` speaks of a proxy that `deploy.py`
  opened.
* A build that fails is said to be refused "while the previous stack still
  serves"; the checkout was replaced before.
* A fresh host has no `ask-viewer.env`, so its first API deploy fails when it
  recreates the viewer, with the proxy down. `RedeployRecovers` excludes it.
* A project that a failed import left stays in the list of the API. An Ask redeploy of
  the same revision may keep a container that is mounted on a backup which is
  then deleted. The rollback also runs when only the clean-up after a successful
  verification failed.

*Viewer.*
* `build_repo_index` (`repo_guide.py:259-300`) asks for HEAD after it has read the
  files. When HEAD moves while they are read, the old text is recorded under the
  new revision, and answers cite a revision that they were not read from; the
  docstring of `index_is_current` (317) says "True when the index exists and was
  built from the checkout that is on disk now".
* The index page, whose time is that of the site, is written before the other
  pages. A build that raises in between returns False once; the next request
  finds the new index page, is told True and serves old pages until the next
  edit; `serve.py:319` says that an edit "is picked up on the next page request".
* The grounding's time is taken after the parse (`serve.py:362-364`). An edit during
  the parse is kept as if it had been parsed, and is not seen until the next one.
* A site or a grounding of another branch is built once and does not follow the
  branch.

*Coordinator and display.*
* Nothing is published, not even a braking command, before the first nominal
  command (`Publish`).
* `FrameValidator` (313-319) and `validator.cpp` refuse a negative bearing;
  `VISUALIZATION-CONTRACT.md:89` counts bearings counter-clockwise positive. A
  target to the right then makes the display stale.
* `RESTORED` ends with the next frame, so its hold of 2 s practically never ends
  it. The streak of valid frames is counted in live states and not reset by
  `onStale` (`VisualizationStateReducer.java:75-77, 106`): once two frames have come to a
  live display, the first one that finds it stale restores it. The comment of the
  test at `VisualizationStateReducerTest.java:103`, "Frames during stale do not
  immediately restore.", holds only when the streak begins anew.
* After a restart of the bridge its frames are taken for replays until the sequence
  has passed the old one. A rejected frame is only logged.

*Feature configuration.*
* `derivation-ambiguous` is never given once the integrity of the tree holds; the tests
  reach it with `_bypassing_static_checks` only.
* The exemption of a displaced common choice "because the feature model has one slot
  there" (the evaluation doc, and the docstring at 1270-1274) is not limited in
  the code to groups with one slot.

*Adapter.*
* An address that is no address for `--frame-host` is only logged
  (`frame_stream_client.cpp:35-40`): the adapter reports ready and has no frames. A frame that is
  too large does not reset the delay of the reconnect. A provider that always
  fills a read keeps a discard open for ever.

## What is not modelled

* **Real time** outside `RetrySchedule` and the ages of the coordinator. Whether an
  attempt or a read is due, the 1 s period of the trigger, the 10 s status, the
  150 ms wait: each is a free choice, so safety holds for all, but nothing is
  said of how long something takes.
* **Relay**: `kDataAvailable` (it only makes a read due), the report lines of stalled
  calls, the start diagnostic, counters that only a log line reads; parsing of the
  wrapper and the prefix, options, the `/proc` look-up of the peer, what the
  client sends, partial writes. All are pure or formatting.
* **Adapter**: options, counters and the status log, the fault hook, the delays of
  the reconnects, the executor, the conversion of a speed (one verdict on a
  sample, `Withheld`).
* **Presentation**: the wire format, the drawing, and the Python watchdog, which only
  tests use.
* **Deployment**: the checks of the bundle (one step that may fail), volumes that
  are reset by hand, the monitor, which only reads.
* **Viewer and Ask**: what a page, an index or an answer says; static files.
* **Feature configuration**: parsing of the element graph, several trees in one
  export, names and texts, receipts.
* **Vehicle speed and broker benches**: test drivers, converters and collection of
  evidence around the components above.
* **Semantic evaluation and the SysML API client** (`de4sdv/semantic/`, the largest
  part of the code): sequential functions from an export to a report, whose state
  ends with the call. A model of them would repeat them.
* **Scripts, model text, documents and tests.**

## Plan

1. Of the actions that are one free choice today, those whose failure has several
   places in the code: the checks of the bundle in `Deployment`, the fault signal
   and the delays of the adapter on a clock.
2. Proofs of what the added parts need, in the proof module of their component.
3. Of the evaluators in `de4sdv/semantic/`, those whose result is defined by a fixed
   point (traversal, remedies), as algorithms against a reference definition.
