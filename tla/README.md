# A TLA+ development of ratatoskr-telegram

ratatoskr-telegram is the Telegram front end of Ratatoskr. Two processes, the
*webhook* and the *dispatcher*, share one PostgreSQL schema (`schema.sql`), and
talk to the Telegram Bot API, to Platform (HTTP and server-sent events) and to
NATS JetStream. Nearly every promise the program makes lies between two
transactions of different tasks, or on either side of a crash. This directory
models those tasks, checks them with TLC and proves with TLAPS every safety
property that the runs check, but for the one of the stream parser: of the
outbound queue, the operation projection and the two put together, the update
ledger, the repository dialogue, the notifications, the access gate, the rate
limiter, the blob store, the library reads, the captures' links, the Platform
sessions and the process lifecycle.

Paths below are relative to the repository root. `PROJECT.json` lists the runs,
the source lines of every definition, the hazards with their lines, the mutants
that show each property can fail, and the theorems.

## 1. The system

### Components, their state and their operations

| Component | Source | State | Operations |
|---|---|---|---|
| Admission and ledger | `services/webhook/src/intake/{admit,worker}.rs`, `crates/persistence/src/{updates,capture_projection}.rs` | `telegram.updates` (state, attempts, lease, payload, next attempt), a channel of wake-up hints | admit, claim, enter processing, decide, submit, project, reply, refuse, settle, defer, recover |
| Repository dialogue | `services/webhook/src/intake/github.rs`, `crates/persistence/src/{dialogues,dialogues/*,interaction_cleanup}.rs` | `telegram.dialog_states`, callback tokens | preview, select, prompt, decide, resume, submit, complete, clean up |
| Notifications | `services/dispatcher/src/notifications.rs`, `crates/persistence/src/notification_{delivery,preferences}.rs`, `services/webhook/src/intake/settings.rs` | preferences with a version, decisions, transport evidence, the durable consumer | fetch, reject, admit, answer; read and write a setting; follow the job |
| Operation projection | `services/dispatcher/src/{follow,build}.rs`, `services/dispatcher/src/projection/consumer.rs`, `crates/persistence/src/{projection_accept,inbox}.rs` | bindings (terminal, watermark, revision), inbox, followers with cursors, a bounded feed | scan, open, pump, give up, confirm, accept |
| Outbound queue and sender | `services/dispatcher/src/outbound/`, `crates/persistence/src/outbound_*.rs`, `crates/persistence/src/message_bindings.rs` | `telegram.outbound_jobs`, message bindings, the sender's step, requests on the wire | enqueue, quarantine, claim, downgrade, request, acknowledge, settle, follow up, recover |
| Process lifecycle | `crates/http/src/`, `services/*/src/**/build.rs` | readiness facts, tasks, the pool, the admission fence | start, roll back, drain, close, abort, exit |
| Rate limiter | `services/dispatcher/src/outbound/{limiter,clock}.rs` | a token bucket, per-chat gaps, pauses | acquire, put off, penalise |
| Sessions | `crates/platform-api/src/session.rs`, `crates/http/src/identity.rs` | a credential cache and its lock, `identities.internal_user_id` | look up, exchange, bind the user, drop a rejected credential |
| Access gate | `services/webhook/src/intake/access.rs`, `crates/persistence/src/bindings.rs` | identities, chats, chat bindings and their policies | bootstrap the owner, look up, ensure, bind, enable, disable |
| Captures and links | `services/webhook/src/intake/{capture,intent}.rs`, `crates/persistence/src/{capture_projection,interaction_tokens}.rs` | operations by key, owner tokens, bindings, acknowledgements | submit, project, offer in a render, open, clean up |
| Library reads | `services/webhook/src/intake/library.rs`, `crates/persistence/src/interaction_tokens.rs` | read tokens | render a page with its tokens, present one, ask Platform, answer |
| Blob store | `crates/blob-store/src/lib.rs` | staging files, content names, sidecars | store, verify |
| Event stream | `crates/platform-api/src/stream.rs` | a parser's buffer | take a chunk, hand on frames |
| Configuration, telemetry, rendering, deployment | `crates/core`, `crates/telemetry`, `services/dispatcher/src/projection/{event,render,compose}.rs`, `deploy/` | none that changes | |

### How they interact

    Telegram --POST--> admit --insert--> updates <--claim-- worker --HTTP--> Platform
                         \--hint--------------------^  |
                                                       +-- binding, acknowledgement, replies, prompts --+
    Platform --SSE--> follower --feed--> consumer --accept--> edit jobs --------------------------------+
    JetStream --> notification consumer --admit--> decisions + jobs ------------------------------------+
                                                                                                         v
    Telegram <-- request -- sender <-- claim -- outbound_jobs      (settlement, acknowledgement: bindings,
                                                                    dialogues, decisions)

A webhook process runs one worker, a dispatcher one sender, one consumer, one
follower with its streams and one notification supervisor. One dispatcher is
deployed at first; the queue's statements are written for several.

### What is hard

* **The wire.** A request may be applied though its answer is lost, and may be
  applied after its caller's lease has expired. Bot API sends are not idempotent.
* **Leases.** A claim is a lease and not a lock. A stalled holder wakes up and
  writes; whether that is harmless depends on each statement's fence.
* **Two statements, one transaction.** Under READ COMMITTED each statement sees
  its own snapshot: the claim's quarantine and its candidate query, the
  notification's candidate rows and the overrides joined to them.
* **Order.** Renders of one operation come from a resumed stream, wait in a
  queue with retries, and meet a message whose identity is learnt late.
* **Restarts.** Every process may stop between any two transactions, and the
  cleanup pass runs before the first claim of the next one.
* **Races for a row.** Updates of one sender, one link or one token meet in
  `insert ... on conflict` and `for update`, some of them twice.
* **Two clocks.** The queue and the gate count seconds of a wall clock that may
  step; Telegram counts from its own answers.
* **The end of a process.** Four workers, two servers and a prober must stop
  before the pool closes, whatever they are in the middle of.

### What makes each component correct

* Queue: a send is posted at most once; a settled state is true; an ended job
  stays ended; one job of a chat is in flight; an acknowledged render is not
  taken back; every job ends.
* Projection: renders go forward, the terminal one is the last, bursts coalesce,
  no frame is skipped, every operation ends.
* Intake: an accepted update is settled or handed to the operator, a capture is
  announced once, a settled update stays so, and `processed` means done.
* Dialogue: one press decides; what Platform is asked is what the prompt said;
  its result is reported once; rows leave.
* Notifications: one decision for a notification and chat, under the policy of
  the moment; none is lost; a setting changes the field it names only.
* Lifecycle: resources outlive their users, `graceful` means nothing was lost,
  readiness is not claimed wrongly, and a shutdown ends, in order or by a panic.

* Pipeline: the queue treats a render as the projection takes it to, and an
  operation's result arrives and stays.
* Limiter: sends stay spaced, paused and within budget; a job is put off for a
  reason, and past the time at which the gate would refuse it again.
* Sessions: one exchange per need, no rejected credential again, no live one
  lost, and no caller waits for another's binding.
* Gate: who is disabled stays out; a chat is its actor's, with a policy; replays
  pass.
* Links: one acknowledgement and one live token for an operation, an owner while
  it is followed, and a link that works once shown.
* Library reads: one release of a token, for its owner, with a reply that claims no
  more than is known.
* Blob store: a content name holds its bytes, and a reference verifies.
* Stream: the frames are those of the bytes, wherever they are cut, but for a
  character that two chunks share.

PROJECT.json's `hazards` has the lines at which each of these is at stake.

## 2. The modules

| Module | What it is | Runs of |
|---|---|---|
| `OutboundQueue` | producers, senders, the network and time over `outbound_jobs` and the bindings | `MCQueue` |
| `Delivery` | what the queue promises, without claims, leases, attempts or a network | refined by `OutboundQueue` (`ImplementsDelivery`) |
| `OutboundQueueInvariant` | the inductive invariant of the queue | `MCQueue` extends it |
| `OutboundQueueProofs` | the theorems about the queue and about `RenderPipeline` | |
| `ProjectionProofs`, `IntakeProofs`, `DialogueProofs`, `NotificationsProofs`, `LifecycleProofs` | for each component its inductive invariant and its theorems | |
| `InteractionProofs` | the same for `LibraryRead`, `CaptureLinks` and `Sessions`, over `MCInteractions` | |
| `LeavesProofs` | the same for `AccessGate`, `BlobStore` and `RateLimiter`, over `MCLeaves` | |
| `Projection` | Platform's frames, follower, feed, consumer, accept transaction, and the queue at its interface | `MCProjection` |
| `UpdateIntake` | Telegram's deliveries, the ledger, workers, the operator | `MCIntake` |
| `RepositoryDialogue` | the user, dialogue rows and tokens, workers, cleanup, Platform | `MCDialogue` |
| `Notifications` | bus, consumers, settings commands, decisions and their jobs, the clock | `MCNotifications` |
| `Lifecycle` | the main sequence and the tasks of one process | `MCLifecycle` |
| `RenderPipeline` | `OutboundQueue` and `Projection` put together | `MCRenderPipeline` |
| `RateLimiter` | the gate, the jobs it puts off, Telegram's pauses, real time and the clock | `MCLeaves` |
| `AccessGate` | workers checking updates, the operator, start-up | `MCLeaves` |
| `Sessions` | callers, caches, exchanges, the binding of users | `MCInteractions` |
| `CaptureLinks` | captures of links, Platform's operations, owner tokens, renders, cleanup | `MCInteractions` |
| `LibraryRead` | pages, reads, their tokens, Platform, cleanup | `MCInteractions` |
| `BlobStore` | concurrent calls of `store` over a file system | `MCLeaves` |
| `EventStream` | the bytes of a stream, their chunks and the parser | `MCLeaves` |

`RenderPipeline` EXTENDS the queue and INSTANCEs the projection over the queue's
rows. The others stand alone and meet at the tables they share; where one module
takes another's part as given, its header says so. `MCInteractions` puts three modules
that share no variable together, and `MCLeaves` four: a variable `part`, chosen at
the start, says which of them runs while
the others rest. Every behaviour of their composition is, for each of them, one
of these with stutters, so nothing is lost to a property of one of them. The
theorems about one of them are about its own specification (`C!Spec`, `S!Spec`,
`B!Spec`, `R!Spec`), without `part`.

One transaction is one action unless its statements see different states; then
it is one action per snapshot. An await on the network, and each point where a
process can stop with something done and something not, separates actions.
Crashes, stalls, storage errors and lost answers are actions that spend a unit
of `faults`. Mutants of single definitions stand beside them, named so.

### OutboundQueue

`row`, `kind`, `state`, `attempts`, `due`, `lease` are the columns of
`outbound_jobs`; `due` stands for `next_attempt_at <= now` and `lease` for
whether `lease_expires_at` is in the future. `aged` holds the notification jobs
old enough for promotion. `bound`, `message`, `rendered` are the columns of
`message_bindings`. A sender's `pc` walks through `claim_due_outbound_job`
(`BeginClaim` is the quarantine statement and the snapshot of the candidate
statement, `FinishClaim` the locked re-check and the update), `process_send` and
`process_edit` (`Resolve`), `prepare_outbound_method` (`Prepare`), the call
(`flight`, `Receive`, `LoseAnswer`), `record_outbound_acknowledgement`
(`Acknowledge`), `settle_outbound_job` (`Settle`) and the writes after a
settlement (`FollowUp`). `shown` is the chats' messages: which job created one
and whose content it has. `LateDelivery` chooses whether a request may be
applied after its sender has given up.

### Projection

`log` is what Platform publishes; an event is a position in it. `follow`,
`cursor` and `closes` are `follow_one` and `pump`, `feed` the bounded channel,
`Judge` and `Record` are `accept_operation_event` with its early returns
(`Seen`, `Refused`, `Assigned`, `Swept`). `SenderTakes`, `SenderRetries`,
`SenderEnds`, `SenderRecords`, `Quarantine` and `QueueRest` are what the queue
does with its edits, seen from outside: `OutboundQueueProofs` proves that the queue
does nothing else. `Quarantine` is the claim's first statement, which ends
downgraded edits of any operations at once. `dropped` remembers events whose accept failed. A frame's time may repeat and does not
decrease in a stream.

### UpdateIntake

`Admit` is `admit_ordered` with its answer, `AdmitUnanswered` the delivery that
Telegram will repeat. A worker's stages are those of
`process_one_with_recovery`. A capture keeps its steps (`SubmitAccepted`,
`SubmitRefused`, `SubmitExhausted`, `Project`, `ProjectFails`); every other
supported update is one reply. `answered` is what a worker has learnt of
`operations`, Platform's side. `RowAllowed` is the CHECK constraint of the
schema on leases, part of the type invariant. `RecoverStuck` is
`deploy/sql/recover-stuck-update.sql` with the three outcomes it reports.

### RepositoryDialogue

A dialogue `row` has a step, a lifecycle, a version, the message it is bound to
and the releasing update; tokens are `live`, `consumed` or gone. `Select`,
`Prompt`, `Decide`, `Submit`, `Report` are the transactions and calls of
`github.rs`; `Refusal` and `Resumes` are the checks of `validate_callback` and
`recover_consumed_confirmation`; `Show` and `Acknowledge` are the sender's part,
which may come late. `Cleanup` is the pass of `interaction_cleanup.rs`, in its
three statements' order.

### Notifications

`Select` takes the candidates' snapshot and `Commit` runs once the rows are
locked: the locked preference is current, the joined override is the one of the
snapshot. `Decide` is the gate of `admit_notification` and `Releases` is
`release_time`, on a day of `Day` instants with windows over midnight. A
settings command reads (`ReadSetting`) and writes under the version it read
(`WriteSetting`). `Claim`, `Acknowledge`, `Settle`, `Quarantine` are the sender's
writes to a decision's job, with the decision in the same transaction.

### Lifecycle

`phase` is the main sequence of `run_with_background` and `drain_and_close`,
`stage` where each task stands. `Prepare`, `StartBackground`, `StartPublic`,
`StartAdmin` succeed or fail into their cleanup; `Signal`, `CloseServers`,
`Await`, `AllDone`, `GraceExpires`, `AllReaped`, `StopProber`, `ClosePool`, `Exit`
are the end. `wait_for_all` awaits its handles in a fixed order and keeps no record of
those that have completed, so `awaited` says whether the grace window has taken one
(`Await`): a second wait (`AllReaped`) is possible only if it has not, and otherwise
`Panic` polls a completed handle and takes the process down with what still runs in it
(`DropTasks`). `Lock` and `MayAdmit` are the admission lock and the check under it;
`Seal` is the task of `request_shutdown` that waits for the lock's writers.

### RenderPipeline

`row` with a revision is an edit of `Projection`, its payload the frame in
`event`; `EditState` maps the states of a row. `Accept` is one transaction:
`Projection`'s `Judge` and `Record` together with the queue's `Insert` and its
sweep. `Restart` stops follower, feed and sender at once. A row recovered by the
operator repeats a render and is none of its own. `ImplementsProjection` is
`P!Spec`: every step of the composition is a step of `Projection` or leaves it
alone.

### RateLimiter

`now` is real time in whole seconds, `Clock` the wall clock that `back` has set
back. `Passes`, `Wait`, `Defer` are `try_acquire` and the settlement of a denial,
with its attempt (`PutOff`); a pause is computed from the clock before the call
(`start`), and the refused job's own delay from after it. The bucket holds one
send and is full whenever the second has changed, as the code's comments say of
its quantization: at most one send passes in a clock second, whatever
`global_per_second` is set to. `last = Never` is a chat not yet written to.

### AccessGate

A worker's `pc` is the statement it comes to in `authorize`, `ensure_chat` and
`bind_private_chat`; `inserted` is a row of a transaction that has not committed,
for which another insert of the same chat waits. `decided` and `allowed` are
history: the operator's last word, and which of a worker's principals have been
enabled at some time since it began. `Boot` inserts the owner.

### Sessions

A caller walks from a look at the cache through the lock's queue, the second
look, the exchange, the insertion and the hook to the use of a credential; a
rejection sends it round once more. The lock is fair in Tokio; here it is taken
by anyone in the queue. A credential is the number of its session.

### CaptureLinks

A capture is one execution of a worker for one update: `Submit` under the key of
its link, `Record`, `Commit` and `Rollback` as the transaction of
`record_accepted_capture_projection`. `Look` and `Project` are the consumer's two
steps, the token read outside the transaction that enqueues it. One sender in one
private chat: who may open a token is in `LibraryRead`, for the same table.

### LibraryRead

A page asks Platform, then stores its message and its tokens in one transaction.
A read opens a session, resolves its token (`Usable`), and sends up to
`Attempts` requests, each of which stays on the `wire` until it is applied or
dropped. Platform, or what stands before it, may answer with an error a request that
was applied (`Applied`) as well as one that was not (`NotApplied`); `Denied` is what
the code makes of an error, and `Onward` of an attempt that came to nothing. `unsure`
is the loop's `uncertain`, `misled` the reads whose applied request was answered with
an error. A crash cuts a read, and the update's next claim is another read.

### BlobStore

A file is the call that made it, so a hard link and a rename differ only in which
names lead to it; its digest is the bytes it holds. Each await is a step, and a
call may be cut at each. A sidecar is created empty before it is filled. The removal
of a staging file may be refused and its failure is ignored (`Remove`); `stuck` are the
calls it happened to.

### EventStream

Bytes come one chunk at a time, are decoded by the chunk and cut into frames at
the first blank line; the reference `FramesOf` reads the whole response line by
line. The event name and id lines of a frame, and a bare CR as line ending, which
Platform does not send, are left out.

## 3. The runs

Work, faults and counters are bounded, and when they are used up the modelled system
may rest, so no run checks deadlock; liveness properties say what must have happened
by then.

| Run | Instance | Properties |
|---|---|---|
| `queue_late` | one sender, one chat, one operation, two jobs, two revisions, two attempts, one fault, late delivery, fair | `IInv`, `OneInFlightPerChat`, `ImplementsDelivery`, `EveryJobEnds` |
| `queue_replicas` | two senders, two chats, two replies or notifications, two attempts, one fault, late delivery | `SendAtMostOnce`, `SettledTruthfully`, `FinalIsFinal` |
| `queue_downgrade` | two senders, one chat, one operation | violates `SendAtMostOnce` |
| `projection` | two operations with two frames and one, one stream slot, a feed of one, two lost streams or restarts, one failed accept, fair | `RendersFollowTheLog`, `PassedFramesAccountedFor`, `OperationsEnd` |
| `intake` | two updates (capture and reply, or unsupported and unreadable), two workers, one hint, two attempts, two faults, fair | `TypeOK`, `AnnouncedOnce`, `ProcessedIsDone`, `RecoveryBound`, `SettledStaysSettled`, `UpdatesEnd` |
| `dialogue` | one dialogue, two modes, three presses in four scripts, two workers, one fault, fair | `DecisionIsCarriedOut`, `DialoguesEnd` |
| `notifications` | one notification raised twice, or beside an unreadable envelope, two settings commands, two consumers, a day of three instants, fair | `RecordsAgree`, `DecidedByThePolicy`, `NotificationsConclude` |
| `lifecycle` | both roles, every failing start-up step, hanging units, a second signal, fair | `PoolOutlivesOwned`, `GracefulIsWhole`, `NothingAdmittedPastFence`, `ReadyIsServing`, `ShutdownEnds` |
| `lifecycle_panic` | the same | violates `ShutdownClosesPool` |
| `pipeline` | one operation with two frames, three rows, two attempts, one mishap of any kind, one row that needs a second attempt, late delivery, fair | `ImplementsProjection`, `RendersStay`, `ResultsConclude` |
| `interactions` | library: one page, two reads, two actors, two users, tokens of one tick, two attempts, two faults; links: two captures, two links, three tokens, two faults; sessions: two callers in one process, four sessions of two ticks, one fault; fair | `TokensAreKept`, `LinksAreKept`, `SessionsAreOwn`, `CacheIsKept`, `AuthoritiesLeave`, `ExchangesEnd` |
| `leaves` | access: two senders, a private chat and a group, three workers, two changes by the operator, one fault; gate: two chats, three jobs, three attempts, four seconds, a step back of up to two, one 429 or lost answer; store: three calls, two documents, one over the budget, two faults; stream: every response of up to six bytes in every chunking | `AccessIsAsDecided`, `ChatStaysBound`, `GateIsKept`, `StoreIsKept`, `StreamIsRead` |

Some properties are conjunctions of named parts, each stated and commented where
it is defined:

| Property | Parts |
|---|---|
| `RendersFollowTheLog` | `TypeOK`, `RendersInOrder`, `TerminalRenderIsLast`, `OneFreshRender` |
| `DecisionIsCarriedOut` | `TypeOK`, `OneDecision`, `SubmittedAsPrompted`, `ReportedOnce`, `BoundToCurrentMessage` |
| `DialoguesEnd` | `DialoguesLeave`, `PressesEnd` |
| `RecordsAgree` | `TypeOK`, `DecisionTracksJob`, `AnsweredLeftATrace` |
| `DecidedByThePolicy` | `DecidedOnce`, `GovernedByPolicy`, `SettingsChangeWhatTheyName` |
| `AccessIsAsDecided` | `TypeOK`, `OperatorDecides`, `DisabledIsRefused`, `AdmittedOwnsTheChat`, `BoundHasPolicy`, `ReplaysAreAdmitted` |
| `RendersStay` | `AcknowledgedRenderStays`, `ResultStays` |
| `TokensAreKept` | `TypeOK`, `OneRelease`, `ActsForTheOwner`, `RepliesTruthful`, `OffersHonoured` |
| `LinksAreKept` | `TypeOK`, `OwnerWhileFollowed`, `OneLiveIntent`, `OneAcknowledgement`, `ShownLinkHolds` |
| `SessionsAreOwn` | `TypeOK`, `OwnSession`, `RejectedStaysOut` |
| `CacheIsKept` | `ExchangedOnNeed`, `OnlyDeadIsDropped` |
| `AuthoritiesLeave` | `TokensLeave` of the library, `LinksLeave` of the captures |
| `GateIsKept` | `TypeOK`, `BudgetIsEarned`, `ChatsSpaced`, `CooldownKept`, `PutOffForAReason`, `DelayCoversTheGate` |
| `StoreIsKept` | `TypeOK`, `ContentIsWhole`, `ReturnedVerifies`, `StagingIsSwept` |
| `StreamIsRead` | `TypeOK`, `FramesOfTheBytes` |

Every module's type invariant is checked or proved: `intake` checks its own, `IInv`
contains the queue's, the tables above name the others', and that of `Lifecycle`
is a theorem.

### Why the bounds are enough

*Queue.* The hazards need one job and one that competes with it; the sweep needs
three renders (acknowledgement, older, newer), which `pipeline` has. Attempts matter at the limit and
below it, which two reach. One fault separates a stall, a crash and a lost
answer from the run without it, and leases may expire under a live holder in any
number of claims. Two senders are what overlapping claims need; a third would
only repeat a claim.

*Projection.* Two operations on one slot make a follower wait; a feed of one
makes `pump` block between the cursor and the feed; two faults let a redelivery
follow a restart. Times 1 and 2 give equal and increasing stamps.

*Intake.* Two workers overlap only through an expired lease, which two attempts
allow; two faults let the second attempt fail as well. Captures share nothing
with each other, so one of them beside a reply is enough.

*Dialogue.* Two modes tell a wrong choice from a right one, three presses are a
selection and two decisions that race (Confirm twice, Confirm and Cancel, a
second selection). Two workers hold the same press through an expired lease.

*Notifications.* A day of three instants has a window inside the day and one
over midnight. Two settings commands of different fields overlap. Two consumers
hold the same event.

*Lifecycle.* One process has one of each task; the feed of one is full and
empty. Nothing else is bounded.

*Pipeline.* Three rows are the acknowledgement, the progress render and the
result, or a result and a recovered send; two frames are one that can be late
and one that is final. A mishap is a lost answer, a stall, a restart, a lost
stream, a failed accept or a recovery, one in a behaviour: `queue_late` and
`projection` have more of them for each part. One row at a time is put off or
tried again, and which one is free; `queue_late` has both rows retried. Platform
publishes both frames before anything else moves: to the follower a frame that is
not published and one that waits on the stream look the same. The rows have room
for a recovered one beside the result only, so a recovery comes after it. Two
operations meet in `projection`.

The network delivers late there, so edits that nobody waits for do land on newer
renders: `RendersStay` without the exception for them is violated on this instance.

*Limiter.* A second is ten units and the gap twelve, the deployed 1.2 s, which is
what makes rounding matter. Three jobs for two chats let one be put off by its
chat and by the bucket, twice each. The chats differ in name only, so the first job's
is given.

*Access.* Two replays and one stranger race for a chat; two changes are a disabling
and what follows it. Groups have no rows, so one suffices.

*Sessions.* Two callers are one that exchanges and one that waits for it, or that
comes back with a late rejection. Sessions live two ticks with a margin of one:
fresh, stale and dead are different.

*Links, library.* Two captures race for one link, or make tokens of different
operations meet in one pass. Two reads are the owner twice, or the owner and
somebody else; a token is live, expired and removed within two ticks. A pass of
one row leaves some behind. In `interactions` and `leaves` initial states that
differ in the names of actors, users, chats or calls only are taken once:
nothing in the modules tells one from another. A component that rests does so in
one of its initial states.

*Blob store.* Two calls race for a name and a third comes later; a budget of
three chunks is met, and exceeded by one.

*Stream.* Six bytes hold a frame with its line endings, or two short ones; a
split inside a line ending, a blank line, a character or a data line is each
among the chunkings.

### Fairness

* Senders and workers: weak fairness of their next step. They poll until the
  process is told to end (`run_until_shutdown`, `run_worker`) and start again
  with the process. Faults are not fair: they may happen or not.
* Time: retries become due and leases nobody renews expire. A lease may also
  expire under its holder, but need not.
* Platform publishes an operation's frames, the follower scans every five
  seconds, the consumer drains the feed, the notification supervisor reopens its
  stream, the cleanup pass runs each minute.
* In `queue_late` the network is not fair: a request may be lost, and the caller
  gives up.
* `RenderPipeline` has the fairness of both its parts.
* `LibraryRead`, `CaptureLinks`: the cleanup pass runs each minute and time goes
  on. Nothing else is fair: an update may be left for ever.
* `Sessions`: an exchange that has the lock ends, as its request has a timeout
  (weak), and the lock, which is first come first served, is had in the end
  (strong). Nothing is assumed of the hook, which is the point of `ExchangesEnd`.
* Lifecycle: only the main sequence moves on and an aborted task is dropped at
  its next suspension point. No unit of work is assumed to end.

### What the violations show

Both are disagreements between a sentence of the repository and its code
(`PROJECT.json`, `findings`).

`queue_downgrade`: an edit whose message is missing is downgraded
to a send under a fence of state and attempt, not of the lease. A stalled sender
may do so between another claim's quarantine statement, which saw an edit, and
its candidate statement, which takes the row: both post it. It takes two
dispatchers, or an old one that still runs beside its replacement.

`lifecycle_panic`: when the grace window expires, or a second signal cuts it short,
`drain_and_close` aborts and waits again (`crates/http/src/shutdown.rs:156`) on the same
handles. If the first wait had taken one to its end, the admin server's for one, the second
polls a completed `JoinHandle`, which panics. The process leaves with tasks unjoined,
the prober running and the pool open, and not by step 9 of `lib.rs:78`. One unit of work
that hangs is enough. `PoolOutlivesOwned` therefore says of a pool that is closed that
nothing uses it, and not that it is closed.

## 4. The proofs

### The outbound queue

The first part of `OutboundQueueProofs` proves of the queue alone, with tlapm and
for every set of chats, operations and senders, every number of jobs, attempts and faults, and both values of
`LateDelivery`:

| Theorem | Statement | Assumes |
|---|---|---|
| `TypeCorrect` | `Spec => []TypeOK` | |
| `EndedStays` | `Spec => FinalIsFinal` | |
| `Invariance` | `Spec => []IInv` | `NoDowngradeRace` |
| `AtMostOnce` | `Spec => []SendAtMostOnce` | `NoDowngradeRace` |
| `Truthful` | `Spec => []SettledTruthfully` | `NoDowngradeRace` |
| `OneInFlight` | `Spec => []OneInFlightPerChat` | `OneSender` |
| `Implementation` | `Spec => ImplementsDelivery` | `NoDowngradeRace` |

`ConstantsAssumption` types the constants. `NoDowngradeRace` is
`OneSender \/ Operation = {}`: one sender task, as deployed, or any number of
them and no job that is an edit. It is needed exactly because of the finding
above: with two senders and an edit the invariant fails, as `queue_downgrade`
shows.

`SendAtMostOnce` is not inductive: nothing in it says why a retry is safe. `IInv`
adds the reasons.

* `CleanJobs`: a job that waits, was withdrawn or has failed, and an edit whose
  lease may expire, has no message and no send on its way. This is what makes a
  claim, a retry and a downgrade safe.
* `CleanHolders`: the same of the job of a sender that may still give it back.
  It is stated of current claims only (state and attempt), because a stale
  holder's settlement does nothing.
* `SnapshotOfEdits`: the snapshot of a claim holds no expired send. The
  quarantine established it; no other sender may falsify it before the claim
  ends.
* `SingleSend`: of a job at most one send is on its way, none once it is posted.
* `KnownSuccess`, `SentApplied`: a success that a sender has seen, or a row that
  says `sent`, is a render Telegram applied.
* `Stages`, `AbsentRows`: which variables carry meaning at which stage.

Two more invariants are proved separately and used in the step, one for each
branch of `NoDowngradeRace`. `Fenced`: the attempt a sender holds is never ahead
of the row's, so a later claim outdates it. `NoEdits`: with no operation there is
no edit, neither in a row nor in a plan. Each action of `Next` is a step of
`StepInv`, and each conjunct that it can disturb a step below; insertion and
giving up a claim, which several actions share, are lemmas (`InsertInv`,
`IdleInv`, `QuietWire`).

`OneInFlight` needs `SnapshotOfFreeChats` beside `IInv`: the chats of the rows that
a claim's candidate statement saw stay free until the claim ends. That is so
because nobody else claims. `OneSender` is needed: with a second sender the
property fails (section 5).

`Implementation` maps a row to `Delivery`'s `Status` and `Posts` and shows, action
by action, a step of `Delivery` or a stutter (`MapStep`). Most steps move
nothing that `Delivery` sees. The two that need more than `IInv` are a post by
Telegram and a settlement as sent, and they need `OpenRequests`: a send on its way
belongs to a row that is not yet `sent`, and a sender that has seen a success has
no send left in flight. The theorem is about safety: `Delivery` states no fairness.

`queue_late` checks `IInv` under the first branch of `NoDowngradeRace`;
`queue_replicas` checks `SendAtMostOnce` under the second.

### The pipeline

The second part of `OutboundQueueProofs` is about the queue and the projection put
together (`RenderPipeline`):

| Theorem | Statement | Assumes |
|---|---|---|
| `PipeInvariance` | `PipeSpec => [](QInv /\ FollowInv)` | |
| `QueueImplementsProjection` | `PipeSpec => ImplementsProjection` | |
| `RowsFollowTheLog` | `PipeSpec => [](P!RendersFollowTheLog /\ P!PassedFramesAccountedFor)` | `P!ProjectionAssumption` |
| `ShownRendersStay` | `PipeSpec => RendersStay` | `OneSender` |

Beside `ConstantsAssumption` they use `PipelineAssumption`, which types
`MaxFrames`. The refinement holds for any number of senders and either value of
`LateDelivery`: the downgrade race posts a render twice, and ends its row once.

*The refinement.* An operation's edits are its rows in the order of their
revisions, as `Edits` reads them. `RendersNumbered` makes this a sequence:
revisions run from 1 on, each once, because `next_revision` is the maximum plus
one under the binding's lock and a recovered row takes no number of its own
(`RecoveredAreUnknown`). `OperationsBound` lets a row be looked for in its
operation only. `FreshAreEdits` is about the sweep: a row never attempted is still
an edit, so the sweep of the queue (by kind) and that of the projection (by state)
take the same rows. `RecordsOfSent` says that a revision recorded after a
settlement belongs to a row that is settled. On the projection's side
(`FollowInv`) events that are fed or judged have been published, and two renders
show two events.

Each action is then mapped by itself (`DeliverMaps`, `AcceptMaps`, `PipeMaps`).
What touches no row of an operation is a stutter
(`UNCHANGED Edits`); a claim is `SenderTakes`, a settlement `SenderRetries` or
`SenderEnds`, an acknowledgement `SenderEnds` with the revision recorded or
`SenderRecords`, an accept `Judge` and `Record` with the queue's insertion and
sweep as one new sequence. One step was missing from `Projection` and the proof
found it: the quarantine of `BeginClaim` is one statement over all expired sends,
and several of them may be renders, of the same or of several operations, which
no single `SenderEnds` is. `Projection` has `Quarantine` for it since, and its own
theorems cover it (`QuarantineKeeps`).

*What follows.* `RowsFollowTheLog` carries the projection's two theorems over to
the rows of the real queue: `SameProjection` shows that the instance in
`RenderPipeline` and the one its proofs are about are the same. The run `pipeline`
satisfies `P!ProjectionAssumption`.

*What is shown.* `RendersStay` is an action property about Telegram's messages: an
acknowledged render gives way to later ones only, and a result to none, except in a
step in which Telegram carries out an edit nobody waits for (`LateEdit`). That
exception is the code's: an edit whose answer is lost is retried, or overtaken by a newer
one, while the first may still be on its way, and nothing in it tells Telegram which is
newer. `TypeOK` and the rows say nothing about messages; `WInv` adds the wire.
`EditsOwn`: every edit on the wire, awaited or late, is a render of the operation whose
message it names, so a late one never puts another operation's content there.
`EditsNewer`: an edit that is prepared or awaited is of the message of its own operation
and newer than what that binding has recorded; with one sender nobody can record
anything between, also when older calls are still under way. `MessagesOwn` and
`PostsOwn`: a binding's message shows a render of its operation. `ResultIsLast` then says
that a later render than the result does not exist. `OneSender` is what is deployed, and
needed: a second sender may record a newer render while an edit is awaited.

### The update ledger

`IntakeProofs` proves, for every set of updates and workers and every bound on
hints, claims and faults, all safety properties of the `intake` run:
`TypeCorrect` (`TypeOK`, the schema's constraint in it), `Announced`
(`AnnouncedOnce`), `Processed` (`ProcessedIsDone`), `Bounded` (`RecoveryBound`)
and `Settled` (`SettledStaysSettled`). They assume `IntakeAssumption` only: some
update exists, and the bounds are numbers.

`settle_update` has no fence, so nothing can be said of who owns a row. What
carries the proof is in the workers: `StageFits` (a stage belongs to what the
update asks for, and a projection follows an answer) and `VerdictFits` (a worker
about to settle has an end or a retry, and `processed` only with the work done).
Whatever late worker writes then, it writes an end (`WriteRow`), never takes over
a row without a payload (`HoldRow`), and gives back only a row that is being
processed (`Defer`). `AbsentUnclaimed` starts the bound on claims.

### The operation projection

`ProjectionProofs` proves, for any operations and every bound on frames, streams,
feed and faults, the two invariants of the `projection` run: `Follow`
(`RendersFollowTheLog`) and `Accounted` (`PassedFramesAccountedFor`). They assume
`ProjectionAssumption` only, which types the constants.

The accept transaction compares an event with the watermark, the terminal flag
and the inbox, and never with the renders that are in the queue. What connects
them is `RendersJudged` (a render shows an event that is in the inbox, and the
watermark is not behind it), and `LogsFit` (times do not decrease in a log and
nothing follows a terminal frame), so that an accepted event that is new and not
older than the watermark is ahead of every render. `EventsPublished` keeps
feed, inbox and cursors within the log. `FollowedAreBound` is for the other
theorem: the consumer ignores what has no binding, so no cursor may have moved
there. Accepting an event is proved once for the renders and once for the feed,
from what `Judge` and `Record` leave (`Renders`, `Feeds`).

### The repository dialogue

`DialogueProofs` proves `CarriedOut` (`DecisionIsCarriedOut`) for any dialogues,
modes, presses, workers, claims and faults. `DialogueAssumption` says that a mode
is none of the two decisions, that `None` is no message, and types the rest.

No check of a press reads what was done with an earlier one, and the prompt's
text is written by a worker that may have been overtaken. The invariant keeps a
dialogue, its two messages and its accounts in step: `RowInStep` (the step tells
the version, a cancelled dialogue was confirming), `PromptInStep` (a step is left
through its acknowledged message only, and the prompt names the row's mode),
`DoneInStep` (the action belongs to the update in the row, Platform was asked for
the row's mode, and both only past the confirmation), `BoundInStep`. `PromptInStep`
is why a late acknowledgement cannot bind a dialogue to its earlier message.
`WorkerInStep` carries this over a worker's awaits: one that prompts finds the
mode it selected, and one that submits or reports a confirmed dialogue, because
no dialogue goes back (`Forward`). Refusals, expiry and the cleanup are one lemma
(`RetireKeeps`): they end a dialogue and take tokens, and leave what was done.

### The notifications

`NotificationsProofs` proves `Agree` (`RecordsAgree`) and `ByThePolicy`
(`DecidedByThePolicy`, an action property) for any events, chats, commands and
consumers and every length of the day. `NotificationsAssumption` types the
constants; an event exists, for a consumer's register to hold.

`AnsweredLeftATrace` needs `AnswersEarned`: a consumer acknowledges what is in the
inbox and terminates what has evidence; and `TracesKept`, for the envelope that
another consumer has admitted. `ClaimsCounted` keeps a job's attempts within their
bound. `ReadsVersioned` is the fence of a settings
command: a version that has not moved vouches for the policy that was read, so the
write changes the named field of the current policy. For `ByThePolicy` the release
time of a quiet window is proved to be the first instant outside it, over midnight
or not, by arithmetic modulo the day (`ArcIsQuiet`, `QuietEnds`, `ReleaseFits`).

### The access gate

`LeavesProofs` proves `Decided` (`AccessIsAsDecided`) and `StaysBound`
(`ChatStaysBound`), the properties of the access gate in the `leaves` run, for any senders,
chats and workers and any number of the operator's statements and of faults.
`GateAssumption` says the owner is a sender and that `Nobody` is neither a sender nor a worker.

Every statement of a check reads a state of its own. `ChecksAreFresh` says what
the earlier ones leave to rely on: a principal that was read as enabled was so at
some time since the check began, a chat that was ensured is there. `OwnerIsKnown`:
the owner's row is there before a worker runs. `BindingsAreHeld` and
`InsertedIsFree` are the binding's transaction: past its insert it has the row or
the chat has an actor, and at its commit it sees its sender there.

### The blob store

`LeavesProofs` proves `StoreKept` (`StoreIsKept`) for any calls and documents, any
sizes and budget, and any number of failures and cuts. `StoreAssumption` types them
and says that `NoCall` is no call.

That a name leads to whole bytes is a matter of when the name is made.
`CallsAreWhole`: past its copy a call has the whole document in its staging file, and
past its publication the name is taken, by this call or by one that was faster.
`NamesAreWhole`: what a name leads to is whole, of the bytes it names, and its
writer has done with it, so nobody writes to a file that has a name. A removal that
is refused leaves the staging file and nothing else.
`SidecarIsDue` is for verification: bytes without a written sidecar belong to a
call that is to write it or was cut, and no reference was returned for them by
that call.

### The rate limiter

`LeavesProofs` proves `GateKept` (`GateIsKept`) for any chats, jobs, interval,
pauses, backoff, jitter and number of attempts, and for a clock that steps back by
any amount any number of times. `LimiterAssumption` types the constants; one of its
conjuncts says that a power of two is a number, which TLC evaluates and the
installed provers, that have no powers, cannot.

The gate measures with a clock that is not time. `ClockIsNotAhead`: since a call
the clock has gone no further than real time, so a gap by the clock is a gap;
`PauseIsWhole` says the same of pauses. `TokenIsEarned`: the calls that have
passed, and the token that is there, are no more than the seconds gone by and those
set back. `JobsInHand` and
`CallIsLast` say that the job in hand is claimed and that its call, once made, is
the last of its chat, which is what a settlement relies on. `ClockIsRight` is for
`DelayCoversTheGate`: until its first step back the clock is real time, and tells
what the gate holds against a job.

### The library reads

`InteractionProofs` proves `TokensKept` (`TokensAreKept`, a conjunct of the
`interactions` run's invariants) for any pages, reads, actors, users and items,
any lifetime, number of attempts and size of a cleanup batch. `LibraryReadAssumption`
says these last three are positive and that `None` is no member of the sets.

`RowsMatchPages` and `ReadsOfShown` tie a row to the page that stored it and a read
to a token that was shown. `ReleasedIsUsed`: a token that has released a read is
not live again, and a used one was used by its owner's read; with it at most one
read is released, and the cleanup takes no token its owner could still use.
`SureOfNothing` is about the wire: of a read that does not count itself `unsure`
nothing is under way but the attempt it waits for, and nothing was applied unless its
answer was an error (`misled`). So a lost answer or a late request never makes the reply
claim more than is known. Of "unavailable" the theorem says what the code gives: it may
be said of a read that was applied in two cases, an applied request that was answered
with an error, and a refusal after an attempt in doubt (section 5).

### The captures' links

`InteractionProofs` proves `LinksKept` (`LinksAreKept`) for any captures, links,
operations, tokens, lifetime and faults. `InteractionsAssumption`, which is also
that of the sessions, types the constants and says that `NoUpdate` is no update
and that there is a link.

The transaction that records a capture looks, mints and binds, and the lock on
the operation's row is all that keeps two of them apart. `RowsHeld`: a capture that has
the row knows its operation, and no other has the row meanwhile. `LookedUpHolds`:
what it has looked for under the lock is true until it commits. `TokensAreBound`:
tokens come with the binding, so a capture that finds no binding finds no token.
`OneLive` is then kept by the only statement that could break it. The renders
read a token before the transaction that shows it: `OffersAreOwn` says what stays
true of it in between, that it is a token of the operation that was live and is,
unless it was followed or its time is over (`Kept`), because the cleanup takes
nothing else while the operation runs. `RowsTell` ties a row's columns to its past.

### The Platform sessions

`InteractionProofs` proves `SessionsOwn` (`SessionsAreOwn`) and `CacheKept`
(`CacheIsKept`, an action property) for any processes, callers, users and bindings of
users, any lifetime and margin, and any number of rejections, failures and sessions.

`LockHeld` is the exchange lock: at most one caller of a process is past it.
`Minted`: what a caller holds, has tried or finds in the cache is a session of its
own sender. `InsertIsNew`: an exchanged session is its caller's alone until it is in
the cache, so the insertion replaces nothing that is as new. `TriedIsOut` is why a
rejected credential does not come back: what a caller has tried is in the cache
only before that caller has dropped it, and the drop compares the credential.
`NeedHolds` carries the reason of an exchange, that there was no fresh session, and
of a rejection, that the session is dead, over the awaits: a session never gets
younger (`Older`).

### The process

`LifecycleProofs` proves, for both roles and every capacity of the feed, all
safety properties of the `lifecycle` run: `TypeCorrect` (`TypeOK`), `PoolLast`
(`PoolOutlivesOwned`), `Graceful` (`GracefulIsWhole`), `Ready`
(`ReadyIsServing`) and `Sealed` (`NothingAdmittedPastFence`). They assume
`FeedCapacityAssumption` only.

The invariant says, phase by phase, what the main sequence has brought about and
what the tasks cannot undo: what startup has not reached is absent
(`StartsInOrder`), serving has everything it needs (`Serves`, `WorkersStay`) and
readiness is gone after it (`NotReady`), the pool closes after the tasks and the
prober on every way that closes it, which a panic of the second wait does not
(`ClosesLast`), and nothing is cut or left in the feed until the end is forced
(`Whole`). `FenceSeals` carries the last theorem: a fence that is reached finds
admission closed and no claim under the lock, so a later look under the lock
turns its worker away.

### What only the model checker shows

* Everything under fairness (`EveryJobEnds`, `OperationsEnd`, `UpdatesEnd`,
  `DialoguesEnd`, `NotificationsConclude`, `ShutdownEnds`, `ResultsConclude`,
  `AuthoritiesLeave`, `ExchangesEnd`), which is out of the prover's reach, as
  `ENABLED` is.
* `StreamIsRead`: `FramesOfTheBytes` compares two readings of a sequence of any
  length, an induction over data, and stays with TLC.

* `SendAtMostOnce`, `SettledTruthfully` and `OneInFlightPerChat` outside of the
  assumptions of their theorems are not properties: the violation and section 5
  say what happens there.

The inductive invariants themselves were model-checked before they were proved, on
the instances of the runs and, those of the pipeline, in simulations with two
senders, two operations and late delivery.

## 5. What is not modelled

* Texts, keyboards, payloads, URLs, headers, hashes, signatures: no property is
  about them. What a message is classified as, and the request built from it, are
  pure functions of one update.
* Configuration is validated field by field at start and constant afterwards: no
  state, no order, no rule that relates two actors. Telemetry changes no state,
  the readiness gauge included.
* A restart of the dispatcher forgets its gate; `RateLimiter` is one life of it,
  with one sender task.
* A library command that Platform rejects keeps its credential in the cache;
  `Sessions` has the callers that report a rejection. The Telegram side of a
  session, its init data and its signature, is a pure function of one request.
* Deployment files but for the two SQL statements that change rows.

### Known behaviour that no property covers

These were met while modelling. The models contain them, but for the character
split by a chunk, which `FramesOfTheBytes` leaves out of the comparison, and what
is said not to be modelled; no property above contradicts them. Where a sentence
of the repository reads otherwise, it is named.

*Following operations*

* When the accept transaction of a terminal frame fails
  (`services/dispatcher/src/follow.rs:253`, `build.rs:281`), the event is logged
  and dropped, and the follower polls for a terminal flag until the dispatcher
  restarts. The operation keeps one of the 64 slots. `OperationsEnd` and
  `ResultsConclude` except it; the design note
  `openspec/changes/resume-transient-operation-followers/design.md:10` has every
  retryable failure resumed without a restart.
* Operations that stay quiet keep their slots (`follow.rs:127`), and those behind
  them are not followed, where `openspec/specs/article-capture/spec.md:116` has
  every operation followed.
* Each chunk is decoded by itself (`crates/platform-api/src/stream.rs:72`): a
  character that two chunks share becomes replacement characters.

*The ledger and the dialogue*

* A capture that Platform accepted and whose projection failed is retried from
  the start (`services/webhook/src/intake/worker.rs:230`); if the retry meets a
  closed gate or an unreachable Platform, the update is settled and its payload
  removed, with the projection missing (compare `worker.rs:8`).
* The cleanup pass removes every consumed token
  (`crates/persistence/src/interaction_cleanup.rs:65`), the confirm token of an
  interrupted decision with them; run at start-up, before the first claim, it
  turns the resumption of that decision into "expired"
  (`openspec/specs/interaction-token-registry/spec.md:48`).

*The queue and the gate*

* The claim takes the first *due* row of a chat
  (`crates/persistence/src/outbound_jobs.rs:361`), so a job that was put off is
  overtaken by the later ones, where `schema.sql:237` says strictly FIFO.
* The busy chats of a claim are those of its snapshot (`outbound_jobs.rs:351`), and
  `skip locked` lets it pass rows that another claim holds: with two senders, two
  claims under way at once may each take a row of one chat, where
  `outbound_jobs.rs:8` has at most one in flight. `OneInFlightPerChat` is a property
  of the one dispatcher that is deployed.
* A denial of the local gate is settled as a failed attempt
  (`services/dispatcher/src/outbound/process.rs:135`): of six replies to one chat
  due together the last is dead-lettered though nobody tried to deliver it.
* A pause is counted from before the call that was refused (`process.rs:143`),
  and not from Telegram's answer (compare `limiter.rs:129`).
* After a step of the clock back a chat waits the step and its gap
  (`limiter.rs:189`), and not its gap only (`limiter.rs:186`).

*Links, library, sessions, files, start-up*

* A link sent again after its operation failed, as the failure's message asks
  (`services/dispatcher/src/projection/compose.rs:60`), has the key of the first
  capture (`services/webhook/src/intake/intent.rs:63`); Platform replays the failed
  operation, and the sender hears nothing.
* A read whose first attempt may have been applied is reported as unavailable,
  and not as unknown, when a later attempt ends it
  (`services/webhook/src/intake/library.rs:438`, `README.md:236`).
* A read that was applied and answered with a 5xx (a gateway's 502 or 504), a 429 or
  a body that cannot be read is reported as unavailable as well: these answers do not
  set `uncertain` (`library.rs:434`). `RepliesTruthful` names the two cases and allows no
  third.
* The hook runs after the exchange lock is released
  (`crates/http/src/identity.rs:24`): a held-up binding of an identity overwrites
  that of a later exchange.
* Bytes published without their sidecar are never repaired
  (`crates/blob-store/src/lib.rs:161`): every later store of them returns a
  reference that does not verify. `ReturnedVerifies` speaks of documents whose
  bytes no cut call has published.
* The failure to remove a staging file is ignored (`lib.rs:152`, `162`, `171`), and the
  file stays. `StagingIsSwept` speaks of the others.
* A public listener that fails to bind leaves the webhook running, ready and
  unreachable (`crates/http/src/lib.rs:374`), where the comment at `lib.rs:73`
  promises exit 1.

*Smaller ones*

* A render in flight while a newer one is accepted escapes the sweep. If the
  newer edit is applied and its answer lost, the older edit's retry overwrites
  it. `RendersStay` is the promise that holds.
* An edit whose answer was lost (`classify.rs:140`) may be carried out after a newer one
  was acknowledged, and then the older render, or progress under a finished operation,
  stays in the chat until a later render, if there is one. `LateEdit` is this case.
* An edit downgraded to a send may be overtaken by a newer render and then posts
  the older one as a new message. A reclaimed edit may exceed `max_attempts`.
* `settle_update` is not fenced: a late worker, or the fallback after a failed
  settlement, may write `failed` over `processed`. `SettledStaysSettled` says
  only that a settled update is not reopened.
* A reply enqueued before a crash is enqueued again by the retry. A notification
  preference changed after its job was enqueued does not call the job back.
* `recover-stuck-update.sql` leaves `lease_expires_at` of a `processing` row, and
  the CHECK constraint then refuses the statement; the runbook promises recovery
  of such rows.
* A dialogue in `submitting` is swept to expired after fifteen minutes, its
  result then never reported. A press is refused as expired until its message
  has been stamped.
* A crash between a selection and its prompt leaves a dialogue confirming
  without a prompt until it expires.
* The webhook's worker is detached: a shutdown cuts it, and only the ledger
  makes that harmless.
* At most one send passes the gate in a clock second, of all chats together, for
  any `global_per_second`: the bucket holds one token and counts whole seconds.
* A page of the library that was stored before a crash is stored again by the
  retry, with tokens of its own; both pages work.
* Of the updates of one sender, the library's commands use a rejected session
  until its margin, and say the library is unavailable.

## 6. The plan

The modules were written in the order of what the system can least afford to get
wrong: the queue with its abstract specification and proofs, the two pipelines
that feed it (`Projection`, `UpdateIntake`), the interactive parts
(`RepositoryDialogue`, `Notifications`), the frame around them (`Lifecycle`); then
the composition `RenderPipeline`, and the parts around the pipelines
(`RateLimiter`, `Sessions`, `AccessGate`, `CaptureLinks`, `LibraryRead`,
`BlobStore`, `EventStream`). Then came the proofs: of each component from its own
module, of those that share no variable from one module that instantiates them,
and at last of the composition, where the queue is shown to be what the
projection takes it for.

What is left:

1. What `RendersStay` becomes with a second sender has not been stated.
2. `ImplementsDelivery` and `ImplementsProjection` with the liveness of the
   abstract side, which needs a prover of temporal properties under fairness.
3. The properties that section 5 says no module covers.
