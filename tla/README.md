# Verification of ha-explorer-mcp

ha-explorer-mcp is a read-only MCP server that lets an agent inspect a Home
Assistant (HA) installation. This directory holds TLA+ models of the server,
the TLC configurations that check them, and proofs checked by TLAPS.

## The system and its parts

| Part | Source | State | Operations | Module |
|---|---|---|---|---|
| Connection manager | `internal/ha/manager.go` | published connection, broadcast channel, closed flag; per connection the reply slots, `ended`, `done`, the write lock; id and reconnect counters | `Start`, `Close`, `Call`, the goroutine `loop` (dial, serve, shutdown) | `Manager`, `RemoteCall` |
| Registry cache | `internal/ha/cachedvalue.go`, `registrycache.go` | value, time observed, in-flight channel, last error (six of them) | `Get` | `CachedValue`; its use by several invocations in `Server` |
| Gateway, request meter | `gateway.go`, `meter.go` | none (allow and deny lists) | `checkCommand`, `checkSupervisorRoute`, `chargeRequest` | `Upstream`, `Manager` |
| Core reader, Supervisor client | `corereader.go`, `commands.go`, `supervisor.go` | none | one typed read per command or route | `Upstream` |
| Mapping | `mapping.go`, `automation_logic.go`, `trace_steps.go` | none | JSON to model | `Document`, `Mapping`, `Logic`, `TraceRun` |
| HTTP transport | `internal/mcp/transport_http.go` | in-flight slots, rejection counters | `ServeHTTP`, `note`, `runHTTP` | `Server` |
| Invocation middleware | `internal/mcp/middleware.go`, `internal/audit` | none of its own | `invoke`, `callWithRecovery`, `classify`, `Emit` | `Server` |
| Policy | `internal/policy` | tokens and last refill; spent budget | `Allow`, `Charge*`, `Preflight`, `Decide`, `CheckHistoryScope` | `RateLimiter`, `QueryBudget`, `Redaction` |
| Plain tools | `internal/mcp/*_tools.go` | none | one handler per tool | `ToolAnswers`, `Answers`, `StaleScan` |
| Composite tools | `internal/mcp/*_health_tools.go` | none | three diagnoses of many reads each | `Diagnosis` |
| Analysis | `internal/analysis` | none | availability, cadence, clustering, mesh, confidence, three health analyses | `Lines`, `History`, `Ledger`, `Correlation`, `EntityHealth`, `IntegrationHealth`, `AutomationHealth` |
| Paging | `internal/page` | none (the client holds the cursor) | `Paginate`, `ResolveLimit` | `Page`, `Paging`, `CursorScan` |
| Privacy, redaction | `internal/policy/privacy.go`, `internal/redact` | none | `Payload`, `Token`, `ScrubText` | `Redaction` |

The goroutines that run at the same time are: one per MCP invocation (up to
four over HTTP), the manager's `loop`, and whoever calls `Close`. They meet in
five places: the manager's mutex, each connection's two mutexes and reply
channels, the mutex of each cached value, the locks of limiter and budget, and
the gate's slots and rejection counter.

What is hard there, and so what the properties are aimed at:

* calls whose connection breaks, is replaced, or is closed while they wait for
  it, register on it, write to it or wait for its answer; answers that are
  late, repeated or out of order; a retry, which must be neither a busy loop,
  nor a second charge; `Close`, twice, in the middle of any of that;
* many readers of an expired registry, a refill that fails, panics or is slow,
  and waiters with deadlines of their own;
* an invocation's many ways out (refused at the gate, by the limiter or by a
  budget, failed, panicked), each with a slot to return and a record to write,
  and a shutdown that cuts what is still under way;
* a read that fails, or answers as another release of HA would, in the middle
  of a dozen others: the answer must say so and must not be wrong;
* an automation's body, a recursive document of a dozen shapes, walked under
  caps and with privacy to keep, and a run of it that has to be laid beside it;
* histories with points in any order, at and around both ends of a window,
  and hypotheses drawn from evidence that is thin, partial or missing;
* lists that change between two pages, and scans that pay as they go.

What makes each part correct: the manager gives every call the outcome of its
own command, in bounded time, having sent nothing it was not allowed and paid
to send; the cache fetches once at a time, says honestly when a value was
observed and never goes back in time; the middleware admits and charges
every invocation once, and audits once each that comes to its end; a tool answers with what HA told, says what is
missing, and shows nothing the profile withholds; paging neither repeats nor
skips; the analysis computes what its definitions say and blames nobody
without evidence.

## Modules

Definitions keep the source's names. A definition with an underscore in its
name (`Reset_Kept`) is a wrong version of another (`Reset`): what a plausible
bug would make of it, kept to show that some property notices. A property that a configuration checks is a conjunction
of named parts, each with a comment that says what it promises.

### Manager: the connection manager

The state of one connection is a record `conn[s]`, of one call a record
`call[c]`, and one variable stands for each field of `Manager` (`current`,
`closed`, `nextID`, `reconnects`). The place where a goroutine stands is `loop`,
`call[c].pc` or `closer[k]`. An action is one critical section, one channel
operation, or one step that other goroutines can observe; what a goroutine does
between two of these is part of one action. For instance `Manager.session` is
`Snapshot` (under `m.mu`), `Inspect` (outside it: a stale copy is judged),
`Wake` or `GiveUpWaiting`. Steps of the same action that lie in two critical
sections but commute with everything else (`nextID.Add` and `s.register`) are
taken together, and the comment says so.

How the code is represented:

* `m.changed` is closed and replaced by each broadcast, so all that matters of
  a copy of it is whether it has been closed since: `call[c].woken`. A broadcast
  sets it for every call that holds a copy (`pc` in `inspect`, `wait`).
* A reply channel (capacity one, one per attempt) is `conn[s].box[c]`;
  `s.pending` is a set of pairs of an id and the call that owns the channel.
* What the loop is about to send on reply channels, outside `s.mu`, is `hand`.
* A frame's content is its id and the call that sent it. HA answers any frame it
  has received, in any order and possibly more than once (`ReadReply`).
* `broken` says that the socket is closed: by the network or HA (`Drop`), by a
  write under a cancelled context (`WriteError`), by the reading side
  (`ReadError`). `conn.Write` is two steps, `Flush` and its return, since the
  library may report an error after the frame has left.
* Dialling and the handshake succeed, fail, or are rejected (`DialOk`,
  `DialFails`, `DialRejected`).
* The initial state is the one `cmd/server/main.go` is in after `Start`.

Left out: `encodeCommand` failing (a programmer error), logging, the frames of
the handshake, the length of the backoff delay, and the data of requests and
replies.

### RemoteCall: what Call promises

The abstract specification: a call is refused, or tried until its command is
known to be sent, or given up; once it is known to be sent there are only three
outcomes, its own answer, a dead connection, its own context. `Manager`
implements it under the refinement mapping `Abstract` at its end: the abstract
state of a call follows from its `pc`, its outcome is fixed as soon as `callOn`
has it (the deferred `unregister` is a stutter), and the abstract `received` is
the set of the call's frames on all connections, each with its connection and id
(a retry has a new id, so that frames are counted by being told apart).

### CachedValue: the single-flight cache

One `cachedValue`; a caller calls `Get` as often as it likes. What HA would
answer at time t is represented by t itself, so that a value tells how old it
is. `Hit`, `Join` and `Lead` are the first critical section with its three
ways out, `Fetch` the call of `fetch` with a value or an error, `Panic` its
other end (recovered far above, in the middleware), `Commit` the second
critical section, `Stamp` the leader's return with its unlocked read of
`c.observedAt` (`StampOf`), `Reread` and `GiveUp` the two cases of a waiter's select.
`storedAt`, `newest`, `panicked`, `floor` and `heard` are history variables and
fields: they record what the properties speak about and no guard reads them.

### RateLimiter: one token bucket

`internal/policy/ratelimit.go`. `Allow` is one step, as it holds `r.mu` from
beginning to end: the tokens earned since `last` are added up to the burst,
`last` moves on by whole intervals, and the arrival is served (`Admit`) or told
when to come back (`Refuse`). `Tick` is the clock. Two variables observe for the
properties only: `window` counts what is served from an instant of the
observer's choice (`Observe`, or a refusal), `refusal` is the last refusal. The
session limiter and the invocation limiter are two instances of the same code.

### Server: the gate, the middleware and the end of the process

Everything that stands around a tool, for both transports. `req[r]` is one
client request and `req[r].pc` where its goroutine stands:

    new -> warn -> done                                refused at the gate
    new -> admitted -> running -> (fetch | wait) -> running
        -> ended -> leaving -> done                    a tool call
    fetch -> ended                                     its fetch panicked
    admitted -> leaving                                not a tool call, or denied

`Gate` is `ServeHTTP` up to the slot, with the refusals in the order the code
makes them (route, `Origin`, credential, slot). A refused credential goes
through `rejections.note`: the count is taken under its lock (`Note`), the line
is written after the unlock (`Warn`). `Receive` is the stdio session, which has
no gate. `PassThrough`, `Deny` and `Dispatch` are the ways through `wrap` and
`invoke` before the handler. A handler is what it does to its budget: `Spend`
charges and sends a request of its own; `ReadRegistry` finds the shared registry
fresh, joins the fetch of another invocation or leads one, and `FetchRegistry`
charges the leader's budget and ends the fetch for all who wait; `FetchPanics` is
the fetch that ends its leader's call instead and leaves the registry as it is,
being fetched by nobody, with its waiters waiting; `GiveUp` is a waiter whose own
context ends; `Finish` is the handler's return, with a result,
an error, a result that is an error, or a panic. `Conclude` classifies, writes
the audit record and answers; `Release` gives the slot back, as the deferred
function does. `StopSignal`, `ServeEnds`, `Drained`, `GraceOver` and `Exit` are
`runHTTP`'s and `main`'s shutdown: when the grace is over, requests that still
run are cut off where they stand.

The registry here is `CachedValue` without clock and stamps. It is repeated,
small, because the question is another one: whose budget pays for a fetch that
several invocations share, and what becomes of the others when that budget
refuses it.

### Lines, History, Ledger, Correlation and the three health analyses

`internal/analysis` is pure code, and so are these modules: operators, with one
record for the input of an analysis, and no state.

* `Lines`: what a Go slice is after a sort or a filter, told by its result: the
  members of a set in an order, those of a list that are kept.
* `History`: one entity's points against a window. `Availability` (what holds
  from where to where, the outages, coverage), `Cadence` (percentiles of the
  intervals, staleness).
* `Ledger`: evidence, hypotheses, and `ConfidenceFor`, the rank of the weakest
  leg a hypothesis cites.
* `Correlation`: outages of several entities swept into clusters, what the
  members of a cluster share, the mesh metrics of their devices.
* `EntityHealth`, `IntegrationHealth`, `AutomationHealth`: which evidence each
  input becomes, which hypotheses each finding becomes, and which evidence
  each of them cites.

What Go measures once and keeps in a variable is measured once here too and
passed on as an argument (`a` an availability, `c` a cadence, `timed` the
clusters in order of time, `runs`, `deps`).

### Diagnosis: the composite tools

One behaviour is one call of `analyze_entity_health`,
`analyze_integration_health` or `analyze_automation_health`; one step is one
read, in the order the handler makes them. `at` is the read that comes next,
`todo` what is left of a loop of reads (the entities of an integration, the
probes of its clusters, the dependencies of an automation), `in` the input of
the analysis so far. A read succeeds with something, is refused by the profile
or by the budget, or fails; `Lacks` puts what could not be read in the list of
what is missing, and a cancelled caller ends the call. The last step runs the
analysis of the modules above on `in` and pays for the answer.

### Document, Mapping, Logic, TraceRun: what is made of HA's answers

`Document` is a decoded JSON value and the permissive accessors ("absent or of
another type is not present"). `Mapping` has one operator per mapper: which
fields it requires, which elements it marks partial or drops, which answers it
refuses whole. `Logic` is the walk over an automation's configuration, twice:
the ids it refers to (`ExtractDependencies`), and the typed nodes with their
values (`MapAutomationLogic`), under the caps on depth, nodes, values and
dependencies. `TraceRun` is one run as typed steps, with the checks of a
condition placed under the turn they were made in.

A text is a member of a small set, and the constants say what matters of it:
`Shapes` (what the regular expressions make of it), `Parts` (the ids a comma
separated list holds), `DomainOf`, `Instant`, `ParentPath`.

### Redaction, Upstream, ToolAnswers and Answers: the plain tools

`Redaction` is the response boundary: the class of a value, what each of the
three profiles does with it, and the walk `Payload` over a document, which
carries along whose value it is in. `Upstream` is the two ways to HA: the
readers, the route each takes, the allow-lists, the errors each way has, and
the mapper its answer goes through. `ToolAnswers` is what each handler makes of
what it read. These are operators too.

`Answers` is the state machine. One behaviour is one call of one of eighteen
tools under one profile: `Enter` (refusals before anything is read), `Ask` and
the answer of one read after another (`todo`, `at`, `read`), and the answer or
another end. While it runs the installation may change once (`Flips`: an entity
changes its state), and one answer may come as another release of HA would
give it (`spoiled`: a field is gone, null or of another type, an element is null).
`heard` remembers the documents, so that the properties can compare the answer
with the document it was made from and not with the model's own mapping.

### CursorScan: what a cursor promises

The abstract walk of a client through a list that changes: a page holds nothing
at or before the client's cursor, everything between it and the next cursor that
has been in the list since the client began, and the walk ends with a page that
has no cursor. How a page is cut is left open. `Complete` and `NothingTwice`
follow, by the invariant `Faithful` that stands beside them; `Paging` and
`StaleScan` implement the walk and inherit it.

### Paging: the list tools

`page.Paginate`, whole: clamped limit, binary search, the cut by count and
bytes, the cursor. A record has a key (`keyOf`) and a place (what the tool sorts
by); the tools differ in these two only, so that they are constants. `Search` is
the binary search itself and not "the first record after the cursor": where the
list is not sorted by key it finds something else, which is the matter of
`Paging_traces`. It is a recursive function of the bounds it searches between.
`Page` holds what the two users of `internal/page` share.

### QueryBudget and StaleScan: the scan that pays as it goes

`QueryBudget` has the charge operators of `policy/budget.go` and `preflight.go`
(a record of four numbers; a charge that does not fit changes nothing; Preflight
charges nothing); every module that spends uses it. `StaleScan` is
`findStaleEntities`: `Begin` (registries, filter, sort, search), then one step
per entity, `Exclude` for a private one and `Examine` for a read with its three
charges, and one of the ways out: `Deliver`, `Overrun` (a history that does not
fit after it was fetched), `TooBig` (an answer that does not fit), `Fail` (Home
Assistant). The last three end the call with an error and leave the client with
the cursor it had. `discarded` records the refused charge that threw away reads
already paid for. Entities are their places in the order of ids; which of them
are judged stale is left out, since neither cursor nor budget depends on it.

`MCManager`, `MCServer`, `MCDiagnosis`, `MCAnswers`, `MCPaging` and
`MCStaleScan` instantiate their modules for TLC: the symmetry of calls and
closers, and the values of constants that a configuration cannot write.


## Runs

| Run | Properties | Shows |
|---|---|---|
| `Manager_calls` | `TypeOK`, `RepliesDelivered`, `RetriesHonest` | Two concurrent calls, two connections. Replies never cross; no slot leaks; the loop's channel sends never block; a retry is on a younger connection; nothing is sent that was not charged and permitted, and a refusal charges nothing; a command that HA has received is retried only after the connection that carried it broke |
| `Manager_close` | `NoMissedWakeup`, `ClosedMeansDrained`, `ImplementsRemoteCall`, `EndsAreHeard` | One call, two closers, a cancellable `Start` context, two connections, no deadlines. No lost wake-up; `Close` drains and returns to everybody; a broken connection releases its calls; `Manager` implements `RemoteCall` |
| `Manager_deadlines` | `EveryCallReturns` | Every call returns, whatever HA, the network and the other calls do |
| `Manager_order` | `WireIdsIncrease` | **Violation**, 1 below |
| `CachedValue_waits` | `TypeOK`, `OneFetch`, `ReadsAreHonest`, `NobodyIsStuck` | Two callers that call again and again, fetches that succeed, fail and panic. Single flight and its marker; hits and waiters are told the value's own time (`HonestStamp`), and a leader is told it too or, when it returns at least a lifetime after the fetch, a later fetch's (`LeaderStamp`); monotonic reads; a waiter hears a fetch that ended while it waited; waiters are released by the fetch alone; every `Get` whose own context ends returns |
| `RateLimiter_rate` | `TypeOK`, `RateBounded`, `RefusalsAreFair` | In any window no more is served than the burst and one arrival per interval begun; a refusal's retry time is exact; between refusals every whole interval is served |
| `Server_calls` | `TypeOK`, `SlotsHeld`, `CallsAreAudited`, `RejectionsTold`, `EveryCallEnds` | Two requests before a gate with one slot, or on stdio. Every slot is held by a request past the gate and returned on every way out; a call that comes to its end leaves exactly one audit record, which tells how it ended and what it spent, and one that is cut off leaves none; every request to HA is paid by one invocation, also a fetch that several share, and one that panics; warnings tell of every rejection and are rare; every request ends |
| `Diagnosis_calls` | `TypeOK`, `MeasuredAsDefined`, `BlameIsEarned`, `EverySourceTold`, `ReadsAreDisciplined`, `EveryStepAdvances` | The three composite tools, with a failure at any read. Outages, percentiles and clusters agree with definitions that do not mention the algorithms; a hypothesis blames what has failed and is no surer than its weakest leg; a source that did not answer is in the list of what is missing; only the caller's leaving ends a call; private entities are not asked for; what is down is read first; every point used was paid for |
| `Answers_calls` | `TypeOK`, `NothingLeaks`, `LogicIsWhole`, `StepsInPlace`, `InventoryIsWhole`, `OutcomesAreFacts`, `EveryReadIsNew` | Eighteen tools under each profile, with refusals, lost connections, a change of the installation and an answer of another release. Nothing private, secret or free-form is shown, and a token stands for one entity's value; an automation's logic is whole or says what it lacks; a run's steps lie at nodes of the logic, each once; lists lose no element; a system health is given only when all its routes succeeded and named what identifies their answers, and shows what they said; a state and the availability beside it disagree only for an entity that was reported differently in two reads; `unsupported` is a fact about the installation; an answer was paid for |
| `Paging_byKey` | `TypeOK`, `ImplementsCursorScan`, `WalkEnds` | Over a list that changes twice, with page sizes that change from call to call, a record larger than a page, limits that are clamped: nothing skipped, nothing twice, the walk ends |
| `Paging_traces` | `NothingSkipped` | **Violation**, 2 below |
| `StaleScan_scan` | `TypeOK`, `SpendsWisely`, `ImplementsCursorScan`, `ScanEnds` | Histories shorter and longer than expected, answers that fit and that do not, one failed call, one change of the registry: no call overspends, only surprises throw reads away, nothing is skipped or covered twice, the scan ends |

### How the deep properties are stated

A model of pure code can only be checked against something else than itself.
`MeasuredAsDefined` compares the sweep over sorted points with a definition
instant by instant (`HeldAt`: the state that the last point at or before an
instant gave), percentiles with counts of intervals, and the clustering sweep
with the components of the relation "overlaps within the tolerance".
`OrderDoesNotMatter` runs the analysis on the reversed history. `BlameIsEarned`
goes from a hypothesis back to the raw points and rows: a dependency was bad at
an instant (`BadAt`) if it held a state that reports nothing at it, just before
it or within it, or had been silent for longer than its threshold. `LogicIsWhole` compares
the nodes with all ids anywhere in the configuration (`Referred`, a walk of its
own), `StepsInPlace` the steps with the raw trace, `InventoryIsWhole` a list with
the elements of the document, `NothingLeaks` the texts of an answer with the
texts that occur nowhere but in private or secret places of the installation.

### Bounds

Bounds are constants, and are guards of one action each.

**Manager.** `MaxSession` bounds connections (`DialOk`). Two are needed for a
call to fail on one and continue on another, and for stale slots, replies and
wake-ups of the old one to meet the new. Two calls (`Manager_calls`,
`Manager_deadlines`) are the smallest number that can cross replies, contend for
the write lock and be woken together; calls are symmetric, and two of them
interact only through the connection, the id counter and the broadcast.
`Manager_close` has one call, since its questions are about a call, the loop and
the closers, and two closers, enough for the second to find `closed` set.
`Manager_deadlines` has one connection: it asks whether a call gets stuck beside
another one, and `Manager_close` covers the change of connection.
`MaxBackoffAttempt` is the code's constant made small. Message ids are bounded
by calls and connections, since a retry is never on the same connection.

**CachedValue.** `MaxTime` bounds the clock. With `TTL` 2 and `MaxTime` 5 a value
can expire twice and be refilled by three leaders. Two callers are enough for a
leader, a waiter and a later leader while the waiter has not woken up, because a
caller that has returned calls again; the proved invariants hold for any number.

**RateLimiter.** A burst of two, three clock units to an interval and four
intervals: the bucket can be emptied, refilled in part and in full, and emptied
again, with arrivals at every phase of an interval.

**Server.** Two requests and one slot: the second request finds the gate full,
or the first one's registry fetch under way, or both stand before the counter. A
budget of one request is spent by the first charge, so that a handler's own
request, the shared fetch and a refusal occur in every order. Over HTTP a
request that was refused may come again, up to `MaxRejections` 2; with
`WarnEvery` 1 and `MaxTime` 1 there are rejections with a warning, without one,
and warnings at two instants. Because a shared fetch needs both requests past
the gate, stdio (which has no slots) is where the registry is contended for.

**Diagnosis.** One coordinator with two child devices, five registry rows of
which one is disabled and two are mesh metrics, a window of five seconds.
Histories of the subject are all sequences of at most two points with four
states at five instants before, in, at the end of and after the window (421), and
those of three points that begin with one in place; other entities have seven
histories, among them "down throughout", "down twice", "recorded at the end
alone" and an outage that begins and ends in one instant. The code's caps and
thresholds are made small (two entities per integration, one metric, one probe,
samples of two and three) so that each of them cuts. One read of a call fails:
two failures are independent entries in the list of what is missing.

**Answers.** An installation of four entities (one ordinary, two persons, one
private only by its device class), two devices, one area, one automation with
seven configurations that between them hold every kind of branch the walk
knows, the old and the new spelling of the keys, templates, lists in a string,
nesting beyond the cap, more ids than the cap, and elements that are nothing;
and three runs. Caps are a few nodes, values and steps. One state changes and
one answer is spoiled per call: each reader has its own mapper, so that two
spoiled answers add no case.

**Paging, StaleScan.** Four records and pages of at most two, hence a walk of two
or three pages with both changes possible between any two of them, and sizes
that let bytes, count and an oversized record each end a page. `Paging_traces`
needs no change of the list at all. `StaleScan` has four entities, one of them
private, four requests of which the registries may take two, and points for two
estimated histories: each of requests, points, page size and end of list ends
some call. A record or entity that is neither at the cursor nor at a page's edge
behaves like any other, so that more of them add no case.

### Fairness

`Manager`: goroutines that can run eventually do (weak fairness of each step of
the loop and of a call). The write lock is a `sync.Mutex`, which does not starve
a goroutine that waits for it, hence strong fairness of `LockWrite`. Nothing is
assumed of HA and the network: `Flush`, `Drop` and an answer need never happen
(an answer is one of the steps of `LoopStep`, whose fairness does not choose
it). `PatientSpec` stops there. `FairSpec` adds that deadlines pass, which the
code justifies by giving every context one (`Call`, `WithBudget`).

`CachedValue`: `FairSpec` assumes that `fetch` ends, which is `EveryCallReturns`
of `Manager`, and that goroutines run. Deadlines need not pass: a waiter is
released by the fetch alone (`WaitersReleased`), and `GetReturns` speaks of a
caller whose deadline has passed. Nobody is ever made to call `Get`.

`Server`: weak fairness of `Handle(r)`, one request's goroutine, and of
`Shutdown`. `Handle` does not contain `Spend` or `ReadRegistry`, so that a handler
is not made to send anything, only to come to its end; it does contain a
waiter's `GiveUp`, as `WithBudget` gives every call a deadline. No client is made
to come or to come again, and no signal to be sent.

`Diagnosis` and `Answers` have no fairness. A call is a finite sequence of reads,
each of which ends by `EveryCallReturns`; what could go wrong is a loop that does
not advance or a read that is made for ever. `EveryStepAdvances` and
`EveryReadIsNew` say, as action properties, that it cannot: each step leaves less
to do.

`Paging` and `StaleScan`: weak fairness of `Call`, which is a client that keeps
handing its cursor back (and Home Assistant answering). Nobody is made to change
the list. Calls that end with an error are bounded by `MaxFailures`: with errors
for ever no scan ends, and there is a case where they do not stop, namely an
entity whose history alone is over the point limit (the observation on
`find_tools.go` below). `ScanEnds` therefore says that a scan ends if its calls
fail only so often.

`Server_calls`, `Paging` and `StaleScan` do not check for deadlock, since a process
that has exited and a client that has walked to the end take no step. The other
runs do; there a call that is over stutters explicitly.


## Disagreements between the code and its own documents

1. **Ids out of order** (`Manager_order`, `WireIdsIncrease`). `callOn` takes the
   id before `session.write` takes the write lock, so two calls can send their
   ids in decreasing order on one connection. The comments on `nextID` and in
   `callOn` say that HA requires them to increase. Taking the id under `writeMu`
   would restore the claim.
2. **Traces paged by the wrong key** (`Paging_traces`, `NothingSkipped`).
   `getAutomationTraces` sorts by time, newest first, and pages by run id. The
   binary search for the second page starts in the wrong place: with ids that
   grow with time the page is empty and says it is the last.

### Observations

These were met while modelling. The models do what the code does; where a
property is shaped around one, it is named.

* `manager.go:264`: an error of `conn.Write` is taken for "not transmitted". It can
  also follow a flushed frame, when the socket is closed before the write
  returns, and the command is then sent twice. All commands are reads.
  `ResentOnlyAfterBreak` states what does hold.
* `cachedvalue.go:81`: the leader reads `c.observedAt` after unlocking, when a later
  refill may be stored: an old value then goes out with a newer fetch's time. A
  later refill begins only when the leader's own value has expired, so it takes a
  leader that returns a whole lifetime late. `LeaderStamp` states that bound,
  `HonestStamp` the exact time for hits and waiters, which are not affected.
* `transport_http.go:229`: a call that the end of the grace cuts off leaves no audit
  record, and what it spent is told nowhere. `CallsAreAudited` speaks of the calls
  that come to their end.
* `cachedvalue.go:50`: a waiter receives the leader's error whatever it is, hence
  also the leader's `ErrDeadline` or the refusal of the leader's budget, while its
  own are good. In `Server` such a call ends as `budget_exceeded` though its own
  budget refused nothing (`RecordTells` allows for it).
* `find_tools.go:308`: `Preflight` compares means, so a history can be longer than
  expected; it is then refused after it was fetched, and the call fails with
  everything it had read. `OnlySurprisesDiscard` states what does hold. An entity
  whose history alone is over the limit stops every scan that reaches it.
* `integration_health.go:393`: "with the logbook read and no such row, the upstream
  hypothesis stands on stronger ground". The leg that is cited for the absence
  has a sample of one, and so lowers the confidence of the hypothesis.
* `mapping.go`: comments say that a list element which is not an object is skipped.
  `json.Unmarshal` into `[]map[string]any` fails the whole list for such an
  element; `null` becomes an empty, partial one, and a `null` result an empty list.
* `mapping.go:383`, `:671`: a field that HA renamed is said to fail the call. That
  holds for a field of another type and for the few that `requireKeys` names, if
  they are absent; a named field that is null (`mapping.go:796`) and any other that
  is absent or null becomes zero or false without a word: a Supervisor that stopped
  reporting `healthy` is shown as unhealthy, a missing `cpu_percent` as 0.
  `HealthIsWhole` states what does hold. A repairs answer without `issues` becomes
  an empty list (`mapping.go:613`).
* `availability.go`: an outage of no length counts as a period of unavailability;
  one that ends exactly at the window's end is called open; a single point
  exactly there gives nothing covered and "no state at or before the end".
* `entity_tools.go:193`: `list_entities` and `get_entity` read the states twice, once
  for the state and once for who is unavailable, so the two can disagree.
  `AvailabilityAgrees` says that they do so only for an entity that the two reads
  reported differently. An entity with no state row counts as available.
* `automation_logic.go:276`: an action with `conditions` whose kind is not
  `condition` loses them.
* `automation_trace_tools.go:142`: step text is scrubbed "as every response text
  is"; the typed values of `get_automation_logic` are not. `SecretsStayIn`
  is about secrets that the grammar of typed values does not admit.
* `automation_tools.go:374`: a logbook row without an entity id is about nobody and is
  not masked.
* `automation_health.go:359`: `DependsWithheld` is reported but only `get_automation`
  sets it, so that the analysis never says that dependencies were withheld.
* `system_tools.go:219`: `get_system_health` and `list_apps` call every error of the
  Supervisor unsupported, also a spent budget and a deadline.
  `UnsupportedIsAFact` therefore speaks of the automation tools only.
* `listRepairs` pages by issue id, which HA makes unique per domain only: the
  second of two issues with one id is lost when the first ends a page.

## Proofs

The theorems hold for every value of the constants under the assumptions the
modules state on them: `None` is no call (`CallerAssumption`), the bounds are
naturals (`SessionAssumption`, `BackoffAssumption`), and their like in the other
modules. The sets of calls, of closers and of callers may be infinite. All of
them are about `Spec`: no fairness is used.

`ManagerProofs` proves every invariant of `Manager_calls` and `Manager_close`, and
the refinement of `RemoteCall`. None of the invariants is inductive alone. The proof of each is `Init => Inv`, one lemma
for the steps of a call and one for those of the loop, and a last one that joins
them; the later invariants use the earlier.

| Theorem | Property | The strengthening, and why it is needed |
|---|---|---|
| `TypeCorrect` | `TypeOK` | `LoopServes`: where the loop uses its connection there is one, so `conn[created]` has a type |
| `NoWakeupIsLost` | `NoMissedWakeup` | `Watchful`: a copy of `m.current` that has not been woken is still the published connection (`CopyIsCurrent`), and a call that sleeps judged it unusable (`Judged`). This is the argument for reading `m.current` and `m.changed` in one critical section |
| `RetriesMoveForward` | `RetryMovesForward` | `Forwards`: the published connection is the youngest or none, so a copy of it is never older than the one that failed |
| `RepliesCorrelate`, `NoSlotIsLeft` | `RepliesNeverCross`, `SlotsOwned` | `Owned`: ids of calls in flight are distinct and not above the counter; a frame with the id of a call in flight is its own; a slot with it is its own, on its connection; so a reply in the loop's hand or in a channel is with the call that asked |
| `CloseDrains` | `ClosedMeansDrained` | `Finishes`: every connection but the one in service is done, one that is done is ended, and (by `Owned`) one that is ended has no slot |
| `LoopNeverBlocks` | `SendNeverBlocks` | `Unblocked`: while a slot is open its channel is empty, and a call the loop has a send for has given that connection up or is in the attempt the send ends, so it cannot open a second slot there (by `Forwards`) |
| `EveryReplyIsDelivered` | `RepliesDelivered` | the three of the rows above, joined |
| `RetriesAreHonest` | `RetriesHonest` | `Settled`: a call that has been charged stays charged once and one that has not has neither slot nor frame (`Paid`); a frame of a call on another connection than its present one is on a broken one, because only a failed write leaves a connection with the frame sent, and a failed write breaks it (`Kept`) |
| `CallImplementsRemoteCall` | `ImplementsRemoteCall` | `Arrived`: a call that has written its frame and waits for the answer has a frame that Home Assistant received. By `Settled` a refused call has none, and by `Owned` the reply a call takes is its own; each action is then shown to be one of `RemoteCall` or a stutter |

`CachedValueProofs` proves every invariant of `CachedValue_waits`:

| Theorem | Property | The strengthening |
|---|---|---|
| `TypeCorrect` | `TypeOK` | none |
| `OneFetchAtATime` | `SingleFlight` | `LeaderAlone`: a leader holds the in-flight marker, which nobody but its own `Commit` takes down |
| `TheFlagIsRight` | `OneFetch` | `FlagIsLed`: a marker without a leader was left by a panic |
| `ReadsAreMonotone` | `MonotonicReads` | `Monotone`: the cached value is no newer than the clock and no older than anything returned, and what the leader has read is newer still until it stores it, since nobody else stores in between |
| `GetIsHonest` | `ReadsAreHonest` | `Honest`: the stamp in the cache is the value's own, and a waiter's channel is closed only after the outcome of its fetch was stored, so that what it rereads is that outcome or a later one (`Tells`); and while a leader has not returned, whatever the cache holds instead of its value was stored at least a lifetime after it (`AllTimely`), since nobody leads before it expires |

`RateLimiterProofs` proves the properties of `RateLimiter` for every burst and
interval (`TypeCorrect`, `RateIsBounded`, `RetryAfterHolds`, `CreditIsKept`,
`RefusalsTreatFairly`). Both halves of the inductive invariant speak of the
tokens that are available now, banked or due. `RateInv`: what the window has
served and what is available exceed the burst by at most one for each interval
begun. `CreditInv`: since a refusal, what was served and what is available are
worth the time that has passed, or the burst. Serving trades one token for one
arrival; the passage of time adds a token only when it adds an interval.

`StaleScanProofs` proves, for any entities, page sizes, budgets and histories,

| Theorem | Property | The strengthening |
|---|---|---|
| `TypeCorrect` | `TypeOK` | none |
| `SpendsWithinBudget` | `WithinBudget` | `Budgeted`: a call that has touched nothing can still pay for its first read |
| `OnlySurprises`, `ScanSpendsWisely` | `OnlySurprisesDiscard`, `SpendsWisely` | `Budgeted`: what was affordable by the estimate before the read can be refused after it only if the history exceeds the estimate |
| `ScanKeepsThePromise` | `ImplementsCursorScan` | `Covered`: a call has touched everything that stayed between the client's cursor and its own last key, and nothing else. By `Budgeted` a page with a cursor has moved on, which is what makes `Deliver` a `More` |
| `ScanIsFaithful` | `ScanComplete`, `ExaminedOnce` | `Promise!Faithful`, the invariant of the abstract walk, carried along the refinement. Its part `Divided` is the strengthening: what has stayed at or before the cursor was given, what lies after it was not |

They rest on `FirstReadAssumption`: the registries leave one request to a call
and an unspent budget affords one estimated history. It is what the class limits
and the seven-day maximum of the window give; without it a scan could return a
first page that has a truncation mark and no cursor.

`ServerProofs` proves, for any finite set of requests, any number of slots and any
budget,

| Theorem | What it says | The strengthening, and why it is needed |
|---|---|---|
| `TypeCorrect`, `SlotsAreHeld` | `TypeOK`, `SlotsHeld` | `Held`: the two together, and that a handler that has ended has an ending that `Conclude` can classify (`EndsKnown`). Neither is inductive alone: that the count of slots does not fall below zero follows from its being the number of their holders |
| `EveryCallIsAudited` | `AuditedOnce`, `RecordTells`, and `Within(req[r].used, Limits)` for each request | `Audited(r)`: a call has no answer while it is in the middleware, so the step that gives it one finds no record, and a call that is cut off has neither; and how its handler ended was possible when it ended (a success was not refused, a cutoff was) |
| `WarningsAreSpaced` | `WarningsSpaced` | `Spaced`: the last warning was given at `rej.lastWarn` |
| `CallsLeaveRecords` | `CallsAreAudited` | `Balanced`: the requests sent are the sum, over the invocations, of what a record says was spent, or of what is spent so far by one that has none yet, and who has not come past the gate has spent nothing (`NotYetSpent`). A step changes one term by what it sends; of the many who share a fetch only the leader's changes |
| `RejectionsAreTold` | `RejectionsTold` | the equation of `RejectionsCounted` is inductive beside `Held` and `Spaced`: a rejection is in the counter or in one line that is to be written, and the lock makes the choice one step |

Both equations are sums over the finite set of requests, which
`RequestAssumption` states to be finite; that a sum changes by what one term
changes is taken from the folds' definition by a lemma of its own.

`PagingProofs` proves, for any finite set of records of any sizes and orders, any
limits and any number of changes of the list,

| Theorem | What it says | The argument |
|---|---|---|
| `TypeCorrect` | `TypeOK` | the list in its order is a sequence without repetition of all its records, the loop that cuts a page ends within it |
| `PagesKeepThePromise` | `SortsByKey` implies `ImplementsCursorScan` | the binary search finds the first record after the cursor (by induction on the width of what is left to search), so that each page is what follows the cursor up to the next one, and a page without a cursor ends the list |
| `WalkIsComplete` | `SortsByKey` implies `NothingSkipped` and `NothingTwice` | `Promise!Faithful`, as for the scan |

`SortsByKey` says that a tool sorts by the key it pages by, and that keys tell
records apart. It is a hypothesis of the theorems and not an assumption of the
module, because the code has a tool for which it fails: `Paging_traces` is that
tool, and its counterexample shows that the hypothesis is needed.

`DiagnosisProofs` proves, for any installation, any histories, any budget and any
number of failures,

| Theorem | Property | The strengthening, and why it is needed |
|---|---|---|
| `OnlyTheCallerEndsACall`, `SpendsWithinBudget` | `OnlyTheCallerAborts`, `Within(used, Limits)` | `Order` (`Solvent`, `Orderly`): a cancelled call is over, so that no failure can follow the caller's leaving; and the resolution of an integration comes before anything is learnt |
| `TypeCorrect` | `TypeOK` | `Shaped`, the shape of the input: what every field holds (`Typed`), what the loop that is under way still has to read (`Pending`), and which lists are still empty (`Unstarted`). `Staged`: the call stands at one of its reads, and has an answer exactly when it ended with one. That the answer is one, whichever tool gives it, is a lemma about each analysis (`EveryToolSays`) |
| `NoReadTwice` | `EveryStepAdvances` | `Shaped` again: a loop is entered with something left to read, so that its step shortens it (`Moves`, `LoopsAdvance`) |
| `ReadsKeepDiscipline` | `ReadsAreDisciplined` | `Routed`: which tool makes which read. `Paid`: the points in the input are at most those charged, a sum over four lists of which each step lengthens one. `Denials`: what a deny profile leaves out is noted before the first outage is read, and the analysis keeps the notes. `InTurn`: what is left of the loop has what is down in front, and either all that is left is down or all that is down has been asked for or is left |
| `NoSourceIsSilent` | `EverySourceTold` | `Heard`, a part for each kind of source: one that is read once has its flag or a note from its read on (`SourcesHeard`); of a loop, what is read and what is left are together all of it, or there is a note (`OutagesHeard`, `RestartsHeard`, `DepsHeard`). The onsets that are probed are those of the clusters of the outages, which no later step changes |
| `MeasuresAreDefined` | `MeasuredAsDefined` | `Typed` (of `Shaped`): every history in the input is a sequence of points and every outage's entity is in the registry. The rest is `AnalysisProofs`, below |
| `BlameIsSound` | `BlameIsEarned` | `Fed`: what the reads brought is of what they may bring, so that the evidence made of it can be weighed. `AskedOnce`: the onsets left to probe are distinct and not among those probed, so that a cluster has one probe and the answer about it is one. `DepsSettled`: an answer without the configuration rests on no dependency. `Analysed`: what is answered is what the analysis makes of the input. The argument is below |

Each of the actions is shown once to be a step of a general form, and the proofs
of the invariants use the form: `Proceeds` (it goes on or ends, after no failure,
one that is survived, or the caller's leaving), `Moves` (where it goes on),
`Learns` (which fields of the input it may change; the notes only grow),
`Reached` (what holds when it goes on).

`AnalysisProofs` is about the operators of the analyses alone, for any sequence
of points and any finite set of failures. Its theorems are `OutagesAreMeasured`,
`CadenceIsShown`, `OrderIsNothing` and `ClustersAre`, the four parts of
`MeasuredAsDefined`. An analysis is a sort followed by folds, and its definition
in the property speaks of instants or of paths; the proofs bring the two together
by saying what holds after each place of the fold:

* A sort of a finite set by a total order is a sequence of all its elements in
  that order (`Ranking`), and a fold goes through all its steps (`FoldSteps`).
* The segments after k points are contiguous from the first to the k-th, and of
  each instant they say what `HeldAt` says (`Segmented`, `SegmentsTell`).
* The outages after m segments lie apart, in order, and cover exactly the
  instants of the segments that were down (`Outed`, `OutagesShown`); one can have
  no length, which is why the property counts instants and outages apart.
* A percentile is the interval at its rank, and of a sorted sequence at least
  rank many are at most that long and fewer are shorter (`RanksCount`).
* The groups after m windows are the components of the first m under "overlaps
  within the tolerance": a window that starts later than every end seen so far
  can be reached from none of them.

`BlameIsEarned` has four parts, each a chain from what is answered to what was
read.

* *Citation.* The hypotheses are those claims that cite evidence which is there,
  each id once (`HypothesesAre`, `Evidenced`). A confidence is the least rank of
  the cited legs, hence each leg has at least that rank, and a rank is what
  `ConfidenceEarned` asks (`SureIs`).
* *Health.* If no point of the window and not its first instant was down, no
  segment is, so there is no outage (`UpHasNoOutage`); without an outage or a
  silence nothing is claimed, and without a claim nothing is said.
* *Clusters.* There is exactly one claim for each cluster, it cites its cluster
  and no other, and its cluster is among the evidence, so that the claim is made
  (`ClustersAreBlamed`). It says "restart" just when the cluster's one probe saw
  one.
* *Runs.* The windows of a dependency that was measured contain exactly the
  instants at which `BadAt` holds (`SpansAreBad`), so that a run touches one of
  them if and only if the dependency was bad within the run's tolerance
  (`TouchedIsBad`). From left to right this gives that a blamed run has a bad
  dependency; from right to left, that a fault of the automation is only spoken
  of for a run beside which every measured dependency was well.

Two of the statements were wrong before they were proved. An outage that begins
and ends within one instant is a window to the analysis, while the earlier
`BadAt` looked only at what was held; and a dependency recorded at the period's
end alone has no coverage, hence no window, though it was bad there. Both are what the code does;
`BadAt` and `RunsBlamedFairly` now say so, and two histories of `MCDiagnosis` show
the cases.

These theorems rest on assumptions that `Diagnosis` names: limits and answer
sizes are natural numbers (`BudgetAssumption`), so are the caps (`CapAssumption`),
histories are sequences of points (`HistoryAssumption`), the registry is finite
and its ids are unique and ordered (`RegistryAssumption`), and so are the entities
that a configuration names (`ConfigAssumption`); repairs, traces and logbook rows
are sequences of records whose instants are numbers (`AnswerAssumption`). Ids are text in the code; what the
code does with them is compare, so that integers stand for their order.

Induction. The library states its induction theorems with an operator as
parameter, which the installed provers cannot instantiate. Where a proof needs
one, it takes the least member of a set of natural numbers instead: that the
order of the naturals is well founded (`NatLessThanWellFounded`, `WFMin`) is
a fact about a set, and `Least` and `Induction` follow from it. A recursive
function of the models and a fold are opened by their definition as a function
that satisfies its equation, whose existence is proved the same way
(`FoldExists`).

### What is only model-checked

Liveness (`EveryCallReturns`, `EndsAreHeard`, `NobodyIsStuck`, `WalkEnds`,
`ScanEnds`, `EveryCallEnds`) is outside what the installed provers can do:
fairness is expressed with ENABLED, which TLAPS does not reason about here.

All of `Answers` is checked on its instance only. `Logic`, `Redaction`, `TraceRun`
and what builds on them (`Upstream`, `ToolAnswers`, `Answers`) walk documents with
RECURSIVE operators, for which the provers have no backend; the proved modules
contain none.

## Not modelled, and the plan

Simplifications within the modelled parts:

* `Answers` leaves the order of lists and their pages to `Paging`, and the cache in
  front of the registries to `CachedValue`. Byte sizes are counts of nodes, steps
  and elements. The category and search filters, the cap on a
  template's length, the count of values withheld from a step and the scrubbing
  of a map's keys are left out. The four automation tools are called against seven
  configurations, the others against one installation.
* One read fails and one answer is spoiled per call (see the bounds).
* The window of an analysis is in seconds; units and wording are left out.
* `Server` takes every tool to be in one budget class, and its registry has no clock.

Not modelled: `find_unavailable_entities` (a filter over what `list_entities`
reads, with the same paging); `Redactor.Config`'s coarse coordinates and the
scrubbing of log lines; the logbook reader of lifecycle rows outside
`Diagnosis`; the handshake's frames and the random backoff delay (no state);
configuration parsing and a cursor that is not one (pure input validation);
`cmd/measure` and `cmd/spike` (experiments outside the served system); the App's
packaging.

What is left to do, in this order:

1. `Answers`: its safety properties need the walks over documents as recursive
   functions on a set of documents of bounded depth. `NothingLeaks` would come
   first.
2. Larger instances where a run has time left: three requests before two slots
   (`Server`), two failures in one call (`Diagnosis`), two spoiled answers (`Answers`).
