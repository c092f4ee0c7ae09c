# Formal model of sinkgo-culvers

sinkgo-culvers is a Go program that runs a number of *tasks* at the same time.
Each task enters a promotion again and again: it leases a proxy, fetches the
page and an anti-bot script, asks a captcha service for a token meanwhile,
submits the entry with the token and reads the result. This directory holds a
TLA+ model of the program, the TLC runs that check it on small instances and
TLAPS proofs of what holds on every instance.

## 1. The system

| component | source | state | operations |
|---|---|---|---|
| ProxyManager | `proxymanager.go` | mutex, list, cursor, two lease maps | `AddProxy`, `Read`, `Lease` (with `unlease`) |
| ListManager | `listmanager.go` | as above | as above; unused by the program |
| TaskManager | `taskmanager.go` | map of tasks with their contexts, WaitGroup | `AddTask`, `StartTask(s)`, `StopTask(s)` |
| main, taskHandler | `sinkgo-culvers.go` | per task: its place in the iteration, timer, captcha channel, proxy | one loop, six requests, a select |
| stats goroutine | `sinkgo-culvers.go` 159-197 | channel of 10, four totals | add a report, show the title |
| output goroutine | `sinkgo-culvers.go` 199-222 | channel of 10, a file | write lines; nobody sends any |
| AYCD AutoSolve client | `pkg/captcha/aycd.go` | flag, service, its map of channels and mutex | `Initialize`, `SolveRecaptcha` (waiting for ever or with a timeout), two callbacks |
| 2captcha, CapMonster clients | `pkg/captcha/2captcha.go`, `capmon.go` | none between calls | `SolveRecaptcha`: create a job, poll it |
| Akamai solvers | `pkg/akamai/*.go` | script url, script, its hash, user agent; the first configuration, base url or start is kept; shared by all tasks | `WithScriptUrl`, `WithScriptContents`, `GenerateUserAgent`, `GenerateSensorData` |
| IMAP reader | `pkg/imap/imap.go` | connection, `lastUid`, cache, stop channel | `Start` (a loop), `Get`; commented out in main |

How they meet. `main` adds as many tasks as the configuration says, starts them
and waits on the WaitGroup. Every handler is a goroutine. It calls
`ProxyManager.Lease` at the top of each iteration, starts a *captcha goroutine*
that calls the one shared captcha solver and sends what it gets over a channel
of that iteration, starts a timer of three minutes, makes its requests, calls
the one shared Akamai solver up to 66 times, and then selects between the
captcha channel and the timer. All handlers send their reports over one stats
channel. Answers of AutoSolve arrive through callbacks on the goroutine of its
session. A panic in any goroutine ends the process.

What is hard: calls of `Lease` from many goroutines over one cursor that
`AddProxy` moves under them; the race of the timer and the captcha; captcha
answers that come after their iteration; a channel that is full; the WaitGroup
against the start and the end of goroutines; callbacks against registrations in
the AutoSolve client, with a mutex held across a send that blocks;
initialisation by several calls at once; loops with no bound. `hazards` in
`PROJECT.json` lists them line by line, with the properties aimed at each.

What makes each part correct:

- ProxyManager: a proxy is leased to one task at a time and the maps agree;
  the cursor stays in the list; the error is truthful; every call returns.
- TaskManager and main: main outlives every handler it counted, and a stopped
  run ends.
- taskHandler: requests go through a proxy the pool has on record; an entry is
  made with the captcha of its own iteration; no wait is endless; no captcha
  goroutine is left behind with an answer nobody takes.
- AutoSolve client: an answered request returns; an entry that outlasts
  its call in the map of channels, and a listener stuck with the mutex held, have
  one cause only, a cancellation or a timeout (section 3: the code does not
  exclude them).
- Polling clients: no token without a finished job of the call's own; a call
  whose job has ended returns, but for the one answer that keeps CapMonster's
  loop going.
- Any captcha solver: a call returns once, and no token but the solution of its
  own request (`CaptchaSolver`).
- Akamai solvers: a request never names a script its task read before the
  current page; what is meant to be done once is done once; a call returns.
- IMAP reader: no mail that comes after `Start` is passed over; `Get` answers
  with the newest code for the address; every mail is looked into.

## 2. The modules

| module | models | extended or instantiated by |
|---|---|---|
| `LeasePool` | what a pool of leases promises (abstract) | `ProxyManager`, `TaskHandler` (INSTANCE) |
| `ProxyManager` | `proxymanager.go` | `MCProxyManager`, `ProxyManagerProofs` |
| `TaskHandler` | `taskmanager.go`, `sinkgo-culvers.go` from line 128 | `MCTaskHandler`, `TaskHandlerProofs` |
| `Aycd` | `pkg/captcha/aycd.go` | `MCAycd`, `AycdProofs` |
| `CaptchaPoll` | `pkg/captcha/2captcha.go`, `capmon.go` | `MCCaptchaPoll`, `CaptchaPollProofs` |
| `CaptchaSolver` | what a captcha solver promises (abstract), `captcha.go` | `Aycd`, `CaptchaPoll` (INSTANCE) |
| `Akamai` | `pkg/akamai/*.go` | `MCAkamai`, `AkamaiProofs` |
| `Imap` | `pkg/imap/imap.go` | `MCImap`, `ImapProofs` |
| `ProxyManagerProofs`, `ProxyManagerWalkProofs` | theorems about `ProxyManager` | |
| `TaskHandlerProofs` | theorems about `TaskHandler` | `TaskHandlerTitleProofs` |
| `TaskHandlerTitleProofs` | the theorem about the console title | |
| `AycdProofs`, `CaptchaPollProofs`, `AkamaiProofs`, `ImapProofs` | theorems about the module each is named after | |

The composition is by contract. `ProxyManager` is proved to implement
`LeasePool`; `TaskHandler` runs its handlers against `LeasePool`, so what it
shows holds with the real manager below it. In the same way its `Solve`
answers at any time, with a token or a failure, or never, once: the contract
`CaptchaSolver` states, which `Aycd` and `CaptchaPoll` are shown to implement.
What the shared Akamai solver returns is a free choice in `TaskHandler`
(`RefreshAbck`); `Akamai` looks at the solver itself. A task in `TaskHandler`
assumes that the list of proxies is not empty: the panic of `Lease` over an
empty list is in `ProxyManager` only.

Definitions whose names start with `Faulty` stand before the definition they
distort. No behaviour uses them. They are the plausible mistakes (a missing
unlock, a count made too late, one channel for all iterations) that show that
each property notices one.

### ProxyManager

`proxies`, `index`, `leases`, `leasesByTaskId` and `mu` are the fields of the
struct; a proxy is the md5 of its line, so two equal lines are two slots with
one hash. `pc`, `attempts`, `slot` and `ret` are the call of each task. `Lease`
is the call, `Enter` takes the mutex and runs `unlease`, `Probe` is a turn of
the loop up to the test of the map, `Take`, `Skip` and `GiveUp` are what follows
it, the deferred unlock included. `LeasePanics` and `AddProxyPanics` are the
reads out of range. `AddProxy` is one step, because it runs wholly under the
mutex; it may come between any two calls, as the manager's interface allows,
although `main` reads the whole file before it starts a task. Host, port and
credentials are left out, but for the number of parts of a line, which decides
whether `AddProxy` panics.

### TaskHandler

`main`, `added`, `cancelled` and `wg` are main and the task manager; `pc`,
`iterations`, `sensors`, `timer` and `captcha1` are the locals of each handler;
`solver` and `captchas` are the captcha goroutine and the channel of each
iteration; `stats` and `title` the statistics. Each request with everything the
code does to check its answer is one step: `Request(t, from, labels)` either
ends the iteration (`Continue`, every `continue` of the code) or goes on. The
wait before an iteration and between sensors is a step that may be late.
`Receive` and `TimedOut` are the two cases of the select. A token is the
iteration that asked for it, so that using another one's is visible.
`StopTask` is offered by the manager but never called by the program; the runs
let it happen at any moment.

### Aycd

`initialized` and `service` are the fields of the client, `listener` the one the
session calls. Each call walks through `CheckInitialized`, if needed
`Connect`/`Open`/`SetInitialized`/`SetService`, then `Solve`, `Lock`,
`Register`, `Send`, and waits. `Lock` to `Register` is the write of the map, so
that the unlocked read of the cancel callback can meet it (`CancelRaces`). A
send on an unbuffered channel and its receive are one step (`TokenSent`,
`CancelSent`), which blocks while the receiver is not waiting. The library is
external; what is assumed of it stands at the head of the module: one session
per key, one listener per session, callbacks one after another, each request
answered at most once with a token and cancelled at most once. The calls in
`Timed` wait in `SolveWithTimeout`, which nothing in the program calls: when its
timer wins the select the entry stays in the map, as it does after a
cancellation. `Close` only closes the session; the peer may fall silent at any
time as it is.

### CaptchaPoll

`job` is the state of the job at the provider (external), `pc` and `ret` the
call. An error may be answered at any poll; a token only for a finished job.
`PollNotReady` differs between the clients. `2captcha.go` goes round when it
reads `CAPCHA_NOT_READY`, which the service is taken to say only of a job it
works on. `capmon.go:99` goes round at every answer that has no error id and any
status but "ready", or none, so it may do so of a job that has ended as well. An
empty solution is returned without an error (`"empty"`); the handler sees the
empty string that an error gives it too, and starts its iteration again.

### CaptchaSolver

The contract the captcha goroutines rely on. `asked` and `solved` are the
requests the service has and has solved, `ret` what each call returned. In
`CaptchaPoll` a request is a job; in `Aycd` it is what was sent, and it is solved
by the peer's answer, not by the callback that delivers it.

### Akamai

`provider` is the solver main chose (only Flash is ever used), and each task goes
through `WithScriptUrl`, `WithScriptContents` and any number of
`GenerateSensorData`, as in `taskHandler`. `mem` holds the string fields of the
solver. None of them is guarded, so a string is what it is to the machine: a
pointer and a length, loaded and stored one at a time in either order (`Load`,
`Store`), and a race mixes the halves. Halves are named by the task and round
whose page they came from, so that a mixed or outdated string is visible. `config`
and `mu` are Relentless's cached configuration and its mutex, with every read
and write of the two a step, because the store (`KeepConfig`) is outside the
mutex. `initialized` and `known` are Hawk's flag and what its service really has.
Every service call succeeds or fails. Hawk's setter is called
`WithScriptContent`, so Hawk does not satisfy the interface `AkamaiSolver` and
cannot be chosen; it is modelled as if it could.

### Imap

`pc` is where the goroutine of `Start` is. The mailbox is a sequence and the uid
of a mail its position in it: mails arrive at the end and are not deleted, so
sequence numbers and uids are the same numbers. `found` is the answer to the
search (the uids from `lastUid` on, and always the last mail, as the
protocol has it for `n:*`), `messages` what the fetch has still to deliver, in
order. The goroutine that runs `Fetch` is merged into the choice of how many
messages are delivered and whether an error follows. A mail is what the reader
tells apart: its addressee, whether the criteria select it, which of its inline
parts match the pattern (the `break` in the loop over the parts leaves only the
switch, so the last inline part decides), and whether it can be read at all.
`Process` is the whole body of the loop over the messages. `Select`, `Search`,
`Fetch` and `Connect` each have the action in which they fail. `first`,
`processed` and `seen` are history.

## 3. What is checked

| run | instance | shows |
|---|---|---|
| `ProxyPool` | 3 tasks, 3 attempts, lists of up to 4 slots over 2 hashes, one malformed line | types, `LeasesMirror`, `UseIsOnRecord`, `ExclusiveUse`, `CursorInRange`, `ErrorOnlyWhenFull`, `ImplementsPool`, `LeaseReturns` |
| `TaskFleet` | 2 tasks, 2 proxies, 1 iteration each, stats buffer 2, valid webhook | types, `OwnsProxyInFlight`, `WaitCoversHandlers`, `TitleOrder` |
| `TaskRounds` | 1 task, 3 iterations, 1 proxy, malformed webhook | `SubmitsFreshCaptcha`, `AwaitEnds`, `RequesterEnds` |
| `TaskStop` | 2 tasks, 1 iteration each, no webhook | `StoppedRunEnds` |
| `AycdAnswers` | 3 requests, a good start, one answer each | `AnsweredReturns` |
| `AycdFaults` | 3 requests, starts that fail, double answers, one request with a timeout | types, `EntriesArePending`, `StuckOnlyOnLeftEntry`, `NilServiceOnlyAfterFailedStart`, `TokenLostOnlyAfterFailedStart`, `ImplementsSolver` |
| `PollEnds` | 2 calls, either client | types, `ImplementsSolver`, `EndedJobReturns` |
| `SensorSolvers` | 2 tasks, 2 rounds, every solver | types, `SendsCurrentScript`, `ConfigFetchedOnce`, `ConfigLostOnlyAfterFailure`, `InitializedMeansKnown`, `OnlyLazyFieldsPanic`, `CallsReturn` |
| `MailReader` | 3 mails of 5 kinds, 3 spellings of 2 addresses | types, `NoMailSkipped`, `AnswersAreNew`, `AnswerIsNewest`, `MailProcessed` |

Bounds, and why they are enough. `MaxProxies`, `MaxIterations`, `MaxRounds` and
`MaxUid` are the only bounds the code does not have. Lists of up to four slots
with three attempts are shorter than, as long as and longer than the walk of a
call, and two hashes over four slots repeat lines; three tasks are two that
contend and one that moves the cursor under them. The code has five attempts;
`ProxyError` uses five. Three iterations let an answer be late by one and by
two; the sensor loop has one or two turns for 66, since its turns are alike; the
stats buffer has one or two places for ten, so that it fills. Three requests in
`Aycd` are one that is stuck, one that is answered and one that registers
meanwhile. Two rounds of two tasks are a page before, the current page and
another task's; the count of fetched configurations stops at two, one more than
allowed. Three mails are the one that was there before `Start` and a batch of
two, of which a failing fetch can deliver one; the invariants of `Imap` are
proved for any number.

### Three disagreements

Three runs are expected to end in a counterexample.

- `ProxyError`: `Lease` counts its attempts after it has taken the lease
  (`proxymanager.go:128`). A call whose fifth probe finds a free proxy leases
  it and returns the error "unable to find an unleased proxy" with it. The
  handler drops the proxy; it stays leased until that task calls again.
- `TaskTimeout`: at the select (`sinkgo-culvers.go:679`) the captcha may be
  there and the timer may have fired as well, and Go picks either. The log then
  says that the captcha failed to return within three minutes, although it was
  in the channel before they were over.
- `PollBailout`: the comment over the polling loops announces a bailout
  (`2captcha.go:53`, `capmon.go:60`). There is none.

### What the properties of Aycd leave open, on purpose

`StuckOnlyOnLeftEntry`, `NilServiceOnlyAfterFailedStart` and
`TokenLostOnlyAfterFailedStart` say where trouble can come from, because the code
does not exclude it: a request cancelled or timed out and answered later blocks
its callback with the mutex held, and concurrent re-initialisation after a
failed start swaps the listener. `AycdAnswers` shows that without those two
nothing is lost. `ImplementsSolver` holds in spite of both: what is lost is never
given to another call.

### What the properties of CaptchaPoll leave open, on purpose

`EndedJobReturns` makes one exception, `capmon.go` answered again and again
without an error id and without the status "ready" of a job that has ended: the
code polls such a job for ever. For `2captcha.go` the property has no exception.
No property says that a solution is not empty, because both clients return an
empty one without an error.

### What the properties of Akamai leave open, on purpose

- `SendsCurrentScript` allows the script another task has stored since: the
  solver is shared, and nothing ties a call to the task's own page. What it
  rules out is a request with no script or with one from an earlier page of the
  same task. The second half is not stated for Hyper: there a task stores the
  hash of contents it has loaded, and by then another task may have stored its
  own, so that the hash of an old page of a task can be put back by the other.
- `OnlyLazyFieldsPanic` names the two fields in which a race can meet a length
  without data, which kills the process. Neither solver is the one main uses.
- `ConfigFetchedOnce` counts per task: the configuration is stored after the
  mutex is released, so two tasks may both fetch it. After a fetch that failed it
  says nothing: the task stores the empty string, possibly over a configuration
  another one has kept. `ConfigLostOnlyAfterFailure` says that nothing else
  loses one.
- `InitializedMeansKnown` allows the answers Hawk does not look at (`refused`).

### What the properties of Imap leave open, on purpose

`AnswerIsNewest` holds while the connection does. After a fetch that failed the
batch is fetched again, and until the loop has connected anew, which empties the
cache, an older code of that batch may overwrite a newer one. A mail that cannot
be read ends the process (`ProcessDies`), which would end every task with it.

### Fairness

- Goroutines that can run do (weak fairness of each handler's own steps, of the
  goroutines around it, of main). The Go scheduler is preemptive and fair.
- A goroutine that waits for a `sync.Mutex` gets it: after a millisecond of
  waiting the mutex is handed over in FIFO order. Hence strong fairness of
  `Enter` in `ProxyManager`. In `Aycd` weak fairness is enough for what is
  checked there.
- The timer fires; a call of `Lease` returns (shown by `LeaseReturns`).
- Nothing is assumed of the peers and the captcha services, nor of whoever
  adds proxies or stops tasks. `StoppedRunEnds` needs peers that answer, since
  the HTTP client has no timeout, and says so in its premise `PeersAnswer`.
  In `CaptchaPoll` a request to the provider is answered or fails; its job
  need not end, and CapMonster need not say of an ended one that it has.
- In `Akamai` every request is answered or fails, and a waiter gets Relentless's
  mutex (strong fairness of `Lock`, for the same reason as `Enter`).
- In `Imap` the loop never stops: nothing is ever sent on its stop channel.
  `MailProcessed` needs a network that is not down for ever, hence strong
  fairness of `Connect`, `Select`, `Search` and `Fetch` each succeeding; the
  first `Start` may fail for ever, and no mail arrives of necessity.

`CHECK_DEADLOCK FALSE` stands in the runs of `Aycd` and `CaptchaPoll`, where all
calls return in the end and nothing happens any more, of `Akamai`, whose rounds
are bounded, and of `Imap`, where an unreadable mail ends the process.

## 4. What is proved

Every invariant, every action property and every refinement that a run checks
is also a theorem, for all values of the constants the named assumptions at the
head of the modules allow. What the runs alone show is liveness: the prover has
neither fairness nor ENABLED (`LeaseReturns`, `AwaitEnds`, `RequesterEnds`,
`StoppedRunEnds`, `AnsweredReturns`, `EndedJobReturns`, `MailProcessed`,
`CallsReturn`).

Each component has one inductive invariant, `IInv` (two have a second, in a
module of its own: `Walked` and `TitleInv`): the type invariant, the
properties that are inductive with it, and the conjuncts below, which say what
a goroutine relies on between two of its steps. One lemma per action (or small
group of actions) shows that the action preserves it; a theorem per property
follows. TLC has checked each `IInv` on the instances of section 3 as well.

`ProxyManagerProofs`, for every set of tasks and lines, every list and every
`MaxAttempts` above 0; `Hash` and `Parts` are functions on the lines, and the
sentinels are different from tasks and hashes. The properties are not inductive: a call between its probe
and its writes relies on the mutex and on what it saw. `IInv` adds to the type
invariant and `LeasesMirror`, `UseIsOnRecord`, `CursorInRange`:

- `MutexHeld`: a call is in its loop exactly while it holds the mutex;
- `NothingYet`: a call in its loop holds no lease and has no answer yet, which
  is what makes `Take` keep the two maps inverse;
- `ProbeIsFresh`: the slot of a call that is about to take is in the list and
  its proxy is still free;
- `AttemptsBelow` and `CursorAtStart`: the loop's counter has room for another
  turn, and over an empty list the cursor never moves without a panic.

One lemma per action shows that it preserves `IInv` (`IInvStep`); from it follow
`TypeCorrect`, `MirrorHolds`, `UseHolds`, `Exclusion` and
`CursorHolds`.

`ProxyManagerWalkProofs`. `ErrorTruthful` needs a second invariant, `Walked`: the
slots a call has seen are the `attempts` slots behind the cursor, going round,
and every one of them is leased. When the list is no longer than the attempts
these are all its slots (`AllBehind`), and all but the last when the call leases
on its last attempt (`OthersBehind`). `Refinement` maps each step to a step of
`LeasePool` or to a stutter: `Lease` to `Ask`, `Enter` to `Release`, `Take` to
`Grant` (with the item or with the error), `GiveUp` to `Refuse`.

`ImapProofs`, for every set of mails and addresses, every spelling function that
is idempotent and every `MaxUid` above 0. What must be kept across failures is
that the cursor may lag behind what was looked into and never the other way
round. `IInv` adds to the properties:

- `CursorBetween` and `Beginning`: the cursor lies between the start and the end
  of the mailbox, and nothing is cached before `Start` has set it;
- `FoundComplete`: a search has no gap from the cursor to its last number, also
  while further mails arrive;
- `LastCompletes`: when only the last message of a batch is missing the others
  have been looked into, so moving the cursor past it skips none;
- `FetchCompletes`: a fetch without an error has delivered all of the batch, and
  with `SeenBefore` this makes what was looked into on a good connection lie
  before everything that is still to come, which keeps the answers the newest.

From it follow `TypeCorrect`, `SkipsNoMail`, `NewAnswers` and `NewestAnswer`.

`CaptchaPollProofs`, for every number of calls: `IInv` adds that a call has no
job before it created one and no result before it is done (`NothingYet`), from
which `Refinement` follows: the creation of a job is `Ask`, a
job that ends ready is `Solve`, what returns is `GiveToken` or `GiveError`, all
else a stutter.

`TaskHandlerProofs`, for every finite set of tasks (`main` adds them one by
one), every set of proxies, every buffer of at least one place, every bound on
turns and iterations, and sentinels that are no tasks and no proxies. `IInv`
has two halves.

- `Control` is what main, the pool and the life of a handler rely on.
  `PoolAgrees`: a task waits inside `Lease` only where its handler calls it, and
  a proxy it was answered with stays on record for it. Only the task itself
  can give that record up, by calling again, so no other task's step disturbs
  `OwnsProxyInFlight`. `HandlersCounted`: the WaitGroup is the *number* of
  handlers that have started and not ended, which is where the finiteness of
  the set and the library's facts about cardinality come in. `MainInOrder`: no
  handler runs before main has added all tasks, none is left to start when main
  waits. With the count they give `WaitCoversHandlers`.
- `Data` is the way of a token. `ChannelsSeparate`: the channel of an iteration
  holds only what the goroutine of that iteration sends, hence
  `SubmitsFreshCaptcha`, however late an answer is.

`NoSharedProxy` says what the record of the pool means for the requests: no two
handlers in an iteration use one proxy.

`TaskHandlerTitleProofs` proves `TitleOrder`, which no amount of looking at the
title alone can: the reports are in a buffered channel between. `Ordered`
says the same of the title after any number of the reports on their way
(`Shown`), and `Covered` counts in the handlers that have reported an attempt
and may still report its entry (`Trying`), and those that have reported an
entry and may still report it as the winner (`Winning`). The lemmas about
`Count` say what a sent and a received report do to the sums.

`AycdProofs`, for every number of calls, any of which may have a timeout, with
or without starts that fail and double answers, from `Main` and `NoCall` not
being requests.

- `MainStarts`: nobody asks before main's `Initialize` has returned. `Phases`
  ties the place of a call to its result and to the service it uses.
- `GoodStart`: after a good start there is one service and one listener, and
  they are main's, whatever the calls do. It is why
  `NilServiceOnlyAfterFailedStart` and `TokenLostOnlyAfterFailedStart` hold.
- `Registered` is the other half of `EntriesArePending`: who waits is in the
  map of the service it asked.
- `AnswersAsked` and `CallbackAgrees`: only what was sent is answered, and a
  callback on its way to deliver or delete has a request that is in the map.

`Refinement`: `Send` is `Ask`, the peer's token is `Solve`, `TokenSent` is
`GiveToken`, `CancelSent`, `TimeOut` and a start that fails are `GiveError`, and
all else a stutter (`Unseen`, `GotoUnseen`).

`AkamaiProofs`, for every number of tasks and rounds.

- `InPlace`: a task is inside the solver that was chosen, and half through a
  string only where it loads or stores one.
- `CellsCurrent`: from the store of its own url or script until its next page, a
  task finds in the shared field, word by word, either the script of its
  current page or another task's. It is an invariant although nothing is
  locked: a task overwrites words only with its own current script, and this is
  current for every other task too, because it is not theirs (`OwnScript`).
- `LoadsCurrent`: the same of what a task has loaded; `HashStored`: a hash that
  is loaded has been stored. Together they give `SendsCurrentScript`, and that
  the only strings that can be found with a length and no data are the two of
  `OnlyLazyFieldsPanic`.
- `ConfigStays`: until a fetch fails, a config is never overwritten with none,
  so a task that has fetched one meets it, and `KeepConfig`, outside the mutex,
  stores one (`LostOnlyAfterFailure`). `FlagAfterAnswer` is what Hawk's
  flag relies on between the answer and its store.

## 5. Not modelled

- `ListManager`: its `AddLine` and `Lease` are those of `ProxyManager` line by
  line, without lines that panic; the program does not use it. Since the
  theorems about `ProxyManager` hold for every `Parts`, they hold for it, with
  `Parts` constantly 2. It has no module of its own.
- In the Akamai solvers, fields that are written and never read: Hyper's count
  of requests, the user agents of all but Hawk.
- In the mail reader, the deletion of mails and a server that delivers out of
  order; the eviction and the asynchronous writes of ristretto, the cache behind
  `Get`: what is put into it is taken to be there at once and to stay.
- `Close` of the AutoSolve client: nothing calls it.
- Configuration, logging and the expiry date: over before any task exists.
- The content of requests and pages, headers, cookies, names, waits: data the
  properties do not tell apart.
- Data races whose only effect is on a value nobody relies on (the shared
  `rand.Rand`).

## 6. Plan

In order, what is there first.

1. `LeasePool`, `ProxyManager` and its proofs: the state all tasks share. Done.
2. `TaskHandler` over `LeasePool`: the life of a task and of the run. Done.
3. `Aycd`, `CaptchaPoll`: the captcha services. Done.
4. `Akamai`: the solver the tasks share. Done.
5. `Imap`: the loop of `Start` against failures, reconnects and `Get`, and its
   proofs. Done.
6. `CaptchaSolver`, implemented by `Aycd` and `CaptchaPoll`. Done, and proved for
   both.
7. Proofs of the safety properties of `TaskHandler`, `Aycd` and `Akamai`. Done.
   What is left to the runs is liveness.
