# NetworkRoutingPilot in TLA+

A specification of NetworkPilot (Go backend, React dashboard): modules that TLC
checks on small instances and theorems that TLAPS proves for all of them. File
and line numbers are those of the repository; `backend/`, `web/` are its
directories.

## The system

A client submits domains. The backend resolves each one, traces the path to it,
classifies the path, stores the result, and serves the domains with a good path
as routing rules. A dashboard submits jobs and polls them.

| Component | State | Operations | Talks to |
| --- | --- | --- | --- |
| api (`internal/api`) | none | createProbe, getProbe, getProbeResults, getLatestResults, getRIPE, the two delivery endpoints | store, orchestrator, parser, ripe, delivery |
| orchestrator | per job: two channels, the workers, the runner's copy of the job and its counters | EnqueueJob; runJob with its feeder, workers, closer | store, resolver, prober, geoip, classifier |
| store | rows of jobs, saved traces, latest trace per domain | CreateJob, GetJob, UpdateJob, SaveTrace, GetJobTraces, ListOptimizedRules; in Postgres or in memory | called by the two above |
| classifier | none | Classify | called by the workers |
| cmd/server | the process | buildStore, wiring, shutdown | everything |
| resolver (DoH) | cache of addresses with their expiry | LookupIPv4 | called by the workers |
| ripe | cache of records, calls in flight | Lookup | called by api |
| parser (Surge) | none | ParseSurgeDomains, recursive | called by createProbe |
| delivery | none | RenderSurgeRuleset, RenderXrayRouting, ETag | called by api |
| dashboard (`web/src/App.tsx`) | job, results, rules, the interval | submit, tick, mount | api over HTTP |
| probe, geoip | the open databases | run nexttrace and read its output; look up an address | called by the workers |
| config | none | read the environment | called once |

What is hard in it, and what would make it right:

- **The pool.** A feeder, `Concurrency` workers, a closer and a runner per job
  meet on two unbuffered channels. Every domain must be handed out once and
  tallied once, no worker may send on a closed channel, everything must end.
- **The store under it.** Every statement to Postgres may fail and the code only
  logs it; the process may die and the next one may start on the other store.
  What a completed row says must nevertheless be true, and what a client was
  told must not be taken back.
- **Shared state between runner and handlers.** The memory store returns jobs
  whose counter map is the one the runner increments. What may a poll see?
- **The classifier.** Five rules in an order, bounds, silent hops: a domain must
  not be promoted without evidence, nor its class depend on how long a probe
  waited.
- **The dashboard.** Ticks overlap, answers come late or not at all, and each
  writes to the same screen.
- **The RIPE cache.** Callers share one fetch, its leader's context and its
  failure; the cache expires and Redis may fail. No caller may wait for ever or get an old
  record, and upstream is not to be asked for what is cached.
- **The DoH cache.** Lookups of one domain share nothing but the cache, and save in the
  order their answers arrive in. No trace may go to an address that is too old.
- **Surge lists.** They include each other, themselves, or what cannot be fetched;
  nothing remembers the ones already visited. A job must have the domains its lists stand
  for, and the request must be answered.
- **Rulesets.** A 304 is about a copy the server does not know; one bad name
  stops a ruleset. A client that polls must hold the right list in the end.

`PROJECT.json` lists every hazard at its line with the properties that watch it.

## The modules

| Module | Models | Depends on |
| --- | --- | --- |
| `Model` | `internal/model`: classes, job status, counters | |
| `JobStore` | `internal/store`, both implementations; `buildStore` | `Model` |
| `JobRecords` | the abstract specification: the table of job records a polling client may count on | `Model` |
| `Orchestrator` | `internal/orchestrator`; the death and the restart of the process | `JobStore`, instances of `JobRecords` |
| `ProbeApi` | getProbe and getProbeResults beside a running job | `Orchestrator` |
| `Classifier` | `internal/classifier` | `Model` |
| `Prober` | `internal/probe`, `internal/geoip`, `enrichHops`; implements `Classifier` | `Classifier` |
| `DohResolver` | `internal/resolver` under the workers | |
| `SurgeParser` | `internal/parser` | |
| `CreateProbe` | the handler of POST /probes around the parser | `SurgeParser` |
| `Delivery` | `internal/delivery`, its two handlers, clients that poll them | `Model` |
| `RipeClient` | `internal/ripe`, getRIPE, `buildRIPE` | |
| `Dashboard` | the polling of `web/src/App.tsx` | |
| `OrchestratorProofs` | theorems about the pool, the stores and both refinements of `JobRecords` | `Orchestrator`, `TLAPS` |
| `ApiProofs` | theorems about polling beside the pool | `ProbeApi`, `OrchestratorProofs` |
| `ProberProofs` | theorems about `Classifier` and `Prober` | `Prober`, `TLAPS` |
| `DohProofs`, `RipeProofs`, `CreateProbeProofs`, `DeliveryProofs`, `DashboardProofs` | theorems about the module each is named after | that module, `TLAPS` |
| `MCOrchestrator`, `MCProbeApi`, `MCProber`, `MCDohResolver`, `MCCreateProbe`, `MCDelivery`, `MCDashboard` | constants for TLC | their modules |

### JobStore and Orchestrator

`rows[b][j]` is the row of job `j` in the store `b`, `traces[b][j]` its saved
results, `latest` the map of the same name in `MemoryStore`; `backend` is the store
the running process uses. Both stores live side by side so that a restart on
the memory fallback leaves the rows of Postgres where they are. Every operation
of the store is one statement or one critical section and therefore one step.
`MayFail` lets any statement to Postgres leave the store as it was; its callers
only log the error. A CreateJob that reports an error after its INSERT was
applied is the phase "orphan".

`phase[j]` is the program counter of `runJob`. `job[j]` is its local copy of the
row together with `counts`, `processed` and `lastErr`, which the code keeps in three
locals and copies into the row on every round. `pending[j]` is what the feeder
has left, `open[j]` the channels not yet closed, `worker[j][w]` a worker between
its receive on `tasks` and its send on `results`. A send on an unbuffered channel and
its receive are one step: `HandOut` and `Receive`. The timestamps of traces are drawn
from `clock`, so that "newest" has a meaning.

`Receive` also changes the row in memory once the row shares the map
(orchestrator.go:120 stores the very map that line 112 increments): this is the
one place where a state changes outside the store's lock.

`Die` stands for a signal, `logger.Fatalf` or a fatal runtime error:
`Shutdown` waits for HTTP handlers and not for runners. `Boot` picks the store afresh.

### ProbeApi

A client polls as the dashboard does. getProbe is two steps: the copy out of the store
and the encoding. Between them the runner may increment the shared map, so the
encoder may read every counter at any value it had in between (`Readable`). When the
runner increments while the encoder iterates, the Go runtime may end the process
(`FatalRace`): undefined behaviour, and a nondeterministic choice here.

### Classifier

A path is a sequence of hops. Autonomous systems are taken up to the four tables
of the code, addresses up to what the code asks of them, RTTs are
milliseconds. `classifyPath` and the four rules translate the code's loops: a loop
that returns at the first match is a quantifier over the first match (`Border`,
`FirstPublic`). The one variable grows by a hop per step, so that a state is a
path and an action property relates a path to the one it prolongs.

### Prober

`SampleLists` is what nexttrace may report of a TTL, in the order of its queries; `HopOf`
is the loop that takes the first usable sample, with what `EnrichHop` adds from the
databases that are open. `extractJSON` works on the pieces of the output: log lines,
objects, the trace. A run that fails, or whose output holds no trace, leaves the empty
path (`stage`). The hops then grow as those of `Classifier`, whose properties are checked
here, and proved to carry over (`ProbeImplementsPath`).

### DohResolver

`worker[w]` is one execution of `LookupIPv4` by any worker of any job: "miss" is behind
the cache, "asked" behind the request. An address is named by the time the zone gave it, some
time between the query and the arrival of its answer. `Answer` takes and caches it in one
step, as nothing in between is visible; what answers cross each other is in that time.
`LookupIPv4` deletes an expired entry, as `fromCache` does. The endpoint may stay silent: `Expire` ends
the query then, when the context that the worker gave the lookup has (`Expired`,
orchestrator.go:135), and `Tick` does not pass that deadline. Lookups begin while `MaxTime` leaves
them the time until it.

### SurgeParser and CreateProbe

`stack` holds the activations of `parseRules`, each with the list it reads, its format and its next
line: the recursion of the code, without recursion in the model. `world` says what lines the sources
have; a line is its type, its argument and whether its policy is ignored. A URL is fetched with the
context of the request, so lists at URLs can be nested as deep as its 30 s allow (`MaxNested`; the
answer to a deeper one comes after them: `Late`). A local file is opened without a context, and
stays open while what it includes is parsed (`MaxOpen`). Either fetch may fail anyway; `skipped`
records of what, and what the context was then. `Expansion` is the reference: the domains of the
lists reached, by a fixed point over the listings, from which `JobIsExpansion` takes what may be
missing, and what may not. `CreateProbe` is the handler around it, `pc` the input it is at; a
`surge_url` that is no URL names a local file (surge.go:46). The context may end at any moment; what
then cannot be fetched is passed over (surge.go:90).

### Delivery

The store is what `ListOptimizedRules` shows of it, which traces change at any time, and a ruleset
is the set of its domains, with the second of its header for Surge. A client polls in steps: the
request, the list, the rendering, the answer; requests and answers may be lost. `window` is a
history variable: every ruleset there was since the request was sent. A restart empties the rules of
the memory store and none of the clients' copies.

### Dashboard

`tick[t]` is an activation of the interval's callback: what it awaits, for which job
(its closure), and what the server answered. `Serve` and the `Show...` actions are
apart, so that answers arrive late and out of order. The interval is armed exactly when the
effect leaves it armed. The request made on mounting is one of the ticks,
awaiting rules. The server is the simplest table that `Orchestrator` implements:
a result is saved, then counted, and a job with everything counted completes.

### RipeClient

`flight[k]` is the call of the singleflight group for a key: "check" is the leader's
second read of the cache, "fetch" its request, "store" the answer not yet cached.
`caller[c]` is one execution of `Client.Lookup`. A flight may fail in "fetch" for the
leader's reasons (its client went away, its ten seconds are over) and every
follower gets that error. `cache` is a map of the process or Redis: reads and writes
of Redis may fail, which the code takes for a miss and ignores, and a restart empties only
the map. A record is named by the time upstream made it, which is some time
between the request and the arrival of its answer. A cache operation takes no time.

## The runs

Passing:

| Run | Question | Instance |
| --- | --- | --- |
| `memory` | Does every interleaving account for every domain, and do a poll's answers fit each other, over the memory store? | 1 job, every subset of 3 domains, 2 workers, 1 client, crashes; 75 k states |
| `postgres` | Do both stores implement `JobRecords`, is a completed row whole, does a client never see anything go back, does every runner end and every job over memory complete, when statements fail and processes die? | 1 job, 2 domains, 2 workers, 1 client; 112 k states |
| `classify` | Is every probed path classified on evidence, with a delta of the rule that decided, whichever databases are open, and what may a hop more or less change? | 15 kinds of hops, 7 TTLs, 3 responding; samples lost before the usable one; 594 k states |
| `create_probe` | Does a job have the domains its request stands for, may a list be cut short, is every request answered? | 3 worlds of lists (shared in two formats, nested, cyclic), 2 URLs, a local file, an inline list, 3 open files, 3 nested URLs; 7 k states |
| `doh` | Are addresses recent, how far may the cache be set back, does every lookup end? | 2 domains, 2 workers, TTL 2, timeout 1, clock to 5, restarts; 95 k states |
| `delivery` | Is what a client keeps or is sent a ruleset there was since it asked, and does it catch up? | 3 domains (one normalized twice, one outside the pattern), 2 classes, 3 traces, 1 client, both stores, losses, restarts; 20 k states |
| `ripe` | Are answers recent, is upstream asked only for what is not cached, does every lookup end? | 1 key, 2 callers, TTL 2, timeout 1, clock to 5, both caches, restarts; 95 k states |
| `dashboard` | Does the screen move forward and end whole when answers are prompt, and settle when they are late, out of order or errors? | 1 job of 2 domains (prompt) or 1 (slow), 2 ticks; 10 k states |

Violated, each the counterexample of one statement of the documentation:

| Run | The documentation | The code |
| --- | --- | --- |
| `latest_memory` | README:181, 258, only optimized rules | `MemoryStore.ListOptimizedRules` lists every class |
| `two_jobs_memory` | README:181, the latest results | the trace saved last wins over the newer one |
| `poll_torn` | README:52, 171-173, counters that add up | live counters beside a copied progress |
| `dashboard_resubmit` | README:221, the running job is polled | a tick in flight brings the previous job back |

Bounds, and why they are enough:

- **One job.** Jobs share the store, the clock and `latest`, and write only
  their own rows and traces; only `latest` relates two of them, and
  `two_jobs_memory` has two. The theorems hold for any set of jobs.
- **Two workers, two or three domains.** Two workers race on both channels, one
  may exit while the other works; three domains leave one waiting. More repeat
  these situations. The theorems hold for any number of both.
- **Two classifications.** No code of the pool or the store tells the five apart
  but the filter of `ListOptimizedRules`: one that passes it, one that does not, and
  "Blocked" for failures.
- **Seven TTLs, three responding hops.** Five silent hops and two before them
  reach both sides of the tail of `isBlocked`; the other rules look at two
  neighbouring hops and one before them.
- **Symmetry** of workers and domains is used in the run without temporal
  properties only.
- `dashboard`: over a slow link a job has one domain, for the property tells apart only the
  status a late answer carries, and a job passes all of them. Prompt links have two.
- `create_probe`: each world is there for a way lists may include each other, and
  three files or nested URLs go round every cycle of them. Requests share nothing.
- `delivery`: clients share nothing. Three traces promote a domain, demote it and
  promote another, or let both names of one domain be promoted.
- `doh`: a second worker misses, hits or saves while the first waits; the clock passes
  TTL and timeout and leaves room for an expired entry. The theorems hold for all values.
- `ripe`: keys share nothing but the process. Of two callers one leads while the
  other misses, joins or leads the next flight. The clock passes the oldest time an
  answer may have (TTL and timeout) and still leaves room for an expired record.

Deadlock is not checked: jobs end, processes stop, paths have a last hop. That
nothing waits for ever is stated as a property instead (`EveryRunnerEnds`).

## Fairness

`Orchestrator!Fairness` is weak fairness of each goroutine: the Go scheduler starves none
that can go on, a channel operation that stays possible happens. A lookup and a
probe end because their contexts time out (6 s and `ProbeTimeout`), a statement because
the driver returns. `Boot` is fair because the container is restarted. Nothing is fair
about requests, crashes or the success of a statement.

`Dashboard!Fairness` adds that the server finishes its jobs (`EveryJobCompletes`) and
strong fairness of each answer a tick waits for: errors may come for ever, but not
only errors. With weak fairness alone a tick could fail every time and nothing
would settle, which is not what the code is to blame for.

`RipeClient!Fairness` is weak fairness of the goroutines: a caller that missed
calls the group, a flight goes on, and a fetch ends by the answer, an error or the timeout
of the HTTP client (8 s). Clients, restarts and the clock are not fair.

`DohResolver!Fairness`: a worker that missed asks (the Go scheduler), time passes, and the
runtime ends a context at its deadline. Neither the answer nor an error of the endpoint is fair, so
`EveryLookupEnds` rests on the 6 s of orchestrator.go:135 and fails without them.

`CreateProbe!Fairness` is weak fairness of the handler, which runs, and of the end of the context,
which comes after 30 s. A fetch ends with a body or an error, of a URL by the end of the context at the
latest. That a body breaks off or a fetch fails is left to chance: lists at URLs that include each other
are ended by the context, local ones by the files a process can open.

`Delivery!Fairness`: clients poll, and strong fairness of the handler's steps and of
an answer that is no error: requests may be lost, the store fail and the process die again
and again, but not every time. `ClientsCatchUp` presupposes that names outside the
pattern do not stay promoted.

## The proofs

Constants are arbitrary: any sets of jobs, domains, workers, requests, clients, lists, with or
without a database, failing statements and crashes. The assumptions are named in the
modules that declare the constants (`StoreAssumption`, `OrchestratorAssumption`,
`ClassifierAssumption`, `ProberAssumption`, `DohAssumption`, `RipeAssumption`, `ParserAssumption`,
`ProbeAssumption`, `DeliveryAssumption`, `DashboardAssumption`): requests name finite sets
of known domains, there is a worker, durations are naturals, a job has a domain.

Four theorems also assume `~StoreErrors`, that no statement to Postgres fails. They say that
what a row announces is backed by saved traces, which is false without it: a failed
`SaveTrace` is logged and the progress written all the same (orchestrator.go:115). Crashes
are not excluded.

None of the properties is inductive. Each module strengthens them to an invariant that
TLC checked on small instances before it was proved; the proofs have one step per action
and under it one per conjunct the action can disturb.

`OrchestratorProofs`:

| Theorem | Says |
| --- | --- |
| `TypeCorrect` | `Spec => []TypeOK` |
| `Inductive` | `Spec => []IInv` |
| `NoTaskLost` | `Spec => []TasksAccountedFor` |
| `SafeClose` | `Spec => []NoSendOnClosedResults` |
| `WholeWhenCompleted` | `Spec => []CompletedIsWhole` |
| `DurableRefined`, `InMemoryRefined` | `Spec => RefinesDurable`, `Spec => RefinesInMemory` |
| `ProgressBacked` | `Spec => []TracesBackProgress`, if `~StoreErrors` |
| `CountsBacked` | `Spec => []CountsMatchTraces`, if `~StoreErrors` |
| `RunsOut`, `StepsFinite`, `NeverStuck` | the safety half of `EveryRunnerEnds` |

A send on the closed channel is excluded by the order
in which a pipeline shuts down: the list is empty before `tasks` is
closed, `tasks` is closed before a worker exits, and `results` is closed after all have
(`ShutdownOrder`). The tally is complete when the runner finds `results` closed, because the
domains not yet tallied are the pending ones and those that workers hold
(`TasksApart`, `TallyAgrees`), and by then there is neither. A completed row stays
whole because only a runner that returned leaves one and nothing writes to the job
afterwards (`CompletedRow`). `IInv` is the conjunction; TLC checks it in `postgres`. `CountTotal`
is written out as a sum of five so that no induction is needed.

The refinements need `RInv` beside it: what the row of a job in the store in use may be at each
point of its runner (`RowAgrees`). The row is never ahead of the runner's copy (`Behind`), which is
why the whole-row write of `UpdateJob` is a step forward of the abstract record and never back,
after failed statements too. Every write is then shown to be a step of `JobRecords` or to leave its
records alone, for each store.

`TInv` relates rows to traces: a trace is saved for every domain tallied but the one in
the runner's hands (`Counted`), the tally has the counters of those traces
(`TallyFromTraces`), and a row has no more than them (`RowBacked`).

What of `EveryRunnerEnds` needs no fairness is proved too. `Ahead` is the set of steps a job
still has before it: four per domain, two per result, one per worker, channel and end of the
runner. Nothing adds to it, every step of a goroutine of the job takes from it (`RunsOut`),
it is finite when the pool is (`StepsFinite`), and while the job runs one of the goroutines can
go on (`NeverStuck`, by the guards of their steps). Fairness adds only that a goroutine that can go on does.

`ApiProofs` adds the clients. `AInv` is the pool's invariant, that only one store has a row of a job
(`RowsApart`), and what the answer of each client may be (`PollInv`): between the copied row and the
live counters while the encoder runs, never ahead of the row it was copied from, and backed by the
results read later. `ApiTypeCorrect`, `NeverBack` (`PollsNeverGoBack`), `AnswersBacked`
(`ResultsBackAnswer`) and `CompletedIsFinal` (`CompletedAnswerIsFinal`) follow, the last two if
`~StoreErrors`. `PoolSafe` carries three theorems of the pool over to `ApiSpec`, in which a racing
encoder may kill the process.

`ProberProofs`, for paths of any length and any set of hops: `TypeCorrect`, `Evidence`
(`PromotedOnEvidence`), `DeltaFits` (`DeltaFitsVerdict`), `SilenceHarmless` (`SilenceIsHarmless`),
`CutOff` (`FiveSilentHopsBlock`) and `Outlasts` (`PromotionOutlastsTrace`). They rest on lemmas
about what prolongs a path: there is at most one first crossing (`BorderIsOne`), it stays the first
(`BorderStays`), as the first public hop does (`FirstPublicStays`), and silence, however long,
neither makes nor undoes one (`SilenceAddsNothing`). `CutOff` compares a Blocked path with all of
its cuts that lose no answer: by the last of these lemmas no rule on its answers applies to any of
them, so that the number of silent hops alone decides. `ProbeImplementsPath` (`ProbeSpec => Spec`)
shows that every step of a probe is a step of `Classifier` or leaves the path alone, because the hop
of a TTL is one of the usable samples or silent (`HopIsSample`, which needs that a set of naturals
has a least element). So `ProbedEvidence` and `ProbedVerdicts` say the same of probes, whatever
nexttrace prints. `ProbeTypeCorrect` is their type; `UnlocatedIsDemoted` follows from
`ProbedEvidence`: without a database of countries there is no overseas hop and nothing is promoted.

`DohProofs`: `TypeCorrect`, `Fresh` (`AnswersAreFresh`) and `SetBack`
(`SetBackAtMostATimeout`), for any durations. The strengthening relates an entry to the time its
address was given (`EntryInv`) and a lookup to its deadline (`LookupInv`).

`RipeProofs`: `TypeCorrect`, `Fresh` (`AnswersAreFresh`), `AskedOnce` (`AskedOncePerTTL`) and `NoOrphan`. The
strengthening bounds the age of the cached record, of the one a flight has and of the ones
callers hold, and says that a caller in a group waits for a flight that exists, which
is the safety half of `EveryLookupEnds`. `AskedOnce` is an invariant by itself, with the
types: the leader's second look excludes a hit, and until its flight lands no other can fill
the cache for that key.

`CreateProbeProofs`: `TypeCorrect`, `Expanded` (`JobIsExpansion`) and `Refused`
(`CutShortIsRefused`), for any lists, cycles included. The half that nothing is invented (`Inside`)
follows the stack: each list on it is one the request reaches. The half that nothing is forgotten
(`Whole`) says that every name asked for is found already or lies in what the activations and the
handler have before them (`Owed`). It is stated for every set of sources that contains the failed
ones, because `skipped` grows: what a list stands for once another one has failed must have been
covered before it failed. A job lacks no more than what the failed sources would have given (`Done`,
`Lost`). `Refused` follows with `Timely`: while the context is live, and of a job that Postgres
accepted for good, none of them failed because the context had ended. `Expansion` takes the least
set of lists closed under inclusion, so the proof is by that minimality and needs no induction.

`DeliveryProofs`: `TypeCorrect`, `EndsCurrent` (`PollEndsCurrent`) and `SentOnlyWhenNew`
(`UnchangedIsNotSent`). The strengthening says which domains are in `window` at each step of the
handler, and that what was listed is what either store lists once the renderer has filtered it
(`ListedIsRuleset`); a 304 is right because two payloads with one entity tag have one set of domains
(`SamePayload`).

`DashboardProofs`: `TypeCorrect`, `FinalWhole` (`FinalScreenIsWhole`) and `NeverBack`
(`ScreenNeverGoesBack`), for any number of jobs and ticks. `SInv` holds over any connection:
whatever a tick has seen or the screen shows is in the server's past (`Past`), and a job that was
created and is not shown is known to no tick (`Fresh`). `PInv` is what a prompt connection adds: one
tick at a time (`Alone`), an answer that cannot be older than the screen (`Forward`), a table level
with the bar (`Level`), and a tick that will bring the rest while a completed job is not whole yet
(`Finishing`).

Only model-checked:

- `EveryRunnerEnds`, `EveryJobCompletes`, `EventuallySettles`, `ClientsCatchUp`, `EveryRequestIsAnswered` and
  both `EveryLookupEnds`: liveness under fairness is out of the prover's reach.
- The violated runs: a counterexample needs no proof.

## What else reading the code showed

- `JobFailed` is assigned nowhere. A runner whose last write fails, or whose
  `GetJob` fails, leaves its job queued or running, as a crash does.
- A process that boots while Postgres is unreachable serves an empty memory
  store although `DATABASE_URL` is set (main.go:118; README:53 has the fallback
  for an empty `DATABASE_URL`).
- README:207 gives 3.0 ms for the border delta, the code 5.0 (classifier.go:15),
  and 80 ms behind a private network; README:210 calls a path with fewer than two responding hops
  Blocked, the code does not count them: it asks for five silent hops at the end and no
  answer of the target (`FiveSilentHopsBlock`), so that a trace of which only the target answered
  is Standard_163.
- README:208 calls every path that transits AS4809 CN2_Premium; the code also requires
  a border crossed onto a Chinese carrier (classifier.go:86).
- README:257 says the RIPE client falls back to memory when Redis is unreachable. Only a
  `REDIS_URL` that does not parse does that (main.go:130); with an unreachable Redis every
  lookup asks upstream and nothing is cached.
- A comment (classifier.go:204) counts a silent hop as private; the code skips it.
- README:53 calls jobs durable. Their rows are; but nothing resumes or fails the jobs that a dead
  process left queued or running, so they stay so.
- README:55 and 186 promise 304 answers for both rulesets. The header of the Surge list
  carries the second (server.go:166), so its entity tag is another one a second later, and a client
  is sent what it has.
- README:160 shows `DOMAIN-SUFFIX,github.com,DIRECT` as an inline list; `ignoredPolicy` drops that
  line, and with nothing else the request is refused as having no domains.
- A nested list that cannot be fetched is passed over silently, also because the request's
  deadline has passed; over the memory store the job is then accepted with what was
  found before; over Postgres it is not (`CutShortIsRefused`).
- Normalization strips one dot, so it is not idempotent: `..a` is traced as `.a` and delivered as `a`.
- The pattern of the rulesets has no underscore, which names that resolve may have: one such
  promoted domain makes both rulesets an error for everybody (delivery.go:51).
- A restart on the memory store empties the rulesets, and clients follow.
- A comment (nexttrace.go:112) speaks of log lines before the trace; when such a line is itself an object,
  the output is taken whole and cannot be read (nexttrace.go:152).
- Without its databases the process goes on (main.go:39) and classifies every domain
  as Standard_163 or Blocked, over the better results it had.
- README:221 has the dashboard refresh the rules once a job is completed. The tick that shows it completed
  stops the interval before it asks for the results and the rules; an error in either request is swallowed
  (App.tsx:41) and nothing asks again.
- The data race on the counters may also end the process (`FatalRace`).

## Plan

Done: every module above; a theorem for every safety property and every refinement that a
passing run checks.

Left:

1. Theorems that go beyond the runs: what the abstract `JobRecords` itself promises a client (a
   completed record is final, progress never falls), so that it need not be read off the pool.
2. The safety halves of the other liveness properties, as `NeverStuck` and `NoOrphan` are: a
   lookup or a request that has not ended always has a step to take, stated without ENABLED.

The number of runs stays small: a property goes into the run of its module.

## Not modelled, and why

- nexttrace itself: an external program; `Prober` takes any output it may print. The synthetic prober of
  main.go:142 returns one of five constant paths.
- `internal/config`: read once, before anything else.
- The dashboard's components: they draw what `App.tsx` keeps.
- `deploy/`, `config/`, `list.txt`: infrastructure and data.
- A bound on the work in flight: every request starts a pool of its own
  (orchestrator.go:49), the code has no bound to state.
