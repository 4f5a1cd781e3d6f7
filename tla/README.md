# Formal model of k8s-compute-mcp

TLA+ modules, TLC configurations and TLAPS proofs kept beside the Go code of
`k8s-compute-mcp`, an MCP server whose tools submit compute jobs to a Kubernetes
cluster, ask for their status and read files they left behind. Paths are relative to the
repository; every definition that models code has an entry in `PROJECT.json` ("map") with
its lines.

## 1. The system

| Component | Source | State it keeps | Operations |
|---|---|---|---|
| Retry loop | `internal/k8s/retry.go` | attempt, last error, back-off, per call | `RetryOnTransient` |
| Submit tools | `internal/mcp/handlers.go`, `internal/k8s/{mpijob,jobset,job}.go` | none but the `ActiveJobs` gauge; the objects live in the cluster | `handleSubmitMPIJob`, `handleSubmitMonteCarlo`, `handleSubmitReducer`, `Build*`, `Submit*` |
| check_status | same files | none | `handleCheckStatus`, `Get*Status` |
| Condition phase | `internal/k8s/status.go` | none | `extractConditionPhase` |
| read_artifact_head | `internal/k8s/reader.go` | the reader pod in the cluster | `ReadArtifactHead` and its deferred cleanup |
| Orphan cleaner | `internal/k8s/reader.go` | none | `CleanupOrphanedReaderPods` |
| Path and text helpers | `handlers.go`, `reader.go`, `mpijob.go` | none | `validateArtifactPath`, `countLines`, `uniqueHeredocDelimiter`, `buildMPICommand` |
| Tool dispatch, metrics | `internal/mcp/{server,metrics}.go` | Prometheus counters | `newToolHandler` |
| Server lifecycle | `cmd/server/main.go`, `server.go` | two channels, a context, stdin | `main`, its signal goroutine, `NewServer`, `Run` |
| Health server | `internal/mcp/health.go` | the HTTP server and the goroutine that shuts it down | `Start`, `handleHealthz`, `handleReadyz` |
| Client set-up | `internal/k8s/client.go` | configuration, read once | `NewClient`, `Ping` |
| Schemas, prompts, build info, Helm, e2e harness | `tools.go`, `pkg/prompts`, `internal/info`, `deployment`, `test/e2e` | none | none |

How they interact. A tool call arrives on stdin and runs in a goroutine of its own under
a context that may be cancelled. Its handler validates the input and calls a method of the
Kubernetes client. Methods that create, get or delete go through the retry loop; each
attempt is a request to the API server, most of them with a deadline of ten seconds. The
cluster is the only state that calls share, besides counters: jobs are moved on by their
controllers and pods by the kubelet while calls read or delete them. The process itself is
`main`, waiting in `Run` for its context or for `ServeStdio`, next to a signal goroutine and
a health server that nobody waits for. `Run` stops `ServeStdio` by closing stdin under it.

What is hard: an attempt that gives up leaves its request on the way, so it may be
executed after the retry, after the answer to the client, or after the process is gone;
concurrent calls may draw the same name; a cancelled call must still clean up; status is
read while it changes; the process may be killed anywhere (the e2e client ends the server
with `Process.Kill`); a signal is heard by two listeners, of which one may not be there
yet. `PROJECT.json` lists these hazards line by line.

What makes each part correct: the loop repeats only what may be repeated, and ends; a
submit call makes objects under one name only, says "ok" only for its own, and "error" of an
object only when an attempt was left in doubt; a check reports an
ended job as it ended; a read ends, returns only what a successful pod printed, and
leaves nothing behind; the server ends when told to, not under a call it has in hand, and
with the right exit code; a manifest does in the cluster what the tool says it does.

## 2. Modules

| Module | What it is |
|---|---|
| `RetryOnTransient` | the loop as a component: one operator per step, the context's error passed in by the module that uses it |
| `RetryCalls` | the loop on its own, with an `fn` that returns anything, plus two history variables |
| `KubeApi` | requests in flight: sent by an attempt, executed at any time, answered to the attempt or to nobody, or sent again by client-go |
| `Submit` | the three submit tools over `KubeApi` |
| `AtMostOnceSubmit` | the abstract specification of submission, which `Submit` implements |
| `ConditionPhase` | `extractConditionPhase` as a recursive function over the list |
| `JobStatus` | `check_status` over `RetryOnTransient` and `ConditionPhase`, against the controllers |
| `ArtifactText` | the path check, `head`, the log limit and `countLines`, as functions |
| `ReadArtifact` | `read_artifact_head` and the orphan cleaner over `KubeApi` and `ArtifactText` |
| `Manifests` | the way from environment and kubeconfig to the manifests, as functions |
| `ServerRun` | `main`, `Run`, the dispatch of calls, the counters and the health server |
| `MCSubmit`, `MCReadArtifact`, `MCFunctions` | instances for TLC; `MCFunctions` states what the functions are for |
| `RetryProofs`, `RetryCallsProofs`, `SubmitProofs`, `JobStatusProofs`, `ReadArtifactProofs`, `ServerRunProofs` | theorems and proofs about the components |
| `ConditionPhaseProofs`, `FunctionsProofs` | theorems and proofs about the functions |

Definitions named `X_Something` directly before a definition `X` are mutants: plausible bugs
that no specification uses. Each shows that a property of a run notices the bug.

### Correspondence

*Retry loop.* `retry[c].pc` is the program counter: `check` at the top of the loop, `call`
inside `fn`, `backoff` in the select, `returned`. `attempt`, `lastErr` and `backoff` are
the Go variables. Errors are members of a small set, told apart by what `isTransient` can
tell apart: reason, HTTP code and `Temporary()`. The select is two actions that may both
be enabled. A per-attempt deadline that expires is a temporary network error
(`context.DeadlineExceeded` is a `net.Error` whose `Temporary()` is true) and so is
retried; a cancelled context is not. Jitter and durations are left out. `Record` keeps
two results more than the code's attempts can have, so that the history stays finite
whatever the loop does.

*Submit tools.* `stage[c]` is where the handler is, `job[c]` the object it named. `Refuse`
and `Accept` are the validation of the three handlers and their builders; `SendCreate`,
`CreateTimesOut`, `CreateBreaks` and `LoopGoesOn` the attempts; `Respond` the increment of
the gauge and the answer. The name is drawn once and repeated by every attempt: that is
what makes a retry safe. `Commit`, `Conflict` and `Reject` are the API server, `net` the
requests it may still execute. An attempt is one `Create` of client-go, which may send its
request more than once: it does so by itself when a server error carries a `Retry-After`.
Where such an error follows an execution, `SentAgain` leaves the request in flight and the
attempt waiting. `Remove` is whatever takes an object away, its TTL (`job.go:75`) or a user,
at any time after it was created. `Crash` loses handlers, frames and gauge, and nothing of
the cluster or the network. `made` and `doubt` are history: the object a call has made, and
the calls of which an attempt ended without the API server saying what it did. Of a manifest
only kind, namespace and name are kept here (the rest is in `Manifests`).

*check_status.* `object` is the API server's copy. The controllers are external: pods of a
Job fail and are replaced up to `backoffLimit` 3 (as `BuildReducerJob` sets it, with
`restartPolicy: Never`); the operators of MPIJob and JobSet set conditions, in place or at
the end, as the repository's tests show them. `got` is an answer on its way, `seen` the
variable the closure of `Get*Status` assigns. Served and delivered are two steps, so the
object moves on between them.

*read_artifact_head.* `read[r].pc` follows `ReadArtifactHead`: create, wait, status, logs,
cleanup. `Return` is a Go `return` after the `defer` statement: it enters the cleanup, whose
context (`cleanErr`) is derived from the background context. `trouble[r]` is history: some
create or delete of this read had no clear success (`Executed` is a request that the API
server carries out, and answers, or leaves to client-go to send again). The poll and the log
request are not retried, as in the code. The status check and the log stream wait for as long
as the context of the call lives (`StatusInterrupted`, `LogsInterrupted`). Pods leave the
cluster when their deletion is served; grace periods are left out. Pod names are unique here
(colliding names are the subject of `Submit`). `cleaner.orphans` is history: the reads that
were over, with nothing on its way, when the sweep listed the pods. `Leftovers` are the pods
that earlier processes may have left before the first step.

*The process.* `main.pc` is where `main` and `Run` are: `setup` until `NewServer` returned,
`select`, `wait` (the receive from `errChan` after a cancellation), `exited`. A signal is put
into two channels of capacity one (`heard`), those of `main` and, once it has registered, of
`ServeStdio`; the first cancels `Run`'s context, the second that of the tools. `ServeStdio` is
mcp-go's and external: a read loop, workers, and a wait for what the workers have in hand.
`stdin.pollable` says whether closing the file interrupts a blocked read: the Go runtime
decides that by the kind of file, so the initial state leaves it open. `call[c]` runs
through `newToolHandler`: the handler, its deferred cleanup, the observation of the
duration, the count of the request, the count of the error, the answer. What a handler does
in between is the subject of the other modules. A kill, and a SIGPIPE on the stdout of a
client that is gone, end the process at any point; they are outside of `ServerRun`
(`Submit` and `ReadArtifact` have kills). A request to the health server is open or
not; `/readyz` may stay open because `Ping` passes no context on (`client.go:170-171`).

*Functions.* A path is the sequence of its segments, a text the sequence of its characters
(newline or not), a program the sequence of its lines. `uniqueHeredocDelimiter` and those
that use it return the set of what they may return, because the delimiter is random.
`Expanded` is what the kubelet does to a container's arguments before any program sees them:
`$(NAME)` becomes the value of a variable of the container (`MOUNT_PATH` is the one the
builder sets), and `$$` becomes `$`. It is applied line by line; a reference that spans lines
is not among the inputs. Paths are taken in a tree without symbolic links. In an indexed Job
each completion has one pod here: a replacement under `backoffLimit` has the index of the pod
it replaces, and may overlap with it.
Properties in `MCFunctions` compare each function with what the file system, the shell or a
controller does with its result, modelled apart from it.

## 3. What the runs check

| Run | Question | Instance | Distinct states |
|---|---|---|---|
| `retry` | what is repeated, when the loop gives up, its back-off, that it ends | 1 call at a time, 4 attempts, cap 300 ms | 56 155 |
| `submit` | no second object of a call, no false success, errors to be believed, gauge no higher than what was made; refinement of `AtMostOnceSubmit` | 2 calls, 2 names, 2 kinds, a default and an invalid namespace, 1 retry, 1 kill, removals | 841 116 |
| `submit_answers` | every call answered | 2 calls, 1 name, the third kind, 1 retry, 1 kill, removals | 195 424 |
| `job_status` | ended objects reported truthfully, success final, checks answered | 2 checks in a row, 3 kinds, backoffLimit 3, 1 retry | 292 250 |
| `functions` | eight functions against what they are for | lists of up to 3 of 17 conditions, paths of 4 of 6 segments and 4 mounts, texts of 5 characters, programs of 4 of 5 lines, 3 replicas, 3 contexts | 64 663 |
| `read` | reads end, clean up, and return only true content; a sweep does its work and says so | 1 live read, or 2 pods an earlier process left; the cleaner, 1 retry, 1 kill | 876 992 |
| `server` | exit code, calls in hand, counters, and that the process ends | 2 calls, 2 signals, 1 open health request | 380 880 |
| `submit_gauge`, `job_status_failed`, `job_status_phases`, `read_orphan`, `read_retries` | statements of the documentation that the code does not keep | as above | violated |

Bounds. One retry already makes two requests of one call meet in the network, and every
further attempt repeats the same steps (the `retry` run takes all four). The code's own
constants never let the back-off reach its cap of two seconds; `retry` lowers the cap to 300
ms, so that capping is seen at all. Two calls are enough for any conflict over a name,
because an object has one owner; the theorems of section 5 cover the other sizes. The three
kinds differ in their validation only, and are divided between `submit` and `submit_answers`.
One kill separates what survives it from what does not. Of the API server's errors each run
takes at most one client error (403), one transient one (429), one 5xx that may follow an execution
(504) and one broken connection; `retry` takes all fifteen. `MaxCrashes`, `MaxChecks` and
`MaxSignals` are the only bounds on otherwise unbounded behaviour; those of `MCFunctions` are
sizes of inputs. Two signals are one before and one after `ServeStdio` has registered; two
calls are one in hand and one that waits. Four segments let a path go up, come back and pass
a neighbour of the mount; four lines put the delimiter first, last, and inside with lines on
both sides.

In `read` the API server has one error (504), which may come before an execution or after it
and with which client-go's own resends come in, besides its own conflicts, one broken
connection and lost answers; to the retry loop 429 and 504 are the same. Reads share neither
pods nor names, so one live read shows what a read does.
A sweep is another matter: it has to go on after a deletion that failed and must not forget
it. `Leftovers` therefore gives `read` a second initial state, in which an earlier process
left one pod that still runs and one that ended, so that one deletion may fail and the other
succeed, in either order.

`CHECK_DEADLOCK FALSE` is set where every call may be over and nothing more can happen.

A subtle case is `ErrorsAreTruthful`. As long as the API server has answered every attempt
with what it did, an error means that the call has made nothing and never will. Once an
attempt is in doubt (it timed out, its connection broke, it was sent again, or it was
answered 504 after it was executed) an error proves nothing: the first attempt may have been
executed and its answer lost, in which case the second meets 409 for the call's own object,
and the same happens inside one attempt when client-go resends its request. The handler
then answers an error for a job that exists, and with a new call (a new name) the client
would run it twice. `AtMostOnceSubmit` therefore promises nothing for "error". Nor does it
promise that an object is created only once: one that was removed before the retry of an
attempt whose answer was lost is made again, under the same name.

`SweepReportIsTrue` excepts the pods whose own read had trouble. That is more than the pods
that were brought back, but which of them were is not to be told from the outside; for reads
that were over and settled `SweepReclaimsOrphans` makes no exception.

### Disagreements with the documentation

* `submit_gauge`: `mcp_active_jobs` is "Number of currently active Kubernetes jobs"
  (`metrics.go:61`), but a create executed after its attempt gave up is never counted. The
  property asks only of a process that was never restarted, while nothing was removed: the
  gauge is never decremented (TODO at `handlers.go:127`), so every object that its TTL
  removes leaves it too high, and it restarts at zero while the objects stay. What does hold
  is `GaugeCountsOnlyMade`.
* `job_status_failed`: a batch Job is answered `Failed` after its first failed pod, while its
  controller will start another (`handlers.go:325` speaks of "conditions and counts"; only
  counts are read).
* `job_status_phases`: phases other than Pending, Running, Succeeded and Failed
  (`tools.go:86`, `server.go:164`) are answered for MPIJobs and JobSets;
  `test/e2e/e2e_test.go:103` waits for `Succeeded` on a JobSet, whose condition is
  `Completed`.
* `read_orphan`: "Ensure cleanup happens regardless of outcome" (`reader.go:175`) does not
  hold when the create loop fails after the pod was created, or when the delete fails.
* `read_retries`: polls and log requests are not retried (`README.md:279` says transient
  errors are).

Met while modelling, and without a run of their own:

* The cleaner, which "can be called during startup or periodically" (`reader.go:306-307`),
  deletes every pod with the reader label, those of live reads included. Nothing in the
  repository calls it today, so only the run `read` enables it. Called
  periodically it would break reads: `ContentOnlyFromSucceeded` needs an exception for a pod
  that was swept and made again by a late duplicate of its read's create.
* "On context cancellation it performs a graceful shutdown" (`health.go:49`): the shutdown
  grants open requests five seconds, but `Run` and `main` do not wait for it. A model run of
  the property "no exit under an open request before the five seconds are over" has a
  counterexample: signal, stdin closed, `ServeStdio` returns, exit.
* `Run` "blocks until the context is canceled or an error occurs" (`server.go:211`), but
  returns nil when stdin ends. The Helm deployment gives the container no stdin, so that it
  reads end of file and the process exits with 0 at once.
* A signal that arrives before `ServeStdio` has registered cancels `Run`'s context only. Then
  a handler that waits for an unanswered status check holds the shutdown up for ever, and so
  does a read of a stdin that `Close` does not interrupt: that is `HeldUp`, the exception in
  `ShutdownEnds`. `server.go:240` expects the close to unblock `ServeStdio`.
* `/metrics` (`README.md:266`, `README.md:208`) is not served: `NewHealthServer` registers
  `/healthz` and `/readyz`, and only tests call `RegisterMetricsHandler`. The port is 8080
  (`server.go:219`), not 8081 (`README.md:260`).
* `mcp_tool_requests_total` is the "Total number of MCP tool invocations" (`metrics.go:45`):
  a call whose arguments do not bind or whose handler panics is answered and not counted.
  `CountersCoverAnswers` is therefore about the calls whose handler returned.
* `BuildMPIJob` falls back to an image with a compiler (`mpijob.go:80`), which the server
  never lets it use: `DefaultImage` is always set (`server.go:50`). And the C++ program is
  built in the launcher's `/tmp`, which the workers do not share.
* A kubeconfig file is required, in a cluster as well (`client.go:106-114`).
* Code is a container argument, and the kubelet expands it: in C++ or Python code,
  `$(MOUNT_PATH)` (`mpijob.go:224-229`) is replaced by the mount path and `$$` by `$`, in
  strings and comments too. `CodeArrivesAsExpanded` says what is left: no line is lost or
  added, and the here-document ends where it should.
* `validateArtifactPath` reads the text of a path, and the pod opens the file it names
  (`reader.go:115`). Where a name is a symbolic link on the volume, the two need not agree.
  `AcceptedIsInsideUnlessLinked` is therefore about trees without links only; what links lead
  to is outside of the code and of the model.

## 4. Fairness

Weak fairness is asked of the program only: a goroutine that can run is scheduled, a timer
fires. In `Submit` and `JobStatus` it covers the steps of the handler and its deadlines, and
no answer of the API server, no broken connection and no step of a controller: calls are
answered because every attempt has a deadline. In `RetryCalls` it includes that `fn`
returns, which the per-attempt deadline of its callers provides. In `ReadArtifact` it covers
the read and its cleanup and no answer of the API server: `EveryReadEnds` excepts the read
that nobody cancels and whose status check or log stream (`reader.go:191`, `reader.go:264`,
without a deadline) is never answered. In `ServerRun` it covers `main`, the signal goroutine,
`ServeStdio` and the steps a call takes by itself: a handler returns when its context is
cancelled, and its cleanup ends by itself, which is what `EveryReadEnds` shows of the longest
one. Nothing is asked of the client, of signals, of a running handler or of the health
server.

## 5. Proofs

Every safety property of a passing run is a theorem. The theorems hold for any set of calls,
reads, names and namespaces and any number of attempts, checks, signals and kills, from the
assumptions on the constants, which TLC evaluates in the runs: `RetryAssumption`,
`KubeApiAssumption`, `SubmitAssumption`, `StatusAssumption`, `ReadAssumption`,
`ServerAssumption` and `FunctionsAssumption` say what kind of thing each constant is and that
different things have different names; `DelimitersAssumption` says that a random delimiter
("CPPEOF_" and eight characters) is neither a line that is expanded nor what one becomes.

Few of the properties are inductive, and the invariants are where the arguments are.

**`RetryProofs`** states once what each step of the loop does to a frame; the proofs of the
modules over the loop cite it.

**`RetryCallsProofs`**: `TypeOK`, `OnlyTransientRetried`, `GivesUpOnlyWhenDue` and
`CancelStopsRetries` are consequences of one inductive invariant. The properties speak of the
history of results, so the invariant ties the history to the frame: there are as many
results as attempts made, the last is `lastErr`, all but the last were transient, and a
result that came late is followed by no attempt (once the context is done, the only way
out of `check` and `backoff` that sees another result is barred). `BackoffSchedule` compares
a loop that caps its wait at every step with an exponential that is capped once. That
`Grown` is the function its recursive definition says it is, is shown by a least
counterexample (so are all recursive functions here, because the induction theorems of the
library are out of the prover's reach); the rest is that capping commutes with a factor of
at least one.

**`SubmitProofs`**: `TypeOK`, `AtMostOneJobPerCall`, `SuccessNamesOwnJob` and the refinement
`PromiseKept` follow from `IInv`: an object is where its call has made one (`OwnedByMaker`), a
call makes objects at its `job` only; a call with requests in flight has a name; a frame that
returned success belongs to a call that made its object; an answer is given once. The heart
is that a name is never changed, so however many requests of a call are executed, resent or
executed again after a removal, they all aim at one id. `ErrorsAreTruthful` needs a second
invariant, `Clear`: as long as no attempt of a call is in doubt, it has at most the one
request of its present attempt in flight, and has made its object only if that attempt
returned success; so it cannot return an error with either. `GaugeCountsOnlyMade` goes
through the calls that were told "ok" (`Told`), which are makers: an increment adds a *new*
call to them, so that there are always at least as many as the gauge says; a kill only
lowers the gauge, and a maker stays one when its object is removed.

**`ServerRunProofs`**: `TypeOK`, `ShutdownIsClean`, `NothingCutShort` and
`CountersCoverAnswers`. For the second, `Clean` adds why the error of a `ServeStdio` whose
stdin was closed under it never reaches the exit code: stdin is closed only by `Run`, which
then is no longer in the select that would return that error. For the third, `Waited` adds
that a `ServeStdio` that has returned has no call in hand, and that no worker takes one
afterwards; `main` exits only after it returned, or before there is a call. For the last,
`Counting` makes each counter exactly the number of calls that have passed the statement
which increments it; the order of these statements in `newToolHandler` gives the
inequalities. Nothing says that the calls are finitely many, so the invariant also says
that those observed so far are.

**`JobStatusProofs`**: `TypeOK`, `FinishedIsReported` and `SuccessIsFinal`. Both relate an
answer to an object that may have moved on since it was read, by an attempt that need not be
the last. `Coherent` is what the controllers keep true of every copy of the object: the
condition that ends it is its last, and true, and the counts of a Job agree with its
condition. `Promised` says of a copy that it will succeed; it is never taken back.
`ReadBy` is about copies on their way: one may be old, but it is promised only if the object
is; it shows the outcome there was when the check began, if there was one; and if a success
has been answered before, it is promised. So a success, once answered, is what every later
copy shows. `PhaseAtTheEnd` brings in `extractConditionPhase`: of a list whose ending
condition is last, it returns that condition, whatever precedes it.

**`ReadArtifactProofs`**: `TypeOK`, `NoOrphanWithoutTrouble`, `ContentOnlyFromSucceeded`,
`SweepReportIsTrue` and `SweepReclaimsOrphans`, for any number of reads under one sweep and
any pods left by earlier processes. What an attempt does to the network is stated first, for
every user of `KubeApi`. The invariant has five parts for each read and two for the sweep.
`Untroubled`: as long as every create and delete had a clear success, there is at most the
one request of the present first attempt on its way, and whether there is a pod can be told
from where the read is. `MadeOnce`: without trouble a pod is not made a second time, which
is what lets the sweep rely on its list. `Watched`: the pod that the poll saw end stays as it
ended, or was swept; that closes the gap between the status check and the logs.
`SweptClean`: a pod the sweep is through with is gone unless its own read had trouble, and
that of an orphan is gone for good, because a read that is over with nothing on its way
(`Settled`) stays so and nobody else makes its pod.

**`ConditionPhaseProofs`**: `extractConditionPhase` is a recursive function over the list. The
theorem `LastConditionDecides` gives it in closed form for lists of any length, from which
both `JobStatusProofs` and `FunctionsProofs` start.

**`FunctionsProofs`**: the input of `MCFunctions` never changes, so `Spec => []P` says that `P`
holds of every input; the bounds on the lengths are constants, hence arbitrary, and the
lemmas do not mention them. What stays fixed is the alphabet of the inputs (the segments, the
condition types, the namespaces), which has a member for each case the code tells
apart. The three that are long:

* `CodeArrivesAsExpanded`: `HasLine` looks for the delimiter as the code does, in the first
  line, the last and between; no line escapes it. No line becomes a delimiter by its
  expansion, and the builder's own lines stay as they are, so the first line that ends the
  here-document is the one the builder added, and the rest is the two commands.
* `LinesAreCounted`: newlines before a place, and lines that start up to it, are counted by
  the same recursion. `head` cuts at the place of a newline, the log limit anywhere, and
  `countLines` adds the line that has no newline of its own.
* `AcceptedIsInsideUnlessLinked`: `filepath.Clean` goes over a path once, with the names so
  far on a stack, whereas `FileOf` keeps the names that no later ".." takes back. `Tracks`
  says that after every segment the stack is the names that stand, in order, and that what
  follows a standing name has as many more names than ".." as names stand after it, so that
  the next ".." takes the last of them and no other. It is kept by each kind of segment, and
  holds at the end by a least counterexample over the segments.

Left to TLC is liveness (`EveryCallReturns`, `EveryCallAnswered`, `EveryCheckAnswered`,
`EveryReadEnds`, `ShutdownEnds`, `HangUpEnds`), which is out of the prover's reach, and the
violations of section 3, which are counterexamples.

## 6. Not modelled, and the plan

Modelled: everything that changes state. What is left to do is an instance of `ReadArtifact`
with two live reads under a sweep, if it can be made small enough for liveness; its safety
is covered by the theorems.

Left out for good: the wording of messages and logs, JSON schemas, prompts, build
information, Helm and image files, CI, and the e2e harness, which have no behaviour of
their own to check; the internals of mcp-go and client-go, which are external.
