-------------------------------- MODULE ServerRun --------------------------------
(***************************************************************************)
(* The life of the server process: main and its signal goroutine           *)
(* (cmd/server/main.go), Server.Run and the dispatch of tool calls         *)
(* (internal/mcp/server.go), the counters (metrics.go) and the health      *)
(* server (health.go).                                                     *)
(*                                                                         *)
(* ServeStdio belongs to mcp-go and is external: it reads calls from stdin *)
(* and hands them to workers; it has a signal handler and a context of its *)
(* own, which is the one the tools get; when reading ends it waits for the *)
(* calls its workers have in hand, and returns.  What a tool does is the   *)
(* subject of the other modules: here it runs, may still have a cleanup to *)
(* do when it has a result or was cancelled, and returns.                  *)
(***************************************************************************)
EXTENDS Integers, FiniteSets

CONSTANTS
  Calls,       \* the tool calls the client sends
  Probes,      \* the requests that the health server may have open at a time
  MaxSignals   \* bound on the number of SIGINT and SIGTERM received

ASSUME ServerAssumption == MaxSignals \in Nat

VARIABLES
  main,       \* main and Run: where they are, and the exit code
  cancelled,  \* whether main's ctx is cancelled
  signals,    \* how many signals have arrived
  heard,      \* who has a signal: main's goroutine, and that of ServeStdio
  stdin,      \* what the client did to its end, whether ours is closed, and
              \* whether Close interrupts a Read (a pipe the runtime can poll)
  stdio,      \* ServeStdio: where it is, and the error it ends with
  call,       \* call[c]: where the tool call is, and how its handler ended
  count,      \* the Prometheus counters, over all tools
  health,     \* the health server and the goroutine that shuts it down
  unserved    \* the requests to the health server that await their answer

hearing == <<signals, heard>>
serving == <<stdin, stdio, call, count>>
probing == <<health, unserved>>
vars == <<main, cancelled, hearing, serving, probing>>

Alive == main.pc # "exited"

Init ==
  /\ main = [pc |-> "setup", code |-> 0]
  /\ cancelled = FALSE
  /\ signals = 0
  /\ heard = [main |-> "no", stdio |-> "deaf"]
  /\ stdin \in [client : {"open"}, closed : {FALSE}, pollable : BOOLEAN]
  /\ stdio = [pc |-> "off", err |-> "nil"]
  /\ call = [c \in Calls |-> [pc |-> "idle", res |-> "none"]]
  /\ count = [observed |-> 0, success |-> 0, error |-> 0, failures |-> 0]
  /\ health = "off"
  /\ unserved = {}

----------------------------------------------------------------------------
(* main and Run.                                                           *)

\* Mutant: an exit code that is none.
Exit_MinusOne(err) ==
  main' = [pc |-> "exited", code |-> IF err \in {"nil", "Canceled"} THEN 0 ELSE -1]

\* The deferred cancel of main has no effect left when the process ends.
Exit(err) == main' = [pc |-> "exited", code |-> IF err \in {"nil", "Canceled"} THEN 0 ELSE 1]

\* NewServer succeeds and Run starts its two goroutines, or the process ends.
Setup == /\ main.pc = "setup"
         /\ \/ /\ main'   = [main EXCEPT !.pc = "select"]
               /\ stdio'  = [stdio EXCEPT !.pc = "starting"]
               /\ health' = "starting"
            \/ Exit("setup failed") /\ UNCHANGED <<stdio, health>>
         /\ UNCHANGED <<cancelled, hearing, stdin, call, count, unserved>>

\* Mutant: stdin is left open.
RunSeesCancel_NoClose == /\ main.pc = "select"
                         /\ cancelled
                         /\ main' = [main EXCEPT !.pc = "wait"]
                         /\ UNCHANGED <<cancelled, hearing, serving, probing>>

\* The select of Run: the context is done, and stdin is closed ...
RunSeesCancel == /\ main.pc = "select"
                 /\ cancelled
                 /\ main'  = [main EXCEPT !.pc = "wait"]
                 /\ stdin' = [stdin EXCEPT !.closed = TRUE]
                 /\ UNCHANGED <<cancelled, hearing, stdio, call, count, probing>>

\* Mutant: Run waits for its other goroutine as well.
RunSeesEnd_BothEnd == /\ main.pc = "select"
                      /\ stdio.pc = "returned"
                      /\ health \in {"failed", "draining", "drained", "gave up"}
                      /\ Exit(stdio.err)
                      /\ UNCHANGED <<cancelled, hearing, serving, probing>>

\* ... or ServeStdio has returned, even if the context is done as well.
RunSeesEnd == /\ main.pc = "select"
              /\ stdio.pc = "returned"
              /\ Exit(stdio.err)
              /\ UNCHANGED <<cancelled, hearing, serving, probing>>

\* Mutants: Run returns what ServeStdio returned; Run does not wait for it.
RunWaited_ItsError == /\ main.pc = "wait"
                      /\ stdio.pc = "returned"
                      /\ Exit(stdio.err)
                      /\ UNCHANGED <<cancelled, hearing, serving, probing>>
RunWaited_NoWait == /\ main.pc = "wait"
                    /\ Exit("Canceled")
                    /\ UNCHANGED <<cancelled, hearing, serving, probing>>

\* After a cancellation Run waits for ServeStdio and returns ctx.Err().
RunWaited == /\ main.pc = "wait"
             /\ stdio.pc = "returned"
             /\ Exit("Canceled")
             /\ UNCHANGED <<cancelled, hearing, serving, probing>>

\* A signal is put into both channels; one that finds a channel full is dropped.
Notified(channel) == IF channel = "no" THEN "pending" ELSE channel
Signal == /\ Alive /\ signals < MaxSignals
          /\ signals' = signals + 1
          /\ heard' = [main |-> Notified(heard.main), stdio |-> Notified(heard.stdio)]
          /\ UNCHANGED <<main, cancelled, serving, probing>>

\* The signal goroutine of main takes the first one, cancels, and is gone.
SignalCancels == /\ Alive /\ heard.main = "pending"
                 /\ heard' = [heard EXCEPT !.main = "taken"]
                 /\ cancelled' = TRUE
                 /\ UNCHANGED <<main, signals, serving, probing>>

----------------------------------------------------------------------------
(* ServeStdio (external).  Its context is cancelled by the first signal    *)
(* that arrives after it has registered for signals.                       *)
StdioCancelled == heard.stdio = "taken"

StdioGoTo(pc) == stdio' = [stdio EXCEPT !.pc = pc]

StdioRegisters == /\ Alive /\ stdio.pc = "starting"
                  /\ StdioGoTo("loop")
                  /\ heard' = [heard EXCEPT !.stdio = "no"]
                  /\ UNCHANGED <<main, cancelled, signals, stdin, call, count, probing>>

StdioHears == /\ Alive /\ heard.stdio = "pending"
              /\ heard' = [heard EXCEPT !.stdio = "taken"]
              /\ UNCHANGED <<main, cancelled, signals, serving, probing>>

\* Reading ends with err, or goes on waiting for a line.
StdioStops(err) == stdio' = [pc |-> "draining", err |-> err]

StdioReads == /\ Alive
              /\ \/ /\ stdio.pc = "loop"
                    /\ IF stdin.closed THEN StdioStops("closed") ELSE StdioGoTo("read")
                 \/ /\ stdio.pc = "read"
                    /\ \/ stdin.closed /\ stdin.pollable /\ StdioStops("closed")
                       \/ stdin.client = "eof" /\ StdioStops("nil")
                       \/ stdin.client = "broken" /\ StdioStops("broken")
                 \/ /\ stdio.pc \in {"loop", "read"}
                    /\ StdioCancelled
                    /\ StdioStops("Canceled")
              /\ UNCHANGED <<main, cancelled, hearing, stdin, call, count, probing>>

\* Everything a worker has in hand is finished; what it has not taken is dropped
\* if the context is cancelled.
InHand == {c \in Calls : call[c].pc \notin {"idle", "queued", "answered"}}
Queued == {c \in Calls : call[c].pc = "queued"}

StdioReturns == /\ Alive /\ stdio.pc = "draining"
                /\ InHand = {}
                /\ Queued = {} \/ StdioCancelled
                /\ StdioGoTo("returned")
                /\ UNCHANGED <<main, cancelled, hearing, stdin, call, count, probing>>

\* The client sends a call, hangs up, or its pipe breaks.
ClientCalls(c) == /\ Alive /\ stdio.pc = "read" /\ stdin.client = "open"
                  /\ call[c].pc = "idle"
                  /\ call' = [call EXCEPT ![c].pc = "queued"]
                  /\ StdioGoTo("loop")
                  /\ UNCHANGED <<main, cancelled, hearing, stdin, count, probing>>

ClientLeaves == /\ Alive /\ stdin.client = "open"
                /\ \E end \in {"eof", "broken"} : stdin' = [stdin EXCEPT !.client = end]
                /\ UNCHANGED <<main, cancelled, hearing, stdio, call, count, probing>>

----------------------------------------------------------------------------
(* A worker runs the handler that newToolHandler wraps.                    *)

CallGoesTo(c, pc, res) == call' = [call EXCEPT ![c] = [pc |-> pc, res |-> res]]

\* Arguments that do not bind are answered by mcp-go without calling the handler.
WorkerTakes(c) == /\ Alive /\ stdio.pc # "returned"
                  /\ call[c].pc = "queued"
                  /\ CallGoesTo(c, "running", "none") \/ CallGoesTo(c, "answered", "none")
                  /\ UNCHANGED <<main, cancelled, hearing, stdin, stdio, count, probing>>

\* The handler has its result, or its context ended: deferred cleanups run.
CleanupBegins(c) == /\ Alive /\ call[c].pc = "running"
                    /\ CallGoesTo(c, "cleanup", "none")
                    /\ UNCHANGED <<main, cancelled, hearing, stdin, stdio, count, probing>>

HandlerReturns(c) == /\ Alive /\ call[c].pc \in {"running", "cleanup"}
                     /\ \E res \in {"success", "error"} : CallGoesTo(c, "returned", res)
                     /\ count' = [count EXCEPT !.observed = @ + 1]
                     /\ UNCHANGED <<main, cancelled, hearing, stdin, stdio, probing>>

\* WithRecovery answers for a handler that panics.
HandlerPanics(c) == /\ Alive /\ call[c].pc = "running"
                    /\ CallGoesTo(c, "answered", "none")
                    /\ UNCHANGED <<main, cancelled, hearing, stdin, stdio, count, probing>>

\* Mutant: the error is turned into a result before it is counted.
CountsRequest_AfterConversion(c) ==
  /\ Alive /\ call[c].pc = "returned"
  /\ CallGoesTo(c, "counted", call[c].res)
  /\ count' = [count EXCEPT !.success = @ + 1]
  /\ UNCHANGED <<main, cancelled, hearing, stdin, stdio, probing>>

CountsRequest(c) ==
  /\ Alive /\ call[c].pc = "returned"
  /\ CallGoesTo(c, "counted", call[c].res)
  /\ count' = [count EXCEPT ![call[c].res] = @ + 1]
  /\ UNCHANGED <<main, cancelled, hearing, stdin, stdio, probing>>

\* An error is counted once more, by its type, and becomes a result.
Answers(c) ==
  /\ Alive /\ call[c].pc = "counted"
  /\ CallGoesTo(c, "answered", call[c].res)
  /\ count' = IF call[c].res = "error" THEN [count EXCEPT !.failures = @ + 1] ELSE count
  /\ UNCHANGED <<main, cancelled, hearing, stdin, stdio, probing>>

----------------------------------------------------------------------------
(* The health server.                                                      *)

\* The port is taken, which is not fatal, or it listens.  On cancellation it is
\* shut down: no request is accepted any more, and Shutdown waits for those being
\* served, for at most five seconds.  (Serve, and with it Start, returns as soon as
\* Shutdown is called; nobody waits for either.)
HealthStarts == /\ Alive /\ health = "starting"
                /\ health' \in {"failed", "serving"}
                /\ UNCHANGED <<main, cancelled, hearing, serving, unserved>>

HealthShutsDown ==
  /\ Alive
  /\ \/ health = "serving" /\ cancelled /\ health' = "draining"
     \/ health = "draining" /\ unserved = {} /\ health' = "drained"
     \/ health = "draining" /\ health' = "gave up"
  /\ UNCHANGED <<main, cancelled, hearing, serving, unserved>>

\* A request for /healthz or /readyz; the Ping of the latter heeds no context, so
\* that it may stay open for as long as the API server likes.
ProbeArrives(p) ==
  /\ Alive /\ health = "serving"
  /\ p \notin unserved
  /\ unserved' = unserved \cup {p}
  /\ UNCHANGED <<main, cancelled, hearing, serving, health>>

ProbeAnswered(p) ==
  /\ Alive /\ p \in unserved
  /\ unserved' = unserved \ {p}
  /\ UNCHANGED <<main, cancelled, hearing, serving, health>>

----------------------------------------------------------------------------
Main   == Setup \/ RunSeesCancel \/ RunSeesEnd \/ RunWaited
Stdio  == StdioRegisters \/ StdioReads \/ StdioReturns
Health == HealthStarts \/ HealthShutsDown

\* What the program does with a call by itself, and what else may happen to it:
\* an API server that does not answer keeps a handler for as long as it likes.
Worker(c) == \/ WorkerTakes(c) \/ CountsRequest(c) \/ Answers(c)
             \/ (StdioCancelled \/ call[c].pc = "cleanup") /\ HandlerReturns(c)
Tool(c)   == CleanupBegins(c) \/ HandlerReturns(c) \/ HandlerPanics(c)

Client == ClientLeaves \/ \E c \in Calls : ClientCalls(c)

Next == \/ Main \/ SignalCancels \/ Signal
        \/ Stdio \/ StdioHears \/ Client
        \/ \E c \in Calls : Worker(c) \/ Tool(c)
        \/ Health
        \/ \E p \in Probes : ProbeArrives(p) \/ ProbeAnswered(p)

(***************************************************************************)
(* Goroutines that can run do.  A handler returns when its context is      *)
(* cancelled, and its cleanup ends by itself (ReadArtifact).  Nothing is   *)
(* asked of the client, of signals, of the API server or of probes.        *)
(***************************************************************************)
Spec     == Init /\ [][Next]_vars
FairSpec == /\ Spec
            /\ WF_vars(Main) /\ WF_vars(SignalCancels)
            /\ WF_vars(Stdio) /\ WF_vars(StdioHears)
            /\ \A c \in Calls : WF_vars(Worker(c))

----------------------------------------------------------------------------
MainStates  == [pc : {"setup", "select", "wait", "exited"}, code : {0, 1}]
HeardStates == [main : {"no", "pending", "taken"}, stdio : {"deaf", "no", "pending", "taken"}]
StdinStates == [client : {"open", "eof", "broken"}, closed : BOOLEAN, pollable : BOOLEAN]
StdioStates == [pc : {"off", "starting", "loop", "read", "draining", "returned"},
                err : {"nil", "Canceled", "closed", "broken"}]
CallStages  == {"idle", "queued", "running", "cleanup", "returned", "counted", "answered"}
CallStates  == [pc : CallStages, res : {"none", "success", "error"}]
Counts      == [{"observed", "success", "error", "failures"} -> Nat]

TypeOK ==
  /\ main \in MainStates
  /\ cancelled \in BOOLEAN
  /\ signals \in 0 .. MaxSignals
  /\ heard \in HeardStates
  /\ stdin \in StdinStates
  /\ stdio \in StdioStates
  /\ call \in [Calls -> CallStates]
  /\ count \in Counts
  /\ health \in {"off", "starting", "failed", "serving", "draining", "drained", "gave up"}
  /\ unserved \subseteq Probes

(***************************************************************************)
(* A process that came up exits with 1 only when its client's end of stdin *)
(* broke: a shutdown by signal is clean, although it makes ServeStdio fail *)
(* on the stdin that Run closed under it, and whichever side of Run's      *)
(* select is taken when both are ready.                                    *)
(***************************************************************************)
ShutdownIsClean ==
  main.pc = "exited" /\ main.code = 1 /\ stdio.pc # "off" => stdin.client = "broken"

(***************************************************************************)
(* Run "waits for the goroutine to finish": the process does not end under *)
(* a tool call that a worker has in hand, its cleanup included, and drops  *)
(* calls that wait for a worker only after a signal.                       *)
(***************************************************************************)
NothingCutShort ==
  main.pc = "exited" => InHand = {} /\ (Queued # {} => StdioCancelled)

(***************************************************************************)
(* "Handler errors are correctly counted as errors, not successes": at any *)
(* time the answers that handlers gave are covered by the counters of      *)
(* their outcome, and the counters never run ahead of the calls observed.  *)
(***************************************************************************)
Ended(res) == {c \in Calls : call[c].pc = "answered" /\ call[c].res = res}
CountersCoverAnswers ==
  /\ Cardinality(Ended("success")) <= count.success
  /\ Cardinality(Ended("error")) <= count.failures /\ count.failures <= count.error
  /\ count.success + count.error <= count.observed
  /\ InHand = {} => /\ count.failures = count.error
                    /\ count.observed = Cardinality(Ended("success") \cup Ended("error"))

(***************************************************************************)
(* A cancelled server ends, unless ServeStdio missed the signal and is for *)
(* ever held up: by a handler whose context nobody cancels, or by a read   *)
(* that the closing of stdin does not interrupt.                           *)
(***************************************************************************)
HeldUp == /\ ~StdioCancelled
          /\ \/ \E c \in Calls : call[c].pc = "running"
             \/ stdio.pc = "read" /\ stdin.closed /\ ~stdin.pollable
ShutdownEnds == (cancelled ~> ~Alive) \/ <>[]HeldUp

(***************************************************************************)
(* When the client hangs up the process ends, with no signal and although  *)
(* the health server still runs, unless a handler never returns.           *)
(***************************************************************************)
HangUpEnds ==
  (stdin.client # "open" /\ main.pc # "setup" ~> ~Alive)
    \/ <>[](\E c \in Calls : call[c].pc = "running")
==================================================================================
