------------------------------- MODULE ReadArtifact -------------------------------
(***************************************************************************)
(* read_artifact_head (internal/mcp/handlers.go, internal/k8s/reader.go):  *)
(* a read creates a pod that prints the head of the file, waits for it to  *)
(* end, reads its logs, and deletes it in a deferred cleanup; and          *)
(* CleanupOrphanedReaderPods, which deletes every reader pod it lists.     *)
(*                                                                         *)
(* Pods run, are created and are deleted by the cluster, concurrently with *)
(* the reads; the process may be killed.  The pod of a read is known by    *)
(* the read: pod names are taken to be unique (Submit models names that    *)
(* collide).  Pods leave the cluster as soon as their deletion is served.  *)
(***************************************************************************)
EXTENDS KubeApi, ArtifactText

CONSTANTS
  Reads,           \* the tool calls
  Leftovers,       \* what killed processes may have left: each a function from reads
                   \* of theirs to the phase of their pod, or absent
  Cleaner,         \* the caller of CleanupOrphanedReaderPods
  None,
  Asked,           \* the paths the tool is called with
  MountPath,       \* PVC_MOUNT_PATH
  PVCConfigured,   \* whether the server was given a PVC name
  CleanerEnabled,  \* whether anything calls CleanupOrphanedReaderPods
  MaxCrashes       \* bound on the number of kills

CreatePod(r) == <<"create", r>>
DeletePod(r) == <<"delete", r>>

Terminal  == {"Succeeded", "Failed"}
PodPhases == {"Pending", "Running", "Unknown"} \cup Terminal

ASSUME ReadAssumption ==
  /\ Calls = Reads \cup {Cleaner}
  /\ Cleaner \notin Reads
  /\ None \notin Reads
  /\ \A left \in Leftovers : /\ DOMAIN left \subseteq Reads
                             /\ \A r \in DOMAIN left : left[r] \in PodPhases \cup {"absent"}
  /\ Ops = {CreatePod(r) : r \in Reads} \cup {DeletePod(r) : r \in Reads}
  /\ PVCConfigured \in BOOLEAN /\ CleanerEnabled \in BOOLEAN
  /\ MaxCrashes \in Nat

VARIABLES
  read,     \* read[r]: where the read is, and the pod phase its status check saw
  ctxErr,   \* ctxErr[r]: ctx.Err() of the context of the tool call
  cleanErr, \* cleanErr[r]: that of the context of the cleanup
  result,   \* result[r]: "content", or the error the read returns
  pod,      \* pod[r]: the phase of r's pod, or absent
  trouble,  \* trouble[r]: history, an attempt of r to create or delete had no clear success
  cleaner,  \* the state of CleanupOrphanedReaderPods; its field orphans is history
  crashes

apiVars    == <<retry, net>>
readVars   == <<read, ctxErr, cleanErr, result>>
vars       == <<apiVars, readVars, pod, trouble, cleaner, crashes>>

Pods == {r \in Reads : pod[r] # "absent"}

Init == /\ RetryInit
        /\ NetInit
        /\ \E left \in Leftovers :
             /\ read = [r \in Reads |-> [pc   |-> IF r \in DOMAIN left THEN "lost" ELSE "idle",
                                        seen |-> "absent"]]
             /\ pod  = [r \in Reads |-> IF r \in DOMAIN left THEN left[r] ELSE "absent"]
        /\ ctxErr   = [r \in Reads |-> NoError]
        /\ cleanErr = [r \in Reads |-> NoError]
        /\ result   = [r \in Reads |-> None]
        /\ trouble  = [r \in Reads |-> FALSE]
        /\ cleaner  = [pc |-> "idle", listed |-> {}, todo |-> {}, cur |-> None,
                       failed |-> FALSE, orphans |-> {}]
        /\ crashes  = 0

At(r, pc) == read[r].pc = pc
GoTo(r, pc) == read' = [read EXCEPT ![r].pc = pc]

----------------------------------------------------------------------------
(* The read, up to its cleanup.                                            *)

\* The handler refuses a path outside of the mount, the builder a missing PVC.
Refuse(r, path) ==
  /\ At(r, "idle")
  /\ ~(validateArtifactPath(path, MountPath) /\ PVCConfigured)
  /\ GoTo(r, "done")
  /\ result' = [result EXCEPT ![r] = "Refused"]
  /\ UNCHANGED <<apiVars, ctxErr, cleanErr, pod, trouble, cleaner, crashes>>

\* Nothing after that depends on the path.
Start(r, path) ==
  /\ At(r, "idle")
  /\ validateArtifactPath(path, MountPath) /\ PVCConfigured
  /\ GoTo(r, "create")
  /\ RetryBegin(r)
  /\ UNCHANGED <<net, ctxErr, cleanErr, result, pod, trouble, cleaner, crashes>>

SendCreate(r) == /\ At(r, "create")
                 /\ SendRequest(r, CreatePod(r), ctxErr[r])
                 /\ UNCHANGED <<readVars, pod, trouble, cleaner, crashes>>

\* Each attempt to create has a deadline of its own.
CreateTimesOut(r) == /\ At(r, "create")
                     /\ AttemptFails(r, {"DeadlineExceeded", ctxErr[r]})
                     /\ trouble' = [trouble EXCEPT ![r] = TRUE]
                     /\ UNCHANGED <<readVars, pod, cleaner, crashes>>

\* The connection of an attempt to create or delete may break.
ConnectionBreaks(r) == /\ read[r].pc \in {"create", "cleanup"}
                       /\ AttemptFails(r, NetFaults)
                       /\ trouble' = [trouble EXCEPT ![r] = TRUE]
                       /\ UNCHANGED <<readVars, pod, cleaner, crashes>>

\* The create loop failed: return at once, no cleanup is deferred yet.
CreateReturnsError(r) ==
  /\ At(r, "create") /\ Returned(r) /\ retry[r].lastErr # NoError
  /\ GoTo(r, "done")
  /\ result' = [result EXCEPT ![r] = retry[r].lastErr]
  /\ RetryDone(r)
  /\ UNCHANGED <<net, ctxErr, cleanErr, pod, trouble, cleaner, crashes>>

CreateReturnsPod(r) ==
  /\ At(r, "create") /\ Returned(r) /\ retry[r].lastErr = NoError
  /\ GoTo(r, "wait")
  /\ RetryDone(r)
  /\ UNCHANGED <<net, ctxErr, cleanErr, result, pod, trouble, cleaner, crashes>>

\* The read returns res: its deferred cleanup runs first.
Return(r, res) == /\ GoTo(r, "cleanup")
                  /\ result' = [result EXCEPT ![r] = res]
                  /\ RetryBegin(r)

\* What a Get of the pod, or of its logs, may fail with while its context is alive.
GetErrors(r) == Rejections \cup NetFaults
                  \cup IF pod[r] = "absent" THEN {"NotFound"} ELSE {}

\* Mutant: the poll ends as soon as the pod runs.
PollSeesEnd_Running(r) ==
  /\ At(r, "wait")
  /\ pod[r] \in Terminal \cup {"Running"}
  /\ GoTo(r, "status")
  /\ RetryBegin(r)
  /\ UNCHANGED <<net, ctxErr, cleanErr, result, pod, trouble, cleaner, crashes>>

\* The poll of waitForPodCompletion sees a terminal phase; any other is polled again.
PollSeesEnd(r) ==
  /\ At(r, "wait")
  /\ pod[r] \in Terminal
  /\ GoTo(r, "status")
  /\ RetryBegin(r)
  /\ UNCHANGED <<net, ctxErr, cleanErr, result, pod, trouble, cleaner, crashes>>

\* It ends when its timeout or the context ends it ...
PollEnds(r, errs) ==
  /\ At(r, "wait")
  /\ \E err \in errs \ {NoError} : Return(r, err)
  /\ UNCHANGED <<net, ctxErr, cleanErr, pod, trouble, cleaner, crashes>>

\* Mutant: the poll has no timeout of its own.
PollTimesOut_ContextOnly(r) == PollEnds(r, {ctxErr[r]})

PollTimesOut(r) == PollEnds(r, {"DeadlineExceeded", ctxErr[r]})

\* ... and at the first error of a Get.
PollFails(r) == PollEnds(r, GetErrors(r))

StatusCalled(r) == /\ At(r, "status")
                   /\ RetryAttempt(r, ctxErr[r])
                   /\ UNCHANGED <<net, readVars, pod, trouble, cleaner, crashes>>

StatusAnswered(r) ==
  /\ At(r, "status")
  /\ \/ /\ pod[r] # "absent"
        /\ RetryReturns(r, NoError)
        /\ read' = [read EXCEPT ![r].seen = pod[r]]
     \/ /\ \E err \in GetErrors(r) : RetryReturns(r, err)
        /\ UNCHANGED read
  /\ UNCHANGED <<net, ctxErr, cleanErr, result, pod, trouble, cleaner, crashes>>

\* An attempt has no deadline of its own: only the end of the call's context ends it.
StatusInterrupted(r) ==
  /\ At(r, "status")
  /\ AttemptFails(r, {ctxErr[r]})
  /\ UNCHANGED <<readVars, pod, trouble, cleaner, crashes>>

StatusReturns(r) ==
  /\ At(r, "status") /\ Returned(r)
  /\ \/ /\ retry[r].lastErr = NoError
        /\ GoTo(r, "logs") /\ RetryDone(r) /\ UNCHANGED result
     \/ /\ retry[r].lastErr # NoError
        /\ Return(r, retry[r].lastErr)
  /\ UNCHANGED <<net, ctxErr, cleanErr, pod, trouble, cleaner, crashes>>

\* getPodLogs is not retried, and has no deadline either.  The logs of a failed pod
\* only word its error.
LogsReturn(r, res) ==
  /\ At(r, "logs")
  /\ Return(r, IF read[r].seen = "Failed" THEN "PodFailed" ELSE res)
  /\ UNCHANGED <<net, ctxErr, cleanErr, pod, trouble, cleaner, crashes>>

LogsAnswered(r) ==
  \/ pod[r] \in PodPhases \ {"Pending"} /\ LogsReturn(r, "content")
  \/ pod[r] = "Pending" /\ LogsReturn(r, "BadRequest")
  \/ \E err \in GetErrors(r) : LogsReturn(r, err)

LogsInterrupted(r) == ctxErr[r] # NoError /\ LogsReturn(r, ctxErr[r])

----------------------------------------------------------------------------
(* The cleanup: deleteReaderPod under a context of its own, of 10 s for    *)
(* all of the attempts, derived from the background context: the           *)
(* cancellation of the call does not reach it.                             *)

\* Mutant: the context of the cleanup is derived from that of the call.
CleanupCtxErr_OfTheCall(r) == IF ctxErr[r] # NoError THEN ctxErr[r] ELSE cleanErr[r]

CleanupCtxErr(r) == cleanErr[r]

SendDelete(r) == /\ At(r, "cleanup")
                 /\ SendRequest(r, DeletePod(r), CleanupCtxErr(r))
                 /\ UNCHANGED <<readVars, pod, trouble, cleaner, crashes>>

DeleteTimesOut(r) == /\ At(r, "cleanup")
                     /\ AttemptFails(r, {CleanupCtxErr(r)})
                     /\ trouble' = [trouble EXCEPT ![r] = TRUE]
                     /\ UNCHANGED <<readVars, pod, cleaner, crashes>>

\* The 10 s are not over before the first attempt goes out.
CleanupTimesOut(r) == /\ At(r, "cleanup")
                      /\ cleanErr[r] = NoError
                      /\ retry[r].attempt > 0 \/ retry[r].pc # "check"
                      /\ cleanErr' = [cleanErr EXCEPT ![r] = "DeadlineExceeded"]
                      /\ UNCHANGED <<apiVars, read, ctxErr, result, pod, trouble, cleaner, crashes>>

\* Whatever the deletion returned, the read returns its result.
CleanupReturns(r) == /\ At(r, "cleanup") /\ Returned(r)
                     /\ GoTo(r, "done")
                     /\ RetryDone(r)
                     /\ UNCHANGED <<net, ctxErr, cleanErr, result, pod, trouble, cleaner, crashes>>

\* The loops of the read run under the context of the call, that of the cleanup under its own.
LoopCtxErr(r) == IF At(r, "cleanup") THEN CleanupCtxErr(r) ELSE ctxErr[r]
LoopGoesOn(r) == /\ \/ RetryContextDone(r, LoopCtxErr(r))
                    \/ BackoffInterrupted(r, LoopCtxErr(r))
                    \/ BackoffElapsed(r)
                 /\ UNCHANGED <<net, readVars, pod, trouble, cleaner, crashes>>
----------------------------------------------------------------------------
(* CleanupOrphanedReaderPods: one List, then a deleteReaderPod per pod     *)
(* listed.  Its caller's context is taken to stay alive.                   *)

\* History: the reads that are over and have nothing on its way any more.
Settled == {r \in Reads : read[r].pc \in {"done", "lost"} /\ \A m \in net : m.call # r}

\* Mutant: only pods that have ended are listed.
CleanerLists_Ended ==
  LET ended == {r \in Pods : pod[r] \in Terminal}
  IN  /\ CleanerEnabled
      /\ cleaner.pc = "idle"
      /\ cleaner' = [cleaner EXCEPT !.pc = "sweep", !.listed = ended, !.todo = ended,
                                    !.orphans = Settled]
      /\ UNCHANGED <<apiVars, readVars, pod, trouble, crashes>>

CleanerLists ==
  /\ CleanerEnabled
  /\ cleaner.pc = "idle"
  /\ \/ cleaner' = [cleaner EXCEPT !.pc = "sweep", !.listed = Pods, !.todo = Pods,
                                   !.orphans = Settled]
     \/ /\ Rejections \cup NetFaults # {}
        /\ cleaner' = [cleaner EXCEPT !.pc = "done", !.failed = TRUE]
  /\ UNCHANGED <<apiVars, readVars, pod, trouble, crashes>>

CleanerBegins(r) ==
  /\ cleaner.pc = "sweep" /\ cleaner.cur = None
  /\ r \in cleaner.todo
  /\ cleaner' = [cleaner EXCEPT !.cur = r, !.todo = @ \ {r}]
  /\ RetryBegin(Cleaner)
  /\ UNCHANGED <<net, readVars, pod, trouble, crashes>>

CleanerDeletes ==
  /\ cleaner.cur # None
  /\ \/ SendRequest(Cleaner, DeletePod(cleaner.cur), NoError)
     \/ AttemptFails(Cleaner, NetFaults)
     \/ BackoffElapsed(Cleaner) /\ UNCHANGED net
  /\ UNCHANGED <<readVars, pod, trouble, cleaner, crashes>>

\* Mutant: only the last deletion counts.
CleanerDeleted_LastError ==
  /\ cleaner.cur # None /\ Returned(Cleaner)
  /\ cleaner' = [cleaner EXCEPT !.cur = None,
                                !.failed = retry[Cleaner].lastErr # NoError]
  /\ RetryDone(Cleaner)
  /\ UNCHANGED <<net, readVars, pod, trouble, crashes>>

\* An error, NotFound included, is collected; the sweep goes on.
CleanerDeleted ==
  /\ cleaner.cur # None /\ Returned(Cleaner)
  /\ cleaner' = [cleaner EXCEPT !.cur = None,
                                !.failed = @ \/ retry[Cleaner].lastErr # NoError]
  /\ RetryDone(Cleaner)
  /\ UNCHANGED <<net, readVars, pod, trouble, crashes>>

CleanerEnds ==
  /\ cleaner.pc = "sweep" /\ cleaner.cur = None /\ cleaner.todo = {}
  /\ cleaner' = [cleaner EXCEPT !.pc = "done"]
  /\ UNCHANGED <<apiVars, readVars, pod, trouble, crashes>>

----------------------------------------------------------------------------
(* The API server, the network and the kubelet.                            *)

\* The operation whose answer the thread c is waiting for, if any.
OpOf(c) == IF c = Cleaner THEN DeletePod(cleaner.cur)
           ELSE IF At(c, "create") THEN CreatePod(c)
           ELSE IF At(c, "cleanup") THEN DeletePod(c) ELSE <<>>

\* The answer is one of errs, or is lost: only a clear success is no trouble.
Outcome(m, errs) ==
  /\ \/ \E err \in errs :
          /\ Answer(m, OpOf(m.call), err)
          /\ trouble' = [r \in Reads |-> trouble[r] \/ (m.call = r /\ err # NoError)]
     \/ /\ NoAnswer(m)
        /\ trouble' = [r \in Reads |-> trouble[r] \/ m.call = r]
  /\ UNCHANGED <<readVars, cleaner, crashes>>

\* What comes of a request that was executed; client-go may send it once more.
Executed(m) ==
  \/ Outcome(m, {NoError} \cup CommitErrors)
  \/ /\ SentAgain(m, OpOf(m.call))
     /\ trouble' = [r \in Reads |-> trouble[r] \/ m.call = r]
     /\ UNCHANGED <<readVars, cleaner, crashes>>

CommitCreate(m) == \E r \in Reads :
  /\ m.op = CreatePod(r) /\ pod[r] = "absent"
  /\ pod' = [pod EXCEPT ![r] = "Pending"]
  /\ Executed(m)

CommitDelete(m) == \E r \in Reads :
  /\ m.op = DeletePod(r) /\ pod[r] # "absent"
  /\ pod' = [pod EXCEPT ![r] = "absent"]
  /\ Executed(m)

\* The pod is there already, or there no longer.
Conflict(m) == /\ \/ \E r \in Reads : m.op = CreatePod(r) /\ pod[r] # "absent"
                                      /\ Outcome(m, {"AlreadyExists"})
                  \/ \E r \in Reads : m.op = DeletePod(r) /\ pod[r] = "absent"
                                      /\ Outcome(m, {"NotFound"})
               /\ UNCHANGED pod

Reject(m) == Outcome(m, Rejections) /\ UNCHANGED pod

\* The pod is scheduled and runs, its node may drop out of sight, and it ends.
PodMoves(r) ==
  /\ \E step \in {<<"Pending", "Running">>, <<"Pending", "Failed">>,
                  <<"Running", "Unknown">>, <<"Unknown", "Running">>,
                  <<"Running", "Succeeded">>, <<"Running", "Failed">>} :
       pod[r] = step[1] /\ pod' = [pod EXCEPT ![r] = step[2]]
  /\ UNCHANGED <<apiVars, readVars, trouble, cleaner, crashes>>

Cancel(r) == /\ read[r].pc \notin {"idle", "done", "lost"}
             /\ ctxErr[r] = NoError
             /\ ctxErr' = [ctxErr EXCEPT ![r] = "Canceled"]
             /\ UNCHANGED <<apiVars, read, cleanErr, result, pod, trouble, cleaner, crashes>>

\* The process is killed: what it had under way is lost, its requests are not.
Crash ==
  /\ crashes < MaxCrashes
  /\ crashes' = crashes + 1
  /\ read' = [r \in Reads |-> IF read[r].pc \in {"idle", "done"} THEN read[r]
                              ELSE [read[r] EXCEPT !.pc = "lost"]]
  /\ retry'   = [c \in Calls |-> NewFrame("idle")]
  /\ cleaner' = IF cleaner.pc = "sweep"
                THEN [cleaner EXCEPT !.pc = "lost", !.cur = None, !.todo = {}] ELSE cleaner
  /\ UNCHANGED <<net, ctxErr, cleanErr, result, pod, trouble>>

----------------------------------------------------------------------------
ReadStep(r) ==
  \/ SendCreate(r) \/ CreateTimesOut(r) \/ CreateReturnsError(r) \/ CreateReturnsPod(r)
  \/ PollSeesEnd(r) \/ PollTimesOut(r)
  \/ StatusCalled(r) \/ StatusInterrupted(r) \/ StatusReturns(r) \/ LogsInterrupted(r)
  \/ SendDelete(r) \/ DeleteTimesOut(r) \/ CleanupReturns(r) \/ LoopGoesOn(r)

\* The API server answers a Get, or its connection breaks.
Answered(r) == PollFails(r) \/ StatusAnswered(r) \/ LogsAnswered(r)

CleanerStep == \/ \E r \in Reads : CleanerBegins(r)
               \/ CleanerDeletes \/ CleanerDeleted \/ CleanerEnds

Invoke(r) == \E path \in Asked : Refuse(r, path) \/ Start(r, path)
Server(m) == CommitCreate(m) \/ CommitDelete(m) \/ Conflict(m) \/ Reject(m)

Next == \/ \E r \in Reads : Invoke(r) \/ ReadStep(r) \/ CleanupTimesOut(r)
                            \/ ConnectionBreaks(r) \/ Answered(r) \/ Cancel(r) \/ PodMoves(r)
        \/ CleanerLists \/ CleanerStep
        \/ \E m \in net : Server(m)
        \/ Crash

(***************************************************************************)
(* The goroutine of a read is scheduled and its timers fire; a call whose  *)
(* context has ended returns.  Nothing is asked of the pod, nor of the API *)
(* server, which need not answer any request.                              *)
(***************************************************************************)
Spec     == Init /\ [][Next]_vars
FairSpec == Spec /\ \A r \in Reads : /\ WF_vars(ReadStep(r))
                                     /\ WF_vars(CleanupTimesOut(r))

----------------------------------------------------------------------------
ReadPc == {"idle", "create", "wait", "status", "logs", "cleanup", "done", "lost"}

TypeOK ==
  /\ RetryTypeOK
  /\ NetTypeOK
  /\ read \in [Reads -> [pc : ReadPc, seen : PodPhases \cup {"absent"}]]
  /\ ctxErr \in [Reads -> {NoError, "Canceled"}]
  /\ cleanErr \in [Reads -> {NoError, "DeadlineExceeded"}]
  /\ result \in [Reads -> Errors \cup {None, "Refused", "PodFailed", "content"}]
  /\ pod \in [Reads -> PodPhases \cup {"absent"}]
  /\ trouble \in [Reads -> BOOLEAN]
  /\ cleaner \in [pc : {"idle", "sweep", "done", "lost"}, listed : SUBSET Reads,
                  todo : SUBSET Reads, cur : Reads \cup {None}, failed : BOOLEAN,
                  orphans : SUBSET Reads]
  /\ crashes \in 0 .. MaxCrashes

(***************************************************************************)
(* A read whose requests to create and delete its pod all clearly          *)
(* succeeded leaves nothing behind, whichever way it ended: a failed or    *)
(* slow pod, an error of a Get or of the logs, a cancelled call.           *)
(***************************************************************************)
NoOrphanWithoutTrouble ==
  \A r \in Reads : At(r, "done") /\ ~trouble[r] =>
    /\ pod[r] = "absent"
    /\ \A m \in net : m.call # r

(***************************************************************************)
(* Content is only ever returned from the logs of a pod that succeeded:    *)
(* the status check and the logs are separate requests, and the pod may    *)
(* change between them.  (The one way around it takes two: a sweep deletes *)
(* the pod, and a late duplicate of the read's create makes a new one.)    *)
(***************************************************************************)
ContentOnlyFromSucceeded ==
  [][\A r \in Reads : result[r] # "content" /\ result'[r] = "content"
       => pod[r] = "Succeeded" \/ (trouble[r] /\ r \in cleaner.listed)]_vars

(***************************************************************************)
(* "Ensure cleanup happens regardless of outcome": once a read is over,    *)
(* was not killed, and nothing of it is on its way, its pod is gone.       *)
(***************************************************************************)
ReadLeavesNoPod ==
  \A r \in Reads : At(r, "done") /\ (\A m \in net : m.call # r) => pod[r] = "absent"

(***************************************************************************)
(* "Transient K8s API errors (429, 5xx, timeouts) are retried": a read     *)
(* does not fail with one of the API server's that no retry loop has seen. *)
(***************************************************************************)
TransientErrorsRetried ==
  [][\A r \in Reads : result[r] = None /\ result'[r] \in {e \in ApiErrors : isTransient(e)}
       => Returned(r) /\ (retry[r].attempt = retryMaxAttempts \/ ctxErr[r] # NoError)]_vars

(***************************************************************************)
(* When the sweep reports success, every pod it listed is gone, but for    *)
(* those whose own read had a create or delete without a clear success: a  *)
(* late request of such a read may bring its pod back.                     *)
(***************************************************************************)
SweepReportIsTrue ==
  cleaner.pc = "done" /\ ~cleaner.failed =>
    \A r \in cleaner.listed : ~trouble[r] => pod[r] = "absent"

(***************************************************************************)
(* A sweep is what recovers from a kill: when one reports success, no pod  *)
(* is left of any read that was over, killed or done, before it began and  *)
(* had nothing on its way to the API server any more.                      *)
(***************************************************************************)
SweepReclaimsOrphans ==
  cleaner.pc = "done" /\ ~cleaner.failed =>
    \A r \in cleaner.orphans : pod[r] = "absent"

(***************************************************************************)
(* Every read ends, whatever the pod and the API server do with it, and    *)
(* although its cleanup outlives the cancellation of the call; but for a   *)
(* read that nobody cancels and whose status check or log stream the API   *)
(* server leaves unanswered for ever: those have no deadline.  That is to  *)
(* say, no read is for ever neither over nor unanswered: it begins once,   *)
(* never goes back, and so is one of them for good.                        *)
(***************************************************************************)
Unanswered(r) == /\ ctxErr[r] = NoError
                 /\ \/ At(r, "status") /\ retry[r].pc = "call"
                    \/ At(r, "logs")
EveryReadEnds ==
  \A r \in Reads : []<>(\/ read[r].pc \in {"idle", "done", "lost"}
                        \/ Unanswered(r))
=============================================================================
