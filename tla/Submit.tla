---------------------------------- MODULE Submit ----------------------------------
(***************************************************************************)
(* The three submit tools (internal/mcp/handlers.go), the builders and     *)
(* Submit* methods they call (internal/k8s/{mpijob,jobset,job}.go) and the *)
(* API server.  A call validates its input, picks a name, and creates one  *)
(* object of its kind through the retry loop; the name is picked once,     *)
(* every attempt repeats it.  Calls run concurrently; the process may be   *)
(* killed at any time and started again.                                   *)
(***************************************************************************)
EXTENDS KubeApi, FiniteSets

CONSTANTS
  Kinds,             \* the kinds of object submitted, of the three below
  None,              \* no object, no stage, job, no answer
  Namespaces,        \* valid namespace names
  DefaultNamespace,  \* the client's
  BadNamespace,      \* one that is no RFC 1123 label
  Names,             \* the names generateJobName can produce
  MaxCrashes         \* bound on the number of kills

Ids == [kind : Kinds, ns : Namespaces, name : Names]

ASSUME SubmitAssumption ==
  /\ Kinds \subseteq {"mpijob", "jobset", "job"}
  /\ None \notin Calls \cup Ids \cup {"ok", "error"}
  /\ DefaultNamespace \in Namespaces
  /\ BadNamespace \notin Namespaces
  /\ "" \notin Namespaces
  /\ Ops = {"create"}
  /\ MaxCrashes \in Nat

VARIABLES
  ctxErr,   \* ctxErr[c]: ctx.Err() of the context the tool call was given
  stage,    \* stage[c]: where the handler is
  job,      \* job[c]: the object it submits
  answer,   \* answer[c]: what the tool call was answered
  cluster,  \* cluster[id]: the call that created the object, or none
  gauge,    \* ActiveJobs{namespace, job_type} of the running process
  crashes

\* Histories, which no guard reads:
VARIABLES
  made,     \* made[c]: the id at which a request of c was executed, or none
  doubt     \* the calls of which an attempt ended without a word from the
            \* API server, or had its request executed and was not told

apiVars == <<retry, net>>
history == <<made, doubt>>
vars == <<apiVars, ctxErr, stage, job, answer, cluster, gauge, crashes, history>>

\* An input of a submit tool, as far as validation tells inputs apart: a blank
\* code is white space, count stands for nodes or replicas.
Inputs == [kind : Kinds, code : {"ok", "empty", "blank", "tooLarge"}, count : 0 .. 1,
           ns : Namespaces \cup {"", BadNamespace}]

\* Mutant: the namespace is not validated.
validateNamespace_Any(ns) == TRUE

validateCode(code)    == code \notin {"tooLarge", "empty", "blank"}
validateNamespace(ns) == ns \in Namespaces
resolveNamespace(ns)  == IF ns # "" THEN ns ELSE DefaultNamespace

\* The builders refuse what misses a required field.  Of the manifest they build,
\* whose content nothing here depends on, Ids keeps the kind and the metadata.
BuildMPIJob(in)     == in.count >= 1 /\ in.code # "empty"
BuildJobSet(in)     == in.count >= 1 /\ in.code # "empty"
BuildReducerJob(in) == in.code # "empty"

\* The inputs that each handler goes on to submit.
handleSubmitMPIJob(in) ==
  /\ in.kind = "mpijob"
  /\ validateCode(in.code)
  /\ in.count >= 1
  /\ validateNamespace(resolveNamespace(in.ns))
  /\ BuildMPIJob(in)

handleSubmitMonteCarlo(in) ==
  /\ in.kind = "jobset"
  /\ validateCode(in.code)
  /\ in.count >= 1
  /\ validateNamespace(resolveNamespace(in.ns))
  /\ BuildJobSet(in)

handleSubmitReducer(in) ==
  /\ in.kind = "job"
  /\ validateCode(in.code)
  /\ validateNamespace(resolveNamespace(in.ns))
  /\ BuildReducerJob(in)

Accepted(in) ==
  handleSubmitMPIJob(in) \/ handleSubmitMonteCarlo(in) \/ handleSubmitReducer(in)

Init == /\ RetryInit
        /\ NetInit
        /\ ctxErr  = [c \in Calls |-> NoError]
        /\ stage   = [c \in Calls |-> "idle"]
        /\ job     = [c \in Calls |-> None]
        /\ answer  = [c \in Calls |-> None]
        /\ cluster = [id \in Ids |-> None]
        /\ gauge   = [k \in Kinds \X Namespaces |-> 0]
        /\ crashes = 0
        /\ made    = [c \in Calls |-> None]
        /\ doubt   = {}

----------------------------------------------------------------------------
(* The handlers.                                                           *)

\* An invalid input is answered with an error before anything is named or sent.
Refuse(c, in) == /\ stage[c] = "idle"
                 /\ ~Accepted(in)
                 /\ stage'  = [stage EXCEPT ![c] = "done"]
                 /\ answer' = [answer EXCEPT ![c] = "error"]
                 /\ UNCHANGED <<apiVars, ctxErr, job, cluster, gauge, crashes, history>>

\* A valid one is given a name and enters the retry loop of its Submit method.
Accept(c, in, name) ==
  /\ stage[c] = "idle"
  /\ Accepted(in)
  /\ stage' = [stage EXCEPT ![c] = "submit"]
  /\ job' = [job EXCEPT ![c] = [kind |-> in.kind, ns |-> resolveNamespace(in.ns),
                                name |-> name]]
  /\ RetryBegin(c)
  /\ UNCHANGED <<net, ctxErr, answer, cluster, gauge, crashes, history>>

\* Mutant: the name is generated by the attempt.
SendCreate_NewName(c) ==
  /\ SendRequest(c, "create", ctxErr[c])
  /\ \E name \in Names : job' = [job EXCEPT ![c].name = name]
  /\ UNCHANGED <<ctxErr, stage, answer, cluster, gauge, crashes, history>>

SendCreate(c) == /\ SendRequest(c, "create", ctxErr[c])
                 /\ UNCHANGED <<ctxErr, stage, job, answer, cluster, gauge, crashes, history>>

\* Mutant: the attempts have no deadline, only the call has.
CreateTimesOut_NoDeadline(c) ==
  /\ AttemptFails(c, {ctxErr[c]})
  /\ doubt' = doubt \cup {c}
  /\ UNCHANGED <<ctxErr, stage, job, answer, cluster, gauge, crashes, made>>

\* Each attempt has a deadline of its own, within the call's context ...
CreateTimesOut(c) ==
  /\ AttemptFails(c, {"DeadlineExceeded", ctxErr[c]})
  /\ doubt' = doubt \cup {c}
  /\ UNCHANGED <<ctxErr, stage, job, answer, cluster, gauge, crashes, made>>

\* ... and its connection may break.
CreateBreaks(c) ==
  /\ AttemptFails(c, NetFaults)
  /\ doubt' = doubt \cup {c}
  /\ UNCHANGED <<ctxErr, stage, job, answer, cluster, gauge, crashes, made>>

CreateFails(c) == CreateTimesOut(c) \/ CreateBreaks(c)

LoopGoesOn(c) == /\ \/ RetryContextDone(c, ctxErr[c])
                    \/ BackoffInterrupted(c, ctxErr[c])
                    \/ BackoffElapsed(c)
                 /\ UNCHANGED <<net, ctxErr, stage, job, answer, cluster, gauge, crashes, history>>

\* Mutants: an object that exists already is taken for the call's own; a call
\* that failed is counted too; a cancelled call is an error whatever it did.
Respond_TakesOver(c) ==
  LET id == job[c]
      ok == retry[c].lastErr \in {NoError, "AlreadyExists"}
  IN  /\ stage[c] = "submit"
      /\ Returned(c)
      /\ stage'  = [stage EXCEPT ![c] = "done"]
      /\ answer' = [answer EXCEPT ![c] = IF ok THEN "ok" ELSE "error"]
      /\ gauge'  = IF ok THEN [gauge EXCEPT ![<<id.kind, id.ns>>] = @ + 1] ELSE gauge
      /\ RetryDone(c)
      /\ UNCHANGED <<net, ctxErr, job, cluster, crashes, history>>
Respond_CountsErrors(c) ==
  LET id == job[c]
      ok == retry[c].lastErr = NoError
  IN  /\ stage[c] = "submit"
      /\ Returned(c)
      /\ stage'  = [stage EXCEPT ![c] = "done"]
      /\ answer' = [answer EXCEPT ![c] = IF ok THEN "ok" ELSE "error"]
      /\ gauge'  = [gauge EXCEPT ![<<id.kind, id.ns>>] = @ + 1]
      /\ RetryDone(c)
      /\ UNCHANGED <<net, ctxErr, job, cluster, crashes, history>>

Respond_ErrorOnCancel(c) ==
  LET id == job[c]
      ok == retry[c].lastErr = NoError /\ ctxErr[c] = NoError
  IN  /\ stage[c] = "submit"
      /\ Returned(c)
      /\ stage'  = [stage EXCEPT ![c] = "done"]
      /\ answer' = [answer EXCEPT ![c] = IF ok THEN "ok" ELSE "error"]
      /\ gauge'  = IF ok THEN [gauge EXCEPT ![<<id.kind, id.ns>>] = @ + 1] ELSE gauge
      /\ RetryDone(c)
      /\ UNCHANGED <<net, ctxErr, job, cluster, crashes, history>>

\* The Submit method has returned: the handler counts the job and answers.
Respond(c) ==
  LET id == job[c]
      ok == retry[c].lastErr = NoError
  IN  /\ stage[c] = "submit"
      /\ Returned(c)
      /\ stage'  = [stage EXCEPT ![c] = "done"]
      /\ answer' = [answer EXCEPT ![c] = IF ok THEN "ok" ELSE "error"]
      /\ gauge'  = IF ok THEN [gauge EXCEPT ![<<id.kind, id.ns>>] = @ + 1] ELSE gauge
      /\ RetryDone(c)
      /\ UNCHANGED <<net, ctxErr, job, cluster, crashes, history>>

----------------------------------------------------------------------------
(* The API server and the network.                                         *)

\* The object is created; the answer is success, or an error, or lost, or makes
\* client-go send the request once more.
Commit(m) ==
  LET id == job[m.call]
  IN  /\ cluster[id] = None
      /\ cluster' = [cluster EXCEPT ![id] = m.call]
      /\ made' = [made EXCEPT ![m.call] = id]
      /\ \/ Answer(m, "create", NoError) /\ UNCHANGED doubt
         \/ /\ \/ \E err \in CommitErrors : Answer(m, "create", err)
               \/ NoAnswer(m)
               \/ SentAgain(m, "create")
            /\ doubt' = doubt \cup {m.call}
      /\ UNCHANGED <<ctxErr, stage, job, answer, gauge, crashes>>

\* An object of that kind and name is there already: 409.
Conflict(m) ==
  /\ cluster[job[m.call]] # None
  /\ Answer(m, "create", "AlreadyExists") \/ NoAnswer(m)
  /\ UNCHANGED <<ctxErr, stage, job, answer, cluster, gauge, crashes, history>>

\* The request is refused, or gets lost.
Reject(m) == /\ \/ \E err \in Rejections : Answer(m, "create", err)
                \/ NoAnswer(m)
             /\ UNCHANGED <<ctxErr, stage, job, answer, cluster, gauge, crashes, history>>

----------------------------------------------------------------------------
(* The environment.                                                        *)

\* An object is removed: by its TTL after it has finished, or by a user.
Remove(id) == /\ cluster[id] # None
              /\ cluster' = [cluster EXCEPT ![id] = None]
              /\ UNCHANGED <<apiVars, ctxErr, stage, job, answer, gauge, crashes, history>>

Cancel(c) == /\ stage[c] = "submit"
             /\ ctxErr[c] = NoError
             /\ ctxErr' = [ctxErr EXCEPT ![c] = "Canceled"]
             /\ UNCHANGED <<apiVars, stage, job, answer, cluster, gauge, crashes, history>>

\* The process is killed and started again: what it had under way is lost.
Crash ==
  /\ crashes < MaxCrashes
  /\ crashes' = crashes + 1
  /\ stage' = [c \in Calls |-> IF stage[c] = "submit" THEN "lost" ELSE stage[c]]
  /\ retry' = [c \in Calls |-> NewFrame("idle")]
  /\ gauge' = [k \in Kinds \X Namespaces |-> 0]
  /\ UNCHANGED <<net, ctxErr, job, answer, cluster, history>>

----------------------------------------------------------------------------
Handler(c) == SendCreate(c) \/ CreateFails(c) \/ LoopGoesOn(c) \/ Respond(c)
Invoke(c)  == \E in \in Inputs : Refuse(c, in) \/ \E name \in Names : Accept(c, in, name)
Server(m)  == Commit(m) \/ Conflict(m) \/ Reject(m)

Next == \/ \E c \in Calls : Invoke(c) \/ Handler(c) \/ Cancel(c)
        \/ \E m \in net : Server(m)
        \/ \E id \in Ids : Remove(id)
        \/ Crash

(***************************************************************************)
(* A handler that can take a step does: its goroutine is scheduled and its *)
(* timers fire.  Nothing is asked of the API server, of the connection or  *)
(* of the client.                                                          *)
(***************************************************************************)
Progress(c) == SendCreate(c) \/ CreateTimesOut(c) \/ LoopGoesOn(c) \/ Respond(c)

Spec     == Init /\ [][Next]_vars
FairSpec == Spec /\ \A c \in Calls : WF_vars(Progress(c))
----------------------------------------------------------------------------
Stages == {"idle", "submit", "done", "lost"}

TypeOK == /\ RetryTypeOK
          /\ NetTypeOK
          /\ ctxErr \in [Calls -> {NoError, "Canceled"}]
          /\ stage \in [Calls -> Stages]
          /\ job \in [Calls -> Ids \cup {None}]
          /\ answer \in [Calls -> {None, "ok", "error"}]
          /\ cluster \in [Ids -> Calls \cup {None}]
          /\ gauge \in [Kinds \X Namespaces -> Nat]
          /\ crashes \in 0 .. MaxCrashes
          /\ made \in [Calls -> Ids \cup {None}]
          /\ doubt \subseteq Calls

(***************************************************************************)
(* One tool call never has more than one object, however many of its       *)
(* attempts reach the API server, in whatever order, and even when they    *)
(* arrive after the call was answered, the process was killed, or the      *)
(* object was removed (when the same object is created a second time).     *)
(***************************************************************************)
AtMostOneJobPerCall ==
  \A i, j \in Ids : cluster[i] = cluster[j] /\ cluster[i] # None => i = j

(***************************************************************************)
(* An "ok" names an object that this very call created: a conflict with    *)
(* the object of another call is never taken for success.  (It does not    *)
(* say that the object is still there: see Remove.)                        *)
(***************************************************************************)
SuccessNamesOwnJob ==
  \A c \in Calls : answer[c] = "ok" => job[c] \in Ids /\ made[c] = job[c]

(***************************************************************************)
(* An error is to be believed, unless an attempt was left in doubt: a call *)
(* all of whose attempts the API server has answered, and answered with    *)
(* what it did, is told of an error only when no request of it was         *)
(* executed or ever will be, however many attempts there were.  (Once an   *)
(* attempt is in doubt even a 409 may be for the call's own object.)       *)
(***************************************************************************)
ErrorsAreTruthful ==
  \A c \in Calls \ doubt : answer[c] = "error" =>
    made[c] = None /\ \A m \in net : m.call # c

(***************************************************************************)
(* ActiveJobs counts nothing that was not created: within a kind and a     *)
(* namespace it is at most the number of calls that made an object there,  *)
(* through conflicts, lost answers and restarts.  It says nothing of the   *)
(* objects that still exist: nothing ever decrements the gauge.            *)
(***************************************************************************)
Makers(k, ns) == {c \in Calls : \E n \in Names : made[c] = [kind |-> k, ns |-> ns, name |-> n]}

GaugeCountsOnlyMade ==
  \A k \in Kinds, ns \in Namespaces : gauge[<<k, ns>>] <= Cardinality(Makers(k, ns))

(***************************************************************************)
(* The help text of the gauge: "Number of currently active Kubernetes      *)
(* jobs".  When no call and no request is under way, the process was never *)
(* restarted and none of the objects was removed, it would have to be the  *)
(* number of objects.                                                      *)
(***************************************************************************)
Quiet == /\ net = {} /\ crashes = 0
         /\ \A c \in Calls : /\ stage[c] # "submit"
                             /\ made[c] # None => cluster[made[c]] = c

GaugeCountsActiveJobs ==
  Quiet => \A k \in Kinds, ns \in Namespaces :
    gauge[<<k, ns>>] =
      Cardinality({n \in Names : cluster[[kind |-> k, ns |-> ns, name |-> n]] # None})

(***************************************************************************)
(* Every accepted call is answered, unless the process is killed: neither  *)
(* the API server nor the network can keep it waiting.                     *)
(***************************************************************************)
EveryCallAnswered ==
  \A c \in Calls : stage[c] = "submit" ~> stage[c] \in {"done", "lost"}

\* The tools keep the promise of AtMostOnceSubmit.
Promise == INSTANCE AtMostOnceSubmit
             WITH Calls <- Calls, Ids <- Ids, None <- None,
                  cluster <- cluster, made <- made, answer <- answer
PromiseKept == Promise!Spec
=============================================================================
