--------------------------------- MODULE JobStatus ---------------------------------
(***************************************************************************)
(* check_status (internal/mcp/handlers.go) and the Get*Status methods it   *)
(* calls (internal/k8s/{mpijob,jobset,job}.go), against one submitted      *)
(* object whose status its controller moves on concurrently.  A check      *)
(* reads the object through the retry loop and derives a phase from what   *)
(* it got: from the conditions of an MPIJob or a JobSet, from the pod      *)
(* counts of a batch Job.                                                  *)
(***************************************************************************)
EXTENDS RetryOnTransient, ConditionPhase

CONSTANTS
  Kinds,         \* the kinds of object there may be, of the three below
  BackoffLimit,  \* of the batch Jobs that BuildReducerJob builds (3 in the code)
  Rejections,    \* errors the API server answers a Get with
  NetFaults,     \* errors of the connection
  MaxChecks,     \* bound on the checks of one caller
  None

ASSUME StatusAssumption ==
  /\ Kinds \subseteq {"mpijob", "jobset", "job"}
  /\ BackoffLimit \in Nat /\ MaxChecks \in Nat
  /\ Rejections \subseteq ApiErrors /\ NetFaults \subseteq NetErrors

VARIABLES
  object,  \* the submitted object, as the API server has it
  ctxErr,  \* ctxErr[c]: ctx.Err() of the check of c
  check,   \* check[c]: where the check of c is
  got,     \* got[c]: what the API server read for c's attempt, not yet delivered
  seen,    \* seen[c]: the object the last successful attempt returned
  before,  \* before[c]: history, the outcome of the object when the check began
  answers  \* answers[c]: the phases (or "error") c was answered, check after check

checkVars == <<retry, ctxErr, check, got, seen, before, answers>>
vars == <<object, checkVars>>

----------------------------------------------------------------------------
(* The phase of an object, as each kind's handler derives it.              *)

\* Mutants: a pod that failed outweighs one that succeeded; an off-by-one.
getBatchJobStatus_FailedFirst(status) ==
  IF status.failed > 0 THEN "Failed"
  ELSE IF status.succeeded > 0 THEN "Succeeded"
  ELSE IF status.active > 0 THEN "Running"
  ELSE "Pending"
getBatchJobStatus_AtLeastZero(status) ==
  IF status.succeeded >= 0 THEN "Succeeded"
  ELSE IF status.failed > 0 THEN "Failed"
  ELSE IF status.active > 0 THEN "Running"
  ELSE "Pending"

getBatchJobStatus(status) ==
  IF status.succeeded > 0 THEN "Succeeded"
  ELSE IF status.failed > 0 THEN "Failed"
  ELSE IF status.active > 0 THEN "Running"
  ELSE "Pending"

\* getMPIJobStatus and getJobSetStatus both read the conditions.
Phase(status) == IF status.kind = "job" THEN getBatchJobStatus(status)
                 ELSE extractConditionPhase(status.conditions)

----------------------------------------------------------------------------
(* The controllers (external).  They keep at most one condition of a type, *)
(* replace it in place, and append a new one.                              *)

Items == object.conditions.items
Holds(type) == \E i \in DOMAIN Items : Items[i] = Condition(type, "True")
Has(type)   == \E i \in DOMAIN Items : Items[i].type = type

\* The conditions after these types are set, those of unset being False.
With(set, unset) ==
  LET kept == [i \in DOMAIN Items |->
                 IF Items[i].type \in unset THEN Condition(Items[i].type, "False")
                 ELSE IF Items[i].type = set THEN Condition(set, "True")
                 ELSE Items[i]]
  IN  List(IF Has(set) THEN kept ELSE Append(kept, Condition(set, "True")))

\* The conditions that end an object, and the phases that stand for them.
Success == [mpijob |-> "Succeeded", jobset |-> "Completed", job |-> "Complete"]
Outcome == IF Holds(Success[object.kind]) THEN "success"
           ELSE IF Holds("Failed") THEN "failure" ELSE "none"
SuccessPhases == {"Succeeded", "Completed"}

Finish == \E type \in {Success[object.kind], "Failed"} :
  object' = [object EXCEPT !.conditions = With(type, {"Running", "Suspended"})]

\* An MPIJob is created, runs, may be suspended and resumed, and ends.
MPIJobMoves ==
  /\ object.kind = "mpijob" /\ Outcome = "none"
  /\ \/ /\ ~Has("Created")
        /\ object' = [object EXCEPT !.conditions = With("Created", {})]
     \/ /\ Holds("Created")
        /\ object' = [object EXCEPT !.conditions = With("Running", {"Suspended"})]
     \/ /\ Holds("Created")
        /\ object' = [object EXCEPT !.conditions = With("Suspended", {"Running"})]
     \/ Holds("Running") /\ Finish

\* A JobSet shows nothing while it runs; it may be suspended and resumed.
JobSetMoves ==
  /\ object.kind = "jobset" /\ Outcome = "none"
  /\ \/ object' = [object EXCEPT !.conditions = With("Suspended", {})]
     \/ /\ Holds("Suspended")
        /\ object' = [object EXCEPT !.conditions = List(<<Condition("Suspended", "False")>>)]
     \/ ~Holds("Suspended") /\ Finish

\* A Job runs one pod at a time; the pods are not restarted, but replaced
\* until one succeeds or more than BackoffLimit have failed.
JobMoves ==
  /\ object.kind = "job" /\ Outcome = "none"
  /\ \/ /\ object.active = 0 /\ object.succeeded = 0 /\ object.failed <= BackoffLimit
        /\ object' = [object EXCEPT !.active = 1]
     \/ /\ object.active = 1
        /\ object' = [object EXCEPT !.active = 0, !.failed = @ + 1]
     \/ /\ object.active = 1
        /\ object' = [object EXCEPT !.active = 0, !.succeeded = 1]
     \/ /\ object.succeeded = 1
        /\ object' = [object EXCEPT !.conditions = With("Complete", {})]
     \/ /\ object.failed > BackoffLimit
        /\ object' = [object EXCEPT !.conditions = With("Failed", {})]

\* The object is removed: by its TTL, or by a user.
Removed == object' = [object EXCEPT !.exists = FALSE]

Controller == /\ object.exists
              /\ MPIJobMoves \/ JobSetMoves \/ JobMoves \/ Removed
              /\ UNCHANGED checkVars

----------------------------------------------------------------------------
(* check_status.                                                           *)

Init == /\ object \in [kind : Kinds, exists : {TRUE}, active : {0}, succeeded : {0},
                       failed : {0}, conditions : {NoList(Absent)}]
        /\ RetryInit
        /\ ctxErr = [c \in Calls |-> NoError]
        /\ check  = [c \in Calls |-> [pc |-> "idle", asked |-> None]]
        /\ got    = [c \in Calls |-> None]
        /\ seen   = [c \in Calls |-> None]
        /\ before = [c \in Calls |-> "none"]
        /\ answers = [c \in Calls |-> <<>>]

\* What tells the inputs apart: the namespace, and the type asked for.
Inputs == [id : {"", "job"}, ns : {"valid", "invalid"}, type : Kinds \cup {"other"}]

\* Mutant: any job_type is let through.
handleCheckStatus_AnyType(in) == in.id # "" /\ in.ns = "valid"

handleCheckStatus(in) ==
  /\ in.id # ""
  /\ in.ns = "valid"
  /\ in.type \in {"mpijob", "jobset", "job"}

Ready(c) == check[c].pc \in {"idle", "done"} /\ Len(answers[c]) < MaxChecks

Refuse(c, in) ==
  /\ Ready(c) /\ ~handleCheckStatus(in)
  /\ answers' = [answers EXCEPT ![c] = Append(@, Error)]
  /\ UNCHANGED <<object, retry, ctxErr, check, got, seen, before>>

\* The result variable of a Get*Status is fresh in every call.
Begin(c, in) ==
  /\ Ready(c) /\ handleCheckStatus(in)
  /\ check'  = [check EXCEPT ![c] = [pc |-> "get", asked |-> in.type]]
  /\ RetryBegin(c)
  /\ ctxErr' = [ctxErr EXCEPT ![c] = NoError]
  /\ got'    = [got EXCEPT ![c] = None]
  /\ seen'   = [seen EXCEPT ![c] = None]
  /\ before' = [before EXCEPT ![c] = Outcome]
  /\ UNCHANGED <<object, answers>>

SendGet(c) == /\ RetryAttempt(c, ctxErr[c])
              /\ got' = [got EXCEPT ![c] = None]
              /\ UNCHANGED <<object, ctxErr, check, seen, before, answers>>

\* The API server reads the object; a Get of another kind finds nothing.
Served(c) ==
  /\ retry[c].pc = "call" /\ got[c] = None
  /\ got' = [got EXCEPT ![c] = object]
  /\ UNCHANGED <<object, retry, ctxErr, check, seen, before, answers>>

Found(c) == got[c].exists /\ got[c].kind = check[c].asked

\* What it read reaches the attempt, which keeps it and ends the loop.
GetAnswered(c) ==
  /\ got[c] # None
  /\ \/ Found(c) /\ RetryReturns(c, NoError) /\ seen' = [seen EXCEPT ![c] = got[c]]
     \/ ~Found(c) /\ RetryReturns(c, "NotFound") /\ UNCHANGED seen
  /\ UNCHANGED <<object, ctxErr, check, got, before, answers>>

\* The attempt fails: its deadline or the context ends it ...
GetFails(c, errs) ==
  /\ \E err \in errs \ {NoError} : RetryReturns(c, err)
  /\ UNCHANGED <<object, ctxErr, check, got, seen, before, answers>>

\* Mutant: the attempts have no deadline, only the call has.
GetTimesOut_NoDeadline(c) == GetFails(c, {ctxErr[c]})

GetTimesOut(c) == GetFails(c, {"DeadlineExceeded", ctxErr[c]})

\* ... or the connection breaks, or an error is answered.
GetRefused(c) == GetFails(c, Rejections \cup NetFaults)

LoopGoesOn(c) == /\ \/ RetryContextDone(c, ctxErr[c])
                    \/ BackoffInterrupted(c, ctxErr[c])
                    \/ BackoffElapsed(c)
                 /\ UNCHANGED <<object, ctxErr, check, got, seen, before, answers>>

Respond(c) ==
  /\ check[c].pc = "get" /\ Returned(c)
  /\ check'  = [check EXCEPT ![c].pc = "done"]
  /\ answers' = [answers EXCEPT ![c] = Append(@, IF retry[c].lastErr # NoError THEN Error
                                                 ELSE Phase(seen[c]))]
  /\ RetryDone(c)
  /\ UNCHANGED <<object, ctxErr, got, seen, before>>

Cancel(c) == /\ check[c].pc = "get" /\ ctxErr[c] = NoError
             /\ ctxErr' = [ctxErr EXCEPT ![c] = "Canceled"]
             /\ UNCHANGED <<object, retry, check, got, seen, before, answers>>

----------------------------------------------------------------------------
Handler(c) == SendGet(c) \/ GetTimesOut(c) \/ LoopGoesOn(c) \/ Respond(c)
Server(c)  == Served(c) \/ GetAnswered(c) \/ GetRefused(c)

Next == \/ Controller
        \/ \E c \in Calls : \/ \E in \in Inputs : Refuse(c, in) \/ Begin(c, in)
                            \/ Handler(c) \/ Server(c) \/ Cancel(c)

\* A check that can take a step does: every Get has a deadline of its own.
\* Nothing is asked of the API server or of the controller.
Spec     == Init /\ [][Next]_vars
FairSpec == Spec /\ \A c \in Calls : WF_vars(Handler(c))

----------------------------------------------------------------------------
Objects ==
  [kind : Kinds, exists : BOOLEAN, active : 0 .. 1, succeeded : 0 .. 1,
   failed : 0 .. BackoffLimit + 1,
   conditions : [list : {"ok", Absent},
                 items : Seq([map : {TRUE}, status : {"True", "False"},
                              type : {"Created", "Running", "Suspended", "Succeeded",
                                      "Completed", "Complete", "Failed"}])]]

\* Every answer is an error or a phase the kinds of object can show.
TypeOK ==
  /\ RetryTypeOK
  /\ object \in Objects
  /\ ctxErr \in [Calls -> {NoError, "Canceled"}]
  /\ check \in [Calls -> [pc : {"idle", "get", "done"}, asked : Kinds \cup {None}]]
  /\ \A c \in Calls : {got[c], seen[c]} \subseteq Objects \cup {None}
  /\ before \in [Calls -> {"none", "success", "failure"}]
  /\ answers \in [Calls -> Seq({"error", "Pending", "Created", "Running", "Suspended",
                                "Succeeded", "Completed", "Failed"})]

(***************************************************************************)
(* A check that begins after the object has ended, and is answered a       *)
(* phase, is answered how the object ended, whatever pods failed on the    *)
(* way, whatever conditions the object went through, and however many      *)
(* attempts the Get took.                                                  *)
(***************************************************************************)
FinishedIsReported ==
  \A c \in Calls : check[c].pc = "done" =>
    LET answer == answers[c][Len(answers[c])]
    IN  /\ before[c] = "success" => answer \in SuccessPhases \cup {"error"}
        /\ before[c] = "failure" => answer \in {"Failed", "error"}

(***************************************************************************)
(* A success is final: an object that a check has reported as succeeded or *)
(* completed never fails afterwards, and no later check reports any other  *)
(* phase.                                                                  *)
(***************************************************************************)
SuccessIsFinal ==
  \A c \in Calls : \A i \in DOMAIN answers[c] :
    answers[c][i] \in SuccessPhases =>
      /\ Outcome # "failure"
      /\ \A j \in i .. Len(answers[c]) : answers[c][j] \in SuccessPhases \cup {"error"}

(***************************************************************************)
(* "Determine phase from Job conditions and counts": a phase Failed says   *)
(* that the Job has failed, not that one of its pods has.                  *)
(***************************************************************************)
FailedMeansFailed ==
  \A c \in Calls : \A i \in DOMAIN answers[c] :
    answers[c][i] = "Failed" => Outcome = "failure"

(***************************************************************************)
(* "Returns phase (Pending/Running/Succeeded/Failed)": no other phase is   *)
(* ever answered.                                                          *)
(***************************************************************************)
PhaseAsDocumented ==
  \A c \in Calls : \A i \in DOMAIN answers[c] :
    answers[c][i] \in {"error", "Pending", "Running", "Succeeded", "Failed"}

(***************************************************************************)
(* Every check that begins is answered: no retry, lost answer or timeout   *)
(* keeps it from ending, whatever the controller does meanwhile.           *)
(***************************************************************************)
EveryCheckAnswered == \A c \in Calls : check[c].pc = "get" ~> check[c].pc = "done"
====================================================================================
