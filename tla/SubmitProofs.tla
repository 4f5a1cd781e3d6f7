------------------------------- MODULE SubmitProofs -------------------------------
(***************************************************************************)
(* Theorems about Submit, for every number of calls, names, namespaces,    *)
(* attempts and kills: type correctness, at most one object per call, a    *)
(* success names the call's own object, the refinement of                  *)
(* AtMostOnceSubmit, an error that is not in doubt is to be believed, and  *)
(* the gauge counts no job that was not created.                           *)
(***************************************************************************)
EXTENDS Submit, RetryProofs, FiniteSetTheorems, TLAPS

(***************************************************************************)
(* The inductive invariant.  Its heart is MadeByJob: what a call has made  *)
(* is at the name it was given, because the name is picked once, before    *)
(* the retry loop, and every attempt repeats it.  SuccessHolds says that   *)
(* the loop returns without an error only after the object of this very    *)
(* call was created: a conflict is an error, even in a retry.              *)
(***************************************************************************)
Named        == \A m \in net : job[m.call] \in Ids
MadeByJob    == \A c \in Calls : made[c] # None => made[c] = job[c]
OwnedByMaker == \A id \in Ids : cluster[id] # None => made[cluster[id]] = id
SuccessHolds == \A c \in Calls : Returned(c) /\ retry[c].lastErr = NoError => made[c] # None
AnswerHolds  == \A c \in Calls : answer[c] = "ok" => made[c] # None
Stage(c) ==
  /\ stage[c] = "idle" => job[c] = None
  /\ stage[c] # "done" => answer[c] = None
  /\ stage[c] = "submit" => job[c] \in Ids
  /\ retry[c].pc # "idle" => stage[c] = "submit"
  /\ retry[c].pc = "backoff" => retry[c].lastErr # NoError /\ retry[c].attempt < retryMaxAttempts

IInv == /\ TypeOK
        /\ Named
        /\ MadeByJob
        /\ OwnedByMaker
        /\ SuccessHolds
        /\ AnswerHolds
        /\ \A c \in Calls : Stage(c)

----------------------------------------------------------------------------
(* The frame of an attempt is that of a live call, whose job has a name.   *)
LEMMA Types ==
  ASSUME IInv
  PROVE  /\ RetryTypeOK /\ NetTypeOK
         /\ \A c \in Calls : /\ ctxErr[c] \in Errors \cup {NoError}
                             /\ stage[c] \in Stages /\ job[c] \in Ids \cup {None}
                             /\ answer[c] \in {None, "ok", "error"}
                             /\ made[c] \in Ids \cup {None}
         /\ \A id \in Ids : cluster[id] \in Calls \cup {None}
         /\ None \notin Ids /\ None \notin Calls /\ None # "ok"
  BY SubmitAssumption DEF IInv, TypeOK, Errors, NetErrors

LEMMA DoubtType == IInv => doubt \subseteq Calls
  BY DEF IInv, TypeOK

LEMMA BoundType == MaxCrashes \in Nat
  BY SubmitAssumption, Zenon DEF SubmitAssumption

LEMMA InitInv == Init => IInv
<1> SUFFICES ASSUME Init PROVE IInv
  OBVIOUS
<1>1. RetryTypeOK
  BY RetryAssumption DEF Init, RetryInit, RetryTypeOK, Frame, NewFrame, NoError
<1>2. TypeOK
  <2>1. crashes \in 0 .. MaxCrashes
    BY BoundType DEF Init
  <2>2. gauge \in [Kinds \X Namespaces -> Nat]
    BY DEF Init
  <2> QED BY <1>1, <2>1, <2>2 DEF Init, NetInit, TypeOK, NetTypeOK, Stages
<1>3. \A c \in Calls : retry[c].pc = "idle"
  BY DEF Init, RetryInit, NewFrame
<1>4. Named /\ MadeByJob /\ OwnedByMaker /\ SuccessHolds
  BY <1>3 DEF Init, NetInit, Named, MadeByJob, OwnedByMaker, SuccessHolds, Returned
<1>5. AnswerHolds
  BY SubmitAssumption DEF Init, AnswerHolds
<1>6. \A c \in Calls : Stage(c)
  BY <1>3 DEF Init, Stage
<1> QED BY <1>2, <1>4, <1>5, <1>6 DEF IInv

----------------------------------------------------------------------------
(* One lemma per action.                                                   *)

LEMMA RefuseInv ==
  ASSUME IInv, NEW c \in Calls, NEW in \in Inputs, Refuse(c, in) PROVE IInv'
<1>1. TypeOK'
  BY DEF IInv, TypeOK, RetryTypeOK, NetTypeOK, Refuse, apiVars, history, Stages
<1>2. Named' /\ MadeByJob' /\ OwnedByMaker' /\ SuccessHolds'
  BY DEF IInv, Named, MadeByJob, OwnedByMaker, SuccessHolds, Returned, Refuse, apiVars, history
<1>3. AnswerHolds'
  BY Types DEF IInv, TypeOK, AnswerHolds, Refuse, history
<1>4. \A d \in Calls : Stage(d)'
  BY DEF IInv, TypeOK, Stage, Refuse, apiVars
<1> QED BY <1>1, <1>2, <1>3, <1>4 DEF IInv

LEMMA AcceptInv ==
  ASSUME IInv, NEW c \in Calls, NEW in \in Inputs, NEW name \in Names, Accept(c, in, name)
  PROVE  IInv'
<1> DEFINE id == [kind |-> in.kind, ns |-> resolveNamespace(in.ns), name |-> name]
<1>1. id \in Ids
  <2>1. in.kind \in Kinds
    BY DEF Inputs
  <2>2. resolveNamespace(in.ns) \in Namespaces
    BY DEF Accept, Accepted, handleSubmitMPIJob, handleSubmitMonteCarlo,
           handleSubmitReducer, validateNamespace
  <2> QED BY <2>1, <2>2 DEF Ids
<1>2. /\ stage[c] = "idle" /\ job[c] = None
      /\ stage' = [stage EXCEPT ![c] = "submit"] /\ job' = [job EXCEPT ![c] = id]
      /\ UNCHANGED <<net, ctxErr, answer, cluster, gauge, crashes, made, doubt>>
  BY DEF Accept, IInv, Stage, history
<1>3. /\ RetryTypeOK' /\ retry'[c].pc = "check"
      /\ \A d \in Calls \ {c} : retry'[d] = retry[d]
  BY Types, NewFrameEffect DEF Accept, RetryBegin
<1>4. TypeOK'
  BY <1>1, <1>2, <1>3 DEF IInv, TypeOK, NetTypeOK, Stages
<1>5. \A d \in Calls : job[d] \in Ids => d # c /\ job'[d] = job[d]
  BY <1>2, Types DEF IInv, TypeOK
<1>6. Named'
  BY <1>2, <1>5 DEF IInv, TypeOK, NetTypeOK, Requests, Named
<1>7. MadeByJob' /\ OwnedByMaker'
  <2>1. \A d \in Calls : made[d] # None => job[d] \in Ids /\ made[d] = job[d]
    BY Types DEF IInv, MadeByJob
  <2>2. MadeByJob'
    BY <1>2, <1>5, <2>1 DEF MadeByJob
  <2>3. OwnedByMaker'
    BY <1>2 DEF IInv, OwnedByMaker
  <2> QED BY <2>2, <2>3
<1>8. SuccessHolds'
  <2> SUFFICES ASSUME NEW d \in Calls, Returned(d)', retry'[d].lastErr = NoError
               PROVE  made[d] # None
    BY <1>2 DEF SuccessHolds
  <2>1. d # c /\ retry'[d] = retry[d]
    BY <1>3 DEF Returned
  <2> QED BY <2>1 DEF IInv, SuccessHolds, Returned
<1>9. AnswerHolds'
  BY <1>2 DEF IInv, AnswerHolds
<1>10. \A d \in Calls : Stage(d)'
  BY <1>1, <1>2, <1>3 DEF IInv, TypeOK, Stage
<1> QED BY <1>4, <1>6, <1>7, <1>8, <1>9, <1>10 DEF IInv

(***************************************************************************)
(* A step that only moves the frame of a live call c, sends or drops       *)
(* requests of live or named jobs, and never returns success.              *)
(***************************************************************************)
LEMMA FrameMoves ==
  ASSUME IInv, NEW c \in Calls,
         RetryTypeOK', NetTypeOK',
         \A d \in Calls \ {c} : retry'[d] = retry[d],
         retry[c].pc # "idle",
         Returned(c)' => retry'[c].lastErr # NoError,
         retry'[c].pc = "backoff" => retry'[c].lastErr # NoError
                                     /\ retry'[c].attempt < retryMaxAttempts,
         \A m \in net' : m \in net \/ m.call = c,
         UNCHANGED <<ctxErr, stage, job, answer, cluster, gauge, crashes, made>>,
         doubt' \subseteq Calls
  PROVE  IInv'
<1>1. TypeOK'
  BY DEF IInv, TypeOK
<1>2. stage[c] = "submit" /\ job[c] \in Ids
  BY DEF IInv, Stage
<1>3. Named'
  BY <1>2 DEF IInv, Named
<1>4. MadeByJob' /\ OwnedByMaker' /\ AnswerHolds'
  BY DEF IInv, MadeByJob, OwnedByMaker, AnswerHolds
<1>5. SuccessHolds'
  BY DEF IInv, SuccessHolds, Returned
<1>6. \A d \in Calls : Stage(d)'
  BY <1>2 DEF IInv, Stage
<1> QED BY <1>1, <1>3, <1>4, <1>5, <1>6 DEF IInv

LEMMA SendCreateInv ==
  ASSUME IInv, NEW c \in Calls, SendCreate(c) PROVE IInv'
<1>1. /\ retry[c].pc = "check"
      /\ RetryTypeOK' /\ retry'[c].pc = "call"
      /\ \A d \in Calls \ {c} : retry'[d] = retry[d]
  BY Types, FrameType, MoveEffect DEF SendCreate, SendRequest, RetryAttempt
<1> DEFINE m == [call |-> c, op |-> "create", try |-> retry[c].attempt]
<1>2. m \in Requests /\ net' = net \cup {m}
  BY Types, FrameType, SubmitAssumption DEF Requests, SendCreate, SendRequest
<1>3. NetTypeOK' /\ \A r \in net' : r \in net \/ r.call = c
  BY <1>2, Types DEF NetTypeOK
<1> QED BY <1>1, <1>3, DoubtType, FrameMoves DEF SendCreate, Returned, history

LEMMA CreateFailsInv ==
  ASSUME IInv, NEW c \in Calls, CreateFails(c) PROVE IInv'
<1>1. PICK err \in Errors : err # NoError /\ RetryReturns(c, err)
  <2>1. ({"DeadlineExceeded", ctxErr[c]} \cup NetFaults) \ {NoError} \subseteq Errors
    BY Types, KubeApiAssumption DEF Errors, NetErrors
  <2> QED BY <2>1 DEF CreateFails, CreateTimesOut, CreateBreaks, AttemptFails
<1>2. /\ RetryTypeOK' /\ retry[c].pc = "call" /\ retry'[c].lastErr # NoError
      /\ retry'[c].pc = "backoff" => retry'[c].attempt < retryMaxAttempts
      /\ \A d \in Calls \ {c} : retry'[d] = retry[d]
  BY <1>1, Types, RetryReturnsEffect, FrameType, RetryAssumption DEF GivesUp
<1>3. NetTypeOK' /\ net' = net
  BY Types DEF CreateFails, CreateTimesOut, CreateBreaks, AttemptFails, NetTypeOK
<1> QED BY <1>2, <1>3, DoubtType, FrameMoves DEF CreateFails, CreateTimesOut, CreateBreaks

LEMMA LoopGoesOnInv ==
  ASSUME IInv, NEW c \in Calls, LoopGoesOn(c) PROVE IInv'
<1>1. NetTypeOK' /\ net' = net
  BY Types DEF LoopGoesOn, NetTypeOK
<1>2. retry[c].pc = "backoff" => retry[c].lastErr # NoError /\ retry[c].attempt < retryMaxAttempts
  BY DEF IInv, Stage
<1>3. CASE RetryContextDone(c, ctxErr[c]) \/ BackoffInterrupted(c, ctxErr[c])
  <2>1. /\ RetryTypeOK' /\ retry[c].pc \in {"check", "backoff"}
        /\ retry'[c].pc = "returned" /\ retry'[c].lastErr # NoError
        /\ \A d \in Calls \ {c} : retry'[d] = retry[d]
    BY <1>2, <1>3, Types, ContextDoneEffect
  <2> QED BY <2>1, <1>1, DoubtType, FrameMoves DEF LoopGoesOn, history
<1>4. CASE BackoffElapsed(c)
  <2>1. /\ RetryTypeOK' /\ retry[c].pc = "backoff" /\ retry'[c].pc = "check"
        /\ \A d \in Calls \ {c} : retry'[d] = retry[d]
    BY <1>2, <1>4, Types, BackoffElapsedEffect DEF BackoffElapsed
  <2> QED BY <2>1, <1>1, DoubtType, FrameMoves DEF LoopGoesOn, Returned, history
<1> QED BY <1>3, <1>4 DEF LoopGoesOn

LEMMA RespondInv ==
  ASSUME IInv, NEW c \in Calls, Respond(c) PROVE IInv'
<1> DEFINE ok == retry[c].lastErr = NoError
<1>1. /\ stage[c] = "submit" /\ Returned(c) /\ job[c] \in Ids
      /\ stage' = [stage EXCEPT ![c] = "done"]
      /\ answer' = [answer EXCEPT ![c] = IF ok THEN "ok" ELSE "error"]
      /\ UNCHANGED <<net, ctxErr, job, cluster, crashes, made, doubt>>
  BY DEF Respond, IInv, Stage, history
<1>2. /\ RetryTypeOK' /\ retry'[c].pc = "idle"
      /\ \A d \in Calls \ {c} : retry'[d] = retry[d]
  BY Types, NewFrameEffect DEF Respond, RetryDone
<1>3. gauge' \in [Kinds \X Namespaces -> Nat]
  <2> DEFINE k == <<job[c].kind, job[c].ns>>
  <2>1. k \in Kinds \X Namespaces /\ gauge \in [Kinds \X Namespaces -> Nat]
    BY <1>1 DEF Ids, IInv, TypeOK
  <2>2. gauge[k] + 1 \in Nat
    BY <2>1
  <2>3. gauge' = [gauge EXCEPT ![k] = gauge[k] + 1] \/ gauge' = gauge
    BY DEF Respond
  <2> HIDE DEF k
  <2> QED BY <2>1, <2>2, <2>3
<1>4. TypeOK'
  BY <1>1, <1>2, <1>3 DEF IInv, TypeOK, NetTypeOK, Stages
<1>5. Named' /\ MadeByJob' /\ OwnedByMaker'
  BY <1>1 DEF IInv, Named, MadeByJob, OwnedByMaker
<1>6. SuccessHolds'
  BY <1>1, <1>2 DEF IInv, SuccessHolds, Returned
<1>7. AnswerHolds'
  <2>1. ok => made[c] # None
    BY <1>1 DEF IInv, SuccessHolds
  <2> SUFFICES ASSUME NEW d \in Calls, answer'[d] = "ok"
               PROVE  made[d] # None
    BY <1>1 DEF AnswerHolds
  <2>2. CASE d = c
    <3>1. ok
      BY <1>1, <2>2 DEF IInv, TypeOK
    <3> QED BY <3>1, <2>1, <2>2, <1>1
  <2>3. CASE d # c
    BY <2>3, <1>1 DEF IInv, TypeOK, AnswerHolds
  <2> QED BY <2>2, <2>3
<1>8. \A d \in Calls : Stage(d)'
  BY <1>1, <1>2 DEF IInv, TypeOK, Stage
<1> QED BY <1>4, <1>5, <1>6, <1>7, <1>8 DEF IInv

(***************************************************************************)
(* What an answered or dropped request does to the frames.                 *)
(***************************************************************************)
LEMMA ServedEffect ==
  ASSUME IInv, NEW m \in net, NEW errs \in SUBSET (Errors \cup {NoError}),
         \/ \E err \in errs : Answer(m, "create", err)
         \/ NoAnswer(m)
  PROVE  /\ RetryTypeOK' /\ NetTypeOK' /\ net' \subseteq net
         /\ \A d \in Calls \ {m.call} : retry'[d] = retry[d]
         /\ \/ retry' = retry
            \/ /\ retry[m.call].pc = "call"
               /\ \/ /\ retry'[m.call].pc = "returned" /\ retry'[m.call].lastErr \in errs
                  \/ /\ retry'[m.call].pc = "backoff" /\ retry'[m.call].lastErr # NoError
                     /\ retry'[m.call].attempt < retryMaxAttempts
<1>1. m.call \in Calls /\ RetryTypeOK /\ net' = net \ {m} /\ NetTypeOK'
  BY Types DEF NetTypeOK, Requests, Answer, NoAnswer
<1>2. CASE NoAnswer(m)
  BY <1>1, <1>2 DEF NoAnswer, RetryTypeOK
<1>3. ASSUME NEW err \in errs, Answer(m, "create", err)
      PROVE  /\ RetryTypeOK'
             /\ \A d \in Calls \ {m.call} : retry'[d] = retry[d]
             /\ retry[m.call].pc = "call"
             /\ \/ /\ retry'[m.call].pc = "returned" /\ retry'[m.call].lastErr \in errs
                \/ /\ retry'[m.call].pc = "backoff" /\ retry'[m.call].lastErr # NoError
                   /\ retry'[m.call].attempt < retryMaxAttempts
  <2>1. RetryReturns(m.call, err)
    BY <1>3 DEF Answer
  <2>2. retry[m.call].attempt \in 0 .. retryMaxAttempts
    BY <1>1, FrameType
  <2> QED BY <1>1, <2>1, <2>2, RetryReturnsEffect, RetryAssumption DEF GivesUp
<1> QED BY <1>1, <1>2, <1>3

(* What executing a request does, before its answer is delivered.          *)
LEMMA CommitEffect ==
  ASSUME IInv, NEW m \in net, Commit(m)
  PROVE  /\ m.call \in Calls /\ job[m.call] \in Ids
         /\ cluster[job[m.call]] = None
         /\ cluster' = [cluster EXCEPT ![job[m.call]] = m.call]
         /\ made' = [made EXCEPT ![m.call] = job[m.call]]
         /\ UNCHANGED <<ctxErr, stage, job, answer, gauge, crashes>>
         /\ doubt' \subseteq Calls
         /\ RetryTypeOK' /\ NetTypeOK' /\ net' \subseteq net
         /\ \A d \in Calls \ {m.call} : retry'[d] = retry[d]
         /\ \/ retry' = retry
            \/ /\ retry[m.call].pc = "call"
               /\ \/ retry'[m.call].pc = "returned"
                  \/ /\ retry'[m.call].pc = "backoff" /\ retry'[m.call].lastErr # NoError
                     /\ retry'[m.call].attempt < retryMaxAttempts
<1>1. /\ m.call \in Calls /\ job[m.call] \in Ids
      /\ cluster[job[m.call]] = None
      /\ cluster' = [cluster EXCEPT ![job[m.call]] = m.call]
      /\ made' = [made EXCEPT ![m.call] = job[m.call]]
      /\ UNCHANGED <<ctxErr, stage, job, answer, gauge, crashes>>
      /\ doubt' \subseteq Calls
  BY Types, DoubtType DEF Commit, IInv, Named, NetTypeOK, Requests
<1>2. CASE SentAgain(m, "create")
  BY <1>1, <1>2, Types DEF SentAgain, RetryTypeOK, NetTypeOK
<1>3. CASE ~SentAgain(m, "create")
  <2> DEFINE errs == {NoError} \cup CommitErrors
  <2>1. errs \in SUBSET (Errors \cup {NoError})
    BY KubeApiAssumption DEF Errors
  <2>2. (\E err \in errs : Answer(m, "create", err)) \/ NoAnswer(m)
    BY <1>3 DEF Commit
  <2> HIDE DEF errs
  <2> QED BY <1>1, <2>1, <2>2, ServedEffect
<1> QED BY <1>2, <1>3

LEMMA CommitInv ==
  ASSUME IInv, NEW m \in net, Commit(m) PROVE IInv'
<1> DEFINE c == m.call
<1> DEFINE id == job[c]
<1>1. /\ c \in Calls /\ id \in Ids
      /\ cluster[id] = None /\ cluster' = [cluster EXCEPT ![id] = c]
      /\ made' = [made EXCEPT ![c] = id]
      /\ UNCHANGED <<ctxErr, stage, job, answer, gauge, crashes>>
      /\ doubt' \subseteq Calls
  BY CommitEffect
<1>2. /\ RetryTypeOK' /\ NetTypeOK' /\ net' \subseteq net
      /\ \A d \in Calls \ {c} : retry'[d] = retry[d]
      /\ \/ retry' = retry
         \/ /\ retry[c].pc = "call"
            /\ \/ retry'[c].pc = "returned"
               \/ /\ retry'[c].pc = "backoff" /\ retry'[c].lastErr # NoError
                  /\ retry'[c].attempt < retryMaxAttempts
  BY CommitEffect
<1>3. /\ made'[c] = id /\ id # None
      /\ \A d \in Calls : d # c => made'[d] = made[d]
      /\ \A d \in Calls : made[d] # None => made'[d] # None
  BY <1>1, Types DEF IInv, TypeOK
<1>4. TypeOK'
  BY <1>1, <1>2 DEF IInv, TypeOK
<1>5. Named' /\ MadeByJob'
  BY <1>1, <1>2, <1>3 DEF IInv, Named, MadeByJob
<1>6. OwnedByMaker'
  <2> SUFFICES ASSUME NEW i \in Ids, cluster'[i] # None PROVE made'[cluster'[i]] = i
    BY DEF OwnedByMaker
  <2>1. CASE i = id
    BY <1>1, <1>3, <2>1 DEF IInv, TypeOK
  <2>2. CASE i # id
    <3>1. cluster'[i] = cluster[i] /\ cluster[i] \in Calls /\ made[cluster[i]] = i
      BY <1>1, <2>2, Types DEF IInv, TypeOK, OwnedByMaker
    <3>2. cluster[i] # c
      BY <1>1, <2>2, <3>1, Types DEF IInv, MadeByJob
    <3> QED BY <1>3, <3>1, <3>2
  <2> QED BY <2>1, <2>2
<1>7. SuccessHolds'
  <2> SUFFICES ASSUME NEW d \in Calls, Returned(d)', retry'[d].lastErr = NoError
               PROVE  made'[d] # None
    BY DEF SuccessHolds
  <2>1. CASE d = c
    BY <1>3, <2>1
  <2>2. CASE d # c
    BY <1>2, <1>3, <2>2 DEF IInv, SuccessHolds, Returned
  <2> QED BY <2>1, <2>2
<1>8. AnswerHolds'
  BY <1>1, <1>3 DEF IInv, AnswerHolds
<1>9. \A d \in Calls : Stage(d)'
  BY <1>1, <1>2 DEF IInv, Stage
<1> QED BY <1>4, <1>5, <1>6, <1>7, <1>8, <1>9 DEF IInv

LEMMA RefusedInv ==
  ASSUME IInv, NEW m \in net, Conflict(m) \/ Reject(m) PROVE IInv'
<1> DEFINE errs == {"AlreadyExists"} \cup Rejections
<1>1. errs \in SUBSET (Errors \cup {NoError}) /\ NoError \notin errs
  BY KubeApiAssumption DEF Errors, ApiErrors, NoError
<1>2. /\ \/ \E err \in errs : Answer(m, "create", err)
         \/ NoAnswer(m)
      /\ UNCHANGED <<ctxErr, stage, job, answer, cluster, gauge, crashes, made, doubt>>
  BY DEF Conflict, Reject, history
<1>3. m.call \in Calls
  BY Types DEF NetTypeOK, Requests
<1>4. /\ RetryTypeOK' /\ NetTypeOK' /\ net' \subseteq net
      /\ \A d \in Calls \ {m.call} : retry'[d] = retry[d]
      /\ \/ retry' = retry
         \/ /\ retry[m.call].pc = "call"
            /\ \/ /\ retry'[m.call].pc = "returned" /\ retry'[m.call].lastErr \in errs
               \/ /\ retry'[m.call].pc = "backoff" /\ retry'[m.call].lastErr # NoError
                  /\ retry'[m.call].attempt < retryMaxAttempts
  BY <1>1, <1>2, ServedEffect
<1>5. CASE retry[m.call].pc = "call" /\ retry' # retry
  <2>1. Returned(m.call)' => retry'[m.call].lastErr # NoError
    BY <1>1, <1>4, <1>5 DEF Returned
  <2> QED BY <1>2, <1>3, <1>4, <1>5, <2>1, DoubtType, FrameMoves
<1>6. CASE retry' = retry
  <2>1. TypeOK'
    BY <1>2, <1>4 DEF IInv, TypeOK
  <2> QED BY <1>2, <1>4, <1>6, <2>1
          DEF IInv, Named, MadeByJob, OwnedByMaker, SuccessHolds, AnswerHolds, Stage, Returned
<1> QED BY <1>4, <1>5, <1>6

LEMMA CancelInv ==
  ASSUME IInv, NEW c \in Calls, Cancel(c) PROVE IInv'
<1>1. TypeOK'
  BY DEF IInv, TypeOK, RetryTypeOK, NetTypeOK, Cancel, apiVars, history
<1> QED BY <1>1 DEF IInv, Named, MadeByJob, OwnedByMaker, SuccessHolds, AnswerHolds, Stage,
                    Returned, Cancel, apiVars, history

LEMMA RemoveInv ==
  ASSUME IInv, NEW id \in Ids, Remove(id) PROVE IInv'
<1>1. TypeOK'
  BY DEF IInv, TypeOK, RetryTypeOK, NetTypeOK, Remove, apiVars, history
<1>2. OwnedByMaker'
  BY DEF IInv, TypeOK, OwnedByMaker, Remove, history
<1> QED BY <1>1, <1>2 DEF IInv, Named, MadeByJob, SuccessHolds, AnswerHolds, Stage,
                          Returned, Remove, apiVars, history

LEMMA CrashInv ==
  ASSUME IInv, Crash PROVE IInv'
<1>1. /\ \A d \in Calls : retry'[d].pc = "idle"
      /\ RetryTypeOK'
  BY RetryAssumption DEF Crash, NewFrame, RetryTypeOK, Frame, NoError
<1>2. crashes' \in 0 .. MaxCrashes
  BY BoundType DEF Crash, IInv, TypeOK
<1>3. TypeOK'
  BY <1>1, <1>2 DEF IInv, TypeOK, NetTypeOK, Crash, Stages, history
<1>4. \A d \in Calls : Stage(d)'
  BY <1>1 DEF IInv, TypeOK, Stage, Crash, Stages
<1>5. Named' /\ MadeByJob' /\ OwnedByMaker' /\ AnswerHolds'
  BY DEF IInv, Named, MadeByJob, OwnedByMaker, AnswerHolds, Crash, history
<1>6. SuccessHolds'
  BY <1>1 DEF SuccessHolds, Returned
<1> QED BY <1>3, <1>4, <1>5, <1>6 DEF IInv

----------------------------------------------------------------------------
LEMMA NextInv == IInv /\ [Next]_vars => IInv'
<1> SUFFICES ASSUME IInv, [Next]_vars PROVE IInv'
  OBVIOUS
<1>1. CASE UNCHANGED vars
  BY <1>1 DEF vars, apiVars, history, IInv, TypeOK, RetryTypeOK, NetTypeOK, Named, MadeByJob,
              OwnedByMaker, SuccessHolds, AnswerHolds, Stage, Returned
<1>2. ASSUME NEW c \in Calls, Invoke(c) \/ Handler(c) \/ Cancel(c) PROVE IInv'
  BY <1>2, RefuseInv, AcceptInv, SendCreateInv, CreateFailsInv, LoopGoesOnInv,
     RespondInv, CancelInv DEF Invoke, Handler
<1>3. ASSUME NEW m \in net, Server(m) PROVE IInv'
  BY <1>3, CommitInv, RefusedInv DEF Server
<1>4. CASE Crash
  BY <1>4, CrashInv
<1>5. ASSUME NEW id \in Ids, Remove(id) PROVE IInv'
  BY <1>5, RemoveInv
<1> QED BY <1>1, <1>2, <1>3, <1>4, <1>5 DEF Next

(* The inductive invariant holds in every behaviour.                       *)
THEOREM SpecInv == Spec => []IInv
<1> QED BY InitInv, NextInv, PTL DEF Spec

(* The variables keep their types in every behaviour of the submit tools.  *)
THEOREM SpecTypeOK == Spec => []TypeOK
<1>1. IInv => TypeOK
  BY DEF IInv
<1> QED BY <1>1, SpecInv, PTL

(* A call never has more than one object: every object of a call has the   *)
(* one name the call picked before its first attempt.                      *)
THEOREM SpecAtMostOneJobPerCall == Spec => []AtMostOneJobPerCall
<1>1. IInv => AtMostOneJobPerCall
  BY DEF IInv, OwnedByMaker, AtMostOneJobPerCall
<1> QED BY <1>1, SpecInv, PTL

(* An "ok" is only ever answered for an object the call itself created.    *)
THEOREM SpecSuccessNamesOwnJob == Spec => []SuccessNamesOwnJob
<1>1. IInv => SuccessNamesOwnJob
  BY Types DEF IInv, AnswerHolds, MadeByJob, SuccessNamesOwnJob
<1> QED BY <1>1, SpecInv, PTL

----------------------------------------------------------------------------
(* The refinement of AtMostOnceSubmit.                                     *)

LEMMA InitRefines == Init => Promise!Init
  BY DEF Init, Promise!Init

LEMMA NextRefines == IInv /\ [Next]_vars => [Promise!Next]_<<cluster, made, answer>>
<1> SUFFICES ASSUME IInv, [Next]_vars,
                    ~ UNCHANGED <<cluster, made, answer>>
             PROVE  Promise!Next
  OBVIOUS
<1>1. ASSUME NEW c \in Calls, NEW in \in Inputs, Refuse(c, in) PROVE Promise!AnswerError(c)
  BY <1>1 DEF Refuse, Promise!AnswerError, IInv, Stage, history
<1>2. ASSUME NEW c \in Calls, Respond(c)
      PROVE  Promise!AnswerOk(c) \/ Promise!AnswerError(c)
  <2>1. answer[c] = None /\ UNCHANGED <<cluster, made>>
    BY <1>2 DEF Respond, IInv, Stage, history
  <2>2. CASE retry[c].lastErr = NoError
    <3>1. made[c] # None
      BY <1>2, <2>2 DEF Respond, IInv, SuccessHolds
    <3> QED BY <1>2, <2>1, <2>2, <3>1 DEF Respond, Promise!AnswerOk
  <2>3. CASE retry[c].lastErr # NoError
    BY <1>2, <2>1, <2>3 DEF Respond, Promise!AnswerError
  <2> QED BY <2>2, <2>3
<1>3. ASSUME NEW m \in net, Commit(m)
      PROVE  m.call \in Calls /\ job[m.call] \in Ids /\ Promise!Create(m.call, job[m.call])
  <2>1. made[m.call] \in {None, job[m.call]}
    BY <1>3, CommitEffect DEF IInv, MadeByJob
  <2> QED BY <1>3, <2>1, CommitEffect DEF Promise!Create
<1>4. ASSUME NEW id \in Ids, Remove(id) PROVE Promise!Remove(id)
  BY <1>4 DEF Remove, Promise!Remove, history
<1>5. CASE \E c \in Calls : Invoke(c) \/ Handler(c) \/ Cancel(c)
  BY <1>1, <1>2, <1>5
  DEF Invoke, Accept, Handler, SendCreate, CreateFails, CreateTimesOut, CreateBreaks, LoopGoesOn,
      Cancel, Promise!Next, history
<1>6. CASE \E m \in net : Server(m)
  BY <1>3, <1>6 DEF Server, Conflict, Reject, Promise!Next, history
<1>7. CASE Crash
  BY <1>7 DEF Crash, history
<1>8. CASE UNCHANGED vars
  BY <1>8 DEF vars, history
<1> QED BY <1>4, <1>5, <1>6, <1>7, <1>8 DEF Next, Promise!Next

(* The submit tools implement AtMostOnceSubmit: a call creates objects at  *)
(* one id only, a second time only after a removal, and replaces none; it  *)
(* is answered at most once, with "ok" only for an object it has made.     *)
THEOREM SpecPromiseKept == Spec => PromiseKept
<1> QED BY InitRefines, NextRefines, SpecInv, PTL DEF Spec, PromiseKept, Promise!Spec

----------------------------------------------------------------------------
(***************************************************************************)
(* An error that is not in doubt.  Of a call whose attempts were all       *)
(* answered, and answered with what was done (call it clear): a request is *)
(* under way only while its own attempt waits for it, and once an object   *)
(* was made the loop is about to return success, or has.                   *)
(***************************************************************************)
Clear(c) ==
  c \notin doubt =>
    /\ made[c] # None => \/ Returned(c) /\ retry[c].lastErr = NoError
                         \/ answer[c] = "ok"
                         \/ stage[c] = "lost"
    /\ \A m \in net : m.call = c => \/ retry[c].pc = "call" /\ m.try = retry[c].attempt
                                   \/ stage[c] = "lost"

DInv == IInv /\ \A c \in Calls : Clear(c)

LEMMA OthersClear ==
  ASSUME NEW c \in Calls, Clear(c), c \notin doubt' => c \notin doubt,
         retry'[c] = retry[c], made'[c] = made[c],
         answer[c] = "ok" => answer'[c] = "ok", stage[c] = "lost" => stage'[c] = "lost",
         \A m \in net' : m.call = c => m \in net
  PROVE  Clear(c)'
  BY DEF Clear, Returned

LEMMA HandlerClear ==
  ASSUME DInv, NEW c \in Calls, Handler(c)
  PROVE  Clear(c)'
<1>1. CASE SendCreate(c)
  <2>1. /\ retry[c].pc = "check" /\ retry'[c].pc = "call"
        /\ retry'[c].attempt = retry[c].attempt
    BY <1>1, Types, FrameType, MoveEffect DEF DInv, SendCreate, SendRequest, RetryAttempt
  <2>2. /\ net' = net \cup {[call |-> c, op |-> "create", try |-> retry[c].attempt]}
        /\ UNCHANGED <<made, doubt, answer, stage>>
    BY <1>1 DEF SendCreate, SendRequest, history
  <2> QED BY <2>1, <2>2 DEF DInv, Clear, Returned
<1>2. CASE CreateFails(c)
  BY <1>2 DEF CreateFails, CreateTimesOut, CreateBreaks, Clear
<1>3. CASE LoopGoesOn(c)
  <2>1. /\ retry[c].pc \in {"check", "backoff"}
        /\ UNCHANGED <<net, made, doubt, answer, stage>>
    BY <1>3 DEF LoopGoesOn, RetryContextDone, BackoffInterrupted, BackoffElapsed, history
  <2> QED BY <2>1 DEF DInv, Clear, Returned
<1>4. CASE Respond(c)
  <2>1. /\ Returned(c) /\ stage[c] = "submit" /\ answer[c] = None
        /\ UNCHANGED <<net, made, doubt>>
        /\ retry[c].lastErr = NoError => answer'[c] = "ok"
    BY <1>4 DEF Respond, DInv, IInv, TypeOK, Stage, history
  <2>2. answer[c] # "ok"
    BY <2>1, Types DEF DInv
  <2> QED BY <2>1, <2>2 DEF DInv, Clear, Returned
<1> QED BY <1>1, <1>2, <1>3, <1>4 DEF Handler

LEMMA ServerClear ==
  ASSUME DInv, NEW m \in net, Server(m)
  PROVE  Clear(m.call)'
<1> DEFINE c == m.call
<1>1. /\ c \in Calls /\ RetryTypeOK /\ IInv
      /\ \A r \in net : r \in Requests /\ r.op = "create"
  BY Types, SubmitAssumption DEF DInv, NetTypeOK, Requests
<1>2. UNCHANGED <<stage, answer>>
  BY DEF Server, Commit, Conflict, Reject
<1>3. ASSUME c \notin doubt', NEW err, Answer(m, "create", err)
      PROVE  /\ retry[c].pc = "call" /\ net' = net \ {m}
             /\ c \notin doubt => \A r \in net' : r.call = c => stage[c] = "lost"
  <2>1. retry[c].pc = "call" /\ net' = net \ {m} /\ m.try = retry[c].attempt
    BY <1>3 DEF Answer, Awaited
  <2>2. ASSUME c \notin doubt, NEW r \in net', r.call = c PROVE stage[c] = "lost"
    <3>1. r \in net /\ r # m /\ r \in Requests /\ m \in Requests /\ r.op = m.op
      BY <2>1, <2>2, <1>1
    <3>2. r.try # m.try
      BY <2>2, <3>1 DEF Requests
    <3>3. (retry[c].pc = "call" /\ r.try = retry[c].attempt) \/ stage[c] = "lost"
      BY <2>2, <3>1, <1>1 DEF DInv, Clear
    <3> QED BY <2>1, <3>2, <3>3
  <2> QED BY <2>1, <2>2
<1>4. CASE Commit(m)
  <2>1. CASE c \in doubt'
    BY <2>1 DEF Clear
  <2>2. CASE c \notin doubt'
    <3>1. Answer(m, "create", NoError) /\ UNCHANGED doubt
      BY <1>4, <2>2 DEF Commit
    <3>2. \A r \in net' : r.call = c => stage[c] = "lost"
      BY <1>3, <2>2, <3>1
    <3>3. retry'[c].pc = "returned" /\ retry'[c].lastErr = NoError
      BY <1>1, <3>1, Types, RetryReturnsEffect DEF Answer, RetryReturns
    <3> QED BY <3>2, <3>3, <1>2 DEF Clear, Returned
  <2> QED BY <2>1, <2>2
<1>5. CASE Conflict(m) \/ Reject(m)
  <2>1. UNCHANGED <<made, doubt>>
    BY <1>5 DEF Conflict, Reject, history
  <2>2. CASE NoAnswer(m)
    <3>1. retry' = retry /\ net' \subseteq net
      BY <2>2 DEF NoAnswer
    <3> QED BY <1>1, <1>2, <2>1, <3>1, OthersClear DEF DInv
  <2>3. ASSUME NEW err, Answer(m, "create", err) PROVE Clear(c)'
    <3>1. CASE c \in doubt
      BY <2>1, <3>1 DEF Clear
    <3>2. CASE c \notin doubt
      <4>1. retry[c].pc = "call" /\ \A r \in net' : r.call = c => stage[c] = "lost"
        BY <1>3, <2>1, <2>3, <3>2
      <4>2. made[c] # None => answer[c] = "ok" \/ stage[c] = "lost"
        BY <1>1, <3>2, <4>1 DEF DInv, Clear, Returned
      <4> QED BY <1>2, <2>1, <4>1, <4>2 DEF Clear
    <3> QED BY <3>1, <3>2
  <2> QED BY <1>5, <2>2, <2>3 DEF Conflict, Reject
<1> QED BY <1>4, <1>5 DEF Server

LEMMA NextClear == DInv /\ [Next]_vars => DInv'
<1> SUFFICES ASSUME DInv, [Next]_vars PROVE DInv'
  OBVIOUS
<1>1. IInv'
  BY NextInv DEF DInv
<1>2. ASSUME NEW d \in Calls PROVE Clear(d)'
  <2> Clear(d)
    BY DEF DInv
  <2>1. CASE UNCHANGED vars
    BY <2>1 DEF vars, apiVars, history, Clear, Returned
  <2>2. ASSUME NEW c \in Calls, NEW in \in Inputs, Refuse(c, in) PROVE Clear(d)'
    <3>1. /\ UNCHANGED <<retry, net, made, doubt>>
          /\ \A e \in Calls : e # c => answer'[e] = answer[e] /\ stage'[e] = stage[e]
          /\ stage[c] = "idle" /\ answer[c] = None
      BY <2>2 DEF Refuse, apiVars, history, DInv, IInv, TypeOK, Stage
    <3>2. answer[c] # "ok" /\ stage[c] # "lost"
      BY <3>1, Types DEF DInv
    <3> QED BY <3>1, <3>2, OthersClear
  <2>3. ASSUME NEW c \in Calls, Cancel(c) PROVE Clear(d)'
    BY <2>3 DEF Cancel, apiVars, history, Clear, Returned
  <2>4. ASSUME NEW c \in Calls, NEW in \in Inputs, NEW name \in Names, Accept(c, in, name)
        PROVE  Clear(d)'
    <3>1. /\ \A e \in Calls \ {c} : retry'[e] = retry[e]
          /\ UNCHANGED <<net, made, doubt, answer>>
          /\ \A e \in Calls : e # c => stage'[e] = stage[e]
          /\ stage[c] = "idle" /\ job[c] = None
      BY <2>4, Types, NewFrameEffect
      DEF DInv, IInv, TypeOK, Stage, Accept, RetryBegin, history
    <3>2. made[c] = None /\ \A m \in net : m.call # c
      BY <3>1, Types DEF DInv, IInv, MadeByJob, Named
    <3>3. CASE d # c
      BY <3>1, <3>3, OthersClear
    <3>4. CASE d = c
      BY <3>1, <3>2, <3>4 DEF Clear
    <3> QED BY <3>3, <3>4
  <2>5. ASSUME NEW c \in Calls, Handler(c) PROVE Clear(d)'
    <3>1. /\ \A e \in Calls \ {c} : retry'[e] = retry[e] /\ answer'[e] = answer[e]
                                   /\ stage'[e] = stage[e]
          /\ \A m \in net' : m \in net \/ m.call = c
          /\ made' = made /\ doubt \subseteq doubt'
      <4> USE Types DEF DInv, IInv, TypeOK, RetryTypeOK, history
      <4>1. CASE SendCreate(c)
        BY <4>1 DEF SendCreate, SendRequest, RetryAttempt, Move, SetFrame
      <4>2. CASE CreateFails(c)
        BY <4>2 DEF CreateFails, CreateTimesOut, CreateBreaks, AttemptFails, RetryReturns,
                    ReturnErr, Move, SetFrame
      <4>3. CASE LoopGoesOn(c)
        BY <4>3 DEF LoopGoesOn, RetryContextDone, BackoffInterrupted, BackoffElapsed,
                    ReturnErr, Move, SetFrame
      <4>4. CASE Respond(c)
        BY <4>4 DEF Respond, RetryDone
      <4> QED BY <2>5, <4>1, <4>2, <4>3, <4>4 DEF Handler
    <3>2. CASE d # c
      BY <3>1, <3>2, OthersClear
    <3> QED BY <2>5, <3>2, HandlerClear
  <2>6. ASSUME NEW m \in net, Server(m) PROVE Clear(d)'
    <3>1. m.call \in Calls /\ Clear(m.call)'
      BY <2>6, Types, ServerClear DEF DInv, NetTypeOK, Requests
    <3>2. /\ \A e \in Calls \ {m.call} : retry'[e] = retry[e] /\ made'[e] = made[e]
          /\ net' \subseteq net /\ doubt \subseteq doubt' /\ UNCHANGED <<answer, stage>>
      BY <2>6, <3>1, Types
      DEF DInv, IInv, TypeOK, RetryTypeOK, Server, Commit, Conflict, Reject, Answer, NoAnswer,
          SentAgain, RetryReturns, ReturnErr, Move, SetFrame, history
    <3>3. CASE d # m.call
      BY <3>2, <3>3, OthersClear
    <3> QED BY <3>1, <3>3
  <2>7. CASE Crash
    <3>1. /\ UNCHANGED <<net, made, doubt, answer>>
          /\ stage' = [e \in Calls |-> IF stage[e] = "submit" THEN "lost" ELSE stage[e]]
      BY <2>7 DEF Crash, history
    <3>2. retry[d].pc # "idle" => stage[d] = "submit"
      BY DEF DInv, IInv, Stage
    <3> QED BY <3>1, <3>2 DEF Clear, Returned
  <2>8. ASSUME NEW id \in Ids, Remove(id) PROVE Clear(d)'
    BY <2>8 DEF Remove, apiVars, history, Clear, Returned
  <2> QED BY <2>1, <2>2, <2>3, <2>4, <2>5, <2>6, <2>7, <2>8 DEF Next, Invoke
<1> QED BY <1>1, <1>2 DEF DInv

(* A call that is told of an error after attempts that were all answered,  *)
(* has made nothing, and nothing it sent is under way.                     *)
THEOREM SpecErrorsAreTruthful == Spec => []ErrorsAreTruthful
<1>1. Init => DInv
  <2>1. Init => \A c \in Calls : Clear(c)
    BY DEF Init, NetInit, Clear
  <2> QED BY <2>1, InitInv DEF DInv
<1>2. DInv => ErrorsAreTruthful
  <2> SUFFICES ASSUME DInv, NEW c \in Calls \ doubt, answer[c] = "error"
               PROVE  made[c] = None /\ \A m \in net : m.call # c
    BY DEF ErrorsAreTruthful
  <2>1. stage[c] = "done" /\ retry[c].pc = "idle"
    <3>1. answer[c] # None
      BY SubmitAssumption
    <3> QED BY <3>1 DEF DInv, IInv, Stage
  <2> QED BY <2>1 DEF DInv, Clear, Returned
<1> QED BY <1>1, <1>2, NextClear, PTL DEF Spec

----------------------------------------------------------------------------
(* The gauge.  It is compared with the calls that were told of success: an *)
(* answer adds one, answers are never taken back, and a kill only lowers   *)
(* the gauge.  Each of these calls has made its object, and only finitely  *)
(* many calls ever have.                                                   *)
Told(k, ns) == {c \in Calls : answer[c] = "ok" /\ job[c].kind = k /\ job[c].ns = ns}

GaugeOf(k, ns) == /\ IsFiniteSet(Makers(k, ns))
                  /\ gauge[<<k, ns>>] <= Cardinality(Told(k, ns))
GInv == IInv /\ \A k \in Kinds, ns \in Namespaces : GaugeOf(k, ns)

LEMMA ToldAreMakers ==
  ASSUME IInv, NEW k \in Kinds, NEW ns \in Namespaces, IsFiniteSet(Makers(k, ns))
  PROVE  /\ Told(k, ns) \subseteq Makers(k, ns) /\ IsFiniteSet(Told(k, ns))
         /\ Cardinality(Told(k, ns)) \in Nat /\ Cardinality(Makers(k, ns)) \in Nat
         /\ Cardinality(Told(k, ns)) <= Cardinality(Makers(k, ns))
<1>1. ASSUME NEW c \in Told(k, ns) PROVE c \in Makers(k, ns)
  <2>1. c \in Calls /\ job[c] \in Ids /\ made[c] = job[c] /\ job[c].kind = k /\ job[c].ns = ns
    BY <1>1, Types DEF Told, IInv, AnswerHolds, MadeByJob
  <2>2. PICK n \in Names : job[c] = [kind |-> k, ns |-> ns, name |-> n]
    BY <2>1 DEF Ids
  <2> QED BY <2>1, <2>2 DEF Makers
<1> QED BY <1>1, FS_Subset, FS_CardinalityType

(* A step that makes nothing, answers no success, and leaves the gauge.    *)
LEMMA GaugeStill ==
  ASSUME IInv, NEW k \in Kinds, NEW ns \in Namespaces, GaugeOf(k, ns), gauge' = gauge,
         made' = made,
         \A c \in Calls : answer'[c] = "ok" <=> answer[c] = "ok",
         \A c \in Calls : answer[c] = "ok" => job'[c] = job[c]
  PROVE  GaugeOf(k, ns)'
<1>1. Told(k, ns)' = Told(k, ns) /\ Makers(k, ns)' = Makers(k, ns)
  BY DEF Told, Makers
<1> QED BY <1>1 DEF GaugeOf

LEMMA CommitGauge ==
  ASSUME IInv, NEW m \in net, Commit(m), NEW k \in Kinds, NEW ns \in Namespaces, GaugeOf(k, ns)
  PROVE  GaugeOf(k, ns)'
<1>1. /\ m.call \in Calls /\ made' = [made EXCEPT ![m.call] = job[m.call]]
      /\ UNCHANGED <<gauge, answer, job>>
  BY CommitEffect
<1>2. Told(k, ns)' = Told(k, ns)
  BY <1>1 DEF Told
<1>3. Makers(k, ns)' \in SUBSET (Makers(k, ns) \cup {m.call})
  BY <1>1 DEF Makers, IInv, TypeOK
<1>4. IsFiniteSet(Makers(k, ns)')
  BY <1>3, FS_AddElement, FS_Subset DEF GaugeOf
<1> QED BY <1>1, <1>2, <1>4 DEF GaugeOf

LEMMA RespondGauge ==
  ASSUME IInv, NEW c \in Calls, Respond(c), NEW k \in Kinds, NEW ns \in Namespaces,
         GaugeOf(k, ns)
  PROVE  GaugeOf(k, ns)'
<1>1. /\ job[c] \in Ids /\ answer[c] = None /\ job' = job /\ made' = made
      /\ answer' = [answer EXCEPT ![c] = IF retry[c].lastErr = NoError THEN "ok" ELSE "error"]
  BY DEF IInv, Stage, Respond, history
<1>2. answer[c] # "ok"
  BY <1>1, Types
<1>3. CASE retry[c].lastErr # NoError
  <2>1. answer' = [answer EXCEPT ![c] = "error"] /\ gauge' = gauge
    BY <1>1, <1>3 DEF Respond
  <2>2. \A d \in Calls : answer'[d] = "ok" <=> answer[d] = "ok"
    BY <1>2, <2>1 DEF IInv, TypeOK
  <2> QED BY <1>1, <2>1, <2>2, GaugeStill
<1>4. CASE retry[c].lastErr = NoError
  <2>1. /\ gauge' = [gauge EXCEPT ![<<job[c].kind, job[c].ns>>] = @ + 1]
        /\ \A d \in Calls : answer'[d] = "ok" <=> (answer[d] = "ok" \/ d = c)
    BY <1>1, <1>4 DEF Respond, IInv, TypeOK
  <2>2. IsFiniteSet(Makers(k, ns)')
    BY <1>1 DEF Makers, GaugeOf
  <2>3. CASE job[c].kind = k /\ job[c].ns = ns
    <3>1. c \notin Told(k, ns) /\ Told(k, ns)' = Told(k, ns) \cup {c}
      BY <1>1, <1>2, <2>1, <2>3 DEF Told
    <3>2. Cardinality(Told(k, ns)') = Cardinality(Told(k, ns)) + 1
      BY <3>1, ToldAreMakers, FS_AddElement DEF GaugeOf
    <3>3. gauge'[<<k, ns>>] = gauge[<<k, ns>>] + 1 /\ gauge[<<k, ns>>] \in Nat
      BY <2>1, <2>3 DEF IInv, TypeOK
    <3>4. \A g, n \in Nat : g <= n => g + 1 <= n + 1
      OBVIOUS
    <3>5. Cardinality(Told(k, ns)) \in Nat
      BY ToldAreMakers DEF GaugeOf
    <3> QED BY <2>2, <3>2, <3>3, <3>4, <3>5 DEF GaugeOf
  <2>4. CASE ~(job[c].kind = k /\ job[c].ns = ns)
    <3>1. gauge'[<<k, ns>>] = gauge[<<k, ns>>]
      BY <2>1, <2>4 DEF IInv, TypeOK
    <3>2. Told(k, ns)' = Told(k, ns)
      BY <1>1, <2>1, <2>4 DEF Told
    <3> QED BY <2>2, <3>1, <3>2 DEF GaugeOf
  <2> QED BY <2>3, <2>4
<1> QED BY <1>3, <1>4

LEMMA NextGauge == GInv /\ [Next]_vars => GInv'
<1> SUFFICES ASSUME GInv, [Next]_vars, NEW k \in Kinds, NEW ns \in Namespaces
             PROVE  GaugeOf(k, ns)'
  BY NextInv DEF GInv
<1>1. IInv /\ GaugeOf(k, ns) /\ answer \in [Calls -> {None, "ok", "error"}]
      /\ job \in [Calls -> Ids \cup {None}] /\ None # "ok"
  BY Types DEF GInv, IInv, TypeOK
<1>2. CASE UNCHANGED <<gauge, answer, job, made>>
  BY <1>1, <1>2, GaugeStill
<1>3. ASSUME NEW c \in Calls, NEW in \in Inputs, Refuse(c, in) PROVE GaugeOf(k, ns)'
  <2>1. /\ gauge' = gauge /\ job' = job /\ made' = made
        /\ answer' = [answer EXCEPT ![c] = "error"]
        /\ answer[c] = None
    BY <1>1, <1>3 DEF Refuse, IInv, Stage, history
  <2> QED BY <1>1, <2>1, GaugeStill
<1>4. ASSUME NEW c \in Calls, NEW in \in Inputs, NEW name \in Names, Accept(c, in, name)
      PROVE  GaugeOf(k, ns)'
  <2>1. /\ gauge' = gauge /\ answer' = answer /\ answer[c] = None /\ made' = made
        /\ \A d \in Calls : d # c => job'[d] = job[d]
    BY <1>1, <1>4 DEF Accept, IInv, Stage, history
  <2> QED BY <1>1, <2>1, GaugeStill
<1>5. ASSUME NEW c \in Calls, Handler(c) PROVE GaugeOf(k, ns)'
  BY <1>1, <1>2, <1>5, RespondGauge
  DEF Handler, SendCreate, CreateFails, CreateTimesOut, CreateBreaks, LoopGoesOn, history
<1>6. ASSUME NEW m \in net, Server(m) PROVE GaugeOf(k, ns)'
  BY <1>1, <1>2, <1>6, CommitGauge DEF Server, Conflict, Reject, history
<1>7. CASE Crash
  <2>1. gauge'[<<k, ns>>] = 0 /\ Told(k, ns)' = Told(k, ns) /\ Makers(k, ns)' = Makers(k, ns)
    BY <1>7 DEF Crash, Told, Makers, history
  <2>2. Cardinality(Told(k, ns)) \in Nat
    BY <1>1, ToldAreMakers DEF GaugeOf
  <2>3. \A n \in Nat : 0 <= n
    OBVIOUS
  <2> QED BY <1>1, <2>1, <2>2, <2>3 DEF GaugeOf
<1>8. ASSUME NEW c \in Calls, Cancel(c) PROVE UNCHANGED <<gauge, answer, job, made>>
  BY <1>8 DEF Cancel, history
<1>9. ASSUME NEW id \in Ids, Remove(id) PROVE UNCHANGED <<gauge, answer, job, made>>
  BY <1>9 DEF Remove, history
<1>10. UNCHANGED vars => UNCHANGED <<gauge, answer, job, made>>
  BY DEF vars, history
<1> QED BY <1>2, <1>3, <1>4, <1>5, <1>6, <1>7, <1>8, <1>9, <1>10 DEF Next, Invoke

(* mcp_active_jobs never shows more jobs of a kind and a namespace than    *)
(* calls have made there: no conflict, lost answer or kill lets it run     *)
(* ahead of them.  (How many of these jobs still exist is another matter.) *)
THEOREM SpecGaugeCountsOnlyMade == Spec => []GaugeCountsOnlyMade
<1>1. Init => GInv
  <2>1. ASSUME Init, NEW k \in Kinds, NEW ns \in Namespaces PROVE GaugeOf(k, ns)
    <3>1. gauge[<<k, ns>>] = 0 /\ \A c \in Calls : answer[c] = None /\ made[c] = None
      BY <2>1 DEF Init
    <3>2. \A n \in Names : [kind |-> k, ns |-> ns, name |-> n] \in Ids
      BY DEF Ids
    <3>3. Told(k, ns) = {} /\ Makers(k, ns) = {}
      BY <3>1, <3>2, SubmitAssumption DEF Told, Makers
    <3>4. 0 <= 0
      OBVIOUS
    <3> QED BY <3>1, <3>3, <3>4, FS_EmptySet DEF GaugeOf
  <2> QED BY <2>1, InitInv DEF GInv
<1>2. ASSUME GInv, NEW k \in Kinds, NEW ns \in Namespaces
      PROVE  gauge[<<k, ns>>] <= Cardinality(Makers(k, ns))
  <2>1. gauge[<<k, ns>>] \in Nat /\ gauge[<<k, ns>>] <= Cardinality(Told(k, ns))
        /\ IInv /\ IsFiniteSet(Makers(k, ns))
    BY <1>2 DEF GInv, IInv, TypeOK, GaugeOf
  <2>2. \A g, m, n \in Nat : g <= m /\ m <= n => g <= n
    OBVIOUS
  <2> QED BY <2>1, <2>2, ToldAreMakers
<1>3. GInv => GaugeCountsOnlyMade
  BY <1>2 DEF GaugeCountsOnlyMade
<1> QED BY <1>1, <1>3, NextGauge, PTL DEF Spec
=============================================================================
