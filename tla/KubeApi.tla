--------------------------------- MODULE KubeApi ---------------------------------
(***************************************************************************)
(* The calls of the server that change something in the cluster, as seen   *)
(* from internal/k8s: a request is sent by an attempt of a retry loop, and *)
(* from then on lives on its own.  The attempt may give up (its deadline,  *)
(* its context, a broken connection) while the request is still on its     *)
(* way, so the API server may execute a request nobody waits for, or       *)
(* execute it and see its answer lost.                                     *)
(*                                                                         *)
(* Executing a request and delivering its answer is one step: an answer    *)
(* that is late is one the attempt did not wait for, and the caller may    *)
(* pause for as long as it likes before it acts on the answer.             *)
(***************************************************************************)
EXTENDS RetryOnTransient

CONSTANTS
  Ops,          \* the operations that change the cluster
  Rejections,   \* errors the API server answers without executing the request
  CommitErrors, \* errors it answers although it executed the request
  NetFaults     \* errors of the connection

ASSUME KubeApiAssumption ==
  /\ Rejections \subseteq ApiErrors \ {"AlreadyExists"}
  /\ CommitErrors \subseteq {e \in ApiErrors : Code(e) >= 500}
  /\ NetFaults \subseteq NetErrors

VARIABLE net   \* the requests that are on their way or being served

\* try tells the attempts of one retry loop apart.
Requests == [call : Calls, op : Ops, try : 0 .. retryMaxAttempts]

NetTypeOK == net \subseteq Requests
NetInit   == net = {}

\* An attempt begins: the context is alive, and the request goes out.
SendRequest(c, op, ctxErr) ==
  /\ RetryAttempt(c, ctxErr)
  /\ net' = net \cup {[call |-> c, op |-> op, try |-> retry[c].attempt]}

\* m is the request that its call's operation op is waiting for.
Awaited(m, op) == /\ m.op = op
                  /\ retry[m.call].pc = "call"
                  /\ retry[m.call].attempt = m.try

\* m is done with, and its answer reaches the attempt, or reaches nobody.
Answer(m, op, err) == /\ Awaited(m, op)
                      /\ RetryReturns(m.call, err)
                      /\ net' = net \ {m}
NoAnswer(m) == net' = net \ {m} /\ UNCHANGED retry

(***************************************************************************)
(* The answer never reaches the attempt, because client-go sends the       *)
(* request again by itself: it does so when a server error carries a       *)
(* Retry-After.  (Of a request that was refused this changes nothing.)     *)
(***************************************************************************)
SentAgain(m, op) == Awaited(m, op) /\ CommitErrors # {} /\ UNCHANGED <<retry, net>>

(***************************************************************************)
(* The attempt ends without an answer, with one of errs: those of the      *)
(* deadline and the context it runs under (NoError when there is none), or *)
(* NetFaults.  The request stays where it is.                              *)
(***************************************************************************)
AttemptFails(c, errs) ==
  /\ \E err \in errs \ {NoError} : RetryReturns(c, err)
  /\ UNCHANGED net
=============================================================================
