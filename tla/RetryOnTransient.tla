---------------------------- MODULE RetryOnTransient ----------------------------
(***************************************************************************)
(* The retry loop every Kubernetes API call of the server goes through     *)
(* (internal/k8s/retry.go).  RetryOnTransient(ctx, name, fn) calls fn, and *)
(* calls it again after a back-off as long as its error is transient, the  *)
(* context is alive and attempts are left.                                 *)
(*                                                                         *)
(* The module holds the loop's control only.  What fn does, and which      *)
(* context guards it, is up to the module that extends this one: it passes *)
(* the value of ctx.Err() in, and says when fn returns and with what.      *)
(* The jitter of the sleep and the passage of time are left out: a         *)
(* back-off ends at any moment, and races the context as the Go select     *)
(* does.                                                                   *)
(***************************************************************************)
EXTENDS Naturals

CONSTANTS
  Calls,               \* the threads of control that may run a retry loop
  retryMaxAttempts,    \* retries after the first attempt (3 in the code)
  retryInitialBackoff, \* milliseconds (100 in the code)
  retryBackoffFactor,  \* (2 in the code)
  retryMaxBackoff      \* milliseconds (2000 in the code)

ASSUME RetryAssumption ==
  /\ retryMaxAttempts \in Nat
  /\ retryInitialBackoff \in Nat \ {0}
  /\ retryBackoffFactor \in Nat \ {0}
  /\ retryMaxBackoff \in Nat
  /\ retryInitialBackoff <= retryMaxBackoff

VARIABLE retry   \* retry[c]: the frame of c's current RetryOnTransient call

(***************************************************************************)
(* Errors are told apart by what isTransient can tell apart: the reason of *)
(* an API status, its HTTP code, and the Temporary() bit of a network      *)
(* error.  A per-attempt deadline reaches the caller as a network error    *)
(* whose Temporary() is true, a cancelled context as one whose Temporary() *)
(* is false.                                                               *)
(***************************************************************************)
NoError == "nil"

ApiErrors == {"ServerTimeout", "Timeout", "TooManyRequests",
              "ServiceUnavailable", "InternalError", "BadGateway",
              "BadRequest", "Unauthorized", "Forbidden", "NotFound",
              "AlreadyExists"}
NetErrors == {"DeadlineExceeded", "NetTemporary", "NetPermanent", "Canceled"}
Errors == ApiErrors \cup NetErrors

Code(err) ==
  [BadRequest |-> 400, Unauthorized |-> 401, Forbidden |-> 403, NotFound |-> 404,
   AlreadyExists |-> 409, TooManyRequests |-> 429, ServerTimeout |-> 500,
   InternalError |-> 500, BadGateway |-> 502, ServiceUnavailable |-> 503,
   Timeout |-> 504][err]

Temporary(err) == err \in {"DeadlineExceeded", "NetTemporary"}

\* Mutants: 4xx is retried; the 5xx that have no reason of their own are not.
isTransient_ClientErrors(err) ==
  \/ err \in ApiErrors /\ Code(err) >= 400
  \/ err \in NetErrors /\ Temporary(err)
isTransient_ReasonsOnly(err) ==
  \/ err \in {"ServerTimeout", "Timeout", "TooManyRequests",
              "ServiceUnavailable", "InternalError"}
  \/ err \in NetErrors /\ Temporary(err)

isTransient(err) ==
  \/ err \in {"ServerTimeout", "Timeout", "TooManyRequests",
              "ServiceUnavailable", "InternalError"}
  \/ err \in ApiErrors /\ Code(err) >= 500
  \/ err \in NetErrors /\ Temporary(err)

----------------------------------------------------------------------------
(* The frame of a call: where it is, the attempt number, lastErr, and the  *)
(* next back-off.  At "returned", lastErr is the value returned.           *)
Frame == [pc      : {"idle", "check", "call", "backoff", "returned"},
          attempt : 0 .. retryMaxAttempts,
          lastErr : Errors \cup {NoError},
          backoff : 1 .. retryMaxBackoff]

NewFrame(pc) == [pc |-> pc, attempt |-> 0, lastErr |-> NoError,
                 backoff |-> retryInitialBackoff]

RetryTypeOK == retry \in [Calls -> Frame]
RetryInit   == retry = [c \in Calls |-> NewFrame("idle")]

Returned(c) == retry[c].pc = "returned"

\* The frame of c moves on, by one of these.
SetFrame(c, pc, attempt, err, backoff) ==
  retry' = [retry EXCEPT ![c] = [pc |-> pc, attempt |-> attempt,
                                 lastErr |-> err, backoff |-> backoff]]
Move(c, pc, err)  == SetFrame(c, pc, retry[c].attempt, err, retry[c].backoff)
ReturnErr(c, err) == Move(c, "returned", err)

\* Mutant: the back-off of the call before is kept.
RetryBegin_KeepsBackoff(c) == SetFrame(c, "check", 0, NoError, retry[c].backoff)

\* RetryOnTransient is entered.
RetryBegin(c) == retry' = [retry EXCEPT ![c] = NewFrame("check")]

\* The caller has the value returned; the frame is gone.
RetryDone(c) == retry' = [retry EXCEPT ![c] = NewFrame("idle")]

\* The context is done before an attempt: the last error wins over ctx.Err().
RetryContextDone(c, ctxErr) ==
  /\ retry[c].pc = "check"
  /\ ctxErr # NoError
  /\ ReturnErr(c, IF retry[c].lastErr # NoError THEN retry[c].lastErr ELSE ctxErr)

\* Mutant: the context is not looked at before an attempt.
RetryAttempt_NoContext(c, ctxErr) ==
  /\ retry[c].pc = "check"
  /\ Move(c, "call", retry[c].lastErr)

\* The context is alive: fn is called.
RetryAttempt(c, ctxErr) ==
  /\ retry[c].pc = "check"
  /\ ctxErr = NoError
  /\ Move(c, "call", retry[c].lastErr)

\* Mutant: one attempt too many.
GivesUp_OneMore(c, err) == retry[c].attempt > retryMaxAttempts \/ ~isTransient(err)

GivesUp(c, err) == retry[c].attempt = retryMaxAttempts \/ ~isTransient(err)

\* fn returns err.
RetryReturns(c, err) ==
  /\ retry[c].pc = "call"
  /\ \/ (err = NoError \/ GivesUp(c, err)) /\ ReturnErr(c, err)
     \/ /\ err # NoError /\ ~GivesUp(c, err)
        /\ Move(c, "backoff", err)

\* The select of the back-off: the context is done ...
BackoffInterrupted(c, ctxErr) ==
  /\ retry[c].pc = "backoff"
  /\ ctxErr # NoError
  /\ ReturnErr(c, retry[c].lastErr)

\* ... or the timer fires, whether or not the context is done as well.
NextBackoff(b) == IF b * retryBackoffFactor > retryMaxBackoff
                  THEN retryMaxBackoff ELSE b * retryBackoffFactor

\* Mutant: the attempts are not counted.
BackoffElapsed_NotCounted(c) ==
  /\ retry[c].pc = "backoff"
  /\ SetFrame(c, "check", retry[c].attempt, retry[c].lastErr,
              NextBackoff(retry[c].backoff))

BackoffElapsed(c) ==
  /\ retry[c].pc = "backoff"
  /\ SetFrame(c, "check", retry[c].attempt + 1, retry[c].lastErr,
              NextBackoff(retry[c].backoff))
=============================================================================
