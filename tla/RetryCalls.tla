------------------------------- MODULE RetryCalls -------------------------------
(***************************************************************************)
(* RetryOnTransient on its own: calls whose fn may return anything at any  *)
(* time, under contexts that may be cancelled or time out at any time.     *)
(* Two history variables record what the loop has seen:                    *)
(*   results[c]  what fn returned to the current call, attempt by attempt; *)
(*   late[c]     how many of these came after the context was done.        *)
(***************************************************************************)
EXTENDS RetryOnTransient, Integers, Sequences

VARIABLES
  ctxErr,    \* ctxErr[c]: ctx.Err() of c's context
  results,
  late

vars == <<retry, ctxErr, results, late>>

Init == /\ RetryInit
        /\ ctxErr  = [c \in Calls |-> NoError]
        /\ results = [c \in Calls |-> <<>>]
        /\ late    = [c \in Calls |-> 0]

\* A call begins, under a new context or under that of the call before it.
Begin(c) == /\ retry[c].pc \in {"idle", "returned"}
            /\ RetryBegin(c)
            /\ \E err \in {NoError, ctxErr[c]} : ctxErr' = [ctxErr EXCEPT ![c] = err]
            /\ results' = [results EXCEPT ![c] = <<>>]
            /\ late'    = [late EXCEPT ![c] = 0]

\* The caller's context is cancelled or reaches its deadline.
CtxDone(c, err) == /\ ctxErr[c] = NoError
                   /\ err \in {"Canceled", "DeadlineExceeded"}
                   /\ ctxErr' = [ctxErr EXCEPT ![c] = err]
                   /\ UNCHANGED <<retry, results, late>>

FnCalled(c) == /\ RetryAttempt(c, ctxErr[c])
               /\ UNCHANGED <<ctxErr, results, late>>

\* The results with one more.  The bound is one more than the loop can produce;
\* a loop that went on for ever would keep the last ones.
Record(s, err) == IF Len(s) < retryMaxAttempts + 2 THEN Append(s, err)
                                                   ELSE Append(Tail(s), err)

FnReturns(c, err) ==
  /\ RetryReturns(c, err)
  /\ results' = [results EXCEPT ![c] = Record(@, err)]
  /\ late'    = [late EXCEPT ![c] = IF ctxErr[c] = NoError THEN @ ELSE @ + 1]
  /\ UNCHANGED ctxErr

ContextStops(c) == /\ RetryContextDone(c, ctxErr[c]) \/ BackoffInterrupted(c, ctxErr[c])
                   /\ UNCHANGED <<ctxErr, results, late>>

TimerFires(c) == /\ BackoffElapsed(c)
                 /\ UNCHANGED <<ctxErr, results, late>>

\* The steps of the loop itself, fn's return included.
Loop(c) == \/ FnCalled(c)
           \/ \E err \in Errors \cup {NoError} : FnReturns(c, err)
           \/ ContextStops(c)
           \/ TimerFires(c)

Next == \E c \in Calls : \/ Begin(c)
                         \/ \E err \in {"Canceled", "DeadlineExceeded"} : CtxDone(c, err)
                         \/ Loop(c)

\* A goroutine that can run does, timers fire, and fn returns (every attempt
\* has its own deadline).  Nothing obliges a call to begin or a context to end.
Fairness == \A c \in Calls : WF_vars(Loop(c))

Spec     == Init /\ [][Next]_vars
FairSpec == Spec /\ Fairness

----------------------------------------------------------------------------
TypeOK == /\ RetryTypeOK
          /\ ctxErr \in [Calls -> {NoError, "Canceled", "DeadlineExceeded"}]
          /\ results \in [Calls -> Seq(Errors \cup {NoError})]
          /\ late \in [Calls -> Nat]

\* What retry.go's comment promises to retry: 429, 5xx, temporary network errors.
DocRetries(err) == \/ err \in ApiErrors /\ (Code(err) = 429 \/ Code(err) >= 500)
                   \/ err \in NetErrors /\ Temporary(err)

(***************************************************************************)
(* Every result that was followed by another attempt is one the comment    *)
(* "Retries on: 429, 5xx, net.Error (temporary).  Does NOT retry: 400, 401,*)
(* 403, 404, 409" allows: a success or a client error is never repeated,   *)
(* whatever the sequence of outcomes.                                      *)
(***************************************************************************)
OnlyTransientRetried ==
  \A c \in Calls : \A i \in 1 .. Len(results[c]) :
    i < Len(results[c]) => DocRetries(results[c][i])

(***************************************************************************)
(* A transient error reaches the caller only when the budget of attempts   *)
(* is spent or the context is done.  The caller always gets the outcome of *)
(* the last attempt, and ctx.Err() only when there was none.               *)
(***************************************************************************)
GivesUpOnlyWhenDue ==
  \A c \in Calls : Returned(c) =>
    LET n == Len(results[c])
    IN  /\ n <= retryMaxAttempts + 1
        /\ retry[c].lastErr = IF n = 0 THEN ctxErr[c] ELSE results[c][n]
        /\ n = 0 => ctxErr[c] # NoError
        /\ n > 0 /\ DocRetries(results[c][n]) =>
             n = retryMaxAttempts + 1 \/ ctxErr[c] # NoError

(***************************************************************************)
(* Once the context is done at most one more outcome of fn is seen (that   *)
(* of the attempt already under way): the loop checks the context before   *)
(* each attempt although its select may prefer a timer that fired too.     *)
(***************************************************************************)
CancelStopsRetries == \A c \in Calls : late[c] <= 1

(***************************************************************************)
(* The back-off the next failure waits for: the initial one multiplied by  *)
(* the factor for every attempt made, capped at the maximum, and never     *)
(* carried over from an earlier call ("100ms, 200ms, 400ms (capped)").     *)
(***************************************************************************)
Capped(b) == IF b > retryMaxBackoff THEN retryMaxBackoff ELSE b
Grown[n \in 0 .. retryMaxAttempts] ==
  IF n = 0 THEN retryInitialBackoff ELSE Grown[n - 1] * retryBackoffFactor

BackoffSchedule == \A c \in Calls : retry[c].backoff = Capped(Grown[retry[c].attempt])

(***************************************************************************)
(* A call that has begun returns: no sequence of outcomes, timers and      *)
(* cancellations keeps the loop going or stuck.                            *)
(***************************************************************************)
EveryCallReturns == \A c \in Calls : retry[c].pc = "check" ~> Returned(c)
=============================================================================
