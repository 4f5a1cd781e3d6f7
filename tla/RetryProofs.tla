------------------------------- MODULE RetryProofs -------------------------------
(***************************************************************************)
(* Lemmas about the operators of RetryOnTransient, for the modules that    *)
(* prove theorems about specifications built from it.                      *)
(***************************************************************************)
EXTENDS RetryOnTransient, TLAPS

(* The back-off stays between one millisecond and its cap.                 *)
LEMMA BackoffInRange ==
  ASSUME NEW b \in 1 .. retryMaxBackoff
  PROVE  NextBackoff(b) \in 1 .. retryMaxBackoff
<1>1. b * retryBackoffFactor \in Nat /\ b * retryBackoffFactor >= 1
  <2>1. \A m \in Nat \ {0}, n \in Nat \ {0} : m * n \in Nat /\ m * n >= 1
    BY SMT
  <2> QED BY <2>1, RetryAssumption
<1> QED BY <1>1, RetryAssumption DEF NextBackoff

(* What the type of a frame says of its fields.                            *)
LEMMA FrameType ==
  ASSUME RetryTypeOK, NEW c \in Calls
  PROVE  /\ retry[c].pc \in {"idle", "check", "call", "backoff", "returned"}
         /\ retry[c].attempt \in 0 .. retryMaxAttempts
         /\ retry[c].lastErr \in Errors \cup {NoError}
         /\ retry[c].backoff \in 1 .. retryMaxBackoff
  BY DEF RetryTypeOK, Frame

(* Setting a frame to fields in range keeps the type, sets these fields,   *)
(* and leaves the other frames alone.                                      *)
LEMMA SetFrameEffect ==
  ASSUME RetryTypeOK, NEW c \in Calls,
         NEW pc \in {"idle", "check", "call", "backoff", "returned"},
         NEW attempt \in 0 .. retryMaxAttempts,
         NEW err \in Errors \cup {NoError},
         NEW backoff \in 1 .. retryMaxBackoff,
         SetFrame(c, pc, attempt, err, backoff)
  PROVE  /\ RetryTypeOK'
         /\ retry'[c].pc = pc /\ retry'[c].attempt = attempt
         /\ retry'[c].lastErr = err /\ retry'[c].backoff = backoff
         /\ \A d \in Calls \ {c} : retry'[d] = retry[d]
<1>1. [pc |-> pc, attempt |-> attempt, lastErr |-> err, backoff |-> backoff] \in Frame
  BY DEF Frame
<1> QED BY <1>1 DEF SetFrame, RetryTypeOK

LEMMA MoveEffect ==
  ASSUME RetryTypeOK, NEW c \in Calls,
         NEW pc \in {"idle", "check", "call", "backoff", "returned"},
         NEW err \in Errors \cup {NoError},
         Move(c, pc, err)
  PROVE  /\ RetryTypeOK'
         /\ retry'[c].pc = pc /\ retry'[c].attempt = retry[c].attempt
         /\ retry'[c].lastErr = err
         /\ \A d \in Calls \ {c} : retry'[d] = retry[d]
  BY FrameType, SetFrameEffect DEF Move

(* A new frame, at the beginning of a call or after its end.               *)
LEMMA NewFrameEffect ==
  ASSUME RetryTypeOK, NEW c \in Calls,
         NEW pc \in {"idle", "check", "call", "backoff", "returned"},
         retry' = [retry EXCEPT ![c] = NewFrame(pc)]
  PROVE  /\ RetryTypeOK'
         /\ retry'[c] = NewFrame(pc) /\ retry'[c].pc = pc /\ retry'[c].attempt = 0
         /\ \A d \in Calls \ {c} : retry'[d] = retry[d]
<1>1. NewFrame(pc) \in Frame
  BY RetryAssumption DEF NewFrame, Frame, NoError
<1> QED BY <1>1 DEF RetryTypeOK, NewFrame

(* fn returns err: the loop returns it or backs off.                       *)
LEMMA RetryReturnsEffect ==
  ASSUME RetryTypeOK, NEW c \in Calls, NEW err \in Errors \cup {NoError},
         RetryReturns(c, err)
  PROVE  /\ RetryTypeOK'
         /\ retry[c].pc = "call"
         /\ retry'[c].lastErr = err /\ retry'[c].attempt = retry[c].attempt
         /\ \/ retry'[c].pc = "returned" /\ (err = NoError \/ GivesUp(c, err))
            \/ retry'[c].pc = "backoff" /\ err # NoError /\ ~GivesUp(c, err)
         /\ \A d \in Calls \ {c} : retry'[d] = retry[d]
  BY MoveEffect DEF RetryReturns, ReturnErr

(* The context ends the loop: the last error is returned if there is one.  *)
LEMMA ContextDoneEffect ==
  ASSUME RetryTypeOK, NEW c \in Calls, NEW ctxErr \in Errors \cup {NoError},
         RetryContextDone(c, ctxErr) \/ BackoffInterrupted(c, ctxErr)
  PROVE  /\ RetryTypeOK'
         /\ retry[c].pc \in {"check", "backoff"} /\ ctxErr # NoError
         /\ retry'[c].pc = "returned" /\ retry'[c].attempt = retry[c].attempt
         /\ retry'[c].lastErr = IF retry[c].pc = "check" /\ retry[c].lastErr = NoError
                                THEN ctxErr ELSE retry[c].lastErr
         /\ \A d \in Calls \ {c} : retry'[d] = retry[d]
<1>1. retry[c].lastErr \in Errors \cup {NoError}
  BY FrameType
<1>2. CASE RetryContextDone(c, ctxErr)
  BY <1>1, <1>2, MoveEffect DEF RetryContextDone, ReturnErr
<1>3. CASE BackoffInterrupted(c, ctxErr)
  BY <1>1, <1>3, MoveEffect DEF BackoffInterrupted, ReturnErr
<1> QED BY <1>2, <1>3

(* The timer fires: the next attempt is due.                               *)
LEMMA BackoffElapsedEffect ==
  ASSUME RetryTypeOK, NEW c \in Calls, BackoffElapsed(c),
         retry[c].attempt < retryMaxAttempts
  PROVE  /\ RetryTypeOK'
         /\ retry[c].pc = "backoff" /\ retry'[c].pc = "check"
         /\ retry'[c].attempt = retry[c].attempt + 1
         /\ retry'[c].lastErr = retry[c].lastErr
         /\ \A d \in Calls \ {c} : retry'[d] = retry[d]
<1>1. retry[c].attempt + 1 \in 0 .. retryMaxAttempts
  BY FrameType, RetryAssumption
<1> QED BY <1>1, FrameType, BackoffInRange, SetFrameEffect DEF BackoffElapsed

(* The loop goes on by itself: its context ends it, or an attempt is due.  *)
LEMMA LoopEffect ==
  ASSUME RetryTypeOK, NEW c \in Calls, NEW ctxErr \in Errors \cup {NoError},
         retry[c].pc = "backoff" => /\ retry[c].lastErr # NoError
                                    /\ retry[c].attempt < retryMaxAttempts,
         RetryContextDone(c, ctxErr) \/ BackoffInterrupted(c, ctxErr) \/ BackoffElapsed(c)
  PROVE  /\ RetryTypeOK'
         /\ \A d \in Calls \ {c} : retry'[d] = retry[d]
         /\ \/ /\ retry[c].pc \in {"check", "backoff"} /\ ctxErr # NoError
               /\ retry'[c].pc = "returned" /\ retry'[c].lastErr # NoError
               /\ retry'[c].attempt = retry[c].attempt
            \/ /\ retry[c].pc = "backoff" /\ retry'[c].pc = "check"
               /\ retry'[c].attempt = retry[c].attempt + 1
<1>1. CASE RetryContextDone(c, ctxErr) \/ BackoffInterrupted(c, ctxErr)
  BY <1>1, ContextDoneEffect
<1>2. CASE BackoffElapsed(c)
  <2>1. retry[c].pc = "backoff" /\ retry[c].attempt < retryMaxAttempts
    BY <1>2 DEF BackoffElapsed
  <2> QED BY <1>2, <2>1, BackoffElapsedEffect
<1> QED BY <1>1, <1>2
=============================================================================
