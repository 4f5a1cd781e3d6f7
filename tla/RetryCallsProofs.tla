----------------------------- MODULE RetryCallsProofs -----------------------------
(***************************************************************************)
(* Theorems about RetryCalls: type correctness and the contract of the     *)
(* loop, for every number of calls, attempts and every back-off.           *)
(***************************************************************************)
EXTENDS RetryCalls, RetryProofs, WellFoundedInduction, TLAPS

(***************************************************************************)
(* The inductive invariant of one call.  It ties the attempt number to the *)
(* number of outcomes seen, at each place of the loop; says that all of    *)
(* the outcomes were transient while the loop goes on; and that no outcome *)
(* is late while fn runs, because fn was called under a live context.      *)
(***************************************************************************)
LastSeen(c) == results[c][Len(results[c])]

CallInv(c) ==
  LET n == Len(results[c])
      f == retry[c]
  IN  /\ f.pc = "idle" => n = 0
      /\ f.pc \in {"check", "call"} =>
           /\ n = f.attempt
           /\ f.lastErr = IF n = 0 THEN NoError ELSE LastSeen(c)
           /\ \A i \in 1 .. n : isTransient(results[c][i])
      /\ f.pc = "backoff" =>
           /\ n = f.attempt + 1 /\ f.attempt < retryMaxAttempts
           /\ f.lastErr = LastSeen(c)
           /\ \A i \in 1 .. n : isTransient(results[c][i])
      /\ f.pc = "returned" =>
           /\ n <= retryMaxAttempts + 1
           /\ f.lastErr = IF n = 0 THEN ctxErr[c] ELSE LastSeen(c)
           /\ n = 0 => ctxErr[c] # NoError
           /\ \A i \in 1 .. n - 1 : isTransient(results[c][i])
           /\ n > 0 /\ isTransient(LastSeen(c)) =>
                n = retryMaxAttempts + 1 \/ ctxErr[c] # NoError
      /\ late[c] = 0 \/ (late[c] = 1 /\ ctxErr[c] # NoError /\ f.pc # "call")

IInv == TypeOK /\ \A c \in Calls : CallInv(c)

----------------------------------------------------------------------------
(* What isTransient decides by the reason of an API status is what the     *)
(* comment of RetryOnTransient says in terms of HTTP codes.                *)
LEMMA TransientAsDocumented ==
  \A e \in Errors \cup {NoError} : isTransient(e) <=> DocRetries(e)
  BY DEF Errors, ApiErrors, NetErrors, NoError, isTransient, DocRetries, Code, Temporary

(* The loop never fills the history: a result is always appended to it.    *)
LEMMA RecordAppends ==
  ASSUME IInv, NEW c \in Calls, NEW err, RetryReturns(c, err)
  PROVE  Record(results[c], err) = Append(results[c], err)
<1>1. retry[c].pc = "call" /\ retry[c].attempt \in 0 .. retryMaxAttempts
  BY FrameType DEF RetryReturns, IInv, TypeOK
<1>2. Len(results[c]) = retry[c].attempt
  BY <1>1 DEF IInv, CallInv
<1> QED BY <1>1, <1>2, RetryAssumption DEF Record

----------------------------------------------------------------------------
(* Type correctness.                                                       *)

LEMMA InitType == Init => TypeOK
  BY RetryAssumption DEF Init, RetryInit, TypeOK, RetryTypeOK, Frame, NewFrame, NoError

LEMMA NextType == IInv /\ [Next]_vars => TypeOK'
<1> SUFFICES ASSUME IInv, [Next]_vars PROVE TypeOK'
  OBVIOUS
<1> TypeOK
  BY DEF IInv
<1>0. CASE UNCHANGED vars
  BY <1>0 DEF vars, TypeOK, RetryTypeOK
<1> SUFFICES ASSUME NEW c \in Calls,
                    \/ Begin(c)
                    \/ \E err \in {"Canceled", "DeadlineExceeded"} : CtxDone(c, err)
                    \/ Loop(c)
             PROVE  TypeOK'
  BY <1>0 DEF Next
<1>1. CASE Begin(c)
  <2>1. NewFrame("check") \in Frame
    BY RetryAssumption DEF NewFrame, Frame, NoError
  <2>2. RetryTypeOK'
    BY <1>1, <2>1 DEF Begin, RetryBegin, TypeOK, RetryTypeOK
  <2>3. ctxErr' \in [Calls -> {NoError, "Canceled", "DeadlineExceeded"}]
    BY <1>1 DEF Begin, TypeOK
  <2>4. results' \in [Calls -> Seq(Errors \cup {NoError})] /\ late' \in [Calls -> Nat]
    BY <1>1 DEF Begin, TypeOK
  <2> QED BY <2>2, <2>3, <2>4 DEF TypeOK
<1>2. ASSUME NEW err \in {"Canceled", "DeadlineExceeded"}, CtxDone(c, err) PROVE TypeOK'
  BY <1>2 DEF CtxDone, TypeOK, RetryTypeOK
<1>3. CASE FnCalled(c)
  <2>1. RetryTypeOK'
    BY <1>3, FrameType, SetFrameEffect DEF FnCalled, RetryAttempt, Move, TypeOK
  <2> QED BY <1>3, <2>1 DEF FnCalled, TypeOK
<1>4. ASSUME NEW err \in Errors \cup {NoError}, FnReturns(c, err) PROVE TypeOK'
  <2>1. RetryTypeOK'
    BY <1>4, FrameType, SetFrameEffect DEF FnReturns, RetryReturns, ReturnErr, Move, TypeOK
  <2>2. results' \in [Calls -> Seq(Errors \cup {NoError})]
    <3>1. Record(results[c], err) = Append(results[c], err)
      BY <1>4, RecordAppends DEF FnReturns
    <3> QED BY <1>4, <3>1 DEF FnReturns, TypeOK
  <2>3. late' \in [Calls -> Nat]
    BY <1>4 DEF FnReturns, TypeOK
  <2> QED BY <1>4, <2>1, <2>2, <2>3 DEF FnReturns, TypeOK
<1>5. CASE ContextStops(c)
  <2>1. ctxErr[c] \in Errors \cup {NoError}
    BY DEF TypeOK, Errors, NetErrors
  <2>2. RetryTypeOK'
    BY <1>5, <2>1, FrameType, SetFrameEffect
    DEF ContextStops, RetryContextDone, BackoffInterrupted, ReturnErr, Move, TypeOK
  <2> QED BY <1>5, <2>2 DEF ContextStops, TypeOK
<1>6. CASE TimerFires(c)
  <2>1. NextBackoff(retry[c].backoff) \in 1 .. retryMaxBackoff
    BY FrameType, BackoffInRange DEF TypeOK
  <2>2. retry[c].attempt + 1 \in 0 .. retryMaxAttempts
    BY <1>6, FrameType, RetryAssumption DEF TimerFires, BackoffElapsed, IInv, TypeOK, CallInv
  <2>3. RetryTypeOK'
    BY <1>6, <2>1, <2>2, FrameType, SetFrameEffect DEF TimerFires, BackoffElapsed, TypeOK
  <2> QED BY <1>6, <2>3 DEF TimerFires, TypeOK
<1> QED BY <1>1, <1>2, <1>3, <1>4, <1>5, <1>6 DEF Loop

----------------------------------------------------------------------------
(* The contract of the loop.                                               *)

(* A step of one call leaves the invariant of the others alone.            *)
LEMMA OthersUntouched ==
  ASSUME IInv, NEW c \in Calls, NEW d \in Calls, d # c,
         retry'[d] = retry[d], results'[d] = results[d],
         late'[d] = late[d], ctxErr'[d] = ctxErr[d]
  PROVE  CallInv(d)'
  BY DEF IInv, CallInv, LastSeen

LEMMA BeginInv ==
  ASSUME IInv, NEW c \in Calls, Begin(c) PROVE CallInv(c)'
<1>1. /\ retry'[c] = NewFrame("check") /\ results'[c] = << >> /\ late'[c] = 0
  BY DEF Begin, RetryBegin, IInv, TypeOK, RetryTypeOK
<1> QED BY <1>1 DEF CallInv, NewFrame

LEMMA CtxDoneInv ==
  ASSUME IInv, NEW c \in Calls, NEW err \in {"Canceled", "DeadlineExceeded"}, CtxDone(c, err)
  PROVE  CallInv(c)'
<1>1. /\ retry'[c] = retry[c] /\ results'[c] = results[c] /\ late'[c] = late[c]
      /\ ctxErr[c] = NoError /\ ctxErr'[c] # NoError
  BY DEF CtxDone, IInv, TypeOK, NoError
<1>2. Len(results[c]) \in Nat
  BY DEF IInv, TypeOK
<1>3. retry[c].pc = "returned" => Len(results[c]) > 0
  BY <1>1, <1>2 DEF IInv, CallInv
<1> QED BY <1>1, <1>2, <1>3 DEF IInv, CallInv, LastSeen

LEMMA FnCalledInv ==
  ASSUME IInv, NEW c \in Calls, FnCalled(c) PROVE CallInv(c)'
<1>1. /\ retry[c].pc = "check" /\ ctxErr[c] = NoError
      /\ retry'[c] = [pc |-> "call", attempt |-> retry[c].attempt,
                      lastErr |-> retry[c].lastErr, backoff |-> retry[c].backoff]
      /\ UNCHANGED <<ctxErr, results, late>>
  BY DEF FnCalled, RetryAttempt, Move, SetFrame, IInv, TypeOK, RetryTypeOK
<1> QED BY <1>1 DEF IInv, CallInv, LastSeen

LEMMA FnReturnsInv ==
  ASSUME IInv, NEW c \in Calls, NEW err \in Errors \cup {NoError}, FnReturns(c, err)
  PROVE  CallInv(c)'
<1> DEFINE n == Len(results[c])
<1>0. Record(results[c], err) = Append(results[c], err)
  BY RecordAppends DEF FnReturns
<1>1. /\ results'[c] = Append(results[c], err)
      /\ late'[c] = IF ctxErr[c] = NoError THEN late[c] ELSE late[c] + 1
      /\ ctxErr' = ctxErr
      /\ retry[c].pc = "call"
  BY <1>0 DEF FnReturns, RetryReturns, IInv, TypeOK
<1>2. results[c] \in Seq(Errors \cup {NoError}) /\ n \in Nat
  BY DEF IInv, TypeOK
<1>3. /\ Len(results'[c]) = n + 1 /\ LastSeen(c)' = err
      /\ \A i \in 1 .. n : results'[c][i] = results[c][i]
  BY <1>1, <1>2 DEF LastSeen
<1>4. /\ n = retry[c].attempt /\ late[c] = 0
      /\ \A i \in 1 .. n : isTransient(results[c][i])
  BY <1>1 DEF IInv, CallInv
<1>5. retry[c].attempt \in 0 .. retryMaxAttempts
  BY FrameType DEF IInv, TypeOK
<1>6. late'[c] = 0 \/ (late'[c] = 1 /\ ctxErr'[c] # NoError)
  BY <1>1, <1>4
<1>7. ~isTransient(NoError)
  BY DEF isTransient, NoError, ApiErrors, NetErrors
<1>8. CASE (err = NoError \/ GivesUp(c, err)) /\ ReturnErr(c, err)
  <2>1. retry'[c].pc = "returned" /\ retry'[c].lastErr = err
    BY <1>8 DEF ReturnErr, Move, SetFrame, IInv, TypeOK, RetryTypeOK
  <2>2. isTransient(err) => n + 1 = retryMaxAttempts + 1
    BY <1>8, <1>7, <1>4 DEF GivesUp
  <2> QED BY <2>1, <2>2, <1>1, <1>2, <1>3, <1>4, <1>5, <1>6, RetryAssumption DEF CallInv
<1>9. CASE err # NoError /\ ~GivesUp(c, err) /\ Move(c, "backoff", err)
  <2>1. /\ retry'[c].pc = "backoff" /\ retry'[c].lastErr = err
        /\ retry'[c].attempt = retry[c].attempt
    BY <1>9 DEF Move, SetFrame, IInv, TypeOK, RetryTypeOK
  <2>2. isTransient(err) /\ retry[c].attempt < retryMaxAttempts
    BY <1>9, <1>5, RetryAssumption DEF GivesUp
  <2>3. \A i \in 1 .. n + 1 : isTransient(results'[c][i])
    BY <2>2, <1>1, <1>2, <1>3, <1>4
  <2> QED BY <2>1, <2>2, <2>3, <1>2, <1>3, <1>4, <1>6 DEF CallInv
<1> QED BY <1>8, <1>9 DEF FnReturns, RetryReturns

LEMMA ContextStopsInv ==
  ASSUME IInv, NEW c \in Calls, ContextStops(c) PROVE CallInv(c)'
<1> DEFINE n == Len(results[c])
<1>1. /\ ctxErr[c] # NoError
      /\ retry[c].pc \in {"check", "backoff"}
      /\ UNCHANGED <<ctxErr, results, late>>
  BY DEF ContextStops, RetryContextDone, BackoffInterrupted
<1>2. n \in Nat /\ retry[c].attempt \in 0 .. retryMaxAttempts
  BY FrameType DEF IInv, TypeOK
<1>3. /\ n <= retryMaxAttempts + 1
      /\ \A i \in 1 .. n : isTransient(results[c][i])
  BY <1>1, <1>2, RetryAssumption DEF IInv, CallInv
<1>4. ~isTransient(NoError)
  BY DEF isTransient, NoError, ApiErrors, NetErrors
<1>5. /\ retry'[c].pc = "returned"
      /\ retry'[c].lastErr = IF n = 0 THEN ctxErr[c] ELSE LastSeen(c)
  <2>1. CASE RetryContextDone(c, ctxErr[c])
    <3>1. retry[c].lastErr = IF n = 0 THEN NoError ELSE LastSeen(c)
      BY <2>1 DEF RetryContextDone, IInv, CallInv
    <3>2. n > 0 => LastSeen(c) # NoError
      BY <1>2, <1>3, <1>4 DEF LastSeen
    <3> QED BY <2>1, <3>1, <3>2, <1>2
            DEF RetryContextDone, ReturnErr, Move, SetFrame, IInv, TypeOK, RetryTypeOK
  <2>2. CASE BackoffInterrupted(c, ctxErr[c])
    <3>1. n = retry[c].attempt + 1 /\ retry[c].lastErr = LastSeen(c)
      BY <2>2 DEF BackoffInterrupted, IInv, CallInv
    <3> QED BY <2>2, <3>1, <1>2
            DEF BackoffInterrupted, ReturnErr, Move, SetFrame, IInv, TypeOK, RetryTypeOK
  <2> QED BY <2>1, <2>2 DEF ContextStops
<1>6. late[c] = 0 \/ late[c] = 1
  BY DEF IInv, CallInv
<1> QED BY <1>1, <1>2, <1>3, <1>5, <1>6 DEF CallInv, LastSeen

LEMMA TimerFiresInv ==
  ASSUME IInv, NEW c \in Calls, TimerFires(c) PROVE CallInv(c)'
<1>1. /\ retry[c].pc = "backoff"
      /\ retry'[c].pc = "check" /\ retry'[c].attempt = retry[c].attempt + 1
      /\ retry'[c].lastErr = retry[c].lastErr
      /\ UNCHANGED <<ctxErr, results, late>>
  BY DEF TimerFires, BackoffElapsed, SetFrame, IInv, TypeOK, RetryTypeOK
<1>2. Len(results[c]) = retry[c].attempt + 1 /\ retry[c].attempt \in Nat
  BY <1>1, FrameType DEF IInv, TypeOK, CallInv
<1> QED BY <1>1, <1>2 DEF IInv, CallInv, LastSeen

LEMMA InitInv == Init => IInv
<1> SUFFICES ASSUME Init PROVE IInv
  OBVIOUS
<1>1. TypeOK
  BY InitType
<1>2. ASSUME NEW c \in Calls PROVE CallInv(c)
  BY <1>2 DEF Init, RetryInit, NewFrame, CallInv
<1> QED BY <1>1, <1>2 DEF IInv

LEMMA NextInv == IInv /\ [Next]_vars => IInv'
<1> SUFFICES ASSUME IInv, [Next]_vars PROVE IInv'
  OBVIOUS
<1>1. TypeOK'
  BY NextType
<1>2. ASSUME NEW d \in Calls PROVE CallInv(d)'
  <2>1. CASE UNCHANGED vars
    BY <1>2, <2>1 DEF vars, IInv, CallInv, LastSeen
  <2>2. ASSUME NEW c \in Calls,
               \/ Begin(c)
               \/ \E err \in {"Canceled", "DeadlineExceeded"} : CtxDone(c, err)
               \/ Loop(c)
        PROVE  CallInv(d)'
    <3>1. CallInv(c)'
      BY <2>2, BeginInv, CtxDoneInv, FnCalledInv, FnReturnsInv, ContextStopsInv,
         TimerFiresInv DEF Loop
    <3>2. ASSUME d # c
          PROVE  /\ retry'[d] = retry[d] /\ results'[d] = results[d]
                 /\ late'[d] = late[d] /\ ctxErr'[d] = ctxErr[d]
      BY <2>2, <3>2 DEF IInv, TypeOK, RetryTypeOK, Begin, RetryBegin, CtxDone, Loop,
        FnCalled, RetryAttempt, FnReturns, RetryReturns, ReturnErr, ContextStops,
        RetryContextDone, BackoffInterrupted, TimerFires, BackoffElapsed, Move, SetFrame
    <3> QED BY <3>1, <3>2, OthersUntouched
  <2> QED BY <2>1, <2>2 DEF Next
<1> QED BY <1>1, <1>2 DEF IInv

(* The invariant of every call holds in every behaviour.                   *)
THEOREM SpecInv == Spec => []IInv
<1> QED BY InitInv, NextInv, PTL DEF Spec

(* The variables keep their types in every behaviour of the loop.          *)
THEOREM SpecTypeOK == Spec => []TypeOK
<1>1. IInv => TypeOK
  BY DEF IInv
<1> QED BY <1>1, SpecInv, PTL

(* Only outcomes the comment of RetryOnTransient allows are followed by    *)
(* another attempt.                                                        *)
THEOREM SpecOnlyTransientRetried == Spec => []OnlyTransientRetried
<1>1. IInv => OnlyTransientRetried
  <2> SUFFICES ASSUME IInv, NEW c \in Calls, NEW i \in 1 .. Len(results[c]),
                      i < Len(results[c])
               PROVE  DocRetries(results[c][i])
    BY DEF OnlyTransientRetried
  <2>1. results[c] \in Seq(Errors \cup {NoError}) /\ Len(results[c]) \in Nat
    BY DEF IInv, TypeOK
  <2>2. isTransient(results[c][i])
    <3>1. retry[c].pc \in {"idle", "check", "call", "backoff", "returned"}
      BY FrameType DEF IInv, TypeOK
    <3> QED BY <2>1, <3>1 DEF IInv, CallInv
  <2>3. results[c][i] \in Errors \cup {NoError}
    BY <2>1
  <2> QED BY <2>2, <2>3, TransientAsDocumented
<1> QED BY <1>1, SpecInv, PTL

(* A call returns the last outcome, and gives up on a transient one only   *)
(* when the attempts are spent or the context is done.                     *)
THEOREM SpecGivesUpOnlyWhenDue == Spec => []GivesUpOnlyWhenDue
<1>1. IInv => GivesUpOnlyWhenDue
  <2> SUFFICES ASSUME IInv, NEW c \in Calls, Returned(c)
               PROVE  LET n == Len(results[c])
                      IN  /\ n <= retryMaxAttempts + 1
                          /\ retry[c].lastErr = IF n = 0 THEN ctxErr[c] ELSE results[c][n]
                          /\ n = 0 => ctxErr[c] # NoError
                          /\ n > 0 /\ DocRetries(results[c][n]) =>
                               n = retryMaxAttempts + 1 \/ ctxErr[c] # NoError
    BY DEF GivesUpOnlyWhenDue
  <2>1. results[c] \in Seq(Errors \cup {NoError}) /\ Len(results[c]) \in Nat
    BY DEF IInv, TypeOK
  <2>2. Len(results[c]) > 0 =>
          (DocRetries(results[c][Len(results[c])]) => isTransient(LastSeen(c)))
    BY <2>1, TransientAsDocumented DEF LastSeen
  <2> QED BY <2>1, <2>2 DEF Returned, IInv, CallInv, LastSeen
<1> QED BY <1>1, SpecInv, PTL

(* At most one outcome is seen after the context is done.                  *)
THEOREM SpecCancelStopsRetries == Spec => []CancelStopsRetries
<1>1. IInv => CancelStopsRetries
  <2> SUFFICES ASSUME IInv, NEW c \in Calls PROVE late[c] <= 1
    BY DEF CancelStopsRetries
  <2>1. late[c] = 0 \/ late[c] = 1
    BY DEF IInv, CallInv
  <2> QED BY <2>1
<1> QED BY <1>1, SpecInv, PTL

----------------------------------------------------------------------------
(* The back-off.  Grown is a recursive function: that there is one is      *)
(* shown by a least counterexample, and its values are numbers as far as   *)
(* the attempts have come.                                                 *)
IsGrown(g, n) ==
  g = [i \in 0 .. n |-> IF i = 0 THEN retryInitialBackoff ELSE g[i - 1] * retryBackoffFactor]

LEMMA GrownExists == \A n \in Nat : \E g : IsGrown(g, n)
<1> DEFINE Bad == {m \in Nat : ~ \E g : IsGrown(g, m)}
<1>1. SUFFICES ASSUME Bad # {} PROVE FALSE
  OBVIOUS
<1>2. PICK m \in Bad : \A k \in Bad : ~(k < m)
  <2> HIDE DEF Bad
  <2>1. Bad \in SUBSET Nat
    BY DEF Bad
  <2>2. PICK m \in Bad : \A k \in Bad : <<k, m>> \notin OpToRel(<, Nat)
    BY <1>1, <2>1, NatLessThanWellFounded, WFMin
  <2> QED BY <2>1, <2>2 DEF OpToRel
<1>3. m # 0
  <2> DEFINE z == [i \in 0 .. 0 |-> retryInitialBackoff]
  <2>1. \A i \in 0 .. 0 : i = 0
    OBVIOUS
  <2>2. z = [i \in 0 .. 0 |-> IF i = 0 THEN retryInitialBackoff ELSE z[i - 1] * retryBackoffFactor]
    BY <2>1, Zenon
  <2>3. IsGrown(z, 0)
    BY <2>2 DEF IsGrown
  <2> QED BY <1>2, <2>3
<1>4. PICK g : IsGrown(g, m - 1)
  <2>1. m - 1 \in Nat /\ m - 1 \notin Bad
    BY <1>2, <1>3
  <2> QED BY <2>1
<1> DEFINE h == [i \in 0 .. m |-> IF i = 0 THEN retryInitialBackoff
                                  ELSE g[i - 1] * retryBackoffFactor]
<1>5. ASSUME NEW i \in 1 .. m PROVE h[i - 1] = g[i - 1]
  <2>1. i - 1 \in 0 .. m - 1 /\ i - 1 \in 0 .. m
    BY <1>2
  <2> QED BY <1>4, <2>1 DEF IsGrown
<1>6. \A i \in 0 .. m :
        h[i] = IF i = 0 THEN retryInitialBackoff ELSE h[i - 1] * retryBackoffFactor
  <2> SUFFICES ASSUME NEW i \in 0 .. m
               PROVE  h[i] = IF i = 0 THEN retryInitialBackoff ELSE h[i - 1] * retryBackoffFactor
    OBVIOUS
  <2>1. i # 0 => i \in 1 .. m
    BY <1>2
  <2>2. h[i] = IF i = 0 THEN retryInitialBackoff ELSE g[i - 1] * retryBackoffFactor
    OBVIOUS
  <2> HIDE DEF h
  <2> QED BY <1>5, <2>1, <2>2
<1>7. IsGrown(h, m)
  BY <1>6 DEF IsGrown
<1> QED BY <1>2, <1>7

LEMMA GrownGrows ==
  /\ Grown[0] = retryInitialBackoff
  /\ \A n \in 0 .. retryMaxAttempts : n # 0 => Grown[n] = Grown[n - 1] * retryBackoffFactor
<1>1. IsGrown(CHOOSE g : IsGrown(g, retryMaxAttempts), retryMaxAttempts)
  BY GrownExists, RetryAssumption
<1>2. IsGrown(Grown, retryMaxAttempts)
  BY <1>1 DEF IsGrown, Grown
<1>3. 0 \in 0 .. retryMaxAttempts
  BY RetryAssumption
<1> QED BY <1>2, <1>3 DEF IsGrown

(* Capping at every step comes to the same as capping once.                *)
LEMMA CapOnce ==
  ASSUME NEW b \in Nat
  PROVE  NextBackoff(Capped(b)) = Capped(b * retryBackoffFactor) /\ b * retryBackoffFactor \in Nat
<1>1. \A m \in Nat, n \in Nat \ {0} : m * n \in Nat /\ m * n >= m
  BY SMT
<1>2. /\ b * retryBackoffFactor \in Nat /\ b * retryBackoffFactor >= b
      /\ retryMaxBackoff * retryBackoffFactor \in Nat
      /\ retryMaxBackoff * retryBackoffFactor >= retryMaxBackoff
      /\ retryMaxBackoff \in Nat
  BY <1>1, RetryAssumption
<1> QED BY <1>2 DEF NextBackoff, Capped

OnSchedule(c) == /\ Grown[retry[c].attempt] \in Nat
                 /\ retry[c].backoff = Capped(Grown[retry[c].attempt])

LEMMA NewFrameOnSchedule ==
  ASSUME NEW c \in Calls, NEW pc, retry'[c] = NewFrame(pc)
  PROVE  OnSchedule(c)'
<1>1. retry'[c].attempt = 0 /\ retry'[c].backoff = retryInitialBackoff
  BY DEF NewFrame
<1>2. Grown[0] \in Nat /\ Capped(Grown[0]) = retryInitialBackoff
  BY GrownGrows, RetryAssumption DEF Capped
<1> QED BY <1>1, <1>2 DEF OnSchedule

LEMMA StepOnSchedule ==
  ASSUME IInv, \A c \in Calls : OnSchedule(c), [Next]_vars, NEW d \in Calls
  PROVE  OnSchedule(d)'
<1>1. retry \in [Calls -> Frame] /\ RetryTypeOK
  BY DEF IInv, TypeOK, RetryTypeOK
<1>2. CASE retry'[d].attempt = retry[d].attempt /\ retry'[d].backoff = retry[d].backoff
  BY <1>2 DEF OnSchedule
<1>3. ASSUME NEW c \in Calls, Begin(c) PROVE OnSchedule(d)'
  <2>1. CASE d = c
    BY <1>1, <1>3, <2>1, NewFrameOnSchedule DEF Begin, RetryBegin
  <2>2. CASE d # c
    BY <1>1, <1>2, <1>3, <2>2 DEF Begin, RetryBegin
  <2> QED BY <2>1, <2>2
<1>4. ASSUME NEW c \in Calls, TimerFires(c) PROVE OnSchedule(d)'
  <2>1. CASE d = c
    <3>1. /\ retry'[d].attempt = retry[d].attempt + 1
          /\ retry'[d].backoff = NextBackoff(retry[d].backoff)
          /\ retry[d].pc = "backoff"
      BY <1>1, <1>4, <2>1 DEF TimerFires, BackoffElapsed, SetFrame
    <3> DEFINE n == retry[d].attempt + 1
    <3>2. n \in 0 .. retryMaxAttempts /\ n # 0 /\ n - 1 = retry[d].attempt
      BY <1>1, <3>1, FrameType, RetryAssumption DEF IInv, CallInv
    <3>3. Grown[n] = Grown[retry[d].attempt] * retryBackoffFactor
      BY <3>2, GrownGrows
    <3>4. /\ NextBackoff(Capped(Grown[retry[d].attempt])) = Capped(Grown[n])
          /\ Grown[n] \in Nat
      BY <3>3, CapOnce DEF OnSchedule
    <3> QED BY <3>1, <3>4 DEF OnSchedule
  <2>2. CASE d # c
    BY <1>1, <1>2, <1>4, <2>2 DEF TimerFires, BackoffElapsed, SetFrame
  <2> QED BY <2>1, <2>2
<1>5. ASSUME NEW c \in Calls, NEW pc, NEW err, Move(c, pc, err)
      PROVE  OnSchedule(d)'
  BY <1>1, <1>2, <1>5 DEF Move, SetFrame
<1>6. ASSUME NEW c \in Calls,
             FnCalled(c) \/ ContextStops(c) \/ \E err \in Errors \cup {NoError} : FnReturns(c, err)
      PROVE  OnSchedule(d)'
  BY <1>5, <1>6 DEF FnCalled, RetryAttempt, FnReturns, RetryReturns, ReturnErr, ContextStops,
                    RetryContextDone, BackoffInterrupted
<1>7. ASSUME NEW c \in Calls, NEW err, CtxDone(c, err) PROVE OnSchedule(d)'
  BY <1>2, <1>7 DEF CtxDone
<1>8. CASE UNCHANGED vars
  BY <1>2, <1>8 DEF vars
<1> QED BY <1>3, <1>4, <1>6, <1>7, <1>8 DEF Next, Loop

(* The back-off of every attempt is the initial one times the factor, as   *)
(* often as attempts failed, and capped, for any of these three constants. *)
THEOREM SpecBackoffSchedule == Spec => []BackoffSchedule
<1> DEFINE Inv == IInv /\ \A c \in Calls : OnSchedule(c)
<1>1. Init => Inv
  <2>1. ASSUME Init, NEW c \in Calls PROVE OnSchedule(c)
    <3>1. retry[c].attempt = 0 /\ retry[c].backoff = retryInitialBackoff
      BY <2>1 DEF Init, RetryInit, NewFrame
    <3>2. Grown[0] \in Nat /\ Capped(Grown[0]) = retryInitialBackoff
      BY GrownGrows, RetryAssumption DEF Capped
    <3> QED BY <3>1, <3>2 DEF OnSchedule
  <2> QED BY <2>1, InitInv
<1>2. Inv /\ [Next]_vars => Inv'
  BY NextInv, StepOnSchedule
<1>3. Inv => BackoffSchedule
  BY DEF OnSchedule, BackoffSchedule
<1> QED BY <1>1, <1>2, <1>3, PTL DEF Spec
=============================================================================
