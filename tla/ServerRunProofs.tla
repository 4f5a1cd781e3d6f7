------------------------------ MODULE ServerRunProofs ------------------------------
(***************************************************************************)
(* Theorems about ServerRun, for any number of calls, probes and signals.  *)
(***************************************************************************)
EXTENDS ServerRun, FiniteSetTheorems, TLAPS

(***************************************************************************)
(* Why a shutdown is clean: ServeStdio fails on a closed stdin only after  *)
(* Run has closed it, and then Run is no longer in the select that would   *)
(* return that error.                                                      *)
(***************************************************************************)
Clean == /\ main.pc = "setup" => stdio.pc = "off"
         /\ main.pc \in {"setup", "select"} => ~stdin.closed
         /\ stdio.err = "closed" => stdin.closed
         /\ stdio.err = "broken" => stdin.client = "broken"
         /\ ShutdownIsClean

(***************************************************************************)
(* Why nothing is cut short: after ServeStdio has returned no worker has a *)
(* call in hand, and none takes one.                                       *)
(***************************************************************************)
Drained == InHand = {} /\ (Queued # {} => StdioCancelled)
Waited  == /\ main.pc = "setup" => \A c \in Calls : call[c].pc = "idle"
           /\ stdio.pc = "returned" => Drained
           /\ main.pc = "exited" => Drained

----------------------------------------------------------------------------
LEMMA ExitType == ASSUME NEW err, Exit(err) PROVE main' \in MainStates
<1>1. CASE err \in {"nil", "Canceled"}
  BY <1>1 DEF Exit, MainStates
<1>2. CASE err \notin {"nil", "Canceled"}
  BY <1>2 DEF Exit, MainStates
<1> QED
  BY <1>1, <1>2

\* A call may go to any stage, with any result.
LEMMA CallType ==
  ASSUME NEW c \in Calls, call \in [Calls -> CallStates],
         NEW pc \in CallStages, NEW res \in {"none", "success", "error"},
         CallGoesTo(c, pc, res)
  PROVE  call' \in [Calls -> CallStates]
  BY DEF CallGoesTo, CallStates

\* One more of one of the counters.
LEMMA CountType ==
  ASSUME count \in Counts, NEW k, count' = [count EXCEPT ![k] = @ + 1]
  PROVE  count' \in Counts
<1>1. CASE k \in {"observed", "success", "error", "failures"}
  BY <1>1 DEF Counts
<1>2. CASE k \notin {"observed", "success", "error", "failures"}
  BY <1>2 DEF Counts
<1> QED
  BY <1>1, <1>2

\* Every step keeps the types.
LEMMA TypeStep == TypeOK /\ [Next]_vars => TypeOK'
<1> SUFFICES ASSUME TypeOK, [Next]_vars PROVE TypeOK'
  OBVIOUS
<1>0. /\ main \in MainStates
      /\ cancelled \in BOOLEAN
      /\ signals \in 0 .. MaxSignals
      /\ heard \in HeardStates
      /\ stdin \in StdinStates
      /\ stdio \in StdioStates
      /\ call \in [Calls -> CallStates]
      /\ count \in Counts
      /\ health \in {"off", "starting", "failed", "serving", "draining", "drained", "gave up"}
      /\ unserved \subseteq Probes
  BY DEF TypeOK
<1>1. CASE Setup
  <2>1. main' \in MainStates
    BY <1>0, <1>1, ExitType DEF Setup, MainStates
  <2>2. stdio' \in StdioStates
    BY <1>0, <1>1 DEF Setup, StdioStates
  <2>3. health' \in {"off", "starting", "failed", "serving", "draining", "drained", "gave up"}
    BY <1>0, <1>1 DEF Setup
  <2>4. UNCHANGED <<cancelled, signals, heard, stdin, call, count, unserved>>
    BY <1>1 DEF Setup, hearing, serving, probing
  <2> QED
    BY <1>0, <2>1, <2>2, <2>3, <2>4 DEF TypeOK
<1>2. CASE RunSeesCancel
  <2>1. main' \in MainStates
    BY <1>0, <1>2 DEF RunSeesCancel, MainStates
  <2>2. stdin' \in StdinStates
    BY <1>0, <1>2 DEF RunSeesCancel, StdinStates
  <2>3. UNCHANGED <<cancelled, signals, heard, stdio, call, count, health, unserved>>
    BY <1>2 DEF RunSeesCancel, hearing, serving, probing
  <2> QED
    BY <1>0, <2>1, <2>2, <2>3 DEF TypeOK
<1>3. CASE RunSeesEnd
  <2>1. main' \in MainStates
    BY <1>0, <1>3, ExitType DEF RunSeesEnd
  <2>2. UNCHANGED <<cancelled, signals, heard, stdin, stdio, call, count, health, unserved>>
    BY <1>3 DEF RunSeesEnd, hearing, serving, probing
  <2> QED
    BY <1>0, <2>1, <2>2 DEF TypeOK
<1>4. CASE RunWaited
  <2>1. main' \in MainStates
    BY <1>0, <1>4, ExitType DEF RunWaited
  <2>2. UNCHANGED <<cancelled, signals, heard, stdin, stdio, call, count, health, unserved>>
    BY <1>4 DEF RunWaited, hearing, serving, probing
  <2> QED
    BY <1>0, <2>1, <2>2 DEF TypeOK
<1>5. CASE SignalCancels
  <2>1. heard' \in HeardStates
    BY <1>0, <1>5 DEF SignalCancels, HeardStates
  <2>2. cancelled' \in BOOLEAN
    BY <1>0, <1>5 DEF SignalCancels
  <2>3. UNCHANGED <<main, signals, stdin, stdio, call, count, health, unserved>>
    BY <1>5 DEF SignalCancels, hearing, serving, probing
  <2> QED
    BY <1>0, <2>1, <2>2, <2>3 DEF TypeOK
<1>6. CASE Signal
  <2>1. signals' \in 0 .. MaxSignals
    <3>1. signals \in 0 .. MaxSignals
      BY <1>0
    <3> QED
      BY <3>1, <1>6, ServerAssumption DEF Signal, ServerAssumption
  <2>2. heard' \in HeardStates
    BY <1>0, <1>6 DEF Signal, HeardStates, Notified
  <2>3. UNCHANGED <<main, cancelled, stdin, stdio, call, count, health, unserved>>
    BY <1>6 DEF Signal, hearing, serving, probing
  <2> QED
    BY <1>0, <2>1, <2>2, <2>3 DEF TypeOK
<1>7. CASE StdioRegisters
  <2>1. stdio' \in StdioStates
    BY <1>0, <1>7 DEF StdioRegisters, StdioGoTo, StdioStates
  <2>2. heard' \in HeardStates
    BY <1>0, <1>7 DEF StdioRegisters, HeardStates
  <2>3. UNCHANGED <<main, cancelled, signals, stdin, call, count, health, unserved>>
    BY <1>7 DEF StdioRegisters, hearing, serving, probing
  <2> QED
    BY <1>0, <2>1, <2>2, <2>3 DEF TypeOK
<1>8. CASE StdioReads
  <2>1. stdio' \in StdioStates
    <3>1. stdio \in StdioStates
      BY <1>0
    <3> QED
      BY <3>1, <1>8 DEF StdioReads, StdioGoTo, StdioStops, StdioStates
  <2>2. UNCHANGED <<main, cancelled, signals, heard, stdin, call, count, health, unserved>>
    BY <1>8 DEF StdioReads, hearing, serving, probing
  <2> QED
    BY <1>0, <2>1, <2>2 DEF TypeOK
<1>9. CASE StdioReturns
  <2>1. stdio' \in StdioStates
    BY <1>0, <1>9 DEF StdioReturns, StdioGoTo, StdioStates
  <2>2. UNCHANGED <<main, cancelled, signals, heard, stdin, call, count, health, unserved>>
    BY <1>9 DEF StdioReturns, hearing, serving, probing
  <2> QED
    BY <1>0, <2>1, <2>2 DEF TypeOK
<1>10. CASE StdioHears
  <2>1. heard' \in HeardStates
    BY <1>0, <1>10 DEF StdioHears, HeardStates
  <2>2. UNCHANGED <<main, cancelled, signals, stdin, stdio, call, count, health, unserved>>
    BY <1>10 DEF StdioHears, hearing, serving, probing
  <2> QED
    BY <1>0, <2>1, <2>2 DEF TypeOK
<1>11. CASE ClientLeaves
  <2>1. stdin' \in StdinStates
    BY <1>0, <1>11 DEF ClientLeaves, StdinStates
  <2>2. UNCHANGED <<main, cancelled, signals, heard, stdio, call, count, health, unserved>>
    BY <1>11 DEF ClientLeaves, hearing, serving, probing
  <2> QED
    BY <1>0, <2>1, <2>2 DEF TypeOK
<1>12. CASE HealthStarts
  <2>1. health' \in {"off", "starting", "failed", "serving", "draining", "drained", "gave up"}
    BY <1>0, <1>12 DEF HealthStarts
  <2>2. UNCHANGED <<main, cancelled, signals, heard, stdin, stdio, call, count, unserved>>
    BY <1>12 DEF HealthStarts, hearing, serving, probing
  <2> QED
    BY <1>0, <2>1, <2>2 DEF TypeOK
<1>13. CASE HealthShutsDown
  <2>1. health' \in {"off", "starting", "failed", "serving", "draining", "drained", "gave up"}
    BY <1>0, <1>13 DEF HealthShutsDown
  <2>2. UNCHANGED <<main, cancelled, signals, heard, stdin, stdio, call, count, unserved>>
    BY <1>13 DEF HealthShutsDown, hearing, serving, probing
  <2> QED
    BY <1>0, <2>1, <2>2 DEF TypeOK
<1>14. ASSUME NEW c \in Calls, ClientCalls(c) PROVE TypeOK'
  <2>1. call' \in [Calls -> CallStates]
    BY <1>0, <1>14 DEF ClientCalls, CallStates, CallStages
  <2>2. stdio' \in StdioStates
    BY <1>0, <1>14 DEF ClientCalls, StdioGoTo, StdioStates
  <2>3. UNCHANGED <<main, cancelled, signals, heard, stdin, count, health, unserved>>
    BY <1>14 DEF ClientCalls, hearing, serving, probing
  <2> QED
    BY <1>0, <2>1, <2>2, <2>3 DEF TypeOK
<1>15. ASSUME NEW c \in Calls, WorkerTakes(c) PROVE TypeOK'
  <2>1. call' \in [Calls -> CallStates]
    BY <1>0, <1>15, CallType DEF WorkerTakes, CallStages
  <2>2. UNCHANGED <<main, cancelled, signals, heard, stdin, stdio, count, health, unserved>>
    BY <1>15 DEF WorkerTakes, hearing, serving, probing
  <2> QED
    BY <1>0, <2>1, <2>2 DEF TypeOK
<1>16. ASSUME NEW c \in Calls, CleanupBegins(c) PROVE TypeOK'
  <2>1. call' \in [Calls -> CallStates]
    BY <1>0, <1>16, CallType DEF CleanupBegins, CallStages
  <2>2. UNCHANGED <<main, cancelled, signals, heard, stdin, stdio, count, health, unserved>>
    BY <1>16 DEF CleanupBegins, hearing, serving, probing
  <2> QED
    BY <1>0, <2>1, <2>2 DEF TypeOK
<1>17. ASSUME NEW c \in Calls, HandlerReturns(c) PROVE TypeOK'
  <2>1. call' \in [Calls -> CallStates]
    BY <1>0, <1>17, CallType DEF HandlerReturns, CallStages
  <2>2. count' \in Counts
    BY <1>0, <1>17, CountType DEF HandlerReturns
  <2>3. UNCHANGED <<main, cancelled, signals, heard, stdin, stdio, health, unserved>>
    BY <1>17 DEF HandlerReturns, hearing, serving, probing
  <2> QED
    BY <1>0, <2>1, <2>2, <2>3 DEF TypeOK
<1>18. ASSUME NEW c \in Calls, HandlerPanics(c) PROVE TypeOK'
  <2>1. call' \in [Calls -> CallStates]
    BY <1>0, <1>18, CallType DEF HandlerPanics, CallStages
  <2>2. UNCHANGED <<main, cancelled, signals, heard, stdin, stdio, count, health, unserved>>
    BY <1>18 DEF HandlerPanics, hearing, serving, probing
  <2> QED
    BY <1>0, <2>1, <2>2 DEF TypeOK
<1>19. ASSUME NEW c \in Calls, CountsRequest(c) PROVE TypeOK'
  <2>0. call[c].res \in {"none", "success", "error"}
    BY <1>0 DEF CallStates
  <2>1. call' \in [Calls -> CallStates]
    BY <1>0, <1>19, <2>0, CallType DEF CountsRequest, CallStages
  <2>2. count' \in Counts
    BY <1>0, <1>19, <2>0, CountType DEF CountsRequest
  <2>3. UNCHANGED <<main, cancelled, signals, heard, stdin, stdio, health, unserved>>
    BY <1>19 DEF CountsRequest, hearing, serving, probing
  <2> QED
    BY <1>0, <2>1, <2>2, <2>3 DEF TypeOK
<1>20. ASSUME NEW c \in Calls, Answers(c) PROVE TypeOK'
  <2>0. call[c].res \in {"none", "success", "error"}
    BY <1>0 DEF CallStates
  <2>1. call' \in [Calls -> CallStates]
    BY <1>0, <1>20, <2>0, CallType DEF Answers, CallStages
  <2>2. count' \in Counts
    BY <1>0, <1>20, CountType DEF Answers
  <2>3. UNCHANGED <<main, cancelled, signals, heard, stdin, stdio, health, unserved>>
    BY <1>20 DEF Answers, hearing, serving, probing
  <2> QED
    BY <1>0, <2>1, <2>2, <2>3 DEF TypeOK
<1>21. ASSUME NEW p \in Probes, ProbeArrives(p) PROVE TypeOK'
  <2>1. unserved' \subseteq Probes
    BY <1>0, <1>21 DEF ProbeArrives
  <2>2. UNCHANGED <<main, cancelled, signals, heard, stdin, stdio, call, count, health>>
    BY <1>21 DEF ProbeArrives, hearing, serving, probing
  <2> QED
    BY <1>0, <2>1, <2>2 DEF TypeOK
<1>22. ASSUME NEW p \in Probes, ProbeAnswered(p) PROVE TypeOK'
  <2>1. unserved' \subseteq Probes
    BY <1>0, <1>22 DEF ProbeAnswered
  <2>2. UNCHANGED <<main, cancelled, signals, heard, stdin, stdio, call, count, health>>
    BY <1>22 DEF ProbeAnswered, hearing, serving, probing
  <2> QED
    BY <1>0, <2>1, <2>2 DEF TypeOK
<1>23. CASE UNCHANGED vars
  BY <1>0, <1>23 DEF vars, TypeOK, hearing, serving, probing
<1> QED
  BY <1>1, <1>2, <1>3, <1>4, <1>5, <1>6, <1>7, <1>8, <1>9, <1>10, <1>11, <1>12, <1>13, <1>14, <1>15, <1>16, <1>17, <1>18, <1>19, <1>20, <1>21, <1>22, <1>23
  DEF Next, Main, Stdio, Client, Worker, Tool, Health

\* Every step keeps what a clean shutdown rests on.
LEMMA CleanStep == TypeOK /\ Clean /\ [Next]_vars => Clean'
<1> SUFFICES ASSUME TypeOK, Clean, [Next]_vars PROVE Clean'
  OBVIOUS
<1>0. main \in MainStates /\ stdin \in StdinStates /\ stdio \in StdioStates
  BY DEF TypeOK
<1> USE DEF Clean, ShutdownIsClean
<1>1. CASE Setup
  BY <1>0, <1>1 DEF Setup, Exit, MainStates, StdinStates, StdioStates
<1>2. CASE RunSeesCancel
  BY <1>0, <1>2 DEF RunSeesCancel, MainStates, StdinStates, StdioStates
<1>3. CASE RunSeesEnd
  <2>1. stdio.err # "closed"
    BY <1>3 DEF RunSeesEnd
  <2>2. stdio.err \in {"nil", "Canceled", "broken"}
    BY <1>0, <2>1 DEF StdioStates
  <2>3. stdio.err \in {"nil", "Canceled"} => main'.code = 0
    BY <1>3 DEF RunSeesEnd, Exit
  <2>4. main'.pc = "exited" /\ UNCHANGED <<stdin, stdio>>
    BY <1>3 DEF RunSeesEnd, Exit, serving
  <2> QED
    BY <2>2, <2>3, <2>4
<1>4. CASE RunWaited
  <2>1. main'.pc = "exited" /\ main'.code = 0
    BY <1>4 DEF RunWaited, Exit
  <2>2. UNCHANGED <<stdin, stdio>>
    BY <1>4 DEF RunWaited, serving
  <2> QED
    BY <2>1, <2>2
<1>5. CASE StdioRegisters
  BY <1>0, <1>5 DEF StdioRegisters, StdioGoTo, MainStates, StdinStates, StdioStates
<1>6. CASE StdioReads
  BY <1>0, <1>6 DEF StdioReads, StdioStops, StdioGoTo, Alive, MainStates, StdinStates, StdioStates
<1>7. CASE StdioReturns
  BY <1>0, <1>7 DEF StdioReturns, StdioGoTo, MainStates, StdinStates, StdioStates
<1>8. CASE ClientLeaves
  BY <1>0, <1>8 DEF ClientLeaves, Alive, MainStates, StdinStates, StdioStates
<1>9. CASE \E c \in Calls : ClientCalls(c)
  BY <1>0, <1>9 DEF ClientCalls, StdioGoTo, MainStates, StdinStates, StdioStates
<1>10. CASE UNCHANGED <<main, stdin, stdio>>
  BY <1>10
<1> QED
  BY <1>1, <1>2, <1>3, <1>4, <1>5, <1>6, <1>7, <1>8, <1>9, <1>10
  DEF Next, Main, Stdio, Client, Worker, Tool, Health, SignalCancels, Signal, StdioHears, HealthStarts, HealthShutsDown, WorkerTakes, CleanupBegins, HandlerReturns, HandlerPanics, CountsRequest, Answers, ProbeArrives, ProbeAnswered, vars, hearing, serving, probing

\* Every step keeps what is waited for.
LEMMA WaitedStep == TypeOK /\ Clean /\ Waited /\ [Next]_vars => Waited'
<1> SUFFICES ASSUME TypeOK, Clean, Waited, [Next]_vars PROVE Waited'
  OBVIOUS
<1>0. main \in MainStates /\ stdio \in StdioStates /\ heard \in HeardStates
  BY DEF TypeOK
<1>1. main.pc = "setup" => stdio.pc = "off" /\ \A c \in Calls : call[c].pc = "idle"
  BY DEF Clean, Waited
<1>2. ASSUME main.pc \notin {"setup", "exited"}, UNCHANGED main, stdio'.pc # "returned"
      PROVE  Waited'
  BY <1>2 DEF Waited
<1>3. ASSUME UNCHANGED call, StdioCancelled => StdioCancelled', Drained PROVE Drained'
  BY <1>3 DEF Drained, InHand, Queued
<1>4. CASE Setup
  BY <1>0, <1>1, <1>4 DEF Setup, Exit, Waited, Drained, InHand, Queued, MainStates, StdioStates, hearing
<1>5. CASE RunSeesCancel
  BY <1>0, <1>1, <1>5 DEF RunSeesCancel, Waited, Drained, InHand, Queued, StdioCancelled, MainStates, serving, hearing
<1>6. CASE RunSeesEnd
  BY <1>0, <1>1, <1>6 DEF RunSeesEnd, Exit, Waited, Drained, InHand, Queued, StdioCancelled, serving, hearing
<1>7. CASE RunWaited
  BY <1>0, <1>1, <1>7 DEF RunWaited, Exit, Waited, Drained, InHand, Queued, StdioCancelled, serving, hearing
<1>8. CASE SignalCancels
  BY <1>0, <1>1, <1>3, <1>8 DEF SignalCancels, Waited, StdioCancelled, HeardStates, serving
<1>9. CASE Signal
  BY <1>0, <1>1, <1>3, <1>9 DEF Signal, Waited, StdioCancelled, HeardStates, Notified, serving
<1>10. CASE StdioHears
  BY <1>0, <1>1, <1>3, <1>10 DEF StdioHears, Waited, StdioCancelled, HeardStates, serving
<1>11. CASE StdioRegisters
  BY <1>0, <1>1, <1>2, <1>11 DEF StdioRegisters, StdioGoTo, StdioStates, Alive
<1>12. CASE StdioReads
  BY <1>0, <1>1, <1>2, <1>12 DEF StdioReads, StdioGoTo, StdioStops, StdioStates, Alive, hearing
<1>13. CASE StdioReturns
  BY <1>0, <1>1, <1>13 DEF StdioReturns, Waited, Drained, InHand, Queued, StdioCancelled, StdioGoTo, StdioStates, Alive, hearing
<1>14. CASE \E c \in Calls : ClientCalls(c)
  BY <1>0, <1>1, <1>2, <1>14 DEF ClientCalls, StdioGoTo, StdioStates, Alive
<1>15. CASE \E c \in Calls : WorkerTakes(c)
  BY <1>0, <1>1, <1>2, <1>15 DEF WorkerTakes, Alive
<1>16. CASE \E c \in Calls : CleanupBegins(c)
  BY <1>1, <1>2, <1>16 DEF CleanupBegins, Waited, Drained, InHand, Alive
<1>17. CASE \E c \in Calls : HandlerReturns(c)
  BY <1>1, <1>2, <1>17 DEF HandlerReturns, Waited, Drained, InHand, Alive
<1>18. CASE \E c \in Calls : HandlerPanics(c)
  BY <1>1, <1>2, <1>18 DEF HandlerPanics, Waited, Drained, InHand, Alive
<1>19. CASE \E c \in Calls : CountsRequest(c)
  BY <1>1, <1>2, <1>19 DEF CountsRequest, Waited, Drained, InHand, Alive
<1>20. CASE \E c \in Calls : Answers(c)
  BY <1>1, <1>2, <1>20 DEF Answers, Waited, Drained, InHand, Alive
<1>21. CASE UNCHANGED <<main, stdio, heard, call>>
  BY <1>3, <1>21 DEF Waited, StdioCancelled
<1> QED
  BY <1>4, <1>5, <1>6, <1>7, <1>8, <1>9, <1>10, <1>11, <1>12, <1>13, <1>14, <1>15, <1>16, <1>17, <1>18, <1>19, <1>20, <1>21
  DEF Next, Main, Stdio, Client, Worker, Tool, Health, ClientLeaves, HealthStarts, HealthShutsDown, ProbeArrives, ProbeAnswered, vars, hearing, serving, probing

LEMMA InitInv == Init => TypeOK /\ Clean /\ Waited
<1> SUFFICES ASSUME Init PROVE TypeOK /\ Clean /\ Waited
  OBVIOUS
<1>1. main \in MainStates
  BY ServerAssumption DEF Init, ServerAssumption, MainStates
<1>2. cancelled \in BOOLEAN
  BY ServerAssumption DEF Init, ServerAssumption
<1>3. signals \in 0 .. MaxSignals
  BY ServerAssumption DEF Init, ServerAssumption
<1>4. heard \in HeardStates
  BY ServerAssumption DEF Init, ServerAssumption, HeardStates
<1>5. stdin \in StdinStates
  BY ServerAssumption DEF Init, ServerAssumption, StdinStates
<1>6. stdio \in StdioStates
  BY ServerAssumption DEF Init, ServerAssumption, StdioStates
<1>7. call \in [Calls -> CallStates]
  BY ServerAssumption DEF Init, ServerAssumption, CallStates, CallStages
<1>8. count \in Counts
  BY ServerAssumption DEF Init, ServerAssumption, Counts
<1>9. health \in {"off", "starting", "failed", "serving", "draining", "drained", "gave up"}
  BY ServerAssumption DEF Init, ServerAssumption
<1>10. unserved \subseteq Probes
  BY ServerAssumption DEF Init, ServerAssumption
<1>11. TypeOK
  BY <1>1, <1>2, <1>3, <1>4, <1>5, <1>6, <1>7, <1>8, <1>9, <1>10 DEF TypeOK
<1>12. Clean
  BY DEF Init, Clean, ShutdownIsClean
<1>13. Waited
  BY DEF Init, Waited
<1> QED
  BY <1>11, <1>12, <1>13

LEMMA SpecInv == Spec => [](TypeOK /\ Clean /\ Waited)
<1>1. TypeOK /\ Clean /\ Waited /\ [Next]_vars => (TypeOK /\ Clean /\ Waited)'
  BY TypeStep, CleanStep, WaitedStep
<1> QED
  BY InitInv, <1>1, PTL DEF Spec

(***************************************************************************)
(* Every variable keeps its type: main, Run, the goroutines and counters.  *)
(***************************************************************************)
THEOREM SpecTypeOK == Spec => []TypeOK
  BY SpecInv, PTL

(***************************************************************************)
(* A shutdown by signal exits with 0, although ServeStdio then fails on    *)
(* the stdin that Run closed under it.                                     *)
(***************************************************************************)
THEOREM SpecShutdownIsClean == Spec => []ShutdownIsClean
<1>1. Clean => ShutdownIsClean
  BY DEF Clean
<1> QED
  BY SpecInv, <1>1, PTL

(***************************************************************************)
(* The process does not end under a tool call, whatever the order of       *)
(* signals, hang-ups and answers.                                          *)
(***************************************************************************)
THEOREM SpecNothingCutShort == Spec => []NothingCutShort
<1>1. Waited => NothingCutShort
  BY DEF Waited, Drained, NothingCutShort
<1> QED
  BY SpecInv, <1>1, PTL

----------------------------------------------------------------------------
(* The counters.  Each is exactly the number of calls that have passed the *)
(* statement which increments it: a call passes each once, and keeps the   *)
(* result its handler returned.                                            *)
Observed     == {c \in Calls : call[c].res # "none"}
Counted(res) == {c \in Calls : call[c].pc \in {"counted", "answered"} /\ call[c].res = res}
Results      == {"success", "error"}

\* A call has a result from the return of its handler on.
HasResult(c) == /\ call[c].res # "none" => call[c].pc \in {"returned", "counted", "answered"}
                /\ call[c].pc \in {"returned", "counted"} => call[c].res # "none"

Counting ==
  /\ \A c \in Calls : HasResult(c)
  /\ IsFiniteSet(Observed)
  /\ count.observed = Cardinality(Observed)
  /\ \A res \in Results : count[res] = Cardinality(Counted(res))
  /\ count.failures = Cardinality(Ended("error"))

LEMMA CallMoves ==
  ASSUME call \in [Calls -> CallStates], NEW c \in Calls, NEW pc, NEW res, CallGoesTo(c, pc, res)
  PROVE  /\ call'[c].pc = pc /\ call'[c].res = res
         /\ \A d \in Calls \ {c} : call'[d] = call[d]
  BY DEF CallGoesTo

LEMMA CallTypes ==
  ASSUME TypeOK, NEW c \in Calls
  PROVE  call[c].pc \in CallStages /\ call[c].res \in {"none", "success", "error"}
  BY DEF TypeOK, CallStates

(* Whoever is counted was observed: all these sets are finite.             *)
LEMMA CountedAreObserved ==
  ASSUME Counting, NEW res \in Results
  PROVE  /\ Ended(res) \subseteq Counted(res) /\ Counted(res) \subseteq Observed
         /\ IsFiniteSet(Ended(res)) /\ IsFiniteSet(Counted(res)) /\ IsFiniteSet(Observed)
         /\ Cardinality(Ended(res)) \in Nat /\ Cardinality(Counted(res)) \in Nat
         /\ Cardinality(Observed) \in Nat
         /\ Cardinality(Ended(res)) <= Cardinality(Counted(res))
<1>1. Ended(res) \subseteq Counted(res) /\ Counted(res) \subseteq Observed
  BY DEF Ended, Counted, Observed, Results
<1>2. IsFiniteSet(Observed) /\ IsFiniteSet(Counted(res)) /\ IsFiniteSet(Ended(res))
  <2>1. IsFiniteSet(Observed)
    BY DEF Counting
  <2>2. IsFiniteSet(Counted(res))
    BY <1>1, <2>1, FS_Subset
  <2> QED BY <1>1, <2>1, <2>2, FS_Subset
<1> QED BY <1>1, <1>2, FS_Subset, FS_CardinalityType

LEMMA OneMore ==
  ASSUME NEW S, IsFiniteSet(S), NEW c, c \notin S, NEW T, T = S \cup {c},
         NEW n, n = Cardinality(S)
  PROVE  IsFiniteSet(T) /\ n + 1 = Cardinality(T)
  BY FS_AddElement

(* A step that counts nothing, and leaves the sets as they are.            *)
LEMMA CountStill ==
  ASSUME Counting, UNCHANGED count,
         \A c \in Calls : HasResult(c)' /\ call'[c].res = call[c].res
                          /\ (call[c].res # "none" => call'[c].pc = call[c].pc)
  PROVE  Counting'
<1>1. Observed' = Observed
  BY DEF Observed
<1>2. \A res \in Results : Counted(res)' = Counted(res) /\ Ended(res)' = Ended(res)
  <2> SUFFICES ASSUME NEW res \in Results
               PROVE  Counted(res)' = Counted(res) /\ Ended(res)' = Ended(res)
    OBVIOUS
  <2>1. \A c \in Calls : /\ call'[c].res = res <=> call[c].res = res
                         /\ call[c].res = res => call'[c].pc = call[c].pc
    BY DEF Results
  <2> QED BY <2>1 DEF Counted, Ended
<1> QED BY <1>1, <1>2 DEF Counting, Results

LEMMA ReturnsCounting ==
  ASSUME TypeOK, Counting, NEW c \in Calls, HandlerReturns(c)
  PROVE  Counting'
<1>1. PICK res \in Results : CallGoesTo(c, "returned", res)
  BY DEF HandlerReturns, Results
<1>2. /\ call[c].pc \in {"running", "cleanup"} /\ call[c].res = "none"
      /\ call'[c].pc = "returned" /\ call'[c].res = res /\ res # "none"
      /\ \A d \in Calls \ {c} : call'[d] = call[d]
  BY <1>1, CallMoves DEF HandlerReturns, TypeOK, Counting, HasResult, Results
<1>3. Observed' = Observed \cup {c} /\ c \notin Observed
  BY <1>2 DEF Observed
<1>4. \A r \in Results : Counted(r)' = Counted(r) /\ Ended(r)' = Ended(r)
  BY <1>2 DEF Counted, Ended
<1>5. /\ count'.observed = count.observed + 1
      /\ count'.success = count.success /\ count'.error = count.error
      /\ count'.failures = count.failures
  BY DEF HandlerReturns, TypeOK, Counts
<1>6. \A d \in Calls : HasResult(d)'
  BY <1>2 DEF Counting, HasResult
<1>7. IsFiniteSet(Observed') /\ count.observed + 1 = Cardinality(Observed')
  BY <1>3, OneMore DEF Counting
<1> QED BY <1>4, <1>5, <1>6, <1>7 DEF Counting, Results

LEMMA CountsCounting ==
  ASSUME TypeOK, Counting, NEW c \in Calls, CountsRequest(c)
  PROVE  Counting'
<1>0. PICK res \in Results : call[c].pc = "returned" /\ call[c].res = res
  BY CallTypes DEF CountsRequest, Counting, HasResult, Results
<1>1. /\ call[c].pc = "returned" /\ call[c].res = res /\ res \in Results
      /\ call'[c].pc = "counted" /\ call'[c].res = res
      /\ \A d \in Calls \ {c} : call'[d] = call[d]
  BY <1>0, CallMoves DEF CountsRequest, TypeOK
<1>2. count' = [count EXCEPT ![res] = @ + 1]
  BY <1>0 DEF CountsRequest
<1>3. Observed' = Observed
  BY <1>1 DEF Observed
<1>4. \A r \in Results : Ended(r)' = Ended(r)
  BY <1>1 DEF Ended
<1>5. Counted(res)' = Counted(res) \cup {c} /\ c \notin Counted(res)
  BY <1>1 DEF Counted
<1>6. \A r \in Results : r # res => Counted(r)' = Counted(r)
  BY <1>1 DEF Counted
<1>7. /\ count'.observed = count.observed /\ count'.failures = count.failures
      /\ count'[res] = count[res] + 1
      /\ \A r \in Results : r # res => count'[r] = count[r]
  BY <1>1, <1>2 DEF TypeOK, Counts, Results
<1>8. \A d \in Calls : HasResult(d)'
  BY <1>1 DEF Counting, HasResult, Results
<1>9. count[res] + 1 = Cardinality(Counted(res)')
  BY <1>1, <1>5, CountedAreObserved, OneMore DEF Counting
<1>10. \A r \in Results : count'[r] = Cardinality(Counted(r)')
  <2> SUFFICES ASSUME NEW r \in Results PROVE count'[r] = Cardinality(Counted(r)')
    OBVIOUS
  <2>1. CASE r = res
    BY <1>7, <1>9, <2>1
  <2>2. CASE r # res
    BY <1>6, <1>7, <2>2 DEF Counting
  <2> QED BY <2>1, <2>2
<1> QED BY <1>3, <1>4, <1>7, <1>8, <1>10 DEF Counting, Results

LEMMA AnswersCounting ==
  ASSUME TypeOK, Counting, NEW c \in Calls, Answers(c)
  PROVE  Counting'
<1>1. /\ call[c].pc = "counted" /\ call[c].res \in Results
      /\ call'[c].pc = "answered" /\ call'[c].res = call[c].res
      /\ \A d \in Calls \ {c} : call'[d] = call[d]
  BY CallMoves, CallTypes DEF Answers, TypeOK, Counting, HasResult, Results
<1>2. Observed' = Observed /\ \A r \in Results : Counted(r)' = Counted(r)
  BY <1>1 DEF Observed, Counted
<1>3. \A d \in Calls : HasResult(d)'
  BY <1>1 DEF Counting, HasResult
<1>4. CASE call[c].res = "error"
  <2>1. Ended("error")' = Ended("error") \cup {c} /\ c \notin Ended("error")
    BY <1>1, <1>4 DEF Ended
  <2>2. count' = [count EXCEPT !.failures = @ + 1]
    BY <1>4 DEF Answers
  <2>3. /\ count'.observed = count.observed /\ count'.success = count.success
        /\ count'.error = count.error /\ count'.failures = count.failures + 1
    BY <2>2 DEF TypeOK, Counts
  <2>4. count.failures + 1 = Cardinality(Ended("error")')
    BY <2>1, CountedAreObserved, OneMore DEF Counting, Results
  <2> QED BY <1>2, <1>3, <2>3, <2>4 DEF Counting, Results
<1>5. CASE call[c].res # "error"
  <2>1. Ended("error")' = Ended("error") /\ count' = count
    BY <1>1, <1>5 DEF Ended, Answers
  <2> QED BY <1>2, <1>3, <2>1 DEF Counting, Results
<1> QED BY <1>4, <1>5

LEMMA NextCounting == TypeOK /\ Counting /\ [Next]_vars => Counting'
<1> SUFFICES ASSUME TypeOK, Counting, [Next]_vars PROVE Counting'
  OBVIOUS
<1>1. CASE UNCHANGED <<call, count>>
  BY <1>1, CountStill DEF Counting, HasResult
<1>2. ASSUME NEW c \in Calls, NEW pc \in {"running", "cleanup", "answered"},
             call[c].pc \in {"queued", "running"}, CallGoesTo(c, pc, "none"), UNCHANGED count
      PROVE  Counting'
  <2>1. /\ call'[c].pc = pc /\ call'[c].res = "none" /\ call[c].res = "none"
        /\ \A d \in Calls \ {c} : call'[d] = call[d]
    BY <1>2, CallMoves DEF TypeOK, Counting, HasResult
  <2> QED BY <2>1, <1>2, CountStill DEF Counting, HasResult
<1>3. ASSUME NEW c \in Calls, ClientCalls(c) PROVE Counting'
  <2>1. /\ call[c].pc = "idle" /\ call'[c].pc = "queued" /\ call'[c].res = call[c].res
        /\ UNCHANGED count
        /\ \A d \in Calls \ {c} : call'[d] = call[d]
    BY <1>3 DEF ClientCalls, TypeOK, CallStates
  <2>2. call[c].res = "none"
    BY <2>1 DEF Counting, HasResult
  <2> QED BY <2>1, <2>2, CountStill DEF Counting, HasResult
<1>4. ASSUME NEW c \in Calls, WorkerTakes(c) \/ CleanupBegins(c) \/ HandlerPanics(c)
      PROVE  Counting'
  BY <1>2, <1>4 DEF WorkerTakes, CleanupBegins, HandlerPanics
<1>5. ASSUME NEW c \in Calls, HandlerReturns(c) \/ CountsRequest(c) \/ Answers(c)
      PROVE  Counting'
  BY <1>5, ReturnsCounting, CountsCounting, AnswersCounting
<1>6. Main \/ SignalCancels \/ Signal \/ Stdio \/ StdioHears \/ ClientLeaves \/ Health
        => UNCHANGED <<call, count>>
  BY DEF Main, Setup, RunSeesCancel, RunSeesEnd, RunWaited, SignalCancels, Signal, Stdio,
         StdioRegisters, StdioReads, StdioReturns, StdioHears, ClientLeaves, Health,
         HealthStarts, HealthShutsDown, serving
<1>7. ASSUME NEW p \in Probes, ProbeArrives(p) \/ ProbeAnswered(p)
      PROVE  UNCHANGED <<call, count>>
  BY <1>7 DEF ProbeArrives, ProbeAnswered, serving
<1>8. UNCHANGED vars => UNCHANGED <<call, count>>
  BY DEF vars, serving
<1> QED BY <1>1, <1>3, <1>4, <1>5, <1>6, <1>7, <1>8 DEF Next, Client, Worker, Tool

(***************************************************************************)
(* mcp_tool_requests_total, _errors_total and the observed durations agree *)
(* with the answers at any time, for any number of calls: an error is      *)
(* counted as an error, and by its type, before it is answered.            *)
(***************************************************************************)
THEOREM SpecCountersCoverAnswers == Spec => []CountersCoverAnswers
<1>1. Init => Counting
  <2> SUFFICES ASSUME Init PROVE Counting
    OBVIOUS
  <2>1. \A c \in Calls : call[c].pc = "idle" /\ call[c].res = "none"
    BY DEF Init
  <2>2. Observed = {} /\ \A res \in Results : Counted(res) = {} /\ Ended(res) = {}
    BY <2>1 DEF Observed, Counted, Ended
  <2>3. count.observed = 0 /\ count.success = 0 /\ count.error = 0 /\ count.failures = 0
    BY DEF Init
  <2> QED BY <2>1, <2>2, <2>3, FS_EmptySet DEF Counting, HasResult, Results
<1>2. ASSUME TypeOK, Counting PROVE CountersCoverAnswers
  <2> DEFINE s == Counted("success")
             e == Counted("error")
  <2>1. /\ IsFiniteSet(Observed) /\ Cardinality(Observed) \in Nat
        /\ IsFiniteSet(s) /\ IsFiniteSet(e) /\ s \subseteq Observed /\ e \subseteq Observed
        /\ Cardinality(s) \in Nat /\ Cardinality(e) \in Nat
        /\ Cardinality(Ended("success")) <= Cardinality(s)
        /\ Cardinality(Ended("error")) <= Cardinality(e)
        /\ Cardinality(Ended("error")) \in Nat
    BY <1>2, CountedAreObserved DEF Results
  <2>2. /\ count.observed = Cardinality(Observed) /\ count.success = Cardinality(s)
        /\ count.error = Cardinality(e) /\ count.failures = Cardinality(Ended("error"))
    BY <1>2 DEF Counting, Results
  <2>3. s \cap e = {}
    BY DEF Counted
  <2> HIDE DEF s, e
  <2>4. Cardinality(s) + Cardinality(e) <= Cardinality(Observed)
    <3>1. Cardinality(s \cup e) = Cardinality(s) + Cardinality(e)
      <4>1. Cardinality(s \cup e) = Cardinality(s) + Cardinality(e) - Cardinality(s \cap e)
        BY <2>1, FS_Union
      <4>2. Cardinality(s \cap e) = 0
        BY <2>3, FS_EmptySet
      <4> QED BY <2>1, <4>1, <4>2
    <3>2. Cardinality(s \cup e) <= Cardinality(Observed)
      <4>1. s \cup e \in SUBSET Observed
        BY <2>1
      <4> QED BY <2>1, <4>1, FS_Subset
    <3> QED BY <3>1, <3>2
  <2>5. ASSUME InHand = {}
        PROVE  Ended("error") = e /\ Observed = Ended("success") \cup Ended("error")
    <3>1. \A c \in Calls : call[c].pc \in {"idle", "queued", "answered"}
      BY <2>5 DEF InHand
    <3>2. \A c \in Calls : call[c].res # "none" =>
                             call[c].pc = "answered" /\ call[c].res \in Results
      BY <1>2, <3>1, CallTypes DEF Counting, HasResult, Results
    <3> QED BY <3>1, <3>2 DEF Ended, Counted, Observed, Results, e
  <2>6. \A a \in Nat : a <= a
    OBVIOUS
  <2> QED BY <2>1, <2>2, <2>4, <2>5, <2>6 DEF CountersCoverAnswers
<1>3. Init /\ [][Next]_vars => [](TypeOK /\ Counting)
  <2>1. TypeOK /\ Counting /\ [Next]_vars => (TypeOK /\ Counting)'
    BY TypeStep, NextCounting
  <2>2. Init => TypeOK /\ Counting
    BY <1>1, InitInv
  <2> QED BY <2>1, <2>2, PTL
<1>4. TypeOK /\ Counting => CountersCoverAnswers
  BY <1>2
<1> QED BY <1>3, <1>4, PTL DEF Spec
====================================================================================
