----------------------------- MODULE ReadArtifactProofs -----------------------------
(***************************************************************************)
(* Theorems about ReadArtifact, for every number of reads, attempts and    *)
(* kills, and whatever pods earlier processes left: type correctness, no   *)
(* orphan without trouble, content only from a pod that succeeded, and     *)
(* what a sweep that reports success has done.                             *)
(***************************************************************************)
EXTENDS ReadArtifact, RetryProofs

(***************************************************************************)
(* Lemmas about the operators of KubeApi: what an attempt that is sent,    *)
(* answered or given up does to the frames and to the requests in flight.  *)
(***************************************************************************)

(* An attempt ended with err: the loop returns it, or waits for another.   *)
AttemptEnded(c, err) ==
  /\ retry[c].pc = "call"
  /\ retry'[c].attempt = retry[c].attempt /\ retry'[c].lastErr = err
  /\ \/ retry'[c].pc = "returned"
     \/ /\ retry'[c].pc = "backoff"
        /\ err # NoError /\ retry[c].attempt < retryMaxAttempts

LEMMA RetryReturnsEnds ==
  ASSUME RetryTypeOK, NEW c \in Calls, NEW err \in Errors \cup {NoError},
         RetryReturns(c, err)
  PROVE  /\ RetryTypeOK' /\ AttemptEnded(c, err)
         /\ \A d \in Calls \ {c} : retry'[d] = retry[d]
  BY RetryReturnsEffect, FrameType, RetryAssumption DEF AttemptEnded, GivesUp

LEMMA SendEffect ==
  ASSUME RetryTypeOK, NetTypeOK, NEW c \in Calls, NEW op \in Ops, NEW ctx,
         SendRequest(c, op, ctx)
  PROVE  /\ RetryTypeOK' /\ NetTypeOK'
         /\ retry[c].pc = "check" /\ ctx = NoError
         /\ retry'[c].pc = "call" /\ retry'[c].attempt = retry[c].attempt
         /\ \A d \in Calls \ {c} : retry'[d] = retry[d]
         /\ net' = net \cup {[call |-> c, op |-> op, try |-> retry[c].attempt]}
<1>1. /\ RetryTypeOK' /\ retry'[c].pc = "call" /\ retry'[c].attempt = retry[c].attempt
      /\ \A d \in Calls \ {c} : retry'[d] = retry[d]
  BY FrameType, MoveEffect DEF SendRequest, RetryAttempt
<1>2. [call |-> c, op |-> op, try |-> retry[c].attempt] \in Requests
  BY FrameType DEF Requests
<1> QED BY <1>1, <1>2 DEF SendRequest, RetryAttempt, NetTypeOK

LEMMA AttemptFailsEffect ==
  ASSUME RetryTypeOK, NetTypeOK, NEW c \in Calls, NEW errs \in SUBSET (Errors \cup {NoError}),
         AttemptFails(c, errs)
  PROVE  /\ RetryTypeOK' /\ NetTypeOK' /\ net' = net
         /\ \E err \in errs \ {NoError} : AttemptEnded(c, err)
         /\ \A d \in Calls \ {c} : retry'[d] = retry[d]
<1>1. PICK err \in errs \ {NoError} : RetryReturns(c, err)
  BY DEF AttemptFails
<1> QED BY <1>1, RetryReturnsEnds DEF AttemptFails, NetTypeOK

LEMMA AnswerEffect ==
  ASSUME RetryTypeOK, NetTypeOK, NEW m \in net, NEW op, NEW err \in Errors \cup {NoError},
         Answer(m, op, err)
  PROVE  /\ RetryTypeOK' /\ NetTypeOK' /\ net' = net \ {m}
         /\ m.call \in Calls /\ m.op = op /\ m.try = retry[m.call].attempt
         /\ AttemptEnded(m.call, err)
         /\ \A d \in Calls \ {m.call} : retry'[d] = retry[d]
<1>1. m.call \in Calls
  BY DEF NetTypeOK, Requests
<1> QED BY <1>1, RetryReturnsEnds DEF Answer, Awaited, NetTypeOK

LEMMA NoAnswerEffect ==
  ASSUME RetryTypeOK, NetTypeOK, NEW m \in net, NoAnswer(m)
  PROVE  RetryTypeOK' /\ NetTypeOK' /\ net' = net \ {m} /\ retry' = retry
  BY DEF NoAnswer, NetTypeOK, RetryTypeOK

(* A request is known by its call, its operation and its attempt.          *)
LEMMA SameRequest ==
  ASSUME NetTypeOK, NEW m \in net, NEW n \in net,
         m.call = n.call, m.op = n.op, m.try = n.try
  PROVE  m = n
  BY DEF NetTypeOK, Requests

(* What the API server and the connection answer are errors.               *)
LEMMA ErrorKinds ==
  /\ Rejections \subseteq Errors /\ CommitErrors \subseteq Errors /\ NetFaults \subseteq Errors
  /\ NoError \notin Errors
  /\ {"AlreadyExists", "NotFound", "BadRequest", "DeadlineExceeded", "Canceled"} \subseteq Errors
  BY KubeApiAssumption DEF Errors, ApiErrors, NetErrors, NoError

----------------------------------------------------------------------------
(***************************************************************************)
(* The inductive invariant, read by read.  Untroubled is its heart: as     *)
(* long as every attempt of a read to create or delete had a clear         *)
(* success, its one request is the only one on its way, the pod exists     *)
(* from the success of the create to that of the delete, and nothing is on *)
(* its way in between.                                                     *)
(***************************************************************************)
NoPod(r)       == pod[r] = "absent"
Quiet(r)       == \A m \in net : m.call # r
Changing(r)    == read[r].pc \in {"create", "cleanup"}
FirstTry(r, op) == \A m \in net : m.call = r => m.op = op /\ m.try = 0

\* The frame belongs to one of the three loops; the cleanup has its 10 s when it begins.
Framed(r) ==
  /\ retry[r].pc # "idle" => read[r].pc \in {"create", "status", "cleanup"}
  /\ retry[r].pc = "backoff" => /\ retry[r].lastErr # NoError
                                /\ retry[r].attempt < retryMaxAttempts
  /\ cleanErr[r] # NoError => read[r].pc \in {"cleanup", "done", "lost"}
  /\ At(r, "cleanup") /\ retry[r].pc = "check" /\ retry[r].attempt = 0
       => cleanErr[r] = NoError

\* Who sends what: nobody else creates the pod of r, and r deletes it at the end.
Requested(r) == \A m \in net :
  /\ m.call = r => \/ m.op = CreatePod(r)
                   \/ m.op = DeletePod(r) /\ read[r].pc \in {"cleanup", "done", "lost"}
  /\ m.op = CreatePod(r) => m.call = r

Untroubled(r) == ~trouble[r] =>
  /\ Changing(r) => retry[r].pc # "backoff"
  /\ Changing(r) /\ retry[r].pc \in {"check", "call"} => retry[r].attempt = 0
  /\ At(r, "create") /\ ~(Returned(r) /\ retry[r].lastErr = NoError) => NoPod(r)
  /\ At(r, "create") /\ retry[r].pc = "call" => FirstTry(r, CreatePod(r))
  /\ At(r, "cleanup") /\ retry[r].pc = "call" => FirstTry(r, DeletePod(r))
  /\ At(r, "cleanup") /\ Returned(r) => NoPod(r)
  /\ read[r].pc \in {"idle", "done"} => NoPod(r)
  /\ ~At(r, "lost") /\ (Changing(r) => retry[r].pc # "call") => Quiet(r)

\* A pod that was there, or was listed, is not made again without trouble.
MadeOnce(r) == ~trouble[r] /\ (~NoPod(r) \/ r \in cleaner.listed) =>
  /\ ~At(r, "idle")
  /\ At(r, "create") => Returned(r) /\ retry[r].lastErr = NoError
  /\ \A m \in net : m.op # CreatePod(r)

\* The pod that the poll saw end stays as it ended, or was swept (and made again).
Swept(r) == r \in cleaner.listed /\ (NoPod(r) \/ trouble[r])
Watched(r) ==
  /\ read[r].pc \in {"status", "logs"} => pod[r] \in Terminal \/ Swept(r)
  /\ At(r, "logs") \/ (At(r, "status") /\ Returned(r) /\ retry[r].lastErr = NoError)
       => read[r].seen = pod[r] \/ Swept(r)

ReadInv(r) == Framed(r) /\ Requested(r) /\ Untroubled(r) /\ MadeOnce(r) /\ Watched(r)

(***************************************************************************)
(* And the sweep: what it listed and is through with is gone, and so is    *)
(* every orphan, which nobody can bring back.                              *)
(***************************************************************************)
Sweeping ==
  /\ retry[Cleaner].pc # "idle" => cleaner.cur # None
  /\ retry[Cleaner].pc = "backoff" => /\ retry[Cleaner].lastErr # NoError
                                      /\ retry[Cleaner].attempt < retryMaxAttempts
  /\ cleaner.pc = "idle" => cleaner.listed = {}
  /\ cleaner.pc # "sweep" => cleaner.cur = None /\ cleaner.todo = {}
  /\ cleaner.todo \subseteq cleaner.listed
  /\ cleaner.cur # None => cleaner.cur \in cleaner.listed
  /\ \A m \in net : m.call = Cleaner => \E r \in cleaner.listed : m.op = DeletePod(r)

Gone(r) == /\ r \in cleaner.listed => trouble[r] \/ NoPod(r)
           /\ r \in cleaner.orphans => NoPod(r)

SweptClean ==
  /\ cleaner.orphans \subseteq Settled
  /\ cleaner.pc \in {"sweep", "done"} /\ ~cleaner.failed =>
       \A r \in Reads : r \notin cleaner.todo /\ r # cleaner.cur => Gone(r)
  /\ cleaner.cur # None /\ Returned(Cleaner) /\ retry[Cleaner].lastErr = NoError =>
       Gone(cleaner.cur)

IInv == /\ TypeOK
        /\ \A r \in Reads : ReadInv(r)
        /\ Sweeping /\ SweptClean

----------------------------------------------------------------------------
(* Types and steps of the program counter.                                 *)

LEMMA Names ==
  /\ Reads \subseteq Calls /\ Cleaner \in Calls /\ Cleaner \notin Reads /\ None \notin Reads
  /\ \A c \in Calls : c \in Reads \/ c = Cleaner
  /\ \A r \in Reads : /\ CreatePod(r) \in Ops /\ DeletePod(r) \in Ops
                      /\ CreatePod(r) # DeletePod(r)
                      /\ CreatePod(r) # <<>> /\ DeletePod(r) # <<>>
  /\ \A r, s \in Reads : /\ CreatePod(r) # DeletePod(s)
                         /\ CreatePod(r) = CreatePod(s) => r = s
                         /\ DeletePod(r) = DeletePod(s) => r = s
  BY ReadAssumption DEF ReadAssumption, CreatePod, DeletePod

LEMMA Types ==
  ASSUME IInv
  PROVE  /\ RetryTypeOK /\ NetTypeOK
         /\ \A r \in Reads : /\ ctxErr[r] \in Errors \cup {NoError}
                             /\ cleanErr[r] \in Errors \cup {NoError}
                             /\ read[r].pc \in ReadPc
         /\ \A m \in net : m.call \in Calls
  BY DEF IInv, TypeOK, NetTypeOK, Requests, Errors, NetErrors

LEMMA GoToEffect ==
  ASSUME IInv, NEW r \in Reads, NEW pc \in ReadPc, GoTo(r, pc)
  PROVE  /\ read' \in [Reads -> [pc : ReadPc, seen : PodPhases \cup {"absent"}]]
         /\ read'[r].pc = pc /\ read'[r].seen = read[r].seen
         /\ \A s \in Reads \ {r} : read'[s] = read[s]
  BY DEF GoTo, IInv, TypeOK

(* A read that a step leaves alone keeps its invariant.                    *)
LEMMA OtherRead ==
  ASSUME NEW r \in Reads, ReadInv(r),
         read'[r] = read[r], retry'[r] = retry[r], cleanErr'[r] = cleanErr[r],
         trouble'[r] = trouble[r], pod'[r] = pod[r], cleaner'.listed = cleaner.listed,
         \A m \in net' : m.call = r \/ m.op = CreatePod(r) => m \in net
  PROVE  ReadInv(r)'
<1>1. Framed(r)' /\ Requested(r)'
  BY DEF ReadInv, Framed, Requested, At
<1>2. Untroubled(r)'
  BY DEF ReadInv, Untroubled, NoPod, Quiet, Changing, FirstTry, At, Returned
<1>3. MadeOnce(r)' /\ Watched(r)'
  BY DEF ReadInv, MadeOnce, Watched, Swept, NoPod, At, Returned
<1> QED BY <1>1, <1>2, <1>3 DEF ReadInv

(* A step of a live read that touches no pod: only its own invariant is at *)
(* stake, since the sweep counts on no read that is not over.              *)
LEMMA ReadMoves ==
  ASSUME IInv, NEW r \in Reads, TypeOK', ReadInv(r)',
         read[r].pc \notin {"done", "lost"},
         \A s \in Reads \ {r} : /\ read'[s] = read[s] /\ cleanErr'[s] = cleanErr[s]
                                /\ trouble'[s] = trouble[s],
         \A c \in Calls \ {r} : retry'[c] = retry[c],
         UNCHANGED <<pod, cleaner>>,
         trouble[r] => trouble'[r],
         \A m \in net' : \/ m \in net
                         \/ m.call = r /\ m.op \in {CreatePod(r), DeletePod(r)}
  PROVE  IInv'
<1>1. ASSUME NEW s \in Reads PROVE ReadInv(s)'
  <2>1. CASE s = r
    BY <2>1
  <2>2. CASE s # r
    <3>1. \A m \in net' : m.call = s \/ m.op = CreatePod(s) => m \in net
      BY <2>2, Names
    <3> QED BY <2>2, <3>1, OtherRead, Names DEF IInv
  <2> QED BY <2>1, <2>2
<1>2. retry'[Cleaner] = retry[Cleaner]
  BY Names
<1>3. Sweeping'
  BY <1>2, Names DEF IInv, Sweeping
<1>4. SweptClean'
  <2>1. cleaner'.orphans \subseteq Settled'
    BY Names DEF IInv, SweptClean, Settled
  <2>2. \A s \in Reads : Gone(s) => Gone(s)'
    BY DEF Gone, NoPod
  <2>3. cleaner.cur # None => cleaner.cur \in Reads
    BY DEF IInv, TypeOK
  <2> QED BY <1>2, <2>1, <2>2, <2>3 DEF IInv, SweptClean, Returned
<1> QED BY <1>1, <1>3, <1>4 DEF IInv

LEMMA InitInv == Init => IInv
<1> SUFFICES ASSUME Init PROVE IInv
  OBVIOUS
<1>1. RetryTypeOK
  BY RetryAssumption DEF Init, RetryInit, RetryTypeOK, Frame, NewFrame, NoError
<1>2. TypeOK
  <2>1. PICK left \in Leftovers :
          /\ read = [r \in Reads |-> [pc   |-> IF r \in DOMAIN left THEN "lost" ELSE "idle",
                                      seen |-> "absent"]]
          /\ pod = [r \in Reads |-> IF r \in DOMAIN left THEN left[r] ELSE "absent"]
    BY DEF Init
  <2>2. pod \in [Reads -> PodPhases \cup {"absent"}]
    BY <2>1, ReadAssumption DEF ReadAssumption
  <2>3. crashes \in 0 .. MaxCrashes
    BY ReadAssumption DEF Init, ReadAssumption
  <2> QED BY <1>1, <2>1, <2>2, <2>3 DEF Init, NetInit, TypeOK, NetTypeOK, ReadPc
<1>3. \A c \in Calls : retry[c].pc = "idle"
  BY DEF Init, RetryInit, NewFrame
<1>4. \A r \in Reads : /\ read[r].pc \in {"idle", "lost"}
                       /\ read[r].pc = "idle" => pod[r] = "absent"
  BY DEF Init
<1>5. \A r \in Reads : ReadInv(r)
  BY <1>3, <1>4, Names
  DEF Init, NetInit, ReadInv, Framed, Requested, Untroubled, MadeOnce, Watched, Swept,
      NoPod, Quiet, Changing, FirstTry, At, Returned
<1>6. Sweeping /\ SweptClean
  BY <1>3, Names DEF Init, NetInit, Sweeping, SweptClean, Settled
<1> QED BY <1>2, <1>5, <1>6 DEF IInv

----------------------------------------------------------------------------
(* One lemma per action of a read.                                         *)

LEMMA RefuseInv ==
  ASSUME IInv, NEW r \in Reads, NEW path \in Asked, Refuse(r, path) PROVE IInv'
<1>1. /\ At(r, "idle") /\ GoTo(r, "done")
      /\ UNCHANGED <<apiVars, cleanErr, pod, trouble, cleaner>>
  BY DEF Refuse
<1>2. TypeOK'
  BY <1>1, GoToEffect DEF Refuse, IInv, TypeOK, RetryTypeOK, NetTypeOK, apiVars, ReadPc
<1>3. ReadInv(r)'
  BY <1>1, GoToEffect
  DEF apiVars, IInv, ReadInv, Framed, Requested, Untroubled, MadeOnce, Watched, Swept,
      NoPod, Quiet, Changing, FirstTry, At, Returned, ReadPc
<1> QED BY <1>1, <1>2, <1>3, GoToEffect, ReadMoves DEF apiVars, At, ReadPc

LEMMA StartInv ==
  ASSUME IInv, NEW r \in Reads, NEW path \in Asked, Start(r, path) PROVE IInv'
<1>1. /\ At(r, "idle") /\ GoTo(r, "create")
      /\ UNCHANGED <<net, ctxErr, cleanErr, result, pod, trouble, cleaner, crashes>>
  BY DEF Start
<1>2. /\ RetryTypeOK' /\ retry'[r] = NewFrame("check")
      /\ retry'[r].pc = "check" /\ retry'[r].attempt = 0
      /\ \A c \in Calls \ {r} : retry'[c] = retry[c]
  BY Types, Names, NewFrameEffect DEF Start, RetryBegin
<1>3. TypeOK'
  BY <1>1, <1>2, GoToEffect DEF IInv, TypeOK, NetTypeOK, ReadPc
<1>4. ReadInv(r)'
  BY <1>1, <1>2, GoToEffect
  DEF IInv, ReadInv, Framed, Requested, Untroubled, MadeOnce, Watched, Swept,
      NoPod, Quiet, Changing, FirstTry, At, Returned, ReadPc
<1> QED BY <1>1, <1>2, <1>3, <1>4, GoToEffect, ReadMoves DEF At, ReadPc

LEMMA SendCreateInv ==
  ASSUME IInv, NEW r \in Reads, SendCreate(r) PROVE IInv'
<1> DEFINE m == [call |-> r, op |-> CreatePod(r), try |-> retry[r].attempt]
<1>1. /\ At(r, "create") /\ SendRequest(r, CreatePod(r), ctxErr[r])
      /\ UNCHANGED <<readVars, pod, trouble, cleaner, crashes>>
  BY DEF SendCreate
<1>2. /\ RetryTypeOK' /\ NetTypeOK' /\ retry[r].pc = "check"
      /\ retry'[r].pc = "call" /\ retry'[r].attempt = retry[r].attempt
      /\ \A c \in Calls \ {r} : retry'[c] = retry[c]
      /\ net' = net \cup {m}
  BY <1>1, Types, Names, SendEffect
<1>3. TypeOK'
  BY <1>1, <1>2 DEF readVars, IInv, TypeOK
<1>4. ReadInv(r)'
  <2>1. \A n \in net' : n \in net \/ (n.call = r /\ n.op = CreatePod(r) /\ n.try = retry[r].attempt)
    BY <1>2
  <2> QED BY <1>1, <1>2, <2>1, Names
          DEF readVars, IInv, ReadInv, Framed, Requested, Untroubled, MadeOnce, Watched, Swept,
              NoPod, Quiet, Changing, FirstTry, At, Returned
<1> QED BY <1>1, <1>2, <1>3, <1>4, ReadMoves DEF readVars, At

(* An attempt to create or to delete is given up: that is trouble.         *)
LEMMA TroubleInv ==
  ASSUME IInv, NEW r \in Reads, NEW errs \in SUBSET (Errors \cup {NoError}),
         Changing(r), AttemptFails(r, errs),
         trouble' = [trouble EXCEPT ![r] = TRUE],
         UNCHANGED <<readVars, pod, cleaner, crashes>>
  PROVE  IInv'
<1>1. PICK err \in errs \ {NoError} : AttemptEnded(r, err)
  BY Types, Names, AttemptFailsEffect
<1>2. /\ RetryTypeOK' /\ NetTypeOK' /\ net' = net
      /\ \A c \in Calls \ {r} : retry'[c] = retry[c]
  BY Types, Names, AttemptFailsEffect
<1>3. trouble'[r] /\ \A s \in Reads \ {r} : trouble'[s] = trouble[s]
  BY DEF IInv, TypeOK
<1>4. TypeOK'
  BY <1>2 DEF readVars, IInv, TypeOK
<1>5. ReadInv(r)'
  BY <1>1, <1>2, <1>3
  DEF AttemptEnded, readVars, IInv, ReadInv, Framed, Requested, Untroubled, MadeOnce, Watched,
      Swept, NoPod, Changing, At, Returned
<1> QED BY <1>2, <1>3, <1>4, <1>5, ReadMoves DEF readVars, Changing

LEMMA AttemptGivenUpInv ==
  ASSUME IInv, NEW r \in Reads, CreateTimesOut(r) \/ ConnectionBreaks(r) \/ DeleteTimesOut(r)
  PROVE  IInv'
<1>1. /\ {"DeadlineExceeded", ctxErr[r]} \in SUBSET (Errors \cup {NoError})
      /\ {CleanupCtxErr(r)} \in SUBSET (Errors \cup {NoError})
      /\ NetFaults \in SUBSET (Errors \cup {NoError})
  BY Types, ErrorKinds DEF CleanupCtxErr
<1>2. CASE CreateTimesOut(r)
  BY <1>1, <1>2, TroubleInv DEF CreateTimesOut, At, Changing
<1>3. CASE ConnectionBreaks(r)
  BY <1>1, <1>3, TroubleInv DEF ConnectionBreaks, Changing
<1>4. CASE DeleteTimesOut(r)
  BY <1>1, <1>4, TroubleInv DEF DeleteTimesOut, At, Changing
<1> QED BY <1>2, <1>3, <1>4

LEMMA CreateReturnsInv ==
  ASSUME IInv, NEW r \in Reads, CreateReturnsError(r) \/ CreateReturnsPod(r) PROVE IInv'
<1>1. /\ At(r, "create") /\ Returned(r)
      /\ \/ retry[r].lastErr # NoError /\ GoTo(r, "done")
         \/ retry[r].lastErr = NoError /\ GoTo(r, "wait")
      /\ UNCHANGED <<net, ctxErr, cleanErr, pod, trouble, cleaner, crashes>>
  BY DEF CreateReturnsError, CreateReturnsPod
<1>2. /\ RetryTypeOK' /\ retry'[r].pc = "idle"
      /\ \A c \in Calls \ {r} : retry'[c] = retry[c]
  BY Types, Names, NewFrameEffect DEF CreateReturnsError, CreateReturnsPod, RetryDone
<1>3. TypeOK'
  <2>1. retry[r].lastErr # NoError => retry[r].lastErr \in Errors
    BY Types, Names, FrameType
  <2> QED BY <1>1, <1>2, <2>1, GoToEffect
          DEF CreateReturnsError, CreateReturnsPod, IInv, TypeOK, NetTypeOK, ReadPc
<1>4. ReadInv(r)'
  BY <1>1, <1>2, GoToEffect
  DEF IInv, ReadInv, Framed, Requested, Untroubled, MadeOnce, Watched, Swept,
      NoPod, Quiet, Changing, FirstTry, At, Returned, ReadPc
<1> QED BY <1>1, <1>2, <1>3, <1>4, GoToEffect, ReadMoves DEF At, ReadPc

LEMMA PollSeesEndInv ==
  ASSUME IInv, NEW r \in Reads, PollSeesEnd(r) PROVE IInv'
<1>1. /\ At(r, "wait") /\ pod[r] \in Terminal /\ GoTo(r, "status")
      /\ UNCHANGED <<net, ctxErr, cleanErr, result, pod, trouble, cleaner, crashes>>
  BY DEF PollSeesEnd
<1>2. /\ RetryTypeOK' /\ retry'[r].pc = "check" /\ retry'[r].attempt = 0
      /\ \A c \in Calls \ {r} : retry'[c] = retry[c]
  BY Types, Names, NewFrameEffect DEF PollSeesEnd, RetryBegin
<1>3. TypeOK'
  BY <1>1, <1>2, GoToEffect DEF IInv, TypeOK, NetTypeOK, ReadPc
<1>4. ReadInv(r)'
  BY <1>1, <1>2, GoToEffect
  DEF IInv, ReadInv, Framed, Requested, Untroubled, MadeOnce, Watched, Swept,
      NoPod, Quiet, Changing, FirstTry, At, Returned, ReadPc
<1> QED BY <1>1, <1>2, <1>3, <1>4, GoToEffect, ReadMoves DEF At, ReadPc

(* A return after the defer statement: the cleanup begins.                 *)
LEMMA ReturnInv ==
  ASSUME IInv, NEW r \in Reads, NEW res \in Errors \cup {"PodFailed", "content"},
         read[r].pc \in {"wait", "status", "logs"}, Return(r, res),
         retry[r].pc # "call",
         UNCHANGED <<net, ctxErr, cleanErr, pod, trouble, cleaner, crashes>>
  PROVE  IInv'
<1>1. GoTo(r, "cleanup")
  BY DEF Return
<1>2. /\ RetryTypeOK' /\ retry'[r].pc = "check" /\ retry'[r].attempt = 0
      /\ \A c \in Calls \ {r} : retry'[c] = retry[c]
  BY Types, Names, NewFrameEffect DEF Return, RetryBegin
<1>3. TypeOK'
  BY <1>1, <1>2, GoToEffect DEF Return, IInv, TypeOK, NetTypeOK, ReadPc
<1>4. ReadInv(r)'
  BY <1>1, <1>2, GoToEffect
  DEF IInv, ReadInv, Framed, Requested, Untroubled, MadeOnce, Watched, Swept,
      NoPod, Quiet, Changing, FirstTry, At, Returned, ReadPc
<1> QED BY <1>1, <1>2, <1>3, <1>4, GoToEffect, ReadMoves DEF At, ReadPc

LEMMA GetErrorsType == \A r \in Reads : GetErrors(r) \subseteq Errors
  BY ErrorKinds DEF GetErrors

LEMMA PollEndsInv ==
  ASSUME IInv, NEW r \in Reads, PollTimesOut(r) \/ PollFails(r) PROVE IInv'
<1>1. PICK err \in Errors : Return(r, err)
  <2>1. {"DeadlineExceeded", ctxErr[r]} \ {NoError} \subseteq Errors
    BY Types, ErrorKinds
  <2> QED BY <2>1, GetErrorsType DEF PollTimesOut, PollFails, PollEnds
<1>2. retry[r].pc # "call"
  BY DEF PollTimesOut, PollFails, PollEnds, At, IInv, ReadInv, Framed
<1> QED BY <1>1, <1>2, ReturnInv DEF PollTimesOut, PollFails, PollEnds, At

(* The status check: its frame moves, and at most what the read saw.       *)
LEMMA StatusMoves ==
  ASSUME IInv, NEW r \in Reads, At(r, "status"), RetryTypeOK',
         \A c \in Calls \ {r} : retry'[c] = retry[c],
         retry'[r].pc = "backoff" => /\ retry'[r].lastErr # NoError
                                     /\ retry'[r].attempt < retryMaxAttempts,
         \/ /\ read' = [read EXCEPT ![r].seen = pod[r]] /\ pod[r] # "absent"
         \/ /\ read' = read
            /\ retry'[r].pc = "returned" => retry'[r].lastErr # NoError,
         UNCHANGED <<net, ctxErr, cleanErr, result, pod, trouble, cleaner, crashes>>
  PROVE  IInv'
<1>1. /\ read' \in [Reads -> [pc : ReadPc, seen : PodPhases \cup {"absent"}]]
      /\ read'[r].pc = "status"
      /\ \A s \in Reads \ {r} : read'[s] = read[s]
      /\ retry'[r].pc = "returned" /\ retry'[r].lastErr = NoError => read'[r].seen = pod[r]
  BY DEF IInv, TypeOK, At
<1>2. TypeOK'
  BY <1>1 DEF IInv, TypeOK, NetTypeOK
<1>3. ReadInv(r)'
  BY <1>1
  DEF IInv, ReadInv, Framed, Requested, Untroubled, MadeOnce, Watched, Swept,
      NoPod, Quiet, Changing, FirstTry, At, Returned
<1> QED BY <1>1, <1>2, <1>3, ReadMoves DEF At

LEMMA StatusInv ==
  ASSUME IInv, NEW r \in Reads, StatusCalled(r) \/ StatusAnswered(r) \/ StatusInterrupted(r)
  PROVE  IInv'
<1>1. CASE StatusCalled(r)
  <2>1. /\ RetryTypeOK' /\ retry'[r].pc = "call"
        /\ \A c \in Calls \ {r} : retry'[c] = retry[c]
    BY <1>1, Types, Names, FrameType, MoveEffect DEF StatusCalled, RetryAttempt
  <2> QED BY <1>1, <2>1, StatusMoves DEF StatusCalled, readVars
<1>2. CASE StatusAnswered(r)
  <2>1. PICK err \in Errors \cup {NoError} :
          /\ RetryReturns(r, err)
          /\ \/ /\ err = NoError /\ pod[r] # "absent"
                /\ read' = [read EXCEPT ![r].seen = pod[r]]
             \/ err # NoError /\ read' = read
    BY <1>2, GetErrorsType, ErrorKinds DEF StatusAnswered
  <2>2. /\ RetryTypeOK' /\ AttemptEnded(r, err)
        /\ \A c \in Calls \ {r} : retry'[c] = retry[c]
    BY <2>1, Types, Names, RetryReturnsEnds
  <2> QED BY <1>2, <2>1, <2>2, StatusMoves DEF StatusAnswered, AttemptEnded
<1>3. CASE StatusInterrupted(r)
  <2>1. {ctxErr[r]} \in SUBSET (Errors \cup {NoError})
    BY Types
  <2>2. PICK err \in Errors : err # NoError /\ AttemptEnded(r, err)
    BY <1>3, <2>1, Types, Names, AttemptFailsEffect DEF StatusInterrupted
  <2>3. RetryTypeOK' /\ net' = net /\ \A c \in Calls \ {r} : retry'[c] = retry[c]
    BY <1>3, <2>1, Types, Names, AttemptFailsEffect DEF StatusInterrupted
  <2> QED BY <1>3, <2>2, <2>3, StatusMoves DEF StatusInterrupted, AttemptEnded, readVars
<1> QED BY <1>1, <1>2, <1>3

LEMMA StatusReturnsInv ==
  ASSUME IInv, NEW r \in Reads, StatusReturns(r) PROVE IInv'
<1>1. CASE retry[r].lastErr # NoError
  <2>1. retry[r].lastErr \in Errors /\ retry[r].pc # "call"
    BY <1>1, Types, Names, FrameType DEF StatusReturns, Returned
  <2> QED BY <1>1, <2>1, ReturnInv DEF StatusReturns, At
<1>2. CASE retry[r].lastErr = NoError
  <2>1. /\ At(r, "status") /\ Returned(r) /\ GoTo(r, "logs")
        /\ UNCHANGED <<net, ctxErr, cleanErr, result, pod, trouble, cleaner, crashes>>
    BY <1>2 DEF StatusReturns
  <2>2. /\ RetryTypeOK' /\ retry'[r].pc = "idle"
        /\ \A c \in Calls \ {r} : retry'[c] = retry[c]
    BY <1>2, Types, Names, NewFrameEffect DEF StatusReturns, RetryDone
  <2>3. TypeOK'
    BY <2>1, <2>2, GoToEffect DEF IInv, TypeOK, NetTypeOK, ReadPc
  <2>4. ReadInv(r)'
    BY <1>2, <2>1, <2>2, GoToEffect
    DEF IInv, ReadInv, Framed, Requested, Untroubled, MadeOnce, Watched, Swept,
        NoPod, Quiet, Changing, FirstTry, At, Returned, ReadPc
  <2> QED BY <2>1, <2>2, <2>3, <2>4, GoToEffect, ReadMoves DEF At, ReadPc
<1> QED BY <1>1, <1>2

LEMMA LogsInv ==
  ASSUME IInv, NEW r \in Reads, LogsAnswered(r) \/ LogsInterrupted(r) PROVE IInv'
<1>1. PICK res \in Errors \cup {"PodFailed", "content"} :
        /\ At(r, "logs") /\ Return(r, res)
        /\ UNCHANGED <<net, ctxErr, cleanErr, pod, trouble, cleaner, crashes>>
  <2>1. PICK got \in Errors \cup {"content"} : LogsReturn(r, got)
    BY Types, GetErrorsType, ErrorKinds DEF LogsAnswered, LogsInterrupted
  <2> QED BY <2>1 DEF LogsReturn
<1>2. retry[r].pc # "call"
  BY <1>1 DEF At, IInv, ReadInv, Framed
<1> QED BY <1>1, <1>2, ReturnInv DEF At

LEMMA SendDeleteInv ==
  ASSUME IInv, NEW r \in Reads, SendDelete(r) PROVE IInv'
<1> DEFINE m == [call |-> r, op |-> DeletePod(r), try |-> retry[r].attempt]
<1>1. /\ At(r, "cleanup") /\ SendRequest(r, DeletePod(r), CleanupCtxErr(r))
      /\ UNCHANGED <<readVars, pod, trouble, cleaner, crashes>>
  BY DEF SendDelete
<1>2. /\ RetryTypeOK' /\ NetTypeOK' /\ retry[r].pc = "check"
      /\ retry'[r].pc = "call" /\ retry'[r].attempt = retry[r].attempt
      /\ \A c \in Calls \ {r} : retry'[c] = retry[c]
      /\ net' = net \cup {m}
  BY <1>1, Types, Names, SendEffect
<1>3. TypeOK'
  BY <1>1, <1>2 DEF readVars, IInv, TypeOK
<1>4. ReadInv(r)'
  <2>1. \A n \in net' : n \in net \/ (n.call = r /\ n.op = DeletePod(r) /\ n.try = retry[r].attempt)
    BY <1>2
  <2> QED BY <1>1, <1>2, <2>1, Names
          DEF readVars, IInv, ReadInv, Framed, Requested, Untroubled, MadeOnce, Watched, Swept,
              NoPod, Quiet, Changing, FirstTry, At, Returned
<1> QED BY <1>1, <1>2, <1>3, <1>4, ReadMoves DEF readVars, At

LEMMA CleanupTimesOutInv ==
  ASSUME IInv, NEW r \in Reads, CleanupTimesOut(r) PROVE IInv'
<1>1. /\ At(r, "cleanup") /\ (retry[r].attempt > 0 \/ retry[r].pc # "check")
      /\ \A s \in Reads \ {r} : cleanErr'[s] = cleanErr[s]
      /\ UNCHANGED <<retry, net, read, ctxErr, result, pod, trouble, cleaner, crashes>>
  BY DEF CleanupTimesOut, apiVars, IInv, TypeOK
<1>2. TypeOK'
  BY <1>1 DEF CleanupTimesOut, IInv, TypeOK, RetryTypeOK, NetTypeOK
<1>3. ReadInv(r)'
  BY <1>1
  DEF IInv, ReadInv, Framed, Requested, Untroubled, MadeOnce, Watched, Swept,
      NoPod, Quiet, Changing, FirstTry, At, Returned
<1> QED BY <1>1, <1>2, <1>3, ReadMoves DEF At

LEMMA CleanupReturnsInv ==
  ASSUME IInv, NEW r \in Reads, CleanupReturns(r) PROVE IInv'
<1>1. /\ At(r, "cleanup") /\ Returned(r) /\ GoTo(r, "done")
      /\ UNCHANGED <<net, ctxErr, cleanErr, result, pod, trouble, cleaner, crashes>>
  BY DEF CleanupReturns
<1>2. /\ RetryTypeOK' /\ retry'[r].pc = "idle"
      /\ \A c \in Calls \ {r} : retry'[c] = retry[c]
  BY Types, Names, NewFrameEffect DEF CleanupReturns, RetryDone
<1>3. TypeOK'
  BY <1>1, <1>2, GoToEffect DEF IInv, TypeOK, NetTypeOK, ReadPc
<1>4. ReadInv(r)'
  BY <1>1, <1>2, GoToEffect
  DEF IInv, ReadInv, Framed, Requested, Untroubled, MadeOnce, Watched, Swept,
      NoPod, Quiet, Changing, FirstTry, At, Returned, ReadPc
<1> QED BY <1>1, <1>2, <1>3, <1>4, GoToEffect, ReadMoves DEF At, ReadPc

LEMMA LoopGoesOnInv ==
  ASSUME IInv, NEW r \in Reads, LoopGoesOn(r) PROVE IInv'
<1>1. LoopCtxErr(r) \in Errors \cup {NoError}
  BY Types DEF LoopCtxErr, CleanupCtxErr
<1>2. retry[r].pc = "backoff" => retry[r].lastErr # NoError /\ retry[r].attempt < retryMaxAttempts
  BY DEF IInv, ReadInv, Framed
<1>3. /\ RetryTypeOK' /\ \A c \in Calls \ {r} : retry'[c] = retry[c]
      /\ \/ /\ retry[r].pc \in {"check", "backoff"} /\ LoopCtxErr(r) # NoError
            /\ retry'[r].pc = "returned" /\ retry'[r].lastErr # NoError
            /\ retry'[r].attempt = retry[r].attempt
         \/ /\ retry[r].pc = "backoff" /\ retry'[r].pc = "check"
            /\ retry'[r].attempt = retry[r].attempt + 1
  BY <1>1, <1>2, Types, Names, LoopEffect DEF LoopGoesOn
<1>4. UNCHANGED <<net, readVars, pod, trouble, cleaner, crashes>>
  BY DEF LoopGoesOn
<1>5. retry[r].attempt \in Nat
  BY Types, Names, FrameType
<1>6. TypeOK'
  BY <1>3, <1>4 DEF readVars, IInv, TypeOK, NetTypeOK
<1>7. ReadInv(r)'
  BY <1>3, <1>4, <1>5
  DEF LoopCtxErr, CleanupCtxErr, readVars, IInv, ReadInv, Framed, Requested, Untroubled,
      MadeOnce, Watched, Swept, NoPod, Quiet, Changing, FirstTry, At, Returned
<1>8. read[r].pc \notin {"done", "lost"}
  BY <1>3 DEF IInv, ReadInv, Framed
<1> QED BY <1>3, <1>4, <1>6, <1>7, <1>8, ReadMoves DEF readVars

LEMMA ReadStepInv ==
  ASSUME IInv, NEW r \in Reads, ReadStep(r) \/ CleanupTimesOut(r) \/ ConnectionBreaks(r) \/ Answered(r)
  PROVE  IInv'
  BY SendCreateInv, AttemptGivenUpInv, CreateReturnsInv, PollSeesEndInv, PollEndsInv, StatusInv,
     StatusReturnsInv, LogsInv, SendDeleteInv, CleanupTimesOutInv, CleanupReturnsInv, LoopGoesOnInv
  DEF ReadStep, Answered

----------------------------------------------------------------------------
(* The cluster, the client and the end of the process.                     *)

LEMMA CancelInv ==
  ASSUME IInv, NEW r \in Reads, Cancel(r) PROVE IInv'
<1>1. /\ read[r].pc \notin {"done", "lost"}
      /\ UNCHANGED <<retry, net, read, cleanErr, result, pod, trouble, cleaner, crashes>>
  BY DEF Cancel, apiVars
<1>2. TypeOK'
  BY <1>1 DEF Cancel, IInv, TypeOK, RetryTypeOK, NetTypeOK
<1>3. ReadInv(r)'
  BY <1>1, OtherRead DEF IInv
<1> QED BY <1>1, <1>2, <1>3, ReadMoves

(* A pod that is there moves on: those that ended stay.                    *)
LEMMA PodMovesInv ==
  ASSUME IInv, NEW r \in Reads, PodMoves(r) PROVE IInv'
<1>1. /\ pod[r] \notin Terminal /\ ~NoPod(r) /\ pod'[r] \in PodPhases /\ ~NoPod(r)'
      /\ pod' \in [Reads -> PodPhases \cup {"absent"}]
      /\ \A s \in Reads \ {r} : pod'[s] = pod[s]
      /\ UNCHANGED <<retry, net, readVars, trouble, cleaner, crashes>>
  BY DEF PodMoves, apiVars, IInv, TypeOK, NoPod, Terminal, PodPhases
<1>2. TypeOK'
  BY <1>1 DEF readVars, IInv, TypeOK, RetryTypeOK, NetTypeOK
<1>3. ASSUME NEW s \in Reads PROVE ReadInv(s)'
  <2>1. CASE s # r
    BY <1>1, <2>1, OtherRead DEF readVars, IInv
  <2>2. CASE s = r
    BY <1>1, <2>2
    DEF readVars, IInv, ReadInv, Framed, Requested, Untroubled, MadeOnce, Watched, Swept,
        NoPod, Quiet, Changing, FirstTry, At, Returned
  <2> QED BY <2>1, <2>2
<1>4. \A s \in Reads : Gone(s) => Gone(s)'
  BY <1>1 DEF Gone, NoPod
<1>5. cleaner.cur # None => cleaner.cur \in Reads
  BY DEF IInv, TypeOK
<1>6. Sweeping' /\ SweptClean'
  BY <1>1, <1>4, <1>5 DEF readVars, IInv, Sweeping, SweptClean, Settled, Returned
<1> QED BY <1>2, <1>3, <1>6 DEF IInv

(* What the processing of a request does but for the pods: its call is     *)
(* answered clearly, and it is on its way no longer; or it is in trouble.  *)
Effect(m, errs) ==
  /\ RetryTypeOK' /\ NetTypeOK' /\ net' \subseteq net /\ m.call \in Calls
  /\ trouble' \in [Reads -> BOOLEAN]
  /\ \A r \in Reads : trouble[r] => trouble'[r]
  /\ \A r \in Reads \ {m.call} : trouble'[r] = trouble[r]
  /\ \A c \in Calls \ {m.call} : retry'[c] = retry[c]
  /\ UNCHANGED <<readVars, cleaner, crashes>>
  /\ \/ /\ retry' = retry
        /\ m.call \in Reads => trouble'[m.call]
     \/ \E err \in errs :
          /\ m.op = OpOf(m.call) /\ AttemptEnded(m.call, err)
          /\ m.try = retry[m.call].attempt /\ net' = net \ {m}
          /\ m.call \in Reads /\ err # NoError => trouble'[m.call]

LEMMA OutcomeEffect ==
  ASSUME IInv, NEW m \in net, NEW errs \in SUBSET (Errors \cup {NoError}), Outcome(m, errs)
  PROVE  Effect(m, errs)
<1>1. /\ trouble' \in [Reads -> BOOLEAN]
      /\ \A r \in Reads : trouble[r] => trouble'[r]
      /\ \A r \in Reads \ {m.call} : trouble'[r] = trouble[r]
  <2>1. trouble \in [Reads -> BOOLEAN]
    BY DEF IInv, TypeOK
  <2>2. \/ \E err \in errs : trouble' = [r \in Reads |-> trouble[r] \/ (m.call = r /\ err # NoError)]
        \/ trouble' = [r \in Reads |-> trouble[r] \/ m.call = r]
    BY DEF Outcome
  <2> QED BY <2>1, <2>2, Zenon
<1>2. UNCHANGED <<readVars, cleaner, crashes>> /\ m.call \in Calls
  BY Types DEF Outcome
<1>3. CASE NoAnswer(m) /\ trouble' = [r \in Reads |-> trouble[r] \/ m.call = r]
  BY <1>1, <1>2, <1>3, Types, NoAnswerEffect DEF Effect
<1>4. ASSUME NEW err \in errs, Answer(m, OpOf(m.call), err),
             trouble' = [r \in Reads |-> trouble[r] \/ (m.call = r /\ err # NoError)]
      PROVE  /\ RetryTypeOK' /\ NetTypeOK' /\ net' = net \ {m}
             /\ \A c \in Calls \ {m.call} : retry'[c] = retry[c]
             /\ m.op = OpOf(m.call) /\ AttemptEnded(m.call, err)
             /\ m.try = retry[m.call].attempt
             /\ m.call \in Reads /\ err # NoError => trouble'[m.call]
  <2>1. err \in Errors \cup {NoError}
    OBVIOUS
  <2> QED BY <1>4, <2>1, Types, AnswerEffect
<1> QED BY <1>1, <1>2, <1>3, <1>4 DEF Outcome, Effect

LEMMA ExecutedEffect ==
  ASSUME IInv, NEW m \in net, Executed(m)
  PROVE  Effect(m, {NoError} \cup CommitErrors)
<1>1. {NoError} \cup CommitErrors \in SUBSET (Errors \cup {NoError})
  BY ErrorKinds
<1>2. CASE Outcome(m, {NoError} \cup CommitErrors)
  BY <1>1, <1>2, OutcomeEffect
<1>3. CASE /\ SentAgain(m, OpOf(m.call))
           /\ trouble' = [r \in Reads |-> trouble[r] \/ m.call = r]
           /\ UNCHANGED <<readVars, cleaner, crashes>>
  <2>1. /\ trouble' \in [Reads -> BOOLEAN]
        /\ \A r \in Reads : trouble[r] => trouble'[r]
        /\ \A r \in Reads \ {m.call} : trouble'[r] = trouble[r]
        /\ m.call \in Reads => trouble'[m.call]
    <3>1. trouble \in [Reads -> BOOLEAN]
      BY DEF IInv, TypeOK
    <3> QED BY <1>3, <3>1, Zenon
  <2>2. /\ RetryTypeOK' /\ NetTypeOK' /\ net' \subseteq net /\ m.call \in Calls
        /\ retry' = retry
    BY <1>3, Types DEF SentAgain, RetryTypeOK, NetTypeOK
  <2> QED BY <1>3, <2>1, <2>2 DEF Effect
<1> QED BY <1>2, <1>3 DEF Executed

(* With its first request, the only one, a read has none left.             *)
LEMMA LastRequest ==
  ASSUME NetTypeOK, NEW m \in net, net' = net \ {m}, NEW op, FirstTry(m.call, op)
  PROVE  Quiet(m.call)'
<1>1. \A n \in net : n.call = m.call => n = m
  BY SameRequest DEF FirstTry
<1> QED BY <1>1 DEF Quiet

(* The invariants of the sweep, when a request is done with: those of its  *)
(* pods that are gone stay gone, and a deletion of the sweep that succeeds *)
(* was that of its current pod.                                            *)
LEMMA SweepKept ==
  ASSUME IInv, NEW m \in net, NEW errs \in SUBSET (Errors \cup {NoError}), Effect(m, errs),
         \A s \in Reads : Gone(s) => Gone(s)',
         m.call = Cleaner /\ NoError \in errs /\ cleaner.cur # None
           /\ m.op = DeletePod(cleaner.cur) => Gone(cleaner.cur)'
  PROVE  Sweeping' /\ SweptClean'
<1>1. /\ net' \subseteq net /\ UNCHANGED <<read, cleaner>>
      /\ \/ retry'[Cleaner] = retry[Cleaner]
         \/ \E err \in errs : /\ m.call = Cleaner /\ m.op = DeletePod(cleaner.cur)
                              /\ AttemptEnded(Cleaner, err)
  BY Names DEF Effect, OpOf, readVars
<1>2. cleaner.cur # None => cleaner.cur \in Reads
  BY DEF IInv, TypeOK
<1>3. Sweeping'
  BY <1>1 DEF IInv, Sweeping, AttemptEnded
<1>4. SweptClean'
  BY <1>1, <1>2 DEF IInv, SweptClean, Settled, Returned, AttemptEnded
<1> QED BY <1>3, <1>4

LEMMA NotExecutedInv ==
  ASSUME IInv, NEW m \in net, Conflict(m) \/ Reject(m) PROVE IInv'
<1> DEFINE errs == {"AlreadyExists", "NotFound"} \cup Rejections
<1>1. errs \in SUBSET (Errors \cup {NoError}) /\ NoError \notin errs
  BY ErrorKinds
<1>2. Effect(m, errs) /\ pod' = pod
  <2>1. Outcome(m, errs) /\ pod' = pod
    BY DEF Conflict, Reject, Outcome
  <2> HIDE DEF errs
  <2> QED BY <1>1, <2>1, OutcomeEffect
<1> HIDE DEF errs
<1>3. /\ RetryTypeOK' /\ NetTypeOK' /\ net' \subseteq net /\ m.call \in Calls
      /\ trouble' \in [Reads -> BOOLEAN]
      /\ \A r \in Reads : trouble[r] => trouble'[r]
      /\ \A r \in Reads \ {m.call} : trouble'[r] = trouble[r]
      /\ \A c \in Calls \ {m.call} : retry'[c] = retry[c]
      /\ UNCHANGED <<readVars, cleaner, crashes>>
      /\ m.call \in Reads => trouble'[m.call]
      /\ \/ retry' = retry
         \/ \E err \in errs : err # NoError /\ AttemptEnded(m.call, err)
  BY <1>1, <1>2 DEF Effect
<1>4. TypeOK'
  BY <1>2, <1>3 DEF readVars, IInv, TypeOK
<1>5. ASSUME NEW r \in Reads PROVE ReadInv(r)'
  <2>1. CASE r # m.call
    BY <1>2, <1>3, <2>1, Names, OtherRead DEF readVars, IInv
  <2>2. CASE r = m.call
    BY <1>2, <1>3, <2>2
    DEF readVars, AttemptEnded, IInv, ReadInv, Framed, Requested, Untroubled, MadeOnce, Watched,
        Swept, NoPod, At, Returned
  <2> QED BY <2>1, <2>2
<1>6. Sweeping' /\ SweptClean'
  <2>1. \A s \in Reads : Gone(s) => Gone(s)'
    BY <1>2, <1>3 DEF Gone, NoPod
  <2> QED BY <1>1, <1>2, <2>1, SweepKept
<1> QED BY <1>4, <1>5, <1>6 DEF IInv

LEMMA CommitCreateInv ==
  ASSUME IInv, NEW m \in net, CommitCreate(m) PROVE IInv'
<1> DEFINE errs == {NoError} \cup CommitErrors
<1>1. PICK r \in Reads :
        /\ m.op = CreatePod(r) /\ NoPod(r)
        /\ pod' = [pod EXCEPT ![r] = "Pending"]
        /\ Effect(m, errs)
  BY ExecutedEffect DEF CommitCreate, NoPod
<1>2. errs \in SUBSET (Errors \cup {NoError})
  BY ErrorKinds
<1> HIDE DEF errs
<1>3. m.call = r
  BY <1>1 DEF IInv, ReadInv, Requested
<1>4. /\ pod' \in [Reads -> PodPhases \cup {"absent"}] /\ ~NoPod(r)'
      /\ \A s \in Reads \ {r} : pod'[s] = pod[s]
  BY <1>1 DEF IInv, TypeOK, PodPhases, NoPod
<1>5. /\ RetryTypeOK' /\ NetTypeOK' /\ net' \subseteq net
      /\ trouble' \in [Reads -> BOOLEAN]
      /\ trouble[r] => trouble'[r]
      /\ \A s \in Reads \ {r} : trouble'[s] = trouble[s]
      /\ \A c \in Calls \ {r} : retry'[c] = retry[c]
      /\ UNCHANGED <<readVars, cleaner, crashes>>
  BY <1>1, <1>3 DEF Effect
<1>6. \/ retry' = retry /\ trouble'[r]
      \/ \E err \in errs : /\ CreatePod(r) = OpOf(r) /\ AttemptEnded(r, err)
                           /\ net' = net \ {m}
                           /\ err # NoError => trouble'[r]
  BY <1>1, <1>3 DEF Effect
<1>7. TypeOK'
  BY <1>4, <1>5 DEF readVars, IInv, TypeOK
<1>8. CreatePod(r) = OpOf(r) => At(r, "create")
  BY Names DEF OpOf
<1>9. ~trouble'[r] => /\ At(r, "create") /\ ~trouble[r] /\ retry[r].pc = "call"
                      /\ retry'[r].pc = "returned" /\ retry'[r].lastErr = NoError
                      /\ Quiet(r)'
  <2>1. At(r, "create") /\ ~trouble[r] /\ retry[r].pc = "call" => FirstTry(m.call, CreatePod(r))
    BY <1>3 DEF IInv, ReadInv, Untroubled
  <2> QED BY <1>3, <1>5, <1>6, <1>8, <2>1, Types, LastRequest DEF AttemptEnded
<1>10. ASSUME NEW s \in Reads PROVE ReadInv(s)'
  <2>1. CASE s # r
    BY <1>3, <1>4, <1>5, <2>1, Names, OtherRead DEF readVars, IInv
  <2>2. CASE s = r
    <3>1. Framed(r)' /\ Requested(r)'
      BY <1>5, <1>6 DEF readVars, AttemptEnded, IInv, ReadInv, Framed, Requested, At
    <3>2. Untroubled(r)'
      BY <1>5, <1>9 DEF readVars, Untroubled, Changing, At, Returned
    <3>3. MadeOnce(r)'
      BY <1>5, <1>9, <3>1 DEF readVars, MadeOnce, Requested, Quiet, At, Returned
    <3>4. Watched(r)'
      BY <1>1, <1>5, <1>9 DEF readVars, IInv, ReadInv, Watched, Swept, NoPod, At, Returned, Terminal
    <3> QED BY <2>2, <3>1, <3>2, <3>3, <3>4 DEF ReadInv
  <2> QED BY <2>1, <2>2
<1>11. Sweeping' /\ SweptClean'
  <2>1. r \notin cleaner.orphans
    BY <1>3 DEF IInv, SweptClean, Settled
  <2>2. r \in cleaner.listed => trouble'[r]
    BY <1>1, <1>5 DEF IInv, ReadInv, MadeOnce
  <2>3. \A s \in Reads : Gone(s) => Gone(s)'
    BY <1>4, <1>5, <2>1, <2>2 DEF Gone, NoPod
  <2> QED BY <1>1, <1>2, <1>3, <2>3, Names, SweepKept
<1> QED BY <1>7, <1>10, <1>11 DEF IInv

LEMMA CommitDeleteInv ==
  ASSUME IInv, NEW m \in net, CommitDelete(m) PROVE IInv'
<1> DEFINE errs == {NoError} \cup CommitErrors
<1>1. PICK r \in Reads :
        /\ m.op = DeletePod(r) /\ pod' = [pod EXCEPT ![r] = "absent"]
        /\ Effect(m, errs)
  BY ExecutedEffect DEF CommitDelete
<1>2. errs \in SUBSET (Errors \cup {NoError})
  BY ErrorKinds
<1> HIDE DEF errs
<1>3. /\ pod' \in [Reads -> PodPhases \cup {"absent"}] /\ NoPod(r)'
      /\ \A s \in Reads \ {r} : pod'[s] = pod[s]
  BY <1>1 DEF IInv, TypeOK, NoPod
<1>4. /\ RetryTypeOK' /\ NetTypeOK' /\ net' \subseteq net /\ m.call \in Calls
      /\ trouble' \in [Reads -> BOOLEAN]
      /\ \A s \in Reads : trouble[s] => trouble'[s]
      /\ \A s \in Reads \ {m.call} : trouble'[s] = trouble[s]
      /\ \A c \in Calls \ {m.call} : retry'[c] = retry[c]
      /\ UNCHANGED <<readVars, cleaner, crashes>>
  BY <1>1, <1>2 DEF Effect
<1>5. m.call = r \/ (m.call = Cleaner /\ r \in cleaner.listed)
  BY <1>1, <1>4, Names DEF IInv, TypeOK, ReadInv, Requested, Sweeping
<1>6. TypeOK'
  BY <1>3, <1>4 DEF readVars, IInv, TypeOK
<1>7. ASSUME NEW s \in Reads PROVE ReadInv(s)'
  <2>1. CASE s # r
    BY <1>3, <1>4, <1>5, <2>1, Names, OtherRead DEF readVars, IInv
  <2>2. CASE m.call = r
    <3>1. \/ retry' = retry /\ trouble'[r]
          \/ \E err \in errs : /\ DeletePod(r) = OpOf(r) /\ AttemptEnded(r, err)
                               /\ net' = net \ {m}
                               /\ err # NoError => trouble'[r]
      BY <1>1, <2>2 DEF Effect
    <3>2. DeletePod(r) = OpOf(r) => At(r, "cleanup")
      BY Names DEF OpOf
    <3>3. ~trouble'[r] => /\ At(r, "cleanup") /\ ~trouble[r] /\ retry[r].pc = "call"
                          /\ retry'[r].pc = "returned" /\ retry'[r].lastErr = NoError
                          /\ Quiet(r)'
      <4>1. At(r, "cleanup") /\ ~trouble[r] /\ retry[r].pc = "call" => FirstTry(m.call, DeletePod(r))
        BY <2>2 DEF IInv, ReadInv, Untroubled
      <4> QED BY <2>2, <1>4, <3>1, <3>2, <4>1, Types, LastRequest DEF AttemptEnded
    <3>4. read[r].pc \in {"cleanup", "done", "lost"}
      BY <1>1, <2>2, Names DEF IInv, ReadInv, Requested
    <3>5. Framed(r)' /\ Requested(r)'
      BY <1>4, <2>2, <3>1 DEF readVars, AttemptEnded, IInv, ReadInv, Framed, Requested, At
    <3>6. Untroubled(r)'
      BY <1>3, <1>4, <3>3 DEF readVars, Untroubled, Changing, At, Returned
    <3>7. MadeOnce(r)' /\ Watched(r)'
      BY <1>4, <3>3, <3>4, <3>5 DEF readVars, MadeOnce, Watched, Requested, Quiet, At
    <3> QED BY <1>3, <1>4, <1>5, <2>1, <2>2, <3>5, <3>6, <3>7 DEF ReadInv
  <2>3. CASE s = r /\ m.call = Cleaner /\ r \in cleaner.listed
    BY <1>3, <1>4, <2>3, Names
    DEF readVars, IInv, ReadInv, Framed, Requested, Untroubled, MadeOnce, Watched, Swept,
        NoPod, Quiet, Changing, FirstTry, At, Returned
  <2> QED BY <1>5, <2>1, <2>2, <2>3
<1>8. Sweeping' /\ SweptClean'
  <2>1. \A s \in Reads : Gone(s) => Gone(s)'
    BY <1>3, <1>4 DEF Gone, NoPod
  <2>2. cleaner.cur # None /\ m.op = DeletePod(cleaner.cur) => cleaner.cur = r
    BY <1>1, Names DEF IInv, TypeOK
  <2>3. Gone(r)'
    BY <1>3 DEF Gone
  <2>4. cleaner' = cleaner
    BY <1>4
  <2>5. cleaner.cur # None /\ m.op = DeletePod(cleaner.cur) => Gone(cleaner.cur)'
    BY <2>2, <2>3, <2>4 DEF Gone
  <2> QED BY <1>1, <1>2, <2>1, <2>5, SweepKept
<1> QED BY <1>6, <1>7, <1>8 DEF IInv

LEMMA ServerInv ==
  ASSUME IInv, NEW m \in net, Server(m) PROVE IInv'
  BY NotExecutedInv, CommitCreateInv, CommitDeleteInv DEF Server

----------------------------------------------------------------------------
(* The sweep, and the end of the process.                                  *)

LEMMA CleanerListsInv ==
  ASSUME IInv, CleanerLists PROVE IInv'
<1>1. /\ cleaner.pc = "idle" /\ cleaner.listed = {} /\ cleaner.cur = None /\ cleaner.todo = {}
      /\ UNCHANGED <<retry, net, readVars, pod, trouble, crashes>>
  BY DEF CleanerLists, apiVars, IInv, Sweeping
<1>2. /\ cleaner' \in [pc : {"idle", "sweep", "done", "lost"}, listed : SUBSET Reads,
                       todo : SUBSET Reads, cur : Reads \cup {None}, failed : BOOLEAN,
                       orphans : SUBSET Reads]
      /\ cleaner'.cur = None
      /\ \/ /\ cleaner'.pc = "sweep" /\ cleaner'.listed = Pods /\ cleaner'.todo = Pods
            /\ cleaner'.orphans = Settled
         \/ /\ cleaner'.pc = "done" /\ cleaner'.listed = {} /\ cleaner'.todo = {}
            /\ cleaner'.failed /\ cleaner'.orphans = cleaner.orphans
  <2>1. Pods \in SUBSET Reads /\ Settled \in SUBSET Reads
    BY DEF Pods, Settled
  <2>2. CASE cleaner' = [cleaner EXCEPT !.pc = "sweep", !.listed = Pods, !.todo = Pods,
                                        !.orphans = Settled]
    BY <1>1, <2>1, <2>2 DEF IInv, TypeOK
  <2>3. CASE cleaner' = [cleaner EXCEPT !.pc = "done", !.failed = TRUE]
    BY <1>1, <2>3 DEF IInv, TypeOK
  <2> QED BY <2>2, <2>3 DEF CleanerLists
<1>3. TypeOK'
  BY <1>1, <1>2 DEF readVars, IInv, TypeOK, RetryTypeOK, NetTypeOK
<1>4. \A r \in cleaner'.listed : r \in Reads /\ ~NoPod(r)
  BY <1>2 DEF Pods, NoPod
<1>5. ASSUME NEW r \in Reads PROVE ReadInv(r)'
  <2>1. Framed(r)' /\ Requested(r)' /\ Untroubled(r)'
    BY <1>1 DEF readVars, IInv, ReadInv, Framed, Requested, Untroubled, NoPod, Quiet, Changing,
                FirstTry, At, Returned
  <2>2. MadeOnce(r)' /\ Watched(r)'
    BY <1>1, <1>4 DEF readVars, IInv, ReadInv, MadeOnce, Watched, Swept, NoPod, At, Returned
  <2> QED BY <2>1, <2>2 DEF ReadInv
<1>6. Sweeping'
  BY <1>1, <1>2 DEF IInv, Sweeping
<1>7. SweptClean'
  BY <1>1, <1>2 DEF readVars, IInv, SweptClean, Settled, Gone, NoPod, Pods
<1> QED BY <1>3, <1>5, <1>6, <1>7 DEF IInv

(* A step of the sweep proper: the reads do not notice it.                 *)
LEMMA SweepMoves ==
  ASSUME IInv, TypeOK', Sweeping', SweptClean',
         \A r \in Reads : retry'[r] = retry[r],
         cleaner'.listed = cleaner.listed,
         UNCHANGED <<readVars, pod, trouble>>,
         \A m \in net' : m \in net \/ (m.call = Cleaner /\ \E r \in Reads : m.op = DeletePod(r))
  PROVE  IInv'
<1>1. ASSUME NEW r \in Reads PROVE ReadInv(r)'
  BY Names, OtherRead DEF readVars, IInv
<1> QED BY <1>1 DEF IInv

LEMMA CleanerBeginsInv ==
  ASSUME IInv, NEW r \in Reads, CleanerBegins(r) PROVE IInv'
<1>1. /\ cleaner.pc = "sweep" /\ cleaner.cur = None /\ r \in cleaner.todo
      /\ UNCHANGED <<net, readVars, pod, trouble, crashes>>
  BY DEF CleanerBegins
<1>2. /\ cleaner'.pc = "sweep" /\ cleaner'.cur = r /\ cleaner'.todo = cleaner.todo \ {r}
      /\ cleaner'.listed = cleaner.listed /\ cleaner'.failed = cleaner.failed
      /\ cleaner'.orphans = cleaner.orphans
      /\ cleaner' \in [pc : {"idle", "sweep", "done", "lost"}, listed : SUBSET Reads,
                       todo : SUBSET Reads, cur : Reads \cup {None}, failed : BOOLEAN,
                       orphans : SUBSET Reads]
  BY DEF CleanerBegins, IInv, TypeOK
<1>3. /\ RetryTypeOK' /\ retry'[Cleaner].pc = "check"
      /\ \A c \in Reads : retry'[c] = retry[c]
  BY Types, Names, NewFrameEffect DEF CleanerBegins, RetryBegin
<1>4. TypeOK'
  BY <1>1, <1>2, <1>3 DEF readVars, IInv, TypeOK, NetTypeOK
<1>5. Sweeping'
  <2>1. r \in cleaner.listed /\ cleaner.todo \subseteq cleaner.listed
    BY <1>1 DEF IInv, Sweeping
  <2>2. \A m \in net' : m.call = Cleaner => \E s \in cleaner'.listed : m.op = DeletePod(s)
    BY <1>1, <1>2 DEF IInv, Sweeping
  <2> QED BY <1>2, <1>3, <2>1, <2>2, Names DEF Sweeping
<1>6. SweptClean'
  <2>1. cleaner'.orphans \subseteq Settled'
    BY <1>1, <1>2 DEF readVars, IInv, SweptClean, Settled
  <2>2. \A s \in Reads : Gone(s) => Gone(s)'
    BY <1>1, <1>2 DEF Gone, NoPod
  <2>3. ~Returned(Cleaner)'
    BY <1>3 DEF Returned
  <2> QED BY <1>1, <1>2, <2>1, <2>2, <2>3, Names DEF IInv, SweptClean
<1> QED BY <1>1, <1>2, <1>3, <1>4, <1>5, <1>6, SweepMoves

LEMMA CleanerDeletesInv ==
  ASSUME IInv, CleanerDeletes PROVE IInv'
<1>1. /\ cleaner.cur # None /\ cleaner.cur \in Reads /\ cleaner.cur \in cleaner.listed
      /\ UNCHANGED <<readVars, pod, trouble, cleaner, crashes>>
  BY DEF CleanerDeletes, IInv, TypeOK, Sweeping
<1>2. /\ RetryTypeOK' /\ NetTypeOK'
      /\ \A c \in Reads : retry'[c] = retry[c]
      /\ retry'[Cleaner].pc = "returned" => retry'[Cleaner].lastErr # NoError
      /\ retry'[Cleaner].pc = "backoff" => /\ retry'[Cleaner].lastErr # NoError
                                           /\ retry'[Cleaner].attempt < retryMaxAttempts
      /\ \A m \in net' : m \in net \/ (m.call = Cleaner /\ m.op = DeletePod(cleaner.cur))
  <2>1. CASE SendRequest(Cleaner, DeletePod(cleaner.cur), NoError)
    BY <1>1, <2>1, Types, Names, SendEffect
  <2>2. CASE AttemptFails(Cleaner, NetFaults)
    <3>1. NetFaults \in SUBSET (Errors \cup {NoError})
      BY ErrorKinds
    <3> QED BY <2>2, <3>1, Types, Names, AttemptFailsEffect DEF AttemptEnded
  <2>3. CASE BackoffElapsed(Cleaner) /\ UNCHANGED net
    <3>1. retry[Cleaner].pc = "backoff" => /\ retry[Cleaner].lastErr # NoError
                                           /\ retry[Cleaner].attempt < retryMaxAttempts
      BY DEF IInv, Sweeping
    <3>2. NoError \in Errors \cup {NoError}
      OBVIOUS
    <3> QED BY <2>3, <3>1, <3>2, Types, Names, LoopEffect DEF NetTypeOK
  <2> QED BY <2>1, <2>2, <2>3 DEF CleanerDeletes
<1>3. TypeOK'
  BY <1>1, <1>2 DEF readVars, IInv, TypeOK
<1>4. Sweeping'
  BY <1>1, <1>2 DEF IInv, Sweeping
<1>5. SweptClean'
  <2>1. cleaner'.orphans \subseteq Settled'
    BY <1>1, <1>2, Names DEF readVars, Settled, IInv, SweptClean
  <2>2. \A s \in Reads : Gone(s)' <=> Gone(s)
    BY <1>1 DEF Gone, NoPod
  <2> QED BY <1>1, <1>2, <2>1, <2>2 DEF IInv, SweptClean, Returned
<1> QED BY <1>1, <1>2, <1>3, <1>4, <1>5, SweepMoves

LEMMA CleanerDeletedInv ==
  ASSUME IInv, CleanerDeleted PROVE IInv'
<1>1. /\ cleaner.cur # None /\ Returned(Cleaner)
      /\ UNCHANGED <<net, readVars, pod, trouble, crashes>>
  BY DEF CleanerDeleted
<1>2. /\ cleaner'.pc = cleaner.pc /\ cleaner'.cur = None /\ cleaner'.todo = cleaner.todo
      /\ cleaner'.listed = cleaner.listed /\ cleaner'.orphans = cleaner.orphans
      /\ ~cleaner'.failed => ~cleaner.failed /\ retry[Cleaner].lastErr = NoError
      /\ cleaner' \in [pc : {"idle", "sweep", "done", "lost"}, listed : SUBSET Reads,
                       todo : SUBSET Reads, cur : Reads \cup {None}, failed : BOOLEAN,
                       orphans : SUBSET Reads]
  <2>1. cleaner.failed \in BOOLEAN /\ (retry[Cleaner].lastErr # NoError) \in BOOLEAN
    BY DEF IInv, TypeOK
  <2> QED BY <2>1 DEF CleanerDeleted, IInv, TypeOK
<1>3. /\ RetryTypeOK' /\ retry'[Cleaner].pc = "idle"
      /\ \A c \in Reads : retry'[c] = retry[c]
  BY Types, Names, NewFrameEffect DEF CleanerDeleted, RetryDone
<1>4. TypeOK'
  BY <1>1, <1>2, <1>3 DEF readVars, IInv, TypeOK, NetTypeOK
<1>5. Sweeping'
  BY <1>1, <1>2, <1>3 DEF IInv, Sweeping
<1>6. SweptClean'
  <2>1. cleaner'.orphans \subseteq Settled'
    BY <1>1, <1>2 DEF readVars, IInv, SweptClean, Settled
  <2>2. \A s \in Reads : Gone(s) => Gone(s)'
    BY <1>1, <1>2 DEF Gone, NoPod
  <2> QED BY <1>1, <1>2, <2>1, <2>2, Names DEF IInv, SweptClean
<1> QED BY <1>1, <1>2, <1>3, <1>4, <1>5, <1>6, SweepMoves

LEMMA CleanerEndsInv ==
  ASSUME IInv, CleanerEnds PROVE IInv'
<1>1. /\ cleaner.pc = "sweep" /\ cleaner.cur = None
      /\ UNCHANGED <<retry, net, readVars, pod, trouble, crashes>>
  BY DEF CleanerEnds, apiVars
<1>2. /\ cleaner.todo = {}
      /\ cleaner'.pc = "done" /\ cleaner'.cur = None /\ cleaner'.todo = {}
      /\ cleaner'.listed = cleaner.listed /\ cleaner'.failed = cleaner.failed
      /\ cleaner'.orphans = cleaner.orphans
      /\ cleaner' \in [pc : {"idle", "sweep", "done", "lost"}, listed : SUBSET Reads,
                       todo : SUBSET Reads, cur : Reads \cup {None}, failed : BOOLEAN,
                       orphans : SUBSET Reads]
  BY DEF CleanerEnds, IInv, TypeOK
<1>3. TypeOK'
  BY <1>1, <1>2 DEF readVars, IInv, TypeOK, RetryTypeOK, NetTypeOK
<1>4. Sweeping'
  BY <1>1, <1>2 DEF IInv, Sweeping
<1>5. SweptClean'
  <2>1. cleaner'.orphans \subseteq Settled'
    BY <1>1, <1>2 DEF readVars, IInv, SweptClean, Settled
  <2>2. \A s \in Reads : Gone(s) => Gone(s)'
    BY <1>1, <1>2 DEF Gone, NoPod
  <2> QED BY <1>1, <1>2, <2>1, <2>2, Names DEF IInv, SweptClean
<1> QED BY <1>1, <1>2, <1>3, <1>4, <1>5, SweepMoves

LEMMA CrashInv ==
  ASSUME IInv, Crash PROVE IInv'
<1>1. UNCHANGED <<net, ctxErr, cleanErr, result, pod, trouble>>
  BY DEF Crash
<1>2. /\ read' \in [Reads -> [pc : ReadPc, seen : PodPhases \cup {"absent"}]]
      /\ \A r \in Reads : \/ read[r].pc \in {"idle", "done"} /\ read'[r] = read[r]
                          \/ read[r].pc \notin {"idle", "done"} /\ read'[r].pc = "lost"
  BY DEF Crash, IInv, TypeOK, ReadPc
<1>3. RetryTypeOK' /\ \A c \in Calls : retry'[c].pc = "idle"
  <2>1. NewFrame("idle") \in Frame /\ NewFrame("idle").pc = "idle"
    BY RetryAssumption DEF NewFrame, Frame, NoError
  <2> QED BY <2>1 DEF Crash, RetryTypeOK
<1>4. /\ cleaner' \in [pc : {"idle", "sweep", "done", "lost"}, listed : SUBSET Reads,
                       todo : SUBSET Reads, cur : Reads \cup {None}, failed : BOOLEAN,
                       orphans : SUBSET Reads]
      /\ cleaner'.listed = cleaner.listed /\ cleaner'.orphans = cleaner.orphans
      /\ cleaner'.failed = cleaner.failed /\ cleaner'.cur = None /\ cleaner'.todo = {}
      /\ cleaner'.pc \in {cleaner.pc, "lost"} /\ cleaner'.pc # "sweep"
  BY DEF Crash, IInv, TypeOK, Sweeping
<1>5. TypeOK'
  <2>1. crashes' \in 0 .. MaxCrashes
    BY ReadAssumption DEF Crash, IInv, TypeOK, ReadAssumption
  <2> QED BY <1>1, <1>2, <1>3, <1>4, <2>1 DEF IInv, TypeOK, NetTypeOK
<1>6. ASSUME NEW r \in Reads PROVE ReadInv(r)'
  BY <1>1, <1>2, <1>3, <1>4, Names
  DEF IInv, ReadInv, Framed, Requested, Untroubled, MadeOnce, Watched, Swept,
      NoPod, Quiet, Changing, FirstTry, At, Returned
<1>7. Sweeping'
  BY <1>1, <1>3, <1>4, Names DEF IInv, Sweeping
<1>8. SweptClean'
  <2>1. cleaner'.orphans \subseteq Settled'
    BY <1>1, <1>2, <1>4 DEF IInv, SweptClean, Settled
  <2>2. \A s \in Reads : Gone(s) => Gone(s)'
    BY <1>1, <1>4 DEF Gone, NoPod
  <2> QED BY <1>1, <1>4, <2>1, <2>2, Names DEF IInv, SweptClean, Sweeping
<1> QED BY <1>5, <1>6, <1>7, <1>8 DEF IInv

LEMMA NextInv ==
  ASSUME IInv, [Next]_vars PROVE IInv'
<1>1. ASSUME NEW r \in Reads,
             Invoke(r) \/ ReadStep(r) \/ CleanupTimesOut(r) \/ ConnectionBreaks(r)
               \/ Answered(r) \/ Cancel(r) \/ PodMoves(r)
      PROVE  IInv'
  BY <1>1, RefuseInv, StartInv, ReadStepInv, CancelInv, PodMovesInv DEF Invoke
<1>2. CASE CleanerLists \/ CleanerStep
  BY <1>2, CleanerListsInv, CleanerBeginsInv, CleanerDeletesInv, CleanerDeletedInv, CleanerEndsInv
  DEF CleanerStep
<1>3. CASE UNCHANGED vars
  <2>1. /\ UNCHANGED <<retry, net, read, ctxErr, cleanErr, result, pod, trouble, cleaner, crashes>>
    BY <1>3 DEF vars, apiVars, readVars
  <2>2. TypeOK'
    BY <2>1 DEF IInv, TypeOK, RetryTypeOK, NetTypeOK
  <2>3. ASSUME NEW r \in Reads PROVE ReadInv(r)'
    BY <2>1, OtherRead DEF IInv
  <2>4. Sweeping' /\ SweptClean'
    BY <2>1 DEF IInv, Sweeping, SweptClean, Settled, Gone, NoPod, Returned
  <2> QED BY <2>2, <2>3, <2>4 DEF IInv
<1> QED BY <1>1, <1>2, <1>3, ServerInv, CrashInv DEF Next

LEMMA SpecInv == Spec => []IInv
<1>1. Init => IInv
  BY InitInv
<1>2. IInv /\ [Next]_vars => IInv'
  BY NextInv
<1> QED BY <1>1, <1>2, PTL DEF Spec

----------------------------------------------------------------------------
(* The results.                                                            *)

(* Of the steps of the program, only one that reads the logs of a pod that *)
(* is there and did not fail, for all the status check saw, hands content  *)
(* to the caller.                                                          *)
LEMMA ContentFromLogs ==
  ASSUME IInv, Next, NEW r \in Reads, result[r] # "content", result'[r] = "content"
  PROVE  At(r, "logs") /\ read[r].seen # "Failed" /\ pod[r] \in PodPhases
<1>1. result \in [Reads -> Errors \cup {None, "Refused", "PodFailed", "content"}]
  BY DEF IInv, TypeOK
<1>2. "content" \notin Errors
  BY DEF Errors, ApiErrors, NetErrors
<1>3. ASSUME NEW s \in Reads, NEW res, Return(s, res), res # "content" PROVE FALSE
  BY <1>1, <1>3 DEF Return
<1>4. ASSUME NEW s \in Reads, Invoke(s) PROVE FALSE
  BY <1>1, <1>4 DEF Invoke, Refuse, Start
<1>5. ASSUME NEW s \in Reads, CreateReturnsError(s) PROVE FALSE
  <2>1. retry[s].lastErr # "content"
    BY <1>2, <1>5, Types, Names, FrameType DEF CreateReturnsError, NoError
  <2> QED BY <1>1, <1>5, <2>1 DEF CreateReturnsError
<1>6. ASSUME NEW s \in Reads, PollTimesOut(s) \/ PollFails(s) PROVE FALSE
  <2>1. PICK err : Return(s, err) /\ err # "content"
    BY <1>2, <1>6, Types, GetErrorsType, ErrorKinds DEF PollTimesOut, PollFails, PollEnds, NoError
  <2> QED BY <1>3, <2>1
<1>7. ASSUME NEW s \in Reads, StatusReturns(s) PROVE FALSE
  <2>1. retry[s].lastErr # "content"
    BY <1>2, Types, Names, FrameType, Zenon DEF NoError
  <2> QED BY <1>3, <1>7, <2>1 DEF StatusReturns
<1>8. ASSUME NEW s \in Reads, LogsAnswered(s) \/ LogsInterrupted(s)
      PROVE  At(r, "logs") /\ read[r].seen # "Failed" /\ pod[r] \in PodPhases
  <2>1. PICK res : LogsReturn(s, res) /\ (res = "content" => pod[s] \in PodPhases)
    BY <1>2, <1>8, Types, GetErrorsType DEF LogsAnswered, LogsInterrupted, NoError
  <2>2. s = r
    BY <1>1, <2>1 DEF LogsReturn, Return
  <2> QED BY <1>3, <2>1, <2>2 DEF LogsReturn
<1>9. ASSUME NEW s \in Reads,
             ReadStep(s) \/ CleanupTimesOut(s) \/ ConnectionBreaks(s) \/ Answered(s)
               \/ Cancel(s) \/ PodMoves(s)
      PROVE  At(r, "logs") /\ read[r].seen # "Failed" /\ pod[r] \in PodPhases
  <2>1. \/ UNCHANGED result
        \/ CreateReturnsError(s) \/ PollTimesOut(s) \/ PollFails(s) \/ StatusReturns(s)
        \/ LogsAnswered(s) \/ LogsInterrupted(s)
    BY <1>9
    DEF ReadStep, Answered, readVars, SendCreate, CreateTimesOut, CreateReturnsPod, PollSeesEnd,
        StatusCalled, StatusInterrupted, SendDelete, DeleteTimesOut, CleanupReturns, LoopGoesOn,
        CleanupTimesOut, ConnectionBreaks, StatusAnswered, Cancel, PodMoves
  <2> QED BY <1>5, <1>6, <1>7, <1>8, <2>1
<1>10. CASE CleanerLists \/ CleanerStep \/ (\E m \in net : Server(m)) \/ Crash
  BY <1>10
  DEF readVars, CleanerLists, CleanerStep, CleanerBegins, CleanerDeletes, CleanerDeleted,
      CleanerEnds, Server, CommitCreate, CommitDelete, Conflict, Reject, Executed,
      Outcome, Crash
<1> QED BY <1>4, <1>9, <1>10 DEF Next

(***************************************************************************)
(* The variables keep their types.                                         *)
(***************************************************************************)
THEOREM SpecTypeOK == Spec => []TypeOK
<1>1. IInv => TypeOK
  BY DEF IInv
<1> QED BY <1>1, SpecInv, PTL

(***************************************************************************)
(* A read whose requests to create and to delete its pod all clearly       *)
(* succeeded leaves neither pod nor request behind, however it ended, and  *)
(* whatever other reads, sweeps and kills do meanwhile.                    *)
(***************************************************************************)
THEOREM SpecNoOrphanWithoutTrouble == Spec => []NoOrphanWithoutTrouble
<1>1. IInv => NoOrphanWithoutTrouble
  BY DEF IInv, ReadInv, Untroubled, NoPod, Quiet, Changing, At, NoOrphanWithoutTrouble
<1> QED BY <1>1, SpecInv, PTL

(***************************************************************************)
(* The tool returns content only from the logs of a pod that succeeded,    *)
(* although the status and the logs are separate requests; but for a pod   *)
(* that a sweep deleted and a late create of the read's made anew.         *)
(***************************************************************************)
THEOREM SpecContentOnlyFromSucceeded == Spec => ContentOnlyFromSucceeded
<1> DEFINE A == \A r \in Reads : result[r] # "content" /\ result'[r] = "content"
                  => pod[r] = "Succeeded" \/ (trouble[r] /\ r \in cleaner.listed)
<1>1. ASSUME IInv, Next, NEW r \in Reads, result[r] # "content", result'[r] = "content"
      PROVE  pod[r] = "Succeeded" \/ (trouble[r] /\ r \in cleaner.listed)
  <2>1. At(r, "logs") /\ read[r].seen # "Failed" /\ pod[r] \in PodPhases
    BY <1>1, ContentFromLogs
  <2> QED BY <1>1, <2>1 DEF IInv, ReadInv, Watched, Swept, NoPod, At, Terminal, PodPhases
<1>2. IInv /\ [Next]_vars => [A]_vars
  BY <1>1
<1> QED BY <1>2, SpecInv, PTL DEF Spec, ContentOnlyFromSucceeded

(***************************************************************************)
(* When a sweep reports success, every pod it listed is gone, unless a     *)
(* request of its own read brought it back.                                *)
(***************************************************************************)
THEOREM SpecSweepReportIsTrue == Spec => []SweepReportIsTrue
<1>1. IInv => SweepReportIsTrue
  BY Names DEF IInv, TypeOK, Sweeping, SweptClean, Gone, NoPod, SweepReportIsTrue
<1> QED BY <1>1, SpecInv, PTL

(***************************************************************************)
(* When a sweep reports success, no pod is left of any read that was over  *)
(* and had nothing on its way before the sweep began: nobody can bring it  *)
(* back, whatever was lost or repeated earlier.                            *)
(***************************************************************************)
THEOREM SpecSweepReclaimsOrphans == Spec => []SweepReclaimsOrphans
<1>1. IInv => SweepReclaimsOrphans
  BY Names DEF IInv, TypeOK, Sweeping, SweptClean, Gone, NoPod, SweepReclaimsOrphans
<1> QED BY <1>1, SpecInv, PTL
=====================================================================================
