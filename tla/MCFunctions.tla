-------------------------------- MODULE MCFunctions --------------------------------
(***************************************************************************)
(* The functions of the server that change no state, each over every input *)
(* of a small size, against a definition that says what they are for.  The *)
(* variable is an input of one of them; nothing changes it.                *)
(***************************************************************************)
EXTENDS ConditionPhase, ArtifactText, Manifests, FiniteSetsExt

CONSTANTS
  MaxConditions,  \* length of a list of conditions
  MaxSegments,    \* of a path
  MaxChars,       \* of a text
  MaxCode,        \* of a program, in lines
  MaxReplicas

ASSUME FunctionsAssumption ==
  {MaxConditions, MaxSegments, MaxChars, MaxCode, MaxReplicas} \subseteq Nat

VARIABLE input

Types      == {"Running", "Failed", Absent, Malformed}
Elements   == {Condition(t, s) : t \in Types, s \in {"True", "False", Absent, Malformed}}
                \cup {NoMap}
Conditions == {NoList(Absent), NoList(Malformed)}
                \cup {List(items) : items \in SeqOf(Elements, MaxConditions)}

Segments == {"", ".", "..", "mnt", "data", UnsafeName}
Paths    == {Path(rooted, segs) : rooted \in BOOLEAN, segs \in SeqOf(Segments, MaxSegments)}
Mounts   == {Path(TRUE, segs) :
               segs \in {<<>>, <<"mnt">>, <<"mnt", "data">>, <<"mnt", "", "data", "..", "">>}}

Files == SeqOf({"a", "\n"}, MaxChars)

\* A job that is submitted: its input, the environment and the client's namespace.
Code    == SeqOf({"CPPEOF", "CPPEOF_1", "x", "$(MOUNT_PATH)", "$$"}, MaxCode) \ {<<>>}
Submits == [namespace : {"", "default", "team"}, replicas : 1 .. MaxReplicas,
            language : {"", "python", "cpp", "c++"}, code : Code, client : {"default", "own"}]

\* A start of the client: options, environment, and the namespace of each context of
\* the kubeconfig file, which are those of the current one and one more.
Contexts == {"", "c1", "c2"}
Starts   == [option : Contexts, env : Contexts, current : Contexts,
             ns1 : {"", "n1"}, ns2 : {"", "n2"}]

Init == \/ \E c \in Conditions : input = [fn |-> "conditions", conditions |-> c]
        \/ \E p \in Paths : input = [fn |-> "path", path |-> p]
        \/ \E f \in Files : input = [fn |-> "file", file |-> f]
        \/ \E s \in Submits : input = [fn |-> "submit", submit |-> s]
        \/ \E s \in Starts : input = [fn |-> "start", start |-> s]

Next == UNCHANGED input
Spec == Init /\ [][Next]_input
----------------------------------------------------------------------------
(***************************************************************************)
(* "It returns the type of the last condition with status True", and an    *)
(* error only when a malformed field comes after the last such condition:  *)
(* stated without the scan, by the set of indices that decide.             *)
(***************************************************************************)
IsTrue(c)   == c.map /\ c.status = "True" /\ c.type \notin {Absent, Malformed}
IsBroken(c) == c.map /\ (c.status = Malformed \/ (c.status = "True" /\ c.type = Malformed))

LastTrueDecides == input.fn = "conditions" =>
  LET items   == input.conditions.items
      decides == {i \in DOMAIN items : IsTrue(items[i]) \/ IsBroken(items[i])}
      phase   == extractConditionPhase(input.conditions)
  IN  IF input.conditions.list = Malformed THEN phase = Error
      ELSE IF decides = {} THEN phase = "Pending"
      ELSE LET last == items[Max(decides)]
           IN  phase = IF IsTrue(last) THEN last.type ELSE Error

(***************************************************************************)
(* In a tree without symbolic links, a path is accepted when the file that *)
(* head opens by walking it, name by name, lies in the directory of the    *)
(* mount, and only then: the pod gets the path as it was given, not as it  *)
(* was cleaned for the check.  A name of the path counts when no later     *)
(* ".." takes it back.  (With the root mounted, nothing below it is        *)
(* accepted.)  The check reads the path and not the volume: where a link   *)
(* leads, head finds out and validateArtifactPath does not, and of such    *)
(* trees nothing is claimed.                                               *)
(***************************************************************************)
IsName(seg)  == seg \notin {"", ".", ".."}
Counts(segs) ==
  {i \in DOMAIN segs : IsName(segs[i]) /\ \A j \in i .. Len(segs) :
     Cardinality({k \in i + 1 .. j : segs[k] = ".."})
       <= Cardinality({k \in i + 1 .. j : IsName(segs[k])})}
FileOf(path) ==
  LET names  == Counts(path.segs)
      Nth(n) == CHOOSE i \in names : Cardinality({j \in names : j <= i}) = n
  IN  [n \in 1 .. Cardinality(names) |-> path.segs[Nth(n)]]

AcceptedIsInsideUnlessLinked == input.fn = "path" => \A mount \in Mounts :
  validateArtifactPath(input.path, mount) <=>
    /\ input.path.rooted
    /\ UnsafeName \notin Range(input.path.segs)
    /\ IF FileOf(mount) = <<>> THEN FileOf(input.path) = <<>>
       ELSE IsPrefix(FileOf(mount), FileOf(input.path))

(***************************************************************************)
(* Lines is "the actual number of lines returned": as many as the content  *)
(* has, and unless the log limit cuts the content off, as many as the file *)
(* has, up to the number asked for.                                        *)
(***************************************************************************)
LineStarts(s) == {i \in DOMAIN s : i = 1 \/ s[i - 1] = "\n"}

LinesAreCounted == input.fn = "file" =>
  \A asked \in 0 .. MaxChars, maxLogBytes \in 0 .. MaxChars :
    LET printed == HeadOf(input.file, Lines(asked))
        content == getPodLogs(printed, maxLogBytes)
        inFile  == Cardinality(LineStarts(input.file))
    IN  /\ countLines(content) = Cardinality(LineStarts(content))
        /\ countLines(content) <= Lines(asked)
        /\ content = printed => countLines(content) = Min({inFile, Lines(asked)})

----------------------------------------------------------------------------
Env(start)    == [key \in {"KUBECONFIG", "KUBE_CONTEXT", "PVC_NAME", "PVC_MOUNT_PATH"} |->
                    IF key = "KUBE_CONTEXT" THEN start.env ELSE ""]
Kubeconfig(s) == [path \in {"~/.kube/config"} |->
                    [current |-> s.current,
                     namespaces |-> [c \in {"c1", "c2"} |-> IF c = "c1" THEN s.ns1 ELSE s.ns2]]]

(***************************************************************************)
(* The client works in the namespace of the context it connects with, and  *)
(* reports that context; a choice made by option or environment is not     *)
(* disturbed by what the file calls current.                               *)
(***************************************************************************)
ClientIsConsistent == input.fn = "start" =>
  LET Client(start) == NewClient([kubeconfig |-> "", context |-> start.option], Env(start),
                                 Kubeconfig(start))
      start  == input.start
      client == Client(start)
  IN  /\ client # NoClient =>
           /\ client.server = <<"~/.kube/config", client.context>>
           /\ client.namespace = OrElse(IF client.context = "c1" THEN start.ns1 ELSE start.ns2,
                                        "default")
      /\ start.option # "" \/ start.env # "" =>
           \A other \in Contexts : client = Client([start EXCEPT !.current = other])
      /\ start.option # "" =>
           \A other \in Contexts : client = Client([start EXCEPT !.env = other])

Config    == DefaultServerConfig(Env([env |-> ""]))
Client    == [NoClient EXCEPT !.namespace = input.submit.client]
JobConfig == SubmitConfig(Client, Config, input.submit)

(***************************************************************************)
(* "A heredoc delimiter that does not appear on its own line in the given  *)
(* code", although it is chosen before the kubelet expands the arguments:  *)
(* what is run is every line that was submitted, as it is expanded with    *)
(* the mount path that the server was configured with, and no line fewer   *)
(* or more; sh runs exactly the two commands after it.                     *)
(***************************************************************************)
CodeArrivesAsExpanded == input.fn = "submit" =>
  \A job \in BuildMPIJob(JobConfig) :
    /\ Runs(job).program =
         ExpandedLines(input.submit.code, [MOUNT_PATH |-> Config.PVCMountPath])
    /\ Runs(job).rest = IF job.launcher.shell THEN <<"mpicxx", "mpirun">> ELSE <<>>

(***************************************************************************)
(* mpirun is asked for as many processes as the workers have slots, in     *)
(* either language: with more it would refuse to start.                    *)
(***************************************************************************)
RanksFitTheSlots == input.fn = "submit" =>
  \A job \in BuildMPIJob(JobConfig) :
    job.launcher.ranks = job.workers * job.slotsPerWorker

(***************************************************************************)
(* "Each pod receives a unique JOB_COMPLETION_INDEX": the pods of a batch  *)
(* are as many as were asked for, all at once, and no two of them write    *)
(* below the same index.                                                   *)
(***************************************************************************)
EveryReplicaHasItsIndex == input.fn = "submit" =>
  LET jobset == BuildJobSet(JobConfig)
      pods   == PodsOf(jobset)
  IN  /\ jobset.completionMode = "Indexed"
      /\ Cardinality(pods) = input.submit.replicas
      /\ jobset.jobs * jobset.parallelism = Cardinality(pods)
      /\ \A p, q \in pods : JobCompletionIndex(p) = JobCompletionIndex(q) => p = q

(***************************************************************************)
(* read_artifact_head finds a job's results, in the claim and at the path  *)
(* the job wrote them, if the job ran in the namespace of the client; of a *)
(* job of another namespace it reads another claim.                        *)
(***************************************************************************)
ResultsAreReadable == input.fn = "submit" =>
  LET reader == ReadArtifactHead(Client, ReaderConfig(Client, Config))
  IN  \A job \in BuildMPIJob(JobConfig) \cup {BuildJobSet(JobConfig), BuildReducerJob(JobConfig)} :
        Storage(job) = Storage(reader) <=> JobConfig.Namespace = Client.namespace
=====================================================================================
