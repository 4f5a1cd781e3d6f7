------------------------------- MODULE FunctionsProofs -------------------------------
(***************************************************************************)
(* Theorems about the functions of the server, over inputs of any size:    *)
(* the bounds of MCFunctions are constants, and the lemmas do not mention  *)
(* them.                                                                   *)
(***************************************************************************)
EXTENDS MCFunctions, ConditionPhaseProofs, FiniteSetTheorems

(* The input never changes, so it is always one of those of Init.          *)
LEMMA InputStays == Spec => []Init
<1>1. Init /\ [Next]_input => Init'
  <2>1. Init /\ input' = input => Init'
    BY Zenon DEF Init
  <2> QED BY <2>1 DEF Next
<1> QED BY <1>1, PTL DEF Spec

LEMMA SequenceOfSeqOf ==
  ASSUME NEW T, NEW S \in SUBSET T, NEW n \in Nat, NEW s \in SeqOf(S, n)
  PROVE  s \in Seq(T) /\ Len(s) \in Nat /\ DOMAIN s = 1 .. Len(s)
<1>1. PICK m \in 0 .. n : s \in [1 .. m -> S]
  BY DEF SeqOf
<1>2. m \in Nat /\ s \in [1 .. m -> T]
  BY <1>1
<1> QED BY <1>2

LEMMA InputOf ==
  ASSUME Init
  PROVE  /\ input.fn = "conditions" => input.conditions \in Conditions
         /\ input.fn = "path"       => input.path \in Paths
         /\ input.fn = "file"       => input.file \in Files
         /\ input.fn = "submit"     => input.submit \in Submits
         /\ input.fn = "start"      => input.start \in Starts
<1>1. CASE \E c \in Conditions : input = [fn |-> "conditions", conditions |-> c]
  BY <1>1
<1>2. CASE \E p \in Paths : input = [fn |-> "path", path |-> p]
  BY <1>2
<1>3. CASE \E f \in Files : input = [fn |-> "file", file |-> f]
  BY <1>3
<1>4. CASE \E s \in Submits : input = [fn |-> "submit", submit |-> s]
  BY <1>4
<1>5. CASE \E s \in Starts : input = [fn |-> "start", start |-> s]
  BY <1>5
<1> QED BY <1>1, <1>2, <1>3, <1>4, <1>5, Zenon DEF Init

----------------------------------------------------------------------------
(* The here-document.  HasLine takes the lines apart as the code does: no  *)
(* line escapes it.                                                        *)
LEMMA NoLineEscapes ==
  ASSUME NEW S, NEW code \in Seq(S), NEW delimiter, ~HasLine(code, delimiter)
  PROVE  \A i \in 1 .. Len(code) : code[i] # delimiter
<1> SUFFICES ASSUME NEW i \in 1 .. Len(code), code[i] = delimiter PROVE FALSE
  OBVIOUS
<1>1. CASE Len(code) = 1
  BY <1>1 DEF HasLine
<1>2. CASE Len(code) > 1
  BY <1>2 DEF HasLine, Last
<1>3. Len(code) = 1 \/ Len(code) > 1
  <2>1. \A n \in Nat : \A k \in 1 .. n : n = 1 \/ n > 1
    OBVIOUS
  <2>2. Len(code) \in Nat
    OBVIOUS
  <2> QED BY <2>1, <2>2, Zenon
<1> QED BY <1>1, <1>2, <1>3

LEMMA DelimiterIsNoLine ==
  ASSUME NEW code, NEW d \in uniqueHeredocDelimiter(code)
  PROVE  ~HasLine(code, d)
  BY DEF uniqueHeredocDelimiter

(* A program and what the builder puts after it.                           *)
LEMMA ScriptOf ==
  ASSUME NEW S, NEW program \in Seq(S), NEW d \in S, {"mpicxx", "mpirun"} \subseteq S,
         NEW text, text = program \o <<d, "mpicxx", "mpirun">>,
         NEW n, n = Len(program)
  PROVE  /\ n \in Nat /\ Len(text) = n + 3 /\ DOMAIN text = 1 .. n + 3
         /\ \A i \in 1 .. n : text[i] = program[i]
         /\ text[n + 1] = d /\ text[n + 2] = "mpicxx" /\ text[n + 3] = "mpirun"
         /\ text \in Seq(S) /\ text = [i \in 1 .. n + 3 |-> text[i]]
<1>1. /\ n \in Nat /\ Len(text) = n + 3 /\ DOMAIN text = 1 .. n + 3
      /\ \A i \in 1 .. n : text[i] = program[i]
      /\ text[n + 1] = d /\ text[n + 2] = "mpicxx" /\ text[n + 3] = "mpirun"
      /\ text \in Seq(S)
  OBVIOUS
<1>2. ASSUME text \in Seq(S), Len(text) = n + 3 PROVE text = [i \in 1 .. n + 3 |-> text[i]]
  <2>1. \A s \in Seq(S) : s = [i \in 1 .. Len(s) |-> s[i]]
    OBVIOUS
  <2> QED BY <1>2, <2>1, Zenon
<1> QED BY <1>1, <1>2

(* sh finds the delimiter right after the program, and nowhere before.     *)
LEMMA HereDocumentIsTheProgram ==
  ASSUME NEW S, NEW program \in Seq(S), NEW d \in S,
         \A i \in 1 .. Len(program) : program[i] # d,
         {"mpicxx", "mpirun"} \subseteq S
  PROVE  HereDocument(program \o <<d, "mpicxx", "mpirun">>, d)
           = [program |-> program, rest |-> <<"mpicxx", "mpirun">>]
<1> DEFINE text == program \o <<d, "mpicxx", "mpirun">>
           n    == Len(program)
<1>1. /\ n \in Nat /\ Len(text) = n + 3 /\ DOMAIN text = 1 .. n + 3
      /\ \A i \in 1 .. n : text[i] = program[i]
      /\ text[n + 1] = d /\ text[n + 2] = "mpicxx" /\ text[n + 3] = "mpirun"
      /\ text \in Seq(S)
  BY ScriptOf
<1>2. \A i \in 1 .. n : text[i] # d
  BY <1>1
<1> DEFINE At(i) == text[i] = d /\ \A j \in 1 .. i - 1 : text[j] # d
           at == CHOOSE i \in DOMAIN text : At(i)
<1>3. n + 1 \in DOMAIN text /\ At(n + 1)
  BY <1>1, <1>2
<1>4. ASSUME NEW i \in DOMAIN text, At(i) PROVE i = n + 1
  <2>1. i \in 1 .. n \/ i = n + 1 \/ n + 1 \in 1 .. i - 1
    BY <1>1
  <2> QED BY <1>1, <1>2, <1>4, <2>1
<1>5. at = n + 1
  <2> HIDE DEF At, text, n
  <2> QED BY <1>3, <1>4
<1>6. HereDocument(text, d)
        = [program |-> SubSeq(text, 1, n), rest |-> SubSeq(text, n + 2, n + 3)]
  <2>1. HereDocument(text, d) =
          [program |-> SubSeq(text, 1, at - 1), rest |-> SubSeq(text, at + 1, Len(text))]
    BY Zenon DEF HereDocument
  <2> HIDE DEF at, text, n
  <2>2. at - 1 = n /\ at + 1 = n + 2
    BY <1>1, <1>5
  <2> QED BY <1>1, <2>1, <2>2
<1>7. SubSeq(text, 1, n) = program
  <2> HIDE DEF text
  <2> QED BY <1>1
<1>8. SubSeq(text, n + 2, n + 3) = <<"mpicxx", "mpirun">>
  <2> HIDE DEF text, n
  <2> DEFINE rest == SubSeq(text, n + 2, n + 3)
  <2>1. rest \in Seq(S) /\ Len(rest) = 2
    BY <1>1
  <2>2. rest[1] = text[n + 2] /\ rest[2] = text[n + 3]
    BY <1>1
  <2> HIDE DEF rest
  <2>3. rest = <<rest[1], rest[2]>>
    BY <2>1
  <2> QED BY <1>1, <2>2, <2>3 DEF rest
<1> QED BY <1>6, <1>7, <1>8

(* A delimiter is not changed by the expansion, and no other line becomes  *)
(* one by it: the two values it puts into a line are no delimiters.        *)
LEMMA ExpansionKeepsDelimiters ==
  ASSUME NEW env, env.MOUNT_PATH = "/mnt/data",
         NEW d \in RandomDelimiters \cup {"CPPEOF"}
  PROVE  /\ Expanded(d, env) = d
         /\ \A line : line # d => Expanded(line, env) # d
         /\ Expanded("mpicxx", env) = "mpicxx" /\ Expanded("mpirun", env) = "mpirun"
<1>1. d \notin {"$(MOUNT_PATH)", "$$", "$", "/mnt/data"}
  BY DelimitersAssumption
<1> QED BY <1>1 DEF Expanded

LEMMA ExpandedScript ==
  ASSUME NEW S, NEW code \in Seq(S), NEW env, NEW d \in S,
         {"mpicxx", "mpirun", "$", env.MOUNT_PATH} \subseteq S,
         Expanded(d, env) = d,
         Expanded("mpicxx", env) = "mpicxx", Expanded("mpirun", env) = "mpirun"
  PROVE  /\ ExpandedLines(code, env) \in Seq(S)
         /\ Len(ExpandedLines(code, env)) = Len(code)
         /\ ExpandedLines(code \o <<d, "mpicxx", "mpirun">>, env)
              = ExpandedLines(code, env) \o <<d, "mpicxx", "mpirun">>
<1> DEFINE tail == <<d, "mpicxx", "mpirun">>
           text == code \o tail
           n    == Len(code)
           program == ExpandedLines(code, env)
<1>1. n \in Nat /\ DOMAIN code = 1 .. n /\ \A i \in 1 .. n : code[i] \in S
  OBVIOUS
<1>2. \A line \in S : Expanded(line, env) \in S
  BY DEF Expanded
<1>3. program = [i \in 1 .. n |-> Expanded(code[i], env)]
  BY <1>1, Zenon DEF ExpandedLines
<1>4. program \in Seq(S) /\ Len(program) = n
  <2> HIDE DEF n, program
  <2> QED BY <1>1, <1>2, <1>3
<1>5. /\ DOMAIN text = 1 .. n + 3
      /\ \A i \in 1 .. n : text[i] = code[i]
      /\ text[n + 1] = d /\ text[n + 2] = "mpicxx" /\ text[n + 3] = "mpirun"
  BY ScriptOf
<1>6. ExpandedLines(text, env) = [i \in 1 .. n + 3 |-> Expanded(text[i], env)]
  <2> HIDE DEF text, n
  <2> QED BY <1>5, Zenon DEF ExpandedLines
<1>7. /\ program \o tail = [i \in 1 .. n + 3 |-> (program \o tail)[i]]
      /\ \A i \in 1 .. n : (program \o tail)[i] = program[i]
      /\ (program \o tail)[n + 1] = d /\ (program \o tail)[n + 2] = "mpicxx"
      /\ (program \o tail)[n + 3] = "mpirun"
  <2> DEFINE both == program \o tail
  <2> HIDE DEF program, n
  <2>1. both = program \o <<d, "mpicxx", "mpirun">>
    OBVIOUS
  <2> HIDE DEF both
  <2>2. /\ \A i \in 1 .. n : both[i] = program[i]
        /\ both[n + 1] = d /\ both[n + 2] = "mpicxx" /\ both[n + 3] = "mpirun"
        /\ both = [i \in 1 .. n + 3 |-> both[i]]
    <3>1. {"mpicxx", "mpirun"} \subseteq S /\ n = Len(program) /\ program \in Seq(S)
      BY <1>4
    <3> HIDE DEF tail
    <3>2. /\ n \in Nat /\ Len(both) = n + 3 /\ DOMAIN both = 1 .. n + 3
          /\ \A i \in 1 .. n : both[i] = program[i]
          /\ both[n + 1] = d /\ both[n + 2] = "mpicxx" /\ both[n + 3] = "mpirun"
          /\ both \in Seq(S) /\ both = [i \in 1 .. n + 3 |-> both[i]]
      BY <2>1, <3>1, ScriptOf
    <3> QED BY <3>2, Zenon
  <2> QED BY <2>2 DEF both
<1>8. \A i \in 1 .. n + 3 : Expanded(text[i], env) = (program \o tail)[i]
  <2>1. \A i \in 1 .. n : Expanded(text[i], env) = (program \o tail)[i]
    <3> HIDE DEF text, tail, n, program
    <3> QED BY <1>3, <1>5, <1>7
  <2>2. \A i \in 1 .. n + 3 : i \in 1 .. n \/ i = n + 1 \/ i = n + 2 \/ i = n + 3
    BY <1>1
  <2> HIDE DEF text, tail, n, program
  <2> QED BY <1>5, <1>7, <2>1, <2>2
<1>9. ExpandedLines(text, env) = program \o tail
  <2> HIDE DEF text, tail, n, program
  <2> QED BY <1>6, <1>7, <1>8
<1> QED BY <1>4, <1>9

(* The command of the launcher, in either language.                        *)
LEMMA LauncherOf ==
  ASSUME NEW cfg, NEW launcher \in buildMPICommand(cfg)
  PROVE  /\ launcher.ranks = cfg.Replicas
         /\ \/ \E d \in uniqueHeredocDelimiter(cfg.Code) :
                 /\ launcher.shell /\ launcher.delimiter = d
                 /\ launcher.text = cfg.Code \o <<d, "mpicxx", "mpirun">>
            \/ ~launcher.shell /\ launcher.text = cfg.Code
<1>1. CASE cfg.Language \in {"cpp", "c++"}
  <2>1. PICK d \in uniqueHeredocDelimiter(cfg.Code) :
          launcher = [shell |-> TRUE, delimiter |-> d, ranks |-> cfg.Replicas,
                      text |-> cfg.Code \o <<d, "mpicxx", "mpirun">>]
    BY <1>1 DEF buildMPICommand
  <2>2. launcher.ranks = cfg.Replicas /\ launcher.shell /\ launcher.delimiter = d
        /\ launcher.text = cfg.Code \o <<d, "mpicxx", "mpirun">>
    BY <2>1
  <2> QED BY <2>2, Zenon
<1>2. CASE cfg.Language \notin {"cpp", "c++"}
  <2>1. launcher = [shell |-> FALSE, delimiter |-> "", ranks |-> cfg.Replicas,
                    text |-> cfg.Code]
    <3>1. buildMPICommand(cfg) = {[shell |-> FALSE, delimiter |-> "", ranks |-> cfg.Replicas,
                                   text |-> cfg.Code]}
      BY <1>2, Zenon DEF buildMPICommand
    <3> QED BY <3>1, Zenon
  <2>2. launcher.ranks = cfg.Replicas /\ ~launcher.shell /\ launcher.text = cfg.Code
    BY <2>1
  <2> QED BY <2>2, Zenon
<1> QED BY <1>1, <1>2

(* Whatever the language, what is run is the code as it is expanded.       *)
LEMMA LauncherRunsTheCode ==
  ASSUME NEW S,
         RandomDelimiters \cup {"CPPEOF", "mpicxx", "mpirun", "$", "/mnt/data"} \subseteq S,
         NEW cfg, cfg.Code \in Seq(S), NEW job, job.launcher \in buildMPICommand(cfg),
         job.env.MOUNT_PATH = "/mnt/data"
  PROVE  /\ Runs(job).program = ExpandedLines(cfg.Code, job.env)
         /\ Runs(job).rest = IF job.launcher.shell THEN <<"mpicxx", "mpirun">> ELSE <<>>
<1> DEFINE program == ExpandedLines(cfg.Code, job.env)
<1>1. ASSUME NEW d \in uniqueHeredocDelimiter(cfg.Code),
             job.launcher.shell, job.launcher.delimiter = d,
             job.launcher.text = cfg.Code \o <<d, "mpicxx", "mpirun">>
      PROVE  Runs(job) = [program |-> program, rest |-> <<"mpicxx", "mpirun">>]
  <2>1. d \in RandomDelimiters \cup {"CPPEOF"} /\ d \in S
    BY DEF uniqueHeredocDelimiter
  <2>2. \A i \in 1 .. Len(cfg.Code) : cfg.Code[i] # d
    BY DelimiterIsNoLine, NoLineEscapes
  <2>3. /\ Expanded(d, job.env) = d
        /\ \A line : line # d => Expanded(line, job.env) # d
        /\ Expanded("mpicxx", job.env) = "mpicxx" /\ Expanded("mpirun", job.env) = "mpirun"
    BY <2>1, ExpansionKeepsDelimiters
  <2>4. /\ program \in Seq(S) /\ Len(program) = Len(cfg.Code)
        /\ ExpandedLines(job.launcher.text, job.env) = program \o <<d, "mpicxx", "mpirun">>
    <3>1. {"mpicxx", "mpirun", "$", job.env.MOUNT_PATH} \subseteq S /\ cfg.Code \in Seq(S)
      OBVIOUS
    <3>2. /\ program \in Seq(S) /\ Len(program) = Len(cfg.Code)
          /\ ExpandedLines(cfg.Code \o <<d, "mpicxx", "mpirun">>, job.env)
               = program \o <<d, "mpicxx", "mpirun">>
      BY <2>1, <2>3, <3>1, ExpandedScript
    <3> QED BY <1>1, <3>2
  <2>5. \A i \in 1 .. Len(program) : program[i] # d
    <3>1. \A i \in 1 .. Len(cfg.Code) : program[i] = Expanded(cfg.Code[i], job.env)
      BY DEF ExpandedLines
    <3> HIDE DEF program
    <3> QED BY <2>2, <2>3, <2>4, <3>1
  <2> HIDE DEF program
  <2>6. HereDocument(program \o <<d, "mpicxx", "mpirun">>, d)
          = [program |-> program, rest |-> <<"mpicxx", "mpirun">>]
    BY <2>1, <2>4, <2>5, HereDocumentIsTheProgram
  <2> QED BY <1>1, <2>4, <2>6 DEF Runs
<1>2. ~job.launcher.shell /\ job.launcher.text = cfg.Code
        => Runs(job) = [program |-> program, rest |-> <<>>]
  BY DEF Runs
<1>3. CASE \E d \in uniqueHeredocDelimiter(cfg.Code) :
             /\ job.launcher.shell /\ job.launcher.delimiter = d
             /\ job.launcher.text = cfg.Code \o <<d, "mpicxx", "mpirun">>
  <2>1. PICK d \in uniqueHeredocDelimiter(cfg.Code) :
             /\ job.launcher.shell /\ job.launcher.delimiter = d
             /\ job.launcher.text = cfg.Code \o <<d, "mpicxx", "mpirun">>
    BY <1>3, Zenon
  <2>2. Runs(job) = [program |-> program, rest |-> <<"mpicxx", "mpirun">>]
    BY <1>1, <2>1, Zenon
  <2> QED BY <2>1, <2>2
<1>4. CASE ~job.launcher.shell /\ job.launcher.text = cfg.Code
  BY <1>2, <1>4
<1> QED BY <1>3, <1>4, LauncherOf

(* What is submitted, with the volume where the configuration has it.      *)
CodeLines == {"CPPEOF", "CPPEOF_1", "x", "$(MOUNT_PATH)", "$$"}

LEMMA SubmitOf ==
  ASSUME Init, input.fn = "submit"
  PROVE  /\ input.submit.replicas \in Nat /\ input.submit.replicas >= 1
         /\ \A T : CodeLines \subseteq T => input.submit.code \in Seq(T)
         /\ input.submit.client # ""
         /\ JobConfig.Code = input.submit.code /\ JobConfig.Replicas = input.submit.replicas
         /\ Config.PVCMountPath = "/mnt/data" /\ JobConfig.MountPath = "/mnt/data"
<1>1. input.submit \in Submits
  BY InputOf
<1>2. /\ input.submit.replicas \in 1 .. MaxReplicas /\ input.submit.code \in Code
      /\ input.submit.client \in {"default", "own"}
  <2> HIDE DEF Code
  <2> QED BY <1>1 DEF Submits
<1>3. MaxReplicas \in Nat /\ MaxCode \in Nat
  BY FunctionsAssumption
<1>4. ASSUME NEW T, CodeLines \subseteq T PROVE input.submit.code \in Seq(T)
  <2>1. CodeLines \in SUBSET T
    BY <1>4
  <2>2. input.submit.code \in SeqOf(CodeLines, MaxCode)
    BY <1>2, Zenon DEF Code, CodeLines
  <2> QED BY <1>3, <2>1, <2>2, SequenceOfSeqOf
<1>5. JobConfig.Code = input.submit.code /\ JobConfig.Replicas = input.submit.replicas
  BY DEF JobConfig, SubmitConfig
<1>6. input.submit.replicas \in Nat /\ input.submit.replicas >= 1
  BY <1>2, <1>3
<1>7. input.submit.client # ""
  BY <1>2
<1>8. Config.PVCMountPath = "/mnt/data" /\ JobConfig.MountPath = "/mnt/data"
  <2>1. Env([env |-> ""])["PVC_MOUNT_PATH"] = ""
    BY DEF Env
  <2>2. Config.PVCMountPath = "/mnt/data"
    BY <2>1 DEF Config, DefaultServerConfig, getEnvOrDefault, OrElse
  <2> QED BY <2>2 DEF JobConfig, SubmitConfig
<1> QED BY <1>4, <1>5, <1>6, <1>7, <1>8

(***************************************************************************)
(* What is run is exactly the lines that were submitted, each as the       *)
(* kubelet expands it, and sh runs exactly the commands after them,        *)
(* however many lines the code has and whatever they are: no line ends the *)
(* here-document, before the expansion or by it.                           *)
(***************************************************************************)
THEOREM SpecCodeArrivesAsExpanded == Spec => []CodeArrivesAsExpanded
<1>1. ASSUME Init, input.fn = "submit", NEW job \in BuildMPIJob(JobConfig)
      PROVE  /\ Runs(job).program =
                  ExpandedLines(input.submit.code, [MOUNT_PATH |-> Config.PVCMountPath])
             /\ Runs(job).rest = IF job.launcher.shell THEN <<"mpicxx", "mpirun">> ELSE <<>>
  <2> DEFINE S == RandomDelimiters \cup CodeLines
                    \cup {"CPPEOF", "mpicxx", "mpirun", "$", "/mnt/data"}
  <2>1. /\ RandomDelimiters \cup {"CPPEOF", "mpicxx", "mpirun", "$", "/mnt/data"} \subseteq S
        /\ CodeLines \subseteq S
    OBVIOUS
  <2> HIDE DEF S
  <2>2. JobConfig.Code = input.submit.code /\ JobConfig.Code \in Seq(S)
    BY <1>1, <2>1, SubmitOf
  <2>3. Config.PVCMountPath = "/mnt/data" /\ JobConfig.MountPath = "/mnt/data"
    BY <1>1, SubmitOf
  <2>4. job.launcher \in buildMPICommand(JobConfig) /\ job.env = ContainerEnv(JobConfig)
    BY <1>1 DEF BuildMPIJob
  <2>5. job.env = [MOUNT_PATH |-> Config.PVCMountPath] /\ job.env.MOUNT_PATH = "/mnt/data"
    BY <2>3, <2>4 DEF ContainerEnv, OrElse
  <2>6. /\ Runs(job).program = ExpandedLines(JobConfig.Code, job.env)
        /\ Runs(job).rest = IF job.launcher.shell THEN <<"mpicxx", "mpirun">> ELSE <<>>
    BY <2>1, <2>2, <2>4, <2>5, LauncherRunsTheCode
  <2> QED BY <2>2, <2>5, <2>6
<1>2. Init => CodeArrivesAsExpanded
  BY <1>1 DEF CodeArrivesAsExpanded
<1> QED BY <1>2, InputStays, PTL

(***************************************************************************)
(* mpirun is asked for as many processes as the workers have slots, for    *)
(* any number of replicas and in either language.                          *)
(***************************************************************************)
THEOREM SpecRanksFitTheSlots == Spec => []RanksFitTheSlots
<1>1. ASSUME Init, input.fn = "submit", NEW job \in BuildMPIJob(JobConfig)
      PROVE  job.launcher.ranks = job.workers * job.slotsPerWorker
  <2>1. /\ job.launcher \in buildMPICommand(JobConfig)
        /\ job.workers = JobConfig.Replicas /\ job.slotsPerWorker = 1
    BY <1>1 DEF BuildMPIJob
  <2>2. job.launcher.ranks = JobConfig.Replicas /\ JobConfig.Replicas \in Nat
    BY <1>1, <2>1, LauncherOf, SubmitOf
  <2>3. \A n \in Nat : n = n * 1
    OBVIOUS
  <2> QED BY <2>1, <2>2, <2>3, Zenon
<1>2. Init => RanksFitTheSlots
  BY <1>1 DEF RanksFitTheSlots
<1> QED BY <1>2, InputStays, PTL

(***************************************************************************)
(* Any number of replicas of a batch is as many pods, started at once, no  *)
(* two of which have the same completion index.                            *)
(***************************************************************************)
THEOREM SpecEveryReplicaHasItsIndex == Spec => []EveryReplicaHasItsIndex
<1>1. ASSUME Init, input.fn = "submit" PROVE EveryReplicaHasItsIndex
  <2> DEFINE n      == input.submit.replicas
             jobset == BuildJobSet(JobConfig)
             pods   == PodsOf(jobset)
  <2>1. n \in Nat /\ n >= 1
    BY <1>1, SubmitOf
  <2>2. /\ jobset.jobs = 1 /\ jobset.parallelism = n /\ jobset.completions = n
        /\ jobset.completionMode = "Indexed"
    BY DEF BuildJobSet, JobConfig, SubmitConfig
  <2>3. pods = (1 .. 1) \X (0 .. n - 1)
    BY <2>2 DEF PodsOf
  <2> HIDE DEF n, jobset, pods
  <2>4. Cardinality(pods) = n /\ jobset.jobs * jobset.parallelism = n
    <3>1. IsFiniteSet(1 .. 1) /\ Cardinality(1 .. 1) = 1
      BY FS_Singleton, 1 .. 1 = {1}
    <3>2. IsFiniteSet(0 .. n - 1) /\ Cardinality(0 .. n - 1) = n
      BY <2>1, FS_Interval
    <3>3. Cardinality((1 .. 1) \X (0 .. n - 1)) = Cardinality(1 .. 1) * Cardinality(0 .. n - 1)
      BY <3>1, <3>2, FS_Product, Zenon
    <3>4. Cardinality(pods) = 1 * n
      BY <2>3, <3>1, <3>2, <3>3, Zenon
    <3> QED BY <2>1, <2>2, <3>4
  <2>5. \A p, q \in pods : p[2] = q[2] => p = q
    BY <2>3
  <2> QED BY <2>2, <2>4, <2>5 DEF EveryReplicaHasItsIndex, JobCompletionIndex, n, jobset, pods
<1>2. Init => EveryReplicaHasItsIndex
  BY <1>1 DEF EveryReplicaHasItsIndex
<1> QED BY <1>2, InputStays, PTL

(***************************************************************************)
(* A job's results lie where read_artifact_head looks for them if and only *)
(* if the job ran in the client's namespace.                               *)
(***************************************************************************)
THEOREM SpecResultsAreReadable == Spec => []ResultsAreReadable
<1>1. ASSUME Init, input.fn = "submit",
             NEW job \in BuildMPIJob(JobConfig)
                           \cup {BuildJobSet(JobConfig), BuildReducerJob(JobConfig)}
      PROVE  Storage(job) = Storage(ReadArtifactHead(Client, ReaderConfig(Client, Config)))
               <=> JobConfig.Namespace = Client.namespace
  <2>1. input.submit.client # ""
    BY <1>1, SubmitOf
  <2>2. Client.namespace # ""
    BY <2>1 DEF Client, NoClient
  <2>3. JobConfig.Namespace # ""
    BY <2>2 DEF JobConfig, SubmitConfig, resolveNamespace, OrElse
  <2>4. job.namespace = JobConfig.Namespace /\ job.data = Volume(JobConfig)
    <3>1. OrElse(JobConfig.Namespace, "default") = JobConfig.Namespace
      BY <2>3 DEF OrElse
    <3>2. CASE job \in BuildMPIJob(JobConfig)
      BY <3>1, <3>2 DEF BuildMPIJob
    <3>3. CASE job \in {BuildJobSet(JobConfig), BuildReducerJob(JobConfig)}
      BY <3>1, <3>3 DEF BuildJobSet, BuildReducerJob
    <3> QED BY <1>1, <3>2, <3>3
  <2> DEFINE pod == ReadArtifactHead(Client, ReaderConfig(Client, Config))
  <2>5. pod.namespace = Client.namespace /\ pod.data = Volume(JobConfig)
    BY <2>2 DEF ReadArtifactHead, BuildReaderPod, ReaderConfig, Volume, JobConfig,
                SubmitConfig, OrElse
  <2> QED BY <2>4, <2>5 DEF Storage
<1>2. Init => ResultsAreReadable
  BY <1>1 DEF ResultsAreReadable
<1> QED BY <1>2, InputStays, PTL

----------------------------------------------------------------------------
(* A round of the loop of extractConditionPhase ends it at the conditions  *)
(* that decide, and at no other.                                           *)
Decides(c) == IsTrue(c) \/ IsBroken(c)

LEMMA RoundDecides ==
  ASSUME NEW c
  PROVE  /\ Round(c) # "" <=> Decides(c)
         /\ IsTrue(c) => Round(c) = c.type
         /\ Decides(c) /\ ~IsTrue(c) => Round(c) = Error
  BY DEF Round, Decides, IsTrue, IsBroken, Absent, Malformed, Error

LEMMA MaxOf ==
  ASSUME NEW n \in Nat, NEW S \in SUBSET (1 .. n), NEW j \in S, \A k \in j + 1 .. n : k \notin S
  PROVE  Max(S) = j
<1>1. \A k \in S : j >= k
  OBVIOUS
<1>2. ASSUME NEW m \in S, \A k \in S : m >= k PROVE m = j
  BY <1>1, <1>2
<1> QED BY <1>1, <1>2 DEF Max

(***************************************************************************)
(* The phase of an MPIJob or a JobSet is the type of the last condition    *)
(* whose status is True, an error when a malformed field comes after it,   *)
(* and Pending when there is neither: for lists of any length.             *)
(***************************************************************************)
THEOREM SpecLastTrueDecides == Spec => []LastTrueDecides
<1>1. ASSUME Init, input.fn = "conditions" PROVE LastTrueDecides
  <2> DEFINE items   == input.conditions.items
             n       == Len(items)
             decides == {i \in DOMAIN items : IsTrue(items[i]) \/ IsBroken(items[i])}
             phase   == extractConditionPhase(input.conditions)
  <2>1. CASE input.conditions.list = Malformed
    BY <2>1 DEF LastTrueDecides, extractConditionPhase
  <2>2. CASE input.conditions.list # Malformed
    <3>1. n \in Nat /\ DOMAIN items = 1 .. n
      <4>1. CASE input.conditions \in {NoList(Absent), NoList(Malformed)}
        BY <4>1 DEF NoList
      <4>2. CASE \E s \in SeqOf(Elements, MaxConditions) : input.conditions = List(s)
        <5>1. PICK s \in SeqOf(Elements, MaxConditions) : input.conditions = List(s)
          BY <4>2
        <5>2. items = s /\ MaxConditions \in Nat
          BY <5>1, FunctionsAssumption DEF List
        <5> HIDE DEF items
        <5> QED BY <5>2, SequenceOfSeqOf
      <4>3. input.conditions \in Conditions
        BY <1>1, InputOf
      <4> QED BY <4>1, <4>2, <4>3 DEF Conditions
    <3>2. decides = {i \in 1 .. n : Decides(items[i])}
      BY <3>1 DEF Decides
    <3> HIDE DEF n, decides, phase, items
    <3>3. CASE Undecided(phase, items, n)
      <4>1. decides = {} /\ phase = "Pending"
        BY <3>2, <3>3, RoundDecides DEF Undecided
      <4> QED BY <2>2, <4>1 DEF LastTrueDecides, decides, phase, items
    <3>4. ASSUME NEW j \in 1 .. n, DecidedAt(phase, items, n, j) PROVE LastTrueDecides
      <4>1. /\ j \in decides /\ \A k \in j + 1 .. n : k \notin decides
            /\ phase = Round(items[j]) /\ Decides(items[j])
        BY <3>2, <3>4, RoundDecides DEF DecidedAt
      <4>2. Max(decides) = j
        <5>1. decides \in SUBSET (1 .. n)
          BY <3>2
        <5> QED BY <3>1, <4>1, <5>1, MaxOf
      <4>3. phase = IF IsTrue(items[j]) THEN items[j].type ELSE Error
        BY <4>1, RoundDecides
      <4> QED BY <2>2, <4>1, <4>2, <4>3 DEF LastTrueDecides, decides, phase, items
    <3> QED BY <2>2, <3>1, <3>3, <3>4, LastConditionDecides DEF n, phase, items
  <2> QED BY <2>1, <2>2
<1>2. Init => LastTrueDecides
  BY <1>1 DEF LastTrueDecides
<1> QED BY <1>2, InputStays, PTL

----------------------------------------------------------------------------
(* The client that a start makes, by the context it uses.                  *)
ClientFor(start)  == NewClient([kubeconfig |-> "", context |-> start.option], Env(start),
                               Kubeconfig(start))
ContextOf(start) == OrElse(OrElse(start.option, start.env), start.current)

LEMMA ClientOf ==
  ASSUME NEW start
  PROVE  IF ContextOf(start) \in {"c1", "c2"}
         THEN ClientFor(start) =
                [server    |-> <<"~/.kube/config", ContextOf(start)>>,
                 namespace |-> OrElse(IF ContextOf(start) = "c1" THEN start.ns1 ELSE start.ns2,
                                      "default"),
                 context   |-> ContextOf(start)]
         ELSE ClientFor(start) = NoClient
<1> DEFINE path == kubeconfig([kubeconfig |-> "", context |-> start.option], Env(start))
           asked == kubeContext([kubeconfig |-> "", context |-> start.option], Env(start))
<1>1. path = "~/.kube/config" /\ asked = OrElse(start.option, start.env)
  BY DEF kubeconfig, kubeContext, Env, OrElse
<1>2. /\ DOMAIN Kubeconfig(start) = {"~/.kube/config"}
      /\ Kubeconfig(start)["~/.kube/config"].current = start.current
      /\ Kubeconfig(start)["~/.kube/config"].namespaces =
           [c \in {"c1", "c2"} |-> IF c = "c1" THEN start.ns1 ELSE start.ns2]
  BY DEF Kubeconfig
<1> HIDE DEF path, asked
<1>3. UsedContext(Kubeconfig(start)[path], asked) = ContextOf(start)
  BY <1>1, <1>2 DEF UsedContext, ContextOf
<1> QED BY <1>1, <1>2, <1>3 DEF NewClient, ClientFor, ContextOf, path, asked

(***************************************************************************)
(* The client reports the context it connects with and works in its        *)
(* namespace, whatever the options, the environment and the file say.      *)
(***************************************************************************)
THEOREM SpecClientIsConsistent == Spec => []ClientIsConsistent
<1>1. ASSUME Init, input.fn = "start" PROVE ClientIsConsistent
  <2>1. input.start \in Starts
    BY <1>1, InputOf
  <2>2. ClientFor(input.start) # NoClient =>
          /\ ClientFor(input.start).server =
               <<"~/.kube/config", ClientFor(input.start).context>>
          /\ ClientFor(input.start).namespace =
               OrElse(IF ClientFor(input.start).context = "c1" THEN input.start.ns1
                      ELSE input.start.ns2, "default")
    BY ClientOf
  <2>3. ASSUME NEW other \in Contexts, input.start.option # "" \/ input.start.env # ""
        PROVE  ClientFor(input.start) = ClientFor([input.start EXCEPT !.current = other])
    <3> DEFINE next == [input.start EXCEPT !.current = other]
    <3>1. /\ next.option = input.start.option /\ next.env = input.start.env
          /\ next.ns1 = input.start.ns1 /\ next.ns2 = input.start.ns2
      BY <2>1 DEF Starts
    <3> HIDE DEF next
    <3>2. ContextOf(next) = ContextOf(input.start)
      BY <2>3, <3>1 DEF ContextOf, OrElse
    <3>3. ClientFor(next) = ClientFor(input.start)
      BY <3>1, <3>2, ClientOf
    <3> QED BY <3>3 DEF next
  <2>4. ASSUME NEW other \in Contexts, input.start.option # ""
        PROVE  ClientFor(input.start) = ClientFor([input.start EXCEPT !.env = other])
    <3> DEFINE next == [input.start EXCEPT !.env = other]
    <3>1. /\ next.option = input.start.option /\ next.current = input.start.current
          /\ next.ns1 = input.start.ns1 /\ next.ns2 = input.start.ns2
      BY <2>1 DEF Starts
    <3> HIDE DEF next
    <3>2. ContextOf(next) = ContextOf(input.start)
      BY <2>4, <3>1 DEF ContextOf, OrElse
    <3>3. ClientFor(next) = ClientFor(input.start)
      BY <3>1, <3>2, ClientOf
    <3> QED BY <3>3 DEF next
  <2> QED BY <2>2, <2>3, <2>4, Zenon DEF ClientIsConsistent, ClientFor
<1>2. Init => ClientIsConsistent
  BY <1>1, Zenon DEF ClientIsConsistent
<1> QED BY <1>2, InputStays, PTL

----------------------------------------------------------------------------
(* The newlines before a place of a file.                                  *)
Before(file, k) == {j \in Newlines(file) : j < k}
File(file, n)   == n \in Nat /\ Len(file) = n /\ DOMAIN file = 1 .. n

LEMMA BeforeCounts ==
  ASSUME NEW file, NEW n, File(file, n), NEW k \in 1 .. n + 1
  PROVE  /\ IsFiniteSet(Before(file, k)) /\ Cardinality(Before(file, k)) \in Nat
         /\ Before(file, k) \subseteq 1 .. k - 1
<1>1. n \in Nat /\ DOMAIN file = 1 .. n
  BY DEF File
<1>2. Before(file, k) \in SUBSET (1 .. n) /\ Before(file, k) \subseteq 1 .. k - 1
  BY <1>1 DEF Before, Newlines
<1>3. IsFiniteSet(1 .. n)
  BY <1>1, FS_Interval
<1> QED BY <1>2, <1>3, FS_Subset, FS_CardinalityType

LEMMA BeforeGrows ==
  ASSUME NEW file, NEW n, File(file, n), NEW k \in 1 .. n + 1, NEW l \in 1 .. n + 1, k <= l
  PROVE  Cardinality(Before(file, k)) <= Cardinality(Before(file, l))
<1>1. Before(file, k) \in SUBSET Before(file, l)
  BY DEF Before, Newlines, File
<1> QED BY <1>1, BeforeCounts, FS_Subset

LEMMA BeforeNext ==
  ASSUME NEW file, NEW n, File(file, n), NEW k \in 1 .. n
  PROVE  Cardinality(Before(file, k + 1)) <= Cardinality(Before(file, k)) + 1
<1>1. k \in 1 .. n + 1 /\ k + 1 \in 1 .. n + 1
  BY DEF File
<1>2. Before(file, k + 1) \in SUBSET (Before(file, k) \cup {k})
  BY DEF Before, Newlines, File
<1>3. /\ IsFiniteSet(Before(file, k) \cup {k})
      /\ Cardinality(Before(file, k) \cup {k}) <= Cardinality(Before(file, k)) + 1
      /\ Cardinality(Before(file, k) \cup {k}) \in Nat
  <2>1. IsFiniteSet(Before(file, k)) /\ Cardinality(Before(file, k)) \in Nat
    BY <1>1, BeforeCounts
  <2>2. /\ IsFiniteSet(Before(file, k) \cup {k})
        /\ Cardinality(Before(file, k) \cup {k}) = IF k \in Before(file, k)
             THEN Cardinality(Before(file, k)) ELSE Cardinality(Before(file, k)) + 1
    BY <2>1, FS_AddElement
  <2>3. Cardinality(Before(file, k) \cup {k}) \in Nat
    BY <2>2, FS_CardinalityType
  <2>4. \A m \in Nat : m <= m + 1 /\ m + 1 <= m + 1
    OBVIOUS
  <2> QED BY <2>1, <2>2, <2>3, <2>4, Zenon
<1>4. Cardinality(Before(file, k + 1)) <= Cardinality(Before(file, k) \cup {k})
  BY <1>2, <1>3, FS_Subset
<1>5. Cardinality(Before(file, k)) \in Nat /\ Cardinality(Before(file, k + 1)) \in Nat
  BY <1>1, BeforeCounts
<1> DEFINE a == Cardinality(Before(file, k))
           b == Cardinality(Before(file, k + 1))
           c == Cardinality(Before(file, k) \cup {k})
<1>6. a \in Nat /\ b \in Nat /\ c \in Nat /\ b <= c /\ c <= a + 1
  BY <1>3, <1>4, <1>5
<1> HIDE DEF a, b, c
<1>7. b <= a + 1
  BY <1>6
<1> QED BY <1>7 DEF a, b

(* A shifted set has as many members.                                      *)
LEMMA ShiftCounts ==
  ASSUME NEW B \in SUBSET Nat, IsFiniteSet(B)
  PROVE  LET T == {j + 1 : j \in B} IN IsFiniteSet(T) /\ Cardinality(T) = Cardinality(B)
<1> DEFINE T == {j + 1 : j \in B}
           f == [j \in B |-> j + 1]
<1>1. f \in Bijection(B, T)
  BY DEF Bijection, Injection, Surjection, IsInjective
<1>2. ExistsBijection(B, T)
  BY <1>1 DEF ExistsBijection
<1> QED BY <1>2, FS_Bijection

(* The first k characters of a file have one line more than newlines       *)
(* before the last of them, by the count of the code and by the places at  *)
(* which a line starts.                                                    *)
LEMMA LinesOfPrefix ==
  ASSUME NEW file, NEW n, File(file, n), NEW s, NEW k \in 1 .. n, File(s, k),
         \A i \in 1 .. k : s[i] = file[i]
  PROVE  /\ countLines(s) = 1 + Cardinality(Before(file, k))
         /\ Cardinality(LineStarts(s)) = 1 + Cardinality(Before(file, k))
<1> DEFINE B == Before(file, k)
<1>1. /\ n \in Nat /\ k \in Nat /\ k >= 1 /\ k \in 1 .. n + 1 /\ k \in 1 .. k
      /\ DOMAIN file = 1 .. n /\ DOMAIN s = 1 .. k /\ Len(s) = k
  BY DEF File
<1>2. IsFiniteSet(B) /\ Cardinality(B) \in Nat /\ B \subseteq 1 .. k - 1
  BY <1>1, BeforeCounts
<1>3. B = {j \in 1 .. k - 1 : s[j] = "\n"}
  BY <1>1 DEF Before, Newlines
<1> HIDE DEF B
<1>4. countLines(s) = 1 + Cardinality(B)
  <2>1. s # <<>> /\ Last(s) = s[k]
    BY <1>1 DEF Last
  <2>2. CASE s[k] = "\n"
    <3>1. Newlines(s) = B \cup {k} /\ k \notin B
      BY <1>1, <1>3, <2>2 DEF Newlines
    <3>2. Cardinality(Newlines(s)) = Cardinality(B) + 1
      BY <1>2, <3>1, FS_AddElement
    <3>3. countLines(s) = 1 + Cardinality(Newlines(s)) - 1
      BY <2>1, <2>2 DEF countLines
    <3> QED BY <1>2, <3>2, <3>3
  <2>3. CASE s[k] # "\n"
    <3>1. Newlines(s) = B
      BY <1>1, <1>3, <2>3 DEF Newlines
    <3>2. countLines(s) = 1 + Cardinality(B) - 0
      BY <2>1, <2>3, <3>1 DEF countLines
    <3> QED BY <1>2, <3>2
  <2> QED BY <2>2, <2>3
<1>5. Cardinality(LineStarts(s)) = 1 + Cardinality(B)
  <2> DEFINE T == {j + 1 : j \in B}
  <2>1. LineStarts(s) = T \cup {1} /\ 1 \notin T
    <3>1. ASSUME NEW i \in LineStarts(s), i # 1 PROVE i \in T
      <4>1. i \in 2 .. k /\ s[i - 1] = "\n"
        BY <1>1, <3>1 DEF LineStarts
      <4>2. i - 1 \in 1 .. k - 1 /\ i = (i - 1) + 1
        BY <1>1, <4>1
      <4>3. i - 1 \in B
        BY <1>3, <4>1, <4>2
      <4> QED BY <4>2, <4>3
    <3>2. 1 \in LineStarts(s)
      BY <1>1 DEF LineStarts
    <3>3. ASSUME NEW j \in B PROVE j + 1 \in LineStarts(s) /\ j + 1 # 1
      <4>1. j \in 1 .. k - 1 /\ s[j] = "\n"
        BY <1>3
      <4>2. j + 1 \in 1 .. k /\ (j + 1) - 1 = j /\ j + 1 # 1
        BY <1>1, <4>1
      <4> QED BY <1>1, <4>1, <4>2 DEF LineStarts
    <3> QED BY <3>1, <3>2, <3>3
  <2>2. IsFiniteSet(T) /\ Cardinality(T) = Cardinality(B)
    <3>1. B \in SUBSET Nat
      BY <1>2
    <3> QED BY <1>2, <3>1, ShiftCounts
  <2> HIDE DEF T
  <2>3. Cardinality(LineStarts(s)) = Cardinality(B) + 1
    BY <2>1, <2>2, FS_AddElement
  <2> QED BY <1>2, <2>3
<1> QED BY <1>4, <1>5 DEF B

(* head prints a prefix of the file: all of it, or one that ends right     *)
(* after the newline of the last line asked for.                           *)
LEMMA HeadIsPrefix ==
  ASSUME NEW S, NEW file \in Seq(S), NEW lines \in Nat \ {0}
  PROVE  LET n == Len(file)
         IN  \E m \in 0 .. n :
               /\ HeadOf(file, lines) = SubSeq(file, 1, m)
               /\ \A k \in 1 .. m : Cardinality(Before(file, k)) < lines
               /\ m < n => Cardinality(Before(file, m + 1)) >= lines
<1> DEFINE n == Len(file)
           A == {i \in 1 .. n : Cardinality(Before(file, i)) < lines}
           T == {k \in 1 .. n + 1 : k \notin A}
<1>1. File(file, n) /\ n \in Nat
  BY DEF File
<1> HIDE DEF n
<1>2. PICK l \in T : \A k \in T : l <= k
  <2>1. n + 1 \in T /\ T \in SUBSET Nat
    BY <1>1
  <2> HIDE DEF T
  <2> QED BY <2>1, LeastNumber
<1>3. l \in 1 .. n + 1 /\ l \notin A /\ l - 1 \in 0 .. n
  BY <1>1, <1>2
<1>4. A = 1 .. l - 1
  <2>1. ASSUME NEW i \in 1 .. l - 1 PROVE i \in A
    <3>1. i \in 1 .. n + 1 /\ ~(l <= i)
      BY <1>1, <1>3, <2>1
    <3> HIDE DEF A
    <3> QED BY <1>2, <3>1
  <2>2. ASSUME NEW i \in A, i >= l PROVE FALSE
    <3>1. i \in 1 .. n + 1 /\ l \in 1 .. n /\ l \in 1 .. n + 1 /\ l <= i
      BY <1>1, <1>3, <2>2
    <3>2. Cardinality(Before(file, l)) <= Cardinality(Before(file, i))
      BY <1>1, <3>1, BeforeGrows
    <3>3. Cardinality(Before(file, i)) \in Nat /\ Cardinality(Before(file, l)) \in Nat
      BY <1>1, <3>1, BeforeCounts
    <3>4. Cardinality(Before(file, i)) < lines
      BY <2>2
    <3>5. Cardinality(Before(file, l)) < lines
      <4>1. \A a, b, c \in Nat : a <= b /\ b < c => a < c
        OBVIOUS
      <4>2. lines \in Nat
        OBVIOUS
      <4> QED BY <3>2, <3>3, <3>4, <4>1, <4>2, Zenon
    <3> QED BY <1>3, <3>1, <3>5
  <2>3. \A i \in A : i \in 1 .. n /\ (i >= l \/ i \in 1 .. l - 1)
    BY <1>1, <1>3
  <2> HIDE DEF A
  <2> QED BY <2>1, <2>2, <2>3
<1>5. HeadOf(file, lines) = SubSeq(file, 1, l - 1)
  <2>1. {i \in DOMAIN file : Cardinality({j \in Newlines(file) : j < i}) < lines} = A
    BY <1>1 DEF Before, File
  <2>2. Cardinality(1 .. l - 1) = l - 1
    BY <1>3, FS_Interval
  <2> HIDE DEF A
  <2> QED BY <1>4, <2>1, <2>2, Zenon DEF HeadOf
<1>6. \A k \in 1 .. l - 1 : Cardinality(Before(file, k)) < lines
  BY <1>4
<1>7. l - 1 < n => Cardinality(Before(file, (l - 1) + 1)) >= lines
  <2>1. l - 1 < n => l \in 1 .. n /\ (l - 1) + 1 = l
    BY <1>1, <1>3
  <2>2. Cardinality(Before(file, l)) \in Nat /\ lines \in Nat
    BY <1>1, <1>3, BeforeCounts
  <2>3. l \in 1 .. n => ~(Cardinality(Before(file, l)) < lines)
    BY <1>3
  <2>4. \A a, b \in Nat : ~(a < b) => a >= b
    OBVIOUS
  <2> QED BY <2>1, <2>2, <2>3, <2>4
<1> QED BY <1>3, <1>5, <1>6, <1>7 DEF n

(* Lines of nothing.                                                       *)
LEMMA NoLines == countLines(<<>>) = 0 /\ Cardinality(LineStarts(<<>>)) = 0
<1>1. LineStarts(<<>>) = {}
  BY DEF LineStarts
<1> QED BY <1>1, FS_EmptySet DEF countLines

LEMMA MinOfTwo ==
  ASSUME NEW a \in Nat, NEW b \in Nat, a <= b PROVE Min({a, b}) = a
<1>1. a \in {a, b} /\ \A y \in {a, b} : a =< y
  OBVIOUS
<1>2. ASSUME NEW x \in {a, b}, \A y \in {a, b} : x =< y PROVE x = a
  BY <1>2
<1> QED BY <1>1, <1>2 DEF Min

(* The lines of the first q characters of a file, and those of all of it.  *)
LEMMA LinesOfFirst ==
  ASSUME NEW S, NEW file \in Seq(S), NEW q \in 0 .. Len(file)
  PROVE  LET s == SubSeq(file, 1, q)
         IN  /\ countLines(s) = IF q = 0 THEN 0 ELSE 1 + Cardinality(Before(file, q))
             /\ countLines(s) = Cardinality(LineStarts(s))
<1> DEFINE n == Len(file)
           s == SubSeq(file, 1, q)
<1>1. File(file, n) /\ n \in Nat
  BY DEF File
<1>2. CASE q = 0
  <2>1. s = <<>>
    BY <1>2
  <2> QED BY <1>2, <2>1, NoLines
<1>3. CASE q # 0
  <2>1. q \in 1 .. n /\ q \in Nat
    BY <1>1, <1>3
  <2>2. File(s, q) /\ \A i \in 1 .. q : s[i] = file[i]
    BY <2>1 DEF File
  <2> HIDE DEF s, n
  <2>3. /\ countLines(s) = 1 + Cardinality(Before(file, q))
        /\ Cardinality(LineStarts(s)) = 1 + Cardinality(Before(file, q))
    BY <1>1, <2>1, <2>2, LinesOfPrefix
  <2> QED BY <1>3, <2>3 DEF s
<1> QED BY <1>2, <1>3

LEMMA CountsLines ==
  ASSUME NEW S, NEW file \in Seq(S), NEW lines \in Nat \ {0}, NEW maxLogBytes \in Nat
  PROVE  LET printed == HeadOf(file, lines)
             content == getPodLogs(printed, maxLogBytes)
         IN  /\ countLines(content) = Cardinality(LineStarts(content))
             /\ countLines(content) <= lines
             /\ content = printed =>
                  countLines(content) = Min({Cardinality(LineStarts(file)), lines})
<1> DEFINE n       == Len(file)
           C(k)    == Cardinality(Before(file, k))
           printed == HeadOf(file, lines)
           content == getPodLogs(printed, maxLogBytes)
<1>1. File(file, n) /\ n \in Nat /\ lines \in Nat /\ lines >= 1
  BY DEF File
<1>2. PICK m \in 0 .. n : /\ printed = SubSeq(file, 1, m)
                          /\ \A k \in 1 .. m : C(k) < lines
                          /\ m < n => C(m + 1) >= lines
  BY HeadIsPrefix
<1>3. PICK q \in 0 .. m : content = SubSeq(file, 1, q) /\ (content = printed => q = m)
  <2> DEFINE q == IF m < maxLogBytes THEN m ELSE maxLogBytes
  <2>1. Len(printed) = m /\ printed \in Seq(S) /\ \A i \in 1 .. m : printed[i] = file[i]
    BY <1>1, <1>2
  <2>2. q \in 0 .. m
    BY <1>1, <1>2
  <2>3. content = SubSeq(printed, 1, q)
    BY <2>1 DEF getPodLogs
  <2> HIDE DEF q, printed, content
  <2>4. /\ content \in Seq(S) /\ Len(content) = q
        /\ \A i \in 1 .. q : content[i] = printed[i]
    BY <1>1, <1>2, <2>1, <2>2, <2>3
  <2>5. content = SubSeq(file, 1, q)
    <3> DEFINE first == SubSeq(file, 1, q)
    <3>1. first \in Seq(S) /\ Len(first) = q /\ \A i \in 1 .. q : first[i] = file[i]
      BY <1>1, <1>2, <2>2
    <3>2. \A i \in 1 .. q : content[i] = file[i]
      BY <1>1, <1>2, <2>1, <2>2, <2>4
    <3> HIDE DEF first
    <3>3. content = first
      BY <2>4, <3>1, <3>2
    <3> QED BY <3>3 DEF first
  <2> QED BY <2>1, <2>2, <2>4, <2>5
<1> HIDE DEF n, C, printed, content
<1>4. \A k \in 1 .. n : C(k) \in Nat /\ C(k + 1) \in Nat /\ C(k + 1) <= C(k) + 1
  <2> SUFFICES ASSUME NEW k \in 1 .. n
               PROVE  C(k) \in Nat /\ C(k + 1) \in Nat /\ C(k + 1) <= C(k) + 1
    OBVIOUS
  <2>1. k \in 1 .. n + 1 /\ k + 1 \in 1 .. n + 1
    BY <1>1
  <2> QED BY <1>1, <2>1, BeforeCounts, BeforeNext DEF C
<1>5. /\ countLines(content) = IF q = 0 THEN 0 ELSE 1 + C(q)
      /\ countLines(content) = Cardinality(LineStarts(content))
  <2>1. q \in 0 .. Len(file)
    BY <1>1, <1>2, <1>3 DEF n
  <2> QED BY <1>3, <2>1, LinesOfFirst DEF C
<1>6. countLines(content) <= lines
  <2>1. CASE q = 0
    BY <1>1, <1>5, <2>1
  <2>2. CASE q # 0
    <3>1. q \in 1 .. m /\ q \in 1 .. n
      BY <1>1, <1>2, <1>3, <2>2
    <3>2. C(q) \in Nat /\ C(q) < lines
      BY <1>2, <1>4, <3>1
    <3>3. \A a, b \in Nat : a < b => 1 + a <= b
      OBVIOUS
    <3> QED BY <1>1, <1>5, <2>2, <3>2, <3>3
  <2> QED BY <2>1, <2>2
<1>7. ASSUME content = printed
      PROVE  countLines(content) = Min({Cardinality(LineStarts(file)), lines})
  <2>1. q = m
    BY <1>3, <1>7
  <2>2. Cardinality(LineStarts(file)) = IF n = 0 THEN 0 ELSE 1 + C(n)
    <3>1. SubSeq(file, 1, n) = file /\ n \in 0 .. Len(file)
      BY <1>1 DEF n
    <3> QED BY <3>1, LinesOfFirst DEF C
  <2>3. CASE n = 0
    <3>1. countLines(content) = 0 /\ Cardinality(LineStarts(file)) = 0
      BY <1>2, <1>5, <2>1, <2>2, <2>3
    <3> QED BY <1>1, <3>1, MinOfTwo
  <2>4. CASE n # 0 /\ m = n
    <3>1. n \in 1 .. n /\ C(n) \in Nat /\ C(n) < lines
      BY <1>1, <1>2, <1>4, <2>4
    <3>2. countLines(content) = 1 + C(n) /\ Cardinality(LineStarts(file)) = 1 + C(n)
      BY <1>5, <2>1, <2>2, <2>4
    <3>3. \A a, b \in Nat : a < b => 1 + a \in Nat /\ 1 + a <= b
      OBVIOUS
    <3> QED BY <1>1, <3>1, <3>2, <3>3, MinOfTwo
  <2>5. CASE n # 0 /\ m # n
    <3>1. m # 0
      <4>1. CASE m = 0
        <5>1. C(1) >= lines /\ 1 \in 1 .. n + 1 /\ 1 .. 1 - 1 = {}
          BY <1>1, <1>2, <2>5, <4>1
        <5>2. Before(file, 1) = {}
          BY <1>1, <5>1, BeforeCounts
        <5>3. C(1) = 0
          BY <5>2, FS_EmptySet DEF C
        <5> QED BY <1>1, <5>1, <5>3
      <4> QED BY <4>1
    <3>2. m \in 1 .. n /\ m \in 1 .. m /\ m < n /\ n \in 1 .. n
          /\ m \in 1 .. n + 1 /\ n \in 1 .. n + 1 /\ m <= n
      BY <1>1, <1>2, <2>5, <3>1
    <3>3. C(m) \in Nat /\ C(n) \in Nat /\ C(m + 1) \in Nat
      BY <1>4, <3>2
    <3>4. C(m) < lines /\ C(m + 1) >= lines /\ C(m + 1) <= C(m) + 1
      BY <1>2, <1>4, <3>2
    <3>5. C(m) <= C(n)
      BY <1>1, <3>2, BeforeGrows DEF C
    <3>6. \A a, b, c, d \in Nat : a < d /\ c >= d /\ c <= a + 1 /\ a <= b
            => 1 + a = d /\ d <= 1 + b /\ 1 + b \in Nat
      OBVIOUS
    <3>7. 1 + C(m) = lines /\ lines <= 1 + C(n) /\ 1 + C(n) \in Nat
      BY <1>1, <3>3, <3>4, <3>5, <3>6
    <3>8. countLines(content) = lines /\ Cardinality(LineStarts(file)) = 1 + C(n)
      BY <1>5, <2>1, <2>2, <2>5, <3>1, <3>7
    <3>9. Min({lines, 1 + C(n)}) = lines
      BY <1>1, <3>7, MinOfTwo
    <3>10. {lines, 1 + C(n)} = {1 + C(n), lines}
      OBVIOUS
    <3> QED BY <3>8, <3>9, <3>10, Zenon
  <2> QED BY <2>3, <2>4, <2>5
<1> QED BY <1>5, <1>6, <1>7 DEF printed, content

(***************************************************************************)
(* Lines is the number of lines returned, at most the number asked for,    *)
(* and that of the file when the file is no longer: for files of any       *)
(* length, with or without a newline at the end.                           *)
(***************************************************************************)
THEOREM SpecLinesAreCounted == Spec => []LinesAreCounted
<1>1. ASSUME Init, input.fn = "file", NEW asked \in 0 .. MaxChars,
             NEW maxLogBytes \in 0 .. MaxChars
      PROVE  LET printed == HeadOf(input.file, Lines(asked))
                 content == getPodLogs(printed, maxLogBytes)
                 inFile  == Cardinality(LineStarts(input.file))
             IN  /\ countLines(content) = Cardinality(LineStarts(content))
                 /\ countLines(content) <= Lines(asked)
                 /\ content = printed => countLines(content) = Min({inFile, Lines(asked)})
  <2>1. MaxChars \in Nat
    BY FunctionsAssumption
  <2>2. input.file \in SeqOf({"a", "\n"}, MaxChars)
    BY <1>1, InputOf DEF Files
  <2>3. input.file \in Seq({"a", "\n"})
    BY <2>1, <2>2, SequenceOfSeqOf
  <2>4. Lines(asked) \in Nat \ {0} /\ maxLogBytes \in Nat
    BY <2>1 DEF Lines
  <2> QED BY <2>3, <2>4, CountsLines
<1>2. Init => LinesAreCounted
  BY <1>1 DEF LinesAreCounted
<1> QED BY <1>2, InputStays, PTL

----------------------------------------------------------------------------
(* filepath.Clean, segment by segment.  Names and Ups count the names and  *)
(* the ".." between two places of a path; Standing are the names that the  *)
(* first k segments leave standing.                                        *)
IsPath(segs, n) == n \in Nat /\ Len(segs) = n /\ DOMAIN segs = 1 .. n

Ups(segs, i, k)   == Cardinality({m \in i + 1 .. k : segs[m] = ".."})
Names(segs, i, k) == Cardinality({m \in i + 1 .. k : IsName(segs[m])})
Standing(segs, k) ==
  {i \in 1 .. k : IsName(segs[i]) /\ \A j \in i .. k : Ups(segs, i, j) <= Names(segs, i, j)}

LEMMA CountsNextMember ==
  ASSUME NEW D, NEW i \in Nat, NEW k \in Nat, i <= k
  PROVE  LET S(n) == {m \in i + 1 .. n : m \in D}
         IN  /\ Cardinality(S(k)) \in Nat
             /\ Cardinality(S(k + 1)) = Cardinality(S(k)) + (IF k + 1 \in D THEN 1 ELSE 0)
<1> DEFINE S(n) == {m \in i + 1 .. n : m \in D}
<1>1. IsFiniteSet(S(k)) /\ Cardinality(S(k)) \in Nat
  <2>1. IsFiniteSet(i + 1 .. k) /\ S(k) \in SUBSET (i + 1 .. k)
    BY FS_Interval
  <2> HIDE DEF S
  <2> QED BY <2>1, FS_Subset, FS_CardinalityType
<1>2. k + 1 \notin S(k)
  OBVIOUS
<1>3. CASE k + 1 \in D
  <2>1. S(k + 1) = S(k) \cup {k + 1}
    BY <1>3
  <2> HIDE DEF S
  <2> QED BY <1>1, <1>2, <1>3, <2>1, FS_AddElement DEF S
<1>4. CASE k + 1 \notin D
  <2>1. S(k + 1) = S(k)
    <3>1. \A m \in i + 1 .. k + 1 : m = k + 1 \/ m \in i + 1 .. k
      OBVIOUS
    <3>2. \A m \in i + 1 .. k : m \in i + 1 .. k + 1
      OBVIOUS
    <3> QED BY <1>4, <3>1, <3>2
  <2> HIDE DEF S
  <2>2. Cardinality(S(k)) = Cardinality(S(k)) + 0
    BY <1>1
  <2> QED BY <1>1, <1>4, <2>1, <2>2 DEF S
<1> QED BY <1>3, <1>4

(* Of every place, the counts at the next segment.                         *)
LEMMA CountsNext ==
  ASSUME NEW segs, NEW i \in Nat, NEW k \in Nat, i <= k
  PROVE  /\ Ups(segs, i, k) \in Nat /\ Names(segs, i, k) \in Nat
         /\ Ups(segs, i, k + 1) = Ups(segs, i, k) + (IF segs[k + 1] = ".." THEN 1 ELSE 0)
         /\ Names(segs, i, k + 1) = Names(segs, i, k) + (IF IsName(segs[k + 1]) THEN 1 ELSE 0)
<1>1. ASSUME NEW D, \A m \in Nat : m \in D <=> segs[m] = ".."
      PROVE  /\ Ups(segs, i, k) \in Nat
             /\ Ups(segs, i, k + 1) = Ups(segs, i, k) + (IF segs[k + 1] = ".." THEN 1 ELSE 0)
  <2>1. /\ {m \in i + 1 .. k : m \in D} = {m \in i + 1 .. k : segs[m] = ".."}
        /\ {m \in i + 1 .. k + 1 : m \in D} = {m \in i + 1 .. k + 1 : segs[m] = ".."}
        /\ k + 1 \in D <=> segs[k + 1] = ".."
    BY <1>1
  <2> QED BY <2>1, CountsNextMember DEF Ups
<1>2. ASSUME NEW D, \A m \in Nat : m \in D <=> IsName(segs[m])
      PROVE  /\ Names(segs, i, k) \in Nat
             /\ Names(segs, i, k + 1) = Names(segs, i, k) + (IF IsName(segs[k + 1]) THEN 1 ELSE 0)
  <2>1. /\ {m \in i + 1 .. k : m \in D} = {m \in i + 1 .. k : IsName(segs[m])}
        /\ {m \in i + 1 .. k + 1 : m \in D} = {m \in i + 1 .. k + 1 : IsName(segs[m])}
        /\ k + 1 \in D <=> IsName(segs[k + 1])
    BY <1>2
  <2> QED BY <2>1, CountsNextMember DEF Names
<1>3. \A m \in Nat : m \in {l \in Nat : segs[l] = ".."} <=> segs[m] = ".."
  OBVIOUS
<1>4. \A m \in Nat : m \in {l \in Nat : IsName(segs[l])} <=> IsName(segs[m])
  OBVIOUS
<1> QED BY <1>1, <1>2, <1>3, <1>4

LEMMA NothingBetween ==
  ASSUME NEW segs, NEW i \in Nat PROVE Ups(segs, i, i) = 0 /\ Names(segs, i, i) = 0
<1>1. {m \in i + 1 .. i : segs[m] = ".."} = {} /\ {m \in i + 1 .. i : IsName(segs[m])} = {}
  OBVIOUS
<1> QED BY <1>1, FS_EmptySet DEF Ups, Names

(* What one more segment leaves standing.                                  *)
LEMMA StandingNext ==
  ASSUME NEW segs, NEW k \in Nat
  PROVE  /\ \A i \in 1 .. k :
              i \in Standing(segs, k + 1)
                <=> i \in Standing(segs, k) /\ Ups(segs, i, k + 1) <= Names(segs, i, k + 1)
         /\ k + 1 \in Standing(segs, k + 1) <=> IsName(segs[k + 1])
         /\ \A i \in Standing(segs, k) : i \in 1 .. k /\ Ups(segs, i, k) <= Names(segs, i, k)
<1>1. ASSUME NEW i \in 1 .. k
      PROVE  i \in Standing(segs, k + 1)
               <=> i \in Standing(segs, k) /\ Ups(segs, i, k + 1) <= Names(segs, i, k + 1)
  <2>1. /\ i \in 1 .. k + 1 /\ k + 1 \in i .. k + 1
        /\ \A j \in i .. k + 1 : j = k + 1 \/ j \in i .. k
        /\ \A j \in i .. k : j \in i .. k + 1
    OBVIOUS
  <2> QED BY <2>1, Zenon DEF Standing
<1>2. k + 1 \in Standing(segs, k + 1) <=> IsName(segs[k + 1])
  <2>1. k + 1 \in 1 .. k + 1 /\ \A j \in k + 1 .. k + 1 : j = k + 1
    OBVIOUS
  <2>2. Ups(segs, k + 1, k + 1) <= Names(segs, k + 1, k + 1)
    <3>1. Ups(segs, k + 1, k + 1) = 0 /\ Names(segs, k + 1, k + 1) = 0
      BY NothingBetween
    <3> QED BY <3>1
  <2> QED BY <2>1, <2>2, Zenon DEF Standing
<1>3. ASSUME NEW i \in Standing(segs, k)
      PROVE  i \in 1 .. k /\ Ups(segs, i, k) <= Names(segs, i, k)
  <2>1. i \in 1 .. k => k \in i .. k
    OBVIOUS
  <2> QED BY <2>1, Zenon DEF Standing
<1> QED BY <1>1, <1>2, <1>3

(***************************************************************************)
(* After k segments, out is the names that stand, in their order: at says  *)
(* where.  What follows a standing name has as many more names than ".."   *)
(* as there are names that stand after it, so that the next ".." takes the *)
(* last of them and no other.                                              *)
(***************************************************************************)
Tracks(S, segs, k, out, at) ==
  /\ out \in Seq(S) /\ at \in Seq(Nat) /\ Len(out) = Len(at)
  /\ \A n \in 1 .. Len(at) :
       /\ at[n] \in Standing(segs, k) /\ out[n] = segs[at[n]]
       /\ Names(segs, at[n], k) = Ups(segs, at[n], k) + (Len(at) - n)
  /\ \A m, n \in 1 .. Len(at) : m < n => at[m] < at[n]
  /\ \A i \in Standing(segs, k) : \E n \in 1 .. Len(at) : at[n] = i

LEMMA SkipSegment ==
  ASSUME NEW S, NEW segs, NEW k \in Nat, NEW out, NEW at, Tracks(S, segs, k, out, at),
         ~IsName(segs[k + 1]), segs[k + 1] # ".."
  PROVE  Tracks(S, segs, k + 1, out, at)
<1>1. ASSUME NEW i \in 1 .. k
      PROVE  Ups(segs, i, k + 1) = Ups(segs, i, k) /\ Names(segs, i, k + 1) = Names(segs, i, k)
  <2>1. i \in Nat /\ i <= k
    OBVIOUS
  <2>2. /\ Ups(segs, i, k) \in Nat /\ Names(segs, i, k) \in Nat
        /\ Ups(segs, i, k + 1) = Ups(segs, i, k) + 0
        /\ Names(segs, i, k + 1) = Names(segs, i, k) + 0
    BY <2>1, CountsNext
  <2>3. \A a \in Nat : a + 0 = a
    OBVIOUS
  <2> QED BY <2>2, <2>3, Zenon
<1>2. Standing(segs, k + 1) = Standing(segs, k)
  <2>1. ASSUME NEW i \in 1 .. k PROVE i \in Standing(segs, k + 1) <=> i \in Standing(segs, k)
    BY <1>1, StandingNext, Zenon
  <2>2. k + 1 \notin Standing(segs, k + 1)
    BY StandingNext, Zenon
  <2>3. /\ \A i \in 1 .. k + 1 : i = k + 1 \/ i \in 1 .. k
        /\ Standing(segs, k + 1) \subseteq 1 .. k + 1 /\ Standing(segs, k) \subseteq 1 .. k
    BY DEF Standing
  <2> QED BY <2>1, <2>2, <2>3, Zenon
<1>3. \A i \in Standing(segs, k) : i \in 1 .. k
  BY DEF Standing
<1> QED BY <1>1, <1>2, <1>3, Zenon DEF Tracks

LEMMA NameSegment ==
  ASSUME NEW S, NEW segs, NEW k \in Nat, NEW out, NEW at, Tracks(S, segs, k, out, at),
         IsName(segs[k + 1]), segs[k + 1] \in S
  PROVE  Tracks(S, segs, k + 1, Append(out, segs[k + 1]), Append(at, k + 1))
<1> DEFINE L    == Len(at)
           out1 == Append(out, segs[k + 1])
           at1  == Append(at, k + 1)
<1>1. /\ L \in Nat /\ k + 1 \in Nat
      /\ out1 \in Seq(S) /\ Len(out1) = L + 1 /\ out1[L + 1] = segs[k + 1]
      /\ at1 \in Seq(Nat) /\ Len(at1) = L + 1 /\ at1[L + 1] = k + 1
      /\ \A n \in 1 .. L : out1[n] = out[n] /\ at1[n] = at[n]
  BY DEF Tracks
<1> HIDE DEF L, out1, at1
<1>2. ASSUME NEW i \in 1 .. k
      PROVE  /\ Ups(segs, i, k) \in Nat /\ Names(segs, i, k) \in Nat
             /\ Ups(segs, i, k + 1) = Ups(segs, i, k)
             /\ Names(segs, i, k + 1) = Names(segs, i, k) + 1
  <2>1. i \in Nat /\ i <= k
    OBVIOUS
  <2>2. segs[k + 1] # ".."
    BY DEF IsName
  <2>3. /\ Ups(segs, i, k) \in Nat /\ Names(segs, i, k) \in Nat
        /\ Ups(segs, i, k + 1) = Ups(segs, i, k) + 0
        /\ Names(segs, i, k + 1) = Names(segs, i, k) + 1
    BY <2>1, <2>2, CountsNext
  <2>4. \A a \in Nat : a + 0 = a
    OBVIOUS
  <2> QED BY <2>3, <2>4, Zenon
<1>3. \A i \in 1 .. k : i \in Standing(segs, k + 1) <=> i \in Standing(segs, k)
  <2> SUFFICES ASSUME NEW i \in 1 .. k
               PROVE  i \in Standing(segs, k + 1) <=> i \in Standing(segs, k)
    OBVIOUS
  <2>1. \A a, b \in Nat : a <= b => a <= b + 1
    OBVIOUS
  <2>2. i \in Standing(segs, k) => Ups(segs, i, k + 1) <= Names(segs, i, k + 1)
    <3>1. i \in Standing(segs, k) => Ups(segs, i, k) <= Names(segs, i, k)
      BY StandingNext, Zenon
    <3> QED BY <1>2, <2>1, <3>1, Zenon
  <2> QED BY <2>2, StandingNext, Zenon
<1>4. k + 1 \in Standing(segs, k + 1)
  BY StandingNext, Zenon
<1>5. /\ \A i \in Standing(segs, k) : i \in 1 .. k
      /\ \A i \in Standing(segs, k + 1) : i = k + 1 \/ i \in 1 .. k
  BY DEF Standing
<1>6. \A n \in 1 .. L + 1 : n = L + 1 \/ n \in 1 .. L
  BY <1>1
<1>7. ASSUME NEW n \in 1 .. L + 1
      PROVE  /\ at1[n] \in Standing(segs, k + 1) /\ out1[n] = segs[at1[n]]
             /\ Names(segs, at1[n], k + 1) = Ups(segs, at1[n], k + 1) + ((L + 1) - n)
  <2>1. CASE n = L + 1
    <3>1. Ups(segs, k + 1, k + 1) = 0 /\ Names(segs, k + 1, k + 1) = 0
      BY <1>1, NothingBetween
    <3>2. (L + 1) - (L + 1) = 0 /\ 0 + 0 = 0
      BY <1>1
    <3> QED BY <1>1, <1>4, <2>1, <3>1, <3>2, Zenon
  <2>2. CASE n \in 1 .. L
    <3>1. /\ at[n] \in Standing(segs, k) /\ out[n] = segs[at[n]] /\ at[n] \in 1 .. k
          /\ Names(segs, at[n], k) = Ups(segs, at[n], k) + (L - n)
      BY <1>5, <2>2, Zenon DEF Tracks, L
    <3>2. \A u, l \in Nat : \A m \in 1 .. l : (u + (l - m)) + 1 = u + ((l + 1) - m)
      OBVIOUS
    <3>3. Names(segs, at[n], k + 1) = Ups(segs, at[n], k + 1) + ((L + 1) - n)
      <4>1. /\ Ups(segs, at[n], k) \in Nat
            /\ Ups(segs, at[n], k + 1) = Ups(segs, at[n], k)
            /\ Names(segs, at[n], k + 1) = Names(segs, at[n], k) + 1
        BY <1>2, <3>1, Zenon
      <4>2. (Ups(segs, at[n], k) + (L - n)) + 1 = Ups(segs, at[n], k) + ((L + 1) - n)
        BY <1>1, <2>2, <3>2, <4>1, Zenon
      <4> QED BY <3>1, <4>1, <4>2, Zenon
    <3> QED BY <1>1, <1>3, <2>2, <3>1, <3>3, Zenon
  <2> QED BY <1>6, <2>1, <2>2
<1>8. ASSUME NEW m \in 1 .. L + 1, NEW n \in 1 .. L + 1, m < n PROVE at1[m] < at1[n]
  <2>1. m \in 1 .. L
    BY <1>1, <1>8
  <2>2. at[m] \in 1 .. k
    BY <1>5, <2>1, Zenon DEF Tracks, L
  <2>3. CASE n = L + 1
    BY <1>1, <2>1, <2>2, <2>3
  <2>4. CASE n \in 1 .. L
    BY <1>1, <1>8, <2>1, <2>4, Zenon DEF Tracks, L
  <2> QED BY <1>6, <2>3, <2>4
<1>9. ASSUME NEW i \in Standing(segs, k + 1) PROVE \E n \in 1 .. L + 1 : at1[n] = i
  <2>1. L + 1 \in 1 .. L + 1 /\ \A n \in 1 .. L : n \in 1 .. L + 1
    BY <1>1
  <2>2. CASE i = k + 1
    BY <1>1, <2>1, <2>2, Zenon
  <2>3. CASE i \in 1 .. k
    <3>1. i \in Standing(segs, k)
      BY <1>3, <2>3
    <3>2. PICK n \in 1 .. L : at[n] = i
      BY <3>1, Zenon DEF Tracks, L
    <3> QED BY <1>1, <2>1, <3>2, Zenon
  <2> QED BY <1>5, <2>2, <2>3
<1>10. Tracks(S, segs, k + 1, out1, at1)
  BY <1>1, <1>7, <1>8, <1>9, Zenon DEF Tracks
<1> QED BY <1>10 DEF out1, at1

(* t is s without its last element, if it has one.                         *)
Shortened(S, s, t) ==
  /\ t \in Seq(S) /\ Len(t) = (IF Len(s) = 0 THEN 0 ELSE Len(s) - 1)
  /\ \A n \in 1 .. Len(t) : t[n] = s[n]

LEMMA UpSegment ==
  ASSUME NEW S, NEW segs, NEW k \in Nat, NEW out, NEW at, Tracks(S, segs, k, out, at),
         segs[k + 1] = "..",
         NEW out1, Shortened(S, out, out1), NEW at1, Shortened(Nat, at, at1)
  PROVE  Tracks(S, segs, k + 1, out1, at1)
<1> DEFINE L == Len(at)
           M == Len(at1)
<1>0. /\ out1 \in Seq(S) /\ at1 \in Seq(Nat) /\ Len(out1) = M
      /\ \A n \in 1 .. M : out1[n] = out[n] /\ at1[n] = at[n]
  BY DEF Shortened, Tracks
<1>1. /\ L \in Nat /\ M = (IF L = 0 THEN 0 ELSE L - 1)
      /\ \A n \in 1 .. M : n \in 1 .. L /\ n # L
      /\ \A n \in 1 .. L : n = L \/ n \in 1 .. M
  <2>1. L \in Nat
    BY DEF Tracks
  <2>2. M = (IF L = 0 THEN 0 ELSE L - 1)
    BY DEF Shortened
  <2> HIDE DEF L, M
  <2> QED BY <2>1, <2>2
<1> HIDE DEF L, M
<1>2. ASSUME NEW i \in 1 .. k
      PROVE  /\ Ups(segs, i, k) \in Nat
             /\ Ups(segs, i, k + 1) = Ups(segs, i, k) + 1
             /\ Names(segs, i, k + 1) = Names(segs, i, k)
  <2>1. i \in Nat /\ i <= k
    OBVIOUS
  <2>2. ~IsName(segs[k + 1])
    BY DEF IsName
  <2>3. /\ Ups(segs, i, k) \in Nat /\ Names(segs, i, k) \in Nat
        /\ Ups(segs, i, k + 1) = Ups(segs, i, k) + 1
        /\ Names(segs, i, k + 1) = Names(segs, i, k) + 0
    BY <2>1, <2>2, CountsNext
  <2>4. \A a \in Nat : a + 0 = a
    OBVIOUS
  <2> QED BY <2>3, <2>4, Zenon
<1>3. /\ \A i \in Standing(segs, k) : i \in 1 .. k
      /\ \A i \in Standing(segs, k + 1) : i \in 1 .. k /\ i \in Standing(segs, k)
  <2>1. /\ Standing(segs, k) \subseteq 1 .. k /\ Standing(segs, k + 1) \subseteq 1 .. k + 1
        /\ \A i \in 1 .. k + 1 : i = k + 1 \/ i \in 1 .. k
    BY DEF Standing
  <2>2. k + 1 \notin Standing(segs, k + 1)
    BY StandingNext, Zenon DEF IsName
  <2> QED BY <2>1, <2>2, StandingNext, Zenon
<1>4. ASSUME NEW n \in 1 .. L
      PROVE  /\ at[n] \in 1 .. k /\ at[n] \in Standing(segs, k) /\ out[n] = segs[at[n]]
             /\ at[n] \in Standing(segs, k + 1) <=> n # L
             /\ n # L => Names(segs, at[n], k + 1) = Ups(segs, at[n], k + 1) + (M - n)
  <2>1. /\ at[n] \in Standing(segs, k) /\ out[n] = segs[at[n]]
        /\ Names(segs, at[n], k) = Ups(segs, at[n], k) + (L - n)
    BY Zenon DEF Tracks, L
  <2>2. at[n] \in 1 .. k
    BY <1>3, <2>1, Zenon
  <2>3. /\ Ups(segs, at[n], k) \in Nat
        /\ Ups(segs, at[n], k + 1) = Ups(segs, at[n], k) + 1
        /\ Names(segs, at[n], k + 1) = Ups(segs, at[n], k) + (L - n)
    BY <1>2, <2>1, <2>2, Zenon
  <2> DEFINE u == Ups(segs, at[n], k)
  <2>4. /\ u + 1 <= u + (L - n) <=> n # L
        /\ u + (L - n) = (u + 1) + ((L - 1) - n)
    <3>1. u \in Nat
      BY <2>3, Zenon
    <3>2. L \in Nat
      BY <1>1
    <3> HIDE DEF u
    <3> QED BY <3>1, <3>2
  <2>5. Ups(segs, at[n], k + 1) <= Names(segs, at[n], k + 1) <=> n # L
    BY <2>3, <2>4, Zenon
  <2>6. Names(segs, at[n], k + 1) = Ups(segs, at[n], k + 1) + ((L - 1) - n)
    BY <2>3, <2>4, Zenon
  <2>7. n # L => M = L - 1
    BY <1>1
  <2> QED BY <2>1, <2>2, <2>5, <2>6, <2>7, StandingNext, Zenon
<1>5. ASSUME NEW n \in 1 .. M
      PROVE  /\ at1[n] \in Standing(segs, k + 1) /\ out1[n] = segs[at1[n]]
             /\ Names(segs, at1[n], k + 1) = Ups(segs, at1[n], k + 1) + (M - n)
  BY <1>0, <1>1, <1>4, Zenon
<1>6. ASSUME NEW m \in 1 .. M, NEW n \in 1 .. M, m < n PROVE at1[m] < at1[n]
  <2>1. at[m] < at[n]
    BY <1>1, <1>6, Zenon DEF Tracks, L
  <2> QED BY <1>0, <2>1, Zenon
<1>7. ASSUME NEW i \in Standing(segs, k + 1) PROVE \E n \in 1 .. M : at1[n] = i
  <2>1. PICK n \in 1 .. L : at[n] = i
    BY <1>3, Zenon DEF Tracks, L
  <2>2. n \in 1 .. M
    BY <1>1, <1>4, <2>1, Zenon
  <2> QED BY <1>0, <2>1, <2>2, Zenon
<1> QED BY <1>0, <1>5, <1>6, <1>7, Zenon DEF Tracks, M

(* One segment more: CleanStep keeps track, when the path is rooted.       *)
LEMMA CleanStepTracks ==
  ASSUME NEW S, NEW segs, NEW k \in Nat, NEW out, segs[k + 1] \in S,
         \E at : Tracks(S, segs, k, out, at)
  PROVE  \E at : Tracks(S, segs, k + 1, CleanStep(TRUE, out, segs[k + 1]), at)
<1> DEFINE seg == segs[k + 1]
           out1 == CleanStep(TRUE, out, seg)
<1>1. PICK at : Tracks(S, segs, k, out, at)
  OBVIOUS
<1>2. /\ out \in Seq(S) /\ at \in Seq(Nat) /\ Len(out) = Len(at) /\ Len(at) \in Nat
  BY <1>1 DEF Tracks
<1> HIDE DEF seg
<1>3. CASE seg \in {"", "."}
  <2>1. out1 = out
    BY <1>3 DEF CleanStep
  <2>2. ~IsName(segs[k + 1]) /\ segs[k + 1] # ".."
    BY <1>3 DEF IsName, seg
  <2> HIDE DEF out1
  <2> QED BY <1>1, <2>1, <2>2, SkipSegment DEF seg, out1
<1>4. CASE seg = ".." /\ out = <<>>
  <2>1. out1 = out
    BY <1>4 DEF CleanStep
  <2>2. Len(at) = 0
    BY <1>2, <1>4
  <2>3. Tracks(S, segs, k + 1, out, at)
    <3>1. segs[k + 1] = ".." /\ Shortened(S, out, out) /\ Shortened(Nat, at, at)
      BY <1>2, <1>4, <2>2 DEF seg, Shortened
    <3> QED BY <1>1, <3>1, UpSegment
  <2> QED BY <2>1, <2>3 DEF seg
<1>5. CASE seg = ".." /\ out # <<>>
  <2>1. Len(out) \in Nat \ {0}
    BY <1>2, <1>5
  <2>2. Last(out) # ".."
    <3>1. Len(out) \in 1 .. Len(at)
      BY <1>2, <2>1
    <3>2. out[Len(out)] = segs[at[Len(out)]] /\ at[Len(out)] \in Standing(segs, k)
      BY <1>1, <3>1, Zenon DEF Tracks
    <3> QED BY <3>2 DEF Last, Standing, IsName
  <2>3. out1 = Front(out)
    BY <1>5, <2>2 DEF CleanStep
  <2>4. Shortened(S, out, Front(out)) /\ Shortened(Nat, at, Front(at))
    BY <1>2, <2>1 DEF Front, Shortened
  <2> HIDE DEF out1
  <2>5. Tracks(S, segs, k + 1, Front(out), Front(at))
    <3>1. segs[k + 1] = ".."
      BY <1>5 DEF seg
    <3> QED BY <1>1, <2>4, <3>1, UpSegment
  <2> QED BY <2>3, <2>5 DEF out1, seg
<1>6. CASE seg \notin {"", ".", ".."}
  <2>1. out1 = Append(out, seg)
    BY <1>6 DEF CleanStep
  <2>2. IsName(segs[k + 1])
    BY <1>6 DEF IsName, seg
  <2> HIDE DEF out1
  <2> QED BY <1>1, <2>1, <2>2, NameSegment DEF seg, out1
<1> QED BY <1>3, <1>4, <1>5, <1>6

(* The n-th of a set of places, counted as FileOf counts, is the n-th of   *)
(* their increasing enumeration.                                           *)
Enumerates(at, names) ==
  /\ at \in Seq(Nat)
  /\ \A n \in 1 .. Len(at) : at[n] \in names
  /\ \A m, n \in 1 .. Len(at) : m < n => at[m] < at[n]
  /\ \A i \in names : \E n \in 1 .. Len(at) : at[n] = i

LEMMA EnumerationOrder ==
  ASSUME NEW at, NEW names, Enumerates(at, names),
         NEW m \in 1 .. Len(at), NEW n \in 1 .. Len(at)
  PROVE  /\ at[m] \in Nat /\ at[n] \in Nat
         /\ at[m] <= at[n] <=> m <= n
         /\ at[m] = at[n] => m = n
<1>1. at[m] \in Nat /\ at[n] \in Nat
  BY DEF Enumerates
<1>2. (m < n => at[m] < at[n]) /\ (n < m => at[n] < at[m])
  BY Zenon DEF Enumerates
<1>3. m \in Int /\ n \in Int
  OBVIOUS
<1>4. \A a, b \in Int : (a < b \/ b < a \/ a = b) /\ a <= a
                        /\ (a < b => a <= b /\ ~(b <= a) /\ a # b)
  OBVIOUS
<1>5. at[m] \in Int /\ at[n] \in Int
  BY <1>1
<1> QED BY <1>1, <1>2, <1>3, <1>4, <1>5, Zenon

LEMMA CountUpTo ==
  ASSUME NEW at, NEW names, Enumerates(at, names), NEW n \in 1 .. Len(at)
  PROVE  Cardinality({j \in names : j <= at[n]}) = n
<1> DEFINE T == {j \in names : j <= at[n]}
           f == [m \in 1 .. n |-> at[m]]
<1>1. n \in Nat /\ \A m \in 1 .. n : m \in 1 .. Len(at) /\ m <= n
  BY DEF Enumerates
<1>2. \A m \in 1 .. n : f[m] = at[m] /\ at[m] \in T
  BY <1>1, EnumerationOrder, Zenon DEF Enumerates
<1>3. ASSUME NEW j \in T PROVE \E m \in 1 .. n : f[m] = j
  <2>1. PICK m \in 1 .. Len(at) : at[m] = j
    BY Zenon DEF Enumerates
  <2>2. m <= n
    BY <2>1, EnumerationOrder, Zenon
  <2>3. m \in 1 .. n
    BY <1>1, <2>2
  <2> QED BY <1>2, <2>1, <2>3
<1>4. \A l, m \in 1 .. n : f[l] = f[m] => l = m
  BY <1>1, <1>2, EnumerationOrder, Zenon
<1>5. f \in Bijection(1 .. n, T)
  <2>1. f \in [1 .. n -> T]
    BY <1>2
  <2> HIDE DEF f, T
  <2> QED BY <1>3, <1>4, <2>1 DEF Bijection, Injection, Surjection, IsInjective
<1>6. ExistsBijection(1 .. n, T)
  <2> HIDE DEF f, T
  <2> QED BY <1>5 DEF ExistsBijection
<1> HIDE DEF f, T
<1>7. Cardinality(T) = n
  BY <1>1, <1>6, FS_CountingElements
<1> QED BY <1>7 DEF T

LEMMA EnumerationLength ==
  ASSUME NEW at, NEW names, Enumerates(at, names)
  PROVE  Cardinality(names) = Len(at)
<1> DEFINE L == Len(at)
<1>1. L \in Nat
  BY DEF Enumerates
<1>2. CASE L = 0
  <2>1. names = {}
    BY <1>2 DEF Enumerates
  <2> QED BY <1>2, <2>1, FS_EmptySet
<1>3. CASE L # 0
  <2>1. L \in 1 .. L
    BY <1>1, <1>3
  <2>2. Cardinality({j \in names : j <= at[L]}) = L
    BY <2>1, CountUpTo
  <2>3. \A j \in names : j <= at[L]
    <3> SUFFICES ASSUME NEW j \in names PROVE j <= at[L]
      OBVIOUS
    <3>1. PICK m \in 1 .. L : at[m] = j
      BY Zenon DEF Enumerates
    <3>2. m <= L
      BY <1>1
    <3> QED BY <2>1, <3>1, <3>2, EnumerationOrder, Zenon
  <2>4. {j \in names : j <= at[L]} = names
    BY <2>3
  <2> QED BY <2>2, <2>4
<1> QED BY <1>2, <1>3

LEMMA NthOfEnumeration ==
  ASSUME NEW at, NEW names, Enumerates(at, names), NEW n \in 1 .. Len(at)
  PROVE  (CHOOSE i \in names : Cardinality({j \in names : j <= i}) = n) = at[n]
<1> DEFINE Upto(i) == Cardinality({j \in names : j <= i})
<1>1. at[n] \in names /\ Upto(at[n]) = n
  BY CountUpTo, Zenon DEF Enumerates
<1>2. ASSUME NEW i \in names, Upto(i) = n PROVE i = at[n]
  <2>1. PICK m \in 1 .. Len(at) : at[m] = i
    BY Zenon DEF Enumerates
  <2>2. Upto(i) = m
    BY <2>1, CountUpTo, Zenon
  <2> QED BY <1>2, <2>1, <2>2
<1>3. (CHOOSE i \in names : Upto(i) = n) = at[n]
  <2> HIDE DEF Upto
  <2> QED BY <1>1, <1>2
<1> QED BY <1>3

----------------------------------------------------------------------------
(* The loop of filepath.Clean: f holds what it has put out after each      *)
(* segment.                                                                *)
IsCleaning(f, rooted, segs, n) ==
  f = [k \in 0 .. n |-> IF k = 0 THEN <<>> ELSE CleanStep(rooted, f[k - 1], segs[k])]

LEMMA CleaningExists ==
  ASSUME NEW rooted, NEW segs, NEW n \in Nat PROVE \E f : IsCleaning(f, rooted, segs, n)
<1> DEFINE Bad == {m \in Nat : ~ \E f : IsCleaning(f, rooted, segs, m)}
<1>1. SUFFICES ASSUME Bad # {} PROVE FALSE
  OBVIOUS
<1>2. PICK m \in Bad : \A k \in Bad : m <= k
  <2> HIDE DEF Bad
  <2>1. Bad \in SUBSET Nat
    BY DEF Bad
  <2> QED BY <1>1, <2>1, LeastNumber
<1>3. m # 0
  <2> DEFINE z == [k \in 0 .. 0 |-> <<>>]
  <2>1. \A k \in 0 .. 0 : k = 0
    OBVIOUS
  <2>2. z = [k \in 0 .. 0 |-> IF k = 0 THEN <<>> ELSE CleanStep(rooted, z[k - 1], segs[k])]
    BY <2>1, Zenon
  <2>3. IsCleaning(z, rooted, segs, 0)
    BY <2>2 DEF IsCleaning
  <2> QED BY <1>2, <2>3
<1>4. PICK f : IsCleaning(f, rooted, segs, m - 1)
  <2>1. m - 1 \in Nat /\ m - 1 \notin Bad
    BY <1>2, <1>3
  <2> QED BY <2>1
<1> DEFINE h == [k \in 0 .. m |-> IF k = 0 THEN <<>> ELSE CleanStep(rooted, f[k - 1], segs[k])]
<1>5. ASSUME NEW k \in 1 .. m PROVE h[k - 1] = f[k - 1]
  <2>1. k - 1 \in 0 .. m - 1 /\ k - 1 \in 0 .. m
    BY <1>2
  <2> QED BY <1>4, <2>1, Zenon DEF IsCleaning
<1>6. h = [k \in 0 .. m |-> IF k = 0 THEN <<>> ELSE CleanStep(rooted, h[k - 1], segs[k])]
  <2>1. ASSUME NEW k \in 0 .. m
        PROVE  h[k] = IF k = 0 THEN <<>> ELSE CleanStep(rooted, h[k - 1], segs[k])
    <3>1. k # 0 => k \in 1 .. m
      BY <1>2
    <3>2. h[k] = IF k = 0 THEN <<>> ELSE CleanStep(rooted, f[k - 1], segs[k])
      OBVIOUS
    <3> HIDE DEF h
    <3> QED BY <1>5, <3>1, <3>2, Zenon
  <2> QED BY <2>1, Zenon
<1>7. IsCleaning(h, rooted, segs, m)
  BY <1>6 DEF IsCleaning
<1> QED BY <1>2, <1>7

LEMMA CleanOf ==
  ASSUME NEW path, NEW n, IsPath(path.segs, n)
  PROVE  \E f : /\ IsCleaning(f, path.rooted, path.segs, n)
                /\ Clean(path) = Path(path.rooted, f[n])
<1> DEFINE f == CHOOSE g : IsCleaning(g, path.rooted, path.segs, n)
<1>1. n \in Nat /\ Len(path.segs) = n
  BY DEF IsPath
<1>2. IsCleaning(f, path.rooted, path.segs, n)
  BY <1>1, CleaningExists
<1>3. Clean(path) = Path(path.rooted, f[n])
  BY <1>1, Zenon DEF Clean, IsCleaning
<1> QED BY <1>2, <1>3

(* A cleaned rooted path is the names that stand in it.                    *)
LEMMA CleaningTracks ==
  ASSUME NEW S, NEW segs \in Seq(S), NEW n, IsPath(segs, n), NEW f,
         IsCleaning(f, TRUE, segs, n)
  PROVE  \E at : Tracks(S, segs, n, f[n], at)
<1> DEFINE Fine(k) == \E at : Tracks(S, segs, k, f[k], at)
           Bad == {k \in 0 .. n : ~Fine(k)}
<1>1. n \in Nat /\ Len(segs) = n
  BY DEF IsPath
<1>2. SUFFICES ASSUME Bad # {} PROVE FALSE
  <2>1. n \in 0 .. n
    BY <1>1
  <2> QED BY <2>1
<1>3. PICK m \in 0 .. n : ~Fine(m) /\ \A k \in 0 .. n : k < m => Fine(k)
  <2> HIDE DEF Fine
  <2>1. PICK b \in Bad : \A k \in Bad : b <= k
    <3> HIDE DEF Bad
    <3>1. Bad \in SUBSET Nat
      BY <1>1 DEF Bad
    <3> QED BY <1>2, <3>1, LeastNumber
  <2> QED BY <1>1, <2>1
<1> HIDE DEF Bad
<1>4. CASE m = 0
  <2>1. f[0] = <<>>
    BY <1>3, <1>4, Zenon DEF IsCleaning
  <2>2. Standing(segs, 0) = {}
    BY DEF Standing
  <2>3. Tracks(S, segs, 0, <<>>, <<>>)
    <3>1. /\ <<>> \in Seq(S) /\ <<>> \in Seq(Nat) /\ Len(<<>>) = 0
          /\ \A i \in 1 .. 0 : FALSE
      OBVIOUS
    <3> QED BY <2>2, <3>1, Zenon DEF Tracks
  <2> QED BY <1>3, <1>4, <2>1, <2>3, Zenon
<1>5. CASE m # 0
  <2>1. /\ m - 1 \in Nat /\ m - 1 \in 0 .. n /\ m - 1 < m /\ (m - 1) + 1 = m /\ m \in 1 .. n
    BY <1>1, <1>3, <1>5
  <2>2. Fine(m - 1)
    BY <1>3, <2>1, Zenon
  <2>3. f[m] = CleanStep(TRUE, f[m - 1], segs[m])
    BY <1>3, <1>5, Zenon DEF IsCleaning
  <2>4. segs[m] \in S
    BY <1>1, <2>1
  <2>5. \E at : Tracks(S, segs, (m - 1) + 1, CleanStep(TRUE, f[m - 1], segs[(m - 1) + 1]), at)
    <3>1. segs[(m - 1) + 1] \in S
      BY <2>1, <2>4, Zenon
    <3> QED BY <2>1, <2>2, <3>1, CleanStepTracks
  <2>6. Fine(m)
    BY <2>1, <2>3, <2>5, Zenon
  <2> QED BY <1>3, <2>6
<1> QED BY <1>4, <1>5

(* filepath.Clean of a rooted path names the file that head opens.         *)
LEMMA CleanIsTheFile ==
  ASSUME NEW S, NEW path, path.rooted = TRUE, path.segs \in Seq(S)
  PROVE  /\ Clean(path) = Path(TRUE, FileOf(path))
         /\ FileOf(path) \in Seq(S)
<1> DEFINE segs  == path.segs
           n     == Len(segs)
           names == Counts(segs)
<1>1. IsPath(segs, n)
  BY DEF IsPath
<1>2. names = Standing(segs, n)
  BY <1>1, Zenon DEF Counts, Standing, Ups, Names, IsPath
<1>3. PICK f : /\ IsCleaning(f, TRUE, segs, n)
               /\ Clean(path) = Path(TRUE, f[n])
  BY <1>1, CleanOf
<1>4. PICK at : Tracks(S, segs, n, f[n], at)
  BY <1>1, <1>3, CleaningTracks
<1>5. Enumerates(at, names)
  BY <1>2, <1>4, Zenon DEF Tracks, Enumerates
<1>6. Cardinality(names) = Len(at)
  BY <1>5, EnumerationLength
<1>7. FileOf(path) = [k \in 1 .. Len(at) |-> segs[at[k]]]
  <2> HIDE DEF names
  <2>1. FileOf(path) = [k \in 1 .. Cardinality(names) |->
           segs[CHOOSE i \in names : Cardinality({j \in names : j <= i}) = k]]
    BY Zenon DEF FileOf, names
  <2>2. \A k \in 1 .. Len(at) :
          (CHOOSE i \in names : Cardinality({j \in names : j <= i}) = k) = at[k]
    BY <1>5, NthOfEnumeration, Zenon
  <2> QED BY <1>6, <2>1, <2>2, Zenon
<1>8. f[n] = [k \in 1 .. Len(at) |-> segs[at[k]]] /\ f[n] \in Seq(S)
  <2>1. /\ f[n] \in Seq(S) /\ Len(f[n]) = Len(at)
        /\ \A k \in 1 .. Len(at) : f[n][k] = segs[at[k]]
    BY <1>4, Zenon DEF Tracks
  <2> DEFINE out == f[n]
  <2>2. DOMAIN out = 1 .. Len(out) /\ out = [k \in DOMAIN out |-> out[k]]
    BY <2>1
  <2> QED BY <2>1, <2>2, Zenon
<1> QED BY <1>3, <1>7, <1>8, Zenon

(* The file of a path lies in the directory of a mount.                    *)
Inside(path, mount) ==
  /\ path.rooted
  /\ UnsafeName \notin Range(path.segs)
  /\ IF FileOf(mount) = <<>> THEN FileOf(path) = <<>>
     ELSE IsPrefix(FileOf(mount), FileOf(path))

(* Paths of segments, of which the mount is rooted.                        *)
Comparable(S, path, mount) ==
  /\ path.rooted \in BOOLEAN /\ path.segs \in Seq(S)
  /\ mount.rooted = TRUE /\ mount.segs \in Seq(S)

(* The check of the code and the reference definition agree.               *)
Agrees(path, mount) == validateArtifactPath(path, mount) <=> Inside(path, mount)

LEMMA AcceptedIffInside ==
  ASSUME NEW S, NEW path, NEW mount, Comparable(S, path, mount)
  PROVE  Agrees(path, mount)
<1> USE DEF Comparable, Agrees
<1>1. Clean(path).rooted = path.rooted /\ Clean(mount).rooted = TRUE
  BY DEF Clean, Path
<1>2. Clean(mount) = Path(TRUE, FileOf(mount)) /\ FileOf(mount) \in Seq(S)
  BY CleanIsTheFile
<1>3. mount # NoPath
  BY DEF NoPath
<1>4. CASE path.rooted = FALSE
  <2>1. Clean(path) # Clean(mount) /\ ~HasPrefix(Clean(path), Clean(mount))
    BY <1>1, <1>4 DEF HasPrefix
  <2> QED BY <1>4, <2>1 DEF validateArtifactPath, Inside
<1>5. CASE path.rooted = TRUE
  <2>1. Clean(path) = Path(TRUE, FileOf(path)) /\ FileOf(path) \in Seq(S)
    BY <1>5, CleanIsTheFile
  <2>2. path # NoPath
    BY <1>5 DEF NoPath
  <2>3. Clean(path) = Clean(mount) <=> FileOf(path) = FileOf(mount)
    <3>1. Clean(path).segs = FileOf(path) /\ Clean(mount).segs = FileOf(mount)
      BY <1>2, <2>1 DEF Path
    <3> QED BY <1>2, <2>1, <3>1, Zenon
  <2>4. HasPrefix(Clean(path), Clean(mount)) <=>
          FileOf(mount) # <<>> /\ IsStrictPrefix(FileOf(mount), FileOf(path))
    BY <1>2, <2>1 DEF Path, HasPrefix
  <2>5. IsPrefix(FileOf(mount), FileOf(path)) <=>
          FileOf(mount) = FileOf(path) \/ IsStrictPrefix(FileOf(mount), FileOf(path))
    <3>1. IsPrefix(FileOf(mount), FileOf(mount))
      BY <1>2 DEF IsPrefix
    <3> QED BY <3>1, Zenon DEF IsStrictPrefix
  <2> QED BY <1>3, <1>5, <2>2, <2>3, <2>4, <2>5 DEF validateArtifactPath, Inside
<1> QED BY <1>4, <1>5

LEMMA ShortSequences ==
  ASSUME NEW S, NEW a \in S, NEW b \in S, NEW c \in S, NEW d \in S
  PROVE  <<>> \in Seq(S) /\ <<a>> \in Seq(S) /\ <<a, b>> \in Seq(S)
         /\ <<a, c, b, d, c>> \in Seq(S)
<1>1. <<>> \in Seq(S)
  OBVIOUS
<1>2. <<a>> \in Seq(S)
  OBVIOUS
<1>3. <<a, b>> \in Seq(S)
  OBVIOUS
<1>4. <<a, c, b, d, c>> \in Seq(S)
  OBVIOUS
<1> QED BY <1>1, <1>2, <1>3, <1>4

LEMMA MountsAreRooted ==
  ASSUME NEW mount \in Mounts PROVE mount.rooted = TRUE /\ mount.segs \in Seq(Segments)
<1>1. \/ mount = Path(TRUE, <<>>) \/ mount = Path(TRUE, <<"mnt">>)
      \/ mount = Path(TRUE, <<"mnt", "data">>)
      \/ mount = Path(TRUE, <<"mnt", "", "data", "..", "">>)
  BY Zenon DEF Mounts
<1>2. \A s : Path(TRUE, s).rooted = TRUE /\ Path(TRUE, s).segs = s
  BY DEF Path
<1>3. "mnt" \in Segments /\ "data" \in Segments /\ "" \in Segments /\ ".." \in Segments
  BY DEF Segments
<1>4. /\ <<>> \in Seq(Segments) /\ <<"mnt">> \in Seq(Segments)
      /\ <<"mnt", "data">> \in Seq(Segments)
      /\ <<"mnt", "", "data", "..", "">> \in Seq(Segments)
  BY <1>3, ShortSequences, Zenon
<1> QED BY <1>1, <1>2, <1>4, Zenon

(***************************************************************************)
(* read_artifact_head accepts exactly the paths whose file, found by       *)
(* walking them name by name, lies in the directory of the mount: for      *)
(* paths of any length, however often they go up and come back, in a tree  *)
(* without symbolic links.                                                 *)
(***************************************************************************)
THEOREM SpecAcceptedIsInsideUnlessLinked == Spec => []AcceptedIsInsideUnlessLinked
<1>1. ASSUME Init, input.fn = "path", NEW mount \in Mounts
      PROVE  validateArtifactPath(input.path, mount) <=> Inside(input.path, mount)
  <2>1. PICK path \in Paths : input.path = path
    BY <1>1, InputOf
  <2>2. path.rooted \in BOOLEAN /\ path.segs \in Seq(Segments)
    <3>1. PICK rooted \in BOOLEAN, segs \in SeqOf(Segments, MaxSegments) :
            path = Path(rooted, segs)
      BY DEF Paths
    <3>2. segs \in Seq(Segments)
      BY FunctionsAssumption, SequenceOfSeqOf
    <3> QED BY <3>1, <3>2 DEF Path
  <2>3. mount.rooted = TRUE /\ mount.segs \in Seq(Segments)
    BY MountsAreRooted
  <2>4. Comparable(Segments, path, mount)
    BY <2>2, <2>3, Zenon DEF Comparable
  <2>5. Agrees(path, mount)
    BY <2>4, AcceptedIffInside, Zenon
  <2> QED BY <2>1, <2>5, Zenon DEF Agrees
<1>2. Init => AcceptedIsInsideUnlessLinked
  BY <1>1, Zenon DEF AcceptedIsInsideUnlessLinked, Inside
<1> QED BY <1>2, InputStays, PTL
=====================================================================================
