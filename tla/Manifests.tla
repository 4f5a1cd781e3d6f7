--------------------------------- MODULE Manifests ---------------------------------
(***************************************************************************)
(* From the environment to the manifests: the configuration of the server  *)
(* (internal/mcp/server.go) and of its Kubernetes client (client.go), what *)
(* the handlers make of it (handlers.go), and what the builders put into   *)
(* the objects they submit (mpijob.go, jobset.go, job.go, reader.go).      *)
(*                                                                         *)
(* Of a manifest only the fields are kept that must agree with each other, *)
(* with those of another manifest, or with what the cluster does.  An      *)
(* unset variable, option or field is "".                                  *)
(***************************************************************************)
EXTENDS Naturals, Sequences, SequencesExt

CONSTANT RandomDelimiters   \* the delimiters "CPPEOF_" and a random string make

ASSUME DelimitersAssumption ==
  RandomDelimiters \cap {"$(MOUNT_PATH)", "$$", "$", "/mnt/data"} = {}

OrElse(value, default) == IF value # "" THEN value ELSE default

\* env[key] is the value of an environment variable.
getEnvOrDefault(env, key, default) == OrElse(env[key], default)

DefaultServerConfig(env) ==
  [PVCName      |-> getEnvOrDefault(env, "PVC_NAME", "compute-data"),
   PVCMountPath |-> getEnvOrDefault(env, "PVC_MOUNT_PATH", "/mnt/data")]

----------------------------------------------------------------------------
(* NewClient.  files[path] is a kubeconfig file: its current context, and  *)
(* the namespace (or none) of each of its contexts.                        *)

NoClient == [server |-> "", namespace |-> "", context |-> ""]

\* clientcmd, external: it loads the file, and uses the context of the override.
UsedContext(file, override) == OrElse(override, file.current)

\* Mutant: the environment goes before the option.
kubeContext_EnvFirst(options, env) == OrElse(env["KUBE_CONTEXT"], options.context)

kubeContext(options, env) == OrElse(options.context, env["KUBE_CONTEXT"])
kubeconfig(options, env)  ==
  OrElse(OrElse(options.kubeconfig, env["KUBECONFIG"]), "~/.kube/config")

\* server stands for what the client connects to; context is what it reports.
NewClient(options, env, files) ==
  LET path == kubeconfig(options, env)
      file == files[path]
      used == UsedContext(file, kubeContext(options, env))
  IN  IF path \notin DOMAIN files THEN NoClient
      ELSE IF used \notin DOMAIN file.namespaces THEN NoClient
      ELSE [server    |-> <<path, used>>,
            namespace |-> OrElse(file.namespaces[used], "default"),
            context   |-> OrElse(kubeContext(options, env), file.current)]

----------------------------------------------------------------------------
(* The builders.  data is the volume all containers of an object mount.    *)

NoVolume == [claim |-> "", mountPath |-> ""]
Volume(cfg) == IF cfg.PVCName = "" THEN NoVolume
               ELSE [claim |-> cfg.PVCName, mountPath |-> OrElse(cfg.MountPath, "/mnt/data")]

\* The code, as its lines, has a line that is the delimiter: the only one, the
\* first, the last, or one in between.
HasLine(code, delimiter) ==
  \/ code = <<delimiter>>
  \/ Len(code) > 1 /\ Head(code) = delimiter
  \/ Len(code) > 1 /\ Last(code) = delimiter
  \/ \E i \in 2 .. Len(code) - 1 : code[i] = delimiter

\* Mutant: the first and the last line have no newline on both sides.
uniqueHeredocDelimiter_Inside(code) ==
  IF \E i \in 2 .. Len(code) - 1 : code[i] = "CPPEOF"
  THEN {d \in RandomDelimiters : ~HasLine(code, d)} ELSE {"CPPEOF"}

\* The delimiters it may return: CPPEOF, or else the first random one that is not
\* in the code.
uniqueHeredocDelimiter(code) ==
  IF HasLine(code, "CPPEOF")
  THEN {d \in RandomDelimiters : ~HasLine(code, d)} ELSE {"CPPEOF"}

\* C++ is a script of sh, whose lines after that of the here-document these are;
\* everything else goes to python as an argument.
buildMPICommand(cfg) ==
  IF cfg.Language \in {"cpp", "c++"}
  THEN {[shell |-> TRUE, delimiter |-> d, ranks |-> cfg.Replicas,
         text |-> cfg.Code \o <<d, "mpicxx", "mpirun">>] : d \in uniqueHeredocDelimiter(cfg.Code)}
  ELSE {[shell |-> FALSE, delimiter |-> "", ranks |-> cfg.Replicas, text |-> cfg.Code]}

\* The variables of the containers that buildMPIContainer sets.
ContainerEnv(cfg) == [MOUNT_PATH |-> OrElse(cfg.MountPath, "/mnt/data")]

\* Mutant: the launcher is a slot as well.
BuildMPIJob_LauncherToo(cfg) ==
  {[namespace |-> OrElse(cfg.Namespace, "default"), data |-> Volume(cfg),
    env |-> ContainerEnv(cfg),
    launcher |-> launcher, workers |-> cfg.Replicas - 1, slotsPerWorker |-> 1]
     : launcher \in buildMPICommand(cfg)}

\* The manifests it may build, of a config with a name, replicas and code.
BuildMPIJob(cfg) ==
  {[namespace |-> OrElse(cfg.Namespace, "default"), data |-> Volume(cfg),
    env |-> ContainerEnv(cfg),
    launcher |-> launcher, workers |-> cfg.Replicas, slotsPerWorker |-> 1]
     : launcher \in buildMPICommand(cfg)}

\* Mutant: as many Jobs as there are replicas, of one pod each.
BuildJobSet_ManyJobs(cfg) ==
  [namespace |-> OrElse(cfg.Namespace, "default"), data |-> Volume(cfg),
   jobs |-> cfg.Replicas, parallelism |-> 1, completions |-> 1, completionMode |-> "Indexed"]

\* One replicated Job, of as many indexed completions as there are replicas.
BuildJobSet(cfg) ==
  [namespace |-> OrElse(cfg.Namespace, "default"), data |-> Volume(cfg),
   jobs |-> 1, parallelism |-> cfg.Replicas, completions |-> cfg.Replicas,
   completionMode |-> "Indexed"]

BuildReducerJob(cfg) ==
  [namespace |-> OrElse(cfg.Namespace, "default"), data |-> Volume(cfg)]

\* A config without a path or a claim is refused.
BuildReaderPod(cfg) ==
  [namespace |-> OrElse(cfg.Namespace, "default"), data |-> Volume(cfg)]

----------------------------------------------------------------------------
(* The handlers.                                                           *)

resolveNamespace(client, ns) == OrElse(ns, client.namespace)

\* What the submit handlers configure the builders with, of a valid input.
SubmitConfig(client, config, in) ==
  [Namespace |-> resolveNamespace(client, in.namespace),
   Replicas  |-> in.replicas, Code |-> in.code, Language |-> in.language,
   PVCName   |-> config.PVCName, MountPath |-> config.PVCMountPath]

\* Mutant: the pod is created in the namespace "default".
ReaderConfig_Default(client, config) ==
  [Namespace |-> "default", PVCName |-> config.PVCName, MountPath |-> config.PVCMountPath]

\* The reader is given the client's namespace, whatever the job was given.
ReaderConfig(client, config) ==
  [Namespace |-> client.namespace,
   PVCName   |-> config.PVCName, MountPath |-> config.PVCMountPath]

\* The pod of a read: an empty namespace becomes the client's before the builder
\* sees it.
ReadArtifactHead(client, cfg) ==
  BuildReaderPod([cfg EXCEPT !.Namespace = OrElse(@, client.namespace)])

----------------------------------------------------------------------------
(* What the cluster makes of the manifests (external).                     *)

\* The kubelet puts the value of a container's variable for $(NAME) in its arguments,
\* and one dollar sign for two.  (A reference lies within a line here.)
Expanded(line, env) ==
  CASE line = "$(MOUNT_PATH)" -> env.MOUNT_PATH
    [] line = "$$"            -> "$"
    [] OTHER                  -> line
ExpandedLines(lines, env) == [i \in DOMAIN lines |-> Expanded(lines[i], env)]

\* sh takes as the here-document what comes before the first line that is the
\* delimiter, and runs what comes after it.
HereDocument(text, delimiter) ==
  LET at == CHOOSE i \in DOMAIN text :
              text[i] = delimiter /\ \A j \in 1 .. i - 1 : text[j] # delimiter
  IN  [program |-> SubSeq(text, 1, at - 1), rest |-> SubSeq(text, at + 1, Len(text))]

\* The program that mpirun starts, and the commands before it.
Runs(job) ==
  LET text == ExpandedLines(job.launcher.text, job.env)
  IN  IF job.launcher.shell THEN HereDocument(text, job.launcher.delimiter)
      ELSE [program |-> text, rest |-> <<>>]

\* The Job controller starts a pod for every completion of every Job, and gives it
\* its index.
PodsOf(jobset) == (1 .. jobset.jobs) \X (0 .. jobset.completions - 1)
JobCompletionIndex(pod) == pod[2]

\* Where a container of the object finds its data: a claim belongs to a namespace.
Storage(object) == [namespace |-> object.namespace, data |-> object.data]
====================================================================================
