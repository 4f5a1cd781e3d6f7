------------------------------- MODULE ArtifactText -------------------------------
(***************************************************************************)
(* What read_artifact_head does with text: the check of the path           *)
(* (validateArtifactPath, internal/mcp/handlers.go), and the lines it      *)
(* returns and counts (internal/k8s/reader.go).                            *)
(*                                                                         *)
(* A path is a sequence of segments, those between its slashes, empty ones *)
(* included; a text is a sequence of characters, of which only the newline *)
(* matters.                                                                *)
(***************************************************************************)
EXTENDS Naturals, Sequences, FiniteSets, SequencesExt

NoPath == [rooted |-> FALSE, segs |-> <<>>]   \* the empty string
Path(rooted, segs) == [rooted |-> rooted, segs |-> segs]

\* A name with a character that safePathRegexp does not allow.
UnsafeName == "na me"

\* filepath.Clean; "." is the relative path of no segments, "/" the rooted one.
CleanStep(rooted, out, seg) ==
  CASE seg \in {"", "."} -> out
    [] seg = ".." /\ (out = <<>> \/ Last(out) = "..") ->
         IF rooted THEN out ELSE Append(out, "..")
    [] seg = ".." /\ out # <<>> /\ Last(out) # ".." -> Front(out)
    [] OTHER -> Append(out, seg)

Clean(path) ==
  LET out[n \in 0 .. Len(path.segs)] ==
        IF n = 0 THEN <<>> ELSE CleanStep(path.rooted, out[n - 1], path.segs[n])
  IN  Path(path.rooted, out[Len(path.segs)])

\* strings.HasPrefix(cleaned, cleanMount+"/") of two clean paths: neither "/" nor
\* "." becomes the prefix of a clean path by a slash.
HasPrefix(cleaned, cleanMount) ==
  /\ cleanMount.segs # <<>>
  /\ cleaned.rooted = cleanMount.rooted
  /\ IsStrictPrefix(cleanMount.segs, cleaned.segs)

\* Mutant: the path is compared as it was given.
validateArtifactPath_NotCleaned(path, mountPath) ==
  /\ path # NoPath
  /\ mountPath # NoPath
  /\ UnsafeName \notin Range(path.segs)
  /\ path = Clean(mountPath) \/ HasPrefix(path, Clean(mountPath))

validateArtifactPath(path, mountPath) ==
  /\ path # NoPath
  /\ mountPath # NoPath
  /\ UnsafeName \notin Range(path.segs)
  /\ Clean(path) = Clean(mountPath) \/ HasPrefix(Clean(path), Clean(mountPath))

----------------------------------------------------------------------------
Newlines(s) == {i \in DOMAIN s : s[i] = "\n"}

\* The handler and the builder of the pod both ask for 100 lines by default.
Lines(asked) == IF asked <= 0 THEN 100 ELSE asked

\* What `head -n lines` prints: the characters that fewer newlines precede.
HeadOf(file, lines) ==
  SubSeq(file, 1, Cardinality({i \in DOMAIN file :
                     Cardinality({j \in Newlines(file) : j < i}) < lines}))

\* getPodLogs reads MaxLogBytes of that at most.
getPodLogs(printed, maxLogBytes) ==
  SubSeq(printed, 1, IF Len(printed) < maxLogBytes THEN Len(printed) ELSE maxLogBytes)

\* Mutant: a trailing newline counts as one more line.
countLines_Trailing(s) == IF s = <<>> THEN 0 ELSE 1 + Cardinality(Newlines(s))

countLines(s) ==
  IF s = <<>> THEN 0
  ELSE 1 + Cardinality(Newlines(s)) - (IF Last(s) = "\n" THEN 1 ELSE 0)
===================================================================================
