------------------------------ MODULE ToolCalls ------------------------------
(***************************************************************************)
(* What becomes of an upstream tool call before the client sees it         *)
(* (internal/handler/stream_handler.go, internal/toolname): its name and   *)
(* fields are the client's, paths of the model's sandbox or of another     *)
(* machine are moved into the request's working directory, incomplete      *)
(* calls go, and so does a side effect that was asked for before, in this  *)
(* reply or, successfully, since the user last spoke.                      *)
(*                                                                         *)
(* A path is a root ("" relative, "/" or a drive) and its parts.  A shell  *)
(* command is its form, the paths it holds and what its text tells.        *)
(***************************************************************************)
EXTENDS Naturals, Sequences, SequencesExt, FiniteSets, FiniteSetsExt

CONSTANTS
  Calls,      \* upstream calls: [name, filePath, path, body, command]
  Earlier,    \* calls of earlier replies, as the client carried them out
  Existing,   \* the files and directories there are, as parts below "/"
  Workdir,    \* parts below "/", the last of them the project's name
  NoPath, NoCommand,
  MaxCalls, MaxTurns   \* bounds

Paths == [root : {"", "/", "C:"}, parts : Seq(STRING)]
NoKey == <<>>

\* The working directory is clean; the client's own calls have the client's fields.
ASSUME ToolCallsAssumption ==
  /\ {MaxCalls, MaxTurns} \subseteq Nat
  /\ Workdir # <<>> /\ Workdir \in Seq(STRING \ {".", ".."})
  /\ NoPath \notin Paths
  /\ Calls \cup Earlier \subseteq
       [name : STRING, filePath : Paths \cup {NoPath}, path : Paths \cup {NoPath}, body : STRING,
        command : {call.command : call \in Calls \cup Earlier}]
  /\ \A call \in Earlier : call.name \in {"Write", "Edit"} => call.filePath # NoPath

VARIABLES
  toolPc, conversation,
  dedup,              \* keys of the side effects asked for
  given, dropped      \* calls the client gets, and calls taken for repeated ones

toolVars == <<toolPc, conversation, dedup, given, dropped>>

ToolsInit ==
  /\ toolPc = "conversation" /\ conversation = <<>>
  /\ dedup = {} /\ given = <<>> /\ dropped = <<>>

-----------------------------------------------------------------------------
(* Paths. *)

\* One more part of a path that has been cleaned so far: ".." takes back the part before
\* it; where there is none it stays, except at the root.
CleanPart(done, part, rooted) ==
  CASE part = "."            -> done
    [] part \notin {".", ".."} -> Append(done, part)
    [] part = ".." /\ done # <<>> /\ Last(done) # ".." -> Front(done)
    [] part = ".." /\ ~(done # <<>> /\ Last(done) # "..") -> IF rooted THEN done ELSE Append(done, part)

\* filepath.Clean: a path of a drive is one name on this system.
CleanParts(parts, rooted) == FoldLeft(LAMBDA done, part : CleanPart(done, part, rooted), <<>>, parts)

CleanPath(path) == IF path.root = "C:" THEN path ELSE [path EXCEPT !.parts = CleanParts(@, path.root = "/")]

Local(parts) == [root |-> "/", parts |-> CleanParts(parts, TRUE)]
InWorkdir(tail) == Local(Workdir \o tail)

isToolAbsolutePath(path) == path.root # ""

pathExists(path) == path.parts \in Existing

sameOrWithinPath(path) == path.root = "/" /\ IsPrefix(Workdir, CleanPath(path).parts)

\* Parts as they stand for the last parts of a path; a drive is one of them.
splitPathSegments(path) == (IF path.root = "C:" THEN <<"C:">> ELSE <<>>) \o CleanPath(path).parts

\* filepath.Base: all of a path of a drive.
Base(path) == IF path.root = "C:" THEN <<"C:...">> ELSE <<Last(CleanPath(path).parts)>>

InSandbox(path) == path.root = "/" /\ Len(path.parts) >= 3 /\ SubSeq(path.parts, 1, 2) = <<"tmp", "cc-agent">>

OfProject(path) == InSandbox(path) /\ Len(path.parts) >= 4 /\ path.parts[4] = "project"

\* Below the sandbox's project: the same below the working directory.
rebaseSandboxPathToWorkdir(path) == InWorkdir(SubSeq(path.parts, 5, Len(path.parts)))

isPlaceholderDirectoryListPath(path) == path = [root |-> "/", parts |-> <<"home", "user", "app">>]

\* The longest end of the path, of four parts at most, that exists below the
\* working directory.
ExistingTail(path) ==
  LET parts == splitPathSegments(path)
      tails == {k \in 1..Len(parts) : k <= 4 /\ pathExists(InWorkdir(SubSeq(parts, Len(parts) - k + 1, Len(parts))))}
  IN  IF tails = {} THEN path
      ELSE InWorkdir(SubSeq(parts, Len(parts) - Max(tails) + 1, Len(parts)))

rebaseAbsolutePathToWorkdir(path) ==
  CASE OfProject(path)                                             -> rebaseSandboxPathToWorkdir(path)
    [] ~OfProject(path) /\ isPlaceholderDirectoryListPath(path)    -> Local(Workdir)
    [] ~OfProject(path) /\ ~isPlaceholderDirectoryListPath(path)   ->
         IF ~isToolAbsolutePath(path) \/ sameOrWithinPath(path) THEN path ELSE ExistingTail(path)

\* After the first part of that name, if the file or its directory exists.
rebaseWritePathAfterSegment(parts, segment) ==
  LET at == {i \in DOMAIN parts : parts[i] = segment}
      tail == SubSeq(parts, Min(at) + 1, Len(parts))
      here == InWorkdir(tail)
  IN  IF at # {} /\ tail # <<>> /\ (pathExists(here) \/ Front(here.parts) \in Existing) THEN here ELSE NoPath

\* A file to be written need not exist: its name, if nothing better is found.
rebaseAbsoluteWritePathToWorkdir(path) ==
  LET parts == splitPathSegments(path)
      ofProject == rebaseWritePathAfterSegment(parts, Last(Workdir))
      other == rebaseWritePathAfterSegment(parts, "project")
  IN  CASE ~isToolAbsolutePath(path) \/ sameOrWithinPath(path) \/ parts = <<>> -> path
        [] OTHER -> IF ofProject # NoPath THEN ofProject ELSE IF other # NoPath THEN other ELSE InWorkdir(Base(path))

\* What a command reads may also be a relative path that names the project.
rebaseCandidatePathToWorkdir(path) ==
  LET parts == splitPathSegments(path)
      after == {i \in 1..(Len(parts) - 1) :
                  parts[i] = Last(Workdir) /\ pathExists(InWorkdir(SubSeq(parts, i + 1, Len(parts))))}
  IN  CASE OfProject(path)                                  -> rebaseSandboxPathToWorkdir(path)
        [] ~OfProject(path) /\ isToolAbsolutePath(path)     -> rebaseAbsolutePathToWorkdir(path)
        [] ~OfProject(path) /\ ~isToolAbsolutePath(path)    ->
             IF after # {} THEN InWorkdir(SubSeq(parts, Min(after) + 1, Len(parts))) ELSE ExistingTail(path)

-----------------------------------------------------------------------------
(* Shell commands. *)

\* Candidates tested with [ -f ] and printed: look for them here instead, first as
\* they are, then by name; only if one of them is, or may be, elsewhere.
rewriteBashReadCandidatesToLocalSearch(command) ==
  LET asked     == command.paths
      here      == [i \in DOMAIN asked |-> rebaseCandidatePathToWorkdir(asked[i])]
      elsewhere == \E i \in DOMAIN asked :
                     \/ here[i] # asked[i]
                     \/ (isToolAbsolutePath(asked[i]) \/ Len(asked[i].parts) > 1) /\ ~sameOrWithinPath(asked[i])
  IN  IF ~elsewhere THEN command
      ELSE [command EXCEPT !.form = "search",
              !.paths = SelectSeq(here, LAMBDA p : pathExists(p) /\ sameOrWithinPath(p))
                          \o [i \in DOMAIN asked |-> [root |-> "", parts |-> Base(asked[i])]]]

\* Whatever else stands between double quotes is taken for a path.
rewriteForeignBashReadCommandInput(command) ==
  IF command.form = "candidates" /\ rewriteBashReadCandidatesToLocalSearch(command) # command
  THEN rewriteBashReadCandidatesToLocalSearch(command)
  ELSE IF command.quoted
  THEN [command EXCEPT !.paths = [i \in DOMAIN @ |-> rebaseCandidatePathToWorkdir(@[i])]]
  ELSE command

\* Where a path points to that is not on this machine, "" if it may be.
Abroad(path) ==
  CASE path.root = "C:"                              -> "drive"
    [] InSandbox(path)                               -> "sandbox"
    [] path.root = "" /\ path.parts[1] = "~"         -> "home"
    [] path.root = "/" /\ path.parts[1] = "mnt"      -> "mnt"
    [] OTHER                                         -> ""

\* A listing with two signs of guessing where the project is.
looksLikeProjectRootProbeCommand(command) ==
  LET signs == (IF command.silenced THEN {"2>/dev/null"} ELSE {})
                 \cup ({Abroad(command.paths[i]) : i \in DOMAIN command.paths} \ {""})
                 \cup (IF \E i \in DOMAIN command.paths : Last(Workdir) \in ToSet(command.paths[i].parts)
                       THEN {"project"} ELSE {})
  IN  command.form = "list" /\ Cardinality(signs) >= 2

rewriteBashProjectRootProbeCommandInput(command) ==
  IF looksLikeProjectRootProbeCommand(command)
  THEN [command EXCEPT !.paths = <<[root |-> "", parts |-> <<".">>]>>, !.silenced = FALSE, !.quoted = TRUE,
                       !.reads = TRUE]
  ELSE command

\* git -C with a foreign path runs here; two halves that have become the same are one.
rewriteForeignGitCCommand(command) ==
  LET kept == [i \in DOMAIN command.paths |-> IF Abroad(command.paths[i]) # "" /\ ~sameOrWithinPath(command.paths[i])
                                              THEN NoPath ELSE command.paths[i]]
  IN  IF command.form # "git" \/ kept = command.paths THEN command
      ELSE [command EXCEPT !.paths = IF Len(kept) = 2 /\ kept[1] = kept[2] THEN <<kept[1]>> ELSE kept]

\* A sandbox path is told relative to the working directory, or is the directory itself.
relativeShellPathForSandboxPath(path) ==
  LET here == rebaseSandboxPathToWorkdir(path)
      tail == SubSeq(here.parts, Len(Workdir) + 1, Len(here.parts))
  IN  [root |-> "", parts |-> IF sameOrWithinPath(here) /\ tail # <<>> THEN tail ELSE <<".">>]

rewriteForeignSandboxPathsInShellCommand(command) ==
  [command EXCEPT !.paths = [i \in DOMAIN @ |->
     IF @[i] # NoPath /\ OfProject(@[i]) THEN relativeShellPathForSandboxPath(@[i]) ELSE @[i]]]

RewriteCommand(command) ==
  rewriteForeignSandboxPathsInShellCommand(
    rewriteForeignGitCCommand(
      rewriteBashProjectRootProbeCommandInput(
        rewriteForeignBashReadCommandInput(command))))

-----------------------------------------------------------------------------
(* Calls. *)

isDirectoryListToolName(name) == name \in {"ls", "listdir", "list_dir", "list_directory"}

\* An alias is the client's tool; other names stay.
NormalizeToolNameFallback(name) ==
  CASE name \in {"write", "write_file"}  -> "Write"
    [] name \in {"edit"}                 -> "Edit"
    [] name \in {"read", "view"}         -> "Read"
    [] name \in {"glob", "find_files"}   -> "Glob"
    [] name \in {"shell", "bash"}        -> "Bash"
    [] OTHER                             -> name

\* A listing becomes a command that lists, with the working directory for no path.
rewriteDirectoryListToolInput(call) ==
  LET asked == IF call.path # NoPath THEN call.path ELSE call.filePath
      path  == IF asked = NoPath \/ isPlaceholderDirectoryListPath(asked) THEN Local(Workdir) ELSE asked
  IN  [call EXCEPT !.name = "Bash", !.path = NoPath, !.filePath = NoPath,
         !.command = [form |-> "list", paths |-> <<path>>, quoted |-> TRUE, silenced |-> FALSE,
                      readOnly |-> "unsaid", risky |-> FALSE, reads |-> TRUE]]

\* The client's field names.
sanitizeToolInput(call) ==
  IF call.name \in {"Write", "Edit", "Read"} /\ call.path # NoPath
  THEN [call EXCEPT !.filePath = IF @ = NoPath THEN call.path ELSE @, !.path = NoPath]
  ELSE call

RebasedWrite(path, rebased, name) ==
  IF rebased = path /\ name = "Write" THEN rebaseAbsoluteWritePathToWorkdir(path) ELSE rebased

Rebased(path, name) ==
  IF path = NoPath THEN NoPath ELSE RebasedWrite(path, rebaseAbsolutePathToWorkdir(path), name)

rewriteForeignAbsoluteToolPathInput(call) ==
  [call EXCEPT !.filePath = Rebased(@, call.name), !.path = Rebased(@, call.name)]

NormalizeNamed(call) ==
  CASE call.name = "Bash" /\ call.command # NoCommand -> [call EXCEPT !.command = RewriteCommand(@)]
    [] call.name \in {"Read", "Edit", "Write", "Glob", "Grep"} -> rewriteForeignAbsoluteToolPathInput(call)
    [] OTHER -> call

Named(call) == sanitizeToolInput([call EXCEPT !.name = NormalizeToolNameFallback(@)])

\* Mutant: a write to another place is left alone.
NormalizeReads(call) ==
  IF Named(call).name \in {"Write", "Edit"} THEN Named(call)
  ELSE IF isDirectoryListToolName(call.name) THEN rewriteDirectoryListToolInput(call)
  ELSE NormalizeNamed(Named(call))

normalizeUpstreamToolCall(call) ==
  IF isDirectoryListToolName(call.name) THEN rewriteDirectoryListToolInput(call) ELSE NormalizeNamed(Named(call))

resolveToolPath(call) == IF call.filePath # NoPath THEN call.filePath ELSE call.path

hasNonProjectSandboxToolPath(call) ==
  /\ call.name \in {"Read", "Edit", "Write", "Glob", "Grep"}
  /\ resolveToolPath(call) # NoPath
  /\ InSandbox(resolveToolPath(call)) /\ ~OfProject(resolveToolPath(call))

hasRequiredToolInputFields(call) ==
  CASE call.name \in {"Edit", "Write"} -> resolveToolPath(call) # NoPath /\ call.body # "none"
    [] call.name = "Read"              -> resolveToolPath(call) # NoPath
    [] call.name = "Bash"              -> call.command # NoCommand
    [] OTHER                           -> TRUE

isReadOnlyBashCommand(command) ==
  ~command.risky /\ (command.readOnly = "yes" \/ (command.readOnly = "unsaid" /\ command.reads))

\* Relative to the working directory, if it is below it.
canonicalToolPathForDedup(path) ==
  LET clean == CleanPath(path)
      tail  == SubSeq(clean.parts, Len(Workdir) + 1, Len(clean.parts))
  IN  IF sameOrWithinPath(clean) THEN [root |-> "", parts |-> tail] ELSE clean

\* Mutant: a path counts as it is written.
KeyAsWritten(call) ==
  CASE call.name = "Bash" /\ ~isReadOnlyBashCommand(call.command) -> <<"bash", call.command>>
    [] call.name \in {"Write", "Edit"}                            -> <<call.name, resolveToolPath(call), call.body>>
    [] OTHER                                                      -> NoKey

\* What a side effect is known by; a call that changes nothing has none.
sideEffectToolDedupKeyFromFields(call) ==
  CASE call.name = "Bash" /\ ~isReadOnlyBashCommand(call.command) -> <<"bash", call.command>>
    [] call.name \in {"Write", "Edit"} -> <<call.name, canonicalToolPathForDedup(resolveToolPath(call)), call.body>>
    [] OTHER                           -> NoKey

-----------------------------------------------------------------------------
(* The conversation: what the user says, the calls of earlier replies, and their *)
(* results, since the user's last words.                                         *)

Uses    == {i \in DOMAIN conversation : conversation[i].is = "use"}
Spoken  == {i \in DOMAIN conversation : conversation[i].is = "say"}
SinceUser == IF Spoken = {} THEN {} ELSE (Max(Spoken) + 1)..Len(conversation)

Extend(message) ==
  /\ toolPc = "conversation" /\ Len(conversation) < MaxTurns
  /\ conversation' = Append(conversation, message)
  /\ UNCHANGED <<toolPc, dedup, given, dropped>>

Say == Extend([is |-> "say"])
Use(call) == Extend([is |-> "use", call |-> call])
Result(i, outcome) ==
  /\ i \in Uses /\ \A j \in DOMAIN conversation : conversation[j].is = "result" => conversation[j].of # i
  /\ Extend([is |-> "result", of |-> i, outcome |-> outcome])

\* git may be asked for again.
shouldPreseedSideEffectDedup(call) == call.name # "Bash" \/ call.command.form # "git"

KeyOfUse(i) ==
  IF i \in Uses \cap SinceUser /\ shouldPreseedSideEffectDedup(conversation[i].call)
  THEN sideEffectToolDedupKeyFromFields(conversation[i].call) ELSE NoKey

\* Mutant: a failure leaves the key of an earlier success.
ApplySuccess(keys, message) ==
  IF message.is = "result" /\ KeyOfUse(message.of) # NoKey /\ message.outcome = "ok"
  THEN keys \cup {KeyOfUse(message.of)} ELSE keys

\* In order: a success adds the key of its call, a failure or an empty result
\* takes it away again.
ApplyResult(keys, message) ==
  CASE message.is = "result" /\ KeyOfUse(message.of) # NoKey ->
         IF message.outcome = "ok" THEN keys \cup {KeyOfUse(message.of)} ELSE keys \ {KeyOfUse(message.of)}
    [] OTHER -> keys

seedSideEffectDedupFromMessages ==
  /\ toolPc = "conversation" /\ toolPc' = "seeded"
  /\ dedup' = FoldLeft(ApplyResult, {}, conversation)
  /\ UNCHANGED <<conversation, given, dropped>>

\* The reply begins; what was said before does not matter from here on.
Reply ==
  /\ toolPc = "seeded" /\ toolPc' = "reply" /\ conversation' = <<>>
  /\ UNCHANGED <<dedup, given, dropped>>

Fits(call) == ~hasNonProjectSandboxToolPath(call) /\ hasRequiredToolInputFields(call)

shouldAcceptToolCall(upstream, call) ==
  \E key \in {IF Fits(call) THEN sideEffectToolDedupKeyFromFields(call) ELSE NoKey} :
    IF key # NoKey /\ key \in dedup
    THEN dropped' = Append(dropped, call) /\ UNCHANGED <<dedup, given>>
    ELSE /\ given' = IF Fits(call) THEN Append(given, [asked |-> upstream, call |-> call]) ELSE given
         /\ dedup' = dedup \cup ({key} \ {NoKey})
         /\ UNCHANGED dropped

\* The model asks for one more call.
ToolCall(upstream) ==
  /\ toolPc = "reply" /\ Len(given) + Len(dropped) < MaxCalls
  /\ \E call \in {normalizeUpstreamToolCall(upstream)} : shouldAcceptToolCall(upstream, call)
  /\ UNCHANGED <<toolPc, conversation>>

ToolsNext ==
  \/ Say
  \/ \E call \in Earlier : Use(call)
  \/ \E i \in DOMAIN conversation, outcome \in {"ok", "failed", "empty"} : Result(i, outcome)
  \/ seedSideEffectDedupFromMessages
  \/ Reply
  \/ \E upstream \in Calls : ToolCall(upstream)

ToolsSpec == ToolsInit /\ [][ToolsNext]_toolVars

-----------------------------------------------------------------------------
(* Correctness. *)

\* Goes up from where it begins.
Climbs(parts) == LET clean == CleanParts(parts, FALSE) IN clean # <<>> /\ Head(clean) = ".."

\* What leaves the working directory again when it is moved there: a sandbox path that
\* goes up from the project, and a drive path with dots, which CleanPath leaves as it is.
ClimbsOut(path) ==
  \/ OfProject(path) /\ Climbs(SubSeq(path.parts, 5, Len(path.parts)))
  \/ path.root = "C:" /\ ".." \in ToSet(path.parts)

\* Whatever other path the model invents, the client is never asked to write to an
\* absolute path outside the working directory, nor to read one in its place: what
\* is rewritten lies inside, and a rewritten call is left as it is by a second pass.
\* (The root is no file; a second pass moves what looks like a sandbox path or a
\* placeholder even where the working directory has such a file.)
RewrittenStaysInside ==
  \A i \in DOMAIN given :
    LET call  == given[i].call
        asked == resolveToolPath(given[i].asked)
        path  == resolveToolPath(call)
    IN  call.name \in {"Read", "Edit", "Write"} /\ ~ClimbsOut(asked) =>
          /\ path # asked => sameOrWithinPath(path)
          /\ call.name = "Write" /\ isToolAbsolutePath(asked) /\ splitPathSegments(asked) # <<>> => sameOrWithinPath(path)
          /\ ~OfProject(path) /\ ~isPlaceholderDirectoryListPath(path) => normalizeUpstreamToolCall(call) = call

\* Where a file tool finds its file.
Target(call) == LET path == resolveToolPath(call)
                IN  IF path.root = "" THEN Local(Workdir \o path.parts) ELSE CleanPath(path)

SameEffect(a, b) ==
  /\ a.name = b.name
  /\ IF a.name = "Bash" THEN a.command = b.command ELSE Target(a) = Target(b) /\ a.body = b.body

\* The key of a relative path does not tell where one that goes up arrives.
Climbing(call) == resolveToolPath(call).root = "" /\ Climbs(resolveToolPath(call).parts)

\* Of two calls of one reply that write the same text to the same file, however its
\* path is written, the client gets one, unless a relative path goes up from the
\* working directory; a call that is dropped does what the client was asked to do,
\* now or in the earlier calls.
RepeatedEffectsDropped ==
  /\ \A i, j \in DOMAIN given :
       i # j /\ given[i].call.name \in {"Write", "Edit"} /\ SameEffect(given[i].call, given[j].call) =>
         Climbing(given[i].call) \/ Climbing(given[j].call)
  /\ \A i \in DOMAIN dropped :
       \/ \E j \in DOMAIN given : SameEffect(dropped[i], given[j].call)
       \/ \E call \in Earlier : SameEffect(dropped[i], call)

\* A side effect is held back for what happened earlier only if the user has not
\* spoken since and the last result it had was a success.
OnlySuccessHoldsBack ==
  toolPc = "seeded" =>
    \A key \in dedup :
      LET results == {i \in SinceUser : conversation[i].is = "result" /\ conversation[i].of \in SinceUser
                                          /\ sideEffectToolDedupKeyFromFields(conversation[conversation[i].of].call) = key}
      IN  results # {} /\ conversation[Max(results)].outcome = "ok"
=============================================================================
