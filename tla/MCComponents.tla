---------------------------- MODULE MCComponents ----------------------------
(***************************************************************************)
(* One instance of each component that is small enough to be explored with *)
(* the others: part says which of them moves in a behaviour, the rest of   *)
(* the server stands still.                                                *)
(***************************************************************************)
EXTENDS
  DedupStore, MemoryConnTracker, ApiKeys, PromptCache, Passthrough, CodebuffProvider, CodebuffQuota,
  CodebuffTelemetry, CodebuffRuns, ToolCalls, ModelRecords, Sessions, TLC

CONSTANTS
  p1, p2, p3,   \* goroutines, requests, administrators
  t1, t2,       \* accounts, models, hashes
  none          \* nothing of a kind

VARIABLE part

AdProviders == <<"g", "z">>

\* Prompts with and without text of the system.
CacheInputs ==
  {[system |-> "s1", tools |-> "t1", systemTokens |-> 2, toolsTokens |-> 1],
   [system |-> "s2", tools |-> NoText, systemTokens |-> 2, toolsTokens |-> 1]}

-----------------------------------------------------------------------------
(* Passthrough: errors retried elsewhere, retried here too, final, and two of a quota. *)

PassErrors == {{"http401"}, {"network"}, {"http404"}, {"http429"}, {"rate_limit"}}

-----------------------------------------------------------------------------
(* Codebuff's quotas: a model with a count of its own and one that is counted under it. *)

SessionModels == [m |-> "m", n |-> "m"]

-----------------------------------------------------------------------------
(* Codebuff's telemetry: two models. *)

TelemetryModels == {"m", "n"}

-----------------------------------------------------------------------------
(* Puter: calls nested in lists and in calls, tagged, fenced or bare, with paths inside   *)
(* and outside of the working directory, on three roots.                                  *)

Path(root, below)    == [root |-> root, parts |-> below]
PathField(path)      == [key |-> "path", value |-> path]
PuterCall(name, id, args, form) ==
  [is |-> "object", nested |-> <<>>, name |-> name, id |-> id, input |-> args, typed |-> FALSE, form |-> form]

NoFile  == Path("none", <<>>)
Inside  == PuterCall("read", <<"given">>,
             <<PathField(Path("/", <<"w", "..", "w", "a">>)), [key |-> "text", value |-> Path("/", <<"w", "a">>)]>>, "plain")
Outside == PuterCall("write", <<>>,
             <<PathField(Path("/", <<"w", "..", "x">>)), PathField(Path("", <<"y">>)), PathField(Path("C", <<"w", "b", "..">>)),
               PathField(Path("C", <<"w", "..", "b">>)), PathField(Path("D", <<"w", "b">>))>>, "function")
NoCall  == PuterCall("entry", <<>>, <<>>, "plain")
Holder  == [Outside EXCEPT !.name = "", !.nested = <<Inside, NoCall, Outside>>]
Nested  == [is |-> "list", items |-> <<Outside, Holder>>]

PuterLines ==
  {[is |-> "error"], [is |-> "garbage"], [is |-> "blank"], [is |-> "pseudo"],
   [is |-> "prose", procedural |-> TRUE, ends |-> FALSE], [is |-> "prose", procedural |-> FALSE, ends |-> TRUE]}
   \cup {[is |-> "tagged", json |-> json] : json \in {Nested, NoCall, Holder}}
   \cup {[is |-> "fenced", json |-> json] : json \in {Inside, NoCall}}
   \cup {[is |-> "bare", json |-> Nested]}

PuterBlocks ==
  {[is |-> "text", missing |-> NoFile], [is |-> "tool_result", missing |-> Path("/", <<"w">>)],
   [is |-> "image", missing |-> NoFile]}

VARIABLES
  puterPc, workdir, puterMessages, puterTools, noTools, puterSystem, puterRequest, encoding, lines, events, puterErr

puterVars ==
  <<puterPc, workdir, puterMessages, puterTools, noTools, puterSystem, puterRequest, encoding, lines, events, puterErr>>

Puter == INSTANCE PuterClient WITH
  Lines <- PuterLines, Blocks <- PuterBlocks, NoPath <- NoFile,
  Workdirs <- {Path("/", <<"w">>), Path("C", <<"w">>), NoFile}, MaxLines <- 3, MaxMessages <- 3,
  pc <- puterPc, messages <- puterMessages, tools <- puterTools, system <- puterSystem,
  request <- puterRequest, err <- puterErr

-----------------------------------------------------------------------------
(* Tool calls of a project /w: files read, written and edited, commands run, over paths   *)
(* that are inside, outside, written from elsewhere, or on a drive.                       *)

NoShell == [form |-> "none"]
File(below)  == Path("/", below)
Agent(below) == File(<<"tmp", "cc-agent", "1">> \o below)
Call(name, filePath, path, body, command) ==
  [name |-> name, filePath |-> filePath, path |-> path, body |-> body, command |-> command]
Command(form, paths, quoted, silenced, readOnly, risky, reads) ==
  [form |-> form, paths |-> paths, quoted |-> quoted, silenced |-> silenced, readOnly |-> readOnly,
   risky |-> risky, reads |-> reads]

Files == {<<"w">>, <<"w", "a">>, <<"w", "d">>, <<"w", "d", "a">>, <<"x">>}

ToolPaths ==
  {File(<<"w", "a">>), File(<<"w", "d", "..", "a">>), Path("", <<"a">>), Path("", <<"d", "..", "a">>),
   File(<<"x", "a">>), File(<<"x", "d", "a">>), File(<<"mnt", "w", "d", "n">>), Agent(<<"project", "a">>),
   Agent(<<"project", "..", "..", "..", "..", "b">>), Agent(<<"notes">>), Agent(<<"project">>),
   Path("C:", <<"u", "w", "d", "n">>), Path("C:", <<"u", "n">>), File(<<"home", "user", "app">>),
   Path("", <<"..", "w", "a">>), Path("C:", <<"u", "..", "..", "x">>), File(<<>>),
   Agent(<<"project", "..", "project", "a">>)}

GitStatus == Command("git", <<File(<<"w">>)>>, FALSE, FALSE, "unsaid", FALSE, FALSE)
GoTest    == Command("other", <<>>, FALSE, FALSE, "unsaid", FALSE, FALSE)

ToolCommands ==
  {GoTest,
   Command("list", <<File(<<"mnt", "w">>), Path("C:", <<"w">>)>>, FALSE, TRUE, "unsaid", FALSE, FALSE),
   Command("list", <<File(<<"x", "d">>)>>, TRUE, FALSE, "unsaid", FALSE, TRUE),
   Command("git", <<Agent(<<"project">>), Path("C:", <<"w">>)>>, FALSE, FALSE, "unsaid", FALSE, FALSE),
   Command("git", <<File(<<"w">>), File(<<"mnt", "w">>)>>, FALSE, FALSE, "no", FALSE, FALSE),
   Command("candidates", <<File(<<"w", "a">>), Path("", <<"w", "d", "a">>), File(<<"x", "n">>)>>, TRUE, FALSE, "unsaid", FALSE, FALSE),
   Command("candidates", <<File(<<"w", "a">>), Path("", <<"n">>)>>, TRUE, FALSE, "unsaid", FALSE, FALSE),
   Command("other", <<Agent(<<"project", "d", "a">>)>>, FALSE, FALSE, "yes", TRUE, TRUE),
   Command("other", <<Path("", <<"a">>)>>, TRUE, FALSE, "unsaid", FALSE, FALSE)}

ToolCallsAsked ==
  {Call("write_file", NoFile, path, "t", NoShell) : path \in ToolPaths}
   \cup {Call("write_file", NoFile, File(<<"w", "a">>), body, NoShell) : body \in {"u", "none"}}
   \cup {Call("edit", path, File(<<"x", "a">>), "t", NoShell) : path \in {File(<<"w", "a">>), Path("", <<"a">>), NoFile}}
   \cup {Call("view", NoFile, path, "none", NoShell) : path \in ToolPaths \cup {NoFile}}
   \cup {Call("ls", NoFile, path, "none", NoShell) : path \in {NoFile, File(<<"home", "user", "app">>), File(<<"x">>)}}
   \cup {Call("shell", NoFile, NoFile, "none", command) : command \in ToolCommands \cup {NoShell}}
   \cup {Call("web_search", NoFile, NoFile, "none", NoShell)}

ToolDir == <<"w">>

ToolCallsDone ==
  {Call("Write", File(<<"w", "a">>), NoFile, "t", NoShell)}
   \cup {Call("Bash", NoFile, NoFile, "none", command) : command \in {GitStatus, GoTest}}

-----------------------------------------------------------------------------
(* Models: two records to begin with, and a source that offers both names. *)

RecordKeys     == [Puter |-> "puter", Kimchi |-> "kimchi"]
RecordSeeds    == <<"x", "y">>
RecordOffers   == {<<"x", "y">>}
\* Any other answer adds no step: nothing is verified, and the refresh fails.
RecordOutcomes == {{"ok"}, {"funds"}}

-----------------------------------------------------------------------------
(* Sessions: one place in memory, two conversations, one of them named by its user. *)

Naming(conversation_, header, user, dir_, msgs) ==
  [conversation |-> conversation_, metadataSession |-> none, headerSession |-> header, user |-> user,
   metadataDir |-> none, headerDir |-> dir_, system |-> <<none>>, messages |-> msgs]
UserSays(dir_) == [role |-> "user", dir |-> dir_, text |-> TRUE]

DirInputs ==
  {Naming("k", none, none, "d", <<UserSays(none), UserSays(none)>>),
   Naming(none, "k", none, "e", <<UserSays(none), UserSays(none)>>),
   Naming("k", none, none, none, <<UserSays("d"), UserSays("e"), UserSays(none)>>),
   Naming("k", none, none, none, <<UserSays(none)>>),
   Naming(none, none, "l", none, <<UserSays(none)>>),
   Naming(none, none, "l", "d", <<UserSays(none)>>),
   Naming(none, none, none, "d", <<UserSays(none)>>)}

-----------------------------------------------------------------------------
(* The whole. *)

ComponentParts ==
  {"dedup store", "connections", "keys", "prompt cache", "passthrough", "provider", "quota",
   "telemetry", "runs", "puter", "tools", "models", "sessions"}

componentVars ==
  <<part, vars, trackerVars, keyVars, cacheVars, passVars, providerVars, quotaVars,
    telemetryVars, runsVars, puterVars, toolVars, modelVars, sessionVars>>

ComponentsInit ==
  /\ part \in ComponentParts
  /\ Init /\ TrackerInit /\ KeysInit /\ CacheInit
  /\ PassInit /\ ProviderInit /\ QuotaInit /\ RunsInit /\ RecordsInit /\ SessionsInit
  /\ TelemetryInit /\ Puter!Init /\ ToolsInit
  /\ part # "dedup store" => backend = "redis"
  /\ part # "prompt cache" => strategy = "1"
  /\ part # "sessions" => sessionBackend = "redis"

\* The variables of every part but one stay.
Still(moving) ==
  /\ IF moving = "dedup store" THEN TRUE ELSE UNCHANGED vars
  /\ IF moving = "connections" THEN TRUE ELSE UNCHANGED trackerVars
  /\ IF moving = "keys" THEN TRUE ELSE UNCHANGED keyVars
  /\ IF moving = "prompt cache" THEN TRUE ELSE UNCHANGED cacheVars
  /\ IF moving = "passthrough" THEN TRUE ELSE UNCHANGED passVars
  /\ IF moving = "provider" THEN TRUE ELSE UNCHANGED providerVars
  /\ IF moving = "quota" THEN TRUE ELSE UNCHANGED quotaVars
  /\ IF moving = "telemetry" THEN TRUE ELSE UNCHANGED telemetryVars
  /\ IF moving = "runs" THEN TRUE ELSE UNCHANGED runsVars
  /\ IF moving = "puter" THEN TRUE ELSE UNCHANGED puterVars
  /\ IF moving = "tools" THEN TRUE ELSE UNCHANGED toolVars
  /\ IF moving = "models" THEN TRUE ELSE UNCHANGED modelVars
  /\ IF moving = "sessions" THEN TRUE ELSE UNCHANGED sessionVars

ComponentsNext ==
  \/ part = "dedup store"   /\ Next /\ Still("dedup store") /\ UNCHANGED part
  \/ part = "connections"   /\ TrackerNext /\ Still("connections") /\ UNCHANGED part
  \/ part = "keys"          /\ KeysNext /\ Still("keys") /\ UNCHANGED part
  \/ part = "prompt cache"  /\ CacheNext /\ Still("prompt cache") /\ UNCHANGED part
  \/ part = "passthrough"   /\ PassNext /\ Still("passthrough") /\ UNCHANGED part
  \/ part = "provider"      /\ ProviderNext /\ Still("provider") /\ UNCHANGED part
  \/ part = "quota"         /\ QuotaNext /\ Still("quota") /\ UNCHANGED part
  \/ part = "telemetry"     /\ TelemetryNext /\ Still("telemetry") /\ UNCHANGED part
  \/ part = "runs"          /\ RunsNext /\ Still("runs") /\ UNCHANGED part
  \/ part = "puter"         /\ Puter!Next /\ Still("puter") /\ UNCHANGED part
  \/ part = "tools"         /\ ToolsNext /\ Still("tools") /\ UNCHANGED part
  \/ part = "models"        /\ RecordsNext /\ Still("models") /\ UNCHANGED part
  \/ part = "sessions"      /\ SessionsNext /\ Still("sessions") /\ UNCHANGED part

ComponentsSpec == ComponentsInit /\ [][ComponentsNext]_componentVars

ASSUME PuterInstance == Puter!PuterAssumption

MCSymmetry == Permutations({p1, p2}) \cup Permutations({t1, t2})

-----------------------------------------------------------------------------
(* The properties of the part that is an instance, by their own names. *)

\* A reply is emitted as a whole or not at all; every call in a tagged object is
\* emitted, in order and with an id of its own, the finish tells whether there is a
\* call, and if there is none the text keeps what was tagged.  (A call in a fence is
\* not emitted beside one in a tag, one in a tagged list never; nor is anything of a
\* compressed reply.)
CallsComeThrough == part = "puter" => Puter!CallsComeThrough

\* Making a path relative never makes it name another file, whatever dots it holds and
\* whatever the roots are; doing it again changes nothing.
PathsKeepTheirPlace == part = "puter" => Puter!PathsKeepTheirPlace

\* What is sent begins with instructions or the user's words, leaves out only what the
\* assistant said before them, keeps the order, has every instruction that there is, and
\* tells a missing path unless no tool may be used.
RequestIsConversation == part = "puter" => Puter!RequestIsConversation
=============================================================================
