---------------------------- MODULE PuterClient -----------------------------
(***************************************************************************)
(* The Puter client (internal/puter/client.go): one call.  Puter knows no  *)
(* tools, so the request describes them in its system prompt and the reply *)
(* is one text in which calls are found again, in any of several forms.    *)
(* Nothing is emitted before the whole reply has been read.                *)
(*                                                                         *)
(* The reply is a sequence of lines; a line of text carries one piece:     *)
(* prose (which may begin like a report of work done, and may end its      *)
(* paragraph), white space, a pseudo tool result, or JSON that is tagged,  *)
(* fenced or bare.  A path is a root ("", a drive or "/") and its parts.   *)
(***************************************************************************)
EXTENDS Naturals, Sequences, SequencesExt, FiniteSets

CONSTANTS
  Lines,        \* what a line of the reply may be
  Blocks,       \* what a message of the conversation may hold
  Workdirs,     \* paths, or NoPath
  NoPath,
  MaxLines, MaxMessages   \* bounds

PuterAssumption == {MaxLines, MaxMessages} \subseteq Nat

VARIABLES
  pc, workdir, messages,
  tools, noTools,    \* whether tools are described to the client; whether none may be used
  system,            \* whether the client has instructions of its own
  request,           \* what is sent upstream
  encoding, lines,   \* of the answer
  events, err

asked == <<workdir, tools, noTools, system>>
puterVars == <<pc, messages, asked, request, encoding, lines, events, err>>

Init ==
  /\ pc = "idle" /\ workdir = NoPath /\ messages = <<>> /\ request = <<>>
  /\ tools = FALSE /\ noTools = FALSE /\ system = FALSE
  /\ encoding = "" /\ lines = <<>>
  /\ events = <<>> /\ err = "none"

-----------------------------------------------------------------------------
(* The request. *)

\* looksLikeMissingPath, extractRecentPathHint: what a tool result tells.
MissingPath(block) == block.is = "tool_result" /\ block.missing # NoPath

\* The newest message with such a result, and its first.
detectRecentPuterInvalidPath ==
  LET found == {i \in DOMAIN messages : \E j \in DOMAIN messages[i].blocks : MissingPath(messages[i].blocks[j])}
  IN  IF found = {} THEN NoPath
      ELSE LET i == CHOOSE k \in found : \A l \in found : l <= k
           IN  SelectSeq(messages[i].blocks, MissingPath)[1].missing

Part(holds, text) == IF holds THEN <<text>> ELSE <<>>

\* Each part of it may be missing, and so may all.
buildPuterToolPrompt ==
  Part(workdir # NoPath, "workspace")
    \o IF noTools THEN <<"no tools">>
       ELSE Part(tools, "tools") \o Part(detectRecentPuterInvalidPath # NoPath, "bad path")

buildSystemPrompt == buildPuterToolPrompt \o Part(system, "client")

\* extractMessageText: texts, calls and results become one text.
extractMessageText(message) ==
  SelectSeq(message.blocks, LAMBDA b : b.is \in {"text", "tool_use", "tool_result"})

Told == SelectSeq(messages, LAMBDA m : extractMessageText(m) # <<>>)

FromFirst(roles, out) ==
  LET openers == {i \in DOMAIN out : out[i].role \in roles}
  IN  IF openers = {} THEN <<>> ELSE SubSeq(out, CHOOSE i \in openers : \A j \in openers : i <= j, Len(out))

SystemThenTold ==
  Part(buildSystemPrompt # <<>>, [role |-> "system", text |-> buildSystemPrompt])
    \o [i \in DOMAIN Told |-> [role |-> Told[i].role, text |-> extractMessageText(Told[i])]]

\* Mutant: one message at most is cut off.
ConvertCutOnce ==
  LET out == SystemThenTold
  IN  IF out # <<>> /\ out[1].role \notin {"system", "user"} THEN Tail(out) ELSE out

\* The system prompt first, if there is one; messages without text are left out, and so
\* is what the assistant said before the first instruction.
convertMessages == FromFirst({"system", "user"}, SystemThenTold)

-----------------------------------------------------------------------------
(* Reading the reply. *)

\* An error line ends it; a line that cannot be decoded is skipped, and so is a
\* piece of white space, even one that separates paragraphs.  The body is read as
\* it comes: if it is compressed, no line can be decoded.
readStreamText ==
  IF encoding # "" THEN <<>>
  ELSE SelectSeq(lines, LAMBDA l : l.is \notin {"error", "garbage", "blank"})

StreamError == encoding = "" /\ \E i \in DOMAIN lines : lines[i].is = "error"

-----------------------------------------------------------------------------
(* Finding the calls. *)

\* A function, or a name with an input or a type that tells it is a call.
parseParsedToolCall(json) ==
  IF json.name = "" \/ (json.form = "plain" /\ json.input = <<>> /\ ~json.typed) THEN <<>>
  ELSE <<[name |-> json.name, id |-> json.id, input |-> json.input]>>

RECURSIVE extractParsedToolCalls(_)
extractParsedToolCalls(json) ==
  CASE json.is = "list"   -> FlattenSeq([i \in DOMAIN json.items |-> extractParsedToolCalls(json.items[i])])
    [] json.is = "object" -> LET nested == FlattenSeq([i \in DOMAIN json.nested |-> extractParsedToolCalls(json.nested[i])])
                             IN  IF nested # <<>> THEN nested ELSE parseParsedToolCall(json)
    [] OTHER              -> <<>>

\* A call without an id gets one of the time and its index; the clock moves between
\* two blocks of the text.
parseToolCallsFromJSON(json, block) ==
  LET calls == extractParsedToolCalls(json)
  IN  [i \in DOMAIN calls |->
         [calls[i] EXCEPT !.id = IF @ = <<>> THEN <<block, block + i>> ELSE @]]

CallsIn(pieces) ==
  FlattenSeq([i \in DOMAIN pieces |-> parseToolCallsFromJSON(pieces[i].json, i)])
Without(text, Drop(_)) == SelectSeq(text, LAMBDA piece : ~Drop(piece))

\* A tag holds an object; what else is between the tags is text.
toolCallPattern(piece) == piece.is = "tagged" /\ piece.json.is = "object"

\* Mutant: only the first tagged block is looked at.
ParseFirstTag(text) ==
  LET tagged == SelectSeq(text, toolCallPattern)
  IN  IF tagged = <<>> THEN [calls |-> <<>>, rest |-> text]
      ELSE [calls |-> CallsIn(<<tagged[1]>>), rest |-> Without(text, toolCallPattern)]

\* Tags first, whose blocks all leave the text once one of them holds a call; then
\* fences, which leave it if they hold one; then a text that is JSON as a whole.
parseToolCalls(text) ==
  LET tagged == SelectSeq(text, toolCallPattern)
      fenced == SelectSeq(text, LAMBDA piece : piece.is = "fenced")
  IN  CASE CallsIn(tagged) # <<>> ->
             [calls |-> CallsIn(tagged), rest |-> Without(text, toolCallPattern)]
        [] CallsIn(tagged) = <<>> /\ CallsIn(fenced) # <<>> ->
             [calls |-> CallsIn(fenced),
              rest  |-> Without(text, LAMBDA piece : piece.is = "fenced" /\ extractParsedToolCalls(piece.json) # <<>>)]
        [] CallsIn(tagged) = <<>> /\ CallsIn(fenced) = <<>> /\ Len(text) = 1 /\ text[1].is = "bare" ->
             LET calls == parseToolCallsFromJSON(text[1].json, 1)
             IN  [calls |-> calls, rest |-> IF calls = <<>> THEN text ELSE <<>>]
        [] OTHER -> [calls |-> <<>>, rest |-> text]

-----------------------------------------------------------------------------
(* Paths of the calls' inputs, which are made relative to the working directory. *)

\* filepath.Clean of an absolute path.
Clean(parts) ==
  FoldLeft(LAMBDA done, part :
             IF part = "." THEN done
             ELSE IF part # ".." THEN Append(done, part)
             ELSE IF done = <<>> THEN <<>> ELSE Front(done),
           <<>>, parts)

After(prefix, parts) == SubSeq(parts, Len(prefix) + 1, Len(parts))

\* On a drive the text is compared as it stands.
relativizeWindowsWorkspacePath(path) ==
  IF /\ IsStrictPrefix(workdir.parts, path.parts)
     /\ After(workdir.parts, path.parts) \notin {<<".">>, <<"..">>}
     /\ After(workdir.parts, path.parts)[1] # ".."
  THEN [root |-> "", parts |-> After(workdir.parts, path.parts)] ELSE path

\* Mutant: a path of another drive counts as one of the working directory's.
RelativizeAnyDrive(path) ==
  IF workdir = NoPath \/ path.root = "" THEN path
  ELSE IF path.root # "/" THEN relativizeWindowsWorkspacePath(path)
  ELSE IF IsStrictPrefix(Clean(workdir.parts), Clean(path.parts))
       THEN [root |-> "", parts |-> After(Clean(workdir.parts), Clean(path.parts))]
       ELSE path

relativizeWorkspacePath(path) ==
  IF workdir = NoPath \/ path.root = "" \/ path.root # workdir.root THEN path
  ELSE IF path.root # "/" THEN relativizeWindowsWorkspacePath(path)
  ELSE IF IsStrictPrefix(Clean(workdir.parts), Clean(path.parts))
       THEN [root |-> "", parts |-> After(Clean(workdir.parts), Clean(path.parts))]
       ELSE path

\* Of an input: values under keys that name paths, at any depth.
sanitizeParsedToolInput(input) ==
  [i \in DOMAIN input |->
     IF input[i].key \in {"path", "paths"}
     THEN [input[i] EXCEPT !.value = relativizeWorkspacePath(@)] ELSE input[i]]

sanitizeParsedToolCalls(calls) ==
  [i \in DOMAIN calls |-> [calls[i] EXCEPT !.input = sanitizeParsedToolInput(@)]]

-----------------------------------------------------------------------------
(* The text that is left. *)

\* Pseudo results go.  Besides calls, so do paragraphs that report on work; a
\* paragraph ends where prose says so.
sanitizeAssistantText(text, calls) ==
  LET kept     == Without(text, LAMBDA piece : piece.is = "pseudo")
      starts   == {i \in DOMAIN kept : i = 1 \/ (kept[i - 1].is = "prose" /\ kept[i - 1].ends)}
      start(i) == CHOOSE s \in starts : s <= i /\ \A t \in starts : t <= i => t <= s
      shouldDropProceduralAssistantParagraph(i) == kept[i].is = "prose" /\ kept[i].procedural
      stays    == {i \in DOMAIN kept : ~shouldDropProceduralAssistantParagraph(start(i))}
  IN  IF calls = <<>> THEN kept
      ELSE FlattenSeq([i \in DOMAIN kept |-> IF i \in stays THEN <<kept[i]>> ELSE <<>>])

emitResponseEvents(text, calls) ==
  (IF text = <<>> THEN <<>> ELSE <<[type |-> "text-delta", body |-> text]>>)
    \o [i \in DOMAIN calls |-> [type |-> "tool-call", body |-> calls[i]]]
    \o <<[type |-> "finish", body |-> IF calls = <<>> THEN "end_turn" ELSE "tool_use"]>>

-----------------------------------------------------------------------------
(* The call. *)

Begin(dir, given, forbidden, instructed) ==
  /\ pc = "idle" /\ pc' = "conversation"
  /\ workdir' = dir /\ tools' = given /\ noTools' = forbidden /\ system' = instructed
  /\ UNCHANGED <<messages, request, encoding, lines, events, err>>

AddMessage(role, block) ==
  /\ pc = "conversation" /\ Len(messages) < MaxMessages
  /\ messages' = Append(messages, [role |-> role, blocks |-> <<block>>])
  /\ UNCHANGED <<pc, asked, request, encoding, lines, events, err>>

\* Marshals the request and sends it.
buildRequest ==
  /\ pc = "conversation" /\ pc' = "sent"
  /\ request' = convertMessages
  /\ UNCHANGED <<asked, messages, encoding, lines, events, err>>

\* No token, no connection, or a status other than 200.
Refused ==
  /\ pc = "sent" /\ pc' = "done"
  /\ err' \in {"transport", "status"}
  /\ UNCHANGED <<asked, messages, request, encoding, lines, events>>

\* From here on the request does not matter.
Answer(enc) ==
  /\ pc = "sent" /\ pc' = "reading"
  /\ encoding' = enc
  /\ messages' = <<>> /\ request' = <<>>
  /\ tools' = FALSE /\ noTools' = FALSE /\ system' = FALSE
  /\ UNCHANGED <<workdir, lines, events, err>>

Line(line) ==
  /\ pc = "reading" /\ Len(lines) < MaxLines
  /\ lines' = Append(lines, line)
  /\ UNCHANGED <<pc, asked, messages, request, encoding, events, err>>

\* The stream ends, or breaks.
SendRequestWithPayload(broken) ==
  /\ pc = "reading" /\ pc' = "done"
  /\ IF StreamError \/ broken
     THEN err' = "stream" /\ UNCHANGED events
     ELSE LET parsed == parseToolCalls(readStreamText)
              calls  == sanitizeParsedToolCalls(parsed.calls)
          IN  events' = emitResponseEvents(sanitizeAssistantText(parsed.rest, calls), calls) /\ UNCHANGED err
  /\ UNCHANGED <<asked, messages, request, encoding, lines>>

Next ==
  \/ \E dir \in Workdirs, given, forbidden, instructed \in BOOLEAN : Begin(dir, given, forbidden, instructed)
  \/ \E role \in {"user", "assistant"}, block \in Blocks : AddMessage(role, block)
  \/ buildRequest
  \/ Refused
  \/ \E enc \in {"", "br"} : Answer(enc)
  \/ \E line \in Lines : Line(line)
  \/ \E broken \in BOOLEAN : SendRequestWithPayload(broken)

Spec == Init /\ [][Next]_puterVars

-----------------------------------------------------------------------------
(* Correctness. *)

Emitted(type) == SelectSeq(events, LAMBDA e : e.type = type)

\* A reply is emitted as a whole or not at all; every call in a tagged object is
\* emitted, in order and with an id of its own, the finish tells whether there is a
\* call, and if there is none the text keeps what was tagged.  (A call in a fence is
\* not emitted beside one in a tag, one in a tagged list never; nor is anything of a
\* compressed reply.)
CallsComeThrough ==
  pc = "done" =>
    /\ (events = <<>>) <=> (err # "none")
    /\ err = "none" =>
         LET calls  == Emitted("tool-call")
             tagged == SelectSeq(readStreamText, toolCallPattern)
         IN  /\ Last(events) = [type |-> "finish", body |-> IF calls = <<>> THEN "end_turn" ELSE "tool_use"]
             /\ Len(Emitted("finish")) = 1
             /\ tagged # <<>> /\ (\E i \in DOMAIN tagged : extractParsedToolCalls(tagged[i].json) # <<>>) =>
                  [i \in DOMAIN calls |-> calls[i].body.name]
                    = FlattenSeq([i \in DOMAIN tagged |->
                        LET found == extractParsedToolCalls(tagged[i].json)
                        IN  [j \in DOMAIN found |-> found[j].name]])
             /\ calls = <<>> => \A i \in DOMAIN readStreamText : readStreamText[i].is = "tagged" =>
                  \E e \in DOMAIN events : events[e].type = "text-delta" /\ readStreamText[i] \in ToSet(events[e].body)
             /\ \A i, j \in DOMAIN calls : calls[i].body.id = calls[j].body.id /\ Len(calls[i].body.id) = 2 => i = j

\* Where a tool that runs in the working directory finds a path.
Place(path) == IF path.root = "" THEN [root |-> workdir.root, parts |-> Clean(workdir.parts \o path.parts)]
               ELSE [root |-> path.root, parts |-> Clean(path.parts)]

PathsOf(input) == {input[i].value : i \in {k \in DOMAIN input : input[k].key \in {"path", "paths"}}}

\* Making a path relative never makes it name another file, whatever dots it holds and
\* whatever the roots are; doing it again changes nothing.
PathsKeepTheirPlace ==
  workdir # NoPath =>
    \A k \in DOMAIN lines :
      lines[k].is \in {"tagged", "fenced", "bare"} =>
        LET calls == extractParsedToolCalls(lines[k].json) IN
        \A c \in DOMAIN calls : \A path \in PathsOf(calls[c].input) :
          /\ Place(relativizeWorkspacePath(path)) = Place(path)
          /\ relativizeWorkspacePath(relativizeWorkspacePath(path)) = relativizeWorkspacePath(path)

\* What is sent begins with instructions or the user's words, leaves out only what the
\* assistant said before them, keeps the order, has every instruction that there is, and
\* tells a missing path unless no tool may be used.
RequestIsConversation ==
  pc = "sent" =>
    LET prompt == buildSystemPrompt
        spoken == SelectSeq(request, LAMBDA m : m.role # "system")
        left   == Len(Told) - Len(spoken)
    IN  /\ prompt # <<>> => request # <<>> /\ request[1] = [role |-> "system", text |-> prompt] /\ left = 0
        /\ request # <<>> => request[1].role \in {"system", "user"}
        /\ left >= 0
        /\ \A i \in DOMAIN Told :
             IF i <= left THEN Told[i].role = "assistant"
             ELSE spoken[i - left] = [role |-> Told[i].role, text |-> extractMessageText(Told[i])]
        /\ ~noTools /\ (\E i \in DOMAIN messages : SelectSeq(messages[i].blocks, MissingPath) # <<>>)
             => "bad path" \in ToSet(prompt)
=============================================================================
