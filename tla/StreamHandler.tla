--------------------------- MODULE StreamHandler ---------------------------
(***************************************************************************)
(* streamHandler (internal/handler/stream_handler.go): turns the events of *)
(* an upstream client into the response of one request.  A handler is a    *)
(* record; every method is an operator from records to records, so that a  *)
(* method is as atomic as the code makes it (one callback at a time).      *)
(*                                                                         *)
(* Two handlers, live (stream: true) and body (stream: false), are fed the *)
(* same events.  What the client makes of the frames is view, the state of *)
(* a client that reads the stream in order and never forgives.             *)
(***************************************************************************)
EXTENDS Integers, Sequences, FiniteSets, SequencesExt, Functions

CONSTANTS
  Tools,       \* tool invocations (a name with an input) the upstream asks for
  NoTool,
  Verdict,     \* Tools -> what the filters find in it, see Refused
  DedupKey,    \* Tools -> side effect it stands for, NoKey for none
  NoKey,
  NeedsInput,  \* tools that are invalid without an input
  Ids,         \* ids of tool calls
  Texts,       \* pieces of text
  NoText,      \* ""
  Intro,       \* Texts -> greeting it is, NoKey for none
  Marker,      \* Texts -> tool hidden in the text, NoTool for none
  Rest,        \* Texts -> what is left of the text without the marker
  ErrorText,   \* an injected error
  Piece,       \* text no filter looks at: thoughts, file contents, direct text
  Dialects,    \* subset of {"puter", "agent", "direct"}
  Never,       \* a number of frames that is never reached
  Modes,       \* requests: the client's format, no thinking, no tools, the side
               \* effects of earlier turns, and the frames until writing fails
  MaxEvents,   \* bound: events of a request, for each dialect
  MaxRounds    \* bound: attempts

ASSUME HandlerAssumption ==
  /\ NoTool \notin Tools /\ NoText \notin Texts
  /\ Verdict \in [Tools -> {"fine", "undeclared", "sandbox", "invalid"}]
  /\ DOMAIN DedupKey = Tools
  /\ Dialects \subseteq {"puter", "agent", "direct"}
  /\ Modes \subseteq [format : {"anthropic", "openai"}, suppress : BOOLEAN, disallow : BOOLEAN,
                      seed : SUBSET Range(DedupKey), cut : Nat]
  /\ \A d \in Dialects : MaxEvents[d] \in Nat
  /\ MaxRounds \in Nat

VARIABLES
  live, body,   \* the two handlers
  dialect,      \* which events the upstream client sends
  up,           \* direct dialect: what the upstream has open and sent
  round,        \* attempts
  n             \* events of all rounds

vars == <<live, body, dialect, up, round, n>>

-----------------------------------------------------------------------------
(* Frames and the client that reads them; a type or reason of "none" is the
   empty string. *)

Frame(ev, i, type, data) == [ev |-> ev, i |-> i, type |-> type, data |-> data]
BlockStart(i, type, data) == Frame("content_block_start", i, type, data)
BlockDelta(i, type, data) == Frame("content_block_delta", i, type, data)
BlockStop(i) == Frame("content_block_stop", i, "none", NoText)
MessageDelta(reason) == Frame("message_delta", -1, reason, NoText)
MessageStop == Frame("message_stop", -1, "none", NoText)
Notice == Frame("notice", -1, "none", NoText)

NewView == [open |-> {}, used |-> {}, text |-> <<>>, tools |-> <<>>,
            indexes |-> <<>>, shown |-> FALSE, reason |-> "none", ended |-> FALSE, ok |-> TRUE]

\* A reader of Anthropic events: blocks are started once, filled and stopped
\* while they are open, and the message ends once, with every block stopped.
Receive(v, f) ==
  LET Expect(c, w) == IF c /\ ~v.ended THEN w ELSE [v EXCEPT !.ok = FALSE]
  IN CASE f.ev = "content_block_start" ->
            Expect(f.i >= 0 /\ f.i \notin v.used,
                   [v EXCEPT !.open = @ \cup {f.i}, !.used = @ \cup {f.i}, !.shown = TRUE,
                             !.tools = IF f.type = "tool_use" THEN Append(@, f.data) ELSE @])
       [] f.ev = "content_block_delta" ->
            Expect(f.i \in v.open,
                   [v EXCEPT !.text = IF f.type = "text" THEN Append(@, f.data) ELSE @])
       [] f.ev = "content_block_stop" ->
            Expect(f.i \in v.open, [v EXCEPT !.open = @ \ {f.i}])
       [] f.ev = "message_delta" ->
            Expect(v.reason = "none" /\ v.open = {}, [v EXCEPT !.reason = f.type])
       [] f.ev = "message_stop" ->
            Expect(v.reason # "none", [v EXCEPT !.ended = TRUE])
       [] OTHER -> Expect(TRUE, v)

\* AppendOpenAIChunkWithHint: the frames that become a chunk.
HasOpenAIChunk(f) ==
  \/ f.ev = "content_block_start" /\ f.type = "tool_use"
  \/ f.ev = "content_block_delta"
  \/ f.ev = "message_delta"

\* The hint a tool chunk carries as its index: setToolIndexHint is never called.
ToolIndexHint == 0

\* A reader of OpenAI chunks; [DONE] stands for message_stop.
ReceiveChunk(v, f) ==
  LET Expect(c, w) == IF c /\ ~v.ended THEN w ELSE [v EXCEPT !.ok = FALSE]
  IN CASE f.ev = "content_block_start" ->
            Expect(v.reason = "none", [v EXCEPT !.tools = Append(@, f.data), !.shown = TRUE,
                                            !.indexes = Append(@, ToolIndexHint)])
       [] f.ev = "content_block_delta" ->
            Expect(v.reason = "none",
                   [v EXCEPT !.text = IF f.type = "text" THEN Append(@, f.data) ELSE @, !.shown = TRUE])
       [] f.ev = "message_delta" -> Expect(v.reason = "none", [v EXCEPT !.reason = f.type])
       [] f.ev = "message_stop" -> Expect(v.reason # "none", [v EXCEPT !.ended = TRUE])

-----------------------------------------------------------------------------
(* Writing. *)

MarkWriteError(h) ==
  IF h.hasReturn THEN h ELSE [h EXCEPT !.hasReturn = TRUE, !.stop = "write_error"]

\* One frame to the connection, which breaks after cut frames.
Send(h, f) ==
  IF h.cut = 0 THEN MarkWriteError(h)
  ELSE [h EXCEPT !.cut = IF @ = Never THEN Never ELSE @ - 1,
                 !.view = IF h.format = "openai" THEN ReceiveChunk(@, f) ELSE Receive(@, f)]

\* writeFinalSSEBytes: goes out although the response has returned.
WriteFinal(h, f) ==
  IF \/ ~h.stream
     \/ h.format = "openai" /\ ~HasOpenAIChunk(f) /\ f.ev # "message_stop"
  THEN h ELSE Send(h, f)

\* writeSSEBytes and its variants: nothing after the return.
Write(h, f) ==
  IF \/ ~h.stream \/ h.hasReturn
     \/ h.format = "openai" /\ ~HasOpenAIChunk(f)
  THEN h ELSE Send(h, f)

\* writeKeepAlive: a comment line, in either format.
KeepAlive(h) ==
  IF ~h.stream \/ h.hasReturn THEN h
  ELSE IF h.cut = 0 THEN MarkWriteError(h)
  ELSE [h EXCEPT !.cut = IF @ = Never THEN Never ELSE @ - 1]

-----------------------------------------------------------------------------
(* Blocks. *)

ActiveIndex(h) == IF h.activeType = "thinking" THEN h.thinking ELSE h.text

\* popActiveBlockStopDataLocked: the state without its active block.
PopActive(h) ==
  [h EXCEPT !.activeType = "none",
            !.thinking = IF h.activeType = "thinking" THEN -1 ELSE @,
            !.text = IF h.activeType = "text" THEN -1 ELSE @,
            !.block = [@ EXCEPT ![h.activeType] = 0]]

\* Mutant: the block is forgotten without its stop frame.
ForgetActiveBlock(h) == IF h.activeType = "none" THEN h ELSE PopActive(h)

CloseActiveBlock(h) ==
  IF h.activeType = "none" THEN h ELSE Write(PopActive(h), BlockStop(ActiveIndex(h)))

OpenBlock(h, type) ==
  LET i == h.blockIndex + 1
      opened == [h EXCEPT !.blockIndex = i, !.activeType = type, ![type] = i,
                          !.content = Append(@, [type |-> type, data |-> <<>>]),
                          !.block = [@ EXCEPT ![type] = Len(h.content) + 1],
                          !.sig = @ /\ type # "thinking"]
  IN Write(opened, BlockStart(i, type, NoText))

\* ensureBlock: the block of this type is open, and no other.
EnsureBlock(h, type) ==
  IF (type = "thinking" /\ h.suppress) \/ h.activeType = type THEN h
  ELSE OpenBlock(CloseActiveBlock(h), type)

\* The builder of the active block: kept for the body of the response.
Build(h, type, t) ==
  IF h.block[type] = 0 THEN h ELSE [h EXCEPT !.content[h.block[type]].data = Append(@, t)]

CountTokens(h) == [h EXCEPT !.estimated = @ \/ ~h.usage]

\* A delta into the block of its type, which is opened when none is.
EmitDelta(h, type, t) ==
  LET k == EnsureBlock(h, type)
      b == IF h[type] >= 0 THEN h ELSE k
  IN Write(Build(b, type, t), BlockDelta(b[type], type, t))

EmitThinkingDelta(h, t) == IF h.suppress THEN h ELSE EmitDelta(CountTokens(h), "thinking", t)
EmitTextDelta(h, t) == EmitDelta(CountTokens([h EXCEPT !.hasText = TRUE]), "text", t)

\* emitTextBlockWithMode(text, true)
EmitFinalTextBlock(h, t) ==
  LET i == h.blockIndex + 1
      g == [h EXCEPT !.blockIndex = i, !.hasText = TRUE]
  IN WriteFinal(WriteFinal(WriteFinal(g, BlockStart(i, "text", NoText)), BlockDelta(i, "text", t)), BlockStop(i))

\* emitWriteChunkFallbackIfNeeded: what was written to files stands in for a
\* text when there is none.
EmitWriteChunkFallback(h) ==
  IF h.hasText \/ ~h.chunks THEN h
  ELSE IF h.stream THEN EmitFinalTextBlock(h, Piece)
  ELSE [h EXCEPT !.hasText = TRUE,
                 !.content = Append(@, [type |-> "text", data |-> <<Piece>>])]

\* InjectErrorText: the error becomes a text of the response.
InjectErrorText(h) ==
  LET g == EnsureBlock([h EXCEPT !.hasText = TRUE], "text")
  IN IF h.stream THEN Write(g, BlockDelta(g.text, "text", ErrorText)) ELSE Build(g, "text", ErrorText)

-----------------------------------------------------------------------------
(* Tool calls. *)

\* shouldAcceptToolCallWithFilter
Accepts(h, c, declared) ==
  /\ ~h.disallow
  /\ Verdict[c.tool] \notin {"sandbox", "invalid"}
  /\ declared => Verdict[c.tool] # "undeclared"
  /\ c.filled \/ c.tool \notin NeedsInput
  /\ DedupKey[c.tool] \notin h.dedup \ {NoKey}

\* Mutant: a call is remembered before it is validated.
RememberAll(h, c, declared) ==
  LET key == {DedupKey[c.tool]} \ {NoKey}
      valid == c.filled \/ c.tool \notin NeedsInput
  IN IF Accepts(h, c, declared) \/ ~valid
     THEN [h EXCEPT !.dedup = @ \cup key, !.seed = @ \cup key]
     ELSE IF Accepts([h EXCEPT !.dedup = {}], c, declared) THEN [h EXCEPT !.dropped = @ \cup key] ELSE h

\* What the filter remembers: accepted side effects, and (history) those it
\* dropped as repeated.
Remember(h, c, declared) ==
  LET key == {DedupKey[c.tool]} \ {NoKey}
  IN IF Accepts(h, c, declared)
     THEN [h EXCEPT !.dedup = @ \cup key, !.seed = @ \cup key]
     ELSE IF Accepts([h EXCEPT !.dedup = {}], c, declared) THEN [h EXCEPT !.dropped = @ \cup key] ELSE h

ToolBlock(h, i, c) ==
  Write(Write(Write(h, BlockStart(i, "tool_use", c.tool)), BlockDelta(i, "tool_use", c.tool)), BlockStop(i))

\* emitToolUseFromInput
EmitToolUse(h, c) ==
  IF c.id \in h.emitted THEN h
  ELSE ToolBlock([CountTokens(h) EXCEPT !.emitted = @ \cup {c.id}, !.count = @ + 1, !.blockIndex = @ + 1],
                 h.blockIndex + 1, c)

\* handleToolCallAfterChecks
Postpone(h, c) == [h EXCEPT !.pending = Append(@, c), !.count = @ + 1]

\* The common end of tool-input-end and tool-call.
AcceptToolCall(h, c) ==
  IF c.id \in h.handled THEN h
  ELSE LET g == Remember(h, c, TRUE)
       IN IF ~Accepts(h, c, TRUE) THEN g
          ELSE IF h.stream THEN EmitToolUse([g EXCEPT !.handled = @ \cup {c.id}], c)
          ELSE Postpone([g EXCEPT !.handled = @ \cup {c.id}], c)

\* Mutant: only the first call is kept.
FlushFirstToolCall(h) ==
  [h EXCEPT !.content = IF h.pending = <<>> THEN @
                        ELSE Append(@, [type |-> "tool_use", data |-> <<h.pending[1].tool>>]),
            !.pending = <<>>]

\* flushPendingToolCalls: only the body postpones calls.
FlushPendingToolCalls(h) ==
  [IF h.pending = <<>> THEN h ELSE CountTokens(h) EXCEPT
     !.content = @ \o [k \in 1..Len(h.pending) |-> [type |-> "tool_use", data |-> <<h.pending[k].tool>>]],
     !.pending = <<>>]

HasToolCalls(h) == h.count > 0 \/ h.pending # <<>> \/ h.emitted # {}

-----------------------------------------------------------------------------
(* The end of a response and of an attempt. *)

\* Mutant: the reason is not checked against the calls.
FinishWithReason(h, reason) ==
  IF h.hasReturn THEN h
  ELSE LET g == [h EXCEPT !.hasReturn = TRUE, !.stop = reason]
           closed == IF g.stream /\ g.activeType # "none" THEN WriteFinal(PopActive(g), BlockStop(ActiveIndex(g))) ELSE g
           flushed == FlushPendingToolCalls(IF reason = "tool_use" THEN closed ELSE EmitWriteChunkFallback(closed))
       IN WriteFinal(WriteFinal(flushed, MessageDelta(reason)), MessageStop)

FinishResponse(h, reason) ==
  IF h.hasReturn THEN h
  ELSE LET why == IF reason = "tool_use" /\ ~HasToolCalls(h) THEN "end_turn" ELSE reason
           g == [h EXCEPT !.hasReturn = TRUE, !.stop = why]
           closed == IF g.stream /\ g.activeType # "none" THEN WriteFinal(PopActive(g), BlockStop(ActiveIndex(g))) ELSE g
           flushed == FlushPendingToolCalls(IF why = "tool_use" THEN closed ELSE EmitWriteChunkFallback(closed))
       IN WriteFinal(WriteFinal(flushed, MessageDelta(why)), MessageStop)

\* Mutant: a text that was not finished stays so.
ForceFinishToolsOnly(h) == IF HasToolCalls(h) THEN FinishResponse(h, "tool_use") ELSE h

ForceFinishIfMissing(h) == FinishResponse(h, IF HasToolCalls(h) THEN "tool_use" ELSE "end_turn")

\* Mutant: blocks are not looked at.
HasTextOrTools(h) == h.hasText \/ HasToolCalls(h) \/ h.chunks

HasAnyOutput(h) == h.hasText \/ HasToolCalls(h) \/ h.content # <<>> \/ h.chunks \/ h.estimated

\* resetRoundState, before every attempt.  The block index, the greetings and
\* the side effects accepted so far are kept.
ResetRoundState(h) ==
  [CloseActiveBlock(h) EXCEPT
     !.activeType = "none", !.thinking = -1, !.text = -1, !.block = [thinking |-> 0, text |-> 0],
     !.hasReturn = FALSE, !.stop = "none", !.content = <<>>, !.pending = <<>>, !.inputs = <<>>,
     !.directTools = <<>>, !.handled = {}, !.emitted = {}, !.dedup = h.seed, !.count = 0,
     !.estimated = FALSE, !.usage = FALSE, !.chunks = FALSE, !.hasText = FALSE,
     !.last = [text |-> NoText, source |-> "none"]]

-----------------------------------------------------------------------------
(* handleMessage: the events of puter and of the agents. *)

WithSignature(h, signed) == [h EXCEPT !.sig = @ \/ signed]

ReasoningStart(h, signed) ==
  IF signed THEN EnsureBlock([h EXCEPT !.sig = TRUE], "thinking") ELSE [h EXCEPT !.sig = FALSE]

ReasoningDelta(h, t, signed) ==
  LET g == WithSignature(h, signed)
  IN IF t # NoText THEN EmitDelta(g, "thinking", t)
     ELSE IF g.sig THEN EnsureBlock(g, "thinking") ELSE g

\* shouldSkipCrossChannelDuplicateDelta: the same text from the other source,
\* within two seconds.
CrossChannelDuplicate(h, t, source, soon) ==
  h.last.text = t /\ h.last.source \notin {"none", source} /\ soon

\* A text: a tool hidden in it is called, greetings come once, and so does what
\* arrives from both sources.
TextDelta(h, t, source, soon, id) ==
  LET called == IF Marker[t] = NoTool THEN h
                ELSE AcceptToolCall(h, [id |-> id, tool |-> Marker[t], filled |-> TRUE])
      d == Rest[t]
      greeted == [called EXCEPT !.intros = @ \cup ({Intro[t]} \ {NoKey})]
      noted == [greeted EXCEPT !.last = [text |-> d, source |-> source]]
  IN IF d = NoText THEN called
     ELSE IF Intro[t] \in called.intros THEN called
     ELSE IF CrossChannelDuplicate(greeted, d, source, soon) THEN noted
     ELSE EmitTextDelta(noted, d)

\* coding_agent.start, coding_agent.initializing and init
AgentStart(h) ==
  Write(IF h.thinking >= 0 \/ h.sig THEN EnsureBlock(h, "thinking") ELSE h, Notice)

CreditsExhausted(h) == FinishResponse(InjectErrorText(CloseActiveBlock(h)), "end_turn")

\* coding_agent.Write.started and .Edit.edit.started
WriteStarted(h) ==
  IF ~h.stream \/ h.suppress THEN h
  ELSE Write(EmitThinkingDelta(EnsureBlock(h, "thinking"), Piece), Notice)

WriteChunk(h) ==
  LET g == [h EXCEPT !.chunks = TRUE]
  IN IF ~h.stream THEN h
     ELSE IF h.suppress THEN EmitTextDelta(g, Piece)
     ELSE Write(EmitThinkingDelta(g, Piece), Notice)

WriteCompleted(h) ==
  IF ~h.stream \/ h.suppress THEN h ELSE Write(EmitThinkingDelta(h, Piece), Notice)

\* fs_operation, at most once a second
FsOperation(h, throttled) == IF throttled THEN h ELSE Write(h, Notice)

\* A map with one more entry, or another value for it.
With(f, k, x) == [j \in DOMAIN f \cup {k} |-> IF j = k THEN x ELSE f[j]]

ToolInputStart(h, id, tool) ==
  [CloseActiveBlock(h) EXCEPT !.inputs = With(@, id, [tool |-> tool, filled |-> FALSE])]

ToolInputDelta(h, id) ==
  IF id \notin DOMAIN h.inputs THEN h ELSE [h EXCEPT !.inputs[id].filled = TRUE]

WithoutInput(h, id) == [h EXCEPT !.inputs = Restrict(@, DOMAIN @ \ {id})]

ToolInputEnd(h, id) ==
  IF id \notin DOMAIN h.inputs THEN h
  ELSE AcceptToolCall(WithoutInput(h, id),
                      [id |-> id, tool |-> h.inputs[id].tool, filled |-> h.inputs[id].filled])

\* model.tool-call: an accepted call also ends the input collected for its id.
ToolCall(h, id, tool) ==
  LET c == [id |-> id, tool |-> tool, filled |-> TRUE]
  IN IF id \notin h.handled /\ Accepts(h, c, TRUE) THEN AcceptToolCall(WithoutInput(h, id), c)
     ELSE AcceptToolCall(h, c)

ModelFinish(h, reason) ==
  LET why == IF h.emitted # {} THEN "tool_use" ELSE IF HasToolCalls(h) THEN reason ELSE "end_turn"
  IN FinishResponse(CloseActiveBlock(h), why)

-----------------------------------------------------------------------------
(* handleDirectFinalSSEEvent: an upstream that sends Anthropic events itself. *)

\* content_block_start: a tool is kept back until its input is complete.
DirectStart(h, i, type, c) ==
  LET seen == [h EXCEPT !.blockIndex = IF i > @ THEN i ELSE @]
  IN CASE type = "thinking" /\ h.suppress -> [h EXCEPT !.skipped = @ \cup {i}]
       [] type = "tool_use" -> [seen EXCEPT !.directTools = With(@, i, c)]
       [] OTHER ->
            LET b == IF h.stream THEN h ELSE EnsureBlock(h, type)
            IN Write([b EXCEPT !.blockIndex = IF i > @ THEN i ELSE @, !.activeType = type, ![type] = i],
                     BlockStart(i, type, NoText))

DirectDelta(h, i, type, t) ==
  CASE i \in h.skipped -> h
    [] i \in DOMAIN h.directTools -> [h EXCEPT !.directTools[i].filled = TRUE]
    [] OTHER ->
         LET b == IF h.stream THEN h ELSE Build(h, type, t)
             g == IF type = "text" THEN CountTokens([b EXCEPT !.hasText = TRUE]) ELSE b
         IN Write(g, BlockDelta(i, type, t))

\* content_block_stop of a tool: the whole block is written at its index.
DirectToolStop(h, i) ==
  LET c == h.directTools[i]
      g == Remember([h EXCEPT !.directTools = Restrict(@, DOMAIN @ \ {i})], c, FALSE)
      accepted == [g EXCEPT !.handled = @ \cup {c.id}]
  IN IF c.id \in h.handled THEN [h EXCEPT !.directTools = Restrict(@, DOMAIN @ \ {i})]
     ELSE IF ~Accepts(h, c, FALSE) THEN g
     ELSE IF ~h.stream THEN Postpone(accepted, c)
     ELSE IF c.id \in h.emitted THEN accepted
     ELSE ToolBlock([CountTokens(accepted) EXCEPT !.emitted = @ \cup {c.id}, !.count = @ + 1], i, c)

DirectStop(h, i) ==
  CASE i \in h.skipped -> [h EXCEPT !.skipped = @ \ {i}]
    [] i \in DOMAIN h.directTools -> DirectToolStop(h, i)
    [] OTHER ->
         LET ends == {type \in {"text", "thinking"} : h[type] = i}
         IN Write([h EXCEPT !.text = IF "text" \in ends THEN -1 ELSE @,
                            !.thinking = IF "thinking" \in ends THEN -1 ELSE @,
                            !.activeType = IF @ \in ends THEN "none" ELSE @], BlockStop(i))

DirectMessageDelta(h, reason) == Write([h EXCEPT !.stop = reason], MessageDelta(reason))

DirectMessageStop(h) ==
  LET g == Write(h, MessageStop)
  IN IF h.stream THEN [g EXCEPT !.hasReturn = TRUE] ELSE FinishResponse(g, IF h.stop = "none" THEN "end_turn" ELSE h.stop)

-----------------------------------------------------------------------------
(* The two handlers of a request in each mode, and the upstream that feeds them. *)

NewHandler(stream, m) ==
  [stream |-> stream, format |-> m.format, suppress |-> m.suppress, disallow |-> m.disallow,
   earlier |-> m.seed, blockIndex |-> -1, activeType |-> "none", thinking |-> -1, text |-> -1,
   block |-> [thinking |-> 0, text |-> 0],
   hasReturn |-> FALSE, stop |-> "none", content |-> <<>>, hasText |-> FALSE, chunks |-> FALSE,
   estimated |-> FALSE, usage |-> FALSE, sig |-> FALSE,
   last |-> [text |-> NoText, source |-> "none"], intros |-> {},
   inputs |-> <<>>, directTools |-> <<>>, skipped |-> {}, pending |-> <<>>,
   handled |-> {}, emitted |-> {}, count |-> 0, dedup |-> m.seed, seed |-> m.seed,
   dropped |-> {}, cut |-> IF stream THEN m.cut ELSE Never, over |-> FALSE, view |-> NewView]

NothingSent == [sent |-> 0, open |-> "none", next |-> 0, tools |-> {}, coding |-> FALSE, told |-> FALSE]

Init ==
  /\ dialect \in Dialects
  /\ \E m \in Modes : live = NewHandler(TRUE, m) /\ body = NewHandler(FALSE, m)
  /\ up = NothingSent
  /\ round = 1
  /\ n = 0

Over == live.over /\ body.over

\* handleMessage returns at once when the response has returned.
Feed(h, Op(_)) == IF h.over \/ h.hasReturn THEN h ELSE Op(h)

\* In no-thinking mode the reasoning events are dropped.
FeedThinking(h, Op(_)) == IF h.suppress THEN h ELSE Feed(h, Op)

Sends(d, next) ==
  /\ dialect = d /\ ~Over /\ n < MaxEvents[d]
  /\ n' = n + 1
  /\ up' = next
  /\ UNCHANGED <<dialect, round>>

Sent == [up EXCEPT !.sent = @ + 1]
Both(Op(_)) == live' = Feed(live, Op) /\ body' = Feed(body, Op)
BothThinking(Op(_)) == live' = FeedThinking(live, Op) /\ body' = FeedThinking(body, Op)

\* emitResponseEvents of the Puter client: a text, the tools, the finish.  Its
\* usage has a type the handler does not read.
PuterText(t) ==
  /\ Sends("puter", Sent) /\ up.sent = 0
  /\ Both(LAMBDA h : TextDelta(h, t, "model", FALSE, 0))

PuterTool(id, tool) ==
  /\ ~up.told /\ id \notin up.tools
  /\ Sends("puter", [Sent EXCEPT !.tools = @ \cup {id}])
  /\ Both(LAMBDA h : ToolCall(h, id, tool))

PuterFinish ==
  /\ ~up.told
  /\ Sends("puter", [Sent EXCEPT !.told = TRUE])
  /\ Both(LAMBDA h : ModelFinish(h, IF up.tools = {} THEN "end_turn" ELSE "tool_use"))

AgentReasoning(t, signed) ==
  /\ Sends("agent", Sent)
  /\ \/ BothThinking(LAMBDA h : ReasoningStart(h, signed))
     \/ BothThinking(LAMBDA h : ReasoningDelta(h, t, signed))
     \/ BothThinking(CloseActiveBlock)

AgentText(t, source, soon) ==
  /\ Sends("agent", Sent)
  /\ Both(LAMBDA h : TextDelta(h, t, source, soon, n))

AgentTextBlock ==
  /\ Sends("agent", Sent)
  /\ Both(LAMBDA h : EnsureBlock(h, "text")) \/ Both(CloseActiveBlock)

AgentTool(id, tool) ==
  /\ Sends("agent", Sent)
  /\ \/ Both(LAMBDA h : ToolInputStart(h, id, tool))
     \/ Both(LAMBDA h : ToolInputDelta(h, id))
     \/ Both(LAMBDA h : ToolInputEnd(h, id))
     \/ Both(LAMBDA h : ToolCall(h, id, tool))

AgentCoding ==
  /\ Sends("agent", [Sent EXCEPT !.coding = TRUE])
  /\ \/ BothThinking(AgentStart) \/ Both(AgentStart)
     \/ Both(WriteStarted) \/ Both(WriteChunk) \/ Both(WriteCompleted)
     \/ \E throttled \in BOOLEAN : Both(LAMBDA h : FsOperation(h, throttled))

AgentEnds(reason) ==
  /\ Sends("agent", [Sent EXCEPT !.told = TRUE])
  /\ \/ Both(CreditsExhausted)
     \/ Both(LAMBDA h : ModelFinish(h, reason))

AgentUsage ==
  /\ Sends("agent", Sent)
  /\ Both(LAMBDA h : [h EXCEPT !.usage = TRUE])

\* A well-formed Anthropic stream: blocks one after the other, then its end.
DirectBlockStart(type, id, tool) ==
  /\ up.open = "none" /\ ~up.told /\ id \notin up.tools
  /\ Sends("direct", [Sent EXCEPT !.open = type,
                                  !.tools = IF type = "tool_use" THEN @ \cup {id} ELSE @])
  /\ Both(LAMBDA h : DirectStart(h, up.next, type, [id |-> id, tool |-> tool, filled |-> FALSE]))

DirectBlockDelta ==
  /\ up.open # "none" /\ ~up.told
  /\ Sends("direct", Sent)
  /\ Both(LAMBDA h : DirectDelta(h, up.next, up.open, Piece))

DirectBlockStop ==
  /\ up.open # "none" /\ ~up.told
  /\ Sends("direct", [Sent EXCEPT !.open = "none", !.next = @ + 1])
  /\ Both(LAMBDA h : DirectStop(h, up.next))

DirectReason ==
  /\ up.open = "none" /\ ~up.told
  /\ Sends("direct", [Sent EXCEPT !.told = TRUE, !.open = "nothing"])
  /\ Both(LAMBDA h : DirectMessageDelta(h, IF up.tools = {} THEN "end_turn" ELSE "tool_use"))

DirectEnd ==
  /\ up.open = "nothing"
  /\ Sends("direct", [Sent EXCEPT !.open = "none"])
  /\ Both(DirectMessageStop)

-----------------------------------------------------------------------------
(* The attempts of the request loop. *)

\* Where an upstream client can return.  Puter sends nothing before its answer
\* is complete, and none fails after it has sent the end.  HasAnyOutput does not
\* see the blocks an upstream writes itself: its failures are not retried here.
MayReturn == up.open # "nothing" /\ (dialect = "puter" => up.told)
MayFail == ~up.told /\ (dialect = "puter" => up.sent = 0)

EndAttempt(h) == IF h.over THEN h ELSE [ForceFinishIfMissing(h) EXCEPT !.over = TRUE]

\* The upstream client returns without an error.
AttemptSucceeds ==
  /\ ~Over /\ MayReturn
  /\ live' = EndAttempt(live) /\ body' = EndAttempt(body)
  /\ UNCHANGED <<dialect, up, round, n>>

\* An error: reported when something went out, else retried, reported, or left
\* unsaid because the request is gone.
FailedAttempt(h, then) ==
  IF h.over THEN h
  ELSE IF HasAnyOutput(h) \/ then = "report"
       THEN [FinishResponse(InjectErrorText(h), "end_turn") EXCEPT !.over = TRUE]
  ELSE IF then = "cancel" THEN [FinishResponse(h, "end_turn") EXCEPT !.over = TRUE]
  ELSE ResetRoundState(h)

AttemptFails(then) ==
  /\ ~Over /\ MayFail
  /\ then = "retry" => round < MaxRounds /\ (dialect = "direct" => up.sent = 0)
  /\ live' = FailedAttempt(live, then) /\ body' = FailedAttempt(body, then)
  /\ round' = round + 1
  /\ up' = NothingSent
  /\ UNCHANGED <<dialect, n>>

\* The ticker's goroutine writes between two events.
KeepAliveTick ==
  /\ ~live.over
  /\ live' = KeepAlive(live)
  /\ UNCHANGED <<body, dialect, up, round, n>>

Next ==
  \/ \E t \in Texts : PuterText(t)
  \/ \E id \in Ids, tool \in Tools : PuterTool(id, tool)
  \/ PuterFinish
  \/ \E t \in {Piece, NoText}, signed \in BOOLEAN : AgentReasoning(t, signed)
  \/ \E t \in Texts, source \in {"model", "coding_agent"}, soon \in BOOLEAN : AgentText(t, source, soon)
  \/ \E id \in Ids, tool \in Tools : AgentTool(id, tool)
  \/ AgentTextBlock
  \/ AgentCoding
  \/ \E reason \in {"tool_use", "end_turn"} : AgentEnds(reason)
  \/ AgentUsage
  \/ \E type \in {"text", "thinking", "tool_use"}, id \in Ids, tool \in Tools : DirectBlockStart(type, id, tool)
  \/ DirectBlockDelta
  \/ DirectBlockStop
  \/ DirectReason
  \/ DirectEnd
  \/ AttemptSucceeds
  \/ \E then \in {"retry", "report", "cancel"} : AttemptFails(then)
  \/ KeepAliveTick

Spec == Init /\ [][Next]_vars

-----------------------------------------------------------------------------
(* Correctness. *)

\* Writing has not failed (yet).
Intact == live.cut # 0
TextOf(h) == FlattenSeq([k \in DOMAIN h.content |-> IF h.content[k].type = "text" THEN h.content[k].data ELSE <<>>])
ToolsOf(h) == FlattenSeq([k \in DOMAIN h.content |-> IF h.content[k].type = "tool_use" THEN h.content[k].data ELSE <<>>])

\* Whatever the order of the events, of errors and of retries, the client never
\* sees a block started twice, a delta or a stop outside of its block, an end
\* with a block open, two ends, or anything after the end.
WellFormed == live.view.ok

\* A request that is over has told a connected client that it is: the last
\* block is stopped, a reason is given and the message ends.  (After an upstream
\* that ends the message itself, the OpenAI stream has no [DONE].)
EndsOnce ==
  live.over /\ Intact /\ ~(dialect = "direct" /\ live.format = "openai") => live.view.ended

\* A client told to run tools has been given one, and one that is given a tool
\* of Puter's is told to run it, in both modes.  (A body whose only tools were
\* hidden in a text is not.)
ReasonFits ==
  /\ live.over /\ Intact /\ dialect # "direct" =>
       /\ live.view.reason = "tool_use" => live.view.tools # <<>>
       /\ dialect = "puter" /\ live.view.tools # <<>> => live.view.reason = "tool_use"
  /\ body.over =>
       /\ body.stop = "tool_use" => ToolsOf(body) # <<>>
       /\ dialect = "puter" /\ ToolsOf(body) # <<>> /\ up.tools # {} => body.stop = "tool_use"

\* A call dropped as repeated has been carried out by an earlier turn, or a call
\* with the same effect is in this response, also after a retry.
DroppedWasDelivered ==
  LET Given(h, tools) ==
        \A key \in h.dropped : key \in h.earlier \/ \E k \in DOMAIN tools : DedupKey[tools[k]] = key
  IN /\ live.over /\ Intact => Given(live, live.view.tools)
     /\ body.over => Given(body, ToolsOf(body))

\* The same upstream gives the same text and the same tools with and without
\* streaming: in the answer of one attempt always, and after retries of Puter.
SameAnswer ==
  live.over /\ body.over /\ Intact /\ ~up.coding /\ (round = 1 \/ dialect = "puter") =>
    /\ live.view.text = TextOf(body)
    /\ live.view.tools = ToolsOf(body)

\* An attempt is only tried again when the client has seen nothing of it.
RetryLeavesNoTrace ==
  round > 1 /\ up.sent = 0 /\ ~live.over => ~live.view.shown

\* Parallel tool calls of an OpenAI response are told apart by their index
\* (internal/adapter/openai_sse.go: "toolIndex: per-chunk tool index").
ToolIndexesApart == IsInjective(live.view.indexes)
=============================================================================
