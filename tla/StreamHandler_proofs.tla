------------------------ MODULE StreamHandler_proofs ------------------------
(***************************************************************************)
(* Proofs about StreamHandler for any texts, tools, modes and numbers of   *)
(* events and attempts.  The first half: the stream that a client reads is *)
(* well-formed and ends, and an attempt is tried again only if the client  *)
(* has seen nothing of it.  The second half, from "Answers" on: what both  *)
(* responses amount to is the same, a call dropped as repeated has been    *)
(* given, and the reason for the end fits the calls.                       *)
(***************************************************************************)
EXTENDS StreamHandler, TLAPS, FiniteSetTheorems, SequenceTheorems, WellFoundedInduction

Fields ==
  {"stream", "format", "suppress", "disallow", "earlier", "blockIndex", "activeType", "thinking", "text", "block",
   "hasReturn", "stop", "content", "hasText", "chunks", "estimated", "usage", "sig", "last", "intros", "inputs",
   "directTools", "skipped", "pending", "handled", "emitted", "count", "dedup", "seed", "dropped", "cut", "over",
   "view"}
ViewFields == {"open", "used", "text", "tools", "indexes", "shown", "reason", "ended", "ok"}

\* A streaming handler and its client have the fields of the records they start as.
IsHandler(h) ==
  /\ h = [f \in Fields |-> h[f]] /\ h.view = [f \in ViewFields |-> h.view[f]]
  /\ h.stream = TRUE /\ h.format \in {"anthropic", "openai"}

\* At most one block is active, and the index of every other kind is negative.
Blocks(h) ==
  /\ h.blockIndex \in Int /\ h.blockIndex >= -1 /\ h.text \in Int /\ h.thinking \in Int
  /\ h.activeType \in {"none", "text", "thinking"}
  /\ h.text >= 0 => h.activeType = "text"
  /\ h.thinking >= 0 => h.activeType = "thinking"
  /\ h.activeType # "none" => ActiveIndex(h) \in 0..h.blockIndex

Begun(v) == v.ok = TRUE /\ v.ended = FALSE /\ v.reason = "none"
Opened(v, O, U) == v.open = O /\ v.used \subseteq U

\* The client has not been told the end, the blocks of O are open, and none has been started outside of U.
Reads(h, O, U) ==
  /\ h.view.ok = TRUE
  /\ h.cut # 0 => Begun(h.view) /\ (h.format = "anthropic" => Opened(h.view, O, U))

Active(h) == IF h.activeType = "none" THEN {} ELSE {ActiveIndex(h)}

\* What the client has been shown counts as output of the attempt.
Visible(h) == h.hasText = TRUE \/ h.emitted # {} \/ h.content # <<>>

IsSeq(s) == s \in Seq(Range(s))

Noticed(h) ==
  /\ IsSeq(h.content)
  /\ h.activeType # "none" => h.content # <<>>
  /\ h.view.shown = TRUE => Visible(h)

\* Only a failed write has ended the response, if anything has.
Unreturned(h) == h.cut # 0 => h.hasReturn # TRUE

\* In an attempt.
Going(h) ==
  /\ IsHandler(h) /\ Blocks(h) /\ Reads(h, Active(h), 0..h.blockIndex)
  /\ Unreturned(h)

\* After the response: the client knows, if it is there.
Done(h, d) ==
  /\ IsHandler(h) /\ h.hasReturn = TRUE /\ h.view.ok = TRUE
  /\ h.cut # 0 /\ ~(d = "direct" /\ h.format = "openai") => h.view.ended = TRUE

\* Between the reason and the end of an upstream that ends the message itself.
Reasoned(h) ==
  /\ IsHandler(h) /\ h.view.ok = TRUE
  /\ h.cut # 0 => h.hasReturn # TRUE /\ h.view.ended = FALSE /\ h.view.reason # "none"

\* The handler has the block that the upstream has open.
Follows(h, u) ==
  /\ h.activeType = IF u.open \in {"text", "thinking"} /\ u.next \notin h.skipped THEN u.open ELSE "none"
  /\ h.activeType # "none" => ActiveIndex(h) = u.next
  /\ h.skipped = IF u.open = "thinking" /\ h.suppress THEN {u.next} ELSE {}
  /\ DOMAIN h.directTools = IF u.open = "tool_use" THEN {u.next} ELSE {}
  /\ u.open = "tool_use" => u.next <= h.blockIndex
  /\ h.cut # 0 /\ h.format = "anthropic" => h.view.used \subseteq 0..(u.next - 1) \cup Active(h)

Upstream ==
  /\ dialect \in {"puter", "agent", "direct"}
  /\ up \in [sent : Nat, open : {"none", "text", "thinking", "tool_use", "nothing"}, next : Nat,
             tools : SUBSET Ids, coding : BOOLEAN, told : BOOLEAN]
  /\ dialect # "direct" => up.open = "none"
  /\ up.told => up.open \in {"none", "nothing"}
  /\ up.open = "nothing" => up.told
  /\ up.sent = 0 => up = NothingSent

Attempt(h, d, u) ==
  /\ ~u.told => Going(h)
  /\ u.told => IF u.open = "nothing" THEN Reasoned(h) ELSE Done(h, d)
  /\ d # "direct" /\ ~u.told => Noticed(h)
  /\ d = "direct" /\ ~u.told /\ (h.hasReturn # TRUE \/ u.sent = 0) => Follows(h, u)
  /\ u.sent = 0 => h.view.shown # TRUE

HandlerInv ==
  /\ Upstream
  /\ live.over \in BOOLEAN
  /\ IF live.over THEN Done(live, dialect) ELSE Attempt(live, dialect, up)

-----------------------------------------------------------------------------
(* Frames. *)

IsView(v) == v = [f \in ViewFields |-> v[f]]

LEMMA ReceiveView == ASSUME NEW v, IsView(v), NEW f PROVE IsView(Receive(v, f))
<1>. USE DEF IsView, ViewFields
<1>1. CASE f.ev = "content_block_start"
  BY <1>1 DEF Receive
<1>2. CASE f.ev = "content_block_delta"
  BY <1>2 DEF Receive
<1>3. CASE f.ev = "content_block_stop"
  BY <1>3 DEF Receive
<1>4. CASE f.ev = "message_delta"
  BY <1>4 DEF Receive
<1>5. CASE f.ev = "message_stop"
  BY <1>5 DEF Receive
<1>6. CASE f.ev \notin {"content_block_start", "content_block_delta", "content_block_stop",
                        "message_delta", "message_stop"}
  BY <1>6 DEF Receive
<1>7. QED
  BY <1>1, <1>2, <1>3, <1>4, <1>5, <1>6

\* What writing a frame leaves alone.
Written(h, g) ==
  /\ IsHandler(g)
  /\ g.format = h.format /\ g.suppress = h.suppress /\ g.over = h.over
  /\ g.blockIndex = h.blockIndex /\ g.activeType = h.activeType /\ g.text = h.text /\ g.thinking = h.thinking
  /\ g.content = h.content /\ g.hasText = h.hasText /\ g.emitted = h.emitted
  /\ g.skipped = h.skipped /\ g.directTools = h.directTools
  /\ g.cut # 0 => h.cut # 0 /\ g.hasReturn = h.hasReturn
  /\ h.hasReturn = TRUE => g.hasReturn = TRUE

LEMMA Broken == ASSUME NEW h, IsHandler(h), h.cut = 0 PROVE Written(h, MarkWriteError(h))
BY ZenonT(60) DEF Written, IsHandler, MarkWriteError, Fields

LEMMA Reaches ==
  ASSUME NEW h, IsHandler(h), h.cut # 0, NEW c, NEW v, IsView(v)
  PROVE  Written(h, [h EXCEPT !.cut = c, !.view = v])
BY DEF Written, IsHandler, Fields, IsView

\* A frame that the connection takes, and the client's reading of it.
LEMMA Taken ==
  ASSUME NEW h, IsHandler(h), NEW f, h.format = "openai" => HasOpenAIChunk(f) \/ f.ev = "message_stop"
  PROVE  LET g == Send(h, f)
         IN /\ Written(h, g)
            /\ h.cut = 0 => g.view = h.view
            /\ h.cut # 0 => g.view = IF h.format = "openai" THEN ReceiveChunk(h.view, f) ELSE Receive(h.view, f)
<1>1. CASE h.cut = 0
  BY <1>1, Broken DEF Send, MarkWriteError, IsHandler, Fields
<1>2. CASE h.cut # 0
  <2>. DEFINE v == IF h.format = "openai" THEN ReceiveChunk(h.view, f) ELSE Receive(h.view, f)
              c == IF h.cut = Never THEN Never ELSE h.cut - 1
  <2>1. IsView(h.view)
    BY DEF IsHandler, IsView
  <2>2. IsView(v)
    <3>1. CASE h.format = "openai"
      BY <2>1, <3>1, ZenonT(60) DEF IsView, ViewFields, ReceiveChunk, HasOpenAIChunk
    <3>2. CASE h.format # "openai"
      BY <2>1, <3>2, ReceiveView
    <3>3. QED
      BY <3>1, <3>2
  <2>3. Send(h, f) = [h EXCEPT !.cut = c, !.view = v]
    BY <1>2 DEF Send, IsHandler, Fields
  <2>. HIDE DEF v, c
  <2>4. Written(h, [h EXCEPT !.cut = c, !.view = v]) /\ [h EXCEPT !.cut = c, !.view = v].view = v
    BY <1>2, <2>2, Reaches DEF IsHandler, Fields
  <2>5. QED
    BY <1>2, <2>3, <2>4 DEF v
<1>3. QED
  BY <1>1, <1>2

LEMMA Untaken == ASSUME NEW h, IsHandler(h) PROVE Written(h, h)
BY DEF Written


LEMMA Delivered ==
  ASSUME NEW h, IsHandler(h), NEW f, h.format = "openai" => HasOpenAIChunk(f) \/ f.ev = "message_stop",
         NEW O, NEW U, h.view.ok = TRUE,
         h.cut # 0 /\ h.format = "anthropic" => Begun(Receive(h.view, f)) /\ Opened(Receive(h.view, f), O, U),
         h.cut # 0 /\ h.format = "openai" => Begun(ReceiveChunk(h.view, f))
  PROVE  Written(h, Send(h, f)) /\ Reads(Send(h, f), O, U)
<1>. DEFINE g == Send(h, f)
<1>1. /\ Written(h, g)
      /\ h.cut = 0 => g.view = h.view
      /\ h.cut # 0 => g.view = IF h.format = "openai" THEN ReceiveChunk(h.view, f) ELSE Receive(h.view, f)
  BY Taken
<1>2. g.format = h.format /\ (g.cut # 0 => h.cut # 0) /\ h.format \in {"anthropic", "openai"}
  BY <1>1 DEF Written, IsHandler
<1>. HIDE DEF g
<1>3. Reads(g, O, U)
  BY <1>1, <1>2 DEF Reads, Begun
<1>4. QED
  BY <1>1, <1>3 DEF g

LEMMA ReadStart ==
  ASSUME NEW v, IsView(v), Begun(v), NEW O, NEW U, NEW i \in Nat \ U, NEW type, NEW data
  PROVE  LET f == BlockStart(i, type, data)
         IN /\ Opened(v, O, U) => Begun(Receive(v, f)) /\ Opened(Receive(v, f), O \cup {i}, U \cup {i})
            /\ Begun(ReceiveChunk(v, f))
<1>. DEFINE f == BlockStart(i, type, data)
<1>1. f.ev = "content_block_start" /\ f.i = i
  BY DEF BlockStart, Frame
<1>. HIDE DEF f
<1>2. Opened(v, O, U) => Begun(Receive(v, f)) /\ Opened(Receive(v, f), O \cup {i}, U \cup {i})
  <2>1. SUFFICES ASSUME Opened(v, O, U)
                 PROVE  Begun(Receive(v, f)) /\ Opened(Receive(v, f), O \cup {i}, U \cup {i})
    OBVIOUS
  <2>2. f.i >= 0 /\ f.i \notin v.used /\ ~v.ended
    <3>1. i \in Nat /\ i \notin U
      OBVIOUS
    <3>2. i \notin v.used
      BY <2>1, <3>1 DEF Opened
    <3>3. ~v.ended
      BY DEF Begun
    <3>4. i >= 0
      BY <3>1
    <3>5. QED
      BY <1>1, <3>2, <3>3, <3>4
  <2>3. \E t : Receive(v, f) = [v EXCEPT !.open = @ \cup {i}, !.used = @ \cup {i}, !.shown = TRUE, !.tools = t]
    BY <1>1, <2>2 DEF Receive
  <2>4. QED
    BY <2>1, <2>3 DEF IsView, ViewFields, Begun, Opened
<1>3. Begun(ReceiveChunk(v, f))
  BY <1>1 DEF ReceiveChunk, IsView, ViewFields, Begun
<1>4. QED
  BY <1>2, <1>3 DEF f

LEMMA ReadDelta ==
  ASSUME NEW v, IsView(v), Begun(v), NEW O, NEW U, NEW i \in O, NEW type, NEW data
  PROVE  LET f == BlockDelta(i, type, data)
         IN /\ Opened(v, O, U) => Begun(Receive(v, f)) /\ Opened(Receive(v, f), O, U)
            /\ Begun(ReceiveChunk(v, f))
<1>. DEFINE f == BlockDelta(i, type, data)
<1>1. f.ev = "content_block_delta" /\ f.i = i
  BY DEF BlockDelta, Frame
<1>. HIDE DEF f
<1>2. Opened(v, O, U) => Begun(Receive(v, f)) /\ Opened(Receive(v, f), O, U)
  <2>1. SUFFICES ASSUME Opened(v, O, U) PROVE Begun(Receive(v, f)) /\ Opened(Receive(v, f), O, U)
    OBVIOUS
  <2>2. f.i \in v.open /\ ~v.ended
    BY <1>1, <2>1 DEF Opened, Begun
  <2>3. \E t : Receive(v, f) = [v EXCEPT !.text = t]
    BY <1>1, <2>2 DEF Receive
  <2>4. QED
    BY <2>1, <2>3 DEF IsView, ViewFields, Begun, Opened
<1>3. Begun(ReceiveChunk(v, f))
  BY <1>1 DEF ReceiveChunk, IsView, ViewFields, Begun
<1>4. QED
  BY <1>2, <1>3 DEF f

LEMMA ReadStop ==
  ASSUME NEW v, IsView(v), Begun(v), NEW O, NEW U, NEW i \in O
  PROVE  LET f == BlockStop(i)
         IN /\ Opened(v, O, U) => Begun(Receive(v, f)) /\ Opened(Receive(v, f), O \ {i}, U)
            /\ Receive(v, f).shown = v.shown
<1>. DEFINE f == BlockStop(i)
<1>1. f.ev = "content_block_stop" /\ f.i = i
  BY DEF BlockStop, Frame
<1>. HIDE DEF f
<1>2. Opened(v, O, U) => Begun(Receive(v, f)) /\ Opened(Receive(v, f), O \ {i}, U)
  BY <1>1 DEF Receive, IsView, ViewFields, Begun, Opened
<1>3. Receive(v, f).shown = v.shown
  BY <1>1 DEF Receive, IsView, ViewFields
<1>4. QED
  BY <1>2, <1>3 DEF f

\* writeSSEBytes, before the return, and writeFinalSSEBytes.
LEMMA Writing ==
  ASSUME NEW h, IsHandler(h), NEW O, NEW U, Reads(h, O, U), NEW f, f.ev # "message_stop", NEW O2, NEW U2,
         h.cut # 0 /\ h.format = "anthropic" => Begun(Receive(h.view, f)) /\ Opened(Receive(h.view, f), O2, U2),
         h.cut # 0 /\ h.format = "openai" /\ HasOpenAIChunk(f) => Begun(ReceiveChunk(h.view, f))
  PROVE  /\ Written(h, WriteFinal(h, f)) /\ Reads(WriteFinal(h, f), O2, U2)
         /\ Unreturned(h) => Written(h, Write(h, f)) /\ Reads(Write(h, f), O2, U2)
<1>1. h.stream = TRUE /\ h.format \in {"anthropic", "openai"} /\ h.view.ok = TRUE
  BY DEF IsHandler, Reads
<1>2. CASE h.format = "openai" /\ ~HasOpenAIChunk(f)
  <2>1. Write(h, f) = h /\ WriteFinal(h, f) = h
    BY <1>2 DEF Write, WriteFinal
  <2>2. Reads(h, O2, U2)
    BY <1>2 DEF Reads
  <2>3. QED
    BY <2>1, <2>2, Untaken
<1>3. CASE ~(h.format = "openai" /\ ~HasOpenAIChunk(f))
  <2>1. Written(h, Send(h, f)) /\ Reads(Send(h, f), O2, U2)
    BY <1>1, <1>3, Delivered
  <2>2. WriteFinal(h, f) = Send(h, f)
    BY <1>1, <1>3 DEF WriteFinal
  <2>3. ASSUME Unreturned(h) PROVE Written(h, Write(h, f)) /\ Reads(Write(h, f), O2, U2)
    <3>1. CASE h.hasReturn
      <4>1. Write(h, f) = h /\ h.cut = 0
        BY <2>3, <3>1 DEF Write, Unreturned
      <4>2. QED
        BY <1>1, <4>1, Untaken DEF Reads
    <3>2. CASE ~h.hasReturn
      BY <1>1, <1>3, <2>1, <3>2 DEF Write
    <3>3. QED
      BY <3>1, <3>2
  <2>4. QED
    BY <2>1, <2>2, <2>3
<1>4. QED
  BY <1>2, <1>3

LEMMA Hears ==
  ASSUME NEW h, IsHandler(h), NEW O, NEW U, Reads(h, O, U), h.cut # 0
  PROVE  IsView(h.view) /\ Begun(h.view) /\ (h.format = "anthropic" => Opened(h.view, O, U))
BY DEF IsHandler, IsView, Reads

LEMMA WriteStart ==
  ASSUME NEW h, IsHandler(h), NEW O, NEW U, Reads(h, O, U), NEW i \in Nat \ U, NEW type, NEW data
  PROVE  LET f == BlockStart(i, type, data)
         IN /\ Written(h, WriteFinal(h, f)) /\ Reads(WriteFinal(h, f), O \cup {i}, U \cup {i})
            /\ Unreturned(h) => Written(h, Write(h, f)) /\ Reads(Write(h, f), O \cup {i}, U \cup {i})
<1>. DEFINE f == BlockStart(i, type, data)
<1>1. f.ev # "message_stop"
  BY DEF BlockStart, Frame
<1>2. h.cut # 0 => /\ Begun(ReceiveChunk(h.view, f))
                   /\ h.format = "anthropic" =>
                        Begun(Receive(h.view, f)) /\ Opened(Receive(h.view, f), O \cup {i}, U \cup {i})
  BY Hears, ReadStart
<1>. HIDE DEF f
<1>3. QED
  BY <1>1, <1>2, Writing DEF f

LEMMA WriteDelta ==
  ASSUME NEW h, IsHandler(h), NEW O, NEW U, Reads(h, O, U), NEW i \in O, NEW type, NEW data
  PROVE  LET f == BlockDelta(i, type, data)
         IN /\ Written(h, WriteFinal(h, f)) /\ Reads(WriteFinal(h, f), O, U)
            /\ Unreturned(h) => Written(h, Write(h, f)) /\ Reads(Write(h, f), O, U)
<1>. DEFINE f == BlockDelta(i, type, data)
<1>1. f.ev # "message_stop"
  BY DEF BlockDelta, Frame
<1>2. h.cut # 0 => /\ Begun(ReceiveChunk(h.view, f))
                   /\ h.format = "anthropic" => Begun(Receive(h.view, f)) /\ Opened(Receive(h.view, f), O, U)
  BY Hears, ReadDelta
<1>. HIDE DEF f
<1>3. QED
  BY <1>1, <1>2, Writing DEF f

\* A stop shows nothing more to the client.
LEMMA WriteStop ==
  ASSUME NEW h, IsHandler(h), NEW O, NEW U, Reads(h, O, U), NEW i \in O
  PROVE  LET f == BlockStop(i)
         IN /\ Written(h, WriteFinal(h, f)) /\ Reads(WriteFinal(h, f), O \ {i}, U)
            /\ Unreturned(h) => Written(h, Write(h, f)) /\ Reads(Write(h, f), O \ {i}, U)
            /\ Write(h, f).view.shown = h.view.shown
<1>. DEFINE f == BlockStop(i)
<1>1. f.ev # "message_stop" /\ ~HasOpenAIChunk(f)
  BY DEF BlockStop, Frame, HasOpenAIChunk
<1>2. h.cut # 0 /\ h.format = "anthropic" =>
        Begun(Receive(h.view, f)) /\ Opened(Receive(h.view, f), O \ {i}, U) /\ Receive(h.view, f).shown = h.view.shown
  BY Hears, ReadStop
<1>. HIDE DEF f
<1>3. Write(h, f).view.shown = h.view.shown
  <2>1. CASE Write(h, f) = h
    BY <2>1
  <2>2. CASE Write(h, f) # h
    <3>1. Write(h, f) = Send(h, f) /\ h.format = "anthropic"
      BY <1>1, <2>2 DEF Write, IsHandler
    <3>2. QED
      BY <1>2, <3>1, Taken
  <2>3. QED
    BY <2>1, <2>2
<1>4. QED
  BY <1>1, <1>2, <1>3, Writing DEF f

\* A notice, which an OpenAI client is not sent.
LEMMA WriteNotice ==
  ASSUME NEW h, IsHandler(h), NEW O, NEW U, Reads(h, O, U), Unreturned(h)
  PROVE  Written(h, Write(h, Notice)) /\ Reads(Write(h, Notice), O, U) /\ Write(h, Notice).view.shown = h.view.shown
<1>1. Notice.ev # "message_stop" /\ ~HasOpenAIChunk(Notice)
  BY DEF Notice, Frame, HasOpenAIChunk
<1>2. Receive(h.view, Notice) = IF ~h.view.ended THEN h.view ELSE [h.view EXCEPT !.ok = FALSE]
  BY DEF Notice, Frame, Receive
<1>3. h.cut # 0 /\ h.format = "anthropic" => Receive(h.view, Notice) = h.view /\ Begun(h.view) /\ Opened(h.view, O, U)
  BY <1>2, Hears DEF Begun
<1>4. Write(h, Notice).view.shown = h.view.shown
  <2>1. CASE Write(h, Notice) = h
    BY <2>1
  <2>2. CASE Write(h, Notice) # h
    <3>1. Write(h, Notice) = Send(h, Notice) /\ h.format = "anthropic"
      BY <1>1, <2>2 DEF Write, IsHandler
    <3>2. QED
      BY <1>3, <3>1, Taken
  <2>3. QED
    BY <2>1, <2>2
<1>5. QED
  BY <1>1, <1>3, <1>4, Writing

-----------------------------------------------------------------------------
(* Blocks. *)

\* From one state of an attempt to another.
Leads(h, g) ==
  /\ Going(g) /\ g.over = h.over /\ g.suppress = h.suppress
  /\ Noticed(h) => Noticed(g)

LEMMA LeadsOn == ASSUME NEW f, NEW g, NEW h, Leads(f, g), Leads(g, h) PROVE Leads(f, h)
BY DEF Leads

LEMMA Stays == ASSUME NEW h, Going(h) PROVE Leads(h, h)
BY DEF Leads

LEMMA RangeSeq == ASSUME NEW S, NEW s \in Seq(S) PROVE IsSeq(s)
<1>1. Len(s) \in Nat /\ DOMAIN s = 1..Len(s) /\ s = [k \in 1..Len(s) |-> s[k]]
  OBVIOUS
<1>2. \A k \in 1..Len(s) : s[k] \in Range(s)
  BY <1>1 DEF Range
<1>3. s \in [1..Len(s) -> Range(s)]
  BY <1>1, <1>2
<1>4. QED
  BY <1>1, <1>3 DEF IsSeq

LEMMA AppendSeq == ASSUME NEW s, IsSeq(s), NEW x PROVE IsSeq(Append(s, x)) /\ Append(s, x) # <<>>
<1>. DEFINE S == Range(s) \cup {x}
<1>1. s \in Seq(S) /\ x \in S
  <2>1. s \in Seq(Range(s)) /\ Range(s) \subseteq S
    BY DEF IsSeq
  <2>. HIDE DEF S
  <2>2. s \in Seq(S)
    BY <2>1
  <2>3. QED
    BY <2>2 DEF S
<1>. HIDE DEF S
<1>2. Append(s, x) \in Seq(S) /\ Len(Append(s, x)) = Len(s) + 1 /\ Len(s) \in Nat
  BY <1>1
<1>3. Append(s, x) # <<>>
  BY <1>2
<1>4. QED
  BY <1>2, <1>3, RangeSeq

LEMMA FilledText ==
  ASSUME NEW k \in Nat, NEW S, NEW t \in [1..k -> S]
  PROVE  IsSeq(t) /\ (k # 0 => t # <<>>)
<1>1. t \in Seq(S) /\ Len(t) = k
  OBVIOUS
<1>2. QED
  BY <1>1, RangeSeq

\* The same to the client, and no less output.
Same(h, g) ==
  /\ IsHandler(g)
  /\ g.format = h.format /\ g.suppress = h.suppress /\ g.over = h.over
  /\ g.blockIndex = h.blockIndex /\ g.activeType = h.activeType /\ g.text = h.text /\ g.thinking = h.thinking
  /\ g.content = h.content /\ h.emitted \subseteq g.emitted /\ (h.hasText = TRUE => g.hasText = TRUE)
  /\ g.cut = h.cut /\ g.view = h.view /\ g.hasReturn = h.hasReturn

LEMMA SameActive ==
  ASSUME NEW h, IsHandler(h), NEW g, IsHandler(g),
         g.blockIndex = h.blockIndex, g.activeType = h.activeType, g.text = h.text, g.thinking = h.thinking
  PROVE  Active(g) = Active(h) /\ (Blocks(h) => Blocks(g))
BY DEF Active, ActiveIndex, Blocks

LEMMA SameLeads == ASSUME NEW h, Going(h), NEW g, Same(h, g) PROVE Leads(h, g)
<1>1. IsHandler(h) /\ Blocks(h) /\ Reads(h, Active(h), 0..h.blockIndex) /\ Unreturned(h)
  BY DEF Going
<1>2. Active(g) = Active(h) /\ Blocks(g)
  BY <1>1, SameActive DEF Same
<1>3. Reads(g, Active(g), 0..g.blockIndex) /\ Unreturned(g)
  BY <1>1, <1>2 DEF Same, Reads, Unreturned
<1>4. Noticed(h) => Noticed(g)
  BY DEF Same, Noticed, Visible
<1>5. QED
  BY <1>2, <1>3, <1>4 DEF Leads, Going, Same

\* What was written leaves an attempt going if the client reads it so.
LEMMA WrittenLeads ==
  ASSUME NEW h, IsHandler(h), Blocks(h), Unreturned(h), NEW g, Written(h, g), Reads(g, Active(h), 0..h.blockIndex)
  PROVE  Going(g)
<1>1. Active(g) = Active(h) /\ Blocks(g)
  BY SameActive DEF Written
<1>2. Unreturned(g)
  BY DEF Written, Unreturned
<1>3. QED
  BY <1>1, <1>2 DEF Going, Written

LEMMA Popped ==
  ASSUME NEW h, IsHandler(h), Blocks(h), h.activeType # "none"
  PROVE  LET g == PopActive(h)
         IN /\ IsHandler(g) /\ Blocks(g) /\ Active(g) = {}
            /\ g.activeType = "none" /\ g.blockIndex = h.blockIndex
            /\ g.format = h.format /\ g.suppress = h.suppress /\ g.over = h.over
            /\ g.content = h.content /\ g.hasText = h.hasText /\ g.emitted = h.emitted
            /\ g.skipped = h.skipped /\ g.directTools = h.directTools
            /\ g.cut = h.cut /\ g.view = h.view /\ g.hasReturn = h.hasReturn
            /\ Active(h) = {ActiveIndex(h)} /\ ActiveIndex(h) \in 0..h.blockIndex
<1>. DEFINE g == PopActive(h)
<1>1. /\ IsHandler(g)
      /\ g.activeType = "none" /\ g.blockIndex = h.blockIndex
      /\ g.format = h.format /\ g.suppress = h.suppress /\ g.over = h.over
      /\ g.content = h.content /\ g.hasText = h.hasText /\ g.emitted = h.emitted
      /\ g.skipped = h.skipped /\ g.directTools = h.directTools
      /\ g.cut = h.cut /\ g.view = h.view /\ g.hasReturn = h.hasReturn
  BY ZenonT(60) DEF IsHandler, PopActive, Fields
<1>2. /\ g.text = IF h.activeType = "text" THEN -1 ELSE h.text
      /\ g.thinking = IF h.activeType = "thinking" THEN -1 ELSE h.thinking
  BY DEF IsHandler, PopActive, Fields
<1>. HIDE DEF g
<1>3. Blocks(g)
  <2>1. g.text \in Int /\ g.text < 0 /\ g.thinking \in Int /\ g.thinking < 0
    <3>1. h.activeType \in {"text", "thinking"}
      BY DEF Blocks, ActiveIndex
    <3>2. CASE h.activeType = "text"
      BY <1>2, <3>2 DEF Blocks, ActiveIndex
    <3>3. CASE h.activeType = "thinking"
      BY <1>2, <3>3 DEF Blocks, ActiveIndex
    <3>4. QED
      BY <3>1, <3>2, <3>3
  <2>2. h.blockIndex \in Int /\ h.blockIndex >= -1
    BY DEF Blocks, ActiveIndex
  <2>3. g.activeType = "none" /\ g.blockIndex = h.blockIndex
    BY <1>1
  <2>4. ~(g.text >= 0) /\ ~(g.thinking >= 0)
    BY <2>1
  <2>5. QED
    BY <2>1, <2>2, <2>3, <2>4 DEF Blocks
<1>4. Active(g) = {} /\ Active(h) = {ActiveIndex(h)}
  BY <1>1 DEF Active
<1>5. ActiveIndex(h) \in 0..h.blockIndex
  BY DEF ActiveIndex, Blocks
<1>6. QED
  BY <1>1, <1>3, <1>4, <1>5 DEF g

LEMMA CloseLeads ==
  ASSUME NEW h, Going(h)
  PROVE  LET g == CloseActiveBlock(h)
         IN /\ Leads(h, g) /\ g.activeType = "none" /\ g.blockIndex = h.blockIndex
            /\ g.view.shown = h.view.shown /\ g.content = h.content
            /\ g.skipped = h.skipped /\ g.directTools = h.directTools /\ g.format = h.format
<1>1. CASE h.activeType = "none"
  BY <1>1, Stays DEF CloseActiveBlock
<1>2. CASE h.activeType # "none"
  <2>. DEFINE p == PopActive(h)
              i == ActiveIndex(h)
              g == Write(p, BlockStop(i))
  <2>1. IsHandler(h) /\ Blocks(h) /\ Reads(h, Active(h), 0..h.blockIndex) /\ Unreturned(h)
    BY DEF Going
  <2>2. /\ IsHandler(p) /\ Blocks(p) /\ Active(p) = {}
        /\ p.activeType = "none" /\ p.blockIndex = h.blockIndex
        /\ p.format = h.format /\ p.suppress = h.suppress /\ p.over = h.over
        /\ p.content = h.content /\ p.hasText = h.hasText /\ p.emitted = h.emitted
        /\ p.skipped = h.skipped /\ p.directTools = h.directTools
        /\ p.cut = h.cut /\ p.view = h.view /\ p.hasReturn = h.hasReturn
        /\ Active(h) = {i}
    BY <1>2, <2>1, Popped
  <2>3. g = CloseActiveBlock(h)
    BY <1>2 DEF CloseActiveBlock
  <2>. HIDE DEF p, i
  <2>4. Reads(p, {i}, 0..p.blockIndex) /\ Unreturned(p)
    BY <2>1, <2>2 DEF Reads, Unreturned
  <2>5. Written(p, g) /\ Reads(g, {i} \ {i}, 0..p.blockIndex) /\ g.view.shown = p.view.shown
    BY <2>2, <2>4, WriteStop
  <2>. HIDE DEF g
  <2>6. Going(g)
    BY <2>2, <2>4, <2>5, WrittenLeads
  <2>7. Noticed(h) => Noticed(g)
    BY <2>2, <2>5 DEF Written, Noticed, Visible
  <2>8. QED
    BY <2>2, <2>3, <2>5, <2>6, <2>7 DEF Leads, Written
<1>3. QED
  BY <1>1, <1>2

LEMMA OpenLeads ==
  ASSUME NEW h, Going(h), h.activeType = "none", NEW type \in {"text", "thinking"}
  PROVE  Leads(h, OpenBlock(h, type)) /\ OpenBlock(h, type).activeType = type
<1>. DEFINE i == h.blockIndex + 1
            o == [h EXCEPT !.blockIndex = i, !.activeType = type, ![type] = i,
                           !.content = Append(@, [type |-> type, data |-> <<>>]),
                           !.block = [@ EXCEPT ![type] = Len(h.content) + 1],
                           !.sig = @ /\ type # "thinking"]
            g == Write(o, BlockStart(i, type, NoText))
<1>1. IsHandler(h) /\ Blocks(h) /\ Reads(h, {}, 0..h.blockIndex) /\ Unreturned(h)
  BY DEF Going, Active
<1>2. h.blockIndex \in Int /\ h.blockIndex >= -1 /\ h.text \in Int /\ h.thinking \in Int
      /\ ~(h.text >= 0) /\ ~(h.thinking >= 0)
  BY <1>1 DEF Blocks
<1>3. /\ IsHandler(o)
      /\ o.blockIndex = i /\ o.activeType = type
      /\ o.format = h.format /\ o.suppress = h.suppress /\ o.over = h.over
      /\ o.hasText = h.hasText /\ o.emitted = h.emitted
      /\ o.cut = h.cut /\ o.view = h.view /\ o.hasReturn = h.hasReturn
      /\ \E x : o.content = Append(h.content, x)
      /\ o.text = IF type = "text" THEN i ELSE h.text
      /\ o.thinking = IF type = "thinking" THEN i ELSE h.thinking
  <2>1. CASE type = "text"
    BY <1>1, <2>1, ZenonT(60) DEF IsHandler, Fields
  <2>2. CASE type = "thinking"
    BY <1>1, <2>2, ZenonT(60) DEF IsHandler, Fields
  <2>3. QED
    BY <2>1, <2>2
<1>4. g = OpenBlock(h, type)
  BY DEF OpenBlock
<1>. HIDE DEF o
<1>5. i \in Nat \ 0..h.blockIndex /\ ({} \cup {i}) = {i} /\ (0..h.blockIndex) \cup {i} = 0..i
  BY <1>2
<1>. HIDE DEF i
<1>6. ActiveIndex(o) = i /\ Active(o) = {i} /\ Blocks(o)
  <2>1. ActiveIndex(o) = i
    BY <1>3 DEF ActiveIndex
  <2>2. Active(o) = {i}
    BY <1>3, <2>1 DEF Active
  <2>3. i \in 0..i /\ i \in Int /\ i >= -1
    BY <1>5
  <2>4. Blocks(o)
    <3>1. CASE type = "text"
      BY <1>2, <1>3, <2>1, <2>3, <3>1 DEF Blocks
    <3>2. CASE type = "thinking"
      BY <1>2, <1>3, <2>1, <2>3, <3>2 DEF Blocks
    <3>3. QED
      BY <3>1, <3>2
  <2>5. QED
    BY <2>1, <2>2, <2>4
<1>7. Reads(o, {}, 0..h.blockIndex) /\ Unreturned(o)
  BY <1>1, <1>3 DEF Reads, Unreturned
<1>8. Written(o, g) /\ Reads(g, {} \cup {i}, (0..h.blockIndex) \cup {i})
  BY <1>3, <1>5, <1>7, WriteStart
<1>. HIDE DEF g
<1>9. Going(g)
  BY <1>3, <1>5, <1>6, <1>7, <1>8, WrittenLeads
<1>10. Noticed(h) => Noticed(g)
  <2>1. SUFFICES ASSUME Noticed(h) PROVE Noticed(g)
    OBVIOUS
  <2>2. PICK x : o.content = Append(h.content, x)
    BY <1>3
  <2>3. IsSeq(g.content) /\ g.content # <<>>
    BY <1>8, <2>1, <2>2, AppendSeq DEF Noticed, Written
  <2>4. QED
    BY <2>3 DEF Noticed, Visible
<1>11. QED
  BY <1>3, <1>4, <1>8, <1>9, <1>10 DEF Leads, Written

LEMMA EnsureLeads ==
  ASSUME NEW h, Going(h), NEW type \in {"text", "thinking"}
  PROVE  LET g == EnsureBlock(h, type)
         IN Leads(h, g) /\ (~(type = "thinking" /\ h.suppress) => g.activeType = type)
<1>1. CASE (type = "thinking" /\ h.suppress) \/ h.activeType = type
  BY <1>1, Stays DEF EnsureBlock
<1>2. CASE ~((type = "thinking" /\ h.suppress) \/ h.activeType = type)
  <2>. DEFINE c == CloseActiveBlock(h)
  <2>1. Leads(h, c) /\ c.activeType = "none"
    BY CloseLeads
  <2>. HIDE DEF c
  <2>2. Leads(c, OpenBlock(c, type)) /\ OpenBlock(c, type).activeType = type
    BY <2>1, OpenLeads DEF Leads
  <2>3. EnsureBlock(h, type) = OpenBlock(c, type)
    BY <1>2 DEF EnsureBlock, c
  <2>4. QED
    BY <2>1, <2>2, <2>3, LeadsOn
<1>3. QED
  BY <1>1, <1>2

\* What filling the content leaves alone.
Built(h, g) ==
  /\ IsHandler(g)
  /\ g.format = h.format /\ g.suppress = h.suppress /\ g.over = h.over
  /\ g.blockIndex = h.blockIndex /\ g.activeType = h.activeType /\ g.text = h.text /\ g.thinking = h.thinking
  /\ g.hasText = h.hasText /\ g.emitted = h.emitted
  /\ g.cut = h.cut /\ g.view = h.view /\ g.hasReturn = h.hasReturn
  /\ IsSeq(h.content) => IsSeq(g.content) /\ (h.content # <<>> => g.content # <<>>)

LEMMA BuildKeeps == ASSUME NEW h, IsHandler(h), NEW type, NEW t PROVE Built(h, Build(h, type, t))
<1>1. CASE h.block[type] = 0
  BY <1>1 DEF Build, Built
<1>2. CASE h.block[type] # 0
  <2>. DEFINE k == h.block[type]
              x == [h.content[k] EXCEPT !.data = Append(@, t)]
              s == [h.content EXCEPT ![k] = x]
              g == [h EXCEPT !.content[k].data = Append(@, t)]
  <2>1. Build(h, type, t) = g
    BY <1>2 DEF Build
  <2>4. g = [h EXCEPT !.content = s]
    OBVIOUS
  <2>. HIDE DEF k, x, g
  <2>2. IsSeq(h.content) => IsSeq(s) /\ (h.content # <<>> => s # <<>>)
    <3>1. SUFFICES ASSUME IsSeq(h.content) PROVE IsSeq(s) /\ (h.content # <<>> => s # <<>>)
      OBVIOUS
    <3>2. /\ h.content \in [1..Len(h.content) -> Range(h.content)] /\ Len(h.content) \in Nat
          /\ h.content # <<>> => Len(h.content) # 0
      BY <3>1 DEF IsSeq
    <3>3. s \in [1..Len(h.content) -> Range(h.content) \cup {x}]
      BY <3>2
    <3>. HIDE DEF s
    <3>4. QED
      BY <3>2, <3>3, FilledText
  <2>. HIDE DEF s
  <2>3. /\ IsHandler(g)
        /\ g.format = h.format /\ g.suppress = h.suppress /\ g.over = h.over
        /\ g.blockIndex = h.blockIndex /\ g.activeType = h.activeType /\ g.text = h.text /\ g.thinking = h.thinking
        /\ g.hasText = h.hasText /\ g.emitted = h.emitted
        /\ g.cut = h.cut /\ g.view = h.view /\ g.hasReturn = h.hasReturn /\ g.content = s
    BY <2>4 DEF IsHandler, Fields
  <2>5. QED
    BY <2>1, <2>2, <2>3 DEF Built
<1>3. QED
  BY <1>1, <1>2

LEMMA EmitLeads ==
  ASSUME NEW h, Going(h), NEW type \in {"text", "thinking"}, ~(type = "thinking" /\ h.suppress), NEW t
  PROVE  Leads(h, EmitDelta(h, type, t))
<1>. DEFINE b == EnsureBlock(h, type)
            i == b[type]
            c == Build(b, type, t)
            g == Write(c, BlockDelta(i, type, t))
<1>1. Leads(h, b) /\ b.activeType = type
  BY EnsureLeads
<1>2. h[type] >= 0 => b = h
  <2>1. Blocks(h)
    BY DEF Going
  <2>2. h[type] >= 0 => h.activeType = type
    <3>1. CASE type = "text"
      BY <2>1, <3>1 DEF Blocks
    <3>2. CASE type = "thinking"
      BY <2>1, <3>2 DEF Blocks
    <3>3. QED
      BY <3>1, <3>2
  <2>3. QED
    BY <2>2 DEF EnsureBlock
<1>3. g = EmitDelta(h, type, t)
  BY <1>2 DEF EmitDelta
<1>. HIDE DEF b
<1>4. IsHandler(b) /\ Blocks(b) /\ Reads(b, Active(b), 0..b.blockIndex) /\ Unreturned(b)
  BY <1>1 DEF Leads, Going
<1>5. i = ActiveIndex(b) /\ Active(b) = {i}
  BY <1>1 DEF Active, ActiveIndex
<1>6. Built(b, c)
  BY <1>4, BuildKeeps
<1>. HIDE DEF c, i
<1>7. Active(c) = {i} /\ Blocks(c) /\ c.blockIndex = b.blockIndex
  BY <1>4, <1>5, <1>6, SameActive DEF Built
<1>8. IsHandler(c) /\ Reads(c, {i}, 0..b.blockIndex) /\ Unreturned(c)
  BY <1>4, <1>5, <1>6 DEF Built, Reads, Unreturned
<1>9. Written(c, g) /\ Reads(g, {i}, 0..b.blockIndex)
  BY <1>8, WriteDelta
<1>. HIDE DEF g
<1>10. Going(g)
  BY <1>7, <1>8, <1>9, WrittenLeads
<1>11. Noticed(b) => Noticed(g)
  <2>1. SUFFICES ASSUME Noticed(b) PROVE Noticed(g)
    OBVIOUS
  <2>2. IsSeq(b.content) /\ b.content # <<>>
    BY <1>1, <2>1 DEF Noticed
  <2>3. IsSeq(g.content) /\ g.content # <<>>
    BY <1>6, <1>9, <2>2 DEF Built, Written
  <2>4. QED
    BY <2>3 DEF Noticed, Visible
<1>12. Leads(b, g)
  BY <1>6, <1>9, <1>10, <1>11 DEF Leads, Built, Written
<1>13. QED
  BY <1>1, <1>3, <1>12, LeadsOn

LEMMA CountSame == ASSUME NEW h, IsHandler(h) PROVE Same(h, CountTokens(h))
BY DEF CountTokens, Same, IsHandler, Fields

LEMMA TextSame == ASSUME NEW h, IsHandler(h) PROVE Same(h, [h EXCEPT !.hasText = TRUE])
BY DEF Same, IsHandler, Fields

LEMMA SameOn == ASSUME NEW f, NEW g, NEW h, Same(f, g), Same(g, h) PROVE Same(f, h)
BY DEF Same

LEMMA TextLeads == ASSUME NEW h, Going(h), NEW t PROVE Leads(h, EmitTextDelta(h, t))
<1>. DEFINE a == [h EXCEPT !.hasText = TRUE]
            b == CountTokens(a)
<1>1. IsHandler(h)
  BY DEF Going
<1>2. Same(h, a)
  BY <1>1, TextSame
<1>3. Same(h, b)
  BY <1>2, CountSame, SameOn DEF Same
<1>4. EmitTextDelta(h, t) = EmitDelta(b, "text", t)
  BY DEF EmitTextDelta
<1>. HIDE DEF b
<1>5. Leads(h, b)
  BY <1>3, SameLeads
<1>6. Leads(b, EmitDelta(b, "text", t))
  BY <1>5, EmitLeads DEF Leads
<1>7. QED
  BY <1>4, <1>5, <1>6, LeadsOn

LEMMA ThinkingLeads == ASSUME NEW h, Going(h), NEW t PROVE Leads(h, EmitThinkingDelta(h, t))
<1>. DEFINE b == CountTokens(h)
<1>1. Same(h, b)
  BY CountSame DEF Going
<1>. HIDE DEF b
<1>2. Leads(h, b)
  BY <1>1, SameLeads
<1>3. CASE h.suppress
  BY <1>3, Stays DEF EmitThinkingDelta
<1>4. CASE ~h.suppress
  <2>1. Leads(b, EmitDelta(b, "thinking", t))
    BY <1>2, <1>4, EmitLeads DEF Leads
  <2>2. EmitThinkingDelta(h, t) = EmitDelta(b, "thinking", t)
    BY <1>4 DEF EmitThinkingDelta, b
  <2>3. QED
    BY <1>2, <2>1, <2>2, LeadsOn
<1>5. QED
  BY <1>3, <1>4

LEMMA ErrorLeads == ASSUME NEW h, Going(h) PROVE Leads(h, InjectErrorText(h))
<1>. DEFINE a == [h EXCEPT !.hasText = TRUE]
            b == EnsureBlock(a, "text")
            i == b.text
            g == Write(b, BlockDelta(i, "text", ErrorText))
<1>1. Same(h, a)
  BY TextSame DEF Going
<1>2. Leads(h, a)
  BY <1>1, SameLeads
<1>. HIDE DEF a
<1>3. Leads(a, b) /\ b.activeType = "text"
  BY <1>2, EnsureLeads DEF Leads
<1>4. h.stream = TRUE
  BY DEF Going, IsHandler
<1>5. g = InjectErrorText(h)
  BY <1>4 DEF InjectErrorText, a
<1>. HIDE DEF b
<1>6. IsHandler(b) /\ Blocks(b) /\ Reads(b, Active(b), 0..b.blockIndex) /\ Unreturned(b)
  BY <1>3 DEF Leads, Going
<1>7. Active(b) = {i}
  BY <1>3 DEF Active, ActiveIndex
<1>. HIDE DEF i
<1>8. Written(b, g) /\ Reads(g, Active(b), 0..b.blockIndex)
  BY <1>6, <1>7, WriteDelta
<1>. HIDE DEF g
<1>9. Going(g)
  BY <1>6, <1>8, WrittenLeads
<1>10. Noticed(b) => Noticed(g)
  <2>1. SUFFICES ASSUME Noticed(b) PROVE Noticed(g)
    OBVIOUS
  <2>2. IsSeq(g.content) /\ g.content # <<>>
    BY <1>3, <1>8, <2>1 DEF Noticed, Written
  <2>3. QED
    BY <2>2 DEF Noticed, Visible
<1>11. Leads(b, g)
  BY <1>8, <1>9, <1>10 DEF Leads, Written
<1>12. QED
  BY <1>2, <1>3, <1>5, <1>11, LeadsOn

LEMMA NoticeLeads == ASSUME NEW h, Going(h) PROVE Leads(h, Write(h, Notice))
<1>. DEFINE g == Write(h, Notice)
<1>1. IsHandler(h) /\ Blocks(h) /\ Reads(h, Active(h), 0..h.blockIndex) /\ Unreturned(h)
  BY DEF Going
<1>2. Written(h, g) /\ Reads(g, Active(h), 0..h.blockIndex) /\ g.view.shown = h.view.shown
  BY <1>1, WriteNotice
<1>. HIDE DEF g
<1>3. Going(g)
  BY <1>1, <1>2, WrittenLeads
<1>4. Noticed(h) => Noticed(g)
  BY <1>2 DEF Written, Noticed, Visible
<1>5. QED
  BY <1>2, <1>3, <1>4 DEF Leads, Written, g

LEMMA NoticedOn == ASSUME NEW h, NEW g, Leads(h, g) PROVE Leads(h, Write(g, Notice))
BY NoticeLeads, LeadsOn DEF Leads

-----------------------------------------------------------------------------
(* Tool calls. *)

LEMMA WrittenOn == ASSUME NEW f, NEW g, NEW h, Written(f, g), Written(g, h) PROVE Written(f, h)
BY DEF Written

\* The block of a tool, in which no other is started.
LEMMA ToolBlockReads ==
  ASSUME NEW h, IsHandler(h), Unreturned(h), NEW O, NEW U, Reads(h, O, U), NEW i \in Nat \ U, i \notin O, NEW c
  PROVE  LET g == ToolBlock(h, i, c) IN Written(h, g) /\ Reads(g, O, U \cup {i}) /\ Unreturned(g)
<1>. DEFINE V == U \cup {i}
            f1 == BlockStart(i, "tool_use", c.tool)
            f2 == BlockDelta(i, "tool_use", c.tool)
            f3 == BlockStop(i)
            a == Write(h, f1)
            b == Write(a, f2)
            g == Write(b, f3)
<1>1. Written(h, a) /\ Reads(a, O \cup {i}, V)
  BY WriteStart
<1>2. IsHandler(a) /\ Unreturned(a)
  BY <1>1 DEF Written, Unreturned
<1>3. g = ToolBlock(h, i, c)
  BY DEF ToolBlock
<1>. HIDE DEF a
<1>4. Written(a, b) /\ Reads(b, O \cup {i}, V)
  BY <1>1, <1>2, WriteDelta
<1>5. IsHandler(b) /\ Unreturned(b)
  BY <1>2, <1>4 DEF Written, Unreturned
<1>. HIDE DEF b
<1>6. Written(b, g) /\ Reads(g, (O \cup {i}) \ {i}, V)
  BY <1>4, <1>5, WriteStop
<1>7. (O \cup {i}) \ {i} = O
  OBVIOUS
<1>. HIDE DEF g
<1>8. Written(h, g) /\ Unreturned(g)
  <2>1. Written(h, b)
    BY <1>1, <1>4, WrittenOn
  <2>2. Written(h, g)
    BY <1>6, <2>1, WrittenOn
  <2>3. QED
    BY <2>2 DEF Written, Unreturned
<1>9. QED
  BY <1>3, <1>6, <1>7, <1>8

LEMMA ToolUseLeads == ASSUME NEW h, Going(h), NEW c PROVE Leads(h, EmitToolUse(h, c))
<1>1. CASE c.id \in h.emitted
  BY <1>1, Stays DEF EmitToolUse
<1>2. CASE c.id \notin h.emitted
  <2>. DEFINE i == h.blockIndex + 1
              a == [CountTokens(h) EXCEPT !.emitted = @ \cup {c.id}, !.count = @ + 1, !.blockIndex = @ + 1]
              g == ToolBlock(a, i, c)
  <2>1. IsHandler(h) /\ Blocks(h) /\ Reads(h, Active(h), 0..h.blockIndex) /\ Unreturned(h)
    BY DEF Going
  <2>2. /\ IsHandler(a)
        /\ a.format = h.format /\ a.suppress = h.suppress /\ a.over = h.over
        /\ a.blockIndex = i /\ a.activeType = h.activeType /\ a.text = h.text /\ a.thinking = h.thinking
        /\ a.content = h.content /\ a.emitted = h.emitted \cup {c.id}
        /\ a.cut = h.cut /\ a.view = h.view /\ a.hasReturn = h.hasReturn
    BY <2>1, ZenonT(60) DEF CountTokens, IsHandler, Fields
  <2>3. g = EmitToolUse(h, c)
    BY <1>2 DEF EmitToolUse
  <2>. HIDE DEF a
  <2>4. h.blockIndex \in Int /\ h.blockIndex >= -1 /\ i \in Nat \ 0..h.blockIndex
        /\ (0..h.blockIndex) \cup {i} = 0..i /\ 0..h.blockIndex \subseteq 0..i
    BY <2>1 DEF Blocks
  <2>. HIDE DEF i
  <2>5. ActiveIndex(a) = ActiveIndex(h) /\ Active(a) = Active(h) /\ i \notin Active(h)
    BY <2>1, <2>2, <2>4 DEF Active, ActiveIndex, Blocks
  <2>6. Blocks(a)
    <3>1. a.blockIndex \in Int /\ a.blockIndex >= -1
      BY <2>2, <2>4
    <3>2. QED
      BY <2>1, <2>2, <2>4, <2>5, <3>1 DEF Blocks
  <2>7. Reads(a, Active(h), 0..h.blockIndex) /\ Unreturned(a)
    BY <2>1, <2>2 DEF Reads, Unreturned
  <2>8. Written(a, g) /\ Reads(g, Active(h), 0..i) /\ Unreturned(g)
    <3>1. Written(a, g) /\ Reads(g, Active(h), (0..h.blockIndex) \cup {i}) /\ Unreturned(g)
      BY <2>2, <2>4, <2>5, <2>7, ToolBlockReads
    <3>2. QED
      BY <2>4, <3>1
  <2>. HIDE DEF g
  <2>9. Going(g)
    BY <2>2, <2>5, <2>6, <2>7, <2>8, WrittenLeads
  <2>10. Noticed(h) => Noticed(g)
    <3>1. g.emitted # {}
      BY <2>2, <2>8 DEF Written
    <3>2. g.content = h.content /\ g.activeType = h.activeType
      BY <2>2, <2>8 DEF Written
    <3>3. QED
      BY <3>1, <3>2 DEF Noticed, Visible
  <2>11. QED
    BY <2>2, <2>3, <2>8, <2>9, <2>10 DEF Leads, Written
<1>3. QED
  BY <1>1, <1>2

LEMMA DedupSame ==
  ASSUME NEW h, IsHandler(h), NEW x, NEW y
  PROVE  Same(h, [h EXCEPT !.dedup = x, !.seed = y]) /\ Same(h, [h EXCEPT !.dropped = x])
BY ZenonT(60) DEF Same, IsHandler, Fields

LEMMA RememberSame == ASSUME NEW h, IsHandler(h), NEW c, NEW d PROVE Same(h, Remember(h, c, d))
<1>. DEFINE key == {DedupKey[c.tool]} \ {NoKey}
            x == h.dedup \cup key
            y == h.seed \cup key
            z == h.dropped \cup key
<1>1. Remember(h, c, d) \in {[h EXCEPT !.dedup = x, !.seed = y], [h EXCEPT !.dropped = z], h}
  BY DEF Remember
<1>2. Same(h, h)
  BY DEF Same
<1>. HIDE DEF x, y, z
<1>3. Same(h, [h EXCEPT !.dedup = x, !.seed = y]) /\ Same(h, [h EXCEPT !.dropped = z])
  BY DedupSame
<1>4. QED
  BY <1>1, <1>2, <1>3, Zenon

LEMMA AcceptLeads == ASSUME NEW h, Going(h), NEW c PROVE Leads(h, AcceptToolCall(h, c))
<1>1. CASE c.id \in h.handled
  BY <1>1, Stays DEF AcceptToolCall
<1>2. CASE c.id \notin h.handled
  <2>. DEFINE g == Remember(h, c, TRUE)
              a == [g EXCEPT !.handled = @ \cup {c.id}]
  <2>1. Same(h, g) /\ h.stream = TRUE
    BY RememberSame DEF Going, IsHandler
  <2>2. AcceptToolCall(h, c) \in {g, EmitToolUse(a, c)}
    BY <1>2, <2>1 DEF AcceptToolCall
  <2>. HIDE DEF g
  <2>3. Same(g, a)
    BY <2>1 DEF Same, IsHandler, Fields
  <2>. HIDE DEF a
  <2>4. Leads(h, g) /\ Leads(h, a)
    BY <2>1, <2>3, SameOn, SameLeads
  <2>5. Leads(h, EmitToolUse(a, c))
    BY <2>4, ToolUseLeads, LeadsOn DEF Leads
  <2>6. QED
    BY <2>2, <2>4, <2>5
<1>3. QED
  BY <1>1, <1>2

-----------------------------------------------------------------------------
(* Events. *)

LEMMA ReasoningStartLeads == ASSUME NEW h, Going(h), NEW signed PROVE Leads(h, ReasoningStart(h, signed))
<1>. DEFINE a == [h EXCEPT !.sig = TRUE]
            b == [h EXCEPT !.sig = FALSE]
<1>1. ReasoningStart(h, signed) \in {EnsureBlock(a, "thinking"), b}
  BY DEF ReasoningStart
<1>2. Same(h, a) /\ Same(h, b)
  BY ZenonT(60) DEF Going, Same, IsHandler, Fields
<1>. HIDE DEF a, b
<1>3. Leads(h, a) /\ Leads(h, b)
  BY <1>2, SameLeads
<1>4. Leads(h, EnsureBlock(a, "thinking"))
  BY <1>3, EnsureLeads, LeadsOn DEF Leads
<1>5. QED
  BY <1>1, <1>3, <1>4

LEMMA ReasoningDeltaLeads ==
  ASSUME NEW h, Going(h), ~h.suppress, NEW t, NEW signed PROVE Leads(h, ReasoningDelta(h, t, signed))
<1>. DEFINE g == WithSignature(h, signed)
<1>1. Same(h, g)
  BY DEF Going, WithSignature, Same, IsHandler, Fields
<1>2. ReasoningDelta(h, t, signed) \in {EmitDelta(g, "thinking", t), EnsureBlock(g, "thinking"), g}
  BY DEF ReasoningDelta
<1>. HIDE DEF g
<1>3. Leads(h, g) /\ ~g.suppress
  BY <1>1, SameLeads DEF Same
<1>4. Leads(h, EmitDelta(g, "thinking", t)) /\ Leads(h, EnsureBlock(g, "thinking"))
  <2>1. Going(g)
    BY <1>3 DEF Leads
  <2>2. Leads(g, EmitDelta(g, "thinking", t)) /\ Leads(g, EnsureBlock(g, "thinking"))
    BY <1>3, <2>1, EmitLeads, EnsureLeads
  <2>3. QED
    BY <1>3, <2>2, LeadsOn
<1>5. QED
  BY <1>2, <1>3, <1>4

LEMMA TextDeltaLeads ==
  ASSUME NEW h, Going(h), NEW t, NEW source, NEW soon, NEW id
  PROVE  Leads(h, TextDelta(h, t, source, soon, id))
<1>. DEFINE called == IF Marker[t] = NoTool THEN h
                      ELSE AcceptToolCall(h, [id |-> id, tool |-> Marker[t], filled |-> TRUE])
            d == Rest[t]
            greeted == [called EXCEPT !.intros = @ \cup ({Intro[t]} \ {NoKey})]
            noted == [greeted EXCEPT !.last = [text |-> d, source |-> source]]
<1>1. Leads(h, called)
  BY Stays, AcceptLeads
<1>2. TextDelta(h, t, source, soon, id) \in {called, noted, EmitTextDelta(noted, d)}
  BY DEF TextDelta
<1>. HIDE DEF called, d
<1>3. Same(called, noted)
  BY <1>1, ZenonT(60) DEF Leads, Going, Same, IsHandler, Fields
<1>. HIDE DEF noted
<1>4. Leads(called, noted)
  BY <1>1, <1>3, SameLeads DEF Leads
<1>5. Leads(noted, EmitTextDelta(noted, d))
  BY <1>4, TextLeads DEF Leads
<1>6. QED
  BY <1>1, <1>2, <1>4, <1>5, LeadsOn

LEMMA AgentStartLeads == ASSUME NEW h, Going(h) PROVE Leads(h, AgentStart(h))
<1>. DEFINE g == IF h.thinking >= 0 \/ h.sig THEN EnsureBlock(h, "thinking") ELSE h
<1>1. Leads(h, g)
  BY Stays, EnsureLeads
<1>2. QED
  BY <1>1, NoticedOn DEF AgentStart

LEMMA WriteStartedLeads == ASSUME NEW h, Going(h) PROVE Leads(h, WriteStarted(h))
<1>. DEFINE a == EnsureBlock(h, "thinking")
            b == EmitThinkingDelta(a, Piece)
<1>1. Leads(h, a)
  BY EnsureLeads
<1>2. WriteStarted(h) \in {h, Write(b, Notice)}
  BY DEF WriteStarted
<1>3. Leads(h, b)
  BY <1>1, ThinkingLeads, LeadsOn DEF Leads
<1>4. QED
  BY <1>2, <1>3, Stays, NoticedOn

LEMMA WriteChunkLeads == ASSUME NEW h, Going(h) PROVE Leads(h, WriteChunk(h))
<1>. DEFINE g == [h EXCEPT !.chunks = TRUE]
<1>1. Same(h, g)
  BY DEF Going, Same, IsHandler, Fields
<1>2. WriteChunk(h) \in {h, EmitTextDelta(g, Piece), Write(EmitThinkingDelta(g, Piece), Notice)}
  BY DEF WriteChunk
<1>. HIDE DEF g
<1>3. Leads(h, g)
  BY <1>1, SameLeads
<1>4. Leads(h, EmitTextDelta(g, Piece))
  BY <1>3, TextLeads, LeadsOn DEF Leads
<1>5. Leads(h, EmitThinkingDelta(g, Piece))
  BY <1>3, ThinkingLeads, LeadsOn DEF Leads
<1>6. QED
  BY <1>2, <1>4, <1>5, Stays, NoticedOn

LEMMA WriteCompletedLeads == ASSUME NEW h, Going(h) PROVE Leads(h, WriteCompleted(h))
<1>1. WriteCompleted(h) \in {h, Write(EmitThinkingDelta(h, Piece), Notice)}
  BY DEF WriteCompleted
<1>2. QED
  BY <1>1, ThinkingLeads, Stays, NoticedOn

LEMMA FsOperationLeads == ASSUME NEW h, Going(h), NEW throttled PROVE Leads(h, FsOperation(h, throttled))
BY Stays, NoticeLeads DEF FsOperation

LEMMA ToolInputStartLeads == ASSUME NEW h, Going(h), NEW id, NEW tool PROVE Leads(h, ToolInputStart(h, id, tool))
<1>. DEFINE c == CloseActiveBlock(h)
            x == With(c.inputs, id, [tool |-> tool, filled |-> FALSE])
            g == [c EXCEPT !.inputs = x]
<1>1. Leads(h, c)
  BY CloseLeads
<1>2. ToolInputStart(h, id, tool) = g
  BY DEF ToolInputStart
<1>. HIDE DEF c, x
<1>3. Same(c, g)
  BY <1>1 DEF Leads, Going, Same, IsHandler, Fields
<1>4. QED
  BY <1>1, <1>2, <1>3, SameLeads, LeadsOn DEF Leads

LEMMA InputsSame == ASSUME NEW h, IsHandler(h), NEW x PROVE Same(h, [h EXCEPT !.inputs = x])
BY DEF Same, IsHandler, Fields

LEMMA ToolInputDeltaLeads == ASSUME NEW h, Going(h), NEW id PROVE Leads(h, ToolInputDelta(h, id))
<1>. DEFINE x == [h.inputs EXCEPT ![id] = [@ EXCEPT !.filled = TRUE]]
<1>1. ToolInputDelta(h, id) \in {h, [h EXCEPT !.inputs = x]}
  BY DEF ToolInputDelta
<1>. HIDE DEF x
<1>2. QED
  BY <1>1, InputsSame, SameLeads, Stays DEF Going

LEMMA WithoutInputLeads == ASSUME NEW h, Going(h), NEW id PROVE Leads(h, WithoutInput(h, id))
<1>. DEFINE x == Restrict(h.inputs, DOMAIN h.inputs \ {id})
<1>1. WithoutInput(h, id) = [h EXCEPT !.inputs = x]
  BY DEF WithoutInput
<1>. HIDE DEF x
<1>2. QED
  BY <1>1, InputsSame, SameLeads DEF Going

LEMMA ToolInputEndLeads == ASSUME NEW h, Going(h), NEW id PROVE Leads(h, ToolInputEnd(h, id))
<1>. DEFINE c == [id |-> id, tool |-> h.inputs[id].tool, filled |-> h.inputs[id].filled]
<1>1. ToolInputEnd(h, id) \in {h, AcceptToolCall(WithoutInput(h, id), c)}
  BY DEF ToolInputEnd
<1>. HIDE DEF c
<1>2. QED
  BY <1>1, Stays, WithoutInputLeads, AcceptLeads, LeadsOn DEF Leads

LEMMA ToolCallLeads == ASSUME NEW h, Going(h), NEW id, NEW tool PROVE Leads(h, ToolCall(h, id, tool))
<1>. DEFINE c == [id |-> id, tool |-> tool, filled |-> TRUE]
<1>1. ToolCall(h, id, tool) \in {AcceptToolCall(h, c), AcceptToolCall(WithoutInput(h, id), c)}
  BY DEF ToolCall
<1>. HIDE DEF c
<1>2. QED
  BY <1>1, WithoutInputLeads, AcceptLeads, LeadsOn DEF Leads

LEMMA UsageLeads == ASSUME NEW h, Going(h) PROVE Leads(h, [h EXCEPT !.usage = TRUE])
<1>1. Same(h, [h EXCEPT !.usage = TRUE])
  BY DEF Going, Same, IsHandler, Fields
<1>2. QED
  BY <1>1, SameLeads

-----------------------------------------------------------------------------
(* Ends. *)

\* The response is finished, and the client knows if it is there.
Finished(h, g) ==
  /\ IsHandler(g) /\ g.over = h.over /\ g.hasReturn = TRUE /\ g.view.ok = TRUE
  /\ g.cut # 0 => g.view.ended = TRUE

\* What the end of a response goes through: it has returned, and is still written.
Ending(h, g, O, U) == IsHandler(g) /\ g.over = h.over /\ g.hasReturn = TRUE /\ Reads(g, O, U)

LEMMA CloseFinal ==
  ASSUME NEW h, IsHandler(h), Blocks(h), Reads(h, Active(h), 0..h.blockIndex), h.hasReturn = TRUE
  PROVE  LET g == IF h.stream /\ h.activeType # "none" THEN WriteFinal(PopActive(h), BlockStop(ActiveIndex(h))) ELSE h
         IN Ending(h, g, {}, 0..g.blockIndex) /\ g.blockIndex = h.blockIndex
<1>1. CASE h.activeType = "none"
  BY <1>1 DEF Ending, Active
<1>2. CASE h.activeType # "none"
  <2>. DEFINE p == PopActive(h)
              i == ActiveIndex(h)
              g == WriteFinal(p, BlockStop(i))
  <2>1. /\ IsHandler(p) /\ Blocks(p) /\ Active(p) = {}
        /\ p.blockIndex = h.blockIndex /\ p.format = h.format /\ p.over = h.over
        /\ p.cut = h.cut /\ p.view = h.view /\ p.hasReturn = h.hasReturn
        /\ Active(h) = {i}
    BY <1>2, Popped
  <2>2. h.stream = TRUE
    BY DEF IsHandler
  <2>. HIDE DEF p, i
  <2>3. Reads(p, {i}, 0..p.blockIndex)
    BY <2>1 DEF Reads
  <2>4. Written(p, g) /\ Reads(g, {i} \ {i}, 0..p.blockIndex)
    BY <2>1, <2>3, WriteStop
  <2>5. {i} \ {i} = {}
    OBVIOUS
  <2>. HIDE DEF g
  <2>6. Ending(h, g, {}, 0..g.blockIndex) /\ g.blockIndex = h.blockIndex
    BY <2>1, <2>4, <2>5 DEF Ending, Written
  <2>7. QED
    BY <1>2, <2>2, <2>6 DEF g, p, i
<1>3. QED
  BY <1>1, <1>2

LEMMA FinalText ==
  ASSUME NEW h, NEW o, Ending(o, h, {}, 0..h.blockIndex), h.blockIndex \in Int, h.blockIndex >= -1, NEW t
  PROVE  LET g == EmitFinalTextBlock(h, t) IN Ending(o, g, {}, 0..g.blockIndex)
<1>. DEFINE i == h.blockIndex + 1
            a == [h EXCEPT !.blockIndex = i, !.hasText = TRUE]
            b == WriteFinal(a, BlockStart(i, "text", NoText))
            c == WriteFinal(b, BlockDelta(i, "text", t))
            g == WriteFinal(c, BlockStop(i))
<1>1. g = EmitFinalTextBlock(h, t)
  BY DEF EmitFinalTextBlock
<1>2. i \in Nat \ 0..h.blockIndex /\ (0..h.blockIndex) \cup {i} = 0..i
  OBVIOUS
<1>3. IsHandler(h) /\ h.over = o.over /\ h.hasReturn = TRUE /\ Reads(h, {}, 0..h.blockIndex)
  BY DEF Ending
<1>4. /\ IsHandler(a) /\ a.over = o.over /\ a.hasReturn = TRUE /\ a.blockIndex = i
      /\ a.cut = h.cut /\ a.view = h.view /\ a.format = h.format
  BY <1>3, ZenonT(60) DEF IsHandler, Fields
<1>. HIDE DEF a, i
<1>5. Reads(a, {}, 0..h.blockIndex)
  BY <1>3, <1>4 DEF Reads
<1>6. Written(a, b) /\ Reads(b, {} \cup {i}, (0..h.blockIndex) \cup {i})
  BY <1>2, <1>4, <1>5, WriteStart
<1>7. {} \cup {i} = {i} /\ {i} \ {i} = {}
  OBVIOUS
<1>. HIDE DEF b
<1>8. Written(b, c) /\ Reads(c, {i}, 0..i)
  <2>1. IsHandler(b) /\ Reads(b, {i}, 0..i) /\ i \in {i}
    BY <1>2, <1>6, <1>7 DEF Written
  <2>2. QED
    BY <2>1, WriteDelta
<1>. HIDE DEF c
<1>9. Written(c, g) /\ Reads(g, {i} \ {i}, 0..i)
  BY <1>8, WriteStop, ZenonT(60) DEF Written
<1>. HIDE DEF g
<1>10. Written(a, g)
  BY <1>6, <1>8, <1>9, WrittenOn
<1>11. Ending(o, g, {}, 0..g.blockIndex)
  BY <1>4, <1>7, <1>9, <1>10 DEF Ending, Written
<1>12. QED
  BY <1>1, <1>11

LEMMA FlushKeeps ==
  ASSUME NEW h, NEW o, NEW U, Ending(o, h, {}, U)
  PROVE  Ending(o, FlushPendingToolCalls(h), {}, U)
<1>. DEFINE b == IF h.pending = <<>> THEN h ELSE CountTokens(h)
            x == b.content \o [k \in 1..Len(h.pending) |-> [type |-> "tool_use", data |-> <<h.pending[k].tool>>]]
            g == [b EXCEPT !.content = x, !.pending = <<>>]
<1>1. FlushPendingToolCalls(h) = g
  BY DEF FlushPendingToolCalls
<1>2. Same(h, b)
  <2>1. IsHandler(h)
    BY DEF Ending
  <2>2. QED
    BY <2>1, CountSame DEF Same
<1>. HIDE DEF b, x
<1>3. /\ IsHandler(g) /\ g.over = b.over /\ g.hasReturn = b.hasReturn
      /\ g.cut = b.cut /\ g.view = b.view /\ g.format = b.format
  BY <1>2 DEF Same, IsHandler, Fields
<1>. HIDE DEF g
<1>4. Ending(o, g, {}, U)
  BY <1>2, <1>3 DEF Same, Ending, Reads
<1>5. QED
  BY <1>1, <1>4

\* The frame with the reason.
LEMMA ReasonSent ==
  ASSUME NEW h, IsHandler(h), NEW U, Reads(h, {}, U), NEW why
  PROVE  LET g == Send(h, MessageDelta(why))
         IN /\ Written(h, g) /\ g.view.ok = TRUE
            /\ g.cut # 0 => g.view.ended = FALSE /\ g.view.reason = why
<1>. DEFINE f == MessageDelta(why)
            g == Send(h, f)
<1>1. f.ev = "message_delta" /\ f.type = why /\ HasOpenAIChunk(f)
  BY DEF MessageDelta, Frame, HasOpenAIChunk
<1>. HIDE DEF f
<1>2. h.format \in {"anthropic", "openai"} /\ IsView(h.view)
  BY DEF IsHandler, IsView
<1>3. /\ Written(h, g)
      /\ h.cut = 0 => g.view = h.view
      /\ h.cut # 0 => g.view = IF h.format = "openai" THEN ReceiveChunk(h.view, f) ELSE Receive(h.view, f)
  BY <1>1, Taken
<1>. HIDE DEF g
<1>4. g.view.ok = TRUE /\ (h.cut # 0 => g.view.ended = FALSE /\ g.view.reason = why)
  <2>1. CASE h.cut = 0
    BY <1>3, <2>1 DEF Reads
  <2>2. CASE h.cut # 0 /\ h.format = "openai"
    <3>1. g.view = [h.view EXCEPT !.reason = why] /\ Begun(h.view)
      BY <1>1, <1>3, <2>2 DEF Reads, Begun, ReceiveChunk
    <3>2. QED
      BY <1>2, <3>1 DEF IsView, ViewFields, Begun
  <2>3. CASE h.cut # 0 /\ h.format = "anthropic"
    <3>1. g.view = [h.view EXCEPT !.reason = why] /\ Begun(h.view)
      BY <1>1, <1>3, <2>3 DEF Reads, Begun, Opened, Receive
    <3>2. QED
      BY <1>2, <3>1 DEF IsView, ViewFields, Begun
  <2>4. QED
    BY <1>2, <2>1, <2>2, <2>3
<1>5. QED
  BY <1>3, <1>4 DEF Written, g, f

\* The frame of the end, after a reason.
LEMMA StopSent ==
  ASSUME NEW h, IsHandler(h), h.view.ok = TRUE, h.cut # 0 => h.view.ended = FALSE /\ h.view.reason # "none"
  PROVE  LET g == Send(h, MessageStop)
         IN Written(h, g) /\ g.view.ok = TRUE /\ (g.cut # 0 => g.view.ended = TRUE)
<1>. DEFINE f == MessageStop
            g == Send(h, f)
<1>1. f.ev = "message_stop"
  BY DEF MessageStop, Frame
<1>. HIDE DEF f
<1>2. IsView(h.view)
  BY DEF IsHandler, IsView
<1>3. /\ Written(h, g)
      /\ h.cut = 0 => g.view = h.view
      /\ h.cut # 0 => g.view = IF h.format = "openai" THEN ReceiveChunk(h.view, f) ELSE Receive(h.view, f)
  BY <1>1, Taken
<1>. HIDE DEF g
<1>4. g.view.ok = TRUE /\ (h.cut # 0 => g.view.ended = TRUE)
  <2>1. CASE h.cut = 0
    BY <1>3, <2>1
  <2>2. CASE h.cut # 0
    <3>1. g.view = [h.view EXCEPT !.ended = TRUE]
      BY <1>1, <1>3, <2>2 DEF Receive, ReceiveChunk
    <3>2. QED
      BY <1>2, <3>1 DEF IsView, ViewFields
  <2>3. QED
    BY <2>1, <2>2
<1>5. QED
  BY <1>3, <1>4 DEF Written, g, f

\* The last two frames of a response.
LEMMA LastFrames ==
  ASSUME NEW a, NEW o, NEW U, Ending(o, a, {}, U), NEW why, why # "none"
  PROVE  Finished(o, WriteFinal(WriteFinal(a, MessageDelta(why)), MessageStop))
<1>. DEFINE b == Send(a, MessageDelta(why))
            c == Send(b, MessageStop)
<1>1. IsHandler(a) /\ a.over = o.over /\ a.hasReturn = TRUE /\ Reads(a, {}, U) /\ a.stream = TRUE
  BY DEF Ending, IsHandler
<1>2. WriteFinal(a, MessageDelta(why)) = b
  BY <1>1 DEF WriteFinal, MessageDelta, Frame, HasOpenAIChunk
<1>3. Written(a, b) /\ b.view.ok = TRUE /\ (b.cut # 0 => b.view.ended = FALSE /\ b.view.reason = why)
  BY <1>1, ReasonSent
<1>. HIDE DEF b
<1>4. IsHandler(b) /\ b.stream = TRUE
  BY <1>3 DEF Written, IsHandler
<1>5. WriteFinal(b, MessageStop) = c
  BY <1>4 DEF WriteFinal, MessageStop, Frame
<1>6. Written(b, c) /\ c.view.ok = TRUE /\ (c.cut # 0 => c.view.ended = TRUE)
  BY <1>3, <1>4, StopSent
<1>. HIDE DEF c
<1>7. Finished(o, c)
  BY <1>1, <1>3, <1>6 DEF Finished, Written
<1>8. QED
  BY <1>2, <1>5, <1>7

LEMMA FinishEnds ==
  ASSUME NEW h, Going(h), NEW reason, reason # "none"
  PROVE  Finished(h, FinishResponse(h, reason))
<1>1. IsHandler(h) /\ Blocks(h) /\ Reads(h, Active(h), 0..h.blockIndex) /\ Unreturned(h)
  BY DEF Going
<1>2. CASE h.hasReturn
  BY <1>1, <1>2 DEF FinishResponse, Finished, Reads, Unreturned
<1>3. CASE ~h.hasReturn
  <2>. DEFINE why == IF reason = "tool_use" /\ ~HasToolCalls(h) THEN "end_turn" ELSE reason
              g == [h EXCEPT !.hasReturn = TRUE, !.stop = why]
              closed == IF g.stream /\ g.activeType # "none" THEN WriteFinal(PopActive(g), BlockStop(ActiveIndex(g)))
                        ELSE g
              filled == IF why = "tool_use" THEN closed ELSE EmitWriteChunkFallback(closed)
              flushed == FlushPendingToolCalls(filled)
  <2>1. FinishResponse(h, reason) = WriteFinal(WriteFinal(flushed, MessageDelta(why)), MessageStop)
    BY <1>3 DEF FinishResponse
  <2>2. why # "none"
    OBVIOUS
  <2>. HIDE DEF why
  <2>3. /\ IsHandler(g) /\ g.over = h.over /\ g.hasReturn = TRUE
        /\ g.blockIndex = h.blockIndex /\ g.activeType = h.activeType /\ g.text = h.text /\ g.thinking = h.thinking
        /\ g.cut = h.cut /\ g.view = h.view /\ g.format = h.format
    BY <1>1 DEF IsHandler, Fields
  <2>. HIDE DEF g
  <2>4. Blocks(g) /\ Reads(g, Active(g), 0..g.blockIndex)
    BY <1>1, <2>3, SameActive DEF Reads
  <2>5. Ending(g, closed, {}, 0..closed.blockIndex) /\ closed.blockIndex = g.blockIndex
    BY <2>3, <2>4, CloseFinal
  <2>6. closed.blockIndex \in Int /\ closed.blockIndex >= -1
    BY <2>4, <2>5 DEF Blocks
  <2>. HIDE DEF closed
  <2>7. Ending(g, filled, {}, 0..filled.blockIndex)
    <3>1. closed.stream = TRUE
      BY <2>5 DEF Ending, IsHandler
    <3>2. filled \in {closed, EmitFinalTextBlock(closed, Piece)}
      BY <3>1 DEF EmitWriteChunkFallback
    <3>3. QED
      BY <2>5, <2>6, <3>2, FinalText
  <2>. HIDE DEF filled
  <2>8. Ending(g, flushed, {}, 0..filled.blockIndex)
    BY <2>7, FlushKeeps
  <2>. HIDE DEF flushed
  <2>9. Finished(g, WriteFinal(WriteFinal(flushed, MessageDelta(why)), MessageStop))
    BY <2>2, <2>8, LastFrames
  <2>10. QED
    BY <2>1, <2>3, <2>9 DEF Finished
<1>4. QED
  BY <1>2, <1>3

LEMMA FinishedOn == ASSUME NEW f, NEW g, NEW h, Leads(f, g), Finished(g, h) PROVE Finished(f, h)
BY DEF Leads, Finished

LEMMA ModelFinishEnds ==
  ASSUME NEW h, Going(h), NEW reason \in {"tool_use", "end_turn"}
  PROVE  Finished(h, ModelFinish(h, reason))
<1>. DEFINE c == CloseActiveBlock(h)
            why == IF h.emitted # {} THEN "tool_use" ELSE IF HasToolCalls(h) THEN reason ELSE "end_turn"
<1>1. Leads(h, c)
  BY CloseLeads
<1>2. why # "none"
  OBVIOUS
<1>3. ModelFinish(h, reason) = FinishResponse(c, why)
  BY DEF ModelFinish
<1>. HIDE DEF c, why
<1>4. QED
  BY <1>1, <1>2, <1>3, FinishEnds, FinishedOn DEF Leads

LEMMA CreditsEnd == ASSUME NEW h, Going(h) PROVE Finished(h, CreditsExhausted(h))
<1>. DEFINE c == CloseActiveBlock(h)
            e == InjectErrorText(c)
<1>1. Leads(h, c)
  BY CloseLeads
<1>. HIDE DEF c
<1>2. Leads(h, e)
  BY <1>1, ErrorLeads, LeadsOn DEF Leads
<1>. HIDE DEF e
<1>3. Finished(h, FinishResponse(e, "end_turn"))
  BY <1>2, FinishEnds, FinishedOn DEF Leads
<1>4. QED
  BY <1>3 DEF CreditsExhausted, e, c

LEMMA FailureEnds == ASSUME NEW h, Going(h) PROVE Finished(h, FinishResponse(InjectErrorText(h), "end_turn"))
<1>. DEFINE e == InjectErrorText(h)
<1>1. Leads(h, e)
  BY ErrorLeads
<1>. HIDE DEF e
<1>2. Finished(h, FinishResponse(e, "end_turn"))
  BY <1>1, FinishEnds, FinishedOn DEF Leads
<1>3. QED
  BY <1>2 DEF e

\* resetRoundState after an attempt of which the handler has nothing.
LEMMA ResetGoes ==
  ASSUME NEW h, Going(h), h.activeType = "none"
  PROVE  LET g == ResetRoundState(h)
         IN /\ Going(g) /\ g.over = h.over /\ g.view = h.view
            /\ g.activeType = "none" /\ g.content = <<>> /\ g.directTools = <<>>
            /\ g.skipped = h.skipped /\ g.suppress = h.suppress /\ g.cut = h.cut /\ g.format = h.format
<1>. DEFINE g == ResetRoundState(h)
<1>1. IsHandler(h) /\ Blocks(h) /\ Reads(h, Active(h), 0..h.blockIndex)
  BY DEF Going
<1>2. CloseActiveBlock(h) = h
  BY DEF CloseActiveBlock
<1>3. /\ g.over = h.over /\ g.view = h.view /\ g.blockIndex = h.blockIndex
      /\ g.activeType = "none" /\ g.content = <<>> /\ g.directTools = <<>> /\ g.text = -1 /\ g.thinking = -1
      /\ g.skipped = h.skipped /\ g.suppress = h.suppress /\ g.cut = h.cut /\ g.format = h.format
      /\ g.hasReturn = FALSE /\ g.stream = h.stream
  BY <1>1, <1>2 DEF ResetRoundState, IsHandler, Fields
<1>4. g = [f \in Fields |-> g[f]]
  <2>1. h = [f \in Fields |-> h[f]]
    BY <1>1 DEF IsHandler
  <2>2. QED
    BY <1>2, <2>1 DEF ResetRoundState
<1>5. IsHandler(g)
  BY <1>1, <1>3, <1>4 DEF IsHandler
<1>. HIDE DEF g
<1>6. Active(g) = {} /\ Active(h) = {}
  BY <1>3 DEF Active
<1>7. Blocks(g)
  <2>1. g.blockIndex \in Int /\ g.blockIndex >= -1
    BY <1>1, <1>3 DEF Blocks
  <2>2. g.text \in Int /\ g.thinking \in Int /\ ~(g.text >= 0) /\ ~(g.thinking >= 0)
    BY <1>3
  <2>3. QED
    BY <1>3, <2>1, <2>2 DEF Blocks
<1>8. Reads(g, Active(g), 0..g.blockIndex) /\ Unreturned(g)
  BY <1>1, <1>3, <1>6 DEF Reads, Unreturned
<1>9. QED
  BY <1>3, <1>5, <1>7, <1>8 DEF Going, g

\* The next attempt starts from nothing.
LEMMA ResetStarts ==
  ASSUME NEW h, Going(h), ~HasAnyOutput(h), h.view.shown # TRUE, NEW d,
         d # "direct" => Noticed(h), d = "direct" => Follows(h, NothingSent)
  PROVE  Attempt(ResetRoundState(h), d, NothingSent) /\ ResetRoundState(h).over = h.over
<1>. DEFINE g == ResetRoundState(h)
            u == NothingSent
<1>1. u.sent = 0 /\ u.told = FALSE /\ u.open = "none" /\ u.next = 0
  BY DEF NothingSent
<1>. HIDE DEF u
<1>2. h.activeType = "none"
  <2>1. CASE d # "direct"
    <3>1. h.content = <<>>
      BY DEF HasAnyOutput
    <3>2. QED
      BY <2>1, <3>1 DEF Noticed
  <2>2. CASE d = "direct"
    BY <1>1, <2>2 DEF Follows, u
  <2>3. QED
    BY <2>1, <2>2
<1>3. /\ Going(g) /\ g.over = h.over /\ g.view = h.view
      /\ g.activeType = "none" /\ g.content = <<>> /\ g.directTools = <<>>
      /\ g.skipped = h.skipped /\ g.suppress = h.suppress /\ g.cut = h.cut /\ g.format = h.format
  BY <1>2, ResetGoes
<1>. HIDE DEF g
<1>4. Noticed(g)
  <2>1. g.content \in Seq({})
    BY <1>3
  <2>2. IsSeq(g.content)
    BY <2>1, RangeSeq
  <2>3. QED
    BY <1>3, <2>2 DEF Noticed
<1>5. ASSUME d = "direct" PROVE Follows(g, u)
  <2>1. Follows(h, u)
    BY <1>5 DEF u
  <2>2. DOMAIN g.directTools = {}
    BY <1>3
  <2>3. Active(h) = {} /\ Active(g) = {}
    BY <1>2, <1>3 DEF Active
  <2>4. QED
    BY <1>1, <1>3, <2>1, <2>2, <2>3 DEF Follows
<1>6. Attempt(g, d, u)
  BY <1>1, <1>3, <1>4, <1>5 DEF Attempt
<1>7. QED
  BY <1>3, <1>6 DEF g, u

LEMMA DoneOver ==
  ASSUME NEW h, NEW g, Finished(h, g), NEW d
  PROVE  [g EXCEPT !.over = TRUE].over = TRUE /\ Done([g EXCEPT !.over = TRUE], d)
BY DEF Finished, Done, IsHandler, Fields

\* A failed attempt is reported or left, or another follows it.
LEMMA FailedAttemptGoes ==
  ASSUME NEW h, NEW d, NEW u, Attempt(h, d, u), ~u.told, NEW then \in {"retry", "report", "cancel"}, ~h.over,
         then = "retry" /\ d = "direct" => u = NothingSent
  PROVE  LET g == FailedAttempt(h, then)
         IN \/ g.over = TRUE /\ Done(g, d)
            \/ g.over = h.over /\ Attempt(g, d, NothingSent)
<1>1. Going(h)
  BY DEF Attempt
<1>2. CASE HasAnyOutput(h) \/ then = "report"
  <2>1. FailedAttempt(h, then) = [FinishResponse(InjectErrorText(h), "end_turn") EXCEPT !.over = TRUE]
    BY <1>2 DEF FailedAttempt
  <2>2. QED
    BY <1>1, <2>1, FailureEnds, DoneOver
<1>3. CASE ~HasAnyOutput(h) /\ then = "cancel"
  <2>1. FailedAttempt(h, then) = [FinishResponse(h, "end_turn") EXCEPT !.over = TRUE]
    BY <1>3 DEF FailedAttempt
  <2>2. Finished(h, FinishResponse(h, "end_turn"))
    BY <1>1, FinishEnds
  <2>3. QED
    BY <2>1, <2>2, DoneOver
<1>4. CASE ~HasAnyOutput(h) /\ then = "retry"
  <2>1. FailedAttempt(h, then) = ResetRoundState(h)
    BY <1>4 DEF FailedAttempt
  <2>2. h.view.shown # TRUE
    <3>1. CASE d # "direct"
      <4>1. ~Visible(h)
        BY <1>4 DEF HasAnyOutput, HasToolCalls, Visible
      <4>2. QED
        BY <3>1, <4>1 DEF Attempt, Noticed
    <3>2. CASE d = "direct"
      <4>1. u.sent = 0
        BY <1>4, <3>2 DEF NothingSent
      <4>2. QED
        BY <4>1 DEF Attempt
    <3>3. QED
      BY <3>1, <3>2
  <2>3. d = "direct" => Follows(h, NothingSent)
    <3>1. d = "direct" => u.sent = 0
      BY <1>4 DEF NothingSent
    <3>2. QED
      BY <1>4, <3>1 DEF Attempt
  <2>4. d # "direct" => Noticed(h)
    BY DEF Attempt
  <2>5. QED
    BY <1>1, <1>4, <2>1, <2>2, <2>3, <2>4, ResetStarts
<1>5. QED
  BY <1>2, <1>3, <1>4

\* An attempt that ends well.
LEMMA EndAttemptEnds ==
  ASSUME NEW h, NEW d, NEW u, Attempt(h, d, u), u.open # "nothing", ~h.over
  PROVE  EndAttempt(h).over = TRUE /\ Done(EndAttempt(h), d)
<1>. DEFINE reason == IF HasToolCalls(h) THEN "tool_use" ELSE "end_turn"
            x == FinishResponse(h, reason)
<1>1. EndAttempt(h) = [x EXCEPT !.over = TRUE]
  BY DEF EndAttempt, ForceFinishIfMissing
<1>2. reason # "none"
  OBVIOUS
<1>. HIDE DEF reason
<1>3. CASE ~u.told
  <2>1. Finished(h, x)
    BY <1>2, <1>3, FinishEnds DEF Attempt
  <2>. HIDE DEF x
  <2>2. QED
    BY <1>1, <2>1, DoneOver
<1>4. CASE u.told
  <2>1. Done(h, d)
    BY <1>4 DEF Attempt
  <2>2. x = h
    BY <2>1 DEF Done, FinishResponse
  <2>3. EndAttempt(h) = [h EXCEPT !.over = TRUE]
    BY <1>1, <2>2
  <2>4. QED
    BY <2>1, <2>3 DEF Done, IsHandler, Fields
<1>5. QED
  BY <1>3, <1>4

LEMMA KeptAlive == ASSUME NEW h, IsHandler(h) PROVE Written(h, KeepAlive(h)) /\ KeepAlive(h).view = h.view
<1>1. CASE h.hasReturn
  BY <1>1, Untaken DEF KeepAlive
<1>2. CASE ~h.hasReturn /\ h.cut = 0
  <2>1. KeepAlive(h) = MarkWriteError(h)
    BY <1>2 DEF KeepAlive, IsHandler
  <2>2. QED
    BY <1>2, <2>1, Broken DEF MarkWriteError, IsHandler, Fields
<1>3. CASE ~h.hasReturn /\ h.cut # 0
  <2>. DEFINE c == IF h.cut = Never THEN Never ELSE h.cut - 1
  <2>1. KeepAlive(h) = [h EXCEPT !.cut = c, !.view = h.view]
    <3>1. KeepAlive(h) = [h EXCEPT !.cut = c]
      BY <1>3 DEF KeepAlive, IsHandler
    <3>. HIDE DEF c
    <3>2. QED
      BY <3>1 DEF IsHandler, Fields
  <2>2. IsView(h.view)
    BY DEF IsHandler, IsView
  <2>. HIDE DEF c
  <2>3. Written(h, [h EXCEPT !.cut = c, !.view = h.view])
    BY <1>3, <2>2, Reaches
  <2>4. [h EXCEPT !.cut = c, !.view = h.view].view = h.view
    BY DEF IsHandler, Fields
  <2>5. QED
    BY <2>1, <2>3, <2>4
<1>4. QED
  BY <1>1, <1>2, <1>3

\* The ticker's comment is nothing that the attempt would notice.
LEMMA KeepAliveGoes ==
  ASSUME NEW h, NEW d, NEW u, Attempt(h, d, u)
  PROVE  Attempt(KeepAlive(h), d, u) /\ KeepAlive(h).over = h.over
<1>. DEFINE g == KeepAlive(h)
<1>1. IsHandler(h)
  BY DEF Attempt, Going, Reasoned, Done
<1>2. Written(h, g) /\ g.view = h.view
  BY <1>1, KeptAlive
<1>3. h.hasReturn = TRUE => g = h
  BY DEF KeepAlive
<1>. HIDE DEF g
<1>4. ASSUME Going(h) PROVE Going(g) /\ Active(g) = Active(h)
  <2>1. Blocks(h) /\ Unreturned(h) /\ Reads(g, Active(h), 0..h.blockIndex)
    BY <1>2, <1>4 DEF Going, Reads, Written
  <2>2. Going(g)
    BY <1>1, <1>2, <2>1, WrittenLeads
  <2>3. QED
    BY <1>2, <2>2 DEF Active, ActiveIndex, Written
<1>5. Reasoned(h) => Reasoned(g)
  BY <1>2 DEF Reasoned, Written
<1>6. Done(h, d) => Done(g, d)
  BY <1>3 DEF Done
<1>7. Noticed(h) => Noticed(g)
  BY <1>2 DEF Noticed, Visible, Written
<1>8. ASSUME Going(h), Follows(h, u) PROVE Follows(g, u)
  <2>1. ActiveIndex(g) = ActiveIndex(h)
    BY <1>2 DEF ActiveIndex, Written
  <2>2. QED
    BY <1>2, <1>4, <1>8, <2>1 DEF Follows, Written
<1>9. g.hasReturn # TRUE => h.hasReturn # TRUE
  BY <1>3
<1>10. Attempt(g, d, u)
  BY <1>2, <1>4, <1>5, <1>6, <1>7, <1>8, <1>9 DEF Attempt
<1>11. QED
  BY <1>2, <1>10 DEF Written, g

-----------------------------------------------------------------------------
(* The events of an upstream that sends Anthropic events itself. *)

\* What the client has of such an attempt, and what the handler makes of its next event.
Direct(h, u) == Going(h) /\ Follows(h, u) /\ u.next \in Nat
Follow(h, g, v) == Going(g) /\ Follows(g, v) /\ g.over = h.over

\* The indices used so far are below the one of the open block.
LEMMA BelowNext ==
  ASSUME NEW h, NEW u, Direct(h, u)
  PROVE  /\ Reads(h, Active(h), 0..(u.next - 1) \cup Active(h))
         /\ u.next \in Nat \ 0..(u.next - 1) /\ (0..(u.next - 1)) \cup {u.next} = 0..u.next
BY DEF Direct, Going, Follows, Reads, Opened

LEMMA MoreReads == ASSUME NEW h, NEW O, NEW U, NEW V, Reads(h, O, U), U \subseteq V PROVE Reads(h, O, V)
BY DEF Reads, Opened

\* A handler in which no block is active, and to whose client nothing is written, follows.
Quiet(h, g) ==
  /\ IsHandler(g)
  /\ g.format = h.format /\ g.suppress = h.suppress /\ g.over = h.over
  /\ g.activeType = h.activeType /\ g.text = h.text /\ g.thinking = h.thinking
  /\ g.blockIndex \in Int /\ g.blockIndex >= h.blockIndex
  /\ g.cut = h.cut /\ g.view = h.view /\ g.hasReturn = h.hasReturn

LEMMA QuietGoes == ASSUME NEW h, Going(h), NEW g, Quiet(h, g) PROVE Going(g) /\ Active(g) = Active(h)
<1>1. IsHandler(h) /\ Blocks(h) /\ Reads(h, Active(h), 0..h.blockIndex) /\ Unreturned(h)
  BY DEF Going
<1>2. Active(g) = Active(h) /\ ActiveIndex(g) = ActiveIndex(h)
  BY DEF Active, ActiveIndex, Quiet
<1>3. h.blockIndex \in Int /\ h.blockIndex >= -1 /\ g.blockIndex \in Int /\ g.blockIndex >= -1
      /\ 0..h.blockIndex \subseteq 0..g.blockIndex
  BY <1>1 DEF Blocks, Quiet
<1>4. Blocks(g)
  BY <1>1, <1>2, <1>3 DEF Blocks, Quiet
<1>5. Reads(g, Active(g), 0..g.blockIndex) /\ Unreturned(g)
  <2>1. Reads(g, Active(g), 0..h.blockIndex) /\ Unreturned(g)
    BY <1>1, <1>2 DEF Quiet, Reads, Unreturned
  <2>2. QED
    BY <1>3, <2>1, MoreReads
<1>6. QED
  BY <1>2, <1>4, <1>5 DEF Going, Quiet

LEMMA DirectSkip ==
  ASSUME NEW h, NEW u, Direct(h, u), u.open = "none", h.suppress,
         NEW v, v.open = "thinking", v.next = u.next, NEW c
  PROVE  Follow(h, DirectStart(h, u.next, "thinking", c), v)
<1>. DEFINE i == u.next
            x == h.skipped \cup {i}
            g == [h EXCEPT !.skipped = x]
<1>1. DirectStart(h, i, "thinking", c) = g
  BY DEF DirectStart
<1>2. h.activeType = "none" /\ h.skipped = {} /\ DOMAIN h.directTools = {} /\ Going(h) /\ Active(h) = {}
  BY DEF Direct, Follows, Active
<1>3. x = {i}
  BY <1>2
<1>. HIDE DEF x
<1>4. /\ Quiet(h, g) /\ g.skipped = x /\ g.directTools = h.directTools /\ g.activeType = "none"
      /\ h.suppress = g.suppress
  <2>1. IsHandler(g) /\ g.skipped = x /\ g.directTools = h.directTools /\ g.suppress = h.suppress
        /\ g.blockIndex = h.blockIndex /\ g.activeType = h.activeType /\ g.text = h.text /\ g.thinking = h.thinking
        /\ g.format = h.format /\ g.over = h.over /\ g.cut = h.cut /\ g.view = h.view /\ g.hasReturn = h.hasReturn
    BY <1>2 DEF Going, IsHandler, Fields
  <2>. HIDE DEF g
  <2>2. h.blockIndex \in Int
    BY <1>2 DEF Going, Blocks
  <2>3. QED
    BY <1>2, <2>1, <2>2 DEF Quiet
<1>. HIDE DEF g
<1>5. Going(g) /\ Active(g) = {}
  BY <1>2, <1>4, QuietGoes
<1>6. Follows(g, v)
  <2>1. g.cut # 0 /\ g.format = "anthropic" => g.view.used \subseteq 0..(u.next - 1) \cup Active(g)
    BY <1>2, <1>4, <1>5 DEF Direct, Follows, Quiet
  <2>2. QED
    BY <1>2, <1>3, <1>4, <2>1 DEF Follows
<1>7. QED
  BY <1>1, <1>4, <1>5, <1>6 DEF Follow, Quiet

LEMMA DirectKeep ==
  ASSUME NEW h, NEW u, Direct(h, u), u.open = "none",
         NEW v, v.open = "tool_use", v.next = u.next, NEW c
  PROVE  Follow(h, DirectStart(h, u.next, "tool_use", c), v)
<1>. DEFINE i == u.next
            k == IF i > h.blockIndex THEN i ELSE h.blockIndex
            x == With(h.directTools, i, c)
            g == [h EXCEPT !.blockIndex = k, !.directTools = x]
<1>1. DirectStart(h, i, "tool_use", c) = g
  <2>. DEFINE seen == [h EXCEPT !.blockIndex = k]
  <2>1. DirectStart(h, i, "tool_use", c) = [seen EXCEPT !.directTools = With(seen.directTools, i, c)]
    BY DEF DirectStart
  <2>. HIDE DEF k
  <2>2. IsHandler(h)
    BY DEF Direct, Going
  <2>3. seen.directTools = h.directTools
    BY <2>2 DEF IsHandler, Fields
  <2>4. QED
    BY <2>1, <2>2, <2>3 DEF IsHandler, Fields
<1>2. h.activeType = "none" /\ h.skipped = {} /\ DOMAIN h.directTools = {} /\ Going(h) /\ Active(h) = {}
  BY DEF Direct, Follows, Active
<1>3. DOMAIN x = {i}
  BY <1>2 DEF With
<1>4. k \in Int /\ k >= h.blockIndex /\ i <= k
  BY <1>2 DEF Direct, Going, Blocks
<1>. HIDE DEF x, k
<1>5. Quiet(h, g) /\ g.skipped = {} /\ g.directTools = x /\ g.blockIndex = k
  <2>1. IsHandler(g) /\ g.skipped = h.skipped /\ g.directTools = x /\ g.suppress = h.suppress
        /\ g.blockIndex = k /\ g.activeType = h.activeType /\ g.text = h.text /\ g.thinking = h.thinking
        /\ g.format = h.format /\ g.over = h.over /\ g.cut = h.cut /\ g.view = h.view /\ g.hasReturn = h.hasReturn
    BY <1>2, ZenonT(60) DEF Going, IsHandler, Fields
  <2>. HIDE DEF g
  <2>2. QED
    BY <1>2, <1>4, <2>1 DEF Quiet
<1>. HIDE DEF g
<1>6. Going(g) /\ Active(g) = {}
  BY <1>2, <1>5, QuietGoes
<1>7. Follows(g, v)
  <2>1. g.cut # 0 /\ g.format = "anthropic" => g.view.used \subseteq 0..(u.next - 1) \cup Active(g)
    BY <1>2, <1>5, <1>6 DEF Direct, Follows, Quiet
  <2>2. g.activeType = "none" /\ v.next <= g.blockIndex
    BY <1>2, <1>4, <1>5 DEF Quiet
  <2>3. QED
    BY <1>3, <1>5, <2>1, <2>2 DEF Follows
<1>8. QED
  BY <1>1, <1>5, <1>6, <1>7 DEF Follow, Quiet

LEMMA DirectOpen ==
  ASSUME NEW h, NEW u, Direct(h, u), u.open = "none",
         NEW type \in {"text", "thinking"}, ~(type = "thinking" /\ h.suppress),
         NEW v, v.open = type, v.next = u.next, NEW c
  PROVE  Follow(h, DirectStart(h, u.next, type, c), v)
<1>. DEFINE i == u.next
            k == IF i > h.blockIndex THEN i ELSE h.blockIndex
            a == [h EXCEPT !.blockIndex = k, !.activeType = type, ![type] = i]
            f == BlockStart(i, type, NoText)
            g == Write(a, f)
<1>1. IsHandler(h) /\ Blocks(h) /\ Unreturned(h) /\ h.stream = TRUE
  BY DEF Direct, Going, IsHandler
<1>2. DirectStart(h, i, type, c) = g
  <2>1. CASE type = "text"
    BY <1>1, <2>1 DEF DirectStart
  <2>2. CASE type = "thinking"
    BY <1>1, <2>2 DEF DirectStart
  <2>3. QED
    BY <2>1, <2>2
<1>3. h.activeType = "none" /\ h.skipped = {} /\ DOMAIN h.directTools = {} /\ Active(h) = {} /\ i \in Nat
  BY DEF Direct, Follows, Active
<1>4. Reads(h, {}, 0..(i - 1)) /\ i \in Nat \ 0..(i - 1) /\ (0..(i - 1)) \cup {i} = 0..i
  <2>1. (0..(i - 1)) \cup Active(h) = 0..(i - 1)
    BY <1>3
  <2>2. Reads(h, Active(h), 0..(i - 1) \cup Active(h)) /\ i \in Nat \ 0..(i - 1) /\ (0..(i - 1)) \cup {i} = 0..i
    BY BelowNext
  <2>3. QED
    BY <1>3, <2>1, <2>2
<1>5. k \in Int /\ k >= -1 /\ i \in 0..k /\ 0..i \subseteq 0..k
  BY <1>1, <1>3 DEF Blocks
<1>6. /\ IsHandler(a) /\ a.skipped = {} /\ a.directTools = h.directTools /\ a.suppress = h.suppress
      /\ a.blockIndex = k /\ a.activeType = type
      /\ a.text = IF type = "text" THEN i ELSE h.text
      /\ a.thinking = IF type = "thinking" THEN i ELSE h.thinking
      /\ a.format = h.format /\ a.over = h.over /\ a.cut = h.cut /\ a.view = h.view /\ a.hasReturn = h.hasReturn
  <2>. HIDE DEF k
  <2>1. CASE type = "text"
    BY <1>1, <1>3, <2>1, ZenonT(60) DEF IsHandler, Fields
  <2>2. CASE type = "thinking"
    BY <1>1, <1>3, <2>2, ZenonT(60) DEF IsHandler, Fields
  <2>3. QED
    BY <2>1, <2>2
<1>. HIDE DEF a, k
<1>7. ActiveIndex(a) = i /\ Active(a) = {i} /\ Blocks(a)
  <2>1. ActiveIndex(a) = i
    BY <1>6 DEF ActiveIndex
  <2>2. Active(a) = {i}
    BY <1>6, <2>1 DEF Active
  <2>3. h.text \in Int /\ h.thinking \in Int /\ ~(h.text >= 0) /\ ~(h.thinking >= 0)
    BY <1>1, <1>3 DEF Blocks
  <2>4. Blocks(a)
    <3>1. CASE type = "text"
      BY <1>3, <1>5, <1>6, <2>1, <2>3, <3>1 DEF Blocks
    <3>2. CASE type = "thinking"
      BY <1>3, <1>5, <1>6, <2>1, <2>3, <3>2 DEF Blocks
    <3>3. QED
      BY <3>1, <3>2
  <2>5. QED
    BY <2>1, <2>2, <2>4
<1>8. Reads(a, {}, 0..(i - 1)) /\ Unreturned(a)
  BY <1>1, <1>4, <1>6 DEF Reads, Unreturned
<1>9. Written(a, g) /\ Reads(g, {} \cup {i}, (0..(i - 1)) \cup {i})
  BY <1>4, <1>6, <1>8, WriteStart
<1>10. Reads(g, {i}, 0..i)
  <2>1. {} \cup {i} = {i}
    OBVIOUS
  <2>2. QED
    BY <1>4, <1>9, <2>1
<1>. HIDE DEF g
<1>11. Going(g)
  <2>1. Reads(g, Active(a), 0..a.blockIndex)
    BY <1>5, <1>6, <1>7, <1>10, MoreReads
  <2>2. QED
    BY <1>6, <1>7, <1>8, <1>9, <2>1, WrittenLeads
<1>12. Follows(g, v)
  <2>1. ActiveIndex(g) = i /\ Active(g) = {i}
    BY <1>6, <1>7, <1>9 DEF Active, ActiveIndex, Written
  <2>2. g.cut # 0 /\ g.format = "anthropic" => g.view.used \subseteq 0..(v.next - 1) \cup Active(g)
    BY <1>4, <1>10, <2>1 DEF Reads, Opened
  <2>3. g.activeType = type /\ g.skipped = {} /\ DOMAIN g.directTools = {} /\ g.suppress = h.suppress
    BY <1>3, <1>6, <1>9 DEF Written
  <2>4. QED
    BY <2>1, <2>2, <2>3 DEF Follows
<1>13. QED
  BY <1>2, <1>6, <1>9, <1>11, <1>12 DEF Follow, Written

LEMMA DirectStartGoes ==
  ASSUME NEW h, NEW u, Direct(h, u), u.open = "none", NEW type \in {"text", "thinking", "tool_use"},
         NEW v, v.open = type, v.next = u.next, NEW c
  PROVE  Follow(h, DirectStart(h, u.next, type, c), v)
<1>1. CASE type = "tool_use"
  BY <1>1, DirectKeep
<1>2. CASE type = "thinking" /\ h.suppress
  BY <1>2, DirectSkip
<1>3. CASE type \in {"text", "thinking"} /\ ~(type = "thinking" /\ h.suppress)
  BY <1>3, DirectOpen
<1>4. QED
  BY <1>1, <1>2, <1>3

LEMMA DirectDeltaGoes ==
  ASSUME NEW h, NEW u, Direct(h, u), u.open \in {"text", "thinking", "tool_use"}, NEW t,
         NEW v, v.open = u.open, v.next = u.next
  PROVE  Follow(h, DirectDelta(h, u.next, u.open, t), v)
<1>. DEFINE i == u.next
<1>1. Going(h) /\ Follows(h, u) /\ IsHandler(h) /\ Blocks(h) /\ Unreturned(h) /\ h.stream = TRUE
  BY DEF Direct, Going, IsHandler
<1>2. Follows(h, v)
  BY <1>1 DEF Follows
<1>3. CASE i \in h.skipped
  <2>1. i \notin DOMAIN h.directTools
    BY <1>1, <1>3 DEF Follows
  <2>2. DirectDelta(h, i, u.open, t) = h
    BY <1>3, <2>1 DEF DirectDelta
  <2>3. QED
    BY <1>1, <1>2, <2>2 DEF Follow
<1>4. CASE i \notin h.skipped /\ i \in DOMAIN h.directTools
  <2>. DEFINE x == [h.directTools EXCEPT ![i] = [h.directTools[i] EXCEPT !.filled = TRUE]]
              g == [h EXCEPT !.directTools = x]
  <2>1. DirectDelta(h, i, u.open, t) = g
    BY <1>4 DEF DirectDelta
  <2>2. DOMAIN x = DOMAIN h.directTools
    OBVIOUS
  <2>. HIDE DEF x
  <2>3. IsHandler(g) /\ g.skipped = h.skipped /\ g.directTools = x /\ g.suppress = h.suppress
        /\ g.blockIndex = h.blockIndex /\ g.activeType = h.activeType /\ g.text = h.text /\ g.thinking = h.thinking
        /\ g.format = h.format /\ g.over = h.over /\ g.cut = h.cut /\ g.view = h.view /\ g.hasReturn = h.hasReturn
    BY <1>1 DEF IsHandler, Fields
  <2>. HIDE DEF g
  <2>4. h.blockIndex \in Int
    BY <1>1 DEF Blocks
  <2>5. Quiet(h, g)
    BY <2>3, <2>4 DEF Quiet
  <2>6. Going(g) /\ Active(g) = Active(h)
    BY <1>1, <2>5, QuietGoes
  <2>7. ActiveIndex(g) = ActiveIndex(h)
    BY <2>3 DEF ActiveIndex
  <2>8. Follows(g, v)
    BY <1>2, <2>2, <2>3, <2>6, <2>7 DEF Follows
  <2>9. QED
    BY <2>1, <2>3, <2>6, <2>8 DEF Follow
<1>5. CASE i \notin h.skipped /\ i \notin DOMAIN h.directTools
  <2>. DEFINE a == IF u.open = "text" THEN CountTokens([h EXCEPT !.hasText = TRUE]) ELSE h
              g == Write(a, BlockDelta(i, u.open, t))
  <2>1. DirectDelta(h, i, u.open, t) = g
    BY <1>1, <1>5 DEF DirectDelta
  <2>2. /\ IsHandler(a) /\ a.skipped = h.skipped /\ a.directTools = h.directTools /\ a.suppress = h.suppress
        /\ a.blockIndex = h.blockIndex /\ a.activeType = h.activeType /\ a.text = h.text /\ a.thinking = h.thinking
        /\ a.format = h.format /\ a.over = h.over /\ a.cut = h.cut /\ a.view = h.view /\ a.hasReturn = h.hasReturn
    BY <1>1, ZenonT(60) DEF CountTokens, IsHandler, Fields
  <2>. HIDE DEF a
  <2>3. h.activeType = u.open /\ ActiveIndex(h) = i
    BY <1>1, <1>5 DEF Follows
  <2>4. Active(h) = {i} /\ Active(a) = {i} /\ ActiveIndex(a) = i
    BY <2>2, <2>3 DEF Active, ActiveIndex
  <2>5. Blocks(a) /\ Unreturned(a)
    BY <1>1, <2>2, SameActive DEF Unreturned
  <2>6. Reads(a, {i}, 0..(i - 1) \cup {i})
    <3>1. Reads(h, Active(h), 0..(i - 1) \cup Active(h))
      BY BelowNext
    <3>2. QED
      BY <2>2, <2>4, <3>1 DEF Reads
  <2>7. Reads(a, {i}, 0..h.blockIndex)
    BY <1>1, <2>2, <2>4 DEF Going, Reads
  <2>8. Written(a, g) /\ Reads(g, {i}, 0..(i - 1) \cup {i}) /\ Reads(g, {i}, 0..h.blockIndex)
    BY <2>2, <2>5, <2>6, <2>7, WriteDelta
  <2>. HIDE DEF g
  <2>9. Going(g)
    BY <2>2, <2>4, <2>5, <2>8, WrittenLeads
  <2>10. Follows(g, v)
    <3>1. ActiveIndex(g) = i /\ Active(g) = {i}
      BY <2>2, <2>3, <2>4, <2>8 DEF Active, ActiveIndex, Written
    <3>2. g.cut # 0 /\ g.format = "anthropic" => g.view.used \subseteq 0..(v.next - 1) \cup Active(g)
      BY <2>8, <3>1 DEF Reads, Opened
    <3>3. /\ g.activeType = h.activeType /\ g.skipped = h.skipped /\ g.directTools = h.directTools
          /\ g.suppress = h.suppress /\ g.blockIndex = h.blockIndex
      BY <2>2, <2>8 DEF Written
    <3>4. QED
      BY <1>2, <3>1, <3>2, <3>3 DEF Follows
  <2>11. QED
    BY <2>1, <2>2, <2>8, <2>9, <2>10 DEF Follow, Written
<1>6. QED
  BY <1>3, <1>4, <1>5

\* Nothing is left of a block that was not shown, or not yet.
Cleared(h, b) ==
  /\ Quiet(h, b) /\ b.blockIndex = h.blockIndex
  /\ b.skipped = {} /\ DOMAIN b.directTools = {}

LEMMA ClearedSame ==
  ASSUME NEW h, NEW b, Cleared(h, b), NEW x, NEW y
  PROVE  /\ Cleared(h, [b EXCEPT !.dedup = x, !.seed = y]) /\ Cleared(h, [b EXCEPT !.dropped = x])
         /\ Cleared(h, [b EXCEPT !.handled = x]) /\ Cleared(h, CountTokens(b))
         /\ Cleared(h, [b EXCEPT !.emitted = x, !.count = y])
<1>. USE DEF Cleared, Quiet, IsHandler, Fields
<1>1. Cleared(h, [b EXCEPT !.dedup = x, !.seed = y])
  BY ZenonT(60)
<1>2. Cleared(h, [b EXCEPT !.dropped = x])
  BY ZenonT(60)
<1>3. Cleared(h, [b EXCEPT !.handled = x])
  BY ZenonT(60)
<1>4. Cleared(h, CountTokens(b))
  BY DEF CountTokens
<1>5. Cleared(h, [b EXCEPT !.emitted = x, !.count = y])
  BY ZenonT(60)
<1>. HIDE DEF Cleared
<1>6. QED
  BY <1>1, <1>2, <1>3, <1>4, <1>5

LEMMA ClearedGoes ==
  ASSUME NEW h, NEW u, Direct(h, u), h.activeType = "none", NEW g, Cleared(h, g),
         NEW v, v.open = "none", v.next = u.next + 1
  PROVE  Follow(h, g, v)
<1>1. Going(h) /\ Active(h) = {}
  BY DEF Direct, Active
<1>2. Going(g) /\ Active(g) = {}
  BY <1>1, QuietGoes DEF Cleared
<1>3. 0..(u.next - 1) \cup {} \subseteq 0..(v.next - 1) \cup {}
  BY DEF Direct
<1>4. Reads(h, {}, 0..(u.next - 1) \cup {})
  BY <1>1, BelowNext, ZenonT(60)
<1>5. g.cut # 0 /\ g.format = "anthropic" => g.view.used \subseteq 0..(v.next - 1) \cup Active(g)
  BY <1>2, <1>3, <1>4 DEF Cleared, Quiet, Reads, Opened
<1>6. Follows(g, v)
  BY <1>5 DEF Cleared, Quiet, Follows
<1>7. QED
  BY <1>2, <1>6 DEF Follow, Cleared, Quiet

LEMMA DirectToolStopGoes ==
  ASSUME NEW h, NEW u, Direct(h, u), u.next \in DOMAIN h.directTools,
         NEW v, v.open = "none", v.next = u.next + 1
  PROVE  Follow(h, DirectToolStop(h, u.next), v)
<1>. DEFINE i == u.next
            c == h.directTools[i]
            rest == Restrict(h.directTools, DOMAIN h.directTools \ {i})
            a == [h EXCEPT !.directTools = rest]
            g == Remember(a, c, FALSE)
            accepted == [g EXCEPT !.handled = @ \cup {c.id}]
            counted == CountTokens(accepted)
            emitted == [counted EXCEPT !.emitted = @ \cup {c.id}, !.count = @ + 1]
<1>1. IsHandler(h) /\ h.stream = TRUE /\ Blocks(h) /\ Going(h) /\ Unreturned(h)
  BY DEF Direct, Going, IsHandler
<1>2. h.activeType = "none" /\ h.skipped = {} /\ DOMAIN h.directTools = {i} /\ i <= h.blockIndex /\ i \in Nat
  BY DEF Direct, Follows
<1>3. DirectToolStop(h, i) \in {a, g, accepted, ToolBlock(emitted, i, c)}
  BY <1>1 DEF DirectToolStop
<1>4. DOMAIN rest = {}
  BY <1>2 DEF Restrict
<1>. HIDE DEF rest, c
<1>5. Cleared(h, a)
  <2>1. IsHandler(a) /\ a.skipped = h.skipped /\ a.directTools = rest /\ a.suppress = h.suppress
        /\ a.blockIndex = h.blockIndex /\ a.activeType = h.activeType /\ a.text = h.text /\ a.thinking = h.thinking
        /\ a.format = h.format /\ a.over = h.over /\ a.cut = h.cut /\ a.view = h.view /\ a.hasReturn = h.hasReturn
    BY <1>1 DEF IsHandler, Fields
  <2>. HIDE DEF a
  <2>2. h.blockIndex \in Int
    BY <1>1 DEF Blocks
  <2>3. QED
    BY <1>2, <1>4, <2>1, <2>2 DEF Cleared, Quiet
<1>. HIDE DEF a
<1>6. Cleared(h, g)
  <2>. DEFINE key == {DedupKey[c.tool]} \ {NoKey}
              x == a.dedup \cup key
              y == a.seed \cup key
              z == a.dropped \cup key
  <2>1. g \in {[a EXCEPT !.dedup = x, !.seed = y], [a EXCEPT !.dropped = z], a}
    BY DEF Remember
  <2>. HIDE DEF x, y, z
  <2>2. Cleared(h, [a EXCEPT !.dedup = x, !.seed = y]) /\ Cleared(h, [a EXCEPT !.dropped = z])
    BY <1>5, ClearedSame
  <2>3. QED
    BY <1>5, <2>1, <2>2, Zenon
<1>. HIDE DEF g
<1>7. Cleared(h, accepted)
  <2>. DEFINE x == g.handled \cup {c.id}
  <2>1. accepted = [g EXCEPT !.handled = x]
    OBVIOUS
  <2>. HIDE DEF x
  <2>2. QED
    BY <1>6, <2>1, ClearedSame
<1>. HIDE DEF accepted
<1>8. Cleared(h, counted)
  BY <1>7, ClearedSame
<1>. HIDE DEF counted
<1>9. Cleared(h, emitted)
  <2>. DEFINE x == counted.emitted \cup {c.id}
              y == counted.count + 1
  <2>1. emitted = [counted EXCEPT !.emitted = x, !.count = y]
    OBVIOUS
  <2>. HIDE DEF x, y
  <2>2. QED
    BY <1>8, <2>1, ClearedSame
<1>. HIDE DEF emitted
<1>10. Follow(h, ToolBlock(emitted, i, c), v)
  <2>. DEFINE e == emitted
              b == ToolBlock(e, i, c)
  <2>1. Active(h) = {} /\ (0..(i - 1)) \cup Active(h) = 0..(i - 1)
    BY <1>2 DEF Active
  <2>2. Reads(h, Active(h), 0..(i - 1) \cup Active(h)) /\ i \in Nat \ 0..(i - 1) /\ (0..(i - 1)) \cup {i} = 0..i
    BY BelowNext
  <2>3. Reads(h, {}, 0..(i - 1))
    BY <2>1, <2>2
  <2>4. Going(e) /\ Active(e) = {}
    BY <1>1, <1>9, <2>1, QuietGoes DEF Cleared
  <2>5. IsHandler(e) /\ Unreturned(e) /\ Blocks(e) /\ Reads(e, {}, 0..(i - 1))
    BY <1>9, <2>3, <2>4 DEF Going, Cleared, Quiet, Reads
  <2>. HIDE DEF i
  <2>6. Written(e, b) /\ Reads(b, {}, (0..(i - 1)) \cup {i})
    <3>. DEFINE U == 0..(i - 1)
    <3>1. Reads(e, {}, U) /\ i \in Nat \ U /\ i \notin {} /\ IsHandler(e) /\ Unreturned(e)
      BY <2>2, <2>5
    <3>. HIDE DEF U, b
    <3>2. Written(e, ToolBlock(e, i, c)) /\ Reads(ToolBlock(e, i, c), {}, U \cup {i})
      BY <3>1, ToolBlockReads
    <3>3. QED
      BY <3>2 DEF U, b
  <2>7. Reads(b, {}, 0..i)
    BY <2>2, <2>6
  <2>. HIDE DEF b
  <2>8. Going(b)
    <3>1. 0..i \subseteq 0..e.blockIndex
      BY <1>1, <1>2, <1>9 DEF Cleared, Blocks
    <3>2. Reads(b, Active(e), 0..e.blockIndex)
      BY <2>4, <2>7, <3>1, MoreReads
    <3>3. QED
      BY <2>5, <2>6, <3>2, WrittenLeads
  <2>9. b.activeType = "none" /\ b.skipped = {} /\ DOMAIN b.directTools = {} /\ b.over = h.over
    BY <1>2, <1>9, <2>6 DEF Written, Cleared, Quiet
  <2>10. Follows(b, v)
    <3>1. v.next - 1 = i /\ Active(b) = {}
      BY <1>2, <2>9 DEF Active, i
    <3>2. b.cut # 0 /\ b.format = "anthropic" => b.view.used \subseteq 0..(v.next - 1) \cup Active(b)
      BY <2>7, <3>1 DEF Reads, Opened
    <3>3. QED
      BY <2>9, <3>2 DEF Follows
  <2>11. QED
    BY <2>8, <2>9, <2>10 DEF Follow, b, i
<1>11. Follow(h, a, v) /\ Follow(h, g, v) /\ Follow(h, accepted, v)
  BY <1>2, <1>5, <1>6, <1>7, ClearedGoes
<1>12. QED
  BY <1>3, <1>10, <1>11, Zenon

LEMMA DirectStopGoes ==
  ASSUME NEW h, NEW u, Direct(h, u), u.open \in {"text", "thinking", "tool_use"},
         NEW v, v.open = "none", v.next = u.next + 1
  PROVE  Follow(h, DirectStop(h, u.next), v)
<1>. DEFINE i == u.next
<1>1. Going(h) /\ Follows(h, u) /\ IsHandler(h) /\ Blocks(h) /\ Unreturned(h) /\ i \in Nat
  BY DEF Direct, Going
<1>2. CASE i \in h.skipped
  <2>. DEFINE x == h.skipped \ {i}
              g == [h EXCEPT !.skipped = x]
  <2>1. h.activeType = "none" /\ h.skipped = {i} /\ DOMAIN h.directTools = {}
    BY <1>1, <1>2 DEF Follows
  <2>2. DirectStop(h, i) = g /\ x = {}
    BY <1>2, <2>1 DEF DirectStop
  <2>. HIDE DEF x
  <2>3. IsHandler(g) /\ g.skipped = x /\ g.directTools = h.directTools /\ g.suppress = h.suppress
        /\ g.blockIndex = h.blockIndex /\ g.activeType = h.activeType /\ g.text = h.text /\ g.thinking = h.thinking
        /\ g.format = h.format /\ g.over = h.over /\ g.cut = h.cut /\ g.view = h.view /\ g.hasReturn = h.hasReturn
    BY <1>1 DEF IsHandler, Fields
  <2>. HIDE DEF g
  <2>4. h.blockIndex \in Int
    BY <1>1 DEF Blocks
  <2>5. Cleared(h, g)
    BY <2>1, <2>2, <2>3, <2>4 DEF Cleared, Quiet
  <2>6. QED
    BY <2>1, <2>2, <2>5, ClearedGoes
<1>3. CASE i \notin h.skipped /\ i \in DOMAIN h.directTools
  BY <1>3, DirectToolStopGoes DEF DirectStop
<1>4. CASE i \notin h.skipped /\ i \notin DOMAIN h.directTools
  <2>. DEFINE ends == {type \in {"text", "thinking"} : h[type] = i}
              a == [h EXCEPT !.text = IF "text" \in ends THEN -1 ELSE @,
                             !.thinking = IF "thinking" \in ends THEN -1 ELSE @,
                             !.activeType = IF @ \in ends THEN "none" ELSE @]
              g == Write(a, BlockStop(i))
  <2>1. DirectStop(h, i) = g
    BY <1>4 DEF DirectStop
  <2>2. h.activeType = u.open /\ ActiveIndex(h) = i /\ u.open \in {"text", "thinking"}
        /\ h.skipped = {} /\ DOMAIN h.directTools = {}
    BY <1>1, <1>4 DEF Follows
  <2>3. ends = {u.open}
    <3>1. CASE u.open = "text"
      <4>1. h["text"] = i /\ h["thinking"] # i
        BY <1>1, <2>2, <3>1 DEF Blocks, ActiveIndex
      <4>2. QED
        BY <3>1, <4>1
    <3>2. CASE u.open = "thinking"
      <4>1. h["thinking"] = i /\ h["text"] # i
        BY <1>1, <2>2, <3>2 DEF Blocks, ActiveIndex
      <4>2. QED
        BY <3>2, <4>1
    <3>3. QED
      BY <2>2, <3>1, <3>2
  <2>. HIDE DEF ends
  <2>4. /\ IsHandler(a) /\ a.skipped = h.skipped /\ a.directTools = h.directTools /\ a.suppress = h.suppress
        /\ a.blockIndex = h.blockIndex
        /\ a.activeType = IF h.activeType \in ends THEN "none" ELSE h.activeType
        /\ a.text = IF "text" \in ends THEN -1 ELSE h.text
        /\ a.thinking = IF "thinking" \in ends THEN -1 ELSE h.thinking
        /\ a.format = h.format /\ a.over = h.over /\ a.cut = h.cut /\ a.view = h.view /\ a.hasReturn = h.hasReturn
    BY <1>1, ZenonT(60) DEF IsHandler, Fields
  <2>. HIDE DEF a
  <2>5. /\ a.activeType = "none"
        /\ a.text \in Int /\ a.thinking \in Int /\ ~(a.text >= 0) /\ ~(a.thinking >= 0)
    <3>1. CASE u.open = "text"
      BY <1>1, <2>2, <2>3, <2>4, <3>1 DEF Blocks
    <3>2. CASE u.open = "thinking"
      BY <1>1, <2>2, <2>3, <2>4, <3>2 DEF Blocks
    <3>3. QED
      BY <2>2, <3>1, <3>2
  <2>6. Blocks(a) /\ Active(a) = {} /\ Unreturned(a)
    BY <1>1, <2>4, <2>5 DEF Blocks, Active, Unreturned
  <2>7. Active(h) = {i}
    BY <2>2 DEF Active
  <2>8. Reads(a, {i}, 0..i) /\ Reads(a, {i}, 0..h.blockIndex)
    <3>1. Reads(h, {i}, 0..(i - 1) \cup {i}) /\ (0..(i - 1)) \cup {i} = 0..i
      BY <2>7, BelowNext
    <3>2. Reads(h, {i}, 0..i) /\ Reads(h, {i}, 0..h.blockIndex)
      BY <2>7, <3>1 DEF Direct, Going
    <3>3. QED
      BY <2>4, <3>2 DEF Reads
  <2>9. Written(a, g) /\ Reads(g, {i} \ {i}, 0..i) /\ Reads(g, {i} \ {i}, 0..h.blockIndex)
    <3>. HIDE DEF i, g
    <3>1. i \in {i}
      OBVIOUS
    <3>2. QED
      BY <2>4, <2>6, <2>8, <3>1, WriteStop DEF g
  <2>10. {i} \ {i} = {}
    OBVIOUS
  <2>. HIDE DEF g
  <2>11. Going(g)
    <3>1. Reads(g, Active(a), 0..a.blockIndex)
      BY <2>4, <2>6, <2>9, <2>10
    <3>2. QED
      BY <2>4, <2>6, <2>9, <3>1, WrittenLeads
  <2>12. g.activeType = "none" /\ g.skipped = {} /\ DOMAIN g.directTools = {} /\ g.over = h.over
    BY <2>2, <2>4, <2>5, <2>9 DEF Written
  <2>13. Follows(g, v)
    <3>1. v.next - 1 = i /\ Active(g) = {}
      BY <1>1, <2>12 DEF Active
    <3>2. g.cut # 0 /\ g.format = "anthropic" => g.view.used \subseteq 0..(v.next - 1) \cup Active(g)
      BY <2>9, <3>1 DEF Reads, Opened
    <3>3. QED
      BY <2>12, <3>2 DEF Follows
  <2>14. QED
    BY <2>1, <2>11, <2>12, <2>13 DEF Follow
<1>5. QED
  BY <1>2, <1>3, <1>4

LEMMA DirectReasonGoes ==
  ASSUME NEW h, NEW u, Direct(h, u), u.open = "none", ~h.hasReturn, NEW reason, reason # "none"
  PROVE  LET g == DirectMessageDelta(h, reason) IN Reasoned(g) /\ g.over = h.over
<1>. DEFINE a == [h EXCEPT !.stop = reason]
            g == Send(a, MessageDelta(reason))
<1>1. IsHandler(h) /\ Reads(h, {}, 0..h.blockIndex) /\ h.stream = TRUE
  BY DEF Direct, Going, Follows, Active, IsHandler
<1>2. /\ IsHandler(a) /\ a.format = h.format /\ a.over = h.over /\ a.cut = h.cut
      /\ a.view = h.view /\ a.hasReturn = h.hasReturn /\ a.stream = TRUE
  BY <1>1 DEF IsHandler, Fields
<1>3. DirectMessageDelta(h, reason) = Write(a, MessageDelta(reason))
  BY DEF DirectMessageDelta
<1>. HIDE DEF a
<1>4. Write(a, MessageDelta(reason)) = g
  BY <1>2 DEF Write, MessageDelta, Frame, HasOpenAIChunk
<1>5. Reads(a, {}, 0..h.blockIndex)
  BY <1>1, <1>2 DEF Reads
<1>6. Written(a, g) /\ g.view.ok = TRUE /\ (g.cut # 0 => g.view.ended = FALSE /\ g.view.reason = reason)
  BY <1>2, <1>5, ReasonSent, ZenonT(60)
<1>. HIDE DEF g
<1>7. Reasoned(g) /\ g.over = h.over
  BY <1>2, <1>6 DEF Reasoned, Written
<1>8. QED
  BY <1>3, <1>4, <1>7

LEMMA DirectEndGoes ==
  ASSUME NEW h, Reasoned(h), ~h.hasReturn
  PROVE  LET g == DirectMessageStop(h) IN Done(g, "direct") /\ g.over = h.over
<1>. DEFINE b == Write(h, MessageStop)
            g == [b EXCEPT !.hasReturn = TRUE]
<1>1. IsHandler(h) /\ h.stream = TRUE /\ h.format \in {"anthropic", "openai"} /\ h.view.ok = TRUE
  BY DEF Reasoned, IsHandler
<1>2. DirectMessageStop(h) = g
  BY <1>1 DEF DirectMessageStop
<1>3. Written(h, b) /\ b.view.ok = TRUE /\ (b.cut # 0 /\ h.format # "openai" => b.view.ended = TRUE)
  <2>1. CASE h.format = "openai"
    <3>1. b = h
      BY <2>1 DEF Write, MessageStop, Frame, HasOpenAIChunk
    <3>2. QED
      BY <1>1, <2>1, <3>1, Untaken
  <2>2. CASE h.format = "anthropic"
    <3>1. b = Send(h, MessageStop)
      BY <1>1, <2>2 DEF Write
    <3>2. h.cut # 0 => h.view.ended = FALSE /\ h.view.reason # "none"
      BY DEF Reasoned
    <3>3. QED
      BY <1>1, <3>1, <3>2, StopSent
  <2>3. QED
    BY <1>1, <2>1, <2>2
<1>. HIDE DEF b
<1>4. IsHandler(g) /\ g.hasReturn = TRUE /\ g.view = b.view /\ g.cut = b.cut /\ g.format = b.format /\ g.over = b.over
  BY <1>3 DEF Written, IsHandler, Fields
<1>. HIDE DEF g
<1>5. QED
  BY <1>2, <1>3, <1>4 DEF Done, Written

-----------------------------------------------------------------------------
(* Every step. *)

\* After the return, no event changes anything.
LEMMA Untouched ==
  ASSUME NEW h, NEW d, NEW u, Attempt(h, d, u), h.hasReturn = TRUE,
         NEW v, v.sent # 0, v.told \in BOOLEAN, u.told => v.told,
         v.open = "nothing" /\ u.told => u.open = "nothing"
  PROVE  Attempt(h, d, v)
<1>1. CASE ~u.told
  <2>1. Going(h) /\ (d # "direct" => Noticed(h))
    BY <1>1 DEF Attempt
  <2>2. Reasoned(h) /\ Done(h, d)
    BY <2>1 DEF Going, Reads, Unreturned, Reasoned, Done
  <2>3. QED
    BY <2>1, <2>2 DEF Attempt
<1>2. CASE u.told
  <2>1. IF u.open = "nothing" THEN Reasoned(h) ELSE Done(h, d)
    BY <1>2 DEF Attempt
  <2>2. Reasoned(h) => Done(h, d)
    BY DEF Reasoned, Done
  <2>3. QED
    BY <1>2, <2>1, <2>2 DEF Attempt
<1>3. QED
  BY <1>1, <1>2

\* An event that the upstream sent: it is handled unless the response has returned.
LEMMA Step ==
  ASSUME HandlerInv, Upstream', dialect' = dialect,
         up'.sent # 0, up.told => up'.told, up'.open = "nothing" /\ up.told => up.open = "nothing",
         NEW g, live' = IF live.over \/ live.hasReturn THEN live ELSE g,
         ~live.over /\ ~live.hasReturn => g.over = live.over /\ Attempt(g, dialect, up')
  PROVE  HandlerInv'
<1>1. up'.told \in BOOLEAN
  BY DEF Upstream
<1>2. live'.over \in BOOLEAN
  BY DEF HandlerInv
<1>3. CASE live.over
  BY <1>2, <1>3 DEF HandlerInv
<1>4. CASE ~live.over /\ live.hasReturn
  <2>1. Attempt(live, dialect, up) /\ live.hasReturn = TRUE
    BY <1>4 DEF HandlerInv
  <2>2. Attempt(live, dialect, up')
    BY <1>1, <2>1, Untouched
  <2>3. QED
    BY <1>2, <1>4, <2>2 DEF HandlerInv
<1>5. CASE ~live.over /\ ~live.hasReturn
  BY <1>2, <1>5 DEF HandlerInv
<1>6. QED
  BY <1>3, <1>4, <1>5

\* While an attempt of puter or of an agent is handled, the end is not told.
LEMMA Untold ==
  ASSUME HandlerInv, dialect # "direct", ~live.over, ~live.hasReturn
  PROVE  Going(live) /\ Noticed(live) /\ ~up.told
BY DEF HandlerInv, Attempt, Done, Upstream

LEMMA StepLeads ==
  ASSUME HandlerInv, Upstream', dialect' = dialect, dialect # "direct",
         up'.sent # 0, up'.told = up.told, up'.open = up.open,
         NEW g, live' = IF live.over \/ live.hasReturn THEN live ELSE g,
         Going(live) => Leads(live, g)
  PROVE  HandlerInv'
<1>1. ASSUME ~live.over, ~live.hasReturn PROVE g.over = live.over /\ Attempt(g, dialect, up')
  BY <1>1, Untold DEF Leads, Attempt
<1>2. QED
  BY <1>1, Step

LEMMA StepEnds ==
  ASSUME HandlerInv, Upstream', dialect' = dialect, dialect # "direct",
         up'.sent # 0, up'.told = TRUE, up'.open = up.open,
         NEW g, live' = IF live.over \/ live.hasReturn THEN live ELSE g,
         Going(live) => Finished(live, g)
  PROVE  HandlerInv'
<1>1. ASSUME ~live.over, ~live.hasReturn PROVE g.over = live.over /\ Attempt(g, dialect, up')
  <2>1. Finished(live, g) /\ ~up.told
    BY <1>1, Untold
  <2>2. up'.open # "nothing"
    BY <2>1 DEF HandlerInv, Upstream
  <2>3. Done(g, dialect) /\ g.over = live.over
    BY <2>1 DEF Finished, Done
  <2>4. QED
    BY <2>2, <2>3 DEF Attempt
<1>2. QED
  BY <1>1, Step

\* What Sends does to an upstream of puter or of an agent.
LEMMA SentUpstream ==
  ASSUME HandlerInv, NEW d, d \in {"puter", "agent"}, NEW t \in SUBSET Ids, NEW c \in BOOLEAN, NEW w \in BOOLEAN,
         NEW next, next = [up EXCEPT !.sent = @ + 1, !.tools = t, !.coding = c, !.told = w], Sends(d, next)
  PROVE  /\ Upstream' /\ dialect' = dialect /\ dialect # "direct"
         /\ up'.sent # 0 /\ up'.told = w /\ up'.open = up.open
<1>1. /\ up \in [sent : Nat, open : {"none", "text", "thinking", "tool_use", "nothing"}, next : Nat,
                  tools : SUBSET Ids, coding : BOOLEAN, told : BOOLEAN]
      /\ dialect = d /\ dialect' = dialect /\ up' = next
  BY DEF HandlerInv, Upstream, Sends
<1>2. up.open = "none"
  BY <1>1 DEF HandlerInv, Upstream
<1>3. up'.sent = up.sent + 1 /\ up'.told = w /\ up'.open = up.open
  BY <1>1
<1>4. up' \in [sent : Nat, open : {"none", "text", "thinking", "tool_use", "nothing"}, next : Nat,
               tools : SUBSET Ids, coding : BOOLEAN, told : BOOLEAN]
  <2>1. up' = [sent |-> up.sent + 1, open |-> up.open, next |-> up.next, tools |-> t, coding |-> c, told |-> w]
    BY <1>1
  <2>2. up.sent + 1 \in Nat /\ up.open \in {"none", "text", "thinking", "tool_use", "nothing"} /\ up.next \in Nat
    BY <1>1
  <2>3. QED
    BY <2>1, <2>2
<1>5. up'.sent # 0
  BY <1>1, <1>3
<1>6. Upstream'
  BY <1>1, <1>2, <1>3, <1>4, <1>5 DEF Upstream
<1>7. QED
  BY <1>1, <1>3, <1>5, <1>6

LEMMA PuterTextInv == ASSUME HandlerInv, NEW t \in Texts, PuterText(t) PROVE HandlerInv'
<1>. DEFINE g == TextDelta(live, t, "model", FALSE, 0)
<1>1. Sent = [up EXCEPT !.sent = @ + 1, !.tools = up.tools, !.coding = up.coding, !.told = up.told]
  BY DEF HandlerInv, Upstream, Sent
<1>2. live' = IF live.over \/ live.hasReturn THEN live ELSE g
  BY DEF PuterText, Both, Feed
<1>3. Going(live) => Leads(live, g)
  BY TextDeltaLeads
<1>. HIDE DEF g
<1>4. /\ Upstream' /\ dialect' = dialect /\ dialect # "direct"
      /\ up'.sent # 0 /\ up'.told = up.told /\ up'.open = up.open
  BY <1>1, SentUpstream DEF PuterText, HandlerInv, Upstream
<1>5. QED
  BY <1>2, <1>3, <1>4, StepLeads

LEMMA PuterToolInv == ASSUME HandlerInv, NEW id \in Ids, NEW tool \in Tools, PuterTool(id, tool) PROVE HandlerInv'
<1>. DEFINE g == ToolCall(live, id, tool)
<1>1. [Sent EXCEPT !.tools = @ \cup {id}]
        = [up EXCEPT !.sent = @ + 1, !.tools = up.tools \cup {id}, !.coding = up.coding, !.told = up.told]
  BY DEF HandlerInv, Upstream, Sent
<1>2. live' = IF live.over \/ live.hasReturn THEN live ELSE g
  BY DEF PuterTool, Both, Feed
<1>3. Going(live) => Leads(live, g)
  BY ToolCallLeads
<1>. HIDE DEF g
<1>4. up.tools \cup {id} \in SUBSET Ids /\ up.coding \in BOOLEAN /\ up.told \in BOOLEAN
  BY DEF HandlerInv, Upstream
<1>5. /\ Upstream' /\ dialect' = dialect /\ dialect # "direct"
      /\ up'.sent # 0 /\ up'.told = up.told /\ up'.open = up.open
  BY <1>1, <1>4, SentUpstream DEF PuterTool
<1>6. QED
  BY <1>2, <1>3, <1>5, StepLeads

LEMMA PuterFinishInv == ASSUME HandlerInv, PuterFinish PROVE HandlerInv'
<1>. DEFINE reason == IF up.tools = {} THEN "end_turn" ELSE "tool_use"
            g == ModelFinish(live, reason)
<1>1. [Sent EXCEPT !.told = TRUE]
        = [up EXCEPT !.sent = @ + 1, !.tools = up.tools, !.coding = up.coding, !.told = TRUE]
  BY DEF HandlerInv, Upstream, Sent
<1>2. live' = IF live.over \/ live.hasReturn THEN live ELSE g
  BY DEF PuterFinish, Both, Feed
<1>3. Going(live) => Finished(live, g)
  BY ModelFinishEnds
<1>. HIDE DEF g
<1>4. up.tools \in SUBSET Ids /\ up.coding \in BOOLEAN
  BY DEF HandlerInv, Upstream
<1>5. /\ Upstream' /\ dialect' = dialect /\ dialect # "direct"
      /\ up'.sent # 0 /\ up'.told = TRUE /\ up'.open = up.open
  BY <1>1, <1>4, SentUpstream DEF PuterFinish
<1>6. QED
  BY <1>2, <1>3, <1>5, StepEnds

LEMMA AgentSent ==
  ASSUME HandlerInv, Sends("agent", Sent) \/ Sends("agent", [Sent EXCEPT !.coding = TRUE])
  PROVE  /\ Upstream' /\ dialect' = dialect /\ dialect # "direct"
         /\ up'.sent # 0 /\ up'.told = up.told /\ up'.open = up.open
<1>1. up.tools \in SUBSET Ids /\ up.coding \in BOOLEAN /\ up.told \in BOOLEAN
  BY DEF HandlerInv, Upstream
<1>2. Sent = [up EXCEPT !.sent = @ + 1, !.tools = up.tools, !.coding = up.coding, !.told = up.told]
  BY DEF HandlerInv, Upstream, Sent
<1>3. [Sent EXCEPT !.coding = TRUE]
        = [up EXCEPT !.sent = @ + 1, !.tools = up.tools, !.coding = TRUE, !.told = up.told]
  BY DEF HandlerInv, Upstream, Sent
<1>4. QED
  BY <1>1, <1>2, <1>3, SentUpstream

LEMMA AgentEvent ==
  ASSUME HandlerInv, Sends("agent", Sent) \/ Sends("agent", [Sent EXCEPT !.coding = TRUE]),
         NEW g, live' = IF live.over \/ live.hasReturn THEN live ELSE g, Going(live) => Leads(live, g)
  PROVE  HandlerInv'
BY AgentSent, StepLeads

\* In no-thinking mode the event is dropped.
LEMMA AgentThought ==
  ASSUME HandlerInv, Sends("agent", Sent) \/ Sends("agent", [Sent EXCEPT !.coding = TRUE]),
         NEW g, live' = IF live.suppress THEN live ELSE IF live.over \/ live.hasReturn THEN live ELSE g,
         Going(live) /\ ~live.suppress => Leads(live, g)
  PROVE  HandlerInv'
<1>. DEFINE k == IF live.suppress THEN live ELSE g
<1>1. live' = IF live.over \/ live.hasReturn THEN live ELSE k
  OBVIOUS
<1>2. Going(live) => Leads(live, k)
  BY Stays
<1>. HIDE DEF k
<1>3. QED
  BY <1>1, <1>2, AgentEvent

LEMMA AgentReasoningInv ==
  ASSUME HandlerInv, NEW t \in {Piece, NoText}, NEW signed \in BOOLEAN, AgentReasoning(t, signed)
  PROVE  HandlerInv'
<1>. USE DEF BothThinking, FeedThinking, Feed
<1>1. Sends("agent", Sent)
  BY DEF AgentReasoning
<1>2. CASE BothThinking(LAMBDA h : ReasoningStart(h, signed))
  <2>. DEFINE g == ReasoningStart(live, signed)
  <2>1. live' = IF live.suppress THEN live ELSE IF live.over \/ live.hasReturn THEN live ELSE g
    BY <1>2
  <2>2. Going(live) => Leads(live, g)
    BY ReasoningStartLeads
  <2>. HIDE DEF g
  <2>3. QED
    BY <1>1, <2>1, <2>2, AgentThought
<1>3. CASE BothThinking(LAMBDA h : ReasoningDelta(h, t, signed))
  <2>. DEFINE g == ReasoningDelta(live, t, signed)
  <2>1. live' = IF live.suppress THEN live ELSE IF live.over \/ live.hasReturn THEN live ELSE g
    BY <1>3
  <2>2. Going(live) /\ ~live.suppress => Leads(live, g)
    BY ReasoningDeltaLeads
  <2>. HIDE DEF g
  <2>3. QED
    BY <1>1, <2>1, <2>2, AgentThought
<1>4. CASE BothThinking(CloseActiveBlock)
  <2>. DEFINE g == CloseActiveBlock(live)
  <2>1. live' = IF live.suppress THEN live ELSE IF live.over \/ live.hasReturn THEN live ELSE g
    BY <1>4
  <2>2. Going(live) => Leads(live, g)
    BY CloseLeads
  <2>. HIDE DEF g
  <2>3. QED
    BY <1>1, <2>1, <2>2, AgentThought
<1>5. QED
  BY <1>2, <1>3, <1>4 DEF AgentReasoning

LEMMA AgentTextInv ==
  ASSUME HandlerInv, NEW t \in Texts, NEW source \in {"model", "coding_agent"}, NEW soon \in BOOLEAN,
         AgentText(t, source, soon)
  PROVE  HandlerInv'
<1>. DEFINE g == TextDelta(live, t, source, soon, n)
<1>1. Sends("agent", Sent) /\ live' = IF live.over \/ live.hasReturn THEN live ELSE g
  BY DEF AgentText, Both, Feed
<1>2. Going(live) => Leads(live, g)
  BY TextDeltaLeads
<1>. HIDE DEF g
<1>3. QED
  BY <1>1, <1>2, AgentEvent

LEMMA AgentTextBlockInv == ASSUME HandlerInv, AgentTextBlock PROVE HandlerInv'
<1>1. Sends("agent", Sent)
  BY DEF AgentTextBlock
<1>2. CASE Both(LAMBDA h : EnsureBlock(h, "text"))
  <2>. DEFINE g == EnsureBlock(live, "text")
  <2>1. live' = IF live.over \/ live.hasReturn THEN live ELSE g
    BY <1>2 DEF Both, Feed
  <2>2. Going(live) => Leads(live, g)
    BY EnsureLeads
  <2>. HIDE DEF g
  <2>3. QED
    BY <1>1, <2>1, <2>2, AgentEvent
<1>3. CASE Both(CloseActiveBlock)
  <2>. DEFINE g == CloseActiveBlock(live)
  <2>1. live' = IF live.over \/ live.hasReturn THEN live ELSE g
    BY <1>3 DEF Both, Feed
  <2>2. Going(live) => Leads(live, g)
    BY CloseLeads
  <2>. HIDE DEF g
  <2>3. QED
    BY <1>1, <2>1, <2>2, AgentEvent
<1>4. QED
  BY <1>2, <1>3 DEF AgentTextBlock

LEMMA AgentToolInv == ASSUME HandlerInv, NEW id \in Ids, NEW tool \in Tools, AgentTool(id, tool) PROVE HandlerInv'
<1>1. Sends("agent", Sent)
  BY DEF AgentTool
<1>2. \/ live' = IF live.over \/ live.hasReturn THEN live ELSE ToolInputStart(live, id, tool)
      \/ live' = IF live.over \/ live.hasReturn THEN live ELSE ToolInputDelta(live, id)
      \/ live' = IF live.over \/ live.hasReturn THEN live ELSE ToolInputEnd(live, id)
      \/ live' = IF live.over \/ live.hasReturn THEN live ELSE ToolCall(live, id, tool)
  BY DEF AgentTool, Both, Feed
<1>3. Going(live) => Leads(live, ToolInputStart(live, id, tool)) /\ Leads(live, ToolInputDelta(live, id))
  BY ToolInputStartLeads, ToolInputDeltaLeads
<1>4. Going(live) => Leads(live, ToolInputEnd(live, id)) /\ Leads(live, ToolCall(live, id, tool))
  BY ToolInputEndLeads, ToolCallLeads
<1>5. QED
  BY <1>1, <1>2, <1>3, <1>4, AgentEvent

LEMMA AgentCodingInv == ASSUME HandlerInv, AgentCoding PROVE HandlerInv'
<1>1. Sends("agent", [Sent EXCEPT !.coding = TRUE])
  BY DEF AgentCoding
<1>2. CASE BothThinking(AgentStart)
  <2>. DEFINE g == AgentStart(live)
  <2>1. live' = IF live.suppress THEN live ELSE IF live.over \/ live.hasReturn THEN live ELSE g
    BY <1>2 DEF BothThinking, FeedThinking, Feed
  <2>2. Going(live) => Leads(live, g)
    BY AgentStartLeads
  <2>. HIDE DEF g
  <2>3. QED
    BY <1>1, <2>1, <2>2, AgentThought
<1>3. CASE Both(AgentStart) \/ Both(WriteStarted) \/ Both(WriteChunk) \/ Both(WriteCompleted)
  <2>1. \/ live' = IF live.over \/ live.hasReturn THEN live ELSE AgentStart(live)
        \/ live' = IF live.over \/ live.hasReturn THEN live ELSE WriteStarted(live)
        \/ live' = IF live.over \/ live.hasReturn THEN live ELSE WriteChunk(live)
        \/ live' = IF live.over \/ live.hasReturn THEN live ELSE WriteCompleted(live)
    BY <1>3 DEF Both, Feed
  <2>2. Going(live) => Leads(live, AgentStart(live)) /\ Leads(live, WriteStarted(live))
    BY AgentStartLeads, WriteStartedLeads
  <2>3. Going(live) => Leads(live, WriteChunk(live)) /\ Leads(live, WriteCompleted(live))
    BY WriteChunkLeads, WriteCompletedLeads
  <2>4. QED
    BY <1>1, <2>1, <2>2, <2>3, AgentEvent
<1>4. ASSUME NEW throttled \in BOOLEAN, Both(LAMBDA h : FsOperation(h, throttled)) PROVE HandlerInv'
  <2>. DEFINE g == FsOperation(live, throttled)
  <2>1. live' = IF live.over \/ live.hasReturn THEN live ELSE g
    BY <1>4 DEF Both, Feed
  <2>2. Going(live) => Leads(live, g)
    BY FsOperationLeads
  <2>. HIDE DEF g
  <2>3. QED
    BY <1>1, <2>1, <2>2, AgentEvent
<1>5. QED
  BY <1>2, <1>3, <1>4 DEF AgentCoding

LEMMA AgentEndsInv ==
  ASSUME HandlerInv, NEW reason \in {"tool_use", "end_turn"}, AgentEnds(reason) PROVE HandlerInv'
<1>1. [Sent EXCEPT !.told = TRUE]
        = [up EXCEPT !.sent = @ + 1, !.tools = up.tools, !.coding = up.coding, !.told = TRUE]
  BY DEF HandlerInv, Upstream, Sent
<1>2. up.tools \in SUBSET Ids /\ up.coding \in BOOLEAN
  BY DEF HandlerInv, Upstream
<1>3. /\ Upstream' /\ dialect' = dialect /\ dialect # "direct"
      /\ up'.sent # 0 /\ up'.told = TRUE /\ up'.open = up.open
  BY <1>1, <1>2, SentUpstream DEF AgentEnds
<1>4. \/ live' = IF live.over \/ live.hasReturn THEN live ELSE CreditsExhausted(live)
      \/ live' = IF live.over \/ live.hasReturn THEN live ELSE ModelFinish(live, reason)
  BY DEF AgentEnds, Both, Feed
<1>5. Going(live) => Finished(live, CreditsExhausted(live)) /\ Finished(live, ModelFinish(live, reason))
  BY CreditsEnd, ModelFinishEnds
<1>6. QED
  BY <1>3, <1>4, <1>5, StepEnds

LEMMA AgentUsageInv == ASSUME HandlerInv, AgentUsage PROVE HandlerInv'
<1>. DEFINE g == [live EXCEPT !.usage = TRUE]
<1>1. Sends("agent", Sent) /\ live' = IF live.over \/ live.hasReturn THEN live ELSE g
  BY DEF AgentUsage, Both, Feed
<1>2. Going(live) => Leads(live, g)
  BY UsageLeads
<1>. HIDE DEF g
<1>3. QED
  BY <1>1, <1>2, AgentEvent

\* What Sends does to an upstream that sends Anthropic events.
LEMMA DirectUpstream ==
  ASSUME HandlerInv, NEW o \in {"none", "text", "thinking", "tool_use", "nothing"}, NEW k \in Nat,
         NEW t \in SUBSET Ids, NEW w \in BOOLEAN, w => o \in {"none", "nothing"}, o = "nothing" => w,
         NEW next, next = [up EXCEPT !.sent = @ + 1, !.open = o, !.next = k, !.tools = t, !.told = w],
         Sends("direct", next)
  PROVE  /\ Upstream' /\ dialect' = dialect /\ dialect = "direct" /\ up.next \in Nat
         /\ up'.sent # 0 /\ up'.open = o /\ up'.next = k /\ up'.told = w
<1>1. /\ up \in [sent : Nat, open : {"none", "text", "thinking", "tool_use", "nothing"}, next : Nat,
                  tools : SUBSET Ids, coding : BOOLEAN, told : BOOLEAN]
      /\ dialect = "direct" /\ dialect' = dialect /\ up' = next
  BY DEF HandlerInv, Upstream, Sends
<1>2. up'.sent = up.sent + 1 /\ up'.open = o /\ up'.next = k /\ up'.told = w
  BY <1>1
<1>3. up' \in [sent : Nat, open : {"none", "text", "thinking", "tool_use", "nothing"}, next : Nat,
               tools : SUBSET Ids, coding : BOOLEAN, told : BOOLEAN]
  <2>1. up' = [sent |-> up.sent + 1, open |-> o, next |-> k, tools |-> t, coding |-> up.coding, told |-> w]
    BY <1>1
  <2>2. up.sent + 1 \in Nat /\ up.coding \in BOOLEAN
    BY <1>1
  <2>3. QED
    BY <2>1, <2>2
<1>4. up'.sent # 0
  BY <1>1, <1>2
<1>5. Upstream'
  BY <1>1, <1>2, <1>3, <1>4 DEF Upstream
<1>6. QED
  BY <1>1, <1>2, <1>4, <1>5

LEMMA StepFollows ==
  ASSUME HandlerInv, Upstream', dialect' = dialect, dialect = "direct",
         up'.sent # 0, ~up.told, up'.told = FALSE,
         NEW g, live' = IF live.over \/ live.hasReturn THEN live ELSE g,
         Direct(live, up) => Follow(live, g, up')
  PROVE  HandlerInv'
<1>1. ASSUME ~live.over, ~live.hasReturn PROVE g.over = live.over /\ Attempt(g, dialect, up')
  <2>1. Going(live) /\ Follows(live, up)
    BY <1>1 DEF HandlerInv, Attempt
  <2>2. up.next \in Nat
    BY DEF HandlerInv, Upstream
  <2>3. Follow(live, g, up')
    BY <2>1, <2>2 DEF Direct
  <2>4. QED
    BY <2>3 DEF Follow, Attempt
<1>2. QED
  BY <1>1, Step

LEMMA DirectBlockStartInv ==
  ASSUME HandlerInv, NEW type \in {"text", "thinking", "tool_use"}, NEW id \in Ids, NEW tool \in Tools,
         DirectBlockStart(type, id, tool)
  PROVE  HandlerInv'
<1>. DEFINE c == [id |-> id, tool |-> tool, filled |-> FALSE]
            g == DirectStart(live, up.next, type, c)
            t == IF type = "tool_use" THEN up.tools \cup {id} ELSE up.tools
<1>1. [Sent EXCEPT !.open = type, !.tools = IF type = "tool_use" THEN @ \cup {id} ELSE @]
        = [up EXCEPT !.sent = @ + 1, !.open = type, !.next = up.next, !.tools = t, !.told = FALSE]
  BY DEF HandlerInv, Upstream, Sent, DirectBlockStart
<1>2. live' = IF live.over \/ live.hasReturn THEN live ELSE g
  BY DEF DirectBlockStart, Both, Feed
<1>3. /\ ~up.told /\ up.open = "none" /\ up.next \in Nat /\ t \in SUBSET Ids
      /\ type \in {"none", "text", "thinking", "tool_use", "nothing"} /\ type # "nothing"
  BY DEF DirectBlockStart, HandlerInv, Upstream
<1>. HIDE DEF c, t
<1>4. /\ Upstream' /\ dialect' = dialect /\ dialect = "direct"
      /\ up'.sent # 0 /\ up'.open = type /\ up'.next = up.next /\ up'.told = FALSE
  <2>. DEFINE k == up.next
              next == [Sent EXCEPT !.open = type, !.tools = IF type = "tool_use" THEN @ \cup {id} ELSE @]
  <2>1. Sends("direct", next)
    BY DEF DirectBlockStart
  <2>2. next = [up EXCEPT !.sent = @ + 1, !.open = type, !.next = k, !.tools = t, !.told = FALSE]
    BY <1>1
  <2>3. k \in Nat
    BY <1>3
  <2>. HIDE DEF k, next
  <2>4. /\ Upstream' /\ dialect' = dialect /\ dialect = "direct"
        /\ up'.sent # 0 /\ up'.open = type /\ up'.next = k /\ up'.told = FALSE
    BY <1>3, <2>1, <2>2, <2>3, DirectUpstream, ZenonT(60)
  <2>5. QED
    BY <2>4 DEF k
<1>5. Direct(live, up) => Follow(live, g, up')
  BY <1>3, <1>4, DirectStartGoes
<1>. HIDE DEF g
<1>6. QED
  BY <1>2, <1>3, <1>4, <1>5, StepFollows

\* The upstream has a block open.
LEMMA DirectHasOpen ==
  ASSUME HandlerInv, up.open # "none", ~up.told
  PROVE  /\ up.open \in {"text", "thinking", "tool_use"} /\ up.next \in Nat /\ up.tools \in SUBSET Ids
         /\ up.open \in {"none", "text", "thinking", "tool_use", "nothing"} /\ up.open # "nothing"
BY DEF HandlerInv, Upstream

LEMMA DirectBlockDeltaInv == ASSUME HandlerInv, DirectBlockDelta PROVE HandlerInv'
<1>. DEFINE g == DirectDelta(live, up.next, up.open, Piece)
<1>1. /\ ~up.told /\ up.open \in {"text", "thinking", "tool_use"} /\ up.next \in Nat /\ up.tools \in SUBSET Ids
      /\ up.open \in {"none", "text", "thinking", "tool_use", "nothing"} /\ up.open # "nothing"
  BY DirectHasOpen DEF DirectBlockDelta
<1>2. Sent = [up EXCEPT !.sent = @ + 1, !.open = up.open, !.next = up.next, !.tools = up.tools, !.told = FALSE]
  BY <1>1 DEF HandlerInv, Upstream, Sent
<1>3. live' = IF live.over \/ live.hasReturn THEN live ELSE g
  BY DEF DirectBlockDelta, Both, Feed
<1>4. /\ Upstream' /\ dialect' = dialect /\ dialect = "direct"
      /\ up'.sent # 0 /\ up'.open = up.open /\ up'.next = up.next /\ up'.told = FALSE
  <2>. DEFINE o == up.open
              k == up.next
              t == up.tools
  <2>1. Sends("direct", Sent)
    BY DEF DirectBlockDelta
  <2>2. Sent = [up EXCEPT !.sent = @ + 1, !.open = o, !.next = k, !.tools = t, !.told = FALSE]
    BY <1>2
  <2>3. o \in {"none", "text", "thinking", "tool_use", "nothing"} /\ o # "nothing" /\ k \in Nat /\ t \in SUBSET Ids
    BY <1>1
  <2>. HIDE DEF o, k, t
  <2>4. /\ Upstream' /\ dialect' = dialect /\ dialect = "direct"
        /\ up'.sent # 0 /\ up'.open = o /\ up'.next = k /\ up'.told = FALSE
    BY <2>1, <2>2, <2>3, DirectUpstream, ZenonT(60)
  <2>5. QED
    BY <2>4 DEF o, k
<1>5. Direct(live, up) => Follow(live, g, up')
  BY <1>1, <1>4, DirectDeltaGoes
<1>. HIDE DEF g
<1>6. QED
  BY <1>1, <1>3, <1>4, <1>5, StepFollows

LEMMA DirectBlockStopInv == ASSUME HandlerInv, DirectBlockStop PROVE HandlerInv'
<1>. DEFINE g == DirectStop(live, up.next)
<1>1. /\ ~up.told /\ up.open \in {"text", "thinking", "tool_use"} /\ up.next \in Nat
      /\ up.next + 1 \in Nat /\ up.tools \in SUBSET Ids
  BY DirectHasOpen DEF DirectBlockStop
<1>2. [Sent EXCEPT !.open = "none", !.next = @ + 1]
        = [up EXCEPT !.sent = @ + 1, !.open = "none", !.next = up.next + 1, !.tools = up.tools, !.told = FALSE]
  BY <1>1 DEF HandlerInv, Upstream, Sent
<1>3. live' = IF live.over \/ live.hasReturn THEN live ELSE g
  BY DEF DirectBlockStop, Both, Feed
<1>4. /\ Upstream' /\ dialect' = dialect /\ dialect = "direct"
      /\ up'.sent # 0 /\ up'.open = "none" /\ up'.next = up.next + 1 /\ up'.told = FALSE
  BY <1>1, <1>2, DirectUpstream, ZenonT(60) DEF DirectBlockStop
<1>5. Direct(live, up) => Follow(live, g, up')
  BY <1>1, <1>4, DirectStopGoes
<1>. HIDE DEF g
<1>6. QED
  BY <1>1, <1>3, <1>4, <1>5, StepFollows

LEMMA DirectReasonInv == ASSUME HandlerInv, DirectReason PROVE HandlerInv'
<1>. DEFINE reason == IF up.tools = {} THEN "end_turn" ELSE "tool_use"
            g == DirectMessageDelta(live, reason)
<1>1. ~up.told /\ up.open = "none" /\ up.next \in Nat /\ up.tools \in SUBSET Ids
  BY DEF DirectReason, HandlerInv, Upstream
<1>2. [Sent EXCEPT !.told = TRUE, !.open = "nothing"]
        = [up EXCEPT !.sent = @ + 1, !.open = "nothing", !.next = up.next, !.tools = up.tools, !.told = TRUE]
  BY <1>1 DEF HandlerInv, Upstream, Sent
<1>3. live' = IF live.over \/ live.hasReturn THEN live ELSE g
  BY DEF DirectReason, Both, Feed
<1>4. /\ Upstream' /\ dialect' = dialect /\ dialect = "direct"
      /\ up'.sent # 0 /\ up'.open = "nothing" /\ up'.told = TRUE
  BY <1>1, <1>2, DirectUpstream DEF DirectReason
<1>5. reason # "none"
  OBVIOUS
<1>. HIDE DEF reason
<1>6. ASSUME ~live.over, ~live.hasReturn PROVE g.over = live.over /\ Attempt(g, dialect, up')
  <2>1. Direct(live, up)
    BY <1>1, <1>4, <1>6 DEF HandlerInv, Attempt, Direct
  <2>2. Reasoned(g) /\ g.over = live.over
    BY <1>1, <1>5, <1>6, <2>1, DirectReasonGoes
  <2>. HIDE DEF g
  <2>3. QED
    BY <1>4, <2>2 DEF Attempt
<1>. HIDE DEF g
<1>7. QED
  BY <1>1, <1>3, <1>4, <1>6, Step

LEMMA DirectEndInv == ASSUME HandlerInv, DirectEnd PROVE HandlerInv'
<1>. DEFINE g == DirectMessageStop(live)
<1>1. up.told = TRUE /\ up.open = "nothing" /\ up.next \in Nat /\ up.tools \in SUBSET Ids
  BY DEF DirectEnd, HandlerInv, Upstream
<1>2. [Sent EXCEPT !.open = "none"]
        = [up EXCEPT !.sent = @ + 1, !.open = "none", !.next = up.next, !.tools = up.tools, !.told = TRUE]
  BY <1>1 DEF HandlerInv, Upstream, Sent
<1>3. live' = IF live.over \/ live.hasReturn THEN live ELSE g
  BY DEF DirectEnd, Both, Feed
<1>4. /\ Upstream' /\ dialect' = dialect /\ dialect = "direct"
      /\ up'.sent # 0 /\ up'.open = "none" /\ up'.told = TRUE
  BY <1>1, <1>2, DirectUpstream, ZenonT(60) DEF DirectEnd
<1>5. ASSUME ~live.over, ~live.hasReturn PROVE g.over = live.over /\ Attempt(g, dialect, up')
  <2>1. Reasoned(live)
    BY <1>1, <1>5 DEF HandlerInv, Attempt
  <2>2. Done(g, "direct") /\ g.over = live.over
    BY <1>5, <2>1, DirectEndGoes
  <2>. HIDE DEF g
  <2>3. QED
    BY <1>4, <2>2 DEF Attempt
<1>. HIDE DEF g
<1>6. QED
  BY <1>1, <1>3, <1>4, <1>5, Step

LEMMA AttemptSucceedsInv == ASSUME HandlerInv, AttemptSucceeds PROVE HandlerInv'
<1>. DEFINE g == EndAttempt(live)
<1>1. live' = g /\ dialect' = dialect /\ up' = up /\ up.open # "nothing"
  BY DEF AttemptSucceeds, MayReturn
<1>2. Upstream'
  BY <1>1 DEF HandlerInv, Upstream
<1>3. CASE live.over
  <2>1. live' = live
    BY <1>1, <1>3 DEF EndAttempt
  <2>2. QED
    BY <1>1, <1>2, <1>3, <2>1 DEF HandlerInv
<1>4. CASE ~live.over
  <2>1. Attempt(live, dialect, up)
    BY <1>4 DEF HandlerInv
  <2>2. g.over = TRUE /\ Done(g, dialect)
    BY <1>1, <1>4, <2>1, EndAttemptEnds
  <2>. HIDE DEF g
  <2>3. live'.over \in BOOLEAN /\ live'.over /\ Done(live', dialect')
    BY <1>1, <2>2
  <2>4. QED
    BY <1>2, <2>3 DEF HandlerInv
<1>5. QED
  BY <1>3, <1>4

LEMMA AttemptFailsInv ==
  ASSUME HandlerInv, NEW then \in {"retry", "report", "cancel"}, AttemptFails(then) PROVE HandlerInv'
<1>. DEFINE g == FailedAttempt(live, then)
<1>1. /\ live' = g /\ dialect' = dialect /\ up' = NothingSent /\ ~up.told
      /\ then = "retry" /\ dialect = "direct" => up.sent = 0
  BY DEF AttemptFails, MayFail
<1>2. Upstream'
  BY <1>1 DEF HandlerInv, Upstream, NothingSent
<1>3. CASE live.over
  <2>1. live' = live
    BY <1>1, <1>3 DEF FailedAttempt
  <2>2. QED
    BY <1>1, <1>2, <1>3, <2>1 DEF HandlerInv
<1>4. CASE ~live.over
  <2>1. Attempt(live, dialect, up) /\ live.over \in BOOLEAN
    BY <1>4 DEF HandlerInv
  <2>2. then = "retry" /\ dialect = "direct" => up = NothingSent
    BY <1>1 DEF HandlerInv, Upstream
  <2>3. \/ g.over = TRUE /\ Done(g, dialect)
        \/ g.over = live.over /\ Attempt(g, dialect, NothingSent)
    BY <1>1, <1>4, <2>1, <2>2, FailedAttemptGoes
  <2>. HIDE DEF g
  <2>4. \/ live'.over = TRUE /\ Done(live', dialect')
        \/ live'.over = live.over /\ Attempt(live', dialect', up')
    BY <1>1, <2>3
  <2>5. QED
    BY <1>2, <1>4, <2>1, <2>4 DEF HandlerInv
<1>5. QED
  BY <1>3, <1>4

LEMMA KeepAliveTickInv == ASSUME HandlerInv, KeepAliveTick PROVE HandlerInv'
<1>. DEFINE g == KeepAlive(live)
<1>1. live' = g /\ dialect' = dialect /\ up' = up /\ ~live.over
  BY DEF KeepAliveTick
<1>2. Upstream'
  BY <1>1 DEF HandlerInv, Upstream
<1>3. Attempt(live, dialect, up) /\ live.over \in BOOLEAN
  BY <1>1 DEF HandlerInv
<1>4. Attempt(g, dialect, up) /\ g.over = live.over
  BY <1>3, KeepAliveGoes
<1>. HIDE DEF g
<1>5. live'.over \in BOOLEAN /\ ~live'.over /\ Attempt(live', dialect', up')
  BY <1>1, <1>3, <1>4
<1>6. QED
  BY <1>2, <1>5 DEF HandlerInv

LEMMA UnchangedInv == ASSUME HandlerInv, UNCHANGED vars PROVE HandlerInv'
<1>1. live' = live /\ dialect' = dialect /\ up' = up
  BY DEF vars
<1>2. QED
  BY <1>1 DEF HandlerInv, Upstream

\* A handler that has done nothing.
LEMMA NewHandlerStarts ==
  ASSUME NEW m \in Modes, NEW d
  PROVE  LET h == NewHandler(TRUE, m)
         IN h.over = FALSE /\ Attempt(h, d, NothingSent)
<1>. DEFINE h == NewHandler(TRUE, m)
            u == NothingSent
<1>1. m.format \in {"anthropic", "openai"} /\ m.cut \in Nat
  BY HandlerAssumption
<1>2. h = [f \in Fields |-> h[f]] /\ h.view = [f \in ViewFields |-> h.view[f]]
  BY DEF NewHandler, NewView, Fields, ViewFields
<1>3. /\ h.stream = TRUE /\ h.format = m.format /\ h.blockIndex = -1 /\ h.activeType = "none" /\ h.thinking = -1
      /\ h.text = -1 /\ h.hasReturn = FALSE /\ h.over = FALSE /\ h.skipped = {}
  BY DEF NewHandler
<1>4. h.content = <<>> /\ h.directTools = <<>> /\ h.view = NewView
  BY DEF NewHandler
<1>5. u.sent = 0 /\ u.open = "none" /\ u.next = 0 /\ u.told = FALSE
  BY DEF NothingSent
<1>. HIDE DEF h, u
<1>6. /\ h.view.open = {} /\ h.view.used = {} /\ h.view.shown = FALSE /\ h.view.reason = "none"
      /\ h.view.ended = FALSE /\ h.view.ok = TRUE
  BY <1>4 DEF NewView
<1>7. IsHandler(h) /\ Blocks(h) /\ Active(h) = {}
  BY <1>1, <1>2, <1>3 DEF IsHandler, Blocks, Active
<1>8. Going(h)
  BY <1>3, <1>6, <1>7 DEF Going, Reads, Begun, Opened, Unreturned
<1>9. Noticed(h)
  <2>1. h.content \in Seq({})
    BY <1>4
  <2>2. QED
    BY <1>3, <1>6, <2>1, RangeSeq DEF Noticed
<1>10. Follows(h, u)
  <2>1. DOMAIN h.directTools = {}
    BY <1>4
  <2>2. QED
    BY <1>3, <1>5, <1>6, <1>7, <2>1 DEF Follows
<1>11. QED
  BY <1>3, <1>5, <1>6, <1>8, <1>9, <1>10 DEF Attempt, h, u

LEMMA InitInv == Init => HandlerInv
<1>1. SUFFICES ASSUME Init PROVE HandlerInv
  OBVIOUS
<1>2. PICK m \in Modes : live = NewHandler(TRUE, m)
  BY <1>1 DEF Init
<1>3. up = NothingSent /\ dialect \in {"puter", "agent", "direct"}
  BY <1>1, HandlerAssumption DEF Init
<1>4. Upstream
  BY <1>3 DEF Upstream, NothingSent
<1>5. live.over = FALSE /\ Attempt(live, dialect, up)
  BY <1>2, <1>3, NewHandlerStarts
<1>6. QED
  BY <1>4, <1>5 DEF HandlerInv

LEMMA NextInv == HandlerInv /\ [Next]_vars => HandlerInv'
<1>1. SUFFICES ASSUME HandlerInv, [Next]_vars PROVE HandlerInv'
  OBVIOUS
<1>2. ASSUME NEW t \in Texts, PuterText(t) PROVE HandlerInv'
  BY <1>1, <1>2, PuterTextInv
<1>3. ASSUME NEW id \in Ids, NEW tool \in Tools, PuterTool(id, tool) PROVE HandlerInv'
  BY <1>1, <1>3, PuterToolInv
<1>4. CASE PuterFinish
  BY <1>1, <1>4, PuterFinishInv
<1>5. ASSUME NEW t \in {Piece, NoText}, NEW signed \in BOOLEAN, AgentReasoning(t, signed) PROVE HandlerInv'
  BY <1>1, <1>5, AgentReasoningInv
<1>6. ASSUME NEW t \in Texts, NEW source \in {"model", "coding_agent"}, NEW soon \in BOOLEAN,
             AgentText(t, source, soon)
      PROVE  HandlerInv'
  BY <1>1, <1>6, AgentTextInv
<1>7. ASSUME NEW id \in Ids, NEW tool \in Tools, AgentTool(id, tool) PROVE HandlerInv'
  BY <1>1, <1>7, AgentToolInv
<1>8. CASE AgentTextBlock
  BY <1>1, <1>8, AgentTextBlockInv
<1>9. CASE AgentCoding
  BY <1>1, <1>9, AgentCodingInv
<1>10. ASSUME NEW reason \in {"tool_use", "end_turn"}, AgentEnds(reason) PROVE HandlerInv'
  BY <1>1, <1>10, AgentEndsInv
<1>11. CASE AgentUsage
  BY <1>1, <1>11, AgentUsageInv
<1>12. ASSUME NEW type \in {"text", "thinking", "tool_use"}, NEW id \in Ids, NEW tool \in Tools,
              DirectBlockStart(type, id, tool)
       PROVE  HandlerInv'
  BY <1>1, <1>12, DirectBlockStartInv
<1>13. CASE DirectBlockDelta
  BY <1>1, <1>13, DirectBlockDeltaInv
<1>14. CASE DirectBlockStop
  BY <1>1, <1>14, DirectBlockStopInv
<1>15. CASE DirectReason
  BY <1>1, <1>15, DirectReasonInv
<1>16. CASE DirectEnd
  BY <1>1, <1>16, DirectEndInv
<1>17. CASE AttemptSucceeds
  BY <1>1, <1>17, AttemptSucceedsInv
<1>18. ASSUME NEW then \in {"retry", "report", "cancel"}, AttemptFails(then) PROVE HandlerInv'
  BY <1>1, <1>18, AttemptFailsInv
<1>19. CASE KeepAliveTick
  BY <1>1, <1>19, KeepAliveTickInv
<1>20. CASE UNCHANGED vars
  BY <1>1, <1>20, UnchangedInv
<1>21. QED
  BY <1>1, <1>2, <1>3, <1>4, <1>5, <1>6, <1>7, <1>8, <1>9, <1>10, <1>11, <1>12, <1>13, <1>14, <1>15, <1>16, <1>17,
     <1>18, <1>19, <1>20 DEF Next

-----------------------------------------------------------------------------
(* What follows for every request. *)

\* Every attempt is in one of four states that the client and the upstream agree on: it goes on (in which case the
\* open blocks of the client are the handler's active one), it has given its reason, it is done, or it is over.
THEOREM HandlerInvariant == Spec => []HandlerInv
<1>1. Init => HandlerInv
  BY InitInv
<1>2. HandlerInv /\ [Next]_vars => HandlerInv'
  BY NextInv
<1>3. QED
  BY <1>1, <1>2, PTL DEF Spec

\* Whatever the order of events, errors, retries and ticks, in either format and for every model of texts and tools:
\* the client sees no block started twice, no delta or stop outside of its block and nothing after the end.
THEOREM StreamIsWellFormed == Spec => []WellFormed
<1>1. HandlerInv => WellFormed
  <2>1. SUFFICES ASSUME HandlerInv PROVE live.view.ok = TRUE
    BY DEF WellFormed
  <2>2. CASE live.over
    BY <2>1, <2>2 DEF HandlerInv, Done
  <2>3. CASE ~live.over
    BY <2>1, <2>3 DEF HandlerInv, Attempt, Going, Reads, Reasoned, Done
  <2>4. QED
    BY <2>2, <2>3
<1>2. QED
  BY <1>1, HandlerInvariant, PTL

\* A request that is over has told a client that is still there that it is.
THEOREM RequestEndsOnce == Spec => []EndsOnce
<1>1. HandlerInv => EndsOnce
  BY DEF HandlerInv, EndsOnce, Done, Intact
<1>2. QED
  BY <1>1, HandlerInvariant, PTL

\* An attempt is tried again only if the client has seen nothing of the request: what was shown counts as output of
\* the attempt that showed it, and an attempt with output is never retried.
THEOREM RetriesLeaveNoTrace == Spec => []RetryLeavesNoTrace
<1>1. HandlerInv => RetryLeavesNoTrace
  BY DEF HandlerInv, RetryLeavesNoTrace, Attempt
<1>2. QED
  BY <1>1, HandlerInvariant, PTL

-----------------------------------------------------------------------------
(* Answers: sequences of sequences, joined. *)

Less == {p \in Nat \X Nat : p[1] < p[2]}

LEMMA Least == ASSUME NEW T, T \subseteq Nat, T # {} PROVE \E x \in T : \A y \in T : x <= y
<1>1. IsWellFoundedOn(Less, Nat)
  BY NatLessThanWellFounded DEF OpToRel, Less
<1>2. PICK x \in T : \A y \in T : <<y, x>> \notin Less
  BY <1>1, WFMin, Zenon
<1>3. ASSUME NEW y \in T PROVE x <= y
  <2>1. x \in Nat /\ y \in Nat
    OBVIOUS
  <2>2. ~(y < x)
    BY <1>2, <2>1 DEF Less
  <2>3. QED
    BY <2>1, <2>2
<1>4. QED
  BY <1>3

\* Induction, what holds of a number (of a sequence) being given as the set P of those it holds of.
LEMMA NumberInduction ==
  ASSUME NEW P, 0 \in P, \A m \in Nat : m \in P => m + 1 \in P
  PROVE  \A m \in Nat : m \in P
<1>. DEFINE Bad == Nat \ P
<1>1. ASSUME Bad # {} PROVE FALSE
  <2>1. PICK k \in Bad : \A j \in Bad : k <= j
    BY <1>1, Least
  <2>2. k # 0 /\ k - 1 \in Nat /\ ~(k <= k - 1)
    BY <2>1
  <2>3. k - 1 \in P
    BY <2>1, <2>2
  <2>4. (k - 1) + 1 \in P
    BY <2>2, <2>3
  <2>5. (k - 1) + 1 = k /\ k \notin P
    BY <2>1
  <2>6. QED
    BY <2>4, <2>5
<1>2. QED
  BY <1>1

LEMMA AppendInduction ==
  ASSUME NEW S, NEW P, <<>> \in P, \A s \in Seq(S), x \in S : s \in P => Append(s, x) \in P
  PROVE  \A s \in Seq(S) : s \in P
<1>. DEFINE Q == {m \in Nat : \A s \in Seq(S) : Len(s) = m => s \in P}
<1>1. 0 \in Q
  <2>1. ASSUME NEW s \in Seq(S), Len(s) = 0 PROVE s = <<>>
    BY <2>1, EmptySeq
  <2>2. QED
    BY <2>1
<1>2. ASSUME NEW m \in Nat, m \in Q PROVE m + 1 \in Q
  <2>1. ASSUME NEW s \in Seq(S), Len(s) = m + 1 PROVE s \in P
    <3>1. s # <<>>
      BY <2>1, EmptySeq
    <3>2. PICK r \in Seq(S), x \in S : s = Append(r, x)
      BY <3>1, SequenceEmptyOrAppend
    <3>3. Len(r) = m
      <4>1. Len(r) \in Nat /\ Len(s) = Len(r) + 1
        BY <3>2, AppendProperties, LenProperties
      <4>2. QED
        BY <2>1, <4>1
    <3>4. r \in P
      BY <1>2, <3>3
    <3>5. QED
      BY <3>2, <3>4
  <2>2. QED
    BY <2>1
<1>. HIDE DEF Q
<1>3. \A m \in Nat : m \in Q
  BY <1>1, <1>2, NumberInduction
<1>4. ASSUME NEW s \in Seq(S) PROVE s \in P
  <2>1. Len(s) \in Nat
    BY LenProperties
  <2>2. Len(s) \in Q
    BY <1>3, <2>1
  <2>3. QED
    BY <2>2 DEF Q
<1>5. QED
  BY <1>4

\* f[i] joins the first i sequences of s.
Joins(f, s) == f = [i \in 1..Len(s) |-> IF i = 1 THEN s[i] ELSE f[i - 1] \o s[i]]

LEMMA JoinsExists ==
  ASSUME NEW S PROVE \A s \in Seq(Seq(S)) : \E f \in [1..Len(s) -> Seq(S)] : Joins(f, s)
<1>. DEFINE P == {s \in Seq(Seq(S)) : \E f \in [1..Len(s) -> Seq(S)] : Joins(f, s)}
<1>1. <<>> \in P
  <2>. DEFINE f == [i \in 1..0 |-> <<>>]
  <2>1. Len(<<>>) = 0 /\ <<>> \in Seq(Seq(S)) /\ 1..0 = {}
    OBVIOUS
  <2>2. f \in [1..0 -> Seq(S)]
    BY <2>1
  <2>3. Joins(f, <<>>)
    BY <2>1 DEF Joins
  <2>4. QED
    BY <2>1, <2>2, <2>3
<1>2. ASSUME NEW s \in Seq(Seq(S)), NEW x \in Seq(S), s \in P PROVE Append(s, x) \in P
  <2>. DEFINE r == Append(s, x)
  <2>1. PICK f \in [1..Len(s) -> Seq(S)] : Joins(f, s)
    BY <1>2
  <2>2. /\ r \in Seq(Seq(S)) /\ Len(r) = Len(s) + 1 /\ Len(s) \in Nat
        /\ \A i \in 1..Len(s) : r[i] = s[i] /\ s[i] \in Seq(S)
        /\ r[Len(s) + 1] = x
    BY AppendProperties, LenProperties, ElementOfSeq
  <2>. HIDE DEF r
  <2>. DEFINE w == IF Len(s) = 0 THEN x ELSE f[Len(s)] \o x
              g == [i \in 1..Len(r) |-> IF i <= Len(s) THEN f[i] ELSE w]
  <2>3. w \in Seq(S)
    <3>1. CASE Len(s) = 0
      BY <3>1
    <3>2. CASE Len(s) # 0
      <4>1. f[Len(s)] \in Seq(S)
        BY SMTT(30), <2>2, <3>2
      <4>2. QED
        BY <3>2, <4>1, ConcatProperties
    <3>3. QED
      BY <3>1, <3>2
  <2>. HIDE DEF w
  <2>4. g \in [1..Len(r) -> Seq(S)]
    BY <2>2, <2>3
  <2>5. ASSUME NEW i \in 1..Len(r) PROVE g[i] = IF i = 1 THEN r[i] ELSE g[i - 1] \o r[i]
    <3>1. CASE i <= Len(s)
      <4>1. i \in 1..Len(s) /\ i - 1 <= Len(s) /\ (i # 1 => i - 1 \in 1..Len(r))
        BY <2>2, <3>1
      <4>2. f[i] = IF i = 1 THEN s[i] ELSE f[i - 1] \o s[i]
        BY <2>1, <4>1 DEF Joins
      <4>3. g[i] = f[i] /\ (i # 1 => g[i - 1] = f[i - 1]) /\ r[i] = s[i]
        BY <2>2, <3>1, <4>1
      <4>4. QED
        BY <4>2, <4>3
    <3>2. CASE i = Len(s) + 1
      <4>1. g[i] = w /\ r[i] = x
        BY <2>2, <3>2
      <4>2. i # 1 => g[i - 1] = f[Len(s)]
        BY <2>2, <3>2
      <4>3. i = 1 <=> Len(s) = 0
        BY <2>2, <3>2
      <4>4. QED
        BY <4>1, <4>2, <4>3 DEF w
    <3>3. QED
      BY <2>2, <3>1, <3>2
  <2>6. Joins(g, r)
    <3>1. g = [i \in 1..Len(r) |-> g[i]]
      OBVIOUS
    <3>. HIDE DEF g
    <3>2. QED
      BY <2>5, <3>1 DEF Joins
  <2>7. QED
    BY <2>2, <2>4, <2>6 DEF r
<1>3. \A s \in Seq(Seq(S)) : s \in P
  BY <1>1, <1>2, AppendInduction
<1>4. QED
  BY <1>3

\* Joining does not look ahead.
LEMMA JoinsAgree ==
  ASSUME NEW f, NEW r, Joins(f, r), NEW g, NEW s, Joins(g, s), Len(r) \in Nat, Len(s) \in Nat,
         NEW k \in Nat, k <= Len(r), k <= Len(s), \A i \in 1..k : r[i] = s[i]
  PROVE  \A i \in 1..k : f[i] = g[i]
<1>. DEFINE P == {m \in Nat : m \in 1..k => f[m] = g[m]}
<1>1. 0 \in P
  OBVIOUS
<1>2. ASSUME NEW m \in Nat, m \in P PROVE m + 1 \in P
  <2>1. SUFFICES ASSUME m + 1 \in 1..k PROVE f[m + 1] = g[m + 1]
    OBVIOUS
  <2>2. m + 1 \in 1..Len(r) /\ m + 1 \in 1..Len(s) /\ r[m + 1] = s[m + 1] /\ (m + 1) - 1 = m
    BY <2>1
  <2>3. f[m + 1] = IF m + 1 = 1 THEN r[m + 1] ELSE f[m] \o r[m + 1]
    BY ZenonT(60), <2>2 DEF Joins
  <2>4. g[m + 1] = IF m + 1 = 1 THEN s[m + 1] ELSE g[m] \o s[m + 1]
    BY <2>2 DEF Joins
  <2>5. m + 1 # 1 => f[m] = g[m]
    BY <1>2, <2>1
  <2>6. QED
    BY <2>2, <2>3, <2>4, <2>5
<1>3. \A m \in Nat : m \in P
  BY <1>1, <1>2, NumberInduction
<1>4. QED
  BY <1>3

\* FlattenSeq is the last of any f that joins.
LEMMA FlatLast ==
  ASSUME NEW S, NEW s \in Seq(Seq(S)), Len(s) # 0, NEW f, Joins(f, s)
  PROVE  FlattenSeq(s) = f[Len(s)] /\ FlattenSeq(s) \in Seq(S)
<1>. DEFINE c == CHOOSE g : Joins(g, s)
<1>1. FlattenSeq(s) = c[Len(s)]
  BY Zenon DEF FlattenSeq, Joins
<1>2. PICK e \in [1..Len(s) -> Seq(S)] : Joins(e, s)
  BY JoinsExists
<1>3. Joins(c, s)
  BY <1>2, Zenon
<1>. HIDE DEF c
<1>4. Len(s) \in Nat /\ Len(s) \in 1..Len(s)
  BY LenProperties
<1>5. c[Len(s)] = f[Len(s)]
  BY <1>3, <1>4, JoinsAgree
<1>6. c[Len(s)] = e[Len(s)]
  BY <1>2, <1>3, <1>4, JoinsAgree
<1>7. QED
  BY <1>1, <1>2, <1>4, <1>5, <1>6

LEMMA FlatNone == FlattenSeq(<<>>) = <<>>
BY DEF FlattenSeq

LEMMA JoinsPrefix ==
  ASSUME NEW f, NEW r, NEW g, NEW s, Joins(f, r), Joins(g, s), Len(s) \in Nat, Len(s) # 0, Len(r) = Len(s) + 1,
         \A i \in 1..Len(s) : r[i] = s[i]
  PROVE  f[Len(s)] = g[Len(s)]
<1>1. Len(r) \in Nat /\ Len(s) <= Len(r) /\ Len(s) <= Len(s) /\ Len(s) \in 1..Len(s)
  OBVIOUS
<1>2. \A i \in 1..Len(s) : f[i] = g[i]
  BY SMTT(30), <1>1, JoinsAgree
<1>3. QED
  BY <1>1, <1>2

LEMMA FlatAppend ==
  ASSUME NEW S, NEW s \in Seq(Seq(S)), NEW x \in Seq(S)
  PROVE  FlattenSeq(Append(s, x)) = FlattenSeq(s) \o x /\ FlattenSeq(s) \in Seq(S)
<1>1. SUFFICES ASSUME NEW r, r = Append(s, x) PROVE FlattenSeq(r) = FlattenSeq(s) \o x /\ FlattenSeq(s) \in Seq(S)
  OBVIOUS
<1>2. /\ r \in Seq(Seq(S)) /\ Len(r) = Len(s) + 1 /\ Len(s) \in Nat
      /\ \A i \in 1..Len(s) : r[i] = s[i]
      /\ r[Len(s) + 1] = x
  BY <1>1, AppendProperties, LenProperties
<1>3. PICK g : Joins(g, r)
  BY <1>2, JoinsExists
<1>4. PICK f : Joins(f, s)
  BY JoinsExists
<1>5. FlattenSeq(r) = g[Len(s) + 1]
  BY <1>2, <1>3, FlatLast
<1>6. g[Len(s) + 1] = IF Len(s) = 0 THEN x ELSE g[Len(s)] \o x
  <2>1. Len(s) + 1 \in 1..Len(r) /\ (Len(s) + 1) - 1 = Len(s) /\ (Len(s) + 1 = 1 <=> Len(s) = 0)
    BY <1>2
  <2>2. g[Len(s) + 1] = IF Len(s) + 1 = 1 THEN r[Len(s) + 1] ELSE g[(Len(s) + 1) - 1] \o r[Len(s) + 1]
    BY <1>3, <2>1 DEF Joins
  <2>3. QED
    BY <1>2, <2>1, <2>2
<1>7. CASE Len(s) = 0
  <2>1. s = <<>>
    BY <1>7, EmptySeq
  <2>2. FlattenSeq(s) = <<>>
    BY <2>1, FlatNone
  <2>3. QED
    BY <1>5, <1>6, <1>7, <2>2, ConcatEmptySeq
<1>8. CASE Len(s) # 0
  <2>1. FlattenSeq(s) = f[Len(s)] /\ FlattenSeq(s) \in Seq(S)
    BY <1>4, <1>8, FlatLast
  <2>2. g[Len(s)] = f[Len(s)]
    BY <1>2, <1>3, <1>4, <1>8, JoinsPrefix
  <2>3. QED
    BY <1>5, <1>6, <1>8, <2>1, <2>2
<1>9. QED
  BY <1>7, <1>8

LEMMA ConcatAppend ==
  ASSUME NEW S, NEW a \in Seq(S), NEW b \in Seq(S), NEW t \in S
  PROVE  a \o Append(b, t) = Append(a \o b, t) /\ Append(a, t) \o <<>> = Append(a, t) /\ a \o <<>> = a
<1>1. <<t>> \in Seq(S) /\ Append(b, t) = b \o <<t>> /\ a \o b \in Seq(S) /\ Append(a, t) \in Seq(S)
  BY AppendIsConcat, AppendProperties, ConcatProperties
<1>2. (a \o b) \o <<t>> = a \o (b \o <<t>>)
  BY <1>1, ConcatAssociative
<1>3. Append(a \o b, t) = (a \o b) \o <<t>>
  BY <1>1, AppendIsConcat
<1>4. QED
  BY <1>1, <1>2, <1>3, ConcatEmptySeq

\* The first m of a sequence, and its last.
LEMMA LastOf ==
  ASSUME NEW S, NEW s \in Seq(S), NEW m \in Nat, Len(s) = m + 1
  PROVE  \E r \in Seq(S), x \in S : s = Append(r, x) /\ Len(r) = m /\ s[m + 1] = x /\ \A i \in 1..m : s[i] = r[i]
<1>1. s # <<>>
  BY EmptySeq
<1>2. PICK r \in Seq(S), x \in S : s = Append(r, x)
  BY <1>1, SequenceEmptyOrAppend
<1>3. /\ Len(s) = Len(r) + 1 /\ Len(r) \in Nat /\ s[Len(r) + 1] = x
      /\ \A i \in 1..Len(r) : s[i] = r[i]
  BY <1>2, AppendProperties, LenProperties
<1>4. Len(r) = m
  BY <1>3
<1>5. QED
  BY <1>2, <1>3, <1>4

\* b has one more element than a, t, in the last sequence that is not empty.
Into(a, b, j, t) ==
  /\ Len(a) = Len(b) /\ b[j] = Append(a[j], t)
  /\ \A k \in 1..Len(a) : (k # j => b[k] = a[k]) /\ (k > j => a[k] = <<>>)

LEMMA IntoStep ==
  ASSUME NEW S, NEW t \in S, NEW a \in Seq(Seq(S)), NEW x \in Seq(S), NEW c \in Seq(Seq(S)), NEW y \in Seq(S),
         NEW j \in 1..(Len(a) + 1), Into(Append(a, x), Append(c, y), j, t),
         j \in 1..Len(a) /\ Into(a, c, j, t) => FlattenSeq(c) = Append(FlattenSeq(a), t)
  PROVE  FlattenSeq(Append(c, y)) = Append(FlattenSeq(Append(a, x)), t)
<1>. SUFFICES ASSUME NEW aa, aa = Append(a, x), NEW b, b = Append(c, y), Into(aa, b, j, t)
              PROVE  FlattenSeq(b) = Append(FlattenSeq(aa), t)
  OBVIOUS
<1>1. /\ Len(aa) = Len(a) + 1 /\ Len(a) \in Nat /\ aa[Len(a) + 1] = x
      /\ \A k \in 1..Len(a) : aa[k] = a[k]
  BY AppendProperties, LenProperties
<1>2. /\ Len(b) = Len(c) + 1 /\ Len(c) \in Nat /\ b[Len(c) + 1] = y
      /\ \A k \in 1..Len(c) : b[k] = c[k]
  BY AppendProperties, LenProperties
<1>3. Len(c) = Len(a)
  <2>1. Len(aa) = Len(b)
    BY DEF Into
  <2>2. QED
    BY <1>1, <1>2, <2>1
<1>4. /\ b[j] = Append(aa[j], t)
      /\ \A k \in 1..(Len(a) + 1) : (k # j => b[k] = aa[k]) /\ (k > j => aa[k] = <<>>)
  BY <1>1 DEF Into
<1>5. FlattenSeq(aa) = FlattenSeq(a) \o x /\ FlattenSeq(a) \in Seq(S)
  BY FlatAppend
<1>6. FlattenSeq(b) = FlattenSeq(c) \o y
  BY FlatAppend
<1>7. CASE j = Len(a) + 1
  <2>1. y = Append(x, t)
    BY <1>1, <1>2, <1>3, <1>4, <1>7
  <2>2. \A k \in 1..Len(a) : c[k] = a[k]
    <3>1. SUFFICES ASSUME NEW k \in 1..Len(a) PROVE c[k] = a[k]
      OBVIOUS
    <3>2. k \in 1..(Len(a) + 1) /\ k # j
      BY <1>1, <1>7
    <3>3. QED
      BY <1>1, <1>2, <1>3, <1>4, <3>2
  <2>3. c = a
    BY <1>3, <2>2, SeqEqual
  <2>4. QED
    BY <1>5, <1>6, <2>1, <2>3, ConcatAppend
<1>8. CASE j # Len(a) + 1
  <2>1. j \in 1..Len(a) /\ Len(a) + 1 \in 1..(Len(a) + 1) /\ Len(a) + 1 > j
    BY <1>1, <1>8
  <2>2. x = <<>> /\ y = <<>>
    BY <1>1, <1>2, <1>3, <1>4, <2>1
  <2>3. Into(a, c, j, t)
    <3>1. c[j] = Append(a[j], t)
      BY <1>1, <1>2, <1>3, <1>4, <2>1
    <3>2. ASSUME NEW k \in 1..Len(a) PROVE (k # j => c[k] = a[k]) /\ (k > j => a[k] = <<>>)
      <4>1. k \in 1..(Len(a) + 1)
        BY <1>1
      <4>2. QED
        BY <1>1, <1>2, <1>3, <1>4, <4>1
    <3>3. QED
      BY <1>3, <3>1, <3>2 DEF Into
  <2>4. FlattenSeq(c) = Append(FlattenSeq(a), t)
    BY <2>1, <2>3
  <2>5. FlattenSeq(aa) = FlattenSeq(a) /\ FlattenSeq(b) = FlattenSeq(c)
    BY <1>5, <1>6, <2>2, <2>4, ConcatAppend
  <2>6. QED
    BY <2>4, <2>5
<1>9. QED
  BY <1>7, <1>8

LEMMA FlatInto ==
  ASSUME NEW S, NEW t \in S
  PROVE  \A a \in Seq(Seq(S)) : \A b \in Seq(Seq(S)) : \A j \in 1..Len(a) :
           Into(a, b, j, t) => FlattenSeq(b) = Append(FlattenSeq(a), t)
<1>. DEFINE P == {a \in Seq(Seq(S)) : \A b \in Seq(Seq(S)) : \A j \in 1..Len(a) :
                    Into(a, b, j, t) => FlattenSeq(b) = Append(FlattenSeq(a), t)}
<1>1. <<>> \in P
  BY EmptySeq
<1>2. ASSUME NEW a \in Seq(Seq(S)), NEW x \in Seq(S), a \in P PROVE Append(a, x) \in P
  <2>1. Append(a, x) \in Seq(Seq(S)) /\ Len(Append(a, x)) = Len(a) + 1 /\ Len(a) \in Nat
    BY AppendProperties, LenProperties
  <2>2. ASSUME NEW b \in Seq(Seq(S)), NEW j \in 1..(Len(a) + 1), Into(Append(a, x), b, j, t)
        PROVE  FlattenSeq(b) = Append(FlattenSeq(Append(a, x)), t)
    <3>1. Len(b) = Len(a) + 1
      BY <2>1, <2>2 DEF Into
    <3>2. PICK c \in Seq(Seq(S)), y \in Seq(S) : b = Append(c, y)
      <4>1. b # <<>>
        BY <2>1, <3>1
      <4>2. QED
        BY <4>1, SequenceEmptyOrAppend
    <3>3. j \in 1..Len(a) /\ Into(a, c, j, t) => FlattenSeq(c) = Append(FlattenSeq(a), t)
      BY <1>2
    <3>. HIDE DEF P
    <3>4. Into(Append(a, x), Append(c, y), j, t)
      BY <2>2, <3>2
    <3>5. FlattenSeq(Append(c, y)) = Append(FlattenSeq(Append(a, x)), t)
      BY <3>3, <3>4, IntoStep
    <3>6. QED
      BY <3>2, <3>5
  <2>3. QED
    BY <2>1, <2>2
<1>3. \A a \in Seq(Seq(S)) : a \in P
  <2>. HIDE DEF P
  <2>1. QED
    BY <1>1, <1>2, AppendInduction
<1>4. QED
  BY <1>3

\* Nothing after m.
LEMMA FlatQuiet ==
  ASSUME NEW S, NEW s \in Seq(Seq(S)), NEW r \in Seq(Seq(S)), Len(s) <= Len(r),
         \A k \in 1..Len(r) : r[k] = IF k <= Len(s) THEN s[k] ELSE <<>>
  PROVE  FlattenSeq(r) = FlattenSeq(s)
<1>. DEFINE P == {a \in Seq(Seq(S)) :
                    Len(s) <= Len(a) /\ (\A k \in 1..Len(a) : a[k] = IF k <= Len(s) THEN s[k] ELSE <<>>)
                      => FlattenSeq(a) = FlattenSeq(s)}
<1>1. <<>> \in P
  <2>1. Len(s) \in Nat /\ (Len(s) = 0 => s = <<>>) /\ Len(<<>>) = 0
    BY EmptySeq, LenProperties
  <2>2. QED
    BY <2>1
<1>2. ASSUME NEW a \in Seq(Seq(S)), NEW x \in Seq(S), a \in P PROVE Append(a, x) \in P
  <2>1. SUFFICES ASSUME NEW aa, aa = Append(a, x), Len(s) <= Len(aa),
                        \A k \in 1..Len(aa) : aa[k] = IF k <= Len(s) THEN s[k] ELSE <<>>
                 PROVE  aa \in Seq(Seq(S)) /\ FlattenSeq(aa) = FlattenSeq(s)
    BY AppendProperties
  <2>2. /\ aa \in Seq(Seq(S)) /\ Len(aa) = Len(a) + 1 /\ Len(a) \in Nat /\ aa[Len(a) + 1] = x
        /\ \A k \in 1..Len(a) : aa[k] = a[k]
    BY <2>1, AppendProperties, LenProperties
  <2>3. Len(s) \in Nat
    BY LenProperties
  <2>4. CASE Len(s) = Len(a) + 1
    <3>1. \A k \in 1..Len(s) : s[k] = aa[k]
      BY <2>1, <2>2, <2>4
    <3>2. s = aa
      BY <2>2, <2>4, <3>1, SeqEqual
    <3>3. QED
      BY <2>2, <3>2
  <2>5. CASE Len(s) # Len(a) + 1
    <3>1. Len(s) <= Len(a) /\ x = <<>> /\ Len(a) + 1 \in 1..Len(aa)
      BY <2>1, <2>2, <2>3, <2>5
    <3>2. ASSUME NEW k \in 1..Len(a) PROVE a[k] = IF k <= Len(s) THEN s[k] ELSE <<>>
      <4>1. k \in 1..Len(aa) /\ aa[k] = a[k]
        BY <2>2
      <4>2. QED
        BY <2>1, <4>1
    <3>3. FlattenSeq(a) = FlattenSeq(s)
      BY <1>2, <3>1, <3>2
    <3>4. FlattenSeq(aa) = FlattenSeq(a) \o x /\ FlattenSeq(a) \in Seq(S)
      BY <2>1, FlatAppend
    <3>5. QED
      BY <2>2, <3>1, <3>3, <3>4, ConcatEmptySeq
  <2>6. QED
    BY <2>4, <2>5
<1>3. \A a \in Seq(Seq(S)) : a \in P
  <2>. HIDE DEF P
  <2>1. QED
    BY <1>1, <1>2, AppendInduction
<1>4. QED
  BY <1>3

LEMMA OneMore ==
  ASSUME NEW m \in Nat, NEW t, NEW j, NEW x, x = t[(m + 1) + j]
  PROVE  Append([k \in 1..m |-> t[k + j]], x) = [k \in 1..(m + 1) |-> t[k + j]]
<1>. DEFINE f == [k \in 1..m |-> t[k + j]]
<1>1. f \in Seq({t[k + j] : k \in 1..m} \cup {x}) /\ Len(f) = m
  OBVIOUS
<1>2. QED
  BY <1>1

\* Sequences of one element, after m that are empty.
Singles(s, m, t) == \A k \in 1..Len(s) : s[k] = IF k <= m THEN <<>> ELSE <<t[k]>>

LEMMA FlatSingles ==
  ASSUME NEW S, NEW s \in Seq(Seq(S)), NEW m \in Nat, m <= Len(s), NEW t, Singles(s, m, t)
  PROVE  /\ Len(FlattenSeq(s)) = Len(s) - m /\ DOMAIN FlattenSeq(s) = 1..(Len(s) - m)
         /\ FlattenSeq(s) = [k \in DOMAIN FlattenSeq(s) |-> FlattenSeq(s)[k]]
         /\ \A k \in 1..(Len(s) - m) : FlattenSeq(s)[k] = t[k + m]
<1>. DEFINE P == {a \in Seq(Seq(S)) :
                    \A j \in Nat : j <= Len(a) /\ (\A k \in 1..Len(a) : a[k] = IF k <= j THEN <<>> ELSE <<t[k]>>)
                      => FlattenSeq(a) = [k \in 1..(Len(a) - j) |-> t[k + j]]}
<1>1. <<>> \in P
  <2>1. Len(<<>>) = 0 /\ <<>> \in Seq(Seq(S))
    OBVIOUS
  <2>2. ASSUME NEW j \in Nat, j <= 0 PROVE FlattenSeq(<<>>) = [k \in 1..(0 - j) |-> t[k + j]]
    <3>1. 1..(0 - j) = {}
      OBVIOUS
    <3>2. [k \in {} |-> t[k + j]] = <<>>
      OBVIOUS
    <3>3. QED
      BY <3>1, <3>2, FlatNone
  <2>3. QED
    BY <2>1, <2>2
<1>2. ASSUME NEW a \in Seq(Seq(S)), NEW x \in Seq(S), a \in P PROVE Append(a, x) \in P
  <2>0. Append(a, x) \in Seq(Seq(S))
    BY AppendProperties
  <2>1. SUFFICES ASSUME NEW aa, aa = Append(a, x), NEW j \in Nat, j <= Len(aa),
                        \A k \in 1..Len(aa) : aa[k] = IF k <= j THEN <<>> ELSE <<t[k]>>
                 PROVE  aa \in Seq(Seq(S)) /\ FlattenSeq(aa) = [k \in 1..(Len(aa) - j) |-> t[k + j]]
    BY <2>0
  <2>2. /\ aa \in Seq(Seq(S)) /\ Len(aa) = Len(a) + 1 /\ Len(a) \in Nat /\ aa[Len(a) + 1] = x
        /\ \A k \in 1..Len(a) : aa[k] = a[k]
    BY <2>1, AppendProperties, LenProperties
  <2>3. FlattenSeq(aa) = FlattenSeq(a) \o x /\ FlattenSeq(a) \in Seq(S)
    BY <2>1, FlatAppend
  <2>4. Len(a) + 1 \in 1..Len(aa)
    BY <2>2
  <2>5. CASE j = Len(a) + 1
    <3>1. Len(a) \in Nat /\ Len(a) <= Len(a) /\ \A k \in 1..Len(a) : a[k] = IF k <= Len(a) THEN <<>> ELSE <<t[k]>>
      BY <2>1, <2>2, <2>5
    <3>2. FlattenSeq(a) = [k \in 1..(Len(a) - Len(a)) |-> t[k + Len(a)]]
      BY <1>2, <3>1
    <3>3. 1..(Len(a) - Len(a)) = {} /\ 1..(Len(aa) - j) = {}
      BY <2>2, <2>5
    <3>4. x = <<>>
      BY <2>1, <2>2, <2>4, <2>5
    <3>5. FlattenSeq(aa) = FlattenSeq(a)
      BY <2>3, <3>4, ConcatEmptySeq
    <3>6. [k \in {} |-> t[k + Len(a)]] = [k \in {} |-> t[k + j]]
      OBVIOUS
    <3>7. QED
      BY <2>2, <3>2, <3>3, <3>5, <3>6
  <2>6. CASE j # Len(a) + 1
    <3>0. j <= Len(a) /\ ~(Len(a) + 1 <= j)
      BY <2>1, <2>2, <2>6
    <3>1. j <= Len(a) /\ x = <<t[Len(a) + 1]>> /\ \A k \in 1..Len(a) : a[k] = IF k <= j THEN <<>> ELSE <<t[k]>>
      <4>1. x = <<t[Len(a) + 1]>>
        BY <2>1, <2>2, <2>4, <3>0
      <4>2. ASSUME NEW k \in 1..Len(a) PROVE a[k] = IF k <= j THEN <<>> ELSE <<t[k]>>
        <5>1. k \in 1..Len(aa) /\ aa[k] = a[k]
          BY <2>2
        <5>2. QED
          BY <2>1, <5>1
      <4>3. QED
        BY <3>0, <4>1, <4>2
    <3>. DEFINE f == [k \in 1..(Len(a) - j) |-> t[k + j]]
                g == [k \in 1..(Len(aa) - j) |-> t[k + j]]
    <3>2. FlattenSeq(a) = f
      BY <1>2, <3>1
    <3>3. Len(f) = Len(a) - j /\ Len(g) = Len(a) + 1 - j
      BY <2>2, <3>1
    <3>4. x[1] \in S /\ x[1] = t[Len(a) + 1]
      BY <3>1
    <3>5. f \o x = Append(f, t[Len(a) + 1]) /\ f \in Seq(S)
      BY <2>3, <3>1, <3>2, <3>4, AppendIsConcat
    <3>6. Append(f, t[Len(a) + 1]) = g
      <4>1. Len(a) - j \in Nat /\ Len(aa) - j = (Len(a) - j) + 1 /\ ((Len(a) - j) + 1) + j = Len(a) + 1
        BY <2>2, <3>1
      <4>2. QED
        BY <4>1, OneMore
    <3>7. QED
      BY <2>2, <2>3, <3>2, <3>5, <3>6
  <2>7. QED
    BY <2>5, <2>6
<1>3. \A a \in Seq(Seq(S)) : a \in P
  <2>. HIDE DEF P
  <2>1. QED
    BY <1>1, <1>2, AppendInduction
<1>4. FlattenSeq(s) = [k \in 1..(Len(s) - m) |-> t[k + m]]
  BY <1>3 DEF Singles
<1>5. Len(s) - m \in Nat
  BY LenProperties
<1>6. QED
  BY <1>4, <1>5

TextsIn(c) == [k \in DOMAIN c |-> IF c[k].type = "text" THEN c[k].data ELSE <<>>]
ToolsIn(c) == [k \in DOMAIN c |-> IF c[k].type = "tool_use" THEN c[k].data ELSE <<>>]

\* The content of a response that has not returned: texts and thoughts, no tools.
IsEntry(e) == e = [type |-> e.type, data |-> e.data] /\ e.type \in {"text", "thinking"} /\ IsSeq(e.data)
Stored(c) == IsSeq(c) /\ \A k \in DOMAIN c : IsEntry(c[k])

LEMMA SeqShape == ASSUME NEW s, IsSeq(s) PROVE Len(s) \in Nat /\ DOMAIN s = 1..Len(s) /\ s = [k \in 1..Len(s) |-> s[k]]
BY DEF IsSeq

LEMMA SeqCovered ==
  ASSUME NEW s, IsSeq(s), NEW S, \A k \in DOMAIN s : s[k] \in S
  PROVE  s \in Seq(S)
<1>1. Len(s) \in Nat /\ DOMAIN s = 1..Len(s) /\ s = [k \in 1..Len(s) |-> s[k]]
  BY SeqShape
<1>2. s \in [1..Len(s) -> S]
  BY <1>1
<1>3. QED
  BY <1>1, <1>2, SeqDef

LEMMA TextsCovered ==
  ASSUME NEW c, Stored(c), NEW W
  PROVE  \E S : W \subseteq S /\ TextsIn(c) \in Seq(Seq(S)) /\ Len(TextsIn(c)) = Len(c) /\ Len(c) \in Nat
<1>. DEFINE S == W \cup UNION {Range(c[k].data) : k \in DOMAIN c}
            s == TextsIn(c)
<1>1. Len(c) \in Nat /\ DOMAIN c = 1..Len(c)
  BY SeqShape DEF Stored
<1>2. ASSUME NEW k \in 1..Len(c) PROVE s[k] \in Seq(S)
  <2>1. CASE c[k].type = "text"
    <3>1. s[k] = c[k].data /\ IsSeq(c[k].data)
      BY <1>1, <2>1 DEF TextsIn, Stored, IsEntry
    <3>2. Range(c[k].data) \subseteq S
      BY <1>1
    <3>. HIDE DEF S, s
    <3>3. \A j \in DOMAIN c[k].data : c[k].data[j] \in S
      BY <3>2 DEF Range
    <3>4. QED
      BY <3>1, <3>3, SeqCovered
  <2>2. CASE c[k].type # "text"
    BY <1>1, <2>2 DEF TextsIn
  <2>3. QED
    BY <2>1, <2>2
<1>3. s = [k \in 1..Len(c) |-> s[k]]
  BY <1>1 DEF TextsIn
<1>4. W \subseteq S
  OBVIOUS
<1>. HIDE DEF S, s
<1>5. s \in [1..Len(c) -> Seq(S)]
  BY <1>2, <1>3
<1>6. s \in Seq(Seq(S)) /\ Len(s) = Len(c)
  <2>1. s \in Seq(Seq(S)) /\ DOMAIN s = 1..Len(c)
    BY <1>1, <1>5, SeqDef
  <2>2. QED
    BY <1>1, <2>1
<1>7. QED
  BY <1>1, <1>4, <1>6 DEF s

LEMMA BlockStored ==
  ASSUME NEW c, Stored(c), NEW type \in {"text", "thinking"}
  PROVE  LET e == [type |-> type, data |-> <<>>]
         IN /\ Stored(Append(c, e)) /\ FlattenSeq(TextsIn(Append(c, e))) = FlattenSeq(TextsIn(c))
            /\ Len(Append(c, e)) = Len(c) + 1 /\ Len(c) \in Nat /\ DOMAIN c = 1..Len(c)
            /\ DOMAIN Append(c, e) = 1..(Len(c) + 1)
            /\ Append(c, e)[Len(c) + 1].type = type /\ \A k \in 1..Len(c) : Append(c, e)[k] = c[k]
<1>. DEFINE e == [type |-> type, data |-> <<>>]
            d == Append(c, e)
            T == Range(c) \cup {e}
<1>1. Len(c) \in Nat /\ DOMAIN c = 1..Len(c)
  BY SeqShape DEF Stored
<1>2. IsSeq(<<>>)
  BY DEF IsSeq
<1>3. IsEntry(e) /\ e.type = type /\ e.data = <<>>
  BY <1>2 DEF IsEntry
<1>4. IsSeq(d)
  BY AppendSeq DEF Stored
<1>5. c \in Seq(T) /\ e \in T
  <2>1. \A k \in DOMAIN c : c[k] \in T
    BY DEF Range
  <2>2. IsSeq(c) /\ e \in T
    BY DEF Stored
  <2>. HIDE DEF T
  <2>3. QED
    BY <2>1, <2>2, SeqCovered
<1>. HIDE DEF T, e
<1>6. d \in Seq(T) /\ Len(d) = Len(c) + 1 /\ (\A k \in 1..Len(c) : d[k] = c[k]) /\ d[Len(c) + 1] = e
  BY <1>5, AppendProperties
<1>7. DOMAIN d = 1..(Len(c) + 1)
  BY <1>6, LenProperties
<1>. HIDE DEF d
<1>8. ASSUME NEW k \in 1..(Len(c) + 1) PROVE IsEntry(d[k])
  <2>1. CASE k = Len(c) + 1
    BY <1>3, <1>6, <2>1
  <2>2. CASE k # Len(c) + 1
    <3>1. k \in 1..Len(c)
      BY <1>1, <2>2
    <3>2. QED
      BY <1>1, <1>6, <3>1 DEF Stored
  <2>3. QED
    BY <2>1, <2>2
<1>9. Stored(d)
  BY <1>4, <1>7, <1>8 DEF Stored
<1>10. FlattenSeq(TextsIn(d)) = FlattenSeq(TextsIn(c))
  <2>1. PICK S : TextsIn(d) \in Seq(Seq(S)) /\ Len(TextsIn(d)) = Len(c) + 1
    BY <1>6, <1>9, TextsCovered
  <2>2. PICK S2 : S \subseteq S2 /\ TextsIn(c) \in Seq(Seq(S2)) /\ Len(TextsIn(c)) = Len(c)
    BY TextsCovered
  <2>3. \A k \in 1..(Len(c) + 1) : TextsIn(d)[k] = IF k <= Len(c) THEN TextsIn(c)[k] ELSE <<>>
    <3>1. SUFFICES ASSUME NEW k \in 1..(Len(c) + 1)
                   PROVE  TextsIn(d)[k] = IF k <= Len(c) THEN TextsIn(c)[k] ELSE <<>>
      OBVIOUS
    <3>2. TextsIn(d)[k] = IF d[k].type = "text" THEN d[k].data ELSE <<>>
      BY <1>7 DEF TextsIn
    <3>3. CASE k <= Len(c)
      <4>1. k \in DOMAIN c /\ d[k] = c[k]
        BY <1>1, <1>6, <3>3
      <4>2. QED
        BY <3>2, <3>3, <4>1 DEF TextsIn
    <3>4. CASE ~(k <= Len(c))
      <4>1. k = Len(c) + 1
        BY <1>1, <3>4
      <4>2. QED
        BY <1>3, <1>6, <3>2, <3>4, <4>1
    <3>5. QED
      BY <3>3, <3>4
  <2>4. TextsIn(d) \in Seq(Seq(S2))
    <3>1. Seq(S) \subseteq Seq(S2)
      BY <2>2, SeqMonotonic
    <3>2. QED
      BY <2>1, <3>1, SeqMonotonic
  <2>5. Len(TextsIn(c)) <= Len(TextsIn(d))
    BY <1>1, <2>1, <2>2
  <2>6. \A k \in 1..Len(TextsIn(d)) : TextsIn(d)[k] = IF k <= Len(TextsIn(c)) THEN TextsIn(c)[k] ELSE <<>>
    BY <2>1, <2>2, <2>3
  <2>7. QED
    BY <2>2, <2>4, <2>5, <2>6, FlatQuiet
<1>11. QED
  BY <1>1, <1>3, <1>6, <1>7, <1>9, <1>10 DEF d, e

\* The builder of block i.
Added(c, i, t) == [c EXCEPT ![i].data = Append(@, t)]

LEMMA AddedShape ==
  ASSUME NEW c, Stored(c), NEW i \in DOMAIN c, NEW t
  PROVE  LET d == Added(c, i, t)
         IN /\ Stored(d) /\ DOMAIN d = DOMAIN c /\ Len(d) = Len(c)
            /\ \A k \in DOMAIN c : d[k].type = c[k].type /\ (k # i => d[k] = c[k])
            /\ d[i].data = Append(c[i].data, t)
<1>. DEFINE e == [c[i] EXCEPT !.data = Append(@, t)]
            d == [c EXCEPT ![i] = e]
            T == Range(c) \cup {e}
<1>1. Added(c, i, t) = d
  BY DEF Added
<1>2. Len(c) \in Nat /\ DOMAIN c = 1..Len(c)
  BY SeqShape DEF Stored
<1>3. IsEntry(c[i])
  BY DEF Stored
<1>4. IsEntry(e) /\ e.type = c[i].type /\ e.data = Append(c[i].data, t)
  <2>1. IsSeq(Append(c[i].data, t))
    BY <1>3, AppendSeq DEF IsEntry
  <2>2. e = [type |-> c[i].type, data |-> Append(c[i].data, t)]
    BY SMTT(30), <1>3 DEF IsEntry
  <2>. HIDE DEF e
  <2>3. QED
    BY <1>3, <2>1, <2>2 DEF IsEntry
<1>5. c \in Seq(T) /\ e \in T
  <2>1. \A k \in DOMAIN c : c[k] \in T
    BY DEF Range
  <2>2. IsSeq(c) /\ e \in T
    BY DEF Stored
  <2>. HIDE DEF T
  <2>3. QED
    BY <2>1, <2>2, SeqCovered
<1>. HIDE DEF T, e
<1>6. /\ d \in Seq(T) /\ Len(d) = Len(c)
      /\ \A k \in 1..Len(c) : d[k] = IF k = i THEN e ELSE c[k]
  BY <1>2, <1>5, ExceptSeq
<1>7. DOMAIN d = DOMAIN c
  BY <1>2
<1>. HIDE DEF d
<1>8. IsSeq(d)
  BY <1>6, RangeSeq
<1>9. Stored(d)
  BY <1>2, <1>4, <1>6, <1>7, <1>8 DEF Stored
<1>10. QED
  BY <1>1, <1>2, <1>4, <1>6, <1>7, <1>9

LEMMA ThoughtStored ==
  ASSUME NEW c, Stored(c), NEW i \in DOMAIN c, NEW t, c[i].type # "text"
  PROVE  TextsIn(Added(c, i, t)) = TextsIn(c)
<1>. DEFINE d == Added(c, i, t)
<1>1. DOMAIN d = DOMAIN c /\ \A k \in DOMAIN c : d[k].type = c[k].type /\ (k # i => d[k] = c[k])
  BY AddedShape
<1>. HIDE DEF d
<1>2. QED
  BY <1>1 DEF TextsIn, d

LEMMA TextStored ==
  ASSUME NEW c, Stored(c), NEW i \in DOMAIN c, NEW t, c[i].type = "text",
         \A k \in DOMAIN c : k > i => c[k].type # "text"
  PROVE  FlattenSeq(TextsIn(Added(c, i, t))) = Append(FlattenSeq(TextsIn(c)), t)
<1>. DEFINE d == Added(c, i, t)
<1>1. /\ Stored(d) /\ DOMAIN d = DOMAIN c /\ Len(d) = Len(c)
      /\ \A k \in DOMAIN c : d[k].type = c[k].type /\ (k # i => d[k] = c[k])
      /\ d[i].data = Append(c[i].data, t)
  BY AddedShape
<1>. HIDE DEF d
<1>2. Len(c) \in Nat /\ DOMAIN c = 1..Len(c)
  BY SeqShape DEF Stored
<1>3. PICK S : {t} \subseteq S /\ TextsIn(c) \in Seq(Seq(S)) /\ Len(TextsIn(c)) = Len(c)
  BY ZenonT(60), TextsCovered
<1>4. PICK S2 : S \subseteq S2 /\ TextsIn(d) \in Seq(Seq(S2)) /\ Len(TextsIn(d)) = Len(c)
  BY <1>1, TextsCovered
<1>5. TextsIn(c) \in Seq(Seq(S2)) /\ t \in S2
  <2>1. Seq(S) \subseteq Seq(S2)
    BY <1>4, SeqMonotonic
  <2>2. QED
    BY <1>3, <1>4, <2>1, SeqMonotonic
<1>6. Into(TextsIn(c), TextsIn(d), i, t)
  <2>1. TextsIn(d)[i] = Append(TextsIn(c)[i], t)
    BY <1>1 DEF TextsIn
  <2>2. ASSUME NEW k \in 1..Len(TextsIn(c))
        PROVE  (k # i => TextsIn(d)[k] = TextsIn(c)[k]) /\ (k > i => TextsIn(c)[k] = <<>>)
    <3>1. k \in DOMAIN c
      BY <1>2, <1>3
    <3>2. QED
      BY <1>1, <3>1 DEF TextsIn
  <2>3. QED
    BY <1>3, <1>4, <2>1, <2>2 DEF Into
<1>7. QED
  BY <1>2, <1>3, <1>4, <1>5, <1>6, FlatInto DEF d

\* The calls of p, and the entries they become.
Named(p) == [k \in 1..Len(p) |-> p[k].tool]
Entries(p) == [k \in 1..Len(p) |-> [type |-> "tool_use", data |-> <<p[k].tool>>]]

LEMMA FlatCalls ==
  ASSUME NEW S, NEW s \in Seq(Seq(S)), NEW m \in Nat, NEW p, Len(p) \in Nat, Len(s) = m + Len(p),
         \A k \in 1..(m + Len(p)) : s[k] = IF k <= m THEN <<>> ELSE <<p[k - m].tool>>
  PROVE  FlattenSeq(s) = Named(p)
<1>. DEFINE t == [k \in 1..Len(s) |-> p[k - m].tool]
<1>1. Singles(s, m, t)
  BY DEF Singles
<1>2. Len(s) - m = Len(p) /\ \A k \in 1..Len(p) : t[k + m] = p[k].tool
  OBVIOUS
<1>3. m <= Len(s)
  OBVIOUS
<1>. HIDE DEF t
<1>4. DOMAIN FlattenSeq(s) = 1..Len(p) /\ \A k \in 1..Len(p) : FlattenSeq(s)[k] = t[k + m]
  BY <1>1, <1>2, <1>3, FlatSingles
<1>5. FlattenSeq(s) = [k \in DOMAIN FlattenSeq(s) |-> FlattenSeq(s)[k]]
  BY <1>1, <1>3, FlatSingles
<1>6. QED
  BY <1>2, <1>4, <1>5 DEF Named

LEMMA ToolsStored ==
  ASSUME NEW c, Stored(c), NEW p, IsSeq(p)
  PROVE  LET d == c \o Entries(p)
         IN FlattenSeq(TextsIn(d)) = FlattenSeq(TextsIn(c)) /\ FlattenSeq(ToolsIn(d)) = Named(p)
<1>. DEFINE q == Entries(p)
            d == c \o q
            T == Range(c) \cup {q[k] : k \in 1..Len(p)}
            W == {p[k].tool : k \in 1..Len(p)}
<1>1. Len(c) \in Nat /\ DOMAIN c = 1..Len(c) /\ Len(p) \in Nat
  BY SeqShape DEF Stored
<1>2. \A k \in 1..Len(p) : q[k].type = "tool_use" /\ q[k].data = <<p[k].tool>> /\ p[k].tool \in W
  BY DEF Entries
<1>3. c \in Seq(T)
  <2>1. \A k \in DOMAIN c : c[k] \in T
    BY DEF Range
  <2>2. IsSeq(c)
    BY DEF Stored
  <2>. HIDE DEF T
  <2>3. QED
    BY <2>1, <2>2, SeqCovered
<1>4. q \in Seq(T) /\ Len(q) = Len(p)
  <2>1. \A k \in 1..Len(p) : q[k] \in T
    OBVIOUS
  <2>2. q = [k \in 1..Len(p) |-> q[k]]
    BY DEF Entries
  <2>. HIDE DEF T, q
  <2>3. q \in [1..Len(p) -> T]
    BY <2>1, <2>2
  <2>4. QED
    BY <1>1, <2>3, SeqDef
<1>. HIDE DEF T, q
<1>5. /\ d \in Seq(T) /\ Len(d) = Len(c) + Len(p)
      /\ \A k \in 1..(Len(c) + Len(p)) : d[k] = IF k <= Len(c) THEN c[k] ELSE q[k - Len(c)]
  <2>1. /\ d \in Seq(T) /\ Len(d) = Len(c) + Len(q)
        /\ \A k \in 1..(Len(c) + Len(q)) : d[k] = IF k <= Len(c) THEN c[k] ELSE q[k - Len(c)]
    BY <1>3, <1>4, ConcatProperties, Zenon
  <2>2. QED
    BY <1>4, <2>1
<1>6. DOMAIN d = 1..(Len(c) + Len(p)) /\ Len(c) + Len(p) \in Nat
  BY <1>1, <1>5, LenProperties
<1>. HIDE DEF d
<1>7. PICK S : W \subseteq S /\ TextsIn(c) \in Seq(Seq(S)) /\ Len(TextsIn(c)) = Len(c)
  BY TextsCovered
<1>8. ASSUME NEW k \in 1..(Len(c) + Len(p))
      PROVE  /\ TextsIn(d)[k] = IF k <= Len(c) THEN TextsIn(c)[k] ELSE <<>>
             /\ ToolsIn(d)[k] = IF k <= Len(c) THEN <<>> ELSE <<p[k - Len(c)].tool>>
  <2>1. /\ TextsIn(d)[k] = IF d[k].type = "text" THEN d[k].data ELSE <<>>
        /\ ToolsIn(d)[k] = IF d[k].type = "tool_use" THEN d[k].data ELSE <<>>
    BY <1>6 DEF TextsIn, ToolsIn
  <2>2. CASE k <= Len(c)
    <3>1. k \in DOMAIN c /\ d[k] = c[k]
      BY <1>1, <1>5, <2>2
    <3>2. c[k].type \in {"text", "thinking"}
      BY <3>1 DEF Stored, IsEntry
    <3>3. TextsIn(c)[k] = IF c[k].type = "text" THEN c[k].data ELSE <<>>
      BY <3>1 DEF TextsIn
    <3>4. QED
      BY <2>1, <2>2, <3>1, <3>2, <3>3
  <2>3. CASE ~(k <= Len(c))
    <3>1. k - Len(c) \in 1..Len(p) /\ d[k] = q[k - Len(c)]
      BY <1>1, <1>5, <2>3
    <3>2. d[k].type = "tool_use" /\ d[k].data = <<p[k - Len(c)].tool>>
      BY <1>2, <3>1
    <3>3. QED
      BY <2>1, <2>3, <3>2
  <2>4. QED
    BY <2>2, <2>3
<1>9. TextsIn(d) \in Seq(Seq(S)) /\ Len(TextsIn(d)) = Len(c) + Len(p)
  <2>1. ASSUME NEW k \in 1..(Len(c) + Len(p)) PROVE TextsIn(d)[k] \in Seq(S)
    <3>1. CASE k <= Len(c)
      <4>1. k \in 1..Len(TextsIn(c))
        BY <1>1, <1>7, <3>1
      <4>2. TextsIn(c)[k] \in Seq(S)
        BY <1>7, <4>1, ElementOfSeq
      <4>3. QED
        BY <1>8, <3>1, <4>2
    <3>2. CASE ~(k <= Len(c))
      <4>1. <<>> \in Seq(S)
        BY EmptySeq
      <4>2. QED
        BY <1>8, <3>2, <4>1
    <3>3. QED
      BY <3>1, <3>2
  <2>2. TextsIn(d) = [k \in 1..(Len(c) + Len(p)) |-> TextsIn(d)[k]]
    BY <1>6 DEF TextsIn
  <2>3. TextsIn(d) \in [1..(Len(c) + Len(p)) -> Seq(S)]
    BY <2>1, <2>2
  <2>4. TextsIn(d) \in Seq(Seq(S)) /\ DOMAIN TextsIn(d) = 1..(Len(c) + Len(p))
    BY <1>6, <2>3, SeqDef
  <2>5. QED
    BY <1>6, <2>4
<1>10. FlattenSeq(TextsIn(d)) = FlattenSeq(TextsIn(c))
  <2>1. Len(TextsIn(c)) <= Len(TextsIn(d))
    BY <1>1, <1>7, <1>9
  <2>2. \A k \in 1..Len(TextsIn(d)) : TextsIn(d)[k] = IF k <= Len(TextsIn(c)) THEN TextsIn(c)[k] ELSE <<>>
    BY <1>7, <1>8, <1>9
  <2>3. QED
    BY <1>7, <1>9, <2>1, <2>2, FlatQuiet
<1>. HIDE DEF W
<1>11. FlattenSeq(ToolsIn(d)) = Named(p)
  <2>. DEFINE s == ToolsIn(d)
  <2>1. ASSUME NEW k \in 1..(Len(c) + Len(p)) PROVE s[k] \in Seq(W) /\ s[k] = IF k <= Len(c) THEN <<>> ELSE <<p[k - Len(c)].tool>>
    <3>1. CASE k <= Len(c)
      <4>1. s[k] = <<>>
        BY <1>8, <3>1
      <4>2. QED
        BY <3>1, <4>1
    <3>2. CASE ~(k <= Len(c))
      <4>1. s[k] = <<p[k - Len(c)].tool>>
        BY <1>8, <3>2
      <4>2. k - Len(c) \in 1..Len(p)
        BY <1>1, <3>2
      <4>3. p[k - Len(c)].tool \in W
        BY <1>2, <4>2
      <4>4. QED
        BY <3>2, <4>1, <4>3
    <3>3. QED
      BY <3>1, <3>2
  <2>2. s = [k \in 1..(Len(c) + Len(p)) |-> s[k]]
    BY <1>6 DEF ToolsIn
  <2>. HIDE DEF s
  <2>3. s \in [1..(Len(c) + Len(p)) -> Seq(W)]
    BY <2>1, <2>2
  <2>4. s \in Seq(Seq(W)) /\ DOMAIN s = 1..(Len(c) + Len(p))
    BY <1>6, <2>3, SeqDef
  <2>5. Len(s) = Len(c) + Len(p)
    BY <1>6, <2>4
  <2>6. FlattenSeq(s) = Named(p)
    BY <1>1, <2>1, <2>4, <2>5, FlatCalls
  <2>7. QED
    BY <2>6 DEF s
<1>12. QED
  BY <1>10, <1>11 DEF d, q

-----------------------------------------------------------------------------
(* What a handler has answered so far, and all that decides how it goes on. *)

\* Either handler.
Whole(h) ==
  /\ h = [f \in Fields |-> h[f]] /\ h.view = [f \in ViewFields |-> h.view[f]]
  /\ h.stream \in BOOLEAN /\ h.hasReturn \in BOOLEAN

\* The client of a stream is there, and has read it without an error.
Heard(h) == h.stream => h.cut # 0 /\ h.view.ok = TRUE

\* The texts and the tools that the client has or will be given, once the response returns.
Says(h) == IF h.stream THEN h.view.text ELSE FlattenSeq(TextsIn(h.content))
Calls(h) ==
  IF h.stream THEN h.view.tools
  ELSE IF h.hasReturn THEN FlattenSeq(ToolsIn(h.content)) ELSE Named(h.pending)

Ledger(h) ==
  [says |-> Says(h), calls |-> Calls(h), intros |-> h.intros, last |-> h.last, dedup |-> h.dedup, seed |-> h.seed,
   dropped |-> h.dropped, handled |-> h.handled, disallow |-> h.disallow, suppress |-> h.suppress,
   earlier |-> h.earlier, inputs |-> h.inputs, directTools |-> h.directTools, skipped |-> h.skipped,
   chunks |-> h.chunks, hasReturn |-> h.hasReturn, over |-> h.over]

\* Only the body postpones calls, and a call that was counted has been given.
Streamed(h) == h.pending = <<>> /\ IsSeq(h.view.tools) /\ (HasToolCalls(h) => h.view.tools # <<>>)

\* The builder of a text is that of the last text.
Kept(h) ==
  /\ Stored(h.content) /\ IsSeq(h.pending) /\ h.emitted = {} /\ h.chunks = FALSE
  /\ h.count > 0 => h.pending # <<>>
  /\ h.activeType \in {"none", "text", "thinking"}
  /\ h.block = [thinking |-> h.block.thinking, text |-> h.block.text]
  /\ h.text >= 0 \/ h.activeType = "text" => h.block.text # 0
  /\ h.block.text # 0 => /\ h.block.text \in DOMAIN h.content /\ h.content[h.block.text].type = "text"
                         /\ \A k \in DOMAIN h.content : k > h.block.text => h.content[k].type # "text"
  /\ h.block.thinking # 0 => h.block.thinking \in DOMAIN h.content /\ h.content[h.block.thinking].type = "thinking"

\* In an attempt, before the response returns.
Ready(h) ==
  /\ h.hasReturn = FALSE /\ h.emitted \subseteq h.handled
  /\ IF h.stream THEN Streamed(h) ELSE Kept(h)

\* A client that has been given a tool of this attempt.
Marked(h) == h.stream /\ h.view.tools # <<>> => h.emitted # {}

\* From h to g, after which the ledger is x.
Acts(h, g, x) ==
  /\ Whole(g) /\ g.stream = h.stream
  /\ Heard(g) => Heard(h) /\ (Ready(h) => Ready(g) /\ Ledger(g) = x /\ (Marked(h) => Marked(g)))

LEMMA ActsOn ==
  ASSUME NEW f, NEW g, NEW h, NEW x, NEW y, NEW z, Acts(f, g, x), Acts(g, h, y),
         Heard(g) /\ Ready(g) /\ Ledger(g) = x => y = z
  PROVE  Acts(f, h, z)
BY DEF Acts

\* The second step leaves the ledger alone, and the first.
LEMMA ActsCalm == ASSUME NEW f, NEW g, NEW h, NEW x, Acts(f, g, x), Acts(g, h, Ledger(g)) PROVE Acts(f, h, x)
BY DEF Acts

LEMMA ActsNot == ASSUME NEW h, Whole(h) PROVE Acts(h, h, Ledger(h))
BY DEF Acts

\* The fields of the ledger, of the content and of the counts.
SameBooks(h, g) ==
  /\ g.intros = h.intros /\ g.last = h.last /\ g.dedup = h.dedup /\ g.seed = h.seed /\ g.dropped = h.dropped
  /\ g.handled = h.handled /\ g.disallow = h.disallow /\ g.suppress = h.suppress /\ g.earlier = h.earlier
  /\ g.inputs = h.inputs /\ g.directTools = h.directTools /\ g.skipped = h.skipped /\ g.chunks = h.chunks
  /\ g.over = h.over
SameStore(h, g) ==
  /\ g.content = h.content /\ g.block = h.block /\ g.text = h.text /\ g.activeType = h.activeType
SameCounts(h, g) == g.pending = h.pending /\ g.emitted = h.emitted /\ g.count = h.count

\* Only what neither ledger nor content depends on.
Alike(h, g) ==
  /\ Whole(g) /\ g.stream = h.stream /\ g.hasReturn = h.hasReturn /\ g.view = h.view /\ g.cut = h.cut
  /\ SameBooks(h, g) /\ SameStore(h, g) /\ SameCounts(h, g)

LEMMA AlikeActs == ASSUME NEW h, NEW g, Alike(h, g) PROVE Acts(h, g, Ledger(h))
<1>1. Ledger(g) = Ledger(h)
  BY DEF Alike, SameBooks, SameStore, SameCounts, Ledger, Says, Calls
<1>2. Ready(h) => Ready(g)
  BY DEF Alike, SameBooks, SameStore, SameCounts, Ready, Streamed, Kept, HasToolCalls
<1>3. Heard(g) => Heard(h)
  BY DEF Alike, Heard
<1>4. Marked(h) => Marked(g)
  BY DEF Alike, SameCounts, Marked
<1>5. QED
  BY <1>1, <1>2, <1>3, <1>4 DEF Acts, Alike

-----------------------------------------------------------------------------
(* Frames, and what they say. *)

SaysAfter(s, f) == IF f.ev = "content_block_delta" /\ f.type = "text" THEN Append(s, f.data) ELSE s
CallsAfter(s, f) == IF f.ev = "content_block_start" /\ f.type = "tool_use" THEN Append(s, f.data) ELSE s

\* A reader that is content has read the frame.
Read(v, w, f) ==
  /\ w = [x \in ViewFields |-> w[x]]
  /\ w.ok = TRUE => v.ok = TRUE /\ w.text = SaysAfter(v.text, f) /\ w.tools = CallsAfter(v.tools, f)
                    /\ w.reason = IF f.ev = "message_delta" THEN f.type ELSE v.reason

LEMMA ReceiveReads == ASSUME NEW v, IsView(v), NEW f PROVE Read(v, Receive(v, f), f)
<1>. USE DEF IsView, ViewFields
<1>0. Receive(v, f) = [x \in ViewFields |-> Receive(v, f)[x]]
  BY ReceiveView
<1>1. CASE f.ev = "content_block_start"
  BY <1>0, <1>1 DEF Receive, Read, SaysAfter, CallsAfter
<1>2. CASE f.ev = "content_block_delta"
  BY <1>0, <1>2 DEF Receive, Read, SaysAfter, CallsAfter
<1>3. CASE f.ev = "content_block_stop"
  BY <1>0, <1>3 DEF Receive, Read, SaysAfter, CallsAfter
<1>4. CASE f.ev = "message_delta"
  BY <1>0, <1>4 DEF Receive, Read, SaysAfter, CallsAfter
<1>5. CASE f.ev = "message_stop"
  BY <1>0, <1>5 DEF Receive, Read, SaysAfter, CallsAfter
<1>6. CASE f.ev \notin {"content_block_start", "content_block_delta", "content_block_stop",
                        "message_delta", "message_stop"}
  BY <1>0, <1>6 DEF Receive, Read, SaysAfter, CallsAfter
<1>7. QED
  BY <1>1, <1>2, <1>3, <1>4, <1>5, <1>6

LEMMA ChunkReads ==
  ASSUME NEW v, IsView(v), NEW f, HasOpenAIChunk(f) \/ f.ev = "message_stop"
  PROVE  Read(v, ReceiveChunk(v, f), f)
<1>. USE DEF IsView, ViewFields
<1>1. CASE f.ev = "content_block_start"
  BY <1>1 DEF ReceiveChunk, HasOpenAIChunk, Read, SaysAfter, CallsAfter
<1>2. CASE f.ev = "content_block_delta"
  BY <1>2 DEF ReceiveChunk, Read, SaysAfter, CallsAfter
<1>3. CASE f.ev = "message_delta"
  BY <1>3 DEF ReceiveChunk, Read, SaysAfter, CallsAfter
<1>4. CASE f.ev = "message_stop"
  BY <1>4 DEF ReceiveChunk, Read, SaysAfter, CallsAfter
<1>5. QED
  BY <1>1, <1>2, <1>3, <1>4 DEF HasOpenAIChunk

\* g is h after a frame: a client that is there has read it.
Tells(h, g, f) ==
  /\ Whole(g) /\ g.stream = h.stream /\ SameBooks(h, g) /\ SameStore(h, g) /\ SameCounts(h, g)
  /\ ~h.stream => g.view = h.view /\ g.hasReturn = h.hasReturn /\ g.stop = h.stop
  /\ h.stream /\ Heard(g) =>
       /\ Heard(h) /\ g.hasReturn = h.hasReturn
       /\ g.view.text = SaysAfter(h.view.text, f) /\ g.view.tools = CallsAfter(h.view.tools, f)
       /\ g.view.reason = IF f.ev = "message_delta" THEN f.type ELSE h.view.reason

LEMMA SendTells ==
  ASSUME NEW h, Whole(h), h.stream, NEW f, h.format = "openai" => HasOpenAIChunk(f) \/ f.ev = "message_stop"
  PROVE  Tells(h, Send(h, f), f)
<1>1. CASE h.cut = 0
  <2>. DEFINE g == Send(h, f)
  <2>1. /\ Whole(g) /\ g.stream = h.stream /\ SameBooks(h, g) /\ SameStore(h, g) /\ SameCounts(h, g)
        /\ g.cut = 0
    BY ZenonT(60), <1>1 DEF Send, MarkWriteError, Whole, Fields, SameBooks, SameStore, SameCounts
  <2>. HIDE DEF g
  <2>2. QED
    BY <2>1 DEF Tells, Heard, g
<1>2. CASE h.cut # 0
  <2>. DEFINE v == IF h.format = "openai" THEN ReceiveChunk(h.view, f) ELSE Receive(h.view, f)
              c == IF h.cut = Never THEN Never ELSE h.cut - 1
  <2>1. Read(h.view, v, f)
    BY ReceiveReads, ChunkReads DEF Whole, IsView
  <2>2. Send(h, f) = [h EXCEPT !.cut = c, !.view = v]
    BY <1>2 DEF Send, Whole, Fields
  <2>. HIDE DEF v, c
  <2>. DEFINE g == [h EXCEPT !.cut = c, !.view = v]
  <2>3. /\ Whole(g) /\ g.stream = h.stream /\ SameBooks(h, g) /\ SameStore(h, g) /\ SameCounts(h, g)
        /\ g.view = v /\ g.hasReturn = h.hasReturn
    BY ZenonT(60), <2>1 DEF Whole, Fields, SameBooks, SameStore, SameCounts, Read
  <2>. HIDE DEF g
  <2>4. Tells(h, g, f)
    BY <1>2, <2>1, <2>3 DEF Tells, Heard, Read
  <2>5. QED
    BY <2>2, <2>4 DEF g
<1>3. QED
  BY <1>1, <1>2

\* A frame that no OpenAI client is sent says nothing.
LEMMA UnsentTells ==
  ASSUME NEW h, Whole(h), NEW f,
         ~h.stream \/ (~HasOpenAIChunk(f) /\ f.ev # "message_delta")
  PROVE  Tells(h, h, f)
BY DEF Tells, SameBooks, SameStore, SameCounts, HasOpenAIChunk, SaysAfter, CallsAfter

LEMMA FinalTells == ASSUME NEW h, Whole(h), NEW f PROVE Tells(h, WriteFinal(h, f), f)
<1>1. CASE ~h.stream \/ (h.format = "openai" /\ ~HasOpenAIChunk(f) /\ f.ev # "message_stop")
  <2>1. WriteFinal(h, f) = h
    BY <1>1 DEF WriteFinal
  <2>2. f.ev = "message_delta" => HasOpenAIChunk(f)
    BY DEF HasOpenAIChunk
  <2>3. QED
    BY <1>1, <2>1, <2>2, UnsentTells
<1>2. CASE ~(~h.stream \/ (h.format = "openai" /\ ~HasOpenAIChunk(f) /\ f.ev # "message_stop"))
  <2>1. WriteFinal(h, f) = Send(h, f)
    BY <1>2 DEF WriteFinal
  <2>2. QED
    BY <1>2, <2>1, SendTells DEF Whole
<1>3. QED
  BY <1>1, <1>2

LEMMA WriteTells == ASSUME NEW h, Whole(h), NEW f, ~h.hasReturn PROVE Tells(h, Write(h, f), f)
<1>1. CASE ~h.stream \/ (h.format = "openai" /\ ~HasOpenAIChunk(f))
  <2>1. Write(h, f) = h
    BY <1>1 DEF Write
  <2>2. f.ev = "message_delta" => HasOpenAIChunk(f)
    BY DEF HasOpenAIChunk
  <2>3. QED
    BY <1>1, <2>1, <2>2, UnsentTells
<1>2. CASE ~(~h.stream \/ (h.format = "openai" /\ ~HasOpenAIChunk(f)))
  <2>1. Write(h, f) = Send(h, f)
    BY <1>2 DEF Write
  <2>2. QED
    BY <1>2, <2>1, SendTells DEF Whole
<1>3. QED
  BY <1>1, <1>2

LEMMA WriteWhole ==
  ASSUME NEW h, Whole(h), NEW f
  PROVE  LET g == Write(h, f) IN Whole(g) /\ g.stream = h.stream /\ (Heard(g) => Heard(h))
<1>1. CASE h.hasReturn
  BY <1>1 DEF Write
<1>2. CASE ~h.hasReturn
  BY <1>2, WriteTells DEF Tells, Heard
<1>3. QED
  BY <1>1, <1>2

\* A frame acts on the ledger of a stream as it says, and not on that of the body.
LEMMA WriteActs ==
  ASSUME NEW h, Whole(h), NEW f, f.ev # "content_block_start" \/ f.type # "tool_use"
  PROVE  Acts(h, Write(h, f), IF h.stream THEN [Ledger(h) EXCEPT !.says = SaysAfter(@, f)] ELSE Ledger(h))
<1>. DEFINE g == Write(h, f)
            x == IF h.stream THEN [Ledger(h) EXCEPT !.says = SaysAfter(@, f)] ELSE Ledger(h)
<1>1. Whole(g) /\ g.stream = h.stream /\ (Heard(g) => Heard(h))
  BY WriteWhole
<1>2. ASSUME Heard(g), Ready(h)
      PROVE  Ready(g) /\ Ledger(g) = x /\ (Marked(h) => Marked(g))
  <2>1. Tells(h, g, f)
    BY <1>2, WriteTells DEF Ready
  <2>2. CallsAfter(h.view.tools, f) = h.view.tools
    BY DEF CallsAfter
  <2>. HIDE DEF g
  <2>3. CASE h.stream
    <3>1. /\ SameBooks(h, g) /\ SameCounts(h, g) /\ g.hasReturn = h.hasReturn /\ g.stream
          /\ g.view.text = SaysAfter(h.view.text, f) /\ g.view.tools = h.view.tools
      BY <1>2, <2>1, <2>2, <2>3 DEF Tells
    <3>2. Ready(g) /\ (Marked(h) => Marked(g))
      BY <1>2, <2>3, <3>1 DEF Ready, Streamed, HasToolCalls, SameCounts, SameBooks, Marked
    <3>3. Ledger(g) = [Ledger(h) EXCEPT !.says = SaysAfter(@, f)]
      BY <2>3, <3>1 DEF SameBooks, Ledger, Says, Calls
    <3>4. QED
      BY <2>3, <3>2, <3>3
  <2>4. CASE ~h.stream
    <3>1. /\ SameBooks(h, g) /\ SameCounts(h, g) /\ SameStore(h, g) /\ g.hasReturn = h.hasReturn /\ ~g.stream
      BY <1>2, <2>1, <2>4 DEF Tells
    <3>2. Ready(g)
      BY <1>2, <2>4, <3>1 DEF Ready, Kept, SameCounts, SameBooks, SameStore
    <3>3. Ledger(g) = Ledger(h)
      BY <2>4, <3>1 DEF SameBooks, SameStore, SameCounts, Ledger, Says, Calls
    <3>4. QED
      BY <2>4, <3>1, <3>2, <3>3 DEF Marked
  <2>5. QED
    BY <2>3, <2>4
<1>. HIDE DEF g, x
<1>3. QED
  BY <1>1, <1>2 DEF Acts, g, x

LEMMA QuietActs ==
  ASSUME NEW h, Whole(h), NEW f, f.ev \notin {"content_block_start", "content_block_delta"} \/ f.type = "thinking"
                                 \/ (f.ev = "content_block_start" /\ f.type # "tool_use")
  PROVE  Acts(h, Write(h, f), Ledger(h))
<1>1. Acts(h, Write(h, f), IF h.stream THEN [Ledger(h) EXCEPT !.says = SaysAfter(@, f)] ELSE Ledger(h))
  BY WriteActs
<1>2. SaysAfter(Says(h), f) = Says(h)
  BY DEF SaysAfter
<1>3. [Ledger(h) EXCEPT !.says = SaysAfter(@, f)] = Ledger(h)
  BY <1>2 DEF Ledger
<1>4. QED
  BY <1>1, <1>3

-----------------------------------------------------------------------------
(* Blocks keep what has been said. *)

LEMMA FrameKinds ==
  ASSUME NEW i, NEW type, NEW t
  PROVE  /\ BlockStop(i).ev = "content_block_stop" /\ Notice.ev = "notice"
         /\ BlockStart(i, type, t).ev = "content_block_start" /\ BlockStart(i, type, t).type = type
         /\ BlockStart(i, type, t).data = t
         /\ BlockDelta(i, type, t).ev = "content_block_delta" /\ BlockDelta(i, type, t).type = type
         /\ BlockDelta(i, type, t).data = t
         /\ MessageDelta(type).ev = "message_delta" /\ MessageDelta(type).type = type
         /\ MessageStop.ev = "message_stop"
BY DEF BlockStop, BlockStart, BlockDelta, MessageDelta, MessageStop, Notice, Frame

\* A step on what is stored only.
LEMMA StoreActs ==
  ASSUME NEW h, NEW g, Whole(g), g.stream = h.stream, g.hasReturn = h.hasReturn, g.view = h.view, g.cut = h.cut,
         SameBooks(h, g), SameCounts(h, g), NEW x,
         h.stream => x = Ledger(h),
         ~h.stream /\ Ready(h) => Kept(g) /\ x = [Ledger(h) EXCEPT !.says = FlattenSeq(TextsIn(g.content))]
  PROVE  Acts(h, g, x)
<1>1. CASE h.stream
  <2>1. Ledger(g) = Ledger(h)
    BY <1>1 DEF SameBooks, Ledger, Says, Calls
  <2>2. Ready(h) => Ready(g)
    BY <1>1 DEF SameBooks, SameCounts, Ready, Streamed, HasToolCalls
  <2>3. QED
    BY <1>1, <2>1, <2>2 DEF Acts, Heard, Marked, SameCounts
<1>2. CASE ~h.stream
  <2>1. ASSUME Ready(h) PROVE Ready(g) /\ Ledger(g) = x
    <3>1. Ready(g)
      BY <1>2, <2>1 DEF SameBooks, SameCounts, Ready
    <3>2. Ledger(g) = [Ledger(h) EXCEPT !.says = FlattenSeq(TextsIn(g.content))]
      BY <1>2, <2>1 DEF SameBooks, SameCounts, Ledger, Says, Calls, Ready
    <3>3. QED
      BY <1>2, <2>1, <3>1, <3>2
  <2>2. QED
    BY <1>2, <2>1 DEF Acts, Heard, Marked
<1>3. QED
  BY <1>1, <1>2

LEMMA SameSays ==
  ASSUME NEW h, ~h.stream, NEW c, FlattenSeq(TextsIn(c)) = FlattenSeq(TextsIn(h.content))
  PROVE  Ledger(h) = [Ledger(h) EXCEPT !.says = FlattenSeq(TextsIn(c))]
BY DEF Ledger, Says

LEMMA PopActs == ASSUME NEW h, Whole(h) PROVE Acts(h, PopActive(h), Ledger(h))
<1>. DEFINE g == PopActive(h)
<1>1. /\ Whole(g) /\ g.stream = h.stream /\ g.hasReturn = h.hasReturn /\ g.view = h.view /\ g.cut = h.cut
      /\ SameBooks(h, g) /\ SameCounts(h, g)
  BY ZenonT(60) DEF PopActive, Whole, Fields, SameBooks, SameCounts
<1>2. /\ g.content = h.content /\ g.activeType = "none"
      /\ g.text = IF h.activeType = "text" THEN -1 ELSE h.text
      /\ g.block = [h.block EXCEPT ![h.activeType] = 0]
  BY DEF PopActive, Whole, Fields
<1>. HIDE DEF g
<1>3. ASSUME ~h.stream, Ready(h) PROVE Kept(g)
  <2>1. Kept(h)
    BY <1>3 DEF Ready
  <2>2. /\ g.block = [thinking |-> g.block.thinking, text |-> g.block.text]
        /\ g.block.thinking \in {0, h.block.thinking}
        /\ g.block.text = IF h.activeType = "text" THEN 0 ELSE h.block.text
    BY <1>2, <2>1 DEF Kept
  <2>3. g.text >= 0 => g.block.text # 0
    BY <1>2, <2>1, <2>2 DEF Kept
  <2>4. QED
    BY <1>1, <1>2, <2>1, <2>2, <2>3 DEF Kept, SameCounts, SameBooks
<1>4. QED
  BY <1>1, <1>2, <1>3, SameSays, StoreActs DEF g

LEMMA CloseActs == ASSUME NEW h, Whole(h) PROVE Acts(h, CloseActiveBlock(h), Ledger(h))
<1>1. CASE h.activeType = "none"
  BY <1>1, ActsNot DEF CloseActiveBlock
<1>2. CASE h.activeType # "none"
  <2>. DEFINE k == PopActive(h)
  <2>1. Acts(h, k, Ledger(h))
    BY PopActs
  <2>. HIDE DEF k
  <2>2. Acts(k, Write(k, BlockStop(ActiveIndex(h))), Ledger(k))
    BY <2>1, FrameKinds, QuietActs DEF Acts
  <2>3. CloseActiveBlock(h) = Write(k, BlockStop(ActiveIndex(h)))
    BY <1>2 DEF CloseActiveBlock, k
  <2>4. QED
    BY <2>1, <2>2, <2>3, ActsCalm
<1>3. QED
  BY <1>1, <1>2

\* There is a text to add to, in the body.
Textual(h) == ~h.stream /\ Ready(h) => h.block.text # 0

LEMMA TextualOn ==
  ASSUME NEW h, NEW g, Whole(h), Whole(g), g.stream = h.stream, g.hasReturn = h.hasReturn, SameStore(h, g), SameCounts(h, g),
         SameBooks(h, g), Textual(h)
  PROVE  Textual(g)
BY DEF Textual, SameStore, SameCounts, SameBooks, Ready, Kept, HasToolCalls, Whole

LEMMA OpenActs ==
  ASSUME NEW h, Whole(h), NEW type \in {"text", "thinking"}
  PROVE  Acts(h, OpenBlock(h, type), Ledger(h)) /\ (type = "text" /\ Ready(h) => Textual(OpenBlock(h, type)))
<1>. DEFINE i == h.blockIndex + 1
            e == [type |-> type, data |-> <<>>]
            g == [h EXCEPT !.blockIndex = i, !.activeType = type, ![type] = i, !.content = Append(@, e),
                           !.block = [@ EXCEPT ![type] = Len(h.content) + 1], !.sig = @ /\ type # "thinking"]
<1>1. OpenBlock(h, type) = Write(g, BlockStart(i, type, NoText))
  BY DEF OpenBlock
<1>2. /\ Whole(g) /\ g.stream = h.stream /\ g.hasReturn = h.hasReturn /\ g.view = h.view /\ g.cut = h.cut
      /\ SameBooks(h, g) /\ SameCounts(h, g)
  <2>1. CASE type = "text"
    BY ZenonT(60), <2>1 DEF Whole, Fields, SameBooks, SameCounts
  <2>2. CASE type = "thinking"
    BY ZenonT(60), <2>2 DEF Whole, Fields, SameBooks, SameCounts
  <2>3. QED
    BY <2>1, <2>2
<1>3. /\ g.content = Append(h.content, e) /\ g.activeType = type
      /\ g.block = [h.block EXCEPT ![type] = Len(h.content) + 1]
      /\ type = "thinking" => g.text = h.text
  BY DEF Whole, Fields
<1>. HIDE DEF g, i
<1>4. ASSUME ~h.stream, Ready(h)
      PROVE  /\ Kept(g) /\ FlattenSeq(TextsIn(g.content)) = FlattenSeq(TextsIn(h.content))
             /\ type = "text" => g.block.text # 0
  <2>1. Kept(h)
    BY <1>4 DEF Ready
  <2>2. /\ Stored(g.content) /\ FlattenSeq(TextsIn(g.content)) = FlattenSeq(TextsIn(h.content))
        /\ Len(h.content) \in Nat /\ DOMAIN h.content = 1..Len(h.content)
        /\ DOMAIN g.content = 1..(Len(h.content) + 1)
        /\ g.content[Len(h.content) + 1].type = type
        /\ \A k \in 1..Len(h.content) : g.content[k] = h.content[k]
    BY <1>3, <2>1, BlockStored DEF Kept
  <2>3. /\ g.block = [thinking |-> g.block.thinking, text |-> g.block.text]
        /\ type = "thinking" => g.block.thinking = Len(h.content) + 1 /\ g.block.text = h.block.text
        /\ type = "text" => g.block.text = Len(h.content) + 1 /\ g.block.thinking = h.block.thinking
    BY <1>3, <2>1 DEF Kept
  <2>4. Len(h.content) + 1 # 0 /\ Len(h.content) + 1 \in DOMAIN g.content
    BY <2>2
  <2>5. g.block.thinking # 0 => g.block.thinking \in DOMAIN g.content /\ g.content[g.block.thinking].type = "thinking"
    <3>1. CASE type = "thinking"
      BY <2>2, <2>3, <2>4, <3>1
    <3>2. CASE type = "text"
      <4>1. ASSUME h.block.thinking # 0
            PROVE  h.block.thinking \in 1..Len(h.content) /\ h.content[h.block.thinking].type = "thinking"
        BY <2>1, <2>2, <4>1 DEF Kept
      <4>2. QED
        BY <2>2, <2>3, <3>2, <4>1
    <3>3. QED
      BY <3>1, <3>2
  <2>6. g.block.text # 0 => /\ g.block.text \in DOMAIN g.content /\ g.content[g.block.text].type = "text"
                            /\ \A k \in DOMAIN g.content : k > g.block.text => g.content[k].type # "text"
    <3>1. CASE type = "text"
      BY <2>2, <2>3, <2>4, <3>1
    <3>2. CASE type = "thinking"
      <4>1. SUFFICES ASSUME h.block.text # 0
                     PROVE  /\ h.block.text \in DOMAIN g.content /\ g.content[h.block.text].type = "text"
                            /\ \A k \in DOMAIN g.content : k > h.block.text => g.content[k].type # "text"
        BY <2>3, <3>2
      <4>2. /\ h.block.text \in 1..Len(h.content) /\ h.content[h.block.text].type = "text"
            /\ \A k \in 1..Len(h.content) : k > h.block.text => h.content[k].type # "text"
        BY <2>1, <2>2, <4>1 DEF Kept
      <4>3. ASSUME NEW k \in DOMAIN g.content, k > h.block.text PROVE g.content[k].type # "text"
        <5>1. k \in 1..Len(h.content) \/ k = Len(h.content) + 1
          BY <2>2
        <5>2. QED
          BY <2>2, <3>2, <4>2, <4>3, <5>1
      <4>4. QED
        BY <2>2, <4>2, <4>3
    <3>3. QED
      BY <3>1, <3>2
  <2>7. g.text >= 0 \/ g.activeType = "text" => g.block.text # 0
    BY <1>3, <2>1, <2>3, <2>4 DEF Kept
  <2>8. QED
    BY <1>2, <1>3, <2>1, <2>2, <2>3, <2>4, <2>5, <2>6, <2>7 DEF Kept, SameCounts, SameBooks
<1>5. Acts(h, g, Ledger(h))
  BY <1>2, <1>4, SameSays, StoreActs
<1>. DEFINE f == BlockStart(i, type, NoText)
            w == Write(g, f)
<1>6. f.ev = "content_block_start" /\ f.type # "tool_use"
  BY FrameKinds
<1>. HIDE DEF f
<1>7. Acts(g, w, Ledger(g))
  BY <1>2, <1>6, QuietActs
<1>8. ASSUME type = "text", Ready(h) PROVE Textual(w)
  <2>1. g.hasReturn = FALSE
    BY <1>2, <1>8 DEF Ready
  <2>2. Tells(g, w, f)
    BY <1>2, <2>1, WriteTells
  <2>3. QED
    BY <1>2, <1>4, <1>8, <2>2 DEF Textual, Tells, SameStore
<1>9. QED
  BY <1>1, <1>5, <1>7, <1>8, ActsCalm DEF f

LEMMA EnsureActs ==
  ASSUME NEW h, Whole(h), NEW type \in {"text", "thinking"}
  PROVE  LET g == EnsureBlock(h, type)
         IN Acts(h, g, Ledger(h)) /\ (type = "text" /\ Heard(g) /\ Ready(h) => Textual(g))
<1>1. CASE (type = "thinking" /\ h.suppress) \/ h.activeType = type
  <2>1. EnsureBlock(h, type) = h
    BY <1>1 DEF EnsureBlock
  <2>2. type = "text" /\ Ready(h) => Textual(h)
    BY <1>1 DEF Textual, Ready, Kept
  <2>3. QED
    BY <2>1, <2>2, ActsNot
<1>2. CASE ~((type = "thinking" /\ h.suppress) \/ h.activeType = type)
  <2>. DEFINE k == CloseActiveBlock(h)
  <2>1. Acts(h, k, Ledger(h))
    BY CloseActs
  <2>2. EnsureBlock(h, type) = OpenBlock(k, type)
    BY <1>2 DEF EnsureBlock
  <2>. HIDE DEF k
  <2>. DEFINE g == OpenBlock(k, type)
  <2>3. Acts(k, g, Ledger(k)) /\ (type = "text" /\ Ready(k) => Textual(g))
    BY <2>1, OpenActs DEF Acts
  <2>. HIDE DEF g
  <2>4. Heard(g) /\ Ready(h) => Ready(k)
    BY <2>1, <2>3 DEF Acts
  <2>5. QED
    BY <2>1, <2>2, <2>3, <2>4, ActsCalm DEF g
<1>3. QED
  BY <1>1, <1>2

Saying(x, t) == [x EXCEPT !.says = Append(@, t)]

\* The builder is that of the body.
LEMMA BuildActs ==
  ASSUME NEW h, Whole(h), NEW type \in {"text", "thinking"}, NEW t, type = "text" => Textual(h)
  PROVE  Acts(h, Build(h, type, t), IF h.stream \/ type = "thinking" THEN Ledger(h) ELSE Saying(Ledger(h), t))
<1>. DEFINE i == h.block[type]
            g == [h EXCEPT !.content = Added(h.content, i, t)]
            x == IF h.stream \/ type = "thinking" THEN Ledger(h) ELSE Saying(Ledger(h), t)
<1>1. Build(h, type, t) = IF i = 0 THEN h ELSE g
  BY DEF Build, Added, Whole, Fields
<1>2. /\ Whole(g) /\ g.stream = h.stream /\ g.hasReturn = h.hasReturn /\ g.view = h.view /\ g.cut = h.cut
      /\ SameBooks(h, g) /\ SameCounts(h, g)
      /\ g.content = Added(h.content, i, t) /\ g.block = h.block /\ g.text = h.text /\ g.activeType = h.activeType
  BY DEF Whole, Fields, SameBooks, SameCounts
<1>. HIDE DEF g
<1>3. ASSUME ~h.stream, Ready(h), i # 0 PROVE Kept(g) /\ x = [Ledger(h) EXCEPT !.says = FlattenSeq(TextsIn(g.content))]
  <2>1. Kept(h)
    BY <1>3 DEF Ready
  <2>2. Stored(h.content) /\ i \in DOMAIN h.content /\ h.content[i].type = type
    <3>1. CASE type = "text"
      BY <1>3, <2>1, <3>1 DEF Kept
    <3>2. CASE type = "thinking"
      BY <1>3, <2>1, <3>2 DEF Kept
    <3>3. QED
      BY <3>1, <3>2
  <2>3. /\ Stored(g.content) /\ DOMAIN g.content = DOMAIN h.content
        /\ \A k \in DOMAIN h.content : g.content[k].type = h.content[k].type
    BY <1>2, <2>2, AddedShape
  <2>4. Kept(g)
    BY <1>2, <2>1, <2>3 DEF Kept, SameBooks, SameCounts
  <2>5. CASE type = "text"
    <3>1. \A k \in DOMAIN h.content : k > i => h.content[k].type # "text"
      BY <1>3, <2>1, <2>5 DEF Kept
    <3>2. FlattenSeq(TextsIn(g.content)) = Append(FlattenSeq(TextsIn(h.content)), t)
      BY <1>2, <2>2, <2>5, <3>1, TextStored
    <3>3. x = Saying(Ledger(h), t) /\ Ledger(h).says = FlattenSeq(TextsIn(h.content))
      BY <1>3, <2>5 DEF Ledger, Says
    <3>4. QED
      BY <2>4, <3>2, <3>3 DEF Saying
  <2>6. CASE type = "thinking"
    <3>1. TextsIn(g.content) = TextsIn(h.content)
      BY <1>2, <2>2, <2>6, ThoughtStored
    <3>2. x = Ledger(h)
      BY <2>6
    <3>3. QED
      BY <1>3, <2>4, <3>1, <3>2, SameSays
  <2>7. QED
    BY <2>5, <2>6
<1>4. i # 0 => Acts(h, g, x)
  <2>1. h.stream => x = Ledger(h)
    OBVIOUS
  <2>. HIDE DEF x
  <2>2. QED
    BY <1>2, <1>3, <2>1, StoreActs
<1>5. CASE i = 0
  <2>1. Acts(h, h, Ledger(h))
    BY ActsNot
  <2>2. Ready(h) => x = Ledger(h)
    BY <1>5 DEF Textual
  <2>3. QED
    BY <1>1, <1>5, <2>1, <2>2 DEF Acts
<1>6. QED
  BY <1>1, <1>4, <1>5

\* A delta: the client is sent it, or the body builds it.
LEMMA DeltaActs ==
  ASSUME NEW h, Whole(h), NEW type \in {"text", "thinking"}, NEW t, NEW i, type = "text" => Textual(h)
  PROVE  Acts(h, Write(Build(h, type, t), BlockDelta(i, type, t)),
              IF type = "text" THEN Saying(Ledger(h), t) ELSE Ledger(h))
<1>. DEFINE k == Build(h, type, t)
            f == BlockDelta(i, type, t)
            x == IF h.stream \/ type = "thinking" THEN Ledger(h) ELSE Saying(Ledger(h), t)
            y == IF k.stream THEN [Ledger(k) EXCEPT !.says = SaysAfter(@, f)] ELSE Ledger(k)
            z == IF type = "text" THEN Saying(Ledger(h), t) ELSE Ledger(h)
<1>1. Acts(h, k, x)
  BY BuildActs
<1>. HIDE DEF k
<1>2. f.ev = "content_block_delta" /\ f.type = type /\ f.data = t
  BY FrameKinds
<1>. HIDE DEF f
<1>3. Acts(k, Write(k, f), y)
  BY <1>1, <1>2, WriteActs DEF Acts
<1>4. ASSUME Ledger(k) = x PROVE y = z
  <2>1. k.stream = h.stream
    BY <1>1 DEF Acts
  <2>2. CASE type = "thinking"
    <3>1. SaysAfter(Ledger(k).says, f) = Ledger(k).says
      BY <1>2, <2>2 DEF SaysAfter
    <3>2. [Ledger(k) EXCEPT !.says = SaysAfter(@, f)] = Ledger(k)
      BY <3>1 DEF Ledger
    <3>3. QED
      BY <1>4, <2>2, <3>2
  <2>3. CASE type = "text"
    <3>1. SaysAfter(Ledger(k).says, f) = Append(Ledger(k).says, t)
      BY <1>2, <2>3 DEF SaysAfter
    <3>2. QED
      BY <1>4, <2>1, <2>3, <3>1 DEF Saying
  <2>4. QED
    BY <2>2, <2>3
<1>. HIDE DEF x, y, z
<1>5. Acts(h, Write(k, f), z)
  BY <1>1, <1>3, <1>4, ActsOn
<1>6. QED
  BY <1>5 DEF k, f, z

LEMMA EmitActs ==
  ASSUME NEW h, Whole(h), NEW type \in {"text", "thinking"}, NEW t
  PROVE  Acts(h, EmitDelta(h, type, t), IF type = "text" THEN Saying(Ledger(h), t) ELSE Ledger(h))
<1>. DEFINE k == EnsureBlock(h, type)
            b == IF h[type] >= 0 THEN h ELSE k
            i == b[type]
            g == Write(Build(b, type, t), BlockDelta(i, type, t))
            z == IF type = "text" THEN Saying(Ledger(b), t) ELSE Ledger(b)
<1>1. EmitDelta(h, type, t) = g
  BY DEF EmitDelta
<1>2. Acts(h, b, Ledger(h)) /\ (type = "text" /\ Heard(b) /\ Ready(h) => Textual(b))
  <2>1. CASE h[type] >= 0
    <3>1. type = "text" /\ Ready(h) => Textual(h)
      BY <2>1 DEF Textual, Ready, Kept
    <3>2. b = h
      BY <2>1
    <3>3. QED
      BY <3>1, <3>2, ActsNot
  <2>2. CASE ~(h[type] >= 0)
    BY <2>2, EnsureActs
  <2>3. QED
    BY <2>1, <2>2
<1>. HIDE DEF b
<1>3. CASE type = "text" => Textual(b)
  <2>1. Acts(b, g, z)
    BY <1>2, <1>3, DeltaActs DEF Acts
  <2>. HIDE DEF g
  <2>2. Ledger(b) = Ledger(h) => z = IF type = "text" THEN Saying(Ledger(h), t) ELSE Ledger(h)
    OBVIOUS
  <2>. HIDE DEF z
  <2>3. QED
    BY <1>1, <1>2, <2>1, <2>2, ActsOn
<1>4. CASE type = "text" /\ ~Textual(b)
  <2>1. ~(Heard(b) /\ Ready(h))
    BY <1>2, <1>4
  <2>. DEFINE c == Build(b, type, t)
  <2>2. Whole(c) /\ c.stream = b.stream /\ c.cut = b.cut /\ c.view = b.view
    BY <1>2 DEF Build, Acts, Whole, Fields
  <2>. HIDE DEF c
  <2>3. Whole(g) /\ g.stream = b.stream /\ (Heard(g) => Heard(c))
    BY <2>2, WriteWhole DEF c
  <2>4. Heard(c) => Heard(b)
    BY <2>2 DEF Heard
  <2>. HIDE DEF g
  <2>5. QED
    BY <1>1, <1>2, <2>1, <2>3, <2>4 DEF Acts
<1>5. QED
  BY <1>3, <1>4

LEMMA CountAlike == ASSUME NEW h, Whole(h) PROVE Alike(h, CountTokens(h))
BY DEF Alike, Whole, Fields, SameBooks, SameStore, SameCounts, CountTokens

LEMMA TextAlike == ASSUME NEW h, Whole(h) PROVE Alike(h, [h EXCEPT !.hasText = TRUE])
BY DEF Alike, Whole, Fields, SameBooks, SameStore, SameCounts

LEMMA AlikeOn == ASSUME NEW f, NEW g, NEW h, Alike(f, g), Alike(g, h) PROVE Alike(f, h)
BY DEF Alike, SameBooks, SameStore, SameCounts

LEMMA TextActs == ASSUME NEW h, Whole(h), NEW t PROVE Acts(h, EmitTextDelta(h, t), Saying(Ledger(h), t))
<1>. DEFINE a == [h EXCEPT !.hasText = TRUE]
            b == CountTokens(a)
            g == EmitDelta(b, "text", t)
<1>1. Alike(h, a)
  BY TextAlike
<1>. HIDE DEF a
<1>2. Alike(a, b)
  BY <1>1, CountAlike DEF Alike
<1>. HIDE DEF b
<1>3. Alike(h, b)
  BY <1>1, <1>2, AlikeOn
<1>4. Acts(h, b, Ledger(h))
  BY <1>3, AlikeActs
<1>5. Acts(b, g, Saying(Ledger(b), t))
  BY <1>4, EmitActs DEF Acts
<1>6. EmitTextDelta(h, t) = g
  BY DEF EmitTextDelta, a, b
<1>. HIDE DEF g
<1>7. QED
  BY <1>4, <1>5, <1>6, ActsOn

LEMMA ThinkingActs == ASSUME NEW h, Whole(h), NEW t PROVE Acts(h, EmitThinkingDelta(h, t), Ledger(h))
<1>1. CASE h.suppress
  BY <1>1, ActsNot DEF EmitThinkingDelta
<1>2. CASE ~h.suppress
  <2>. DEFINE b == CountTokens(h)
              g == EmitDelta(b, "thinking", t)
  <2>1. Acts(h, b, Ledger(h))
    BY CountAlike, AlikeActs
  <2>. HIDE DEF b
  <2>2. Acts(b, g, Ledger(b))
    BY <2>1, EmitActs DEF Acts
  <2>3. EmitThinkingDelta(h, t) = g
    BY <1>2 DEF EmitThinkingDelta, b
  <2>. HIDE DEF g
  <2>4. QED
    BY <2>1, <2>2, <2>3, ActsCalm
<1>3. QED
  BY <1>1, <1>2

LEMMA NoticeActs == ASSUME NEW h, Whole(h) PROVE Acts(h, Write(h, Notice), Ledger(h))
BY FrameKinds, QuietActs

LEMMA ErrorActs == ASSUME NEW h, Whole(h) PROVE Acts(h, InjectErrorText(h), Saying(Ledger(h), ErrorText))
<1>. DEFINE a == [h EXCEPT !.hasText = TRUE]
            g == EnsureBlock(a, "text")
            r == InjectErrorText(h)
<1>1. Alike(h, a) /\ Acts(h, a, Ledger(h))
  BY TextAlike, AlikeActs
<1>. HIDE DEF a
<1>2. Acts(a, g, Ledger(a)) /\ (Heard(g) /\ Ready(a) => Textual(g))
  BY <1>1, EnsureActs DEF Acts
<1>3. r = IF h.stream THEN Write(g, BlockDelta(g.text, "text", ErrorText)) ELSE Build(g, "text", ErrorText)
  BY DEF InjectErrorText, a
<1>. HIDE DEF g
<1>4. Acts(h, g, Ledger(h))
  BY <1>1, <1>2, ActsCalm
<1>5. Heard(g) /\ Ready(h) => Textual(g)
  BY <1>1, <1>2 DEF Acts
<1>6. Whole(g) /\ g.stream = h.stream
  BY <1>4 DEF Acts
<1>7. CASE h.stream
  <2>. DEFINE f == BlockDelta(g.text, "text", ErrorText)
              y == [Ledger(g) EXCEPT !.says = SaysAfter(@, f)]
  <2>1. f.ev = "content_block_delta" /\ f.type = "text" /\ f.data = ErrorText
    BY FrameKinds
  <2>2. r = Write(g, f)
    BY <1>3, <1>7
  <2>. HIDE DEF f
  <2>3. Acts(g, r, y)
    BY <1>6, <1>7, <2>1, <2>2, WriteActs
  <2>4. y = Saying(Ledger(g), ErrorText)
    BY <2>1 DEF Saying, SaysAfter
  <2>. HIDE DEF y, r
  <2>5. QED
    BY <1>4, <2>3, <2>4, ActsOn DEF r
<1>8. CASE ~h.stream
  <2>1. r = Build(g, "text", ErrorText)
    BY <1>3, <1>8
  <2>2. CASE Textual(g)
    <3>1. Acts(g, r, Saying(Ledger(g), ErrorText))
      BY <1>6, <1>8, <2>1, <2>2, BuildActs
    <3>. HIDE DEF r
    <3>2. QED
      BY <1>4, <3>1, ActsOn DEF r
  <2>3. CASE ~Textual(g)
    <3>1. Whole(r) /\ r.stream = g.stream /\ r.cut = g.cut /\ r.view = g.view
      BY <1>6, <2>1 DEF Build, Whole, Fields
    <3>. HIDE DEF r
    <3>2. Heard(r) => Heard(g)
      BY <3>1 DEF Heard
    <3>3. QED
      BY <1>4, <1>5, <2>3, <3>1, <3>2 DEF Acts, r
  <2>4. QED
    BY <2>2, <2>3
<1>9. QED
  BY <1>7, <1>8

-----------------------------------------------------------------------------
(* Tool calls, and who has been given them. *)

\* What becomes of the ledger when a tool is asked for.
Take(x, c, declared) ==
  IF c.id \in x.handled THEN x
  ELSE IF Accepts(x, c, declared)
       THEN [Remember(x, c, declared) EXCEPT !.handled = @ \cup {c.id}, !.calls = Append(@, c.tool)]
       ELSE Remember(x, c, declared)

LEMMA AcceptsLedger ==
  ASSUME NEW h, Whole(h), NEW c, NEW d
  PROVE  /\ Accepts(h, c, d) <=> Accepts(Ledger(h), c, d)
         /\ Accepts([h EXCEPT !.dedup = {}], c, d) <=> Accepts([Ledger(h) EXCEPT !.dedup = {}], c, d)
<1>1. Accepts(h, c, d) <=> Accepts(Ledger(h), c, d)
  BY DEF Accepts, Ledger
<1>2. /\ [h EXCEPT !.dedup = {}].disallow = h.disallow /\ [h EXCEPT !.dedup = {}].dedup = {}
      /\ [Ledger(h) EXCEPT !.dedup = {}].disallow = h.disallow /\ [Ledger(h) EXCEPT !.dedup = {}].dedup = {}
  BY DEF Whole, Fields, Ledger
<1>. DEFINE a == [h EXCEPT !.dedup = {}]
            b == [Ledger(h) EXCEPT !.dedup = {}]
<1>. HIDE DEF a, b
<1>3. a.disallow = b.disallow /\ a.dedup = b.dedup => (Accepts(a, c, d) <=> Accepts(b, c, d))
  BY DEF Accepts
<1>4. QED
  BY <1>1, <1>2, <1>3 DEF a, b

\* What tool calls do not change.
SameOthers(h, g) ==
  /\ g.intros = h.intros /\ g.last = h.last /\ g.disallow = h.disallow /\ g.suppress = h.suppress
  /\ g.earlier = h.earlier /\ g.inputs = h.inputs /\ g.directTools = h.directTools /\ g.skipped = h.skipped
  /\ g.chunks = h.chunks /\ g.over = h.over

LEMMA OneEntry ==
  ASSUME NEW h, NEW g, SameOthers(h, g), Says(g) = Says(h), Calls(g) = Calls(h), g.hasReturn = h.hasReturn
  PROVE  /\ g.dropped = h.dropped /\ g.handled = h.handled =>
              Ledger(g) = [[Ledger(h) EXCEPT !.dedup = g.dedup] EXCEPT !.seed = g.seed]
         /\ g.dedup = h.dedup /\ g.seed = h.seed /\ g.dropped = h.dropped =>
              Ledger(g) = [Ledger(h) EXCEPT !.handled = g.handled]
<1>1. ASSUME g.dropped = h.dropped, g.handled = h.handled
      PROVE  Ledger(g) = [[Ledger(h) EXCEPT !.dedup = g.dedup] EXCEPT !.seed = g.seed]
  <2>. DEFINE x == [says |-> Says(h), calls |-> Calls(h), intros |-> h.intros, last |-> h.last, dedup |-> g.dedup,
                    seed |-> h.seed, dropped |-> h.dropped, handled |-> h.handled, disallow |-> h.disallow,
                    suppress |-> h.suppress, earlier |-> h.earlier, inputs |-> h.inputs,
                    directTools |-> h.directTools, skipped |-> h.skipped, chunks |-> h.chunks,
                    hasReturn |-> h.hasReturn, over |-> h.over]
  <2>1. [Ledger(h) EXCEPT !.dedup = g.dedup] = x
    BY DEF Ledger
  <2>2. Ledger(g) = [x EXCEPT !.seed = g.seed]
    BY <1>1 DEF Ledger, SameOthers
  <2>3. QED
    BY <2>1, <2>2
<1>2. ASSUME g.dedup = h.dedup, g.seed = h.seed, g.dropped = h.dropped
      PROVE  Ledger(g) = [Ledger(h) EXCEPT !.handled = g.handled]
  BY <1>2 DEF Ledger, SameOthers
<1>3. QED
  BY <1>1, <1>2

LEMMA OneCall ==
  ASSUME NEW h, NEW g, SameBooks(h, g), Says(g) = Says(h), g.hasReturn = h.hasReturn
  PROVE  Ledger(g) = [Ledger(h) EXCEPT !.calls = Calls(g)] /\ Ledger(h).calls = Calls(h)
BY DEF SameBooks, Ledger

\* Remembering changes three sets.
LEMMA RememberSets ==
  ASSUME NEW h, Whole(h), NEW c, NEW d
  PROVE  LET g == Remember(h, c, d)
         IN /\ Whole(g) /\ g.stream = h.stream /\ g.hasReturn = h.hasReturn /\ g.view = h.view /\ g.cut = h.cut
            /\ SameStore(h, g) /\ SameCounts(h, g) /\ g.chunks = h.chunks /\ g.handled = h.handled
            /\ g.directTools = h.directTools
            /\ Ledger(g) = Remember(Ledger(h), c, d)
<1>. DEFINE key == {DedupKey[c.tool]} \ {NoKey}
            g == Remember(h, c, d)
            x == Ledger(h)
<1>. HIDE DEF key
<1>1. CASE Accepts(h, c, d)
  <2>1. g = [h EXCEPT !.dedup = @ \cup key, !.seed = @ \cup key]
    BY <1>1 DEF Remember, key
  <2>2. Remember(x, c, d) = [x EXCEPT !.dedup = @ \cup key, !.seed = @ \cup key]
    BY <1>1, AcceptsLedger DEF Remember, key
  <2>. HIDE DEF g
  <2>3. /\ Whole(g) /\ g.stream = h.stream /\ g.hasReturn = h.hasReturn /\ g.view = h.view /\ g.cut = h.cut
        /\ SameStore(h, g) /\ SameCounts(h, g) /\ g.chunks = h.chunks /\ g.handled = h.handled
        /\ g.directTools = h.directTools
    BY <2>1 DEF Whole, Fields, SameStore, SameCounts
  <2>4. /\ Says(g) = Says(h) /\ Calls(g) = Calls(h) /\ SameOthers(h, g) /\ g.dropped = h.dropped /\ g.handled = h.handled
        /\ g.dedup = h.dedup \cup key /\ g.seed = h.seed \cup key
    BY <2>1, <2>3 DEF Whole, Fields, SameOthers, Says, Calls, SameStore, SameCounts
  <2>5. Ledger(g) = [[x EXCEPT !.dedup = g.dedup] EXCEPT !.seed = g.seed]
    BY <2>3, <2>4, OneEntry
  <2>6. x.dedup = h.dedup /\ x.seed = h.seed
    BY DEF Ledger
  <2>. HIDE DEF x
  <2>7. Ledger(g) = [x EXCEPT !.dedup = @ \cup key, !.seed = @ \cup key]
    BY <2>4, <2>5, <2>6
  <2>8. QED
    BY <2>2, <2>3, <2>7 DEF g, x
<1>2. CASE ~Accepts(h, c, d) /\ Accepts([h EXCEPT !.dedup = {}], c, d)
  <2>1. g = [h EXCEPT !.dropped = @ \cup key]
    BY <1>2 DEF Remember, key
  <2>2. Remember(x, c, d) = [x EXCEPT !.dropped = @ \cup key]
    BY <1>2, AcceptsLedger DEF Remember, key
  <2>. HIDE DEF g
  <2>3. /\ Whole(g) /\ g.stream = h.stream /\ g.hasReturn = h.hasReturn /\ g.view = h.view /\ g.cut = h.cut
        /\ SameStore(h, g) /\ SameCounts(h, g) /\ g.chunks = h.chunks /\ g.handled = h.handled
        /\ g.directTools = h.directTools
    BY <2>1 DEF Whole, Fields, SameStore, SameCounts
  <2>4. Ledger(g) = [x EXCEPT !.dropped = @ \cup key]
    BY SMTT(30), <2>1 DEF Whole, Fields, Ledger, Says, Calls
  <2>5. QED
    BY <2>2, <2>3, <2>4 DEF g
<1>3. CASE ~Accepts(h, c, d) /\ ~Accepts([h EXCEPT !.dedup = {}], c, d)
  <2>1. g = h
    BY <1>3 DEF Remember
  <2>2. Remember(x, c, d) = x
    BY <1>3, AcceptsLedger DEF Remember
  <2>3. QED
    BY <2>1, <2>2 DEF SameStore, SameCounts
<1>4. QED
  BY <1>1, <1>2, <1>3

LEMMA NamedAppend ==
  ASSUME NEW p, IsSeq(p), NEW c
  PROVE  Named(Append(p, c)) = Append(Named(p), c.tool) /\ Named(p) \in Seq({p[k].tool : k \in 1..Len(p)})
<1>. DEFINE S == Range(p) \cup {c}
            N == {p[k].tool : k \in 1..Len(p)} \cup {c.tool}
            q == Append(p, c)
            f == Named(p)
<1>1. Len(p) \in Nat /\ DOMAIN p = 1..Len(p)
  BY SeqShape
<1>2. p \in Seq(S) /\ c \in S
  <2>1. \A k \in DOMAIN p : p[k] \in S
    BY DEF Range
  <2>. HIDE DEF S
  <2>2. p \in Seq(S)
    BY <2>1, SeqCovered
  <2>3. QED
    BY <2>2 DEF S
<1>. HIDE DEF S
<1>3. Len(q) = Len(p) + 1 /\ (\A k \in 1..Len(p) : q[k] = p[k]) /\ q[Len(p) + 1] = c
  BY <1>2, AppendProperties
<1>4. f \in Seq({p[k].tool : k \in 1..Len(p)}) /\ f \in Seq(N) /\ c.tool \in N /\ Len(f) = Len(p)
  <2>1. f \in [1..Len(p) -> {p[k].tool : k \in 1..Len(p)}] /\ f \in [1..Len(p) -> N]
    BY DEF Named
  <2>2. f \in Seq({p[k].tool : k \in 1..Len(p)}) /\ f \in Seq(N) /\ DOMAIN f = 1..Len(p)
    BY <1>1, <2>1, SeqDef
  <2>3. QED
    BY <1>1, <2>2
<1>. HIDE DEF N, q
<1>5. \A k \in 1..Len(p) : f[k] = p[k].tool
  BY DEF Named
<1>. DEFINE g == Append(f, c.tool)
<1>6. /\ g \in Seq(N) /\ Len(g) = Len(p) + 1 /\ DOMAIN g = 1..(Len(p) + 1)
      /\ (\A k \in 1..Len(p) : g[k] = f[k]) /\ g[Len(p) + 1] = c.tool
  BY <1>4, AppendProperties, LenProperties
<1>7. g = [k \in 1..(Len(p) + 1) |-> g[k]]
  BY <1>6
<1>. HIDE DEF f, g
<1>8. ASSUME NEW k \in 1..(Len(p) + 1) PROVE g[k] = q[k].tool
  <2>1. CASE k = Len(p) + 1
    BY <1>3, <1>6, <2>1
  <2>2. CASE k # Len(p) + 1
    <3>1. k \in 1..Len(p)
      BY <1>1, <2>2
    <3>2. QED
      BY <1>3, <1>5, <1>6, <3>1
  <2>3. QED
    BY <2>1, <2>2
<1>9. Named(q) = [k \in 1..(Len(p) + 1) |-> q[k].tool]
  BY <1>3 DEF Named
<1>10. Named(q) = g
  BY <1>7, <1>8, <1>9
<1>11. QED
  BY <1>4, <1>10 DEF f, g, q

\* A tool that the client is sent.
LEMMA ToolBlockTells ==
  ASSUME NEW h, Whole(h), h.stream, NEW i, NEW c
  PROVE  LET g == ToolBlock(h, i, c)
         IN /\ Whole(g) /\ g.stream = h.stream /\ (Heard(g) => Heard(h))
            /\ h.hasReturn = FALSE /\ Heard(g) =>
                 /\ g.hasReturn = FALSE /\ SameBooks(h, g) /\ SameCounts(h, g)
                 /\ g.view.text = h.view.text /\ g.view.tools = Append(h.view.tools, c.tool)
<1>. DEFINE f1 == BlockStart(i, "tool_use", c.tool)
            f2 == BlockDelta(i, "tool_use", c.tool)
            f3 == BlockStop(i)
            a == Write(h, f1)
            b == Write(a, f2)
            g == Write(b, f3)
<1>1. ToolBlock(h, i, c) = g
  BY DEF ToolBlock
<1>2. /\ f1.ev = "content_block_start" /\ f1.type = "tool_use" /\ f1.data = c.tool
      /\ f2.ev = "content_block_delta" /\ f2.type = "tool_use" /\ f3.ev = "content_block_stop"
  BY FrameKinds
<1>. HIDE DEF f1, f2, f3
<1>3. Whole(a) /\ a.stream = h.stream /\ (Heard(a) => Heard(h)) /\ (h.hasReturn = FALSE => Tells(h, a, f1))
  BY WriteWhole, WriteTells
<1>. HIDE DEF a
<1>4. Whole(b) /\ b.stream = h.stream /\ (Heard(b) => Heard(a)) /\ (a.hasReturn = FALSE => Tells(a, b, f2))
  BY <1>3, WriteWhole, WriteTells
<1>. HIDE DEF b
<1>5. Whole(g) /\ g.stream = h.stream /\ (Heard(g) => Heard(b)) /\ (b.hasReturn = FALSE => Tells(b, g, f3))
  BY <1>4, WriteWhole, WriteTells
<1>. HIDE DEF g
<1>6. ASSUME h.hasReturn = FALSE, Heard(g)
      PROVE  /\ g.hasReturn = FALSE /\ SameBooks(h, g) /\ SameCounts(h, g)
             /\ g.view.text = h.view.text /\ g.view.tools = Append(h.view.tools, c.tool)
  <2>1. /\ a.hasReturn = FALSE /\ SameBooks(h, a) /\ SameCounts(h, a)
        /\ a.view.text = h.view.text /\ a.view.tools = Append(h.view.tools, c.tool)
    BY <1>2, <1>3, <1>4, <1>5, <1>6 DEF Tells, SaysAfter, CallsAfter
  <2>2. /\ b.hasReturn = FALSE /\ SameBooks(a, b) /\ SameCounts(a, b)
        /\ b.view.text = a.view.text /\ b.view.tools = a.view.tools
    BY <1>2, <1>3, <1>4, <1>5, <1>6, <2>1 DEF Tells, SaysAfter, CallsAfter
  <2>3. /\ g.hasReturn = FALSE /\ SameBooks(b, g) /\ SameCounts(b, g)
        /\ g.view.text = b.view.text /\ g.view.tools = b.view.tools
    BY <1>2, <1>4, <1>5, <1>6, <2>2 DEF Tells, SaysAfter, CallsAfter
  <2>4. QED
    BY <2>1, <2>2, <2>3 DEF SameBooks, SameCounts
<1>7. QED
  BY <1>1, <1>3, <1>4, <1>5, <1>6

\* A call given to a stream: b is h with its books written.
LEMMA GiveActs ==
  ASSUME NEW h, NEW b, NEW c, NEW i, Whole(b), h.stream, b.stream = h.stream, b.hasReturn = h.hasReturn, b.view = h.view,
         b.cut = h.cut, b.pending = h.pending, b.emitted = h.emitted \cup {c.id},
         h.emitted \subseteq h.handled => b.emitted \subseteq b.handled
  PROVE  Acts(h, ToolBlock(b, i, c), [Ledger(b) EXCEPT !.calls = Append(@, c.tool)])
<1>. DEFINE g == ToolBlock(b, i, c)
            x == [Ledger(b) EXCEPT !.calls = Append(@, c.tool)]
<1>. HIDE DEF x
<1>1. /\ Whole(g) /\ g.stream = b.stream /\ (Heard(g) => Heard(b))
      /\ b.hasReturn = FALSE /\ Heard(g) =>
           /\ g.hasReturn = FALSE /\ SameBooks(b, g) /\ SameCounts(b, g)
           /\ g.view.text = b.view.text /\ g.view.tools = Append(b.view.tools, c.tool)
  <2>1. SUFFICES ASSUME NEW f, Whole(f), f.stream
                 PROVE  LET k == ToolBlock(f, i, c)
                        IN /\ Whole(k) /\ k.stream = f.stream /\ (Heard(k) => Heard(f))
                           /\ f.hasReturn = FALSE /\ Heard(k) =>
                                /\ k.hasReturn = FALSE /\ SameBooks(f, k) /\ SameCounts(f, k)
                                /\ k.view.text = f.view.text /\ k.view.tools = Append(f.view.tools, c.tool)
    OBVIOUS
  <2>2. QED
    BY ZenonT(60), <2>1, ToolBlockTells
<1>. HIDE DEF g
<1>2. ASSUME Heard(g), Ready(h) PROVE Ready(g) /\ Ledger(g) = x /\ Marked(g)
  <2>1. /\ g.hasReturn = FALSE /\ SameBooks(b, g) /\ SameCounts(b, g)
        /\ g.view.text = b.view.text /\ g.view.tools = Append(b.view.tools, c.tool)
    BY <1>1, <1>2 DEF Ready
  <2>2. IsSeq(g.view.tools) /\ g.view.tools # <<>>
    BY <1>2, <2>1, AppendSeq DEF Ready, Streamed
  <2>3. Ready(g)
    BY <1>1, <1>2, <2>1, <2>2 DEF Ready, Streamed, SameBooks, SameCounts
  <2>4. Ledger(g) = x
    <3>1. Says(g) = Says(b) /\ Calls(g) = Append(Calls(b), c.tool) /\ b.hasReturn = FALSE
      BY <1>1, <1>2, <2>1 DEF Ready, Says, Calls
    <3>2. Ledger(g) = [Ledger(b) EXCEPT !.calls = Calls(g)] /\ Ledger(b).calls = Calls(b)
      BY <2>1, <3>1, OneCall
    <3>3. QED
      BY <3>1, <3>2 DEF x
  <2>5. Marked(g)
    BY <2>1 DEF Marked, SameCounts
  <2>6. QED
    BY <2>3, <2>4, <2>5
<1>. HIDE DEF x
<1>3. QED
  BY <1>1, <1>2 DEF Acts, Heard, g, x

\* A call that the body keeps.
LEMMA PostponeActs ==
  ASSUME NEW h, NEW b, NEW c, Whole(b), ~h.stream, b.stream = h.stream, b.hasReturn = h.hasReturn,
         SameStore(h, b), SameCounts(h, b), b.chunks = h.chunks
  PROVE  Acts(h, Postpone(b, c), [Ledger(b) EXCEPT !.calls = Append(@, c.tool)])
<1>. DEFINE g == Postpone(b, c)
            x == [Ledger(b) EXCEPT !.calls = Append(@, c.tool)]
<1>1. /\ Whole(g) /\ g.stream = b.stream /\ g.hasReturn = b.hasReturn /\ SameBooks(b, g) /\ SameStore(b, g)
      /\ g.pending = Append(b.pending, c) /\ g.emitted = b.emitted
  BY DEF Postpone, Whole, Fields, SameBooks, SameStore
<1>. HIDE DEF g
<1>2. ASSUME Ready(h) PROVE Ready(g) /\ Ledger(g) = x
  <2>1. Kept(h) /\ h.hasReturn = FALSE /\ h.emitted = {}
    BY <1>2 DEF Ready, Kept
  <2>2. IsSeq(g.pending) /\ g.pending # <<>> /\ Named(g.pending) = Append(Named(b.pending), c.tool)
    <3>1. IsSeq(b.pending)
      BY <2>1 DEF Kept, SameCounts
    <3>2. IsSeq(Append(b.pending, c)) /\ Append(b.pending, c) # <<>>
      BY <3>1, AppendSeq
    <3>3. Named(Append(b.pending, c)) = Append(Named(b.pending), c.tool)
      BY <3>1, NamedAppend
    <3>4. QED
      BY <1>1, <3>2, <3>3
  <2>3. Kept(g)
    BY <1>1, <2>1, <2>2 DEF Kept, SameBooks, SameStore, SameCounts
  <2>4. Ready(g)
    BY <1>1, <2>1, <2>3 DEF Ready, SameCounts
  <2>5. Ledger(g) = x
    <3>1. Says(g) = Says(b) /\ Calls(g) = Append(Calls(b), c.tool) /\ g.hasReturn = b.hasReturn
      BY <1>1, <2>1, <2>2 DEF Says, Calls, SameStore
    <3>2. Ledger(g) = [Ledger(b) EXCEPT !.calls = Calls(g)] /\ Ledger(b).calls = Calls(b)
      BY <1>1, <3>1, OneCall
    <3>3. QED
      BY <3>1, <3>2
  <2>6. QED
    BY <2>4, <2>5
<1>. HIDE DEF x
<1>3. QED
  BY <1>1, <1>2 DEF Acts, Heard, Marked, g, x

LEMMA AcceptActs ==
  ASSUME NEW h, Whole(h), NEW c
  PROVE  Acts(h, AcceptToolCall(h, c), Take(Ledger(h), c, TRUE))
<1>. DEFINE d == TRUE
            k == Remember(h, c, d)
            y == Remember(Ledger(h), c, d)
            w == [k EXCEPT !.handled = @ \cup {c.id}]
            z == [y EXCEPT !.handled = @ \cup {c.id}, !.calls = Append(@, c.tool)]
<1>. HIDE DEF w, z, d
<1>1. /\ Whole(k) /\ k.stream = h.stream /\ k.hasReturn = h.hasReturn /\ k.view = h.view /\ k.cut = h.cut
      /\ SameStore(h, k) /\ SameCounts(h, k) /\ k.chunks = h.chunks /\ k.handled = h.handled
      /\ Ledger(k) = y
  BY RememberSets
<1>2. (Accepts(h, c, d) <=> Accepts(Ledger(h), c, d)) /\ Ledger(h).handled = h.handled
  BY AcceptsLedger DEF Ledger
<1>3. CASE c.id \in h.handled
  <2>1. AcceptToolCall(h, c) = h /\ Take(Ledger(h), c, TRUE) = Ledger(h)
    BY <1>2, <1>3 DEF AcceptToolCall, Take, d
  <2>2. QED
    BY <2>1, ActsNot
<1>4. CASE c.id \notin h.handled /\ ~Accepts(h, c, d)
  <2>1. AcceptToolCall(h, c) = k /\ Take(Ledger(h), c, TRUE) = y
    BY <1>2, <1>4 DEF AcceptToolCall, Take, d
  <2>. HIDE DEF k, y
  <2>2. Ready(h) => Ready(k)
    BY <1>1 DEF SameStore, SameCounts, Ready, Streamed, Kept, HasToolCalls
  <2>3. (Heard(k) => Heard(h)) /\ (Marked(h) => Marked(k))
    BY <1>1 DEF Heard, Marked, SameCounts
  <2>4. QED
    BY <1>1, <2>1, <2>2, <2>3 DEF Acts
<1>5. CASE c.id \notin h.handled /\ Accepts(h, c, d)
  <2>1. /\ AcceptToolCall(h, c) = IF h.stream THEN EmitToolUse(w, c) ELSE Postpone(w, c)
        /\ Take(Ledger(h), c, TRUE) = z
    BY <1>2, <1>5 DEF AcceptToolCall, Take, d, w, z
  <2>. HIDE DEF k
  <2>. USE DEF w, z
  <2>2. /\ Whole(w) /\ w.stream = k.stream /\ w.hasReturn = k.hasReturn /\ w.view = k.view /\ w.cut = k.cut
        /\ SameStore(k, w) /\ SameCounts(k, w) /\ w.chunks = k.chunks /\ w.handled = h.handled \cup {c.id}
    BY <1>1 DEF Whole, Fields, SameStore, SameCounts
  <2>3. Ledger(w) = [y EXCEPT !.handled = @ \cup {c.id}]
    <3>1. /\ SameOthers(k, w) /\ w.dedup = k.dedup /\ w.seed = k.seed /\ w.dropped = k.dropped
          /\ Says(w) = Says(k) /\ Calls(w) = Calls(k)
      BY <1>1, <2>2 DEF Whole, Fields, SameOthers, SameStore, SameCounts, Says, Calls
    <3>2. Ledger(w) = [Ledger(k) EXCEPT !.handled = w.handled]
      BY ZenonT(60), <2>2, <3>1, OneEntry
    <3>3. Ledger(k).handled = h.handled
      BY <1>1 DEF Ledger
    <3>4. QED
      BY <1>1, <2>2, <3>2, <3>3
  <2>. HIDE DEF w, y
  <2>4. z = [Ledger(w) EXCEPT !.calls = Append(@, c.tool)]
    <3>1. y = Ledger(k)
      BY <1>1
    <3>. HIDE DEF y
    <3>2. QED
      BY <2>3, <3>1 DEF Ledger
  <2>. HIDE DEF z
  <2>5. CASE ~h.stream
    <3>1. SameStore(h, w) /\ SameCounts(h, w)
      BY <1>1, <2>2 DEF SameStore, SameCounts
    <3>2. Acts(h, Postpone(w, c), z)
      BY <1>1, <2>2, <2>4, <2>5, <3>1, PostponeActs
    <3>3. QED
      BY <2>1, <2>5, <3>2
  <2>6. CASE h.stream /\ c.id \in w.emitted
    <3>1. EmitToolUse(w, c) = w
      BY <2>6 DEF EmitToolUse
    <3>2. ~Ready(h)
      BY <1>1, <1>5, <2>2, <2>6 DEF Ready, SameCounts
    <3>3. QED
      BY <1>1, <2>1, <2>2, <2>6, <3>1, <3>2 DEF Acts, Heard
  <2>7. CASE h.stream /\ c.id \notin w.emitted
    <3>. DEFINE b == [CountTokens(w) EXCEPT !.emitted = @ \cup {c.id}, !.count = @ + 1, !.blockIndex = @ + 1]
                i == w.blockIndex + 1
    <3>1. EmitToolUse(w, c) = ToolBlock(b, i, c)
      BY <2>7 DEF EmitToolUse
    <3>2. /\ Whole(b) /\ b.stream = w.stream /\ b.hasReturn = w.hasReturn /\ b.view = w.view /\ b.cut = w.cut
          /\ b.pending = w.pending /\ b.emitted = w.emitted \cup {c.id} /\ SameBooks(w, b)
      BY ZenonT(60), <2>2 DEF CountTokens, Whole, Fields, SameBooks
    <3>. HIDE DEF b, i
    <3>3. Ledger(b) = Ledger(w)
      BY <1>1, <2>2, <2>7, <3>2 DEF SameBooks, Ledger, Says, Calls
    <3>4. b.pending = h.pending /\ b.emitted = h.emitted \cup {c.id} /\ b.handled = h.handled \cup {c.id}
      BY <1>1, <2>2, <3>2 DEF SameCounts, SameBooks
    <3>5. Acts(h, ToolBlock(b, i, c), [Ledger(b) EXCEPT !.calls = Append(@, c.tool)])
      BY <1>1, <2>2, <2>7, <3>2, <3>4, GiveActs
    <3>6. QED
      BY <2>1, <2>4, <2>7, <3>1, <3>3, <3>5
  <2>8. QED
    BY <2>5, <2>6, <2>7
<1>6. QED
  BY <1>3, <1>4, <1>5

-----------------------------------------------------------------------------
(* Events, and what they do to the ledger. *)

\* A step on the books only.
LEMMA BookActs ==
  ASSUME NEW h, NEW g, Whole(g), g.stream = h.stream, g.hasReturn = h.hasReturn, g.view = h.view, g.cut = h.cut,
         SameStore(h, g), SameCounts(h, g), g.chunks = h.chunks, h.handled \subseteq g.handled, NEW x, Ledger(g) = x
  PROVE  Acts(h, g, x)
<1>1. Ready(h) => Ready(g)
  BY DEF SameStore, SameCounts, Ready, Streamed, Kept, HasToolCalls
<1>2. (Heard(g) => Heard(h)) /\ (Marked(h) => Marked(g))
  BY DEF Heard, Marked, SameCounts
<1>3. QED
  BY <1>1, <1>2 DEF Acts

LEMMA ActsIf ==
  ASSUME NEW h, NEW g, NEW x, Whole(g), g.stream = h.stream, Heard(g) => Heard(h), Heard(g) /\ Ready(h) => Acts(h, g, x)
  PROVE  Acts(h, g, x)
BY DEF Acts

LEMMA SigAlike == ASSUME NEW h, Whole(h), NEW s PROVE Alike(h, [h EXCEPT !.sig = s])
BY DEF Alike, Whole, Fields, SameBooks, SameStore, SameCounts

LEMMA ReasoningStartActs == ASSUME NEW h, Whole(h), NEW signed PROVE Acts(h, ReasoningStart(h, signed), Ledger(h))
<1>1. CASE signed
  <2>. DEFINE a == [h EXCEPT !.sig = TRUE]
              g == EnsureBlock(a, "thinking")
  <2>1. Alike(h, a)
    BY SigAlike
  <2>. HIDE DEF a
  <2>2. Acts(h, a, Ledger(h)) /\ Whole(a)
    BY <2>1, AlikeActs DEF Alike
  <2>3. Acts(a, g, Ledger(a))
    BY <2>2, EnsureActs
  <2>4. ReasoningStart(h, signed) = g
    BY <1>1 DEF ReasoningStart, a
  <2>. HIDE DEF g
  <2>5. QED
    BY <2>2, <2>3, <2>4, ActsCalm
<1>2. CASE ~signed
  <2>1. ReasoningStart(h, signed) = [h EXCEPT !.sig = FALSE]
    BY <1>2 DEF ReasoningStart
  <2>2. QED
    BY <2>1, SigAlike, AlikeActs
<1>3. QED
  BY <1>1, <1>2

LEMMA ReasoningDeltaActs ==
  ASSUME NEW h, Whole(h), NEW t, NEW signed PROVE Acts(h, ReasoningDelta(h, t, signed), Ledger(h))
<1>. DEFINE a == WithSignature(h, signed)
            g == ReasoningDelta(h, t, signed)
<1>1. Alike(h, a)
  BY SigAlike DEF WithSignature
<1>2. g = IF t # NoText THEN EmitDelta(a, "thinking", t) ELSE IF a.sig THEN EnsureBlock(a, "thinking") ELSE a
  BY DEF ReasoningDelta
<1>. HIDE DEF a, g
<1>3. Acts(h, a, Ledger(h)) /\ Whole(a)
  BY <1>1, AlikeActs DEF Alike
<1>4. Acts(a, EmitDelta(a, "thinking", t), Ledger(a)) /\ Acts(a, EnsureBlock(a, "thinking"), Ledger(a))
  BY <1>3, EmitActs, EnsureActs
<1>5. Acts(a, a, Ledger(a))
  BY <1>3, ActsNot
<1>6. Acts(a, g, Ledger(a))
  BY <1>2, <1>4, <1>5
<1>7. QED
  BY <1>3, <1>6, ActsCalm DEF g

\* The tool hidden in a text is called, and the text is noted.
Calling(x, t, id) ==
  IF Marker[t] = NoTool THEN x ELSE Take(x, [id |-> id, tool |-> Marker[t], filled |-> TRUE], TRUE)
Noted(x, t, source) ==
  [[x EXCEPT !.intros = @ \cup ({Intro[t]} \ {NoKey})] EXCEPT !.last = [text |-> Rest[t], source |-> source]]
Noting(x, t, source, soon) ==
  IF Rest[t] = NoText \/ Intro[t] \in x.intros THEN x
  ELSE IF CrossChannelDuplicate(x, Rest[t], source, soon) THEN Noted(x, t, source)
  ELSE Saying(Noted(x, t, source), Rest[t])

LEMMA NotedActs == ASSUME NEW h, Whole(h), NEW t, NEW source PROVE Acts(h, Noted(h, t, source), Noted(Ledger(h), t, source))
<1>. DEFINE g == Noted(h, t, source)
            i == h.intros \cup ({Intro[t]} \ {NoKey})
            l == [text |-> Rest[t], source |-> source]
<1>. HIDE DEF i, l
<1>1. g = [[h EXCEPT !.intros = i] EXCEPT !.last = l]
  BY DEF Noted, i, l
<1>. HIDE DEF g
<1>2. /\ Whole(g) /\ g.stream = h.stream /\ g.hasReturn = h.hasReturn /\ g.view = h.view /\ g.cut = h.cut
      /\ SameStore(h, g) /\ SameCounts(h, g) /\ g.chunks = h.chunks /\ g.handled = h.handled
      /\ g.intros = i /\ g.last = l
  BY <1>1 DEF Whole, Fields, SameStore, SameCounts
<1>3. /\ g.dedup = h.dedup /\ g.seed = h.seed /\ g.dropped = h.dropped /\ g.disallow = h.disallow
      /\ g.suppress = h.suppress /\ g.earlier = h.earlier /\ g.inputs = h.inputs /\ g.directTools = h.directTools
      /\ g.skipped = h.skipped /\ g.over = h.over /\ Says(g) = Says(h) /\ Calls(g) = Calls(h)
  BY <1>1, <1>2 DEF Whole, Fields, Says, Calls, SameStore, SameCounts
<1>. DEFINE x == [says |-> Says(h), calls |-> Calls(h), intros |-> i, last |-> h.last, dedup |-> h.dedup,
                  seed |-> h.seed, dropped |-> h.dropped, handled |-> h.handled, disallow |-> h.disallow,
                  suppress |-> h.suppress, earlier |-> h.earlier, inputs |-> h.inputs,
                  directTools |-> h.directTools, skipped |-> h.skipped, chunks |-> h.chunks,
                  hasReturn |-> h.hasReturn, over |-> h.over]
<1>4. [Ledger(h) EXCEPT !.intros = i] = x
  BY DEF Ledger
<1>5. Ledger(g) = [x EXCEPT !.last = l]
  BY <1>2, <1>3 DEF Ledger
<1>. HIDE DEF x
<1>6. Ledger(h).intros = h.intros
  BY DEF Ledger
<1>7. Ledger(g) = Noted(Ledger(h), t, source)
  BY <1>4, <1>5, <1>6 DEF Noted, i, l
<1>8. QED
  BY <1>2, <1>7, BookActs DEF g

LEMMA TextDeltaActs ==
  ASSUME NEW h, Whole(h), NEW t, NEW source, NEW soon, NEW id
  PROVE  Acts(h, TextDelta(h, t, source, soon, id), Noting(Calling(Ledger(h), t, id), t, source, soon))
<1>. DEFINE c == [id |-> id, tool |-> Marker[t], filled |-> TRUE]
            k == IF Marker[t] = NoTool THEN h ELSE AcceptToolCall(h, c)
            m == Noted(k, t, source)
            g == TextDelta(h, t, source, soon, id)
            y == Calling(Ledger(h), t, id)
<1>1. Acts(h, k, y)
  <2>1. CASE Marker[t] = NoTool
    BY <2>1, ActsNot DEF Calling
  <2>2. CASE Marker[t] # NoTool
    <3>1. k = AcceptToolCall(h, c) /\ y = Take(Ledger(h), c, TRUE)
      BY <2>2 DEF Calling
    <3>. HIDE DEF c, k, y
    <3>2. QED
      BY <3>1, AcceptActs
  <2>3. QED
    BY <2>1, <2>2
<1>2. /\ Rest[t] = NoText \/ Intro[t] \in k.intros => g = k
      /\ ~(Rest[t] = NoText \/ Intro[t] \in k.intros) =>
           g = IF CrossChannelDuplicate(k, Rest[t], source, soon) THEN m ELSE EmitTextDelta(m, Rest[t])
  <2>. DEFINE greeted == [k EXCEPT !.intros = @ \cup ({Intro[t]} \ {NoKey})]
  <2>1. greeted.last = k.last
    BY <1>1 DEF Acts, Whole, Fields
  <2>2. CrossChannelDuplicate(greeted, Rest[t], source, soon) = CrossChannelDuplicate(k, Rest[t], source, soon)
    BY <2>1 DEF CrossChannelDuplicate
  <2>3. m = [greeted EXCEPT !.last = [text |-> Rest[t], source |-> source]]
    BY DEF Noted
  <2>4. g = IF Rest[t] = NoText THEN k
            ELSE IF Intro[t] \in k.intros THEN k
            ELSE IF CrossChannelDuplicate(greeted, Rest[t], source, soon)
                 THEN [greeted EXCEPT !.last = [text |-> Rest[t], source |-> source]]
            ELSE EmitTextDelta([greeted EXCEPT !.last = [text |-> Rest[t], source |-> source]], Rest[t])
    BY DEF TextDelta
  <2>. HIDE DEF g, k, greeted, m
  <2>5. QED
    BY <2>2, <2>3, <2>4
<1>. HIDE DEF g, k, y
<1>3. Acts(k, m, Noted(Ledger(k), t, source))
  BY <1>1, NotedActs DEF Acts
<1>. HIDE DEF m
<1>4. Acts(m, EmitTextDelta(m, Rest[t]), Saying(Ledger(m), Rest[t]))
  BY <1>3, TextActs DEF Acts
<1>5. Acts(k, EmitTextDelta(m, Rest[t]), Saying(Noted(Ledger(k), t, source), Rest[t]))
  BY <1>3, <1>4, ActsOn
<1>6. Acts(k, k, Ledger(k))
  BY <1>1, ActsNot DEF Acts
<1>7. Ledger(k).intros = k.intros /\ Ledger(k).last = k.last
  BY DEF Ledger
<1>8. Acts(k, g, Noting(Ledger(k), t, source, soon))
  <2>1. CrossChannelDuplicate(Ledger(k), Rest[t], source, soon) = CrossChannelDuplicate(k, Rest[t], source, soon)
    BY <1>7 DEF CrossChannelDuplicate
  <2>2. QED
    BY <1>2, <1>3, <1>5, <1>6, <1>7, <2>1 DEF Noting
<1>9. QED
  BY <1>1, <1>8, ActsOn DEF g, y

LEMMA AgentStartActs == ASSUME NEW h, Whole(h) PROVE Acts(h, AgentStart(h), Ledger(h))
<1>. DEFINE k == IF h.thinking >= 0 \/ h.sig THEN EnsureBlock(h, "thinking") ELSE h
<1>1. Acts(h, k, Ledger(h))
  BY EnsureActs, ActsNot
<1>. HIDE DEF k
<1>2. Acts(k, Write(k, Notice), Ledger(k))
  BY <1>1, NoticeActs DEF Acts
<1>3. QED
  BY <1>1, <1>2, ActsCalm DEF AgentStart, k

LEMMA WriteStartedActs == ASSUME NEW h, Whole(h) PROVE Acts(h, WriteStarted(h), Ledger(h))
<1>1. CASE ~h.stream \/ h.suppress
  BY <1>1, ActsNot DEF WriteStarted
<1>2. CASE ~(~h.stream \/ h.suppress)
  <2>. DEFINE a == EnsureBlock(h, "thinking")
              b == EmitThinkingDelta(a, Piece)
              g == Write(b, Notice)
  <2>1. WriteStarted(h) = g
    BY <1>2 DEF WriteStarted
  <2>2. Acts(h, a, Ledger(h))
    BY EnsureActs
  <2>. HIDE DEF a
  <2>3. Acts(a, b, Ledger(a))
    BY <2>2, ThinkingActs DEF Acts
  <2>. HIDE DEF b
  <2>4. Acts(b, g, Ledger(b))
    BY <2>3, NoticeActs DEF Acts
  <2>. HIDE DEF g
  <2>5. Acts(h, b, Ledger(h))
    BY <2>2, <2>3, ActsCalm
  <2>6. QED
    BY <2>1, <2>4, <2>5, ActsCalm
<1>3. QED
  BY <1>1, <1>2

LEMMA WriteCompletedActs == ASSUME NEW h, Whole(h) PROVE Acts(h, WriteCompleted(h), Ledger(h))
<1>1. CASE ~h.stream \/ h.suppress
  BY <1>1, ActsNot DEF WriteCompleted
<1>2. CASE ~(~h.stream \/ h.suppress)
  <2>. DEFINE b == EmitThinkingDelta(h, Piece)
              g == Write(b, Notice)
  <2>1. WriteCompleted(h) = g
    BY <1>2 DEF WriteCompleted
  <2>2. Acts(h, b, Ledger(h))
    BY ThinkingActs
  <2>. HIDE DEF b
  <2>3. Acts(b, g, Ledger(b))
    BY <2>2, NoticeActs DEF Acts
  <2>. HIDE DEF g
  <2>4. QED
    BY <2>1, <2>2, <2>3, ActsCalm
<1>3. QED
  BY <1>1, <1>2

\* Only a stream tells of the chunks of a file.
Chunked(x, stream) ==
  IF ~stream THEN x ELSE IF x.suppress THEN Saying([x EXCEPT !.chunks = TRUE], Piece) ELSE [x EXCEPT !.chunks = TRUE]

SameButChunks(h, g) ==
  /\ g.intros = h.intros /\ g.last = h.last /\ g.dedup = h.dedup /\ g.seed = h.seed /\ g.dropped = h.dropped
  /\ g.handled = h.handled /\ g.disallow = h.disallow /\ g.suppress = h.suppress /\ g.earlier = h.earlier
  /\ g.inputs = h.inputs /\ g.directTools = h.directTools /\ g.skipped = h.skipped /\ g.over = h.over

LEMMA ChunksEntry ==
  ASSUME NEW h, NEW g, SameButChunks(h, g), Says(g) = Says(h), Calls(g) = Calls(h), g.hasReturn = h.hasReturn,
         NEW c, g.chunks = c
  PROVE  Ledger(g) = [Ledger(h) EXCEPT !.chunks = c]
BY DEF SameButChunks, Ledger

LEMMA WriteChunkActs == ASSUME NEW h, Whole(h) PROVE Acts(h, WriteChunk(h), Chunked(Ledger(h), h.stream))
<1>1. CASE ~h.stream
  BY <1>1, ActsNot DEF WriteChunk, Chunked
<1>2. CASE h.stream
  <2>. DEFINE g == [h EXCEPT !.chunks = TRUE]
              x == [Ledger(h) EXCEPT !.chunks = TRUE]
  <2>1. /\ Whole(g) /\ g.stream /\ g.hasReturn = h.hasReturn /\ g.view = h.view /\ g.cut = h.cut /\ SameCounts(h, g)
        /\ g.handled = h.handled /\ g.suppress = h.suppress
    BY <1>2 DEF Whole, Fields, SameCounts
  <2>2. Ledger(g) = x
    <3>1. Says(g) = Says(h) /\ Calls(g) = Calls(h)
      BY <1>2, <2>1 DEF Says, Calls
    <3>2. SameButChunks(h, g) /\ g.chunks = TRUE
      BY <2>1 DEF Whole, Fields, SameButChunks
    <3>. HIDE DEF g
    <3>3. QED
      BY <2>1, <3>1, <3>2, ChunksEntry
  <2>3. WriteChunk(h) = IF h.suppress THEN EmitTextDelta(g, Piece) ELSE Write(EmitThinkingDelta(g, Piece), Notice)
    BY <1>2 DEF WriteChunk
  <2>. HIDE DEF g, x
  <2>4. Ready(h) => Ready(g)
    BY <1>2, <2>1 DEF SameCounts, Ready, Streamed, HasToolCalls
  <2>5. (Heard(g) => Heard(h)) /\ (Marked(h) => Marked(g))
    BY <1>2, <2>1 DEF Heard, Marked, SameCounts
  <2>6. Acts(h, g, x)
    BY <1>2, <2>1, <2>2, <2>4, <2>5 DEF Acts
  <2>7. Ledger(h).suppress = h.suppress
    BY DEF Ledger
  <2>8. CASE h.suppress
    <3>1. Acts(g, EmitTextDelta(g, Piece), Saying(Ledger(g), Piece))
      BY <2>1, TextActs
    <3>2. Acts(h, EmitTextDelta(g, Piece), Saying(x, Piece))
      BY <2>6, <3>1, ActsOn
    <3>3. QED
      BY <1>2, <2>3, <2>7, <2>8, <3>2 DEF Chunked, x
  <2>9. CASE ~h.suppress
    <3>. DEFINE b == EmitThinkingDelta(g, Piece)
    <3>1. Acts(g, b, Ledger(g))
      BY <2>1, ThinkingActs
    <3>2. WriteChunk(h) = Write(b, Notice)
      BY <2>3, <2>9
    <3>. HIDE DEF b
    <3>3. Acts(b, Write(b, Notice), Ledger(b))
      BY <3>1, NoticeActs DEF Acts
    <3>4. Acts(h, b, x)
      BY <2>6, <3>1, ActsCalm
    <3>5. Acts(h, Write(b, Notice), x)
      BY <3>3, <3>4, ActsCalm
    <3>6. QED
      BY <1>2, <2>7, <2>9, <3>2, <3>5 DEF Chunked, x
  <2>10. QED
    BY <2>8, <2>9
<1>3. QED
  BY <1>1, <1>2

LEMMA FsOperationActs == ASSUME NEW h, Whole(h), NEW throttled PROVE Acts(h, FsOperation(h, throttled), Ledger(h))
BY NoticeActs, ActsNot DEF FsOperation

\* One entry of the books.
LEMMA InputsActs ==
  ASSUME NEW h, Whole(h), NEW f
  PROVE  Acts(h, [h EXCEPT !.inputs = f], [Ledger(h) EXCEPT !.inputs = f]) /\ Ledger(h).inputs = h.inputs
<1>. DEFINE g == [h EXCEPT !.inputs = f]
            x == [Ledger(h) EXCEPT !.inputs = f]
<1>1. /\ Whole(g) /\ g.stream = h.stream /\ g.hasReturn = h.hasReturn /\ g.view = h.view /\ g.cut = h.cut
      /\ SameStore(h, g) /\ SameCounts(h, g) /\ g.chunks = h.chunks /\ g.handled = h.handled
  BY DEF Whole, Fields, SameStore, SameCounts
<1>2. /\ g.intros = h.intros /\ g.last = h.last /\ g.dedup = h.dedup /\ g.seed = h.seed /\ g.dropped = h.dropped
      /\ g.disallow = h.disallow /\ g.suppress = h.suppress /\ g.earlier = h.earlier /\ g.inputs = f
      /\ g.directTools = h.directTools /\ g.skipped = h.skipped /\ g.over = h.over
      /\ Says(g) = Says(h) /\ Calls(g) = Calls(h)
  BY <1>1 DEF Whole, Fields, Says, Calls, SameStore, SameCounts
<1>. HIDE DEF g
<1>3. Ledger(g) = x
  BY <1>1, <1>2 DEF Ledger
<1>. HIDE DEF x
<1>4. Acts(h, g, x)
  BY <1>1, <1>3, BookActs
<1>5. QED
  BY <1>4 DEF g, x, Ledger

LEMMA DirectToolsActs ==
  ASSUME NEW h, Whole(h), NEW f
  PROVE  /\ Acts(h, [h EXCEPT !.directTools = f], [Ledger(h) EXCEPT !.directTools = f])
         /\ Ledger(h).directTools = h.directTools
<1>. DEFINE g == [h EXCEPT !.directTools = f]
            x == [Ledger(h) EXCEPT !.directTools = f]
<1>1. /\ Whole(g) /\ g.stream = h.stream /\ g.hasReturn = h.hasReturn /\ g.view = h.view /\ g.cut = h.cut
      /\ SameStore(h, g) /\ SameCounts(h, g) /\ g.chunks = h.chunks /\ g.handled = h.handled
  BY DEF Whole, Fields, SameStore, SameCounts
<1>2. /\ g.intros = h.intros /\ g.last = h.last /\ g.dedup = h.dedup /\ g.seed = h.seed /\ g.dropped = h.dropped
      /\ g.disallow = h.disallow /\ g.suppress = h.suppress /\ g.earlier = h.earlier /\ g.inputs = h.inputs
      /\ g.directTools = f /\ g.skipped = h.skipped /\ g.over = h.over
      /\ Says(g) = Says(h) /\ Calls(g) = Calls(h)
  BY <1>1 DEF Whole, Fields, Says, Calls, SameStore, SameCounts
<1>. HIDE DEF g
<1>3. Ledger(g) = x
  BY <1>1, <1>2 DEF Ledger
<1>. HIDE DEF x
<1>4. Acts(h, g, x)
  BY <1>1, <1>3, BookActs
<1>5. QED
  BY <1>4 DEF g, x, Ledger

LEMMA SkippedActs ==
  ASSUME NEW h, Whole(h), NEW f
  PROVE  Acts(h, [h EXCEPT !.skipped = f], [Ledger(h) EXCEPT !.skipped = f]) /\ Ledger(h).skipped = h.skipped
<1>. DEFINE g == [h EXCEPT !.skipped = f]
            x == [Ledger(h) EXCEPT !.skipped = f]
<1>1. /\ Whole(g) /\ g.stream = h.stream /\ g.hasReturn = h.hasReturn /\ g.view = h.view /\ g.cut = h.cut
      /\ SameStore(h, g) /\ SameCounts(h, g) /\ g.chunks = h.chunks /\ g.handled = h.handled
  BY DEF Whole, Fields, SameStore, SameCounts
<1>2. /\ g.intros = h.intros /\ g.last = h.last /\ g.dedup = h.dedup /\ g.seed = h.seed /\ g.dropped = h.dropped
      /\ g.disallow = h.disallow /\ g.suppress = h.suppress /\ g.earlier = h.earlier /\ g.inputs = h.inputs
      /\ g.directTools = h.directTools /\ g.skipped = f /\ g.over = h.over
      /\ Says(g) = Says(h) /\ Calls(g) = Calls(h)
  BY <1>1 DEF Whole, Fields, Says, Calls, SameStore, SameCounts
<1>. HIDE DEF g
<1>3. Ledger(g) = x
  BY <1>1, <1>2 DEF Ledger
<1>. HIDE DEF x
<1>4. Acts(h, g, x)
  BY <1>1, <1>3, BookActs
<1>5. QED
  BY <1>4 DEF g, x, Ledger

\* The events of a tool call.
Collected(x, id, tool) == [x EXCEPT !.inputs = With(x.inputs, id, [tool |-> tool, filled |-> FALSE])]
Filled(x, id) == IF id \notin DOMAIN x.inputs THEN x ELSE [x EXCEPT !.inputs = [x.inputs EXCEPT ![id].filled = TRUE]]
Dismissed(x, id) == [x EXCEPT !.inputs = Restrict(x.inputs, DOMAIN x.inputs \ {id})]
Ended(x, id) ==
  IF id \notin DOMAIN x.inputs THEN x
  ELSE Take(Dismissed(x, id), [id |-> id, tool |-> x.inputs[id].tool, filled |-> x.inputs[id].filled], TRUE)
Called(x, c) == IF c.id \notin x.handled /\ Accepts(x, c, TRUE) THEN Take(Dismissed(x, c.id), c, TRUE) ELSE Take(x, c, TRUE)

LEMMA ToolInputStartActs ==
  ASSUME NEW h, Whole(h), NEW id, NEW tool PROVE Acts(h, ToolInputStart(h, id, tool), Collected(Ledger(h), id, tool))
<1>. DEFINE k == CloseActiveBlock(h)
            f == With(k.inputs, id, [tool |-> tool, filled |-> FALSE])
            g == [k EXCEPT !.inputs = f]
<1>1. ToolInputStart(h, id, tool) = g
  BY DEF ToolInputStart
<1>2. Acts(h, k, Ledger(h))
  BY CloseActs
<1>. HIDE DEF k
<1>3. Acts(k, g, Collected(Ledger(k), id, tool))
  <2>1. Acts(k, g, [Ledger(k) EXCEPT !.inputs = f]) /\ Ledger(k).inputs = k.inputs
    <3>. HIDE DEF f
    <3>1. QED
      BY <1>2, InputsActs DEF Acts
  <2>. HIDE DEF g
  <2>2. QED
    BY <2>1 DEF Collected
<1>. HIDE DEF g
<1>4. QED
  BY <1>1, <1>2, <1>3, ActsOn

LEMMA ToolInputDeltaActs ==
  ASSUME NEW h, Whole(h), NEW id PROVE Acts(h, ToolInputDelta(h, id), Filled(Ledger(h), id))
<1>. DEFINE f == [h.inputs EXCEPT ![id].filled = TRUE]
<1>1. ToolInputDelta(h, id) = IF id \notin DOMAIN h.inputs THEN h ELSE [h EXCEPT !.inputs = f]
  BY DEF ToolInputDelta
<1>2. Acts(h, h, Ledger(h))
  BY ActsNot
<1>3. Filled(Ledger(h), id) = IF id \notin DOMAIN h.inputs THEN Ledger(h) ELSE [Ledger(h) EXCEPT !.inputs = f]
  <2>1. Ledger(h).inputs = h.inputs
    BY InputsActs
  <2>2. QED
    BY <2>1 DEF Filled
<1>. HIDE DEF f
<1>4. Acts(h, [h EXCEPT !.inputs = f], [Ledger(h) EXCEPT !.inputs = f])
  BY InputsActs
<1>5. QED
  BY <1>1, <1>2, <1>3, <1>4

LEMMA DismissActs ==
  ASSUME NEW h, Whole(h), NEW id PROVE Acts(h, WithoutInput(h, id), Dismissed(Ledger(h), id))
<1>. DEFINE f == Restrict(h.inputs, DOMAIN h.inputs \ {id})
<1>1. WithoutInput(h, id) = [h EXCEPT !.inputs = f]
  BY DEF WithoutInput
<1>2. Dismissed(Ledger(h), id) = [Ledger(h) EXCEPT !.inputs = f]
  <2>1. Ledger(h).inputs = h.inputs
    BY InputsActs
  <2>2. QED
    BY <2>1 DEF Dismissed
<1>. HIDE DEF f
<1>3. Acts(h, [h EXCEPT !.inputs = f], [Ledger(h) EXCEPT !.inputs = f])
  BY InputsActs
<1>4. QED
  BY <1>1, <1>2, <1>3

LEMMA DismissTakes ==
  ASSUME NEW h, Whole(h), NEW id, NEW c
  PROVE  Acts(h, AcceptToolCall(WithoutInput(h, id), c), Take(Dismissed(Ledger(h), id), c, TRUE))
<1>. DEFINE k == WithoutInput(h, id)
            g == AcceptToolCall(k, c)
            d == TRUE
<1>1. Acts(h, k, Dismissed(Ledger(h), id))
  BY DismissActs
<1>. HIDE DEF k
<1>2. Acts(k, g, Take(Ledger(k), c, d))
  BY <1>1, AcceptActs DEF Acts
<1>. HIDE DEF g, d
<1>3. Acts(h, g, Take(Dismissed(Ledger(h), id), c, d))
  BY <1>1, <1>2, ActsOn
<1>4. QED
  BY <1>3 DEF g, k, d

LEMMA ToolInputEndActs ==
  ASSUME NEW h, Whole(h), NEW id PROVE Acts(h, ToolInputEnd(h, id), Ended(Ledger(h), id))
<1>. DEFINE c == [id |-> id, tool |-> h.inputs[id].tool, filled |-> h.inputs[id].filled]
<1>1. Ledger(h).inputs = h.inputs
  BY InputsActs
<1>2. CASE id \notin DOMAIN h.inputs
  <2>1. ToolInputEnd(h, id) = h /\ Ended(Ledger(h), id) = Ledger(h)
    BY <1>1, <1>2 DEF ToolInputEnd, Ended
  <2>2. QED
    BY <2>1, ActsNot
<1>3. CASE id \in DOMAIN h.inputs
  <2>1. /\ ToolInputEnd(h, id) = AcceptToolCall(WithoutInput(h, id), c)
        /\ Ended(Ledger(h), id) = Take(Dismissed(Ledger(h), id), c, TRUE)
    BY <1>1, <1>3 DEF ToolInputEnd, Ended
  <2>. HIDE DEF c
  <2>2. QED
    BY <2>1, DismissTakes
<1>4. QED
  BY <1>2, <1>3

LEMMA ToolCallActs ==
  ASSUME NEW h, Whole(h), NEW id, NEW tool
  PROVE  Acts(h, ToolCall(h, id, tool), Called(Ledger(h), [id |-> id, tool |-> tool, filled |-> TRUE]))
<1>. DEFINE c == [id |-> id, tool |-> tool, filled |-> TRUE]
            x == Ledger(h)
            d == TRUE
<1>0. ToolCall(h, id, tool) = IF id \notin h.handled /\ Accepts(h, c, d) THEN AcceptToolCall(WithoutInput(h, id), c)
                              ELSE AcceptToolCall(h, c)
  BY DEF ToolCall
<1>1. c.id = id
  OBVIOUS
<1>2. Called(x, c) = IF id \notin x.handled /\ Accepts(x, c, d) THEN Take(Dismissed(x, id), c, d) ELSE Take(x, c, d)
  BY <1>1 DEF Called
<1>3. Acts(h, AcceptToolCall(WithoutInput(h, id), c), Take(Dismissed(x, id), c, d)) /\ Acts(h, AcceptToolCall(h, c), Take(x, c, d))
  <2>. HIDE DEF c
  <2>1. QED
    BY DismissTakes, AcceptActs
<1>. HIDE DEF c, d
<1>4. (Accepts(h, c, d) <=> Accepts(x, c, d)) /\ x.handled = h.handled
  BY AcceptsLedger DEF Ledger
<1>. HIDE DEF x
<1>5. QED
  BY <1>0, <1>2, <1>3, <1>4 DEF c, x

LEMMA UsageAlike == ASSUME NEW h, Whole(h) PROVE Alike(h, [h EXCEPT !.usage = TRUE])
BY DEF Alike, Whole, Fields, SameBooks, SameStore, SameCounts

-----------------------------------------------------------------------------
(* An upstream that sends the blocks itself. *)

Started(x, i, type, c) ==
  IF type = "thinking" /\ x.suppress THEN [x EXCEPT !.skipped = x.skipped \cup {i}]
  ELSE IF type = "tool_use" THEN [x EXCEPT !.directTools = With(x.directTools, i, c)]
  ELSE x
Grown(x, i, type, t) ==
  IF i \in x.skipped THEN x
  ELSE IF i \in DOMAIN x.directTools THEN [x EXCEPT !.directTools = [x.directTools EXCEPT ![i].filled = TRUE]]
  ELSE IF type = "text" THEN Saying(x, t) ELSE x
Delivering(x, i) == [x EXCEPT !.directTools = Restrict(x.directTools, DOMAIN x.directTools \ {i})]
Stopped(x, i) ==
  IF i \in x.skipped THEN [x EXCEPT !.skipped = x.skipped \ {i}]
  ELSE IF i \in DOMAIN x.directTools THEN Take(Delivering(x, i), x.directTools[i], FALSE)
  ELSE x

LEMMA BookFields ==
  ASSUME NEW h
  PROVE  /\ Ledger(h).skipped = h.skipped /\ Ledger(h).directTools = h.directTools /\ Ledger(h).suppress = h.suppress
         /\ Ledger(h).handled = h.handled /\ Ledger(h).chunks = h.chunks
BY DEF Ledger

LEMMA IndexAlike == ASSUME NEW h, Whole(h), NEW i PROVE Alike(h, [h EXCEPT !.blockIndex = i])
BY DEF Alike, Whole, Fields, SameBooks, SameStore, SameCounts

\* The index of a block that the upstream starts.
Placed(h, type, j, i) == [h EXCEPT !.blockIndex = j, !.activeType = type, ![type] = i]

LEMMA PlaceActs ==
  ASSUME NEW h, Whole(h), NEW type \in {"text", "thinking"}, NEW j, NEW i, type = "text" => Textual(h)
  PROVE  LET g == Placed(h, type, j, i)
         IN Acts(h, g, Ledger(h)) /\ g.block = h.block /\ g.cut = h.cut /\ g.view = h.view
<1>. DEFINE g == Placed(h, type, j, i)
<1>1. /\ Whole(g) /\ g.stream = h.stream /\ g.hasReturn = h.hasReturn /\ g.view = h.view /\ g.cut = h.cut
      /\ SameBooks(h, g) /\ SameCounts(h, g) /\ g.content = h.content /\ g.block = h.block /\ g.activeType = type
      /\ type = "thinking" => g.text = h.text
  <2>1. CASE type = "text"
    BY <2>1 DEF Placed, Whole, Fields, SameBooks, SameCounts
  <2>2. CASE type = "thinking"
    BY <2>2 DEF Placed, Whole, Fields, SameBooks, SameCounts
  <2>3. QED
    BY <2>1, <2>2
<1>. HIDE DEF g
<1>2. ASSUME ~h.stream, Ready(h) PROVE Kept(g)
  <2>1. Kept(h) /\ (type = "text" => h.block.text # 0)
    BY <1>2 DEF Ready, Textual
  <2>2. QED
    BY <1>1, <2>1 DEF Kept, SameCounts, SameBooks
<1>3. Acts(h, g, Ledger(h))
  BY <1>1, <1>2, SameSays, StoreActs
<1>4. QED
  BY <1>1, <1>3 DEF g

LEMMA BlockStartActs ==
  ASSUME NEW h, Whole(h), NEW type \in {"text", "thinking"}, NEW i
  PROVE  LET b == IF h.stream THEN h ELSE EnsureBlock(h, type)
             g == Write([b EXCEPT !.blockIndex = IF i > @ THEN i ELSE @, !.activeType = type, ![type] = i],
                        BlockStart(i, type, NoText))
         IN Acts(h, g, Ledger(h)) /\ (type = "text" /\ Heard(g) /\ Ready(h) => Textual(g))
<1>. DEFINE b == IF h.stream THEN h ELSE EnsureBlock(h, type)
            j == IF i > b.blockIndex THEN i ELSE b.blockIndex
            k == Placed(b, type, j, i)
            f == BlockStart(i, type, NoText)
            g == Write(k, f)
<1>1. Acts(h, b, Ledger(h)) /\ (type = "text" /\ Heard(b) /\ Ready(h) => Textual(b))
  <2>1. CASE h.stream
    <3>1. b = h
      BY <2>1
    <3>2. Textual(h)
      BY <2>1 DEF Textual
    <3>3. QED
      BY <3>1, <3>2, ActsNot
  <2>2. CASE ~h.stream
    BY <2>2, EnsureActs
  <2>3. QED
    BY <2>1, <2>2
<1>. HIDE DEF b, j
<1>2. Whole(k) /\ k.stream = b.stream /\ k.cut = b.cut /\ k.view = b.view
  <2>1. CASE type = "text"
    BY <1>1, <2>1 DEF Placed, Acts, Whole, Fields
  <2>2. CASE type = "thinking"
    BY <1>1, <2>2 DEF Placed, Acts, Whole, Fields
  <2>3. QED
    BY <2>1, <2>2
<1>3. (type = "text" => Textual(b)) => Acts(b, k, Ledger(b)) /\ k.block = b.block
  <2>1. Whole(b)
    BY <1>1 DEF Acts
  <2>2. ASSUME type = "text" => Textual(b) PROVE Acts(b, k, Ledger(b)) /\ k.block = b.block
    BY <2>1, <2>2, PlaceActs
  <2>3. QED
    BY <2>2
<1>. HIDE DEF k
<1>4. f.ev = "content_block_start" /\ f.type # "tool_use"
  BY FrameKinds
<1>. HIDE DEF f
<1>5. Acts(k, g, Ledger(k)) /\ Whole(g) /\ g.stream = k.stream /\ (Heard(g) => Heard(k))
  BY <1>2, <1>4, QuietActs, WriteWhole
<1>6. Heard(k) => Heard(b)
  BY <1>2 DEF Heard
<1>7. ASSUME Heard(g), Ready(h) PROVE Acts(h, g, Ledger(h)) /\ (type = "text" => Textual(g))
  <2>1. type = "text" => Textual(b)
    BY <1>1, <1>5, <1>6, <1>7
  <2>2. Acts(b, k, Ledger(b)) /\ k.block = b.block
    BY <1>3, <2>1
  <2>3. Acts(h, k, Ledger(h))
    BY <1>1, <2>2, ActsCalm
  <2>4. Acts(h, g, Ledger(h))
    BY <1>5, <2>3, ActsCalm
  <2>5. ASSUME type = "text" PROVE Textual(g)
    <3>1. Ready(b) /\ Ready(k) /\ k.hasReturn = FALSE
      BY <1>1, <1>5, <1>6, <1>7, <2>2 DEF Acts, Ready
    <3>2. Tells(k, g, f)
      BY <1>2, <3>1, WriteTells
    <3>3. b.stream = g.stream /\ g.block = b.block /\ Textual(b)
      BY <1>2, <1>5, <2>1, <2>2, <2>5, <3>2 DEF Tells, SameStore
    <3>4. QED
      BY <3>1, <3>3 DEF Textual
  <2>6. QED
    BY <2>4, <2>5
<1>8. Acts(h, g, Ledger(h))
  <2>1. Whole(g) /\ g.stream = h.stream /\ (Heard(g) => Heard(h))
    BY <1>1, <1>2, <1>5, <1>6 DEF Acts
  <2>. HIDE DEF g
  <2>2. QED
    BY <1>7, <2>1, ActsIf
<1>. HIDE DEF g
<1>9. QED
  BY <1>7, <1>8 DEF b, j, k, f, g, Placed

LEMMA DirectStartActs ==
  ASSUME NEW h, Whole(h), NEW i, NEW type \in {"text", "thinking", "tool_use"}, NEW c
  PROVE  LET g == DirectStart(h, i, type, c)
         IN Acts(h, g, Started(Ledger(h), i, type, c)) /\ (type = "text" /\ Heard(g) /\ Ready(h) => Textual(g))
<1>. DEFINE g == DirectStart(h, i, type, c)
<1>1. CASE type = "thinking" /\ h.suppress
  <2>. DEFINE f == h.skipped \cup {i}
  <2>1. g = [h EXCEPT !.skipped = f] /\ Started(Ledger(h), i, type, c) = [Ledger(h) EXCEPT !.skipped = f]
    BY <1>1, BookFields DEF DirectStart, Started
  <2>. HIDE DEF f, g
  <2>2. Acts(h, g, Started(Ledger(h), i, type, c))
    BY <2>1, SkippedActs
  <2>3. QED
    BY <1>1, <2>2 DEF g
<1>2. CASE type = "tool_use"
  <2>. DEFINE j == IF i > h.blockIndex THEN i ELSE h.blockIndex
              a == [h EXCEPT !.blockIndex = j]
              f == With(h.directTools, i, c)
              k == [a EXCEPT !.directTools = f]
  <2>. HIDE DEF j
  <2>1. Alike(h, a) /\ a.directTools = h.directTools
    BY IndexAlike DEF Whole, Fields
  <2>2. g = [a EXCEPT !.directTools = With(@, i, c)]
    BY <1>2 DEF DirectStart, j
  <2>. HIDE DEF a, g
  <2>3. g = k
    BY <2>1, <2>2
  <2>4. Started(Ledger(h), i, type, c) = [Ledger(h) EXCEPT !.directTools = f]
    BY <1>2, BookFields DEF Started
  <2>. HIDE DEF f
  <2>5. Acts(h, a, Ledger(h)) /\ Whole(a)
    BY <2>1, AlikeActs DEF Alike
  <2>6. Acts(a, k, [Ledger(a) EXCEPT !.directTools = f])
    BY <2>5, DirectToolsActs
  <2>. HIDE DEF k
  <2>7. Acts(h, k, [Ledger(h) EXCEPT !.directTools = f])
    BY <2>5, <2>6, ActsOn
  <2>8. QED
    BY <1>2, <2>3, <2>4, <2>7 DEF g
<1>3. CASE type # "tool_use" /\ ~(type = "thinking" /\ h.suppress)
  <2>. DEFINE b == IF h.stream THEN h ELSE EnsureBlock(h, type)
              k == Write([b EXCEPT !.blockIndex = IF i > @ THEN i ELSE @, !.activeType = type, ![type] = i],
                         BlockStart(i, type, NoText))
  <2>1. g = k /\ Started(Ledger(h), i, type, c) = Ledger(h)
    BY <1>3, BookFields DEF DirectStart, Started
  <2>2. Acts(h, k, Ledger(h)) /\ (type = "text" /\ Heard(k) /\ Ready(h) => Textual(k))
    BY <1>3, BlockStartActs
  <2>. HIDE DEF k, g
  <2>3. QED
    BY <2>1, <2>2 DEF g
<1>4. QED
  BY <1>1, <1>2, <1>3

\* A delta of a text or of a thought.
LEMMA BlockDeltaActs ==
  ASSUME NEW h, Whole(h), NEW i, NEW type, NEW t,
         Heard(h) /\ Ready(h) => type \in {"text", "thinking"} /\ (type = "text" => Textual(h))
  PROVE  LET b == IF h.stream THEN h ELSE Build(h, type, t)
             m == IF type = "text" THEN CountTokens([b EXCEPT !.hasText = TRUE]) ELSE b
         IN Acts(h, Write(m, BlockDelta(i, type, t)), IF type = "text" THEN Saying(Ledger(h), t) ELSE Ledger(h))
<1>. DEFINE b == IF h.stream THEN h ELSE Build(h, type, t)
            a == [b EXCEPT !.hasText = TRUE]
            m == IF type = "text" THEN CountTokens(a) ELSE b
            f == BlockDelta(i, type, t)
            g == Write(m, f)
            z == IF type = "text" THEN Saying(Ledger(h), t) ELSE Ledger(h)
<1>1. Whole(b) /\ b.stream = h.stream /\ b.cut = h.cut /\ b.view = h.view
  BY DEF Build, Whole, Fields
<1>2. h.stream => b = h
  OBVIOUS
<1>3. h.stream = FALSE /\ Heard(h) /\ Ready(h) => Acts(h, b, z)
  <2>1. ASSUME h.stream = FALSE, Heard(h), Ready(h) PROVE Acts(h, b, z)
    <3>1. Acts(h, Build(h, type, t), IF h.stream \/ type = "thinking" THEN Ledger(h) ELSE Saying(Ledger(h), t))
      BY <2>1, BuildActs
    <3>2. QED
      BY <2>1, <3>1
  <2>2. QED
    BY <2>1
<1>. HIDE DEF b, z
<1>4. Alike(b, m) \/ m = b
  <2>1. Alike(b, a)
    BY <1>1, TextAlike
  <2>. HIDE DEF a
  <2>2. Alike(a, CountTokens(a))
    BY <2>1, CountAlike DEF Alike
  <2>3. QED
    BY <2>1, <2>2, AlikeOn
<1>. HIDE DEF m
<1>5. Acts(b, m, Ledger(b)) /\ m.cut = b.cut /\ m.view = b.view
  BY <1>1, <1>4, AlikeActs, ActsNot DEF Alike
<1>6. f.ev = "content_block_delta" /\ f.type = type /\ f.data = t
  BY FrameKinds
<1>. HIDE DEF f
<1>7. Whole(m) /\ m.stream = h.stream /\ (Heard(m) => Heard(h))
  BY <1>1, <1>5 DEF Acts, Heard
<1>8. Whole(g) /\ g.stream = h.stream /\ (Heard(g) => Heard(h))
  BY <1>7, WriteWhole
<1>. HIDE DEF g
<1>9. ASSUME Heard(g), Ready(h), h.stream = FALSE PROVE Acts(h, g, z)
  <2>1. g = m
    BY <1>7, <1>9 DEF Write, g
  <2>2. Acts(h, b, z)
    BY <1>3, <1>8, <1>9
  <2>3. QED
    BY <1>5, <2>1, <2>2, ActsCalm
<1>10. ASSUME Heard(g), Ready(h), h.stream PROVE Acts(h, g, z)
  <2>1. type \in {"text", "thinking"}
    BY <1>8, <1>10
  <2>2. Acts(h, m, Ledger(h))
    BY <1>2, <1>5, <1>10
  <2>. DEFINE y == IF m.stream THEN [Ledger(m) EXCEPT !.says = SaysAfter(@, f)] ELSE Ledger(m)
  <2>3. Acts(m, g, y)
    BY <1>6, <1>7, WriteActs DEF g
  <2>4. y = IF type = "text" THEN Saying(Ledger(m), t) ELSE Ledger(m)
    <3>1. CASE type = "text"
      BY <1>6, <1>7, <1>10, <3>1 DEF SaysAfter, Saying
    <3>2. CASE type = "thinking"
      <4>1. SaysAfter(Ledger(m).says, f) = Ledger(m).says
        BY <1>6, <3>2 DEF SaysAfter
      <4>2. [Ledger(m) EXCEPT !.says = SaysAfter(@, f)] = Ledger(m)
        BY <4>1 DEF Ledger
      <4>3. QED
        BY <3>2, <4>2
    <3>3. QED
      BY <2>1, <3>1, <3>2
  <2>. HIDE DEF y
  <2>5. QED
    BY <2>2, <2>3, <2>4, ActsOn DEF z
<1>11. Acts(h, g, z)
  BY <1>8, <1>9, <1>10, ActsIf DEF Whole
<1>12. QED
  BY <1>11 DEF b, m, f, g, z

LEMMA DirectDeltaActs ==
  ASSUME NEW h, Whole(h), NEW i, NEW type, NEW t, i \notin h.skipped \/ i \notin DOMAIN h.directTools,
         Heard(h) /\ Ready(h) => \/ type \in {"text", "thinking"} /\ (type = "text" => Textual(h))
                                 \/ i \in DOMAIN h.directTools
  PROVE  Acts(h, DirectDelta(h, i, type, t), Grown(Ledger(h), i, type, t))
<1>. DEFINE g == DirectDelta(h, i, type, t)
            z == Grown(Ledger(h), i, type, t)
<1>1. CASE i \in h.skipped
  <2>1. g = h /\ z = Ledger(h)
    BY <1>1, BookFields DEF DirectDelta, Grown
  <2>2. QED
    BY <2>1, ActsNot
<1>2. CASE i \in DOMAIN h.directTools
  <2>. DEFINE f == [h.directTools EXCEPT ![i].filled = TRUE]
  <2>1. g = [h EXCEPT !.directTools = f] /\ z = [Ledger(h) EXCEPT !.directTools = f]
    BY <1>2, BookFields DEF DirectDelta, Grown
  <2>. HIDE DEF f, g, z
  <2>2. QED
    BY <2>1, DirectToolsActs DEF g, z
<1>3. CASE i \notin h.skipped /\ i \notin DOMAIN h.directTools
  <2>. DEFINE b == IF h.stream THEN h ELSE Build(h, type, t)
              m == IF type = "text" THEN CountTokens([b EXCEPT !.hasText = TRUE]) ELSE b
              k == Write(m, BlockDelta(i, type, t))
              y == IF type = "text" THEN Saying(Ledger(h), t) ELSE Ledger(h)
  <2>1. g = k
    BY <1>3 DEF DirectDelta
  <2>2. z = y
    BY <1>3, BookFields DEF Grown
  <2>3. Acts(h, k, y)
    BY <1>3, BlockDeltaActs
  <2>. HIDE DEF g, z, k, y
  <2>4. QED
    BY <2>1, <2>2, <2>3 DEF g, z
<1>4. QED
  BY <1>1, <1>2, <1>3

LEMMA DirectToolStopActs ==
  ASSUME NEW h, Whole(h), NEW i
  PROVE  Acts(h, DirectToolStop(h, i), Take(Delivering(Ledger(h), i), h.directTools[i], FALSE))
<1>. DEFINE c == h.directTools[i]
            d == FALSE
            r == Restrict(h.directTools, DOMAIN h.directTools \ {i})
            e == [h EXCEPT !.directTools = r]
            k == Remember(e, c, d)
            x == Delivering(Ledger(h), i)
            y == Remember(x, c, d)
            w == [k EXCEPT !.handled = @ \cup {c.id}]
            z == [y EXCEPT !.handled = @ \cup {c.id}, !.calls = Append(@, c.tool)]
            b == [CountTokens(w) EXCEPT !.emitted = @ \cup {c.id}, !.count = @ + 1]
            g == DirectToolStop(h, i)
<1>1. g = IF c.id \in h.handled THEN e
          ELSE IF ~Accepts(h, c, d) THEN k
          ELSE IF ~h.stream THEN Postpone(w, c)
          ELSE IF c.id \in h.emitted THEN w
          ELSE ToolBlock(b, i, c)
  BY DEF DirectToolStop
<1>2. Take(x, c, d) = IF c.id \in x.handled THEN x ELSE IF Accepts(x, c, d) THEN z ELSE y
  BY DEF Take
<1>3. x = [Ledger(h) EXCEPT !.directTools = r]
  BY BookFields DEF Delivering
<1>. HIDE DEF c, d, r, g, x, z, b
<1>4. Acts(h, e, x)
  BY <1>3, DirectToolsActs
<1>5. /\ e.handled = h.handled /\ e.stream = h.stream /\ e.emitted = h.emitted /\ e.disallow = h.disallow /\ e.dedup = h.dedup
      /\ e.hasReturn = h.hasReturn /\ e.view = h.view /\ e.cut = h.cut /\ SameStore(h, e) /\ SameCounts(h, e)
      /\ e.chunks = h.chunks
  BY DEF Whole, Fields, SameStore, SameCounts
<1>6. Ledger(e) = x
  <2>1. /\ e.intros = h.intros /\ e.last = h.last /\ e.seed = h.seed /\ e.dropped = h.dropped
        /\ e.suppress = h.suppress /\ e.earlier = h.earlier /\ e.inputs = h.inputs
        /\ e.directTools = r /\ e.skipped = h.skipped /\ e.over = h.over
        /\ Says(e) = Says(h) /\ Calls(e) = Calls(h)
    BY <1>5 DEF Whole, Fields, Says, Calls, SameStore, SameCounts
  <2>. HIDE DEF e
  <2>2. QED
    BY <1>3, <1>5, <2>1 DEF Ledger
<1>. HIDE DEF e
<1>7. Accepts(h, c, d) <=> Accepts(e, c, d)
  BY <1>5 DEF Accepts
<1>8. /\ Whole(k) /\ k.stream = e.stream /\ k.hasReturn = e.hasReturn /\ k.view = e.view /\ k.cut = e.cut
      /\ SameStore(e, k) /\ SameCounts(e, k) /\ k.chunks = e.chunks /\ k.handled = e.handled
      /\ Ledger(k) = Remember(Ledger(e), c, d)
  BY <1>4, RememberSets DEF Acts
<1>9. (Accepts(e, c, d) <=> Accepts(x, c, d)) /\ x.handled = h.handled
  <2>1. Accepts(e, c, d) <=> Accepts(Ledger(e), c, d)
    BY <1>4, AcceptsLedger DEF Acts
  <2>2. QED
    BY <1>5, <1>6, <2>1, BookFields
<1>10. Ledger(k) = y
  BY <1>6, <1>8
<1>. HIDE DEF k, y
<1>11. Acts(h, k, y)
  <2>1. SameStore(h, k) /\ SameCounts(h, k)
    BY <1>5, <1>8 DEF SameStore, SameCounts
  <2>2. h.handled \subseteq k.handled
    BY <1>5, <1>8
  <2>3. QED
    BY <1>5, <1>8, <1>10, <2>1, <2>2, BookActs
<1>12. /\ Whole(w) /\ w.stream = k.stream /\ w.hasReturn = k.hasReturn /\ w.view = k.view /\ w.cut = k.cut
       /\ SameStore(k, w) /\ SameCounts(k, w) /\ w.chunks = k.chunks /\ w.handled = h.handled \cup {c.id}
  BY <1>5, <1>8 DEF Whole, Fields, SameStore, SameCounts
<1>13. Ledger(w) = [y EXCEPT !.handled = @ \cup {c.id}]
  <2>1. /\ SameOthers(k, w) /\ w.dedup = k.dedup /\ w.seed = k.seed /\ w.dropped = k.dropped
        /\ Says(w) = Says(k) /\ Calls(w) = Calls(k)
    BY <1>8, <1>12 DEF Whole, Fields, SameOthers, SameStore, SameCounts, Says, Calls
  <2>. HIDE DEF w
  <2>2. Ledger(w) = [Ledger(k) EXCEPT !.handled = w.handled]
    BY <1>12, <2>1, OneEntry
  <2>3. Ledger(k).handled = h.handled
    BY <1>5, <1>8, BookFields
  <2>4. QED
    BY <1>10, <1>12, <2>2, <2>3
<1>. HIDE DEF w
<1>14. z = [Ledger(w) EXCEPT !.calls = Append(@, c.tool)]
  <2>1. QED
    BY <1>10, <1>13 DEF Ledger, z
<1>15. SameStore(h, w) /\ SameCounts(h, w)
  BY <1>5, <1>8, <1>12 DEF SameStore, SameCounts
<1>16. CASE c.id \in h.handled
  BY <1>1, <1>2, <1>4, <1>9, <1>16 DEF c, d, g, x
<1>17. CASE c.id \notin h.handled /\ ~Accepts(h, c, d)
  BY <1>1, <1>2, <1>7, <1>9, <1>11, <1>17 DEF c, d, g, x
<1>18. CASE c.id \notin h.handled /\ Accepts(h, c, d)
  <2>0. Take(x, c, d) = z
    BY <1>2, <1>7, <1>9, <1>18
  <2>1. CASE ~h.stream
    <3>1. Acts(h, Postpone(w, c), [Ledger(w) EXCEPT !.calls = Append(@, c.tool)])
      BY <1>5, <1>8, <1>12, <1>15, <2>1, PostponeActs
    <3>2. g = Postpone(w, c)
      BY <1>1, <1>18, <2>1
    <3>3. Acts(h, g, Take(x, c, d))
      BY <1>14, <2>0, <3>1, <3>2
    <3>4. QED
      BY <3>3 DEF c, d, g, x
  <2>2. CASE h.stream /\ c.id \in h.emitted
    <3>1. g = w
      BY <1>1, <1>18, <2>2
    <3>2. ~Ready(h)
      BY <1>18, <2>2 DEF Ready
    <3>3. Whole(g) /\ g.stream = h.stream /\ (Heard(g) => Heard(h))
      BY <1>5, <1>8, <1>12, <3>1 DEF Heard
    <3>4. Acts(h, g, Take(x, c, d))
      BY <3>2, <3>3 DEF Acts
    <3>5. QED
      BY <3>4 DEF c, d, g, x
  <2>3. CASE h.stream /\ c.id \notin h.emitted
    <3>1. g = ToolBlock(b, i, c)
      BY <1>1, <1>18, <2>3
    <3>2. /\ Whole(b) /\ b.stream = w.stream /\ b.hasReturn = w.hasReturn /\ b.view = w.view /\ b.cut = w.cut
          /\ b.pending = w.pending /\ b.emitted = w.emitted \cup {c.id} /\ SameBooks(w, b)
      BY ZenonT(60), <1>12 DEF CountTokens, Whole, Fields, SameBooks, b
    <3>3. Ledger(b) = Ledger(w)
      BY <1>5, <1>8, <1>12, <2>3, <3>2 DEF SameBooks, Ledger, Says, Calls
    <3>4. b.pending = h.pending /\ b.emitted = h.emitted \cup {c.id} /\ b.handled = h.handled \cup {c.id}
      BY <1>12, <1>15, <3>2 DEF SameCounts, SameBooks
    <3>5. Acts(h, ToolBlock(b, i, c), [Ledger(b) EXCEPT !.calls = Append(@, c.tool)])
      BY ZenonT(60), <1>5, <1>8, <1>12, <2>3, <3>2, <3>4, GiveActs
    <3>6. Acts(h, g, Take(x, c, d))
      BY <1>14, <2>0, <3>1, <3>3, <3>5
    <3>7. QED
      BY <3>6 DEF c, d, g, x
  <2>4. QED
    BY <2>1, <2>2, <2>3
<1>19. QED
  BY <1>16, <1>17, <1>18

LEMMA DirectStopActs ==
  ASSUME NEW h, Whole(h), NEW i, i \notin h.skipped \/ i \notin DOMAIN h.directTools
  PROVE  Acts(h, DirectStop(h, i), Stopped(Ledger(h), i))
<1>. DEFINE g == DirectStop(h, i)
            z == Stopped(Ledger(h), i)
<1>1. CASE i \in h.skipped
  <2>. DEFINE f == h.skipped \ {i}
  <2>1. g = [h EXCEPT !.skipped = f] /\ z = [Ledger(h) EXCEPT !.skipped = f]
    BY <1>1, BookFields DEF DirectStop, Stopped
  <2>. HIDE DEF f, g, z
  <2>2. QED
    BY <2>1, SkippedActs DEF g, z
<1>2. CASE i \in DOMAIN h.directTools
  <2>1. g = DirectToolStop(h, i) /\ z = Take(Delivering(Ledger(h), i), h.directTools[i], FALSE)
    BY <1>2, BookFields DEF DirectStop, Stopped
  <2>. HIDE DEF g, z
  <2>2. QED
    BY <2>1, DirectToolStopActs DEF g, z
<1>3. CASE i \notin h.skipped /\ i \notin DOMAIN h.directTools
  <2>. DEFINE ends == {type \in {"text", "thinking"} : h[type] = i}
              k == [h EXCEPT !.text = IF "text" \in ends THEN -1 ELSE @,
                             !.thinking = IF "thinking" \in ends THEN -1 ELSE @,
                             !.activeType = IF @ \in ends THEN "none" ELSE @]
  <2>1. g = Write(k, BlockStop(i)) /\ z = Ledger(h)
    BY <1>3, BookFields DEF DirectStop, Stopped
  <2>. HIDE DEF g, z, ends
  <2>2. /\ Whole(k) /\ k.stream = h.stream /\ k.hasReturn = h.hasReturn /\ k.view = h.view /\ k.cut = h.cut
        /\ SameBooks(h, k) /\ SameCounts(h, k) /\ k.content = h.content /\ k.block = h.block
        /\ k.text \in {-1, h.text} /\ k.activeType \in {"none", h.activeType}
    BY ZenonT(60) DEF Whole, Fields, SameBooks, SameCounts
  <2>. HIDE DEF k
  <2>3. ASSUME ~h.stream, Ready(h) PROVE Kept(k)
    <3>1. Kept(h)
      BY <2>3 DEF Ready
    <3>2. k.text >= 0 => h.text >= 0
      BY <2>2
    <3>3. QED
      BY <2>2, <3>1, <3>2 DEF Kept, SameCounts, SameBooks
  <2>4. Acts(h, k, Ledger(h))
    BY <2>2, <2>3, SameSays, StoreActs
  <2>5. Acts(k, Write(k, BlockStop(i)), Ledger(k))
    BY <2>2, FrameKinds, QuietActs
  <2>6. QED
    BY <2>1, <2>4, <2>5, ActsCalm DEF g, z
<1>4. QED
  BY <1>1, <1>2, <1>3

LEMMA DirectMessageDeltaActs ==
  ASSUME NEW h, Whole(h), NEW reason PROVE Acts(h, DirectMessageDelta(h, reason), Ledger(h))
<1>. DEFINE k == [h EXCEPT !.stop = reason]
            f == MessageDelta(reason)
<1>1. Alike(h, k)
  BY DEF Alike, Whole, Fields, SameBooks, SameStore, SameCounts
<1>. HIDE DEF k
<1>2. Acts(h, k, Ledger(h)) /\ Whole(k)
  BY <1>1, AlikeActs DEF Alike
<1>3. f.ev = "message_delta"
  BY FrameKinds
<1>. HIDE DEF f
<1>4. Acts(k, Write(k, f), Ledger(k))
  BY <1>2, <1>3, QuietActs
<1>5. Acts(h, Write(k, f), Ledger(h))
  BY <1>2, <1>4, ActsCalm
<1>6. QED
  BY <1>5 DEF DirectMessageDelta, k, f

-----------------------------------------------------------------------------
(* The end of a response. *)

Returned(x) == [x EXCEPT !.hasReturn = TRUE]
Told(h) == IF h.stream THEN h.view.reason ELSE h.stop

\* From h the response returns with the ledger x; what was written to files may have become a text.
Ends(h, g, x) ==
  /\ Whole(g) /\ g.stream = h.stream /\ (Heard(g) => Heard(h))
  /\ Heard(g) /\ Ready(h) =>
       /\ g.hasReturn = TRUE
       /\ Ledger(g) = Returned(x) \/ (x.chunks # FALSE /\ Ledger(g) = Returned(Saying(x, Piece)))

LEMMA ActsEnd ==
  ASSUME NEW f, NEW g, NEW h, NEW x, Acts(f, g, x), Ends(g, h, Ledger(g))
  PROVE  Ends(f, h, x)
BY DEF Acts, Ends

LEMMA ReturnEntry ==
  ASSUME NEW h, NEW g, SameBooks(h, g), Calls(g) = Calls(h)
  PROVE  Ledger(g) = [[Ledger(h) EXCEPT !.says = Says(g)] EXCEPT !.hasReturn = g.hasReturn]
<1>. DEFINE x == [says |-> Says(g), calls |-> Calls(h), intros |-> h.intros, last |-> h.last,
                  dedup |-> h.dedup, seed |-> h.seed, dropped |-> h.dropped, handled |-> h.handled,
                  disallow |-> h.disallow, suppress |-> h.suppress, earlier |-> h.earlier, inputs |-> h.inputs,
                  directTools |-> h.directTools, skipped |-> h.skipped, chunks |-> h.chunks,
                  hasReturn |-> h.hasReturn, over |-> h.over]
<1>2. [Ledger(h) EXCEPT !.says = Says(g)] = x
  BY DEF Ledger
<1>3. Ledger(g) = [x EXCEPT !.hasReturn = g.hasReturn]
  BY DEF SameBooks, Ledger
<1>. HIDE DEF x
<1>4. QED
  BY <1>2, <1>3

LEMMA ReturnedBooks ==
  ASSUME NEW h, NEW g, SameBooks(h, g), Calls(g) = Calls(h), g.hasReturn = TRUE
  PROVE  /\ Says(g) = Says(h) => Ledger(g) = Returned(Ledger(h))
         /\ Says(g) = Append(Says(h), Piece) => Ledger(g) = Returned(Saying(Ledger(h), Piece))
<1>1. Ledger(g) = [[Ledger(h) EXCEPT !.says = Says(g)] EXCEPT !.hasReturn = g.hasReturn]
  BY ReturnEntry
<1>2. Ledger(h).says = Says(h)
  BY DEF Ledger
<1>3. [Ledger(h) EXCEPT !.says = Says(h)] = Ledger(h)
  BY DEF Ledger
<1>. DEFINE x == Ledger(h)
<1>. HIDE DEF x
<1>4. Ledger(g) = [[x EXCEPT !.says = Says(g)] EXCEPT !.hasReturn = TRUE] /\ x.says = Says(h)
      /\ [x EXCEPT !.says = Says(h)] = x
  BY <1>1, <1>2, <1>3 DEF x
<1>5. /\ Says(g) = Says(h) => Ledger(g) = Returned(x)
      /\ Says(g) = Append(Says(h), Piece) => Ledger(g) = Returned(Saying(x, Piece))
  BY <1>4 DEF Returned, Saying
<1>6. QED
  BY <1>5 DEF x

\* A stream to which frames are written: its client now has the texts s.
Sounds(h, g, s) ==
  /\ Whole(g) /\ g.stream /\ SameBooks(h, g)
  /\ Heard(g) => /\ Heard(h) /\ g.hasReturn = h.hasReturn
                 /\ g.view.tools = h.view.tools /\ g.view.text = s /\ g.view.reason = h.view.reason

LEMMA SoundsOn ==
  ASSUME NEW f, NEW g, NEW h, NEW s, NEW r, NEW q, Sounds(f, g, s), Sounds(g, h, r), Heard(g) /\ g.view.text = s => r = q
  PROVE  Sounds(f, h, q)
BY DEF Sounds, SameBooks

LEMMA SoundsCalm ==
  ASSUME NEW f, NEW g, NEW h, NEW s, Sounds(f, g, s), Sounds(g, h, g.view.text) PROVE Sounds(f, h, s)
BY SoundsOn

LEMMA Silence == ASSUME NEW h, Whole(h), h.stream PROVE Sounds(h, h, h.view.text)
BY DEF Sounds, SameBooks

LEMMA FinalSounds ==
  ASSUME NEW h, Whole(h), h.stream, NEW f, f.ev # "content_block_start" \/ f.type # "tool_use", f.ev # "message_delta"
  PROVE  Sounds(h, WriteFinal(h, f), SaysAfter(h.view.text, f))
<1>. DEFINE g == WriteFinal(h, f)
<1>1. Tells(h, g, f)
  BY FinalTells
<1>2. CallsAfter(h.view.tools, f) = h.view.tools
  BY DEF CallsAfter
<1>. HIDE DEF g
<1>3. QED
  BY <1>1, <1>2 DEF Tells, Sounds, g

LEMMA StopSounds ==
  ASSUME NEW h, Whole(h), h.stream
  PROVE  Sounds(h, IF h.stream /\ h.activeType # "none" THEN WriteFinal(PopActive(h), BlockStop(ActiveIndex(h))) ELSE h,
                h.view.text)
<1>1. CASE h.activeType = "none"
  BY <1>1, Silence
<1>2. CASE h.activeType # "none"
  <2>. DEFINE k == PopActive(h)
              f == BlockStop(ActiveIndex(h))
              g == WriteFinal(k, f)
  <2>1. /\ Whole(k) /\ k.stream = h.stream /\ k.hasReturn = h.hasReturn /\ k.view = h.view /\ k.cut = h.cut
        /\ SameBooks(h, k)
    BY ZenonT(60) DEF PopActive, Whole, Fields, SameBooks
  <2>2. f.ev = "content_block_stop"
    BY FrameKinds
  <2>. HIDE DEF k, f
  <2>3. Sounds(h, k, h.view.text)
    BY <2>1 DEF Sounds, Heard
  <2>4. SaysAfter(k.view.text, f) = k.view.text
    BY <2>2 DEF SaysAfter
  <2>5. Sounds(k, g, k.view.text)
    BY <2>1, <2>2, <2>4, FinalSounds
  <2>. HIDE DEF g
  <2>6. Sounds(h, g, h.view.text)
    BY <2>3, <2>5, SoundsCalm
  <2>7. QED
    BY <1>2, <2>6 DEF k, f, g
<1>3. QED
  BY <1>1, <1>2

LEMMA FallbackSounds ==
  ASSUME NEW h, Whole(h), h.stream
  PROVE  LET g == EmitWriteChunkFallback(h)
         IN Sounds(h, g, h.view.text) \/ (h.chunks # FALSE /\ Sounds(h, g, Append(h.view.text, Piece)))
<1>1. CASE h.hasText \/ ~h.chunks
  BY <1>1, Silence DEF EmitWriteChunkFallback
<1>2. CASE ~(h.hasText \/ ~h.chunks)
  <2>. DEFINE i == h.blockIndex + 1
              a == [h EXCEPT !.blockIndex = i, !.hasText = TRUE]
              f1 == BlockStart(i, "text", NoText)
              f2 == BlockDelta(i, "text", Piece)
              f3 == BlockStop(i)
              b == WriteFinal(a, f1)
              c == WriteFinal(b, f2)
              d == WriteFinal(c, f3)
  <2>1. EmitWriteChunkFallback(h) = d
    BY <1>2 DEF EmitWriteChunkFallback, EmitFinalTextBlock
  <2>2. Whole(a) /\ a.stream /\ SameBooks(h, a) /\ a.view = h.view /\ a.cut = h.cut /\ a.hasReturn = h.hasReturn
    BY DEF Whole, Fields, SameBooks
  <2>. HIDE DEF a, i
  <2>3. /\ f1.ev = "content_block_start" /\ f1.type = "text"
        /\ f2.ev = "content_block_delta" /\ f2.type = "text" /\ f2.data = Piece
        /\ f3.ev = "content_block_stop"
    BY FrameKinds
  <2>. HIDE DEF f1, f2, f3
  <2>4. Sounds(h, a, h.view.text)
    BY <2>2 DEF Sounds, Heard
  <2>5. Sounds(a, b, a.view.text)
    <3>1. SaysAfter(a.view.text, f1) = a.view.text
      BY <2>3 DEF SaysAfter
    <3>2. QED
      BY <2>2, <2>3, <3>1, FinalSounds
  <2>. HIDE DEF b
  <2>6. Sounds(b, c, Append(b.view.text, Piece))
    <3>1. SaysAfter(b.view.text, f2) = Append(b.view.text, Piece)
      BY <2>3 DEF SaysAfter
    <3>2. Whole(b) /\ b.stream
      BY <2>5 DEF Sounds
    <3>3. QED
      BY <2>3, <3>1, <3>2, FinalSounds
  <2>. HIDE DEF c
  <2>7. Sounds(c, d, c.view.text)
    <3>1. SaysAfter(c.view.text, f3) = c.view.text
      BY <2>3 DEF SaysAfter
    <3>2. Whole(c) /\ c.stream
      BY <2>6 DEF Sounds
    <3>3. QED
      BY <2>3, <3>1, <3>2, FinalSounds
  <2>. HIDE DEF d
  <2>8. Sounds(h, b, h.view.text)
    BY <2>4, <2>5, SoundsCalm
  <2>9. Sounds(h, c, Append(h.view.text, Piece))
    BY <2>6, <2>8, SoundsOn
  <2>10. Sounds(h, d, Append(h.view.text, Piece))
    BY <2>7, <2>9, SoundsCalm
  <2>11. h.chunks # FALSE
    BY <1>2
  <2>12. QED
    BY <2>1, <2>10, <2>11
<1>3. QED
  BY <1>1, <1>2

LEMMA FlushSounds ==
  ASSUME NEW h, Whole(h), h.stream PROVE Sounds(h, FlushPendingToolCalls(h), h.view.text)
<1>. DEFINE e == [k \in 1..Len(h.pending) |-> [type |-> "tool_use", data |-> <<h.pending[k].tool>>]]
            a == IF h.pending = <<>> THEN h ELSE CountTokens(h)
            c == a.content \o e
            g == [a EXCEPT !.content = c, !.pending = <<>>]
<1>1. FlushPendingToolCalls(h) = g
  BY DEF FlushPendingToolCalls
<1>2. Alike(h, a) \/ a = h
  BY CountAlike
<1>. HIDE DEF a
<1>3. Whole(a) /\ a.stream /\ SameBooks(h, a) /\ a.view = h.view /\ a.cut = h.cut /\ a.hasReturn = h.hasReturn
  BY <1>2 DEF Alike, SameBooks
<1>. HIDE DEF c
<1>4. Whole(g) /\ g.stream /\ SameBooks(a, g) /\ g.view = a.view /\ g.cut = a.cut /\ g.hasReturn = a.hasReturn
  BY <1>3 DEF Whole, Fields, SameBooks
<1>. HIDE DEF g
<1>5. Sounds(h, g, h.view.text)
  BY <1>3, <1>4 DEF Sounds, SameBooks, Heard
<1>6. QED
  BY <1>1, <1>5

\* The two last frames of a stream.
LEMMA LastSounds ==
  ASSUME NEW h, Whole(h), h.stream, NEW why
  PROVE  LET g == WriteFinal(WriteFinal(h, MessageDelta(why)), MessageStop)
         IN /\ Whole(g) /\ g.stream /\ SameBooks(h, g)
            /\ Heard(g) => /\ Heard(h) /\ g.hasReturn = h.hasReturn
                           /\ g.view.tools = h.view.tools /\ g.view.text = h.view.text /\ g.view.reason = why
<1>. DEFINE f == MessageDelta(why)
            e == MessageStop
            k == WriteFinal(h, f)
            g == WriteFinal(k, e)
<1>1. f.ev = "message_delta" /\ f.type = why /\ e.ev = "message_stop"
  BY FrameKinds
<1>. HIDE DEF f, e
<1>2. Tells(h, k, f)
  BY FinalTells
<1>. HIDE DEF k
<1>3. Whole(k) /\ k.stream
  BY <1>2 DEF Tells
<1>4. Tells(k, g, e)
  BY <1>3, FinalTells
<1>. HIDE DEF g
<1>5. SaysAfter(h.view.text, f) = h.view.text /\ CallsAfter(h.view.tools, f) = h.view.tools
  BY <1>1 DEF SaysAfter, CallsAfter
<1>6. SaysAfter(k.view.text, e) = k.view.text /\ CallsAfter(k.view.tools, e) = k.view.tools
  BY <1>1 DEF SaysAfter, CallsAfter
<1>7. Whole(g) /\ g.stream /\ SameBooks(h, g)
  BY <1>2, <1>3, <1>4 DEF Tells, SameBooks
<1>8. ASSUME Heard(g)
      PROVE  /\ Heard(h) /\ g.hasReturn = h.hasReturn
             /\ g.view.tools = h.view.tools /\ g.view.text = h.view.text /\ g.view.reason = why
  <2>1. Heard(k) /\ g.hasReturn = k.hasReturn /\ g.view.text = k.view.text /\ g.view.tools = k.view.tools
        /\ g.view.reason = k.view.reason
    BY <1>1, <1>3, <1>4, <1>6, <1>8 DEF Tells
  <2>2. Heard(h) /\ k.hasReturn = h.hasReturn /\ k.view.text = h.view.text /\ k.view.tools = h.view.tools
        /\ k.view.reason = why
    BY <1>1, <1>2, <1>5, <2>1 DEF Tells
  <2>3. QED
    BY <2>1, <2>2
<1>9. QED
  BY <1>7, <1>8 DEF f, e, k, g

LEMMA NamedAny == ASSUME NEW p, IsSeq(p), p # <<>> PROVE Named(p) # <<>>
<1>1. Len(p) \in Nat /\ p = [k \in 1..Len(p) |-> p[k]]
  BY SeqShape
<1>2. Len(p) # 0
  <2>1. SUFFICES ASSUME Len(p) = 0 PROVE FALSE
    OBVIOUS
  <2>2. p \in Seq(Range(p))
    BY DEF IsSeq
  <2>3. p = <<>>
    BY <2>1, <2>2, EmptySeq
  <2>4. QED
    BY <2>3
<1>3. DOMAIN Named(p) = 1..Len(p)
  BY DEF Named
<1>4. 1 \in DOMAIN Named(p)
  BY <1>1, <1>2, <1>3
<1>5. QED
  BY <1>4

\* What the client is told fits: HasToolCalls.
Fits(h) == Told(h) = "tool_use" => Calls(h) # <<>>

LEMMA CallsKept == ASSUME NEW h, Ready(h), HasToolCalls(h) PROVE Calls(h) # <<>>
<1>1. CASE h.stream
  BY <1>1 DEF Ready, Streamed, Calls
<1>2. CASE ~h.stream
  <2>1. IsSeq(h.pending) /\ h.pending # <<>> /\ h.hasReturn = FALSE
    BY <1>2 DEF Ready, Kept, HasToolCalls
  <2>2. QED
    BY <1>2, <2>1, NamedAny DEF Calls
<1>3. QED
  BY <1>1, <1>2

LEMMA KeptCalls == ASSUME NEW h, Ready(h), Marked(h), Calls(h) # <<>> PROVE HasToolCalls(h)
<1>1. CASE h.stream
  BY <1>1 DEF Ready, Marked, Calls, HasToolCalls
<1>2. CASE ~h.stream
  <2>1. h.pending # <<>>
    <3>1. SUFFICES ASSUME h.pending = <<>> PROVE FALSE
      OBVIOUS
    <3>2. Calls(h) = Named(<<>>)
      BY <1>2, <3>1 DEF Ready, Calls
    <3>3. Named(<<>>) = <<>>
      BY DEF Named
    <3>4. QED
      BY <3>2, <3>3
  <2>2. QED
    BY <2>1 DEF HasToolCalls
<1>3. QED
  BY <1>1, <1>2

LEMMA SameBooksOn == ASSUME NEW f, NEW g, NEW h, SameBooks(f, g), SameBooks(g, h) PROVE SameBooks(f, h)
BY DEF SameBooks

\* The end of a stream.
LEMMA StreamEnds ==
  ASSUME NEW h, Whole(h), h.stream, ~h.hasReturn, NEW reason
  PROVE  LET g == FinishResponse(h, reason)
         IN /\ Ends(h, g, Ledger(h))
            /\ Heard(g) => Told(g) = IF reason = "tool_use" /\ ~HasToolCalls(h) THEN "end_turn" ELSE reason
<1>. DEFINE why == IF reason = "tool_use" /\ ~HasToolCalls(h) THEN "end_turn" ELSE reason
            a == [h EXCEPT !.hasReturn = TRUE, !.stop = why]
            b == IF a.stream /\ a.activeType # "none" THEN WriteFinal(PopActive(a), BlockStop(ActiveIndex(a))) ELSE a
            e == EmitWriteChunkFallback(b)
            c == IF why = "tool_use" THEN b ELSE e
            d == FlushPendingToolCalls(c)
            g == WriteFinal(WriteFinal(d, MessageDelta(why)), MessageStop)
<1>1. FinishResponse(h, reason) = g
  BY DEF FinishResponse
<1>. HIDE DEF why
<1>2. /\ Whole(a) /\ a.stream /\ a.hasReturn = TRUE /\ SameBooks(h, a) /\ a.view = h.view /\ a.cut = h.cut
  BY DEF Whole, Fields, SameBooks
<1>. HIDE DEF a
<1>3. Sounds(a, b, a.view.text)
  BY <1>2, StopSounds
<1>. HIDE DEF b
<1>4. Whole(b) /\ b.stream /\ SameBooks(a, b)
  BY <1>3 DEF Sounds
<1>5. Sounds(b, e, b.view.text) \/ (b.chunks # FALSE /\ Sounds(b, e, Append(b.view.text, Piece)))
  BY <1>4, FallbackSounds
<1>6. Sounds(b, b, b.view.text)
  BY <1>4, Silence
<1>. HIDE DEF e
<1>7. Sounds(b, c, b.view.text) \/ (b.chunks # FALSE /\ Sounds(b, c, Append(b.view.text, Piece)))
  BY <1>5, <1>6
<1>. HIDE DEF c
<1>8. Whole(c) /\ c.stream
  BY <1>7 DEF Sounds
<1>9. Sounds(c, d, c.view.text)
  BY <1>8, FlushSounds
<1>. HIDE DEF d
<1>10. Whole(d) /\ d.stream
  BY <1>9 DEF Sounds
<1>11. /\ Whole(g) /\ g.stream /\ SameBooks(d, g)
       /\ Heard(g) => /\ Heard(d) /\ g.hasReturn = d.hasReturn
                      /\ g.view.tools = d.view.tools /\ g.view.text = d.view.text /\ g.view.reason = why
  BY <1>10, LastSounds
<1>. HIDE DEF g
<1>12. SameBooks(h, g)
  <2>1. SameBooks(a, b)
    BY <1>4
  <2>2. SameBooks(b, c)
    BY <1>7 DEF Sounds
  <2>3. SameBooks(c, d)
    BY <1>9 DEF Sounds
  <2>4. SameBooks(h, b)
    BY <1>2, <2>1, SameBooksOn
  <2>5. SameBooks(h, c)
    BY <2>2, <2>4, SameBooksOn
  <2>6. SameBooks(h, d)
    BY <2>3, <2>5, SameBooksOn
  <2>7. QED
    BY <1>11, <2>6, SameBooksOn
<1>13. ASSUME Heard(g)
       PROVE  /\ Heard(h) /\ g.hasReturn = TRUE /\ g.view.tools = h.view.tools /\ g.view.reason = why
              /\ g.view.text = h.view.text \/ (h.chunks # FALSE /\ g.view.text = Append(h.view.text, Piece))
  <2>1. Heard(d) /\ g.hasReturn = d.hasReturn /\ g.view.tools = d.view.tools /\ g.view.text = d.view.text
        /\ g.view.reason = why
    BY <1>11, <1>13
  <2>2. Heard(c) /\ d.hasReturn = c.hasReturn /\ d.view.tools = c.view.tools /\ d.view.text = c.view.text
    BY <1>9, <2>1 DEF Sounds
  <2>3. /\ Heard(b) /\ c.hasReturn = b.hasReturn /\ c.view.tools = b.view.tools
        /\ c.view.text = b.view.text \/ (b.chunks # FALSE /\ c.view.text = Append(b.view.text, Piece))
    BY <1>7, <2>2 DEF Sounds
  <2>4. Heard(a) /\ b.hasReturn = a.hasReturn /\ b.view.tools = a.view.tools /\ b.view.text = a.view.text
    BY <1>3, <2>3 DEF Sounds
  <2>5. Heard(h)
    BY <1>2, <2>4 DEF Heard
  <2>6. b.chunks = h.chunks
    BY <1>2, <1>4 DEF SameBooks
  <2>7. QED
    BY <1>2, <2>1, <2>2, <2>3, <2>4, <2>5, <2>6
<1>14. ASSUME Heard(g)
       PROVE  \/ Ledger(g) = Returned(Ledger(h))
              \/ Ledger(h).chunks # FALSE /\ Ledger(g) = Returned(Saying(Ledger(h), Piece))
  <2>1. Calls(g) = Calls(h) /\ Says(g) = g.view.text /\ Says(h) = h.view.text /\ Ledger(h).chunks = h.chunks
    BY <1>11, <1>13, <1>14, BookFields DEF Calls, Says
  <2>2. QED
    BY <1>12, <1>13, <1>14, <2>1, ReturnedBooks
<1>15. Ends(h, g, Ledger(h))
  BY <1>11, <1>13, <1>14 DEF Ends
<1>16. QED
  BY <1>1, <1>11, <1>13, <1>15 DEF Told, why

\* The end of the body.
LEMMA BodyEnds ==
  ASSUME NEW h, Whole(h), ~h.stream, ~h.hasReturn, NEW reason
  PROVE  LET g == FinishResponse(h, reason)
         IN /\ Ends(h, g, Ledger(h))
            /\ Told(g) = IF reason = "tool_use" /\ ~HasToolCalls(h) THEN "end_turn" ELSE reason
<1>. DEFINE why == IF reason = "tool_use" /\ ~HasToolCalls(h) THEN "end_turn" ELSE reason
            a == [h EXCEPT !.hasReturn = TRUE, !.stop = why]
            e == EmitWriteChunkFallback(a)
            c == IF why = "tool_use" THEN a ELSE e
            d == FlushPendingToolCalls(c)
            g == WriteFinal(WriteFinal(d, MessageDelta(why)), MessageStop)
            q == FinishResponse(h, reason)
<1>1. /\ Whole(a) /\ ~a.stream /\ a.hasReturn = TRUE /\ SameBooks(h, a) /\ SameStore(h, a) /\ SameCounts(h, a)
      /\ a.stop = why /\ a.view = h.view /\ a.stream = h.stream
  <2>. HIDE DEF why
  <2>1. QED
    BY DEF Whole, Fields, SameBooks, SameStore, SameCounts
<1>2. q = WriteFinal(WriteFinal(FlushPendingToolCalls(
            IF why = "tool_use"
            THEN (IF a.stream /\ a.activeType # "none" THEN WriteFinal(PopActive(a), BlockStop(ActiveIndex(a))) ELSE a)
            ELSE EmitWriteChunkFallback(IF a.stream /\ a.activeType # "none"
                                        THEN WriteFinal(PopActive(a), BlockStop(ActiveIndex(a))) ELSE a)),
            MessageDelta(why)), MessageStop)
  BY DEF FinishResponse
<1>. HIDE DEF a, why, q
<1>3. q = g
  BY <1>1, <1>2
<1>4. /\ Whole(c) /\ ~c.stream /\ c.stop = why /\ c.stream = h.stream /\ c.hasReturn = TRUE
      /\ a.chunks = FALSE => c = a
  <2>1. CASE a.hasText \/ ~a.chunks
    BY <1>1, <2>1 DEF EmitWriteChunkFallback
  <2>2. CASE ~(a.hasText \/ ~a.chunks)
    <3>. DEFINE w == Append(a.content, [type |-> "text", data |-> <<Piece>>])
    <3>1. e = [a EXCEPT !.hasText = TRUE, !.content = w]
      BY <1>1, <2>2 DEF EmitWriteChunkFallback
    <3>. HIDE DEF w, e
    <3>2. Whole(e) /\ e.stream = a.stream /\ e.stop = a.stop /\ e.hasReturn = a.hasReturn
      BY <1>1, <3>1 DEF Whole, Fields
    <3>3. QED
      BY <1>1, <2>2, <3>2
  <2>3. QED
    BY <2>1, <2>2
<1>. HIDE DEF c, e
<1>. DEFINE b == IF c.pending = <<>> THEN c ELSE CountTokens(c)
            z == b.content \o Entries(c.pending)
<1>5. /\ Whole(b) /\ ~b.stream /\ b.stop = why /\ b.stream = h.stream /\ b.hasReturn = TRUE
      /\ SameBooks(c, b) /\ SameStore(c, b)
  <2>1. Alike(c, b) \/ b = c
    BY <1>4, CountAlike
  <2>2. b.stop = c.stop
    BY <1>4 DEF CountTokens, Whole, Fields
  <2>. HIDE DEF b
  <2>3. QED
    BY <1>4, <2>1, <2>2 DEF Alike, SameBooks, SameStore
<1>6. d = [b EXCEPT !.content = z, !.pending = <<>>]
  <2>1. b.content = c.content
    BY <1>5 DEF SameStore
  <2>2. d = [b EXCEPT !.content = @ \o [k \in 1..Len(c.pending) |-> [type |-> "tool_use", data |-> <<c.pending[k].tool>>]],
                      !.pending = <<>>]
    BY DEF FlushPendingToolCalls
  <2>. HIDE DEF b, d
  <2>3. QED
    BY <2>2 DEF Entries
<1>. HIDE DEF b, z, d
<1>7. /\ Whole(d) /\ ~d.stream /\ d.stop = why /\ d.stream = h.stream /\ d.hasReturn = TRUE
      /\ SameBooks(b, d) /\ d.content = z
  BY <1>5, <1>6 DEF Whole, Fields, SameBooks
<1>8. g = d
  BY <1>7 DEF WriteFinal
<1>. HIDE DEF g
<1>9. ASSUME Ready(h) PROVE Ledger(d) = Returned(Ledger(h))
  <2>1. Kept(h) /\ h.hasReturn = FALSE /\ c = a /\ b.content = h.content /\ c.pending = h.pending
    <3>1. Kept(h) /\ h.hasReturn = FALSE /\ h.chunks = FALSE
      BY <1>9 DEF Ready, Kept
    <3>2. c = a
      BY <1>1, <1>4, <3>1 DEF SameBooks
    <3>3. QED
      BY <1>1, <1>5, <3>1, <3>2 DEF SameStore, SameCounts
  <2>2. Stored(h.content) /\ IsSeq(h.pending) /\ d.content = h.content \o Entries(h.pending)
    BY <1>7, <2>1 DEF Kept, z
  <2>3. /\ FlattenSeq(TextsIn(d.content)) = FlattenSeq(TextsIn(h.content))
        /\ FlattenSeq(ToolsIn(d.content)) = Named(h.pending)
    BY <2>2, ToolsStored
  <2>4. Says(d) = Says(h) /\ Calls(d) = Calls(h)
    BY <1>7, <2>1, <2>3 DEF Says, Calls
  <2>5. SameBooks(h, d)
    BY <1>1, <1>5, <1>7, <2>1 DEF SameBooks
  <2>6. QED
    BY <1>7, <2>4, <2>5, ReturnedBooks
<1>10. Ends(h, d, Ledger(h))
  BY <1>7, <1>9 DEF Ends, Heard
<1>11. Told(d) = why
  BY <1>7 DEF Told
<1>12. QED
  BY <1>3, <1>8, <1>10, <1>11 DEF q, why

LEMMA FinishActs ==
  ASSUME NEW h, Whole(h), NEW reason
  PROVE  LET g == FinishResponse(h, reason)
         IN /\ Ends(h, g, Ledger(h))
            /\ Heard(g) /\ Ready(h) =>
                 Told(g) = IF reason = "tool_use" /\ ~HasToolCalls(h) THEN "end_turn" ELSE reason
<1>1. CASE h.hasReturn
  <2>1. FinishResponse(h, reason) = h /\ ~Ready(h)
    BY <1>1 DEF FinishResponse, Ready
  <2>2. QED
    BY <2>1 DEF Ends
<1>2. CASE ~h.hasReturn
  BY <1>2, StreamEnds, BodyEnds DEF Whole
<1>3. QED
  BY <1>1, <1>2

LEMMA LedgerSays ==
  ASSUME NEW h PROVE /\ Ledger(h).says = Says(h) /\ Ledger(h).calls = Calls(h) /\ Ledger(h).chunks = h.chunks
                     /\ Ledger(h).hasReturn = h.hasReturn /\ Ledger(h).over = h.over
BY DEF Ledger

\* The calls of a response that returns.
LEMMA EndCalls ==
  ASSUME NEW h, NEW g, NEW x, Ends(h, g, x), x = [Ledger(h) EXCEPT !.says = x.says], Heard(g), Ready(h)
  PROVE  Calls(g) = Calls(h) /\ x.calls = Calls(h)
<1>1. Ledger(g) = Returned(x) \/ Ledger(g) = Returned(Saying(x, Piece))
  BY DEF Ends
<1>2. x.calls = Calls(h)
  BY DEF Ledger
<1>3. Ledger(g).calls = Calls(g)
  BY LedgerSays
<1>4. DOMAIN x = DOMAIN Ledger(h) /\ "calls" \in DOMAIN x /\ "says" \in DOMAIN x
  BY DEF Ledger
<1>5. Returned(x).calls = x.calls /\ Returned(Saying(x, Piece)).calls = x.calls
  BY <1>4 DEF Returned, Saying
<1>6. QED
  BY <1>1, <1>2, <1>3, <1>5

LEMMA SameSaid == ASSUME NEW h PROVE Ledger(h) = [Ledger(h) EXCEPT !.says = Ledger(h).says]
BY DEF Ledger

LEMMA SaidMore ==
  ASSUME NEW h, NEW t
  PROVE  Saying(Ledger(h), t) = [Ledger(h) EXCEPT !.says = Saying(Ledger(h), t).says]
BY DEF Ledger, Saying

\* Closing the block first changes nothing of this.
LEMMA ModelFinishActs ==
  ASSUME NEW h, Whole(h), NEW reason
  PROVE  LET g == ModelFinish(h, reason)
         IN /\ Ends(h, g, Ledger(h))
            /\ Heard(g) /\ Ready(h) => Fits(g)
            /\ Heard(g) /\ Ready(h) /\ Marked(h) /\ Calls(h) # <<>> /\ (h.stream \/ reason = "tool_use")
                 => Told(g) = "tool_use"
<1>. DEFINE c == CloseActiveBlock(h)
            why == IF h.emitted # {} THEN "tool_use" ELSE IF HasToolCalls(h) THEN reason ELSE "end_turn"
            g == FinishResponse(c, why)
<1>1. ModelFinish(h, reason) = g
  BY DEF ModelFinish
<1>2. Acts(h, c, Ledger(h))
  BY CloseActs
<1>. HIDE DEF c
<1>3. Whole(c) /\ c.stream = h.stream
  BY <1>2 DEF Acts
<1>4. /\ Ends(c, g, Ledger(c))
      /\ Heard(g) /\ Ready(c) => Told(g) = IF why = "tool_use" /\ ~HasToolCalls(c) THEN "end_turn" ELSE why
  <2>. HIDE DEF why
  <2>1. QED
    BY <1>3, FinishActs
<1>. HIDE DEF g
<1>5. Ends(h, g, Ledger(h))
  BY <1>2, <1>4, ActsEnd
<1>6. ASSUME Heard(g), Ready(h)
      PROVE  /\ Ready(c) /\ Calls(c) = Calls(h) /\ Calls(g) = Calls(h) /\ (Marked(h) => Marked(c))
             /\ Told(g) = IF why = "tool_use" /\ ~HasToolCalls(c) THEN "end_turn" ELSE why
  <2>1. Heard(c)
    BY <1>4, <1>6 DEF Ends
  <2>2. Ready(c) /\ Ledger(c) = Ledger(h) /\ (Marked(h) => Marked(c))
    BY <1>2, <1>6, <2>1 DEF Acts
  <2>3. Calls(c) = Calls(h)
    BY <2>2, LedgerSays
  <2>. HIDE DEF why
  <2>4. Calls(g) = Calls(h)
    BY <1>5, <1>6, SameSaid, EndCalls
  <2>5. QED
    BY <1>4, <1>6, <2>2, <2>3, <2>4
<1>7. ASSUME Heard(g), Ready(h) PROVE Fits(g)
  <2>1. SUFFICES ASSUME Told(g) = "tool_use" PROVE Calls(g) # <<>>
    BY DEF Fits
  <2>. HIDE DEF why
  <2>2. HasToolCalls(c)
    BY <1>6, <1>7, <2>1
  <2>3. Calls(c) # <<>>
    BY <1>6, <1>7, <2>2, CallsKept
  <2>4. QED
    BY <1>6, <1>7, <2>3
<1>8. ASSUME Heard(g), Ready(h), Marked(h), Calls(h) # <<>>, h.stream \/ reason = "tool_use"
      PROVE  Told(g) = "tool_use"
  <2>1. HasToolCalls(c) /\ HasToolCalls(h)
    BY <1>6, <1>8, KeptCalls
  <2>2. h.stream => h.emitted # {}
    BY <1>8 DEF Marked, Calls
  <2>3. why = "tool_use"
    BY <1>8, <2>1, <2>2
  <2>. HIDE DEF why
  <2>4. QED
    BY <1>6, <1>8, <2>1, <2>3
<1>9. QED
  BY <1>1, <1>5, <1>7, <1>8

\* An error is never told as a call.
LEMMA FailureActs ==
  ASSUME NEW h, Whole(h)
  PROVE  LET g == FinishResponse(InjectErrorText(h), "end_turn")
         IN Ends(h, g, Saying(Ledger(h), ErrorText)) /\ (Heard(g) /\ Ready(h) => Told(g) = "end_turn")
<1>. DEFINE e == InjectErrorText(h)
            why == "end_turn"
            g == FinishResponse(e, why)
            x == Saying(Ledger(h), ErrorText)
<1>1. Acts(h, e, x)
  BY ErrorActs
<1>. HIDE DEF e, x
<1>2. Whole(e)
  BY <1>1 DEF Acts
<1>3. /\ Ends(e, g, Ledger(e))
      /\ Heard(g) /\ Ready(e) => Told(g) = "end_turn"
  <2>1. /\ Ends(e, g, Ledger(e))
        /\ Heard(g) /\ Ready(e) => Told(g) = IF why = "tool_use" /\ ~HasToolCalls(e) THEN "end_turn" ELSE why
    <3>. HIDE DEF why
    <3>1. QED
      BY <1>2, FinishActs
  <2>2. QED
    BY <2>1
<1>. HIDE DEF g
<1>4. Ends(h, g, x)
  BY <1>1, <1>3, ActsEnd
<1>5. ASSUME Heard(g), Ready(h) PROVE Told(g) = "end_turn"
  <2>1. Heard(e)
    BY <1>3, <1>5 DEF Ends
  <2>2. Ready(e)
    BY <1>1, <1>5, <2>1 DEF Acts
  <2>3. QED
    BY <1>3, <1>5, <2>2
<1>6. QED
  BY <1>4, <1>5 DEF g, e, x

LEMMA CreditsActs ==
  ASSUME NEW h, Whole(h)
  PROVE  LET g == CreditsExhausted(h)
         IN Ends(h, g, Saying(Ledger(h), ErrorText)) /\ (Heard(g) /\ Ready(h) => Told(g) = "end_turn")
<1>. DEFINE c == CloseActiveBlock(h)
            g == FinishResponse(InjectErrorText(c), "end_turn")
            x == Saying(Ledger(h), ErrorText)
            y == Saying(Ledger(c), ErrorText)
<1>1. Acts(h, c, Ledger(h))
  BY CloseActs
<1>2. CreditsExhausted(h) = g
  BY DEF CreditsExhausted
<1>. HIDE DEF c
<1>3. Whole(c)
  BY <1>1 DEF Acts
<1>4. Ends(c, g, y) /\ (Heard(g) /\ Ready(c) => Told(g) = "end_turn")
  BY <1>3, FailureActs
<1>5. Ledger(c) = Ledger(h) => x = y
  OBVIOUS
<1>. HIDE DEF g, x, y
<1>6. Ends(h, g, x)
  BY <1>1, <1>4, <1>5 DEF Acts, Ends
<1>7. Heard(g) /\ Ready(h) => Ready(c)
  BY <1>1, <1>4 DEF Acts, Ends
<1>8. QED
  BY <1>2, <1>4, <1>6, <1>7 DEF x

\* A response that ends as it may.
LEMMA FinishFits ==
  ASSUME NEW h, Whole(h), NEW reason
  PROVE  LET g == FinishResponse(h, reason) IN Ends(h, g, Ledger(h)) /\ (Heard(g) /\ Ready(h) => Fits(g))
<1>. DEFINE g == FinishResponse(h, reason)
<1>1. /\ Ends(h, g, Ledger(h))
      /\ Heard(g) /\ Ready(h) => Told(g) = IF reason = "tool_use" /\ ~HasToolCalls(h) THEN "end_turn" ELSE reason
  BY FinishActs
<1>. HIDE DEF g
<1>2. ASSUME Heard(g), Ready(h), Told(g) = "tool_use" PROVE Calls(g) # <<>>
  <2>1. HasToolCalls(h)
    BY <1>1, <1>2
  <2>2. Calls(h) # <<>>
    BY <1>2, <2>1, CallsKept
  <2>3. Calls(g) = Calls(h)
    BY <1>1, <1>2, SameSaid, EndCalls
  <2>4. QED
    BY <2>2, <2>3
<1>3. QED
  BY <1>1, <1>2 DEF Fits, g

LEMMA DirectMessageStopActs ==
  ASSUME NEW h, Whole(h)
  PROVE  LET g == DirectMessageStop(h)
         IN Ends(h, g, Ledger(h)) /\ (Heard(g) /\ Ready(h) => h.stream \/ Fits(g))
<1>. DEFINE f == MessageStop
            k == Write(h, f)
            q == [k EXCEPT !.hasReturn = TRUE]
            why == IF h.stop = "none" THEN "end_turn" ELSE h.stop
            b == FinishResponse(k, why)
<1>1. Acts(h, k, Ledger(h))
  <2>1. f.ev = "message_stop"
    BY FrameKinds
  <2>. HIDE DEF f
  <2>2. QED
    BY <2>1, QuietActs
<1>2. DirectMessageStop(h) = IF h.stream THEN q ELSE b
  BY DEF DirectMessageStop
<1>. HIDE DEF k, f, why
<1>3. Whole(k) /\ k.stream = h.stream
  BY <1>1 DEF Acts
<1>4. CASE h.stream
  <2>1. /\ Whole(q) /\ q.stream = h.stream /\ q.hasReturn = TRUE /\ (Heard(q) => Heard(k))
        /\ SameBooks(k, q) /\ q.view = k.view
    BY <1>3 DEF Whole, Fields, Heard, SameBooks
  <2>. HIDE DEF q
  <2>2. Calls(q) = Calls(k) /\ Says(q) = Says(k)
    BY <1>3, <1>4, <2>1 DEF Calls, Says
  <2>3. Ledger(q) = Returned(Ledger(k))
    BY <2>1, <2>2, ReturnedBooks
  <2>4. Ends(k, q, Ledger(k))
    BY <1>3, <2>1, <2>3 DEF Ends
  <2>5. Ends(h, q, Ledger(h))
    BY <1>1, <2>4, ActsEnd
  <2>6. QED
    BY <1>2, <1>4, <2>5
<1>5. CASE ~h.stream
  <2>1. Ends(k, b, Ledger(k)) /\ (Heard(b) /\ Ready(k) => Fits(b))
    BY <1>3, FinishFits
  <2>. HIDE DEF b
  <2>2. Ends(h, b, Ledger(h))
    BY <1>1, <2>1, ActsEnd
  <2>3. Heard(b) /\ Ready(h) => Ready(k)
    BY <1>1, <2>1 DEF Acts, Ends
  <2>4. QED
    BY <1>2, <1>5, <2>1, <2>2, <2>3
<1>6. QED
  BY <1>4, <1>5

-----------------------------------------------------------------------------
(* Side effects: every one that is remembered or was dropped has been given. *)

LedgerFields ==
  {"says", "calls", "intros", "last", "dedup", "seed", "dropped", "handled", "disallow", "suppress", "earlier", "inputs",
   "directTools", "skipped", "chunks", "hasReturn", "over"}
IsLedger(x) == x = [f \in LedgerFields |-> x[f]]

LEMMA LedgerShape == ASSUME NEW h PROVE IsLedger(Ledger(h))
BY DEF IsLedger, Ledger, LedgerFields

Keys(s) == {DedupKey[s[k]] : k \in DOMAIN s}
Covered(x) == IsSeq(x.calls) /\ x.dedup \cup x.seed \cup x.dropped \subseteq x.earlier \cup Keys(x.calls)

\* From one ledger to the next.
Goes(x, y) ==
  /\ IsLedger(y) /\ (Covered(x) => Covered(y))
  /\ y.over = x.over /\ y.hasReturn = x.hasReturn /\ y.suppress = x.suppress

LEMMA GoesOn == ASSUME NEW x, NEW y, NEW z, Goes(x, y), Goes(y, z) PROVE Goes(x, z)
BY DEF Goes

LEMMA GoesNot == ASSUME NEW x, IsLedger(x) PROVE Goes(x, x)
BY DEF Goes

\* What no side effect depends on.
SameEffects(x, y) ==
  /\ y.calls = x.calls /\ y.dedup = x.dedup /\ y.seed = x.seed /\ y.dropped = x.dropped /\ y.earlier = x.earlier
  /\ y.over = x.over /\ y.hasReturn = x.hasReturn /\ y.suppress = x.suppress

LEMMA EffectsGo == ASSUME NEW x, NEW y, IsLedger(y), SameEffects(x, y) PROVE Goes(x, y)
BY DEF Goes, SameEffects, Covered

LEMMA FieldsGo ==
  ASSUME NEW x, IsLedger(x), NEW v
  PROVE  /\ Goes(x, [x EXCEPT !.says = v]) /\ Goes(x, [x EXCEPT !.intros = v]) /\ Goes(x, [x EXCEPT !.last = v])
         /\ Goes(x, [x EXCEPT !.inputs = v]) /\ Goes(x, [x EXCEPT !.directTools = v])
         /\ Goes(x, [x EXCEPT !.skipped = v])
<1>. USE DEF IsLedger, LedgerFields, SameEffects
<1>1. Goes(x, [x EXCEPT !.says = v])
  <2>. DEFINE y == [x EXCEPT !.says = v]
  <2>1. IsLedger(y) /\ SameEffects(x, y)
    OBVIOUS
  <2>. HIDE DEF y, IsLedger, SameEffects
  <2>2. QED
    BY <2>1, EffectsGo DEF y
<1>2. Goes(x, [x EXCEPT !.intros = v])
  <2>. DEFINE y == [x EXCEPT !.intros = v]
  <2>1. IsLedger(y) /\ SameEffects(x, y)
    OBVIOUS
  <2>. HIDE DEF y, IsLedger, SameEffects
  <2>2. QED
    BY <2>1, EffectsGo DEF y
<1>3. Goes(x, [x EXCEPT !.last = v])
  <2>. DEFINE y == [x EXCEPT !.last = v]
  <2>1. IsLedger(y) /\ SameEffects(x, y)
    OBVIOUS
  <2>. HIDE DEF y, IsLedger, SameEffects
  <2>2. QED
    BY <2>1, EffectsGo DEF y
<1>4. Goes(x, [x EXCEPT !.inputs = v])
  <2>. DEFINE y == [x EXCEPT !.inputs = v]
  <2>1. IsLedger(y) /\ SameEffects(x, y)
    OBVIOUS
  <2>. HIDE DEF y, IsLedger, SameEffects
  <2>2. QED
    BY <2>1, EffectsGo DEF y
<1>5. Goes(x, [x EXCEPT !.directTools = v])
  <2>. DEFINE y == [x EXCEPT !.directTools = v]
  <2>1. IsLedger(y) /\ SameEffects(x, y)
    OBVIOUS
  <2>. HIDE DEF y, IsLedger, SameEffects
  <2>2. QED
    BY <2>1, EffectsGo DEF y
<1>6. Goes(x, [x EXCEPT !.skipped = v])
  <2>. DEFINE y == [x EXCEPT !.skipped = v]
  <2>1. IsLedger(y) /\ SameEffects(x, y)
    OBVIOUS
  <2>. HIDE DEF y, IsLedger, SameEffects
  <2>2. QED
    BY <2>1, EffectsGo DEF y
<1>7. QED
  BY <1>1, <1>2, <1>3, <1>4, <1>5, <1>6

LEMMA KeysAppend == ASSUME NEW s, IsSeq(s), NEW t PROVE Keys(Append(s, t)) = Keys(s) \cup {DedupKey[t]}
<1>. DEFINE a == Append(s, t)
            S == Range(s) \cup {t}
<1>1. Len(s) \in Nat /\ DOMAIN s = 1..Len(s)
  BY SeqShape
<1>2. s \in Seq(S) /\ t \in S
  <2>1. \A k \in DOMAIN s : s[k] \in S
    BY DEF Range
  <2>. HIDE DEF S
  <2>2. s \in Seq(S)
    BY <2>1, SeqCovered
  <2>3. QED
    BY <2>2 DEF S
<1>. HIDE DEF S
<1>3. DOMAIN a = 1..Len(s) + 1 /\ a[Len(s) + 1] = t /\ \A k \in 1..Len(s) : a[k] = s[k]
  BY <1>2, AppendProperties, LenProperties
<1>. HIDE DEF a
<1>4. ASSUME NEW y \in Keys(a) PROVE y \in Keys(s) \cup {DedupKey[t]}
  <2>1. PICK k \in DOMAIN a : y = DedupKey[a[k]]
    BY DEF Keys
  <2>2. CASE k \in 1..Len(s)
    BY <1>1, <1>3, <2>1, <2>2 DEF Keys
  <2>3. CASE k \notin 1..Len(s)
    <3>1. k = Len(s) + 1
      BY <1>1, <1>3, <2>1, <2>3
    <3>2. QED
      BY <1>3, <2>1, <3>1
  <2>4. QED
    BY <2>2, <2>3
<1>5. Keys(s) \subseteq Keys(a)
  BY <1>1, <1>3 DEF Keys
<1>6. DedupKey[t] \in Keys(a)
  <2>1. Len(s) + 1 \in DOMAIN a
    BY <1>1, <1>3
  <2>2. QED
    BY <1>3, <2>1 DEF Keys
<1>7. QED
  BY <1>4, <1>5, <1>6 DEF a

\* What a remembered ledger is.
LEMMA Remembered ==
  ASSUME NEW x, IsLedger(x), NEW c, NEW d
  PROVE  LET y == Remember(x, c, d)
             key == {DedupKey[c.tool]} \ {NoKey}
         IN /\ IsLedger(y) /\ y.calls = x.calls /\ y.earlier = x.earlier /\ y.handled = x.handled
            /\ y.over = x.over /\ y.hasReturn = x.hasReturn /\ y.chunks = x.chunks /\ y.suppress = x.suppress
            /\ y.skipped = x.skipped /\ y.directTools = x.directTools
            /\ IF Accepts(x, c, d)
               THEN y.dedup = x.dedup \cup key /\ y.seed = x.seed \cup key /\ y.dropped = x.dropped
               ELSE /\ y.dedup = x.dedup /\ y.seed = x.seed
                    /\ y.dropped = x.dropped \/ (y.dropped = x.dropped \cup key /\ Accepts([x EXCEPT !.dedup = {}], c, d))
<1>. DEFINE key == {DedupKey[c.tool]} \ {NoKey}
            A == Accepts(x, c, d)
            B == Accepts([x EXCEPT !.dedup = {}], c, d)
            y == Remember(x, c, d)
<1>1. y = IF A THEN [x EXCEPT !.dedup = @ \cup key, !.seed = @ \cup key]
          ELSE IF B THEN [x EXCEPT !.dropped = @ \cup key] ELSE x
  BY DEF Remember
<1>. HIDE DEF A, B, key
<1>. USE DEF IsLedger, LedgerFields
<1>2. CASE A
  BY <1>1, <1>2 DEF A, B, key
<1>3. CASE ~A /\ B
  BY <1>1, <1>3 DEF A, B, key
<1>4. CASE ~A /\ ~B
  BY <1>1, <1>4 DEF A, B, key
<1>5. QED
  BY <1>2, <1>3, <1>4

\* The key of a call that is dropped has been remembered.
LEMMA DroppedKnown ==
  ASSUME NEW x, IsLedger(x), NEW c, NEW d, ~Accepts(x, c, d), Accepts([x EXCEPT !.dedup = {}], c, d)
  PROVE  {DedupKey[c.tool]} \ {NoKey} \subseteq x.dedup
<1>. DEFINE z == [x EXCEPT !.dedup = {}]
<1>1. z.disallow = x.disallow
  BY DEF IsLedger, LedgerFields
<1>. HIDE DEF z
<1>2. ~(~x.disallow /\ Verdict[c.tool] \notin {"sandbox", "invalid"} /\ (d => Verdict[c.tool] # "undeclared")
        /\ (c.filled \/ c.tool \notin NeedsInput) /\ DedupKey[c.tool] \notin x.dedup \ {NoKey})
  BY DEF Accepts
<1>3. ~z.disallow /\ Verdict[c.tool] \notin {"sandbox", "invalid"} /\ (d => Verdict[c.tool] # "undeclared")
      /\ (c.filled \/ c.tool \notin NeedsInput)
  BY DEF Accepts, z
<1>4. QED
  BY <1>1, <1>2, <1>3

LEMMA TakeGoes ==
  ASSUME NEW x, IsLedger(x), NEW c, NEW d
  PROVE  /\ Goes(x, Take(x, c, d))
         /\ Take(x, c, d).skipped = x.skipped /\ Take(x, c, d).directTools = x.directTools
<1>. DEFINE key == {DedupKey[c.tool]} \ {NoKey}
            r == Remember(x, c, d)
            A == Accepts(x, c, d)
            B == Accepts([x EXCEPT !.dedup = {}], c, d)
            w == r.handled \cup {c.id}
            l == Append(r.calls, c.tool)
            z == [r EXCEPT !.handled = w, !.calls = l]
            y == Take(x, c, d)
<1>1. y = IF c.id \in x.handled THEN x ELSE IF A THEN z ELSE r
  BY DEF Take
<1>2. /\ IsLedger(r) /\ r.calls = x.calls /\ r.earlier = x.earlier
      /\ r.over = x.over /\ r.hasReturn = x.hasReturn /\ r.chunks = x.chunks /\ r.suppress = x.suppress
      /\ r.skipped = x.skipped /\ r.directTools = x.directTools
      /\ A => r.dedup = x.dedup \cup key /\ r.seed = x.seed \cup key /\ r.dropped = x.dropped
      /\ ~A => /\ r.dedup = x.dedup /\ r.seed = x.seed
               /\ r.dropped = x.dropped \/ (r.dropped = x.dropped \cup key /\ B)
  BY Remembered
<1>3. ~A /\ B => key \subseteq x.dedup
  BY DroppedKnown
<1>4. key \subseteq {DedupKey[c.tool]}
  OBVIOUS
<1>. HIDE DEF A, B, key, r
<1>5. /\ IsLedger(z) /\ z.calls = l /\ z.earlier = r.earlier /\ z.dedup = r.dedup /\ z.seed = r.seed
      /\ z.dropped = r.dropped /\ z.over = r.over /\ z.hasReturn = r.hasReturn /\ z.chunks = r.chunks
      /\ z.suppress = r.suppress /\ z.skipped = r.skipped /\ z.directTools = r.directTools
  <2>. HIDE DEF w, l
  <2>1. QED
    BY <1>2 DEF IsLedger, LedgerFields
<1>. HIDE DEF z
<1>6. ASSUME A, Covered(x) PROVE Covered(z)
  <2>1. IsSeq(x.calls) /\ x.dedup \cup x.seed \cup x.dropped \subseteq x.earlier \cup Keys(x.calls)
    BY <1>6 DEF Covered
  <2>2. IsSeq(l) /\ Keys(l) = Keys(x.calls) \cup {DedupKey[c.tool]}
    <3>1. l = Append(x.calls, c.tool)
      BY <1>2
    <3>. HIDE DEF l
    <3>2. QED
      BY <2>1, <3>1, AppendSeq, KeysAppend
  <2>. HIDE DEF l
  <2>3. z.dedup \cup z.seed \cup z.dropped \subseteq z.earlier \cup Keys(l)
    BY <1>2, <1>4, <1>5, <1>6, <2>1, <2>2
  <2>4. QED
    BY <1>5, <2>2, <2>3 DEF Covered
<1>7. ASSUME ~A, Covered(x) PROVE Covered(r)
  <2>1. IsSeq(x.calls) /\ x.dedup \cup x.seed \cup x.dropped \subseteq x.earlier \cup Keys(x.calls)
    BY <1>7 DEF Covered
  <2>2. r.dedup \cup r.seed \cup r.dropped \subseteq r.earlier \cup Keys(r.calls)
    BY <1>2, <1>3, <1>7, <2>1
  <2>3. QED
    BY <1>2, <2>1, <2>2 DEF Covered
<1>. HIDE DEF l
<1>8. Goes(x, z) \/ ~A
  BY <1>2, <1>5, <1>6 DEF Goes
<1>9. Goes(x, r) \/ A
  BY <1>2, <1>7 DEF Goes
<1>10. QED
  BY <1>1, <1>2, <1>5, <1>8, <1>9, GoesNot

LEMMA SayingGoes == ASSUME NEW x, IsLedger(x), NEW t PROVE Goes(x, Saying(x, t))
BY FieldsGo DEF Saying

LEMMA ChunkedGoes == ASSUME NEW x, IsLedger(x), NEW stream PROVE Goes(x, Chunked(x, stream))
<1>. DEFINE d == TRUE
            y == [x EXCEPT !.chunks = d]
<1>1. Goes(x, y)
  <2>. HIDE DEF d
  <2>1. IsLedger(y) /\ SameEffects(x, y)
    BY DEF IsLedger, LedgerFields, SameEffects
  <2>. HIDE DEF y
  <2>2. QED
    BY <2>1, EffectsGo
<1>2. Chunked(x, stream) = IF ~stream THEN x ELSE IF x.suppress THEN Saying(y, Piece) ELSE y
  BY DEF Chunked
<1>. HIDE DEF y
<1>3. Goes(y, Saying(y, Piece))
  BY <1>1, SayingGoes DEF Goes
<1>4. Goes(x, Saying(y, Piece))
  BY <1>1, <1>3, GoesOn
<1>5. QED
  BY <1>1, <1>2, <1>4, GoesNot

LEMMA CallingGoes == ASSUME NEW x, IsLedger(x), NEW t, NEW id PROVE Goes(x, Calling(x, t, id))
<1>. DEFINE c == [id |-> id, tool |-> Marker[t], filled |-> TRUE]
            d == TRUE
<1>1. Calling(x, t, id) = IF Marker[t] = NoTool THEN x ELSE Take(x, c, d)
  BY DEF Calling
<1>. HIDE DEF c, d
<1>2. Goes(x, Take(x, c, d))
  BY TakeGoes
<1>3. QED
  BY <1>1, <1>2, GoesNot

LEMMA NotingGoes ==
  ASSUME NEW x, IsLedger(x), NEW t, NEW source, NEW soon PROVE Goes(x, Noting(x, t, source, soon))
<1>. DEFINE i == x.intros \cup ({Intro[t]} \ {NoKey})
            l == [text |-> Rest[t], source |-> source]
            a == [x EXCEPT !.intros = i]
            b == [a EXCEPT !.last = l]
            s == Saying(b, Rest[t])
<1>1. Noted(x, t, source) = b
  BY DEF Noted
<1>. HIDE DEF i, l
<1>2. Goes(x, a)
  BY FieldsGo
<1>3. Goes(a, b)
  <2>. HIDE DEF a
  <2>1. IsLedger(a)
    BY <1>2 DEF Goes
  <2>2. QED
    BY <2>1, FieldsGo
<1>. HIDE DEF a, b
<1>4. Goes(x, b)
  BY <1>2, <1>3, GoesOn
<1>5. Goes(b, s)
  BY <1>4, SayingGoes DEF Goes
<1>6. Goes(x, s)
  BY <1>4, <1>5, GoesOn
<1>7. \/ Noting(x, t, source, soon) = x \/ Noting(x, t, source, soon) = b \/ Noting(x, t, source, soon) = s
  BY <1>1 DEF Noting
<1>8. QED
  BY <1>4, <1>6, <1>7, GoesNot

\* All of a text.
LEMMA TextGoes ==
  ASSUME NEW x, IsLedger(x), NEW t, NEW id, NEW source, NEW soon
  PROVE  Goes(x, Noting(Calling(x, t, id), t, source, soon))
<1>. DEFINE y == Calling(x, t, id)
<1>1. Goes(x, y)
  BY CallingGoes
<1>. HIDE DEF y
<1>2. Goes(y, Noting(y, t, source, soon))
  BY <1>1, NotingGoes DEF Goes
<1>3. Goes(x, Noting(y, t, source, soon))
  BY <1>1, <1>2, GoesOn
<1>4. QED
  BY <1>3 DEF y

LEMMA CollectedGoes == ASSUME NEW x, IsLedger(x), NEW id, NEW tool PROVE Goes(x, Collected(x, id, tool))
<1>. DEFINE f == With(x.inputs, id, [tool |-> tool, filled |-> FALSE])
<1>. HIDE DEF f
<1>1. Goes(x, [x EXCEPT !.inputs = f])
  BY FieldsGo
<1>2. QED
  BY <1>1 DEF Collected, f

LEMMA FilledGoes == ASSUME NEW x, IsLedger(x), NEW id PROVE Goes(x, Filled(x, id))
<1>. DEFINE f == [x.inputs EXCEPT ![id].filled = TRUE]
<1>. HIDE DEF f
<1>1. Goes(x, [x EXCEPT !.inputs = f]) /\ Goes(x, x)
  BY FieldsGo, GoesNot
<1>2. QED
  BY <1>1 DEF Filled, f

LEMMA DismissedGoes == ASSUME NEW x, IsLedger(x), NEW id PROVE Goes(x, Dismissed(x, id))
<1>. DEFINE f == Restrict(x.inputs, DOMAIN x.inputs \ {id})
<1>. HIDE DEF f
<1>1. Goes(x, [x EXCEPT !.inputs = f])
  BY FieldsGo
<1>2. QED
  BY <1>1 DEF Dismissed, f

LEMMA DismissedTakes == ASSUME NEW x, IsLedger(x), NEW id, NEW c, NEW d PROVE Goes(x, Take(Dismissed(x, id), c, d))
<1>. DEFINE y == Dismissed(x, id)
<1>1. Goes(x, y)
  BY DismissedGoes
<1>. HIDE DEF y
<1>2. Goes(y, Take(y, c, d))
  BY <1>1, TakeGoes DEF Goes
<1>3. Goes(x, Take(y, c, d))
  BY <1>1, <1>2, GoesOn
<1>4. QED
  BY <1>3 DEF y

LEMMA EndedGoes == ASSUME NEW x, IsLedger(x), NEW id PROVE Goes(x, Ended(x, id))
<1>. DEFINE c == [id |-> id, tool |-> x.inputs[id].tool, filled |-> x.inputs[id].filled]
            d == TRUE
<1>1. Ended(x, id) = IF id \notin DOMAIN x.inputs THEN x ELSE Take(Dismissed(x, id), c, d)
  BY DEF Ended
<1>. HIDE DEF c, d
<1>2. Goes(x, Take(Dismissed(x, id), c, d))
  BY DismissedTakes
<1>3. QED
  BY <1>1, <1>2, GoesNot

LEMMA CalledGoes == ASSUME NEW x, IsLedger(x), NEW c PROVE Goes(x, Called(x, c))
<1>. DEFINE d == TRUE
            i == c.id
<1>1. Called(x, c) = Take(Dismissed(x, i), c, d) \/ Called(x, c) = Take(x, c, d)
  BY DEF Called
<1>. HIDE DEF d, i
<1>2. Goes(x, Take(Dismissed(x, i), c, d)) /\ Goes(x, Take(x, c, d))
  BY DismissedTakes, TakeGoes
<1>3. QED
  BY <1>1, <1>2

\* The books of the upstream's blocks.
Opens(x, u) ==
  /\ x.skipped = IF u.open = "thinking" /\ x.suppress THEN {u.next} ELSE {}
  /\ DOMAIN x.directTools = IF u.open = "tool_use" THEN {u.next} ELSE {}

LEMMA StartedGoes ==
  ASSUME NEW x, IsLedger(x), NEW i, NEW type, NEW c
  PROVE  LET y == Started(x, i, type, c)
         IN /\ Goes(x, y)
            /\ \A u, v : Opens(x, u) /\ u.open = "none" /\ v.open = type /\ v.next = i => Opens(y, v)
<1>. DEFINE s == x.skipped \cup {i}
            f == With(x.directTools, i, c)
            a == [x EXCEPT !.skipped = s]
            b == [x EXCEPT !.directTools = f]
<1>1. Started(x, i, type, c) = IF type = "thinking" /\ x.suppress THEN a ELSE IF type = "tool_use" THEN b ELSE x
  BY DEF Started
<1>2. Goes(x, a) /\ Goes(x, b)
  <2>. HIDE DEF s, f
  <2>1. QED
    BY FieldsGo
<1>3. /\ a.skipped = s /\ a.directTools = x.directTools /\ a.suppress = x.suppress
      /\ b.skipped = x.skipped /\ b.directTools = f /\ b.suppress = x.suppress
  <2>. HIDE DEF s, f
  <2>1. QED
    BY DEF IsLedger, LedgerFields
<1>. HIDE DEF a, b
<1>4. DOMAIN f = DOMAIN x.directTools \cup {i}
  BY DEF With
<1>. HIDE DEF f
<1>5. ASSUME NEW u, NEW v, Opens(x, u), u.open = "none", v.open = type, v.next = i
      PROVE  Opens(Started(x, i, type, c), v)
  <2>1. x.skipped = {} /\ DOMAIN x.directTools = {}
    BY <1>5 DEF Opens
  <2>2. CASE type = "thinking" /\ x.suppress
    BY <1>1, <1>3, <1>5, <2>1, <2>2 DEF Opens
  <2>3. CASE type = "tool_use"
    BY <1>1, <1>3, <1>4, <1>5, <2>1, <2>3 DEF Opens
  <2>4. CASE type # "tool_use" /\ ~(type = "thinking" /\ x.suppress)
    BY <1>1, <1>5, <2>1, <2>4 DEF Opens
  <2>5. QED
    BY <2>2, <2>3, <2>4
<1>6. QED
  BY <1>1, <1>2, <1>5, GoesNot

LEMMA GrownGoes ==
  ASSUME NEW x, IsLedger(x), NEW i, NEW type, NEW t
  PROVE  LET y == Grown(x, i, type, t)
         IN Goes(x, y) /\ y.skipped = x.skipped /\ DOMAIN y.directTools = DOMAIN x.directTools
<1>. DEFINE f == [x.directTools EXCEPT ![i].filled = TRUE]
            a == [x EXCEPT !.directTools = f]
            b == Saying(x, t)
            y == Grown(x, i, type, t)
<1>1. \/ y = x
      \/ y = a
      \/ y = b
  BY DEF Grown
<1>2. DOMAIN f = DOMAIN x.directTools
  OBVIOUS
<1>. HIDE DEF f, y
<1>3. Goes(x, a) /\ Goes(x, b)
  BY FieldsGo, SayingGoes
<1>4. a.skipped = x.skipped /\ a.directTools = f
  BY DEF IsLedger, LedgerFields
<1>5. b.skipped = x.skipped /\ b.directTools = x.directTools
  BY DEF IsLedger, LedgerFields, Saying
<1>6. QED
  BY <1>1, <1>2, <1>3, <1>4, <1>5, GoesNot DEF y

LEMMA StoppedGoes ==
  ASSUME NEW x, IsLedger(x), NEW i
  PROVE  LET y == Stopped(x, i)
         IN Goes(x, y) /\ \A u, v : Opens(x, u) /\ u.next = i /\ v.open = "none" => Opens(y, v)
<1>. DEFINE s == x.skipped \ {i}
            r == Restrict(x.directTools, DOMAIN x.directTools \ {i})
            a == [x EXCEPT !.skipped = s]
            b == [x EXCEPT !.directTools = r]
            c == x.directTools[i]
            d == FALSE
            z == Take(b, c, d)
            y == Stopped(x, i)
<1>1. y = IF i \in x.skipped THEN a ELSE IF i \in DOMAIN x.directTools THEN z ELSE x
  BY DEF Stopped, Delivering
<1>. HIDE DEF d, c, y
<1>2. DOMAIN r = DOMAIN x.directTools \ {i}
  BY DEF Restrict
<1>. HIDE DEF s, r
<1>3. Goes(x, a) /\ Goes(x, b)
  BY FieldsGo
<1>4. /\ a.skipped = s /\ a.directTools = x.directTools
      /\ b.skipped = x.skipped /\ b.directTools = r
  BY DEF IsLedger, LedgerFields
<1>. HIDE DEF a, b
<1>5. Goes(b, z) /\ z.skipped = b.skipped /\ z.directTools = b.directTools
  BY <1>3, TakeGoes DEF Goes
<1>. HIDE DEF z
<1>6. Goes(x, z)
  BY <1>3, <1>5, GoesOn
<1>7. ASSUME NEW u, NEW v, Opens(x, u), u.next = i, v.open = "none" PROVE Opens(y, v)
  <2>1. x.skipped \subseteq {i} /\ DOMAIN x.directTools \subseteq {i} /\ (x.skipped = {} \/ DOMAIN x.directTools = {})
    BY <1>7 DEF Opens
  <2>2. CASE i \in x.skipped
    BY <1>1, <1>4, <1>7, <2>1, <2>2 DEF Opens, s
  <2>3. CASE i \notin x.skipped /\ i \in DOMAIN x.directTools
    BY <1>1, <1>2, <1>4, <1>5, <1>7, <2>1, <2>3 DEF Opens
  <2>4. CASE i \notin x.skipped /\ i \notin DOMAIN x.directTools
    BY <1>1, <1>7, <2>1, <2>4 DEF Opens
  <2>5. QED
    BY <2>2, <2>3, <2>4
<1>8. QED
  BY <1>1, <1>3, <1>6, <1>7, GoesNot DEF y

-----------------------------------------------------------------------------
(* The invariant of the answers. *)

\* Nothing that counts as output.
Blank(h) ==
  /\ h.hasText = FALSE /\ h.count = 0 /\ h.pending = <<>> /\ h.emitted = {} /\ h.content = <<>> /\ h.chunks = FALSE
  /\ h.estimated = FALSE

\* The response has returned.
Closed(h, u) == h.over \/ (u.told /\ u.open # "nothing")
Fit(h, u, d) ==
  /\ h.hasReturn = TRUE
  /\ (h.stream /\ d = "direct") \/ Fits(h)
  /\ d = "puter" /\ Calls(h) # <<>> => u.told /\ (Told(h) = "tool_use" \/ (~h.stream /\ u.tools = {}))

Good(h, u, d) ==
  /\ Whole(h)
  /\ u.sent = 0 /\ ~h.over => Blank(h)
  /\ Heard(h) => /\ Covered(Ledger(h))
                 /\ IF Closed(h, u) THEN Fit(h, u, d) ELSE Ready(h) /\ (d = "puter" => Marked(h))

\* The block that the upstream has open.
Placing(h, u, d) ==
  d = "direct" /\ ~u.told /\ ~h.over => Opens(Ledger(h), u) /\ (u.open = "text" => Textual(h))

\* The same answer in both modes.
Twin(h, b, u, r, d) == (r = 1 \/ d = "puter") /\ ~u.coding /\ Heard(h) => Ledger(h) = Ledger(b)

AnswerInv ==
  /\ live.stream = TRUE /\ body.stream = FALSE /\ round \in Nat /\ round # 0
  /\ Good(live, up, dialect) /\ Good(body, up, dialect)
  /\ Placing(body, up, dialect)
  /\ Twin(live, body, up, round, dialect)

LEMMA BlankSilent == ASSUME NEW h, Blank(h) PROVE ~HasAnyOutput(h) /\ ~HasToolCalls(h)
BY DEF Blank, HasAnyOutput, HasToolCalls

\* What an event does to the upstream.
Keeps(u, v, d) ==
  /\ v.sent # 0 /\ (u.told /\ u.open # "nothing" => v.told /\ v.open # "nothing")
  /\ d = "puter" /\ u.told => v.told /\ v.tools = u.tools

\* After the return, no event changes anything.
LEMMA StillGood ==
  ASSUME NEW h, NEW u, NEW v, NEW d, Good(h, u, d), Keeps(u, v, d), h.over \/ h.hasReturn
  PROVE  Good(h, v, d)
<1>1. ASSUME Heard(h) PROVE Covered(Ledger(h)) /\ Closed(h, v) /\ Fit(h, v, d)
  <2>1. Covered(Ledger(h)) /\ Closed(h, u) /\ Fit(h, u, d)
    BY <1>1 DEF Good, Ready, Closed
  <2>2. Closed(h, v)
    BY <2>1 DEF Closed, Keeps
  <2>3. QED
    BY <2>1, <2>2 DEF Fit, Keeps
<1>2. Whole(h) /\ v.sent # 0
  BY DEF Good, Keeps
<1>3. QED
  BY <1>1, <1>2 DEF Good

\* Before the return.
LEMMA GoodReady ==
  ASSUME NEW h, NEW u, NEW d, Good(h, u, d), ~h.over, ~h.hasReturn, Heard(h)
  PROVE  ~Closed(h, u) /\ Ready(h) /\ Covered(Ledger(h)) /\ (d = "puter" => Marked(h))
BY DEF Good, Fit

LEMMA GoodActs ==
  ASSUME NEW h, NEW u, NEW v, NEW d, Good(h, u, d), ~h.over, ~h.hasReturn,
         v.sent # 0, v.told /\ v.open # "nothing" => u.told /\ u.open # "nothing",
         NEW g, NEW x, Acts(h, g, x), Goes(Ledger(h), x)
  PROVE  Good(g, v, d)
<1>1. Whole(g)
  BY DEF Acts
<1>2. ASSUME Heard(g) PROVE Covered(Ledger(g)) /\ ~Closed(g, v) /\ Ready(g) /\ (d = "puter" => Marked(g))
  <2>1. Heard(h)
    BY <1>2 DEF Acts
  <2>2. ~Closed(h, u) /\ Ready(h) /\ Covered(Ledger(h)) /\ (d = "puter" => Marked(h))
    BY <2>1, GoodReady
  <2>3. Ready(g) /\ Ledger(g) = x /\ (d = "puter" => Marked(g))
    BY <1>2, <2>2 DEF Acts
  <2>4. Covered(Ledger(g)) /\ x.over = Ledger(h).over
    BY <2>2, <2>3 DEF Goes
  <2>5. g.over = h.over
    BY <2>3, <2>4, LedgerSays
  <2>6. QED
    BY <2>2, <2>3, <2>4, <2>5 DEF Closed
<1>3. QED
  BY <1>1, <1>2 DEF Good

LEMMA ReturnedCovered ==
  ASSUME NEW x, IsLedger(x), Covered(x)
  PROVE  Covered(Returned(x)) /\ Covered(Returned(Saying(x, Piece)))
<1>. DEFINE s == Saying(x, Piece)
<1>1. IsLedger(s) /\ Covered(s)
  BY SayingGoes DEF Goes
<1>. HIDE DEF s
<1>2. ASSUME NEW y, IsLedger(y), Covered(y) PROVE Covered(Returned(y))
  <2>. DEFINE z == Returned(y)
  <2>1. z.calls = y.calls /\ z.dedup = y.dedup /\ z.seed = y.seed /\ z.dropped = y.dropped /\ z.earlier = y.earlier
    BY <1>2 DEF Returned, IsLedger, LedgerFields
  <2>. HIDE DEF z
  <2>2. Covered(z)
    BY <1>2, <2>1 DEF Covered
  <2>3. QED
    BY <2>2 DEF z
<1>3. QED
  BY <1>1, <1>2 DEF s

\* The ledger of a response that returns.
LEMMA EndsCovered ==
  ASSUME NEW h, NEW g, NEW x, Ends(h, g, x), Goes(Ledger(h), x), Heard(g), Ready(h), Covered(Ledger(h))
  PROVE  Covered(Ledger(g)) /\ g.hasReturn = TRUE
<1>1. IsLedger(x) /\ Covered(x)
  BY DEF Goes
<1>2. Covered(Returned(x)) /\ Covered(Returned(Saying(x, Piece)))
  BY <1>1, ReturnedCovered
<1>3. QED
  BY <1>2 DEF Ends

LEMMA GoodEnds ==
  ASSUME NEW h, NEW u, NEW v, NEW d, Good(h, u, d), ~h.over, ~h.hasReturn,
         v.sent # 0, v.told, v.open # "nothing",
         NEW g, NEW x, Ends(h, g, x), Goes(Ledger(h), x),
         Heard(g) /\ Ready(h) /\ (d = "puter" => Marked(h)) =>
           /\ (g.stream /\ d = "direct") \/ Fits(g)
           /\ d = "puter" /\ Calls(g) # <<>> => Told(g) = "tool_use" \/ (~g.stream /\ v.tools = {})
  PROVE  Good(g, v, d)
<1>1. Whole(g)
  BY DEF Ends
<1>2. ASSUME Heard(g) PROVE Covered(Ledger(g)) /\ Closed(g, v) /\ Fit(g, v, d)
  <2>1. Heard(h)
    BY <1>2 DEF Ends
  <2>2. Ready(h) /\ Covered(Ledger(h)) /\ (d = "puter" => Marked(h))
    BY <2>1, GoodReady
  <2>3. Covered(Ledger(g)) /\ g.hasReturn = TRUE
    BY <1>2, <2>2, EndsCovered
  <2>4. QED
    BY <1>2, <2>2, <2>3 DEF Closed, Fit
<1>3. QED
  BY <1>1, <1>2 DEF Good

\* Both ledgers of a response that returns.
LEMMA EndsTwin ==
  ASSUME NEW h, NEW b, NEW g, NEW k, NEW x, Ends(h, g, x), Ends(b, k, x), Heard(g), Ready(h), Heard(k), Ready(b),
         x.chunks = FALSE
  PROVE  Ledger(g) = Ledger(k)
BY DEF Ends

\* The request is over.
Overed(h) == [h EXCEPT !.over = TRUE]

LEMMA OverSame ==
  ASSUME NEW g, Whole(g)
  PROVE  LET q == Overed(g)
         IN /\ Whole(q) /\ q.stream = g.stream /\ q.hasReturn = g.hasReturn /\ q.over = TRUE /\ (Heard(q) <=> Heard(g))
            /\ Told(q) = Told(g) /\ Calls(q) = Calls(g) /\ Ledger(q) = Overed(Ledger(g))
<1>. DEFINE q == Overed(g)
<1>1. /\ q = [f \in Fields |-> q[f]] /\ q.stream = g.stream /\ q.hasReturn = g.hasReturn /\ q.over = TRUE
      /\ q.view = g.view /\ q.cut = g.cut /\ q.stop = g.stop /\ q.content = g.content /\ q.pending = g.pending
      /\ q.intros = g.intros /\ q.last = g.last /\ q.dedup = g.dedup /\ q.seed = g.seed /\ q.dropped = g.dropped
      /\ q.handled = g.handled /\ q.disallow = g.disallow /\ q.suppress = g.suppress /\ q.earlier = g.earlier
      /\ q.inputs = g.inputs /\ q.directTools = g.directTools /\ q.skipped = g.skipped /\ q.chunks = g.chunks
  BY DEF Overed, Whole, Fields
<1>. HIDE DEF q
<1>2. Whole(q) /\ (Heard(q) <=> Heard(g)) /\ Told(q) = Told(g)
  BY <1>1 DEF Whole, Heard, Told
<1>3. Calls(q) = Calls(g) /\ Says(q) = Says(g)
  BY <1>1 DEF Calls, Says
<1>4. Ledger(q) = Overed(Ledger(g))
  <2>. DEFINE o == q.over
  <2>1. o = TRUE
    BY <1>1
  <2>. HIDE DEF o
  <2>2. Ledger(q) = [Ledger(g) EXCEPT !.over = o]
    BY <1>1, <1>3 DEF Ledger, o
  <2>3. QED
    BY <2>1, <2>2 DEF Overed
<1>5. QED
  BY <1>1, <1>2, <1>3, <1>4 DEF q

LEMMA OverCovered == ASSUME NEW h PROVE Covered(Overed(Ledger(h))) <=> Covered(Ledger(h))
<1>. DEFINE x == Ledger(h)
            z == Overed(x)
<1>1. z.calls = x.calls /\ z.dedup = x.dedup /\ z.seed = x.seed /\ z.dropped = x.dropped /\ z.earlier = x.earlier
  BY LedgerShape DEF Overed, IsLedger, LedgerFields
<1>. HIDE DEF x, z
<1>2. Covered(z) <=> Covered(x)
  BY <1>1 DEF Covered
<1>3. QED
  BY <1>2 DEF x, z

\* A response that ends its request.
LEMMA GoodOver ==
  ASSUME NEW g, Whole(g), NEW v, NEW d, Heard(g) => Covered(Ledger(g)) /\ Fit(g, v, d)
  PROVE  Good(Overed(g), v, d)
<1>. DEFINE q == Overed(g)
<1>1. /\ Whole(q) /\ q.stream = g.stream /\ q.hasReturn = g.hasReturn /\ q.over = TRUE /\ (Heard(q) <=> Heard(g))
      /\ Told(q) = Told(g) /\ Calls(q) = Calls(g) /\ Ledger(q) = Overed(Ledger(g))
  BY OverSame
<1>. HIDE DEF q
<1>2. Heard(q) => Covered(Ledger(q)) /\ Fit(q, v, d)
  BY <1>1, OverCovered DEF Fit, Fits
<1>3. QED
  BY <1>1, <1>2 DEF Good, Closed, q

-----------------------------------------------------------------------------
(* The invariant is kept by every event. *)

LEMMA Event ==
  ASSUME AnswerInv, dialect' = dialect, round' = round, Keeps(up, up', dialect), up.coding => up'.coding,
         NEW g, live' = IF live.over \/ live.hasReturn THEN live ELSE g,
         NEW k, body' = IF body.over \/ body.hasReturn THEN body ELSE k,
         ~live.over /\ ~live.hasReturn => Good(g, up', dialect) /\ g.stream = TRUE /\ (Heard(g) => Heard(live)),
         ~body.over /\ ~body.hasReturn => /\ Good(k, up', dialect) /\ k.stream = FALSE
                                          /\ Placing(body, up, dialect) => Placing(k, up', dialect),
         ~live.over /\ ~live.hasReturn /\ ~body.over /\ ~body.hasReturn =>
           (Heard(g) /\ ~up'.coding /\ Ledger(live) = Ledger(body) => Ledger(g) = Ledger(k))
  PROVE  AnswerInv'
<1>1. live'.stream = TRUE /\ body'.stream = FALSE /\ round' \in Nat /\ round' # 0
  BY DEF AnswerInv
<1>2. Good(live', up', dialect')
  <2>1. CASE live.over \/ live.hasReturn
    <3>1. Good(live, up', dialect)
      BY <2>1, StillGood DEF AnswerInv
    <3>2. QED
      BY <2>1, <3>1
  <2>2. CASE ~(live.over \/ live.hasReturn)
    BY <2>2
  <2>3. QED
    BY <2>1, <2>2
<1>3. Good(body', up', dialect')
  <2>1. CASE body.over \/ body.hasReturn
    <3>1. Good(body, up', dialect)
      BY <2>1, StillGood DEF AnswerInv
    <3>2. QED
      BY <2>1, <3>1
  <2>2. CASE ~(body.over \/ body.hasReturn)
    BY <2>2
  <2>3. QED
    BY <2>1, <2>2
<1>4. Placing(body', up', dialect')
  <2>1. CASE body.over
    BY <2>1 DEF Placing
  <2>2. CASE ~body.over /\ body.hasReturn
    <3>1. Heard(body) /\ Good(body, up, dialect)
      BY DEF AnswerInv, Heard
    <3>2. Closed(body, up)
      BY <2>2, <3>1 DEF Good, Ready
    <3>3. up'.told
      BY <2>2, <3>2 DEF Closed, Keeps
    <3>4. QED
      BY <3>3 DEF Placing
  <2>3. CASE ~body.over /\ ~body.hasReturn
    BY <2>3 DEF AnswerInv
  <2>4. QED
    BY <2>1, <2>2, <2>3
<1>5. Twin(live', body', up', round', dialect')
  <2>1. SUFFICES ASSUME round' = 1 \/ dialect' = "puter", ~up'.coding, Heard(live') PROVE Ledger(live') = Ledger(body')
    BY DEF Twin
  <2>2. Heard(live)
    BY <2>1
  <2>3. Ledger(live) = Ledger(body)
    BY <2>1, <2>2 DEF AnswerInv, Twin
  <2>4. live.over = body.over /\ live.hasReturn = body.hasReturn
    BY <2>3, LedgerSays
  <2>5. CASE live.over \/ live.hasReturn
    BY <2>3, <2>4, <2>5
  <2>6. CASE ~(live.over \/ live.hasReturn)
    BY <2>1, <2>3, <2>4, <2>6
  <2>7. QED
    BY <2>5, <2>6
<1>6. QED
  BY <1>1, <1>2, <1>3, <1>4, <1>5 DEF AnswerInv

LEMMA ActsEvent ==
  ASSUME AnswerInv, dialect' = dialect, round' = round, Keeps(up, up', dialect), up.coding => up'.coding,
         up'.told /\ up'.open # "nothing" => up.told /\ up.open # "nothing",
         NEW g, live' = IF live.over \/ live.hasReturn THEN live ELSE g,
         NEW k, body' = IF body.over \/ body.hasReturn THEN body ELSE k,
         NEW x, NEW y, Goes(Ledger(live), x), Goes(Ledger(body), y),
         ~live.over /\ ~live.hasReturn => Acts(live, g, x), ~body.over /\ ~body.hasReturn => Acts(body, k, y),
         ~up'.coding /\ Ledger(live) = Ledger(body) => x = y,
         ~body.over /\ Ready(body) /\ Placing(body, up, dialect) => Placing(k, up', dialect)
  PROVE  AnswerInv'
<1>1. up'.sent # 0 /\ live.stream = TRUE /\ body.stream = FALSE
  BY DEF Keeps, AnswerInv
<1>2. ASSUME ~live.over, ~live.hasReturn
      PROVE  /\ Good(g, up', dialect) /\ g.stream = TRUE /\ (Heard(g) => Heard(live))
             /\ Heard(g) => Ledger(g) = x
  <2>0. Acts(live, g, x)
    BY <1>2
  <2>1. Good(live, up, dialect)
    BY DEF AnswerInv
  <2>2. Good(g, up', dialect)
    BY <1>1, <1>2, <2>1, <2>0, GoodActs
  <2>3. Heard(live) => Ready(live)
    BY <1>2, <2>1, GoodReady
  <2>4. QED
    BY <1>1, <2>0, <2>2, <2>3 DEF Acts
<1>3. ASSUME ~body.over, ~body.hasReturn
      PROVE  /\ Good(k, up', dialect) /\ k.stream = FALSE /\ Ledger(k) = y
             /\ Placing(body, up, dialect) => Placing(k, up', dialect)
  <2>0. Acts(body, k, y)
    BY <1>3
  <2>1. Good(body, up, dialect) /\ Heard(body)
    BY <1>1 DEF AnswerInv, Heard
  <2>2. Good(k, up', dialect)
    BY <1>1, <1>3, <2>1, <2>0, GoodActs
  <2>3. Ready(body)
    BY <1>3, <2>1, GoodReady
  <2>4. k.stream = FALSE /\ Heard(k)
    BY <1>1, <2>0 DEF Acts, Heard
  <2>5. QED
    BY <1>3, <2>0, <2>2, <2>3, <2>4 DEF Acts
<1>4. ~live.over /\ ~live.hasReturn => Good(g, up', dialect) /\ g.stream = TRUE /\ (Heard(g) => Heard(live))
  BY <1>2
<1>5. ~body.over /\ ~body.hasReturn => /\ Good(k, up', dialect) /\ k.stream = FALSE
                                       /\ Placing(body, up, dialect) => Placing(k, up', dialect)
  BY <1>3
<1>6. ~live.over /\ ~live.hasReturn /\ ~body.over /\ ~body.hasReturn =>
        (Heard(g) /\ ~up'.coding /\ Ledger(live) = Ledger(body) => Ledger(g) = Ledger(k))
  BY <1>2, <1>3
<1>7. QED
  BY <1>4, <1>5, <1>6, Event

LEMMA EndsEvent ==
  ASSUME AnswerInv, dialect' = dialect, round' = round, Keeps(up, up', dialect), up.coding => up'.coding,
         up'.told, up'.open # "nothing",
         NEW g, live' = IF live.over \/ live.hasReturn THEN live ELSE g,
         NEW k, body' = IF body.over \/ body.hasReturn THEN body ELSE k,
         NEW x, NEW y, Ends(live, g, x), Ends(body, k, y), Goes(Ledger(live), x), Goes(Ledger(body), y),
         y.chunks = Ledger(body).chunks,
         Ledger(live) = Ledger(body) => x = y,
         Heard(g) /\ Ready(live) /\ (dialect = "puter" => Marked(live)) =>
           /\ dialect = "direct" \/ Fits(g)
           /\ dialect = "puter" /\ Calls(g) # <<>> => Told(g) = "tool_use",
         Ready(body) /\ (dialect = "puter" => Marked(body)) =>
           /\ Fits(k)
           /\ dialect = "puter" /\ Calls(k) # <<>> => Told(k) = "tool_use" \/ up'.tools = {}
  PROVE  AnswerInv'
<1>1. up'.sent # 0 /\ live.stream = TRUE /\ body.stream = FALSE
  BY DEF Keeps, AnswerInv
<1>2. ASSUME ~live.over, ~live.hasReturn
      PROVE  /\ Good(g, up', dialect) /\ g.stream = TRUE /\ (Heard(g) => Heard(live))
             /\ Heard(g) => Ready(live)
  <2>1. Good(live, up, dialect)
    BY DEF AnswerInv
  <2>2. g.stream = TRUE
    BY <1>1 DEF Ends
  <2>3. Good(g, up', dialect)
    BY <1>1, <1>2, <2>1, <2>2, GoodEnds
  <2>4. Heard(live) => Ready(live)
    BY <1>2, <2>1, GoodReady
  <2>5. QED
    BY <2>2, <2>3, <2>4 DEF Ends
<1>3. ASSUME ~body.over, ~body.hasReturn
      PROVE  /\ Good(k, up', dialect) /\ k.stream = FALSE /\ Heard(k) /\ Ready(body) /\ y.chunks = FALSE
  <2>1. Good(body, up, dialect) /\ Heard(body)
    BY <1>1 DEF AnswerInv, Heard
  <2>2. k.stream = FALSE
    BY <1>1 DEF Ends
  <2>3. Good(k, up', dialect)
    BY <1>1, <1>3, <2>1, <2>2, GoodEnds
  <2>4. Ready(body)
    BY <1>3, <2>1, GoodReady
  <2>5. y.chunks = FALSE
    BY <1>1, <2>4, LedgerSays DEF Ready, Kept
  <2>6. QED
    BY <2>2, <2>3, <2>4, <2>5 DEF Heard
<1>4. ASSUME ~live.over, ~live.hasReturn, ~body.over, ~body.hasReturn, Heard(g), Ledger(live) = Ledger(body)
      PROVE  Ledger(g) = Ledger(k)
  <2>1. x = y /\ Ready(live) /\ Heard(k) /\ Ready(body) /\ y.chunks = FALSE
    BY <1>2, <1>3, <1>4
  <2>2. QED
    BY <1>4, <2>1, EndsTwin
<1>5. ~body.over /\ ~body.hasReturn => (Placing(body, up, dialect) => Placing(k, up', dialect))
  BY DEF Placing
<1>6. ~live.over /\ ~live.hasReturn => Good(g, up', dialect) /\ g.stream = TRUE /\ (Heard(g) => Heard(live))
  BY <1>2
<1>7. ~body.over /\ ~body.hasReturn => /\ Good(k, up', dialect) /\ k.stream = FALSE
                                       /\ Placing(body, up, dialect) => Placing(k, up', dialect)
  BY <1>3, <1>5
<1>8. ~live.over /\ ~live.hasReturn /\ ~body.over /\ ~body.hasReturn =>
        (Heard(g) /\ ~up'.coding /\ Ledger(live) = Ledger(body) => Ledger(g) = Ledger(k))
  BY <1>2, <1>3, <1>4
<1>9. QED
  BY <1>6, <1>7, <1>8, Event

-----------------------------------------------------------------------------
(* Kept by the events of Puter. *)

LEMMA AnswerWhole == ASSUME AnswerInv PROVE Whole(live) /\ Whole(body) /\ live.stream = TRUE /\ body.stream = FALSE
BY DEF AnswerInv, Good

LEMMA UpFields ==
  ASSUME HandlerInv
  PROVE  /\ up = [f \in {"sent", "open", "next", "tools", "coding", "told"} |-> up[f]]
         /\ up.sent \in Nat /\ up.coding \in BOOLEAN /\ up.told \in BOOLEAN /\ (dialect # "direct" => up.open = "none")
         /\ (up.sent = 0 => ~up.told)
BY DEF HandlerInv, Upstream, NothingSent

\* Before the end of Puter's answer.
LEMMA PuterSent ==
  ASSUME HandlerInv, NEW t, NEW w \in BOOLEAN, NEW next, Sends("puter", next), ~up.told,
         next = [up EXCEPT !.sent = @ + 1, !.tools = t, !.told = w]
  PROVE  /\ dialect' = dialect /\ dialect = "puter" /\ round' = round /\ Keeps(up, up', dialect)
         /\ up.coding => up'.coding
         /\ up'.tools = t /\ up'.told = w /\ up'.open # "nothing"
<1>1. dialect = "puter" /\ dialect' = dialect /\ round' = round /\ up' = next
  BY DEF Sends
<1>2. /\ up = [f \in {"sent", "open", "next", "tools", "coding", "told"} |-> up[f]]
      /\ up.sent \in Nat /\ up.open = "none"
  BY <1>1, UpFields
<1>3. up'.sent = up.sent + 1 /\ up'.tools = t /\ up'.told = w /\ up'.open = up.open /\ up'.coding = up.coding
  BY <1>1, <1>2
<1>4. up'.sent # 0
  BY <1>2, <1>3
<1>5. QED
  BY <1>1, <1>2, <1>3, <1>4 DEF Keeps

LEMMA PuterTextAnswer == ASSUME HandlerInv, AnswerInv, NEW t \in Texts, PuterText(t) PROVE AnswerInv'
<1>. DEFINE s == "model"
            o == FALSE
            i == 0
            g == TextDelta(live, t, s, o, i)
            k == TextDelta(body, t, s, o, i)
            x == Noting(Calling(Ledger(live), t, i), t, s, o)
            y == Noting(Calling(Ledger(body), t, i), t, s, o)
<1>1. live' = (IF live.over \/ live.hasReturn THEN live ELSE g) /\ body' = (IF body.over \/ body.hasReturn THEN body ELSE k)
  BY DEF PuterText, Both, Feed
<1>2. Sends("puter", Sent) /\ ~up.told
  BY UpFields DEF PuterText
<1>3. Sent = [up EXCEPT !.sent = @ + 1, !.tools = up.tools, !.told = up.told]
  BY UpFields DEF Sent
<1>4. /\ dialect' = dialect /\ dialect = "puter" /\ round' = round /\ Keeps(up, up', dialect)
      /\ up.coding => up'.coding
      /\ up'.told = up.told /\ up'.open # "nothing"
  BY <1>2, <1>3, UpFields, PuterSent
<1>. HIDE DEF s, o, i
<1>5. Acts(live, g, x) /\ Acts(body, k, y)
  BY AnswerWhole, TextDeltaActs
<1>6. Goes(Ledger(live), x) /\ Goes(Ledger(body), y)
  BY LedgerShape, TextGoes
<1>7. Ledger(live) = Ledger(body) => x = y
  OBVIOUS
<1>8. Placing(k, up', dialect)
  BY <1>4 DEF Placing
<1>. HIDE DEF g, k, x, y
<1>9. QED
  BY <1>1, <1>2, <1>4, <1>5, <1>6, <1>7, <1>8, ActsEvent

LEMMA PuterToolAnswer ==
  ASSUME HandlerInv, AnswerInv, NEW id \in Ids, NEW tool \in Tools, PuterTool(id, tool) PROVE AnswerInv'
<1>. DEFINE g == ToolCall(live, id, tool)
            k == ToolCall(body, id, tool)
            c == [id |-> id, tool |-> tool, filled |-> TRUE]
            x == Called(Ledger(live), c)
            y == Called(Ledger(body), c)
            t == up.tools \cup {id}
            next == [Sent EXCEPT !.tools = @ \cup {id}]
<1>1. live' = (IF live.over \/ live.hasReturn THEN live ELSE g) /\ body' = (IF body.over \/ body.hasReturn THEN body ELSE k)
  BY DEF PuterTool, Both, Feed
<1>2. Sends("puter", next) /\ ~up.told
  BY DEF PuterTool
<1>3. next = [up EXCEPT !.sent = @ + 1, !.tools = t, !.told = up.told]
  BY UpFields DEF Sent
<1>. HIDE DEF t, next
<1>4. /\ dialect' = dialect /\ dialect = "puter" /\ round' = round /\ Keeps(up, up', dialect)
      /\ up.coding => up'.coding
      /\ up'.told = up.told /\ up'.open # "nothing"
  BY <1>2, <1>3, UpFields, PuterSent
<1>5. Acts(live, g, x) /\ Acts(body, k, y)
  BY AnswerWhole, ToolCallActs
<1>6. Goes(Ledger(live), x) /\ Goes(Ledger(body), y)
  <2>. HIDE DEF c
  <2>1. QED
    BY LedgerShape, CalledGoes
<1>7. Ledger(live) = Ledger(body) => x = y
  OBVIOUS
<1>8. Placing(k, up', dialect)
  BY <1>4 DEF Placing
<1>. HIDE DEF g, k, x, y
<1>9. QED
  BY <1>1, <1>2, <1>4, <1>5, <1>6, <1>7, <1>8, ActsEvent

LEMMA PuterFinishAnswer == ASSUME HandlerInv, AnswerInv, PuterFinish PROVE AnswerInv'
<1>. DEFINE reason == IF up.tools = {} THEN "end_turn" ELSE "tool_use"
            g == ModelFinish(live, reason)
            k == ModelFinish(body, reason)
            d == TRUE
            next == [Sent EXCEPT !.told = TRUE]
<1>1. live' = (IF live.over \/ live.hasReturn THEN live ELSE g) /\ body' = (IF body.over \/ body.hasReturn THEN body ELSE k)
  BY DEF PuterFinish, Both, Feed
<1>2. Sends("puter", next) /\ ~up.told
  BY DEF PuterFinish
<1>3. next = [up EXCEPT !.sent = @ + 1, !.tools = up.tools, !.told = d]
  BY UpFields DEF Sent
<1>. HIDE DEF next
<1>4. /\ dialect' = dialect /\ dialect = "puter" /\ round' = round /\ Keeps(up, up', dialect)
      /\ up.coding => up'.coding
      /\ up'.tools = up.tools /\ up'.told /\ up'.open # "nothing"
  <2>1. d \in BOOLEAN
    OBVIOUS
  <2>2. up'.told = d /\ dialect' = dialect /\ dialect = "puter" /\ round' = round /\ Keeps(up, up', dialect)
        /\ (up.coding => up'.coding) /\ up'.tools = up.tools /\ up'.open # "nothing"
    <3>. HIDE DEF d
    <3>1. QED
      BY <1>2, <1>3, <2>1, PuterSent
  <2>3. QED
    BY <2>2
<1>5. reason = "tool_use" \/ up'.tools = {}
  BY <1>4
<1>. HIDE DEF reason
<1>6. /\ Ends(live, g, Ledger(live))
      /\ Heard(g) /\ Ready(live) => Fits(g)
      /\ Heard(g) /\ Ready(live) /\ Marked(live) /\ Calls(live) # <<>> /\ (live.stream \/ reason = "tool_use")
           => Told(g) = "tool_use"
  BY AnswerWhole, ModelFinishActs
<1>7. /\ Ends(body, k, Ledger(body))
      /\ Heard(k) /\ Ready(body) => Fits(k)
      /\ Heard(k) /\ Ready(body) /\ Marked(body) /\ Calls(body) # <<>> /\ (body.stream \/ reason = "tool_use")
           => Told(k) = "tool_use"
  BY AnswerWhole, ModelFinishActs
<1>8. Goes(Ledger(live), Ledger(live)) /\ Goes(Ledger(body), Ledger(body))
  BY LedgerShape, GoesNot
<1>. HIDE DEF g, k
<1>9. Heard(g) /\ Ready(live) => Calls(g) = Calls(live)
  BY <1>6, SameSaid, EndCalls
<1>10. Heard(k)
  BY <1>7, AnswerWhole DEF Heard, Ends
<1>11. Ready(body) => Calls(k) = Calls(body)
  BY <1>7, <1>10, SameSaid, EndCalls
<1>12. Heard(g) /\ Ready(live) /\ (dialect = "puter" => Marked(live)) =>
           /\ dialect = "direct" \/ Fits(g)
           /\ dialect = "puter" /\ Calls(g) # <<>> => Told(g) = "tool_use"
  BY <1>4, <1>6, <1>9, AnswerWhole
<1>13. Ready(body) /\ (dialect = "puter" => Marked(body)) =>
           /\ Fits(k)
           /\ dialect = "puter" /\ Calls(k) # <<>> => Told(k) = "tool_use" \/ up'.tools = {}
  BY <1>4, <1>5, <1>7, <1>10, <1>11
<1>. DEFINE x == Ledger(live)
            y == Ledger(body)
<1>14. /\ Ends(live, g, x) /\ Ends(body, k, y) /\ Goes(Ledger(live), x) /\ Goes(Ledger(body), y)
       /\ y.chunks = Ledger(body).chunks /\ (Ledger(live) = Ledger(body) => x = y)
  BY <1>6, <1>7, <1>8
<1>. HIDE DEF x, y
<1>15. QED
  BY <1>1, <1>4, <1>12, <1>13, <1>14, EndsEvent

-----------------------------------------------------------------------------
(* Kept by the events of the agents. *)

LEMMA AgentKeeps ==
  ASSUME HandlerInv, Sends("agent", Sent) \/ Sends("agent", [Sent EXCEPT !.coding = TRUE])
  PROVE  /\ dialect' = dialect /\ dialect = "agent" /\ round' = round /\ Keeps(up, up', dialect)
         /\ up.coding => up'.coding
         /\ up'.told = up.told /\ up'.open = up.open /\ up.open = "none"
<1>1. dialect = "agent" /\ dialect' = dialect /\ round' = round /\ (up' = Sent \/ up' = [Sent EXCEPT !.coding = TRUE])
  BY DEF Sends
<1>2. /\ up = [f \in {"sent", "open", "next", "tools", "coding", "told"} |-> up[f]]
      /\ up.sent \in Nat /\ up.open = "none" /\ up.coding \in BOOLEAN
  BY <1>1, UpFields
<1>3. up'.sent = up.sent + 1 /\ up'.told = up.told /\ up'.open = up.open /\ (up.coding => up'.coding)
  BY <1>1, <1>2 DEF Sent
<1>4. up'.sent # 0
  BY <1>2, <1>3
<1>5. QED
  BY <1>1, <1>2, <1>3, <1>4 DEF Keeps

LEMMA AgentAnswer ==
  ASSUME HandlerInv, AnswerInv, Sends("agent", Sent) \/ Sends("agent", [Sent EXCEPT !.coding = TRUE]),
         NEW g, live' = IF live.over \/ live.hasReturn THEN live ELSE g,
         NEW k, body' = IF body.over \/ body.hasReturn THEN body ELSE k,
         NEW x, NEW y, Acts(live, g, x), Acts(body, k, y), Goes(Ledger(live), x), Goes(Ledger(body), y),
         ~up'.coding /\ Ledger(live) = Ledger(body) => x = y
  PROVE  AnswerInv'
<1>1. /\ dialect' = dialect /\ dialect = "agent" /\ round' = round /\ Keeps(up, up', dialect)
      /\ up.coding => up'.coding
      /\ up'.told = up.told /\ up'.open = up.open
  BY AgentKeeps
<1>2. Placing(k, up', dialect)
  BY <1>1 DEF Placing
<1>3. QED
  BY <1>1, <1>2, ActsEvent

\* The ledgers stay.
LEMMA AgentCalm ==
  ASSUME HandlerInv, AnswerInv, Sends("agent", Sent) \/ Sends("agent", [Sent EXCEPT !.coding = TRUE]),
         NEW g, live' = IF live.over \/ live.hasReturn THEN live ELSE g,
         NEW k, body' = IF body.over \/ body.hasReturn THEN body ELSE k,
         Acts(live, g, Ledger(live)), Acts(body, k, Ledger(body))
  PROVE  AnswerInv'
<1>. DEFINE x == Ledger(live)
            y == Ledger(body)
<1>1. Goes(Ledger(live), x) /\ Goes(Ledger(body), y)
  BY LedgerShape, GoesNot
<1>2. Acts(live, g, x) /\ Acts(body, k, y) /\ (~up'.coding /\ Ledger(live) = Ledger(body) => x = y)
  OBVIOUS
<1>. HIDE DEF x, y
<1>3. QED
  BY <1>1, <1>2, AgentAnswer

\* In no-thinking mode the event is dropped.
LEMMA AgentThinks ==
  ASSUME HandlerInv, AnswerInv, Sends("agent", Sent) \/ Sends("agent", [Sent EXCEPT !.coding = TRUE]),
         NEW g, live' = IF live.suppress THEN live ELSE IF live.over \/ live.hasReturn THEN live ELSE g,
         NEW k, body' = IF body.suppress THEN body ELSE IF body.over \/ body.hasReturn THEN body ELSE k,
         Acts(live, g, Ledger(live)), Acts(body, k, Ledger(body))
  PROVE  AnswerInv'
<1>. DEFINE a == IF live.suppress THEN live ELSE g
            b == IF body.suppress THEN body ELSE k
<1>1. live' = (IF live.over \/ live.hasReturn THEN live ELSE a) /\ body' = (IF body.over \/ body.hasReturn THEN body ELSE b)
  OBVIOUS
<1>2. Acts(live, a, Ledger(live)) /\ Acts(body, b, Ledger(body))
  BY AnswerWhole, ActsNot
<1>. HIDE DEF a, b
<1>3. QED
  BY <1>1, <1>2, AgentCalm

LEMMA AgentReasoningAnswer ==
  ASSUME HandlerInv, AnswerInv, NEW t \in {Piece, NoText}, NEW signed \in BOOLEAN, AgentReasoning(t, signed)
  PROVE  AnswerInv'
<1>. USE DEF BothThinking, FeedThinking, Feed
<1>1. Sends("agent", Sent)
  BY DEF AgentReasoning
<1>2. CASE BothThinking(LAMBDA h : ReasoningStart(h, signed))
  <2>. DEFINE g == ReasoningStart(live, signed)
              k == ReasoningStart(body, signed)
  <2>1. /\ live' = IF live.suppress THEN live ELSE IF live.over \/ live.hasReturn THEN live ELSE g
        /\ body' = IF body.suppress THEN body ELSE IF body.over \/ body.hasReturn THEN body ELSE k
    BY <1>2
  <2>2. Acts(live, g, Ledger(live)) /\ Acts(body, k, Ledger(body))
    BY AnswerWhole, ReasoningStartActs
  <2>. HIDE DEF g, k
  <2>3. QED
    BY <1>1, <2>1, <2>2, AgentThinks
<1>3. CASE BothThinking(LAMBDA h : ReasoningDelta(h, t, signed))
  <2>. DEFINE g == ReasoningDelta(live, t, signed)
              k == ReasoningDelta(body, t, signed)
  <2>1. /\ live' = IF live.suppress THEN live ELSE IF live.over \/ live.hasReturn THEN live ELSE g
        /\ body' = IF body.suppress THEN body ELSE IF body.over \/ body.hasReturn THEN body ELSE k
    BY <1>3
  <2>2. Acts(live, g, Ledger(live)) /\ Acts(body, k, Ledger(body))
    BY AnswerWhole, ReasoningDeltaActs
  <2>. HIDE DEF g, k
  <2>3. QED
    BY <1>1, <2>1, <2>2, AgentThinks
<1>4. CASE BothThinking(CloseActiveBlock)
  <2>. DEFINE g == CloseActiveBlock(live)
              k == CloseActiveBlock(body)
  <2>1. /\ live' = IF live.suppress THEN live ELSE IF live.over \/ live.hasReturn THEN live ELSE g
        /\ body' = IF body.suppress THEN body ELSE IF body.over \/ body.hasReturn THEN body ELSE k
    BY <1>4
  <2>2. Acts(live, g, Ledger(live)) /\ Acts(body, k, Ledger(body))
    BY AnswerWhole, CloseActs
  <2>. HIDE DEF g, k
  <2>3. QED
    BY <1>1, <2>1, <2>2, AgentThinks
<1>5. QED
  BY <1>2, <1>3, <1>4 DEF AgentReasoning

LEMMA AgentTextAnswer ==
  ASSUME HandlerInv, AnswerInv, NEW t \in Texts, NEW source \in {"model", "coding_agent"}, NEW soon \in BOOLEAN,
         AgentText(t, source, soon)
  PROVE  AnswerInv'
<1>. DEFINE i == n
            g == TextDelta(live, t, source, soon, i)
            k == TextDelta(body, t, source, soon, i)
            x == Noting(Calling(Ledger(live), t, i), t, source, soon)
            y == Noting(Calling(Ledger(body), t, i), t, source, soon)
<1>1. Sends("agent", Sent)
  BY DEF AgentText
<1>2. live' = (IF live.over \/ live.hasReturn THEN live ELSE g) /\ body' = (IF body.over \/ body.hasReturn THEN body ELSE k)
  BY DEF AgentText, Both, Feed
<1>. HIDE DEF i
<1>3. Acts(live, g, x) /\ Acts(body, k, y)
  BY AnswerWhole, TextDeltaActs
<1>4. Goes(Ledger(live), x) /\ Goes(Ledger(body), y)
  BY LedgerShape, TextGoes
<1>5. Ledger(live) = Ledger(body) => x = y
  OBVIOUS
<1>. HIDE DEF g, k, x, y
<1>6. QED
  BY <1>1, <1>2, <1>3, <1>4, <1>5, AgentAnswer

LEMMA AgentTextBlockAnswer == ASSUME HandlerInv, AnswerInv, AgentTextBlock PROVE AnswerInv'
<1>1. Sends("agent", Sent)
  BY DEF AgentTextBlock
<1>2. CASE Both(LAMBDA h : EnsureBlock(h, "text"))
  <2>. DEFINE type == "text"
              g == EnsureBlock(live, type)
              k == EnsureBlock(body, type)
  <2>1. live' = (IF live.over \/ live.hasReturn THEN live ELSE g) /\ body' = (IF body.over \/ body.hasReturn THEN body ELSE k)
    BY <1>2 DEF Both, Feed
  <2>2. type \in {"text", "thinking"}
    OBVIOUS
  <2>. HIDE DEF type
  <2>3. Acts(live, g, Ledger(live)) /\ Acts(body, k, Ledger(body))
    BY <2>2, AnswerWhole, EnsureActs
  <2>. HIDE DEF g, k
  <2>4. QED
    BY <1>1, <2>1, <2>3, AgentCalm
<1>3. CASE Both(CloseActiveBlock)
  <2>. DEFINE g == CloseActiveBlock(live)
              k == CloseActiveBlock(body)
  <2>1. live' = (IF live.over \/ live.hasReturn THEN live ELSE g) /\ body' = (IF body.over \/ body.hasReturn THEN body ELSE k)
    BY <1>3 DEF Both, Feed
  <2>2. Acts(live, g, Ledger(live)) /\ Acts(body, k, Ledger(body))
    BY AnswerWhole, CloseActs
  <2>. HIDE DEF g, k
  <2>3. QED
    BY <1>1, <2>1, <2>2, AgentCalm
<1>4. QED
  BY <1>2, <1>3 DEF AgentTextBlock

LEMMA AgentToolAnswer ==
  ASSUME HandlerInv, AnswerInv, NEW id \in Ids, NEW tool \in Tools, AgentTool(id, tool) PROVE AnswerInv'
<1>1. Sends("agent", Sent)
  BY DEF AgentTool
<1>2. CASE Both(LAMBDA h : ToolInputStart(h, id, tool))
  <2>. DEFINE g == ToolInputStart(live, id, tool)
              k == ToolInputStart(body, id, tool)
              x == Collected(Ledger(live), id, tool)
              y == Collected(Ledger(body), id, tool)
  <2>1. live' = (IF live.over \/ live.hasReturn THEN live ELSE g) /\ body' = (IF body.over \/ body.hasReturn THEN body ELSE k)
    BY <1>2 DEF Both, Feed
  <2>2. Acts(live, g, x) /\ Acts(body, k, y)
    BY AnswerWhole, ToolInputStartActs
  <2>3. Goes(Ledger(live), x) /\ Goes(Ledger(body), y)
    BY LedgerShape, CollectedGoes
  <2>4. Ledger(live) = Ledger(body) => x = y
    OBVIOUS
  <2>. HIDE DEF g, k, x, y
  <2>5. QED
    BY <1>1, <2>1, <2>2, <2>3, <2>4, AgentAnswer
<1>3. CASE Both(LAMBDA h : ToolInputDelta(h, id))
  <2>. DEFINE g == ToolInputDelta(live, id)
              k == ToolInputDelta(body, id)
              x == Filled(Ledger(live), id)
              y == Filled(Ledger(body), id)
  <2>1. live' = (IF live.over \/ live.hasReturn THEN live ELSE g) /\ body' = (IF body.over \/ body.hasReturn THEN body ELSE k)
    BY <1>3 DEF Both, Feed
  <2>2. Acts(live, g, x) /\ Acts(body, k, y)
    BY AnswerWhole, ToolInputDeltaActs
  <2>3. Goes(Ledger(live), x) /\ Goes(Ledger(body), y)
    BY LedgerShape, FilledGoes
  <2>4. Ledger(live) = Ledger(body) => x = y
    OBVIOUS
  <2>. HIDE DEF g, k, x, y
  <2>5. QED
    BY <1>1, <2>1, <2>2, <2>3, <2>4, AgentAnswer
<1>4. CASE Both(LAMBDA h : ToolInputEnd(h, id))
  <2>. DEFINE g == ToolInputEnd(live, id)
              k == ToolInputEnd(body, id)
              x == Ended(Ledger(live), id)
              y == Ended(Ledger(body), id)
  <2>1. live' = (IF live.over \/ live.hasReturn THEN live ELSE g) /\ body' = (IF body.over \/ body.hasReturn THEN body ELSE k)
    BY <1>4 DEF Both, Feed
  <2>2. Acts(live, g, x) /\ Acts(body, k, y)
    BY AnswerWhole, ToolInputEndActs
  <2>3. Goes(Ledger(live), x) /\ Goes(Ledger(body), y)
    BY LedgerShape, EndedGoes
  <2>4. Ledger(live) = Ledger(body) => x = y
    OBVIOUS
  <2>. HIDE DEF g, k, x, y
  <2>5. QED
    BY <1>1, <2>1, <2>2, <2>3, <2>4, AgentAnswer
<1>5. CASE Both(LAMBDA h : ToolCall(h, id, tool))
  <2>. DEFINE g == ToolCall(live, id, tool)
              k == ToolCall(body, id, tool)
              c == [id |-> id, tool |-> tool, filled |-> TRUE]
              x == Called(Ledger(live), c)
              y == Called(Ledger(body), c)
  <2>1. live' = (IF live.over \/ live.hasReturn THEN live ELSE g) /\ body' = (IF body.over \/ body.hasReturn THEN body ELSE k)
    BY <1>5 DEF Both, Feed
  <2>2. Acts(live, g, x) /\ Acts(body, k, y)
    BY AnswerWhole, ToolCallActs
  <2>3. Goes(Ledger(live), x) /\ Goes(Ledger(body), y)
    <3>. HIDE DEF c
    <3>1. QED
      BY LedgerShape, CalledGoes
  <2>4. Ledger(live) = Ledger(body) => x = y
    OBVIOUS
  <2>. HIDE DEF g, k, x, y
  <2>5. QED
    BY <1>1, <2>1, <2>2, <2>3, <2>4, AgentAnswer
<1>6. QED
  BY <1>2, <1>3, <1>4, <1>5 DEF AgentTool

LEMMA AgentCodingAnswer == ASSUME HandlerInv, AnswerInv, AgentCoding PROVE AnswerInv'
<1>1. Sends("agent", [Sent EXCEPT !.coding = TRUE])
  BY DEF AgentCoding
<1>2. CASE BothThinking(AgentStart)
  <2>. DEFINE g == AgentStart(live)
              k == AgentStart(body)
  <2>1. /\ live' = IF live.suppress THEN live ELSE IF live.over \/ live.hasReturn THEN live ELSE g
        /\ body' = IF body.suppress THEN body ELSE IF body.over \/ body.hasReturn THEN body ELSE k
    BY <1>2 DEF BothThinking, FeedThinking, Feed
  <2>2. Acts(live, g, Ledger(live)) /\ Acts(body, k, Ledger(body))
    BY AnswerWhole, AgentStartActs
  <2>. HIDE DEF g, k
  <2>3. QED
    BY <1>1, <2>1, <2>2, AgentThinks
<1>3. CASE Both(AgentStart)
  <2>. DEFINE g == AgentStart(live)
              k == AgentStart(body)
  <2>1. live' = (IF live.over \/ live.hasReturn THEN live ELSE g) /\ body' = (IF body.over \/ body.hasReturn THEN body ELSE k)
    BY <1>3 DEF Both, Feed
  <2>2. Acts(live, g, Ledger(live)) /\ Acts(body, k, Ledger(body))
    BY AnswerWhole, AgentStartActs
  <2>. HIDE DEF g, k
  <2>3. QED
    BY <1>1, <2>1, <2>2, AgentCalm
<1>4. CASE Both(WriteStarted)
  <2>. DEFINE g == WriteStarted(live)
              k == WriteStarted(body)
  <2>1. live' = (IF live.over \/ live.hasReturn THEN live ELSE g) /\ body' = (IF body.over \/ body.hasReturn THEN body ELSE k)
    BY <1>4 DEF Both, Feed
  <2>2. Acts(live, g, Ledger(live)) /\ Acts(body, k, Ledger(body))
    BY AnswerWhole, WriteStartedActs
  <2>. HIDE DEF g, k
  <2>3. QED
    BY <1>1, <2>1, <2>2, AgentCalm
<1>5. CASE Both(WriteChunk)
  <2>. DEFINE g == WriteChunk(live)
              k == WriteChunk(body)
              x == Chunked(Ledger(live), live.stream)
              y == Chunked(Ledger(body), body.stream)
  <2>1. live' = (IF live.over \/ live.hasReturn THEN live ELSE g) /\ body' = (IF body.over \/ body.hasReturn THEN body ELSE k)
    BY <1>5 DEF Both, Feed
  <2>2. Acts(live, g, x) /\ Acts(body, k, y)
    BY AnswerWhole, WriteChunkActs
  <2>3. Goes(Ledger(live), x) /\ Goes(Ledger(body), y)
    BY LedgerShape, ChunkedGoes
  <2>4. up'.coding
    <3>1. up' = [Sent EXCEPT !.coding = TRUE]
      BY <1>1 DEF Sends
    <3>2. up = [f \in {"sent", "open", "next", "tools", "coding", "told"} |-> up[f]]
      BY UpFields
    <3>3. QED
      BY <3>1, <3>2 DEF Sent
  <2>. HIDE DEF g, k, x, y
  <2>5. QED
    BY <1>1, <2>1, <2>2, <2>3, <2>4, AgentAnswer
<1>6. CASE Both(WriteCompleted)
  <2>. DEFINE g == WriteCompleted(live)
              k == WriteCompleted(body)
  <2>1. live' = (IF live.over \/ live.hasReturn THEN live ELSE g) /\ body' = (IF body.over \/ body.hasReturn THEN body ELSE k)
    BY <1>6 DEF Both, Feed
  <2>2. Acts(live, g, Ledger(live)) /\ Acts(body, k, Ledger(body))
    BY AnswerWhole, WriteCompletedActs
  <2>. HIDE DEF g, k
  <2>3. QED
    BY <1>1, <2>1, <2>2, AgentCalm
<1>7. ASSUME NEW throttled \in BOOLEAN, Both(LAMBDA h : FsOperation(h, throttled)) PROVE AnswerInv'
  <2>. DEFINE g == FsOperation(live, throttled)
              k == FsOperation(body, throttled)
  <2>1. live' = (IF live.over \/ live.hasReturn THEN live ELSE g) /\ body' = (IF body.over \/ body.hasReturn THEN body ELSE k)
    BY <1>7 DEF Both, Feed
  <2>2. Acts(live, g, Ledger(live)) /\ Acts(body, k, Ledger(body))
    BY AnswerWhole, FsOperationActs
  <2>. HIDE DEF g, k
  <2>3. QED
    BY <1>1, <2>1, <2>2, AgentCalm
<1>8. QED
  BY <1>2, <1>3, <1>4, <1>5, <1>6, <1>7 DEF AgentCoding

LEMMA AgentUsageAnswer == ASSUME HandlerInv, AnswerInv, AgentUsage PROVE AnswerInv'
<1>. DEFINE g == [live EXCEPT !.usage = TRUE]
            k == [body EXCEPT !.usage = TRUE]
<1>1. Sends("agent", Sent)
  BY DEF AgentUsage
<1>2. live' = (IF live.over \/ live.hasReturn THEN live ELSE g) /\ body' = (IF body.over \/ body.hasReturn THEN body ELSE k)
  BY DEF AgentUsage, Both, Feed
<1>3. Alike(live, g) /\ Alike(body, k)
  BY AnswerWhole, UsageAlike
<1>. HIDE DEF g, k
<1>4. Acts(live, g, Ledger(live)) /\ Acts(body, k, Ledger(body))
  BY <1>3, AlikeActs
<1>5. QED
  BY <1>1, <1>2, <1>4, AgentCalm

\* The end that an agent tells.
LEMMA AgentEnding ==
  ASSUME HandlerInv, AnswerInv, Sends("agent", [Sent EXCEPT !.told = TRUE]),
         NEW g, live' = IF live.over \/ live.hasReturn THEN live ELSE g,
         NEW k, body' = IF body.over \/ body.hasReturn THEN body ELSE k,
         NEW x, NEW y, Ends(live, g, x), Ends(body, k, y), Goes(Ledger(live), x), Goes(Ledger(body), y),
         y.chunks = Ledger(body).chunks, Ledger(live) = Ledger(body) => x = y,
         Heard(g) /\ Ready(live) => Fits(g), Heard(k) /\ Ready(body) => Fits(k)
  PROVE  AnswerInv'
<1>1. dialect = "agent" /\ dialect' = dialect /\ round' = round /\ up' = [Sent EXCEPT !.told = TRUE]
  BY DEF Sends
<1>2. /\ up = [f \in {"sent", "open", "next", "tools", "coding", "told"} |-> up[f]]
      /\ up.sent \in Nat /\ up.open = "none"
  BY <1>1, UpFields
<1>3. up'.sent = up.sent + 1 /\ up'.told = TRUE /\ up'.open = "none" /\ up'.coding = up.coding
  BY <1>1, <1>2 DEF Sent
<1>4. up'.sent # 0
  BY <1>2, <1>3
<1>5. Keeps(up, up', dialect)
  BY <1>1, <1>3, <1>4 DEF Keeps
<1>6. Heard(k)
  BY AnswerWhole DEF Heard, Ends
<1>7. QED
  BY <1>1, <1>3, <1>5, <1>6, EndsEvent

LEMMA AgentEndsAnswer ==
  ASSUME HandlerInv, AnswerInv, NEW reason \in {"tool_use", "end_turn"}, AgentEnds(reason) PROVE AnswerInv'
<1>1. Sends("agent", [Sent EXCEPT !.told = TRUE])
  BY DEF AgentEnds
<1>2. CASE Both(CreditsExhausted)
  <2>. DEFINE g == CreditsExhausted(live)
              k == CreditsExhausted(body)
              x == Saying(Ledger(live), ErrorText)
              y == Saying(Ledger(body), ErrorText)
  <2>1. live' = (IF live.over \/ live.hasReturn THEN live ELSE g) /\ body' = (IF body.over \/ body.hasReturn THEN body ELSE k)
    BY <1>2 DEF Both, Feed
  <2>2. /\ Ends(live, g, x) /\ (Heard(g) /\ Ready(live) => Told(g) = "end_turn")
        /\ Ends(body, k, y) /\ (Heard(k) /\ Ready(body) => Told(k) = "end_turn")
    BY AnswerWhole, CreditsActs
  <2>3. (Heard(g) /\ Ready(live) => Fits(g)) /\ (Heard(k) /\ Ready(body) => Fits(k))
    BY <2>2 DEF Fits
  <2>4. Goes(Ledger(live), x) /\ Goes(Ledger(body), y)
    BY LedgerShape, SayingGoes
  <2>5. y.chunks = Ledger(body).chunks
    BY LedgerShape DEF Saying, IsLedger, LedgerFields
  <2>6. Ledger(live) = Ledger(body) => x = y
    OBVIOUS
  <2>. HIDE DEF g, k, x, y
  <2>7. QED
    BY <1>1, <2>1, <2>2, <2>3, <2>4, <2>5, <2>6, AgentEnding
<1>3. CASE Both(LAMBDA h : ModelFinish(h, reason))
  <2>. DEFINE g == ModelFinish(live, reason)
              k == ModelFinish(body, reason)
              x == Ledger(live)
              y == Ledger(body)
  <2>1. live' = (IF live.over \/ live.hasReturn THEN live ELSE g) /\ body' = (IF body.over \/ body.hasReturn THEN body ELSE k)
    BY <1>3 DEF Both, Feed
  <2>2. /\ Ends(live, g, x) /\ (Heard(g) /\ Ready(live) => Fits(g))
        /\ Ends(body, k, y) /\ (Heard(k) /\ Ready(body) => Fits(k))
    BY AnswerWhole, ModelFinishActs
  <2>3. Goes(Ledger(live), x) /\ Goes(Ledger(body), y) /\ y.chunks = Ledger(body).chunks
    BY LedgerShape, GoesNot
  <2>4. Ledger(live) = Ledger(body) => x = y
    OBVIOUS
  <2>. HIDE DEF g, k, x, y
  <2>5. QED
    BY <1>1, <2>1, <2>2, <2>3, <2>4, AgentEnding
<1>4. QED
  BY <1>2, <1>3 DEF AgentEnds

-----------------------------------------------------------------------------
(* Kept by the events of an upstream that sends Anthropic events. *)

LEMMA DirectKeeps ==
  ASSUME HandlerInv, NEW next, Sends("direct", next), next.sent = up.sent + 1, next.coding = up.coding,
         ~up.told \/ up.open = "nothing"
  PROVE  /\ up' = next /\ dialect' = dialect /\ dialect = "direct" /\ round' = round /\ Keeps(up, up', dialect)
         /\ up.coding => up'.coding
<1>1. up' = next /\ dialect' = dialect /\ dialect = "direct" /\ round' = round
  BY DEF Sends
<1>2. up.sent \in Nat
  BY UpFields
<1>3. up'.sent # 0
  BY <1>1, <1>2
<1>4. QED
  BY <1>1, <1>3 DEF Keeps

\* The handlers have the block that the upstream has open.
LEMMA LiveOpens ==
  ASSUME HandlerInv, dialect = "direct", ~up.told, ~live.over, ~live.hasReturn
  PROVE  Opens(Ledger(live), up)
BY BookFields DEF HandlerInv, Attempt, Follows, Opens

LEMMA BodyOpens ==
  ASSUME AnswerInv, dialect = "direct", ~up.told, ~body.over
  PROVE  Opens(Ledger(body), up) /\ (up.open = "text" => Textual(body))
BY DEF AnswerInv, Placing

LEMMA OpensOne ==
  ASSUME NEW h, NEW u, Opens(Ledger(h), u)
  PROVE  /\ u.next \notin h.skipped \/ u.next \notin DOMAIN h.directTools
         /\ u.open = "tool_use" => u.next \in DOMAIN h.directTools
         /\ u.open = "text" => u.next \notin h.skipped /\ u.next \notin DOMAIN h.directTools
BY BookFields DEF Opens

LEMMA DirectBlockStartAnswer ==
  ASSUME HandlerInv, AnswerInv, NEW type \in {"text", "thinking", "tool_use"}, NEW id \in Ids, NEW tool \in Tools,
         DirectBlockStart(type, id, tool)
  PROVE  AnswerInv'
<1>. DEFINE c == [id |-> id, tool |-> tool, filled |-> FALSE]
            i == up.next
            g == DirectStart(live, i, type, c)
            k == DirectStart(body, i, type, c)
            x == Started(Ledger(live), i, type, c)
            y == Started(Ledger(body), i, type, c)
            next == [Sent EXCEPT !.open = type, !.tools = IF type = "tool_use" THEN @ \cup {id} ELSE @]
<1>1. live' = (IF live.over \/ live.hasReturn THEN live ELSE g) /\ body' = (IF body.over \/ body.hasReturn THEN body ELSE k)
  BY DEF DirectBlockStart, Both, Feed
<1>2. Sends("direct", next) /\ ~up.told /\ up.open = "none"
  BY DEF DirectBlockStart
<1>3. next.sent = up.sent + 1 /\ next.coding = up.coding /\ next.told = up.told /\ next.open = type /\ next.next = i
  BY UpFields DEF Sent
<1>. HIDE DEF next
<1>4. /\ dialect' = dialect /\ dialect = "direct" /\ round' = round /\ Keeps(up, up', dialect)
      /\ up.coding => up'.coding
      /\ ~up'.told /\ up'.open = type /\ up'.next = i /\ up' = next
  BY <1>2, <1>3, DirectKeeps
<1>. HIDE DEF c, i
<1>5. /\ Acts(live, g, x) /\ Acts(body, k, y)
      /\ type = "text" /\ Heard(k) /\ Ready(body) => Textual(k)
  BY AnswerWhole, DirectStartActs
<1>6. Goes(Ledger(live), x) /\ Goes(Ledger(body), y)
  BY LedgerShape, StartedGoes
<1>7. Ledger(live) = Ledger(body) => x = y
  OBVIOUS
<1>8. ASSUME ~body.over, Ready(body), Placing(body, up, dialect) PROVE Placing(k, up', dialect)
  <2>1. Opens(Ledger(body), up)
    BY <1>2, <1>4, <1>8, BodyOpens
  <2>2. Opens(y, up')
    BY <1>2, <1>4, <2>1, LedgerShape, StartedGoes
  <2>. HIDE DEF k, y
  <2>3. Heard(k)
    BY <1>5, AnswerWhole DEF Acts, Heard
  <2>4. Ledger(k) = y
    BY <1>5, <1>8, <2>3 DEF Acts
  <2>5. QED
    BY <1>4, <1>5, <1>8, <2>2, <2>3, <2>4 DEF Placing
<1>. HIDE DEF g, k, x, y
<1>9. QED
  BY <1>1, <1>4, <1>5, <1>6, <1>7, <1>8, ActsEvent

LEMMA DirectBlockDeltaAnswer == ASSUME HandlerInv, AnswerInv, DirectBlockDelta PROVE AnswerInv'
<1>. DEFINE i == up.next
            type == up.open
            t == Piece
            g == DirectDelta(live, i, type, t)
            k == DirectDelta(body, i, type, t)
            x == Grown(Ledger(live), i, type, t)
            y == Grown(Ledger(body), i, type, t)
<1>1. live' = (IF live.over \/ live.hasReturn THEN live ELSE g) /\ body' = (IF body.over \/ body.hasReturn THEN body ELSE k)
  BY DEF DirectBlockDelta, Both, Feed
<1>2. Sends("direct", Sent) /\ ~up.told /\ up.open \in {"text", "thinking", "tool_use"}
  BY DirectHasOpen DEF DirectBlockDelta
<1>3. Sent.sent = up.sent + 1 /\ Sent.coding = up.coding /\ Sent.told = up.told /\ Sent.open = type /\ Sent.next = i
  BY UpFields DEF Sent
<1>4. /\ dialect' = dialect /\ dialect = "direct" /\ round' = round /\ Keeps(up, up', dialect)
      /\ up.coding => up'.coding
      /\ ~up'.told /\ up'.open = type /\ up'.next = i
  BY <1>2, <1>3, DirectKeeps
<1>5. ~live.over /\ ~live.hasReturn => Acts(live, g, x)
  <2>1. SUFFICES ASSUME ~live.over, ~live.hasReturn PROVE Acts(live, g, x)
    OBVIOUS
  <2>2. Opens(Ledger(live), up)
    BY <1>2, <1>4, <2>1, LiveOpens
  <2>3. /\ i \notin live.skipped \/ i \notin DOMAIN live.directTools
        /\ type = "tool_use" => i \in DOMAIN live.directTools
    BY <2>2, OpensOne
  <2>4. \/ type \in {"text", "thinking"} /\ (type = "text" => Textual(live))
        \/ i \in DOMAIN live.directTools
    BY <1>2, <2>3, AnswerWhole DEF Textual
  <2>. HIDE DEF i, type, t
  <2>5. QED
    BY <2>3, <2>4, AnswerWhole, DirectDeltaActs
<1>6. ASSUME ~body.over
      PROVE  /\ Opens(Ledger(body), up) /\ (type = "text" => Textual(body))
             /\ i \notin body.skipped \/ i \notin DOMAIN body.directTools
             /\ type = "tool_use" => i \in DOMAIN body.directTools
             /\ type = "text" => i \notin body.skipped /\ i \notin DOMAIN body.directTools
  <2>1. Opens(Ledger(body), up) /\ (type = "text" => Textual(body))
    BY <1>2, <1>4, <1>6, BodyOpens
  <2>2. QED
    BY <2>1, OpensOne
<1>7. ~body.over /\ ~body.hasReturn => Acts(body, k, y)
  <2>1. SUFFICES ASSUME ~body.over, ~body.hasReturn PROVE Acts(body, k, y)
    OBVIOUS
  <2>2. \/ type \in {"text", "thinking"} /\ (type = "text" => Textual(body))
        \/ i \in DOMAIN body.directTools
    BY <1>2, <1>6, <2>1
  <2>3. i \notin body.skipped \/ i \notin DOMAIN body.directTools
    BY <1>6, <2>1
  <2>. HIDE DEF i, type, t
  <2>4. QED
    BY <2>2, <2>3, AnswerWhole, DirectDeltaActs
<1>8. Ledger(live) = Ledger(body) => x = y
  OBVIOUS
<1>9. Goes(Ledger(live), x) /\ Goes(Ledger(body), y)
  <2>. HIDE DEF i, type, t
  <2>1. QED
    BY LedgerShape, GrownGoes
<1>10. ASSUME ~body.over, Ready(body), Placing(body, up, dialect) PROVE Placing(k, up', dialect)
  <2>1. /\ Goes(Ledger(body), y) /\ y.skipped = Ledger(body).skipped
        /\ DOMAIN y.directTools = DOMAIN Ledger(body).directTools
    <3>. HIDE DEF i, type, t
    <3>1. QED
      BY LedgerShape, GrownGoes
  <2>2. Opens(y, up')
    <3>. HIDE DEF y
    <3>1. QED
      BY <1>4, <1>6, <1>10, <2>1 DEF Opens, Goes
  <2>3. ~body.hasReturn
    BY <1>10 DEF Ready
  <2>4. Acts(body, k, y)
    BY <1>7, <1>10, <2>3
  <2>5. ASSUME type = "text" PROVE Textual(k)
    <3>. DEFINE b == Build(body, type, t)
                m == CountTokens([b EXCEPT !.hasText = TRUE])
    <3>1. i \notin body.skipped /\ i \notin DOMAIN body.directTools /\ Textual(body)
      BY <1>6, <1>10, <2>5
    <3>2. k = Write(m, BlockDelta(i, type, t))
      <4>1. ~body.stream
        BY AnswerWhole
      <4>. HIDE DEF i, t
      <4>2. QED
        BY <2>5, <3>1, <4>1 DEF DirectDelta
    <3>3. Whole(b) /\ b.block = body.block /\ b.stream = body.stream
      <4>1. Whole(body)
        BY AnswerWhole
      <4>. HIDE DEF type, t
      <4>2. QED
        BY <4>1 DEF Build, Whole, Fields
    <3>. HIDE DEF b
    <3>4. m.block = body.block /\ m.stream = body.stream
      BY <3>3 DEF CountTokens, Whole, Fields
    <3>. HIDE DEF m, k
    <3>5. k = m
      BY <3>2, <3>4, AnswerWhole DEF Write
    <3>6. QED
      BY <1>10, <3>1, <3>4, <3>5, AnswerWhole DEF Textual
  <2>. HIDE DEF k, y
  <2>6. Heard(k)
    BY <2>4, AnswerWhole DEF Acts, Heard
  <2>7. Ledger(k) = y
    BY <1>10, <2>4, <2>6 DEF Acts
  <2>8. QED
    BY <1>4, <2>2, <2>5, <2>7 DEF Placing
<1>. HIDE DEF g, k, x, y
<1>11. QED
  BY <1>1, <1>2, <1>4, <1>5, <1>7, <1>8, <1>9, <1>10, ActsEvent

LEMMA DirectBlockStopAnswer == ASSUME HandlerInv, AnswerInv, DirectBlockStop PROVE AnswerInv'
<1>. DEFINE i == up.next
            g == DirectStop(live, i)
            k == DirectStop(body, i)
            x == Stopped(Ledger(live), i)
            y == Stopped(Ledger(body), i)
            next == [Sent EXCEPT !.open = "none", !.next = @ + 1]
<1>1. live' = (IF live.over \/ live.hasReturn THEN live ELSE g) /\ body' = (IF body.over \/ body.hasReturn THEN body ELSE k)
  BY DEF DirectBlockStop, Both, Feed
<1>2. Sends("direct", next) /\ ~up.told
  BY DEF DirectBlockStop
<1>3. next.sent = up.sent + 1 /\ next.coding = up.coding /\ next.told = up.told /\ next.open = "none"
  BY UpFields DEF Sent
<1>. HIDE DEF next
<1>4. /\ dialect' = dialect /\ dialect = "direct" /\ round' = round /\ Keeps(up, up', dialect)
      /\ up.coding => up'.coding
      /\ ~up'.told /\ up'.open = "none"
  BY <1>2, <1>3, DirectKeeps
<1>5. ~live.over /\ ~live.hasReturn => Acts(live, g, x)
  <2>1. SUFFICES ASSUME ~live.over, ~live.hasReturn PROVE Acts(live, g, x)
    OBVIOUS
  <2>2. i \notin live.skipped \/ i \notin DOMAIN live.directTools
    BY <1>2, <1>4, <2>1, LiveOpens, OpensOne
  <2>. HIDE DEF i
  <2>3. QED
    BY <2>2, AnswerWhole, DirectStopActs
<1>6. ~body.over => Acts(body, k, y)
  <2>1. SUFFICES ASSUME ~body.over PROVE Acts(body, k, y)
    OBVIOUS
  <2>2. i \notin body.skipped \/ i \notin DOMAIN body.directTools
    BY <1>2, <1>4, <2>1, BodyOpens, OpensOne
  <2>. HIDE DEF i
  <2>3. QED
    BY <2>2, AnswerWhole, DirectStopActs
<1>7. Ledger(live) = Ledger(body) => x = y
  OBVIOUS
<1>8. Goes(Ledger(live), x) /\ Goes(Ledger(body), y)
  <2>. HIDE DEF i
  <2>1. QED
    BY LedgerShape, StoppedGoes
<1>9. ASSUME ~body.over, Ready(body), Placing(body, up, dialect) PROVE Placing(k, up', dialect)
  <2>1. Opens(Ledger(body), up)
    BY <1>2, <1>4, <1>9, BodyOpens
  <2>2. Opens(y, up')
    BY <1>4, <2>1, LedgerShape, StoppedGoes
  <2>3. Acts(body, k, y)
    BY <1>6, <1>9
  <2>. HIDE DEF k, y
  <2>4. Heard(k)
    BY <2>3, AnswerWhole DEF Acts, Heard
  <2>5. Ledger(k) = y
    BY <1>9, <2>3, <2>4 DEF Acts
  <2>6. QED
    BY <1>4, <2>2, <2>5 DEF Placing
<1>. HIDE DEF g, k, x, y
<1>10. QED
  BY <1>1, <1>4, <1>5, <1>6, <1>7, <1>8, <1>9, ActsEvent

LEMMA DirectReasonAnswer == ASSUME HandlerInv, AnswerInv, DirectReason PROVE AnswerInv'
<1>. DEFINE reason == IF up.tools = {} THEN "end_turn" ELSE "tool_use"
            g == DirectMessageDelta(live, reason)
            k == DirectMessageDelta(body, reason)
            x == Ledger(live)
            y == Ledger(body)
            next == [Sent EXCEPT !.told = TRUE, !.open = "nothing"]
<1>1. live' = (IF live.over \/ live.hasReturn THEN live ELSE g) /\ body' = (IF body.over \/ body.hasReturn THEN body ELSE k)
  BY DEF DirectReason, Both, Feed
<1>2. Sends("direct", next) /\ ~up.told
  BY DEF DirectReason
<1>3. next.sent = up.sent + 1 /\ next.coding = up.coding /\ next.told = TRUE /\ next.open = "nothing"
  BY UpFields DEF Sent
<1>. HIDE DEF next
<1>4. /\ dialect' = dialect /\ dialect = "direct" /\ round' = round /\ Keeps(up, up', dialect)
      /\ up.coding => up'.coding
      /\ up'.told /\ up'.open = "nothing"
  BY <1>2, <1>3, DirectKeeps
<1>. HIDE DEF reason
<1>5. Acts(live, g, x) /\ Acts(body, k, y)
  BY AnswerWhole, DirectMessageDeltaActs
<1>6. Goes(Ledger(live), x) /\ Goes(Ledger(body), y)
  BY LedgerShape, GoesNot
<1>7. Ledger(live) = Ledger(body) => x = y
  OBVIOUS
<1>8. Placing(k, up', dialect)
  BY <1>4 DEF Placing
<1>. HIDE DEF g, k, x, y
<1>9. QED
  BY <1>1, <1>4, <1>5, <1>6, <1>7, <1>8, ActsEvent

LEMMA DirectEndAnswer == ASSUME HandlerInv, AnswerInv, DirectEnd PROVE AnswerInv'
<1>. DEFINE g == DirectMessageStop(live)
            k == DirectMessageStop(body)
            x == Ledger(live)
            y == Ledger(body)
            next == [Sent EXCEPT !.open = "none"]
<1>1. live' = (IF live.over \/ live.hasReturn THEN live ELSE g) /\ body' = (IF body.over \/ body.hasReturn THEN body ELSE k)
  BY DEF DirectEnd, Both, Feed
<1>2. Sends("direct", next) /\ up.open = "nothing" /\ up.told
  BY DEF DirectEnd, HandlerInv, Upstream
<1>3. next.sent = up.sent + 1 /\ next.coding = up.coding /\ next.told = up.told /\ next.open = "none"
  BY UpFields DEF Sent
<1>. HIDE DEF next
<1>4. /\ dialect' = dialect /\ dialect = "direct" /\ round' = round /\ Keeps(up, up', dialect)
      /\ up.coding => up'.coding
      /\ up'.told /\ up'.open # "nothing"
  BY <1>2, <1>3, DirectKeeps
<1>5. /\ Ends(live, g, x)
      /\ Ends(body, k, y) /\ (Heard(k) /\ Ready(body) => body.stream \/ Fits(k))
  BY AnswerWhole, DirectMessageStopActs
<1>6. Goes(Ledger(live), x) /\ Goes(Ledger(body), y) /\ y.chunks = Ledger(body).chunks
  BY LedgerShape, GoesNot
<1>7. Ledger(live) = Ledger(body) => x = y
  OBVIOUS
<1>. HIDE DEF g, k, x, y
<1>8. Heard(k) /\ ~body.stream
  BY <1>5, AnswerWhole DEF Heard, Ends
<1>9. QED
  BY <1>1, <1>4, <1>5, <1>6, <1>7, <1>8, EndsEvent

-----------------------------------------------------------------------------
(* Kept by the ends of attempts, and by the ticks. *)

\* The response of a handler that is ended as it may.
Finishing(h) == FinishResponse(h, IF HasToolCalls(h) THEN "tool_use" ELSE "end_turn")

LEMMA FinishingEnds ==
  ASSUME NEW h, Whole(h)
  PROVE  LET g == Finishing(h)
         IN /\ Ends(h, g, Ledger(h)) /\ (Heard(g) /\ Ready(h) => Fits(g)) /\ (h.hasReturn => g = h)
            /\ EndAttempt(h) = IF h.over THEN h ELSE Overed(g)
<1>. DEFINE why == IF HasToolCalls(h) THEN "tool_use" ELSE "end_turn"
            g == Finishing(h)
<1>1. g = FinishResponse(h, why) /\ ForceFinishIfMissing(h) = g
  BY DEF Finishing, ForceFinishIfMissing
<1>2. h.hasReturn => g = h
  BY <1>1 DEF FinishResponse
<1>3. EndAttempt(h) = IF h.over THEN h ELSE Overed(g)
  BY <1>1 DEF EndAttempt, Overed
<1>. HIDE DEF why, g
<1>4. Ends(h, g, Ledger(h)) /\ (Heard(g) /\ Ready(h) => Fits(g))
  BY <1>1, FinishFits
<1>5. QED
  BY <1>2, <1>3, <1>4 DEF g

LEMMA EndAttemptGood ==
  ASSUME NEW h, NEW u, NEW d, Good(h, u, d), u.open # "nothing", d = "puter" => u.told
  PROVE  Good(EndAttempt(h), u, d)
<1>. DEFINE g == Finishing(h)
            x == Ledger(h)
<1>1. Whole(h)
  BY DEF Good
<1>2. Ends(h, g, x) /\ (Heard(g) /\ Ready(h) => Fits(g)) /\ (h.hasReturn => g = h)
      /\ EndAttempt(h) = IF h.over THEN h ELSE Overed(g)
  BY <1>1, FinishingEnds
<1>3. Goes(x, x)
  BY LedgerShape, GoesNot
<1>. HIDE DEF g
<1>4. CASE h.over
  BY <1>2, <1>4
<1>5. CASE ~h.over
  <2>1. Whole(g)
    BY <1>2 DEF Ends
  <2>2. ASSUME Heard(g) PROVE Covered(Ledger(g)) /\ Fit(g, u, d)
    <3>1. Heard(h)
      BY <1>2, <2>2 DEF Ends
    <3>2. Covered(Ledger(h)) /\ IF Closed(h, u) THEN Fit(h, u, d) ELSE Ready(h)
      BY <3>1 DEF Good
    <3>3. CASE Closed(h, u)
      BY <1>2, <3>2, <3>3 DEF Fit
    <3>4. CASE ~Closed(h, u)
      <4>1. Ready(h) /\ d # "puter"
        BY <3>2, <3>4 DEF Closed
      <4>2. Covered(Ledger(g)) /\ g.hasReturn = TRUE
        BY <1>2, <1>3, <2>2, <3>2, <4>1, EndsCovered
      <4>3. QED
        BY <1>2, <2>2, <4>1, <4>2 DEF Fit
    <3>5. QED
      BY <3>3, <3>4
  <2>3. Good(Overed(g), u, d)
    BY <2>1, <2>2, GoodOver
  <2>4. QED
    BY <1>2, <1>5, <2>3
<1>6. QED
  BY <1>4, <1>5

\* Both responses are ended in the same way.
LEMMA OverTwin ==
  ASSUME NEW g, Whole(g), NEW k, Whole(k), Ledger(g) = Ledger(k)
  PROVE  Ledger(Overed(g)) = Ledger(Overed(k))
BY OverSame

LEMMA EndAttemptTwin ==
  ASSUME NEW h, NEW b, NEW u, NEW d, h.stream = TRUE, b.stream = FALSE, Good(h, u, d), Good(b, u, d),
         Heard(EndAttempt(h)), Heard(h) => Ledger(h) = Ledger(b)
  PROVE  Ledger(EndAttempt(h)) = Ledger(EndAttempt(b))
<1>. DEFINE g == Finishing(h)
            k == Finishing(b)
            x == Ledger(h)
            y == Ledger(b)
<1>1. Whole(h) /\ Whole(b)
  BY DEF Good
<1>2. Ends(h, g, x) /\ (h.hasReturn => g = h) /\ EndAttempt(h) = IF h.over THEN h ELSE Overed(g)
  BY <1>1, FinishingEnds
<1>3. Ends(b, k, y) /\ (b.hasReturn => k = b) /\ EndAttempt(b) = IF b.over THEN b ELSE Overed(k)
  BY <1>1, FinishingEnds
<1>. HIDE DEF g, k
<1>4. Whole(g) /\ Whole(k) /\ k.stream = FALSE /\ Heard(k) /\ Heard(b)
  BY <1>2, <1>3 DEF Ends, Heard
<1>5. Heard(h) /\ (~h.over => Heard(g))
  <2>1. CASE h.over
    BY <1>2, <2>1
  <2>2. CASE ~h.over
    <3>1. Heard(g)
      BY ZenonT(60), <1>2, <1>4, <2>2, OverSame
    <3>2. QED
      BY <1>2, <2>2, <3>1 DEF Ends
  <2>3. QED
    BY <2>1, <2>2
<1>6. x = y /\ h.over = b.over /\ h.hasReturn = b.hasReturn
  <2>1. x = y
    BY <1>5
  <2>2. QED
    BY <2>1, LedgerSays
<1>7. CASE h.over
  BY <1>2, <1>3, <1>5, <1>6, <1>7
<1>8. CASE ~h.over /\ h.hasReturn
  <2>1. Ledger(Overed(h)) = Ledger(Overed(b))
    BY <1>1, <1>6, OverTwin
  <2>2. QED
    BY <1>2, <1>3, <1>6, <1>8, <2>1
<1>9. CASE ~h.over /\ ~h.hasReturn
  <2>1. Ready(h) /\ Ready(b)
    BY <1>4, <1>5, <1>6, <1>9, GoodReady
  <2>2. y.chunks = FALSE
    BY <2>1, LedgerSays DEF Ready, Kept
  <2>3. Ledger(g) = Ledger(k)
    <3>1. Ends(b, k, x) /\ x.chunks = FALSE
      BY <1>3, <1>6, <2>2
    <3>. HIDE DEF x
    <3>2. QED
      BY <1>2, <1>4, <1>5, <1>9, <2>1, <3>1, EndsTwin
  <2>4. Ledger(Overed(g)) = Ledger(Overed(k))
    BY <1>4, <2>3, OverTwin
  <2>5. QED
    BY <1>2, <1>3, <1>6, <1>9, <2>4
<1>10. QED
  BY <1>7, <1>8, <1>9

LEMMA EndAttemptStream ==
  ASSUME NEW h, Whole(h) PROVE EndAttempt(h).stream = h.stream /\ (h.over \in BOOLEAN => EndAttempt(h).over = TRUE)
<1>. DEFINE g == Finishing(h)
<1>1. Ends(h, g, Ledger(h)) /\ EndAttempt(h) = IF h.over THEN h ELSE Overed(g)
  BY FinishingEnds
<1>. HIDE DEF g
<1>2. Whole(g) /\ g.stream = h.stream
  BY <1>1 DEF Ends
<1>3. Overed(g).stream = g.stream /\ Overed(g).over = TRUE
  BY <1>2, OverSame
<1>4. QED
  BY <1>1, <1>2, <1>3

LEMMA AttemptSucceedsAnswer == ASSUME HandlerInv, AnswerInv, AttemptSucceeds PROVE AnswerInv'
<1>1. live' = EndAttempt(live) /\ body' = EndAttempt(body) /\ UNCHANGED <<dialect, up, round>>
  BY DEF AttemptSucceeds
<1>2. up.open # "nothing" /\ (dialect = "puter" => up.told)
  BY DEF AttemptSucceeds, MayReturn
<1>3. live.stream = TRUE /\ body.stream = FALSE /\ Good(live, up, dialect) /\ Good(body, up, dialect)
      /\ round \in Nat /\ round # 0 /\ Placing(body, up, dialect) /\ Twin(live, body, up, round, dialect)
  BY DEF AnswerInv
<1>4. Good(live', up', dialect') /\ Good(body', up', dialect')
  BY <1>1, <1>2, <1>3, EndAttemptGood
<1>5. live'.stream = TRUE /\ body'.stream = FALSE
  BY <1>1, <1>3, AnswerWhole, EndAttemptStream
<1>6. Placing(body', up', dialect')
  <2>1. CASE body.over
    BY <1>1, <1>3, <2>1 DEF EndAttempt
  <2>2. CASE ~body.over
    <3>. DEFINE k == Finishing(body)
    <3>1. body' = Overed(k) /\ Ends(body, k, Ledger(body))
      BY <1>1, <2>2, AnswerWhole, FinishingEnds
    <3>. HIDE DEF k
    <3>2. body'.over = TRUE
      BY <3>1, OverSame DEF Ends
    <3>3. QED
      BY <3>2 DEF Placing
  <2>3. QED
    BY <2>1, <2>2
<1>7. Twin(live', body', up', round', dialect')
  <2>1. SUFFICES ASSUME round = 1 \/ dialect = "puter", ~up.coding, Heard(live')
                 PROVE  Ledger(live') = Ledger(body')
    BY <1>1 DEF Twin
  <2>2. Heard(live) => Ledger(live) = Ledger(body)
    BY <1>3, <2>1 DEF Twin
  <2>3. QED
    BY <1>1, <1>3, <2>1, <2>2, EndAttemptTwin
<1>8. QED
  BY <1>1, <1>3, <1>4, <1>5, <1>6, <1>7 DEF AnswerInv

LEMMA NothingFields ==
  ASSUME NEW u, u = NothingSent
  PROVE  u.sent = 0 /\ u.told = FALSE /\ u.open = "none" /\ u.tools = {} /\ u.coding = FALSE
BY DEF NothingSent

\* An attempt that failed and is not tried again.
LEMMA FailedGood ==
  ASSUME NEW h, NEW u, NEW v, NEW d, Good(h, u, d), ~h.over, ~u.told, d = "puter" => u.sent = 0,
         NEW g, NEW x, Ends(h, g, x), Goes(Ledger(h), x), x = [Ledger(h) EXCEPT !.says = x.says],
         Heard(g) /\ Ready(h) => Told(g) = "end_turn"
  PROVE  Good(Overed(g), v, d)
<1>1. Whole(g)
  BY DEF Ends
<1>2. ASSUME Heard(g) PROVE Covered(Ledger(g)) /\ Fit(g, v, d)
  <2>1. Heard(h)
    BY <1>2 DEF Ends
  <2>2. Covered(Ledger(h)) /\ Ready(h) /\ (d = "puter" => Marked(h))
    BY <2>1 DEF Good, Closed
  <2>3. Covered(Ledger(g)) /\ g.hasReturn = TRUE
    BY <1>2, <2>2, EndsCovered
  <2>4. Calls(g) = Calls(h) /\ Told(g) = "end_turn"
    BY <1>2, <2>2, EndCalls
  <2>5. d = "puter" => Calls(g) = <<>>
    <3>1. SUFFICES ASSUME d = "puter" PROVE Calls(h) = <<>>
      BY <2>4
    <3>2. ~HasToolCalls(h)
      BY <3>1, BlankSilent DEF Good
    <3>3. QED
      BY <2>2, <3>1, <3>2, KeptCalls
  <2>6. QED
    BY <2>3, <2>4, <2>5 DEF Fit, Fits
<1>3. QED
  BY <1>1, <1>2, GoodOver

\* The ledger of an attempt that is tried again.
Refreshed(x) ==
  [says |-> x.says, calls |-> x.calls, intros |-> x.intros, last |-> [text |-> NoText, source |-> "none"],
   dedup |-> x.seed, seed |-> x.seed, dropped |-> x.dropped, handled |-> {}, disallow |-> x.disallow,
   suppress |-> x.suppress, earlier |-> x.earlier, inputs |-> <<>>, directTools |-> <<>>, skipped |-> x.skipped,
   chunks |-> FALSE, hasReturn |-> FALSE, over |-> x.over]

\* resetRoundState, field by field.
LEMMA ResetFields ==
  ASSUME NEW h, Whole(h)
  PROVE  LET g == CloseActiveBlock(h)
             r == ResetRoundState(h)
         IN /\ Whole(r) /\ Whole(g) /\ r.stream = h.stream /\ (Heard(r) <=> Heard(g)) /\ r.view = g.view
            /\ r.over = g.over /\ r.hasReturn = FALSE /\ r.content = <<>> /\ r.pending = <<>> /\ r.inputs = <<>>
            /\ r.directTools = <<>> /\ r.handled = {} /\ r.emitted = {} /\ r.dedup = h.seed /\ r.count = 0
            /\ r.chunks = FALSE /\ r.activeType = "none" /\ r.text = -1 /\ r.thinking = -1
            /\ r.block = [thinking |-> 0, text |-> 0] /\ r.last = [text |-> NoText, source |-> "none"]
            /\ r.seed = g.seed /\ r.dropped = g.dropped /\ r.intros = g.intros /\ r.disallow = g.disallow
            /\ r.suppress = g.suppress /\ r.earlier = g.earlier /\ r.skipped = g.skipped
            /\ Blank(r)
<1>. DEFINE g == CloseActiveBlock(h)
            r == ResetRoundState(h)
            s == h.seed
<1>1. Whole(g) /\ g.stream = h.stream
  BY CloseActs DEF Acts
<1>. HIDE DEF g, s
<1>2. r = [g EXCEPT
     !.activeType = "none", !.thinking = -1, !.text = -1, !.block = [thinking |-> 0, text |-> 0],
     !.hasReturn = FALSE, !.stop = "none", !.content = <<>>, !.pending = <<>>, !.inputs = <<>>,
     !.directTools = <<>>, !.handled = {}, !.emitted = {}, !.dedup = s, !.count = 0,
     !.estimated = FALSE, !.usage = FALSE, !.chunks = FALSE, !.hasText = FALSE,
     !.last = [text |-> NoText, source |-> "none"]]
  BY DEF ResetRoundState, g, s
<1>. HIDE DEF r
<1>3. g = [f \in Fields |-> g[f]]
  BY <1>1 DEF Whole
<1>4. r = [f \in Fields |-> r[f]]
  BY <1>2, <1>3
<1>5. /\ r.stream = g.stream /\ r.view = g.view /\ r.cut = g.cut /\ r.over = g.over /\ r.hasReturn = FALSE
      /\ r.content = <<>> /\ r.pending = <<>> /\ r.inputs = <<>>
      /\ r.directTools = <<>> /\ r.handled = {} /\ r.emitted = {} /\ r.dedup = s /\ r.count = 0
      /\ r.chunks = FALSE /\ r.activeType = "none" /\ r.text = -1 /\ r.thinking = -1
      /\ r.estimated = FALSE /\ r.hasText = FALSE
  BY <1>2, <1>3 DEF Fields
<1>6. /\ r.block = [thinking |-> 0, text |-> 0] /\ r.last = [text |-> NoText, source |-> "none"]
      /\ r.seed = g.seed /\ r.dropped = g.dropped /\ r.intros = g.intros /\ r.disallow = g.disallow
      /\ r.suppress = g.suppress /\ r.earlier = g.earlier /\ r.skipped = g.skipped
  BY <1>2, <1>3 DEF Fields
<1>7. Whole(r) /\ (Heard(r) <=> Heard(g)) /\ Blank(r)
  BY <1>1, <1>4, <1>5 DEF Whole, Heard, Blank
<1>8. QED
  BY <1>1, <1>5, <1>6, <1>7 DEF g, r, s

LEMMA EmptyShapes == IsSeq(<<>>) /\ Stored(<<>>) /\ Named(<<>>) = <<>> /\ FlattenSeq(TextsIn(<<>>)) = <<>>
<1>1. IsSeq(<<>>)
  <2>1. <<>> \in Seq({})
    OBVIOUS
  <2>2. QED
    BY <2>1, RangeSeq
<1>2. DOMAIN <<>> = {}
  OBVIOUS
<1>3. Stored(<<>>)
  BY <1>1, <1>2 DEF Stored
<1>4. Named(<<>>) = <<>>
  BY DEF Named
<1>5. TextsIn(<<>>) = <<>>
  BY DEF TextsIn
<1>6. QED
  BY <1>1, <1>3, <1>4, <1>5, FlatNone

\* Nothing of the failed attempt is left, and the side effects of earlier ones are.
LEMMA ResetLedger ==
  ASSUME NEW h, Whole(h), ~HasAnyOutput(h), Heard(ResetRoundState(h)), Ready(h)
  PROVE  LET r == ResetRoundState(h)
         IN Heard(h) /\ Ready(r) /\ Ledger(r) = Refreshed(Ledger(h)) /\ (Marked(h) => Marked(r))
<1>. DEFINE g == CloseActiveBlock(h)
            r == ResetRoundState(h)
<1>1. Acts(h, g, Ledger(h))
  BY CloseActs
<1>2. /\ Whole(r) /\ Whole(g) /\ r.stream = h.stream /\ (Heard(r) <=> Heard(g)) /\ r.view = g.view
      /\ r.over = g.over /\ r.hasReturn = FALSE /\ r.content = <<>> /\ r.pending = <<>> /\ r.inputs = <<>>
      /\ r.directTools = <<>> /\ r.handled = {} /\ r.emitted = {} /\ r.dedup = h.seed /\ r.count = 0
      /\ r.chunks = FALSE /\ r.activeType = "none" /\ r.text = -1 /\ r.thinking = -1
      /\ r.block = [thinking |-> 0, text |-> 0] /\ r.last = [text |-> NoText, source |-> "none"]
      /\ r.seed = g.seed /\ r.dropped = g.dropped /\ r.intros = g.intros /\ r.disallow = g.disallow
      /\ r.suppress = g.suppress /\ r.earlier = g.earlier /\ r.skipped = g.skipped
  BY ResetFields
<1>3. Heard(r)
  OBVIOUS
<1>. HIDE DEF g, r
<1>4. Heard(h) /\ Ready(g) /\ Ledger(g) = Ledger(h) /\ (Marked(h) => Marked(g))
  BY <1>1, <1>2, <1>3 DEF Acts
<1>5. h.content = <<>> /\ h.pending = <<>> /\ h.emitted = {}
  BY DEF HasAnyOutput, HasToolCalls
<1>6. Ready(r)
  <2>1. r.hasReturn = FALSE /\ r.emitted \subseteq r.handled
    BY <1>2
  <2>2. ASSUME r.stream PROVE Streamed(r)
    <3>1. IsSeq(r.view.tools)
      BY <1>1, <1>2, <1>4, <2>2 DEF Ready, Streamed, Acts
    <3>2. ~HasToolCalls(r)
      BY <1>2 DEF HasToolCalls
    <3>3. QED
      BY <1>2, <3>1, <3>2 DEF Streamed
  <2>3. ASSUME ~r.stream PROVE Kept(r)
    <3>1. r.block.text = 0 /\ r.block.thinking = 0 /\ r.block = [thinking |-> r.block.thinking, text |-> r.block.text]
      BY <1>2
    <3>2. ~(r.text >= 0) /\ ~(r.count > 0)
      BY <1>2
    <3>3. QED
      BY <1>2, <3>1, <3>2, EmptyShapes DEF Kept
  <2>4. QED
    BY <2>1, <2>2, <2>3 DEF Ready
<1>7. Says(r) = Says(h) /\ Calls(r) = Calls(h)
  <2>1. CASE h.stream
    <3>1. Says(r) = Says(g) /\ Calls(r) = Calls(g)
      BY <1>1, <1>2, <2>1 DEF Says, Calls, Acts
    <3>2. QED
      BY <1>4, <3>1, LedgerSays
  <2>2. CASE ~h.stream
    <3>1. h.hasReturn = FALSE
      BY DEF Ready
    <3>2. QED
      BY <1>2, <1>5, <2>2, <3>1 DEF Says, Calls
  <2>3. QED
    BY <2>1, <2>2
<1>8. Ledger(r) = Refreshed(Ledger(h))
  <2>1. Ledger(h).says = Says(h) /\ Ledger(h).calls = Calls(h) /\ Ledger(h).seed = h.seed
    BY DEF Ledger
  <2>2. /\ Ledger(g).intros = g.intros /\ Ledger(g).seed = g.seed /\ Ledger(g).dropped = g.dropped
        /\ Ledger(g).disallow = g.disallow /\ Ledger(g).suppress = g.suppress /\ Ledger(g).earlier = g.earlier
        /\ Ledger(g).skipped = g.skipped /\ Ledger(g).over = g.over
    BY DEF Ledger
  <2>. DEFINE x == Ledger(h)
  <2>3. /\ r.intros = x.intros /\ r.seed = x.seed /\ r.dropped = x.dropped /\ r.disallow = x.disallow
        /\ r.suppress = x.suppress /\ r.earlier = x.earlier /\ r.skipped = x.skipped /\ r.over = x.over
        /\ r.dedup = x.seed /\ Says(r) = x.says /\ Calls(r) = x.calls
    BY <1>2, <1>4, <1>7, <2>1, <2>2
  <2>. HIDE DEF x
  <2>4. QED
    BY <1>2, <2>3 DEF Ledger, Refreshed, x
<1>9. Marked(h) => Marked(r)
  <2>1. SUFFICES ASSUME Marked(h), r.stream PROVE r.view.tools = <<>>
    BY DEF Marked
  <2>2. h.stream /\ h.view.tools = <<>>
    BY <1>2, <1>5, <2>1 DEF Marked
  <2>3. Calls(r) = r.view.tools /\ Calls(h) = h.view.tools
    BY <1>2, <2>2 DEF Calls
  <2>4. QED
    BY <1>7, <2>2, <2>3
<1>10. QED
  BY <1>4, <1>6, <1>8, <1>9 DEF r

LEMMA RefreshedCovered == ASSUME NEW x, Covered(x) PROVE Covered(Refreshed(x))
BY DEF Covered, Refreshed

LEMMA ResetGood ==
  ASSUME NEW h, NEW u, NEW v, NEW d, Good(h, u, d), ~h.over, ~u.told, ~v.told, ~HasAnyOutput(h)
  PROVE  Good(ResetRoundState(h), v, d)
<1>. DEFINE r == ResetRoundState(h)
<1>1. Whole(h)
  BY DEF Good
<1>2. Whole(r) /\ Blank(r)
  BY <1>1, ResetFields
<1>3. ASSUME Heard(r) PROVE Covered(Ledger(r)) /\ ~Closed(r, v) /\ Ready(r) /\ (d = "puter" => Marked(r))
  <2>1. Heard(h)
    <3>1. Heard(CloseActiveBlock(h))
      BY <1>1, <1>3, ResetFields
    <3>2. QED
      BY <1>1, <3>1, CloseActs DEF Acts
  <2>2. Covered(Ledger(h)) /\ Ready(h) /\ (d = "puter" => Marked(h))
    BY <2>1 DEF Good, Closed
  <2>3. Ready(r) /\ Ledger(r) = Refreshed(Ledger(h)) /\ (Marked(h) => Marked(r))
    BY <1>1, <1>3, <2>2, ResetLedger
  <2>. HIDE DEF r
  <2>4. r.over = h.over
    BY <2>3, LedgerSays DEF Refreshed
  <2>5. QED
    BY <2>2, <2>3, <2>4, RefreshedCovered DEF Closed
<1>. HIDE DEF r
<1>4. Good(r, v, d)
  BY <1>2, <1>3 DEF Good
<1>5. QED
  BY <1>4 DEF r

\* The three ways in which a failed attempt goes on.
Reported(h) == FinishResponse(InjectErrorText(h), "end_turn")
Cancelled(h) == FinishResponse(h, "end_turn")

LEMMA FailedWays ==
  ASSUME NEW h, NEW then
  PROVE  FailedAttempt(h, then) =
           IF h.over THEN h
           ELSE IF HasAnyOutput(h) \/ then = "report" THEN Overed(Reported(h))
           ELSE IF then = "cancel" THEN Overed(Cancelled(h))
           ELSE ResetRoundState(h)
BY DEF FailedAttempt, Overed, Reported, Cancelled

LEMMA ReportedEnds ==
  ASSUME NEW h, Whole(h)
  PROVE  LET g == Reported(h)
             x == Saying(Ledger(h), ErrorText)
         IN /\ Ends(h, g, x) /\ (Heard(g) /\ Ready(h) => Told(g) = "end_turn")
            /\ Goes(Ledger(h), x) /\ x = [Ledger(h) EXCEPT !.says = x.says]
<1>. DEFINE t == ErrorText
<1>1. Goes(Ledger(h), Saying(Ledger(h), t)) /\ Saying(Ledger(h), t) = [Ledger(h) EXCEPT !.says = Saying(Ledger(h), t).says]
  BY LedgerShape, SayingGoes, SaidMore
<1>2. QED
  BY <1>1, FailureActs DEF Reported

LEMMA CancelledEnds ==
  ASSUME NEW h, Whole(h)
  PROVE  LET g == Cancelled(h)
             x == Ledger(h)
         IN /\ Ends(h, g, x) /\ (Heard(g) /\ Ready(h) => Told(g) = "end_turn")
            /\ Goes(Ledger(h), x) /\ x = [Ledger(h) EXCEPT !.says = x.says]
<1>. DEFINE why == "end_turn"
            g == FinishResponse(h, why)
<1>1. why # "tool_use"
  OBVIOUS
<1>2. Goes(Ledger(h), Ledger(h)) /\ Ledger(h) = [Ledger(h) EXCEPT !.says = Ledger(h).says]
  BY LedgerShape, GoesNot, SameSaid
<1>. HIDE DEF why
<1>3. /\ Ends(h, g, Ledger(h))
      /\ Heard(g) /\ Ready(h) => Told(g) = IF why = "tool_use" /\ ~HasToolCalls(h) THEN "end_turn" ELSE why
  BY FinishActs
<1>4. Cancelled(h) = g /\ why = "end_turn"
  BY DEF Cancelled, why
<1>. HIDE DEF g
<1>5. QED
  BY <1>1, <1>2, <1>3, <1>4

LEMMA FailedAttemptGood ==
  ASSUME NEW h, NEW u, NEW v, NEW d, Good(h, u, d), ~u.told, ~v.told, d = "puter" => u.sent = 0, NEW then
  PROVE  Good(FailedAttempt(h, then), v, d)
<1>1. Whole(h)
  BY DEF Good
<1>2. CASE h.over
  <2>1. ASSUME Heard(h) PROVE Covered(Ledger(h)) /\ Closed(h, v) /\ Fit(h, v, d)
    BY <1>2, <2>1 DEF Good, Closed, Fit
  <2>2. Good(h, v, d)
    BY <1>1, <1>2, <2>1 DEF Good
  <2>3. QED
    BY <1>2, <2>2, FailedWays
<1>3. CASE ~h.over /\ (HasAnyOutput(h) \/ then = "report")
  <2>. DEFINE g == Reported(h)
              x == Saying(Ledger(h), ErrorText)
  <2>1. Ends(h, g, x) /\ (Heard(g) /\ Ready(h) => Told(g) = "end_turn")
        /\ Goes(Ledger(h), x) /\ x = [Ledger(h) EXCEPT !.says = x.says]
    BY <1>1, ReportedEnds
  <2>2. FailedAttempt(h, then) = Overed(g)
    BY <1>3, FailedWays
  <2>. HIDE DEF g, x
  <2>3. Good(Overed(g), v, d)
    BY <1>3, <2>1, FailedGood
  <2>4. QED
    BY <2>2, <2>3
<1>4. CASE ~h.over /\ ~(HasAnyOutput(h) \/ then = "report") /\ then = "cancel"
  <2>. DEFINE g == Cancelled(h)
              x == Ledger(h)
  <2>1. Ends(h, g, x) /\ (Heard(g) /\ Ready(h) => Told(g) = "end_turn")
        /\ Goes(Ledger(h), x) /\ x = [Ledger(h) EXCEPT !.says = x.says]
    BY <1>1, CancelledEnds
  <2>2. FailedAttempt(h, then) = Overed(g)
    BY <1>4, FailedWays
  <2>. HIDE DEF g, x
  <2>3. Good(Overed(g), v, d)
    <3>. DEFINE y == x
    <3>1. Ends(h, g, y) /\ Goes(Ledger(h), y) /\ y = [Ledger(h) EXCEPT !.says = y.says]
      BY <2>1 DEF x
    <3>. HIDE DEF y
    <3>2. QED
      BY <1>4, <2>1, <3>1, FailedGood
  <2>4. QED
    BY <2>2, <2>3
<1>5. CASE ~h.over /\ ~(HasAnyOutput(h) \/ then = "report") /\ then # "cancel"
  <2>1. FailedAttempt(h, then) = ResetRoundState(h)
    BY <1>5, FailedWays
  <2>2. Good(ResetRoundState(h), v, d)
    BY <1>5, ResetGood
  <2>3. QED
    BY <2>1, <2>2
<1>6. QED
  BY <1>2, <1>3, <1>4, <1>5

\* Both handlers of an attempt that failed before anything came out of it.
LEMMA FailedTwin ==
  ASSUME NEW h, NEW b, NEW u, NEW d, h.stream = TRUE, b.stream = FALSE, Good(h, u, d), Good(b, u, d), ~u.told, u.sent = 0,
         NEW then, Heard(FailedAttempt(h, then)), Heard(h) => Ledger(h) = Ledger(b)
  PROVE  Ledger(FailedAttempt(h, then)) = Ledger(FailedAttempt(b, then))
<1>1. Whole(h) /\ Whole(b) /\ Heard(b)
  BY DEF Good, Heard
<1>2. ASSUME NEW g, NEW k, NEW x, NEW y, Ends(h, g, x), Ends(b, k, y), Heard(Overed(g)), ~h.over,
             Ledger(h) = Ledger(b) => x = y, y.chunks = Ledger(b).chunks
      PROVE  Ledger(Overed(g)) = Ledger(Overed(k))
  <2>1. Whole(g) /\ Whole(k) /\ k.stream = FALSE /\ Heard(k)
    BY <1>2 DEF Ends, Heard
  <2>2. Heard(g) /\ Heard(h)
    BY <1>2, <2>1, OverSame DEF Ends
  <2>3. Ledger(h) = Ledger(b) /\ x = y
    BY <1>2, <2>2
  <2>4. h.over = b.over
    BY <2>3, LedgerSays
  <2>5. Ready(h) /\ Ready(b)
    BY <1>1, <1>2, <2>2, <2>4 DEF Good, Closed
  <2>6. Ends(b, k, x) /\ x.chunks = FALSE
    <3>1. Ledger(b).chunks = b.chunks /\ b.chunks = FALSE
      BY <1>1, <2>5, LedgerSays DEF Ready, Kept
    <3>2. QED
      BY <1>2, <2>3, <3>1
  <2>7. Ledger(g) = Ledger(k)
    BY <1>2, <2>1, <2>2, <2>5, <2>6, EndsTwin
  <2>8. QED
    BY <2>1, <2>7, OverTwin
<1>3. CASE h.over
  <2>1. FailedAttempt(h, then) = h /\ Ledger(h) = Ledger(b)
    BY <1>3, FailedWays
  <2>2. b.over
    BY <1>3, <2>1, LedgerSays
  <2>3. QED
    BY <2>1, <2>2, FailedWays
<1>4. CASE ~h.over /\ b.over
  <2>1. Blank(h) /\ ~HasAnyOutput(h)
    BY <1>4, BlankSilent DEF Good
  <2>2. Heard(h)
    <3>1. Ends(h, Reported(h), Saying(Ledger(h), ErrorText)) /\ Ends(h, Cancelled(h), Ledger(h))
      BY <1>1, ReportedEnds, CancelledEnds
    <3>2. CASE then = "report"
      BY <1>4, <3>1, <3>2, FailedWays, OverSame DEF Ends
    <3>3. CASE then = "cancel"
      BY <1>4, <2>1, <3>1, <3>3, FailedWays, OverSame DEF Ends
    <3>4. CASE then \notin {"report", "cancel"}
      <4>1. Heard(CloseActiveBlock(h))
        BY <1>1, <1>4, <2>1, <3>4, FailedWays, ResetFields
      <4>2. QED
        BY <1>1, <4>1, CloseActs DEF Acts
    <3>5. QED
      BY <3>2, <3>3, <3>4
  <2>3. h.over = b.over
    BY <2>2, LedgerSays
  <2>4. QED
    BY <1>4, <2>3
<1>5. CASE ~h.over /\ ~b.over
  <2>1. ~HasAnyOutput(h) /\ ~HasAnyOutput(b)
    BY <1>5, BlankSilent DEF Good
  <2>2. CASE then = "report"
    <3>. DEFINE g == Reported(h)
                k == Reported(b)
                x == Saying(Ledger(h), ErrorText)
                y == Saying(Ledger(b), ErrorText)
    <3>1. Ends(h, g, x) /\ Ends(b, k, y) /\ y = [Ledger(b) EXCEPT !.says = y.says]
      BY <1>1, ReportedEnds
    <3>2. FailedAttempt(h, then) = Overed(g) /\ FailedAttempt(b, then) = Overed(k)
      BY <1>5, <2>2, FailedWays
    <3>3. Ledger(h) = Ledger(b) => x = y
      OBVIOUS
    <3>. HIDE DEF g, k, x, y
    <3>4. y.chunks = Ledger(b).chunks
      BY <3>1 DEF Ledger
    <3>5. Heard(Overed(g))
      BY <3>2
    <3>6. Ledger(Overed(g)) = Ledger(Overed(k))
      BY <1>2, <1>5, <3>1, <3>3, <3>4, <3>5
    <3>7. QED
      BY <3>2, <3>6
  <2>3. CASE then = "cancel"
    <3>. DEFINE g == Cancelled(h)
                k == Cancelled(b)
                x == Ledger(h)
                y == Ledger(b)
    <3>1. Ends(h, g, x) /\ Ends(b, k, y)
      BY <1>1, CancelledEnds
    <3>2. FailedAttempt(h, then) = Overed(g) /\ FailedAttempt(b, then) = Overed(k)
      BY <1>5, <2>1, <2>3, FailedWays
    <3>3. (Ledger(h) = Ledger(b) => x = y) /\ y.chunks = Ledger(b).chunks
      OBVIOUS
    <3>. HIDE DEF g, k, x, y
    <3>4. Heard(Overed(g))
      BY <3>2
    <3>5. Ledger(Overed(g)) = Ledger(Overed(k))
      BY <1>2, <1>5, <3>1, <3>3, <3>4
    <3>6. QED
      BY <3>2, <3>5
  <2>4. CASE then \notin {"report", "cancel"}
    <3>1. FailedAttempt(h, then) = ResetRoundState(h) /\ FailedAttempt(b, then) = ResetRoundState(b)
      BY <1>5, <2>1, <2>4, FailedWays
    <3>2. Heard(ResetRoundState(h)) /\ Heard(ResetRoundState(b))
      BY <1>1, <3>1, ResetFields DEF Heard
    <3>3. Heard(h)
      <4>1. Heard(CloseActiveBlock(h))
        BY <1>1, <3>2, ResetFields
      <4>2. QED
        BY <1>1, <4>1, CloseActs DEF Acts
    <3>4. Ready(h) /\ Ready(b)
      BY <1>1, <1>5, <3>3 DEF Good, Closed
    <3>5. Ledger(ResetRoundState(h)) = Refreshed(Ledger(h)) /\ Ledger(ResetRoundState(b)) = Refreshed(Ledger(b))
      BY <1>1, <2>1, <3>2, <3>4, ResetLedger
    <3>6. QED
      BY <3>1, <3>3, <3>5
  <2>5. QED
    BY <2>2, <2>3, <2>4
<1>6. QED
  BY <1>3, <1>4, <1>5

LEMMA FailedStream ==
  ASSUME NEW h, Whole(h), NEW then
  PROVE  LET g == FailedAttempt(h, then)
         IN g.stream = h.stream /\ (h.over \/ g.over = TRUE \/ (~HasAnyOutput(h) /\ g = ResetRoundState(h)))
<1>1. Ends(h, Reported(h), Saying(Ledger(h), ErrorText)) /\ Ends(h, Cancelled(h), Ledger(h))
  BY ReportedEnds, CancelledEnds
<1>2. /\ Whole(Reported(h)) /\ Reported(h).stream = h.stream
      /\ Whole(Cancelled(h)) /\ Cancelled(h).stream = h.stream
  BY <1>1 DEF Ends
<1>3. /\ Overed(Reported(h)).stream = h.stream /\ Overed(Reported(h)).over = TRUE
      /\ Overed(Cancelled(h)).stream = h.stream /\ Overed(Cancelled(h)).over = TRUE
  BY <1>2, OverSame
<1>4. ResetRoundState(h).stream = h.stream
  BY ResetFields
<1>5. QED
  BY <1>3, <1>4, FailedWays

LEMMA AttemptFailsAnswer ==
  ASSUME HandlerInv, AnswerInv, NEW then \in {"retry", "report", "cancel"}, AttemptFails(then) PROVE AnswerInv'
<1>1. /\ live' = FailedAttempt(live, then) /\ body' = FailedAttempt(body, then)
      /\ up' = NothingSent /\ dialect' = dialect /\ round' = round + 1
  BY DEF AttemptFails
<1>2. ~up.told /\ (dialect = "puter" => up.sent = 0)
  BY DEF AttemptFails, MayFail
<1>3. then = "retry" /\ dialect = "direct" => up.sent = 0
  BY DEF AttemptFails
<1>4. live.stream = TRUE /\ body.stream = FALSE /\ Good(live, up, dialect) /\ Good(body, up, dialect)
      /\ round \in Nat /\ round # 0 /\ Placing(body, up, dialect) /\ Twin(live, body, up, round, dialect)
  BY DEF AnswerInv
<1>5. up'.sent = 0 /\ up'.told = FALSE /\ up'.open = "none" /\ up'.tools = {} /\ up'.coding = FALSE
  BY <1>1, NothingFields
<1>6. up.sent = 0 => up = NothingSent
  BY DEF HandlerInv, Upstream
<1>7. round' \in Nat /\ round' # 0 /\ round' # 1
  BY <1>1, <1>4
<1>8. live'.stream = TRUE /\ body'.stream = FALSE
  BY <1>1, <1>4, AnswerWhole, FailedStream
<1>9. Good(live', up', dialect') /\ Good(body', up', dialect')
  BY <1>1, <1>2, <1>4, <1>5, FailedAttemptGood
<1>10. Placing(body', up', dialect')
  <2>1. SUFFICES ASSUME dialect = "direct", ~body'.over
                 PROVE  Opens(Ledger(body'), up')
    BY <1>1, <1>5 DEF Placing
  <2>2. ~body.over
    BY <1>1, <2>1 DEF FailedAttempt
  <2>3. ~HasAnyOutput(body) /\ body' = ResetRoundState(body)
    BY <1>1, <2>1, <2>2, AnswerWhole, FailedStream
  <2>4. Heard(body) /\ Heard(body')
    BY <1>4, <1>8 DEF Heard
  <2>5. Ready(body)
    BY <1>2, <1>4, <2>2, <2>4 DEF Good, Closed
  <2>6. Ledger(body') = Refreshed(Ledger(body))
    BY <2>3, <2>4, <2>5, AnswerWhole, ResetLedger
  <2>7. then = "retry"
    <3>1. SUFFICES ASSUME then # "retry" PROVE body'.over = TRUE
      BY <2>1
    <3>2. body' = Overed(Reported(body)) \/ body' = Overed(Cancelled(body))
      BY <1>1, <2>2, <3>1, FailedWays
    <3>3. Whole(Reported(body)) /\ Whole(Cancelled(body))
      BY AnswerWhole, ReportedEnds, CancelledEnds DEF Ends
    <3>4. QED
      BY <3>2, <3>3, OverSame
  <2>8. up = NothingSent
    BY <1>3, <1>6, <2>1, <2>7
  <2>9. Opens(Ledger(body), up') /\ Ledger(body).skipped = {}
    <3>1. Opens(Ledger(body), up)
      BY <1>2, <1>4, <2>1, <2>2 DEF Placing
    <3>2. QED
      BY <1>1, <1>5, <2>8, <3>1 DEF Opens
  <2>10. Ledger(body').skipped = {} /\ DOMAIN Ledger(body').directTools = {}
    <3>. DEFINE x == Ledger(body)
    <3>1. Refreshed(x).skipped = x.skipped /\ Refreshed(x).directTools = <<>>
      BY DEF Refreshed
    <3>2. QED
      BY <2>6, <2>9, <3>1
  <2>11. QED
    BY <1>5, <2>10 DEF Opens
<1>11. Twin(live', body', up', round', dialect')
  <2>1. SUFFICES ASSUME dialect = "puter", Heard(live') PROVE Ledger(live') = Ledger(body')
    BY <1>1, <1>7 DEF Twin
  <2>2. up.sent = 0 /\ ~up.coding
    BY <1>2, <1>6, <2>1, NothingFields
  <2>3. Heard(live) => Ledger(live) = Ledger(body)
    BY <1>4, <2>1, <2>2 DEF Twin
  <2>4. QED
    BY <1>1, <1>2, <1>4, <2>1, <2>2, <2>3, FailedTwin
<1>12. QED
  BY <1>7, <1>8, <1>9, <1>10, <1>11 DEF AnswerInv

\* The ticker's comment leaves the answer alone.
LEMMA KeepAliveSame ==
  ASSUME NEW h, Whole(h)
  PROVE  LET g == KeepAlive(h)
         IN /\ Whole(g) /\ g.stream = h.stream /\ g.over = h.over /\ (Blank(h) => Blank(g))
            /\ Heard(g) => /\ Heard(h) /\ Ledger(g) = Ledger(h) /\ (Ready(h) => Ready(g)) /\ (Marked(h) => Marked(g))
                           /\ Calls(g) = Calls(h) /\ Told(g) = Told(h) /\ g.hasReturn = h.hasReturn
<1>. DEFINE g == KeepAlive(h)
<1>1. CASE ~h.stream \/ h.hasReturn
  BY <1>1 DEF KeepAlive
<1>2. CASE h.stream /\ ~h.hasReturn /\ h.cut = 0
  <2>1. g = [h EXCEPT !.hasReturn = TRUE, !.stop = "write_error"]
    BY <1>2 DEF KeepAlive, MarkWriteError
  <2>. HIDE DEF g
  <2>2. Whole(g) /\ g.stream = h.stream /\ g.over = h.over /\ g.cut = h.cut
    BY <2>1 DEF Whole, Fields
  <2>3. ~Heard(g)
    BY <1>2, <2>2 DEF Heard
  <2>4. Blank(h) => Blank(g)
    BY <2>1 DEF Blank, Whole, Fields
  <2>5. QED
    BY <2>2, <2>3, <2>4 DEF g
<1>3. CASE h.stream /\ ~h.hasReturn /\ h.cut # 0
  <2>. DEFINE c == IF h.cut = Never THEN Never ELSE h.cut - 1
  <2>1. g = [h EXCEPT !.cut = c]
    BY <1>3 DEF KeepAlive
  <2>. HIDE DEF c, g
  <2>2. /\ g = [f \in Fields |-> g[f]] /\ g.stream = h.stream /\ g.over = h.over /\ g.hasReturn = h.hasReturn
        /\ g.view = h.view /\ g.stop = h.stop /\ g.content = h.content /\ g.pending = h.pending /\ g.emitted = h.emitted
        /\ g.count = h.count /\ g.intros = h.intros /\ g.last = h.last /\ g.dedup = h.dedup /\ g.seed = h.seed
        /\ g.dropped = h.dropped /\ g.handled = h.handled /\ g.disallow = h.disallow /\ g.suppress = h.suppress
        /\ g.earlier = h.earlier /\ g.inputs = h.inputs /\ g.directTools = h.directTools /\ g.skipped = h.skipped
        /\ g.chunks = h.chunks /\ g.hasText = h.hasText /\ g.estimated = h.estimated
    BY <2>1 DEF Whole, Fields
  <2>3. Whole(g) /\ (Blank(h) => Blank(g))
    BY <2>2 DEF Whole, Blank
  <2>4. Heard(g) => Heard(h)
    BY <1>3, <2>2 DEF Heard
  <2>5. Calls(g) = Calls(h) /\ Says(g) = Says(h) /\ Told(g) = Told(h) /\ (Marked(h) => Marked(g))
    BY <2>2 DEF Calls, Says, Told, Marked
  <2>6. Ledger(g) = Ledger(h)
    BY <2>2, <2>5 DEF Ledger
  <2>7. Ready(h) => Ready(g)
    BY <1>3, <2>2 DEF Ready, Streamed, HasToolCalls
  <2>8. QED
    BY <2>2, <2>3, <2>4, <2>5, <2>6, <2>7 DEF g
<1>4. QED
  BY <1>1, <1>2, <1>3 DEF Whole

LEMMA KeepAliveGood == ASSUME NEW h, NEW u, NEW d, Good(h, u, d) PROVE Good(KeepAlive(h), u, d)
<1>. DEFINE g == KeepAlive(h)
<1>1. Whole(h)
  BY DEF Good
<1>2. /\ Whole(g) /\ g.stream = h.stream /\ g.over = h.over /\ (Blank(h) => Blank(g))
      /\ Heard(g) => /\ Heard(h) /\ Ledger(g) = Ledger(h) /\ (Ready(h) => Ready(g)) /\ (Marked(h) => Marked(g))
                     /\ Calls(g) = Calls(h) /\ Told(g) = Told(h) /\ g.hasReturn = h.hasReturn
  BY <1>1, KeepAliveSame
<1>. HIDE DEF g
<1>3. ASSUME Heard(g)
      PROVE  Covered(Ledger(g)) /\ IF Closed(g, u) THEN Fit(g, u, d) ELSE Ready(g) /\ (d = "puter" => Marked(g))
  <2>1. Covered(Ledger(h)) /\ IF Closed(h, u) THEN Fit(h, u, d) ELSE Ready(h) /\ (d = "puter" => Marked(h))
    BY <1>2, <1>3 DEF Good
  <2>2. Closed(g, u) <=> Closed(h, u)
    BY <1>2 DEF Closed
  <2>3. Fit(h, u, d) => Fit(g, u, d)
    BY <1>2, <1>3 DEF Fit, Fits
  <2>4. QED
    BY <1>2, <1>3, <2>1, <2>2, <2>3
<1>4. Good(g, u, d)
  BY <1>2, <1>3 DEF Good
<1>5. QED
  BY <1>4 DEF g

LEMMA KeepAliveTickAnswer == ASSUME HandlerInv, AnswerInv, KeepAliveTick PROVE AnswerInv'
<1>1. live' = KeepAlive(live) /\ UNCHANGED <<body, dialect, up, round>>
  BY DEF KeepAliveTick
<1>2. live.stream = TRUE /\ body.stream = FALSE /\ Good(live, up, dialect) /\ Good(body, up, dialect)
      /\ round \in Nat /\ round # 0 /\ Placing(body, up, dialect) /\ Twin(live, body, up, round, dialect)
  BY DEF AnswerInv
<1>3. Good(live', up', dialect')
  BY <1>1, <1>2, KeepAliveGood
<1>4. live'.stream = TRUE /\ (Heard(live') => Heard(live) /\ Ledger(live') = Ledger(live))
  BY <1>1, <1>2, AnswerWhole, KeepAliveSame
<1>5. Twin(live', body', up', round', dialect')
  BY <1>1, <1>2, <1>4 DEF Twin
<1>6. QED
  BY <1>1, <1>2, <1>3, <1>4, <1>5 DEF AnswerInv

LEMMA UnchangedAnswer == ASSUME AnswerInv, UNCHANGED vars PROVE AnswerInv'
<1>1. UNCHANGED <<live, body, dialect, up, round>>
  BY DEF vars
<1>2. QED
  BY <1>1 DEF AnswerInv, Placing, Twin

\* A handler that has done nothing.
LEMMA NewHandlerGood ==
  ASSUME NEW m \in Modes, NEW s \in BOOLEAN, NEW u, u = NothingSent, NEW d
  PROVE  LET h == NewHandler(s, m)
         IN /\ Good(h, u, d) /\ Placing(h, u, d) /\ h.stream = s
            /\ Ledger(h) = [says |-> <<>>, calls |-> <<>>, intros |-> {}, last |-> [text |-> NoText, source |-> "none"],
                            dedup |-> m.seed, seed |-> m.seed, dropped |-> {}, handled |-> {}, disallow |-> m.disallow,
                            suppress |-> m.suppress, earlier |-> m.seed, inputs |-> <<>>, directTools |-> <<>>,
                            skipped |-> {}, chunks |-> FALSE, hasReturn |-> FALSE, over |-> FALSE]
<1>. DEFINE h == NewHandler(s, m)
            x == [says |-> <<>>, calls |-> <<>>, intros |-> {}, last |-> [text |-> NoText, source |-> "none"],
                  dedup |-> m.seed, seed |-> m.seed, dropped |-> {}, handled |-> {}, disallow |-> m.disallow,
                  suppress |-> m.suppress, earlier |-> m.seed, inputs |-> <<>>, directTools |-> <<>>,
                  skipped |-> {}, chunks |-> FALSE, hasReturn |-> FALSE, over |-> FALSE]
<1>1. h = [f \in Fields |-> h[f]] /\ h.view = [f \in ViewFields |-> h.view[f]]
  BY DEF NewHandler, NewView, Fields, ViewFields
<1>2. /\ h.stream = s /\ h.activeType = "none" /\ h.thinking = -1
      /\ h.text = -1 /\ h.hasReturn = FALSE /\ h.over = FALSE /\ h.skipped = {} /\ h.pending = <<>> /\ h.emitted = {}
      /\ h.count = 0 /\ h.chunks = FALSE /\ h.estimated = FALSE /\ h.hasText = FALSE /\ h.handled = {} /\ h.intros = {}
      /\ h.dropped = {} /\ h.inputs = <<>> /\ h.directTools = <<>> /\ h.content = <<>> /\ h.view = NewView
  BY DEF NewHandler
<1>3. /\ h.dedup = m.seed /\ h.seed = m.seed /\ h.earlier = m.seed /\ h.disallow = m.disallow /\ h.suppress = m.suppress
      /\ h.last = [text |-> NoText, source |-> "none"] /\ h.block = [thinking |-> 0, text |-> 0]
  BY DEF NewHandler
<1>. HIDE DEF h
<1>4. h.view.tools = <<>> /\ h.view.text = <<>>
  BY <1>2 DEF NewView
<1>5. Whole(h) /\ Blank(h)
  BY <1>1, <1>2 DEF Whole, Blank
<1>6. Says(h) = <<>> /\ Calls(h) = <<>>
  BY <1>2, <1>4, EmptyShapes DEF Says, Calls
<1>7. Ledger(h) = x
  BY <1>2, <1>3, <1>6 DEF Ledger
<1>8. Covered(Ledger(h))
  <2>1. x.calls = <<>> /\ x.dedup = m.seed /\ x.seed = m.seed /\ x.dropped = {} /\ x.earlier = m.seed
    OBVIOUS
  <2>. HIDE DEF x
  <2>2. Covered(x)
    BY <2>1, EmptyShapes DEF Covered
  <2>3. QED
    BY <1>7, <2>2
<1>9. Ready(h) /\ Marked(h)
  <2>1. ~HasToolCalls(h) /\ h.emitted \subseteq h.handled /\ h.hasReturn = FALSE
    BY <1>2 DEF HasToolCalls
  <2>2. Streamed(h)
    BY <1>2, <1>4, <2>1, EmptyShapes DEF Streamed
  <2>3. Kept(h)
    <3>1. h.block.text = 0 /\ h.block.thinking = 0 /\ h.block = [thinking |-> h.block.thinking, text |-> h.block.text]
      BY <1>3
    <3>2. ~(h.text >= 0) /\ ~(h.count > 0)
      BY <1>2
    <3>3. QED
      BY <1>2, <3>1, <3>2, EmptyShapes DEF Kept
  <2>4. QED
    BY <1>4, <2>1, <2>2, <2>3 DEF Ready, Marked
<1>10. u.told = FALSE /\ u.open = "none"
  BY NothingFields
<1>11. Good(h, u, d)
  BY <1>2, <1>5, <1>8, <1>9, <1>10 DEF Good, Closed
<1>12. Placing(h, u, d)
  <2>1. Ledger(h).skipped = {} /\ DOMAIN Ledger(h).directTools = {}
    BY <1>2, BookFields
  <2>2. QED
    BY <1>10, <2>1 DEF Placing, Opens
<1>13. QED
  BY <1>2, <1>7, <1>11, <1>12 DEF h

LEMMA InitAnswer == Init => AnswerInv
<1>1. SUFFICES ASSUME Init PROVE AnswerInv
  OBVIOUS
<1>. DEFINE yes == TRUE
            no == FALSE
<1>2. PICK m \in Modes : live = NewHandler(yes, m) /\ body = NewHandler(no, m)
  BY <1>1 DEF Init
<1>3. up = NothingSent /\ round = 1
  BY <1>1 DEF Init
<1>4. yes \in BOOLEAN /\ no \in BOOLEAN /\ yes = TRUE /\ no = FALSE
  OBVIOUS
<1>. HIDE DEF yes, no
<1>5. /\ Good(live, up, dialect) /\ Good(body, up, dialect) /\ Placing(body, up, dialect)
      /\ live.stream = yes /\ body.stream = no /\ Ledger(live) = Ledger(body)
  BY <1>2, <1>3, <1>4, NewHandlerGood
<1>6. QED
  BY <1>3, <1>4, <1>5 DEF AnswerInv, Twin

LEMMA NextAnswer == HandlerInv /\ AnswerInv /\ [Next]_vars => AnswerInv'
<1>1. SUFFICES ASSUME HandlerInv, AnswerInv, [Next]_vars PROVE AnswerInv'
  OBVIOUS
<1>2. ASSUME NEW t \in Texts, PuterText(t) PROVE AnswerInv'
  BY <1>1, <1>2, PuterTextAnswer
<1>3. ASSUME NEW id \in Ids, NEW tool \in Tools, PuterTool(id, tool) PROVE AnswerInv'
  BY <1>1, <1>3, PuterToolAnswer
<1>4. CASE PuterFinish
  BY <1>1, <1>4, PuterFinishAnswer
<1>5. ASSUME NEW t \in {Piece, NoText}, NEW signed \in BOOLEAN, AgentReasoning(t, signed) PROVE AnswerInv'
  BY <1>1, <1>5, AgentReasoningAnswer
<1>6. ASSUME NEW t \in Texts, NEW source \in {"model", "coding_agent"}, NEW soon \in BOOLEAN,
             AgentText(t, source, soon)
      PROVE  AnswerInv'
  BY <1>1, <1>6, AgentTextAnswer
<1>7. ASSUME NEW id \in Ids, NEW tool \in Tools, AgentTool(id, tool) PROVE AnswerInv'
  BY <1>1, <1>7, AgentToolAnswer
<1>8. CASE AgentTextBlock
  BY <1>1, <1>8, AgentTextBlockAnswer
<1>9. CASE AgentCoding
  BY <1>1, <1>9, AgentCodingAnswer
<1>10. ASSUME NEW reason \in {"tool_use", "end_turn"}, AgentEnds(reason) PROVE AnswerInv'
  BY <1>1, <1>10, AgentEndsAnswer
<1>11. CASE AgentUsage
  BY <1>1, <1>11, AgentUsageAnswer
<1>12. ASSUME NEW type \in {"text", "thinking", "tool_use"}, NEW id \in Ids, NEW tool \in Tools,
              DirectBlockStart(type, id, tool)
       PROVE  AnswerInv'
  BY <1>1, <1>12, DirectBlockStartAnswer
<1>13. CASE DirectBlockDelta
  BY <1>1, <1>13, DirectBlockDeltaAnswer
<1>14. CASE DirectBlockStop
  BY <1>1, <1>14, DirectBlockStopAnswer
<1>15. CASE DirectReason
  BY <1>1, <1>15, DirectReasonAnswer
<1>16. CASE DirectEnd
  BY <1>1, <1>16, DirectEndAnswer
<1>17. CASE AttemptSucceeds
  BY <1>1, <1>17, AttemptSucceedsAnswer
<1>18. ASSUME NEW then \in {"retry", "report", "cancel"}, AttemptFails(then) PROVE AnswerInv'
  BY <1>1, <1>18, AttemptFailsAnswer
<1>19. CASE KeepAliveTick
  BY <1>1, <1>19, KeepAliveTickAnswer
<1>20. CASE UNCHANGED vars
  BY <1>1, <1>20, UnchangedAnswer
<1>21. QED
  BY <1>1, <1>2, <1>3, <1>4, <1>5, <1>6, <1>7, <1>8, <1>9, <1>10, <1>11, <1>12, <1>13, <1>14, <1>15, <1>16, <1>17,
     <1>18, <1>19, <1>20 DEF Next

-----------------------------------------------------------------------------
(* What follows for every answer. *)

\* What the ledgers say of responses that are over.
LEMMA OverAnswers ==
  ASSUME HandlerInv, AnswerInv
  PROVE  /\ live.over /\ Intact =>
              /\ Heard(live) /\ Fit(live, up, dialect) /\ Covered(Ledger(live))
              /\ Calls(live) = live.view.tools /\ Says(live) = live.view.text /\ Told(live) = live.view.reason
         /\ body.over =>
              /\ Fit(body, up, dialect) /\ Covered(Ledger(body))
              /\ Calls(body) = ToolsOf(body) /\ Told(body) = body.stop
         /\ Says(body) = TextOf(body)
<1>1. live.stream = TRUE /\ body.stream = FALSE /\ Good(live, up, dialect) /\ Good(body, up, dialect)
  BY DEF AnswerInv
<1>2. ASSUME live.over, Intact PROVE Heard(live)
  BY <1>2 DEF HandlerInv, Done, Intact, Heard
<1>3. ASSUME live.over, Intact PROVE Fit(live, up, dialect) /\ Covered(Ledger(live))
  BY <1>1, <1>2, <1>3 DEF Good, Closed
<1>4. ASSUME body.over PROVE Fit(body, up, dialect) /\ Covered(Ledger(body))
  BY <1>1, <1>4 DEF Good, Closed, Heard
<1>5. Calls(live) = live.view.tools /\ Says(live) = live.view.text /\ Told(live) = live.view.reason
  BY <1>1 DEF Calls, Says, Told
<1>6. body.over => Calls(body) = ToolsOf(body)
  BY <1>1, <1>4 DEF Fit, Calls, ToolsOf, ToolsIn
<1>7. Says(body) = TextOf(body) /\ Told(body) = body.stop
  BY <1>1 DEF Says, TextOf, TextsIn, Told
<1>8. QED
  BY <1>2, <1>3, <1>4, <1>5, <1>6, <1>7

\* In both responses of every request: what the client has been given, or will be given when the response returns,
\* covers every side effect that the filters remember, and the two ledgers are the same where the answers must be.
THEOREM AnswerInvariant == Spec => [](HandlerInv /\ AnswerInv)
<1>1. Init => HandlerInv /\ AnswerInv
  BY InitInv, InitAnswer
<1>2. HandlerInv /\ AnswerInv /\ [Next]_vars => (HandlerInv /\ AnswerInv)'
  BY NextInv, NextAnswer
<1>3. QED
  BY <1>1, <1>2, PTL DEF Spec

\* Whatever the events, errors and retries: a client told to run tools has been given one, and one that is given a
\* tool of Puter's is told to run it, in both modes.
THEOREM ReasonAlwaysFits == Spec => []ReasonFits
<1>1. HandlerInv /\ AnswerInv => ReasonFits
  <2>1. SUFFICES ASSUME HandlerInv, AnswerInv PROVE ReasonFits
    OBVIOUS
  <2>2. live.stream = TRUE /\ body.stream = FALSE
    BY <2>1 DEF AnswerInv
  <2>3. ASSUME live.over, Intact, dialect # "direct"
        PROVE  /\ live.view.reason = "tool_use" => live.view.tools # <<>>
               /\ dialect = "puter" /\ live.view.tools # <<>> => live.view.reason = "tool_use"
    <3>1. /\ Fit(live, up, dialect)
          /\ Calls(live) = live.view.tools /\ Told(live) = live.view.reason
      BY <2>1, <2>3, OverAnswers
    <3>2. QED
      BY <2>2, <2>3, <3>1 DEF Fit, Fits
  <2>4. ASSUME body.over
        PROVE  /\ body.stop = "tool_use" => ToolsOf(body) # <<>>
               /\ dialect = "puter" /\ ToolsOf(body) # <<>> /\ up.tools # {} => body.stop = "tool_use"
    <3>1. Fit(body, up, dialect) /\ Calls(body) = ToolsOf(body) /\ Told(body) = body.stop
      BY <2>1, <2>4, OverAnswers
    <3>2. QED
      BY <2>2, <3>1 DEF Fit, Fits
  <2>5. QED
    BY <2>3, <2>4 DEF ReasonFits
<1>2. QED
  BY <1>1, AnswerInvariant, PTL

\* A call is dropped as repeated only if an earlier turn has carried it out or a call with the same effect is in this
\* response, also when the attempt that dropped it was retried.
THEOREM DroppedAlwaysDelivered == Spec => []DroppedWasDelivered
<1>1. HandlerInv /\ AnswerInv => DroppedWasDelivered
  <2>1. SUFFICES ASSUME HandlerInv, AnswerInv PROVE DroppedWasDelivered
    OBVIOUS
  <2>2. ASSUME NEW h, NEW tools, Covered(Ledger(h)), Calls(h) = tools
        PROVE  \A key \in h.dropped : key \in h.earlier \/ \E k \in DOMAIN tools : DedupKey[tools[k]] = key
    <3>1. Ledger(h).dropped = h.dropped /\ Ledger(h).earlier = h.earlier /\ Ledger(h).calls = tools
      BY <2>2 DEF Ledger
    <3>2. h.dropped \subseteq h.earlier \cup Keys(tools)
      BY <2>2, <3>1 DEF Covered
    <3>3. QED
      BY <3>2 DEF Keys
  <2>3. live.over /\ Intact => Covered(Ledger(live)) /\ Calls(live) = live.view.tools
    BY <2>1, OverAnswers
  <2>4. body.over => Covered(Ledger(body)) /\ Calls(body) = ToolsOf(body)
    BY <2>1, OverAnswers
  <2>5. QED
    BY <2>2, <2>3, <2>4 DEF DroppedWasDelivered
<1>2. QED
  BY <1>1, AnswerInvariant, PTL

\* The same upstream gives the same text and the same tools with and without streaming: in the answer of the first
\* attempt always, and after any number of retries of Puter.
THEOREM AnswersAlwaysSame == Spec => []SameAnswer
<1>1. HandlerInv /\ AnswerInv => SameAnswer
  <2>1. SUFFICES ASSUME HandlerInv, AnswerInv, live.over, body.over, Intact, ~up.coding,
                        round = 1 \/ dialect = "puter"
                 PROVE  live.view.text = TextOf(body) /\ live.view.tools = ToolsOf(body)
    BY DEF SameAnswer
  <2>2. /\ Heard(live) /\ Calls(live) = live.view.tools /\ Says(live) = live.view.text
        /\ Calls(body) = ToolsOf(body) /\ Says(body) = TextOf(body)
    BY <2>1, OverAnswers
  <2>3. Ledger(live) = Ledger(body)
    BY <2>1, <2>2 DEF AnswerInv, Twin
  <2>4. QED
    BY <2>2, <2>3, LedgerSays
<1>2. QED
  BY <1>1, AnswerInvariant, PTL
=============================================================================
