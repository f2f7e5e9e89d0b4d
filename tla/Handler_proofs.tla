--------------------------- MODULE Handler_proofs ---------------------------
(***************************************************************************)
(* Proofs about two parts of internal/handler.                             *)
(*                                                                         *)
(* Passthrough, for any accounts, errors, retries and frames: one answer   *)
(* reaches the caller, and every end is told and lets go of the account.   *)
(*                                                                         *)
(* ToolCalls, for any calls, working directory and files: what is moved    *)
(* into the working directory lies in it and is moved once, an effect is   *)
(* asked for once in a reply, and only success holds it back afterwards.   *)
(***************************************************************************)
EXTENDS Passthrough, ToolCalls, FiniteSetTheorems, SequenceTheorems, WellFoundedInduction, TLAPS

WireFrames == {"refusal", "headers", "chunk", "tool_calls", "stop", "DONE", "body", "error", "error body"}

PassPhases ==
  {"idle", "new", "attempt", "calling", "failed", "reselect", "waiting", "report", "done"}

PassTypeOK ==
  /\ stream \in BOOLEAN /\ hasOutput \in BOOLEAN /\ sawTools \in BOOLEAN
  /\ passPc \in PassPhases
  /\ wire \in Seq(WireFrames)
  /\ attempt \in Nat
  /\ tracked \in PassAccounts \cup {NoPassAccount}
  /\ passSessions \subseteq PassAccounts
  /\ passPc \notin {"idle", "new", "done"} => passCurrent \in PassAccounts

\* One connection is counted at most, that of the tracked account, and none when
\* the request has no account.
ConnsHeld ==
  /\ conns = [a \in PassAccounts |-> IF a = tracked THEN 1 ELSE 0]
  /\ passPc \in {"idle", "new", "reselect", "done"} => tracked = NoPassAccount

\* Before the first attempt nothing has been sent.
Untouched ==
  passPc \in {"idle", "new"} => wire = <<>> /\ writers = {} /\ ~hasOutput /\ ~sawTools

\* Who asked for a stream has frames of the current attempt or, until the end, none at all.
OneWriter ==
  stream =>
    IF hasOutput THEN writers = {attempt} /\ passPc \in {"calling", "report", "done"}
    ELSE writers = {} /\ (passPc # "done" => wire \in {<<>>, <<"headers">>})

\* The writer knows of the tool calls it has sent.
StopsFirst ==
  stream =>
    /\ \A k \in DOMAIN wire : wire[k] = "tool_calls" => sawTools
    /\ \A j, k \in DOMAIN wire : wire[j] = "tool_calls" /\ wire[k] = "stop" => k < j

\* A failure that is told ends the request.
OneError ==
  stream =>
    /\ passPc \notin {"report", "done"} => \A k \in DOMAIN wire : wire[k] # "error"
    /\ \A j, k \in DOMAIN wire : wire[j] = "error" /\ wire[k] = "error" => j = k

Told == \E k \in DOMAIN wire : wire[k] # "headers"

OutputIsTold ==
  /\ hasOutput \/ sawTools => Told
  /\ passPc = "done" /\ passErr # NoError => Told

PassInv ==
  PassTypeOK /\ ConnsHeld /\ Untouched /\ OneWriter /\ StopsFirst /\ OneError /\ OutputIsTold

-----------------------------------------------------------------------------
(* Connections and frames. *)

LEMMA Acquired ==
  ASSUME ConnsHeld, tracked = NoPassAccount, NEW a \in PassAccounts, AcquireTrackedAccount(a)
  PROVE  tracked' = a /\ conns' = [b \in PassAccounts |-> IF b = tracked' THEN 1 ELSE 0]
BY PassthroughAssumption DEF ConnsHeld, AcquireTrackedAccount

LEMMA Released ==
  ASSUME ConnsHeld, ReleaseTrackedAccount
  PROVE  tracked' = NoPassAccount /\ conns' = [b \in PassAccounts |-> IF b = tracked' THEN 1 ELSE 0]
BY PassthroughAssumption DEF ConnsHeld, ReleaseTrackedAccount

LEMMA Sent1 ==
  ASSUME wire \in Seq(WireFrames), NEW f \in WireFrames, wire' = Append(wire, f)
  PROVE  /\ wire' \in Seq(WireFrames)
         /\ Len(wire) + 1 \in DOMAIN wire' /\ wire'[Len(wire) + 1] = f
         /\ \A k \in DOMAIN wire : k \in DOMAIN wire' /\ wire'[k] = wire[k] /\ k < Len(wire) + 1
         /\ \A k \in DOMAIN wire' : k \in DOMAIN wire \/ k = Len(wire) + 1
OBVIOUS

LEMMA Sent2 ==
  ASSUME wire \in Seq(WireFrames), wire \in {<<>>, <<"headers">>}, wire' = wire \o <<"error", "DONE">>
  PROVE  /\ wire' \in Seq(WireFrames)
         /\ Len(wire) + 1 \in DOMAIN wire' /\ wire'[Len(wire) + 1] = "error"
         /\ \A k \in DOMAIN wire' : wire'[k] = "headers" \/ k = Len(wire) + 1 \/ wire'[k] = "DONE"
<1>1. <<"error", "DONE">> \in Seq(WireFrames)
  <2>1. "error" \in WireFrames /\ "DONE" \in WireFrames
    BY DEF WireFrames
  <2>2. QED
    BY <2>1
<1>2. wire' \in Seq(WireFrames) /\ Len(wire') = Len(wire) + 2
  BY <1>1
<1>3. wire'[Len(wire) + 1] = "error" /\ wire'[Len(wire) + 2] = "DONE"
  BY <1>1
<1>4. \A k \in DOMAIN wire : wire'[k] = "headers"
  BY <1>1
<1>5. QED
  BY <1>2, <1>3, <1>4

\* What only moves the request along.
Along ==
  UNCHANGED <<passRequest, tracked, conns, hasOutput, sawTools, wire, writers, attempt>>

LEMMA AlongInv ==
  ASSUME PassInv, Along, NEW to \in PassPhases \ {"idle", "new", "done"}, passPc' = to,
         passCurrent' \in PassAccounts, passSessions' \subseteq PassAccounts,
         passPc \notin {"idle", "new", "done"},
         stream /\ hasOutput => to \in {"calling", "report"},
         passPc = "report" => to = "report",
         to = "reselect" => tracked = NoPassAccount
  PROVE  PassInv'
<1>. USE DEF PassInv, Along, passRequest
<1>1. PassTypeOK'
  BY DEF PassTypeOK
<1>2. ConnsHeld' /\ Untouched'
  BY DEF ConnsHeld, Untouched
<1>3. OneWriter' /\ StopsFirst' /\ OneError'
  BY DEF OneWriter, StopsFirst, OneError, PassTypeOK
<1>4. OutputIsTold'
  BY DEF OutputIsTold, Told
<1>5. QED
  BY <1>1, <1>2, <1>3, <1>4

-----------------------------------------------------------------------------
(* The steps. *)

LEMMA ArriveInv ==
  ASSUME PassInv, NEW route \in {"codebuff", "kimchi"}, NEW streaming \in BOOLEAN, PassArrive(route, streaming)
  PROVE  PassInv'
<1>. USE DEF PassInv, PassArrive, account, reply
<1>1. PassTypeOK' /\ ConnsHeld' /\ Untouched'
  BY DEF PassTypeOK, PassPhases, ConnsHeld, Untouched
<1>2. OneWriter' /\ StopsFirst' /\ OneError'
  BY DEF OneWriter, StopsFirst, OneError, Untouched
<1>3. OutputIsTold'
  BY DEF OutputIsTold, Untouched
<1>4. QED
  BY <1>1, <1>2, <1>3

\* The answer to a request that gets no account, or none is tried for.
LEMMA RefusalInv ==
  ASSUME PassInv, passPc = "new", passPc' = "done", wire' = <<"refusal">>,
         UNCHANGED <<passRequest, account, hasOutput, sawTools, writers, attempt, passSessions>>
  PROVE  PassInv'
<1>. USE DEF PassInv, passRequest, account
<1>1. PassTypeOK' /\ ConnsHeld' /\ Untouched'
  BY DEF PassTypeOK, PassPhases, WireFrames, ConnsHeld, Untouched
<1>2. OneWriter' /\ StopsFirst' /\ OneError'
  BY DEF OneWriter, StopsFirst, OneError, Untouched
<1>3. OutputIsTold'
  BY DEF OutputIsTold, Told, Untouched
<1>4. QED
  BY <1>1, <1>2, <1>3

LEMMA AdmitInv == ASSUME PassInv, Admit PROVE PassInv'
<1>1. CASE PassChoices = {} /\ passPc' = "done" /\ wire' = <<"refusal">> /\ UNCHANGED account
  BY <1>1, RefusalInv DEF Admit, world
<1>2. ASSUME NEW a \in PassChoices, passCurrent' = a, AcquireTrackedAccount(a), passPc' = "attempt",
             UNCHANGED <<failed, wire>>
      PROVE  PassInv'
  <2>. USE DEF PassInv, Admit, passRequest, world
  <2>1. a \in PassAccounts
    BY DEF PassTypeOK, PassChoices, Affine
  <2>2. ConnsHeld'
    BY <1>2, <2>1, Acquired DEF ConnsHeld
  <2>3. PassTypeOK' /\ Untouched'
    BY <1>2, <2>1, Acquired DEF PassTypeOK, PassPhases, Untouched, ConnsHeld
  <2>4. OneWriter' /\ StopsFirst' /\ OneError' /\ OutputIsTold'
    BY <1>2 DEF OneWriter, StopsFirst, OneError, OutputIsTold, Told, Untouched
  <2>5. QED
    BY <2>2, <2>3, <2>4
<1>3. QED
  BY <1>1, <1>2 DEF Admit

LEMMA StartInv == ASSUME PassInv, StartAttempt PROVE PassInv'
<1>. USE DEF PassInv
<1>1. /\ passPc = "attempt" /\ passPc' = "calling" /\ attempt' = attempt + 1
      /\ UNCHANGED <<stream, passCurrent, tracked, conns, passErr, hasOutput, writers, passSessions>>
  BY DEF StartAttempt, passRequest, account, world
<1>2. sawTools' = FALSE
  BY DEF StartAttempt
<1>3. wire' = wire \/ (wire = <<>> /\ wire' = <<"headers">>)
  BY DEF StartAttempt
<1>4. wire' \in Seq(WireFrames)
  <2>1. wire \in Seq(WireFrames) /\ "headers" \in WireFrames
    BY DEF PassTypeOK, WireFrames
  <2>2. <<"headers">> \in Seq(WireFrames)
    BY <2>1
  <2>3. QED
    BY <1>3, <2>1, <2>2
<1>5. PassTypeOK'
  <2>1. stream' \in BOOLEAN /\ hasOutput' \in BOOLEAN /\ sawTools' \in BOOLEAN
    BY <1>1, <1>2 DEF PassTypeOK
  <2>2. QED
    BY <1>1, <1>4, <2>1 DEF PassTypeOK, PassPhases
<1>6. ConnsHeld' /\ Untouched'
  BY <1>1 DEF ConnsHeld, Untouched
<1>7. OneWriter' /\ OneError'
  BY <1>3, <1>1 DEF OneWriter, OneError
<1>8. StopsFirst'
  BY <1>3, <1>1, <1>2 DEF StopsFirst, OneWriter
<1>9. OutputIsTold'
  BY <1>3, <1>1, <1>2 DEF OutputIsTold, Told, PassTypeOK
<1>10. QED
  BY <1>5, <1>6, <1>7, <1>8, <1>9

\* A frame goes out, unless it is the stop after tool calls.
LEMMA EmitInv ==
  ASSUME PassInv, NEW frame \in {"chunk", "tool_calls", "stop", "DONE"}, Emit(frame)
  PROVE  PassInv'
<1>. USE DEF PassInv, Emit, passRequest, account, world
<1>1. /\ passPc = "calling" /\ UNCHANGED <<stream, passPc, conns, tracked, passCurrent, attempt, passSessions, passErr>>
      /\ RawSSEWriter(frame)
  BY DEF Hands, StreamsReply
<1>2. hasOutput' /\ writers' = writers \cup {attempt} /\ sawTools' = (sawTools \/ frame = "tool_calls")
  BY <1>1 DEF RawSSEWriter
<1>3. CASE sawTools /\ frame = "stop"
  <2>1. wire' = wire
    BY <1>1, <1>3 DEF RawSSEWriter
  <2>2. PassTypeOK' /\ ConnsHeld' /\ Untouched'
    BY <1>1, <1>2, <2>1 DEF PassTypeOK, ConnsHeld, Untouched
  <2>3. OneWriter'
    BY <1>1, <1>2 DEF OneWriter
  <2>4. StopsFirst'
    <3>1. sawTools' /\ UNCHANGED <<wire, stream>>
      BY <1>1, <1>2, <1>3, <2>1
    <3>2. QED
      BY <3>1 DEF StopsFirst
  <2>7. OneError'
    BY <1>1, <2>1 DEF OneError
  <2>5. OutputIsTold'
    BY <1>1, <1>2, <1>3, <2>1 DEF OutputIsTold, Told
  <2>6. QED
    BY <2>2, <2>3, <2>4, <2>5, <2>7
<1>4. CASE ~(sawTools /\ frame = "stop")
  <2>1. wire' = Append(wire, frame) /\ wire \in Seq(WireFrames) /\ frame \in WireFrames
    BY <1>1, <1>4 DEF RawSSEWriter, PassTypeOK, WireFrames
  <2>2. /\ wire' \in Seq(WireFrames)
        /\ Len(wire) + 1 \in DOMAIN wire' /\ wire'[Len(wire) + 1] = frame
        /\ \A k \in DOMAIN wire : k \in DOMAIN wire' /\ wire'[k] = wire[k] /\ k < Len(wire) + 1
        /\ \A k \in DOMAIN wire' : k \in DOMAIN wire \/ k = Len(wire) + 1
    BY <2>1, Sent1
  <2>3. PassTypeOK' /\ ConnsHeld' /\ Untouched'
    BY <1>1, <1>2, <2>2 DEF PassTypeOK, ConnsHeld, Untouched
  <2>4. OneWriter'
    BY <1>1, <1>2 DEF OneWriter
  <2>5. StopsFirst'
    <3>. SUFFICES ASSUME stream
                  PROVE  /\ \A k \in DOMAIN wire' : wire'[k] = "tool_calls" => sawTools'
                         /\ \A j, k \in DOMAIN wire' :
                              wire'[j] = "tool_calls" /\ wire'[k] = "stop" => k < j
      BY <1>1 DEF StopsFirst
    <3>1. \A k \in DOMAIN wire' : wire'[k] = "tool_calls" => sawTools'
      BY <1>2, <2>2 DEF StopsFirst
    <3>2. ASSUME NEW j \in DOMAIN wire', NEW k \in DOMAIN wire', wire'[j] = "tool_calls", wire'[k] = "stop"
          PROVE  k < j
      <4>1. CASE j \in DOMAIN wire /\ k \in DOMAIN wire
        BY <2>2, <3>2, <4>1 DEF StopsFirst
      <4>2. CASE k = Len(wire) + 1
        BY <1>4, <2>2, <3>2, <4>2 DEF StopsFirst
      <4>3. CASE j = Len(wire) + 1 /\ k \in DOMAIN wire
        BY <2>2, <4>3
      <4>4. QED
        BY <2>2, <4>1, <4>2, <4>3
    <3>3. QED
      BY <3>1, <3>2
  <2>6. OneError'
    BY <1>1, <2>2 DEF OneError
  <2>7. OutputIsTold'
    BY <1>1, <2>2 DEF OutputIsTold, Told
  <2>8. QED
    BY <2>3, <2>4, <2>5, <2>6, <2>7
<1>5. QED
  BY <1>3, <1>4

\* The call ends: with a body that was kept back, with an error that is told at once,
\* or with nothing to say yet.
LEMMA CallEnds ==
  ASSUME PassInv, passPc = "calling", NEW to \in {"report", "failed"}, passPc' = to,
         UNCHANGED <<passRequest, account, hasOutput, sawTools, writers, attempt, passSessions>>,
         \/ wire' = wire /\ (to = "failed" => ~PartialOutput)
         \/ ~stream /\ wire' = Append(wire, "body")
         \/ PartialOutput /\ to = "report" /\ wire' = Append(wire, "error")
  PROVE  PassInv'
<1>. USE DEF PassInv, passRequest, account
<1>1. CASE wire' = wire /\ (to = "failed" => ~PartialOutput)
  <2>1. PassTypeOK' /\ ConnsHeld' /\ Untouched'
    BY <1>1 DEF PassTypeOK, PassPhases, ConnsHeld, Untouched
  <2>2. OneWriter' /\ StopsFirst' /\ OneError' /\ OutputIsTold'
    BY <1>1 DEF OneWriter, StopsFirst, OneError, OutputIsTold, Told, PartialOutput
  <2>3. QED
    BY <2>1, <2>2
<1>2. ASSUME NEW f \in {"body", "error"}, wire' = Append(wire, f),
             f = "body" => ~stream, f = "error" => PartialOutput /\ to = "report"
      PROVE  PassInv'
  <2>1. wire \in Seq(WireFrames) /\ f \in WireFrames
    BY DEF PassTypeOK, WireFrames
  <2>2. /\ wire' \in Seq(WireFrames)
        /\ Len(wire) + 1 \in DOMAIN wire' /\ wire'[Len(wire) + 1] = f
        /\ \A k \in DOMAIN wire : k \in DOMAIN wire' /\ wire'[k] = wire[k] /\ k < Len(wire) + 1
        /\ \A k \in DOMAIN wire' : k \in DOMAIN wire \/ k = Len(wire) + 1
    BY <1>2, <2>1, Sent1
  <2>3. PassTypeOK' /\ ConnsHeld' /\ Untouched'
    BY <2>2 DEF PassTypeOK, PassPhases, ConnsHeld, Untouched
  <2>4. OneWriter' /\ StopsFirst'
    BY <1>2, <2>2 DEF OneWriter, StopsFirst, PartialOutput
  <2>5. OneError'
    BY <1>2, <2>2 DEF OneError, PartialOutput
  <2>6. OutputIsTold'
    BY <1>2, <2>2 DEF OutputIsTold, Told
  <2>7. QED
    BY <2>3, <2>4, <2>5, <2>6
<1>3. QED
  BY <1>1, <1>2

LEMMA CallSucceedsInv == ASSUME PassInv, CallSucceeds PROVE PassInv'
BY CallEnds DEF CallSucceeds, account, passRequest, world, PartialOutput

LEMMA CallFailsInv ==
  ASSUME PassInv, NEW e \in Errors, NEW names \in BOOLEAN, CallFails(e, names)
  PROVE  PassInv'
<1>1. passPc = "calling" /\ UNCHANGED <<passRequest, account, hasOutput, sawTools, writers, attempt, passSessions>>
  BY DEF CallFails
<1>2. CASE PartialOutput
  BY <1>1, <1>2, CallEnds DEF CallFails
<1>3. CASE ~PartialOutput
  BY <1>1, <1>3, CallEnds DEF CallFails
<1>4. QED
  BY <1>2, <1>3

LEMMA AfterFailureInv == ASSUME PassInv, AfterFailure PROVE PassInv'
<1>. USE DEF AfterFailure, PassInv
<1>1. ~(stream /\ hasOutput)
  BY DEF OneWriter
<1>2. CASE passPc' = "report" /\ UNCHANGED <<account, retries>>
  <2>1. PassTypeOK' /\ ConnsHeld' /\ Untouched'
    BY <1>2 DEF PassTypeOK, PassPhases, ConnsHeld, Untouched, account, passRequest, reply
  <2>2. OneWriter' /\ StopsFirst' /\ OneError' /\ OutputIsTold'
    BY <1>1, <1>2 DEF OneWriter, StopsFirst, OneError, OutputIsTold, Told, passRequest, reply
  <2>3. QED
    BY <2>1, <2>2
<1>3. CASE passPc' = "reselect" /\ ReleaseTrackedAccount /\ UNCHANGED passCurrent
  <2>1. tracked' = NoPassAccount /\ ConnsHeld'
    BY <1>3, Released DEF ConnsHeld
  <2>2. PassTypeOK' /\ Untouched'
    BY <1>3, <2>1 DEF PassTypeOK, PassPhases, Untouched, passRequest, reply
  <2>3. OneWriter' /\ StopsFirst' /\ OneError' /\ OutputIsTold'
    BY <1>1, <1>3 DEF OneWriter, StopsFirst, OneError, OutputIsTold, Told, passRequest, reply
  <2>4. QED
    BY <2>1, <2>2, <2>3
<1>4. QED
  BY <1>2, <1>3

LEMMA ReselectInv == ASSUME PassInv, Reselect PROVE PassInv'
<1>. USE DEF Reselect, PassInv
<1>1. tracked = NoPassAccount /\ passCurrent \in PassAccounts /\ ~(stream /\ hasOutput)
  BY DEF ConnsHeld, PassTypeOK, OneWriter
<1>2. ASSUME NEW a \in PassAccounts, AcquireTrackedAccount(a), passCurrent' = a, passPc' = "waiting"
      PROVE  PassInv'
  <2>1. tracked' = a /\ ConnsHeld'
    BY <1>1, <1>2, Acquired DEF ConnsHeld
  <2>2. PassTypeOK' /\ Untouched'
    BY <1>2, <2>1 DEF PassTypeOK, PassPhases, Untouched, passRequest, reply, world
  <2>3. OneWriter' /\ StopsFirst' /\ OneError' /\ OutputIsTold'
    BY <1>1, <1>2 DEF OneWriter, StopsFirst, OneError, OutputIsTold, Told, passRequest, reply
  <2>4. QED
    BY <2>1, <2>2, <2>3
<1>3. CASE passPc' = "report" /\ UNCHANGED <<passCurrent, tracked, conns>>
  <2>1. PassTypeOK' /\ ConnsHeld' /\ Untouched'
    BY <1>1, <1>3 DEF PassTypeOK, PassPhases, ConnsHeld, Untouched, passRequest, reply, world
  <2>2. OneWriter' /\ StopsFirst' /\ OneError' /\ OutputIsTold'
    BY <1>1, <1>3 DEF OneWriter, StopsFirst, OneError, OutputIsTold, Told, passRequest, reply
  <2>3. QED
    BY <2>1, <2>2
<1>4. PassChoices \subseteq PassAccounts
  BY DEF PassTypeOK, PassChoices, Affine
<1>5. QED
  BY <1>1, <1>2, <1>3, <1>4

\* The end: what was not told is, and the account is let go of.
LEMMA ReportInv == ASSUME PassInv, Report PROVE PassInv'
<1>. USE DEF PassInv, Report
<1>1. ConnsHeld' /\ tracked' = NoPassAccount
  BY Released DEF ConnsHeld
<1>2. CASE passErr = NoError \/ hasOutput
  <2>1. wire' = wire
    BY <1>2 DEF Tell
  <2>2. PassTypeOK' /\ Untouched'
    BY <1>1, <2>1 DEF PassTypeOK, PassPhases, Untouched, passRequest, world
  <2>3. OneWriter' /\ StopsFirst' /\ OneError' /\ OutputIsTold'
    BY <1>2, <2>1 DEF OneWriter, StopsFirst, OneError, OutputIsTold, Told, passRequest
  <2>4. QED
    BY <1>1, <2>2, <2>3
<1>3. CASE ~(passErr = NoError \/ hasOutput) /\ stream
  <2>1. wire \in {<<>>, <<"headers">>} /\ wire' = wire \o <<"error", "DONE">>
    BY <1>3 DEF Tell, OneWriter
  <2>2. /\ wire' \in Seq(WireFrames) /\ wire \in Seq(WireFrames)
        /\ Len(wire) + 1 \in DOMAIN wire' /\ wire'[Len(wire) + 1] = "error"
        /\ \A k \in DOMAIN wire' :
             wire'[k] = "headers" \/ k = Len(wire) + 1 \/ wire'[k] = "DONE"
    BY <2>1, Sent2 DEF PassTypeOK
  <2>3. PassTypeOK' /\ Untouched'
    BY <1>1, <2>2 DEF PassTypeOK, PassPhases, Untouched, passRequest, world
  <2>4. OneWriter' /\ OneError'
    BY <1>3, <2>2 DEF OneWriter, OneError, passRequest
  <2>5. StopsFirst'
    BY <1>3, <2>2 DEF StopsFirst, passRequest
  <2>6. OutputIsTold'
    BY <2>2 DEF OutputIsTold, Told
  <2>7. QED
    BY <1>1, <2>3, <2>4, <2>5, <2>6
<1>4. CASE ~(passErr = NoError \/ hasOutput) /\ ~stream
  <2>1. wire' = Append(wire, "error body") /\ wire \in Seq(WireFrames) /\ "error body" \in WireFrames
    BY <1>4 DEF Tell, PassTypeOK, WireFrames
  <2>2. wire' \in Seq(WireFrames) /\ Told'
    BY <2>1, Sent1 DEF Told
  <2>3. PassTypeOK' /\ Untouched'
    BY <1>1, <2>2 DEF PassTypeOK, PassPhases, Untouched, passRequest, world
  <2>4. OneWriter' /\ StopsFirst' /\ OneError' /\ OutputIsTold'
    BY <1>4, <2>2 DEF OneWriter, StopsFirst, OneError, OutputIsTold, passRequest
  <2>5. QED
    BY <1>1, <2>3, <2>4
<1>5. QED
  BY <1>2, <1>3, <1>4

LEMMA PassStep == PassInv /\ [PassNext]_passVars => PassInv'
<1>. SUFFICES ASSUME PassInv, [PassNext]_passVars PROVE PassInv'
  OBVIOUS
<1>1. ASSUME NEW route \in {"codebuff", "kimchi"}, NEW streaming \in BOOLEAN, PassArrive(route, streaming)
      PROVE  PassInv'
  BY <1>1, ArriveInv
<1>2. CASE Refuse
  BY <1>2, RefusalInv DEF Refuse, world
<1>3. ASSUME NEW frame \in {"chunk", "tool_calls", "stop", "DONE"}, Emit(frame) PROVE PassInv'
  BY <1>3, EmitInv
<1>4. ASSUME NEW e \in Errors, NEW names \in BOOLEAN, CallFails(e, names) PROVE PassInv'
  BY <1>4, CallFailsInv
<1>5. CASE Backoff
  <2>1. /\ Along /\ passPc = "waiting" /\ passPc' \in {"attempt", "report"}
        /\ UNCHANGED <<passCurrent, passSessions>>
    BY <1>5 DEF Backoff, Along, account, reply, world
  <2>2. ~(stream /\ hasOutput) /\ passCurrent \in PassAccounts /\ passSessions \subseteq PassAccounts
    BY <2>1 DEF PassInv, PassTypeOK, OneWriter
  <2>3. QED
    BY <2>1, <2>2, AlongInv DEF PassPhases
<1>6. CASE Others
  <2>1. Along /\ passPc \in {"calling", "waiting"} /\ UNCHANGED <<passPc, passCurrent>>
    BY <1>6 DEF Others, Along, account, reply
  <2>2. ~(stream /\ hasOutput) \/ passPc = "calling"
    BY <2>1 DEF PassInv, OneWriter
  <2>3. passCurrent \in PassAccounts /\ passSessions' \subseteq PassAccounts
    BY <1>6, <2>1 DEF Others, PassInv, PassTypeOK
  <2>4. QED
    BY <2>1, <2>2, <2>3, AlongInv DEF PassPhases
<1>7. CASE UNCHANGED passVars
  BY <1>7 DEF passVars, passRequest, account, reply, world, PassInv, PassTypeOK, ConnsHeld, Untouched,
              OneWriter, StopsFirst, OneError, OutputIsTold, Told
<1>8. QED
  BY <1>1, <1>2, <1>3, <1>4, <1>5, <1>6, <1>7, AdmitInv, StartInv, CallSucceedsInv, AfterFailureInv,
     ReselectInv, ReportInv
     DEF PassNext

LEMMA PassStart == PassInit => PassInv
<1>. SUFFICES ASSUME PassInit PROVE PassInv
  OBVIOUS
<1>1. PassTypeOK
  <2>1. wire \in Seq(WireFrames)
    BY DEF PassInit
  <2>2. stream = FALSE /\ hasOutput = FALSE /\ sawTools = FALSE
    BY Zenon DEF PassInit
  <2>3. stream \in BOOLEAN /\ hasOutput \in BOOLEAN /\ sawTools \in BOOLEAN
    BY <2>2
  <2>4. QED
    BY <2>1, <2>3 DEF PassInit, PassTypeOK, PassPhases
<1>2. ConnsHeld
  BY PassthroughAssumption DEF PassInit, ConnsHeld
<1>3. Untouched
  BY DEF PassInit, Untouched
<1>4. OneWriter /\ StopsFirst /\ OneError /\ OutputIsTold
  BY DEF PassInit, OneWriter, StopsFirst, OneError, OutputIsTold
<1>5. QED
  BY <1>1, <1>2, <1>3, <1>4 DEF PassInv

\* Every state of the loop has the invariant: the connection counts, and what has been
\* sent by whom, at each point of handlePassthroughProvider.
THEOREM PassthroughInvariant == PassSpec => []PassInv
BY PassStart, PassStep, PTL DEF PassSpec

\* Who asked for a stream gets the frames of one attempt, no stop after tool calls, and
\* one error at most: rawSSEWriter, and the check of hasOutput before a retry, suffice.
THEOREM AnswerCorrect == PassSpec => []OneAnswer
<1>1. ASSUME PassInv PROVE OneAnswer
  <2>. SUFFICES ASSUME stream
                PROVE  /\ Cardinality(writers) <= 1
                       /\ \A j, k \in DOMAIN wire :
                            wire[j] = "tool_calls" /\ wire[k] = "stop" => k < j
                       /\ FramesOf("error") <= 1
    BY DEF OneAnswer
  <2>1. Cardinality(writers) <= 1
    <3>1. writers = {} \/ writers = {attempt}
      BY <1>1 DEF PassInv, OneWriter
    <3>2. Cardinality({}) = 0 /\ Cardinality({attempt}) = 1
      BY FS_EmptySet, FS_Singleton
    <3>3. QED
      BY <3>1, <3>2
  <2>2. FramesOf("error") <= 1
    <3>. DEFINE E == {k \in DOMAIN wire : wire[k] = "error"}
    <3>1. \A j, k \in E : j = k
      BY <1>1 DEF PassInv, OneError
    <3>2. CASE E = {}
      BY <3>2, FS_EmptySet DEF FramesOf
    <3>3. ASSUME NEW k \in E PROVE FramesOf("error") <= 1
      <4>1. E = {k}
        BY <3>1
      <4>2. QED
        BY <4>1, FS_Singleton DEF FramesOf
    <3>4. QED
      BY <3>2, <3>3
  <2>3. QED
    BY <1>1, <2>1, <2>2 DEF PassInv, StopsFirst
<1>2. QED
  BY <1>1, PassthroughInvariant, PTL

\* A request that ends after a failure has told its caller something, and holds no
\* connection: each return of handlePassthroughProvider releases the tracked account.
THEOREM EndCorrect == PassSpec => []EndIsTold
<1>1. ASSUME PassInv PROVE EndIsTold
  BY <1>1, PassthroughAssumption DEF PassInv, ConnsHeld, OutputIsTold, Told, EndIsTold
<1>2. QED
  BY <1>1, PassthroughInvariant, PTL

-----------------------------------------------------------------------------
(* Tool calls: numbers, sequences and what is computed along them. *)

Less == {p \in Nat \X Nat : p[1] < p[2]}

LEMMA Least == ASSUME NEW T, T \subseteq Nat, T # {} PROVE \E x \in T : \A y \in T : x <= y
<1>1. IsWellFoundedOn(Less, Nat)
  BY NatLessThanWellFounded DEF OpToRel, Less
<1>2. PICK x \in T : \A y \in T : <<y, x>> \notin Less
  BY <1>1, WFMin, Zenon
<1>3. ASSUME NEW y \in T PROVE x <= y
  <2>1. x \in Nat /\ y \in Nat
    OBVIOUS
  <2>2. ~(y < x)
    BY <1>2, <2>1 DEF Less
  <2>3. QED
    BY <2>1, <2>2
<1>4. QED
  BY <1>3

\* Induction, what holds of a number (of a sequence) being given as the set P of those
\* it holds of.
LEMMA NumberInduction ==
  ASSUME NEW P, 0 \in P, \A n \in Nat : n \in P => n + 1 \in P
  PROVE  \A n \in Nat : n \in P
<1>. DEFINE Bad == Nat \ P
<1>1. ASSUME Bad # {} PROVE FALSE
  <2>1. PICK k \in Bad : \A j \in Bad : k <= j
    BY <1>1, Least
  <2>2. k # 0 /\ k - 1 \in Nat /\ ~(k <= k - 1)
    BY <2>1
  <2>3. k - 1 \in P
    BY <2>1, <2>2
  <2>4. (k - 1) + 1 \in P
    BY <2>2, <2>3
  <2>5. (k - 1) + 1 = k /\ k \notin P
    BY <2>1
  <2>6. QED
    BY <2>4, <2>5
<1>2. QED
  BY <1>1

LEMMA AppendInduction ==
  ASSUME NEW S, NEW P, <<>> \in P, \A s \in Seq(S), x \in S : s \in P => Append(s, x) \in P
  PROVE  \A s \in Seq(S) : s \in P
<1>. DEFINE Q == {n \in Nat : \A s \in Seq(S) : Len(s) = n => s \in P}
<1>1. 0 \in Q
  <2>1. ASSUME NEW s \in Seq(S), Len(s) = 0 PROVE s = <<>>
    BY <2>1, EmptySeq
  <2>2. QED
    BY <2>1
<1>2. ASSUME NEW n \in Nat, n \in Q PROVE n + 1 \in Q
  <2>1. ASSUME NEW s \in Seq(S), Len(s) = n + 1 PROVE s \in P
    <3>1. s # <<>>
      BY <2>1, EmptySeq
    <3>2. PICK r \in Seq(S), x \in S : s = Append(r, x)
      BY <3>1, SequenceEmptyOrAppend
    <3>3. Len(r) = n
      <4>1. Len(r) \in Nat /\ Len(s) = Len(r) + 1
        BY <3>2, AppendProperties, LenProperties
      <4>2. QED
        BY <2>1, <4>1
    <3>4. r \in P
      BY <1>2, <3>3
    <3>5. QED
      BY <3>2, <3>4
  <2>2. QED
    BY <2>1
<1>. HIDE DEF Q
<1>3. \A n \in Nat : n \in Q
  BY <1>1, <1>2, NumberInduction
<1>4. ASSUME NEW s \in Seq(S) PROVE s \in P
  <2>1. Len(s) \in Nat
    BY LenProperties
  <2>2. Len(s) \in Q
    BY <1>3, <2>1
  <2>3. QED
    BY <2>2 DEF Q
<1>5. QED
  BY <1>4

\* A function on the subsets of a finite set may be given by its value for none and by
\* how one element, chosen, adds to the value for the others.
Chooses(c, S) == \A s \in SUBSET S : s # {} => c[s] \in s
Stays(F, S, V) == \A x \in S, v \in V : F[<<x, v>>] \in V
Unfolds(g, S, base, c, F) ==
  g = [s \in SUBSET S |-> IF s = {} THEN base ELSE F[<<c[s], g[s \ {c[s]}]>>]]

LEMMA Recursion ==
  ASSUME NEW S, IsFiniteSet(S), NEW V, NEW base \in V,
         NEW c, Chooses(c, S), NEW F, Stays(F, S, V)
  PROVE  \E g \in [SUBSET S -> V] : Unfolds(g, S, base, c, F)
<1>. USE DEF Chooses, Stays, Unfolds
<1>. DEFINE Step(g) == [s \in SUBSET S |-> IF s = {} THEN base ELSE F[<<c[s], g[s \ {c[s]}]>>]]
            Small(n) == {s \in SUBSET S : Cardinality(s) <= n}
            P == {n \in Nat : \E g \in [SUBSET S -> V] : \A s \in Small(n) : g[s] = Step(g)[s]}
<1>1. ASSUME NEW g \in [SUBSET S -> V] PROVE Step(g) \in [SUBSET S -> V]
  <2>1. ASSUME NEW s \in SUBSET S, s # {} PROVE F[<<c[s], g[s \ {c[s]}]>>] \in V
    BY <2>1
  <2>2. QED
    BY <2>1
<1>2. ASSUME NEW s \in SUBSET S PROVE IsFiniteSet(s) /\ Cardinality(s) \in Nat
  BY FS_Subset, FS_CardinalityType
<1>3. ASSUME NEW s \in SUBSET S, s # {}
      PROVE  s \ {c[s]} \in SUBSET S /\ Cardinality(s \ {c[s]}) = Cardinality(s) - 1
  BY <1>2, <1>3, FS_RemoveElement
<1>4. 0 \in P
  <2>. DEFINE g == Step([s \in SUBSET S |-> base])
  <2>1. g \in [SUBSET S -> V]
    BY <1>1
  <2>2. ASSUME NEW s \in Small(0) PROVE s = {}
    BY <1>2, FS_EmptySet
  <2>3. ASSUME NEW s \in Small(0) PROVE g[s] = Step(g)[s]
    BY <2>2
  <2>. HIDE DEF g
  <2>4. QED
    BY <2>1, <2>3
<1>5. ASSUME NEW n \in Nat, n \in P PROVE n + 1 \in P
  <2>1. PICK g \in [SUBSET S -> V] : \A s \in Small(n) : g[s] = Step(g)[s]
    BY <1>5
  <2>. DEFINE h == Step(g)
  <2>2. h \in [SUBSET S -> V]
    BY <1>1
  <2>3. ASSUME NEW s \in Small(n + 1) PROVE h[s] = Step(h)[s]
    <3>1. CASE s = {}
      BY <3>1
    <3>2. CASE s # {}
      <4>. DEFINE r == s \ {c[s]}
      <4>1. r \in Small(n)
        BY <1>2, <1>3, <3>2
      <4>2. g[r] = h[r]
        BY <2>1, <4>1
      <4>3. h[s] = F[<<c[s], g[r]>>] /\ Step(h)[s] = F[<<c[s], h[r]>>]
        BY <3>2
      <4>4. QED
        BY <4>2, <4>3
    <3>3. QED
      BY <3>1, <3>2
  <2>. HIDE DEF h, Small, Step
  <2>4. n + 1 \in Nat /\ \E k \in [SUBSET S -> V] : \A s \in Small(n + 1) : k[s] = Step(k)[s]
    <3>1. \E k \in [SUBSET S -> V] : \A s \in Small(n + 1) : k[s] = Step(k)[s]
      BY <2>2, <2>3, Zenon
    <3>2. QED
      BY <3>1
  <2>5. QED
    BY <2>4, Zenon
<1>. HIDE DEF P
<1>6. \A n \in Nat : n \in P
  BY <1>4, <1>5, NumberInduction
<1>7. PICK g \in [SUBSET S -> V] : \A s \in Small(Cardinality(S)) : g[s] = Step(g)[s]
  BY <1>2, <1>6 DEF P
<1>8. ASSUME NEW s \in SUBSET S PROVE s \in Small(Cardinality(S))
  BY FS_Subset
<1>9. \A s \in SUBSET S : g[s] = Step(g)[s]
  BY <1>7, <1>8
<1>10. g = Step(g)
  BY <1>9
<1>11. QED
  BY <1>10

LEMMA MaxOfNumbers ==
  ASSUME NEW n \in Nat, NEW s \in SUBSET (1..n), s # {}
  PROVE  Max(s) \in s /\ \A y \in s : y <= Max(s)
<1>. DEFINE T == {n - x : x \in s}
<1>1. T \subseteq Nat /\ T # {}
  OBVIOUS
<1>2. PICK m \in T : \A y \in T : m <= y
  BY <1>1, Least
<1>3. PICK x \in s : m = n - x
  BY <1>2
<1>4. \A y \in s : x >= y
  <2>1. ASSUME NEW y \in s PROVE x >= y
    <3>1. n - y \in T /\ x \in 1..n /\ y \in 1..n
      OBVIOUS
    <3>2. n - x <= n - y
      BY <1>2, <1>3, <3>1
    <3>3. QED
      BY <3>1, <3>2
  <2>2. QED
    BY <2>1
<1>5. Max(s) \in s /\ \A y \in s : Max(s) >= y
  BY <1>4 DEF Max
<1>6. \A y \in s : Max(s) \in 1..n /\ y \in 1..n
  BY <1>5
<1>7. QED
  BY <1>5, <1>6

LEMMA MaxOfInterval ==
  ASSUME NEW k \in Nat \ {0} PROVE Max(1..k) = k /\ (1..k) \ {k} = 1..(k - 1)
<1>1. Max(1..k) \in 1..k /\ \A y \in 1..k : y <= Max(1..k)
  <2>1. k \in Nat /\ k \in 1..k
    OBVIOUS
  <2>2. 1..k \in SUBSET (1..k) /\ 1..k # {}
    BY <2>1
  <2>3. QED
    BY <2>1, <2>2, MaxOfNumbers
<1>2. QED
  BY <1>1

LEMMA FrontProperties ==
  ASSUME NEW S, NEW s \in Seq(S), s # <<>>
  PROVE  /\ Front(s) \in Seq(S) /\ Len(Front(s)) = Len(s) - 1 /\ Len(s) \in Nat \ {0}
         /\ \A i \in 1..Len(s) - 1 : Front(s)[i] = s[i]
<1>1. Len(s) \in Nat \ {0} /\ \A i \in 1..Len(s) : s[i] \in S
  BY EmptySeq, ElementOfSeq
<1>2. Len(s) - 1 \in Int /\ \A i \in 1..(Len(s) - 1) : s[i] \in S
  BY <1>1
<1>3. /\ Front(s) \in Seq(S)
      /\ Len(Front(s)) = IF 1 <= Len(s) - 1 THEN (Len(s) - 1) - 1 + 1 ELSE 0
      /\ \A i \in 1..((Len(s) - 1) - 1 + 1) : Front(s)[i] = s[1 + i - 1]
  BY <1>2, SubSeqProperties DEF Front
<1>. DEFINE l == Len(s)
            m == Len(Front(s))
<1>4. l \in Nat \ {0} /\ m = IF 1 <= l - 1 THEN (l - 1) - 1 + 1 ELSE 0
  BY <1>1, <1>3
<1>5. m = l - 1
  <2>. HIDE DEF l, m
  <2>1. QED
    BY <1>4
<1>6. ASSUME NEW i \in 1..(Len(s) - 1) PROVE Front(s)[i] = s[i]
  <2>1. i \in 1..((Len(s) - 1) - 1 + 1) /\ 1 + i - 1 = i
    BY <1>1
  <2>2. QED
    BY <1>3, <2>1
<1>7. QED
  BY <1>1, <1>3, <1>5, <1>6

LEMMA FrontOfAppend ==
  ASSUME NEW S, NEW s \in Seq(S), NEW x \in S
  PROVE  Front(Append(s, x)) = s /\ Last(Append(s, x)) = x /\ Append(s, x) # <<>>
<1>1. /\ Append(s, x) \in Seq(S) /\ Append(s, x) # <<>> /\ Len(Append(s, x)) = Len(s) + 1 /\ Len(s) \in Nat
      /\ \A i \in 1..Len(s) : Append(s, x)[i] = s[i]
      /\ Append(s, x)[Len(s) + 1] = x
  BY AppendProperties, LenProperties
<1>2. Last(Append(s, x)) = x
  BY <1>1 DEF Last
<1>3. /\ Front(Append(s, x)) \in Seq(S) /\ Len(Front(Append(s, x))) = Len(s)
      /\ \A i \in 1..Len(s) : Front(Append(s, x))[i] = s[i]
  <2>. DEFINE a == Append(s, x)
  <2>1. a \in Seq(S) /\ a # <<>> /\ Len(a) = Len(s) + 1 /\ Len(s) \in Nat /\ \A i \in 1..Len(s) : a[i] = s[i]
    BY <1>1
  <2>. HIDE DEF a
  <2>2. /\ Front(a) \in Seq(S) /\ Len(Front(a)) = Len(a) - 1 /\ Len(a) \in Nat
        /\ \A i \in 1..Len(a) - 1 : Front(a)[i] = a[i]
    BY <2>1, FrontProperties
  <2>3. Len(Front(a)) = Len(s) /\ \A i \in 1..Len(s) : Front(a)[i] = s[i]
    BY <2>1, <2>2
  <2>4. QED
    BY <2>2, <2>3 DEF a
<1>4. Front(Append(s, x)) = s
  BY <1>3, SeqEqual
<1>5. QED
  BY <1>1, <1>2, <1>4

LEMMA OneIsSeq == ASSUME NEW S, NEW x \in S PROVE <<x>> \in Seq(S)
  OBVIOUS

-----------------------------------------------------------------------------
(* CleanPath: a fold, part by part. *)

\* Parts of paths.  (The provers do not know of a string that it is one.)
Texts == STRING \cup {"C:", "C:..."}

LEMMA CleanPartType ==
  ASSUME NEW done \in Seq(Texts), NEW part \in Texts, NEW r \in BOOLEAN
  PROVE  CleanPart(done, part, r) \in Seq(Texts)
<1>1. Append(done, part) \in Seq(Texts)
  BY AppendProperties
<1>2. CASE done # <<>>
  <2>1. Front(done) \in Seq(Texts)
    BY <1>2, FrontProperties
  <2>2. QED
    BY <1>1, <2>1 DEF CleanPart
<1>3. CASE done = <<>>
  BY <1>1, <1>3 DEF CleanPart
<1>4. QED
  BY <1>2, <1>3

\* What has been cleaned after each part.
LEMMA CleanTrace ==
  ASSUME NEW q \in Seq(Texts), NEW r \in BOOLEAN
  PROVE  \E t : /\ t[0] = <<>> /\ t[Len(q)] = CleanParts(q, r)
                /\ \A k \in 1..Len(q) : t[k] = CleanPart(t[k - 1], q[k], r)
<1>. DEFINE n == Len(q)
            D == SUBSET (1..n)
            V == Seq(Texts)
            Step(g) == [s \in D |-> IF s = {} THEN <<>> ELSE CleanPart(g[s \ {Max(s)}], q[Max(s)], r)]
            iter == CHOOSE g : g = Step(g)
<1>1. n \in Nat /\ DOMAIN q = 1..n /\ \A k \in 1..n : q[k] \in Texts
  BY LenProperties, ElementOfSeq
<1>2. CleanParts(q, r) = iter[1..n]
  BY <1>1 DEF CleanParts, FoldLeft, MapThenFoldSet
<1>3. \E g : g = Step(g)
  <2>. DEFINE c == [s \in D |-> Max(s)]
              F == [p \in (1..n) \X V |-> CleanPart(p[2], q[p[1]], r)]
  <2>1. IsFiniteSet(1..n)
    BY <1>1, FS_Interval
  <2>2. \A s \in D : s # {} => c[s] \in s
    BY <1>1, MaxOfNumbers
  <2>3. \A x \in 1..n, v \in V : F[<<x, v>>] = CleanPart(v, q[x], r) /\ F[<<x, v>>] \in V
    BY <1>1, CleanPartType
  <2>4. <<>> \in V
    BY EmptySeq
  <2>. HIDE DEF c, F, V, n
  <2>5. PICK g \in [D -> V] : g = [s \in D |-> IF s = {} THEN <<>> ELSE F[<<c[s], g[s \ {c[s]}]>>]]
    <3>1. Chooses(c, 1..n) /\ Stays(F, 1..n, V)
      BY <2>2, <2>3 DEF Chooses, Stays
    <3>2. \E g \in [SUBSET (1..n) -> V] : Unfolds(g, 1..n, <<>>, c, F)
      BY <2>1, <2>4, <3>1, Recursion
    <3>3. QED
      BY <3>2 DEF Unfolds
  <2>6. ASSUME NEW s \in D, s # {} PROVE F[<<c[s], g[s \ {c[s]}]>>] = CleanPart(g[s \ {Max(s)}], q[Max(s)], r)
    <3>1. c[s] = Max(s)
      BY DEF c
    <3>2. g[s \ {c[s]}] \in V /\ c[s] \in 1..n
      BY <2>2, <2>6
    <3>3. QED
      BY <2>3, <3>1, <3>2
  <2>7. g = Step(g)
    BY <2>5, <2>6
  <2>8. QED
    BY <2>7
<1>. HIDE DEF n, iter
<1>4. iter = Step(iter)
  BY <1>3 DEF iter
<1>. DEFINE t == [k \in 0..n |-> iter[1..k]]
<1>5. t[0] = <<>>
  <2>1. 1..0 = {} /\ 0 \in 0..n
    BY <1>1
  <2>2. QED
    BY <1>4, <2>1
<1>6. ASSUME NEW k \in 1..n PROVE t[k] = CleanPart(t[k - 1], q[k], r)
  <2>1. k \in Nat \ {0} /\ k \in 0..n /\ k - 1 \in 0..n /\ 1..k \in D /\ 1..k # {} /\ 1..(k - 1) \in D
    <3>1. n \in Nat
      BY <1>1
    <3>2. k \in 1..k /\ k \in Nat \ {0} /\ k \in 0..n /\ k - 1 \in 0..n
      BY <3>1
    <3>3. \A i \in 1..k : i \in 1..n
      BY <3>1
    <3>4. \A i \in 1..(k - 1) : i \in 1..n
      BY <3>1
    <3>5. QED
      BY <3>2, <3>3, <3>4
  <2>2. Max(1..k) = k /\ (1..k) \ {k} = 1..(k - 1)
    BY <2>1, MaxOfInterval
  <2>3. iter[1..k] = CleanPart(iter[1..(k - 1)], q[k], r)
    BY <1>4, <2>1, <2>2
  <2>4. QED
    BY <2>1, <2>3
<1>7. t[n] = CleanParts(q, r)
  BY <1>1, <1>2
<1>. HIDE DEF t
<1>8. QED
  BY <1>5, <1>6, <1>7 DEF n

LEMMA CleanUnfolds ==
  ASSUME NEW p \in Seq(Texts), NEW x \in Texts, NEW r \in BOOLEAN
  PROVE  CleanParts(Append(p, x), r) = CleanPart(CleanParts(p, r), x, r)
<1>. DEFINE q == Append(p, x)
            n == Len(p)
<1>1. /\ q \in Seq(Texts) /\ n \in Nat /\ Len(q) = n + 1
      /\ q[n + 1] = x /\ \A k \in 1..n : q[k] = p[k]
  <2>1. n \in Nat
    BY LenProperties
  <2>2. q \in Seq(Texts) /\ Len(q) = Len(p) + 1 /\ (\A k \in 1..Len(p) : q[k] = p[k]) /\ q[Len(p) + 1] = x
    BY AppendProperties
  <2>3. QED
    BY <2>1, <2>2
<1>2. PICK t : /\ t[0] = <<>> /\ t[Len(p)] = CleanParts(p, r)
               /\ \A k \in 1..Len(p) : t[k] = CleanPart(t[k - 1], p[k], r)
  BY CleanTrace
<1>. HIDE DEF q, n
<1>3. PICK u : /\ u[0] = <<>> /\ u[Len(q)] = CleanParts(q, r)
               /\ \A k \in 1..Len(q) : u[k] = CleanPart(u[k - 1], q[k], r)
  BY <1>1, CleanTrace
<1>. DEFINE P == {k \in Nat : k <= n => t[k] = u[k]}
<1>4. 0 \in P
  BY <1>2, <1>3
<1>5. ASSUME NEW k \in Nat, k \in P PROVE k + 1 \in P
  <2>1. ASSUME k + 1 <= n PROVE t[k + 1] = u[k + 1]
    <3>1. k <= n /\ k + 1 \in 1..n /\ k + 1 \in 1..Len(q) /\ (k + 1) - 1 = k
      BY <1>1, <2>1
    <3>2. t[k + 1] = CleanPart(t[k], p[k + 1], r) /\ u[k + 1] = CleanPart(u[k], q[k + 1], r)
      BY <1>2, <1>3, <3>1 DEF n
    <3>3. QED
      BY <1>1, <1>5, <3>1, <3>2
  <2>2. QED
    BY <2>1
<1>. HIDE DEF P
<1>6. n \in P
  BY <1>1, <1>4, <1>5, NumberInduction
<1>7. u[n] = CleanParts(p, r)
  BY <1>1, <1>2, <1>6 DEF P, n
<1>8. u[n + 1] = CleanPart(u[n], x, r)
  <2>1. n + 1 \in 1..Len(q) /\ (n + 1) - 1 = n
    BY <1>1
  <2>2. QED
    BY <1>1, <1>3, <2>1
<1>9. u[n + 1] = CleanParts(q, r)
  BY <1>1, <1>3
<1>10. QED
  BY <1>7, <1>8, <1>9 DEF q

LEMMA CleanEmpty == ASSUME NEW r \in BOOLEAN PROVE CleanParts(<<>>, r) = <<>>
  BY CleanTrace, EmptySeq

LEMMA CleanType ==
  ASSUME NEW p \in Seq(Texts), NEW r \in BOOLEAN PROVE CleanParts(p, r) \in Seq(Texts)
<1>. DEFINE P == {q \in Seq(Texts) : CleanParts(q, r) \in Seq(Texts)}
<1>1. <<>> \in P
  BY CleanEmpty, EmptySeq
<1>2. ASSUME NEW q \in Seq(Texts), NEW x \in Texts, q \in P PROVE Append(q, x) \in P
  BY <1>2, CleanUnfolds, CleanPartType, AppendProperties
<1>. HIDE DEF P
<1>3. p \in P
  BY <1>1, <1>2, AppendInduction
<1>4. QED
  BY <1>3 DEF P

\* What a clean path at the root is made of.
Names == Texts \ {".", ".."}

LEMMA NamesAreClean ==
  ASSUME NEW p \in Seq(Names), NEW r \in BOOLEAN PROVE CleanParts(p, r) = p
<1>. DEFINE P == {q \in Seq(Names) : CleanParts(q, r) = q}
<1>1. <<>> \in P
  BY CleanEmpty, EmptySeq
<1>2. ASSUME NEW q \in Seq(Names), NEW x \in Names, q \in P PROVE Append(q, x) \in P
  <2>1. q \in Seq(Texts) /\ x \in Texts /\ x \notin {".", ".."}
    BY SeqMonotonic DEF Names
  <2>2. CleanParts(Append(q, x), r) = CleanPart(q, x, r)
    BY <1>2, <2>1, CleanUnfolds
  <2>3. CleanPart(q, x, r) = Append(q, x)
    BY <2>1 DEF CleanPart
  <2>4. QED
    BY <2>2, <2>3, AppendProperties
<1>. HIDE DEF P
<1>3. p \in P
  BY <1>1, <1>2, AppendInduction
<1>4. QED
  BY <1>3 DEF P

\* At the root there are only names, and so there are of a path without "..".
LEMMA CleanIsNames ==
  ASSUME NEW T \in {Texts, Texts \ {".."}}, NEW p \in Seq(T), NEW r \in BOOLEAN, r \/ ".." \notin T
  PROVE  CleanParts(p, r) \in Seq(Names)
<1>. DEFINE P == {q \in Seq(T) : CleanParts(q, r) \in Seq(Names)}
<1>1. <<>> \in P
  BY CleanEmpty, EmptySeq
<1>2. ASSUME NEW q \in Seq(T), NEW x \in T, q \in P PROVE Append(q, x) \in P
  <2>. DEFINE c == CleanParts(q, r)
  <2>1. c \in Seq(Names) /\ q \in Seq(Texts) /\ x \in Texts /\ Append(q, x) \in Seq(T)
    BY <1>2, SeqMonotonic, AppendProperties
  <2>2. CleanParts(Append(q, x), r) = CleanPart(c, x, r)
    BY <2>1, CleanUnfolds
  <2>. HIDE DEF c
  <2>3. CASE x = "."
    BY <2>1, <2>2, <2>3 DEF CleanPart
  <2>4. CASE x \notin {".", ".."}
    <3>1. x \in Names
      BY <2>1, <2>4 DEF Names
    <3>2. Append(c, x) \in Seq(Names)
      BY <2>1, <3>1, AppendProperties
    <3>3. QED
      BY <2>1, <2>2, <2>4, <3>2 DEF CleanPart
  <2>5. CASE x = ".." /\ c = <<>>
    BY <1>2, <2>1, <2>2, <2>5 DEF CleanPart
  <2>6. CASE x = ".." /\ c # <<>>
    <3>1. Front(c) \in Seq(Names)
      BY <2>1, <2>6, FrontProperties
    <3>2. r
      BY <2>6
    <3>3. QED
      BY <2>1, <2>2, <2>6, <3>1, <3>2 DEF CleanPart
  <2>7. QED
    BY <2>3, <2>4, <2>5, <2>6
<1>. HIDE DEF P
<1>3. p \in P
  BY <1>1, <1>2, AppendInduction
<1>4. QED
  BY <1>3 DEF P

LEMMA CleanHasNoDot ==
  ASSUME NEW p \in Seq(Texts) PROVE CleanParts(p, FALSE) \in Seq(Texts \ {"."})
<1>. DEFINE N == Texts \ {"."}
            P == {q \in Seq(Texts) : CleanParts(q, FALSE) \in Seq(N)}
<1>1. <<>> \in P
  BY CleanEmpty, EmptySeq
<1>2. ASSUME NEW q \in Seq(Texts), NEW x \in Texts, q \in P PROVE Append(q, x) \in P
  <2>. DEFINE c == CleanParts(q, FALSE)
  <2>1. c \in Seq(N) /\ Append(q, x) \in Seq(Texts)
    BY <1>2, AppendProperties
  <2>2. CleanParts(Append(q, x), FALSE) = CleanPart(c, x, FALSE)
    BY <2>1, CleanUnfolds
  <2>. HIDE DEF c
  <2>3. CASE x = "."
    BY <2>1, <2>2, <2>3 DEF CleanPart
  <2>4. CASE x # "."
    <3>1. Append(c, x) \in Seq(N)
      BY <2>1, <2>4, AppendProperties
    <3>2. c # <<>> => Front(c) \in Seq(N)
      BY <2>1, FrontProperties
    <3>. HIDE DEF N
    <3>3. CleanPart(c, x, FALSE) \in Seq(N)
      BY <2>1, <2>4, <3>1, <3>2 DEF CleanPart
    <3>4. QED
      BY <2>1, <2>2, <3>3
  <2>5. QED
    BY <2>3, <2>4
<1>. HIDE DEF P
<1>3. p \in P
  BY <1>1, <1>2, AppendInduction
<1>4. QED
  BY <1>3 DEF P

\* Cleaning what is to be joined before joining changes nothing.
LEMMA CleanJoin ==
  ASSUME NEW w \in Seq(Texts), NEW p \in Seq(Texts)
  PROVE  CleanParts(w \o p, TRUE) = CleanParts(w \o CleanParts(p, FALSE), TRUE)
<1>. DEFINE P == {q \in Seq(Texts) : CleanParts(w \o q, TRUE) = CleanParts(w \o CleanParts(q, FALSE), TRUE)}
<1>1. <<>> \in P
  BY CleanEmpty, EmptySeq
<1>2. ASSUME NEW q \in Seq(Texts), NEW x \in Texts, q \in P PROVE Append(q, x) \in P
  <2>. DEFINE c == CleanParts(q, FALSE)
              a == CleanParts(w \o c, TRUE)
  <2>1. c \in Seq(Texts \ {"."}) /\ c \in Seq(Texts) /\ Append(q, x) \in Seq(Texts)
    BY CleanHasNoDot, CleanType, AppendProperties
  <2>2. ASSUME NEW s \in Seq(Texts), NEW y \in Texts
        PROVE  CleanParts(w \o Append(s, y), TRUE) = CleanPart(CleanParts(w \o s, TRUE), y, TRUE)
    <3>1. w \o s \in Seq(Texts)
      BY ConcatProperties
    <3>2. w \o Append(s, y) = Append(w \o s, y)
      <4>1. Append(s, y) = s \o <<y>> /\ <<y>> \in Seq(Texts)
        <5>1. Append(s, y) = s \o <<y>>
          BY AppendIsConcat
        <5>2. <<y>> \in Seq(Texts)
          BY OneIsSeq
        <5>3. QED
          BY <5>1, <5>2
      <4>2. Append(w \o s, y) = (w \o s) \o <<y>>
        BY <3>1, AppendIsConcat, SMTT(30)
      <4>3. (w \o s) \o <<y>> = w \o (s \o <<y>>)
        BY <4>1, ConcatAssociative, SMTT(30)
      <4>4. QED
        BY <4>1, <4>2, <4>3
    <3>3. QED
      BY <3>1, <3>2, CleanUnfolds
  <2>3. CleanParts(Append(q, x), FALSE) = CleanPart(c, x, FALSE)
    BY CleanUnfolds
  <2>4. CleanParts(w \o Append(q, x), TRUE) = CleanPart(a, x, TRUE)
    BY <1>2, <2>2
  <2>5. CleanParts(w \o Append(c, x), TRUE) = CleanPart(a, x, TRUE)
    BY <2>1, <2>2
  <2>6. ASSUME c # <<>>, Last(c) # ".." PROVE CleanPart(a, "..", TRUE) = CleanParts(w \o Front(c), TRUE)
    <3>1. PICK f \in Seq(Texts \ {"."}), l \in Texts \ {"."} : c = Append(f, l)
      BY <2>1, <2>6, SequenceEmptyOrAppend
    <3>2. Front(c) = f /\ Last(c) = l
      <4>. DEFINE N == Texts \ {"."}
      <4>1. f \in Seq(N) /\ l \in N
        OBVIOUS
      <4>. HIDE DEF N
      <4>2. Front(Append(f, l)) = f /\ Last(Append(f, l)) = l
        BY <4>1, FrontOfAppend
      <4>3. QED
        BY <3>1, <4>2
    <3>3. f \in Seq(Texts) /\ l \in Texts /\ l \notin {".", ".."}
      BY <2>6, <3>1, <3>2, SeqMonotonic
    <3>. DEFINE b == CleanParts(w \o f, TRUE)
    <3>4. b \in Seq(Texts)
      BY <3>3, ConcatProperties, CleanType
    <3>5. a = CleanPart(b, l, TRUE)
      BY <2>2, <3>1, <3>3
    <3>. HIDE DEF a, b, c
    <3>6. a = Append(b, l)
      BY <3>3, <3>5 DEF CleanPart
    <3>7. a # <<>> /\ Last(a) = l /\ Front(a) = b
      BY <3>3, <3>4, <3>6, FrontOfAppend
    <3>8. CleanPart(a, "..", TRUE) = b
      BY <3>3, <3>7 DEF CleanPart
    <3>9. QED
      BY <3>2, <3>8 DEF b
  <2>. HIDE DEF a, c
  <2>7. CleanParts(w \o CleanPart(c, x, FALSE), TRUE) = CleanPart(a, x, TRUE)
    <3>1. CASE x = "."
      BY <3>1 DEF CleanPart, a
    <3>2. CASE x \notin {".", ".."}
      BY <2>5, <3>2 DEF CleanPart
    <3>3. CASE x = ".." /\ c # <<>> /\ Last(c) # ".."
      BY <2>6, <3>3 DEF CleanPart
    <3>4. CASE x = ".." /\ ~(c # <<>> /\ Last(c) # "..")
      <4>1. CleanPart(c, x, FALSE) = Append(c, x)
        BY <3>4 DEF CleanPart
      <4>2. QED
        BY <2>5, <4>1
    <3>5. QED
      BY <3>1, <3>2, <3>3, <3>4
  <2>8. QED
    BY <2>1, <2>3, <2>4, <2>7
<1>. HIDE DEF P
<1>3. p \in P
  BY <1>1, <1>2, AppendInduction
<1>4. QED
  BY <1>3 DEF P

\* A relative path either goes up first or is made of names.
LEMMA CleanClimbsOrNames ==
  ASSUME NEW p \in Seq(Texts), ~Climbs(p) PROVE CleanParts(p, FALSE) \in Seq(Names)
<1>. DEFINE Up(c) == c # <<>> /\ Head(c) = ".."
            P == {q \in Seq(Texts) : Up(CleanParts(q, FALSE)) \/ CleanParts(q, FALSE) \in Seq(Names)}
<1>1. <<>> \in P
  BY CleanEmpty, EmptySeq
<1>2. ASSUME NEW q \in Seq(Texts), NEW x \in Texts, q \in P PROVE Append(q, x) \in P
  <2>. DEFINE c == CleanParts(q, FALSE)
  <2>1. c \in Seq(Texts) /\ (Up(c) \/ c \in Seq(Names)) /\ Append(q, x) \in Seq(Texts)
    BY <1>2, AppendProperties, CleanType
  <2>2. CleanParts(Append(q, x), FALSE) = CleanPart(c, x, FALSE)
    BY <2>1, CleanUnfolds
  <2>. HIDE DEF c
  <2>3. Up(CleanPart(c, x, FALSE)) \/ CleanPart(c, x, FALSE) \in Seq(Names)
    <3>1. CASE x = "."
      BY <2>1, <3>1 DEF CleanPart
    <3>2. Append(c, x) # <<>> /\ Head(Append(c, x)) = IF c = <<>> THEN x ELSE Head(c)
      BY <2>1, HeadTailAppend, AppendProperties
    <3>3. CASE x \notin {".", ".."}
      <4>1. CleanPart(c, x, FALSE) = Append(c, x)
        BY <3>3 DEF CleanPart
      <4>2. CASE Up(c)
        BY <3>2, <4>1, <4>2
      <4>3. CASE c \in Seq(Names)
        <5>1. x \in Names
          BY <3>3 DEF Names
        <5>2. Append(c, x) \in Seq(Names)
          BY <4>3, <5>1, AppendProperties
        <5>3. QED
          BY <4>1, <5>2
      <4>4. QED
        BY <2>1, <4>2, <4>3
    <3>4. CASE x = ".." /\ c # <<>> /\ Last(c) # ".."
      <4>1. CleanPart(c, x, FALSE) = Front(c)
        BY <3>4 DEF CleanPart
      <4>2. CASE Up(c)
        <5>1. /\ Front(c) \in Seq(Texts) /\ Len(Front(c)) = Len(c) - 1 /\ Len(c) \in Nat \ {0}
              /\ \A i \in 1..Len(c) - 1 : Front(c)[i] = c[i]
          BY <2>1, <3>4, FrontProperties
        <5>2. Len(c) # 1
          BY <3>4, <4>2 DEF Last
        <5>3. Front(c) # <<>> /\ Front(c)[1] = c[1]
          BY <5>1, <5>2, EmptySeq
        <5>4. Head(Front(c)) = Front(c)[1] /\ Head(c) = c[1]
          BY <2>1, <5>1, <5>3
        <5>5. QED
          BY <4>1, <4>2, <5>3, <5>4
      <4>3. CASE c \in Seq(Names)
        BY <3>4, <4>1, <4>3, FrontProperties
      <4>4. QED
        BY <2>1, <4>2, <4>3
    <3>5. CASE x = ".." /\ ~(c # <<>> /\ Last(c) # "..")
      <4>1. CleanPart(c, x, FALSE) = Append(c, x)
        BY <3>5 DEF CleanPart
      <4>2. CASE c = <<>> \/ Up(c)
        BY <3>2, <3>5, <4>1, <4>2
      <4>3. CASE c # <<>> /\ c \in Seq(Names)
        <5>1. Last(c) \in Names
          BY <4>3, EmptySeq, ElementOfSeq DEF Last
        <5>2. QED
          BY <3>5, <4>3, <5>1 DEF Names
      <4>4. QED
        BY <2>1, <4>2, <4>3
    <3>6. QED
      BY <3>1, <3>3, <3>4, <3>5
  <2>4. QED
    BY <2>1, <2>2, <2>3
<1>. HIDE DEF P
<1>3. p \in P
  BY <1>1, <1>2, AppendInduction
<1>4. QED
  BY <1>3 DEF P, Climbs

LEMMA CleanBelow ==
  ASSUME NEW w \in Seq(Names), NEW p \in Seq(Texts), ~Climbs(p)
  PROVE  LET c == CleanParts(p, FALSE)
         IN  c \in Seq(Names) /\ w \o c \in Seq(Names) /\ CleanParts(w \o p, TRUE) = w \o c
<1>1. w \in Seq(Texts) /\ CleanParts(p, FALSE) \in Seq(Names)
  BY CleanClimbsOrNames, SeqMonotonic DEF Names
<1>2. w \o CleanParts(p, FALSE) \in Seq(Names)
  BY <1>1, ConcatProperties
<1>3. QED
  BY <1>1, <1>2, CleanJoin, NamesAreClean

-----------------------------------------------------------------------------
(* Paths. *)

TextPaths == [root : {"", "/", "C:"}, parts : Seq(Texts)]

LEMMA PathsAreTextPaths == Paths \subseteq TextPaths
<1>1. ASSUME NEW p \in Seq(STRING) PROVE p \in Seq(Texts)
  BY SeqMonotonic DEF Texts
<1>2. QED
  BY <1>1 DEF Paths, TextPaths

\* What CleanPath makes of each kind of path.
LEMMA CleanShape ==
  ASSUME NEW root, NEW parts
  PROVE  LET path == [root |-> root, parts |-> parts] IN
         /\ root = "/" => CleanPath(path) = [root |-> "/", parts |-> CleanParts(parts, TRUE)]
         /\ root = "" => CleanPath(path) = [root |-> "", parts |-> CleanParts(parts, FALSE)]
         /\ root = "C:" => CleanPath(path) = path
<1>1. CASE root = "/"
  <2>1. (root = "/") = TRUE /\ root # "C:"
    BY <1>1
  <2>2. QED
    BY <2>1 DEF CleanPath
<1>2. CASE root = ""
  <2>1. (root = "/") = FALSE /\ root # "C:"
    BY <1>2
  <2>2. QED
    BY <2>1 DEF CleanPath
<1>3. CASE root = "C:"
  BY <1>3 DEF CleanPath
<1>4. QED
  BY <1>1, <1>2, <1>3

LEMMA PrefixOfConcat ==
  ASSUME NEW S, NEW w \in Seq(S), NEW t \in Seq(S)
  PROVE  IsPrefix(w, w \o t) /\ SubSeq(w \o t, Len(w) + 1, Len(w \o t)) = t
<1>. DEFINE d == w \o t
            n == Len(w)
            m == Len(t)
<1>1. n \in Nat /\ m \in Nat
  BY LenProperties
<1>2. d \in Seq(S) /\ Len(d) = n + m /\ \A i \in 1..n + m : d[i] = IF i <= n THEN w[i] ELSE t[i - n]
  BY ConcatProperties
<1>3. \A i \in 1..n + m : d[i] \in S
  BY <1>1, <1>2, ElementOfSeq
<1>. HIDE DEF d, n, m
<1>4. n <= Len(d)
  BY <1>1, <1>2
<1>5. SubSeq(d, 1, n) = SubSeq(w, 1, n)
  <2>1. SubSeq(w, 1, n) = w
    BY SubSeqFull DEF n
  <2>2. \A i \in 1..n : d[i] \in S
    BY <1>1, <1>3
  <2>3. /\ SubSeq(d, 1, n) \in Seq(S) /\ Len(SubSeq(d, 1, n)) = IF 1 <= n THEN n - 1 + 1 ELSE 0
        /\ \A i \in 1..n - 1 + 1 : SubSeq(d, 1, n)[i] = d[1 + i - 1]
    BY <1>1, <2>2, SubSeqProperties
  <2>4. Len(SubSeq(d, 1, n)) = n /\ \A i \in 1..n : SubSeq(d, 1, n)[i] = d[i]
    BY <1>1, <2>3
  <2>5. \A i \in 1..n : SubSeq(d, 1, n)[i] = w[i]
    BY <1>1, <1>2, <2>4
  <2>6. SubSeq(d, 1, n) = w
    BY <2>3, <2>4, <2>5, SeqEqual DEF n
  <2>7. QED
    BY <2>1, <2>6
<1>6. SubSeq(d, n + 1, Len(d)) = t
  <2>1. \A i \in n + 1..n + m : d[i] \in S
    BY <1>1, <1>3
  <2>. DEFINE u == SubSeq(d, n + 1, n + m)
  <2>2. /\ u \in Seq(S) /\ Len(u) = IF n + 1 <= n + m THEN n + m - (n + 1) + 1 ELSE 0
        /\ \A i \in 1..n + m - (n + 1) + 1 : u[i] = d[n + 1 + i - 1]
    BY <1>1, <2>1, SubSeqProperties
  <2>3. Len(u) = m
    BY <1>1, <2>2
  <2>4. \A i \in 1..m : u[i] = d[n + i]
    BY <1>1, <2>2
  <2>5. \A i \in 1..m : d[n + i] = t[i]
    BY <1>1, <1>2
  <2>. HIDE DEF u
  <2>6. u = t
    BY <2>2, <2>3, <2>4, <2>5, SeqEqual DEF m
  <2>7. QED
    BY <1>2, <2>6 DEF u
<1>7. QED
  BY <1>4, <1>5, <1>6 DEF IsPrefix, d, n

LEMMA TailType ==
  ASSUME NEW S, NEW s \in Seq(S), NEW m \in Nat \ {0}
  PROVE  SubSeq(s, m, Len(s)) \in Seq(S)
<1>1. Len(s) \in Nat
  BY LenProperties
<1>2. \A i \in m..Len(s) : s[i] \in S
  BY <1>1, ElementOfSeq
<1>3. QED
  BY <1>1, <1>2, SubSeqProperties

LEMMA PrefixRest ==
  ASSUME NEW S, NEW w \in Seq(S), NEW d \in Seq(S), IsPrefix(w, d)
  PROVE  SubSeq(d, Len(w) + 1, Len(d)) \in Seq(S) /\ d = w \o SubSeq(d, Len(w) + 1, Len(d))
<1>. DEFINE n == Len(w)
            rest == SubSeq(d, n + 1, Len(d))
<1>1. n \in Nat /\ Len(d) \in Nat /\ n <= Len(d)
  BY LenProperties DEF IsPrefix
<1>2. rest \in Seq(S)
  BY <1>1, TailType
<1>3. SubSeq(d, 1, n) = w
  BY SubSeqFull DEF IsPrefix
<1>4. SubSeq(d, 1, n) \o SubSeq(d, n + 1, Len(d)) = SubSeq(d, 1, Len(d))
  <2>1. 1 \in 1..Len(d) + 1 /\ n \in (1 - 1)..Len(d) /\ Len(d) \in n..Len(d)
    BY <1>1
  <2>2. QED
    BY <2>1, ConcatAdjacentSubSeq
<1>5. SubSeq(d, 1, Len(d)) = d
  BY SubSeqFull
<1>6. QED
  BY <1>2, <1>3, <1>4, <1>5

LEMMA MinOfNumbers ==
  ASSUME NEW s \in SUBSET Nat, s # {} PROVE Min(s) \in s
<1>1. PICK x \in s : \A y \in s : x <= y
  BY Least
<1>2. QED
  BY <1>1 DEF Min

LEMMA WorkdirIsClean ==
  Workdir \in Seq(Names) /\ Workdir \in Seq(Texts)
<1>1. Workdir \in Seq(Names)
  <2>1. Workdir \in Seq(STRING \ {".", ".."}) /\ STRING \ {".", ".."} \subseteq Names
    BY ToolCallsAssumption DEF Names, Texts
  <2>2. QED
    BY <2>1, SeqMonotonic
<1>2. QED
  BY <1>1, SeqMonotonic DEF Names

\* What does not go up from the working directory ends inside it.
LEMMA InWorkdirInside ==
  ASSUME NEW tail \in Seq(Texts), ~Climbs(tail)
  PROVE  LET path == InWorkdir(tail) IN
         /\ path = [root |-> "/", parts |-> Workdir \o CleanParts(tail, FALSE)]
         /\ path \in TextPaths /\ CleanPath(path) = path /\ sameOrWithinPath(path)
<1>. DEFINE c == CleanParts(tail, FALSE)
            path == InWorkdir(tail)
<1>1. c \in Seq(Names) /\ Workdir \o c \in Seq(Names) /\ CleanParts(Workdir \o tail, TRUE) = Workdir \o c
  BY WorkdirIsClean, CleanBelow
<1>2. path = [root |-> "/", parts |-> Workdir \o c]
  BY <1>1 DEF InWorkdir, Local
<1>. HIDE DEF c, path
<1>3. Workdir \o c \in Seq(Texts)
  BY <1>1, SeqMonotonic DEF Names
<1>4. path \in TextPaths
  BY <1>2, <1>3 DEF TextPaths
<1>5. CleanParts(Workdir \o c, TRUE) = Workdir \o c
  BY <1>1, NamesAreClean
<1>6. CleanPath(path) = path
  BY <1>2, <1>5, CleanShape
<1>7. IsPrefix(Workdir, Workdir \o c)
  BY <1>1, WorkdirIsClean, PrefixOfConcat
<1>8. sameOrWithinPath(path)
  <2>1. path.root = "/" /\ CleanPath(path).parts = Workdir \o c
    <3>1. path.root = "/" /\ path.parts = Workdir \o c
      BY <1>2
    <3>2. QED
      BY <1>6, <3>1
  <2>2. QED
    BY <1>7, <2>1 DEF sameOrWithinPath
<1>9. QED
  BY <1>2, <1>4, <1>6, <1>8 DEF c, path

\* Parts that do not go up.
Level == Texts \ {".."}

LEMMA LevelInside ==
  ASSUME NEW tail \in Seq(Level)
  PROVE  InWorkdir(tail) \in TextPaths /\ sameOrWithinPath(InWorkdir(tail))
<1>1. tail \in Seq(Texts)
  BY SeqMonotonic DEF Level
<1>2. CleanParts(tail, FALSE) \in Seq(Names)
  BY CleanIsNames DEF Level
<1>3. ~Climbs(tail)
  <2>. DEFINE c == CleanParts(tail, FALSE)
  <2>. HIDE DEF c
  <2>1. ASSUME c # <<>>, c \in Seq(Names) PROVE Head(c) \in Names
    BY <2>1, HeadTailProperties
  <2>2. QED
    BY <1>2, <2>1 DEF c, Climbs, Names
<1>4. QED
  BY <1>1, <1>3, InWorkdirInside

LEMMA SplitIsLevel ==
  ASSUME NEW path \in TextPaths, path.root # "", ~ClimbsOut(path)
  PROVE  splitPathSegments(path) \in Seq(Level) /\ (path.root = "C:" => path.parts \in Seq(Level))
<1>1. path.root \in {"/", "C:"} /\ path.parts \in Seq(Texts)
  BY DEF TextPaths
<1>2. CASE path.root = "/"
  <2>1. CleanPath(path).parts = CleanParts(path.parts, TRUE)
    BY <1>1, <1>2 DEF CleanPath, TextPaths
  <2>2. CleanParts(path.parts, TRUE) \in Seq(Names)
    BY <1>1, CleanIsNames
  <2>3. CleanParts(path.parts, TRUE) \in Seq(Level)
    <3>1. Names \subseteq Level
      BY DEF Names, Level
    <3>2. QED
      BY <2>2, <3>1, SeqMonotonic
  <2>4. splitPathSegments(path) = <<>> \o CleanParts(path.parts, TRUE)
    BY <1>2, <2>1 DEF splitPathSegments
  <2>5. QED
    BY <1>2, <2>3, <2>4, ConcatEmptySeq
<1>3. CASE path.root = "C:"
  <2>1. path.parts \in Seq(Level)
    <3>1. ".." \notin {path.parts[i] : i \in DOMAIN path.parts}
      BY <1>3 DEF ClimbsOut, ToSet
    <3>2. Len(path.parts) \in Nat /\ path.parts \in [1..Len(path.parts) -> Texts] /\ DOMAIN path.parts = 1..Len(path.parts)
      BY <1>1, LenProperties
    <3>3. path.parts \in [1..Len(path.parts) -> Level]
      BY <3>1, <3>2 DEF Level
    <3>4. QED
      BY <3>2, <3>3, SeqDef
  <2>2. <<"C:">> \in Seq(Level)
    <3>1. "C:" \in Level
      BY DEF Level, Texts
    <3>2. QED
      BY <3>1, OneIsSeq
  <2>3. splitPathSegments(path) = <<"C:">> \o path.parts
    BY <1>3 DEF splitPathSegments, CleanPath
  <2>4. QED
    BY <2>1, <2>2, <2>3, ConcatProperties
<1>4. QED
  BY <1>1, <1>2, <1>3

LEMMA FromTheEnd == ASSUME NEW n \in Nat, NEW m \in 1..n PROVE n - m + 1 \in Nat \ {0}
  OBVIOUS

LEMMA ExistingTailInside ==
  ASSUME NEW path \in TextPaths, path.root # "", ~ClimbsOut(path)
  PROVE  LET found == ExistingTail(path) IN
         found = path \/ (found \in TextPaths /\ sameOrWithinPath(found))
<1>. DEFINE parts == splitPathSegments(path)
            n == Len(parts)
            tails == {k \in 1..Len(parts) : k <= 4 /\ pathExists(InWorkdir(SubSeq(parts, Len(parts) - k + 1, Len(parts))))}
            tail == SubSeq(parts, n - Max(tails) + 1, n)
<1>1. parts \in Seq(Level) /\ n \in Nat
  BY SplitIsLevel, LenProperties
<1>2. CASE tails = {}
  <2>1. ExistingTail(path) = path
    BY <1>2 DEF ExistingTail
  <2>2. QED
    BY <2>1
<1>3. CASE tails # {}
  <2>1. tails \in SUBSET (1..n)
    OBVIOUS
  <2>. HIDE DEF tails, n, parts
  <2>2. Max(tails) \in 1..n
    BY <1>1, <1>3, <2>1, MaxOfNumbers
  <2>3. n - Max(tails) + 1 \in Nat \ {0}
    <3>1. n \in Nat
      BY <1>1
    <3>2. QED
      BY <2>2, <3>1, FromTheEnd
  <2>4. tail \in Seq(Level)
    BY <1>1, <2>3, TailType DEF n
  <2>5. ExistingTail(path) = InWorkdir(tail)
    BY <1>3 DEF ExistingTail, tails, n, parts
  <2>6. QED
    BY <2>4, <2>5, LevelInside
<1>4. QED
  BY <1>2, <1>3

LEMMA AfterSegmentInside ==
  ASSUME NEW parts \in Seq(Level), NEW segment
  PROVE  LET found == rebaseWritePathAfterSegment(parts, segment) IN
         found = NoPath \/ (found \in TextPaths /\ sameOrWithinPath(found))
<1>. DEFINE at == {i \in DOMAIN parts : parts[i] = segment}
            tail == SubSeq(parts, Min(at) + 1, Len(parts))
<1>1. CASE at = {}
  BY <1>1 DEF rebaseWritePathAfterSegment
<1>2. CASE at # {}
  <2>1. at \in SUBSET Nat
    BY LenProperties
  <2>2. Min(at) \in Nat
    BY <1>2, <2>1, MinOfNumbers
  <2>. HIDE DEF at
  <2>3. tail \in Seq(Level)
    BY <2>2, TailType
  <2>4. InWorkdir(tail) \in TextPaths /\ sameOrWithinPath(InWorkdir(tail))
    BY <2>3, LevelInside
  <2>5. rebaseWritePathAfterSegment(parts, segment) \in {InWorkdir(tail), NoPath}
    BY DEF rebaseWritePathAfterSegment, at
  <2>6. QED
    BY <2>4, <2>5
<1>3. QED
  BY <1>1, <1>2

\* A path that is moved is moved inside.
LEMMA RebaseInside ==
  ASSUME NEW path \in TextPaths, ~ClimbsOut(path)
  PROVE  LET found == rebaseAbsolutePathToWorkdir(path) IN
         found = path \/ (found \in TextPaths /\ sameOrWithinPath(found))
<1>1. CASE OfProject(path)
  <2>. DEFINE tail == SubSeq(path.parts, 5, Len(path.parts))
  <2>1. path.parts \in Seq(Texts) /\ ~Climbs(tail)
    BY <1>1 DEF TextPaths, ClimbsOut
  <2>2. tail \in Seq(Texts)
    BY <2>1, TailType
  <2>. HIDE DEF tail
  <2>3. InWorkdir(tail) \in TextPaths /\ sameOrWithinPath(InWorkdir(tail))
    BY <2>1, <2>2, InWorkdirInside
  <2>4. rebaseAbsolutePathToWorkdir(path) = InWorkdir(tail)
    BY <1>1 DEF rebaseAbsolutePathToWorkdir, rebaseSandboxPathToWorkdir, tail
  <2>5. QED
    BY <2>3, <2>4
<1>2. CASE ~OfProject(path) /\ isPlaceholderDirectoryListPath(path)
  <2>1. Workdir \o <<>> = Workdir
    BY WorkdirIsClean, ConcatEmptySeq
  <2>2. rebaseAbsolutePathToWorkdir(path) = InWorkdir(<<>>)
    BY <1>2, <2>1 DEF rebaseAbsolutePathToWorkdir, InWorkdir
  <2>3. QED
    BY <2>2, LevelInside, EmptySeq
<1>3. CASE ~OfProject(path) /\ ~isPlaceholderDirectoryListPath(path)
  <2>1. rebaseAbsolutePathToWorkdir(path) =
          IF ~isToolAbsolutePath(path) \/ sameOrWithinPath(path) THEN path ELSE ExistingTail(path)
    BY <1>3 DEF rebaseAbsolutePathToWorkdir
  <2>2. isToolAbsolutePath(path) => path.root # ""
    BY DEF isToolAbsolutePath
  <2>3. QED
    BY <2>1, <2>2, ExistingTailInside
<1>4. QED
  BY <1>1, <1>2, <1>3

LEMMA RebaseWriteInside ==
  ASSUME NEW path \in TextPaths, ~ClimbsOut(path)
  PROVE  LET found == rebaseAbsoluteWritePathToWorkdir(path) IN
         /\ found = path \/ (found \in TextPaths /\ sameOrWithinPath(found))
         /\ isToolAbsolutePath(path) /\ splitPathSegments(path) # <<>> => sameOrWithinPath(found)
<1>. DEFINE parts == splitPathSegments(path)
            ofProject == rebaseWritePathAfterSegment(parts, Last(Workdir))
            other == rebaseWritePathAfterSegment(parts, "project")
            stays == ~isToolAbsolutePath(path) \/ sameOrWithinPath(path) \/ parts = <<>>
            found == rebaseAbsoluteWritePathToWorkdir(path)
<1>1. CASE stays
  <2>1. found = path
    BY <1>1 DEF rebaseAbsoluteWritePathToWorkdir
  <2>2. QED
    BY <1>1, <2>1
<1>2. CASE ~stays
  <2>1. path.root # ""
    BY <1>2 DEF isToolAbsolutePath
  <2>2. parts \in Seq(Level)
    BY <2>1, SplitIsLevel
  <2>3. /\ ofProject = NoPath \/ (ofProject \in TextPaths /\ sameOrWithinPath(ofProject))
        /\ other = NoPath \/ (other \in TextPaths /\ sameOrWithinPath(other))
    BY <2>2, AfterSegmentInside
  <2>4. Base(path) \in Seq(Level)
    <3>1. CASE path.root = "C:"
      <4>1. "C:..." \in Level
        BY DEF Level, Texts
      <4>2. QED
        BY <3>1, <4>1, OneIsSeq DEF Base
    <3>2. CASE path.root # "C:"
      <4>. DEFINE c == CleanPath(path).parts
      <4>1. parts = <<>> \o c
        BY <3>2 DEF splitPathSegments
      <4>2. path.root = "/" /\ path.parts \in Seq(Texts)
        BY <2>1, <3>2 DEF TextPaths
      <4>3. c = CleanParts(path.parts, TRUE)
        BY <4>2 DEF CleanPath, TextPaths
      <4>4. c \in Seq(Names)
        BY <4>2, <4>3, CleanIsNames
      <4>5. c # <<>>
        BY <1>2, <4>1, <4>4, ConcatEmptySeq
      <4>6. Last(c) \in Names
        <5>. HIDE DEF c
        <5>1. Len(c) \in 1..Len(c)
          BY <4>4, <4>5, EmptySeq
        <5>2. QED
          BY <4>4, <5>1, ElementOfSeq DEF Last
      <4>7. Last(c) \in Level
        BY <4>6 DEF Names, Level
      <4>8. Base(path) = <<Last(c)>>
        BY <3>2 DEF Base
      <4>. HIDE DEF c
      <4>9. QED
        BY <4>7, <4>8, OneIsSeq
    <3>3. QED
      BY <3>1, <3>2
  <2>5. InWorkdir(Base(path)) \in TextPaths /\ sameOrWithinPath(InWorkdir(Base(path)))
    BY <2>4, LevelInside
  <2>6. found = IF ofProject # NoPath THEN ofProject ELSE IF other # NoPath THEN other ELSE InWorkdir(Base(path))
    BY <1>2 DEF rebaseAbsoluteWritePathToWorkdir
  <2>. HIDE DEF ofProject, other, found, parts, stays
  <2>7. found \in TextPaths /\ sameOrWithinPath(found)
    BY <2>3, <2>5, <2>6
  <2>8. QED
    BY <2>7 DEF found
<1>3. QED
  BY <1>1, <1>2

-----------------------------------------------------------------------------
(* Calls. *)

FileTools == {"Read", "Edit", "Write"}

CallOf(name, filePath, path, body, command) ==
  [name |-> name, filePath |-> filePath, path |-> path, body |-> body, command |-> command]

LEMMA CallShape ==
  ASSUME NEW call \in Calls \cup Earlier
  PROVE  /\ call = CallOf(call.name, call.filePath, call.path, call.body, call.command)
         /\ call.filePath \in Paths \cup {NoPath} /\ call.path \in Paths \cup {NoPath}
<1>. DEFINE Cs == {c.command : c \in Calls \cup Earlier}
<1>1. call \in [name : STRING, filePath : Paths \cup {NoPath}, path : Paths \cup {NoPath}, body : STRING, command : Cs]
  BY ToolCallsAssumption
<1>. HIDE DEF Cs
<1>2. QED
  BY <1>1 DEF CallOf

\* A file tool's call keeps its text; its path is what was asked for, moved.
LEMMA FileCall ==
  ASSUME NEW n, NEW f, NEW p, NEW b, NEW c, ~isDirectoryListToolName(n), NormalizeToolNameFallback(n) \in FileTools
  PROVE  LET call  == CallOf(n, f, p, b, c)
             name  == NormalizeToolNameFallback(n)
             asked == resolveToolPath(call)
         IN  normalizeUpstreamToolCall(call) = CallOf(name, Rebased(asked, name), NoPath, b, c)
<1>. DEFINE call  == CallOf(n, f, p, b, c)
            name  == NormalizeToolNameFallback(n)
            asked == resolveToolPath(call)
<1>1. [call EXCEPT !.name = name] = CallOf(name, f, p, b, c) /\ call.name = n
  BY DEF CallOf
<1>. HIDE DEF name
<1>2. name \in {"Write", "Edit", "Read"} /\ name # "Bash"
  BY DEF FileTools, name
<1>3. asked = IF f # NoPath THEN f ELSE p
  BY DEF resolveToolPath, CallOf
<1>4. sanitizeToolInput(CallOf(name, f, p, b, c)) = CallOf(name, asked, NoPath, b, c)
  <2>1. CASE p # NoPath
    BY <1>2, <1>3, <2>1 DEF sanitizeToolInput, CallOf
  <2>2. CASE p = NoPath
    <3>1. asked = f
      BY <1>3, <2>2
    <3>2. sanitizeToolInput(CallOf(name, f, p, b, c)) = CallOf(name, f, p, b, c)
      BY <2>2 DEF sanitizeToolInput, CallOf
    <3>3. QED
      BY <2>2, <3>1, <3>2
  <2>3. QED
    BY <2>1, <2>2
<1>5. Named(call) = CallOf(name, asked, NoPath, b, c)
  BY <1>1, <1>4 DEF Named, name
<1>. HIDE DEF asked, call
<1>6. Rebased(NoPath, name) = NoPath
  BY DEF Rebased
<1>7. rewriteForeignAbsoluteToolPathInput(CallOf(name, asked, NoPath, b, c)) = CallOf(name, Rebased(asked, name), NoPath, b, c)
  <2>. DEFINE k == CallOf(name, asked, NoPath, b, c)
              g == Rebased(asked, name)
              h == Rebased(NoPath, name)
  <2>1. rewriteForeignAbsoluteToolPathInput(k) = [k EXCEPT !.filePath = g, !.path = h]
    BY DEF rewriteForeignAbsoluteToolPathInput, CallOf
  <2>. HIDE DEF g, h
  <2>2. [k EXCEPT !.filePath = g] = CallOf(name, g, NoPath, b, c)
    BY DEF CallOf
  <2>3. [CallOf(name, g, NoPath, b, c) EXCEPT !.path = h] = CallOf(name, g, h, b, c)
    BY DEF CallOf
  <2>4. [k EXCEPT !.filePath = g, !.path = h] = [[k EXCEPT !.filePath = g] EXCEPT !.path = h]
    OBVIOUS
  <2>. HIDE DEF k
  <2>5. QED
    BY <1>6, <2>1, <2>2, <2>3, <2>4 DEF g, h, k
<1>8. CallOf(name, asked, NoPath, b, c).name = name
  BY DEF CallOf
<1>9. NormalizeNamed(CallOf(name, asked, NoPath, b, c)) = CallOf(name, Rebased(asked, name), NoPath, b, c)
  BY <1>2, <1>7, <1>8 DEF NormalizeNamed
<1>10. normalizeUpstreamToolCall(call) = CallOf(name, Rebased(asked, name), NoPath, b, c)
  BY <1>1, <1>5, <1>9 DEF normalizeUpstreamToolCall
<1>11. QED
  BY <1>10 DEF asked, call, name

\* A call that comes out for a file tool went in as one.
LEMMA FileCallOnly ==
  ASSUME NEW n, NEW f, NEW p, NEW b, NEW c,
         normalizeUpstreamToolCall(CallOf(n, f, p, b, c)).name \in FileTools
  PROVE  ~isDirectoryListToolName(n) /\ NormalizeToolNameFallback(n) \in FileTools
<1>. DEFINE call == CallOf(n, f, p, b, c)
            name == NormalizeToolNameFallback(n)
            out  == normalizeUpstreamToolCall(call)
<1>1. CASE isDirectoryListToolName(n)
  <2>1. out = rewriteDirectoryListToolInput(call)
    BY <1>1 DEF normalizeUpstreamToolCall, CallOf
  <2>2. out.name = "Bash"
    BY <2>1 DEF rewriteDirectoryListToolInput, CallOf
  <2>3. QED
    BY <2>2 DEF FileTools
<1>2. CASE ~isDirectoryListToolName(n)
  <2>1. out = NormalizeNamed(Named(call))
    BY <1>2 DEF normalizeUpstreamToolCall, CallOf
  <2>2. \E g, q : Named(call) = CallOf(name, g, q, b, c)
    <3>1. [call EXCEPT !.name = NormalizeToolNameFallback(@)] = CallOf(name, f, p, b, c)
      BY DEF CallOf
    <3>. HIDE DEF name, call
    <3>2. sanitizeToolInput(CallOf(name, f, p, b, c)) = CallOf(name, f, p, b, c)
            \/ \E g : sanitizeToolInput(CallOf(name, f, p, b, c)) = CallOf(name, g, NoPath, b, c)
      BY DEF sanitizeToolInput, CallOf
    <3>3. QED
      BY <3>1, <3>2 DEF Named
  <2>3. PICK g, q : Named(call) = CallOf(name, g, q, b, c)
    BY <2>2
  <2>. HIDE DEF name, call
  <2>4. NormalizeNamed(CallOf(name, g, q, b, c)).name = name
    BY DEF NormalizeNamed, CallOf, rewriteForeignAbsoluteToolPathInput
  <2>5. QED
    BY <1>2, <2>1, <2>3, <2>4 DEF name, call
<1>3. QED
  BY <1>1, <1>2

LEMMA RebasedInside ==
  ASSUME NEW asked \in Paths, ~ClimbsOut(asked), NEW name \in FileTools
  PROVE  LET path == Rebased(asked, name) IN
         /\ path = asked \/ sameOrWithinPath(path)
         /\ name = "Write" /\ isToolAbsolutePath(asked) /\ splitPathSegments(asked) # <<>> => sameOrWithinPath(path)
<1>. DEFINE r == rebaseAbsolutePathToWorkdir(asked)
            w == rebaseAbsoluteWritePathToWorkdir(asked)
            path == Rebased(asked, name)
<1>1. asked \in TextPaths /\ asked # NoPath
  BY PathsAreTextPaths, ToolCallsAssumption
<1>2. r = asked \/ sameOrWithinPath(r)
  BY <1>1, RebaseInside
<1>3. /\ w = asked \/ sameOrWithinPath(w)
      /\ isToolAbsolutePath(asked) /\ splitPathSegments(asked) # <<>> => sameOrWithinPath(w)
  BY <1>1, RebaseWriteInside
<1>4. path = IF r = asked /\ name = "Write" THEN w ELSE r
  BY <1>1 DEF Rebased, RebasedWrite
<1>. HIDE DEF r, w, path
<1>5. QED
  BY <1>2, <1>3, <1>4 DEF path

\* What lies inside stays, unless it looks like a path of the sandbox.
LEMMA RebasedStays ==
  ASSUME NEW path, path # NoPath, sameOrWithinPath(path), ~OfProject(path), ~isPlaceholderDirectoryListPath(path), NEW name
  PROVE  Rebased(path, name) = path
<1>1. rebaseAbsolutePathToWorkdir(path) = path
  BY DEF rebaseAbsolutePathToWorkdir
<1>2. rebaseAbsoluteWritePathToWorkdir(path) = path
  BY DEF rebaseAbsoluteWritePathToWorkdir
<1>3. QED
  BY <1>1, <1>2 DEF Rebased, RebasedWrite

\* RewrittenStaysInside of one call.
StaysInside(upstream, call) ==
  LET asked == resolveToolPath(upstream)
      path  == resolveToolPath(call)
  IN  call.name \in {"Read", "Edit", "Write"} /\ ~ClimbsOut(asked) =>
        /\ path # asked => sameOrWithinPath(path)
        /\ call.name = "Write" /\ isToolAbsolutePath(asked) /\ splitPathSegments(asked) # <<>> => sameOrWithinPath(path)
        /\ ~OfProject(path) /\ ~isPlaceholderDirectoryListPath(path) => normalizeUpstreamToolCall(call) = call

LEMMA OneStaysInside ==
  ASSUME NEW u \in Calls, Fits(normalizeUpstreamToolCall(u))
  PROVE  StaysInside(u, normalizeUpstreamToolCall(u))
<1>. DEFINE call  == normalizeUpstreamToolCall(u)
            asked == resolveToolPath(u)
            path  == resolveToolPath(call)
<1>1. SUFFICES ASSUME call.name \in FileTools, ~ClimbsOut(asked)
      PROVE  /\ path # asked => sameOrWithinPath(path)
             /\ call.name = "Write" /\ isToolAbsolutePath(asked) /\ splitPathSegments(asked) # <<>> => sameOrWithinPath(path)
             /\ ~OfProject(path) /\ ~isPlaceholderDirectoryListPath(path) => normalizeUpstreamToolCall(call) = call
  BY DEF StaysInside, FileTools
<1>2. u = CallOf(u.name, u.filePath, u.path, u.body, u.command)
  BY CallShape
<1>. DEFINE name == NormalizeToolNameFallback(u.name)
<1>3. ~isDirectoryListToolName(u.name) /\ name \in FileTools
  BY <1>1, <1>2, FileCallOnly
<1>4. call = CallOf(name, Rebased(asked, name), NoPath, u.body, u.command)
  BY <1>2, <1>3, FileCall
<1>. HIDE DEF call, asked, name
<1>5. path = Rebased(asked, name) /\ call.name = name
  BY <1>4 DEF resolveToolPath, CallOf
<1>6. path # NoPath
  <2>1. Fits(call) /\ call.name \in FileTools
    BY <1>1 DEF call
  <2>2. QED
    BY <2>1 DEF Fits, hasRequiredToolInputFields, FileTools
<1>7. asked # NoPath
  BY <1>5, <1>6 DEF Rebased
<1>8. asked \in Paths
  BY <1>7, CallShape DEF asked, resolveToolPath
<1>9. /\ path = asked \/ sameOrWithinPath(path)
      /\ name = "Write" /\ isToolAbsolutePath(asked) /\ splitPathSegments(asked) # <<>> => sameOrWithinPath(path)
  BY <1>1, <1>3, <1>5, <1>8, RebasedInside
<1>10. ASSUME ~OfProject(path), ~isPlaceholderDirectoryListPath(path)
       PROVE  normalizeUpstreamToolCall(call) = call
  <2>1. Rebased(path, name) = path
    BY <1>5, <1>6, <1>9, <1>10, RebasedStays
  <2>2. ~isDirectoryListToolName(name) /\ NormalizeToolNameFallback(name) = name
    BY <1>3 DEF FileTools, isDirectoryListToolName, NormalizeToolNameFallback
  <2>3. call = CallOf(name, path, NoPath, u.body, u.command)
    BY <1>4, <1>5
  <2>4. normalizeUpstreamToolCall(call) = CallOf(name, Rebased(path, name), NoPath, u.body, u.command)
    BY <1>3, <2>2, <2>3, FileCall
  <2>5. QED
    BY <2>1, <2>3, <2>4
<1>11. QED
  BY <1>5, <1>9, <1>10 DEF call, asked

-----------------------------------------------------------------------------
(* The reply. *)

Answers == {[asked |-> u, call |-> normalizeUpstreamToolCall(u)] : u \in Calls}

ToolTypeOK ==
  /\ given \in Seq({answer \in Answers : Fits(answer.call)})
  /\ dropped \in Seq({normalizeUpstreamToolCall(u) : u \in Calls})

\* One call: taken for a repeated one, given, or neither.
LEMMA Accepts ==
  ASSUME NEW u \in Calls, ToolCall(u)
  PROVE  LET call == normalizeUpstreamToolCall(u)
             key  == IF Fits(call) THEN sideEffectToolDedupKeyFromFields(call) ELSE NoKey
         IN  /\ toolPc = "reply" /\ UNCHANGED <<toolPc, conversation>>
             /\ \/ /\ key # NoKey /\ key \in dedup /\ dropped' = Append(dropped, call) /\ UNCHANGED <<dedup, given>>
                \/ /\ key = NoKey \/ key \notin dedup
                   /\ given' = IF Fits(call) THEN Append(given, [asked |-> u, call |-> call]) ELSE given
                   /\ dedup' = dedup \cup ({key} \ {NoKey}) /\ UNCHANGED dropped
  BY DEF ToolCall, shouldAcceptToolCall

LEMMA ToolTypeStep == ToolTypeOK /\ [ToolsNext]_toolVars => ToolTypeOK'
<1>. SUFFICES ASSUME ToolTypeOK, [ToolsNext]_toolVars PROVE ToolTypeOK'
  OBVIOUS
<1>. DEFINE A == {answer \in Answers : Fits(answer.call)}
            D == {normalizeUpstreamToolCall(u) : u \in Calls}
<1>1. given \in Seq(A) /\ dropped \in Seq(D)
  BY DEF ToolTypeOK
<1>2. CASE UNCHANGED <<given, dropped>>
  BY <1>1, <1>2 DEF ToolTypeOK
<1>3. CASE \E u \in Calls : ToolCall(u)
  <2>1. PICK u \in Calls : ToolCall(u)
    BY <1>3
  <2>. DEFINE call == normalizeUpstreamToolCall(u)
              key  == IF Fits(call) THEN sideEffectToolDedupKeyFromFields(call) ELSE NoKey
              answer == [asked |-> u, call |-> call]
  <2>2. call \in D /\ (Fits(call) => answer \in A)
    BY DEF Answers
  <2>3. \/ dropped' = Append(dropped, call) /\ given' = given
        \/ given' = (IF Fits(call) THEN Append(given, answer) ELSE given) /\ dropped' = dropped
    BY <2>1, Accepts
  <2>. HIDE DEF A, D, call, answer
  <2>4. given' \in Seq(A)
    BY <1>1, <2>2, <2>3, AppendProperties
  <2>5. dropped' \in Seq(D)
    BY <1>1, <2>2, <2>3, AppendProperties
  <2>6. QED
    BY <2>4, <2>5 DEF ToolTypeOK, A, D
<1>4. QED
  BY <1>2, <1>3 DEF ToolsNext, Say, Use, Result, Extend, seedSideEffectDedupFromMessages, Reply, toolVars

LEMMA ToolType == ToolsSpec => []ToolTypeOK
<1>1. ToolsInit => ToolTypeOK
  BY EmptySeq DEF ToolsInit, ToolTypeOK
<1>2. QED
  BY <1>1, ToolTypeStep, PTL DEF ToolsSpec

\* RewrittenStaysInside, for any calls, files and working directory: what the client is
\* asked to write, edit or read in the place of another path lies inside.
THEOREM RewrittenAlwaysInside == ToolsSpec => []RewrittenStaysInside
<1>1. ToolTypeOK => RewrittenStaysInside
  <2>. SUFFICES ASSUME ToolTypeOK, NEW i \in DOMAIN given PROVE StaysInside(given[i].asked, given[i].call)
    BY DEF RewrittenStaysInside, StaysInside
  <2>. DEFINE A == {answer \in Answers : Fits(answer.call)}
  <2>1. given \in Seq(A) /\ i \in 1..Len(given)
    BY LenProperties DEF ToolTypeOK
  <2>. HIDE DEF A
  <2>2. given[i] \in A
    BY <2>1, ElementOfSeq
  <2>3. PICK u \in Calls : given[i] = [asked |-> u, call |-> normalizeUpstreamToolCall(u)] /\ Fits(given[i].call)
    BY <2>2 DEF A, Answers
  <2>4. Fits(normalizeUpstreamToolCall(u)) /\ given[i].asked = u /\ given[i].call = normalizeUpstreamToolCall(u)
    BY <2>3
  <2>5. QED
    BY <2>4, OneStaysInside
<1>2. QED
  BY <1>1, ToolType, PTL

-----------------------------------------------------------------------------
(* Keys. *)

LEMMA LocalType ==
  ASSUME NEW parts \in Seq(Texts) PROVE Local(parts) \in TextPaths
  BY CleanType DEF Local, TextPaths

LEMMA InWorkdirType ==
  ASSUME NEW tail \in Seq(Texts) PROVE InWorkdir(tail) \in TextPaths
<1>1. Workdir \o tail \in Seq(Texts)
  BY WorkdirIsClean, ConcatProperties
<1>2. QED
  BY <1>1, LocalType DEF InWorkdir

LEMMA CleanPathType ==
  ASSUME NEW path \in TextPaths
  PROVE  /\ CleanPath(path) \in TextPaths /\ splitPathSegments(path) \in Seq(Texts) /\ path.parts \in Seq(Texts)
         /\ path = [root |-> path.root, parts |-> path.parts] /\ path.root \in {"", "/", "C:"}
<1>1. /\ path = [root |-> path.root, parts |-> path.parts] /\ path.root \in {"", "/", "C:"}
      /\ path.parts \in Seq(Texts)
  BY DEF TextPaths
<1>2. CleanParts(path.parts, TRUE) \in Seq(Texts) /\ CleanParts(path.parts, FALSE) \in Seq(Texts)
  BY <1>1, CleanType
<1>3. /\ path.root = "/" => CleanPath(path) = [root |-> "/", parts |-> CleanParts(path.parts, TRUE)]
      /\ path.root = "" => CleanPath(path) = [root |-> "", parts |-> CleanParts(path.parts, FALSE)]
      /\ path.root = "C:" => CleanPath(path) = path
  BY <1>1, CleanShape, ZenonT(60)
<1>4. CleanPath(path) \in TextPaths
  <2>. DEFINE c(r) == CleanParts(path.parts, r)
  <2>. HIDE DEF c
  <2>0. [root |-> "/", parts |-> c(TRUE)] \in TextPaths /\ [root |-> "", parts |-> c(FALSE)] \in TextPaths
    <3>1. c(TRUE) \in Seq(Texts) /\ c(FALSE) \in Seq(Texts)
      BY <1>2 DEF c
    <3>2. QED
      BY <3>1 DEF TextPaths
  <2>1. CASE path.root = "/"
    BY <1>3, <2>0, <2>1 DEF c
  <2>2. CASE path.root = ""
    BY <1>3, <2>0, <2>2 DEF c
  <2>3. CASE path.root = "C:"
    BY <1>3, <2>3
  <2>4. QED
    BY <1>1, <2>1, <2>2, <2>3
<1>5. CleanPath(path).parts \in Seq(Texts)
  BY <1>4 DEF TextPaths
<1>6. splitPathSegments(path) \in Seq(Texts)
  <2>1. <<"C:">> \in Seq(Texts)
    <3>1. "C:" \in Texts
      BY DEF Texts
    <3>2. QED
      BY <3>1, OneIsSeq
  <2>2. <<>> \in Seq(Texts)
    BY EmptySeq
  <2>. DEFINE c == CleanPath(path).parts
  <2>. HIDE DEF c
  <2>3. <<"C:">> \o c \in Seq(Texts) /\ <<>> \o c \in Seq(Texts)
    BY <1>5, <2>1, <2>2, ConcatProperties DEF c
  <2>4. QED
    BY <2>3 DEF splitPathSegments, c
<1>7. QED
  BY <1>1, <1>4, <1>6

LEMMA ExistingTailType ==
  ASSUME NEW path \in TextPaths PROVE ExistingTail(path) \in TextPaths
<1>. DEFINE parts == splitPathSegments(path)
            n == Len(parts)
            tails == {k \in 1..Len(parts) : k <= 4 /\ pathExists(InWorkdir(SubSeq(parts, Len(parts) - k + 1, Len(parts))))}
            tail == SubSeq(parts, n - Max(tails) + 1, n)
<1>1. parts \in Seq(Texts) /\ n \in Nat
  BY CleanPathType, LenProperties
<1>2. CASE tails = {}
  <2>1. ExistingTail(path) = path
    BY <1>2 DEF ExistingTail
  <2>2. QED
    BY <2>1
<1>3. CASE tails # {}
  <2>1. tails \in SUBSET (1..n)
    OBVIOUS
  <2>. HIDE DEF tails, n, parts
  <2>2. Max(tails) \in 1..n
    BY <1>1, <1>3, <2>1, MaxOfNumbers
  <2>3. n - Max(tails) + 1 \in Nat \ {0}
    <3>1. n \in Nat
      BY <1>1
    <3>2. QED
      BY <2>2, <3>1, FromTheEnd
  <2>4. tail \in Seq(Texts)
    BY <1>1, <2>3, TailType DEF n
  <2>5. ExistingTail(path) = InWorkdir(tail)
    BY <1>3 DEF ExistingTail, tails, n, parts
  <2>6. QED
    BY <2>4, <2>5, InWorkdirType
<1>4. QED
  BY <1>2, <1>3

LEMMA RebaseType ==
  ASSUME NEW path \in TextPaths PROVE rebaseAbsolutePathToWorkdir(path) \in TextPaths
<1>1. CASE OfProject(path)
  <2>1. SubSeq(path.parts, 5, Len(path.parts)) \in Seq(Texts)
    <3>1. path.parts \in Seq(Texts)
      BY CleanPathType
    <3>2. QED
      BY <3>1, TailType
  <2>2. QED
    BY <1>1, <2>1, InWorkdirType DEF rebaseAbsolutePathToWorkdir, rebaseSandboxPathToWorkdir
<1>2. CASE ~OfProject(path) /\ isPlaceholderDirectoryListPath(path)
  <2>1. Local(Workdir) \in TextPaths
    BY WorkdirIsClean, LocalType
  <2>2. QED
    BY <1>2, <2>1 DEF rebaseAbsolutePathToWorkdir
<1>3. CASE ~OfProject(path) /\ ~isPlaceholderDirectoryListPath(path)
  BY <1>3, ExistingTailType DEF rebaseAbsolutePathToWorkdir
<1>4. QED
  BY <1>1, <1>2, <1>3

LEMMA AfterSegmentType ==
  ASSUME NEW parts \in Seq(Texts), NEW segment
  PROVE  rebaseWritePathAfterSegment(parts, segment) \in TextPaths \cup {NoPath}
<1>. DEFINE at == {i \in DOMAIN parts : parts[i] = segment}
            tail == SubSeq(parts, Min(at) + 1, Len(parts))
<1>1. CASE at = {}
  BY <1>1 DEF rebaseWritePathAfterSegment
<1>2. CASE at # {}
  <2>1. at \in SUBSET Nat
    BY LenProperties
  <2>2. Min(at) \in Nat
    BY <1>2, <2>1, MinOfNumbers
  <2>. HIDE DEF at
  <2>3. tail \in Seq(Texts)
    BY <2>2, TailType
  <2>4. InWorkdir(tail) \in TextPaths
    BY <2>3, InWorkdirType
  <2>5. rebaseWritePathAfterSegment(parts, segment) \in {InWorkdir(tail), NoPath}
    BY DEF rebaseWritePathAfterSegment, at
  <2>6. QED
    BY <2>4, <2>5
<1>3. QED
  BY <1>1, <1>2

LEMMA RebaseWriteType ==
  ASSUME NEW path \in TextPaths PROVE rebaseAbsoluteWritePathToWorkdir(path) \in TextPaths
<1>. DEFINE parts == splitPathSegments(path)
            ofProject == rebaseWritePathAfterSegment(parts, Last(Workdir))
            other == rebaseWritePathAfterSegment(parts, "project")
            stays == ~isToolAbsolutePath(path) \/ sameOrWithinPath(path) \/ parts = <<>>
            found == rebaseAbsoluteWritePathToWorkdir(path)
<1>1. CASE stays
  <2>1. found = path
    BY <1>1 DEF rebaseAbsoluteWritePathToWorkdir
  <2>2. QED
    BY <2>1
<1>2. CASE ~stays
  <2>1. parts \in Seq(Texts)
    BY CleanPathType
  <2>2. ofProject \in TextPaths \cup {NoPath} /\ other \in TextPaths \cup {NoPath}
    BY <2>1, AfterSegmentType
  <2>3. Base(path) \in Seq(Texts)
    <3>1. CASE path.root = "C:"
      <4>1. "C:..." \in Texts
        BY DEF Texts
      <4>2. QED
        BY <3>1, <4>1, OneIsSeq DEF Base
    <3>2. CASE path.root # "C:"
      <4>. DEFINE c == CleanPath(path).parts
      <4>1. parts = <<>> \o c
        BY <3>2 DEF splitPathSegments
      <4>2. c \in Seq(Texts)
        <5>1. CleanPath(path) \in TextPaths
          BY CleanPathType
        <5>2. QED
          BY <5>1 DEF TextPaths
      <4>3. c # <<>>
        BY <1>2, <4>1, <4>2, ConcatEmptySeq
      <4>4. Last(c) \in Texts
        <5>. HIDE DEF c
        <5>1. Len(c) \in 1..Len(c)
          BY <4>2, <4>3, EmptySeq
        <5>2. QED
          BY <4>2, <5>1, ElementOfSeq DEF Last
      <4>5. Base(path) = <<Last(c)>>
        BY <3>2 DEF Base
      <4>. HIDE DEF c
      <4>6. QED
        BY <4>4, <4>5, OneIsSeq
    <3>3. QED
      BY <3>1, <3>2
  <2>4. InWorkdir(Base(path)) \in TextPaths
    BY <2>3, InWorkdirType
  <2>5. found = IF ofProject # NoPath THEN ofProject ELSE IF other # NoPath THEN other ELSE InWorkdir(Base(path))
    BY <1>2 DEF rebaseAbsoluteWritePathToWorkdir
  <2>. HIDE DEF ofProject, other, found, parts, stays
  <2>6. found \in TextPaths
    BY <2>2, <2>4, <2>5
  <2>7. QED
    BY <2>6 DEF found
<1>3. QED
  BY <1>1, <1>2

\* A call to write that the client gets, and one it had, has a path.
HasPath(call) == call.name \in {"Write", "Edit"} => resolveToolPath(call) \in TextPaths

LEMMA FittingHasPath ==
  ASSUME NEW u \in Calls, Fits(normalizeUpstreamToolCall(u))
  PROVE  HasPath(normalizeUpstreamToolCall(u))
<1>. DEFINE call  == normalizeUpstreamToolCall(u)
            asked == resolveToolPath(u)
            name  == NormalizeToolNameFallback(u.name)
<1>1. SUFFICES ASSUME call.name \in {"Write", "Edit"} PROVE resolveToolPath(call) \in TextPaths
  BY DEF HasPath
<1>2. u = CallOf(u.name, u.filePath, u.path, u.body, u.command)
  BY CallShape
<1>3. call.name \in FileTools
  BY <1>1 DEF FileTools
<1>4. ~isDirectoryListToolName(u.name) /\ name \in FileTools
  BY <1>2, <1>3, FileCallOnly
<1>5. call = CallOf(name, Rebased(asked, name), NoPath, u.body, u.command)
  BY <1>2, <1>4, FileCall
<1>6. resolveToolPath(call) # NoPath
  BY <1>1 DEF Fits, hasRequiredToolInputFields
<1>. HIDE DEF call, asked, name
<1>7. resolveToolPath(call) = Rebased(asked, name)
  BY <1>5 DEF resolveToolPath, CallOf
<1>8. asked # NoPath
  BY <1>6, <1>7 DEF Rebased
<1>9. asked \in TextPaths
  BY <1>8, CallShape, PathsAreTextPaths DEF asked, resolveToolPath
<1>10. Rebased(asked, name) \in TextPaths
  BY <1>8, <1>9, RebaseType, RebaseWriteType DEF Rebased, RebasedWrite
<1>11. QED
  BY <1>7, <1>10 DEF call

LEMMA EarlierHasPath ==
  ASSUME NEW call \in Earlier PROVE HasPath(call)
<1>1. call.filePath \in Paths \cup {NoPath}
  BY CallShape
<1>2. call.name \in {"Write", "Edit"} => call.filePath # NoPath
  BY ToolCallsAssumption
<1>3. QED
  BY <1>1, <1>2, PathsAreTextPaths DEF HasPath, resolveToolPath

\* Where a path arrives, and where its canonical form does.
TargetOf(path) == IF path.root = "" THEN Local(Workdir \o path.parts) ELSE CleanPath(path)
Arrives(key) == IF key.root = "" THEN Local(Workdir \o key.parts) ELSE key
Shortest(target) ==
  IF target.root = "/" /\ IsPrefix(Workdir, target.parts)
  THEN [root |-> "", parts |-> SubSeq(target.parts, Len(Workdir) + 1, Len(target.parts))] ELSE target

\* The canonical path tells the target; the target tells the canonical path, unless a
\* relative path goes up.
LEMMA CanonicalPath ==
  ASSUME NEW path \in TextPaths
  PROVE  LET key == canonicalToolPathForDedup(path) IN
         /\ TargetOf(path) = Arrives(key)
         /\ ~(path.root = "" /\ Climbs(path.parts)) => key = Shortest(TargetOf(path))
<1>. DEFINE key == canonicalToolPathForDedup(path)
            parts == path.parts
<1>1. /\ parts \in Seq(Texts) /\ path = [root |-> path.root, parts |-> parts] /\ path.root \in {"", "/", "C:"}
      /\ Workdir \in Seq(Names) /\ Workdir \in Seq(Texts)
  BY CleanPathType, WorkdirIsClean
<1>2. CASE path.root = ""
  <2>. DEFINE c == CleanParts(parts, FALSE)
  <2>1. CleanPath(path) = [root |-> "", parts |-> c]
    BY <1>1, <1>2, CleanShape, ZenonT(30)
  <2>. HIDE DEF c
  <2>2. key = [root |-> "", parts |-> c]
    <3>1. ~sameOrWithinPath([root |-> "", parts |-> c])
      BY DEF sameOrWithinPath
    <3>2. QED
      BY <2>1, <3>1 DEF canonicalToolPathForDedup
  <2>. HIDE DEF key
  <2>3. TargetOf(path) = [root |-> "/", parts |-> CleanParts(Workdir \o parts, TRUE)]
    BY <1>2 DEF TargetOf, Local
  <2>4. CleanParts(Workdir \o parts, TRUE) = CleanParts(Workdir \o c, TRUE)
    BY <1>1, CleanJoin DEF c
  <2>5. Arrives(key) = [root |-> "/", parts |-> CleanParts(Workdir \o c, TRUE)]
    <3>1. key.root = "" /\ key.parts = c
      BY <2>2
    <3>2. QED
      BY <3>1 DEF Local, Arrives
  <2>6. ASSUME ~Climbs(parts) PROVE key = Shortest(TargetOf(path))
    <3>1. c \in Seq(Names) /\ CleanParts(Workdir \o parts, TRUE) = Workdir \o c
      BY <1>1, <2>6, CleanBelow DEF c
    <3>2. IsPrefix(Workdir, Workdir \o c) /\ SubSeq(Workdir \o c, Len(Workdir) + 1, Len(Workdir \o c)) = c
      BY <1>1, <3>1, PrefixOfConcat
    <3>3. TargetOf(path) = [root |-> "/", parts |-> Workdir \o c]
      BY <2>3, <3>1
    <3>. DEFINE d == Workdir \o c
    <3>. HIDE DEF d
    <3>4. Shortest([root |-> "/", parts |-> d]) = [root |-> "", parts |-> c]
      BY <3>2 DEF Shortest, d
    <3>5. QED
      BY <2>2, <3>3, <3>4 DEF d
  <2>7. TargetOf(path) = Arrives(key)
    BY <2>3, <2>4, <2>5
  <2>8. ~(path.root = "" /\ Climbs(path.parts)) => key = Shortest(TargetOf(path))
    BY <1>2, <2>6
  <2>9. QED
    BY <2>7, <2>8 DEF key
<1>3. CASE path.root = "/"
  <2>. DEFINE d == CleanParts(parts, TRUE)
              rest == SubSeq(d, Len(Workdir) + 1, Len(d))
  <2>1. CleanPath(path) = [root |-> "/", parts |-> d]
    BY <1>1, <1>3, CleanShape
  <2>2. d \in Seq(Names)
    BY <1>1, CleanIsNames
  <2>3. CleanParts(d, TRUE) = d
    BY <2>2, NamesAreClean
  <2>. HIDE DEF d
  <2>4. CleanPath([root |-> "/", parts |-> d]) = [root |-> "/", parts |-> d]
    BY <2>3, CleanShape
  <2>5. sameOrWithinPath([root |-> "/", parts |-> d]) <=> IsPrefix(Workdir, d)
    BY <2>4 DEF sameOrWithinPath
  <2>6. key = IF IsPrefix(Workdir, d) THEN [root |-> "", parts |-> rest] ELSE [root |-> "/", parts |-> d]
    <3>1. key = IF sameOrWithinPath([root |-> "/", parts |-> d]) THEN [root |-> "", parts |-> rest]
                ELSE [root |-> "/", parts |-> d]
      BY <2>1 DEF canonicalToolPathForDedup
    <3>2. QED
      BY <2>5, <3>1
  <2>. HIDE DEF key, rest
  <2>7. TargetOf(path) = [root |-> "/", parts |-> d]
    BY <1>3, <2>1 DEF TargetOf
  <2>8. key = Shortest(TargetOf(path))
    <3>1. Shortest([root |-> "/", parts |-> d])
            = IF IsPrefix(Workdir, d) THEN [root |-> "", parts |-> rest] ELSE [root |-> "/", parts |-> d]
      BY DEF Shortest, rest
    <3>2. QED
      BY <2>6, <2>7, <3>1
  <2>9. TargetOf(path) = Arrives(key)
    <3>1. CASE IsPrefix(Workdir, d)
      <4>1. d = Workdir \o rest
        BY <1>1, <2>2, <3>1, PrefixRest DEF rest
      <4>2. key = [root |-> "", parts |-> rest]
        BY <2>6, <3>1
      <4>3. Arrives(key) = Local(Workdir \o rest)
        BY <4>2 DEF Arrives
      <4>4. Arrives(key) = Local(d)
        BY <4>1, <4>3
      <4>5. QED
        BY <2>3, <2>7, <4>4 DEF Local
    <3>2. CASE ~IsPrefix(Workdir, d)
      BY <2>6, <2>7, <3>2 DEF Arrives
    <3>3. QED
      BY <3>1, <3>2
  <2>10. QED
    BY <2>8, <2>9 DEF key
<1>4. CASE path.root = "C:"
  <2>1. CleanPath(path) = path
    BY <1>1, <1>4, CleanShape, ZenonT(30)
  <2>2. ~sameOrWithinPath(path)
    BY <1>4 DEF sameOrWithinPath
  <2>3. key = path /\ TargetOf(path) = path
    BY <1>4, <2>1, <2>2 DEF canonicalToolPathForDedup, TargetOf
  <2>4. Shortest(path) = path
    BY <1>4 DEF Shortest
  <2>. HIDE DEF key
  <2>5. Arrives(key) = path
    BY <1>4, <2>3 DEF Arrives
  <2>6. QED
    BY <2>3, <2>4, <2>5 DEF key
<1>5. QED
  BY <1>1, <1>2, <1>3, <1>4

LEMMA KeyShape ==
  ASSUME NEW call
  PROVE  LET key == sideEffectToolDedupKeyFromFields(call) IN
         /\ call.name \in {"Write", "Edit"} =>
              key = <<call.name, canonicalToolPathForDedup(resolveToolPath(call)), call.body>>
         /\ call.name = "Bash" => key = IF isReadOnlyBashCommand(call.command) THEN NoKey ELSE <<"bash", call.command>>
         /\ call.name \notin {"Write", "Edit", "Bash"} => key = NoKey
<1>1. CASE call.name \in {"Write", "Edit"}
  BY <1>1 DEF sideEffectToolDedupKeyFromFields
<1>2. CASE call.name = "Bash"
  BY <1>2 DEF sideEffectToolDedupKeyFromFields
<1>3. CASE call.name \notin {"Write", "Edit", "Bash"}
  BY <1>3 DEF sideEffectToolDedupKeyFromFields
<1>4. QED
  BY <1>1, <1>2, <1>3

\* Calls of one key do the same.
LEMMA KeyTellsEffect ==
  ASSUME NEW a, NEW b, HasPath(a), HasPath(b),
         sideEffectToolDedupKeyFromFields(a) # NoKey,
         sideEffectToolDedupKeyFromFields(a) = sideEffectToolDedupKeyFromFields(b)
  PROVE  SameEffect(a, b)
<1>. DEFINE k == sideEffectToolDedupKeyFromFields(a)
            ca == canonicalToolPathForDedup(resolveToolPath(a))
            cb == canonicalToolPathForDedup(resolveToolPath(b))
<1>1. /\ a.name \in {"Write", "Edit"} => k = <<a.name, ca, a.body>>
      /\ a.name = "Bash" => k = <<"bash", a.command>>
      /\ a.name \in {"Write", "Edit", "Bash"}
  BY KeyShape
<1>2. /\ b.name \in {"Write", "Edit"} => k = <<b.name, cb, b.body>>
      /\ b.name = "Bash" => k = <<"bash", b.command>>
      /\ b.name \in {"Write", "Edit", "Bash"}
  BY KeyShape
<1>. HIDE DEF k, ca, cb
<1>3. \A x, y, z, u, v : <<x, y, z>> # <<u, v>>
  OBVIOUS
<1>4. CASE a.name = "Bash"
  <2>1. b.name = "Bash"
    BY <1>1, <1>2, <1>3, <1>4
  <2>2. a.command = b.command
    BY <1>1, <1>2, <1>4, <2>1
  <2>3. QED
    BY <1>4, <2>1, <2>2 DEF SameEffect
<1>5. CASE a.name \in {"Write", "Edit"}
  <2>1. b.name \in {"Write", "Edit"}
    BY <1>1, <1>2, <1>3, <1>5
  <2>2. a.name = b.name /\ ca = cb /\ a.body = b.body
    BY <1>1, <1>2, <1>5, <2>1
  <2>3. resolveToolPath(a) \in TextPaths /\ resolveToolPath(b) \in TextPaths
    BY <1>5, <2>1 DEF HasPath
  <2>4. TargetOf(resolveToolPath(a)) = Arrives(ca)
    BY <2>3, CanonicalPath DEF ca
  <2>5. TargetOf(resolveToolPath(b)) = Arrives(cb)
    BY <2>3, CanonicalPath DEF cb
  <2>6. TargetOf(resolveToolPath(a)) = TargetOf(resolveToolPath(b))
    BY <2>2, <2>4, <2>5
  <2>7. Target(a) = Target(b)
    BY <2>6 DEF Target, TargetOf
  <2>8. a.name # "Bash"
    BY <1>5
  <2>9. QED
    BY <2>2, <2>7, <2>8 DEF SameEffect
<1>6. QED
  BY <1>1, <1>4, <1>5

\* Calls that write the same have one key, unless one of them goes up.
LEMMA EffectTellsKey ==
  ASSUME NEW a, NEW b, HasPath(a), HasPath(b), a.name \in {"Write", "Edit"},
         SameEffect(a, b), ~Climbing(a), ~Climbing(b)
  PROVE  /\ sideEffectToolDedupKeyFromFields(a) # NoKey
         /\ sideEffectToolDedupKeyFromFields(a) = sideEffectToolDedupKeyFromFields(b)
<1>. DEFINE pa == resolveToolPath(a)
            pb == resolveToolPath(b)
<1>1. a.name = b.name /\ Target(a) = Target(b) /\ a.body = b.body /\ pa \in TextPaths /\ pb \in TextPaths
  <2>1. a.name = b.name /\ a.name # "Bash"
    BY DEF SameEffect
  <2>2. Target(a) = Target(b) /\ a.body = b.body
    BY <2>1 DEF SameEffect
  <2>3. QED
    BY <2>1, <2>2 DEF HasPath
<1>2. TargetOf(pa) = TargetOf(pb)
  BY <1>1 DEF Target, TargetOf
<1>3. canonicalToolPathForDedup(pa) = Shortest(TargetOf(pa)) /\ canonicalToolPathForDedup(pb) = Shortest(TargetOf(pb))
  BY <1>1, CanonicalPath DEF Climbing
<1>. DEFINE ca == canonicalToolPathForDedup(pa)
            cb == canonicalToolPathForDedup(pb)
<1>4. ca = cb
  BY <1>2, <1>3
<1>5. /\ sideEffectToolDedupKeyFromFields(a) = <<a.name, ca, a.body>>
      /\ sideEffectToolDedupKeyFromFields(b) = <<b.name, cb, b.body>>
  BY <1>1, KeyShape
<1>. HIDE DEF ca, cb
<1>6. \A x, y, z : <<x, y, z>> # <<>>
  OBVIOUS
<1>7. QED
  BY <1>1, <1>4, <1>5, <1>6 DEF NoKey

-----------------------------------------------------------------------------
(* The conversation: the results one after another. *)

LEMMA ApplyType ==
  ASSUME NEW K, NEW keys \in SUBSET K, NEW message, KeyOfUse(message.of) \in K
  PROVE  ApplyResult(keys, message) \in SUBSET K
  BY DEF ApplyResult

\* The keys after each message.
LEMMA SeedTrace ==
  ASSUME NEW n \in Nat, DOMAIN conversation = 1..n
  PROVE  \E t : /\ t[0] = {} /\ t[n] = FoldLeft(ApplyResult, {}, conversation)
                /\ \A k \in 1..n : t[k] = ApplyResult(t[k - 1], conversation[k])
<1>. DEFINE D == SUBSET (1..n)
            K == {KeyOfUse(conversation[i].of) : i \in 1..n}
            V == SUBSET K
            Step(g) == [s \in D |-> IF s = {} THEN {} ELSE ApplyResult(g[s \ {Max(s)}], conversation[Max(s)])]
            iter == CHOOSE g : g = Step(g)
<1>1. FoldLeft(ApplyResult, {}, conversation) = iter[1..n]
  BY DEF FoldLeft, MapThenFoldSet
<1>2. \E g : g = Step(g)
  <2>. DEFINE c == [s \in D |-> Max(s)]
              F == [p \in (1..n) \X V |-> ApplyResult(p[2], conversation[p[1]])]
  <2>1. IsFiniteSet(1..n)
    BY FS_Interval
  <2>2. \A s \in D : s # {} => c[s] \in s
    BY MaxOfNumbers
  <2>3. \A x \in 1..n, v \in V : F[<<x, v>>] = ApplyResult(v, conversation[x]) /\ F[<<x, v>>] \in V
    <3>1. \A x \in 1..n : KeyOfUse(conversation[x].of) \in K
      OBVIOUS
    <3>. HIDE DEF K
    <3>2. QED
      BY <3>1, ApplyType
  <2>4. {} \in V
    OBVIOUS
  <2>. HIDE DEF c, F, V
  <2>5. PICK g \in [D -> V] : g = [s \in D |-> IF s = {} THEN {} ELSE F[<<c[s], g[s \ {c[s]}]>>]]
    <3>1. Chooses(c, 1..n) /\ Stays(F, 1..n, V)
      BY <2>2, <2>3 DEF Chooses, Stays
    <3>2. \E g \in [SUBSET (1..n) -> V] : Unfolds(g, 1..n, {}, c, F)
      BY <2>1, <2>4, <3>1, Recursion
    <3>3. QED
      BY <3>2 DEF Unfolds
  <2>6. ASSUME NEW s \in D, s # {} PROVE F[<<c[s], g[s \ {c[s]}]>>] = ApplyResult(g[s \ {Max(s)}], conversation[Max(s)])
    <3>1. c[s] = Max(s)
      BY DEF c
    <3>2. g[s \ {c[s]}] \in V /\ c[s] \in 1..n
      BY <2>2, <2>6
    <3>3. QED
      BY <2>3, <3>1, <3>2
  <2>7. g = Step(g)
    BY <2>5, <2>6
  <2>8. QED
    BY <2>7
<1>. HIDE DEF iter
<1>3. iter = Step(iter)
  BY <1>2 DEF iter
<1>. DEFINE t == [k \in 0..n |-> iter[1..k]]
<1>4. t[0] = {}
  <2>1. 1..0 = {} /\ 0 \in 0..n
    OBVIOUS
  <2>2. QED
    BY <1>3, <2>1
<1>5. ASSUME NEW k \in 1..n PROVE t[k] = ApplyResult(t[k - 1], conversation[k])
  <2>1. k \in Nat \ {0} /\ k \in 0..n /\ k - 1 \in 0..n /\ 1..k \in D /\ 1..k # {} /\ 1..(k - 1) \in D
    <3>1. k \in 1..k /\ k \in Nat \ {0} /\ k \in 0..n /\ k - 1 \in 0..n
      OBVIOUS
    <3>2. \A i \in 1..k : i \in 1..n
      OBVIOUS
    <3>3. \A i \in 1..(k - 1) : i \in 1..n
      OBVIOUS
    <3>4. QED
      BY <3>1, <3>2, <3>3
  <2>2. Max(1..k) = k /\ (1..k) \ {k} = 1..(k - 1)
    BY <2>1, MaxOfInterval
  <2>3. iter[1..k] = ApplyResult(iter[1..(k - 1)], conversation[k])
    BY <1>3, <2>1, <2>2
  <2>4. QED
    BY <2>1, <2>3
<1>6. t[n] = FoldLeft(ApplyResult, {}, conversation)
  BY <1>1
<1>. HIDE DEF t
<1>7. QED
  BY <1>4, <1>5, <1>6

Messages ==
  [is : {"say"}] \cup [is : {"use"}, call : Earlier]
    \cup [is : {"result"}, of : Nat, outcome : {"ok", "failed", "empty"}]

\* A result comes after the call it is of.
TalkOK ==
  /\ conversation \in Seq(Messages)
  /\ \A i \in DOMAIN conversation :
       conversation[i].is = "result" => conversation[i].of \in 1..(i - 1) /\ conversation[i].of \in Uses

\* The results that tell about a key, of the first k messages.
ResultsOf(key, k) == {i \in 1..k : conversation[i].is = "result" /\ KeyOfUse(conversation[i].of) = key}

LastSucceeded(key, k) ==
  key # NoKey /\ ResultsOf(key, k) # {} /\ conversation[Max(ResultsOf(key, k))].outcome = "ok"

LEMMA SeedsSucceeded ==
  ASSUME NEW n \in Nat, DOMAIN conversation = 1..n
  PROVE  \A key \in FoldLeft(ApplyResult, {}, conversation) : LastSucceeded(key, n)
<1>1. PICK t : /\ t[0] = {} /\ t[n] = FoldLeft(ApplyResult, {}, conversation)
               /\ \A k \in 1..n : t[k] = ApplyResult(t[k - 1], conversation[k])
  BY SeedTrace
<1>. DEFINE P == {k \in Nat : k <= n => \A key \in t[k] : LastSucceeded(key, k)}
<1>2. 0 \in P
  BY <1>1
<1>3. ASSUME NEW k \in Nat, k \in P PROVE k + 1 \in P
  <2>1. ASSUME k + 1 <= n, NEW key \in t[k + 1] PROVE LastSucceeded(key, k + 1)
    <3>. DEFINE m == conversation[k + 1]
                own == KeyOfUse(m.of)
                tells == m.is = "result" /\ own # NoKey
    <3>1. \A old \in t[k] : LastSucceeded(old, k)
      BY <1>3, <2>1
    <3>2. t[k + 1] = ApplyResult(t[k], m)
      <4>1. k + 1 \in 1..n /\ (k + 1) - 1 = k
        BY <2>1
      <4>2. QED
        BY <1>1, <4>1
    <3>3. /\ tells /\ m.outcome = "ok" => t[k + 1] = t[k] \cup {own}
          /\ tells /\ m.outcome # "ok" => t[k + 1] = t[k] \ {own}
          /\ ~tells => t[k + 1] = t[k]
      BY <3>2 DEF ApplyResult
    <3>4. \A i : i \in 1..(k + 1) <=> i \in 1..k \/ i = k + 1
      OBVIOUS
    <3>5. ResultsOf(key, k + 1) = ResultsOf(key, k) \cup {i \in {k + 1} : m.is = "result" /\ own = key}
      BY <3>4 DEF ResultsOf
    <3>6. CASE tells /\ m.outcome = "ok" /\ key = own
      <4>. DEFINE r == ResultsOf(key, k + 1)
      <4>1. k + 1 \in r /\ r \in SUBSET (1..(k + 1))
        BY <3>5, <3>6 DEF ResultsOf
      <4>. HIDE DEF r
      <4>2. Max(r) \in r /\ \A y \in r : y <= Max(r)
        <5>1. k + 1 \in Nat /\ r # {}
          BY <4>1
        <5>2. QED
          BY <4>1, <5>1, MaxOfNumbers
      <4>3. Max(r) = k + 1
        <5>1. Max(r) \in 1..(k + 1) /\ k + 1 <= Max(r)
          BY <4>1, <4>2
        <5>. DEFINE x == Max(r)
        <5>. HIDE DEF x
        <5>2. x = k + 1
          BY <5>1 DEF x
        <5>3. QED
          BY <5>2 DEF x
      <4>4. conversation[Max(r)].outcome = "ok"
        BY <3>6, <4>3
      <4>5. key # NoKey
        BY <3>6
      <4>6. QED
        BY <4>1, <4>4, <4>5 DEF LastSucceeded, r
    <3>7. CASE ~(tells /\ m.outcome = "ok" /\ key = own)
      <4>1. key \in t[k] /\ ~(tells /\ own = key)
        BY <2>1, <3>3, <3>7
      <4>2. key # NoKey
        BY <3>1, <4>1 DEF LastSucceeded
      <4>3. ResultsOf(key, k + 1) = ResultsOf(key, k)
        BY <3>5, <4>1, <4>2
      <4>4. QED
        BY <3>1, <4>1, <4>3 DEF LastSucceeded
    <3>8. QED
      BY <3>6, <3>7
  <2>2. QED
    BY <2>1
<1>. HIDE DEF P
<1>4. n \in P
  BY <1>2, <1>3, NumberInduction
<1>5. QED
  BY <1>1, <1>4 DEF P

\* A key tells whether its calls may be asked for again.
LEMMA KeyTellsPreseed ==
  ASSUME NEW a, NEW b, sideEffectToolDedupKeyFromFields(a) # NoKey,
         sideEffectToolDedupKeyFromFields(a) = sideEffectToolDedupKeyFromFields(b), shouldPreseedSideEffectDedup(a)
  PROVE  shouldPreseedSideEffectDedup(b)
<1>. DEFINE k == sideEffectToolDedupKeyFromFields(a)
            ca == canonicalToolPathForDedup(resolveToolPath(a))
            cb == canonicalToolPathForDedup(resolveToolPath(b))
<1>1. /\ a.name \in {"Write", "Edit"} => k = <<a.name, ca, a.body>>
      /\ a.name = "Bash" => k = <<"bash", a.command>>
      /\ a.name \in {"Write", "Edit", "Bash"}
  BY KeyShape
<1>2. /\ b.name \in {"Write", "Edit"} => k = <<b.name, cb, b.body>>
      /\ b.name = "Bash" => k = <<"bash", b.command>>
      /\ b.name \in {"Write", "Edit", "Bash"}
  BY KeyShape
<1>. HIDE DEF k, ca, cb
<1>3. \A x, y, z, u, v : <<x, y, z>> # <<u, v>>
  OBVIOUS
<1>4. CASE b.name = "Bash"
  <2>1. a.name = "Bash"
    BY <1>1, <1>2, <1>3, <1>4
  <2>2. a.command = b.command
    BY <1>1, <1>2, <1>4, <2>1
  <2>3. QED
    BY <2>1, <2>2 DEF shouldPreseedSideEffectDedup
<1>5. QED
  BY <1>4 DEF shouldPreseedSideEffectDedup

LEMMA SinceUserUpwards ==
  ASSUME NEW n \in Nat, DOMAIN conversation = 1..n, Len(conversation) = n
  PROVE  /\ SinceUser \subseteq 1..n
         /\ \A o \in SinceUser : \A i \in 1..n : o < i => i \in SinceUser
<1>1. CASE Spoken = {}
  BY <1>1 DEF SinceUser
<1>2. CASE Spoken # {}
  <2>1. Spoken \in SUBSET (1..n)
    BY DEF Spoken
  <2>2. Max(Spoken) \in 1..n
    BY <1>2, <2>1, MaxOfNumbers
  <2>3. SinceUser = (Max(Spoken) + 1)..n
    BY <1>2 DEF SinceUser
  <2>. DEFINE m == Max(Spoken)
  <2>. HIDE DEF m
  <2>4. m \in 1..n /\ SinceUser = (m + 1)..n
    BY <2>2, <2>3 DEF m
  <2>5. QED
    BY <2>4
<1>3. QED
  BY <1>1, <1>2

\* What the seeded keys are.
LEMMA SeedFacts ==
  ASSUME TalkOK, NEW key \in FoldLeft(ApplyResult, {}, conversation)
  PROVE  /\ key # NoKey
         /\ \E call \in Earlier : sideEffectToolDedupKeyFromFields(call) = key
         /\ LET results == {i \in SinceUser : conversation[i].is = "result" /\ conversation[i].of \in SinceUser
                                                /\ sideEffectToolDedupKeyFromFields(conversation[conversation[i].of].call) = key}
            IN  results # {} /\ conversation[Max(results)].outcome = "ok"
<1>. DEFINE n == Len(conversation)
            r == ResultsOf(key, n)
            Of(i) == conversation[i].of
            KeyAt(o) == sideEffectToolDedupKeyFromFields(conversation[o].call)
            results == {i \in SinceUser : conversation[i].is = "result" /\ Of(i) \in SinceUser /\ KeyAt(Of(i)) = key}
<1>1. n \in Nat /\ DOMAIN conversation = 1..n
  BY LenProperties DEF TalkOK
<1>2. LastSucceeded(key, n)
  BY <1>1, SeedsSucceeded
<1>3. SinceUser \subseteq 1..n /\ \A o \in SinceUser : \A i \in 1..n : o < i => i \in SinceUser
  BY <1>1, SinceUserUpwards
<1>4. key # NoKey /\ r # {} /\ conversation[Max(r)].outcome = "ok"
  BY <1>2 DEF LastSucceeded
<1>5. \A o : KeyOfUse(o) = key =>
         o \in Uses /\ o \in SinceUser /\ shouldPreseedSideEffectDedup(conversation[o].call) /\ KeyAt(o) = key
  BY <1>4 DEF KeyOfUse
<1>6. \A i \in 1..n : conversation[i].is = "result" => Of(i) \in 1..(i - 1) /\ Of(i) \in Uses
  BY <1>1 DEF TalkOK
<1>. HIDE DEF n
<1>7. ASSUME NEW i \in r PROVE i \in results
  <2>1. i \in 1..n /\ conversation[i].is = "result" /\ KeyOfUse(Of(i)) = key
    BY DEF ResultsOf
  <2>2. Of(i) \in SinceUser /\ KeyAt(Of(i)) = key
    BY <1>5, <2>1
  <2>3. Of(i) \in 1..(i - 1)
    BY <1>6, <2>1
  <2>4. Of(i) < i
    BY <2>1, <2>3
  <2>5. i \in SinceUser
    BY <1>3, <2>1, <2>2, <2>4
  <2>6. QED
    BY <2>1, <2>2, <2>5
<1>8. PICK j \in r : TRUE
  BY <1>4
<1>9. KeyAt(Of(j)) = key /\ shouldPreseedSideEffectDedup(conversation[Of(j)].call) /\ Of(j) \in Uses
  BY <1>5 DEF ResultsOf
<1>10. ASSUME NEW i \in results PROVE i \in r
  <2>1. i \in 1..n /\ conversation[i].is = "result" /\ Of(i) \in SinceUser /\ KeyAt(Of(i)) = key
    BY <1>3
  <2>2. Of(i) \in Uses
    BY <1>6, <2>1
  <2>3. shouldPreseedSideEffectDedup(conversation[Of(i)].call)
    BY <1>4, <1>9, <2>1, KeyTellsPreseed
  <2>4. KeyOfUse(Of(i)) = key
    BY <2>1, <2>2, <2>3 DEF KeyOfUse
  <2>5. QED
    BY <2>1, <2>4 DEF ResultsOf
<1>11. results = r
  BY <1>7, <1>10
<1>12. results # {} /\ conversation[Max(results)].outcome = "ok"
  BY <1>4, <1>11, Zenon
<1>13. \E call \in Earlier : sideEffectToolDedupKeyFromFields(call) = key
  <2>1. Of(j) \in DOMAIN conversation /\ conversation[Of(j)].is = "use"
    BY <1>9 DEF Uses
  <2>2. conversation[Of(j)] \in Messages
    BY <1>1, <2>1, ElementOfSeq DEF TalkOK, n
  <2>3. conversation[Of(j)].call \in Earlier
    BY <2>1, <2>2 DEF Messages
  <2>4. QED
    BY <1>9, <2>3
<1>14. QED
  BY <1>4, <1>12, <1>13

LEMMA TalkStep ==
  ASSUME TalkOK, NEW m \in Messages, m.is = "result" => m.of \in Uses, conversation' = Append(conversation, m)
  PROVE  TalkOK'
<1>. DEFINE n == Len(conversation)
            next == conversation'
<1>1. conversation \in Seq(Messages) /\ n \in Nat /\ DOMAIN conversation = 1..n
  BY LenProperties DEF TalkOK
<1>2. /\ next \in Seq(Messages) /\ Len(next) = n + 1
      /\ (\A i \in 1..n : next[i] = conversation[i]) /\ next[n + 1] = m
  BY <1>1, AppendProperties
<1>3. DOMAIN next = 1..(n + 1)
  BY <1>2, LenProperties
<1>. HIDE DEF n, next
<1>4. \A o \in Uses : o \in 1..n /\ o \in Uses'
  <2>1. ASSUME NEW o \in Uses PROVE o \in 1..n /\ conversation[o].is = "use"
    BY <1>1 DEF Uses
  <2>2. ASSUME NEW o \in Uses PROVE o \in DOMAIN next /\ next[o].is = "use"
    BY <1>1, <1>2, <1>3, <2>1
  <2>3. QED
    BY <2>1, <2>2 DEF Uses, next
<1>5. ASSUME NEW i \in 1..(n + 1), next[i].is = "result" PROVE next[i].of \in 1..(i - 1) /\ next[i].of \in Uses'
  <2>1. CASE i \in 1..n
    <3>1. next[i] = conversation[i]
      BY <1>2, <2>1
    <3>2. conversation[i].of \in 1..(i - 1) /\ conversation[i].of \in Uses
      BY <1>1, <1>5, <2>1, <3>1 DEF TalkOK
    <3>3. QED
      BY <1>4, <3>1, <3>2
  <2>2. CASE i = n + 1
    <3>1. next[i].of \in Uses
      BY <1>2, <1>5, <2>2
    <3>2. next[i].of \in 1..n
      BY <1>4, <3>1
    <3>3. QED
      BY <1>1, <1>4, <2>2, <3>1, <3>2
  <2>3. QED
    BY <1>1, <2>1, <2>2
<1>6. QED
  BY <1>2, <1>3, <1>5 DEF TalkOK, next

\* Who is known by a key: an earlier call, or one the client gets, and only one of these;
\* what is dropped is known.
KeysInv ==
  /\ \A key \in dedup :
       /\ key # NoKey
       /\ \/ \E call \in Earlier : sideEffectToolDedupKeyFromFields(call) = key
          \/ \E i \in DOMAIN given : sideEffectToolDedupKeyFromFields(given[i].call) = key
  /\ \A i \in DOMAIN given :
       sideEffectToolDedupKeyFromFields(given[i].call) # NoKey =>
         /\ sideEffectToolDedupKeyFromFields(given[i].call) \in dedup
         /\ \A j \in DOMAIN given :
              sideEffectToolDedupKeyFromFields(given[j].call) = sideEffectToolDedupKeyFromFields(given[i].call) => i = j
  /\ \A i \in DOMAIN dropped : sideEffectToolDedupKeyFromFields(dropped[i]) \in dedup /\ Fits(dropped[i])

ToolInv ==
  /\ ToolTypeOK /\ KeysInv /\ OnlySuccessHoldsBack
  /\ toolPc = "conversation" => TalkOK
  /\ toolPc # "reply" => given = <<>> /\ dropped = <<>>

LEMMA TalkingStep ==
  ASSUME ToolInv, NEW m \in Messages, m.is = "result" => m.of \in Uses, Extend(m)
  PROVE  ToolInv'
<1>1. /\ toolPc = "conversation" /\ conversation' = Append(conversation, m)
      /\ toolPc' = toolPc /\ dedup' = dedup /\ given' = given /\ dropped' = dropped
  BY DEF Extend
<1>2. TalkOK'
  BY <1>1, TalkStep DEF ToolInv
<1>3. ToolTypeOK' /\ KeysInv'
  BY <1>1 DEF ToolInv, ToolTypeOK, KeysInv
<1>4. OnlySuccessHoldsBack'
  BY <1>1 DEF OnlySuccessHoldsBack
<1>5. QED
  BY <1>1, <1>2, <1>3, <1>4 DEF ToolInv

LEMMA SeedStep == ASSUME ToolInv, seedSideEffectDedupFromMessages PROVE ToolInv'
<1>1. /\ toolPc = "conversation" /\ toolPc' = "seeded" /\ dedup' = FoldLeft(ApplyResult, {}, conversation)
      /\ conversation' = conversation /\ given' = given /\ dropped' = dropped
  BY DEF seedSideEffectDedupFromMessages
<1>2. TalkOK /\ given = <<>> /\ dropped = <<>>
  BY <1>1 DEF ToolInv
<1>3. DOMAIN given = {} /\ DOMAIN dropped = {}
  BY <1>2
<1>4. \A key \in dedup' : key # NoKey /\ \E call \in Earlier : sideEffectToolDedupKeyFromFields(call) = key
  BY <1>1, <1>2, SeedFacts
<1>5. KeysInv'
  BY <1>1, <1>3, <1>4 DEF KeysInv
<1>6. ASSUME NEW key \in dedup'
      PROVE  LET results == {i \in SinceUser : conversation[i].is = "result" /\ conversation[i].of \in SinceUser
                                                 /\ sideEffectToolDedupKeyFromFields(conversation[conversation[i].of].call) = key}
             IN  results # {} /\ conversation[Max(results)].outcome = "ok"
  BY <1>1, <1>2, SeedFacts
<1>7. SinceUser' = SinceUser
  BY <1>1 DEF SinceUser, Spoken
<1>8. OnlySuccessHoldsBack'
  BY <1>1, <1>6, <1>7 DEF OnlySuccessHoldsBack
<1>9. ToolTypeOK'
  BY <1>1 DEF ToolInv, ToolTypeOK
<1>10. QED
  BY <1>1, <1>2, <1>5, <1>8, <1>9 DEF ToolInv

LEMMA CallStep == ASSUME ToolInv, NEW u \in Calls, ToolCall(u) PROVE ToolInv'
<1>. DEFINE K(call) == sideEffectToolDedupKeyFromFields(call)
            call == normalizeUpstreamToolCall(u)
            key  == IF Fits(call) THEN K(call) ELSE NoKey
            answer == [asked |-> u, call |-> call]
            A == {a \in Answers : Fits(a.call)}
            D == {normalizeUpstreamToolCall(v) : v \in Calls}
<1>1. /\ toolPc = "reply" /\ toolPc' = toolPc /\ conversation' = conversation
      /\ \/ /\ key # NoKey /\ key \in dedup /\ dropped' = Append(dropped, call)
            /\ dedup' = dedup /\ given' = given
         \/ /\ key = NoKey \/ key \notin dedup
            /\ given' = IF Fits(call) THEN Append(given, answer) ELSE given
            /\ dedup' = dedup \cup ({key} \ {NoKey}) /\ dropped' = dropped
  BY Accepts
<1>2. given \in Seq(A) /\ dropped \in Seq(D) /\ call \in D /\ (Fits(call) => answer \in A)
  BY DEF ToolInv, ToolTypeOK, Answers
<1>3. ToolTypeOK'
  BY ToolTypeStep DEF ToolInv, ToolsNext
<1>. HIDE DEF A, D, call
<1>4. /\ \A k \in dedup : k # NoKey /\ ((\E c \in Earlier : K(c) = k) \/ \E i \in DOMAIN given : K(given[i].call) = k)
      /\ \A i \in DOMAIN given : K(given[i].call) # NoKey =>
           K(given[i].call) \in dedup /\ \A j \in DOMAIN given : K(given[j].call) = K(given[i].call) => i = j
      /\ \A i \in DOMAIN dropped : K(dropped[i]) \in dedup /\ Fits(dropped[i])
  BY DEF ToolInv, KeysInv
<1>5. CASE key # NoKey /\ key \in dedup /\ dropped' = Append(dropped, call) /\ dedup' = dedup /\ given' = given
  <2>1. Fits(call) /\ K(call) \in dedup
    BY <1>5
  <2>. DEFINE n == Len(dropped)
  <2>2. n \in Nat /\ DOMAIN dropped = 1..n
    BY <1>2, LenProperties
  <2>3. dropped' \in Seq(D) /\ Len(dropped') = n + 1 /\ (\A i \in 1..n : dropped'[i] = dropped[i]) /\ dropped'[n + 1] = call
    BY <1>2, <1>5, AppendProperties
  <2>4. DOMAIN dropped' = 1..(n + 1)
    BY <2>3, LenProperties
  <2>. HIDE DEF n
  <2>5. \A i \in DOMAIN dropped' : i \in 1..n \/ i = n + 1
    BY <2>2, <2>4
  <2>. HIDE DEF K, key
  <2>6. \A i \in DOMAIN dropped' : K(dropped'[i]) \in dedup /\ Fits(dropped'[i])
    BY <1>4, <2>1, <2>2, <2>3, <2>5
  <2>7. KeysInv'
    BY <1>4, <1>5, <2>6 DEF KeysInv, K
  <2>8. QED
    BY <1>1, <1>3, <2>7 DEF ToolInv, OnlySuccessHoldsBack
<1>6. CASE /\ key = NoKey \/ key \notin dedup
           /\ given' = IF Fits(call) THEN Append(given, answer) ELSE given
           /\ dedup' = dedup \cup ({key} \ {NoKey}) /\ dropped' = dropped
  <2>1. CASE Fits(call)
    <3>1. key = K(call) /\ given' = Append(given, answer) /\ answer.call = call
      BY <1>6, <2>1
    <3>. DEFINE n == Len(given)
    <3>2. n \in Nat /\ DOMAIN given = 1..n
      BY <1>2, LenProperties
    <3>3. given' \in Seq(A) /\ Len(given') = n + 1 /\ (\A i \in 1..n : given'[i] = given[i]) /\ given'[n + 1] = answer
      BY <1>2, <2>1, <3>1, AppendProperties
    <3>4. DOMAIN given' = 1..(n + 1)
      BY <3>3, LenProperties
    <3>. HIDE DEF n, answer
    <3>5. /\ \A i \in DOMAIN given' : i \in 1..n \/ i = n + 1
          /\ n + 1 \in DOMAIN given' /\ n + 1 \notin 1..n
          /\ \A i \in 1..n : i \in DOMAIN given'
      BY <3>2, <3>4
    <3>. HIDE DEF K, key
    <3>6. K(given'[n + 1].call) = key /\ \A i \in 1..n : K(given'[i].call) = K(given[i].call)
      BY <3>1, <3>3
    <3>7. \A k \in dedup' : k # NoKey /\ ((\E c \in Earlier : K(c) = k) \/ \E i \in DOMAIN given' : K(given'[i].call) = k)
      <4>1. ASSUME NEW k \in dedup
            PROVE  k # NoKey /\ ((\E c \in Earlier : K(c) = k) \/ \E i \in DOMAIN given' : K(given'[i].call) = k)
        BY <1>4, <3>2, <3>5, <3>6
      <4>2. QED
        BY <1>6, <3>5, <3>6, <4>1
    <3>8. ASSUME NEW i \in DOMAIN given', K(given'[i].call) # NoKey
          PROVE  K(given'[i].call) \in dedup' /\ \A j \in DOMAIN given' : K(given'[j].call) = K(given'[i].call) => i = j
      <4>1. CASE i = n + 1
        <5>1. key \in dedup' /\ key \notin dedup
          BY <1>6, <3>6, <3>8, <4>1
        <5>2. \A j \in 1..n : K(given'[j].call) # key
          BY <1>4, <3>2, <3>6, <3>8, <4>1, <5>1
        <5>3. QED
          BY <3>5, <3>6, <4>1, <5>1, <5>2
      <4>2. CASE i \in 1..n
        <5>1. K(given[i].call) \in dedup /\ \A j \in 1..n : K(given[j].call) = K(given[i].call) => i = j
          BY <1>4, <3>2, <3>6, <3>8, <4>2
        <5>2. key # K(given[i].call)
          BY <1>6, <3>6, <3>8, <4>2, <5>1
        <5>3. QED
          BY <1>6, <3>5, <3>6, <4>2, <5>1, <5>2
      <4>3. QED
        BY <3>5, <4>1, <4>2
    <3>9. \A i \in DOMAIN dropped' : K(dropped'[i]) \in dedup' /\ Fits(dropped'[i])
      BY <1>4, <1>6
    <3>10. KeysInv'
      BY <3>7, <3>8, <3>9 DEF KeysInv, K
    <3>11. QED
      BY <1>1, <1>3, <3>10 DEF ToolInv, OnlySuccessHoldsBack
  <2>2. CASE ~Fits(call)
    <3>1. given' = given /\ dedup' = dedup /\ dropped' = dropped
      BY <1>6, <2>2
    <3>2. KeysInv'
      BY <1>4, <3>1 DEF KeysInv
    <3>3. QED
      BY <1>1, <1>3, <3>2 DEF ToolInv, OnlySuccessHoldsBack
  <2>3. QED
    BY <2>1, <2>2
<1>7. QED
  BY <1>1, <1>5, <1>6

LEMMA ToolSafety == ToolsSpec => []ToolInv
<1>1. ToolsInit => ToolInv
  <2>. SUFFICES ASSUME ToolsInit PROVE ToolInv
    OBVIOUS
  <2>1. toolPc = "conversation" /\ conversation = <<>> /\ dedup = {} /\ given = <<>> /\ dropped = <<>>
    BY DEF ToolsInit
  <2>2. DOMAIN given = {} /\ DOMAIN dropped = {} /\ DOMAIN conversation = {}
    BY <2>1
  <2>3. ToolTypeOK
    BY <2>1, EmptySeq DEF ToolTypeOK
  <2>4. TalkOK
    BY <2>1, <2>2, EmptySeq DEF TalkOK
  <2>5. KeysInv
    BY <2>1, <2>2 DEF KeysInv
  <2>6. QED
    BY <2>1, <2>3, <2>4, <2>5 DEF ToolInv, OnlySuccessHoldsBack
<1>2. ToolInv /\ [ToolsNext]_toolVars => ToolInv'
  <2>. SUFFICES ASSUME ToolInv, [ToolsNext]_toolVars PROVE ToolInv'
    OBVIOUS
  <2>1. CASE Say
    <3>1. [is |-> "say"] \in Messages /\ [is |-> "say"].is # "result"
      BY DEF Messages
    <3>2. QED
      BY <2>1, <3>1, TalkingStep DEF Say
  <2>2. ASSUME NEW call \in Earlier, Use(call) PROVE ToolInv'
    <3>. DEFINE m == [is |-> "use", call |-> call]
    <3>1. m \in Messages /\ m.is # "result"
      BY DEF Messages
    <3>2. Extend(m)
      BY <2>2 DEF Use
    <3>. HIDE DEF m
    <3>3. QED
      BY <3>1, <3>2, TalkingStep
  <2>3. ASSUME NEW i \in DOMAIN conversation, NEW outcome \in {"ok", "failed", "empty"}, Result(i, outcome) PROVE ToolInv'
    <3>. DEFINE m == [is |-> "result", of |-> i, outcome |-> outcome]
    <3>1. i \in Uses /\ Extend(m) /\ toolPc = "conversation"
      BY <2>3 DEF Result, Extend
    <3>2. conversation \in Seq(Messages)
      BY <3>1 DEF ToolInv, TalkOK
    <3>3. i \in Nat
      BY <3>2, LenProperties
    <3>4. m \in Messages /\ m.of = i
      BY <3>3 DEF Messages
    <3>. HIDE DEF m
    <3>5. QED
      BY <3>1, <3>4, TalkingStep
  <2>4. CASE seedSideEffectDedupFromMessages
    BY <2>4, SeedStep
  <2>5. CASE Reply
    <3>1. toolPc' = "reply" /\ dedup' = dedup /\ given' = given /\ dropped' = dropped
      BY <2>5 DEF Reply
    <3>2. ToolTypeOK' /\ KeysInv'
      BY <3>1 DEF ToolInv, ToolTypeOK, KeysInv
    <3>3. QED
      BY <3>1, <3>2 DEF ToolInv, OnlySuccessHoldsBack
  <2>6. CASE \E u \in Calls : ToolCall(u)
    BY <2>6, CallStep
  <2>7. CASE UNCHANGED toolVars
    <3>1. toolPc' = toolPc /\ conversation' = conversation /\ dedup' = dedup /\ given' = given /\ dropped' = dropped
      BY <2>7 DEF toolVars
    <3>2. ToolTypeOK' /\ KeysInv'
      BY <3>1 DEF ToolInv, ToolTypeOK, KeysInv
    <3>3. TalkOK' <=> TalkOK
      BY <3>1 DEF TalkOK, Uses
    <3>4. SinceUser' = SinceUser
      BY <3>1 DEF SinceUser, Spoken
    <3>5. OnlySuccessHoldsBack'
      BY <3>1, <3>4 DEF ToolInv, OnlySuccessHoldsBack
    <3>6. QED
      BY <3>1, <3>2, <3>3, <3>5 DEF ToolInv
  <2>8. QED
    BY <2>1, <2>2, <2>3, <2>4, <2>5, <2>6, <2>7 DEF ToolsNext
<1>3. QED
  BY <1>1, <1>2, PTL DEF ToolsSpec

\* OnlySuccessHoldsBack, for any conversation: what is held back succeeded the last time,
\* and since the user's last words.
THEOREM OnlySuccessAlwaysHoldsBack == ToolsSpec => []OnlySuccessHoldsBack
<1>1. ToolInv => OnlySuccessHoldsBack
  BY DEF ToolInv
<1>2. QED
  BY <1>1, ToolSafety, PTL

\* RepeatedEffectsDropped, for any calls: the client gets a side effect once, and what is
\* dropped does what it had been asked to do.
THEOREM RepeatedEffectsAlwaysDropped == ToolsSpec => []RepeatedEffectsDropped
<1>1. ToolInv => RepeatedEffectsDropped
  <2>. SUFFICES ASSUME ToolInv PROVE RepeatedEffectsDropped
    OBVIOUS
  <2>. DEFINE A == {answer \in Answers : Fits(answer.call)}
              D == {normalizeUpstreamToolCall(u) : u \in Calls}
              K(call) == sideEffectToolDedupKeyFromFields(call)
  <2>1. given \in Seq(A) /\ dropped \in Seq(D)
    BY DEF ToolInv, ToolTypeOK
  <2>2. /\ \A k \in dedup : k # NoKey /\ ((\E c \in Earlier : K(c) = k) \/ \E i \in DOMAIN given : K(given[i].call) = k)
        /\ \A i \in DOMAIN given : K(given[i].call) # NoKey =>
             K(given[i].call) \in dedup /\ \A j \in DOMAIN given : K(given[j].call) = K(given[i].call) => i = j
        /\ \A i \in DOMAIN dropped : K(dropped[i]) \in dedup /\ Fits(dropped[i])
    BY DEF ToolInv, KeysInv
  <2>3. ASSUME NEW i \in DOMAIN given PROVE HasPath(given[i].call)
    <3>. HIDE DEF A
    <3>1. given[i] \in A
      BY <2>1, LenProperties, ElementOfSeq
    <3>2. PICK u \in Calls : given[i] = [asked |-> u, call |-> normalizeUpstreamToolCall(u)] /\ Fits(given[i].call)
      BY <3>1 DEF A, Answers
    <3>3. Fits(normalizeUpstreamToolCall(u)) /\ given[i].call = normalizeUpstreamToolCall(u)
      BY <3>2
    <3>4. QED
      BY <3>3, FittingHasPath
  <2>4. ASSUME NEW i \in DOMAIN dropped PROVE HasPath(dropped[i])
    <3>. HIDE DEF D
    <3>1. dropped[i] \in D
      BY <2>1, LenProperties, ElementOfSeq
    <3>2. PICK u \in Calls : dropped[i] = normalizeUpstreamToolCall(u)
      BY <3>1 DEF D
    <3>3. QED
      BY <2>2, <3>2, FittingHasPath
  <2>5. ASSUME NEW i \in DOMAIN given, NEW j \in DOMAIN given, i # j,
               given[i].call.name \in {"Write", "Edit"}, SameEffect(given[i].call, given[j].call),
               ~Climbing(given[i].call), ~Climbing(given[j].call)
        PROVE  FALSE
    <3>1. K(given[i].call) # NoKey /\ K(given[i].call) = K(given[j].call)
      BY <2>3, <2>5, EffectTellsKey
    <3>. HIDE DEF K
    <3>2. QED
      BY <2>2, <2>5, <3>1
  <2>6. ASSUME NEW i \in DOMAIN dropped
        PROVE  \/ \E j \in DOMAIN given : SameEffect(dropped[i], given[j].call)
               \/ \E call \in Earlier : SameEffect(dropped[i], call)
    <3>. DEFINE k == K(dropped[i])
    <3>1. k # NoKey /\ ((\E c \in Earlier : K(c) = k) \/ \E j \in DOMAIN given : K(given[j].call) = k)
      BY <2>2
    <3>2. ASSUME NEW c \in Earlier, K(c) = k PROVE SameEffect(dropped[i], c)
      BY <2>4, <3>1, <3>2, EarlierHasPath, KeyTellsEffect
    <3>3. ASSUME NEW j \in DOMAIN given, K(given[j].call) = k PROVE SameEffect(dropped[i], given[j].call)
      BY <2>3, <2>4, <3>1, <3>3, KeyTellsEffect
    <3>. HIDE DEF k
    <3>4. QED
      BY <3>1, <3>2, <3>3
  <2>7. QED
    BY <2>5, <2>6 DEF RepeatedEffectsDropped
<1>2. QED
  BY <1>1, ToolSafety, PTL
====
