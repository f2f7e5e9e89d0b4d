---------------------------- MODULE Passthrough ----------------------------
(***************************************************************************)
(* handlePassthroughProvider (internal/handler/handler.go): the loop that  *)
(* serves /codebuff/ and /kimchi/.  The body goes upstream as it came, and *)
(* what comes back is copied to the client, so a failed attempt can only   *)
(* be repeated while nothing of it has been copied.  One request; what     *)
(* other requests do to the accounts is the action Others.                 *)
(***************************************************************************)
EXTENDS ErrorClasses, FiniteSets, Sequences

CONSTANTS
  PassAccounts,
  NoPassAccount,
  NoError,
  Errors,      \* what upstream errors say: sets of markers
  MaxRetries,  \* config.MaxRetries
  MaxFrames    \* bound: frames of one attempt

ASSUME PassthroughAssumption ==
  /\ NoPassAccount \notin PassAccounts /\ NoError \notin Errors
  /\ Errors \subseteq SUBSET Markers
  /\ MaxRetries \in Nat /\ MaxFrames \in Nat

VARIABLES
  provider, stream,     \* the route, and what the caller asked for
  passPc,
  passCurrent, tracked,     \* the account, and the one whose connection is counted
  conns,                \* connections of this request, by account
  failed, retries,
  passErr, named,           \* the last error; whether its body names the model
  hasOutput,
  buffer, sawTools,     \* of the writer of one attempt
  wire,                 \* what the client has been sent
  sent,                 \* frames the upstream has sent in this attempt
  attempt, writers,     \* history: attempts, and those that reached the client
  unhealthy, blocked, passSessions   \* accounts: with a status, a quota block, a cached session

passRequest == <<provider, stream>>
account == <<passCurrent, tracked, conns, failed>>
reply   == <<hasOutput, buffer, sawTools, wire, sent, writers>>
world   == <<unhealthy, blocked, passSessions>>
passVars == <<passRequest, passPc, account, retries, passErr, named, reply, attempt, world>>

PassInit ==
  /\ provider = "codebuff" /\ stream = FALSE
  /\ passPc = "idle"
  /\ passCurrent = NoPassAccount /\ tracked = NoPassAccount
  /\ conns = [a \in PassAccounts |-> 0]
  /\ failed = {} /\ retries = MaxRetries
  /\ passErr = NoError /\ named = FALSE
  /\ hasOutput = FALSE /\ buffer = FALSE /\ sawTools = FALSE
  /\ wire = <<>> /\ sent = <<>> /\ attempt = 0 /\ writers = {}
  /\ unhealthy = {} /\ blocked = {} /\ passSessions = {}

\* The request arrives on one of the two routes, with the accounts as earlier
\* requests left them.
PassArrive(route, streaming) ==
  /\ passPc = "idle" /\ passPc' = "new"
  /\ provider' = route /\ stream' = streaming
  /\ unhealthy' \in SUBSET PassAccounts
  /\ passSessions' \in IF route = "codebuff" THEN SUBSET PassAccounts ELSE {{}}
  /\ UNCHANGED <<account, retries, passErr, named, reply, attempt, blocked>>

-----------------------------------------------------------------------------
(* Accounts. *)

\* The quota filter, which looks at blocks for codebuff only.
QuotaFilter(a) == ~(provider = "codebuff" /\ a \in blocked)

\* trySessionAffinity: enabled accounts with a session for the model, whatever
\* their status.
Affine == {a \in passSessions \ failed : QuotaFilter(a)}

\* selectAccountRecordWithOptions; the load balancer's choice among the
\* accounts without a status depends on their load.
PassChoices ==
  IF Affine # {} THEN Affine
  ELSE {a \in PassAccounts \ (unhealthy \cup failed) : QuotaFilter(a)}

AcquireTrackedAccount(a) ==
  /\ tracked' = a
  /\ conns' = [conns EXCEPT ![a] = @ + 1]

ReleaseTrackedAccount ==
  /\ tracked' = NoPassAccount
  /\ conns' = [a \in PassAccounts |-> IF a = tracked THEN conns[a] - 1 ELSE conns[a]]

\* The first selection; without an account the answer is 503.
Admit ==
  /\ passPc = "new"
  /\ \/ /\ PassChoices = {}
        /\ passPc' = "done" /\ wire' = <<"refusal">>
        /\ UNCHANGED account
     \/ \E a \in PassChoices :
          /\ passCurrent' = a /\ AcquireTrackedAccount(a)
          /\ passPc' = "attempt"
          /\ UNCHANGED <<failed, wire>>
  /\ UNCHANGED <<passRequest, retries, passErr, named, hasOutput, buffer, sawTools, sent, writers, attempt, world>>

\* An invalid body, or a model this channel does not have: 400.
Refuse ==
  /\ passPc = "new"
  /\ passPc' = "done" /\ wire' = <<"refusal">>
  /\ UNCHANGED <<passRequest, account, retries, passErr, named, hasOutput, buffer, sawTools, sent, writers, attempt, world>>

-----------------------------------------------------------------------------
(* An attempt. *)

\* Kimchi answers are streamed whatever the caller asked for.
StreamsReply == stream \/ provider = "kimchi"

\* A new writer, and for a stream the headers (which go out once).
StartAttempt ==
  /\ passPc = "attempt" /\ passPc' = "calling"
  /\ attempt' = attempt + 1
  /\ buffer' = FALSE /\ sawTools' = FALSE /\ sent' = <<>>
  /\ wire' = IF StreamsReply /\ wire = <<>> THEN <<"headers">> ELSE wire
  /\ UNCHANGED <<passRequest, account, retries, passErr, named, hasOutput, writers, world>>

\* What an upstream client hands to the writer: codebuff only what it streams,
\* kimchi every event, neither anything after [DONE].
Hands(frame) ==
  /\ provider = "kimchi" \/ stream
  /\ Len(sent) < MaxFrames
  /\ sent # <<>> => sent[Len(sent)] # "DONE"

\* Mutant: the writer forgets that the turn has ended with tool calls.
RawSSEWriterForgets(frame) ==
  /\ hasOutput' = TRUE
  /\ wire' = Append(wire, frame)
  /\ writers' = writers \cup {attempt}
  /\ UNCHANGED <<sawTools, buffer>>

\* rawSSEWriter: the stop after tool calls is left out.
RawSSEWriter(frame) ==
  /\ hasOutput' = TRUE
  /\ wire' = IF sawTools /\ frame = "stop" THEN wire ELSE Append(wire, frame)
  /\ writers' = writers \cup {attempt}
  /\ sawTools' = (sawTools \/ frame = "tool_calls")
  /\ UNCHANGED buffer

\* The writer of a reply that is no stream keeps the body: neither client ever calls it,
\* codebuff's ignores it and kimchi's replies are streams.
RawBodyWriter(frame) ==
  /\ IF frame = "DONE" THEN UNCHANGED <<buffer, hasOutput, writers>>
     ELSE buffer' = TRUE /\ hasOutput' = TRUE /\ writers' = writers \cup {attempt}
  /\ UNCHANGED <<wire, sawTools>>

Emit(frame) ==
  /\ passPc = "calling" /\ Hands(frame)
  /\ sent' = Append(sent, frame)
  /\ IF StreamsReply THEN RawSSEWriter(frame) ELSE RawBodyWriter(frame)
  /\ UNCHANGED <<passRequest, passPc, account, retries, passErr, named, attempt, world>>

CallSucceeds ==
  /\ passPc = "calling" /\ passPc' = "report"
  /\ wire' = IF ~stream /\ buffer THEN Append(wire, "body") ELSE wire
  /\ UNCHANGED <<passRequest, account, retries, passErr, named, hasOutput, buffer, sawTools, sent, writers, attempt, world>>

\* Kimchi's errors say "kimchi upstream 429": no marker of a status.
Speaks(e) ==
  provider = "kimchi" => e \cap {"http400", "http401", "http402", "http403", "http404", "http409", "http429"} = {}

\* A failure after output is said so and not repeated, when the caller asked for a stream.
PartialOutput == stream /\ hasOutput

\* recordBlockIf429, in the codebuff client: only a body that names the model
\* makes a block.
RecordsBlock(e, names) == provider = "codebuff" /\ "http429" \in e /\ names

CallFails(e, names) ==
  /\ passPc = "calling" /\ Speaks(e)
  /\ passErr' = e /\ named' = names
  /\ blocked' = IF RecordsBlock(e, names) THEN blocked \cup {passCurrent} ELSE blocked
  /\ IF PartialOutput THEN passPc' = "report" /\ wire' = Append(wire, "error")
     ELSE passPc' = "failed" /\ UNCHANGED wire
  /\ UNCHANGED <<passRequest, account, retries, hasOutput, buffer, sawTools, sent, writers, attempt>>
  /\ UNCHANGED <<unhealthy, passSessions>>

-----------------------------------------------------------------------------
(* After a failure. *)

\* The 429 of a codebuff account is left to its quota blocks.
Marks(e) == MarksAccount(e) /\ ~(ClassifyAccountStatus(e) = "429" /\ provider = "codebuff")

\* Marks the account, then gives up or charges a retry and lets go of the account.
AfterFailure ==
  /\ passPc = "failed"
  /\ unhealthy' = IF Marks(passErr) THEN unhealthy \cup {passCurrent} ELSE unhealthy
  /\ IF ~Retryable(passErr) \/ retries = 0
     THEN passPc' = "report" /\ UNCHANGED <<account, retries>>
     ELSE /\ passPc' = "reselect"
          /\ retries' = retries - 1
          /\ failed' = failed \cup {passCurrent}
          /\ ReleaseTrackedAccount
          /\ UNCHANGED passCurrent
  /\ UNCHANGED <<passRequest, passErr, named, reply, attempt, blocked, passSessions>>

\* Another account, or the same one, or the end.
Reselect ==
  /\ passPc = "reselect"
  /\ \/ \E a \in PassChoices :
          passCurrent' = a /\ AcquireTrackedAccount(a) /\ passPc' = "waiting"
     \/ /\ PassChoices = {} /\ RetriesSameAccount(passErr)
        /\ AcquireTrackedAccount(passCurrent) /\ passPc' = "waiting" /\ UNCHANGED passCurrent
     \/ /\ PassChoices = {} /\ ~RetriesSameAccount(passErr)
        /\ passPc' = "report" /\ UNCHANGED <<passCurrent, tracked, conns>>
  /\ UNCHANGED <<passRequest, failed, retries, passErr, named, reply, attempt, world>>

\* The delay passes, or the caller goes away during it.
Backoff ==
  /\ passPc = "waiting" /\ passPc' \in {"attempt", "report"}
  /\ UNCHANGED <<passRequest, account, retries, passErr, named, reply, attempt, world>>

\* Mutant: only streams are told.
TellStreams == IF passErr # NoError /\ ~hasOutput /\ stream THEN wire \o <<"error", "DONE">> ELSE wire

\* The error is told when nothing else was: an event for a stream, else a body
\* with the status of its category (which comes too late after headers).
Tell ==
  IF passErr = NoError \/ hasOutput THEN wire
  ELSE IF stream THEN wire \o <<"error", "DONE">>
  ELSE Append(wire, "error body")

Report ==
  /\ passPc = "report" /\ passPc' = "done"
  /\ wire' = Tell
  /\ ReleaseTrackedAccount
  /\ UNCHANGED <<passRequest, passCurrent, failed, retries, passErr, named, attempt, world>>
  /\ UNCHANGED <<hasOutput, buffer, sawTools, sent, writers>>

\* Other requests mark accounts, clear their marks, and leave sessions behind.
Others ==
  /\ passPc \in {"calling", "waiting"}
  /\ \E a \in PassAccounts :
       \/ unhealthy' = unhealthy \cup {a} /\ UNCHANGED passSessions
       \/ unhealthy' = unhealthy \ {a} /\ UNCHANGED passSessions
       \/ provider = "codebuff" /\ passSessions' \in {passSessions \cup {a}, passSessions \ {a}} /\ UNCHANGED unhealthy
  /\ UNCHANGED <<passRequest, passPc, account, retries, passErr, named, reply, attempt, blocked>>

PassNext ==
  \/ \E route \in {"codebuff", "kimchi"}, streaming \in BOOLEAN : PassArrive(route, streaming)
  \/ Admit \/ Refuse \/ StartAttempt
  \/ \E frame \in {"chunk", "tool_calls", "stop", "DONE"} : Emit(frame)
  \/ CallSucceeds
  \/ \E e \in Errors, names \in BOOLEAN : CallFails(e, names)
  \/ AfterFailure \/ Reselect \/ Backoff \/ Report
  \/ Others

PassSpec == PassInit /\ [][PassNext]_passVars

-----------------------------------------------------------------------------
(* Correctness. *)

FramesOf(frame) == Cardinality({k \in DOMAIN wire : wire[k] = frame})

\* Who asked for a stream gets the frames of one attempt only, whatever failed
\* before or after it, and no stop once the turn has ended with tool calls: a
\* client would take it for the end of the turn.  (A caller of kimchi that asked
\* for no stream may get two attempts, one after the other.)
OneAnswer ==
  stream =>
    /\ Cardinality(writers) <= 1
    /\ \A j, k \in DOMAIN wire : wire[j] = "tool_calls" /\ wire[k] = "stop" => k < j
    /\ FramesOf("error") <= 1

\* A request that ends without a successful call has told its caller something,
\* and every end gives the connection back.
EndIsTold ==
  passPc = "done" =>
    /\ passErr # NoError => \E k \in DOMAIN wire : wire[k] \notin {"headers"}
    /\ \A a \in PassAccounts : conns[a] = 0

\* handler.go: "Non-stream passthrough: write the body directly.  The provider
\* sends a single "body" event with JSON."
NonStreamAnswered == passPc = "done" => \E k \in DOMAIN wire : wire[k] # "headers"
=============================================================================
