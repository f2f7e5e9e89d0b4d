---------------------------- MODULE RequestLoop -----------------------------
(***************************************************************************)
(* Handler.HandleMessages (internal/handler/handler.go): the life of the   *)
(* requests of the typed channel, from admission to the release of what    *)
(* they hold.  Requests run concurrently; they meet in the dedup store, in *)
(* the connection counters and in the availability of the accounts.        *)
(*                                                                         *)
(* Every access to one of these is a step of its own, because other        *)
(* requests act between two of them: an account is selected from counters  *)
(* read before it is acquired, and released before the next is selected.   *)
(*                                                                         *)
(* Time is abstract.  recent[k] holds while key k is inside the dedup      *)
(* window, available[a] while account a is in no cooldown; the environment *)
(* ends both (WindowPasses, CooldownEnds).                                 *)
(***************************************************************************)
EXTENDS ErrorClasses, FiniteSets

CONSTANTS
  Requests,     \* the requests the clients send
  Accounts,     \* the enabled accounts of the channel
  NoAccount,    \* trackedAccountID = 0, or no account selected yet
  Keys,         \* keys of the dedup store
  NoKey,        \* the semantic hash of a request that has none
  ExactKey,     \* "exact:" + the hash of path, authorization and body
  SemanticKey,  \* "semantic:" + the hash of conversation and user text
  Weight,       \* Account.Weight, at least 1 once selectAccount adjusts it
  Errors,       \* the errors the upstream may return: sets of markers
  MaxRetries    \* config.MaxRetries

ASSUME ConstantsAssumption ==
  /\ IsFiniteSet(Requests)
  /\ NoAccount \notin Accounts
  /\ NoKey \notin Keys
  /\ ExactKey \in [Requests -> Keys]
  /\ SemanticKey \in [Requests -> Keys \cup {NoKey}]
  /\ \A r \in Requests : ExactKey[r] # SemanticKey[r]
  /\ Weight \in [Accounts -> Nat \ {0}]
  /\ Errors \subseteq SUBSET Markers
  /\ MaxRetries \in Nat

VARIABLES
  pc,         \* where the request is in HandleMessages
  inFlight,   \* DedupStore: registrations of a key not yet finished
  recent,     \* DedupStore: the key was touched within the window
  held,       \* registeredKeys: what the request has yet to finish
  available,  \* LoadBalancer.isAccountAvailable
  conns,      \* ConnTracker: open connections of an account
  tracked,    \* trackedAccountID
  current,    \* currentAccount
  failed,     \* failedAccountSet
  retries,    \* retriesRemaining
  attempt,    \* calls of SendRequestWithPayload made so far
  err,        \* the error the current attempt returned
  output,     \* streamHandler.hasAnyOutput
  returned,   \* streamHandler.hasReturn
  replies,    \* terminal answers written to the client
  panicked,   \* recover() has an error to report once the defers have run
  ctxDone,    \* the client went away: r.Context() is cancelled
  refusedBy   \* history: accounts that failed the request for good

dedupVars   == <<inFlight, recent, held>>
accountVars == <<available, conns, tracked>>
retryVars   == <<current, failed, retries, attempt, err, refusedBy>>
streamVars  == <<output, returned, replies, panicked>>
vars == <<pc, dedupVars, accountVars, retryVars, streamVars, ctxDone>>

PCs == { "new", "exact", "rejected", "admitted", "picked", "ready", "calling",
         "failed", "deciding", "reselect", "waiting", "answered", "releasing",
         "unwind", "done" }

TypeOK ==
  /\ pc \in [Requests -> PCs]
  /\ inFlight \in [Keys -> Nat]
  /\ recent \in [Keys -> BOOLEAN]
  /\ held \in [Requests -> SUBSET Keys]
  /\ available \in [Accounts -> BOOLEAN]
  /\ conns \in [Accounts -> Nat]
  /\ tracked \in [Requests -> Accounts \cup {NoAccount}]
  /\ current \in [Requests -> Accounts \cup {NoAccount}]
  /\ failed \in [Requests -> SUBSET Accounts]
  /\ retries \in [Requests -> 0..MaxRetries]
  /\ attempt \in [Requests -> Nat]
  /\ err \in [Requests -> SUBSET Markers]
  /\ output \in [Requests -> BOOLEAN]
  /\ returned \in [Requests -> BOOLEAN]
  /\ replies \in [Requests -> Nat]
  /\ panicked \in [Requests -> BOOLEAN]
  /\ ctxDone \in [Requests -> BOOLEAN]
  /\ refusedBy \in [Requests -> SUBSET Accounts]

Init ==
  /\ pc = [r \in Requests |-> "new"]
  /\ inFlight = [k \in Keys |-> 0]
  /\ recent = [k \in Keys |-> FALSE]
  /\ held = [r \in Requests |-> {}]
  /\ available = [a \in Accounts |-> TRUE]
  /\ conns = [a \in Accounts |-> 0]
  /\ tracked = [r \in Requests |-> NoAccount]
  /\ current = [r \in Requests |-> NoAccount]
  /\ failed = [r \in Requests |-> {}]
  /\ retries = [r \in Requests |-> MaxRetries]
  /\ attempt = [r \in Requests |-> 0]
  /\ err = [r \in Requests |-> {}]
  /\ output = [r \in Requests |-> FALSE]
  /\ returned = [r \in Requests |-> FALSE]
  /\ replies = [r \in Requests |-> 0]
  /\ panicked = [r \in Requests |-> FALSE]
  /\ ctxDone = [r \in Requests |-> FALSE]
  /\ refusedBy = [r \in Requests |-> {}]

Goto(r, from, to) ==
  /\ pc[r] = from
  /\ pc' = [pc EXCEPT ![r] = to]

Reply(r) == replies' = [replies EXCEPT ![r] = @ + 1]

\* Mutant: finishResponse without its test of hasReturn.
FinishResponseAlways(r) ==
  /\ returned' = [returned EXCEPT ![r] = TRUE]
  /\ Reply(r)

\* streamHandler.finishResponse: only the first call answers.
FinishResponse(r) ==
  /\ returned' = [returned EXCEPT ![r] = TRUE]
  /\ replies' = [replies EXCEPT ![r] = IF returned[r] THEN @ ELSE @ + 1]

-----------------------------------------------------------------------------
(* Admission: the exact key, then the semantic key. *)

\* Mutant: the key is not appended to registeredKeys.
RegisterUntracked(r, k) ==
  /\ ~recent[k]
  /\ inFlight' = [inFlight EXCEPT ![k] = @ + 1]
  /\ recent' = [recent EXCEPT ![k] = TRUE]
  /\ UNCHANGED held

\* DedupStore.Register of a key outside the window.
Register(r, k) ==
  /\ ~recent[k]
  /\ inFlight' = [inFlight EXCEPT ![k] = @ + 1]
  /\ recent' = [recent EXCEPT ![k] = TRUE]
  /\ held' = [held EXCEPT ![r] = @ \cup {k}]

\* DedupStore.Finish: it also restarts the window of the key.
FinishKey(r, k) ==
  /\ inFlight' = [inFlight EXCEPT ![k] = IF @ > 0 THEN @ - 1 ELSE @]
  /\ recent' = [recent EXCEPT ![k] = TRUE]
  /\ held' = [held EXCEPT ![r] = @ \ {k}]

\* hasInterruptedRetryMarker: the user asked again after an interruption, so
\* the request skips the dedup store.
BypassDedup(r) ==
  /\ Goto(r, "new", "admitted")
  /\ UNCHANGED <<dedupVars, accountVars, retryVars, streamVars, ctxDone>>

RegisterExact(r) ==
  /\ Goto(r, "new", "exact")
  /\ Register(r, ExactKey[r])
  /\ UNCHANGED <<accountVars, retryVars, streamVars, ctxDone>>

ExactDuplicate(r) ==
  /\ Goto(r, "new", "done")
  /\ recent[ExactKey[r]]
  /\ Reply(r)
  /\ UNCHANGED <<dedupVars, accountVars, retryVars, output, returned, panicked, ctxDone>>

RegisterSemantic(r) ==
  /\ Goto(r, "exact", "admitted")
  /\ IF SemanticKey[r] = NoKey
     THEN UNCHANGED dedupVars
     ELSE Register(r, SemanticKey[r])
  /\ UNCHANGED <<accountVars, retryVars, streamVars, ctxDone>>

\* Mutant: the request answers at once and keeps its exact key.
SemanticDuplicateKeepsKey(r) ==
  /\ Goto(r, "exact", "done")
  /\ SemanticKey[r] # NoKey
  /\ recent[SemanticKey[r]]
  /\ Reply(r)
  /\ UNCHANGED <<dedupVars, accountVars, retryVars, output, returned, panicked, ctxDone>>

SemanticDuplicate(r) ==
  /\ Goto(r, "exact", "rejected")
  /\ SemanticKey[r] # NoKey
  /\ recent[SemanticKey[r]]
  /\ UNCHANGED <<dedupVars, accountVars, retryVars, streamVars, ctxDone>>

\* A semantic duplicate gives its exact key back before it answers.
FinishRejected(r) ==
  /\ Goto(r, "rejected", "done")
  /\ FinishKey(r, ExactKey[r])
  /\ Reply(r)
  /\ UNCHANGED <<accountVars, retryVars, output, returned, panicked, ctxDone>>

-----------------------------------------------------------------------------
(* Selection of the first account. *)

\* Mutant: failedAccountIDs is not passed to the selection.
SelectableIgnoresFailed(r) == {a \in Accounts : available[a]}

Selectable(r) == {a \in Accounts : available[a] /\ a \notin failed[r]}

\* selectAccountWithTracker: the accounts with the fewest connections per weight.
LeastLoaded(S) ==
  {a \in S : \A b \in S : conns[a] * Weight[b] <= conns[b] * Weight[a]}

\* A fast path that needs no upstream, or a model that is not served.
AnswerLocally(r) ==
  /\ Goto(r, "admitted", "unwind")
  /\ Reply(r)
  /\ UNCHANGED <<dedupVars, accountVars, retryVars, output, returned, panicked, ctxDone>>

SelectAccount(r) ==
  /\ Goto(r, "admitted", "picked")
  /\ \E a \in LeastLoaded(Selectable(r)) : current' = [current EXCEPT ![r] = a]
  /\ UNCHANGED <<dedupVars, accountVars, failed, retries, attempt, err,
                 refusedBy, streamVars, ctxDone>>

SelectFails(r) ==
  /\ Goto(r, "admitted", "unwind")
  /\ Selectable(r) = {}
  /\ Reply(r)
  /\ UNCHANGED <<dedupVars, accountVars, retryVars, output, returned, panicked, ctxDone>>

\* acquireTrackedAccount.  A retry then waits, the first attempt does not.
Acquire(r) ==
  /\ Goto(r, "picked", IF attempt[r] = 0 THEN "ready" ELSE "waiting")
  /\ conns' = [conns EXCEPT ![current[r]] = @ + 1]
  /\ tracked' = [tracked EXCEPT ![r] = current[r]]
  /\ UNCHANGED <<dedupVars, available, retryVars, streamVars, ctxDone>>

\* The connection cannot be flushed, so it cannot carry a stream.
RejectStream(r) ==
  /\ Goto(r, "ready", "releasing")
  /\ attempt[r] = 0
  /\ Reply(r)
  /\ UNCHANGED <<dedupVars, accountVars, retryVars, output, returned, panicked, ctxDone>>

-----------------------------------------------------------------------------
(* One attempt: resetRoundState, then SendRequestWithPayload.  While the call
   is open the upstream's events are handled one by one. *)

StartAttempt(r) ==
  /\ Goto(r, "ready", "calling")
  /\ attempt' = [attempt EXCEPT ![r] = @ + 1]
  /\ output' = [output EXCEPT ![r] = FALSE]
  /\ returned' = [returned EXCEPT ![r] = FALSE]
  /\ UNCHANGED <<dedupVars, accountVars, current, failed, retries, err,
                 refusedBy, replies, panicked, ctxDone>>

\* An event with content: text, thinking or a tool call.
Emit(r) ==
  /\ pc[r] = "calling"
  /\ ~output[r] /\ ~returned[r]
  /\ output' = [output EXCEPT ![r] = TRUE]
  /\ UNCHANGED <<pc, dedupVars, accountVars, retryVars, returned, replies,
                 panicked, ctxDone>>

\* A finish event, which ends the response before the call returns.
EmitFinish(r) ==
  /\ pc[r] = "calling"
  /\ output[r] /\ ~returned[r]
  /\ FinishResponse(r)
  /\ UNCHANGED <<pc, dedupVars, accountVars, retryVars, output, panicked, ctxDone>>

\* markWriteErrorLocked: the event was recorded but the client is gone.
WriteFails(r) ==
  /\ pc[r] = "calling"
  /\ ctxDone[r] /\ ~returned[r]
  /\ output' = [output EXCEPT ![r] = TRUE]
  /\ returned' = [returned EXCEPT ![r] = TRUE]
  /\ UNCHANGED <<pc, dedupVars, accountVars, retryVars, replies, panicked, ctxDone>>

\* The call returns nil; forceFinishIfMissing.
Succeed(r) ==
  /\ Goto(r, "calling", "answered")
  /\ FinishResponse(r)
  /\ UNCHANGED <<dedupVars, accountVars, retryVars, output, panicked, ctxDone>>

Fail(r, e) ==
  /\ Goto(r, "calling", "failed")
  /\ err' = [err EXCEPT ![r] = e]
  /\ UNCHANGED <<dedupVars, accountVars, current, failed, retries, attempt,
                 refusedBy, streamVars, ctxDone>>

\* A panic under the call unwinds the handler through its deferred functions.
Panic(r) ==
  /\ Goto(r, "calling", "releasing")
  /\ panicked' = [panicked EXCEPT ![r] = TRUE]
  /\ UNCHANGED <<dedupVars, accountVars, retryVars, output, returned, replies, ctxDone>>

-----------------------------------------------------------------------------
(* After a failed attempt: end the response, or retry. *)

\* Mutant: the loop forgets that events went out before the error.
NoOutput(r) == FALSE

HasAnyOutput(r) == output[r]

\* run() returns with the injected error as the end of the response.
EndWithError(r, from) ==
  /\ Goto(r, from, "answered")
  /\ FinishResponse(r)
  /\ UNCHANGED <<dedupVars, accountVars, retryVars, output, panicked, ctxDone>>

AbortAfterOutput(r) == HasAnyOutput(r) /\ EndWithError(r, "failed")

MarkAccount(r) ==
  /\ Goto(r, "failed", "deciding")
  /\ ~HasAnyOutput(r)
  /\ available' = [available EXCEPT ![current[r]] = @ /\ ~MarksAccount(err[r])]
  /\ UNCHANGED <<dedupVars, conns, tracked, retryVars, streamVars, ctxDone>>

OutOfRetries(r) == retries[r] <= 0

GiveUp(r) ==
  /\ pc[r] = "deciding"
  /\ ~Retryable(err[r]) \/ ctxDone[r] \/ OutOfRetries(r)
  /\ EndWithError(r, "deciding")

\* Mutant: trackedAccountID is not cleared when its connection is released.
ReleaseKeepsTracked(r) ==
  /\ conns' = IF tracked[r] = NoAccount THEN conns
              ELSE [conns EXCEPT ![tracked[r]] = IF @ > 0 THEN @ - 1 ELSE @]
  /\ UNCHANGED tracked

\* releaseTrackedAccount: never below zero.
ReleaseTracked(r) ==
  /\ conns' = IF tracked[r] = NoAccount THEN conns
              ELSE [conns EXCEPT ![tracked[r]] = IF @ > 0 THEN @ - 1 ELSE @]
  /\ tracked' = [tracked EXCEPT ![r] = NoAccount]

\* Mutant: the retry is not charged to the budget.
NotCharged(r) == UNCHANGED retries

ChargeRetry(r) == retries' = [retries EXCEPT ![r] = @ - 1]

\* Every retryable class switches account, so every retry starts by releasing
\* the account that failed.
SwitchAccount(r) ==
  /\ Goto(r, "deciding", "reselect")
  /\ Retryable(err[r]) /\ ~ctxDone[r] /\ ~OutOfRetries(r)
  /\ ChargeRetry(r)
  /\ failed' = [failed EXCEPT ![r] = @ \cup {current[r]}]
  /\ refusedBy' = [refusedBy EXCEPT ![r] =
                     IF RetriesSameAccount(err[r]) THEN @ ELSE @ \cup {current[r]}]
  /\ ReleaseTracked(r)
  /\ UNCHANGED <<dedupVars, available, current, attempt, err, streamVars, ctxDone>>

Reselect(r) ==
  /\ Goto(r, "reselect", "picked")
  /\ \E a \in LeastLoaded(Selectable(r)) : current' = [current EXCEPT ![r] = a]
  /\ UNCHANGED <<dedupVars, accountVars, failed, retries, attempt, err,
                 refusedBy, streamVars, ctxDone>>

\* Mutant: the account is called again without being acquired again.
RetrySameUntracked(r) ==
  /\ Goto(r, "reselect", "waiting")
  /\ Selectable(r) = {}
  /\ RetriesSameAccount(err[r])
  /\ UNCHANGED <<dedupVars, accountVars, retryVars, streamVars, ctxDone>>

\* No alternative, and the error is not the account's fault: call it again.
RetrySame(r) ==
  /\ Goto(r, "reselect", "picked")
  /\ Selectable(r) = {}
  /\ RetriesSameAccount(err[r])
  /\ UNCHANGED <<dedupVars, accountVars, retryVars, streamVars, ctxDone>>

\* Mutant: the request polls for an account instead of failing.
PollForAccount(r) ==
  /\ Goto(r, "reselect", "reselect")
  /\ Selectable(r) = {}
  /\ ~RetriesSameAccount(err[r])
  /\ UNCHANGED <<dedupVars, accountVars, retryVars, streamVars, ctxDone>>

NoAccountLeft(r) ==
  /\ pc[r] = "reselect"
  /\ Selectable(r) = {}
  /\ ~RetriesSameAccount(err[r])
  /\ EndWithError(r, "reselect")

\* The next turn of the loop has an err of its own.
Backoff(r) ==
  /\ Goto(r, "waiting", "ready")
  /\ err' = [err EXCEPT ![r] = {}]
  /\ UNCHANGED <<dedupVars, accountVars, current, failed, retries, attempt,
                 refusedBy, streamVars, ctxDone>>

\* SleepWithContext returns false.
BackoffCancelled(r) == ctxDone[r] /\ EndWithError(r, "waiting")

-----------------------------------------------------------------------------
(* The end of the handler and its deferred functions, last registered first:
   the tracked connection, the dedup keys, recover. *)

Finalize(r) ==
  /\ Goto(r, "answered", "releasing")
  /\ FinishResponse(r)
  /\ UNCHANGED <<dedupVars, accountVars, retryVars, output, panicked, ctxDone>>

ReleaseConn(r) ==
  /\ Goto(r, "releasing", "unwind")
  /\ ReleaseTracked(r)
  /\ UNCHANGED <<dedupVars, available, retryVars, streamVars, ctxDone>>

FinishHeld(r) ==
  /\ pc[r] = "unwind"
  /\ held[r] # {}
  /\ FinishKey(r, IF SemanticKey[r] \in held[r] THEN SemanticKey[r] ELSE ExactKey[r])
  /\ UNCHANGED <<pc, accountVars, retryVars, streamVars, ctxDone>>

\* The handler returns and its locals are gone.
Return(r) ==
  /\ Goto(r, "unwind", "done")
  /\ held[r] = {}
  /\ IF panicked[r] THEN Reply(r) ELSE UNCHANGED replies
  /\ current' = [current EXCEPT ![r] = NoAccount]
  /\ failed' = [failed EXCEPT ![r] = {}]
  /\ refusedBy' = [refusedBy EXCEPT ![r] = {}]
  /\ retries' = [retries EXCEPT ![r] = MaxRetries]
  /\ attempt' = [attempt EXCEPT ![r] = 0]
  /\ err' = [err EXCEPT ![r] = {}]
  /\ output' = [output EXCEPT ![r] = FALSE]
  /\ returned' = [returned EXCEPT ![r] = FALSE]
  /\ UNCHANGED <<dedupVars, accountVars, panicked, ctxDone>>

-----------------------------------------------------------------------------
(* The environment. *)

Disconnect(r) ==
  /\ pc[r] \notin {"new", "done"}
  /\ ~ctxDone[r]
  /\ ctxDone' = [ctxDone EXCEPT ![r] = TRUE]
  /\ UNCHANGED <<pc, dedupVars, accountVars, retryVars, streamVars>>

WindowPasses(k) ==
  /\ recent[k]
  /\ recent' = [recent EXCEPT ![k] = FALSE]
  /\ UNCHANGED <<pc, inFlight, held, accountVars, retryVars, streamVars, ctxDone>>

CooldownEnds(a) ==
  /\ ~available[a]
  /\ available' = [available EXCEPT ![a] = TRUE]
  /\ UNCHANGED <<pc, dedupVars, conns, tracked, retryVars, streamVars, ctxDone>>

-----------------------------------------------------------------------------
Arrive(r) == BypassDedup(r) \/ RegisterExact(r) \/ ExactDuplicate(r)

Dispatch(r) ==
  \/ RegisterSemantic(r) \/ SemanticDuplicate(r) \/ FinishRejected(r)
  \/ AnswerLocally(r) \/ SelectAccount(r) \/ SelectFails(r)
  \/ Acquire(r) \/ RejectStream(r)

Call(r) ==
  \/ StartAttempt(r) \/ Emit(r) \/ EmitFinish(r) \/ WriteFails(r)
  \/ Succeed(r) \/ (\E e \in Errors : Fail(r, e)) \/ Panic(r)

Decide(r) ==
  \/ AbortAfterOutput(r) \/ MarkAccount(r) \/ GiveUp(r) \/ SwitchAccount(r)
  \/ Reselect(r) \/ RetrySame(r) \/ NoAccountLeft(r)
  \/ Backoff(r) \/ BackoffCancelled(r)

Unwind(r) == Finalize(r) \/ ReleaseConn(r) \/ FinishHeld(r) \/ Return(r)

\* What the goroutine of an admitted request does.
Progress(r) == Dispatch(r) \/ Call(r) \/ Decide(r) \/ Unwind(r)

Environment ==
  \/ \E r \in Requests : Disconnect(r)
  \/ \E k \in Keys : WindowPasses(k)
  \/ \E a \in Accounts : CooldownEnds(a)

Next ==
  \/ \E r \in Requests : Arrive(r) \/ Progress(r)
  \/ Environment

\* A goroutine that can run does, and an upstream call returns: every client
\* of an upstream bounds its calls with a timeout.  Nothing is assumed of the
\* clients, of the window or of the cooldowns.
Fairness == \A r \in Requests : WF_vars(Progress(r))

Spec == Init /\ [][Next]_vars
FairSpec == Spec /\ Fairness

-----------------------------------------------------------------------------
(* Properties.  TypeOK is above. *)

\* A connection counter is the number of requests that hold the account: an
\* account switch, an early return or a panic neither leaks a connection nor
\* gives back one of another request (acquire/releaseTrackedAccount).
ConnsExact ==
  \A a \in Accounts : conns[a] = Cardinality({r \in Requests : tracked[r] = a})

\* The in-flight count of a dedup key is the number of requests that must still
\* finish it, on every path out of the handler (registerRequest, finishRequest).
InFlightExact ==
  \A k \in Keys : inFlight[k] = Cardinality({r \in Requests : k \in held[r]})

\* Every upstream call is made on an account that is counted for this request,
\* so that least-connections selection sees it (the run loop's switch).
CallIsCounted ==
  \A r \in Requests : pc[r] = "calling" => /\ current[r] \in Accounts
                                           /\ tracked[r] = current[r]
                                           /\ conns[current[r]] > 0

\* An account whose refusal was about the account itself (auth, rate limit,
\* session conflict) is never called again by the same request.
RefusedNeverCalledAgain ==
  \A r \in Requests : pc[r] = "calling" => current[r] \notin refusedBy[r]

\* A request makes at most MaxRetries + 1 upstream calls.
AttemptsBounded == \A r \in Requests : attempt[r] <= MaxRetries + 1

OneReplyOf(r) ==
  /\ replies[r] <= IF panicked[r] THEN 2 ELSE 1
  /\ pc[r] = "done" => replies[r] > 0 \/ ctxDone[r]

\* The client gets one terminal answer, unless it is gone; only a panic may add
\* an error event after the response was finished (hasReturn, recover).
OneReply == \A r \in Requests : OneReplyOf(r)

\* A handler that returned holds no connection and no dedup key.
NothingHeldWhenDone ==
  \A r \in Requests : pc[r] = "done" => held[r] = {} /\ tracked[r] = NoAccount

\* No second upstream call once an attempt has produced output: the client
\* would see the text twice and be billed twice (sh.hasAnyOutput).
NoRetryAfterOutput ==
  [][\A r \in Requests : attempt'[r] > attempt[r] => ~output[r]]_vars

\* Every admitted request returns, whatever its upstreams answer and however
\* the other requests act on the accounts.
Termination == \A r \in Requests : pc[r] # "new" ~> pc[r] = "done"
=============================================================================
