-------------------------- MODULE CodebuffProvider --------------------------
(***************************************************************************)
(* Calls of codebuff with one token (internal/codebuff/provider.go,        *)
(* session.go, client.go, runs.go).  Upstream a token has one session, for *)
(* one model; the server remembers a session per model in Redis, whether   *)
(* or not upstream still has it, and creates one under a lock per model.   *)
(* A session is "live" when it is the one upstream has, else "dead".       *)
(*                                                                         *)
(* Every call of Redis or of the upstream is a step, so requests           *)
(* interleave between them.                                                *)
(***************************************************************************)
EXTENDS Naturals, FiniteSets

CONSTANTS
  Chats,
  Models,      \* ModelConfig.SessionID()
  NoModel,
  Faults,      \* what a call may fail with
  MaxSessionRetries, MaxCreateRetries   \* 1 and 1

ASSUME ProviderAssumption ==
  /\ NoModel \notin Models \cup Chats
  /\ MaxSessionRetries \in Nat \ {0} /\ MaxCreateRetries \in Nat

VARIABLES
  upstream,       \* the model of the token's session, or NoModel
  cache, lock,    \* Redis, by model
  providerPc, providerModel,
  sess,           \* the session a request holds: "none", "live" or "dead"
  cycle, tries,   \* sessionRetry, attempt
  providerErr,
  disturbed,      \* history: a call failed, or others touched the token's session, or
                  \* saved one that was gone
  lockExpired     \* history: a lock expired while it was held

redis    == <<cache, lock>>
calls    == <<sess, cycle, tries, providerErr>>
providerHistory  == <<disturbed, lockExpired>>
providerVars == <<upstream, redis, providerPc, providerModel, calls, providerHistory>>

SessionErrors == {"model_locked", "waiting_room_required", "session_model_mismatch"}

ProviderInit ==
  /\ upstream = NoModel
  /\ cache = [m \in Models |-> "none"] /\ lock = [m \in Models |-> FALSE]
  /\ providerPc = [r \in Chats |-> "idle"] /\ providerModel = [r \in Chats |-> NoModel]
  /\ sess = [r \in Chats |-> "none"]
  /\ cycle = [r \in Chats |-> 0] /\ tries = [r \in Chats |-> 0]
  /\ providerErr = [r \in Chats |-> "none"]
  /\ disturbed = {} /\ lockExpired = FALSE

-----------------------------------------------------------------------------
ProviderGoto(r, from, to) == providerPc[r] = from /\ providerPc' = [providerPc EXCEPT ![r] = to]

Active == {r \in Chats : providerPc[r] \notin {"idle", "done", "failed"}}

Fails(r, from, to, e) == ProviderGoto(r, from, to) /\ providerErr' = [providerErr EXCEPT ![r] = e]

\* A call of r fails by itself.
Faulty(r, from, to) ==
  /\ \E e \in Faults : Fails(r, from, to, e)
  /\ disturbed' = disturbed \cup {r}
  /\ UNCHANGED <<upstream, cache, lock, providerModel, sess, lockExpired>>

Dead(s) == IF s = "live" THEN "dead" ELSE s

\* Upstream drops the session it has; what the server remembers of it is dead.
Supersede(m, r, holds) ==
  /\ upstream' = m
  /\ cache' = [n \in Models |-> Dead(cache[n])]
  /\ sess' = [q \in Chats |-> IF q = r THEN holds ELSE Dead(sess[q])]
  /\ disturbed' = disturbed \cup (Active \ {r})

Arrive(r, m) ==
  /\ ProviderGoto(r, "idle", "load")
  /\ providerModel' = [providerModel EXCEPT ![r] = m]
  /\ UNCHANGED <<upstream, redis, calls, providerHistory>>

-----------------------------------------------------------------------------
(* EnsureSession. *)

\* A cached session with enough time left is trusted.
SessionHit(r, from) ==
  /\ ProviderGoto(r, from, "runs")
  /\ cache[providerModel[r]] # "none"
  /\ sess' = [sess EXCEPT ![r] = cache[providerModel[r]]]
  /\ UNCHANGED <<upstream, redis, providerModel, cycle, tries, providerErr, providerHistory>>

SessionMiss(r) ==
  /\ ProviderGoto(r, "load", "lock") /\ cache[providerModel[r]] = "none"
  /\ UNCHANGED <<upstream, redis, providerModel, calls, providerHistory>>

\* Redis fails: a read counts as a miss, the lock as a refusal.
LoadFails(r) ==
  /\ ProviderGoto(r, "load", "lock") /\ disturbed' = disturbed \cup {r}
  /\ UNCHANGED <<upstream, redis, providerModel, calls, lockExpired>>

LockFails(r) ==
  /\ Fails(r, "lock", "refused", "redis lock error") /\ disturbed' = disturbed \cup {r}
  /\ UNCHANGED <<upstream, redis, providerModel, sess, cycle, tries, lockExpired>>

\* Mutant: the lock is not looked at.
LockAnyway(r) ==
  /\ ProviderGoto(r, "lock", "create")
  /\ lock' = [lock EXCEPT ![providerModel[r]] = TRUE]
  /\ UNCHANGED <<upstream, cache, providerModel, calls, providerHistory>>

\* SETNX.
Lock(r) ==
  /\ ProviderGoto(r, "lock", "create")
  /\ ~lock[providerModel[r]]
  /\ lock' = [lock EXCEPT ![providerModel[r]] = TRUE]
  /\ UNCHANGED <<upstream, cache, providerModel, calls, providerHistory>>

LockHeld(r) ==
  /\ ProviderGoto(r, "lock", "poll")
  /\ lock[providerModel[r]]
  /\ disturbed' = disturbed \cup {r}
  /\ UNCHANGED <<upstream, redis, providerModel, calls, lockExpired>>

PollTimeout(r) ==
  /\ Fails(r, "poll", "refused", "timeout")
  /\ UNCHANGED <<upstream, redis, providerModel, sess, cycle, tries, providerHistory>>

\* POST session.  Upstream may first queue it, and refuses while the token has a
\* session for another model.
CreateSession(r) ==
  /\ providerPc[r] \in {"create", "recreate"}
  /\ UNCHANGED <<lock, providerModel, cycle, tries, lockExpired>>
  /\ \/ /\ upstream \in {NoModel, providerModel[r]}
        /\ ProviderGoto(r, providerPc[r], "save")
        /\ Supersede(providerModel[r], r, "live") /\ UNCHANGED providerErr
     \/ /\ upstream \in {NoModel, providerModel[r]}
        /\ ProviderGoto(r, providerPc[r], "queued")
        /\ UNCHANGED <<upstream, cache, sess, providerErr, disturbed>>
     \/ /\ upstream \notin {NoModel, providerModel[r]}
        /\ IF providerPc[r] = "create"
           THEN ProviderGoto(r, "create", "delete") /\ UNCHANGED providerErr
           ELSE Fails(r, "recreate", "unlock", "model_locked")
        /\ UNCHANGED <<upstream, cache, sess, disturbed>>
     \/ Faulty(r, providerPc[r], "unlock")

\* waitForActiveSession; an answer without an instance gives no session.
Queued(r) ==
  /\ UNCHANGED <<lock, providerModel, cycle, tries, lockExpired>>
  /\ \/ ProviderGoto(r, "queued", "save") /\ Supersede(providerModel[r], r, "live") /\ UNCHANGED providerErr
     \/ /\ ProviderGoto(r, "queued", "save")
        /\ sess' = [sess EXCEPT ![r] = "none"] /\ disturbed' = disturbed \cup {r}
        /\ UNCHANGED <<upstream, cache, providerErr>>
     \/ Faulty(r, "queued", "unlock")

\* DELETE session, which drops the token's session whatever its model; its
\* failure is ignored.
DeleteLocked(r) ==
  /\ ProviderGoto(r, "delete", "forget")
  /\ \/ Supersede(NoModel, r, Dead(sess[r]))
     \/ disturbed' = disturbed \cup {r} /\ UNCHANGED <<upstream, cache, sess>>
  /\ UNCHANGED <<lock, providerModel, cycle, tries, providerErr, lockExpired>>

Forget(r) ==
  /\ ProviderGoto(r, "forget", "recreate")
  /\ cache' = [cache EXCEPT ![providerModel[r]] = "none"]
  /\ UNCHANGED <<upstream, lock, providerModel, calls, providerHistory>>

\* A session with little time left is saved and never used, as if it were not.  One
\* that upstream has dropped by now is saved as if it were there.
SaveSession(r) ==
  /\ ProviderGoto(r, "save", "unlock")
  /\ cache' \in {[cache EXCEPT ![providerModel[r]] = s] : s \in {sess[r], "none"}}
  /\ disturbed' = IF sess[r] = "dead" THEN disturbed \cup (Active \ {r}) ELSE disturbed
  /\ UNCHANGED <<upstream, lock, providerModel, calls, lockExpired>>

\* The deferred DEL, whoever holds the lock by now.
Unlock(r) ==
  /\ ProviderGoto(r, "unlock", IF providerErr[r] = "none" THEN "runs" ELSE "refused")
  /\ lock' = [lock EXCEPT ![providerModel[r]] = FALSE]
  /\ UNCHANGED <<upstream, cache, providerModel, calls, providerHistory>>

-----------------------------------------------------------------------------
(* SendRequestWithPayload. *)

\* Mutant: what was remembered is kept.
EvictNothing(r) == cache' = cache

EvictSession(r) == cache' = [cache EXCEPT ![providerModel[r]] = "none"]

\* Forget the session and try once more.
AcquireAgain(r) ==
  /\ ProviderGoto(r, "refused", "load") /\ EvictSession(r)
  /\ providerErr[r] \in SessionErrors /\ tries[r] < MaxCreateRetries
  /\ tries' = [tries EXCEPT ![r] = @ + 1] /\ providerErr' = [providerErr EXCEPT ![r] = "none"]
  /\ UNCHANGED <<upstream, lock, providerModel, sess, cycle, providerHistory>>

AcquireFails(r) ==
  /\ ProviderGoto(r, "refused", "failed")
  /\ ~(providerErr[r] \in SessionErrors /\ tries[r] < MaxCreateRetries)
  /\ UNCHANGED <<upstream, cache, lock, providerModel, calls, providerHistory>>

\* Two runs are started; without a session the call ends before.
StartRunChain(r) ==
  /\ UNCHANGED <<redis, upstream, providerModel, sess, cycle, tries, lockExpired>>
  /\ \/ sess[r] # "none" /\ ProviderGoto(r, "runs", "chat") /\ UNCHANGED <<providerErr, disturbed>>
     \/ sess[r] = "none" /\ Fails(r, "runs", "failed", "no session") /\ UNCHANGED disturbed
     \/ Faulty(r, "runs", "failed")

\* POST chat/completions, with the instance of the session; the reply is read as a
\* stream or as a body, as the caller asked.
ChatCompletions(r) ==
  /\ UNCHANGED <<redis, upstream, providerModel, sess, cycle, tries, lockExpired>>
  /\ \/ /\ sess[r] = "live" /\ UNCHANGED <<providerErr, disturbed>>
        /\ ProviderGoto(r, "chat", "stream") \/ ProviderGoto(r, "chat", "body")
     \/ /\ sess[r] = "dead" /\ UNCHANGED disturbed
        /\ Fails(r, "chat", "chat failed",
                 IF upstream \in {NoModel, providerModel[r]} THEN "waiting_room_required" ELSE "model_locked")
     \/ Faulty(r, "chat", "chat failed")

\* The cycle starts over after a session error, before anything was sent.
ChatAgain(r) ==
  /\ ProviderGoto(r, "chat failed", "load") /\ EvictSession(r)
  /\ providerErr[r] \in SessionErrors /\ cycle[r] < MaxSessionRetries
  /\ cycle' = [cycle EXCEPT ![r] = @ + 1]
  /\ tries' = [tries EXCEPT ![r] = 0]
  /\ providerErr' = [providerErr EXCEPT ![r] = "none"] /\ sess' = [sess EXCEPT ![r] = "none"]
  /\ UNCHANGED <<upstream, lock, providerModel, providerHistory>>

ChatFails(r) ==
  /\ ProviderGoto(r, "chat failed", "failed")
  /\ ~(providerErr[r] \in SessionErrors /\ cycle[r] < MaxSessionRetries)
  /\ UNCHANGED <<upstream, cache, lock, providerModel, calls, providerHistory>>

\* Lines of the stream are handed on as they come; the scanner may fail.
streamChatRaw(r) ==
  /\ UNCHANGED <<upstream, redis, providerModel, sess, cycle, tries, lockExpired>>
  /\ \/ ProviderGoto(r, "stream", "done") /\ UNCHANGED <<providerErr, disturbed>>
     \/ /\ Fails(r, "stream", "failed", "stream error")
        /\ disturbed' = disturbed \cup {r}

\* The whole body, which may not be JSON.
completeChat(r) ==
  /\ UNCHANGED <<upstream, redis, providerModel, sess, cycle, tries, lockExpired>>
  /\ \/ ProviderGoto(r, "body", "done") /\ UNCHANGED <<providerErr, disturbed>>
     \/ /\ Fails(r, "body", "failed", "decode error")
        /\ disturbed' = disturbed \cup {r}

Request(r) ==
  \/ \E m \in Models : Arrive(r, m)
  \/ SessionHit(r, "load") \/ SessionMiss(r) \/ LoadFails(r) \/ Lock(r) \/ LockFails(r) \/ LockHeld(r)
  \/ SessionHit(r, "poll") \/ PollTimeout(r)
  \/ CreateSession(r)
  \/ Queued(r) \/ DeleteLocked(r) \/ Forget(r) \/ SaveSession(r) \/ Unlock(r)
  \/ AcquireAgain(r) \/ AcquireFails(r) \/ StartRunChain(r)
  \/ ChatCompletions(r) \/ ChatAgain(r) \/ ChatFails(r)
  \/ streamChatRaw(r) \/ completeChat(r)

-----------------------------------------------------------------------------
(* Time, and other users of the token. *)

\* The session ends, or someone else opens one.
UpstreamMoves(m) ==
  /\ upstream # m
  /\ Supersede(m, NoModel, "none")
  /\ UNCHANGED <<lock, providerPc, providerModel, cycle, tries, providerErr, lockExpired>>

\* The lock outlives its time to live.
LockExpires(m) ==
  /\ lock[m] /\ lock' = [lock EXCEPT ![m] = FALSE]
  /\ lockExpired' = TRUE /\ disturbed' = disturbed \cup Active
  /\ UNCHANGED <<upstream, cache, providerPc, providerModel, calls>>

CacheExpires(m) ==
  /\ cache[m] # "none" /\ cache' = [cache EXCEPT ![m] = "none"]
  /\ UNCHANGED <<upstream, lock, providerPc, providerModel, calls, providerHistory>>

ProviderNext ==
  \/ \E r \in Chats : Request(r)
  \/ \E m \in Models \cup {NoModel} : UpstreamMoves(m)
  \/ \E m \in Models : LockExpires(m) \/ CacheExpires(m)

ProviderSpec == ProviderInit /\ [][ProviderNext]_providerVars

-----------------------------------------------------------------------------
(* Correctness. *)

\* A request succeeds if its calls do and, while it runs, nobody else touches the
\* token's session or saves one that is gone, however stale what the server remembers
\* before and whatever model the token's session is for: at most one cycle is lost.
UndisturbedSucceeds == \A r \in Chats : providerPc[r] = "failed" => r \in disturbed

Creating(m) ==
  {r \in Chats : providerModel[r] = m
     /\ providerPc[r] \in {"create", "queued", "delete", "forget", "recreate", "save", "unlock"}}

\* Until a lock expires under its holder, one request at a time creates a session
\* for a model: two would each take the other's away.
OneCreator == lockExpired \/ \A m \in Models : Cardinality(Creating(m)) <= 1
=============================================================================
