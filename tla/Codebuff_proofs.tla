--------------------------- MODULE Codebuff_proofs ---------------------------
(***************************************************************************)
(* Proofs about the modules of internal/codebuff, for any requests, models *)
(* and times.  CodebuffProvider: the lock of a model keeps its creations   *)
(* apart, and a request that nobody disturbs succeeds.  CodebuffQuota: a   *)
(* refused model is not selected before its time, and the page shows       *)
(* figures of the day.  CodebuffRuns: a chat leaves its runs finished.     *)
(* CodebuffTelemetry: the figures of a range fit what was recorded.        *)
(***************************************************************************)
EXTENDS CodebuffProvider, CodebuffQuota, CodebuffRuns, CodebuffTelemetry, Integers, TLAPS, FiniteSetTheorems,
        WellFoundedInduction

USE DEF redis, calls, providerHistory

Places ==
  {"idle", "load", "lock", "poll", "create", "recreate", "queued", "delete", "forget", "save", "unlock",
   "refused", "runs", "chat", "chat failed", "stream", "body", "done", "failed"}

\* Between SETNX and the deferred DEL.
Inside == {"create", "queued", "delete", "forget", "recreate", "save", "unlock"}

ProviderTypeOK ==
  /\ providerPc \in [Chats -> Places] /\ lock \in [Models -> BOOLEAN]
  /\ \A r \in Chats : providerPc[r] # "idle" => providerModel[r] \in Models
  /\ DOMAIN providerModel = Chats

\* Who creates a session holds the lock of its model, and nobody else does.
Holder(r) ==
  providerPc[r] \in Inside =>
    lock[providerModel[r]] /\ \A q \in Chats : providerPc[q] \in Inside /\ providerModel[q] = providerModel[r] => q = r

Locked == lockExpired \/ \A r \in Chats : Holder(r)

LockInv == ProviderTypeOK /\ Locked

-----------------------------------------------------------------------------
\* A step of one request that leaves the locks alone and does not begin a creation.
Moves(r) ==
  /\ UNCHANGED <<lock, providerModel, lockExpired>>
  /\ providerPc[r] # "idle" /\ providerPc' \in [Chats -> Places]
  /\ \A q \in Chats : q # r => providerPc'[q] = providerPc[q]
  /\ providerPc'[r] # "idle" /\ (providerPc'[r] \in Inside => providerPc[r] \in Inside)

LEMMA GotoMoves ==
  ASSUME LockInv, NEW r \in Chats, NEW from \in Places \ {"idle"}, NEW to \in Places \ {"idle"},
         to \in Inside => from \in Inside,
         ProviderGoto(r, from, to), UNCHANGED <<lock, providerModel, lockExpired>>
  PROVE  Moves(r)
BY DEF LockInv, ProviderTypeOK, ProviderGoto, Moves, Places, Inside

LEMMA MovesInv == ASSUME LockInv, NEW r \in Chats, Moves(r) PROVE LockInv'
<1>1. ProviderTypeOK'
  BY DEF LockInv, ProviderTypeOK, Moves
<1>2. CASE lockExpired
  BY <1>1, <1>2 DEF LockInv, Locked, Moves
<1>3. CASE ~lockExpired
  <2>1. \A q \in Chats : providerPc'[q] \in Inside => providerPc[q] \in Inside
    BY DEF Moves
  <2>2. \A q \in Chats : Holder(q)'
    BY <1>3, <2>1 DEF LockInv, Locked, Holder, Moves
  <2>3. QED
    BY <1>1, <2>2 DEF LockInv, Locked
<1>4. QED
  BY <1>2, <1>3

\* A request arrives: its model is known before it does anything.
LEMMA ArriveInv == ASSUME LockInv, NEW r \in Chats, NEW m \in Models, Arrive(r, m) PROVE LockInv'
<1>1. /\ providerPc[r] = "idle" /\ providerPc' = [providerPc EXCEPT ![r] = "load"] /\ providerModel' = [providerModel EXCEPT ![r] = m]
      /\ UNCHANGED <<lock, lockExpired>>
  BY DEF Arrive, ProviderGoto
<1>2. ProviderTypeOK'
  BY <1>1 DEF LockInv, ProviderTypeOK, Places
<1>3. \A q \in Chats : providerPc'[q] \in Inside => q # r /\ providerPc[q] \in Inside /\ providerModel'[q] = providerModel[q]
  BY <1>1 DEF LockInv, ProviderTypeOK, Inside
<1>4. Locked'
  BY <1>1, <1>3 DEF LockInv, Locked, Holder
<1>5. QED
  BY <1>2, <1>4 DEF LockInv

\* SETNX: the lock was free, so nobody was creating.
LEMMA TakeInv == ASSUME LockInv, NEW r \in Chats, Lock(r) PROVE LockInv'
<1>1. /\ providerPc[r] = "lock" /\ providerPc' = [providerPc EXCEPT ![r] = "create"] /\ lock' = [lock EXCEPT ![providerModel[r]] = TRUE]
      /\ ~lock[providerModel[r]] /\ UNCHANGED <<providerModel, lockExpired>>
  BY DEF Lock, ProviderGoto
<1>2. providerModel[r] \in Models
  BY <1>1 DEF LockInv, ProviderTypeOK
<1>3. ProviderTypeOK'
  BY <1>1, <1>2 DEF LockInv, ProviderTypeOK, Places
<1>4. CASE lockExpired
  BY <1>1, <1>3, <1>4 DEF LockInv, Locked
<1>5. CASE ~lockExpired
  <2>1. \A q \in Chats : q # r /\ providerPc'[q] \in Inside => providerPc[q] \in Inside /\ providerModel[q] \in Models /\ lock[providerModel[q]]
    BY <1>1, <1>5 DEF LockInv, Locked, Holder, ProviderTypeOK, Inside
  <2>2. \A q \in Chats : q # r /\ providerPc'[q] \in Inside => providerModel[q] # providerModel[r]
    BY <1>1, <2>1
  <2>3. Holder(r)'
    BY <1>1, <1>2, <2>2 DEF Holder, LockInv, ProviderTypeOK
  <2>4. ASSUME NEW q \in Chats, q # r PROVE Holder(q)'
    <3>1. SUFFICES ASSUME providerPc'[q] \in Inside PROVE lock'[providerModel[q]] /\ \A p \in Chats : providerPc'[p] \in Inside /\ providerModel[p] = providerModel[q] => p = q
      BY <1>1 DEF Holder
    <3>2. lock'[providerModel[q]]
      BY <1>1, <2>1, <2>2, <2>4, <3>1 DEF LockInv, ProviderTypeOK
    <3>3. \A p \in Chats : providerPc'[p] \in Inside /\ providerModel[p] = providerModel[q] => p = q
      BY <1>5, <2>1, <2>2, <2>4, <3>1 DEF LockInv, Locked, Holder
    <3>4. QED
      BY <3>2, <3>3
  <2>5. QED
    BY <1>3, <2>3, <2>4 DEF LockInv, Locked
<1>6. QED
  BY <1>4, <1>5

\* The deferred DEL frees the lock of one that nobody else was under.
LEMMA UnlockInv == ASSUME LockInv, NEW r \in Chats, Unlock(r) PROVE LockInv'
<1>1. /\ providerPc[r] = "unlock" /\ lock' = [lock EXCEPT ![providerModel[r]] = FALSE] /\ UNCHANGED <<providerModel, lockExpired>>
  BY DEF Unlock, ProviderGoto
<1>2. PICK to \in {"runs", "refused"} : providerPc' = [providerPc EXCEPT ![r] = to]
  BY DEF Unlock, ProviderGoto
<1>3. ProviderTypeOK'
  BY <1>1, <1>2 DEF LockInv, ProviderTypeOK, Places
<1>4. CASE lockExpired
  BY <1>1, <1>3, <1>4 DEF LockInv, Locked
<1>5. CASE ~lockExpired
  <2>1. \A q \in Chats : providerPc'[q] \in Inside => q # r /\ providerPc[q] \in Inside /\ providerModel[q] \in Models
    BY <1>2 DEF LockInv, ProviderTypeOK, Inside
  <2>2. \A q \in Chats : providerPc'[q] \in Inside => providerModel[q] # providerModel[r]
    BY <1>1, <1>5, <2>1 DEF LockInv, Locked, Holder, Inside
  <2>3. \A q \in Chats : providerPc'[q] \in Inside => lock'[providerModel[q]] = lock[providerModel[q]]
    BY <1>1, <2>1, <2>2 DEF LockInv, ProviderTypeOK
  <2>4. \A q \in Chats : Holder(q)'
    BY <1>1, <1>5, <2>1, <2>3 DEF LockInv, Locked, Holder
  <2>5. QED
    BY <1>3, <2>4 DEF LockInv, Locked
<1>6. QED
  BY <1>4, <1>5

LEMMA RequestInv == ASSUME LockInv, NEW r \in Chats, Request(r) PROVE LockInv'
<1>. USE DEF Places, Inside
<1>1. ASSUME NEW m \in Models, Arrive(r, m) PROVE LockInv'
  BY <1>1, ArriveInv
<1>2. CASE Lock(r)
  BY <1>2, TakeInv
<1>3. CASE Unlock(r)
  BY <1>3, UnlockInv
<1>4. CASE SessionHit(r, "load") \/ SessionHit(r, "poll") \/ SessionMiss(r) \/ LoadFails(r) \/ LockFails(r) \/ LockHeld(r) \/ PollTimeout(r)
  <2>1. Moves(r)
    BY <1>4, GotoMoves DEF SessionHit, SessionMiss, LoadFails, LockFails, LockHeld, PollTimeout, Fails
  <2>2. QED
    BY <2>1, MovesInv
<1>5. CASE CreateSession(r)
  <2>1. Moves(r)
    BY <1>5, GotoMoves DEF CreateSession, Supersede, Fails, Faulty
  <2>2. QED
    BY <2>1, MovesInv
<1>6. CASE Queued(r) \/ DeleteLocked(r) \/ Forget(r) \/ SaveSession(r)
  <2>1. Moves(r)
    BY <1>6, GotoMoves DEF Queued, DeleteLocked, Forget, SaveSession, Supersede, Faulty, Fails
  <2>2. QED
    BY <2>1, MovesInv
<1>7. CASE AcquireAgain(r) \/ AcquireFails(r) \/ StartRunChain(r) \/ ChatCompletions(r)
  <2>1. Moves(r)
    BY <1>7, GotoMoves DEF AcquireAgain, AcquireFails, StartRunChain, ChatCompletions, Faulty, Fails
  <2>2. QED
    BY <2>1, MovesInv
<1>8. CASE ChatAgain(r) \/ ChatFails(r) \/ streamChatRaw(r) \/ completeChat(r)
  <2>1. Moves(r)
    BY <1>8, GotoMoves DEF ChatAgain, ChatFails, streamChatRaw, completeChat, Fails
  <2>2. QED
    BY <2>1, MovesInv
<1>9. QED
  BY <1>1, <1>2, <1>3, <1>4, <1>5, <1>6, <1>7, <1>8 DEF Request

LEMMA LockStep == LockInv /\ [ProviderNext]_providerVars => LockInv'
<1>. SUFFICES ASSUME LockInv, [ProviderNext]_providerVars PROVE LockInv'
  OBVIOUS
<1>1. ASSUME NEW r \in Chats, Request(r) PROVE LockInv'
  BY <1>1, RequestInv
<1>2. CASE \E m \in Models \cup {NoModel} : UpstreamMoves(m)
  BY <1>2 DEF UpstreamMoves, LockInv, ProviderTypeOK, Locked, Holder
<1>3. ASSUME NEW m \in Models, LockExpires(m) PROVE LockInv'
  BY <1>3 DEF LockExpires, LockInv, ProviderTypeOK, Locked
<1>4. ASSUME NEW m \in Models, CacheExpires(m) PROVE LockInv'
  BY <1>4 DEF CacheExpires, LockInv, ProviderTypeOK, Locked, Holder
<1>5. CASE UNCHANGED providerVars
  BY <1>5 DEF providerVars, LockInv, ProviderTypeOK, Locked, Holder
<1>6. QED
  BY <1>1, <1>2, <1>3, <1>4, <1>5 DEF ProviderNext

\* However many requests look for sessions of however many models, fail, are queued or
\* start over: until a lock expires under its holder, one at a time is between SETNX
\* and DEL of a model (EnsureSession, lockTTL).
THEOREM CreatorCorrect == ProviderSpec => []OneCreator
<1>1. ProviderInit => LockInv
  BY DEF ProviderInit, LockInv, ProviderTypeOK, Locked, Holder, Places, Inside
<1>2. LockInv => OneCreator
  <2>1. SUFFICES ASSUME LockInv, ~lockExpired, NEW m \in Models PROVE Cardinality(Creating(m)) <= 1
    BY DEF OneCreator
  <2>2. \A r, q \in Creating(m) : r = q
    BY <2>1 DEF LockInv, Locked, Holder, Creating, Inside
  <2>3. CASE Creating(m) = {}
    BY <2>3, FS_EmptySet
  <2>4. ASSUME NEW r \in Creating(m) PROVE Cardinality(Creating(m)) <= 1
    <3>1. Creating(m) = {r}
      BY <2>2, <2>4
    <3>2. QED
      BY <3>1, FS_Singleton
  <2>5. QED
    BY <2>3, <2>4
<1>3. QED
  BY <1>1, <1>2, LockStep, PTL DEF ProviderSpec

-----------------------------------------------------------------------------
(* A request that nobody disturbs. *)

Kept == {"none", "live", "dead"}

CallsTypeOK ==
  /\ upstream \in Models \cup {NoModel}
  /\ cache \in [Models -> Kept] /\ sess \in [Chats -> Kept]
  /\ cycle \in [Chats -> Nat] /\ DOMAIN providerErr = Chats

\* Until it has a session it has no error; what it creates is live; what it finds may be
\* dead in the first cycle only, which the second begins by forgetting.
OnCourse(r) ==
  /\ providerPc[r] \notin {"poll", "refused", "failed"}
  /\ providerPc[r] # "chat failed" => providerErr[r] = "none"
  /\ providerPc[r] = "idle" => cycle[r] = 0
  /\ providerPc[r] = "load" /\ cycle[r] > 0 => cache[providerModel[r]] # "dead"
  /\ providerPc[r] \in {"forget", "recreate"} => upstream = NoModel
  /\ providerPc[r] \in {"save", "unlock"} => sess[r] = "live"
  /\ providerPc[r] \in {"runs", "chat"} => sess[r] = "live" \/ (sess[r] = "dead" /\ cycle[r] = 0)
  /\ providerPc[r] = "chat failed" => cycle[r] = 0 /\ providerErr[r] \in SessionErrors

CourseInv ==
  /\ ProviderTypeOK /\ CallsTypeOK
  /\ \A r \in Chats : r \notin disturbed => OnCourse(r)

\* What a step of r leaves alone: the own state of the others, and the token's session as
\* those see it that stay undisturbed.
LeavesAlone(r) ==
  /\ disturbed \subseteq disturbed'
  /\ \A q \in Chats \ {r} :
       /\ providerPc'[q] = providerPc[q] /\ providerModel'[q] = providerModel[q]
       /\ providerErr'[q] = providerErr[q] /\ cycle'[q] = cycle[q]
       /\ q \in Active /\ q \notin disturbed' =>
            /\ upstream' = upstream /\ sess'[q] = sess[q]
            /\ cache'[providerModel[q]] = "dead" => cache[providerModel[q]] = "dead"

LEMMA OthersOnCourse ==
  ASSUME CourseInv, NEW r, LeavesAlone(r), NEW q \in Chats \ {r}, q \notin disturbed'
  PROVE  OnCourse(q)'
<1>1. OnCourse(q)
  BY DEF CourseInv, LeavesAlone
<1>2. /\ providerPc'[q] = providerPc[q] /\ providerModel'[q] = providerModel[q]
      /\ providerErr'[q] = providerErr[q] /\ cycle'[q] = cycle[q]
  BY DEF LeavesAlone
<1>3. CASE q \in Active
  <2>1. /\ upstream' = upstream /\ sess'[q] = sess[q]
        /\ cache'[providerModel[q]] = "dead" => cache[providerModel[q]] = "dead"
    BY <1>3 DEF LeavesAlone
  <2>2. QED
    BY <1>1, <1>2, <2>1 DEF OnCourse
<1>4. CASE q \notin Active
  <2>1. providerPc[q] \in {"idle", "done", "failed"}
    BY <1>4 DEF Active
  <2>2. QED
    BY <1>1, <1>2, <2>1 DEF OnCourse
<1>5. QED
  BY <1>3, <1>4

\* So a step of r is right when it leaves the others alone and r on its course.
Fine(r) == CallsTypeOK' /\ LeavesAlone(r) /\ (r \notin disturbed' => OnCourse(r)')

LEMMA FineInv ==
  ASSUME CourseInv, ProviderTypeOK', NEW r \in Chats, Fine(r)
  PROVE  CourseInv'
BY OthersOnCourse DEF Fine, CourseInv

LEMMA SupersedeLeaves ==
  ASSUME CourseInv, NEW r \in Chats \cup {NoModel}, NEW m \in Models \cup {NoModel}, NEW holds \in Kept,
         Supersede(m, r, holds),
         \A q \in Chats \ {r} :
           /\ providerPc'[q] = providerPc[q] /\ providerModel'[q] = providerModel[q]
           /\ providerErr'[q] = providerErr[q] /\ cycle'[q] = cycle[q]
  PROVE  /\ LeavesAlone(r) /\ upstream' = m
         /\ cache' \in [Models -> Kept] /\ sess' \in [Chats -> Kept]
         /\ r \in Chats => sess'[r] = holds
<1>1. \A x \in Kept : Dead(x) \in Kept
  BY DEF Dead, Kept
<1>2. upstream' = m /\ cache' \in [Models -> Kept] /\ sess' \in [Chats -> Kept]
  BY <1>1 DEF Supersede, CourseInv, CallsTypeOK
<1>3. disturbed' = disturbed \cup (Active \ {r})
  BY DEF Supersede
<1>4. LeavesAlone(r)
  BY <1>3 DEF LeavesAlone
<1>5. r \in Chats => sess'[r] = holds
  BY DEF Supersede
<1>6. QED
  BY <1>2, <1>4, <1>5

LEMMA ArriveFine == ASSUME CourseInv, NEW r \in Chats, NEW m \in Models, Arrive(r, m) PROVE Fine(r)
<1>1. CallsTypeOK' /\ LeavesAlone(r)
  BY DEF Arrive, ProviderGoto, CourseInv, ProviderTypeOK, CallsTypeOK, LeavesAlone
<1>2. r \notin disturbed' => OnCourse(r)'
  <2>1. providerPc[r] = "idle" /\ providerPc'[r] = "load" /\ UNCHANGED <<disturbed, cycle, providerErr>>
    BY DEF Arrive, ProviderGoto, CourseInv, ProviderTypeOK
  <2>2. r \notin disturbed => cycle[r] = 0 /\ providerErr[r] = "none"
    BY <2>1 DEF CourseInv, OnCourse
  <2>3. QED
    BY <2>1, <2>2 DEF OnCourse
<1>3. QED
  BY <1>1, <1>2 DEF Fine

LEMMA SomeRetry == 0 < MaxSessionRetries
BY ProviderAssumption

\* To forget a session makes none of them dead.
LEMMA EvictKeeps ==
  ASSUME CourseInv, NEW r \in Chats, providerPc[r] # "idle", cache' = [cache EXCEPT ![providerModel[r]] = "none"]
  PROVE  /\ providerModel[r] \in Models /\ cache' \in [Models -> Kept] /\ cache'[providerModel[r]] = "none"
         /\ \A m \in Models : cache'[m] = "dead" => cache[m] = "dead"
         /\ \A q \in Active : providerModel[q] \in Models
BY DEF CourseInv, ProviderTypeOK, CallsTypeOK, Active, Kept

\* What is found in the second cycle is not dead.
LEMMA HitOnCourse ==
  ASSUME CourseInv, NEW r \in Chats, r \notin disturbed, providerPc[r] = "load",
         providerPc' = [providerPc EXCEPT ![r] = "runs"], UNCHANGED <<cycle, providerErr>>,
         sess' = [sess EXCEPT ![r] = cache[providerModel[r]]],
         cache[providerModel[r]] \in {"live", "dead"}
  PROVE  OnCourse(r)'
<1>1. providerErr[r] = "none" /\ (cycle[r] > 0 => cache[providerModel[r]] # "dead")
  BY DEF CourseInv, OnCourse
<1>2. cycle[r] \in Nat
  BY DEF CourseInv, CallsTypeOK
<1>3. sess'[r] = cache[providerModel[r]] /\ providerPc'[r] = "runs"
  BY DEF CourseInv, CallsTypeOK, ProviderTypeOK
<1>4. sess'[r] = "live" \/ (sess'[r] = "dead" /\ cycle[r] = 0)
  BY <1>1, <1>2, <1>3
<1>5. QED
  BY <1>1, <1>3, <1>4 DEF OnCourse

LEMMA EnsureFine ==
  ASSUME CourseInv, NEW r \in Chats,
         \/ SessionHit(r, "load") \/ SessionHit(r, "poll") \/ SessionMiss(r) \/ LoadFails(r) \/ Lock(r)
         \/ LockFails(r) \/ LockHeld(r) \/ PollTimeout(r)
  PROVE  Fine(r)
<1>. USE DEF ProviderGoto, Fails, CourseInv, ProviderTypeOK, CallsTypeOK, LeavesAlone, OnCourse, Fine
<1>1. CASE SessionHit(r, "load")
  <2>1. /\ providerModel[r] \in Models /\ cache[providerModel[r]] \in {"live", "dead"}
        /\ UNCHANGED <<upstream, cache, cycle, providerErr, disturbed, providerModel>>
        /\ sess' = [sess EXCEPT ![r] = cache[providerModel[r]]]
        /\ providerPc[r] = "load" /\ providerPc' = [providerPc EXCEPT ![r] = "runs"]
    BY <1>1 DEF SessionHit, Kept
  <2>2. CallsTypeOK' /\ LeavesAlone(r)
    BY <2>1 DEF Kept
  <2>3. r \notin disturbed => OnCourse(r)'
    BY <2>1, HitOnCourse
  <2>4. QED
    BY <2>2, <2>3
<1>2. CASE SessionHit(r, "poll")
  <2>1. providerModel[r] \in Models /\ cache[providerModel[r]] \in {"live", "dead"}
    BY <1>2 DEF SessionHit, Kept
  <2>2. QED
    BY <1>2, <2>1 DEF SessionHit, Kept
<1>3. CASE SessionMiss(r)
  BY <1>3 DEF SessionMiss
<1>4. CASE LoadFails(r)
  BY <1>4 DEF LoadFails
<1>5. CASE Lock(r)
  BY <1>5 DEF Lock
<1>6. CASE LockFails(r)
  BY <1>6 DEF LockFails
<1>7. CASE LockHeld(r)
  BY <1>7 DEF LockHeld
<1>8. CASE PollTimeout(r)
  BY <1>8 DEF PollTimeout
<1>9. QED
  BY <1>1, <1>2, <1>3, <1>4, <1>5, <1>6, <1>7, <1>8

\* A call that fails disturbs its request.
LEMMA FaultyFine ==
  ASSUME CourseInv, NEW r \in Chats, NEW from, NEW to, Faulty(r, from, to), UNCHANGED cycle
  PROVE  Fine(r)
BY DEF Faulty, Fails, ProviderGoto, CourseInv, ProviderTypeOK, CallsTypeOK, LeavesAlone, Fine

\* Another session takes the place of the token's, and r goes on with it.
LEMMA SupersedeFine ==
  ASSUME CourseInv, NEW r \in Chats, NEW m \in Models \cup {NoModel}, NEW holds \in Kept,
         NEW from, NEW to, ProviderGoto(r, from, to), Supersede(m, r, holds),
         UNCHANGED <<providerModel, providerErr, cycle>>,
         from \in {"create", "recreate", "queued", "delete"},
         \/ to = "save" /\ holds = "live" 
         \/ to = "forget" /\ m = NoModel
  PROVE  Fine(r)
<1>1. \A q \in Chats \ {r} :
        /\ providerPc'[q] = providerPc[q] /\ providerModel'[q] = providerModel[q]
        /\ providerErr'[q] = providerErr[q] /\ cycle'[q] = cycle[q]
  BY DEF ProviderGoto, CourseInv, ProviderTypeOK
<1>2. /\ LeavesAlone(r) /\ upstream' = m /\ sess'[r] = holds
      /\ cache' \in [Models -> Kept] /\ sess' \in [Chats -> Kept]
  BY <1>1, SupersedeLeaves
<1>3. CallsTypeOK'
  BY <1>2 DEF CallsTypeOK, CourseInv
<1>4. r \notin disturbed' => OnCourse(r)'
  <2>1. r \notin disturbed' => OnCourse(r)
    BY <1>2 DEF LeavesAlone, CourseInv
  <2>2. providerPc[r] = from /\ providerPc'[r] = to
    BY DEF ProviderGoto, CourseInv, ProviderTypeOK
  <2>3. QED
    BY <1>2, <2>1, <2>2 DEF OnCourse
<1>5. QED
  BY <1>2, <1>3, <1>4 DEF Fine

LEMMA CreateFine == ASSUME CourseInv, NEW r \in Chats, CreateSession(r) PROVE Fine(r)
<1>1. providerPc[r] \in {"create", "recreate"} /\ UNCHANGED <<lock, providerModel, cycle, lockExpired>>
      /\ providerModel[r] \in Models
  BY DEF CreateSession, CourseInv, ProviderTypeOK
<1>2. CASE ProviderGoto(r, providerPc[r], "save") /\ Supersede(providerModel[r], r, "live") /\ UNCHANGED providerErr
  BY <1>1, <1>2, SupersedeFine DEF Kept
<1>3. CASE /\ ProviderGoto(r, providerPc[r], "queued")
           /\ UNCHANGED <<upstream, cache, sess, providerErr, disturbed>>
  BY <1>1, <1>3 DEF ProviderGoto, CourseInv, ProviderTypeOK, CallsTypeOK, LeavesAlone, OnCourse, Fine
<1>4. CASE /\ upstream \notin {NoModel, providerModel[r]}
           /\ IF providerPc[r] = "create"
              THEN ProviderGoto(r, "create", "delete") /\ UNCHANGED providerErr
              ELSE Fails(r, "recreate", "unlock", "model_locked")
           /\ UNCHANGED <<upstream, cache, sess, disturbed>>
  BY <1>1, <1>4 DEF ProviderGoto, Fails, CourseInv, ProviderTypeOK, CallsTypeOK, LeavesAlone, OnCourse, Fine
<1>5. CASE Faulty(r, providerPc[r], "unlock")
  BY <1>1, <1>5, FaultyFine
<1>6. QED
  BY <1>2, <1>3, <1>4, <1>5 DEF CreateSession

LEMMA QueuedFine == ASSUME CourseInv, NEW r \in Chats, Queued(r) PROVE Fine(r)
<1>1. UNCHANGED <<lock, providerModel, cycle, lockExpired>>
  BY DEF Queued
<1>2. CASE ProviderGoto(r, "queued", "save") /\ Supersede(providerModel[r], r, "live") /\ UNCHANGED providerErr
  <2>1. providerModel[r] \in Models
    BY <1>2 DEF ProviderGoto, CourseInv, ProviderTypeOK
  <2>2. QED
    BY <1>1, <1>2, <2>1, SupersedeFine DEF Kept
<1>3. CASE /\ ProviderGoto(r, "queued", "save")
           /\ sess' = [sess EXCEPT ![r] = "none"] /\ disturbed' = disturbed \cup {r}
           /\ UNCHANGED <<upstream, cache, providerErr>>
  BY <1>1, <1>3 DEF ProviderGoto, CourseInv, ProviderTypeOK, CallsTypeOK, LeavesAlone, Fine, Kept
<1>4. CASE Faulty(r, "queued", "unlock")
  BY <1>1, <1>4, FaultyFine
<1>5. QED
  BY <1>2, <1>3, <1>4 DEF Queued

LEMMA DeleteFine == ASSUME CourseInv, NEW r \in Chats, DeleteLocked(r) PROVE Fine(r)
<1>1. ProviderGoto(r, "delete", "forget") /\ UNCHANGED <<lock, providerModel, cycle, providerErr, lockExpired>>
  BY DEF DeleteLocked
<1>2. CASE Supersede(NoModel, r, Dead(sess[r]))
  <2>1. Dead(sess[r]) \in Kept
    BY DEF CourseInv, CallsTypeOK, Dead, Kept
  <2>2. QED
    BY <1>1, <1>2, <2>1, SupersedeFine
<1>3. CASE disturbed' = disturbed \cup {r} /\ UNCHANGED <<upstream, cache, sess>>
  BY <1>1, <1>3 DEF ProviderGoto, CourseInv, ProviderTypeOK, CallsTypeOK, LeavesAlone, Fine
<1>4. QED
  BY <1>2, <1>3 DEF DeleteLocked

LEMMA SaveFine == ASSUME CourseInv, NEW r \in Chats, SaveSession(r) PROVE Fine(r)
<1>1. /\ ProviderGoto(r, "save", "unlock") /\ providerModel[r] \in Models
      /\ UNCHANGED <<upstream, lock, providerModel, calls, lockExpired>>
  BY DEF SaveSession, ProviderGoto, CourseInv, ProviderTypeOK
<1>2. PICK x \in {sess[r], "none"} : cache' = [cache EXCEPT ![providerModel[r]] = x]
  BY DEF SaveSession
<1>3. x \in Kept
  BY DEF CourseInv, CallsTypeOK, Kept
<1>4. CallsTypeOK'
  BY <1>1, <1>2, <1>3 DEF CourseInv, CallsTypeOK
<1>5. LeavesAlone(r)
  <2>1. CASE sess[r] = "dead"
    BY <1>1, <2>1 DEF SaveSession, ProviderGoto, CourseInv, ProviderTypeOK, LeavesAlone
  <2>2. CASE sess[r] # "dead"
    <3>1. disturbed' = disturbed
      BY <2>2 DEF SaveSession
    <3>2. \A m \in Models : cache'[m] = "dead" => cache[m] = "dead"
      BY <1>1, <1>2, <2>2 DEF CourseInv, CallsTypeOK
    <3>3. \A q \in Active : providerModel[q] \in Models
      BY DEF Active, CourseInv, ProviderTypeOK
    <3>4. QED
      BY <1>1, <3>1, <3>2, <3>3 DEF ProviderGoto, CourseInv, ProviderTypeOK, LeavesAlone
  <2>3. QED
    BY <2>1, <2>2
<1>6. r \notin disturbed' => OnCourse(r)'
  BY <1>1, <1>5 DEF ProviderGoto, CourseInv, ProviderTypeOK, LeavesAlone, OnCourse
<1>7. QED
  BY <1>4, <1>5, <1>6 DEF Fine

LEMMA EndOfCreationFine ==
  ASSUME CourseInv, NEW r \in Chats, Forget(r) \/ Unlock(r) \/ AcquireAgain(r) \/ AcquireFails(r)
  PROVE  Fine(r)
<1>. USE DEF ProviderGoto, CourseInv, ProviderTypeOK, CallsTypeOK, LeavesAlone, OnCourse, Fine, Kept
<1>1. CASE Forget(r)
  <2>1. /\ providerPc[r] = "forget" /\ providerPc' = [providerPc EXCEPT ![r] = "recreate"]
        /\ cache' = [cache EXCEPT ![providerModel[r]] = "none"]
        /\ UNCHANGED <<upstream, sess, cycle, providerErr, disturbed, providerModel>>
    BY <1>1 DEF Forget
  <2>2. CallsTypeOK' /\ LeavesAlone(r)
    BY <2>1, EvictKeeps
  <2>3. QED
    BY <2>1, <2>2
<1>2. CASE Unlock(r)
  BY <1>2 DEF Unlock
<1>3. CASE AcquireAgain(r)
  <2>1. /\ providerPc[r] = "refused" /\ providerPc' = [providerPc EXCEPT ![r] = "load"]
        /\ cache' = [cache EXCEPT ![providerModel[r]] = "none"]
        /\ providerErr' = [providerErr EXCEPT ![r] = "none"]
        /\ UNCHANGED <<upstream, sess, cycle, disturbed, providerModel>>
    BY <1>3 DEF AcquireAgain, EvictSession
  <2>2. CallsTypeOK' /\ LeavesAlone(r)
    BY <2>1, EvictKeeps
  <2>3. QED
    BY <2>1, <2>2
<1>4. CASE AcquireFails(r)
  BY <1>4 DEF AcquireFails
<1>5. QED
  BY <1>1, <1>2, <1>3, <1>4

LEMMA AgainTypes ==
  ASSUME CourseInv, NEW r \in Chats, cycle' = [cycle EXCEPT ![r] = @ + 1], sess' = [sess EXCEPT ![r] = "none"]
  PROVE  cycle' \in [Chats -> Nat] /\ sess' \in [Chats -> Kept]
<1>1. cycle \in [Chats -> Nat] /\ sess \in [Chats -> Kept] /\ "none" \in Kept
  BY DEF CourseInv, CallsTypeOK, Kept
<1>2. QED
  BY <1>1

LEMMA ChatFine ==
  ASSUME CourseInv, NEW r \in Chats,
         \/ StartRunChain(r) \/ ChatCompletions(r) \/ ChatAgain(r) \/ ChatFails(r)
         \/ streamChatRaw(r) \/ completeChat(r)
  PROVE  Fine(r)
<1>. USE DEF ProviderGoto, Fails, CourseInv, ProviderTypeOK, CallsTypeOK, LeavesAlone, OnCourse, Fine, Kept
<1>1. CASE StartRunChain(r)
  <2>1. UNCHANGED <<cache, upstream, providerModel, sess, cycle>>
    BY <1>1 DEF StartRunChain, redis
  <2>2. CASE Faulty(r, "runs", "failed")
    <3>. HIDE DEF Fine, CourseInv
    <3>1. QED
      BY <2>1, <2>2, FaultyFine
  <2>3. CASE sess[r] # "none" /\ ProviderGoto(r, "runs", "chat") /\ UNCHANGED <<providerErr, disturbed>>
    BY <2>1, <2>3
  <2>4. CASE sess[r] = "none" /\ Fails(r, "runs", "failed", "no session") /\ UNCHANGED disturbed
    BY <2>1, <2>4
  <2>5. QED
    BY <1>1, <2>2, <2>3, <2>4 DEF StartRunChain
<1>2. CASE ChatCompletions(r)
  <2>1. UNCHANGED <<cache, upstream, providerModel, sess, cycle>>
    BY <1>2 DEF ChatCompletions, redis
  <2>2. CASE Faulty(r, "chat", "chat failed")
    <3>. HIDE DEF Fine, CourseInv
    <3>1. QED
      BY <2>1, <2>2, FaultyFine
  <2>3. CASE /\ sess[r] = "live" /\ UNCHANGED <<providerErr, disturbed>>
             /\ ProviderGoto(r, "chat", "stream") \/ ProviderGoto(r, "chat", "body")
    BY <2>1, <2>3
  <2>4. CASE /\ sess[r] = "dead" /\ UNCHANGED disturbed
             /\ Fails(r, "chat", "chat failed",
                      IF upstream \in {NoModel, providerModel[r]} THEN "waiting_room_required" ELSE "model_locked")
    BY <2>1, <2>4 DEF SessionErrors
  <2>5. QED
    <3>. HIDE DEF Fine, CourseInv
    <3>1. QED
      BY <1>2, <2>2, <2>3, <2>4 DEF ChatCompletions
<1>3. CASE ChatAgain(r)
  <2>1. /\ providerPc[r] = "chat failed" /\ providerPc' = [providerPc EXCEPT ![r] = "load"]
        /\ cache' = [cache EXCEPT ![providerModel[r]] = "none"]
        /\ providerErr' = [providerErr EXCEPT ![r] = "none"]
        /\ cycle' = [cycle EXCEPT ![r] = @ + 1] /\ sess' = [sess EXCEPT ![r] = "none"]
        /\ UNCHANGED <<upstream, disturbed, providerModel>>
    BY <1>3 DEF ChatAgain, EvictSession
  <2>2. CallsTypeOK'
    <3>1. cycle' \in [Chats -> Nat] /\ sess' \in [Chats -> Kept]
      BY <2>1, AgainTypes
    <3>2. QED
      BY <2>1, <3>1, EvictKeeps
  <2>3. LeavesAlone(r)
    BY <2>1, EvictKeeps
  <2>4. cache'[providerModel'[r]] = "none"
    BY <2>1, EvictKeeps
  <2>5. providerPc'[r] = "load" /\ providerErr'[r] = "none"
    BY <2>1
  <2>6. QED
    BY <2>2, <2>3, <2>4, <2>5
<1>4. CASE ChatFails(r)
  <2>1. CallsTypeOK' /\ LeavesAlone(r) /\ disturbed' = disturbed
    BY <1>4 DEF ChatFails
  <2>2. r \in disturbed
    <3>1. providerPc[r] = "chat failed" /\ ~(providerErr[r] \in SessionErrors /\ cycle[r] < MaxSessionRetries)
      BY <1>4 DEF ChatFails
    <3>2. QED
      BY <3>1, SomeRetry
  <2>3. QED
    BY <2>1, <2>2
<1>5. CASE streamChatRaw(r)
  BY <1>5 DEF streamChatRaw
<1>6. CASE completeChat(r)
  BY <1>6 DEF completeChat
<1>7. QED
  BY <1>1, <1>2, <1>3, <1>4, <1>5, <1>6

LEMMA CourseStep == CourseInv /\ ProviderTypeOK' /\ [ProviderNext]_providerVars => CourseInv'
<1>. SUFFICES ASSUME CourseInv, ProviderTypeOK', [ProviderNext]_providerVars PROVE CourseInv'
  OBVIOUS
<1>1. ASSUME NEW r \in Chats, Request(r) PROVE CourseInv'
  <2>1. Fine(r)
    BY <1>1, ArriveFine, EnsureFine, CreateFine, QueuedFine, DeleteFine, SaveFine, EndOfCreationFine, ChatFine
       DEF Request
  <2>2. QED
    BY <2>1, FineInv
<1>2. ASSUME NEW m \in Models \cup {NoModel}, UpstreamMoves(m) PROVE CourseInv'
  <2>1. /\ LeavesAlone(NoModel) /\ upstream' = m
        /\ cache' \in [Models -> Kept] /\ sess' \in [Chats -> Kept]
    BY <1>2, SupersedeLeaves DEF UpstreamMoves, Kept
  <2>2. CallsTypeOK'
    BY <1>2, <2>1 DEF UpstreamMoves, CourseInv, CallsTypeOK
  <2>3. \A q \in Chats : q \in Chats \ {NoModel}
    BY ProviderAssumption
  <2>4. QED
    BY <2>1, <2>2, <2>3, OthersOnCourse DEF CourseInv
<1>3. ASSUME NEW m \in Models, LockExpires(m) PROVE CourseInv'
  BY <1>3 DEF LockExpires, CourseInv, CallsTypeOK, OnCourse, Active
<1>4. ASSUME NEW m \in Models, CacheExpires(m) PROVE CourseInv'
  BY <1>4 DEF CacheExpires, CourseInv, ProviderTypeOK, CallsTypeOK, OnCourse, Kept
<1>5. CASE UNCHANGED providerVars
  BY <1>5 DEF providerVars, CourseInv, CallsTypeOK, OnCourse
<1>6. QED
  BY <1>1, <1>2, <1>3, <1>4, <1>5 DEF ProviderNext

\* However stale the sessions that are remembered, and whatever model the token's session is
\* for: a request whose calls do not fail and that nobody disturbs is answered, in two cycles
\* at most (SendRequestWithPayload, EnsureSession).
THEOREM UndisturbedCorrect == ProviderSpec => []UndisturbedSucceeds
<1>1. ProviderInit => LockInv
  BY DEF ProviderInit, LockInv, ProviderTypeOK, Locked, Holder, Places, Inside
<1>2. ProviderInit => CourseInv
  BY DEF ProviderInit, CourseInv, ProviderTypeOK, CallsTypeOK, OnCourse, Places, Kept
<1>3. LockInv' => ProviderTypeOK'
  BY DEF LockInv
<1>4. CourseInv => UndisturbedSucceeds
  BY DEF CourseInv, OnCourse, UndisturbedSucceeds
<1>5. QED
  BY <1>1, <1>2, <1>3, <1>4, LockStep, CourseStep, PTL DEF ProviderSpec

-----------------------------------------------------------------------------
(* Times of day. *)

LEMMA Euclid ==
  ASSUME NEW D \in Nat \ {0}, NEW n \in Nat
  PROVE  \E q \in Nat, r \in 0 .. D - 1 : n = D * q + r /\ r = n % D
<1>1. n \div D \in Nat
  OBVIOUS
<1>2. n - D * (n \div D) = n % D
  BY <1>1
<1>3. n % D \in 0 .. D - 1
  OBVIOUS
<1>4. PICK q \in Nat : q = n \div D
  BY <1>1
<1>5. PICK p \in Int : p = D * q
  OBVIOUS
<1>6. PICK r \in 0 .. D - 1 : r = n % D
  BY <1>3
<1>7. n - p = r
  BY <1>2, <1>4, <1>5, <1>6
<1>8. n = p + r
  BY <1>7
<1>9. QED
  BY <1>5, <1>6, <1>8

LEMMA Remainder == ASSUME NEW D \in Nat \ {0}, NEW q \in Nat, NEW r \in 0..D-1 PROVE (D*q + r) % D = r
OBVIOUS

LEMMA NextTime ==
  ASSUME NEW D \in Nat \ {0}, NEW n \in Nat, NEW time \in 0 .. D - 1
  PROVE  \E t \in n + 1 .. n + D : t % D = time
<1>1. PICK q \in Nat, r \in 0 .. D - 1 : n = D * q + r
  BY Euclid
<1>2. (D * q + time) % D = time /\ (D * (q + 1) + time) % D = time
  BY Remainder
<1>3. D * q \in Nat /\ D * (q + 1) = D * q + D
  OBVIOUS
<1>4. CASE r < time
  <2>1. D * q + time \in n + 1 .. n + D
    BY <1>1, <1>3, <1>4
  <2>2. QED
    BY <1>2, <2>1
<1>5. CASE time <= r
  <2>1. D * q + D + time \in n + 1 .. n + D
    BY <1>1, <1>3, <1>5
  <2>2. QED
    BY <1>2, <1>3, <2>1
<1>6. QED
  BY <1>4, <1>5

\* Between two times of one day at the same time there is none.
LEMMA OnceADay ==
  ASSUME NEW D \in Nat \ {0}, NEW a \in Nat, NEW b \in Nat, a < b, b < a + D
  PROVE  a % D # b % D
<1>1. PICK q \in Nat, r \in 0 .. D - 1 : a = D * q + r /\ r = a % D
  BY Euclid
<1>2. PICK p \in Nat, s \in 0 .. D - 1 : b = D * p + s /\ s = b % D
  BY Euclid
<1>3. SUFFICES ASSUME r = s PROVE FALSE
  BY <1>1, <1>2
<1>4. D * p - D * q = b - a
  BY <1>1, <1>2, <1>3
<1>5. D * (p - q) = b - a
  BY <1>4
<1>6. p - q \in Int /\ D * (p - q) > 0 /\ D * (p - q) < D
  BY <1>5
<1>7. CASE p - q <= 0
  BY <1>6, <1>7
<1>8. CASE p - q >= 1
  BY <1>6, <1>8
<1>9. QED
  BY <1>6, <1>7, <1>8

LEMMA QuotaDay == Day \in Nat \ {0} /\ ResetTime \in 0 .. Day - 1 /\ ClearTime \in 0 .. Day - 1
BY QuotaAssumption

LEMMA NextOne ==
  ASSUME quotaNow \in Nat, NEW time \in 0 .. Day - 1
  PROVE  Next1(time) \in quotaNow + 1 .. quotaNow + Day /\ Next1(time) % Day = time
<1>1. \E t \in quotaNow + 1 .. quotaNow + Day : t % Day = time
  BY QuotaDay, NextTime
<1>2. QED
  BY <1>1 DEF Next1

-----------------------------------------------------------------------------
(* The quota state. *)

QuotaTypeOK ==
  /\ quotaNow \in Nat
  /\ DOMAIN quotaPc = QuotaRequests /\ DOMAIN quotaModel = QuotaRequests
  /\ \A r \in QuotaRequests : quotaPc[r] \in {"idle", "calling", "calling unchecked", "refused"}
  /\ DOMAIN block = QuotaModels /\ DOMAIN refused = QuotaModels

\* A block lasts at least as long as upstream has told.
BlocksLast ==
  \A m \in QuotaModels : block[m].until \in Nat /\ refused[m] \in Nat /\ refused[m] <= block[m].until

\* A block lasts a minute, a minute more than the reset after it, or a day.
Ends(b) ==
  \/ b.resetAt = NoTime /\ b.until = b.blockedAt + Day
  \/ b.until = b.blockedAt + Grace
  \/ /\ b.resetAt \in b.blockedAt + 1 .. b.blockedAt + Day /\ b.resetAt % Day = ResetTime
     /\ b.until = b.resetAt + Grace

BlocksEnd ==
  \A m \in QuotaModels : block[m].until # 0 => block[m].blockedAt \in 0 .. quotaNow /\ Ends(block[m])

\* A snapshot lasts until the first clearing after it was taken, or a minute.
SnapshotOfDay ==
  snapshot.until # 0 =>
    /\ snapshot.synced \in Nat
    /\ \/ snapshot.until = snapshot.synced + Grace
       \/ /\ snapshot.until \in snapshot.synced + 1 .. snapshot.synced + Day
          /\ snapshot.until % Day = ClearTime

QuotaInv == QuotaTypeOK /\ BlocksLast /\ BlocksEnd /\ SnapshotOfDay

LEMMA RecordBlockInv ==
  ASSUME QuotaInv, UNCHANGED quotaNow, NEW m \in QuotaModels, NEW figures,
         NEW resetAt \in {NoTime, quotaNow, Next1(ResetTime)}, RecordBlock(m, resetAt, figures)
  PROVE  BlocksLast' /\ BlocksEnd' /\ DOMAIN block' = QuotaModels /\ DOMAIN refused' = QuotaModels
<1>1. quotaNow \in Nat /\ Day \in Nat /\ Grace \in Nat /\ Grace > 0
  BY QuotaAssumption DEF QuotaInv, QuotaTypeOK
<1>2. Next1(ResetTime) \in quotaNow + 1 .. quotaNow + Day /\ Next1(ResetTime) % Day = ResetTime
  BY <1>1, NextOne, QuotaDay
<1>3. resetAt \in Nat
  BY <1>1, <1>2 DEF NoTime
<1>4. PICK ttl \in Nat : ttl = blockTTL(resetAt)
  BY <1>1, <1>3 DEF blockTTL
<1>5. PICK wait \in Nat : wait = IF resetAt = NoTime THEN quotaNow + Day ELSE resetAt
  BY <1>1, <1>3
<1>6. wait <= quotaNow + ttl
  BY <1>1, <1>3, <1>4, <1>5 DEF blockTTL
<1>7. \/ resetAt = NoTime /\ quotaNow + ttl = quotaNow + Day
      \/ quotaNow + ttl = quotaNow + Grace
      \/ resetAt = Next1(ResetTime) /\ quotaNow + ttl = resetAt + Grace
  BY <1>1, <1>2, <1>3, <1>4 DEF blockTTL
<1>. DEFINE new == [recent |-> figures, limit |-> figures, resetAt |-> resetAt,
                    blockedAt |-> quotaNow, until |-> quotaNow + ttl]
<1>8. Ends(new)
  BY <1>2, <1>7 DEF Ends
<1>9. new.until = quotaNow + ttl /\ new.blockedAt = quotaNow
  OBVIOUS
<1>10. block' = [block EXCEPT ![m] = new] /\ refused' = [refused EXCEPT ![m] = wait]
  BY <1>4, <1>5 DEF RecordBlock
<1>. HIDE DEF new
<1>11. /\ DOMAIN block' = QuotaModels /\ DOMAIN refused' = QuotaModels
       /\ block'[m] = new /\ refused'[m] = wait
       /\ \A n \in QuotaModels \ {m} : block'[n] = block[n] /\ refused'[n] = refused[n]
  BY <1>10 DEF QuotaInv, QuotaTypeOK
<1>12. BlocksLast'
  BY <1>1, <1>6, <1>9, <1>11 DEF BlocksLast, QuotaInv
<1>13. BlocksEnd'
  <2>1. ASSUME NEW n \in QuotaModels, block'[n].until # 0
        PROVE  block'[n].blockedAt \in 0 .. quotaNow' /\ Ends(block'[n])
    <3>1. CASE n = m
      BY <1>1, <1>8, <1>9, <1>11, <3>1
    <3>2. CASE n # m
      BY <1>11, <2>1, <3>2 DEF BlocksEnd, QuotaInv
    <3>3. QED
      BY <3>1, <3>2
  <2>2. QED
    BY <2>1 DEF BlocksEnd, Ends
<1>14. QED
  BY <1>11, <1>12, <1>13

LEMMA SyncInv == ASSUME QuotaInv, NEW told \in SUBSET CountedUnder, Sync(told) PROVE QuotaInv'
<1>1. QuotaTypeOK' /\ BlocksLast' /\ BlocksEnd'
  BY DEF Sync, quotaRequest, QuotaInv, QuotaTypeOK, BlocksLast, BlocksEnd, Ends
<1>2. SnapshotOfDay'
  <2>1. CASE snapshot' = snapshot
    BY <2>1 DEF QuotaInv, SnapshotOfDay
  <2>2. ASSUME NEW limits, snapshot' = [limits |-> limits, synced |-> quotaNow, until |-> quotaNow + nextResetTTL]
        PROVE  SnapshotOfDay'
    <3>1. /\ quotaNow \in Nat /\ Next1(ClearTime) \in quotaNow + 1 .. quotaNow + Day
          /\ Next1(ClearTime) % Day = ClearTime /\ Grace \in Nat /\ Day \in Nat
      BY NextOne, QuotaDay, QuotaAssumption DEF QuotaInv, QuotaTypeOK
    <3>2. quotaNow + nextResetTTL = Next1(ClearTime) \/ quotaNow + nextResetTTL = quotaNow + Grace
      BY <3>1 DEF nextResetTTL, AtLeast
    <3>3. snapshot'.synced = quotaNow /\ snapshot'.until = quotaNow + nextResetTTL
      BY <2>2
    <3>4. QED
      BY <3>1, <3>2, <3>3 DEF SnapshotOfDay
  <2>3. QED
    BY <2>1, <2>2 DEF Sync, RecordSessionQuotas
<1>3. QED
  BY <1>1, <1>2 DEF QuotaInv

LEMMA QuotaRequestInv ==
  ASSUME QuotaInv, NEW r \in QuotaRequests,
         \/ \E m \in QuotaModels, fails \in BOOLEAN : Select(r, m, fails)
         \/ CallUpstream(r)
         \/ \E named \in QuotaModels \cup {NoQuotaModel} :
              \/ Parse429Body(r, named, NoTime, 0)
              \/ \E resetAt \in {quotaNow, Next1(ResetTime)} : Parse429Body(r, named, resetAt, Limit)
  PROVE  QuotaInv'
<1>1. CASE (\E m \in QuotaModels, fails \in BOOLEAN : Select(r, m, fails)) \/ CallUpstream(r)
  <2>1. UNCHANGED <<quotaNow, quotaStored>>
    BY <1>1 DEF Select, CallUpstream
  <2>2. QuotaTypeOK'
    <3>1. CASE \E m \in QuotaModels, fails \in BOOLEAN : Select(r, m, fails)
      BY <2>1, <3>1 DEF Select, QuotaInv, QuotaTypeOK, quotaStored
    <3>2. CASE CallUpstream(r)
      BY <2>1, <3>2 DEF CallUpstream, Leave, QuotaInv, QuotaTypeOK, quotaStored
    <3>3. QED
      BY <1>1, <3>1, <3>2
  <2>3. QED
    BY <2>1, <2>2 DEF QuotaInv, BlocksLast, BlocksEnd, Ends, SnapshotOfDay, quotaStored
<1>2. ASSUME NEW named \in QuotaModels \cup {NoQuotaModel}, NEW figures,
             NEW resetAt \in {NoTime, quotaNow, Next1(ResetTime)}, Parse429Body(r, named, resetAt, figures)
      PROVE  QuotaInv'
  <2>1. Leave(r) /\ UNCHANGED <<quotaNow, snapshot>>
    BY <1>2 DEF Parse429Body
  <2>2. BlocksLast' /\ BlocksEnd' /\ DOMAIN block' = QuotaModels /\ DOMAIN refused' = QuotaModels
    <3>1. CASE named # NoQuotaModel /\ RecordBlock(named, resetAt, figures)
      <4>1. named \in QuotaModels
        BY <3>1
      <4>2. QED
        BY <2>1, <3>1, <4>1, RecordBlockInv
    <3>2. CASE UNCHANGED <<block, refused>>
      BY <2>1, <3>2 DEF QuotaInv, QuotaTypeOK, BlocksLast, BlocksEnd, Ends
    <3>3. QED
      BY <1>2, <3>1, <3>2 DEF Parse429Body
  <2>3. QuotaTypeOK' /\ SnapshotOfDay'
    BY <2>1, <2>2 DEF Leave, QuotaInv, QuotaTypeOK, SnapshotOfDay
  <2>4. QED
    BY <2>2, <2>3 DEF QuotaInv
<1>3. QED
  BY <1>1, <1>2

LEMMA JobsInv ==
  ASSUME QuotaInv, ClearScan \/ ClearDelete \/ OrphanScan \/ OrphanDelete \/ QuotaTick
  PROVE  QuotaInv'
<1>1. QuotaTypeOK /\ BlocksLast /\ BlocksEnd /\ SnapshotOfDay
  BY DEF QuotaInv
<1>2. /\ quotaNow' \in {quotaNow, quotaNow + 1} /\ UNCHANGED quotaRequest
      /\ DOMAIN block' = QuotaModels /\ DOMAIN refused' = QuotaModels
      /\ \A m \in QuotaModels : block'[m] = block[m] \/ block'[m] = NoBlock
      /\ snapshot' = snapshot \/ snapshot' = NoSnapshot
  <2>1. CASE ClearScan \/ OrphanScan
    <3>1. UNCHANGED <<quotaNow, quotaStored, quotaRequest>>
      BY <2>1, Zenon DEF ClearScan, OrphanScan
    <3>2. QED
      BY <1>1, <3>1 DEF QuotaTypeOK, quotaStored
  <2>2. CASE OrphanDelete
    BY <1>1, <2>2 DEF QuotaTypeOK, OrphanDelete
  <2>3. CASE ClearDelete
    <3>1. /\ UNCHANGED <<quotaNow, quotaRequest>>
          /\ block' = [m \in QuotaModels |-> IF m \in found THEN NoBlock ELSE block[m]]
          /\ refused' = [m \in QuotaModels |-> IF m \in found THEN 0 ELSE refused[m]]
          /\ snapshot' = IF "snapshot" \in found THEN NoSnapshot ELSE snapshot
      BY <2>3, Zenon DEF ClearDelete
    <3>2. QED
      BY <3>1
  <2>4. CASE QuotaTick
    <3>1. /\ quotaNow' = quotaNow + 1 /\ UNCHANGED quotaRequest
          /\ block' = [m \in QuotaModels |-> IF quotaNow' < block[m].until THEN block[m] ELSE NoBlock]
          /\ refused' = [m \in QuotaModels |-> IF quotaNow' < refused[m] THEN refused[m] ELSE 0]
          /\ snapshot' = IF quotaNow' < snapshot.until THEN snapshot ELSE NoSnapshot
      BY <2>4, Zenon DEF QuotaTick
    <3>2. QED
      BY <3>1
  <2>5. QED
    BY <2>1, <2>2, <2>3, <2>4
<1>3. QuotaTypeOK' /\ quotaNow \in Nat /\ quotaNow' \in Nat /\ quotaNow <= quotaNow'
  <2>1. quotaNow \in Nat /\ quotaPc' = quotaPc /\ quotaModel' = quotaModel
    BY <1>1, <1>2 DEF QuotaTypeOK, quotaRequest
  <2>2. quotaNow' \in Nat /\ quotaNow <= quotaNow'
    BY <1>2, <2>1
  <2>3. QED
    BY <1>1, <1>2, <2>1, <2>2 DEF QuotaTypeOK
<1>4. NoBlock.until = 0 /\ NoSnapshot.until = 0
  BY DEF NoBlock, NoSnapshot
<1>5. BlocksEnd'
  <2>1. ASSUME NEW m \in QuotaModels, block'[m].until # 0
        PROVE  block'[m].blockedAt \in 0 .. quotaNow' /\ Ends(block'[m])
    <3>1. block'[m] = block[m]
      BY <1>2, <1>4, <2>1
    <3>2. block[m].blockedAt \in 0 .. quotaNow /\ Ends(block[m])
      BY <1>1, <2>1, <3>1 DEF BlocksEnd
    <3>3. QED
      BY <1>3, <3>1, <3>2
  <2>2. QED
    BY <2>1 DEF BlocksEnd, Ends
<1>6. SnapshotOfDay'
  <2>1. CASE snapshot' = snapshot
    BY <1>1, <2>1 DEF SnapshotOfDay
  <2>2. CASE snapshot' = NoSnapshot
    BY <1>4, <2>2 DEF SnapshotOfDay
  <2>3. QED
    BY <1>2, <2>1, <2>2
<1>7. BlocksLast'
  <2>1. CASE ClearScan \/ OrphanScan \/ OrphanDelete
    BY <1>1, <2>1 DEF BlocksLast, ClearScan, OrphanScan, OrphanDelete, quotaStored
  <2>2. CASE ClearDelete
    BY <1>1, <2>2 DEF BlocksLast, ClearDelete, NoBlock
  <2>3. CASE QuotaTick
    BY <1>1, <1>3, <2>3 DEF BlocksLast, QuotaTick, NoBlock
  <2>4. QED
    BY <2>1, <2>2, <2>3
<1>8. QED
  BY <1>3, <1>5, <1>6, <1>7 DEF QuotaInv

LEMMA QuotaStep == QuotaInv /\ [QuotaNext]_quotaVars => QuotaInv'
<1>1. QuotaInv /\ UNCHANGED quotaVars => QuotaInv'
  BY DEF quotaVars, QuotaInv, QuotaTypeOK, BlocksLast, BlocksEnd, Ends, SnapshotOfDay
<1>2. QED
  BY <1>1, QuotaRequestInv, SyncInv, JobsInv DEF QuotaNext

LEMMA QuotaStart == QuotaInit => QuotaInv
BY DEF QuotaInit, QuotaInv, QuotaTypeOK, BlocksLast, BlocksEnd, SnapshotOfDay, NoBlock, NoSnapshot

\* Before the first time of a day after another there is none.
LEMMA SameDayUntil ==
  ASSUME QuotaInv, NEW time \in 0 .. Day - 1, NEW then \in Nat,
         NEW next \in then + 1 .. then + Day, next % Day = time, quotaNow < next
  PROVE  SameDay(time, then)
<1>1. ASSUME NEW t \in then + 1 .. quotaNow PROVE t % Day # time
  <2>1. quotaNow \in Nat /\ Day \in Nat
    BY QuotaDay DEF QuotaInv, QuotaTypeOK
  <2>2. t \in Nat /\ t < next /\ next < t + Day /\ next \in Nat
    <3>1. SUFFICES ASSUME NEW n \in then + 1 .. then + Day, n = next PROVE t \in Nat /\ t < n /\ n < t + Day /\ n \in Nat
      OBVIOUS
    <3>2. quotaNow < n
      BY <3>1
    <3>3. QED
      BY <2>1, <3>2
  <2>3. QED
    BY <2>2, QuotaDay, OnceADay
<1>2. QED
  BY <1>1 DEF SameDay

\* nextResetTTL ends a snapshot at the next clearing, or a minute after it was taken, and
\* blockTTL a block a minute after the next reset, whether the job runs or not: figures of
\* yesterday are shown less than a minute, but for a block without a reset time.
THEOREM FiguresCorrect == QuotaSpec => []FiguresOfToday
<1>1. ASSUME QuotaInv, NEW m \in QuotaModels, Cell(m).synced # NoTime
      PROVE  SameDay(ClearTime, Cell(m).synced) \/ quotaNow < Cell(m).synced + Grace
  <2>1. Visible(snapshot) /\ Cell(m).synced = snapshot.synced
    BY <1>1 DEF Cell
  <2>2. quotaNow \in Nat /\ quotaNow < snapshot.until /\ snapshot.until # 0
    <3>1. QuotaTypeOK
      BY <1>1 DEF QuotaInv
    <3>2. quotaNow \in Nat /\ quotaNow < snapshot.until
      BY <2>1, <3>1 DEF Visible, QuotaTypeOK
    <3>3. ASSUME snapshot.until = 0 PROVE FALSE
      BY <3>2, <3>3
    <3>4. QED
      BY <3>2, <3>3
  <2>3. /\ snapshot.synced \in Nat
        /\ \/ snapshot.until = snapshot.synced + Grace
           \/ /\ snapshot.until \in snapshot.synced + 1 .. snapshot.synced + Day
              /\ snapshot.until % Day = ClearTime
    BY <1>1, <2>2 DEF QuotaInv, SnapshotOfDay
  <2>4. QED
    BY <1>1, <2>1, <2>2, <2>3, QuotaDay, SameDayUntil
<1>2. ASSUME QuotaInv, NEW m \in QuotaModels, Cell(m).blocked
      PROVE  \/ SameDay(ResetTime, Cell(m).blockedAt)
             \/ \E t \in Cell(m).blockedAt .. quotaNow :
                  (t = Cell(m).blockedAt \/ t % Day = ResetTime) /\ quotaNow < t + Grace
             \/ block[m].resetAt = NoTime /\ quotaNow < Cell(m).blockedAt + Day
  <2>1. Visible(block[m]) /\ Cell(m).blockedAt = block[m].blockedAt
    BY <1>2 DEF Cell, IsBlocked
  <2>2. PICK b : b = block[m]
    OBVIOUS
  <2>3. quotaNow \in Nat /\ quotaNow < b.until /\ b.until # 0
    <3>1. QuotaTypeOK
      BY <1>2 DEF QuotaInv
    <3>2. quotaNow \in Nat /\ quotaNow < b.until
      BY <2>1, <2>2, <3>1 DEF Visible, QuotaTypeOK
    <3>3. ASSUME b.until = 0 PROVE FALSE
      BY <3>2, <3>3
    <3>4. QED
      BY <3>2, <3>3
  <2>4. b.blockedAt \in 0 .. quotaNow /\ Ends(b)
    BY <1>2, <2>2, <2>3 DEF QuotaInv, BlocksEnd
  <2>5. CASE b.resetAt = NoTime /\ b.until = b.blockedAt + Day
    BY <2>1, <2>2, <2>3, <2>5
  <2>6. CASE b.until = b.blockedAt + Grace
    BY <2>1, <2>2, <2>3, <2>4, <2>6
  <2>7. CASE /\ b.resetAt \in b.blockedAt + 1 .. b.blockedAt + Day /\ b.resetAt % Day = ResetTime
             /\ b.until = b.resetAt + Grace
    <3>1. CASE quotaNow < b.resetAt
      BY <1>2, <2>1, <2>2, <2>4, <2>7, <3>1, QuotaDay, SameDayUntil
    <3>2. CASE b.resetAt <= quotaNow
      <4>1. b.resetAt \in b.blockedAt .. quotaNow
        BY <2>3, <2>4, <2>7, <3>2, QuotaDay
      <4>2. QED
        BY <2>1, <2>2, <2>3, <2>7, <4>1
    <3>3. QED
      BY <2>3, <2>4, <2>7, <3>1, <3>2, QuotaDay
  <2>8. QED
    BY <2>4, <2>5, <2>6, <2>7 DEF Ends
<1>3. QuotaInv => FiguresOfToday
  BY <1>1, <1>2 DEF FiguresOfToday
<1>4. QED
  BY <1>3, QuotaStart, QuotaStep, PTL DEF QuotaSpec

\* recordBlockIf429 and blockTTL keep a model that upstream named from a selection that
\* can read its block, until the time upstream told.
THEOREM RefusalsCorrect == QuotaSpec => RefusedNotSelected
<1>1. ASSUME QuotaInv, [QuotaNext]_quotaVars, NEW r \in QuotaRequests, quotaPc[r] = "idle", quotaPc'[r] = "calling"
      PROVE  quotaNow >= refused[quotaModel'[r]]
  <2>1. PICK q \in QuotaRequests, m \in QuotaModels, fails \in BOOLEAN : Select(q, m, fails)
    BY <1>1 DEF QuotaNext, quotaVars, quotaRequest, CallUpstream, Leave, Parse429Body, Sync, ClearScan, ClearDelete,
                OrphanScan, OrphanDelete, QuotaTick, QuotaInv, QuotaTypeOK
  <2>2. q = r /\ quotaModel'[r] = m /\ ~fails
    BY <1>1, <2>1 DEF Select, QuotaInv, QuotaTypeOK
  <2>3. ~(quotaNow < block[m].until)
    BY <2>1, <2>2 DEF Select, IsBlocked, Visible
  <2>4. quotaNow \in Nat /\ block[m].until \in Nat /\ refused[m] \in Nat /\ refused[m] <= block[m].until
    BY <1>1, <2>1 DEF QuotaInv, QuotaTypeOK, BlocksLast
  <2>5. QED
    BY <2>2, <2>3, <2>4
<1>2. QuotaInv /\ [QuotaNext]_quotaVars =>
        [\A r \in QuotaRequests :
           quotaPc[r] = "idle" /\ quotaPc'[r] = "calling" => quotaNow >= refused[quotaModel'[r]]]_quotaVars
  BY <1>1
<1>3. QED
  BY <1>2, QuotaStart, QuotaStep, PTL DEF QuotaSpec, RefusedNotSelected

-----------------------------------------------------------------------------
(* The agent runs of a chat. *)

Owed(q) == {q[k] : k \in DOMAIN q}

LEMMA OwedTail ==
  ASSUME NEW S, NEW q \in Seq(S), q # <<>>
  PROVE  Tail(q) \in Seq(S) /\ Head(q) \in S /\ Owed(q) \subseteq {Head(q)} \cup Owed(Tail(q))
<1>1. Tail(q) \in Seq(S) /\ Head(q) \in S /\ Len(Tail(q)) = Len(q) - 1
  OBVIOUS
<1>2. \A k \in DOMAIN q : k # 1 => k - 1 \in DOMAIN Tail(q) /\ Tail(q)[k - 1] = q[k]
  OBVIOUS
<1>3. ASSUME NEW k \in DOMAIN q PROVE q[k] \in {Head(q)} \cup Owed(Tail(q))
  <2>1. CASE k = 1
    BY <2>1
  <2>2. CASE k # 1
    BY <1>2, <2>2 DEF Owed
  <2>3. QED
    BY <2>1, <2>2
<1>4. Owed(q) \subseteq {Head(q)} \cup Owed(Tail(q))
  BY <1>3 DEF Owed
<1>5. QED
  BY <1>1, <1>4

\* What is booked of a chat whose calls all succeed.
ChildCalls  == {RecordRunStep("child", 1), FinishRun("child", 2)}
ChainCalls  == ChildCalls \cup {RecordRunStep("parent", 1)}
ParentCalls == IF childChats THEN {RecordRunStep("parent", 1), FinishRun("parent", 2)}
               ELSE {RecordRunStep("parent", 2), FinishRun("parent", 3)}
FinalCalls  == IF childChats THEN ChildCalls \cup ParentCalls ELSE ParentCalls
AllCalls    == ChainCalls \cup ParentCalls

Booked(c) == IF c.call = "step" THEN c.number \in steps[c.run] ELSE runTotal[c.run] = c.number

RunsTypeOK ==
  /\ childChats \in BOOLEAN /\ faulty \in BOOLEAN
  /\ chatPc \in {"new", "started", "chat", "done", "failed"}
  /\ chain \in Seq(AllCalls) /\ finalizer \in Seq(AllCalls)
  /\ DOMAIN steps = Runs /\ DOMAIN runTotal = Runs

\* Only what is planned is booked, and until a call fails the rest is owed.
PlanKept ==
  /\ chatPc = "new" => chain = <<>> /\ finalizer = <<>> /\ steps = [r \in Runs |-> {}]
  /\ \A r \in Runs : \A n \in steps[r] : RecordRunStep(r, n) \in AllCalls
  /\ ~faulty =>
       /\ chatPc \in {"chat", "done"} /\ ~childChats => \A c \in ChainCalls : Booked(c) \/ c \in Owed(chain)
       /\ chatPc = "done" => \A c \in FinalCalls : Booked(c) \/ c \in Owed(finalizer)

RunsInv == RunsTypeOK /\ PlanKept

LEMMA BookKeeps ==
  ASSUME RunsInv, NEW c \in AllCalls, Book(c), UNCHANGED childChats
  PROVE  /\ DOMAIN steps' = Runs /\ DOMAIN runTotal' = Runs
         /\ Booked(c)' /\ \A d \in AllCalls : Booked(d) => Booked(d)'
         /\ \A r \in Runs : \A n \in steps'[r] : RecordRunStep(r, n) \in AllCalls
<1>. USE DEF RunsInv, RunsTypeOK, PlanKept, AllCalls, ChainCalls, ChildCalls, ParentCalls, RecordRunStep, FinishRun, Runs
<1>1. DOMAIN steps' = Runs /\ DOMAIN runTotal' = Runs
  BY DEF Book
<1>2. Booked(c)'
  BY DEF Book, Booked
<1>3. \A d \in AllCalls : Booked(d) => Booked(d)'
  BY DEF Book, Booked
<1>4. \A r \in Runs : \A n \in steps'[r] : RecordRunStep(r, n) \in AllCalls
  BY DEF Book
<1>5. QED
  BY <1>1, <1>2, <1>3, <1>4

LEMMA BookkeepInv == ASSUME RunsInv, Bookkeep PROVE RunsInv'
<1>0. PICK c : c = Head(chain)
  OBVIOUS
<1>1. /\ chain' = Tail(chain) /\ UNCHANGED <<childChats, chatPc, finalizer>>
      /\ chatPc # "new" /\ chain # <<>>
      /\ (Book(c) /\ UNCHANGED faulty) \/ (faulty' = TRUE /\ UNCHANGED booked)
  BY <1>0 DEF Bookkeep, RunsInv, PlanKept
<1>2. chain' \in Seq(AllCalls) /\ c \in AllCalls /\ Owed(chain) \subseteq {c} \cup Owed(chain')
  BY <1>0, <1>1, OwedTail DEF RunsInv, RunsTypeOK
<1>3. UNCHANGED <<AllCalls, ChainCalls, FinalCalls>>
  BY <1>1 DEF AllCalls, ChainCalls, ChildCalls, ParentCalls, FinalCalls
<1>4. CASE faulty' = TRUE /\ UNCHANGED booked
  BY <1>1, <1>2, <1>3, <1>4 DEF RunsInv, RunsTypeOK, PlanKept, booked
<1>5. CASE Book(c) /\ UNCHANGED faulty
  <2>1. /\ DOMAIN steps' = Runs /\ DOMAIN runTotal' = Runs
        /\ Booked(c)' /\ \A d \in AllCalls : Booked(d) => Booked(d)'
        /\ \A r \in Runs : \A n \in steps'[r] : RecordRunStep(r, n) \in AllCalls
    BY <1>1, <1>2, <1>5, BookKeeps
  <2>2. RunsTypeOK'
    BY <1>1, <1>2, <1>3, <1>5, <2>1 DEF RunsInv, RunsTypeOK
  <2>3. ChainCalls \subseteq AllCalls /\ FinalCalls \subseteq AllCalls
    BY DEF AllCalls, ChainCalls, FinalCalls
  <2>4. PlanKept'
    BY <1>1, <1>2, <1>3, <1>5, <2>1, <2>3 DEF RunsInv, PlanKept
  <2>5. QED
    BY <2>2, <2>4 DEF RunsInv
<1>6. QED
  BY <1>1, <1>4, <1>5

LEMMA FinalizeInv == ASSUME RunsInv, Finalize PROVE RunsInv'
<1>0. PICK c : c = Head(finalizer)
  OBVIOUS
<1>1. /\ finalizer' = Tail(finalizer) /\ UNCHANGED <<childChats, chatPc, chain>>
      /\ chatPc # "new" /\ finalizer # <<>>
      /\ (Book(c) /\ UNCHANGED faulty) \/ (faulty' = TRUE /\ UNCHANGED booked)
  BY <1>0 DEF Finalize, RunsInv, PlanKept
<1>2. finalizer' \in Seq(AllCalls) /\ c \in AllCalls /\ Owed(finalizer) \subseteq {c} \cup Owed(finalizer')
  BY <1>0, <1>1, OwedTail DEF RunsInv, RunsTypeOK
<1>3. UNCHANGED <<AllCalls, ChainCalls, FinalCalls>>
  BY <1>1 DEF AllCalls, ChainCalls, ChildCalls, ParentCalls, FinalCalls
<1>4. CASE faulty' = TRUE /\ UNCHANGED booked
  BY <1>1, <1>2, <1>3, <1>4 DEF RunsInv, RunsTypeOK, PlanKept, booked
<1>5. CASE Book(c) /\ UNCHANGED faulty
  <2>1. /\ DOMAIN steps' = Runs /\ DOMAIN runTotal' = Runs
        /\ Booked(c)' /\ \A d \in AllCalls : Booked(d) => Booked(d)'
        /\ \A r \in Runs : \A n \in steps'[r] : RecordRunStep(r, n) \in AllCalls
    BY <1>1, <1>2, <1>5, BookKeeps
  <2>2. RunsTypeOK'
    BY <1>1, <1>2, <1>3, <1>5, <2>1 DEF RunsInv, RunsTypeOK
  <2>3. ChainCalls \subseteq AllCalls /\ FinalCalls \subseteq AllCalls
    BY DEF AllCalls, ChainCalls, FinalCalls
  <2>4. PlanKept'
    BY <1>1, <1>2, <1>3, <1>5, <2>1, <2>3 DEF RunsInv, PlanKept
  <2>5. QED
    BY <2>2, <2>4 DEF RunsInv
<1>6. QED
  BY <1>1, <1>4, <1>5

LEMMA ChatInv == ASSUME RunsInv, Chat PROVE RunsInv'
<1>1. chatPc = "chat" /\ UNCHANGED <<childChats, chain, booked>>
  BY DEF Chat
<1>2. UNCHANGED <<AllCalls, ChainCalls, FinalCalls>>
  BY <1>1 DEF AllCalls, ChainCalls, ChildCalls, ParentCalls, FinalCalls
<1>3. CASE chatPc' = "failed" /\ faulty' = TRUE /\ UNCHANGED finalizer
  BY <1>1, <1>2, <1>3 DEF RunsInv, RunsTypeOK, PlanKept, booked
<1>4. CASE chatPc' = "done" /\ finalizer' = FinalizeRun /\ UNCHANGED faulty
  <2>1. FinalizeRun \in Seq(AllCalls)
    <3>1. CASE childChats
      <4>1. /\ {RecordRunStep("child", 1), FinishRun("child", 2)} \subseteq AllCalls
            /\ {RecordRunStep("parent", 1), FinishRun("parent", 2)} \subseteq AllCalls
        BY <3>1 DEF AllCalls, ChainCalls, ChildCalls, ParentCalls
      <4>2. QED
        BY <3>1, <4>1 DEF FinalizeRun
    <3>2. CASE ~childChats
      <4>1. {RecordRunStep("parent", 2), FinishRun("parent", 3)} \subseteq AllCalls
        BY <3>2 DEF AllCalls, ParentCalls
      <4>2. QED
        BY <3>2, <4>1 DEF FinalizeRun
    <3>3. QED
      BY <3>1, <3>2
  <2>2. FinalCalls \subseteq Owed(FinalizeRun)
    BY DEF FinalizeRun, Owed, FinalCalls, ChildCalls, ParentCalls
  <2>3. QED
    BY <1>1, <1>2, <1>4, <2>1, <2>2 DEF RunsInv, RunsTypeOK, PlanKept, booked, Booked
<1>5. QED
  BY <1>3, <1>4 DEF Chat

LEMMA StandardChainInv == ASSUME RunsInv, startStandardRunChain PROVE RunsInv'
<1>. DEFINE plan == <<RecordRunStep("child", 1), FinishRun("child", 2), RecordRunStep("parent", 1)>>
<1>1. chatPc = "started" /\ ~childChats /\ UNCHANGED <<childChats, finalizer, booked>>
  BY DEF startStandardRunChain
<1>2. UNCHANGED <<AllCalls, ChainCalls, FinalCalls>>
  BY <1>1 DEF AllCalls, ChainCalls, ChildCalls, ParentCalls, FinalCalls
<1>3. CASE chatPc' = "failed" /\ faulty' = TRUE /\ UNCHANGED chain
  BY <1>1, <1>2, <1>3 DEF RunsInv, RunsTypeOK, PlanKept, booked
<1>4. CASE chatPc' = "chat" /\ UNCHANGED faulty /\ chain' = plan
  <2>1. plan \in Seq(AllCalls) /\ ChainCalls \subseteq Owed(plan)
    BY DEF AllCalls, ChainCalls, ChildCalls, Owed
  <2>2. QED
    BY <1>1, <1>2, <1>4, <2>1 DEF RunsInv, RunsTypeOK, PlanKept, booked, Booked
<1>5. QED
  BY <1>3, <1>4 DEF startStandardRunChain

LEMMA StartParentInv == ASSUME RunsInv, NEW childCarries \in BOOLEAN, StartParent(childCarries) PROVE RunsInv'
<1>1. /\ chatPc = "new" /\ chatPc' \in {"started", "failed"} /\ childChats' \in BOOLEAN
      /\ UNCHANGED <<chain, finalizer, booked>>
  BY DEF StartParent
<1>2. faulty' \in BOOLEAN
  BY DEF StartParent, RunsInv, RunsTypeOK
<1>3. RunsTypeOK'
  BY <1>1, <1>2 DEF RunsInv, RunsTypeOK, PlanKept, booked
<1>4. PlanKept'
  BY <1>1 DEF RunsInv, RunsTypeOK, PlanKept, booked
<1>5. QED
  BY <1>3, <1>4 DEF RunsInv

LEMMA RunsStep == RunsInv /\ [RunsNext]_runsVars => RunsInv'
<1>1. ASSUME RunsInv, startChildChatRunChain PROVE RunsInv'
  <2>1. /\ chatPc = "started" /\ childChats /\ chatPc' \in {"chat", "failed"}
        /\ UNCHANGED <<childChats, chain, finalizer, booked>>
    BY <1>1 DEF startChildChatRunChain
  <2>2. UNCHANGED <<AllCalls, ChainCalls, FinalCalls>> /\ childChats'
    BY <2>1 DEF AllCalls, ChainCalls, ChildCalls, ParentCalls, FinalCalls
  <2>3. faulty' \in BOOLEAN
    BY <1>1 DEF startChildChatRunChain, RunsInv, RunsTypeOK
  <2>4. RunsTypeOK'
    BY <1>1, <2>1, <2>2, <2>3 DEF RunsInv, RunsTypeOK, booked
  <2>5. PlanKept'
    BY <1>1, <2>1, <2>2 DEF RunsInv, PlanKept, booked
  <2>6. QED
    BY <2>4, <2>5 DEF RunsInv
<1>2. RunsInv /\ UNCHANGED <<childChats, chatPc, chain, finalizer, booked, faulty>> => RunsInv'
  BY DEF RunsInv, RunsTypeOK, PlanKept, booked, Booked, AllCalls, ChainCalls, ChildCalls, ParentCalls, FinalCalls
<1>3. RequestAds \/ ReportImpressions \/ UNCHANGED runsVars
        => UNCHANGED <<childChats, chatPc, chain, finalizer, booked, faulty>>
  BY DEF RequestAds, ReportImpressions, runsVars, booked
<1>4. QED
  BY <1>1, <1>2, <1>3, StartParentInv, StandardChainInv, ChatInv, BookkeepInv, FinalizeInv DEF RunsNext

\* Whatever the order in which the chain's goroutine and the finalizer get their calls
\* through: if none failed, both runs are finished with the steps up to the one announced.
THEOREM RunsCorrect == RunsSpec => []RunsAccounted
<1>1. RunsInit => RunsInv
  <2>. SUFFICES ASSUME RunsInit PROVE RunsInv
    OBVIOUS
  <2>1. chain = <<>> /\ finalizer = <<>> /\ chatPc = "new" /\ childChats = FALSE /\ faulty = FALSE
    BY DEF RunsInit
  <2>2. chain \in Seq(AllCalls) /\ finalizer \in Seq(AllCalls)
    BY <2>1
  <2>3. RunsTypeOK
    BY <2>1, <2>2 DEF RunsInit, RunsTypeOK
  <2>4. PlanKept
    BY <2>1 DEF RunsInit, PlanKept
  <2>5. QED
    BY <2>3, <2>4 DEF RunsInv
<1>2. ASSUME RunsInv, chatPc = "done", ~faulty, chain = <<>>, finalizer = <<>>, NEW r \in Runs
      PROVE  \E n \in {2, 3} : runTotal[r] = n /\ steps[r] = 1 .. n - 1
  <2>1. Owed(chain) = {} /\ Owed(finalizer) = {}
    BY <1>2 DEF Owed
  <2>2. \A c \in FinalCalls : Booked(c)
    BY <1>2, <2>1 DEF RunsInv, PlanKept
  <2>3. ~childChats => \A c \in ChainCalls : Booked(c)
    BY <1>2, <2>1 DEF RunsInv, PlanKept
  <2>4. \A n \in steps[r] : RecordRunStep(r, n) \in AllCalls
    BY <1>2 DEF RunsInv, PlanKept
  <2>5. Booked(RecordRunStep("child", 1)) /\ Booked(FinishRun("child", 2)) /\ Booked(RecordRunStep("parent", 1))
    BY <2>2, <2>3 DEF FinalCalls, ChainCalls, ChildCalls, ParentCalls
  <2>6. /\ runTotal["child"] = 2 /\ 1 \in steps["child"] /\ 1 \in steps["parent"]
    BY <2>5 DEF Booked, RecordRunStep, FinishRun
  <2>7. \A n \in steps["child"] : n = 1
    BY <1>2 DEF RunsInv, PlanKept, AllCalls, ChainCalls, ChildCalls, ParentCalls, RecordRunStep, FinishRun, Runs
  <2>8. CASE childChats
    <3>1. Booked(FinishRun("parent", 2))
      BY <2>2, <2>8 DEF FinalCalls, ParentCalls
    <3>2. runTotal["parent"] = 2
      BY <3>1 DEF Booked, FinishRun
    <3>3. \A n \in steps["parent"] : n = 1
      BY <1>2, <2>8
         DEF RunsInv, PlanKept, AllCalls, ChainCalls, ChildCalls, ParentCalls, RecordRunStep, FinishRun, Runs
    <3>4. steps["parent"] = 1 .. 2 - 1 /\ steps["child"] = 1 .. 2 - 1
      BY <2>6, <2>7, <3>3
    <3>5. QED
      BY <2>6, <3>2, <3>4 DEF Runs
  <2>9. CASE ~childChats
    <3>1. Booked(RecordRunStep("parent", 2)) /\ Booked(FinishRun("parent", 3))
      BY <2>2, <2>9 DEF FinalCalls, ParentCalls
    <3>2. runTotal["parent"] = 3 /\ 2 \in steps["parent"]
      BY <3>1 DEF Booked, RecordRunStep, FinishRun
    <3>3. \A n \in steps["parent"] : n \in {1, 2}
      BY <1>2, <2>9
         DEF RunsInv, PlanKept, AllCalls, ChainCalls, ChildCalls, ParentCalls, RecordRunStep, FinishRun, Runs
    <3>4. steps["parent"] = 1 .. 3 - 1 /\ steps["child"] = 1 .. 2 - 1
      BY <2>6, <2>7, <3>2, <3>3
    <3>5. QED
      BY <2>6, <3>2, <3>4 DEF Runs
  <2>10. QED
    BY <2>8, <2>9
<1>3. ASSUME RunsInv PROVE RunsAccounted
  <2>1. SUFFICES ASSUME chatPc = "done", ~faulty, chain = <<>>, finalizer = <<>>, NEW r \in Runs
                 PROVE  runTotal[r] > 0 /\ steps[r] = 1 .. runTotal[r] - 1
    BY DEF RunsAccounted
  <2>2. PICK n \in {2, 3} : runTotal[r] = n /\ steps[r] = 1 .. n - 1
    BY <1>2, <1>3, <2>1
  <2>3. runTotal[r] > 0
    BY <2>2
  <2>4. steps[r] = 1 .. runTotal[r] - 1
    BY <2>2
  <2>5. QED
    BY <2>3, <2>4
<1>4. QED
  BY <1>1, <1>3, RunsStep, PTL DEF RunsSpec

-----------------------------------------------------------------------------
(* Induction over numbers and finite sets. *)

Less == {p \in Nat \X Nat : p[1] < p[2]}

LEMMA Least == ASSUME NEW T, T \subseteq Nat, T # {} PROVE \E x \in T : \A y \in T : x <= y
<1>1. IsWellFoundedOn(Less, Nat)
  BY NatLessThanWellFounded DEF OpToRel, Less
<1>2. PICK x \in T : \A y \in T : <<y, x>> \notin Less
  BY <1>1, WFMin, Zenon
<1>3. ASSUME NEW y \in T PROVE x <= y
  <2>1. x \in Nat /\ y \in Nat
    OBVIOUS
  <2>2. ~(y < x)
    BY <1>2, <2>1 DEF Less
  <2>3. QED
    BY <2>1, <2>2
<1>4. QED
  BY <1>3

\* Induction over a finite set, what holds of a set being given as the set P of the sets
\* it holds of: a smallest set it did not hold of would be one element away from one it does.
LEMMA SetInduction ==
  ASSUME NEW S, IsFiniteSet(S), NEW P, {} \in P,
         \A T \in SUBSET S : \A x \in S : T \in P /\ x \notin T => T \cup {x} \in P
  PROVE  S \in P
<1>. DEFINE Bad == {k \in Nat : \E T \in SUBSET S : Cardinality(T) = k /\ T \notin P}
<1>1. SUFFICES ASSUME S \notin P PROVE FALSE
  OBVIOUS
<1>2. Bad # {}
  BY <1>1, FS_CardinalityType
<1>3. PICK k \in Bad : \A j \in Bad : k <= j
  BY <1>2, Least
<1>4. PICK T \in SUBSET S : Cardinality(T) = k /\ T \notin P
  BY <1>3
<1>5. PICK x : x \in T
  BY <1>4
<1>. DEFINE R == T \ {x}
<1>6. IsFiniteSet(T) /\ k \in Nat
  BY <1>3, FS_Subset
<1>7. Cardinality(R) = k - 1 /\ R \in SUBSET S /\ k # 0
  BY <1>4, <1>5, <1>6, FS_RemoveElement, FS_EmptySet
<1>8. R \in P
  <2>1. k - 1 \in Nat /\ ~(k <= k - 1)
    BY <1>6, <1>7
  <2>2. QED
    BY <1>3, <1>7, <2>1
<1>9. R \cup {x} = T /\ x \notin R /\ x \in S
  BY <1>5
<1>10. QED
  BY <1>4, <1>7, <1>8, <1>9

-----------------------------------------------------------------------------
(* Sums: a sum of numbers is the number of pairs of an index and a number below *)
(* what stands there.                                                           *)

Pairs(f, S) == {p \in S \X Nat : p[2] \in 1..f[p[1]]}

LEMMA PairsGrow ==
  ASSUME NEW S, NEW x, x \notin S, NEW f, f[x] \in Nat, IsFiniteSet(Pairs(f, S))
  PROVE  /\ IsFiniteSet(Pairs(f, S \cup {x}))
         /\ Cardinality(Pairs(f, S \cup {x})) = f[x] + Cardinality(Pairs(f, S))
<1>. DEFINE new == {x} \X (1..f[x])
<1>1. Pairs(f, S \cup {x}) = Pairs(f, S) \cup new
  BY DEF Pairs
<1>2. IsFiniteSet(new) /\ Cardinality(new) = f[x]
  <2>1. IsFiniteSet(1..f[x]) /\ Cardinality(1..f[x]) = f[x]
    BY FS_Interval
  <2>2. IsFiniteSet({x}) /\ Cardinality({x}) = 1
    BY FS_Singleton
  <2>3. IsFiniteSet(new) /\ Cardinality(new) = Cardinality({x}) * Cardinality(1..f[x])
    BY <2>1, <2>2, FS_Product
  <2>. HIDE DEF new
  <2>4. QED
    BY <2>1, <2>2, <2>3
<1>3. Pairs(f, S) \cap new = {}
  BY DEF Pairs
<1>4. Cardinality(Pairs(f, S)) \in Nat
  BY FS_CardinalityType
<1>. HIDE DEF new
<1>5. /\ IsFiniteSet(Pairs(f, S) \cup new)
      /\ Cardinality(Pairs(f, S) \cup new)
           = Cardinality(Pairs(f, S)) + Cardinality(new) - Cardinality(Pairs(f, S) \cap new)
  BY <1>2, FS_Union
<1>6. Cardinality(Pairs(f, S) \cap new) = 0
  BY <1>3, FS_EmptySet
<1>. DEFINE old == Pairs(f, S)
            c == Cardinality(old)
            d == Cardinality(new)
            e == Cardinality(old \cup new)
<1>7. IsFiniteSet(old \cup new) /\ e = c + d - 0 /\ c \in Nat /\ d = f[x]
  BY <1>2, <1>4, <1>5, <1>6
<1>8. IsFiniteSet(old \cup new) /\ e = f[x] + c
  <2>. HIDE DEF c, d, e
  <2>1. QED
    BY <1>7
<1>9. QED
  BY <1>1, <1>8

LEMMA PairsAreFinite ==
  ASSUME NEW S, IsFiniteSet(S), NEW f, \A x \in S : f[x] \in Nat
  PROVE  IsFiniteSet(Pairs(f, S))
<1>. DEFINE P == {T \in SUBSET S : IsFiniteSet(Pairs(f, T))}
<1>1. {} \in P
  <2>1. Pairs(f, {}) = {}
    BY DEF Pairs
  <2>2. QED
    BY <2>1, FS_EmptySet
<1>2. ASSUME NEW T \in SUBSET S, NEW x \in S, T \in P /\ x \notin T PROVE T \cup {x} \in P
  BY <1>2, PairsGrow
<1>. HIDE DEF P
<1>3. S \in P
  BY <1>1, <1>2, SetInduction
<1>4. QED
  BY <1>3 DEF P

LEMMA SumIsCount ==
  ASSUME NEW S, IsFiniteSet(S), NEW f, \A x \in S : f[x] \in Nat
  PROVE  Sum(f, S) = Cardinality(Pairs(f, S))
<1>. DEFINE Some(s) == CHOOSE x \in s : TRUE
            Step(g) == [s \in SUBSET S |-> IF s = {} THEN 0 ELSE f[Some(s)] + g[s \ {Some(s)}]]
            iter == CHOOSE g : g = Step(g)
            count == [s \in SUBSET S |-> Cardinality(Pairs(f, s))]
<1>1. Sum(f, S) = iter[S]
  BY DEF Sum, FoldFunctionOnSet, MapThenFoldSet
<1>2. count = Step(count)
  <2>1. ASSUME NEW s \in SUBSET S, s = {} PROVE Cardinality(Pairs(f, s)) = 0
    <3>1. Pairs(f, s) = {}
      BY <2>1 DEF Pairs
    <3>2. QED
      BY <3>1, FS_EmptySet
  <2>2. ASSUME NEW s \in SUBSET S, s # {}
        PROVE  /\ s \ {Some(s)} \in SUBSET S
               /\ Cardinality(Pairs(f, s)) = f[Some(s)] + Cardinality(Pairs(f, s \ {Some(s)}))
    <3>. DEFINE x == Some(s)
                r == s \ {x}
    <3>1. x \in s
      BY <2>2
    <3>. HIDE DEF x
    <3>2. IsFiniteSet(r) /\ r \cup {x} = s /\ x \notin r /\ r \in SUBSET S /\ f[x] \in Nat
      BY <3>1, FS_Subset
    <3>3. IsFiniteSet(Pairs(f, r))
      BY <3>2, PairsAreFinite
    <3>4. Cardinality(Pairs(f, r \cup {x})) = f[x] + Cardinality(Pairs(f, r))
      <4>. HIDE DEF r
      <4>1. QED
        BY <3>2, <3>3, PairsGrow
    <3>5. QED
      BY <3>2, <3>4 DEF x
  <2>. HIDE DEF Some
  <2>3. QED
    BY <2>1, <2>2
<1>. HIDE DEF Some
<1>3. iter = Step(iter)
  <2>. HIDE DEF Step, count
  <2>1. QED
    BY <1>2
<1>. HIDE DEF iter
<1>. DEFINE P == {T \in SUBSET S : \A s \in SUBSET T : iter[s] = count[s]}
<1>4. ASSUME NEW s \in SUBSET S, s # {}
      PROVE  /\ iter[s] = f[Some(s)] + iter[s \ {Some(s)}]
             /\ count[s] = f[Some(s)] + count[s \ {Some(s)}]
             /\ Some(s) \in s
  <2>1. iter[s] = Step(iter)[s] /\ count[s] = Step(count)[s]
    <3>. HIDE DEF Step, count
    <3>1. QED
      BY <1>2, <1>3
  <2>. HIDE DEF count
  <2>2. QED
    BY <1>4, <2>1 DEF Some
<1>5. iter[{}] = 0 /\ count[{}] = 0
  <2>1. {} \in SUBSET S
    OBVIOUS
  <2>2. iter[{}] = Step(iter)[{}] /\ count[{}] = Step(count)[{}]
    <3>. HIDE DEF Step, count
    <3>1. QED
      BY <1>2, <1>3
  <2>. HIDE DEF count
  <2>3. QED
    BY <2>1, <2>2
<1>. HIDE DEF count, Step
<1>6. {} \in P
  <2>1. \A s \in SUBSET {} : s = {}
    OBVIOUS
  <2>2. QED
    BY <1>5, <2>1
<1>7. ASSUME NEW T \in SUBSET S, NEW x \in S, T \in P /\ x \notin T PROVE T \cup {x} \in P
  <2>. DEFINE U == T \cup {x}
  <2>. DEFINE Bad == {k \in Nat : \E s \in SUBSET U : Cardinality(s) = k /\ iter[s] # count[s]}
  <2>1. ASSUME Bad # {} PROVE FALSE
    <3>1. PICK k \in Bad : \A j \in Bad : k <= j
      BY <2>1, Least
    <3>2. PICK s \in SUBSET U : Cardinality(s) = k /\ iter[s] # count[s]
      BY <3>1
    <3>3. s # {} /\ s \in SUBSET S
      BY <1>5, <3>2
    <3>. DEFINE y == Some(s)
                r == s \ {y}
    <3>4. y \in s
      BY <1>4, <3>3
    <3>5. iter[r] # count[r] /\ r \in SUBSET U
      BY <1>4, <3>2, <3>3
    <3>6. IsFiniteSet(s) /\ k \in Nat
      BY <3>1, <3>3, FS_Subset
    <3>7. Cardinality(r) = k - 1 /\ k # 0
      BY <3>2, <3>4, <3>6, FS_RemoveElement, FS_EmptySet
    <3>8. k - 1 \in Nat /\ ~(k <= k - 1)
      BY <3>6, <3>7
    <3>9. QED
      BY <3>1, <3>5, <3>7, <3>8
  <2>2. U \in SUBSET S
    BY <1>7
  <2>3. ASSUME NEW s \in SUBSET U PROVE iter[s] = count[s]
    <3>1. Cardinality(s) \in Nat
      BY <2>2, FS_Subset, FS_CardinalityType
    <3>2. QED
      BY <2>1, <3>1
  <2>4. QED
    BY <2>2, <2>3
<1>. HIDE DEF P
<1>8. S \in P
  BY <1>6, <1>7, SetInduction
<1>9. iter[S] = count[S]
  BY <1>8 DEF P
<1>10. QED
  BY <1>1, <1>9 DEF count

LEMMA SumEmpty == ASSUME NEW f PROVE Sum(f, {}) = 0
<1>1. Pairs(f, {}) = {}
  BY DEF Pairs
<1>2. QED
  BY <1>1, SumIsCount, FS_EmptySet

LEMMA SumAdd ==
  ASSUME NEW S, IsFiniteSet(S), NEW x, x \notin S, NEW f, \A y \in S \cup {x} : f[y] \in Nat
  PROVE  Sum(f, S) \in Nat /\ Sum(f, S \cup {x}) = f[x] + Sum(f, S)
<1>1. IsFiniteSet(S \cup {x})
  BY FS_AddElement
<1>2. IsFiniteSet(Pairs(f, S)) /\ Cardinality(Pairs(f, S)) \in Nat
  BY PairsAreFinite, FS_CardinalityType
<1>3. Sum(f, S) = Cardinality(Pairs(f, S)) /\ Sum(f, S \cup {x}) = Cardinality(Pairs(f, S \cup {x}))
  BY <1>1, SumIsCount
<1>4. Cardinality(Pairs(f, S \cup {x})) = f[x] + Cardinality(Pairs(f, S))
  BY <1>2, PairsGrow
<1>5. QED
  BY <1>2, <1>3, <1>4

LEMMA SumIsNat ==
  ASSUME NEW S, IsFiniteSet(S), NEW f, \A y \in S : f[y] \in Nat
  PROVE  Sum(f, S) \in Nat
  BY PairsAreFinite, FS_CardinalityType, SumIsCount

\* A sum of more than each set holds is more than all of them hold together.
LEMMA SumAtLeast ==
  ASSUME NEW S, IsFiniteSet(S), NEW f, NEW K, \A x \in S : f[x] \in Nat /\ IsFiniteSet(K[x]) /\ Cardinality(K[x]) <= f[x]
  PROVE  LET all == UNION {K[x] : x \in S} IN IsFiniteSet(all) /\ Cardinality(all) <= Sum(f, S)
<1>. DEFINE U(T) == UNION {K[x] : x \in T}
            P == {T \in SUBSET S : IsFiniteSet(U(T)) /\ Cardinality(U(T)) <= Sum(f, T)}
<1>1. {} \in P
  <2>1. U({}) = {}
    OBVIOUS
  <2>2. Cardinality({}) <= Sum(f, {}) /\ IsFiniteSet({})
    BY SumEmpty, FS_EmptySet
  <2>3. QED
    BY <2>1, <2>2
<1>2. ASSUME NEW T \in SUBSET S, NEW x \in S, T \in P /\ x \notin T PROVE T \cup {x} \in P
  <2>1. U(T \cup {x}) = U(T) \cup K[x]
    OBVIOUS
  <2>. DEFINE u == U(T)
              k == K[x]
  <2>2. IsFiniteSet(u) /\ Cardinality(u) <= Sum(f, T) /\ IsFiniteSet(k) /\ Cardinality(k) <= f[x] /\ f[x] \in Nat
    BY <1>2
  <2>3. Sum(f, T) \in Nat /\ Sum(f, T \cup {x}) = f[x] + Sum(f, T)
    <3>1. IsFiniteSet(T)
      BY FS_Subset
    <3>2. QED
      BY <1>2, <3>1, SumAdd
  <2>. HIDE DEF u, k
  <2>4. /\ IsFiniteSet(u \cup k) /\ Cardinality(u \cup k) = Cardinality(u) + Cardinality(k) - Cardinality(u \cap k)
        /\ Cardinality(u) \in Nat /\ Cardinality(k) \in Nat /\ Cardinality(u \cap k) \in Nat
    <3>1. IsFiniteSet(u \cap k)
      BY <2>2, FS_Subset
    <3>2. QED
      BY <2>2, <3>1, FS_Union, FS_CardinalityType
  <2>5. IsFiniteSet(u \cup k) /\ Cardinality(u \cup k) <= Sum(f, T \cup {x})
    BY <2>2, <2>3, <2>4
  <2>6. QED
    BY <2>1, <2>5 DEF u, k
<1>. HIDE DEF P
<1>3. S \in P
  BY <1>1, <1>2, SetInduction
<1>4. QED
  BY <1>3 DEF P

\* A sum of no more than each of some disjoint sets holds is no more than they hold together.
LEMMA SumAtMost ==
  ASSUME NEW S, IsFiniteSet(S), NEW f, NEW K,
         \A x \in S : f[x] \in Nat /\ IsFiniteSet(K[x]) /\ f[x] <= Cardinality(K[x]),
         \A x \in S, y \in S : \A e \in K[x] : e \in K[y] => x = y
  PROVE  LET all == UNION {K[x] : x \in S} IN IsFiniteSet(all) /\ Sum(f, S) <= Cardinality(all)
<1>. DEFINE U(T) == UNION {K[x] : x \in T}
            P == {T \in SUBSET S : IsFiniteSet(U(T)) /\ Sum(f, T) <= Cardinality(U(T))}
<1>1. {} \in P
  <2>1. U({}) = {}
    OBVIOUS
  <2>2. Sum(f, {}) <= Cardinality({}) /\ IsFiniteSet({})
    BY SumEmpty, FS_EmptySet
  <2>3. QED
    BY <2>1, <2>2
<1>2. ASSUME NEW T \in SUBSET S, NEW x \in S, T \in P /\ x \notin T PROVE T \cup {x} \in P
  <2>1. U(T \cup {x}) = U(T) \cup K[x]
    OBVIOUS
  <2>. DEFINE u == U(T)
              k == K[x]
  <2>2. IsFiniteSet(u) /\ Sum(f, T) <= Cardinality(u) /\ IsFiniteSet(k) /\ f[x] <= Cardinality(k) /\ f[x] \in Nat
    BY <1>2
  <2>3. Sum(f, T) \in Nat /\ Sum(f, T \cup {x}) = f[x] + Sum(f, T)
    <3>1. IsFiniteSet(T)
      BY FS_Subset
    <3>2. QED
      BY <1>2, <3>1, SumAdd
  <2>4. u \cap k = {}
    <3>1. ASSUME NEW e \in u, e \in k PROVE FALSE
      <4>1. PICK y \in T : e \in K[y]
        BY <3>1
      <4>2. y # x /\ y \in S
        BY <1>2
      <4>3. e \in K[x]
        BY <3>1
      <4>4. QED
        BY <4>1, <4>2, <4>3
    <3>2. QED
      BY <3>1
  <2>. HIDE DEF u, k
  <2>5. /\ IsFiniteSet(u \cup k) /\ Cardinality(u \cup k) = Cardinality(u) + Cardinality(k) - 0
        /\ Cardinality(u) \in Nat /\ Cardinality(k) \in Nat
    <3>1. Cardinality(u \cap k) = 0
      BY <2>4, FS_EmptySet
    <3>2. QED
      BY <2>2, <3>1, FS_Union, FS_CardinalityType
  <2>6. IsFiniteSet(u \cup k) /\ Sum(f, T \cup {x}) <= Cardinality(u \cup k)
    BY <2>2, <2>3, <2>5
  <2>7. QED
    BY <2>1, <2>6 DEF u, k
<1>. HIDE DEF P
<1>3. S \in P
  BY <1>1, <1>2, SetInduction
<1>4. QED
  BY <1>3 DEF P

LEMMA SumsBelow ==
  ASSUME NEW S, IsFiniteSet(S), NEW f, NEW g, NEW h,
         \A x \in S : f[x] \in Nat /\ g[x] \in Nat /\ h[x] \in Nat /\ f[x] + g[x] <= h[x]
  PROVE  Sum(f, S) + Sum(g, S) <= Sum(h, S)
<1>. DEFINE P == {T \in SUBSET S : Sum(f, T) + Sum(g, T) <= Sum(h, T)}
<1>1. {} \in P
  BY SumEmpty
<1>2. ASSUME NEW T \in SUBSET S, NEW x \in S, T \in P /\ x \notin T PROVE T \cup {x} \in P
  <2>1. IsFiniteSet(T)
    BY FS_Subset
  <2>2. /\ Sum(f, T) \in Nat /\ Sum(f, T \cup {x}) = f[x] + Sum(f, T)
        /\ Sum(g, T) \in Nat /\ Sum(g, T \cup {x}) = g[x] + Sum(g, T)
        /\ Sum(h, T) \in Nat /\ Sum(h, T \cup {x}) = h[x] + Sum(h, T)
    BY <1>2, <2>1, SumAdd
  <2>3. QED
    BY <1>2, <2>2
<1>. HIDE DEF P
<1>3. S \in P
  BY <1>1, <1>2, SetInduction
<1>4. QED
  BY <1>3 DEF P

-----------------------------------------------------------------------------
(* The counters and what was recorded. *)

Outcomes == RequestOutcomes \cup SessionOutcomes
Counters == [Fields -> Nat]

\* The outcomes that a field counts.
Counted == [requests |-> RequestOutcomes, errors429 |-> {"rejected"}, errors |-> {"broken"},
            sessions |-> SessionOutcomes]

Events(m, S) == {k \in DOMAIN served : served[k].model = m /\ served[k].outcome \in S}
InMinute(t)  == {k \in DOMAIN served : MinuteOf(served[k].at) = t}
Unexpired         == {k \in DOMAIN served : served[k].at + Retention > ticks}

TelemetryTypeOK ==
  /\ ticks \in 1..MaxTicks
  /\ bucket \in [CountedModels \X Minutes -> Counters] /\ bucketUntil \in [CountedModels \X Minutes -> Nat]
  /\ total \in [CountedModels -> Counters] /\ totalUntil \in [CountedModels -> Nat]
  /\ first \in [CountedModels -> Nat] /\ last \in [CountedModels -> Nat]
  /\ times \subseteq Nat
  /\ served \in Seq([at : 1..MaxTicks, model : CountedModels, outcome : Outcomes])

\* A bucket counts all that is still kept of its minute, and nothing else.
BucketsCount ==
  \A m \in CountedModels, t \in Minutes, f \in Fields :
    LET all == Events(m, Counted[f]) \cap InMinute(t)
    IN  Cardinality(all \cap Unexpired) <= bucket[<<m, t>>][f] /\ bucket[<<m, t>>][f] <= Cardinality(all)

\* An answer is one error at most.
ErrorsAreRequests ==
  \A m \in CountedModels, t \in Minutes : bucket[<<m, t>>].errors + bucket[<<m, t>>].errors429 <= bucket[<<m, t>>].requests

TotalsCount == \A m \in CountedModels : Cardinality(Events(m, RequestOutcomes) \cap Unexpired) <= total[m].requests

\* A counter is kept as long as the last of what it counts.
CountersLast ==
  \A k \in DOMAIN served :
    LET record == served[k] IN
    /\ record.at <= ticks
    /\ bucketUntil[<<record.model, MinuteOf(record.at)>>] >= record.at + Retention
    /\ record.outcome \in RequestOutcomes => totalUntil[record.model] >= record.at + Retention

TimesAreRequests == \A s \in times : \E k \in DOMAIN served : served[k].at = s /\ served[k].outcome \in RequestOutcomes

TelemetryInv ==
  /\ TelemetryTypeOK /\ BucketsCount /\ ErrorsAreRequests /\ TotalsCount /\ CountersLast /\ TimesAreRequests

USE DEF RequestOutcomes, SessionOutcomes

LEMMA Numbers ==
  /\ IsFiniteSet(CountedModels) /\ Minute \in Nat \ {0} /\ MaxTicks \in Nat \ {0} /\ Retention \in Nat
  /\ Ranges \subseteq 1..Retention
  BY TelemetryAssumption

LEMMA FieldNames == Fields = {"requests", "errors429", "errors", "sessions"}
  BY DEF Fields, Zero

LEMMA ZeroCounts == Zero \in Counters /\ \A f \in Fields : Zero[f] = 0
  BY FieldNames DEF Zero, Counters

LEMMA Increments ==
  ASSUME NEW c \in Counters, NEW o \in Outcomes
  PROVE  /\ Increment(c, o) \in Counters
         /\ \A f \in Fields : Increment(c, o)[f] = c[f] + (IF o \in Counted[f] THEN 1 ELSE 0)
         /\ c.errors + c.errors429 <= c.requests =>
              Increment(c, o).errors + Increment(c, o).errors429 <= Increment(c, o).requests
<1>1. c \in [{"requests", "errors429", "errors", "sessions"} -> Nat]
  BY FieldNames DEF Counters
<1>2. CASE o = "session"
  <2>1. Increment(c, o) = [c EXCEPT !.sessions = @ + 1]
    BY <1>2 DEF Increment
  <2>2. QED
    BY <1>1, <1>2, <2>1, FieldNames DEF Counters, Counted
<1>3. CASE o # "session"
  <2>1. o \in {"served", "rejected", "broken"}
    BY <1>3 DEF Outcomes
  <2>2. Increment(c, o) = [c EXCEPT !.requests = c.requests + 1,
                                    !.errors429 = c.errors429 + (IF o = "rejected" THEN 1 ELSE 0),
                                    !.errors = c.errors + (IF o = "broken" THEN 1 ELSE 0)]
    BY <1>1, <1>3 DEF Increment
  <2>. DEFINE d == Increment(c, o)
              rejected == IF o = "rejected" THEN 1 ELSE 0
              broken == IF o = "broken" THEN 1 ELSE 0
  <2>3. /\ c["requests"] \in Nat /\ c["errors429"] \in Nat /\ c["errors"] \in Nat /\ c["sessions"] \in Nat
        /\ rejected \in 0..1 /\ broken \in 0..1 /\ rejected + broken <= 1
    BY <1>1
  <2>4. /\ d \in [{"requests", "errors429", "errors", "sessions"} -> Nat]
        /\ d["requests"] = c["requests"] + 1 /\ d["errors429"] = c["errors429"] + rejected
        /\ d["errors"] = c["errors"] + broken /\ d["sessions"] = c["sessions"]
    <3>. HIDE DEF rejected, broken
    <3>1. d = [c EXCEPT !["requests"] = c["requests"] + 1, !["errors429"] = c["errors429"] + rejected,
                        !["errors"] = c["errors"] + broken]
      BY <2>2 DEF rejected, broken
    <3>. HIDE DEF d
    <3>2. QED
      BY <1>1, <2>3, <3>1
  <2>5. /\ Counted["requests"] = RequestOutcomes /\ Counted["errors429"] = {"rejected"}
        /\ Counted["errors"] = {"broken"} /\ Counted["sessions"] = {"session"}
    BY DEF Counted
  <2>. HIDE DEF d
  <2>6. d \in Counters
    BY <2>4, FieldNames DEF Counters
  <2>7. \A f \in Fields : d[f] = c[f] + (IF o \in Counted[f] THEN 1 ELSE 0)
    BY <2>1, <2>3, <2>4, <2>5, FieldNames
  <2>8. c.errors + c.errors429 <= c.requests => d.errors + d.errors429 <= d.requests
    <3>. HIDE DEF rejected, broken
    <3>1. QED
      BY <2>3, <2>4
  <2>9. QED
    BY <2>6, <2>7, <2>8 DEF d
<1>4. QED
  BY <1>2, <1>3

LEMMA RemainderIs ==
  ASSUME NEW a \in Nat, NEW n \in Nat \ {0}
  PROVE  /\ a % n \in 0..(n - 1) /\ a % n <= a /\ a - (a % n) \in Nat
         /\ (a - (a % n)) % n = 0
<1>1. a % n \in 0..(n - 1) /\ a % n <= a
  OBVIOUS
<1>2. a \div n \in Nat /\ a = (n * (a \div n)) + (a % n)
  OBVIOUS
<1>. DEFINE q == a \div n
            b == a % n
<1>3. q \in Nat /\ a = (n * q) + b /\ b \in Nat
  BY <1>1, <1>2
<1>. HIDE DEF q, b
<1>4. n * q \in Nat /\ a - b = n * q
  BY <1>3
<1>5. (n * q) % n = 0
  BY <1>3
<1>6. (a - b) % n = 0
  BY <1>4, <1>5
<1>7. QED
  BY <1>1, <1>4, <1>6 DEF b

LEMMA MinuteIs ==
  ASSUME NEW t \in Nat
  PROVE  /\ MinuteOf(t) \in Nat /\ MinuteOf(t) <= t /\ t < MinuteOf(t) + Minute
         /\ t <= MaxTicks => MinuteOf(t) \in Minutes
<1>1. Minute \in Nat \ {0} /\ MaxTicks \in Nat
  BY Numbers
<1>. DEFINE r == t % Minute
<1>2. r \in 0..(Minute - 1) /\ r <= t /\ t - r \in Nat /\ (t - r) % Minute = 0
  BY <1>1, RemainderIs
<1>3. MinuteOf(t) = t - r
  BY DEF MinuteOf
<1>. HIDE DEF r
<1>4. QED
  BY <1>1, <1>2, <1>3 DEF Minutes

LEMMA MinutesInOrder ==
  ASSUME NEW s \in Nat, NEW t \in Nat, s <= t
  PROVE  MinuteOf(s) <= MinuteOf(t)
<1>1. Minute \in Nat \ {0}
  BY Numbers
<1>2. s - (s % Minute) <= t - (t % Minute)
  BY <1>1
<1>3. QED
  BY <1>2 DEF MinuteOf

LEMMA ServedIsFinite ==
  ASSUME TelemetryTypeOK, NEW S, S \subseteq DOMAIN served
  PROVE  IsFiniteSet(S) /\ Cardinality(S) \in Nat
<1>1. DOMAIN served = 1..Len(served) /\ Len(served) \in Nat
  BY DEF TelemetryTypeOK
<1>2. IsFiniteSet(DOMAIN served)
  BY <1>1, FS_Interval
<1>3. QED
  BY <1>2, FS_Subset, FS_CardinalityType

LEMMA Record ==
  ASSUME TelemetryTypeOK, NEW k \in DOMAIN served
  PROVE  /\ served[k].at \in 1..MaxTicks /\ served[k].at \in Nat /\ served[k].model \in CountedModels
         /\ served[k].outcome \in Outcomes
         /\ MinuteOf(served[k].at) \in Minutes
<1>. DEFINE Served == [at : 1..MaxTicks, model : CountedModels, outcome : Outcomes]
<1>1. served[k] \in Served
  <2>1. served \in Seq(Served)
    BY DEF TelemetryTypeOK
  <2>. HIDE DEF Served
  <2>2. QED
    BY <2>1
<1>2. served[k].at \in Nat /\ served[k].at <= MaxTicks
  BY <1>1, Numbers
<1>3. QED
  BY <1>1, <1>2, MinuteIs

-----------------------------------------------------------------------------
(* The counters count. *)

LEMMA InitCounts == ASSUME TelemetryInit PROVE TelemetryInv
<1>1. Zero \in Counters /\ \A f \in Fields : Zero[f] = 0
  BY ZeroCounts
<1>2. \A m \in CountedModels, t \in Minutes : bucket[<<m, t>>] = Zero
  BY DEF TelemetryInit
<1>3. served = << >> /\ DOMAIN served = {}
  BY DEF TelemetryInit
<1>4. TelemetryTypeOK
  <2>1. bucket \in [CountedModels \X Minutes -> Counters] /\ total \in [CountedModels -> Counters]
    BY <1>1 DEF TelemetryInit
  <2>2. bucketUntil \in [CountedModels \X Minutes -> Nat] /\ totalUntil \in [CountedModels -> Nat]
    BY Numbers DEF TelemetryInit, Never, Forever
  <2>3. first \in [CountedModels -> Nat] /\ last \in [CountedModels -> Nat]
    BY DEF TelemetryInit, Never
  <2>4. ticks \in 1..MaxTicks /\ times = {}
    BY Numbers DEF TelemetryInit
  <2>5. QED
    BY <1>3, <2>1, <2>2, <2>3, <2>4 DEF TelemetryTypeOK
<1>5. \A m, S : Events(m, S) = {}
  BY <1>3 DEF Events
<1>6. \A S : Cardinality({} \cap S) = 0
  BY FS_EmptySet
<1>7. BucketsCount
  <2>1. ASSUME NEW m \in CountedModels, NEW t \in Minutes, NEW f \in Fields
        PROVE  LET all == Events(m, Counted[f]) \cap InMinute(t)
               IN  Cardinality(all \cap Unexpired) <= bucket[<<m, t>>][f] /\ bucket[<<m, t>>][f] <= Cardinality(all)
    <3>1. Events(m, Counted[f]) \cap InMinute(t) = {} /\ Events(m, Counted[f]) \cap InMinute(t) \cap Unexpired = {}
      BY <1>5
    <3>2. bucket[<<m, t>>][f] = 0
      BY <1>1, <1>2
    <3>3. QED
      BY <3>1, <3>2, FS_EmptySet
  <2>2. QED
    BY <2>1 DEF BucketsCount
<1>8. ErrorsAreRequests
  <2>1. Zero.errors = 0 /\ Zero.errors429 = 0 /\ Zero.requests = 0
    BY DEF Zero
  <2>2. ASSUME NEW m \in CountedModels, NEW t \in Minutes
        PROVE  bucket[<<m, t>>].errors + bucket[<<m, t>>].errors429 <= bucket[<<m, t>>].requests
    <3>1. bucket[<<m, t>>] = Zero
      BY <1>2
    <3>2. QED
      BY <2>1, <3>1
  <2>3. QED
    BY <2>2 DEF ErrorsAreRequests
<1>9. TotalsCount
  <2>1. \A m \in CountedModels : Cardinality(Events(m, RequestOutcomes) \cap Unexpired) = 0
    BY <1>5, <1>6
  <2>2. \A m \in CountedModels : total[m].requests = 0
    BY <1>1, FieldNames DEF TelemetryInit
  <2>3. QED
    BY <2>1, <2>2 DEF TotalsCount
<1>10. CountersLast /\ TimesAreRequests
  BY <1>3 DEF TelemetryInit, CountersLast, TimesAreRequests
<1>11. QED
  BY <1>4, <1>7, <1>8, <1>9, <1>10 DEF TelemetryInv

Fresh == Len(served) + 1

\* One more record: what each set of records gains by it.
LEMMA OneMore ==
  ASSUME TelemetryTypeOK, NEW m \in CountedModels, NEW o \in Outcomes, History(m, o), UNCHANGED ticks
  PROVE  /\ served' \in Seq([at : 1..MaxTicks, model : CountedModels, outcome : Outcomes])
         /\ DOMAIN served' = DOMAIN served \cup {Fresh} /\ Fresh \notin DOMAIN served
         /\ \A k \in DOMAIN served : served'[k] = served[k]
         /\ served'[Fresh] = [at |-> ticks, model |-> m, outcome |-> o]
         /\ \A p, S : Events(p, S)' = Events(p, S) \cup (IF p = m /\ o \in S THEN {Fresh} ELSE {})
         /\ \A t : InMinute(t)' = InMinute(t) \cup (IF t = MinuteOf(ticks) THEN {Fresh} ELSE {})
         /\ Unexpired' \subseteq Unexpired \cup {Fresh} /\ Unexpired \subseteq Unexpired'
<1>. DEFINE Served == [at : 1..MaxTicks, model : CountedModels, outcome : Outcomes]
            new == [at |-> ticks, model |-> m, outcome |-> o]
<1>1. new \in Served /\ served \in Seq(Served)
  BY DEF TelemetryTypeOK
<1>2. served' = Append(served, new)
  BY DEF History
<1>. HIDE DEF Served
<1>3. served' \in Seq(Served)
  BY <1>1, <1>2
<1>. HIDE DEF new
<1>4. /\ DOMAIN served' = DOMAIN served \cup {Fresh} /\ Fresh \notin DOMAIN served
      /\ \A k \in DOMAIN served : served'[k] = served[k]
      /\ served'[Fresh] = new
  <2>1. Len(served) \in Nat /\ DOMAIN served = 1..Len(served) /\ served \in Seq(Served)
    BY <1>1
  <2>2. DOMAIN served' = 1..(Len(served) + 1)
    BY <1>1, <1>2
  <2>3. \A k \in DOMAIN served : served'[k] = served[k]
    BY <1>1, <1>2, <2>1
  <2>4. served'[Len(served) + 1] = new
    BY <1>1, <1>2
  <2>5. QED
    BY <2>1, <2>2, <2>3, <2>4 DEF Fresh
<1>5. new.at = ticks /\ new.model = m /\ new.outcome = o
  BY DEF new
<1>6. \A p, S : Events(p, S)' = Events(p, S) \cup (IF p = m /\ o \in S THEN {Fresh} ELSE {})
  BY <1>4, <1>5 DEF Events
<1>7. \A t : InMinute(t)' = InMinute(t) \cup (IF t = MinuteOf(ticks) THEN {Fresh} ELSE {})
  <2>. DEFINE Of(r) == MinuteOf(r.at)
  <2>1. Of(new) = MinuteOf(ticks)
    BY <1>5
  <2>2. \A t : InMinute(t) = {k \in DOMAIN served : Of(served[k]) = t}
    BY DEF InMinute
  <2>3. \A t : InMinute(t)' = {k \in DOMAIN served' : Of(served'[k]) = t}
    BY DEF InMinute, MinuteOf
  <2>. HIDE DEF Of
  <2>4. QED
    BY <1>4, <2>1, <2>2, <2>3
<1>8. Unexpired' \subseteq Unexpired \cup {Fresh} /\ Unexpired \subseteq Unexpired'
  BY <1>4 DEF Unexpired
<1>9. QED
  BY <1>3, <1>4, <1>6, <1>7, <1>8 DEF Served, new

LEMMA BucketGains ==
  ASSUME TelemetryInv, NEW m \in CountedModels, NEW o \in Outcomes,
         History(m, o), InBucket(m, o), UNCHANGED ticks
  PROVE  /\ bucket' \in [CountedModels \X Minutes -> Counters] /\ bucketUntil' \in [CountedModels \X Minutes -> Nat]
         /\ BucketsCount' /\ ErrorsAreRequests'
<1>. DEFINE n == Fresh
            u == MinuteOf(ticks)
            new == Increment(bucket[<<m, u>>], o)
<1>1. TelemetryTypeOK /\ BucketsCount /\ ErrorsAreRequests /\ ticks \in Nat /\ ticks <= MaxTicks
  BY Numbers DEF TelemetryInv, TelemetryTypeOK
<1>2. u \in Minutes
  BY <1>1, MinuteIs
<1>3. bucket' = [bucket EXCEPT ![<<m, u>>] = new] /\ bucketUntil' = [bucketUntil EXCEPT ![<<m, u>>] = ticks + Retention]
  BY DEF InBucket
<1>4. /\ bucket \in [CountedModels \X Minutes -> Counters] /\ bucketUntil \in [CountedModels \X Minutes -> Nat]
      /\ ticks + Retention \in Nat
  BY <1>1, Numbers DEF TelemetryTypeOK
<1>5. bucket[<<m, u>>] \in Counters
  BY <1>2, <1>4
<1>6. /\ new \in Counters
      /\ \A f \in Fields : new[f] = bucket[<<m, u>>][f] + (IF o \in Counted[f] THEN 1 ELSE 0)
      /\ new.errors + new.errors429 <= new.requests
  <2>1. bucket[<<m, u>>].errors + bucket[<<m, u>>].errors429 <= bucket[<<m, u>>].requests
    BY <1>1, <1>2 DEF ErrorsAreRequests
  <2>2. QED
    BY <1>5, <2>1, Increments
<1>7. /\ DOMAIN served' = DOMAIN served \cup {n} /\ n \notin DOMAIN served
      /\ \A p, S : Events(p, S)' = Events(p, S) \cup (IF p = m /\ o \in S THEN {n} ELSE {})
      /\ \A t : InMinute(t)' = InMinute(t) \cup (IF t = u THEN {n} ELSE {})
      /\ Unexpired' \subseteq Unexpired \cup {n} /\ Unexpired \subseteq Unexpired'
  BY <1>1, OneMore
<1>. HIDE DEF u, n, new
<1>8. bucket' \in [CountedModels \X Minutes -> Counters] /\ bucketUntil' \in [CountedModels \X Minutes -> Nat]
  BY <1>3, <1>4, <1>6
<1>9. bucket'[<<m, u>>] = new /\ \A k \in CountedModels \X Minutes : k # <<m, u>> => bucket'[k] = bucket[k]
  BY <1>2, <1>3, <1>4
<1>10. BucketsCount'
  <2>1. ASSUME NEW p \in CountedModels, NEW t \in Minutes, NEW f \in Fields
        PROVE  LET all == Events(p, Counted[f])' \cap InMinute(t)'
               IN  /\ Cardinality(all \cap Unexpired') <= bucket'[<<p, t>>][f]
                   /\ bucket'[<<p, t>>][f] <= Cardinality(all)
    <3>. DEFINE old == Events(p, Counted[f]) \cap InMinute(t)
                all == Events(p, Counted[f])' \cap InMinute(t)'
                kept == old \cap Unexpired
    <3>1. Cardinality(kept) <= bucket[<<p, t>>][f] /\ bucket[<<p, t>>][f] <= Cardinality(old)
      BY <1>1 DEF BucketsCount
    <3>2. old \subseteq DOMAIN served
      BY DEF Events
    <3>3. IsFiniteSet(old) /\ IsFiniteSet(kept) /\ Cardinality(old) \in Nat /\ Cardinality(kept) \in Nat
      <4>1. kept \subseteq DOMAIN served
        BY <3>2
      <4>2. QED
        BY <1>1, <3>2, <4>1, ServedIsFinite
    <3>4. bucket[<<p, t>>][f] \in Nat
      BY <1>4 DEF Counters
    <3>5. CASE p = m /\ t = u /\ o \in Counted[f]
      <4>1. all = old \cup {n} /\ all \cap Unexpired' \subseteq kept \cup {n} /\ n \notin old
        BY <1>7, <3>2, <3>5
      <4>2. bucket'[<<p, t>>][f] = bucket[<<p, t>>][f] + 1
        BY <1>6, <1>9, <3>5
      <4>. HIDE DEF old, kept, all
      <4>3. Cardinality(all) = Cardinality(old) + 1
        BY <3>3, <4>1, FS_AddElement
      <4>4. Cardinality(kept \cup {n}) <= Cardinality(kept) + 1 /\ IsFiniteSet(kept \cup {n})
        <5>1. Cardinality(kept \cup {n}) = IF n \in kept THEN Cardinality(kept) ELSE Cardinality(kept) + 1
          BY <3>3, FS_AddElement
        <5>2. QED
          BY <3>3, <5>1, FS_AddElement
      <4>5. Cardinality(all \cap Unexpired') <= Cardinality(kept \cup {n}) /\ Cardinality(all \cap Unexpired') \in Nat
            /\ Cardinality(kept \cup {n}) \in Nat
        BY <4>1, <4>4, FS_Subset, FS_CardinalityType
      <4>6. QED
        BY <3>1, <3>3, <3>4, <4>2, <4>3, <4>4, <4>5 DEF all
    <3>6. CASE ~(p = m /\ t = u /\ o \in Counted[f])
      <4>1. all = old /\ all \cap Unexpired' = kept
        <5>1. all \subseteq old \cup {n} /\ n \notin all /\ old \subseteq all
          <6>1. n \notin Events(p, Counted[f]) /\ n \notin InMinute(t)
            BY <1>7 DEF Events, InMinute
          <6>2. QED
            BY <1>7, <3>6, <6>1
        <5>2. QED
          BY <1>7, <3>2, <5>1
      <4>2. bucket'[<<p, t>>][f] = bucket[<<p, t>>][f]
        <5>1. CASE <<p, t>> = <<m, u>>
          BY <1>6, <1>9, <3>4, <3>6, <5>1
        <5>2. CASE <<p, t>> # <<m, u>>
          BY <1>9, <5>2
        <5>3. QED
          BY <5>1, <5>2
      <4>3. QED
        BY <3>1, <4>1, <4>2
    <3>7. QED
      BY <3>5, <3>6
  <2>2. QED
    BY <2>1 DEF BucketsCount, Minutes, Fields, Zero
<1>11. ErrorsAreRequests'
  <2>1. ASSUME NEW p \in CountedModels, NEW t \in Minutes
        PROVE  bucket'[<<p, t>>].errors + bucket'[<<p, t>>].errors429 <= bucket'[<<p, t>>].requests
    <3>1. CASE <<p, t>> = <<m, u>>
      BY <1>6, <1>9, <3>1
    <3>2. CASE <<p, t>> # <<m, u>>
      BY <1>1, <1>9, <3>2 DEF ErrorsAreRequests
    <3>3. QED
      BY <3>1, <3>2
  <2>2. QED
    BY <2>1 DEF ErrorsAreRequests, Minutes
<1>12. QED
  BY <1>8, <1>10, <1>11

LEMMA RecordRequestCounts ==
  ASSUME TelemetryInv, NEW m \in CountedModels, NEW o \in RequestOutcomes, RecordRequest(m, o)
  PROVE  TelemetryInv'
<1>. DEFINE new == Increment(total[m], o)
<1>1. TelemetryTypeOK /\ TotalsCount /\ CountersLast /\ TimesAreRequests /\ o \in Outcomes /\ Retention \in Nat
      /\ ticks \in Nat /\ ticks \in 1..MaxTicks
  BY Numbers DEF TelemetryInv, TelemetryTypeOK, Outcomes
<1>2. History(m, o) /\ InBucket(m, o) /\ UNCHANGED ticks
  BY DEF RecordRequest
<1>3. /\ served' \in Seq([at : 1..MaxTicks, model : CountedModels, outcome : Outcomes])
      /\ DOMAIN served' = DOMAIN served \cup {Fresh} /\ Fresh \notin DOMAIN served
      /\ \A k \in DOMAIN served : served'[k] = served[k]
      /\ served'[Fresh] = [at |-> ticks, model |-> m, outcome |-> o]
      /\ \A p, S : Events(p, S)' = Events(p, S) \cup (IF p = m /\ o \in S THEN {Fresh} ELSE {})
      /\ Unexpired' \subseteq Unexpired \cup {Fresh} /\ Unexpired \subseteq Unexpired'
  BY <1>1, <1>2, OneMore
<1>4. /\ bucket' \in [CountedModels \X Minutes -> Counters] /\ bucketUntil' \in [CountedModels \X Minutes -> Nat]
      /\ BucketsCount' /\ ErrorsAreRequests'
  BY <1>1, <1>2, BucketGains
<1>5. /\ total' = [total EXCEPT ![m] = new] /\ totalUntil' = [totalUntil EXCEPT ![m] = ticks + Retention]
      /\ first' = [first EXCEPT ![m] = IF first[m] = Never THEN ticks ELSE first[m]]
      /\ last' = [last EXCEPT ![m] = last[m] + ticks]
  BY DEF RecordRequest
<1>6. /\ total \in [CountedModels -> Counters] /\ totalUntil \in [CountedModels -> Nat] /\ first \in [CountedModels -> Nat]
      /\ last \in [CountedModels -> Nat] /\ times \subseteq Nat
  BY <1>1 DEF TelemetryTypeOK
<1>7. new \in Counters /\ new["requests"] = total[m]["requests"] + 1
  <2>1. "requests" \in Fields /\ o \in Counted["requests"]
    BY FieldNames DEF Counted
  <2>2. total[m] \in Counters
    BY <1>6
  <2>3. QED
    BY <1>1, <2>1, <2>2, Increments
<1>. HIDE DEF new
<1>8. TelemetryTypeOK'
  <2>1. total' \in [CountedModels -> Counters] /\ totalUntil' \in [CountedModels -> Nat]
    BY <1>1, <1>5, <1>6, <1>7
  <2>2. first' \in [CountedModels -> Nat] /\ last' \in [CountedModels -> Nat]
    BY <1>1, <1>5, <1>6
  <2>3. times' \subseteq Nat
    BY <1>1, <1>6 DEF RecordRequest, ZAdd
  <2>4. QED
    BY <1>1, <1>2, <1>3, <1>4, <2>1, <2>2, <2>3 DEF TelemetryTypeOK, Minutes
<1>9. TotalsCount'
  <2>1. ASSUME NEW p \in CountedModels PROVE Cardinality(Events(p, RequestOutcomes)' \cap Unexpired') <= total'[p].requests
    <3>. DEFINE old == Events(p, RequestOutcomes) \cap Unexpired
                all == Events(p, RequestOutcomes)' \cap Unexpired'
    <3>1. Cardinality(old) <= total[p].requests /\ total[p].requests \in Nat
      <4>1. total[p] \in Counters /\ "requests" \in Fields
        BY <1>6, FieldNames
      <4>2. QED
        BY <1>1, <4>1 DEF TotalsCount, Counters
    <3>2. old \subseteq DOMAIN served
      BY DEF Events
    <3>3. IsFiniteSet(old) /\ Cardinality(old) \in Nat
      BY <1>1, <3>2, ServedIsFinite
    <3>4. CASE p = m
      <4>1. all \subseteq old \cup {Fresh}
        BY <1>3
      <4>2. IsFiniteSet(old \cup {Fresh}) /\ Cardinality(old \cup {Fresh}) = Cardinality(old) + 1
        <5>1. Fresh \notin old
          BY <1>3, <3>2
        <5>2. QED
          BY <3>3, <5>1, FS_AddElement
      <4>3. Cardinality(all) <= Cardinality(old) + 1 /\ Cardinality(all) \in Nat
        BY <4>1, <4>2, FS_Subset, FS_CardinalityType
      <4>4. total'[p].requests = total[p].requests + 1
        BY <1>5, <1>6, <1>7, <3>4
      <4>5. QED
        BY <3>1, <3>3, <4>3, <4>4
    <3>5. CASE p # m
      <4>1. all = old
        <5>1. Fresh \notin Events(p, RequestOutcomes)
          BY <1>3 DEF Events
        <5>2. Events(p, RequestOutcomes)' = Events(p, RequestOutcomes)
          BY <1>3, <3>5
        <5>3. QED
          BY <1>3, <5>1, <5>2
      <4>2. total'[p] = total[p]
        BY <1>5, <1>6, <3>5
      <4>3. QED
        BY <3>1, <4>1, <4>2
    <3>6. QED
      BY <3>4, <3>5
  <2>2. QED
    BY <2>1 DEF TotalsCount
<1>10. CountersLast'
  <2>1. ASSUME NEW k \in DOMAIN served'
        PROVE  /\ served'[k].at <= ticks'
               /\ bucketUntil'[<<served'[k].model, MinuteOf(served'[k].at)>>] >= served'[k].at + Retention
               /\ served'[k].outcome \in RequestOutcomes => totalUntil'[served'[k].model] >= served'[k].at + Retention
    <3>. DEFINE u == MinuteOf(ticks)
    <3>1. u \in Minutes
      BY <1>1, MinuteIs
    <3>2. bucketUntil' = [bucketUntil EXCEPT ![<<m, u>>] = ticks + Retention]
          /\ bucketUntil \in [CountedModels \X Minutes -> Nat]
      BY <1>1, <1>2 DEF InBucket, TelemetryTypeOK
    <3>. HIDE DEF u
    <3>3. CASE k = Fresh
      <4>1. served'[k].at = ticks /\ served'[k].model = m /\ served'[k].outcome = o
        BY <1>3, <3>3
      <4>2. MinuteOf(served'[k].at) = u
        BY <4>1 DEF u
      <4>3. bucketUntil'[<<m, u>>] = ticks + Retention /\ totalUntil'[m] = ticks + Retention
        BY <1>5, <1>6, <3>1, <3>2
      <4>4. QED
        BY <1>1, <1>2, <4>1, <4>2, <4>3
    <3>4. CASE k # Fresh
      <4>. DEFINE q == served[k].model
                  t == MinuteOf(served[k].at)
      <4>1. k \in DOMAIN served /\ served'[k] = served[k]
        BY <1>3, <3>4
      <4>2. /\ served[k].at <= ticks /\ bucketUntil[<<q, t>>] >= served[k].at + Retention
            /\ served[k].outcome \in RequestOutcomes => totalUntil[q] >= served[k].at + Retention
        BY <1>1, <4>1 DEF CountersLast
      <4>3. served[k].at \in Nat /\ q \in CountedModels /\ t \in Minutes
        BY <1>1, <4>1, Record
      <4>. HIDE DEF q, t
      <4>4. bucketUntil'[<<q, t>>] >= served[k].at + Retention
        BY <1>1, <3>2, <4>2, <4>3
      <4>5. served[k].outcome \in RequestOutcomes => totalUntil'[q] >= served[k].at + Retention
        BY <1>1, <1>5, <1>6, <4>2, <4>3
      <4>6. QED
        BY <1>2, <4>1, <4>2, <4>4, <4>5 DEF q, t
    <3>5. QED
      BY <3>3, <3>4
  <2>2. QED
    BY <2>1 DEF CountersLast, MinuteOf
<1>11. TimesAreRequests'
  <2>1. ASSUME NEW s \in times' PROVE \E k \in DOMAIN served' : served'[k].at = s /\ served'[k].outcome \in RequestOutcomes
    <3>1. s \in times \/ s = ticks
      BY DEF RecordRequest, ZAdd
    <3>2. QED
      BY <1>1, <1>3, <3>1 DEF TimesAreRequests
  <2>2. QED
    BY <2>1 DEF TimesAreRequests
<1>12. QED
  BY <1>4, <1>8, <1>9, <1>10, <1>11 DEF TelemetryInv

LEMMA RecordSessionCounts ==
  ASSUME TelemetryInv, NEW m \in CountedModels, NEW o \in SessionOutcomes, RecordSessionEvent(m, o)
  PROVE  TelemetryInv'
<1>. DEFINE new == Increment(total[m], o)
<1>1. TelemetryTypeOK /\ TotalsCount /\ CountersLast /\ TimesAreRequests /\ o \in Outcomes /\ Retention \in Nat
      /\ ticks \in Nat /\ ticks \in 1..MaxTicks
  BY Numbers DEF TelemetryInv, TelemetryTypeOK, Outcomes
<1>2. History(m, o) /\ InBucket(m, o) /\ UNCHANGED ticks
  BY DEF RecordSessionEvent
<1>3. /\ served' \in Seq([at : 1..MaxTicks, model : CountedModels, outcome : Outcomes])
      /\ DOMAIN served' = DOMAIN served \cup {Fresh} /\ Fresh \notin DOMAIN served
      /\ \A k \in DOMAIN served : served'[k] = served[k]
      /\ served'[Fresh] = [at |-> ticks, model |-> m, outcome |-> o]
      /\ \A p, S : Events(p, S)' = Events(p, S) \cup (IF p = m /\ o \in S THEN {Fresh} ELSE {})
      /\ Unexpired' \subseteq Unexpired \cup {Fresh} /\ Unexpired \subseteq Unexpired'
  BY <1>1, <1>2, OneMore
<1>4. /\ bucket' \in [CountedModels \X Minutes -> Counters] /\ bucketUntil' \in [CountedModels \X Minutes -> Nat]
      /\ BucketsCount' /\ ErrorsAreRequests'
  BY <1>1, <1>2, BucketGains
<1>5. total' = [total EXCEPT ![m] = new] /\ UNCHANGED <<totalUntil, first, last, times>>
  BY DEF RecordSessionEvent
<1>6. total \in [CountedModels -> Counters] /\ totalUntil \in [CountedModels -> Nat]
  BY <1>1 DEF TelemetryTypeOK
<1>7. new \in Counters /\ new["requests"] = total[m]["requests"]
  <2>1. "requests" \in Fields /\ o \notin Counted["requests"]
    BY FieldNames DEF Counted
  <2>2. total[m] \in Counters
    BY <1>6
  <2>3. new \in Counters /\ new["requests"] = total[m]["requests"] + 0 /\ total[m]["requests"] \in Nat
    BY <1>1, <2>1, <2>2, Increments DEF Counters
  <2>. HIDE DEF new
  <2>4. QED
    BY <2>3
<1>. HIDE DEF new
<1>8. TelemetryTypeOK'
  <2>1. total' \in [CountedModels -> Counters]
    BY <1>5, <1>6, <1>7
  <2>2. QED
    BY <1>1, <1>2, <1>3, <1>4, <1>5, <2>1 DEF TelemetryTypeOK, Minutes
<1>9. TotalsCount'
  <2>1. ASSUME NEW p \in CountedModels PROVE Cardinality(Events(p, RequestOutcomes)' \cap Unexpired') <= total'[p].requests
    <3>1. Cardinality(Events(p, RequestOutcomes) \cap Unexpired) <= total[p].requests
      BY <1>1 DEF TotalsCount
    <3>2. Events(p, RequestOutcomes)' = Events(p, RequestOutcomes) /\ Fresh \notin Events(p, RequestOutcomes)
      BY <1>3 DEF Events
    <3>3. Events(p, RequestOutcomes)' \cap Unexpired' = Events(p, RequestOutcomes) \cap Unexpired
      BY <1>3, <3>2
    <3>4. total'[p].requests = total[p].requests
      BY <1>5, <1>6, <1>7
    <3>5. QED
      BY <3>1, <3>3, <3>4
  <2>2. QED
    BY <2>1 DEF TotalsCount
<1>10. CountersLast'
  <2>1. ASSUME NEW k \in DOMAIN served'
        PROVE  /\ served'[k].at <= ticks'
               /\ bucketUntil'[<<served'[k].model, MinuteOf(served'[k].at)>>] >= served'[k].at + Retention
               /\ served'[k].outcome \in RequestOutcomes => totalUntil'[served'[k].model] >= served'[k].at + Retention
    <3>. DEFINE u == MinuteOf(ticks)
    <3>1. u \in Minutes
      BY <1>1, MinuteIs
    <3>2. bucketUntil' = [bucketUntil EXCEPT ![<<m, u>>] = ticks + Retention]
          /\ bucketUntil \in [CountedModels \X Minutes -> Nat]
      BY <1>1, <1>2 DEF InBucket, TelemetryTypeOK
    <3>. HIDE DEF u
    <3>3. CASE k = Fresh
      <4>1. served'[k].at = ticks /\ served'[k].model = m /\ served'[k].outcome \notin RequestOutcomes
        BY <1>3, <3>3
      <4>2. MinuteOf(served'[k].at) = u
        BY <4>1 DEF u
      <4>3. bucketUntil'[<<m, u>>] = ticks + Retention
        BY <3>1, <3>2
      <4>4. QED
        BY <1>1, <1>2, <4>1, <4>2, <4>3
    <3>4. CASE k # Fresh
      <4>. DEFINE q == served[k].model
                  t == MinuteOf(served[k].at)
      <4>1. k \in DOMAIN served /\ served'[k] = served[k]
        BY <1>3, <3>4
      <4>2. /\ served[k].at <= ticks /\ bucketUntil[<<q, t>>] >= served[k].at + Retention
            /\ served[k].outcome \in RequestOutcomes => totalUntil[q] >= served[k].at + Retention
        BY <1>1, <4>1 DEF CountersLast
      <4>3. served[k].at \in Nat /\ q \in CountedModels /\ t \in Minutes
        BY <1>1, <4>1, Record
      <4>. HIDE DEF q, t
      <4>4. bucketUntil'[<<q, t>>] >= served[k].at + Retention
        BY <1>1, <3>2, <4>2, <4>3
      <4>5. QED
        BY <1>2, <1>5, <4>1, <4>2, <4>4 DEF q, t
    <3>5. QED
      BY <3>3, <3>4
  <2>2. QED
    BY <2>1 DEF CountersLast, MinuteOf
<1>11. TimesAreRequests'
  BY <1>1, <1>3, <1>5 DEF TimesAreRequests
<1>12. QED
  BY <1>4, <1>8, <1>9, <1>10, <1>11 DEF TelemetryInv

\* What expires is no longer kept.
LEMMA SecondCounts == ASSUME TelemetryInv, Second PROVE TelemetryInv'
<1>. DEFINE gone == {m \in CountedModels : totalUntil[m] = ticks'}
<1>1. /\ TelemetryTypeOK /\ BucketsCount /\ ErrorsAreRequests /\ TotalsCount /\ CountersLast /\ TimesAreRequests
      /\ Retention \in Nat /\ MaxTicks \in Nat /\ ticks \in 1..MaxTicks /\ ticks \in Nat
  BY Numbers DEF TelemetryInv, TelemetryTypeOK
<1>2. ticks < MaxTicks /\ ticks' = ticks + 1 /\ UNCHANGED <<bucketUntil, times, served>>
  BY DEF Second
<1>3. /\ bucket' = [k \in CountedModels \X Minutes |-> IF bucketUntil[k] = ticks' THEN Zero ELSE bucket[k]]
      /\ total' = [m \in CountedModels |-> IF m \in gone THEN Zero ELSE total[m]]
      /\ totalUntil' = [m \in CountedModels |-> IF m \in gone THEN Forever ELSE totalUntil[m]]
      /\ first' = [m \in CountedModels |-> IF m \in gone THEN Never ELSE first[m]]
      /\ last' = [m \in CountedModels |-> IF m \in gone THEN Never ELSE last[m]]
  BY DEF Second
<1>. HIDE DEF gone
<1>4. /\ bucket \in [CountedModels \X Minutes -> Counters] /\ bucketUntil \in [CountedModels \X Minutes -> Nat]
      /\ total \in [CountedModels -> Counters] /\ totalUntil \in [CountedModels -> Nat]
      /\ first \in [CountedModels -> Nat] /\ last \in [CountedModels -> Nat]
  BY <1>1 DEF TelemetryTypeOK
<1>5. Zero \in Counters /\ \A f \in Fields : Zero[f] = 0
  BY ZeroCounts
<1>6. TelemetryTypeOK'
  <2>1. bucket' \in [CountedModels \X Minutes -> Counters]
    BY <1>3, <1>4, <1>5
  <2>2. total' \in [CountedModels -> Counters] /\ totalUntil' \in [CountedModels -> Nat]
    BY <1>1, <1>3, <1>4, <1>5 DEF Forever
  <2>3. first' \in [CountedModels -> Nat] /\ last' \in [CountedModels -> Nat]
    BY <1>3, <1>4 DEF Never
  <2>4. ticks' \in 1..MaxTicks
    BY <1>1, <1>2
  <2>5. QED
    BY <1>1, <1>2, <2>1, <2>2, <2>3, <2>4 DEF TelemetryTypeOK, Minutes
<1>7. Unexpired' \subseteq Unexpired /\ \A k \in DOMAIN served : k \in Unexpired' => served[k].at + Retention > ticks'
  <2>1. ASSUME NEW k \in DOMAIN served, served[k].at + Retention > ticks' PROVE served[k].at + Retention > ticks
    <3>1. served[k].at \in Nat
      BY <1>1, Record
    <3>2. QED
      BY <1>1, <1>2, <2>1, <3>1
  <2>2. QED
    BY <1>2, <2>1 DEF Unexpired
<1>8. \A m, S : Events(m, S)' = Events(m, S)
  BY <1>2 DEF Events
<1>9. \A t : InMinute(t)' = InMinute(t)
  BY <1>2 DEF InMinute, MinuteOf
<1>10. BucketsCount'
  <2>1. ASSUME NEW m \in CountedModels, NEW t \in Minutes, NEW f \in Fields
        PROVE  LET all == Events(m, Counted[f])' \cap InMinute(t)'
               IN  Cardinality(all \cap Unexpired') <= bucket'[<<m, t>>][f] /\ bucket'[<<m, t>>][f] <= Cardinality(all)
    <3>. DEFINE all == Events(m, Counted[f]) \cap InMinute(t)
    <3>1. Cardinality(all \cap Unexpired) <= bucket[<<m, t>>][f] /\ bucket[<<m, t>>][f] <= Cardinality(all)
      BY <1>1 DEF BucketsCount
    <3>2. all \subseteq DOMAIN served
      BY DEF Events
    <3>3. all = Events(m, Counted[f])' \cap InMinute(t)'
      BY <1>8, <1>9
    <3>4. bucket[<<m, t>>][f] \in Nat
      BY <1>4 DEF Counters
    <3>5. \A k \in all : served[k].model = m /\ MinuteOf(served[k].at) = t
      BY DEF Events, InMinute
    <3>. HIDE DEF all
    <3>6. /\ Cardinality(all) \in Nat /\ Cardinality(all \cap Unexpired) \in Nat /\ Cardinality(all \cap Unexpired') \in Nat
          /\ Cardinality(all \cap Unexpired') <= Cardinality(all \cap Unexpired)
      <4>1. IsFiniteSet(all \cap Unexpired) /\ Cardinality(all) \in Nat /\ Cardinality(all \cap Unexpired) \in Nat
        BY <1>1, <3>2, ServedIsFinite
      <4>2. (all \cap Unexpired') \subseteq (all \cap Unexpired)
        BY <1>7
      <4>3. QED
        BY <4>1, <4>2, FS_Subset, FS_CardinalityType
    <3>7. CASE bucketUntil[<<m, t>>] = ticks'
      <4>1. ASSUME NEW k \in all \cap Unexpired' PROVE FALSE
        <5>1. k \in DOMAIN served /\ served[k].at + Retention > ticks' /\ served[k].at \in Nat
          BY <1>1, <1>7, <3>2, <4>1, Record
        <5>2. bucketUntil[<<m, t>>] >= served[k].at + Retention
          BY <1>1, <3>5, <4>1, <5>1 DEF CountersLast
        <5>3. QED
          BY <1>1, <1>2, <3>7, <5>1, <5>2
      <4>2. Cardinality(all \cap Unexpired') = 0
        BY <4>1, FS_EmptySet
      <4>3. bucket'[<<m, t>>][f] = 0
        BY <1>3, <1>5, <3>7
      <4>4. QED
        BY <3>3, <3>6, <4>2, <4>3
    <3>8. CASE bucketUntil[<<m, t>>] # ticks'
      <4>1. bucket'[<<m, t>>] = bucket[<<m, t>>]
        BY <1>3, <3>8
      <4>2. QED
        BY <3>1, <3>3, <3>4, <3>6, <4>1
    <3>9. QED
      BY <3>7, <3>8
  <2>2. QED
    BY <2>1 DEF BucketsCount, Minutes, Fields, Zero
<1>11. ErrorsAreRequests'
  <2>1. ASSUME NEW m \in CountedModels, NEW t \in Minutes
        PROVE  bucket'[<<m, t>>].errors + bucket'[<<m, t>>].errors429 <= bucket'[<<m, t>>].requests
    <3>1. CASE bucketUntil[<<m, t>>] = ticks'
      <4>1. Zero.errors = 0 /\ Zero.errors429 = 0 /\ Zero.requests = 0
        BY DEF Zero
      <4>2. bucket'[<<m, t>>] = Zero
        BY <1>3, <3>1
      <4>3. QED
        BY <4>1, <4>2
    <3>2. CASE bucketUntil[<<m, t>>] # ticks'
      BY <1>1, <1>3, <3>2 DEF ErrorsAreRequests
    <3>3. QED
      BY <3>1, <3>2
  <2>2. QED
    BY <2>1 DEF ErrorsAreRequests, Minutes
<1>12. TotalsCount'
  <2>1. ASSUME NEW m \in CountedModels PROVE Cardinality(Events(m, RequestOutcomes)' \cap Unexpired') <= total'[m].requests
    <3>. DEFINE all == Events(m, RequestOutcomes)
    <3>1. Cardinality(all \cap Unexpired) <= total[m].requests /\ total[m].requests \in Nat
      <4>1. total[m] \in Counters /\ "requests" \in Fields
        BY <1>4, FieldNames
      <4>2. QED
        BY <1>1, <4>1 DEF TotalsCount, Counters
    <3>2. all \subseteq DOMAIN served /\ \A k \in all : served[k].model = m /\ served[k].outcome \in RequestOutcomes
      BY DEF Events
    <3>3. all = Events(m, RequestOutcomes)'
      BY <1>8
    <3>. HIDE DEF all
    <3>4. /\ Cardinality(all \cap Unexpired) \in Nat /\ Cardinality(all \cap Unexpired') \in Nat
          /\ Cardinality(all \cap Unexpired') <= Cardinality(all \cap Unexpired)
      <4>1. IsFiniteSet(all \cap Unexpired) /\ Cardinality(all \cap Unexpired) \in Nat
        BY <1>1, <3>2, ServedIsFinite
      <4>2. (all \cap Unexpired') \subseteq (all \cap Unexpired)
        BY <1>7
      <4>3. QED
        BY <4>1, <4>2, FS_Subset, FS_CardinalityType
    <3>5. CASE m \in gone
      <4>1. ASSUME NEW k \in all \cap Unexpired' PROVE FALSE
        <5>1. k \in DOMAIN served /\ served[k].at + Retention > ticks' /\ served[k].at \in Nat
          BY <1>1, <1>7, <3>2, <4>1, Record
        <5>2. totalUntil[m] >= served[k].at + Retention
          BY <1>1, <3>2, <4>1, <5>1 DEF CountersLast
        <5>3. totalUntil[m] = ticks'
          BY <3>5 DEF gone
        <5>4. QED
          BY <1>1, <1>2, <5>1, <5>2, <5>3
      <4>2. Cardinality(all \cap Unexpired') = 0
        BY <4>1, FS_EmptySet
      <4>3. total'[m].requests = 0
        BY <1>3, <1>5, <3>5, FieldNames
      <4>4. QED
        BY <3>3, <4>2, <4>3
    <3>6. CASE m \notin gone
      <4>1. total'[m] = total[m]
        BY <1>3, <3>6
      <4>2. QED
        BY <3>1, <3>3, <3>4, <4>1
    <3>7. QED
      BY <3>5, <3>6
  <2>2. QED
    BY <2>1 DEF TotalsCount
<1>13. CountersLast'
  <2>1. ASSUME NEW k \in DOMAIN served
        PROVE  /\ served[k].at <= ticks'
               /\ bucketUntil[<<served[k].model, MinuteOf(served[k].at)>>] >= served[k].at + Retention
               /\ served[k].outcome \in RequestOutcomes => totalUntil'[served[k].model] >= served[k].at + Retention
    <3>. DEFINE q == served[k].model
    <3>1. served[k].at \in Nat /\ q \in CountedModels
      BY <1>1, <2>1, Record
    <3>2. /\ served[k].at <= ticks /\ bucketUntil[<<q, MinuteOf(served[k].at)>>] >= served[k].at + Retention
          /\ served[k].outcome \in RequestOutcomes => totalUntil[q] >= served[k].at + Retention
      BY <1>1, <2>1 DEF CountersLast
    <3>. HIDE DEF q
    <3>3. totalUntil'[q] >= totalUntil[q]
      <4>1. CASE q \in gone
        <5>1. totalUntil[q] = ticks' /\ totalUntil'[q] = MaxTicks + 1
          BY <1>3, <3>1, <4>1 DEF gone, Forever
        <5>2. QED
          BY <1>1, <1>2, <5>1
      <4>2. CASE q \notin gone
        <5>1. totalUntil'[q] = totalUntil[q] /\ totalUntil[q] \in Nat
          BY <1>3, <1>4, <3>1, <4>2
        <5>2. QED
          BY <5>1
      <4>3. QED
        BY <4>1, <4>2
    <3>4. totalUntil[q] \in Nat /\ totalUntil'[q] \in Nat
      BY <1>1, <1>3, <1>4, <3>1 DEF Forever
    <3>5. QED
      BY <1>1, <1>2, <3>1, <3>2, <3>3, <3>4 DEF q
  <2>2. \A k \in DOMAIN served : MinuteOf(served[k].at)' = MinuteOf(served[k].at)
    BY <1>2 DEF MinuteOf
  <2>3. QED
    BY <1>2, <2>1, <2>2 DEF CountersLast
<1>14. TimesAreRequests'
  BY <1>1, <1>2 DEF TimesAreRequests
<1>15. QED
  BY <1>6, <1>10, <1>11, <1>12, <1>13, <1>14 DEF TelemetryInv

LEMMA CountsStay == ASSUME TelemetryInv, [TelemetryNext]_telemetryVars PROVE TelemetryInv'
<1>1. CASE \E m \in CountedModels, o \in RequestOutcomes : RecordRequest(m, o)
  BY <1>1, RecordRequestCounts
<1>2. CASE \E m \in CountedModels, o \in SessionOutcomes : RecordSessionEvent(m, o)
  BY <1>2, RecordSessionCounts
<1>3. CASE Second
  BY <1>3, SecondCounts
<1>4. CASE UNCHANGED telemetryVars
  <2>1. UNCHANGED <<ticks, bucket, bucketUntil, total, totalUntil, first, last, times, served>>
    BY <1>4 DEF telemetryVars
  <2>2. TelemetryTypeOK' /\ ErrorsAreRequests' /\ TimesAreRequests'
    BY <2>1 DEF TelemetryInv, TelemetryTypeOK, ErrorsAreRequests, TimesAreRequests, Minutes
  <2>3. \A m, S : Events(m, S)' = Events(m, S)
    BY <2>1 DEF Events
  <2>4. \A t : InMinute(t)' = InMinute(t)
    BY <2>1 DEF InMinute, MinuteOf
  <2>5. Unexpired' = Unexpired
    BY <2>1 DEF Unexpired
  <2>6. BucketsCount'
    BY <2>1, <2>3, <2>4, <2>5 DEF TelemetryInv, BucketsCount, Minutes, Fields, Zero
  <2>7. TotalsCount'
    BY <2>1, <2>3, <2>5 DEF TelemetryInv, TotalsCount
  <2>8. CountersLast'
    BY <2>1 DEF TelemetryInv, CountersLast, MinuteOf
  <2>9. QED
    BY <2>2, <2>6, <2>7, <2>8 DEF TelemetryInv
<1>5. QED
  BY <1>1, <1>2, <1>3, <1>4 DEF TelemetryNext

-----------------------------------------------------------------------------
(* The figures. *)

Later(x) == {k \in DOMAIN served : served[k].at > x}

\* What a range shows of one model.
LEMMA SumOfBuckets ==
  ASSUME TelemetryInv, NEW m \in CountedModels, NEW range \in Ranges, ticks >= range, NEW f \in Fields
  PROVE  LET sum == sumBucketsForRange(m, range)[f]
             all == Events(m, Counted[f])
         IN  /\ sum \in Nat
             /\ Cardinality(all \cap Later(ticks - range)) <= sum
             /\ ticks >= range + Minute => sum <= Cardinality(all \cap Later(ticks - range - Minute))
<1>. DEFINE all == Events(m, Counted[f])
            b == [t \in Minutes |-> bucket[<<m, t>>][f]]
            T == MinutesOf(range)
            since == ticks - range
<1>1. /\ TelemetryTypeOK /\ BucketsCount /\ CountersLast
      /\ ticks \in Nat /\ ticks <= MaxTicks /\ Minute \in Nat \ {0} /\ MaxTicks \in Nat /\ Retention \in Nat
      /\ range \in 1..Retention /\ since \in Nat /\ since <= ticks
  <2>1. TelemetryTypeOK /\ BucketsCount /\ CountersLast /\ ticks \in 1..MaxTicks
    BY DEF TelemetryInv, TelemetryTypeOK
  <2>2. Minute \in Nat \ {0} /\ MaxTicks \in Nat /\ Retention \in Nat /\ range \in 1..Retention
    BY Numbers
  <2>3. QED
    BY <2>1, <2>2
<1>2. sumBucketsForRange(m, range)[f] = Sum(b, T)
  BY DEF sumBucketsForRange
<1>3. T = {t \in Minutes : MinuteOf(since) <= t /\ t <= ticks}
  BY <1>1 DEF MinutesOf, Since
<1>4. IsFiniteSet(T) /\ T \subseteq Minutes /\ Minutes \subseteq Nat
  <2>1. T \subseteq 0..MaxTicks /\ Minutes \subseteq Nat
    BY <1>3 DEF Minutes
  <2>2. QED
    <3>1. IsFiniteSet(0..MaxTicks)
      BY <1>1, FS_Interval
    <3>2. IsFiniteSet(T)
      BY <2>1, <3>1, FS_Subset
    <3>3. QED
      BY <1>3, <2>1, <3>2
<1>5. \A t \in Minutes :
        /\ b[t] \in Nat
        /\ Cardinality(all \cap InMinute(t) \cap Unexpired) <= b[t] /\ b[t] <= Cardinality(all \cap InMinute(t))
  <2>1. bucket \in [CountedModels \X Minutes -> [Fields -> Nat]]
    BY <1>1 DEF TelemetryTypeOK, Counters
  <2>2. ASSUME NEW t \in Minutes PROVE b[t] \in Nat
    BY <2>1
  <2>3. QED
    BY <1>1, <2>2 DEF BucketsCount
<1>6. all \subseteq DOMAIN served
  BY DEF Events
<1>7. \A k \in DOMAIN served :
        served[k].at \in Nat /\ served[k].at <= ticks /\ MinuteOf(served[k].at) \in Minutes
          /\ MinuteOf(served[k].at) <= served[k].at
  BY <1>1, Record, MinuteIs DEF CountersLast
<1>. HIDE DEF all, b, T
<1>8. Sum(b, T) \in Nat
  BY <1>4, <1>5, SumIsNat
<1>9. Cardinality(all \cap Later(since)) <= Sum(b, T)
  <2>. DEFINE K == [t \in T |-> all \cap InMinute(t) \cap Unexpired]
              union == UNION {K[t] : t \in T}
  <2>1. \A t \in T : b[t] \in Nat /\ IsFiniteSet(K[t]) /\ Cardinality(K[t]) <= b[t]
    <3>1. ASSUME NEW t \in T PROVE IsFiniteSet(all \cap InMinute(t) \cap Unexpired)
      BY <1>1, <1>6, ServedIsFinite
    <3>2. QED
      BY <1>4, <1>5, <3>1
  <2>2. all \cap Later(since) \subseteq union
    <3>1. ASSUME NEW k \in all \cap Later(since) PROVE k \in union
      <4>. DEFINE t == MinuteOf(served[k].at)
      <4>1. /\ k \in DOMAIN served /\ served[k].at > since /\ served[k].at \in Nat /\ served[k].at <= ticks
            /\ t \in Minutes /\ t <= served[k].at /\ t \in Nat
        BY <1>4, <1>6, <1>7 DEF Later
      <4>2. MinuteOf(since) <= t
        BY <1>1, <4>1, MinutesInOrder
      <4>3. k \in InMinute(t)
        BY <4>1 DEF InMinute
      <4>. HIDE DEF t
      <4>4. t \in T
        BY <1>1, <1>3, <4>1, <4>2
      <4>5. k \in Unexpired
        BY <1>1, <4>1 DEF Unexpired
      <4>6. k \in K[t]
        BY <4>3, <4>4, <4>5
      <4>7. QED
        BY <4>4, <4>6
    <3>2. QED
      BY <3>1
  <2>. HIDE DEF K
  <2>3. IsFiniteSet(union) /\ Cardinality(union) <= Sum(b, T)
    BY <1>4, <2>1, SumAtLeast
  <2>. HIDE DEF union
  <2>4. Cardinality(all \cap Later(since)) <= Cardinality(union) /\ Cardinality(union) \in Nat
        /\ Cardinality(all \cap Later(since)) \in Nat
    BY <2>2, <2>3, FS_Subset, FS_CardinalityType
  <2>5. QED
    BY <1>8, <2>3, <2>4
<1>10. ASSUME ticks >= range + Minute PROVE Sum(b, T) <= Cardinality(all \cap Later(since - Minute))
  <2>. DEFINE K == [t \in T |-> all \cap InMinute(t)]
              union == UNION {K[t] : t \in T}
  <2>1. \A t \in T : b[t] \in Nat /\ IsFiniteSet(K[t]) /\ b[t] <= Cardinality(K[t])
    <3>1. ASSUME NEW t \in T PROVE IsFiniteSet(all \cap InMinute(t))
      BY <1>1, <1>6, ServedIsFinite
    <3>2. QED
      BY <1>4, <1>5, <3>1
  <2>2. \A s \in T, t \in T : \A e \in K[s] : e \in K[t] => s = t
    BY DEF InMinute
  <2>3. union \subseteq all \cap Later(since - Minute)
    <3>1. ASSUME NEW k \in union PROVE k \in all /\ k \in Later(since - Minute)
      <4>1. PICK t \in T : k \in K[t]
        BY <3>1
      <4>2. k \in all /\ k \in DOMAIN served /\ MinuteOf(served[k].at) = t
        BY <4>1 DEF InMinute
      <4>3. served[k].at \in Nat /\ t <= served[k].at /\ MinuteOf(since) <= t /\ t \in Nat
        BY <1>3, <1>4, <1>7, <4>2
      <4>4. MinuteOf(since) \in Nat /\ since < MinuteOf(since) + Minute
        BY <1>1, MinuteIs
      <4>5. served[k].at > since - Minute
        BY <1>1, <4>3, <4>4
      <4>6. QED
        BY <4>2, <4>5 DEF Later
    <3>2. QED
      BY <3>1
  <2>. HIDE DEF K
  <2>4. Sum(b, T) <= Cardinality(union)
    <3>1. IsFiniteSet(T)
      BY <1>4
    <3>. HIDE DEF union
    <3>2. SUFFICES Sum(b, T) <= Cardinality(UNION {K[t] : t \in T})
      BY DEF union
    <3>3. QED
      BY <2>1, <2>2, <3>1, SumAtMost
  <2>. HIDE DEF union
  <2>5. Cardinality(union) <= Cardinality(all \cap Later(since - Minute)) /\ Cardinality(union) \in Nat
        /\ Cardinality(all \cap Later(since - Minute)) \in Nat
    <3>1. IsFiniteSet(all \cap Later(since - Minute)) /\ Cardinality(all \cap Later(since - Minute)) \in Nat
      BY <1>1, <1>6, ServedIsFinite
    <3>2. QED
      BY <2>3, <3>1, FS_Subset, FS_CardinalityType
  <2>6. QED
    BY <1>8, <2>4, <2>5
<1>11. QED
  BY <1>2, <1>8, <1>9, <1>10 DEF all

LEMMA ErrorsOfBuckets ==
  ASSUME TelemetryInv, NEW m \in CountedModels, NEW range \in Ranges, ticks >= range
  PROVE  sumBucketsForRange(m, range).errors + sumBucketsForRange(m, range).errors429
           <= sumBucketsForRange(m, range).requests
<1>. DEFINE b(f) == [t \in Minutes |-> bucket[<<m, t>>][f]]
            T == MinutesOf(range)
<1>1. T \subseteq Minutes /\ IsFiniteSet(T)
  <2>1. T \subseteq Minutes /\ T \subseteq 0..MaxTicks
    BY DEF MinutesOf, Minutes
  <2>2. IsFiniteSet(0..MaxTicks)
    BY Numbers, FS_Interval
  <2>. HIDE DEF T
  <2>3. QED
    BY <2>1, <2>2, FS_Subset
<1>2. \A f \in Fields : sumBucketsForRange(m, range)[f] = Sum(b(f), T)
  BY DEF sumBucketsForRange
<1>3. \A t \in Minutes : \A f \in Fields : b(f)[t] \in Nat
  <2>1. bucket \in [CountedModels \X Minutes -> [Fields -> Nat]]
    BY DEF TelemetryInv, TelemetryTypeOK, Counters
  <2>2. QED
    BY <2>1
<1>4. \A t \in Minutes : b("errors")[t] + b("errors429")[t] <= b("requests")[t]
  BY DEF TelemetryInv, ErrorsAreRequests
<1>. DEFINE e == b("errors")
            l == b("errors429")
            r == b("requests")
<1>5. \A t \in T : e[t] \in Nat /\ l[t] \in Nat /\ r[t] \in Nat /\ e[t] + l[t] <= r[t]
  BY <1>1, <1>3, <1>4, FieldNames
<1>. HIDE DEF e, l, r, T
<1>6. Sum(e, T) + Sum(l, T) <= Sum(r, T)
  BY <1>1, <1>5, SumsBelow
<1>7. QED
  BY <1>2, <1>6, FieldNames DEF e, l, r

Told(S) == {k \in DOMAIN served : served[k].outcome \in S}

LEMMA RecordedIs ==
  ASSUME TelemetryTypeOK, NEW S, NEW x
  PROVE  /\ Recorded(S, x) = Cardinality(Told(S) \cap Later(x)) /\ Recorded(S, x) \in Nat
         /\ IsFiniteSet(Told(S) \cap Later(x))
<1>1. Told(S) \cap Later(x) = {k \in DOMAIN served : served[k].outcome \in S /\ served[k].at > x}
  BY DEF Told, Later
<1>2. Told(S) \cap Later(x) \subseteq DOMAIN served
  BY <1>1
<1>3. QED
  BY <1>1, <1>2, ServedIsFinite DEF Recorded

\* What a range shows of all models.
LEMMA SumOfModels ==
  ASSUME TelemetryInv, NEW range \in Ranges, ticks >= range, NEW f \in Fields
  PROVE  LET figure == GetAccountsMetricsInRange(range)[f]
         IN  /\ figure \in Nat
             /\ Counted[f] \subseteq RequestOutcomes => figure >= Recorded(Counted[f], ticks - range)
             /\ ticks >= range + Minute => figure <= Recorded(Counted[f], ticks - range - Minute)
<1>. DEFINE F == [m \in CountedModels |-> sumBucketsForRange(m, range)]
            listed == {m \in CountedModels : F[m].requests # 0}
            g == [m \in CountedModels |-> F[m][f]]
            since == ticks - range
            all(m) == Events(m, Counted[f])
<1>1. TelemetryTypeOK /\ range \in Nat /\ range > 0 /\ range # 0 /\ IsFiniteSet(CountedModels) /\ Minute \in Nat /\ ticks \in Nat
  BY Numbers DEF TelemetryInv, TelemetryTypeOK
<1>2. GetAccountsMetricsInRange(range)[f] = Sum(g, listed)
  <2>1. F = [m \in CountedModels |-> IF range > 0 THEN sumBucketsForRange(m, range) ELSE parseModelMetrics(m)]
    BY <1>1
  <2>2. listed = {m \in CountedModels : range = 0 \/ F[m].requests # 0}
    BY <1>1
  <2>. HIDE DEF F, listed
  <2>3. QED
    BY <2>1, <2>2 DEF GetAccountsMetricsInRange
<1>3. \A m \in CountedModels :
        /\ g[m] \in Nat
        /\ Cardinality(all(m) \cap Later(since)) <= g[m]
        /\ ticks >= range + Minute => g[m] <= Cardinality(all(m) \cap Later(since - Minute))
  <2>1. \A m \in CountedModels : g[m] = sumBucketsForRange(m, range)[f]
    OBVIOUS
  <2>. HIDE DEF g
  <2>2. QED
    BY <2>1, SumOfBuckets
<1>4. \A m \in CountedModels : Cardinality(Events(m, RequestOutcomes) \cap Later(since)) <= F[m].requests
  <2>1. "requests" \in Fields /\ Counted["requests"] = RequestOutcomes
    BY FieldNames DEF Counted
  <2>2. \A m \in CountedModels : F[m].requests = sumBucketsForRange(m, range)["requests"]
    OBVIOUS
  <2>. HIDE DEF F
  <2>3. QED
    BY <2>1, <2>2, SumOfBuckets
<1>5. IsFiniteSet(listed) /\ listed \subseteq CountedModels
  BY <1>1, FS_Subset
<1>6. \A m \in CountedModels : \A x : IsFiniteSet(all(m) \cap Later(x)) /\ Cardinality(all(m) \cap Later(x)) \in Nat
  <2>1. \A m \in CountedModels : \A x : all(m) \cap Later(x) \subseteq DOMAIN served
    BY DEF Events
  <2>2. QED
    BY <1>1, <2>1, ServedIsFinite
<1>7. \A k \in DOMAIN served : served[k].model \in CountedModels
  BY <1>1, Record
<1>8. ASSUME NEW m \in CountedModels, m \notin listed PROVE Events(m, RequestOutcomes) \cap Later(since) = {}
  <2>. DEFINE E == Events(m, RequestOutcomes) \cap Later(since)
  <2>1. E \subseteq DOMAIN served
    BY DEF Events
  <2>2. IsFiniteSet(E) /\ Cardinality(E) \in Nat /\ Cardinality(E) <= 0
    BY <1>1, <1>4, <1>8, <2>1, ServedIsFinite
  <2>. HIDE DEF E
  <2>3. E = {}
    BY <2>2, FS_EmptySet
  <2>4. QED
    BY <2>3 DEF E
<1>. HIDE DEF F, listed, g
<1>9. Sum(g, listed) \in Nat
  BY <1>3, <1>5, SumIsNat
<1>10. ASSUME Counted[f] \subseteq RequestOutcomes PROVE Sum(g, listed) >= Recorded(Counted[f], since)
  <2>. DEFINE K == [m \in listed |-> all(m) \cap Later(since)]
              union == UNION {K[m] : m \in listed}
              told == Told(Counted[f]) \cap Later(since)
  <2>1. \A m \in listed : g[m] \in Nat /\ IsFiniteSet(K[m]) /\ Cardinality(K[m]) <= g[m]
    BY <1>3, <1>5, <1>6
  <2>2. told \subseteq union
    <3>1. ASSUME NEW k \in told PROVE k \in union
      <4>. DEFINE m == served[k].model
      <4>1. k \in DOMAIN served /\ k \in all(m) /\ k \in Later(since) /\ m \in CountedModels /\ served[k].outcome \in Counted[f]
        BY <1>7 DEF Told, Events, Later
      <4>2. k \in Events(m, RequestOutcomes)
        BY <1>10, <4>1 DEF Events
      <4>. HIDE DEF m
      <4>3. m \in listed
        BY <1>8, <4>1, <4>2
      <4>4. k \in K[m]
        BY <4>1, <4>3
      <4>5. QED
        BY <4>3, <4>4
    <3>2. QED
      BY <3>1
  <2>. HIDE DEF K
  <2>3. IsFiniteSet(union) /\ Cardinality(union) <= Sum(g, listed)
    BY <1>5, <2>1, SumAtLeast
  <2>. HIDE DEF union, told
  <2>4. Cardinality(told) <= Cardinality(union) /\ Cardinality(union) \in Nat
    BY <2>2, <2>3, FS_Subset, FS_CardinalityType
  <2>5. Recorded(Counted[f], since) = Cardinality(told) /\ Recorded(Counted[f], since) \in Nat
    BY <1>1, RecordedIs DEF told
  <2>6. QED
    BY <1>9, <2>3, <2>4, <2>5
<1>11. ASSUME ticks >= range + Minute PROVE Sum(g, listed) <= Recorded(Counted[f], since - Minute)
  <2>. DEFINE K == [m \in listed |-> all(m) \cap Later(since - Minute)]
              union == UNION {K[m] : m \in listed}
              told == Told(Counted[f]) \cap Later(since - Minute)
  <2>1. \A m \in listed : g[m] \in Nat /\ IsFiniteSet(K[m]) /\ g[m] <= Cardinality(K[m])
    BY <1>3, <1>5, <1>6, <1>11
  <2>2. \A m \in listed, p \in listed : \A k \in K[m] : k \in K[p] => m = p
    BY DEF Events
  <2>3. union \subseteq told
    <3>1. ASSUME NEW k \in union PROVE k \in told
      <4>1. PICK m \in listed : k \in K[m]
        BY <3>1
      <4>2. k \in Events(m, Counted[f]) /\ k \in Later(since - Minute)
        BY <4>1
      <4>3. QED
        BY <4>2 DEF Told, Events
    <3>2. QED
      BY <3>1
  <2>. HIDE DEF K
  <2>4. Sum(g, listed) <= Cardinality(union)
    <3>. HIDE DEF union
    <3>1. SUFFICES Sum(g, listed) <= Cardinality(UNION {K[m] : m \in listed})
      BY DEF union
    <3>2. IsFiniteSet(listed)
      BY <1>5
    <3>3. QED
      BY <2>1, <2>2, <3>2, SumAtMost, SMTT(60)
  <2>. HIDE DEF union, told
  <2>5. Recorded(Counted[f], since - Minute) = Cardinality(told) /\ Cardinality(told) \in Nat /\ IsFiniteSet(told)
    BY <1>1, RecordedIs DEF told
  <2>6. Cardinality(union) <= Cardinality(told) /\ Cardinality(union) \in Nat
    BY <2>3, <2>5, FS_Subset, FS_CardinalityType
  <2>7. QED
    BY <1>9, <2>4, <2>5, <2>6
<1>12. QED
  BY <1>2, <1>9, <1>10, <1>11

LEMMA ErrorsOfModels ==
  ASSUME TelemetryInv, NEW range \in Ranges, ticks >= range
  PROVE  GetAccountsMetricsInRange(range).errors + GetAccountsMetricsInRange(range).errors429
           <= GetAccountsMetricsInRange(range).requests
<1>. DEFINE F == [m \in CountedModels |-> sumBucketsForRange(m, range)]
            listed == {m \in CountedModels : F[m].requests # 0}
            g(f) == [m \in CountedModels |-> F[m][f]]
<1>1. range \in Nat /\ range > 0 /\ range # 0 /\ IsFiniteSet(CountedModels)
  BY Numbers
<1>2. \A f \in Fields : GetAccountsMetricsInRange(range)[f] = Sum(g(f), listed)
  <2>1. F = [m \in CountedModels |-> IF range > 0 THEN sumBucketsForRange(m, range) ELSE parseModelMetrics(m)]
    BY <1>1
  <2>2. listed = {m \in CountedModels : range = 0 \/ F[m].requests # 0}
    BY <1>1
  <2>. HIDE DEF F, listed
  <2>3. QED
    BY <2>1, <2>2 DEF GetAccountsMetricsInRange
<1>3. \A m \in CountedModels, f \in Fields : g(f)[m] = sumBucketsForRange(m, range)[f] /\ g(f)[m] \in Nat
  <2>1. \A m \in CountedModels, f \in Fields : sumBucketsForRange(m, range)[f] \in Nat
    BY SumOfBuckets
  <2>2. QED
    BY <2>1
<1>. DEFINE e == g("errors")
            l == g("errors429")
            r == g("requests")
<1>4. IsFiniteSet(listed) /\ listed \subseteq CountedModels
  BY <1>1, FS_Subset
<1>5. \A m \in listed : e[m] \in Nat /\ l[m] \in Nat /\ r[m] \in Nat /\ e[m] + l[m] <= r[m]
  <2>1. \A m \in CountedModels : /\ e[m] = sumBucketsForRange(m, range).errors /\ e[m] \in Nat
                          /\ l[m] = sumBucketsForRange(m, range).errors429 /\ l[m] \in Nat
                          /\ r[m] = sumBucketsForRange(m, range).requests /\ r[m] \in Nat
    BY <1>3, FieldNames
  <2>. HIDE DEF e, l, r, listed
  <2>2. QED
    BY <1>4, <2>1, ErrorsOfBuckets
<1>. HIDE DEF F, listed
<1>6. /\ GetAccountsMetricsInRange(range).errors = Sum(e, listed)
      /\ GetAccountsMetricsInRange(range).errors429 = Sum(l, listed)
      /\ GetAccountsMetricsInRange(range).requests = Sum(r, listed)
  BY <1>2, FieldNames
<1>. HIDE DEF e, l, r
<1>7. Sum(e, listed) + Sum(l, listed) <= Sum(r, listed)
  BY <1>4, <1>5, SumsBelow
<1>8. QED
  BY <1>6, <1>7

\* The totals hold all that has been recorded within the time they are kept for.
LEMMA SumOfTotals ==
  ASSUME TelemetryInv, NEW range \in Ranges, ticks >= range
  PROVE  GetAccountsMetricsInRange(0).requests >= Recorded(RequestOutcomes, ticks - range)
<1>. DEFINE g == [m \in CountedModels |-> total[m].requests]
            since == ticks - range
<1>1. /\ TelemetryTypeOK /\ TotalsCount /\ IsFiniteSet(CountedModels) /\ ticks \in Nat /\ Retention \in Nat
      /\ range \in 1..Retention
  BY Numbers DEF TelemetryInv, TelemetryTypeOK
<1>2. GetAccountsMetricsInRange(0)["requests"] = Sum(g, CountedModels)
  <2>. DEFINE F == [m \in CountedModels |-> IF 0 > 0 THEN sumBucketsForRange(m, 0) ELSE parseModelMetrics(m)]
              listed == {m \in CountedModels : 0 = 0 \/ F[m].requests # 0}
  <2>1. F = total /\ listed = CountedModels
    BY <1>1 DEF parseModelMetrics, TelemetryTypeOK
  <2>2. GetAccountsMetricsInRange(0) = [f \in Fields |-> Sum([m \in CountedModels |-> F[m][f]], listed)]
    BY DEF GetAccountsMetricsInRange
  <2>. HIDE DEF F, listed
  <2>3. QED
    BY <2>1, <2>2, FieldNames
<1>3. \A m \in CountedModels : g[m] \in Nat
  <2>1. total \in [CountedModels -> [Fields -> Nat]] /\ "requests" \in Fields
    BY <1>1, FieldNames DEF TelemetryTypeOK, Counters
  <2>2. QED
    BY <2>1
<1>. DEFINE K == [m \in CountedModels |-> Events(m, RequestOutcomes) \cap Unexpired]
            union == UNION {K[m] : m \in CountedModels}
            told == Told(RequestOutcomes) \cap Later(since)
<1>4. \A m \in CountedModels : g[m] \in Nat /\ IsFiniteSet(K[m]) /\ Cardinality(K[m]) <= g[m]
  <2>1. \A m \in CountedModels : Events(m, RequestOutcomes) \cap Unexpired \subseteq DOMAIN served
    BY DEF Unexpired
  <2>2. QED
    BY <1>1, <1>3, <2>1, ServedIsFinite DEF TotalsCount
<1>5. told \subseteq union
  <2>1. ASSUME NEW k \in told PROVE k \in union
    <3>. DEFINE m == served[k].model
    <3>1. k \in DOMAIN served /\ k \in Events(m, RequestOutcomes) /\ served[k].at > since
      BY DEF Told, Events, Later
    <3>2. m \in CountedModels /\ served[k].at \in Nat
      BY <1>1, <3>1, Record
    <3>3. k \in Unexpired
      BY <1>1, <3>1, <3>2 DEF Unexpired
    <3>4. k \in K[m]
      BY <3>1, <3>2, <3>3
    <3>5. QED
      BY <3>2, <3>4
  <2>2. QED
    BY <2>1
<1>. HIDE DEF K, g
<1>6. IsFiniteSet(union) /\ Cardinality(union) <= Sum(g, CountedModels) /\ Sum(g, CountedModels) \in Nat
  <2>1. IsFiniteSet(union) /\ Cardinality(union) <= Sum(g, CountedModels)
    BY <1>1, <1>4, SumAtLeast
  <2>2. Sum(g, CountedModels) \in Nat
    BY <1>1, <1>4, SumIsNat
  <2>3. QED
    BY <2>1, <2>2
<1>. HIDE DEF union, told
<1>7. Cardinality(told) <= Cardinality(union) /\ Cardinality(union) \in Nat
  BY <1>5, <1>6, FS_Subset, FS_CardinalityType
<1>8. Recorded(RequestOutcomes, since) = Cardinality(told) /\ Recorded(RequestOutcomes, since) \in Nat
  <2>1. Recorded(RequestOutcomes, since) = Cardinality(Told(RequestOutcomes) \cap Later(since))
          /\ Recorded(RequestOutcomes, since) \in Nat
    BY <1>1, RecordedIs
  <2>2. QED
    BY <2>1 DEF told
<1>9. QED
  BY <1>2, <1>6, <1>7, <1>8

\* Of the requests of a second the sorted set holds one.
LEMMA RateIs ==
  ASSUME TelemetryInv, ticks >= Minute
  PROVE  RollingRPM <= Recorded(RequestOutcomes, ticks - Minute)
<1>. DEFINE recent == {s \in times : s + Minute > ticks}
            told == Told(RequestOutcomes) \cap Later(ticks - Minute)
            at == [k \in told |-> served[k].at]
            ats == {at[k] : k \in told}
<1>1. /\ TelemetryTypeOK /\ TimesAreRequests /\ ticks \in Nat /\ Minute \in Nat /\ times \subseteq Nat
  BY Numbers DEF TelemetryInv, TelemetryTypeOK
<1>2. IsFiniteSet(told) /\ Recorded(RequestOutcomes, ticks - Minute) = Cardinality(told) /\ Cardinality(told) \in Nat
  BY <1>1, RecordedIs
<1>3. recent \subseteq ats
  <2>1. ASSUME NEW s \in recent PROVE s \in ats
    <3>1. PICK k \in DOMAIN served : served[k].at = s /\ served[k].outcome \in RequestOutcomes
      BY <1>1 DEF TimesAreRequests
    <3>2. s \in Nat /\ s + Minute > ticks
      BY <1>1
    <3>3. k \in told
      BY <1>1, <3>1, <3>2 DEF Told, Later
    <3>4. at[k] = s
      BY <3>1, <3>3
    <3>5. QED
      BY <3>3, <3>4
  <2>2. QED
    BY <2>1
<1>4. at \in Surjection(told, ats)
  BY DEF Surjection
<1>. HIDE DEF told, at, ats, recent
<1>5. IsFiniteSet(ats) /\ Cardinality(ats) <= Cardinality(told)
  BY <1>2, <1>4, FS_Surjection
<1>6. Cardinality(recent) <= Cardinality(ats) /\ Cardinality(recent) \in Nat /\ Cardinality(ats) \in Nat
  BY <1>3, <1>5, FS_Subset, FS_CardinalityType
<1>7. QED
  BY <1>2, <1>5, <1>6 DEF RollingRPM, recent

LEMMA FiguresFollow == ASSUME TelemetryInv PROVE FiguresFit
<1>1. ASSUME NEW range \in Ranges, ticks >= range
      PROVE  LET figures == GetAccountsMetricsInRange(range) IN
             /\ figures.requests >= Recorded(RequestOutcomes, ticks - range)
             /\ ticks >= range + Minute =>
                  /\ figures.requests <= Recorded(RequestOutcomes, ticks - range - Minute)
                  /\ figures.sessions <= Recorded(SessionOutcomes, ticks - range - Minute)
             /\ figures.errors + figures.errors429 <= figures.requests
             /\ figures.errors >= Recorded({"broken"}, ticks - range)
             /\ GetAccountsMetricsInRange(0).requests >= Recorded(RequestOutcomes, ticks - range)
  <2>1. /\ "requests" \in Fields /\ "errors" \in Fields /\ "sessions" \in Fields
        /\ Counted["requests"] = RequestOutcomes /\ Counted["errors"] = {"broken"} /\ {"broken"} \subseteq RequestOutcomes
        /\ Counted["sessions"] = SessionOutcomes
    BY FieldNames DEF Counted
  <2>2. /\ GetAccountsMetricsInRange(range)["requests"] >= Recorded(RequestOutcomes, ticks - range)
        /\ ticks >= range + Minute =>
             GetAccountsMetricsInRange(range)["requests"] <= Recorded(RequestOutcomes, ticks - range - Minute)
    BY <1>1, <2>1, SumOfModels
  <2>3. ticks >= range + Minute =>
          GetAccountsMetricsInRange(range)["sessions"] <= Recorded(SessionOutcomes, ticks - range - Minute)
    BY <1>1, <2>1, SumOfModels
  <2>4. GetAccountsMetricsInRange(range)["errors"] >= Recorded({"broken"}, ticks - range)
    BY <1>1, <2>1, SumOfModels
  <2>5. QED
    BY <1>1, <2>2, <2>3, <2>4, ErrorsOfModels, SumOfTotals
<1>2. ticks >= Minute => RollingRPM <= Recorded(RequestOutcomes, ticks - Minute)
  BY RateIs
<1>3. QED
  BY <1>1, <1>2 DEF FiguresFit

\* The figures that the page shows for a range are those of the requests since its
\* begin, plus at most those of the minute in which it begins, and the totals and the
\* rate fit them, for any models, minutes, ranges and retention (telemetry.go).
THEOREM FiguresAlwaysFit == TelemetrySpec => []FiguresFit
<1>1. TelemetryInit => TelemetryInv
  BY InitCounts
<1>2. TelemetryInv /\ [TelemetryNext]_telemetryVars => TelemetryInv'
  BY CountsStay
<1>3. TelemetryInv => FiguresFit
  BY FiguresFollow
<1>4. QED
  BY <1>1, <1>2, <1>3, PTL DEF TelemetrySpec
=============================================================================
