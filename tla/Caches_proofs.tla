---------------------------- MODULE Caches_proofs ----------------------------
(***************************************************************************)
(* Proofs about what the server remembers from one request to the next.    *)
(* Sessions: however the requests of a conversation overlap, each works in *)
(* the directory named last.  PromptCache: for any prompts and sizes,      *)
(* nothing is billed as read that nobody paid for.                         *)
(***************************************************************************)
EXTENDS Sessions, PromptCache, FiniteSetTheorems, WellFoundedInduction, TLAPS

-----------------------------------------------------------------------------
(* The first of what was found. *)

Less == {p \in Nat \X Nat : p[1] < p[2]}

\* A set of positions has a least one.
LEMMA MinIsIn == ASSUME NEW T, T \subseteq Nat, T # {} PROVE Min(T) \in T
<1>1. IsWellFoundedOn(Less, Nat)
  BY NatLessThanWellFounded DEF OpToRel, Less
<1>2. PICK x \in T : \A y \in T : <<y, x>> \notin Less
  BY <1>1, WFMin, Zenon
<1>3. ASSUME NEW y \in T PROVE x <= y
  <2>1. x \in Nat /\ y \in Nat
    OBVIOUS
  <2>2. ~(y < x)
    BY <1>2, <2>1 DEF Less
  <2>3. QED
    BY <2>1, <2>2
<1>4. QED
  BY <1>3 DEF Min

LEMMA FirstOfIn == ASSUME NEW S, NEW s \in Seq(S \cup {None}) PROVE FirstOf(s) \in S \cup {None}
<1>. DEFINE found == {j \in DOMAIN s : s[j] # None}
<1>1. CASE found = {}
  BY <1>1 DEF FirstOf
<1>2. CASE found # {}
  <2>1. found \subseteq Nat
    OBVIOUS
  <2>2. Min(found) \in found
    BY <1>2, <2>1, MinIsIn
  <2>3. QED
    BY <2>2 DEF FirstOf
<1>3. QED
  BY <1>1, <1>2

LEMMA DirsOf ==
  ASSUME NEW D, NEW M, \A m \in M : m.dir \in D, NEW s \in Seq(M)
  PROVE  [j \in DOMAIN s |-> s[j].dir] \in Seq(D)
<1>1. s \in [1 .. Len(s) -> M] /\ Len(s) \in Nat /\ DOMAIN s = 1 .. Len(s)
  OBVIOUS
<1>2. [j \in 1 .. Len(s) |-> s[j].dir] \in [1 .. Len(s) -> D]
  BY <1>1
<1>3. QED
  BY <1>1, <1>2

\* A request belongs to a conversation or to none, and names a directory or none.
LEMMA KeyIn == ASSUME NEW i \in SessionInputs PROVE conversationKeyForRequest(i) \in Keys \cup {None}
<1>1. <<i.conversation, i.metadataSession, i.headerSession, i.user>> \in Seq(Keys \cup {None})
  BY SessionsAssumption DEF SessionInput
<1>2. QED
  BY <1>1, FirstOfIn DEF conversationKeyForRequest

LEMMA NamedIn == ASSUME NEW i \in SessionInputs PROVE extractWorkdirFromRequest(i) \in Dirs \cup {None}
<1>1. /\ i.metadataDir \in Dirs \cup {None} /\ i.headerDir \in Dirs \cup {None}
      /\ i.system \in Seq(Dirs \cup {None})
      /\ i.messages \in Seq([role : {"user", "assistant"}, dir : Dirs \cup {None}, text : BOOLEAN])
  BY SessionsAssumption DEF SessionInput
<1>2. extractWorkdirFromSystem(i) \in Dirs \cup {None}
  BY <1>1, FirstOfIn DEF extractWorkdirFromSystem
<1>3. extractWorkdirFromMessages(i) \in Dirs \cup {None}
  <2>. DEFINE dirs == [j \in DOMAIN i.messages |-> i.messages[j].dir]
  <2>1. dirs \in Seq(Dirs \cup {None})
    <3>. DEFINE M == [role : {"user", "assistant"}, dir : Dirs \cup {None}, text : BOOLEAN]
    <3>1. \A m \in M : m.dir \in Dirs \cup {None}
      OBVIOUS
    <3>2. i.messages \in Seq(M)
      BY <1>1
    <3>. HIDE DEF M
    <3>3. QED
      BY <3>1, <3>2, DirsOf
  <2>2. Reverse(dirs) \in Seq(Dirs \cup {None})
    BY <2>1 DEF Reverse
  <2>3. QED
    BY <2>2, FirstOfIn DEF extractWorkdirFromMessages
<1>4. <<i.metadataDir, i.headerDir, extractWorkdirFromSystem(i), extractWorkdirFromMessages(i)>>
        \in Seq(Dirs \cup {None})
  BY <1>1, <1>2, <1>3
<1>5. QED
  BY <1>4, FirstOfIn DEF extractWorkdirFromRequest

-----------------------------------------------------------------------------
(* Sessions. *)

Session == [workdir : Dirs \cup {None}, conv : BOOLEAN]

SessionsTypeOK ==
  /\ sessions \in [Keys -> Session \cup {None}]
  /\ sessionAt \in [SessionRequests -> {"idle", "looked", "changed", "running", "named"}]
  /\ input \in [SessionRequests -> SessionInputs \cup {None}]
  /\ prev \in [SessionRequests -> Dirs \cup {None}] /\ dir \in [SessionRequests -> Dirs \cup {None}]
  /\ DOMAIN messages = SessionRequests
  /\ dirLatest \in [Keys -> Dirs \cup {None}] /\ gone \in [Keys -> BOOLEAN]
  /\ before \in [SessionRequests -> Dirs \cup {None}] /\ excused \in [SessionRequests -> BOOLEAN]

\* A session has the directory named last, or none; none only if it was lost.
Stored ==
  \A k \in Keys :
    /\ StoredWorkdir(k) \in {None, dirLatest[k]}
    /\ gone[k] \/ StoredWorkdir(k) = dirLatest[k]

\* What a request has found out when it looked, and what it made of it since.
Followed(r) ==
  sessionAt[r] # "idle" =>
    /\ input[r] \in SessionInputs
    /\ prev[r] \in {None, before[r]}
    /\ excused[r] \/ prev[r] = before[r]
    /\ dir[r] = IF extractWorkdirFromRequest(input[r]) = None /\ hasExplicitSession(input[r])
                THEN prev[r] ELSE extractWorkdirFromRequest(input[r])
    /\ messages[r] = IF changed(r) /\ sessionAt[r] # "looked"
                     THEN resetMessagesForNewWorkdir(input[r].messages) ELSE input[r].messages

SessionsInv == SessionsTypeOK /\ Stored /\ \A r \in SessionRequests : Followed(r)

\* A write to the store.
LEMMA StoreStep ==
  ASSUME SessionsInv, NEW key \in Keys, NEW w \in Dirs \cup {None}, NEW conv \in BOOLEAN, NEW lost \in BOOLEAN,
         Store(key, [workdir |-> w, conv |-> conv], lost),
         dirLatest' \in [Keys -> Dirs \cup {None}], \A k \in Keys \ {key} : dirLatest'[k] = dirLatest[k],
         w \in {None, dirLatest'[key]}, lost \/ w = dirLatest'[key]
  PROVE  sessions' \in [Keys -> Session \cup {None}] /\ gone' \in [Keys -> BOOLEAN] /\ Stored'
<1>1. PICK evicted : evicted = getOrCreate(key)
  OBVIOUS
<1>2. /\ sessions' = [k \in Keys |-> IF k = key THEN [workdir |-> w, conv |-> conv]
                                     ELSE IF k \in evicted THEN None ELSE sessions[k]]
      /\ gone' = [k \in Keys |-> IF k = key THEN lost ELSE gone[k] \/ k \in evicted]
  BY <1>1 DEF Store
<1>3. sessions' \in [Keys -> Session \cup {None}] /\ gone' \in [Keys -> BOOLEAN]
  BY <1>2 DEF SessionsInv, SessionsTypeOK, Session
<1>4. ASSUME NEW k \in Keys
      PROVE  /\ StoredWorkdir(k)' \in {None, dirLatest'[k]}
             /\ gone'[k] \/ StoredWorkdir(k)' = dirLatest'[k]
  <2>1. CASE k = key
    <3>1. StoredWorkdir(k)' = w
      BY <1>2, <2>1, SessionsAssumption DEF StoredWorkdir, Session
    <3>2. gone'[k] = lost
      BY <1>2, <2>1
    <3>3. QED
      BY <2>1, <3>1, <3>2
  <2>2. CASE k # key /\ k \in evicted
    BY <1>2, <2>2 DEF StoredWorkdir
  <2>3. CASE k # key /\ k \notin evicted
    <3>1. StoredWorkdir(k)' = StoredWorkdir(k) /\ gone'[k] = gone[k] /\ dirLatest'[k] = dirLatest[k]
      BY <1>2, <2>3 DEF StoredWorkdir, SessionsInv, SessionsTypeOK
    <3>2. QED
      BY <3>1 DEF SessionsInv, Stored
  <2>4. QED
    BY <2>1, <2>2, <2>3
<1>5. QED
  BY <1>3, <1>4 DEF Stored

LEMMA DropStep ==
  ASSUME SessionsInv, NEW key, Drop(key), UNCHANGED dirLatest
  PROVE  sessions' \in [Keys -> Session \cup {None}] /\ gone' \in [Keys -> BOOLEAN] /\ Stored'
<1>1. sessions' = [sessions EXCEPT ![key] = None] /\ gone' = [gone EXCEPT ![key] = TRUE]
  BY DEF Drop
<1>2. sessions' \in [Keys -> Session \cup {None}] /\ gone' \in [Keys -> BOOLEAN]
  BY <1>1 DEF SessionsInv, SessionsTypeOK
<1>3. ASSUME NEW k \in Keys
      PROVE  StoredWorkdir(k)' \in {None, dirLatest[k]} /\ (gone'[k] \/ StoredWorkdir(k)' = dirLatest[k])
  <2>1. CASE k = key
    BY <1>1, <2>1 DEF StoredWorkdir, SessionsInv, SessionsTypeOK
  <2>2. CASE k # key
    <3>1. StoredWorkdir(k)' = StoredWorkdir(k) /\ gone'[k] = gone[k]
      BY <1>1, <2>2 DEF StoredWorkdir, SessionsInv, SessionsTypeOK
    <3>2. QED
      BY <3>1 DEF SessionsInv, Stored
  <2>3. QED
    BY <2>1, <2>2
<1>4. QED
  BY <1>2, <1>3 DEF Stored

\* A step of r that leaves what it has found out.
LEMMA SameFollowed ==
  ASSUME SessionsInv, NEW q \in SessionRequests, UNCHANGED <<input, prev, dir, before, excused>>,
         sessionAt'[q] = sessionAt[q] \/ (sessionAt[q] # "looked" /\ sessionAt'[q] # "looked" /\ sessionAt[q] # "idle"),
         messages'[q] = messages[q]
  PROVE  Followed(q)'
BY DEF SessionsInv, Followed, changed

LEMMA SameStored == ASSUME SessionsInv, UNCHANGED <<sessions, gone, dirLatest>> PROVE Stored'
  BY DEF SessionsInv, Stored, StoredWorkdir

LEMMA GetWorkdirInv ==
  ASSUME SessionsInv, NEW r \in SessionRequests, NEW i \in SessionInputs, NEW failed \in BOOLEAN,
         GetWorkdir(r, i, failed)
  PROVE  SessionsInv'
<1>. DEFINE key == conversationKeyForRequest(i)
            named == extractWorkdirFromRequest(i)
            stored == IF failed THEN None ELSE StoredWorkdir(key)
            found == IF named = None /\ hasExplicitSession(i) THEN stored ELSE named
            latest == IF key = None THEN None ELSE dirLatest[key]
            lost == key = None \/ failed \/ gone[key]
<1>1. /\ sessionAt' = [sessionAt EXCEPT ![r] = "looked"] /\ input' = [input EXCEPT ![r] = i]
      /\ prev' = [prev EXCEPT ![r] = stored] /\ dir' = [dir EXCEPT ![r] = found]
      /\ messages' = [messages EXCEPT ![r] = i.messages]
      /\ before' = [before EXCEPT ![r] = latest] /\ excused' = [excused EXCEPT ![r] = lost]
      /\ UNCHANGED <<sessions, dirLatest, gone>>
  BY DEF GetWorkdir
<1>2. /\ key \in Keys \cup {None} /\ named \in Dirs \cup {None}
      /\ stored \in Dirs \cup {None} /\ latest \in Dirs \cup {None} /\ lost \in BOOLEAN
  BY KeyIn, NamedIn DEF SessionsInv, SessionsTypeOK, StoredWorkdir, Session
<1>3. stored \in {None, latest} /\ (lost \/ stored = latest)
  BY <1>2 DEF SessionsInv, Stored, StoredWorkdir
<1>4. found \in Dirs \cup {None}
  BY <1>2
<1>. HIDE DEF key, named, stored, found, latest, lost
<1>5. SessionsTypeOK'
  BY <1>1, <1>2, <1>4 DEF SessionsInv, SessionsTypeOK
<1>6. Stored'
  BY <1>1 DEF SessionsInv, Stored, StoredWorkdir
<1>7. ASSUME NEW q \in SessionRequests PROVE Followed(q)'
  <2>1. CASE q = r
    <3>1. /\ sessionAt'[r] = "looked" /\ input'[r] = i /\ prev'[r] = stored /\ dir'[r] = found
          /\ messages'[r] = i.messages /\ before'[r] = latest /\ excused'[r] = lost
      BY <1>1 DEF SessionsInv, SessionsTypeOK
    <3>2. QED
      BY <1>3, <2>1, <3>1 DEF Followed, found, named
  <2>2. CASE q # r
    <3>1. /\ sessionAt'[q] = sessionAt[q] /\ input'[q] = input[q] /\ prev'[q] = prev[q] /\ dir'[q] = dir[q]
          /\ messages'[q] = messages[q] /\ before'[q] = before[q] /\ excused'[q] = excused[q]
      BY <1>1, <2>2 DEF SessionsInv, SessionsTypeOK
    <3>2. Followed(q)
      BY DEF SessionsInv
    <3>3. QED
      BY <3>1, <3>2 DEF Followed, changed
  <2>3. QED
    BY <2>1, <2>2
<1>8. QED
  BY <1>5, <1>6, <1>7 DEF SessionsInv

LEMMA SetWorkdirInv ==
  ASSUME SessionsInv, NEW r \in SessionRequests, NEW lost \in BOOLEAN, SetWorkdir(r, lost)
  PROVE  SessionsInv'
<1>1. /\ sessionAt[r] = "looked" /\ StoreWorkdir(r, SessionKey(r), lost)
      /\ sessionAt' = [sessionAt EXCEPT ![r] = IF changed(r) THEN "changed" ELSE "running"]
      /\ messages' = [messages EXCEPT ![r] = IF changed(r) THEN resetMessagesForNewWorkdir(@) ELSE @]
      /\ UNCHANGED <<input, prev, dir, before, excused>>
  BY DEF SetWorkdir
<1>2. input[r] \in SessionInputs /\ SessionKey(r) \in Keys \cup {None}
  BY <1>1, KeyIn DEF SessionsInv, Followed, SessionKey
<1>3. /\ sessions' \in [Keys -> Session \cup {None}] /\ gone' \in [Keys -> BOOLEAN] /\ Stored'
      /\ dirLatest' \in [Keys -> Dirs \cup {None}]
  <2>1. CASE SessionKey(r) # None /\ dir[r] # None /\ ~lost
    <3>. DEFINE key == SessionKey(r)
                conv == sessions[key] # None /\ sessions[key].conv
    <3>1. key \in Keys /\ dir[r] \in Dirs \cup {None} /\ conv \in BOOLEAN
      BY <1>2, <2>1 DEF SessionsInv, SessionsTypeOK, Session
    <3>2. /\ Store(key, [workdir |-> dir[r], conv |-> conv], FALSE)
          /\ dirLatest' = [dirLatest EXCEPT ![key] = dir[r]]
      BY <1>1, <2>1 DEF StoreWorkdir, WithWorkdir
    <3>3. dirLatest' \in [Keys -> Dirs \cup {None}] /\ dirLatest'[key] = dir[r]
          /\ \A k \in Keys \ {key} : dirLatest'[k] = dirLatest[k]
      BY <3>1, <3>2 DEF SessionsInv, SessionsTypeOK
    <3>. HIDE DEF key, conv
    <3>4. QED
      BY <3>1, <3>2, <3>3, StoreStep
  <2>2. CASE ~(SessionKey(r) # None /\ dir[r] # None /\ ~lost)
    BY <1>1, <2>2 DEF StoreWorkdir, SessionsInv, SessionsTypeOK, Stored, StoredWorkdir
  <2>3. QED
    BY <2>1, <2>2
<1>4. SessionsTypeOK'
  BY <1>1, <1>3 DEF SessionsInv, SessionsTypeOK
<1>5. ASSUME NEW q \in SessionRequests PROVE Followed(q)'
  <2>1. CASE q = r
    <3>1. /\ sessionAt'[r] \in {"changed", "running"}
          /\ messages'[r] = IF changed(r) THEN resetMessagesForNewWorkdir(messages[r]) ELSE messages[r]
      BY <1>1 DEF SessionsInv, SessionsTypeOK
    <3>2. Followed(r) /\ messages[r] = input[r].messages
      BY <1>1 DEF SessionsInv, Followed
    <3>3. changed(r)' = changed(r)
      BY <1>1 DEF changed
    <3>4. QED
      BY <1>1, <2>1, <3>1, <3>2, <3>3 DEF Followed
  <2>2. CASE q # r
    BY <1>1, <2>2, SameFollowed DEF SessionsInv, SessionsTypeOK
  <2>3. QED
    BY <2>1, <2>2
<1>6. QED
  BY <1>3, <1>4, <1>5 DEF SessionsInv

LEMMA DeleteSessionInv ==
  ASSUME SessionsInv, NEW r \in SessionRequests, NEW lost \in BOOLEAN, DeleteSession(r, lost)
  PROVE  SessionsInv'
<1>1. /\ sessionAt[r] = "changed" /\ sessionAt' = [sessionAt EXCEPT ![r] = "running"]
      /\ IF lost THEN UNCHANGED <<sessions, gone>> ELSE Drop(SessionKey(r))
      /\ UNCHANGED <<input, prev, dir, messages, dirLatest, before, excused>>
  BY DEF DeleteSession
<1>2. sessions' \in [Keys -> Session \cup {None}] /\ gone' \in [Keys -> BOOLEAN] /\ Stored'
  <2>1. CASE lost
    BY <1>1, <2>1, SameStored DEF SessionsInv, SessionsTypeOK
  <2>2. CASE ~lost
    BY <1>1, <2>2, DropStep
  <2>3. QED
    BY <2>1, <2>2
<1>3. SessionsTypeOK'
  BY <1>1, <1>2 DEF SessionsInv, SessionsTypeOK
<1>4. \A q \in SessionRequests : Followed(q)'
  BY <1>1, SameFollowed DEF SessionsInv, SessionsTypeOK
<1>5. QED
  BY <1>2, <1>3, <1>4 DEF SessionsInv

LEMMA SetConvIDInv ==
  ASSUME SessionsInv, NEW r \in SessionRequests, NEW lost \in BOOLEAN, SetConvID(r, lost)
  PROVE  SessionsInv'
<1>. DEFINE key == SessionKey(r)
<1>1. /\ sessionAt[r] = "running" /\ key # None /\ sessionAt' = [sessionAt EXCEPT ![r] = "named"]
      /\ IF lost THEN UNCHANGED <<sessions, gone>>
         ELSE Store(key, [workdir |-> StoredWorkdir(key), conv |-> TRUE], gone[key])
      /\ UNCHANGED <<input, prev, dir, messages, dirLatest, before, excused>>
  BY DEF SetConvID
<1>2. key \in Keys
  BY <1>1, KeyIn DEF SessionsInv, Followed, SessionKey
<1>3. /\ StoredWorkdir(key) \in Dirs \cup {None} /\ gone[key] \in BOOLEAN
      /\ StoredWorkdir(key) \in {None, dirLatest[key]} /\ (gone[key] \/ StoredWorkdir(key) = dirLatest[key])
  BY <1>2 DEF SessionsInv, SessionsTypeOK, Stored, StoredWorkdir, Session
<1>4. dirLatest' \in [Keys -> Dirs \cup {None}]
  BY <1>1 DEF SessionsInv, SessionsTypeOK
<1>. HIDE DEF key
<1>5. sessions' \in [Keys -> Session \cup {None}] /\ gone' \in [Keys -> BOOLEAN] /\ Stored'
  <2>1. CASE lost
    BY <1>1, <2>1, SameStored DEF SessionsInv, SessionsTypeOK
  <2>2. CASE ~lost
    <3>1. Store(key, [workdir |-> StoredWorkdir(key), conv |-> TRUE], gone[key])
      BY <1>1, <2>2
    <3>2. QED
      BY <1>1, <1>2, <1>3, <1>4, <3>1, StoreStep
  <2>3. QED
    BY <2>1, <2>2
<1>6. SessionsTypeOK'
  BY <1>1, <1>5 DEF SessionsInv, SessionsTypeOK
<1>7. \A q \in SessionRequests : Followed(q)'
  BY <1>1, SameFollowed DEF SessionsInv, SessionsTypeOK
<1>8. QED
  BY <1>5, <1>6, <1>7 DEF SessionsInv

LEMMA SessionReturnInv == ASSUME SessionsInv, NEW r \in SessionRequests, SessionReturn(r) PROVE SessionsInv'
<1>1. /\ sessionAt' = [sessionAt EXCEPT ![r] = "idle"]
      /\ UNCHANGED <<sessions, input, prev, dir, messages, dirLatest, gone, before, excused>>
  BY DEF SessionReturn
<1>2. SessionsTypeOK'
  BY <1>1 DEF SessionsInv, SessionsTypeOK
<1>3. Stored'
  BY <1>1 DEF SessionsInv, Stored, StoredWorkdir
<1>4. ASSUME NEW q \in SessionRequests PROVE Followed(q)'
  <2>1. CASE q = r
    BY <1>1, <2>1 DEF SessionsInv, SessionsTypeOK, Followed
  <2>2. CASE q # r
    BY <1>1, <2>2, SameFollowed DEF SessionsInv, SessionsTypeOK
  <2>3. QED
    BY <2>1, <2>2
<1>5. QED
  BY <1>2, <1>3, <1>4 DEF SessionsInv

LEMMA ExpireInv == ASSUME SessionsInv, NEW key \in Keys, Expire(key) PROVE SessionsInv'
<1>1. Drop(key) /\ UNCHANGED <<sessionAt, input, prev, dir, messages, dirLatest, before, excused>>
  BY DEF Expire
<1>2. sessions' \in [Keys -> Session \cup {None}] /\ gone' \in [Keys -> BOOLEAN] /\ Stored'
  BY <1>1, DropStep
<1>3. SessionsTypeOK'
  BY <1>1, <1>2 DEF SessionsInv, SessionsTypeOK
<1>4. \A q \in SessionRequests : Followed(q)'
  BY <1>1, SameFollowed
<1>5. QED
  BY <1>2, <1>3, <1>4 DEF SessionsInv

LEMMA SessionsStart == SessionsInit => SessionsInv
<1>. SUFFICES ASSUME SessionsInit PROVE SessionsInv
  OBVIOUS
<1>1. SessionsTypeOK
  BY DEF SessionsInit, SessionsTypeOK
<1>2. Stored
  BY DEF SessionsInit, Stored, StoredWorkdir
<1>3. \A r \in SessionRequests : Followed(r)
  BY DEF SessionsInit, Followed
<1>4. QED
  BY <1>1, <1>2, <1>3 DEF SessionsInv

LEMMA SessionsStep == SessionsInv /\ [SessionsNext]_sessionVars => SessionsInv'
<1>1. ASSUME SessionsInv, UNCHANGED sessionVars PROVE SessionsInv'
  <2>1. UNCHANGED <<sessions, sessionAt, input, prev, dir, messages, dirLatest, gone, before, excused>>
    BY <1>1 DEF sessionVars
  <2>2. SessionsTypeOK' /\ Stored'
    BY <1>1, <2>1 DEF SessionsInv, SessionsTypeOK, Stored, StoredWorkdir
  <2>3. \A q \in SessionRequests : Followed(q)'
    BY <1>1, <2>1, SameFollowed
  <2>4. QED
    BY <2>2, <2>3 DEF SessionsInv
<1>2. Lost \subseteq BOOLEAN
  BY DEF Lost
<1>3. QED
  BY <1>1, <1>2, GetWorkdirInv, SetWorkdirInv, DeleteSessionInv, SetConvIDInv, SessionReturnInv, ExpireInv
  DEF SessionsNext

\* However requests overlap, and whatever expires or is evicted: the directory of a request
\* is the one it names or the last one of its session, and history is cut for a change of it
\* and for nothing else (resolveWorkdir, SetWorkdir, Delete).
THEOREM WorkdirCorrect == SessionsSpec => []WorkdirFollowsSession
<1>1. SessionsInv => WorkdirFollowsSession
  <2>1. ASSUME NEW r \in SessionRequests, Followed(r), sessionAt[r] \in {"running", "named"}
        PROVE  LET named == extractWorkdirFromRequest(input[r])
                   cut   == messages[r] # input[r].messages
               IN  /\ named = None /\ dir[r] # None => dir[r] = before[r] /\ hasExplicitSession(input[r])
                   /\ named # None => dir[r] = named
                   /\ cut => before[r] # None /\ dir[r] # before[r]
                   /\ ~excused[r] /\ before[r] # None /\ dir[r] # before[r] /\ dir[r] # None
                        => messages[r] = resetMessagesForNewWorkdir(input[r].messages)
    BY <2>1 DEF Followed, changed
  <2>2. QED
    BY <2>1 DEF SessionsInv, WorkdirFollowsSession
<1>2. QED
  BY <1>1, SessionsStart, SessionsStep, PTL DEF SessionsSpec

-----------------------------------------------------------------------------
(* The prompt cache. *)

USE PromptCacheAssumption DEF cacheVars, request

Entry == [expires : Nat, accessed : Nat]

\* Every entry was paid for: it expires a time to live after some request was
\* billed for writing it.
PaidFor(key) ==
  \E c \in charged : c.key = key /\ c.time \in Nat /\ items[key].expires <= c.time + TTL

CacheTypeOK ==
  /\ items \in [DOMAIN items -> Entry] /\ IsFiniteSet(DOMAIN items)
  /\ clock \in Nat /\ came \in [Requests -> Nat]

CacheInv ==
  /\ CacheTypeOK
  /\ size = Cardinality(DOMAIN items) /\ size <= MaxEntries
  /\ \A key \in DOMAIN items : PaidFor(key)
  /\ unpaid = {}

LEMMA InitInv == CacheInit => CacheInv
<1>1. SUFFICES ASSUME CacheInit PROVE CacheInv
  OBVIOUS
<1>2. items = <<>> /\ DOMAIN items = {}
  BY <1>1 DEF CacheInit
<1>3. IsFiniteSet(DOMAIN items) /\ Cardinality(DOMAIN items) = 0
  BY <1>2, FS_EmptySet
<1>4. QED
  BY <1>1, <1>2, <1>3 DEF CacheInit, CacheInv, CacheTypeOK

\* A hit is on an entry that was paid for in time.
LEMMA HitInv == ASSUME CacheInv, NEW r \in Requests, Hit(r) PROVE CacheInv'
<1>1. UNCHANGED <<items, size, clock, came, charged>>
  BY DEF Hit
<1>2. Paid(Head(parts[r]).key, came[r])
  <2>. DEFINE key == Head(parts[r]).key
  <2>1. key \in DOMAIN items /\ came[r] <= items[key].expires
    BY DEF Hit, Fresh
  <2>2. PICK c \in charged : c.key = key /\ c.time \in Nat /\ items[key].expires <= c.time + TTL
    BY <2>1 DEF CacheInv, PaidFor
  <2>3. came[r] \in Nat /\ items[key].expires \in Nat
    BY <2>1 DEF CacheInv, CacheTypeOK, Entry
  <2>4. came[r] <= c.time + TTL
    BY <2>1, <2>2, <2>3
  <2>5. QED
    BY <2>2, <2>4 DEF Paid
<1>3. unpaid' = unpaid
  BY <1>2 DEF Hit
<1>4. QED
  BY <1>1, <1>3 DEF CacheInv, CacheTypeOK, PaidFor

\* A renewal changes no entry's end, and adds none.
LEMMA RenewInv == ASSUME CacheInv, NEW r \in Requests, Renew(r) PROVE CacheInv'
<1>1. /\ DOMAIN items' = DOMAIN items
      /\ \A k \in DOMAIN items : items'[k] \in Entry /\ items'[k].expires = items[k].expires
  BY DEF CacheInv, CacheTypeOK, Entry, Renew, Touch
<1>2. items' \in [DOMAIN items' -> Entry]
  BY <1>1 DEF Renew, Touch
<1>3. UNCHANGED <<size, clock, came, charged, unpaid>>
  BY DEF Renew
<1>4. QED
  BY <1>1, <1>2, <1>3 DEF CacheInv, CacheTypeOK, PaidFor

\* A new entry is paid for by the request that stores it; what is evicted for it
\* makes room for exactly one.
LEMMA PutInv == ASSUME CacheInv, NEW r \in Requests, Put(r) PROVE CacheInv'
<1>. DEFINE key == Head(parts[r]).key
            D   == DOMAIN items
<1>1. PICK evicted \in evictLRU(key) :
        /\ items' = [k \in (D \cup {key}) \ evicted |->
                       IF k = key THEN [expires |-> came[r] + TTL, accessed |-> came[r]] ELSE items[k]]
        /\ size' = size + 1 - Cardinality(D \cap {key}) - Cardinality(evicted)
        /\ charged' = charged \cup {[key |-> key, time |-> came[r]]}
  BY DEF Put
<1>2. UNCHANGED <<clock, came, unpaid>>
  BY DEF Put
<1>3. came[r] \in Nat /\ IsFiniteSet(D) /\ Cardinality(D) \in Nat
  BY FS_CardinalityType DEF CacheInv, CacheTypeOK
<1>4. DOMAIN items' = (D \cup {key}) \ evicted
  BY <1>1
<1>5. items' \in [DOMAIN items' -> Entry]
  BY <1>1, <1>3, <1>4 DEF CacheInv, CacheTypeOK, Entry
<1>6. \A k \in DOMAIN items' : PaidFor(k)'
  <2>1. SUFFICES ASSUME NEW k \in DOMAIN items'
                 PROVE  \E c \in charged' : c.key = k /\ c.time \in Nat /\ items'[k].expires <= c.time + TTL
    BY DEF PaidFor
  <2>2. CASE k = key
    <3>1. items'[k].expires = came[r] + TTL
      BY <1>1, <1>4, <2>2
    <3>2. [key |-> key, time |-> came[r]] \in charged'
      BY <1>1
    <3>3. QED
      BY <1>3, <2>2, <3>1, <3>2
  <2>3. CASE k # key
    <3>1. k \in D /\ items'[k] = items[k]
      BY <1>1, <1>4, <2>1, <2>3
    <3>2. QED
      BY <1>1, <3>1 DEF CacheInv, PaidFor
  <2>4. QED
    BY <2>2, <2>3
<1>7. /\ IsFiniteSet(DOMAIN items') /\ size' = Cardinality(DOMAIN items')
      /\ size' <= MaxEntries
  <2>1. size = Cardinality(D) /\ size <= MaxEntries
    BY DEF CacheInv
  <2>2. CASE key \in D
    <3>1. evicted = {} /\ DOMAIN items' = D /\ D \cap {key} = {key}
      BY <1>1, <1>4, <2>2 DEF evictLRU
    <3>2. Cardinality(evicted) = 0 /\ Cardinality(D \cap {key}) = 1
      BY <3>1, FS_EmptySet, FS_Singleton
    <3>3. QED
      BY <1>1, <1>3, <2>1, <3>1, <3>2
  <2>3. CASE key \notin D
    <3>1. /\ Cardinality(D \cap {key}) = 0 /\ IsFiniteSet(D \cup {key})
          /\ Cardinality(D \cup {key}) = Cardinality(D) + 1
      <4>1. D \cap {key} = {}
        BY <2>3
      <4>2. QED
        BY <1>3, <2>3, <4>1, FS_EmptySet, FS_AddElement
    <3>2. CASE Cardinality(D) >= MaxEntries
      <4>1. PICK k \in D : evicted = {k}
        BY <1>1, <2>3, <3>2 DEF evictLRU
      <4>2. DOMAIN items' = (D \cup {key}) \ {k}
        BY <1>4, <4>1
      <4>3. /\ Cardinality(evicted) = 1 /\ IsFiniteSet(DOMAIN items')
            /\ Cardinality(DOMAIN items') = Cardinality(D \cup {key}) - 1
        <5>1. Cardinality(evicted) = 1
          BY <4>1, FS_Singleton
        <5>2. k \in D \cup {key}
          BY <4>1
        <5>3. /\ IsFiniteSet((D \cup {key}) \ {k})
              /\ Cardinality((D \cup {key}) \ {k}) = Cardinality(D \cup {key}) - 1
          BY <3>1, <5>2, FS_RemoveElement
        <5>4. QED
          BY <4>2, <5>1, <5>3
      <4>4. QED
        BY <1>1, <1>3, <2>1, <3>1, <4>3
    <3>3. CASE Cardinality(D) < MaxEntries
      <4>1. evicted = {}
        BY <1>1, <1>3, <3>3 DEF evictLRU
      <4>2. DOMAIN items' = D \cup {key} /\ Cardinality(evicted) = 0
        BY <1>4, <4>1, FS_EmptySet
      <4>3. QED
        BY <1>1, <1>3, <2>1, <3>1, <3>3, <4>2
    <3>4. QED
      BY <1>3, <3>2, <3>3
  <2>4. QED
    BY <2>2, <2>3
<1>8. QED
  BY <1>2, <1>5, <1>6, <1>7 DEF CacheInv, CacheTypeOK

\* Pruning takes from the size what it takes from the entries.
LEMMA PruneInv == ASSUME CacheInv, pruneExpired PROVE CacheInv'
<1>. DEFINE D    == DOMAIN items
            kept == {k \in D : clock <= items[k].expires}
<1>1. items' = [k \in kept |-> items[k]] /\ size' = size - Cardinality(D \ kept)
  BY DEF pruneExpired
<1>2. UNCHANGED <<clock, came, charged, unpaid>>
  BY DEF pruneExpired
<1>3. DOMAIN items' = kept /\ items' \in [kept -> Entry]
  BY <1>1 DEF CacheInv, CacheTypeOK
<1>4. /\ IsFiniteSet(kept) /\ Cardinality(kept) \in Nat /\ Cardinality(D) \in Nat
      /\ Cardinality(D \ kept) = Cardinality(D) - Cardinality(kept)
      /\ Cardinality(kept) <= Cardinality(D)
  <2>1. IsFiniteSet(D) /\ kept \subseteq D /\ D \cap kept = kept
    BY DEF CacheInv, CacheTypeOK
  <2>2. IsFiniteSet(kept) /\ Cardinality(kept) <= Cardinality(D)
    BY <2>1, FS_Subset
  <2>3. Cardinality(D \ kept) = Cardinality(D) - Cardinality(D \cap kept)
    BY <2>1, FS_Difference
  <2>4. QED
    BY <2>1, <2>2, <2>3, FS_CardinalityType
<1>5. size' = Cardinality(DOMAIN items') /\ size' <= MaxEntries
  BY <1>1, <1>3, <1>4 DEF CacheInv
<1>6. \A k \in DOMAIN items' : PaidFor(k)'
  BY <1>1, <1>2, <1>3 DEF CacheInv, PaidFor
<1>7. QED
  BY <1>2, <1>3, <1>4, <1>5, <1>6 DEF CacheInv, CacheTypeOK

LEMMA ClearInv == ASSUME CacheInv, Clear PROVE CacheInv'
<1>1. items' = <<>> /\ DOMAIN items' = {}
  BY DEF Clear
<1>2. IsFiniteSet(DOMAIN items') /\ Cardinality(DOMAIN items') = 0
  BY <1>1, FS_EmptySet
<1>3. QED
  BY <1>1, <1>2 DEF Clear, CacheInv, CacheTypeOK

LEMMA StepInv == CacheInv /\ [CacheNext]_cacheVars => CacheInv'
<1>. SUFFICES ASSUME CacheInv, [CacheNext]_cacheVars PROVE CacheInv'
  OBVIOUS
<1>1. ASSUME NEW r \in Requests, NEW i \in Inputs, CheckPromptCache(r, i) PROVE CacheInv'
  BY <1>1 DEF CheckPromptCache, CacheInv, CacheTypeOK, PaidFor
<1>2. ASSUME NEW r \in Requests, Hit(r) PROVE CacheInv'
  BY <1>2, HitInv
<1>3. ASSUME NEW r \in Requests, Renew(r) PROVE CacheInv'
  BY <1>3, RenewInv
<1>4. ASSUME NEW r \in Requests, Miss(r) PROVE CacheInv'
  BY <1>4 DEF Miss, CacheInv, CacheTypeOK, PaidFor
<1>5. ASSUME NEW r \in Requests, Put(r) PROVE CacheInv'
  BY <1>5, PutInv
<1>6. ASSUME NEW r \in Requests, Return(r) PROVE CacheInv'
  BY <1>6 DEF Return, CacheInv, CacheTypeOK, PaidFor
<1>7. ASSUME pruneExpired PROVE CacheInv'
  BY <1>7, PruneInv
<1>8. ASSUME Clear PROVE CacheInv'
  BY <1>8, ClearInv
<1>9. ASSUME CacheTick PROVE CacheInv'
  BY <1>9 DEF CacheTick, CacheInv, CacheTypeOK, PaidFor
<1>10. ASSUME NEW s \in Strategies, persistConfig(s) PROVE CacheInv'
  BY <1>10 DEF persistConfig, CacheInv, CacheTypeOK, PaidFor
<1>11. CASE UNCHANGED cacheVars
  BY <1>11 DEF CacheInv, CacheTypeOK, PaidFor
<1>12. QED
  BY <1>1, <1>2, <1>3, <1>4, <1>5, <1>6, <1>7, <1>8, <1>9, <1>10, <1>11 DEF CacheNext

\* Whatever requests look up, store and renew at a time, with any sizes, times to
\* live and configurations: tokens are billed as read only if somebody was billed
\* for writing them, and the cache keeps its bound (CheckPromptCache, evictLRU).
THEOREM ChargedCorrect == CacheSpec => []ReadWasCharged
<1>1. CacheInv => ReadWasCharged
  BY DEF CacheInv, ReadWasCharged
<1>2. QED
  BY InitInv, StepInv, <1>1, PTL DEF CacheSpec
=============================================================================
