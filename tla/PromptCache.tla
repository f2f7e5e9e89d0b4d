----------------------------- MODULE PromptCache -----------------------------
(***************************************************************************)
(* The prompt cache that decides how many tokens of a prompt are billed as *)
(* read from the cache and how many as written to it                       *)
(* (internal/tokencache/prompt_cache.go).  Requests look a part up under   *)
(* the read lock and store it under the write lock, with the time they     *)
(* came in; the admin API clears the cache, a loop and the statistics      *)
(* prune it.                                                               *)
(***************************************************************************)
EXTENDS Naturals, FiniteSets, Sequences

CONSTANTS
  Requests,
  Texts, NoText,   \* of systems and tools
  Inputs,          \* the texts of prompts and their tokens, see Input
  Strategies,      \* what the configuration may ask for
  TTL, MaxEntries, \* time to live, entries kept: fixed when the server starts
  Sample,          \* one hit in Sample renews the time of access
  MaxCacheTime, MaxChecks

Input ==
  [system : Texts \cup {NoText}, tools : Texts \cup {NoText}, systemTokens : Nat, toolsTokens : Nat]

ASSUME PromptCacheAssumption ==
  /\ Inputs \subseteq Input
  /\ Strategies \subseteq {"0", "1", "2", "3"}
  /\ {TTL, MaxEntries, Sample} \subseteq Nat \ {0} /\ {MaxCacheTime, MaxChecks} \subseteq Nat

VARIABLES
  strategy,
  items,        \* key -> when it expires and when it was accessed
  size,         \* entries counted, each for the same bytes
  accessCount,  \* modulo Sample
  clock,
  at, parts, came, read, creation,  \* per request: parts still to check, time it came in, tokens
  charged,      \* history: what was billed as written since the last clearing, and when
  unpaid,       \* history: keys read although nobody was charged for them in time
  checks        \* requests so far

cacheVars == <<strategy, items, size, accessCount, clock, at, parts, came, read, creation, charged, unpaid, checks>>
request == <<at, parts, came, read, creation>>

CacheInit ==
  /\ strategy \in Strategies
  /\ items = <<>> /\ size = 0 /\ accessCount = 0 /\ clock = 0
  /\ at = [r \in Requests |-> "idle"] /\ parts = [r \in Requests |-> <<>>]
  /\ came = [r \in Requests |-> 0] /\ read = [r \in Requests |-> 0] /\ creation = [r \in Requests |-> 0]
  /\ charged = {} /\ unpaid = {} /\ checks = 0

-----------------------------------------------------------------------------
(* What is looked up, and what is billed without looking. *)

Given(text, tokens, key) ==
  IF text # NoText /\ tokens > 0 THEN << [key |-> key, tokens |-> tokens] >> ELSE <<>>

SystemPart(i) == Given(i.system, i.systemTokens, <<"system", i.system>>)
ToolsPart(i)  == Given(i.tools, i.toolsTokens, <<"tools", i.tools>>)

BothParts(i) ==
  LET tokens == i.systemTokens + i.toolsTokens
  IN  IF tokens > 0 THEN << [key |-> <<"both", i.system, i.tools>>, tokens |-> tokens] >> ELSE <<>>

Parts(s, i) ==
  CASE s = "0" -> BothParts(i)
    [] s = "2" -> SystemPart(i)
    [] s = "3" -> ToolsPart(i)
    [] OTHER   -> SystemPart(i) \o ToolsPart(i)

Untracked(s, i) == CASE s = "2" -> i.toolsTokens [] s = "3" -> i.systemTokens [] OTHER -> 0

-----------------------------------------------------------------------------
(* A request. *)

CheckPromptCache(r, i) ==
  /\ at[r] = "idle" /\ checks < MaxChecks
  /\ checks' = checks + 1
  /\ at' = [at EXCEPT ![r] = "look"]
  /\ parts' = [parts EXCEPT ![r] = Parts(strategy, i)]
  /\ came' = [came EXCEPT ![r] = clock]
  /\ read' = [read EXCEPT ![r] = 0]
  /\ creation' = [creation EXCEPT ![r] = Untracked(strategy, i)]
  /\ UNCHANGED <<strategy, items, size, accessCount, clock, charged, unpaid>>

Fresh(key, time) == key \in DOMAIN items /\ time <= items[key].expires

Paid(key, time) == \E c \in charged : c.key = key /\ time <= c.time + TTL

Hit(r) ==
  /\ at[r] = "look" /\ parts[r] # <<>>
  /\ LET part == Head(parts[r])
     IN  /\ Fresh(part.key, came[r])
         /\ read' = [read EXCEPT ![r] = @ + part.tokens]
         /\ unpaid' = IF Paid(part.key, came[r]) THEN unpaid ELSE unpaid \cup {part.key}
  /\ accessCount' = (accessCount + 1) % Sample
  /\ IF accessCount' = 0
     THEN at' = [at EXCEPT ![r] = "touch"] /\ UNCHANGED parts
     ELSE parts' = [parts EXCEPT ![r] = Tail(@)] /\ UNCHANGED at
  /\ UNCHANGED <<strategy, items, size, clock, came, creation, charged, checks>>

\* Mutant: a renewal that does not look whether the entry is still there.
TouchAnyway(key) ==
  items' = [k \in DOMAIN items \cup {key} |->
              IF k = key THEN [expires |-> 0, accessed |-> clock] ELSE items[k]]

Touch(key) ==
  items' = [k \in DOMAIN items |-> IF k = key THEN [items[k] EXCEPT !.accessed = clock] ELSE items[k]]

Renew(r) ==
  /\ at[r] = "touch"
  /\ Touch(Head(parts[r]).key)
  /\ at' = [at EXCEPT ![r] = "look"]
  /\ parts' = [parts EXCEPT ![r] = Tail(@)]
  /\ UNCHANGED <<strategy, size, accessCount, clock, came, read, creation, charged, unpaid, checks>>

Miss(r) ==
  /\ at[r] = "look" /\ parts[r] # <<>>
  /\ ~Fresh(Head(parts[r]).key, came[r])
  /\ at' = [at EXCEPT ![r] = "put"]
  /\ UNCHANGED <<strategy, items, size, accessCount, clock, parts, came, read, creation, charged, unpaid, checks>>

\* A new entry of a full cache takes the place of one of those not accessed for longest.
evictLRU(key) ==
  IF key \notin DOMAIN items /\ Cardinality(DOMAIN items) >= MaxEntries
  THEN {{k} : k \in {l \in DOMAIN items : \A m \in DOMAIN items : items[l].accessed <= items[m].accessed}}
  ELSE {{}}

Put(r) ==
  /\ at[r] = "put"
  /\ LET part == Head(parts[r])
         old  == DOMAIN items \cap {part.key}
     IN  \E evicted \in evictLRU(part.key) :
           /\ items' = [k \in (DOMAIN items \cup {part.key}) \ evicted |->
                          IF k = part.key THEN [expires |-> came[r] + TTL, accessed |-> came[r]] ELSE items[k]]
           /\ size' = size + 1 - Cardinality(old) - Cardinality(evicted)
           /\ creation' = [creation EXCEPT ![r] = @ + part.tokens]
           /\ charged' = charged \cup {[key |-> part.key, time |-> came[r]]}
  /\ at' = [at EXCEPT ![r] = "look"]
  /\ parts' = [parts EXCEPT ![r] = Tail(@)]
  /\ UNCHANGED <<strategy, accessCount, clock, came, read, unpaid, checks>>

Return(r) ==
  /\ at[r] = "look" /\ parts[r] = <<>>
  /\ at' = [at EXCEPT ![r] = "idle"] /\ came' = [came EXCEPT ![r] = 0]
  /\ read' = [read EXCEPT ![r] = 0] /\ creation' = [creation EXCEPT ![r] = 0]
  /\ UNCHANGED <<strategy, items, size, accessCount, clock, parts, charged, unpaid, checks>>

-----------------------------------------------------------------------------
(* The others. *)

\* The loop of the cache, and whoever asks for its statistics.
pruneExpired ==
  /\ LET kept == {k \in DOMAIN items : clock <= items[k].expires}
     IN  /\ items' = [k \in kept |-> items[k]]
         /\ size' = size - Cardinality(DOMAIN items \ kept)
  /\ UNCHANGED <<strategy, accessCount, clock, request, charged, unpaid, checks>>

Clear ==
  /\ items' = <<>> /\ size' = 0 /\ charged' = {}
  /\ UNCHANGED <<strategy, accessCount, clock, request, unpaid, checks>>

\* A new configuration: the cache keeps what it holds, and its time to live.
persistConfig(s) ==
  /\ strategy' = s
  /\ UNCHANGED <<items, size, accessCount, clock, request, charged, unpaid, checks>>

CacheTick ==
  /\ clock < MaxCacheTime
  /\ clock' = clock + 1
  /\ UNCHANGED <<strategy, items, size, accessCount, request, charged, unpaid, checks>>

CacheNext ==
  \/ \E r \in Requests :
       \/ \E i \in Inputs : CheckPromptCache(r, i)
       \/ Hit(r) \/ Renew(r) \/ Miss(r) \/ Put(r) \/ Return(r)
  \/ pruneExpired \/ Clear \/ CacheTick
  \/ \E s \in Strategies : persistConfig(s)

CacheSpec == CacheInit /\ [][CacheNext]_cacheVars

-----------------------------------------------------------------------------
(* Correctness. *)

\* However lookups, stores, renewals, evictions and clearings interleave: the size kept by
\* hand is that of the entries, which stay within their number, and tokens are billed as
\* read only if the same part was billed as written, at most a time to live before, to
\* some request since the cache was last cleared.
ReadWasCharged ==
  /\ size = Cardinality(DOMAIN items)
  /\ Cardinality(DOMAIN items) <= MaxEntries
  /\ unpaid = {}
=============================================================================
