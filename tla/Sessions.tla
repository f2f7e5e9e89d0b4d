------------------------------ MODULE Sessions ------------------------------
(***************************************************************************)
(* The working directory of a conversation: where a request names it       *)
(* (internal/handler/utils.go), what the session store remembers of it     *)
(* (session_store.go), and what HandleMessages makes of the two            *)
(* (resolveWorkdir, handler_helpers.go; message_reset.go).  Requests of    *)
(* one conversation may overlap: every call to the store is a step.        *)
(***************************************************************************)
EXTENDS Naturals, Sequences, SequencesExt

CONSTANTS
  SessionRequests,      \* requests under way
  SessionInputs,        \* what requests may hold, see SessionInput
  Keys, Dirs, None,
  SessionBackends,      \* the stores a server may have: "redis", "memory"
  MaxSessions,   \* capacity of the memory store
  MaxArrivals    \* bound on the requests

\* Who the request says it belongs to, where it says its directory is, and its messages
\* (the directory of an environment block, and whether there is any text).
SessionInput ==
  [conversation : Keys \cup {None}, metadataSession : Keys \cup {None}, headerSession : Keys \cup {None},
   user : Keys \cup {None}, metadataDir : Dirs \cup {None}, headerDir : Dirs \cup {None},
   system : Seq(Dirs \cup {None}),
   messages : Seq([role : {"user", "assistant"}, dir : Dirs \cup {None}, text : BOOLEAN])]

ASSUME SessionsAssumption ==
  /\ SessionInputs \subseteq SessionInput
  /\ None \notin Keys /\ None \notin [workdir : Dirs \cup {None}, conv : BOOLEAN]
  /\ SessionBackends \subseteq {"redis", "memory"} /\ {MaxSessions, MaxArrivals} \subseteq Nat \ {0}

VARIABLES
  sessionBackend,       \* the store this server has
  sessions,      \* per key: the directory and whether there is a conversation id, or None
  accessed,      \* the keys of the memory store, the one longest not accessed first
  sessionAt, input, prev, dir, messages,  \* per request: where it is, what it holds and has found out
  dirLatest, gone,  \* history, per key: directory stored last, what became of its session since
  before, excused, arrivals        \* history, per request: latest and gone when it looked

sessionVars ==
  <<sessionBackend, sessions, accessed, sessionAt, input, prev, dir, messages, dirLatest, gone, before, excused, arrivals>>

SessionsInit ==
  /\ sessionBackend \in SessionBackends
  /\ sessions = [k \in Keys |-> None] /\ accessed = <<>>
  /\ sessionAt = [r \in SessionRequests |-> "idle"] /\ input = [r \in SessionRequests |-> None]
  /\ prev = [r \in SessionRequests |-> None] /\ dir = [r \in SessionRequests |-> None]
  /\ messages = [r \in SessionRequests |-> <<>>]
  /\ dirLatest = [k \in Keys |-> None] /\ gone = [k \in Keys |-> FALSE]
  /\ before = [r \in SessionRequests |-> None] /\ excused = [r \in SessionRequests |-> FALSE]
  /\ arrivals = 0

-----------------------------------------------------------------------------
(* What a request says. *)

FirstOf(seq) ==
  LET found == {j \in DOMAIN seq : seq[j] # None} IN IF found = {} THEN None ELSE seq[Min(found)]

conversationKeyForRequest(i) == FirstOf(<<i.conversation, i.metadataSession, i.headerSession, i.user>>)

\* A user is not a session.
hasExplicitSession(i) == FirstOf(<<i.conversation, i.headerSession, i.metadataSession>>) # None

extractWorkdirFromSystem(i) == FirstOf(i.system)
extractWorkdirFromMessages(i) == FirstOf(Reverse([j \in DOMAIN i.messages |-> i.messages[j].dir]))

extractWorkdirFromRequest(i) ==
  FirstOf(<<i.metadataDir, i.headerDir, extractWorkdirFromSystem(i), extractWorkdirFromMessages(i)>>)

\* The last message of the user, after a summary of what has text before it.
resetMessagesForNewWorkdir(msgs) ==
  LET users   == {j \in DOMAIN msgs : msgs[j].role = "user"}
      last    == CHOOSE j \in users : \A k \in users : k <= j
      texts   == \E j \in 1..(last - 1) : msgs[j].text
      summary == [role |-> "summary", dir |-> None, text |-> TRUE]
  IN  IF users = {} THEN <<>> ELSE (IF texts THEN <<summary>> ELSE <<>>) \o <<msgs[last]>>

-----------------------------------------------------------------------------
(* The store. *)

SessionKey(r) == conversationKeyForRequest(input[r])
StoredWorkdir(key) == IF key = None \/ sessions[key] = None THEN None ELSE sessions[key].workdir

\* A call to Redis may fail, which is taken for no session and else ignored.
Lost == IF sessionBackend = "redis" THEN BOOLEAN ELSE {FALSE}

\* A full memory store drops the session longest not accessed for a new one.
getOrCreate(key) ==
  IF sessionBackend = "memory" /\ sessions[key] = None /\ Len(accessed) >= MaxSessions /\ accessed # <<>>
  THEN {Head(accessed)} ELSE {}

Store(key, session, lost) ==
  LET evicted == getOrCreate(key)
  IN  /\ sessions' = [k \in Keys |-> IF k = key THEN session ELSE IF k \in evicted THEN None ELSE sessions[k]]
      /\ accessed' = Append(SelectSeq(accessed, LAMBDA k : k \notin evicted \cup {key}), key)
      /\ gone' = [k \in Keys |-> IF k = key THEN lost ELSE gone[k] \/ k \in evicted]

Drop(key) ==
  /\ sessions' = [sessions EXCEPT ![key] = None]
  /\ accessed' = Remove(accessed, key)
  /\ gone' = [gone EXCEPT ![key] = TRUE]

\* Redis drops a session that was not accessed for the time to live; the memory store
\* is never asked to clean up.
Expire(key) ==
  /\ sessionBackend = "redis" /\ sessions[key] # None
  /\ Drop(key)
  /\ UNCHANGED <<sessionBackend, sessionAt, input, prev, dir, messages, dirLatest, before, excused, arrivals>>

-----------------------------------------------------------------------------
(* A request. *)

GetWorkdir(r, i, lost) ==
  LET key    == conversationKeyForRequest(i)
      stored == IF lost THEN None ELSE StoredWorkdir(key)
  IN  /\ sessionAt[r] = "idle" /\ arrivals < MaxArrivals
      /\ arrivals' = arrivals + 1
      /\ sessionAt' = [sessionAt EXCEPT ![r] = "looked"] /\ input' = [input EXCEPT ![r] = i]
      /\ prev' = [prev EXCEPT ![r] = stored]
      /\ dir' = [dir EXCEPT ![r] = IF extractWorkdirFromRequest(i) = None /\ hasExplicitSession(i)
                                   THEN stored ELSE extractWorkdirFromRequest(i)]
      /\ messages' = [messages EXCEPT ![r] = i.messages]
      /\ before' = [before EXCEPT ![r] = IF key = None THEN None ELSE dirLatest[key]]
      /\ excused' = [excused EXCEPT ![r] = key = None \/ lost \/ gone[key]]
      /\ UNCHANGED <<sessionBackend, sessions, accessed, dirLatest, gone>>

changed(r) == prev[r] # None /\ dir[r] # None /\ prev[r] # dir[r]

\* Mutant: a directory once stored stays.
WithWorkdirOnce(session, new) == IF session = None THEN [workdir |-> new, conv |-> FALSE] ELSE session

WithWorkdir(session, new) == [workdir |-> new, conv |-> session # None /\ session.conv]

StoreWorkdir(r, key, lost) ==
  IF key # None /\ dir[r] # None /\ ~lost
  THEN /\ Store(key, WithWorkdir(sessions[key], dir[r]), FALSE)
       /\ dirLatest' = [dirLatest EXCEPT ![key] = dir[r]]
  ELSE UNCHANGED <<sessions, accessed, dirLatest, gone>>

SetWorkdir(r, lost) ==
  /\ sessionAt[r] = "looked"
  /\ StoreWorkdir(r, SessionKey(r), lost)
  /\ sessionAt' = [sessionAt EXCEPT ![r] = IF changed(r) THEN "changed" ELSE "running"]
  /\ messages' = [messages EXCEPT ![r] = IF changed(r) THEN resetMessagesForNewWorkdir(@) ELSE @]
  /\ UNCHANGED <<sessionBackend, input, prev, dir, before, excused, arrivals>>

\* The new directory goes with the session.
DeleteSession(r, lost) ==
  /\ sessionAt[r] = "changed"
  /\ IF lost THEN UNCHANGED <<sessions, accessed, gone>> ELSE Drop(SessionKey(r))
  /\ sessionAt' = [sessionAt EXCEPT ![r] = "running"]
  /\ UNCHANGED <<sessionBackend, input, prev, dir, messages, dirLatest, before, excused, arrivals>>

\* The provider names its conversation (onConversationID).
SetConvID(r, lost) ==
  /\ sessionAt[r] = "running" /\ SessionKey(r) # None
  /\ IF lost THEN UNCHANGED <<sessions, accessed, gone>>
     ELSE Store(SessionKey(r), [workdir |-> StoredWorkdir(SessionKey(r)), conv |-> TRUE], gone[SessionKey(r)])
  /\ sessionAt' = [sessionAt EXCEPT ![r] = "named"]
  /\ UNCHANGED <<sessionBackend, input, prev, dir, messages, dirLatest, before, excused, arrivals>>

SessionReturn(r) ==
  /\ sessionAt[r] \in {"running", "named"}
  /\ sessionAt' = [sessionAt EXCEPT ![r] = "idle"]
  /\ UNCHANGED <<sessionBackend, sessions, accessed, input, prev, dir, messages, dirLatest, gone, before, excused, arrivals>>

SessionsNext ==
  \/ \E r \in SessionRequests :
       \/ \E lost \in Lost :
            \/ \E i \in SessionInputs : GetWorkdir(r, i, lost)
            \/ SetWorkdir(r, lost) \/ DeleteSession(r, lost) \/ SetConvID(r, lost)
       \/ SessionReturn(r)
  \/ \E key \in Keys : Expire(key)

SessionsSpec == SessionsInit /\ [][SessionsNext]_sessionVars

-----------------------------------------------------------------------------
(* Correctness. *)

\* However requests overlap, whatever expires, is dropped or fails: a directory a request
\* did not name itself is the one stored last for its session, and only an explicit
\* session gives it one; history is cut only if the directory is another than the last one
\* stored; and a change is overlooked only if the session was not found: its read failed,
\* or it was lost, or dropped by an earlier change, since its directory was stored.
WorkdirFollowsSession ==
  \A r \in SessionRequests : sessionAt[r] \in {"running", "named"} =>
    LET named == extractWorkdirFromRequest(input[r])
        cut   == messages[r] # input[r].messages
    IN  /\ named = None /\ dir[r] # None => dir[r] = before[r] /\ hasExplicitSession(input[r])
        /\ named # None => dir[r] = named
        /\ cut => before[r] # None /\ dir[r] # before[r]
        /\ ~excused[r] /\ before[r] # None /\ dir[r] # before[r] /\ dir[r] # None
             => messages[r] = resetMessagesForNewWorkdir(input[r].messages)
=============================================================================
