----------------------------- MODULE DedupStore -----------------------------
(***************************************************************************)
(* The two stores of recent requests (internal/handler/dedup_store.go) and *)
(* what HandleMessages does with one key of theirs.  Keys do not interact: *)
(* one key is modelled.  Register and Finish are atomic (a Lua script, or  *)
(* Compute under a shard lock), but each is given a time that its caller   *)
(* read before, so a call is two steps: read the clock, then run.          *)
(*                                                                         *)
(* The Redis store keeps a record for Expiry after its last write, whether *)
(* or not a request is in flight; the memory store removes only idle       *)
(* records.                                                                *)
(***************************************************************************)
EXTENDS Naturals, FiniteSets

CONSTANTS
  Callers,   \* requests with the same key
  Backends,  \* the stores the server may be started with: "memory", "redis"
  Window,    \* duplicateWindow, 2 s
  Expiry,    \* PX 10000, and duplicateCleanupWindow
  ScriptsFail, \* whether a Redis call may fail
  MaxDelay,  \* bound: time between reading the clock and running the call
  MaxTime    \* bound on the clock

ASSUME StoreAssumption ==
  /\ IsFiniteSet(Callers)
  /\ Backends \subseteq {"memory", "redis"}
  /\ ScriptsFail \in BOOLEAN
  /\ Window \in Nat /\ Expiry \in Nat /\ MaxDelay \in Nat /\ MaxTime \in Nat

\* Calls run in time: a window of 2 s and an expiry of 10 s leave a call 8 s from reading
\* the clock to reaching the store.
ASSUME DelayAssumption == Window < Expiry /\ Window + MaxDelay <= Expiry

NoRecord == [last |-> 0, inFlight |-> 0, until |-> 0]

VARIABLES
  backend,   \* the store that SetDedupStore installed
  now,       \* the clock
  record,    \* the stored record; until is when Redis drops it
  stored,    \* whether there is one
  phase,     \* what each caller does
  stamp,     \* the time each caller read
  told,      \* history: whether what a duplicate was told was true
  latest,    \* history: stamp + 1 of the latest stored registration, or 0
  lost       \* history: a Finish failed since the record was created

store   == <<record, stored>>
history == <<told, latest, lost>>
vars    == <<backend, now, store, phase, stamp, history>>

Running == {c \in Callers : phase[c] \in {"running", "finishing"}}

TypeOK ==
  /\ now \in Nat
  /\ record \in [last : Nat, inFlight : Nat, until : Nat]
  /\ stored \in BOOLEAN
  /\ phase \in [Callers -> {"idle", "registering", "running", "finishing", "rejected"}]
  /\ stamp \in [Callers -> Nat]
  /\ told \in [Callers -> {"nothing", "right", "wrong"}]
  /\ latest \in Nat
  /\ lost \in BOOLEAN
  /\ backend \in Backends

Init ==
  /\ now = 0
  /\ record = NoRecord
  /\ stored = FALSE
  /\ phase = [c \in Callers |-> "idle"]
  /\ stamp = [c \in Callers |-> 0]
  /\ told = [c \in Callers |-> "nothing"]
  /\ latest = 0
  /\ lost = FALSE
  /\ backend \in Backends

\* What a call finds.  Redis drops a record at its deadline.
Found == stored /\ (backend = "redis" => now < record.until)

Count == IF Found THEN record.inFlight ELSE 0

\* Mutant: the script compares with < where it should with <=.
IsDuplicateStrict(t) == Found /\ t < record.last + Window

\* now - last <= window; a stamp older than the last write is a duplicate too.
IsDuplicate(t) == Found /\ t <= record.last + Window

\* Every write restarts the deadline.
Write(last, inFlight) ==
  /\ record' = [last |-> last, inFlight |-> inFlight, until |-> now + Expiry]
  /\ stored' = TRUE

ReadClock(c, from, to) ==
  /\ phase[c] = from
  /\ phase' = [phase EXCEPT ![c] = to]
  /\ stamp' = [stamp EXCEPT ![c] = now]
  /\ UNCHANGED <<backend, now, store, history>>

BeginRegister(c) == ReadClock(c, "idle", "registering")
BeginFinish(c)   == ReadClock(c, "running", "finishing")

RegisterNew(c) ==
  /\ phase[c] = "registering"
  /\ ~IsDuplicate(stamp[c])
  /\ Write(stamp[c], Count + 1)
  /\ phase' = [phase EXCEPT ![c] = "running"]
  /\ latest' = stamp[c] + 1
  /\ lost' = (lost /\ Found)
  /\ UNCHANGED <<backend, now, stamp, told>>

\* The caller answers "still in progress" or "already handled recently" after
\* the in-flight count it was told (writeRetryDedupError).
RegisterDuplicate(c) ==
  /\ phase[c] = "registering"
  /\ IsDuplicate(stamp[c])
  /\ phase' = [phase EXCEPT ![c] = "rejected"]
  /\ told' = [told EXCEPT ![c] =
                IF (Count > 0) = (Running # {}) THEN "right" ELSE "wrong"]
  /\ UNCHANGED <<backend, now, store, stamp, latest, lost>>

\* A script that fails lets the request pass: it runs, and will Finish, a
\* registration that was never stored.
RegisterError(c) ==
  /\ backend = "redis" /\ ScriptsFail
  /\ phase[c] = "registering"
  /\ phase' = [phase EXCEPT ![c] = "running"]
  /\ UNCHANGED <<backend, now, store, stamp, history>>

\* Finish of a record that is gone does nothing.
Finish(c) ==
  /\ phase[c] = "finishing"
  /\ IF Found
     THEN Write(stamp[c], IF record.inFlight > 0 THEN record.inFlight - 1 ELSE 0)
     ELSE UNCHANGED store
  /\ phase' = [phase EXCEPT ![c] = "idle"]
  /\ UNCHANGED <<backend, now, stamp, history>>

FinishError(c) ==
  /\ backend = "redis" /\ ScriptsFail
  /\ phase[c] = "finishing"
  /\ phase' = [phase EXCEPT ![c] = "idle"]
  /\ lost' = TRUE
  /\ UNCHANGED <<backend, now, store, stamp, told, latest>>

\* The rejected caller answered its client; the client may send again.
Answer(c) ==
  /\ phase[c] = "rejected"
  /\ phase' = [phase EXCEPT ![c] = "idle"]
  /\ told' = [told EXCEPT ![c] = "nothing"]
  /\ UNCHANGED <<backend, now, store, stamp, latest, lost>>

\* Mutant: the cleaner does not look at the in-flight count.
CleanableBusy == backend = "memory" /\ stored /\ now > record.last + Expiry

\* The memory store's AsyncCleaner, on its ticker.
Cleanable ==
  backend = "memory" /\ stored /\ record.inFlight = 0 /\ now > record.last + Expiry

Clean ==
  /\ Cleanable
  /\ stored' = FALSE
  /\ record' = NoRecord
  /\ UNCHANGED <<backend, now, phase, stamp, history>>

Tick ==
  /\ now < MaxTime
  /\ \A c \in Callers : phase[c] \in {"registering", "finishing"} => now < stamp[c] + MaxDelay
  /\ now' = now + 1
  /\ UNCHANGED <<backend, store, phase, stamp, history>>

Next ==
  \/ \E c \in Callers :
       \/ BeginRegister(c) \/ RegisterNew(c) \/ RegisterDuplicate(c) \/ RegisterError(c)
       \/ BeginFinish(c) \/ Finish(c) \/ FinishError(c) \/ Answer(c)
  \/ Clean
  \/ Tick

Spec == Init /\ [][Next]_vars

-----------------------------------------------------------------------------
\* Two stored registrations of one key are more than the window apart, up to
\* the delay between reading the clock and running the call: a Finish that
\* carries an old time moves the window back (Register, Finish).
AcceptedApart ==
  [][latest > 0 /\ latest' # latest => latest' + MaxDelay > latest + Window]_vars

\* Expiry and failed registrations lose counts but never invent one; only a
\* Finish that failed leaves the count too high.
CountNeverOver == ~lost => Count <= Cardinality(Running)

\* The memory store's count is exact: neither the cleaner nor a late Finish
\* loses a request that runs.
CountExactInMemory ==
  backend = "memory" => Count = Cardinality(Running)

\* A duplicate is told that the first request is still in progress exactly
\* when it is: "already handled recently" is said of a request that ended
\* (hasInFlight, writeRetryDedupError).
ToldRight == \A c \in Callers : told[c] # "wrong"
=============================================================================
