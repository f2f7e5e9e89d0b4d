------------------------- MODULE MemoryConnTracker -------------------------
(***************************************************************************)
(* MemoryConnTracker (internal/loadbalancer/conn_tracker.go): a sync.Map   *)
(* of atomic counters, used by the request goroutines.  Acquire looks the  *)
(* counter up and adds; Release reads the counter and retries a            *)
(* compare-and-swap until it wins or reads zero.  A goroutine releases the *)
(* account it acquired and holds one at a time (trackedAccountID).         *)
(***************************************************************************)
EXTENDS Naturals, FiniteSets

CONSTANTS
  Goroutines,
  Accounts,
  NoAccount   \* trackedAccountID = 0

ASSUME TrackerAssumption == IsFiniteSet(Goroutines) /\ NoAccount \notin Accounts

VARIABLES
  entries,   \* accounts with a counter in the sync.Map
  counter,   \* the counters
  pc,        \* where each goroutine is in Acquire or Release
  acc,       \* the account it works on or holds
  current    \* Release: the value it read

trackerVars == <<entries, counter, pc, acc, current>>

TrackerTypeOK ==
  /\ entries \subseteq Accounts
  /\ counter \in [Accounts -> Nat]
  /\ pc \in [Goroutines -> {"idle", "adding", "holding", "reading", "swapping"}]
  /\ acc \in [Goroutines -> Accounts \cup {NoAccount}]
  /\ current \in [Goroutines -> Nat]
  /\ \A g \in Goroutines :
       IF pc[g] = "idle" THEN acc[g] = NoAccount ELSE acc[g] \in entries
  /\ \A g \in Goroutines : pc[g] = "swapping" => current[g] > 0

TrackerInit ==
  /\ entries = {}
  /\ counter = [a \in Accounts |-> 0]
  /\ pc = [g \in Goroutines |-> "idle"]
  /\ acc = [g \in Goroutines |-> NoAccount]
  /\ current = [g \in Goroutines |-> 0]

Goto(g, from, to) ==
  /\ pc[g] = from
  /\ pc' = [pc EXCEPT ![g] = to]

\* Acquire: LoadOrStore.
LoadOrStore(g, a) ==
  /\ Goto(g, "idle", "adding")
  /\ entries' = entries \cup {a}
  /\ acc' = [acc EXCEPT ![g] = a]
  /\ UNCHANGED <<counter, current>>

\* Acquire: Add(1).
Add(g) ==
  /\ Goto(g, "adding", "holding")
  /\ counter' = [counter EXCEPT ![acc[g]] = @ + 1]
  /\ UNCHANGED <<entries, acc, current>>

\* Release: Load of the map.  An account without a counter ends the call.
LoadEntry(g) ==
  /\ Goto(g, "holding", IF acc[g] \in entries THEN "reading" ELSE "idle")
  /\ acc' = IF acc[g] \in entries THEN acc ELSE [acc EXCEPT ![g] = NoAccount]
  /\ UNCHANGED <<entries, counter, current>>

\* Release: counter.Load().  A counter at zero ends the call.
Read(g) ==
  /\ pc[g] = "reading"
  /\ Goto(g, "reading", IF counter[acc[g]] > 0 THEN "swapping" ELSE "idle")
  /\ current' = [current EXCEPT ![g] = counter[acc[g]]]
  /\ acc' = IF counter[acc[g]] > 0 THEN acc ELSE [acc EXCEPT ![g] = NoAccount]
  /\ UNCHANGED <<entries, counter>>

\* Mutant: the counter is stored without comparing.
StoreBlindly(g) ==
  /\ Goto(g, "swapping", "idle")
  /\ counter' = [counter EXCEPT ![acc[g]] = current[g] - 1]
  /\ acc' = [acc EXCEPT ![g] = NoAccount]
  /\ UNCHANGED <<entries, current>>

\* Release: CompareAndSwap(current, current - 1) succeeds.
Swap(g) ==
  /\ Goto(g, "swapping", "idle")
  /\ counter[acc[g]] = current[g]
  /\ counter' = [counter EXCEPT ![acc[g]] = current[g] - 1]
  /\ acc' = [acc EXCEPT ![g] = NoAccount]
  /\ UNCHANGED <<entries, current>>

\* Mutant: after a failed CompareAndSwap the call gives up.
SwapGivesUp(g) ==
  /\ Goto(g, "swapping", "idle")
  /\ counter[acc[g]] # current[g]
  /\ acc' = [acc EXCEPT ![g] = NoAccount]
  /\ UNCHANGED <<entries, counter, current>>

\* Release: CompareAndSwap fails, the loop starts over.
SwapFails(g) ==
  /\ Goto(g, "swapping", "reading")
  /\ counter[acc[g]] # current[g]
  /\ UNCHANGED <<entries, counter, acc, current>>

Step(g) ==
  \/ \E a \in Accounts : LoadOrStore(g, a)
  \/ Add(g) \/ LoadEntry(g) \/ Read(g) \/ Swap(g) \/ SwapFails(g)

TrackerNext == \E g \in Goroutines : Step(g)

TrackerSpec == TrackerInit /\ [][TrackerNext]_trackerVars

-----------------------------------------------------------------------------
Holding(a) ==
  {g \in Goroutines : acc[g] = a /\ pc[g] \in {"holding", "reading", "swapping"}}

\* A counter is the number of goroutines that hold the account, so a Release
\* never finds it at zero, loses its decrement or takes another one's.
CounterExact == \A a \in Accounts : counter[a] = Cardinality(Holding(a))

\* Concurrent Acquires and Releases look like single steps on the counters.
Tracker == INSTANCE ConnTracker WITH count <- counter
ImplementsTracker == Tracker!Spec
=============================================================================
