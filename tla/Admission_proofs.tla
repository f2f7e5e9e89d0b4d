-------------------------- MODULE Admission_proofs --------------------------
(***************************************************************************)
(* Proofs about what the admission of requests counts, for any number of   *)
(* callers.  Connections: the counters of MemoryConnTracker are exact, and *)
(* its interleaved steps implement the single steps of ConnTracker.        *)
(* Duplicates: for any window and clock the counts of DedupStore are well  *)
(* formed with both stores and exact with the memory store, and accepted   *)
(* registrations lie apart.                                                *)
(***************************************************************************)
EXTENDS MemoryConnTracker, DedupStore, FiniteSetTheorems, TLAPS

-----------------------------------------------------------------------------
(* The connection tracker. *)

USE TrackerAssumption DEF Goto

\* The types of the counters and of the goroutines' locals are kept: a
\* goroutine only works on an account that has a counter, and only swaps a
\* positive value (Acquire, Release).
THEOREM TrackerTypeCorrect == TrackerSpec => []TrackerTypeOK
<1>1. TrackerInit => TrackerTypeOK
  BY DEF TrackerInit, TrackerTypeOK
<1>2. TrackerTypeOK /\ [TrackerNext]_trackerVars => TrackerTypeOK'
  <2>1. SUFFICES ASSUME TrackerTypeOK, [TrackerNext]_trackerVars PROVE TrackerTypeOK'
    OBVIOUS
  <2>. USE <2>1 DEF TrackerTypeOK
  <2>2. ASSUME NEW g \in Goroutines, NEW a \in Accounts, LoadOrStore(g, a) PROVE TrackerTypeOK'
    BY <2>2 DEF LoadOrStore
  <2>3. ASSUME NEW g \in Goroutines, Add(g) PROVE TrackerTypeOK'
    BY <2>3 DEF Add
  <2>4. ASSUME NEW g \in Goroutines, LoadEntry(g) PROVE TrackerTypeOK'
    BY <2>4 DEF LoadEntry
  <2>5. ASSUME NEW g \in Goroutines, Read(g) PROVE TrackerTypeOK'
    BY <2>5 DEF Read
  <2>6. ASSUME NEW g \in Goroutines, Swap(g) PROVE TrackerTypeOK'
    <3>1. current[g] - 1 \in Nat
      BY <2>6 DEF Swap
    <3>2. QED
      BY <2>6, <3>1 DEF Swap
  <2>7. ASSUME NEW g \in Goroutines, SwapFails(g) PROVE TrackerTypeOK'
    BY <2>7 DEF SwapFails
  <2>8. ASSUME UNCHANGED trackerVars PROVE TrackerTypeOK'
    BY <2>8 DEF trackerVars
  <2>9. QED
    BY <2>1, <2>2, <2>3, <2>4, <2>5, <2>6, <2>7, <2>8 DEF TrackerNext, Step
<1>3. QED
  BY <1>1, <1>2, PTL DEF TrackerSpec

-----------------------------------------------------------------------------
\* What a step does to the holders of an account is to add or to remove one
\* goroutine.

\* The holders are finitely many, so they can be counted.
LEMMA HoldingFinite ==
  ASSUME NEW a
  PROVE  IsFiniteSet(Holding(a)) /\ Cardinality(Holding(a)) \in Nat
<1>1. Holding(a) \subseteq Goroutines
  BY DEF Holding
<1>2. IsFiniteSet(Holding(a))
  BY <1>1, FS_Subset
<1>3. QED
  BY <1>2, FS_CardinalityType

\* While one goroutine holds an account its counter is positive: Release never
\* finds zero.
LEMMA HeldIsCounted ==
  ASSUME TrackerTypeOK, CounterExact, NEW g \in Goroutines, acc[g] \in Accounts,
         g \in Holding(acc[g])
  PROVE  counter[acc[g]] > 0
<1>1. Cardinality(Holding(acc[g])) # 0
  BY HoldingFinite, FS_EmptySet
<1>2. QED
  BY <1>1, HoldingFinite DEF TrackerTypeOK, CounterExact

\* Acquire's Add counts the goroutine that now holds the account.
LEMMA AddExact ==
  ASSUME TrackerTypeOK, CounterExact, NEW g \in Goroutines, Add(g)
  PROVE  CounterExact'
<1>. USE DEF TrackerTypeOK
<1>1. acc[g] \in Accounts
  BY DEF Add
<1>2. SUFFICES ASSUME NEW a \in Accounts
               PROVE  counter'[a] = Cardinality(Holding(a)')
  BY DEF CounterExact
<1>3. CASE a = acc[g]
  <2>1. g \notin Holding(a) /\ Holding(a)' = Holding(a) \cup {g}
    BY <1>3 DEF Add, Holding
  <2>2. Cardinality(Holding(a)') = Cardinality(Holding(a)) + 1
    BY <2>1, HoldingFinite, FS_AddElement
  <2>3. QED
    BY <1>3, <2>2 DEF Add, CounterExact
<1>4. CASE a # acc[g]
  <2>1. Holding(a)' = Holding(a)
    BY <1>4 DEF Add, Holding
  <2>2. QED
    BY <1>4, <2>1 DEF Add, CounterExact
<1>5. QED
  BY <1>3, <1>4

\* A CompareAndSwap that succeeds takes one from the counter, for the goroutine
\* that no longer holds the account.
LEMMA SwapExact ==
  ASSUME TrackerTypeOK, CounterExact, NEW g \in Goroutines, Swap(g)
  PROVE  CounterExact'
<1>. USE DEF TrackerTypeOK
<1>1. acc[g] \in Accounts
  BY DEF Swap
<1>2. SUFFICES ASSUME NEW a \in Accounts
               PROVE  counter'[a] = Cardinality(Holding(a)')
  BY DEF CounterExact
<1>3. CASE a = acc[g]
  <2>1. g \in Holding(a) /\ Holding(a)' = Holding(a) \ {g}
    BY <1>1, <1>3 DEF Swap, Holding
  <2>2. Cardinality(Holding(a)') = Cardinality(Holding(a)) - 1
    BY <2>1, HoldingFinite, FS_RemoveElement
  <2>3. QED
    BY <1>3, <2>2 DEF Swap, CounterExact
<1>4. CASE a # acc[g]
  <2>1. Holding(a)' = Holding(a)
    BY <1>4 DEF Swap, Holding
  <2>2. QED
    BY <1>4, <2>1 DEF Swap, CounterExact
<1>5. QED
  BY <1>3, <1>4

\* The other steps change neither a counter nor a holder.
LEMMA OthersExact ==
  ASSUME TrackerTypeOK, CounterExact, NEW g \in Goroutines,
         (\E a \in Accounts : LoadOrStore(g, a)) \/ LoadEntry(g) \/ Read(g) \/ SwapFails(g)
  PROVE  CounterExact' /\ counter' = counter
<1>. USE DEF TrackerTypeOK
<1>1. counter' = counter
  BY DEF LoadOrStore, LoadEntry, Read, SwapFails
<1>2. ASSUME NEW b \in Accounts PROVE Holding(b)' = Holding(b)
  <2>1. CASE \E a \in Accounts : LoadOrStore(g, a)
    BY <2>1 DEF LoadOrStore, Holding
  <2>2. CASE LoadEntry(g)
    BY <2>2 DEF LoadEntry, Holding
  <2>3. CASE Read(g)
    <3>1. acc[g] \in Accounts /\ g \in Holding(acc[g])
      BY <2>3 DEF Read, Holding
    <3>2. counter[acc[g]] > 0
      BY <3>1, HeldIsCounted
    <3>3. QED
      BY <2>3, <3>2 DEF Read, Holding
  <2>4. CASE SwapFails(g)
    BY <2>4 DEF SwapFails, Holding
  <2>5. QED
    BY <2>1, <2>2, <2>3, <2>4
<1>3. QED
  BY <1>1, <1>2 DEF CounterExact

\* The counter of an account is the number of goroutines that hold it, however
\* many Acquires and Releases overlap.
THEOREM CountersCorrect == TrackerSpec => []CounterExact
<1>1. TrackerInit => CounterExact
  <2>1. SUFFICES ASSUME TrackerInit, NEW a \in Accounts
                 PROVE  counter[a] = Cardinality(Holding(a))
    BY DEF CounterExact
  <2>2. Holding(a) = {}
    BY <2>1 DEF TrackerInit, Holding
  <2>3. QED
    BY <2>1, <2>2, FS_EmptySet DEF TrackerInit
<1>2. TrackerTypeOK /\ CounterExact /\ [TrackerNext]_trackerVars => CounterExact'
  <2>1. CASE UNCHANGED trackerVars
    BY <2>1 DEF trackerVars, CounterExact, Holding
  <2>2. QED
    BY <2>1, AddExact, SwapExact, OthersExact DEF TrackerNext, Step
<1>3. QED
  BY <1>1, <1>2, TrackerTypeCorrect, PTL DEF TrackerSpec

-----------------------------------------------------------------------------
\* The interleaved Acquires and Releases of the goroutines implement a counter
\* per account that changes in single steps and never goes below zero: Add is
\* the abstract Acquire, a CompareAndSwap that succeeds the abstract Release,
\* and every other step a stutter.
THEOREM TrackerImplemented == TrackerSpec => ImplementsTracker
<1>1. TrackerInit => Tracker!Init
  BY DEF TrackerInit, Tracker!Init
<1>2. TrackerTypeOK /\ CounterExact /\ [TrackerNext]_trackerVars => [Tracker!Next]_counter
  <2>1. SUFFICES ASSUME TrackerTypeOK, CounterExact, [TrackerNext]_trackerVars, ~ UNCHANGED counter
                 PROVE  Tracker!Next
    OBVIOUS
  <2>2. PICK g \in Goroutines : Add(g) \/ Swap(g)
    BY <2>1, OthersExact DEF TrackerNext, Step, trackerVars
  <2>3. acc[g] \in Accounts
    BY <2>1, <2>2 DEF TrackerTypeOK, Add, Swap
  <2>4. CASE Add(g)
    BY <2>3, <2>4 DEF Add, Tracker!Next, Tracker!Acquire
  <2>5. CASE Swap(g)
    BY <2>1, <2>3, <2>5 DEF TrackerTypeOK, Swap, Tracker!Next, Tracker!Release
  <2>6. QED
    BY <2>2, <2>4, <2>5
<1>3. QED
  BY <1>1, <1>2, TrackerTypeCorrect, CountersCorrect, PTL DEF TrackerSpec, ImplementsTracker, Tracker!Spec

HIDE TrackerAssumption DEF Goto

-----------------------------------------------------------------------------
(* The dedup store. *)

USE StoreAssumption DEF store, history, ReadClock, Write

\* Count' is what the store holds after a step.
LEMMA CountType == ASSUME TypeOK PROVE Count \in Nat
BY DEF TypeOK, Count

\* Every step keeps the types.
LEMMA TypeStep == TypeOK /\ [Next]_vars => TypeOK'
<1>1. SUFFICES ASSUME TypeOK, [Next]_vars PROVE TypeOK'
  OBVIOUS
<1>. USE <1>1 DEF TypeOK
<1>2. ASSUME NEW c \in Callers, BeginRegister(c) \/ BeginFinish(c) PROVE TypeOK'
  BY <1>2 DEF BeginRegister, BeginFinish
<1>3. ASSUME NEW c \in Callers, RegisterNew(c) PROVE TypeOK'
  BY <1>3, CountType DEF RegisterNew
<1>4. ASSUME NEW c \in Callers, RegisterDuplicate(c) PROVE TypeOK'
  BY <1>4 DEF RegisterDuplicate
<1>5. ASSUME NEW c \in Callers, RegisterError(c) PROVE TypeOK'
  BY <1>5 DEF RegisterError
<1>6. ASSUME NEW c \in Callers, Finish(c) PROVE TypeOK'
  <2>1. CASE Found
    <3>1. record' \in [last : Nat, inFlight : Nat, until : Nat]
      BY <1>6, <2>1 DEF Finish
    <3>2. stored' \in BOOLEAN
      BY <1>6, <2>1 DEF Finish
    <3>3. QED
      BY <1>6, <3>1, <3>2 DEF Finish
  <2>2. CASE ~Found
    BY <1>6, <2>2 DEF Finish
  <2>3. QED
    BY <2>1, <2>2
<1>7. ASSUME NEW c \in Callers, FinishError(c) PROVE TypeOK'
  BY <1>7 DEF FinishError
<1>8. ASSUME NEW c \in Callers, Answer(c) PROVE TypeOK'
  BY <1>8 DEF Answer
<1>9. ASSUME Clean PROVE TypeOK'
  BY <1>9 DEF Clean, NoRecord
<1>10. ASSUME Tick PROVE TypeOK'
  BY <1>10 DEF Tick
<1>11. ASSUME UNCHANGED vars PROVE TypeOK'
  BY <1>11 DEF vars
<1>12. QED
  BY <1>1, <1>2, <1>3, <1>4, <1>5, <1>6, <1>7, <1>8, <1>9, <1>10, <1>11 DEF Next

LEMMA StoreInit == Init => TypeOK
<1>1. SUFFICES ASSUME Init PROVE TypeOK
  OBVIOUS
<1>2. stored \in BOOLEAN /\ lost \in BOOLEAN /\ backend \in Backends
  BY <1>1 DEF Init
<1>3. record \in [last : Nat, inFlight : Nat, until : Nat]
  BY <1>1 DEF Init, NoRecord
<1>4. QED
  BY <1>1, <1>2, <1>3 DEF Init, TypeOK

\* The in-flight count, the times and what callers were told keep their types:
\* no Finish takes a count below zero, whichever store is installed.
THEOREM StoreTypeCorrect == Spec => []TypeOK
BY StoreInit, TypeStep, PTL DEF Spec

\* The running callers are finitely many, so they can be counted.
LEMMA RunningFinite == IsFiniteSet(Running) /\ Cardinality(Running) \in Nat
<1>1. Running \subseteq Callers
  BY DEF Running
<1>2. IsFiniteSet(Running)
  BY <1>1, FS_Subset
<1>3. QED
  BY <1>2, FS_CardinalityType

\* With the memory store a record lives as long as a request is counted in it.
LEMMA MemoryFound ==
  ASSUME TypeOK, CountExactInMemory, backend = "memory", NEW c \in Running
  PROVE  Found /\ record.inFlight = Cardinality(Running) /\ record.inFlight > 0
<1>1. Cardinality(Running) # 0
  BY RunningFinite, FS_EmptySet
<1>2. QED
  BY <1>1, RunningFinite DEF CountExactInMemory, Count, TypeOK

\* With the memory store the in-flight count of a key is the number of requests
\* that run with it: the cleaner drops no record that counts one, and no late
\* Finish takes the count of another (Register, Finish, AsyncCleaner).
THEOREM MemoryCountCorrect == Spec => []CountExactInMemory
<1>1. Init => CountExactInMemory
  <2>1. SUFFICES ASSUME Init PROVE Count = Cardinality(Running)
    BY DEF CountExactInMemory
  <2>2. Running = {}
    BY <2>1 DEF Init, Running
  <2>3. QED
    BY <2>1, <2>2, FS_EmptySet DEF Init, Count, Found
<1>2. TypeOK /\ CountExactInMemory /\ [Next]_vars => CountExactInMemory'
  <2>1. SUFFICES ASSUME TypeOK, CountExactInMemory, [Next]_vars, backend' = "memory"
                 PROVE  Count' = Cardinality(Running)'
    BY DEF CountExactInMemory
  <2>2. backend = "memory"
    BY <2>1 DEF Next, BeginRegister, BeginFinish, RegisterNew, RegisterDuplicate,
                RegisterError, Finish, FinishError, Answer, Clean, Tick, vars
  <2>3. Count = Cardinality(Running)
    BY <2>1, <2>2 DEF CountExactInMemory
  <2>. USE <2>1 DEF TypeOK
  <2>4. ASSUME NEW c \in Callers, RegisterNew(c) PROVE Count' = Cardinality(Running)'
    <3>1. c \notin Running /\ Running' = Running \cup {c}
      BY <2>4 DEF RegisterNew, Running
    <3>2. Cardinality(Running') = Cardinality(Running) + 1
      BY <3>1, RunningFinite, FS_AddElement
    <3>3. Count' = Count + 1
      BY <2>1, <2>4 DEF RegisterNew, Count, Found
    <3>4. QED
      BY <2>3, <3>2, <3>3
  <2>5. ASSUME NEW c \in Callers, Finish(c) PROVE Count' = Cardinality(Running)'
    <3>1. c \in Running /\ Running' = Running \ {c}
      BY <2>5 DEF Finish, Running
    <3>2. Cardinality(Running') = Cardinality(Running) - 1
      BY <3>1, RunningFinite, FS_RemoveElement
    <3>3. Found /\ record.inFlight = Cardinality(Running) /\ record.inFlight > 0
      BY <2>2, <3>1, MemoryFound
    <3>4. stored' /\ record'.inFlight = record.inFlight - 1
      BY <2>5, <3>3 DEF Finish
    <3>5. Count' = record.inFlight - 1
      BY <2>1, <3>4 DEF Count, Found
    <3>6. QED
      BY <3>2, <3>3, <3>5
  <2>6. ASSUME Clean PROVE Count' = Cardinality(Running)'
    <3>1. Running' = Running /\ Count' = 0 /\ Count = 0
      BY <2>2, <2>6 DEF Clean, Cleanable, Running, Count, Found
    <3>2. QED
      BY <2>3, <3>1
  <2>7. ASSUME NEW c \in Callers,
               BeginRegister(c) \/ BeginFinish(c) \/ RegisterDuplicate(c)
                 \/ RegisterError(c) \/ FinishError(c) \/ Answer(c)
        PROVE  Count' = Cardinality(Running)'
    <3>1. Count' = Count
      BY <2>1, <2>2, <2>7 DEF BeginRegister, BeginFinish, RegisterDuplicate, RegisterError,
                              FinishError, Answer, Tick, vars, Count, Found
    <3>2. Running' = Running
      BY <2>2, <2>7 DEF BeginRegister, BeginFinish, RegisterDuplicate, RegisterError,
                        FinishError, Answer, Tick, vars, Running
    <3>3. QED
      BY <2>3, <3>1, <3>2
  <2>8. CASE Tick \/ UNCHANGED vars
    <3>1. Count' = Count
      BY <2>1, <2>2, <2>8 DEF Tick, vars, Count, Found
    <3>2. Running' = Running
      BY <2>8 DEF Tick, vars, Running
    <3>3. QED
      BY <2>3, <3>1, <3>2
  <2>9. QED
    BY <2>1, <2>4, <2>5, <2>6, <2>7, <2>8 DEF Next
<1>3. QED
  BY <1>1, <1>2, StoreTypeCorrect, PTL DEF Spec

\* Of either store, unless a Finish failed since the record was created, the count
\* never says that more requests run than do: expiry, late clocks and registrations
\* that failed lose counts but invent none (Register, Finish, PX 10000).
THEOREM NeverOver == Spec => []CountNeverOver
<1>1. Init => CountNeverOver
  <2>1. SUFFICES ASSUME Init PROVE Count = 0
    BY RunningFinite DEF CountNeverOver
  <2>2. QED
    BY <2>1 DEF Init, Count, Found
<1>2. TypeOK /\ CountNeverOver /\ [Next]_vars => CountNeverOver'
  <2>1. SUFFICES ASSUME TypeOK, CountNeverOver, [Next]_vars, ~lost'
                 PROVE  Count' <= Cardinality(Running')
    BY DEF CountNeverOver
  <2>. USE <2>1 DEF TypeOK
  <2>2. Count \in Nat /\ Cardinality(Running) \in Nat
    BY CountType, RunningFinite
  <2>3. ASSUME NEW c \in Callers, RegisterNew(c) PROVE Count' <= Cardinality(Running')
    <3>1. c \notin Running /\ Running' = Running \cup {c}
      BY <2>3 DEF RegisterNew, Running
    <3>2. Cardinality(Running') = Cardinality(Running) + 1
      BY <3>1, RunningFinite, FS_AddElement
    <3>3. Count' \in {0, Count + 1}
      BY <2>2, <2>3 DEF RegisterNew, Count, Found
    <3>4. Count <= Cardinality(Running)
      <4>1. CASE lost
        <5>1. ~Found
          <6>1. lost' = (lost /\ Found)
            BY <2>3 DEF RegisterNew
          <6>2. QED
            BY <2>1, <4>1, <6>1, Zenon
        <5>2. QED
          BY <2>2, <5>1 DEF Count
      <4>2. CASE ~lost
        BY <4>2 DEF CountNeverOver
      <4>3. QED
        BY <4>1, <4>2
    <3>5. QED
      BY <2>2, <3>2, <3>3, <3>4
  <2>4. ASSUME NEW c \in Callers, Finish(c) PROVE Count' <= Cardinality(Running')
    <3>1. c \in Running /\ Running' = Running \ {c}
      BY <2>4 DEF Finish, Running
    <3>2. Cardinality(Running') = Cardinality(Running) - 1 /\ Cardinality(Running') \in Nat
      BY <3>1, RunningFinite, FS_RemoveElement, FS_CardinalityType
    <3>3. Count <= Cardinality(Running)
      BY <2>4 DEF Finish, CountNeverOver
    <3>4. Count' <= IF Count > 0 THEN Count - 1 ELSE 0
      <4>1. CASE Found
        <5>1. record'.inFlight = IF Count > 0 THEN Count - 1 ELSE 0
          BY <2>4, <4>1 DEF Finish, Count
        <5>2. Count' \in {0, record'.inFlight}
          BY DEF Count
        <5>3. QED
          BY <2>2, <5>1, <5>2
      <4>2. CASE ~Found
        BY <2>2, <2>4, <4>2 DEF Finish, Count, Found
      <4>3. QED
        BY <4>1, <4>2
    <3>5. Count' \in Nat
      <4>1. TypeOK'
        BY <2>1, TypeStep
      <4>2. QED
        BY <4>1 DEF Count
    <3>6. QED
      BY <2>2, <3>2, <3>3, <3>4, <3>5
  <2>5. ASSUME NEW c \in Callers, RegisterError(c) PROVE Count' <= Cardinality(Running')
    <3>1. c \notin Running /\ Running' = Running \cup {c}
      BY <2>5 DEF RegisterError, Running
    <3>2. Cardinality(Running') = Cardinality(Running) + 1
      BY <3>1, RunningFinite, FS_AddElement
    <3>3. Count' = Count /\ Count <= Cardinality(Running)
      BY <2>5 DEF RegisterError, Count, Found, CountNeverOver
    <3>4. QED
      BY <2>2, <3>2, <3>3
  <2>6. ASSUME NEW c \in Callers, FinishError(c) PROVE FALSE
    BY <2>6 DEF FinishError
  <2>7. ASSUME NEW c \in Callers,
               BeginRegister(c) \/ BeginFinish(c) \/ RegisterDuplicate(c) \/ Answer(c)
        PROVE  Count' <= Cardinality(Running')
    <3>1. Running' = Running
      BY <2>7 DEF BeginRegister, BeginFinish, RegisterDuplicate, Answer, Running
    <3>2. Count' = Count /\ ~lost
      BY <2>7 DEF BeginRegister, BeginFinish, RegisterDuplicate, Answer, Count, Found
    <3>3. QED
      BY <3>1, <3>2 DEF CountNeverOver
  <2>8. CASE Clean \/ Tick \/ UNCHANGED vars
    <3>1. Running' = Running
      BY <2>8 DEF Clean, Tick, vars, Running
    <3>2. Count' \in {0, Count} /\ ~lost
      BY <2>8 DEF Clean, Tick, vars, Count, Found
    <3>3. QED
      BY <2>2, <3>1, <3>2 DEF CountNeverOver
  <2>9. QED
    BY <2>1, <2>3, <2>4, <2>5, <2>6, <2>7, <2>8 DEF Next
<1>3. QED
  BY <1>1, <1>2, StoreTypeCorrect, PTL DEF Spec

-----------------------------------------------------------------------------
(* Accepted registrations lie apart. *)

\* A call runs at most MaxDelay after its time was read.
InTime ==
  \A c \in Callers : phase[c] \in {"registering", "finishing"} => stamp[c] <= now /\ now <= stamp[c] + MaxDelay

\* The record outlives the latest stored registration by Expiry, less a delay in memory,
\* and carries a time that is not a delay before it; so does the clock once it is gone.
Remembered ==
  latest > 0 =>
    /\ latest <= now + 1
    /\ stored => latest <= record.last + MaxDelay + 1 /\ latest + Expiry <= record.until + 1
    /\ ~stored => latest + Expiry <= now + MaxDelay

ApartInv == TypeOK /\ InTime /\ Remembered

LEMMA InTimeStep == ApartInv /\ [Next]_vars => InTime'
<1>. SUFFICES ASSUME ApartInv, [Next]_vars PROVE InTime'
  OBVIOUS
<1>. USE DEF ApartInv, TypeOK, InTime
<1>1. ASSUME NEW c \in Callers, BeginRegister(c) \/ BeginFinish(c) PROVE InTime'
  BY <1>1 DEF BeginRegister, BeginFinish
<1>2. ASSUME NEW c \in Callers,
             \/ RegisterNew(c) \/ RegisterDuplicate(c) \/ RegisterError(c) \/ Finish(c) \/ FinishError(c)
             \/ Answer(c)
      PROVE  InTime'
  <2>1. PICK to \in {"running", "rejected", "idle"} : phase' = [phase EXCEPT ![c] = to]
    BY <1>2 DEF RegisterNew, RegisterDuplicate, RegisterError, Finish, FinishError, Answer
  <2>2. UNCHANGED <<now, stamp>>
    BY <1>2 DEF RegisterNew, RegisterDuplicate, RegisterError, Finish, FinishError, Answer
  <2>3. QED
    BY <2>1, <2>2
<1>3. ASSUME Clean \/ UNCHANGED vars PROVE InTime'
  BY <1>3 DEF Clean, vars
<1>4. ASSUME Tick PROVE InTime'
  BY <1>4 DEF Tick
<1>5. QED
  BY <1>1, <1>2, <1>3, <1>4 DEF Next

LEMMA Later ==
  ASSUME NEW x \in Nat, NEW y \in Nat, NEW d \in Nat, NEW z \in Nat
  PROVE  /\ x <= y + 1 => x + d <= y + d + 1 /\ x <= (y + 1) + 1
         /\ x + d <= y + z => x + d <= (y + 1) + z
OBVIOUS

\* A write leaves a record that is not older than its call, by more than the delay.
LEMMA WriteRemembered ==
  ASSUME ApartInv, NEW c \in Callers, phase[c] \in {"registering", "finishing"}, UNCHANGED now,
         NEW n, Write(stamp[c], n), latest' \in {latest, stamp[c] + 1}
  PROVE  Remembered'
<1>1. /\ now \in Nat /\ stamp[c] \in Nat /\ latest \in Nat /\ stamp[c] <= now /\ now <= stamp[c] + MaxDelay
      /\ latest > 0 => latest <= now + 1
  BY DEF ApartInv, TypeOK, InTime, Remembered
<1>2. stored' /\ record'.last = stamp[c] /\ record'.until = now + Expiry /\ now' = now
  OBVIOUS
<1>3. latest' \in Nat /\ (latest' > 0 => latest' <= now + 1)
  BY <1>1
<1>4. latest' > 0 => latest' <= stamp[c] + MaxDelay + 1
  BY <1>1, <1>3, StoreAssumption
<1>5. latest' > 0 => latest' + Expiry <= now + Expiry + 1
  BY <1>1, <1>3, Later
<1>6. QED
  BY <1>2, <1>3, <1>4, <1>5 DEF Remembered

LEMMA RememberedStep == ApartInv /\ [Next]_vars => Remembered'
<1>. SUFFICES ASSUME ApartInv, [Next]_vars PROVE Remembered'
  OBVIOUS
<1>1. ASSUME NEW c \in Callers, RegisterNew(c) \/ (Finish(c) /\ Found) PROVE Remembered'
  BY <1>1, WriteRemembered DEF RegisterNew, Finish
<1>2. ASSUME NEW c \in Callers,
             \/ BeginRegister(c) \/ BeginFinish(c) \/ RegisterDuplicate(c) \/ RegisterError(c)
             \/ (Finish(c) /\ ~Found) \/ FinishError(c) \/ Answer(c)
      PROVE  Remembered'
  <2>1. UNCHANGED <<now, record, stored, latest>>
    BY <1>2 DEF BeginRegister, BeginFinish, RegisterDuplicate, RegisterError, Finish, FinishError, Answer
  <2>2. QED
    BY <2>1 DEF ApartInv, Remembered
<1>3. ASSUME Clean PROVE Remembered'
  <2>1. record.last + Expiry < now /\ ~stored' /\ UNCHANGED <<now, latest>> /\ stored
    BY <1>3 DEF Clean, Cleanable
  <2>2. latest > 0 => latest <= now + 1 /\ latest <= record.last + MaxDelay + 1
    BY <2>1 DEF ApartInv, Remembered
  <2>3. latest > 0 => latest + Expiry <= now + MaxDelay
    BY <2>1, <2>2 DEF ApartInv, TypeOK
  <2>4. QED
    BY <2>1, <2>2, <2>3 DEF Remembered
<1>4. ASSUME Tick \/ UNCHANGED vars PROVE Remembered'
  <2>1. now' \in {now, now + 1} /\ UNCHANGED <<record, stored, latest>>
    BY <1>4 DEF Tick, vars
  <2>2. /\ now \in Nat /\ latest \in Nat
        /\ latest > 0 => latest <= now + 1 /\ (~stored => latest + Expiry <= now + MaxDelay)
    BY DEF ApartInv, TypeOK, Remembered
  <2>3. latest > 0 => latest <= now' + 1 /\ (~stored => latest + Expiry <= now' + MaxDelay)
    BY <2>1, <2>2, Later
  <2>4. QED
    BY <2>1, <2>3 DEF ApartInv, Remembered
<1>5. QED
  BY <1>1, <1>2, <1>3, <1>4 DEF Next

\* A registration that finds no record, or none in the window, comes a window after the
\* latest one, up to the delay.
LEMMA RegisteredApart ==
  ASSUME ApartInv, NEW c \in Callers, RegisterNew(c), latest > 0
  PROVE  latest' + MaxDelay > latest + Window
<1>1. /\ phase[c] = "registering" /\ ~IsDuplicate(stamp[c]) /\ latest' = stamp[c] + 1
      /\ stamp[c] \in Nat /\ now \in Nat /\ latest \in Nat /\ record.last \in Nat /\ record.until \in Nat
  BY DEF RegisterNew, ApartInv, TypeOK
<1>2. now <= stamp[c] + MaxDelay
  BY <1>1 DEF ApartInv, InTime
<1>3. CASE Found
  <2>1. stamp[c] > record.last + Window /\ stored
    BY <1>1, <1>3 DEF IsDuplicate, Found
  <2>2. latest <= record.last + MaxDelay + 1
    BY <2>1 DEF ApartInv, Remembered
  <2>3. QED
    BY <1>1, <2>1, <2>2
<1>4. CASE stored /\ ~Found
  <2>1. record.until <= now
    BY <1>1, <1>4 DEF Found
  <2>2. latest + Expiry <= record.until + 1
    BY <1>4 DEF ApartInv, Remembered
  <2>3. QED
    BY <1>1, <1>2, <2>1, <2>2, DelayAssumption
<1>5. CASE ~stored
  <2>1. latest + Expiry <= now + MaxDelay
    BY <1>5 DEF ApartInv, Remembered
  <2>2. QED
    BY <1>1, <1>2, <2>1, DelayAssumption
<1>6. QED
  BY <1>3, <1>4, <1>5

\* Two registrations of a key that both went through are a window apart, with either store,
\* up to the time between reading the clock and running the call: not even a record that
\* expired or was cleaned lets one through sooner (Register, PX 10000, cleanupWindow).
THEOREM ApartCorrect == Spec => AcceptedApart
<1>1. Init => ApartInv
  <2>1. Init => InTime /\ Remembered
    BY DEF Init, InTime, Remembered
  <2>2. Init => TypeOK
    BY StoreInit
  <2>3. QED
    BY <2>1, <2>2 DEF ApartInv
<1>2. ApartInv /\ [Next]_vars => ApartInv'
  BY TypeStep, InTimeStep, RememberedStep DEF ApartInv
<1>3. ApartInv /\ [Next]_vars => [latest > 0 /\ latest' # latest => latest' + MaxDelay > latest + Window]_vars
  <2>1. SUFFICES ASSUME ApartInv, Next, latest > 0, latest' # latest PROVE latest' + MaxDelay > latest + Window
    OBVIOUS
  <2>2. \E c \in Callers : RegisterNew(c)
    BY <2>1 DEF Next, BeginRegister, BeginFinish, RegisterDuplicate, RegisterError, Finish, FinishError,
                Answer, Clean, Tick
  <2>3. QED
    BY <2>1, <2>2, RegisteredApart
<1>4. QED
  BY <1>1, <1>2, <1>3, PTL DEF Spec, AcceptedApart
=============================================================================
