------------------------ MODULE AccountState_proofs -------------------------
(***************************************************************************)
(* Proofs about AccountState for any requests, refreshers, admins and      *)
(* marks: what a deletion of the account may still be followed by.         *)
(***************************************************************************)
EXTENDS AccountState, TLAPS, FunctionTheorems, FiniteSetTheorems

Places ==
  {"idle", "waiting", "checking", "clearing", "using", "refreshing", "get", "copy", "copying", "put"}

\* Who may read or write the record in UpdateAccount has seen that it exists.
Writing == {"copy", "copying", "put"}

TypeOK ==
  /\ record \in Account \cup {NoRecord}
  /\ heap \in [Objects -> Account]
  /\ cached \in Objects \cup {NoObject} /\ fresh \in BOOLEAN
  /\ flight \in [phase : {"none", "started", "read"}, object : Objects \cup {NoObject}]
  /\ flight.phase # "read" => flight.object = NoObject
  /\ pc \in [Actors -> Places] /\ next \in [Actors -> {"idle", "using", "get"}]
  /\ ref \in [Actors -> Objects \cup {NoObject}]
  /\ updated \in [Actors -> Account]
  /\ gone \in {"no", "deleted", "expired"}

\* Outside a call an actor has no object, and in one it has.
ObjectsHeld ==
  \A a \in Actors : IF pc[a] \in {"idle", "waiting"} THEN ref[a] = NoObject ELSE ref[a] \in Objects

\* The accounts are read from the store only when there is no list to take.
FlightNeeded == flight.phase # "none" => ~(fresh /\ cached # NoObject)

\* A deleted account: neither a usable list nor the read in flight has it once the one
\* list that had it has expired, and who is to write it had found it before.
Deleted ==
  /\ gone # "no" => record = NoRecord
  /\ gone = "expired" => (fresh => cached = NoObject) /\ flight.object = NoObject
  /\ record = NoRecord => \A a \in Actors : pc[a] \in Writing => a \in overlaps

AccountInv == TypeOK /\ ObjectsHeld /\ FlightNeeded /\ Deleted

-----------------------------------------------------------------------------
(* Objects. *)

LEMMA NewAccountType == NewAccount \in Account
BY DEF NewAccount, Account

LEMMA HeapType ==
  ASSUME NEW h \in [Objects -> Account], Heap(h)
  PROVE  heap' \in [Objects -> Account]
BY NewAccountType DEF Heap

LEMMA SetBothType ==
  ASSUME TypeOK, NEW a, NEW status \in {"ok", "blocked"}, NEW m \in Marks \cup {NoMark}, SetBoth(a, status, m)
  PROVE  heap' \in [Objects -> Account]
<1>1. [o \in Objects |-> IF o \in {ref[a], cached} THEN [heap[o] EXCEPT !.status = status, !.mark = m] ELSE heap[o]]
        \in [Objects -> Account]
  <2>1. SUFFICES ASSUME NEW o \in Objects PROVE [heap[o] EXCEPT !.status = status, !.mark = m] \in Account
    BY DEF TypeOK
  <2>2. heap[o] \in Account
    BY DEF TypeOK
  <2>3. QED
    BY <2>2 DEF Account
<1>2. QED
  BY <1>1, HeapType DEF SetBoth

\* A new object is one that nobody has.
LEMMA FreeObject ==
  ASSUME TypeOK, NoObject \in {cached, flight.object} \cup {ref[a] : a \in Actors}
  PROVE  NewObject \in Objects
<1>. DEFINE R == {ref[a] : a \in Actors}
            U == (R \cup {cached}) \cup {flight.object}
<1>1. IsFiniteSet(R) /\ Cardinality(R) <= Cardinality(Actors)
  <2>1. ref \in Surjection(Actors, R)
    BY DEF TypeOK, Surjection
  <2>2. QED
    BY <2>1, FS_Surjection, MemoryAssumption
<1>2. IsFiniteSet(U) /\ Cardinality(U) <= Cardinality(Actors) + 2
  <2>1. Cardinality(R) \in Nat /\ Cardinality(Actors) \in Nat
    BY <1>1, FS_CardinalityType, MemoryAssumption
  <2>2. IsFiniteSet(R \cup {cached}) /\ Cardinality(R \cup {cached}) <= Cardinality(R) + 1
    BY <1>1, <2>1, FS_AddElement
  <2>3. Cardinality(R \cup {cached}) \in Nat
    BY <2>2, FS_CardinalityType
  <2>4. IsFiniteSet(U) /\ Cardinality(U) <= Cardinality(R \cup {cached}) + 1
    BY <2>2, <2>3, FS_AddElement
  <2>5. Cardinality(U) \in Nat
    BY <2>4, FS_CardinalityType
  <2>6. QED
    BY <1>1, <2>1, <2>2, <2>3, <2>4, <2>5
<1>3. IsFiniteSet(U \ {NoObject}) /\ Cardinality(U \ {NoObject}) < Cardinality(Objects)
  <2>1. Cardinality(U) \in Nat /\ Cardinality(Actors) \in Nat /\ Cardinality(Objects) \in Nat
    BY <1>2, FS_CardinalityType, MemoryAssumption
  <2>2. NoObject \in U
    OBVIOUS
  <2>3. IsFiniteSet(U \ {NoObject}) /\ Cardinality(U \ {NoObject}) = Cardinality(U) - 1
    BY <1>2, <2>2, FS_RemoveElement
  <2>4. QED
    BY <1>2, <2>1, <2>3, MemoryAssumption
<1>4. ~(Objects \subseteq U \ {NoObject})
  <2>1. Cardinality(U \ {NoObject}) \in Nat /\ Cardinality(Objects) \in Nat
    BY <1>3, FS_CardinalityType, MemoryAssumption
  <2>2. QED
    BY <1>3, <2>1, FS_Subset
<1>5. \E o \in Objects : o \notin {cached, flight.object} \cup {ref[a] : a \in Actors}
  BY <1>4, ActorsAssumption
<1>6. QED
  BY <1>5 DEF NewObject

-----------------------------------------------------------------------------
(* The steps. *)

\* A step of a in which the lists stay and a does not pass the test of the record.
LEMMA ActorStep ==
  ASSUME AccountInv, NEW a \in Actors, NEW to \in Places,
         pc' = [pc EXCEPT ![a] = to], UNCHANGED <<record, listVars, gone>>,
         to \in Writing => record # NoRecord \/ pc[a] \in Writing,
         overlaps' = overlaps \/ (overlaps' = overlaps \ {a} /\ to \notin Writing),
         heap' \in [Objects -> Account], updated' \in [Actors -> Account],
         next' \in [Actors -> {"idle", "using", "get"}],
         \E o \in Objects \cup {NoObject} :
           /\ ref' = [ref EXCEPT ![a] = o]
           /\ IF to \in {"idle", "waiting"} THEN o = NoObject ELSE o \in Objects
  PROVE  AccountInv'
<1>. USE DEF AccountInv, listVars
<1>1. PICK o \in Objects \cup {NoObject} :
        /\ ref' = [ref EXCEPT ![a] = o]
        /\ IF to \in {"idle", "waiting"} THEN o = NoObject ELSE o \in Objects
  OBVIOUS
<1>2. TypeOK'
  BY <1>1 DEF TypeOK
<1>3. ObjectsHeld'
  BY <1>1 DEF TypeOK, ObjectsHeld
<1>4. FlightNeeded' /\ Deleted'
  BY DEF TypeOK, FlightNeeded, Deleted
<1>5. QED
  BY <1>2, <1>3, <1>4

\* One that keeps its object as well.
LEMMA KeepsObject ==
  ASSUME AccountInv, NEW a \in Actors, pc[a] \notin {"idle", "waiting"}, UNCHANGED ref
  PROVE  ref[a] \in Objects /\ \E o \in Objects : ref' = [ref EXCEPT ![a] = o]
BY DEF AccountInv, TypeOK, ObjectsHeld

LEMMA TakeListInv == ASSUME AccountInv, NEW r \in Requests, TakeList(r) PROVE AccountInv'
<1>1. r \in Actors /\ cached \in Objects
  BY DEF Actors, TakeList, Usable, AccountInv, TypeOK
<1>2. QED
  BY <1>1, ActorStep DEF TakeList, Goto, AccountInv, TypeOK, callVars, listVars, Places, Writing

LEMMA JoinFlightInv == ASSUME AccountInv, NEW r \in Requests, JoinFlight(r) PROVE AccountInv'
<1>1. r \in Actors /\ pc[r] = "idle" /\ pc' = [pc EXCEPT ![r] = "waiting"]
      /\ UNCHANGED <<record, heap, cached, fresh, ref, callVars, gone, overlaps>>
  BY DEF Actors, JoinFlight, Goto
<1>2. flight' = flight \/ (flight.phase = "none" /\ flight' = [flight EXCEPT !.phase = "started"])
  BY DEF JoinFlight
<1>3. TypeOK'
  BY <1>1, <1>2 DEF AccountInv, TypeOK, Places, callVars
<1>4. ObjectsHeld'
  BY <1>1 DEF AccountInv, TypeOK, ObjectsHeld
<1>5. FlightNeeded' /\ Deleted'
  <2>1. FlightNeeded'
    BY <1>1, <1>2 DEF JoinFlight, Usable, FlightNeeded, AccountInv
  <2>2. Deleted'
    BY <1>1, <1>2 DEF AccountInv, TypeOK, Deleted, Writing
  <2>3. QED
    BY <2>1, <2>2
<1>6. QED
  BY <1>3, <1>4, <1>5 DEF AccountInv

\* Steps that leave every object as it is.
LEMMA PassingInv ==
  ASSUME AccountInv, NEW a \in Actors, Available(a) \/ TakenAnyway(a) \/ CooledDown(a) \/ RefreshOK(a)
  PROVE  AccountInv'
<1>1. PICK to \in {"using", "clearing", "get"} : pc' = [pc EXCEPT ![a] = to]
  BY DEF Available, TakenAnyway, CooledDown, RefreshOK, Goto
<1>2. pc[a] \notin {"idle", "waiting"} /\ UNCHANGED <<record, heap, listVars, ref, callVars, gone, overlaps>>
  BY DEF Available, TakenAnyway, CooledDown, RefreshOK, Goto
<1>3. \E o \in Objects : ref' = [ref EXCEPT ![a] = o]
  BY <1>2, KeepsObject
<1>4. QED
  BY <1>1, <1>2, <1>3, ActorStep DEF AccountInv, TypeOK, callVars, Places, Writing

\* Steps that let go of the object.
LEMMA LeavingInv ==
  ASSUME AccountInv, NEW a \in Actors, Unavailable(a) \/ EndCall(a) \/ RefreshSkips(a)
  PROVE  AccountInv'
<1>1. /\ pc' = [pc EXCEPT ![a] = "idle"] /\ ref' = [ref EXCEPT ![a] = NoObject] /\ Heap(heap)
      /\ UNCHANGED <<record, listVars, callVars, gone, overlaps>>
  BY DEF Unavailable, EndCall, RefreshSkips, Goto, Leave
<1>2. heap' \in [Objects -> Account]
  BY <1>1, HeapType DEF AccountInv, TypeOK
<1>3. QED
  BY <1>1, <1>2, ActorStep DEF AccountInv, TypeOK, callVars, Places, Writing

\* Steps that go on to UpdateAccount with what they have set on the object.
LEMMA SettingInv ==
  ASSUME AccountInv, NEW a \in Actors, pc[a] \notin {"idle", "waiting"}, pc' = [pc EXCEPT ![a] = "get"],
         heap' \in [Objects -> Account], NEW n \in {"idle", "using", "get"},
         next' = [next EXCEPT ![a] = n] \/ UNCHANGED next,
         UNCHANGED <<record, listVars, ref, updated, gone, overlaps>>
  PROVE  AccountInv'
<1>1. PICK o \in Objects : ref' = [ref EXCEPT ![a] = o]
  BY KeepsObject
<1>2. next' \in [Actors -> {"idle", "using", "get"}] /\ updated' \in [Actors -> Account]
  BY DEF AccountInv, TypeOK
<1>3. "get" \in Places /\ "get" \notin Writing
  BY DEF Places, Writing
<1>4. o \in Objects \cup {NoObject}
  OBVIOUS
<1>5. QED
  BY <1>1, <1>2, <1>3, <1>4, ActorStep

LEMMA ClearInv == ASSUME AccountInv, NEW r \in Requests, Clear(r) PROVE AccountInv'
<1>1. r \in Actors /\ heap' \in [Objects -> Account]
  BY SetBothType DEF Clear, Actors, AccountInv
<1>2. QED
  BY <1>1, SettingInv DEF Clear, Goto

LEMMA MarkInv ==
  ASSUME AccountInv, NEW a \in Requests \cup Refreshers, NEW m \in Marks, Mark(a, m)
  PROVE  AccountInv'
<1>1. a \in Actors /\ heap' \in [Objects -> Account]
  BY SetBothType DEF Mark, Actors, AccountInv
<1>2. pc[a] \in {"using", "refreshing"} /\ pc' = [pc EXCEPT ![a] = "get"]
  BY DEF Mark, Goto
<1>3. QED
  BY <1>1, <1>2, SettingInv DEF Mark

LEMMA CheckInv ==
  ASSUME AccountInv, NEW d \in Admins, NEW status \in {"ok", "blocked"}, NEW m \in Marks \cup {NoMark},
         Check(d, status, m)
  PROVE  AccountInv'
<1>1. d \in Actors /\ pc[d] = "refreshing" /\ pc' = [pc EXCEPT ![d] = "get"]
  BY DEF Check, Goto, Actors
<1>2. [heap EXCEPT ![ref[d]].status = status, ![ref[d]].mark = m] \in [Objects -> Account]
  <2>1. heap \in [Objects -> Account]
    BY DEF AccountInv, TypeOK
  <2>2. ASSUME NEW x \in Account PROVE [[x EXCEPT !.status = status] EXCEPT !.mark = m] \in Account
    BY DEF Account
  <2>3. QED
    BY <2>1, <2>2
<1>3. heap' \in [Objects -> Account]
  BY <1>2, HeapType DEF Check
<1>4. QED
  BY <1>1, <1>3, SettingInv DEF Check, callVars

LEMMA EditInv ==
  ASSUME AccountInv, NEW d \in Admins, NEW enabled \in BOOLEAN, NEW again \in BOOLEAN, Edit(d, enabled, again)
  PROVE  AccountInv'
<1>1. d \in Actors /\ pc[d] = "refreshing" /\ pc' = [pc EXCEPT ![d] = "get"]
  BY DEF Edit, Goto, Actors
<1>2. [heap EXCEPT ![ref[d]] = [NewAccount EXCEPT !.enabled = enabled]] \in [Objects -> Account]
  BY DEF AccountInv, TypeOK, Account, NewAccount
<1>3. heap' \in [Objects -> Account]
  BY <1>2, HeapType DEF Edit
<1>4. QED
  BY <1>1, <1>3, SettingInv DEF Edit

LEMMA SnapshotInv == ASSUME AccountInv, NEW a \in Refreshers \cup Admins, Snapshot(a) PROVE AccountInv'
<1>1. /\ a \in Actors /\ pc[a] = "idle" /\ pc' = [pc EXCEPT ![a] = "refreshing"]
      /\ record # NoRecord /\ ref' = [ref EXCEPT ![a] = NewObject]
      /\ UNCHANGED <<record, listVars, callVars, gone, overlaps>>
  BY DEF Snapshot, Goto, Actors
<1>2. NewObject \in Objects
  BY <1>1, FreeObject DEF AccountInv, ObjectsHeld
<1>3. [heap EXCEPT ![NewObject] = record] \in [Objects -> Account]
  BY <1>1 DEF AccountInv, TypeOK
<1>4. heap' \in [Objects -> Account]
  BY <1>3, HeapType DEF Snapshot
<1>5. QED
  BY <1>1, <1>2, <1>4, ActorStep DEF AccountInv, TypeOK, callVars, Places, Writing

\* UpdateAccount: only Get passes the test, and it needs the record.
LEMMA CopyingInv ==
  ASSUME AccountInv, NEW a \in Actors, Get(a) \/ CopyStatus(a) \/ CopyTimes(a)
  PROVE  AccountInv'
<1>1. PICK to \in Writing : pc' = [pc EXCEPT ![a] = to]
  BY DEF Get, CopyStatus, CopyTimes, Goto, Writing
<1>2. /\ pc[a] \notin {"idle", "waiting"}
      /\ record # NoRecord \/ pc[a] \in Writing
      /\ UNCHANGED <<record, heap, listVars, ref, next, gone, overlaps>>
  BY DEF Get, CopyStatus, CopyTimes, Goto, Writing
<1>3. \E o \in Objects : ref' = [ref EXCEPT ![a] = o]
  BY <1>2, KeepsObject
<1>4. updated' \in [Actors -> Account]
  <2>1. heap[ref[a]] \in Account /\ record \in Account \cup {NoRecord}
    BY <1>2, KeepsObject DEF AccountInv, TypeOK
  <2>2. QED
    BY <2>1 DEF Get, CopyStatus, CopyTimes, AccountInv, TypeOK, Account
<1>5. to \in Places /\ to \notin {"idle", "waiting"}
  BY DEF Places, Writing
<1>6. QED
  BY <1>1, <1>2, <1>3, <1>4, <1>5, ActorStep DEF AccountInv, TypeOK

\* UpdateAccount returns.
LEMMA DoneKeeps ==
  ASSUME AccountInv, NEW a \in Actors, NEW to \in {"idle", "using", "get"}, pc[a] \notin {"idle", "waiting"},
         Done(a, to)
  PROVE  /\ pc' = [pc EXCEPT ![a] = to] /\ to \in Places \ Writing /\ UNCHANGED listVars
         /\ heap' \in [Objects -> Account] /\ updated' \in [Actors -> Account]
         /\ next' \in [Actors -> {"idle", "using", "get"}] /\ overlaps' = overlaps \ {a}
         /\ \E o \in Objects \cup {NoObject} :
              /\ ref' = [ref EXCEPT ![a] = o]
              /\ IF to \in {"idle", "waiting"} THEN o = NoObject ELSE o \in Objects
<1>1. /\ pc' = [pc EXCEPT ![a] = to] /\ to \in Places \ Writing /\ UNCHANGED listVars
      /\ overlaps' = overlaps \ {a}
  BY DEF Done, Places, Writing
<1>2. heap' \in [Objects -> Account]
  BY HeapType DEF Done, AccountInv, TypeOK
<1>3. updated' \in [Actors -> Account] /\ next' \in [Actors -> {"idle", "using", "get"}]
  BY NewAccountType DEF Done, AccountInv, TypeOK
<1>4. \E o \in Objects \cup {NoObject} :
        /\ ref' = [ref EXCEPT ![a] = o]
        /\ IF to \in {"idle", "waiting"} THEN o = NoObject ELSE o \in Objects
  BY KeepsObject DEF Done, Leave
<1>5. QED
  BY <1>1, <1>2, <1>3, <1>4

LEMMA NotWrittenInv ==
  ASSUME AccountInv, NEW a \in Actors, NotFound(a) \/ UpdateFails(a)
  PROVE  AccountInv'
<1>1. PICK to \in {"idle", "using", "get"} : Done(a, to)
  BY DEF NotFound, UpdateFails, AccountInv, TypeOK
<1>2. pc[a] \notin {"idle", "waiting"} /\ UNCHANGED <<record, gone>>
  BY DEF NotFound, UpdateFails
<1>3. QED
  BY <1>1, <1>2, DoneKeeps, ActorStep

LEMMA PutInv == ASSUME AccountInv, NEW a \in Actors, Put(a) PROVE AccountInv'
<1>1. /\ pc[a] = "put" /\ record' = updated[a] /\ gone' = "no" /\ Done(a, next[a])
  BY DEF Put
<1>2. next[a] \in {"idle", "using", "get"} /\ record' \in Account /\ record' # NoRecord
  BY <1>1, RecordAssumption DEF AccountInv, TypeOK
<1>3. /\ pc' = [pc EXCEPT ![a] = next[a]] /\ next[a] \in Places \ Writing /\ UNCHANGED listVars
      /\ heap' \in [Objects -> Account] /\ updated' \in [Actors -> Account]
      /\ next' \in [Actors -> {"idle", "using", "get"}]
      /\ \E o \in Objects \cup {NoObject} :
           /\ ref' = [ref EXCEPT ![a] = o]
           /\ IF next[a] \in {"idle", "waiting"} THEN o = NoObject ELSE o \in Objects
  BY <1>1, <1>2, DoneKeeps
<1>4. TypeOK'
  BY <1>1, <1>2, <1>3 DEF AccountInv, TypeOK, listVars
<1>5. ObjectsHeld'
  BY <1>3 DEF AccountInv, TypeOK, ObjectsHeld
<1>6. FlightNeeded' /\ Deleted'
  BY <1>1, <1>2, <1>3 DEF AccountInv, FlightNeeded, Deleted, listVars
<1>7. QED
  BY <1>4, <1>5, <1>6 DEF AccountInv

LEMMA DeleteInv == ASSUME AccountInv, NEW d \in Admins, Delete(d) PROVE AccountInv'
<1>. USE DEF Delete, AccountInv, listVars, callVars
<1>1. TypeOK'
  BY DEF TypeOK
<1>2. ObjectsHeld'
  BY DEF ObjectsHeld
<1>3. FlightNeeded' /\ Deleted'
  BY DEF FlightNeeded, Deleted, Writing, Usable
<1>4. QED
  BY <1>1, <1>2, <1>3

-----------------------------------------------------------------------------
(* The shared read of the accounts, and time. *)

LEMMA FlightReadsInv == ASSUME AccountInv, FlightReads PROVE AccountInv'
<1>. DEFINE found == record # NoRecord /\ record.enabled
            new == IF found THEN NewObject ELSE NoObject
<1>1. /\ flight.phase = "started" /\ flight' = [phase |-> "read", object |-> new]
      /\ Heap(IF found THEN [heap EXCEPT ![NewObject] = record] ELSE heap)
      /\ UNCHANGED <<record, cached, fresh, ref, pc, callVars, gone, overlaps>>
  BY DEF FlightReads
<1>2. new \in Objects \cup {NoObject} /\ (record = NoRecord => new = NoObject)
  BY <1>1, FreeObject DEF AccountInv, TypeOK
<1>3. heap' \in [Objects -> Account]
  <2>1. (IF found THEN [heap EXCEPT ![NewObject] = record] ELSE heap) \in [Objects -> Account]
    BY DEF AccountInv, TypeOK
  <2>2. QED
    BY <1>1, <2>1, HeapType
<1>4. TypeOK'
  BY <1>1, <1>2, <1>3 DEF AccountInv, TypeOK, callVars
<1>5. ObjectsHeld'
  BY <1>1 DEF AccountInv, ObjectsHeld
<1>6. FlightNeeded' /\ Deleted'
  BY <1>1, <1>2 DEF AccountInv, FlightNeeded, Deleted
<1>7. QED
  BY <1>4, <1>5, <1>6 DEF AccountInv

LEMMA FlightLandsInv == ASSUME AccountInv, FlightLands PROVE AccountInv'
<1>. DEFINE to == IF flight.object = NoObject THEN "idle" ELSE "checking"
<1>1. /\ cached' = flight.object /\ fresh' = TRUE
      /\ flight' = [phase |-> "none", object |-> NoObject]
      /\ pc' = [a \in Actors |-> IF pc[a] = "waiting" THEN to ELSE pc[a]]
      /\ ref' = [a \in Actors |-> IF pc[a] = "waiting" THEN flight.object ELSE ref[a]]
      /\ Heap(heap) /\ UNCHANGED <<record, callVars, gone, overlaps>> /\ flight.phase = "read"
  BY DEF FlightLands
<1>2. heap' \in [Objects -> Account]
  BY <1>1, HeapType DEF AccountInv, TypeOK
<1>3. to \in Places \ Writing /\ to # "waiting"
  BY DEF Places, Writing
<1>4. TypeOK'
  BY <1>1, <1>2, <1>3 DEF AccountInv, TypeOK, callVars
<1>5. ObjectsHeld'
  BY <1>1 DEF AccountInv, TypeOK, ObjectsHeld
<1>6. FlightNeeded' /\ Deleted'
  BY <1>1, <1>3 DEF AccountInv, TypeOK, FlightNeeded, Deleted
<1>7. QED
  BY <1>4, <1>5, <1>6 DEF AccountInv

LEMMA FlightFailsInv == ASSUME AccountInv, FlightFails PROVE AccountInv'
<1>. USE DEF FlightFails, AccountInv, callVars
<1>1. TypeOK'
  BY DEF TypeOK, Places
<1>2. ObjectsHeld'
  BY DEF TypeOK, ObjectsHeld
<1>3. FlightNeeded' /\ Deleted'
  BY DEF TypeOK, FlightNeeded, Deleted, Writing
<1>4. QED
  BY <1>1, <1>2, <1>3

\* No read is in flight while a list with the account may be taken: when that list
\* expires, every later read finds that the account is deleted.
LEMMA TimeInv ==
  ASSUME AccountInv, CacheExpires \/ (\E m \in Marks : CooldownEnds(m))
  PROVE  AccountInv'
<1>1. UNCHANGED <<record, heap, cached, flight, pc, ref, callVars, overlaps>>
  BY DEF CacheExpires, CooldownEnds, listVars
<1>2. UNCHANGED <<fresh, gone>>
      \/ (fresh /\ fresh' = FALSE /\ gone' = IF gone = "deleted" /\ cached # NoObject THEN "expired" ELSE gone)
  BY DEF CacheExpires, CooldownEnds, listVars
<1>3. TypeOK'
  BY <1>1, <1>2 DEF AccountInv, TypeOK, callVars
<1>4. ObjectsHeld'
  BY <1>1 DEF AccountInv, ObjectsHeld
<1>5. FlightNeeded' /\ Deleted'
  BY <1>1, <1>2 DEF AccountInv, TypeOK, FlightNeeded, Deleted
<1>6. QED
  BY <1>3, <1>4, <1>5 DEF AccountInv

LEMMA UpdateInv == ASSUME AccountInv, NEW a \in Actors, Update(a) PROVE AccountInv'
BY CopyingInv, NotWrittenInv, PutInv DEF Update

LEMMA StutterInv == ASSUME AccountInv, UNCHANGED vars PROVE AccountInv'
<1>1. UNCHANGED <<record, heap, cached, fresh, flight, pc, ref, updated, next, gone, overlaps>>
  BY DEF vars, listVars, callVars
<1>2. QED
  BY <1>1 DEF AccountInv, TypeOK, ObjectsHeld, FlightNeeded, Deleted

LEMMA RequestInv == ASSUME AccountInv, NEW r \in Requests, Request(r) PROVE AccountInv'
<1>. r \in Actors
  BY DEF Actors
<1>1. CASE TakeList(r) \/ JoinFlight(r)
  BY <1>1, TakeListInv, JoinFlightInv
<1>2. CASE Available(r) \/ TakenAnyway(r) \/ CooledDown(r)
  BY <1>2, PassingInv
<1>3. CASE Unavailable(r) \/ EndCall(r)
  BY <1>3, LeavingInv
<1>4. CASE Clear(r) \/ \E m \in Marks : Mark(r, m)
  BY <1>4, ClearInv, MarkInv
<1>5. CASE Update(r)
  BY <1>5, UpdateInv
<1>6. QED
  BY <1>1, <1>2, <1>3, <1>4, <1>5 DEF Request

LEMMA RefreshInv == ASSUME AccountInv, NEW t \in Refreshers, Refresh(t) PROVE AccountInv'
<1>. t \in Actors
  BY DEF Actors
<1>1. CASE Snapshot(t) \/ \E m \in Marks : Mark(t, m)
  BY <1>1, SnapshotInv, MarkInv
<1>2. CASE RefreshOK(t) \/ RefreshSkips(t)
  BY <1>2, PassingInv, LeavingInv
<1>3. CASE Update(t)
  BY <1>3, UpdateInv
<1>4. QED
  BY <1>1, <1>2, <1>3 DEF Refresh

LEMMA AdministerInv == ASSUME AccountInv, NEW d \in Admins, Administer(d) PROVE AccountInv'
<1>. d \in Actors
  BY DEF Actors
<1>1. CASE Snapshot(d) \/ RefreshSkips(d)
  BY <1>1, SnapshotInv, LeavingInv
<1>2. CASE Delete(d) \/ Update(d)
  BY <1>2, DeleteInv, UpdateInv
<1>3. CASE (\E m \in Marks : Check(d, "blocked", m)) \/ Check(d, "ok", NoMark)
  BY <1>3, CheckInv
<1>4. CASE \E enabled, again \in BOOLEAN : Edit(d, enabled, again)
  BY <1>4, EditInv
<1>5. QED
  BY <1>1, <1>2, <1>3, <1>4 DEF Administer

LEMMA AccountStart == Init => AccountInv
<1>1. Init => TypeOK
  <2>1. ASSUME Init
        PROVE  /\ heap \in [Objects -> Account] /\ updated \in [Actors -> Account]
               /\ pc \in [Actors -> Places] /\ next \in [Actors -> {"idle", "using", "get"}]
               /\ ref \in [Actors -> Objects \cup {NoObject}]
    BY <2>1, NewAccountType DEF Init, Places
  <2>2. Init => fresh \in BOOLEAN
    BY Zenon DEF Init
  <2>3. ASSUME Init
        PROVE  /\ flight.phase = "none" /\ flight.object = NoObject
               /\ flight \in [phase : {"none", "started", "read"}, object : Objects \cup {NoObject}]
    BY <2>3 DEF Init
  <2>4. Init => record \in Account /\ cached = NoObject /\ gone = "no"
    BY NewAccountType DEF Init
  <2>5. QED
    BY <2>1, <2>2, <2>3, <2>4 DEF TypeOK
<1>2. Init => ObjectsHeld
  BY DEF Init, ObjectsHeld
<1>3. Init => FlightNeeded /\ Deleted
  BY DEF Init, FlightNeeded, Deleted, Writing
<1>4. QED
  BY <1>1, <1>2, <1>3 DEF AccountInv

LEMMA AccountStep == AccountInv /\ [Next]_vars => AccountInv'
<1>1. ASSUME AccountInv, Next PROVE AccountInv'
  <2>1. CASE \E r \in Requests : Request(r)
    BY <1>1, <2>1, RequestInv
  <2>2. CASE \E t \in Refreshers : Refresh(t)
    BY <1>1, <2>2, RefreshInv
  <2>3. CASE \E d \in Admins : Administer(d)
    BY <1>1, <2>3, AdministerInv
  <2>4. CASE FlightReads \/ FlightLands \/ FlightFails
    BY <1>1, <2>4, FlightReadsInv, FlightLandsInv, FlightFailsInv
  <2>5. CASE CacheExpires \/ \E m \in Marks : CooldownEnds(m)
    BY <1>1, <2>5, TimeInv
  <2>6. QED
    BY <1>1, <2>1, <2>2, <2>3, <2>4, <2>5 DEF Next
<1>2. QED
  BY <1>1, StutterInv

\* The availability of an account, its copies and who works on them are as AccountInv
\* says in every state.
THEOREM AccountInvariant == Spec => []AccountInv
BY AccountStart, AccountStep, PTL DEF Spec

-----------------------------------------------------------------------------
(* What the deletion of an account promises. *)

\* A deleted account comes back only through an UpdateAccount that had found it before
\* the deletion: the test of the record in UpdateAccount stops every later one.
THEOREM RevivalCorrect == Spec => RevivedOnlyByOverlap
<1>. DEFINE Revived == \A a \in Actors : record = NoRecord /\ record' # NoRecord /\ pc[a] = "put" /\ pc'[a] # "put"
                                           => a \in overlaps
<1>1. AccountInv /\ [Next]_vars => [Revived]_vars
  BY DEF AccountInv, Deleted, Writing
<1>2. QED
  BY <1>1, AccountInvariant, PTL DEF Spec, RevivedOnlyByOverlap

\* Who may select the account: a request that takes the cached list, or one that waits for
\* the read of it.
LEMMA ToOther ==
  ASSUME NEW a, NEW to, pc' = [pc EXCEPT ![a] = to], to # "checking"
  PROVE  \A r \in Actors : pc \in [Actors -> Places] /\ pc'[r] = "checking" => pc[r] = "checking"
OBVIOUS

LEMMA ActorSelects ==
  ASSUME AccountInv, NEW a \in Actors,
         \/ JoinFlight(a) \/ Available(a) \/ Unavailable(a) \/ TakenAnyway(a) \/ CooledDown(a) \/ Clear(a)
         \/ EndCall(a) \/ (\E m \in Marks : Mark(a, m)) \/ Update(a) \/ Snapshot(a) \/ RefreshOK(a) \/ RefreshSkips(a)
         \/ Delete(a) \/ (\E m \in Marks : Check(a, "blocked", m)) \/ Check(a, "ok", NoMark)
         \/ (\E enabled, again \in BOOLEAN : Edit(a, enabled, again)),
         NEW r \in Requests, pc'[r] = "checking"
  PROVE  pc[r] = "checking"
<1>1. r \in Actors /\ pc \in [Actors -> Places] /\ next[a] # "checking"
  BY DEF Actors, AccountInv, TypeOK
<1>2. CASE \E to : to # "checking" /\ pc' = [pc EXCEPT ![a] = to]
  BY <1>1, <1>2, ToOther
<1>3. CASE UNCHANGED pc
  BY <1>3
<1>4. CASE Update(a)
  <2>1. CASE Get(a) \/ CopyStatus(a) \/ CopyTimes(a)
    BY <1>2, <2>1 DEF Get, CopyStatus, CopyTimes, Goto
  <2>2. CASE NotFound(a) \/ UpdateFails(a) \/ Put(a)
    BY <1>1, <1>2, <2>2 DEF NotFound, UpdateFails, Put, Done
  <2>3. QED
    BY <1>4, <2>1, <2>2 DEF Update
<1>5. CASE \/ JoinFlight(a) \/ Available(a) \/ Unavailable(a) \/ TakenAnyway(a) \/ CooledDown(a)
           \/ Clear(a) \/ EndCall(a)
  BY <1>2, <1>5 DEF JoinFlight, Available, Unavailable, TakenAnyway, CooledDown, Clear, EndCall, Goto
<1>6. CASE (\E m \in Marks : Mark(a, m)) \/ Snapshot(a) \/ RefreshOK(a) \/ RefreshSkips(a) \/ Delete(a)
  BY <1>2, <1>3, <1>6 DEF Mark, Snapshot, RefreshOK, RefreshSkips, Delete, Goto
<1>7. CASE \/ (\E m \in Marks : Check(a, "blocked", m)) \/ Check(a, "ok", NoMark)
           \/ (\E enabled, again \in BOOLEAN : Edit(a, enabled, again))
  BY <1>2, <1>7 DEF Check, Edit, Goto
<1>8. QED
  BY <1>4, <1>5, <1>6, <1>7

LEMMA Selects ==
  ASSUME AccountInv, [Next]_vars, NEW r \in Requests, pc[r] # "checking", pc'[r] = "checking"
  PROVE  gone # "expired"
<1>1. CASE TakeList(r)
  BY <1>1 DEF TakeList, Usable, AccountInv, Deleted
<1>2. CASE \E a \in Requests \ {r} : TakeList(a)
  BY <1>2 DEF TakeList, Goto, AccountInv, TypeOK, Actors
<1>3. CASE FlightLands
  <2>1. r \in Actors
    BY DEF Actors
  <2>2. flight.phase = "read" /\ flight.object # NoObject
    BY <1>3, <2>1 DEF FlightLands
  <2>3. QED
    BY <2>2 DEF AccountInv, Deleted
<1>4. CASE \/ FlightReads \/ FlightFails \/ CacheExpires \/ (\E m \in Marks : CooldownEnds(m))
           \/ UNCHANGED vars
  BY <1>4 DEF FlightReads, FlightFails, CacheExpires, CooldownEnds, vars, AccountInv, TypeOK, Actors
<1>5. CASE \E a \in Requests : Request(a) /\ ~TakeList(a)
  BY <1>5, ActorSelects DEF Request, Actors
<1>6. CASE \E t \in Refreshers : Refresh(t)
  BY <1>6, ActorSelects DEF Refresh, Actors
<1>7. CASE \E d \in Admins : Administer(d)
  BY <1>7, ActorSelects DEF Administer, Actors
<1>8. QED
  BY <1>1, <1>2, <1>3, <1>4, <1>5, <1>6, <1>7 DEF Next

\* One list at most is left that has a deleted account, the one cached at the time or the
\* one of the read that had found it before; once that has expired, and at once if there
\* is neither, no request selects the account.
THEOREM SelectionCorrect == Spec => NotSelectedOnceExpired
<1>. DEFINE Selected == \A r \in Requests : pc[r] # "checking" /\ pc'[r] = "checking" => gone # "expired"
<1>1. AccountInv /\ [Next]_vars => [Selected]_vars
  BY Selects
<1>2. QED
  BY <1>1, AccountInvariant, PTL DEF Spec, NotSelectedOnceExpired
=============================================================================
