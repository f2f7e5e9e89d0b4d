--------------------------- MODULE Records_proofs ----------------------------
(***************************************************************************)
(* Proofs about the records that the administration keeps, for any number  *)
(* of clients, models and keys: every model that the list shows is found   *)
(* under its channel and its name (ModelRecords), and the list of keys and *)
(* the index of their hashes agree (ApiKeys).                              *)
(***************************************************************************)
EXTENDS ModelRecords, ApiKeys, FiniteSetTheorems, SequenceTheorems, WellFoundedInduction, TLAPS

-----------------------------------------------------------------------------
(* Sets of numbers in order. *)

Less == {p \in Nat \X Nat : p[1] < p[2]}

LEMMA Least == ASSUME NEW T, T \subseteq Nat, T # {} PROVE \E x \in T : \A y \in T : x <= y
<1>1. IsWellFoundedOn(Less, Nat)
  BY NatLessThanWellFounded DEF OpToRel, Less
<1>2. PICK x \in T : \A y \in T : <<y, x>> \notin Less
  BY <1>1, WFMin, Zenon
<1>3. ASSUME NEW y \in T PROVE x <= y
  <2>1. x \in Nat /\ y \in Nat
    OBVIOUS
  <2>2. ~(y < x)
    BY <1>2, <2>1 DEF Less
  <2>3. QED
    BY <2>1, <2>2
<1>4. QED
  BY <1>3

Enumerates(s, S) ==
  s \in [1..Cardinality(S) -> S] /\ \A i, j \in DOMAIN s : i < j => s[i] < s[j]

\* A smallest set without an enumeration would be one element away from a set that has one.
LEMMA EnumerationExists == ASSUME NEW S, S \subseteq Nat, IsFiniteSet(S) PROVE \E s : Enumerates(s, S)
<1>. DEFINE Bad == {k \in Nat : \E T \in SUBSET Nat : /\ IsFiniteSet(T) /\ Cardinality(T) = k
                                                      /\ ~\E s : Enumerates(s, T)}
<1>1. SUFFICES ASSUME Bad # {} PROVE FALSE
  BY FS_CardinalityType
<1>2. PICK k \in Bad : \A j \in Bad : k <= j
  BY <1>1, Least
<1>3. PICK T \in SUBSET Nat : IsFiniteSet(T) /\ Cardinality(T) = k /\ ~\E s : Enumerates(s, T)
  BY <1>2
<1>4. T # {}
  <2>1. Enumerates([i \in 1..0 |-> 0], {})
    BY FS_EmptySet DEF Enumerates
  <2>2. QED
    BY <1>3, <2>1
<1>5. PICK x \in T : \A y \in T : x <= y
  BY <1>4, Least
<1>. DEFINE R == T \ {x}
<1>6. IsFiniteSet(R) /\ Cardinality(R) = k - 1 /\ k \in Nat /\ k # 0 /\ R \in SUBSET Nat
  BY <1>3, <1>4, FS_RemoveElement, FS_EmptySet
<1>7. PICK s : Enumerates(s, R)
  <2>1. k - 1 \in Nat /\ ~(k <= k - 1)
    BY <1>6
  <2>2. k - 1 \notin Bad
    BY <1>2, <2>1
  <2>3. QED
    BY <1>6, <2>1, <2>2
<1>. DEFINE t == [i \in 1..k |-> IF i = 1 THEN x ELSE s[i - 1]]
<1>8. ASSUME NEW i \in 1..k, i # 1 PROVE i - 1 \in 1..(k - 1) /\ s[i - 1] \in R
  <2>1. i - 1 \in 1..(k - 1)
    BY <1>6, <1>8
  <2>2. s \in [1..(k - 1) -> R]
    BY <1>6, <1>7 DEF Enumerates
  <2>. HIDE DEF R
  <2>3. QED
    BY <2>1, <2>2
<1>9. t \in [1..k -> T]
  BY <1>8
<1>10. ASSUME NEW i \in 1..k, NEW j \in 1..k, i < j PROVE t[i] < t[j]
  <2>1. j # 1 /\ t[j] = s[j - 1] /\ j - 1 \in 1..(k - 1) /\ s[j - 1] \in R
    BY <1>8, <1>10
  <2>2. CASE i = 1
    <3>1. x <= s[j - 1] /\ x # s[j - 1] /\ x \in Nat /\ s[j - 1] \in Nat
      BY <1>5, <2>1
    <3>2. QED
      BY <2>1, <2>2, <3>1
  <2>3. CASE i # 1
    <3>1. t[i] = s[i - 1] /\ i - 1 \in 1..(k - 1) /\ i - 1 < j - 1
      BY <1>8, <1>10, <2>3
    <3>2. s[i - 1] < s[j - 1]
      BY <1>6, <1>7, <2>1, <3>1 DEF Enumerates
    <3>3. QED
      BY <2>1, <3>1, <3>2
  <2>4. QED
    BY <2>2, <2>3
<1>11. Enumerates(t, T)
  BY <1>3, <1>9, <1>10 DEF Enumerates
<1>12. QED
  BY <1>3, <1>11

LEMMA Ascends == ASSUME NEW S, S \subseteq Nat, IsFiniteSet(S) PROVE Enumerates(Ascending(S), S)
<1>1. PICK s : Enumerates(s, S)
  BY EnumerationExists
<1>2. QED
  BY <1>1 DEF Enumerates, Ascending

\* A part of a sequence, in the same order.
LEMMA Picked ==
  ASSUME NEW S, NEW s \in Seq(S), NEW D, D \subseteq DOMAIN s
  PROVE  [i \in DOMAIN Ascending(D) |-> s[Ascending(D)[i]]] \in Seq(S)
<1>1. Len(s) \in Nat /\ DOMAIN s = 1..Len(s) /\ s \in [1..Len(s) -> S]
  OBVIOUS
<1>2. IsFiniteSet(D) /\ Cardinality(D) \in Nat /\ D \subseteq Nat
  <2>1. IsFiniteSet(1..Len(s)) /\ D \in SUBSET (1..Len(s))
    BY <1>1, FS_Interval
  <2>2. QED
    BY <2>1, FS_Subset, FS_CardinalityType
<1>3. Ascending(D) \in [1..Cardinality(D) -> D]
  BY <1>2, Ascends DEF Enumerates
<1>. DEFINE a == Ascending(D)
            k == Cardinality(D)
<1>. HIDE DEF a, k
<1>4. [i \in 1..k |-> s[a[i]]] \in [1..k -> S]
  BY <1>1, <1>3 DEF a, k
<1>5. [i \in 1..k |-> s[a[i]]] \in Seq(S)
  BY <1>2, <1>4 DEF k
<1>6. QED
  BY <1>3, <1>5 DEF a, k

LEMMA InOrderIs ==
  ASSUME NEW M, M \subseteq Model
  PROVE  InOrder(M) \in Seq(M) /\ (M # {} => 1 \in DOMAIN InOrder(M))
<1>. DEFINE ids == {m.id : m \in M}
            a == Ascending(ids)
            k == Cardinality(ids)
<1>1. ids \subseteq IDs /\ ids \subseteq Nat
  BY DEF Model, IDs
<1>2. IsFiniteSet(ids) /\ k \in Nat /\ (k = 0 <=> ids = {})
  <2>1. IsFiniteSet(IDs)
    BY ModelRecordsAssumption, FS_Interval DEF IDs
  <2>2. QED
    BY <1>1, <2>1, FS_Subset, FS_CardinalityType, FS_EmptySet
<1>3. a \in [1..k -> ids]
  BY <1>1, <1>2, Ascends DEF Enumerates
<1>4. InOrder(M) = [i \in 1..k |-> CHOOSE m \in M : m.id = a[i]]
  BY <1>3 DEF InOrder
<1>5. ASSUME NEW i \in 1..k PROVE (CHOOSE m \in M : m.id = a[i]) \in M
  <2>1. PICK m \in M : m.id = a[i]
    BY <1>3
  <2>2. QED
    BY <2>1
<1>6. M # {} => k # 0
  BY <1>2
<1>. HIDE DEF a, k, ids
<1>7. InOrder(M) \in [1..k -> M]
  BY <1>4, <1>5
<1>8. QED
  BY <1>2, <1>6, <1>7

-----------------------------------------------------------------------------
(* The invariant. *)

\* A call to the store names a number that was given out, but for one that creates.
Call ==
  [op : {"create"}, model : [id : {0}, channel : Channels, name : Names, isDefault : BOOLEAN,
                             status : Statuses \cup {"available"}], ready : BOOLEAN]
  \cup [op : {"update"}, model : {m \in Model : m.id <= nextID}, ready : BOOLEAN]
  \cup [op : {"delete"}, model : [id : 1..nextID], ready : BOOLEAN]

Keyed == Range(ChannelKey) \X Names
Look == [prev : Model \cup {NoModelRecord}, owner : 0..MaxID, known : BOOLEAN]
Fix == [index : {"name"}, at : Names, id : IDs] \cup [index : {"channel"}, at : Keyed, id : IDs]

RecordsTypeOK ==
  /\ records \in [IDs -> Model \cup {NoModelRecord}] /\ listed \subseteq IDs
  /\ byName \in [Names -> 0..MaxID] /\ byChannel \in [Keyed -> 0..MaxID]
  /\ nextID \in 0..MaxID
  /\ work \in [Clients -> Seq(Call)] /\ looked \in [Clients -> Look \cup {NoLook}]
  /\ repair \in Fix \cup {NoLook}
  /\ modelsCrossed \in BOOLEAN

\* A record is kept under its number, which has been given out, and is in the list.
Numbered ==
  \A i \in IDs : records[i] # NoModelRecord => records[i].id = i /\ i \in listed /\ i <= nextID

Looking(c) == looked[c] # NoLook
Target(c) == Head(work[c]).model.id

\* Who has looked is about to write.
Aiming == \A c \in Clients : Looking(c) => Doing(c, "update") \/ Doing(c, "delete")

ByChannelExact == \A k \in Keyed : byChannel[k] # 0 =>
                    records[byChannel[k]] # NoModelRecord /\ At(records[byChannel[k]]) = k
ByNameExact == \A n \in Names \ renamed : byName[n] # 0 =>
                 records[byName[n]] # NoModelRecord /\ records[byName[n]].name = n

\* Nobody else is at the record that a client has looked at.
Alone ==
  /\ \A c, d \in Clients : Looking(c) /\ Looking(d) /\ Target(c) = Target(d) => c = d
  /\ \A c \in Clients : Looking(c) /\ repair # NoLook => repair.id # Target(c)

\* What a client has seen is still so, and once it knows the owner, a name that is the
\* record's was so when it looked.
Fresh(c) ==
  /\ looked[c].prev = records[Target(c)]
  /\ /\ looked[c].known /\ looked[c].prev # NoModelRecord /\ Head(work[c]).op = "delete"
     /\ byName[looked[c].prev.name] = Target(c)
     => looked[c].owner = Target(c)

Repairable ==
  repair # NoLook =>
    /\ records[repair.id] # NoModelRecord
    /\ repair.at = IF repair.index = "name" THEN records[repair.id].name ELSE At(records[repair.id])

Undisturbed ==
  /\ ByChannelExact /\ ByNameExact /\ Alone /\ Repairable
  /\ \A c \in Clients : Looking(c) => Fresh(c)

RecordsInv == RecordsTypeOK /\ Numbered /\ Aiming /\ (~modelsCrossed => Undisturbed)

-----------------------------------------------------------------------------
(* The first records. *)

LEMMA LeastIs == ASSUME NEW T, T \subseteq Nat, T # {} PROVE Min(T) \in T
  BY Least DEF Min

LEMMA GreatestIs == ASSUME NEW n \in Nat, NEW T, T \subseteq 1..n, T # {} PROVE Max(T) \in T
<1>. DEFINE R == {n - i : i \in T}
<1>1. R \subseteq Nat /\ R # {}
  <2>1. ASSUME NEW i \in T PROVE n - i \in Nat
    OBVIOUS
  <2>2. PICK i : i \in T
    OBVIOUS
  <2>3. QED
    BY <2>1, <2>2
<1>2. PICK x \in R : \A y \in R : x <= y
  BY <1>1, Least
<1>3. PICK z \in T : x = n - z
  BY <1>2
<1>4. \A y \in T : z >= y
  BY <1>2, <1>3
<1>5. QED
  BY <1>3, <1>4 DEF Max

LEMMA AtIsKeyed == \A m \in Model : At(m) \in Keyed /\ At(m)[1] = ChannelKey[m.channel] /\ At(m)[2] = m.name
  BY ModelRecordsAssumption DEF Model, At, Keyed, Range

LEMMA RecordsStart == RecordsInit => RecordsInv
<1>. SUFFICES ASSUME RecordsInit PROVE RecordsInv
  OBVIOUS
<1>. USE ModelRecordsAssumption
<1>1. Len(Seeds) \in Nat /\ DOMAIN Seeds = 1..Len(Seeds) /\ DOMAIN Seeds \subseteq IDs
  BY DEF IDs
<1>2. ASSUME NEW i \in DOMAIN Seeds PROVE Seeds[i] \in Names
  OBVIOUS
<1>. DEFINE first(i) == [id |-> i, channel |-> "Puter", name |-> Seeds[i], isDefault |-> i = 1, status |-> "available"]
<1>3. ASSUME NEW i \in DOMAIN Seeds PROVE first(i) \in Model /\ records[i] = first(i) /\ first(i) # NoModelRecord
  <2>1. first(i) \in Model
    BY <1>1, <1>2 DEF Model
  <2>2. records[i] = first(i)
    BY <1>1, Zenon DEF RecordsInit
  <2>3. QED
    BY <2>1, <2>2, Zenon
<1>4. ASSUME NEW i \in IDs PROVE records[i] = IF i \in DOMAIN Seeds THEN first(i) ELSE NoModelRecord
  BY Zenon DEF RecordsInit
<1>5. records \in [IDs -> Model \cup {NoModelRecord}]
  BY <1>3, <1>4 DEF RecordsInit
<1>6. Numbered
  BY <1>1, <1>3, <1>4 DEF RecordsInit, Numbered
<1>7. ASSUME NEW n \in Names, n \in ToSet(Seeds)
      PROVE  LET T == {i \in DOMAIN Seeds : Seeds[i] = n}
             IN  Min(T) \in DOMAIN Seeds /\ Seeds[Min(T)] = n /\ Max(T) \in DOMAIN Seeds /\ Seeds[Max(T)] = n
  <2>. DEFINE T == {i \in DOMAIN Seeds : Seeds[i] = n}
  <2>1. T # {} /\ T \subseteq Nat /\ T \subseteq 1..Len(Seeds)
    BY <1>1, <1>7 DEF ToSet
  <2>2. Min(T) \in T /\ Max(T) \in T
    <3>. HIDE DEF T
    <3>1. QED
      BY <1>1, <2>1, LeastIs, GreatestIs
  <2>3. QED
    BY <2>2
<1>8. ASSUME NEW n \in Names
      PROVE  byName[n] \in 0..MaxID /\ (byName[n] # 0 => byName[n] \in DOMAIN Seeds /\ Seeds[byName[n]] = n)
  BY <1>1, <1>7, <1>8 DEF RecordsInit, IDs
<1>9. ASSUME NEW k \in Keyed
      PROVE  byChannel[k] \in 0..MaxID
             /\ (byChannel[k] # 0 => /\ byChannel[k] \in DOMAIN Seeds /\ Seeds[byChannel[k]] = k[2]
                                     /\ k[1] = ChannelKey["Puter"])
  <2>1. k[2] \in Names /\ k \in Range(ChannelKey) \X Names
    BY DEF Keyed
  <2>2. byChannel[k] = IF k[1] = ChannelKey["Puter"] /\ k[2] \in ToSet(Seeds)
                       THEN Max({i \in DOMAIN Seeds : Seeds[i] = k[2]}) ELSE 0
    BY <2>1 DEF RecordsInit
  <2>3. QED
    <3>. DEFINE T == {i \in DOMAIN Seeds : Seeds[i] = k[2]}
    <3>1. k[2] \in ToSet(Seeds) => Max(T) \in DOMAIN Seeds /\ Seeds[Max(T)] = k[2]
      BY <1>7, <2>1
    <3>. HIDE DEF T
    <3>2. QED
      BY <1>1, <2>2, <3>1 DEF IDs, T
<1>10. RecordsTypeOK
  <2>1. work \in [Clients -> Seq(Call)]
    BY EmptySeq DEF RecordsInit
  <2>2. byName \in [Names -> 0..MaxID]
    BY <1>8 DEF RecordsInit
  <2>3. byChannel \in [Keyed -> 0..MaxID]
    BY <1>9 DEF RecordsInit, Keyed
  <2>4. looked \in [Clients -> Look \cup {NoLook}]
    BY DEF RecordsInit
  <2>5. nextID \in 0..MaxID /\ listed \subseteq IDs
    BY <1>1 DEF RecordsInit
  <2>6. repair \in Fix \cup {NoLook} /\ modelsCrossed \in BOOLEAN
    BY DEF RecordsInit
  <2>7. QED
    BY <1>5, <2>1, <2>2, <2>3, <2>4, <2>5, <2>6, Zenon DEF RecordsTypeOK
<1>11. \A c \in Clients : ~Looking(c)
  BY DEF RecordsInit, Looking
<1>12. ByChannelExact
  <2>1. ASSUME NEW k \in Keyed, byChannel[k] # 0 PROVE records[byChannel[k]] # NoModelRecord /\ At(records[byChannel[k]]) = k
    <3>. DEFINE i == byChannel[k]
    <3>1. i \in DOMAIN Seeds /\ Seeds[i] = k[2] /\ k[1] = ChannelKey["Puter"]
      BY <1>9, <2>1
    <3>2. records[i] = first(i) /\ records[i] # NoModelRecord
      BY <1>3, <3>1
    <3>3. k = <<k[1], k[2]>>
      BY DEF Keyed
    <3>. HIDE DEF i
    <3>4. At(first(i)) = <<ChannelKey["Puter"], Seeds[i]>>
      BY DEF At
    <3>5. QED
      BY <3>1, <3>2, <3>3, <3>4 DEF i
  <2>2. QED
    BY <2>1 DEF ByChannelExact
<1>13. ByNameExact
  <2>1. ASSUME NEW n \in Names, byName[n] # 0 PROVE records[byName[n]] # NoModelRecord /\ records[byName[n]].name = n
    <3>1. byName[n] \in DOMAIN Seeds /\ Seeds[byName[n]] = n
      BY <1>8, <2>1
    <3>2. records[byName[n]] = first(byName[n]) /\ records[byName[n]] # NoModelRecord
      BY <1>3, <3>1
    <3>3. QED
      BY <3>1, <3>2
  <2>2. QED
    BY <2>1, Zenon DEF ByNameExact
<1>14. QED
  BY <1>6, <1>10, <1>11, <1>12, <1>13 DEF RecordsInv, Undisturbed, Aiming, Alone, Repairable, RecordsInit

-----------------------------------------------------------------------------
(* Work that is begun or reordered. *)

LEMMA ListedIs ==
  ASSUME RecordsInv, NEW m \in ListModels
  PROVE  m \in Model /\ m # NoModelRecord /\ m.id \in listed /\ m.id \in IDs /\ records[m.id] = m /\ m.id <= nextID
<1>1. PICK i \in listed : records[i] # NoModelRecord /\ m = records[i]
  BY DEF ListModels
<1>2. i \in IDs /\ records[i] \in Model \cup {NoModelRecord}
  BY <1>1 DEF RecordsInv, RecordsTypeOK
<1>3. records[i].id = i /\ i <= nextID
  BY <1>1, <1>2 DEF RecordsInv, Numbered
<1>4. QED
  BY <1>1, <1>2, <1>3

LEMMA WorkChanges ==
  ASSUME RecordsInv, NEW c \in Clients, NEW w \in Seq(Call), ~Looking(c), work' = [work EXCEPT ![c] = w],
         UNCHANGED <<records, listed, byName, byChannel, nextID, looked, repair, modelsCrossed, renamed>>
  PROVE  RecordsInv'
<1>1. RecordsTypeOK'
  <2>1. work' \in [Clients -> Seq(Call)]
    BY DEF RecordsInv, RecordsTypeOK
  <2>2. Call' = Call
    BY DEF Call
  <2>3. QED
    BY <2>1, <2>2 DEF RecordsInv, RecordsTypeOK
<1>2. Numbered'
  BY DEF RecordsInv, Numbered
<1>3. ASSUME NEW d \in Clients, Looking(d)' PROVE d # c /\ Looking(d) /\ work'[d] = work[d] /\ looked'[d] = looked[d]
  <2>1. Looking(d) /\ looked'[d] = looked[d]
    BY <1>3 DEF Looking
  <2>2. d # c
    BY <2>1
  <2>3. work'[d] = work[d]
    BY <2>2 DEF RecordsInv, RecordsTypeOK
  <2>4. QED
    BY <2>1, <2>2, <2>3
<1>4. Aiming'
  BY <1>3, Zenon DEF RecordsInv, Aiming, Doing
<1>5. ASSUME ~modelsCrossed PROVE Undisturbed'
  <2>1. Undisturbed
    BY <1>5 DEF RecordsInv
  <2>2. ByChannelExact' /\ ByNameExact' /\ Repairable'
    BY <2>1 DEF Undisturbed, ByChannelExact, ByNameExact, Repairable, At
  <2>3. Alone'
    BY <1>3, <2>1, Zenon DEF Undisturbed, Alone, Target
  <2>4. ASSUME NEW d \in Clients, Looking(d)' PROVE Fresh(d)'
    BY <1>3, <2>1, <2>4 DEF Undisturbed, Fresh, Target
  <2>5. QED
    BY <2>2, <2>3, <2>4, Zenon DEF Undisturbed
<1>6. QED
  BY <1>1, <1>2, <1>4, <1>5 DEF RecordsInv

\* Who begins anew, or has not found out whom to tell first, has not looked.
LEMMA NotLooking ==
  ASSUME RecordsInv, NEW c \in Clients, work[c] = <<>> \/ ~Head(work[c]).ready
  PROVE  ~Looking(c)
  BY Zenon DEF RecordsInv, Aiming, Doing

LEMMA Begins ==
  ASSUME RecordsInv, NEW c \in Clients, NEW calls \in Seq(Call), Begin(c, calls)
  PROVE  RecordsInv'
<1>1. ~Looking(c)
  BY NotLooking DEF Begin
<1>2. QED
  BY <1>1, WorkChanges DEF Begin

\* What is handed to the store.
Text(channel, name, isDefault, status) ==
  channel \in Channels /\ name \in Names /\ isDefault \in BOOLEAN /\ status \in Statuses \cup {"available"}

LEMMA CreateCall ==
  ASSUME NEW channel, NEW name, NEW isDefault, NEW status, Text(channel, name, isDefault, status)
  PROVE  StoreCall("create", [id |-> 0, channel |-> channel, name |-> name, isDefault |-> isDefault, status |-> status]) \in Call
  BY DEF Text, StoreCall, Call

LEMMA UpdateCall ==
  ASSUME NEW model \in Model, model.id <= nextID
  PROVE  StoreCall("update", model) \in Call
  BY DEF StoreCall, Call, Model

LEMMA DeleteCall == ASSUME NEW id \in 1..nextID PROVE StoreCall("delete", [id |-> id]) \in Call
  BY DEF StoreCall, Call

LEMMA Administered ==
  ASSUME RecordsInv, NEW c \in Clients, NEW channel, NEW name, NEW isDefault, NEW status,
         Text(channel, name, isDefault, status),
         \/ HandleModels(c, channel, name, isDefault, status)
         \/ \E id \in 1..nextID : HandleModelPut(c, id, channel, name, isDefault, status)
  PROVE  RecordsInv'
<1>1. ASSUME NEW call \in Call, Begin(c, <<call>>) PROVE RecordsInv'
  <2>1. <<call>> \in Seq(Call)
    OBVIOUS
  <2>2. QED
    BY <1>1, <2>1, Begins
<1>2. CASE HandleModels(c, channel, name, isDefault, status)
  BY <1>1, <1>2, CreateCall DEF HandleModels
<1>3. ASSUME NEW id \in 1..nextID, HandleModelPut(c, id, channel, name, isDefault, status) PROVE RecordsInv'
  <2>. DEFINE model == [id |-> id, channel |-> channel, name |-> name, isDefault |-> isDefault, status |-> status]
  <2>1. nextID \in 0..MaxID /\ MaxID \in Nat
    BY ModelRecordsAssumption DEF RecordsInv, RecordsTypeOK
  <2>2. model \in Model /\ model.id <= nextID
    BY <2>1 DEF Text, Model, IDs
  <2>3. StoreCall("update", model) \in Call
    <3>. HIDE DEF model
    <3>1. QED
      BY <2>2, UpdateCall
  <2>4. QED
    BY <1>1, <1>3, <2>3 DEF HandleModelPut
<1>4. QED
  BY <1>2, <1>3

LEMMA DiscoveredAreNames ==
  ASSUME NEW channel, NEW choices \in Offers, NEW answers, NEW accounts
  PROVE  discoverModelsForChannelConcurrent(channel, choices, answers, accounts) \in Seq(Names)
<1>1. choices \in Seq(Names) /\ <<>> \in Seq(Names)
  BY ModelRecordsAssumption
<1>. DEFINE verified == {i \in DOMAIN choices : "ok" \in answers[choices[i]]}
<1>2. [i \in DOMAIN Ascending(verified) |-> choices[Ascending(verified)[i]]] \in Seq(Names)
  BY <1>1, Picked
<1>3. verifyPuterDiscoveredModelsConcurrent(choices, answers) \in Seq(Names)
  BY <1>2 DEF verifyPuterDiscoveredModelsConcurrent, Only
<1>4. discoverPuterModelsConcurrent(choices, answers, accounts) \in Seq(Names)
  BY <1>1, <1>3, Zenon DEF discoverPuterModelsConcurrent
<1>5. QED
  BY <1>1, <1>4, Zenon DEF discoverModelsForChannelConcurrent, discoverKimchiModels

LEMMA Refreshed ==
  ASSUME RecordsInv, NEW c \in Clients, NEW channel \in Channels, NEW choices \in Offers, NEW answers, NEW accounts,
         syncModelsForChannelConcurrent(c, channel, choices, answers, accounts)
  PROVE  RecordsInv'
<1>. DEFINE found == discoverModelsForChannelConcurrent(channel, choices, answers, accounts)
            new == {i \in DOMAIN found : \A m \in ExistingByID(channel) : m.name # found[i]}
            missing == [i \in DOMAIN Ascending(new) |-> found[Ascending(new)[i]]]
            call(i) == StoreCall("create", [id |-> 0, channel |-> channel, name |-> missing[i], status |-> "available",
                                            isDefault |-> missing[i] = chooseRefreshedDefaultModel(channel, found)])
            calls == [i \in DOMAIN missing |-> call(i)]
<1>1. found \in Seq(Names)
  BY DiscoveredAreNames
<1>2. missing \in Seq(Names)
  <2>. HIDE DEF found
  <2>1. QED
    BY <1>1, Picked
<1>3. ASSUME NEW i \in DOMAIN missing PROVE call(i) \in Call
  <2>. HIDE DEF missing, found
  <2>1. missing[i] \in Names
    BY <1>2
  <2>2. QED
    BY <2>1 DEF StoreCall, Call
<1>4. calls \in Seq(Call)
  <2>. HIDE DEF missing, call
  <2>1. Len(missing) \in Nat /\ DOMAIN missing = 1..Len(missing)
    BY <1>2
  <2>2. calls \in [1..Len(missing) -> Call]
    BY <1>3, <2>1
  <2>3. QED
    BY <2>1, <2>2
<1>5. Begin(c, calls)
  BY Zenon DEF syncModelsForChannelConcurrent, applyModelRefresh, Only
<1>6. QED
  <2>. HIDE DEF calls
  <2>1. QED
    BY <1>4, <1>5, Begins

LEMMA Cleared ==
  ASSUME RecordsInv, NEW c \in Clients, ClearDefaults(c)
  PROVE  RecordsInv'
<1>. DEFINE call   == Head(work[c])
            others == {m \in ListModels : m.channel = call.model.channel /\ m.isDefault
                                            /\ (call.op = "update" => m.id # call.model.id)}
            clear  == [i \in DOMAIN InOrder(others) |-> StoreCall("update", [InOrder(others)[i] EXCEPT !.isDefault = FALSE])]
            told   == <<[call EXCEPT !.ready = TRUE]>>
            w      == clear \o told \o Tail(work[c])
<1>1. work[c] \in Seq(Call) /\ work[c] # <<>>
  BY DEF RecordsInv, RecordsTypeOK, ClearDefaults
<1>2. call \in Call /\ Tail(work[c]) \in Seq(Call)
  BY <1>1, HeadTailProperties
<1>3. told \in Seq(Call)
  <2>. HIDE DEF call
  <2>1. [call EXCEPT !.ready = TRUE] \in Call
    BY <1>2 DEF Call
  <2>2. QED
    BY <2>1
<1>4. others \subseteq Model /\ \A m \in others : m \in Model /\ m.id <= nextID
  BY ListedIs
<1>5. clear \in Seq(Call)
  <2>. HIDE DEF others
  <2>1. InOrder(others) \in Seq(others)
    BY <1>4, InOrderIs
  <2>. DEFINE s == InOrder(others)
  <2>. HIDE DEF s
  <2>2. Len(s) \in Nat /\ DOMAIN s = 1..Len(s) /\ \A i \in DOMAIN s : s[i] \in others
    BY <2>1 DEF s
  <2>3. ASSUME NEW i \in DOMAIN s PROVE StoreCall("update", [s[i] EXCEPT !.isDefault = FALSE]) \in Call
    <3>1. s[i] \in Model /\ s[i].id <= nextID
      BY <1>4, <2>2
    <3>2. [s[i] EXCEPT !.isDefault = FALSE] \in Model /\ [s[i] EXCEPT !.isDefault = FALSE].id <= nextID
      BY <3>1 DEF Model
    <3>3. QED
      BY <3>2, UpdateCall
  <2>4. [i \in DOMAIN s |-> StoreCall("update", [s[i] EXCEPT !.isDefault = FALSE])] \in [1..Len(s) -> Call]
    BY <2>2, <2>3
  <2>5. [i \in DOMAIN s |-> StoreCall("update", [s[i] EXCEPT !.isDefault = FALSE])] \in Seq(Call)
    BY <2>2, <2>4
  <2>6. QED
    BY <2>5 DEF s
<1>6. w \in Seq(Call)
  <2>. HIDE DEF clear, told
  <2>1. clear \o told \in Seq(Call)
    BY <1>3, <1>5, ConcatProperties
  <2>2. QED
    BY <1>2, <2>1, ConcatProperties
<1>7. ~Looking(c)
  BY NotLooking DEF ClearDefaults
<1>8. work' = [work EXCEPT ![c] = w]
  BY Zenon DEF ClearDefaults
<1>9. QED
  <2>. HIDE DEF w
  <2>1. QED
    BY <1>6, <1>7, <1>8, WorkChanges DEF ClearDefaults

-----------------------------------------------------------------------------
(* Calls to the store. *)

LEMMA CallIs ==
  ASSUME RecordsInv, NEW c \in Clients, work[c] # <<>>
  PROVE  /\ Head(work[c]) \in Call /\ Tail(work[c]) \in Seq(Call)
         /\ Head(work[c]).op \in {"update", "delete"} => Target(c) \in IDs /\ Target(c) <= nextID
         /\ Head(work[c]).op = "update" => Head(work[c]).model \in Model
         /\ Head(work[c]).op = "create" =>
              Head(work[c]).model \in [id : {0}, channel : Channels, name : Names, isDefault : BOOLEAN,
                                       status : Statuses \cup {"available"}]
<1>1. work[c] \in Seq(Call) /\ nextID \in 0..MaxID /\ MaxID \in Nat
  BY ModelRecordsAssumption DEF RecordsInv, RecordsTypeOK
<1>2. Head(work[c]) \in Call /\ Tail(work[c]) \in Seq(Call)
  BY <1>1, HeadTailProperties
<1>3. QED
  BY <1>1, <1>2 DEF Call, Target, IDs, Model

\* One who looks is at a record that was given out.
LEMMA LookingAt ==
  ASSUME RecordsInv, NEW c \in Clients, Looking(c)
  PROVE  work[c] # <<>> /\ Target(c) \in IDs /\ Target(c) <= nextID /\ Head(work[c]).op \in {"update", "delete"}
<1>1. work[c] # <<>> /\ Head(work[c]).op \in {"update", "delete"}
  BY Zenon DEF RecordsInv, Aiming, Doing
<1>2. QED
  BY <1>1, CallIs

\* After a call is done the others go on as they were.
LEMMA OthersGoOn ==
  ASSUME RecordsInv, NEW c \in Clients, Done(c), work[c] # <<>>, Seq(Call) \subseteq Seq(Call')
  PROVE  /\ work' \in [Clients -> Seq(Call')] /\ looked' \in [Clients -> Look \cup {NoLook}]
         /\ \A d \in Clients : Looking(d)' => d # c /\ Looking(d) /\ work'[d] = work[d] /\ looked'[d] = looked[d]
         /\ Aiming'
<1>1. work \in [Clients -> Seq(Call)] /\ looked \in [Clients -> Look \cup {NoLook}]
  BY DEF RecordsInv, RecordsTypeOK
<1>2. Tail(work[c]) \in Seq(Call)
  BY CallIs
<1>3. work' \in [Clients -> Seq(Call')]
  <2>. DEFINE t == Tail(work[c])
              S == Call'
              C == Call
  <2>1. t \in Seq(S) /\ work' = [work EXCEPT ![c] = t] /\ work \in [Clients -> Seq(S)]
    BY <1>1, <1>2 DEF Done
  <2>. HIDE DEF t, S
  <2>2. work' \in [Clients -> Seq(S)]
    BY <2>1
  <2>3. QED
    BY <2>2 DEF S
<1>4. looked' \in [Clients -> Look \cup {NoLook}]
  BY <1>1 DEF Done
<1>5. ASSUME NEW d \in Clients, Looking(d)' PROVE d # c /\ Looking(d) /\ work'[d] = work[d] /\ looked'[d] = looked[d]
  <2>1. d # c
    BY <1>1, <1>5, Zenon DEF Looking, Done
  <2>2. work'[d] = work[d] /\ looked'[d] = looked[d]
    BY <1>1, <2>1, Zenon DEF Done
  <2>3. QED
    BY <1>5, <2>1, <2>2 DEF Looking
<1>6. Aiming'
  BY <1>5, Zenon DEF RecordsInv, Aiming, Doing
<1>7. QED
  BY <1>3, <1>4, <1>5, <1>6

LEMMA Gets ==
  ASSUME RecordsInv, NEW c \in Clients, NEW lost \in BOOLEAN, GetModel(c, lost)
  PROVE  RecordsInv'
<1>. DEFINE id   == Head(work[c]).model.id
            prev == IF lost THEN NoModelRecord ELSE records[id]
            look == [prev |-> prev, owner |-> 0, known |-> FALSE]
<1>1. /\ work[c] # <<>> /\ (Doing(c, "update") \/ Doing(c, "delete")) /\ Head(work[c]).op \in {"update", "delete"}
      /\ looked[c] = NoLook /\ ~Looking(c) /\ Target(c) = id
  BY DEF GetModel, Doing, Looking, Target
<1>2. id \in IDs /\ prev \in Model \cup {NoModelRecord}
  <2>1. Target(c) \in IDs
    BY <1>1, CallIs
  <2>2. QED
    BY <1>1, <2>1 DEF RecordsInv, RecordsTypeOK
<1>3. look \in Look
  <2>1. 0 \in 0..MaxID
    BY ModelRecordsAssumption
  <2>. HIDE DEF prev
  <2>2. QED
    BY <1>2, <2>1 DEF Look
<1>4. looked' = [looked EXCEPT ![c] = look]
  BY Zenon DEF GetModel
<1>5. UNCHANGED <<records, listed, byName, byChannel, nextID, work, repair, renamed>>
  BY DEF GetModel
<1>6. modelsCrossed' = (modelsCrossed \/ LookedAt(id) \/ lost)
  BY Zenon DEF GetModel
<1>. HIDE DEF look
<1>7. looked' \in [Clients -> Look \cup {NoLook}] /\ looked'[c] = look
      /\ \A d \in Clients \ {c} : looked'[d] = looked[d]
  BY <1>3, <1>4 DEF RecordsInv, RecordsTypeOK
<1>8. RecordsTypeOK'
  <2>1. Call' = Call
    BY <1>5 DEF Call
  <2>2. modelsCrossed' \in BOOLEAN
    BY <1>6
  <2>3. QED
    BY <1>5, <1>7, <2>1, <2>2 DEF RecordsInv, RecordsTypeOK
<1>9. Numbered'
  BY <1>5 DEF RecordsInv, Numbered
<1>10. ASSUME NEW d \in Clients, d # c
       PROVE  (Looking(d)' <=> Looking(d)) /\ looked'[d] = looked[d] /\ Target(d)' = Target(d)
  BY <1>5, <1>7, <1>10 DEF Looking, Target
<1>11. Aiming'
  <2>1. ASSUME NEW d \in Clients, Looking(d)' PROVE Doing(d, "update")' \/ Doing(d, "delete")'
    <3>1. Doing(d, "update") \/ Doing(d, "delete")
      BY <1>1, <1>10, <2>1, Zenon DEF RecordsInv, Aiming
    <3>2. QED
      BY <1>5, <3>1 DEF Doing
  <2>2. QED
    BY <2>1, Zenon DEF Aiming
<1>12. ASSUME ~modelsCrossed' PROVE Undisturbed'
  <2>1. Undisturbed /\ ~LookedAt(id) /\ ~lost
    BY <1>6, <1>12 DEF RecordsInv
  <2>2. ByChannelExact' /\ ByNameExact' /\ Repairable'
    BY <1>5, <2>1 DEF Undisturbed, ByChannelExact, ByNameExact, Repairable, At
  <2>3. Target(c)' = Target(c)
    BY <1>5 DEF Target
  <2>4. \A d \in Clients : Looking(d) => Target(d) # Target(c)
    BY <1>1, <2>1, Zenon DEF LookedAt, Looking, Target
  <2>5. repair # NoLook => repair.id # Target(c)
    BY <1>1, <2>1, Zenon DEF LookedAt
  <2>6. Alone'
    <3>1. ASSUME NEW d \in Clients, NEW e \in Clients, Looking(d)', Looking(e)', Target(d)' = Target(e)' PROVE d = e
      BY <1>10, <2>1, <2>3, <2>4, <3>1, Zenon DEF Undisturbed, Alone
    <3>2. ASSUME NEW d \in Clients, Looking(d)', repair' # NoLook PROVE repair'.id # Target(d)'
      BY <1>5, <1>10, <2>1, <2>3, <2>5, <3>2 DEF Undisturbed, Alone
    <3>3. QED
      BY <3>1, <3>2, Zenon DEF Alone
  <2>7. ASSUME NEW d \in Clients, Looking(d)' PROVE Fresh(d)'
    <3>1. CASE d # c
      <4>1. Fresh(d)
        BY <1>10, <2>1, <2>7, <3>1, Zenon DEF Undisturbed
      <4>2. QED
        BY <1>5, <1>10, <3>1, <4>1 DEF Fresh
    <3>2. CASE d = c
      <4>1. looked'[c].prev = records[Target(c)] /\ ~looked'[c].known
        BY <1>1, <1>7, <2>1 DEF look
      <4>2. QED
        BY <1>5, <2>3, <3>2, <4>1 DEF Fresh
    <3>3. QED
      BY <3>1, <3>2
  <2>8. QED
    BY <2>2, <2>6, <2>7, Zenon DEF Undisturbed
<1>13. QED
  BY <1>8, <1>9, <1>11, <1>12, Zenon DEF RecordsInv

\* The owner is read of a name that is the record's own, if it is about to be deleted.
LEMMA GetsOwner ==
  ASSUME RecordsInv, NEW c \in Clients, NEW lost \in BOOLEAN, GetOwner(c, lost)
  PROVE  RecordsInv'
<1>. DEFINE owner == IF lost \/ NamedModel(c) = NoModelRecord THEN 0 ELSE byName[NamedModel(c).name]
<1>1. /\ Looking(c) /\ looked[c] \in Look
      /\ UNCHANGED <<records, listed, byName, byChannel, nextID, work, repair, renamed>>
      /\ modelsCrossed' = (modelsCrossed \/ lost)
  BY DEF GetOwner, Looking, RecordsInv, RecordsTypeOK
<1>2. work[c] # <<>> /\ Head(work[c]).op \in {"update", "delete"}
  BY <1>1, LookingAt
<1>3. NamedModel(c) \in Model \cup {NoModelRecord}
  <2>1. Head(work[c]).op = "update" => Head(work[c]).model \in Model
    BY <1>2, CallIs
  <2>2. looked[c].prev \in Model \cup {NoModelRecord}
    BY <1>1 DEF Look
  <2>3. QED
    BY <2>1, <2>2, Zenon DEF NamedModel
<1>4. owner \in 0..MaxID
  <2>1. ASSUME NamedModel(c) # NoModelRecord PROVE byName[NamedModel(c).name] \in 0..MaxID
    BY <1>3, <2>1 DEF RecordsInv, RecordsTypeOK, Model
  <2>2. QED
    BY <2>1, ModelRecordsAssumption
<1>5. looked' = [looked EXCEPT ![c].known = TRUE, ![c].owner = owner]
  BY Zenon DEF GetOwner
<1>. HIDE DEF owner
<1>6. /\ looked'[c] \in Look /\ looked'[c].prev = looked[c].prev /\ looked'[c].owner = owner
      /\ looked' \in [Clients -> Look \cup {NoLook}] /\ \A d \in Clients \ {c} : looked'[d] = looked[d]
  <2>. DEFINE look == [looked[c] EXCEPT !.known = TRUE, !.owner = owner]
  <2>1. look \in Look /\ look.prev = looked[c].prev /\ look.owner = owner
    BY <1>1, <1>4 DEF Look
  <2>2. looked' = [looked EXCEPT ![c] = look]
    BY <1>1, <1>5 DEF RecordsInv, RecordsTypeOK
  <2>. HIDE DEF look
  <2>3. QED
    BY <2>1, <2>2 DEF RecordsInv, RecordsTypeOK
<1>7. RecordsTypeOK'
  <2>1. Call' = Call
    BY <1>1 DEF Call
  <2>2. QED
    BY <1>1, <1>6, <2>1 DEF RecordsInv, RecordsTypeOK
<1>8. Numbered'
  BY <1>1 DEF RecordsInv, Numbered
<1>9. ASSUME NEW d \in Clients PROVE (Looking(d)' => Looking(d)) /\ Target(d)' = Target(d)
  BY <1>1, <1>6, <1>9 DEF Looking, Target
<1>10. Aiming'
  BY <1>1, <1>9 DEF RecordsInv, Aiming, Doing
<1>11. ASSUME ~modelsCrossed' PROVE Undisturbed'
  <2>1. Undisturbed /\ ~lost
    BY <1>1, <1>11 DEF RecordsInv
  <2>2. ByChannelExact' /\ ByNameExact' /\ Repairable'
    BY <1>1, <2>1 DEF Undisturbed, ByChannelExact, ByNameExact, Repairable, At
  <2>3. Alone'
    <3>1. ASSUME NEW d \in Clients, NEW e \in Clients, Looking(d)', Looking(e)', Target(d)' = Target(e)' PROVE d = e
      BY <1>9, <2>1, <3>1, Zenon DEF Undisturbed, Alone
    <3>2. ASSUME NEW d \in Clients, Looking(d)', repair' # NoLook PROVE repair'.id # Target(d)'
      BY <1>1, <1>9, <2>1, <3>2 DEF Undisturbed, Alone
    <3>3. QED
      BY <3>1, <3>2, Zenon DEF Alone
  <2>4. ASSUME NEW d \in Clients, Looking(d)' PROVE Fresh(d)'
    <3>1. Fresh(d)
      BY <1>9, <2>1, <2>4 DEF Undisturbed
    <3>2. CASE d # c
      BY <1>1, <1>6, <1>9, <3>1, <3>2 DEF Fresh
    <3>3. CASE d = c
      <4>1. ASSUME Head(work[c]).op = "delete", looked[c].prev # NoModelRecord PROVE owner = byName[looked[c].prev.name]
        BY <2>1, <4>1 DEF owner, NamedModel
      <4>2. QED
        BY <1>1, <1>6, <1>9, <3>1, <3>3, <4>1 DEF Fresh
    <3>4. QED
      BY <3>2, <3>3
  <2>5. QED
    BY <2>2, <2>3, <2>4, Zenon DEF Undisturbed
<1>12. QED
  BY <1>7, <1>8, <1>10, <1>11, Zenon DEF RecordsInv

LEMMA Creates ==
  ASSUME RecordsInv, NEW c \in Clients, CreateModel(c)
  PROVE  RecordsInv'
<1>. DEFINE asked == Head(work[c]).model
            model == [asked EXCEPT !.id = nextID + 1]
            new == nextID + 1
<1>1. work[c] # <<>> /\ Head(work[c]).op = "create" /\ Done(c)
  BY Zenon DEF CreateModel, Doing
<1>2. nextID \in Nat /\ MaxID \in Nat /\ new \in IDs /\ new <= MaxID /\ nextID' = new
  BY ModelRecordsAssumption DEF RecordsInv, RecordsTypeOK, CreateModel, IDs
<1>3. asked \in [id : {0}, channel : Channels, name : Names, isDefault : BOOLEAN, status : Statuses \cup {"available"}]
  BY <1>1, CallIs
<1>4. model \in Model /\ model.id = new /\ model # NoModelRecord
  <2>. HIDE DEF asked
  <2>1. model \in Model /\ model.id = new
    BY <1>2, <1>3 DEF Model
  <2>2. QED
    BY <2>1, ModelRecordsAssumption
<1>5. /\ records' = [records EXCEPT ![new] = model] /\ listed' = listed \cup {new}
      /\ byName' = [byName EXCEPT ![model.name] = IF @ = 0 THEN new ELSE @]
      /\ byChannel' = [byChannel EXCEPT ![At(model)] = new]
      /\ UNCHANGED <<repair, modelsCrossed, renamed>>
  <2>. HIDE DEF model
  <2>1. /\ records' = [records EXCEPT ![model.id] = model] /\ listed' = listed \cup {model.id}
        /\ byName' = [byName EXCEPT ![model.name] = IF @ = 0 THEN model.id ELSE @]
        /\ byChannel' = [byChannel EXCEPT ![At(model)] = model.id]
        /\ UNCHANGED <<repair, modelsCrossed, renamed>>
    BY Zenon DEF CreateModel, model
  <2>2. QED
    BY <1>4, <2>1
<1>. HIDE DEF model, asked
<1>6. At(model) \in Keyed /\ model.name \in Names
  BY <1>4, AtIsKeyed DEF Model
<1>7. /\ records'[new] = model /\ \A i \in IDs \ {new} : records'[i] = records[i]
      /\ records' \in [IDs -> Model \cup {NoModelRecord}]
  BY <1>2, <1>4, <1>5 DEF RecordsInv, RecordsTypeOK
<1>8. /\ byName' \in [Names -> 0..MaxID]
      /\ \A n \in Names : byName'[n] = IF n = model.name /\ byName[n] = 0 THEN new ELSE byName[n]
  BY <1>2, <1>5, <1>6 DEF RecordsInv, RecordsTypeOK
<1>9. /\ byChannel' \in [Keyed -> 0..MaxID]
      /\ \A k \in Keyed : byChannel'[k] = IF k = At(model) THEN new ELSE byChannel[k]
  BY <1>2, <1>5, <1>6 DEF RecordsInv, RecordsTypeOK
<1>10. Seq(Call) \subseteq Seq(Call')
  <2>1. Call \subseteq Call'
    <3>1. {m \in Model : m.id <= nextID} \subseteq {m \in Model : m.id <= nextID'}
      BY <1>2 DEF Model, IDs
    <3>2. [id : 1..nextID] \subseteq [id : 1..nextID']
      BY <1>2
    <3>. DEFINE A == {m \in Model : m.id <= nextID}
                B == {m \in Model : m.id <= nextID'}
                E == [id : 1..nextID]
                F == [id : 1..nextID']
    <3>3. A \subseteq B /\ E \subseteq F
      BY <3>1, <3>2
    <3>. HIDE DEF A, B, E, F
    <3>4. /\ [op : {"update"}, model : A, ready : BOOLEAN] \subseteq [op : {"update"}, model : B, ready : BOOLEAN]
          /\ [op : {"delete"}, model : E, ready : BOOLEAN] \subseteq [op : {"delete"}, model : F, ready : BOOLEAN]
      BY <3>3
    <3>5. QED
      BY <3>4, Zenon DEF Call, A, B, E, F
  <2>. DEFINE C == Call
              D == Call'
  <2>2. C \subseteq D
    BY <2>1
  <2>. HIDE DEF C, D
  <2>3. Seq(C) \subseteq Seq(D)
    BY <2>2, SeqMonotonic
  <2>4. QED
    BY <2>3 DEF C, D
<1>11. /\ work' \in [Clients -> Seq(Call')] /\ looked' \in [Clients -> Look \cup {NoLook}]
       /\ \A d \in Clients : Looking(d)' => d # c /\ Looking(d) /\ work'[d] = work[d] /\ looked'[d] = looked[d]
       /\ Aiming'
  BY <1>1, <1>10, OthersGoOn
<1>12. RecordsTypeOK'
  <2>1. listed' \subseteq IDs /\ nextID' \in 0..MaxID /\ repair' \in Fix \cup {NoLook} /\ modelsCrossed' \in BOOLEAN
    BY <1>2, <1>5 DEF RecordsInv, RecordsTypeOK
  <2>2. QED
    BY <1>7, <1>8, <1>9, <1>11, <2>1, Zenon DEF RecordsTypeOK
<1>13. Numbered'
  <2>1. ASSUME NEW i \in IDs, records'[i] # NoModelRecord
        PROVE  records'[i].id = i /\ i \in listed' /\ i <= nextID'
    <3>1. CASE i = new
      BY <1>2, <1>4, <1>5, <1>7, <3>1
    <3>2. CASE i # new
      <4>1. records'[i] = records[i]
        BY <1>7, <3>2
      <4>2. records[i].id = i /\ i \in listed /\ i <= nextID /\ i \in Nat
        BY <2>1, <4>1 DEF RecordsInv, Numbered, IDs
      <4>3. QED
        BY <1>2, <1>5, <4>1, <4>2
    <3>3. QED
      BY <3>1, <3>2
  <2>2. QED
    BY <2>1, Zenon DEF Numbered
<1>14. ASSUME NEW i \in IDs, i <= nextID \/ records[i] # NoModelRecord PROVE i # new /\ records'[i] = records[i]
  <2>1. i <= nextID
    BY <1>14 DEF RecordsInv, Numbered
  <2>2. i # new
    BY <1>2, <2>1 DEF IDs
  <2>3. QED
    BY <1>7, <2>2
<1>15. ASSUME NEW d \in Clients, Looking(d)' PROVE Looking(d) /\ Target(d)' = Target(d) /\ Target(d) \in IDs
                                                  /\ Target(d) # new /\ records'[Target(d)] = records[Target(d)]
  <2>1. Looking(d) /\ Target(d)' = Target(d)
    BY <1>11, <1>15 DEF Target
  <2>2. QED
    BY <1>14, <2>1, LookingAt
<1>16. ASSUME ~modelsCrossed' PROVE Undisturbed'
  <2>1. Undisturbed
    BY <1>5, <1>16 DEF RecordsInv
  <2>2. ASSUME NEW k \in Keyed, byChannel'[k] # 0
        PROVE  records'[byChannel'[k]] # NoModelRecord /\ At(records'[byChannel'[k]]) = k
    <3>1. CASE k = At(model)
      BY <1>4, <1>7, <1>9, <3>1
    <3>2. CASE k # At(model)
      <4>1. byChannel'[k] = byChannel[k] /\ byChannel[k] \in IDs
        BY <1>2, <1>9, <2>2, <3>2 DEF RecordsInv, RecordsTypeOK, IDs
      <4>2. records[byChannel[k]] # NoModelRecord /\ At(records[byChannel[k]]) = k
        BY <2>1, <2>2, <4>1 DEF Undisturbed, ByChannelExact
      <4>3. QED
        BY <1>14, <4>1, <4>2
    <3>3. QED
      BY <3>1, <3>2
  <2>3. ASSUME NEW n \in Names, n \notin renamed', byName'[n] # 0
        PROVE  records'[byName'[n]] # NoModelRecord /\ records'[byName'[n]].name = n
    <3>1. CASE n = model.name /\ byName[n] = 0
      BY <1>4, <1>7, <1>8, <3>1
    <3>2. CASE ~(n = model.name /\ byName[n] = 0)
      <4>1. byName'[n] = byName[n] /\ byName[n] \in IDs /\ n \notin renamed
        BY <1>2, <1>5, <1>8, <2>3, <3>2 DEF RecordsInv, RecordsTypeOK, IDs
      <4>2. records[byName[n]] # NoModelRecord /\ records[byName[n]].name = n
        BY <2>1, <2>3, <4>1 DEF Undisturbed, ByNameExact
      <4>3. QED
        BY <1>14, <4>1, <4>2
    <3>3. QED
      BY <3>1, <3>2
  <2>4. Alone'
    <3>1. ASSUME NEW d \in Clients, NEW e \in Clients, Looking(d)', Looking(e)', Target(d)' = Target(e)' PROVE d = e
      BY <1>15, <2>1, <3>1, Zenon DEF Undisturbed, Alone
    <3>2. ASSUME NEW d \in Clients, Looking(d)', repair' # NoLook PROVE repair'.id # Target(d)'
      BY <1>5, <1>15, <2>1, <3>2 DEF Undisturbed, Alone
    <3>3. QED
      BY <3>1, <3>2, Zenon DEF Alone
  <2>5. Repairable'
    <3>1. ASSUME repair # NoLook PROVE repair.id \in IDs /\ records'[repair.id] = records[repair.id]
      <4>1. repair.id \in IDs
        BY <3>1 DEF RecordsInv, RecordsTypeOK, Fix
      <4>2. records[repair.id] # NoModelRecord
        BY <2>1, <3>1 DEF Undisturbed, Repairable
      <4>3. QED
        BY <1>14, <4>1, <4>2
    <3>2. QED
      BY <1>5, <2>1, <3>1 DEF Undisturbed, Repairable, At
  <2>6. ASSUME NEW d \in Clients, Looking(d)' PROVE Fresh(d)'
    <3>1. Fresh(d) /\ looked'[d] = looked[d] /\ work'[d] = work[d]
      BY <1>11, <2>1, <2>6 DEF Undisturbed
    <3>2. looked[d] \in Look
      BY <1>15, <2>6 DEF RecordsInv, RecordsTypeOK, Looking
    <3>3. ASSUME looked[d].prev # NoModelRecord, byName'[looked[d].prev.name] = Target(d)
          PROVE  byName[looked[d].prev.name] = Target(d)
      <4>1. looked[d].prev.name \in Names
        BY <3>2, <3>3 DEF Look, Model
      <4>2. QED
        BY <1>8, <1>15, <2>6, <3>3, <4>1
    <3>4. QED
      BY <1>15, <2>6, <3>1, <3>3 DEF Fresh
  <2>7. QED
    BY <2>2, <2>3, <2>4, <2>5, <2>6, Zenon DEF Undisturbed, ByChannelExact, ByNameExact
<1>17. QED
  BY <1>11, <1>12, <1>13, <1>16, Zenon DEF RecordsInv

\* A change of one record leaves the others' looks and repairs as they were.
LEMMA OthersUndisturbed ==
  ASSUME RecordsInv, Undisturbed, NEW c \in Clients, Looking(c), Aiming', UNCHANGED repair,
         \A d \in Clients : Looking(d)' => d # c /\ Looking(d) /\ work'[d] = work[d] /\ looked'[d] = looked[d],
         \A i \in IDs \ {Target(c)} : records'[i] = records[i],
         \A n \in Names : byName'[n] \in {byName[n], Target(c), 0}
  PROVE  Alone' /\ Repairable' /\ \A d \in Clients : Looking(d)' => Fresh(d)'
<1>1. ASSUME NEW d \in Clients, Looking(d)'
      PROVE  /\ Looking(d) /\ Target(d)' = Target(d) /\ Target(d) \in IDs /\ Target(d) # Target(c)
             /\ records'[Target(d)] = records[Target(d)]
  <2>1. Looking(d) /\ Target(d)' = Target(d) /\ d # c
    BY <1>1 DEF Target
  <2>2. Target(d) \in IDs
    BY <2>1, LookingAt
  <2>3. Target(d) # Target(c)
    BY <2>1, Zenon DEF Undisturbed, Alone
  <2>4. QED
    BY <2>1, <2>2, <2>3
<1>2. Alone'
  <2>1. ASSUME NEW d \in Clients, NEW e \in Clients, Looking(d)', Looking(e)', Target(d)' = Target(e)' PROVE d = e
    BY <1>1, <2>1, ZenonT(60) DEF Undisturbed, Alone
  <2>2. ASSUME NEW d \in Clients, Looking(d)', repair' # NoLook PROVE repair'.id # Target(d)'
    BY <1>1, <2>2 DEF Undisturbed, Alone
  <2>3. QED
    BY <2>1, <2>2, Zenon DEF Alone
<1>3. Repairable'
  <2>1. ASSUME repair # NoLook PROVE records'[repair.id] = records[repair.id]
    <3>1. repair.id \in IDs
      BY <2>1 DEF RecordsInv, RecordsTypeOK, Fix
    <3>2. repair.id # Target(c)
      BY <2>1, Zenon DEF Undisturbed, Alone
    <3>3. QED
      BY <3>1, <3>2
  <2>2. QED
    BY <2>1 DEF Undisturbed, Repairable, At
<1>4. ASSUME NEW d \in Clients, Looking(d)' PROVE Fresh(d)'
  <2>1. Fresh(d) /\ looked'[d] = looked[d] /\ work'[d] = work[d]
    BY <1>4 DEF Undisturbed
  <2>2. looked[d] \in Look
    BY <1>1, <1>4 DEF RecordsInv, RecordsTypeOK, Looking
  <2>3. ASSUME looked[d].prev # NoModelRecord, byName'[looked[d].prev.name] = Target(d)
        PROVE  byName[looked[d].prev.name] = Target(d)
    <3>1. looked[d].prev.name \in Names
      BY <2>2, <2>3 DEF Look, Model
    <3>2. Target(d) # 0
      BY <1>1, <1>4 DEF IDs
    <3>3. QED
      BY <1>1, <1>4, <2>3, <3>1, <3>2
  <2>4. QED
    BY <1>1, <1>4, <2>1, <2>3 DEF Fresh
<1>5. QED
  BY <1>2, <1>3, <1>4

LEMMA Updates ==
  ASSUME RecordsInv, NEW c \in Clients, UpdateModel(c)
  PROVE  RecordsInv'
<1>. DEFINE model == Head(work[c]).model
            id    == Target(c)
            prev  == looked[c].prev
            owner == looked[c].owner
            gone  == IF prev = NoModelRecord THEN {} ELSE {At(prev)} \ {At(model)}
<1>1. work[c] # <<>> /\ Head(work[c]).op = "update" /\ Done(c) /\ Looking(c) /\ id = model.id
  BY Zenon DEF UpdateModel, Doing, Looking, Knows, Target
<1>2. model \in Model /\ id \in IDs /\ id <= nextID /\ model # NoModelRecord
  <2>1. model \in Model /\ id \in IDs /\ id <= nextID
    BY <1>1, CallIs
  <2>2. QED
    BY <2>1, ModelRecordsAssumption
<1>3. /\ records' = [records EXCEPT ![id] = model] /\ listed' = listed \cup {id}
      /\ byChannel' = [k \in DOMAIN byChannel |->
                         IF k = At(model) THEN id ELSE IF k \in gone THEN 0 ELSE byChannel[k]]
      /\ byName' = [byName EXCEPT ![model.name] = IF owner \in {0, id} THEN id ELSE @]
      /\ renamed' = renamed \cup (IF prev # NoModelRecord /\ prev.name # model.name THEN {prev.name} ELSE {})
      /\ UNCHANGED <<nextID, repair, modelsCrossed>>
  BY Zenon DEF UpdateModel, Target
<1>4. looked[c] \in Look /\ prev \in Model \cup {NoModelRecord}
  BY <1>1 DEF RecordsInv, RecordsTypeOK, Looking, Look
<1>. HIDE DEF model, id, prev, owner
<1>5. At(model) \in Keyed /\ model.name \in Names
  BY <1>2, AtIsKeyed DEF Model
<1>6. /\ records'[id] = model /\ \A i \in IDs \ {id} : records'[i] = records[i]
      /\ records' \in [IDs -> Model \cup {NoModelRecord}]
  BY <1>2, <1>3 DEF RecordsInv, RecordsTypeOK
<1>7. /\ byName' \in [Names -> 0..MaxID]
      /\ \A n \in Names : byName'[n] = IF n = model.name /\ owner \in {0, id} THEN id ELSE byName[n]
  <2>1. id \in 0..MaxID
    BY <1>2, ModelRecordsAssumption DEF IDs
  <2>2. QED
    BY <1>3, <1>5, <2>1 DEF RecordsInv, RecordsTypeOK
<1>8. /\ byChannel' \in [Keyed -> 0..MaxID]
      /\ \A k \in Keyed : byChannel'[k] = IF k = At(model) THEN id ELSE IF k \in gone THEN 0 ELSE byChannel[k]
  <2>1. id \in 0..MaxID /\ 0 \in 0..MaxID
    BY <1>2, ModelRecordsAssumption DEF IDs
  <2>. HIDE DEF gone
  <2>2. QED
    BY <1>3, <1>5, <2>1 DEF RecordsInv, RecordsTypeOK
<1>9. Call' = Call
  BY <1>3 DEF Call
<1>10. /\ work' \in [Clients -> Seq(Call')] /\ looked' \in [Clients -> Look \cup {NoLook}]
       /\ \A d \in Clients : Looking(d)' => d # c /\ Looking(d) /\ work'[d] = work[d] /\ looked'[d] = looked[d]
       /\ Aiming'
  BY <1>1, <1>9, OthersGoOn
<1>11. RecordsTypeOK'
  <2>1. listed' \subseteq IDs /\ nextID' \in 0..MaxID /\ repair' \in Fix \cup {NoLook} /\ modelsCrossed' \in BOOLEAN
    BY <1>2, <1>3 DEF RecordsInv, RecordsTypeOK
  <2>2. QED
    BY <1>6, <1>7, <1>8, <1>10, <2>1, Zenon DEF RecordsTypeOK
<1>12. Numbered'
  <2>1. ASSUME NEW i \in IDs, records'[i] # NoModelRecord
        PROVE  records'[i].id = i /\ i \in listed' /\ i <= nextID'
    BY <1>1, <1>2, <1>3, <1>6, <2>1 DEF RecordsInv, Numbered
  <2>2. QED
    BY <2>1, Zenon DEF Numbered
<1>13. ASSUME ~modelsCrossed' PROVE Undisturbed'
  <2>1. Undisturbed
    BY <1>3, <1>13 DEF RecordsInv
  <2>2. prev = records[id]
    BY <1>1, <2>1 DEF Undisturbed, Fresh, prev, id
  <2>3. ASSUME NEW k \in Keyed, byChannel'[k] # 0
        PROVE  records'[byChannel'[k]] # NoModelRecord /\ At(records'[byChannel'[k]]) = k
    <3>1. CASE k = At(model)
      BY <1>2, <1>6, <1>8, <3>1
    <3>2. CASE k # At(model)
      <4>1. byChannel'[k] = byChannel[k] /\ k \notin gone /\ byChannel[k] \in IDs
        BY <1>8, <2>3, <3>2, ModelRecordsAssumption DEF RecordsInv, RecordsTypeOK, IDs
      <4>2. records[byChannel[k]] # NoModelRecord /\ At(records[byChannel[k]]) = k
        BY <2>1, <2>3, <4>1 DEF Undisturbed, ByChannelExact
      <4>3. byChannel[k] # id
        BY <2>2, <3>2, <4>1, <4>2
      <4>4. QED
        BY <1>6, <4>1, <4>2, <4>3
    <3>3. QED
      BY <3>1, <3>2
  <2>4. ASSUME NEW n \in Names, n \notin renamed', byName'[n] # 0
        PROVE  records'[byName'[n]] # NoModelRecord /\ records'[byName'[n]].name = n
    <3>1. CASE byName'[n] = id /\ n = model.name
      BY <1>2, <1>6, <3>1
    <3>2. CASE ~(byName'[n] = id /\ n = model.name)
      <4>1. byName'[n] = byName[n] /\ byName[n] \in IDs /\ n \notin renamed
        BY <1>3, <1>7, <2>4, <3>2, ModelRecordsAssumption DEF RecordsInv, RecordsTypeOK, IDs
      <4>2. records[byName[n]] # NoModelRecord /\ records[byName[n]].name = n
        BY <2>1, <2>4, <4>1 DEF Undisturbed, ByNameExact
      <4>3. byName[n] # id
        BY <1>3, <2>2, <2>4, <3>2, <4>1, <4>2
      <4>4. QED
        BY <1>6, <4>1, <4>2, <4>3
    <3>3. QED
      BY <3>1, <3>2
  <2>5. Alone' /\ Repairable' /\ \A d \in Clients : Looking(d)' => Fresh(d)'
    <3>1. \A n \in Names : byName'[n] \in {byName[n], Target(c), 0}
      BY <1>7 DEF id
    <3>2. \A i \in IDs \ {Target(c)} : records'[i] = records[i]
      BY <1>6 DEF id
    <3>3. QED
      BY <1>1, <1>3, <1>10, <2>1, <3>1, <3>2, OthersUndisturbed
  <2>6. QED
    BY <2>3, <2>4, <2>5, Zenon DEF Undisturbed, ByChannelExact, ByNameExact
<1>14. QED
  BY <1>10, <1>11, <1>12, <1>13, Zenon DEF RecordsInv

LEMMA Deletes ==
  ASSUME RecordsInv, NEW c \in Clients, DeleteModel(c)
  PROVE  RecordsInv'
<1>. DEFINE id    == Target(c)
            prev  == looked[c].prev
            owner == looked[c].owner
<1>1. work[c] # <<>> /\ Head(work[c]).op = "delete" /\ Done(c) /\ Looking(c) /\ looked[c].known
  BY Zenon DEF DeleteModel, Doing, Looking, Knows
<1>2. id \in IDs /\ id <= nextID
  BY <1>1, CallIs
<1>3. /\ records' = [records EXCEPT ![id] = NoModelRecord] /\ listed' = listed \ {id}
      /\ UNCHANGED <<nextID, repair, modelsCrossed, renamed>>
      /\ prev = NoModelRecord => UNCHANGED <<byName, byChannel>>
      /\ prev # NoModelRecord => /\ byName' = [byName EXCEPT ![prev.name] = IF owner = id THEN 0 ELSE @]
                                 /\ byChannel' = [byChannel EXCEPT ![At(prev)] = 0]
  BY Zenon DEF DeleteModel, Target
<1>4. looked[c] \in Look /\ prev \in Model \cup {NoModelRecord}
  BY <1>1 DEF RecordsInv, RecordsTypeOK, Looking, Look
<1>. HIDE DEF id, prev, owner
<1>5. ASSUME prev # NoModelRecord PROVE At(prev) \in Keyed /\ prev.name \in Names /\ At(prev)[2] = prev.name
  BY <1>4, <1>5, AtIsKeyed DEF Model
<1>6. /\ records'[id] = NoModelRecord /\ \A i \in IDs \ {id} : records'[i] = records[i]
      /\ records' \in [IDs -> Model \cup {NoModelRecord}]
  BY <1>2, <1>3 DEF RecordsInv, RecordsTypeOK
<1>7. 0 \in 0..MaxID
  BY ModelRecordsAssumption
<1>8. /\ byName' \in [Names -> 0..MaxID]
      /\ \A n \in Names : byName'[n] = IF prev # NoModelRecord /\ n = prev.name /\ owner = id THEN 0 ELSE byName[n]
  <2>1. CASE prev = NoModelRecord
    BY <1>3, <2>1 DEF RecordsInv, RecordsTypeOK
  <2>2. CASE prev # NoModelRecord
    BY <1>3, <1>5, <1>7, <2>2 DEF RecordsInv, RecordsTypeOK
  <2>3. QED
    BY <2>1, <2>2
<1>9. /\ byChannel' \in [Keyed -> 0..MaxID]
      /\ \A k \in Keyed : byChannel'[k] = IF prev # NoModelRecord /\ k = At(prev) THEN 0 ELSE byChannel[k]
  <2>1. CASE prev = NoModelRecord
    BY <1>3, <2>1 DEF RecordsInv, RecordsTypeOK
  <2>2. CASE prev # NoModelRecord
    BY <1>3, <1>5, <1>7, <2>2 DEF RecordsInv, RecordsTypeOK
  <2>3. QED
    BY <2>1, <2>2
<1>10. Call' = Call
  BY <1>3 DEF Call
<1>11. /\ work' \in [Clients -> Seq(Call')] /\ looked' \in [Clients -> Look \cup {NoLook}]
       /\ \A d \in Clients : Looking(d)' => d # c /\ Looking(d) /\ work'[d] = work[d] /\ looked'[d] = looked[d]
       /\ Aiming'
  BY <1>1, <1>10, OthersGoOn
<1>12. RecordsTypeOK'
  <2>1. listed' \subseteq IDs /\ nextID' \in 0..MaxID /\ repair' \in Fix \cup {NoLook} /\ modelsCrossed' \in BOOLEAN
    BY <1>2, <1>3 DEF RecordsInv, RecordsTypeOK
  <2>2. QED
    BY <1>6, <1>8, <1>9, <1>11, <2>1, Zenon DEF RecordsTypeOK
<1>13. Numbered'
  <2>1. ASSUME NEW i \in IDs, records'[i] # NoModelRecord
        PROVE  records'[i].id = i /\ i \in listed' /\ i <= nextID'
    <3>1. i # id /\ records'[i] = records[i]
      BY <1>6, <2>1
    <3>2. QED
      BY <1>3, <2>1, <3>1 DEF RecordsInv, Numbered
  <2>2. QED
    BY <2>1, Zenon DEF Numbered
<1>14. ASSUME ~modelsCrossed' PROVE Undisturbed'
  <2>1. Undisturbed
    BY <1>3, <1>14 DEF RecordsInv
  <2>2. prev = records[id] /\ (prev # NoModelRecord /\ byName[prev.name] = id => owner = id)
    BY <1>1, <2>1 DEF Undisturbed, Fresh, prev, id, owner
  <2>3. ASSUME NEW k \in Keyed, byChannel'[k] # 0
        PROVE  records'[byChannel'[k]] # NoModelRecord /\ At(records'[byChannel'[k]]) = k
    <3>1. byChannel'[k] = byChannel[k] /\ ~(prev # NoModelRecord /\ k = At(prev)) /\ byChannel[k] \in IDs
      BY <1>9, <2>3, ModelRecordsAssumption DEF RecordsInv, RecordsTypeOK, IDs
    <3>2. records[byChannel[k]] # NoModelRecord /\ At(records[byChannel[k]]) = k
      BY <2>1, <2>3, <3>1 DEF Undisturbed, ByChannelExact
    <3>3. byChannel[k] # id
      BY <2>2, <3>1, <3>2
    <3>4. QED
      BY <1>6, <3>1, <3>2, <3>3
  <2>4. ASSUME NEW n \in Names, n \notin renamed', byName'[n] # 0
        PROVE  records'[byName'[n]] # NoModelRecord /\ records'[byName'[n]].name = n
    <3>1. byName'[n] = byName[n] /\ ~(prev # NoModelRecord /\ n = prev.name /\ owner = id) /\ byName[n] \in IDs
          /\ n \notin renamed
      BY <1>3, <1>8, <2>4, ModelRecordsAssumption DEF RecordsInv, RecordsTypeOK, IDs
    <3>2. records[byName[n]] # NoModelRecord /\ records[byName[n]].name = n
      BY <2>1, <2>4, <3>1 DEF Undisturbed, ByNameExact
    <3>3. byName[n] # id
      BY <2>2, <3>1, <3>2
    <3>4. QED
      BY <1>6, <3>1, <3>2, <3>3
  <2>5. Alone' /\ Repairable' /\ \A d \in Clients : Looking(d)' => Fresh(d)'
    <3>1. \A n \in Names : byName'[n] \in {byName[n], Target(c), 0}
      BY <1>8
    <3>2. \A i \in IDs \ {Target(c)} : records'[i] = records[i]
      BY <1>6 DEF id
    <3>3. QED
      BY <1>1, <1>3, <1>11, <2>1, <3>1, <3>2, OthersUndisturbed
  <2>6. QED
    BY <2>3, <2>4, <2>5, Zenon DEF Undisturbed, ByChannelExact, ByNameExact
<1>15. QED
  BY <1>11, <1>12, <1>13, <1>14, Zenon DEF RecordsInv

-----------------------------------------------------------------------------
(* Lookups. *)

LEMMA FirstOf ==
  ASSUME NEW M, M \subseteq Model, M # {}
  PROVE  InOrder(M)[1] \in M
<1>. DEFINE s == InOrder(M)
<1>1. s \in Seq(M) /\ 1 \in DOMAIN s
  BY InOrderIs
<1>. HIDE DEF s
<1>2. s[1] \in M
  BY <1>1
<1>3. QED
  BY <1>2 DEF s

LEMMA EntryIsListed ==
  ASSUME RecordsInv, NEW i \in 0..MaxID, ExistingRecord(i)
  PROVE  records[i] \in ListModels
<1>1. i \in IDs /\ records[i] # NoModelRecord
  BY ModelRecordsAssumption DEF ExistingRecord, IDs
<1>2. i \in listed
  BY <1>1 DEF RecordsInv, Numbered
<1>3. QED
  BY <1>1, <1>2 DEF ListModels

\* A record found by its name is the one that the entry names, or one that has the name.
LEMMA ByNameIs ==
  ASSUME RecordsInv, NEW name \in Names, ByName(name) # NoModelRecord
  PROVE  /\ ByName(name) \in ListModels
         /\ ExistingRecord(byName[name]) => ByName(name) = records[byName[name]]
         /\ ~ExistingRecord(byName[name]) => ByName(name).name = name
<1>. DEFINE fitting == {m \in ListModels : m.name = name}
<1>1. ByName(name) = IF ExistingRecord(byName[name]) THEN records[byName[name]]
                     ELSE IF fitting = {} THEN NoModelRecord ELSE InOrder(fitting)[1]
  BY Zenon DEF ByName, FoundRecord
<1>2. CASE ExistingRecord(byName[name])
  <2>1. byName[name] \in 0..MaxID
    BY DEF RecordsInv, RecordsTypeOK
  <2>2. QED
    BY <1>1, <1>2, <2>1, EntryIsListed
<1>3. CASE ~ExistingRecord(byName[name])
  <2>1. fitting # {} /\ ByName(name) = InOrder(fitting)[1] /\ fitting \subseteq Model
    BY <1>1, <1>3, ListedIs
  <2>2. ByName(name) \in fitting
    <3>. HIDE DEF fitting
    <3>1. QED
      BY <2>1, FirstOf
  <2>3. QED
    BY <1>3, <2>2
<1>4. QED
  BY <1>2, <1>3

LEMMA ByChannelIs ==
  ASSUME RecordsInv, NEW channel \in Channels, NEW name \in Names, ByChannel(channel, name) # NoModelRecord
  PROVE  LET at == <<ChannelKey[channel], name>>
             m  == ByChannel(channel, name)
         IN  /\ m \in ListModels
             /\ ExistingRecord(byChannel[at]) => m = records[byChannel[at]]
             /\ ~ExistingRecord(byChannel[at]) => At(m) = at
<1>. DEFINE at == <<ChannelKey[channel], name>>
            fitting == {m \in ListModels : At(m) = at}
<1>1. ByChannel(channel, name) = IF ExistingRecord(byChannel[at]) THEN records[byChannel[at]]
                                 ELSE IF fitting = {} THEN NoModelRecord ELSE InOrder(fitting)[1]
  BY Zenon DEF ByChannel, FoundRecord
<1>2. CASE ExistingRecord(byChannel[at])
  <2>1. at \in Keyed
    BY ModelRecordsAssumption DEF Keyed, Range
  <2>. HIDE DEF at
  <2>2. byChannel[at] \in 0..MaxID
    BY <2>1 DEF RecordsInv, RecordsTypeOK
  <2>3. ByChannel(channel, name) \in ListModels /\ ByChannel(channel, name) = records[byChannel[at]]
    BY <1>1, <1>2, <2>2, EntryIsListed
  <2>4. QED
    BY <1>2, <2>3 DEF at
<1>3. CASE ~ExistingRecord(byChannel[at])
  <2>1. fitting # {} /\ ByChannel(channel, name) = InOrder(fitting)[1] /\ fitting \subseteq Model
    BY <1>1, <1>3, ListedIs
  <2>2. ByChannel(channel, name) \in fitting
    <3>. HIDE DEF fitting
    <3>1. QED
      BY <2>1, FirstOf
  <2>3. QED
    BY <1>3, <2>2
<1>4. QED
  BY <1>2, <1>3

\* The record that a repair will name, and where.
Repairs(fix) ==
  /\ fix \in Fix /\ records[fix.id] # NoModelRecord
  /\ fix.at = IF fix.index = "name" THEN records[fix.id].name ELSE At(records[fix.id])

LEMMA RepairBegins ==
  ASSUME RecordsInv, NEW fix, Repairs(fix), repair' = fix, modelsCrossed' = (modelsCrossed \/ LookedAt(fix.id)),
         UNCHANGED <<records, listed, byName, byChannel, nextID, work, looked, renamed>>
  PROVE  RecordsInv'
<1>1. RecordsTypeOK'
  <2>1. Call' = Call
    BY DEF Call
  <2>2. modelsCrossed' \in BOOLEAN /\ repair' \in Fix \cup {NoLook}
    BY DEF Repairs
  <2>3. QED
    BY <2>1, <2>2 DEF RecordsInv, RecordsTypeOK
<1>2. Numbered' /\ Aiming'
  BY DEF RecordsInv, Numbered, Aiming, Doing, Looking
<1>3. ASSUME ~modelsCrossed' PROVE Undisturbed'
  <2>1. Undisturbed /\ ~LookedAt(fix.id)
    BY <1>3 DEF RecordsInv
  <2>2. ByChannelExact' /\ ByNameExact' /\ \A c \in Clients : Looking(c)' => Fresh(c)'
    BY <2>1 DEF Undisturbed, ByChannelExact, ByNameExact, At, Looking, Fresh, Target
  <2>3. Repairable'
    BY DEF Repairs, Repairable, At
  <2>4. Alone'
    <3>1. \A c, d \in Clients : Looking(c)' /\ Looking(d)' /\ Target(c)' = Target(d)' => c = d
      BY <2>1 DEF Undisturbed, Alone, Looking, Target
    <3>2. \A c \in Clients : Looking(c) => Target(c) # fix.id
      BY <2>1, Zenon DEF LookedAt, Looking, Target
    <3>3. \A c \in Clients : Looking(c)' /\ repair' # NoLook => repair'.id # Target(c)'
      BY <3>2 DEF Looking, Target
    <3>4. QED
      BY <3>1, <3>3, Zenon DEF Alone
  <2>5. QED
    BY <2>2, <2>3, <2>4, Zenon DEF Undisturbed
<1>4. QED
  BY <1>1, <1>2, <1>3, Zenon DEF RecordsInv

LEMMA LooksUpName ==
  ASSUME RecordsInv, NEW name \in Names, GetModelByModelID(name)
  PROVE  RecordsInv'
<1>. DEFINE m   == ByName(name)
            fix == [index |-> "name", at |-> name, id |-> m.id]
<1>1. m # NoModelRecord /\ ~ExistingRecord(byName[name])
  BY DEF GetModelByModelID
<1>2. m \in ListModels /\ m.name = name
  BY <1>1, ByNameIs
<1>3. m.id \in IDs /\ records[m.id] = m
  BY <1>2, ListedIs
<1>4. Repairs(fix) /\ fix.id = m.id
  <2>. HIDE DEF m
  <2>1. QED
    BY <1>1, <1>2, <1>3 DEF Repairs, Fix
<1>5. repair' = fix /\ modelsCrossed' = (modelsCrossed \/ LookedAt(m.id))
  BY Zenon DEF GetModelByModelID
<1>6. QED
  <2>. HIDE DEF fix, m
  <2>1. QED
    BY <1>4, <1>5, RepairBegins DEF GetModelByModelID

LEMMA LooksUpChannel ==
  ASSUME RecordsInv, NEW channel \in Channels, NEW name \in Names, GetModelByChannelAndModelID(channel, name)
  PROVE  RecordsInv'
<1>. DEFINE at  == <<ChannelKey[channel], name>>
            m   == ByChannel(channel, name)
            fix == [index |-> "channel", at |-> at, id |-> m.id]
<1>1. m # NoModelRecord /\ ~ExistingRecord(byChannel[at])
  BY DEF GetModelByChannelAndModelID
<1>2. m \in ListModels /\ At(m) = at
  BY <1>1, ByChannelIs
<1>3. m.id \in IDs /\ records[m.id] = m /\ at \in Keyed
  BY <1>2, ListedIs, ModelRecordsAssumption DEF Keyed, Range
<1>4. Repairs(fix) /\ fix.id = m.id
  <2>. HIDE DEF m, at
  <2>1. QED
    BY <1>1, <1>2, <1>3 DEF Repairs, Fix
<1>5. repair' = fix /\ modelsCrossed' = (modelsCrossed \/ LookedAt(m.id))
  BY Zenon DEF GetModelByChannelAndModelID
<1>6. QED
  <2>. HIDE DEF fix, m, at
  <2>1. QED
    BY <1>4, <1>5, RepairBegins DEF GetModelByChannelAndModelID

LEMMA Repaired ==
  ASSUME RecordsInv, Repair
  PROVE  RecordsInv'
<1>1. repair # NoLook /\ repair \in Fix /\ repair' = NoLook
      /\ UNCHANGED <<records, listed, nextID, work, looked, modelsCrossed, renamed>>
  BY Zenon DEF Repair, RecordsInv, RecordsTypeOK
<1>2. repair.id \in IDs /\ repair.id \in 0..MaxID /\ (repair.index = "name" => repair.at \in Names)
      /\ (repair.index # "name" => repair.at \in Keyed)
  BY <1>1 DEF Fix, IDs
<1>3. /\ byName' \in [Names -> 0..MaxID]
      /\ \A n \in Names : byName'[n] = IF repair.index = "name" /\ n = repair.at THEN repair.id ELSE byName[n]
  BY <1>2 DEF Repair, RecordsInv, RecordsTypeOK
<1>4. /\ byChannel' \in [Keyed -> 0..MaxID]
      /\ \A k \in Keyed : byChannel'[k] = IF repair.index # "name" /\ k = repair.at THEN repair.id ELSE byChannel[k]
  BY <1>2 DEF Repair, RecordsInv, RecordsTypeOK
<1>5. RecordsTypeOK'
  <2>1. Call' = Call
    BY <1>1 DEF Call
  <2>2. QED
    BY <1>1, <1>3, <1>4, <2>1 DEF RecordsInv, RecordsTypeOK
<1>6. Numbered' /\ Aiming'
  BY <1>1 DEF RecordsInv, Numbered, Aiming, Doing, Looking
<1>7. ASSUME ~modelsCrossed' PROVE Undisturbed'
  <2>1. Undisturbed
    BY <1>1, <1>7 DEF RecordsInv
  <2>2. Repairs(repair)
    BY <1>1, <2>1 DEF Undisturbed, Repairable, Repairs
  <2>3. ByChannelExact'
    <3>1. ASSUME NEW k \in Keyed, byChannel'[k] # 0
          PROVE  records[byChannel'[k]] # NoModelRecord /\ At(records[byChannel'[k]]) = k
      BY <1>4, <2>1, <2>2, <3>1 DEF Repairs, Undisturbed, ByChannelExact
    <3>2. QED
      BY <1>1, <3>1 DEF ByChannelExact, At
  <2>4. ByNameExact'
    <3>1. ASSUME NEW n \in Names \ renamed, byName'[n] # 0
          PROVE  records[byName'[n]] # NoModelRecord /\ records[byName'[n]].name = n
      BY <1>3, <2>1, <2>2, <3>1 DEF Repairs, Undisturbed, ByNameExact
    <3>2. QED
      BY <1>1, <3>1 DEF ByNameExact
  <2>5. Alone' /\ Repairable'
    BY <1>1, <2>1 DEF Undisturbed, Alone, Repairable, Looking, Target
  <2>6. ASSUME NEW d \in Clients, Looking(d)' PROVE Fresh(d)'
    <3>1. Looking(d) /\ Fresh(d) /\ repair.id # Target(d)
      BY <1>1, <2>1, <2>6 DEF Undisturbed, Alone, Looking
    <3>2. looked[d] \in Look
      BY <3>1 DEF RecordsInv, RecordsTypeOK, Looking
    <3>3. ASSUME looked[d].prev # NoModelRecord, byName'[looked[d].prev.name] = Target(d)
          PROVE  byName[looked[d].prev.name] = Target(d)
      <4>1. looked[d].prev.name \in Names
        BY <3>2, <3>3 DEF Look, Model
      <4>2. QED
        BY <1>3, <3>1, <3>3, <4>1
    <3>4. QED
      BY <1>1, <3>1, <3>3 DEF Fresh, Target
  <2>7. QED
    BY <2>3, <2>4, <2>5, <2>6, Zenon DEF Undisturbed
<1>8. QED
  BY <1>5, <1>6, <1>7, Zenon DEF RecordsInv

-----------------------------------------------------------------------------
(* The results. *)

\* What the list shows is found: by induction, the indexes of undisturbed records name
\* records of their names, and a lookup without an entry takes one that is listed.
LEMMA FoundWhenListed == RecordsInv => ListedIsFound
<1>. SUFFICES ASSUME RecordsInv, ~modelsCrossed, NEW m \in ListModels
              PROVE  /\ isVisiblePublicModel(m, m.channel) /\ (\A n \in ListModels : At(n) = At(m) => n = m)
                          => validateModelAvailability(m.channel, m.name)
                     /\ At(ByChannel(m.channel, m.name)) = At(m)
                     /\ m.name \notin renamed => ByName(m.name).name = m.name
  BY Zenon DEF ListedIsFound
<1>1. Undisturbed
  BY DEF RecordsInv
<1>2. m \in Model /\ m # NoModelRecord /\ m.channel \in Channels /\ m.name \in Names
  BY ListedIs DEF Model
<1>. DEFINE at == At(m)
<1>3. at = <<ChannelKey[m.channel], m.name>> /\ at \in Keyed
  BY <1>2, AtIsKeyed DEF At
<1>4. ByChannel(m.channel, m.name) # NoModelRecord
  <2>. DEFINE fitting == {n \in ListModels : At(n) = <<ChannelKey[m.channel], m.name>>}
  <2>1. ByChannel(m.channel, m.name) = IF ExistingRecord(byChannel[<<ChannelKey[m.channel], m.name>>])
                                       THEN records[byChannel[<<ChannelKey[m.channel], m.name>>]]
                                       ELSE IF fitting = {} THEN NoModelRecord ELSE InOrder(fitting)[1]
    BY Zenon DEF ByChannel, FoundRecord
  <2>2. fitting # {} /\ fitting \subseteq Model
    BY <1>3, ListedIs
  <2>3. InOrder(fitting)[1] \in fitting
    <3>. HIDE DEF fitting
    <3>1. QED
      BY <2>2, FirstOf
  <2>4. InOrder(fitting)[1] # NoModelRecord
    BY <2>3, ListedIs
  <2>. HIDE DEF fitting
  <2>5. QED
    BY <2>1, <2>2, <2>4 DEF ExistingRecord
<1>. DEFINE f == ByChannel(m.channel, m.name)
<1>5. f \in ListModels /\ At(f) = at
  <2>1. /\ f \in ListModels /\ (ExistingRecord(byChannel[at]) => f = records[byChannel[at]])
        /\ ~ExistingRecord(byChannel[at]) => At(f) = at
    BY <1>2, <1>3, <1>4, ByChannelIs
  <2>. HIDE DEF f, at
  <2>2. ExistingRecord(byChannel[at]) => At(records[byChannel[at]]) = at
    BY <1>1, <1>3 DEF Undisturbed, ByChannelExact, ExistingRecord
  <2>3. QED
    BY <2>1, <2>2
<1>6. ASSUME isVisiblePublicModel(m, m.channel), \A n \in ListModels : At(n) = At(m) => n = m
      PROVE  validateModelAvailability(m.channel, m.name)
  <2>1. f = m
    BY <1>5, <1>6
  <2>2. QED
    BY <1>2, <1>6, <2>1 DEF validateModelAvailability, isVisiblePublicModel
<1>7. ASSUME m.name \notin renamed PROVE ByName(m.name).name = m.name
  <2>. DEFINE fitting == {n \in ListModels : n.name = m.name}
  <2>1. ByName(m.name) = IF ExistingRecord(byName[m.name]) THEN records[byName[m.name]]
                         ELSE IF fitting = {} THEN NoModelRecord ELSE InOrder(fitting)[1]
    BY Zenon DEF ByName, FoundRecord
  <2>2. ExistingRecord(byName[m.name]) => records[byName[m.name]].name = m.name
    BY <1>1, <1>2, <1>7 DEF Undisturbed, ByNameExact, ExistingRecord
  <2>3. fitting # {} /\ fitting \subseteq Model
    BY ListedIs
  <2>4. InOrder(fitting)[1] \in fitting
    <3>. HIDE DEF fitting
    <3>1. QED
      BY <2>3, FirstOf
  <2>5. InOrder(fitting)[1].name = m.name
    BY <2>4
  <2>. HIDE DEF fitting
  <2>6. QED
    BY <2>1, <2>2, <2>3, <2>5
<1>8. QED
  BY <1>5, <1>6, <1>7, Zenon

LEMMA RecordsStep == RecordsInv /\ [RecordsNext]_modelVars => RecordsInv'
<1>. SUFFICES ASSUME RecordsInv, [RecordsNext]_modelVars PROVE RecordsInv'
  OBVIOUS
<1>1. ASSUME NEW c \in Clients, NEW channel \in Channels, NEW name \in Names, NEW isDefault \in BOOLEAN,
             NEW status \in Statuses,
             \/ HandleModels(c, channel, name, isDefault, status)
             \/ \E id \in 1..nextID : HandleModelPut(c, id, channel, name, isDefault, status)
      PROVE  RecordsInv'
  <2>1. Text(channel, name, isDefault, status)
    BY DEF Text
  <2>2. QED
    BY <1>1, <2>1, Administered
<1>2. ASSUME NEW c \in Clients, NEW id \in 1..nextID, HandleModelDelete(c, id) PROVE RecordsInv'
  <2>1. StoreCall("delete", [id |-> id]) \in Call
    BY DeleteCall
  <2>2. <<StoreCall("delete", [id |-> id])>> \in Seq(Call)
    BY <2>1
  <2>. DEFINE calls == <<StoreCall("delete", [id |-> id])>>
  <2>3. calls \in Seq(Call) /\ Begin(c, calls)
    BY <1>2, <2>2 DEF HandleModelDelete
  <2>. HIDE DEF calls
  <2>4. QED
    BY <2>3, Begins
<1>3. ASSUME NEW c \in Clients, NEW channel \in Channels, NEW choices \in Offers, NEW accounts \in BOOLEAN,
             NEW answers \in [ToSet(choices) -> Outcomes],
             syncModelsForChannelConcurrent(c, channel, choices, answers, accounts)
      PROVE  RecordsInv'
  BY <1>3, Refreshed
<1>4. ASSUME NEW c \in Clients,
             \/ ClearDefaults(c) \/ CreateModel(c) \/ UpdateModel(c) \/ DeleteModel(c)
             \/ \E lost \in BOOLEAN : GetModel(c, lost) \/ GetOwner(c, lost)
      PROVE  RecordsInv'
  BY <1>4, Cleared, Gets, GetsOwner, Creates, Updates, Deletes
<1>5. ASSUME \/ \E name \in Names : GetModelByModelID(name)
             \/ \E channel \in Channels, name \in Names : GetModelByChannelAndModelID(channel, name)
             \/ Repair
      PROVE  RecordsInv'
  BY <1>5, LooksUpName, LooksUpChannel, Repaired
<1>6. CASE UNCHANGED modelVars
  <2>1. RecordsTypeOK'
    <3>1. Call' = Call
      BY <1>6 DEF Call, modelVars
    <3>2. QED
      BY <1>6, <3>1 DEF RecordsInv, RecordsTypeOK, modelVars
  <2>2. Numbered' /\ Aiming'
    BY <1>6 DEF RecordsInv, Numbered, Aiming, Doing, Looking, modelVars
  <2>3. Undisturbed => Undisturbed'
    BY <1>6 DEF Undisturbed, ByChannelExact, ByNameExact, Alone, Repairable, Fresh, Looking, Target, At, modelVars
  <2>4. QED
    BY <1>6, <2>1, <2>2, <2>3 DEF RecordsInv, modelVars
<1>7. QED
  BY <1>1, <1>2, <1>3, <1>4, <1>5, <1>6, Zenon DEF RecordsNext

\* The indexes of models that no two changes came to at once are exact.
THEOREM RecordsInvariant == RecordsSpec => []RecordsInv
<1>1. QED
  BY RecordsStart, RecordsStep, PTL DEF RecordsSpec

\* What the list of models shows is found under its channel and under its name.
THEOREM ListedModelsAreFound == RecordsSpec => []ListedIsFound
<1>1. QED
  BY RecordsInvariant, FoundWhenListed, PTL

-----------------------------------------------------------------------------
(* The API keys. *)

USE KeysAssumption DEF keyVars, keyStore, KeyIDs

Request ==
  [at : {"idle", "create", "patch", "reread", "delete"}, id : 0..MaxKeyID,
   asked : BOOLEAN \cup {NoApiKey}, key : ApiKey \cup {NoApiKey},
   told : {"nothing", "created", "not found", "enabled", "disabled", "deleted", "error"}]

KeysTypeOK ==
  /\ apiKeys \in [KeyIDs -> ApiKey \cup {NoApiKey}] /\ apiKeyIDs \subseteq KeyIDs
  /\ apiKeyHashes \in [Hashes -> 0..MaxKeyID] /\ nextKeyID \in 0..MaxKeyID
  /\ admin \in [Admins -> Request]
  /\ drawn \subseteq Hashes /\ deleted \subseteq KeyIDs /\ crossed \subseteq KeyIDs

Busy(a) == admin[a].at # "idle"

\* An id has a hash in its record, or in what an administrator holds of it.
Has(id, hash) ==
  \/ apiKeys[id] # NoApiKey /\ apiKeys[id].hash = hash
  \/ \E a \in Admins : Busy(a) /\ admin[a].id = id /\ admin[a].key.hash = hash

\* Ids and hashes belong together for good, and are issued once.
Issued ==
  /\ \A i \in KeyIDs, g \in Hashes : Has(i, g) => i <= nextKeyID /\ g \in drawn
  /\ \A i, j \in KeyIDs, g, h \in Hashes : Has(i, g) /\ Has(j, h) => (i = j <=> g = h)
  /\ \A i \in deleted : i <= nextKeyID

Indexed ==
  /\ \A i \in KeyIDs : apiKeys[i] # NoApiKey => apiKeys[i].id = i
  /\ \A i \in apiKeyIDs : apiKeys[i] # NoApiKey /\ apiKeyHashes[apiKeys[i].hash] = i
  /\ \A h \in Hashes : apiKeyHashes[h] # 0 => apiKeyHashes[h] \in apiKeyIDs /\ apiKeys[apiKeyHashes[h]].hash = h
  /\ \A i \in KeyIDs : i \notin apiKeyIDs /\ apiKeys[i] # NoApiKey => i \in crossed
  /\ deleted \cap apiKeyIDs = {}

\* Two administrators are at one id only if it is marked as crossed, and never while
\* it is created.
Crossings ==
  \A a, b \in Admins : a # b /\ Busy(a) /\ Busy(b) /\ admin[a].id = admin[b].id =>
    admin[a].id \in crossed /\ admin[a].at # "create"

Holds(a) ==
  /\ Busy(a) => admin[a].key \in ApiKey /\ admin[a].key.id = admin[a].id /\ admin[a].told = "nothing"
  /\ admin[a].at = "create" =>
       apiKeys[admin[a].id] = NoApiKey /\ admin[a].id \notin apiKeyIDs \cup deleted
  /\ admin[a].at \in {"patch", "reread"} => admin[a].asked \in BOOLEAN
  /\ admin[a].at = "patch" /\ admin[a].id \notin crossed => admin[a].id \in apiKeyIDs
  /\ admin[a].at = "reread" /\ admin[a].id \notin crossed =>
       apiKeys[admin[a].id] # NoApiKey /\ apiKeys[admin[a].id].enabled = admin[a].asked

Answered(a) ==
  ~Busy(a) /\ admin[a].told \in {"enabled", "disabled"} /\ admin[a].id \notin crossed =>
    (admin[a].told = "enabled") = admin[a].asked

Work == \A a \in Admins : Holds(a)
Answers == \A a \in Admins : Answered(a)

KeysInv == KeysTypeOK /\ Issued /\ Indexed /\ Crossings /\ Work /\ Answers

-----------------------------------------------------------------------------
LEMMA InitInv == KeysInit => KeysInv
BY DEF KeysInit, KeysInv, KeysTypeOK, Issued, Indexed, Crossings, Work, Answers, Holds, Answered,
       Busy, Has, Idle, Request

LEMMA IdleType ==
  Idle \in Request /\ Idle.at = "idle" /\ Idle.told = "nothing" /\ Idle.asked = NoApiKey
BY DEF Idle, Request

\* Nothing new is bound to an id: what is issued stays so.
LEMMA SameIssued ==
  ASSUME KeysInv, nextKeyID' = nextKeyID, drawn' = drawn, deleted' \subseteq deleted \cup 1..nextKeyID,
         \A i \in KeyIDs, g \in Hashes : Has(i, g)' => Has(i, g)
  PROVE  Issued'
BY DEF KeysInv, KeysTypeOK, Issued

\* A busy administrator's id is that of a key that was issued.
LEMMA BusyIssued ==
  ASSUME KeysInv, NEW a \in Admins, Busy(a)
  PROVE  /\ admin[a].id \in KeyIDs /\ admin[a].id <= nextKeyID /\ admin[a].key \in ApiKey
         /\ admin[a].key.id = admin[a].id /\ admin[a].key.hash \in Hashes
         /\ Has(admin[a].id, admin[a].key.hash)
<1>1. admin[a].key \in ApiKey /\ admin[a].key.id = admin[a].id
  BY DEF KeysInv, Work, Holds
<1>2. admin[a].id \in KeyIDs /\ admin[a].key.hash \in Hashes
  BY <1>1 DEF ApiKey
<1>3. Has(admin[a].id, admin[a].key.hash)
  BY DEF Has
<1>4. QED
  BY <1>1, <1>2, <1>3 DEF KeysInv, Issued

\* Only one administrator moves, and keeps what the request is about.
Moves(a, at, told) ==
  /\ admin' \in [Admins -> Request]
  /\ admin'[a].at = at /\ admin'[a].told = told
  /\ admin'[a].id = admin[a].id /\ admin'[a].asked = admin[a].asked /\ admin'[a].key = admin[a].key
  /\ \A b \in Admins : b # a => admin'[b] = admin[b]

LEMMA ToldMoves ==
  ASSUME KeysTypeOK, NEW a \in Admins, NEW told \in {"created", "enabled", "disabled", "deleted", "error"},
         Told(a, told)
  PROVE  Moves(a, "idle", told)
<1>. DEFINE new == [admin[a] EXCEPT !.at = "idle", !.told = told]
<1>1. admin[a] \in Request
  BY DEF KeysTypeOK
<1>2. /\ new \in Request /\ new.at = "idle" /\ new.told = told
      /\ new.id = admin[a].id /\ new.asked = admin[a].asked /\ new.key = admin[a].key
  BY <1>1 DEF Request
<1>3. admin' = [admin EXCEPT ![a] = new]
  BY DEF Told
<1>4. QED
  BY <1>2, <1>3 DEF KeysTypeOK, Moves

\* A new id and a new hash: nobody else has either.
LEMMA PostInv ==
  ASSUME KeysInv, NEW a \in Admins, NEW hash \in Hashes, HandleKeysPost(a, hash) PROVE KeysInv'
<1>. DEFINE id  == nextKeyID + 1
            key == [id |-> id, hash |-> hash, enabled |-> TRUE]
<1>. USE DEF KeysInv
<1>1. /\ id \in KeyIDs /\ key \in ApiKey /\ hash \notin drawn
      /\ nextKeyID' = id /\ drawn' = drawn \cup {hash}
      /\ UNCHANGED <<apiKeys, apiKeyIDs, apiKeyHashes, deleted, crossed>>
  BY DEF HandleKeysPost, generateApiKey, KeysTypeOK, ApiKey
<1>2. /\ admin' \in [Admins -> Request] /\ \A b \in Admins : b # a => admin'[b] = admin[b]
      /\ admin'[a].at = "create" /\ admin'[a].id = id /\ admin'[a].key = key
      /\ admin'[a].told = "nothing"
  <2>. DEFINE new == [Idle EXCEPT !.at = "create", !.id = key.id, !.key = key]
  <2>1. new \in Request /\ new.at = "create" /\ new.id = id /\ new.key = key /\ new.told = "nothing"
    <3>1. id \in 0..MaxKeyID /\ key.id = id
      BY <1>1
    <3>2. QED
      BY <1>1, <3>1, IdleType DEF Request
  <2>2. admin' = [admin EXCEPT ![a] = new]
    BY DEF HandleKeysPost
  <2>3. QED
    BY <2>1, <2>2 DEF KeysTypeOK
<1>3. KeysTypeOK'
  BY <1>1, <1>2 DEF KeysTypeOK
<1>4. apiKeys[id] = NoApiKey /\ id \notin apiKeyIDs \cup deleted
  <2>1. ASSUME apiKeys[id] # NoApiKey PROVE FALSE
    <3>1. apiKeys[id].hash \in Hashes /\ Has(id, apiKeys[id].hash)
      BY <1>1, <2>1 DEF Has, KeysTypeOK, ApiKey
    <3>2. QED
      BY <1>1, <3>1 DEF Issued, KeysTypeOK
  <2>2. apiKeys[id] = NoApiKey
    BY <2>1
  <2>3. QED
    BY <1>1, <2>2 DEF Indexed, Issued, KeysTypeOK
<1>5. \A b \in Admins : b # a /\ Busy(b) => admin[b].id # id
  BY <1>1, BusyIssued DEF KeysTypeOK
<1>6. Issued'
  <2>1. \A i \in KeyIDs, g \in Hashes : Has(i, g)' => Has(i, g) \/ (i = id /\ g = hash)
    BY <1>1, <1>2 DEF Has, Busy
  <2>2. QED
    BY <1>1, <2>1 DEF Issued, KeysTypeOK
<1>7. Indexed'
  BY <1>1 DEF Indexed
<1>8. Crossings'
  BY <1>1, <1>2, <1>5 DEF Crossings, Busy
<1>9. Work'
  BY <1>1, <1>2, <1>4 DEF Work, Holds, Busy
<1>10. Answers'
  BY <1>1, <1>2 DEF Answers, Answered, Busy, Moves
<1>11. QED
  BY <1>3, <1>6, <1>7, <1>8, <1>9, <1>10

\* The key enters the record, the list and the index in one step.
LEMMA CreateInv == ASSUME KeysInv, NEW a \in Admins, CreateApiKey(a) PROVE KeysInv'
<1>. DEFINE id  == admin[a].id
            key == admin[a].key
<1>. USE DEF KeysInv
<1>1. /\ id \in KeyIDs /\ key \in ApiKey /\ key.id = id /\ key.hash \in Hashes /\ Has(id, key.hash)
      /\ apiKeys[id] = NoApiKey /\ id \notin apiKeyIDs \cup deleted
  BY BusyIssued DEF CreateApiKey, Busy, Work, Holds
<1>2. /\ apiKeys' = [apiKeys EXCEPT ![id] = key] /\ apiKeyIDs' = apiKeyIDs \cup {id}
      /\ apiKeyHashes' = [apiKeyHashes EXCEPT ![key.hash] = id]
      /\ UNCHANGED <<nextKeyID, drawn, deleted, crossed>>
  BY <1>1 DEF CreateApiKey
<1>3. Moves(a, "idle", "created")
  BY ToldMoves DEF CreateApiKey
<1>4. KeysTypeOK'
  <2>1. apiKeys' \in [KeyIDs -> ApiKey \cup {NoApiKey}]
    BY <1>1, <1>2 DEF KeysTypeOK
  <2>2. apiKeyHashes' \in [Hashes -> 0..MaxKeyID]
    BY <1>1, <1>2 DEF KeysTypeOK
  <2>3. QED
    BY <1>1, <1>2, <1>3, <2>1, <2>2 DEF KeysTypeOK, Moves
<1>5. \A b \in Admins : b # a /\ Busy(b) => admin[b].id # id
  BY DEF Crossings, CreateApiKey, Busy
<1>6. Issued'
  <2>1. \A i \in KeyIDs, g \in Hashes : Has(i, g)' => Has(i, g)
    BY <1>1, <1>2, <1>3 DEF Has, Busy, Moves
  <2>2. QED
    BY <1>2, <2>1, SameIssued
<1>7. Indexed'
  <2>1. \A i \in apiKeyIDs : apiKeys[i].hash # key.hash
    BY <1>1 DEF Issued, Has, Indexed, KeysTypeOK, ApiKey
  <2>2. apiKeyHashes'[key.hash] = id /\ apiKeys'[id] = key /\ key # NoApiKey
    BY <1>1, <1>2 DEF KeysTypeOK
  <2>3. \A i \in KeyIDs : i # id => apiKeys'[i] = apiKeys[i]
    BY <1>2 DEF KeysTypeOK
  <2>4. \A h \in Hashes : h # key.hash => apiKeyHashes'[h] = apiKeyHashes[h]
    BY <1>2 DEF KeysTypeOK
  <2>5. (\A i \in KeyIDs : apiKeys[i] # NoApiKey => apiKeys[i].id = i)'
    BY <1>1, <2>2, <2>3 DEF Indexed
  <2>6. ASSUME NEW i \in apiKeyIDs'
        PROVE  apiKeys'[i] # NoApiKey /\ apiKeyHashes'[apiKeys'[i].hash] = i
    <3>1. CASE i = id
      BY <2>2, <3>1
    <3>2. CASE i # id
      <4>1. i \in apiKeyIDs
        BY <1>2, <2>6, <3>2
      <4>2. i \in KeyIDs /\ apiKeys[i] # NoApiKey /\ apiKeyHashes[apiKeys[i].hash] = i
        BY <4>1 DEF KeysTypeOK, Indexed
      <4>3. apiKeys[i].hash \in Hashes
        BY <4>2 DEF KeysTypeOK, ApiKey
      <4>4. QED
        BY <2>1, <2>3, <2>4, <3>2, <4>1, <4>2, <4>3
    <3>3. QED
      BY <3>1, <3>2
  <2>7. ASSUME NEW h \in Hashes, apiKeyHashes'[h] # 0
        PROVE  apiKeyHashes'[h] \in apiKeyIDs' /\ apiKeys'[apiKeyHashes'[h]].hash = h
    <3>1. CASE h = key.hash
      BY <1>2, <2>2, <3>1
    <3>2. CASE h # key.hash
      BY <1>1, <1>2, <2>3, <2>4, <2>7, <3>2 DEF Indexed, KeysTypeOK
    <3>3. QED
      BY <3>1, <3>2
  <2>8. (\A i \in KeyIDs : i \notin apiKeyIDs /\ apiKeys[i] # NoApiKey => i \in crossed)'
    BY <1>2, <2>3 DEF Indexed
  <2>9. (deleted \cap apiKeyIDs = {})'
    BY <1>1, <1>2 DEF Indexed
  <2>10. QED
    BY <2>5, <2>6, <2>7, <2>8, <2>9 DEF Indexed
<1>8. Crossings'
  BY <1>2, <1>3 DEF Crossings, Busy, Moves
<1>9. Work'
  BY <1>1, <1>2, <1>3, <1>5 DEF Work, Holds, Busy, Moves
<1>10. Answers'
  BY <1>2, <1>3 DEF Answers, Answered, Busy, Moves
<1>11. QED
  BY <1>4, <1>6, <1>7, <1>8, <1>9, <1>10

\* What is read is a record of that id; who meets another at it marks the id.
LEMMA ReadInv ==
  ASSUME KeysInv, NEW a \in Admins, ~Busy(a), NEW id \in KeyIDs, NEW next \in Request,
         next.at \in {"patch", "delete"}, next.at = "patch" => next.asked \in BOOLEAN,
         next.id = id, next.told = "nothing", getApiKeyByID(a, id, next)
  PROVE  KeysInv'
<1>. USE DEF KeysInv
<1>1. UNCHANGED <<apiKeys, apiKeyIDs, apiKeyHashes, nextKeyID, drawn, deleted>>
  BY DEF getApiKeyByID
<1>2. /\ admin' \in [Admins -> Request] /\ \A b \in Admins : b # a => admin'[b] = admin[b]
      /\ admin'[a].id = id /\ admin'[a].asked = next.asked
      /\ IF apiKeys[id] = NoApiKey
         THEN admin'[a].at = "idle" /\ admin'[a].told = "not found"
         ELSE admin'[a].at = next.at /\ admin'[a].told = "nothing" /\ admin'[a].key = apiKeys[id]
  <2>. DEFINE new == IF apiKeys[id] = NoApiKey THEN [next EXCEPT !.at = "idle", !.told = "not found"]
                     ELSE [next EXCEPT !.key = apiKeys[id]]
  <2>1. /\ new \in Request /\ new.id = id /\ new.asked = next.asked
        /\ IF apiKeys[id] = NoApiKey
           THEN new.at = "idle" /\ new.told = "not found"
           ELSE new.at = next.at /\ new.told = "nothing" /\ new.key = apiKeys[id]
    BY DEF Request, KeysTypeOK
  <2>2. admin' = [admin EXCEPT ![a] = new]
    BY DEF getApiKeyByID
  <2>3. QED
    BY <2>1, <2>2 DEF KeysTypeOK
<1>3. /\ crossed \subseteq crossed' /\ crossed' \subseteq crossed \cup {id}
      /\ \A b \in Admins : b # a /\ Busy(b) /\ admin[b].id = id => id \in crossed'
  BY DEF getApiKeyByID, Busy
<1>4. KeysTypeOK'
  BY <1>1, <1>2, <1>3 DEF KeysTypeOK, Moves
<1>5. Issued'
  <2>1. ASSUME NEW i \in KeyIDs, NEW g \in Hashes, Has(i, g)' PROVE Has(i, g)
    <3>1. CASE apiKeys[i] # NoApiKey /\ apiKeys[i].hash = g
      BY <3>1 DEF Has
    <3>2. ASSUME NEW b \in Admins, Busy(b)', admin'[b].id = i, admin'[b].key.hash = g PROVE Has(i, g)
      <4>1. CASE b = a
        BY <1>2, <3>2, <4>1 DEF Has, Busy
      <4>2. CASE b # a
        BY <1>2, <3>2, <4>2 DEF Has, Busy
      <4>3. QED
        BY <4>1, <4>2
    <3>3. QED
      BY <1>1, <2>1, <3>1, <3>2 DEF Has
  <2>2. QED
    BY <1>1, <2>1, SameIssued
<1>6. Indexed'
  BY <1>1, <1>3 DEF Indexed
<1>7. Crossings'
  <2>1. \A b \in Admins : Busy(b) /\ admin[b].id = id /\ Busy(a)' => admin[b].at # "create"
    BY <1>2 DEF Work, Holds, Busy
  <2>2. Busy(a)' => admin'[a].at # "create"
    BY <1>2 DEF Busy
  <2>3. ASSUME NEW b \in Admins, NEW c \in Admins, b # c, Busy(b)', Busy(c)', admin'[b].id = admin'[c].id
        PROVE  admin'[b].id \in crossed' /\ admin'[b].at # "create"
    <3>1. CASE b = a
      BY <1>2, <1>3, <2>2, <2>3, <3>1 DEF Busy
    <3>2. CASE c = a
      BY <1>2, <1>3, <2>1, <2>3, <3>2 DEF Busy
    <3>3. CASE b # a /\ c # a
      BY <1>2, <1>3, <2>3, <3>3 DEF Crossings, Busy
    <3>4. QED
      BY <3>1, <3>2, <3>3
  <2>4. QED
    BY <2>3 DEF Crossings
<1>8. Work'
  <2>1. apiKeys[id] # NoApiKey => apiKeys[id] \in ApiKey /\ apiKeys[id].id = id
    BY DEF Indexed, KeysTypeOK
  <2>2. apiKeys[id] # NoApiKey => id \in apiKeyIDs \cup crossed
    BY DEF Indexed
  <2>3. Holds(a)'
    <3>1. CASE apiKeys[id] = NoApiKey
      BY <1>2, <3>1 DEF Holds, Busy
    <3>2. CASE apiKeys[id] # NoApiKey
      BY <1>1, <1>2, <1>3, <2>1, <2>2, <3>2 DEF Holds, Busy
    <3>3. QED
      BY <3>1, <3>2
  <2>4. ASSUME NEW b \in Admins, b # a PROVE Holds(b)'
    <3>1. Holds(b) /\ admin'[b] = admin[b]
      BY <1>2, <2>4 DEF Work
    <3>2. QED
      BY <1>1, <1>3, <3>1 DEF Holds, Busy
  <2>5. QED
    BY <2>3, <2>4 DEF Work
<1>9. Answers'
  BY <1>2, <1>3 DEF Answers, Answered, Busy, Moves
<1>10. QED
  BY <1>4, <1>5, <1>6, <1>7, <1>8, <1>9

\* What is written back has the id and the hash it had; if it is not listed any
\* more, somebody deleted it in between.
LEMMA PatchInv == ASSUME KeysInv, NEW a \in Admins, UpdateApiKeyEnabled(a) PROVE KeysInv'
<1>. DEFINE id  == admin[a].id
            key == [admin[a].key EXCEPT !.enabled = admin[a].asked]
<1>. USE DEF KeysInv
<1>1. /\ id \in KeyIDs /\ key \in ApiKey /\ key.id = id /\ key.hash = admin[a].key.hash
      /\ Has(id, key.hash) /\ key.hash \in Hashes /\ key.enabled = admin[a].asked
      /\ admin[a].asked \in BOOLEAN
  BY BusyIssued DEF UpdateApiKeyEnabled, Busy, Work, Holds, ApiKey
<1>2. /\ apiKeys' = [apiKeys EXCEPT ![id] = key]
      /\ UNCHANGED <<apiKeyIDs, apiKeyHashes, nextKeyID, drawn, deleted, crossed>>
  BY DEF UpdateApiKeyEnabled
<1>3. Moves(a, "reread", admin[a].told)
  <2>. DEFINE new == [admin[a] EXCEPT !.at = "reread"]
  <2>1. admin[a] \in Request
    BY DEF KeysTypeOK
  <2>2. /\ new \in Request /\ new.at = "reread" /\ new.told = admin[a].told
        /\ new.id = admin[a].id /\ new.asked = admin[a].asked /\ new.key = admin[a].key
    BY <2>1 DEF Request
  <2>3. admin' = [admin EXCEPT ![a] = new]
    BY DEF UpdateApiKeyEnabled
  <2>4. QED
    BY <2>2, <2>3 DEF KeysTypeOK, Moves
<1>4. KeysTypeOK'
  BY <1>1, <1>2, <1>3 DEF KeysTypeOK, Moves
<1>5. \A b \in Admins : b # a /\ Busy(b) /\ admin[b].id = id => id \in crossed /\ admin[b].at # "create"
  BY DEF Crossings, UpdateApiKeyEnabled, Busy
<1>6. Issued'
  <2>1. \A i \in KeyIDs, g \in Hashes : Has(i, g)' => Has(i, g)
    BY <1>1, <1>2, <1>3 DEF Has, Busy, UpdateApiKeyEnabled, Moves
  <2>2. QED
    BY <1>2, <2>1, SameIssued
<1>7. Indexed'
  <2>1. id \in apiKeyIDs => apiKeys[id].hash = key.hash
    BY <1>1 DEF Issued, Has, Indexed, KeysTypeOK, ApiKey
  <2>2. id \notin apiKeyIDs => id \in crossed
    BY DEF Work, Holds, UpdateApiKeyEnabled
  <2>3. key # NoApiKey /\ (apiKeys[id] # NoApiKey => apiKeys[id].id = id)
    BY <1>1, KeysAssumption DEF Indexed
  <2>. HIDE DEF id, key
  <2>4. \A i \in KeyIDs : apiKeys'[i] = IF i = id THEN key ELSE apiKeys[i]
    BY <1>2 DEF KeysTypeOK
  <2>5. \A i \in KeyIDs : apiKeys'[i] # NoApiKey => apiKeys'[i].id = i
    BY <1>1, <2>3, <2>4 DEF Indexed
  <2>6. apiKeyIDs \subseteq KeyIDs /\ \A h \in Hashes : apiKeyHashes[h] # 0 => apiKeyHashes[h] \in apiKeyIDs
    BY DEF Indexed, KeysTypeOK
  <2>7. \A i \in apiKeyIDs : apiKeys'[i] # NoApiKey /\ apiKeyHashes[apiKeys'[i].hash] = i
    <3>1. SUFFICES ASSUME NEW i \in apiKeyIDs PROVE apiKeys'[i] # NoApiKey /\ apiKeyHashes[apiKeys'[i].hash] = i
      OBVIOUS
    <3>2. i \in KeyIDs /\ apiKeys[i] # NoApiKey /\ apiKeyHashes[apiKeys[i].hash] = i
      BY <2>6, <3>1 DEF Indexed
    <3>3. CASE i = id
      <4>1. apiKeys'[i] = key /\ key.hash = apiKeys[i].hash
        BY <2>1, <2>4, <3>1, <3>2, <3>3
      <4>2. QED
        BY <2>3, <3>2, <4>1
    <3>4. CASE i # id
      BY <2>4, <3>2, <3>4
    <3>5. QED
      BY <3>3, <3>4
  <2>8. \A h \in Hashes : apiKeyHashes[h] # 0 => apiKeys'[apiKeyHashes[h]].hash = h
    <3>1. SUFFICES ASSUME NEW h \in Hashes, apiKeyHashes[h] # 0 PROVE apiKeys'[apiKeyHashes[h]].hash = h
      OBVIOUS
    <3>. DEFINE i == apiKeyHashes[h]
    <3>2. i \in apiKeyIDs /\ i \in KeyIDs /\ apiKeys[i].hash = h
      BY <2>6, <3>1 DEF Indexed
    <3>. HIDE DEF i
    <3>3. CASE i = id
      <4>1. apiKeys'[i] = key /\ key.hash = h
        BY <2>1, <2>4, <3>2, <3>3
      <4>2. QED
        BY <4>1 DEF i
    <3>4. CASE i # id
      <4>1. apiKeys'[i] = apiKeys[i]
        BY <2>4, <3>2, <3>4
      <4>2. QED
        BY <3>2, <4>1 DEF i
    <3>5. QED
      BY <3>3, <3>4
  <2>9. \A i \in KeyIDs : i \notin apiKeyIDs /\ apiKeys'[i] # NoApiKey => i \in crossed
    BY <2>2, <2>4 DEF Indexed
  <2>10. QED
    BY <1>2, <2>5, <2>6, <2>7, <2>8, <2>9 DEF Indexed
<1>8. Crossings'
  BY <1>2, <1>3 DEF Crossings, Busy, UpdateApiKeyEnabled, Moves
<1>9. Work'
  <2>1. Holds(a)'
    <3>1. apiKeys'[id] = key /\ key # NoApiKey
      BY <1>1, <1>2 DEF KeysTypeOK
    <3>2. admin[a].key \in ApiKey /\ admin[a].key.id = id /\ admin[a].told = "nothing"
      BY DEF Work, Holds, Busy, UpdateApiKeyEnabled
    <3>3. /\ admin'[a].at = "reread" /\ admin'[a].told = "nothing" /\ admin'[a].id = id
          /\ admin'[a].asked = admin[a].asked /\ admin'[a].key = admin[a].key
      BY <1>3, <3>2 DEF Moves
    <3>4. QED
      BY <1>1, <3>1, <3>2, <3>3 DEF Holds, Busy
  <2>2. ASSUME NEW b \in Admins, b # a PROVE Holds(b)'
    BY <1>1, <1>2, <1>3, <1>5, <2>2 DEF Work, Holds, Busy, KeysTypeOK, Moves
  <2>3. QED
    BY <2>1, <2>2 DEF Work
<1>10. Answers'
  BY <1>2, <1>3 DEF Answers, Answered, Busy, Moves
<1>11. QED
  BY <1>4, <1>6, <1>7, <1>8, <1>9, <1>10

\* If nobody else was at the id, the record is still the one that was written.
LEMMA RereadInv == ASSUME KeysInv, NEW a \in Admins, GetApiKeyByID(a) PROVE KeysInv'
<1>. DEFINE id  == admin[a].id
            key == apiKeys[id]
<1>. USE DEF KeysInv
<1>1. UNCHANGED <<apiKeys, apiKeyIDs, apiKeyHashes, nextKeyID, drawn, deleted, crossed>>
  BY DEF GetApiKeyByID
<1>2. PICK told \in {"error", "enabled", "disabled"} :
        /\ told = CASE key = NoApiKey -> "error" [] key # NoApiKey /\ key.enabled -> "enabled" [] OTHER -> "disabled"
        /\ Told(a, told)
  BY DEF GetApiKeyByID
<1>3. Moves(a, "idle", told)
  BY <1>2, ToldMoves
<1>4. KeysTypeOK'
  BY <1>1, <1>3 DEF KeysTypeOK, Moves
<1>5. Issued'
  <2>1. \A i \in KeyIDs, g \in Hashes : Has(i, g)' => Has(i, g)
    BY <1>1, <1>3 DEF Has, Busy, Moves
  <2>2. QED
    BY <1>1, <2>1, SameIssued
<1>6. Indexed'
  BY <1>1 DEF Indexed
<1>7. Crossings'
  BY <1>1, <1>3 DEF Crossings, Busy, Moves
<1>8. Work'
  BY <1>1, <1>3 DEF Work, Holds, Busy, Moves
<1>9. Answers'
  <2>1. Answered(a)'
    <3>1. CASE id \in crossed
      BY <1>1, <1>3, <3>1 DEF Answered, Moves
    <3>2. CASE id \notin crossed
      <4>1. key # NoApiKey /\ key.enabled = admin[a].asked /\ admin[a].asked \in BOOLEAN
        BY <3>2 DEF GetApiKeyByID, Work, Holds
      <4>2. (told = "enabled") <=> admin[a].asked
        BY <1>2, <4>1
      <4>3. admin'[a].told = told /\ admin'[a].asked = admin[a].asked
        BY <1>3 DEF Moves
      <4>4. (admin'[a].told = "enabled") = admin'[a].asked
        BY <4>1, <4>2, <4>3
      <4>5. QED
        BY <4>4 DEF Answered
    <3>3. QED
      BY <3>1, <3>2
  <2>2. ASSUME NEW b \in Admins, b # a PROVE Answered(b)'
    BY <1>1, <1>3, <2>2 DEF Answers, Answered, Busy, Moves
  <2>3. QED
    BY <2>1, <2>2 DEF Answers
<1>10. QED
  BY <1>4, <1>5, <1>6, <1>7, <1>8, <1>9

\* The record, the list and the index lose the key in one step.
LEMMA DeleteInv == ASSUME KeysInv, NEW a \in Admins, DeleteApiKey(a) PROVE KeysInv'
<1>. DEFINE id  == admin[a].id
            key == admin[a].key
<1>. USE DEF KeysInv
<1>1. /\ id \in KeyIDs /\ id <= nextKeyID /\ key.id = id /\ key.hash \in Hashes /\ Has(id, key.hash)
  BY BusyIssued DEF DeleteApiKey, Busy
<1>2. /\ apiKeys' = [apiKeys EXCEPT ![id] = NoApiKey] /\ apiKeyIDs' = apiKeyIDs \ {id}
      /\ apiKeyHashes' = [apiKeyHashes EXCEPT ![key.hash] = 0] /\ deleted' = deleted \cup {id}
      /\ UNCHANGED <<nextKeyID, drawn, crossed>>
  BY <1>1 DEF DeleteApiKey
<1>3. Moves(a, "idle", "deleted")
  BY ToldMoves DEF DeleteApiKey
<1>4. KeysTypeOK'
  <2>1. apiKeys' \in [KeyIDs -> ApiKey \cup {NoApiKey}]
    BY <1>1, <1>2 DEF KeysTypeOK
  <2>2. apiKeyHashes' \in [Hashes -> 0..MaxKeyID]
    BY <1>1, <1>2 DEF KeysTypeOK
  <2>3. QED
    BY <1>1, <1>2, <1>3, <2>1, <2>2 DEF KeysTypeOK, Moves
<1>5. \A b \in Admins : b # a /\ Busy(b) /\ admin[b].id = id => id \in crossed /\ admin[b].at # "create"
  BY DEF Crossings, DeleteApiKey, Busy
<1>6. Issued'
  <2>1. \A i \in KeyIDs, g \in Hashes : Has(i, g)' => Has(i, g)
    BY <1>1, <1>2, <1>3 DEF Has, Busy, Moves
  <2>2. QED
    BY <1>1, <1>2, <2>1, SameIssued DEF KeysTypeOK
<1>7. Indexed'
  <2>1. \A i \in KeyIDs : i # id /\ apiKeys[i] # NoApiKey => apiKeys[i].hash # key.hash
    BY <1>1 DEF Issued, Has, KeysTypeOK, ApiKey
  <2>2. \A h \in Hashes : h # key.hash => apiKeyHashes[h] # id
    BY <1>1 DEF Issued, Indexed, Has, KeysTypeOK
  <2>3. \A i \in KeyIDs : i # id => apiKeys'[i] = apiKeys[i]
    BY <1>2 DEF KeysTypeOK
  <2>4. apiKeys'[id] = NoApiKey /\ apiKeyHashes'[key.hash] = 0
    BY <1>1, <1>2 DEF KeysTypeOK
  <2>5. \A h \in Hashes : h # key.hash => apiKeyHashes'[h] = apiKeyHashes[h]
    BY <1>2 DEF KeysTypeOK
  <2>6. (\A i \in KeyIDs : apiKeys[i] # NoApiKey => apiKeys[i].id = i)'
    BY <2>3, <2>4 DEF Indexed
  <2>7. ASSUME NEW i \in apiKeyIDs'
        PROVE  apiKeys'[i] # NoApiKey /\ apiKeyHashes'[apiKeys'[i].hash] = i
    <3>1. i \in apiKeyIDs /\ i \in KeyIDs /\ i # id /\ apiKeys[i] # NoApiKey
      BY <1>2, <2>7 DEF Indexed, KeysTypeOK
    <3>2. apiKeys[i].hash \in Hashes
      BY <3>1 DEF KeysTypeOK, ApiKey
    <3>3. QED
      BY <2>1, <2>3, <2>5, <3>1, <3>2 DEF Indexed
  <2>8. ASSUME NEW h \in Hashes, apiKeyHashes'[h] # 0
        PROVE  apiKeyHashes'[h] \in apiKeyIDs' /\ apiKeys'[apiKeyHashes'[h]].hash = h
    <3>1. h # key.hash
      BY <2>4, <2>8
    <3>2. apiKeyHashes'[h] = apiKeyHashes[h] /\ apiKeyHashes[h] \in apiKeyIDs /\ apiKeyHashes[h] # id
      BY <2>2, <2>5, <2>8, <3>1 DEF Indexed
    <3>3. QED
      BY <1>2, <2>3, <2>8, <3>2 DEF Indexed, KeysTypeOK
  <2>9. (\A i \in KeyIDs : i \notin apiKeyIDs /\ apiKeys[i] # NoApiKey => i \in crossed)'
    BY <1>2, <2>3, <2>4 DEF Indexed
  <2>10. (deleted \cap apiKeyIDs = {})'
    BY <1>2 DEF Indexed
  <2>11. QED
    BY <2>6, <2>7, <2>8, <2>9, <2>10 DEF Indexed
<1>8. Crossings'
  BY <1>2, <1>3 DEF Crossings, Busy, Moves
<1>9. Work'
  <2>1. Holds(a)'
    BY <1>3 DEF Holds, Busy, Moves
  <2>2. ASSUME NEW b \in Admins, b # a PROVE Holds(b)'
    BY <1>1, <1>2, <1>3, <1>5, <2>2 DEF Work, Holds, Busy, KeysTypeOK, Moves
  <2>3. QED
    BY <2>1, <2>2 DEF Work
<1>10. Answers'
  BY <1>2, <1>3 DEF Answers, Answered, Busy, Moves
<1>11. QED
  BY <1>4, <1>6, <1>7, <1>8, <1>9, <1>10

LEMMA FailInv == ASSUME KeysInv, NEW a \in Admins, RedisFails(a) PROVE KeysInv'
<1>. USE DEF KeysInv
<1>1. UNCHANGED <<apiKeys, apiKeyIDs, apiKeyHashes, nextKeyID, drawn, deleted, crossed>>
  BY DEF RedisFails
<1>2. Moves(a, "idle", "error")
  BY ToldMoves DEF RedisFails
<1>3. KeysTypeOK' /\ Indexed'
  BY <1>1, <1>2 DEF KeysTypeOK, Indexed, Moves
<1>4. Issued'
  <2>1. \A i \in KeyIDs, g \in Hashes : Has(i, g)' => Has(i, g)
    BY <1>1, <1>2 DEF Has, Busy, Moves
  <2>2. QED
    BY <1>1, <2>1, SameIssued
<1>5. Crossings' /\ Work' /\ Answers'
  BY <1>1, <1>2 DEF Crossings, Work, Holds, Answers, Answered, Busy, Moves
<1>6. QED
  BY <1>3, <1>4, <1>5

LEMMA StepInv == KeysInv /\ [KeysNext]_keyVars => KeysInv'
<1>. SUFFICES ASSUME KeysInv, [KeysNext]_keyVars PROVE KeysInv'
  OBVIOUS
<1>1. ASSUME NEW a \in Admins, NEW hash \in Hashes, HandleKeysPost(a, hash) PROVE KeysInv'
  BY <1>1, PostInv
<1>2. ASSUME NEW a \in Admins, NEW id \in KeyIDs, NEW enabled \in BOOLEAN, HandleKeyPatch(a, id, enabled)
      PROVE  KeysInv'
  <2>. DEFINE next == [Idle EXCEPT !.at = "patch", !.id = id, !.asked = enabled]
  <2>1. next \in Request /\ next.at = "patch" /\ next.id = id /\ next.asked = enabled /\ next.told = "nothing"
    <3>1. id \in 0..MaxKeyID
      OBVIOUS
    <3>2. QED
      BY <3>1, IdleType DEF Request
  <2>2. ~Busy(a) /\ getApiKeyByID(a, id, next)
    BY <1>2 DEF HandleKeyPatch, Busy
  <2>3. QED
    BY <2>1, <2>2, ReadInv
<1>3. ASSUME NEW a \in Admins, NEW id \in KeyIDs, HandleKeyDelete(a, id) PROVE KeysInv'
  <2>. DEFINE next == [Idle EXCEPT !.at = "delete", !.id = id]
  <2>1. next \in Request /\ next.at = "delete" /\ next.id = id /\ next.told = "nothing"
    <3>1. id \in 0..MaxKeyID
      OBVIOUS
    <3>2. QED
      BY <3>1, IdleType DEF Request
  <2>2. ~Busy(a) /\ getApiKeyByID(a, id, next)
    BY <1>3 DEF HandleKeyDelete, Busy
  <2>3. QED
    BY <2>1, <2>2, ReadInv
<1>4. ASSUME NEW a \in Admins, CreateApiKey(a) PROVE KeysInv'
  BY <1>4, CreateInv
<1>5. ASSUME NEW a \in Admins, UpdateApiKeyEnabled(a) PROVE KeysInv'
  BY <1>5, PatchInv
<1>6. ASSUME NEW a \in Admins, GetApiKeyByID(a) PROVE KeysInv'
  BY <1>6, RereadInv
<1>7. ASSUME NEW a \in Admins, DeleteApiKey(a) PROVE KeysInv'
  BY <1>7, DeleteInv
<1>8. ASSUME NEW a \in Admins, RedisFails(a) PROVE KeysInv'
  BY <1>8, FailInv
<1>9. CASE UNCHANGED keyVars
  BY <1>9 DEF KeysInv, KeysTypeOK, Issued, Indexed, Crossings, Work, Answers, Holds, Answered, Busy, Has
<1>10. QED
  BY <1>1, <1>2, <1>3, <1>4, <1>5, <1>6, <1>7, <1>8, <1>9 DEF KeysNext

\* However any number of administrators create, change and delete keys, and whichever
\* of their calls fail: what is listed is found by its hash and nothing else is, and a
\* key deleted stays away from both (CreateApiKey, UpdateApiKeyEnabled, DeleteApiKey).
THEOREM AgreementCorrect == KeysSpec => []KeysAgree
<1>1. KeysInv => KeysAgree
  <2>. SUFFICES ASSUME KeysInv PROVE KeysAgree
    OBVIOUS
  <2>. USE DEF KeysInv
  <2>1. ASSUME NEW key \in ListApiKeys PROVE GetApiKeyByHash(key.hash) = key
    <3>1. PICK i \in apiKeyIDs : key = apiKeys[i] /\ apiKeys[i] # NoApiKey
      BY DEF ListApiKeys, getApiKeysByIDs
    <3>2. apiKeyHashes[key.hash] = i /\ i # 0
      BY <3>1 DEF Indexed, KeysTypeOK
    <3>3. QED
      BY <3>1, <3>2 DEF GetApiKeyByHash
  <2>2. ASSUME NEW hash \in Hashes, apiKeyHashes[hash] # 0
        PROVE  GetApiKeyByHash(hash) \in ListApiKeys /\ GetApiKeyByHash(hash).hash = hash
    BY <2>2 DEF Indexed, GetApiKeyByHash, ListApiKeys, getApiKeysByIDs
  <2>3. ASSUME NEW a \in Admins, admin[a].told \in {"enabled", "disabled"}, admin[a].id \notin crossed
        PROVE  (admin[a].told = "enabled") = admin[a].asked
    BY <2>3 DEF Answers, Answered, Work, Holds
  <2>4. QED
    BY <2>1, <2>2, <2>3 DEF KeysAgree, Indexed
<1>2. QED
  BY InitInv, StepInv, <1>1, PTL DEF KeysSpec
=============================================================================
