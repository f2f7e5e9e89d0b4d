---------------------------- MODULE ModelRecords ----------------------------
(***************************************************************************)
(* The model records in Redis (internal/store/redis_store.go, store.go),   *)
(* the administration that changes them (internal/api/api.go), the refresh *)
(* from the providers (cmd/server/model_refresh.go) and the lookups that   *)
(* serve requests (internal/handler).  A record is found by two indexes,   *)
(* its name and its channel and name, which are kept by hand and repaired  *)
(* when they miss; a change is several calls to Redis, between which       *)
(* another client's calls may come.                                        *)
(***************************************************************************)
EXTENDS Naturals, Sequences, SequencesExt, FiniteSets, FiniteSetsExt

CONSTANTS
  Clients,            \* concurrent administrators and refreshes
  Channels, ChannelKey,      \* channels as they are written -> the channel they mean
  Names, Statuses,
  Seeds,              \* names of the first records of "Puter", the default first
  Offers, Outcomes,  \* what a provider offers; what the accounts say of one model
  NoModelRecord, NoLook,
  MaxID, MaxOps       \* bounds

IDs == 1..MaxID

Model == [id : IDs, channel : Channels, name : Names, isDefault : BOOLEAN, status : Statuses \cup {"available"}]

ASSUME ModelRecordsAssumption ==
  /\ {MaxID, MaxOps} \subseteq Nat
  /\ DOMAIN ChannelKey = Channels /\ "Puter" \in Channels
  /\ Seeds \in Seq(Names) /\ Len(Seeds) <= MaxID
  /\ Offers \subseteq Seq(Names)
  /\ NoModelRecord \notin Model

VARIABLES
  records, listed,      \* models:id:N, models:ids
  byName, byChannel,    \* the two indexes, 0 for no entry
  nextID,
  work, looked,         \* per client: store calls left, and what the current one has read
  repair,               \* a lookup's write to an index, under way
  ops,                  \* history: changes begun
  modelsCrossed,        \* history: two came to one record, or what one asked of Redis was lost
  renamed               \* history: names left

modelVars == <<records, listed, byName, byChannel, nextID, work, looked, repair, ops, modelsCrossed, renamed>>

\* seedModels, in an empty store.
RecordsInit ==
  /\ records = [id \in IDs |->
       IF id \in DOMAIN Seeds
       THEN [id |-> id, channel |-> "Puter", name |-> Seeds[id], isDefault |-> id = 1, status |-> "available"]
       ELSE NoModelRecord]
  /\ listed = DOMAIN Seeds
  /\ byName = [n \in Names |-> IF n \in ToSet(Seeds) THEN Min({i \in DOMAIN Seeds : Seeds[i] = n}) ELSE 0]
  /\ byChannel = [k \in Range(ChannelKey) \X Names |->
       IF k[1] = ChannelKey["Puter"] /\ k[2] \in ToSet(Seeds) THEN Max({i \in DOMAIN Seeds : Seeds[i] = k[2]}) ELSE 0]
  /\ nextID = Len(Seeds)
  /\ work = [c \in Clients |-> <<>>] /\ looked = [c \in Clients |-> NoLook]
  /\ repair = NoLook
  /\ ops = 0 /\ modelsCrossed = FALSE /\ renamed = {}

ListModels == {records[id] : id \in {i \in listed : records[i] # NoModelRecord}}

Ascending(numbers) ==
  CHOOSE s \in [1..Cardinality(numbers) -> numbers] : \A i, j \in DOMAIN s : i < j => s[i] < s[j]

InOrder(models) ==
  LET ids == Ascending({m.id : m \in models})
  IN  [i \in DOMAIN ids |-> CHOOSE m \in models : m.id = ids[i]]

\* The elements of a sequence that pass the test.
Only(s, Test(_)) ==
  LET at == Ascending({i \in DOMAIN s : Test(s[i])})
  IN  [i \in DOMAIN at |-> s[at[i]]]

-----------------------------------------------------------------------------
(* A client's work. *)

\* `ready': what other records must be told first has been found out.
StoreCall(op, model) == [op |-> op, model |-> model, ready |-> op = "delete" \/ ~model.isDefault]

Begin(c, calls) ==
  /\ work[c] = <<>> /\ calls # <<>> /\ ops < MaxOps
  /\ work' = [work EXCEPT ![c] = calls]
  /\ ops' = ops + 1
  /\ UNCHANGED <<records, listed, byName, byChannel, nextID, looked, repair, modelsCrossed, renamed>>

\* The administration: a new model, another text for a record, a deletion.  A record
\* need not exist any more; numbers never given out are left out of the inputs.
HandleModels(c, channel, name, isDefault, status) ==
  Begin(c, <<StoreCall("create", [id |-> 0, channel |-> channel, name |-> name, isDefault |-> isDefault, status |-> status])>>)

HandleModelPut(c, id, channel, name, isDefault, status) ==
  Begin(c, <<StoreCall("update", [id |-> id, channel |-> channel, name |-> name, isDefault |-> isDefault, status |-> status])>>)

HandleModelDelete(c, id) == Begin(c, <<StoreCall("delete", [id |-> id])>>)

\* A new default clears the flag of its channel's others first.
ClearDefaults(c) ==
  /\ work[c] # <<>> /\ ~Head(work[c]).ready
  /\ LET call   == Head(work[c])
         others == {m \in ListModels : m.channel = call.model.channel /\ m.isDefault
                                         /\ (call.op = "update" => m.id # call.model.id)}
         clear  == [i \in DOMAIN InOrder(others) |-> StoreCall("update", [InOrder(others)[i] EXCEPT !.isDefault = FALSE])]
     IN  work' = [work EXCEPT ![c] = clear \o <<[call EXCEPT !.ready = TRUE]>> \o Tail(@)]
  /\ UNCHANGED <<records, listed, byName, byChannel, nextID, looked, repair, ops, modelsCrossed, renamed>>

Doing(c, op) == work[c] # <<>> /\ Head(work[c]).ready /\ Head(work[c]).op = op

Done(c) == work' = [work EXCEPT ![c] = Tail(@)] /\ looked' = [looked EXCEPT ![c] = NoLook]

\* Somebody is between reading the record and writing what follows from it.
LookedAt(id) ==
  \/ \E d \in Clients : looked[d] # NoLook /\ Head(work[d]).model.id = id
  \/ repair # NoLook /\ repair.id = id

\* An update or a deletion reads the record; an error counts as no record.
GetModel(c, lost) ==
  /\ Doing(c, "update") \/ Doing(c, "delete")
  /\ looked[c] = NoLook
  /\ LET id == Head(work[c]).model.id
     IN  /\ looked' = [looked EXCEPT ![c] =
                         [prev |-> IF lost THEN NoModelRecord ELSE records[id], owner |-> 0, known |-> FALSE]]
         /\ modelsCrossed' = (modelsCrossed \/ LookedAt(id) \/ lost)
  /\ UNCHANGED <<records, listed, byName, byChannel, nextID, work, repair, ops, renamed>>

\* The model whose name is at stake: the new one, or the one that was read.
NamedModel(c) == IF Head(work[c]).op = "update" THEN Head(work[c]).model ELSE looked[c].prev

\* Then it reads who owns the name; an error counts as nobody.
GetOwner(c, lost) ==
  /\ looked[c] # NoLook /\ ~looked[c].known
  /\ looked' = [looked EXCEPT ![c].known = TRUE,
                              ![c].owner = IF lost \/ NamedModel(c) = NoModelRecord THEN 0 ELSE byName[NamedModel(c).name]]
  /\ modelsCrossed' = (modelsCrossed \/ lost)
  /\ UNCHANGED <<records, listed, byName, byChannel, nextID, work, repair, ops, renamed>>

Knows(c) == looked[c] # NoLook /\ looked[c].known

At(model) == <<ChannelKey[model.channel], model.name>>

\* A name that is taken stays with its owner; the channel's entry goes to the newest.
CreateModel(c) ==
  /\ Doing(c, "create") /\ nextID < MaxID
  /\ LET model == [Head(work[c]).model EXCEPT !.id = nextID + 1]
     IN  /\ records'   = [records EXCEPT ![model.id] = model]
         /\ listed'    = listed \cup {model.id}
         /\ byName'    = [byName EXCEPT ![model.name] = IF @ = 0 THEN model.id ELSE @]
         /\ byChannel' = [byChannel EXCEPT ![At(model)] = model.id]
  /\ nextID' = nextID + 1
  /\ Done(c)
  /\ UNCHANGED <<repair, ops, modelsCrossed, renamed>>

\* Mutant: an update that leaves a channel's entry leaves it there.
UpdateModelOnly(c) ==
  /\ Doing(c, "update") /\ Knows(c)
  /\ LET model == Head(work[c]).model
         prev  == looked[c].prev
         owner == looked[c].owner
     IN  /\ records'   = [records EXCEPT ![model.id] = model]
         /\ listed'    = listed \cup {model.id}
         /\ byChannel' = [byChannel EXCEPT ![At(model)] = model.id]
         /\ byName'    = [byName EXCEPT ![model.name] = IF owner \in {0, model.id} THEN model.id ELSE @]
         /\ renamed'   = renamed \cup (IF prev # NoModelRecord /\ prev.name # model.name THEN {prev.name} ELSE {})
  /\ Done(c)
  /\ UNCHANGED <<nextID, repair, ops, modelsCrossed>>

\* The former channel's entry goes, whoever it names by now; the former name's stays.
UpdateModel(c) ==
  /\ Doing(c, "update") /\ Knows(c)
  /\ LET model == Head(work[c]).model
         prev  == looked[c].prev
         owner == looked[c].owner
         gone  == IF prev = NoModelRecord THEN {} ELSE {At(prev)} \ {At(model)}
     IN  /\ records'   = [records EXCEPT ![model.id] = model]
         /\ listed'    = listed \cup {model.id}
         /\ byChannel' = [k \in DOMAIN byChannel |->
                            IF k = At(model) THEN model.id ELSE IF k \in gone THEN 0 ELSE byChannel[k]]
         /\ byName'    = [byName EXCEPT ![model.name] = IF owner \in {0, model.id} THEN model.id ELSE @]
         /\ renamed'   = renamed \cup (IF prev # NoModelRecord /\ prev.name # model.name THEN {prev.name} ELSE {})
  /\ Done(c)
  /\ UNCHANGED <<nextID, repair, ops, modelsCrossed>>

DeleteModel(c) ==
  /\ Doing(c, "delete") /\ Knows(c)
  /\ LET id   == Head(work[c]).model.id
         prev == looked[c].prev
     IN  /\ records' = [records EXCEPT ![id] = NoModelRecord]
         /\ listed'  = listed \ {id}
         /\ IF prev = NoModelRecord THEN UNCHANGED <<byName, byChannel>>
            ELSE /\ byName'    = [byName EXCEPT ![prev.name] = IF looked[c].owner = id THEN 0 ELSE @]
                 /\ byChannel' = [byChannel EXCEPT ![At(prev)] = 0]
  /\ Done(c)
  /\ UNCHANGED <<nextID, repair, ops, modelsCrossed, renamed>>

-----------------------------------------------------------------------------
(* The refresh. *)

\* A model counts as verified if one account may use it.
verifyPuterDiscoveredModelsConcurrent(choices, answers) ==
  Only(choices, LAMBDA name : "ok" \in answers[name])

\* Without accounts, or if all that was learnt is that they have no money, the public
\* list is believed; if nothing is verified otherwise, the refresh fails.
discoverPuterModelsConcurrent(choices, answers, accounts) ==
  LET verified == verifyPuterDiscoveredModelsConcurrent(choices, answers)
  IN  CASE ~accounts -> choices
        [] accounts /\ verified # <<>> -> verified
        [] OTHER -> IF \E name \in ToSet(choices) : "funds" \in answers[name] THEN choices ELSE <<>>

discoverKimchiModels(choices, accounts) == IF accounts THEN choices ELSE <<>>

discoverModelsForChannelConcurrent(channel, choices, answers, accounts) ==
  CASE channel = "Puter"  -> discoverPuterModelsConcurrent(choices, answers, accounts)
    [] channel = "Kimchi" -> discoverKimchiModels(choices, accounts)
    [] OTHER              -> <<>>

\* Of records with the same name the list's last one counts.
ExistingByID(channel) ==
  LET same == {m \in ListModels : ChannelKey[m.channel] = ChannelKey[channel]}
  IN  {m \in same : \A n \in same : n.name = m.name => n.id <= m.id}

\* The default among those found, or else the first of them.
chooseRefreshedDefaultModel(channel, found) ==
  LET kept == Only(found, LAMBDA name : \E m \in ExistingByID(channel) : m.name = name /\ m.isDefault)
  IN  IF kept # <<>> THEN kept[1] ELSE found[1]

\* Adds what is missing; nothing is changed or deleted.
applyModelRefresh(c, channel, found) ==
  LET missing == Only(found, LAMBDA name : \A m \in ExistingByID(channel) : m.name # name)
  IN  /\ found # <<>>
      /\ Begin(c, [i \in DOMAIN missing |->
           StoreCall("create", [id |-> 0, channel |-> channel, name |-> missing[i], status |-> "available",
                           isDefault |-> missing[i] = chooseRefreshedDefaultModel(channel, found)])])

syncModelsForChannelConcurrent(c, channel, choices, answers, accounts) ==
  /\ work[c] = <<>> /\ ops < MaxOps
  /\ applyModelRefresh(c, channel, discoverModelsForChannelConcurrent(channel, choices, answers, accounts))

-----------------------------------------------------------------------------
(* Lookups. *)

ExistingRecord(id) == id # 0 /\ records[id] # NoModelRecord

\* The entry, if there is a record; else the first record that fits.
FoundRecord(entry, Fits(_)) ==
  LET fitting == {m \in ListModels : Fits(m)}
  IN  IF ExistingRecord(entry) THEN records[entry]
      ELSE IF fitting = {} THEN NoModelRecord ELSE InOrder(fitting)[1]

ByName(name) == FoundRecord(byName[name], LAMBDA m : m.name = name)
ByChannel(channel, name) == FoundRecord(byChannel[<<ChannelKey[channel], name>>], LAMBDA m : At(m) = <<ChannelKey[channel], name>>)

\* A lookup that misses an entry writes it again, after it has read the list.
GetModelByModelID(name) ==
  /\ repair = NoLook /\ ~ExistingRecord(byName[name]) /\ ByName(name) # NoModelRecord
  /\ repair' = [index |-> "name", at |-> name, id |-> ByName(name).id]
  /\ modelsCrossed' = (modelsCrossed \/ LookedAt(ByName(name).id))
  /\ UNCHANGED <<records, listed, byName, byChannel, nextID, work, looked, ops, renamed>>

GetModelByChannelAndModelID(channel, name) ==
  LET at == <<ChannelKey[channel], name>>
      m  == ByChannel(channel, name)
  IN  /\ repair = NoLook /\ ~ExistingRecord(byChannel[at]) /\ m # NoModelRecord
      /\ repair' = [index |-> "channel", at |-> at, id |-> m.id]
      /\ modelsCrossed' = (modelsCrossed \/ LookedAt(m.id))
      /\ UNCHANGED <<records, listed, byName, byChannel, nextID, work, looked, ops, renamed>>

Repair ==
  /\ repair # NoLook
  /\ IF repair.index = "name" THEN byName' = [byName EXCEPT ![repair.at] = repair.id] /\ UNCHANGED byChannel
     ELSE byChannel' = [byChannel EXCEPT ![repair.at] = repair.id] /\ UNCHANGED byName
  /\ repair' = NoLook
  /\ UNCHANGED <<records, listed, nextID, work, looked, ops, modelsCrossed, renamed>>

\* What a request for the channel may use.
validateModelAvailability(channel, name) ==
  LET m == ByChannel(channel, name)
  IN  m # NoModelRecord /\ m.status = "available" /\ ChannelKey[m.channel] = ChannelKey[channel]

\* What the public list shows for it.
isVisiblePublicModel(m, channel) == ChannelKey[m.channel] = ChannelKey[channel] /\ m.status = "available"

RecordsNext ==
  \/ \E c \in Clients :
       \/ \E channel \in Channels, name \in Names, isDefault \in BOOLEAN, status \in Statuses :
            \/ HandleModels(c, channel, name, isDefault, status)
            \/ \E id \in 1..nextID : HandleModelPut(c, id, channel, name, isDefault, status)
       \/ \E id \in 1..nextID : HandleModelDelete(c, id)
       \/ \E channel \in Channels, choices \in Offers, accounts \in BOOLEAN :
            \E answers \in [ToSet(choices) -> Outcomes] :
              syncModelsForChannelConcurrent(c, channel, choices, answers, accounts)
       \/ ClearDefaults(c) \/ (\E lost \in BOOLEAN : GetModel(c, lost) \/ GetOwner(c, lost))
       \/ CreateModel(c) \/ UpdateModel(c) \/ DeleteModel(c)
  \/ \E name \in Names : GetModelByModelID(name)
  \/ \E channel \in Channels, name \in Names : GetModelByChannelAndModelID(channel, name)
  \/ Repair

RecordsSpec == RecordsInit /\ [][RecordsNext]_modelVars

-----------------------------------------------------------------------------
(* Correctness. *)

\* What the list of a channel shows can be asked for under that channel, unless the
\* channel has the name twice, and the name alone finds a record of that name, unless
\* a record was renamed away from it.  Changes of different records may interleave in
\* any way and be half done.  Of two that come to one record, each reading before the
\* other writes, an index may be left behind, and so by one whose read failed.
ListedIsFound ==
  ~modelsCrossed =>
    \A m \in ListModels :
      /\ isVisiblePublicModel(m, m.channel) /\ (\A n \in ListModels : At(n) = At(m) => n = m)
           => validateModelAvailability(m.channel, m.name)
      /\ At(ByChannel(m.channel, m.name)) = At(m)
      /\ m.name \notin renamed => ByName(m.name).name = m.name
=============================================================================
