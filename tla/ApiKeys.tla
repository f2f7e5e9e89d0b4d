------------------------------ MODULE ApiKeys ------------------------------
(***************************************************************************)
(* The API key records in Redis (internal/store/redis_store.go) and the    *)
(* administration of them (internal/api/api.go).  A key is a record, a     *)
(* member of the list of ids and an entry of the index of hashes.  Every   *)
(* request of the administration is a few calls to Redis: between two of   *)
(* them another administrator's may come, and any of them may fail.        *)
(***************************************************************************)
EXTENDS Naturals

CONSTANTS
  Admins,        \* concurrent requests of the administration
  Hashes,        \* of the keys drawn; two keys drawn never have the same
  NoApiKey,      \* no record
  MaxKeyID       \* bound on the keys created

KeyIDs == 1..MaxKeyID

VARIABLES
  apiKeys,       \* api_keys:id:N
  apiKeyIDs,     \* api_keys:ids
  apiKeyHashes,  \* api_keys:hash:H, 0 for no entry
  nextKeyID,     \* api_keys:next_id
  admin,         \* per administrator: where the request is, its key, what it asks for and has read
  drawn, deleted, crossed   \* history: hashes drawn, ids whose deletion was confirmed,
                            \* ids two requests were about at a time

keyVars == <<apiKeys, apiKeyIDs, apiKeyHashes, nextKeyID, admin, drawn, deleted, crossed>>
keyStore == <<apiKeys, apiKeyIDs, apiKeyHashes, nextKeyID>>

ApiKey == [id : KeyIDs, hash : Hashes, enabled : BOOLEAN]

ASSUME KeysAssumption == NoApiKey \notin ApiKey /\ MaxKeyID \in Nat

Idle == [at |-> "idle", id |-> 0, asked |-> NoApiKey, key |-> NoApiKey, told |-> "nothing"]
Told(a, told) == admin' = [admin EXCEPT ![a] = [@ EXCEPT !.at = "idle", !.told = told]]

KeysInit ==
  /\ apiKeys = [id \in KeyIDs |-> NoApiKey] /\ apiKeyIDs = {}
  /\ apiKeyHashes = [h \in Hashes |-> 0] /\ nextKeyID = 0
  /\ admin = [a \in Admins |-> Idle]
  /\ drawn = {} /\ deleted = {} /\ crossed = {}

-----------------------------------------------------------------------------
(* A new key. *)

generateApiKey == Hashes \ drawn

\* The number first, then the record, the list and the index.
HandleKeysPost(a, hash) ==
  /\ admin[a].at = "idle" /\ nextKeyID < MaxKeyID /\ hash \in generateApiKey
  /\ nextKeyID' = nextKeyID + 1 /\ drawn' = drawn \cup {hash}
  /\ LET key == [id |-> nextKeyID + 1, hash |-> hash, enabled |-> TRUE]
     IN  admin' = [admin EXCEPT ![a] = [Idle EXCEPT !.at = "create", !.id = key.id, !.key = key]]
  /\ UNCHANGED <<apiKeys, apiKeyIDs, apiKeyHashes, deleted, crossed>>

CreateApiKey(a) ==
  /\ admin[a].at = "create"
  /\ LET key == admin[a].key
     IN  /\ apiKeys'      = [apiKeys EXCEPT ![key.id] = key]
         /\ apiKeyIDs'    = apiKeyIDs \cup {key.id}
         /\ apiKeyHashes' = [apiKeyHashes EXCEPT ![key.hash] = key.id]
  /\ Told(a, "created")
  /\ UNCHANGED <<nextKeyID, drawn, deleted, crossed>>

-----------------------------------------------------------------------------
(* Enabling, disabling, deleting: the record is read first. *)

getApiKeyByID(a, id, next) ==
  /\ admin' = [admin EXCEPT ![a] =
       IF apiKeys[id] = NoApiKey THEN [next EXCEPT !.at = "idle", !.told = "not found"]
       ELSE [next EXCEPT !.key = apiKeys[id]]]
  /\ crossed' = crossed \cup (IF \E b \in Admins \ {a} : admin[b].at # "idle" /\ admin[b].id = id
                              THEN {id} ELSE {})
  /\ UNCHANGED <<keyStore, drawn, deleted>>

HandleKeyPatch(a, id, enabled) ==
  /\ admin[a].at = "idle"
  /\ getApiKeyByID(a, id, [Idle EXCEPT !.at = "patch", !.id = id, !.asked = enabled])

HandleKeyDelete(a, id) ==
  /\ admin[a].at = "idle"
  /\ getApiKeyByID(a, id, [Idle EXCEPT !.at = "delete", !.id = id])

\* The whole record is written back, whether or not it is still there.
UpdateApiKeyEnabled(a) ==
  /\ admin[a].at = "patch"
  /\ apiKeys' = [apiKeys EXCEPT ![admin[a].id] = [admin[a].key EXCEPT !.enabled = admin[a].asked]]
  /\ admin' = [admin EXCEPT ![a].at = "reread"]
  /\ UNCHANGED <<apiKeyIDs, apiKeyHashes, nextKeyID, drawn, deleted, crossed>>

\* The answer is the record as it is by now.
GetApiKeyByID(a) ==
  /\ admin[a].at = "reread"
  /\ LET key == apiKeys[admin[a].id]
     IN  Told(a, CASE key = NoApiKey -> "error" [] key # NoApiKey /\ key.enabled -> "enabled" [] OTHER -> "disabled")
  /\ UNCHANGED <<keyStore, drawn, deleted, crossed>>

\* Mutant: the index of hashes is forgotten.
DeleteApiKeyAndID(a) ==
  /\ admin[a].at = "delete"
  /\ LET key == admin[a].key
     IN  /\ apiKeys'      = [apiKeys EXCEPT ![key.id] = NoApiKey]
         /\ apiKeyIDs'    = apiKeyIDs \ {key.id}
         /\ UNCHANGED apiKeyHashes
  /\ deleted' = deleted \cup {admin[a].id}
  /\ Told(a, "deleted")
  /\ UNCHANGED <<nextKeyID, drawn, crossed>>

DeleteApiKey(a) ==
  /\ admin[a].at = "delete"
  /\ LET key == admin[a].key
     IN  /\ apiKeys'      = [apiKeys EXCEPT ![key.id] = NoApiKey]
         /\ apiKeyIDs'    = apiKeyIDs \ {key.id}
         /\ apiKeyHashes' = [apiKeyHashes EXCEPT ![key.hash] = 0]
  /\ deleted' = deleted \cup {admin[a].id}
  /\ Told(a, "deleted")
  /\ UNCHANGED <<nextKeyID, drawn, crossed>>

\* A call to Redis fails, nothing of it done: the request ends with an error.
RedisFails(a) ==
  /\ admin[a].at # "idle"
  /\ Told(a, "error")
  /\ UNCHANGED <<keyStore, drawn, deleted, crossed>>

-----------------------------------------------------------------------------
(* What the administration is shown. *)

getApiKeysByIDs(ids) == {apiKeys[id] : id \in {i \in ids : apiKeys[i] # NoApiKey}}
ListApiKeys == getApiKeysByIDs(apiKeyIDs)
GetApiKeyByHash(hash) == IF apiKeyHashes[hash] = 0 THEN NoApiKey ELSE apiKeys[apiKeyHashes[hash]]

KeysNext ==
  \E a \in Admins :
    \/ \E hash \in Hashes : HandleKeysPost(a, hash)
    \/ \E id \in KeyIDs : HandleKeyDelete(a, id) \/ \E enabled \in BOOLEAN : HandleKeyPatch(a, id, enabled)
    \/ CreateApiKey(a) \/ UpdateApiKeyEnabled(a) \/ GetApiKeyByID(a) \/ DeleteApiKey(a)
    \/ RedisFails(a)

KeysSpec == KeysInit /\ [][KeysNext]_keyVars

-----------------------------------------------------------------------------
(* Correctness. *)

\* However requests and failures interleave, the list and the index of hashes agree: a
\* key listed is found by its hash, a hash finds only the key listed with it, and a
\* deletion that was confirmed is final for both.  An enabling that crossed a deletion
\* leaves a record that neither shows; nothing else does.  Who changed a key nobody else
\* was at is told what it asked for.
KeysAgree ==
  /\ \A key \in ListApiKeys : GetApiKeyByHash(key.hash) = key
  /\ \A hash \in Hashes : apiKeyHashes[hash] # 0 =>
       GetApiKeyByHash(hash) \in ListApiKeys /\ GetApiKeyByHash(hash).hash = hash
  /\ \A id \in KeyIDs : id \notin apiKeyIDs /\ apiKeys[id] # NoApiKey => id \in crossed
  /\ deleted \cap apiKeyIDs = {}
  /\ \A a \in Admins : admin[a].told \in {"enabled", "disabled"} /\ admin[a].id \notin crossed =>
       (admin[a].told = "enabled") = admin[a].asked
=============================================================================
