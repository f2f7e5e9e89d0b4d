---------------------------- MODULE AccountState ----------------------------
(***************************************************************************)
(* The availability of one upstream account: its record in Redis           *)
(* (internal/store/redis_store.go), the copies of it in the load           *)
(* balancer's cached list (internal/loadbalancer/loadbalancer.go), and     *)
(* those that write it: requests that mark or clear a status, the token    *)
(* refresh loop (cmd/server/background.go), and the account check, edit    *)
(* and deletion of the admin API (internal/api/api.go).                    *)
(*                                                                         *)
(* Copies are Account objects shared by pointer: a request that selected   *)
(* from the cached list works on the object in the list.  UpdateAccount    *)
(* reads the record to see that it exists, copies field by field from the  *)
(* caller's object, which others may be changing, and writes the record.   *)
(*                                                                         *)
(* A mark stands for the pair LastAttempt, QuotaResetAt of one marking; it *)
(* is over when the cooldown that isAccountAvailable derives from them is. *)
(* The cooldowns are longer than the life of a cached list (1 min, 5 s).   *)
(***************************************************************************)
EXTENDS Naturals, FiniteSets

CONSTANTS
  Requests,    \* request goroutines
  Refreshers,  \* the token refresh loop
  Admins,      \* requests to the admin API
  Objects,     \* memory for Account objects
  NoObject,
  Marks,
  NoMark,      \* LastAttempt is zero
  NoRecord,
  LimitsByModel   \* a codebuff account: a 429 is a matter of the model, not of the account

ASSUME ActorsAssumption ==
  /\ Requests \cap Refreshers = {} /\ Requests \cap Admins = {}
  /\ Refreshers \cap Admins = {}
  /\ NoObject \notin Objects /\ NoMark \notin Marks /\ LimitsByModel \in BOOLEAN

Actors == Requests \cup Refreshers \cup Admins

\* There is memory for the cached list, the read in flight and every actor.
ASSUME MemoryAssumption ==
  IsFiniteSet(Actors) /\ IsFiniteSet(Objects) /\ Cardinality(Actors) + 2 <= Cardinality(Objects)

\* The fields of store.Account that decide whether the account is used.
Account == [enabled : BOOLEAN, status : {"ok", "blocked"}, mark : Marks \cup {NoMark}]

NewAccount == [enabled |-> TRUE, status |-> "ok", mark |-> NoMark]

ASSUME RecordAssumption == NoRecord \notin Account

VARIABLES
  record,   \* the account in Redis
  heap,     \* the Account objects of the process
  cached,   \* lb.cachedAccounts: its object for this account
  fresh,    \* now is before lb.cacheExpires
  flight,   \* the singleflight read of the enabled accounts
  pc,       \* where an actor is
  ref,      \* the object it works on
  updated,  \* UpdateAccount: the record it is about to write
  next,     \* where it goes after UpdateAccount
  age,      \* of a mark: the list it was put on is "fresh", "expired", it is "over"
  gone,     \* history: the account was deleted, and the last list with it expired
  overlaps  \* history: updates that found the record before it was deleted

listVars == <<cached, fresh, flight>>
callVars == <<updated, next>>
vars == <<record, heap, listVars, pc, ref, callVars, age, gone, overlaps>>

Init ==
  /\ record = NewAccount
  /\ heap = [o \in Objects |-> NewAccount]
  /\ cached = NoObject
  /\ fresh = FALSE
  /\ flight = [phase |-> "none", object |-> NoObject]
  /\ pc = [a \in Actors |-> "idle"]
  /\ ref = [a \in Actors |-> NoObject]
  /\ updated = [a \in Actors |-> NewAccount]
  /\ next = [a \in Actors |-> "idle"]
  /\ age = [m \in Marks |-> "fresh"]
  /\ gone = "no"
  /\ overlaps = {}

-----------------------------------------------------------------------------
Goto(a, from, to) ==
  /\ pc[a] = from
  /\ pc' = [pc EXCEPT ![a] = to]

\* Objects that no one refers to are collected.
Heap(h) ==
  heap' = [o \in Objects |->
             IF o \in {cached', flight'.object} \cup {ref'[a] : a \in Actors}
             THEN h[o] ELSE NewAccount]

NewObject ==
  CHOOSE o \in Objects : o \notin {cached, flight.object} \cup {ref[a] : a \in Actors}

\* The object of actor a and, under lb.mu, the one in the cached list.
SetBoth(a, status, m) ==
  Heap([o \in Objects |->
          IF o \in {ref[a], cached}
          THEN [heap[o] EXCEPT !.status = status, !.mark = m] ELSE heap[o]])

\* Marks still written somewhere.
InUse ==
  {heap[o].mark : o \in Objects} \cup {updated[a].mark : a \in Actors}
    \cup (IF record = NoRecord THEN {} ELSE {record.mark})

\* time.Now() gives a mark that is not in use.
Marking(m) ==
  /\ m \in Marks \ InUse
  /\ age' = [age EXCEPT ![m] = "fresh"]

Leave(a) == ref' = [ref EXCEPT ![a] = NoObject]

-----------------------------------------------------------------------------
(* getEnabledAccounts: the cached list, or one shared read of the store. *)

Usable == fresh /\ cached # NoObject

\* Mutant: the list is used after it expired.
TakeExpiredList(r) ==
  /\ Goto(r, "idle", "checking")
  /\ cached # NoObject
  /\ ref' = [ref EXCEPT ![r] = cached]
  /\ UNCHANGED <<record, heap, listVars, callVars, age, gone, overlaps>>

TakeList(r) ==
  /\ Goto(r, "idle", "checking")
  /\ Usable
  /\ ref' = [ref EXCEPT ![r] = cached]
  /\ UNCHANGED <<record, heap, listVars, callVars, age, gone, overlaps>>

\* A list without accounts is never taken from the cache.
JoinFlight(r) ==
  /\ Goto(r, "idle", "waiting")
  /\ ~Usable
  /\ flight' = IF flight.phase = "none" THEN [flight EXCEPT !.phase = "started"] ELSE flight
  /\ UNCHANGED <<record, heap, cached, fresh, ref, callVars, age, gone, overlaps>>

\* Store.GetEnabledAccounts decodes a new object from the record.
FlightReads ==
  /\ flight.phase = "started"
  /\ LET found == record # NoRecord /\ record.enabled
     IN  /\ flight' = [phase  |-> "read",
                       object |-> IF found THEN NewObject ELSE NoObject]
         /\ UNCHANGED <<cached, ref>>
         /\ Heap(IF found THEN [heap EXCEPT ![NewObject] = record] ELSE heap)
  /\ UNCHANGED <<record, fresh, pc, callVars, age, gone, overlaps>>

\* The list is installed and every waiting request gets it.
FlightLands ==
  /\ flight.phase = "read"
  /\ cached' = flight.object
  /\ fresh' = TRUE
  /\ flight' = [phase |-> "none", object |-> NoObject]
  /\ LET to == IF flight.object = NoObject THEN "idle" ELSE "checking"
     IN  /\ pc' = [a \in Actors |-> IF pc[a] = "waiting" THEN to ELSE pc[a]]
         /\ ref' = [a \in Actors |-> IF pc[a] = "waiting" THEN flight.object ELSE ref[a]]
  /\ Heap(heap)
  /\ UNCHANGED <<record, callVars, age, gone, overlaps>>

\* The read fails, and every request that waits for it.
FlightFails ==
  /\ flight.phase = "started"
  /\ flight' = [phase |-> "none", object |-> NoObject]
  /\ pc' = [a \in Actors |-> IF pc[a] = "waiting" THEN "idle" ELSE pc[a]]
  /\ UNCHANGED <<record, heap, cached, fresh, ref, callVars, age, gone, overlaps>>

-----------------------------------------------------------------------------
(* isAccountAvailable, which reads the object without the lock. *)

\* Mutant: a status is never cleared by the passing of time.
NeverOver == {}

\* Marks whose cooldown is over; a status without a mark cools down for ever.
Over == {m \in Marks : age[m] = "over"}

Available(r) ==
  /\ Goto(r, "checking", "using")
  /\ heap[ref[r]].status = "ok"
  /\ UNCHANGED <<record, heap, listVars, ref, callVars, age, gone, overlaps>>

Unavailable(r) ==
  /\ Goto(r, "checking", "idle")
  /\ heap[ref[r]].status = "blocked" /\ heap[ref[r]].mark \notin Over
  /\ Leave(r)
  /\ UNCHANGED listVars /\ Heap(heap)
  /\ UNCHANGED <<record, callVars, age, gone, overlaps>>

\* The status is a 429, which the selection of a codebuff account disregards.
TakenAnyway(r) ==
  /\ LimitsByModel
  /\ Goto(r, "checking", "using")
  /\ heap[ref[r]].status = "blocked" /\ heap[ref[r]].mark \notin Over
  /\ UNCHANGED <<record, heap, listVars, ref, callVars, age, gone, overlaps>>

CooledDown(r) ==
  /\ Goto(r, "checking", "clearing")
  /\ heap[ref[r]].status = "blocked" /\ heap[ref[r]].mark \in Over
  /\ UNCHANGED <<record, heap, listVars, ref, callVars, age, gone, overlaps>>

\* clearAccountStatus, then persistAccountStatus.
Clear(r) ==
  /\ Goto(r, "clearing", "get")
  /\ next' = [next EXCEPT ![r] = "using"]
  /\ UNCHANGED <<listVars, ref>> /\ SetBoth(r, "ok", NoMark)
  /\ UNCHANGED <<record, updated, age, gone, overlaps>>

\* The call ends and says nothing about the account.
EndCall(r) ==
  /\ Goto(r, "using", "idle")
  /\ Leave(r)
  /\ UNCHANGED listVars /\ Heap(heap)
  /\ UNCHANGED <<record, callVars, age, gone, overlaps>>

\* lb.MarkAccountStatus after a failed call, or after a failed token refresh.
Mark(a, m) ==
  /\ Goto(a, IF a \in Requests THEN "using" ELSE "refreshing", "get")
  /\ Marking(m)
  /\ next' = [next EXCEPT ![a] = "idle"]
  /\ UNCHANGED <<listVars, ref>> /\ SetBoth(a, "blocked", m)
  /\ UNCHANGED <<record, updated, gone, overlaps>>

-----------------------------------------------------------------------------
(* Store.UpdateAccount(acc): GET, copy the fields of acc, SET. *)

\* Mutant: an account that is not found is written all the same.
GetAlways(a) ==
  /\ Goto(a, "get", "copy")
  /\ updated' = [updated EXCEPT ![a] = IF record = NoRecord THEN NewAccount ELSE record]
  /\ UNCHANGED <<record, heap, listVars, ref, next, age, gone, overlaps>>

Get(a) ==
  /\ Goto(a, "get", "copy")
  /\ record # NoRecord
  /\ updated' = [updated EXCEPT ![a] = record]
  /\ UNCHANGED <<record, heap, listVars, ref, next, age, gone, overlaps>>

\* UpdateAccount returns, and the actor goes on to a step of its own.
Done(a, to) ==
  /\ pc' = [pc EXCEPT ![a] = to]
  /\ IF to = "idle" THEN Leave(a) ELSE UNCHANGED ref
  /\ next' = [next EXCEPT ![a] = "idle"]
  /\ updated' = [updated EXCEPT ![a] = NewAccount]
  /\ overlaps' = overlaps \ {a}
  /\ UNCHANGED listVars /\ Heap(heap)

\* The account is not found, which is no error.
NotFound(a) ==
  /\ pc[a] = "get"
  /\ record = NoRecord
  /\ Done(a, next[a])
  /\ UNCHANGED <<record, age, gone>>

\* Redis fails, or the caller's context is done.  persistAccountStatus only
\* logs the error; an edit ends with it.
UpdateFails(a) ==
  /\ pc[a] \in {"get", "put"}
  /\ Done(a, IF next[a] = "using" THEN "using" ELSE "idle")
  /\ UNCHANGED <<record, age, gone>>

\* Enabled and StatusCode.
CopyStatus(a) ==
  /\ Goto(a, "copy", "copying")
  /\ updated' = [updated EXCEPT ![a].enabled = heap[ref[a]].enabled,
                               ![a].status = heap[ref[a]].status]
  /\ UNCHANGED <<record, heap, listVars, ref, next, age, gone, overlaps>>

\* LastAttempt and QuotaResetAt.
CopyTimes(a) ==
  /\ Goto(a, "copying", "put")
  /\ updated' = [updated EXCEPT ![a].mark = heap[ref[a]].mark]
  /\ UNCHANGED <<record, heap, listVars, ref, next, age, gone, overlaps>>

Put(a) ==
  /\ pc[a] = "put"
  /\ record' = updated[a]
  /\ gone' = "no"
  /\ Done(a, next[a])
  /\ UNCHANGED age

-----------------------------------------------------------------------------
(* The token refresh loop and the admin API. *)

\* The loop lists the enabled accounts; the check reads the one it is for.
Snapshot(a) ==
  /\ a \in Refreshers \cup Admins
  /\ Goto(a, "idle", "refreshing")
  /\ record # NoRecord
  /\ a \in Refreshers => record.enabled
  /\ ref' = [ref EXCEPT ![a] = NewObject]
  /\ UNCHANGED listVars /\ Heap([heap EXCEPT ![NewObject] = record])
  /\ UNCHANGED <<record, callVars, age, gone, overlaps>>

\* The tokens were refreshed: the snapshot is written back.
RefreshOK(t) ==
  /\ Goto(t, "refreshing", "get")
  /\ UNCHANGED <<record, heap, listVars, ref, callVars, age, gone, overlaps>>

\* An error that says nothing about the account, or nothing to refresh.
RefreshSkips(a) ==
  /\ Goto(a, "refreshing", "idle")
  /\ Leave(a)
  /\ UNCHANGED listVars /\ Heap(heap)
  /\ UNCHANGED <<record, callVars, age, gone, overlaps>>

\* GET /api/accounts/{id}/check: the result is set on the check's own object.
Check(d, status, m) ==
  /\ Goto(d, "refreshing", "get")
  /\ IF status = "ok" THEN m = NoMark /\ UNCHANGED age ELSE Marking(m)
  /\ UNCHANGED <<listVars, ref>>
  /\ Heap([heap EXCEPT ![ref[d]].status = status, ![ref[d]].mark = m])
  /\ UNCHANGED <<record, callVars, gone, overlaps>>

\* PUT /api/accounts/{id}: the body of the admin page carries no status.  An
\* edit without a token updates again, to add the one that is displayed.
Edit(d, enabled, again) ==
  /\ Goto(d, "refreshing", "get")
  /\ next' = [next EXCEPT ![d] = IF again THEN "get" ELSE "idle"]
  /\ UNCHANGED <<listVars, ref>>
  /\ Heap([heap EXCEPT ![ref[d]] = [NewAccount EXCEPT !.enabled = enabled]])
  /\ UNCHANGED <<record, updated, age, gone, overlaps>>

Delete(d) ==
  /\ pc[d] = "idle"
  /\ record # NoRecord
  /\ record' = NoRecord
  /\ gone' = IF Usable \/ flight.object # NoObject THEN "deleted" ELSE "expired"
  /\ overlaps' = {a \in Actors : pc[a] \in {"copy", "copying", "put"}}
  /\ UNCHANGED <<heap, listVars, pc, ref, callVars, age>>

-----------------------------------------------------------------------------
CacheExpires ==
  /\ fresh
  /\ fresh' = FALSE
  /\ age' = [m \in Marks |-> IF age[m] = "fresh" THEN "expired" ELSE age[m]]
  /\ gone' = IF gone = "deleted" /\ cached # NoObject THEN "expired" ELSE gone
  /\ UNCHANGED <<record, heap, cached, flight, pc, ref, callVars, overlaps>>

\* An UpdateAccount takes less than a cooldown.
CooldownEnds(m) ==
  /\ \A a \in Actors : pc[a] \notin {"get", "copy", "copying", "put"}
  /\ age[m] = "expired" /\ m \in InUse
  /\ age' = [age EXCEPT ![m] = "over"]
  /\ UNCHANGED <<record, heap, listVars, pc, ref, callVars, gone, overlaps>>

Update(a) ==
  Get(a) \/ NotFound(a) \/ UpdateFails(a) \/ CopyStatus(a) \/ CopyTimes(a) \/ Put(a)

Request(r) ==
  \/ TakeList(r) \/ JoinFlight(r) \/ Available(r) \/ Unavailable(r) \/ TakenAnyway(r)
  \/ CooledDown(r) \/ Clear(r) \/ EndCall(r) \/ (\E m \in Marks : Mark(r, m))
  \/ Update(r)

Refresh(t) ==
  \/ Snapshot(t) \/ RefreshOK(t) \/ RefreshSkips(t)
  \/ (\E m \in Marks : Mark(t, m)) \/ Update(t)

Administer(d) ==
  \/ Snapshot(d) \/ RefreshSkips(d) \/ Delete(d) \/ Update(d)
  \/ (\E m \in Marks : Check(d, "blocked", m)) \/ Check(d, "ok", NoMark)
  \/ (\E enabled, again \in BOOLEAN : Edit(d, enabled, again))

Next ==
  \/ \E r \in Requests : Request(r)
  \/ \E t \in Refreshers : Refresh(t)
  \/ \E d \in Admins : Administer(d)
  \/ FlightReads \/ FlightLands \/ FlightFails
  \/ CacheExpires
  \/ \E m \in Marks : CooldownEnds(m)

Spec == Init /\ [][Next]_vars

\* Requests keep coming and their goroutines run, time passes, and Redis does
\* not fail every read.
Fairness ==
  /\ \A r \in Requests : WF_vars(Request(r))
  /\ \A a \in Actors : WF_vars(Update(a))
  /\ WF_vars(FlightLands) /\ SF_vars(FlightReads)
  /\ WF_vars(CacheExpires)
  /\ \A m \in Marks : SF_vars(CooldownEnds(m))

FairSpec == Spec /\ Fairness

-----------------------------------------------------------------------------
\* A deleted account is in one list at most: the one that is cached at the time, or
\* the one of the shared read that found it before, which is then kept for a
\* whole life of a list.  Once that list has expired, or at once if there is neither,
\* no request selects the account (getEnabledAccounts, singleflight).
NotSelectedOnceExpired ==
  [][\A r \in Requests :
       pc[r] # "checking" /\ pc'[r] = "checking" => gone # "expired"]_vars

\* A deleted account comes back only through an UpdateAccount that had already
\* found it; one that starts later writes nothing (ErrNoRows).
RevivedOnlyByOverlap ==
  [][\A a \in Actors :
       record = NoRecord /\ record' # NoRecord /\ pc[a] = "put" /\ pc'[a] # "put"
         => a \in overlaps]_vars

Blocks(m) == record # NoRecord /\ record.enabled /\ record.status = "blocked" /\ record.mark = m

MarkedAgain(m) == cached # NoObject /\ heap[cached].mark \notin {m, NoMark}

\* No marking keeps an account out of use for ever: its cooldown ends, the list
\* is read again, and a request clears the status and uses the account, unless
\* the account is marked again.
Recovers ==
  \A m \in Marks :
    Blocks(m) ~> (~Blocks(m) \/ MarkedAgain(m) \/ \E r \in Requests : pc[r] = "using")

\* A status is never left without the time from which its cooldown counts: the
\* account would be excluded for ever (isAccountAvailable).
NeverStuck == ~Blocks(NoMark)

\* A token refresh that succeeds does not write back its snapshot without the
\* status that was set in the store since and still cools down
\* (preserveLatestAccountStatus).
RefreshKeepsMark ==
  [][\A t \in Refreshers :
       /\ pc[t] = "refreshing" /\ pc'[t] = "get"
       /\ record # NoRecord /\ record.status = "blocked" /\ record.mark \notin Over
       => heap'[ref[t]].status = "blocked"]_vars
=============================================================================
