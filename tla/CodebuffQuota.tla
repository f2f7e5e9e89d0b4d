--------------------------- MODULE CodebuffQuota ----------------------------
(***************************************************************************)
(* The quota state of one codebuff account in Redis                        *)
(* (internal/codebuff/quotastore.go): a block for a model that upstream    *)
(* has refused, and a snapshot of the limits that came with a session.     *)
(* Both expire; two background jobs (cmd/server/background.go) delete them *)
(* besides, each by a scan and, later, a DEL of what it found.             *)
(*                                                                         *)
(* Upstream gives every model its quota back at ResetTime (07:00 UTC); the *)
(* server clears at ClearTime (07:05).                                     *)
(***************************************************************************)
EXTENDS Naturals

CONSTANTS
  QuotaModels,   \* model identifiers
  SessionModel,  \* of a model: the one that upstream counts its requests under
  NoQuotaModel,  \* of a 429 body that names no model
  QuotaRequests,
  Limit,       \* requests a day upstream allows for a model
  Day, ResetTime, ClearTime,   \* of the clock, in its ticks
  Grace,       \* a minute
  MaxAge,      \* of a snapshot, 6 h
  MaxQuotaTime      \* bound on the clock

ASSUME QuotaAssumption ==
  /\ {Limit, Day, ResetTime, ClearTime, Grace, MaxAge, MaxQuotaTime} \subseteq Nat
  /\ ResetTime < ClearTime /\ ClearTime < Day /\ Grace > 0 /\ NoQuotaModel \notin QuotaModels
  /\ SessionModel \in [QuotaModels -> QuotaModels]

NoTime == 0        \* time.Time{}
NoBlock == [recent |-> 0, limit |-> 0, resetAt |-> NoTime, blockedAt |-> NoTime, until |-> 0]
NoSnapshot == [limits |-> <<>>, synced |-> 0, until |-> 0]

VARIABLES
  quotaNow, used,       \* the clock; what upstream has counted, by model
  block, snapshot, \* Redis
  quotaPc, quotaModel,       \* of a request
  found, stale,    \* what the daily job and the orphan job have yet to delete
  refused          \* history: until when upstream has told to wait, by the model it named

quotaVars == <<quotaNow, used, block, snapshot, quotaPc, quotaModel, found, stale, refused>>
quotaStored    == <<block, snapshot, refused>>
quotaRequest   == <<quotaPc, quotaModel>>
jobs      == <<found, stale>>

QuotaInit ==
  /\ quotaNow = 1 /\ used = [m \in QuotaModels |-> 0]
  /\ block = [m \in QuotaModels |-> NoBlock] /\ snapshot = NoSnapshot
  /\ quotaPc = [r \in QuotaRequests |-> "idle"] /\ quotaModel = [r \in QuotaRequests |-> NoQuotaModel]
  /\ found = {} /\ stale = FALSE
  /\ refused = [m \in QuotaModels |-> 0]

-----------------------------------------------------------------------------
Next1(time) == CHOOSE t \in quotaNow + 1 .. quotaNow + Day : t % Day = time

\* GET of a key that has not expired.
Visible(entry) == quotaNow < entry.until

IsBlocked(m) == Visible(block[m])

\* Mutant: a reset time is good for a minute.
blockTTLShort(resetAt) == IF resetAt = NoTime THEN Day ELSE Grace

\* Up to a minute after the reset; a day if upstream does not tell.
blockTTL(resetAt) ==
  IF resetAt = NoTime THEN Day ELSE IF resetAt <= quotaNow THEN Grace ELSE resetAt - quotaNow + Grace

AtLeast(least, d) == IF d < least THEN least ELSE d

\* Mutant: the next day's, always.
nextResetTTLTomorrow == AtLeast(Grace, (Day - (quotaNow % Day)) + ClearTime)

\* Until the next clearing, but for a minute at least.
nextResetTTL == AtLeast(Grace, Next1(ClearTime) - quotaNow)

RecordBlock(m, resetAt, figures) ==
  /\ block' = [block EXCEPT ![m] = [recent |-> figures, limit |-> figures, resetAt |-> resetAt,
                                    blockedAt |-> quotaNow, until |-> quotaNow + blockTTL(resetAt)]]
  /\ refused' = [refused EXCEPT ![m] = IF resetAt = NoTime THEN quotaNow + Day ELSE resetAt]

\* ParseSessionRateLimits: entries that say nothing are left out.
NoSignal == [limit |-> 0, recent |-> 0, resetAt |-> NoTime]
ParseSessionRateLimits(raw) == [m \in {n \in DOMAIN raw : raw[n] # NoSignal} |-> raw[m]]

RecordSessionQuotas(limits) ==
  snapshot' = IF DOMAIN limits = {} THEN snapshot
              ELSE [limits |-> limits, synced |-> quotaNow, until |-> quotaNow + nextResetTTL]

\* GetPoolStatus: a row of the account; a block overrides the snapshot.
Cell(m) ==
  LET known == Visible(snapshot) /\ m \in DOMAIN snapshot.limits
      entry == IF known THEN snapshot.limits[m] ELSE NoSignal
  IN  [blocked |-> IsBlocked(m),
       recent  |-> IF IsBlocked(m) THEN block[m].recent ELSE entry.recent,
       limit   |-> IF IsBlocked(m) /\ block[m].limit > 0 THEN block[m].limit ELSE entry.limit,
       resetAt |-> IF entry.resetAt = NoTime /\ IsBlocked(m) THEN block[m].resetAt ELSE entry.resetAt,
       synced  |-> IF known THEN snapshot.synced ELSE NoTime,
       blockedAt |-> IF IsBlocked(m) THEN block[m].blockedAt ELSE NoTime]

-----------------------------------------------------------------------------
(* Requests. *)

\* The quota filter of the selection, for the model asked for.  If its read fails the
\* account is taken, blocked or not.
Select(r, m, fails) ==
  /\ quotaPc[r] = "idle" /\ (fails \/ ~IsBlocked(m))
  /\ quotaPc' = [quotaPc EXCEPT ![r] = IF fails THEN "calling unchecked" ELSE "calling"]
  /\ quotaModel' = [quotaModel EXCEPT ![r] = m]
  /\ UNCHANGED <<quotaNow, used, quotaStored, jobs>>

Leave(r) ==
  /\ quotaPc' = [quotaPc EXCEPT ![r] = "idle"] /\ quotaModel' = [quotaModel EXCEPT ![r] = NoQuotaModel]

\* Upstream serves the model, or answers 429.
CallUpstream(r) ==
  /\ quotaPc[r] \in {"calling", "calling unchecked"}
  /\ LET counted == SessionModel[quotaModel[r]] IN
     IF used[counted] < Limit
     THEN /\ used' = [used EXCEPT ![counted] = @ + 1]
          /\ Leave(r)
     ELSE quotaPc' = [quotaPc EXCEPT ![r] = "refused"] /\ UNCHANGED <<used, quotaModel>>
  /\ UNCHANGED <<quotaNow, quotaStored, jobs>>

\* recordBlockIf429: the block is that of the model that the body names, whichever was
\* asked for; none if the body names no model, or if the write fails, which nobody is
\* told.  The body may leave out the figures and the reset time, or tell a reset that is
\* due.
Parse429Body(r, named, resetAt, figures) ==
  /\ quotaPc[r] = "refused" /\ Leave(r)
  /\ \/ named # NoQuotaModel /\ RecordBlock(named, resetAt, figures)
     \/ UNCHANGED <<block, refused>>
  /\ UNCHANGED <<quotaNow, used, snapshot, jobs>>

\* A session was created, or the admin page syncs: the answer has limits for some of
\* the models that upstream counts, or for none.
CountedUnder == {SessionModel[m] : m \in QuotaModels}

Sync(told) ==
  /\ RecordSessionQuotas(ParseSessionRateLimits(
       [m \in told |-> [limit |-> Limit, recent |-> used[m], resetAt |-> Next1(ResetTime)]]))
  /\ UNCHANGED <<quotaNow, used, block, quotaRequest, jobs, refused>>

-----------------------------------------------------------------------------
(* The jobs. *)

\* startCodebuffQuotaResetLoop, ClearQuotaResetData: everything but the streak.
ClearScan ==
  /\ quotaNow % Day = ClearTime /\ found = {}
  /\ found' = {m \in QuotaModels : IsBlocked(m)} \cup (IF Visible(snapshot) THEN {"snapshot"} ELSE {})
  /\ UNCHANGED <<quotaNow, used, quotaStored, quotaRequest, stale>>

ClearDelete ==
  /\ found # {} /\ found' = {}
  /\ block' = [m \in QuotaModels |-> IF m \in found THEN NoBlock ELSE block[m]]
  /\ snapshot' = IF "snapshot" \in found THEN NoSnapshot ELSE snapshot
  /\ refused' = [m \in QuotaModels |-> IF m \in found THEN 0 ELSE refused[m]]
  /\ UNCHANGED <<quotaNow, used, quotaRequest, stale>>

\* ClearOrphanSessionQuotas.
OrphanScan ==
  /\ ~stale /\ Visible(snapshot) /\ snapshot.synced + MaxAge < quotaNow
  /\ stale' = TRUE
  /\ UNCHANGED <<quotaNow, used, quotaStored, quotaRequest, found>>

OrphanDelete ==
  /\ stale /\ stale' = FALSE
  /\ snapshot' = NoSnapshot
  /\ UNCHANGED <<quotaNow, used, block, quotaRequest, found, refused>>

\* The clock; what has expired is dropped, and upstream starts its count anew at its reset.
QuotaTick ==
  /\ quotaNow < MaxQuotaTime /\ quotaNow' = quotaNow + 1
  /\ used' = [m \in QuotaModels |-> IF quotaNow' % Day = ResetTime THEN 0 ELSE used[m]]
  /\ block' = [m \in QuotaModels |-> IF quotaNow' < block[m].until THEN block[m] ELSE NoBlock]
  /\ snapshot' = IF quotaNow' < snapshot.until THEN snapshot ELSE NoSnapshot
  /\ refused' = [m \in QuotaModels |-> IF quotaNow' < refused[m] THEN refused[m] ELSE 0]
  /\ UNCHANGED <<quotaRequest, jobs>>

QuotaNext ==
  \/ \E r \in QuotaRequests :
       \/ \E m \in QuotaModels, fails \in BOOLEAN : Select(r, m, fails)
       \/ CallUpstream(r)
       \/ \E named \in QuotaModels \cup {NoQuotaModel} :
            \/ Parse429Body(r, named, NoTime, 0)
            \/ \E resetAt \in {quotaNow, Next1(ResetTime)} : Parse429Body(r, named, resetAt, Limit)
  \/ \E told \in SUBSET CountedUnder : Sync(told)
  \/ ClearScan \/ ClearDelete \/ OrphanScan \/ OrphanDelete \/ QuotaTick

QuotaSpec == QuotaInit /\ [][QuotaNext]_quotaVars

-----------------------------------------------------------------------------
(* Correctness. *)

\* No time of the day lies between then and now.
SameDay(time, then) == \A t \in then + 1 .. quotaNow : t % Day # time

\* A figure of yesterday is shown for less than a minute more, whether or not the
\* clearing job ran: a snapshot after 07:05 only if it was taken within that minute, a
\* block's count after 07:00 only in the minute after the reset or after it was told.  A
\* block whose reset time upstream did not tell shows its count for a day.
FiguresOfToday ==
  \A m \in QuotaModels :
    LET cell == Cell(m) IN
    /\ cell.synced # NoTime => SameDay(ClearTime, cell.synced) \/ quotaNow < cell.synced + Grace
    /\ cell.blocked =>
         \/ SameDay(ResetTime, cell.blockedAt)
         \/ \E t \in cell.blockedAt .. quotaNow :
              (t = cell.blockedAt \/ t % Day = ResetTime) /\ quotaNow < t + Grace
         \/ block[m].resetAt = NoTime /\ quotaNow < cell.blockedAt + Day

\* A model that upstream named in a recorded refusal is not selected again before the
\* time upstream told, whoever recorded the block and whatever expired since, except
\* when the read of the block fails; only the daily clearing lifts a block early.  (A
\* model that is counted under the one named is another model to the filter.)
RefusedNotSelected ==
  [][\A r \in QuotaRequests :
       quotaPc[r] = "idle" /\ quotaPc'[r] = "calling" => quotaNow >= refused[quotaModel'[r]]]_quotaVars
=============================================================================
