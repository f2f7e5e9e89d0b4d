------------------------- MODULE CodebuffTelemetry --------------------------
(***************************************************************************)
(* The counters of one codebuff account (internal/codebuff/telemetry.go):  *)
(* per minute and model, per model since the first request, per day, and a *)
(* sorted set of times from which the requests per minute are read.  Each  *)
(* recording is one Redis transaction; keys expire some time after their   *)
(* last write.                                                             *)
(***************************************************************************)
EXTENDS Naturals, Sequences, Functions, FiniteSets

CONSTANTS
  CountedModels,
  Minute, Retention,   \* in ticks of the clock; a counter is kept for Retention, 24 h
  Ranges,              \* what the page may ask for, at most Retention
  MaxTicks, MaxRequests \* bounds

ASSUME TelemetryAssumption ==
  /\ IsFiniteSet(CountedModels)
  /\ {Minute, MaxTicks} \subseteq Nat \ {0} /\ {Retention, MaxRequests} \subseteq Nat
  /\ Ranges \subseteq 1..Retention

\* How a chat, and how the search for its session, may end.
RequestOutcomes == {"served", "rejected", "broken"}
SessionOutcomes == {"session"}

Zero == [requests |-> 0, errors429 |-> 0, errors |-> 0, sessions |-> 0]
Fields == DOMAIN Zero

VARIABLES
  ticks,
  bucket, bucketUntil,   \* by model and minute
  total, totalUntil,     \* by model; Forever until a chat sets its time to live
  first, last,           \* fields first_unix and last_unix of a total
  times,                 \* the sorted set
  served                 \* history: what was recorded, in order

telemetryVars == <<ticks, bucket, bucketUntil, total, totalUntil, first, last, times, served>>

Minutes == {t \in 0..MaxTicks : t % Minute = 0}
Forever == MaxTicks + 1
Never == 0

TelemetryInit ==
  /\ ticks = 1
  /\ bucket = [k \in CountedModels \X Minutes |-> Zero]
  /\ bucketUntil = [k \in CountedModels \X Minutes |-> Never]
  /\ total = [m \in CountedModels |-> Zero] /\ totalUntil = [m \in CountedModels |-> Forever]
  /\ first = [m \in CountedModels |-> Never] /\ last = [m \in CountedModels |-> Never]
  /\ times = {} /\ served = <<>>

-----------------------------------------------------------------------------
\* bucketKey.
MinuteOf(t) == t - (t % Minute)

\* Every answer of 400 and more counts as a 429 (streamChatRaw, completeChat); a
\* stream or a body that breaks as an error.
Increment(counters, outcome) ==
  IF outcome = "session" THEN [counters EXCEPT !.sessions = @ + 1]
  ELSE [counters EXCEPT !.requests = @ + 1,
                        !.errors429 = @ + (IF outcome = "rejected" THEN 1 ELSE 0),
                        !.errors = @ + (IF outcome = "broken" THEN 1 ELSE 0)]

InBucket(m, outcome) ==
  /\ bucket' = [bucket EXCEPT ![<<m, MinuteOf(ticks)>>] = Increment(@, outcome)]
  /\ bucketUntil' = [bucketUntil EXCEPT ![<<m, MinuteOf(ticks)>>] = ticks + Retention]

\* The member of the sorted set names second and account: one for all requests of
\* a second.  Older than two minutes are dropped.
ZAdd(t) == {s \in times \cup {t} : s + 2 * Minute >= t}

History(m, outcome) ==
  /\ Len(served) < MaxRequests
  /\ served' = Append(served, [at |-> ticks, model |-> m, outcome |-> outcome])

\* last_unix is incremented by the time, not set to it.
RecordRequest(m, outcome) ==
  /\ History(m, outcome) /\ InBucket(m, outcome)
  /\ total' = [total EXCEPT ![m] = Increment(@, outcome)]
  /\ last' = [last EXCEPT ![m] = @ + ticks]
  /\ first' = [first EXCEPT ![m] = IF @ = Never THEN ticks ELSE @]
  /\ totalUntil' = [totalUntil EXCEPT ![m] = ticks + Retention]
  /\ times' = ZAdd(ticks)
  /\ UNCHANGED ticks

\* No time to live is set for the total.
RecordSessionEvent(m, outcome) ==
  /\ History(m, outcome) /\ InBucket(m, outcome)
  /\ total' = [total EXCEPT ![m] = Increment(@, outcome)]
  /\ UNCHANGED <<ticks, totalUntil, first, last, times>>

\* Redis drops what has expired.
Second ==
  /\ ticks < MaxTicks /\ ticks' = ticks + 1
  /\ bucket' = [k \in CountedModels \X Minutes |-> IF bucketUntil[k] = ticks' THEN Zero ELSE bucket[k]]
  /\ LET gone == {m \in CountedModels : totalUntil[m] = ticks'} IN
       /\ total' = [m \in CountedModels |-> IF m \in gone THEN Zero ELSE total[m]]
       /\ totalUntil' = [m \in CountedModels |-> IF m \in gone THEN Forever ELSE totalUntil[m]]
       /\ first' = [m \in CountedModels |-> IF m \in gone THEN Never ELSE first[m]]
       /\ last' = [m \in CountedModels |-> IF m \in gone THEN Never ELSE last[m]]
  /\ UNCHANGED <<bucketUntil, times, served>>

TelemetryNext ==
  \/ \E m \in CountedModels, outcome \in RequestOutcomes : RecordRequest(m, outcome)
  \/ \E m \in CountedModels, outcome \in SessionOutcomes : RecordSessionEvent(m, outcome)
  \/ Second

TelemetrySpec == TelemetryInit /\ [][TelemetryNext]_telemetryVars

-----------------------------------------------------------------------------
(* What the page shows. *)

Sum(f, S) == FoldFunctionOnSet(LAMBDA x, y : x + y, 0, f, S)

Since(range) == IF ticks < range THEN 0 ELSE ticks - range

\* Mutant: starts with the next full minute.
MinutesOfLate(range) == {t \in Minutes : Since(range) <= t /\ t <= ticks}

\* From the minute of the first second to the current one.
MinutesOf(range) == {t \in Minutes : MinuteOf(Since(range)) <= t /\ t <= ticks}

sumBucketsForRange(m, range) ==
  [f \in Fields |-> Sum([t \in Minutes |-> bucket[<<m, t>>][f]], MinutesOf(range))]

\* parseModelMetrics of the totals; the rates are left out.
parseModelMetrics(m) == total[m]

\* GetAccountsMetricsInRange: the sum over the models, of which a range leaves out
\* those without requests; no range (0) means the totals.
GetAccountsMetricsInRange(range) ==
  LET figures == [m \in CountedModels |-> IF range > 0 THEN sumBucketsForRange(m, range) ELSE parseModelMetrics(m)]
      shown   == {m \in CountedModels : range = 0 \/ figures[m].requests # 0}
  IN  [f \in Fields |-> Sum([m \in CountedModels |-> figures[m][f]], shown)]

RollingRPM == Cardinality({s \in times : s + Minute > ticks})

-----------------------------------------------------------------------------
Recorded(S, from) == Cardinality({k \in DOMAIN served : served[k].outcome \in S /\ served[k].at > from})

\* The figures for a range are those of the requests since its begin, plus at most
\* those of the minute in which it begins, although the counters expire; an error
\* is counted once, the totals miss none of the requests, and the rate is never more
\* than the requests of the last minute.
FiguresFit ==
  /\ \A range \in Ranges :
       LET figures == GetAccountsMetricsInRange(range) IN
       ticks >= range =>
         /\ figures.requests >= Recorded(RequestOutcomes, ticks - range)
         /\ ticks >= range + Minute =>
              /\ figures.requests <= Recorded(RequestOutcomes, ticks - range - Minute)
              /\ figures.sessions <= Recorded(SessionOutcomes, ticks - range - Minute)
         /\ figures.errors + figures.errors429 <= figures.requests
         /\ figures.errors >= Recorded({"broken"}, ticks - range)
         /\ GetAccountsMetricsInRange(0).requests >= Recorded(RequestOutcomes, ticks - range)
  /\ ticks >= Minute => RollingRPM <= Recorded(RequestOutcomes, ticks - Minute)
=============================================================================
