------------------------- MODULE RequestLoop_proofs -------------------------
(***************************************************************************)
(* Proofs about RequestLoop, for every set of requests, accounts and keys  *)
(* and every MaxRetries.  Phases says what a request holds at each point   *)
(* of HandleMessages; with TypeOK it is inductive, and the counters, the   *)
(* attempt bound and the rule on output follow from it.                    *)
(***************************************************************************)
EXTENDS RequestLoop, FiniteSetTheorems, TLAPS

\* From the first selection to the last retry the request has an account.
AccountPhase(r) ==
  /\ pc[r] \in {"picked", "ready", "calling", "failed", "deciding", "reselect", "waiting"}
       => current[r] \in Accounts
  /\ pc[r] \in {"ready", "calling", "failed", "deciding", "waiting"}
       => tracked[r] = current[r]
  /\ pc[r] \in {"new", "exact", "rejected", "admitted", "picked", "reselect",
                "unwind", "done"}
       => tracked[r] = NoAccount

DedupPhase(r) ==
  /\ held[r] \subseteq {ExactKey[r], SemanticKey[r]}
  /\ pc[r] \in {"new", "done"} => held[r] = {}
  /\ pc[r] \in {"exact", "rejected"} => held[r] = {ExactKey[r]}

\* Between two calls the calls made and the retries left add up to MaxRetries.
BudgetPhase(r) ==
  /\ attempt[r] + retries[r] <= MaxRetries + 1
  /\ pc[r] \in {"new", "exact", "rejected", "admitted", "picked", "ready",
                "reselect", "waiting"}
       => attempt[r] + retries[r] <= MaxRetries

OutputPhase(r) ==
  pc[r] \in {"new", "exact", "rejected", "admitted", "picked", "ready",
             "deciding", "reselect", "waiting"} => ~output[r]

\* Accounts that refused the request are among the failed ones, and the current
\* account is not one of them.
RefusalPhase(r) ==
  /\ refusedBy[r] \subseteq failed[r]
  /\ pc[r] \in {"new", "exact", "rejected", "admitted", "done"} => refusedBy[r] = {}
  /\ pc[r] \in {"picked", "ready", "calling", "failed", "deciding", "waiting"}
       => current[r] \notin refusedBy[r]
  /\ pc[r] = "reselect" /\ RetriesSameAccount(err[r]) => current[r] \notin refusedBy[r]

\* A response that is finished was answered, or its client is gone; while the
\* request may still be retried nothing was answered.
ReplyPhase(r) ==
  /\ pc[r] # "done" => replies[r] <= 1
  /\ pc[r] \in {"new", "exact", "rejected", "admitted", "picked", "ready",
                "deciding", "reselect", "waiting"} => replies[r] = 0 /\ ~returned[r]
  /\ pc[r] \in {"calling", "failed", "answered"} =>
       /\ replies[r] = 1 => returned[r]
       /\ returned[r] => replies[r] = 1 \/ ctxDone[r]
       /\ returned[r] /\ pc[r] # "answered" => output[r]
  /\ pc[r] = "answered" => returned[r]
  /\ pc[r] \in {"releasing", "unwind"} => replies[r] = 1 \/ ctxDone[r] \/ panicked[r]
  /\ panicked[r] => pc[r] \in {"releasing", "unwind", "done"}

PhasesOf(r)  == AccountPhase(r) /\ DedupPhase(r) /\ BudgetPhase(r) /\ RefusalPhase(r)
RepliesOf(r) == OutputPhase(r) /\ ReplyPhase(r) /\ OneReplyOf(r)

Phases  == \A r \in Requests : PhasesOf(r)
Replies == \A r \in Requests : RepliesOf(r)

-----------------------------------------------------------------------------
USE ConstantsAssumption DEF Goto, Reply, FinishResponse, dedupVars, accountVars,
    retryVars, streamVars

\* A server that has not received a request satisfies the invariants.
LEMMA InitOK == Init => TypeOK /\ Phases /\ Replies
BY DEF Init, TypeOK, PCs, Phases, PhasesOf, AccountPhase, DedupPhase, BudgetPhase, RefusalPhase,
   Replies, RepliesOf, OutputPhase, ReplyPhase, OneReplyOf

\* Selection returns one of the accounts it may choose from (GetNextAccount...).
LEMMA LeastLoadedSubset ==
  \A r \in Requests : LeastLoaded(Selectable(r)) \subseteq Accounts \ failed[r]
BY DEF LeastLoaded, Selectable

\* Phases is used for what the request was at the start of the step.
LEMMA TypeStep == TypeOK /\ Phases /\ [Next]_vars => TypeOK'
<1>. SUFFICES ASSUME TypeOK, Phases, [Next]_vars PROVE TypeOK'
  OBVIOUS
<1>. USE DEF TypeOK, PCs
<1>1. ASSUME NEW r \in Requests, BypassDedup(r) PROVE TypeOK'
  BY <1>1 DEF BypassDedup
<1>2. ASSUME NEW r \in Requests, RegisterExact(r) PROVE TypeOK'
  BY <1>2 DEF RegisterExact, Register
<1>3. ASSUME NEW r \in Requests, ExactDuplicate(r) PROVE TypeOK'
  BY <1>3 DEF ExactDuplicate
<1>4. ASSUME NEW r \in Requests, RegisterSemantic(r) PROVE TypeOK'
  <2>1. CASE SemanticKey[r] = NoKey
    BY <1>4, <2>1 DEF RegisterSemantic
  <2>2. CASE SemanticKey[r] # NoKey
    <3>1. SemanticKey[r] \in Keys
      BY <2>2
    <3>2. Register(r, SemanticKey[r])
      BY <1>4, <2>2, Zenon DEF RegisterSemantic
    <3>3. pc' = [pc EXCEPT ![r] = "admitted"]
          /\ UNCHANGED <<accountVars, retryVars, streamVars, ctxDone>>
      BY <1>4, Zenon DEF RegisterSemantic
    <3>4. QED
      BY <3>1, <3>2, <3>3 DEF Register
  <2>3. QED
    BY <2>1, <2>2
<1>5. ASSUME NEW r \in Requests, SemanticDuplicate(r) PROVE TypeOK'
  BY <1>5 DEF SemanticDuplicate
<1>6. ASSUME NEW r \in Requests, FinishRejected(r) PROVE TypeOK'
  BY <1>6 DEF FinishRejected, FinishKey
<1>7. ASSUME NEW r \in Requests, AnswerLocally(r) PROVE TypeOK'
  BY <1>7 DEF AnswerLocally
<1>8. ASSUME NEW r \in Requests, SelectAccount(r) PROVE TypeOK'
  BY <1>8, LeastLoadedSubset DEF SelectAccount
<1>9. ASSUME NEW r \in Requests, SelectFails(r) PROVE TypeOK'
  BY <1>9 DEF SelectFails
<1>10. ASSUME NEW r \in Requests, Acquire(r) PROVE TypeOK'
  <2>1. current[r] \in Accounts
    BY <1>10 DEF Acquire, Phases, PhasesOf, AccountPhase
  <2>2. pc' \in [Requests -> PCs]
    BY <1>10 DEF Acquire
  <2>3. QED
    BY <1>10, <2>1, <2>2 DEF Acquire
<1>11. ASSUME NEW r \in Requests, RejectStream(r) PROVE TypeOK'
  BY <1>11 DEF RejectStream
<1>12. ASSUME NEW r \in Requests, StartAttempt(r) PROVE TypeOK'
  BY <1>12 DEF StartAttempt
<1>13. ASSUME NEW r \in Requests, Emit(r) PROVE TypeOK'
  BY <1>13 DEF Emit
<1>14. ASSUME NEW r \in Requests, EmitFinish(r) PROVE TypeOK'
  BY <1>14 DEF EmitFinish
<1>15. ASSUME NEW r \in Requests, WriteFails(r) PROVE TypeOK'
  BY <1>15 DEF WriteFails
<1>16. ASSUME NEW r \in Requests, Succeed(r) PROVE TypeOK'
  BY <1>16 DEF Succeed
<1>17. ASSUME NEW r \in Requests, Panic(r) PROVE TypeOK'
  BY <1>17 DEF Panic
<1>18. ASSUME NEW r \in Requests, AbortAfterOutput(r) PROVE TypeOK'
  BY <1>18 DEF AbortAfterOutput, HasAnyOutput, EndWithError
<1>19. ASSUME NEW r \in Requests, MarkAccount(r) PROVE TypeOK'
  BY <1>19 DEF MarkAccount, HasAnyOutput
<1>20. ASSUME NEW r \in Requests, GiveUp(r) PROVE TypeOK'
  BY <1>20 DEF GiveUp, EndWithError
<1>21. ASSUME NEW r \in Requests, SwitchAccount(r) PROVE TypeOK'
  <2>1. current[r] \in Accounts /\ tracked[r] \in Accounts
    BY <1>21 DEF SwitchAccount, Phases, PhasesOf, AccountPhase
  <2>2. retries' \in [Requests -> 0..MaxRetries]
    BY <1>21 DEF SwitchAccount, OutOfRetries, ChargeRetry
  <2>3. conns' \in [Accounts -> Nat] /\ tracked' \in [Requests -> Accounts \cup {NoAccount}]
    BY <1>21 DEF SwitchAccount, ReleaseTracked
  <2>4. failed' \in [Requests -> SUBSET Accounts] /\ refusedBy' \in [Requests -> SUBSET Accounts]
    BY <1>21, <2>1 DEF SwitchAccount
  <2>5. QED
    BY <1>21, <2>2, <2>3, <2>4 DEF SwitchAccount
<1>22. ASSUME NEW r \in Requests, Reselect(r) PROVE TypeOK'
  BY <1>22, LeastLoadedSubset DEF Reselect
<1>23. ASSUME NEW r \in Requests, RetrySame(r) PROVE TypeOK'
  BY <1>23 DEF RetrySame
<1>24. ASSUME NEW r \in Requests, NoAccountLeft(r) PROVE TypeOK'
  BY <1>24 DEF NoAccountLeft, EndWithError
<1>25. ASSUME NEW r \in Requests, Backoff(r) PROVE TypeOK'
  BY <1>25 DEF Backoff
<1>26. ASSUME NEW r \in Requests, BackoffCancelled(r) PROVE TypeOK'
  BY <1>26 DEF BackoffCancelled, EndWithError
<1>27. ASSUME NEW r \in Requests, Finalize(r) PROVE TypeOK'
  BY <1>27 DEF Finalize
<1>28. ASSUME NEW r \in Requests, ReleaseConn(r) PROVE TypeOK'
  BY <1>28 DEF ReleaseConn, ReleaseTracked
<1>29. ASSUME NEW r \in Requests, FinishHeld(r) PROVE TypeOK'
  BY <1>29 DEF FinishHeld, FinishKey
<1>30. ASSUME NEW r \in Requests, Return(r) PROVE TypeOK'
  BY <1>30, SMTT(30) DEF Return
<1>31. ASSUME NEW r \in Requests, NEW e \in Errors, Fail(r, e) PROVE TypeOK'
  BY <1>31 DEF Fail
<1>32. ASSUME NEW r \in Requests, Disconnect(r) PROVE TypeOK'
  BY <1>32 DEF Disconnect
<1>33. ASSUME NEW k \in Keys, WindowPasses(k) PROVE TypeOK'
  BY <1>33 DEF WindowPasses
<1>34. ASSUME NEW a \in Accounts, CooldownEnds(a) PROVE TypeOK'
  BY <1>34 DEF CooldownEnds
<1>35. CASE UNCHANGED vars
  BY <1>35 DEF vars
<1>. QED
  BY <1>1, <1>2, <1>3, <1>4, <1>5, <1>6, <1>7, <1>8, <1>9, <1>10, <1>11,
     <1>12, <1>13, <1>14, <1>15, <1>16, <1>17, <1>18, <1>19, <1>20, <1>21,
     <1>22, <1>23, <1>24, <1>25, <1>26, <1>27, <1>28, <1>29, <1>30, <1>31,
     <1>32, <1>33, <1>34, <1>35
     DEF Next, Arrive, Progress, Dispatch, Call, Decide, Unwind, Environment

\* Every step keeps what a request holds in line with where it is in the handler.
LEMMA PhasesStep == TypeOK /\ Phases /\ [Next]_vars => Phases'
<1>. SUFFICES ASSUME TypeOK, Phases, [Next]_vars PROVE Phases'
  OBVIOUS
<1>. USE DEF TypeOK, Phases, PhasesOf, AccountPhase, DedupPhase, BudgetPhase, RefusalPhase
<1>1. ASSUME NEW r \in Requests, BypassDedup(r) PROVE Phases'
  BY <1>1 DEF BypassDedup
<1>2. ASSUME NEW r \in Requests, RegisterExact(r) PROVE Phases'
  BY <1>2 DEF RegisterExact, Register
<1>3. ASSUME NEW r \in Requests, ExactDuplicate(r) PROVE Phases'
  BY <1>3 DEF ExactDuplicate
<1>4. ASSUME NEW r \in Requests, RegisterSemantic(r) PROVE Phases'
  BY <1>4 DEF RegisterSemantic, Register
<1>5. ASSUME NEW r \in Requests, SemanticDuplicate(r) PROVE Phases'
  BY <1>5 DEF SemanticDuplicate
<1>6. ASSUME NEW r \in Requests, FinishRejected(r) PROVE Phases'
  BY <1>6 DEF FinishRejected, FinishKey
<1>7. ASSUME NEW r \in Requests, AnswerLocally(r) PROVE Phases'
  BY <1>7 DEF AnswerLocally
<1>8. ASSUME NEW r \in Requests, SelectAccount(r) PROVE Phases'
  BY <1>8, LeastLoadedSubset DEF SelectAccount
<1>9. ASSUME NEW r \in Requests, SelectFails(r) PROVE Phases'
  BY <1>9 DEF SelectFails
<1>10. ASSUME NEW r \in Requests, Acquire(r) PROVE Phases'
  BY <1>10 DEF Acquire
<1>11. ASSUME NEW r \in Requests, RejectStream(r) PROVE Phases'
  BY <1>11 DEF RejectStream
<1>12. ASSUME NEW r \in Requests, StartAttempt(r) PROVE Phases'
  BY <1>12 DEF StartAttempt
<1>13. ASSUME NEW r \in Requests, Emit(r) PROVE Phases'
  BY <1>13 DEF Emit
<1>14. ASSUME NEW r \in Requests, EmitFinish(r) PROVE Phases'
  BY <1>14 DEF EmitFinish
<1>15. ASSUME NEW r \in Requests, WriteFails(r) PROVE Phases'
  BY <1>15 DEF WriteFails
<1>16. ASSUME NEW r \in Requests, Succeed(r) PROVE Phases'
  BY <1>16 DEF Succeed
<1>17. ASSUME NEW r \in Requests, Panic(r) PROVE Phases'
  BY <1>17 DEF Panic
<1>18. ASSUME NEW r \in Requests, AbortAfterOutput(r) PROVE Phases'
  BY <1>18 DEF AbortAfterOutput, HasAnyOutput, EndWithError
<1>19. ASSUME NEW r \in Requests, MarkAccount(r) PROVE Phases'
  BY <1>19 DEF MarkAccount, HasAnyOutput
<1>20. ASSUME NEW r \in Requests, GiveUp(r) PROVE Phases'
  BY <1>20 DEF GiveUp, EndWithError
<1>21. ASSUME NEW r \in Requests, SwitchAccount(r) PROVE Phases'
  BY <1>21 DEF SwitchAccount, OutOfRetries, ChargeRetry, ReleaseTracked
<1>22. ASSUME NEW r \in Requests, Reselect(r) PROVE Phases'
  <2>1. ASSUME NEW q \in Requests, q # r PROVE PhasesOf(q)'
    <3>1. UNCHANGED <<pc[q], current[q], tracked[q], held[q], attempt[q], retries[q], failed[q], refusedBy[q], err[q]>>
      BY <1>22, <2>1 DEF Reselect
    <3>2. QED
      BY <3>1
  <2>2. current'[r] \in Accounts \ failed[r]
    BY <1>22, LeastLoadedSubset DEF Reselect
  <2>3. PhasesOf(r)'
    BY <1>22, LeastLoadedSubset, <2>2 DEF Reselect
  <2>4. QED
    BY <2>1, <2>3
<1>23. ASSUME NEW r \in Requests, RetrySame(r) PROVE Phases'
  BY <1>23 DEF RetrySame
<1>24. ASSUME NEW r \in Requests, NoAccountLeft(r) PROVE Phases'
  BY <1>24 DEF NoAccountLeft, EndWithError
<1>25. ASSUME NEW r \in Requests, Backoff(r) PROVE Phases'
  BY <1>25 DEF Backoff
<1>26. ASSUME NEW r \in Requests, BackoffCancelled(r) PROVE Phases'
  BY <1>26 DEF BackoffCancelled, EndWithError
<1>27. ASSUME NEW r \in Requests, Finalize(r) PROVE Phases'
  BY <1>27 DEF Finalize
<1>28. ASSUME NEW r \in Requests, ReleaseConn(r) PROVE Phases'
  BY <1>28 DEF ReleaseConn, ReleaseTracked
<1>29. ASSUME NEW r \in Requests, FinishHeld(r) PROVE Phases'
  BY <1>29 DEF FinishHeld, FinishKey
<1>30. ASSUME NEW r \in Requests, Return(r) PROVE Phases'
  BY <1>30 DEF Return
<1>31. ASSUME NEW r \in Requests, NEW e \in Errors, Fail(r, e) PROVE Phases'
  BY <1>31 DEF Fail
<1>32. ASSUME NEW r \in Requests, Disconnect(r) PROVE Phases'
  BY <1>32 DEF Disconnect
<1>33. ASSUME NEW k \in Keys, WindowPasses(k) PROVE Phases'
  BY <1>33 DEF WindowPasses
<1>34. ASSUME NEW a \in Accounts, CooldownEnds(a) PROVE Phases'
  BY <1>34 DEF CooldownEnds
<1>35. CASE UNCHANGED vars
  BY <1>35 DEF vars
<1>. QED
  BY <1>1, <1>2, <1>3, <1>4, <1>5, <1>6, <1>7, <1>8, <1>9, <1>10, <1>11,
     <1>12, <1>13, <1>14, <1>15, <1>16, <1>17, <1>18, <1>19, <1>20, <1>21,
     <1>22, <1>23, <1>24, <1>25, <1>26, <1>27, <1>28, <1>29, <1>30, <1>31,
     <1>32, <1>33, <1>34, <1>35
     DEF Next, Arrive, Progress, Dispatch, Call, Decide, Unwind, Environment

\* Every step keeps the answers in line with where the request is.
LEMMA RepliesStep == TypeOK /\ Replies /\ [Next]_vars => Replies'
<1>. SUFFICES ASSUME TypeOK, Replies, [Next]_vars PROVE Replies'
  OBVIOUS
<1>. USE DEF TypeOK, Replies, RepliesOf, OutputPhase, ReplyPhase, OneReplyOf
<1>1. ASSUME NEW r \in Requests, BypassDedup(r) PROVE Replies'
  BY <1>1 DEF BypassDedup
<1>2. ASSUME NEW r \in Requests, RegisterExact(r) PROVE Replies'
  BY <1>2 DEF RegisterExact, Register
<1>3. ASSUME NEW r \in Requests, ExactDuplicate(r) PROVE Replies'
  BY <1>3 DEF ExactDuplicate
<1>4. ASSUME NEW r \in Requests, RegisterSemantic(r) PROVE Replies'
  BY <1>4 DEF RegisterSemantic, Register
<1>5. ASSUME NEW r \in Requests, SemanticDuplicate(r) PROVE Replies'
  BY <1>5 DEF SemanticDuplicate
<1>6. ASSUME NEW r \in Requests, FinishRejected(r) PROVE Replies'
  BY <1>6 DEF FinishRejected, FinishKey
<1>7. ASSUME NEW r \in Requests, AnswerLocally(r) PROVE Replies'
  BY <1>7 DEF AnswerLocally
<1>8. ASSUME NEW r \in Requests, SelectAccount(r) PROVE Replies'
  BY <1>8, LeastLoadedSubset DEF SelectAccount
<1>9. ASSUME NEW r \in Requests, SelectFails(r) PROVE Replies'
  BY <1>9 DEF SelectFails
<1>10. ASSUME NEW r \in Requests, Acquire(r) PROVE Replies'
  BY <1>10 DEF Acquire
<1>11. ASSUME NEW r \in Requests, RejectStream(r) PROVE Replies'
  BY <1>11 DEF RejectStream
<1>12. ASSUME NEW r \in Requests, StartAttempt(r) PROVE Replies'
  BY <1>12 DEF StartAttempt
<1>13. ASSUME NEW r \in Requests, Emit(r) PROVE Replies'
  BY <1>13 DEF Emit
<1>14. ASSUME NEW r \in Requests, EmitFinish(r) PROVE Replies'
  <2>1. ASSUME NEW q \in Requests, q # r PROVE RepliesOf(q)'
    <3>1. UNCHANGED <<pc[q], output[q], returned[q], replies[q], panicked[q], ctxDone[q]>>
      BY <1>14, <2>1 DEF EmitFinish
    <3>2. QED
      BY <3>1
  <2>2. pc[r] = "calling" /\ ~returned[r]
    BY <1>14 DEF EmitFinish
  <2>3. replies[r] = 0
    BY <2>2
  <2>4. replies'[r] = 1 /\ returned'[r] /\ output'[r]
    BY <1>14, <2>2, <2>3 DEF EmitFinish
  <2>5. UNCHANGED <<pc[r], ctxDone[r], panicked[r]>>
    BY <1>14, <2>2, <2>3, <2>4 DEF EmitFinish
  <2>6. RepliesOf(r)'
    BY <1>14, <2>2, <2>3, <2>4, <2>5 DEF EmitFinish
  <2>7. QED
    BY <2>1, <2>6
<1>15. ASSUME NEW r \in Requests, WriteFails(r) PROVE Replies'
  BY <1>15 DEF WriteFails
<1>16. ASSUME NEW r \in Requests, Succeed(r) PROVE Replies'
  <2>1. ASSUME NEW q \in Requests, q # r PROVE RepliesOf(q)'
    <3>1. UNCHANGED <<pc[q], output[q], returned[q], replies[q], panicked[q], ctxDone[q]>>
      BY <1>16, <2>1 DEF Succeed
    <3>2. QED
      BY <3>1
  <2>2. replies'[r] = IF returned[r] THEN replies[r] ELSE replies[r] + 1
    BY <1>16 DEF Succeed
  <2>3. returned'[r] /\ replies'[r] <= 1 /\ (replies'[r] = 1 \/ ctxDone[r])
    BY <1>16, <2>2 DEF Succeed
  <2>4. UNCHANGED <<ctxDone[r], panicked[r], output[r]>>
    BY <1>16, <2>2, <2>3 DEF Succeed
  <2>5. RepliesOf(r)'
    BY <1>16, <2>2, <2>3, <2>4 DEF Succeed
  <2>6. QED
    BY <2>1, <2>5
<1>17. ASSUME NEW r \in Requests, Panic(r) PROVE Replies'
  BY <1>17 DEF Panic
<1>18. ASSUME NEW r \in Requests, AbortAfterOutput(r) PROVE Replies'
  BY <1>18, SMTT(30) DEF AbortAfterOutput, HasAnyOutput, EndWithError
<1>19. ASSUME NEW r \in Requests, MarkAccount(r) PROVE Replies'
  BY <1>19, SMTT(30) DEF MarkAccount, HasAnyOutput
<1>20. ASSUME NEW r \in Requests, GiveUp(r) PROVE Replies'
  BY <1>20 DEF GiveUp, EndWithError
<1>21. ASSUME NEW r \in Requests, SwitchAccount(r) PROVE Replies'
  BY <1>21 DEF SwitchAccount, OutOfRetries, ChargeRetry, ReleaseTracked
<1>22. ASSUME NEW r \in Requests, Reselect(r) PROVE Replies'
  BY <1>22, LeastLoadedSubset DEF Reselect
<1>23. ASSUME NEW r \in Requests, RetrySame(r) PROVE Replies'
  BY <1>23 DEF RetrySame
<1>24. ASSUME NEW r \in Requests, NoAccountLeft(r) PROVE Replies'
  BY <1>24 DEF NoAccountLeft, EndWithError
<1>25. ASSUME NEW r \in Requests, Backoff(r) PROVE Replies'
  BY <1>25 DEF Backoff
<1>26. ASSUME NEW r \in Requests, BackoffCancelled(r) PROVE Replies'
  BY <1>26 DEF BackoffCancelled, EndWithError
<1>27. ASSUME NEW r \in Requests, Finalize(r) PROVE Replies'
  BY <1>27 DEF Finalize
<1>28. ASSUME NEW r \in Requests, ReleaseConn(r) PROVE Replies'
  BY <1>28 DEF ReleaseConn, ReleaseTracked
<1>29. ASSUME NEW r \in Requests, FinishHeld(r) PROVE Replies'
  BY <1>29 DEF FinishHeld, FinishKey
<1>30. ASSUME NEW r \in Requests, Return(r) PROVE Replies'
  BY <1>30 DEF Return
<1>31. ASSUME NEW r \in Requests, NEW e \in Errors, Fail(r, e) PROVE Replies'
  BY <1>31 DEF Fail
<1>32. ASSUME NEW r \in Requests, Disconnect(r) PROVE Replies'
  BY <1>32 DEF Disconnect
<1>33. ASSUME NEW k \in Keys, WindowPasses(k) PROVE Replies'
  BY <1>33 DEF WindowPasses
<1>34. ASSUME NEW a \in Accounts, CooldownEnds(a) PROVE Replies'
  BY <1>34 DEF CooldownEnds
<1>35. CASE UNCHANGED vars
  BY <1>35 DEF vars
<1>. QED
  BY <1>1, <1>2, <1>3, <1>4, <1>5, <1>6, <1>7, <1>8, <1>9, <1>10, <1>11,
     <1>12, <1>13, <1>14, <1>15, <1>16, <1>17, <1>18, <1>19, <1>20, <1>21,
     <1>22, <1>23, <1>24, <1>25, <1>26, <1>27, <1>28, <1>29, <1>30, <1>31,
     <1>32, <1>33, <1>34, <1>35
     DEF Next, Arrive, Progress, Dispatch, Call, Decide, Unwind, Environment

\* The state of the requests, the dedup store and the connection counters keeps
\* its types: no counter of the handler goes below zero.
THEOREM TypeCorrect == Spec => []TypeOK
BY InitOK, TypeStep, PhasesStep, PTL DEF Spec

\* At every point of HandleMessages a request holds exactly what its deferred
\* functions will give back, and was answered at most once.
THEOREM PhasesCorrect == Spec => [](Phases /\ Replies)
BY InitOK, TypeStep, PhasesStep, RepliesStep, PTL DEF Spec

-----------------------------------------------------------------------------
(* The counters.  A step that touches one adds or removes one request. *)

\* One more holder, one more in the count.
LEMMA CountAdded ==
  ASSUME NEW S, NEW T, S \subseteq Requests, NEW r \in Requests, r \notin S,
         T = S \cup {r}
  PROVE  Cardinality(T) = Cardinality(S) + 1 /\ Cardinality(S) \in Nat
<1>1. IsFiniteSet(S)
  BY FS_Subset
<1>2. QED
  BY <1>1, FS_AddElement, FS_CardinalityType

\* One holder less, one less in the count.
LEMMA CountRemoved ==
  ASSUME NEW S, NEW T, S \subseteq Requests, NEW r \in S, T = S \ {r}
  PROVE  /\ Cardinality(T) = Cardinality(S) - 1
         /\ Cardinality(S) \in Nat /\ Cardinality(S) > 0
<1>1. T \subseteq Requests /\ r \notin T /\ S = T \cup {r} /\ r \in Requests
  OBVIOUS
<1>2. QED
  BY <1>1, CountAdded

Holders(f, a) == {r \in Requests : f[r] = a}

\* A request takes a connection of account a.
LEMMA ConnTaken ==
  ASSUME TypeOK, ConnsExact, NEW r \in Requests, NEW a \in Accounts,
         tracked[r] = NoAccount,
         conns' = [conns EXCEPT ![a] = @ + 1],
         tracked' = [tracked EXCEPT ![r] = a]
  PROVE  ConnsExact'
<1>. USE DEF TypeOK
<1>1. SUFFICES ASSUME NEW b \in Accounts
               PROVE  conns'[b] = Cardinality(Holders(tracked', b))
  BY DEF ConnsExact, Holders
<1>2. conns[b] = Cardinality(Holders(tracked, b))
  BY DEF ConnsExact, Holders
<1>3. CASE b = a
  <2>1. Holders(tracked', a) = Holders(tracked, a) \cup {r} /\ r \notin Holders(tracked, a)
    BY DEF Holders
  <2>2. Cardinality(Holders(tracked', a)) = Cardinality(Holders(tracked, a)) + 1
    BY <2>1, CountAdded DEF Holders
  <2>3. QED
    BY <1>2, <1>3, <2>2
<1>4. CASE b # a
  <2>1. Holders(tracked', b) = Holders(tracked, b)
    BY <1>4 DEF Holders
  <2>2. QED
    BY <1>2, <1>4, <2>1
<1>5. QED
  BY <1>3, <1>4

\* A request gives its connection back, if it has one.
LEMMA ConnReleased ==
  ASSUME TypeOK, ConnsExact, NEW r \in Requests, ReleaseTracked(r)
  PROVE  ConnsExact'
<1>. USE DEF TypeOK
<1>1. SUFFICES ASSUME NEW b \in Accounts
               PROVE  conns'[b] = Cardinality(Holders(tracked', b))
  BY DEF ConnsExact, Holders
<1>2. conns[b] = Cardinality(Holders(tracked, b))
  BY DEF ConnsExact, Holders
<1>3. CASE tracked[r] = b
  <2>1. Holders(tracked', b) = Holders(tracked, b) \ {r} /\ r \in Holders(tracked, b)
    BY <1>3 DEF Holders, ReleaseTracked
  <2>2. /\ Cardinality(Holders(tracked', b)) = Cardinality(Holders(tracked, b)) - 1
        /\ Cardinality(Holders(tracked, b)) > 0
    BY <2>1, CountRemoved DEF Holders
  <2>3. conns'[b] = conns[b] - 1
    BY <1>2, <1>3, <2>2 DEF ReleaseTracked
  <2>4. QED
    BY <1>2, <2>2, <2>3
<1>4. CASE tracked[r] # b
  <2>1. Holders(tracked', b) = Holders(tracked, b)
    BY <1>4 DEF Holders, ReleaseTracked
  <2>2. conns'[b] = conns[b]
    BY <1>4 DEF ReleaseTracked
  <2>3. QED
    BY <1>2, <2>1, <2>2
<1>5. QED
  BY <1>3, <1>4

\* Every other step leaves the counters and their holders alone.
LEMMA OnlyThreeMoveConns ==
  ASSUME [Next]_vars
  PROVE  \/ UNCHANGED <<conns, tracked>>
         \/ \E r \in Requests : Acquire(r) \/ SwitchAccount(r) \/ ReleaseConn(r)
<1>1. ASSUME NEW r \in Requests, Arrive(r) PROVE UNCHANGED <<conns, tracked>>
  BY <1>1 DEF Arrive, BypassDedup, RegisterExact, ExactDuplicate
<1>2. ASSUME NEW r \in Requests, Dispatch(r), ~Acquire(r) PROVE UNCHANGED <<conns, tracked>>
  BY <1>2 DEF Dispatch, RegisterSemantic, SemanticDuplicate, FinishRejected,
              AnswerLocally, SelectAccount, SelectFails, RejectStream
<1>3. ASSUME NEW r \in Requests, Call(r) PROVE UNCHANGED <<conns, tracked>>
  BY <1>3 DEF Call, StartAttempt, Emit, EmitFinish, WriteFails, Succeed, Fail, Panic
<1>4. ASSUME NEW r \in Requests, Decide(r), ~SwitchAccount(r)
      PROVE  UNCHANGED <<conns, tracked>>
  BY <1>4 DEF Decide, AbortAfterOutput, MarkAccount, GiveUp, Reselect, RetrySame,
              NoAccountLeft, Backoff, BackoffCancelled, EndWithError
<1>5. ASSUME NEW r \in Requests, Unwind(r), ~ReleaseConn(r)
      PROVE  UNCHANGED <<conns, tracked>>
  BY <1>5 DEF Unwind, Finalize, FinishHeld, Return
<1>6. Environment => UNCHANGED <<conns, tracked>>
  BY DEF Environment, Disconnect, WindowPasses, CooldownEnds
<1>7. QED
  BY <1>1, <1>2, <1>3, <1>4, <1>5, <1>6 DEF Next, Progress, vars

\* Every step keeps the connection counters exact.
LEMMA ConnsStep == TypeOK /\ Phases /\ ConnsExact /\ [Next]_vars => ConnsExact'
<1>. SUFFICES ASSUME TypeOK, Phases, ConnsExact, [Next]_vars PROVE ConnsExact'
  OBVIOUS
<1>1. CASE UNCHANGED <<conns, tracked>>
  BY <1>1 DEF ConnsExact
<1>2. ASSUME NEW r \in Requests, Acquire(r) PROVE ConnsExact'
  <2>1. current[r] \in Accounts /\ tracked[r] = NoAccount
    BY <1>2 DEF Acquire, Phases, PhasesOf, AccountPhase
  <2>2. QED
    BY <1>2, <2>1, ConnTaken DEF Acquire
<1>3. ASSUME NEW r \in Requests, SwitchAccount(r) \/ ReleaseConn(r) PROVE ConnsExact'
  BY <1>3, ConnReleased DEF SwitchAccount, ReleaseConn
<1>4. QED
  BY <1>1, <1>2, <1>3, OnlyThreeMoveConns

\* The connection counters are exact: no path through the handler leaks a
\* connection or gives one back twice, with any number of concurrent requests.
THEOREM ConnsCorrect == Spec => []ConnsExact
<1>1. Init => ConnsExact
  <2>1. SUFFICES ASSUME Init, NEW a \in Accounts
                 PROVE  conns[a] = Cardinality({r \in Requests : tracked[r] = a})
    BY DEF ConnsExact
  <2>2. {r \in Requests : tracked[r] = a} = {}
    BY <2>1 DEF Init
  <2>3. QED
    BY <2>1, <2>2, FS_EmptySet DEF Init
<1>2. QED
  BY <1>1, InitOK, TypeStep, PhasesStep, ConnsStep, PTL DEF Spec

\* Every upstream call is made on an account counted for the request.
THEOREM CallsCounted == Spec => []CallIsCounted
<1>1. TypeOK /\ Phases /\ ConnsExact => CallIsCounted
  <2>1. SUFFICES ASSUME TypeOK, Phases, ConnsExact,
                        NEW r \in Requests, pc[r] = "calling"
                 PROVE  /\ current[r] \in Accounts
                        /\ tracked[r] = current[r]
                        /\ conns[current[r]] > 0
    BY DEF CallIsCounted
  <2>2. current[r] \in Accounts /\ tracked[r] = current[r]
    BY <2>1 DEF Phases, PhasesOf, AccountPhase
  <2>3. r \in Holders(tracked, current[r]) /\ Holders(tracked, current[r]) \subseteq Requests
    BY <2>2 DEF Holders
  <2>4. Cardinality(Holders(tracked, current[r])) > 0
    BY <2>3, CountRemoved
  <2>5. conns[current[r]] = Cardinality(Holders(tracked, current[r]))
    BY <2>1, <2>2 DEF ConnsExact, Holders
  <2>6. QED
    BY <2>2, <2>4, <2>5
<1>2. QED
  BY <1>1, TypeCorrect, PhasesCorrect, ConnsCorrect, PTL

\* An account that refused the request for good is never called by it again.
THEOREM RefusalCorrect == Spec => []RefusedNeverCalledAgain
<1>1. Phases => RefusedNeverCalledAgain
  BY DEF Phases, PhasesOf, RefusalPhase, RefusedNeverCalledAgain
<1>2. QED
  BY <1>1, PhasesCorrect, PTL

\* The client gets exactly one terminal answer unless it is gone.
THEOREM ReplyCorrect == Spec => []OneReply
<1>1. Replies => OneReply
  BY DEF Replies, RepliesOf, OneReply, OneReplyOf
<1>2. QED
  BY <1>1, PhasesCorrect, PTL

\* A handler that returned holds neither a connection nor a dedup key.
THEOREM NothingHeld == Spec => []NothingHeldWhenDone
<1>1. Phases => NothingHeldWhenDone
  BY DEF Phases, PhasesOf, AccountPhase, DedupPhase, NothingHeldWhenDone
<1>2. QED
  BY <1>1, PhasesCorrect, PTL

\* No request makes more than MaxRetries + 1 upstream calls.
THEOREM AttemptsCorrect == Spec => []AttemptsBounded
<1>1. TypeOK /\ Phases => AttemptsBounded
  BY DEF TypeOK, Phases, PhasesOf, BudgetPhase, AttemptsBounded
<1>2. QED
  BY <1>1, TypeCorrect, PhasesCorrect, PTL

\* No upstream call begins after an attempt produced output.
THEOREM OutputCorrect == Spec => NoRetryAfterOutput
<1>1. TypeOK /\ Replies /\ [Next]_vars
        => [\A r \in Requests : attempt'[r] > attempt[r] => ~output[r]]_vars
  <2>1. SUFFICES ASSUME TypeOK, Replies, [Next]_vars, NEW q \in Requests,
                        attempt'[q] > attempt[q]
                 PROVE  ~output[q]
    OBVIOUS
  <2>. USE DEF TypeOK
  <2>2. ASSUME NEW r \in Requests, StartAttempt(r) PROVE ~output[q]
    BY <2>1, <2>2 DEF StartAttempt, Replies, RepliesOf, OutputPhase
  <2>3. ASSUME NEW r \in Requests, Return(r) PROVE FALSE
    BY <2>1, <2>3 DEF Return
  <2>4. attempt' = attempt \/ \E r \in Requests : StartAttempt(r) \/ Return(r)
    <3>1. ASSUME NEW r \in Requests, Arrive(r) PROVE attempt' = attempt
      BY <3>1 DEF Arrive, BypassDedup, RegisterExact, ExactDuplicate
    <3>2. ASSUME NEW r \in Requests, Dispatch(r) PROVE attempt' = attempt
      BY <3>2 DEF Dispatch, RegisterSemantic, SemanticDuplicate, FinishRejected,
                  AnswerLocally, SelectAccount, SelectFails, Acquire, RejectStream
    <3>3. ASSUME NEW r \in Requests, Call(r), ~StartAttempt(r) PROVE attempt' = attempt
      BY <3>3 DEF Call, Emit, EmitFinish, WriteFails, Succeed, Fail, Panic
    <3>4. ASSUME NEW r \in Requests, Decide(r) PROVE attempt' = attempt
      BY <3>4 DEF Decide, AbortAfterOutput, MarkAccount, GiveUp, SwitchAccount,
                  Reselect, RetrySame, NoAccountLeft, Backoff, BackoffCancelled,
                  EndWithError
    <3>5. ASSUME NEW r \in Requests, Unwind(r), ~Return(r) PROVE attempt' = attempt
      BY <3>5 DEF Unwind, Finalize, ReleaseConn, FinishHeld
    <3>6. Environment => attempt' = attempt
      BY DEF Environment, Disconnect, WindowPasses, CooldownEnds
    <3>7. QED
      BY <2>1, <3>1, <3>2, <3>3, <3>4, <3>5, <3>6 DEF Next, Progress, vars
  <2>5. QED
    BY <2>1, <2>2, <2>3, <2>4
<1>2. QED
  BY <1>1, TypeCorrect, PhasesCorrect, PTL DEF Spec, NoRetryAfterOutput

-----------------------------------------------------------------------------
(* The in-flight counts of the dedup keys, by the same argument. *)

KeyHolders(f, k) == {r \in Requests : k \in f[r]}

\* A request registers a key it does not hold.
LEMMA KeyRegistered ==
  ASSUME TypeOK, InFlightExact, NEW r \in Requests, NEW k \in Keys,
         k \notin held[r], Register(r, k)
  PROVE  InFlightExact'
<1>. USE DEF TypeOK
<1>1. SUFFICES ASSUME NEW j \in Keys
               PROVE  inFlight'[j] = Cardinality(KeyHolders(held', j))
  BY DEF InFlightExact, KeyHolders
<1>2. inFlight[j] = Cardinality(KeyHolders(held, j))
  BY DEF InFlightExact, KeyHolders
<1>3. CASE j = k
  <2>1. /\ KeyHolders(held', k) = KeyHolders(held, k) \cup {r}
        /\ r \notin KeyHolders(held, k)
    BY DEF KeyHolders, Register
  <2>2. Cardinality(KeyHolders(held', k)) = Cardinality(KeyHolders(held, k)) + 1
    BY <2>1, CountAdded DEF KeyHolders
  <2>3. inFlight'[j] = inFlight[j] + 1
    BY <1>3 DEF Register
  <2>4. QED
    BY <1>2, <1>3, <2>2, <2>3
<1>4. CASE j # k
  <2>1. KeyHolders(held', j) = KeyHolders(held, j)
    BY <1>4 DEF KeyHolders, Register
  <2>2. inFlight'[j] = inFlight[j]
    BY <1>4 DEF Register
  <2>3. QED
    BY <1>2, <2>1, <2>2
<1>5. QED
  BY <1>3, <1>4

\* A request finishes a key it holds.
LEMMA KeyFinished ==
  ASSUME TypeOK, InFlightExact, NEW r \in Requests, NEW k \in Keys,
         k \in held[r], FinishKey(r, k)
  PROVE  InFlightExact'
<1>. USE DEF TypeOK
<1>1. SUFFICES ASSUME NEW j \in Keys
               PROVE  inFlight'[j] = Cardinality(KeyHolders(held', j))
  BY DEF InFlightExact, KeyHolders
<1>2. inFlight[j] = Cardinality(KeyHolders(held, j))
  BY DEF InFlightExact, KeyHolders
<1>3. CASE j = k
  <2>1. KeyHolders(held', k) = KeyHolders(held, k) \ {r} /\ r \in KeyHolders(held, k)
    BY DEF KeyHolders, FinishKey
  <2>2. /\ Cardinality(KeyHolders(held', k)) = Cardinality(KeyHolders(held, k)) - 1
        /\ Cardinality(KeyHolders(held, k)) > 0
    BY <2>1, CountRemoved DEF KeyHolders
  <2>3. inFlight'[j] = inFlight[j] - 1
    BY <1>2, <1>3, <2>2 DEF FinishKey
  <2>4. QED
    BY <1>2, <1>3, <2>2, <2>3
<1>4. CASE j # k
  <2>1. KeyHolders(held', j) = KeyHolders(held, j)
    BY <1>4 DEF KeyHolders, FinishKey
  <2>2. inFlight'[j] = inFlight[j]
    BY <1>4 DEF FinishKey
  <2>3. QED
    BY <1>2, <2>1, <2>2
<1>5. QED
  BY <1>3, <1>4

\* Every other step leaves the dedup counters and their holders alone.
LEMMA OnlyFourMoveKeys ==
  ASSUME [Next]_vars
  PROVE  \/ UNCHANGED <<inFlight, held>>
         \/ \E r \in Requests : \/ RegisterExact(r) \/ RegisterSemantic(r)
                                \/ FinishRejected(r) \/ FinishHeld(r)
<1>1. ASSUME NEW r \in Requests, Arrive(r), ~RegisterExact(r)
      PROVE  UNCHANGED <<inFlight, held>>
  BY <1>1 DEF Arrive, BypassDedup, ExactDuplicate
<1>2. ASSUME NEW r \in Requests, Dispatch(r), ~RegisterSemantic(r), ~FinishRejected(r)
      PROVE  UNCHANGED <<inFlight, held>>
  BY <1>2 DEF Dispatch, SemanticDuplicate, AnswerLocally, SelectAccount, SelectFails,
              Acquire, RejectStream
<1>3. ASSUME NEW r \in Requests, Call(r) PROVE UNCHANGED <<inFlight, held>>
  BY <1>3 DEF Call, StartAttempt, Emit, EmitFinish, WriteFails, Succeed, Fail, Panic
<1>4. ASSUME NEW r \in Requests, Decide(r) PROVE UNCHANGED <<inFlight, held>>
  BY <1>4 DEF Decide, AbortAfterOutput, MarkAccount, GiveUp, SwitchAccount, Reselect,
              RetrySame, NoAccountLeft, Backoff, BackoffCancelled, EndWithError
<1>5. ASSUME NEW r \in Requests, Unwind(r), ~FinishHeld(r)
      PROVE  UNCHANGED <<inFlight, held>>
  BY <1>5 DEF Unwind, Finalize, ReleaseConn, Return
<1>6. Environment => UNCHANGED <<inFlight, held>>
  BY DEF Environment, Disconnect, WindowPasses, CooldownEnds
<1>7. QED
  BY <1>1, <1>2, <1>3, <1>4, <1>5, <1>6 DEF Next, Progress, vars

\* Every step keeps the in-flight counts exact.
LEMMA InFlightStep ==
  TypeOK /\ Phases /\ InFlightExact /\ [Next]_vars => InFlightExact'
<1>. SUFFICES ASSUME TypeOK, Phases, InFlightExact, [Next]_vars PROVE InFlightExact'
  OBVIOUS
<1>1. CASE UNCHANGED <<inFlight, held>>
  BY <1>1 DEF InFlightExact
<1>2. ASSUME NEW r \in Requests, RegisterExact(r) PROVE InFlightExact'
  <2>1. held[r] = {} /\ ExactKey[r] \in Keys
    BY <1>2 DEF RegisterExact, Phases, PhasesOf, DedupPhase
  <2>2. QED
    BY <1>2, <2>1, KeyRegistered DEF RegisterExact
<1>3. ASSUME NEW r \in Requests, RegisterSemantic(r) PROVE InFlightExact'
  <2>1. held[r] = {ExactKey[r]}
    BY <1>3 DEF RegisterSemantic, Phases, PhasesOf, DedupPhase
  <2>2. CASE SemanticKey[r] = NoKey
    <3>1. UNCHANGED dedupVars
      BY <1>3, <2>2, Zenon DEF RegisterSemantic
    <3>2. QED
      BY <1>1, <3>1
  <2>3. CASE SemanticKey[r] # NoKey
    <3>1. SemanticKey[r] \in Keys /\ SemanticKey[r] \notin held[r]
      BY <2>1, <2>3
    <3>2. Register(r, SemanticKey[r])
      BY <1>3, <2>3, Zenon DEF RegisterSemantic
    <3>3. QED
      BY <3>1, <3>2, KeyRegistered
  <2>4. QED
    BY <2>2, <2>3
<1>4. ASSUME NEW r \in Requests, FinishRejected(r) PROVE InFlightExact'
  <2>1. ExactKey[r] \in held[r] /\ ExactKey[r] \in Keys
    BY <1>4 DEF FinishRejected, Phases, PhasesOf, DedupPhase
  <2>2. QED
    BY <1>4, <2>1, KeyFinished DEF FinishRejected
<1>5. ASSUME NEW r \in Requests, FinishHeld(r) PROVE InFlightExact'
  <2>. DEFINE k == IF SemanticKey[r] \in held[r] THEN SemanticKey[r] ELSE ExactKey[r]
  <2>1. held[r] # {} /\ held[r] \subseteq {ExactKey[r], SemanticKey[r]}
    BY <1>5 DEF FinishHeld, Phases, PhasesOf, DedupPhase
  <2>2. held[r] \subseteq Keys
    BY DEF TypeOK
  <2>3. k \in held[r] /\ k \in Keys
    BY <2>1, <2>2
  <2>4. QED
    BY <1>5, <2>3, KeyFinished DEF FinishHeld
<1>6. QED
  BY <1>1, <1>2, <1>3, <1>4, <1>5, OnlyFourMoveKeys

\* A dedup key is in flight exactly as often as a request must finish it.
THEOREM InFlightCorrect == Spec => []InFlightExact
<1>1. Init => InFlightExact
  <2>1. SUFFICES ASSUME Init, NEW k \in Keys
                 PROVE  inFlight[k] = Cardinality({r \in Requests : k \in held[r]})
    BY DEF InFlightExact
  <2>2. {r \in Requests : k \in held[r]} = {}
    BY <2>1 DEF Init
  <2>3. QED
    BY <2>1, <2>2, FS_EmptySet DEF Init
<1>2. QED
  BY <1>1, InitOK, TypeStep, PhasesStep, InFlightStep, PTL DEF Spec
=============================================================================
