---------------------------- MODULE CodebuffRuns ----------------------------
(***************************************************************************)
(* What the server books upstream around one codebuff chat                 *)
(* (internal/codebuff/runs.go): two agent runs, their steps and their end, *)
(* and the ads the upstream wants to be fetched.  The chat, the bookkeeping *)
(* of the chain and the ads are goroutines of their own; a call that fails *)
(* is not repeated, and only the start of a run stops the chat.            *)
(***************************************************************************)
EXTENDS Naturals, Sequences, FiniteSets

CONSTANTS Providers   \* of ads, a sequence

Runs == {"parent", "child"}

VARIABLES
  childChats,        \* the model has a parent agent: the child run carries the chat
  chatPc,                \* of the chat
  chain, finalizer,  \* calls the two goroutines have yet to make
  steps, runTotal,      \* upstream, by run: steps recorded; announced at the end (0: open)
  ads, shown,        \* providers left to ask; impressions left to report
  faulty             \* history: some call failed

runsVars == <<childChats, chatPc, chain, finalizer, steps, runTotal, ads, shown, faulty>>
booked   == <<steps, runTotal>>
adVars   == <<ads, shown>>

RunsInit ==
  /\ childChats = FALSE /\ chatPc = "new"
  /\ chain = <<>> /\ finalizer = <<>>
  /\ steps = [r \in Runs |-> {}] /\ runTotal = [r \in Runs |-> 0]
  /\ ads = Providers /\ shown = {}
  /\ faulty = FALSE

RecordRunStep(r, n) == [call |-> "step", run |-> r, number |-> n]
FinishRun(r, n)     == [call |-> "finish", run |-> r, number |-> n]

\* What an answered call does upstream.
Book(c) ==
  /\ steps' = IF c.call = "step" THEN [steps EXCEPT ![c.run] = @ \cup {c.number}] ELSE steps
  /\ runTotal' = IF c.call = "finish" THEN [runTotal EXCEPT ![c.run] = c.number] ELSE runTotal

-----------------------------------------------------------------------------
\* StartRun for the parent, then for the child.
StartParent(childCarries) ==
  /\ chatPc = "new"
  /\ childChats' = childCarries
  /\ \/ chatPc' = "started" /\ UNCHANGED faulty
     \/ chatPc' = "failed" /\ faulty' = TRUE
  /\ UNCHANGED <<chain, finalizer, booked, adVars>>

\* The child of a standard chain ends at once, in the background.
startStandardRunChain ==
  /\ chatPc = "started" /\ ~childChats
  /\ \/ /\ chatPc' = "chat" /\ UNCHANGED faulty
        /\ chain' = <<RecordRunStep("child", 1), FinishRun("child", 2), RecordRunStep("parent", 1)>>
     \/ chatPc' = "failed" /\ faulty' = TRUE /\ UNCHANGED chain
  /\ UNCHANGED <<childChats, finalizer, booked, adVars>>

startChildChatRunChain ==
  /\ chatPc = "started" /\ childChats
  /\ \/ chatPc' = "chat" /\ UNCHANGED faulty
     \/ chatPc' = "failed" /\ faulty' = TRUE
  /\ UNCHANGED <<childChats, chain, finalizer, booked, adVars>>

\* Mutant: the run that carries the chat is finished, and not its parent.
FinalizeChatRun ==
  IF childChats
  THEN <<RecordRunStep("child", 1), FinishRun("child", 2)>>
  ELSE <<RecordRunStep("parent", 2), FinishRun("parent", 3)>>

FinalizeRun ==
  IF childChats
  THEN <<RecordRunStep("child", 1), FinishRun("child", 2), RecordRunStep("parent", 1), FinishRun("parent", 2)>>
  ELSE <<RecordRunStep("parent", 2), FinishRun("parent", 3)>>

\* The chat ends; if it was refused nothing is finalized.
Chat ==
  /\ chatPc = "chat"
  /\ \/ chatPc' = "done" /\ finalizer' = FinalizeRun /\ UNCHANGED faulty
     \/ chatPc' = "failed" /\ faulty' = TRUE /\ UNCHANGED finalizer
  /\ UNCHANGED <<childChats, chain, booked, adVars>>

\* One call of a goroutine; its failure is ignored.
Bookkeep ==
  /\ chain # <<>> /\ chain' = Tail(chain)
  /\ \/ Book(Head(chain)) /\ UNCHANGED faulty
     \/ faulty' = TRUE /\ UNCHANGED booked
  /\ UNCHANGED <<childChats, chatPc, finalizer, adVars>>

Finalize ==
  /\ finalizer # <<>> /\ finalizer' = Tail(finalizer)
  /\ \/ Book(Head(finalizer)) /\ UNCHANGED faulty
     \/ faulty' = TRUE /\ UNCHANGED booked
  /\ UNCHANGED <<childChats, chatPc, chain, adVars>>

\* AdChain.Request: the first provider that has an ad is the last one asked, and its
\* impressions are reported to both.
RequestAds ==
  /\ chatPc # "new" /\ ads # <<>>
  /\ \/ ads' = Tail(ads) /\ UNCHANGED shown
     \/ ads' = <<>> /\ shown' = {"zeroclick", "codebuff"}
  /\ UNCHANGED <<childChats, chatPc, chain, finalizer, booked, faulty>>

\* reportImpressions: one after the other, whether or not the first fails.
ReportImpressions ==
  /\ shown # {}
  /\ shown' = IF "zeroclick" \in shown THEN {"codebuff"} ELSE {}
  /\ UNCHANGED <<childChats, chatPc, chain, finalizer, booked, ads, faulty>>

RunsNext ==
  \/ \E childCarries \in BOOLEAN : StartParent(childCarries)
  \/ startStandardRunChain \/ startChildChatRunChain
  \/ Chat \/ Bookkeep \/ Finalize \/ RequestAds \/ ReportImpressions

RunsSpec == RunsInit /\ [][RunsNext]_runsVars

-----------------------------------------------------------------------------
\* However the goroutines interleave, a chat whose calls all succeeded leaves both
\* runs finished, with the steps up to the one announced.  (A refused chat leaves
\* them open for good.)
RunsAccounted ==
  chatPc = "done" /\ ~faulty /\ chain = <<>> /\ finalizer = <<>> =>
    \A r \in Runs : runTotal[r] > 0 /\ steps[r] = 1 .. runTotal[r] - 1
=============================================================================
