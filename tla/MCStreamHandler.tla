-------------------------- MODULE MCStreamHandler --------------------------
(* StreamHandler on four kinds of tools and three texts. *)
EXTENDS StreamHandler, TLC

CONSTANTS write, write2, read, foreign, hello, plain, tagged

MCTools == {write, write2, read, foreign}
MCVerdict == [t \in MCTools |-> IF t = foreign THEN "undeclared" ELSE "fine"]
\* write and write2 have the same effect; read and foreign have none.
MCDedupKey == [t \in MCTools |-> IF t \in {write, write2} THEN write ELSE NoKey]
MCNeedsInput == {write, write2}
MCTexts == {hello, plain, tagged}
MCIntro == [t \in MCTexts |-> IF t = hello THEN hello ELSE NoKey]
MCMarker == [t \in MCTexts |-> IF t = tagged THEN write ELSE NoTool]
MCRest == [t \in MCTexts |-> IF t = tagged THEN NoText ELSE t]
Mode(format, suppress, disallow, seed, cut) ==
  [format |-> format, suppress |-> suppress, disallow |-> disallow, seed |-> seed, cut |-> cut]
\* Both formats; a connection that breaks; no thinking; no tools; a repeated turn.
MCModes ==
  {Mode(format, FALSE, FALSE, {}, cut) : format \in {"anthropic", "openai"}, cut \in {4, Never}}
  \cup {Mode("anthropic", TRUE, FALSE, {}, Never), Mode("openai", FALSE, TRUE, {}, Never),
        Mode("anthropic", FALSE, FALSE, {write}, Never)}
MCMaxEvents == [d \in {"puter", "agent", "direct"} |->
                  CASE d = "puter" -> 4 [] d = "agent" -> 3 [] d = "direct" -> 5]
=============================================================================
