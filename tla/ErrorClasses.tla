---------------------------- MODULE ErrorClasses ----------------------------
(***************************************************************************)
(* The two classifications of an upstream error on which the dispatch      *)
(* loops act (internal/errors/classify.go).  ClassifyUpstreamError says    *)
(* whether the request is retried and whether it changes account;          *)
(* ClassifyAccountStatus says which status code is recorded on the         *)
(* account.  Both scan the text of the error for markers and take the      *)
(* first row that matches, so an error is modelled by the set of the       *)
(* markers its text contains: one error commonly carries several, as a     *)
(* status code in the message and a reason in the body.                    *)
(***************************************************************************)
EXTENDS Naturals

\* One marker per group of substrings that every row treats alike.
Markers == {
  "canceled",           \* "context canceled", "canceled"
  "model_not_found",    \* "model is not found", "model not found"
  "no_implementation",  \* "no_implementation_available"
  "token_limit",        \* "context_window_exceeded", "max_token_limit"
  "http400", "http401", "http402", "http403", "http404", "http409", "http429",
  "http5xx",            \* 500, 502, 503, 504, "llm_unavailable", "internal_error"
  "signed_out", "invalid_api_key", "unauthorized", "no_active_sessions",
  "forbidden", "model_locked", "warp_model", "input_too_long", "rate_limit",
  "out_of_funds",       \* insufficient_funds, out of credits, quota_limit ...
  "funding_low",        \* "available funding is insufficient"
  "no_quota",           \* "no remaining quota"
  "quota_exceeded", "timeout", "network" }

Row(on, value) == [on |-> on, value |-> value]

\* The value of the first row of the table that shares a marker with e.
FirstMatch(table, e, default) ==
  LET hits == {i \in DOMAIN table : table[i].on \cap e # {}}
  IN  IF hits = {} THEN default
      ELSE table[CHOOSE i \in hits : \A j \in hits : i <= j].value

\* UpstreamErrorClass.  Every row of the source sets Retryable and
\* SwitchAccount alike: "rotate" errors are retried, on another account, and
\* "final" errors end the request.
Rotate(category) == [category |-> category, retryable |-> TRUE]
Final(category)  == [category |-> category, retryable |-> FALSE]

ClassifyUpstreamError(e) ==
  FirstMatch(
    << Row({"canceled"}, Final("canceled")),
       Row({"model_not_found", "no_implementation", "token_limit"}, Final("client")),
       Row({"http401", "signed_out", "invalid_api_key"}, Rotate("auth")),
       Row({"http403"}, Rotate("auth_blocked")),
       Row({"http404"}, Final("auth_blocked")),
       Row({"http409", "model_locked"}, Rotate("session_conflict")),
       Row({"warp_model"}, Rotate("model_unavailable")),
       Row({"input_too_long", "http400"}, Final("client")),
       Row({"http429", "http402", "rate_limit", "out_of_funds", "no_quota"},
           Rotate("rate_limit")),
       Row({"timeout"}, Rotate("timeout")),
       Row({"network"}, Rotate("network")),
       Row({"http5xx"}, Rotate("server")) >>, e, Rotate("unknown"))

Category(e)  == ClassifyUpstreamError(e).category
Retryable(e) == ClassifyUpstreamError(e).retryable

\* ClassifyAccountStatus gives "" when the error says nothing about the account.
ClassifyAccountStatus(e) ==
  FirstMatch(
    << Row({"model_not_found"}, ""),
       Row({"http401", "signed_out", "unauthorized", "no_active_sessions"}, "401"),
       Row({"http403", "forbidden"}, "403"),
       Row({"http404"}, "404"),
       Row({"http402", "out_of_funds", "funding_low"}, "402"),
       Row({"http429", "rate_limit", "no_quota", "quota_exceeded"}, "429") >>,
    e, "")

\* The condition under which HandleMessages calls MarkAccountStatus.
MarksAccount(e) ==
  /\ ClassifyAccountStatus(e) # ""
  /\ \/ ~Retryable(e)
     \/ Category(e) \in {"auth", "auth_blocked"}
     \/ ClassifyAccountStatus(e) \in {"402", "403", "429"}

\* shouldRetryCurrentAccountWhenNoAlternative
RetriesSameAccount(e) ==
  Category(e) \in {"network", "timeout", "server", "model_unavailable", "unknown"}
=============================================================================
