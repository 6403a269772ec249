--------------------------- MODULE ProviderPolicy ---------------------------
(***************************************************************************)
(* One exchange with the language-model provider, the category its adapter *)
(* gives a failure, the bounded retry around it and the HTTP answer.       *)
(* Evaluation (deepseek.py, retry.py) and practice generation              *)
(* (deepseek_practice.py, practice_retry.py) share all of it.              *)
(***************************************************************************)
EXTENDS Naturals

\* What the exchange yields: nothing, a status other than 200, or a 200 whose body
\* is no JSON, has no choice, ended for another reason than "stop", has no text, is
\* no JSON object, lacks or adds fields, names another skill or fails the schema.
Unanswered == {"timed_out", "unreachable"}
BadStatuses == {"401", "402", "403", "429", "5xx", "other_status"}
BadBodies == {"no_json", "no_choice", "out_of_resources", "content_filter", "cut_off",
              "no_text", "not_an_object", "other_fields", "other_skill", "off_schema"}
Failures == Unanswered \cup BadStatuses \cup BadBodies

\* "configuration" is no outcome of an exchange: the adapter cannot be built without its key.
ErrorCategories == {"configuration", "authentication", "billing", "timeout", "rate_limit", "transient",
                    "invalid_response", "request_rejected"}

SendCategory == [x \in Unanswered |-> IF x = "timed_out" THEN "timeout" ELSE "transient"]
HttpCategory ==
    [x \in BadStatuses |->
       CASE x = "402" -> "billing"
         [] x \in {"401", "403"} -> "authentication"
         [] x = "429" -> "rate_limit"
         [] x = "5xx" -> "transient"
         [] x = "other_status" -> "request_rejected"]
BodyCategory ==
    [x \in BadBodies |->
       CASE x = "out_of_resources" -> "transient"
         [] x = "content_filter" -> "request_rejected"
         [] OTHER -> "invalid_response"]
Category(x) == CASE x \in Unanswered -> SendCategory[x]
                 [] x \in BadStatuses -> HttpCategory[x]
                 [] x \in BadBodies -> BodyCategory[x]

MaxProviderAttempts == 3
RetryableErrors == {"timeout", "rate_limit", "transient"}
ShouldRetryOnceMore(category, attempt) ==      \* mutant: off by one
    category \in RetryableErrors /\ attempt <= MaxProviderAttempts
ShouldRetry(category, attempt) ==
    category \in RetryableErrors /\ attempt < MaxProviderAttempts
\* In quarters of a second.
DelayAfterAttempt(attempt) == 2 ^ (attempt - 1)

ProviderStatus(category) ==
    CASE category = "timeout" -> 504
      [] category \in {"invalid_response", "request_rejected"} -> 502
      [] OTHER -> 503
=============================================================================
