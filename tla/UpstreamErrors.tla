---------------------------- MODULE UpstreamErrors ----------------------------
(***************************************************************************)
(* What goes wrong upstream, and what is made of it: the categories of     *)
(* src/internal/domain/errors/errors.go, found by the transport and by the *)
(* web search client, turned into the reason that the pool is told and the *)
(* status code that the client gets.                                       *)
(*                                                                         *)
(* A text that comes from upstream is the set of the signals in it.        *)
(***************************************************************************)
LOCAL INSTANCE Naturals

Categories == {"auth", "quota", "ban", "network", "validation", "unknown"}

Signals == {"ban", "quota", "auth"}

(* Mutant: there are no signals.                                           *)
NoSignal(words) == "none"

(* DetectSignal looks for the words of a suspended account first, then for *)
(* those of a used-up quota and of a refused token.                        *)
DetectSignal(words) ==
  IF "ban" \in words THEN "ban" ELSE IF "quota" \in words THEN "quota"
  ELSE IF "auth" \in words THEN "auth" ELSE "none"

(* classifyReason: an error that comes as a frame of the answer.           *)
Classified(words) == IF DetectSignal(words) = "none" THEN "unknown" ELSE DetectSignal(words)

(* classifyHTTPError: the signals of the body come before the status.      *)
HttpCategory(status, words) ==
  IF DetectSignal(words) # "none" THEN DetectSignal(words)
  ELSE IF status = 400 THEN "validation"
  ELSE IF status \in {401, 403} THEN "auth"
  ELSE IF status = 429 THEN "quota"
  ELSE IF status >= 500 THEN "network" ELSE "unknown"

HttpRetryable(status, words) == status = 429 \/ status >= 500 \/ DetectSignal(words) = "quota"

(* classifyMCPHTTPError.                                                   *)
McpCategory(status, words) ==
  IF DetectSignal(words) # "none" THEN DetectSignal(words)
  ELSE CASE status \in {401, 403} -> "auth"
         [] status = 429 -> "quota"
         [] status \in {502, 503, 504} -> "network"
         [] OTHER -> "unknown"

(* shouldRetry.                                                            *)
ShouldRetry(category, retryable) == category \in {"quota", "network"} \/ retryable

(* failureMetaFromError, and mapCategoryToFailureReason of the web search. *)
Reason(category) ==
  IF category \in {"auth", "quota", "ban", "network"} THEN category ELSE "unknown"

(* Mutant: what is not foreseen is an internal error.                      *)
CodeByDefault500(category) ==
  CASE category = "validation" -> 400 [] category = "auth" -> 401
    [] category = "unknown" -> 500 [] OTHER -> 502

(* writeError of the two handlers.                                         *)
Code(category) ==
  CASE category = "validation" -> 400 [] category = "auth" -> 401 [] OTHER -> 502

=============================================================================
