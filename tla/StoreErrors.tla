------------------------------- MODULE StoreErrors ------------------------------
(***************************************************************************)
(* What the S3 adapter of lease/s3store makes of the answers of S3: the    *)
(* kinds of StoreError, and what errors.Is says of them (lease/errors.go). *)
(***************************************************************************)

\* Answers are told apart as far as classifyError does: a success, one without
\* ETag, 401, 403 or AccessDenied, NoSuchKey or NotFound, 412, 409, 429, other
\* client errors, server errors, and no HTTP answer at all.
Success == {"ok", "noETag"}
Failure == {"denied", "noSuchKey", "412", "409", "429", "4xx", "5xx", "transport"}

\* Mutation of classifyError: a server error is a definite answer.
classifyError_definite(op, a) ==
  CASE a = "denied"                        -> "unauthorized"
    [] a = "noSuchKey" /\ op = "get"       -> "not_found"
    [] a = "412" /\ op # "get"             -> "precondition_failed"
    [] a = "409" /\ op # "get"             -> "conflict"
    [] a = "transport" /\ op # "get"       -> "outcome_unknown"
    [] a \in {"429", "5xx", "transport"} /\ op = "get" -> "temporary"
    [] OTHER                               -> "invalid_response"

classifyError(op, a) ==
  CASE a = "denied"                              -> "unauthorized"
    [] a = "noSuchKey" /\ op = "get"             -> "not_found"
    [] a = "412" /\ op # "get"                   -> "precondition_failed"
    [] a = "409" /\ op # "get"                   -> "conflict"
    [] a \in {"5xx", "transport"} /\ op # "get"  -> "outcome_unknown"
    [] a \in {"429", "5xx", "transport"} /\ op = "get" -> "temporary"
    [] OTHER                                     -> "invalid_response"

\* The error of a conditional write, and of a read; "nil" is none.  A read whose
\* body breaks off counts as "transport".
putError(op, a) ==
  IF a = "ok" THEN "nil" ELSE IF a = "noETag" THEN "outcome_unknown" ELSE classifyError(op, a)

getError(a) ==
  IF a = "ok" THEN "nil" ELSE IF a = "noETag" THEN "invalid_response" ELSE classifyError("get", a)

\* StoreError.Is, for the errors that callers of the adapter ask for.
is(kind, target) ==
  CASE target = "ErrNotFound"       -> kind = "not_found"
    [] target = "ErrConflict"       -> kind \in {"precondition_failed", "conflict"}
    [] target = "ErrUnknownOutcome" -> kind = "outcome_unknown"

\* The answers to a conditional write that was applied, and to one that was not:
\* a condition that fails is answered 412, a competing write 409, and a server
\* error or a broken connection says nothing.
putAnswers(applied, conditionHolds) ==
  IF applied THEN Success \cup {"5xx", "transport"}
  ELSE Failure \ (IF conditionHolds THEN {"412"} ELSE {})

getAnswers(exists) ==
  IF exists THEN Success \cup (Failure \ {"noSuchKey"}) ELSE Failure
================================================================================
