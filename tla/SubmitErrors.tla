---------------------------- MODULE SubmitErrors ----------------------------
(***************************************************************************)
(* What a caller can learn from an error of the ledger's or of Scan's HTTP *)
(* client: the body as it was read (error.ts of ledger/src and scan/src),  *)
(* the Canton payload in it (cantonError.ts) and what it says of a submit  *)
(* (submitClassify.ts).                                                    *)
(*                                                                         *)
(* A thrown value is its HTTP status and its tagged body; what the client  *)
(* itself throws (no connection, a response that does not decode) has      *)
(* neither.  A payload is its code, its category and whether it names a    *)
(* delay after which to retry; typed says which fields have their type.    *)
(***************************************************************************)
EXTENDS Integers

NoStatus == 0
NoPayload == [code |-> "none", errorCategory |-> 0, retryInfo |-> FALSE,
              typed |-> {"code", "errorCategory"}]
Payload(code, category) ==
  [code |-> code, errorCategory |-> category, retryInfo |-> FALSE,
   typed |-> {"code", "cause", "errorCategory", "context"}]

IsCantonError(p) == {"code", "cause", "errorCategory", "context"} \subseteq p.typed

\* A body as it arrives: one that cannot be read, an empty one, text, or JSON.
Unreadable == [is |-> "unreadable", json |-> NoPayload]
Blank == [is |-> "blank", json |-> NoPayload]
Html == [is |-> "text", json |-> NoPayload]
Json(p) == [is |-> "json", json |-> p]

readErrorBody(raw) ==
  CASE raw.is \in {"unreadable", "blank"} -> [kind |-> "empty", error |-> NoPayload]
    [] raw.is = "text" -> [kind |-> "text", error |-> NoPayload]
    [] raw.is = "json" /\ IsCantonError(raw.json) -> [kind |-> "canton", error |-> raw.json]
    [] OTHER -> [kind |-> "json", error |-> NoPayload]

LedgerApiError(status, raw) == [status |-> status, body |-> readErrorBody(raw)]

\* Scan's bodies are not looked at for a Canton payload.
ScanApiError(status, raw) ==
  [status |-> status,
   body |-> [kind |-> IF raw.is \in {"unreadable", "blank"} THEN "empty" ELSE raw.is,
             error |-> NoPayload]]

\* A TypeError of fetch, an Error of a decoder or of the validation.
ClientError == [status |-> NoStatus, body |-> readErrorBody(Blank)]

-----------------------------------------------------------------------------
(* Reading the payload.                                                    *)

CATEGORY_BY_INT ==
  <<"transient", "contention", "deadline", "internal", "security", "unauthenticated",
    "permission", "invalidRequest", "invalidState", "resourceExists", "resourceMissing",
    "seekAfterEnd", "degraded", "unsupported">>

RETRYABLE_CATEGORIES == {"transient", "contention", "deadline", "seekAfterEnd"}

CONTRACT_GONE_CODES == {"CONTRACT_NOT_FOUND", "LOCAL_VERDICT_INACTIVE_CONTRACTS"}

HasCantonError(e) == e.body.kind = "canton"

categoryOf(p) ==
  IF p.errorCategory \in DOMAIN CATEGORY_BY_INT THEN CATEGORY_BY_INT[p.errorCategory] ELSE "unknown"

isRetryable(p) == p.retryInfo \/ categoryOf(p) \in RETRYABLE_CATEGORIES

-----------------------------------------------------------------------------
(* What it says of a submit.                                               *)

\* Mutant: a command still in flight is taken for one that is applied.
MutIsAlreadyApplied(e) ==
  HasCantonError(e) /\ e.body.error.code \in {"DUPLICATE_COMMAND", "SUBMISSION_ALREADY_IN_FLIGHT"}
isAlreadyApplied(e) == HasCantonError(e) /\ e.body.error.code = "DUPLICATE_COMMAND"

isAlreadyArchived(e) ==
  isAlreadyApplied(e) \/ (HasCantonError(e) /\ e.body.error.code \in CONTRACT_GONE_CODES)

isRetriableSubmit(e) ==
  \/ e.status \in {408, 429} \/ e.status >= 500
  \/ HasCantonError(e) /\ isRetryable(e.body.error)

\* Mutant: a 503 is taken for a plain transient.
MutIsIndeterminateSubmit(e) == HasCantonError(e) /\ categoryOf(e.body.error) = "deadline"
isIndeterminateSubmit(e) ==
  \/ e.status = 503
  \/ HasCantonError(e) /\ categoryOf(e.body.error) = "deadline"

isConfirmedPermanentReject(e) ==
  ~isAlreadyArchived(e) /\ ~isRetriableSubmit(e) /\ HasCantonError(e) /\ ~isRetryable(e.body.error)
=============================================================================
