------------------------------- MODULE UfmCall -------------------------------
(***************************************************************************)
(* How one call to UFM ends for the facade: Client.do of                   *)
(* pkg/ufmclient/client.go turns what comes back into a Go error value,    *)
(* and handleUFMError of internal/handler/errors.go turns that error into  *)
(* the status the facade answers with.                                     *)
(*                                                                         *)
(* Of a response the status is kept and whether its body decodes into the  *)
(* Go type the caller expects.  Nothing comes back (Silence) when the      *)
(* connection fails or is cut, when the request's context is cancelled, or *)
(* when the HTTP client's timeout (30 s unless WithTimeout) is over.       *)
(***************************************************************************)
EXTENDS Integers

Response(status)   == [got |-> TRUE,  status |-> status, decodes |-> TRUE]
Unreadable(status) == [got |-> TRUE,  status |-> status, decodes |-> FALSE]
Silence            == [got |-> FALSE, status |-> 0,      decodes |-> FALSE]

Responses == [got : BOOLEAN, status : Nat, decodes : BOOLEAN]

(* The three kinds of Go error values: nil, *APIError, any other error.    *)
NoError       == [kind |-> "nil",   status |-> 0]
APIError(s)   == [kind |-> "api",   status |-> s]
OtherError    == [kind |-> "other", status |-> 0]

NoContent == 204

-----------------------------------------------------------------------------
(* Mutated form of do: silence counts as success.                          *)
doTrustingSilence(resp, wantsResult) ==
  IF resp.got /\ resp.status >= 400 THEN APIError(resp.status) ELSE NoError

(* Client.do and, for requests without a result, Client.UploadMultipart.   *)
do(resp, wantsResult) ==
  IF ~resp.got THEN OtherError
  ELSE IF resp.status >= 400 THEN APIError(resp.status)
  ELSE IF wantsResult /\ resp.status # NoContent /\ ~resp.decodes THEN OtherError
  ELSE NoError

(* The statuses of UFM that the facade passes on as they are.              *)
PassedOn == {400, 401, 403, 404, 409, 422}

BadGateway == 502

(* Mutated form of handleUFMError: what is not known is called a conflict. *)
handleUFMErrorAsConflict(err) == IF err.kind = "api" THEN err.status ELSE 409

handleUFMError(err) ==
  IF err.kind = "api" /\ err.status \in PassedOn THEN err.status ELSE BadGateway

(* How every handler that makes one call to UFM answers.                   *)
Answered(resp, wantsResult, success) ==
  LET err == do(resp, wantsResult)
  IN  IF err = NoError THEN success ELSE handleUFMError(err)
=============================================================================
