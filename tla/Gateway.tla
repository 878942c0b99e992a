------------------------------- MODULE Gateway -------------------------------
(***************************************************************************)
(* One request to a completion route, from the middleware to its answer:   *)
(* the key is validated, the body parsed, and the upstream called, either  *)
(* for one answer, which is translated and then recorded, or for a stream, *)
(* whose events go through StreamPipe.                                     *)
(*                                                                         *)
(* An error becomes a status: respondAuthError for the middleware's,       *)
(* mapErrorToResponse and ClientStatus for the handler's.  A stream has    *)
(* its status before the upstream is called, so its errors have none.      *)
(***************************************************************************)
EXTENDS StreamPipe

CONSTANTS
    UpstreamStatus,  \* the statuses the upstream answers with
    MaxSends         \* the times go-redis sends a pipeline at most: one, and its retries

ASSUME UpstreamAssumption == 200 \in UpstreamStatus /\ UpstreamStatus \subseteq 200 .. 599
ASSUME SendsAssumption == MaxSends \in Nat \ {0}

VARIABLES
    phase,       \* "received", "admitted", "calling", "streaming", "answered"
    cause,       \* (history) what decided the answer
    upstream,    \* the status the upstream answered with, 0 before
    status,      \* the status of the response, 0 before
    recording,   \* the goroutine of IncrementAsync: "none", "pending", or how it
                 \* ended: "done", "logged" (an error), "lost" (with the process)
    sends,       \* (history) the times it sent its pipeline
    charges      \* the times Redis executed the INCRBY

pipeVars == vars
requestVars == <<phase, cause, upstream, status, recording, sends, charges>>
gatewayVars == <<pipeVars, requestVars>>

(* Why ValidateKey fails, and why a call upstream does. *)
AuthFailures == {"badKey", "lookupFailed", "quotaSpent", "counterFailed"}
CallFailures == {"unreached", "timeout", "refused", "unusable"}
Causes == {"none", "malformed", "served"} \cup AuthFailures \cup CallFailures

GatewayTypeOK ==
    /\ TypeOK
    /\ phase \in {"received", "admitted", "calling", "streaming", "answered"}
    /\ cause \in Causes
    /\ upstream \in UpstreamStatus \cup {0}
    /\ status \in {0} \cup 200 .. 599
    /\ recording \in {"none", "pending", "done", "logged", "lost"}
    /\ sends \in 0 .. MaxSends
    /\ charges \in 0 .. MaxSends

GatewayInit ==
    /\ Init
    /\ phase = "received" /\ cause = "none"
    /\ upstream = 0 /\ status = 0
    /\ recording = "none" /\ sends = 0 /\ charges = 0

-----------------------------------------------------------------------------
(* From errors to statuses. *)

(* ValidateKey: a failed lookup is an invalid key, whatever made it fail. *)
ValidateKey(failure) ==
    CASE failure \in {"badKey", "lookupFailed"} -> "ErrInvalidAPIKey"
      [] failure = "quotaSpent"                 -> "ErrQuotaExceeded"
      [] OTHER                                  -> "other"

respondAuthError(err) ==
    CASE err = "ErrQuotaExceeded" -> 429
      [] err = "ErrInvalidAPIKey" -> 401
      [] OTHER                    -> 500

(* Mutant of ClientStatus: an off-by-one that makes an upstream 500 a 400. *)
ClientStatusAbove500(code) ==
    CASE code \in {401, 403, 413, 429} -> code
      [] code > 500                    -> 502
      [] OTHER                         -> 400

ClientStatus(code) ==
    CASE code \in {401, 403, 413, 429} -> code
      [] code >= 500                   -> 502
      [] OTHER                         -> 400

(* No error is a fiber.ErrBadRequest: a malformed body is an internal error. *)
mapErrorToResponse(failure, code) ==
    CASE failure = "refused" -> ClientStatus(code)
      [] failure = "timeout" -> 504
      [] OTHER               -> 500

-----------------------------------------------------------------------------
Respond(code, why) ==
    /\ phase' = "answered"
    /\ status' = code
    /\ cause' = why

(* APIKeyMiddleware *)
Admit ==
    /\ phase = "received"
    /\ \/ /\ phase' = "admitted"
          /\ UNCHANGED <<status, cause>>
       \/ \E failure \in AuthFailures : Respond(respondAuthError(ValidateKey(failure)), failure)
    /\ UNCHANGED <<pipeVars, upstream, recording, sends, charges>>

(* ParseRequest, and the choice of handleStream or handleBlocking.  The     *)
(* stream's handler returns at once, with 200: the pipe runs behind it.    *)
HandleCompletion ==
    /\ phase = "admitted"
    /\ \/ /\ Respond(mapErrorToResponse("malformed", 0), "malformed")
       \/ /\ phase' = "calling"
          /\ UNCHANGED <<status, cause>>
       \/ /\ phase' = "streaming" /\ status' = 200
          /\ UNCHANGED cause
    /\ UNCHANGED <<pipeVars, upstream, recording, sends, charges>>

(* Mutant of CallFails: the usage is recorded as soon as the upstream has *)
(* answered, so also for an answer that turns out to be unusable.         *)
CallFailsCharged ==
    /\ phase = "calling"
    /\ \E code \in {c \in UpstreamStatus : c <= 399} :
          /\ Respond(mapErrorToResponse("unusable", code), "unusable")
          /\ upstream' = code
    /\ recording' = "pending"
    /\ UNCHANGED <<pipeVars, sends, charges>>

(* The call ends: there is no answer, or one with an error status, or one  *)
(* that does not parse or has no content.  The client may be gone by then. *)
CallFails ==
    /\ phase = "calling"
    /\ \/ \E failure \in {"unreached", "timeout"} :
             /\ Respond(mapErrorToResponse(failure, 0), failure)
             /\ UNCHANGED upstream
       \/ \E code \in UpstreamStatus :
             /\ LET failure == IF code > 399 THEN "refused" ELSE "unusable"
                IN  Respond(mapErrorToResponse(failure, code), failure)
             /\ upstream' = code
    /\ UNCHANGED <<pipeVars, recording, sends, charges>>

CallSucceeds ==
    /\ phase = "calling"
    /\ Respond(200, "served")
    /\ upstream' = 200
    /\ recording' = "pending"
    /\ UNCHANGED <<pipeVars, sends, charges>>

(* One attempt of the goroutine at the increment's pipeline: Redis executes *)
(* it or not, and the reply arrives or not.  go-redis sends a pipeline      *)
(* again whose reply it did not get, and gives up in the end; the error is  *)
(* then only logged.                                                        *)
RecordUsage ==
    /\ recording = "pending"
    /\ sends' = sends + 1
    /\ \/ charges' = charges + 1 /\ recording' = "done"
       \/ charges' \in {charges, charges + 1} /\ recording' = "logged"
       \/ /\ sends' < MaxSends
          /\ charges' \in {charges, charges + 1}
          /\ UNCHANGED recording
    /\ UNCHANGED <<pipeVars, phase, cause, upstream, status>>

(* The process stops: nothing waits for the goroutine.  (What a shutdown does *)
(* to requests that are under way is Server's.)                               *)
Shutdown ==
    /\ recording = "pending"
    /\ recording' = "lost"
    /\ UNCHANGED <<pipeVars, phase, cause, upstream, status, sends, charges>>

-----------------------------------------------------------------------------
(* The stream: steps of StreamPipe. *)

(* The upstream answers; CompleteStream does not look at the status. *)
PostStream ==
    /\ phase = "streaming"
    /\ Post
    /\ upstream' \in UpstreamStatus
    /\ UNCHANGED <<phase, cause, status, recording, sends, charges>>

(* Only the body of an answer that is no error has data lines. *)
Produce ==
    /\ phase = "streaming"
    /\ (Scan /\ upstream <= 399) \/ Send \/ Finish
    /\ UNCHANGED requestVars

Consume ==
    /\ phase = "streaming"
    /\ Consumer
    /\ UNCHANGED requestVars

Leave ==
    /\ Disconnect
    /\ UNCHANGED requestVars

Call == CallFails \/ CallSucceeds

GatewayNext ==
    \/ Admit \/ HandleCompletion \/ Call \/ RecordUsage \/ Shutdown
    \/ PostStream \/ Produce \/ Consume \/ Leave

GatewaySpec == GatewayInit /\ [][GatewayNext]_gatewayVars

(* The handler and its goroutines run.  A call ends by the client timeout, *)
(* as do the upstream's lines; the server's write timeout ends a blocked   *)
(* flush.  PostgreSQL and Redis answer the middleware.                     *)
GatewayFairSpec ==
    /\ GatewaySpec
    /\ WF_gatewayVars(Admit) /\ WF_gatewayVars(HandleCompletion)
    /\ WF_gatewayVars(Call) /\ WF_gatewayVars(RecordUsage)
    /\ WF_gatewayVars(PostStream \/ Produce) /\ WF_gatewayVars(Consume)

-----------------------------------------------------------------------------
(***************************************************************************)
(* The status says on whose side the fault was: 5xx when Veil, Redis or    *)
(* the upstream failed, 4xx when the request was refused, here or there,   *)
(* 200 when there is an answer.  There are two exceptions, one each way: a *)
(* lookup that fails is answered like a wrong key, and a malformed body is *)
(* answered like a failure of Veil.                                        *)
(***************************************************************************)
ServerFault ==
    \/ cause \in {"counterFailed", "unreached", "timeout", "unusable"}
    \/ cause = "refused" /\ upstream >= 500

StatusTellsFault ==
    phase = "answered" =>
        /\ status = 200 <=> cause = "served"
        /\ status >= 500 <=> ServerFault \/ cause = "malformed"
        /\ cause = "lookupFailed" => status = 401

(***************************************************************************)
(* Only a completion that was answered is ever charged, also if its client *)
(* has left meanwhile; one that fails, at whatever point, is not.  It may  *)
(* stay uncharged only while its increment is on its way, when that failed *)
(* and was logged, or when the process stopped first; and it is charged    *)
(* twice only if go-redis sent its pipeline twice.                         *)
(***************************************************************************)
ChargedIfServed ==
    /\ sends > 0 => cause = "served"
    /\ charges <= sends
    /\ cause = "served" /\ charges = 0 => recording \in {"pending", "logged", "lost"}

(***************************************************************************)
(* Every request ends: it is answered and, if served, its increment ends,  *)
(* one way or another, or it is streamed and the writer ends, and so does  *)
(* the producer unless the writer has abandoned it: an upstream connection *)
(* and a goroutine are kept only then.                                     *)
(***************************************************************************)
RequestEnds ==
    /\ <>(phase \in {"answered", "streaming"})
    /\ cause = "served" ~> recording \in {"done", "logged", "lost"}
    /\ phase = "streaming" ~> consumer \in {"returned", "aborted"}
    /\ phase = "streaming" ~> producer = "done" \/ consumer = "aborted"
=============================================================================
