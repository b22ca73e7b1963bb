-------------------------- MODULE TransportErrors --------------------------
(***************************************************************************)
(* How a failed dial becomes an observation: internal/transport/errors.go  *)
(* classifies the Go error under the request's context, and the handler    *)
(* turns the class into the vocabulary the recovery matrix matches on.     *)
(* An error is the set of facts that errors.Is and errors.As find in its   *)
(* chain; a context is "live" or carries the reason the caller ended it.   *)
(***************************************************************************)

Unset == "none"

TransportClasses == {"connection", "timeout", "proxy_connect", "proxy_auth"}

(* The context a failed attempt ran under, as ctx.Err() reports it. *)
Contexts == {"live", "canceled", "deadline"}

IsTimeout(err) == err \cap {"deadlineExceeded", "netTimeout"} # {}

(* The order of the cases is the order of the code's tests. *)
Classify(err) ==
  CASE "exchangeDeadline" \in err -> "canceled"
    [] "exchangeDeadline" \notin err /\ "exchangeTimeout" \in err -> "timeout"
    [] err \cap {"exchangeDeadline", "exchangeTimeout"} = {} ->
         IF "canceled" \in err THEN "canceled"
         ELSE IF "proxyAuth" \in err THEN "proxy_auth"
         ELSE IF "proxyConnect" \in err THEN "proxy_connect"
         ELSE IF IsTimeout(err) THEN "timeout"
         ELSE "connection"

causeOfConnection(err) ==
  IF "refused" \in err THEN "connection_refused"
  ELSE IF "certificate" \in err THEN "tls"
  ELSE "dial"

Cause(class, err) ==
  CASE class = "proxy_auth"    -> "proxy_auth"
    [] class = "proxy_connect" -> IF IsTimeout(err) THEN "proxy_timeout" ELSE "proxy_connect"
    [] class = "timeout"       -> IF "deadlineExceeded" \in err THEN "deadline_exceeded"
                                  ELSE "network_timeout"
    [] class = "connection"    -> causeOfConnection(err)
    [] class = "canceled"      -> Unset

(* A context that is done owns the failure, whatever the chain carries. *)
ClassifyAttempt(ctx, err) ==
  IF ctx = "live"
  THEN [class |-> Classify(err), cause |-> Cause(Classify(err), err), callerTerminated |-> FALSE]
  ELSE [class |-> "canceled", callerTerminated |-> TRUE,
        cause |-> IF ctx = "canceled" THEN "caller_canceled" ELSE "caller_deadline_exceeded"]

(* The handler's side of the seam: "canceled" has no transport class. *)
transportClassOf(class) == IF class \in TransportClasses THEN class ELSE Unset

(* Mutant: a proxy that timed out is filed under the timeouts. *)
TransportClassOfCauseByName(cause) ==
  CASE cause \in {"connection_refused", "tls", "dial", "no_eligible_endpoint"} -> "connection"
    [] cause \in {"network_timeout", "deadline_exceeded", "proxy_timeout"} -> "timeout"
    [] cause = "proxy_connect" -> "proxy_connect"
    [] cause = "proxy_auth" -> "proxy_auth"
    [] OTHER -> Unset

(* The class each cause token belongs to, as the matrix assumes it. *)
TransportClassOfCause(cause) ==
  CASE cause \in {"connection_refused", "tls", "dial", "no_eligible_endpoint"} -> "connection"
    [] cause \in {"network_timeout", "deadline_exceeded"} -> "timeout"
    [] cause \in {"proxy_connect", "proxy_timeout"} -> "proxy_connect"
    [] cause = "proxy_auth" -> "proxy_auth"
    [] OTHER -> Unset
=============================================================================
