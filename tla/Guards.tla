------------------------------- MODULE Guards -------------------------------
(***************************************************************************)
(* Who is let in (internal/api/api.go, and main's check of the address it  *)
(* listens on).  A request has an Origin ("none", "listed" in              *)
(* TERMINAL_CORS_ORIGINS or "other"), a Host, credentials in four places   *)
(* ("none", "right" or "wrong" each), a method and a path.  The            *)
(* configuration says whether a key is set and which address is listened   *)
(* on.                                                                     *)
(***************************************************************************)
EXTENDS Integers

Hosts == {"localhost", "127.0.0.1", "lan", "name"}

\* Names are only believed if they are localhost; the rest must be addresses.
IsLoopback(host) == host \in {"localhost", "127.0.0.1"}

LocalOnly(cfg) == IsLoopback(cfg.host)

\* main does not start without a key on an address others can reach.
Starts(cfg) == cfg.key \/ LocalOnly(cfg)

Streams == {"ws", "stream"}

AllRequests ==
    [origin : {"none", "listed", "other"}, host : Hosts,
     preflight : BOOLEAN, path : {"health", "run", "input", "ws"},
     header : {"none", "right", "wrong"}, bearer : {"none", "right", "wrong"},
     token : {"none", "right", "wrong"}, apiKey : {"none", "right", "wrong"}]

\* The first place a key is given in; the query counts for streams only.
Provided(r) ==
    CASE r.header # "none" -> r.header
      [] r.header = "none" /\ r.bearer # "none" -> r.bearer
      [] OTHER -> IF r.path \notin Streams THEN "none"
                  ELSE IF r.token # "none" THEN r.token ELSE r.apiKey

\* Each guard's answer, 0 to pass the request on.
withOrigin(r) ==
    CASE r.origin = "none" -> 0
      [] r.origin = "other" -> 403
      [] r.origin = "listed" -> IF r.preflight THEN 204 ELSE 0

withHost(cfg, r) == IF cfg.key \/ IsLoopback(r.host) THEN 0 ELSE 403

withAuth(cfg, r) ==
    IF ~cfg.key \/ r.path = "health" \/ Provided(r) = "right" THEN 0 ELSE 401

\* The mux has no handler for OPTIONS.
Route(r) == IF r.preflight THEN 405 ELSE 0

\* Variant: a request that names no key is not asked for one.
VerdictUnlessAbsent(cfg, r) ==
    CASE withOrigin(r) # 0 -> withOrigin(r)
      [] withOrigin(r) = 0 /\ withHost(cfg, r) # 0 -> withHost(cfg, r)
      [] OTHER -> IF Provided(r) # "none" /\ withAuth(cfg, r) # 0
                  THEN withAuth(cfg, r) ELSE Route(r)

\* The answer of the guards, or 0 if a handler is reached.
Verdict(cfg, r) ==
    CASE withOrigin(r) # 0 -> withOrigin(r)
      [] withOrigin(r) = 0 /\ withHost(cfg, r) # 0 -> withHost(cfg, r)
      [] OTHER -> IF withAuth(cfg, r) # 0 THEN withAuth(cfg, r) ELSE Route(r)

\* What the relay link sends to the agent's own address.
RelayRequest(cfg, path) ==
    [origin |-> "none", host |-> "127.0.0.1", preflight |-> FALSE, path |-> path,
     header |-> IF cfg.key THEN "right" ELSE "none", bearer |-> "none",
     token |-> "none", apiKey |-> "none"]
=============================================================================
