----------------------------- MODULE MCServices -----------------------------
(***************************************************************************)
(* The services beside the games, each on a small instance.  They share no *)
(* state, so a behaviour is one of a single service, the others at rest.   *)
(***************************************************************************)
EXTENDS Content, Delivery, RateLimiter, Telemetry, Migrations

CONSTANTS old, new

\* The new release has a migration more.
FilesOf == [r \in Runners |-> IF r = old THEN 2 ELSE 3]

VARIABLE service

vars == <<contentVars, deliveryVars, limiterVars, telemetryVars, migrationVars, service>>

Content_(A) ==
  /\ service = "content" /\ A
  /\ UNCHANGED <<deliveryVars, limiterVars, telemetryVars, migrationVars, service>>
Delivery_(A) ==
  /\ service = "delivery" /\ A
  /\ UNCHANGED <<contentVars, limiterVars, telemetryVars, migrationVars, service>>
Limiter_(A) ==
  /\ service = "limiter" /\ A
  /\ UNCHANGED <<contentVars, deliveryVars, telemetryVars, migrationVars, service>>
Telemetry_(A) ==
  /\ service = "telemetry" /\ A
  /\ UNCHANGED <<contentVars, deliveryVars, limiterVars, migrationVars, service>>
Migrations_(A) ==
  /\ service = "migrations" /\ A
  /\ UNCHANGED <<contentVars, deliveryVars, limiterVars, telemetryVars, service>>

Init ==
  /\ service \in {"content", "delivery", "limiter", "telemetry", "migrations"}
  /\ IF service = "content" THEN ContentInit
     ELSE ContentInit /\ status = [c \in Cards |-> "approved"]
  /\ DeliveryInit /\ LimiterInit /\ TelemetryInit /\ MigrationsInit

Next ==
  \/ Content_(ContentNext) \/ Delivery_(DeliveryNext) \/ Limiter_(LimiterNext)
  \/ Telemetry_(TelemetryNext) \/ Migrations_(MigrationsNext)

\* The fairness of each service, of the one that runs.
Fairness ==
  /\ WF_vars(Content_(RefreshDeck))
  /\ \A t \in Tasks : WF_vars(Delivery_(Runs(t)))
  /\ \A c \in Conns : WF_vars(Delivery_(Pumps(c)))
  /\ WF_vars(Telemetry_(FlusherRuns))
  /\ \A k \in Kinds : WF_vars(Telemetry_(Receive(k)))

ServicesSpec == Init /\ [][Next]_vars /\ Fairness
=============================================================================
