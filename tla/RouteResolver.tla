---------------------------- MODULE RouteResolver ---------------------------
(***************************************************************************)
(* Hub aggregation (src/sdwan_v5/hub_health.py) and target resolution      *)
(* (src/sdwan_v5/route_resolver.py) over the tunnels of one spoke: one     *)
(* tunnel per hub and transport.  The failover runtime resolves with       *)
(* egress mode HUB_OVERLAY only and leaves loss, jitter, RTT, bandwidth    *)
(* and cost at their defaults, so the sort key of resolve() comes down to  *)
(* the hub; the loop over ranked transports comes before it.               *)
(***************************************************************************)
EXTENDS TunnelHealth

CONSTANTS
  Preferred, Standby,  \* preferred_hub and standby_hub of the site profile
  Transport,           \* TRANSPORTS
  Place                \* Place[t]: position of t in config.transports

ASSUME ResolverAssumption ==
  /\ Preferred # Standby
  /\ Transport # {}
  /\ Place \in [Transport -> Nat \ {0}]
  /\ \A t, u \in Transport : Place[t] = Place[u] => t = u

Hub == {Preferred, Standby}
Interface == [hub : Hub, transport : Transport]

TunnelsOf(hub) == {i \in Interface : i.hub = hub}

(***************************************************************************)
(* aggregate_hub().  TunnelsOf(hub) is never empty, so the "no tunnel      *)
(* measurements" answer cannot occur here.                                 *)
(***************************************************************************)
\* Faulty variant: one FAILED tunnel makes the whole hub unreachable.
HubStateOneFails(hub, health) ==
  IF \E i \in TunnelsOf(hub) : health[i].state = "FAILED" THEN "UNREACHABLE" ELSE "DEGRADED"

HubState(hub, health) ==
  LET In(state) == {i \in TunnelsOf(hub) : health[i].state = state}
  IN  IF In("FAILED") = TunnelsOf(hub) THEN "UNREACHABLE"
      ELSE IF In("RECOVERING") # {} /\ In("HEALTHY") = {} THEN "RECOVERING"
      ELSE IF In("HEALTHY") = TunnelsOf(hub) THEN "HEALTHY"
      ELSE "DEGRADED"

\* Faulty variant: whatever has not failed may be taken.
EligibleUnlessFailed(i, health) == health[i].state # "FAILED"

\* Target.healthy of a HUB_OVERLAY target.
Eligible(i, health) ==
  /\ health[i].state = "HEALTHY"
  /\ HubState(i.hub, health) \in {"HEALTHY", "DEGRADED"}

Candidates(health) == {i \in Interface : Eligible(i, health)}

\* Faulty variant: the slot's own transport has no precedence.
RankByPlace(slot, transport) == Place[transport]

\* ranked_transports: the slot's own transport, then the others in order.
Rank(slot, transport) == IF transport = slot THEN 0 ELSE Place[transport]

Precedes(slot, i, j) ==
  \/ Rank(slot, i.transport) < Rank(slot, j.transport)
  \/ i.transport = j.transport /\ (i.hub = Preferred \/ j.hub = Standby)

(***************************************************************************)
(* resolve() after a hard failure: the current target is not retained, the *)
(* first eligible target in rank order is taken.  LookupError is           *)
(* Candidates(health) = {}.                                                *)
(***************************************************************************)
Resolve(slot, health) ==
  CHOOSE i \in Candidates(health) :
    \A j \in Candidates(health) : Precedes(slot, i, j)
=============================================================================
