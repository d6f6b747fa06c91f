----------------------------- MODULE LifeCycle -----------------------------
(* The life cycle of an incident: IncidentStatus, the transitions it may    *)
(* make, and the statuses in which it is unique for its correlation key.    *)
EXTENDS Naturals, Sequences

LifeCycle == <<"open", "acknowledged", "investigating", "contained", "resolved", "closed">>
IncidentStatus == {LifeCycle[n] : n \in DOMAIN LifeCycle}

\* Faulty variant of Allowed: an incident may be closed from any status.
AllowedClose(s) == {LifeCycle[n + 1] : n \in {m \in 1..5 : LifeCycle[m] = s}} \cup {"closed"}

\* The statuses that ALLOWED_STATUS_TRANSITIONS gives for s.
Allowed(s) == {LifeCycle[n + 1] : n \in {m \in 1..5 : LifeCycle[m] = s}}

\* Incident.transition_to: any other transition raises.
MayMove(from, to) == to \in Allowed(from)

\* ACTIVE_INCIDENT_STATUSES
ActiveStatus == {"open", "acknowledged", "investigating", "contained"}
=============================================================================
