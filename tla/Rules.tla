-------------------------------- MODULE Rules --------------------------------
(***************************************************************************)
(* The correlation keys of a security event: which rules are active, which *)
(* of them the event is eligible for, and the key each of them builds.     *)
(*                                                                         *)
(* An event is a record.  source and type are texts, kept as the sequence  *)
(* of their parts between colons; words are the keywords that event_type   *)
(* contains in lower case; at is occurred_at in ticks since the epoch.     *)
(***************************************************************************)
EXTENDS Integers, Sequences, FiniteSets

CONSTANTS
    TicksPerSecond,  \* resolution of occurred_at
    Window,          \* window_seconds
    Catalogue,       \* correlation_rule_versions: pairs of a rule and is_active
    NoAsset

ASSUME RulesAssumptions ==
    /\ TicksPerSecond \in Nat \ {0}
    /\ Window \in Nat \ {0}
    /\ Catalogue \subseteq STRING \X BOOLEAN

\* AVAILABLE_RULES, in order.
RuleIds == <<"R-INFRA-001", "R-AUTH-001">>

InfraWords == {"down", "unreachable", "timeout", "failure", "unavailable"}
AuthWords == {"login_failed", "auth_failure", "brute_force", "invalid_credentials"}

\* The keywords event_type contains: one of them contains another.
Contained(e) == e.words \cup IF "auth_failure" \in e.words THEN {"failure"} ELSE {}

\* is_eligible
Eligible(rule, e) ==
    \/ /\ rule = "R-INFRA-001"
       /\ Contained(e) \cap InfraWords # {} \/ e.severity \in {"HIGH", "CRITICAL"}
    \/ /\ rule = "R-AUTH-001"
       /\ Contained(e) \cap AuthWords # {}

\* list_active
ListActive == {v[1] : v \in {w \in Catalogue : w[2]}}

\* The rules the consumer gives to the handler, by position.  A catalogue without
\* an active rule counts as an empty one, and the defaults apply.
ActiveRules == {n \in DOMAIN RuleIds : ListActive = {} \/ RuleIds[n] \in ListActive}

\* int(timestamp()): the fraction of a second is cut off, towards the epoch.
Seconds(at) == IF at >= 0 THEN at \div TicksPerSecond ELSE -((-at) \div TicksPerSecond)

\* Faulty variant of Bucket: the window nearest to the event.
BucketNearest(at) == ((Seconds(at) + Window \div 2) \div Window) * Window

\* _compute_time_bucket
Bucket(at) == (Seconds(at) \div Window) * Window

\* The text of the asset, or of source and type when there is none.
AssetKey(e) == IF e.asset # NoAsset THEN <<e.asset>> ELSE e.source \o e.type

\* _build_correlation_key.  Version and category go with the rule.
KeyFor(rule, e) ==
    [tenant |-> e.tenant, rule |-> rule, asset |-> AssetKey(e), window |-> Bucket(e.at)]

\* The n-th number of S.
Nth(S, n) == CHOOSE m \in S : Cardinality({k \in S : k <= m}) = n

\* The keys of an event, in rule order.
KeysFor(e) ==
    LET eligible == {n \in ActiveRules : Eligible(RuleIds[n], e)}
    IN  [n \in 1 .. Cardinality(eligible) |-> KeyFor(RuleIds[Nth(eligible, n)], e)]
=============================================================================
