------------------------------- MODULE Access -------------------------------
(***************************************************************************)
(* Who may do what, and until when: tokens issued at login, the refresh of *)
(* an access token, logout through the revocation store, and the decision  *)
(* the API takes on each request from the claims of its token.             *)
(*                                                                         *)
(* Time is counted in ticks, Second of them a second.  The exp claim of a  *)
(* token and the lifetime of a Redis key are whole seconds, the clocks     *)
(* they are compared with are not.  Verifying a token decodes it first and *)
(* asks the store afterwards: the answer of Redis is awaited in between.   *)
(***************************************************************************)
EXTENDS Integers

CONSTANTS
    Tokens,         \* jti of the tokens
    Requests,       \* HTTP requests
    Tenants,        \* tenant identifiers
    Claims,         \* [tenant, roles] an identity provider, or a dev form, may give
    Second,         \* ticks in a second
    AccessSeconds,  \* lifetime of an access token: 28800
    RefreshSeconds, \* lifetime of a refresh token: 604800
    MinTtl,         \* lifetime of an entry written in the token's last second: 60
    None, Malformed, All,
    MaxClock,       \* bound on the clock (model checking only)
    MaxFaults       \* bound on Redis failures and API restarts (model checking only)

ASSUME AccessAssumptions ==
    /\ {Second, AccessSeconds, RefreshSeconds, MinTtl} \subseteq Nat \ {0}
    /\ {MaxClock, MaxFaults} \subseteq Nat
    /\ None \notin Tokens \cup Tenants /\ Malformed \notin Tenants /\ All \notin Tenants
    /\ None # All /\ None # Malformed /\ All # Malformed

VARIABLES
    mode,      \* "closed" (staging, production), "open" (dev or test with Redis), "memory"
    clock,
    token,     \* the tokens signed so far: token_type, claims, exp, and the refresh
               \* token an access token was minted from
    entry,     \* when the revocation entry of a token ends, 0 if there is none
    loggedOut, \* tokens whose logout was answered 200
    pc, op, tok, \* each request: control point or status code, kind, token
    ttl,       \* seconds it computed for its revocation entry; 0: no payload
    scope,     \* tenant it was granted, All, or None
    faults

storeVars == <<entry, loggedOut>>
requestVars == <<pc, op, tok, ttl, scope>>
vars == <<mode, clock, token, storeVars, requestVars, faults>>

-----------------------------------------------------------------------------
(* Decisions: rbac.py, tenant_auth.py and the routes                       *)

\* ROLE_HIERARCHY; a role string the enumeration does not know has no level.
RoleLevel == [viewer |-> 1, analyst |-> 2, engineer |-> 3,
              security_admin |-> 4, system_admin |-> 5]

\* RBACManager.has_required_role
HasRequiredRole(roles, required) ==
    \E x \in roles \cap DOMAIN RoleLevel : RoleLevel[x] >= RoleLevel[required]

Routes == {"check_scope", "create_tenant", "update_tenant", "delete_tenant", "list_tenants",
           "get_tenant", "ingest_log", "list_logs", "acknowledge_alert", "incidents"}

\* The role a route asks SecurityKernel.authorize for; the incident routes ask
\* for none.
Authorized(roles, route) ==
    CASE route \in {"create_tenant", "update_tenant", "delete_tenant"} ->
            HasRequiredRole(roles, "system_admin")
      [] route \in {"check_scope", "ingest_log", "acknowledge_alert"} ->
            HasRequiredRole(roles, "analyst")
      [] route \in {"list_tenants", "get_tenant", "list_logs"} ->
            HasRequiredRole(roles, "viewer")
      [] route = "incidents" -> TRUE

\* authorize_tenant_access: the tenant operated on, none if denied.
EffectiveTenant(c, target) ==
    IF target \in {None, c.tenant} THEN {c.tenant}
    ELSE IF "system_admin" \notin c.roles THEN {}
    ELSE IF target = Malformed THEN {c.tenant}
    ELSE {target}

\* The tenant argument a route takes from its path, query or body.
Targets(route) ==
    CASE route \in {"get_tenant", "ingest_log"} -> Tenants \cup {Malformed}
      [] route \in {"list_logs", "acknowledge_alert"} -> Tenants \cup {None, Malformed}
      [] OTHER -> {None}

\* What a route that was passed works on.
Scopes(c, route, target) ==
    CASE route \in {"create_tenant", "update_tenant", "delete_tenant"} -> {All}
      [] route = "list_tenants" -> IF "system_admin" \in c.roles THEN {All} ELSE {c.tenant}
      [] route = "check_scope" -> {None}
      [] OTHER -> EffectiveTenant(c, target)

-----------------------------------------------------------------------------
(* Tokens: jwt.py, auth_routers.py                                         *)

\* A lifetime that starts now; jwt.encode truncates exp to whole seconds.
Expiry(seconds) == ((clock + seconds * Second) \div Second) * Second

\* generate_token and generate_refresh_token
Access(c, p) ==
    [type |-> "access", claims |-> c, exp |-> Expiry(AccessSeconds), parent |-> p]
Refresh(c) ==
    [type |-> "refresh", claims |-> c, exp |-> Expiry(RefreshSeconds), parent |-> None]

Unsigned == [type |-> "none", claims |-> [tenant |-> None, roles |-> {}],
             exp |-> 0, parent |-> None]
Free == {t \in Tokens : token[t] = Unsigned}

Answer(r, code) == pc' = [pc EXCEPT ![r] = code]

Init ==
    /\ mode \in {"closed", "open", "memory"}
    /\ clock = 0
    /\ token = [t \in Tokens |-> Unsigned]
    /\ entry = [t \in Tokens |-> 0]
    /\ loggedOut = {}
    /\ pc = [r \in Requests |-> "idle"]
    /\ op = [r \in Requests |-> "none"]
    /\ tok = [r \in Requests |-> None]
    /\ ttl = [r \in Requests |-> 0]
    /\ scope = [r \in Requests |-> None]
    /\ faults = 0

\* Both tokens of a session with claims c.
SignPair(r, c) ==
    /\ \E a, f \in Free :
          /\ a # f
          /\ token' = [token EXCEPT ![a] = Access(c, None), ![f] = Refresh(c)]
          /\ tok' = [tok EXCEPT ![r] = a]
    /\ Answer(r, "200")

\* A token route answers without a token.
Refuse(r, code) == Answer(r, code) /\ UNCHANGED <<token, tok>>

\* POST /auth/login with the claims of the provider, or in dev of the form;
\* claims without a tenant or without roles are refused.  The provider of this
\* repository is never available, tests put another in its place.
Login(r) ==
    /\ pc[r] = "idle"
    /\ op' = [op EXCEPT ![r] = "login"]
    /\ \/ mode = "closed" /\ Refuse(r, "403")
       \/ \E c \in Claims :
             \/ /\ c.tenant \notin Tenants \/ c.roles = {}
                /\ Refuse(r, IF mode = "closed" THEN "401" ELSE "400")
             \/ c.tenant \in Tenants /\ c.roles # {} /\ SignPair(r, c)
    /\ UNCHANGED <<mode, clock, storeVars, ttl, scope, faults>>

\* POST /auth/dev-token, in dev only, for one known role: test, whose modes are those
\* of dev, refuses.
DevToken(r) ==
    /\ pc[r] = "idle"
    /\ op' = [op EXCEPT ![r] = "login"]
    /\ \/ Refuse(r, "403")
       \/ /\ mode # "closed"
          /\ \E c \in Claims :
                IF c.tenant \in Tenants /\ \E x \in DOMAIN RoleLevel : c.roles = {x}
                THEN SignPair(r, c)
                ELSE Refuse(r, "400")
    /\ UNCHANGED <<mode, clock, storeVars, ttl, scope, faults>>

\* POST /auth/token, in dev only, signs an access token alone.
GenerateToken(r) ==
    /\ pc[r] = "idle"
    /\ op' = [op EXCEPT ![r] = "login"]
    /\ \/ Refuse(r, "403")
       \/ /\ mode # "closed"
          /\ \E c \in Claims, a \in Free :
                \/ c.tenant \notin Tenants /\ Refuse(r, "400")
                \/ /\ c.tenant \in Tenants
                   /\ token' = [token EXCEPT ![a] = Access(c, None)]
                   /\ tok' = [tok EXCEPT ![r] = a]
                   /\ Answer(r, "200")
    /\ UNCHANGED <<mode, clock, storeVars, ttl, scope, faults>>

\* jwt.decode: an expired token is refused before the store is asked.
Decoded(t) == clock < token[t].exp

\* A request with a bearer token, or POST /auth/refresh, comes in.
Arrive(r) ==
    /\ pc[r] = "idle"
    /\ \E o \in {"call", "logout", "refresh"}, t \in Tokens \ Free :
          /\ op' = [op EXCEPT ![r] = o]
          /\ tok' = [tok EXCEPT ![r] = t]
          /\ Answer(r, IF Decoded(t) THEN "check" ELSE "401")
    /\ UNCHANGED <<mode, clock, token, storeVars, ttl, scope, faults>>

-----------------------------------------------------------------------------
(* What a token that was found valid is used for                           *)

\* A business route.
Call(r) ==
    LET c == token[tok[r]].claims IN
    /\ \E route \in Routes : \E target \in Targets(route) :
          \/ /\ target = Malformed
             /\ route = "list_logs" => Authorized(c.roles, route)
             /\ Answer(r, "400") /\ UNCHANGED scope
          \/ /\ target # Malformed \/ route = "list_logs"
             /\ ~ Authorized(c.roles, route)
             /\ Answer(r, "403") /\ UNCHANGED scope
          \/ /\ target # Malformed
             /\ Authorized(c.roles, route)
             /\ Scopes(c, route, target) = {}
             /\ Answer(r, "403") /\ UNCHANGED scope
          \/ /\ target # Malformed
             /\ Authorized(c.roles, route)
             /\ \E x \in Scopes(c, route, target) : scope' = [scope EXCEPT ![r] = x]
             /\ Answer(r, "200")
    /\ UNCHANGED <<token, ttl>>

\* Faulty variant of Mint: any token can be exchanged, and the new one carries
\* the roles of an operator.
MintAsOperator(r) ==
    /\ \/ /\ token[tok[r]].type # "refresh" /\ Answer(r, "401") /\ UNCHANGED token
       \/ /\ token[tok[r]].type = "refresh"
          /\ \E t \in Free : token' = [token EXCEPT ![t] =
                Access([token[tok[r]].claims EXCEPT !.roles = {"system_admin"}], tok[r])]
          /\ Answer(r, "200")
    /\ UNCHANGED <<ttl, scope>>

\* refresh_token_async: only a refresh token is exchanged for an access token.
Mint(r) ==
    /\ \/ /\ token[tok[r]].type # "refresh" /\ Answer(r, "401") /\ UNCHANGED token
       \/ /\ token[tok[r]].type = "refresh"
          /\ \E t \in Free :
                token' = [token EXCEPT ![t] = Access(token[tok[r]].claims, tok[r])]
          /\ Answer(r, "200")
    /\ UNCHANGED <<ttl, scope>>

\* Faulty variant of Lifetime: no minimum for a token that has just expired.
LifetimeNoMinimum(left) == left \div Second

\* Whole seconds left, or MinTtl when there are none.
Lifetime(left) == IF left < Second THEN MinTtl ELSE left \div Second

\* The token is valid, says the store: the request goes on.  A logout verifies
\* its token a second time before it computes the lifetime of the entry.
Valid(r) ==
    \/ op[r] = "call" /\ Call(r)
    \/ op[r] = "refresh" /\ Mint(r)
    \/ /\ op[r] = "logout"
       /\ \/ pc[r] = "check" /\ Answer(r, "again") /\ UNCHANGED ttl
          \/ /\ pc[r] = "recheck"
             /\ Answer(r, "revoke")
             /\ ttl' = [ttl EXCEPT ![r] = Lifetime(token[tok[r]].exp - clock)]
       /\ UNCHANGED <<token, scope>>

\* The token is revoked, says the store.  blacklist_token_async then goes on
\* without a payload and revokes the hash of the token, which nobody looks up.
Invalid(r) ==
    /\ Answer(r, IF pc[r] = "check" THEN "401" ELSE "revoke")
    /\ UNCHANGED <<token, ttl, scope>>

-----------------------------------------------------------------------------
(* The revocation store: revocation.py                                     *)

\* is_revoked: Redis drops a key when its lifetime ends; the in-memory store
\* keeps the expiry of the token.
Revoked(t) == /\ entry[t] # 0
              /\ clock < entry[t] \/ (mode = "memory" /\ clock = entry[t])

\* The store answers.  What the request does with the answer depends on nothing
\* that changes before it resumes.
Check(r) ==
    /\ pc[r] \in {"check", "recheck"}
    /\ IF Revoked(tok[r]) THEN Invalid(r) ELSE Valid(r)
    /\ UNCHANGED <<mode, clock, storeVars, op, tok, faults>>

\* Redis cannot be reached: 503, except in dev and test, where the token passes.
CheckFails(r) ==
    /\ pc[r] \in {"check", "recheck"}
    /\ mode # "memory"
    /\ faults < MaxFaults
    /\ faults' = faults + 1
    /\ IF mode = "closed" THEN Answer(r, "503") /\ UNCHANGED <<token, ttl, scope>>
       ELSE Valid(r)
    /\ UNCHANGED <<mode, clock, storeVars, op, tok>>

\* The logout route decodes the token again.
Again(r) ==
    /\ pc[r] = "again"
    /\ Answer(r, IF Decoded(tok[r]) THEN "recheck" ELSE "revoke")
    /\ UNCHANGED <<mode, clock, token, storeVars, op, tok, ttl, scope, faults>>

\* The entry that r writes now.
NewEntry(r) ==
    LET t == tok[r] IN
    IF ttl[r] = 0 THEN entry
    ELSE [entry EXCEPT ![t] =
            IF mode = "memory" THEN token[t].exp ELSE clock + ttl[r] * Second]

\* Logout is answered 200: "Token revogado".
SayRevoked(r) == Answer(r, "200") /\ loggedOut' = loggedOut \cup {tok[r]}

\* revoke
Revoke(r) ==
    /\ pc[r] = "revoke"
    /\ entry' = NewEntry(r)
    /\ SayRevoked(r)
    /\ UNCHANGED <<mode, clock, token, op, tok, ttl, scope, faults>>

\* Faulty variant of RevokeFails: the error is logged in every environment.
RevokeFailsQuietly(r) ==
    /\ pc[r] = "revoke"
    /\ mode # "memory"
    /\ faults < MaxFaults
    /\ faults' = faults + 1
    /\ entry' \in {entry, NewEntry(r)}
    /\ SayRevoked(r)
    /\ UNCHANGED <<mode, clock, token, op, tok, ttl, scope>>

\* SETEX raises, its key written or not.
RevokeFails(r) ==
    /\ pc[r] = "revoke"
    /\ mode # "memory"
    /\ faults < MaxFaults
    /\ faults' = faults + 1
    /\ entry' \in {entry, NewEntry(r)}
    /\ IF mode = "closed" THEN Answer(r, "503") /\ UNCHANGED loggedOut ELSE SayRevoked(r)
    /\ UNCHANGED <<mode, clock, token, op, tok, ttl, scope>>

Started == {"check", "again", "recheck", "revoke"}

\* The API process restarts: its requests are lost, and the in-memory store.
Restart ==
    /\ faults < MaxFaults
    /\ faults' = faults + 1
    /\ pc' = [r \in Requests |-> IF pc[r] \in Started THEN "lost" ELSE pc[r]]
    /\ entry' = IF mode = "memory" THEN [t \in Tokens |-> 0] ELSE entry
    /\ UNCHANGED <<mode, clock, token, loggedOut, op, tok, ttl, scope>>

Tick ==
    /\ clock < MaxClock
    /\ clock' = clock + 1
    /\ UNCHANGED <<mode, token, storeVars, requestVars, faults>>

RequestStep(r) == Check(r) \/ Again(r) \/ Revoke(r)

Next ==
    \/ \E r \in Requests :
          \/ Login(r) \/ DevToken(r) \/ GenerateToken(r)
          \/ Arrive(r) \/ RequestStep(r)
          \/ CheckFails(r) \/ RevokeFails(r)
    \/ Restart
    \/ Tick

Spec == Init /\ [][Next]_vars

-----------------------------------------------------------------------------
(* Properties                                                              *)

ClaimSet == Claims \cup {Unsigned.claims}

TypeOK ==
    /\ mode \in {"closed", "open", "memory"}
    /\ clock \in Nat
    /\ token \in [Tokens -> [type : {"none", "access", "refresh"}, claims : ClaimSet,
                             exp : Nat, parent : Tokens \cup {None}]]
    /\ entry \in [Tokens -> Nat]
    /\ loggedOut \subseteq Tokens
    /\ pc \in [Requests -> {"idle", "lost", "200", "400", "401", "403", "503"} \cup Started]
    /\ op \in [Requests -> {"none", "login", "call", "logout", "refresh"}]
    /\ tok \in [Requests -> Tokens \cup {None}]
    /\ ttl \in [Requests -> Nat]
    /\ scope \in [Requests -> Tenants \cup {All, None}]
    /\ faults \in Nat

\* Where a revocation is recorded or refused, never guessed.
Trusted == mode = "closed" \/ faults = 0

\* Once logout has been answered 200, the store lets no request through with the
\* token and no access token is minted from it, except in the last second before it
\* expires, which the truncated lifetime of the entry may leave open: whatever
\* Redis does in staging and production, elsewhere as long as nothing fails.
LogoutHolds ==
    [][\A r \in Requests :
          /\ pc[r] = "check" /\ pc'[r] = "200"
          /\ tok[r] \in loggedOut /\ Trusted'
          => token[tok[r]].exp - clock < Second]_vars

\* The login a token descends from.
Root(t) == IF token[t].parent = None THEN t ELSE token[t].parent

\* A granted request works on the tenant of the login its token descends from,
\* through however many refreshes, unless that login was a system_admin's.
TenantIsolation ==
    \A r \in Requests :
        LET c == token[Root(tok[r])].claims IN
        op[r] = "call" /\ pc[r] = "200" =>
            scope[r] \in {None, c.tenant} \/ "system_admin" \in c.roles
=============================================================================
