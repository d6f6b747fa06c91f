---------------------------- MODULE AccessProofs ----------------------------
(***************************************************************************)
(* Two promises of Access for every set of tokens, requests, tenants and   *)
(* claims, every lifetime and resolution of the clock, and any number of   *)
(* failures: a logout holds, and no request leaves the tenant of its login.*)
(***************************************************************************)
EXTENDS Access, TLAPS

Signed(t) == token[t].type # "none"
Business == {"call", "logout", "refresh"}

\* A minted token has the claims of a refresh token that came from a login.
TokenOK(t) ==
    /\ ~ Signed(t) => token[t] = Unsigned
    /\ Signed(t) => token[t].exp > 0 /\ token[t].claims.tenant \in Tenants
    /\ token[t].type = "refresh" => token[t].parent = None
    /\ token[t].parent # None =>
          LET p == token[token[t].parent] IN
          p.type = "refresh" /\ p.parent = None /\ p.claims = token[t].claims

\* The store refuses t, or nobody needs to.
Gone(t) == entry[t] # 0 \/ token[t].exp <= clock

\* An entry ends less than a second before its token; what was logged out is gone.
StoreOK(t) ==
    /\ entry[t] # 0 => Signed(t) /\ token[t].exp < entry[t] + Second
    /\ t \in loggedOut => Signed(t) /\ (Trusted => Gone(t))

\* A request that is about to write an entry has a lifetime that is long enough,
\* or none because its token is gone already.  A granted call stays in the tenant
\* of the claims of its own token.
RequestOK(r) ==
    /\ pc[r] \in Started => op[r] \in Business
    /\ pc[r] \in {"again", "recheck", "revoke"} => op[r] = "logout"
    /\ op[r] \in Business => tok[r] \in Tokens /\ Signed(tok[r])
    /\ pc[r] \in {"idle", "check", "again", "recheck"} => ttl[r] = 0
    /\ pc[r] = "revoke" =>
          IF ttl[r] = 0 THEN Trusted => Gone(tok[r])
                        ELSE token[tok[r]].exp < clock + ttl[r] * Second + Second
    /\ op[r] = "call" /\ pc[r] = "200" =>
          LET c == token[tok[r]].claims IN
          scope[r] \in {None, c.tenant} \/ "system_admin" \in c.roles

AccessInv ==
    /\ TypeOK
    /\ \A t \in Tokens : TokenOK(t) /\ StoreOK(t)
    /\ \A r \in Requests : RequestOK(r)

-----------------------------------------------------------------------------
(* Whole seconds                                                           *)

LEMMA Seconds ==
    /\ Second \in Nat \ {0} /\ MinTtl \in Nat \ {0}
    /\ AccessSeconds \in Nat \ {0} /\ RefreshSeconds \in Nat \ {0}
BY AccessAssumptions DEF AccessAssumptions

LEMMA NoneIsNoToken == None \notin Tokens
BY AccessAssumptions DEF AccessAssumptions

LEMMA WholeSeconds ==
    ASSUME NEW x \in Nat
    PROVE  /\ x \div Second \in Nat /\ (x \div Second) * Second \in Nat
           /\ x < (x \div Second) * Second + Second
<1> DEFINE s == Second
<1>1. s \in Nat \ {0}
  BY Seconds
<1> HIDE DEF s
<1>2. x \div s \in Nat
  BY <1>1
<1>3. (x \div s) * s \in Nat
  BY <1>1
<1>4. x < (x \div s) * s + s
  BY <1>1
<1> QED
  BY <1>2, <1>3, <1>4 DEF s

LEMMA ExpiryIsLater ==
    ASSUME clock \in Nat, NEW n \in Nat \ {0} PROVE Expiry(n) \in Nat /\ Expiry(n) > 0
<1> DEFINE x == clock + n * Second
<1>1. n * Second \in Nat /\ n * Second >= Second
  <2> DEFINE s == Second
  <2>1. s \in Nat \ {0}
    BY Seconds
  <2> HIDE DEF s
  <2>2. n * s \in Nat /\ n * s >= s
    BY <2>1
  <2> QED
    BY <2>2 DEF s
<1>2. x \in Nat /\ x >= Second
  BY <1>1, Seconds
<1> HIDE DEF x
<1>3. (x \div Second) * Second \in Nat /\ x < (x \div Second) * Second + Second
  BY <1>2, WholeSeconds
<1>4. (x \div Second) * Second > 0
  BY <1>2, <1>3, Seconds
<1> QED
  BY <1>3, <1>4 DEF Expiry, x

\* An entry written now for what is left of a token ends in the token's last
\* second, or later.
LEMMA LifetimeIsEnough ==
    ASSUME NEW left \in Int
    PROVE  /\ Lifetime(left) \in Nat \ {0}
           /\ Lifetime(left) * Second \in Nat
           /\ left < Lifetime(left) * Second + Second
<1>1. CASE left < Second
  <2> DEFINE y == MinTtl * Second
  <2>1. y \in Nat
    BY Seconds
  <2> HIDE DEF y
  <2>2. left < y + Second
    BY <1>1, <2>1, Seconds
  <2> QED
    BY <1>1, <2>1, <2>2, Seconds DEF Lifetime, y
<1>2. CASE ~ left < Second
  <2>1. left \in Nat
    BY <1>2, Seconds
  <2> DEFINE d == left \div Second
             y == d * Second
  <2>2. d \in Nat /\ y \in Nat /\ left < y + Second
    BY <2>1, WholeSeconds
  <2>3. d # 0
    <3>1. ASSUME d = 0 PROVE FALSE
      <4>1. y = 0
        BY <3>1, Seconds
      <4> HIDE DEF y, d
      <4> QED
        BY <1>2, <2>1, <2>2, <4>1, Seconds
    <3> QED
      BY <3>1
  <2>4. Lifetime(left) = d
    BY <1>2 DEF Lifetime
  <2> HIDE DEF d
  <2> QED
    BY <2>2, <2>3, <2>4
<1> QED
  BY <1>1, <1>2

-----------------------------------------------------------------------------
(* What every step leaves as it was                                        *)

\* Tokens are signed once, time goes on, and where nothing has failed no entry
\* disappears.
Later ==
    /\ \A t \in Tokens : Signed(t) => token'[t] = token[t]
    /\ clock' \in Nat /\ clock <= clock'
    /\ Trusted' => Trusted /\ \A t \in Tokens : entry[t] # 0 => entry'[t] # 0

Unmoved(r) ==
    /\ pc'[r] = pc[r] /\ op'[r] = op[r] /\ tok'[r] = tok[r]
    /\ ttl'[r] = ttl[r] /\ scope'[r] = scope[r]

LEMMA GoneStays ==
    ASSUME AccessInv, Later, NEW t \in Tokens, Signed(t), Gone(t), Trusted' PROVE Gone(t)'
<1>1. token'[t] = token[t] /\ token[t].exp \in Nat /\ clock \in Nat
  BY DEF AccessInv, TypeOK, Later
<1>2. clock' \in Nat /\ clock <= clock' /\ (entry[t] # 0 => entry'[t] # 0)
  BY DEF Later
<1> QED
  BY <1>1, <1>2 DEF Gone

LEMMA RequestStays ==
    ASSUME AccessInv, Later, NEW r \in Requests, Unmoved(r) PROVE RequestOK(r)'
<1>1. RequestOK(r)
  BY DEF AccessInv
<1>2. op[r] \in Business => tok[r] \in Tokens /\ Signed(tok[r]) /\ token'[tok[r]] = token[tok[r]]
  BY <1>1 DEF RequestOK, Later
<1>3. /\ pc'[r] \in Started => op'[r] \in Business
      /\ pc'[r] \in {"again", "recheck", "revoke"} => op'[r] = "logout"
  BY <1>1 DEF RequestOK, Unmoved
<1>4. op'[r] \in Business => tok'[r] \in Tokens /\ Signed(tok[r])'
  BY <1>2 DEF Unmoved, Signed
<1>5. pc'[r] \in {"idle", "check", "again", "recheck"} => ttl'[r] = 0
  BY <1>1 DEF RequestOK, Unmoved
<1>6. ASSUME pc'[r] = "revoke"
      PROVE  IF ttl'[r] = 0 THEN Trusted' => Gone(tok[r])'
                            ELSE token'[tok'[r]].exp < clock' + ttl'[r] * Second + Second
  <2>1. /\ pc[r] = "revoke" /\ tok'[r] = tok[r] /\ ttl'[r] = ttl[r] /\ op[r] \in Business
        /\ tok[r] \in Tokens /\ Signed(tok[r]) /\ token'[tok[r]] = token[tok[r]]
    BY <1>1, <1>2, <1>6 DEF RequestOK, Unmoved, Started
  <2>2. CASE ttl[r] = 0
    <3>1. Trusted' => Trusted
      BY DEF Later
    <3>2. Trusted => Gone(tok[r])
      BY <1>1, <2>1, <2>2 DEF RequestOK
    <3>3. ASSUME Trusted' PROVE Gone(tok[r])'
      <4>1. Gone(tok[r])
        BY <3>1, <3>2, <3>3
      <4>2. ASSUME NEW t \in Tokens, t = tok[r] PROVE Gone(t)'
        BY <2>1, <3>3, <4>1, <4>2, GoneStays
      <4>3. /\ entry'[tok[r]] # 0 \/ token'[tok[r]].exp <= clock'
        BY <2>1, <4>2 DEF Gone
      <4> QED
        BY <2>1, <4>3 DEF Gone
    <3> QED
      BY <2>1, <2>2, <3>3
  <2>3. CASE ttl[r] # 0
    <3> DEFINE y == ttl[r] * Second
    <3>1. token[tok[r]].exp < clock + y + Second
      BY <1>1, <2>1, <2>3 DEF RequestOK
    <3>2. y \in Nat /\ token[tok[r]].exp \in Nat /\ clock \in Nat
      BY <2>1, Seconds DEF AccessInv, TypeOK
    <3> HIDE DEF y
    <3>3. token[tok[r]].exp < clock' + y + Second
      BY <3>1, <3>2, Seconds DEF Later
    <3> QED
      BY <2>1, <2>3, <3>3 DEF y
  <2> QED
    BY <2>2, <2>3
<1>7. ASSUME op'[r] = "call", pc'[r] = "200"
      PROVE  LET c == token'[tok'[r]].claims IN
             scope'[r] \in {None, c.tenant} \/ "system_admin" \in c.roles
  BY <1>1, <1>2, <1>7 DEF RequestOK, Unmoved, Business
<1> QED
  BY <1>3, <1>4, <1>5, <1>6, <1>7 DEF RequestOK

LEMMA StoreStays ==
    ASSUME AccessInv, Later, NEW t \in Tokens, entry'[t] = entry[t],
           t \in loggedOut' => t \in loggedOut
    PROVE  StoreOK(t)'
<1>1. StoreOK(t)
  BY DEF AccessInv
<1>2. CASE ~ Signed(t)
  BY <1>1, <1>2 DEF StoreOK
<1>3. CASE Signed(t)
  <2>1. token'[t] = token[t] /\ Signed(t)'
    BY <1>3 DEF Later, Signed
  <2>2. Trusted' /\ t \in loggedOut => Gone(t)'
    BY <1>1, <1>3, GoneStays DEF StoreOK, Later
  <2> QED
    BY <1>1, <2>1, <2>2 DEF StoreOK
<1> QED
  BY <1>2, <1>3

LEMMA TokenStays == ASSUME AccessInv, token' = token PROVE \A t \in Tokens : TokenOK(t)'
BY DEF AccessInv, TokenOK, Signed

\* A token that login or refresh may sign.
Wellformed(x) ==
    /\ x.type # "none" /\ x.exp > 0 /\ x.claims.tenant \in Tenants
    /\ x.type = "refresh" => x.parent = None
    /\ x.parent # None =>
          /\ x.parent \in Tokens /\ token[x.parent].type = "refresh"
          /\ token[x.parent].claims = x.claims

LEMMA SignsKeep ==
    ASSUME AccessInv,
           \A t \in Tokens : token'[t] = token[t] \/ (~ Signed(t) /\ Wellformed(token'[t]))
    PROVE  \A t \in Tokens : TokenOK(t)'
<1>1. ASSUME NEW t \in Tokens, Signed(t) PROVE token'[t] = token[t]
  BY <1>1
<1>2. ASSUME NEW p \in Tokens, token[p].type = "refresh"
      PROVE  token'[p] = token[p] /\ token[p].parent = None
  BY <1>1, <1>2 DEF AccessInv, TokenOK, Signed
<1>3. ASSUME NEW t \in Tokens, token'[t] = token[t] PROVE TokenOK(t)'
  <2>1. TokenOK(t) /\ token[t].parent \in Tokens \cup {None}
    BY DEF AccessInv, TypeOK
  <2> QED
    BY <1>2, <1>3, <2>1 DEF TokenOK, Signed
<1>4. ASSUME NEW t \in Tokens, Wellformed(token'[t]) PROVE TokenOK(t)'
  BY <1>2, <1>4 DEF TokenOK, Signed, Wellformed
<1> QED
  BY <1>3, <1>4

-----------------------------------------------------------------------------
(* How a step keeps the invariant                                          *)

TokenRecords == [type : {"none", "access", "refresh"}, claims : ClaimSet,
                 exp : Nat, parent : Tokens \cup {None}]

\* What is signed now was not signed before, and is well-formed.
Signs == \A t \in Tokens : token'[t] = token[t] \/ (~ Signed(t) /\ Wellformed(token'[t]))

LEMMA InitEstablishes == Init => AccessInv
<1> SUFFICES ASSUME Init PROVE AccessInv
  OBVIOUS
<1>1. TypeOK
  BY DEF Init, TypeOK, Unsigned, ClaimSet
<1>2. ASSUME NEW t \in Tokens PROVE TokenOK(t) /\ StoreOK(t)
  BY <1>2 DEF Init, TokenOK, StoreOK, Signed, Unsigned
<1>3. ASSUME NEW r \in Requests PROVE RequestOK(r)
  BY <1>3 DEF Init, RequestOK, Started, Business
<1> QED
  BY <1>1, <1>2, <1>3 DEF AccessInv

\* A step of one request.
LEMMA OneMoves ==
    ASSUME AccessInv, TypeOK', Later, NEW r \in Requests,
           \A t \in Tokens : TokenOK(t)' /\ StoreOK(t)',
           RequestOK(r)', \A q \in Requests \ {r} : Unmoved(q)
    PROVE  AccessInv'
<1>1. ASSUME NEW q \in Requests PROVE RequestOK(q)'
  BY <1>1, RequestStays
<1> QED
  BY <1>1 DEF AccessInv

\* A step that leaves the clock and the store alone.
LEMMA StoreUntouched ==
    ASSUME AccessInv, Signs, UNCHANGED <<mode, clock, entry, loggedOut>>,
           faults' \in Nat, faults' >= faults
    PROVE  Later /\ \A t \in Tokens : TokenOK(t)' /\ StoreOK(t)'
<1>1. Later
  <2>1. \A t \in Tokens : Signed(t) => token'[t] = token[t]
    BY DEF Signs
  <2>2. clock' \in Nat /\ clock <= clock'
    BY DEF AccessInv, TypeOK
  <2>3. Trusted' => Trusted
    BY DEF AccessInv, TypeOK, Trusted
  <2> QED
    BY <2>1, <2>2, <2>3 DEF Later
<1>2. \A t \in Tokens : TokenOK(t)'
  BY SignsKeep DEF Signs
<1>3. ASSUME NEW t \in Tokens PROVE StoreOK(t)'
  BY <1>1, <1>3, StoreStays
<1> QED
  BY <1>1, <1>2, <1>3

LEMMA AccessToken ==
    ASSUME AccessInv, NEW c \in ClaimSet, NEW p \in Tokens \cup {None}
    PROVE  /\ Access(c, p) \in TokenRecords /\ Access(c, p).exp > 0
           /\ Access(c, p).type = "access" /\ Access(c, p).parent = p
           /\ Access(c, p).claims = c
<1>1. Expiry(AccessSeconds) \in Nat /\ Expiry(AccessSeconds) > 0
  BY ExpiryIsLater, Seconds DEF AccessInv, TypeOK
<1> QED
  BY <1>1 DEF Access, TokenRecords

LEMMA RefreshToken ==
    ASSUME AccessInv, NEW c \in ClaimSet
    PROVE  /\ Refresh(c) \in TokenRecords /\ Refresh(c).exp > 0 /\ Refresh(c).claims = c
           /\ Refresh(c).type = "refresh" /\ Refresh(c).parent = None
<1>1. Expiry(RefreshSeconds) \in Nat /\ Expiry(RefreshSeconds) > 0
  BY ExpiryIsLater, Seconds DEF AccessInv, TypeOK
<1> QED
  BY <1>1 DEF Refresh, TokenRecords

-----------------------------------------------------------------------------
(* Signing in                                                              *)

\* A token route answers, with a token or without one.
LEMMA SignInKeeps ==
    ASSUME AccessInv, NEW r \in Requests, Signs, token' \in [Tokens -> TokenRecords],
           NEW code \in {"200", "400", "401", "403"}, Answer(r, code),
           op' = [op EXCEPT ![r] = "login"],
           NEW x \in Tokens \cup {None}, tok' = tok \/ tok' = [tok EXCEPT ![r] = x],
           UNCHANGED <<mode, clock, storeVars, ttl, scope, faults>>
    PROVE  AccessInv'
<1>1. TypeOK'
  BY DEF AccessInv, TypeOK, TokenRecords, Answer, Started, storeVars, ClaimSet
<1>2. Later /\ \A t \in Tokens : TokenOK(t)' /\ StoreOK(t)'
  <2>1. faults' \in Nat /\ faults' >= faults
    BY DEF AccessInv, TypeOK
  <2> QED
    BY <2>1, StoreUntouched DEF storeVars
<1>3. op'[r] = "login" /\ pc'[r] = code
  BY DEF AccessInv, TypeOK, Answer
<1>4. RequestOK(r)'
  BY <1>3 DEF RequestOK, Started, Business
<1>5. \A q \in Requests \ {r} : Unmoved(q)
  BY DEF AccessInv, TypeOK, Answer, Unmoved
<1> QED
  BY <1>1, <1>2, <1>4, <1>5, OneMoves

LEMMA TokenRecordsType == AccessInv => token \in [Tokens -> TokenRecords]
BY DEF AccessInv, TypeOK, TokenRecords

LEMMA RefuseKeeps ==
    ASSUME AccessInv, NEW r \in Requests, NEW code \in {"400", "401", "403"},
           Refuse(r, code), op' = [op EXCEPT ![r] = "login"],
           UNCHANGED <<mode, clock, storeVars, ttl, scope, faults>>
    PROVE  AccessInv'
<1>1. Signs /\ token' \in [Tokens -> TokenRecords] /\ Answer(r, code) /\ tok' = tok
  BY TokenRecordsType DEF Refuse, Signs
<1> QED
  BY <1>1, SignInKeeps

LEMMA SignPairKeeps ==
    ASSUME AccessInv, NEW r \in Requests, NEW c \in Claims,
           c.tenant \in Tenants, SignPair(r, c), op' = [op EXCEPT ![r] = "login"],
           UNCHANGED <<mode, clock, storeVars, ttl, scope, faults>>
    PROVE  AccessInv'
<1>1. PICK a \in Free, f \in Free :
          /\ a # f
          /\ token' = [token EXCEPT ![a] = Access(c, None), ![f] = Refresh(c)]
          /\ tok' = [tok EXCEPT ![r] = a]
  BY DEF SignPair
<1>2. /\ a \in Tokens /\ f \in Tokens /\ ~ Signed(a) /\ ~ Signed(f)
      /\ token'[a] = Access(c, None) /\ token'[f] = Refresh(c)
      /\ \A t \in Tokens \ {a, f} : token'[t] = token[t]
  BY <1>1 DEF Free, AccessInv, TypeOK, Signed, Unsigned
<1>3. c \in ClaimSet
  BY DEF ClaimSet
<1>4. Wellformed(Access(c, None))
  BY <1>3, AccessToken DEF Wellformed
<1>5. Wellformed(Refresh(c))
  BY <1>3, RefreshToken DEF Wellformed
<1>6. Signs
  BY <1>2, <1>4, <1>5 DEF Signs
<1>7. token' \in [Tokens -> TokenRecords]
  BY <1>1, <1>2, <1>3, TokenRecordsType, AccessToken, RefreshToken
<1>8. Answer(r, "200")
  BY DEF SignPair
<1> QED
  BY <1>1, <1>2, <1>6, <1>7, <1>8, SignInKeeps

LEMMA LoginKeeps == ASSUME AccessInv, NEW r \in Requests, Login(r) PROVE AccessInv'
<1>1. /\ op' = [op EXCEPT ![r] = "login"]
      /\ UNCHANGED <<mode, clock, storeVars, ttl, scope, faults>>
  BY DEF Login
<1>2. \/ \E code \in {"400", "401", "403"} : Refuse(r, code)
      \/ \E c \in Claims : c.tenant \in Tenants /\ SignPair(r, c)
  BY DEF Login
<1> QED
  BY <1>1, <1>2, RefuseKeeps, SignPairKeeps

LEMMA DevTokenKeeps == ASSUME AccessInv, NEW r \in Requests, DevToken(r) PROVE AccessInv'
<1>1. /\ op' = [op EXCEPT ![r] = "login"]
      /\ UNCHANGED <<mode, clock, storeVars, ttl, scope, faults>>
  BY DEF DevToken
<1>2. \/ \E code \in {"400", "401", "403"} : Refuse(r, code)
      \/ \E c \in Claims : c.tenant \in Tenants /\ SignPair(r, c)
  BY DEF DevToken
<1> QED
  BY <1>1, <1>2, RefuseKeeps, SignPairKeeps

LEMMA GenerateTokenKeeps ==
    ASSUME AccessInv, NEW r \in Requests, GenerateToken(r) PROVE AccessInv'
<1>1. /\ op' = [op EXCEPT ![r] = "login"]
      /\ UNCHANGED <<mode, clock, storeVars, ttl, scope, faults>>
  BY DEF GenerateToken
<1>2. CASE \E code \in {"400", "401", "403"} : Refuse(r, code)
  BY <1>1, <1>2, RefuseKeeps
<1>3. ASSUME NEW c \in Claims, NEW a \in Free, c.tenant \in Tenants,
             token' = [token EXCEPT ![a] = Access(c, None)],
             tok' = [tok EXCEPT ![r] = a], Answer(r, "200")
      PROVE  AccessInv'
  <2>1. /\ a \in Tokens /\ ~ Signed(a) /\ token'[a] = Access(c, None)
        /\ \A t \in Tokens \ {a} : token'[t] = token[t]
    BY <1>3 DEF Free, AccessInv, TypeOK, Signed, Unsigned
  <2>2. c \in ClaimSet
    BY DEF ClaimSet
  <2>3. Signs
    <3>1. Wellformed(Access(c, None))
      BY <1>3, <2>2, AccessToken DEF Wellformed
    <3> QED
      BY <2>1, <3>1 DEF Signs
  <2>4. token' \in [Tokens -> TokenRecords]
    BY <1>3, <2>1, <2>2, TokenRecordsType, AccessToken
  <2> QED
    BY <1>1, <1>3, <2>1, <2>3, <2>4, SignInKeeps
<1>4. \/ \E code \in {"400", "401", "403"} : Refuse(r, code)
      \/ \E c \in Claims, a \in Free :
            /\ c.tenant \in Tenants /\ token' = [token EXCEPT ![a] = Access(c, None)]
            /\ tok' = [tok EXCEPT ![r] = a] /\ Answer(r, "200")
  BY DEF GenerateToken
<1> QED
  BY <1>2, <1>3, <1>4

-----------------------------------------------------------------------------
(* Requests with a token                                                   *)

LEMMA ArriveKeeps == ASSUME AccessInv, NEW r \in Requests, Arrive(r) PROVE AccessInv'
<1>1. PICK o \in Business, t \in Tokens \ Free :
          /\ op' = [op EXCEPT ![r] = o]
          /\ tok' = [tok EXCEPT ![r] = t]
          /\ Answer(r, IF Decoded(t) THEN "check" ELSE "401")
  BY DEF Arrive, Business
<1>2. pc[r] = "idle" /\ UNCHANGED <<mode, clock, token, storeVars, ttl, scope, faults>>
  BY DEF Arrive
<1>3. Signed(t)
  BY <1>1 DEF Free, AccessInv, TokenOK
<1>4. TypeOK'
  BY <1>1, <1>2 DEF AccessInv, TypeOK, Answer, Started, storeVars, ClaimSet, Business
<1>5. Later /\ \A u \in Tokens : TokenOK(u)' /\ StoreOK(u)'
  <2>1. faults' \in Nat /\ faults' >= faults
    BY <1>2 DEF AccessInv, TypeOK
  <2> QED
    BY <1>2, <2>1, StoreUntouched DEF storeVars, Signs
<1>6. op'[r] = o /\ tok'[r] = t /\ pc'[r] \in {"check", "401"} /\ ttl'[r] = 0
  BY <1>1, <1>2 DEF AccessInv, TypeOK, Answer, RequestOK
<1>7. Signed(t)'
  BY <1>2, <1>3 DEF Signed
<1>8. RequestOK(r)'
  BY <1>6, <1>7 DEF RequestOK, Started, Business
<1>9. \A q \in Requests \ {r} : Unmoved(q)
  BY <1>1, <1>2 DEF AccessInv, TypeOK, Answer, Unmoved
<1> QED
  BY <1>4, <1>5, <1>8, <1>9, OneMoves

\* A granted call works in the tenant of the claims, or they are a system_admin's.
LEMMA ScopesStay ==
    ASSUME NEW c, NEW route \in Routes, NEW target, NEW x \in Scopes(c, route, target),
           Authorized(c.roles, route), target \in Targets(route)
    PROVE  x \in {None, c.tenant} \/ "system_admin" \in c.roles
<1>1. CASE route \in {"create_tenant", "update_tenant", "delete_tenant"}
  <2>1. HasRequiredRole(c.roles, "system_admin")
    BY <1>1 DEF Authorized
  <2> QED
    BY <2>1 DEF HasRequiredRole, RoleLevel
<1>2. CASE route = "list_tenants"
  BY <1>2 DEF Scopes
<1>3. CASE route = "check_scope"
  BY <1>3 DEF Scopes
<1>4. CASE route \in {"get_tenant", "ingest_log", "list_logs", "acknowledge_alert", "incidents"}
  <2>1. x \in EffectiveTenant(c, target)
    BY <1>4 DEF Scopes
  <2> QED
    BY <2>1 DEF EffectiveTenant
<1> QED
  BY <1>1, <1>2, <1>3, <1>4 DEF Routes

\* What a granted call works on is a tenant, all of them or none.
LEMMA ScopesType ==
    ASSUME NEW c \in ClaimSet, NEW route \in Routes, NEW target \in Targets(route),
           c.tenant \in Tenants, target # Malformed
    PROVE  Scopes(c, route, target) \subseteq Tenants \cup {All, None}
<1>1. target \in Tenants \cup {None}
  BY DEF Targets, Routes
<1> QED
  BY <1>1 DEF Scopes, EffectiveTenant, Routes

\* The request that acts holds a signed token.
Acting(r) == pc[r] \in Started

LEMMA ActingToken ==
    ASSUME AccessInv, NEW r \in Requests, Acting(r)
    PROVE  /\ op[r] \in Business /\ tok[r] \in Tokens /\ Signed(tok[r])
           /\ TokenOK(tok[r]) /\ StoreOK(tok[r])
           /\ token[tok[r]] \in TokenRecords /\ token[tok[r]].claims.tenant \in Tenants
BY DEF AccessInv, RequestOK, Acting, TokenOK, TypeOK, TokenRecords

\* A granted route stays in the tenant of the token.
LEMMA CallKeeps ==
    ASSUME AccessInv, NEW r \in Requests, Acting(r), op[r] = "call", Call(r),
           UNCHANGED <<mode, clock, storeVars, op, tok>>, faults' \in Nat, faults' >= faults
    PROVE  AccessInv'
<1> DEFINE c == token[tok[r]].claims
<1>1. c \in ClaimSet /\ c.tenant \in Tenants /\ tok[r] \in Tokens /\ Signed(tok[r])
  BY ActingToken DEF TokenRecords
<1>2. UNCHANGED <<token, ttl>>
  BY DEF Call
<1>3. \/ \E code \in {"400", "403"} : Answer(r, code) /\ scope' = scope
      \/ \E route \in Routes : \E target \in Targets(route) :
            /\ target # Malformed /\ Authorized(c.roles, route) /\ Answer(r, "200")
            /\ \E x \in Scopes(c, route, target) : scope' = [scope EXCEPT ![r] = x]
  BY DEF Call
<1> HIDE DEF c
<1>4. Later /\ \A t \in Tokens : TokenOK(t)' /\ StoreOK(t)'
  BY <1>2, StoreUntouched DEF storeVars, Signs
<1>5. Signed(tok[r])' /\ op'[r] = "call" /\ tok'[r] = tok[r] /\ token'[tok'[r]].claims = c
  BY <1>1, <1>2 DEF Signed, c
<1>6. CASE \E code \in {"400", "403"} : Answer(r, code) /\ scope' = scope
  <2>1. PICK code \in {"400", "403"} : pc' = [pc EXCEPT ![r] = code] /\ scope' = scope
    BY <1>6 DEF Answer
  <2>2. TypeOK'
    BY <1>2, <2>1 DEF AccessInv, TypeOK, storeVars, ClaimSet
  <2>3. pc'[r] = code
    BY <2>1 DEF AccessInv, TypeOK
  <2>4. RequestOK(r)'
    BY <1>1, <1>5, <2>3 DEF RequestOK, Started, Business
  <2>5. \A q \in Requests \ {r} : Unmoved(q)
    BY <1>2, <2>1 DEF AccessInv, TypeOK, Unmoved
  <2> QED
    BY <1>4, <2>2, <2>4, <2>5, OneMoves
<1>7. ASSUME NEW route \in Routes, NEW target \in Targets(route),
             target # Malformed, Authorized(c.roles, route), Answer(r, "200"),
             NEW x \in Scopes(c, route, target), scope' = [scope EXCEPT ![r] = x]
      PROVE  AccessInv'
  <2>1. x \in Tenants \cup {All, None}
    BY <1>1, <1>7, ScopesType
  <2>2. x \in {None, c.tenant} \/ "system_admin" \in c.roles
    BY <1>7, ScopesStay
  <2>3. TypeOK'
    BY <1>2, <1>7, <2>1 DEF AccessInv, TypeOK, Answer, storeVars, ClaimSet
  <2>4. pc'[r] = "200" /\ scope'[r] = x
    BY <1>7 DEF AccessInv, TypeOK, Answer
  <2>5. RequestOK(r)'
    BY <1>1, <1>5, <2>2, <2>4 DEF RequestOK, Started, Business
  <2>6. \A q \in Requests \ {r} : Unmoved(q)
    BY <1>2, <1>7 DEF AccessInv, TypeOK, Answer, Unmoved
  <2> QED
    BY <1>4, <2>3, <2>5, <2>6, OneMoves
<1> QED
  BY <1>3, <1>6, <1>7

\* A minted token has the claims of the refresh token it came from.
LEMMA MintKeeps ==
    ASSUME AccessInv, NEW r \in Requests, Acting(r), op[r] = "refresh", Mint(r),
           UNCHANGED <<mode, clock, storeVars, op, tok>>, faults' \in Nat, faults' >= faults
    PROVE  AccessInv'
<1>1. /\ tok[r] \in Tokens /\ Signed(tok[r]) /\ TokenOK(tok[r])
      /\ token[tok[r]] \in TokenRecords /\ token[tok[r]].claims.tenant \in Tenants
  BY ActingToken
<1>2. UNCHANGED <<ttl, scope>>
  BY DEF Mint
<1>3. Signs /\ token' \in [Tokens -> TokenRecords] /\ \E code \in {"200", "401"} : Answer(r, code)
  <2>1. CASE token[tok[r]].type # "refresh"
    BY <2>1, TokenRecordsType DEF Mint, Signs
  <2>2. CASE token[tok[r]].type = "refresh"
    <3> DEFINE x == Access(token[tok[r]].claims, tok[r])
    <3>1. PICK t \in Free : token' = [token EXCEPT ![t] = x] /\ Answer(r, "200")
      BY <2>2 DEF Mint
    <3>2. /\ x \in TokenRecords /\ x.exp > 0 /\ x.type = "access"
          /\ x.parent = tok[r] /\ x.claims = token[tok[r]].claims
      BY <1>1, AccessToken DEF TokenRecords
    <3> HIDE DEF x
    <3>3. t \in Tokens /\ ~ Signed(t) /\ token'[t] = x
      BY <3>1 DEF Free, AccessInv, TypeOK, Signed, Unsigned
    <3>4. Wellformed(x)
      BY <1>1, <2>2, <3>2 DEF Wellformed
    <3>5. Signs
      BY <3>1, <3>3, <3>4 DEF Signs, AccessInv, TypeOK
    <3>6. token' \in [Tokens -> TokenRecords]
      BY <3>1, <3>2, <3>3, TokenRecordsType
    <3> QED
      BY <3>1, <3>5, <3>6
  <2> QED
    BY <2>1, <2>2
<1>4. PICK code \in {"200", "401"} : pc' = [pc EXCEPT ![r] = code]
  BY <1>3 DEF Answer
<1>5. Later /\ \A t \in Tokens : TokenOK(t)' /\ StoreOK(t)'
  BY <1>3, StoreUntouched DEF storeVars
<1>6. TypeOK'
  BY <1>2, <1>3, <1>4 DEF AccessInv, TypeOK, storeVars, ClaimSet, TokenRecords
<1>7. pc'[r] = code /\ op'[r] = "refresh" /\ tok'[r] = tok[r]
  BY <1>4 DEF AccessInv, TypeOK
<1>8. Signed(tok[r])'
  BY <1>1, <1>5, <1>7 DEF Later, Signed
<1>9. RequestOK(r)'
  BY <1>1, <1>7, <1>8 DEF RequestOK, Started, Business
<1>10. \A q \in Requests \ {r} : Unmoved(q)
  BY <1>2, <1>4 DEF AccessInv, TypeOK, Unmoved
<1> QED
  BY <1>5, <1>6, <1>9, <1>10, OneMoves

-----------------------------------------------------------------------------
(* Logout                                                                  *)

\* A request that only moves on: its token, operation and scope stay.
LEMMA MovesOn ==
    ASSUME AccessInv, NEW r \in Requests, Acting(r),
           UNCHANGED <<mode, clock, token, storeVars, op, tok, scope>>,
           faults' \in Nat, faults' >= faults,
           NEW n \in Nat, ttl' = [ttl EXCEPT ![r] = n],
           NEW code \in Started \cup {"401", "503"}, Answer(r, code),
           code \in {"check", "again", "recheck"} => n = 0,
           code \in {"again", "recheck", "revoke"} => op[r] = "logout",
           code = "revoke" =>
              IF n = 0 THEN Trusted' => Gone(tok[r])
                       ELSE token[tok[r]].exp < clock + n * Second + Second
    PROVE  AccessInv'
<1>1. TypeOK'
  BY DEF AccessInv, TypeOK, Answer, Started, storeVars, ClaimSet
<1>2. Later /\ \A t \in Tokens : TokenOK(t)' /\ StoreOK(t)'
  BY StoreUntouched DEF storeVars, Signs
<1>3. pc'[r] = code /\ ttl'[r] = n /\ op'[r] = op[r] /\ tok'[r] = tok[r]
  BY DEF AccessInv, TypeOK, Answer
<1>4. op[r] \in Business /\ tok[r] \in Tokens /\ Signed(tok[r])
  BY ActingToken
<1>5. pc'[r] = "revoke" =>
          IF ttl'[r] = 0 THEN Trusted' => Gone(tok[r])'
                         ELSE token'[tok'[r]].exp < clock' + ttl'[r] * Second + Second
  BY <1>3 DEF Gone, storeVars
<1>6. RequestOK(r)'
  <2>1. pc'[r] # "200" /\ pc'[r] # "idle"
    BY <1>3 DEF Started
  <2>2. op'[r] \in Business /\ tok'[r] \in Tokens /\ Signed(tok[r])'
    BY <1>3, <1>4 DEF Signed
  <2>3. /\ pc'[r] \in {"idle", "check", "again", "recheck"} => ttl'[r] = 0
        /\ pc'[r] \in {"again", "recheck", "revoke"} => op'[r] = "logout"
    BY <1>3, <2>1
  <2> QED
    BY <1>3, <1>5, <2>1, <2>2, <2>3 DEF RequestOK
<1>7. \A q \in Requests \ {r} : Unmoved(q)
  BY DEF AccessInv, TypeOK, Answer, Unmoved
<1> QED
  BY <1>1, <1>2, <1>6, <1>7, OneMoves

\* A valid token's logout asks again, then computes a lifetime that is enough.
LEMMA ValidKeeps ==
    ASSUME AccessInv, NEW r \in Requests, pc[r] \in {"check", "recheck"}, Valid(r),
           UNCHANGED <<mode, clock, storeVars, op, tok>>, faults' \in Nat, faults' >= faults
    PROVE  AccessInv'
<1>1. Acting(r) /\ ttl[r] = 0 /\ ttl \in [Requests -> Nat]
  BY DEF Acting, Started, AccessInv, RequestOK, TypeOK
<1>2. CASE op[r] = "call" /\ Call(r)
  BY <1>1, <1>2, CallKeeps
<1>3. CASE op[r] = "refresh" /\ Mint(r)
  BY <1>1, <1>3, MintKeeps
<1>4. CASE op[r] = "logout" /\ Answer(r, "again") /\ UNCHANGED ttl /\ UNCHANGED <<token, scope>>
  <2>1. ttl' = [ttl EXCEPT ![r] = 0]
    BY <1>1, <1>4
  <2> QED
    BY <1>1, <1>4, <2>1, MovesOn DEF Started
<1>5. CASE /\ op[r] = "logout" /\ Answer(r, "revoke") /\ UNCHANGED <<token, scope>>
           /\ ttl' = [ttl EXCEPT ![r] = Lifetime(token[tok[r]].exp - clock)]
  <2> DEFINE e == token[tok[r]].exp
             n == Lifetime(e - clock)
             y == n * Second
  <2>1. e \in Nat /\ clock \in Nat
    BY <1>1, ActingToken DEF TokenRecords, AccessInv, TypeOK
  <2>2. n \in Nat \ {0} /\ y \in Nat /\ e - clock < y + Second
    BY <2>1, LifetimeIsEnough
  <2>3. ttl' = [ttl EXCEPT ![r] = n]
    BY <1>5
  <2> HIDE DEF n, e
  <2>4. e < clock + n * Second + Second
    <3> HIDE DEF y
    <3>1. e < clock + y + Second
      BY <2>1, <2>2, Seconds
    <3> QED
      BY <3>1 DEF y
  <2>5. token[tok[r]].exp < clock + n * Second + Second
    BY <2>4 DEF e
  <2> HIDE DEF y
  <2> QED
    BY <1>1, <1>5, <2>2, <2>3, <2>5, MovesOn DEF Started
<1> QED
  BY <1>2, <1>3, <1>4, <1>5 DEF Valid

LEMMA CheckKeeps == ASSUME AccessInv, NEW r \in Requests, Check(r) PROVE AccessInv'
<1>1. /\ pc[r] \in {"check", "recheck"}
      /\ UNCHANGED <<mode, clock, storeVars, op, tok, faults>>
      /\ faults' \in Nat /\ faults' >= faults
  BY DEF Check, AccessInv, TypeOK
<1>2. CASE Valid(r)
  BY <1>1, <1>2, ValidKeeps
<1>3. CASE Revoked(tok[r]) /\ Invalid(r)
  <2>1. Acting(r) /\ ttl[r] = 0 /\ ttl \in [Requests -> Nat]
    BY <1>1 DEF Acting, Started, AccessInv, RequestOK, TypeOK
  <2>2. ttl' = [ttl EXCEPT ![r] = 0]
    BY <1>3, <2>1 DEF Invalid
  <2>3. Gone(tok[r])
    BY <1>3 DEF Revoked, Gone
  <2>4. PICK code \in {"401", "revoke"} :
            Answer(r, code) /\ (code = "revoke" => op[r] = "logout")
    BY <1>1, <1>3 DEF Invalid, AccessInv, RequestOK
  <2>5. UNCHANGED <<mode, clock, token, storeVars, op, tok, scope>>
    BY <1>1, <1>3 DEF Invalid
  <2> QED
    BY <1>1, <2>1, <2>2, <2>3, <2>4, <2>5, MovesOn DEF Started
<1> QED
  BY <1>2, <1>3 DEF Check

LEMMA CheckFailsKeeps == ASSUME AccessInv, NEW r \in Requests, CheckFails(r) PROVE AccessInv'
<1>1. /\ pc[r] \in {"check", "recheck"}
      /\ UNCHANGED <<mode, clock, storeVars, op, tok>>
      /\ faults' \in Nat /\ faults' >= faults
  BY DEF CheckFails, AccessInv, TypeOK
<1>2. CASE Valid(r)
  BY <1>1, <1>2, ValidKeeps
<1>3. CASE Answer(r, "503") /\ UNCHANGED <<token, ttl, scope>>
  <2>1. Acting(r) /\ ttl[r] = 0 /\ ttl \in [Requests -> Nat]
    BY <1>1 DEF Acting, Started, AccessInv, RequestOK, TypeOK
  <2>2. ttl' = [ttl EXCEPT ![r] = 0]
    BY <1>3, <2>1
  <2> QED
    BY <1>1, <1>3, <2>1, <2>2, MovesOn DEF Started
<1> QED
  BY <1>2, <1>3 DEF CheckFails

LEMMA AgainKeeps == ASSUME AccessInv, NEW r \in Requests, Again(r) PROVE AccessInv'
<1>1. /\ Acting(r) /\ ttl[r] = 0 /\ ttl \in [Requests -> Nat] /\ faults \in Nat
      /\ op[r] = "logout"
  BY DEF Again, Acting, Started, AccessInv, RequestOK, TypeOK
<1>2. /\ ttl' = [ttl EXCEPT ![r] = 0] /\ faults' \in Nat /\ faults' >= faults
      /\ UNCHANGED <<mode, clock, token, storeVars, op, tok, scope>>
  BY <1>1 DEF Again
<1>3. CASE Answer(r, "recheck")
  BY <1>1, <1>2, <1>3, MovesOn DEF Started
<1>4. CASE ~ Decoded(tok[r]) /\ Answer(r, "revoke")
  <2>1. token[tok[r]].exp \in Nat /\ clock \in Nat
    BY <1>1, ActingToken DEF TokenRecords, AccessInv, TypeOK
  <2>2. Gone(tok[r])
    BY <1>4, <2>1 DEF Decoded, Gone
  <2> QED
    BY <1>1, <1>2, <1>4, <2>2, MovesOn DEF Started
<1> QED
  BY <1>3, <1>4 DEF Again

\* What a revocation writes ends in the last second of its token, or later.
LEMMA EntryIsEnough ==
    ASSUME AccessInv, NEW r \in Requests, pc[r] = "revoke"
    PROVE  /\ NewEntry(r) \in [Tokens -> Nat]
           /\ \A t \in Tokens : t # tok[r] => NewEntry(r)[t] = entry[t]
           /\ IF ttl[r] = 0 THEN NewEntry(r) = entry
              ELSE /\ NewEntry(r)[tok[r]] # 0
                   /\ token[tok[r]].exp < NewEntry(r)[tok[r]] + Second
<1>1. /\ tok[r] \in Tokens /\ Signed(tok[r]) /\ TokenOK(tok[r])
      /\ token[tok[r]] \in TokenRecords
  BY ActingToken DEF Acting, Started
<1>2. entry \in [Tokens -> Nat] /\ clock \in Nat /\ ttl[r] \in Nat
  BY DEF AccessInv, TypeOK
<1>3. CASE ttl[r] = 0
  BY <1>2, <1>3 DEF NewEntry
<1>4. CASE ttl[r] # 0
  <2> DEFINE e == token[tok[r]].exp
             y == ttl[r] * Second
             x == IF mode = "memory" THEN e ELSE clock + y
  <2>1. e \in Nat /\ e > 0
    BY <1>1 DEF TokenOK, TokenRecords
  <2>2. y \in Nat /\ y > 0
    <3> DEFINE s == Second
               n == ttl[r]
    <3>1. s \in Nat \ {0} /\ n \in Nat \ {0}
      BY <1>2, <1>4, Seconds
    <3> HIDE DEF s, n
    <3>2. n * s \in Nat /\ n * s > 0
      BY <3>1
    <3> QED
      BY <3>2 DEF s, n
  <2>3. e < clock + y + Second
    BY <1>4 DEF AccessInv, RequestOK
  <2>4. NewEntry(r) = [entry EXCEPT ![tok[r]] = x]
    BY <1>4 DEF NewEntry
  <2> HIDE DEF e, y
  <2>5. x \in Nat /\ x # 0 /\ e < x + Second
    BY <1>2, <2>1, <2>2, <2>3, Seconds
  <2> HIDE DEF x
  <2> QED
    BY <1>1, <1>2, <1>4, <2>4, <2>5 DEF e
<1> QED
  BY <1>3, <1>4

\* A logout ends: its entry is written, or not, and it is answered.
LEMMA LogoutEnds ==
    ASSUME AccessInv, NEW r \in Requests, pc[r] = "revoke",
           entry' \in {entry, NewEntry(r)},
           NEW code \in {"200", "503"}, Answer(r, code),
           \/ loggedOut' = loggedOut
           \/ /\ loggedOut' = loggedOut \cup {tok[r]}
              /\ Trusted' => entry' = NewEntry(r),
           UNCHANGED <<mode, clock, token, op, tok, ttl, scope>>,
           faults' \in Nat, faults' >= faults
    PROVE  AccessInv'
<1>1. op[r] = "logout" /\ tok[r] \in Tokens /\ Signed(tok[r])
  BY ActingToken DEF Acting, Started, AccessInv, RequestOK
<1>2. entry' \in [Tokens -> Nat]
  BY EntryIsEnough DEF AccessInv, TypeOK
<1>3. TypeOK'
  BY <1>1, <1>2 DEF AccessInv, TypeOK, Answer, Started, ClaimSet
<1>4. Later
  <2>1. \A t \in Tokens : Signed(t) => token'[t] = token[t]
    OBVIOUS
  <2>2. clock' \in Nat /\ clock <= clock'
    BY DEF AccessInv, TypeOK
  <2>3. Trusted' => Trusted
    BY DEF AccessInv, TypeOK, Trusted
  <2>4. \A t \in Tokens : entry[t] # 0 => entry'[t] # 0
    BY EntryIsEnough
  <2> QED
    BY <2>1, <2>2, <2>3, <2>4 DEF Later
<1>5. ASSUME NEW t \in Tokens, t # tok[r] PROVE StoreOK(t)'
  BY <1>4, <1>5, EntryIsEnough, StoreStays
<1>6. StoreOK(tok[r])'
  <2>1. StoreOK(tok[r]) /\ (Trusted' => Trusted)
    BY <1>1, <1>4 DEF AccessInv, Later
  <2>2. Signed(tok[r])'
    BY <1>1 DEF Signed
  <2>3. entry'[tok[r]] # 0 => token'[tok'[r]].exp < entry'[tok[r]] + Second
    BY <2>1, EntryIsEnough DEF StoreOK
  <2>4. ASSUME Trusted', tok[r] \in loggedOut'
        PROVE  entry'[tok[r]] # 0 \/ token'[tok'[r]].exp <= clock'
    <3>1. CASE tok[r] \in loggedOut
      <4>1. Gone(tok[r])
        BY <2>1, <2>4, <3>1 DEF StoreOK
      <4> QED
        BY <1>1, <1>4, <2>4, <4>1 DEF Later, Gone
    <3>2. CASE entry' = NewEntry(r)
      <4>1. CASE ttl[r] = 0
        <5>1. Gone(tok[r])
          BY <2>1, <2>4, <4>1 DEF AccessInv, RequestOK
        <5> QED
          BY <3>2, <4>1, <5>1, EntryIsEnough DEF Gone
      <4>2. CASE ttl[r] # 0
        BY <3>2, <4>2, EntryIsEnough
      <4> QED
        BY <4>1, <4>2
    <3> QED
      BY <2>4, <3>1, <3>2
  <2> QED
    BY <2>2, <2>3, <2>4 DEF StoreOK, Gone
<1>7. \A t \in Tokens : TokenOK(t)'
  BY TokenStays
<1>8. pc'[r] = code
  BY DEF AccessInv, TypeOK, Answer
<1>9. RequestOK(r)'
  BY <1>1, <1>8 DEF RequestOK, Started, Business, Signed
<1>10. \A q \in Requests \ {r} : Unmoved(q)
  BY DEF AccessInv, TypeOK, Answer, Unmoved
<1> QED
  BY <1>3, <1>4, <1>5, <1>6, <1>7, <1>9, <1>10, OneMoves

LEMMA RevokeKeeps == ASSUME AccessInv, NEW r \in Requests, Revoke(r) PROVE AccessInv'
<1>1. /\ pc[r] = "revoke" /\ entry' = NewEntry(r)
      /\ Answer(r, "200") /\ loggedOut' = loggedOut \cup {tok[r]}
      /\ UNCHANGED <<mode, clock, token, op, tok, ttl, scope>>
      /\ faults' \in Nat /\ faults' >= faults
  BY DEF Revoke, SayRevoked, AccessInv, TypeOK
<1> QED
  BY <1>1, LogoutEnds

\* In staging and production a failed write is answered 503; elsewhere nothing
\* is trusted any more.
LEMMA RevokeFailsKeeps ==
    ASSUME AccessInv, NEW r \in Requests, RevokeFails(r) PROVE AccessInv'
<1>1. /\ pc[r] = "revoke" /\ entry' \in {entry, NewEntry(r)}
      /\ UNCHANGED <<mode, clock, token, op, tok, ttl, scope>>
      /\ faults' \in Nat /\ faults' >= faults /\ faults' # 0
  BY DEF RevokeFails, AccessInv, TypeOK
<1>2. CASE mode = "closed"
  <2>1. Answer(r, "503") /\ loggedOut' = loggedOut
    BY <1>2 DEF RevokeFails
  <2> QED
    BY <1>1, <2>1, LogoutEnds
<1>3. CASE mode # "closed"
  <2>1. Answer(r, "200") /\ loggedOut' = loggedOut \cup {tok[r]} /\ ~ Trusted'
    BY <1>1, <1>3 DEF RevokeFails, SayRevoked, Trusted
  <2> QED
    BY <1>1, <2>1, LogoutEnds
<1> QED
  BY <1>2, <1>3

LEMMA RestartKeeps == ASSUME AccessInv, Restart PROVE AccessInv'
<1>1. /\ faults' \in Nat /\ faults' >= faults /\ faults' # 0
      /\ entry' \in [Tokens -> Nat]
      /\ UNCHANGED <<mode, clock, token, loggedOut, op, tok, ttl, scope>>
      /\ pc' = [r \in Requests |-> IF pc[r] \in Started THEN "lost" ELSE pc[r]]
  BY DEF Restart, AccessInv, TypeOK
<1>2. TypeOK'
  BY <1>1 DEF AccessInv, TypeOK, Started, ClaimSet
<1>3. Trusted' => entry' = entry /\ Trusted
  BY <1>1 DEF Restart, Trusted, AccessInv, TypeOK
<1>4. Later
  <2>1. clock' \in Nat /\ clock <= clock'
    BY <1>1 DEF AccessInv, TypeOK
  <2> QED
    BY <1>1, <1>3, <2>1 DEF Later
<1>5. \A t \in Tokens : TokenOK(t)'
  BY <1>1, TokenStays
<1>6. ASSUME NEW t \in Tokens PROVE StoreOK(t)'
  <2>1. CASE entry'[t] = entry[t]
    BY <1>1, <1>4, <2>1, StoreStays
  <2>2. CASE entry'[t] # entry[t]
    <3>1. entry'[t] = 0 /\ ~ Trusted'
      BY <1>3, <2>2 DEF Restart
    <3>2. t \in loggedOut' => Signed(t)'
      BY <1>1 DEF AccessInv, StoreOK, Signed
    <3> QED
      BY <3>1, <3>2 DEF StoreOK
  <2> QED
    BY <2>1, <2>2
<1>7. ASSUME NEW r \in Requests PROVE RequestOK(r)'
  <2>1. CASE pc[r] \in Started
    <3>1. pc'[r] = "lost" /\ op'[r] \in Business
      BY <1>1, <2>1 DEF AccessInv, RequestOK
    <3>2. tok'[r] \in Tokens /\ Signed(tok[r])'
      BY <1>1, <2>1, ActingToken DEF Acting, Signed
    <3> QED
      BY <1>1, <3>1, <3>2 DEF RequestOK, Started
  <2>2. CASE pc[r] \notin Started
    <3>1. Unmoved(r)
      BY <1>1, <2>2 DEF Unmoved
    <3> QED
      BY <1>4, <3>1, RequestStays
  <2> QED
    BY <2>1, <2>2
<1> QED
  BY <1>2, <1>5, <1>6, <1>7 DEF AccessInv

\* A step that leaves the requests and the store alone: time passes, or nothing.
LEMMA TimeKeeps ==
    ASSUME AccessInv, UNCHANGED <<mode, token, storeVars, requestVars, faults>>,
           clock' \in Nat, clock <= clock'
    PROVE  AccessInv'
<1>1. TypeOK'
  BY DEF AccessInv, TypeOK, Started, storeVars, requestVars, ClaimSet
<1>2. Later
  BY DEF Later, Trusted, storeVars
<1>3. \A t \in Tokens : TokenOK(t)'
  BY TokenStays
<1>4. ASSUME NEW t \in Tokens PROVE StoreOK(t)'
  BY <1>2, <1>4, StoreStays DEF storeVars
<1>5. ASSUME NEW r \in Requests PROVE RequestOK(r)'
  <2>1. Unmoved(r)
    BY DEF Unmoved, requestVars
  <2> QED
    BY <1>2, <2>1, RequestStays
<1> QED
  BY <1>1, <1>3, <1>4, <1>5 DEF AccessInv

LEMMA StepKeeps == ASSUME AccessInv, [Next]_vars PROVE AccessInv'
<1>1. ASSUME NEW r \in Requests, Login(r) \/ DevToken(r) \/ GenerateToken(r) PROVE AccessInv'
  BY <1>1, LoginKeeps, DevTokenKeeps, GenerateTokenKeeps
<1>2. ASSUME NEW r \in Requests, Arrive(r) PROVE AccessInv'
  BY <1>2, ArriveKeeps
<1>3. ASSUME NEW r \in Requests, Check(r) \/ CheckFails(r) \/ Again(r) PROVE AccessInv'
  BY <1>3, CheckKeeps, CheckFailsKeeps, AgainKeeps
<1>4. ASSUME NEW r \in Requests, Revoke(r) \/ RevokeFails(r) PROVE AccessInv'
  BY <1>4, RevokeKeeps, RevokeFailsKeeps
<1>5. CASE Restart
  BY <1>5, RestartKeeps
<1>6. CASE Tick
  <2>1. clock' \in Nat /\ clock <= clock'
    BY <1>6 DEF Tick, AccessInv, TypeOK
  <2> QED
    BY <1>6, <2>1, TimeKeeps DEF Tick
<1>7. CASE UNCHANGED vars
  <2>1. clock' \in Nat /\ clock <= clock'
    BY <1>7 DEF vars, AccessInv, TypeOK
  <2> QED
    BY <1>7, <2>1, TimeKeeps DEF vars
<1> QED
  BY <1>1, <1>2, <1>3, <1>4, <1>5, <1>6, <1>7 DEF Next, RequestStep

-----------------------------------------------------------------------------
(* The theorems                                                            *)

\* Tokens descend from a login, entries outlast their tokens to the last second,
\* and whatever was logged out is refused by the store or has expired: what
\* jwt.py, revocation.py and tenant_auth.py keep true between them.
THEOREM AccessInvariant == Spec => []AccessInv
<1>1. Init => AccessInv
  BY InitEstablishes
<1>2. AccessInv /\ [Next]_vars => AccessInv'
  BY StepKeeps
<1> QED
  BY <1>1, <1>2, PTL DEF Spec

\* Every variable keeps its type; in particular a computed lifetime is never
\* negative.
THEOREM AccessTypes == Spec => []TypeOK
<1>1. AccessInv => TypeOK
  BY DEF AccessInv
<1> QED
  BY <1>1, AccessInvariant, PTL

LEMMA RootKeepsClaims ==
    ASSUME AccessInv, NEW t \in Tokens PROVE token[Root(t)].claims = token[t].claims
<1>1. TokenOK(t)
  BY DEF AccessInv
<1> QED
  BY <1>1 DEF TokenOK, Root

\* A request that was granted works in the tenant of the login its token descends
\* from, or that login was a system_admin's: authorize_tenant_access and the
\* refresh of tokens, for all tenants, claims and chains of tokens.
THEOREM TenantsIsolated == Spec => []TenantIsolation
<1>1. AccessInv => TenantIsolation
  <2> SUFFICES ASSUME AccessInv, NEW r \in Requests, op[r] = "call", pc[r] = "200"
               PROVE  LET c == token[Root(tok[r])].claims IN
                      scope[r] \in {None, c.tenant} \/ "system_admin" \in c.roles
    BY DEF TenantIsolation
  <2>1. RequestOK(r)
    BY DEF AccessInv
  <2>2. token[Root(tok[r])].claims = token[tok[r]].claims
    BY <2>1, RootKeepsClaims DEF RequestOK, Business
  <2> QED
    BY <2>1, <2>2 DEF RequestOK
<1> QED
  BY <1>1, AccessInvariant, PTL

\* A token the store lets through after its logout has less than a second left.
LEMMA LetThroughLate ==
    ASSUME AccessInv, NEW t \in loggedOut, Trusted, ~ Revoked(t)
    PROVE  token[t].exp - clock < Second
<1>1. /\ t \in Tokens /\ StoreOK(t) /\ token[t].exp \in Nat /\ clock \in Nat
      /\ entry[t] \in Nat
  BY DEF AccessInv, TypeOK
<1>2. CASE token[t].exp <= clock
  BY <1>1, <1>2, Seconds
<1>3. CASE entry[t] # 0
  <2>1. entry[t] <= clock
    BY <1>1, <1>3 DEF Revoked
  <2> QED
    BY <1>1, <1>3, <2>1, Seconds DEF StoreOK
<1> QED
  BY <1>1, <1>2, <1>3 DEF StoreOK, Gone

\* After logout was answered 200 no request is let through and no token is minted
\* with the token, but in the second before it expires: verify_token_async and the
\* revocation store, for any number of requests, failures and restarts.
THEOREM LogoutsHold == Spec => LogoutHolds
<1> DEFINE Holds == \A r \in Requests :
                       /\ pc[r] = "check" /\ pc'[r] = "200"
                       /\ tok[r] \in loggedOut /\ Trusted'
                       => token[tok[r]].exp - clock < Second
<1>1. AccessInv /\ [Next]_vars => Holds
  <2> SUFFICES ASSUME AccessInv, [Next]_vars, NEW r \in Requests,
                      pc[r] = "check", pc'[r] = "200", tok[r] \in loggedOut, Trusted'
               PROVE  token[tok[r]].exp - clock < Second
    OBVIOUS
  <2>1. pc \in [Requests -> {"idle", "lost", "200", "400", "401", "403", "503"} \cup Started]
    BY DEF AccessInv, TypeOK
  <2>2. \A q \in Requests \ {r} : \A code : Answer(q, code) => pc'[r] = pc[r]
    BY <2>1 DEF Answer
  <2>3. \A code : Answer(r, code) => code = "200"
    BY <2>1 DEF Answer
  <2>4. PICK q \in Requests : Check(q) \/ CheckFails(q)
    <3>1. \A q \in Requests : ~ (Login(q) \/ DevToken(q) \/ GenerateToken(q))
      BY <2>2 DEF Login, DevToken, GenerateToken, Refuse, SignPair
    <3>2. \A q \in Requests : ~ (Arrive(q) \/ Again(q))
      BY <2>2 DEF Arrive, Again
    <3>3. \A q \in Requests : ~ (Revoke(q) \/ RevokeFails(q))
      BY <2>2 DEF Revoke, RevokeFails, SayRevoked
    <3>4. ~ Restart /\ ~ Tick /\ ~ UNCHANGED vars
      BY <2>1 DEF Restart, Tick, vars, requestVars, Started
    <3> QED
      BY <3>1, <3>2, <3>3, <3>4 DEF Next, RequestStep
  <2>5. q = r
    BY <2>2, <2>4 DEF Check, CheckFails, Valid, Invalid, Call, Mint
  <2>6. ~ Revoked(tok[r]) /\ Trusted
    <3>1. CASE Check(r)
      <4>1. ~ Invalid(r)
        BY <2>3 DEF Invalid
      <4> QED
        BY <3>1, <4>1 DEF Check, Trusted
    <3>2. ~ CheckFails(r)
      BY <2>3 DEF CheckFails, Trusted, AccessInv, TypeOK
    <3> QED
      BY <2>4, <2>5, <3>1, <3>2
  <2> QED
    BY <2>6, LetThroughLate
<1>2. LogoutHolds <=> [][Holds]_vars
  BY PTL DEF LogoutHolds
<1> QED
  BY <1>1, <1>2, AccessInvariant, PTL DEF Spec
=============================================================================
