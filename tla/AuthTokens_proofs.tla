---------------------------- MODULE AuthTokens_proofs ----------------------------
(***************************************************************************)
(* Theorems about AuthTokens and their proofs.  The invariant dates what a *)
(* token says: a pair whose role is not the current one was issued before  *)
(* the role changed, and a pair of a replayed family before the replay.    *)
(***************************************************************************)
EXTENDS AuthTokens, TLAPS

USE AuthTokensAssumption

RoleDated == \A t \in Tokens : tokens[t].role # role => tokens[t].iat <= roleSince

\* A family that was replayed exists, and all of it was revoked at the latest then.
ReplayDated ==
  \A f \in 1..MaxTokens : replayed[f] # None =>
    /\ f <= Len(tokens)
    /\ \A t \in Tokens : tokens[t].family = f => t \in revoked /\ tokens[t].iat <= replayed[f]

Inv == TypeOK /\ RoleDated /\ ReplayDated /\ OneLivePerFamily /\ PermittedByRole

LEMMA Initially == Init => Inv
BY DEF Init, Inv, TypeOK, RoleDated, ReplayDated, OneLivePerFamily, PermittedByRole, Tokens

\* A token's pair, and its parts.
LEMMA PairTyped ==
  ASSUME TypeOK, NEW t \in Tokens
  PROVE  /\ tokens[t] \in TokenPairs
         /\ tokens[t].family \in 1..MaxTokens /\ tokens[t].iat \in Nat /\ tokens[t].role \in Roles
<1>1. tokens[t] \in TokenPairs
  BY DEF TypeOK, Tokens
<1> QED BY <1>1 DEF TokenPairs

\* A pair is issued: what was issued before stays as it was.
LEMMA Issued ==
  ASSUME TypeOK, NEW f \in 1..MaxTokens, Len(tokens) < MaxTokens,
         tokens' = Append(tokens, NewPair(f))
  PROVE  /\ tokens' \in Seq(TokenPairs) /\ Len(tokens') = Len(tokens) + 1
         /\ Len(tokens') <= MaxTokens
         /\ Tokens' = Tokens \cup {Len(tokens) + 1} /\ Len(tokens) + 1 \notin Tokens
         /\ \A t \in Tokens : tokens'[t] = tokens[t]
         /\ LET new == tokens'[Len(tokens) + 1]
            IN  new.family = f /\ new.iat = now /\ new.role = role
<1>1. NewPair(f) \in TokenPairs
  BY DEF TypeOK, NewPair, TokenPairs
<1> QED BY <1>1 DEF TypeOK, NewPair, Tokens

LEMMA LoginKeeps ==
  ASSUME Inv, Login
  PROVE  Inv'
<1> DEFINE new == Len(tokens) + 1
<1>1. TypeOK /\ new \in 1..MaxTokens
  BY DEF Inv, TypeOK, Login
<1>2. /\ tokens' = Append(tokens, NewPair(new)) /\ Len(tokens) < MaxTokens
      /\ UNCHANGED <<role, is_active, roleSince, revoked, replayed, refreshing, permitted, now, latest, overtaken>>
  BY DEF Login, account, clock
<1>3. /\ tokens' \in Seq(TokenPairs) /\ Len(tokens') = new /\ Len(tokens') <= MaxTokens
      /\ Tokens' = Tokens \cup {new} /\ new \notin Tokens
      /\ \A t \in Tokens : tokens'[t] = tokens[t]
      /\ tokens'[new].family = new /\ tokens'[new].iat = now /\ tokens'[new].role = role
  BY <1>1, <1>2, Issued
<1>4. \A t \in Tokens : tokens[t].family # new
  BY <1>1, PairTyped DEF TypeOK, Tokens
<1> HIDE DEF new
<1>5. TypeOK'
  <2>1. new \in Nat /\ now \in Nat /\ latest \in Nat /\ now <= latest
    BY <1>1 DEF TypeOK
  <2>2. \A t \in Tokens' : tokens'[t].family <= t /\ tokens'[t].iat <= latest
    BY <1>1, <1>3, <2>1 DEF TypeOK
  <2>3. refreshing \in [Handlers -> Tokens' \cup {None}] /\ revoked \subseteq Tokens'
    BY <1>1, <1>3 DEF TypeOK
  <2> QED BY <1>1, <1>2, <1>3, <2>2, <2>3 DEF TypeOK
<1>6. RoleDated'
  BY <1>2, <1>3 DEF Inv, RoleDated
<1>7. ReplayDated'
  <2>1. replayed[new] = None
    BY <1>1 DEF Inv, ReplayDated, new, TypeOK
  <2> SUFFICES ASSUME NEW g \in 1..MaxTokens, replayed[g] # None
               PROVE  /\ g <= Len(tokens')
                      /\ \A t \in Tokens' : tokens'[t].family = g =>
                           t \in revoked /\ tokens'[t].iat <= replayed[g]
    BY <1>2 DEF ReplayDated
  <2>2. g # new /\ g <= Len(tokens) /\ Len(tokens) \in Nat
    BY <1>1, <2>1 DEF Inv, ReplayDated, TypeOK
  <2>3. g <= Len(tokens')
    BY <1>3, <2>2 DEF new
  <2> QED BY <1>3, <2>2, <2>3 DEF Inv, ReplayDated
<1>8. OneLivePerFamily'
  <2>1. \A t \in Tokens : tokens'[t].family # new
    BY <1>3, <1>4
  <2>2. \A s, t \in Tokens \ revoked : tokens'[s].family = tokens'[t].family => s = t
    BY <1>3 DEF Inv, OneLivePerFamily
  <2>3. \A s \in Tokens' \ revoked' : s = new \/ s \in Tokens \ revoked
    BY <1>2, <1>3
  <2>4. tokens'[new].family = new
    BY <1>3
  <2> QED BY <2>1, <2>2, <2>3, <2>4 DEF OneLivePerFamily
<1> QED BY <1>2, <1>5, <1>6, <1>7, <1>8 DEF Inv, PermittedByRole

\* A family is revoked as a whole, whatever happens to the handlers.
LEMMA ReuseKeeps ==
  ASSUME Inv, NEW s \in Tokens, Reuse(tokens[s].family),
         refreshing' \in [Handlers -> Tokens \cup {None}],
         UNCHANGED <<role, is_active, roleSince, permitted, now, latest, overtaken>>
  PROVE  Inv'
<1> DEFINE f == tokens[s].family
<1>1. /\ revoked' = revoked \cup {t \in Tokens : tokens[t].family = f}
      /\ replayed' = [replayed EXCEPT ![f] = IF replayed[f] = None THEN latest ELSE replayed[f]]
      /\ UNCHANGED tokens /\ Tokens' = Tokens
  BY DEF Reuse, Tokens
<1>2. f \in 1..MaxTokens /\ f <= Len(tokens)
  BY PairTyped DEF Inv, TypeOK, Tokens
<1> HIDE DEF f
<1>3. TypeOK'
  BY <1>1, <1>2 DEF Inv, TypeOK
<1>4. ReplayDated'
  <2> SUFFICES ASSUME NEW g \in 1..MaxTokens, replayed'[g] # None
               PROVE  /\ g <= Len(tokens)
                      /\ \A t \in Tokens : tokens[t].family = g =>
                           t \in revoked' /\ tokens[t].iat <= replayed'[g]
    BY <1>1 DEF ReplayDated
  <2>1. CASE g = f
    BY <1>1, <1>2, <2>1 DEF Inv, TypeOK, ReplayDated
  <2>2. CASE g # f
    BY <1>1, <1>2, <2>2 DEF Inv, TypeOK, ReplayDated
  <2> QED BY <2>1, <2>2
<1> QED BY <1>1, <1>3, <1>4 DEF Inv, RoleDated, OneLivePerFamily, PermittedByRole

LEMMA LookUpKeeps ==
  ASSUME Inv, NEW h \in Handlers, NEW t \in Tokens, LookUp(h, t)
  PROVE  Inv'
<1>1. UNCHANGED <<role, is_active, roleSince, permitted, now, latest, overtaken>>
  BY DEF LookUp, account, clock
<1>2. CASE t \in revoked
  BY <1>1, <1>2, ReuseKeeps DEF LookUp, Inv, TypeOK
<1>3. CASE t \notin revoked
  <2>1. /\ refreshing' = [refreshing EXCEPT ![h] = t]
        /\ UNCHANGED <<tokens, revoked, replayed>> /\ Tokens' = Tokens
    BY <1>3 DEF LookUp, store, Tokens
  <2>2. TypeOK'
    BY <1>1, <2>1 DEF Inv, TypeOK
  <2> QED BY <1>1, <2>1, <2>2 DEF Inv, RoleDated, ReplayDated, OneLivePerFamily, PermittedByRole
<1> QED BY <1>2, <1>3

LEMMA RotateKeeps ==
  ASSUME Inv, NEW h \in Handlers, Rotate(h)
  PROVE  Inv'
<1> DEFINE s == refreshing[h]
           f == tokens[s].family
           new == Len(tokens) + 1
<1>1. /\ s \in Tokens /\ refreshing' \in [Handlers -> Tokens \cup {None}]
      /\ UNCHANGED <<role, is_active, roleSince, permitted, now, latest, overtaken>>
  BY DEF Rotate, account, clock, Inv, TypeOK
<1>2. f \in 1..MaxTokens /\ f <= Len(tokens)
  BY <1>1, PairTyped DEF Inv, TypeOK, Tokens
<1>3. CASE s \in revoked /\ Reuse(f)
  BY <1>1, <1>3, ReuseKeeps
<1>4. CASE /\ s \notin revoked /\ revoked' = revoked \cup {s}
           /\ Len(tokens) < MaxTokens /\ tokens' = Append(tokens, NewPair(f))
           /\ UNCHANGED replayed
  <2>1. /\ tokens' \in Seq(TokenPairs) /\ Len(tokens') = new /\ Len(tokens') <= MaxTokens
        /\ Tokens' = Tokens \cup {new} /\ new \notin Tokens
        /\ \A t \in Tokens : tokens'[t] = tokens[t]
        /\ tokens'[new].family = f /\ tokens'[new].iat = now /\ tokens'[new].role = role
    BY <1>2, <1>4, Issued DEF Inv
  <2>2. f <= new /\ Len(tokens) <= new
    BY <1>2 DEF Inv, TypeOK
  <2>3. replayed[f] = None
    BY <1>1, <1>2, <1>4 DEF Inv, ReplayDated
  <2> HIDE DEF s, f, new
  <2>4. TypeOK'
    <3>1. \A t \in Tokens' : tokens'[t].family <= t /\ tokens'[t].iat <= latest
      BY <2>1, <2>2 DEF Inv, TypeOK
    <3>2. refreshing' \in [Handlers -> Tokens' \cup {None}] /\ revoked' \subseteq Tokens'
      BY <1>1, <1>4, <2>1 DEF Inv, TypeOK
    <3> QED BY <1>1, <1>4, <2>1, <3>1, <3>2 DEF Inv, TypeOK
  <2>5. RoleDated'
    BY <1>1, <2>1 DEF Inv, RoleDated
  <2>6. ReplayDated'
    <3> SUFFICES ASSUME NEW g \in 1..MaxTokens, replayed[g] # None
                 PROVE  /\ g <= Len(tokens')
                        /\ \A t \in Tokens' : tokens'[t].family = g =>
                             t \in revoked' /\ tokens'[t].iat <= replayed[g]
      BY <1>4 DEF ReplayDated
    <3>1. g # f /\ g <= Len(tokens)
      BY <2>3 DEF Inv, ReplayDated
    <3>2. g <= Len(tokens')
      BY <2>1, <2>2, <3>1 DEF Inv, TypeOK
    <3> QED BY <1>4, <2>1, <3>1, <3>2 DEF Inv, ReplayDated
  <2>7. OneLivePerFamily'
    <3>1. \A t \in Tokens \ revoked : tokens[t].family = f => t = s
      BY <1>1, <1>4 DEF Inv, OneLivePerFamily, f
    <3>2. \A t \in Tokens \ revoked' : tokens'[t].family # f
      BY <1>4, <2>1, <3>1
    <3>3. \A l, m \in Tokens \ revoked' : tokens'[l].family = tokens'[m].family => l = m
      BY <1>4, <2>1 DEF Inv, OneLivePerFamily
    <3> QED BY <2>1, <3>2, <3>3 DEF OneLivePerFamily
  <2> QED BY <1>1, <2>4, <2>5, <2>6, <2>7 DEF Inv, PermittedByRole
<1> QED BY <1>3, <1>4 DEF Rotate

LEMMA RevokeTokenKeeps ==
  ASSUME Inv, NEW t \in 1..MaxTokens, RevokeToken(t)
  PROVE  Inv'
<1>1. /\ t \in Tokens /\ revoked' = revoked \cup {t} /\ Tokens' = Tokens
      /\ UNCHANGED <<role, is_active, roleSince, tokens, replayed, refreshing, permitted, now, latest, overtaken>>
  BY DEF RevokeToken, account, clock, Tokens
<1>2. TypeOK'
  BY <1>1 DEF Inv, TypeOK
<1> QED BY <1>1, <1>2 DEF Inv, RoleDated, ReplayDated, OneLivePerFamily, PermittedByRole

LEMMA RequestKeeps ==
  ASSUME Inv, NEW r \in Requests,
         Perform(r) \/ \E action \in Actions : Authorise(r, action)
  PROVE  Inv'
<1>1. /\ UNCHANGED <<role, is_active, roleSince, tokens, revoked, replayed, refreshing, now, latest>>
      /\ Tokens' = Tokens /\ overtaken' = overtaken \ {r}
  BY DEF Perform, Authorise, account, store, clock, Tokens
<1>2. PICK action \in Actions \cup {None} :
        /\ permitted' = [permitted EXCEPT ![r] = action]
        /\ action # None => <<role, action>> \in Grants
  BY DEF Perform, Authorise, CheckPermission, AssertPermission
<1>3. permitted' \in [Requests -> Actions \cup {None}]
  BY <1>2 DEF Inv, TypeOK
<1>4. TypeOK'
  BY <1>1, <1>3 DEF Inv, TypeOK
<1>5. PermittedByRole'
  BY <1>1, <1>2 DEF Inv, TypeOK, PermittedByRole
<1> QED BY <1>1, <1>4, <1>5 DEF Inv, RoleDated, ReplayDated, OneLivePerFamily

LEMMA AccountKeeps ==
  ASSUME Inv,
         SetActive \/ Tick \/ StepBack \/ \E new_role \in Roles : ChangeRole(new_role)
  PROVE  Inv'
<1>1. /\ UNCHANGED <<tokens, revoked, replayed, refreshing, permitted>> /\ Tokens' = Tokens
      /\ role' \in Roles /\ is_active' \in BOOLEAN
      /\ latest' \in 0..MaxTime /\ latest <= latest' /\ now' \in 0..latest'
      /\ \/ UNCHANGED <<role, roleSince, overtaken>>
         \/ /\ roleSince' = latest /\ UNCHANGED latest
            /\ overtaken' = {r \in Requests : permitted[r] # None}
  <2>1. CASE SetActive
    <3>1. is_active' \in BOOLEAN
      BY <2>1, Zenon DEF SetActive
    <3> QED BY <2>1, <3>1 DEF SetActive, store, clock, Tokens, Inv, TypeOK
  <2>2. CASE Tick
    BY <2>2 DEF Tick, account, store, Tokens, Inv, TypeOK
  <2>3. CASE StepBack
    BY <2>3 DEF StepBack, account, store, Tokens, Inv, TypeOK
  <2>4. ASSUME NEW new_role \in Roles, ChangeRole(new_role)
        PROVE  /\ UNCHANGED <<tokens, revoked, replayed, permitted, refreshing, is_active, now, latest>>
               /\ Tokens' = Tokens /\ role' \in Roles /\ roleSince' = latest
               /\ overtaken' = {r \in Requests : permitted[r] # None}
    BY <2>4 DEF ChangeRole, store, clock, Tokens
  <2> QED BY <2>1, <2>2, <2>3, <2>4 DEF Inv, TypeOK
<1>2. TypeOK'
  <2>1. \A t \in Tokens : tokens[t].family <= t /\ tokens[t].iat <= latest'
    BY <1>1, PairTyped DEF Inv, TypeOK
  <2>2. replayed \in [1..MaxTokens -> 0..latest' \cup {None}] /\ overtaken' \subseteq Requests
    BY <1>1 DEF Inv, TypeOK
  <2>3. roleSince' \in 0..latest'
    BY <1>1 DEF Inv, TypeOK
  <2> QED BY <1>1, <2>1, <2>2, <2>3 DEF Inv, TypeOK
<1>3. RoleDated'
  BY <1>1 DEF Inv, RoleDated, TypeOK
<1>4. PermittedByRole'
  BY <1>1 DEF Inv, PermittedByRole
<1> QED BY <1>1, <1>2, <1>3, <1>4 DEF Inv, ReplayDated, OneLivePerFamily

LEMMA StutterKeeps ==
  ASSUME Inv, UNCHANGED vars
  PROVE  Inv'
BY DEF vars, account, store, clock, Inv, TypeOK, RoleDated, ReplayDated, OneLivePerFamily,
       PermittedByRole, Tokens

\* The inductive invariant holds: the base of the theorems below.
THEOREM Invariant == Spec => []Inv
<1>1. Inv /\ [Next]_vars => Inv'
  <2>1. ASSUME Inv, NEW t \in 1..MaxTokens, NEW h \in Handlers, LookUp(h, t)
        PROVE  Inv'
    BY <2>1, LookUpKeeps DEF LookUp
  <2> QED BY <2>1, LoginKeeps, RotateKeeps, RevokeTokenKeeps, RequestKeeps, AccountKeeps,
             StutterKeeps DEF Next
<1> QED BY <1>1, Initially, PTL DEF Spec

\* Every variable keeps its type, and no family is older than its login.
THEOREM TypeCorrect == Spec => []TypeOK
BY Invariant, PTL DEF Inv

\* No two refresh tokens of a family can be exchanged (token rotation).
THEOREM RotationExclusive == Spec => []OneLivePerFamily
BY Invariant, PTL DEF Inv

\* A replayed family is revoked for good, and its access tokens verify at no time that is
\* their life or more after the latest the clock had shown (reuse detection).
THEOREM ReplayIsEnd == Spec => []ReplayEndsFamily
<1>1. Inv => ReplayEndsFamily
  <2> SUFFICES ASSUME Inv, NEW t \in Tokens, replayed[tokens[t].family] # None
               PROVE  LET since == replayed[tokens[t].family]
                      IN  t \in revoked /\ (Verified(t) => now < since + AccessLife)
    BY DEF ReplayEndsFamily
  <2>1. tokens[t].family \in 1..MaxTokens /\ tokens[t].iat \in Nat
    BY PairTyped DEF Inv
  <2>2. t \in revoked /\ tokens[t].iat <= replayed[tokens[t].family]
    BY <2>1 DEF Inv, ReplayDated
  <2>3. replayed[tokens[t].family] \in Nat /\ now \in Nat
    BY <2>1 DEF Inv, TypeOK
  <2> QED BY <2>1, <2>2, <2>3 DEF Verified
<1> QED BY <1>1, Invariant, PTL

\* An access token says the current role, or it is less than the token's life after the
\* latest time that the clock had shown when the role changed (Claims::role).
THEOREM StaleRolesExpire == Spec => []StaleRoleBounded
<1>1. Inv => StaleRoleBounded
  BY PairTyped DEF Inv, TypeOK, RoleDated, StaleRoleBounded, Verified
<1> QED BY <1>1, Invariant, PTL

\* What is about to be performed is permitted, or the role changed since (assert_permission).
THEOREM PermissionsHold == Spec => []PermittedByRole
BY Invariant, PTL DEF Inv
===============================================================================
