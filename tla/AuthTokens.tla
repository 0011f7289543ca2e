------------------------------- MODULE AuthTokens -------------------------------
(***************************************************************************)
(* The token life cycle and the permission check of AuthService            *)
(* (traits/auth.rs, models/user.rs), for one user.                         *)
(*                                                                         *)
(* assert_permission is the trait's own code.  The other operations are    *)
(* what their declarations fix; the crate that is to implement them is     *)
(* empty.  refresh_token is async: it looks the stored token up and later  *)
(* rotates it in a transaction, with other calls in between.  A request    *)
(* is authorised in one step and performed in another.  Tokens expire by   *)
(* the host's wall clock, which may be set back.                           *)
(***************************************************************************)
EXTENDS Integers, Sequences

CONSTANTS
  Roles,         \* the roles that the user may have
  Actions,       \* the actions that are requested on a resource
  Grants,        \* <<role, action>>: what each role permits
  Handlers,      \* concurrent calls of refresh_token
  Requests,      \* concurrent requests for an action
  AccessLife,    \* seconds until an access token expires
  RefreshLife,   \* seconds until a refresh token expires
  MaxTokens,     \* bound: token pairs issued
  MaxTime,       \* bound: the clock, in seconds
  None           \* no token, no time, no request

Role == {"Owner", "Admin", "Member", "Guest"}
Action == {"Read", "Write", "Delete", "Share", "Admin"}

ASSUME AuthTokensAssumption ==
  /\ Roles \subseteq Role /\ Actions \subseteq Action
  /\ Grants \subseteq Roles \X Actions
  /\ AccessLife \in Nat /\ RefreshLife \in Nat
  /\ MaxTokens \in Nat /\ MaxTime \in Nat
  /\ None \notin Int /\ None \notin Actions

VARIABLES
  role, is_active,   \* of the User
  tokens,      \* the TokenPairs issued, each with its claims
  revoked,     \* the stored refresh tokens that are revoked
  refreshing,  \* the token that each handler has looked up, and is to rotate
  permitted,   \* the action that each request is permitted, and has yet to perform
  now,
  latest,      \* history: the latest time the clock has shown
  roleSince,   \* history: what latest was when the role was last changed
  replayed,    \* history: what it was when a revoked token of each family was first replayed
  overtaken    \* history: requests whose user's role changed after the check

account == <<role, is_active, roleSince>>
store == <<tokens, revoked, replayed>>
clock == <<now, latest>>
vars == <<account, store, refreshing, permitted, clock, overtaken>>

\* Claims and RefreshClaims: a pair is issued at iat, in the family of the login.
TokenPairs == [family : 1..MaxTokens, iat : 0..MaxTime, role : Roles]

Tokens == 1..Len(tokens)

\* verify_token: Unauthorized if the token is expired.
Verified(t) == now < tokens[t].iat + AccessLife

\* The refresh token's exp has not come.
Refreshable(t) == now < tokens[t].iat + RefreshLife

Init ==
  /\ role \in Roles /\ is_active = TRUE /\ roleSince = 0
  /\ tokens = <<>> /\ revoked = {} /\ replayed = [f \in 1..MaxTokens |-> None]
  /\ refreshing = [h \in Handlers |-> None]
  /\ permitted = [r \in Requests |-> None] /\ overtaken = {}
  /\ now = 0 /\ latest = 0

-------------------------------------------------------------------------------
(* Tokens.                                                                 *)

\* Slip: the new access token repeats the claims of the old.
PairOfClaims(f) ==
  LET old == {t \in Tokens : tokens[t].family = f}
  IN  [family |-> f, iat |-> now,
       role |-> IF old = {} THEN role ELSE tokens[CHOOSE t \in old : TRUE].role]

NewPair(f) == [family |-> f, iat |-> now, role |-> role]

\* login: Forbidden for an account that is suspended.
Login ==
  /\ is_active /\ Len(tokens) < MaxTokens
  /\ tokens' = Append(tokens, NewPair(Len(tokens) + 1))
  /\ UNCHANGED <<account, revoked, replayed, refreshing, permitted, clock, overtaken>>

\* Reuse detection: the entire family is invalidated.
Reuse(f) ==
  /\ revoked' = revoked \cup {t \in Tokens : tokens[t].family = f}
  /\ replayed' = [replayed EXCEPT ![f] = IF @ = None THEN latest ELSE @]
  /\ UNCHANGED tokens

\* refresh_token: the token is verified and looked up.
LookUp(h, t) ==
  /\ refreshing[h] = None /\ t \in Tokens /\ Refreshable(t)
  /\ IF t \in revoked
       THEN Reuse(tokens[t].family) /\ UNCHANGED refreshing
       ELSE refreshing' = [refreshing EXCEPT ![h] = t] /\ UNCHANGED store
  /\ UNCHANGED <<account, permitted, clock, overtaken>>

\* Slip: what was found at the look-up is taken to hold.
RotateUnchecked(h) ==
  /\ refreshing[h] # None /\ refreshing' = [refreshing EXCEPT ![h] = None]
  /\ Len(tokens) < MaxTokens
  /\ tokens' = Append(tokens, NewPair(tokens[refreshing[h]].family))
  /\ revoked' = revoked \cup {refreshing[h]}
  /\ UNCHANGED <<account, replayed, permitted, clock, overtaken>>

\* refresh_token: the old token is revoked and a new pair issued, unless another
\* call has used or revoked the token since.
Rotate(h) ==
  LET t == refreshing[h] IN
  /\ t # None /\ refreshing' = [refreshing EXCEPT ![h] = None]
  /\ \/ t \in revoked /\ Reuse(tokens[t].family)
     \/ /\ t \notin revoked /\ revoked' = revoked \cup {t}
        /\ Len(tokens) < MaxTokens
        /\ tokens' = Append(tokens, NewPair(tokens[t].family))
        /\ UNCHANGED replayed
  /\ UNCHANGED <<account, permitted, clock, overtaken>>

\* Slip: the token is recorded as revoked whether or not it exists.
RevokeAny(t) ==
  /\ revoked' = revoked \cup {t}
  /\ UNCHANGED <<account, tokens, replayed, refreshing, permitted, clock, overtaken>>

\* revoke_token: logout.  NotFound for a token that does not exist.
RevokeToken(t) ==
  /\ t \in Tokens
  /\ revoked' = revoked \cup {t}
  /\ UNCHANGED <<account, tokens, replayed, refreshing, permitted, clock, overtaken>>

-------------------------------------------------------------------------------
(* Requests.                                                               *)

\* check_permission: Ok(true), Ok(false), or an error of the store it asks.
CheckPermission(action) ==
  {IF <<role, action>> \in Grants THEN "true" ELSE "false", "Err"}

\* Slip: only a denial is an error.
AssertPermissionLax(answer) == IF answer = "false" THEN "Forbidden" ELSE "Ok"

AssertPermission(answer) ==
  CASE answer = "true" -> "Ok" [] answer = "false" -> "Forbidden" [] OTHER -> "Err"

Authorise(r, action) ==
  /\ permitted[r] = None
  /\ \E t \in Tokens : Verified(t)
  /\ \E answer \in CheckPermission(action) :
       permitted' = [permitted EXCEPT ![r] =
                       IF AssertPermission(answer) = "Ok" THEN action ELSE None]
  /\ overtaken' = overtaken \ {r}
  /\ UNCHANGED <<account, store, refreshing, clock>>

Perform(r) ==
  /\ permitted[r] # None /\ permitted' = [permitted EXCEPT ![r] = None]
  /\ overtaken' = overtaken \ {r}
  /\ UNCHANGED <<account, store, refreshing, clock>>

-------------------------------------------------------------------------------
(* The account, and time.                                                  *)

\* UserRoleChanged
ChangeRole(new_role) ==
  /\ role # new_role /\ role' = new_role /\ roleSince' = latest
  /\ overtaken' = {r \in Requests : permitted[r] # None}
  /\ UNCHANGED <<is_active, store, refreshing, permitted, clock>>

\* UserDeactivated, and its reverse.
SetActive ==
  /\ is_active' = ~ is_active
  /\ UNCHANGED <<role, roleSince, store, refreshing, permitted, clock, overtaken>>

Tick ==
  /\ now < MaxTime /\ now' = now + 1
  /\ latest' = IF now' > latest THEN now' ELSE latest
  /\ UNCHANGED <<account, store, refreshing, permitted, overtaken>>

\* The host's clock is set back.
StepBack ==
  /\ now' \in 0..(now - 1)
  /\ UNCHANGED <<account, store, refreshing, permitted, latest, overtaken>>

Next ==
  \/ Login \/ SetActive \/ Tick \/ StepBack
  \/ \E t \in 1..MaxTokens : RevokeToken(t) \/ \E h \in Handlers : LookUp(h, t)
  \/ \E h \in Handlers : Rotate(h)
  \/ \E r \in Requests : Perform(r) \/ \E action \in Actions : Authorise(r, action)
  \/ \E new_role \in Roles : ChangeRole(new_role)

Spec == Init /\ [][Next]_vars

-------------------------------------------------------------------------------
(* Properties.                                                             *)

(* Every variable keeps its type, and no family is older than its login.    *)
TypeOK ==
  /\ role \in Roles /\ is_active \in BOOLEAN
  /\ tokens \in Seq(TokenPairs) /\ Len(tokens) <= MaxTokens
  /\ \A t \in Tokens : tokens[t].family <= t /\ tokens[t].iat <= latest
  /\ revoked \subseteq Tokens
  /\ refreshing \in [Handlers -> Tokens \cup {None}]
  /\ permitted \in [Requests -> Actions \cup {None}] /\ overtaken \subseteq Requests
  /\ latest \in 0..MaxTime /\ now \in 0..latest /\ roleSince \in 0..latest
  /\ replayed \in [1..MaxTokens -> 0..latest \cup {None}]

(* Of each family at most the newest refresh token can still be exchanged,  *)
(* whichever calls of refresh_token overlap (token rotation).               *)
OneLivePerFamily ==
  \A s, t \in Tokens \ revoked : tokens[s].family = tokens[t].family => s = t

(* Replaying a revoked token ends its family: no refresh token of it is     *)
(* live again, though others were being refreshed at that moment, and its   *)
(* access tokens verify at no time that is an access token's life or more   *)
(* after the latest that the clock had shown, set back as it may be since   *)
(* (reuse detection).                                                       *)
ReplayEndsFamily ==
  \A t \in Tokens :
    LET since == replayed[tokens[t].family] IN
    since # None => t \in revoked /\ (Verified(t) => now < since + AccessLife)

(* An access token that verifies says the user's current role, or it is     *)
(* less than an access token's life after the latest time that the clock    *)
(* had shown when the role changed; a clock that is set back stretches an   *)
(* old role's life and never starts a new one (Claims::role).               *)
StaleRoleBounded ==
  \A t \in Tokens :
    Verified(t) /\ tokens[t].role # role => now < roleSince + AccessLife

(* A request is about to perform only what the user's role permits, or the  *)
(* role has changed since the request was checked; no failure of the check  *)
(* lets a request pass (assert_permission).                                 *)
PermittedByRole ==
  \A r \in Requests :
    permitted[r] # None /\ <<role, permitted[r]>> \notin Grants => r \in overtaken
===============================================================================
