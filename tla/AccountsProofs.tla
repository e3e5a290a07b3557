-------------------------- MODULE AccountsProofs --------------------------
(***************************************************************************)
(* For every set of users, passwords and token lifetimes, and however long *)
(* the program runs: sessions end with their password and their logout,    *)
(* and codes and the links of one password work once.                      *)
(***************************************************************************)
EXTENDS Accounts, FiniteSetTheorems, TLAPS

FinitelyMany ==
  IsFiniteSet(tokens) /\ IsFiniteSet(codes) /\ IsFiniteSet(resets)

TokensHaveUsers == \A t \in tokens : t.sub \in Registered

(* No salt and no secret in use is one that is still to be drawn, and no   *)
(* two users share a secret.                                               *)
DrawnBefore ==
  /\ \A u \in Registered :
       /\ wikiuser[u].password.salt <= draws
       /\ wikiuser[u].totp_secret # None => wikiuser[u].totp_secret <= draws
  /\ \A c \in codes : c.secret <= draws
  /\ \A u, v \in Registered :
       u # v /\ wikiuser[u].totp_secret # None => wikiuser[u].totp_secret # wikiuser[v].totp_secret

(* One session version has one password, and the other way round.          *)
VersionsKnowPasswords ==
  \A t \in tokens : t.kind # "reset" =>
    /\ t.session_version <= wikiuser[t.sub].session_version
    /\ t.session_version = wikiuser[t.sub].session_version
         <=> t.password = wikiuser[t.sub].password

TokensDrawnBefore == \A t \in tokens : t.password.salt <= draws

RevokedUntilExpired ==
  /\ revokedtoken \subseteq logged_out
  /\ \A t \in logged_out : t \in revokedtoken \/ t.exp < now

(* The codes used with the present secret are behind the last step.        *)
CodesBehindLastStep ==
  \A u \in Registered : \A c \in codes :
    c.secret = wikiuser[u].totp_secret =>
      wikiuser[u].totp_last_step # None /\ c.step <= wikiuser[u].totp_last_step

LastStepOfFactor ==
  \A u \in Registered : ~wikiuser[u].totp_enabled => wikiuser[u].totp_last_step = None

(* A later password has a later salt.                                      *)
ResetsBehindPassword ==
  \A r \in resets : r.sub \in Registered /\ r.password.salt < wikiuser[r.sub].password.salt

AccountInv ==
  /\ TypeOK
  /\ FinitelyMany
  /\ TokensHaveUsers
  /\ DrawnBefore
  /\ VersionsKnowPasswords
  /\ TokensDrawnBefore
  /\ RevokedUntilExpired
  /\ CodesBehindLastStep
  /\ LastStepOfFactor
  /\ ResetsBehindPassword
  /\ CodesWorkOnce
  /\ ResetLinksWorkOnce

---------------------------------------------------------------------------

LEMMA RowTypes ==
  ASSUME AccountInv, NEW u \in Registered
  PROVE  /\ u \in Users
         /\ wikiuser[u] \in UserRow
         /\ wikiuser[u].password \in Hash
BY DEF AccountInv, TypeOK, Registered, UserRow

LEMMA Fresh ==
  ASSUME AccountInv, NEW p \in Passwords
  PROVE  /\ draws \in Nat
         /\ hash_password(p) \in Hash
         /\ hash_password(p).salt = draws + 1
         /\ NewUser(hash_password(p)) \in UserRow
         /\ NewUser(hash_password(p)) # None
<1>1. draws \in Nat /\ draws + 1 \in Draw
  BY DEF AccountInv, TypeOK, Draw
<1>2. hash_password(p) \in Hash /\ hash_password(p).salt = draws + 1
  BY <1>1 DEF hash_password, Hash
<1>3. NewUser(hash_password(p)) \in UserRow
  BY <1>2 DEF NewUser, UserRow
<1>4. QED
  BY <1>1, <1>2, <1>3, AccountAssumptions

LEMMA AccountStart == Init => AccountInv
<1> SUFFICES ASSUME Init PROVE AccountInv
  OBVIOUS
<1>1. TypeOK
  BY DEF Init, TypeOK
<1>2. FinitelyMany
  BY FS_EmptySet DEF Init, FinitelyMany
<1>3. Registered = {}
  BY DEF Init, Registered
<1>4. QED
  BY <1>1, <1>2, <1>3
  DEF Init, AccountInv, TokensHaveUsers, DrawnBefore, VersionsKnowPasswords, TokensDrawnBefore,
      RevokedUntilExpired, CodesBehindLastStep, LastStepOfFactor, ResetsBehindPassword, CodesWorkOnce,
      ResetLinksWorkOnce

(* Tokens carry passwords of their time, and draws only go up.             *)
LEMMA TokensStillDrawn ==
  ASSUME AccountInv, draws' = draws \/ draws' = draws + 1,
         \A t \in tokens' : t \in tokens \/ \E u \in Registered : t.password = wikiuser[u].password
  PROVE  TokensDrawnBefore'
<1>1. draws \in Nat
  BY DEF AccountInv, TypeOK
<1>2. \A t \in tokens : t.password.salt \in Nat /\ t.password.salt <= draws
  BY DEF AccountInv, TypeOK, Token, Hash, Draw, TokensDrawnBefore
<1>3. \A u \in Registered : wikiuser[u].password.salt \in Nat /\ wikiuser[u].password.salt <= draws
  BY RowTypes DEF Hash, Draw, AccountInv, DrawnBefore
<1>4. QED
  BY <1>1, <1>2, <1>3 DEF TokensDrawnBefore

---------------------------------------------------------------------------
(* Passwords. *)

LEMMA UserCreated ==
  ASSUME AccountInv, NEW u \in Users \ Registered, NEW p \in Passwords,
         wikiuser' = [wikiuser EXCEPT ![u] = NewUser(hash_password(p))],
         draws' = draws + 1,
         UNCHANGED <<now, revokedtoken, tokens, logged_out, codes, resets>>
  PROVE  AccountInv'
<1> DEFINE row == NewUser(hash_password(p))
<1>1. /\ draws \in Nat
      /\ row \in UserRow /\ row # None
      /\ row.password.salt = draws + 1
      /\ row.totp_secret = None /\ row.totp_last_step = None /\ ~row.totp_enabled
  BY Fresh DEF NewUser
<1>2. /\ wikiuser'[u] = row
      /\ \A v \in Users \ {u} : wikiuser'[v] = wikiuser[v]
  BY DEF AccountInv, TypeOK
<1>3. Registered' = Registered \cup {u}
  BY <1>1, <1>2 DEF Registered
<1>4. TypeOK'
  BY <1>1 DEF AccountInv, TypeOK
<1>5. FinitelyMany' /\ RevokedUntilExpired' /\ CodesWorkOnce' /\ ResetLinksWorkOnce'
  BY DEF AccountInv, FinitelyMany, RevokedUntilExpired, CodesWorkOnce, ResetLinksWorkOnce
<1>6. TokensHaveUsers'
  BY <1>3 DEF AccountInv, TokensHaveUsers
<1>7. \A v \in Registered : v \in Users \ {u} /\ wikiuser'[v] = wikiuser[v]
  BY <1>2 DEF Registered
<1>8. VersionsKnowPasswords' /\ ResetsBehindPassword'
  BY <1>3, <1>7 DEF AccountInv, VersionsKnowPasswords, TokensHaveUsers, ResetsBehindPassword
<1>9. \A c \in codes : c.secret # None /\ c.secret \in Nat
  BY AccountAssumptions DEF AccountInv, TypeOK, Draw
<1>10. DrawnBefore'
  <2>1. \A v \in Registered' :
          /\ wikiuser'[v].password.salt <= draws'
          /\ wikiuser'[v].totp_secret # None => wikiuser'[v].totp_secret <= draws'
    <3>1. \A v \in Registered : wikiuser[v].password.salt \in Nat /\ wikiuser[v].totp_secret \in Nat \cup {None}
      BY RowTypes DEF UserRow, Hash, Draw
    <3>2. QED
      BY <1>1, <1>2, <1>3, <1>7, <3>1 DEF AccountInv, DrawnBefore
  <2>2. \A c \in codes' : c.secret <= draws'
    BY <1>1, <1>9 DEF AccountInv, DrawnBefore
  <2>3. \A v, w \in Registered' :
          v # w /\ wikiuser'[v].totp_secret # None => wikiuser'[v].totp_secret # wikiuser'[w].totp_secret
    BY <1>1, <1>2, <1>3, <1>7 DEF AccountInv, DrawnBefore
  <2>4. QED
    BY <2>1, <2>2, <2>3 DEF DrawnBefore
<1>11. CodesBehindLastStep'
  BY <1>1, <1>2, <1>3, <1>7, <1>9 DEF AccountInv, CodesBehindLastStep
<1>12. LastStepOfFactor'
  BY <1>1, <1>2, <1>3, <1>7 DEF AccountInv, LastStepOfFactor
<1>13. TokensDrawnBefore'
  BY TokensStillDrawn
<1>14. QED
  BY <1>4, <1>5, <1>6, <1>8, <1>10, <1>11, <1>12, <1>13 DEF AccountInv

(* A reset remembers the password that its link was signed with.           *)
ResetOf(u) == [turn |-> Cardinality(resets) + 1, sub |-> u, password |-> wikiuser[u].password]

LEMMA ReplacedRow ==
  ASSUME NEW r \in UserRow, NEW hash \in Hash
  PROVE  /\ PasswordReplaced(r, hash) \in UserRow
         /\ PasswordReplaced(r, hash).password = hash
         /\ PasswordReplaced(r, hash).session_version = r.session_version + 1
         /\ PasswordReplaced(r, hash).totp_secret = r.totp_secret
         /\ PasswordReplaced(r, hash).totp_enabled = r.totp_enabled
         /\ PasswordReplaced(r, hash).totp_last_step = r.totp_last_step
<1>1. r.session_version + 1 \in Nat
  BY DEF UserRow
<1>2. PasswordReplaced(r, hash) \in UserRow
  BY <1>1 DEF PasswordReplaced, UserRow
<1>3. /\ PasswordReplaced(r, hash).password = hash
      /\ PasswordReplaced(r, hash).session_version = r.session_version + 1
      /\ PasswordReplaced(r, hash).totp_secret = r.totp_secret
      /\ PasswordReplaced(r, hash).totp_last_step = r.totp_last_step
  BY DEF PasswordReplaced, UserRow
<1>4. PasswordReplaced(r, hash).totp_enabled = r.totp_enabled
  BY Zenon DEF PasswordReplaced, UserRow
<1>5. QED
  BY <1>2, <1>3, <1>4

LEMMA PasswordChanged ==
  ASSUME AccountInv, NEW u \in Registered, NEW p \in Passwords,
         wikiuser' = [wikiuser EXCEPT ![u] = PasswordReplaced(@, hash_password(p))],
         draws' = draws + 1,
         resets' = resets \/ resets' = resets \cup {ResetOf(u)},
         UNCHANGED <<now, revokedtoken, tokens, logged_out, codes>>
  PROVE  AccountInv'
<1> DEFINE row == PasswordReplaced(wikiuser[u], hash_password(p))
<1>1. /\ u \in Users
      /\ wikiuser[u] \in UserRow
      /\ draws \in Nat
      /\ hash_password(p) \in Hash /\ hash_password(p).salt = draws + 1
  BY RowTypes, Fresh
<1>2. /\ row \in UserRow
      /\ row.password = hash_password(p)
      /\ row.session_version = wikiuser[u].session_version + 1
      /\ row.totp_secret = wikiuser[u].totp_secret
      /\ row.totp_enabled = wikiuser[u].totp_enabled
      /\ row.totp_last_step = wikiuser[u].totp_last_step
  BY <1>1, ReplacedRow
<1>3. row # None
  BY <1>2, AccountAssumptions
<1>4. /\ wikiuser'[u] = row
      /\ \A v \in Users \ {u} : wikiuser'[v] = wikiuser[v]
  BY <1>1 DEF AccountInv, TypeOK
<1>5. Registered' = Registered
  BY <1>1, <1>3, <1>4 DEF Registered
<1>6. ResetOf(u) \in [turn : Nat, sub : Users, password : Hash]
  BY <1>1, FS_CardinalityType, RowTypes DEF ResetOf, AccountInv, FinitelyMany
<1>7. TypeOK'
  BY <1>1, <1>2, <1>6 DEF AccountInv, TypeOK
<1>8. FinitelyMany' /\ RevokedUntilExpired' /\ CodesWorkOnce' /\ TokensHaveUsers'
  BY <1>5, FS_AddElement DEF AccountInv, FinitelyMany, RevokedUntilExpired, CodesWorkOnce, TokensHaveUsers
<1>9. \A v \in Registered :
        /\ v \in Users
        /\ wikiuser[v].password.salt \in Nat /\ wikiuser[v].session_version \in Nat
        /\ wikiuser[v].totp_secret \in Nat \cup {None}
        /\ wikiuser[v].password.salt <= draws
  BY RowTypes DEF UserRow, Hash, Draw, AccountInv, DrawnBefore
<1>10. VersionsKnowPasswords'
  <2>1. SUFFICES ASSUME NEW t \in tokens, t.kind # "reset"
                 PROVE  /\ t.session_version <= wikiuser'[t.sub].session_version
                        /\ t.session_version = wikiuser'[t.sub].session_version
                             <=> t.password = wikiuser'[t.sub].password
    BY DEF VersionsKnowPasswords
  <2>2. /\ t.sub \in Registered /\ t.session_version \in Nat
        /\ t.session_version <= wikiuser[t.sub].session_version
        /\ t.session_version = wikiuser[t.sub].session_version
             <=> t.password = wikiuser[t.sub].password
    BY <2>1 DEF AccountInv, TypeOK, Token, TokensHaveUsers, VersionsKnowPasswords
  <2>3. CASE t.sub = u
    <3>1. t.password.salt \in Nat /\ t.password.salt <= draws
      BY DEF AccountInv, TypeOK, Token, Hash, Draw, TokensDrawnBefore
    <3>2. t.password # wikiuser'[u].password
      BY <1>1, <1>2, <1>4, <3>1
    <3>3. QED
      BY <2>2, <2>3, <3>2, <1>2, <1>4, <1>9
  <2>4. CASE t.sub # u
    BY <2>2, <2>4, <1>4, <1>9
  <2>5. QED
    BY <2>3, <2>4
<1>11. DrawnBefore'
  <2>1. \A v \in Registered' :
          /\ wikiuser'[v].password.salt <= draws'
          /\ wikiuser'[v].totp_secret # None => wikiuser'[v].totp_secret <= draws'
    BY <1>1, <1>2, <1>4, <1>5, <1>9 DEF AccountInv, DrawnBefore
  <2>2. \A c \in codes' : c.secret <= draws'
    BY <1>1 DEF AccountInv, DrawnBefore, TypeOK, Draw
  <2>3. \A v \in Registered : wikiuser'[v].totp_secret = wikiuser[v].totp_secret
    BY <1>2, <1>4, <1>9
  <2>4. QED
    BY <2>1, <2>2, <2>3, <1>5 DEF AccountInv, DrawnBefore
<1>12. CodesBehindLastStep' /\ LastStepOfFactor'
  <2>1. \A v \in Registered :
          /\ wikiuser'[v].totp_secret = wikiuser[v].totp_secret
          /\ wikiuser'[v].totp_last_step = wikiuser[v].totp_last_step
          /\ wikiuser'[v].totp_enabled = wikiuser[v].totp_enabled
    BY <1>2, <1>4, <1>9
  <2>2. QED
    BY <2>1, <1>5 DEF AccountInv, CodesBehindLastStep, LastStepOfFactor
<1>13. \A r \in resets : r.sub \in Registered /\ r.password.salt < wikiuser[r.sub].password.salt /\ r.password.salt \in Nat
  BY DEF AccountInv, TypeOK, Hash, Draw, ResetsBehindPassword
<1>14. ResetOf(u).sub = u /\ ResetOf(u).password = wikiuser[u].password
  BY DEF ResetOf
<1>15. ResetsBehindPassword'
  <2>1. \A r \in resets \cup {ResetOf(u)} :
          r.sub \in Registered /\ r.password.salt \in Nat /\ r.password.salt <= wikiuser[r.sub].password.salt
             /\ (r \in resets => r.password.salt < wikiuser[r.sub].password.salt)
    BY <1>9, <1>13, <1>14
  <2>2. \A v \in Registered : wikiuser[v].password.salt <= wikiuser'[v].password.salt
    BY <1>1, <1>2, <1>4, <1>9
  <2>3. wikiuser[u].password.salt < wikiuser'[u].password.salt
    BY <1>1, <1>2, <1>4, <1>9
  <2>4. \A v \in Registered : wikiuser'[v].password.salt \in Nat
    BY <1>1, <1>2, <1>4, <1>9
  <2>5. \A r \in resets \cup {ResetOf(u)} : r.password.salt < wikiuser'[r.sub].password.salt
    BY <2>1, <2>2, <2>3, <2>4, <1>9, <1>14
  <2>6. QED
    BY <2>1, <2>5, <1>5 DEF ResetsBehindPassword
<1>16. ResetLinksWorkOnce'
  <2>1. \A r \in resets : r.sub = u => r.password # ResetOf(u).password
    BY <1>9, <1>13, <1>14
  <2>2. QED
    BY <2>1, <1>14 DEF AccountInv, ResetLinksWorkOnce
<1>17. TokensDrawnBefore'
  BY TokensStillDrawn
<1>18. QED
  BY <1>7, <1>8, <1>10, <1>11, <1>12, <1>15, <1>16, <1>17 DEF AccountInv

---------------------------------------------------------------------------
(* Tokens, codes and rows of the second factor. *)

LEMMA TokenIssued ==
  ASSUME AccountInv, NEW kind \in {"access", "mfa", "reset"}, NEW u \in Registered,
         NEW life \in Nat, Issue(kind, u, life)
  PROVE  /\ tokens' \subseteq Token
         /\ tokens \subseteq tokens'
         /\ IsFiniteSet(tokens')
         /\ \A t \in tokens' \ tokens :
              /\ t.sub = u /\ t.kind = kind
              /\ t.password = wikiuser[u].password
              /\ kind # "reset" => t.session_version = wikiuser[u].session_version
<1> DEFINE token ==
      [kind |-> kind, jti |-> IF kind = "access" THEN Cardinality(tokens) + 1 ELSE 0, sub |-> u,
       exp |-> now + life,
       session_version |-> IF kind = "reset" THEN 0 ELSE wikiuser[u].session_version,
       password |-> wikiuser[u].password]
<1>1. tokens' = tokens \cup {token}
  BY DEF Issue
<1>2. Cardinality(tokens) \in Nat
  BY FS_CardinalityType DEF AccountInv, FinitelyMany
<1>3. wikiuser[u].session_version \in Nat /\ now + life \in Nat
  BY RowTypes DEF UserRow, AccountInv, TypeOK
<1>4. token \in Token
  BY <1>2, <1>3, RowTypes DEF Token
<1>5. /\ token.sub = u /\ token.kind = kind
      /\ token.password = wikiuser[u].password
      /\ kind # "reset" => token.session_version = wikiuser[u].session_version
  OBVIOUS
<1>6. IsFiniteSet(tokens')
  BY <1>1, FS_AddElement DEF AccountInv, FinitelyMany
<1> HIDE DEF token
<1>7. QED
  BY <1>1, <1>4, <1>5, <1>6 DEF AccountInv, TypeOK

LEMMA IssuedTokenKeepsAccounts ==
  ASSUME AccountInv, NEW kind \in {"access", "mfa", "reset"}, NEW u \in Registered,
         NEW life \in Nat, Issue(kind, u, life),
         UNCHANGED <<now, wikiuser, revokedtoken, draws, logged_out, codes, resets>>
  PROVE  AccountInv'
<1>1. /\ tokens' \subseteq Token
      /\ tokens \subseteq tokens'
      /\ IsFiniteSet(tokens')
      /\ \A t \in tokens' \ tokens :
           /\ t.sub = u /\ t.password = wikiuser[u].password
           /\ t.kind # "reset" => t.session_version = wikiuser[u].session_version
  BY TokenIssued
<1>2. Registered' = Registered
  BY DEF Registered
<1>3. TypeOK'
  BY <1>1 DEF AccountInv, TypeOK
<1>4. TokensHaveUsers'
  BY <1>1, <1>2 DEF AccountInv, TokensHaveUsers
<1>5. VersionsKnowPasswords'
  <2>1. wikiuser[u].session_version \in Nat
    BY RowTypes DEF UserRow
  <2>2. QED
    BY <1>1, <2>1 DEF AccountInv, VersionsKnowPasswords
<1>6. FinitelyMany' /\ RevokedUntilExpired' /\ CodesWorkOnce' /\ ResetLinksWorkOnce'
  BY <1>1 DEF AccountInv, FinitelyMany, RevokedUntilExpired, CodesWorkOnce, ResetLinksWorkOnce
<1>7. DrawnBefore' /\ CodesBehindLastStep' /\ LastStepOfFactor' /\ ResetsBehindPassword'
  BY <1>2 DEF AccountInv, DrawnBefore, CodesBehindLastStep, LastStepOfFactor, ResetsBehindPassword
<1>8. TokensDrawnBefore'
  BY <1>1, TokensStillDrawn
<1>9. QED
  BY <1>3, <1>4, <1>5, <1>6, <1>7, <1>8 DEF AccountInv

(* A code that is accepted has not been used with this secret.             *)
LEMMA CodeAccepted ==
  ASSUME AccountInv, NEW u \in Registered, NEW step \in FreshSteps(wikiuser[u]),
         wikiuser[u].totp_secret # None, Authenticate(u, step)
  PROVE  /\ codes' \subseteq [turn : Nat, secret : Draw, step : Nat]
         /\ IsFiniteSet(codes')
         /\ \A c \in codes' : c \in codes \/ (c.secret = wikiuser[u].totp_secret /\ c.step = step)
         /\ \A c \in codes : c.secret = wikiuser[u].totp_secret => c.step < step
         /\ CodesWorkOnce'
<1> DEFINE code ==
      [turn |-> Cardinality(codes) + 1, secret |-> wikiuser[u].totp_secret, step |-> step]
<1>1. codes' = codes \cup {code}
  BY DEF Authenticate
<1>2. step \in Nat
  BY DEF FreshSteps, Window, AccountInv, TypeOK
<1>3. wikiuser[u].totp_secret \in Draw /\ wikiuser[u].totp_last_step \in Nat \cup {None}
  BY RowTypes DEF UserRow
<1>4. Cardinality(codes) \in Nat
  BY FS_CardinalityType DEF AccountInv, FinitelyMany
<1>5. code \in [turn : Nat, secret : Draw, step : Nat]
  BY <1>2, <1>3, <1>4
<1>6. \A c \in codes : c.step \in Nat
  BY DEF AccountInv, TypeOK
<1>7. wikiuser[u].totp_last_step # None => wikiuser[u].totp_last_step < step
  BY <1>2, <1>3 DEF FreshSteps
<1>8. \A c \in codes : c.secret = wikiuser[u].totp_secret => c.step < step
  BY <1>2, <1>3, <1>6, <1>7 DEF AccountInv, CodesBehindLastStep
<1>9. code.secret = wikiuser[u].totp_secret /\ code.step = step
  OBVIOUS
<1>10. CodesWorkOnce'
  <2>1. \A c \in codes : ~(c.secret = code.secret /\ c.step = code.step)
    BY <1>2, <1>8, <1>9
  <2>2. QED
    BY <2>1, <1>1 DEF AccountInv, CodesWorkOnce
<1>11. QED
  BY <1>1, <1>5, <1>8, <1>9, <1>10, FS_AddElement DEF AccountInv, TypeOK, FinitelyMany

(* What a change of the second factor alone leaves in place.               *)
LEMMA FactorChanged ==
  ASSUME AccountInv, NEW u \in Registered, NEW row \in UserRow,
         row.password = wikiuser[u].password,
         row.session_version = wikiuser[u].session_version,
         wikiuser' = [wikiuser EXCEPT ![u] = row]
  PROVE  /\ wikiuser' \in [Users -> UserRow \cup {None}]
         /\ Registered' = Registered
         /\ wikiuser'[u] = row
         /\ \A v \in Registered \ {u} : wikiuser'[v] = wikiuser[v]
         /\ \A v \in Registered :
              /\ wikiuser'[v].password = wikiuser[v].password
              /\ wikiuser'[v].session_version = wikiuser[v].session_version
<1>1. u \in Users /\ row # None
  BY RowTypes, AccountAssumptions
<1>2. /\ wikiuser' \in [Users -> UserRow \cup {None}]
      /\ wikiuser'[u] = row
      /\ \A v \in Users \ {u} : wikiuser'[v] = wikiuser[v]
  BY <1>1 DEF AccountInv, TypeOK
<1>3. QED
  BY <1>1, <1>2 DEF Registered

LEMMA PartsOfFactorChange ==
  ASSUME AccountInv, NEW u \in Registered, NEW row \in UserRow,
         row.password = wikiuser[u].password,
         row.session_version = wikiuser[u].session_version,
         wikiuser' = [wikiuser EXCEPT ![u] = row],
         UNCHANGED <<now, revokedtoken, logged_out, resets>>
  PROVE  /\ RevokedUntilExpired' /\ ResetsBehindPassword' /\ ResetLinksWorkOnce'
         /\ UNCHANGED tokens => TokensHaveUsers' /\ VersionsKnowPasswords'
<1>1. /\ Registered' = Registered
      /\ \A v \in Registered :
           /\ wikiuser'[v].password = wikiuser[v].password
           /\ wikiuser'[v].session_version = wikiuser[v].session_version
  BY FactorChanged
<1>2. RevokedUntilExpired' /\ ResetsBehindPassword' /\ ResetLinksWorkOnce'
  BY <1>1 DEF AccountInv, RevokedUntilExpired, ResetsBehindPassword, ResetLinksWorkOnce
<1>3. UNCHANGED tokens => TokensHaveUsers' /\ VersionsKnowPasswords'
  BY <1>1 DEF AccountInv, TokensHaveUsers, VersionsKnowPasswords
<1>4. QED
  BY <1>2, <1>3

---------------------------------------------------------------------------
(* The handlers. *)

LEMMA VerifyKeepsAccounts ==
  ASSUME AccountInv, NEW mfa_token \in tokens, NEW step \in Window, login_verify_2fa(mfa_token, step)
  PROVE  AccountInv'
<1> DEFINE u == mfa_token.sub
           row == [wikiuser[u] EXCEPT !.totp_last_step = step]
<1>1. u \in Registered /\ wikiuser[u] \in UserRow
  BY RowTypes DEF AccountInv, TokensHaveUsers
<1>2. step \in Nat
  BY DEF Window, AccountInv, TypeOK
<1>3. /\ wikiuser' = [wikiuser EXCEPT ![u] = row]
      /\ wikiuser[u].totp_enabled /\ wikiuser[u].totp_secret # None
      /\ step \in FreshSteps(wikiuser[u])
      /\ Issue("access", u, AccessLife) /\ Authenticate(u, step)
      /\ UNCHANGED <<now, revokedtoken, draws, logged_out, resets>>
  BY DEF login_verify_2fa
<1>4. /\ row \in UserRow
      /\ row.password = wikiuser[u].password
      /\ row.session_version = wikiuser[u].session_version
      /\ row.totp_secret = wikiuser[u].totp_secret
      /\ row.totp_last_step = step
  BY <1>1, <1>2 DEF UserRow
<1>5. row.totp_enabled
  BY <1>1, <1>3, Zenon DEF UserRow
<1> HIDE DEF row
<1>6. /\ wikiuser' \in [Users -> UserRow \cup {None}]
      /\ Registered' = Registered
      /\ wikiuser'[u] = row
      /\ \A v \in Registered \ {u} : wikiuser'[v] = wikiuser[v]
      /\ \A v \in Registered :
           /\ wikiuser'[v].password = wikiuser[v].password
           /\ wikiuser'[v].session_version = wikiuser[v].session_version
  BY <1>1, <1>3, <1>4, FactorChanged
<1>7. RevokedUntilExpired' /\ ResetsBehindPassword' /\ ResetLinksWorkOnce'
  BY <1>1, <1>3, <1>4, PartsOfFactorChange
<1>8. /\ tokens' \subseteq Token
      /\ tokens \subseteq tokens'
      /\ IsFiniteSet(tokens')
      /\ \A t \in tokens' \ tokens :
           /\ t.sub = u /\ t.kind = "access"
           /\ t.password = wikiuser[u].password
           /\ t.session_version = wikiuser[u].session_version
  BY <1>1, <1>3, TokenIssued, AccountAssumptions
<1>9. /\ codes' \subseteq [turn : Nat, secret : Draw, step : Nat]
      /\ IsFiniteSet(codes')
      /\ \A c \in codes' : c \in codes \/ (c.secret = wikiuser[u].totp_secret /\ c.step = step)
      /\ \A c \in codes : c.secret = wikiuser[u].totp_secret => c.step < step
      /\ CodesWorkOnce'
  BY <1>1, <1>3, CodeAccepted
<1>10. TypeOK'
  BY <1>3, <1>6, <1>8, <1>9 DEF AccountInv, TypeOK
<1>11. FinitelyMany'
  BY <1>3, <1>8, <1>9 DEF AccountInv, FinitelyMany
<1>12. TokensHaveUsers'
  BY <1>1, <1>6, <1>8 DEF AccountInv, TokensHaveUsers
<1>13. VersionsKnowPasswords'
  <2>1. wikiuser[u].session_version \in Nat
    BY <1>1 DEF UserRow
  <2>2. QED
    BY <1>1, <1>6, <1>8, <2>1 DEF AccountInv, VersionsKnowPasswords, TokensHaveUsers
<1>14. \A v \in Registered : wikiuser'[v].totp_secret = wikiuser[v].totp_secret
  BY <1>4, <1>6
<1>15. DrawnBefore'
  <2>1. wikiuser[u].totp_secret <= draws
    BY <1>1, <1>3 DEF AccountInv, DrawnBefore
  <2>2. QED
    BY <1>3, <1>6, <1>9, <1>14, <2>1 DEF AccountInv, DrawnBefore
<1>16. CodesBehindLastStep'
  <2>1. SUFFICES ASSUME NEW v \in Registered, NEW c \in codes', c.secret = wikiuser[v].totp_secret
                 PROVE  wikiuser'[v].totp_last_step # None /\ c.step <= wikiuser'[v].totp_last_step
    BY <1>6, <1>14 DEF CodesBehindLastStep
  <2>2. CASE v = u
    <3>1. c.step \in Nat /\ c.step <= step
      BY <1>2, <1>9, <2>1, <2>2
    <3>2. QED
      BY <1>2, <1>4, <1>6, <2>2, <3>1, AccountAssumptions
  <2>3. CASE v # u
    <3>1. c \in codes
      BY <1>1, <1>3, <1>9, <2>1, <2>3 DEF AccountInv, DrawnBefore
    <3>2. QED
      BY <1>6, <2>1, <2>3, <3>1 DEF AccountInv, CodesBehindLastStep
  <2>4. QED
    BY <2>2, <2>3
<1>17. LastStepOfFactor'
  BY <1>5, <1>6 DEF AccountInv, LastStepOfFactor
<1>18. TokensDrawnBefore'
  BY <1>1, <1>3, <1>8, TokensStillDrawn
<1>19. QED
  BY <1>7, <1>9, <1>10, <1>11, <1>12, <1>13, <1>15, <1>16, <1>17, <1>18 DEF AccountInv

LEMMA DisableKeepsAccounts ==
  ASSUME AccountInv, NEW token \in tokens, NEW step \in Window, disable_2fa(token, step)
  PROVE  AccountInv'
<1> DEFINE u == token.sub
           row == WithoutFactor(wikiuser[u])
<1>1. u \in Registered /\ wikiuser[u] \in UserRow
  BY RowTypes DEF AccountInv, TokensHaveUsers
<1>2. /\ wikiuser' = [wikiuser EXCEPT ![u] = row]
      /\ wikiuser[u].totp_secret # None
      /\ step \in FreshSteps(wikiuser[u])
      /\ Authenticate(u, step)
      /\ UNCHANGED <<now, revokedtoken, tokens, draws, logged_out, resets>>
  BY DEF disable_2fa
<1>3. /\ row \in UserRow
      /\ row.password = wikiuser[u].password
      /\ row.session_version = wikiuser[u].session_version
      /\ row.totp_secret = None
      /\ row.totp_last_step = None
  BY <1>1 DEF UserRow, WithoutFactor
<1> HIDE DEF row
<1>4. /\ wikiuser' \in [Users -> UserRow \cup {None}]
      /\ Registered' = Registered
      /\ wikiuser'[u] = row
      /\ \A v \in Registered \ {u} : wikiuser'[v] = wikiuser[v]
      /\ \A v \in Registered : wikiuser'[v].password = wikiuser[v].password
  BY <1>1, <1>2, <1>3, FactorChanged
<1>5. /\ RevokedUntilExpired' /\ ResetsBehindPassword' /\ ResetLinksWorkOnce'
      /\ TokensHaveUsers' /\ VersionsKnowPasswords'
  BY <1>1, <1>2, <1>3, PartsOfFactorChange
<1>6. /\ codes' \subseteq [turn : Nat, secret : Draw, step : Nat]
      /\ IsFiniteSet(codes')
      /\ \A c \in codes' : c \in codes \/ (c.secret = wikiuser[u].totp_secret /\ c.step = step)
      /\ CodesWorkOnce'
  BY <1>1, <1>2, CodeAccepted
<1>7. TypeOK' /\ FinitelyMany'
  BY <1>2, <1>4, <1>6 DEF AccountInv, TypeOK, FinitelyMany
<1>8. \A c \in codes' : c.secret # None
  BY <1>6, AccountAssumptions DEF Draw
<1>9. DrawnBefore'
  <2>1. wikiuser[u].totp_secret <= draws
    BY <1>1, <1>2 DEF AccountInv, DrawnBefore
  <2>2. QED
    BY <1>2, <1>3, <1>4, <1>6, <2>1 DEF AccountInv, DrawnBefore
<1>10. CodesBehindLastStep'
  <2>1. SUFFICES ASSUME NEW v \in Registered, NEW c \in codes', c.secret = wikiuser'[v].totp_secret
                 PROVE  wikiuser'[v].totp_last_step # None /\ c.step <= wikiuser'[v].totp_last_step
    BY <1>4 DEF CodesBehindLastStep
  <2>2. v # u
    BY <1>3, <1>4, <1>8, <2>1
  <2>3. c \in codes /\ wikiuser'[v] = wikiuser[v]
    BY <1>1, <1>2, <1>4, <1>6, <2>1, <2>2 DEF AccountInv, DrawnBefore
  <2>4. QED
    BY <2>1, <2>3 DEF AccountInv, CodesBehindLastStep
<1>11. LastStepOfFactor'
  BY <1>3, <1>4 DEF AccountInv, LastStepOfFactor
<1>12. TokensDrawnBefore'
  BY <1>2, TokensStillDrawn
<1>13. QED
  BY <1>5, <1>6, <1>7, <1>9, <1>10, <1>11, <1>12 DEF AccountInv

LEMMA SetupKeepsAccounts ==
  ASSUME AccountInv, NEW token \in tokens, setup_2fa(token)
  PROVE  AccountInv'
<1> DEFINE u == token.sub
           row == [wikiuser[u] EXCEPT !.totp_secret = draws + 1]
<1>1. u \in Registered /\ wikiuser[u] \in UserRow
  BY RowTypes DEF AccountInv, TokensHaveUsers
<1>2. /\ wikiuser' = [wikiuser EXCEPT ![u] = row]
      /\ ~wikiuser[u].totp_enabled
      /\ draws' = draws + 1
      /\ UNCHANGED <<now, revokedtoken, tokens, logged_out, codes, resets>>
  BY DEF setup_2fa
<1>3. draws \in Nat /\ draws + 1 \in Draw
  BY DEF AccountInv, TypeOK, Draw
<1>4. /\ row \in UserRow
      /\ row.password = wikiuser[u].password
      /\ row.session_version = wikiuser[u].session_version
      /\ row.totp_secret = draws + 1
      /\ row.totp_last_step = wikiuser[u].totp_last_step
  BY <1>1, <1>3 DEF UserRow
<1> HIDE DEF row
<1>5. /\ wikiuser' \in [Users -> UserRow \cup {None}]
      /\ Registered' = Registered
      /\ wikiuser'[u] = row
      /\ \A v \in Registered \ {u} : wikiuser'[v] = wikiuser[v]
      /\ \A v \in Registered : wikiuser'[v].password = wikiuser[v].password
  BY <1>1, <1>2, <1>4, FactorChanged
<1>6. /\ RevokedUntilExpired' /\ ResetsBehindPassword' /\ ResetLinksWorkOnce'
      /\ TokensHaveUsers' /\ VersionsKnowPasswords'
  BY <1>1, <1>2, <1>4, PartsOfFactorChange
<1>7. TypeOK' /\ FinitelyMany' /\ CodesWorkOnce'
  BY <1>2, <1>3, <1>5 DEF AccountInv, TypeOK, FinitelyMany, CodesWorkOnce
<1>8. \A c \in codes : c.secret \in Nat /\ c.secret <= draws
  BY DEF AccountInv, TypeOK, Draw, DrawnBefore
<1>9. \A v \in Registered :
        /\ wikiuser[v].password.salt \in Nat /\ wikiuser[v].password.salt <= draws
        /\ wikiuser[v].totp_secret \in Nat \cup {None}
        /\ wikiuser[v].totp_secret # None => wikiuser[v].totp_secret <= draws
  BY RowTypes DEF UserRow, Hash, Draw, AccountInv, DrawnBefore
<1>10. DrawnBefore'
  <2>1. \A v \in Registered :
          /\ wikiuser'[v].password.salt <= draws'
          /\ wikiuser'[v].totp_secret # None => wikiuser'[v].totp_secret <= draws'
    BY <1>2, <1>3, <1>4, <1>5, <1>9
  <2>2. \A c \in codes' : c.secret <= draws'
    BY <1>2, <1>3, <1>8
  <2>3. \A v, w \in Registered :
          v # w /\ wikiuser'[v].totp_secret # None => wikiuser'[v].totp_secret # wikiuser'[w].totp_secret
    BY <1>1, <1>3, <1>4, <1>5, <1>9 DEF AccountInv, DrawnBefore
  <2>4. QED
    BY <2>1, <2>2, <2>3, <1>5 DEF DrawnBefore
<1>11. CodesBehindLastStep'
  <2>1. SUFFICES ASSUME NEW v \in Registered, NEW c \in codes, c.secret = wikiuser'[v].totp_secret
                 PROVE  wikiuser'[v].totp_last_step # None /\ c.step <= wikiuser'[v].totp_last_step
    BY <1>2, <1>5 DEF CodesBehindLastStep
  <2>2. v # u
    BY <1>3, <1>4, <1>5, <1>8, <2>1
  <2>3. QED
    BY <1>5, <2>1, <2>2 DEF AccountInv, CodesBehindLastStep
<1>12. LastStepOfFactor'
  BY <1>1, <1>2, <1>4, <1>5 DEF AccountInv, LastStepOfFactor
<1>13. TokensDrawnBefore'
  BY <1>2, TokensStillDrawn
<1>14. QED
  BY <1>6, <1>7, <1>10, <1>11, <1>12, <1>13 DEF AccountInv

LEMMA EnableKeepsAccounts ==
  ASSUME AccountInv, NEW token \in tokens, NEW step \in Window, enable_2fa(token, step)
  PROVE  AccountInv'
<1> DEFINE u == token.sub
           row == [wikiuser[u] EXCEPT !.totp_enabled = TRUE]
<1>1. u \in Registered /\ wikiuser[u] \in UserRow
  BY RowTypes DEF AccountInv, TokensHaveUsers
<1>2. /\ wikiuser' = [wikiuser EXCEPT ![u] = row]
      /\ UNCHANGED <<now, revokedtoken, tokens, draws, logged_out, codes, resets>>
  BY DEF enable_2fa
<1>3. /\ row \in UserRow
      /\ row.password = wikiuser[u].password
      /\ row.session_version = wikiuser[u].session_version
      /\ row.totp_secret = wikiuser[u].totp_secret
      /\ row.totp_last_step = wikiuser[u].totp_last_step
  BY <1>1 DEF UserRow
<1>4. row.totp_enabled
  BY <1>1, Zenon DEF UserRow
<1> HIDE DEF row
<1>5. /\ wikiuser' \in [Users -> UserRow \cup {None}]
      /\ Registered' = Registered
      /\ wikiuser'[u] = row
      /\ \A v \in Registered \ {u} : wikiuser'[v] = wikiuser[v]
      /\ \A v \in Registered : wikiuser'[v].password = wikiuser[v].password
  BY <1>1, <1>2, <1>3, FactorChanged
<1>6. /\ RevokedUntilExpired' /\ ResetsBehindPassword' /\ ResetLinksWorkOnce'
      /\ TokensHaveUsers' /\ VersionsKnowPasswords'
  BY <1>1, <1>2, <1>3, PartsOfFactorChange
<1>7. TypeOK' /\ FinitelyMany' /\ CodesWorkOnce'
  BY <1>2, <1>5 DEF AccountInv, TypeOK, FinitelyMany, CodesWorkOnce
<1>8. \A v \in Registered :
        /\ wikiuser'[v].totp_secret = wikiuser[v].totp_secret
        /\ wikiuser'[v].totp_last_step = wikiuser[v].totp_last_step
  BY <1>3, <1>5
<1>9. DrawnBefore' /\ CodesBehindLastStep'
  BY <1>2, <1>5, <1>8 DEF AccountInv, DrawnBefore, CodesBehindLastStep
<1>10. LastStepOfFactor'
  BY <1>4, <1>5 DEF AccountInv, LastStepOfFactor
<1>11. TokensDrawnBefore'
  BY <1>2, TokensStillDrawn
<1>12. QED
  BY <1>6, <1>7, <1>9, <1>10, <1>11 DEF AccountInv

LEMMA LogoutOrTickKeepsAccounts ==
  ASSUME AccountInv, Tick \/ \E token \in tokens : logout(token)
  PROVE  AccountInv'
<1>1. now \in Nat /\ \A t \in tokens : t.exp \in Nat
  BY DEF AccountInv, TypeOK, Token
<1>2. UNCHANGED <<wikiuser, tokens, draws, codes, resets>>
  BY DEF Tick, logout
<1>3. TypeOK' /\ RevokedUntilExpired'
  <2>1. CASE Tick
    BY <1>1, <2>1 DEF Tick, AccountInv, TypeOK, RevokedUntilExpired
  <2>2. CASE \E token \in tokens : logout(token)
    <3>1. PICK token \in tokens : logout(token)
      BY <2>2
    <3>2. /\ revokedtoken' = KeptRevocations \cup {token}
          /\ logged_out' = logged_out \cup {token}
          /\ now' = now
      BY <3>1 DEF logout
    <3>3. TypeOK'
      BY <1>2, <3>2 DEF AccountInv, TypeOK, KeptRevocations
    <3>4. \A t \in logged_out : t \in KeptRevocations \/ t.exp < now
      BY <1>1 DEF AccountInv, TypeOK, RevokedUntilExpired, KeptRevocations
    <3>5. QED
      BY <3>2, <3>3, <3>4 DEF RevokedUntilExpired, AccountInv, KeptRevocations
  <2>3. QED
    BY <2>1, <2>2
<1>4. Registered' = Registered
  BY <1>2 DEF Registered
<1>5. QED
  BY <1>2, <1>3, <1>4
  DEF AccountInv, FinitelyMany, TokensHaveUsers, DrawnBefore, VersionsKnowPasswords,
      TokensDrawnBefore, CodesBehindLastStep, LastStepOfFactor, ResetsBehindPassword, CodesWorkOnce, ResetLinksWorkOnce

LEMMA NewPasswordKeepsAccounts ==
  ASSUME AccountInv, NEW p \in Passwords,
         \/ \E u \in Users : register_user(u, p)
         \/ \E token \in tokens : confirm_password_reset(token, p)
         \/ bootstrap_admin(p)
  PROVE  AccountInv'
<1>1. CASE \E u \in Users : register_user(u, p)
  BY <1>1, UserCreated DEF register_user
<1>2. CASE \E token \in tokens : confirm_password_reset(token, p)
  <2>1. PICK token \in tokens : confirm_password_reset(token, p)
    BY <1>2
  <2>2. token.sub \in Registered /\ token.password = wikiuser[token.sub].password
    BY <2>1 DEF confirm_password_reset, ResetTokens, AccountInv, TokensHaveUsers
  <2>3. /\ wikiuser' = [wikiuser EXCEPT ![token.sub] = PasswordReplaced(@, hash_password(p))]
        /\ draws' = draws + 1
        /\ resets' = resets \cup {ResetOf(token.sub)}
        /\ UNCHANGED <<now, revokedtoken, tokens, logged_out, codes>>
    BY <2>1, <2>2 DEF confirm_password_reset, ResetOf
  <2>4. QED
    BY <2>2, <2>3, PasswordChanged
<1>3. CASE bootstrap_admin(p)
  <2>1. /\ draws' = draws + 1
        /\ resets' = resets
        /\ UNCHANGED <<now, revokedtoken, tokens, logged_out, codes, resets>>
    BY <1>3 DEF bootstrap_admin
  <2>2. CASE wikiuser[Administrator] = None
    <3>1. /\ wikiuser' = [wikiuser EXCEPT ![Administrator] = NewUser(hash_password(p))]
          /\ Administrator \in Users \ Registered
      BY <1>3, <2>2, AccountAssumptions DEF bootstrap_admin, Registered
    <3>2. QED
      BY <2>1, <3>1, UserCreated
  <2>3. CASE wikiuser[Administrator] # None
    <3>1. /\ wikiuser' = [wikiuser EXCEPT ![Administrator] = PasswordReplaced(@, hash_password(p))]
          /\ Administrator \in Registered
      BY <1>3, <2>3, AccountAssumptions DEF bootstrap_admin, Registered
    <3>2. QED
      BY <2>1, <3>1, PasswordChanged
  <2>4. QED
    BY <2>2, <2>3
<1>4. QED
  BY <1>1, <1>2, <1>3

LEMMA StepKeepsAccounts == AccountInv /\ [Next]_vars => AccountInv'
<1> SUFFICES ASSUME AccountInv, [Next]_vars PROVE AccountInv'
  OBVIOUS
<1>1. CASE \E p \in Passwords :
             \/ \E u \in Users : register_user(u, p)
             \/ \E token \in tokens : confirm_password_reset(token, p)
             \/ bootstrap_admin(p)
  BY <1>1, NewPasswordKeepsAccounts
<1>2. CASE \E p \in Passwords, u \in Users : login_user(u, p)
  <2>1. PICK p \in Passwords, u \in Users : login_user(u, p)
    BY <1>2
  <2>2. QED
    BY <2>1, IssuedTokenKeepsAccounts, AccountAssumptions DEF login_user
<1>3. CASE \E u \in Users : request_password_reset(u)
  BY <1>3, IssuedTokenKeepsAccounts, AccountAssumptions DEF request_password_reset
<1>4. CASE \E token \in tokens : logout(token)
  BY <1>4, LogoutOrTickKeepsAccounts
<1>5. CASE \E token \in tokens : setup_2fa(token)
  BY <1>5, SetupKeepsAccounts
<1>6. CASE \E token \in tokens, step \in Window :
             login_verify_2fa(token, step) \/ enable_2fa(token, step) \/ disable_2fa(token, step)
  BY <1>6, VerifyKeepsAccounts, EnableKeepsAccounts, DisableKeepsAccounts
<1>7. CASE Tick
  BY <1>7, LogoutOrTickKeepsAccounts
<1>8. CASE UNCHANGED vars
  <2>1. Registered' = Registered
    BY <1>8 DEF vars, Registered
  <2>2. QED
    BY <1>8, <2>1
    DEF vars, AccountInv, TypeOK, FinitelyMany, TokensHaveUsers, DrawnBefore, VersionsKnowPasswords,
        TokensDrawnBefore, RevokedUntilExpired, CodesBehindLastStep, LastStepOfFactor,
        ResetsBehindPassword, CodesWorkOnce, ResetLinksWorkOnce
<1>9. QED
  BY <1>1, <1>2, <1>3, <1>4, <1>5, <1>6, <1>7, <1>8 DEF Next

LEMMA AccountsInvariant == Spec => []AccountInv
<1>1. QED
  BY AccountStart, StepKeepsAccounts, PTL DEF Spec

---------------------------------------------------------------------------

(* The tables, the tokens and what is remembered of them keep their types. *)
THEOREM AccountTypeCorrect == Spec => []TypeOK
<1>1. AccountInv => TypeOK
  BY DEF AccountInv
<1>2. QED
  BY <1>1, AccountsInvariant, PTL

(* Every change of a password moves the session version on, and nothing    *)
(* else does, so that a version fits exactly while the password does.      *)
THEOREM NoSessionOutlivesItsPassword == Spec => []SessionsKnowThePassword
<1>1. AccountInv => SessionsKnowThePassword
  BY DEF AccountInv, VersionsKnowPasswords, RevokedUntilExpired, SessionsKnowThePassword, Sessions,
         Live, SameVersion
<1>2. QED
  BY <1>1, AccountsInvariant, PTL

(* A revocation is forgotten only when the token has expired.              *)
THEOREM NoLogoutIsForgotten == Spec => []LoggedOutStaysOut
<1>1. AccountInv => LoggedOutStaysOut
  <2>1. SUFFICES ASSUME AccountInv, NEW t \in logged_out PROVE t \notin Sessions
    BY DEF LoggedOutStaysOut
  <2>2. t.exp \in Nat /\ now \in Nat /\ (t \in revokedtoken \/ t.exp < now)
    BY <2>1 DEF AccountInv, TypeOK, Token, RevokedUntilExpired
  <2>3. QED
    BY <2>2 DEF Sessions, Live
<1>2. QED
  BY <1>1, AccountsInvariant, PTL

(* The last step runs ahead of all codes of the present secret, and other  *)
(* secrets never return.                                                   *)
THEOREM NoCodeWorksTwice == Spec => []CodesWorkOnce
<1>1. AccountInv => CodesWorkOnce
  BY DEF AccountInv
<1>2. QED
  BY <1>1, AccountsInvariant, PTL

(* The salt, not the password, is what makes a used link worthless.        *)
THEOREM OneResetPerPassword == Spec => []ResetLinksWorkOnce
<1>1. AccountInv => ResetLinksWorkOnce
  BY DEF AccountInv
<1>2. QED
  BY <1>1, AccountsInvariant, PTL

LEMMA AccessTokensOfTheFactor ==
  ASSUME AccountInv, Next,
         NEW t \in tokens' \ tokens, t.kind = "access", wikiuser[t.sub].totp_enabled
  PROVE  /\ \E c \in codes' \ codes : c.secret = wikiuser[t.sub].totp_secret
         /\ \E m \in Live("mfa") : m.sub = t.sub /\ m.password = wikiuser[t.sub].password
<1>1. ASSUME NEW p \in Passwords, NEW u \in Users, login_user(u, p)
      PROVE  FALSE
  <2>1. /\ u \in Registered
        /\ IF wikiuser[u].totp_enabled THEN Issue("mfa", u, MfaLife) ELSE Issue("access", u, AccessLife)
    BY <1>1 DEF login_user
  <2>2. CASE wikiuser[u].totp_enabled
    <3>1. t.kind = "mfa"
      BY <2>1, <2>2, TokenIssued, AccountAssumptions
    <3>2. QED
      BY <3>1
  <2>3. CASE ~wikiuser[u].totp_enabled
    <3>1. t.sub = u
      BY <2>1, <2>3, TokenIssued, AccountAssumptions
    <3>2. QED
      BY <2>3, <3>1
  <2>4. QED
    BY <2>2, <2>3
<1>2. ASSUME NEW u \in Users, request_password_reset(u)
      PROVE  FALSE
  <2>1. u \in Registered /\ Issue("reset", u, ResetLife) /\ ResetLife \in Nat
    BY <1>2, AccountAssumptions DEF request_password_reset
  <2>2. t.kind = "reset"
    BY <2>1, TokenIssued
  <2>3. QED
    BY <2>2
<1>3. PICK m \in tokens, step \in Window : login_verify_2fa(m, step)
  BY <1>1, <1>2
  DEF Next, register_user, confirm_password_reset, bootstrap_admin, logout, setup_2fa, enable_2fa,
      disable_2fa, Tick
<1>4. /\ m \in MfaTokens /\ m.sub \in Registered
      /\ wikiuser[m.sub].totp_secret # None
      /\ step \in FreshSteps(wikiuser[m.sub])
      /\ Issue("access", m.sub, AccessLife) /\ Authenticate(m.sub, step)
  BY <1>3 DEF login_verify_2fa, AccountInv, TokensHaveUsers
<1>5. t.sub = m.sub
  BY <1>4, TokenIssued, AccountAssumptions
<1>6. m \in Live("mfa") /\ m.password = wikiuser[m.sub].password
  BY <1>4 DEF MfaTokens, Live, SameVersion, AccountInv, VersionsKnowPasswords
<1>7. \E c \in codes' \ codes : c.secret = wikiuser[m.sub].totp_secret
  <2>1. \A c \in codes : c.secret = wikiuser[m.sub].totp_secret => c.step < step
    BY <1>4, CodeAccepted
  <2>2. step \in Nat
    BY DEF Window, AccountInv, TypeOK
  <2>3. PICK c \in codes' : c.secret = wikiuser[m.sub].totp_secret /\ c.step = step
    <3> DEFINE code ==
          [turn |-> Cardinality(codes) + 1, secret |-> wikiuser[m.sub].totp_secret, step |-> step]
    <3>1. code \in codes'
      BY <1>4 DEF Authenticate
    <3>2. code.secret = wikiuser[m.sub].totp_secret /\ code.step = step
      OBVIOUS
    <3> HIDE DEF code
    <3>3. QED
      BY <3>1, <3>2
  <2>4. c \notin codes
    BY <2>1, <2>2, <2>3
  <2>5. QED
    BY <2>3, <2>4
<1>8. QED
  BY <1>5, <1>6, <1>7

(* With the second factor enabled there is no way to a session around it,  *)
(* nor with a login that an older password began.                          *)
THEOREM NoWayAroundTheFactor == Spec => SecondFactorGuardsSessions
<1>1. AccountInv /\ [Next]_vars =>
        [\A t \in tokens' \ tokens :
           t.kind = "access" /\ wikiuser[t.sub].totp_enabled =>
             /\ \E c \in codes' \ codes : c.secret = wikiuser[t.sub].totp_secret
             /\ \E m \in Live("mfa") : m.sub = t.sub /\ m.password = wikiuser[t.sub].password]_vars
  BY AccessTokensOfTheFactor
<1>2. QED
  BY <1>1, AccountsInvariant, PTL DEF Spec, SecondFactorGuardsSessions

LEMMA EnablingSetsNoStep ==
  ASSUME AccountInv, Next,
         NEW u \in Registered, ~wikiuser[u].totp_enabled, wikiuser'[u].totp_enabled
  PROVE  wikiuser'[u].totp_last_step = None
<1>1. /\ u \in Users /\ wikiuser[u] \in UserRow
      /\ wikiuser[u].totp_last_step = None
  BY RowTypes DEF AccountInv, LastStepOfFactor
<1>2. wikiuser'[u] # wikiuser[u]
  BY Zenon
<1>3. ASSUME NEW w \in Users, NEW row, wikiuser' = [wikiuser EXCEPT ![w] = row]
      PROVE  w = u /\ wikiuser'[u] = row
  BY <1>1, <1>2, <1>3 DEF AccountInv, TypeOK
<1>4. \A t \in tokens : t.sub \in Users
  BY DEF AccountInv, TypeOK, Token
<1>5. ASSUME NEW p \in Passwords, wikiuser' = [wikiuser EXCEPT ![u] = PasswordReplaced(@, hash_password(p))]
      PROVE  FALSE
  <2>1. wikiuser'[u] = PasswordReplaced(wikiuser[u], hash_password(p))
    BY <1>1, <1>5 DEF AccountInv, TypeOK
  <2>2. wikiuser'[u].totp_enabled = wikiuser[u].totp_enabled
    BY <1>1, <2>1, Fresh, ReplacedRow
  <2>3. QED
    BY <2>2, Zenon
<1>6. ASSUME NEW p \in Passwords, NEW w \in Users, register_user(w, p)
      PROVE  FALSE
  <2>1. w \notin Registered /\ w = u
    BY <1>6, <1>3 DEF register_user
  <2>2. QED
    BY <2>1
<1>7. ASSUME NEW p \in Passwords, NEW token \in tokens, confirm_password_reset(token, p)
      PROVE  FALSE
  <2>1. /\ token.sub \in Users
        /\ wikiuser' = [wikiuser EXCEPT ![token.sub] = PasswordReplaced(@, hash_password(p))]
    BY <1>4, <1>7 DEF confirm_password_reset
  <2>2. token.sub = u
    BY <1>3, <2>1
  <2>3. QED
    BY <1>5, <2>1, <2>2
<1>8. ASSUME NEW p \in Passwords, bootstrap_admin(p)
      PROVE  FALSE
  <2>1. Administrator = u
    BY <1>3, <1>8, AccountAssumptions DEF bootstrap_admin
  <2>2. wikiuser[u] # None
    BY DEF Registered
  <2>3. wikiuser' = [wikiuser EXCEPT ![u] = PasswordReplaced(@, hash_password(p))]
    BY <1>8, <2>1, <2>2 DEF bootstrap_admin
  <2>4. QED
    BY <1>5, <2>3
<1>9. ASSUME NEW token \in tokens, NEW step \in Window, login_verify_2fa(token, step)
      PROVE  FALSE
  <2>1. /\ wikiuser' = [wikiuser EXCEPT ![token.sub] = [wikiuser[token.sub] EXCEPT !.totp_last_step = step]]
        /\ wikiuser[token.sub].totp_enabled
    BY <1>9 DEF login_verify_2fa
  <2>2. token.sub = u
    BY <1>3, <1>4, <2>1
  <2>3. QED
    BY <2>1, <2>2
<1>10. ASSUME NEW token \in tokens, setup_2fa(token)
       PROVE  FALSE
  <2>1. wikiuser' = [wikiuser EXCEPT ![token.sub] = [wikiuser[token.sub] EXCEPT !.totp_secret = draws + 1]]
    BY <1>10 DEF setup_2fa
  <2>2. token.sub = u /\ wikiuser'[u] = [wikiuser[token.sub] EXCEPT !.totp_secret = draws + 1]
    BY <1>3, <1>4, <2>1
  <2>3. wikiuser'[u] = [wikiuser[u] EXCEPT !.totp_secret = draws + 1]
    BY <2>2
  <2>4. wikiuser'[u].totp_enabled = wikiuser[u].totp_enabled
    BY <1>1, <2>3, Zenon DEF UserRow
  <2>5. QED
    BY <2>4, Zenon
<1>11. ASSUME NEW token \in tokens, NEW step \in Window, disable_2fa(token, step)
       PROVE  FALSE
  <2>1. wikiuser' = [wikiuser EXCEPT ![token.sub] = WithoutFactor(wikiuser[token.sub])]
    BY <1>11 DEF disable_2fa
  <2>2. wikiuser'[u] = WithoutFactor(wikiuser[u])
    BY <1>3, <1>4, <2>1
  <2>3. wikiuser'[u].totp_enabled = FALSE
    BY <1>1, <2>2 DEF UserRow, WithoutFactor
  <2>4. QED
    BY <2>3
<1>12. PICK token \in tokens, step \in Window : enable_2fa(token, step)
  <2>1. wikiuser' # wikiuser
    BY <1>2
  <2>2. QED
    BY <1>6, <1>7, <1>8, <1>9, <1>10, <1>11, <2>1
    DEF Next, login_user, request_password_reset, logout, Tick
<1>13. wikiuser' = [wikiuser EXCEPT ![token.sub] = [wikiuser[token.sub] EXCEPT !.totp_enabled = TRUE]]
  BY <1>12 DEF enable_2fa
<1>14. token.sub = u /\ wikiuser'[u] = [wikiuser[token.sub] EXCEPT !.totp_enabled = TRUE]
  BY <1>3, <1>4, <1>13
<1>15. QED
  BY <1>1, <1>14 DEF UserRow

(* Enabling is a proof of possession that no later login pays for.         *)
THEOREM EnablingUsesUpNoCode == Spec => EnablingLeavesTheCode
<1>1. ASSUME AccountInv, Next,
             NEW u \in Registered, ~wikiuser[u].totp_enabled, wikiuser'[u].totp_enabled
      PROVE  FreshSteps(wikiuser'[u]) = Window
  BY <1>1, EnablingSetsNoStep DEF FreshSteps
<1>2. AccountInv /\ [Next]_vars =>
        [\A u \in Registered :
           ~wikiuser[u].totp_enabled /\ wikiuser'[u].totp_enabled =>
             FreshSteps(wikiuser'[u]) = Window]_vars
  BY <1>1
<1>3. QED
  BY <1>2, AccountsInvariant, PTL DEF Spec, EnablingLeavesTheCode

===========================================================================
