----------------------------- MODULE Accounts -----------------------------
(***************************************************************************)
(* Accounts and sessions: the handlers of routers/users.py that log in and *)
(* out, set up the second factor and reset passwords, the tokens of        *)
(* core/login_utils.py they issue and accept, and the bootstrap of the     *)
(* administrator at each start (core/maintenance.py).                      *)
(*                                                                         *)
(* Tokens are signed, so a request can only present one that was issued;   *)
(* clients lose none.  A hash is the password with the salt that was drawn *)
(* for it; salts and secrets are drawn at random and never twice.  Time is *)
(* counted in TOTP intervals.                                              *)
(***************************************************************************)
EXTENDS Integers, FiniteSets

CONSTANTS
  Users,           \* user names
  Administrator,   \* ADMIN_USERNAME
  Reserved,        \* names that cannot be registered
  Passwords,       \* passwords that meet the policy
  None,            \* no row, no secret, no step
  AccessLife,      \* JWT_TOKEN_EXPIRE_MINUTES, in intervals
  MfaLife,         \* MFA_TOKEN_EXPIRE_MINUTES
  ResetLife,       \* PASSWORD_RESET_EXPIRE_MINUTES
  MaxDraws,        \* bound: salts and secrets ever drawn
  MaxTokens,       \* bound: tokens ever issued
  MaxTime          \* bound: the clock stops here

VARIABLES
  now,           \* the interval of the present moment
  wikiuser,      \* user name -> row, or None
  revokedtoken,  \* the tokens whose hashes the table holds
  tokens,        \* every token issued
  draws,         \* number of salts and secrets drawn
  logged_out,    \* every token ever logged out
  codes,         \* the codes that authenticated somebody, each with its turn
  resets         \* the confirmed resets, each with its turn

vars == <<now, wikiuser, revokedtoken, tokens, draws, logged_out, codes, resets>>

---------------------------------------------------------------------------

Draw == Nat \ {0}

Hash == [plain : Passwords, salt : Draw]

UserRow ==
  [password : Hash, session_version : Nat, totp_secret : Draw \cup {None},
   totp_enabled : BOOLEAN, totp_last_step : Nat \cup {None}]

(* A reset token carries no version; its signing key contains the hash.  In *)
(* the other tokens the field password is the hash at the time of issue,    *)
(* which the program does not keep.                                         *)
Token ==
  [kind : {"access", "mfa", "reset"}, jti : Nat, sub : Users, exp : Nat,
   session_version : Nat, password : Hash]

ASSUME AccountAssumptions ==
  /\ Administrator \in Users
  /\ Reserved \subseteq Users
  /\ {AccessLife, MfaLife, ResetLife, MaxDraws, MaxTokens, MaxTime} \subseteq Nat
  /\ None \notin Nat \cup UserRow

TypeOK ==
  /\ now \in Nat \ {0}
  /\ wikiuser \in [Users -> UserRow \cup {None}]
  /\ tokens \subseteq Token
  /\ revokedtoken \subseteq tokens
  /\ draws \in Nat
  /\ logged_out \subseteq tokens
  /\ codes \subseteq [turn : Nat, secret : Draw, step : Nat]
  /\ resets \subseteq [turn : Nat, sub : Users, password : Hash]

---------------------------------------------------------------------------
(* Users. *)

Registered == {u \in Users : wikiuser[u] # None}

\* Mutant: the password is stored as it was typed.
PasswordAsTyped(plain) == plain

\* Mutant: the salt is always the same.
HashWithOneSalt(plain) == [plain |-> plain, salt |-> 1]

(* bcrypt draws a salt for each hash.  Whoever hashes also draws. *)
hash_password(plain) == [plain |-> plain, salt |-> draws + 1]

NewUser(hash) ==
  [password |-> hash, session_version |-> 0, totp_secret |-> None,
   totp_enabled |-> FALSE, totp_last_step |-> None]

\* Mutant: the sessions of the old password go on.
PasswordReplacedOnly(row, hash) == [row EXCEPT !.password = hash]

(* Another password ends all sessions of the old one. *)
PasswordReplaced(row, hash) ==
  [row EXCEPT !.password = hash, !.session_version = @ + 1]

---------------------------------------------------------------------------
(* Tokens that the server accepts. *)

Live(kind) == {t \in tokens : t.kind = kind /\ t.exp > now}

SameVersion(t) == t.session_version = wikiuser[t.sub].session_version

(* get_current_user *)
Sessions == {t \in Live("access") \ revokedtoken : SameVersion(t)}

\* Mutant: the version in the token is not compared.
MfaTokensOfAnyVersion == Live("mfa")

MfaTokens == {t \in Live("mfa") : SameVersion(t)}

ResetTokens == {t \in Live("reset") : t.password = wikiuser[t.sub].password}

Issue(kind, u, life) ==
  tokens' = tokens \cup
    {[kind |-> kind, jti |-> IF kind = "access" THEN Cardinality(tokens) + 1 ELSE 0, sub |-> u,
      exp |-> now + life,
      session_version |-> IF kind = "reset" THEN 0 ELSE wikiuser[u].session_version,
      password |-> wikiuser[u].password]}

(* The steps whose codes the server accepts, for clocks one interval off. *)
Window == (now - 1)..(now + 1)

\* Mutant: the step used last is accepted again.
NotBeforeLastStep(row) ==
  {step \in Window : row.totp_last_step = None \/ step >= row.totp_last_step}

(* Those that no code of a later or the same step has used up. *)
FreshSteps(row) ==
  {step \in Window : row.totp_last_step = None \/ step > row.totp_last_step}

(* A code of the user's secret authenticates the user. *)
Authenticate(u, step) ==
  codes' = codes \cup
    {[turn |-> Cardinality(codes) + 1, secret |-> wikiuser[u].totp_secret, step |-> step]}

---------------------------------------------------------------------------
(* Handlers. *)

Init ==
  /\ now = 1
  /\ draws = 0
  /\ wikiuser = [u \in Users |-> None]
  /\ revokedtoken = {}
  /\ tokens = {}
  /\ logged_out = {}
  /\ codes = {}
  /\ resets = {}

(* Whether the address is proven is open here. *)
register_user(u, password) ==
  /\ u \notin Registered \cup Reserved
  /\ draws < MaxDraws
  /\ wikiuser' = [wikiuser EXCEPT ![u] = NewUser(hash_password(password))]
  /\ draws' = draws + 1
  /\ UNCHANGED <<now, revokedtoken, tokens, logged_out, codes, resets>>

login_user(u, password) ==
  /\ u \in Registered
  /\ wikiuser[u].password.plain = password
  /\ Cardinality(tokens) < MaxTokens
  /\ IF wikiuser[u].totp_enabled THEN Issue("mfa", u, MfaLife) ELSE Issue("access", u, AccessLife)
  /\ UNCHANGED <<now, wikiuser, revokedtoken, draws, logged_out, codes, resets>>

login_verify_2fa(mfa_token, step) ==
  LET u == mfa_token.sub
  IN  /\ mfa_token \in MfaTokens
      /\ wikiuser[u].totp_enabled /\ wikiuser[u].totp_secret # None
      /\ step \in FreshSteps(wikiuser[u])
      /\ Cardinality(tokens) < MaxTokens
      /\ wikiuser' = [wikiuser EXCEPT ![u].totp_last_step = step]
      /\ Issue("access", u, AccessLife)
      /\ Authenticate(u, step)
      /\ UNCHANGED <<now, revokedtoken, draws, logged_out, resets>>

\* Mutant: forgets the tokens that are still valid.
ExpiredRevocations == {t \in revokedtoken : t.exp < now}

(* The rows of tokens that have expired are deleted. *)
KeptRevocations == {t \in revokedtoken : t.exp >= now}

logout(token) ==
  /\ token \in Sessions
  /\ revokedtoken' = KeptRevocations \cup {token}
  /\ logged_out' = logged_out \cup {token}
  /\ UNCHANGED <<now, wikiuser, tokens, draws, codes, resets>>

(* Only users with a verified address get a link; who has one is open here. *)
request_password_reset(u) ==
  /\ u \in Registered
  /\ Cardinality(tokens) < MaxTokens
  /\ Issue("reset", u, ResetLife)
  /\ UNCHANGED <<now, wikiuser, revokedtoken, draws, logged_out, codes, resets>>

confirm_password_reset(token, password) ==
  LET u == token.sub
  IN  /\ token \in ResetTokens
      /\ draws < MaxDraws
      /\ wikiuser' = [wikiuser EXCEPT ![u] = PasswordReplaced(@, hash_password(password))]
      /\ draws' = draws + 1
      /\ resets' = resets \cup
           {[turn |-> Cardinality(resets) + 1, sub |-> u, password |-> token.password]}
      /\ UNCHANGED <<now, revokedtoken, tokens, logged_out, codes>>

(* A new secret replaces one that was not enabled. *)
setup_2fa(token) ==
  LET u == token.sub
  IN  /\ token \in Sessions
      /\ ~wikiuser[u].totp_enabled
      /\ draws < MaxDraws
      /\ wikiuser' = [wikiuser EXCEPT ![u].totp_secret = draws + 1]
      /\ draws' = draws + 1
      /\ UNCHANGED <<now, revokedtoken, tokens, logged_out, codes, resets>>

(* The code proves that the secret arrived and is not used up by it. *)
enable_2fa(token, step) ==
  LET u == token.sub
  IN  /\ token \in Sessions
      /\ ~wikiuser[u].totp_enabled
      /\ wikiuser[u].totp_secret # None
      /\ step \in Window
      /\ wikiuser' = [wikiuser EXCEPT ![u].totp_enabled = TRUE]
      /\ UNCHANGED <<now, revokedtoken, tokens, draws, logged_out, codes, resets>>

\* Mutant: the last step stays.
FactorSwitchedOff(row) == [row EXCEPT !.totp_enabled = FALSE, !.totp_secret = None]

WithoutFactor(row) ==
  [row EXCEPT !.totp_enabled = FALSE, !.totp_secret = None, !.totp_last_step = None]

disable_2fa(token, step) ==
  LET u == token.sub
  IN  /\ token \in Sessions
      /\ wikiuser[u].totp_enabled /\ wikiuser[u].totp_secret # None
      /\ step \in FreshSteps(wikiuser[u])
      /\ wikiuser' = [wikiuser EXCEPT ![u] = WithoutFactor(@)]
      /\ Authenticate(u, step)
      /\ UNCHANGED <<now, revokedtoken, tokens, draws, logged_out, resets>>

(* A start, with the ADMIN_PASSWORD of that time: the administrator is made *)
(* with it, or gets it unless it is the present one.                        *)
bootstrap_admin(password) ==
  LET row  == wikiuser[Administrator]
      hash == hash_password(password)
  IN  /\ password \notin {r.password.plain : r \in {row} \ {None}}
      /\ draws < MaxDraws
      /\ wikiuser' = [wikiuser EXCEPT ![Administrator] =
                         IF row = None THEN NewUser(hash) ELSE PasswordReplaced(row, hash)]
      /\ draws' = draws + 1
      /\ UNCHANGED <<now, revokedtoken, tokens, logged_out, codes, resets>>

Tick ==
  /\ now < MaxTime
  /\ now' = now + 1
  /\ UNCHANGED <<wikiuser, revokedtoken, tokens, draws, logged_out, codes, resets>>

Next ==
  \/ \E password \in Passwords :
       \/ \E u \in Users : register_user(u, password) \/ login_user(u, password)
       \/ \E token \in tokens : confirm_password_reset(token, password)
       \/ bootstrap_admin(password)
  \/ \E u \in Users : request_password_reset(u)
  \/ \E token \in tokens :
       \/ logout(token) \/ setup_2fa(token)
       \/ \E step \in Window :
            login_verify_2fa(token, step) \/ enable_2fa(token, step) \/ disable_2fa(token, step)
  \/ Tick

Spec == Init /\ [][Next]_vars

---------------------------------------------------------------------------

(* A session lasts as long as the password that its user had when it was   *)
(* opened: neither a reset nor a bootstrap with another password leaves    *)
(* one open (AUTHORIZATION_AUDIT.md:15), and nothing else ends one before  *)
(* it expires or is logged out.                                            *)
SessionsKnowThePassword ==
  \A t \in Live("access") \ logged_out :
    t \in Sessions <=> t.password = wikiuser[t.sub].password

(* A token that was logged out is never accepted again, although the table *)
(* of revoked tokens forgets those that have expired.                      *)
LoggedOutStaysOut == logged_out \cap Sessions = {}

(* A code authenticates once: at login or when the factor is disabled, the *)
(* same step of the same secret never counts twice (wiki_user.py:70).      *)
CodesWorkOnce ==
  \A a, b \in codes : a.secret = b.secret /\ a.step = b.step => a = b

(* Of all links that were mailed for one password, only one ever works:    *)
(* the hash that signed them is gone with the first, even if the user sets *)
(* the same password again (users.py:491).                                 *)
ResetLinksWorkOnce ==
  \A a, b \in resets : a.sub = b.sub /\ a.password = b.password => a = b

(* While the second factor is enabled, a session is opened only with a     *)
(* code, and for a user whose present password was given a short time ago. *)
SecondFactorGuardsSessions ==
  [][\A t \in tokens' \ tokens :
       t.kind = "access" /\ wikiuser[t.sub].totp_enabled =>
         /\ \E c \in codes' \ codes : c.secret = wikiuser[t.sub].totp_secret
         /\ \E m \in Live("mfa") : m.sub = t.sub /\ m.password = wikiuser[t.sub].password]_vars

(* Enabling the factor uses up no code: the one just shown also logs in    *)
(* (users.py:575), also after the factor was disabled and set up again.    *)
EnablingLeavesTheCode ==
  [][\A u \in Registered :
       ~wikiuser[u].totp_enabled /\ wikiuser'[u].totp_enabled =>
         FreshSteps(wikiuser'[u]) = Window]_vars

===========================================================================
