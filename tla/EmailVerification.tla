------------------------- MODULE EmailVerification -------------------------
(***************************************************************************)
(* E-mail addresses of accounts: registration after the address was        *)
(* verified, changes of the address, and the mailed links that prove it    *)
(* (routers/users.py, core/maintenance.py, core/login_utils.py).           *)
(*                                                                         *)
(* Links are signed, so that only those that were sent can be presented,   *)
(* by whoever reads the mail; a mail that is lost or whose process ended   *)
(* before the dispatch is a link that nobody opens.  The two handlers that *)
(* answer 409 when the unique index of the column email refuses their      *)
(* commit are modelled in two steps, the checks and the commit, between    *)
(* which requests about other accounts may run.  The one process that the  *)
(* README allows runs a handler in one go; the model allows more.          *)
(***************************************************************************)
EXTENDS Naturals, FiniteSets

CONSTANTS
  Users,     \* user names
  Legacy,    \* accounts at the start, none with an address
  Emails,    \* addresses
  Secrets,   \* registration secrets that browsers draw
  None,      \* no address, no secret
  LinkLife,  \* EMAIL_VERIFY_EXPIRE_MINUTES
  MaxTime,   \* bound: the clock stops here
  MaxLinks,  \* bound: links ever sent
  MaxChecked \* bound: requests between their checks and their commit

VARIABLES
  now,                \* the present moment
  wikiuser,           \* the user names that have a row
  email,              \* their column email
  email_verified,     \* those whose column email_verified is set
  emailverification,  \* the rows of EmailVerification, none is ever deleted
  verified,           \* those whose column verified is set
  checked,            \* requests that passed their checks and have not committed
  registered,         \* the requests that created an account
  confirmed,          \* links presented since their account took its address
  spent               \* links that were verified before that

vars == <<now, wikiuser, email, email_verified, emailverification, verified, checked,
          registered, confirmed, spent>>

ASSUME VerificationAssumptions ==
  /\ Legacy \subseteq Users
  /\ {LinkLife, MaxTime, MaxLinks, MaxChecked} \subseteq Nat
  /\ None \notin Emails \cup Secrets

---------------------------------------------------------------------------

(* The row holds the token, whose claims these are; the row expires no    *)
(* earlier than the token.                                                *)
Link ==
  [jti : Nat, sub : Users, email : Emails, registration_hash : Secrets \cup {None}, exp : Nat]

Request ==
  [to : {"register", "set_email"}, username : Users, email : Emails, secret : Secrets \cup {None}]

TypeOK ==
  /\ now \in Nat
  /\ wikiuser \subseteq Users
  /\ email \in [Users -> Emails \cup {None}]
  /\ email_verified \subseteq wikiuser
  /\ emailverification \subseteq Link /\ IsFiniteSet(emailverification)
  /\ verified \subseteq emailverification
  /\ checked \subseteq Request /\ IsFiniteSet(checked)
  /\ registered \subseteq Request
  /\ confirmed \subseteq emailverification
  /\ spent \subseteq verified

Init ==
  /\ now = 0
  /\ wikiuser = Legacy
  /\ email = [u \in Users |-> None]
  /\ email_verified = {}
  /\ emailverification = {} /\ verified = {}
  /\ checked = {} /\ registered = {} /\ confirmed = {} /\ spent = {}

---------------------------------------------------------------------------
(* Links. *)

Live(link) == now < link.exp

Names(link, u, e) == link.sub = u /\ link.email = e

create_email_verification_token(u, e, secret) ==
  [jti |-> Cardinality(emailverification), sub |-> u, email |-> e,
   registration_hash |-> secret, exp |-> now + LinkLife]

send_email_verification(u, e, secret) ==
  /\ Cardinality(emailverification) < MaxLinks
  /\ emailverification' = emailverification \cup {create_email_verification_token(u, e, secret)}

(* send_email_verification returns False: no row and no mail. *)
Throttled == UNCHANGED emailverification

\* Mutant: whoever knows the name and the address may go on.
MatchesAnySecret(link, secret) == secret # None

matches_registration_secret(link, secret) ==
  secret # None /\ Live(link) /\ link.registration_hash = secret

(* What register_verify_status answers and register_user asks for when the *)
(* request carries no token.                                               *)
VerifiedFor(u, e, secret) ==
  \E link \in verified : Names(link, u, e) /\ matches_registration_secret(link, secret)

Tokens(u, e) == {link \in emailverification : Names(link, u, e) /\ Live(link)}

Taken(e) == \E u \in wikiuser : email[u] = e

---------------------------------------------------------------------------
(* Registration. *)

request_register_email_verification(u, e, secret) ==
  /\ u \notin wikiuser /\ ~Taken(e)
  /\ send_email_verification(u, e, secret)
  /\ UNCHANGED <<now, wikiuser, email, email_verified, verified, checked, registered, confirmed,
                 spent>>

Check(request) ==
  /\ Cardinality(checked) < MaxChecked
  /\ checked' = checked \cup {request}
  /\ UNCHANGED <<now, wikiuser, email, email_verified, emailverification, verified, registered, spent>>

register_with_token(u, e) ==
  /\ u \notin wikiuser /\ ~Taken(e)
  /\ \E link \in Tokens(u, e) : confirmed' = confirmed \cup {link}
  /\ Check([to |-> "register", username |-> u, email |-> e, secret |-> None])

register_with_secret(u, e, secret) ==
  /\ u \notin wikiuser /\ ~Taken(e)
  /\ VerifiedFor(u, e, secret)
  /\ Check([to |-> "register", username |-> u, email |-> e, secret |-> secret])
  /\ UNCHANGED confirmed

(* The primary key and the unique index of the table. *)
MayCommit(r) ==
  /\ r.to = "register" => r.username \notin wikiuser
  /\ \A u \in wikiuser \ {r.username} : email[u] # r.email

commit_registration(r) ==
  /\ r \in checked /\ r.to = "register"
  /\ checked' = checked \ {r}
  /\ MayCommit(r)
  /\ wikiuser' = wikiuser \cup {r.username}
  /\ email' = [email EXCEPT ![r.username] = r.email]
  /\ email_verified' = email_verified \cup {r.username}
  /\ registered' = registered \cup {r}
  /\ UNCHANGED <<now, emailverification, verified, confirmed, spent>>

---------------------------------------------------------------------------
(* Accounts. *)

(* No two requests about one account overlap. *)
Idle(u) == \A r \in checked : r.to = "set_email" => r.username # u

set_email(u, e) ==
  /\ u \in wikiuser /\ Idle(u)
  /\ \A v \in wikiuser \ {u} : email[v] # e
  /\ Check([to |-> "set_email", username |-> u, email |-> e, secret |-> None])
  /\ UNCHANGED confirmed

\* Mutant: the flag of the old address stays.
StillVerified(r) == email_verified

Unverified(r) == email_verified \ {r.username}

(* The answer is the same when the throttle refuses the link. *)
commit_email(r) ==
  /\ r \in checked /\ r.to = "set_email"
  /\ checked' = checked \ {r}
  /\ MayCommit(r)
  /\ email' = [email EXCEPT ![r.username] = r.email]
  /\ email_verified' = Unverified(r)
  /\ confirmed' = {link \in confirmed : link.sub # r.username}
  /\ spent' = spent \cup {link \in verified : link.sub = r.username}
  /\ send_email_verification(r.username, r.email, None) \/ Throttled
  /\ UNCHANGED <<now, wikiuser, verified, registered>>

(* IntegrityError, answered with 409, or the end of the process. *)
rollback(r) ==
  /\ r \in checked
  /\ checked' = checked \ {r}
  /\ UNCHANGED <<now, wikiuser, email, email_verified, emailverification, verified, registered,
                 confirmed, spent>>

request_email_verification(u) ==
  /\ u \in wikiuser \ email_verified /\ Idle(u)
  /\ email[u] # None
  /\ send_email_verification(u, email[u], None)
  /\ UNCHANGED <<now, wikiuser, email, email_verified, verified, checked, registered, confirmed,
                 spent>>

\* Mutant: the flag is set for a name that nobody has registered yet.
VerifiedName(link) == {link.sub}

\* Mutant: "already verified" looks at the account's links, not at the link.
VerifiedByFirstLink(link) ==
  {u \in {link.sub} \cap wikiuser : \A other \in verified : other.sub # u}

VerifiedAccount(link) == {link.sub} \cap wikiuser

(* A link whose row is verified is answered with "already verified", and   *)
(* nothing is written.                                                     *)
verify_email(link) ==
  /\ Live(link) /\ Idle(link.sub)
  /\ link.sub \in wikiuser => email[link.sub] = link.email
  /\ \/ /\ link \in verified
        /\ UNCHANGED <<verified, email_verified>>
     \/ /\ link \notin verified
        /\ verified' = verified \cup {link}
        /\ email_verified' = email_verified \cup VerifiedAccount(link)
  /\ confirmed' = confirmed \cup {link}
  /\ UNCHANGED <<now, wikiuser, email, emailverification, checked, registered, spent>>

Tick ==
  /\ now < MaxTime
  /\ now' = now + 1
  /\ UNCHANGED <<wikiuser, email, email_verified, emailverification, verified, checked,
                 registered, confirmed, spent>>

Next ==
  \/ \E u \in Users, e \in Emails :
       \/ \E secret \in Secrets \cup {None} : request_register_email_verification(u, e, secret)
       \/ register_with_token(u, e)
       \/ \E secret \in Secrets : register_with_secret(u, e, secret)
       \/ set_email(u, e)
  \/ \E u \in Users : request_email_verification(u)
  \/ \E r \in checked : commit_registration(r) \/ commit_email(r) \/ rollback(r)
  \/ \E link \in emailverification : verify_email(link)
  \/ Tick

Spec == Init /\ [][Next]_vars

---------------------------------------------------------------------------

(* An account is verified only if a link sent to its address for its name  *)
(* was presented after the account took the address, however addresses     *)
(* change hands and return while older links are still about               *)
(* (users.py:763, 656).                                                    *)
VerifiedAddressesWereProven ==
  \A u \in email_verified : \E link \in confirmed : Names(link, u, email[u])

(* Conversely, a link presented since the account took its present address *)
(* makes the account verified, and no request that comes in between takes  *)
(* the flag away; the exceptions are the links that had been opened before *)
(* the account took the address, or saved it anew: only those are spent    *)
(* (users.py:763, 656, 770).                                               *)
FreshProofsVerify ==
  \A link \in confirmed \ spent :
    link.sub \in wikiuser /\ email[link.sub] = link.email => link.sub \in email_verified

(* Who registers without the mailed token has asked for the link himself:  *)
(* one that was opened and that carries his secret, not one that another   *)
(* browser asked for (users.py:168, AUTHORIZATION_AUDIT.md:24).            *)
RegistrantsAskedThemselves ==
  \A r \in registered :
    \/ r.secret = None
    \/ \E link \in verified : Names(link, r.username, r.email) /\ link.registration_hash = r.secret

(* As the class EmailVerification says (wiki_user.py:84): once the link is *)
(* verified, the verification of the address is complete, which is also    *)
(* what opening the link again answers (users.py:764).                     *)
VerifiedLinkCompletesVerification ==
  \A link \in verified :
    Live(link) /\ link.sub \in wikiuser /\ email[link.sub] = link.email
      => link.sub \in email_verified

===========================================================================
