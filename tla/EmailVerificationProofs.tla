---------------------- MODULE EmailVerificationProofs ----------------------
(***************************************************************************)
(* Proofs about EmailVerification.  An account is verified when it is      *)
(* registered or when a link is opened; both need a proof of the address   *)
(* given after the account took it.  For registrations the proof is found  *)
(* before the commit, so that the invariant also speaks about the requests *)
(* in between and about links opened for names not yet registered.         *)
(***************************************************************************)
EXTENDS EmailVerification, FiniteSetTheorems, TLAPS

(* A request that may still create an account has its proof. *)
RegistrationsAreProven ==
  \A r \in checked :
    r.to = "register" /\ r.username \notin wikiuser
      => \E link \in confirmed : Names(link, r.username, r.email)

(* A link opened before its account exists waits for it. *)
OpenedLinksWait == \A link \in verified : link.sub \notin wikiuser => link \in confirmed

(* Only accounts change their address. *)
SettersHaveAccounts == \A r \in checked : r.to = "set_email" => r.username \in wikiuser

AskedHimself(r) ==
  \/ r.secret = None
  \/ \E link \in verified : Names(link, r.username, r.email) /\ link.registration_hash = r.secret

(* Requests on their way to a registration have asked for their link. *)
PendingAskedThemselves == \A r \in checked : r.to = "register" => AskedHimself(r)

IInv ==
  /\ TypeOK
  /\ RegistrationsAreProven
  /\ OpenedLinksWait
  /\ SettersHaveAccounts
  /\ VerifiedAddressesWereProven

---------------------------------------------------------------------------
(* Types. *)

(* A new link is well-formed. *)
LEMMA NewLinkType ==
  ASSUME TypeOK, NEW u \in Users, NEW e \in Emails, NEW secret \in Secrets \cup {None}
  PROVE  create_email_verification_token(u, e, secret) \in Link
<1>1. Cardinality(emailverification) \in Nat
  BY FS_CardinalityType DEF TypeOK
<1>2. now + LinkLife \in Nat
  BY VerificationAssumptions DEF TypeOK
<1> QED BY <1>1, <1>2 DEF create_email_verification_token, Link

(* Sending a link keeps the table well-formed and every row in it. *)
LEMMA SendType ==
  ASSUME TypeOK, NEW u \in Users, NEW e \in Emails, NEW secret \in Secrets \cup {None},
         send_email_verification(u, e, secret)
  PROVE  /\ emailverification' \subseteq Link /\ IsFiniteSet(emailverification')
         /\ emailverification \subseteq emailverification'
<1>1. create_email_verification_token(u, e, secret) \in Link
  BY NewLinkType
<1>2. IsFiniteSet(emailverification \cup {create_email_verification_token(u, e, secret)})
  BY FS_AddElement DEF TypeOK
<1> QED BY <1>1, <1>2 DEF send_email_verification, TypeOK

(* Checking a request keeps the set of requests well-formed. *)
LEMMA CheckType ==
  ASSUME TypeOK, NEW r \in Request, Check(r), confirmed' \subseteq emailverification
  PROVE  TypeOK'
<1>1. IsFiniteSet(checked \cup {r})
  BY FS_AddElement DEF TypeOK
<1> QED BY <1>1 DEF TypeOK, Check

(* A request that left the set leaves a finite set. *)
LEMMA UncheckType ==
  ASSUME TypeOK, NEW r \in checked, checked' = checked \ {r}
  PROVE  /\ checked' \subseteq Request /\ IsFiniteSet(checked')
         /\ r.username \in Users /\ r.email \in Emails
<1>1. IsFiniteSet(checked \ {r})
  BY FS_RemoveElement DEF TypeOK
<1>2. r \in Request
  BY DEF TypeOK
<1>3. r.username \in Users /\ r.email \in Emails
  BY <1>2 DEF Request
<1> QED BY <1>1, <1>3 DEF TypeOK

(* Every step keeps the types. *)
LEMMA TypeStep ==
  ASSUME TypeOK, [Next]_vars
  PROVE  TypeOK'
<1>1. ASSUME NEW u \in Users, NEW e \in Emails, NEW secret \in Secrets \cup {None},
             request_register_email_verification(u, e, secret)
      PROVE  TypeOK'
  BY <1>1, SendType DEF request_register_email_verification, TypeOK
<1>2. ASSUME NEW u \in Users, NEW e \in Emails, register_with_token(u, e)
      PROVE  TypeOK'
  <2> DEFINE r == [to |-> "register", username |-> u, email |-> e, secret |-> None]
  <2>1. r \in Request
    BY DEF Request
  <2>2. Check(r) /\ confirmed' \subseteq emailverification
    BY <1>2 DEF register_with_token, Tokens, TypeOK
  <2> QED BY <2>1, <2>2, CheckType
<1>3. ASSUME NEW u \in Users, NEW e \in Emails, NEW secret \in Secrets,
             register_with_secret(u, e, secret)
      PROVE  TypeOK'
  <2> DEFINE r == [to |-> "register", username |-> u, email |-> e, secret |-> secret]
  <2>1. r \in Request
    BY DEF Request
  <2>2. Check(r) /\ confirmed' \subseteq emailverification
    BY <1>3 DEF register_with_secret, TypeOK
  <2> QED BY <2>1, <2>2, CheckType
<1>4. ASSUME NEW u \in Users, NEW e \in Emails, set_email(u, e)
      PROVE  TypeOK'
  <2> DEFINE r == [to |-> "set_email", username |-> u, email |-> e, secret |-> None]
  <2>1. r \in Request
    BY DEF Request
  <2>2. Check(r) /\ confirmed' \subseteq emailverification
    BY <1>4 DEF set_email, TypeOK
  <2> QED BY <2>1, <2>2, CheckType
<1>5. ASSUME NEW u \in Users, request_email_verification(u)
      PROVE  TypeOK'
  <2>1. email[u] \in Emails /\ None \in Secrets \cup {None}
    BY <1>5 DEF request_email_verification, TypeOK
  <2> QED BY <1>5, <2>1, SendType DEF request_email_verification, TypeOK
<1>6. ASSUME NEW r \in checked, commit_registration(r)
      PROVE  TypeOK'
  <2>1. /\ checked' \subseteq Request /\ IsFiniteSet(checked')
        /\ r.username \in Users /\ r.email \in Emails /\ r \in Request
    BY <1>6, UncheckType DEF commit_registration, TypeOK
  <2>2. email' \in [Users -> Emails \cup {None}]
    BY <1>6, <2>1 DEF commit_registration, TypeOK
  <2> QED BY <1>6, <2>1, <2>2 DEF commit_registration, TypeOK
<1>7. ASSUME NEW r \in checked, commit_email(r)
      PROVE  TypeOK'
  <2>1. /\ checked' \subseteq Request /\ IsFiniteSet(checked')
        /\ r.username \in Users /\ r.email \in Emails /\ None \in Secrets \cup {None}
    BY <1>7, UncheckType DEF commit_email
  <2>2. email' \in [Users -> Emails \cup {None}]
    BY <1>7, <2>1 DEF commit_email, TypeOK
  <2>3. /\ emailverification' \subseteq Link /\ IsFiniteSet(emailverification')
        /\ emailverification \subseteq emailverification'
    <3>1. CASE send_email_verification(r.username, r.email, None)
      BY <2>1, <3>1, SendType
    <3>2. CASE Throttled
      BY <3>2 DEF Throttled, TypeOK
    <3> QED BY <1>7, <3>1, <3>2 DEF commit_email
  <2> QED BY <1>7, <2>1, <2>2, <2>3 DEF commit_email, Unverified, TypeOK
<1>8. ASSUME NEW r \in checked, rollback(r)
      PROVE  TypeOK'
  BY <1>8, UncheckType DEF rollback, TypeOK
<1>9. ASSUME NEW link \in emailverification, verify_email(link)
      PROVE  TypeOK'
  BY <1>9 DEF verify_email, VerifiedAccount, TypeOK
<1>10. CASE Tick
  BY <1>10 DEF Tick, TypeOK
<1>11. CASE UNCHANGED vars
  BY <1>11 DEF vars, TypeOK
<1> QED BY <1>1, <1>2, <1>3, <1>4, <1>5, <1>6, <1>7, <1>8, <1>9, <1>10, <1>11 DEF Next

(* All columns, requests and the history keep their types, for any users,  *)
(* addresses, secrets and lifetimes.                                       *)
THEOREM VerificationTypeCorrect == Spec => []TypeOK
<1>1. Init => TypeOK
  BY VerificationAssumptions, FS_EmptySet DEF Init, TypeOK
<1> QED BY <1>1, TypeStep, PTL DEF Spec

---------------------------------------------------------------------------
(* The invariant. *)

(* Nothing but a change of the address takes a confirmed link away, and    *)
(* nothing ever takes a row, an account or an opened link away.            *)
LEMMA NothingIsForgotten ==
  ASSUME TypeOK, [Next]_vars
  PROVE  /\ wikiuser \subseteq wikiuser'
         /\ verified \subseteq verified'
         /\ \A link \in confirmed :
              \/ link \in confirmed'
              \/ \E r \in checked : commit_email(r) /\ r.username = link.sub
<1>1. CASE \E r \in checked : commit_email(r)
  BY <1>1 DEF commit_email
<1>2. CASE ~\E r \in checked : commit_email(r)
  BY <1>2 DEF Next, vars, request_register_email_verification, register_with_token,
    register_with_secret, Check, set_email, commit_registration, rollback,
    request_email_verification, verify_email, Tick
<1> QED BY <1>1, <1>2

(* A request that is in the set after a step was there before, or passed   *)
(* its checks in the step.                                                 *)
LEMMA NewRequests ==
  ASSUME [Next]_vars, NEW r \in checked', r \notin checked
  PROVE  /\ UNCHANGED <<wikiuser, verified>>
         /\ confirmed \subseteq confirmed'
         /\ \/ \E u \in Users, e \in Emails :
                  /\ register_with_token(u, e)
                  /\ r = [to |-> "register", username |-> u, email |-> e, secret |-> None]
            \/ \E u \in Users, e \in Emails, secret \in Secrets :
                  /\ register_with_secret(u, e, secret)
                  /\ r = [to |-> "register", username |-> u, email |-> e, secret |-> secret]
            \/ \E u \in Users, e \in Emails :
                  /\ set_email(u, e)
                  /\ r = [to |-> "set_email", username |-> u, email |-> e, secret |-> None]
  BY DEF Next, vars, request_register_email_verification, register_with_token,
    register_with_secret, Check, set_email, commit_registration, commit_email, rollback,
    request_email_verification, verify_email, Tick

(* Whoever asks for another address has an account. *)
LEMMA SettersStep ==
  ASSUME TypeOK, SettersHaveAccounts, [Next]_vars
  PROVE  SettersHaveAccounts'
<1> SUFFICES ASSUME NEW r \in checked', r.to = "set_email"
             PROVE  r.username \in wikiuser'
  BY DEF SettersHaveAccounts
<1>1. CASE r \in checked
  BY <1>1, NothingIsForgotten DEF SettersHaveAccounts
<1>2. CASE r \notin checked
  <2>1. PICK u \in Users, e \in Emails :
          /\ set_email(u, e)
          /\ r = [to |-> "set_email", username |-> u, email |-> e, secret |-> None]
    BY <1>2, NewRequests
  <2>2. UNCHANGED wikiuser
    BY <1>2, NewRequests
  <2> QED BY <2>1, <2>2 DEF set_email
<1> QED BY <1>1, <1>2

(* An opened link stays confirmed until its account changes the address. *)
LEMMA OpenedLinksStep ==
  ASSUME TypeOK, SettersHaveAccounts, OpenedLinksWait, [Next]_vars
  PROVE  OpenedLinksWait'
<1> SUFFICES ASSUME NEW link \in verified', link.sub \notin wikiuser'
             PROVE  link \in confirmed'
  BY DEF OpenedLinksWait
<1>1. CASE link \in verified
  <2>1. link \in confirmed /\ link.sub \notin wikiuser
    BY <1>1, NothingIsForgotten DEF OpenedLinksWait
  <2>2. ~\E r \in checked : commit_email(r) /\ r.username = link.sub
    BY <2>1 DEF commit_email, SettersHaveAccounts
  <2> QED BY <2>1, <2>2, NothingIsForgotten
<1>2. CASE link \notin verified
  BY <1>2 DEF Next, vars, request_register_email_verification, register_with_token,
    register_with_secret, Check, set_email, commit_registration, commit_email, rollback,
    request_email_verification, verify_email, Tick
<1> QED BY <1>1, <1>2

(* The proof of a registration holds until its commit. *)
LEMMA RegistrationsStep ==
  ASSUME IInv, [Next]_vars
  PROVE  RegistrationsAreProven'
<1> USE DEF IInv
<1> SUFFICES ASSUME NEW r \in checked', r.to = "register", r.username \notin wikiuser'
             PROVE  \E link \in confirmed' : Names(link, r.username, r.email)
  BY DEF RegistrationsAreProven, Names
<1>1. CASE r \in checked
  <2>1. PICK link \in confirmed : Names(link, r.username, r.email)
    BY <1>1, NothingIsForgotten DEF RegistrationsAreProven
  <2>2. link.sub \notin wikiuser
    BY <2>1, NothingIsForgotten DEF Names
  <2>3. ~\E s \in checked : commit_email(s) /\ s.username = link.sub
    BY <2>2 DEF commit_email, SettersHaveAccounts
  <2> QED BY <2>1, <2>3, NothingIsForgotten
<1>2. CASE r \notin checked
  <2>1. CASE \E u \in Users, e \in Emails :
               /\ register_with_token(u, e)
               /\ r = [to |-> "register", username |-> u, email |-> e, secret |-> None]
    <3>1. PICK u \in Users, e \in Emails :
            /\ register_with_token(u, e)
            /\ r = [to |-> "register", username |-> u, email |-> e, secret |-> None]
      BY <2>1
    <3>2. PICK link \in Tokens(u, e) : confirmed' = confirmed \cup {link}
      BY <3>1 DEF register_with_token
    <3> QED BY <3>1, <3>2 DEF Tokens
  <2>2. CASE \E u \in Users, e \in Emails, secret \in Secrets :
               /\ register_with_secret(u, e, secret)
               /\ r = [to |-> "register", username |-> u, email |-> e, secret |-> secret]
    <3>1. PICK u \in Users, e \in Emails, secret \in Secrets :
            /\ register_with_secret(u, e, secret)
            /\ r = [to |-> "register", username |-> u, email |-> e, secret |-> secret]
      BY <2>2
    <3>2. PICK link \in verified : Names(link, u, e)
      BY <3>1 DEF register_with_secret, VerifiedFor
    <3>3. link \in confirmed
      BY <3>1, <3>2 DEF register_with_secret, OpenedLinksWait, Names
    <3> QED BY <3>1, <3>2, <3>3 DEF register_with_secret
  <2> QED BY <1>2, <2>1, <2>2, NewRequests
<1> QED BY <1>1, <1>2

(* Verified accounts keep a proof of the address they have. *)
LEMMA ProvenStep ==
  ASSUME IInv, [Next]_vars
  PROVE  VerifiedAddressesWereProven'
<1> USE DEF IInv
<1> SUFFICES ASSUME NEW u \in email_verified'
             PROVE  \E link \in confirmed' : Names(link, u, email'[u])
  BY DEF VerifiedAddressesWereProven, Names
<1>1. ASSUME NEW r \in checked, commit_registration(r)
      PROVE  \E link \in confirmed' : Names(link, u, email'[u])
  <2>1. r.username \in Users \ wikiuser
    BY <1>1, UncheckType DEF commit_registration, MayCommit
  <2>2. CASE u = r.username
    <3>1. email'[u] = r.email
      BY <1>1, <2>1, <2>2 DEF commit_registration, TypeOK
    <3>2. \E link \in confirmed : Names(link, u, r.email)
      BY <1>1, <2>1, <2>2 DEF commit_registration, RegistrationsAreProven
    <3> QED BY <1>1, <3>1, <3>2 DEF commit_registration
  <2>3. CASE u # r.username
    <3>1. u \in email_verified /\ email'[u] = email[u]
      BY <1>1, <2>3 DEF commit_registration, TypeOK
    <3> QED BY <1>1, <3>1 DEF commit_registration, VerifiedAddressesWereProven
  <2> QED BY <2>2, <2>3
<1>2. ASSUME NEW r \in checked, commit_email(r)
      PROVE  \E link \in confirmed' : Names(link, u, email'[u])
  <2>1. u \in email_verified /\ u # r.username
    BY <1>2 DEF commit_email, Unverified
  <2>2. email'[u] = email[u]
    BY <1>2, <2>1 DEF commit_email, TypeOK
  <2>3. PICK link \in confirmed : Names(link, u, email[u])
    BY <2>1 DEF VerifiedAddressesWereProven
  <2>4. link \in confirmed'
    BY <1>2, <2>1, <2>3 DEF commit_email, Names
  <2> QED BY <2>2, <2>3, <2>4
<1>3. ASSUME NEW link \in emailverification, verify_email(link)
      PROVE  \E other \in confirmed' : Names(other, u, email'[u])
  <2>1. CASE u \in email_verified
    BY <1>3, <2>1 DEF verify_email, VerifiedAddressesWereProven
  <2>2. CASE u \notin email_verified
    BY <1>3, <2>2 DEF verify_email, VerifiedAccount, Names
  <2> QED BY <2>1, <2>2
<1>4. CASE /\ ~\E r \in checked : commit_registration(r) \/ commit_email(r)
           /\ ~\E link \in emailverification : verify_email(link)
  <2>1. UNCHANGED <<email, email_verified>> /\ confirmed \subseteq confirmed'
    BY <1>4 DEF Next, vars, request_register_email_verification, register_with_token,
      register_with_secret, Check, set_email, rollback, request_email_verification, Tick
  <2> QED BY <2>1 DEF VerifiedAddressesWereProven
<1> QED BY <1>1, <1>2, <1>3, <1>4

(* The invariant is inductive. *)
LEMMA VerificationInvariant == Spec => []IInv
<1>1. Init => IInv
  BY VerificationAssumptions, FS_EmptySet DEF Init, IInv, TypeOK, RegistrationsAreProven,
    OpenedLinksWait, SettersHaveAccounts, VerifiedAddressesWereProven
<1>2. IInv /\ [Next]_vars => IInv'
  BY TypeStep, RegistrationsStep, OpenedLinksStep, SettersStep, ProvenStep DEF IInv
<1> QED BY <1>1, <1>2, PTL DEF Spec

(* For every number of accounts, addresses and links, and however changes  *)
(* of address, registrations and late links interleave, a verified account *)
(* has the proof of its present address.                                   *)
THEOREM VerifiedAccountsHaveProof == Spec => []VerifiedAddressesWereProven
<1>1. IInv => VerifiedAddressesWereProven
  BY DEF IInv
<1> QED BY <1>1, VerificationInvariant, PTL

---------------------------------------------------------------------------
(* Fresh proofs. *)

(* An opened link counts until its account takes an address. *)
UnspentLinksCount == verified \ spent \subseteq confirmed

LEMMA UnspentStep ==
  ASSUME UnspentLinksCount, [Next]_vars
  PROVE  UnspentLinksCount'
<1> SUFFICES ASSUME NEW link \in verified', link \notin spent'
             PROVE  link \in confirmed'
  BY DEF UnspentLinksCount
<1>1. CASE \E r \in checked : commit_email(r)
  BY <1>1 DEF commit_email, UnspentLinksCount
<1>2. CASE \E opened \in emailverification : verify_email(opened)
  BY <1>2 DEF verify_email, UnspentLinksCount
<1>3. CASE /\ ~\E r \in checked : commit_email(r)
           /\ ~\E opened \in emailverification : verify_email(opened)
  <2>1. UNCHANGED <<verified, spent>> /\ confirmed \subseteq confirmed'
    BY <1>3 DEF Next, vars, request_register_email_verification, register_with_token,
      register_with_secret, Check, set_email, commit_registration, rollback,
      request_email_verification, Tick
  <2> QED BY <2>1 DEF UnspentLinksCount
<1> QED BY <1>1, <1>2, <1>3

(* Where an unspent link is presented the flag is set: at the row's first  *)
(* opening, or it has been set then and is still.  Where the flag is taken *)
(* away the account's links are spent or no longer confirmed.              *)
LEMMA FreshProofsStep ==
  ASSUME TypeOK, UnspentLinksCount, FreshProofsVerify, [Next]_vars
  PROVE  FreshProofsVerify'
<1> SUFFICES ASSUME NEW link \in confirmed', link \notin spent',
                    link.sub \in wikiuser', email'[link.sub] = link.email
             PROVE  link.sub \in email_verified'
  BY DEF FreshProofsVerify
<1>1. ASSUME NEW r \in checked, commit_registration(r)
      PROVE  link.sub \in email_verified'
  <2>1. CASE link.sub = r.username
    BY <1>1, <2>1 DEF commit_registration
  <2>2. CASE link.sub # r.username
    <3>1. /\ link \in confirmed \ spent /\ link.sub \in wikiuser
          /\ email'[link.sub] = email[link.sub]
      BY <1>1, <2>2 DEF commit_registration, TypeOK
    <3> QED BY <1>1, <3>1 DEF commit_registration, FreshProofsVerify
  <2> QED BY <2>1, <2>2
<1>2. ASSUME NEW r \in checked, commit_email(r)
      PROVE  link.sub \in email_verified'
  <2>1. link \in confirmed \ spent /\ link.sub # r.username /\ link.sub \in wikiuser
    BY <1>2 DEF commit_email
  <2>2. email'[link.sub] = email[link.sub]
    BY <1>2, <2>1 DEF commit_email, TypeOK
  <2> QED BY <1>2, <2>1, <2>2 DEF commit_email, Unverified, FreshProofsVerify
<1>3. ASSUME NEW opened \in emailverification, verify_email(opened)
      PROVE  link.sub \in email_verified'
  <2>1. /\ UNCHANGED <<wikiuser, email, spent>> /\ email_verified \subseteq email_verified'
        /\ confirmed' = confirmed \cup {opened}
    BY <1>3 DEF verify_email
  <2>2. CASE opened \in verified
    <3>1. link \in confirmed
      BY <2>1, <2>2 DEF UnspentLinksCount
    <3> QED BY <2>1, <3>1 DEF FreshProofsVerify
  <2>3. CASE opened \notin verified
    <3>1. email_verified' = email_verified \cup VerifiedAccount(opened)
      BY <1>3, <2>3 DEF verify_email
    <3> QED BY <2>1, <3>1 DEF VerifiedAccount, FreshProofsVerify
  <2> QED BY <2>2, <2>3
<1>4. ASSUME NEW u \in Users, NEW e \in Emails, register_with_token(u, e)
      PROVE  link.sub \in email_verified'
  BY <1>4 DEF register_with_token, Tokens, Names, Check, FreshProofsVerify
<1>5. CASE /\ ~\E r \in checked : commit_registration(r) \/ commit_email(r)
           /\ ~\E opened \in emailverification : verify_email(opened)
           /\ ~\E u \in Users, e \in Emails : register_with_token(u, e)
  <2>1. UNCHANGED <<wikiuser, email, email_verified, confirmed, spent>>
    BY <1>5 DEF Next, vars, request_register_email_verification, register_with_secret, Check,
      set_email, rollback, request_email_verification, Tick
  <2> QED BY <2>1 DEF FreshProofsVerify
<1> QED BY <1>1, <1>2, <1>3, <1>4, <1>5

(* However many links and changes of address an account has about, each    *)
(* link presented since it took its address makes it verified, unless the  *)
(* link was opened before, and it stays so until the address is set again  *)
(* (verify_email, set_email).                                              *)
THEOREM OnlySpentProofsAreLost == Spec => []FreshProofsVerify
<1>1. Init => UnspentLinksCount /\ FreshProofsVerify
  BY DEF Init, UnspentLinksCount, FreshProofsVerify
<1>2. TypeOK /\ UnspentLinksCount /\ FreshProofsVerify /\ [Next]_vars
        => UnspentLinksCount' /\ FreshProofsVerify'
  BY UnspentStep, FreshProofsStep
<1> QED BY <1>1, <1>2, VerificationTypeCorrect, PTL DEF Spec

---------------------------------------------------------------------------
(* Registrations by whoever asked for the link. *)

(* The link that the check finds stays opened until the commit. *)
LEMMA AskedStep ==
  ASSUME TypeOK, PendingAskedThemselves, RegistrantsAskedThemselves, [Next]_vars
  PROVE  PendingAskedThemselves' /\ RegistrantsAskedThemselves'
<1>1. ASSUME NEW r, AskedHimself(r)
      PROVE  AskedHimself(r)'
  BY <1>1, NothingIsForgotten DEF AskedHimself, Names
<1>2. ASSUME NEW r \in checked', r.to = "register"
      PROVE  AskedHimself(r)'
  <2>1. CASE r \in checked
    BY <1>1, <1>2, <2>1 DEF PendingAskedThemselves
  <2>2. CASE r \notin checked
    <3>1. CASE r.secret = None
      BY <3>1 DEF AskedHimself
    <3>2. CASE r.secret # None
      <4>1. PICK u \in Users, e \in Emails, secret \in Secrets :
              /\ register_with_secret(u, e, secret)
              /\ r = [to |-> "register", username |-> u, email |-> e, secret |-> secret]
        BY <1>2, <2>2, <3>2, NewRequests
      <4>2. PICK link \in verified : Names(link, u, e) /\ link.registration_hash = secret
        BY <4>1 DEF register_with_secret, VerifiedFor, matches_registration_secret
      <4>3. AskedHimself(r)
        BY <4>1, <4>2 DEF AskedHimself
      <4> QED BY <4>3, <1>1
    <3> QED BY <3>1, <3>2
  <2> QED BY <2>1, <2>2
<1>3. ASSUME NEW r \in registered'
      PROVE  AskedHimself(r)'
  <2>1. r \in registered \/ (r \in checked /\ r.to = "register")
    BY <1>3 DEF Next, vars, request_register_email_verification, register_with_token,
      register_with_secret, Check, set_email, commit_registration, commit_email, rollback,
      request_email_verification, verify_email, Tick
  <2>2. AskedHimself(r)
    BY <2>1 DEF PendingAskedThemselves, RegistrantsAskedThemselves, AskedHimself
  <2> QED BY <2>2, <1>1
<1> QED BY <1>2, <1>3 DEF PendingAskedThemselves, RegistrantsAskedThemselves, AskedHimself

(* No secret but the one that asked for the link registers by it, for any  *)
(* number of browsers and links.                                           *)
THEOREM NobodyRegistersByAnothersLink == Spec => []RegistrantsAskedThemselves
<1>1. Init => PendingAskedThemselves /\ RegistrantsAskedThemselves
  BY DEF Init, PendingAskedThemselves, RegistrantsAskedThemselves
<1>2. TypeOK /\ PendingAskedThemselves /\ RegistrantsAskedThemselves /\ [Next]_vars
        => PendingAskedThemselves' /\ RegistrantsAskedThemselves'
  BY AskedStep
<1> QED BY <1>1, <1>2, VerificationTypeCorrect, PTL DEF Spec

===========================================================================
