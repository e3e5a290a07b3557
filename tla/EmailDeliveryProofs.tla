------------------------ MODULE EmailDeliveryProofs ------------------------
(***************************************************************************)
(* For any number of mails and retries: with the key no mail goes out      *)
(* twice, and delivery keeps the promise of MailPromise.                   *)
(***************************************************************************)
EXTENDS EmailDelivery, FiniteSetTheorems, TLAPS

Accepted(m) == {k \in Attempts : request[m][k] = "accepted"}

(* Nothing has been requested beyond the present attempt. *)
RequestsUpToAttempt(m) ==
  /\ mail[m].attempt <= LastAttempt(m)
  /\ \A k \in Attempts : request[m][k] # "none" => k <= mail[m].attempt
  /\ mail[m].phase = "waiting" => request[m][mail[m].attempt] = "none"
  /\ mail[m].phase = "none" => \A k \in Attempts : request[m][k] = "none"

(* The copies are those of the accepted requests: with the key the first,  *)
(* without it at most all of them.                                         *)
CopiesComeFromRequests(m) ==
  /\ Accepted(m) = {} /\ mail[m].via # "log" => copies[m] = 0
  /\ Accepted(m) # {} => copies[m] >= 1
  /\ mail[m].via = "resend" => copies[m] <= 1
  /\ mail[m].via # "log" => copies[m] <= Cardinality(Accepted(m))

LoggedAtOnce(m) ==
  mail[m].via = "log" =>
    /\ mail[m].phase # "calling"
    /\ copies[m] = IF mail[m].phase = "sent" THEN 1 ELSE 0
    /\ \A k \in Attempts : request[m][k] = "none"

MailInv(m) ==
  /\ mail[m].phase = "none" <=> mail[m].via = "none"
  /\ RequestsUpToAttempt(m)
  /\ CopiesComeFromRequests(m)
  /\ LoggedAtOnce(m)
  /\ mail[m].phase = "sent" => copies[m] >= 1

DeliveryInv == TypeOK /\ \A m \in Mails : MailInv(m)

LEMMA LastAttemptIsAttempt ==
  /\ Retries \in Nat /\ 0 \in Attempts
  /\ \A m : LastAttempt(m) \in Attempts /\ LastAttempt(m) <= Retries
BY DeliveryAssumptions DEF Attempts, LastAttempt

LEMMA AcceptedFinite ==
  ASSUME NEW m PROVE IsFiniteSet(Accepted(m)) /\ Cardinality(Accepted(m)) \in Nat
<1>1. IsFiniteSet(Attempts)
  BY FS_Interval, LastAttemptIsAttempt DEF Attempts
<1>2. Accepted(m) \subseteq Attempts
  BY DEF Accepted
<1>3. QED
  BY <1>1, <1>2, FS_Subset, FS_CardinalityType

(* While a request of the mail is open, not every attempt it may make is   *)
(* among the accepted ones.                                                *)
LEMMA OpenRequestIsRoom ==
  ASSUME DeliveryInv, NEW m \in Mails, NEW k \in Attempts, request[m][k] = "open"
  PROVE  Cardinality(Accepted(m)) < LastAttempt(m) + 1
<1> DEFINE Made == 0..LastAttempt(m)
<1>1. LastAttempt(m) \in Nat
  BY LastAttemptIsAttempt DEF Attempts
<1>2. IsFiniteSet(Made) /\ Cardinality(Made) = LastAttempt(m) + 1
  BY <1>1, FS_Interval
<1>3. mail[m].attempt \in Nat /\ mail[m].attempt <= LastAttempt(m)
  BY DEF DeliveryInv, MailInv, RequestsUpToAttempt, TypeOK, Thread, Attempts
<1>4. \A j \in Attempts : request[m][j] # "none" => j \in Made
  BY <1>1, <1>3, LastAttemptIsAttempt DEF DeliveryInv, MailInv, RequestsUpToAttempt, Attempts
<1>5. Accepted(m) \subseteq Made \ {k}
  BY <1>4 DEF Accepted
<1>6. k \in Made
  BY <1>4
<1> HIDE DEF Made
<1>7. IsFiniteSet(Made \ {k}) /\ Cardinality(Made \ {k}) = Cardinality(Made) - 1
  BY <1>2, <1>6, FS_RemoveElement
<1>8. Cardinality(Accepted(m)) <= Cardinality(Made \ {k})
  BY <1>5, <1>7, FS_Subset
<1>9. QED
  BY <1>1, <1>2, <1>7, <1>8, AcceptedFinite

---------------------------------------------------------------------------
(* The invariant. *)

LEMMA DeliveryStart == Init => DeliveryInv
<1> SUFFICES ASSUME Init PROVE DeliveryInv
  OBVIOUS
<1>1. TypeOK
  BY LastAttemptIsAttempt DEF Init, TypeOK, Thread, Phase, Answer
<1>2. ASSUME NEW m \in Mails PROVE MailInv(m)
  <2>1. /\ mail[m] = [phase |-> "none", attempt |-> 0, via |-> "none"]
        /\ copies[m] = 0
        /\ \A k \in Attempts : request[m][k] = "none"
    BY DEF Init
  <2>2. Accepted(m) = {}
    BY <2>1 DEF Accepted
  <2>3. RequestsUpToAttempt(m)
    BY <2>1, LastAttemptIsAttempt DEF RequestsUpToAttempt, Attempts
  <2>4. CopiesComeFromRequests(m)
    BY <2>1, <2>2, AcceptedFinite DEF CopiesComeFromRequests
  <2>5. QED
    BY <2>1, <2>3, <2>4 DEF MailInv, LoggedAtOnce
<1>3. QED
  BY <1>1, <1>2 DEF DeliveryInv

(* A mail that the step leaves alone keeps its invariant. *)
LEMMA OtherMails ==
  ASSUME NEW m \in Mails, MailInv(m),
         mail'[m] = mail[m], request'[m] = request[m], copies'[m] = copies[m]
  PROVE  MailInv(m)'
BY DEF MailInv, RequestsUpToAttempt, CopiesComeFromRequests, LoggedAtOnce, Accepted

LEMMA PhaseChanges ==
  ASSUME TypeOK, NEW m \in Mails, NEW phase \in Phase
  PROVE  [mail[m] EXCEPT !.phase = phase] \in Thread
BY DEF TypeOK, Thread

(* So does one of which only the phase changes, from running to an end. *)
LEMMA EndedMail ==
  ASSUME DeliveryInv, NEW m \in Mails, NEW phase \in {"sent", "rejected", "given up", "lost"},
         Running(m), phase = "sent" => Accepted(m) # {},
         mail'[m] = [mail[m] EXCEPT !.phase = phase],
         request'[m] = request[m], copies'[m] = copies[m]
  PROVE  MailInv(m)'
<1>1. mail[m] \in Thread /\ MailInv(m)
  BY DEF DeliveryInv, TypeOK
<1>2. /\ mail'[m].phase = phase
      /\ mail'[m].attempt = mail[m].attempt
      /\ mail'[m].via = mail[m].via
  BY <1>1 DEF Thread
<1>3. mail[m].via # "none"
  BY <1>1 DEF MailInv, Running
<1>4. Accepted(m)' = Accepted(m)
  BY DEF Accepted
<1>5. RequestsUpToAttempt(m)'
  BY <1>1, <1>2 DEF MailInv, RequestsUpToAttempt
<1>6. CopiesComeFromRequests(m)'
  BY <1>1, <1>2, <1>4 DEF MailInv, CopiesComeFromRequests
<1>7. mail[m].via = "log" => phase # "sent"
  BY <1>1 DEF MailInv, LoggedAtOnce, Accepted
<1>8. LoggedAtOnce(m)'
  BY <1>1, <1>2, <1>7 DEF MailInv, LoggedAtOnce, Running
<1>9. phase = "sent" => copies'[m] >= 1
  BY <1>1 DEF MailInv, CopiesComeFromRequests
<1>10. QED
  BY <1>2, <1>3, <1>5, <1>6, <1>8, <1>9 DEF MailInv

LEMMA DispatchKeeps ==
  ASSUME DeliveryInv, NEW m \in Mails, _dispatch_email(m) PROVE DeliveryInv'
<1>1. /\ mail' = [mail EXCEPT ![m] = [phase |-> "waiting", attempt |-> 0, via |-> provider]]
      /\ mail[m].phase = "none" /\ provider' = provider /\ request' = request /\ copies' = copies
  BY DEF _dispatch_email
<1>2. TypeOK'
  BY <1>1, LastAttemptIsAttempt DEF DeliveryInv, TypeOK, Thread, Phase
<1>3. ASSUME NEW n \in Mails PROVE MailInv(n)'
  <2>1. CASE n # m
    BY <1>1, <2>1, OtherMails DEF DeliveryInv, TypeOK
  <2>2. CASE n = m
    <3>1. mail'[m] = [phase |-> "waiting", attempt |-> 0, via |-> provider]
      BY <1>1 DEF DeliveryInv, TypeOK
    <3>2. /\ \A k \in Attempts : request[m][k] = "none"
          /\ mail[m].via = "none" /\ provider # "none"
      BY <1>1, DeliveryAssumptions
      DEF DeliveryInv, TypeOK, MailInv, RequestsUpToAttempt
    <3>3. Accepted(m) = {} /\ Accepted(m)' = {}
      BY <1>1, <3>2 DEF Accepted
    <3>4. copies[m] = 0
      BY <3>2, <3>3 DEF DeliveryInv, MailInv, CopiesComeFromRequests
    <3>5. RequestsUpToAttempt(m)'
      BY <1>1, <3>1, <3>2, LastAttemptIsAttempt DEF RequestsUpToAttempt, Attempts, LastAttempt
    <3>6. Cardinality(Accepted(m)') \in Nat
      BY <3>3, FS_EmptySet
    <3>7. CopiesComeFromRequests(m)'
      BY <1>1, <3>1, <3>3, <3>4, <3>6 DEF CopiesComeFromRequests
    <3>8. LoggedAtOnce(m)'
      BY <1>1, <3>1, <3>2, <3>4 DEF LoggedAtOnce
    <3>9. QED
      BY <2>2, <3>1, <3>2, <3>5, <3>7, <3>8 DEF MailInv
  <2>3. QED
    BY <2>1, <2>2
<1>4. QED
  BY <1>2, <1>3 DEF DeliveryInv

LEMMA LogKeeps ==
  ASSUME DeliveryInv, NEW m \in Mails, _deliver_log(m) PROVE DeliveryInv'
<1>1. /\ mail' = [mail EXCEPT ![m] = [mail[m] EXCEPT !.phase = "sent"]]
      /\ copies' = [copies EXCEPT ![m] = @ + 1]
      /\ mail[m].phase = "waiting" /\ mail[m].via = "log"
      /\ provider' = provider /\ request' = request
  BY DEF _deliver_log, End
<1>2. TypeOK'
  <2>1. [mail[m] EXCEPT !.phase = "sent"] \in Thread
    BY PhaseChanges DEF DeliveryInv, Phase
  <2>2. mail' \in [Mails -> Thread]
    BY <1>1, <2>1 DEF DeliveryInv, TypeOK
  <2>3. copies' \in [Mails -> Nat]
    BY <1>1 DEF DeliveryInv, TypeOK
  <2>4. QED
    BY <1>1, <2>2, <2>3 DEF DeliveryInv, TypeOK
<1>3. ASSUME NEW n \in Mails PROVE MailInv(n)'
  <2>1. CASE n # m
    BY <1>1, <2>1, OtherMails DEF DeliveryInv, TypeOK
  <2>2. CASE n = m
    <3>1. /\ mail'[m].phase = "sent" /\ mail'[m].via = "log"
          /\ mail'[m].attempt = mail[m].attempt
          /\ MailInv(m)
      BY <1>1 DEF DeliveryInv, TypeOK, Thread
    <3>2. copies[m] = 0 /\ copies'[m] = 1
      BY <1>1 DEF DeliveryInv, TypeOK, MailInv, LoggedAtOnce
    <3>3. \A k \in Attempts : request'[m][k] = "none"
      BY <1>1, <3>1 DEF MailInv, LoggedAtOnce
    <3>4. Accepted(m)' = {}
      BY <3>3 DEF Accepted
    <3>5. RequestsUpToAttempt(m)'
      BY <1>1, <3>1 DEF MailInv, RequestsUpToAttempt
    <3>6. QED
      BY <2>2, <3>1, <3>2, <3>3, <3>4, <3>5 DEF MailInv, LoggedAtOnce, CopiesComeFromRequests
  <2>3. QED
    BY <2>1, <2>2
<1>4. QED
  BY <1>2, <1>3 DEF DeliveryInv

LEMMA CallKeeps ==
  ASSUME DeliveryInv, NEW m \in Mails, Call(m) PROVE DeliveryInv'
<1> DEFINE k0 == mail[m].attempt
<1>1. /\ mail' = [mail EXCEPT ![m] = [mail[m] EXCEPT !.phase = "calling"]]
      /\ request' = [request EXCEPT ![m] = [request[m] EXCEPT ![k0] = "open"]]
      /\ mail[m].phase = "waiting" /\ mail[m].via # "log"
      /\ provider' = provider /\ copies' = copies
  BY DEF Call
<1>2. /\ mail[m] \in Thread /\ k0 \in Attempts /\ MailInv(m)
      /\ request[m] \in [Attempts -> Answer]
  BY DEF DeliveryInv, TypeOK, Thread
<1>3. TypeOK'
  <2>1. [mail[m] EXCEPT !.phase = "calling"] \in Thread
    BY PhaseChanges DEF DeliveryInv, Phase
  <2>2. mail' \in [Mails -> Thread]
    BY <1>1, <2>1 DEF DeliveryInv, TypeOK
  <2>3. [request[m] EXCEPT ![k0] = "open"] \in [Attempts -> Answer]
    BY <1>2 DEF Answer
  <2>4. request' \in [Mails -> [Attempts -> Answer]]
    BY <1>1, <2>3 DEF DeliveryInv, TypeOK
  <2>5. QED
    BY <1>1, <2>2, <2>4 DEF DeliveryInv, TypeOK
<1>4. ASSUME NEW n \in Mails PROVE MailInv(n)'
  <2>1. CASE n # m
    BY <1>1, <2>1, OtherMails DEF DeliveryInv, TypeOK
  <2>2. CASE n = m
    <3>1. /\ mail'[m] = [mail[m] EXCEPT !.phase = "calling"]
          /\ request'[m] = [request[m] EXCEPT ![k0] = "open"]
      BY <1>1 DEF DeliveryInv, TypeOK
    <3>2. /\ mail'[m].phase = "calling" /\ mail'[m].via = mail[m].via
          /\ mail'[m].attempt = k0
      BY <1>2, <3>1 DEF Thread
    <3>3. /\ request[m][k0] = "none" /\ request'[m][k0] = "open"
          /\ \A k \in Attempts : k # k0 => request'[m][k] = request[m][k]
      BY <1>1, <1>2, <3>1 DEF MailInv, RequestsUpToAttempt
    <3>4. Accepted(m)' = Accepted(m)
      BY <3>3 DEF Accepted
    <3>5. k0 <= k0
      BY <1>2, LastAttemptIsAttempt DEF Attempts
    <3>6. RequestsUpToAttempt(m)'
      BY <1>2, <3>2, <3>3, <3>5 DEF MailInv, RequestsUpToAttempt
    <3>7. CopiesComeFromRequests(m)'
      BY <1>1, <1>2, <3>2, <3>4 DEF MailInv, CopiesComeFromRequests
    <3>8. QED
      BY <1>1, <1>2, <2>2, <3>2, <3>6, <3>7 DEF MailInv, LoggedAtOnce
  <2>3. QED
    BY <2>1, <2>2
<1>5. QED
  BY <1>3, <1>4 DEF DeliveryInv

(* The ways in which a thread ends. *)
LEMMA EndKeeps ==
  ASSUME DeliveryInv, NEW m \in Mails, NEW phase \in {"sent", "rejected", "given up"},
         mail[m].phase = "calling", phase = "sent" => Accepted(m) # {},
         End(m, phase), UNCHANGED <<provider, request, copies>>
  PROVE  DeliveryInv'
<1>1. mail' = [mail EXCEPT ![m] = [mail[m] EXCEPT !.phase = phase]]
  BY DEF End
<1>2. TypeOK'
  <2>1. [mail[m] EXCEPT !.phase = phase] \in Thread
    BY PhaseChanges DEF DeliveryInv, Phase
  <2>2. mail' \in [Mails -> Thread]
    BY <1>1, <2>1 DEF DeliveryInv, TypeOK
  <2>3. QED
    BY <2>2 DEF DeliveryInv, TypeOK
<1>3. ASSUME NEW n \in Mails PROVE MailInv(n)'
  <2>1. CASE n # m
    BY <1>1, <2>1, OtherMails DEF DeliveryInv, TypeOK
  <2>2. CASE n = m
    <3>1. mail'[m] = [mail[m] EXCEPT !.phase = phase] /\ Running(m)
      BY <1>1 DEF DeliveryInv, TypeOK, Running
    <3>2. QED
      BY <2>2, <3>1, EndedMail
  <2>3. QED
    BY <2>1, <2>2
<1>4. QED
  BY <1>2, <1>3 DEF DeliveryInv

LEMMA SuccessKeeps ==
  ASSUME DeliveryInv, NEW m \in Mails, Success(m) PROVE DeliveryInv'
<1>1. mail[m].attempt \in Accepted(m)
  BY DEF Success, AnswerTo, Accepted, DeliveryInv, TypeOK, Thread
<1>2. QED
  BY <1>1, EndKeeps DEF Success

LEMMA PermanentErrorKeeps ==
  ASSUME DeliveryInv, NEW m \in Mails, PermanentError(m) PROVE DeliveryInv'
BY EndKeeps DEF PermanentError

LEMMA TransientErrorKeeps ==
  ASSUME DeliveryInv, NEW m \in Mails, TransientError(m) PROVE DeliveryInv'
<1>1. CASE mail[m].attempt = LastAttempt(m)
  <2>1. End(m, "given up")
    BY <1>1 DEF TransientError, AfterError, End
  <2>2. QED
    BY <2>1, EndKeeps DEF TransientError
<1>2. CASE mail[m].attempt # LastAttempt(m)
  <2> DEFINE thread == [mail[m] EXCEPT !.phase = "waiting", !.attempt = mail[m].attempt + 1]
  <2>1. /\ mail' = [mail EXCEPT ![m] = thread]
        /\ mail[m].phase = "calling"
        /\ provider' = provider /\ request' = request /\ copies' = copies
    BY <1>2 DEF TransientError, AfterError
  <2>2. /\ mail[m] \in Thread /\ MailInv(m)
        /\ mail[m].attempt \in Nat
        /\ mail[m].attempt + 1 <= LastAttempt(m)
        /\ mail[m].attempt + 1 \in Attempts
    <3>1. mail[m] \in Thread /\ MailInv(m)
      BY DEF DeliveryInv, TypeOK
    <3>2. mail[m].attempt \in Attempts /\ mail[m].attempt <= LastAttempt(m)
      BY <3>1 DEF Thread, MailInv, RequestsUpToAttempt
    <3>3. QED
      BY <1>2, <3>1, <3>2, LastAttemptIsAttempt DEF Attempts
  <2>3. /\ thread \in Thread /\ thread.phase = "waiting" /\ thread.via = mail[m].via
        /\ thread.attempt = mail[m].attempt + 1
    BY <2>2 DEF Thread, Phase
  <2> HIDE DEF thread
  <2>4. mail'[m] = thread
    BY <2>1 DEF DeliveryInv, TypeOK
  <2>5. TypeOK'
    BY <2>1, <2>3 DEF DeliveryInv, TypeOK
  <2>6. ASSUME NEW n \in Mails PROVE MailInv(n)'
    <3>1. CASE n # m
      BY <2>1, <3>1, OtherMails DEF DeliveryInv, TypeOK
    <3>2. CASE n = m
      <4>1. Accepted(m)' = Accepted(m)
        BY <2>1 DEF Accepted
      <4>2. \A k \in Attempts : request[m][k] # "none" => k <= mail[m].attempt
        BY <2>2 DEF MailInv, RequestsUpToAttempt
      <4>3. \A k \in Attempts : request[m][k] # "none" => k <= mail[m].attempt + 1 /\ k # mail[m].attempt + 1
        BY <2>2, <4>2, LastAttemptIsAttempt DEF Attempts
      <4>4. RequestsUpToAttempt(m)'
        BY <2>1, <2>2, <2>3, <2>4, <4>3 DEF RequestsUpToAttempt, LastAttempt
      <4>5. CopiesComeFromRequests(m)'
        BY <2>1, <2>2, <2>3, <2>4, <4>1 DEF MailInv, CopiesComeFromRequests
      <4>6. LoggedAtOnce(m)'
        BY <2>1, <2>2, <2>3, <2>4 DEF MailInv, LoggedAtOnce
      <4>7. QED
        BY <2>1, <2>2, <2>3, <2>4, <3>2, <4>4, <4>5, <4>6 DEF MailInv
    <3>3. QED
      BY <3>1, <3>2
  <2>7. QED
    BY <2>5, <2>6 DEF DeliveryInv
<1>3. QED
  BY <1>1, <1>2

LEMMA RestartKeeps ==
  ASSUME DeliveryInv, Restart PROVE DeliveryInv'
<1>1. /\ mail' = [m \in Mails |-> IF Running(m) THEN [mail[m] EXCEPT !.phase = "lost"] ELSE mail[m]]
      /\ provider' \in Providers /\ request' = request /\ copies' = copies
  BY DEF Restart
<1>2. TypeOK'
  <2>1. \A m \in Mails : [mail[m] EXCEPT !.phase = "lost"] \in Thread
    BY PhaseChanges DEF DeliveryInv, Phase
  <2>2. mail' \in [Mails -> Thread]
    BY <1>1, <2>1 DEF DeliveryInv, TypeOK
  <2>3. QED
    BY <1>1, <2>2 DEF DeliveryInv, TypeOK
<1>3. ASSUME NEW n \in Mails PROVE MailInv(n)'
  <2>1. CASE ~Running(n)
    BY <1>1, <2>1, OtherMails DEF DeliveryInv
  <2>2. CASE Running(n)
    BY <1>1, <2>2, EndedMail
  <2>3. QED
    BY <2>1, <2>2
<1>4. QED
  BY <1>2, <1>3 DEF DeliveryInv

LEMMA AcceptKeeps ==
  ASSUME DeliveryInv, NEW m \in Mails, NEW k0 \in Attempts, Accept(m, k0) PROVE DeliveryInv'
<1>1. /\ request' = [request EXCEPT ![m] = [request[m] EXCEPT ![k0] = "accepted"]]
      /\ copies' = IF KnowsKey(m) THEN copies ELSE [copies EXCEPT ![m] = copies[m] + 1]
      /\ request[m][k0] = "open" /\ provider' = provider /\ mail' = mail
  BY DEF Accept
<1>2. /\ MailInv(m) /\ request[m] \in [Attempts -> Answer] /\ copies[m] \in Nat
      /\ mail[m].via # "log" /\ mail[m].phase # "none"
  BY <1>1 DEF DeliveryInv, TypeOK, MailInv, LoggedAtOnce, RequestsUpToAttempt
<1>3. TypeOK'
  <2>1. [request[m] EXCEPT ![k0] = "accepted"] \in [Attempts -> Answer]
    BY <1>2 DEF Answer
  <2>2. request' \in [Mails -> [Attempts -> Answer]]
    BY <1>1, <2>1 DEF DeliveryInv, TypeOK
  <2>3. copies' \in [Mails -> Nat]
    BY <1>1, <1>2 DEF DeliveryInv, TypeOK
  <2>4. QED
    BY <1>1, <2>2, <2>3 DEF DeliveryInv, TypeOK
<1>4. ASSUME NEW n \in Mails PROVE MailInv(n)'
  <2>1. CASE n # m
    BY <1>1, <2>1, OtherMails DEF DeliveryInv, TypeOK
  <2>2. CASE n = m
    <3>1. /\ request'[m][k0] = "accepted"
          /\ \A k \in Attempts : k # k0 => request'[m][k] = request[m][k]
      BY <1>1, <1>2 DEF DeliveryInv, TypeOK
    <3>2. Accepted(m)' = Accepted(m) \cup {k0} /\ k0 \notin Accepted(m)
      BY <1>1, <3>1 DEF Accepted
    <3>3. Cardinality(Accepted(m)') = Cardinality(Accepted(m)) + 1
      <4>1. Cardinality(Accepted(m) \cup {k0}) = Cardinality(Accepted(m)) + 1
        BY <3>2, AcceptedFinite, FS_AddElement
      <4>2. QED
        BY <3>2, <4>1
    <3>4. KnowsKey(m) <=> mail[m].via = "resend" /\ Accepted(m) # {}
      BY DEF KnowsKey, Accepted
    <3>5. copies'[m] = IF KnowsKey(m) THEN copies[m] ELSE copies[m] + 1
      BY <1>1, <1>2 DEF DeliveryInv, TypeOK
    <3>6. RequestsUpToAttempt(m)'
      BY <1>1, <1>2, <3>1 DEF MailInv, RequestsUpToAttempt, LastAttempt
    <3>7. /\ Accepted(m) # {} => copies[m] >= 1
          /\ Accepted(m) = {} => copies[m] = 0
          /\ copies[m] <= Cardinality(Accepted(m))
          /\ mail[m].via = "resend" => copies[m] <= 1
      BY <1>2 DEF MailInv, CopiesComeFromRequests
    <3>8. CopiesComeFromRequests(m)'
      BY <1>1, <1>2, <3>2, <3>3, <3>4, <3>5, <3>7, AcceptedFinite DEF CopiesComeFromRequests
    <3>9. mail[m].phase = "sent" => copies'[m] >= 1
      BY <1>2, <3>5 DEF MailInv
    <3>10. QED
      BY <1>1, <1>2, <2>2, <3>6, <3>8, <3>9 DEF MailInv, LoggedAtOnce
  <2>3. QED
    BY <2>1, <2>2
<1>5. QED
  BY <1>3, <1>4 DEF DeliveryInv

LEMMA DeclineKeeps ==
  ASSUME DeliveryInv, NEW m \in Mails, NEW k0 \in Attempts, Decline(m, k0) PROVE DeliveryInv'
<1>1. PICK answer \in {"refused", "postponed"} :
        request' = [request EXCEPT ![m] = [request[m] EXCEPT ![k0] = answer]]
  BY DEF Decline
<1>2. request[m][k0] = "open" /\ provider' = provider /\ mail' = mail /\ copies' = copies
  BY DEF Decline
<1>3. /\ MailInv(m) /\ request[m] \in [Attempts -> Answer]
      /\ mail[m].attempt \in Attempts
      /\ mail[m].via # "log" /\ mail[m].phase # "none"
  BY <1>2 DEF DeliveryInv, TypeOK, Thread, MailInv, LoggedAtOnce, RequestsUpToAttempt
<1>4. TypeOK'
  <2>1. [request[m] EXCEPT ![k0] = answer] \in [Attempts -> Answer]
    BY <1>3 DEF Answer
  <2>2. request' \in [Mails -> [Attempts -> Answer]]
    BY <1>1, <2>1 DEF DeliveryInv, TypeOK
  <2>3. QED
    BY <1>2, <2>2 DEF DeliveryInv, TypeOK
<1>5. ASSUME NEW n \in Mails PROVE MailInv(n)'
  <2>1. CASE n # m
    BY <1>1, <1>2, <2>1, OtherMails DEF DeliveryInv, TypeOK
  <2>2. CASE n = m
    <3>1. /\ request'[m][k0] = answer
          /\ \A k \in Attempts : k # k0 => request'[m][k] = request[m][k]
      BY <1>1, <1>3 DEF DeliveryInv, TypeOK
    <3>2. Accepted(m)' = Accepted(m)
      BY <1>2, <3>1 DEF Accepted
    <3>3. RequestsUpToAttempt(m)'
      <4>1. \A k \in Attempts : request'[m][k] = "none" <=> request[m][k] = "none"
        BY <1>2, <3>1
      <4>2. QED
        BY <1>2, <1>3, <4>1 DEF MailInv, RequestsUpToAttempt
    <3>4. CopiesComeFromRequests(m)'
      BY <1>2, <1>3, <3>2 DEF MailInv, CopiesComeFromRequests
    <3>5. QED
      BY <1>2, <1>3, <2>2, <3>3, <3>4 DEF MailInv, LoggedAtOnce
  <2>3. QED
    BY <2>1, <2>2
<1>6. QED
  BY <1>4, <1>5 DEF DeliveryInv

LEMMA DeliveryStep ==
  ASSUME DeliveryInv, [Next]_vars PROVE DeliveryInv'
<1>1. CASE UNCHANGED vars
  <2>1. \A n \in Mails : MailInv(n)'
    BY <1>1, OtherMails DEF vars, DeliveryInv
  <2>2. QED
    BY <1>1, <2>1 DEF vars, DeliveryInv, TypeOK
<1>2. CASE \E m \in Mails : _dispatch_email(m) \/ _deliver_with_retry(m)
  BY <1>2, DispatchKeeps, LogKeeps, CallKeeps, SuccessKeeps, PermanentErrorKeeps,
     TransientErrorKeeps DEF _deliver_with_retry
<1>3. CASE \E m \in Mails, k \in Attempts : Accept(m, k) \/ Decline(m, k)
  BY <1>3, AcceptKeeps, DeclineKeeps
<1>4. CASE Restart
  BY <1>4, RestartKeeps
<1>5. QED
  BY <1>1, <1>2, <1>3, <1>4 DEF Next

LEMMA DeliveryInvariant == Spec => []DeliveryInv
<1>1. Init => DeliveryInv
  BY DeliveryStart
<1>2. DeliveryInv /\ [Next]_vars => DeliveryInv'
  BY DeliveryStep
<1>3. QED
  BY <1>1, <1>2, PTL DEF Spec

(* The threads, requests and counts keep their types: no attempt beyond    *)
(* the delays, no call without a slot in the record.                       *)
THEOREM DeliveryTypeCorrect == Spec => []TypeOK
<1>1. DeliveryInv => TypeOK
  BY DEF DeliveryInv
<1>2. QED
  BY <1>1, DeliveryInvariant, PTL

(* With the Idempotency-Key no mail goes out twice, for any number of      *)
(* retries, late requests and restarts.                                    *)
THEOREM KeyPreventsSecondCopy == Spec => []NoSecondCopyWithKey
<1>1. DeliveryInv => NoSecondCopyWithKey
  BY DEF DeliveryInv, MailInv, CopiesComeFromRequests, NoSecondCopyWithKey
<1>2. QED
  BY <1>1, DeliveryInvariant, PTL

---------------------------------------------------------------------------
(* The refinement. *)

LEMMA AllowanceType ==
  ASSUME DeliveryInv, NEW m \in Mails
  PROVE  /\ Allowance(m) \in 0..(Retries + 1)
         /\ copies[m] \in Nat /\ copies[m] <= Allowance(m)
         /\ mail[m].phase # "none" => Allowance(m) >= 1
<1>1. /\ Retries \in Nat /\ LastAttempt(m) \in Nat /\ LastAttempt(m) <= Retries
      /\ copies[m] \in Nat /\ MailInv(m)
      /\ mail[m].via \in {"none", "log", "smtp", "resend"}
  <2>1. Retries \in Nat /\ LastAttempt(m) \in Nat /\ LastAttempt(m) <= Retries
    BY LastAttemptIsAttempt DEF Attempts
  <2>2. mail[m] \in Thread /\ copies[m] \in Nat /\ MailInv(m)
    BY DEF DeliveryInv, TypeOK
  <2>3. mail[m].via \in Providers \cup {"none"}
    BY <2>2 DEF Thread
  <2>4. QED
    BY <2>1, <2>2, <2>3, DeliveryAssumptions
<1>2. mail[m].phase = "none" => copies[m] = 0
  <2>1. mail[m].phase = "none" => Accepted(m) = {} /\ mail[m].via = "none"
    BY <1>1 DEF MailInv, RequestsUpToAttempt, Accepted
  <2>2. QED
    BY <1>1, <2>1 DEF MailInv, CopiesComeFromRequests
<1>3. mail[m].via = "smtp" => copies[m] <= LastAttempt(m) + 1
  <2>1. SUFFICES ASSUME mail[m].via = "smtp" PROVE copies[m] <= LastAttempt(m) + 1
    OBVIOUS
  <2>2. copies[m] <= Cardinality(Accepted(m))
    BY <1>1, <2>1 DEF MailInv, CopiesComeFromRequests
  <2>3. IsFiniteSet(0..LastAttempt(m)) /\ Cardinality(0..LastAttempt(m)) = LastAttempt(m) + 1
    BY <1>1, FS_Interval
  <2>4. Accepted(m) \subseteq 0..LastAttempt(m)
    BY <1>1 DEF Accepted, MailInv, RequestsUpToAttempt, Attempts, DeliveryInv, TypeOK, Thread
  <2>5. Cardinality(Accepted(m)) <= LastAttempt(m) + 1
    BY <2>3, <2>4, FS_Subset
  <2>6. QED
    BY <1>1, <2>2, <2>5, AcceptedFinite
<1>4. mail[m].via \in {"log", "resend"} => copies[m] <= 1
  BY <1>1 DEF MailInv, LoggedAtOnce, CopiesComeFromRequests
<1>5. mail[m].via = "none" => mail[m].phase = "none"
  BY <1>1 DEF MailInv
<1>6. QED
  BY <1>1, <1>2, <1>3, <1>4, <1>5 DEF Allowance, LastAttempt

LEMMA PromiseStart == Init => Promise!PromiseInit
<1> SUFFICES ASSUME Init PROVE Promise!PromiseInit
  OBVIOUS
<1>1. \A m \in Mails : mail[m] = [phase |-> "none", attempt |-> 0, via |-> "none"]
  BY DEF Init
<1>2. ASSUME NEW m \in Mails PROVE Status(m) = "none" /\ Allowance(m) = 0
  <2>1. mail[m].phase = "none"
    BY <1>1
  <2>2. QED
    BY <2>1 DEF Status, Running, Allowance
<1>3. QED
  BY <1>2 DEF Init, Promise!PromiseInit, Statuses, Allowances

(* What the mapping makes of a step that changes the thread of one mail.   *)
LEMMA OneThreadMoves ==
  ASSUME TypeOK, NEW m \in Mails, NEW thread, mail' = [mail EXCEPT ![m] = thread]
  PROVE  /\ Statuses' = [Statuses EXCEPT ![m] = Status(m)']
         /\ Allowances' = [Allowances EXCEPT ![m] = Allowance(m)']
<1>1. \A n \in Mails : n # m => mail'[n] = mail[n]
  BY DEF TypeOK
<1>2. \A n \in Mails : n # m => Status(n)' = Status(n) /\ Allowance(n)' = Allowance(n)
  BY <1>1 DEF Status, Running, Allowance
<1>3. QED
  BY <1>2 DEF Statuses, Allowances

(* Once a mail is queued, its way of delivery stays.                       *)
LEMMA AllowanceStays ==
  ASSUME TypeOK, NEW m \in Mails, mail[m].phase # "none",
         NEW thread, thread.phase # "none", thread.via = mail[m].via,
         mail' = [mail EXCEPT ![m] = thread]
  PROVE  Allowances' = Allowances
<1>1. mail'[m] = thread /\ mail[m] \in Thread
  BY DEF TypeOK
<1>2. Allowance(m)' = Allowance(m)
  BY <1>1 DEF Allowance
<1>3. \A n \in Mails : n # m => mail'[n] = mail[n]
  BY DEF TypeOK
<1>4. \A n \in Mails : Allowance(n)' = Allowance(n)
  BY <1>2, <1>3 DEF Allowance
<1>5. QED
  BY <1>4 DEF Allowances

LEMMA DispatchQueues ==
  ASSUME DeliveryInv, NEW m \in Mails, _dispatch_email(m) PROVE Promise!Queue(m)
<1> DEFINE thread == [phase |-> "waiting", attempt |-> 0, via |-> provider]
<1>1. mail' = [mail EXCEPT ![m] = thread] /\ mail[m].phase = "none" /\ copies' = copies
  BY DEF _dispatch_email
<1>2. Statuses[m] = "none"
  BY <1>1 DEF Statuses, Status, Running
<1>3. mail'[m] = thread
  BY <1>1 DEF DeliveryInv, TypeOK
<1>4. Status(m)' = "pending"
  BY <1>3 DEF Status, Running
<1>5. Allowance(m)' \in 1..(Retries + 1)
  BY <1>3, LastAttemptIsAttempt DEF Allowance
<1> HIDE DEF thread
<1>6. /\ Statuses' = [Statuses EXCEPT ![m] = "pending"]
      /\ Allowances' = [Allowances EXCEPT ![m] = Allowance(m)']
  BY <1>1, <1>4, OneThreadMoves DEF DeliveryInv
<1>7. QED
  BY <1>1, <1>2, <1>5, <1>6 DEF Promise!Queue

LEMMA LogSucceeds ==
  ASSUME DeliveryInv, NEW m \in Mails, _deliver_log(m) PROVE Promise!Succeed(m)
<1> DEFINE thread == [mail[m] EXCEPT !.phase = "sent"]
<1>1. /\ mail' = [mail EXCEPT ![m] = thread] /\ mail[m].phase = "waiting" /\ mail[m].via = "log"
      /\ copies' = [copies EXCEPT ![m] = copies[m] + 1]
  BY DEF _deliver_log, End
<1>2. mail[m] \in Thread /\ copies[m] = 0
  BY <1>1 DEF DeliveryInv, TypeOK, MailInv, LoggedAtOnce
<1>3. thread.phase = "sent" /\ thread.via = mail[m].via
  BY <1>2 DEF Thread
<1> HIDE DEF thread
<1>4. Statuses[m] = "pending"
  BY <1>1 DEF Statuses, Status, Running
<1>5. mail'[m] = thread
  BY <1>1 DEF DeliveryInv, TypeOK
<1>6. Status(m)' = "sent"
  BY <1>3, <1>5 DEF Status, Running
<1>7. Statuses' = [Statuses EXCEPT ![m] = "sent"]
  BY <1>1, <1>6, OneThreadMoves DEF DeliveryInv
<1>8. Allowances' = Allowances
  BY <1>1, <1>3, AllowanceStays DEF DeliveryInv
<1>9. Allowances[m] = Allowance(m) /\ Allowance(m) \in Nat /\ Allowance(m) >= 1
  BY <1>1, AllowanceType, LastAttemptIsAttempt DEF Allowances
<1>10. 1 \in 1..Allowances[m] /\ 1 >= copies[m] /\ copies' = [copies EXCEPT ![m] = 1]
  BY <1>1, <1>2, <1>9
<1>11. QED
  BY <1>4, <1>7, <1>8, <1>10 DEF Promise!Succeed

LEMMA SuccessSucceeds ==
  ASSUME DeliveryInv, NEW m \in Mails, Success(m) PROVE Promise!Succeed(m)
<1> DEFINE thread == [mail[m] EXCEPT !.phase = "sent"]
<1>1. mail' = [mail EXCEPT ![m] = thread] /\ mail[m].phase = "calling" /\ copies' = copies
  BY DEF Success, End
<1>2. mail[m] \in Thread /\ mail[m].attempt \in Accepted(m)
  BY DEF Success, AnswerTo, Accepted, DeliveryInv, TypeOK, Thread
<1>3. thread.phase = "sent" /\ thread.via = mail[m].via
  BY <1>2 DEF Thread
<1> HIDE DEF thread
<1>4. Statuses[m] = "pending"
  BY <1>1 DEF Statuses, Status, Running
<1>5. mail'[m] = thread
  BY <1>1 DEF DeliveryInv, TypeOK
<1>6. Status(m)' = "sent"
  BY <1>3, <1>5 DEF Status, Running
<1>7. Statuses' = [Statuses EXCEPT ![m] = "sent"]
  BY <1>1, <1>6, OneThreadMoves DEF DeliveryInv
<1>8. Allowances' = Allowances
  BY <1>1, <1>3, AllowanceStays DEF DeliveryInv
<1>9. copies[m] >= 1
  BY <1>2 DEF DeliveryInv, MailInv, CopiesComeFromRequests
<1>10. copies[m] \in 1..Allowances[m] /\ copies[m] >= copies[m] /\ copies' = [copies EXCEPT ![m] = copies[m]]
  <2>1. Allowances[m] = Allowance(m) /\ Allowance(m) \in Nat
    BY AllowanceType, LastAttemptIsAttempt DEF Allowances
  <2>2. copies[m] \in Nat /\ copies[m] <= Allowance(m)
    BY AllowanceType
  <2>3. copies' = [copies EXCEPT ![m] = copies[m]]
    BY <1>1 DEF DeliveryInv, TypeOK
  <2>4. QED
    BY <1>9, <2>1, <2>2, <2>3
<1>11. QED
  BY <1>4, <1>7, <1>8, <1>10 DEF Promise!Succeed

LEMMA ErrorFails ==
  ASSUME DeliveryInv, NEW m \in Mails, NEW phase \in {"rejected", "given up"},
         mail[m].phase = "calling", End(m, phase), copies' = copies
  PROVE  Promise!Fail(m)
<1> DEFINE thread == [mail[m] EXCEPT !.phase = phase]
<1>1. mail' = [mail EXCEPT ![m] = thread] /\ mail[m] \in Thread
  BY DEF End, DeliveryInv, TypeOK
<1>2. thread.phase = phase /\ thread.via = mail[m].via
  BY <1>1 DEF Thread
<1> HIDE DEF thread
<1>3. Statuses[m] = "pending"
  BY DEF Statuses, Status, Running
<1>4. mail'[m] = thread
  BY <1>1 DEF DeliveryInv, TypeOK
<1>5. Status(m)' = "failed"
  BY <1>2, <1>4 DEF Status, Running
<1>6. Statuses' = [Statuses EXCEPT ![m] = "failed"]
  BY <1>1, <1>5, OneThreadMoves DEF DeliveryInv
<1>7. Allowances' = Allowances
  BY <1>1, <1>2, AllowanceStays DEF DeliveryInv
<1>8. QED
  BY <1>3, <1>6, <1>7 DEF Promise!Fail

(* A thread that goes on, with a call or with the wait for the next one.   *)
LEMMA RunningStutters ==
  ASSUME DeliveryInv, NEW m \in Mails, Running(m), NEW thread \in Thread,
         thread.phase \in {"waiting", "calling"}, thread.via = mail[m].via,
         mail' = [mail EXCEPT ![m] = thread], copies' = copies
  PROVE  UNCHANGED Promise!promiseVars
<1>1. mail'[m] = thread
  BY DEF DeliveryInv, TypeOK
<1>2. Status(m)' = "pending" /\ Statuses[m] = "pending"
  BY <1>1 DEF Statuses, Status, Running
<1>3. Statuses' = [Statuses EXCEPT ![m] = "pending"]
  BY <1>2, OneThreadMoves DEF DeliveryInv
<1>4. Statuses' = Statuses
  BY <1>2, <1>3 DEF Statuses
<1>5. Allowances' = Allowances
  BY AllowanceStays DEF DeliveryInv, Running
<1>6. QED
  BY <1>4, <1>5 DEF Promise!promiseVars

LEMMA CallStutters ==
  ASSUME DeliveryInv, NEW m \in Mails, Call(m) PROVE UNCHANGED Promise!promiseVars
<1> DEFINE thread == [mail[m] EXCEPT !.phase = "calling"]
<1>1. mail' = [mail EXCEPT ![m] = thread] /\ mail[m].phase = "waiting" /\ copies' = copies
  BY DEF Call
<1>2. thread \in Thread
  BY PhaseChanges DEF DeliveryInv, Phase
<1>3. thread.phase = "calling" /\ thread.via = mail[m].via
  BY DEF DeliveryInv, TypeOK, Thread
<1> HIDE DEF thread
<1>4. QED
  BY <1>1, <1>2, <1>3, RunningStutters DEF Running

LEMMA TransientErrorMaps ==
  ASSUME DeliveryInv, NEW m \in Mails, TransientError(m)
  PROVE  Promise!Fail(m) \/ UNCHANGED Promise!promiseVars
<1>1. CASE mail[m].attempt = LastAttempt(m)
  <2>1. End(m, "given up")
    BY <1>1 DEF TransientError, AfterError, End
  <2>2. QED
    BY <2>1, ErrorFails DEF TransientError
<1>2. CASE mail[m].attempt # LastAttempt(m)
  <2> DEFINE thread == [mail[m] EXCEPT !.phase = "waiting", !.attempt = mail[m].attempt + 1]
  <2>1. mail' = [mail EXCEPT ![m] = thread] /\ mail[m].phase = "calling" /\ copies' = copies
    BY <1>2 DEF TransientError, AfterError
  <2>2. mail[m] \in Thread /\ mail[m].attempt + 1 \in Attempts
    <3>1. mail[m] \in Thread
      BY DEF DeliveryInv, TypeOK
    <3>2. mail[m].attempt \in Attempts /\ mail[m].attempt <= LastAttempt(m)
      BY <3>1 DEF DeliveryInv, Thread, MailInv, RequestsUpToAttempt
    <3>3. QED
      BY <1>2, <3>1, <3>2, LastAttemptIsAttempt DEF Attempts
  <2>3. thread \in Thread /\ thread.phase = "waiting" /\ thread.via = mail[m].via
    BY <2>2 DEF Thread, Phase
  <2> HIDE DEF thread
  <2>4. QED
    BY <2>1, <2>3, RunningStutters DEF Running
<1>3. QED
  BY <1>1, <1>2

LEMMA AcceptGoesOut ==
  ASSUME DeliveryInv, NEW m \in Mails, NEW k \in Attempts, Accept(m, k)
  PROVE  Promise!GoOut(m) \/ UNCHANGED Promise!promiseVars
<1>1. /\ copies' = IF KnowsKey(m) THEN copies ELSE [copies EXCEPT ![m] = copies[m] + 1]
      /\ request[m][k] = "open" /\ mail' = mail
  BY DEF Accept
<1>2. \A n \in Mails : Status(n)' = Status(n) /\ Allowance(n)' = Allowance(n)
  BY <1>1 DEF Status, Running, Allowance
<1>3. Statuses' = Statuses /\ Allowances' = Allowances
  BY <1>2 DEF Statuses, Allowances
<1>4. CASE KnowsKey(m)
  BY <1>1, <1>3, <1>4 DEF Promise!promiseVars
<1>5. CASE ~KnowsKey(m)
  <2>1. copies[m] < Allowance(m)
    <3>1. /\ MailInv(m) /\ mail[m] \in Thread /\ copies[m] \in Nat
          /\ mail[m].via # "log" /\ mail[m].phase # "none"
      BY <1>1 DEF DeliveryInv, TypeOK, MailInv, LoggedAtOnce, RequestsUpToAttempt
    <3>2. mail[m].via \in {"smtp", "resend"}
      BY <3>1, DeliveryAssumptions DEF Thread, MailInv
    <3>3. mail[m].via = "resend" => copies[m] = 0
      BY <1>5, <3>1 DEF KnowsKey, MailInv, CopiesComeFromRequests, Accepted
    <3>4. copies[m] < LastAttempt(m) + 1
      <4>1. Cardinality(Accepted(m)) < LastAttempt(m) + 1
        BY <1>1, OpenRequestIsRoom
      <4>2. copies[m] <= Cardinality(Accepted(m))
        BY <3>1 DEF MailInv, CopiesComeFromRequests
      <4>3. LastAttempt(m) \in Nat
        BY LastAttemptIsAttempt DEF Attempts
      <4>4. QED
        BY <3>1, <4>1, <4>2, <4>3, AcceptedFinite
    <3>5. QED
      BY <3>1, <3>2, <3>3, <3>4 DEF Allowance, LastAttempt
  <2>2. copies[m] < Allowances[m]
    BY <2>1 DEF Allowances
  <2>3. QED
    BY <1>1, <1>3, <1>5, <2>2 DEF Promise!GoOut
<1>6. QED
  BY <1>4, <1>5

LEMMA RestartEnds ==
  ASSUME DeliveryInv, Restart PROVE Promise!End
<1>1. /\ mail' = [m \in Mails |-> IF Running(m) THEN [mail[m] EXCEPT !.phase = "lost"] ELSE mail[m]]
      /\ copies' = copies
  BY DEF Restart
<1>2. ASSUME NEW m \in Mails
      PROVE  /\ Status(m)' = IF Statuses[m] = "pending" THEN "lost" ELSE Statuses[m]
             /\ Allowance(m)' = Allowance(m)
  <2>1. Statuses[m] = Status(m) /\ mail[m] \in Thread
    BY DEF Statuses, DeliveryInv, TypeOK
  <2>2. CASE Running(m)
    <3>1. mail'[m].phase = "lost" /\ mail'[m].via = mail[m].via
      BY <1>1, <2>1, <2>2 DEF Thread
    <3>2. Status(m) = "pending" /\ Status(m)' = "lost"
      BY <2>2, <3>1 DEF Status, Running
    <3>3. QED
      BY <2>1, <2>2, <3>1, <3>2 DEF Allowance, Running
  <2>3. CASE ~Running(m)
    <3>1. mail'[m] = mail[m]
      BY <1>1, <2>3
    <3>2. Status(m) # "pending"
      BY <2>1, <2>3 DEF Status, Running, Thread, Phase
    <3>3. QED
      BY <2>1, <3>1, <3>2 DEF Status, Running, Allowance
  <2>4. QED
    BY <2>2, <2>3
<1>3. Statuses' = [m \in Mails |-> IF Statuses[m] = "pending" THEN "lost" ELSE Statuses[m]]
  BY <1>2 DEF Statuses
<1>4. Allowances' = Allowances
  BY <1>2 DEF Allowances
<1>5. QED
  BY <1>1, <1>3, <1>4 DEF Promise!End

LEMMA PromiseStep ==
  ASSUME DeliveryInv, [Next]_vars PROVE [Promise!PromiseNext]_(Promise!promiseVars)
<1>1. CASE UNCHANGED vars
  <2>1. \A n \in Mails : Status(n)' = Status(n) /\ Allowance(n)' = Allowance(n)
    BY <1>1 DEF vars, Status, Running, Allowance
  <2>2. QED
    BY <1>1, <2>1 DEF vars, Promise!promiseVars, Statuses, Allowances
<1>2. ASSUME NEW m \in Mails, _dispatch_email(m) \/ _deliver_with_retry(m)
      PROVE  [Promise!PromiseNext]_(Promise!promiseVars)
  <2>1. CASE _dispatch_email(m)
    BY <2>1, DispatchQueues DEF Promise!PromiseNext
  <2>2. CASE _deliver_log(m)
    BY <2>2, LogSucceeds DEF Promise!PromiseNext
  <2>3. CASE Call(m)
    BY <2>3, CallStutters
  <2>4. CASE Success(m)
    BY <2>4, SuccessSucceeds DEF Promise!PromiseNext
  <2>5. CASE PermanentError(m)
    <3>1. Promise!Fail(m)
      BY <2>5, ErrorFails DEF PermanentError
    <3>2. QED
      BY <3>1 DEF Promise!PromiseNext
  <2>6. CASE TransientError(m)
    BY <2>6, TransientErrorMaps DEF Promise!PromiseNext
  <2>7. QED
    BY <1>2, <2>1, <2>2, <2>3, <2>4, <2>5, <2>6 DEF _deliver_with_retry
<1>3. ASSUME NEW m \in Mails, NEW k \in Attempts, Accept(m, k) \/ Decline(m, k)
      PROVE  [Promise!PromiseNext]_(Promise!promiseVars)
  <2>1. CASE Accept(m, k)
    BY <2>1, AcceptGoesOut DEF Promise!PromiseNext
  <2>2. CASE Decline(m, k)
    <3>1. mail' = mail /\ copies' = copies
      BY <2>2 DEF Decline
    <3>2. \A n \in Mails : Status(n)' = Status(n) /\ Allowance(n)' = Allowance(n)
      BY <3>1 DEF Status, Running, Allowance
    <3>3. QED
      BY <3>1, <3>2 DEF Promise!promiseVars, Statuses, Allowances
  <2>3. QED
    BY <1>3, <2>1, <2>2
<1>4. CASE Restart
  BY <1>4, RestartEnds DEF Promise!PromiseNext
<1>5. QED
  BY <1>1, <1>2, <1>3, <1>4 DEF Next

(* Delivery with its retries, its late requests and its restarts           *)
(* implements the promise: one outcome for each mail, "sent" only of a     *)
(* mail that went out, no copy beyond the allowance.                       *)
THEOREM DeliveryKeepsPromise == Spec => PromiseKept
<1>1. Init => Promise!PromiseInit
  BY PromiseStart
<1>2. DeliveryInv /\ [Next]_vars => [Promise!PromiseNext]_(Promise!promiseVars)
  BY PromiseStep
<1>3. QED
  BY <1>1, <1>2, DeliveryInvariant, PTL DEF Spec, PromiseKept, Promise!PromiseSpec

---------------------------------------------------------------------------
(* What the promise is worth to whoever relies on it and on nothing else.  *)

WithinPromise ==
  /\ copies \in [Mails -> Nat]
  /\ \A m \in Mails :
       /\ copies[m] <= Allowances[m]
       /\ Statuses[m] = "none" => Allowances[m] = 0
       /\ Statuses[m] = "sent" => copies[m] >= 1

Final == {"sent", "failed", "lost"}

OutcomesStay ==
  \A m \in Mails : Statuses[m] \in Final =>
    /\ Statuses'[m] = Statuses[m]
    /\ Allowances'[m] = Allowances[m]

LEMMA PromiseFunctions ==
  /\ DOMAIN Statuses = Mails
  /\ Allowances \in [Mails -> 0..(Retries + 1)]
<1>1. \A m \in Mails : Allowance(m) \in 0..(Retries + 1)
  BY LastAttemptIsAttempt DEF Allowance
<1>2. QED
  BY <1>1 DEF Statuses, Allowances

LEMMA PromiseStepStaysWithin ==
  ASSUME WithinPromise, [Promise!PromiseNext]_(Promise!promiseVars)
  PROVE  WithinPromise'
<1> USE DEF WithinPromise
<1>1. CASE UNCHANGED Promise!promiseVars
  BY <1>1 DEF Promise!promiseVars
<1>2. ASSUME NEW m \in Mails, Promise!Queue(m) PROVE WithinPromise'
  <2>1. PICK n \in 1..(Retries + 1) : Allowances' = [Allowances EXCEPT ![m] = n]
    BY <1>2 DEF Promise!Queue
  <2>2. /\ Statuses[m] = "none" /\ copies' = copies
        /\ Statuses' = [Statuses EXCEPT ![m] = "pending"]
    BY <1>2 DEF Promise!Queue
  <2>3. copies[m] <= n
    BY <2>1, <2>2
  <2>4. ASSUME NEW l \in Mails
        PROVE  /\ copies[l] <= Allowances'[l]
               /\ Statuses'[l] = "none" => Allowances'[l] = 0
               /\ Statuses'[l] = "sent" => copies[l] >= 1
    <3>1. CASE l = m
      BY <2>1, <2>2, <2>3, <3>1, PromiseFunctions
    <3>2. CASE l # m
      BY <2>1, <2>2, <3>2, PromiseFunctions
    <3>3. QED
      BY <3>1, <3>2
  <2>5. QED
    BY <2>2, <2>4
<1>3. ASSUME NEW m \in Mails, Promise!GoOut(m) PROVE WithinPromise'
  <2>1. /\ copies[m] < Allowances[m] /\ copies' = [copies EXCEPT ![m] = copies[m] + 1]
        /\ Statuses' = Statuses /\ Allowances' = Allowances
    BY <1>3 DEF Promise!GoOut
  <2>2. copies[m] \in Nat /\ Allowances[m] \in Nat
    BY PromiseFunctions
  <2>3. copies' \in [Mails -> Nat]
    BY <2>1, <2>2
  <2>4. copies'[m] = copies[m] + 1 /\ \A l \in Mails \ {m} : copies'[l] = copies[l]
    BY <2>1
  <2>5. Statuses[m] # "none"
    BY <2>1, <2>2
  <2>6. copies'[m] <= Allowances[m] /\ copies'[m] >= 1
    BY <2>1, <2>2, <2>4
  <2>7. QED
    BY <2>1, <2>3, <2>4, <2>5, <2>6
<1>4. ASSUME NEW m \in Mails, Promise!Succeed(m) PROVE WithinPromise'
  <2>1. PICK n \in 1..Allowances[m] : copies' = [copies EXCEPT ![m] = n]
    BY <1>4 DEF Promise!Succeed
  <2>2. Statuses' = [Statuses EXCEPT ![m] = "sent"] /\ Allowances' = Allowances
    BY <1>4 DEF Promise!Succeed
  <2>3. Allowances[m] \in Nat
    BY PromiseFunctions
  <2>4. QED
    BY <2>1, <2>2, <2>3, PromiseFunctions
<1>5. ASSUME NEW m \in Mails, Promise!Fail(m) PROVE WithinPromise'
  BY <1>5, PromiseFunctions DEF Promise!Fail
<1>6. CASE Promise!End
  <2>1. /\ Statuses' = [m \in Mails |-> IF Statuses[m] = "pending" THEN "lost" ELSE Statuses[m]]
        /\ Allowances' = Allowances /\ copies' = copies
    BY <1>6 DEF Promise!End
  <2>2. QED
    BY <2>1
<1>7. QED
  BY <1>1, <1>2, <1>3, <1>4, <1>5, <1>6 DEF Promise!PromiseNext

LEMMA PromiseStepsAreFinal ==
  ASSUME [Promise!PromiseNext]_(Promise!promiseVars) PROVE OutcomesStay
<1> SUFFICES ASSUME NEW m \in Mails, Statuses[m] \in Final
             PROVE  Statuses'[m] = Statuses[m] /\ Allowances'[m] = Allowances[m]
  BY DEF OutcomesStay
<1>1. CASE UNCHANGED Promise!promiseVars
  BY <1>1 DEF Promise!promiseVars
<1>2. ASSUME NEW l \in Mails, Promise!Queue(l)
      PROVE  Statuses'[m] = Statuses[m] /\ Allowances'[m] = Allowances[m]
  <2>1. Statuses[l] = "none" /\ Statuses' = [Statuses EXCEPT ![l] = "pending"]
    BY <1>2 DEF Promise!Queue
  <2>2. PICK n : Allowances' = [Allowances EXCEPT ![l] = n]
    BY <1>2 DEF Promise!Queue
  <2>3. l # m
    BY <2>1 DEF Final
  <2>4. QED
    BY <2>1, <2>2, <2>3, PromiseFunctions
<1>3. ASSUME NEW l \in Mails, Promise!GoOut(l)
      PROVE  Statuses'[m] = Statuses[m] /\ Allowances'[m] = Allowances[m]
  BY <1>3 DEF Promise!GoOut
<1>4. ASSUME NEW l \in Mails, Promise!Succeed(l) \/ Promise!Fail(l)
      PROVE  Statuses'[m] = Statuses[m] /\ Allowances'[m] = Allowances[m]
  <2>1. Statuses[l] = "pending" /\ Allowances' = Allowances
    BY <1>4 DEF Promise!Succeed, Promise!Fail
  <2>2. PICK outcome : Statuses' = [Statuses EXCEPT ![l] = outcome]
    BY <1>4 DEF Promise!Succeed, Promise!Fail
  <2>3. l # m
    BY <2>1 DEF Final
  <2>4. QED
    BY <2>1, <2>2, <2>3, PromiseFunctions
<1>5. CASE Promise!End
  BY <1>5 DEF Promise!End, Final
<1>6. QED
  BY <1>1, <1>2, <1>3, <1>4, <1>5 DEF Promise!PromiseNext

(* Whatever keeps the promise lets no more copies out than the way of      *)
(* delivery allows, and calls no mail sent of which no copy went out,      *)
(* however late the calls of _deliver_with_retry are answered.             *)
THEOREM PromiseBoundsCopies == PromiseKept => []WithinPromise
<1>1. Promise!PromiseInit => WithinPromise
  <2> SUFFICES ASSUME Promise!PromiseInit PROVE WithinPromise
    OBVIOUS
  <2>1. /\ copies = [m \in Mails |-> 0]
        /\ Statuses = [m \in Mails |-> "none"]
        /\ Allowances = [m \in Mails |-> 0]
    BY DEF Promise!PromiseInit
  <2>2. QED
    BY <2>1 DEF WithinPromise
<1>2. WithinPromise /\ [Promise!PromiseNext]_(Promise!promiseVars) => WithinPromise'
  BY PromiseStepStaysWithin
<1>3. QED
  BY <1>1, <1>2, PTL DEF PromiseKept, Promise!PromiseSpec

(* Delivery therefore stays within the promise, and what the log of        *)
(* _deliver_with_retry has said of a mail, that it was sent or failed, or  *)
(* that the process ended before, is the last word on it.                  *)
THEOREM OutcomesAreFinal == Spec => []WithinPromise /\ [][OutcomesStay]_vars
<1>1. [Promise!PromiseNext]_(Promise!promiseVars) => [OutcomesStay]_vars
  BY PromiseStepsAreFinal
<1>2. QED
  BY <1>1, DeliveryKeepsPromise, PromiseBoundsCopies, PTL DEF PromiseKept, Promise!PromiseSpec

---------------------------------------------------------------------------
(* Threads come to an end. *)

(* The steps that a thread has before it, at most. *)
Remaining(m) ==
  CASE mail[m].phase = "waiting" -> 2 * (LastAttempt(m) - mail[m].attempt) + 2
    [] mail[m].phase = "calling" -> 2 * (LastAttempt(m) - mail[m].attempt) + 1
    [] OTHER -> 0

LEMMA RemainingIsNatural ==
  ASSUME DeliveryInv, NEW m \in Mails
  PROVE  /\ Remaining(m) \in Nat
         /\ Running(m) <=> Remaining(m) # 0
<1>1. /\ LastAttempt(m) \in Nat /\ mail[m].attempt \in Nat
      /\ mail[m].attempt <= LastAttempt(m)
  BY LastAttemptIsAttempt
     DEF DeliveryInv, TypeOK, Thread, Attempts, MailInv, RequestsUpToAttempt
<1>2. QED
  BY <1>1 DEF Remaining, Running

LEMMA ThreadStepNears ==
  ASSUME DeliveryInv, NEW m \in Mails, _deliver_with_retry(m)
  PROVE  Remaining(m)' < Remaining(m)
<1>1. /\ mail[m] \in Thread
      /\ LastAttempt(m) \in Nat /\ mail[m].attempt \in Nat
      /\ mail[m].attempt <= LastAttempt(m)
  BY LastAttemptIsAttempt
     DEF DeliveryInv, TypeOK, Thread, Attempts, MailInv, RequestsUpToAttempt
<1>2. Running(m) /\ mail \in [Mails -> Thread]
  BY DEF DeliveryInv, TypeOK, _deliver_with_retry, _deliver_log, Call, Success, PermanentError,
     TransientError, Running
<1>3. CASE mail'[m].phase \in {"sent", "rejected", "given up"}
  <2>1. Remaining(m)' = 0
    BY <1>3 DEF Remaining
  <2>2. Remaining(m) \in Nat /\ Remaining(m) # 0
    BY <1>2, RemainingIsNatural
  <2>3. QED
    BY <2>1, <2>2
<1>4. CASE Call(m)
  <2>1. /\ mail[m].phase = "waiting" /\ mail'[m].phase = "calling"
        /\ mail'[m].attempt = mail[m].attempt
    BY <1>1, <1>2, <1>4 DEF Call, Thread
  <2>2. /\ Remaining(m) = 2 * (LastAttempt(m) - mail[m].attempt) + 2
        /\ Remaining(m)' = 2 * (LastAttempt(m) - mail[m].attempt) + 1
    BY <2>1 DEF Remaining, LastAttempt
  <2>3. QED
    BY <1>1, <2>2
<1>5. CASE TransientError(m) /\ mail[m].attempt # LastAttempt(m)
  <2>1. /\ mail[m].phase = "calling" /\ mail'[m].phase = "waiting"
        /\ mail'[m].attempt = mail[m].attempt + 1
    BY <1>1, <1>2, <1>5 DEF TransientError, AfterError, Thread
  <2>2. /\ Remaining(m) = 2 * (LastAttempt(m) - mail[m].attempt) + 1
        /\ Remaining(m)' = 2 * (LastAttempt(m) - (mail[m].attempt + 1)) + 2
    BY <2>1 DEF Remaining, LastAttempt
  <2>3. QED
    BY <1>1, <2>2
<1>6. CASE _deliver_log(m) \/ Success(m) \/ PermanentError(m)
  <2>1. mail'[m].phase \in {"sent", "rejected"}
    BY <1>1, <1>2, <1>6 DEF _deliver_log, Success, PermanentError, End, Thread
  <2>2. QED
    BY <2>1, <1>3
<1>7. CASE TransientError(m) /\ mail[m].attempt = LastAttempt(m)
  <2>1. mail'[m].phase = "given up"
    BY <1>1, <1>2, <1>7 DEF TransientError, AfterError, Thread
  <2>2. QED
    BY <2>1, <1>3
<1>8. QED
  BY <1>4, <1>5, <1>6, <1>7 DEF _deliver_with_retry

(* No other step gives a running thread more to do. *)
LEMMA NothingDrawsAway ==
  ASSUME DeliveryInv, [Next]_vars, NEW m \in Mails, Running(m)
  PROVE  Remaining(m)' <= Remaining(m)
<1>1. /\ mail[m] \in Thread /\ mail \in [Mails -> Thread]
      /\ Remaining(m) \in Nat
  BY RemainingIsNatural DEF DeliveryInv, TypeOK
<1>2. CASE mail'[m] = mail[m]
  <2>1. Remaining(m)' = Remaining(m)
    BY <1>2 DEF Remaining, LastAttempt
  <2>2. QED
    BY <1>1, <2>1
<1>3. CASE _deliver_with_retry(m)
  <2>1. Remaining(m)' < Remaining(m)
    BY <1>3, ThreadStepNears
  <2>2. Remaining(m)' \in Int
    <3>1. LastAttempt(m) \in Nat /\ mail'[m].attempt \in Nat
      BY DeliveryStep, LastAttemptIsAttempt DEF DeliveryInv, TypeOK, Thread, Attempts
    <3>2. QED
      BY <3>1 DEF Remaining, LastAttempt
  <2>3. QED
    BY <1>1, <2>1, <2>2
<1>4. CASE Restart
  <2>1. mail'[m].phase = "lost"
    BY <1>1, <1>4 DEF Restart, Thread
  <2>2. Remaining(m)' = 0
    BY <2>1 DEF Remaining
  <2>3. QED
    BY <1>1, <2>2
<1>5. ASSUME NEW n \in Mails, n # m, _dispatch_email(n) \/ _deliver_with_retry(n)
      PROVE  mail'[m] = mail[m]
  <2>1. PICK thread : mail' = [mail EXCEPT ![n] = thread]
    BY <1>5 DEF _dispatch_email, _deliver_with_retry, _deliver_log, Call, Success, PermanentError,
       TransientError, End
  <2>2. QED
    BY <1>1, <1>5, <2>1
<1>6. ~_dispatch_email(m)
  BY DEF _dispatch_email, Running
<1>7. \A n \in Mails, k \in Attempts : Accept(n, k) \/ Decline(n, k) => mail'[m] = mail[m]
  BY DEF Accept, Decline
<1>8. QED
  BY <1>2, <1>3, <1>4, <1>5, <1>6, <1>7 DEF Next, vars

(* Each step of a thread brings it closer to its end, by a measure that    *)
(* cannot fall for ever, and nothing sets it back: no run of errors,       *)
(* timeouts and late answers makes _deliver_with_retry go on for ever.     *)
THEOREM ThreadsDrawNearer ==
  Spec => /\ [](\A m \in Mails : Remaining(m) \in Nat /\ (Running(m) <=> Remaining(m) # 0))
          /\ [][\A m \in Mails :
                  /\ _deliver_with_retry(m) => Remaining(m)' < Remaining(m)
                  /\ Running(m) => Remaining(m)' <= Remaining(m)]_vars
<1>1. DeliveryInv =>
        \A m \in Mails : Remaining(m) \in Nat /\ (Running(m) <=> Remaining(m) # 0)
  BY RemainingIsNatural
<1>2. DeliveryInv /\ [Next]_vars =>
        [\A m \in Mails :
           /\ _deliver_with_retry(m) => Remaining(m)' < Remaining(m)
           /\ Running(m) => Remaining(m)' <= Remaining(m)]_vars
  BY ThreadStepNears, NothingDrawsAway
<1>3. QED
  BY <1>1, <1>2, DeliveryInvariant, PTL DEF Spec

===========================================================================
