--------------------------- MODULE EmailDelivery ---------------------------
(***************************************************************************)
(* The delivery of mails in core/maintenance.py: each queued mail has a    *)
(* daemon thread that calls the provider up to three times; the test mail  *)
(* of an administrator is one call.  A call that the thread gave up may    *)
(* still reach the provider, at any later time, and an answer may be lost; *)
(* a restart takes all threads with it and may change the provider.        *)
(*                                                                         *)
(* The slot that the throttle grants before a mail is queued is modelled   *)
(* in EmailThrottle; here a mail may be queued at any time.                *)
(***************************************************************************)
EXTENDS Naturals, FiniteSets

CONSTANTS
  Mails,      \* everything that is ever queued
  Tests,      \* those among them that send_email_now sends
  Providers,  \* the values EMAIL_PROVIDER may have
  Retries     \* the number of EMAIL_RETRY_DELAYS

VARIABLES
  provider,  \* EMAIL_PROVIDER of the running process
  mail,      \* the thread of each mail
  request,   \* what became of each call at the provider
  copies     \* the copies of each mail that the provider has taken to deliver

vars == <<provider, mail, request, copies>>

ASSUME DeliveryAssumptions ==
  /\ Tests \subseteq Mails
  /\ Providers \subseteq {"log", "smtp", "resend"}
  /\ Retries \in Nat

---------------------------------------------------------------------------

Attempts == 0..Retries

(* A waiting thread is about to make the attempt of that number. *)
Phase == {"none", "waiting", "calling", "sent", "rejected", "given up", "lost"}

Thread == [phase : Phase, attempt : Attempts, via : Providers \cup {"none"}]

Answer == {"none", "open", "accepted", "refused", "postponed"}

TypeOK ==
  /\ provider \in Providers
  /\ mail \in [Mails -> Thread]
  /\ request \in [Mails -> [Attempts -> Answer]]
  /\ copies \in [Mails -> Nat]

Running(m) == mail[m].phase \in {"waiting", "calling"}

Settled(m) == mail[m].phase \in {"sent", "rejected", "given up", "lost"}

---------------------------------------------------------------------------
(* The process. *)

Init ==
  /\ provider \in Providers
  /\ mail = [m \in Mails |-> [phase |-> "none", attempt |-> 0, via |-> "none"]]
  /\ request = [m \in Mails |-> [k \in Attempts |-> "none"]]
  /\ copies = [m \in Mails |-> 0]

(* _dispatch_email and send_email_now draw the send_id, one for all calls. *)
_dispatch_email(m) ==
  /\ mail[m].phase = "none"
  /\ mail' = [mail EXCEPT ![m] = [phase |-> "waiting", attempt |-> 0, via |-> provider]]
  /\ UNCHANGED <<provider, request, copies>>

End(m, phase) == mail' = [mail EXCEPT ![m] = [@ EXCEPT !.phase = phase]]

_deliver_log(m) ==
  /\ mail[m].phase = "waiting" /\ mail[m].via = "log"
  /\ End(m, "sent")
  /\ copies' = [copies EXCEPT ![m] = @ + 1]
  /\ UNCHANGED <<provider, request>>

(* The request leaves; the thread waits for the answer. *)
Call(m) ==
  /\ mail[m].phase = "waiting" /\ mail[m].via # "log"
  /\ mail' = [mail EXCEPT ![m] = [@ EXCEPT !.phase = "calling"]]
  /\ request' = [request EXCEPT ![m] = [@ EXCEPT ![mail[m].attempt] = "open"]]
  /\ UNCHANGED <<provider, copies>>

AnswerTo(m) == request[m][mail[m].attempt]

Success(m) ==
  /\ mail[m].phase = "calling" /\ AnswerTo(m) = "accepted"
  /\ End(m, "sent")
  /\ UNCHANGED <<provider, request, copies>>

(* The mail is accepted before QUIT, whose answer of 5xx counts as well.   *)
FailsAtQuit(m) == mail[m].via = "smtp" /\ AnswerTo(m) = "accepted"

PermanentError(m) ==
  /\ mail[m].phase = "calling"
  /\ AnswerTo(m) = "refused" \/ FailsAtQuit(m)
  /\ End(m, "rejected")
  /\ UNCHANGED <<provider, request, copies>>

\* Mutant: a test mail is tried again like any other.
LastAttemptOfAny(m) == Retries

(* send_email_now calls once and passes the error on. *)
LastAttempt(m) == IF m \in Tests THEN 0 ELSE Retries

\* Mutant: the last attempt is made again and again.
AfterErrorForever(m) ==
  IF mail[m].attempt = LastAttempt(m)
    THEN [mail[m] EXCEPT !.phase = "waiting"]
    ELSE [mail[m] EXCEPT !.phase = "waiting", !.attempt = @ + 1]

\* Mutant: one attempt too many.
AfterErrorOnceMore(m) ==
  IF mail[m].attempt > LastAttempt(m)
    THEN [mail[m] EXCEPT !.phase = "given up"]
    ELSE [mail[m] EXCEPT !.phase = "waiting", !.attempt = @ + 1]

AfterError(m) ==
  IF mail[m].attempt = LastAttempt(m)
    THEN [mail[m] EXCEPT !.phase = "given up"]
    ELSE [mail[m] EXCEPT !.phase = "waiting", !.attempt = @ + 1]

(* 4xx of SMTP, at QUIT too; 409, 429 and 5xx of Resend; or no answer      *)
(* within the timeout, whatever the provider did or will do with the       *)
(* request.                                                                *)
TransientError(m) ==
  /\ mail[m].phase = "calling"
  /\ mail' = [mail EXCEPT ![m] = AfterError(m)]
  /\ UNCHANGED <<provider, request, copies>>

(* Daemon threads end with the process. *)
Restart ==
  /\ mail' = [m \in Mails |-> IF Running(m) THEN [mail[m] EXCEPT !.phase = "lost"] ELSE mail[m]]
  /\ provider' \in Providers
  /\ UNCHANGED <<request, copies>>

---------------------------------------------------------------------------
(* The provider. *)

\* Mutant: every attempt has a key of its own.
NewKeyEachTime(m) == FALSE

(* Resend knows the Idempotency-Key of a request it has accepted before. *)
KnowsKey(m) == mail[m].via = "resend" /\ \E k \in Attempts : request[m][k] = "accepted"

Accept(m, k) ==
  /\ request[m][k] = "open"
  /\ request' = [request EXCEPT ![m] = [@ EXCEPT ![k] = "accepted"]]
  /\ copies' = IF KnowsKey(m) THEN copies ELSE [copies EXCEPT ![m] = @ + 1]
  /\ UNCHANGED <<provider, mail>>

Decline(m, k) ==
  /\ request[m][k] = "open"
  /\ \E answer \in {"refused", "postponed"} :
       request' = [request EXCEPT ![m] = [@ EXCEPT ![k] = answer]]
  /\ UNCHANGED <<provider, mail, copies>>

---------------------------------------------------------------------------

_deliver_with_retry(m) ==
  _deliver_log(m) \/ Call(m) \/ Success(m) \/ PermanentError(m) \/ TransientError(m)

Next ==
  \/ \E m \in Mails : _dispatch_email(m) \/ _deliver_with_retry(m)
  \/ \E m \in Mails, k \in Attempts : Accept(m, k) \/ Decline(m, k)
  \/ Restart

(* Threads run, sleeps and calls end: every call has a timeout.  Providers *)
(* owe nothing, and the process may restart at any time or never.          *)
Spec == Init /\ [][Next]_vars /\ \A m \in Mails : WF_vars(_deliver_with_retry(m))

---------------------------------------------------------------------------

(* With Resend a mail goes out at most once, although a call that timed    *)
(* out may have been accepted, or be accepted during the next one          *)
(* (README.md:346).                                                        *)
NoSecondCopyWithKey == \A m \in Mails : mail[m].via = "resend" => copies[m] <= 1

(* The copies that may go out: one with the key, one of a mail that is     *)
(* only tried once, otherwise one for each attempt.                        *)
Allowance(m) ==
  IF mail[m].phase = "none" THEN 0
  ELSE IF mail[m].via = "smtp" /\ m \notin Tests THEN Retries + 1 ELSE 1

Status(m) ==
  CASE Running(m) -> "pending"
    [] mail[m].phase \in {"rejected", "given up"} -> "failed"
    [] OTHER -> mail[m].phase

Statuses == [m \in Mails |-> Status(m)]

Allowances == [m \in Mails |-> Allowance(m)]

Promise == INSTANCE MailPromise WITH
  MaxCopies <- Retries + 1,
  status    <- Statuses,
  allowance <- Allowances

(* The threads, the retries and the provider keep the promise of           *)
(* MailPromise: one outcome for each mail, "sent" only of a mail that went *)
(* out, and no more copies than its way of delivery allows.                *)
PromiseKept == Promise!PromiseSpec

(* Every mail that is queued ends sent, failed or, at a restart, lost: no  *)
(* thread retries for ever or waits for an answer that never comes.        *)
EveryMailIsSettled == \A m \in Mails : Running(m) ~> Settled(m)

===========================================================================
