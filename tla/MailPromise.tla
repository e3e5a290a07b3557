---------------------------- MODULE MailPromise ----------------------------
(***************************************************************************)
(* What whoever queues a mail may rely on (core/maintenance.py): the mail  *)
(* is pending until the log says once that it was sent or failed, or until *)
(* the process ends; it is logged as sent only if a copy went out; and no  *)
(* more copies go out than its way of delivery allows, some of them late.  *)
(***************************************************************************)
EXTENDS Naturals

CONSTANTS
  Mails,      \* everything that is ever queued
  MaxCopies   \* the most copies that any way of delivery allows

VARIABLES
  status,     \* what became of each mail
  allowance,  \* the copies allowed for it
  copies      \* the copies that went out

promiseVars == <<status, allowance, copies>>

PromiseInit ==
  /\ status = [m \in Mails |-> "none"]
  /\ allowance = [m \in Mails |-> 0]
  /\ copies = [m \in Mails |-> 0]

Queue(m) ==
  /\ status[m] = "none"
  /\ status' = [status EXCEPT ![m] = "pending"]
  /\ \E n \in 1..MaxCopies : allowance' = [allowance EXCEPT ![m] = n]
  /\ UNCHANGED copies

(* A copy may also go out after the mail was given up or lost. *)
GoOut(m) ==
  /\ copies[m] < allowance[m]
  /\ copies' = [copies EXCEPT ![m] = @ + 1]
  /\ UNCHANGED <<status, allowance>>

Succeed(m) ==
  /\ status[m] = "pending"
  /\ status' = [status EXCEPT ![m] = "sent"]
  /\ \E n \in 1..allowance[m] : n >= copies[m] /\ copies' = [copies EXCEPT ![m] = n]
  /\ UNCHANGED allowance

Fail(m) ==
  /\ status[m] = "pending"
  /\ status' = [status EXCEPT ![m] = "failed"]
  /\ UNCHANGED <<allowance, copies>>

End ==
  /\ status' = [m \in Mails |-> IF status[m] = "pending" THEN "lost" ELSE status[m]]
  /\ UNCHANGED <<allowance, copies>>

PromiseNext ==
  \/ \E m \in Mails : Queue(m) \/ GoOut(m) \/ Succeed(m) \/ Fail(m)
  \/ End

PromiseSpec == PromiseInit /\ [][PromiseNext]_promiseVars

===========================================================================
