-------------------------- MODULE EmailThrottle --------------------------
(***************************************************************************)
(* reserve_email_slot of core/maintenance.py: the per-recipient cooldown   *)
(* and the daily limit that every mail of the wiki passes, kept in the     *)
(* memory of the process.  Time is counted in ticks.                       *)
(*                                                                         *)
(* A send is a record that the program does not keep as such: the deque    *)
(* _recent_sends holds the times only and the dictionary                   *)
(* _last_send_by_recipient the last time of each recipient.  The variable  *)
(* sent is the truth they stand for, all that was sent since the start.    *)
(***************************************************************************)
EXTENDS Naturals, FiniteSets

CONSTANTS
  Recipients,      \* mail addresses, stripped and in lower case
  None,            \* no entry in a dictionary
  DailyLimit,      \* EMAIL_DAILY_LIMIT
  ReserveDivisor,  \* 10: this part of the limit is kept for password resets
  Cooldown,        \* EMAIL_COOLDOWN_SECONDS, in ticks
  Day,             \* 24 hours, in ticks
  MaxTracked,      \* 1000: entries of the dictionary above which it is pruned
  MaxTime          \* bound: the clock stops here

ASSUME ThrottleAssumptions ==
  /\ {DailyLimit, Cooldown, Day, MaxTracked, MaxTime} \subseteq Nat
  /\ ReserveDivisor \in Nat \ {0}
  /\ None \notin Nat

VARIABLES
  now,                     \* datetime.utcnow()
  _recent_sends,           \* the sends that the deque holds
  _last_send_by_recipient, \* recipient -> time of the last send, or None
  sent                     \* every send since the process started

vars == <<now, _recent_sends, _last_send_by_recipient, sent>>

Purposes == {"default", "verify", "test", "reset"}

(* A send lies in the past, or is of this moment. *)
Send == [id : Nat \ {0}, to : Recipients, purpose : Purposes, time : 0..now]

TypeOK ==
  /\ now \in 0..MaxTime
  /\ _recent_sends \subseteq Send
  /\ _last_send_by_recipient \in [Recipients -> 0..now \cup {None}]
  /\ sent \subseteq Send

Init ==
  /\ now = 0
  /\ _recent_sends = {}
  /\ _last_send_by_recipient = [r \in Recipients |-> None]
  /\ sent = {}

---------------------------------------------------------------------------

\* Mutant: nothing is kept for password resets.
WholeLimit(purpose) == DailyLimit

(* Only password resets may use the reserved part of the limit. *)
Limit(purpose) ==
  IF purpose = "reset" THEN DailyLimit ELSE DailyLimit - DailyLimit \div ReserveDivisor

\* Mutant: the window is one tick too short.
RecentOfShorterDay == {s \in _recent_sends : s.time + Day > now}

\* Mutant: the deque is never shortened.
RecentOfAllDays == _recent_sends

(* popleft while the head is older than a day: what remains starts with the *)
(* first send that is not.                                                  *)
Recent ==
  {s \in _recent_sends : \E head \in _recent_sends : head.id <= s.id /\ head.time + Day >= now}

\* Mutant: the last send itself is not looked at.
NeverCooling(to) == FALSE

Cooling(to) ==
  LET last == _last_send_by_recipient[to]
  IN  last # None /\ last + Cooldown > now

\* Mutant: the time when the recipient is free again.
StampOfNextSend == now + Cooldown

(* What a send leaves behind, in the deque and in the dictionary. *)
Stamp == now

Refused(to, purpose) == Cooling(to) \/ Cardinality(Recent) >= Limit(purpose)

(* The recipients to forget when the dictionary has grown too large. *)
Stale ==
  IF Cardinality({r \in Recipients : _last_send_by_recipient[r] # None}) > MaxTracked
  THEN {r \in Recipients : /\ _last_send_by_recipient[r] # None
                           /\ _last_send_by_recipient[r] + Cooldown < now}
  ELSE {}

(* The loop that forgets them is written with the variable that held the   *)
(* recipient.  After it, the time of the send is stored under the last     *)
(* recipient forgotten, whichever the dictionary lists last.               *)
Keys(to) == IF Stale = {} THEN {to} ELSE Stale

reserve_email_slot(to, purpose) ==
  LET send == [id |-> Cardinality(sent) + 1, to |-> to, purpose |-> purpose, time |-> Stamp]
  IN  /\ ~Refused(to, purpose)
      /\ _recent_sends' = Recent \cup {send}
      /\ \E key \in Keys(to) :
           _last_send_by_recipient' =
             [r \in Recipients |-> IF r = key THEN Stamp
                                   ELSE IF r \in Stale THEN None
                                   ELSE _last_send_by_recipient[r]]
      /\ sent' = sent \cup {send}
      /\ UNCHANGED now

(* A request that is refused has still shortened the deque. *)
RefuseSlot(to, purpose) ==
  /\ Refused(to, purpose)
  /\ _recent_sends' = Recent
  /\ UNCHANGED <<now, _last_send_by_recipient, sent>>

Tick ==
  /\ now < MaxTime
  /\ now' = now + 1
  /\ UNCHANGED <<_recent_sends, _last_send_by_recipient, sent>>

(* A restart of the process forgets all. *)
Restart ==
  /\ _recent_sends' = {}
  /\ _last_send_by_recipient' = [r \in Recipients |-> None]
  /\ sent' = {}
  /\ UNCHANGED now

Next ==
  \/ \E to \in Recipients, purpose \in Purposes :
       reserve_email_slot(to, purpose) \/ RefuseSlot(to, purpose)
  \/ Tick
  \/ Restart

Spec == Init /\ [][Next]_vars

---------------------------------------------------------------------------

(* The sends of the last day, and those of them that are no resets. *)
LastDay == {s \in sent : s.time + Day >= now}

Ordinary(sends) == {s \in sends : s.purpose # "reset"}

(* Between two starts of the process, no day sees more than DailyLimit     *)
(* mails, whatever their purposes (maintenance.py:151).                    *)
NoDayExceedsTheLimit == Cardinality(LastDay) <= DailyLimit

(* Nor more than the unreserved part of it in ordinary mails: a password   *)
(* reset finds no room only when resets have used the reserve.             *)
ResetsKeepTheirReserve ==
  Cardinality(Ordinary(LastDay)) <= DailyLimit - DailyLimit \div ReserveDivisor

(* Two mails to one address are at least the cooldown apart ("the minimal  *)
(* interval until the same address is mailed again", README.md:148).       *)
SendsToOneAddressAreApart ==
  \A s, t \in sent : s.to = t.to /\ s.id < t.id => t.time >= s.time + Cooldown

(* The deque and the dictionary, shortened and pruned as they are, decide  *)
(* as the full list of the sends would: a mail is refused exactly when its *)
(* address was mailed within the cooldown, or when the last day holds as   *)
(* many mails as its purpose may use (maintenance.py:151).                 *)
RefusalsMatchTheSends ==
  \A to \in Recipients, purpose \in Purposes :
    Refused(to, purpose) <=>
      \/ \E s \in sent : s.to = to /\ s.time + Cooldown > now
      \/ Cardinality(LastDay) >= Limit(purpose)

===========================================================================
