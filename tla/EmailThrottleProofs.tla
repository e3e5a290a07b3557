----------------------- MODULE EmailThrottleProofs -----------------------
(***************************************************************************)
(* For every limit, cooldown, number of recipients and length of a run:    *)
(* the daily limit and its reserve hold.  As long as the dictionary of     *)
(* recipients never grows beyond its pruning size, the cooldown holds too, *)
(* and no mail is refused but for one of the two.                          *)
(***************************************************************************)
EXTENDS EmailThrottle, FiniteSetTheorems, TLAPS

(* What the deque must be for the limit to follow: it misses no send of    *)
(* the last day, and is itself never longer than the limit.                *)
DequeHoldsTheLastDay ==
  /\ IsFiniteSet(sent) /\ IsFiniteSet(_recent_sends)
  /\ LastDay \subseteq _recent_sends
  /\ Cardinality(_recent_sends) <= DailyLimit

LimitInv == TypeOK /\ DequeHoldsTheLastDay /\ ResetsKeepTheirReserve

Unreserved == DailyLimit - DailyLimit \div ReserveDivisor

LEMMA ReserveIsPartOfTheLimit ==
  /\ DailyLimit \in Nat /\ Unreserved \in Nat /\ Unreserved <= DailyLimit
  /\ \A purpose : /\ Limit(purpose) \in Nat /\ Limit(purpose) <= DailyLimit
                  /\ purpose # "reset" => Limit(purpose) = Unreserved
<1>1. DailyLimit \in Nat /\ ReserveDivisor \in Nat /\ ReserveDivisor > 0
  BY ThrottleAssumptions
<1>2. DailyLimit \div ReserveDivisor \in 0..DailyLimit
  BY <1>1, SMTT(30)
<1>3. QED
  BY <1>1, <1>2 DEF Limit, Unreserved

LEMMA RecentSends ==
  ASSUME LimitInv
  PROVE  /\ Recent \subseteq _recent_sends
         /\ IsFiniteSet(Recent)
         /\ Cardinality(Recent) \in Nat /\ Cardinality(Recent) <= DailyLimit
         /\ LastDay \subseteq Recent
<1>1. Recent \subseteq _recent_sends
  BY DEF Recent
<1>2. /\ IsFiniteSet(Recent)
      /\ Cardinality(Recent) \in Nat
      /\ Cardinality(_recent_sends) \in Nat
      /\ Cardinality(Recent) <= Cardinality(_recent_sends)
  BY <1>1, FS_Subset, FS_CardinalityType DEF LimitInv, DequeHoldsTheLastDay
<1>3. Cardinality(Recent) <= DailyLimit
  BY <1>2, ReserveIsPartOfTheLimit DEF LimitInv, DequeHoldsTheLastDay
<1>4. LastDay \subseteq Recent
  <2>1. SUFFICES ASSUME NEW s \in LastDay PROVE s \in Recent
    OBVIOUS
  <2>2. s \in _recent_sends /\ s.id <= s.id /\ s.time + Day >= now
    BY DEF LimitInv, DequeHoldsTheLastDay, LastDay, TypeOK, Send
  <2>3. QED
    BY <2>2 DEF Recent
<1>5. QED
  BY <1>1, <1>2, <1>3, <1>4

LEMMA LimitStart == Init => LimitInv
<1> SUFFICES ASSUME Init PROVE LimitInv
  OBVIOUS
<1>1. TypeOK
  BY ThrottleAssumptions DEF Init, TypeOK
<1>2. LastDay = {} /\ Ordinary(LastDay) = {}
  BY DEF Init, LastDay, Ordinary
<1>3. DequeHoldsTheLastDay
  BY <1>2, FS_EmptySet, ReserveIsPartOfTheLimit DEF Init, DequeHoldsTheLastDay
<1>4. ResetsKeepTheirReserve
  BY <1>2, FS_EmptySet, ReserveIsPartOfTheLimit DEF ResetsKeepTheirReserve, Unreserved
<1>5. QED
  BY <1>1, <1>3, <1>4 DEF LimitInv

(* The mail that is let through. *)
NewSend(to, purpose) ==
  [id |-> Cardinality(sent) + 1, to |-> to, purpose |-> purpose, time |-> now]

LEMMA SlotType ==
  ASSUME LimitInv, NEW to \in Recipients, NEW purpose \in Purposes, reserve_email_slot(to, purpose)
  PROVE  TypeOK'
<1>1. Cardinality(sent) + 1 \in Nat \ {0}
  BY FS_CardinalityType DEF LimitInv, DequeHoldsTheLastDay
<1>2. NewSend(to, purpose) \in Send
  BY <1>1 DEF NewSend, Send, LimitInv, TypeOK
<1>3. /\ _recent_sends' = Recent \cup {NewSend(to, purpose)}
      /\ sent' = sent \cup {NewSend(to, purpose)}
      /\ now' = now
  BY DEF reserve_email_slot, NewSend, Stamp
<1>4. Send' = Send
  BY <1>3 DEF Send
<1>5. _last_send_by_recipient' \in [Recipients -> 0..now \cup {None}]
  <2>1. PICK key \in Keys(to) :
          _last_send_by_recipient' =
            [r \in Recipients |-> IF r = key THEN now
                                  ELSE IF r \in Stale THEN None
                                  ELSE _last_send_by_recipient[r]]
    BY DEF reserve_email_slot, Stamp
  <2>2. QED
    BY <2>1, ThrottleAssumptions DEF LimitInv, TypeOK
<1>6. QED
  BY <1>2, <1>3, <1>4, <1>5, RecentSends DEF LimitInv, TypeOK

LEMMA SlotKeepsTheLimit ==
  ASSUME LimitInv, NEW to \in Recipients, NEW purpose \in Purposes, reserve_email_slot(to, purpose)
  PROVE  DequeHoldsTheLastDay' /\ ResetsKeepTheirReserve'
<1> DEFINE send == NewSend(to, purpose)
<1>1. /\ Cardinality(Recent) < Limit(purpose)
      /\ _recent_sends' = Recent \cup {send}
      /\ sent' = sent \cup {send}
      /\ now' = now
  <2>1. ~(Cardinality(Recent) >= Limit(purpose))
    BY DEF reserve_email_slot, Refused
  <2>2. QED
    BY <2>1, RecentSends, ReserveIsPartOfTheLimit DEF reserve_email_slot, NewSend, Stamp
<1> HIDE DEF send
<1>2. /\ IsFiniteSet(_recent_sends') /\ IsFiniteSet(sent')
      /\ Cardinality(_recent_sends') \in Nat
      /\ Cardinality(_recent_sends') <= Limit(purpose)
  <2>1. /\ IsFiniteSet(Recent \cup {send})
        /\ Cardinality(Recent \cup {send}) \in Nat
        /\ Cardinality(Recent \cup {send}) <= Cardinality(Recent) + 1
    <3>1. IsFiniteSet(Recent) /\ Cardinality(Recent) \in Nat
      BY RecentSends
    <3>2. /\ IsFiniteSet(Recent \cup {send})
          /\ Cardinality(Recent \cup {send}) =
               IF send \in Recent THEN Cardinality(Recent) ELSE Cardinality(Recent) + 1
      BY <3>1, FS_AddElement
    <3>3. QED
      BY <3>1, <3>2
  <2>2. IsFiniteSet(sent \cup {send})
    BY FS_AddElement DEF LimitInv, DequeHoldsTheLastDay
  <2>3. QED
    BY <1>1, <2>1, <2>2, RecentSends, ReserveIsPartOfTheLimit
<1>3. LastDay' \subseteq LastDay \cup {send}
  BY <1>1 DEF LastDay
<1>4. LastDay' \subseteq _recent_sends'
  BY <1>1, <1>3, RecentSends
<1>5. DequeHoldsTheLastDay'
  BY <1>2, <1>4, ReserveIsPartOfTheLimit DEF DequeHoldsTheLastDay
<1>6. Cardinality(Ordinary(LastDay')) <= Unreserved
  <2>1. CASE purpose = "reset"
    <3>1. Ordinary(LastDay') \subseteq Ordinary(LastDay)
      BY <1>3, <2>1 DEF Ordinary, send, NewSend
    <3>2. IsFiniteSet(Ordinary(LastDay)) /\ Cardinality(Ordinary(LastDay)) <= Unreserved
      BY FS_Subset DEF LimitInv, DequeHoldsTheLastDay, ResetsKeepTheirReserve, Ordinary, LastDay, Unreserved
    <3>3. /\ Cardinality(Ordinary(LastDay')) <= Cardinality(Ordinary(LastDay))
          /\ Cardinality(Ordinary(LastDay)) \in Nat
          /\ Cardinality(Ordinary(LastDay')) \in Nat
      BY <3>1, <3>2, FS_Subset, FS_CardinalityType
    <3>4. QED
      BY <3>2, <3>3, ReserveIsPartOfTheLimit
  <2>2. CASE purpose # "reset"
    <3>1. Ordinary(LastDay') \subseteq _recent_sends'
      BY <1>4 DEF Ordinary
    <3>2. /\ Cardinality(Ordinary(LastDay')) <= Cardinality(_recent_sends')
          /\ Cardinality(Ordinary(LastDay')) \in Nat
      BY <1>2, <3>1, FS_Subset, FS_CardinalityType
    <3>3. QED
      BY <1>2, <2>2, <3>2, ReserveIsPartOfTheLimit
  <2>3. QED
    BY <2>1, <2>2
<1>7. ResetsKeepTheirReserve'
  BY <1>6 DEF ResetsKeepTheirReserve, Unreserved, Ordinary
<1>8. QED
  BY <1>5, <1>7

(* The other steps send nothing, and the last day only loses sends. *)
LEMMA QuietStepKeepsTheLimit ==
  ASSUME LimitInv, TypeOK', LastDay' \subseteq LastDay,
         IsFiniteSet(sent'), _recent_sends' \subseteq _recent_sends, LastDay' \subseteq _recent_sends'
  PROVE  LimitInv'
<1>1. /\ IsFiniteSet(_recent_sends')
      /\ Cardinality(_recent_sends') \in Nat /\ Cardinality(_recent_sends) \in Nat
      /\ Cardinality(_recent_sends') <= Cardinality(_recent_sends)
  BY FS_Subset, FS_CardinalityType DEF LimitInv, DequeHoldsTheLastDay
<1>2. DequeHoldsTheLastDay'
  BY <1>1, ReserveIsPartOfTheLimit DEF LimitInv, DequeHoldsTheLastDay
<1>3. /\ Cardinality(Ordinary(LastDay')) \in Nat /\ Cardinality(Ordinary(LastDay)) \in Nat
      /\ Cardinality(Ordinary(LastDay')) <= Cardinality(Ordinary(LastDay))
  <2>1. Ordinary(LastDay') \subseteq Ordinary(LastDay) /\ IsFiniteSet(Ordinary(LastDay))
    BY FS_Subset DEF LimitInv, DequeHoldsTheLastDay, Ordinary, LastDay
  <2>2. QED
    BY <2>1, FS_Subset, FS_CardinalityType
<1>4. Cardinality(Ordinary(LastDay)) <= Unreserved
  BY DEF LimitInv, ResetsKeepTheirReserve, Unreserved
<1>5. Cardinality(Ordinary(LastDay')) <= Unreserved
  BY <1>3, <1>4, ReserveIsPartOfTheLimit
<1>6. ResetsKeepTheirReserve'
  BY <1>5 DEF ResetsKeepTheirReserve, Unreserved, Ordinary
<1>7. QED
  BY <1>2, <1>6 DEF LimitInv

LEMMA LimitStep == LimitInv /\ [Next]_vars => LimitInv'
<1> SUFFICES ASSUME LimitInv, [Next]_vars PROVE LimitInv'
  OBVIOUS
<1>1. ASSUME NEW to \in Recipients, NEW purpose \in Purposes, reserve_email_slot(to, purpose)
      PROVE  LimitInv'
  BY <1>1, SlotType, SlotKeepsTheLimit DEF LimitInv
<1>2. ASSUME NEW to \in Recipients, NEW purpose \in Purposes, RefuseSlot(to, purpose)
      PROVE  LimitInv'
  <2>1. _recent_sends' = Recent /\ UNCHANGED <<now, _last_send_by_recipient, sent>>
    BY <1>2 DEF RefuseSlot
  <2>2. TypeOK' /\ LastDay' = LastDay
    BY <2>1, RecentSends DEF LimitInv, TypeOK, LastDay, Send
  <2>3. QED
    BY <2>1, <2>2, RecentSends, QuietStepKeepsTheLimit DEF LimitInv, DequeHoldsTheLastDay
<1>3. CASE Tick
  <2>1. /\ now' = now + 1 /\ now < MaxTime
        /\ UNCHANGED <<_recent_sends, _last_send_by_recipient, sent>>
    BY <1>3 DEF Tick
  <2>2. now \in Nat /\ MaxTime \in Nat /\ Day \in Nat /\ now' \in 0..MaxTime
    BY <2>1, ThrottleAssumptions DEF LimitInv, TypeOK
  <2>3. Send \subseteq Send'
    BY <2>1, <2>2 DEF Send
  <2>4. 0..now \subseteq 0..now'
    BY <2>1, <2>2
  <2>5. TypeOK'
    BY <2>1, <2>2, <2>3, <2>4 DEF LimitInv, TypeOK
  <2>6. LastDay' \subseteq LastDay
    BY <2>1, <2>2 DEF LastDay, LimitInv, TypeOK, Send
  <2>7. QED
    BY <2>1, <2>5, <2>6, QuietStepKeepsTheLimit DEF LimitInv, DequeHoldsTheLastDay
<1>4. CASE Restart
  <2>1. /\ _recent_sends' = {} /\ sent' = {} /\ now' = now
        /\ _last_send_by_recipient' = [r \in Recipients |-> None]
    BY <1>4 DEF Restart
  <2>2. TypeOK'
    BY <2>1 DEF LimitInv, TypeOK, Send
  <2>3. LastDay' = {}
    BY <2>1 DEF LastDay
  <2>4. QED
    BY <2>1, <2>2, <2>3, FS_EmptySet, QuietStepKeepsTheLimit
<1>5. CASE UNCHANGED vars
  BY <1>5 DEF vars, LimitInv, TypeOK, Send, DequeHoldsTheLastDay, LastDay, ResetsKeepTheirReserve,
              Ordinary
<1>6. QED
  BY <1>1, <1>2, <1>3, <1>4, <1>5 DEF Next

(* reserve_email_slot keeps its deque, its dictionary and the clock well   *)
(* typed, and records no send of the future.                               *)
THEOREM ThrottleTypeCorrect == Spec => []TypeOK
<1>1. LimitInv => TypeOK
  BY DEF LimitInv
<1>2. QED
  BY <1>1, LimitStart, LimitStep, PTL DEF Spec

(* Whatever the clock and the requests do, the mails of the last day are   *)
(* never more than the limit: the deque, pruned at its head only, misses   *)
(* none of them.                                                           *)
THEOREM DailyLimitHolds == Spec => []NoDayExceedsTheLimit
<1>1. LimitInv => NoDayExceedsTheLimit
  <2> SUFFICES ASSUME LimitInv PROVE NoDayExceedsTheLimit
    OBVIOUS
  <2>1. /\ Cardinality(LastDay) \in Nat /\ Cardinality(_recent_sends) \in Nat
        /\ Cardinality(LastDay) <= Cardinality(_recent_sends)
    BY FS_Subset, FS_CardinalityType DEF LimitInv, DequeHoldsTheLastDay
  <2>2. QED
    BY <2>1, ReserveIsPartOfTheLimit DEF LimitInv, DequeHoldsTheLastDay, NoDayExceedsTheLimit
<1>2. QED
  BY <1>1, LimitStart, LimitStep, PTL DEF Spec

(* Ordinary mails of the last day never use the part of the limit that is  *)
(* kept for password resets.                                               *)
THEOREM ReserveHolds == Spec => []ResetsKeepTheirReserve
<1>1. LimitInv => ResetsKeepTheirReserve
  BY DEF LimitInv
<1>2. QED
  BY <1>1, LimitStart, LimitStep, PTL DEF Spec

---------------------------------------------------------------------------
(* The cooldown. *)

(* The dictionary knows a time no earlier than any send to a recipient,    *)
(* and a new send has an id above all others.                              *)
DictionaryIsUpToDate ==
  \A s \in sent : /\ s.id <= Cardinality(sent)
                  /\ _last_send_by_recipient[s.to] # None
                  /\ s.time <= _last_send_by_recipient[s.to]

CooldownInv == DictionaryIsUpToDate /\ SendsToOneAddressAreApart

LEMMA CooldownSlot ==
  ASSUME LimitInv, CooldownInv, Stale = {},
         NEW to \in Recipients, NEW purpose \in Purposes, reserve_email_slot(to, purpose)
  PROVE  CooldownInv'
<1> DEFINE send == NewSend(to, purpose)
           last == _last_send_by_recipient
<1>1. /\ ~Cooling(to)
      /\ last' = [r \in Recipients |-> IF r = to THEN now ELSE last[r]]
      /\ sent' = sent \cup {send}
      /\ now' = now
  BY DEF reserve_email_slot, Refused, Keys, NewSend, Stamp
<1>2. /\ now \in Nat /\ Cooldown \in Nat
      /\ last \in [Recipients -> 0..now \cup {None}]
      /\ \A s \in sent : s.id \in Nat /\ s.time \in 0..now /\ s.to \in Recipients
  BY ThrottleAssumptions DEF LimitInv, TypeOK, Send
<1>3. send.id = Cardinality(sent) + 1 /\ send.to = to /\ send.time = now
  BY DEF NewSend
<1>4. IsFiniteSet(sent) /\ Cardinality(sent) \in Nat
  BY FS_CardinalityType DEF LimitInv, DequeHoldsTheLastDay
<1> HIDE DEF send
<1>5. send \notin sent
  BY <1>3, <1>4 DEF CooldownInv, DictionaryIsUpToDate
<1>6. Cardinality(sent') = Cardinality(sent) + 1
  BY <1>1, <1>4, <1>5, FS_AddElement
<1>7. \A s \in sent : s.to = to => s.time + Cooldown <= now
  <2>1. SUFFICES ASSUME NEW s \in sent, s.to = to PROVE s.time + Cooldown <= now
    OBVIOUS
  <2>2. last[to] # None /\ s.time <= last[to]
    BY <2>1 DEF CooldownInv, DictionaryIsUpToDate
  <2>3. last[to] \in 0..now /\ ~(last[to] + Cooldown > now)
    BY <1>1, <1>2, <2>2 DEF Cooling
  <2>4. QED
    BY <1>2, <2>2, <2>3
<1>8. DictionaryIsUpToDate'
  <2>1. SUFFICES ASSUME NEW s \in sent'
                 PROVE  s.id <= Cardinality(sent') /\ last'[s.to] # None /\ s.time <= last'[s.to]
    BY DEF DictionaryIsUpToDate
  <2>2. CASE s = send
    BY <1>1, <1>2, <1>3, <1>4, <1>6, <2>2, ThrottleAssumptions
  <2>3. CASE s \in sent
    <3>1. s.id <= Cardinality(sent) /\ last[s.to] # None /\ s.time <= last[s.to]
      BY <2>3 DEF CooldownInv, DictionaryIsUpToDate
    <3>2. QED
      BY <1>1, <1>2, <1>4, <1>6, <2>3, <3>1, ThrottleAssumptions
  <2>4. QED
    BY <1>1, <2>1, <2>2, <2>3
<1>9. SendsToOneAddressAreApart'
  <2>1. SUFFICES ASSUME NEW s \in sent', NEW t \in sent', s.to = t.to, s.id < t.id
                 PROVE  t.time >= s.time + Cooldown
    BY DEF SendsToOneAddressAreApart
  <2>2. CASE s \in sent /\ t \in sent
    BY <2>1, <2>2 DEF CooldownInv, SendsToOneAddressAreApart
  <2>3. CASE s \in sent /\ t = send
    BY <1>2, <1>3, <1>7, <2>1, <2>3
  <2>4. CASE s = send
    <3>1. t.id <= Cardinality(sent) + 1
      BY <1>1, <1>2, <1>3, <1>4 DEF CooldownInv, DictionaryIsUpToDate
    <3>2. t.id \in Nat
      BY <1>1, <1>2, <1>3, <1>4
    <3>3. QED
      BY <1>3, <1>4, <2>1, <2>4, <3>1, <3>2
  <2>5. QED
    BY <1>1, <2>2, <2>3, <2>4
<1>10. QED
  BY <1>8, <1>9 DEF CooldownInv

LEMMA NeverPruned ==
  ASSUME IsFiniteSet(Recipients), Cardinality(Recipients) <= MaxTracked
  PROVE  Stale = {}
<1> DEFINE tracked == {r \in Recipients : _last_send_by_recipient[r] # None}
<1>1. /\ Cardinality(tracked) \in Nat /\ Cardinality(Recipients) \in Nat
      /\ Cardinality(tracked) <= Cardinality(Recipients)
  BY FS_Subset, FS_CardinalityType
<1>2. ~(Cardinality(tracked) > MaxTracked)
  BY <1>1, ThrottleAssumptions
<1>3. QED
  BY <1>2 DEF Stale

LEMMA CooldownStep ==
  ASSUME IsFiniteSet(Recipients), Cardinality(Recipients) <= MaxTracked,
         LimitInv, CooldownInv, [Next]_vars
  PROVE  CooldownInv'
<1>1. ASSUME NEW to \in Recipients, NEW purpose \in Purposes, reserve_email_slot(to, purpose)
      PROVE  CooldownInv'
  BY <1>1, NeverPruned, CooldownSlot
<1>2. CASE UNCHANGED <<_last_send_by_recipient, sent>>
  BY <1>2 DEF CooldownInv, DictionaryIsUpToDate, SendsToOneAddressAreApart
<1>3. CASE Restart
  BY <1>3 DEF Restart, CooldownInv, DictionaryIsUpToDate, SendsToOneAddressAreApart
<1>4. QED
  BY <1>1, <1>2, <1>3 DEF Next, RefuseSlot, Tick, vars

(* With no more recipients than the dictionary may hold before it is       *)
(* pruned, two mails to one address are always the cooldown apart.  Beyond *)
(* that size they are not, which the run throttle_pruned shows.            *)
THEOREM CooldownHolds ==
  ASSUME IsFiniteSet(Recipients), Cardinality(Recipients) <= MaxTracked
  PROVE  Spec => []SendsToOneAddressAreApart
<1>1. Init => CooldownInv
  BY DEF Init, CooldownInv, DictionaryIsUpToDate, SendsToOneAddressAreApart
<1>2. LimitInv /\ CooldownInv /\ [Next]_vars => CooldownInv'
  BY CooldownStep
<1>3. CooldownInv => SendsToOneAddressAreApart
  BY DEF CooldownInv
<1>4. QED
  BY <1>1, <1>2, <1>3, LimitStart, LimitStep, PTL DEF Spec

---------------------------------------------------------------------------
(* Refusals. *)

(* Sends are numbered in the order of their times. *)
InOrder == \A s, t \in sent : s.id <= t.id => s.time <= t.time

(* The deque holds sends only, and each time in the dictionary is that of  *)
(* a send to the recipient.                                                *)
NothingInvented ==
  /\ _recent_sends \subseteq sent
  /\ \A r \in Recipients :
       _last_send_by_recipient[r] # None =>
         \E s \in sent : s.to = r /\ s.time = _last_send_by_recipient[r]

RefusalInv == InOrder /\ NothingInvented

LEMMA RefusalSlot ==
  ASSUME LimitInv, CooldownInv, RefusalInv, Stale = {},
         NEW to \in Recipients, NEW purpose \in Purposes, reserve_email_slot(to, purpose)
  PROVE  RefusalInv'
<1> DEFINE send == NewSend(to, purpose)
           last == _last_send_by_recipient
<1>1. /\ _recent_sends' = Recent \cup {send}
      /\ last' = [r \in Recipients |-> IF r = to THEN now ELSE last[r]]
      /\ sent' = sent \cup {send}
  BY DEF reserve_email_slot, Keys, NewSend, Stamp
<1>2. send.id = Cardinality(sent) + 1 /\ send.to = to /\ send.time = now
  BY DEF NewSend
<1>3. now \in Nat /\ \A s \in sent : s.id \in Nat /\ s.time \in 0..now
  BY DEF LimitInv, TypeOK, Send
<1>4. Cardinality(sent) \in Nat
  BY FS_CardinalityType DEF LimitInv, DequeHoldsTheLastDay
<1> HIDE DEF send
<1>5. InOrder'
  <2>1. SUFFICES ASSUME NEW s \in sent', NEW t \in sent', s.id <= t.id
                 PROVE  s.time <= t.time
    BY DEF InOrder
  <2>2. CASE s \in sent /\ t \in sent
    BY <2>1, <2>2 DEF RefusalInv, InOrder
  <2>3. CASE t = send
    BY <1>1, <1>2, <1>3, <2>3
  <2>4. CASE s = send /\ t \in sent
    <3>1. t.id <= Cardinality(sent)
      BY <2>4 DEF CooldownInv, DictionaryIsUpToDate
    <3>2. QED
      BY <1>2, <1>3, <1>4, <2>1, <2>4, <3>1
  <2>5. QED
    BY <1>1, <2>2, <2>3, <2>4
<1>6. NothingInvented'
  <2>1. _recent_sends' \subseteq sent'
    BY <1>1, RecentSends DEF RefusalInv, NothingInvented
  <2>2. ASSUME NEW r \in Recipients, last'[r] # None
        PROVE  \E s \in sent' : s.to = r /\ s.time = last'[r]
    <3>1. CASE r = to
      BY <1>1, <1>2, <3>1
    <3>2. CASE r # to
      BY <1>1, <2>2, <3>2 DEF RefusalInv, NothingInvented
    <3>3. QED
      BY <3>1, <3>2
  <2>3. QED
    BY <2>1, <2>2 DEF NothingInvented
<1>7. QED
  BY <1>5, <1>6 DEF RefusalInv

LEMMA RefusalStep ==
  ASSUME IsFiniteSet(Recipients), Cardinality(Recipients) <= MaxTracked,
         LimitInv, CooldownInv, RefusalInv, [Next]_vars
  PROVE  RefusalInv'
<1>1. ASSUME NEW to \in Recipients, NEW purpose \in Purposes, reserve_email_slot(to, purpose)
      PROVE  RefusalInv'
  BY <1>1, NeverPruned, RefusalSlot
<1>2. CASE _recent_sends' \subseteq _recent_sends /\ UNCHANGED <<_last_send_by_recipient, sent>>
  BY <1>2 DEF RefusalInv, InOrder, NothingInvented
<1>3. CASE Restart
  BY <1>3 DEF Restart, RefusalInv, InOrder, NothingInvented
<1>4. QED
  BY <1>1, <1>2, <1>3, RecentSends DEF Next, RefuseSlot, Tick, vars

(* The deque, shortened, is the last day exactly. *)
LEMMA RecentIsTheLastDay ==
  ASSUME LimitInv, RefusalInv
  PROVE  Recent = LastDay
<1>1. /\ now \in Nat /\ Day \in Nat
      /\ \A s \in sent : s.id \in Nat /\ s.time \in Nat
  BY ThrottleAssumptions DEF LimitInv, TypeOK, Send
<1>2. ASSUME NEW s \in Recent
      PROVE  s \in LastDay
  <2>1. PICK head \in _recent_sends : head.id <= s.id /\ head.time + Day >= now
    BY DEF Recent
  <2>2. s \in sent /\ head \in sent
    BY RecentSends DEF RefusalInv, NothingInvented
  <2>3. head.time <= s.time
    BY <2>1, <2>2 DEF RefusalInv, InOrder
  <2>4. s.time + Day >= now
    BY <1>1, <2>1, <2>2, <2>3
  <2>5. QED
    BY <2>2, <2>4 DEF LastDay
<1>3. QED
  BY <1>2, RecentSends

(* A recipient is cooling exactly when a send to it is. *)
LEMMA CoolingAfterASend ==
  ASSUME LimitInv, CooldownInv, RefusalInv, NEW to \in Recipients
  PROVE  Cooling(to) <=> \E s \in sent : s.to = to /\ s.time + Cooldown > now
<1>1. /\ now \in Nat /\ Cooldown \in Nat
      /\ _last_send_by_recipient[to] \in Nat \cup {None}
      /\ \A s \in sent : s.time \in Nat
  BY ThrottleAssumptions DEF LimitInv, TypeOK, Send
<1>2. ASSUME Cooling(to)
      PROVE  \E s \in sent : s.to = to /\ s.time + Cooldown > now
  BY <1>2 DEF Cooling, RefusalInv, NothingInvented
<1>3. ASSUME NEW s \in sent, s.to = to, s.time + Cooldown > now
      PROVE  Cooling(to)
  <2>1. _last_send_by_recipient[to] # None /\ s.time <= _last_send_by_recipient[to]
    BY <1>3 DEF CooldownInv, DictionaryIsUpToDate
  <2>2. QED
    BY <1>1, <1>3, <2>1 DEF Cooling
<1>4. QED
  BY <1>2, <1>3

(* With no more recipients than the dictionary may hold before it is       *)
(* pruned, the deque and the dictionary decide as the list of all sends    *)
(* would: nothing is refused without its reason, and nothing let through   *)
(* against it (reserve_email_slot).                                        *)
THEOREM RefusalsAreExact ==
  ASSUME IsFiniteSet(Recipients), Cardinality(Recipients) <= MaxTracked
  PROVE  Spec => []RefusalsMatchTheSends
<1>1. Init => CooldownInv /\ RefusalInv
  BY DEF Init, CooldownInv, DictionaryIsUpToDate, SendsToOneAddressAreApart, RefusalInv, InOrder,
         NothingInvented
<1>2. LimitInv /\ CooldownInv /\ RefusalInv /\ [Next]_vars => CooldownInv' /\ RefusalInv'
  BY CooldownStep, RefusalStep
<1>3. LimitInv /\ CooldownInv /\ RefusalInv => RefusalsMatchTheSends
  BY RecentIsTheLastDay, CoolingAfterASend DEF RefusalsMatchTheSends, Refused
<1>4. QED
  BY <1>1, <1>2, <1>3, LimitStart, LimitStep, PTL DEF Spec

===========================================================================
