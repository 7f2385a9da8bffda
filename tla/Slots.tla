------------------------------- MODULE Slots -------------------------------
(***************************************************************************)
(* The delivery slots that a customer is offered and the times that an     *)
(* order may be scheduled for (orders/actions/checkout.py): one function   *)
(* computes the first, another checks the second, from the same hours,     *)
(* holidays and preparation time of the store.                             *)
(*                                                                         *)
(* Times count half minutes from today's midnight, so that the second half *)
(* of a minute stands for its seconds.                                     *)
(***************************************************************************)
EXTENDS Integers

CONSTANTS
    Hours,      \* opening and closing hours, as pairs
    Moments,    \* the time of day it may be
    Preps,      \* preparation times
    Spans,      \* the first day that slots are asked for and the number of days, as pairs
    Holidays    \* days, counted from today

Hour == 120
Day == 24 * Hour

ASSUME SlotsAssumption ==
    /\ Hours \subseteq (0..Day - 1) \X (0..Day - 1)
    /\ Moments \subseteq 0..Day - 1
    /\ Preps \subseteq Nat
    /\ Spans \subseteq Int \X (1..14)
-----------------------------------------------------------------------------
\* A time up to a half hour: to it; a later one: to the next hour; and an hour that has
\* begun: to the next.
NextHalfHour(t) ==
    LET past == t % Hour
        mark == (t - past) + (IF past \div 2 \in 1..30 THEN Hour \div 2 ELSE 0)
    IN  IF mark % Hour = 0 /\ mark < t THEN mark + Hour ELSE mark

\* The slots of a day start every two hours, from the opening or once the goods are ready.
SlotsOf(day, hours, ready) ==
    LET opens  == day * Day + hours[1]
        closes == day * Day + hours[2]
        first  == IF opens < ready THEN NextHalfHour(ready) ELSE opens
    IN  {s \in {first + 2 * Hour * k : k \in 0..11} : s < closes}

\* available_slots_for_cart
AvailableSlots(hours, now, prep, span) ==
    UNION {SlotsOf(day, hours, now + prep) : day \in (span[1]..span[1] + span[2] - 1) \ Holidays}

\* validate_schedule_slot
SlotAccepted(slot, hours, now, prep) ==
    /\ slot > now /\ slot <= now + 7 * Day
    /\ slot \div Day \notin Holidays
    /\ slot >= now + prep
    /\ hours[1] <= slot % Day /\ slot % Day <= hours[2]
-----------------------------------------------------------------------------
\* Every slot that is offered is accepted at that moment, except beyond seven days, at this
\* very moment, and in the seconds after a half hour; and on a day of which a half hour is left, and would
\* be accepted, a slot is offered, except in the seconds after an hour.
SlotsHonoured ==
    \A hours \in Hours, now \in Moments, prep \in Preps, span \in Spans :
        LET offered == AvailableSlots(hours, now, prep, span)
            ready   == now + prep
        IN  /\ \A s \in offered :
                  \/ SlotAccepted(s, hours, now, prep)
                  \/ s > now + 7 * Day
                  \/ s = now
                  \/ s = ready - 1 /\ s % Hour = Hour \div 2
            /\ \A day \in span[1]..span[1] + span[2] - 1 :
                  \/ \E s \in offered : s \div Day = day
                  \/ ready % Hour = 1
                  \/ \A half \in 0..47 :
                        LET t == day * Day + half * (Hour \div 2)
                        IN  t % Day < hours[2] => ~SlotAccepted(t, hours, now, prep)
=============================================================================
