--------------------------- MODULE MCPeriodClock ---------------------------
(* Calendars for PeriodClock: the days of the week, the send hours and the *)
(* two kinds of resends that an administrator can choose.                  *)
EXTENDS PeriodClock

Recurring(days, period, send, type, resendHour, quantity) ==
    [subtype |-> "recurring", sendHour |-> send, daysOfWeek |-> days,
     questionPeriod |-> period, date |-> 0,
     resendType |-> type, resendHour |-> resendHour, resendQuantity |-> quantity]

WeeklyCalendars ==
    {Recurring(days, 1, 19, "time", resendHour, 2) :
        days \in {{}, {1}, {0, 6}, {1, 3, 5}}, resendHour \in {8, 21}}
    \cup {Recurring({2, 3}, 1, 0, "hours", 7, 3), Recurring({4}, 1, 23, "none", 8, 2),
          Recurring({}, 2, 9, "none", 8, 2)}

(* These are tried with outages of up to 30 hours; the last is a one-time  *)
(* survey on the tenth day.                                                *)
OutageCalendars ==
    {Recurring({1, 3}, 1, 19, "hours", 5, 3), Recurring({1}, 1, 12, "time", 8, 2),
     [Recurring({}, 1, 10, "hours", 6, 2) EXCEPT !.subtype = "one_time", !.date = Days(9)]}

MCCalendars == WeeklyCalendars \cup OutageCalendars

MCMaxMissed == [s \in MCCalendars |-> IF s \in OutageCalendars THEN 30 ELSE 0]
=============================================================================
