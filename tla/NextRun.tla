------------------------------- MODULE NextRun -------------------------------
(****************************************************************************)
(* The calendar of a backup schedule: volume_backup_config.go, NextRun.     *)
(*                                                                          *)
(* A time is a natural number of ticks of the program's clock since the     *)
(* midnight (UTC) at which the model starts. An hour has Hour ticks, a day  *)
(* Day ticks, and the month of day d has MonthLength[d] days: adding one    *)
(* month to a date of that month (AddDate(0, 1, 0)) moves it by exactly     *)
(* that many days, overflowing into the month after next when the next one  *)
(* is too short.                                                            *)
(****************************************************************************)
EXTENDS Integers

CONSTANTS Hour, Day, Horizon, MonthLength

(* The times a run of a model reaches, and the days they lie on.            *)
Times == 0 .. Horizon
Days == {t \div Day : t \in Times}

ASSUME CalendarAssumption ==
    /\ Hour \in Nat \ {0}
    /\ Day \in Nat \ {0}
    /\ Horizon \in Nat
    /\ MonthLength \in [Days -> Nat \ {0}]

(* The interval is an unchecked string of the request body; every value the *)
(* code has no case for behaves like "".                                    *)
BackupInterval == {"HOURLY", "DAILY", "WEEKLY", "MONTHLY"}
Intervals == BackupInterval \cup {""}

(* A schedule: its interval and its time of day. An unparsable time of day  *)
(* is 0, midnight, as in parseTimeOfDay.                                    *)
Plan == [every : Intervals, at : 0 .. Day - 1]

StartOfDay(t) == t - (t % Day)

(* How far the loops of NextRun push a candidate that is not after `after`. *)
(* The candidate lies on the day of `after`, so one turn is enough.         *)
Stride(every, after) ==
    CASE every = "DAILY"   -> Day
      [] every = "WEEKLY"  -> 7 * Day
      [] every = "MONTHLY" -> MonthLength[after \div Day] * Day
      [] OTHER             -> 0

NextRunAt(after, plan) ==
    LET candidate == StartOfDay(after) + plan.at
    IN  IF plan.every = "HOURLY" THEN after - (after % Hour) + Hour
        ELSE IF candidate > after THEN candidate
        ELSE candidate + Stride(plan.every, after)

=============================================================================
