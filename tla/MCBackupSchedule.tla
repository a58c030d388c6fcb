-------------------------- MODULE MCBackupSchedule ---------------------------
(* Instances of BackupSchedule for TLC: days of four ticks and two hours,   *)
(* months of two and one days.                                              *)
EXTENDS BackupSchedule, TLC

MCMonthLength == [d \in Days |-> IF d % 2 = 0 THEN 2 ELSE 1]

Hourly == [every |-> "HOURLY", at |-> 0]
Daily == [every |-> "DAILY", at |-> 1]
Weekly == [every |-> "WEEKLY", at |-> 2]
Monthly == [every |-> "MONTHLY", at |-> 0]

MCPlans == {Hourly, Daily}
MCHourly == {Hourly}
MCEveryPlan == {Hourly, Daily, Weekly, Monthly}

Symmetry == Permutations(Names) \cup Permutations(Ids) \cup Permutations(Editors)
=============================================================================
