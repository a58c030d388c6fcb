------------------------ MODULE BackupScheduleProofs -------------------------
(****************************************************************************)
(* What TLAPS proves of BackupSchedule, for every set of containers, ids,   *)
(* requests and plans and every calendar: NextRun returns the first run     *)
(* after its argument and keeps to the plan, the variables keep their types,*)
(* no window is attempted twice, and the list shows the owner's last word   *)
(* unless the tick overtook it.                                             *)
(****************************************************************************)
EXTENDS BackupSchedule, TLAPS

(* Plans whose interval the program knows. *)
Known(plan) == plan.every \in BackupInterval

-----------------------------------------------------------------------------
(* The calendar                                                             *)

(* A run is scheduled at a time, whatever the plan.                         *)
LEMMA NextRunIsTime ==
    ASSUME NEW after \in Times, NEW plan \in Plan
    PROVE  NextRunAt(after, plan) \in Nat
<1> USE CalendarAssumption DEF Times
<1> DEFINE start == StartOfDay(after)
<1>1. start \in Nat /\ start <= after /\ after < start + Day
  BY DEF StartOfDay
<1>2. after - (after % Hour) + Hour \in Nat
  OBVIOUS
<1>3. after \div Day \in Days
  BY DEF Days
<1>4. MonthLength[after \div Day] \in Nat
  BY <1>3
<1>5. MonthLength[after \div Day] * Day \in Nat
  BY <1>4
<1>6. Stride(plan.every, after) \in Nat
  BY <1>5 DEF Stride
<1>7. plan.at \in Nat
  BY DEF Plan
<1> QED
  BY <1>1, <1>2, <1>6, <1>7 DEF NextRunAt

(* NextRun returns a run strictly after its argument, for every plan whose  *)
(* interval the program knows, whatever the lengths of the months.          *)
THEOREM NextRunIsLater ==
    ASSUME NEW after \in Times, NEW plan \in Plan, Known(plan)
    PROVE  NextRunAt(after, plan) > after
<1> USE CalendarAssumption DEF Times
<1> DEFINE start == StartOfDay(after)
<1>1. start \in Nat /\ after < start + Day
  BY DEF StartOfDay
<1>2. after - (after % Hour) + Hour > after
  OBVIOUS
<1>3. MonthLength[after \div Day] \in Nat \ {0}
  BY DEF Days
<1>4. \A m \in Nat \ {0} : m * Day \in Nat /\ m * Day >= Day
  OBVIOUS
<1>5. MonthLength[after \div Day] * Day >= Day /\ MonthLength[after \div Day] * Day \in Nat
  BY <1>3, <1>4
<1>6. plan.every # "HOURLY"
        => /\ Stride(plan.every, after) \in Nat
           /\ Stride(plan.every, after) >= Day
  BY <1>5 DEF Stride, Known, BackupInterval
<1>7. plan.at \in Nat
  BY DEF Plan
<1> QED
  BY <1>1, <1>2, <1>6, <1>7 DEF NextRunAt

(* The times a plan asks for: on the hour, or at its time of day.           *)
OnPlan(t, plan) ==
    IF plan.every = "HOURLY" THEN t % Hour = 0 ELSE t % Day = plan.at

(* Division with remainder: a quotient and a remainder there are, ...       *)
LEMMA Divided ==
    ASSUME NEW d \in Nat \ {0}, NEW n \in Int
    PROVE  \E p \in Int, s \in 0 .. d - 1 : n = p * d + s /\ n % d = s
<1>1. n \div d \in Int /\ n % d \in 0 .. d - 1 /\ n = (n \div d) * d + (n % d)
  OBVIOUS
<1> QED
  BY <1>1

(* ... no multiple but 0 lies less than the divisor from 0, ...             *)
LEMMA Multiple ==
    ASSUME NEW d \in Nat \ {0}, NEW k \in Int, k # 0
    PROVE  k * d >= d \/ k * d <= -d
<1>1. CASE k >= 1
  BY <1>1
<1>2. CASE k <= -1
  BY <1>2
<1> QED
  BY <1>1, <1>2

(* ... so that the remainder is the only one.                               *)
LEMMA OneRemainder ==
    ASSUME NEW d \in Nat \ {0}, NEW q \in Int, NEW r \in 0 .. d - 1, NEW n \in Int,
           n = q * d + r
    PROVE  n % d = r
<1>1. PICK p \in Int, s \in 0 .. d - 1 : n = p * d + s /\ n % d = s
  BY Divided
<1>2. (q - p) * d = s - r
  BY <1>1
<1>3. q - p \in Int
  OBVIOUS
<1>4. CASE q - p # 0
  <2>1. (q - p) * d >= d \/ (q - p) * d <= -d
    BY <1>3, <1>4, Multiple
  <2> QED
    BY <1>1, <1>2, <2>1
<1>5. CASE q - p = 0
  BY <1>1, <1>5
<1> QED
  BY <1>4, <1>5

(* Two times at the same place in their period are a period apart.          *)
LEMMA SameRemainder ==
    ASSUME NEW d \in Nat \ {0}, NEW a \in Int, NEW b \in Int, a % d = b % d, a < b
    PROVE  a + d <= b
<1>1. PICK p \in Int, s \in 0 .. d - 1 : a = p * d + s /\ a % d = s
  BY Divided
<1>2. PICK q \in Int, r \in 0 .. d - 1 : b = q * d + r /\ b % d = r
  BY Divided
<1>3. s = r /\ (q - p) * d = b - a /\ q - p \in Int
  BY <1>1, <1>2
<1>4. q - p # 0
  BY <1>3
<1>5. (q - p) * d >= d \/ (q - p) * d <= -d
  BY <1>3, <1>4, Multiple
<1> QED
  BY <1>3, <1>5

(* Moving a time to a place in its period, and on by whole periods, leaves   *)
(* it at that place.                                                        *)
LEMMA Moved ==
    ASSUME NEW d \in Nat \ {0}, NEW n \in Int, NEW k \in Int, NEW r \in 0 .. d - 1
    PROVE  (n - (n % d) + r + k * d) % d = r
<1> DEFINE s == n % d
           move == k * d
<1>1. PICK p \in Int : n = p * d + s /\ s \in 0 .. d - 1
  BY Divided
<1>2. move \in Int /\ p * d \in Int /\ p + k \in Int /\ p * d + move = (p + k) * d
  OBVIOUS
<1> HIDE DEF s, move
<1>3. n - s + r + move = p * d + move + r
  BY <1>1, <1>2
<1>4. n - s + r + move = (p + k) * d + r
  BY <1>2, <1>3
<1>5. n - s + r + move \in Int
  BY <1>1, <1>2
<1>6. (n - s + r + move) % d = r
  <2> DEFINE q == p + k
             m == n - s + r + move
  <2>1. q \in Int /\ m \in Int /\ m = q * d + r
    BY <1>2, <1>4, <1>5
  <2> HIDE DEF q, m
  <2>2. m % d = r
    BY <2>1, OneRemainder
  <2> QED
    BY <2>2 DEF m
<1> QED
  BY <1>6 DEF s, move

(* NextRun keeps to the plan: an hourly backup is due on the hour, every     *)
(* other one at its time of day, whatever the argument's own time of day.   *)
THEOREM NextRunIsOnPlan ==
    ASSUME NEW after \in Times, NEW plan \in Plan
    PROVE  OnPlan(NextRunAt(after, plan), plan)
<1> USE CalendarAssumption DEF Times
<1>1. CASE plan.every = "HOURLY"
  <2> /\ after \in Int
      /\ 0 \in 0 .. Hour - 1
      /\ 1 \in Int
    OBVIOUS
  <2>1. (after - (after % Hour) + 0 + 1 * Hour) % Hour = 0
    BY Moved, Zenon
  <2>2. after - (after % Hour) + Hour = after - (after % Hour) + 0 + 1 * Hour
    OBVIOUS
  <2> QED
    BY <1>1, <2>1, <2>2 DEF NextRunAt, OnPlan
<1>2. CASE plan.every # "HOURLY"
  <2>1. plan.at \in 0 .. Day - 1
    BY DEF Plan
  <2> DEFINE start == after - (after % Day)
  <2>2. \A k \in Int : (start + plan.at + k * Day) % Day = plan.at
    <3>1. after \in Int
      OBVIOUS
    <3> QED
      BY <2>1, <3>1, Moved, Zenon
  <2>3. (start + plan.at) % Day = plan.at
    <3>1. start + plan.at + 0 * Day = start + plan.at /\ 0 \in Int
      BY <2>1
    <3>2. (start + plan.at + 0 * Day) % Day = plan.at
      BY <2>2, <3>1, Zenon
    <3> QED
      BY <3>1, <3>2, Zenon
  <2>4. MonthLength[after \div Day] \in Int
    BY DEF Days
  <2>5. \E k \in Int : Stride(plan.every, after) = k * Day
    <3>1. Day = 1 * Day /\ 0 = 0 * Day
      OBVIOUS
    <3> QED
      BY <2>4, <3>1 DEF Stride
  <2>6. (start + plan.at + Stride(plan.every, after)) % Day = plan.at
    BY <2>2, <2>5
  <2>7. NextRunAt(after, plan) \in {start + plan.at, start + plan.at + Stride(plan.every, after)}
    BY <1>2 DEF NextRunAt, StartOfDay
  <2> HIDE DEF start
  <2> QED
    BY <1>2, <2>3, <2>6, <2>7 DEF OnPlan
<1> QED
  BY <1>1, <1>2

(* NextRun waits no longer than one interval: an hour, or what is left of    *)
(* the day when today's time is yet to come, or else the plan's stride.     *)
THEOREM NextRunIsSoon ==
    ASSUME NEW after \in Times, NEW plan \in Plan
    PROVE  NextRunAt(after, plan)
             <= after + IF plan.every = "HOURLY" THEN Hour
                        ELSE IF StartOfDay(after) + plan.at > after THEN Day - 1
                        ELSE Stride(plan.every, after)
<1> USE CalendarAssumption DEF Times
<1>1. plan.at \in 0 .. Day - 1
  BY DEF Plan
<1>2. after % Day \in 0 .. Day - 1 /\ after % Hour \in 0 .. Hour - 1
  OBVIOUS
<1>3. MonthLength[after \div Day] \in Nat
  BY DEF Days
<1>4. MonthLength[after \div Day] * Day \in Nat
  BY <1>3
<1>5. Stride(plan.every, after) \in Nat
  BY <1>4 DEF Stride
<1> QED
  BY <1>1, <1>2, <1>5 DEF NextRunAt, StartOfDay

(* NextRun returns the first scheduled run strictly after its argument: an   *)
(* hourly or a daily schedule skips no window. (The day of a weekly or a    *)
(* monthly run is wherever the last one left it.)                           *)
THEOREM NextRunIsFirst ==
    ASSUME NEW after \in Times, NEW plan \in Plan, plan.every \in {"HOURLY", "DAILY"},
           NEW t \in Nat, t > after, OnPlan(t, plan)
    PROVE  NextRunAt(after, plan) <= t
<1> USE CalendarAssumption DEF Times
<1> DEFINE run == NextRunAt(after, plan)
           step == IF plan.every = "HOURLY" THEN Hour ELSE Day
<1>1. step \in Nat \ {0}
  OBVIOUS
<1>2. run <= after + step
  <2>1. plan.every # "HOURLY" => Stride(plan.every, after) = Day
    BY DEF Stride
  <2>2. run <= after + IF plan.every = "HOURLY" THEN Hour
                        ELSE IF StartOfDay(after) + plan.at > after THEN Day - 1
                        ELSE Stride(plan.every, after)
    BY NextRunIsSoon, Zenon
  <2>3. run \in Nat
    BY NextRunIsTime
  <2> HIDE DEF run
  <2> QED
    BY <2>1, <2>2, <2>3
<1>3. run \in Nat
  BY NextRunIsTime
<1>4. t % step = run % step
  BY NextRunIsOnPlan DEF OnPlan
<1>5. ASSUME t < run
      PROVE  FALSE
  <2> HIDE DEF run, step
  <2>1. t + step <= run
    <3>1. t \in Int /\ run \in Int
      BY <1>3
    <3> QED
      BY <1>1, <1>4, <1>5, <3>1, SameRemainder, Zenon
  <2> QED
    BY <1>1, <1>2, <1>3, <2>1
<1> HIDE DEF run
<1>6. run <= t
  BY <1>3, <1>5
<1> QED
  BY <1>6 DEF run
-----------------------------------------------------------------------------
(* The inductive invariant                                                  *)

(* An id belongs to one container for ever: to the container of its row, of *)
(* the request that names it, and of the copy the tick holds.               *)
Owned ==
    /\ \A id \in Ids : Exists(id) => owner[id] = configs[id].name
    /\ \A e \in Editors : calls[e].at \in {"find", "save"} /\ calls[e].id # None
                            => owner[calls[e].id] = calls[e].name
    /\ \A due \in Held : owner[due.id] = due.row.name

(* The tick's copies are current unless their container was overtaken.      *)
HeldCurrent ==
    \A due \in Held : due.row.name \notin overtaken
        => Exists(due.id) /\ configs[due.id].plan = due.row.plan

(* Whatever was attempted, or is about to be, was due by the tick's time.   *)
Past ==
    /\ \A t \in tried : t[2] <= now
    /\ tick.at # "idle" => \A t \in tried : t[2] <= tick.now
    /\ \A due \in Held : due.row.next <= tick.now

IInv == TypeOK /\ Owned /\ HeldCurrent /\ Past /\ WindowsFresh /\ WordKept

(* Save leaves the table well-formed and the saved row as it was given.     *)
LEMMA SaveTable ==
    ASSUME TableOK, NEW id \in Ids, NEW row \in Row, Save(id, row)
    PROVE  /\ TableOK'
           /\ configs'[id] # None
           /\ configs'[id].name = row.name
           /\ configs'[id].plan = row.plan
           /\ configs'[id].next = row.next
           /\ \A i \in Ids \ {id} : configs'[i] = configs[i] /\ owner'[i] = owner[i]
           /\ owner'[id] = row.name
<1>1. Stored(id, row) \in Row
  BY DEF Stored, Row
<1>2. /\ Stored(id, row).name = row.name
      /\ Stored(id, row).plan = row.plan
      /\ Stored(id, row).next = row.next
  BY DEF Stored, Row
<1>3. /\ configs' \in [Ids -> Row \cup {None}]
      /\ configs'[id] = Stored(id, row)
      /\ \A i \in Ids \ {id} : configs'[i] = configs[i]
  BY <1>1 DEF Save, TableOK
<1>4. row.name \in Names
  BY DEF Row
<1>5. /\ owner' \in [Ids -> Names \cup {None}]
      /\ owner'[id] = row.name
      /\ \A i \in Ids \ {id} : owner'[i] = owner[i]
  BY <1>4 DEF Save, TableOK
<1>6. ASSUME NEW i \in Ids, NEW j \in Ids, Exists(i)', Exists(j)',
             configs'[i].name = configs'[j].name
      PROVE  i = j
  BY <1>2, <1>3, <1>6 DEF Save, Conflict, Exists, TableOK
<1>7. configs'[id] # None
  BY <1>1, <1>3, ScheduleAssumption
<1> QED
  BY <1>2, <1>3, <1>5, <1>6, <1>7 DEF TableOK

(* The rows SaveConfig and the tick save are rows.                          *)
LEMMA EditedRow ==
    ASSUME TypeOK, NEW e \in Editors, calls[e].at = "save",
           NEW u \in calls[e].since .. now
    PROVE  /\ [name |-> calls[e].name, plan |-> calls[e].plan, on |-> calls[e].on,
               next |-> NextRunAt(u, calls[e].plan)] \in Row
           /\ calls[e].name \in Names
           /\ calls[e].id \in Ids \cup {None}
           /\ [plan |-> calls[e].plan, on |-> calls[e].on] \in Word
<1>1. /\ calls[e].name \in Names
      /\ calls[e].plan \in Plans
      /\ calls[e].on \in BOOLEAN
      /\ calls[e].since \in 0 .. now
      /\ calls[e].id \in Ids \cup {None}
  BY DEF TypeOK, TickOK, CallsOK, Idle
<1>2. u \in Times
  BY <1>1, CalendarAssumption DEF TypeOK, Times
<1>3. NextRunAt(u, calls[e].plan) \in Nat
  BY <1>1, <1>2, NextRunIsTime, ScheduleAssumption
<1> QED
  BY <1>1, <1>3 DEF Row, Word

LEMMA AdvancedRow ==
    ASSUME TypeOK, tick.at = "save"
    PROVE  /\ tick.cur.id \in Ids
           /\ tick.cur.row \in Row
           /\ tick.now \in Times
           /\ tick.now <= now
           /\ tick.cur.row.plan \in Plans
           /\ [tick.cur.row EXCEPT !.next = NextRunAt(tick.now, tick.cur.row.plan)] \in Row
<1>1. tick.cur \in Due /\ tick.now \in 0 .. now
  BY DEF TypeOK, TickOK, CallsOK, Idle
<1>2. tick.cur.id \in Ids /\ tick.cur.row \in Row
  BY <1>1 DEF Due
<1>3. tick.now \in Times /\ tick.now <= now
  BY <1>1, CalendarAssumption DEF TypeOK, Times
<1>4. tick.cur.row.plan \in Plans
  BY <1>2 DEF Row
<1>5. NextRunAt(tick.now, tick.cur.row.plan) \in Nat
  BY <1>3, <1>4, NextRunIsTime, ScheduleAssumption
<1> QED
  BY <1>2, <1>3, <1>4, <1>5 DEF Row
-----------------------------------------------------------------------------
(* The steps                                                                *)

(* Next as the actions the proofs go through.                               *)
LEMMA NextCases ==
    ASSUME Next
    PROVE  \/ \E e \in Editors :
               \/ \E name \in Names, plan \in Plans, on \in Switches :
                    SaveConfig(e, name, plan, on)
               \/ \E id \in Ids : DeleteConfig(e, id)
               \/ FindByContainerName(e) \/ SaveEdited(e) \/ SaveEditedFails(e)
               \/ FindByID(e) \/ DeleteFound(e) \/ DeleteFoundFails(e)
           \/ Tick
           \/ tick.at = "start" /\ \E due \in tick.todo : StartBackup(due)
           \/ Advance \/ AdvanceFails
           \/ ProcessRestarts \/ TimePasses
BY Zenon DEF Next, Editing, Scheduling

(* What the owner asked for is a word, and Promise keeps the ghosts typed.  *)
LEMMA PromiseTyped ==
    ASSUME GhostsOK, NEW name \in Names, NEW what \in Word \cup {None},
           Promise(name, what)
    PROVE  word' \in [Names -> Word \cup {None}] /\ overtaken' \subseteq Names
BY DEF GhostsOK, Promise

LEMMA TypedStep == ASSUME TypeOK, Next PROVE TypeOK'
<1> USE DEF TypeOK
<1>now. now \in Nat /\ 0 .. now \subseteq Nat
  BY CalendarAssumption DEF TypeOK, Times
<1>1. ASSUME NEW e \in Editors, NEW name \in Names, NEW plan \in Plans,
             NEW on \in Switches, SaveConfig(e, name, plan, on)
      PROVE  TypeOK'
  <2>1. CallsOK'
    BY <1>1, <1>now, ScheduleAssumption DEF SaveConfig, PageIds, CallsOK
  <2> QED
    BY <1>1, <2>1 DEF SaveConfig, TableOK, TickOK, GhostsOK, Exists
<1>2. ASSUME NEW e \in Editors, NEW id \in Ids, DeleteConfig(e, id)
      PROVE  TypeOK'
  <2>1. CallsOK'
    BY <1>2 DEF DeleteConfig, CallsOK
  <2> QED
    BY <1>2, <2>1 DEF DeleteConfig, TableOK, TickOK, GhostsOK, Exists
<1>3. ASSUME NEW e \in Editors, FindByContainerName(e)
      PROVE  TypeOK'
  <2>1. CallsOK'
    BY <1>3 DEF FindByContainerName, CallsOK, Return, Idle
  <2> QED
    BY <1>3, <2>1 DEF FindByContainerName, TableOK, TickOK, GhostsOK, Exists
<1>4. ASSUME NEW e \in Editors, SaveEdited(e)
      PROVE  TypeOK'
  <2>1. PICK id \in Ids, u \in calls[e].since .. now :
          /\ Save(id, [name |-> calls[e].name, plan |-> calls[e].plan,
                       on |-> calls[e].on, next |-> NextRunAt(u, calls[e].plan)])
          /\ tried' = {t \in tried : t[1] # id}
          /\ stuck' = stuck \ {id}
    BY <1>4, EditedRow DEF SaveEdited
  <2>2. TableOK'
    BY <1>4, <2>1, EditedRow, SaveTable DEF SaveEdited
  <2>3. CallsOK'
    BY <1>4 DEF SaveEdited, Return, CallsOK
  <2>4. word' \in [Names -> Word \cup {None}] /\ overtaken' \subseteq Names
    BY <1>4, <2>1, EditedRow, PromiseTyped DEF SaveEdited
  <2> QED
    BY <1>4, <2>1, <2>2, <2>3, <2>4 DEF SaveEdited, TickOK, GhostsOK
<1>5. ASSUME NEW e \in Editors, SaveEditedFails(e) \/ FindByID(e) \/ DeleteFoundFails(e)
      PROVE  TypeOK'
  <2>1. CallsOK'
    BY <1>5 DEF SaveEditedFails, FindByID, DeleteFoundFails, CallsOK, Return, Idle
  <2> QED
    BY <1>5, <2>1 DEF SaveEditedFails, FindByID, DeleteFoundFails, TableOK, TickOK,
                      GhostsOK, Exists
<1>6. ASSUME NEW e \in Editors, DeleteFound(e)
      PROVE  TypeOK'
  <2>1. calls[e].id \in Ids
    BY <1>6 DEF DeleteFound, CallsOK, Idle
  <2>2. TableOK'
    BY <1>6, <2>1 DEF DeleteFound, TableOK, Exists
  <2>3. CallsOK'
    BY <1>6 DEF DeleteFound, Return, CallsOK
  <2>4. word' \in [Names -> Word \cup {None}] /\ overtaken' \subseteq Names
    <3>1. CASE Exists(calls[e].id)
      <4>1. configs[calls[e].id].name \in Names
        BY <2>1, <3>1 DEF TableOK, Exists, Row
      <4> QED
        BY <1>6, <3>1, <4>1, PromiseTyped DEF DeleteFound
    <3>2. CASE ~ Exists(calls[e].id)
      BY <1>6, <3>2 DEF DeleteFound, GhostsOK
    <3> QED
      BY <3>1, <3>2
  <2> QED
    BY <1>6, <2>2, <2>3, <2>4 DEF DeleteFound, TickOK, GhostsOK
<1>7. ASSUME Tick PROVE TypeOK'
  <2>1. FindDue(now) \in SUBSET Due
    BY DEF FindDue, Due, TableOK, Exists
  <2>2. TickOK'
    BY <1>7, <1>now, <2>1 DEF Tick, TickOK
  <2> QED
    BY <1>7, <2>2 DEF Tick, TableOK, CallsOK, GhostsOK, Exists
<1>8. ASSUME tick.at = "start", NEW due \in tick.todo, StartBackup(due)
      PROVE  TypeOK'
  <2>1. tick.todo \in SUBSET Due /\ tick.now \in 0 .. now
    BY <1>8 DEF TickOK, Idle
  <2>2. TickOK'
    BY <1>8, <2>1 DEF StartBackup, TickOK
  <2>3. due.id \in Ids /\ due.row.next \in Nat
    BY <1>8, <2>1 DEF Due, Row
  <2>4. tried' \subseteq Ids \X Nat
    BY <1>8, <2>3 DEF StartBackup, GhostsOK
  <2> QED
    BY <1>8, <2>2, <2>4 DEF StartBackup, TableOK, CallsOK, GhostsOK, Exists
<1>9. ASSUME tick.at = "save" PROVE NextDue \in {Idle}
          \cup [at : {"start"}, now : 0 .. now, todo : SUBSET Due]
  BY <1>9 DEF TickOK, Idle, NextDue
<1>10. ASSUME Advance PROVE TypeOK'
  <2>1. TableOK'
    BY <1>10, AdvancedRow, SaveTable DEF Advance
  <2>2. TickOK'
    BY <1>9, <1>10 DEF Advance, TickOK
  <2> QED
    BY <1>10, <2>1, <2>2 DEF Advance, CallsOK, GhostsOK
<1>11. ASSUME AdvanceFails PROVE TypeOK'
  <2>2. TickOK'
    BY <1>9, <1>11 DEF AdvanceFails, TickOK
  <2> QED
    BY <1>11, <2>2, AdvancedRow DEF AdvanceFails, TableOK, CallsOK, GhostsOK, Exists
<1>12. ASSUME ProcessRestarts PROVE TypeOK'
  BY <1>12 DEF ProcessRestarts, TableOK, TickOK, CallsOK, GhostsOK, Exists
<1>13. ASSUME TimePasses PROVE TypeOK'
  <2>1. now' \in Times /\ 0 .. now \subseteq 0 .. now'
    BY <1>13, CalendarAssumption DEF TimePasses, Times
  <2>2. TickOK' /\ CallsOK'
    BY <1>13, <2>1 DEF TimePasses, TickOK, CallsOK
  <2> QED
    BY <1>13, <2>1, <2>2 DEF TimePasses, TableOK, GhostsOK, Exists
<1> QED
  BY <1>1, <1>2, <1>3, <1>4, <1>5, <1>6, <1>7, <1>8, <1>10, <1>11, <1>12, <1>13,
     NextCases
(* What the tick holds is typed, and only the tick's own steps change it.   *)
LEMMA HeldTyped ==
    ASSUME TypeOK
    PROVE  /\ \A due \in Held : due.id \in Ids /\ due.row \in Row /\ due.row.name \in Names
           /\ tick.at # "idle" => tick.now \in 0 .. now
           /\ tick.at \in {"idle", "start", "save"}
BY DEF TypeOK, TickOK, Held, Due, Row, Idle

(* SaveEdited in one place: the row it saves, and whose it was before.      *)
LEMMA EditedSave ==
    ASSUME TypeOK, Owned, NEW e \in Editors, SaveEdited(e)
    PROVE  \E id \in Ids, u \in calls[e].since .. now :
             /\ calls[e].name \in Names
             /\ owner[id] \in {None, calls[e].name}
             /\ TableOK'
             /\ configs'[id] # None
             /\ configs'[id].name = calls[e].name
             /\ configs'[id].plan = calls[e].plan
             /\ \A i \in Ids \ {id} : configs'[i] = configs[i] /\ owner'[i] = owner[i]
             /\ owner'[id] = calls[e].name
             /\ \A t \in tried' : t \in tried /\ t[1] # id
             /\ stuck' = stuck \ {id}
             /\ word' = [word EXCEPT ![calls[e].name] =
                           [plan |-> calls[e].plan, on |-> calls[e].on]]
             /\ overtaken' = IF calls[e].name \in HeldNames
                             THEN overtaken \cup {calls[e].name}
                             ELSE overtaken \ {calls[e].name}
             /\ calls' = [calls EXCEPT ![e] = Idle]
             /\ UNCHANGED <<now, tick>>
<1> DEFINE row(u) == [name |-> calls[e].name, plan |-> calls[e].plan,
                     on |-> calls[e].on, next |-> NextRunAt(u, calls[e].plan)]
<1>1. PICK id \in Ids, u \in calls[e].since .. now :
        /\ calls[e].id = None => owner[id] = None
        /\ calls[e].id # None => id = calls[e].id
        /\ Save(id, row(u))
        /\ tried' = {t \in tried : t[1] # id}
        /\ stuck' = stuck \ {id}
  <2>1. calls[e].id \in Ids \cup {None}
    BY EditedRow, CalendarAssumption DEF SaveEdited, TypeOK, CallsOK, Idle
  <2> QED
    BY <2>1 DEF SaveEdited
<1>2. row(u) \in Row /\ calls[e].name \in Names
  BY EditedRow DEF SaveEdited
<1>3. owner[id] \in {None, calls[e].name}
  BY <1>1 DEF Owned, SaveEdited
<1>4. /\ TableOK'
      /\ configs'[id] # None
      /\ configs'[id].name = row(u).name
      /\ configs'[id].plan = row(u).plan
      /\ \A i \in Ids \ {id} : configs'[i] = configs[i] /\ owner'[i] = owner[i]
      /\ owner'[id] = row(u).name
  BY <1>1, <1>2, SaveTable DEF TypeOK
<1> QED
  BY <1>1, <1>2, <1>3, <1>4 DEF SaveEdited, Promise, Return

(* The write of the tick in one place.                                      *)
LEMMA AdvancedSave ==
    ASSUME TypeOK, Owned, Advance
    PROVE  LET id == tick.cur.id
               row == tick.cur.row
           IN  /\ id \in Ids
               /\ tick.cur \in Held
               /\ owner[id] = row.name
               /\ configs'[id] # None
               /\ configs'[id].name = row.name
               /\ configs'[id].plan = row.plan
               /\ configs'[id].next = NextRunAt(tick.now, row.plan)
               /\ \A i \in Ids \ {id} : configs'[i] = configs[i]
               /\ owner' = owner
               /\ Held' \subseteq Held
<1>1. tick.at = "save" /\ tick.cur \in Held
  BY DEF Advance, Held
<1>2. owner[tick.cur.id] = tick.cur.row.name /\ tick.cur.id \in Ids
  BY <1>1, AdvancedRow DEF Owned
<1>3. owner' = owner
  BY <1>2 DEF Advance, Save, TypeOK, TableOK
<1>4. Held' \subseteq Held
  BY <1>1 DEF Advance, NextDue, Held, Idle
<1> DEFINE row == [tick.cur.row EXCEPT !.next = NextRunAt(tick.now, tick.cur.row.plan)]
<1>5. /\ row \in Row
      /\ row.name = tick.cur.row.name
      /\ row.plan = tick.cur.row.plan
      /\ row.next = NextRunAt(tick.now, tick.cur.row.plan)
  BY <1>1, AdvancedRow DEF Row
<1>6. Save(tick.cur.id, row)
  BY DEF Advance
<1>7. /\ configs'[tick.cur.id] # None
      /\ configs'[tick.cur.id].name = row.name
      /\ configs'[tick.cur.id].plan = row.plan
      /\ configs'[tick.cur.id].next = row.next
      /\ \A i \in Ids \ {tick.cur.id} : configs'[i] = configs[i]
  BY <1>2, <1>5, <1>6, SaveTable DEF TypeOK
<1> QED
  BY <1>1, <1>2, <1>3, <1>4, <1>5, <1>7

(* A tick reads current rows; later it only lets go of them.                *)
LEMMA TickHolds ==
    ASSUME TypeOK, Tick
    PROVE  /\ Held = {}
           /\ \A due \in Held' : /\ due.id \in Ids
                                 /\ Exists(due.id)
                                 /\ due.row = configs[due.id]
                                 /\ due.row.next <= now
           /\ tick'.at # "idle" => tick'.now = now
<1>1. Held = {}
  BY DEF Tick, Held
<1>2. \A due \in FindDue(now) : /\ due.id \in Ids
                               /\ Exists(due.id)
                               /\ due.row = configs[due.id]
                               /\ due.row.next <= now
  BY DEF FindDue
<1>3. Held' \subseteq FindDue(now)
  BY DEF Tick, Held, Idle
<1> QED
  BY <1>1, <1>2, <1>3 DEF Tick, Idle

LEMMA StartHolds ==
    ASSUME tick.at = "start", NEW due \in tick.todo, StartBackup(due)
    PROVE  due \in Held /\ Held' = Held /\ tick'.now = tick.now
BY DEF StartBackup, Held

LEMMA OwnedStep == ASSUME TypeOK, Owned, Next PROVE Owned'
<1>1. ASSUME NEW e \in Editors, NEW name \in Names, NEW plan \in Plans,
             NEW on \in Switches, SaveConfig(e, name, plan, on)
      PROVE  Owned'
  BY <1>1 DEF SaveConfig, PageIds, Owned, Held, Exists, TypeOK, CallsOK
<1>2. ASSUME NEW e \in Editors, NEW id \in Ids, DeleteConfig(e, id)
      PROVE  Owned'
  BY <1>2 DEF DeleteConfig, Owned, Held, Exists, TypeOK, CallsOK
<1>3. ASSUME NEW e \in Editors, FindByContainerName(e)
      PROVE  Owned'
  <2>1. \/ calls' = [calls EXCEPT ![e] = Idle]
        \/ \E id \in Ids \cup {None} :
             /\ id # None => owner[id] = calls[e].name
             /\ calls' = [calls EXCEPT ![e].at = "save", ![e].id = id]
    BY <1>3 DEF FindByContainerName, Return, Owned
  <2>2. \A f \in Editors : calls'[f].at \in {"find", "save"} /\ calls'[f].id # None
                           => owner[calls'[f].id] = calls'[f].name
    BY <1>3, <2>1 DEF FindByContainerName, Owned, TypeOK, CallsOK, Idle
  <2> QED
    BY <1>3, <2>2 DEF FindByContainerName, Owned, Held, Exists
<1>4. ASSUME NEW e \in Editors, SaveEdited(e)
      PROVE  Owned'
  <2>1. PICK id \in Ids :
          /\ owner[id] \in {None, calls[e].name}
          /\ configs'[id].name = calls[e].name
          /\ \A i \in Ids \ {id} : configs'[i] = configs[i] /\ owner'[i] = owner[i]
          /\ owner'[id] = calls[e].name
          /\ calls' = [calls EXCEPT ![e] = Idle]
          /\ UNCHANGED tick
    BY <1>4, EditedSave
  <2>2. \A i \in Ids : owner[i] # None => owner'[i] = owner[i]
    BY <2>1
  <2>3. \A due \in Held : owner[due.id] # None /\ due.id \in Ids
    BY HeldTyped, ScheduleAssumption DEF Owned
  <2>4. \A due \in Held' : owner'[due.id] = due.row.name
    BY <2>1, <2>2, <2>3 DEF Held, Owned
  <2>5. \A f \in Editors : calls'[f].at \in {"find", "save"} /\ calls'[f].id # None
                           => owner'[calls'[f].id] = calls'[f].name
    BY <2>1, <2>2, ScheduleAssumption DEF Owned, TypeOK, CallsOK, Idle
  <2>6. \A i \in Ids : Exists(i)' => owner'[i] = configs'[i].name
    BY <2>1 DEF Owned, Exists
  <2> QED
    BY <2>4, <2>5, <2>6 DEF Owned
<1>5. ASSUME NEW e \in Editors, SaveEditedFails(e) \/ FindByID(e) \/ DeleteFoundFails(e)
      PROVE  Owned'
  BY <1>5 DEF SaveEditedFails, FindByID, DeleteFoundFails, Return, Idle, Owned, Held,
              Exists, TypeOK, CallsOK
<1>6. ASSUME NEW e \in Editors, DeleteFound(e)
      PROVE  Owned'
  BY <1>6 DEF DeleteFound, Return, Idle, Owned, Held, Exists, TypeOK, TableOK, CallsOK
<1>7. ASSUME Tick PROVE Owned'
  <2>1. \A due \in Held' : owner[due.id] = due.row.name
    BY <1>7, TickHolds DEF Owned
  <2> QED
    BY <1>7, <2>1 DEF Tick, Owned, Exists
<1>8. ASSUME tick.at = "start", NEW due \in tick.todo, StartBackup(due)
      PROVE  Owned'
  BY <1>8, StartHolds DEF StartBackup, Owned, Exists
<1>9. ASSUME Advance PROVE Owned'
  <2>1. \A i \in Ids : Exists(i)' => owner'[i] = configs'[i].name
    BY <1>9, AdvancedSave DEF Owned, Exists
  <2> QED
    BY <1>9, <2>1, AdvancedSave DEF Advance, Owned
<1>10. ASSUME AdvanceFails PROVE Owned'
  BY <1>10 DEF AdvanceFails, NextDue, Held, Idle, Owned, Exists
<1>11. ASSUME ProcessRestarts \/ TimePasses PROVE Owned'
  BY <1>11 DEF ProcessRestarts, TimePasses, Held, Idle, Owned, Exists
<1> QED
  BY <1>1, <1>2, <1>3, <1>4, <1>5, <1>6, <1>7, <1>8, <1>9, <1>10, <1>11, NextCases
(* The steps of a request that write nothing.                               *)
LEMMA ReadingFrame ==
    ASSUME NEW e \in Editors,
           \/ \E name \in Names, plan \in Plans, on \in Switches :
                SaveConfig(e, name, plan, on)
           \/ \E id \in Ids : DeleteConfig(e, id)
           \/ FindByContainerName(e) \/ SaveEditedFails(e)
           \/ FindByID(e) \/ DeleteFoundFails(e)
    PROVE  /\ UNCHANGED <<configs, owner, now, tick, tried, stuck, word, overtaken>>
           /\ HeldCurrent => HeldCurrent'
           /\ Past => Past'
           /\ WindowsFresh => WindowsFresh'
           /\ WordKept => WordKept'
<1>1. UNCHANGED <<configs, owner, now, tick, tried, stuck, word, overtaken>>
  BY DEF SaveConfig, DeleteConfig, FindByContainerName, SaveEditedFails, FindByID,
         DeleteFoundFails
<1> QED
  BY <1>1 DEF HeldCurrent, Past, WindowsFresh, WordKept, Held, Exists, Shows, Advancing

(* The steps that change one row, and those that write no row.              *)
LEMMA WritingCases ==
    ASSUME Next
    PROVE  \/ \E e \in Editors :
               \/ \/ \E name \in Names, plan \in Plans, on \in Switches :
                       SaveConfig(e, name, plan, on)
                  \/ \E id \in Ids : DeleteConfig(e, id)
                  \/ FindByContainerName(e) \/ SaveEditedFails(e)
                  \/ FindByID(e) \/ DeleteFoundFails(e)
               \/ SaveEdited(e)
               \/ DeleteFound(e)
           \/ Tick
           \/ tick.at = "start" /\ \E due \in tick.todo : StartBackup(due)
           \/ Advance \/ AdvanceFails
           \/ ProcessRestarts \/ TimePasses
BY NextCases, Zenon

LEMMA HeldStep == ASSUME TypeOK, Owned, HeldCurrent, Next PROVE HeldCurrent'
<1>1. ASSUME NEW e \in Editors, SaveEdited(e)
      PROVE  HeldCurrent'
  <2>1. PICK id \in Ids :
          /\ owner[id] \in {None, calls[e].name}
          /\ \A i \in Ids \ {id} : configs'[i] = configs[i]
          /\ overtaken' = IF calls[e].name \in HeldNames
                          THEN overtaken \cup {calls[e].name}
                          ELSE overtaken \ {calls[e].name}
          /\ UNCHANGED tick
    BY ZenonT(40), <1>1, EditedSave
  <2>2. ASSUME NEW due \in Held, due.row.name \notin overtaken'
        PROVE  /\ due.row.name # calls[e].name
               /\ due.row.name \notin overtaken
    BY <2>1, <2>2 DEF HeldNames
  <2>3. \A due \in Held : /\ due.id \in Ids
                         /\ owner[due.id] = due.row.name
                         /\ due.row.name # None
    BY HeldTyped, ScheduleAssumption DEF Owned
  <2>4. \A due \in Held : due.row.name \notin overtaken' => due.id # id
    BY <2>1, <2>2, <2>3
  <2> QED
    BY <2>1, <2>2, <2>3, <2>4 DEF HeldCurrent, Held, Exists
<1>2. ASSUME NEW e \in Editors, DeleteFound(e)
      PROVE  HeldCurrent'
  <2> DEFINE id == calls[e].id
  <2>1. id \in Ids /\ \A i \in Ids \ {id} : configs'[i] = configs[i]
    BY <1>2 DEF DeleteFound, TypeOK, TableOK, CallsOK, Idle
  <2>2. CASE Exists(id)
    <3>1. overtaken' = IF configs[id].name \in HeldNames
                       THEN overtaken \cup {configs[id].name}
                       ELSE overtaken \ {configs[id].name}
      BY <1>2, <2>2 DEF DeleteFound, Promise
    <3>2. owner[id] = configs[id].name
      BY <2>1, <2>2 DEF Owned
    <3>3. ASSUME NEW due \in Held, due.row.name \notin overtaken'
          PROVE  due.id # id /\ due.id \in Ids /\ due.row.name \notin overtaken
      BY <3>1, <3>2, <3>3, HeldTyped DEF HeldNames, Owned
    <3> QED
      BY <1>2, <2>1, <3>3 DEF DeleteFound, HeldCurrent, Held, Exists
  <2>3. CASE ~ Exists(id)
    <3>1. configs' = configs
      BY <1>2, <2>3 DEF DeleteFound, TypeOK, TableOK, Exists
    <3> QED
      BY <1>2, <2>3, <3>1 DEF DeleteFound, HeldCurrent, Held, Exists
  <2> QED
    BY <2>2, <2>3
<1>3. ASSUME Tick PROVE HeldCurrent'
  BY <1>3, TickHolds DEF Tick, HeldCurrent, Exists
<1>4. ASSUME tick.at = "start", NEW due \in tick.todo, StartBackup(due)
      PROVE  HeldCurrent'
  BY <1>4, StartHolds DEF StartBackup, HeldCurrent, Exists
<1>5. ASSUME Advance PROVE HeldCurrent'
  <2>1. ASSUME NEW due \in Held', due.row.name \notin overtaken'
        PROVE  Exists(due.id)' /\ configs'[due.id].plan = due.row.plan
    <3>1. /\ due \in Held /\ tick.cur \in Held /\ due.id \in Ids
          /\ due.row.name \notin overtaken
          /\ owner[due.id] = due.row.name
          /\ owner[tick.cur.id] = tick.cur.row.name
      BY <1>5, <2>1, AdvancedSave, HeldTyped DEF Advance, Owned
    <3>2. CASE due.id = tick.cur.id
      BY <1>5, <3>1, <3>2, AdvancedSave DEF HeldCurrent, Exists
    <3>3. CASE due.id # tick.cur.id
      BY <1>5, <3>1, <3>3, AdvancedSave DEF HeldCurrent, Exists
    <3> QED
      BY <3>2, <3>3
  <2> QED
    BY <2>1 DEF HeldCurrent
<1>6. ASSUME AdvanceFails PROVE HeldCurrent'
  BY <1>6 DEF AdvanceFails, NextDue, Held, Idle, HeldCurrent, Exists
<1>7. ASSUME ProcessRestarts \/ TimePasses PROVE HeldCurrent'
  BY <1>7 DEF ProcessRestarts, TimePasses, Held, Idle, HeldCurrent, Exists
<1> QED
  BY <1>1, <1>2, <1>3, <1>4, <1>5, <1>6, <1>7, WritingCases, ReadingFrame

LEMMA PastStep == ASSUME TypeOK, Past, Next PROVE Past'
<1>now. now \in Nat
  BY CalendarAssumption DEF TypeOK, Times
<1>1. ASSUME NEW e \in Editors, SaveEdited(e) \/ DeleteFound(e)
      PROVE  Past'
  <2>1. tried' \subseteq tried /\ UNCHANGED <<now, tick>>
    BY <1>1 DEF SaveEdited, DeleteFound
  <2> QED
    BY <2>1 DEF Past, Held
<1>2. ASSUME Tick PROVE Past'
  <2>1. Held' # {} => tick'.at # "idle"
    BY DEF Held
  <2> QED
    BY <1>2, <2>1, TickHolds DEF Tick, Past
<1>3. ASSUME tick.at = "start", NEW due \in tick.todo, StartBackup(due)
      PROVE  Past'
  <2>1. due \in Held /\ Held' = Held /\ tick'.now = tick.now /\ now' = now
    BY <1>3, StartHolds DEF StartBackup
  <2>2. due.row.next \in Nat /\ due.row.next <= tick.now /\ tick.now \in 0 .. now
    BY <1>3, <2>1, HeldTyped DEF Past, Row
  <2>3. tried' = tried \cup {<<due.id, due.row.next>>}
    BY <1>3 DEF StartBackup
  <2> QED
    BY <1>3, <1>now, <2>1, <2>2, <2>3 DEF Past
<1>4. ASSUME Advance \/ AdvanceFails PROVE Past'
  <2>1. Held' \subseteq Held /\ tried' = tried /\ now' = now
    BY <1>4 DEF Advance, AdvanceFails, NextDue, Held, Idle
  <2>2. tick.at = "save" /\ (tick'.at # "idle" => tick'.now = tick.now)
    BY <1>4 DEF Advance, AdvanceFails, NextDue, Idle
  <2>3. Held' # {} => tick'.at # "idle"
    BY DEF Held
  <2> QED
    BY <2>1, <2>2, <2>3 DEF Past
<1>5. ASSUME ProcessRestarts PROVE Past'
  BY <1>5 DEF ProcessRestarts, Past, Held, Idle
<1>6. ASSUME TimePasses PROVE Past'
  <2>1. \A t \in tried : t[2] \in Nat
    BY DEF TypeOK, GhostsOK
  <2> QED
    BY <1>now, <1>6, <2>1 DEF TimePasses, Past, Held
<1> QED
  BY <1>1, <1>2, <1>3, <1>4, <1>5, <1>6, WritingCases, ReadingFrame

LEMMA FreshStep ==
    ASSUME \A plan \in Plans : Known(plan), TypeOK, Owned, Past, WindowsFresh, Next
    PROVE  WindowsFresh'
<1>1. ASSUME NEW e \in Editors, SaveEdited(e)
      PROVE  WindowsFresh'
  <2>1. PICK id \in Ids :
          /\ \A i \in Ids \ {id} : configs'[i] = configs[i]
          /\ \A t \in tried' : t \in tried /\ t[1] # id
          /\ stuck' = stuck \ {id}
          /\ UNCHANGED tick
    BY ZenonT(40), <1>1, EditedSave
  <2>2. ASSUME NEW i \in Ids, Exists(i)', <<i, configs'[i].next>> \in tried'
        PROVE  Advancing(i)' \/ i \in stuck'
    <3>1. <<i, configs'[i].next>>[1] = i
      OBVIOUS
    <3>2. i # id
      BY <2>1, <2>2, <3>1
    <3>3. configs'[i] = configs[i] /\ <<i, configs[i].next>> \in tried
      BY <2>1, <2>2, <3>2
    <3> QED
      BY <2>1, <2>2, <3>2, <3>3 DEF WindowsFresh, Exists, Advancing
  <2> QED
    BY <2>2 DEF WindowsFresh
<1>2. ASSUME NEW e \in Editors, DeleteFound(e)
      PROVE  WindowsFresh'
  BY <1>2 DEF DeleteFound, WindowsFresh, Exists, Advancing, TypeOK, TableOK
<1>3. ASSUME Tick PROVE WindowsFresh'
  BY <1>3 DEF Tick, WindowsFresh, Exists, Advancing, Idle
<1>4. ASSUME tick.at = "start", NEW due \in tick.todo, StartBackup(due)
      PROVE  WindowsFresh'
  BY <1>4 DEF StartBackup, WindowsFresh, Exists, Advancing
<1>5. ASSUME Advance PROVE WindowsFresh'
  <2> DEFINE id == tick.cur.id
            next == NextRunAt(tick.now, tick.cur.row.plan)
  <2>1. /\ tick.at = "save" /\ tick'.at # "save"
        /\ tried' = tried /\ stuck' = stuck \ {id}
    BY <1>5 DEF Advance, NextDue, Idle
  <2>2. next > tick.now /\ next \in Nat /\ tick.now \in Nat
    <3>1. tick.now \in Times /\ tick.cur.row.plan \in Plan
      BY <2>1, AdvancedRow, ScheduleAssumption
    <3> QED
      BY <2>1, <3>1, AdvancedRow, NextRunIsLater, NextRunIsTime, CalendarAssumption DEF Times
  <2>3. <<id, next>> \notin tried
    BY <2>1, <2>2 DEF Past
  <2>4. configs'[id].next = next /\ \A i \in Ids \ {id} : configs'[i] = configs[i]
    BY <1>5, AdvancedSave
  <2> QED
    BY <2>1, <2>3, <2>4 DEF WindowsFresh, Exists, Advancing
<1>6. ASSUME AdvanceFails PROVE WindowsFresh'
  BY <1>6 DEF AdvanceFails, WindowsFresh, Exists, Advancing
<1>7. ASSUME ProcessRestarts PROVE WindowsFresh'
  BY <1>7 DEF ProcessRestarts, WindowsFresh, Exists, Advancing
<1>8. ASSUME TimePasses PROVE WindowsFresh'
  BY <1>8 DEF TimePasses, WindowsFresh, Exists, Advancing
<1> QED
  BY <1>1, <1>2, <1>3, <1>4, <1>5, <1>6, <1>7, <1>8, WritingCases, ReadingFrame

LEMMA WordStep ==
    ASSUME TypeOK, Owned, HeldCurrent, WordKept, Next
    PROVE  WordKept'
<1>1. ASSUME NEW e \in Editors, SaveEdited(e)
      PROVE  WordKept'
  <2> DEFINE what == [plan |-> calls[e].plan, on |-> calls[e].on]
  <2>0. PICK name \in Names : name = calls[e].name
    BY <1>1, EditedSave
  <2>1. PICK id \in Ids :
          /\ owner[id] \in {None, name}
          /\ configs'[id] # None
          /\ configs'[id].name = name
          /\ configs'[id].plan = calls[e].plan
          /\ \A i \in Ids \ {id} : configs'[i] = configs[i]
          /\ word' = [word EXCEPT ![name] = what]
          /\ overtaken' = IF name \in HeldNames THEN overtaken \cup {name}
                          ELSE overtaken \ {name}
    BY <1>1, <2>0, EditedSave
  <2>2. what # None /\ what.plan = calls[e].plan
    BY <1>1, EditedRow, ScheduleAssumption, CalendarAssumption DEF SaveEdited, TypeOK, Times, CallsOK, Idle
  <2>3. Shows(name, word[name])'
    <3>1. word'[name] = what
      BY <2>1 DEF TypeOK, GhostsOK
    <3> QED
      BY <2>1, <2>2, <3>1 DEF Shows, Exists
  <2>4. ASSUME NEW other \in Names \ {name}, Shows(other, word[other])
        PROVE  Shows(other, word[other])'
    <3>1. word'[other] = word[other]
      BY <2>1 DEF TypeOK, GhostsOK
    <3>2. Exists(id) => configs[id].name # other
      BY <2>1, ScheduleAssumption DEF Owned
    <3> QED
      BY <2>1, <2>4, <3>1, <3>2 DEF Shows, Exists
  <2> QED
    BY <2>1, <2>3, <2>4 DEF WordKept
<1>2. ASSUME NEW e \in Editors, DeleteFound(e)
      PROVE  WordKept'
  <2>0. PICK id \in Ids : id = calls[e].id
    BY <1>2 DEF DeleteFound, TypeOK, CallsOK, Idle
  <2>1. /\ configs'[id] = None
        /\ \A i \in Ids \ {id} : configs'[i] = configs[i]
    BY <1>2, <2>0 DEF DeleteFound, TypeOK, TableOK
  <2>2. CASE Exists(id)
    <3>0. PICK name \in Names : name = configs[id].name
      BY <2>2 DEF TypeOK, TableOK, Exists, Row
    <3>1. /\ word' = [word EXCEPT ![name] = None]
          /\ overtaken \subseteq overtaken' \cup {name}
      BY <1>2, <2>0, <2>2, <3>0 DEF DeleteFound, Promise
    <3>2. Shows(name, word[name])'
      <4>1. word'[name] = None
        BY <3>1 DEF TypeOK, GhostsOK
      <4>2. \A i \in Ids \ {id} : Exists(i) => configs[i].name # name
        BY <2>2, <3>0 DEF TypeOK, TableOK
      <4> QED
        BY <2>1, <4>1, <4>2 DEF Shows, Exists
    <3>3. ASSUME NEW other \in Names \ {name}, Shows(other, word[other])
          PROVE  Shows(other, word[other])'
      <4>1. word'[other] = word[other]
        BY <3>1 DEF TypeOK, GhostsOK
      <4> QED
        BY <2>1, <3>0, <3>3, <4>1 DEF Shows, Exists
    <3> QED
      BY <3>1, <3>2, <3>3 DEF WordKept
  <2>3. CASE ~ Exists(id)
    <3>1. configs' = configs /\ word' = word /\ overtaken' = overtaken
      BY <1>2, <2>0, <2>3 DEF DeleteFound, TypeOK, TableOK, Exists
    <3> QED
      BY <3>1 DEF WordKept, Shows, Exists
  <2> QED
    BY <2>2, <2>3
<1>3. ASSUME Advance PROVE WordKept'
  <2> DEFINE id == tick.cur.id
  <2>1. /\ id \in Ids /\ tick.cur \in Held
        /\ owner[id] = tick.cur.row.name
        /\ configs'[id] # None
        /\ configs'[id].name = tick.cur.row.name
        /\ configs'[id].plan = tick.cur.row.plan
        /\ \A i \in Ids \ {id} : configs'[i] = configs[i]
        /\ word' = word /\ overtaken' = overtaken
    BY <1>3, AdvancedSave DEF Advance
  <2>2. ASSUME NEW name \in Names \ overtaken
        PROVE  Shows(name, word[name])'
    <3>0. Shows(name, word[name])
      BY DEF WordKept
    <3>1. CASE name = tick.cur.row.name
      <4>1. Exists(id) /\ configs[id].plan = tick.cur.row.plan /\ configs[id].name = name
        BY <2>1, <3>1 DEF HeldCurrent, Owned
      <4>2. /\ word[name] # None /\ word[name].plan = tick.cur.row.plan
        BY <2>1, <3>0, <4>1 DEF Shows, TypeOK, TableOK
      <4> QED
        BY <2>1, <3>1, <4>2 DEF Shows, Exists
    <3>2. CASE name # tick.cur.row.name
      <4>1. Exists(id) => configs[id].name # name
        BY <2>1, <3>2 DEF Owned
      <4> QED
        BY <2>1, <3>0, <3>2, <4>1 DEF Shows, Exists
    <3> QED
      BY <3>1, <3>2
  <2> QED
    BY <2>1, <2>2 DEF WordKept
<1>4. ASSUME \/ Tick
             \/ tick.at = "start" /\ \E due \in tick.todo : StartBackup(due)
             \/ AdvanceFails \/ ProcessRestarts \/ TimePasses
      PROVE  WordKept'
  <2>1. UNCHANGED <<configs, word, overtaken>>
    BY <1>4 DEF Tick, StartBackup, AdvanceFails, ProcessRestarts, TimePasses
  <2> QED
    BY <2>1 DEF WordKept, Shows, Exists
<1> QED
  BY <1>1, <1>2, <1>3, <1>4, WritingCases, ReadingFrame

-----------------------------------------------------------------------------
(* The theorems                                                             *)

LEMMA InitIInv == Init => IInv
<1> SUFFICES ASSUME Init PROVE IInv
  OBVIOUS
<1> USE DEF Init
<1>1. TypeOK
  BY CalendarAssumption DEF TypeOK, TableOK, TickOK, CallsOK, GhostsOK, Times, Exists, Idle
<1>2. Owned /\ HeldCurrent /\ Past
  BY CalendarAssumption DEF Owned, HeldCurrent, Past, Held, Exists, Idle
<1>3. WindowsFresh /\ WordKept
  BY DEF WindowsFresh, WordKept, Shows, Exists
<1> QED
  BY <1>1, <1>2, <1>3 DEF IInv

(* The part of the invariant that needs nothing of the plans.               *)
TableInv == TypeOK /\ Owned /\ HeldCurrent /\ Past /\ WordKept

LEMMA StutterKeeps ==
    ASSUME UNCHANGED vars
    PROVE  (TableInv => TableInv') /\ (WindowsFresh => WindowsFresh')
BY DEF vars, TableInv, TypeOK, TableOK, TickOK, CallsOK, GhostsOK, Owned, HeldCurrent,
       Past, WordKept, WindowsFresh, Held, Exists, Shows, Advancing

(* The inductive invariant holds whatever plans the owners ask for.         *)
THEOREM Invariance == Spec => []TableInv
<1>1. Init => TableInv
  BY InitIInv DEF IInv, TableInv
<1>2. TableInv /\ [Next]_vars => TableInv'
  BY TypedStep, OwnedStep, HeldStep, PastStep, WordStep, StutterKeeps DEF TableInv
<1> QED
  BY <1>1, <1>2, PTL DEF Spec

(* The variables keep their types, and the table one row per container.     *)
THEOREM TypeCorrect == Spec => []TypeOK
BY Invariance, PTL DEF TableInv

(* The list shows what the owner last saved or deleted for a container,     *)
(* unless a tick held an older copy of its row: the stale Save of           *)
(* scheduler.go:66 is the only statement that loses a word.                 *)
THEOREM OwnersWordKept == Spec => []WordKept
BY Invariance, PTL DEF TableInv

(* No window is attempted twice when every plan has an interval the program *)
(* knows, whatever the calendar: NextRun is strictly after the tick.        *)
THEOREM NoWindowTwice ==
    ASSUME \A plan \in Plans : Known(plan)
    PROVE  Spec => []WindowsFresh
<1>1. Init => WindowsFresh
  BY InitIInv DEF IInv
<1>2. TableInv /\ WindowsFresh /\ [Next]_vars => WindowsFresh'
  BY FreshStep, StutterKeeps DEF TableInv
<1> QED
  BY <1>1, <1>2, Invariance, PTL DEF Spec
=============================================================================
