--------------------------- MODULE BackupSchedule ----------------------------
(****************************************************************************)
(* The schedules of the containers: ConfigService (config_service.go)       *)
(* answering the requests of the web interface, and Scheduler               *)
(* (scheduler.go), the one background goroutine that starts due backups and *)
(* moves their schedules on. They share the table volume_backup_configs and *)
(* nothing else: no lock, no transaction, so that every statement is a step *)
(* of its own and the scheduler saves the row it read before it started the *)
(* backup.                                                                  *)
(*                                                                          *)
(* A schedule is known by its id and by the name of its container, which a  *)
(* unique index keeps unique. Its storage, mounts, retention, consistency   *)
(* and encryption travel with the row like its plan does and are not        *)
(* modelled; last_run_at is never read.                                     *)
(****************************************************************************)
EXTENDS NextRun, FiniteSets

CONSTANTS
    Names,      \* names of containers
    Ids,        \* ids of schedules (the bound on how many are ever made)
    Editors,    \* concurrent requests to save or delete a schedule
    Plans,      \* the plans an owner asks for
    Switches,   \* the values of isEnabled an owner asks for
    Faults,     \* what may go wrong: "db" a statement fails, "exit" a restart
    None        \* no schedule, no id, no container

Row == [name : Names, plan : Plans, on : BOOLEAN, next : Nat]
Word == [plan : Plans, on : BOOLEAN]

ASSUME ScheduleAssumption ==
    /\ Plans \subseteq Plan
    /\ Switches \subseteq BOOLEAN
    /\ None \notin Names \cup Ids
    /\ None \notin Row
    /\ None \notin Word

VARIABLES
    configs,    \* volume_backup_configs: the row of an id, or None
    owner,      \* the container an id was made for, or None: ids are not reused
    now,        \* the clock
    tick,       \* the scheduler's runDueBackups
    calls,      \* the editors' requests
    tried,      \* <<id, window>>: backups attempted since the owner last saved
    stuck,      \* ids whose schedule could not be moved on
    word,       \* what the owner last asked for and was promised, per container
    overtaken   \* containers whose schedule changed under the scheduler's tick

vars == <<configs, owner, now, tick, calls, tried, stuck, word, overtaken>>

Due == [id : Ids, row : Row]
Idle == [at |-> "idle"]

Exists(id) == configs[id] # None

(* The scheduler is between StartBackup and the Save that moves id on. *)
Advancing(id) == tick.at = "save" /\ tick.cur.id = id

(* The rows the scheduler read and will still save. *)
Held == IF tick.at = "idle" THEN {}
        ELSE tick.todo \cup IF tick.at = "save" THEN {tick.cur} ELSE {}

HeldNames == {due.row.name : due \in Held}

(* The list of schedules shows for a container what its owner asked for, up  *)
(* to isEnabled.                                                            *)
Shows(name, what) ==
    IF what = None
    THEN \A id \in Ids : Exists(id) => configs[id].name # name
    ELSE \E id \in Ids : /\ Exists(id)
                        /\ configs[id].name = name
                        /\ configs[id].plan = what.plan

-----------------------------------------------------------------------------
(* gorm's Save, as both callers use it: an UPDATE by id and, when it meets  *)
(* no row, an INSERT. The index on container_name refuses a second row of a *)
(* container, and an INSERT takes the column's default for a value that is  *)
(* Go's zero: is_enabled has default:true, so false is stored as true.      *)

\* Mutant: container_name has no unique index.
ConflictIgnored(id, row) == FALSE

Conflict(id, row) ==
    \E other \in Ids \ {id} : Exists(other) /\ configs[other].name = row.name

Stored(id, row) == IF Exists(id) THEN row ELSE [row EXCEPT !.on = TRUE]

Save(id, row) ==
    /\ ~ Conflict(id, row)
    /\ configs' = [configs EXCEPT ![id] = Stored(id, row)]
    /\ owner' = [owner EXCEPT ![id] = row.name]

SaveFails(id, row) == Conflict(id, row) \/ "db" \in Faults

Return(e) == calls' = [calls EXCEPT ![e] = Idle]

(* The owner's request takes effect. A tick that holds an older copy of the *)
(* container's row is going to overtake it.                                 *)
Promise(name, what) ==
    /\ word' = [word EXCEPT ![name] = what]
    /\ overtaken' = IF name \in HeldNames THEN overtaken \cup {name}
                                          ELSE overtaken \ {name}

FindDue(t) ==
    {due \in {[id |-> i, row |-> configs[i]] : i \in {j \in Ids : Exists(j)}} :
        due.row.on /\ due.row.next <= t}

NextDue == IF tick.todo = {} THEN Idle
           ELSE [at |-> "start", now |-> tick.now, todo |-> tick.todo]

Init ==
    /\ configs = [id \in Ids |-> None]
    /\ owner = [id \in Ids |-> None]
    /\ now = 0
    /\ tick = Idle
    /\ calls = [e \in Editors |-> Idle]
    /\ tried = {}
    /\ stuck = {}
    /\ word = [name \in Names |-> None]
    /\ overtaken = {}

-----------------------------------------------------------------------------
(* Faults.  Each is an operator below it as a plausible bug would have it;  *)
(* nothing refers to them: putting one in the place of its original shows   *)
(* which property notices.                                                  *)

\* Mutant: no loop body after a failed start, as if by `continue`.
StartBackupOrSkip(due) ==
    /\ tick.at = "start"
    /\ due \in tick.todo
    /\ tried' = tried \cup {<<due.id, due.row.next>>}
    /\ \/ tick' = [at |-> "save", now |-> tick.now, cur |-> due,
                    todo |-> tick.todo \ {due}]
       \/ tick' = IF tick.todo = {due} THEN Idle
                  ELSE [at |-> "start", now |-> tick.now, todo |-> tick.todo \ {due}]
    /\ UNCHANGED <<configs, owner, now, calls, stuck, word, overtaken>>

\* Mutant: only last_run_at is set before the row is saved.
AdvanceUnmoved ==
    /\ tick.at = "save"
    /\ Save(tick.cur.id, tick.cur.row)
    /\ tick' = NextDue
    /\ stuck' = stuck \ {tick.cur.id}
    /\ UNCHANGED <<now, calls, tried, word, overtaken>>

\* Mutant: the error of the DELETE is dropped.
DeleteFoundFailsSilently(e) ==
    /\ calls[e].at = "delete"
    /\ "db" \in Faults
    /\ Promise(configs[calls[e].id].name, None)
    /\ Return(e)
    /\ UNCHANGED <<configs, owner, now, tick, tried, stuck>>

-----------------------------------------------------------------------------
(* ConfigService                                                            *)

(* The page that sends the request may be older than a deletion: it names an *)
(* id this container's schedule once had, or none (uuid.Nil).               *)
PageIds(name) == {None} \cup {id \in Ids : owner[id] = name}

SaveConfig(e, name, plan, on) ==
    /\ calls[e].at = "idle"
    /\ \E id \in PageIds(name) :
         calls' = [calls EXCEPT ![e] =
            [at |-> IF id = None THEN "find" ELSE "save", id |-> id,
             name |-> name, plan |-> plan, on |-> on, since |-> now]]
    /\ UNCHANGED <<configs, owner, now, tick, tried, stuck, word, overtaken>>

(* SaveConfig without an id: FindByContainerName.                           *)
FindByContainerName(e) ==
    LET existing == {id \in Ids : Exists(id) /\ configs[id].name = calls[e].name}
    IN  /\ calls[e].at = "find"
        /\ \/ \E id \in IF existing = {} THEN {None} ELSE existing :
                 calls' = [calls EXCEPT ![e].at = "save", ![e].id = id]
           \/ "db" \in Faults /\ Return(e)
        /\ UNCHANGED <<configs, owner, now, tick, tried, stuck, word, overtaken>>

(* The last two steps of SaveConfig: NextRun from a clock read after the    *)
(* request came in, then the repository's Save, which makes an id when      *)
(* there is none yet.                                                       *)
SaveEdited(e) ==
    LET call == calls[e]
        ids == IF call.id = None THEN {id \in Ids : owner[id] = None} ELSE {call.id}
    IN  /\ call.at = "save"
        /\ \E id \in ids, u \in call.since .. now :
             /\ Save(id, [name |-> call.name, plan |-> call.plan,
                          on |-> call.on, next |-> NextRunAt(u, call.plan)])
             /\ tried' = {t \in tried : t[1] # id}
             /\ stuck' = stuck \ {id}
        /\ Promise(call.name, [plan |-> call.plan, on |-> call.on])
        /\ Return(e)
        /\ UNCHANGED <<now, tick>>

SaveEditedFails(e) ==
    /\ calls[e].at = "save"
    /\ SaveFails(calls[e].id, calls[e])
    /\ Return(e)
    /\ UNCHANGED <<configs, owner, now, tick, tried, stuck, word, overtaken>>

DeleteConfig(e, id) ==
    /\ calls[e].at = "idle"
    /\ owner[id] # None
    /\ calls' = [calls EXCEPT ![e] = [at |-> "findID", id |-> id]]
    /\ UNCHANGED <<configs, owner, now, tick, tried, stuck, word, overtaken>>

FindByID(e) ==
    /\ calls[e].at = "findID"
    /\ \/ /\ Exists(calls[e].id)
          /\ calls' = [calls EXCEPT ![e].at = "delete"]
       \/ /\ ~ Exists(calls[e].id) \/ "db" \in Faults
          /\ Return(e)
    /\ UNCHANGED <<configs, owner, now, tick, tried, stuck, word, overtaken>>

(* The row is deleted by its id; deleting a row that is gone succeeds too,   *)
(* and then changes nothing the owner asked for since.                      *)
DeleteFound(e) ==
    LET id == calls[e].id
    IN  /\ calls[e].at = "delete"
        /\ configs' = [configs EXCEPT ![id] = None]
        /\ IF Exists(id) THEN Promise(configs[id].name, None)
                         ELSE UNCHANGED <<word, overtaken>>
        /\ Return(e)
        /\ UNCHANGED <<owner, now, tick, tried, stuck>>

DeleteFoundFails(e) ==
    /\ calls[e].at = "delete"
    /\ "db" \in Faults
    /\ Return(e)
    /\ UNCHANGED <<configs, owner, now, tick, tried, stuck, word, overtaken>>

-----------------------------------------------------------------------------
(* Scheduler                                                                *)

(* The ticker fires: runDueBackups reads the due rows. When the statement   *)
(* fails the tick is over.                                                  *)
Tick ==
    /\ tick.at = "idle"
    /\ tick' = IF FindDue(now) = {} THEN Idle
               ELSE [at |-> "start", now |-> now, todo |-> FindDue(now)]
    /\ UNCHANGED <<configs, owner, now, calls, tried, stuck, word, overtaken>>

(* CreateBackupForConfig for the next due row. Whether it launches a run    *)
(* (VolumeBackup) or fails (no such storage or container, Docker or the     *)
(* database refuse) the loop goes on in the same way.                       *)
StartBackup(due) ==
    /\ tick.at = "start"
    /\ due \in tick.todo
    /\ tried' = tried \cup {<<due.id, due.row.next>>}
    /\ tick' = [at |-> "save", now |-> tick.now, cur |-> due,
                todo |-> tick.todo \ {due}]
    /\ UNCHANGED <<configs, owner, now, calls, stuck, word, overtaken>>

(* The end of the loop's body: the row as the tick read it, moved on to the *)
(* first window after the tick's time, is saved.                            *)
Advance ==
    /\ tick.at = "save"
    /\ Save(tick.cur.id,
            [tick.cur.row EXCEPT !.next = NextRunAt(tick.now, tick.cur.row.plan)])
    /\ tick' = NextDue
    /\ stuck' = stuck \ {tick.cur.id}
    /\ UNCHANGED <<now, calls, tried, word, overtaken>>

AdvanceFails ==
    /\ tick.at = "save"
    /\ SaveFails(tick.cur.id, tick.cur.row)
    /\ tick' = NextDue
    /\ stuck' = stuck \cup {tick.cur.id}
    /\ UNCHANGED <<configs, owner, now, calls, tried, word, overtaken>>

-----------------------------------------------------------------------------
(* The process ends and starts again: requests and the tick are gone.       *)
ProcessRestarts ==
    /\ "exit" \in Faults
    /\ tick' = Idle
    /\ calls' = [e \in Editors |-> Idle]
    /\ stuck' = stuck \cup {id \in Ids : Advancing(id)}
    /\ UNCHANGED <<configs, owner, now, tried, word, overtaken>>

TimePasses ==
    /\ now < Horizon
    /\ now' = now + 1
    /\ UNCHANGED <<configs, owner, tick, calls, tried, stuck, word, overtaken>>

Editing(e) ==
    \/ \E name \in Names, plan \in Plans, on \in Switches :
         SaveConfig(e, name, plan, on)
    \/ \E id \in Ids : DeleteConfig(e, id)
    \/ FindByContainerName(e)
    \/ SaveEdited(e)
    \/ SaveEditedFails(e)
    \/ FindByID(e)
    \/ DeleteFound(e)
    \/ DeleteFoundFails(e)

Scheduling ==
    \/ Tick
    \/ tick.at = "start" /\ \E due \in tick.todo : StartBackup(due)
    \/ Advance
    \/ AdvanceFails

Next ==
    \/ \E e \in Editors : Editing(e)
    \/ Scheduling
    \/ TimePasses
    \/ ProcessRestarts

Spec == Init /\ [][Next]_vars

(* The ticker of the scheduler fires every minute and its loop waits for     *)
(* nobody, so a step it can take is taken.                                  *)
FairSpec == Spec /\ WF_vars(Scheduling)
-----------------------------------------------------------------------------
(* Properties                                                               *)

(* The variables keep their types, and container_name stays unique.         *)
TableOK ==
    /\ configs \in [Ids -> Row \cup {None}]
    /\ \A i, j \in Ids :
         Exists(i) /\ Exists(j) /\ configs[i].name = configs[j].name => i = j
    /\ owner \in [Ids -> Names \cup {None}]
TickOK ==
    tick \in {Idle}
             \cup [at : {"start"}, now : 0 .. now, todo : SUBSET Due]
             \cup [at : {"save"}, now : 0 .. now, todo : SUBSET Due, cur : Due]
CallsOK ==
    calls \in [Editors -> {Idle}
             \cup [at : {"find", "save"}, id : Ids \cup {None}, name : Names,
                   plan : Plans, on : BOOLEAN, since : 0 .. now]
             \cup [at : {"findID", "delete"}, id : Ids]]
GhostsOK ==
    /\ tried \subseteq Ids \X Nat
    /\ stuck \subseteq Ids
    /\ word \in [Names -> Word \cup {None}]
    /\ overtaken \subseteq Names
TypeOK == TableOK /\ now \in Times /\ TickOK /\ CallsOK /\ GhostsOK

(* No window is served twice: a schedule whose next window was attempted    *)
(* already is the one the tick is moving on right now, or one whose move    *)
(* failed or died with the process. (scheduler.go:60-61, NextRun "strictly  *)
(* after")                                                                  *)
WindowsFresh ==
    \A id \in Ids :
        Exists(id) /\ <<id, configs[id].next>> \in tried
            => Advancing(id) \/ id \in stuck

(* What the owner last saved or deleted for a container is what the list    *)
(* shows, up to is_enabled, unless the tick was holding an older copy of    *)
(* the container's row when the owner's statement ran.                      *)
WordKept ==
    \A name \in Names \ overtaken : Shows(name, word[name])

(* As the tests of the controller expect: after a save the list shows the   *)
(* saved schedule, after a delete it shows none.                            *)
LastWordStands ==
    \A name \in Names : Shows(name, word[name])

(* A schedule that is due does not stay due for the same window: whether    *)
(* its backup starts or not, the tick moves it on (or its owner does).      *)
DueNow(id, w) == Exists(id) /\ configs[id].on /\ configs[id].next = w /\ w <= now
DueIsAdvanced ==
    \A id \in Ids, w \in Times : DueNow(id, w) ~> ~ DueNow(id, w)
=============================================================================
