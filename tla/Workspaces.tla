----------------------------- MODULE Workspaces -----------------------------
(***************************************************************************)
(* Workspaces, their members, and the storages and notifiers they contain. *)
(*                                                                         *)
(* Source: backend/internal/features/workspaces, and service.go,           *)
(* controller.go and repository.go of features/storages and                *)
(* features/notifiers.                                                     *)
(*                                                                         *)
(* A request looks (it reads the rows its checks need, one step) and then  *)
(* writes, one step per statement or transaction; other requests step in   *)
(* anywhere between.  No index keeps memberships unique.  The tables of a  *)
(* storage's or notifier's settings, one per type, refer to its row, and   *)
(* the database holds to that (foreign_keys(ON)).                          *)
(***************************************************************************)
EXTENDS Naturals, FiniteSets

CONSTANTS
    Users,       \* accounts, those included that are only invited later
    Present,     \* accounts that exist from the beginning
    Admins,      \* accounts with the global role ADMIN
    Creators,    \* members the settings let create workspaces
    Inviters,    \* members the settings let invite
    Spaces,      \* identifiers that workspaces may take
    Rows,        \* identifiers that memberships may take
    Storages,    \* identifiers that storages may take
    Notifiers,   \* identifiers that notifiers may take
    Types,       \* types of storages and notifiers
    Rclone,      \* the type of storage that is for administrators
    Teams,       \* the type of notifier whose settings go with its row
    Requests,    \* HTTP handlers in progress
    AskedRoles,  \* roles that requests name
    Loads,       \* sets of endpoints: a behaviour is put under one of these loads
    None         \* "no value", "no such row"

Items == Storages \cup Notifiers

\* IsValid accepts the first four; a change of role may name anything else.
Roles == {"OWNER", "ADMIN", "MEMBER", "VIEWER", "OTHER"}

Membership == [user : Users, space : Spaces, role : Roles]

\* parts: the types of which the item has a row of settings.
Item == [space : Spaces, type : Types, parts : SUBSET Types]

Endpoints ==
    {"create", "createMore", "add", "changeRole", "remove", "transfer", "rename", "delete",
     "saveStorage", "saveNotifier", "deleteItem", "test", "move", "failure"}

ASSUME WorkspacesAssumption ==
    /\ Present \subseteq Users /\ Admins \subseteq Present
    /\ AskedRoles \subseteq Roles
    /\ Rclone \in Types /\ Teams \in Types
    /\ Storages \cap Notifiers = {}
    /\ None \notin Users \cup Spaces \cup Requests \cup Membership \cup Item \cup Items
    /\ Loads \subseteq SUBSET Endpoints

VARIABLES
    known,     \* accounts in the users table
    space,     \* a workspace: "unused" identifier, "open", or "deleted"
    member,    \* workspace_memberships rows
    item,      \* storages and notifiers rows
    used,      \* identifiers of items that were handed out
    req,       \* what a request has still to write
    held,      \* rows of items that a request has read, or is about to save
    load,      \* endpoints that are called in this behaviour
    joinedBy,  \* history: the request that inserted a membership
    founded,   \* history: workspaces whose creator became a member
    excused,   \* history: workspaces with overlapping requests, or self-transfers
    saved,     \* history: items saved into the workspace a request is deleting
    mixed,     \* history: items that a request gave settings of several types
    blessed,   \* history: storages that an administrator made rclone storages
    deleted,   \* history: items that were deleted
    gone       \* history: requests in progress when an item or workspace was deleted

memberVars == <<known, member, joinedBy, founded, excused>>
itemVars   == <<item, used, mixed, blessed, deleted>>
vars == <<memberVars, itemVars, space, req, held, load, saved, gone>>

Ops == {"done", "makeSpace", "own", "invite", "join", "setRole", "remove", "findOwner",
        "promote", "demote", "rename", "listNotifiers", "clearNotifiers",
        "clearStorages", "save", "deleteItem"}

Done == [op |-> "done", space |-> None, user |-> None, role |-> None, owner |-> None]
Op(op, w, u, new, o) ==
    [op |-> op, space |-> w, user |-> u, role |-> new, owner |-> o]

Nothing == [i \in Items |-> None]

TypeOK ==
    /\ known \subseteq Users
    /\ space \in [Spaces -> {"unused", "open", "deleted"}]
    /\ member \in [Rows -> Membership \cup {None}]
    /\ item \in [Items -> Item \cup {None}]
    /\ used \subseteq Items
    /\ req \in [Requests -> [op : Ops, space : Spaces \cup {None},
                             user : Users \cup {None}, role : Roles \cup {None},
                             owner : Users \cup {None}]]
    /\ held \in [Requests -> [Items -> Item \cup {None}]]
    /\ load \in Loads
    /\ joinedBy \in [Rows -> Requests \cup {None}]
    /\ founded \subseteq Spaces
    /\ excused \subseteq Spaces
    /\ saved \in [Requests -> SUBSET Items]
    /\ mixed \subseteq Items
    /\ blessed \subseteq Items
    /\ deleted \subseteq Items
    /\ gone \in [Items \cup Spaces -> SUBSET Requests]

Init ==
    /\ known = Present
    /\ space = [w \in Spaces |-> "unused"]
    /\ member = [m \in Rows |-> None]
    /\ item = [i \in Items |-> None]
    /\ used = {}
    /\ req = [r \in Requests |-> Done]
    /\ held = [r \in Requests |-> Nothing]
    /\ load \in Loads
    /\ joinedBy = [m \in Rows |-> None]
    /\ founded = {} /\ excused = {}
    /\ saved = [r \in Requests |-> {}]
    /\ mixed = {} /\ blessed = {} /\ deleted = {}
    /\ gone = [x \in Items \cup Spaces |-> {}]

----------------------------------------------------------------------------
(* What the requests read.                                                 *)

\* Identifiers are random: those not given to a workspace are not named.
Given == {w \in Spaces : space[w] # "unused"}

Of(u, w) == {m \in Rows : member[m] # None /\ member[m].user = u /\ member[m].space = w}

\* GetUserWorkspaceRole answers the first of the rows in the order of random
\* ids: any of them.  A global administrator passes every check.
Has(u, w, roles) == u \in Admins \/ \E m \in Of(u, w) : member[m].role \in roles

CanUserAccessWorkspace(u, w)  == Has(u, w, Roles)
CanUserManageDBs(u, w)        == Has(u, w, {"OWNER", "ADMIN", "MEMBER"})
CanUserManageMembership(u, w) == Has(u, w, {"OWNER", "ADMIN"})
CanUserManageAdmins(u, w)     == Has(u, w, {"OWNER"})
CanUserManageWorkspace(u, w)  == Has(u, w, {"OWNER", "ADMIN"})
CanDeleteOrTransfer(u, w)     == Has(u, w, {"OWNER"})

validateCanManageMembership(u, w, role) ==
    IF role = "ADMIN" THEN CanUserManageAdmins(u, w) ELSE CanUserManageMembership(u, w)

\* Mutant: settings are saved for every type, whatever the request is of.
SavedPartsAll(i, row) == Types

\* Stored is what a transaction leaves in the tables of settings: a storage is
\* saved with the rows that were read with it, a notifier with that of its type.
SavedParts(i, row) ==
    (IF item[i] = None THEN {} ELSE item[i].parts)
        \cup (IF i \in Storages THEN row.parts ELSE {row.type})

\* Deleting an item of the type that was read takes that row of settings along,
\* and those of a Teams notifier cascade; the database refuses to delete an item
\* that any other row of settings refers to.
CanDelete(i, row) ==
    item[i] # None =>
        \A t \in item[i].parts : t = row.type \/ (i \in Notifiers /\ t = Teams)

Goto(r, op) == req' = [req EXCEPT ![r] = op]

Hold(r, i, row) == held' = [held EXCEPT ![r] = [Nothing EXCEPT ![i] = row]]

Looks(r, endpoint) ==
    /\ endpoint \in load
    /\ req[r] = Done
    /\ saved' = [saved EXCEPT ![r] = {}]
    /\ gone' = [x \in Items \cup Spaces |-> gone[x] \ {r}]
    /\ UNCHANGED <<known, space, member, item, load, joinedBy, founded, deleted>>

\* A request about the members of w, and whether it overlaps another one.
LooksAtMembers(r, endpoint, w) ==
    /\ Looks(r, endpoint)
    /\ excused' = IF \E q \in Requests \ {r} : req[q].space = w THEN excused \cup {w} ELSE excused
    /\ UNCHANGED <<used, held, mixed, blessed>>

LooksAtItems(r, endpoint) == Looks(r, endpoint) /\ UNCHANGED excused

\* Every row of the user in the workspace; there may be none.
WithRole(u, w, role) ==
    [m \in Rows |-> IF m \in Of(u, w) THEN [member[m] EXCEPT !.role = role] ELSE member[m]]

\* Mutant: an update need not be by an administrator.
MaySaveTypeUpdates(by, i, t) == t = Rclone /\ item[i] = None => by \in Admins

\* An rclone storage is for administrators.
MaySaveType(by, i, t) == t = Rclone => by \in Admins

Found(i, w) == item[i] # None /\ item[i].space = w

----------------------------------------------------------------------------
(* Faults.  Each is an operator as a plausible bug would have it; nothing   *)
(* refers to them: putting one in the place of its original shows which     *)
(* property notices.                                                        *)

\* Mutant: existing memberships are not looked up.
AddMemberAgain(r, by, w, u, role) ==
    /\ LooksAtMembers(r, "add", w)
    /\ by \in known /\ validateCanManageMembership(by, w, role)
    /\ u \in known
    /\ Goto(r, Op("join", w, u, role, None))

\* Mutant: the previous owner is demoted before the new one is promoted.
UpdateMemberRoleOldFirst(r) ==
    /\ req[r].op \in {"setRole", "promote", "demote"}
    /\ member' = IF req[r].op = "promote"
                 THEN WithRole(req[r].owner, req[r].space, "ADMIN")
                 ELSE WithRole(req[r].user, req[r].space, req[r].role)
    /\ Goto(r, IF req[r].op = "promote" THEN [req[r] EXCEPT !.op = "demote"] ELSE Done)
    /\ UNCHANGED <<known, space, itemVars, held, load, joinedBy, founded, excused, saved, gone>>

\* Mutant: an item that cannot be deleted is passed over.
ClearListedAnyway(r, i) ==
    /\ req[r].op \in {"clearNotifiers", "clearStorages"}
    /\ held[r][i] # None
    /\ held' = [held EXCEPT ![r][i] = None]
    /\ IF CanDelete(i, held[r][i])
       THEN /\ item' = [item EXCEPT ![i] = None]
            /\ deleted' = IF item[i] # None THEN deleted \cup {i} ELSE deleted
            /\ gone' = IF item[i] # None
                       THEN [gone EXCEPT ![i] = {q \in Requests : req[q] # Done} \ {r}] ELSE gone
       ELSE UNCHANGED <<item, deleted, gone>>
    /\ UNCHANGED <<memberVars, space, used, mixed, blessed, req, load, saved>>

----------------------------------------------------------------------------
(* The looks: workspaces and their members.                                *)

CreateWorkspace(r, by) ==
    /\ Looks(r, "create")
    /\ by \in known /\ by \in Admins \cup Creators
    /\ Goto(r, Op("makeSpace", None, by, "OWNER", None))
    /\ UNCHANGED <<used, held, excused, mixed, blessed>>

\* An unknown address is invited first, if the workspace is there; otherwise
\* nothing asks whether it is.
AddMember(r, by, w, u, role) ==
    /\ LooksAtMembers(r, "add", w)
    /\ by \in known /\ validateCanManageMembership(by, w, role)
    /\ \/ /\ u \notin known
          /\ by \in Admins \cup Inviters /\ space[w] = "open"
          /\ Goto(r, Op("invite", w, u, role, None))
       \/ /\ u \in known /\ Of(u, w) = {}
          /\ Goto(r, Op("join", w, u, role, None))

ChangeMemberRole(r, by, w, u, role) ==
    /\ LooksAtMembers(r, "changeRole", w)
    /\ by \in known /\ validateCanManageMembership(by, w, role)
    /\ u # by
    /\ \E m \in Of(u, w) : member[m].role # "OWNER"
    /\ Goto(r, Op("setRole", w, u, role, None))

RemoveMember(r, by, w, u) ==
    /\ LooksAtMembers(r, "remove", w)
    /\ by \in known /\ CanUserManageMembership(by, w)
    /\ \E m \in Of(u, w) :
          /\ member[m].role # "OWNER"
          /\ member[m].role = "ADMIN" => CanUserManageAdmins(by, w)
    /\ Goto(r, Op("remove", w, u, None, None))

TransferOwnership(r, by, w, u) ==
    /\ LooksAtMembers(r, "transfer", w)
    /\ by \in known /\ CanDeleteOrTransfer(by, w)
    /\ u \in known /\ Of(u, w) # {}
    /\ Goto(r, Op("findOwner", w, u, "OWNER", None))

UpdateWorkspace(r, by, w) ==
    /\ Looks(r, "rename")
    /\ by \in known /\ CanUserManageWorkspace(by, w)
    /\ space[w] = "open"
    /\ Goto(r, Op("rename", w, None, None, None))
    /\ UNCHANGED <<used, held, excused, mixed, blessed>>

DeleteWorkspace(r, by, w) ==
    /\ Looks(r, "delete")
    /\ by \in known /\ CanDeleteOrTransfer(by, w)
    /\ space[w] = "open"
    /\ Goto(r, Op("listNotifiers", w, None, None, None))
    /\ UNCHANGED <<used, held, excused, mixed, blessed>>

----------------------------------------------------------------------------
(* The looks: storages and notifiers.                                      *)

Saves(r, w) == Goto(r, Op("save", w, None, None, None))

\* A new item, in a workspace nobody asks after.
Create(r, w, i, t, parts) ==
    /\ i \notin used
    /\ used' = used \cup {i}
    /\ Hold(r, i, [space |-> w, type |-> t, parts |-> parts])
    /\ mixed' = IF parts # {t} THEN mixed \cup {i} ELSE mixed
    /\ Saves(r, w)

\* The item that was found, with what the request has of it.
Update(r, w, i, t) ==
    /\ Found(i, w)
    /\ Hold(r, i, [space |-> w, type |-> t, parts |-> item[i].parts \cup {t}])
    /\ mixed' = IF t # item[i].type THEN mixed \cup {i} ELSE mixed
    /\ Saves(r, w)
    /\ UNCHANGED used

\* Of a new storage, all the settings that the request brings are inserted, those
\* of other types too: Omit comes after Create.
SaveStorage(r, by, w, i, t) ==
    /\ LooksAtItems(r, "saveStorage")
    /\ by \in known /\ CanUserManageDBs(by, w)
    /\ MaySaveType(by, i, t)
    /\ blessed' = IF t = Rclone /\ by \in Admins THEN blessed \cup {i} ELSE blessed
    /\ \/ \E more \in SUBSET Types : Create(r, w, i, t, more \cup {t})
       \/ Update(r, w, i, t)

\* Update takes no settings of another type over: such a request panics on the
\* settings that are not there.
SaveNotifier(r, by, w, i, t) ==
    /\ LooksAtItems(r, "saveNotifier")
    /\ by \in known /\ CanUserManageDBs(by, w)
    /\ Create(r, w, i, t, {t}) \/ (Update(r, w, i, t) /\ t \in item[i].parts)
    /\ UNCHANGED blessed

\* The item is read, with its settings, and is to be deleted.
ToDelete(r, by, i) ==
    /\ LooksAtItems(r, "deleteItem")
    /\ item[i] # None
    /\ by \in known /\ CanUserManageDBs(by, item[i].space)
    /\ Hold(r, i, item[i])
    /\ Goto(r, Op("deleteItem", item[i].space, None, None, None))
    /\ UNCHANGED <<used, mixed, blessed>>

\* No counter of attached databases is registered: use does not protect a storage.
DeleteStorage(r, by, i) == i \in Storages /\ ToDelete(r, by, i)

DeleteNotifier(r, by, i) == i \in Notifiers /\ ToDelete(r, by, i)

\* The item is tried out, which takes as long as it takes, and is saved whole as
\* it was read when that went well.
ToTest(r, by, i) ==
    /\ LooksAtItems(r, "test")
    /\ item[i] # None
    /\ by \in known /\ CanUserAccessWorkspace(by, item[i].space)
    /\ Hold(r, i, item[i])
    /\ Saves(r, item[i].space)
    /\ UNCHANGED <<used, mixed, blessed>>

TestStorageConnection(r, by, i) == i \in Storages /\ ToTest(r, by, i)

SendTestNotification(r, by, i) == i \in Notifiers /\ ToTest(r, by, i)

\* The item is read and is to be saved with the other workspace's identifier.
ToMove(r, by, i, w) ==
    /\ LooksAtItems(r, "move")
    /\ item[i] # None
    /\ by \in known /\ CanUserManageDBs(by, item[i].space) /\ CanUserManageDBs(by, w)
    /\ Hold(r, i, [item[i] EXCEPT !.space = w])
    /\ Saves(r, w)
    /\ UNCHANGED <<used, mixed, blessed>>

TransferStorageToWorkspace(r, by, i, w) == i \in Storages /\ ToMove(r, by, i, w)

TransferNotifierToWorkspace(r, by, i, w) == i \in Notifiers /\ ToMove(r, by, i, w)

----------------------------------------------------------------------------
(* The writes: workspaces and their members.                               *)

\* Bound: a second workspace under some loads only.
MakeSpace(r, w) ==
    /\ req[r].op = "makeSpace"
    /\ space[w] = "unused" /\ (Given = {} \/ "createMore" \in load)
    /\ space' = [space EXCEPT ![w] = "open"]
    /\ Goto(r, [req[r] EXCEPT !.op = "own", !.space = w])
    /\ UNCHANGED <<memberVars, itemVars, held, load, saved, gone>>

\* InviteUser looks again for the address; the mail that follows may fail.
Invite(r) ==
    /\ req[r].op = "invite"
    /\ IF req[r].user \in known
       THEN Goto(r, Done) /\ UNCHANGED known
       ELSE known' = known \cup {req[r].user} /\ Goto(r, [req[r] EXCEPT !.op = "join"])
    /\ UNCHANGED <<space, member, itemVars, held, load, joinedBy, founded, excused, saved, gone>>

CreateMembership(r, m) ==
    /\ req[r].op \in {"own", "join"}
    /\ member[m] = None
    /\ member' = [member EXCEPT ![m] =
                    [user |-> req[r].user, space |-> req[r].space, role |-> req[r].role]]
    /\ joinedBy' = [joinedBy EXCEPT ![m] = r]
    /\ founded' = IF req[r].op = "own" THEN founded \cup {req[r].space} ELSE founded
    /\ Goto(r, Done)
    /\ UNCHANGED <<known, space, itemVars, held, load, excused, saved, gone>>

\* The second look of a transfer.
GetWorkspaceOwner(r) ==
    /\ req[r].op = "findOwner"
    /\ \/ \E m \in Rows :
            /\ member[m] # None /\ member[m].space = req[r].space /\ member[m].role = "OWNER"
            /\ Goto(r, [req[r] EXCEPT !.op = "promote", !.owner = member[m].user])
            /\ excused' = IF member[m].user = req[r].user
                          THEN excused \cup {req[r].space} ELSE excused
       \/ /\ \A m \in Rows : member[m] # None /\ member[m].space = req[r].space
                                => member[m].role # "OWNER"
          /\ Goto(r, Done)
          /\ UNCHANGED excused
    /\ UNCHANGED <<known, space, member, itemVars, held, load, joinedBy, founded, saved, gone>>

UpdateMemberRole(r) ==
    /\ req[r].op \in {"setRole", "promote", "demote"}
    /\ member' = WithRole(req[r].user, req[r].space, req[r].role)
    /\ Goto(r, IF req[r].op = "promote"
               THEN [req[r] EXCEPT !.op = "demote", !.user = req[r].owner, !.role = "ADMIN"]
               ELSE Done)
    /\ UNCHANGED <<known, space, itemVars, held, load, joinedBy, founded, excused, saved, gone>>

Remove(r) ==
    /\ req[r].op = "remove"
    /\ member' = [m \in Rows |->
                    IF m \in Of(req[r].user, req[r].space) THEN None ELSE member[m]]
    /\ Goto(r, Done)
    /\ UNCHANGED <<known, space, itemVars, held, load, joinedBy, founded, excused, saved, gone>>

\* gorm's Save inserts the row when there is none to update.
Rename(r) ==
    /\ req[r].op = "rename"
    /\ space' = [space EXCEPT ![req[r].space] = "open"]
    /\ Goto(r, Done)
    /\ UNCHANGED <<memberVars, itemVars, held, load, saved, gone>>

----------------------------------------------------------------------------
(* The writes: storages and notifiers, and what a workspace takes along.   *)

InProgress == {q \in Requests : req[q] # Done}

\* The listeners find what the workspace contains: notifiers, then storages.
Listed(r, kind) ==
    held' = [held EXCEPT ![r] =
              [i \in Items |-> IF i \in kind /\ item[i] # None /\ item[i].space = req[r].space
                               THEN item[i] ELSE None]]

ListNotifiers(r) ==
    /\ req[r].op = "listNotifiers"
    /\ Listed(r, Notifiers)
    /\ Goto(r, [req[r] EXCEPT !.op = "clearNotifiers"])
    /\ UNCHANGED <<memberVars, itemVars, space, load, saved, gone>>

ListStorages(r) ==
    /\ req[r].op = "clearNotifiers" /\ held[r] = Nothing
    /\ Listed(r, Storages)
    /\ Goto(r, [req[r] EXCEPT !.op = "clearStorages"])
    /\ UNCHANGED <<memberVars, itemVars, space, load, saved, gone>>

\* One item is deleted, in a transaction of its own.
Drop(r, i) ==
    /\ CanDelete(i, held[r][i])
    /\ item' = [item EXCEPT ![i] = None]
    /\ deleted' = IF item[i] # None THEN deleted \cup {i} ELSE deleted
    /\ gone' = IF item[i] # None THEN [gone EXCEPT ![i] = InProgress \ {r}] ELSE gone

\* The deletion of the workspace ends where a listener fails.
ClearListed(r, i) ==
    /\ req[r].op \in {"clearNotifiers", "clearStorages"}
    /\ held[r][i] # None
    /\ \/ /\ Drop(r, i)
          /\ held' = [held EXCEPT ![r][i] = None]
          /\ UNCHANGED req
       \/ /\ ~CanDelete(i, held[r][i])
          /\ held' = [held EXCEPT ![r] = Nothing]
          /\ Goto(r, Done)
          /\ UNCHANGED <<item, deleted, gone>>
    /\ UNCHANGED <<memberVars, space, used, mixed, blessed, load, saved>>

\* The memberships stay.
DropSpace(r) ==
    /\ req[r].op = "clearStorages" /\ held[r] = Nothing
    /\ space' = [space EXCEPT ![req[r].space] = "deleted"]
    /\ gone' = [gone EXCEPT ![req[r].space] = InProgress \ {r}]
    /\ Goto(r, Done)
    /\ UNCHANGED <<memberVars, itemVars, held, load, saved>>

DeleteItem(r, i) ==
    /\ req[r].op = "deleteItem"
    /\ held[r][i] # None
    /\ Drop(r, i) \/ (~CanDelete(i, held[r][i]) /\ UNCHANGED <<item, deleted, gone>>)
    /\ held' = [held EXCEPT ![r] = Nothing]
    /\ Goto(r, Done)
    /\ UNCHANGED <<memberVars, space, used, mixed, blessed, load, saved>>

\* The deletions of w that will not find an item i that is saved there now.
Past(i, w) ==
    {q \in Requests : req[q].space = w /\ \/ req[q].op = "clearStorages"
                                          \/ req[q].op = "clearNotifiers" /\ i \in Notifiers}

\* The row and its settings are saved, inserted if need be.
Stored(r, i) ==
    /\ item' = [item EXCEPT ![i] = [held[r][i] EXCEPT !.parts = SavedParts(i, held[r][i])]]
    /\ saved' = [q \in Requests |->
                  IF q \in Past(i, held[r][i].space) THEN saved[q] \cup {i} ELSE saved[q]]

Saved(r, i) ==
    /\ req[r].op = "save"
    /\ held[r][i] # None
    /\ held' = [held EXCEPT ![r] = Nothing]
    /\ Goto(r, Done)
    /\ UNCHANGED <<memberVars, space, used, mixed, blessed, deleted, load, gone>>

\* Mutant: the row is saved before its settings, as that of a notifier is.
SaveStorageRowFirst(r, i) == Saved(r, i) /\ Stored(r, i)

\* A storage that is gone is not inserted again: its settings are saved first and
\* refer to nothing.
SaveStorageRow(r, i) ==
    /\ Saved(r, i)
    /\ IF i \in deleted THEN UNCHANGED <<item, saved>> ELSE Stored(r, i)

\* A notifier's row is saved first.
SaveNotifierRow(r, i) == Saved(r, i) /\ Stored(r, i)

\* A statement fails, the handler panics or the process ends.
Fails(r) ==
    /\ "failure" \in load
    /\ req[r] # Done
    /\ Goto(r, Done)
    /\ held' = [held EXCEPT ![r] = Nothing]
    /\ UNCHANGED <<memberVars, itemVars, space, load, saved, gone>>

----------------------------------------------------------------------------
(* The handlers of the four controllers.                                   *)

WorkspaceHandlers(r) ==
    \E by \in Users :
        \/ CreateWorkspace(r, by)
        \/ \E w \in Given : UpdateWorkspace(r, by, w) \/ DeleteWorkspace(r, by, w)

AddHandler(r) ==
    \E by, u \in Users, w \in Given, role \in AskedRoles \ {"OTHER"} : AddMember(r, by, w, u, role)

RoleHandler(r) ==
    \E by, u \in Users, w \in Given, role \in AskedRoles : ChangeMemberRole(r, by, w, u, role)

MemberHandlers(r) ==
    \E by, u \in Users, w \in Given : RemoveMember(r, by, w, u) \/ TransferOwnership(r, by, w, u)

SaveStorageHandler(r) ==
    \E by \in Users, i \in Storages, w \in Given, t \in Types : SaveStorage(r, by, w, i, t)

SaveNotifierHandler(r) ==
    \E by \in Users, i \in Notifiers, w \in Given, t \in Types : SaveNotifier(r, by, w, i, t)

StorageHandlers(r) ==
    \E by \in Users, i \in Storages :
        \/ DeleteStorage(r, by, i) \/ TestStorageConnection(r, by, i)
        \/ \E w \in Given : TransferStorageToWorkspace(r, by, i, w)

NotifierHandlers(r) ==
    \E by \in Users, i \in Notifiers :
        \/ DeleteNotifier(r, by, i) \/ SendTestNotification(r, by, i)
        \/ \E w \in Given : TransferNotifierToWorkspace(r, by, i, w)

Look(r) ==
    \/ WorkspaceHandlers(r) \/ AddHandler(r) \/ RoleHandler(r) \/ MemberHandlers(r)
    \/ SaveStorageHandler(r) \/ SaveNotifierHandler(r)
    \/ StorageHandlers(r) \/ NotifierHandlers(r)

WriteMembers(r) ==
    \/ \E w \in Spaces : MakeSpace(r, w)
    \/ \E m \in Rows : CreateMembership(r, m)
    \/ Invite(r) \/ GetWorkspaceOwner(r) \/ UpdateMemberRole(r) \/ Remove(r)

WriteItems(r) ==
    \/ Rename(r) \/ ListNotifiers(r) \/ ListStorages(r) \/ DropSpace(r)
    \/ \E i \in Items : ClearListed(r, i) \/ DeleteItem(r, i)
    \/ \E i \in Storages : SaveStorageRow(r, i)
    \/ \E i \in Notifiers : SaveNotifierRow(r, i)

Next == \E r \in Requests : Look(r) \/ WriteMembers(r) \/ WriteItems(r) \/ Fails(r)

Spec == Init /\ [][Next]_vars

----------------------------------------------------------------------------
(* Properties.                                                             *)

\* Only requests that overlapped make an account a member of a workspace twice.
OneMembership ==
    \A m, n \in Rows :
        /\ m # n /\ member[m] # None /\ member[n] # None
        /\ member[m].user = member[n].user /\ member[m].space = member[n].space
        => joinedBy[m] # joinedBy[n]

\* A workspace whose creator became its owner has an owner ever after: whatever
\* is added, changed, removed and transferred, and wherever a transfer breaks
\* off, unless requests about its members overlapped or an owner was made the
\* successor of himself.
OwnerStands ==
    \A w \in founded \ excused :
        \E m \in Rows : member[m] # None /\ member[m].space = w /\ member[m].role = "OWNER"

\* When the row of a workspace is about to be deleted, every storage and notifier
\* that is left in it was saved there after the deletion had listed its kind.
NothingOldLeft ==
    \A r \in Requests : req[r].op = "clearStorages" /\ held[r] = Nothing =>
        \A i \in Items : item[i] # None /\ item[i].space = req[r].space => i \in saved[r]

\* Whoever looks at an item now can delete it, whatever stale rows were saved over
\* it, unless a request gave it settings of several types: by a change of its
\* type, or, for a storage, by bringing settings of other types to its creation
\* (storages/repository.go:52-57; the form leaves some behind,
\* EditStorageComponent.tsx:85-93).
Removable == \A i \in Items \ mixed : item[i] # None => CanDelete(i, item[i])

\* A storage that is an rclone storage was made one by an administrator.
RcloneByAdmin == \A i \in Storages : item[i] # None /\ item[i].type = Rclone => i \in blessed

\* What was deleted stays deleted, storages without exception; a notifier or a
\* workspace comes back only by a request that was in progress at its deletion.
BackByOverlap ==
    [][/\ \A i \in deleted : item[i] = None /\ item'[i] # None =>
            i \in Notifiers /\ \E r \in gone[i] : req[r] # Done /\ req'[r] = Done
       /\ \A w \in Spaces : space[w] = "deleted" /\ space'[w] # "deleted" =>
            \E r \in gone[w] : req[r] # Done /\ req'[r] = Done]_vars
=============================================================================
