-------------------------- MODULE WorkspacesProofs ---------------------------
(***************************************************************************)
(* The properties of Workspaces, for every set of accounts, workspaces,    *)
(* memberships, storages, notifiers and requests and every load.           *)
(*                                                                         *)
(* The invariant has two parts, one about members and one about items.     *)
(* Each says what a request may rely on between its look and its last      *)
(* write: MemberIntent what it knows of the memberships, the parts of      *)
(* ItemsInv what it holds of the items.                                    *)
(***************************************************************************)
EXTENDS Workspaces, TLAPS

PendingOp ==
    [op : Ops, space : Spaces \cup {None}, user : Users \cup {None},
     role : Roles \cup {None}, owner : Users \cup {None}]

----------------------------------------------------------------------------
(* Members.                                                                *)

MemberOps == {"own", "invite", "join", "setRole", "remove", "findOwner", "promote", "demote"}

MemberTypes ==
    /\ known \subseteq Users
    /\ space \in [Spaces -> {"unused", "open", "deleted"}]
    /\ member \in [Rows -> Membership \cup {None}]
    /\ req \in [Requests -> PendingOp]
    /\ joinedBy \in [Rows -> Requests \cup {None}]
    /\ founded \subseteq Spaces /\ excused \subseteq Spaces

In(m, w) == member[m] # None /\ member[m].space = w

\* Members are known, and are so of workspaces that were made.
RowsStand ==
    \A m \in Rows : member[m] # None => member[m].user \in known /\ member[m].space \in Given

\* What holds between request r's look and the statement p it goes to.
MemberIntent(r, p) ==
    /\ p.op \in MemberOps => p.space \in Given /\ p.space \in Spaces
    /\ p.op \in MemberOps \cup {"makeSpace"} => p.user \in Users
    /\ p.op \in {"makeSpace", "own", "join"} => p.user \in known
    /\ p.op \in {"makeSpace", "own", "findOwner", "promote"} => p.role = "OWNER"
    /\ p.op \in {"invite", "join", "setRole", "demote"} => p.role \in Roles
    /\ p.op = "promote" => p.owner \in Users
    /\ p.op \in {"own", "join", "invite"} =>
          \A m \in Rows : In(m, p.space) /\ member[m].user = p.user => joinedBy[m] # r
    /\ p.space \notin excused =>
          /\ p.op = "own" => \A m \in Rows : ~In(m, p.space)
          /\ p.op \in {"join", "invite"} =>
                \A m \in Rows : In(m, p.space) => member[m].user # p.user
          /\ p.op \in {"setRole", "remove"} =>
                \A m \in Rows :
                    In(m, p.space) /\ member[m].user = p.user => member[m].role # "OWNER"
          /\ p.op \in {"findOwner", "promote"} =>
                \E m \in Rows : In(m, p.space) /\ member[m].user = p.user
          /\ p.op = "promote" => p.user # p.owner
          /\ p.op = "demote" =>
                \E m \in Rows : In(m, p.space) /\ member[m].role = "OWNER" /\ member[m].user # p.user

MemberIntents == \A r \in Requests : MemberIntent(r, req[r])

\* Two requests about the members of a workspace overlap.
Alone ==
    \A r, q \in Requests :
        /\ r # q /\ req[r].op \in MemberOps /\ req[q].op \in MemberOps
        /\ req[r].space = req[q].space
        => req[r].space \in excused

OneRow ==
    \A m, n \in Rows :
        /\ m # n /\ member[m] # None /\ member[n] # None
        /\ member[m].user = member[n].user /\ member[m].space = member[n].space
        => member[m].space \in excused

MembersInv ==
    /\ MemberTypes /\ RowsStand /\ MemberIntents /\ Alone
    /\ OneRow /\ OneMembership /\ OwnerStands

\* A request goes to a statement its checks allow, and the rows stay.
LEMMA MemberLookKeeps ==
    ASSUME MembersInv, NEW r \in Requests, NEW p \in PendingOp, Goto(r, p), MemberIntent(r, p),
           UNCHANGED <<known, member, joinedBy, founded>>,
           space' \in [Spaces -> {"unused", "open", "deleted"}], Given \subseteq Given',
           excused \subseteq excused', excused' \subseteq Spaces,
           p.op \in MemberOps =>
               \A q \in Requests \ {r} :
                   req[q].op \in MemberOps /\ req[q].space = p.space => p.space \in excused'
    PROVE  MembersInv'
<1> USE DEF MembersInv
<1>1. MemberTypes'
  BY DEF MemberTypes, Goto
<1>2. req'[r] = p /\ \A q \in Requests \ {r} : req'[q] = req[q]
  BY DEF MemberTypes, Goto
<1>3. RowsStand' /\ OneRow' /\ OneMembership' /\ OwnerStands'
  BY DEF RowsStand, OneRow, OneMembership, OwnerStands
<1>4. Alone'
  BY <1>2 DEF Alone
<1>5. MemberIntents'
  <2> SUFFICES ASSUME NEW q \in Requests PROVE MemberIntent(q, req[q])'
    BY DEF MemberIntents
  <2>1. MemberIntent(q, req'[q])
    BY <1>2 DEF MemberIntents
  <2> HIDE DEF MembersInv
  <2> QED
    BY <2>1 DEF MemberIntent, In
<1> QED
  BY <1>1, <1>3, <1>4, <1>5

LEMMA SpacesStay ==
    ASSUME MembersInv, UNCHANGED space
    PROVE  space' \in [Spaces -> {"unused", "open", "deleted"}] /\ Given \subseteq Given'
  BY DEF MembersInv, MemberTypes, Given

LEMMA DoneMemberIntent ==
    ASSUME NEW r \in Requests
    PROVE  Done \in PendingOp /\ MemberIntent(r, Done)
  BY DEF Done, PendingOp, Ops, MemberIntent, MemberOps

\* A statement that is no business of the members.
LEMMA ItemOpKeeps ==
    ASSUME MembersInv, NEW r \in Requests, NEW p \in PendingOp, Goto(r, p),
           p.op \notin MemberOps \cup {"makeSpace"},
           UNCHANGED memberVars,
           space' \in [Spaces -> {"unused", "open", "deleted"}], Given \subseteq Given'
    PROVE  MembersInv'
<1>1. MemberIntent(r, p)
  BY DEF MemberIntent, MemberOps
<1>2. UNCHANGED <<known, member, joinedBy, founded, excused>>
  BY DEF memberVars
<1> QED
  BY <1>1, <1>2, MemberLookKeeps DEF MembersInv, MemberTypes

\* A look at the members of w that leads to a statement about them.
LEMMA MemberLook ==
    ASSUME MembersInv, NEW r \in Requests, NEW w \in Given, NEW u \in Users,
           NEW role \in Roles \cup {None}, NEW endpoint,
           NEW op \in {"invite", "join", "setRole", "remove", "findOwner"},
           LooksAtMembers(r, endpoint, w), Goto(r, Op(op, w, u, role, None)),
           op \in {"invite", "join", "setRole"} => role \in Roles,
           op = "findOwner" => role = "OWNER" /\ Of(u, w) # {},
           op = "join" => u \in known,
           op \in {"join", "invite"} => Of(u, w) = {},
           op \in {"setRole", "remove"} => \E m \in Of(u, w) : member[m].role # "OWNER"
    PROVE  MembersInv'
<1> DEFINE p == Op(op, w, u, role, None)
<1>1. p \in PendingOp /\ p.op = op /\ p.space = w /\ p.user = u /\ p.role = role /\ w \in Spaces
  BY DEF Op, PendingOp, Ops, Given
<1>2. /\ UNCHANGED <<known, space, member, joinedBy, founded>>
      /\ excused \subseteq excused' /\ excused' \subseteq Spaces
      /\ (\E q \in Requests \ {r} : req[q].space = w) => w \in excused'
  BY <1>1 DEF LooksAtMembers, Looks, MembersInv, MemberTypes
<1>3. \A m \in Rows : m \in Of(u, w) <=> In(m, w) /\ member[m].user = u
  BY DEF Of, In
<1>4. op \in {"setRole", "remove"} /\ w \notin excused =>
         \A m \in Rows : In(m, w) /\ member[m].user = u => member[m].role # "OWNER"
  BY <1>3 DEF MembersInv, OneRow, In, Of
<1>5. op = "findOwner" => \E m \in Rows : In(m, w) /\ member[m].user = u
  BY <1>3 DEF Of
<1> HIDE DEF p
<1>6. MemberIntent(r, p)
  BY <1>1, <1>3, <1>4, <1>5 DEF MemberIntent, MemberOps
<1> QED
  BY <1>1, <1>2, <1>6, SpacesStay, MemberLookKeeps DEF p

LEMMA MemberLooks ==
    ASSUME MembersInv, NEW r \in Requests, NEW by \in Users,
           \/ CreateWorkspace(r, by)
           \/ \E u \in Users, w \in Given :
                 \/ \E role \in AskedRoles \ {"OTHER"} : AddMember(r, by, w, u, role)
                 \/ \E role \in AskedRoles : ChangeMemberRole(r, by, w, u, role)
                 \/ RemoveMember(r, by, w, u) \/ TransferOwnership(r, by, w, u)
    PROVE  MembersInv'
<1>1. CASE CreateWorkspace(r, by)
  <2> DEFINE p == Op("makeSpace", None, by, "OWNER", None)
  <2>1. p \in PendingOp /\ p.op = "makeSpace" /\ p.space = None /\ p.user = by /\ p.role = "OWNER"
    BY DEF Op, PendingOp, Ops, Roles
  <2>2. by \in known /\ Goto(r, p) /\ UNCHANGED <<known, space, member, joinedBy, founded, excused>>
    BY <1>1 DEF CreateWorkspace, Looks
  <2> HIDE DEF p
  <2>3. MemberIntent(r, p)
    BY <2>1, <2>2 DEF MemberIntent, MemberOps
  <2>4. p.op \notin MemberOps /\ excused' = excused /\ excused \subseteq Spaces
    BY <2>1, <2>2 DEF MemberOps, MembersInv, MemberTypes
  <2> QED
    BY <2>1, <2>2, <2>3, <2>4, SpacesStay, MemberLookKeeps
<1>2. ASSUME NEW u \in Users, NEW w \in Given, NEW role \in AskedRoles, AddMember(r, by, w, u, role)
      PROVE  MembersInv'
  <2>1. CASE u \in known
    <3>1. /\ LooksAtMembers(r, "add", w) /\ Of(u, w) = {}
          /\ Goto(r, Op("join", w, u, role, None))
      BY <1>2, <2>1 DEF AddMember
    <3> QED
      BY <2>1, <3>1, MemberLook, WorkspacesAssumption
  <2>2. CASE u \notin known
    <3>1. LooksAtMembers(r, "add", w) /\ Goto(r, Op("invite", w, u, role, None))
      BY <1>2, <2>2 DEF AddMember
    <3>2. Of(u, w) = {}
      BY <2>2 DEF Of, MembersInv, RowsStand
    <3> QED
      BY <3>1, <3>2, MemberLook, WorkspacesAssumption
  <2> QED
    BY <2>1, <2>2
<1>3. ASSUME NEW u \in Users, NEW w \in Given, NEW role \in AskedRoles,
             ChangeMemberRole(r, by, w, u, role)
      PROVE  MembersInv'
  BY <1>3, MemberLook, WorkspacesAssumption DEF ChangeMemberRole
<1>4. ASSUME NEW u \in Users, NEW w \in Given, RemoveMember(r, by, w, u) PROVE MembersInv'
  <2>1. /\ LooksAtMembers(r, "remove", w) /\ Goto(r, Op("remove", w, u, None, None))
        /\ \E m \in Of(u, w) : member[m].role # "OWNER"
    BY <1>4 DEF RemoveMember
  <2>2. None \in Roles \cup {None}
    OBVIOUS
  <2> QED
    BY <2>1, <2>2, MemberLook
<1>5. ASSUME NEW u \in Users, NEW w \in Given, TransferOwnership(r, by, w, u) PROVE MembersInv'
  <2>1. /\ LooksAtMembers(r, "transfer", w) /\ Goto(r, Op("findOwner", w, u, "OWNER", None))
        /\ Of(u, w) # {} /\ "OWNER" \in Roles
    BY <1>5 DEF TransferOwnership, Roles
  <2> QED
    BY <2>1, MemberLook
<1> QED
  BY <1>1, <1>2, <1>3, <1>4, <1>5

\* The statements about members.
LEMMA StatementOn ==
    ASSUME MembersInv, NEW r \in Requests, req[r].op \in MemberOps, req[r].space \notin excused,
           NEW q \in Requests \ {r}, req[q].op \in MemberOps
    PROVE  req[q].space # req[r].space
  BY DEF MembersInv, Alone

LEMMA InviteKeeps ==
    ASSUME MembersInv, NEW r \in Requests, Invite(r)
    PROVE  MembersInv'
<1>0. MemberIntent(r, req[r]) /\ req[r] \in PendingOp /\ req[r].op = "invite"
  BY DEF Invite, MembersInv, MemberIntents, MemberTypes
<1>1. CASE req[r].user \in known
  <2>1. Goto(r, Done) /\ UNCHANGED <<known, space, member, joinedBy, founded, excused>>
    BY <1>1 DEF Invite
  <2> QED
    BY <2>1, DoneMemberIntent, SpacesStay, MemberLookKeeps
    DEF Done, MemberOps, MembersInv, MemberTypes
<1>2. CASE req[r].user \notin known
  <2> DEFINE p == [req[r] EXCEPT !.op = "join"]
  <2>1. /\ known' = known \cup {req[r].user} /\ Goto(r, p)
        /\ UNCHANGED <<space, member, joinedBy, founded, excused>>
    BY <1>2 DEF Invite
  <2>2. /\ p \in PendingOp /\ p.op = "join"
        /\ p.space = req[r].space /\ p.user = req[r].user /\ p.role = req[r].role
    BY <1>0 DEF PendingOp, Ops
  <2> HIDE DEF p
  <2>3. req'[r] = p /\ \A q \in Requests \ {r} : req'[q] = req[q]
    BY <2>1 DEF MembersInv, MemberTypes, Goto
  <2>4. MemberTypes'
    BY <1>0, <2>1, <2>2 DEF MembersInv, MemberTypes, Goto, MemberIntent, MemberOps
  <2>5. RowsStand' /\ OneRow' /\ OneMembership' /\ OwnerStands'
    BY <2>1 DEF MembersInv, RowsStand, Given, OneRow, OneMembership, OwnerStands
  <2>6. Alone'
    BY <1>0, <2>1, <2>2, <2>3 DEF MembersInv, Alone, MemberOps
  <2>7. ASSUME NEW q \in Requests PROVE MemberIntent(q, req[q])'
    <3>1. CASE q = r
      BY <1>0, <2>1, <2>2, <2>3, <3>1 DEF MemberIntent, MemberOps, In, Given
    <3>2. CASE q # r
      <4>1. MemberIntent(q, req[q]) /\ req'[q] = req[q]
        BY <2>3, <3>2 DEF MembersInv, MemberIntents
      <4> QED
        BY <2>1, <4>1 DEF MemberIntent, In, Given
    <3> QED
      BY <3>1, <3>2
  <2> QED
    BY <2>4, <2>5, <2>6, <2>7 DEF MembersInv, MemberIntents
<1> QED
  BY <1>1, <1>2
LEMMA MakeSpaceKeeps ==
    ASSUME MembersInv, NEW r \in Requests, NEW w \in Spaces, MakeSpace(r, w)
    PROVE  MembersInv'
<1> DEFINE p == [req[r] EXCEPT !.op = "own", !.space = w]
<1>0. MemberIntent(r, req[r]) /\ req[r] \in PendingOp /\ req[r].op = "makeSpace" /\ w \notin Given
  BY DEF MakeSpace, MembersInv, MemberIntents, MemberTypes, Given
<1>1. /\ space' = [space EXCEPT ![w] = "open"] /\ Goto(r, p)
      /\ UNCHANGED <<known, member, joinedBy, founded, excused>>
  BY DEF MakeSpace, memberVars
<1>2. /\ p \in PendingOp /\ p.op = "own" /\ p.space = w
      /\ p.user = req[r].user /\ p.role = req[r].role
  BY <1>0 DEF PendingOp, Ops
<1> HIDE DEF p
<1>3. req'[r] = p /\ \A q \in Requests \ {r} : req'[q] = req[q]
  BY <1>1 DEF MembersInv, MemberTypes, Goto
<1>4. Given \subseteq Given' /\ w \in Given'
  BY <1>1 DEF MembersInv, MemberTypes, Given
<1>5. MemberTypes'
  BY <1>1, <1>2 DEF MembersInv, MemberTypes, Goto
<1>6. RowsStand' /\ OneRow' /\ OneMembership' /\ OwnerStands'
  BY <1>1, <1>4 DEF MembersInv, RowsStand, OneRow, OneMembership, OwnerStands
<1>7. \A q \in Requests : req[q].op \in MemberOps => req[q].space \in Given
  <2> SUFFICES ASSUME NEW q \in Requests, req[q].op \in MemberOps PROVE req[q].space \in Given
    OBVIOUS
  <2> QED
    BY WorkspacesAssumption DEF MembersInv, MemberIntents, MemberIntent
<1>8. Alone'
  BY <1>0, <1>1, <1>2, <1>3, <1>7 DEF MembersInv, Alone
<1>9. ASSUME NEW q \in Requests PROVE MemberIntent(q, req[q])'
  <2>1. CASE q = r
    <3>1. \A m \in Rows : ~In(m, w) /\ ~In(m, w)'
      BY <1>0, <1>1 DEF MembersInv, RowsStand, In
    <3> QED
      BY <1>0, <1>1, <1>2, <1>3, <1>4, <2>1, <3>1 DEF MemberIntent, MemberOps
  <2>2. CASE q # r
    <3>1. MemberIntent(q, req[q]) /\ req'[q] = req[q]
      BY <1>3, <2>2 DEF MembersInv, MemberIntents
    <3> QED
      BY <1>1, <1>4, <3>1 DEF MemberIntent, In
  <2> QED
    BY <2>1, <2>2
<1> QED
  BY <1>5, <1>6, <1>8, <1>9 DEF MembersInv, MemberIntents

\* What request r does to the members of its workspace concerns those only who
\* are excused.
LEMMA OthersIntents ==
    ASSUME MembersInv, NEW r \in Requests, NEW p, Goto(r, p), req[r].op \in MemberOps,
           UNCHANGED <<known, space, excused>>,
           \A m \in Rows : joinedBy'[m] = joinedBy[m] \/ joinedBy'[m] = r,
           \A m \in Rows :
               \/ member'[m] = member[m]
               \/ (member[m] # None => member[m].space = req[r].space) /\ member'[m] = None
               \/ /\ member[m] # None => member[m].space = req[r].space
                  /\ member'[m].space = req[r].space
                  /\ joinedBy'[m] = r \/ (In(m, req[r].space) /\ member'[m].user = member[m].user),
           NEW q \in Requests \ {r}
    PROVE  MemberIntent(q, req[q])'
<1> PICK S, o : S = req[r].space /\ o = req[q]
  OBVIOUS
<1>1. req'[q] = o /\ MemberIntent(q, o)
  BY DEF Goto, MembersInv, MemberTypes, MemberIntents
<1>2. \A m \in Rows : o.space # S => (In(m, o.space)' <=> In(m, o.space))
  BY DEF In
<1>3. \A m \in Rows : In(m, o.space)' /\ o.space # S => member'[m] = member[m]
  BY DEF In
<1>4. \A m \in Rows : In(m, o.space)' /\ joinedBy'[m] # r =>
                         In(m, o.space) /\ member'[m].user = member[m].user
  BY DEF In
<1>5. o.op \in MemberOps /\ o.space = S => o.space \in excused
  BY DEF MembersInv, Alone
<1> HIDE DEF MembersInv
<1>6. o.op \in {"own", "join", "invite"} =>
          \A m \in Rows : In(m, o.space)' /\ member'[m].user = o.user => joinedBy'[m] # q
  BY <1>1, <1>4 DEF MemberIntent
<1>7. MemberOps = {"own", "invite", "join", "setRole", "remove", "findOwner", "promote", "demote"}
  BY DEF MemberOps
<1>8. ASSUME o.space \notin excused, o.space # S
      PROVE  /\ o.op = "own" => \A m \in Rows : ~In(m, o.space)'
             /\ o.op \in {"join", "invite"} =>
                   \A m \in Rows : In(m, o.space)' => member'[m].user # o.user
             /\ o.op \in {"setRole", "remove"} =>
                   \A m \in Rows : In(m, o.space)' /\ member'[m].user = o.user
                                      => member'[m].role # "OWNER"
             /\ o.op \in {"findOwner", "promote"} =>
                   \E m \in Rows : In(m, o.space)' /\ member'[m].user = o.user
             /\ o.op = "promote" => o.user # o.owner
             /\ o.op = "demote" =>
                   \E m \in Rows : In(m, o.space)' /\ member'[m].role = "OWNER"
                                      /\ member'[m].user # o.user
  <2>1. \A m \in Rows : In(m, o.space)' <=> In(m, o.space)
    BY <1>2, <1>8
  <2>2. \A m \in Rows : In(m, o.space) => member'[m] = member[m]
    BY <2>1, <1>3, <1>8
  <2> QED
    BY <1>1, <1>8, <2>1, <2>2 DEF MemberIntent
<1>9. MemberIntent(q, req[q])'
  BY <1>1, <1>5, <1>6, <1>7, <1>8 DEF MemberIntent, Given
<1> QED
  BY <1>9
LEMMA CreateMembershipKeeps ==
    ASSUME MembersInv, NEW r \in Requests, NEW m \in Rows, CreateMembership(r, m)
    PROVE  MembersInv'
<1> PICK o : o = req[r]
  OBVIOUS
<1> DEFINE row == [user |-> o.user, space |-> o.space, role |-> o.role]
<1>0. /\ MemberIntent(r, o) /\ o \in PendingOp /\ o.op \in {"own", "join"}
      /\ o.op \in MemberOps
  BY DEF CreateMembership, MembersInv, MemberIntents, MemberTypes, MemberOps
<1>1. /\ member[m] = None /\ member' = [member EXCEPT ![m] = row]
      /\ joinedBy' = [joinedBy EXCEPT ![m] = r]
      /\ founded' = IF o.op = "own" THEN founded \cup {o.space} ELSE founded
      /\ Goto(r, Done) /\ UNCHANGED <<known, space, excused>>
  BY DEF CreateMembership
<1>2. /\ o.user \in known /\ o.user \in Users /\ o.space \in Spaces /\ o.space \in Given
      /\ o.role \in Roles /\ (o.op = "own" => o.role = "OWNER")
  BY <1>0, WorkspacesAssumption DEF MemberIntent, MemberOps, Roles
<1>3. row.user = o.user /\ row.space = o.space /\ row.role = o.role /\ row \in Membership
  BY <1>2 DEF Membership
<1>4. row # None
  BY <1>3, WorkspacesAssumption
<1> HIDE DEF row
<1>5. /\ member'[m] = row /\ joinedBy'[m] = r
      /\ \A n \in Rows \ {m} : member'[n] = member[n] /\ joinedBy'[n] = joinedBy[n]
  BY <1>1 DEF MembersInv, MemberTypes
<1>6. MemberTypes'
  BY <1>1, <1>2, <1>3, DoneMemberIntent DEF MembersInv, MemberTypes, Goto
<1>7. RowsStand'
  BY <1>1, <1>2, <1>3, <1>5 DEF MembersInv, RowsStand, Given
<1>8. \A n \in Rows : In(n, o.space) /\ member[n].user = o.user =>
                         joinedBy[n] # r /\ o.space \in excused
  BY <1>0 DEF MemberIntent
<1>9. OneRow'
  <2> SUFFICES ASSUME NEW k \in Rows, NEW n \in Rows, k # n,
                      member'[k] # None, member'[n] # None,
                      member'[k].user = member'[n].user, member'[k].space = member'[n].space
               PROVE  member'[k].space \in excused
    BY <1>1 DEF OneRow
  <2>1. CASE k = m
    BY <2>1, <1>3, <1>5, <1>8 DEF In
  <2>2. CASE n = m
    BY <2>2, <1>3, <1>5, <1>8 DEF In
  <2>3. CASE k # m /\ n # m
    BY <2>3, <1>5 DEF MembersInv, OneRow
  <2> QED
    BY <2>1, <2>2, <2>3
<1>10. OneMembership'
  <2> SUFFICES ASSUME NEW k \in Rows, NEW n \in Rows, k # n,
                      member'[k] # None, member'[n] # None,
                      member'[k].user = member'[n].user, member'[k].space = member'[n].space
               PROVE  joinedBy'[k] # joinedBy'[n]
    BY DEF OneMembership
  <2>1. CASE k = m
    BY <2>1, <1>3, <1>5, <1>8 DEF In
  <2>2. CASE n = m
    BY <2>2, <1>3, <1>5, <1>8 DEF In
  <2>3. CASE k # m /\ n # m
    BY <2>3, <1>5 DEF MembersInv, OneMembership
  <2> QED
    BY <2>1, <2>2, <2>3
<1>11. OwnerStands'
  <2> SUFFICES ASSUME NEW w \in founded' \ excused
               PROVE  \E n \in Rows : member'[n] # None /\ member'[n].space = w
                                         /\ member'[n].role = "OWNER"
    BY <1>1 DEF OwnerStands
  <2>1. CASE w \in founded
    <3>1. PICK n \in Rows : member[n] # None /\ member[n].space = w /\ member[n].role = "OWNER"
      BY <2>1 DEF MembersInv, OwnerStands
    <3> QED
      BY <1>1, <1>5, <3>1
  <2>2. CASE w \notin founded
    BY <1>1, <1>2, <1>3, <1>4, <1>5, <2>2
  <2> QED
    BY <2>1, <2>2
<1>12. req'[r] = Done /\ \A q \in Requests \ {r} : req'[q] = req[q]
  BY <1>1 DEF MembersInv, MemberTypes, Goto
<1>13. Alone'
  BY <1>1, <1>12 DEF MembersInv, Alone, Done, MemberOps
<1>14. ASSUME NEW q \in Requests PROVE MemberIntent(q, req[q])'
  <2>1. CASE q = r
    BY <1>12, <2>1 DEF MemberIntent, Done, MemberOps
  <2>2. CASE q # r
    BY <1>0, <1>1, <1>3, <1>5, <2>2, OthersIntents
  <2> QED
    BY <2>1, <2>2
<1> QED
  BY <1>6, <1>7, <1>9, <1>10, <1>11, <1>13, <1>14 DEF MembersInv, MemberIntents

LEMMA GetWorkspaceOwnerKeeps ==
    ASSUME MembersInv, NEW r \in Requests, GetWorkspaceOwner(r)
    PROVE  MembersInv'
<1> PICK o : o = req[r]
  OBVIOUS
<1>0. /\ MemberIntent(r, o) /\ o \in PendingOp /\ o.op = "findOwner" /\ o.op \in MemberOps
      /\ UNCHANGED <<known, space, member, joinedBy, founded>>
  BY DEF GetWorkspaceOwner, MembersInv, MemberIntents, MemberTypes, MemberOps
<1>1. ASSUME NEW m \in Rows, member[m] # None, member[m].space = o.space,
             Goto(r, [o EXCEPT !.op = "promote", !.owner = member[m].user]),
             excused' = IF member[m].user = o.user THEN excused \cup {o.space} ELSE excused
      PROVE  MembersInv'
  <2> PICK u : u = member[m].user
    OBVIOUS
  <2> DEFINE p == [o EXCEPT !.op = "promote", !.owner = u]
  <2>1. u \in Users /\ o.space \in Spaces
    BY <1>1 DEF MembersInv, MemberTypes, Membership
  <2>2. /\ p \in PendingOp /\ p.op = "promote" /\ p.owner = u
        /\ p.space = o.space /\ p.user = o.user /\ p.role = o.role
    BY <1>0, <2>1 DEF PendingOp, Ops
  <2> HIDE DEF p
  <2>3. Goto(r, p) /\ excused \subseteq excused' /\ excused' \subseteq Spaces
    BY <1>1, <2>1 DEF p, MembersInv, MemberTypes
  <2>4. \A q \in Requests \ {r} :
            req[q].op \in MemberOps /\ req[q].space = p.space => p.space \in excused'
    BY <1>0, <2>2, <2>3 DEF MembersInv, Alone
  <2>5. CASE u # o.user
    <3>1. MemberIntent(r, p)
      BY <1>0, <2>1, <2>2, <2>5 DEF MemberIntent, MemberOps
    <3> QED
      BY <1>0, <2>2, <2>3, <2>4, <3>1, SpacesStay, MemberLookKeeps
  <2>6. CASE u = o.user
    <3>1. o.space \in excused'
      BY <1>1, <2>6
    <3>2. req'[r] = p /\ \A q \in Requests \ {r} : req'[q] = req[q]
      BY <2>3 DEF MembersInv, MemberTypes, Goto
    <3>3. MemberTypes'
      BY <1>0, <2>2, <2>3 DEF MembersInv, MemberTypes, Goto
    <3>4. RowsStand' /\ OneRow' /\ OneMembership' /\ OwnerStands'
      BY <1>0, <2>3 DEF MembersInv, RowsStand, Given, OneRow, OneMembership, OwnerStands
    <3>5. Alone'
      BY <1>0, <2>2, <2>3, <2>4, <3>2 DEF MembersInv, Alone
    <3>6. ASSUME NEW q \in Requests PROVE MemberIntent(q, req[q])'
      <4>1. CASE q = r
        BY <1>0, <2>1, <2>2, <3>1, <3>2, <4>1 DEF MemberIntent, MemberOps, Given
      <4>2. CASE q # r
        <5>1. MemberIntent(q, req[q]) /\ req'[q] = req[q]
          BY <3>2, <4>2 DEF MembersInv, MemberIntents
        <5> QED
          BY <1>0, <2>3, <5>1 DEF MemberIntent, In, Given
      <4> QED
        BY <4>1, <4>2
    <3> QED
      BY <3>3, <3>4, <3>5, <3>6 DEF MembersInv, MemberIntents
  <2> QED
    BY <2>5, <2>6
<1>2. ASSUME Goto(r, Done), UNCHANGED excused PROVE MembersInv'
  BY <1>0, <1>2, DoneMemberIntent, SpacesStay, MemberLookKeeps
  DEF Done, MemberOps, MembersInv, MemberTypes
<1> QED
  BY <1>1, <1>2 DEF GetWorkspaceOwner
\* Rows that go, or change their roles only.
LEMMA RowsThin ==
    ASSUME MembersInv, UNCHANGED <<known, space, joinedBy, excused>>,
           \A m \in Rows : member'[m] # None =>
               /\ member[m] # None
               /\ member'[m].user = member[m].user /\ member'[m].space = member[m].space
    PROVE  RowsStand' /\ OneRow' /\ OneMembership'
<1>1. RowsStand'
  BY DEF MembersInv, RowsStand, Given
<1>2. OneRow'
  BY DEF MembersInv, OneRow
<1>3. OneMembership'
  BY DEF MembersInv, OneMembership
<1> QED
  BY <1>1, <1>2, <1>3

LEMMA UpdateMemberRoleKeeps ==
    ASSUME MembersInv, NEW r \in Requests, UpdateMemberRole(r)
    PROVE  MembersInv'
<1> PICK o : o = req[r]
  OBVIOUS
<1> DEFINE p == IF o.op = "promote"
                THEN [o EXCEPT !.op = "demote", !.user = o.owner, !.role = "ADMIN"] ELSE Done
<1>0. /\ MemberIntent(r, o) /\ o \in PendingOp /\ o.op \in {"setRole", "promote", "demote"}
      /\ o.op \in MemberOps
  BY DEF UpdateMemberRole, MembersInv, MemberIntents, MemberTypes, MemberOps
<1>1. /\ member' = WithRole(o.user, o.space, o.role) /\ Goto(r, p)
      /\ UNCHANGED <<known, space, joinedBy, founded, excused>>
  BY DEF UpdateMemberRole
<1>2. /\ o.user \in Users /\ o.space \in Spaces /\ o.space \in Given /\ o.role \in Roles
      /\ (o.op = "promote" => o.role = "OWNER" /\ o.owner \in Users)
  BY <1>0, WorkspacesAssumption DEF MemberIntent, MemberOps, Roles
<1>3. p = Done \/ /\ o.op = "promote" /\ p \in PendingOp /\ p.op = "demote" /\ p.user = o.owner
                  /\ p.role = "ADMIN" /\ p.space = o.space
  BY <1>0, <1>2 DEF PendingOp, Ops, Roles
<1>4. p \in PendingOp /\ (o.op # "promote" => p = Done)
  BY <1>3, DoneMemberIntent
<1> HIDE DEF p
<1>5. ASSUME NEW m \in Rows
      PROVE  /\ ~(In(m, o.space) /\ member[m].user = o.user) => member'[m] = member[m]
             /\ In(m, o.space) /\ member[m].user = o.user =>
                    /\ member'[m] \in Membership /\ member'[m] # None
                    /\ member'[m].user = o.user /\ member'[m].space = o.space
                    /\ member'[m].role = o.role
  <2>1. member'[m] = IF m \in Of(o.user, o.space) THEN [member[m] EXCEPT !.role = o.role]
                     ELSE member[m]
    BY <1>1 DEF WithRole
  <2>2. m \in Of(o.user, o.space) <=> In(m, o.space) /\ member[m].user = o.user
    BY DEF Of, In
  <2>3. CASE In(m, o.space) /\ member[m].user = o.user
    <3>1. member[m] \in Membership
      BY <2>3 DEF In, MembersInv, MemberTypes
    <3>2. member'[m] = [member[m] EXCEPT !.role = o.role]
      BY <2>1, <2>2, <2>3
    <3>3. /\ member'[m] \in Membership
          /\ member'[m].user = o.user /\ member'[m].space = o.space /\ member'[m].role = o.role
      BY <1>2, <2>3, <3>1, <3>2 DEF Membership, In
    <3> QED
      BY <2>3, <3>3, WorkspacesAssumption
  <2> QED
    BY <2>1, <2>2, <2>3
<1>6. member' \in [Rows -> Membership \cup {None}]
  <2>1. DOMAIN member' = Rows /\ member' = [m \in Rows |-> member'[m]]
    BY <1>1 DEF WithRole
  <2>2. \A m \in Rows : member'[m] \in Membership \cup {None}
    BY <1>5 DEF MembersInv, MemberTypes
  <2> QED
    BY <2>1, <2>2
<1>7. MemberTypes'
  BY <1>1, <1>4, <1>6 DEF MembersInv, MemberTypes, Goto
<1>8. RowsStand' /\ OneRow' /\ OneMembership'
  BY <1>1, <1>5, RowsThin DEF In
<1>9. OwnerStands'
  <2> SUFFICES ASSUME NEW w \in founded \ excused
               PROVE  \E m \in Rows : member'[m] # None /\ member'[m].space = w
                                         /\ member'[m].role = "OWNER"
    BY <1>1 DEF OwnerStands
  <2>1. PICK m \in Rows : member[m] # None /\ member[m].space = w /\ member[m].role = "OWNER"
    BY DEF MembersInv, OwnerStands
  <2>2. CASE w # o.space \/ o.op = "promote"
    <3>1. CASE In(m, o.space) /\ member[m].user = o.user
      BY <1>2, <1>5, <2>1, <2>2, <3>1 DEF In
    <3>2. CASE ~(In(m, o.space) /\ member[m].user = o.user)
      BY <1>5, <2>1, <3>2
    <3> QED
      BY <3>1, <3>2
  <2>3. CASE w = o.space /\ o.op = "setRole"
    BY <1>0, <1>5, <2>1, <2>3 DEF MemberIntent, In
  <2>4. CASE w = o.space /\ o.op = "demote"
    <3>1. PICK n \in Rows : In(n, w) /\ member[n].role = "OWNER" /\ member[n].user # o.user
      BY <1>0, <2>4 DEF MemberIntent
    <3> QED
      BY <1>5, <3>1 DEF In
  <2> QED
    BY <1>0, <2>2, <2>3, <2>4
<1>10. req'[r] = p /\ \A q \in Requests \ {r} : req'[q] = req[q]
  BY <1>1 DEF MembersInv, MemberTypes, Goto
<1>11. Alone'
  BY <1>0, <1>1, <1>3, <1>10 DEF MembersInv, Alone, Done, MemberOps
<1>12. MemberIntent(r, req[r])'
  <2>1. CASE p = Done
    BY <1>10, <2>1 DEF MemberIntent, Done, MemberOps
  <2>2. CASE p # Done
    <3>1. /\ o.op = "promote" /\ p.op = "demote" /\ p.user = o.owner
          /\ p.role = "ADMIN" /\ p.space = o.space
      BY <1>3, <2>2
    <3>2. o.space \notin excused =>
             \E m \in Rows : In(m, o.space)' /\ member'[m].role = "OWNER"
                                /\ member'[m].user # o.owner
      <4> SUFFICES ASSUME o.space \notin excused
                   PROVE  \E m \in Rows : In(m, o.space)' /\ member'[m].role = "OWNER"
                                            /\ member'[m].user # o.owner
        OBVIOUS
      <4>1. PICK m \in Rows : In(m, o.space) /\ member[m].user = o.user
        BY <1>0, <3>1 DEF MemberIntent
      <4>2. o.user # o.owner
        BY <1>0, <3>1 DEF MemberIntent
      <4> QED
        BY <1>2, <1>5, <3>1, <4>1, <4>2 DEF In
    <3> QED
      BY <1>1, <1>2, <1>10, <3>1, <3>2 DEF MemberIntent, MemberOps, Given, Roles
  <2> QED
    BY <2>1, <2>2
<1>13. ASSUME NEW q \in Requests \ {r} PROVE MemberIntent(q, req[q])'
  BY <1>0, <1>1, <1>5, OthersIntents DEF In
<1> QED
  BY <1>7, <1>8, <1>9, <1>11, <1>12, <1>13 DEF MembersInv, MemberIntents

LEMMA RemoveKeeps ==
    ASSUME MembersInv, NEW r \in Requests, Remove(r)
    PROVE  MembersInv'
<1> PICK o : o = req[r]
  OBVIOUS
<1>0. /\ MemberIntent(r, o) /\ o \in PendingOp /\ o.op = "remove" /\ o.op \in MemberOps
  BY DEF Remove, MembersInv, MemberIntents, MemberTypes, MemberOps
<1>1. /\ member' = [m \in Rows |-> IF m \in Of(o.user, o.space) THEN None ELSE member[m]]
      /\ Goto(r, Done) /\ UNCHANGED <<known, space, joinedBy, founded, excused>>
  BY DEF Remove
<1>2. \A m \in Rows : IF In(m, o.space) /\ member[m].user = o.user
                      THEN member'[m] = None ELSE member'[m] = member[m]
  BY <1>1 DEF Of, In
<1>3. MemberTypes'
  BY <1>1, <1>2, DoneMemberIntent DEF MembersInv, MemberTypes, Goto
<1>4. RowsStand' /\ OneRow' /\ OneMembership'
  BY <1>1, <1>2, RowsThin
<1>5. OwnerStands'
  <2> SUFFICES ASSUME NEW w \in founded \ excused
               PROVE  \E m \in Rows : member'[m] # None /\ member'[m].space = w
                                         /\ member'[m].role = "OWNER"
    BY <1>1 DEF OwnerStands
  <2>1. PICK m \in Rows : member[m] # None /\ member[m].space = w /\ member[m].role = "OWNER"
    BY DEF MembersInv, OwnerStands
  <2>2. ~(In(m, o.space) /\ member[m].user = o.user)
    BY <1>0, <2>1 DEF MemberIntent, In
  <2> QED
    BY <1>2, <2>1, <2>2
<1>6. req'[r] = Done /\ \A q \in Requests \ {r} : req'[q] = req[q]
  BY <1>1 DEF MembersInv, MemberTypes, Goto
<1>7. Alone'
  BY <1>1, <1>6 DEF MembersInv, Alone, Done, MemberOps
<1>8. ASSUME NEW q \in Requests PROVE MemberIntent(q, req[q])'
  <2>1. CASE q = r
    BY <1>6, <2>1 DEF MemberIntent, Done, MemberOps
  <2>2. CASE q # r
    BY <1>0, <1>1, <1>2, <2>2, OthersIntents DEF In
  <2> QED
    BY <2>1, <2>2
<1> QED
  BY <1>3, <1>4, <1>5, <1>7, <1>8 DEF MembersInv, MemberIntents

\* Everything that is no business of the members: looks at items and workspaces,
\* statements about them, and failures.
LEMMA OtherwiseKeeps ==
    ASSUME MembersInv, NEW r \in Requests,
           \/ \E by \in Users, w \in Given : UpdateWorkspace(r, by, w) \/ DeleteWorkspace(r, by, w)
           \/ SaveStorageHandler(r) \/ SaveNotifierHandler(r)
           \/ StorageHandlers(r) \/ NotifierHandlers(r)
           \/ WriteItems(r) \/ Fails(r),
           item \in [Items -> Item \cup {None}]
    PROVE  MembersInv'
<1>1. req \in [Requests -> PendingOp] /\ space \in [Spaces -> {"unused", "open", "deleted"}]
  BY DEF MembersInv, MemberTypes
<1>2. ASSUME UNCHANGED memberVars, UNCHANGED space, NEW p \in PendingOp, Goto(r, p),
             p.op \notin MemberOps \cup {"makeSpace"}
      PROVE  MembersInv'
  BY <1>2, SpacesStay, ItemOpKeeps
<1>3. ASSUME NEW w \in Spaces, UNCHANGED memberVars, UNCHANGED space,
             NEW op \in Ops \ (MemberOps \cup {"makeSpace"}),
             Goto(r, Op(op, w, None, None, None))
      PROVE  MembersInv'
  <2> DEFINE p == Op(op, w, None, None, None)
  <2>1. p \in PendingOp /\ p.op = op
    BY <1>3 DEF PendingOp, Op
  <2> HIDE DEF p
  <2> QED
    BY <1>2, <1>3, <2>1 DEF p
<1>4. ASSUME UNCHANGED memberVars, UNCHANGED space, Goto(r, Done)
      PROVE  MembersInv'
  BY <1>2, <1>4, DoneMemberIntent DEF Done, MemberOps
<1>5. ASSUME UNCHANGED memberVars, UNCHANGED space,
             NEW op \in Ops \ (MemberOps \cup {"makeSpace"}), Goto(r, [req[r] EXCEPT !.op = op])
      PROVE  MembersInv'
  <2> DEFINE p == [req[r] EXCEPT !.op = op]
  <2>1. p \in PendingOp /\ p.op = op
    BY <1>1 DEF PendingOp
  <2> HIDE DEF p
  <2> QED
    BY <1>2, <1>5, <2>1 DEF p
<1>6. \A i \in Items : item[i] # None => item[i].space \in Spaces
  BY DEF Item
<1>7. {"save", "deleteItem", "rename", "listNotifiers", "clearNotifiers", "clearStorages"}
         \subseteq Ops \ (MemberOps \cup {"makeSpace"})
  BY DEF Ops, MemberOps
<1>8. Given \subseteq Spaces
  BY DEF Given
<1>9. ASSUME NEW endpoint, Looks(r, endpoint), UNCHANGED excused
      PROVE  UNCHANGED memberVars /\ UNCHANGED space
  BY <1>9 DEF Looks, memberVars
<1>10. ASSUME NEW by \in Users, NEW w \in Given,
              UpdateWorkspace(r, by, w) \/ DeleteWorkspace(r, by, w)
       PROVE  MembersInv'
  BY <1>3, <1>7, <1>8, <1>9, <1>10 DEF UpdateWorkspace, DeleteWorkspace
<1>11. ASSUME NEW by \in Users, NEW i \in Items, NEW w \in Given, NEW t \in Types,
              SaveStorage(r, by, w, i, t) \/ SaveNotifier(r, by, w, i, t)
       PROVE  MembersInv'
  BY <1>3, <1>7, <1>8, <1>9, <1>11
  DEF SaveStorage, SaveNotifier, LooksAtItems, Create, Update, Saves
<1>12. ASSUME NEW by \in Users, NEW i \in Items,
              ToDelete(r, by, i) \/ ToTest(r, by, i) \/ \E w \in Given : ToMove(r, by, i, w)
       PROVE  MembersInv'
  <2>1. item[i].space \in Spaces /\ UNCHANGED memberVars /\ UNCHANGED space
    BY <1>6, <1>9, <1>12 DEF ToDelete, ToTest, ToMove, LooksAtItems
  <2>2. CASE ToDelete(r, by, i)
    BY <1>3, <1>7, <2>1, <2>2 DEF ToDelete
  <2>3. CASE ToTest(r, by, i)
    BY <1>3, <1>7, <2>1, <2>3 DEF ToTest, Saves
  <2>4. CASE \E w \in Given : ToMove(r, by, i, w)
    BY <1>3, <1>7, <1>8, <2>1, <2>4 DEF ToMove, Saves
  <2> QED
    BY <1>12, <2>2, <2>3, <2>4
<1>13. ASSUME Rename(r) \/ DropSpace(r) PROVE MembersInv'
  <2>1. /\ UNCHANGED memberVars /\ Goto(r, Done)
        /\ \E v \in {"open", "deleted"} : space' = [space EXCEPT ![req[r].space] = v]
    BY <1>13 DEF Rename, DropSpace
  <2>2. space' \in [Spaces -> {"unused", "open", "deleted"}] /\ Given \subseteq Given'
    BY <1>1, <2>1 DEF Given
  <2> QED
    BY <2>1, <2>2, DoneMemberIntent, ItemOpKeeps DEF Done, MemberOps
<1>14. CASE ListNotifiers(r)
  BY <1>5, <1>7, <1>14 DEF ListNotifiers
<1>15. CASE ListStorages(r)
  BY <1>5, <1>7, <1>15 DEF ListStorages
<1>16. ASSUME NEW i \in Items, ClearListed(r, i) PROVE MembersInv'
  <2>1. UNCHANGED memberVars /\ UNCHANGED space
    BY <1>16 DEF ClearListed
  <2>2. CASE UNCHANGED req
    <3>1. UNCHANGED <<known, space, member, req, joinedBy, founded, excused>>
      BY <2>1, <2>2 DEF memberVars
    <3>2. MemberTypes' /\ RowsStand' /\ Alone'
      BY <3>1 DEF MembersInv, MemberTypes, RowsStand, Given, Alone
    <3>3. OneRow' /\ OneMembership' /\ OwnerStands'
      BY <3>1 DEF MembersInv, OneRow, OneMembership, OwnerStands
    <3>4. MemberIntents'
      BY <3>1 DEF MembersInv, MemberIntents, MemberIntent, Given, In
    <3> QED
      BY <3>2, <3>3, <3>4 DEF MembersInv
  <2> QED
    BY <1>4, <1>16, <2>1, <2>2 DEF ClearListed
<1>17. ASSUME NEW i \in Items,
              DeleteItem(r, i) \/ SaveStorageRow(r, i) \/ SaveNotifierRow(r, i)
       PROVE  MembersInv'
  BY <1>4, <1>17 DEF DeleteItem, SaveStorageRow, SaveNotifierRow, Saved
<1>18. CASE Fails(r)
  BY <1>4, <1>18 DEF Fails
<1>19. Storages \subseteq Items /\ Notifiers \subseteq Items
  BY DEF Items
<1>20. CASE SaveStorageHandler(r) \/ SaveNotifierHandler(r)
  BY <1>11, <1>19, <1>20 DEF SaveStorageHandler, SaveNotifierHandler
<1>21. CASE StorageHandlers(r) \/ NotifierHandlers(r)
  BY <1>12, <1>21
  DEF StorageHandlers, DeleteStorage, TestStorageConnection, TransferStorageToWorkspace,
      NotifierHandlers, DeleteNotifier, SendTestNotification, TransferNotifierToWorkspace, Items
<1>22. CASE WriteItems(r)
  BY <1>13, <1>14, <1>15, <1>16, <1>17, <1>19, <1>22 DEF WriteItems
<1> QED
  BY <1>10, <1>18, <1>20, <1>21, <1>22
----------------------------------------------------------------------------
(* Items.                                                                  *)

ItemOps == {"save", "deleteItem", "clearNotifiers", "clearStorages"}

ItemTypes ==
    /\ space \in [Spaces -> {"unused", "open", "deleted"}]
    /\ req \in [Requests -> PendingOp]
    /\ item \in [Items -> Item \cup {None}]
    /\ used \subseteq Items
    /\ held \in [Requests -> [Items -> Item \cup {None}]]
    /\ load \in Loads
    /\ saved \in [Requests -> SUBSET Items]
    /\ mixed \subseteq Items /\ blessed \subseteq Items /\ deleted \subseteq Items
    /\ gone \in [Items \cup Spaces -> SUBSET Requests]

\* Requests hold rows only for the statements that are about them.
Holding == \A r \in Requests : req[r].op \notin ItemOps => held[r] = Nothing

\* There is nothing of an identifier that was not handed out.
Unused ==
    /\ \A i \in Items \ used : item[i] = None /\ \A r \in Requests : held[r][i] = None
    /\ deleted \subseteq used

\* All rows of an item, the stored one and those requests hold, are of one type.
OfType(row, t) == row # None => row.type = t /\ row.parts = {t}

Uniform ==
    \A i \in Items \ mixed :
        \E t \in Types : OfType(item[i], t) /\ \A r \in Requests : OfType(held[r][i], t)

Blessed ==
    \A i \in Storages \ blessed :
        /\ item[i] # None => item[i].type # Rclone
        /\ \A r \in Requests : held[r][i] # None => held[r][i].type # Rclone

\* Who has still to save a deleted item, or to rename a deleted workspace, was in
\* progress when it was deleted.
LateSave ==
    \A i \in deleted, r \in Requests :
        item[i] = None /\ req[r].op = "save" /\ held[r][i] # None => r \in gone[i]

LateRename ==
    \A w \in Spaces, r \in Requests :
        space[w] = "deleted" /\ req[r].op = "rename" /\ req[r].space = w => r \in gone[w]

\* Everything that a deletion must find is on its list, or was saved after it.
FoundOrSaved(r, i) ==
    item[i] # None /\ item[i].space = req[r].space => i \in saved[r] \/ held[r][i] # None

Listing ==
    \A r \in Requests :
        /\ req[r].op = "clearNotifiers" => \A i \in Notifiers : FoundOrSaved(r, i)
        /\ req[r].op = "clearStorages" => \A i \in Items : FoundOrSaved(r, i)

ItemsInv ==
    /\ ItemTypes /\ Holding /\ Unused /\ Uniform /\ Blessed
    /\ LateSave /\ LateRename /\ Listing

\* A step after which the request holds nothing, and which leaves the items alone.
LEMMA HoldsNothingKeeps ==
    ASSUME ItemsInv, NEW r \in Requests, NEW p \in PendingOp, Goto(r, p), p.op \notin ItemOps,
           held' = [held EXCEPT ![r] = Nothing], UNCHANGED itemVars, UNCHANGED load,
           space' \in [Spaces -> {"unused", "open", "deleted"}],
           saved' \in [Requests -> SUBSET Items],
           \A q \in Requests \ {r} : saved'[q] = saved[q],
           gone' \in [Items \cup Spaces -> SUBSET Requests],
           \A x \in Items \cup Spaces, q \in Requests \ {r} :
               q \in gone[x] /\ req[q] # Done => q \in gone'[x],
           \A w \in Spaces : space'[w] = "deleted" =>
               /\ p.op # "rename" \/ p.space # w
               /\ space[w] = "deleted" \/ \A q \in Requests \ {r} : req[q] # Done => q \in gone'[w]
    PROVE  ItemsInv'
<1>1. UNCHANGED <<item, used, mixed, blessed, deleted>>
  BY DEF itemVars
<1>2. req'[r] = p /\ \A q \in Requests \ {r} : req'[q] = req[q]
  BY DEF ItemsInv, ItemTypes, Goto
<1>3. /\ held'[r] = Nothing /\ \A q \in Requests \ {r} : held'[q] = held[q]
      /\ \A i \in Items : held'[r][i] = None
  BY DEF ItemsInv, ItemTypes, Nothing
<1>4. ItemTypes'
  BY <1>1 DEF ItemsInv, ItemTypes, Goto, Nothing
<1>5. Holding'
  BY <1>2, <1>3 DEF ItemsInv, Holding, Nothing
<1>6. Unused'
  BY <1>1, <1>3 DEF ItemsInv, Unused
<1>7. Uniform'
  <2> SUFFICES ASSUME NEW i \in Items \ mixed
               PROVE  \E t \in Types : OfType(item'[i], t)
                                          /\ \A q \in Requests : OfType(held'[q][i], t)
    BY <1>1 DEF Uniform, OfType
  <2>1. PICK t \in Types : OfType(item[i], t) /\ \A q \in Requests : OfType(held[q][i], t)
    BY DEF ItemsInv, Uniform
  <2> QED
    BY <1>1, <1>3, <2>1 DEF OfType
<1>8. Blessed'
  BY <1>1, <1>3 DEF ItemsInv, Blessed, Items
<1>9. LateSave'
  BY <1>1, <1>2, <1>3 DEF ItemsInv, ItemTypes, LateSave, ItemOps, Done
<1>10. LateRename'
  BY <1>2 DEF ItemsInv, LateRename, Done
<1>11. Listing'
  BY <1>1, <1>2, <1>3 DEF ItemsInv, Listing, FoundOrSaved, ItemOps
<1> QED
  BY <1>4, <1>5, <1>6, <1>7, <1>8, <1>9, <1>10, <1>11 DEF ItemsInv

\* A look at item i, of which the request then holds a row.
LEMMA HoldsKeeps ==
    ASSUME ItemsInv, NEW r \in Requests, NEW p \in PendingOp, Goto(r, p),
           p.op \in {"save", "deleteItem"}, NEW endpoint, Looks(r, endpoint),
           NEW i \in Items, NEW row \in Item, Hold(r, i, row),
           mixed \subseteq mixed', mixed' \subseteq Items,
           blessed \subseteq blessed', blessed' \subseteq Items,
           \/ /\ item[i] # None /\ used' = used
              /\ i \notin mixed' => row.type = item[i].type /\ row.parts = item[i].parts
           \/ /\ i \notin used /\ used' = used \cup {i}
              /\ i \notin mixed' => row.parts = {row.type},
           i \in Storages /\ row.type = Rclone => i \in blessed'
    PROVE  ItemsInv'
<1>1. /\ saved' = [saved EXCEPT ![r] = {}]
      /\ gone' = [x \in Items \cup Spaces |-> gone[x] \ {r}]
      /\ UNCHANGED <<space, item, load, deleted>> /\ req[r] = Done
  BY DEF Looks
<1>2. req'[r] = p /\ \A q \in Requests \ {r} : req'[q] = req[q]
  BY DEF ItemsInv, ItemTypes, Goto
<1>3. /\ \A q \in Requests \ {r} : held'[q] = held[q]
      /\ held'[r][i] = row /\ \A j \in Items \ {i} : held'[r][j] = None
      /\ held' \in [Requests -> [Items -> Item \cup {None}]]
  <2>1. held' = [held EXCEPT ![r] = [Nothing EXCEPT ![i] = row]]
    BY DEF Hold
  <2>2. Nothing \in [Items -> Item \cup {None}] /\ \A j \in Items : Nothing[j] = None
    BY DEF Nothing
  <2>3. [Nothing EXCEPT ![i] = row] \in [Items -> Item \cup {None}]
    BY <2>2
  <2>4. held'[r] = [Nothing EXCEPT ![i] = row]
    BY <2>1 DEF ItemsInv, ItemTypes
  <2> QED
    BY <2>1, <2>2, <2>3, <2>4 DEF ItemsInv, ItemTypes
<1>4. row # None
  BY WorkspacesAssumption
<1>5. used \subseteq used' /\ used' \subseteq Items
  BY DEF ItemsInv, ItemTypes
<1>6. i \in used'
  BY DEF ItemsInv, Unused
<1>7. ItemTypes'
  BY <1>1, <1>3, <1>5 DEF ItemsInv, ItemTypes, Goto
<1>8. Holding'
  BY <1>2, <1>3 DEF ItemsInv, Holding, Nothing, ItemOps
<1>9. Unused'
  BY <1>1, <1>3, <1>6 DEF ItemsInv, Unused
<1>10. Uniform'
  <2> SUFFICES ASSUME NEW j \in Items \ mixed'
               PROVE  \E t \in Types : OfType(item[j], t)
                                          /\ \A q \in Requests : OfType(held'[q][j], t)
    BY <1>1 DEF Uniform, OfType
  <2>1. PICK t \in Types : OfType(item[j], t) /\ \A q \in Requests : OfType(held[q][j], t)
    BY DEF ItemsInv, Uniform
  <2>2. CASE j # i
    BY <1>3, <2>1, <2>2 DEF OfType
  <2>3. CASE j = i /\ item[i] # None
    <3>1. OfType(row, t)
      BY <2>1, <2>3, <1>4 DEF OfType, ItemsInv, Unused
    <3> QED
      BY <1>3, <2>1, <2>3, <3>1
  <2>4. CASE j = i /\ item[i] = None
    <3>1. row.type \in Types /\ OfType(row, row.type) /\ i \notin used
      BY <2>4 DEF OfType, Item
    <3>2. \A q \in Requests : held[q][i] = None
      BY <3>1 DEF ItemsInv, Unused
    <3> QED
      BY <1>3, <2>4, <3>1, <3>2 DEF OfType
  <2> QED
    BY <2>2, <2>3, <2>4
<1>11. Blessed'
  BY <1>1, <1>3 DEF ItemsInv, Blessed, Items
<1>12. LateSave'
  <2> SUFFICES ASSUME NEW j \in deleted, NEW q \in Requests, item[j] = None,
                      req'[q].op = "save", held'[q][j] # None
               PROVE  q \in gone'[j]
    BY <1>1 DEF LateSave
  <2>1. j \in Items /\ j \in used
    BY DEF ItemsInv, ItemTypes, Unused
  <2>2. q # r
    BY <1>3, <2>1
  <2> QED
    BY <1>1, <1>2, <1>3, <2>1, <2>2 DEF ItemsInv, LateSave
<1>13. LateRename'
  BY <1>1, <1>2 DEF ItemsInv, ItemTypes, LateRename
<1>14. Listing'
  BY <1>1, <1>2, <1>3 DEF ItemsInv, ItemTypes, Listing, FoundOrSaved
<1> QED
  BY <1>7, <1>8, <1>9, <1>10, <1>11, <1>12, <1>13, <1>14 DEF ItemsInv

LEMMA ItemLooks ==
    ASSUME ItemsInv, NEW r \in Requests, NEW by \in Users, NEW i \in Items,
           \/ \E w \in Given, t \in Types :
                 \/ i \in Storages /\ SaveStorage(r, by, w, i, t)
                 \/ i \in Notifiers /\ SaveNotifier(r, by, w, i, t)
           \/ ToDelete(r, by, i) \/ ToTest(r, by, i) \/ \E w \in Given : ToMove(r, by, i, w)
    PROVE  ItemsInv'
<1>1. /\ item[i] \in Item \cup {None} /\ Given \subseteq Spaces
      /\ mixed \subseteq Items /\ blessed \subseteq Items
  BY DEF ItemsInv, ItemTypes, Given
<1>2. ASSUME NEW op \in {"save", "deleteItem"}, NEW w \in Spaces
      PROVE  Op(op, w, None, None, None) \in PendingOp /\ Op(op, w, None, None, None).op = op
  BY DEF Op, PendingOp, Ops
<1>3. item[i] # None /\ i \in Storages /\ item[i].type = Rclone => i \in blessed
  BY DEF ItemsInv, Blessed
<1>4. ASSUME NEW w \in Given, NEW t \in Types, NEW endpoint, LooksAtItems(r, endpoint),
             (\E parts \in SUBSET Types : Create(r, w, i, t, parts)) \/ Update(r, w, i, t),
             blessed' = blessed \/ blessed' = blessed \cup {i},
             i \in Storages /\ t = Rclone => i \in blessed'
      PROVE  ItemsInv'
  <2>1. ASSUME NEW parts \in SUBSET Types, Create(r, w, i, t, parts) PROVE ItemsInv'
    <3> DEFINE row == [space |-> w, type |-> t, parts |-> parts]
    <3>1. row \in Item /\ row.type = t /\ row.parts = parts
      BY <1>1 DEF Item
    <3>2. /\ Looks(r, endpoint) /\ Hold(r, i, row) /\ Goto(r, Op("save", w, None, None, None))
          /\ i \notin used /\ used' = used \cup {i}
          /\ mixed' = IF parts # {t} THEN mixed \cup {i} ELSE mixed
      BY <1>4, <2>1 DEF Create, Saves, LooksAtItems
    <3>3. i \notin mixed' => row.parts = {row.type}
      BY <3>1, <3>2
    <3>4. mixed \subseteq mixed' /\ mixed' \subseteq Items
      BY <1>1, <3>2
    <3> HIDE DEF row
    <3> QED
      BY <1>1, <1>2, <1>4, <3>1, <3>2, <3>3, <3>4, HoldsKeeps
  <2>2. CASE Update(r, w, i, t)
    <3> DEFINE row == [space |-> w, type |-> t, parts |-> item[i].parts \cup {t}]
    <3>1. item[i] # None /\ item[i] \in Item /\ item[i].parts \subseteq Types
      BY <1>1, <2>2 DEF Update, Found, Item
    <3>2. row \in Item /\ row.type = t /\ row.parts = item[i].parts \cup {t}
      BY <1>1, <3>1 DEF Item
    <3>3. /\ Looks(r, endpoint) /\ Hold(r, i, row) /\ Goto(r, Op("save", w, None, None, None))
          /\ used' = used
          /\ mixed' = IF t # item[i].type THEN mixed \cup {i} ELSE mixed
      BY <1>4, <2>2 DEF Update, Saves, LooksAtItems
    <3>4. i \notin mixed' => t = item[i].type /\ item[i].parts = {item[i].type}
      BY <3>1, <3>3 DEF ItemsInv, Uniform, OfType
    <3>5. i \notin mixed' => row.type = item[i].type /\ row.parts = item[i].parts
      BY <3>2, <3>4
    <3>6. mixed \subseteq mixed' /\ mixed' \subseteq Items
      BY <1>1, <3>3
    <3> HIDE DEF row
    <3> QED
      BY <1>1, <1>2, <1>4, <3>1, <3>2, <3>3, <3>5, <3>6, HoldsKeeps
  <2> QED
    BY <1>4, <2>1, <2>2
<1>5. ASSUME NEW w \in Given, NEW t \in Types, i \in Storages, SaveStorage(r, by, w, i, t)
      PROVE  ItemsInv'
  <2>1. /\ LooksAtItems(r, "saveStorage")
        /\ (\E parts \in SUBSET Types : Create(r, w, i, t, parts)) \/ Update(r, w, i, t)
        /\ blessed' = blessed \/ blessed' = blessed \cup {i}
        /\ t = Rclone => i \in blessed'
    BY <1>5 DEF SaveStorage, MaySaveType
  <2> QED
    BY <1>4, <2>1
<1>6. ASSUME NEW w \in Given, NEW t \in Types, i \in Notifiers, SaveNotifier(r, by, w, i, t)
      PROVE  ItemsInv'
  <2>1. /\ LooksAtItems(r, "saveNotifier") /\ (Create(r, w, i, t, {t}) \/ Update(r, w, i, t))
        /\ blessed' = blessed
    BY <1>6 DEF SaveNotifier
  <2>2. i \notin Storages
    BY <1>6, WorkspacesAssumption
  <2> QED
    BY <1>4, <2>1, <2>2
<1>7. ASSUME NEW endpoint, Looks(r, endpoint), item[i] # None,
             UNCHANGED <<used, mixed, blessed>>,
             NEW row \in Item, row.type = item[i].type, row.parts = item[i].parts,
             Hold(r, i, row), NEW w \in Spaces, NEW op \in {"save", "deleteItem"},
             Goto(r, Op(op, w, None, None, None))
      PROVE  ItemsInv'
  BY <1>1, <1>2, <1>3, <1>7, HoldsKeeps
<1>8. item[i] # None => item[i] \in Item /\ item[i].space \in Spaces
  BY <1>1 DEF Item
<1>9. CASE ToDelete(r, by, i)
  <2>1. /\ Looks(r, "deleteItem") /\ item[i] # None /\ UNCHANGED <<used, mixed, blessed>>
        /\ Hold(r, i, item[i]) /\ Goto(r, Op("deleteItem", item[i].space, None, None, None))
    BY <1>9 DEF ToDelete, LooksAtItems
  <2>2. item[i] \in Item /\ item[i].space \in Spaces /\ "deleteItem" \in {"save", "deleteItem"}
    BY <1>8, <2>1
  <2> QED
    BY <1>7, <2>1, <2>2
<1>10. CASE ToTest(r, by, i)
  <2>1. /\ Looks(r, "test") /\ item[i] # None /\ UNCHANGED <<used, mixed, blessed>>
        /\ Hold(r, i, item[i]) /\ Goto(r, Op("save", item[i].space, None, None, None))
    BY <1>10 DEF ToTest, LooksAtItems, Saves
  <2>2. item[i] \in Item /\ item[i].space \in Spaces /\ "save" \in {"save", "deleteItem"}
    BY <1>8, <2>1
  <2> QED
    BY <1>7, <2>1, <2>2
<1>11. ASSUME NEW w \in Given, ToMove(r, by, i, w) PROVE ItemsInv'
  <2> DEFINE row == [item[i] EXCEPT !.space = w]
  <2>1. /\ Looks(r, "move") /\ item[i] # None /\ UNCHANGED <<used, mixed, blessed>>
        /\ Hold(r, i, row) /\ Goto(r, Op("save", w, None, None, None))
    BY <1>11 DEF ToMove, LooksAtItems, Saves
  <2>2. row \in Item /\ row.type = item[i].type /\ row.parts = item[i].parts
    BY <1>1, <1>8, <2>1 DEF Item
  <2> HIDE DEF row
  <2> QED
    BY <1>1, <1>7, <2>1, <2>2
<1> QED
  BY <1>5, <1>6, <1>9, <1>10, <1>11
LEMMA ListKeeps ==
    ASSUME ItemsInv, NEW r \in Requests, ListNotifiers(r) \/ ListStorages(r)
    PROVE  ItemsInv'
<1> PICK kind, op :
        /\ \/ kind = Notifiers /\ op = "clearNotifiers" /\ req[r].op = "listNotifiers"
           \/ /\ kind = Storages /\ op = "clearStorages"
              /\ req[r].op = "clearNotifiers" /\ held[r] = Nothing
        /\ Listed(r, kind) /\ Goto(r, [req[r] EXCEPT !.op = op])
        /\ UNCHANGED itemVars /\ UNCHANGED <<space, load, saved, gone>>
  BY DEF ListNotifiers, ListStorages
<1>1. UNCHANGED <<item, used, mixed, blessed, deleted>>
  BY DEF itemVars
<1>2. /\ req'[r] \in PendingOp /\ req'[r].op = op /\ req'[r].space = req[r].space
      /\ req' \in [Requests -> PendingOp]
      /\ \A q \in Requests \ {r} : req'[q] = req[q]
  BY ZenonT(40) DEF ItemsInv, ItemTypes, Goto, PendingOp, Ops
<1>3. /\ \A q \in Requests \ {r} : held'[q] = held[q]
      /\ \A i \in Items :
            held'[r][i] = IF i \in kind /\ item[i] # None /\ item[i].space = req[r].space
                          THEN item[i] ELSE None
      /\ held' \in [Requests -> [Items -> Item \cup {None}]]
  BY DEF Listed, ItemsInv, ItemTypes
<1>4. ItemTypes'
  BY <1>1, <1>2, <1>3 DEF ItemsInv, ItemTypes
<1>5. Holding'
  BY <1>2, <1>3 DEF ItemsInv, Holding, Nothing, ItemOps
<1>6. Unused'
  BY <1>1, <1>3 DEF ItemsInv, Unused
<1>7. Uniform'
  <2> SUFFICES ASSUME NEW i \in Items \ mixed
               PROVE  \E t \in Types : OfType(item[i], t)
                                          /\ \A q \in Requests : OfType(held'[q][i], t)
    BY <1>1 DEF Uniform, OfType
  <2>1. PICK t \in Types : OfType(item[i], t) /\ \A q \in Requests : OfType(held[q][i], t)
    BY DEF ItemsInv, Uniform
  <2> QED
    BY <1>3, <2>1 DEF OfType
<1>8. Blessed'
  BY <1>1, <1>3 DEF ItemsInv, Blessed, Items
<1>9. LateSave'
  BY <1>1, <1>2, <1>3 DEF ItemsInv, ItemTypes, LateSave
<1>10. LateRename'
  BY <1>1, <1>2 DEF ItemsInv, LateRename
<1>11. Listing'
  <2> SUFFICES ASSUME NEW q \in Requests
               PROVE  /\ req'[q].op = "clearNotifiers" => \A i \in Notifiers : FoundOrSaved(q, i)'
                      /\ req'[q].op = "clearStorages" => \A i \in Items : FoundOrSaved(q, i)'
    BY DEF Listing
  <2>1. CASE q # r
    BY <1>1, <1>2, <1>3, <2>1 DEF ItemsInv, Listing, FoundOrSaved
  <2>2. CASE q = r /\ op = "clearNotifiers"
    BY <1>1, <1>2, <1>3, <2>2, WorkspacesAssumption DEF FoundOrSaved, Items
  <2>3. CASE q = r /\ op = "clearStorages"
    <3>1. \A i \in Items : held[r][i] = None
      BY <2>3 DEF Nothing
    <3>2. \A i \in Notifiers : item[i] # None /\ item[i].space = req[r].space => i \in saved[r]
      BY <2>3, <3>1 DEF ItemsInv, Listing, FoundOrSaved, Items
    <3> QED
      BY <1>1, <1>2, <1>3, <2>3, <3>2, WorkspacesAssumption DEF FoundOrSaved, Items
  <2> QED
    BY <2>1, <2>2, <2>3
<1> QED
  BY <1>4, <1>5, <1>6, <1>7, <1>8, <1>9, <1>10, <1>11 DEF ItemsInv

LEMMA DropKeeps ==
    ASSUME ItemsInv, NEW r \in Requests, NEW i \in Items, Drop(r, i),
           req[r].op \in {"clearNotifiers", "clearStorages", "deleteItem"},
           held' \in [Requests -> [Items -> Item \cup {None}]],
           \A q \in Requests \ {r} : held'[q] = held[q],
           \/ /\ UNCHANGED req
              /\ held'[r][i] = None /\ \A j \in Items \ {i} : held'[r][j] = held[r][j]
           \/ Goto(r, Done) /\ held'[r] = Nothing,
           UNCHANGED <<space, used, mixed, blessed, load, saved>>
    PROVE  ItemsInv'
<1>1. /\ item' = [item EXCEPT ![i] = None]
      /\ deleted' = IF item[i] # None THEN deleted \cup {i} ELSE deleted
      /\ gone' = IF item[i] # None THEN [gone EXCEPT ![i] = InProgress \ {r}] ELSE gone
  BY DEF Drop
<1>2. /\ req' \in [Requests -> PendingOp]
      /\ \A q \in Requests \ {r} : req'[q] = req[q]
      /\ req'[r] = req[r] \/ req'[r] = Done
  BY DoneMemberIntent DEF ItemsInv, ItemTypes, Goto
<1>3. /\ \A q \in Requests, j \in Items : held'[q][j] = held[q][j] \/ held'[q][j] = None
      /\ \A j \in Items : Nothing[j] = None
  BY DEF Nothing
<1>4. /\ item'[i] = None /\ \A j \in Items \ {i} : item'[j] = item[j]
      /\ item' \in [Items -> Item \cup {None}]
  BY <1>1 DEF ItemsInv, ItemTypes
<1>5. /\ gone' \in [Items \cup Spaces -> SUBSET Requests]
      /\ \A x \in Items \cup Spaces, q \in Requests \ {r} :
            q \in gone[x] /\ req[q] # Done => q \in gone'[x]
      /\ item[i] # None => \A q \in Requests \ {r} : req[q] # Done => q \in gone'[i]
  BY <1>1 DEF ItemsInv, ItemTypes, InProgress
<1>6. ItemTypes'
  BY <1>1, <1>2, <1>4, <1>5 DEF ItemsInv, ItemTypes
<1>7. Holding'
  <2> SUFFICES ASSUME NEW q \in Requests, req'[q].op \notin ItemOps PROVE held'[q] = Nothing
    BY DEF Holding, Nothing
  <2>1. CASE q # r
    BY <1>2, <2>1 DEF ItemsInv, Holding
  <2>2. CASE q = r
    BY <2>2 DEF ItemOps
  <2> QED
    BY <2>1, <2>2
<1>8. Unused'
  BY <1>1, <1>3, <1>4 DEF ItemsInv, Unused
<1>9. Uniform'
  <2> SUFFICES ASSUME NEW j \in Items \ mixed
               PROVE  \E t \in Types : OfType(item'[j], t)
                                          /\ \A q \in Requests : OfType(held'[q][j], t)
    BY DEF Uniform, OfType
  <2>1. PICK t \in Types : OfType(item[j], t) /\ \A q \in Requests : OfType(held[q][j], t)
    BY DEF ItemsInv, Uniform
  <2> QED
    BY <1>3, <1>4, <2>1 DEF OfType
<1>10. Blessed'
  BY <1>3, <1>4 DEF ItemsInv, Blessed, Items
<1>11. LateSave'
  <2> SUFFICES ASSUME NEW j \in deleted', NEW q \in Requests, item'[j] = None,
                      req'[q].op = "save", held'[q][j] # None
               PROVE  q \in gone'[j]
    BY DEF LateSave
  <2>1. q # r /\ j \in Items
    BY <1>1, <1>2 DEF Done, ItemsInv, ItemTypes
  <2>2. req[q] # Done /\ req[q].op = "save" /\ held[q][j] # None
    BY <1>2, <2>1 DEF Done
  <2>3. CASE j = i /\ item[i] # None
    BY <1>5, <2>1, <2>2, <2>3
  <2>4. CASE j # i \/ item[i] = None
    <3>1. j \in deleted /\ item[j] = None
      BY <1>1, <1>4, <2>1, <2>4
    <3>2. q \in gone[j]
      BY <2>2, <3>1 DEF ItemsInv, LateSave
    <3> QED
      BY <1>5, <2>1, <2>2, <3>2
  <2> QED
    BY <2>3, <2>4
<1>12. LateRename'
  <2> SUFFICES ASSUME NEW w \in Spaces, NEW q \in Requests, space[w] = "deleted",
                      req'[q].op = "rename", req'[q].space = w
               PROVE  q \in gone'[w]
    BY DEF LateRename
  <2>1. q # r /\ req[q] = req'[q] /\ req[q] # Done
    BY <1>2 DEF Done
  <2> QED
    BY <1>5, <2>1 DEF ItemsInv, LateRename
<1>13. Listing'
  <2> SUFFICES ASSUME NEW q \in Requests, NEW j \in Items,
                      \/ req'[q].op = "clearNotifiers" /\ j \in Notifiers
                      \/ req'[q].op = "clearStorages",
                      item'[j] # None, item'[j].space = req'[q].space
               PROVE  j \in saved[q] \/ held'[q][j] # None
    BY DEF Listing, FoundOrSaved, Items
  <2>1. j # i /\ item[j] = item'[j]
    BY <1>4
  <2>2. q = r => req'[q] # Done
    BY DEF Done
  <2>3. q = r => UNCHANGED req /\ held'[q][j] = held[q][j]
    BY <2>1, <2>2 DEF Goto, ItemsInv, ItemTypes
  <2>4. req'[q] = req[q] /\ held'[q][j] = held[q][j]
    BY <1>2, <2>3
  <2> QED
    BY <2>1, <2>4 DEF ItemsInv, Listing, FoundOrSaved
<1> QED
  BY <1>6, <1>7, <1>8, <1>9, <1>10, <1>11, <1>12, <1>13 DEF ItemsInv

LEMMA SavedKeeps ==
    ASSUME ItemsInv, NEW r \in Requests, NEW i \in Items, Saved(r, i), Stored(r, i)
    PROVE  ItemsInv'
<1> DEFINE row == [held[r][i] EXCEPT !.parts = SavedParts(i, held[r][i])]
<1>1. /\ req[r].op = "save" /\ held[r][i] # None /\ held' = [held EXCEPT ![r] = Nothing]
      /\ Goto(r, Done) /\ item' = [item EXCEPT ![i] = row]
      /\ UNCHANGED <<space, used, mixed, blessed, deleted, load, gone>>
  BY DEF Saved, Stored
<1>2. held[r][i] \in Item /\ SavedParts(i, held[r][i]) \subseteq Types
  BY <1>1 DEF ItemsInv, ItemTypes, SavedParts, Item
<1>3. /\ row \in Item /\ row.space = held[r][i].space /\ row.type = held[r][i].type
      /\ row.parts = SavedParts(i, held[r][i]) /\ row # None
  BY <1>2, WorkspacesAssumption DEF Item
<1>4. saved' = [q \in Requests |->
                  IF q \in Past(i, row.space) THEN saved[q] \cup {i} ELSE saved[q]]
  BY <1>3 DEF Stored
<1> HIDE DEF row
<1>5. /\ item'[i] = row /\ \A j \in Items \ {i} : item'[j] = item[j]
      /\ item' \in [Items -> Item \cup {None}]
  BY <1>1, <1>3 DEF ItemsInv, ItemTypes
<1>6. /\ \A q \in Requests \ {r} : held'[q] = held[q]
      /\ held'[r] = Nothing /\ \A j \in Items : held'[r][j] = None
      /\ held' \in [Requests -> [Items -> Item \cup {None}]]
  BY <1>1 DEF ItemsInv, ItemTypes, Nothing
<1>7. /\ req' \in [Requests -> PendingOp]
      /\ req'[r] = Done /\ \A q \in Requests \ {r} : req'[q] = req[q]
  BY <1>1, DoneMemberIntent DEF ItemsInv, ItemTypes, Goto
<1>8. ItemTypes'
  BY <1>1, <1>4, <1>5, <1>6, <1>7 DEF ItemsInv, ItemTypes
<1>9. Holding'
  BY <1>6, <1>7 DEF ItemsInv, Holding, Nothing
<1>10. Unused'
  BY <1>1, <1>5, <1>6 DEF ItemsInv, Unused
<1>11. Uniform'
  <2> SUFFICES ASSUME NEW j \in Items \ mixed
               PROVE  \E t \in Types : OfType(item'[j], t)
                                          /\ \A q \in Requests : OfType(held'[q][j], t)
    BY <1>1 DEF Uniform, OfType
  <2>1. PICK t \in Types : OfType(item[j], t) /\ \A q \in Requests : OfType(held[q][j], t)
    BY DEF ItemsInv, Uniform
  <2>2. j = i => OfType(row, t)
    BY <1>1, <1>3, <2>1 DEF OfType, SavedParts
  <2> QED
    BY <1>5, <1>6, <2>1, <2>2 DEF OfType
<1>12. Blessed'
  BY <1>1, <1>3, <1>5, <1>6 DEF ItemsInv, Blessed, Items
<1>13. LateSave'
  <2> SUFFICES ASSUME NEW j \in deleted, NEW q \in Requests, item'[j] = None,
                      req'[q].op = "save", held'[q][j] # None
               PROVE  q \in gone[j]
    BY <1>1 DEF LateSave
  <2>1. j \in Items /\ j # i /\ q # r
    BY <1>3, <1>5, <1>7 DEF ItemsInv, ItemTypes, Done
  <2> QED
    BY <1>5, <1>6, <1>7, <2>1 DEF ItemsInv, LateSave
<1>14. LateRename'
  BY <1>1, <1>7 DEF ItemsInv, LateRename, Done
<1>15. Listing'
  <2> SUFFICES ASSUME NEW q \in Requests, NEW j \in Items,
                      \/ req'[q].op = "clearNotifiers" /\ j \in Notifiers
                      \/ req'[q].op = "clearStorages",
                      item'[j] # None, item'[j].space = req'[q].space
               PROVE  j \in saved'[q] \/ held'[q][j] # None
    BY DEF Listing, FoundOrSaved, Items
  <2>1. q # r /\ req'[q] = req[q] /\ held'[q] = held[q] /\ saved[q] \subseteq saved'[q]
    BY <1>4, <1>6, <1>7 DEF Done
  <2>2. CASE j = i
    <3>1. q \in Past(i, row.space)
      BY <1>5, <2>1, <2>2 DEF Past
    <3> QED
      BY <1>4, <2>2, <3>1
  <2>3. CASE j # i
    BY <1>5, <2>1, <2>3 DEF ItemsInv, Listing, FoundOrSaved
  <2> QED
    BY <2>2, <2>3
<1> QED
  BY <1>8, <1>9, <1>10, <1>11, <1>12, <1>13, <1>14, <1>15 DEF ItemsInv
LEMMA HandsEmpty ==
    ASSUME ItemsInv, NEW r \in Requests, req[r].op \notin ItemOps
    PROVE  held = [held EXCEPT ![r] = Nothing]
  BY DEF ItemsInv, ItemTypes, Holding

\* A statement about members.
LEMMA MemberStatementKeeps ==
    ASSUME ItemsInv, NEW r \in Requests, WriteMembers(r), req' \in [Requests -> PendingOp]
    PROVE  ItemsInv'
<1>1. /\ UNCHANGED itemVars /\ UNCHANGED <<held, load, saved, gone>>
      /\ \/ UNCHANGED space
         \/ \E w \in Spaces : space[w] = "unused" /\ space' = [space EXCEPT ![w] = "open"]
  BY DEF WriteMembers, MakeSpace, CreateMembership, Invite, GetWorkspaceOwner, UpdateMemberRole,
         Remove
<1>2. /\ space' \in [Spaces -> {"unused", "open", "deleted"}]
      /\ \A w \in Spaces : space'[w] = "deleted" => space[w] = "deleted"
  BY <1>1 DEF ItemsInv, ItemTypes
<1>3. req[r] \in PendingOp /\ req[r].op \notin ItemOps
  BY DEF WriteMembers, MakeSpace, CreateMembership, Invite, GetWorkspaceOwner, UpdateMemberRole,
         Remove, ItemOps, ItemsInv, ItemTypes
<1>4. PICK p : Goto(r, p) /\ p.op \notin ItemOps \cup {"rename"}
  <2> PICK o : o = req[r]
    OBVIOUS
  <2>0. o \in PendingOp /\ Done.op \notin ItemOps \cup {"rename"}
    BY <1>3 DEF ItemOps, Done
  <2>1. ASSUME NEW w \in Spaces, MakeSpace(r, w)
        PROVE  \E p : Goto(r, p) /\ p.op \notin ItemOps \cup {"rename"}
    <3>1. [o EXCEPT !.op = "own", !.space = w].op = "own" /\ "own" \notin ItemOps \cup {"rename"}
      BY <2>0 DEF PendingOp, ItemOps
    <3> QED
      BY <2>1, <3>1 DEF MakeSpace
  <2>2. CASE \E m \in Rows : CreateMembership(r, m)
    BY <2>0, <2>2 DEF CreateMembership
  <2>3. CASE Invite(r)
    <3>1. [o EXCEPT !.op = "join"].op = "join" /\ "join" \notin ItemOps \cup {"rename"}
      BY <2>0 DEF PendingOp, ItemOps
    <3> QED
      BY <2>0, <2>3, <3>1 DEF Invite
  <2>4. CASE GetWorkspaceOwner(r)
    <3>1. Goto(r, Done) \/ \E u : Goto(r, [o EXCEPT !.op = "promote", !.owner = u])
      BY <2>4 DEF GetWorkspaceOwner
    <3>2. \A u : /\ [o EXCEPT !.op = "promote", !.owner = u].op = "promote"
                 /\ "promote" \notin ItemOps \cup {"rename"}
      BY <2>0 DEF PendingOp, ItemOps
    <3> QED
      BY <2>0, <3>1, <3>2
  <2>5. CASE UpdateMemberRole(r)
    <3>1. Goto(r, Done) \/ Goto(r, [o EXCEPT !.op = "demote", !.user = o.owner, !.role = "ADMIN"])
      BY <2>5 DEF UpdateMemberRole
    <3>2. /\ [o EXCEPT !.op = "demote", !.user = o.owner, !.role = "ADMIN"].op = "demote"
          /\ "demote" \notin ItemOps \cup {"rename"}
      BY <2>0 DEF PendingOp, ItemOps
    <3> QED
      BY <2>0, <3>1, <3>2
  <2>6. CASE Remove(r)
    BY <2>0, <2>6 DEF Remove
  <2> QED
    BY <2>1, <2>2, <2>3, <2>4, <2>5, <2>6 DEF WriteMembers
<1>5. p \in PendingOp
  BY <1>4 DEF Goto, ItemsInv, ItemTypes
<1>6. held' = [held EXCEPT ![r] = Nothing]
  BY <1>1, <1>3, HandsEmpty
<1>7. saved' \in [Requests -> SUBSET Items] /\ gone' \in [Items \cup Spaces -> SUBSET Requests]
  BY <1>1 DEF ItemsInv, ItemTypes
<1> QED
  BY ZenonT(40), <1>1, <1>2, <1>4, <1>5, <1>6, <1>7, HoldsNothingKeeps

\* A look at members or at a workspace.
LEMMA OtherLookKeeps ==
    ASSUME ItemsInv, NEW r \in Requests, NEW p \in PendingOp, Goto(r, p), p.op \notin ItemOps,
           p.op # "rename" \/ space[p.space] # "deleted",
           NEW endpoint, Looks(r, endpoint), UNCHANGED <<used, held, mixed, blessed>>
    PROVE  ItemsInv'
<1>1. /\ saved' = [saved EXCEPT ![r] = {}]
      /\ gone' = [x \in Items \cup Spaces |-> gone[x] \ {r}]
      /\ UNCHANGED <<space, item, load, deleted>> /\ req[r] = Done
  BY DEF Looks
<1>2. UNCHANGED itemVars
  BY <1>1 DEF itemVars
<1>3. held' = [held EXCEPT ![r] = Nothing]
  BY <1>1, HandsEmpty DEF Done, ItemOps
<1>4. /\ saved' \in [Requests -> SUBSET Items] /\ gone' \in [Items \cup Spaces -> SUBSET Requests]
      /\ \A q \in Requests \ {r} : saved'[q] = saved[q]
      /\ \A x \in Items \cup Spaces, q \in Requests \ {r} : q \in gone[x] => q \in gone'[x]
      /\ space \in [Spaces -> {"unused", "open", "deleted"}]
  BY <1>1 DEF ItemsInv, ItemTypes
<1>5. /\ space' \in [Spaces -> {"unused", "open", "deleted"}]
      /\ \A w \in Spaces : space'[w] = "deleted" =>
            /\ p.op # "rename" \/ p.space # w
            /\ space[w] = "deleted" \/ \A q \in Requests \ {r} : req[q] # Done => q \in gone'[w]
  BY <1>1, <1>4
<1>6. UNCHANGED load
  BY <1>1
<1>7. \A x \in Items \cup Spaces, q \in Requests \ {r} :
          q \in gone[x] /\ req[q] # Done => q \in gone'[x]
  BY <1>4
<1> QED
  BY ZenonT(40), <1>2, <1>3, <1>4, <1>5, <1>6, <1>7, HoldsNothingKeeps

LEMMA OtherLooks ==
    ASSUME ItemsInv, NEW r \in Requests,
           WorkspaceHandlers(r) \/ AddHandler(r) \/ RoleHandler(r) \/ MemberHandlers(r),
           req' \in [Requests -> PendingOp]
    PROVE  ItemsInv'
<1>1. PICK op, w, u, role, o, endpoint :
          /\ Goto(r, Op(op, w, u, role, o))
          /\ op \notin ItemOps /\ (op = "rename" => space[w] = "open")
          /\ Looks(r, endpoint) /\ UNCHANGED <<used, held, mixed, blessed>>
  <2>1. CASE WorkspaceHandlers(r)
    BY <2>1 DEF WorkspaceHandlers, CreateWorkspace, UpdateWorkspace, DeleteWorkspace, ItemOps
  <2>2. CASE AddHandler(r)
    BY <2>2 DEF AddHandler, AddMember, LooksAtMembers, ItemOps
  <2>3. CASE RoleHandler(r)
    BY <2>3 DEF RoleHandler, ChangeMemberRole, LooksAtMembers, ItemOps
  <2>4. CASE MemberHandlers(r)
    BY <2>4 DEF MemberHandlers, RemoveMember, TransferOwnership, LooksAtMembers, ItemOps
  <2> QED
    BY <2>1, <2>2, <2>3, <2>4
<1> DEFINE p == Op(op, w, u, role, o)
<1>2. p.op = op /\ p.space = w
  BY DEF Op
<1>3. p \in PendingOp
  BY <1>1 DEF Goto, ItemsInv, ItemTypes
<1> HIDE DEF p
<1> QED
  BY <1>1, <1>2, <1>3, OtherLookKeeps DEF p

LEMMA ItemStatementKeeps ==
    ASSUME ItemsInv, NEW r \in Requests, WriteItems(r) \/ Fails(r)
    PROVE  ItemsInv'
<1>1. Done \in PendingOp /\ Done.op \notin ItemOps /\ Done.op # "rename"
  BY DoneMemberIntent DEF Done, ItemOps
<1>2. ItemTypes
  BY DEF ItemsInv
<1>3. ASSUME Goto(r, Done), held' = [held EXCEPT ![r] = Nothing], UNCHANGED itemVars,
             UNCHANGED <<load, space, saved, gone>>
      PROVE  ItemsInv'
  <2>1. /\ space' \in [Spaces -> {"unused", "open", "deleted"}]
        /\ saved' \in [Requests -> SUBSET Items]
        /\ gone' \in [Items \cup Spaces -> SUBSET Requests]
    BY <1>2, <1>3 DEF ItemTypes
  <2> QED
    BY <1>1, <1>3, <2>1, HoldsNothingKeeps
<1>4. CASE Rename(r)
  <2>1. /\ Goto(r, Done) /\ held' = [held EXCEPT ![r] = Nothing]
        /\ UNCHANGED itemVars /\ UNCHANGED load /\ UNCHANGED <<saved, gone>>
    BY <1>4, HandsEmpty DEF Rename, ItemOps
  <2>2. /\ space' \in [Spaces -> {"unused", "open", "deleted"}]
        /\ saved' \in [Requests -> SUBSET Items]
        /\ gone' \in [Items \cup Spaces -> SUBSET Requests]
        /\ \A w \in Spaces : space'[w] = "deleted" => space[w] = "deleted"
    BY <1>2, <1>4, <2>1 DEF ItemTypes, Rename
  <2> QED
    BY <1>1, <2>1, <2>2, HoldsNothingKeeps
<1>5. CASE DropSpace(r)
  <2>1. /\ Goto(r, Done) /\ held' = [held EXCEPT ![r] = Nothing]
        /\ UNCHANGED itemVars /\ UNCHANGED load /\ UNCHANGED saved
    BY <1>2, <1>5 DEF DropSpace, ItemTypes
  <2>2. /\ space' = [space EXCEPT ![req[r].space] = "deleted"]
        /\ gone' = [gone EXCEPT ![req[r].space] = InProgress \ {r}]
    BY <1>5 DEF DropSpace
  <2>3. /\ space' \in [Spaces -> {"unused", "open", "deleted"}]
        /\ saved' \in [Requests -> SUBSET Items]
        /\ gone' \in [Items \cup Spaces -> SUBSET Requests]
    BY <1>2, <2>1, <2>2 DEF ItemTypes, InProgress
  <2>4. \A x \in Items \cup Spaces, q \in Requests \ {r} :
            q \in gone[x] /\ req[q] # Done => q \in gone'[x]
    BY <1>2, <2>2 DEF ItemTypes, InProgress
  <2>5. \A w \in Spaces : space'[w] = "deleted" =>
            space[w] = "deleted" \/ \A q \in Requests \ {r} : req[q] # Done => q \in gone'[w]
    BY <1>2, <2>2 DEF ItemTypes, InProgress
  <2> QED
    BY <1>1, <2>1, <2>3, <2>4, <2>5, HoldsNothingKeeps
<1>6. ASSUME NEW i \in Items, ClearListed(r, i) PROVE ItemsInv'
  <2>0. UNCHANGED <<space, used, mixed, blessed, load, saved>>
    BY <1>6 DEF ClearListed, memberVars
  <2>1. CASE Drop(r, i) /\ held' = [held EXCEPT ![r][i] = None] /\ UNCHANGED req
    <3>1. /\ held' \in [Requests -> [Items -> Item \cup {None}]]
          /\ \A q \in Requests \ {r} : held'[q] = held[q]
          /\ held'[r][i] = None /\ \A j \in Items \ {i} : held'[r][j] = held[r][j]
      BY <1>2, <2>1 DEF ItemTypes
    <3> QED
      BY <1>6, <2>0, <2>1, <3>1, DropKeeps DEF ClearListed
  <2>2. CASE /\ held' = [held EXCEPT ![r] = Nothing] /\ Goto(r, Done)
             /\ UNCHANGED <<item, deleted, gone>>
    BY <1>3, <2>0, <2>2 DEF itemVars
  <2> QED
    BY <1>6, <2>1, <2>2 DEF ClearListed
<1>7. ASSUME NEW i \in Items, DeleteItem(r, i) PROVE ItemsInv'
  <2>0. /\ UNCHANGED <<space, used, mixed, blessed, load, saved>>
        /\ held' = [held EXCEPT ![r] = Nothing] /\ Goto(r, Done) /\ req[r].op = "deleteItem"
    BY <1>7 DEF DeleteItem, memberVars
  <2>1. CASE Drop(r, i)
    <3>1. /\ held' \in [Requests -> [Items -> Item \cup {None}]]
          /\ \A q \in Requests \ {r} : held'[q] = held[q]
          /\ held'[r] = Nothing
      BY <1>2, <2>0 DEF ItemTypes, Nothing
    <3> QED
      BY <2>0, <2>1, <3>1, DropKeeps
  <2>2. CASE UNCHANGED <<item, deleted, gone>>
    BY <1>3, <2>0, <2>2 DEF itemVars
  <2> QED
    BY <1>7, <2>1, <2>2 DEF DeleteItem
<1>8. ASSUME NEW i \in Items, SaveStorageRow(r, i) \/ SaveNotifierRow(r, i) PROVE ItemsInv'
  <2>1. Saved(r, i) /\ (Stored(r, i) \/ UNCHANGED <<item, saved>>)
    BY <1>8 DEF SaveStorageRow, SaveNotifierRow
  <2>2. CASE UNCHANGED <<item, saved>>
    BY <1>3, <2>1, <2>2 DEF Saved, itemVars
  <2> QED
    BY <2>1, <2>2, SavedKeeps
<1>9. CASE Fails(r)
  BY <1>3, <1>9 DEF Fails
<1>10. Storages \subseteq Items /\ Notifiers \subseteq Items
  BY DEF Items
<1> QED
  BY <1>4, <1>5, <1>6, <1>7, <1>8, <1>9, <1>10, ListKeeps DEF WriteItems

----------------------------------------------------------------------------
(* The invariant.                                                          *)

IInv == MembersInv /\ ItemsInv

LEMMA InitInv ==
    ASSUME Init
    PROVE  IInv
<1> USE DEF Init
<1>1. /\ \A r \in Requests : req[r] = Done
      /\ \A m \in Rows : member[m] = None
      /\ \A i \in Items : item[i] = None /\ Nothing[i] = None
      /\ \A r \in Requests : held[r] = Nothing
  BY DEF Nothing
<1>2. MemberTypes
  BY DoneMemberIntent, WorkspacesAssumption DEF MemberTypes
<1>3. MemberIntents
  BY <1>1, DoneMemberIntent DEF MemberIntents
<1>4. RowsStand /\ Alone /\ OneRow /\ OneMembership /\ OwnerStands
  BY <1>1 DEF RowsStand, Alone, OneRow, OneMembership, OwnerStands, Done, MemberOps
<1>5. ItemTypes
  BY DoneMemberIntent DEF ItemTypes, Nothing
<1>6. Holding /\ Unused /\ Blessed
  BY <1>1 DEF Holding, Unused, Blessed, Items
<1>7. Uniform
  BY <1>1, WorkspacesAssumption DEF Uniform, OfType
<1>8. LateSave /\ LateRename /\ Listing
  BY <1>1 DEF LateSave, LateRename, Listing, Done
<1> QED
  BY <1>2, <1>3, <1>4, <1>5, <1>6, <1>7, <1>8 DEF IInv, MembersInv, ItemsInv

LEMMA StepInv ==
    ASSUME IInv, [Next]_vars
    PROVE  IInv'
<1>1. CASE UNCHANGED vars
  <2>1. /\ UNCHANGED <<known, space, member, req, joinedBy, founded, excused>>
        /\ UNCHANGED <<item, used, held, load, saved, mixed, blessed, deleted, gone>>
    BY <1>1 DEF vars, memberVars, itemVars
  <2>2. MemberTypes' /\ RowsStand' /\ Alone' /\ OneRow' /\ OneMembership' /\ OwnerStands'
    BY <2>1 DEF IInv, MembersInv, MemberTypes, RowsStand, Given, Alone, OneRow, OneMembership,
                OwnerStands
  <2>3. MemberIntents'
    BY <2>1 DEF IInv, MembersInv, MemberIntents, MemberIntent, Given, In
  <2>4. ItemTypes' /\ Holding' /\ Unused' /\ Blessed'
    BY <2>1 DEF IInv, ItemsInv, ItemTypes, Holding, Nothing, Unused, Blessed
  <2>5. Uniform' /\ LateSave' /\ LateRename' /\ Listing'
    BY <2>1 DEF IInv, ItemsInv, Uniform, OfType, LateSave, LateRename, Listing, FoundOrSaved
  <2> QED
    BY <2>2, <2>3, <2>4, <2>5 DEF IInv, MembersInv, ItemsInv
<1>2. ASSUME NEW r \in Requests, Look(r) \/ WriteMembers(r) \/ WriteItems(r) \/ Fails(r)
      PROVE  IInv'
  <2>1. MembersInv'
    <3>1. item \in [Items -> Item \cup {None}] /\ MembersInv
      BY DEF IInv, ItemsInv, ItemTypes
    <3>2. CASE WorkspaceHandlers(r)
      BY <3>1, <3>2, MemberLooks, OtherwiseKeeps DEF WorkspaceHandlers
    <3>3. CASE AddHandler(r) \/ RoleHandler(r) \/ MemberHandlers(r)
      <4>1. \E by, u \in Users, w \in Given :
               \/ \E role \in AskedRoles \ {"OTHER"} : AddMember(r, by, w, u, role)
               \/ \E role \in AskedRoles : ChangeMemberRole(r, by, w, u, role)
               \/ RemoveMember(r, by, w, u) \/ TransferOwnership(r, by, w, u)
        BY <3>3 DEF AddHandler, RoleHandler, MemberHandlers
      <4> QED
        BY <3>1, <4>1, MemberLooks
    <3>4. CASE WriteMembers(r)
      BY <3>1, <3>4, MakeSpaceKeeps, CreateMembershipKeeps, InviteKeeps, GetWorkspaceOwnerKeeps,
         UpdateMemberRoleKeeps, RemoveKeeps DEF WriteMembers
    <3>5. CASE SaveStorageHandler(r) \/ SaveNotifierHandler(r) \/ StorageHandlers(r)
               \/ NotifierHandlers(r) \/ WriteItems(r) \/ Fails(r)
      BY <3>1, <3>5, OtherwiseKeeps
    <3> QED
      BY <1>2, <3>2, <3>3, <3>4, <3>5 DEF Look
  <2>2. /\ ItemsInv /\ req' \in [Requests -> PendingOp]
        /\ Storages \subseteq Items /\ Notifiers \subseteq Items
    BY <2>1 DEF IInv, MembersInv, MemberTypes, Items
  <2>3. ItemsInv'
    <3>1. CASE WorkspaceHandlers(r) \/ AddHandler(r) \/ RoleHandler(r) \/ MemberHandlers(r)
      BY <2>2, <3>1, OtherLooks
    <3>2. CASE SaveStorageHandler(r) \/ SaveNotifierHandler(r)
      <4>1. \E by \in Users, i \in Items, w \in Given, t \in Types :
               \/ i \in Storages /\ SaveStorage(r, by, w, i, t)
               \/ i \in Notifiers /\ SaveNotifier(r, by, w, i, t)
        BY <2>2, <3>2 DEF SaveStorageHandler, SaveNotifierHandler
      <4> QED
        BY <2>2, <4>1, ItemLooks
    <3>3. CASE StorageHandlers(r) \/ NotifierHandlers(r)
      <4>1. \E by \in Users, i \in Items :
               ToDelete(r, by, i) \/ ToTest(r, by, i) \/ \E w \in Given : ToMove(r, by, i, w)
        BY <2>2, <3>3
        DEF StorageHandlers, DeleteStorage, TestStorageConnection, TransferStorageToWorkspace,
            NotifierHandlers, DeleteNotifier, SendTestNotification, TransferNotifierToWorkspace
      <4> QED
        BY <2>2, <4>1, ItemLooks
    <3>4. CASE WriteMembers(r)
      BY <2>2, <3>4, MemberStatementKeeps
    <3>5. CASE WriteItems(r) \/ Fails(r)
      BY <2>2, <3>5, ItemStatementKeeps
    <3> QED
      BY <1>2, <3>1, <3>2, <3>3, <3>4, <3>5 DEF Look
  <2> QED
    BY <2>1, <2>3 DEF IInv
<1> QED
  BY <1>1, <1>2 DEF Next
----------------------------------------------------------------------------
(* The theorems.                                                           *)

(* The inductive invariant of all of workspaces and items.                 *)
THEOREM Invariance == Spec => []IInv
<1>1. Init => IInv
  BY InitInv
<1>2. IInv /\ [Next]_vars => IInv'
  BY StepInv
<1> QED
  BY <1>1, <1>2, PTL DEF Spec

(* Accounts, rows, items and what requests hold of them are well-formed in   *)
(* every behaviour (models of workspaces, storages and notifiers).           *)
THEOREM TypeCorrect == Spec => []TypeOK
<1>1. IInv => TypeOK
  <2> SUFFICES ASSUME IInv PROVE TypeOK
    OBVIOUS
  <2>1. MemberTypes /\ ItemTypes
    BY DEF IInv, MembersInv, ItemsInv
  <2> QED
    BY <2>1 DEF MemberTypes, ItemTypes, TypeOK, PendingOp
<1> QED
  BY <1>1, Invariance, PTL

(* Membership looked up and inserted in separate steps doubles only where    *)
(* requests overlap (membership_service.go:114-162).                         *)
THEOREM MembersOnce == Spec => []OneMembership
<1>1. IInv => OneMembership
  BY DEF IInv, MembersInv
<1> QED
  BY <1>1, Invariance, PTL

(* A workspace keeps an owner through every statement of every handler       *)
(* (membership_service.go:60-332).                                           *)
THEOREM OwnersStand == Spec => []OwnerStands
<1>1. IInv => OwnerStands
  BY DEF IInv, MembersInv
<1> QED
  BY <1>1, Invariance, PTL

(* The listeners leave nothing behind but what came after them               *)
(* (workspace_service.go:158-192).                                           *)
THEOREM DeletionsFindAll == Spec => []NothingOldLeft
<1>1. IInv => NothingOldLeft
  <2> SUFFICES ASSUME IInv, NEW r \in Requests, req[r].op = "clearStorages", held[r] = Nothing,
                      NEW i \in Items, item[i] # None, item[i].space = req[r].space
               PROVE  i \in saved[r]
    BY DEF NothingOldLeft
  <2>1. held[r][i] = None
    BY DEF Nothing
  <2> QED
    BY <2>1 DEF IInv, ItemsInv, Listing, FoundOrSaved
<1> QED
  BY <1>1, Invariance, PTL

(* An item no request ever gave settings of several types can be deleted,    *)
(* whatever stale rows were saved over it (storages/repository.go:12-118,    *)
(* notifiers/repository.go:12-128 and 179-222).                              *)
THEOREM ItemsRemovable == Spec => []Removable
<1>1. IInv => Removable
  BY DEF IInv, ItemsInv, Uniform, OfType, Removable, CanDelete
<1> QED
  BY <1>1, Invariance, PTL

(* No save, test or move makes an rclone storage behind the administrators'  *)
(* backs (storages/service.go:99-101).                                       *)
THEOREM RcloneIsForAdmins == Spec => []RcloneByAdmin
<1>1. IInv => RcloneByAdmin
  BY DEF IInv, ItemsInv, Blessed, RcloneByAdmin
<1> QED
  BY <1>1, Invariance, PTL

\* The action of BackByOverlap.
ItemBack ==
    \A i \in deleted : item[i] = None /\ item'[i] # None =>
        i \in Notifiers /\ \E r \in gone[i] : req[r] # Done /\ req'[r] = Done

SpaceBack ==
    \A w \in Spaces : space[w] = "deleted" /\ space'[w] # "deleted" =>
        \E r \in gone[w] : req[r] # Done /\ req'[r] = Done

LEMMA OnlySavesInsert ==
    ASSUME IInv, NEW r \in Requests, Look(r) \/ WriteMembers(r) \/ WriteItems(r) \/ Fails(r),
           NEW i \in deleted, item[i] = None, item'[i] # None
    PROVE  Saved(r, i) /\ i \in Notifiers
<1>1. item \in [Items -> Item \cup {None}] /\ i \in Items
  BY DEF IInv, ItemsInv, ItemTypes
<1>2. ASSUME Look(r) PROVE UNCHANGED item
  <2>1. WorkspaceHandlers(r) => UNCHANGED item
    BY DEF WorkspaceHandlers, CreateWorkspace, UpdateWorkspace, DeleteWorkspace, Looks
  <2>2. AddHandler(r) \/ RoleHandler(r) \/ MemberHandlers(r) => UNCHANGED item
    BY DEF AddHandler, AddMember, RoleHandler, ChangeMemberRole, MemberHandlers, RemoveMember,
           TransferOwnership, LooksAtMembers, Looks
  <2>3. SaveStorageHandler(r) \/ SaveNotifierHandler(r) => UNCHANGED item
    BY DEF SaveStorageHandler, SaveStorage, SaveNotifierHandler, SaveNotifier, LooksAtItems, Looks
  <2>4. StorageHandlers(r) => UNCHANGED item
    BY DEF StorageHandlers, DeleteStorage, TestStorageConnection, TransferStorageToWorkspace,
           ToDelete, ToTest, ToMove, LooksAtItems, Looks
  <2>5. NotifierHandlers(r) => UNCHANGED item
    BY DEF NotifierHandlers, DeleteNotifier, SendTestNotification, TransferNotifierToWorkspace,
           ToDelete, ToTest, ToMove, LooksAtItems, Looks
  <2> QED
    BY <1>2, <2>1, <2>2, <2>3, <2>4, <2>5 DEF Look
<1>3. WriteMembers(r) => UNCHANGED itemVars
  BY DEF WriteMembers, MakeSpace, CreateMembership, Invite, GetWorkspaceOwner, UpdateMemberRole,
         Remove
<1>4. Rename(r) \/ ListNotifiers(r) \/ ListStorages(r) \/ DropSpace(r) \/ Fails(r)
         => UNCHANGED itemVars
  BY DEF Rename, ListNotifiers, ListStorages, DropSpace, Fails
<1>5. ASSUME NEW j \in Items, ClearListed(r, j) \/ DeleteItem(r, j) PROVE FALSE
  <2>1. item' = [item EXCEPT ![j] = None] \/ item' = item
    BY <1>5 DEF ClearListed, DeleteItem, Drop
  <2> QED
    BY <1>1, <2>1
<1>6. ASSUME NEW j \in Items, SaveStorageRow(r, j) \/ SaveNotifierRow(r, j) PROVE j = i
  <2>1. item' = item \/ Stored(r, j)
    BY <1>6 DEF SaveStorageRow, SaveNotifierRow
  <2> QED
    BY <1>1, <2>1 DEF Stored
<1>7. ASSUME NEW j \in Storages, SaveStorageRow(r, j) PROVE FALSE
  BY <1>6, <1>7 DEF SaveStorageRow, Items
<1>8. ASSUME NEW j \in Notifiers, SaveNotifierRow(r, j) PROVE Saved(r, i) /\ i \in Notifiers
  BY <1>6, <1>8 DEF SaveNotifierRow, Items
<1> QED
  BY <1>2, <1>3, <1>4, <1>5, <1>7, <1>8 DEF WriteItems, itemVars

LEMMA OnlyRenamesReopen ==
    ASSUME IInv, NEW r \in Requests, Look(r) \/ WriteMembers(r) \/ WriteItems(r) \/ Fails(r),
           NEW w \in Spaces, space[w] = "deleted", space'[w] # "deleted"
    PROVE  Rename(r) /\ req[r].space = w
<1>1. space \in [Spaces -> {"unused", "open", "deleted"}]
  BY DEF IInv, ItemsInv, ItemTypes
<1>2. ASSUME Look(r) PROVE UNCHANGED space
  <2>1. WorkspaceHandlers(r) => UNCHANGED space
    BY DEF WorkspaceHandlers, CreateWorkspace, UpdateWorkspace, DeleteWorkspace, Looks
  <2>2. AddHandler(r) \/ RoleHandler(r) \/ MemberHandlers(r) => UNCHANGED space
    BY DEF AddHandler, AddMember, RoleHandler, ChangeMemberRole, MemberHandlers, RemoveMember,
           TransferOwnership, LooksAtMembers, Looks
  <2>3. SaveStorageHandler(r) \/ SaveNotifierHandler(r) => UNCHANGED space
    BY DEF SaveStorageHandler, SaveStorage, SaveNotifierHandler, SaveNotifier, LooksAtItems, Looks
  <2>4. StorageHandlers(r) => UNCHANGED space
    BY DEF StorageHandlers, DeleteStorage, TestStorageConnection, TransferStorageToWorkspace,
           ToDelete, ToTest, ToMove, LooksAtItems, Looks
  <2>5. NotifierHandlers(r) => UNCHANGED space
    BY DEF NotifierHandlers, DeleteNotifier, SendTestNotification, TransferNotifierToWorkspace,
           ToDelete, ToTest, ToMove, LooksAtItems, Looks
  <2> QED
    BY <1>2, <2>1, <2>2, <2>3, <2>4, <2>5 DEF Look
<1>3. ASSUME WriteMembers(r) PROVE FALSE
  <2>1. \/ UNCHANGED space
        \/ \E v \in Spaces : space[v] = "unused" /\ space' = [space EXCEPT ![v] = "open"]
    BY <1>3 DEF WriteMembers, MakeSpace, CreateMembership, Invite, GetWorkspaceOwner,
                UpdateMemberRole, Remove
  <2> QED
    BY <1>1, <2>1
<1>4. Rename(r) => req[r].space = w
  BY <1>1 DEF Rename
<1>5. ~DropSpace(r)
  BY <1>1 DEF DropSpace
<1>6. ListNotifiers(r) \/ ListStorages(r) \/ Fails(r) => UNCHANGED space
  BY DEF ListNotifiers, ListStorages, Fails
<1>7. ASSUME NEW j \in Items, \/ ClearListed(r, j) \/ DeleteItem(r, j)
                              \/ SaveStorageRow(r, j) \/ SaveNotifierRow(r, j)
      PROVE  UNCHANGED space
  BY <1>7 DEF ClearListed, DeleteItem, SaveStorageRow, SaveNotifierRow, Saved
<1> QED
  BY <1>2, <1>3, <1>4, <1>5, <1>6, <1>7 DEF WriteItems, Items

LEMMA StepsBack ==
    ASSUME IInv, Next
    PROVE  ItemBack /\ SpaceBack
<1> PICK r \in Requests : Look(r) \/ WriteMembers(r) \/ WriteItems(r) \/ Fails(r)
  BY DEF Next
<1>1. ItemBack
  <2> SUFFICES ASSUME NEW i \in deleted, item[i] = None, item'[i] # None
               PROVE  i \in Notifiers /\ \E q \in gone[i] : req[q] # Done /\ req'[q] = Done
    BY DEF ItemBack
  <2>1. Saved(r, i) /\ i \in Notifiers
    BY OnlySavesInsert
  <2>2. req[r].op = "save" /\ held[r][i] # None /\ req[r] # Done /\ req'[r] = Done
    BY <2>1 DEF Saved, Goto, Done, IInv, ItemsInv, ItemTypes
  <2>3. r \in gone[i]
    BY <2>2 DEF IInv, ItemsInv, LateSave
  <2> QED
    BY <2>1, <2>2, <2>3
<1>2. SpaceBack
  <2> SUFFICES ASSUME NEW w \in Spaces, space[w] = "deleted", space'[w] # "deleted"
               PROVE  \E q \in gone[w] : req[q] # Done /\ req'[q] = Done
    BY DEF SpaceBack
  <2>1. Rename(r) /\ req[r].space = w
    BY OnlyRenamesReopen
  <2>2. req[r].op = "rename" /\ req[r] # Done /\ req'[r] = Done
    BY <2>1 DEF Rename, Goto, Done, IInv, ItemsInv, ItemTypes
  <2>3. r \in gone[w]
    BY <2>1, <2>2 DEF IInv, ItemsInv, LateRename
  <2> QED
    BY <2>2, <2>3
<1> QED
  BY <1>1, <1>2

(* Only a request that was in progress at the deletion brings a notifier or  *)
(* a workspace back, and nothing brings a storage back                       *)
(* (storages/service.go:256-287, notifiers/service.go:192-220,               *)
(* workspace_service.go:112-156).                                            *)
THEOREM DeletedStay == Spec => BackByOverlap
<1> DEFINE Back ==
        /\ \A i \in deleted : item[i] = None /\ item'[i] # None =>
              i \in Notifiers /\ \E r \in gone[i] : req[r] # Done /\ req'[r] = Done
        /\ \A w \in Spaces : space[w] = "deleted" /\ space'[w] # "deleted" =>
              \E r \in gone[w] : req[r] # Done /\ req'[r] = Done
<1>1. IInv /\ [Next]_vars => [Back]_vars
  BY StepsBack DEF ItemBack, SpaceBack
<1> HIDE DEF Back
<1>2. Spec => [][Back]_vars
  BY <1>1, Invariance, PTL DEF Spec
<1> QED
  BY <1>2 DEF BackByOverlap, Back
=============================================================================
