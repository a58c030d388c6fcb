--------------------------- MODULE AccountsProofs ----------------------------
(***************************************************************************)
(* The safety properties of Accounts, for every set of accounts, addresses,*)
(* identities, codes and requests and every load.                          *)
(*                                                                         *)
(* What makes them inductive is what a request may rely on between its     *)
(* look and its last write: Intent says it of one request, for each of the *)
(* statements it may be about to execute.                                  *)
(***************************************************************************)
EXTENDS Accounts, FiniteSetTheorems, TLAPS

\* A password's time is recorded with it; only accounts whose owner has come
\* are linked.
Rows ==
    \A u \in Users :
        /\ setAt[u] = stamp[u] /\ stamp[u] <= now
        /\ linked[u] # None => email[u] # None /\ status[u] # "INVITED"

TokensDated ==
    \A t \in tokens :
        /\ email[t.user] # None /\ status[t.user] # "INVITED"
        /\ t.stamp <= t.since /\ t.since <= now

SpentIsUsed == \A c \in Codes : spentBy[c] # {} => codes[c] # None /\ codes[c].used

OnUser == {"setPassword", "invitedPassword", "activateInvited", "oauthActivate", "link",
           "issue", "setEmail", "setStatus", "setRole", "makeCode", "redeem", "resetByCode"}
Taking == {"signUp", "invite", "oauthNew", "setEmail"}
Linking == {"oauthActivate", "link", "oauthNew"}
Redeeming == {"redeem", "resetByCode"}

\* What holds between request r's look and the statement p it goes to.
Intent(r, p) ==
    /\ p.op \in OnUser => p.user \in Users /\ email[p.user] # None
    /\ p.op \in Taking => p.arg \in Emails /\ \A u \in Users : email[u] = p.arg => takenBy[u] # r
    /\ p.op \in Linking => p.link \in Identities
    /\ p.op \notin Linking => p.link = None
    /\ p.link # None => \A u \in Users : linked[u] = p.link => linkedBy[u] # r
    /\ p.op \in {"link", "issue"} => status[p.user] # "INVITED"
    /\ p.op = "setEmail" => p.user # Root
    /\ p.op = "setStatus" =>
          p.arg \in {"ACTIVE", "INACTIVE"} /\ (p.arg = "INACTIVE" => p.user # Root)
    /\ p.op = "setRole" =>
          p.arg \in Roles /\ p.user # Root /\ (p.arg = "ADMIN" => p.by = Root)
    /\ p.op \in Redeeming =>
          /\ p.arg \in Codes /\ r \notin spentBy[p.arg]
          /\ codes[p.arg] # None /\ codes[p.arg].user = p.user
    /\ p.op = "resetByCode" => codes[p.arg].used

Intents == \A r \in Requests : Intent(r, req[r])

IInv ==
    /\ TypeOK /\ RootStands /\ Rows /\ TokensDated /\ SpentIsUsed
    /\ OneAccountPerAddress /\ OneAccountPerIdentity
    /\ Intents

PendingOp ==
    [op : Ops, by : Users \cup {None}, user : Users \cup {None},
     arg : Emails \cup Codes \cup Roles \cup Statuses \cup {None},
     link : Identities \cup {None}]

LEMMA DoneIntent ==
    ASSUME NEW r \in Requests
    PROVE  Done \in PendingOp /\ Intent(r, Done) /\ Intent(r, Done)'
  BY DEF Done, PendingOp, Ops, Intent, OnUser, Taking, Linking, Redeeming

(* A request that only makes up its mind keeps the invariant, provided that  *)
(* what it goes to is what the checks allow.                                 *)
LEMMA LookKeeps ==
    ASSUME IInv, NEW r \in Requests, NEW p \in PendingOp, Intent(r, p),
           Goto(r, p), TypeOK => window' \in [Emails -> [count : Nat, until : Nat]],
           UNCHANGED <<rowVars, settings, codes, tokens, now, load, ghostVars>>
    PROVE  IInv'
<1> USE DEF rowVars, ghostVars
<1>1. TypeOK'
  BY DEF IInv, TypeOK, Goto, PendingOp
<1>2. RootStands' /\ Rows' /\ TokensDated' /\ SpentIsUsed'
  BY DEF IInv, RootStands, Rows, TokensDated, SpentIsUsed
<1>3. OneAccountPerAddress' /\ OneAccountPerIdentity'
  BY DEF IInv, OneAccountPerAddress, OneAccountPerIdentity
<1>4. Intents'
  <2> SUFFICES ASSUME NEW q \in Requests PROVE Intent(q, req[q])'
    BY DEF Intents
  <2>1. Intent(q, req'[q])
    BY DEF IInv, Intents, Goto, TypeOK
  <2> QED
    BY <2>1 DEF Intent
<1> QED
  BY <1>1, <1>2, <1>3, <1>4 DEF IInv

LEMMA CountedType ==
    ASSUME TypeOK, NEW e \in Emails
    PROVE  Counted(e) \in [count : Nat, until : Nat]
<1>1. window[e] \in [count : Nat, until : Nat] /\ now \in Nat /\ Hour \in Nat
  BY AccountsAssumption DEF TypeOK
<1>2. /\ window[e].count \in Nat /\ window[e].until \in Nat
      /\ [window[e] EXCEPT !.count = IF @ > MaxCodes THEN @ ELSE @ + 1]
            = [count |-> IF window[e].count > MaxCodes THEN window[e].count
                         ELSE window[e].count + 1, until |-> window[e].until]
  BY <1>1
<1> QED
  BY <1>1, <1>2 DEF Counted

(* The looks go to statements that their checks allow.                       *)
LEMMA LooksAllowed ==
    ASSUME IInv, NEW r \in Requests, Look(r)
    PROVE  IInv'
<1> USE AccountsAssumption DEF Looks, IInv
<1> DEFINE W == [Emails -> [count : Nat, until : Nat]]
<1>0. (UNCHANGED window) => (TypeOK => window' \in W)
  BY DEF TypeOK
<1>1. ASSUME NEW e \in Emails \cup {AdminEmail}, SignUp(r, e) PROVE IInv'
  <2>1. e = AdminEmail => \A u \in WithEmail(e) : status[u] # "INVITED"
    BY DEF WithEmail, RootStands
  <2>2. Root \in WithEmail(AdminEmail)
    BY DEF WithEmail, RootStands
  <2>3. PICK p : /\ Goto(r, p)
                 /\ \/ \E u \in WithEmail(e) :
                         status[u] = "INVITED" /\ p = Op("invitedPassword", None, u, None, None)
                    \/ WithEmail(e) = {} /\ p = Op("signUp", None, None, e, None)
    BY <1>1 DEF SignUp
  <2>4. p \in PendingOp /\ Intent(r, p)
    BY <2>2, <2>3 DEF PendingOp, Ops, Op, Intent, OnUser, Taking, Linking, Redeeming, WithEmail
  <2> QED
    BY <1>0, <1>1, <2>3, <2>4, LookKeeps DEF SignUp
<1>2. ASSUME NEW e \in Emails, NEW i \in Identities, HandleOAuth(r, i, e) PROVE IInv'
  <2>1. PICK p : /\ Goto(r, p) /\ WithIdentity(i) = {}
                 /\ \/ \E u \in WithEmail(e) : p = Op(FirstOfLink(u), None, u, None, i)
                    \/ WithEmail(e) = {} /\ p = Op("oauthNew", None, None, e, i)
    BY <1>2 DEF HandleOAuth
  <2>2. CASE \E u \in WithEmail(e) : p = Op(FirstOfLink(u), None, u, None, i)
    <3>1. p \in PendingOp /\ Intent(r, p)
      BY <2>1, <2>2 DEF PendingOp, Ops, Op, Intent, OnUser, Taking, Linking, Redeeming,
                  WithIdentity, WithEmail, FirstOfLink
    <3> QED
      BY <1>0, <1>2, <2>1, <3>1, LookKeeps DEF HandleOAuth
  <2>3. CASE WithEmail(e) = {} /\ p = Op("oauthNew", None, None, e, i)
    <3>1. p \in PendingOp /\ Intent(r, p)
      BY <2>1, <2>3 DEF PendingOp, Ops, Op, Intent, OnUser, Taking, Linking, Redeeming,
                  WithIdentity, WithEmail
    <3> QED
      BY <1>0, <1>2, <2>1, <3>1, LookKeeps DEF HandleOAuth
  <2> QED
    BY <2>1, <2>2, <2>3
<1>3. ASSUME NEW e \in Emails, NEW u \in Users, InviteUser(r, u, e) PROVE IInv'
  <2> DEFINE p == Op("invite", u, None, e, None)
  <2>1. p \in PendingOp /\ Intent(r, p)
    BY <1>3 DEF InviteUser, PendingOp, Ops, Op, Intent, OnUser, Taking, Linking, Redeeming, WithEmail
  <2> QED
    BY <1>0, <1>3, <2>1, LookKeeps DEF InviteUser
<1>4. ASSUME NEW u \in Users, SignedIn(u) PROVE email[u] # None
  BY <1>4 DEF SignedIn, TokensDated
<1>5. ASSUME NEW e \in Emails, NEW u \in Users, UpdateUserInfo(r, u, e) PROVE IInv'
  <2> DEFINE p == Op("setEmail", u, u, e, None)
  <2>1. p \in PendingOp /\ Intent(r, p)
    BY <1>4, <1>5 DEF UpdateUserInfo, PendingOp, Ops, Op, Intent, OnUser, Taking, Linking,
                      Redeeming, WithEmail, RootStands
  <2> QED
    BY <1>0, <1>5, <2>1, LookKeeps DEF UpdateUserInfo
<1>6. ASSUME NEW by \in Users \cup {None}, NEW u \in Users, email[u] # None,
             Goto(r, Op("setPassword", by, u, None, None)), UNCHANGED window,
             UNCHANGED <<rowVars, settings, codes, tokens, now, load, ghostVars>>
      PROVE  IInv'
  <2> DEFINE p == Op("setPassword", by, u, None, None)
  <2>1. p \in PendingOp /\ Intent(r, p)
    BY <1>6 DEF PendingOp, Ops, Op, Intent, OnUser, Taking, Linking, Redeeming
  <2> QED
    BY <1>0, <1>6, <2>1, LookKeeps
<1>7. ASSUME NEW u \in Users, ChangePassword(r, u) PROVE IInv'
  BY <1>4, <1>6, <1>7 DEF ChangePassword
<1>8. ASSUME SetRootAdminPassword(r) PROVE IInv'
  BY <1>6, <1>8 DEF SetRootAdminPassword, WithEmail
<1>9. ASSUME NEW e \in Emails \cup {AdminEmail}, ChangeUserPasswordByEmail(r, e) PROVE IInv'
  BY <1>6, <1>9 DEF ChangeUserPasswordByEmail, WithEmail
<1>10. ASSUME NEW e \in Emails, SendResetPasswordCode(r, e) PROVE IInv'
  <2>1. TypeOK => window' \in W
    BY <1>10, CountedType DEF SendResetPasswordCode, TypeOK
  <2>2. CASE UNCHANGED req
    <3>1. req[r] \in PendingOp /\ Intent(r, req[r]) /\ Goto(r, req[r])
      BY <2>2 DEF TypeOK, PendingOp, Intents, Goto
    <3> QED
      BY <1>10, <2>1, <3>1, LookKeeps DEF SendResetPasswordCode
  <2>3. CASE \E u \in WithEmail(e) : Goto(r, Op("makeCode", None, u, None, None))
    <3>1. PICK u \in WithEmail(e) : Goto(r, Op("makeCode", None, u, None, None))
      BY <2>3
    <3> DEFINE p == Op("makeCode", None, u, None, None)
    <3>2. p \in PendingOp /\ Intent(r, p)
      BY DEF PendingOp, Ops, Op, Intent, OnUser, Taking, Linking, Redeeming, WithEmail
    <3> QED
      BY <1>10, <2>1, <3>1, <3>2, LookKeeps DEF SendResetPasswordCode
  <2> QED
    BY <1>10, <2>2, <2>3 DEF SendResetPasswordCode
<1>11. ASSUME NEW e \in Emails, NEW c \in Codes, ResetPassword(r, e, c)
       PROVE  IInv'
  <2>1. PICK u \in WithEmail(e) : Youngest(u, c) /\ Goto(r, Op("redeem", None, u, c, None))
    BY <1>11 DEF ResetPassword
  <2> DEFINE p == Op("redeem", None, u, c, None)
  <2>2. codes[c] # None /\ codes[c].user = u /\ ~codes[c].used
    BY <2>1 DEF Youngest, Valid
  <2>3. p \in PendingOp /\ Intent(r, p)
    BY <2>2 DEF PendingOp, Ops, Op, Intent, OnUser, Taking, Linking, Redeeming, WithEmail, SpentIsUsed
  <2> QED
    BY <1>0, <1>11, <2>1, <2>3, LookKeeps DEF ResetPassword
<1>12. ASSUME NEW by \in Users, NEW u \in Users, NEW new \in {"ACTIVE", "INACTIVE"},
              ChangeUserStatus(r, by, u, new)
       PROVE  IInv'
  <2> DEFINE p == Op("setStatus", by, u, new, None)
  <2>1. p \in PendingOp /\ Intent(r, p)
    BY <1>12 DEF ChangeUserStatus, PendingOp, Ops, Op, Intent, OnUser, Taking, Linking,
                 Redeeming, Statuses, RootStands
  <2> QED
    BY <1>0, <1>12, <2>1, LookKeeps DEF ChangeUserStatus
<1>13. ASSUME NEW by \in Users, NEW u \in Users, NEW new \in Roles,
              ChangeUserRole(r, by, u, new)
       PROVE  IInv'
  <2> DEFINE p == Op("setRole", by, u, new, None)
  <2>1. p \in PendingOp /\ Intent(r, p)
    BY <1>13 DEF ChangeUserRole, PendingOp, Ops, Op, Intent, OnUser, Taking, Linking,
                 Redeeming, Roles, RootStands
  <2> QED
    BY <1>0, <1>13, <2>1, LookKeeps DEF ChangeUserRole
<1> QED
  BY <1>1, <1>2, <1>3, <1>5, <1>7, <1>8, <1>9, <1>10, <1>11, <1>12, <1>13
     DEF Look, SignUpHandler, OAuthHandlers, ProviderAnswers, PasswordHandlers, ProfileHandlers,
         ResetHandlers, CommandLine, ManagementHandlers

(* A request that has written its last statement intends nothing more; the   *)
(* other requests are judged by what became of the rows.                     *)
LEMMA OthersIntend ==
    ASSUME IInv, NEW r \in Requests, NEW p \in PendingOp, Goto(r, p), Intent(r, p)',
           \A q \in Requests \ {r} : Intent(q, req[q]) => Intent(q, req[q])'
    PROVE  Intents'
<1> SUFFICES ASSUME NEW q \in Requests PROVE Intent(q, req[q])'
  BY DEF Intents
<1>1. CASE q = r
  BY <1>1 DEF Goto, IInv, TypeOK
<1>2. CASE q # r
  BY <1>2 DEF IInv, Intents
<1> QED
  BY <1>1, <1>2

(* Each write keeps the invariant.                                           *)
LEMMA CreateKeeps ==
    ASSUME IInv, NEW r \in Requests, NEW u \in Users, Create(r, u)
    PROVE  IInv'
<1> USE AccountsAssumption
<1> DEFINE p == req[r]
<1>0. /\ p.op \in {"signUp", "invite", "oauthNew"} /\ email[u] = None
      /\ p.arg \in Emails /\ p.arg # None /\ p.arg # AdminEmail /\ u # Root
      /\ \A v \in Users : email[v] = p.arg => takenBy[v] # r
      /\ p.link \in Identities \cup {None}
      /\ p.op = "oauthNew" => p.link \in Identities
      /\ p.op # "oauthNew" => p.link = None
      /\ p.link # None => \A v \in Users : linked[v] = p.link => linkedBy[v] # r
  BY DEF Create, IInv, Intents, Intent, Taking, Linking, TypeOK, RootStands
<1>1. TypeOK'
  BY <1>0, DoneIntent DEF IInv, TypeOK, Create, Goto, PendingOp, Token, Roles, Statuses
<1>2. RootStands'
  BY <1>0 DEF IInv, RootStands, Create, TypeOK
<1>3. Rows'
  <2> SUFFICES ASSUME NEW v \in Users
               PROVE  /\ setAt'[v] = stamp'[v] /\ stamp'[v] <= now
                      /\ linked'[v] # None => email'[v] # None /\ status'[v] # "INVITED"
    BY DEF Rows, Create
  <2>1. CASE v = u
    BY <1>0, <2>1 DEF IInv, Create, TypeOK
  <2>2. CASE v # u
    BY <2>2 DEF IInv, Rows, Create, TypeOK
  <2> QED
    BY <2>1, <2>2
<1>4. TokensDated'
  <2> SUFFICES ASSUME NEW t \in tokens'
               PROVE  /\ email'[t.user] # None /\ status'[t.user] # "INVITED"
                      /\ t.stamp <= t.since /\ t.since <= now
    BY DEF TokensDated, Create
  <2>1. CASE t \in tokens
    <3>1. t.user \in Users /\ t.user # u
      BY <1>0, <2>1 DEF IInv, TokensDated, TypeOK, Token
    <3> QED
      BY <2>1, <3>1 DEF IInv, TokensDated, Create, TypeOK
  <2>2. CASE t \notin tokens
    BY <1>0, <2>2 DEF IInv, Create, TypeOK
  <2> QED
    BY <2>1, <2>2
<1>5. SpentIsUsed'
  BY DEF IInv, SpentIsUsed, Create
<1>6. OneAccountPerAddress'
  BY <1>0 DEF IInv, OneAccountPerAddress, Create, TypeOK
<1>7. OneAccountPerIdentity'
  <2>1. /\ linked' \in [Users -> Identities \cup {None}] /\ linked'[u] = p.link
        /\ \A v \in Users \ {u} : linked'[v] = linked[v] /\ linkedBy'[v] = linkedBy[v]
        /\ p.link # None => linkedBy'[u] = r
    BY <1>0 DEF IInv, Create, TypeOK
  <2> QED
    BY <1>0, <2>1 DEF IInv, OneAccountPerIdentity
<1>8. Intents'
  <2>1. ASSUME NEW q \in Requests \ {r}, Intent(q, req[q]) PROVE Intent(q, req[q])'
    <3>1. req'[q] = req[q]
      BY DEF IInv, Create, Goto, TypeOK
    <3>2. \A v \in Users : email'[v] = req[q].arg /\ req[q].op \in Taking => takenBy'[v] # q
      BY <2>1 DEF IInv, Create, TypeOK, Intent
    <3>3. \A v \in Users : req[q].link # None /\ linked'[v] = req[q].link => linkedBy'[v] # q
      <4>1. r # None /\ q # r /\ q # None
        OBVIOUS
      <4> QED
        BY <2>1, <4>1 DEF IInv, Create, TypeOK, Intent
    <3>4. req[q].op \in OnUser => req[q].user # u
      BY <1>0, <2>1 DEF Intent
    <3>5. req[q].op \in {"link", "issue"} => status'[req[q].user] # "INVITED"
      BY <2>1, <3>4 DEF IInv, Create, TypeOK, Intent, OnUser
    <3>6. req[q].op \in OnUser => email'[req[q].user] # None
      BY <2>1, <3>4 DEF IInv, Create, TypeOK, Intent
    <3> QED
      BY <2>1, <3>1, <3>2, <3>3, <3>5, <3>6 DEF Intent, Create
  <2> QED
    BY <2>1, DoneIntent, OthersIntend DEF Create
<1> QED
  BY <1>1, <1>2, <1>3, <1>4, <1>5, <1>6, <1>7, <1>8 DEF IInv

LEMMA UpdateUserPasswordKeeps ==
    ASSUME IInv, NEW r \in Requests, UpdateUserPassword(r)
    PROVE  IInv'
<1> USE AccountsAssumption
<1>0. UNCHANGED <<email, status, role, linked, settings, codes, tokens, window,
                  now, load, takenBy, linkedBy, overtaken>>
  BY DEF UpdateUserPassword
<1>1. PICK u \in Users : u = req[r].user /\ email[u] # None
  BY DEF UpdateUserPassword, IInv, Intents, Intent, OnUser
<1>2. /\ password' = [password EXCEPT ![u] = TRUE]
      /\ stamp' = [stamp EXCEPT ![u] = now]
      /\ setAt' = [setAt EXCEPT ![u] = now]
  BY <1>1 DEF UpdateUserPassword, SetStamp
<1>3. PICK p \in PendingOp :
        Goto(r, p) /\ (p = Done \/ p = Op("activateInvited", None, u, None, None))
  <2>1. Done \in PendingOp /\ Op("activateInvited", None, u, None, None) \in PendingOp
    BY DoneIntent, <1>1 DEF Op, Ops, PendingOp
  <2> QED
    BY <1>1, <2>1 DEF UpdateUserPassword
<1>4. Intent(r, p)'
  <2>1. CASE p = Done
    BY <2>1, DoneIntent
  <2>2. CASE p = Op("activateInvited", None, u, None, None)
    BY <1>0, <1>1, <2>2 DEF Op, Intent, OnUser, Taking, Linking, Redeeming
  <2> QED
    BY <1>3, <2>1, <2>2
<1>5. \/ UNCHANGED spentBy
      \/ \E c \in Codes : /\ codes[c] # None /\ codes[c].used
                          /\ spentBy' = [spentBy EXCEPT ![c] = @ \cup {r}]
  BY DEF UpdateUserPassword, IInv, Intents, Intent, Redeeming
<1>6. /\ spentBy' \in [Codes -> SUBSET Requests]
      /\ \A c \in Codes : spentBy'[c] # {} => codes[c] # None /\ codes[c].used
      /\ \A c \in Codes, q \in Requests \ {r} : q \notin spentBy[c] => q \notin spentBy'[c]
  <2>1. CASE UNCHANGED spentBy
    BY <2>1 DEF IInv, TypeOK, SpentIsUsed
  <2>2. CASE \E c \in Codes : /\ codes[c] # None /\ codes[c].used
                              /\ spentBy' = [spentBy EXCEPT ![c] = @ \cup {r}]
    BY <2>2 DEF IInv, TypeOK, SpentIsUsed
  <2> QED
    BY <1>5, <2>1, <2>2
<1>7. TypeOK'
  BY <1>0, <1>1, <1>2, <1>3, <1>6 DEF IInv, TypeOK, Goto, PendingOp
<1>8. RootStands' /\ OneAccountPerAddress' /\ OneAccountPerIdentity'
  BY <1>0 DEF IInv, RootStands, OneAccountPerAddress, OneAccountPerIdentity
<1>9. Rows'
  BY <1>0, <1>2 DEF IInv, Rows, TypeOK
<1>10. TokensDated'
  BY <1>0 DEF IInv, TokensDated
<1>11. SpentIsUsed'
  BY <1>0, <1>6 DEF SpentIsUsed
<1>12. Intents'
  <2>1. ASSUME NEW q \in Requests \ {r}, Intent(q, req[q]) PROVE Intent(q, req[q])'
    <3>1. req'[q] = req[q]
      BY <1>3 DEF IInv, Goto, TypeOK
    <3> QED
      BY <1>0, <1>6, <2>1, <3>1 DEF Intent
  <2> QED
    BY <1>3, <1>4, <2>1, OthersIntend
<1> QED
  BY <1>7, <1>8, <1>9, <1>10, <1>11, <1>12 DEF IInv

LEMMA UpdateUserStatusKeeps ==
    ASSUME IInv, NEW r \in Requests, UpdateUserStatus(r)
    PROVE  IInv'
<1> USE AccountsAssumption
<1>0. UNCHANGED <<email, role, password, stamp, linked, settings, codes, tokens,
                  window, now, load, setAt, takenBy, linkedBy, spentBy>>
  BY DEF UpdateUserStatus, ghostVars
<1>1. PICK u \in Users : u = req[r].user /\ email[u] # None
  BY DEF UpdateUserStatus, IInv, Intents, Intent, OnUser
<1>2. PICK new \in {"ACTIVE", "INACTIVE"} :
        status' = [status EXCEPT ![u] = new] /\ (u = Root => new = "ACTIVE")
  BY <1>1 DEF UpdateUserStatus, IInv, Intents, Intent
<1>3. /\ status' \in [Users -> Statuses] /\ status'[u] = new
      /\ \A v \in Users \ {u} : status'[v] = status[v]
  BY <1>2 DEF IInv, TypeOK, Statuses
<1>4. PICK p \in PendingOp :
        /\ Goto(r, p)
        /\ \/ p = Done
           \/ p = Op("issue", None, u, None, None)
           \/ /\ req[r].op = "oauthActivate"
              /\ p = Op("link", None, u, None, req[r].link)
  <2>1. req[r].op = "oauthActivate" => req[r].link \in Identities
    BY DEF IInv, Intents, Intent, Linking
  <2>2. /\ Done \in PendingOp /\ Op("issue", None, u, None, None) \in PendingOp
        /\ req[r].op = "oauthActivate" => Op("link", None, u, None, req[r].link) \in PendingOp
    BY <2>1, DoneIntent DEF Op, Ops, PendingOp
  <2>3. CASE req[r].op = "setStatus"
    BY <2>2, <2>3 DEF UpdateUserStatus
  <2>4. CASE req[r].op = "activateInvited"
    BY <1>1, <2>2, <2>4 DEF UpdateUserStatus
  <2>5. CASE req[r].op = "oauthActivate"
    BY <1>1, <2>2, <2>5 DEF UpdateUserStatus
  <2> QED
    BY <2>3, <2>4, <2>5 DEF UpdateUserStatus
<1>5. Intent(r, p)'
  <2>1. CASE p = Done
    BY <2>1, DoneIntent
  <2>2. CASE p = Op("issue", None, u, None, None)
    BY <1>0, <1>1, <1>3, <2>2 DEF Op, Intent, OnUser, Taking, Linking, Redeeming
  <2>3. CASE /\ req[r].op = "oauthActivate"
             /\ p = Op("link", None, u, None, req[r].link)
    <3>1. /\ req[r].link \in Identities
          /\ \A v \in Users : linked[v] = req[r].link => linkedBy[v] # r
      BY <2>3 DEF IInv, Intents, Intent, Linking
    <3> QED
      BY <1>0, <1>1, <1>3, <2>3, <3>1 DEF Op, Intent, OnUser, Taking, Linking, Redeeming
  <2> QED
    BY <1>4, <2>1, <2>2, <2>3
<1>6. TypeOK'
  <2>1. overtaken' \in SUBSET Requests
    BY DEF UpdateUserStatus, Overtakes, IInv, TypeOK
  <2> QED
    BY <1>0, <1>3, <1>4, <2>1 DEF IInv, TypeOK, Goto, PendingOp
<1>7. RootStands'
  BY <1>0, <1>2, <1>3 DEF IInv, RootStands
<1>8. Rows'
  BY <1>0, <1>1, <1>3 DEF IInv, Rows
<1>9. TokensDated'
  BY <1>0, <1>3 DEF IInv, TokensDated, TypeOK, Token
<1>10. SpentIsUsed'
  BY <1>0 DEF IInv, SpentIsUsed
<1>11. OneAccountPerAddress' /\ OneAccountPerIdentity'
  BY <1>0 DEF IInv, OneAccountPerAddress, OneAccountPerIdentity
<1>12. Intents'
  <2>1. ASSUME NEW q \in Requests \ {r}, Intent(q, req[q]) PROVE Intent(q, req[q])'
    <3>1. req'[q] = req[q]
      BY <1>4 DEF IInv, Goto, TypeOK
    <3>2. req[q].op \in {"link", "issue"} => status'[req[q].user] # "INVITED"
      BY <1>3, <2>1 DEF Intent, OnUser
    <3> QED
      BY <1>0, <2>1, <3>1, <3>2 DEF Intent
  <2> QED
    BY <1>4, <1>5, <2>1, OthersIntend
<1> QED
  BY <1>6, <1>7, <1>8, <1>9, <1>10, <1>11, <1>12 DEF IInv

LEMMA LinkOAuthIDKeeps ==
    ASSUME IInv, NEW r \in Requests, LinkOAuthID(r)
    PROVE  IInv'
<1> USE AccountsAssumption
<1>0. UNCHANGED <<email, status, role, password, stamp, settings, codes, tokens,
                  window, now, load, setAt, takenBy, spentBy, overtaken>>
  BY DEF LinkOAuthID
<1>1. PICK u \in Users : /\ u = req[r].user /\ email[u] # None /\ status[u] # "INVITED"
  BY DEF LinkOAuthID, IInv, Intents, Intent, OnUser
<1>2. PICK i \in Identities : /\ i = req[r].link
                              /\ \A v \in Users : linked[v] = i => linkedBy[v] # r
  BY DEF LinkOAuthID, IInv, Intents, Intent, Linking
<1>3. /\ linked' = [linked EXCEPT ![u] = i] /\ linkedBy' = [linkedBy EXCEPT ![u] = r]
      /\ Goto(r, Op("issue", None, u, None, None))
  BY <1>1, <1>2 DEF LinkOAuthID
<1>4. PICK p \in PendingOp : p = Op("issue", None, u, None, None)
  BY DEF Op, Ops, PendingOp
<1>5. Intent(r, p)'
  BY <1>0, <1>1, <1>4 DEF Op, Intent, OnUser, Taking, Linking, Redeeming
<1>6. TypeOK'
  BY <1>0, <1>3, <1>4 DEF IInv, TypeOK, Goto, PendingOp
<1>7. RootStands' /\ TokensDated' /\ SpentIsUsed' /\ OneAccountPerAddress'
  BY <1>0 DEF IInv, RootStands, TokensDated, SpentIsUsed, OneAccountPerAddress
<1>8. Rows'
  BY <1>0, <1>1, <1>3 DEF IInv, Rows, TypeOK
<1>9. OneAccountPerIdentity'
  BY <1>2, <1>3 DEF IInv, OneAccountPerIdentity, TypeOK
<1>10. Intents'
  <2>1. ASSUME NEW q \in Requests \ {r}, Intent(q, req[q]) PROVE Intent(q, req[q])'
    <3>1. req'[q] = req[q]
      BY <1>3 DEF IInv, Goto, TypeOK
    <3>2. \A v \in Users : req[q].link # None /\ linked'[v] = req[q].link => linkedBy'[v] # q
      BY <1>3, <2>1 DEF IInv, TypeOK, Intent
    <3> QED
      BY <1>0, <2>1, <3>1, <3>2 DEF Intent
  <2> QED
    BY <1>3, <1>4, <1>5, <2>1, OthersIntend
<1> QED
  BY <1>6, <1>7, <1>8, <1>9, <1>10 DEF IInv

LEMMA SetEmailKeeps ==
    ASSUME IInv, NEW r \in Requests, SetEmail(r)
    PROVE  IInv'
<1> USE AccountsAssumption
<1>0. UNCHANGED <<status, role, password, stamp, linked, settings, codes, tokens,
                  window, now, load, setAt, linkedBy, spentBy, overtaken>>
  BY DEF SetEmail
<1>1. PICK u \in Users : u = req[r].user /\ email[u] # None /\ u # Root
  BY DEF SetEmail, IInv, Intents, Intent, OnUser
<1>2. PICK e \in Emails : /\ e = req[r].arg
                          /\ \A v \in Users : email[v] = e => takenBy[v] # r
  BY DEF SetEmail, IInv, Intents, Intent, Taking
<1>3. /\ email' = [email EXCEPT ![u] = e] /\ takenBy' = [takenBy EXCEPT ![u] = r]
      /\ Goto(r, Done) /\ e # None /\ e # AdminEmail
  BY <1>1, <1>2 DEF SetEmail
<1>4. \A v \in Users : email[v] # None => email'[v] # None
  BY <1>3 DEF IInv, TypeOK
<1>5. TypeOK'
  BY <1>0, <1>3, DoneIntent DEF IInv, TypeOK, Goto, PendingOp
<1>6. RootStands'
  BY <1>0, <1>1, <1>3 DEF IInv, RootStands, TypeOK
<1>7. Rows' /\ TokensDated' /\ SpentIsUsed' /\ OneAccountPerIdentity'
  BY <1>0, <1>4 DEF IInv, TypeOK, Token, Rows, TokensDated, SpentIsUsed, OneAccountPerIdentity
<1>8. OneAccountPerAddress'
  BY <1>2, <1>3 DEF IInv, OneAccountPerAddress, TypeOK
<1>9. Intents'
  <2>1. ASSUME NEW q \in Requests \ {r}, Intent(q, req[q]) PROVE Intent(q, req[q])'
    <3>1. req'[q] = req[q]
      BY <1>3 DEF IInv, Goto, TypeOK
    <3>2. \A v \in Users : req[q].op \in Taking /\ email'[v] = req[q].arg => takenBy'[v] # q
      BY <1>3, <2>1 DEF IInv, TypeOK, Intent
    <3> QED
      BY <1>0, <1>4, <2>1, <3>1, <3>2 DEF Intent
  <2> QED
    BY <1>3, <2>1, DoneIntent, OthersIntend
<1> QED
  BY <1>5, <1>6, <1>7, <1>8, <1>9 DEF IInv

LEMMA UpdateUserRoleKeeps ==
    ASSUME IInv, NEW r \in Requests, UpdateUserRole(r)
    PROVE  IInv'
<1> USE AccountsAssumption
<1>0. UNCHANGED <<email, status, password, stamp, linked, settings, codes, tokens,
                  window, now, load, setAt, takenBy, linkedBy, spentBy>> /\ Goto(r, Done)
  BY DEF UpdateUserRole
<1>1. PICK u \in Users : u = req[r].user /\ u # Root
  BY DEF UpdateUserRole, IInv, Intents, Intent, OnUser
<1>2. PICK new \in Roles : role' = [role EXCEPT ![u] = new]
  BY <1>1 DEF UpdateUserRole, IInv, Intents, Intent
<1>3. TypeOK'
  <2>1. overtaken' \in SUBSET Requests
    BY DEF UpdateUserRole, Overtakes, IInv, TypeOK
  <2> QED
    BY <1>0, <1>2, <2>1, DoneIntent DEF IInv, TypeOK, Goto, PendingOp
<1>4. RootStands'
  BY <1>0, <1>1, <1>2 DEF IInv, RootStands, TypeOK
<1>5. Rows' /\ TokensDated' /\ SpentIsUsed' /\ OneAccountPerAddress' /\ OneAccountPerIdentity'
  BY <1>0 DEF IInv, Rows, TokensDated, SpentIsUsed, OneAccountPerAddress,
              OneAccountPerIdentity, ghostVars
<1>6. Intents'
  <2>1. ASSUME NEW q \in Requests \ {r}, Intent(q, req[q]) PROVE Intent(q, req[q])'
    <3>1. req'[q] = req[q]
      BY <1>0 DEF IInv, Goto, TypeOK
    <3> QED
      BY <1>0, <2>1, <3>1 DEF Intent, ghostVars
  <2> QED
    BY <1>0, <2>1, DoneIntent, OthersIntend
<1> QED
  BY <1>3, <1>4, <1>5, <1>6 DEF IInv

(* What a token that is handed out now says of its account.                  *)
LEMMA IssuedKeeps ==
    ASSUME IInv, NEW u \in Users, email[u] # None, status[u] # "INVITED",
           tokens' = Issued(u),
           UNCHANGED <<rowVars, settings, codes, window, now, load, ghostVars>>,
           TypeOK => req' \in [Requests -> PendingOp], Intents'
    PROVE  IInv'
<1> USE AccountsAssumption DEF rowVars, ghostVars
<1>1. TypeOK'
  BY DEF IInv, TypeOK, Issued, Token, PendingOp
<1>2. TokensDated'
  BY DEF IInv, TokensDated, Issued, Rows, TypeOK
<1>3. RootStands' /\ Rows' /\ SpentIsUsed' /\ OneAccountPerAddress' /\ OneAccountPerIdentity'
  BY DEF IInv, RootStands, Rows, SpentIsUsed, OneAccountPerAddress, OneAccountPerIdentity
<1> QED
  BY <1>1, <1>2, <1>3 DEF IInv

LEMMA IssueKeeps ==
    ASSUME IInv, NEW r \in Requests, Issue(r)
    PROVE  IInv'
<1>0. UNCHANGED <<rowVars, settings, codes, window, now, load, ghostVars>> /\ Goto(r, Done)
  BY DEF Issue
<1>1. PICK u \in Users : /\ u = req[r].user /\ email[u] # None /\ status[u] # "INVITED"
                         /\ tokens' = Issued(u)
  BY DEF Issue, IInv, Intents, Intent, OnUser
<1>2. Intents'
  <2>1. ASSUME NEW q \in Requests \ {r}, Intent(q, req[q]) PROVE Intent(q, req[q])'
    <3>1. req'[q] = req[q]
      BY <1>0 DEF IInv, Goto, TypeOK
    <3> QED
      BY <1>0, <2>1, <3>1 DEF Intent, rowVars, ghostVars
  <2> QED
    BY <1>0, <2>1, DoneIntent, OthersIntend
<1>3. TypeOK => req' \in [Requests -> PendingOp]
  BY <1>0, DoneIntent DEF Goto, TypeOK, PendingOp
<1> QED
  BY <1>0, <1>1, <1>2, <1>3, IssuedKeeps

LEMMA SignInKeeps ==
    ASSUME IInv, NEW u \in Users, SignIn(u)
    PROVE  IInv'
<1>1. Intents'
  BY DEF IInv, Intents, Intent, SignIn, rowVars, ghostVars
<1>2. TypeOK => req' \in [Requests -> PendingOp]
  BY DEF SignIn, TypeOK, PendingOp
<1> QED
  BY <1>1, <1>2, IssuedKeeps DEF SignIn

LEMMA SignInByOAuthKeeps ==
    ASSUME IInv, NEW i \in Identities, SignInByOAuth(i)
    PROVE  IInv'
<1> USE AccountsAssumption
<1>1. Intents'
  BY DEF IInv, Intents, Intent, SignInByOAuth, rowVars, ghostVars
<1>2. TypeOK => req' \in [Requests -> PendingOp]
  BY DEF SignInByOAuth, TypeOK, PendingOp
<1>3. PICK u \in Users : linked[u] = i /\ tokens' = Issued(u)
  BY DEF SignInByOAuth, WithIdentity
<1>4. email[u] # None /\ status[u] # "INVITED"
  BY <1>3 DEF IInv, Rows
<1> QED
  BY <1>1, <1>2, <1>3, <1>4, IssuedKeeps DEF SignInByOAuth

LEMMA CreateResetCodeKeeps ==
    ASSUME IInv, NEW r \in Requests, NEW c \in Codes, CreateResetCode(r, c)
    PROVE  IInv'
<1> USE AccountsAssumption DEF rowVars, ghostVars
<1>0. UNCHANGED <<rowVars, settings, tokens, window, now, load, ghostVars>> /\ Goto(r, Done)
  BY DEF CreateResetCode
<1>1. PICK new \in Code : codes' = [codes EXCEPT ![c] = new] /\ codes[c] = None
  BY DEF CreateResetCode, IInv, Intents, Intent, OnUser, TypeOK, Code
<1>2. TypeOK'
  BY <1>0, <1>1, DoneIntent DEF IInv, TypeOK, Goto, PendingOp
<1>3. RootStands' /\ Rows' /\ TokensDated' /\ OneAccountPerAddress' /\ OneAccountPerIdentity'
  BY <1>0 DEF IInv, RootStands, Rows, TokensDated, OneAccountPerAddress, OneAccountPerIdentity
<1>4. SpentIsUsed'
  BY <1>0, <1>1 DEF IInv, SpentIsUsed, TypeOK
<1>5. Intents'
  <2>1. ASSUME NEW q \in Requests \ {r}, Intent(q, req[q]) PROVE Intent(q, req[q])'
    <3>1. req'[q] = req[q]
      BY <1>0 DEF IInv, Goto, TypeOK
    <3>2. req[q].op \in Redeeming => codes'[req[q].arg] = codes[req[q].arg]
      BY <1>1, <2>1 DEF Intent, IInv, TypeOK
    <3> QED
      BY <1>0, <2>1, <3>1, <3>2 DEF Intent, Redeeming
  <2> QED
    BY <1>0, <2>1, DoneIntent, OthersIntend
<1> QED
  BY <1>2, <1>3, <1>4, <1>5 DEF IInv

LEMMA MarkCodeAsUsedKeeps ==
    ASSUME IInv, NEW r \in Requests, MarkCodeAsUsed(r)
    PROVE  IInv'
<1> USE AccountsAssumption DEF rowVars, ghostVars
<1>0. UNCHANGED <<rowVars, settings, tokens, window, now, load, ghostVars>>
  BY DEF MarkCodeAsUsed
<1>1. PICK u \in Users, c \in Codes :
        /\ u = req[r].user /\ c = req[r].arg /\ email[u] # None
        /\ r \notin spentBy[c] /\ codes[c] # None /\ codes[c].user = u
  BY DEF MarkCodeAsUsed, IInv, Intents, Intent, OnUser, Redeeming
<1>2. PICK k \in Code : codes' = [codes EXCEPT ![c] = k] /\ k.user = u /\ k.used
  <2>1. codes[c] \in Code
    BY <1>1 DEF IInv, TypeOK
  <2>2. [codes[c] EXCEPT !.used = TRUE] \in Code
    BY <2>1 DEF Code
  <2>3. [codes[c] EXCEPT !.used = TRUE].user = u /\ [codes[c] EXCEPT !.used = TRUE].used
    BY <1>1, <2>1 DEF Code
  <2> QED
    BY <1>1, <2>2, <2>3 DEF MarkCodeAsUsed
<1>3. k # None
  OBVIOUS
<1>4. /\ codes' \in [Codes -> Code \cup {None}]
      /\ codes'[c] # None /\ codes'[c].user = u /\ codes'[c].used
      /\ \A d \in Codes \ {c} : codes'[d] = codes[d]
  BY <1>2, <1>3 DEF IInv, TypeOK
<1>5. PICK p \in PendingOp : Goto(r, p) /\ p = Op("resetByCode", None, u, c, None)
  <2>1. Op("resetByCode", None, u, c, None) \in PendingOp
    BY DEF Op, Ops, PendingOp
  <2> QED
    BY <1>1, <2>1 DEF MarkCodeAsUsed
<1>6. Intent(r, p)'
  BY <1>0, <1>1, <1>4, <1>5 DEF Op, Intent, OnUser, Taking, Linking, Redeeming
<1>7. TypeOK'
  BY <1>0, <1>4, <1>5 DEF IInv, TypeOK, Goto, PendingOp
<1>8. RootStands' /\ Rows' /\ TokensDated' /\ OneAccountPerAddress' /\ OneAccountPerIdentity'
  BY <1>0 DEF IInv, RootStands, Rows, TokensDated, OneAccountPerAddress, OneAccountPerIdentity
<1>9. SpentIsUsed'
  BY <1>0, <1>4 DEF IInv, SpentIsUsed
<1>10. Intents'
  <2>1. ASSUME NEW q \in Requests \ {r}, Intent(q, req[q]) PROVE Intent(q, req[q])'
    <3>1. req'[q] = req[q]
      BY <1>5 DEF IInv, Goto, TypeOK
    <3>2. req[q].op \in Redeeming =>
            /\ codes'[req[q].arg] # None /\ codes'[req[q].arg].user = req[q].user
            /\ codes[req[q].arg].used => codes'[req[q].arg].used
      BY <1>1, <1>4, <2>1 DEF Intent
    <3> QED
      BY <1>0, <2>1, <3>1, <3>2 DEF Intent, Redeeming
  <2> QED
    BY <1>5, <1>6, <2>1, OthersIntend
<1> QED
  BY <1>7, <1>8, <1>9, <1>10 DEF IInv

(* Steps that leave the rows alone.                                          *)
LEMMA QuietKeeps ==
    ASSUME IInv,
           UNCHANGED <<rowVars, codes, tokens, load, setAt, takenBy, linkedBy, spentBy>>,
           TypeOK => TypeOK', TypeOK => now <= now',
           \A r \in Requests : req'[r] = req[r] \/ req'[r] = Done
    PROVE  IInv'
<1> USE AccountsAssumption DEF rowVars, ghostVars
<1>1. TypeOK' /\ now \in Nat /\ now' \in Nat /\ now <= now'
  BY DEF IInv, TypeOK
<1>2. RootStands' /\ SpentIsUsed' /\ OneAccountPerAddress' /\ OneAccountPerIdentity'
  BY DEF IInv, RootStands, SpentIsUsed, OneAccountPerAddress, OneAccountPerIdentity
<1>3. Rows'
  BY <1>1 DEF IInv, Rows, TypeOK
<1>4. TokensDated'
  BY <1>1 DEF IInv, TokensDated, TypeOK, Token
<1>5. Intents'
  <2> SUFFICES ASSUME NEW r \in Requests PROVE Intent(r, req[r])'
    BY DEF Intents
  <2>1. CASE req'[r] = Done
    BY <2>1, DoneIntent
  <2>2. CASE req'[r] = req[r]
    BY <2>2 DEF IInv, Intents, Intent
  <2> QED
    BY <2>1, <2>2
<1> QED
  BY <1>1, <1>2, <1>3, <1>4, <1>5 DEF IInv

LEMMA InitIInv == Init => IInv
<1> USE AccountsAssumption
<1> SUFFICES ASSUME Init PROVE IInv
  OBVIOUS
<1>1. TypeOK
  BY DoneIntent DEF Init, TypeOK, Statuses, Roles, PendingOp
<1>2. RootStands /\ Rows /\ TokensDated /\ SpentIsUsed
  BY DEF Init, RootStands, Rows, TokensDated, SpentIsUsed
<1>3. OneAccountPerAddress /\ OneAccountPerIdentity
  BY DEF Init, OneAccountPerAddress, OneAccountPerIdentity
<1>4. Intents
  BY DoneIntent DEF Init, Intents
<1> QED
  BY <1>1, <1>2, <1>3, <1>4 DEF IInv

LEMMA NextIInv == IInv /\ [Next]_vars => IInv'
<1> SUFFICES ASSUME IInv, [Next]_vars PROVE IInv'
  OBVIOUS
<1> USE AccountsAssumption
<1>1. ASSUME NEW r \in Requests, Write(r) PROVE IInv'
  BY <1>1, CreateKeeps, UpdateUserPasswordKeeps, UpdateUserStatusKeeps, LinkOAuthIDKeeps,
     IssueKeeps, SetEmailKeeps, UpdateUserRoleKeeps, MarkCodeAsUsedKeeps, CreateResetCodeKeeps
     DEF Write
<1>2. ASSUME NEW r \in Requests, Fails(r) PROVE IInv'
  <2>1. TypeOK => TypeOK'
    BY <1>2, DoneIntent DEF Fails, TypeOK, Goto, PendingOp, rowVars, ghostVars
  <2>2. \A q \in Requests : req'[q] = req[q] \/ req'[q] = Done
    BY <1>2 DEF Fails, Goto, IInv, TypeOK
  <2> QED
    BY <1>2, <2>1, <2>2, QuietKeeps DEF Fails, TypeOK
<1>3. ASSUME NEW u \in Users, NEW new \in [external : BOOLEAN, invitations : BOOLEAN],
             UpdateSettings(u, new)
      PROVE  IInv'
  BY <1>3, QuietKeeps DEF UpdateSettings, TypeOK, rowVars, ghostVars
<1>4. ASSUME Restart PROVE IInv'
  <2>1. TypeOK => TypeOK'
    BY <1>4, DoneIntent DEF Restart, TypeOK, PendingOp, rowVars, ghostVars
  <2> QED
    BY <1>4, <2>1, QuietKeeps DEF Restart, TypeOK
<1>5. ASSUME Tick PROVE IInv'
  BY <1>5, QuietKeeps DEF Tick, TypeOK, rowVars, ghostVars
<1>6. ASSUME UNCHANGED vars PROVE IInv'
  BY <1>6, QuietKeeps DEF vars, TypeOK, rowVars, ghostVars
<1> QED
  BY <1>1, <1>2, <1>3, <1>4, <1>5, <1>6, LooksAllowed, SignInKeeps,
     SignInByOAuthKeeps DEF Next, SignInHandlers, SettingsHandler

----------------------------------------------------------------------------
(* The number of codes.  A request that is past the check holds a place for  *)
(* the code it will insert: codes and places together stay below the limit   *)
(* and one place per request.                                                *)
Asking(u) == {r \in Requests : req[r].op = "makeCode" /\ req[r].user = u}
Stored == {c \in Codes : codes[c] # None}

CodesReserved ==
    \A u \in Users :
        Cardinality(Recent(u)) + Cardinality(Asking(u)) < MaxCodes + Cardinality(Requests)

CodesInv == IsFiniteSet(Stored) /\ CodesReserved

LEMMA Counting ==
    ASSUME IsFiniteSet(Stored), NEW u \in Users
    PROVE  /\ IsFiniteSet(Recent(u)) /\ Cardinality(Recent(u)) \in Nat
           /\ IsFiniteSet(Asking(u)) /\ Cardinality(Asking(u)) \in Nat
           /\ Cardinality(Requests) \in Nat /\ Cardinality(Asking(u)) <= Cardinality(Requests)
<1>1. Recent(u) \in SUBSET Stored /\ Asking(u) \in SUBSET Requests
  BY DEF Recent, Stored, Asking
<1>2. IsFiniteSet(Recent(u)) /\ IsFiniteSet(Asking(u))
      /\ Cardinality(Asking(u)) <= Cardinality(Requests)
  BY <1>1, FS_Subset, RequestsAssumption
<1> QED
  BY <1>2, FS_CardinalityType, RequestsAssumption

\* No code is added, and nobody new is about to add one.
LEMMA FewerKeep ==
    ASSUME CodesInv, IsFiniteSet(Stored'), NEW u \in Users,
           Recent(u)' \subseteq Recent(u), Asking(u)' \subseteq Asking(u)
    PROVE  (Cardinality(Recent(u)) + Cardinality(Asking(u)))' < MaxCodes + Cardinality(Requests)
<1>1. /\ IsFiniteSet(Recent(u)) /\ Cardinality(Recent(u)) \in Nat
      /\ IsFiniteSet(Asking(u)) /\ Cardinality(Asking(u)) \in Nat
      /\ Cardinality(Requests) \in Nat
  BY Counting DEF CodesInv
<1>2. /\ IsFiniteSet(Recent(u)') /\ Cardinality(Recent(u)') <= Cardinality(Recent(u))
      /\ IsFiniteSet(Asking(u)') /\ Cardinality(Asking(u)') <= Cardinality(Asking(u))
  BY <1>1, FS_Subset
<1>3. Cardinality(Recent(u)') \in Nat /\ Cardinality(Asking(u)') \in Nat
  BY <1>2, FS_CardinalityType
<1> QED
  BY <1>1, <1>2, <1>3, AccountsAssumption DEF CodesInv, CodesReserved

\* A request that asks passed the check, so there is room for every request.
LEMMA AskKeeps ==
    ASSUME CodesInv, NEW u \in Users, MayAsk(u), UNCHANGED <<codes, now>>
    PROVE  (Cardinality(Recent(u)) + Cardinality(Asking(u)))' < MaxCodes + Cardinality(Requests)
<1>1. /\ IsFiniteSet(Stored) /\ Cardinality(Recent(u)) \in Nat /\ Cardinality(Requests) \in Nat
  BY Counting DEF CodesInv
<1>2. Recent(u)' = Recent(u)
  BY DEF Recent
<1>3. Asking(u)' \in SUBSET Requests
  BY DEF Asking
<1>4. IsFiniteSet(Asking(u)') /\ Cardinality(Asking(u)') <= Cardinality(Requests)
  BY <1>3, FS_Subset, RequestsAssumption
<1>5. Cardinality(Asking(u)') \in Nat
  BY <1>4, FS_CardinalityType
<1> QED
  BY <1>1, <1>2, <1>4, <1>5, AccountsAssumption DEF MayAsk

LEMMA OneMore ==
    ASSUME NEW S, NEW x, IsFiniteSet(S), NEW T, T \in SUBSET (S \cup {x})
    PROVE  IsFiniteSet(T) /\ Cardinality(T) \in Nat /\ Cardinality(T) <= Cardinality(S) + 1
<1>1. /\ IsFiniteSet(S \cup {x})
      /\ Cardinality(S \cup {x}) = IF x \in S THEN Cardinality(S) ELSE Cardinality(S) + 1
  BY FS_AddElement
<1>2. IsFiniteSet(T) /\ Cardinality(T) <= Cardinality(S \cup {x})
  BY <1>1, FS_Subset
<1>3. Cardinality(S) \in Nat /\ Cardinality(T) \in Nat /\ Cardinality(S \cup {x}) \in Nat
  BY <1>1, <1>2, FS_CardinalityType
<1> QED
  BY <1>1, <1>2, <1>3

\* The insertion uses the place its request held.
LEMMA InsertKeeps ==
    ASSUME CodesInv, TypeOK, NEW r \in Requests, NEW c \in Codes, CreateResetCode(r, c),
           NEW u \in Users
    PROVE  /\ IsFiniteSet(Stored')
           /\ (Cardinality(Recent(u)) + Cardinality(Asking(u)))' < MaxCodes + Cardinality(Requests)
<1> DEFINE new == [user |-> req[r].user, born |-> now, used |-> FALSE]
<1>1. /\ codes' = [codes EXCEPT ![c] = new] /\ now' = now /\ codes[c] = None
      /\ req' = [req EXCEPT ![r] = Done] /\ req[r].op = "makeCode"
  BY DEF CreateResetCode, Goto
<1>2. Stored' \in SUBSET (Stored \cup {c})
  BY <1>1 DEF Stored, TypeOK
<1>3. IsFiniteSet(Stored')
  BY <1>2, OneMore DEF CodesInv
<1>4. Asking(u)' = IF req[r].user = u THEN Asking(u) \ {r} ELSE Asking(u)
  BY <1>1 DEF Asking, TypeOK, Done
<1>5. CASE req[r].user # u
  <2>1. Recent(u)' \subseteq Recent(u)
    BY <1>1, <1>5 DEF Recent, TypeOK
  <2> QED
    BY <1>3, <1>4, <1>5, <2>1, FewerKeep
<1>6. CASE req[r].user = u
  <2>1. /\ IsFiniteSet(Recent(u)) /\ Cardinality(Recent(u)) \in Nat
        /\ IsFiniteSet(Asking(u)) /\ Cardinality(Asking(u)) \in Nat /\ Cardinality(Requests) \in Nat
    BY Counting DEF CodesInv
  <2>2. r \in Asking(u)
    BY <1>1, <1>6 DEF Asking
  <2>3. Cardinality(Asking(u)') = Cardinality(Asking(u)) - 1
    <3>1. Asking(u)' = Asking(u) \ {r}
      BY <1>4, <1>6
    <3>2. Cardinality(Asking(u) \ {r}) = Cardinality(Asking(u)) - 1
      BY <2>1, <2>2, FS_RemoveElement
    <3>3. QED
      BY <3>1, <3>2
  <2>4. Recent(u)' \in SUBSET (Recent(u) \cup {c})
    BY <1>1 DEF Recent, TypeOK
  <2>5. Cardinality(Recent(u)') \in Nat /\ Cardinality(Recent(u)') <= Cardinality(Recent(u)) + 1
    BY <2>1, <2>4, OneMore
  <2> QED
    BY <1>3, <2>1, <2>3, <2>5, AccountsAssumption DEF CodesInv, CodesReserved
<1> QED
  BY <1>5, <1>6

\* What a step does to codes, to the clock and to those who are about to insert.
LEMMA CodeCases ==
    ASSUME IInv, [Next]_vars
    PROVE  \/ /\ UNCHANGED <<codes, now>>
              /\ \A q \in Requests : req'[q] = req[q] \/ req'[q].op # "makeCode"
           \/ /\ UNCHANGED <<codes, now>>
              /\ \E r \in Requests, u \in Users :
                    MayAsk(u) /\ Goto(r, Op("makeCode", None, u, None, None))
           \/ \E r \in Requests, c \in Codes : CreateResetCode(r, c)
           \/ \E r \in Requests : MarkCodeAsUsed(r)
           \/ Tick
<1> DEFINE Elsewhere ==
        /\ UNCHANGED <<codes, now>>
        /\ \A q \in Requests : req'[q] = req[q] \/ req'[q].op # "makeCode"
<1>0. ASSUME NEW r \in Requests, NEW p, p.op # "makeCode", Goto(r, p), UNCHANGED <<codes, now>>
      PROVE  Elsewhere
  BY <1>0 DEF Goto, IInv, TypeOK
<1>1. ASSUME NEW r \in Requests, Look(r), ~ResetHandlers(r) PROVE Elsewhere
  <2> HIDE DEF Elsewhere
  <2>1. \E p : p.op # "makeCode" /\ Goto(r, p)
    BY <1>1 DEF Look, SignUpHandler, OAuthHandlers, PasswordHandlers, ProfileHandlers, CommandLine,
         ManagementHandlers, SignUp, HandleOAuth, InviteUser, UpdateUserInfo, ChangePassword,
         SetRootAdminPassword, ChangeUserPasswordByEmail, ChangeUserStatus, ChangeUserRole, Op,
         FirstOfLink
  <2>2. UNCHANGED <<codes, now>>
    BY <1>1 DEF Look, SignUpHandler, OAuthHandlers, PasswordHandlers, ProfileHandlers, CommandLine,
         ManagementHandlers, SignUp, HandleOAuth, InviteUser, UpdateUserInfo, ChangePassword,
         SetRootAdminPassword, ChangeUserPasswordByEmail, ChangeUserStatus, ChangeUserRole, Looks
  <2> QED
    BY <1>0, <2>1, <2>2
<1>2. ASSUME NEW r \in Requests, NEW e \in Emails, SendResetPasswordCode(r, e)
      PROVE  \/ Elsewhere
             \/ /\ UNCHANGED <<codes, now>>
                /\ \E u \in Users : MayAsk(u) /\ Goto(r, Op("makeCode", None, u, None, None))
  BY <1>2 DEF SendResetPasswordCode, Looks, WithEmail
<1>3. ASSUME NEW r \in Requests, NEW e \in Emails, NEW c \in Codes,
             ResetPassword(r, e, c)
      PROVE  Elsewhere
  <2> HIDE DEF Elsewhere
  <2>1. \E p : p.op # "makeCode" /\ Goto(r, p)
    BY <1>3 DEF ResetPassword, Op
  <2> QED
    BY <1>0, <1>3, <2>1 DEF ResetPassword, Looks
<1>4. ASSUME NEW r \in Requests, Write(r)
      PROVE  \/ Elsewhere
             \/ \E c \in Codes : CreateResetCode(r, c)
             \/ MarkCodeAsUsed(r)
  <2> HIDE DEF Elsewhere
  <2>1. CASE \/ \E u \in Users : Create(r, u)
             \/ UpdateUserPassword(r) \/ UpdateUserStatus(r) \/ LinkOAuthID(r) \/ Issue(r)
             \/ SetEmail(r) \/ UpdateUserRole(r)
    <3>1. \E p : p.op # "makeCode" /\ Goto(r, p)
      BY <2>1 DEF Create, UpdateUserPassword, UpdateUserStatus, LinkOAuthID, Issue, SetEmail,
           UpdateUserRole, Op, Done
    <3>2. UNCHANGED <<codes, now>>
      BY <2>1 DEF Create, UpdateUserPassword, UpdateUserStatus, LinkOAuthID, Issue, SetEmail,
           UpdateUserRole
    <3> QED
      BY <1>0, <3>1, <3>2
  <2> QED
    BY <1>4, <2>1 DEF Write
<1>5. ASSUME \/ \E r \in Requests : Fails(r)
             \/ SignInHandlers \/ SettingsHandler \/ Restart \/ UNCHANGED vars
      PROVE  Elsewhere
  <2>1. UNCHANGED <<codes, now>>
    BY <1>5 DEF Fails, SignInHandlers, SignIn, SignInByOAuth, SettingsHandler, UpdateSettings,
         Restart, vars
  <2>2. \A q \in Requests : req'[q] = req[q] \/ req'[q] = Done
    BY <1>5 DEF Fails, SignInHandlers, SignIn, SignInByOAuth, SettingsHandler, UpdateSettings,
         Restart, vars, Goto, IInv, TypeOK
  <2> QED
    BY <2>1, <2>2 DEF Done
<1> HIDE DEF Elsewhere
<1>6. CASE \E r \in Requests : Look(r)
  <2>1. PICK r \in Requests : Look(r)
    BY <1>6
  <2>2. CASE ~ResetHandlers(r)
    BY <1>1, <2>1, <2>2 DEF Elsewhere
  <2>3. CASE ResetHandlers(r)
    BY <1>2, <1>3, <2>3 DEF ResetHandlers, Elsewhere
  <2> QED
    BY <2>2, <2>3
<1>7. CASE \E r \in Requests : Write(r)
  BY <1>4, <1>7 DEF Elsewhere
<1> QED
  BY <1>5, <1>6, <1>7 DEF Next, Elsewhere

LEMMA CodesInvStep == IInv /\ CodesInv /\ [Next]_vars => CodesInv'
<1> SUFFICES ASSUME IInv, CodesInv, [Next]_vars PROVE CodesInv'
  OBVIOUS
<1>1. TypeOK /\ IsFiniteSet(Stored)
  BY DEF IInv, CodesInv
<1>2. ASSUME IsFiniteSet(Stored'),
             \A u \in Users : Recent(u)' \subseteq Recent(u) /\ Asking(u)' \subseteq Asking(u)
      PROVE  CodesInv'
  BY <1>2, FewerKeep DEF CodesInv, CodesReserved
<1>3. CASE /\ UNCHANGED <<codes, now>>
           /\ \A q \in Requests : req'[q] = req[q] \/ req'[q].op # "makeCode"
  <2>1. Stored' = Stored /\ \A u \in Users : Recent(u)' = Recent(u)
    BY <1>3 DEF Stored, Recent
  <2>2. \A u \in Users : Asking(u)' \subseteq Asking(u)
    BY <1>3 DEF Asking
  <2> QED
    BY <1>1, <1>2, <2>1, <2>2
<1>4. CASE /\ UNCHANGED <<codes, now>>
           /\ \E r \in Requests, u \in Users :
                 MayAsk(u) /\ Goto(r, Op("makeCode", None, u, None, None))
  <2>1. PICK r \in Requests, v \in Users :
           MayAsk(v) /\ Goto(r, Op("makeCode", None, v, None, None))
    BY <1>4
  <2>2. Stored' = Stored /\ \A u \in Users : Recent(u)' = Recent(u)
    BY <1>4 DEF Stored, Recent
  <2>3. ASSUME NEW u \in Users \ {v} PROVE Asking(u)' \subseteq Asking(u)
    BY <1>1, <2>1, <2>3 DEF Asking, Goto, Op, TypeOK
  <2> QED
    BY <1>1, <1>4, <2>1, <2>2, <2>3, AskKeeps, FewerKeep DEF CodesInv, CodesReserved
<1>5. CASE \E r \in Requests, c \in Codes : CreateResetCode(r, c)
  <2>1. PICK r \in Requests, c \in Codes : CreateResetCode(r, c)
    BY <1>5
  <2>2. /\ codes' = [codes EXCEPT ![c] = [user |-> req[r].user, born |-> now, used |-> FALSE]]
    BY <2>1 DEF CreateResetCode
  <2>3. Stored' \subseteq Stored \cup {c}
    BY <1>1, <2>2 DEF Stored, TypeOK
  <2>4. IsFiniteSet(Stored')
    BY <1>1, <2>3, OneMore
  <2>5. ASSUME NEW u \in Users
        PROVE  (Cardinality(Recent(u)) + Cardinality(Asking(u)))'
                  < MaxCodes + Cardinality(Requests)
    BY <1>1, <2>1, InsertKeeps
  <2> QED
    BY <2>4, <2>5 DEF CodesInv, CodesReserved
<1>6. CASE \E r \in Requests : MarkCodeAsUsed(r)
  <2>1. PICK r \in Requests : MarkCodeAsUsed(r)
    BY <1>6
  <2>2. PICK c \in Codes :
           codes[c] # None /\ codes' = [codes EXCEPT ![c].used = TRUE] /\ now' = now
    BY <2>1 DEF MarkCodeAsUsed, IInv, Intents, Intent, Redeeming
  <2>3. /\ codes[c] \in Code /\ codes'[c] = [codes[c] EXCEPT !.used = TRUE]
        /\ \A d \in Codes \ {c} : codes'[d] = codes[d]
    BY <1>1, <2>2 DEF TypeOK
  <2>4. codes'[c].user = codes[c].user /\ codes'[c].born = codes[c].born
    BY <2>3 DEF Code
  <2>5. Stored' \in SUBSET Stored /\ \A u \in Users : Recent(u)' \subseteq Recent(u)
    BY <2>2, <2>3, <2>4 DEF Stored, Recent
  <2>6. \A u \in Users : Asking(u)' \subseteq Asking(u)
    BY <1>1, <2>1 DEF MarkCodeAsUsed, Asking, Goto, Op, TypeOK
  <2> QED
    BY <1>1, <1>2, <2>5, <2>6, FS_Subset
<1>7. CASE Tick
  <2>1. UNCHANGED <<codes, req>> /\ now' = now + 1 /\ now \in Nat
    BY <1>1, <1>7 DEF Tick, TypeOK
  <2>2. Stored' = Stored /\ \A u \in Users : Asking(u)' = Asking(u)
    BY <2>1 DEF Stored, Asking
  <2>3. ASSUME NEW u \in Users PROVE Recent(u)' \subseteq Recent(u)
    BY <1>1, <2>1, AccountsAssumption DEF Recent, TypeOK, Code
  <2> QED
    BY <1>1, <1>2, <2>2, <2>3
<1> QED
  BY <1>3, <1>4, <1>5, <1>6, <1>7, CodeCases

LEMMA CodesInvInit == Init => CodesInv
<1> SUFFICES ASSUME Init PROVE CodesInv
  OBVIOUS
<1>1. Stored = {} /\ \A u \in Users : Recent(u) = {}
  BY DEF Init, Stored, Recent
<1>2. ASSUME NEW u \in Users PROVE Asking(u) = {}
  <2>1. \A r \in Requests : req[r].op = "done"
    BY DEF Init, Done
  <2> QED
    BY <2>1 DEF Asking
<1>3. Cardinality({}) = 0 /\ IsFiniteSet({})
  BY FS_EmptySet
<1>4. Cardinality(Requests) \in Nat
  BY FS_CardinalityType, RequestsAssumption
<1>5. \A u \in Users : Cardinality(Recent(u)) = 0 /\ Cardinality(Asking(u)) = 0
  BY <1>1, <1>2, <1>3
<1>6. CodesReserved
  BY <1>4, <1>5, AccountsAssumption DEF CodesReserved
<1> QED
  BY <1>1, <1>3, <1>6 DEF CodesInv

----------------------------------------------------------------------------
(* What a request is about to make of a status: Decided says that its look   *)
(* still holds unless another request wrote the account's status or role.    *)

\* What statement p of a request relies on in the row it is about to write.
StillHolds(p) ==
    /\ p.op \in Deciding \ {"setStatus"} => status[p.user] = "INVITED"
    /\ p.op = "setStatus" /\ role[p.user] = "ADMIN" => p.by = Root

Decided ==
    /\ \A r \in Requests \ overtaken : StillHolds(req[r])
    /\ \A r \in overtaken : req[r].op \in Deciding

LEMMA DoneHolds == StillHolds(Done) /\ StillHolds(Done)' /\ Done.op \notin Deciding
  BY DEF StillHolds, Done, Deciding

\* What a look decides holds when it looks.
LEMMA LooksHold ==
    ASSUME IInv, Decided, NEW r \in Requests, Look(r)
    PROVE  /\ UNCHANGED <<status, role, overtaken>>
           /\ \/ UNCHANGED req
              \/ /\ req[r] = Done
                 /\ \E p : Goto(r, p) /\ StillHolds(p)
<1> DEFINE Right ==
        /\ UNCHANGED <<status, role, overtaken>>
        /\ \/ UNCHANGED req
           \/ req[r] = Done /\ \E p : Goto(r, p) /\ StillHolds(p)
<1>0. /\ \A op, by, u, arg, i : op \notin Deciding => StillHolds(Op(op, by, u, arg, i))
      /\ \A op, by, u, arg, i : op # "setStatus" /\ status[u] = "INVITED"
                                    => StillHolds(Op(op, by, u, arg, i))
  BY DEF StillHolds, Deciding, Op
<1> USE DEF Looks, rowVars, ghostVars, Deciding
<1>1. ASSUME NEW e, SignUp(r, e) PROVE Right
  <2>1. \E p : Goto(r, p) /\ StillHolds(p)
    BY <1>0, <1>1 DEF SignUp
  <2> QED
    BY <1>1, <2>1 DEF SignUp
<1>2. ASSUME NEW e, NEW i, HandleOAuth(r, i, e) PROVE Right
  <2>1. \A u : StillHolds(Op(FirstOfLink(u), None, u, None, i))
    BY <1>0 DEF FirstOfLink
  <2>2. \E p : Goto(r, p) /\ StillHolds(p)
    BY <1>0, <1>2, <2>1 DEF HandleOAuth
  <2> QED
    BY <1>2, <2>2 DEF HandleOAuth
<1>3. ASSUME NEW e, NEW u, InviteUser(r, u, e) \/ UpdateUserInfo(r, u, e) PROVE Right
  BY <1>0, <1>3 DEF InviteUser, UpdateUserInfo
<1>4. ASSUME NEW u, ChangePassword(r, u) \/ SetRootAdminPassword(r) PROVE Right
  BY <1>0, <1>4 DEF ChangePassword, SetRootAdminPassword
<1>5. ASSUME NEW e, ChangeUserPasswordByEmail(r, e) \/ SendResetPasswordCode(r, e) PROVE Right
  BY <1>0, <1>5 DEF ChangeUserPasswordByEmail, SendResetPasswordCode
<1>6. ASSUME NEW e, NEW c, ResetPassword(r, e, c) PROVE Right
  BY <1>0, <1>6 DEF ResetPassword
<1>7. ASSUME NEW by \in Users, NEW u \in Users, NEW new, ChangeUserStatus(r, by, u, new)
      PROVE  Right
  <2>1. role[u] = "ADMIN" => by = Root
    BY <1>7 DEF ChangeUserStatus, IInv, RootStands
  <2> QED
    BY <1>7, <2>1 DEF ChangeUserStatus, StillHolds, Op
<1>8. ASSUME NEW by, NEW u, NEW new, ChangeUserRole(r, by, u, new) PROVE Right
  BY <1>0, <1>8 DEF ChangeUserRole
<1> HIDE DEF Right
<1>9. Right
  BY <1>1, <1>2, <1>3, <1>4, <1>5, <1>6, <1>7, <1>8
     DEF Look, SignUpHandler, OAuthHandlers, PasswordHandlers, ProfileHandlers,
         ResetHandlers, CommandLine, ManagementHandlers
<1> QED
  BY <1>9 DEF Right

\* A step after which the others find their accounts as they were.
LEMMA OthersStillHold ==
    ASSUME IInv, Decided, NEW r \in Requests, NEW p, Goto(r, p), StillHolds(p)',
           p.op \in Deciding \/ r \notin overtaken',
           \/ overtaken' = overtaken
           \/ overtaken' = overtaken \ {r},
           \A q \in Requests \ {r} : StillHolds(req[q]) => StillHolds(req[q])'
    PROVE  Decided'
<1>1. req'[r] = p /\ \A q \in Requests \ {r} : req'[q] = req[q]
  BY DEF Goto, IInv, TypeOK
<1>2. overtaken \subseteq Requests
  BY DEF IInv, TypeOK
<1>3. ASSUME NEW q \in Requests \ overtaken' PROVE StillHolds(req[q])'
  <2>1. CASE q = r
    BY <1>1, <2>1 DEF StillHolds
  <2>2. CASE q # r
    BY <1>1, <1>3, <2>2 DEF Decided
  <2> QED
    BY <2>1, <2>2
<1>4. ASSUME NEW q \in overtaken' PROVE req'[q].op \in Deciding
  BY <1>1, <1>2, <1>4 DEF Decided
<1> QED
  BY <1>3, <1>4 DEF Decided, Deciding

\* A write of the status or the role of u by r: whoever decided on u is marked.
LEMMA OvertakenMarked ==
    ASSUME IInv, Decided, NEW r \in Requests, NEW u, NEW p, Goto(r, p), p.op \notin Deciding,
           Overtakes(r, u), status' \in [Users -> Statuses], role' \in [Users -> Roles],
           \A v \in Users \ {u} : status'[v] = status[v] /\ role'[v] = role[v]
    PROVE  Decided'
<1>1. req'[r] = p /\ \A q \in Requests \ {r} : req'[q] = req[q]
  BY DEF Goto, IInv, TypeOK
<1>2. /\ overtaken' = (overtaken \cup {o \in Requests : req[o].op \in Deciding
                                                     /\ req[o].user = u}) \ {r}
      /\ overtaken \subseteq Requests
  BY DEF Overtakes, IInv, TypeOK
<1>3. ASSUME NEW q \in Requests \ overtaken' PROVE StillHolds(req[q])'
  <2>1. CASE q = r
    BY <1>1, <2>1 DEF StillHolds, Deciding
  <2>2. CASE q # r /\ req[q].op \in Deciding
    <3>1. q \notin overtaken /\ req[q].user # u
      BY <1>2, <1>3, <2>2
    <3>2. req[q].user \in Users /\ StillHolds(req[q])
      BY <2>2, <3>1 DEF Decided, IInv, Intents, Intent, OnUser, Deciding
    <3> QED
      BY <1>1, <2>2, <3>1, <3>2 DEF StillHolds
  <2>3. CASE q # r /\ req[q].op \notin Deciding
    BY <1>1, <2>3 DEF StillHolds, Deciding
  <2> QED
    BY <2>1, <2>2, <2>3
<1>4. ASSUME NEW q \in overtaken' PROVE req'[q].op \in Deciding
  BY <1>1, <1>2, <1>4 DEF Decided
<1> QED
  BY <1>3, <1>4 DEF Decided

\* Every write keeps Decided: it is about no status, or it marks whom it
\* overtakes, or it makes an account nobody has decided on yet.
LEMMA WritesDecided ==
    ASSUME IInv, Decided, NEW r \in Requests, Write(r)
    PROVE  Decided'
<1> USE DEF rowVars, ghostVars
<1>0. /\ overtaken \subseteq Requests /\ status \in [Users -> Statuses]
      /\ role \in [Users -> Roles]
      /\ \A q \in Requests : req[q].op \in Deciding =>
            req[q].user \in Users /\ email[req[q].user] # None
  BY DEF IInv, TypeOK, Intents, Intent, OnUser, Deciding
<1>1. \A op, by, u, arg, i : Op(op, by, u, arg, i).op = op
  BY DEF Op
<1>2. ASSUME NEW p, Goto(r, p), p.op \notin Deciding, req[r].op \notin Deciding,
             UNCHANGED <<status, role, overtaken>>
      PROVE  Decided'
  <2>1. r \notin overtaken
    BY <1>2 DEF Decided
  <2>2. StillHolds(p)'
    BY <1>2 DEF StillHolds, Deciding
  <2>3. \A q \in Requests \ {r} : StillHolds(req[q]) => StillHolds(req[q])'
    BY <1>2 DEF StillHolds, Goto, IInv, TypeOK
  <2> QED
    BY <1>2, <2>1, <2>2, <2>3, OthersStillHold
<1>3. ASSUME \/ LinkOAuthID(r) \/ Issue(r) \/ SetEmail(r) \/ MarkCodeAsUsed(r)
             \/ \E c \in Codes : CreateResetCode(r, c)
      PROVE  Decided'
  <2>1. req[r].op \notin Deciding /\ UNCHANGED <<status, role, overtaken>>
    BY <1>3 DEF LinkOAuthID, Issue, SetEmail, MarkCodeAsUsed, CreateResetCode, Deciding
  <2>2. \E p : Goto(r, p) /\ p.op \notin Deciding
    BY <1>1, <1>3, DoneHolds DEF LinkOAuthID, Issue, SetEmail, MarkCodeAsUsed,
       CreateResetCode, Deciding
  <2> QED
    BY <1>2, <2>1, <2>2
<1>4. ASSUME NEW u \in Users, Create(r, u) PROVE Decided'
  <2>1. r \notin overtaken /\ Goto(r, Done) /\ email[u] = None /\ overtaken' = overtaken
    BY <1>4 DEF Create, Decided, Deciding
  <2>2. \A v \in Users \ {u} : status'[v] = status[v] /\ role'[v] = role[v]
    BY <1>0, <1>4 DEF Create
  <2>3. ASSUME NEW q \in Requests \ {r}, StillHolds(req[q]) PROVE StillHolds(req[q])'
    <3>1. req'[q] = req[q]
      BY <2>1 DEF Goto, IInv, TypeOK
    <3> QED
      BY <1>0, <2>1, <2>2, <2>3, <3>1 DEF StillHolds, Deciding
  <2> QED
    BY <2>1, <2>3, DoneHolds, OthersStillHold
<1>5. ASSUME UpdateUserPassword(r) PROVE Decided'
  <2>1. UNCHANGED <<status, role, overtaken>>
    BY <1>5 DEF UpdateUserPassword
  <2>2. CASE req[r].op = "invitedPassword"
    <3> DEFINE p == Op("activateInvited", None, req[r].user, None, None)
    <3>1. Goto(r, p)
      BY <1>5, <2>2 DEF UpdateUserPassword
    <3>2. req' = [req EXCEPT ![r] = p] /\ p.op = "activateInvited" /\ p.user = req[r].user
      BY <3>1 DEF Goto, Op
    <3> HIDE DEF p
    <3>3. req'[r] = p /\ \A q \in Requests \ {r} : req'[q] = req[q]
      BY <3>2 DEF IInv, TypeOK
    <3>4. StillHolds(req[r]) => StillHolds(req[r])'
      BY <2>1, <2>2, <3>2, <3>3 DEF StillHolds, Deciding
    <3>5. \A q \in Requests \ {r} : StillHolds(req[q]) => StillHolds(req[q])'
      BY <2>1, <3>3 DEF StillHolds
    <3>6. \A q \in Requests : req[q].op \in Deciding => req'[q].op \in Deciding
      BY <3>2, <3>3 DEF Deciding
    <3> QED
      BY <1>0, <2>1, <3>4, <3>5, <3>6 DEF Decided
  <2>3. CASE req[r].op # "invitedPassword"
    <3>1. Goto(r, Done) /\ req[r].op \notin Deciding
      BY <1>5, <2>3 DEF UpdateUserPassword, Deciding
    <3> QED
      BY <1>2, <2>1, <3>1, DoneHolds
  <2> QED
    BY <2>2, <2>3
<1>6. ASSUME UpdateUserStatus(r) PROVE Decided'
  <2>1. PICK u \in Users : u = req[r].user
    BY <1>0, <1>6 DEF UpdateUserStatus, Deciding
  <2>2. \E p : Goto(r, p) /\ p.op \notin Deciding
    BY <1>1, <1>6, DoneHolds DEF UpdateUserStatus, Deciding
  <2>3. status' \in [Users -> Statuses] /\ \A v \in Users \ {u} : status'[v] = status[v]
    <3>1. PICK new \in Statuses : status' = [status EXCEPT ![u] = new]
      BY <1>6, <2>1 DEF UpdateUserStatus, IInv, Intents, Intent, Statuses
    <3> QED
      BY <1>0, <3>1
  <2>4. role' = role /\ Overtakes(r, u)
    BY <1>6, <2>1 DEF UpdateUserStatus
  <2> QED
    BY <1>0, <2>2, <2>3, <2>4, OvertakenMarked
<1>7. ASSUME UpdateUserRole(r) PROVE Decided'
  <2>1. PICK u \in Users : u = req[r].user
    BY <1>7 DEF UpdateUserRole, IInv, Intents, Intent, OnUser
  <2>2. role' \in [Users -> Roles] /\ \A v \in Users \ {u} : role'[v] = role[v]
    <3>1. PICK new \in Roles : role' = [role EXCEPT ![u] = new]
      BY <1>7, <2>1 DEF UpdateUserRole, IInv, Intents, Intent
    <3> QED
      BY <1>0, <3>1
  <2>3. status' = status /\ Overtakes(r, u) /\ Goto(r, Done)
    BY <1>7, <2>1 DEF UpdateUserRole
  <2> QED
    BY <1>0, <2>2, <2>3, DoneHolds, OvertakenMarked
<1> QED
  BY <1>3, <1>4, <1>5, <1>6, <1>7 DEF Write

LEMMA DecidedStep == IInv /\ Decided /\ [Next]_vars => Decided'
<1> SUFFICES ASSUME IInv, Decided, [Next]_vars PROVE Decided'
  OBVIOUS
<1> USE DEF rowVars, ghostVars
<1>1. overtaken \subseteq Requests
  BY DEF IInv, TypeOK
<1>2. ASSUME UNCHANGED <<status, role>>, overtaken' \subseteq overtaken,
             \A q \in Requests :
                \/ req'[q] = req[q] /\ (q \in overtaken => q \in overtaken')
                \/ req'[q] = Done /\ q \notin overtaken'
      PROVE  Decided'
  <2>1. ASSUME NEW q \in Requests \ overtaken' PROVE StillHolds(req[q])'
    BY <1>2, DoneHolds DEF Decided, StillHolds
  <2>2. ASSUME NEW q \in overtaken' PROVE req'[q].op \in Deciding
    BY <1>1, <1>2, <2>2 DEF Decided
  <2> QED
    BY <2>1, <2>2 DEF Decided
<1>3. ASSUME NEW r \in Requests, Look(r) PROVE Decided'
  <2>1. UNCHANGED <<status, role, overtaken>>
    BY <1>3, LooksHold
  <2>2. CASE UNCHANGED req
    BY <1>2, <2>1, <2>2
  <2>3. CASE req[r] = Done /\ \E p : Goto(r, p) /\ StillHolds(p)
    <3>1. PICK p : Goto(r, p) /\ StillHolds(p)
      BY <2>3
    <3>2. req'[r] = p /\ \A q \in Requests \ {r} : req'[q] = req[q]
      BY <3>1 DEF Goto, IInv, TypeOK
    <3>3. r \notin overtaken
      BY <2>3, DoneHolds DEF Decided
    <3>4. StillHolds(p)' /\ \A q \in Requests \ {r} : StillHolds(req[q]) => StillHolds(req[q])'
      BY <2>1, <3>1, <3>2 DEF StillHolds
    <3> QED
      BY <2>1, <3>1, <3>3, <3>4, OthersStillHold
  <2> QED
    BY <1>3, <2>2, <2>3, LooksHold
<1>4. ASSUME NEW r \in Requests, Fails(r) PROVE Decided'
  <2>1. req'[r] = Done /\ \A q \in Requests \ {r} : req'[q] = req[q]
    BY <1>4 DEF Fails, Goto, IInv, TypeOK
  <2> QED
    BY <1>2, <1>4, <2>1 DEF Fails
<1>5. ASSUME Restart PROVE Decided'
  BY <1>2, <1>5 DEF Restart
<1>6. CASE SignInHandlers \/ SettingsHandler \/ Tick \/ UNCHANGED vars
  BY <1>2, <1>6 DEF SignInHandlers, SignIn, SignInByOAuth, SettingsHandler, UpdateSettings,
     Tick, vars
<1> QED
  BY <1>3, <1>4, <1>5, <1>6, WritesDecided DEF Next

LEMMA DecidedInit == Init => Decided
  BY DoneHolds DEF Init, Decided

----------------------------------------------------------------------------

\* The inductive invariant holds in every reachable state.
THEOREM Invariance == Spec => []IInv
  BY InitIInv, NextIInv, PTL DEF Spec

\* Every reachable state is well typed, for every number of accounts, requests,
\* addresses and codes.
THEOREM Types == Spec => []TypeOK
<1>1. IInv => TypeOK
  BY DEF IInv
<1> QED
  BY <1>1, Invariance, PTL

\* The root account stays an active administrator and the only "admin", whatever
\* requests run together and wherever they are interrupted.
THEOREM RootStandsAlways == Spec => []RootStands
<1>1. IInv => RootStands
  BY DEF IInv
<1> QED
  BY <1>1, Invariance, PTL

\* A token older than the last second in which the password was set is refused.
THEOREM StaleTokensRejected == Spec => []StaleTokenRejected
<1>1. IInv => StaleTokenRejected
  <2> SUFFICES ASSUME IInv, NEW t \in tokens, t.since < setAt[t.user] PROVE ~Accepts(t)
    BY DEF StaleTokenRejected
  <2>1. t.user \in Users /\ t.stamp \in Nat /\ t.since \in Nat
    BY DEF IInv, TypeOK, Token
  <2>2. t.stamp <= t.since /\ setAt[t.user] = stamp[t.user] /\ stamp[t.user] \in Nat
    BY <2>1 DEF IInv, TokensDated, Rows, TypeOK
  <2> QED
    BY <2>1, <2>2 DEF Accepts
<1> QED
  BY <1>1, Invariance, PTL

\* No token of an account that waits for its owner is ever handed out.
THEOREM InvitedWithoutToken == Spec => []InvitedHoldsNoToken
<1>1. IInv => InvitedHoldsNoToken
  BY DEF IInv, TokensDated, InvitedHoldsNoToken
<1> QED
  BY <1>1, Invariance, PTL

\* Two accounts share an address only by requests that overlapped.
THEOREM AddressesDistinct == Spec => []OneAccountPerAddress
<1>1. IInv => OneAccountPerAddress
  BY DEF IInv
<1> QED
  BY <1>1, Invariance, PTL

\* Two accounts are linked to one identity only by requests that overlapped.
THEOREM IdentitiesDistinct == Spec => []OneAccountPerIdentity
<1>1. IInv => OneAccountPerIdentity
  BY DEF IInv
<1> QED
  BY <1>1, Invariance, PTL

\* Codes and the places held for codes stay below the limit and one per request.
THEOREM PlacesHeld == Spec => []CodesInv
  BY Invariance, CodesInvInit, CodesInvStep, PTL DEF Spec

\* However many requests for a code overlap, an account has less than MaxCodes
\* and one per request that count against its limit.
THEOREM CodesAreBounded == Spec => []CodesBounded
<1>1. CodesInv => CodesBounded
  <2> SUFFICES ASSUME CodesInv, NEW u \in Users
               PROVE  Cardinality(Recent(u)) < MaxCodes + Cardinality(Requests)
    BY DEF CodesBounded, Recent
  <2>1. Cardinality(Recent(u)) \in Nat /\ Cardinality(Asking(u)) \in Nat
        /\ Cardinality(Requests) \in Nat
    BY Counting DEF CodesInv
  <2> QED
    BY <2>1, AccountsAssumption DEF CodesInv, CodesReserved
<1> QED
  BY <1>1, PlacesHeld, PTL

\* A request that is about to redeem a code, or to set a password by it, has not
\* set one by that code, and the code belongs to the account.
THEOREM CodesSpentOnce == Spec => []CodeSpentOnce
<1>1. IInv => CodeSpentOnce
  BY DEF IInv, Intents, Intent, Redeeming, CodeSpentOnce
<1> QED
  BY <1>1, Invariance, PTL

\* Every promotion to administrator is a request of the root account.
THEOREM PromotionsByRoot == Spec => PromotedByRoot
<1> DEFINE Promoted ==
        \A u \in Users : role[u] # "ADMIN" /\ role'[u] = "ADMIN" =>
            \E r \in Requests : req[r].by = Root /\ req[r].user = u /\ req'[r] = Done
<1>1. ASSUME IInv, [Next]_vars, NEW u \in Users, role[u] # "ADMIN", role'[u] = "ADMIN"
      PROVE  \E r \in Requests : req[r].by = Root /\ req[r].user = u /\ req'[r] = Done
  <2>1. \/ \E r \in Requests : UpdateUserRole(r)
        \/ \E r \in Requests, v \in Users : Create(r, v)
        \/ UNCHANGED role
    <3>1. ASSUME NEW r \in Requests, Look(r) PROVE UNCHANGED role
      BY <3>1 DEF Look, SignUpHandler, OAuthHandlers, PasswordHandlers, ProfileHandlers,
                  ResetHandlers, CommandLine, ManagementHandlers, SignUp, HandleOAuth, InviteUser, UpdateUserInfo, ChangePassword,
                  SetRootAdminPassword, ChangeUserPasswordByEmail, SendResetPasswordCode,
                  ResetPassword, ChangeUserStatus, ChangeUserRole, Looks, rowVars
    <3>2. ASSUME NEW r \in Requests, Write(r)
          PROVE  UpdateUserRole(r) \/ (\E v \in Users : Create(r, v)) \/ UNCHANGED role
      BY <3>2 DEF Write, UpdateUserPassword, UpdateUserStatus, LinkOAuthID, Issue, SetEmail,
                  MarkCodeAsUsed, CreateResetCode, rowVars
    <3> QED
      BY <1>1, <3>1, <3>2 DEF Next, vars, Fails, SignInHandlers, SettingsHandler,
                              SignIn, SignInByOAuth, UpdateSettings, Restart, Tick, rowVars
  <2>2. ASSUME NEW r \in Requests, UpdateUserRole(r)
        PROVE  req[r].by = Root /\ req[r].user = u /\ req'[r] = Done
    BY <1>1, <2>2 DEF UpdateUserRole, Goto, IInv, TypeOK, Intents, Intent, Roles
  <2>3. ASSUME NEW r \in Requests, NEW v \in Users, Create(r, v) PROVE FALSE
    BY <1>1, <2>3 DEF Create, IInv, TypeOK
  <2> QED
    BY <1>1, <2>1, <2>2, <2>3
<1>2. IInv /\ [Next]_vars => [Promoted]_vars
  BY <1>1
<1> HIDE DEF Promoted
<1>3. Spec => [][Promoted]_vars
  BY <1>2, Invariance, PTL DEF Spec
<1> QED
  BY <1>3 DEF PromotedByRoot, Promoted

\* Unless another request wrote the status or the role of its account, a request
\* that is about to write a status still finds what it decided on.
THEOREM DecisionsHold == Spec => []Decided
  BY Invariance, DecidedInit, DecidedStep, PTL DEF Spec

\* A status changes by its owner's first arrival, by an administrator who may, or
\* by a request that was overtaken: so is a deactivated account active again.
THEOREM StatusesAsDecided == Spec => StatusAsDecided
<1>1. ASSUME IInv, Decided, [Next]_vars, NEW u \in Users, email[u] # None,
             status'[u] # status[u]
      PROVE  \E r \in Requests :
                /\ req[r].user = u /\ req[r].op \in Deciding /\ req'[r] # req[r]
                /\ \/ req[r].op # "setStatus" /\ status[u] = "INVITED"
                   \/ req[r].op = "setStatus" /\ (role[u] = "ADMIN" => req[r].by = Root)
                   \/ r \in overtaken
  <2>1. \/ \E r \in Requests : UpdateUserStatus(r)
        \/ \E r \in Requests, v \in Users : Create(r, v)
        \/ UNCHANGED status
    <3>1. ASSUME NEW r \in Requests, Look(r) PROVE UNCHANGED status
      BY <1>1, <3>1, LooksHold
    <3>2. ASSUME NEW r \in Requests, Write(r)
          PROVE  UpdateUserStatus(r) \/ (\E v \in Users : Create(r, v)) \/ UNCHANGED status
      BY <3>2 DEF Write, UpdateUserPassword, UpdateUserRole, LinkOAuthID, Issue, SetEmail,
                  MarkCodeAsUsed, CreateResetCode, rowVars
    <3> QED
      BY <1>1, <3>1, <3>2 DEF Next, vars, Fails, SignInHandlers, SettingsHandler,
                              SignIn, SignInByOAuth, UpdateSettings, Restart, Tick, rowVars
  <2>2. ASSUME NEW r \in Requests, NEW v \in Users, Create(r, v) PROVE FALSE
    BY <1>1, <2>2 DEF Create, IInv, TypeOK
  <2>3. ASSUME NEW r \in Requests, UpdateUserStatus(r)
        PROVE  /\ req[r].user = u /\ req[r].op \in Deciding /\ req'[r] # req[r]
               /\ StillHolds(req[r]) \/ r \in overtaken
    <3>1. req[r].op \in Deciding \ {"invitedPassword"} /\ req[r].user = u
      BY <1>1, <2>3 DEF UpdateUserStatus, Deciding, IInv, TypeOK
    <3>2. req'[r].op \notin Deciding
      BY <1>1, <2>3 DEF UpdateUserStatus, Goto, Op, Done, Deciding, IInv, TypeOK
    <3> QED
      BY <1>1, <3>1, <3>2 DEF Decided
  <2> QED
    BY <1>1, <2>1, <2>2, <2>3 DEF StillHolds
<1>2. IInv /\ Decided /\ [Next]_vars => [StatusStep]_vars
  BY <1>1 DEF StatusStep
<1> QED
  BY <1>2, Invariance, DecisionsHold, PTL DEF Spec, StatusAsDecided
=============================================================================
