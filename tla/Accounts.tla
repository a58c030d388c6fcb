------------------------------ MODULE Accounts ------------------------------
(***************************************************************************)
(* User accounts: sign-up, sign-in, invitations, OAuth callbacks, password *)
(* changes and resets, and the administration of other accounts.           *)
(*                                                                         *)
(* Source: backend/internal/features/users (services, controllers,         *)
(* repositories, middleware), the rate limiter of util/cache and the       *)
(* password option of cmd/main.go.                                         *)
(*                                                                         *)
(* The users table has no unique index and no statement runs in a          *)
(* transaction: a request first looks (it authenticates and reads the rows *)
(* its checks need, one step) and then writes, one step per statement.     *)
(* Other requests step in anywhere between.                                *)
(***************************************************************************)
EXTENDS Naturals, FiniteSets

CONSTANTS
    Users,       \* identifiers (uuid.New) that accounts may take
    Root,        \* the account CreateInitialAdmin made at the first start
    Emails,      \* addresses that people sign up with or are invited at
    AdminEmail,  \* "admin", which is not an address
    Identities,  \* accounts at an OAuth provider
    Codes,       \* identifiers that reset codes may take
    Requests,    \* HTTP handlers (or runs of the command line) in progress
    MaxCodes,    \* reset codes per user and hour, requests per address and hour
    Hour,        \* clock ticks (seconds) in an hour
    Loads,       \* sets of endpoints: a behaviour is put under one of these loads
    Horizon,     \* bound on the clock under each load
    None         \* "no value"

Endpoints ==
    {"signUp", "signIn", "oauth", "invite", "updateInfo", "changePassword",
     "adminPassword", "commandLine", "sendCode", "resetPassword", "status",
     "role", "settings", "failure", "restart"}

Roles == {"ADMIN", "MEMBER"}
Statuses == {"INVITED", "ACTIVE", "INACTIVE"}

Token == [user : Users, stamp : Nat, since : Nat]
Code  == [user : Users, born : Nat, used : BOOLEAN]

ASSUME AccountsAssumption ==
    /\ Root \in Users
    /\ AdminEmail \notin Emails
    /\ None \notin Emails \cup {AdminEmail} \cup Users \cup Requests \cup Identities
    /\ None \notin Code
    /\ MaxCodes \in Nat \ {0} /\ Hour \in Nat \ {0}
    /\ Loads \subseteq SUBSET Endpoints
    /\ Horizon \in [Loads -> Nat]

\* The server has a connection, and so a handler, for finitely many at a time.
ASSUME RequestsAssumption == IsFiniteSet(Requests)

VARIABLES
    email,     \* users.email, None if there is no such row
    status,    \* users.status
    role,      \* users.role
    password,  \* users: hashed_password is set
    stamp,     \* users.password_creation_time, in seconds
    linked,    \* users.github_oauth_id (google_oauth_id is treated alike)
    settings,  \* the users_settings row
    codes,     \* the password_reset_codes rows, None if there is no such row
    tokens,    \* the tokens handed out
    window,    \* RateLimiter.windows, for "reset-password" and an address
    req,       \* what a request has still to write
    now,       \* the clock
    load,      \* endpoints that are called in this behaviour
    setAt,     \* history: when the password was last set
    takenBy,   \* history: the request that gave an account its address
    linkedBy,  \* history: the request that linked an account to an identity
    spentBy,   \* history: the requests that set a password by a code
    overtaken  \* history: requests on the way to a status they decided on
               \* before another wrote the status or the role of that account

rowVars   == <<email, status, role, password, stamp, linked>>
ghostVars == <<setAt, takenBy, linkedBy, spentBy, overtaken>>
vars == <<rowVars, settings, codes, tokens, window, req, now, load, ghostVars>>

\* The next statement of a request; "done" is any request that has none.
Ops == {"done", "signUp", "invite", "oauthNew", "setPassword", "invitedPassword",
        "activateInvited", "oauthActivate", "link", "issue", "setEmail", "setStatus",
        "setRole", "makeCode", "redeem", "resetByCode"}

Done == [op |-> "done", by |-> None, user |-> None, arg |-> None, link |-> None]
Op(op, by, u, arg, i) == [op |-> op, by |-> by, user |-> u, arg |-> arg, link |-> i]

TypeOK ==
    /\ email \in [Users -> Emails \cup {AdminEmail, None}]
    /\ status \in [Users -> Statuses]
    /\ role \in [Users -> Roles]
    /\ password \in [Users -> BOOLEAN]
    /\ stamp \in [Users -> Nat]
    /\ linked \in [Users -> Identities \cup {None}]
    /\ settings \in [external : BOOLEAN, invitations : BOOLEAN]
    /\ codes \in [Codes -> Code \cup {None}]
    /\ tokens \subseteq Token
    /\ window \in [Emails -> [count : Nat, until : Nat]]
    /\ req \in [Requests -> [op : Ops,
                             by : Users \cup {None},
                             user : Users \cup {None},
                             arg : Emails \cup Codes \cup Roles \cup Statuses \cup {None},
                             link : Identities \cup {None}]]
    /\ now \in Nat
    /\ load \in Loads
    /\ setAt \in [Users -> Nat]
    /\ takenBy \in [Users -> Requests \cup {None}]
    /\ linkedBy \in [Users -> Requests \cup {None}]
    /\ spentBy \in [Codes -> SUBSET Requests]
    /\ overtaken \subseteq Requests

\* After AutoMigrate and CreateInitialAdmin of the first start.
Init ==
    /\ email = [u \in Users |-> IF u = Root THEN AdminEmail ELSE None]
    /\ status = [u \in Users |-> "ACTIVE"]
    /\ role = [u \in Users |-> IF u = Root THEN "ADMIN" ELSE "MEMBER"]
    /\ password = [u \in Users |-> FALSE]
    /\ stamp = [u \in Users |-> 0]
    /\ linked = [u \in Users |-> None]
    /\ settings = [external |-> TRUE, invitations |-> TRUE]
    /\ codes = [c \in Codes |-> None]
    /\ tokens = {}
    /\ window = [e \in Emails |-> [count |-> 0, until |-> 0]]
    /\ req = [r \in Requests |-> Done]
    /\ now = 1
    /\ load \in Loads
    /\ setAt = [u \in Users |-> 0]
    /\ takenBy = [u \in Users |-> None]
    /\ linkedBy = [u \in Users |-> None]
    /\ spentBy = [c \in Codes |-> {}]
    /\ overtaken = {}

----------------------------------------------------------------------------
(* Faults.  Each is an operator below it as a plausible bug would have it;  *)
(* nothing refers to them: putting one in the place of its original shows   *)
(* which property notices.                                                  *)

\* Mutant: the identity is looked up in the other provider's column.
WithIdentityElsewhere(i) == {}

\* Mutant: one code too many.
MayAskOnceMore(u) ==
    Cardinality({c \in Codes : codes[c] # None /\ codes[c].user = u
                               /\ codes[c].born + Hour > now}) <= MaxCodes

\* Mutant: an invited account is linked as it is.
FirstOfLinkUninvited(u) == "link"

\* Mutant: any account that is not active is activated.
FirstOfLinkRevives(u) == IF status[u] # "ACTIVE" THEN "oauthActivate" ELSE "link"

\* Mutant: password_creation_time is set when the row is created only.
SetStampNever(u) == UNCHANGED stamp

\* Mutant: the address is not looked up.
UpdateUserInfoUnchecked(r, u, e) ==
    /\ "updateInfo" \in load
    /\ req[r] = Done
    /\ \E t \in tokens : t.user = u /\ status[u] = "ACTIVE" /\ t.stamp = stamp[u]
    /\ email[u] # AdminEmail
    /\ req' = [req EXCEPT ![r] = Op("setEmail", u, u, e, None)]
    /\ UNCHANGED <<rowVars, settings, codes, tokens, window, now, load, ghostVars>>

\* Mutants: only a promotion, or only a demotion, is kept for the root account.
ChangeUserRolePromotes(r, by, u, new) ==
    /\ "role" \in load
    /\ req[r] = Done
    /\ \E t \in tokens : t.user = by /\ status[by] = "ACTIVE" /\ t.stamp = stamp[by]
    /\ role[by] = "ADMIN"
    /\ email[u] # None
    /\ u # by
    /\ new = "ADMIN" => email[by] = AdminEmail
    /\ req' = [req EXCEPT ![r] = Op("setRole", by, u, new, None)]
    /\ UNCHANGED <<rowVars, settings, codes, tokens, window, now, load, ghostVars>>

\* Mutant: the code is not marked.
MarkCodeAsUsedNot(r) ==
    /\ req[r].op = "redeem"
    /\ req' = [req EXCEPT ![r] = Op("resetByCode", None, req[r].user, req[r].arg, None)]
    /\ UNCHANGED <<rowVars, settings, codes, tokens, window, now, load, ghostVars>>

----------------------------------------------------------------------------
(* What the requests read.                                                 *)

\* GetUserByEmail and GetUserByGitHubOAuthID return the first of these rows in
\* the order of random ids: any of them.
WithEmail(e) == {u \in Users : email[u] = e}
WithIdentity(i) == {u \in Users : linked[u] = i}

\* GetUserFromToken.
Accepts(t) == status[t.user] = "ACTIVE" /\ t.stamp = stamp[t.user]

\* AuthMiddleware lets a request of u pass.
SignedIn(u) == \E t \in tokens : t.user = u /\ Accepts(t)

\* CanManageUsers and CanUpdateSettings, RequireRole(ADMIN) before them.
SignedInAdmin(u) == SignedIn(u) /\ role[u] = "ADMIN"

CanInviteUsers(u) == role[u] = "ADMIN" \/ settings.invitations

\* CountRecentCodesByUserID(now - 1 hour).
Recent(u) ==
    {c \in Codes : codes[c] # None /\ codes[c].user = u /\ codes[c].born + Hour > now}

\* The rows of GetValidCodeByUserID; it returns the youngest.
Valid(u) ==
    {c \in Codes : codes[c] # None /\ codes[c].user = u /\ ~codes[c].used
                   /\ codes[c].born + Hour > now}

Youngest(u, c) == c \in Valid(u) /\ \A d \in Valid(u) : codes[d].born <= codes[c].born

\* RateLimiter.CheckLimit: a fixed window per address, opened by the first
\* request after the last window.  Counting stops at one above the limit.
Counted(e) ==
    IF now > window[e].until
    THEN [count |-> 1, until |-> now + Hour]
    ELSE [window[e] EXCEPT !.count = IF @ > MaxCodes THEN @ ELSE @ + 1]

Goto(r, op) == req' = [req EXCEPT ![r] = op]

\* A request that only looks leaves everything but its own progress alone.
Looks(r, endpoint) ==
    /\ endpoint \in load
    /\ req[r] = Done
    /\ UNCHANGED <<rowVars, settings, codes, tokens, now, load, ghostVars>>

MayAsk(u) == Cardinality(Recent(u)) < MaxCodes

FirstOfLink(u) == IF status[u] = "INVITED" THEN "oauthActivate" ELSE "link"

\* GenerateAccessToken for the row of u as it is now.
Issued(u) == tokens \cup {[user |-> u, stamp |-> stamp[u], since |-> now]}

----------------------------------------------------------------------------
(* The looks: a request passes its checks and goes to its first statement. *)

SignUp(r, e) ==
    /\ Looks(r, "signUp")
    /\ \/ \E u \in WithEmail(e) :
            status[u] = "INVITED" /\ Goto(r, Op("invitedPassword", None, u, None, None))
       \/ /\ WithEmail(e) = {}
          /\ settings.external
          /\ Goto(r, Op("signUp", None, None, e, None))
    /\ UNCHANGED window

\* No account is linked to the identity: one with the address will be, and is
\* activated before if it was invited; or a new one is made.
HandleOAuth(r, i, e) ==
    /\ Looks(r, "oauth")
    /\ WithIdentity(i) = {}
    /\ \/ \E u \in WithEmail(e) : Goto(r, Op(FirstOfLink(u), None, u, None, i))
       \/ /\ WithEmail(e) = {}
          /\ settings.external
          /\ Goto(r, Op("oauthNew", None, None, e, i))
    /\ UNCHANGED window

InviteUser(r, by, e) ==
    /\ Looks(r, "invite")
    /\ SignedIn(by) /\ CanInviteUsers(by)
    /\ WithEmail(e) = {}
    /\ Goto(r, Op("invite", by, None, e, None))
    /\ UNCHANGED window

\* A change of the name alone is left out.
UpdateUserInfo(r, u, e) ==
    /\ Looks(r, "updateInfo")
    /\ SignedIn(u)
    /\ email[u] # AdminEmail
    /\ WithEmail(e) = {}
    /\ Goto(r, Op("setEmail", u, u, e, None))
    /\ UNCHANGED window

ChangePassword(r, u) ==
    /\ Looks(r, "changePassword")
    /\ SignedIn(u)
    /\ Goto(r, Op("setPassword", u, u, None, None))
    /\ UNCHANGED window

SetRootAdminPassword(r) ==
    /\ Looks(r, "adminPassword")
    /\ \E u \in WithEmail(AdminEmail) :
         ~password[u] /\ Goto(r, Op("setPassword", None, u, None, None))
    /\ UNCHANGED window

\* dockvol --email --new-password, in a process of its own.
ChangeUserPasswordByEmail(r, e) ==
    /\ Looks(r, "commandLine")
    /\ \E u \in WithEmail(e) : Goto(r, Op("setPassword", None, u, None, None))
    /\ UNCHANGED window

\* The limiter counts every request, whatever becomes of it.
SendResetPasswordCode(r, e) ==
    /\ Looks(r, "sendCode")
    /\ window' = [window EXCEPT ![e] = Counted(e)]
    /\ IF /\ Counted(e).count <= MaxCodes
          /\ WithEmail(e) # {}
       THEN \E u \in WithEmail(e) :
              IF status[u] = "ACTIVE" /\ MayAsk(u)
              THEN Goto(r, Op("makeCode", None, u, None, None))
              ELSE UNCHANGED req
       ELSE UNCHANGED req

\* Only who knows the youngest valid code gets past the comparison.
ResetPassword(r, e, c) ==
    /\ Looks(r, "resetPassword")
    /\ \E u \in WithEmail(e) :
         Youngest(u, c) /\ Goto(r, Op("redeem", None, u, c, None))
    /\ UNCHANGED window

\* DeactivateUser and ActivateUser; nobody deactivates themselves.
ChangeUserStatus(r, by, u, new) ==
    /\ Looks(r, "status")
    /\ SignedInAdmin(by)
    /\ email[u] # None
    /\ new = "INACTIVE" => u # by
    /\ role[u] = "ADMIN" => email[by] = AdminEmail
    /\ Goto(r, Op("setStatus", by, u, new, None))
    /\ UNCHANGED window

ChangeUserRole(r, by, u, new) ==
    /\ Looks(r, "role")
    /\ SignedInAdmin(by)
    /\ email[u] # None
    /\ u # by
    /\ "ADMIN" \in {new, role[u]} => email[by] = AdminEmail
    /\ Goto(r, Op("setRole", by, u, new, None))
    /\ UNCHANGED window

----------------------------------------------------------------------------
(* The writes, one per statement.                                          *)

\* UserRepository.CreateUser.  Sign-up and OAuth answer with a token for the
\* user they hold in memory.
Create(r, u) ==
    LET op == req[r].op
    IN  /\ op \in {"signUp", "invite", "oauthNew"}
        /\ email[u] = None
        /\ email' = [email EXCEPT ![u] = req[r].arg]
        /\ status' = [status EXCEPT ![u] = IF op = "invite" THEN "INVITED" ELSE "ACTIVE"]
        /\ role' = [role EXCEPT ![u] = "MEMBER"]
        /\ password' = [password EXCEPT ![u] = op = "signUp"]
        /\ stamp' = [stamp EXCEPT ![u] = now]
        /\ linked' = [linked EXCEPT ![u] = req[r].link]
        /\ tokens' = IF op = "invite" THEN tokens
                     ELSE tokens \cup {[user |-> u, stamp |-> now, since |-> now]}
        /\ setAt' = [setAt EXCEPT ![u] = now]
        /\ takenBy' = [takenBy EXCEPT ![u] = r]
        /\ linkedBy' = [linkedBy EXCEPT ![u] = IF op = "oauthNew" THEN r ELSE None]
        /\ Goto(r, Done)
        /\ UNCHANGED <<settings, codes, window, now, load, spentBy, overtaken>>

\* The time of the password changes with the password.
SetStamp(u) == stamp' = [stamp EXCEPT ![u] = now]

UpdateUserPassword(r) ==
    LET op == req[r].op  u == req[r].user  c == req[r].arg
    IN  /\ op \in {"setPassword", "invitedPassword", "resetByCode"}
        /\ password' = [password EXCEPT ![u] = TRUE]
        /\ SetStamp(u)
        /\ setAt' = [setAt EXCEPT ![u] = now]
        /\ spentBy' = IF op = "resetByCode"
                      THEN [spentBy EXCEPT ![c] = @ \cup {r}] ELSE spentBy
        /\ Goto(r, IF op = "invitedPassword"
                   THEN Op("activateInvited", None, u, None, None) ELSE Done)
        /\ UNCHANGED <<email, status, role, linked, settings, codes, tokens, window,
                       now, load, takenBy, linkedBy, overtaken>>

\* What a request is about to make of a status, it has decided on in its look.
Deciding == {"invitedPassword", "activateInvited", "oauthActivate", "setStatus"}

\* Whoever decided on the status of u has been overtaken by r.
Overtakes(r, u) ==
    overtaken' =
        (overtaken \cup {o \in Requests : req[o].op \in Deciding /\ req[o].user = u}) \ {r}

UpdateUserStatus(r) ==
    LET op == req[r].op  u == req[r].user
    IN  /\ op \in {"setStatus", "activateInvited", "oauthActivate"}
        /\ status' = [status EXCEPT ![u] = IF op = "setStatus" THEN req[r].arg ELSE "ACTIVE"]
        /\ Goto(r, CASE op = "setStatus" -> Done
                     [] op = "activateInvited" -> Op("issue", None, u, None, None)
                     [] op = "oauthActivate" -> Op("link", None, u, None, req[r].link))
        /\ Overtakes(r, u)
        /\ UNCHANGED <<email, role, password, stamp, linked, settings, codes, tokens,
                       window, now, load, setAt, takenBy, linkedBy, spentBy>>

LinkOAuthID(r) ==
    LET u == req[r].user
    IN  /\ req[r].op = "link"
        /\ linked' = [linked EXCEPT ![u] = req[r].link]
        /\ linkedBy' = [linkedBy EXCEPT ![u] = r]
        /\ Goto(r, Op("issue", None, u, None, None))
        /\ UNCHANGED <<email, status, role, password, stamp, settings, codes, tokens,
                       window, now, load, setAt, takenBy, spentBy, overtaken>>

\* The row is read again for the token.
Issue(r) ==
    /\ req[r].op = "issue"
    /\ tokens' = Issued(req[r].user)
    /\ Goto(r, Done)
    /\ UNCHANGED <<rowVars, settings, codes, window, now, load, ghostVars>>

SetEmail(r) ==
    /\ req[r].op = "setEmail"
    /\ email' = [email EXCEPT ![req[r].user] = req[r].arg]
    /\ takenBy' = [takenBy EXCEPT ![req[r].user] = r]
    /\ Goto(r, Done)
    /\ UNCHANGED <<status, role, password, stamp, linked, settings, codes, tokens,
                   window, now, load, setAt, linkedBy, spentBy, overtaken>>

UpdateUserRole(r) ==
    /\ req[r].op = "setRole"
    /\ role' = [role EXCEPT ![req[r].user] = req[r].arg]
    /\ Goto(r, Done)
    /\ Overtakes(r, req[r].user)
    /\ UNCHANGED <<email, status, password, stamp, linked, settings, codes, tokens,
                   window, now, load, setAt, takenBy, linkedBy, spentBy>>

\* The mail that follows may fail; the code stays.  Its id is new, and which
\* one it is makes no difference.
NewCode == CHOOSE c \in Codes : codes[c] = None

CreateResetCode(r, c) ==
    /\ req[r].op = "makeCode"
    /\ codes[c] = None
    /\ c = NewCode
    /\ codes' = [codes EXCEPT ![c] = [user |-> req[r].user, born |-> now, used |-> FALSE]]
    /\ Goto(r, Done)
    /\ UNCHANGED <<rowVars, settings, tokens, window, now, load, ghostVars>>

MarkCodeAsUsed(r) ==
    LET c == req[r].arg
    IN  /\ req[r].op = "redeem"
        /\ codes' = [codes EXCEPT ![c].used = TRUE]
        /\ Goto(r, Op("resetByCode", None, req[r].user, c, None))
        /\ UNCHANGED <<rowVars, settings, tokens, window, now, load, ghostVars>>

----------------------------------------------------------------------------
(* Requests of a single statement, and the environment.                    *)

\* The password was compared with the row that the token is made from.
SignIn(u) ==
    /\ "signIn" \in load
    /\ email[u] # None /\ status[u] = "ACTIVE" /\ password[u]
    /\ tokens' = Issued(u)
    /\ UNCHANGED <<rowVars, settings, codes, window, req, now, load, ghostVars>>

\* An account linked to the identity gets its token from the row that was found,
\* whatever its status.
SignInByOAuth(i) ==
    /\ "oauth" \in load
    /\ \E u \in WithIdentity(i) : tokens' = Issued(u)
    /\ UNCHANGED <<rowVars, settings, codes, window, req, now, load, ghostVars>>

\* Every field of the row ends as the request has it.
UpdateSettings(by, new) ==
    /\ "settings" \in load
    /\ SignedInAdmin(by)
    /\ settings' = new
    /\ UNCHANGED <<rowVars, codes, tokens, window, req, now, load, ghostVars>>

\* A statement fails, or the handler panics: the rest is not done.
Fails(r) ==
    /\ "failure" \in load
    /\ req[r] # Done
    /\ Goto(r, Done)
    /\ overtaken' = overtaken \ {r}
    /\ UNCHANGED <<rowVars, settings, codes, tokens, window, now, load,
                   setAt, takenBy, linkedBy, spentBy>>

\* The process ends and starts again; the windows were in its memory.
Restart ==
    /\ "restart" \in load
    /\ req' = [r \in Requests |-> Done]
    /\ window' = [e \in DOMAIN window |-> [count |-> 0, until |-> 0]]
    /\ overtaken' = {}
    /\ UNCHANGED <<rowVars, settings, codes, tokens, now, load,
                   setAt, takenBy, linkedBy, spentBy>>

Tick ==
    /\ now < Horizon[load]
    /\ now' = now + 1
    /\ UNCHANGED <<rowVars, settings, codes, tokens, window, req, load, ghostVars>>

(* The handlers of the three controllers.                                  *)

\* Anybody may name any address.
SignUpHandler(r) == \E e \in Emails \cup {AdminEmail} : SignUp(r, e)

\* What the exchange with the provider yields: an identity and its address.
ProviderAnswers == Identities \X Emails

OAuthHandlers(r) == \E a \in ProviderAnswers : HandleOAuth(r, a[1], a[2])

PasswordHandlers(r) == SetRootAdminPassword(r) \/ \E u \in Users : ChangePassword(r, u)

ProfileHandlers(r) ==
    \E e \in Emails, u \in Users : InviteUser(r, u, e) \/ UpdateUserInfo(r, u, e)

\* Both requests bind an address, which "admin" is not.
ResetHandlers(r) ==
    \E e \in Emails :
        SendResetPasswordCode(r, e) \/ \E c \in Codes : ResetPassword(r, e, c)

CommandLine(r) == \E e \in Emails \cup {AdminEmail} : ChangeUserPasswordByEmail(r, e)

ManagementHandlers(r) ==
    \E by, u \in Users :
        \/ \E new \in {"ACTIVE", "INACTIVE"} : ChangeUserStatus(r, by, u, new)
        \/ \E new \in Roles : ChangeUserRole(r, by, u, new)

SignInHandlers == (\E u \in Users : SignIn(u)) \/ (\E i \in Identities : SignInByOAuth(i))

SettingsHandler ==
    \E u \in Users, new \in [external : BOOLEAN, invitations : BOOLEAN] : UpdateSettings(u, new)

Look(r) ==
    \/ SignUpHandler(r) \/ OAuthHandlers(r) \/ PasswordHandlers(r) \/ ProfileHandlers(r)
    \/ ResetHandlers(r) \/ CommandLine(r) \/ ManagementHandlers(r)

Write(r) ==
    \/ \E u \in Users : Create(r, u)
    \/ UpdateUserPassword(r) \/ UpdateUserStatus(r) \/ LinkOAuthID(r) \/ Issue(r)
    \/ SetEmail(r) \/ UpdateUserRole(r) \/ MarkCodeAsUsed(r)
    \/ \E c \in Codes : CreateResetCode(r, c)

Next ==
    \/ \E r \in Requests : Look(r) \/ Write(r) \/ Fails(r)
    \/ SignInHandlers
    \/ SettingsHandler
    \/ Restart
    \/ Tick

Spec == Init /\ [][Next]_vars

----------------------------------------------------------------------------
(* Properties.                                                             *)

\* Whatever administrators, invitations and changes of addresses do, the root
\* account stays an active administrator, and no other account is called
\* "admin": it is by that name that the services tell the root account.
RootStands ==
    /\ email[Root] = AdminEmail /\ status[Root] = "ACTIVE" /\ role[Root] = "ADMIN"
    /\ \A u \in Users \ {Root} : email[u] # AdminEmail

\* A token made before the second in which the password was last set is
\* refused, however the password came to be set.
StaleTokenRejected == \A t \in tokens : t.since < setAt[t.user] => ~Accepts(t)

\* Nobody holds a token of an account that is still waiting for its owner.
InvitedHoldsNoToken == \A t \in tokens : status[t.user] # "INVITED"

\* Only requests that overlapped can give two accounts one address: with one
\* request at a time addresses are unique.
OneAccountPerAddress ==
    \A u, v \in Users :
        u # v /\ email[u] # None /\ email[u] = email[v] => takenBy[u] # takenBy[v]

\* The same of the identity an account is linked to.
OneAccountPerIdentity ==
    \A u, v \in Users :
        u # v /\ linked[u] # None /\ linked[u] = linked[v] => linkedBy[u] # linkedBy[v]

\* No request gets to set a password by a code that it has already set one by:
\* each code sets one password, or one per request that overlapped the first.
CodeSpentOnce ==
    \A r \in Requests : req[r].op \in {"redeem", "resetByCode"} =>
        /\ r \notin spentBy[req[r].arg]
        /\ codes[req[r].arg] # None /\ codes[req[r].arg].user = req[r].user

\* Codes that count against the limit exceed it by the requests that were past
\* the check together, at most.
CodesBounded ==
    \A u \in Users :
        Cardinality({c \in Codes : codes[c] # None /\ codes[c].user = u
                                   /\ codes[c].born + Hour > now})
            < MaxCodes + Cardinality(Requests)

\* The status of an account changes by its owner's first arrival; by an
\* administrator's request, which for the account of an administrator is the
\* root account's; or by a request that another overtook on the way: nothing
\* else makes a deactivated account active again (user_services.go:847-856,
\* management_service.go:69-72).
StatusStep ==
    \A u \in Users : email[u] # None /\ status'[u] # status[u] =>
        \E r \in Requests :
            /\ req[r].user = u /\ req[r].op \in Deciding /\ req'[r] # req[r]
            /\ \/ req[r].op # "setStatus" /\ status[u] = "INVITED"
               \/ req[r].op = "setStatus" /\ (role[u] = "ADMIN" => req[r].by = Root)
               \/ r \in overtaken

StatusAsDecided == [][StatusStep]_vars

\* Nobody becomes an administrator but by a request of the root account.
PromotedByRoot ==
    [][\A u \in Users : role[u] # "ADMIN" /\ role'[u] = "ADMIN" =>
          \E r \in Requests : req[r].by = Root /\ req[r].user = u /\ req'[r] = Done]_vars
=============================================================================
