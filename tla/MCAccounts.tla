----------------------------- MODULE MCAccounts ------------------------------
(* Instances of Accounts for TLC.  Codes are interchangeable too, but trying *)
(* their permutations costs more than the states it saves.                   *)
EXTENDS Accounts, TLC

MCLoads ==
    {{"adminPassword", "signIn", "signUp", "invite", "updateInfo", "failure"},
     {"signUp", "sendCode"},
     {"signUp", "sendCode", "restart"},
     {"signUp", "sendCode", "resetPassword"},
     {"adminPassword", "signIn", "oauth", "invite", "status"},
     {"adminPassword", "signIn", "signUp", "role", "status"},
     {"adminPassword", "signIn", "settings", "oauth", "updateInfo"},
     {"adminPassword", "signIn", "changePassword", "commandLine"}}

\* Codes age, and the limiter's window ends, while nothing but codes is asked
\* for.  The clock stands still where codes are spent and where roles change,
\* which no instant tells apart; the other loads have the two instants that a
\* password needs.
MCHorizon ==
    [l \in MCLoads |-> CASE l = {"signUp", "sendCode"} -> 4
                        [] "resetPassword" \in l       -> 1
                        [] "role" \in l                -> 1
                        [] OTHER                       -> 2]

Symmetry ==
    Permutations(Users \ {Root}) \cup Permutations(Emails) \cup Permutations(Requests)
=============================================================================
