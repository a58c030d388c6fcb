---------------------------- MODULE MCWorkspaces -----------------------------
(* Instances of Workspaces for TLC.                                         *)
EXTENDS Workspaces, TLC

\* Endpoints that are called together, so that every two which write the same
\* rows meet; all at once would be too many.
MCLoads ==
    {{"create", "add", "changeRole", "remove"},
     {"create", "add", "transfer", "failure"},
     {"create", "delete", "saveStorage", "saveNotifier", "test"},
     {"create", "rename", "delete", "saveNotifier", "test", "failure"},
     {"create", "createMore", "delete", "saveStorage", "move"},
     {"create", "createMore", "saveNotifier", "deleteItem", "move"},
     {"create", "createMore", "saveStorage", "deleteItem", "move"}}

Symmetry == Permutations(Rows) \cup Permutations(Requests) \cup Permutations(Spaces)
=============================================================================
