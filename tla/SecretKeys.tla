----------------------------- MODULE SecretKeys ------------------------------
(****************************************************************************)
(* The master key of the fields and the archives                            *)
(* (features/encryption/secrets/service.go): a file written on first use,   *)
(* a copy in memory, and the move of the key from the database to the file  *)
(* when the process starts (cmd/main.go).  No lock is held: the callers of  *)
(* GetSecretKey interleave between reading the file, writing it and storing *)
(* the copy.                                                                *)
(****************************************************************************)
CONSTANTS
    Callers,    \* what needs the key: a backup, a restore
    Keys,       \* keys a process may generate
    OldKey,     \* the key an earlier version kept in the database
    Torn,       \* a key file opened for writing and not yet written
    NoKey       \* no row, no file, no copy

ASSUME KeysAssumption == {OldKey, Torn, NoKey} \cap Keys = {}
ASSUME OldKeyAssumption == OldKey # Torn /\ OldKey # NoKey /\ Torn # NoKey

VARIABLES
    dbKey,      \* the row of secret_keys
    keyFile,    \* the file at SecretKeyPath
    cachedKey,  \* SecretKeyService.cachedKey
    boot,       \* the start of the process, up to the end of the move
    call,       \* a call of GetSecretKey
    keyOf,      \* the key the call has in hand or has answered
    upset       \* whether the file was written by two, or in part
keyVars == <<dbKey, keyFile, cachedKey, boot, call, keyOf, upset>>

AnyKey == Keys \cup {OldKey, Torn}

KeysTypeOK ==
    /\ dbKey \in {OldKey, NoKey}
    /\ keyFile \in AnyKey \cup {NoKey}
    /\ cachedKey \in AnyKey \cup {NoKey}
    /\ boot \in {"check", "write", "writing", "delete", "up"}
    /\ call \in [Callers -> {"idle", "read", "missed", "writing", "got", "failed"}]
    /\ keyOf \in [Callers -> AnyKey \cup {NoKey}]
    /\ upset \in BOOLEAN

(* A new installation, or one that is upgraded.                             *)
KeysInit ==
    /\ dbKey \in {OldKey, NoKey}
    /\ keyFile = NoKey
    /\ cachedKey = NoKey
    /\ boot = "check"
    /\ call = [c \in Callers |-> "idle"]
    /\ keyOf = [c \in Callers |-> NoKey]
    /\ upset = FALSE

----------------------------------------------------------------------------
(* MigrateKeyFromDbToFileIfExist, before anything else of the process runs. *)
CheckForKeyInDb ==
    /\ boot = "check"
    /\ boot' = IF dbKey = NoKey THEN "up" ELSE "write"
    /\ UNCHANGED <<dbKey, keyFile, cachedKey, call, keyOf, upset>>

(* Mutant: the row is deleted before the file is written.                   *)
OpenMigratedFileAfterDelete ==
    /\ boot = "write"
    /\ keyFile' = Torn
    /\ dbKey' = NoKey
    /\ boot' = "writing"
    /\ UNCHANGED <<cachedKey, call, keyOf, upset>>

OpenMigratedFile ==
    /\ boot = "write"
    /\ keyFile' = Torn
    /\ boot' = "writing"
    /\ UNCHANGED <<dbKey, cachedKey, call, keyOf, upset>>

WriteMigratedKey ==
    /\ boot = "writing"
    /\ keyFile' = dbKey
    /\ boot' = "delete"
    /\ UNCHANGED <<dbKey, cachedKey, call, keyOf, upset>>

DeleteKeyFromDb ==
    /\ boot = "delete"
    /\ dbKey' = NoKey
    /\ boot' = "up"
    /\ UNCHANGED <<keyFile, cachedKey, call, keyOf, upset>>

Migrate == CheckForKeyInDb \/ OpenMigratedFile \/ WriteMigratedKey \/ DeleteKeyFromDb

----------------------------------------------------------------------------
(* GetSecretKey.                                                            *)
Creating(c) == call[c] \in {"missed", "writing"}
OthersCreate(c) == \E other \in Callers \ {c} : Creating(other)

Answer(c, key) ==
    /\ call' = [call EXCEPT ![c] = "got"]
    /\ keyOf' = [keyOf EXCEPT ![c] = key]

UseCachedKey(c) ==
    /\ boot = "up" /\ call[c] = "idle"
    /\ cachedKey # NoKey
    /\ Answer(c, cachedKey)
    /\ UNCHANGED <<dbKey, keyFile, cachedKey, boot, upset>>

ReadKeyFile(c) ==
    /\ boot = "up" /\ call[c] = "idle"
    /\ cachedKey = NoKey
    /\ keyFile # NoKey
    /\ call' = [call EXCEPT ![c] = "read"]
    /\ keyOf' = [keyOf EXCEPT ![c] = keyFile]
    /\ upset' = (upset \/ OthersCreate(c))
    /\ UNCHANGED <<dbKey, keyFile, cachedKey, boot>>

CacheReadKey(c) ==
    /\ call[c] = "read"
    /\ cachedKey' = keyOf[c]
    /\ Answer(c, keyOf[c])
    /\ UNCHANGED <<dbKey, keyFile, boot, upset>>

generateNewSecretKey == Keys \ ({keyFile, cachedKey} \cup {keyOf[c] : c \in Callers})

(* Mutant: every error of the read passes for a missing file.               *)
MissKeyFileOnError(c) ==
    /\ boot = "up" /\ call[c] = "idle"
    /\ cachedKey = NoKey
    /\ \E key \in generateNewSecretKey : keyOf' = [keyOf EXCEPT ![c] = key]
    /\ call' = [call EXCEPT ![c] = "missed"]
    /\ upset' = (upset \/ OthersCreate(c))
    /\ UNCHANGED <<dbKey, keyFile, cachedKey, boot>>

MissKeyFile(c) ==
    /\ boot = "up" /\ call[c] = "idle"
    /\ cachedKey = NoKey
    /\ keyFile = NoKey
    /\ \E key \in generateNewSecretKey : keyOf' = [keyOf EXCEPT ![c] = key]
    /\ call' = [call EXCEPT ![c] = "missed"]
    /\ upset' = (upset \/ OthersCreate(c))
    /\ UNCHANGED <<dbKey, keyFile, cachedKey, boot>>

OpenKeyFile(c) ==
    /\ call[c] = "missed"
    /\ keyFile' = Torn
    /\ call' = [call EXCEPT ![c] = "writing"]
    /\ UNCHANGED <<dbKey, cachedKey, boot, keyOf, upset>>

WriteKeyFile(c) ==
    /\ call[c] = "writing"
    /\ keyFile' = keyOf[c]
    /\ cachedKey' = keyOf[c]
    /\ Answer(c, keyOf[c])
    /\ UNCHANGED <<dbKey, boot, upset>>

GetSecretKey(c) ==
    \/ UseCachedKey(c) \/ ReadKeyFile(c) \/ CacheReadKey(c)
    \/ MissKeyFile(c) \/ OpenKeyFile(c) \/ WriteKeyFile(c)

(* The file cannot be read, opened or written.                              *)
GetSecretKeyFails(c) ==
    /\ boot = "up"
    /\ \/ call[c] = "idle" /\ cachedKey = NoKey
       \/ Creating(c)
    /\ call' = [call EXCEPT ![c] = "failed"]
    /\ upset' = (upset \/ call[c] = "writing")
    /\ UNCHANGED <<dbKey, keyFile, cachedKey, boot, keyOf>>

(* The process ends, of its own when the move of the key fails.  Who had    *)
(* called ends with it.                                                     *)
KeysRestart ==
    /\ boot' = "check"
    /\ cachedKey' = NoKey
    /\ call' = [c \in Callers |-> IF call[c] = "idle" THEN "idle" ELSE "failed"]
    /\ upset' = (upset \/ \E c \in Callers : call[c] = "writing")
    /\ UNCHANGED <<dbKey, keyFile, keyOf>>
=============================================================================
