----------------------------- MODULE FileStore -----------------------------
(***************************************************************************)
(* The file store: one directory with an encrypted token file and, once    *)
(* somebody could not read the machine's ID, a key file.  Processes of the *)
(* same user share it without a lock.  What keeps it together is that both *)
(* files are staged under a temporary name, synced, and only then          *)
(* published, the token file by rename (replacing), the key file by link   *)
(* (not replacing).                                                        *)
(*                                                                         *)
(* machineID is external.  It reads a file, asks the registry or runs a    *)
(* program, in every New, and may fail or answer differently each time.    *)
(*                                                                         *)
(* The file system is external and POSIX-like: rename, link and remove are *)
(* atomic; until the directory is synced, a power loss may undo the        *)
(* changes of each name separately; a file that was not synced may come    *)
(* back torn.  syncDirectory does nothing on Windows, where the package    *)
(* promises no more than the file system does; that build is not modelled. *)
(***************************************************************************)
EXTENDS Naturals

CONSTANTS
    Processes, Values, NoValue,
    MachineIDs,         \* what machineID may answer
    FileKey, NoKey,     \* the key in the key file, whichever it is, and none
    MaxKeys

ASSUME FileStoreAssumption ==
    /\ NoValue \notin Values
    /\ MachineIDs \cap Nat = {}
    /\ FileKey \notin MachineIDs /\ NoKey \notin MachineIDs /\ FileKey # NoKey
    /\ MaxKeys \in Nat

VARIABLES
    directory,  \* the token file and the key file, as processes see them
    onDisk,     \* what a power loss may leave of each
    procs,
    keysMade    \* how many random keys were generated

fileVars == <<directory, onDisk, procs, keysMade>>

\* What crypto/rand returns, no key twice, and sha256 of an ID, which stands for
\* its key.
Keys == 1..MaxKeys \cup MachineIDs

\* key is what a key file holds, or what the value in a token file is encrypted with.
Absent == [kind |-> "absent", key |-> 0, value |-> NoValue]
Torn == [Absent EXCEPT !.kind = "torn"]
Whole(kind) == [kind: kind, key: Keys, value: Values \cup {NoValue}]
Files == {Absent, Torn} \cup Whole({"written", "synced"})

Names == {"tokens", "key"}

\* The calls of one Store and the steps of each.  "off" is a process without one.
NewSteps == {"readKey", "generate", "writeKey", "syncKeyFile", "link", "unstage", "reread", "syncKey"}
SaveSteps == {"write", "syncFile", "rename", "syncSave", "saved"}
DeleteSteps == {"remove", "deleted"}
KeySteps == {"ready"} \cup SaveSteps \cup DeleteSteps   \* with a Store
Steps == {"off", "ready"} \cup NewSteps \cup SaveSteps \cup DeleteSteps

NoProc == [pc |-> "off", key |-> 0, staged |-> Absent, value |-> NoValue, loaded |-> NoValue]

Procs ==
    [pc: Steps, key: {0} \cup Keys, staged: Files,
     value: Values \cup {NoValue}, loaded: Values \cup {NoValue}]

\* The types; a process has a staged file only between writing it and publishing it.
FileTypeOK ==
    /\ directory \in [Names -> Files]
    /\ onDisk \in [Names -> SUBSET Files]
    /\ \A n \in Names : directory[n] \in onDisk[n]
    /\ procs \in [Processes -> Procs]
    /\ keysMade \in 0..MaxKeys
    /\ \A p \in Processes :
          procs[p].staged # Absent <=>
              procs[p].pc \in {"syncKeyFile", "link", "unstage", "syncFile", "rename"}

\* A damaged file may be there from the start.
FileInit ==
    /\ directory \in [Names -> {Absent, Torn}]
    /\ onDisk = [n \in Names |-> {directory[n]}]
    /\ procs = [p \in Processes |-> NoProc]
    /\ keysMade = 0

-----------------------------------------------------------------------------
(* The file system.                                                        *)

\* A change of the directory that only syncDirectory makes durable.
SetName(name, file) ==
    /\ directory' = [directory EXCEPT ![name] = file]
    /\ onDisk' = [onDisk EXCEPT ![name] = @ \cup {file}]

NamesUnchanged == UNCHANGED <<directory, onDisk>>

syncDirectory ==
    /\ onDisk' = [n \in Names |-> {directory[n]}]
    /\ UNCHANGED directory

\* What a file holds after a power loss.
Remains(file) ==
    IF file.kind = "written" THEN {[file EXCEPT !.kind = "synced"], Torn} ELSE {file}

Step(p, from, to) == procs[p].pc = from /\ procs' = [procs EXCEPT ![p].pc = to]

-----------------------------------------------------------------------------
(* New: deriveKey and fallbackKey.                                         *)

\* MkdirAll and securePath leave nothing behind that matters here.  That machineID
\* fails, or answers with nothing, is no error: New goes on to the key file.
New(p) ==
    /\ procs[p].pc = "off"
    /\ \/ \E id \in MachineIDs : procs' = [procs EXCEPT ![p].pc = "ready", ![p].key = id]
       \/ procs' = [procs EXCEPT ![p].pc = "readKey"]
    /\ NamesUnchanged
    /\ UNCHANGED keysMade

\* Bug: a key that was found is used without syncing the directory.
Bug_readFallbackKey(p) ==
    /\ procs[p].pc \in {"readKey", "reread"}
    /\ procs' = [procs EXCEPT ![p] =
          CASE directory["key"].kind \in {"written", "synced"} ->
                  [@ EXCEPT !.pc = "ready", !.key = directory["key"].key]
            [] directory["key"] = Absent /\ @.pc = "readKey" -> [@ EXCEPT !.pc = "generate"]
            [] OTHER -> NoProc]
    /\ NamesUnchanged
    /\ UNCHANGED keysMade

\* The first look, and the one after another process won the publication.  A
\* malformed key fails New.
readFallbackKey(p) ==
    /\ procs[p].pc \in {"readKey", "reread"}
    /\ procs' = [procs EXCEPT ![p] =
          CASE directory["key"].kind \in {"written", "synced"} ->
                  [@ EXCEPT !.pc = "syncKey", !.key = directory["key"].key]
            [] directory["key"] = Absent /\ @.pc = "readKey" -> [@ EXCEPT !.pc = "generate"]
            [] OTHER -> NoProc]
    /\ NamesUnchanged
    /\ UNCHANGED keysMade

GenerateKey(p) ==
    /\ keysMade < MaxKeys
    /\ keysMade' = keysMade + 1
    /\ procs[p].pc = "generate"
    /\ procs' = [procs EXCEPT ![p].pc = "writeKey", ![p].key = keysMade + 1]
    /\ NamesUnchanged

-----------------------------------------------------------------------------
(* stagePrivateFile, for either file.                                      *)

StagedFor == [writeKey |-> "syncKeyFile", write |-> "syncFile"]
SyncedFor == [syncKeyFile |-> "link", syncFile |-> "rename"]

\* CreateTemp, chmod and Write.
StageWrite(p) ==
    /\ procs[p].pc \in DOMAIN StagedFor
    /\ procs' = [procs EXCEPT ![p].pc = StagedFor[@],
                              ![p].staged = [kind |-> "written", key |-> procs[p].key,
                                             value |-> procs[p].value]]
    /\ NamesUnchanged
    /\ UNCHANGED keysMade

\* Bug: the temporary file is closed without Sync.
Bug_StageSync(p) ==
    /\ procs[p].pc \in DOMAIN SyncedFor
    /\ procs' = [procs EXCEPT ![p].pc = SyncedFor[@]]
    /\ NamesUnchanged
    /\ UNCHANGED keysMade

\* Sync and Close.
StageSync(p) ==
    /\ procs[p].pc \in DOMAIN SyncedFor
    /\ procs' = [procs EXCEPT ![p].pc = SyncedFor[@], ![p].staged.kind = "synced"]
    /\ NamesUnchanged
    /\ UNCHANGED keysMade

-----------------------------------------------------------------------------
(* publishFallbackKey.                                                     *)

\* os.Link does not replace: where there is a key, the staged one is removed and
\* the other is read.
Link(p) ==
    /\ procs[p].pc = "link"
    /\ IF directory["key"] = Absent
       THEN /\ procs' = [procs EXCEPT ![p].pc = "unstage"]
            /\ SetName("key", procs[p].staged)
       ELSE /\ procs' = [procs EXCEPT ![p].pc = "reread", ![p].staged = Absent]
            /\ NamesUnchanged
    /\ UNCHANGED keysMade

\* removeStagedFile after the publication.
Unstage(p) ==
    /\ procs[p].pc = "unstage"
    /\ procs' = [procs EXCEPT ![p].pc = "syncKey", ![p].staged = Absent]
    /\ NamesUnchanged
    /\ UNCHANGED keysMade

\* The directory is synced before any key is handed out.
SyncKey(p) ==
    /\ Step(p, "syncKey", "ready")
    /\ syncDirectory
    /\ UNCHANGED keysMade

-----------------------------------------------------------------------------
(* Save, Load and Delete.                                                  *)

SaveBegins(p) ==
    /\ procs[p].pc = "ready"
    /\ \E v \in Values : procs' = [procs EXCEPT ![p].pc = "write", ![p].value = v]
    /\ NamesUnchanged
    /\ UNCHANGED keysMade

Rename(p) ==
    /\ procs[p].pc = "rename"
    /\ procs' = [procs EXCEPT ![p].pc = "syncSave", ![p].staged = Absent]
    /\ SetName("tokens", procs[p].staged)
    /\ UNCHANGED keysMade

SyncSave(p) ==
    /\ Step(p, "syncSave", "saved")
    /\ syncDirectory
    /\ UNCHANGED keysMade

DeleteBegins(p) ==
    /\ Step(p, "ready", "remove")
    /\ NamesUnchanged
    /\ UNCHANGED keysMade

\* os.Remove; that there is no file is no error.
Remove(p) ==
    /\ Step(p, "remove", "deleted")
    /\ SetName("tokens", Absent)
    /\ UNCHANGED keysMade

\* Save or Delete returns nil.
Succeeds(p) ==
    /\ procs[p].pc \in {"saved", "deleted"}
    /\ procs' = [procs EXCEPT ![p].pc = "ready", ![p].value = NoValue]
    /\ NamesUnchanged
    /\ UNCHANGED keysMade

\* What Load makes of a token file: a value encrypted with another key, or a torn
\* file, is no state and no error.
Decrypt(file, key) ==
    IF file.kind \in {"written", "synced"} /\ file.key = key THEN file.value ELSE NoValue

Load(p) ==
    /\ procs[p].pc = "ready"
    /\ procs' = [procs EXCEPT ![p].loaded = Decrypt(directory["tokens"], procs[p].key)]
    /\ NamesUnchanged
    /\ UNCHANGED keysMade

-----------------------------------------------------------------------------
(* Failures.                                                               *)

\* A file-system call of New, Save or Delete fails before it had an effect, and
\* the staged file is removed, or left under a name nobody looks for.
Fail(p) ==
    /\ procs[p].pc \in NewSteps \cup (SaveSteps \ {"saved"}) \cup {"remove"}
    /\ procs' = [procs EXCEPT ![p] =
          IF @.pc \in NewSteps THEN NoProc
          ELSE [@ EXCEPT !.pc = "ready", !.staged = Absent, !.value = NoValue]]
    /\ NamesUnchanged
    /\ UNCHANGED keysMade

\* The process ends; the file system goes on.
Crash(p) ==
    /\ procs[p].pc # "off"
    /\ procs' = [procs EXCEPT ![p] = NoProc]
    /\ NamesUnchanged
    /\ UNCHANGED keysMade

PowerLoss ==
    /\ \E tokens \in UNION {Remains(f) : f \in onDisk["tokens"]},
          key \in UNION {Remains(f) : f \in onDisk["key"]} :
          directory' = [tokens |-> tokens, key |-> key]
    /\ onDisk' = [n \in Names |-> {directory'[n]}]
    /\ procs' = [p \in Processes |-> NoProc]
    /\ UNCHANGED keysMade

-----------------------------------------------------------------------------

NewNext(p) ==
    New(p) \/ readFallbackKey(p) \/ GenerateKey(p) \/ Link(p) \/ Unstage(p) \/ SyncKey(p)

CallNext(p) ==
    \/ SaveBegins(p) \/ Rename(p) \/ SyncSave(p) \/ DeleteBegins(p) \/ Remove(p)
    \/ Succeeds(p) \/ Load(p)

FileNext ==
    \/ \E p \in Processes :
          NewNext(p) \/ StageWrite(p) \/ StageSync(p) \/ CallNext(p) \/ Fail(p) \/ Crash(p)
    \/ PowerLoss

FileSpec == FileInit /\ [][FileNext]_fileVars

-----------------------------------------------------------------------------
(* Properties.                                                             *)

(* Processes that fall back at the same time end up with one key, although *)
(* each may have generated its own: whoever got a key that is not a        *)
(* machine's holds the one in the key file, and that file can no longer be *)
(* lost with the power (fallbackKeyWithReader).                            *)
OneKey ==
    \A p \in Processes :
        procs[p].pc \in KeySteps /\ procs[p].key \notin MachineIDs =>
            \A f \in onDisk["key"] : procs[p].key = f.key

\* The call that a process is in, as the contract sees it.
MappedCall(r) ==
    [op |-> IF r.pc \in SaveSteps THEN "save" ELSE IF r.pc \in DeleteSteps THEN "delete" ELSE "none",
     value |-> r.value,
     stage |-> IF r.pc = "saved" THEN "durable"
               ELSE IF r.pc \in {"syncSave", "deleted"} THEN "effective" ELSE "begun"]

\* How the contract tells keys apart, and the one that a process was given.
KeyName(key) == IF key \in MachineIDs THEN key ELSE FileKey
HeldKey(r) == IF r.pc \in KeySteps THEN KeyName(r.key) ELSE NoKey

\* What a token file holds beside a key file: nothing if no process that may come
\* could read it.
Contents(file, keyFile) ==
    IF file.kind \in {"written", "synced"} /\ file.key \in MachineIDs \cup {keyFile.key}
    THEN [value |-> file.value, key |-> KeyName(file.key)]
    ELSE [value |-> NoValue, key |-> NoKey]

\* The variables of the contract.
Stored == Contents(directory["tokens"], directory["key"])
Survivors ==
    {Contents(t, k) : t \in UNION {Remains(f) : f \in onDisk["tokens"]},
                      k \in UNION {Remains(f) : f \in onDisk["key"]}}
HeldKeys == [p \in Processes |-> HeldKey(procs[p])]
Calls == [p \in Processes |-> MappedCall(procs[p])]
Loaded == [p \in Processes |-> procs[p].loaded]

Contract == INSTANCE TokenStore WITH
    Clients <- Processes, Keys <- MachineIDs \cup {FileKey}, keys <- HeldKeys,
    stored <- Stored, survivors <- Survivors, calls <- Calls, loaded <- Loaded

(* The directory keeps the contract of TokenPersistence for all processes  *)
(* that got the same key, however often machineID fails: every Save        *)
(* replaces the state in one step, whoever loads with its key sees the     *)
(* last one published, a Save that returned survives a power loss, and a   *)
(* crash at any step leaves the state before or after it, never a torn or  *)
(* missing one, or one that a key got lost for.  To a process with another *)
(* key the store is empty, as the package comment says.                    *)
ImplementsContract == Contract!StoreSpec

=============================================================================
