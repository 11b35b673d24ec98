-------------------------- MODULE FileStoreProofs --------------------------
(***************************************************************************)
(* Proofs about FileStore for every set of processes and of states to save *)
(* and every number of keys, whatever machineID answers and however often  *)
(* it fails: processes that fall back to the key file agree on one key,    *)
(* and all processes together implement TokenStore through every crash and *)
(* power loss.                                                             *)
(***************************************************************************)
EXTENDS FileStore, TLAPS

-----------------------------------------------------------------------------
(* The inductive invariant.                                                *)

\* The steps of New with a key.
OwnKeySteps == {"writeKey", "syncKeyFile", "link", "unstage", "syncKey"}

\* Only synced files are ever published, and the key file is never replaced: a
\* power loss may take it away only as long as nobody synced the directory.
PublishedShape ==
    /\ \A n \in Names : \A f \in onDisk[n] : f.kind # "written"
    /\ onDisk["key"] \subseteq {Absent, directory["key"]}

\* A staged file holds the key and the value of its process, and is synced before
\* it is published.  A process has a value exactly while it is in a Save, and has
\* loaded something only if it has a Store.
StagedShape(r) ==
    /\ r.staged # Absent <=> r.pc \in {"syncKeyFile", "link", "unstage", "syncFile", "rename"}
    /\ r.staged # Absent => r.staged.key = r.key /\ r.staged.value = r.value
    /\ r.pc \in {"syncKeyFile", "syncFile"} => r.staged.kind = "written"
    /\ r.pc \in {"link", "unstage", "rename"} => r.staged.kind = "synced"
    /\ r.value # NoValue <=> r.pc \in SaveSteps
    /\ r.pc \notin KeySteps => r.loaded = NoValue

\* The key of a process in New is its own until it has published it or found
\* another; a process that New gave a key has a machine's or the only one that can
\* be on the disk.
KeyShape(r) ==
    /\ r.pc \in OwnKeySteps \cup KeySteps => r.key \in Keys
    /\ r.pc = "unstage" => directory["key"] = r.staged
    /\ r.pc = "syncKey" => directory["key"].key = r.key
    /\ r.pc \in KeySteps /\ r.key \notin MachineIDs => \A f \in onDisk["key"] : r.key = f.key

\* Whatever is on the disk can be read with a machine's key or with the key that is
\* on the disk.
TokensReadable ==
    \A t \in onDisk["tokens"], k \in onDisk["key"] :
        t.kind = "synced" => t.key \in MachineIDs \cup {k.key}

Inv ==
    /\ FileTypeOK
    /\ PublishedShape
    /\ \A p \in Processes : StagedShape(procs[p]) /\ KeyShape(procs[p])
    /\ TokensReadable

-----------------------------------------------------------------------------
(* Lemmas about the operators of the model.                                *)

USE FileStoreAssumption

(* 0, the key of a file that holds none, is not a key.                     *)
LEMMA KeyFacts ==
    MachineIDs \subseteq Keys /\ 0 \notin Keys /\ \A k \in 0..(MaxKeys - 1) : k + 1 \in Keys
  BY DEF Keys

(* What a file may be.                                                     *)
LEMMA FileFacts ==
    ASSUME NEW f \in Files
    PROVE  /\ f.kind \in {"absent", "torn", "written", "synced"}
           /\ f.kind = "absent" <=> f = Absent
           /\ f.kind \in {"absent", "torn"} => f.key = 0 /\ f.value = NoValue
           /\ f.kind \in {"written", "synced"} => f.key \in Keys
           /\ f.value \in Values \cup {NoValue}
  <1>1. CASE f = Absent
    BY <1>1 DEF Absent
  <1>2. CASE f = Torn
    BY <1>2 DEF Torn, Absent
  <1>3. CASE f \in Whole({"written", "synced"})
    BY <1>3 DEF Whole, Absent
  <1> QED
    BY <1>1, <1>2, <1>3 DEF Files

(* What a process writes or has synced is a file.                          *)
LEMMA WholeFacts ==
    /\ \A key \in Keys, value \in Values \cup {NoValue} :
          [kind |-> "written", key |-> key, value |-> value] \in Files
    /\ \A f \in Files : f.kind = "written" =>
          /\ [f EXCEPT !.kind = "synced"] \in Files
          /\ [f EXCEPT !.kind = "synced"].kind = "synced"
          /\ [f EXCEPT !.kind = "synced"].key = f.key
          /\ [f EXCEPT !.kind = "synced"].value = f.value
    /\ Absent \in Files /\ Torn \in Files
  <1>1. ASSUME NEW f \in Files, f.kind = "written"
        PROVE  f \in Whole({"written", "synced"})
    BY <1>1 DEF Files, Absent, Torn
  <1>2. ASSUME NEW f \in Whole({"written", "synced"})
        PROVE  /\ [f EXCEPT !.kind = "synced"] \in Whole({"written", "synced"})
               /\ [f EXCEPT !.kind = "synced"].kind = "synced"
               /\ [f EXCEPT !.kind = "synced"].key = f.key
               /\ [f EXCEPT !.kind = "synced"].value = f.value
    BY DEF Whole
  <1>3. ASSUME NEW key \in Keys, NEW value \in Values \cup {NoValue}
        PROVE  [kind |-> "written", key |-> key, value |-> value] \in Whole({"written", "synced"})
    BY DEF Whole
  <1> QED
    BY <1>1, <1>2, <1>3 DEF Files

(* A power loss does no harm to a file that was synced.                    *)
LEMMA RemainsFacts ==
    ASSUME NEW S \in SUBSET Files, \A f \in S : f.kind # "written"
    PROVE  UNION {Remains(f) : f \in S} = S
  BY DEF Remains

(* The updates of a process's record keep it well formed.                  *)
LEMMA ProcUpdates ==
    ASSUME NEW r \in Procs
    PROVE  /\ \A pc \in Steps : [r EXCEPT !.pc = pc] \in Procs
           /\ \A pc \in Steps, key \in Keys : [r EXCEPT !.pc = pc, !.key = key] \in Procs
           /\ \A pc \in Steps, f \in Files : [r EXCEPT !.pc = pc, !.staged = f] \in Procs
           /\ \A pc \in Steps, v \in Values \cup {NoValue} :
                 [r EXCEPT !.pc = pc, !.value = v] \in Procs
           /\ \A v \in Values \cup {NoValue} : [r EXCEPT !.loaded = v] \in Procs
           /\ \A pc \in Steps : [r EXCEPT !.pc = pc, !.staged = Absent, !.value = NoValue] \in Procs
           /\ NoProc \in Procs
  <1>1. Absent \in Files /\ NoValue \in Values \cup {NoValue}
    BY DEF Files
  <1>2. NoProc \in Procs
    BY <1>1 DEF NoProc, Procs, Steps
  <1> QED
    BY <1>1, <1>2, Zenon DEF Procs

-----------------------------------------------------------------------------
(* Steps of one process that leave the directory alone.                    *)

(* Such a step keeps the invariant if it keeps that process's part of it.  *)
LEMMA OneProcess ==
    ASSUME Inv, NEW p \in Processes, NEW r \in Procs, procs' = [procs EXCEPT ![p] = r],
           UNCHANGED <<directory, onDisk>>, keysMade' \in 0..MaxKeys,
           StagedShape(r), KeyShape(r)
    PROVE  Inv'
  <1>1. procs' \in [Processes -> Procs] /\ procs'[p] = r
    BY DEF Inv, FileTypeOK
  <1>2. \A q \in Processes : q # p => procs'[q] = procs[q]
    BY DEF Inv, FileTypeOK
  <1>3. \A q \in Processes : StagedShape(procs'[q]) /\ KeyShape(procs'[q])
    BY <1>1, <1>2 DEF Inv
  <1>4. FileTypeOK'
    BY <1>1, <1>3 DEF Inv, FileTypeOK, StagedShape
  <1>5. PublishedShape' /\ TokensReadable'
    BY DEF Inv, PublishedShape, TokensReadable
  <1>6. ASSUME NEW q \in Processes
        PROVE  (StagedShape(procs[q]) /\ KeyShape(procs[q]))'
    BY <1>3 DEF StagedShape, KeyShape
  <1> QED
    BY <1>4, <1>5, <1>6 DEF Inv

(* What the invariant says of one process.                                 *)
LEMMA ProcFacts ==
    ASSUME Inv, NEW p \in Processes
    PROVE  /\ procs[p] \in Procs
           /\ StagedShape(procs[p])
           /\ KeyShape(procs[p])
           /\ directory["key"] \in Files
           /\ directory["key"] \in onDisk["key"]
           /\ directory["tokens"] \in Files
           /\ directory["tokens"] \in onDisk["tokens"]
           /\ onDisk["key"] \subseteq Files
           /\ onDisk["tokens"] \subseteq Files
  BY DEF Inv, FileTypeOK, Names

(* A process without a Store satisfies its part of the invariant.          *)
LEMMA EndedFacts ==
    ASSUME Inv
    PROVE  NoProc \in Procs /\ StagedShape(NoProc) /\ KeyShape(NoProc) /\ NoProc.pc = "off"
  <1>1. NoProc \in Procs
    BY WholeFacts DEF NoProc, Procs, Steps
  <1>2. /\ NoProc.pc = "off" /\ NoProc.staged = Absent
        /\ NoProc.value = NoValue /\ NoProc.loaded = NoValue
    BY DEF NoProc
  <1> QED
    BY <1>1, <1>2 DEF StagedShape, KeyShape, NewSteps, SaveSteps, DeleteSteps, OwnKeySteps, KeySteps

(* The process ends.                                                       *)
LEMMA CrashStep ==
    ASSUME Inv, NEW p \in Processes, Crash(p)
    PROVE  Inv'
  BY EndedFacts, OneProcess DEF Crash, NamesUnchanged, Inv, FileTypeOK

(* New derives a key from the machine's ID, or goes on to the key file.    *)
LEMMA NewStep ==
    ASSUME Inv, NEW p \in Processes, New(p)
    PROVE  Inv'
  <1> USE DEF New, NamesUnchanged, NewSteps, SaveSteps, DeleteSteps, OwnKeySteps, KeySteps
  <1>1. ASSUME NEW id \in MachineIDs, procs' = [procs EXCEPT ![p].pc = "ready", ![p].key = id]
        PROVE  Inv'
    <2> DEFINE r == [procs[p] EXCEPT !.pc = "ready", !.key = id]
    <2>1. r \in Procs
      BY ProcFacts, ProcUpdates, KeyFacts DEF Steps
    <2>2. procs' = [procs EXCEPT ![p] = r]
      BY <1>1 DEF Inv, FileTypeOK
    <2>3. /\ r.pc = "ready" /\ r.key = id
          /\ r.staged = procs[p].staged /\ r.value = procs[p].value
      BY ProcFacts DEF Procs
    <2> HIDE DEF r
    <2>4. StagedShape(r)
      BY <2>3, ProcFacts DEF StagedShape
    <2>5. KeyShape(r)
      BY <2>3, KeyFacts DEF KeyShape
    <2> QED
      BY <2>1, <2>2, <2>4, <2>5, OneProcess DEF Inv, FileTypeOK
  <1>2. CASE procs' = [procs EXCEPT ![p].pc = "readKey"]
    <2> DEFINE r == [procs[p] EXCEPT !.pc = "readKey"]
    <2>1. r \in Procs
      BY ProcFacts, ProcUpdates DEF Steps
    <2>2. procs' = [procs EXCEPT ![p] = r]
      BY <1>2 DEF Inv, FileTypeOK
    <2>3. /\ r.pc = "readKey" /\ r.staged = procs[p].staged
          /\ r.value = procs[p].value /\ r.loaded = procs[p].loaded
      BY ProcFacts DEF Procs
    <2> HIDE DEF r
    <2>4. StagedShape(r)
      BY <2>3, ProcFacts DEF StagedShape
    <2>5. KeyShape(r)
      BY <2>3 DEF KeyShape
    <2> QED
      BY <2>1, <2>2, <2>4, <2>5, OneProcess DEF Inv, FileTypeOK
  <1> QED
    BY <1>1, <1>2

(* A key that is read is the one in the key file; it is handed out later,  *)
(* when the directory was synced.                                          *)
LEMMA readFallbackKeyStep ==
    ASSUME Inv, NEW p \in Processes, readFallbackKey(p)
    PROVE  Inv'
  <1> USE DEF NewSteps, SaveSteps, DeleteSteps, OwnKeySteps, KeySteps
  <1>0. UNCHANGED <<directory, onDisk>> /\ keysMade' \in 0..MaxKeys
    BY DEF readFallbackKey, NamesUnchanged, Inv, FileTypeOK
  <1>1. CASE directory["key"].kind \in {"written", "synced"}
    <2> DEFINE r == [procs[p] EXCEPT !.pc = "syncKey", !.key = directory["key"].key]
    <2>1. directory["key"].key \in Keys
      BY <1>1, ProcFacts, FileFacts
    <2>2. r \in Procs
      BY <2>1, ProcFacts, ProcUpdates DEF Steps
    <2>3. procs' = [procs EXCEPT ![p] = r]
      <3>1. directory["key"] # Absent
        BY <1>1 DEF Absent
      <3> QED
        BY <1>1, <3>1, Zenon DEF readFallbackKey
    <2>4. /\ r.pc = "syncKey" /\ r.key = directory["key"].key
          /\ r.staged = procs[p].staged /\ r.value = procs[p].value /\ r.loaded = procs[p].loaded
      BY ProcFacts DEF Procs
    <2> HIDE DEF r
    <2>5. StagedShape(r)
      BY <2>4, ProcFacts DEF StagedShape, readFallbackKey
    <2>6. KeyShape(r)
      BY <2>1, <2>4, ProcFacts DEF KeyShape, readFallbackKey
    <2> QED
      BY <1>0, <2>2, <2>3, <2>5, <2>6, OneProcess
  <1>2. CASE directory["key"] = Absent /\ procs[p].pc = "readKey"
    <2> DEFINE r == [procs[p] EXCEPT !.pc = "generate"]
    <2>1. r \in Procs
      BY ProcFacts, ProcUpdates DEF Steps
    <2>2. procs' = [procs EXCEPT ![p] = r]
      BY <1>2 DEF readFallbackKey, Absent
    <2>3. /\ r.pc = "generate" /\ r.staged = procs[p].staged
          /\ r.value = procs[p].value /\ r.loaded = procs[p].loaded
      BY ProcFacts DEF Procs
    <2> HIDE DEF r
    <2>4. StagedShape(r)
      BY <1>2, <2>3, ProcFacts DEF StagedShape
    <2>5. KeyShape(r)
      BY <1>2, <2>3, ProcFacts DEF KeyShape
    <2> QED
      BY <1>0, <2>1, <2>2, <2>4, <2>5, OneProcess
  <1>3. CASE /\ directory["key"].kind \notin {"written", "synced"}
             /\ ~(directory["key"] = Absent /\ procs[p].pc = "readKey")
    <2>1. procs' = [procs EXCEPT ![p] = NoProc]
      BY <1>3 DEF readFallbackKey
    <2> QED
      BY <1>0, <2>1, EndedFacts, OneProcess
  <1> QED
    BY <1>1, <1>2, <1>3

(* A fresh key is its process's own.                                       *)
LEMMA GenerateKeyStep ==
    ASSUME Inv, NEW p \in Processes, GenerateKey(p)
    PROVE  Inv'
  <1> USE DEF NewSteps, SaveSteps, DeleteSteps, OwnKeySteps, KeySteps
  <1> DEFINE r == [procs[p] EXCEPT !.pc = "writeKey", !.key = keysMade + 1]
  <1>1. keysMade + 1 \in Keys /\ keysMade' \in 0..MaxKeys
    BY DEF GenerateKey, Inv, FileTypeOK, Keys
  <1>2. r \in Procs
    BY <1>1, ProcFacts, ProcUpdates DEF Steps
  <1>3. procs' = [procs EXCEPT ![p] = r]
    BY DEF GenerateKey, Inv, FileTypeOK
  <1>4. /\ r.pc = "writeKey" /\ r.key \in Keys
        /\ r.staged = procs[p].staged /\ r.value = procs[p].value /\ r.loaded = procs[p].loaded
    BY <1>1, ProcFacts DEF Procs
  <1> HIDE DEF r
  <1>5. StagedShape(r)
    BY <1>4, ProcFacts DEF StagedShape, GenerateKey
  <1>6. KeyShape(r)
    BY <1>4, ProcFacts DEF KeyShape, GenerateKey
  <1> QED
    BY <1>1, <1>2, <1>3, <1>5, <1>6, OneProcess DEF GenerateKey, NamesUnchanged

(* The steps of stagePrivateFile.                                          *)
LEMMA StagingSteps ==
    /\ DOMAIN StagedFor = {"writeKey", "write"}
    /\ StagedFor["writeKey"] = "syncKeyFile" /\ StagedFor["write"] = "syncFile"
    /\ DOMAIN SyncedFor = {"syncKeyFile", "syncFile"}
    /\ SyncedFor["syncKeyFile"] = "link" /\ SyncedFor["syncFile"] = "rename"
  BY DEF StagedFor, SyncedFor

(* A process stages its own key, or its value under its key.               *)
LEMMA StageWriteStep ==
    ASSUME Inv, NEW p \in Processes, StageWrite(p)
    PROVE  Inv'
  <1> USE DEF NewSteps, SaveSteps, DeleteSteps, OwnKeySteps, KeySteps
  <1> DEFINE file == [kind |-> "written", key |-> procs[p].key, value |-> procs[p].value]
             r == [procs[p] EXCEPT !.pc = StagedFor[procs[p].pc], !.staged = file]
  <1>1. procs[p].pc \in {"writeKey", "write"}
    BY StagingSteps DEF StageWrite
  <1>2. procs[p].key \in Keys /\ procs[p].value \in Values \cup {NoValue}
    BY <1>1, ProcFacts DEF KeyShape, Procs
  <1>3. file \in Files /\ file # Absent
    BY <1>2, WholeFacts DEF Absent
  <1>4. file.kind = "written" /\ file.key = procs[p].key /\ file.value = procs[p].value
    OBVIOUS
  <1> HIDE DEF file
  <1>5. StagedFor[procs[p].pc] \in Steps
    BY <1>1, StagingSteps DEF Steps
  <1>6. r \in Procs
    BY <1>3, <1>5, ProcFacts, ProcUpdates
  <1>7. procs' = [procs EXCEPT ![p] = r]
    BY DEF StageWrite, Inv, FileTypeOK, file
  <1>8. /\ r.pc = StagedFor[procs[p].pc] /\ r.key = procs[p].key
        /\ r.staged = file /\ r.value = procs[p].value /\ r.loaded = procs[p].loaded
    BY ProcFacts DEF Procs
  <1> HIDE DEF r
  <1>9. StagedShape(r)
    BY <1>1, <1>3, <1>4, <1>8, StagingSteps, ProcFacts DEF StagedShape
  <1>10. KeyShape(r)
    BY <1>1, <1>8, StagingSteps, ProcFacts DEF KeyShape
  <1> QED
    BY <1>6, <1>7, <1>9, <1>10, OneProcess DEF StageWrite, NamesUnchanged, Inv, FileTypeOK

(* The staged file is synced before it can be published.                   *)
LEMMA StageSyncStep ==
    ASSUME Inv, NEW p \in Processes, StageSync(p)
    PROVE  Inv'
  <1> USE DEF NewSteps, SaveSteps, DeleteSteps, OwnKeySteps, KeySteps
  <1> DEFINE file == [procs[p].staged EXCEPT !.kind = "synced"]
             r == [procs[p] EXCEPT !.pc = SyncedFor[procs[p].pc], !.staged = file]
  <1>1. procs[p].pc \in {"syncKeyFile", "syncFile"}
    BY StagingSteps DEF StageSync
  <1>2. procs[p].staged \in Files /\ procs[p].staged # Absent /\ procs[p].staged.kind = "written"
    BY <1>1, ProcFacts DEF StagedShape, Procs
  <1>3. /\ file \in Files /\ file.kind = "synced"
        /\ file.key = procs[p].key /\ file.value = procs[p].value
    BY <1>2, WholeFacts, ProcFacts DEF StagedShape
  <1>4. procs' = [procs EXCEPT ![p] = r]
    BY DEF StageSync, Inv, FileTypeOK
  <1> HIDE DEF file
  <1>5. file # Absent
    BY <1>3 DEF Absent
  <1>6. SyncedFor[procs[p].pc] \in Steps
    BY <1>1, StagingSteps DEF Steps
  <1>7. r \in Procs
    BY <1>3, <1>6, ProcFacts, ProcUpdates
  <1>8. /\ r.pc = SyncedFor[procs[p].pc] /\ r.key = procs[p].key
        /\ r.staged = file /\ r.value = procs[p].value /\ r.loaded = procs[p].loaded
    BY ProcFacts DEF Procs
  <1> HIDE DEF r
  <1>9. StagedShape(r)
    BY <1>1, <1>3, <1>5, <1>8, StagingSteps, ProcFacts DEF StagedShape
  <1>10. KeyShape(r)
    BY <1>1, <1>8, StagingSteps, ProcFacts DEF KeyShape
  <1> QED
    BY <1>4, <1>7, <1>9, <1>10, OneProcess DEF StageSync, NamesUnchanged, Inv, FileTypeOK

(* The key that a process published is the one in the directory.           *)
LEMMA UnstageStep ==
    ASSUME Inv, NEW p \in Processes, Unstage(p)
    PROVE  Inv'
  <1> USE DEF NewSteps, SaveSteps, DeleteSteps, OwnKeySteps, KeySteps
  <1> DEFINE r == [procs[p] EXCEPT !.pc = "syncKey", !.staged = Absent]
  <1>1. r \in Procs
    BY ProcFacts, ProcUpdates, WholeFacts DEF Steps
  <1>2. procs' = [procs EXCEPT ![p] = r]
    BY DEF Unstage, Inv, FileTypeOK
  <1>3. /\ r.pc = "syncKey" /\ r.key = procs[p].key /\ r.staged = Absent
        /\ r.value = procs[p].value /\ r.loaded = procs[p].loaded
    BY ProcFacts DEF Procs
  <1> HIDE DEF r
  <1>4. StagedShape(r)
    BY <1>3, ProcFacts DEF StagedShape, Unstage
  <1>5. KeyShape(r)
    BY <1>3, ProcFacts DEF StagedShape, KeyShape, Unstage
  <1> QED
    BY <1>1, <1>2, <1>4, <1>5, OneProcess DEF Unstage, NamesUnchanged, Inv, FileTypeOK

(* A Save begins.                                                          *)
LEMMA SaveBeginsStep ==
    ASSUME Inv, NEW p \in Processes, SaveBegins(p)
    PROVE  Inv'
  <1> USE DEF NewSteps, SaveSteps, DeleteSteps, OwnKeySteps, KeySteps
  <1>1. PICK v \in Values : procs' = [procs EXCEPT ![p].pc = "write", ![p].value = v]
    BY DEF SaveBegins
  <1> DEFINE r == [procs[p] EXCEPT !.pc = "write", !.value = v]
  <1>2. r \in Procs
    BY ProcFacts, ProcUpdates DEF Steps
  <1>3. procs' = [procs EXCEPT ![p] = r]
    BY <1>1 DEF Inv, FileTypeOK
  <1>4. r.pc = "write" /\ r.key = procs[p].key /\ r.staged = procs[p].staged /\ r.value = v
    BY ProcFacts DEF Procs
  <1> HIDE DEF r
  <1>5. StagedShape(r)
    BY <1>4, ProcFacts DEF StagedShape, SaveBegins
  <1>6. KeyShape(r)
    BY <1>4, ProcFacts DEF KeyShape, SaveBegins
  <1> QED
    BY <1>2, <1>3, <1>5, <1>6, OneProcess DEF SaveBegins, NamesUnchanged, Inv, FileTypeOK

(* A Delete begins.                                                        *)
LEMMA DeleteBeginsStep ==
    ASSUME Inv, NEW p \in Processes, DeleteBegins(p)
    PROVE  Inv'
  <1> USE DEF NewSteps, SaveSteps, DeleteSteps, OwnKeySteps, KeySteps
  <1> DEFINE r == [procs[p] EXCEPT !.pc = "remove"]
  <1>1. r \in Procs
    BY ProcFacts, ProcUpdates DEF Steps
  <1>2. procs' = [procs EXCEPT ![p] = r]
    BY DEF DeleteBegins, Step, Inv, FileTypeOK
  <1>3. /\ r.pc = "remove" /\ r.key = procs[p].key
        /\ r.staged = procs[p].staged /\ r.value = procs[p].value /\ r.loaded = procs[p].loaded
    BY ProcFacts DEF Procs
  <1> HIDE DEF r
  <1>4. StagedShape(r)
    BY <1>3, ProcFacts DEF StagedShape, DeleteBegins, Step
  <1>5. KeyShape(r)
    BY <1>3, ProcFacts DEF KeyShape, DeleteBegins, Step
  <1> QED
    BY <1>1, <1>2, <1>4, <1>5, OneProcess DEF DeleteBegins, NamesUnchanged, Inv, FileTypeOK

(* A Save or a Delete returns.                                             *)
LEMMA SucceedsStep ==
    ASSUME Inv, NEW p \in Processes, Succeeds(p)
    PROVE  Inv'
  <1> USE DEF NewSteps, SaveSteps, DeleteSteps, OwnKeySteps, KeySteps
  <1> DEFINE r == [procs[p] EXCEPT !.pc = "ready", !.value = NoValue]
  <1>1. r \in Procs
    BY ProcFacts, ProcUpdates DEF Steps
  <1>2. procs' = [procs EXCEPT ![p] = r]
    BY DEF Succeeds, Inv, FileTypeOK
  <1>3. r.pc = "ready" /\ r.key = procs[p].key /\ r.staged = procs[p].staged /\ r.value = NoValue
    BY ProcFacts DEF Procs
  <1> HIDE DEF r
  <1>4. StagedShape(r)
    BY <1>3, ProcFacts DEF StagedShape, Succeeds
  <1>5. KeyShape(r)
    BY <1>3, ProcFacts DEF KeyShape, Succeeds
  <1> QED
    BY <1>1, <1>2, <1>4, <1>5, OneProcess DEF Succeeds, NamesUnchanged, Inv, FileTypeOK

(* A Load changes nothing but what its process was told.                   *)
LEMMA LoadStep ==
    ASSUME Inv, NEW p \in Processes, Load(p)
    PROVE  Inv'
  <1> DEFINE v == Decrypt(directory["tokens"], procs[p].key)
             r == [procs[p] EXCEPT !.loaded = v]
  <1>1. v \in Values \cup {NoValue}
    BY ProcFacts, FileFacts DEF Decrypt
  <1>2. procs' = [procs EXCEPT ![p] = r]
    BY DEF Load, Inv, FileTypeOK
  <1> HIDE DEF v
  <1>3. r \in Procs
    BY <1>1, ProcFacts, ProcUpdates
  <1>4. /\ r.pc = procs[p].pc /\ r.key = procs[p].key
        /\ r.staged = procs[p].staged /\ r.value = procs[p].value
    BY ProcFacts DEF Procs
  <1> HIDE DEF r
  <1>5. StagedShape(r)
    BY <1>4, ProcFacts DEF StagedShape, Load, KeySteps
  <1>6. KeyShape(r)
    BY <1>4, ProcFacts DEF KeyShape
  <1> QED
    BY <1>2, <1>3, <1>5, <1>6, OneProcess DEF Load, NamesUnchanged, Inv, FileTypeOK

(* A call fails: New leaves no Store, Save and Delete leave one.           *)
LEMMA FailStep ==
    ASSUME Inv, NEW p \in Processes, Fail(p)
    PROVE  Inv'
  <1>0. UNCHANGED <<directory, onDisk>> /\ keysMade' \in 0..MaxKeys
    BY DEF Fail, NamesUnchanged, Inv, FileTypeOK
  <1>1. CASE procs[p].pc \in NewSteps
    <2>1. procs' = [procs EXCEPT ![p] = NoProc]
      BY <1>1 DEF Fail
    <2> QED
      BY <1>0, <2>1, EndedFacts, OneProcess
  <1>2. CASE procs[p].pc \notin NewSteps
    <2> USE DEF NewSteps, SaveSteps, DeleteSteps, OwnKeySteps, KeySteps
    <2> DEFINE r == [procs[p] EXCEPT !.pc = "ready", !.staged = Absent, !.value = NoValue]
    <2>1. r \in Procs
      BY ProcFacts, ProcUpdates DEF Steps
    <2>2. procs' = [procs EXCEPT ![p] = r]
      BY <1>2 DEF Fail
    <2>3. r.pc = "ready" /\ r.key = procs[p].key /\ r.staged = Absent /\ r.value = NoValue
      BY ProcFacts DEF Procs
    <2> HIDE DEF r
    <2>4. StagedShape(r)
      BY <2>3 DEF StagedShape
    <2>5. KeyShape(r)
      BY <1>2, <2>3, ProcFacts DEF KeyShape, Fail
    <2> QED
      BY <1>0, <2>1, <2>2, <2>4, <2>5, OneProcess
  <1> QED
    BY <1>1, <1>2

-----------------------------------------------------------------------------
(* Steps that change the directory, or make it durable.                    *)

(* A step of p that publishes a token file keeps the invariant if the file *)
(* can be read with the key on the disk; fewer survivors do no harm.       *)
LEMMA TokensChange ==
    ASSUME Inv, NEW p \in Processes, NEW r \in Procs, procs' = [procs EXCEPT ![p] = r],
           UNCHANGED keysMade, StagedShape(r), KeyShape(procs[p])',
           directory' \in [Names -> Files], onDisk' \in [Names -> SUBSET Files],
           \A n \in Names : directory'[n] \in onDisk'[n],
           directory'["key"] = directory["key"], onDisk'["key"] \subseteq onDisk["key"],
           \A t \in onDisk'["tokens"] :
              /\ t.kind # "written"
              /\ t.kind = "synced" => \A k \in onDisk["key"] : t.key \in MachineIDs \cup {k.key}
    PROVE  Inv'
  <1>1. procs' \in [Processes -> Procs] /\ procs'[p] = r
    BY DEF Inv, FileTypeOK
  <1>2. \A q \in Processes : q # p => procs'[q] = procs[q]
    BY DEF Inv, FileTypeOK
  <1>3. \A q \in Processes : StagedShape(procs'[q])
    BY <1>1, <1>2 DEF Inv
  <1>4. FileTypeOK'
    BY <1>1, <1>3 DEF Inv, FileTypeOK, StagedShape
  <1>5. PublishedShape'
    BY DEF Inv, PublishedShape, Names
  <1>6. TokensReadable'
    BY DEF Inv, TokensReadable
  <1>7. ASSUME NEW q \in Processes
        PROVE  StagedShape(procs[q])'
    BY <1>3 DEF StagedShape
  <1>8. ASSUME NEW q \in Processes
        PROVE  KeyShape(procs[q])'
    <2>1. CASE q = p
      BY <2>1
    <2>2. CASE q # p
      BY <1>2, <2>2 DEF Inv, KeyShape
    <2> QED
      BY <2>1, <2>2
  <1> QED
    BY <1>4, <1>5, <1>6, <1>7, <1>8 DEF Inv

(* syncDirectory leaves each name one survivor, the file it has.           *)
LEMMA syncDirectoryFacts ==
    ASSUME Inv, syncDirectory
    PROVE  /\ directory' = directory
           /\ directory' \in [Names -> Files]
           /\ onDisk' \in [Names -> SUBSET Files]
           /\ \A n \in Names : onDisk'[n] = {directory[n]} /\ directory'[n] \in onDisk'[n]
           /\ onDisk'["key"] = {directory["key"]} /\ onDisk'["tokens"] = {directory["tokens"]}
           /\ onDisk'["key"] \subseteq onDisk["key"]
           /\ \A t \in onDisk'["tokens"] :
                 /\ t.kind # "written"
                 /\ t.kind = "synced" => \A k \in onDisk["key"] : t.key \in MachineIDs \cup {k.key}
  <1>1. /\ onDisk' = [n \in Names |-> {directory[n]}] /\ directory' = directory
        /\ directory \in [Names -> Files] /\ \A n \in Names : directory[n] \in onDisk[n]
    BY DEF syncDirectory, Inv, FileTypeOK
  <1>2. onDisk'["key"] = {directory["key"]} /\ onDisk'["tokens"] = {directory["tokens"]}
    BY <1>1 DEF Names
  <1>3. directory["key"] \in onDisk["key"] /\ directory["tokens"] \in onDisk["tokens"]
    BY <1>1 DEF Names
  <1>4. \A t \in onDisk'["tokens"] :
           /\ t.kind # "written"
           /\ t.kind = "synced" => \A k \in onDisk["key"] : t.key \in MachineIDs \cup {k.key}
    BY <1>2, <1>3 DEF Inv, PublishedShape, TokensReadable, Names
  <1> QED
    BY <1>1, <1>2, <1>3, <1>4

(* SetName adds one survivor.                                              *)
LEMMA SetNameFacts ==
    ASSUME Inv, NEW name \in Names, NEW file \in Files, SetName(name, file)
    PROVE  /\ directory' \in [Names -> Files]
           /\ onDisk' \in [Names -> SUBSET Files]
           /\ \A n \in Names : directory'[n] \in onDisk'[n]
           /\ directory'[name] = file /\ onDisk'[name] = onDisk[name] \cup {file}
           /\ \A n \in Names : n # name => directory'[n] = directory[n] /\ onDisk'[n] = onDisk[n]
  BY DEF SetName, Inv, FileTypeOK

(* The key that is handed out is the only one that is left on the disk.    *)
LEMMA SyncKeyStep ==
    ASSUME Inv, NEW p \in Processes, SyncKey(p)
    PROVE  Inv'
  <1> USE DEF NewSteps, SaveSteps, DeleteSteps, OwnKeySteps, KeySteps
  <1> DEFINE r == [procs[p] EXCEPT !.pc = "ready"]
  <1>1. r \in Procs
    BY ProcFacts, ProcUpdates DEF Steps
  <1>2. procs' = [procs EXCEPT ![p] = r] /\ procs'[p] = r
    BY DEF SyncKey, Step, Inv, FileTypeOK
  <1>3. /\ r.pc = "ready" /\ r.key = procs[p].key
        /\ r.staged = procs[p].staged /\ r.value = procs[p].value /\ r.loaded = procs[p].loaded
    BY ProcFacts DEF Procs
  <1> HIDE DEF r
  <1>4. StagedShape(r)
    BY <1>3, ProcFacts DEF StagedShape, SyncKey, Step
  <1>5. KeyShape(procs[p])'
    BY <1>2, <1>3, ProcFacts, syncDirectoryFacts DEF KeyShape, SyncKey, Step
  <1> QED
    BY <1>1, <1>2, <1>4, <1>5, TokensChange, syncDirectoryFacts DEF SyncKey

(* A Save syncs the directory.                                             *)
LEMMA SyncSaveStep ==
    ASSUME Inv, NEW p \in Processes, SyncSave(p)
    PROVE  Inv'
  <1> USE DEF NewSteps, SaveSteps, DeleteSteps, OwnKeySteps, KeySteps
  <1> DEFINE r == [procs[p] EXCEPT !.pc = "saved"]
  <1>1. r \in Procs
    BY ProcFacts, ProcUpdates DEF Steps
  <1>2. procs' = [procs EXCEPT ![p] = r] /\ procs'[p] = r
    BY DEF SyncSave, Step, Inv, FileTypeOK
  <1>3. /\ r.pc = "saved" /\ r.key = procs[p].key
        /\ r.staged = procs[p].staged /\ r.value = procs[p].value /\ r.loaded = procs[p].loaded
    BY ProcFacts DEF Procs
  <1> HIDE DEF r
  <1>4. StagedShape(r)
    BY <1>3, ProcFacts DEF StagedShape, SyncSave, Step
  <1>5. KeyShape(procs[p])'
    BY <1>2, <1>3, ProcFacts, syncDirectoryFacts DEF KeyShape, SyncSave, Step
  <1> QED
    BY <1>1, <1>2, <1>4, <1>5, TokensChange, syncDirectoryFacts DEF SyncSave

(* What is published was encrypted with a machine's key, or with the one   *)
(* of everybody else.                                                      *)
LEMMA RenameStep ==
    ASSUME Inv, NEW p \in Processes, Rename(p)
    PROVE  Inv'
  <1> USE DEF NewSteps, SaveSteps, DeleteSteps, OwnKeySteps, KeySteps
  <1> DEFINE r == [procs[p] EXCEPT !.pc = "syncSave", !.staged = Absent]
  <1>1. r \in Procs
    BY ProcFacts, ProcUpdates, WholeFacts DEF Steps
  <1>2. procs' = [procs EXCEPT ![p] = r] /\ procs'[p] = r
    BY DEF Rename, Inv, FileTypeOK
  <1>3. /\ r.pc = "syncSave" /\ r.key = procs[p].key /\ r.staged = Absent
        /\ r.value = procs[p].value /\ r.loaded = procs[p].loaded
    BY ProcFacts DEF Procs
  <1> HIDE DEF r
  <1>4. StagedShape(r)
    BY <1>3, ProcFacts DEF StagedShape, Rename
  <1>5. /\ procs[p].staged \in Files
        /\ procs[p].staged.kind = "synced"
        /\ \A k \in onDisk["key"] : procs[p].staged.key \in MachineIDs \cup {k.key}
    BY ProcFacts DEF StagedShape, KeyShape, Rename, Procs
  <1>6. /\ directory' \in [Names -> Files] /\ onDisk' \in [Names -> SUBSET Files]
        /\ \A n \in Names : directory'[n] \in onDisk'[n]
        /\ directory'["key"] = directory["key"] /\ onDisk'["key"] = onDisk["key"]
        /\ onDisk'["tokens"] = onDisk["tokens"] \cup {procs[p].staged}
    BY <1>5, SetNameFacts DEF Rename, Names
  <1>7. KeyShape(procs[p])'
    BY <1>2, <1>3, <1>6, ProcFacts DEF KeyShape, Rename
  <1>8. \A t \in onDisk'["tokens"] :
           /\ t.kind # "written"
           /\ t.kind = "synced" => \A k \in onDisk["key"] : t.key \in MachineIDs \cup {k.key}
    BY <1>5, <1>6 DEF Inv, PublishedShape, TokensReadable, Names
  <1> QED
    BY <1>1, <1>2, <1>4, <1>6, <1>7, <1>8, TokensChange DEF Rename

(* A removed file holds nothing that would have to be readable.            *)
LEMMA RemoveStep ==
    ASSUME Inv, NEW p \in Processes, Remove(p)
    PROVE  Inv'
  <1> USE DEF NewSteps, SaveSteps, DeleteSteps, OwnKeySteps, KeySteps
  <1> DEFINE r == [procs[p] EXCEPT !.pc = "deleted"]
  <1>1. r \in Procs
    BY ProcFacts, ProcUpdates DEF Steps
  <1>2. procs' = [procs EXCEPT ![p] = r] /\ procs'[p] = r
    BY DEF Remove, Step, Inv, FileTypeOK
  <1>3. /\ r.pc = "deleted" /\ r.key = procs[p].key
        /\ r.staged = procs[p].staged /\ r.value = procs[p].value /\ r.loaded = procs[p].loaded
    BY ProcFacts DEF Procs
  <1> HIDE DEF r
  <1>4. StagedShape(r)
    BY <1>3, ProcFacts DEF StagedShape, Remove, Step
  <1>5. /\ directory' \in [Names -> Files] /\ onDisk' \in [Names -> SUBSET Files]
        /\ \A n \in Names : directory'[n] \in onDisk'[n]
        /\ directory'["key"] = directory["key"] /\ onDisk'["key"] = onDisk["key"]
        /\ onDisk'["tokens"] = onDisk["tokens"] \cup {Absent}
    BY WholeFacts, SetNameFacts DEF Remove, Names
  <1>6. KeyShape(procs[p])'
    BY <1>2, <1>3, <1>5, ProcFacts DEF KeyShape, Remove, Step
  <1>7. \A t \in onDisk'["tokens"] :
           /\ t.kind # "written"
           /\ t.kind = "synced" => \A k \in onDisk["key"] : t.key \in MachineIDs \cup {k.key}
    BY <1>5 DEF Inv, PublishedShape, TokensReadable, Names, Absent
  <1> QED
    BY <1>1, <1>2, <1>4, <1>5, <1>6, <1>7, TokensChange DEF Remove

(* Nobody has a key but a machine's, and nothing is encrypted with one,    *)
(* while there is no key file.                                             *)
LEMMA NoKeyYet ==
    ASSUME Inv, directory["key"] = Absent
    PROVE  /\ onDisk["key"] = {Absent}
           /\ \A q \in Processes :
                 /\ procs[q].pc \notin {"unstage", "syncKey"}
                 /\ procs[q].pc \in KeySteps => procs[q].key \in MachineIDs
           /\ \A t \in onDisk["tokens"] : t.kind = "synced" => t.key \in MachineIDs
  <1>1. onDisk["key"] = {Absent} /\ Absent.key = 0
    BY DEF Inv, PublishedShape, FileTypeOK, Names, Absent
  <1>2. ASSUME NEW q \in Processes
        PROVE  /\ procs[q].pc \notin {"unstage", "syncKey"}
               /\ procs[q].pc \in KeySteps => procs[q].key \in MachineIDs
    <2>1. procs[q].pc # "unstage"
      BY <1>1, ProcFacts DEF StagedShape, KeyShape
    <2>2. procs[q].pc # "syncKey"
      BY <1>1, KeyFacts, ProcFacts DEF KeyShape, OwnKeySteps
    <2>3. procs[q].pc \in KeySteps => procs[q].key \in MachineIDs
      BY <1>1, KeyFacts, ProcFacts DEF KeyShape
    <2> QED
      BY <2>1, <2>2, <2>3
  <1>3. ASSUME NEW t \in onDisk["tokens"], t.kind = "synced"
        PROVE  t.key \in MachineIDs
    <2>1. t.key \in MachineIDs \cup {0}
      BY <1>1, <1>3 DEF Inv, TokensReadable
    <2>2. t \in Files
      BY DEF Inv, FileTypeOK, Names
    <2> QED
      BY <1>3, <2>1, <2>2, FileFacts, KeyFacts
  <1> QED
    BY <1>1, <1>2, <1>3

(* The first key to be published is everybody's who falls back from then   *)
(* on.                                                                     *)
LEMMA LinkStep ==
    ASSUME Inv, NEW p \in Processes, Link(p)
    PROVE  Inv'
  <1> USE DEF NewSteps, SaveSteps, DeleteSteps, OwnKeySteps, KeySteps
  <1>0. procs[p].key \in Keys /\ procs[p].pc = "link" /\ UNCHANGED keysMade
    BY ProcFacts DEF KeyShape, Link
  <1>1. CASE directory["key"] = Absent
    <2> DEFINE r == [procs[p] EXCEPT !.pc = "unstage"]
               file == procs[p].staged
    <2>1. r \in Procs
      BY ProcFacts, ProcUpdates DEF Steps
    <2>2. procs' = [procs EXCEPT ![p] = r]
      BY <1>1 DEF Link, Inv, FileTypeOK
    <2>3. procs'[p] = r /\ \A q \in Processes : q # p => procs'[q] = procs[q]
      BY <2>2 DEF Inv, FileTypeOK
    <2>4. /\ r.pc = "unstage" /\ r.key = procs[p].key
          /\ r.staged = file /\ r.value = procs[p].value /\ r.loaded = procs[p].loaded
      BY ProcFacts DEF Procs
    <2> HIDE DEF r
    <2>5. /\ file \in Files
          /\ file # Absent
          /\ file.kind = "synced"
          /\ file.key = procs[p].key
      BY <1>0, ProcFacts DEF StagedShape, Procs
    <2>6. StagedShape(r)
      BY <1>0, <2>4, <2>5, ProcFacts DEF StagedShape
    <2>7. SetName("key", file)
      BY <1>1 DEF Link
    <2> HIDE DEF file
    <2>8. /\ directory' \in [Names -> Files] /\ onDisk' \in [Names -> SUBSET Files]
          /\ \A n \in Names : directory'[n] \in onDisk'[n]
          /\ directory'["key"] = file /\ onDisk'["key"] = {Absent, file}
          /\ onDisk'["tokens"] = onDisk["tokens"]
      BY <1>0, <1>1, <2>5, <2>7, NoKeyYet, SetNameFacts DEF Names
    <2>9. FileTypeOK'
      <3>1. procs' \in [Processes -> Procs]
        BY <2>1, <2>2 DEF Inv, FileTypeOK
      <3>2. \A q \in Processes : StagedShape(procs'[q])
        BY <2>3, <2>6 DEF Inv
      <3> QED
        BY <1>0, <2>8, <3>1, <3>2 DEF Inv, FileTypeOK, StagedShape
    <2>10. PublishedShape'
      BY <2>5, <2>8 DEF Inv, PublishedShape, Names, Absent
    <2>11. TokensReadable'
      BY <1>0, <1>1, <2>8, NoKeyYet DEF TokensReadable
    <2>12. ASSUME NEW q \in Processes
           PROVE  (StagedShape(procs[q]) /\ KeyShape(procs[q]))'
      <3>1. CASE q = p
        <4>1. StagedShape(procs[p])'
          BY <2>3, <2>6 DEF StagedShape
        <4>2. KeyShape(procs[p])'
          BY <1>0, <2>3, <2>4, <2>8 DEF KeyShape
        <4> QED
          BY <3>1, <4>1, <4>2
      <3>2. CASE q # p
        <4>1. /\ procs'[q] = procs[q] /\ procs[q].pc \notin {"unstage", "syncKey"}
              /\ procs[q].pc \in KeySteps => procs[q].key \in MachineIDs
          BY <1>0, <1>1, <2>3, <3>2, NoKeyYet
        <4>2. StagedShape(procs[q])'
          BY <4>1, ProcFacts DEF StagedShape
        <4>3. KeyShape(procs[q])'
          BY <1>0, <4>1, ProcFacts DEF KeyShape
        <4> QED
          BY <4>2, <4>3
      <3> QED
        BY <3>1, <3>2
    <2> QED
      BY <2>9, <2>10, <2>11, <2>12 DEF Inv
  <1>2. CASE directory["key"] # Absent
    <2> DEFINE r == [procs[p] EXCEPT !.pc = "reread", !.staged = Absent]
    <2>1. r \in Procs
      BY ProcFacts, ProcUpdates, WholeFacts DEF Steps
    <2>2. procs' = [procs EXCEPT ![p] = r]
      BY <1>2 DEF Link, Inv, FileTypeOK
    <2>3. /\ r.pc = "reread" /\ r.key = procs[p].key /\ r.staged = Absent
          /\ r.value = procs[p].value /\ r.loaded = procs[p].loaded
      BY ProcFacts DEF Procs
    <2> HIDE DEF r
    <2>4. StagedShape(r)
      BY <1>0, <2>3, ProcFacts DEF StagedShape
    <2>5. KeyShape(r)
      BY <1>0, <2>3 DEF KeyShape
    <2> QED
      BY <1>2, <2>1, <2>2, <2>4, <2>5, OneProcess DEF Link, NamesUnchanged, Inv, FileTypeOK
  <1> QED
    BY <1>1, <1>2

(* The power fails: whatever is left of the two files fits together.       *)
LEMMA PowerLossStep ==
    ASSUME Inv, PowerLoss
    PROVE  Inv'
  <1>0. /\ onDisk["tokens"] \in SUBSET Files /\ onDisk["key"] \in SUBSET Files
        /\ \A f \in onDisk["tokens"] : f.kind # "written"
        /\ \A f \in onDisk["key"] : f.kind # "written"
    BY DEF Inv, FileTypeOK, PublishedShape, Names
  <1>1. PICK tokens \in onDisk["tokens"], key \in onDisk["key"] :
           directory' = [tokens |-> tokens, key |-> key]
    BY <1>0, RemainsFacts DEF PowerLoss
  <1>2. directory' \in [Names -> Files] /\ directory'["tokens"] = tokens /\ directory'["key"] = key
    BY <1>0, <1>1 DEF Names
  <1>3. /\ onDisk' \in [Names -> SUBSET Files]
        /\ \A n \in Names : directory'[n] \in onDisk'[n]
        /\ onDisk'["tokens"] = {tokens} /\ onDisk'["key"] = {key}
    BY <1>2 DEF PowerLoss, Names
  <1>4. procs' \in [Processes -> Procs] /\ \A p \in Processes : procs'[p] = NoProc
    <2>1. NoProc \in Procs
      BY WholeFacts DEF NoProc, Procs, Steps
    <2> QED
      BY <2>1 DEF PowerLoss
  <1>5. /\ NoProc.pc = "off" /\ NoProc.staged = Absent
        /\ NoProc.value = NoValue /\ NoProc.loaded = NoValue
    BY DEF NoProc
  <1>6. FileTypeOK'
    BY <1>2, <1>3, <1>4, <1>5 DEF PowerLoss, Inv, FileTypeOK
  <1>7. PublishedShape'
    BY <1>0, <1>2, <1>3 DEF PublishedShape, Names
  <1>8. TokensReadable'
    BY <1>3 DEF PowerLoss, Inv, TokensReadable
  <1>9. ASSUME NEW p \in Processes
        PROVE  (StagedShape(procs[p]) /\ KeyShape(procs[p]))'
    BY <1>4, <1>5 DEF StagedShape, KeyShape, NewSteps, SaveSteps, DeleteSteps, OwnKeySteps, KeySteps
  <1> QED
    BY <1>6, <1>7, <1>8, <1>9 DEF Inv

-----------------------------------------------------------------------------
(* The invariant.                                                          *)

(* A fresh directory, or a damaged one, holds no key and nothing to read.  *)
LEMMA InitInv == FileInit => Inv
  <1> SUFFICES ASSUME FileInit
               PROVE  Inv
    OBVIOUS
  <1>1. NoProc \in Procs
    BY WholeFacts DEF NoProc, Procs, Steps
  <1>2. /\ NoProc.pc = "off" /\ NoProc.staged = Absent
        /\ NoProc.value = NoValue /\ NoProc.loaded = NoValue
    BY DEF NoProc
  <1>3. /\ directory \in [Names -> Files]
        /\ \A n \in Names :
              onDisk[n] = {directory[n]} /\ directory[n].kind \notin {"written", "synced"}
        /\ onDisk \in [Names -> SUBSET Files]
    BY WholeFacts DEF FileInit, Absent, Torn
  <1>4. FileTypeOK
    BY <1>1, <1>2, <1>3 DEF FileInit, FileTypeOK
  <1>5. PublishedShape /\ TokensReadable
    BY <1>3 DEF PublishedShape, TokensReadable, Names
  <1>6. ASSUME NEW p \in Processes
        PROVE  StagedShape(procs[p]) /\ KeyShape(procs[p])
    <2>1. procs[p] = NoProc
      BY DEF FileInit
    <2> QED
      BY <1>2, <2>1 DEF StagedShape, KeyShape, NewSteps, SaveSteps, DeleteSteps, OwnKeySteps, KeySteps
  <1> QED
    BY <1>4, <1>5, <1>6 DEF Inv

(* Every step keeps the invariant.                                         *)
LEMMA NextInv == Inv /\ [FileNext]_fileVars => Inv'
  <1> SUFFICES ASSUME Inv, [FileNext]_fileVars
               PROVE  Inv'
    OBVIOUS
  <1>1. CASE UNCHANGED fileVars
    BY <1>1 DEF fileVars, Inv, FileTypeOK, PublishedShape, TokensReadable, StagedShape, KeyShape
  <1>2. CASE PowerLoss
    BY <1>2, PowerLossStep
  <1>3. ASSUME NEW p \in Processes,
               NewNext(p) \/ StageWrite(p) \/ StageSync(p) \/ CallNext(p) \/ Fail(p) \/ Crash(p)
        PROVE  Inv'
    <2>1. CASE NewNext(p)
      BY <2>1, NewStep, readFallbackKeyStep, GenerateKeyStep, LinkStep, UnstageStep, SyncKeyStep
         DEF NewNext
    <2>2. CASE CallNext(p)
      BY <2>2, SaveBeginsStep, RenameStep, SyncSaveStep, DeleteBeginsStep, RemoveStep, SucceedsStep,
         LoadStep DEF CallNext
    <2>3. CASE StageWrite(p) \/ StageSync(p) \/ Fail(p) \/ Crash(p)
      BY <2>3, StageWriteStep, StageSyncStep, FailStep, CrashStep
    <2> QED
      BY <1>3, <2>1, <2>2, <2>3
  <1> QED
    BY <1>1, <1>2, <1>3 DEF FileNext

LEMMA Invariant == FileSpec => []Inv
  BY InitInv, NextInv, PTL DEF FileSpec

(* The directory and the processes are what FileTypeOK says; in particular *)
(* a staged file is neither lost nor left behind by a live process.        *)
THEOREM FileTypeCorrect == FileSpec => []FileTypeOK
  <1>1. Inv => FileTypeOK
    BY DEF Inv
  <1> QED
    BY <1>1, Invariant, PTL

(* Processes that fall back at the same time agree on one key, although    *)
(* each may have generated its own and others hold a machine's key, and a  *)
(* power loss cannot take that key away: fallbackKey publishes by link and *)
(* syncs the directory before it hands out the key.                        *)
THEOREM ProcessesAgreeOnKey == FileSpec => []OneKey
  <1>1. Inv => OneKey
    BY DEF Inv, KeyShape, OneKey, KeySteps
  <1> QED
    BY <1>1, Invariant, PTL

-----------------------------------------------------------------------------
(* The refinement.                                                         *)

\* What the contract takes a published token file for.
Kept(t) ==
    IF t.kind = "synced" THEN [value |-> t.value, key |-> KeyName(t.key)]
    ELSE [value |-> NoValue, key |-> NoKey]

\* What is stored is what the token file holds, and what may survive is what one
\* of the files on the disk holds.
AllReadable ==
    Stored = Kept(directory["tokens"]) /\ Survivors = {Kept(t) : t \in onDisk["tokens"]}

(* Where the invariant holds, no file on the disk was written under a key  *)
(* that is lost.                                                           *)
LEMMA Readable == Inv => AllReadable
  <1> SUFFICES ASSUME Inv
               PROVE  AllReadable
    OBVIOUS
  <1>1. /\ onDisk["tokens"] \in SUBSET Files /\ onDisk["key"] \in SUBSET Files
        /\ \A f \in onDisk["tokens"] : f.kind # "written"
        /\ \A f \in onDisk["key"] : f.kind # "written"
        /\ directory["key"] \in onDisk["key"] /\ directory["tokens"] \in onDisk["tokens"]
    BY DEF Inv, FileTypeOK, PublishedShape, Names
  <1>2. ASSUME NEW t \in onDisk["tokens"], NEW k \in onDisk["key"]
        PROVE  Contents(t, k) = Kept(t)
    <2>1. CASE t.kind = "synced"
      BY <2>1 DEF Contents, Kept, Inv, TokensReadable
    <2>2. CASE t.kind # "synced"
      BY <1>1, <2>2 DEF Contents, Kept
    <2> QED
      BY <2>1, <2>2
  <1>3. Survivors = {Contents(t, k) : t \in onDisk["tokens"], k \in onDisk["key"]}
    <2> DEFINE T == UNION {Remains(f) : f \in onDisk["tokens"]}
               K == UNION {Remains(f) : f \in onDisk["key"]}
    <2>1. Survivors = {Contents(t, k) : t \in T, k \in K}
      BY DEF Survivors
    <2>2. T = onDisk["tokens"] /\ K = onDisk["key"]
      BY <1>1, RemainsFacts
    <2> HIDE DEF T, K
    <2> QED
      BY <2>1, <2>2
  <1>4. Survivors = {Kept(t) : t \in onDisk["tokens"]}
    BY <1>1, <1>2, <1>3
  <1> QED
    BY <1>1, <1>2, <1>4 DEF Stored, AllReadable

LEMMA ReadableNext == Inv' => AllReadable'
  BY Readable, PTL

(* The store as the contract sees it depends on the token files alone.     *)
LEMMA SameTokens ==
    ASSUME Inv, Inv', directory'["tokens"] = directory["tokens"],
           onDisk'["tokens"] = onDisk["tokens"]
    PROVE  UNCHANGED <<Stored, Survivors>>
  BY Readable, ReadableNext DEF AllReadable

(* The names of keys.  Those of a machine and of the key file differ.      *)
LEMMA KeyNameFacts ==
    ASSUME NEW key
    PROVE  /\ KeyName(key) \in MachineIDs \cup {FileKey}
           /\ KeyName(key) # NoKey
           /\ key \in MachineIDs => KeyName(key) = key
           /\ key \notin MachineIDs => KeyName(key) = FileKey
  BY DEF KeyName

(* The calls as the contract sees them.                                    *)
LEMMA CallValues ==
    ASSUME NEW r
    PROVE  /\ r.pc \in {"write", "syncFile", "rename"} =>
                 MappedCall(r) = Contract!Call("save", r.value, "begun")
           /\ r.pc = "syncSave" => MappedCall(r) = Contract!Call("save", r.value, "effective")
           /\ r.pc = "saved" => MappedCall(r) = Contract!Call("save", r.value, "durable")
           /\ r.pc = "remove" => MappedCall(r) = Contract!Call("delete", r.value, "begun")
           /\ r.pc = "deleted" => MappedCall(r) = Contract!Call("delete", r.value, "effective")
           /\ r.pc \in {"off", "ready"} \cup NewSteps =>
                 MappedCall(r) = Contract!Call("none", r.value, "begun")
  BY DEF MappedCall, Contract!Call, NewSteps, SaveSteps, DeleteSteps

(* A step of p changes the key, the call and the last Load of p alone.     *)
LEMMA CallsFrame ==
    ASSUME Inv, Inv', NEW p \in Processes, \A q \in Processes : q # p => procs'[q] = procs[q]
    PROVE  /\ Calls' = [Calls EXCEPT ![p] = MappedCall(procs'[p])]
           /\ Loaded' = [Loaded EXCEPT ![p] = procs'[p].loaded]
           /\ HeldKeys' = [HeldKeys EXCEPT ![p] = HeldKey(procs'[p])]
           /\ Calls[p] = MappedCall(procs[p])
           /\ Loaded[p] = procs[p].loaded
           /\ HeldKeys[p] = HeldKey(procs[p])
  BY DEF Calls, Loaded, HeldKeys, MappedCall, HeldKey

(* A process with a Store keeps its key.                                   *)
LEMMA KeyKept ==
    ASSUME Inv, Inv', NEW p \in Processes, \A q \in Processes : q # p => procs'[q] = procs[q],
           procs[p].pc \in KeySteps, procs'[p].pc \in KeySteps, procs'[p].key = procs[p].key
    PROVE  /\ HeldKeys' = HeldKeys
           /\ HeldKeys[p] = KeyName(procs[p].key) /\ HeldKeys[p] # NoKey
  <1>1. HeldKey(procs[p]) = KeyName(procs[p].key) /\ HeldKey(procs'[p]) = KeyName(procs[p].key)
    BY DEF HeldKey
  <1> QED
    BY <1>1, CallsFrame, KeyNameFacts DEF HeldKeys

(* A step of p that leaves the token file, and the key, the call and the   *)
(* last Load of p, alone is no step of the contract.                       *)
LEMMA Stutter ==
    ASSUME Inv, Inv', NEW p \in Processes, \A q \in Processes : q # p => procs'[q] = procs[q],
           MappedCall(procs'[p]) = MappedCall(procs[p]), procs'[p].loaded = procs[p].loaded,
           HeldKey(procs'[p]) = HeldKey(procs[p]),
           directory'["tokens"] = directory["tokens"], onDisk'["tokens"] = onDisk["tokens"]
    PROVE  UNCHANGED <<Stored, Survivors, HeldKeys, Calls, Loaded>>
  <1>1. Stored' = Stored /\ Survivors' = Survivors
    BY SameTokens
  <1>2. Calls' = Calls
    BY CallsFrame DEF Calls
  <1>3. Loaded' = Loaded
    BY CallsFrame DEF Loaded
  <1>4. HeldKeys' = HeldKeys
    BY CallsFrame DEF HeldKeys
  <1> QED
    BY <1>1, <1>2, <1>3, <1>4

(* What the contract knows of the call of a process.                       *)
LEMMA CallFacts ==
    ASSUME NEW p \in Processes
    PROVE  /\ procs[p].pc \in SaveSteps => Calls[p].op = "save"
           /\ procs[p].pc \in DeleteSteps => Calls[p].op = "delete"
           /\ procs[p].pc \in {"off", "ready"} \cup NewSteps => Calls[p].op = "none"
           /\ Calls[p].value = procs[p].value
           /\ Calls[p].stage = "begun" <=> procs[p].pc \notin {"syncSave", "saved", "deleted"}
           /\ Calls[p].stage = "durable" <=> procs[p].pc = "saved"
  BY DEF Calls, MappedCall, NewSteps, SaveSteps, DeleteSteps

(* How the steps of FileStore look to the contract.                        *)
LEMMA SaveBeginsContract ==
    ASSUME Inv, Inv', NEW p \in Processes, SaveBegins(p)
    PROVE  Contract!Begin(p)
  <1>1. PICK v \in Values : procs' = [procs EXCEPT ![p].pc = "write", ![p].value = v]
    BY DEF SaveBegins
  <1>2. /\ procs'[p].pc = "write" /\ procs'[p].value = v /\ procs'[p].loaded = procs[p].loaded
        /\ procs'[p].key = procs[p].key /\ procs[p].pc = "ready"
        /\ \A q \in Processes : q # p => procs'[q] = procs[q]
    BY <1>1 DEF SaveBegins, Inv, FileTypeOK, Procs
  <1>3. Calls[p].op = "none"
    BY CallFacts DEF SaveBegins
  <1>4. Calls' = [Calls EXCEPT ![p] = Contract!Call("save", v, "begun")] /\ Loaded' = Loaded
    <2>1. MappedCall(procs'[p]) = Contract!Call("save", v, "begun")
      BY CallValues, <1>2
    <2>2. Calls' = [Calls EXCEPT ![p] = Contract!Call("save", v, "begun")]
      BY CallsFrame, <1>2, <2>1
    <2>3. Loaded' = Loaded
      BY CallsFrame, <1>2 DEF Loaded
    <2> QED
      BY <2>2, <2>3
  <1>5. UNCHANGED <<Stored, Survivors>>
    BY SameTokens DEF SaveBegins, NamesUnchanged
  <1>6. v \in Contract!StoredValues /\ v # NoValue
    BY DEF Contract!StoredValues
  <1>7. HeldKeys' = HeldKeys /\ HeldKeys[p] # NoKey
    BY <1>2, KeyKept DEF KeySteps, SaveSteps
  <1> QED
    BY <1>3, <1>4, <1>5, <1>6, <1>7 DEF Contract!Begin

LEMMA DeleteBeginsContract ==
    ASSUME Inv, Inv', NEW p \in Processes, DeleteBegins(p)
    PROVE  Contract!Begin(p)
  <1>1. /\ procs'[p].pc = "remove" /\ procs'[p].value = procs[p].value
        /\ procs'[p].loaded = procs[p].loaded
        /\ procs'[p].key = procs[p].key /\ procs[p].pc = "ready"
        /\ \A q \in Processes : q # p => procs'[q] = procs[q]
    BY DEF DeleteBegins, Step, Inv, FileTypeOK, Procs
  <1>2. procs[p].value = NoValue /\ Calls[p].op = "none"
    BY CallFacts, ProcFacts DEF DeleteBegins, Step, StagedShape, SaveSteps
  <1>3. Calls' = [Calls EXCEPT ![p] = Contract!Call("delete", NoValue, "begun")]
    <2>1. MappedCall(procs'[p]) = Contract!Call("delete", NoValue, "begun")
      BY CallValues, <1>1, <1>2
    <2> QED
      BY CallsFrame, <1>1, <2>1
  <1>4. Loaded' = Loaded
    BY CallsFrame, <1>1 DEF Loaded
  <1>5. UNCHANGED <<Stored, Survivors>>
    BY SameTokens DEF DeleteBegins, NamesUnchanged
  <1>6. NoValue \in Contract!StoredValues
    BY DEF Contract!StoredValues
  <1>7. HeldKeys' = HeldKeys /\ HeldKeys[p] # NoKey
    BY <1>1, KeyKept DEF KeySteps, DeleteSteps
  <1> QED
    BY <1>2, <1>3, <1>4, <1>5, <1>6, <1>7 DEF Contract!Begin

LEMMA RenameContract ==
    ASSUME Inv, Inv', NEW p \in Processes, Rename(p)
    PROVE  Contract!TakeEffect(p)
  <1>1. /\ procs'[p].pc = "syncSave" /\ procs'[p].value = procs[p].value
        /\ procs'[p].loaded = procs[p].loaded /\ procs[p].pc = "rename"
        /\ procs'[p].key = procs[p].key
        /\ \A q \in Processes : q # p => procs'[q] = procs[q]
    BY DEF Rename, Inv, FileTypeOK, Procs
  <1>2. /\ procs[p].staged \in Files /\ procs[p].staged.kind = "synced"
        /\ procs[p].staged.value = procs[p].value /\ procs[p].staged.key = procs[p].key
    BY <1>1, ProcFacts DEF StagedShape, Procs
  <1>3. /\ directory'["tokens"] = procs[p].staged
        /\ onDisk'["tokens"] = onDisk["tokens"] \cup {procs[p].staged}
    BY <1>2, SetNameFacts DEF Rename, Names
  <1>4. Calls[p].op = "save" /\ Calls[p].stage = "begun" /\ Calls[p].value = procs[p].value
    BY <1>1, CallFacts DEF SaveSteps
  <1>5. HeldKeys' = HeldKeys /\ HeldKeys[p] = KeyName(procs[p].key)
    BY <1>1, KeyKept DEF KeySteps, SaveSteps
  <1>6. Stored' = [value |-> Calls[p].value, key |-> HeldKeys[p]]
    BY <1>2, <1>3, <1>4, <1>5, ReadableNext DEF AllReadable, Kept
  <1>7. Survivors' = Survivors \cup {Stored'}
    BY <1>3, Readable, ReadableNext DEF AllReadable
  <1>8. Calls' = [Calls EXCEPT ![p] = Contract!Call(@.op, @.value, "effective")]
    <2>1. MappedCall(procs'[p]) = Contract!Call(Calls[p].op, Calls[p].value, "effective")
      BY CallFacts, CallValues, <1>1 DEF SaveSteps, DeleteSteps
    <2> QED
      BY CallsFrame, <1>1, <2>1
  <1>9. Loaded' = Loaded
    BY CallsFrame, <1>1 DEF Loaded
  <1> QED
    BY <1>4, <1>5, <1>6, <1>7, <1>8, <1>9 DEF Contract!TakeEffect

LEMMA RemoveContract ==
    ASSUME Inv, Inv', NEW p \in Processes, Remove(p)
    PROVE  Contract!TakeEffect(p)
  <1>1. /\ procs'[p].pc = "deleted" /\ procs'[p].value = procs[p].value
        /\ procs'[p].loaded = procs[p].loaded /\ procs[p].pc = "remove"
        /\ procs'[p].key = procs[p].key
        /\ \A q \in Processes : q # p => procs'[q] = procs[q]
    BY DEF Remove, Step, Inv, FileTypeOK, Procs
  <1>2. procs[p].value = NoValue /\ Kept(Absent) = Contract!Nothing
    BY <1>1, ProcFacts DEF StagedShape, SaveSteps, Absent, Kept, Contract!Nothing
  <1>3. directory'["tokens"] = Absent /\ onDisk'["tokens"] = onDisk["tokens"] \cup {Absent}
    BY WholeFacts, SetNameFacts DEF Remove, Names
  <1>4. Calls[p].op = "delete" /\ Calls[p].stage = "begun" /\ Calls[p].value = NoValue
    BY <1>1, <1>2, CallFacts DEF DeleteSteps
  <1>5. Stored' = Contract!Nothing
    BY <1>2, <1>3, ReadableNext DEF AllReadable
  <1>6. Survivors' = Survivors \cup {Stored'}
    BY <1>3, Readable, ReadableNext DEF AllReadable
  <1>7. Calls' = [Calls EXCEPT ![p] = Contract!Call(@.op, @.value, "effective")]
    <2>1. MappedCall(procs'[p]) = Contract!Call(Calls[p].op, Calls[p].value, "effective")
      BY CallFacts, CallValues, <1>1 DEF SaveSteps, DeleteSteps
    <2> QED
      BY CallsFrame, <1>1, <2>1
  <1>8. Loaded' = Loaded
    BY CallsFrame, <1>1 DEF Loaded
  <1>9. HeldKeys' = HeldKeys
    BY <1>1, KeyKept DEF KeySteps, DeleteSteps
  <1> QED
    BY <1>4, <1>5, <1>6, <1>7, <1>8, <1>9 DEF Contract!TakeEffect

LEMMA SyncSaveContract ==
    ASSUME Inv, Inv', NEW p \in Processes, SyncSave(p)
    PROVE  Contract!Flush(p)
  <1>1. /\ procs'[p].pc = "saved" /\ procs'[p].value = procs[p].value
        /\ procs'[p].loaded = procs[p].loaded /\ procs[p].pc = "syncSave"
        /\ procs'[p].key = procs[p].key
        /\ \A q \in Processes : q # p => procs'[q] = procs[q]
    BY DEF SyncSave, Step, Inv, FileTypeOK, Procs
  <1>2. Stored' = Stored /\ Survivors' = {Stored}
    BY syncDirectoryFacts, Readable, ReadableNext DEF AllReadable, SyncSave
  <1>3. Calls[p].stage # "begun"
    BY <1>1, CallFacts
  <1>4. Calls' = [Calls EXCEPT ![p] = Contract!Call(@.op, @.value, "durable")]
    <2>1. MappedCall(procs'[p]) = Contract!Call(Calls[p].op, Calls[p].value, "durable")
      BY CallFacts, CallValues, <1>1 DEF SaveSteps, DeleteSteps
    <2> QED
      BY CallsFrame, <1>1, <2>1
  <1>5. Loaded' = Loaded
    BY CallsFrame, <1>1 DEF Loaded
  <1>6. HeldKeys' = HeldKeys
    BY <1>1, KeyKept DEF KeySteps, SaveSteps
  <1> QED
    BY <1>2, <1>3, <1>4, <1>5, <1>6 DEF Contract!Flush

LEMMA SyncKeyContract ==
    ASSUME Inv, Inv', NEW p \in Processes, SyncKey(p)
    PROVE  Contract!Open(p)
  <1>1. /\ procs'[p].pc = "ready" /\ procs'[p].value = procs[p].value
        /\ procs'[p].loaded = procs[p].loaded /\ procs[p].pc = "syncKey"
        /\ \A q \in Processes : q # p => procs'[q] = procs[q]
    BY DEF SyncKey, Step, Inv, FileTypeOK, Procs
  <1>2. Stored' = Stored /\ Survivors' = {Stored}
    BY syncDirectoryFacts, Readable, ReadableNext DEF AllReadable, SyncKey
  <1>3. Calls' = Calls
    <2>1. MappedCall(procs'[p]) = Calls[p]
      <3>1. MappedCall(procs[p]) = Contract!Call("none", procs[p].value, "begun")
        BY CallValues, <1>1 DEF NewSteps
      <3>2. MappedCall(procs'[p]) = Contract!Call("none", procs[p].value, "begun")
        BY CallValues, <1>1
      <3> QED
        BY <3>1, <3>2 DEF Calls
    <2> QED
      BY CallsFrame, <1>1, <2>1 DEF Calls
  <1>4. Loaded' = Loaded
    BY CallsFrame, <1>1 DEF Loaded
  <1>5. HeldKeys[p] = NoKey /\ HeldKeys' = [HeldKeys EXCEPT ![p] = KeyName(procs'[p].key)]
    <2>1. HeldKey(procs[p]) = NoKey /\ HeldKey(procs'[p]) = KeyName(procs'[p].key)
      BY <1>1 DEF HeldKey, KeySteps, SaveSteps, DeleteSteps
    <2> QED
      BY <2>1, CallsFrame, <1>1
  <1>6. KeyName(procs'[p].key) \in MachineIDs \cup {FileKey}
    BY KeyNameFacts
  <1> QED
    BY <1>2, <1>3, <1>4, <1>5, <1>6 DEF Contract!Open

LEMMA SucceedsContract ==
    ASSUME Inv, Inv', NEW p \in Processes, Succeeds(p)
    PROVE  Contract!Succeed(p)
  <1>1. /\ procs'[p].pc = "ready" /\ procs'[p].value = NoValue
        /\ procs'[p].loaded = procs[p].loaded /\ procs[p].pc \in {"saved", "deleted"}
        /\ procs'[p].key = procs[p].key
        /\ \A q \in Processes : q # p => procs'[q] = procs[q]
    BY DEF Succeeds, Inv, FileTypeOK, Procs
  <1>2. UNCHANGED <<Stored, Survivors>>
    BY SameTokens DEF Succeeds, NamesUnchanged
  <1>3. Calls[p].stage # "begun" /\ (Calls[p].op = "save" => Calls[p].stage = "durable")
    BY <1>1, CallFacts DEF SaveSteps, DeleteSteps
  <1>4. Calls' = [Calls EXCEPT ![p] = Contract!NoCall]
    <2>1. MappedCall(procs'[p]) = Contract!NoCall
      BY CallValues, <1>1 DEF Contract!NoCall
    <2> QED
      BY CallsFrame, <1>1, <2>1
  <1>5. Loaded' = Loaded
    BY CallsFrame, <1>1 DEF Loaded
  <1>6. HeldKeys' = HeldKeys
    BY <1>1, KeyKept DEF KeySteps, SaveSteps, DeleteSteps
  <1> QED
    BY <1>2, <1>3, <1>4, <1>5, <1>6 DEF Contract!Succeed

(* Keys with one name are one key, for a process with a Store and a file   *)
(* on the disk: it reads what is stored exactly if it was stored under its *)
(* key.                                                                    *)
LEMMA Reads ==
    ASSUME Inv, NEW p \in Processes, procs[p].pc \in KeySteps
    PROVE  Decrypt(directory["tokens"], procs[p].key) =
               IF Stored.key = HeldKeys[p] THEN Stored.value ELSE NoValue
  <1> DEFINE t == directory["tokens"]
             key == procs[p].key
  <1>1. /\ t \in Files /\ t \in onDisk["tokens"] /\ t.kind # "written"
        /\ directory["key"] \in onDisk["key"]
    BY DEF Inv, FileTypeOK, PublishedShape, Names
  <1>2. HeldKeys[p] = KeyName(key) /\ HeldKeys[p] # NoKey
    BY KeyNameFacts DEF HeldKeys, HeldKey
  <1>3. Stored = Kept(t)
    BY Readable DEF AllReadable
  <1>4. CASE t.kind = "synced"
    <2>1. Stored.key = KeyName(t.key) /\ Stored.value = t.value
      BY <1>3, <1>4 DEF Kept
    <2>2. t.key \in MachineIDs \cup {directory["key"].key}
      BY <1>1, <1>4 DEF Inv, TokensReadable
    <2>3. key \in MachineIDs \cup {directory["key"].key}
      BY <1>1, ProcFacts DEF KeyShape
    <2>4. KeyName(t.key) = KeyName(key) <=> t.key = key
      BY <2>2, <2>3, KeyNameFacts
    <2> QED
      BY <1>2, <1>4, <2>1, <2>4 DEF Decrypt
  <1>5. CASE t.kind # "synced"
    BY <1>1, <1>3, <1>5 DEF Decrypt, Kept
  <1> QED
    BY <1>4, <1>5

LEMMA LoadContract ==
    ASSUME Inv, Inv', NEW p \in Processes, Load(p)
    PROVE  Contract!Load(p)
  <1> DEFINE v == IF Stored.key = HeldKeys[p] THEN Stored.value ELSE NoValue
  <1>1. procs[p].pc = "ready" /\ Decrypt(directory["tokens"], procs[p].key) = v
    BY Reads DEF Load, KeySteps
  <1> HIDE DEF v
  <1>2. /\ procs'[p].pc = procs[p].pc /\ procs'[p].value = procs[p].value
        /\ procs'[p].loaded = v /\ procs'[p].key = procs[p].key
        /\ \A q \in Processes : q # p => procs'[q] = procs[q]
    BY <1>1 DEF Load, Inv, FileTypeOK, Procs
  <1>3. UNCHANGED <<Stored, Survivors>>
    BY SameTokens DEF Load, NamesUnchanged
  <1>4. Calls[p].op = "none"
    BY <1>1, CallFacts
  <1>5. Calls' = Calls
    <2>1. MappedCall(procs'[p]) = Calls[p]
      <3>1. MappedCall(procs[p]) = Contract!Call("none", procs[p].value, "begun")
        BY CallValues, <1>1
      <3>2. MappedCall(procs'[p]) = Contract!Call("none", procs[p].value, "begun")
        BY CallValues, <1>1, <1>2
      <3> QED
        BY <3>1, <3>2 DEF Calls
    <2> QED
      BY CallsFrame, <1>2, <2>1 DEF Calls
  <1>6. Loaded' = [Loaded EXCEPT ![p] = v]
    BY CallsFrame, <1>2
  <1>7. HeldKeys' = HeldKeys /\ HeldKeys[p] # NoKey
    BY <1>1, <1>2, KeyKept DEF KeySteps
  <1> QED
    BY <1>3, <1>4, <1>5, <1>6, <1>7 DEF Contract!Load, v

(* A process without a Store has no call and was told nothing.             *)
LEMMA NoStore ==
    ASSUME Inv, NEW p \in Processes, procs[p].pc \notin KeySteps
    PROVE  /\ MappedCall(procs[p]) = Contract!NoCall
           /\ procs[p].loaded = NoValue
           /\ HeldKey(procs[p]) = NoKey
  <1>1. /\ procs[p].pc \in {"off", "ready"} \cup NewSteps
        /\ procs[p].value = NoValue /\ procs[p].loaded = NoValue
    BY ProcFacts DEF StagedShape, Procs, Steps, KeySteps
  <1>2. MappedCall(procs[p]) = Contract!NoCall
    BY <1>1, CallValues DEF Contract!NoCall
  <1> QED
    BY <1>1, <1>2 DEF HeldKey

LEMMA NoStoreNext ==
    ASSUME Inv', NEW p \in Processes, procs'[p].pc \notin KeySteps
    PROVE  /\ MappedCall(procs'[p]) = Contract!NoCall
           /\ procs'[p].loaded = NoValue
           /\ HeldKey(procs'[p]) = NoKey
  <1>1. /\ procs'[p].pc \in {"off", "ready"} \cup NewSteps
        /\ procs'[p].value = NoValue /\ procs'[p].loaded = NoValue
    <2>1. procs'[p] \in Procs
      BY DEF Inv, FileTypeOK
    <2>2. StagedShape(procs[p])'
      BY DEF Inv
    <2> QED
      BY <2>1, <2>2 DEF StagedShape, Procs, Steps, KeySteps
  <1>2. MappedCall(procs'[p]) = Contract!NoCall
    BY <1>1, CallValues DEF Contract!NoCall
  <1> QED
    BY <1>1, <1>2 DEF HeldKey

(* A process without a Store before and after the step.                    *)
LEMMA OutsideContract ==
    ASSUME Inv, Inv', NEW p \in Processes, \A q \in Processes : q # p => procs'[q] = procs[q],
           procs[p].pc \notin KeySteps, procs'[p].pc \notin KeySteps,
           directory'["tokens"] = directory["tokens"], onDisk'["tokens"] = onDisk["tokens"]
    PROVE  UNCHANGED <<Stored, Survivors, HeldKeys, Calls, Loaded>>
  BY NoStore, NoStoreNext, Stutter

(* A process ends, with a Store or before it got one.                      *)
LEMMA CrashContract ==
    ASSUME Inv, Inv', NEW p \in Processes, Crash(p)
    PROVE  Contract!Close(p) \/ UNCHANGED <<Stored, Survivors, HeldKeys, Calls, Loaded>>
  <1>1. procs'[p] = NoProc /\ \A q \in Processes : q # p => procs'[q] = procs[q]
    BY DEF Crash, Inv, FileTypeOK
  <1>2. procs'[p].pc \notin KeySteps
    BY <1>1 DEF NoProc, KeySteps, SaveSteps, DeleteSteps
  <1>3. /\ directory'["tokens"] = directory["tokens"] /\ onDisk'["tokens"] = onDisk["tokens"]
    BY DEF Crash, NamesUnchanged
  <1>4. CASE procs[p].pc \in KeySteps
    <2>1. HeldKeys[p] # NoKey
      BY <1>4, KeyNameFacts DEF HeldKeys, HeldKey
    <2>2. /\ HeldKeys' = [HeldKeys EXCEPT ![p] = NoKey]
          /\ Calls' = [Calls EXCEPT ![p] = Contract!NoCall]
          /\ Loaded' = [Loaded EXCEPT ![p] = NoValue]
      BY <1>1, <1>2, NoStoreNext, CallsFrame
    <2> QED
      BY <1>3, <2>1, <2>2, SameTokens DEF Contract!Close
  <1>5. CASE procs[p].pc \notin KeySteps
    BY <1>1, <1>2, <1>3, <1>5, OutsideContract
  <1> QED
    BY <1>4, <1>5

(* A failure of New leaves no Store; one of Save or Delete leaves the      *)
(* Store as it was.                                                        *)
LEMMA FailContract ==
    ASSUME Inv, Inv', NEW p \in Processes, Fail(p)
    PROVE  Contract!Abandon(p) \/ UNCHANGED <<Stored, Survivors, HeldKeys, Calls, Loaded>>
  <1>1. directory'["tokens"] = directory["tokens"] /\ onDisk'["tokens"] = onDisk["tokens"]
    BY DEF Fail, NamesUnchanged
  <1>2. CASE procs[p].pc \in NewSteps
    <2>1. procs'[p] = NoProc /\ \A q \in Processes : q # p => procs'[q] = procs[q]
      BY <1>2 DEF Fail, Inv, FileTypeOK
    <2>2. procs'[p].pc \notin KeySteps /\ procs[p].pc \notin KeySteps
      BY <1>2, <2>1 DEF NoProc, KeySteps, NewSteps, SaveSteps, DeleteSteps
    <2> QED
      BY <1>1, <2>1, <2>2, OutsideContract
  <1>3. CASE procs[p].pc \notin NewSteps
    <2>1. procs[p].pc \in SaveSteps \cup DeleteSteps
      BY <1>3 DEF Fail, DeleteSteps
    <2>2. /\ procs'[p].pc = "ready" /\ procs'[p].value = NoValue
          /\ procs'[p].loaded = procs[p].loaded /\ procs'[p].key = procs[p].key
          /\ \A q \in Processes : q # p => procs'[q] = procs[q]
      BY <1>3 DEF Fail, Inv, FileTypeOK, Procs
    <2>3. Calls[p].op # "none"
      BY <2>1, CallFacts
    <2>4. Calls' = [Calls EXCEPT ![p] = Contract!NoCall]
      <3>1. MappedCall(procs'[p]) = Contract!NoCall
        BY <2>2, CallValues DEF Contract!NoCall
      <3> QED
        BY <2>2, <3>1, CallsFrame
    <2>5. Loaded' = Loaded
      BY <2>2, CallsFrame DEF Loaded
    <2>6. HeldKeys' = HeldKeys
      BY <2>1, <2>2, KeyKept DEF KeySteps
    <2> QED
      BY <1>1, <2>3, <2>4, <2>5, <2>6, SameTokens DEF Contract!Abandon
  <1> QED
    BY <1>2, <1>3

(* Staging is invisible.                                                   *)
LEMMA StagingContract ==
    ASSUME Inv, Inv', NEW p \in Processes, StageWrite(p) \/ StageSync(p)
    PROVE  UNCHANGED <<Stored, Survivors, HeldKeys, Calls, Loaded>>
  <1>1. CASE procs[p].pc \in {"writeKey", "syncKeyFile"}
    <2>1. /\ procs'[p].pc \in {"syncKeyFile", "link"}
          /\ \A q \in Processes : q # p => procs'[q] = procs[q]
      BY <1>1, StagingSteps DEF StageWrite, StageSync, Inv, FileTypeOK, Procs
    <2>2. procs[p].pc \notin KeySteps /\ procs'[p].pc \notin KeySteps
      BY <1>1, <2>1 DEF KeySteps, SaveSteps, DeleteSteps
    <2> QED
      BY <2>1, <2>2, OutsideContract DEF StageWrite, StageSync, NamesUnchanged
  <1>2. CASE procs[p].pc \in {"write", "syncFile"}
    <2>1. /\ procs'[p].pc \in {"syncFile", "rename"} /\ procs'[p].value = procs[p].value
          /\ procs'[p].loaded = procs[p].loaded /\ procs'[p].key = procs[p].key
          /\ \A q \in Processes : q # p => procs'[q] = procs[q]
      BY <1>2, StagingSteps DEF StageWrite, StageSync, Inv, FileTypeOK, Procs
    <2>2. MappedCall(procs[p]) = Contract!Call("save", procs[p].value, "begun")
      BY <1>2, CallValues
    <2>3. MappedCall(procs'[p]) = Contract!Call("save", procs[p].value, "begun")
      BY <2>1, CallValues
    <2>4. HeldKey(procs'[p]) = HeldKey(procs[p])
      BY <1>2, <2>1 DEF HeldKey, KeySteps, SaveSteps
    <2> QED
      BY <2>1, <2>2, <2>3, <2>4, Stutter DEF StageWrite, StageSync, NamesUnchanged
  <1> QED
    BY <1>1, <1>2, StagingSteps DEF StageWrite, StageSync

(* A Store is opened with the key of the machine, ...                      *)
LEMMA NewContract ==
    ASSUME Inv, Inv', NEW p \in Processes, New(p)
    PROVE  Contract!Open(p) \/ UNCHANGED <<Stored, Survivors, HeldKeys, Calls, Loaded>>
  <1> USE DEF KeySteps, SaveSteps, DeleteSteps
  <1>0. procs[p].pc = "off" /\ procs[p].pc \notin KeySteps
    BY DEF New
  <1>1. directory'["tokens"] = directory["tokens"] /\ onDisk'["tokens"] = onDisk["tokens"]
    BY DEF New, NamesUnchanged
  <1>2. ASSUME NEW id \in MachineIDs, procs' = [procs EXCEPT ![p].pc = "ready", ![p].key = id]
        PROVE  Contract!Open(p)
    <2>1. /\ procs'[p].pc = "ready" /\ procs'[p].key = id
          /\ procs'[p].value = procs[p].value /\ procs'[p].loaded = procs[p].loaded
          /\ \A q \in Processes : q # p => procs'[q] = procs[q]
      BY <1>2 DEF Inv, FileTypeOK, Procs
    <2>2. HeldKey(procs[p]) = NoKey /\ HeldKey(procs'[p]) = id
      BY <1>0, <2>1, KeyNameFacts DEF HeldKey
    <2>3. MappedCall(procs[p]) = Contract!Call("none", procs[p].value, "begun")
      BY <1>0, CallValues
    <2>4. MappedCall(procs'[p]) = Contract!Call("none", procs[p].value, "begun")
      BY <2>1, CallValues
    <2>5. HeldKeys[p] = NoKey /\ HeldKeys' = [HeldKeys EXCEPT ![p] = id]
      BY <2>1, <2>2, CallsFrame
    <2>6. Calls' = Calls
      BY <2>1, <2>3, <2>4, CallsFrame DEF Calls
    <2>7. Loaded' = Loaded
      BY <2>1, CallsFrame DEF Loaded
    <2> QED
      BY <1>1, <2>5, <2>6, <2>7, SameTokens DEF Contract!Open
  <1>3. CASE procs' = [procs EXCEPT ![p].pc = "readKey"]
    <2>1. /\ procs'[p].pc \notin KeySteps
          /\ \A q \in Processes : q # p => procs'[q] = procs[q]
      BY <1>3 DEF Inv, FileTypeOK, Procs
    <2> QED
      BY <1>0, <1>1, <2>1, OutsideContract
  <1> QED
    BY <1>2, <1>3 DEF New

(* ... or with the one in the key file, once it is durable: what comes     *)
(* before is invisible, also where it publishes a key.                     *)
LEMMA FallbackContract ==
    ASSUME Inv, Inv', NEW p \in Processes,
           readFallbackKey(p) \/ GenerateKey(p) \/ Link(p) \/ Unstage(p)
    PROVE  UNCHANGED <<Stored, Survivors, HeldKeys, Calls, Loaded>>
  <1> USE DEF KeySteps, SaveSteps, DeleteSteps
  <1>1. procs[p].pc \notin KeySteps
    BY DEF readFallbackKey, GenerateKey, Link, Unstage
  <1>2. procs'[p].pc \notin KeySteps /\ \A q \in Processes : q # p => procs'[q] = procs[q]
    <2>1. CASE readFallbackKey(p)
      <3>1. \/ procs' = [procs EXCEPT ![p] =
                  [procs[p] EXCEPT !.pc = "syncKey", !.key = directory["key"].key]]
            \/ procs' = [procs EXCEPT ![p] = [procs[p] EXCEPT !.pc = "generate"]]
            \/ procs' = [procs EXCEPT ![p] = NoProc]
        <4>1. CASE directory["key"].kind \in {"written", "synced"}
          <5>1. directory["key"] # Absent
            BY <4>1 DEF Absent
          <5> QED
            BY <2>1, <4>1, <5>1, Zenon DEF readFallbackKey
        <4>2. CASE directory["key"].kind \notin {"written", "synced"}
          BY <2>1, <4>2 DEF readFallbackKey
        <4> QED
          BY <4>1, <4>2
      <3>2. CASE procs' = [procs EXCEPT ![p] =
                      [procs[p] EXCEPT !.pc = "syncKey", !.key = directory["key"].key]]
        BY <3>2 DEF Inv, FileTypeOK, Procs
      <3>3. CASE procs' = [procs EXCEPT ![p] = [procs[p] EXCEPT !.pc = "generate"]]
        BY <3>3 DEF Inv, FileTypeOK, Procs
      <3>4. CASE procs' = [procs EXCEPT ![p] = NoProc]
        BY <3>4 DEF Inv, FileTypeOK, NoProc
      <3> QED
        BY <3>1, <3>2, <3>3, <3>4
    <2>2. CASE GenerateKey(p)
      BY <2>2 DEF GenerateKey, Inv, FileTypeOK, Procs
    <2>3. CASE Link(p)
      BY <2>3 DEF Link, Inv, FileTypeOK, Procs
    <2>4. CASE Unstage(p)
      BY <2>4 DEF Unstage, Inv, FileTypeOK, Procs
    <2> QED
      BY <2>1, <2>2, <2>3, <2>4
  <1>3. directory'["tokens"] = directory["tokens"] /\ onDisk'["tokens"] = onDisk["tokens"]
    BY DEF readFallbackKey, GenerateKey, Link, Unstage, NamesUnchanged, SetName, Inv,
           FileTypeOK, Names
  <1> QED
    BY <1>1, <1>2, <1>3, OutsideContract

(* A power loss leaves one of the states that could survive it.            *)
LEMMA PowerLossContract ==
    ASSUME Inv, Inv', PowerLoss
    PROVE  Contract!PowerLoss
  <1>1. /\ onDisk["tokens"] \in SUBSET Files /\ onDisk["key"] \in SUBSET Files
        /\ \A f \in onDisk["tokens"] : f.kind # "written"
        /\ \A f \in onDisk["key"] : f.kind # "written"
    BY DEF Inv, FileTypeOK, PublishedShape, Names
  <1>2. PICK tokens \in onDisk["tokens"], key \in onDisk["key"] :
           directory' = [tokens |-> tokens, key |-> key]
    BY <1>1, RemainsFacts DEF PowerLoss
  <1>3. directory'["tokens"] = tokens /\ onDisk'["tokens"] = {tokens}
    BY <1>2 DEF PowerLoss, Names
  <1>4. Stored' \in Survivors /\ Survivors' = {Stored'}
    BY <1>3, Readable, ReadableNext DEF AllReadable
  <1>5. \A p \in Processes : procs'[p] = NoProc
    BY DEF PowerLoss
  <1>6. /\ NoProc.pc = "off" /\ NoProc.value = NoValue /\ NoProc.loaded = NoValue
        /\ HeldKey(NoProc) = NoKey
    BY DEF NoProc, HeldKey, KeySteps, SaveSteps, DeleteSteps
  <1>7. Calls' = [p \in Processes |-> Contract!NoCall]
    <2>1. MappedCall(NoProc) = Contract!NoCall
      BY <1>6, CallValues DEF Contract!NoCall
    <2>2. Calls' = [p \in Processes |-> MappedCall(procs'[p])]
      BY DEF Calls, MappedCall
    <2> QED
      BY <1>5, <2>1, <2>2
  <1>8. Loaded' = [p \in Processes |-> NoValue]
    BY <1>5, <1>6 DEF Loaded
  <1>9. HeldKeys' = [p \in Processes |-> NoKey]
    <2>1. HeldKeys' = [p \in Processes |-> HeldKey(procs'[p])]
      BY DEF HeldKeys, HeldKey
    <2> QED
      BY <1>5, <1>6, <2>1
  <1> QED
    BY <1>4, <1>7, <1>8, <1>9 DEF Contract!PowerLoss

(* An empty or damaged directory stores nothing.                           *)
LEMMA ContractStarts == FileInit => Contract!StoreInit
  <1> SUFFICES ASSUME FileInit
               PROVE  Contract!StoreInit
    OBVIOUS
  <1>1. /\ directory["tokens"] \in {Absent, Torn} /\ onDisk["tokens"] = {directory["tokens"]}
        /\ Kept(Absent) = Contract!Nothing /\ Kept(Torn) = Contract!Nothing
    BY DEF FileInit, Names, Absent, Torn, Kept, Contract!Nothing
  <1>2. Stored = Contract!Nothing /\ Survivors = {Contract!Nothing}
    BY <1>1, InitInv, Readable DEF AllReadable
  <1>3. /\ NoProc.pc = "off" /\ NoProc.value = NoValue /\ NoProc.loaded = NoValue
        /\ HeldKey(NoProc) = NoKey
    BY DEF NoProc, HeldKey, KeySteps, SaveSteps, DeleteSteps
  <1>4. MappedCall(NoProc) = Contract!NoCall
    BY <1>3, CallValues DEF Contract!NoCall
  <1>5. Calls = [p \in Processes |-> Contract!NoCall]
    BY <1>4 DEF FileInit, Calls
  <1>6. Loaded = [p \in Processes |-> NoValue]
    BY <1>3 DEF FileInit, Loaded
  <1>7. HeldKeys = [p \in Processes |-> NoKey]
    BY <1>3 DEF FileInit, HeldKeys
  <1> QED
    BY <1>2, <1>5, <1>6, <1>7 DEF Contract!StoreInit

(* Every step of the processes is a step of the contract, or none.         *)
LEMMA ContractStep ==
    Inv /\ Inv' /\ [FileNext]_fileVars =>
        [Contract!StoreNext]_<<Stored, Survivors, HeldKeys, Calls, Loaded>>
  <1> SUFFICES ASSUME Inv, Inv', [FileNext]_fileVars
               PROVE  [Contract!StoreNext]_<<Stored, Survivors, HeldKeys, Calls, Loaded>>
    OBVIOUS
  <1>1. CASE UNCHANGED fileVars
    <2>1. UNCHANGED <<Stored, Survivors>>
      BY <1>1, SameTokens DEF fileVars
    <2>2. UNCHANGED <<HeldKeys, Calls, Loaded>>
      BY <1>1 DEF fileVars, HeldKeys, Calls, Loaded, HeldKey, MappedCall
    <2> QED
      BY <2>1, <2>2
  <1>2. CASE PowerLoss
    BY <1>2, PowerLossContract DEF Contract!StoreNext
  <1>3. ASSUME NEW p \in Processes,
               NewNext(p) \/ StageWrite(p) \/ StageSync(p) \/ CallNext(p) \/ Fail(p) \/ Crash(p)
        PROVE  [Contract!StoreNext]_<<Stored, Survivors, HeldKeys, Calls, Loaded>>
    <2>1. CASE NewNext(p)
      BY <2>1, NewContract, FallbackContract, SyncKeyContract DEF NewNext, Contract!StoreNext
    <2>2. CASE StageWrite(p) \/ StageSync(p)
      BY <2>2, StagingContract
    <2>3. CASE CallNext(p)
      BY <2>3, SaveBeginsContract, DeleteBeginsContract, RenameContract, RemoveContract,
         SyncSaveContract, SucceedsContract, LoadContract DEF CallNext, Contract!StoreNext
    <2>4. CASE Fail(p) \/ Crash(p)
      BY <2>4, FailContract, CrashContract DEF Contract!StoreNext
    <2> QED
      BY <1>3, <2>1, <2>2, <2>3, <2>4
  <1> QED
    BY <1>1, <1>2, <1>3 DEF FileNext

(* The processes with one key together keep the contract of                *)
(* TokenPersistence: a Save replaces the state in one step, a Load returns *)
(* what was published last if it was saved under its key, a Save that      *)
(* returned survives a power loss, and no crash, failure or power loss at  *)
(* any step leaves a torn state, or one whose key is gone.                 *)
THEOREM FileStoreImplementsContract == FileSpec => ImplementsContract
  <1>1. Inv /\ Inv' /\ [FileNext]_fileVars => [Contract!StoreNext]_(Contract!storeVars)
    BY ContractStep DEF Contract!storeVars
  <1> QED
    BY <1>1, Invariant, ContractStarts, PTL DEF FileSpec, ImplementsContract, Contract!StoreSpec

-----------------------------------------------------------------------------
(* Where machineID gives every process the same answer, or always fails.   *)

\* Every process that has a Store got the same key.
SameKey(k) == \A p \in Processes : HeldKeys[p] \in {NoKey, k}

\* Nothing that was saved is hidden from anybody.
ReadByAll ==
    \A p \in Processes : procs[p].pc \in KeySteps =>
        Decrypt(directory["tokens"], procs[p].key) = directory["tokens"].value

\* What is stored, or may survive a power loss, was saved under that key.
SavedUnder(k) == \A s \in {Stored} \cup Survivors : s.key \in {NoKey, k}

(* The contract keeps what is saved under the keys of its clients.         *)
LEMMA SavedUnderStep ==
    ASSUME NEW k, Inv, Inv', SameKey(k), SavedUnder(k), [FileNext]_fileVars
    PROVE  SavedUnder(k)'
  <1>1. [Contract!StoreNext]_<<Stored, Survivors, HeldKeys, Calls, Loaded>>
    BY ContractStep
  <1>2. CASE UNCHANGED <<Stored, Survivors, HeldKeys, Calls, Loaded>>
    BY <1>2 DEF SavedUnder
  <1>3. CASE Contract!PowerLoss
    BY <1>3 DEF Contract!PowerLoss, SavedUnder
  <1>4. ASSUME NEW p \in Processes, Contract!TakeEffect(p)
        PROVE  SavedUnder(k)'
    <2>1. Stored'.key \in {NoKey, k} /\ Survivors' = Survivors \cup {Stored'}
      BY <1>4 DEF Contract!TakeEffect, Contract!Nothing, SameKey
    <2> QED
      BY <2>1 DEF SavedUnder
  <1>5. ASSUME NEW p \in Processes,
               \/ Contract!Open(p) \/ Contract!Begin(p) \/ Contract!Flush(p)
               \/ Contract!Succeed(p) \/ Contract!Abandon(p) \/ Contract!Close(p) \/ Contract!Load(p)
        PROVE  SavedUnder(k)'
    <2>1. Stored' = Stored /\ Survivors' \in {Survivors, {Stored}}
      BY <1>5 DEF Contract!Open, Contract!Begin, Contract!Flush, Contract!Succeed,
         Contract!Abandon, Contract!Close, Contract!Load
    <2> QED
      BY <2>1 DEF SavedUnder
  <1> QED
    BY <1>1, <1>2, <1>3, <1>4, <1>5 DEF Contract!StoreNext

(* What was saved under the key of a process, it reads.                    *)
LEMMA SavedUnderReads ==
    ASSUME NEW k, Inv, SameKey(k), SavedUnder(k)
    PROVE  ReadByAll
  <1> SUFFICES ASSUME NEW p \in Processes, procs[p].pc \in KeySteps
               PROVE  Decrypt(directory["tokens"], procs[p].key) = directory["tokens"].value
    BY DEF ReadByAll
  <1> DEFINE t == directory["tokens"]
  <1>1. t \in Files /\ t.kind # "written" /\ t \in onDisk["tokens"]
    BY DEF Inv, FileTypeOK, PublishedShape, Names
  <1>2. Stored = Kept(t) /\ Stored.key \in {NoKey, k}
    BY Readable DEF AllReadable, SavedUnder
  <1>3. HeldKeys[p] = k
    BY KeyNameFacts DEF SameKey, HeldKeys, HeldKey
  <1>4. CASE t.kind = "synced"
    <2>1. Stored.key = k /\ Stored.value = t.value
      BY <1>2, <1>4, KeyNameFacts DEF Kept
    <2> QED
      BY <1>3, <2>1, Reads
  <1>5. CASE t.kind # "synced"
    BY <1>1, <1>5, FileFacts DEF Decrypt
  <1> QED
    BY <1>4, <1>5

(* The per-call fallback of deriveKeyWithSources is the only way to hide a *)
(* Save: as long as all processes get one key, be it the machine's or the  *)
(* one in the key file, every Load returns what the token file holds, in   *)
(* every state that calls, crashes, failures and power losses lead to.     *)
THEOREM OneKeyReadsAll ==
    ASSUME NEW CONSTANT k
    PROVE  FileSpec /\ []SameKey(k) => []ReadByAll
  <1>1. FileInit => SavedUnder(k)
    BY ContractStarts DEF Contract!StoreInit, Contract!Nothing, SavedUnder
  <1>2. Inv /\ Inv' /\ SameKey(k) /\ SavedUnder(k) /\ [FileNext]_fileVars => SavedUnder(k)'
    BY SavedUnderStep
  <1>3. Inv /\ SameKey(k) /\ SavedUnder(k) => ReadByAll
    BY SavedUnderReads
  <1> QED
    BY <1>1, <1>2, <1>3, Invariant, PTL DEF FileSpec

=============================================================================
