----------------------------- MODULE TokenStore -----------------------------
(***************************************************************************)
(* What a TokenPersistence promises, as interfaces.go states it: Save      *)
(* replaces the complete state in one piece, a Save that returned nil is   *)
(* what later Loads return until a newer Save or Delete, and an error      *)
(* leaves open whether the replacement was published.  The package comment *)
(* of filestore adds that success survives a power loss, and that what was *)
(* written under another key reads as nothing.                             *)
(*                                                                         *)
(* Several Clients may use one store.  Each has one call under way at a    *)
(* time, as stateCommitMu gives it.  Where all have one key, a Load        *)
(* returns what is stored.                                                 *)
(***************************************************************************)
CONSTANTS Clients, Values, NoValue, Keys, NoKey

VARIABLES
    stored,     \* what is in the store, and the key that reads it
    survivors,  \* what may be there after a power loss
    keys,       \* the key each Client was opened with
    calls,      \* the Save or Delete each Client is in
    loaded      \* what the last Load of each Client returned

storeVars == <<stored, survivors, keys, calls, loaded>>

StoredValues == Values \cup {NoValue}
Nothing == [value |-> NoValue, key |-> NoKey]

\* value is what the call is to leave in the store: NoValue for a Delete.  A call
\* has begun, has taken effect, or has made its effect durable.
Call(op, value, stage) == [op |-> op, value |-> value, stage |-> stage]
NoCall == Call("none", NoValue, "begun")

StoreInit ==
    /\ stored = Nothing
    /\ survivors = {Nothing}
    /\ keys = [c \in Clients |-> NoKey]
    /\ calls = [c \in Clients |-> NoCall]
    /\ loaded = [c \in Clients |-> NoValue]

\* The backend may make its present contents durable on the way.
Open(c) ==
    /\ keys[c] = NoKey
    /\ \E key \in Keys : keys' = [keys EXCEPT ![c] = key]
    /\ survivors' \in {survivors, {stored}}
    /\ UNCHANGED <<stored, calls, loaded>>

Begin(c) ==
    /\ keys[c] # NoKey
    /\ calls[c].op = "none"
    /\ \E op \in {"save", "delete"}, v \in StoredValues :
          /\ op = "delete" <=> v = NoValue
          /\ calls' = [calls EXCEPT ![c] = Call(op, v, "begun")]
    /\ UNCHANGED <<stored, survivors, keys, loaded>>

\* The replacement or the removal is published, in one piece.
TakeEffect(c) ==
    /\ calls[c].op # "none"
    /\ calls[c].stage = "begun"
    /\ stored' = IF calls[c].op = "delete" THEN Nothing
                 ELSE [value |-> calls[c].value, key |-> keys[c]]
    /\ survivors' = survivors \cup {stored'}
    /\ calls' = [calls EXCEPT ![c] = Call(@.op, @.value, "effective")]
    /\ UNCHANGED <<keys, loaded>>

\* The backend makes its present contents durable, on behalf of the call of c.
Flush(c) ==
    /\ calls[c].stage # "begun"
    /\ survivors' = {stored}
    /\ calls' = [calls EXCEPT ![c] = Call(@.op, @.value, "durable")]
    /\ UNCHANGED <<stored, keys, loaded>>

\* Success.  Only Save promises durability.
Succeed(c) ==
    /\ calls[c].stage # "begun"
    /\ calls[c].op = "save" => calls[c].stage = "durable"
    /\ calls' = [calls EXCEPT ![c] = NoCall]
    /\ UNCHANGED <<stored, survivors, keys, loaded>>

\* An error is returned.
Abandon(c) ==
    /\ calls[c].op # "none"
    /\ calls' = [calls EXCEPT ![c] = NoCall]
    /\ UNCHANGED <<stored, survivors, keys, loaded>>

\* The process of c ends, in a call or outside.
Close(c) ==
    /\ keys[c] # NoKey
    /\ keys' = [keys EXCEPT ![c] = NoKey]
    /\ calls' = [calls EXCEPT ![c] = NoCall]
    /\ loaded' = [loaded EXCEPT ![c] = NoValue]
    /\ UNCHANGED <<stored, survivors>>

Load(c) ==
    /\ keys[c] # NoKey
    /\ calls[c].op = "none"
    /\ loaded' = [loaded EXCEPT ![c] = IF stored.key = keys[c] THEN stored.value ELSE NoValue]
    /\ UNCHANGED <<stored, survivors, keys, calls>>

PowerLoss ==
    /\ stored' \in survivors
    /\ survivors' = {stored'}
    /\ keys' = [c \in Clients |-> NoKey]
    /\ calls' = [c \in Clients |-> NoCall]
    /\ loaded' = [c \in Clients |-> NoValue]

StoreNext ==
    \/ \E c \in Clients :
          \/ Open(c) \/ Begin(c) \/ TakeEffect(c) \/ Flush(c)
          \/ Succeed(c) \/ Abandon(c) \/ Close(c) \/ Load(c)
    \/ PowerLoss

StoreSpec == StoreInit /\ [][StoreNext]_storeVars
=============================================================================
