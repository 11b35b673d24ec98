----------------------------- MODULE TokenState -----------------------------
(***************************************************************************)
(* The value that Client holds in memory and TokenPersistence stores       *)
(* (state.go), and the pure predicates the commit paths decide on.         *)
(*                                                                         *)
(* A token is the serial number of the grant that minted it; 0 is the      *)
(* empty string, and 0 as a time is Go's zero time.  LastAuthAt is the     *)
(* serial number of the grant too: grants are stamped in the order they    *)
(* are made.  ExpiresAt always accompanies LastAuthAt and is left to the   *)
(* modules that model time.                                                *)
(*                                                                         *)
(* mono records whether the time fields still carry Go's monotonic clock   *)
(* reading.  The == of setStateLocked compares it along with the instant.  *)
(***************************************************************************)
EXTENDS Naturals

CONSTANT JSONStore \* TRUE: the store encodes to JSON (filestore);
                   \* FALSE: the default memoryStore keeps the Go value

ASSUME JSONStoreAssumption == JSONStore \in BOOLEAN

TokenStates == [access: Nat, refresh: Nat, id: Nat, lastAuthAt: Nat, mono: BOOLEAN]

ZeroState == [access |-> 0, refresh |-> 0, id |-> 0, lastAuthAt |-> 0, mono |-> FALSE]

IsZero(s) == s.access = 0 /\ s.refresh = 0 /\ s.id = 0

\* What a later Load returns for a saved s.  JSON encoding (and the process
\* boundary) strips the monotonic reading; memoryStore returns s itself.
Persisted(s) == IF JSONStore THEN [s EXCEPT !.mono = FALSE] ELSE s

\* commitCredentialRefusal's test that another process rotated the token.
supersededRefreshToken(persisted, attempted) ==
    /\ persisted.refresh # 0
    /\ persisted.refresh # attempted.refresh
    /\ persisted.lastAuthAt > attempted.lastAuthAt

\* The generation that records a refused credential: only the ID token is kept.
RefusedState(snapshot) == [ZeroState EXCEPT !.id = snapshot.id]
=============================================================================
