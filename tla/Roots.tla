------------------------------- MODULE Roots -------------------------------
(***************************************************************************)
(* The identity roots (src/convex/aumlokRootRegistry.ts and                *)
(* aumlokCeremony.ts): a root is born once, with one key; a rotation       *)
(* signed by the active key retires it and activates a new one; a          *)
(* revocation kills an active or a retired key.  Every one of these is     *)
(* receipted on the root's own chain id:{rootId}.                          *)
(*                                                                         *)
(* Rows are never deleted.  A root key's row is its status and its public  *)
(* key, under (root, keyId); its fingerprint is its public key.  pinnedAt  *)
(* and retiredAt are written and never read.  A signature is the public    *)
(* key whose holder made it.  The operator's own authorisation, the rate   *)
(* limit of the ceremony, its freshness and the agreement of the fields of *)
(* challenge and summary can only refuse.                                  *)
(***************************************************************************)
EXTENDS Integers, Sequences

CONSTANTS
  Root, KeyId, PubKey, Ceremony,
  NoPubKey

ASSUME PubKeyAssumption == NoPubKey \notin PubKey

VARIABLES
  keyStatus,   \* aumlok_root_keys: the status of (root, keyId), "absent" before its row
  pubKey,      \* aumlok_root_keys: its public key
  lifecycle,   \* the receipts on id:{rootId}: event, key, and the key it activates
  ceremonies   \* aumlok_ceremonies: the ceremony ids used so far

rootVars == <<keyStatus, pubKey, lifecycle, ceremonies>>

RootKey == Root \X KeyId
Status == {"absent", "active", "retired", "revoked"}

Born(r) == \E k \in KeyId : keyStatus[<<r, k>>] # "absent"

\* Mutant: a dead key frees its fingerprint.
FingerprintAlive(p) == \E rk \in RootKey : pubKey[rk] = p /\ keyStatus[rk] # "revoked"

\* fingerprintInUse: one public key governs one identity, whatever its status.
FingerprintInUse(p) == \E rk \in RootKey : pubKey[rk] = p

Receipt(r, event, k, new) ==
  lifecycle' = [lifecycle EXCEPT ![r] = Append(@, [event |-> event, keyId |-> k, newKeyId |-> new])]

\* mintRootKeyRow: the two ways of birth share it.
MintRootKeyRow(r, k, p) ==
  /\ ~Born(r)
  /\ ~FingerprintInUse(p)
  /\ keyStatus' = [keyStatus EXCEPT ![<<r, k>>] = "active"]
  /\ pubKey' = [pubKey EXCEPT ![<<r, k>>] = p]

\* aumlokGenesisMint, by the operator.
GenesisMint(r, k, p) ==
  /\ MintRootKeyRow(r, k, p)
  /\ Receipt(r, "genesis", k, k)
  /\ UNCHANGED ceremonies

\* aumlokCeremonyMint: the challenge is signed by the key it brings, and its
\* ceremony id is used once.
CeremonyMint(c, r, k, p, signer) ==
  /\ signer = p
  /\ c \notin ceremonies
  /\ MintRootKeyRow(r, k, p)
  /\ ceremonies' = ceremonies \cup {c}
  /\ Receipt(r, "ceremony.birth", k, k)

\* Mutant: a retired key still rotates.
MayRotateRetired(r, k) == keyStatus[<<r, k>>] \in {"active", "retired"}

\* Mutant: a revoked key still rotates.
MayRotateRevoked(r, k) == keyStatus[<<r, k>>] \in {"active", "revoked"}

\* The old key must be there, and neither revoked nor retired.
MayRotate(r, k) == keyStatus[<<r, k>>] = "active"

\* aumlokRotateRoot: the flip of both rows.
RotateRoot(r, old, new, p, signer) ==
  /\ new # old
  /\ MayRotate(r, old)
  /\ keyStatus[<<r, new>>] = "absent"
  /\ ~FingerprintInUse(p)
  /\ signer = pubKey[<<r, old>>]
  /\ keyStatus' = [keyStatus EXCEPT ![<<r, old>>] = "retired", ![<<r, new>>] = "active"]
  /\ pubKey' = [pubKey EXCEPT ![<<r, new>>] = p]
  /\ Receipt(r, "rotate", old, new)
  /\ UNCHANGED ceremonies

\* The key is there and not dead yet.
Revocable(r, k) == keyStatus[<<r, k>>] \in {"active", "retired"}

\* aumlokRevokeRoot: the operator kills an active or a retired key.
RevokeRoot(r, k) ==
  /\ Revocable(r, k)
  /\ keyStatus' = [keyStatus EXCEPT ![<<r, k>>] = "revoked"]
  /\ Receipt(r, "revoke", k, k)
  /\ UNCHANGED <<pubKey, ceremonies>>

RootsInit ==
  /\ keyStatus = [rk \in RootKey |-> "absent"]
  /\ pubKey = [rk \in RootKey |-> NoPubKey]
  /\ lifecycle = [r \in Root |-> <<>>]
  /\ ceremonies = {}

RootsNext ==
  \/ \E r \in Root, k \in KeyId, p \in PubKey : GenesisMint(r, k, p)
  \/ \E c \in Ceremony, r \in Root, k \in KeyId, p \in PubKey, s \in PubKey :
       CeremonyMint(c, r, k, p, s)
  \/ \E r \in Root, old \in KeyId, new \in KeyId, p \in PubKey, s \in PubKey :
       RotateRoot(r, old, new, p, s)
  \/ \E r \in Root, k \in KeyId : RevokeRoot(r, k)

RootsSpec == RootsInit /\ [][RootsNext]_rootVars

-----------------------------------------------------------------------------
Event == [event: {"genesis", "ceremony.birth", "rotate", "revoke"},
          keyId: KeyId, newKeyId: KeyId]

\* The registry holds well-formed rows, each with its public key.
RootsTypeOK ==
  /\ keyStatus \in [RootKey -> Status]
  /\ pubKey \in [RootKey -> PubKey \cup {NoPubKey}]
  /\ \A rk \in RootKey : keyStatus[rk] = "absent" <=> pubKey[rk] = NoPubKey
  /\ lifecycle \in [Root -> Seq(Event)]
  /\ ceremonies \subseteq Ceremony

\* The status of a key as a reader of the root's receipts would tell it: some
\* receipt brought it in, then a rotation may have retired it, and a revocation
\* has the last word.
Named(r, k, events) == \E i \in DOMAIN lifecycle[r] :
                         lifecycle[r][i].event \in events /\ lifecycle[r][i].keyId = k
BroughtIn(r, k) == \E i \in DOMAIN lifecycle[r] :
                     lifecycle[r][i].event # "revoke" /\ lifecycle[r][i].newKeyId = k

\* The registry can be replayed from its receipts: no order of births, rotations
\* and revocations leaves a key with a status its receipts do not tell (the
\* receipt is written after the flip, from the row that was read before it).
RegistryMatchesReceipts ==
  \A r \in Root, k \in KeyId :
    keyStatus[<<r, k>>] = IF ~BroughtIn(r, k) THEN "absent"
                      ELSE IF Named(r, k, {"revoke"}) THEN "revoked"
                      ELSE IF Named(r, k, {"rotate"}) THEN "retired"
                      ELSE "active"

\* The key the last birth or rotation of a root brought in.
Newest(r, k) ==
  \E i \in DOMAIN lifecycle[r] :
    /\ lifecycle[r][i].event # "revoke" /\ lifecycle[r][i].newKeyId = k
    /\ \A j \in DOMAIN lifecycle[r] : j > i => lifecycle[r][j].event = "revoke"

\* Only the newest key of a root may be active: two rotations authored by the
\* same key never both land, nor does one authored by an older key, whatever is
\* revoked between them; so a root has at most one active key.
NewestKeyGoverns ==
  \A r \in Root, k \in KeyId : keyStatus[<<r, k>>] = "active" => Newest(r, k)

\* A public key governs one root under one key id, for ever: not even a revoked
\* key's row frees its fingerprint (schema.ts:283).
OneIdentityPerKey ==
  \A rk, sk \in RootKey : pubKey[rk] # NoPubKey /\ pubKey[rk] = pubKey[sk] => rk = sk

\* A key only goes from active to retired to revoked, and keeps its public key:
\* what it signed while it was active is verified with the same key for ever.
Rank == [absent |-> 0, active |-> 1, retired |-> 2, revoked |-> 3]
KeysOnlyRetire ==
  [][\A rk \in RootKey :
       /\ Rank[keyStatus[rk]] <= Rank[keyStatus'[rk]]
       /\ keyStatus[rk] # "absent" => pubKey'[rk] = pubKey[rk]]_rootVars

=============================================================================
