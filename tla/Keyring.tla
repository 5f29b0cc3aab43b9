------------------------------ MODULE Keyring ------------------------------
(***************************************************************************)
(* KeyringManager of src/src/main/engine/keyringManager.ts: the trusted and  *)
(* blocked creator keys and the user's signing identity, the two files they  *)
(* are kept in, the operating system's key store that seals the private key  *)
(* and may be closed, and the lockout between two generated identities.      *)
(*                                                                           *)
(* Every operation is synchronous: one step, its write included.  A write    *)
(* that fails is logged and forgotten.  A process that dies while it writes  *)
(* is a torn write and then a Restart.                                       *)
(***************************************************************************)
EXTENDS Naturals

CONSTANTS
    PublicKeys,   \* creators' keys
    Roots,        \* those of DEFAULT_TRUSTED_ROOTS
    Legacy,       \* placeholder keys of former versions, purged at every start
    Lockout,      \* lockoutDurationSeconds, in ticks of the clock
    FaultyDisk,   \* whether a write may be refused or cut off
    MaxNow,       \* bound: ticks of the clock
    MaxOps        \* bound: user operations and restarts

ASSUME KeyringAssumption ==
    /\ Roots \subseteq PublicKeys
    /\ Legacy \subseteq PublicKeys \ Roots
    /\ Lockout \in Nat
    /\ FaultyDisk \in BOOLEAN
    /\ MaxNow \in Nat
    /\ MaxOps \in Nat

VARIABLES
    ring,       \* KeyringEngine.entries: the trust level of every key
    identity,   \* userIdentity; key 0 is null
    ringFile,   \* keyring.json
    idFile,     \* user_identity.json
    vault,      \* safeStorage.isEncryptionAvailable() (external)
    now,        \* the clock (external)
    issued,     \* key pairs generated so far; the last one is the pair's number
    issuedAt,   \* history: when it was generated
    ruled,      \* history: keys the user blocked and has not touched since
    budget      \* user operations left

vars == <<ring, identity, ringFile, idFile, vault, now, issued, issuedAt, ruled, budget>>

-----------------------------------------------------------------------------
TrustLevel == {"VerifiedCreator", "Community", "Untrusted", "Blocked"}
Ring == [PublicKeys -> TrustLevel \cup {"none"}]
DefaultRing == [k \in PublicKeys |-> IF k \in Roots THEN "VerifiedCreator" ELSE "none"]

UserIdentity == [key: 0..MaxOps, secret: BOOLEAN, at: 0..MaxNow]
NoIdentity == [key |-> 0, secret |-> FALSE, at |-> 0]

\* A file is not there, does not parse, or holds what was last written.
FileStates == {"absent", "torn", "whole"}
Whole(content) == [state |-> "whole", content |-> content]

\* writeFileSync truncates before it writes, and its exception is swallowed.
Written(file, content) ==
    {Whole(content)} \cup
    IF FaultyDisk THEN {file, [file EXCEPT !.state = "torn"]} ELSE {}

Spend == budget > 0 /\ budget' = budget - 1

saveKeyring == ringFile' \in Written(ringFile, ring')

\* Without the vault, or with no private key to seal, the record has none.
saveUserIdentity ==
    idFile' \in Written(idFile, [identity' EXCEPT !.secret = @ /\ vault])

-----------------------------------------------------------------------------
\* Mutants, named after what they get wrong, stand before the definition they change.
addEntryInMemory(k, level) ==
    /\ ring' = [ring EXCEPT ![k] = level]
    /\ ruled' = IF level = "Blocked" THEN ruled \cup {k} ELSE ruled \ {k}
    /\ Spend
    /\ UNCHANGED <<ringFile, identity, idFile, vault, now, issued, issuedAt>>

addEntry(k, level) ==
    /\ ring' = [ring EXCEPT ![k] = level]
    /\ saveKeyring
    /\ ruled' = IF level = "Blocked" THEN ruled \cup {k} ELSE ruled \ {k}
    /\ Spend
    /\ UNCHANGED <<identity, idFile, vault, now, issued, issuedAt>>

removeEntry(k) ==
    /\ ring[k] # "none"
    /\ ring' = [ring EXCEPT ![k] = "none"]
    /\ saveKeyring
    /\ ruled' = ruled \ {k}
    /\ Spend
    /\ UNCHANGED <<identity, idFile, vault, now, issued, issuedAt>>

\* A bundle of keys at one level; an item without a level counts as Untrusted.  An item
\* that is null throws in the middle of the bundle: the items before it stay in memory,
\* and nothing is saved.
importKeyring(bundle, level, throws) ==
    /\ bundle # {}
    /\ ring' = [k \in PublicKeys |-> IF k \in bundle THEN level ELSE ring[k]]
    /\ IF throws THEN UNCHANGED ringFile ELSE saveKeyring
    /\ ruled' = ruled \ bundle
    /\ Spend
    /\ UNCHANGED <<identity, idFile, vault, now, issued, issuedAt>>

\* getLockoutStatus: whether nothing of the lockout remains.
canGenerateAfterRestart == identity.key = 0 \/ ~identity.secret \/ now - identity.at >= Lockout
canGenerate == identity.key = 0 \/ now - identity.at >= Lockout

GenerateInMilliseconds ==
    /\ canGenerate
    /\ issued' = issued + 1
    /\ issuedAt' = now
    /\ identity' = [key |-> issued + 1, secret |-> TRUE, at |-> 1000 * now]
    /\ saveUserIdentity

\* generateNewIdentity.
GenerateIdentity ==
    /\ canGenerate
    /\ issued' = issued + 1
    /\ issuedAt' = now
    /\ identity' = [key |-> issued + 1, secret |-> TRUE, at |-> now]
    /\ saveUserIdentity

\* The user asks for a new identity, or gives a name to the one there is not.
generateNewIdentity ==
    /\ GenerateIdentity
    /\ Spend
    /\ UNCHANGED <<ring, ringFile, vault, now, ruled>>

\* The name itself is left out: the record is written again as it is in memory.
updateUserAlias ==
    /\ identity.key # 0
    /\ UNCHANGED identity
    /\ saveUserIdentity
    /\ Spend
    /\ UNCHANGED <<ring, ringFile, vault, now, issued, issuedAt, ruled>>

-----------------------------------------------------------------------------
\* importKeyring on top of the default roots, then the purge.
LoadedRootsLast(file) ==
    [k \in PublicKeys |->
        IF k \in Legacy THEN "none"
        ELSE IF k \in Roots \/ file.content[k] = "none" THEN DefaultRing[k]
        ELSE file.content[k]]
Loaded(file) ==
    [k \in PublicKeys |->
        IF k \in Legacy THEN "none"
        ELSE IF file.content[k] = "none" THEN DefaultRing[k]
        ELSE file.content[k]]

Purges(file) == \E k \in Legacy : file.content[k] # "none"

\* An identity whose private key does not decrypt is kept without it.
OpenedIfSealed(file) ==
    IF file.state = "whole" /\ file.content.secret /\ vault THEN file.content ELSE NoIdentity
Opened(file) ==
    IF file.state = "whole" THEN [file.content EXCEPT !.secret = @ /\ vault] ELSE NoIdentity

\* initStorage: what throws while the keyring is read ends the whole of it, the loading of
\* the identity included.
Restart ==
    /\ \/ /\ ringFile.state = "torn"
          /\ ring' = DefaultRing
          /\ identity' = NoIdentity
          /\ UNCHANGED ringFile
       \/ /\ ringFile.state = "whole"
          /\ ring' = Loaded(ringFile)
          /\ IF Purges(ringFile) THEN saveKeyring ELSE UNCHANGED ringFile
          /\ identity' = Opened(idFile)
       \/ /\ ringFile.state = "absent"
          /\ ring' = DefaultRing
          /\ saveKeyring
          /\ identity' = Opened(idFile)
    /\ ruled' = ruled \ Legacy
    /\ Spend
    /\ UNCHANGED <<idFile, vault, now, issued, issuedAt>>

\* The key store is locked or unlocked, or its daemon comes and goes.
VaultChanges ==
    /\ vault' = ~vault
    /\ UNCHANGED <<ring, identity, ringFile, idFile, now, issued, issuedAt, ruled, budget>>

Tick ==
    /\ now < MaxNow
    /\ now' = now + 1
    /\ UNCHANGED <<ring, identity, ringFile, idFile, vault, issued, issuedAt, ruled, budget>>

\* The first start has found no files and written the default keyring.
Init ==
    /\ ring = DefaultRing
    /\ identity = NoIdentity
    /\ ringFile \in Written([state |-> "absent", content |-> DefaultRing], DefaultRing)
    /\ idFile = [state |-> "absent", content |-> NoIdentity]
    /\ vault \in BOOLEAN
    /\ now = 0
    /\ issued = 0
    /\ issuedAt = 0
    /\ ruled = {}
    /\ budget = MaxOps

Next ==
    \/ \E k \in PublicKeys : \/ \E level \in TrustLevel : addEntry(k, level)
                             \/ removeEntry(k)
    \/ \E bundle \in SUBSET PublicKeys, level \in TrustLevel, throws \in BOOLEAN :
           importKeyring(bundle, level, throws)
    \/ generateNewIdentity
    \/ updateUserAlias
    \/ Restart
    \/ VaultChanges
    \/ Tick

Spec == Init /\ [][Next]_vars

-----------------------------------------------------------------------------
\* Memory and both files hold what their interfaces in keyringManager.ts declare.
TypeOK ==
    /\ ring \in Ring
    /\ identity \in UserIdentity
    /\ ringFile \in [state: FileStates, content: Ring]
    /\ idFile \in [state: FileStates, content: UserIdentity]
    /\ vault \in BOOLEAN
    /\ now \in 0..MaxNow
    /\ issued \in 0..MaxOps
    /\ issuedAt \in 0..MaxNow
    /\ ruled \subseteq PublicKeys
    /\ budget \in 0..MaxOps

\* A key the user blocked stays blocked until the user adds, removes or imports it again:
\* over restarts, failed imports of other keys and the defaults that every start puts in.
BlockedStaysBlocked == \A k \in ruled : ring[k] = "Blocked"

\* The identity the process shows is the one generated last: neither a restart nor a closed
\* key store loses it or brings an older one back.
IdentityKept == identity.key = issued

\* Whatever restarts, closed key stores and renamings lie between them, two identities are
\* generated at least the lockout apart.
RegenerationSpaced ==
    [][issued > 0 /\ issued' # issued => now - issuedAt >= Lockout]_vars

=============================================================================
