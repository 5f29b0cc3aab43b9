--------------------------- MODULE KeyringProofs ---------------------------
(***************************************************************************)
(* Proofs about Keyring, for every set of keys, every lockout and every      *)
(* bound: the types always, the rest as long as the disk writes.             *)
(***************************************************************************)
EXTENDS Keyring, TLAPS

-----------------------------------------------------------------------------
\* A generated pair costs an operation: the bound on pairs is the bound on operations.
IdsBounded == issued + budget <= MaxOps

RingFile == [state: FileStates, content: Ring]
IdFile == [state: FileStates, content: UserIdentity]

LEMMA DefaultsTyped ==
    /\ DefaultRing \in Ring
    /\ NoIdentity \in UserIdentity
BY KeyringAssumption DEF DefaultRing, Ring, TrustLevel, NoIdentity, UserIdentity

LEMMA WrittenRing ==
    ASSUME NEW file \in RingFile, NEW content \in Ring
    PROVE  /\ Written(file, content) \subseteq RingFile
           /\ ~FaultyDisk => Written(file, content) = {Whole(content)}
<1>1. Whole(content) \in RingFile /\ [file EXCEPT !.state = "torn"] \in RingFile
  BY DEF RingFile, FileStates, Whole
<1> QED
  BY <1>1 DEF Written

LEMMA WrittenIdentity ==
    ASSUME NEW file \in IdFile, NEW content \in UserIdentity
    PROVE  /\ Written(file, content) \subseteq IdFile
           /\ ~FaultyDisk => Written(file, content) = {Whole(content)}
<1>1. Whole(content) \in IdFile /\ [file EXCEPT !.state = "torn"] \in IdFile
  BY DEF IdFile, FileStates, Whole
<1> QED
  BY <1>1 DEF Written

LEMMA LoadedTyped ==
    ASSUME NEW file \in RingFile
    PROVE  Loaded(file) \in Ring
BY DefaultsTyped DEF Loaded, RingFile, Ring

LEMMA OpenedTyped ==
    ASSUME NEW file \in IdFile, vault \in BOOLEAN
    PROVE  Opened(file) \in UserIdentity
BY DefaultsTyped DEF Opened, IdFile, UserIdentity

\* What is written of an identity: all of it but the private key, which only the vault seals.
LEMMA SealedTyped ==
    ASSUME NEW id \in UserIdentity, vault \in BOOLEAN
    PROVE  /\ [id EXCEPT !.secret = @ /\ vault] \in UserIdentity
           /\ [id EXCEPT !.secret = @ /\ vault].key = id.key
           /\ [id EXCEPT !.secret = @ /\ vault].at = id.at
BY DEF UserIdentity

-----------------------------------------------------------------------------
Typed == TypeOK /\ IdsBounded

LEMMA SpendTyped ==
    ASSUME Typed, Spend
    PROVE  budget' \in 0..MaxOps /\ budget' = budget - 1 /\ budget > 0
BY KeyringAssumption DEF Typed, TypeOK, Spend

LEMMA SaveKeyringTyped ==
    ASSUME Typed, ring' \in Ring, saveKeyring
    PROVE  ringFile' \in RingFile
BY WrittenRing DEF Typed, TypeOK, saveKeyring, RingFile

LEMMA SaveIdentityTyped ==
    ASSUME Typed, identity' \in UserIdentity, saveUserIdentity
    PROVE  idFile' \in IdFile
<1>1. [identity' EXCEPT !.secret = @ /\ vault] \in UserIdentity
  BY SealedTyped DEF Typed, TypeOK
<1> QED
  BY <1>1, WrittenIdentity DEF Typed, TypeOK, saveUserIdentity, IdFile

LEMMA RingStepsTyped ==
    ASSUME Typed, NEW k \in PublicKeys, NEW level \in TrustLevel,
           addEntry(k, level) \/ removeEntry(k)
    PROVE  Typed'
<1>1. ring' \in Ring
  BY DEF Typed, TypeOK, addEntry, removeEntry, Ring
<1>2. ringFile' \in RingFile
  BY <1>1, SaveKeyringTyped DEF addEntry, removeEntry
<1> QED
  BY <1>1, <1>2, SpendTyped, KeyringAssumption
  DEF Typed, TypeOK, IdsBounded, addEntry, removeEntry, RingFile

LEMMA ImportTyped ==
    ASSUME Typed, NEW bundle \in SUBSET PublicKeys, NEW level \in TrustLevel,
           NEW throws \in BOOLEAN, importKeyring(bundle, level, throws)
    PROVE  Typed'
<1>1. ring' \in Ring
  BY DEF Typed, TypeOK, importKeyring, Ring
<1>2. ringFile' \in RingFile
  BY <1>1, SaveKeyringTyped DEF Typed, TypeOK, importKeyring, RingFile
<1> QED
  BY <1>1, <1>2, SpendTyped, KeyringAssumption
  DEF Typed, TypeOK, IdsBounded, importKeyring, RingFile

LEMMA GenerateTyped ==
    ASSUME Typed, generateNewIdentity
    PROVE  Typed'
<1>1. issued' \in 0..MaxOps /\ budget' \in 0..MaxOps /\ issued' + budget' <= MaxOps
  BY SpendTyped, KeyringAssumption
  DEF Typed, TypeOK, IdsBounded, generateNewIdentity, GenerateIdentity
<1>2. identity' \in UserIdentity
  BY <1>1 DEF Typed, TypeOK, generateNewIdentity, GenerateIdentity, UserIdentity
<1>3. idFile' \in IdFile
  BY <1>2, SaveIdentityTyped DEF generateNewIdentity, GenerateIdentity
<1> QED
  BY <1>1, <1>2, <1>3
  DEF Typed, TypeOK, IdsBounded, generateNewIdentity, GenerateIdentity, IdFile

LEMMA AliasTyped ==
    ASSUME Typed, updateUserAlias
    PROVE  Typed'
<1>1. idFile' \in IdFile
  BY SaveIdentityTyped DEF Typed, TypeOK, updateUserAlias
<1> QED
  BY <1>1, SpendTyped, KeyringAssumption DEF Typed, TypeOK, IdsBounded, updateUserAlias, IdFile

LEMMA RestartTyped ==
    ASSUME Typed, Restart
    PROVE  Typed'
<1>1. ring' \in Ring
  BY DefaultsTyped, LoadedTyped DEF Typed, TypeOK, Restart, RingFile
<1>2. ringFile' \in RingFile
  BY <1>1, SaveKeyringTyped DEF Typed, TypeOK, Restart, RingFile
<1>3. identity' \in UserIdentity
  BY DefaultsTyped, OpenedTyped DEF Typed, TypeOK, Restart, IdFile
<1> QED
  BY <1>1, <1>2, <1>3, SpendTyped, KeyringAssumption
  DEF Typed, TypeOK, IdsBounded, Restart, RingFile

LEMMA TypedInductive == Typed /\ [Next]_vars => Typed'
<1> SUFFICES ASSUME Typed, [Next]_vars PROVE Typed'
  OBVIOUS
<1>1. ASSUME NEW k \in PublicKeys, (\E level \in TrustLevel : addEntry(k, level)) \/ removeEntry(k)
      PROVE  Typed'
  BY <1>1, RingStepsTyped DEF TrustLevel
<1>2. ASSUME NEW bundle \in SUBSET PublicKeys, NEW level \in TrustLevel, NEW throws \in BOOLEAN,
             importKeyring(bundle, level, throws)
      PROVE  Typed'
  BY <1>2, ImportTyped
<1>3. CASE VaultChanges
  BY <1>3 DEF Typed, TypeOK, IdsBounded, VaultChanges
<1>4. CASE Tick
  BY <1>4, KeyringAssumption DEF Typed, TypeOK, IdsBounded, Tick
<1>5. CASE UNCHANGED vars
  BY <1>5 DEF Typed, TypeOK, IdsBounded, vars
<1> QED
  BY <1>1, <1>2, <1>3, <1>4, <1>5, GenerateTyped, AliasTyped, RestartTyped DEF Next

LEMMA InitTyped == Init => Typed
<1> SUFFICES ASSUME Init PROVE Typed
  OBVIOUS
<1>1. [state |-> "absent", content |-> DefaultRing] \in RingFile
  BY DefaultsTyped DEF RingFile, FileStates
<1>2. ringFile \in RingFile
  BY <1>1, DefaultsTyped, WrittenRing DEF Init
<1> QED
  BY <1>2, DefaultsTyped, KeyringAssumption
  DEF Init, Typed, TypeOK, IdsBounded, RingFile, FileStates

\* Memory and both files keep their types, however the disk fails.
THEOREM TypeCorrect == Spec => []TypeOK
<1>1. Typed => TypeOK
  BY DEF Typed
<1> QED
  BY <1>1, InitTyped, TypedInductive, PTL DEF Spec

-----------------------------------------------------------------------------
(* With a disk that writes.  A restart reads the files, so the invariant says of them what  *)
(* the properties say of memory.                                                            *)
RulingsKept ==
    /\ ringFile.state = "whole"
    /\ \A k \in ruled : ring[k] = "Blocked" /\ ringFile.content[k] = "Blocked"

LastIdentityKept ==
    /\ identity.key = issued
    /\ issued > 0 => identity.at = issuedAt
    /\ IF issued = 0 THEN idFile.state = "absent"
       ELSE /\ idFile.state = "whole"
            /\ idFile.content.key = issued
            /\ idFile.content.at = issuedAt

Durable == ~FaultyDisk => RulingsKept /\ LastIdentityKept

LEMMA Saved ==
    ASSUME Typed, ring' \in Ring, saveKeyring, ~FaultyDisk
    PROVE  ringFile' = Whole(ring')
BY WrittenRing DEF Typed, TypeOK, saveKeyring, RingFile

LEMMA IdentitySaved ==
    ASSUME Typed, identity' \in UserIdentity, saveUserIdentity, ~FaultyDisk
    PROVE  /\ idFile'.state = "whole"
           /\ idFile'.content.key = identity'.key
           /\ idFile'.content.at = identity'.at
<1> DEFINE sealed == [identity' EXCEPT !.secret = @ /\ vault]
<1>1. sealed \in UserIdentity /\ sealed.key = identity'.key /\ sealed.at = identity'.at
  BY SealedTyped DEF Typed, TypeOK
<1>2. idFile' = Whole(sealed)
  BY <1>1, WrittenIdentity DEF Typed, TypeOK, saveUserIdentity, IdFile
<1> QED
  BY <1>1, <1>2 DEF Whole

LEMMA RulingsKeptByUser ==
    ASSUME Typed, Typed', RulingsKept, ~FaultyDisk, NEW k \in PublicKeys, NEW level \in TrustLevel,
           addEntry(k, level) \/ removeEntry(k)
    PROVE  RulingsKept'
<1>1. ring \in Ring /\ ring' \in Ring /\ ruled \subseteq PublicKeys
  BY DEF Typed, TypeOK
<1>2. ringFile' = Whole(ring')
  BY <1>1, Saved DEF addEntry, removeEntry
<1>3. \A j \in ruled' : ring'[j] = "Blocked"
  BY <1>1 DEF RulingsKept, addEntry, removeEntry, Ring
<1> QED
  BY <1>2, <1>3 DEF RulingsKept, Whole

LEMMA RulingsKeptByImport ==
    ASSUME Typed, Typed', RulingsKept, ~FaultyDisk, NEW bundle \in SUBSET PublicKeys,
           NEW level \in TrustLevel, NEW throws \in BOOLEAN, importKeyring(bundle, level, throws)
    PROVE  RulingsKept'
<1>1. ring \in Ring /\ ring' \in Ring /\ ruled \subseteq PublicKeys
  BY DEF Typed, TypeOK
<1>2. \A j \in ruled' : j \in ruled /\ ring'[j] = "Blocked"
  BY <1>1 DEF RulingsKept, importKeyring
<1>3. CASE throws
  BY <1>2, <1>3 DEF RulingsKept, importKeyring
<1>4. CASE ~throws
  <2>1. ringFile' = Whole(ring')
    BY <1>1, <1>4, Saved DEF importKeyring
  <2> QED
    BY <1>2, <2>1 DEF RulingsKept, Whole
<1> QED
  BY <1>3, <1>4

LEMMA RulingsKeptByRestart ==
    ASSUME Typed, Typed', RulingsKept, ~FaultyDisk, Restart
    PROVE  RulingsKept'
<1>1. ring' = Loaded(ringFile) /\ ring' \in Ring /\ ruled \subseteq PublicKeys
  BY DEF Typed, TypeOK, RulingsKept, Restart
<1>2. \A j \in ruled' : j \in PublicKeys \ Legacy /\ ringFile.content[j] = "Blocked"
  BY <1>1 DEF RulingsKept, Restart
<1>3. \A j \in ruled' : ring'[j] = "Blocked"
  BY <1>1, <1>2 DEF Loaded
<1>4. ringFile' = Whole(ring') \/ ringFile' = ringFile
  BY <1>1, Saved DEF RulingsKept, Restart
<1> QED
  BY <1>2, <1>3, <1>4 DEF RulingsKept, Whole

LEMMA DurableInductive == Typed /\ Typed' /\ Durable /\ [Next]_vars => Durable'
<1> SUFFICES ASSUME Typed, Typed', ~FaultyDisk, RulingsKept, LastIdentityKept, [Next]_vars
             PROVE  RulingsKept' /\ LastIdentityKept'
  BY DEF Durable
<1>1. CASE \E k \in PublicKeys : (\E level \in TrustLevel : addEntry(k, level)) \/ removeEntry(k)
  <2>1. UNCHANGED <<identity, idFile, issued, issuedAt>>
    BY <1>1 DEF addEntry, removeEntry
  <2> QED
    BY <1>1, <2>1, RulingsKeptByUser DEF LastIdentityKept, TrustLevel
<1>2. CASE \E bundle \in SUBSET PublicKeys, level \in TrustLevel, throws \in BOOLEAN :
               importKeyring(bundle, level, throws)
  <2>1. UNCHANGED <<identity, idFile, issued, issuedAt>>
    BY <1>2 DEF importKeyring
  <2> QED
    BY <1>2, <2>1, RulingsKeptByImport DEF LastIdentityKept
<1>3. CASE generateNewIdentity
  <2>1. RulingsKept'
    BY <1>3 DEF RulingsKept, generateNewIdentity
  <2>2. /\ identity'.key = issued' /\ identity'.at = issuedAt'
        /\ issued' = issued + 1
    BY <1>3 DEF generateNewIdentity, GenerateIdentity
  <2>3. /\ idFile'.state = "whole"
        /\ idFile'.content.key = identity'.key
        /\ idFile'.content.at = identity'.at
    BY <1>3, IdentitySaved DEF Typed, TypeOK, generateNewIdentity, GenerateIdentity
  <2>4. issued' # 0
    BY <2>2 DEF Typed, TypeOK
  <2> QED
    BY <2>1, <2>2, <2>3, <2>4 DEF LastIdentityKept
<1>4. CASE updateUserAlias
  <2>1. RulingsKept' /\ issued # 0 /\ UNCHANGED <<identity, issued, issuedAt>>
    BY <1>4 DEF RulingsKept, LastIdentityKept, updateUserAlias
  <2>2. /\ idFile'.state = "whole"
        /\ idFile'.content.key = identity'.key
        /\ idFile'.content.at = identity'.at
    BY <1>4, IdentitySaved DEF Typed, TypeOK, updateUserAlias
  <2> QED
    BY <2>1, <2>2 DEF LastIdentityKept, Typed, TypeOK
<1>5. CASE Restart
  <2>1. identity' = Opened(idFile) /\ UNCHANGED <<idFile, issued, issuedAt>>
    BY <1>5 DEF RulingsKept, Restart
  <2>2. idFile.state = "whole" => Opened(idFile).key = idFile.content.key
                                  /\ Opened(idFile).at = idFile.content.at
    BY SealedTyped DEF Typed, TypeOK, Opened
  <2>3. idFile.state = "absent" => Opened(idFile).key = 0
    BY DEF Opened, NoIdentity
  <2>4. LastIdentityKept'
    BY <2>1, <2>2, <2>3 DEF LastIdentityKept, Typed, TypeOK
  <2> QED
    BY <1>5, <2>4, RulingsKeptByRestart
<1>6. CASE VaultChanges \/ Tick \/ UNCHANGED vars
  BY <1>6 DEF RulingsKept, LastIdentityKept, VaultChanges, Tick, vars
<1> QED
  BY <1>1, <1>2, <1>3, <1>4, <1>5, <1>6 DEF Next

LEMMA InitDurable == Init => Durable
<1> SUFFICES ASSUME Init, ~FaultyDisk PROVE RulingsKept /\ LastIdentityKept
  BY DEF Durable
<1>1. ringFile = Whole(DefaultRing)
  BY DEF Init, Written
<1> QED
  BY <1>1 DEF Init, RulingsKept, LastIdentityKept, Whole, NoIdentity

LEMMA AlwaysDurable == Spec => [](Typed /\ Durable)
BY InitTyped, InitDurable, TypedInductive, DurableInductive, PTL DEF Spec

\* On a disk that writes, no restart, failed import or default takes back a user's block.
THEOREM BlocksSurvive ==
    ASSUME ~FaultyDisk
    PROVE  Spec => []BlockedStaysBlocked
<1>1. Durable => BlockedStaysBlocked
  BY DEF Durable, RulingsKept, BlockedStaysBlocked
<1> QED
  BY <1>1, AlwaysDurable, PTL

\* On a disk that writes, the identity in use is always the last one generated.
THEOREM IdentitySurvives ==
    ASSUME ~FaultyDisk
    PROVE  Spec => []IdentityKept
<1>1. Durable => IdentityKept
  BY DEF Durable, LastIdentityKept, IdentityKept
<1> QED
  BY <1>1, AlwaysDurable, PTL

\* On a disk that writes, two identities are generated at least the lockout apart, whatever
\* restarts and closed key stores lie between them.
THEOREM LockoutHolds ==
    ASSUME ~FaultyDisk
    PROVE  Spec => RegenerationSpaced
<1>1. Typed /\ Durable /\ [Next]_vars
      => [issued > 0 /\ issued' # issued => now - issuedAt >= Lockout]_vars
  <2> SUFFICES ASSUME Typed, Durable, Next, issued > 0, issued' # issued
               PROVE  now - issuedAt >= Lockout
    BY DEF vars
  <2>1. generateNewIdentity
    BY DEF Next, addEntry, removeEntry, importKeyring, updateUserAlias, Restart, VaultChanges,
           Tick
  <2>2. identity.key # 0 /\ identity.at = issuedAt
    BY DEF Durable, LastIdentityKept, Typed, TypeOK
  <2> QED
    BY <2>1, <2>2 DEF generateNewIdentity, GenerateIdentity, canGenerate
<1> QED
  BY <1>1, AlwaysDurable, PTL DEF Spec, RegenerationSpaced

=============================================================================
